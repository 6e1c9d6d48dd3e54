\* Is the headroom the largest concurrency that fits, for every cache?
SPECIFICATION Spec
CONSTANTS
  GraphBase = 64
  GraphPerHidden = 40
  Workspace = 128
  Ceiling = 64
  Requests <- WindowedRequests
  Schemas <- Installed
INVARIANTS LargestFits
