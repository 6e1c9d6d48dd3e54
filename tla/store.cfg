\* Two processes and two runs of up to two points, under fairness.
SPECIFICATION FairSpec
CONSTANTS
  Procs = {p1, p2}
  PointCounts = {0, 1, 2}
  MaxRuns = 2
INVARIANTS ListingWhole SchemaBeforeUse CountCoversRuns
PROPERTIES KeepsRunLog CallsEnd
