\* Every request, engine version and way of compiling.
SPECIFICATION Spec
CONSTANTS
  GraphBase = 64
  GraphPerHidden = 40
  Workspace = 128
  Ceiling = 64
  Requests <- GrowingRequests
  Schemas <- Installed
INVARIANTS Reconciles HeadroomFits SearchCheap BindingReal SwitchSafe EngineHonoursPlan
