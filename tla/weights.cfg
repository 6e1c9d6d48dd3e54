\* Up to three shards on a pool of two threads; every fetch can fail,
\* and Ctrl-C is pressed up to twice.
SPECIFICATION FairSpec
CONSTANTS
  Repositories <- SmallRepositories
  MaxWorkers = 2
  MaxInterrupts = 2
INVARIANTS SameAsLocal Resident NoStrayReads
PROPERTIES Ends FailureSurfaces
