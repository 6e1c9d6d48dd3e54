\* Are the shards of the index always what is summed?
SPECIFICATION Spec
CONSTANTS
  Repositories <- SmallRepositories
  MaxWorkers = 2
  MaxInterrupts = 0
INVARIANTS EveryShardSummed
