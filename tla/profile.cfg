\* Four layouts and their mixtures, experts or none, NVML failing at any query.
SPECIFICATION Spec
CONSTANTS
  Entries <- MCEntries
  Memory = 8
  Commands <- MCCommands
  Devices <- OneDevice
  Configs <- MCConfigs
  Dense = {1, 400}
INVARIANTS CacheCountsEveryLayer ActiveCovers NvmlClosed
