\* A duration_s run of two workers under fairness: a budget of three requests, one
\* warm-up.  The deadline can pass at any moment, even during the warm-up, or never,
\* and then the run is one of n_requests.
SPECIFICATION FairSpec
CONSTANTS
  Concurrency = 2
  Limit = 3
  Timed = TRUE
  Warmups = 1
  MaxTokens = 1
  MaxInterrupts = 2
INVARIANTS TypeOK NoOvershoot ReturnIsComplete NoOrphanRequests WarmupIsolated OneLateRequest
PROPERTIES ProgressCountsUp MeetsBudget Terminates CrashSurfaces
