\* A ladder of three rungs given out of order; two requests per point at least.
SPECIFICATION BenchmarkSpec
CONSTANTS
  Ladder <- MCLadder
  RequestsPerPoint = 2
  MaxErrorPercent = 25
  Throughputs = {100, 101, 102}
  Latencies = {1, 3}
  Limits <- MCLimits
INVARIANTS ClimbJustified SaturationAgrees SlaStopKeepsKnee
INVARIANTS RecordedSweepsFinished ExitTellsTruth
