\* Is the critical batch size where compute becomes the wall, for 8-bit weights?
SPECIFICATION CalibrationSpec
CONSTANTS
  Setups <- DenseFp8
  Efficiencies = {1, 2}
  Concurrencies = {4, 12}
  Traffic <- MCTraffic
  Disturbances = {0, 500, 40000}
  MaxPoints = 1
INVARIANTS CriticalIsWall
