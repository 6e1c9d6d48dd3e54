\* Three points of any kind, from five setups.
SPECIFICATION CalibrationSpec
CONSTANTS
  Setups <- MCSetups
  Efficiencies = {1, 2}
  Concurrencies = {4, 16}
  Traffic <- MCTraffic
  Disturbances = {0, 500, 40000}
  MaxPoints = 3
INVARIANTS  MedianRecovers CriticalIsWall
