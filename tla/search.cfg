\* Three candidates for two boots, every ranking of them on each axis and by measurement.
SPECIFICATION Spec
CONSTANTS
  Count = 3
  Budget = 2
  Predictions = {1, 2, 3}
  Measurements = {0, 1, 2}
INVARIANTS NothingBetterSkipped FindsBest
