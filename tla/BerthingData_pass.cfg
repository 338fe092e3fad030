SPECIFICATION Spec
CONSTANTS
  near = near
  far = far
  laser = laser
  Lidars = {near, far}
  Lasers = {laser}
  Watchers = {w1, w2}
  Fittings <- MCFittings
  Distances <- MCDistances
  Offset <- MCOffset
  CutOff <- MCCutOff
  Pauses = {1, 3}
  HistorySeconds = 4
  AverageSeconds = 4
  Bounds <- MCBounds
INVARIANTS WindowIsTail LevelsCountCalls
SYMMETRY MCSymmetry
CHECK_DEADLOCK FALSE
