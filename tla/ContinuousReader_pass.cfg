SPECIFICATION Spec
CONSTANTS
  r1 = r1
  r2 = r2
  Requests <- RequestSet
  Readers = {1, 2}
  QueueMax = 2
  MaxLines = 2
  Cuts = {1}
  StartModes = {"VT"}
  Settings = 2
  Ops <- AllOps
INVARIANTS Whole Backed InOrder
SYMMETRY Symmetry
CHECK_DEADLOCK FALSE
