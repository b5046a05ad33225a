SPECIFICATION Spec
CONSTANTS
  Timer = {t1, t2}
  NoTimer = null
  Beat = {b1}
  Main = main
  MaxLosses = 0
SYMMETRY Symmetry
INVARIANT
  StaysDeregistered
CHECK_DEADLOCK FALSE
