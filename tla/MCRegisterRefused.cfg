SPECIFICATION Spec
CONSTANTS
  Timer = {t1, t2}
  NoTimer = null
  Beat = {b1}
  Main = main
  MaxLosses = 2
SYMMETRY Symmetry
INVARIANT
  RefusedIsHarmless
CHECK_DEADLOCK FALSE
