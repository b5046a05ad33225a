SPECIFICATION FairSpec
CONSTANTS
  Timer = {t1, t2, t3}
  NoTimer = null
  Beat = {b1, b2}
  Main = main
  MaxLosses = 2
INVARIANTS
  TypeOK
  HeartbeatAlive
  StoppedWithTcp
PROPERTY
  Reregisters
CHECK_DEADLOCK FALSE
