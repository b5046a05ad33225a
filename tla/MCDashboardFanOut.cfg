SPECIFICATION MCSpec
CONSTANTS
  Instance = {i1, i2}
  Dashboard = {d1, d2}
  Method = {m1, throttleCmd}
  ThrottleCmd = throttleCmd
  MaxOps = 2
  MaxStarts = 1
INVARIANTS
  TypeOK
  SuccessMeansAll
  Agreement
PROPERTIES
  OperationEnds
CHECK_DEADLOCK FALSE
