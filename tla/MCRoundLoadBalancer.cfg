SPECIFICATION Spec
CONSTANTS
  steady = steady
  varying = varying
  Thread = {t1, t2, t3}
  Service = {steady, varying}
  Endpoint = {1, 2, 3}
  Lists <- MCLists
  MaxLength = 3
  MaxCalls = 6
INVARIANTS
  TypeOK
  IndexInRange
  IndexBounded
  Balanced
SYMMETRY Symmetry
CHECK_DEADLOCK FALSE
