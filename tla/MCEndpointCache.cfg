SPECIFICATION FairCacheSpec
CONSTANTS
  Getter = {g1, g2}
  List = {none, a}
  EmptyList = none
  MaxIndex = 3
  MaxFaults = 1
INVARIANTS
  CacheTypeOK
  NothingLost
PROPERTIES
  EventsIncrease
  CacheAdvances
  Notified
  ChangeReachesCache
CHECK_DEADLOCK FALSE
