SPECIFICATION FairCacheSpec
CONSTANTS
  Getter = {g1}
  List = {none, a}
  EmptyList = none
  MaxIndex = 2
  MaxFaults = 0
PROPERTY
  CacheConverges
CHECK_DEADLOCK FALSE
