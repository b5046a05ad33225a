SPECIFICATION LeakSpec
CONSTANTS
  Thread = {t1, t2}
  Endpoint = {e1, e2}
  Notifier = notifier
  NoList = NoList
  NoEndpoint = NoEndpoint
  MaxChannels = 6
  MaxCalls = 3
  MaxFlips = 0
  MaxLosses = 1
  MaxChanges = 1
  MaxFailures = 0
SYMMETRY Symmetry
INVARIANTS
  LeakedChannels
  DeadEntries
  StrayEntries
CHECK_DEADLOCK FALSE
