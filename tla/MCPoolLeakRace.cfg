SPECIFICATION Spec
CONSTANTS
  Thread = {t1, t2}
  Endpoint = {e1}
  Notifier = notifier
  NoList = NoList
  NoEndpoint = NoEndpoint
  MaxChannels = 4
  MaxCalls = 3
  MaxFlips = 0
  MaxLosses = 1
  MaxChanges = 0
  MaxFailures = 0
INVARIANT
  ShutdownClosesUp
CHECK_DEADLOCK FALSE
