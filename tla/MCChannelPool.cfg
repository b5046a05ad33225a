SPECIFICATION FairSpec
CONSTANTS
  Thread = {t1, t2}
  Endpoint = {e1, e2}
  Notifier = notifier
  NoList = NoList
  NoEndpoint = NoEndpoint
  MaxChannels = 9
  MaxCalls = 2
  MaxFlips = 1
  MaxLosses = 1
  MaxChanges = 1
  MaxFailures = 1
INVARIANTS
  TypeOK
  FailoverHitsCache
  EntriesConnected
  StableSharing
  CreatedStaysOpen
  BuildsToTheEnd
PROPERTIES
  CallsGetNearer
  CallEnds
CONSTRAINT OneTrouble
CHECK_DEADLOCK FALSE
