SPECIFICATION MCSpec
CONSTANTS
  Method = {m1, throttleCmd, saveCmd, metaInvoke}
  NoMethod = null
  Caller = {c1, c2}
  MaxCommands = 3
  ThrottleCmd = throttleCmd
  SaveCmd = saveCmd
  MetaInvoke = metaInvoke
  Target = {m1, throttleCmd}
  NoCaller = program
  MaxCalls = 4
INVARIANTS
  PipelineTypeOK
  LastCommandWins
  CheckSound
  ThrottleObeyed
  TraceFollows
PROPERTIES
  LockedOut
SYMMETRY Symmetry
CHECK_DEADLOCK FALSE
