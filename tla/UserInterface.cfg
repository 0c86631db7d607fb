SPECIFICATION FairSpec
CONSTANTS
  StackSize = 4
  MaxEvents = 4
  MaxTurns = 1
  MaxCalls = 1
INVARIANTS
  TypeOK
  ScreenFollows
  ParamsLive
PROPERTIES
  LastButtonHandled
CHECK_DEADLOCK FALSE
