SPECIFICATION FairSpec
CONSTANTS
  NSlots = 2
  Callers = {bulk, sysmon}
  Dsp = dsp
  NoThread = none
  MaxImages = 3
  MenuLoads = TRUE
  BadPatches = TRUE
INVARIANTS
  TypeOK
  WorkerStackFree
  DspPlaysLive
  InstanceHasOwner
  UiInitFindsPatch
PROPERTIES
  TakenDownAfterLetGo
  ImplementsLifecycle
  NoImageLost
  OnlyDspDeadlockBlocks
CHECK_DEADLOCK FALSE
