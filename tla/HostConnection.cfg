SPECIFICATION FairSpec
CONSTANTS
  Reader = reader
  Consumer = consumer
  Worker = worker
  Dsp = dsp
  Others = {sysmon}
  NoThread = none
  PipeSize = 1
INVARIANTS
  TypeOK
PROPERTIES
  RepliesWhole
  NobodyStuck
CHECK_DEADLOCK FALSE
