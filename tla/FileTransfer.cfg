SPECIFICATION FairSpec
CONSTANTS
  Worker = worker
  Ui = ui
  Names = {start, song}
  Dir = dir
  Nested = {song}
  None = none
  Sizes = {0, 2}
  WorkerJobs = 2
  UiRequests = 1
  MaxTrouble = 1
INVARIANTS
  TypeOK
  OwnReply
  WholeFile
  WholeCopy
  OnlyOpener
  LeftOpenByFailure
PROPERTIES
  JobsEnd
CHECK_DEADLOCK FALSE
