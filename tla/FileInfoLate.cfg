SPECIFICATION Spec
CONSTANTS
  Worker = worker
  Ui = ui
  Names = {start, song}
  Dir = dir
  Nested = {song}
  None = none
  Sizes = {0, 2}
  WorkerJobs = 2
  UiRequests = 1
  MaxTrouble = 1
INVARIANTS
  NullIfAbsent
CHECK_DEADLOCK FALSE
