SPECIFICATION FairSpec
CONSTANTS
  NSlots = 2
  Callers = {bulk, sysmon}
  Dsp = dsp
  NoThread = none
  MaxImages = 3
  MenuLoads = TRUE
  BadPatches = FALSE
PROPERTIES
  CallsReturn
CHECK_DEADLOCK FALSE
