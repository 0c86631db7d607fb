SPECIFICATION FairSpec
CONSTANTS
  NSlots = 2
INVARIANTS
  TypeOK
  UntouchedIsQuiet
  OneWorker
  ReadyIsConnected
  AbsenceDropsMount
  SilentAfterCrash
PROPERTIES
  CardOutIsNoticed
