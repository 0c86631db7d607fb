SPECIFICATION FairSpec
CONSTANTS
  Size = 4
  dsp = dsp
  usbh = usbh
  codec = codec
  Producers = {usbh}
  Consumer = dsp
  Preempts <- EachOther
  Message = {on, off}
  NoMessage = nothing
  Kinds <- AllKinds
INVARIANTS
  TypeOK
PROPERTIES
  AcceptedIsQueued
  ImplementsQueue
  Delivered
