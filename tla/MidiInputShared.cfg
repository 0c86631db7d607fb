SPECIFICATION Spec
CONSTANTS
  Size = 4
  dsp = dsp
  usbh = usbh
  codec = codec
  Producers = {usbh, codec}
  Consumer = dsp
  Preempts <- InputPriorities
  Message = {on, off}
  NoMessage = nothing
  Kinds <- OnlyInput
PROPERTIES
  AcceptedIsQueued
