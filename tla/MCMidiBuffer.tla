--------------------------- MODULE MCMidiBuffer ---------------------------
(* Small rings, with the kinds of buffer of the firmware: the input buffer *)
(* (drained each compute cycle), the DIN and GPIO output buffers (drained  *)
(* on notify) and the USB device output buffer (both, a batch at a time).  *)
EXTENDS MidiBuffer

CONSTANTS dsp, usbh, codec

InputBuffer == [notifies |-> FALSE, cyclic |-> TRUE, batch |-> 0]
SerialOutput == [notifies |-> TRUE, cyclic |-> FALSE, batch |-> 0]
UsbOutput == [notifies |-> TRUE, cyclic |-> TRUE, batch |-> 1]

AllKinds == {InputBuffer, SerialOutput, UsbOutput}
OnlyInput == {InputBuffer}

\* A producer and the consumer, each free to preempt the other.
EachOther == Process \X Process

\* ThreadDSP preempts the USB host thread, the codec interrupt preempts both.
InputPriorities == {<<dsp, usbh>>, <<codec, usbh>>, <<codec, dsp>>}

===========================================================================
