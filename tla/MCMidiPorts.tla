---------------------------- MODULE MCMidiPorts ----------------------------
(* MidiPorts with buffers, a serial queue and batches that three messages  *)
(* fill or overfill.                                                       *)
EXTENDS MidiPorts

===========================================================================
