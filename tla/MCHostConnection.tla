------------------------- MODULE MCHostConnection -------------------------
(* HostConnection with the system monitor as the other thread that loads.  *)
EXTENDS HostConnection

===========================================================================
