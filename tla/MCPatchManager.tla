-------------------------- MODULE MCPatchManager --------------------------
(* PatchManager on two slots, with the threads that call it in src/: the   *)
(* USB bulk reader, the system monitor and the DSP thread.                 *)
EXTENDS PatchManager

===========================================================================
