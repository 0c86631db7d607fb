-------------------------- MODULE MCSystemMonitor --------------------------
(* Model checking SystemMonitor: the constant is given in SystemMonitor.cfg. *)
EXTENDS SystemMonitor
============================================================================
