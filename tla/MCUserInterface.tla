-------------------------- MODULE MCUserInterface --------------------------
(* UserInterface with a stack that the way to a format's result fills.     *)
EXTENDS UserInterface

===========================================================================
