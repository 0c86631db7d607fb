-------------------------- MODULE MCFileTransfer --------------------------
(* FileTransfer with two jobs of the worker, a request of the user          *)
(* interface, and one kind of trouble.                                     *)
EXTENDS FileTransfer

===========================================================================
