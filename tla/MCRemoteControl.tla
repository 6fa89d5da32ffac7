--------------------------- MODULE MCRemoteControl ---------------------------
(* Model values for RemoteControl. *)
EXTENDS RemoteControl
=============================================================================
