--------------------------- MODULE MCEndpointSync ---------------------------
(***************************************************************************)
(* Values for model checking.                                              *)
(***************************************************************************)
EXTENDS EndpointSync

AllEvents == 1 .. MaxEvents
=============================================================================
