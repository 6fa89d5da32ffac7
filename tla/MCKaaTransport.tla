--------------------------- MODULE MCKaaTransport ---------------------------
(* Model values for KaaTransport. *)
EXTENDS KaaTransport
=============================================================================
