--------------------------- MODULE MessageChannel ---------------------------
(***************************************************************************)
(* What a connection promises each of its ends: the messages the other end *)
(* put in come out whole, once and in order, until the connection is given *)
(* up for another.                                                         *)
(***************************************************************************)
EXTENDS SequencesExt

VARIABLES put, got

Init == put = <<>> /\ got = <<>>

(* Messages are put in, and some of those that are in come out. *)
Transfer == IsPrefix(put, put') /\ IsPrefix(got, got') /\ IsPrefix(got', put')

(* Another connection: a first message may be put in at once. *)
Replace == Len(put') <= 1 /\ got' = <<>>

Next == Transfer \/ Replace

Spec == Init /\ [][Next]_<<put, got>>
=============================================================================
