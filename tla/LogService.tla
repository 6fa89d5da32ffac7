----------------------------- MODULE LogService -----------------------------
(***************************************************************************)
(* What log collection promises an application: a record it has accepted   *)
(* is kept until the server has it.  The server may get a record more than *)
(* once.                                                                   *)
(***************************************************************************)
EXTENDS Integers

CONSTANT Records
VARIABLES accepted, kept, delivered

Init == accepted = {} /\ kept = {} /\ delivered = {}

Accept(r) ==
  /\ r \notin accepted
  /\ accepted' = accepted \cup {r}
  /\ kept' = kept \cup {r}
  /\ UNCHANGED delivered

Deliver(S) ==
  /\ S \subseteq accepted
  /\ delivered' = delivered \cup S
  /\ UNCHANGED <<accepted, kept>>

Forget(S) ==
  /\ S \subseteq kept \cap delivered
  /\ kept' = kept \ S
  /\ UNCHANGED <<accepted, delivered>>

Next ==
  \/ \E r \in Records : Accept(r)
  \/ \E S \in SUBSET Records : Deliver(S) \/ Forget(S)

Spec == Init /\ [][Next]_<<accepted, kept, delivered>>
=============================================================================
