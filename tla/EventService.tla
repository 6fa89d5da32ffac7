---------------------------- MODULE EventService ----------------------------
(***************************************************************************)
(* What sending events promises: events arrive in the order in which they  *)
(* were accepted, none twice, none left out, and the endpoint holds on to  *)
(* an event until it has arrived.  An endpoint that restarts may give up   *)
(* what it accepted last.                                                  *)
(***************************************************************************)
EXTENDS Naturals, SequencesExt

VARIABLES accepted,   \* the events accepted, in order
          held,       \* the events the endpoint still holds
          arrived     \* the events that reached the server, in order

vars == <<accepted, held, arrived>>

Init == accepted = <<>> /\ held = {} /\ arrived = <<>>

(* One event, or those of a block at once. *)
Accept ==
  /\ IsStrictPrefix(accepted, accepted')
  /\ held' = held \cup ToSet(SubSeq(accepted', Len(accepted) + 1, Len(accepted')))
  /\ UNCHANGED arrived

Arrive ==
  /\ IsPrefix(arrived, arrived') /\ IsPrefix(arrived', accepted)
  /\ UNCHANGED <<accepted, held>>

Forget ==
  /\ held' \subseteq held /\ held \ held' \subseteq ToSet(arrived)
  /\ UNCHANGED <<accepted, arrived>>

Restart ==
  /\ held' = {}
  /\ accepted' = arrived
  /\ UNCHANGED arrived

Next == Accept \/ Arrive \/ Forget \/ Restart

Spec == Init /\ [][Next]_vars
=============================================================================
