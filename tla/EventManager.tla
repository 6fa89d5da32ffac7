---------------------------- MODULE EventManager ----------------------------
(***************************************************************************)
(* The event manager (kaa_event.c) as a value: what a kaa_event_manager_t  *)
(* holds, and its functions as operators from manager to manager.          *)
(* EndpointSync composes it with the other managers, the platform protocol *)
(* and the server.                                                         *)
(*                                                                         *)
(* An event is known by an identity, which stands for its class, data and  *)
(* target.  Functions that end with a sync of the event service leave that *)
(* to the caller.                                                          *)
(***************************************************************************)
EXTENDS Integers, Sequences, FiniteSets

CONSTANT EventIds
ASSUME EventIdsAssumption == EventIds \subseteq Nat

UNNUMBERED == -1   \* seq_num of an event that has no number yet
NO_REQUEST == -1   \* no request with events awaits an answer

Event == [id : EventIds, num : Nat \cup {UNNUMBERED}]
Block == [id : Nat, events : Seq(Event)]
ListenersRequest == [id : Nat, sent : BOOLEAN]

EventManagers ==
  [synced : BOOLEAN,          \* sequence_number_status
   seq : Nat,                 \* event_sequence_number
   pending : Seq(Event), sent : Seq(Event),
   awaiting : Nat \cup {NO_REQUEST},   \* events_awaiting_response.request_id
   blocks : Seq(Block), trx : Nat,     \* transactions, trx_counter
   requests : SUBSET ListenersRequest, lastRequest : Nat]

(* The stored sequence number is never written, so it is always 0. *)
NewEventManager ==
  [synced |-> FALSE, seq |-> 0, pending |-> <<>>, sent |-> <<>>, awaiting |-> NO_REQUEST,
   blocks |-> <<>>, trx |-> 0, requests |-> {}, lastRequest |-> 0]

Ids(events) == [i \in DOMAIN events |-> events[i].id]

(* What the next client sync carries: events sent before come first. *)
Outgoing(m) == m.sent \o m.pending
-----------------------------------------------------------------------------
(* Sending. *)

(* Mutant: the new event overtakes those that wait. *)
SendEventFirst(m, id) ==
  [m EXCEPT !.pending = <<[id |-> id, num |-> UNNUMBERED]>> \o @]

(* kaa_event_manager_send_event: numbered at once when the numbers are     *)
(* synchronized.                                                           *)
SendEvent(m, id) ==
  IF m.synced
  THEN [m EXCEPT !.seq = @ + 1, !.pending = Append(@, [id |-> id, num |-> m.seq + 1])]
  ELSE [m EXCEPT !.pending = Append(@, [id |-> id, num |-> UNNUMBERED])]

CreateBlock(m) ==
  [m EXCEPT !.trx = @ + 1, !.blocks = Append(@, [id |-> m.trx + 1, events |-> <<>>])]

AddToBlock(m, i, id) ==
  [m EXCEPT !.blocks[i].events = Append(@, [id |-> id, num |-> UNNUMBERED])]

WithoutBlock(m, i) ==
  [m EXCEPT !.blocks = SubSeq(@, 1, i - 1) \o SubSeq(@, i + 1, Len(@))]

FinishBlock(m, i) == [WithoutBlock(m, i) EXCEPT !.pending = @ \o m.blocks[i].events]

(* kaa_event_manager_find_event_listeners *)
FindListeners(m) ==
  [m EXCEPT !.lastRequest = @ + 1,
            !.requests = @ \cup {[id |-> m.lastRequest + 1, sent |-> FALSE]}]
-----------------------------------------------------------------------------
(* The event extension of a client sync. *)

NumbersNeeded(events, n) == Cardinality({j \in 1 .. n : events[j].num = UNNUMBERED})

(* kaa_event_list_serialize: events without a number get the next ones.    *)
Numbered(events, seq) ==
  [i \in DOMAIN events |->
     IF events[i].num = UNNUMBERED
     THEN [events[i] EXCEPT !.num = seq + NumbersNeeded(events, i)]
     ELSE events[i]]

(* The first n of the outgoing events are numbered. *)
NumberFirst(m, n) ==
  LET all   == Outgoing(m)
      first == Numbered(SubSeq(all, 1, n), m.seq) \o SubSeq(all, n + 1, Len(all))
  IN  [m EXCEPT !.seq = @ + NumbersNeeded(all, n),
                !.sent = SubSeq(first, 1, Len(m.sent)),
                !.pending = SubSeq(first, Len(m.sent) + 1, Len(first))]

(* Mutant: room for events before the numbers are synchronized. *)
HasPayloadEarly(m) == m.requests # {} \/ Outgoing(m) # <<>>

(* kaa_event_request_get_size: events are given room only when the numbers *)
(* are synchronized, a listeners request always, and as long as there is   *)
(* one, answered or not, the extension has a payload.                      *)
HasPayload(m) == m.requests # {} \/ (m.synced /\ Outgoing(m) # <<>>)

(* What has a payload is written with the events, room for them or not.    *)
EventsFit(m) == HasPayload(m) /\ Outgoing(m) # <<>> => m.synced

(* Mutant: events already sent are not sent again for their own sake. *)
WritesEventsNew(m) == HasPayload(m) /\ m.pending # <<>>

WritesEvents(m) == HasPayload(m) /\ Outgoing(m) # <<>>

(* Mutant: the answer to an earlier request will do. *)
SerializeKeepsId(m, id) ==
  LET w == IF WritesEvents(m) THEN NumberFirst(m, Len(Outgoing(m))) ELSE m
  IN  [w EXCEPT !.sent = Outgoing(w), !.pending = <<>>,
                !.awaiting = IF @ = NO_REQUEST THEN id ELSE @]

(* kaa_event_request_serialize, when everything fits. *)
SerializeEvents(m, id) ==
  LET marked == [m EXCEPT !.requests = {[r EXCEPT !.sent = TRUE] : r \in @}]
      w == NumberFirst(marked, Len(Outgoing(m)))
  IN  IF WritesEvents(m)
      THEN [w EXCEPT !.sent = Outgoing(w), !.pending = <<>>, !.awaiting = id]
      ELSE marked

(* The events and the listeners requests it writes. *)
EventsWritten(m) == IF WritesEvents(m) THEN Numbered(Outgoing(m), m.seq) ELSE <<>>
RequestsWritten(m) == {r.id : r \in {q \in m.requests : ~q.sent}}
-----------------------------------------------------------------------------
(* The event extension of a server sync: kaa_event_handle_server_sync.     *)

Renumbered(events, seq) == [i \in DOMAIN events |-> [events[i] EXCEPT !.num = seq + i]]

(* Mutant: the numbers start again from the endpoint's own. *)
SynchronizeBlindly(m, number) == [m EXCEPT !.synced = TRUE]

(* The first number received counts.  Only pending events are renumbered,  *)
(* and only if the endpoint was at another number.                         *)
Synchronize(m, number) ==
  IF m.synced THEN m
  ELSE IF m.seq = number THEN [m EXCEPT !.synced = TRUE]
  ELSE [m EXCEPT !.synced = TRUE, !.seq = number + Len(m.pending),
                 !.pending = Renumbered(m.pending, number)]

(* Mutant: any answer will do. *)
AcknowledgeAny(m, id) == [m EXCEPT !.sent = <<>>, !.awaiting = NO_REQUEST]

Acknowledge(m, id) ==
  IF id = m.awaiting THEN [m EXCEPT !.sent = <<>>, !.awaiting = NO_REQUEST] ELSE m

(* kaa_event_read_listeners_response calls back and forgets the request.   *)
AnswerListeners(m, ids) ==
  [m EXCEPT !.requests = {r \in @ : r.id \notin ids}]
=============================================================================
