------------------------- MODULE EndpointSyncProofs -------------------------
(***************************************************************************)
(* For any number of events, blocks, attach calls and mishaps: the types,  *)
(* and what the endpoint believes of its registration, its attachment and  *)
(* its configuration.                                                      *)
(***************************************************************************)
EXTENDS EndpointSync, LeastElements, FiniteSetTheorems, TLAPS

-----------------------------------------------------------------------------
(* What the functions of the event manager return: another event manager,  *)
(* and sequences of events as long as those they were given.               *)

LEMMA ManagerFields ==
  ASSUME NEW m \in EventManagers
  PROVE  /\ m.synced \in BOOLEAN /\ m.seq \in Nat /\ m.pending \in Seq(Event) /\ m.sent \in Seq(Event)
         /\ m.awaiting \in Nat \cup {NO_REQUEST} /\ m.blocks \in Seq(Block) /\ m.trx \in Nat
         /\ m.requests \in SUBSET ListenersRequest /\ m.lastRequest \in Nat
  BY DEF EventManagers

LEMMA NewEventManagerType == NewEventManager \in EventManagers
  BY DEF NewEventManager, EventManagers, NO_REQUEST

LEMMA EventType ==
  ASSUME NEW id \in EventIds, NEW num \in Nat \cup {UNNUMBERED}
  PROVE  [id |-> id, num |-> num] \in Event
  BY DEF Event

LEMMA EmptyEvents == <<>> \in Seq(Event)
  OBVIOUS

LEMMA EventFields ==
  ASSUME NEW e \in Event
  PROVE  e.id \in EventIds /\ e.num \in Nat \cup {UNNUMBERED}
  BY DEF Event

LEMMA IdsType ==
  ASSUME NEW events \in Seq(Event)
  PROVE  /\ Ids(events) \in Seq(EventIds) /\ Len(Ids(events)) = Len(events)
         /\ \A i \in 1 .. Len(events) : Ids(events)[i] = events[i].id
  <1>1. \A i \in 1 .. Len(events) : events[i].id \in EventIds
    BY EventFields
  <1>2. Ids(events) = [i \in 1 .. Len(events) |-> events[i].id]
    BY DEF Ids
  <1>3. QED BY <1>1, <1>2

LEMMA OutgoingType ==
  ASSUME NEW m \in EventManagers
  PROVE  /\ Outgoing(m) \in Seq(Event) /\ m.sent \in Seq(Event) /\ m.pending \in Seq(Event)
         /\ Len(Outgoing(m)) = Len(m.sent) + Len(m.pending)
  <1>1. m.sent \in Seq(Event) /\ m.pending \in Seq(Event)
    BY DEF EventManagers
  <1>2. QED BY <1>1 DEF Outgoing

LEMMA SendEventType ==
  ASSUME NEW m \in EventManagers, NEW id \in EventIds
  PROVE  SendEvent(m, id) \in EventManagers
  <1>1. m.seq \in Nat /\ m.pending \in Seq(Event)
    BY DEF EventManagers
  <1>2. /\ [id |-> id, num |-> m.seq + 1] \in Event
        /\ [id |-> id, num |-> UNNUMBERED] \in Event
    BY <1>1 DEF Event
  <1>3. /\ Append(m.pending, [id |-> id, num |-> m.seq + 1]) \in Seq(Event)
        /\ Append(m.pending, [id |-> id, num |-> UNNUMBERED]) \in Seq(Event)
    BY <1>1, <1>2
  <1>4. m.seq + 1 \in Nat
    BY <1>1
  <1>5. QED BY <1>3, <1>4 DEF SendEvent, EventManagers

LEMMA CreateBlockType == ASSUME NEW m \in EventManagers PROVE CreateBlock(m) \in EventManagers
  <1>1. m.trx \in Nat /\ m.blocks \in Seq(Block)
    BY DEF EventManagers
  <1>2. [id |-> m.trx + 1, events |-> <<>>] \in Block
    BY <1>1 DEF Block
  <1>3. Append(m.blocks, [id |-> m.trx + 1, events |-> <<>>]) \in Seq(Block)
    BY <1>1, <1>2
  <1>4. m.trx + 1 \in Nat
    BY <1>1
  <1>5. QED BY <1>3, <1>4 DEF CreateBlock, EventManagers

LEMMA BlockEvents ==
  ASSUME NEW m \in EventManagers, NEW i \in DOMAIN m.blocks
  PROVE  m.blocks \in Seq(Block) /\ m.blocks[i] \in Block /\ m.blocks[i].events \in Seq(Event)
  <1>1. m.blocks \in Seq(Block)
    BY DEF EventManagers
  <1>2. m.blocks[i] \in Block
    BY <1>1
  <1>3. QED BY <1>1, <1>2 DEF Block

LEMMA AddToBlockType ==
  ASSUME NEW m \in EventManagers, NEW i \in DOMAIN m.blocks, NEW id \in EventIds
  PROVE  AddToBlock(m, i, id) \in EventManagers
  <1> DEFINE e == [id |-> id, num |-> UNNUMBERED]
             b == [m.blocks[i] EXCEPT !.events = Append(@, e)]
  <1>1. e \in Event
    BY EventType
  <1>2. Append(m.blocks[i].events, e) \in Seq(Event)
    BY <1>1, BlockEvents
  <1>3. b \in Block
    BY <1>2, BlockEvents DEF Block
  <1>4. [m.blocks EXCEPT ![i] = b] \in Seq(Block)
    BY <1>3, BlockEvents
  <1>5. AddToBlock(m, i, id) = [m EXCEPT !.blocks = [m.blocks EXCEPT ![i] = b]]
    BY BlockEvents DEF AddToBlock, EventManagers, Block
  <1> HIDE DEF b
  <1>6. QED BY <1>4, <1>5 DEF EventManagers

LEMMA WithoutBlockType ==
  ASSUME NEW m \in EventManagers, NEW i \in DOMAIN m.blocks
  PROVE  WithoutBlock(m, i) \in EventManagers
  <1>1. i \in 1 .. Len(m.blocks) /\ m.blocks \in Seq(Block)
    BY BlockEvents
  <1>2. SubSeq(m.blocks, 1, i - 1) \in Seq(Block) /\ SubSeq(m.blocks, i + 1, Len(m.blocks)) \in Seq(Block)
    BY <1>1
  <1>3. SubSeq(m.blocks, 1, i - 1) \o SubSeq(m.blocks, i + 1, Len(m.blocks)) \in Seq(Block)
    BY <1>2
  <1>4. QED BY <1>3 DEF WithoutBlock, EventManagers

LEMMA FinishBlockType ==
  ASSUME NEW m \in EventManagers, NEW i \in DOMAIN m.blocks
  PROVE  FinishBlock(m, i) \in EventManagers
  <1> DEFINE w == WithoutBlock(m, i)
  <1>1. w \in EventManagers
    BY WithoutBlockType
  <1> HIDE DEF w
  <1>2. w.pending \in Seq(Event) /\ m.blocks[i].events \in Seq(Event)
    BY <1>1, BlockEvents DEF EventManagers
  <1>3. w.pending \o m.blocks[i].events \in Seq(Event)
    BY <1>2
  <1>4. FinishBlock(m, i) = [w EXCEPT !.pending = w.pending \o m.blocks[i].events]
    BY <1>1 DEF FinishBlock, EventManagers, w
  <1>5. QED BY <1>1, <1>3, <1>4 DEF EventManagers

LEMMA FindListenersType == ASSUME NEW m \in EventManagers PROVE FindListeners(m) \in EventManagers
  <1> DEFINE r == [id |-> m.lastRequest + 1, sent |-> FALSE]
  <1>1. r \in ListenersRequest /\ m.lastRequest + 1 \in Nat
    BY ManagerFields DEF ListenersRequest
  <1> HIDE DEF r
  <1>2. m.requests \cup {r} \in SUBSET ListenersRequest
    BY <1>1, ManagerFields
  <1>3. FindListeners(m) = [m EXCEPT !.lastRequest = m.lastRequest + 1, !.requests = m.requests \cup {r}]
    BY DEF FindListeners, EventManagers, r
  <1>4. QED BY <1>1, <1>2, <1>3 DEF EventManagers
-----------------------------------------------------------------------------
LEMMA NumbersNeededType ==
  ASSUME NEW events, NEW n \in Nat
  PROVE  NumbersNeeded(events, n) \in 0 .. n
  <1> DEFINE U == {j \in 1 .. n : events[j].num = UNNUMBERED}
  <1>1. IsFiniteSet(1 .. n) /\ Cardinality(1 .. n) = n
    BY FS_Interval
  <1>2. IsFiniteSet(U) /\ Cardinality(U) <= n
    BY <1>1, FS_Subset
  <1>3. Cardinality(U) \in Nat
    BY <1>2, FS_CardinalityType
  <1>4. QED BY <1>2, <1>3 DEF NumbersNeeded

LEMMA NumberedType ==
  ASSUME NEW events \in Seq(Event), NEW seq \in Nat
  PROVE  /\ Numbered(events, seq) \in Seq(Event) /\ Len(Numbered(events, seq)) = Len(events)
         /\ \A i \in 1 .. Len(events) :
              /\ Numbered(events, seq)[i].id = events[i].id
              /\ Numbered(events, seq)[i].num = IF events[i].num = UNNUMBERED
                                                THEN seq + NumbersNeeded(events, i) ELSE events[i].num
  <1> DEFINE at(i) == IF events[i].num = UNNUMBERED
                      THEN [events[i] EXCEPT !.num = seq + NumbersNeeded(events, i)] ELSE events[i]
  <1>1. \A i \in 1 .. Len(events) : events[i] \in Event /\ NumbersNeeded(events, i) \in Nat
    BY NumbersNeededType
  <1>2. \A i \in 1 .. Len(events) :
          /\ at(i) \in Event /\ at(i).id = events[i].id
          /\ at(i).num = IF events[i].num = UNNUMBERED THEN seq + NumbersNeeded(events, i) ELSE events[i].num
    BY <1>1 DEF Event
  <1>3. Numbered(events, seq) = [i \in 1 .. Len(events) |-> at(i)]
    BY DEF Numbered
  <1> HIDE DEF at
  <1>4. QED BY <1>2, <1>3

LEMMA NumberFirstType ==
  ASSUME NEW m \in EventManagers, NEW n \in 0 .. Len(Outgoing(m))
  PROVE  NumberFirst(m, n) \in EventManagers
  <1> DEFINE all   == Outgoing(m)
             first == Numbered(SubSeq(all, 1, n), m.seq) \o SubSeq(all, n + 1, Len(all))
  <1>1. all \in Seq(Event) /\ Len(m.sent) \in Nat /\ m.seq \in Nat /\ Len(m.sent) <= Len(all)
    <2>1. all \in Seq(Event) /\ Len(all) = Len(m.sent) + Len(m.pending)
      BY OutgoingType
    <2>2. Len(m.sent) \in Nat /\ Len(m.pending) \in Nat /\ m.seq \in Nat
      BY ManagerFields
    <2>3. /\ \A a, b, c \in Nat : c = a + b => a <= c
          /\ \A q \in Seq(Event) : Len(q) \in Nat
      OBVIOUS
    <2> HIDE DEF all
    <2>4. Len(all) \in Nat
      BY <2>1, <2>3, Zenon
    <2>5. Len(m.sent) <= Len(all)
      BY <2>1, <2>2, <2>3, <2>4
    <2>6. QED BY <2>1, <2>2, <2>5
  <1> HIDE DEF all
  <1>2. n \in Nat /\ n <= Len(all)
    BY <1>1 DEF all
  <1>3. SubSeq(all, 1, n) \in Seq(Event) /\ Len(SubSeq(all, 1, n)) = n /\ SubSeq(all, n + 1, Len(all)) \in Seq(Event)
        /\ Len(SubSeq(all, n + 1, Len(all))) = Len(all) - n
    BY <1>1, <1>2
  <1>4. /\ Numbered(SubSeq(all, 1, n), m.seq) \in Seq(Event)
        /\ Len(Numbered(SubSeq(all, 1, n), m.seq)) = n
    BY <1>1, <1>3, NumberedType
  <1>5. first \in Seq(Event) /\ Len(first) = Len(all)
    <2>1. \A q, t \in Seq(Event) : q \o t \in Seq(Event) /\ Len(q \o t) = Len(q) + Len(t)
      OBVIOUS
    <2>2. first \in Seq(Event) /\ Len(first) = n + (Len(all) - n)
      BY <1>3, <1>4, <2>1
    <2> HIDE DEF first
    <2>3. QED BY <1>1, <1>2, <2>2
  <1> HIDE DEF first
  <1>6. /\ SubSeq(first, 1, Len(m.sent)) \in Seq(Event)
        /\ SubSeq(first, Len(m.sent) + 1, Len(first)) \in Seq(Event)
    BY <1>1, <1>5
  <1>7. m.seq + NumbersNeeded(all, n) \in Nat
    BY <1>1, <1>2, NumbersNeededType
  <1>8. NumberFirst(m, n) = [m EXCEPT !.seq = m.seq + NumbersNeeded(all, n),
                                      !.sent = SubSeq(first, 1, Len(m.sent)),
                                      !.pending = SubSeq(first, Len(m.sent) + 1, Len(first))]
    BY DEF NumberFirst, all, first, EventManagers
  <1>9. QED BY <1>6, <1>7, <1>8 DEF EventManagers

LEMMA MarkedType ==
  ASSUME NEW m \in EventManagers
  PROVE  LET marked == [m EXCEPT !.requests = {[r EXCEPT !.sent = TRUE] : r \in @}]
         IN  /\ marked \in EventManagers /\ Outgoing(marked) = Outgoing(m)
             /\ marked = [m EXCEPT !.requests = marked.requests]
  <1> DEFINE rs == {[r EXCEPT !.sent = TRUE] : r \in m.requests}
  <1>1. rs \in SUBSET ListenersRequest
    BY DEF EventManagers, ListenersRequest
  <1>2. [m EXCEPT !.requests = {[r EXCEPT !.sent = TRUE] : r \in @}] = [m EXCEPT !.requests = rs]
    BY DEF EventManagers
  <1> HIDE DEF rs
  <1>3. QED BY <1>1, <1>2 DEF EventManagers, Outgoing

LEMMA SerializeEventsType ==
  ASSUME NEW m \in EventManagers, NEW id \in Nat
  PROVE  SerializeEvents(m, id) \in EventManagers
  <1> DEFINE marked == [m EXCEPT !.requests = {[r EXCEPT !.sent = TRUE] : r \in @}]
             w == NumberFirst(marked, Len(Outgoing(m)))
  <1>1. marked \in EventManagers /\ Outgoing(marked) = Outgoing(m)
    BY MarkedType
  <1> HIDE DEF marked
  <1>2. w \in EventManagers
    BY <1>1, NumberFirstType, OutgoingType
  <1>3. Outgoing(w) \in Seq(Event)
    BY <1>2, OutgoingType
  <1> HIDE DEF w
  <1>4. [w EXCEPT !.sent = Outgoing(w), !.pending = <<>>, !.awaiting = id] \in EventManagers
    BY <1>2, <1>3, EmptyEvents DEF EventManagers
  <1>5. QED BY <1>1, <1>4 DEF SerializeEvents, marked, w

LEMMA EventsWrittenType ==
  ASSUME NEW m \in EventManagers
  PROVE  EventsWritten(m) \in Seq(Event)
  <1>1. Outgoing(m) \in Seq(Event) /\ m.seq \in Nat
    BY OutgoingType, ManagerFields
  <1>2. Numbered(Outgoing(m), m.seq) \in Seq(Event)
    BY <1>1, NumberedType
  <1>3. QED BY <1>2 DEF EventsWritten

LEMMA RequestsWrittenType ==
  ASSUME NEW m \in EventManagers
  PROVE  RequestsWritten(m) \in SUBSET Nat
  BY DEF RequestsWritten, EventManagers, ListenersRequest
-----------------------------------------------------------------------------
LEMMA RenumberedType ==
  ASSUME NEW events \in Seq(Event), NEW seq \in Nat
  PROVE  /\ Renumbered(events, seq) \in Seq(Event) /\ Len(Renumbered(events, seq)) = Len(events)
         /\ \A i \in 1 .. Len(events) : /\ Renumbered(events, seq)[i].id = events[i].id
                                       /\ Renumbered(events, seq)[i].num = seq + i
  <1> DEFINE at(i) == [events[i] EXCEPT !.num = seq + i]
  <1>1. \A i \in 1 .. Len(events) : events[i] \in Event /\ seq + i \in Nat
    OBVIOUS
  <1>2. \A i \in 1 .. Len(events) : at(i) \in Event /\ at(i).id = events[i].id /\ at(i).num = seq + i
    BY <1>1 DEF Event
  <1>3. Renumbered(events, seq) = [i \in 1 .. Len(events) |-> at(i)]
    BY DEF Renumbered
  <1>4. \A i \in 1 .. Len(events) : Renumbered(events, seq)[i] = at(i)
    BY <1>3
  <1> HIDE DEF at
  <1>5. Renumbered(events, seq) \in Seq(Event) /\ Len(Renumbered(events, seq)) = Len(events)
    BY <1>2, <1>3
  <1>6. QED BY <1>2, <1>4, <1>5

LEMMA SynchronizeType ==
  ASSUME NEW m \in EventManagers, NEW number \in Nat
  PROVE  Synchronize(m, number) \in EventManagers
  <1>1. m.pending \in Seq(Event) /\ Len(m.pending) \in Nat
    BY ManagerFields
  <1>2. Renumbered(m.pending, number) \in Seq(Event) /\ number + Len(m.pending) \in Nat
    BY <1>1, RenumberedType
  <1>3. QED BY <1>2 DEF Synchronize, EventManagers

LEMMA AcknowledgeType ==
  ASSUME NEW m \in EventManagers, NEW id
  PROVE  Acknowledge(m, id) \in EventManagers
  <1>1. [m EXCEPT !.sent = <<>>, !.awaiting = NO_REQUEST] \in EventManagers
    BY EmptyEvents DEF EventManagers
  <1>2. QED BY <1>1 DEF Acknowledge

LEMMA AnswerListenersType ==
  ASSUME NEW m \in EventManagers, NEW ids
  PROVE  AnswerListeners(m, ids) \in EventManagers
  BY DEF AnswerListeners, EventManagers
-----------------------------------------------------------------------------
(* The server and the endpoint. *)

LEMMA EventIdsType == EventIds = 1 .. MaxEvents /\ MaxEvents \in Nat
  BY SyncAssumption

(* The server's highest number is one of those it has seen.                *)
LEMMA HighestNumber ==
  ASSUME NEW events \in Seq(Event), NEW last \in Nat
  PROVE  LET S == Numbers(events) \cup {last}
             top == CHOOSE n \in S : \A k \in S : k <= n
         IN  top \in S /\ top \in Nat /\ last <= top /\ \A i \in 1 .. Len(events) : events[i].num <= top
  <1> DEFINE T(k) == {events[i].num : i \in 1 .. k} \cup {last}
             HasTop(k) == \E n \in T(k) : \A j \in T(k) : j <= n
             Bad == {k \in 0 .. Len(events) : ~HasTop(k)}
  <1>1. \A i \in 1 .. Len(events) : events[i].num \in Int
    <2>1. \A e \in Event : e.num \in Int
      BY DEF Event, UNNUMBERED
    <2>2. \A i \in 1 .. Len(events) : events[i] \in Event
      OBVIOUS
    <2>3. QED BY <2>1, <2>2
  <1>2. HasTop(0)
    <2>1. T(0) = {last}
      OBVIOUS
    <2>2. QED BY <2>1
  <1>3. ASSUME NEW k \in 1 .. Len(events), HasTop(k - 1) PROVE HasTop(k)
    <2>1. PICK n \in T(k - 1) : \A j \in T(k - 1) : j <= n
      BY <1>3
    <2>2. T(k) = T(k - 1) \cup {events[k].num}
      OBVIOUS
    <2>3. n \in Int /\ T(k - 1) \subseteq Int /\ events[k].num \in Int
      BY <1>1
    <2> HIDE DEF T
    <2>4. CASE events[k].num <= n
      BY <2>1, <2>2, <2>4
    <2>5. CASE ~(events[k].num <= n)
      <3>1. \A j \in T(k) : j <= events[k].num
        BY <2>1, <2>2, <2>3, <2>5
      <3>2. QED BY <2>2, <3>1
    <2>6. QED BY <2>4, <2>5
  <1>4. Bad = {}
    <2> SUFFICES ASSUME Bad # {} PROVE FALSE
      OBVIOUS
    <2> HIDE DEF HasTop
    <2>1. Bad \in SUBSET Nat
      OBVIOUS
    <2> HIDE DEF Bad
    <2>2. PICK k \in Bad : \A j \in Bad : k <= j
      BY <2>1, LeastNumber
    <2>3. k \in 0 .. Len(events) /\ ~HasTop(k)
      BY DEF Bad
    <2>4. k # 0
      BY <1>2, <2>3
    <2>5. k - 1 \in 0 .. Len(events) /\ k - 1 \notin Bad
      BY <2>2, <2>3, <2>4
    <2>6. HasTop(k - 1)
      BY <2>5 DEF Bad
    <2>7. k \in 1 .. Len(events)
      BY <2>3, <2>4
    <2>8. QED BY <1>3, <2>3, <2>6, <2>7
  <1>5. HasTop(Len(events))
    <2> HIDE DEF HasTop
    <2>1. Len(events) \in 0 .. Len(events)
      OBVIOUS
    <2>2. QED BY <1>4, <2>1
  <1>6. T(Len(events)) = Numbers(events) \cup {last}
    BY DEF Numbers
  <1>7. T(Len(events)) \subseteq Int
    BY <1>1
  <1> HIDE DEF T
  <1> DEFINE S == Numbers(events) \cup {last}
             top == CHOOSE n \in S : \A k \in S : k <= n
  <1>8. top \in S /\ \A k \in S : k <= top
    BY <1>5, <1>6
  <1>9. \A i \in 1 .. Len(events) : events[i].num \in S
    BY DEF Numbers
  <1>10. top \in Int /\ last <= top
    BY <1>6, <1>7, <1>8
  <1> HIDE DEF top
  <1>11. top \in Nat
    BY <1>10
  <1>12. QED BY <1>8, <1>9, <1>10, <1>11 DEF top
-----------------------------------------------------------------------------
(* The function NewEvents is computed with. *)
IsNew(events, n, F) ==
  F = [i \in 0 .. n |->
         IF i = 0 THEN <<>>
         ELSE IF events[i].num > server.last THEN Append(F[i - 1], events[i]) ELSE F[i - 1]]

LEMMA NewExists ==
  ASSUME NEW events \in Seq(Event)
  PROVE  \E F : IsNew(events, Len(events), F)
  <1> DEFINE Bad == {n \in 0 .. Len(events) : ~\E F : IsNew(events, n, F)}
  <1>1. 0 \notin Bad
    <2>1. IsNew(events, 0, [i \in 0 .. 0 |-> <<>>])
      BY DEF IsNew
    <2>2. QED BY <2>1
  <1>2. ASSUME NEW n \in 1 .. Len(events), NEW F, IsNew(events, n - 1, F)
        PROVE  \E G : IsNew(events, n, G)
    <2> DEFINE G == [i \in 0 .. n |-> IF i < n THEN F[i]
                                      ELSE IF events[n].num > server.last THEN Append(F[n - 1], events[n])
                                      ELSE F[n - 1]]
               value(i) == IF i = 0 THEN <<>>
                           ELSE IF events[i].num > server.last THEN Append(G[i - 1], events[i]) ELSE G[i - 1]
    <2>1. \A i \in 0 .. n - 1 : G[i] = F[i]
      OBVIOUS
    <2>2. \A i \in 0 .. n - 1 :
            F[i] = IF i = 0 THEN <<>>
                   ELSE IF events[i].num > server.last THEN Append(F[i - 1], events[i]) ELSE F[i - 1]
      BY <1>2 DEF IsNew
    <2>3. \A i \in 0 .. n - 1 : G[i] = value(i)
      <3> SUFFICES ASSUME NEW i \in 0 .. n - 1 PROVE G[i] = value(i)
        OBVIOUS
      <3>1. i # 0 => i - 1 \in 0 .. n - 1
        OBVIOUS
      <3> HIDE DEF G
      <3>2. QED BY <2>1, <2>2, <3>1
    <2>4. G[n] = value(n)
      <3>1. G[n - 1] = F[n - 1] /\ n # 0
        BY <2>1
      <3>2. G[n] = IF events[n].num > server.last THEN Append(F[n - 1], events[n]) ELSE F[n - 1]
        OBVIOUS
      <3> HIDE DEF G
      <3>3. QED BY <3>1, <3>2
    <2>5. \A i \in 0 .. n : G[i] = value(i)
      <3>1. \A i \in 0 .. n : i \in 0 .. n - 1 \/ i = n
        OBVIOUS
      <3> HIDE DEF G, value
      <3>2. QED BY <2>3, <2>4, <3>1
    <2>6. G = [i \in 0 .. n |-> G[i]]
      OBVIOUS
    <2> HIDE DEF G
    <2>7. G = [i \in 0 .. n |-> value(i)]
      BY <2>5, <2>6
    <2>8. IsNew(events, n, G)
      BY <2>7 DEF IsNew
    <2>9. QED BY <2>8
  <1>3. Bad = {}
    <2> SUFFICES ASSUME Bad # {} PROVE FALSE
      OBVIOUS
    <2>1. Bad \in SUBSET Nat
      OBVIOUS
    <2> HIDE DEF Bad
    <2>2. PICK n \in Bad : \A j \in Bad : n <= j
      BY <2>1, LeastNumber
    <2>3. n \in 0 .. Len(events) /\ ~\E F : IsNew(events, n, F)
      BY DEF Bad
    <2>4. n # 0
      BY <1>1
    <2>5. n - 1 \in 0 .. Len(events) /\ n - 1 \notin Bad
      BY <2>2, <2>3, <2>4
    <2>6. PICK F : IsNew(events, n - 1, F)
      BY <2>5 DEF Bad
    <2>7. n \in 1 .. Len(events)
      BY <2>3, <2>4
    <2>8. QED BY <1>2, <2>3, <2>6, <2>7
  <1>4. Len(events) \in 0 .. Len(events)
    OBVIOUS
  <1>5. QED BY <1>3, <1>4

LEMMA NewEventsType ==
  ASSUME NEW events \in Seq(Event)
  PROVE  NewEvents(events) \in Seq(Event)
  <1> DEFINE F == CHOOSE G : IsNew(events, Len(events), G)
             Bad == {n \in 0 .. Len(events) : F[n] \notin Seq(Event)}
  <1>1. IsNew(events, Len(events), F)
    BY NewExists
  <1>2. NewEvents(events) = F[Len(events)]
    BY DEF NewEvents, IsNew
  <1> HIDE DEF F
  <1>3. \A n \in 0 .. Len(events) :
          F[n] = IF n = 0 THEN <<>>
                 ELSE IF events[n].num > server.last THEN Append(F[n - 1], events[n]) ELSE F[n - 1]
    BY <1>1 DEF IsNew
  <1>4. F[0] \in Seq(Event)
    <2>1. 0 \in 0 .. Len(events)
      OBVIOUS
    <2>2. F[0] = <<>>
      BY <1>3, <2>1
    <2>3. QED BY <2>2, EmptyEvents
  <1>5. ASSUME NEW n \in 1 .. Len(events), F[n - 1] \in Seq(Event) PROVE F[n] \in Seq(Event)
    <2>1. n \in 0 .. Len(events) /\ n # 0 /\ events[n] \in Event
      OBVIOUS
    <2>2. Append(F[n - 1], events[n]) \in Seq(Event)
      BY <1>5, <2>1
    <2>3. QED BY <1>3, <1>5, <2>1, <2>2
  <1>6. Bad = {}
    <2> SUFFICES ASSUME Bad # {} PROVE FALSE
      OBVIOUS
    <2>1. Bad \in SUBSET Nat
      OBVIOUS
    <2> HIDE DEF Bad
    <2>2. PICK n \in Bad : \A j \in Bad : n <= j
      BY <2>1, LeastNumber
    <2>3. n \in 0 .. Len(events) /\ F[n] \notin Seq(Event)
      BY DEF Bad
    <2>4. n # 0
      BY <1>4, <2>3
    <2>5. n - 1 \in 0 .. Len(events) /\ n - 1 \notin Bad
      BY <2>2, <2>3, <2>4
    <2>6. F[n - 1] \in Seq(Event)
      BY <2>5 DEF Bad
    <2>7. n \in 1 .. Len(events)
      BY <2>3, <2>4
    <2>8. QED BY <1>5, <2>3, <2>6, <2>7
  <1>7. Len(events) \in 0 .. Len(events)
    OBVIOUS
  <1>8. QED BY <1>2, <1>6, <1>7
-----------------------------------------------------------------------------
(* The messages. *)
LEMMA UserType ==
  ASSUME TypeOK
  PROVE  SerializeUser \in [info : Nat, waiting : BOOLEAN] /\ AttachWritten \in Nat
  BY DEF TypeOK, SerializeUser, AttachWritten

LEMMA NextIdType ==
  ASSUME TypeOK
  PROVE  NextId \in 0 .. RequestIds - 1 /\ (requestId - 1) % RequestIds \in 0 .. RequestIds - 1
  <1>1. \A a \in Int, b \in Nat \ {0} : a % b \in 0 .. b - 1
    OBVIOUS
  <1>2. requestId \in Int /\ RequestIds \in Nat \ {0}
    BY SyncAssumption DEF TypeOK
  <1>3. QED BY <1>1, <1>2 DEF NextId

LEMMA ClientSyncType ==
  ASSUME TypeOK, NEW svcs, NEW id \in Nat
  PROVE  ClientSync(svcs, id) \in ClientSyncs
  <1>1. EventsWritten(manager) \in Seq(Event) /\ RequestsWritten(manager) \in SUBSET Nat /\ manager.synced \in BOOLEAN
    BY EventsWrittenType, RequestsWrittenType, ManagerFields DEF TypeOK
  <1>2. (IF "event" \in svcs THEN EventsWritten(manager) ELSE <<>>) \in Seq(Event)
    BY <1>1, EmptyEvents
  <1>3. (IF "user" \in svcs THEN AttachWritten ELSE 0) \in Nat
    BY UserType
  <1>4. status.configSeq \in Nat /\ config \in Nat /\ resync \in BOOLEAN /\ KeyWritten \in BOOLEAN
    BY DEF TypeOK, Status, KeyWritten
  <1>5. (IF "config" \in svcs THEN <<status.configSeq, config>> ELSE <<>>) \in Configs
    BY <1>4 DEF Configs
  <1>6. (IF "event" \in svcs THEN RequestsWritten(manager) ELSE {}) \in SUBSET Nat
    BY <1>1
  <1>7. /\ ("event" \in svcs) \in BOOLEAN /\ ("event" \in svcs /\ ~manager.synced) \in BOOLEAN
        /\ ("profile" \in svcs /\ resync) \in BOOLEAN
        /\ ("profile" \in svcs /\ resync /\ KeyWritten) \in BOOLEAN
    OBVIOUS
  <1>8. QED BY <1>2, <1>3, <1>5, <1>6, <1>7 DEF ClientSync, ClientSyncs

LEMMA ReplyType ==
  ASSUME TypeOK, NEW m \in ClientSyncs
  PROVE  Reply(m) \in ServerSyncs
  <1>1. server.last \in Nat /\ server.version \in Nat
    BY DEF TypeOK, Servers
  <1>2. (IF m.wantsNumber THEN server.last ELSE NONE) \in Nat \cup {NONE}
    BY <1>1
  <1>3. (IF m.config = <<>> \/ m.config = <<server.version, server.version>> THEN <<>>
         ELSE IF m.config[2] = server.version THEN <<server.version, NONE>>
         ELSE <<server.version, server.version>>) \in Configs
    BY <1>1 DEF Configs
  <1>4. (IF m.profile THEN "ok" ELSE IF server.known THEN "none" ELSE "resync") \in {"none", "ok", "resync"}
    OBVIOUS
  <1>5. m.id \in Nat /\ m.event \in BOOLEAN /\ m.listeners \in SUBSET Nat /\ "none" \in Attachments
    BY DEF ClientSyncs, Attachments
  <1>6. QED BY <1>2, <1>3, <1>4, <1>5 DEF Reply, ServerSyncs

LEMMA NewsType ==
  /\ NoNews \in ServerSyncs
  /\ \A news \in Attachments : [NoNews EXCEPT !.attach = news] \in ServerSyncs
  /\ \A n \in Nat : [NoNews EXCEPT !.config = <<n, n>>] \in ServerSyncs
  BY DEF NoNews, ServerSyncs, Attachments, Configs, NONE

LEMMA NewsFields ==
  ASSUME NEW a \in ServerSyncs
  PROVE  /\ a.id \in Nat /\ a.event \in BOOLEAN /\ a.number \in Nat \cup {NONE} /\ a.listeners \in SUBSET Nat
         /\ a.attach \in Attachments /\ a.profile \in {"none", "ok", "resync"} /\ a.config \in Configs
  BY DEF ServerSyncs

(* A head and a tail, in the terms of the messages. *)
LEMMA HeadTail ==
  ASSUME NEW S, NEW q \in Seq(S), q # <<>>
  PROVE  /\ Head(q) \in S /\ Head(q) = q[1] /\ Tail(q) \in Seq(S) /\ Len(Tail(q)) = Len(q) - 1 /\ Len(q) \in Nat \ {0}
         /\ \A i \in 1 .. Len(q) - 1 : Tail(q)[i] = q[i + 1]
  OBVIOUS
-----------------------------------------------------------------------------
(* Types: one lemma for each group of actions. *)

LEMMA InitType == Init => TypeOK
  <1> SUFFICES ASSUME Init PROVE TypeOK
    OBVIOUS
  <1>1. requestId \in 0 .. RequestIds - 1 /\ created \in 0 .. MaxEvents /\ mishaps \in 0 .. MaxMishaps
    BY SyncAssumption DEF Init
  <1>2. manager \in EventManagers
    BY NewEventManagerType DEF Init
  <1>3. status \in Status /\ saved \in Status /\ server \in Servers
    BY DEF Init, NewStatus, Status, NewServer, Servers
  <1>4. user \in [info : Nat, waiting : BOOLEAN]
    BY DEF Init, NoUser
  <1>5. toServer \in Seq(ClientSyncs) /\ toClient \in Seq(ServerSyncs)
        /\ accepted \in Seq(EventIds) /\ delivered \in Seq(EventIds)
    BY DEF Init
  <1>6. QED BY <1>1, <1>2, <1>3, <1>4, <1>5 DEF Init, TypeOK

LEMMA HappensType ==
  ASSUME TypeOK, NEW kind, Happens(kind)
  PROVE  mishaps' \in 0 .. MaxMishaps /\ happened' \subseteq MishapKinds
  BY SyncAssumption DEF Happens, TypeOK

(* An event the application may still send. *)
LEMMA NextEvent ==
  ASSUME TypeOK, Fits(1)
  PROVE  created + 1 \in EventIds /\ created + 1 \in 0 .. MaxEvents
  BY EventIdsType DEF TypeOK, Fits

LEMMA ApplicationType == ASSUME TypeOK, Application PROVE TypeOK'
  <1>1. manager \in EventManagers /\ accepted \in Seq(EventIds)
    BY DEF TypeOK
  <1>2. CASE Send
    <2>1. created + 1 \in EventIds /\ created + 1 \in 0 .. MaxEvents
      BY <1>2, NextEvent DEF Send
    <2>2. manager' \in EventManagers
      BY <1>1, <1>2, <2>1, SendEventType DEF Send
    <2>3. accepted' \in Seq(EventIds)
      BY <1>1, <1>2, <2>1 DEF Send
    <2>4. QED BY <1>2, <2>1, <2>2, <2>3 DEF Send, TypeOK, files, trouble
  <1>3. CASE OpenBlock
    <2>1. manager' \in EventManagers
      BY <1>1, <1>3, CreateBlockType DEF OpenBlock
    <2>2. QED BY <1>3, <2>1 DEF OpenBlock, TypeOK, files, channel, ghosts, trouble
  <1>4. CASE AddEvent
    <2>1. created + 1 \in EventIds /\ created + 1 \in 0 .. MaxEvents
      BY <1>4, NextEvent DEF AddEvent
    <2>2. manager' \in EventManagers
      BY <1>1, <1>4, <2>1, AddToBlockType DEF AddEvent
    <2>3. QED BY <1>4, <2>1, <2>2 DEF AddEvent, TypeOK, files, channel, trouble
  <1>5. CASE SendBlock
    <2>1. PICK i \in DOMAIN manager.blocks :
            /\ manager' = FinishBlock(manager, i)
            /\ accepted' = accepted \o Ids(manager.blocks[i].events)
            /\ wanted' = IF manager.blocks[i].events = <<>> THEN wanted ELSE wanted \cup {"event"}
      BY <1>5 DEF SendBlock
    <2>2. manager' \in EventManagers
      BY <1>1, <2>1, FinishBlockType
    <2>3. Ids(manager.blocks[i].events) \in Seq(EventIds)
      BY <1>1, BlockEvents, IdsType
    <2>4. accepted' \in Seq(EventIds)
      BY <1>1, <2>1, <2>3
    <2>5. wanted' \subseteq {"profile", "user", "event", "config"}
      BY <2>1 DEF TypeOK
    <2>6. QED BY <1>5, <2>2, <2>4, <2>5 DEF SendBlock, TypeOK, files, trouble
  <1>6. CASE DropBlock
    <2>1. manager' \in EventManagers
      BY <1>1, <1>6, WithoutBlockType DEF DropBlock
    <2>2. QED BY <1>6, <2>1 DEF DropBlock, TypeOK, files, channel, ghosts, trouble
  <1>7. CASE LookForListeners
    <2>1. manager' \in EventManagers
      BY <1>1, <1>7, FindListenersType DEF LookForListeners
    <2>2. mishaps' \in 0 .. MaxMishaps /\ happened' \subseteq MishapKinds
      BY <1>7, HappensType DEF LookForListeners
    <2>3. QED BY <1>7, <2>1, <2>2 DEF LookForListeners, TypeOK, files, ghosts
  <1>8. CASE Attach
    BY <1>8 DEF Attach, AttachToUser, TypeOK, files, trouble
  <1>9. QED BY <1>2, <1>3, <1>4, <1>5, <1>6, <1>7, <1>8 DEF Application

(* What a sync that is built, or not, leaves of the managers. *)
LEMMA BuiltType ==
  ASSUME TypeOK, NEW svcs, Serialize(svcs) \/ SerializeFails(svcs) \/ NoBuffer
  PROVE  /\ requestId' \in 0 .. RequestIds - 1 /\ manager' \in EventManagers
         /\ user' \in [info : Nat, waiting : BOOLEAN]
  <1>1. manager \in EventManagers /\ user \in [info : Nat, waiting : BOOLEAN] /\ requestId \in 0 .. RequestIds - 1
    BY DEF TypeOK
  <1>2. NextId \in 0 .. RequestIds - 1 /\ (requestId - 1) % RequestIds \in 0 .. RequestIds - 1
    BY NextIdType
  <1>3. SerializeEvents(manager, NextId) \in EventManagers
    BY <1>1, <1>2, SerializeEventsType, SyncAssumption
  <1>4. SerializeUser \in [info : Nat, waiting : BOOLEAN]
    BY UserType
  <1>5. CASE Serialize(svcs)
    BY <1>1, <1>2, <1>3, <1>4, <1>5 DEF Serialize
  <1>6. CASE SerializeFails(svcs)
    <2>1. \A n \in 1 .. Len(Outgoing(manager)) : NumberFirst(manager, n) \in EventManagers
      BY <1>1, NumberFirstType, OutgoingType
    <2>2. QED BY <1>1, <1>3, <1>4, <1>6, <2>1 DEF SerializeFails
  <1>7. CASE NoBuffer
    BY <1>1, <1>2, <1>7 DEF NoBuffer
  <1>8. QED BY <1>5, <1>6, <1>7

LEMMA HandType ==
  ASSUME TypeOK, NEW svcs, Hand(svcs)
  PROVE  toServer' \in Seq(ClientSyncs) /\ asked' \subseteq Nat
  <1>1. ClientSync(svcs, NextId) \in ClientSyncs
    BY NextIdType, ClientSyncType, SyncAssumption
  <1>2. toServer' \in Seq(ClientSyncs)
    BY <1>1 DEF Hand, TypeOK
  <1>3. asked' \subseteq Nat
    BY UserType DEF Hand, TypeOK
  <1>4. QED BY <1>2, <1>3

LEMMA ConnectType == ASSUME TypeOK, Connect PROVE TypeOK'
  <1>1. /\ requestId' \in 0 .. RequestIds - 1 /\ manager' \in EventManagers
        /\ user' \in [info : Nat, waiting : BOOLEAN]
    BY BuiltType DEF Connect
  <1>2. toServer' \in Seq(ClientSyncs) /\ asked' \subseteq Nat
    <2>1. CASE Hand(Services)
      BY <2>1, HandType
    <2>2. CASE UNCHANGED <<toServer, asked>>
      BY <2>2 DEF TypeOK
    <2>3. QED BY <2>1, <2>2 DEF Connect
  <1>3. mishaps' \in 0 .. MaxMishaps /\ happened' \subseteq MishapKinds
    <2>1. CASE UNCHANGED trouble
      BY <2>1 DEF TypeOK, trouble
    <2>2. QED BY <2>1, HappensType DEF Connect
  <1>4. link' \in {"up", "authorized"} /\ wanted' = {}
    BY DEF Connect
  <1>5. QED BY <1>1, <1>2, <1>3, <1>4 DEF Connect, TypeOK, files

LEMMA SyncType == ASSUME TypeOK, Sync PROVE TypeOK'
  <1>1. /\ requestId' \in 0 .. RequestIds - 1 /\ manager' \in EventManagers
        /\ user' \in [info : Nat, waiting : BOOLEAN]
    BY BuiltType DEF Sync
  <1>2. toServer' \in Seq(ClientSyncs) /\ asked' \subseteq Nat
    <2>1. CASE Hand(wanted)
      BY <2>1, HandType
    <2>2. CASE UNCHANGED <<toServer, asked>>
      BY <2>2 DEF TypeOK
    <2>3. QED BY <2>1, <2>2 DEF Sync
  <1>3. mishaps' \in 0 .. MaxMishaps /\ happened' \subseteq MishapKinds
    <2>1. CASE UNCHANGED trouble
      BY <2>1 DEF TypeOK, trouble
    <2>2. QED BY <2>1, HappensType DEF Sync
  <1>4. QED BY <1>1, <1>2, <1>3 DEF Sync, TypeOK, files
-----------------------------------------------------------------------------
LEMMA PushType ==
  ASSUME TypeOK, NEW news \in ServerSyncs, Push(news)
  PROVE  toClient' \in Seq(ServerSyncs)
  BY DEF Push, TypeOK

LEMMA ServeType == ASSUME TypeOK, Serve PROVE TypeOK'
  <1> DEFINE m == Head(toServer)
             top == CHOOSE n \in Numbers(m.events) \cup {server.last} :
                      \A k \in Numbers(m.events) \cup {server.last} : k <= n
  <1>1. m \in ClientSyncs /\ Tail(toServer) \in Seq(ClientSyncs)
    BY HeadTail DEF Serve, TypeOK
  <1>2. m.events \in Seq(Event) /\ m.attach \in Nat /\ m.profile \in BOOLEAN /\ m.key \in BOOLEAN
    BY <1>1 DEF ClientSyncs
  <1>3. server \in Servers /\ server.last \in Nat /\ server.verifying \in Seq(Nat)
    BY DEF TypeOK, Servers
  <1>4. top \in Nat
    BY <1>2, <1>3, HighestNumber
  <1>5. Append(server.verifying, m.attach) \in Seq(Nat)
    BY <1>2, <1>3
  <1>6. server' = [server EXCEPT !.session = TRUE, !.last = top, !.known = server.known \/ m.profile,
                                 !.registered = server.registered \/ m.key,
                                 !.verifying = IF m.attach = 0 THEN server.verifying
                                               ELSE Append(server.verifying, m.attach)]
    BY <1>3 DEF Serve, Servers
  <1>7. Ids(NewEvents(m.events)) \in Seq(EventIds)
    BY <1>2, NewEventsType, IdsType
  <1>8. delivered' \in Seq(EventIds)
    BY <1>7 DEF Serve, TypeOK
  <1>9. toClient' \in Seq(ServerSyncs)
    BY <1>1, ReplyType DEF Serve, TypeOK
  <1>10. toServer' = Tail(toServer)
    BY DEF Serve
  <1> HIDE DEF top, m
  <1>11. server' \in Servers
    BY <1>2, <1>3, <1>4, <1>5, <1>6 DEF Servers
  <1>12. QED BY <1>1, <1>8, <1>9, <1>10, <1>11 DEF Serve, TypeOK, managers, files, trouble

LEMMA VerifyType == ASSUME TypeOK, Verify PROVE TypeOK'
  <1>1. PICK ok \in BOOLEAN :
          /\ server' = [server EXCEPT !.verifying = Tail(@), !.attached = @ \/ ok]
          /\ Push([NoNews EXCEPT !.attach = IF ok THEN "success" ELSE "failure"])
          /\ missed' = (missed \/ (ok /\ ~server.session))
    BY DEF Verify
  <1>2. (IF ok THEN "success" ELSE "failure") \in Attachments
    BY DEF Attachments
  <1>3. toClient' \in Seq(ServerSyncs)
    BY <1>1, <1>2, NewsType, PushType
  <1>4. server.verifying \in Seq(Nat) /\ server.verifying # <<>>
    BY DEF Verify, TypeOK, Servers
  <1>5. Tail(server.verifying) \in Seq(Nat)
    BY <1>4
  <1>6. server' \in Servers
    BY <1>1, <1>5 DEF TypeOK, Servers
  <1>7. missed' \in BOOLEAN
    BY <1>1
  <1>8. QED BY <1>3, <1>6, <1>7 DEF Verify, TypeOK, managers, files, trouble

LEMMA ServerType == ASSUME TypeOK, Notify \/ ForgetProfile \/ Publish PROVE TypeOK'
  <1>1. CASE Notify
    <2>1. (IF server.attached THEN "detached" ELSE "attached") \in Attachments
      BY DEF Attachments
    <2>2. toClient' \in Seq(ServerSyncs)
      BY <1>1, <2>1, NewsType, PushType DEF Notify
    <2>3. server' \in Servers
      BY <1>1 DEF Notify, TypeOK, Servers
    <2>4. mishaps' \in 0 .. MaxMishaps /\ happened' \subseteq MishapKinds
      BY <1>1, HappensType DEF Notify
    <2>5. missed' \in BOOLEAN
      BY <1>1 DEF Notify
    <2>6. QED BY <1>1, <2>2, <2>3, <2>4, <2>5 DEF Notify, TypeOK, managers, files
  <1>2. CASE ForgetProfile
    <2>1. server' \in Servers
      BY <1>2 DEF ForgetProfile, TypeOK, Servers
    <2>2. mishaps' \in 0 .. MaxMishaps /\ happened' \subseteq MishapKinds
      BY <1>2, HappensType DEF ForgetProfile
    <2>3. QED BY <1>2, <2>1, <2>2 DEF ForgetProfile, TypeOK, managers, files, channel, ghosts
  <1>3. CASE Publish
    <2>1. server.version + 1 \in Nat
      BY DEF TypeOK, Servers
    <2>2. toClient' \in Seq(ServerSyncs)
      BY <1>3, <2>1, NewsType, PushType DEF Publish
    <2>3. server' \in Servers
      BY <1>3, <2>1 DEF Publish, TypeOK, Servers
    <2>4. mishaps' \in 0 .. MaxMishaps /\ happened' \subseteq MishapKinds
      BY <1>3, HappensType DEF Publish
    <2>5. QED BY <1>3, <2>2, <2>3, <2>4 DEF Publish, TypeOK, managers, files, ghosts
  <1>4. QED BY <1>1, <1>2, <1>3
-----------------------------------------------------------------------------
LEMMA HandleEventsType ==
  ASSUME TypeOK, NEW a \in ServerSyncs
  PROVE  HandleEvents(a) \in EventManagers /\ HandleAttach(a, HandleEvents(a)) \in EventManagers
  <1> DEFINE s == IF a.number = NONE THEN manager ELSE Synchronize(manager, a.number)
  <1>1. manager \in EventManagers
    BY DEF TypeOK
  <1>2. s \in EventManagers
    BY <1>1, NewsFields, SynchronizeType
  <1>3. HandleEvents(a) \in EventManagers
    <2>1. HandleEvents(a) = IF ~a.event THEN manager ELSE AnswerListeners(Acknowledge(s, a.id), a.listeners)
      BY DEF HandleEvents
    <2> HIDE DEF s
    <2>2. AnswerListeners(Acknowledge(s, a.id), a.listeners) \in EventManagers
      BY <1>2, AcknowledgeType, AnswerListenersType
    <2>3. QED BY <1>1, <2>1, <2>2
  <1>4. QED BY <1>3, FindListenersType DEF HandleAttach

LEMMA NewsHandledType ==
  ASSUME TypeOK, NEW a \in ServerSyncs
  PROVE  /\ HandleNews(a) => /\ manager' \in EventManagers /\ user' \in [info : Nat, waiting : BOOLEAN]
                            /\ resync' \in BOOLEAN
         /\ StatusAfter(a) \in Status /\ ConfigSeq(a) \in Nat
         /\ Requested(a) \subseteq {"profile", "user", "event", "config"}
         /\ HasBody(a) => a.config[2] \in Nat
  <1>1. ConfigSeq(a) \in Nat /\ (HasBody(a) => a.config[2] \in Nat)
    BY NewsFields DEF ConfigSeq, HasBody, Configs, TypeOK, Status
  <1>2. status.registered \in BOOLEAN /\ status.attached \in BOOLEAN
    BY DEF TypeOK, Status
  <1>3. Attached(a) \in BOOLEAN
    <2>1. a.attach \in {"none", "success", "failure", "attached", "detached"}
      BY NewsFields DEF Attachments
    <2>2. QED BY <1>2, <2>1 DEF Attached
  <1>4. StatusAfter(a) \in Status
    BY <1>1, <1>2, <1>3 DEF StatusAfter, Status
  <1>5. ASSUME HandleNews(a)
        PROVE  /\ manager' \in EventManagers /\ user' \in [info : Nat, waiting : BOOLEAN] /\ resync' \in BOOLEAN
    <2>1. manager' \in EventManagers
      BY <1>5, HandleEventsType DEF HandleNews
    <2>2. user' \in [info : Nat, waiting : BOOLEAN] /\ resync' \in BOOLEAN
      BY <1>5 DEF HandleNews, NoUser, TypeOK
    <2>3. QED BY <2>1, <2>2
  <1>6. Requested(a) \subseteq {"profile", "user", "event", "config"}
    BY DEF Requested
  <1>7. QED BY <1>1, <1>4, <1>5, <1>6

LEMMA ReceiveType == ASSUME TypeOK, Receive PROVE TypeOK'
  <1> DEFINE a == Head(toClient)
  <1>1. a \in ServerSyncs /\ Tail(toClient) \in Seq(ServerSyncs)
    BY HeadTail DEF Receive, TypeOK
  <1>2. /\ HandleNews(a) /\ status' = StatusAfter(a) /\ saved' = status'
        /\ IF HasBody(a) THEN config' = a.config[2] /\ stored' = a.config[2] ELSE UNCHANGED <<config, stored>>
        /\ wanted' = wanted \cup Requested(a) \cup (IF HasBody(a) THEN {"config"} ELSE {})
        /\ toClient' = Tail(toClient)
        /\ UNCHANGED <<requestId, link, toServer, server, ghosts, trouble>>
    BY DEF Receive
  <1> HIDE DEF a
  <1>3. config' \in Nat /\ stored' \in Nat /\ status' \in Status /\ saved' \in Status
        /\ wanted' \subseteq {"profile", "user", "event", "config"}
    BY <1>1, <1>2, NewsHandledType DEF TypeOK
  <1>4. /\ manager' \in EventManagers /\ user' \in [info : Nat, waiting : BOOLEAN] /\ resync' \in BOOLEAN
    BY <1>1, <1>2, NewsHandledType
  <1>5. QED BY <1>1, <1>2, <1>3, <1>4 DEF TypeOK, ghosts, trouble

LEMMA ReceiveCorruptType == ASSUME TypeOK, ReceiveCorrupt PROVE TypeOK'
  <1> DEFINE a == Head(toClient)
  <1>1. a \in ServerSyncs /\ Tail(toClient) \in Seq(ServerSyncs)
    BY HeadTail DEF ReceiveCorrupt, TypeOK
  <1>2. mishaps' \in 0 .. MaxMishaps /\ happened' \subseteq MishapKinds
    BY HappensType DEF ReceiveCorrupt
  <1>3. /\ \/ HandleNews(a) /\ status' = StatusAfter(a) /\ wanted' = wanted \cup Requested(a) /\ UNCHANGED missed
           \/ /\ status' = [status EXCEPT !.configSeq = ConfigSeq(a)]
              /\ missed' = (missed \/ a.attach # "none")
              /\ UNCHANGED <<manager, user, resync, wanted>>
        /\ toClient' = Tail(toClient)
        /\ UNCHANGED <<requestId, config, files, link, toServer, server, accepted, delivered, created, attaches, asked>>
    BY DEF ReceiveCorrupt
  <1> HIDE DEF a
  <1>4. CASE HandleNews(a) /\ status' = StatusAfter(a) /\ wanted' = wanted \cup Requested(a) /\ UNCHANGED missed
    <2>1. /\ manager' \in EventManagers /\ user' \in [info : Nat, waiting : BOOLEAN] /\ resync' \in BOOLEAN
          /\ status' \in Status /\ wanted' \subseteq {"profile", "user", "event", "config"}
      BY <1>1, <1>4, NewsHandledType DEF TypeOK
    <2>2. QED BY <1>1, <1>2, <1>3, <1>4, <2>1 DEF TypeOK, files
  <1>5. CASE /\ status' = [status EXCEPT !.configSeq = ConfigSeq(a)]
             /\ missed' = (missed \/ a.attach # "none")
             /\ UNCHANGED <<manager, user, resync, wanted>>
    <2>1. status' \in Status /\ missed' \in BOOLEAN
      BY <1>1, <1>5, NewsHandledType DEF TypeOK, Status
    <2>2. QED BY <1>1, <1>2, <1>3, <1>5, <2>1 DEF TypeOK, files
  <1>6. QED BY <1>3, <1>4, <1>5

LEMMA DropType == ASSUME TypeOK, Drop PROVE TypeOK'
  <1>1. mishaps' \in 0 .. MaxMishaps /\ happened' \subseteq MishapKinds
    BY HappensType DEF Drop
  <1>2. server' \in Servers /\ missed' \in BOOLEAN
    BY DEF Drop, TypeOK, Servers
  <1>3. toServer' \in Seq(ClientSyncs) /\ toClient' \in Seq(ServerSyncs) /\ link' = "down"
    BY DEF Drop
  <1>4. QED BY <1>1, <1>2, <1>3 DEF Drop, TypeOK, managers, files

LEMMA RestartType == ASSUME TypeOK, Restart PROVE TypeOK'
  <1>1. mishaps' \in 0 .. MaxMishaps /\ happened' \subseteq MishapKinds
    BY HappensType DEF Restart
  <1>2. server' \in Servers /\ missed' \in BOOLEAN
    BY DEF Restart, TypeOK, Servers
  <1>3. toServer' \in Seq(ClientSyncs) /\ toClient' \in Seq(ServerSyncs) /\ link' = "down" /\ wanted' = {}
    BY DEF Restart
  <1>4. stored' \in Nat
    <2>1. CASE toClient # <<>> /\ HasBody(Head(toClient)) /\ stored' = Head(toClient).config[2]
      <3>1. Head(toClient) \in ServerSyncs
        BY <2>1, HeadTail DEF TypeOK
      <3>2. QED BY <2>1, <3>1, NewsHandledType
    <2>2. QED BY <2>1 DEF Restart, TypeOK
  <1>5. manager' \in EventManagers /\ requestId' \in 0 .. RequestIds - 1 /\ user' \in [info : Nat, waiting : BOOLEAN]
    BY NewEventManagerType, SyncAssumption DEF Restart, NoUser
  <1>6. QED BY <1>1, <1>2, <1>3, <1>4, <1>5 DEF Restart, TypeOK

LEMMA TypeStep == ASSUME TypeOK, [Next]_vars PROVE TypeOK'
  <1>1. CASE Next
    BY <1>1, ApplicationType, ConnectType, SyncType, ReceiveType, ReceiveCorruptType, ServeType, VerifyType,
       ServerType, DropType, RestartType DEF Next, Endpoint, Server
  <1>2. CASE UNCHANGED vars
    BY <1>2 DEF vars, managers, files, channel, ghosts, trouble, TypeOK
  <1>3. QED BY <1>1, <1>2

(* The managers, the files, the messages in both directions and the server *)
(* keep their types; the request id stays below its width.                 *)
THEOREM TypeCorrectness == Spec => []TypeOK
  <1>1. TypeOK /\ [Next]_vars => TypeOK'
    BY TypeStep
  <1>2. QED BY <1>1, InitType, PTL DEF Spec
-----------------------------------------------------------------------------
(* Registration.  As long as the server does not have the public key, the  *)
(* endpoint does not take itself to be registered, no answer says so, and  *)
(* the first message on a connection, the CONNECT, has the key.            *)
Unregistered ==
  /\ ~status.registered /\ ~saved.registered /\ resync
  /\ \A i \in 1 .. Len(toClient) : toClient[i].profile = "none"
  /\ link = "authorized" => toServer # <<>> /\ Head(toServer).key

Registration ==
  /\ link # "authorized" => toServer = <<>>
  /\ server.registered \/ Unregistered

LEMMA RegistrationInit == Init => Registration
  BY DEF Init, Registration, Unregistered, NewStatus, NewServer

LEMMA RegistrationFrame ==
  ASSUME Registration, UNCHANGED <<status, saved, resync, toClient, toServer, link, server>>
  PROVE  Registration'
  BY DEF Registration, Unregistered

(* News of the server's own says nothing of the profile. *)
LEMMA PushKeepsRegistration ==
  ASSUME TypeOK, Registration, NEW news \in ServerSyncs, news.profile = "none", Push(news),
         server'.registered = server.registered, UNCHANGED <<status, saved, resync, toServer, link>>
  PROVE  Registration'
  <1>1. CASE toClient' = toClient
    BY <1>1 DEF Registration, Unregistered
  <1>2. CASE toClient' = Append(toClient, news)
    <2>1. toClient \in Seq(ServerSyncs)
      BY DEF TypeOK
    <2>2. Len(toClient') = Len(toClient) + 1 /\ toClient'[Len(toClient) + 1] = news
          /\ \A i \in 1 .. Len(toClient) : toClient'[i] = toClient[i]
      BY <1>2, <2>1
    <2>3. \A i \in 1 .. Len(toClient') : i \in 1 .. Len(toClient) \/ i = Len(toClient) + 1
      BY <2>1, <2>2
    <2>4. QED BY <2>2, <2>3 DEF Registration, Unregistered
  <1>3. QED BY <1>1, <1>2 DEF Push

LEMMA NewsAreSilent ==
  /\ \A news \in Attachments : [NoNews EXCEPT !.attach = news].profile = "none"
  /\ \A n \in Nat : [NoNews EXCEPT !.config = <<n, n>>].profile = "none"
  BY DEF NoNews

LEMMA RegistrationStep == ASSUME TypeOK, Registration, Next PROVE Registration'
  <1>1. CASE Application
    BY <1>1, RegistrationFrame DEF Application, Send, OpenBlock, AddEvent, SendBlock, DropBlock,
       LookForListeners, Attach, files, channel
  <1>2. CASE Connect
    <2>1. toServer = <<>> /\ UNCHANGED <<status, saved, resync, toClient, server>>
      BY <1>2 DEF Connect, Registration, files
    <2>2. CASE Hand(Services) /\ link' = "authorized"
      <3>1. toServer' = <<ClientSync(Services, NextId)>>
        BY <2>1, <2>2 DEF Hand
      <3>2. Unregistered => ClientSync(Services, NextId).key
        BY DEF ClientSync, Services, KeyWritten, Unregistered
      <3>3. toServer' # <<>> /\ Head(toServer') = ClientSync(Services, NextId)
        BY <3>1
      <3>4. QED BY <2>1, <2>2, <3>2, <3>3 DEF Registration, Unregistered
    <2>3. CASE link' = "up" /\ toServer' = toServer
      BY <2>1, <2>3 DEF Registration, Unregistered
    <2>4. QED BY <1>2, <2>2, <2>3 DEF Connect
  <1>3. CASE Sync
    <2>1. link' = "authorized" /\ link = "authorized" /\ UNCHANGED <<status, saved, resync, toClient, server>>
      BY <1>3 DEF Sync, files
    <2>2. CASE toServer' = toServer
      BY <2>1, <2>2 DEF Registration, Unregistered
    <2>3. CASE Hand(wanted)
      <3>1. toServer \in Seq(ClientSyncs)
        BY DEF TypeOK
      <3>2. toServer # <<>> => toServer' # <<>> /\ Head(toServer') = Head(toServer)
        BY <2>3, <3>1 DEF Hand
      <3>3. QED BY <2>1, <3>2 DEF Registration, Unregistered
    <2>4. QED BY <1>3, <2>2, <2>3 DEF Sync
  <1>4. CASE Receive
    <2>1. toClient \in Seq(ServerSyncs) /\ toClient # <<>> /\ toClient' = Tail(toClient)
          /\ UNCHANGED <<link, toServer, server>>
          /\ status' = StatusAfter(Head(toClient)) /\ saved' = status'
          /\ resync' = IF Head(toClient).profile = "none" THEN resync ELSE Head(toClient).profile = "resync"
      BY <1>4 DEF Receive, HandleNews, TypeOK
    <2>2. Unregistered => Head(toClient).profile = "none"
      BY <2>1, HeadTail DEF Unregistered
    <2>3. Unregistered => \A i \in 1 .. Len(toClient') : toClient'[i].profile = "none"
      BY <2>1, HeadTail DEF Unregistered
    <2>4. Unregistered => ~status'.registered /\ ~saved'.registered /\ resync'
      BY <2>1, <2>2 DEF Unregistered, StatusAfter
    <2>5. QED BY <2>1, <2>3, <2>4 DEF Registration, Unregistered
  <1>5. CASE ReceiveCorrupt
    <2>1. toClient \in Seq(ServerSyncs) /\ toClient # <<>> /\ toClient' = Tail(toClient)
          /\ UNCHANGED <<link, toServer, server, saved>>
      BY <1>5 DEF ReceiveCorrupt, files, TypeOK
    <2>2. Unregistered => Head(toClient).profile = "none"
      BY <2>1, HeadTail DEF Unregistered
    <2>3. Unregistered => \A i \in 1 .. Len(toClient') : toClient'[i].profile = "none"
      BY <2>1, HeadTail DEF Unregistered
    <2>4. Unregistered => ~status'.registered /\ resync'
      <3>1. CASE HandleNews(Head(toClient)) /\ status' = StatusAfter(Head(toClient))
        BY <2>2, <3>1 DEF Unregistered, StatusAfter, HandleNews
      <3>2. CASE status' = [status EXCEPT !.configSeq = ConfigSeq(Head(toClient))] /\ resync' = resync
        BY <3>2 DEF Unregistered, TypeOK, Status
      <3>3. QED BY <1>5, <3>1, <3>2 DEF ReceiveCorrupt
    <2>5. QED BY <2>1, <2>3, <2>4 DEF Registration, Unregistered
  <1>6. CASE Serve
    <2>1. toServer # <<>> /\ UNCHANGED <<link, status, saved, resync>> /\ toServer' = Tail(toServer)
          /\ server'.registered = (server.registered \/ Head(toServer).key)
      BY <1>6 DEF Serve, managers, files, TypeOK, Servers
    <2>2. QED BY <2>1 DEF Registration, Unregistered
  <1>7. CASE Verify
    <2>1. PICK ok \in BOOLEAN :
            /\ server' = [server EXCEPT !.verifying = Tail(@), !.attached = @ \/ ok]
            /\ Push([NoNews EXCEPT !.attach = IF ok THEN "success" ELSE "failure"])
      BY <1>7 DEF Verify
    <2>2. (IF ok THEN "success" ELSE "failure") \in Attachments
      BY DEF Attachments
    <2>3. server'.registered = server.registered
      BY <2>1 DEF TypeOK, Servers
    <2>4. UNCHANGED <<status, saved, resync, toServer, link>>
      BY <1>7 DEF Verify, managers, files
    <2>5. QED BY <2>1, <2>2, <2>3, <2>4, NewsType, NewsAreSilent, PushKeepsRegistration
  <1>8. CASE Notify
    <2>1. (IF server.attached THEN "detached" ELSE "attached") \in Attachments
      BY DEF Attachments
    <2>2. server'.registered = server.registered /\ UNCHANGED <<status, saved, resync, toServer, link>>
      BY <1>8 DEF Notify, managers, files, TypeOK, Servers
    <2>3. QED BY <1>8, <2>1, <2>2, NewsType, NewsAreSilent, PushKeepsRegistration DEF Notify
  <1>9. CASE ForgetProfile
    <2>1. server'.registered = server.registered /\ UNCHANGED <<status, saved, resync, toClient, toServer, link>>
      BY <1>9 DEF ForgetProfile, managers, files, channel, TypeOK, Servers
    <2>2. QED BY <2>1 DEF Registration, Unregistered
  <1>10. CASE Publish
    <2>1. server.version + 1 \in Nat
      BY DEF TypeOK, Servers
    <2>2. server'.registered = server.registered /\ UNCHANGED <<status, saved, resync, toServer, link>>
      BY <1>10 DEF Publish, managers, files, TypeOK, Servers
    <2>3. QED BY <1>10, <2>1, <2>2, NewsType, NewsAreSilent, PushKeepsRegistration DEF Publish
  <1>11. CASE Drop \/ Restart
    <2>1. /\ link' = "down" /\ toServer' = <<>> /\ toClient' = <<>>
          /\ server'.registered = server.registered /\ saved' = saved
          /\ (resync => resync') /\ (status' = status \/ status' = saved)
      BY <1>11 DEF Drop, Restart, managers, files, TypeOK, Servers
    <2>2. Len(toClient') = 0
      BY <2>1
    <2>3. QED BY <2>1, <2>2 DEF Registration, Unregistered
  <1>12. QED
    BY <1>1, <1>2, <1>3, <1>4, <1>5, <1>6, <1>7, <1>8, <1>9, <1>10, <1>11 DEF Next, Endpoint, Server

(* An endpoint that takes itself to be registered, in memory or in its     *)
(* status file, and therefore leaves its public key out of the profile, is *)
(* one the server has the key of, over lost connections, restarts and      *)
(* unreadable server syncs (kaa_profile_need_profile_resync).              *)
THEOREM RegisteredEndpointIsKnown == Spec => []RegisteredIsKnown
  <1>1. TypeOK /\ Registration /\ [Next]_vars => Registration'
    <2>1. TypeOK /\ Registration /\ UNCHANGED vars => Registration'
      BY RegistrationFrame DEF vars, managers, files, channel
    <2>2. QED BY <2>1, RegistrationStep
  <1>2. Registration => RegisteredIsKnown
    BY DEF Registration, Unregistered, RegisteredIsKnown
  <1>3. QED BY <1>1, <1>2, RegistrationInit, TypeCorrectness, PTL DEF Spec
-----------------------------------------------------------------------------
(* Configuration.  Versions only grow along the way from the server: the   *)
(* endpoint's own, those of the bodies on their way in their order, the    *)
(* server's; a request or an answer without a body names a version that    *)
(* the endpoint has or has passed.                                         *)
Said(m, c) == m.config # <<>> => m.config[2] <= c
Answered(a, c, v) ==
  a.config # <<>> => IF HasBody(a) THEN a.config[2] = a.config[1] /\ c <= a.config[1] /\ a.config[1] <= v
                     ELSE a.config[1] <= c

AllSaid(q, c) == \A i \in 1 .. Len(q) : Said(q[i], c)
AllAnswered(q, c, v) ==
  /\ \A i \in 1 .. Len(q) : Answered(q[i], c, v)
  /\ \A i, j \in 1 .. Len(q) : i < j /\ HasBody(q[i]) /\ HasBody(q[j]) => q[i].config[1] <= q[j].config[1]

Configuration ==
  /\ NeverClaimsNewer
  /\ stored = config /\ config <= server.version
  /\ AllSaid(toServer, config) /\ AllAnswered(toClient, config, server.version)

(* What the configuration extension of a message may hold.                 *)
LEMMA BodyType ==
  ASSUME NEW a \in ServerSyncs
  PROVE  /\ a.config # <<>> => a.config[1] \in Nat /\ a.config[2] \in Nat \cup {NONE}
         /\ HasBody(a) => a.config # <<>> /\ a.config[1] \in Nat /\ a.config[2] \in Nat
  BY NewsFields DEF Configs, HasBody

LEMMA RequestType ==
  ASSUME NEW m \in ClientSyncs
  PROVE  m.config # <<>> => m.config[1] \in Nat /\ m.config[2] \in Int
  BY DEF ClientSyncs, Configs, NONE

LEMMA SaidLater ==
  ASSUME NEW q \in Seq(ClientSyncs), NEW c \in Nat, NEW d \in Nat, c <= d, AllSaid(q, c)
  PROVE  AllSaid(q, d)
  <1> SUFFICES ASSUME NEW i \in 1 .. Len(q) PROVE Said(q[i], d)
    BY DEF AllSaid
  <1>1. q[i] \in ClientSyncs /\ Said(q[i], c)
    BY DEF AllSaid
  <1>2. QED BY <1>1, RequestType DEF Said

LEMMA AnsweredAppend ==
  ASSUME NEW q \in Seq(ServerSyncs), NEW a \in ServerSyncs, NEW c \in Nat, NEW v \in Nat, NEW w \in Nat,
         AllAnswered(q, c, v), v <= w, Answered(a, c, w), HasBody(a) => a.config[1] = w
  PROVE  AllAnswered(Append(q, a), c, w)
  <1> DEFINE r == Append(q, a)
  <1>1. r \in Seq(ServerSyncs) /\ Len(r) = Len(q) + 1 /\ r[Len(q) + 1] = a /\ \A i \in 1 .. Len(q) : r[i] = q[i]
    OBVIOUS
  <1>2. \A i \in 1 .. Len(q) : q[i] \in ServerSyncs /\ Answered(q[i], c, v)
    BY DEF AllAnswered
  <1>3. \A i \in 1 .. Len(q) : Answered(q[i], c, w) /\ (HasBody(q[i]) => q[i].config[1] <= w)
    BY <1>2, BodyType DEF Answered
  <1>4. \A i \in 1 .. Len(r) : i \in 1 .. Len(q) \/ i = Len(q) + 1
    BY <1>1
  <1> HIDE DEF r
  <1>5. \A i \in 1 .. Len(r) : Answered(r[i], c, w)
    BY <1>1, <1>3, <1>4
  <1>6. ASSUME NEW i \in 1 .. Len(r), NEW j \in 1 .. Len(r), i < j, HasBody(r[i]), HasBody(r[j])
        PROVE  r[i].config[1] <= r[j].config[1]
    <2>1. i \in 1 .. Len(q)
      BY <1>1, <1>4, <1>6
    <2>2. CASE j \in 1 .. Len(q)
      BY <1>1, <1>6, <2>1, <2>2 DEF AllAnswered
    <2>3. CASE j = Len(q) + 1
      BY <1>1, <1>3, <1>6, <2>1, <2>3
    <2>4. QED BY <1>4, <2>2, <2>3
  <1>7. AllAnswered(r, c, w)
    BY <1>5, <1>6 DEF AllAnswered
  <1>8. QED BY <1>7 DEF r

LEMMA AnsweredTail ==
  ASSUME NEW q \in Seq(ServerSyncs), q # <<>>, NEW c \in Nat, NEW v \in Nat, AllAnswered(q, c, v)
  PROVE  /\ AllAnswered(Tail(q), c, v)
         /\ HasBody(Head(q)) => LET n == Head(q).config[2]
                               IN  n = Head(q).config[1] /\ c <= n /\ n <= v /\ AllAnswered(Tail(q), n, v)
  <1> DEFINE t == Tail(q)
             a == Head(q)
  <1>1. /\ t \in Seq(ServerSyncs) /\ Len(t) = Len(q) - 1 /\ Len(q) \in Nat \ {0} /\ a = q[1] /\ a \in ServerSyncs
        /\ \A i \in 1 .. Len(q) - 1 : t[i] = q[i + 1]
    BY HeadTail
  <1> HIDE DEF t, a
  <1>2. \A i \in 1 .. Len(t) : i \in 1 .. Len(q) - 1 /\ i + 1 \in 1 .. Len(q) /\ 1 < i + 1
    BY <1>1
  <1>3. \A i \in 1 .. Len(t) : t[i] = q[i + 1]
    BY <1>1, <1>2
  <1>4. \A i, j \in 1 .. Len(t) : i < j => i + 1 < j + 1
    OBVIOUS
  <1>5. AllAnswered(t, c, v)
    BY <1>2, <1>3, <1>4 DEF AllAnswered
  <1>6. ASSUME HasBody(a)
        PROVE  a.config[2] = a.config[1] /\ c <= a.config[2] /\ a.config[2] <= v /\ AllAnswered(t, a.config[2], v)
    <2>1. 1 \in 1 .. Len(q)
      BY <1>1
    <2>2. Answered(a, c, v) /\ a.config # <<>> /\ a.config[1] \in Nat
      BY <1>1, <1>6, <2>1, BodyType DEF AllAnswered
    <2>3. a.config[2] = a.config[1] /\ c <= a.config[2] /\ a.config[2] <= v
      BY <1>6, <2>2 DEF Answered
    <2>4. \A i \in 1 .. Len(t) : HasBody(t[i]) => a.config[1] <= t[i].config[1]
      BY <1>1, <1>2, <1>3, <1>6, <2>1 DEF AllAnswered
    <2>5. ASSUME NEW i \in 1 .. Len(t) PROVE Answered(t[i], a.config[2], v)
      <3>1. t[i] \in ServerSyncs /\ Answered(t[i], c, v)
        BY <1>1, <1>5 DEF AllAnswered
      <3>2. CASE HasBody(t[i])
        BY <2>3, <2>4, <3>1, <3>2 DEF Answered
      <3>3. CASE ~HasBody(t[i])
        BY <2>2, <2>3, <3>1, <3>3, BodyType DEF Answered
      <3>4. QED BY <3>2, <3>3
    <2>6. AllAnswered(t, a.config[2], v)
      BY <1>5, <2>5 DEF AllAnswered
    <2>7. QED BY <2>3, <2>6
  <1>7. QED BY <1>5, <1>6 DEF t, a

LEMMA ConfigurationInit == Init => Configuration
  BY DEF Init, Configuration, NeverClaimsNewer, NewStatus, NewServer, AllSaid, AllAnswered

(* Mishaps are remembered. *)
LEMMA HappenedGrows == Next => happened \subseteq happened'
  <1>1. \A kind : Happens(kind) => happened \subseteq happened'
    BY DEF Happens
  <1>2. ASSUME Application PROVE happened \subseteq happened'
    BY <1>1, <1>2 DEF Application, Send, OpenBlock, AddEvent, SendBlock, DropBlock, LookForListeners, Attach, trouble
  <1>3. ASSUME Endpoint PROVE happened \subseteq happened'
    BY <1>1, <1>3 DEF Endpoint, Connect, Sync, Receive, ReceiveCorrupt, trouble
  <1>4. ASSUME Server PROVE happened \subseteq happened'
    BY <1>1, <1>4 DEF Server, Serve, Verify, Notify, ForgetProfile, Publish, trouble
  <1>5. ASSUME Drop \/ Restart PROVE happened \subseteq happened'
    BY <1>1, <1>5 DEF Drop, Restart
  <1>6. QED BY <1>2, <1>3, <1>4, <1>5 DEF Next

(* A step that leaves the endpoint's own alone and keeps the wires as they should be. *)
LEMMA ConfigurationFrame ==
  ASSUME Configuration, UNCHANGED <<config, stored, status, saved>>, happened \subseteq happened',
         config <= server'.version, AllSaid(toServer', config), AllAnswered(toClient', config, server'.version)
  PROVE  Configuration'
  BY DEF Configuration, NeverClaimsNewer

LEMMA SaidAppend ==
  ASSUME TypeOK, Configuration, NEW svcs, Hand(svcs) \/ toServer' = toServer
  PROVE  AllSaid(toServer', config)
  <1>1. toServer \in Seq(ClientSyncs) /\ config \in Nat
    BY DEF TypeOK
  <1>2. CASE toServer' = toServer
    BY <1>2 DEF Configuration
  <1>3. CASE Hand(svcs)
    <2> DEFINE m == ClientSync(svcs, NextId)
    <2>1. Said(m, config)
      BY <1>1 DEF Said, ClientSync
    <2>2. toServer' = Append(toServer, m)
      BY <1>3 DEF Hand
    <2> HIDE DEF m
    <2>3. /\ Len(toServer') = Len(toServer) + 1 /\ toServer'[Len(toServer) + 1] = m
          /\ \A i \in 1 .. Len(toServer) : toServer'[i] = toServer[i]
      BY <1>1, <2>2
    <2>4. \A i \in 1 .. Len(toServer') : i \in 1 .. Len(toServer) \/ i = Len(toServer) + 1
      BY <1>1, <2>3
    <2>5. \A i \in 1 .. Len(toServer) : Said(toServer[i], config)
      BY DEF Configuration, AllSaid
    <2>6. \A i \in 1 .. Len(toServer') : Said(toServer'[i], config)
      BY <2>1, <2>3, <2>4, <2>5
    <2>7. QED BY <2>6 DEF AllSaid
  <1>4. QED BY <1>2, <1>3

(* What the server sends of its own. *)
LEMMA PushKeepsAnswers ==
  ASSUME TypeOK, Configuration, NEW news \in ServerSyncs, Push(news), NEW w \in Nat, server.version <= w,
         news.config = <<>> \/ news.config = <<w, w>>
  PROVE  AllAnswered(toClient', config, w)
  <1>1. toClient \in Seq(ServerSyncs) /\ config \in Nat /\ server.version \in Nat /\ config <= server.version
    BY DEF TypeOK, Servers, Configuration
  <1>2. Answered(news, config, w) /\ (HasBody(news) => news.config[1] = w)
    <2>1. CASE news.config = <<>>
      BY <2>1 DEF Answered, HasBody
    <2>2. CASE news.config = <<w, w>>
      <3>1. news.config[1] = w /\ news.config[2] = w /\ config <= w
        BY <1>1, <2>2
      <3>2. HasBody(news)
        BY <2>2, <3>1 DEF HasBody, NONE
      <3>3. QED BY <3>1, <3>2 DEF Answered
    <2>3. QED BY <2>1, <2>2
  <1>3. AllAnswered(toClient, config, server.version)
    BY DEF Configuration
  <1>4. CASE toClient' = toClient
    <2>1. \A i \in 1 .. Len(toClient) : toClient[i] \in ServerSyncs /\ Answered(toClient[i], config, server.version)
      BY <1>1, <1>3 DEF AllAnswered
    <2>2. \A i \in 1 .. Len(toClient) : Answered(toClient[i], config, w)
      BY <1>1, <2>1, BodyType DEF Answered
    <2>3. QED BY <1>3, <1>4, <2>2 DEF AllAnswered
  <1>5. CASE toClient' = Append(toClient, news)
    BY <1>1, <1>2, <1>3, <1>5, AnsweredAppend
  <1>6. QED BY <1>4, <1>5 DEF Push

LEMMA NewsOfNoConfig ==
  /\ \A news \in Attachments : [NoNews EXCEPT !.attach = news].config = <<>>
  /\ \A n \in Nat : [NoNews EXCEPT !.config = <<n, n>>].config = <<n, n>>
  BY DEF NoNews

LEMMA ConfigurationServe == ASSUME TypeOK, Configuration, Serve PROVE Configuration'
  <1> DEFINE m == Head(toServer)
  <1>1. toServer \in Seq(ClientSyncs) /\ toClient \in Seq(ServerSyncs) /\ config \in Nat /\ server.version \in Nat
    BY DEF TypeOK, Servers
  <1>2. /\ toServer # <<>> /\ toServer' = Tail(toServer) /\ toClient' = Append(toClient, Reply(m))
        /\ server'.version = server.version /\ UNCHANGED <<config, stored, status, saved, happened>>
    BY DEF Serve, TypeOK, Servers, managers, files, trouble
  <1>3. m \in ClientSyncs /\ Said(m, config)
    BY <1>1, <1>2, HeadTail DEF Configuration, AllSaid
  <1>4. \A i \in 1 .. Len(Tail(toServer)) : Said(Tail(toServer)[i], config)
    BY <1>1, <1>2, HeadTail DEF Configuration, AllSaid
  <1>5. Reply(m) \in ServerSyncs
    BY <1>3, ReplyType
  <1> HIDE DEF m
  <1>6. Reply(m).config = IF m.config = <<>> \/ m.config = <<server.version, server.version>> THEN <<>>
                          ELSE IF m.config[2] = server.version THEN <<server.version, NONE>>
                          ELSE <<server.version, server.version>>
    BY DEF Reply
  <1>7. config <= server.version
    BY DEF Configuration
  <1>8. Answered(Reply(m), config, server.version) /\ (HasBody(Reply(m)) => Reply(m).config[1] = server.version)
    BY <1>1, <1>3, <1>6, <1>7 DEF Answered, HasBody, Said, NONE
  <1>9. AllAnswered(toClient', config, server.version)
    BY <1>1, <1>2, <1>5, <1>8, AnsweredAppend DEF Configuration
  <1>10. AllSaid(toServer', config)
    BY <1>2, <1>4 DEF AllSaid
  <1>11. QED BY <1>2, <1>7, <1>9, <1>10, ConfigurationFrame

LEMMA ConfigurationReceive == ASSUME TypeOK, Configuration, Receive PROVE Configuration'
  <1> DEFINE a == Head(toClient)
  <1>1. /\ toServer \in Seq(ClientSyncs) /\ toClient \in Seq(ServerSyncs) /\ config \in Nat /\ server.version \in Nat
        /\ status.configSeq \in Nat
    BY DEF TypeOK, Servers, Status
  <1>2. /\ toClient # <<>> /\ toClient' = Tail(toClient)
        /\ UNCHANGED <<toServer, server, happened>>
        /\ status'.configSeq = ConfigSeq(a) /\ saved' = status'
        /\ HasBody(a) => config' = a.config[2] /\ stored' = a.config[2]
        /\ ~HasBody(a) => UNCHANGED <<config, stored>>
    BY DEF Receive, StatusAfter, trouble
  <1>3. AllAnswered(toClient, config, server.version) /\ AllSaid(toServer, config)
        /\ config <= server.version /\ stored = config
    BY DEF Configuration
  <1>4. /\ AllAnswered(Tail(toClient), config, server.version)
        /\ HasBody(a) => LET n == a.config[2]
                         IN  n = a.config[1] /\ config <= n /\ n <= server.version
                             /\ AllAnswered(Tail(toClient), n, server.version)
    BY <1>1, <1>2, <1>3, AnsweredTail
  <1>5. a \in ServerSyncs /\ Answered(a, config, server.version)
    BY <1>1, <1>2, <1>3, HeadTail DEF AllAnswered
  <1> HIDE DEF a
  <1>6. CASE HasBody(a)
    <2>1. a.config # <<>> /\ a.config[2] \in Nat
      BY <1>5, <1>6, BodyType
    <2>2. AllSaid(toServer, a.config[2])
      BY <1>1, <1>3, <1>4, <1>6, <2>1, SaidLater
    <2>3. status'.configSeq = a.config[2]
      BY <1>2, <1>4, <1>6, <2>1 DEF ConfigSeq
    <2>4. QED BY <1>2, <1>4, <1>6, <2>1, <2>2, <2>3 DEF Configuration, NeverClaimsNewer
  <1>7. CASE ~HasBody(a)
    <2>1. "corrupt" \notin happened => status'.configSeq <= config
      BY <1>2, <1>5, <1>7 DEF ConfigSeq, Answered, Configuration, NeverClaimsNewer
    <2>2. QED BY <1>2, <1>3, <1>4, <1>7, <2>1 DEF Configuration, NeverClaimsNewer
  <1>8. QED BY <1>6, <1>7

LEMMA ConfigurationCorrupt == ASSUME TypeOK, Configuration, ReceiveCorrupt PROVE Configuration'
  <1>1. /\ toClient # <<>> /\ toClient' = Tail(toClient) /\ "corrupt" \in happened'
        /\ UNCHANGED <<config, stored, toServer, server>>
    BY DEF ReceiveCorrupt, files, Happens
  <1>2. toClient \in Seq(ServerSyncs) /\ config \in Nat /\ server.version \in Nat
    BY DEF TypeOK, Servers
  <1>3. AllAnswered(Tail(toClient), config, server.version)
    BY <1>1, <1>2, AnsweredTail DEF Configuration
  <1>4. QED BY <1>1, <1>3 DEF Configuration, NeverClaimsNewer

LEMMA ConfigurationLost == ASSUME TypeOK, Configuration, Drop \/ Restart PROVE Configuration'
  <1>1. AllSaid(<<>>, config') /\ AllAnswered(<<>>, config', server'.version)
    BY DEF AllSaid, AllAnswered
  <1>2. toServer' = <<>> /\ toClient' = <<>> /\ server'.version = server.version
    BY DEF Drop, Restart, TypeOK, Servers
  <1>3. happened \subseteq happened'
    BY HappenedGrows DEF Next
  <1>4. CASE Drop
    BY <1>1, <1>2, <1>3, <1>4 DEF Drop, managers, files, Configuration, NeverClaimsNewer
  <1>5. CASE Restart
    <2>1. config' = stored' /\ saved' = saved /\ status' = saved
      BY <1>5 DEF Restart
    <2>2. config \in Nat /\ server.version \in Nat /\ saved.configSeq \in Nat
      BY DEF TypeOK, Servers, Status
    <2>3. stored <= stored' /\ stored' <= server.version /\ stored' \in Nat
      <3>1. CASE stored' = stored
        BY <2>2, <3>1 DEF Configuration
      <3>2. CASE toClient # <<>> /\ HasBody(Head(toClient)) /\ stored' = Head(toClient).config[2]
        <4>1. toClient \in Seq(ServerSyncs)
          BY DEF TypeOK
        <4>2. Head(toClient) \in ServerSyncs
          BY <3>2, <4>1, HeadTail
        <4>3. QED BY <2>2, <3>2, <4>1, <4>2, AnsweredTail, BodyType DEF Configuration
      <3>3. QED BY <1>5, <3>1, <3>2 DEF Restart
    <2>4. QED BY <1>1, <1>2, <1>3, <2>1, <2>2, <2>3 DEF Configuration, NeverClaimsNewer
  <1>6. QED BY <1>4, <1>5

LEMMA ConfigurationStep == ASSUME TypeOK, Configuration, Next PROVE Configuration'
  <1>1. happened \subseteq happened'
    BY HappenedGrows
  <1>2. config \in Nat /\ server.version \in Nat
    BY DEF TypeOK, Servers
  <1>3. config <= server.version /\ AllSaid(toServer, config) /\ AllAnswered(toClient, config, server.version)
    BY DEF Configuration
  <1>4. CASE Application
    <2>1. UNCHANGED <<config, stored, status, saved, toServer, toClient, server>>
      BY <1>4 DEF Application, Send, OpenBlock, AddEvent, SendBlock, DropBlock, LookForListeners, Attach,
         files, channel
    <2>2. QED BY <1>1, <1>3, <2>1, ConfigurationFrame
  <1>5. CASE Connect \/ Sync
    <2>1. UNCHANGED <<config, stored, status, saved, toClient, server>>
      BY <1>5 DEF Connect, Sync, files
    <2>2. AllSaid(toServer', config)
      BY <1>5, SaidAppend DEF Connect, Sync
    <2>3. QED BY <1>1, <1>3, <2>1, <2>2, ConfigurationFrame
  <1>6. CASE Verify \/ Notify
    <2>1. UNCHANGED <<config, stored, status, saved, toServer>> /\ server'.version = server.version
      BY <1>6 DEF Verify, Notify, managers, files, TypeOK, Servers
    <2>2. PICK news \in Attachments : Push([NoNews EXCEPT !.attach = news])
      BY <1>6 DEF Verify, Notify, Attachments
    <2> DEFINE told == [NoNews EXCEPT !.attach = news]
    <2>3. told \in ServerSyncs /\ told.config = <<>> /\ Push(told)
      BY <2>2, NewsType, NewsOfNoConfig
    <2> HIDE DEF told
    <2>4. AllAnswered(toClient', config, server.version)
      BY <1>2, <2>3, PushKeepsAnswers
    <2>5. QED BY <1>1, <1>3, <2>1, <2>4, ConfigurationFrame
  <1>7. CASE ForgetProfile
    <2>1. UNCHANGED <<config, stored, status, saved, toServer, toClient>> /\ server'.version = server.version
      BY <1>7 DEF ForgetProfile, managers, files, channel, TypeOK, Servers
    <2>2. QED BY <1>1, <1>3, <2>1, ConfigurationFrame
  <1>8. CASE Publish
    <2>1. /\ UNCHANGED <<config, stored, status, saved, toServer>> /\ server'.version = server.version + 1
          /\ Push([NoNews EXCEPT !.config = <<server.version + 1, server.version + 1>>])
      BY <1>8 DEF Publish, managers, files, TypeOK, Servers
    <2>2. server.version + 1 \in Nat /\ server.version <= server.version + 1 /\ config <= server.version + 1
      BY <1>2, <1>3
    <2>3. AllAnswered(toClient', config, server.version + 1)
      BY <2>1, <2>2, NewsType, NewsOfNoConfig, PushKeepsAnswers
    <2>4. QED BY <1>1, <1>3, <2>1, <2>2, <2>3, ConfigurationFrame
  <1>9. CASE Serve \/ Receive \/ ReceiveCorrupt \/ Drop \/ Restart
    BY <1>9, ConfigurationServe, ConfigurationReceive, ConfigurationCorrupt, ConfigurationLost
  <1>10. QED BY <1>4, <1>5, <1>6, <1>7, <1>8, <1>9 DEF Next, Endpoint, Server

(* The endpoint, in memory and in its two files, never takes itself to     *)
(* have a newer configuration than it has, over lost connections and a     *)
(* stop between writing the one file and the other; only after a body it   *)
(* could not read it may (kaa_configuration_manager_handle_server_sync).   *)
THEOREM EndpointNeverClaimsNewer == Spec => []NeverClaimsNewer
  <1>1. TypeOK /\ Configuration /\ [Next]_vars => Configuration'
    <2>1. TypeOK /\ Configuration /\ UNCHANGED vars => Configuration'
      BY ConfigurationFrame DEF vars, managers, files, channel, trouble, Configuration
    <2>2. QED BY <2>1, ConfigurationStep
  <1>2. Configuration => NeverClaimsNewer
    BY DEF Configuration
  <1>3. QED BY <1>1, <1>2, ConfigurationInit, TypeCorrectness, PTL DEF Spec
-----------------------------------------------------------------------------
(* Attachment.  As long as no news of it has been lost, the last of what   *)
(* is on its way to the endpoint, or what the endpoint believes when       *)
(* nothing is, is what the server holds.                                   *)
Changes(a) == a.attach \in {"success", "attached", "detached"}

LastSays(q, s) ==
  \A i \in 1 .. Len(q) :
    Changes(q[i]) /\ (\A j \in i + 1 .. Len(q) : ~Changes(q[j])) => (s <=> q[i].attach # "detached")
Heard(q, b, s) == LastSays(q, s) /\ ((\A i \in 1 .. Len(q) : ~Changes(q[i])) => (b <=> s))

Attachment == ~missed => Heard(toClient, status.attached, server.attached)

LEMMA HeardAppend ==
  ASSUME NEW q \in Seq(ServerSyncs), NEW a, NEW b \in BOOLEAN, NEW s \in BOOLEAN, NEW t \in BOOLEAN,
         Heard(q, b, s), Changes(a) => (t <=> a.attach # "detached"), ~Changes(a) => (t <=> s)
  PROVE  Heard(Append(q, a), b, t)
  <1> DEFINE r == Append(q, a)
  <1>1. Len(q) \in Nat /\ Len(r) = Len(q) + 1 /\ r[Len(q) + 1] = a /\ \A i \in 1 .. Len(q) : r[i] = q[i]
    OBVIOUS
  <1>2. \A i \in 1 .. Len(r) : i \in 1 .. Len(q) \/ i = Len(q) + 1
    BY <1>1
  <1>3. Len(q) + 1 \in 1 .. Len(r) /\ \A i \in 1 .. Len(q) : i \in 1 .. Len(r) /\ Len(q) + 1 \in i + 1 .. Len(r)
    BY <1>1
  <1> HIDE DEF r
  <1>4. CASE Changes(a)
    <2>1. \A i \in 1 .. Len(q) : ~\A j \in i + 1 .. Len(r) : ~Changes(r[j])
      BY <1>1, <1>3, <1>4
    <2>2. LastSays(r, t)
      BY <1>1, <1>2, <1>4, <2>1 DEF LastSays
    <2>3. QED BY <1>1, <1>3, <1>4, <2>2 DEF Heard, r
  <1>5. CASE ~Changes(a)
    <2>1. \A i \in 1 .. Len(q) : (\A j \in i + 1 .. Len(r) : ~Changes(r[j])) => \A j \in i + 1 .. Len(q) : ~Changes(q[j])
      <3>1. \A i \in 1 .. Len(q) : \A j \in i + 1 .. Len(q) : j \in i + 1 .. Len(r) /\ j \in 1 .. Len(q)
        BY <1>1
      <3>2. QED BY <1>1, <3>1
    <2>2. LastSays(r, t)
      <3> SUFFICES ASSUME NEW i \in 1 .. Len(r), Changes(r[i]), \A j \in i + 1 .. Len(r) : ~Changes(r[j])
                   PROVE  t <=> r[i].attach # "detached"
        BY DEF LastSays
      <3>1. i \in 1 .. Len(q)
        BY <1>1, <1>2, <1>5
      <3>2. s <=> q[i].attach # "detached"
        BY <1>1, <2>1, <3>1 DEF Heard, LastSays
      <3>3. QED BY <1>1, <1>5, <3>1, <3>2
    <2>3. (\A i \in 1 .. Len(r) : ~Changes(r[i])) => (b <=> t)
      BY <1>1, <1>3, <1>5 DEF Heard
    <2>4. QED BY <2>2, <2>3 DEF Heard, r
  <1>6. QED BY <1>4, <1>5

LEMMA HeardTail ==
  ASSUME NEW q \in Seq(ServerSyncs), q # <<>>, NEW b \in BOOLEAN, NEW c \in BOOLEAN, NEW s \in BOOLEAN,
         Heard(q, b, s), Changes(Head(q)) => (c <=> Head(q).attach # "detached"), ~Changes(Head(q)) => (c <=> b)
  PROVE  Heard(Tail(q), c, s)
  <1> DEFINE t == Tail(q)
             a == Head(q)
  <1>1. /\ Len(q) \in Nat \ {0} /\ Len(t) = Len(q) - 1 /\ a = q[1]
        /\ \A i \in 1 .. Len(q) - 1 : t[i] = q[i + 1]
    BY HeadTail
  <1> HIDE DEF t, a
  <1>2. \A i \in 1 .. Len(t) : i + 1 \in 1 .. Len(q) /\ t[i] = q[i + 1]
    BY <1>1
  <1>3. \A k \in 1 .. Len(q) : k = 1 \/ (k - 1 \in 1 .. Len(t) /\ t[k - 1] = q[k])
    <2>1. \A k \in 1 .. Len(q) : k = 1 \/ (k - 1 \in 1 .. Len(q) - 1 /\ (k - 1) + 1 = k)
      BY <1>1
    <2>2. QED BY <1>1, <2>1
  <1>4. LastSays(t, s)
    <2> SUFFICES ASSUME NEW i \in 1 .. Len(t), Changes(t[i]), \A j \in i + 1 .. Len(t) : ~Changes(t[j])
                 PROVE  s <=> t[i].attach # "detached"
      BY DEF LastSays
    <2>1. \A k \in i + 2 .. Len(q) : k \in 1 .. Len(q) /\ k # 1 /\ k - 1 \in i + 1 .. Len(t)
      BY <1>1
    <2>2. \A k \in i + 2 .. Len(q) : ~Changes(q[k])
      BY <1>3, <2>1
    <2>3. i + 1 \in 1 .. Len(q) /\ (i + 1) + 1 = i + 2 /\ Changes(q[i + 1])
      BY <1>2
    <2>4. s <=> q[i + 1].attach # "detached"
      BY <2>2, <2>3 DEF Heard, LastSays
    <2>5. QED BY <1>2, <2>4
  <1>5. ASSUME \A i \in 1 .. Len(t) : ~Changes(t[i]) PROVE c <=> s
    <2>1. \A k \in 1 .. Len(q) : k = 1 \/ ~Changes(q[k])
      BY <1>3, <1>5
    <2>2. CASE Changes(a)
      <3>1. 1 \in 1 .. Len(q) /\ \A j \in 1 + 1 .. Len(q) : j \in 1 .. Len(q) /\ j # 1
        BY <1>1
      <3>2. s <=> q[1].attach # "detached"
        BY <1>1, <2>1, <2>2, <3>1 DEF Heard, LastSays
      <3>3. QED BY <1>1, <2>2, <3>2 DEF a
    <2>3. CASE ~Changes(a)
      <3>1. \A k \in 1 .. Len(q) : ~Changes(q[k])
        BY <1>1, <2>1, <2>3
      <3>2. QED BY <2>3, <3>1 DEF Heard, a
    <2>4. QED BY <2>2, <2>3
  <1>6. QED BY <1>4, <1>5 DEF Heard, t

LEMMA AttachmentTypes ==
  ASSUME TypeOK
  PROVE  /\ status.attached \in BOOLEAN /\ saved.attached \in BOOLEAN /\ server.attached \in BOOLEAN
         /\ server.session \in BOOLEAN /\ missed \in BOOLEAN /\ toClient \in Seq(ServerSyncs)
  BY DEF TypeOK, Status, Servers

LEMMA AttachmentInit == Init => Attachment
  BY DEF Init, Attachment, Heard, LastSays, NewStatus, NewServer

LEMMA AttachmentFrame ==
  ASSUME Attachment, UNCHANGED <<missed, toClient>>,
         status'.attached = status.attached, server'.attached = server.attached
  PROVE  Attachment'
  BY DEF Attachment

(* What the endpoint makes of an answer is what the answer says. *)
LEMMA AttachedSays ==
  ASSUME TypeOK, NEW a
  PROVE  /\ Changes(a) => (Attached(a) <=> a.attach # "detached")
         /\ ~Changes(a) => (Attached(a) <=> status.attached)
         /\ Attached(a) \in BOOLEAN
  BY AttachmentTypes DEF Changes, Attached

LEMMA AttachmentPush ==
  ASSUME TypeOK, Attachment, NEW news, Push(news), status'.attached = status.attached,
         ~missed' => ~missed, server'.attached \in BOOLEAN,
         Changes(news) => (server'.attached <=> news.attach # "detached"),
         ~Changes(news) => (server'.attached <=> server.attached),
         Changes(news) /\ ~server.session => missed' \/ (server'.attached <=> server.attached)
  PROVE  Attachment'
  <1> SUFFICES ASSUME ~missed' PROVE Heard(toClient', status.attached, server'.attached)
    BY DEF Attachment
  <1>1. Heard(toClient, status.attached, server.attached)
    BY DEF Attachment
  <1>2. CASE server.session
    <2>1. toClient' = Append(toClient, news)
      BY <1>2 DEF Push
    <2>2. QED BY <1>1, <2>1, AttachmentTypes, HeardAppend
  <1>3. CASE ~server.session
    <2>1. toClient' = toClient
      BY <1>3 DEF Push
    <2>2. server'.attached = server.attached
      BY <1>3, AttachmentTypes
    <2>3. QED BY <1>1, <2>1, <2>2
  <1>4. QED BY <1>2, <1>3

LEMMA AttachmentReceive == ASSUME TypeOK, Attachment, Receive \/ ReceiveCorrupt PROVE Attachment'
  <1> DEFINE a == Head(toClient)
  <1>1. /\ toClient # <<>> /\ toClient' = Tail(toClient) /\ UNCHANGED server
        /\ ~missed' => ~missed
        /\ \/ status'.attached = Attached(a)
           \/ status'.attached = status.attached /\ (~missed' => a.attach = "none")
    <2>1. status \in Status
      BY DEF TypeOK
    <2>2. StatusAfter(a).attached = Attached(a)
      BY DEF StatusAfter
    <2>3. [status EXCEPT !.configSeq = ConfigSeq(a)].attached = status.attached
      BY <2>1 DEF Status
    <2>4. CASE Receive
      BY <2>2, <2>4 DEF Receive, ghosts
    <2>5. CASE ReceiveCorrupt
      <3>1. /\ toClient # <<>> /\ toClient' = Tail(toClient) /\ UNCHANGED server
            /\ \/ status' = StatusAfter(a) /\ missed' = missed
               \/ /\ status' = [status EXCEPT !.configSeq = ConfigSeq(a)]
                  /\ missed' = (missed \/ a.attach # "none")
        BY <2>5 DEF ReceiveCorrupt
      <3> HIDE DEF a
      <3>2. CASE status' = StatusAfter(a) /\ missed' = missed
        BY <2>2, <3>1, <3>2
      <3>3. CASE status' = [status EXCEPT !.configSeq = ConfigSeq(a)] /\ missed' = (missed \/ a.attach # "none")
        <4>1. status'.attached = status.attached
          BY <2>3, <3>3
        <4>2. ~missed' => ~missed /\ a.attach = "none"
          BY <3>3
        <4>3. QED BY <3>1, <4>1, <4>2
      <3>4. QED BY <3>1, <3>2, <3>3
    <2>6. QED BY <2>4, <2>5
  <1> SUFFICES ASSUME ~missed' PROVE Heard(Tail(toClient), status'.attached, server.attached)
    BY <1>1 DEF Attachment
  <1> HIDE DEF a
  <1>2. a.attach = "none" => ~Changes(a)
    BY DEF Changes
  <1>3. /\ Changes(a) => (status'.attached <=> a.attach # "detached")
        /\ ~Changes(a) => (status'.attached <=> status.attached)
        /\ status'.attached \in BOOLEAN
    BY <1>1, <1>2, AttachedSays, AttachmentTypes
  <1>4. Heard(toClient, status.attached, server.attached)
    BY <1>1 DEF Attachment
  <1>5. QED BY <1>1, <1>3, <1>4, AttachmentTypes, HeardTail DEF a

LEMMA AttachmentLost == ASSUME TypeOK, Attachment, Drop \/ Restart PROVE Attachment'
  <1> SUFFICES ASSUME ~missed' PROVE Heard(<<>>, status'.attached, server.attached)
    BY DEF Drop, Restart, Attachment, TypeOK, Servers
  <1>1. ~missed /\ ~LostNews /\ (status'.attached <=> status.attached)
    BY AttachmentTypes DEF Drop, Restart, managers
  <1>2. \A i \in 1 .. Len(toClient) : ~Changes(toClient[i])
    BY <1>1, AttachmentTypes DEF LostNews, Changes
  <1>3. status.attached <=> server.attached
    BY <1>1, <1>2 DEF Attachment, Heard
  <1>4. QED BY <1>1, <1>3 DEF Heard, LastSays

LEMMA AttachmentStep == ASSUME TypeOK, Attachment, Next PROVE Attachment'
  <1>1. CASE Application
    BY <1>1, AttachmentFrame DEF Application, Send, OpenBlock, AddEvent, SendBlock, DropBlock,
       LookForListeners, Attach, files, channel, ghosts
  <1>2. CASE Connect \/ Sync
    BY <1>2, AttachmentFrame DEF Connect, Sync
  <1>3. CASE Receive \/ ReceiveCorrupt \/ Drop \/ Restart
    BY <1>3, AttachmentReceive, AttachmentLost
  <1>4. CASE Serve
    <2>1. /\ toClient' = Append(toClient, Reply(Head(toServer))) /\ UNCHANGED <<status, missed>>
          /\ server'.attached = server.attached
      BY <1>4 DEF Serve, managers, TypeOK, Servers
    <2>2. ~Changes(Reply(Head(toServer)))
      BY DEF Changes, Reply
    <2> DEFINE answer == Reply(Head(toServer))
    <2> HIDE DEF answer
    <2>3. ~missed => Heard(Append(toClient, answer), status.attached, server.attached)
      BY <2>2, AttachmentTypes, HeardAppend DEF Attachment, answer
    <2>4. QED BY <2>1, <2>3 DEF Attachment, answer
  <1>5. CASE Verify
    <2>1. PICK ok \in BOOLEAN :
            /\ server' = [server EXCEPT !.verifying = Tail(@), !.attached = @ \/ ok]
            /\ Push([NoNews EXCEPT !.attach = IF ok THEN "success" ELSE "failure"])
            /\ missed' = (missed \/ (ok /\ ~server.session))
      BY <1>5 DEF Verify
    <2> DEFINE news == [NoNews EXCEPT !.attach = IF ok THEN "success" ELSE "failure"]
    <2>2. news.attach = IF ok THEN "success" ELSE "failure"
      BY DEF NoNews
    <2>3. server'.attached = (server.attached \/ ok) /\ UNCHANGED status
      BY <1>5, <2>1 DEF Verify, managers, TypeOK, Servers
    <2>4. Push(news)
      BY <2>1
    <2> HIDE DEF news
    <2>5. CASE ok
      BY <2>1, <2>2, <2>3, <2>4, <2>5, AttachmentTypes, AttachmentPush DEF Changes
    <2>6. CASE ~ok
      BY <2>1, <2>2, <2>3, <2>4, <2>6, AttachmentTypes, AttachmentPush DEF Changes
    <2>7. QED BY <2>5, <2>6
  <1>6. CASE Notify
    <2> DEFINE news == [NoNews EXCEPT !.attach = IF server.attached THEN "detached" ELSE "attached"]
    <2>1. news.attach = IF server.attached THEN "detached" ELSE "attached"
      BY DEF NoNews
    <2>2. /\ server'.attached = ~server.attached /\ UNCHANGED status /\ Push(news)
          /\ missed' = (missed \/ ~server.session)
      BY <1>6 DEF Notify, managers, TypeOK, Servers
    <2> HIDE DEF news
    <2>3. CASE server.attached
      BY <2>1, <2>2, <2>3, AttachmentTypes, AttachmentPush DEF Changes
    <2>4. CASE ~server.attached
      BY <2>1, <2>2, <2>4, AttachmentTypes, AttachmentPush DEF Changes
    <2>5. QED BY <2>3, <2>4
  <1>7. CASE ForgetProfile
    <2>1. UNCHANGED <<missed, toClient, status>> /\ server'.attached = server.attached
      BY <1>7 DEF ForgetProfile, managers, channel, ghosts, TypeOK, Servers
    <2>2. QED BY <2>1, AttachmentFrame
  <1>8. CASE Publish
    <2> DEFINE news == [NoNews EXCEPT !.config = <<server.version + 1, server.version + 1>>]
    <2>1. news.attach = "none"
      BY DEF NoNews
    <2>2. /\ server'.attached = server.attached /\ UNCHANGED <<status, missed>> /\ Push(news)
      BY <1>8 DEF Publish, managers, ghosts, TypeOK, Servers
    <2> HIDE DEF news
    <2>3. QED BY <2>1, <2>2, AttachmentTypes, AttachmentPush DEF Changes
  <1>9. QED BY <1>1, <1>2, <1>3, <1>4, <1>5, <1>6, <1>7, <1>8 DEF Next, Endpoint, Server

(* The endpoint takes itself to be attached to its user exactly when the   *)
(* server does, once it has handled what was sent to it, as long as no     *)
(* news of the attachment was lost on the way (kaa_user_handle_server_sync *)
(* and its detach and attach notifications).                               *)
THEOREM EndpointAgreesOnAttachment == Spec => []AttachmentAgrees
  <1>1. TypeOK /\ Attachment /\ [Next]_vars => Attachment'
    <2>1. TypeOK /\ Attachment /\ UNCHANGED vars => Attachment'
      BY AttachmentFrame DEF vars, managers, channel, ghosts
    <2>2. QED BY <2>1, AttachmentStep
  <1>2. TypeOK /\ Attachment => AttachmentAgrees
    <2> SUFFICES ASSUME TypeOK, Attachment, ~missed, ~LostNews PROVE status.attached = server.attached
      BY DEF AttachmentAgrees
    <2>1. \A i \in 1 .. Len(toClient) : ~Changes(toClient[i])
      BY AttachmentTypes DEF LostNews, Changes
    <2>2. QED BY <2>1, AttachmentTypes DEF Attachment, Heard
  <1>3. QED BY <1>1, <1>2, AttachmentInit, TypeCorrectness, PTL DEF Spec
=============================================================================
