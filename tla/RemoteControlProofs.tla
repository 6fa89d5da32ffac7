------------------------- MODULE RemoteControlProofs -------------------------
(***************************************************************************)
(* For any number of presses, directions and failures: the variables of    *)
(* RemoteControl keep their types, and the bot never returns to an earlier *)
(* key press.  The invariant is that press numbers never decrease along    *)
(* the pipeline motors, wire, pending, direction.                          *)
(***************************************************************************)
EXTENDS RemoteControl, TLAPS

(* No press of q after one of r, and none in q out of order. *)
Before(q, r) == \A i \in 1..Len(q), j \in 1..Len(r) : q[i].press <= r[j].press
Sorted(q)    == \A i, j \in 1..Len(q) : i <= j => q[i].press <= q[j].press
From(p, q)   == \A i \in 1..Len(q) : p <= q[i].press
UpTo(q, p)   == \A i \in 1..Len(q) : q[i].press <= p

Pipeline ==
  /\ Sorted(wire) /\ Sorted(pending) /\ Before(wire, pending)
  /\ From(motors.press, wire) /\ From(motors.press, pending)
  /\ UpTo(wire, direction.press) /\ UpTo(pending, direction.press)
  /\ motors.press <= direction.press

IInv == TypeOK /\ Pipeline
-----------------------------------------------------------------------------
LEMMA PressNumber == ASSUME NEW q \in Seq(Presses), NEW i \in 1..Len(q)
                     PROVE  q[i].press \in Nat
  <1>1. q[i] \in Presses
    OBVIOUS
  <1>2. QED BY <1>1 DEF Presses

(* What a press appended to a sorted queue, two queues joined and a queue  *)
(* without its first press keep.                                           *)
LEMMA AppendSorted ==
  ASSUME NEW q \in Seq(Presses), NEW w \in Seq(Presses), NEW d \in Presses, NEW m \in Nat,
         Sorted(q), UpTo(q, d.press), Before(w, q), UpTo(w, d.press), From(m, q), m <= d.press
  PROVE  /\ Append(q, d) \in Seq(Presses)
         /\ Sorted(Append(q, d)) /\ UpTo(Append(q, d), d.press)
         /\ Before(w, Append(q, d)) /\ From(m, Append(q, d))
  <1>1. Append(q, d) \in Seq(Presses) /\ Len(Append(q, d)) = Len(q) + 1
    OBVIOUS
  <1>2. \A i \in 1..Len(q) : Append(q, d)[i] = q[i]
    OBVIOUS
  <1>3. Append(q, d)[Len(q) + 1] = d
    OBVIOUS
  <1> DEFINE a == Append(q, d)
  <1> HIDE DEF a
  <1>4. \A i \in 1..(Len(q) + 1) : i \in 1..Len(q) \/ i = Len(q) + 1
    OBVIOUS
  <1>5. \A i \in 1..Len(a) : a[i].press <= d.press
    BY <1>1, <1>2, <1>3, <1>4 DEF UpTo, Presses, a
  <1>6. \A i, j \in 1..Len(a) : i <= j => a[i].press <= a[j].press
    <2> SUFFICES ASSUME NEW i \in 1..Len(a), NEW j \in 1..Len(a), i <= j
                 PROVE  a[i].press <= a[j].press
      OBVIOUS
    <2>1. CASE j = Len(q) + 1
      BY <1>3, <1>5, <2>1 DEF a
    <2>2. CASE j # Len(q) + 1
      <3>1. i \in 1..Len(q) /\ j \in 1..Len(q)
        BY <1>1, <2>2 DEF a
      <3>2. QED BY <1>2, <3>1 DEF Sorted, a
    <2>3. QED BY <2>1, <2>2
  <1>7. \A i \in 1..Len(w), j \in 1..Len(a) : w[i].press <= a[j].press
    BY <1>1, <1>2, <1>3, <1>4 DEF Before, UpTo, a
  <1>8. \A j \in 1..Len(a) : m <= a[j].press
    BY <1>1, <1>2, <1>3, <1>4 DEF From, a
  <1>9. QED BY <1>1, <1>5, <1>6, <1>7, <1>8 DEF Sorted, UpTo, Before, From, a

LEMMA JoinSorted ==
  ASSUME NEW w \in Seq(Presses), NEW q \in Seq(Presses), NEW m \in Nat, NEW p \in Nat,
         Sorted(w), Sorted(q), Before(w, q), From(m, w), From(m, q), UpTo(w, p), UpTo(q, p)
  PROVE  w \o q \in Seq(Presses) /\ Sorted(w \o q) /\ From(m, w \o q) /\ UpTo(w \o q, p)
  <1> DEFINE a == w \o q
  <1>1. a \in Seq(Presses) /\ Len(a) = Len(w) + Len(q)
    OBVIOUS
  <1>2. \A i \in 1..Len(a) : a[i] = IF i <= Len(w) THEN w[i] ELSE q[i - Len(w)]
    OBVIOUS
  <1> HIDE DEF a
  <1>3. \A i \in 1..Len(a) : IF i <= Len(w) THEN i \in 1..Len(w) ELSE i - Len(w) \in 1..Len(q)
    BY <1>1
  <1>4. Sorted(a)
    <2> SUFFICES ASSUME NEW i \in 1..Len(a), NEW j \in 1..Len(a), i <= j
                 PROVE  a[i].press <= a[j].press
      BY DEF Sorted
    <2>1. CASE j <= Len(w)
      BY <1>2, <1>3, <2>1 DEF Sorted
    <2>2. CASE i <= Len(w) /\ ~(j <= Len(w))
      BY <1>2, <1>3, <2>2 DEF Before
    <2>3. CASE ~(i <= Len(w))
      <3>1. ~(j <= Len(w)) /\ i - Len(w) <= j - Len(w)
        BY <2>3
      <3>2. i - Len(w) \in 1..Len(q) /\ j - Len(w) \in 1..Len(q)
        BY <1>3, <2>3, <3>1
      <3>3. QED BY <1>2, <2>3, <3>1, <3>2 DEF Sorted
    <2>4. QED BY <2>1, <2>2, <2>3
  <1>5. From(m, a)
    BY <1>2, <1>3 DEF From
  <1>6. UpTo(a, p)
    BY <1>2, <1>3 DEF UpTo
  <1>7. QED BY <1>1, <1>4, <1>5, <1>6 DEF a

LEMMA TailSorted ==
  ASSUME NEW w \in Seq(Presses), NEW q \in Seq(Presses), NEW p \in Nat, w # <<>>,
         Sorted(w), Before(w, q), UpTo(w, p)
  PROVE  /\ Tail(w) \in Seq(Presses) /\ Head(w) \in Presses
         /\ Sorted(Tail(w)) /\ Before(Tail(w), q) /\ UpTo(Tail(w), p)
         /\ From(Head(w).press, Tail(w)) /\ From(Head(w).press, q)
         /\ Head(w).press <= p
  <1> DEFINE t == Tail(w)
  <1>1. t \in Seq(Presses) /\ Len(t) = Len(w) - 1 /\ Head(w) = w[1] /\ w[1] \in Presses
    OBVIOUS
  <1>2. \A i \in 1..Len(t) : t[i] = w[i + 1] /\ i + 1 \in 1..Len(w)
    OBVIOUS
  <1>3. 1 \in 1..Len(w)
    OBVIOUS
  <1> HIDE DEF t
  <1>4. Before(t, q) /\ UpTo(t, p)
    BY <1>2 DEF Before, UpTo
  <1>8. Sorted(t)
    <2> SUFFICES ASSUME NEW i \in 1..Len(t), NEW j \in 1..Len(t), i <= j
                 PROVE  t[i].press <= t[j].press
      BY DEF Sorted
    <2>1. i + 1 \in 1..Len(w) /\ j + 1 \in 1..Len(w) /\ i + 1 <= j + 1
      BY <1>2
    <2>2. w[i + 1].press <= w[j + 1].press
      BY <2>1 DEF Sorted
    <2>3. QED BY <1>2, <2>2
  <1>5. From(w[1].press, t)
    BY <1>1, <1>2, <1>3 DEF Sorted, From
  <1>6. From(w[1].press, q) /\ w[1].press <= p
    BY <1>3 DEF Before, From, UpTo
  <1>7. QED BY <1>1, <1>4, <1>5, <1>6, <1>8 DEF t
-----------------------------------------------------------------------------
LEMMA InitOK == Init => IInv
  <1> SUFFICES ASSUME Init PROVE IInv
    OBVIOUS
  <1>1. Initial \in Presses /\ Initial.press = 0 /\ Stop \in Directions
    BY RemoteAssumption DEF RemoteAssumption, Initial, Presses
  <1>2. TypeOK
    <2>1. isShutdown \in BOOLEAN
      BY ZenonT(20) DEF Init
    <2>2. <<>> \in Seq(Presses)
      OBVIOUS
    <2>3. QED BY <1>1, <2>1, <2>2 DEF Init, TypeOK
  <1>3. Pipeline
    BY <1>1 DEF Init, Pipeline, Sorted, Before, From, UpTo
  <1>4. QED BY <1>2, <1>3 DEF IInv

LEMMA StepOK == IInv /\ [Next]_vars => IInv'
  <1> SUFFICES ASSUME IInv, [Next]_vars PROVE IInv'
    OBVIOUS
  <1>0. /\ pending \in Seq(Presses) /\ wire \in Seq(Presses) /\ motors.press \in Nat
        /\ direction \in Presses /\ direction.press \in Nat
    BY DEF IInv, TypeOK, Presses
  <1>1. ASSUME NEW d \in Directions, Press(d) PROVE IInv'
    <2>1. direction' \in Presses /\ direction'.press = direction.press + 1
      BY <1>0, <1>1 DEF Press, Presses
    <2>2. UpTo(wire, direction'.press) /\ UpTo(pending, direction'.press)
      <3>1. \A i \in 1..Len(wire) : wire[i].press \in Nat
        BY <1>0, PressNumber
      <3>2. \A i \in 1..Len(pending) : pending[i].press \in Nat
        BY <1>0, PressNumber
      <3>3. QED BY <1>0, <2>1, <3>1, <3>2 DEF IInv, Pipeline, UpTo
    <2>3. motors.press <= direction'.press
      BY <1>0, <2>1 DEF IInv, Pipeline
    <2>4. UNCHANGED <<isShutdown, kbd, pc, prev, pending, wire, motors, failures>>
      BY <1>1 DEF Press
    <2>5. TypeOK'
      BY <2>1, <2>4 DEF IInv, TypeOK
    <2>6. Pipeline'
      BY <2>2, <2>3, <2>4 DEF IInv, Pipeline, Sorted, Before, From, UpTo
    <2>7. QED BY <2>5, <2>6 DEF IInv
  <1>2. CASE UNCHANGED <<direction, pending, wire, motors>> /\ TypeOK'
    BY <1>2 DEF IInv, Pipeline, Sorted, Before, From, UpTo
  <1>3. ASSUME Quit \/ TestShutdown \/ NetQuiet \/ AttachFailed \/ PollFailed \/ Compare \/ Remember
        PROVE  IInv'
    <2>1. UNCHANGED <<direction, pending, wire, motors>>
      BY <1>3 DEF Quit, TestShutdown, NetQuiet, AttachFailed, PollFailed, Compare, Remember
    <2>2. TypeOK'
      <3>1. pc' \in {"test", "net", "compare", "send", "remember", "join", "ended"}
        BY <1>3 DEF IInv, TypeOK, Quit, TestShutdown, NetQuiet, AttachFailed, PollFailed, Compare, Remember
      <3>2. failures' \in Nat
        BY <1>3 DEF IInv, TypeOK, Quit, TestShutdown, NetQuiet, AttachFailed, PollFailed, Compare, Remember
      <3>5. isShutdown' \in BOOLEAN
        BY <1>3, ZenonT(20) DEF IInv, TypeOK, Quit, TestShutdown, NetQuiet, AttachFailed, PollFailed, Compare, Remember
      <3>6. kbd' \in {"reading", "done"}
        BY <1>3 DEF IInv, TypeOK, Quit, TestShutdown, NetQuiet, AttachFailed, PollFailed, Compare, Remember
      <3>3. prev' \in Directions
        BY <1>0, <1>3 DEF IInv, TypeOK, Presses, Quit, TestShutdown, NetQuiet, AttachFailed, PollFailed, Compare, Remember
      <3>4. QED BY <2>1, <3>1, <3>2, <3>3, <3>5, <3>6 DEF IInv, TypeOK
    <2>3. QED BY <1>2, <2>1, <2>2
  <1>4. CASE NetSend
    <2>1. wire' \in Seq(Presses) /\ Sorted(wire') /\ From(motors.press, wire') /\ UpTo(wire', direction.press)
      BY <1>0, <1>4, JoinSorted DEF IInv, Pipeline, NetSend
    <2>2. pending' = <<>> /\ UNCHANGED <<direction, isShutdown, kbd, prev, motors, failures>> /\ pc' = "compare"
      BY <1>4 DEF NetSend
    <2>3. TypeOK'
      BY <2>1, <2>2 DEF IInv, TypeOK
    <2>4. Pipeline'
      BY <2>1, <2>2 DEF IInv, Pipeline, Sorted, Before, From, UpTo
    <2>5. QED BY <2>3, <2>4 DEF IInv
  <1>5. CASE SendEvent
    <2>1. CASE UNCHANGED pending
      <3>1. UNCHANGED <<direction, wire, motors>>
        BY <1>5 DEF SendEvent
      <3>2. TypeOK'
        BY <1>5, <2>1 DEF IInv, TypeOK, SendEvent
      <3>3. QED BY <1>2, <2>1, <3>1, <3>2
    <2>2. CASE pending' = Append(pending, direction)
      <3>1. /\ pending' \in Seq(Presses) /\ Sorted(pending') /\ UpTo(pending', direction.press)
            /\ Before(wire, pending') /\ From(motors.press, pending')
        BY <1>0, <2>2, AppendSorted DEF IInv, Pipeline
      <3>2. UNCHANGED <<direction, isShutdown, kbd, prev, wire, motors>> /\ pc' = "remember" /\ failures' \in Nat
        BY <1>5 DEF IInv, TypeOK, SendEvent
      <3>3. TypeOK'
        BY <3>1, <3>2 DEF IInv, TypeOK
      <3>4. Pipeline'
        BY <3>1, <3>2 DEF IInv, Pipeline, Sorted, Before, From, UpTo
      <3>5. QED BY <3>3, <3>4 DEF IInv
    <2>3. QED BY <1>5, <2>1, <2>2 DEF SendEvent, PushBack
  <1>6. CASE Join
    <2>1. pending' = <<>> /\ UNCHANGED <<direction, isShutdown, kbd, prev, wire, motors, failures>> /\ pc' = "ended"
      BY <1>6 DEF Join
    <2>2. TypeOK'
      BY <2>1 DEF IInv, TypeOK
    <2>3. Pipeline'
      BY <2>1 DEF IInv, Pipeline, Sorted, Before, From, UpTo
    <2>4. QED BY <2>2, <2>3 DEF IInv
  <1>7. CASE Obey
    <2>1. /\ wire' \in Seq(Presses) /\ motors' \in Presses
          /\ Sorted(wire') /\ Before(wire', pending) /\ UpTo(wire', direction.press)
          /\ From(motors'.press, wire') /\ From(motors'.press, pending)
          /\ motors'.press <= direction.press
      BY <1>0, <1>7, TailSorted DEF IInv, Pipeline, Obey
    <2>2. UNCHANGED <<direction, isShutdown, kbd, pc, prev, pending, failures>>
      BY <1>7 DEF Obey
    <2>3. TypeOK'
      BY <2>1, <2>2 DEF IInv, TypeOK
    <2>4. Pipeline'
      BY <2>1, <2>2 DEF IInv, Pipeline, Sorted, Before, From, UpTo
    <2>5. QED BY <2>3, <2>4 DEF IInv
  <1>8. CASE UNCHANGED vars
    BY <1>2, <1>8 DEF vars, IInv, TypeOK
  <1>9. QED BY <1>1, <1>3, <1>4, <1>5, <1>6, <1>7, <1>8 DEF Next, Keyboard, Main

LEMMA Invariance == Spec => []IInv
  BY InitOK, StepOK, PTL DEF Spec

(* The variables of both threads keep their types. *)
THEOREM TypeCorrectness == Spec => []TypeOK
  BY Invariance, PTL DEF IInv

(* However the threads interleave, the bot never returns to an earlier     *)
(* press: events leave kaa_demo_process_input, the event manager's list    *)
(* and the network in the order of the presses.                            *)
THEOREM PressesInOrder == Spec => NeverObeysAnOlderPress
  <1>1. IInv /\ [Next]_vars => [motors'.press >= motors.press]_vars
    <2> SUFFICES ASSUME IInv, Next PROVE motors'.press >= motors.press
      BY DEF vars
    <2>0. motors.press \in Nat
      BY DEF IInv, TypeOK, Presses
    <2>1. CASE Obey
      <3>1. wire \in Seq(Presses) /\ wire # <<>>
        BY <2>1 DEF Obey, IInv, TypeOK
      <3>2. 1 \in 1..Len(wire) /\ motors' = wire[1] /\ wire[1].press \in Nat
        BY <2>1, <3>1, PressNumber DEF Obey
      <3>3. motors.press <= wire[1].press
        BY <3>2 DEF IInv, Pipeline, From
      <3>4. QED BY <2>0, <3>2, <3>3
    <2>2. CASE ~Obey
      <3>1. motors' = motors
        BY <2>2 DEF Next, Keyboard, Main, Press, Quit, TestShutdown, NetQuiet, NetSend, AttachFailed,
                    PollFailed, Compare, SendEvent, Remember, Join
      <3>2. QED BY <2>0, <3>1
    <2>3. QED BY <2>1, <2>2
  <1>2. QED BY <1>1, Invariance, PTL DEF Spec, NeverObeysAnOlderPress
=============================================================================
