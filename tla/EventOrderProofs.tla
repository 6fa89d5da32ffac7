-------------------------- MODULE EventOrderProofs --------------------------
(***************************************************************************)
(* Events arrive in the order in which they were sent, none twice and none *)
(* left out: EndpointSync implements EventService.                         *)
(*                                                                         *)
(* The numbers of events are not their places in the order of acceptance:  *)
(* an event that is numbered when it is sent gets a lower number than one  *)
(* that was accepted before and is numbered when it is written.  What the  *)
(* numbers do tell is which events were written up to a message and which  *)
(* were not.  The invariant says so of the server's highest number and of  *)
(* the highest number of every message on its way.                         *)
(***************************************************************************)
EXTENDS EndpointSyncProofs, SequenceTheorems

-----------------------------------------------------------------------------
(* How many events of a list have no number yet.                           *)
Missing(q) == NumbersNeeded(q, Len(q))

LEMMA MissingType ==
  ASSUME NEW q \in Seq(Event)
  PROVE  Missing(q) \in Nat /\ Missing(q) <= Len(q)
  BY NumbersNeededType DEF Missing

LEMMA NoneMissing ==
  ASSUME NEW q \in Seq(Event), \A i \in 1 .. Len(q) : q[i].num # UNNUMBERED
  PROVE  Missing(q) = 0
  <1>1. {j \in 1 .. Len(q) : q[j].num = UNNUMBERED} = {}
    OBVIOUS
  <1>2. QED BY <1>1, FS_EmptySet DEF Missing, NumbersNeeded

LEMMA SomeMissing ==
  ASSUME NEW q \in Seq(Event), NEW i \in 1 .. Len(q), q[i].num = UNNUMBERED
  PROVE  NumbersNeeded(q, i) >= 1 /\ NumbersNeeded(q, i) <= Missing(q)
  <1> DEFINE U(n) == {j \in 1 .. n : q[j].num = UNNUMBERED}
  <1>1. \A n \in Nat : IsFiniteSet(U(n))
    <2> SUFFICES ASSUME NEW n \in Nat PROVE IsFiniteSet(U(n))
      OBVIOUS
    <2>1. U(n) \in SUBSET (1 .. n)
      OBVIOUS
    <2> HIDE DEF U
    <2>2. IsFiniteSet(1 .. n)
      BY FS_Interval
    <2>3. QED BY <2>1, <2>2, FS_Subset
  <1>2. {i} \in SUBSET U(i) /\ Cardinality({i}) = 1
    <2>1. i \in U(i)
      OBVIOUS
    <2> HIDE DEF U
    <2>2. QED BY <2>1, FS_Singleton
  <1>3. U(i) \in SUBSET U(Len(q))
    OBVIOUS
  <1>4. i \in Nat /\ Len(q) \in Nat
    OBVIOUS
  <1> HIDE DEF U
  <1>5. Cardinality(U(i)) >= 1
    <2>1. Cardinality({i}) <= Cardinality(U(i))
      BY <1>1, <1>2, <1>4, FS_Subset
    <2>2. Cardinality(U(i)) \in Nat
      BY <1>1, <1>4, FS_CardinalityType
    <2>3. QED BY <1>2, <2>1, <2>2
  <1>6. Cardinality(U(i)) <= Cardinality(U(Len(q)))
    BY <1>1, <1>3, <1>4, FS_Subset
  <1>7. QED BY <1>5, <1>6 DEF U, Missing, NumbersNeeded

LEMMA AllMissing ==
  ASSUME NEW q \in Seq(Event), \A i \in 1 .. Len(q) : q[i].num = UNNUMBERED
  PROVE  Missing(q) = Len(q)
  <1>1. {j \in 1 .. Len(q) : q[j].num = UNNUMBERED} = 1 .. Len(q)
    OBVIOUS
  <1>2. Cardinality(1 .. Len(q)) = Len(q)
    <2>1. Len(q) \in Nat
      OBVIOUS
    <2>2. \A n \in Nat : Cardinality(1 .. n) = n
      BY FS_Interval
    <2>3. QED BY <2>1, <2>2
  <1>3. QED BY <1>1, <1>2 DEF Missing, NumbersNeeded

LEMMA MissingConcat ==
  ASSUME NEW p \in Seq(Event), NEW q \in Seq(Event)
  PROVE  Missing(p \o q) = Missing(p) + Missing(q)
  <1> DEFINE U == {j \in 1 .. Len(p) : p[j].num = UNNUMBERED}
             V == {j \in 1 .. Len(q) : q[j].num = UNNUMBERED}
             W == {j \in Len(p) + 1 .. Len(p) + Len(q) : (p \o q)[j].num = UNNUMBERED}
             f == [j \in V |-> j + Len(p)]
  <1>1. {j \in 1 .. Len(p \o q) : (p \o q)[j].num = UNNUMBERED} = U \cup W /\ U \cap W = {}
    OBVIOUS
  <1>2. IsFiniteSet(U) /\ IsFiniteSet(V)
    <2>1. IsFiniteSet(1 .. Len(p)) /\ U \in SUBSET (1 .. Len(p))
      BY FS_Interval
    <2>2. IsFiniteSet(1 .. Len(q)) /\ V \in SUBSET (1 .. Len(q))
      BY FS_Interval
    <2>3. QED BY <2>1, <2>2, FS_Subset
  <1>3. f \in Bijection(V, W)
    <2>1. \A j \in V : j + Len(p) \in W
      OBVIOUS
    <2>2. \A k \in W : k - Len(p) \in V /\ f[k - Len(p)] = k
      OBVIOUS
    <2>3. \A i, j \in V : f[i] = f[j] => i = j
      OBVIOUS
    <2>4. f \in [V -> W]
      BY <2>1
    <2> HIDE DEF V, W, f
    <2>5. f \in Injection(V, W) /\ f \in Surjection(V, W)
      BY <2>2, <2>3, <2>4 DEF Injection, Surjection, IsInjective
    <2>6. QED BY <2>5 DEF Bijection
  <1>4. IsFiniteSet(W) /\ Cardinality(W) = Cardinality(V)
    BY <1>2, <1>3, FS_Bijection DEF ExistsBijection
  <1> HIDE DEF U, V, W
  <1>5. Cardinality(U \cup W) = Cardinality(U) + Cardinality(W) - Cardinality({})
    BY <1>1, <1>2, <1>4, FS_Union
  <1>6. Cardinality(U) \in Nat /\ Cardinality(V) \in Nat /\ Cardinality({}) = 0
    BY <1>2, FS_CardinalityType, FS_EmptySet
  <1>7. Cardinality(U \cup W) = Cardinality(U) + Cardinality(V)
    BY <1>4, <1>5, <1>6
  <1>8. Missing(p) = Cardinality(U) /\ Missing(q) = Cardinality(V)
    BY DEF U, V, Missing, NumbersNeeded
  <1>9. Missing(p \o q) = Cardinality(U \cup W)
    BY <1>1 DEF Missing, NumbersNeeded
  <1>10. QED BY <1>7, <1>8, <1>9
-----------------------------------------------------------------------------
(* Cuts.  An event comes after b if it is numbered higher or not yet.  A    *)
(* list q of the events accepted in places s + 1, s + 2, ... is cut by b if *)
(* those that come after b are those in the places after b.                *)
After(e, b) == e.num = UNNUMBERED \/ e.num > b
Cut(q, s, b) == \A i \in 1 .. Len(q) : After(q[i], b) <=> s + i > b

LEMMA EventNumber == ASSUME NEW e \in Event PROVE e.num \in Int /\ (e.num # UNNUMBERED => e.num \in Nat)
  BY DEF Event, UNNUMBERED

LEMMA ConcatElements ==
  ASSUME NEW S, NEW p \in Seq(S), NEW q \in Seq(S)
  PROVE  /\ p \o q \in Seq(S) /\ Len(p \o q) = Len(p) + Len(q) /\ Len(p) \in Nat /\ Len(q) \in Nat
         /\ \A i \in 1 .. Len(p) : i \in 1 .. Len(p \o q) /\ (p \o q)[i] = p[i]
         /\ \A i \in 1 .. Len(q) : Len(p) + i \in 1 .. Len(p \o q) /\ (p \o q)[Len(p) + i] = q[i]
         /\ \A i \in 1 .. Len(p \o q) : (i \in 1 .. Len(p) /\ (p \o q)[i] = p[i])
                                       \/ (i - Len(p) \in 1 .. Len(q) /\ (p \o q)[i] = q[i - Len(p)])
  OBVIOUS

LEMMA EventsConcat ==
  ASSUME NEW p \in Seq(Event), NEW q \in Seq(Event)
  PROVE  /\ p \o q \in Seq(Event) /\ Len(p \o q) = Len(p) + Len(q) /\ Len(p) \in Nat /\ Len(q) \in Nat
         /\ \A i \in 1 .. Len(p) : i \in 1 .. Len(p \o q) /\ (p \o q)[i] = p[i]
         /\ \A i \in 1 .. Len(q) : Len(p) + i \in 1 .. Len(p \o q) /\ (p \o q)[Len(p) + i] = q[i]
         /\ \A i \in 1 .. Len(p \o q) : (i \in 1 .. Len(p) /\ (p \o q)[i] = p[i])
                                       \/ (i - Len(p) \in 1 .. Len(q) /\ (p \o q)[i] = q[i - Len(p)])
  OBVIOUS

LEMMA EventsAssociate ==
  ASSUME NEW p \in Seq(Event), NEW q \in Seq(Event), NEW r \in Seq(Event)
  PROVE  (p \o q) \o r = p \o (q \o r)
  BY ConcatAssociative

LEMMA IdsConcat ==
  ASSUME NEW p \in Seq(EventIds), NEW q \in Seq(EventIds)
  PROVE  /\ Len(p \o q) = Len(p) + Len(q)
         /\ \A i \in 1 .. Len(p) : (p \o q)[i] = p[i]
         /\ \A i \in 1 .. Len(q) : (p \o q)[Len(p) + i] = q[i]
  OBVIOUS

LEMMA CutConcat ==
  ASSUME NEW p \in Seq(Event), NEW q \in Seq(Event), NEW s \in Int, NEW b \in Int,
         Cut(p, s, b), s + Len(p) >= b, \A i \in 1 .. Len(q) : After(q[i], b)
  PROVE  Cut(p \o q, s, b)
  <1> SUFFICES ASSUME NEW i \in 1 .. Len(p \o q) PROVE After((p \o q)[i], b) <=> s + i > b
    BY DEF Cut
  <1>1. CASE i \in 1 .. Len(p)
    BY <1>1, ConcatElements DEF Cut
  <1>2. CASE i - Len(p) \in 1 .. Len(q) /\ (p \o q)[i] = q[i - Len(p)]
    <2>1. i - Len(p) >= 1 /\ i \in Int /\ Len(p) \in Int
      BY <1>2, ConcatElements
    <2>2. s + i > b
      BY <2>1
    <2>3. QED BY <1>2, <2>2
  <1>3. QED BY <1>1, <1>2, ConcatElements

LEMMA CutSuffix ==
  ASSUME NEW p \in Seq(Event), NEW q \in Seq(Event), NEW s \in Int, NEW b \in Int, Cut(p \o q, s, b)
  PROVE  Cut(q, s + Len(p), b)
  <1> SUFFICES ASSUME NEW i \in 1 .. Len(q) PROVE After(q[i], b) <=> (s + Len(p)) + i > b
    BY DEF Cut
  <1>1. (p \o q)[Len(p) + i] = q[i] /\ Len(p) + i \in 1 .. Len(p \o q)
    BY ConcatElements
  <1>2. After(q[i], b) <=> s + (Len(p) + i) > b
    BY <1>1 DEF Cut
  <1>3. s + (Len(p) + i) = (s + Len(p)) + i
    BY ConcatElements
  <1>4. QED BY <1>2, <1>3

(* Events get numbers above those given so far.                            *)
LEMMA NumberedNums ==
  ASSUME NEW q \in Seq(Event), NEW seq \in Nat
  PROVE  /\ Numbered(q, seq) \in Seq(Event) /\ Len(Numbered(q, seq)) = Len(q)
         /\ \A i \in 1 .. Len(q) :
              LET n == Numbered(q, seq)[i].num IN
              /\ Numbered(q, seq)[i].id = q[i].id
              /\ n \in Nat /\ n # UNNUMBERED
              /\ q[i].num # UNNUMBERED => n = q[i].num
              /\ q[i].num = UNNUMBERED => n > seq /\ n <= seq + Missing(q)
  <1>1. Numbered(q, seq) \in Seq(Event) /\ Len(Numbered(q, seq)) = Len(q)
    BY NumberedType
  <1>2. ASSUME NEW i \in 1 .. Len(q)
        PROVE  LET n == Numbered(q, seq)[i].num IN
               /\ Numbered(q, seq)[i].id = q[i].id
               /\ n \in Nat /\ n # UNNUMBERED
               /\ q[i].num # UNNUMBERED => n = q[i].num
               /\ q[i].num = UNNUMBERED => n > seq /\ n <= seq + Missing(q)
    <2>1. /\ Numbered(q, seq)[i].id = q[i].id
          /\ Numbered(q, seq)[i].num = IF q[i].num = UNNUMBERED THEN seq + NumbersNeeded(q, i) ELSE q[i].num
      BY NumberedType
    <2>2. q[i] \in Event /\ q[i].num \in Int /\ (q[i].num # UNNUMBERED => q[i].num \in Nat)
      BY EventNumber
    <2>3. CASE q[i].num = UNNUMBERED
      <3>1. NumbersNeeded(q, i) >= 1 /\ NumbersNeeded(q, i) <= Missing(q)
        BY <2>3, SomeMissing
      <3>2. NumbersNeeded(q, i) \in Nat /\ Missing(q) \in Nat
        BY NumbersNeededType, MissingType
      <3>3. QED BY <2>1, <2>3, <3>1, <3>2 DEF UNNUMBERED
    <2>4. CASE q[i].num # UNNUMBERED
      BY <2>1, <2>2, <2>4
    <2>5. QED BY <2>3, <2>4
  <1>3. QED BY <1>1, <1>2

LEMMA CutNumbered ==
  ASSUME NEW q \in Seq(Event), NEW seq \in Nat, NEW s \in Int, NEW b \in Int, b <= seq, Cut(q, s, b)
  PROVE  Cut(Numbered(q, seq), s, b)
  <1> SUFFICES ASSUME NEW i \in 1 .. Len(q) PROVE After(Numbered(q, seq)[i], b) <=> s + i > b
    BY NumberedNums DEF Cut
  <1>1. After(q[i], b) <=> After(Numbered(q, seq)[i], b)
    <2>1. /\ Numbered(q, seq)[i].num \in Nat /\ Numbered(q, seq)[i].num # UNNUMBERED
          /\ q[i].num # UNNUMBERED => Numbered(q, seq)[i].num = q[i].num
          /\ q[i].num = UNNUMBERED => Numbered(q, seq)[i].num > seq
      BY NumberedNums
    <2>2. QED BY <2>1 DEF After
  <1>2. QED BY <1>1 DEF Cut
-----------------------------------------------------------------------------
(* The highest number of a list.                                           *)
Top(q, e) ==
  /\ \A i \in 1 .. Len(q) : q[i].num # UNNUMBERED /\ q[i].num <= e
  /\ \E i \in 1 .. Len(q) : q[i].num = e

End(q) == CHOOSE e \in Nat : Top(q, e)

LEMMA TopIsEnd == ASSUME NEW q \in Seq(Event), NEW e \in Nat, Top(q, e) PROVE End(q) = e
  <1>1. \A f \in Nat : Top(q, f) => f = e
    <2> SUFFICES ASSUME NEW f \in Nat, Top(q, f) PROVE f = e
      OBVIOUS
    <2>1. PICK i \in 1 .. Len(q) : q[i].num = e
      BY DEF Top
    <2>2. PICK j \in 1 .. Len(q) : q[j].num = f
      BY DEF Top
    <2>3. q[i].num <= f /\ q[j].num <= e
      BY DEF Top
    <2>4. QED BY <2>1, <2>2, <2>3
  <1> HIDE DEF Top
  <1>2. QED BY <1>1 DEF End

(* The last event without a number gets the highest one. *)
LEMMA NumberedTop ==
  ASSUME NEW q \in Seq(Event), NEW seq \in Nat, q # <<>>, \A i \in 1 .. Len(q) : q[i].num <= seq,
         (\E i \in 1 .. Len(q) : q[i].num # UNNUMBERED) => \E i \in 1 .. Len(q) : q[i].num = seq
  PROVE  Top(Numbered(q, seq), seq + Missing(q))
  <1> DEFINE r == Numbered(q, seq)
             U == {i \in 1 .. Len(q) : q[i].num = UNNUMBERED}
  <1>1. /\ r \in Seq(Event) /\ Len(r) = Len(q)
        /\ \A i \in 1 .. Len(q) : r[i].num \in Nat /\ r[i].num # UNNUMBERED
        /\ \A i \in 1 .. Len(q) : q[i].num # UNNUMBERED => r[i].num = q[i].num
        /\ \A i \in 1 .. Len(q) : q[i].num = UNNUMBERED => r[i].num <= seq + Missing(q)
    BY NumberedNums
  <1>2. Missing(q) \in Nat /\ Len(q) \in Nat /\ Len(q) # 0
    BY MissingType
  <1>3. \A i \in 1 .. Len(r) : r[i].num # UNNUMBERED /\ r[i].num <= seq + Missing(q)
    BY <1>1, <1>2
  <1>4. \E i \in 1 .. Len(r) : r[i].num = seq + Missing(q)
    <2>1. CASE U = {}
      <3>1. \A i \in 1 .. Len(q) : q[i].num # UNNUMBERED
        BY <2>1
      <3>2. Missing(q) = 0
        BY <3>1, NoneMissing
      <3>3. 1 \in 1 .. Len(q)
        BY <1>2
      <3>4. PICK i \in 1 .. Len(q) : q[i].num = seq
        BY <3>1, <3>3
      <3>5. QED BY <1>1, <3>1, <3>2, <3>4
    <2>2. CASE U # {}
      <3> DEFINE V == {Len(q) - i : i \in U}
      <3>1. V \in SUBSET Nat /\ V # {}
        BY <2>2
      <3>2. PICK v \in V : \A w \in V : v <= w
        <4> HIDE DEF V
        <4>1. QED BY <3>1, LeastNumber
      <3>3. PICK i \in U : v = Len(q) - i
        OBVIOUS
      <3>4. \A j \in U : j <= i
        <4> SUFFICES ASSUME NEW j \in U PROVE j <= i
          OBVIOUS
        <4>1. Len(q) - j \in V /\ j \in Nat /\ i \in Nat
          OBVIOUS
        <4> HIDE DEF V, U
        <4>2. v <= Len(q) - j
          BY <3>2, <4>1
        <4>3. QED BY <1>2, <3>3, <4>1, <4>2
      <3>5. {j \in 1 .. i : q[j].num = UNNUMBERED} = U
        BY <3>4
      <3>6. NumbersNeeded(q, i) = Missing(q)
        BY <3>5 DEF Missing, NumbersNeeded
      <3>7. r[i].num = seq + NumbersNeeded(q, i)
        BY NumberedType
      <3>8. QED BY <1>1, <3>6, <3>7
    <2>3. QED BY <2>1, <2>2
  <1> HIDE DEF r
  <1>5. QED BY <1>3, <1>4 DEF Top, r
-----------------------------------------------------------------------------
(* What is new to the server of a list that its highest number cuts.       *)
LEMMA NewIsSuffix ==
  ASSUME TypeOK, NEW q \in Seq(Event), NEW c \in 0 .. Len(q),
         \A i \in 1 .. Len(q) : q[i].num > server.last <=> i > c
  PROVE  NewEvents(q) = SubSeq(q, c + 1, Len(q))
  <1> DEFINE rest(n) == IF n <= c THEN <<>> ELSE SubSeq(q, c + 1, n)
             F == CHOOSE G : IsNew(q, Len(q), G)
             Bad == {n \in 0 .. Len(q) : F[n] # rest(n)}
  <1>1. IsNew(q, Len(q), F)
    BY NewExists
  <1>8. NewEvents(q) = F[Len(q)]
    BY DEF NewEvents, IsNew
  <1> HIDE DEF F
  <1>2. ASSUME NEW n \in 0 .. Len(q)
        PROVE  F[n] = IF n = 0 THEN <<>>
                      ELSE IF q[n].num > server.last THEN Append(F[n - 1], q[n]) ELSE F[n - 1]
    BY <1>1 DEF IsNew
  <1>3. Len(q) \in Nat /\ c \in Nat
    OBVIOUS
  <1>4. 0 \notin Bad
    <2>1. F[0] = <<>> /\ rest(0) = <<>>
      BY <1>2, <1>3
    <2>2. QED BY <2>1
  <1>5. ASSUME NEW n \in 1 .. Len(q), F[n - 1] = rest(n - 1)
        PROVE  F[n] = rest(n)
    <2>1. F[n] = IF n > c THEN Append(F[n - 1], q[n]) ELSE F[n - 1]
      BY <1>2
    <2>2. CASE n <= c
      <3>1. F[n] = F[n - 1] /\ rest(n - 1) = <<>> /\ rest(n) = <<>>
        BY <1>3, <2>1, <2>2
      <3>2. QED BY <1>5, <3>1
    <2>3. CASE n = c + 1
      <3>1. F[n] = Append(<<>>, q[n])
        BY <1>3, <1>5, <2>1, <2>3
      <3>2. q[n] \in Event /\ Append(<<>>, q[n]) = <<q[n]>>
        OBVIOUS
      <3>3. SubSeq(q, n, n) = <<q[n]>>
        <4>1. SubSeq(q, n, n) \in Seq(Event) /\ Len(SubSeq(q, n, n)) = 1 /\ SubSeq(q, n, n)[1] = q[n]
          OBVIOUS
        <4>2. <<q[n]>> \in Seq(Event) /\ Len(<<q[n]>>) = 1 /\ <<q[n]>>[1] = q[n]
          BY <3>2
        <4>3. \A i \in 1 .. 1 : SubSeq(q, n, n)[i] = <<q[n]>>[i]
          BY <4>1, <4>2
        <4> DEFINE x == SubSeq(q, n, n)
                   y == <<q[n]>>
        <4>4. x \in Seq(Event) /\ y \in Seq(Event) /\ Len(x) = Len(y) /\ \A i \in 1 .. Len(x) : x[i] = y[i]
          BY <4>1, <4>2, <4>3
        <4> HIDE DEF x, y
        <4>5. x = y
          BY <4>4, SeqEqual
        <4>6. QED BY <4>5 DEF x, y
      <3>4. rest(n) = SubSeq(q, n, n)
        BY <1>3, <2>3
      <3>5. QED BY <3>1, <3>2, <3>3, <3>4
    <2>4. CASE n > c + 1
      <3>1. F[n] = Append(SubSeq(q, c + 1, n - 1), q[n])
        BY <1>3, <1>5, <2>1, <2>4
      <3>2. Append(SubSeq(q, c + 1, n - 1), q[n]) = SubSeq(q, c + 1, n)
        BY <1>3, <2>4
      <3>3. QED BY <1>3, <2>4, <3>1, <3>2
    <2>5. QED BY <1>3, <2>2, <2>3, <2>4
  <1>6. Bad = {}
    <2> SUFFICES ASSUME Bad # {} PROVE FALSE
      OBVIOUS
    <2> HIDE DEF rest
    <2>1. Bad \in SUBSET Nat
      OBVIOUS
    <2> HIDE DEF Bad
    <2>2. PICK n \in Bad : \A j \in Bad : n <= j
      BY <2>1, LeastNumber
    <2>3. n \in 0 .. Len(q) /\ F[n] # rest(n)
      BY DEF Bad
    <2>4. n # 0
      BY <1>4, <2>3
    <2>5. n \in 1 .. Len(q) /\ n - 1 \in 0 .. Len(q) /\ n - 1 \notin Bad
      BY <2>2, <2>3, <2>4
    <2>6. F[n - 1] = rest(n - 1)
      BY <2>5 DEF Bad
    <2>7. QED BY <1>5, <2>3, <2>5, <2>6
  <1>7. F[Len(q)] = rest(Len(q))
    BY <1>3, <1>6
  <1>9. c >= Len(q) => SubSeq(q, c + 1, Len(q)) = <<>>
    BY <1>3
  <1>10. QED BY <1>3, <1>7, <1>9, <1>8
-----------------------------------------------------------------------------
(* What is held.  A list q lies in the places after s of what was accepted *)
(* if its events are those accepted there.                                 *)
Quiet(q) == \A i \in 1 .. Len(q) : q[i].num = UNNUMBERED
Placed(q, s, acc) == \A i \in 1 .. Len(q) : q[i].id = acc[s + i]

LEMMA PlacedConcat ==
  ASSUME NEW q \in Seq(Event), NEW r \in Seq(Event), NEW acc \in Seq(EventIds), NEW s \in Nat,
         s + Len(q) = Len(acc), Placed(q, s, acc)
  PROVE  Placed(q \o r, s, acc \o Ids(r))
  <1> DEFINE ids == Ids(r)
  <1>1. ids \in Seq(EventIds) /\ Len(ids) = Len(r) /\ \A i \in 1 .. Len(r) : ids[i] = r[i].id
    BY IdsType
  <1> HIDE DEF ids
  <1> SUFFICES ASSUME NEW i \in 1 .. Len(q \o r) PROVE (q \o r)[i].id = (acc \o ids)[s + i]
    BY DEF Placed, ids
  <1>2. Len(q) \in Nat /\ Len(r) \in Nat /\ Len(acc) \in Nat
    OBVIOUS
  <1>3. CASE (i \in 1 .. Len(q) /\ (q \o r)[i] = q[i])
    <2>1. s + i \in 1 .. Len(acc)
      BY <1>2, <1>3
    <2>2. (acc \o ids)[s + i] = acc[s + i]
      BY <1>1, <2>1, IdsConcat
    <2>3. QED BY <1>3, <2>2 DEF Placed
  <1>4. CASE i - Len(q) \in 1 .. Len(r) /\ (q \o r)[i] = r[i - Len(q)]
    <2>1. (acc \o ids)[Len(acc) + (i - Len(q))] = ids[i - Len(q)]
      BY <1>1, <1>4, ConcatElements
    <2>2. Len(acc) + (i - Len(q)) = s + i
      BY <1>2, <1>4
    <2>3. QED BY <1>1, <1>4, <2>1, <2>2
  <1>5. QED BY <1>3, <1>4, EventsConcat

(* b was the highest number when something was written. *)
BoundaryOf(q, s, seq, b) == b <= seq /\ Cut(q, s, b)

(* The highest number given is seq, and n events were accepted.            *)
NumbersOf(q, seq, n) ==
  /\ seq + Missing(q) = n
  /\ \A i \in 1 .. Len(q) : q[i].num <= seq
  /\ (\E i \in 1 .. Len(q) : q[i].num # UNNUMBERED) => \E i \in 1 .. Len(q) : q[i].num = seq
  /\ Quiet(q) => seq + Len(q) = n

(* New events have no number, or are one event that has the next one.      *)
InTurnAfter(r, seq, next) ==
  \/ Quiet(r) /\ next = seq
  \/ Len(r) = 1 /\ r[1].num = seq + 1 /\ next = seq + 1

LEMMA BoundaryConcat ==
  ASSUME NEW q \in Seq(Event), NEW r \in Seq(Event), NEW s \in Int, NEW seq \in Nat, NEW next \in Nat, NEW b \in Int,
         BoundaryOf(q, s, seq, b), s + Len(q) >= seq, InTurnAfter(r, seq, next)
  PROVE  BoundaryOf(q \o r, s, next, b)
  <1>1. b <= seq /\ Cut(q, s, b) /\ seq <= next
    BY DEF BoundaryOf, InTurnAfter
  <1>2. b <= next
    BY <1>1
  <1>3. Len(q) \in Nat
    OBVIOUS
  <1>4. s + Len(q) >= b
    BY <1>1, <1>3
  <1>5. \A i \in 1 .. Len(r) : After(r[i], b)
    <2>1. CASE Quiet(r)
      BY <2>1 DEF Quiet, After
    <2>2. CASE Len(r) = 1 /\ r[1].num = seq + 1
      BY <1>1, <2>2 DEF After
    <2>3. QED BY <2>1, <2>2 DEF InTurnAfter
  <1>6. QED BY <1>1, <1>2, <1>4, <1>5, CutConcat DEF BoundaryOf

LEMMA NumbersConcat ==
  ASSUME NEW q \in Seq(Event), NEW r \in Seq(Event), NEW seq \in Nat, NEW next \in Nat, NEW n \in Nat,
         NumbersOf(q, seq, n), InTurnAfter(r, seq, next)
  PROVE  NumbersOf(q \o r, next, n + Len(r))
  <1>1. Missing(q \o r) = Missing(q) + Missing(r) /\ Missing(q) \in Nat /\ Missing(r) \in Nat
    BY MissingConcat, MissingType
  <1>2. /\ Len(q \o r) = Len(q) + Len(r) /\ Len(q) \in Nat /\ Len(r) \in Nat
        /\ \A i \in 1 .. Len(q) : i \in 1 .. Len(q \o r) /\ (q \o r)[i] = q[i]
        /\ \A i \in 1 .. Len(r) : Len(q) + i \in 1 .. Len(q \o r) /\ (q \o r)[Len(q) + i] = r[i]
        /\ \A i \in 1 .. Len(q \o r) : (i \in 1 .. Len(q) /\ (q \o r)[i] = q[i])
                                      \/ (i - Len(q) \in 1 .. Len(r) /\ (q \o r)[i] = r[i - Len(q)])
    BY EventsConcat
  <1> DEFINE t == q \o r
             k == Len(q)
             l == Len(r)
  <1> HIDE DEF t, k, l
  <1>3. \A i \in 1 .. k : q[i].num \in Int
    BY EventNumber DEF k
  <1>4. /\ Len(t) = k + l /\ k \in Nat /\ l \in Nat
        /\ \A i \in 1 .. k : i \in 1 .. Len(t) /\ t[i] = q[i]
        /\ \A i \in 1 .. l : k + i \in 1 .. Len(t) /\ t[k + i] = r[i]
        /\ \A i \in 1 .. Len(t) : (i \in 1 .. k /\ t[i] = q[i]) \/ (i - k \in 1 .. l /\ t[i] = r[i - k])
        /\ Missing(t) = Missing(q) + Missing(r)
    BY <1>1, <1>2 DEF t, k, l
  <1>5. /\ seq + Missing(q) = n /\ \A i \in 1 .. k : q[i].num <= seq
        /\ (\E i \in 1 .. k : q[i].num # UNNUMBERED) => \E i \in 1 .. k : q[i].num = seq
        /\ (\A i \in 1 .. k : q[i].num = UNNUMBERED) => seq + k = n
    BY DEF NumbersOf, Quiet, k
  <1>6. CASE (\A i \in 1 .. l : r[i].num = UNNUMBERED) /\ next = seq
    <2>1. Missing(r) = l
      BY <1>6, AllMissing DEF l
    <2>2. next + Missing(t) = n + l
      <3>1. Missing(t) = Missing(q) + l /\ seq + Missing(q) = n /\ next = seq /\ Missing(q) \in Nat /\ l \in Nat
        BY <1>1, <1>4, <1>5, <1>6, <2>1
      <3>2. QED BY <3>1
    <2>3. \A i \in 1 .. Len(t) : t[i].num <= next
      <3> SUFFICES ASSUME NEW i \in 1 .. Len(t) PROVE t[i].num <= next
        OBVIOUS
      <3>1. UNNUMBERED <= next
        BY DEF UNNUMBERED
      <3>2. CASE i \in 1 .. k /\ t[i] = q[i]
        BY <1>5, <1>6, <3>2
      <3>3. CASE i - k \in 1 .. l /\ t[i] = r[i - k]
        BY <1>6, <3>1, <3>3
      <3>4. QED BY <1>4, <3>2, <3>3
    <2>4. (\E i \in 1 .. Len(t) : t[i].num # UNNUMBERED) => \E i \in 1 .. Len(t) : t[i].num = next
      <3> SUFFICES ASSUME NEW i \in 1 .. Len(t), t[i].num # UNNUMBERED
                   PROVE  \E j \in 1 .. Len(t) : t[j].num = next
        OBVIOUS
      <3>1. i \in 1 .. k /\ q[i].num # UNNUMBERED
        BY <1>4, <1>6
      <3>2. PICK j \in 1 .. k : q[j].num = seq
        BY <1>5, <3>1
      <3>3. j \in 1 .. Len(t) /\ t[j].num = next
        BY <1>4, <1>6, <3>2
      <3>4. QED BY <3>3
    <2>5. (\A i \in 1 .. Len(t) : t[i].num = UNNUMBERED) => next + Len(t) = n + l
      <3>1. SUFFICES ASSUME \A i \in 1 .. Len(t) : t[i].num = UNNUMBERED PROVE next + Len(t) = n + l
        OBVIOUS
      <3>2. seq + k = n
        BY <1>4, <1>5, <3>1
      <3>3. QED BY <1>4, <1>6, <3>2
    <2>6. QED BY <2>2, <2>3, <2>4, <2>5 DEF NumbersOf, Quiet, t, l
  <1>7. CASE l = 1 /\ r[1].num = seq + 1 /\ next = seq + 1
    <2>1. seq + 1 # UNNUMBERED
      BY DEF UNNUMBERED
    <2>2. Missing(r) = 0
      BY <1>7, <2>1, NoneMissing DEF l
    <2>3. next + Missing(t) = n + l
      BY <1>1, <1>4, <1>5, <1>7, <2>2
    <2>4. \A i \in 1 .. Len(t) : t[i].num <= next
      <3>1. \A i \in 1 .. k : q[i].num <= seq + 1
        BY <1>3, <1>5
      <3>2. \A i \in 1 .. l : r[i].num <= seq + 1
        BY <1>7
      <3>3. QED BY <1>4, <1>7, <3>1, <3>2
    <2>5. k + 1 \in 1 .. Len(t) /\ t[k + 1].num = next
      BY <1>4, <1>7
    <2>6. QED BY <1>7, <2>1, <2>3, <2>4, <2>5 DEF NumbersOf, Quiet, t, l
  <1>8. QED BY <1>6, <1>7 DEF InTurnAfter, Quiet, l

(* When the events are written, the last number is the place of the last.  *)
LEMMA NumbersWritten ==
  ASSUME NEW q \in Seq(Event), NEW seq \in Nat, NEW n \in Nat, NumbersOf(q, seq, n), q # <<>>
  PROVE  Top(Numbered(q, seq), n) /\ NumbersOf(Numbered(q, seq), n, n)
  <1>1. Top(Numbered(q, seq), n)
    BY NumberedTop DEF NumbersOf
  <1> DEFINE r == Numbered(q, seq)
  <1>2. r \in Seq(Event) /\ Len(r) = Len(q) /\ \A i \in 1 .. Len(r) : r[i].num # UNNUMBERED
    BY NumberedNums
  <1> HIDE DEF r
  <1>3. Missing(r) = 0
    BY <1>2, NoneMissing
  <1>4. ~Quiet(r)
    <2>1. 1 \in 1 .. Len(q)
      OBVIOUS
    <2>2. QED BY <1>2, <2>1 DEF Quiet
  <1>5. QED BY <1>1, <1>3, <1>4 DEF NumbersOf, Top, r
-----------------------------------------------------------------------------
(* The invariant.                                                          *)
Out == Outgoing(manager)
Behind == Len(accepted) - Len(Out)          \* how many events were forgotten
SentEnd == Behind + Len(manager.sent)       \* the place of the last event sent
Start(q) == End(q) - Len(q)

(* What is held is the end of what was accepted, what has arrived is the   *)
(* beginning, and they leave nothing between them.                         *)
InLine ==
  /\ 0 <= Behind /\ Behind <= server.last
  /\ server.last = Len(delivered) /\ Len(delivered) <= Len(accepted)
  /\ \A i \in 1 .. Len(delivered) : delivered[i] = accepted[i]
  /\ Placed(Out, Behind, accepted)

(* Events of a block get their numbers when they are written. *)
QuietBlocks == \A b \in 1 .. Len(manager.blocks) : Quiet(manager.blocks[b].events)

HasNumber(n) == \E i \in 1 .. n : toClient[i].number # NONE
NumberOnItsWay == HasNumber(Len(toClient))

(* Before the endpoint has the server's number it writes no events; the    *)
(* number is on its way to it before any success of an attachment is.      *)
Unsynced ==
  /\ manager.seq = 0 /\ manager.sent = <<>> /\ manager.awaiting = NO_REQUEST /\ manager.requests = {}
  /\ Behind = server.last
  /\ Quiet(Out)
  /\ \A j \in 1 .. Len(toServer) : toServer[j].events = <<>>
  /\ \A j \in 1 .. Len(toClient) : toClient[j].number # NONE => toClient[j].number = server.last
  /\ server.session => NumberOnItsWay
  /\ ~server.session /\ toServer # <<>> => Head(toServer).wantsNumber
  /\ \A i \in 1 .. Len(toClient) : toClient[i].attach = "success" => HasNumber(i)

(* b was the highest number when something was written. *)
Boundary(b) == BoundaryOf(Out, Behind, manager.seq, b)

Numbering ==
  /\ NumbersOf(Out, manager.seq, Len(accepted))
  /\ Boundary(server.last) /\ Boundary(SentEnd)

OnWire(q) ==
  q # <<>> =>
    /\ End(q) \in Nat /\ Top(q, End(q)) /\ Len(q) <= End(q) /\ End(q) <= Len(accepted)
    /\ Start(q) <= server.last /\ server.last <= End(q)
    /\ Placed(q, Start(q), accepted) /\ Cut(q, Start(q), server.last) /\ Boundary(End(q))

InTurn(p, q) == p # <<>> /\ q # <<>> => End(p) <= End(q) /\ Cut(q, Start(q), End(p))

Wire ==
  \A j \in 1 .. Len(toServer) :
    /\ OnWire(toServer[j].events)
    /\ \A i \in 1 .. j - 1 : InTurn(toServer[i].events, toServer[j].events)

(* An answer with the id that is awaited answers the last message with     *)
(* events.                                                                 *)
Awaited(m) == m.id = manager.awaiting => m.events # <<>> /\ End(m.events) = SentEnd
RequestsMatched ==
  \A j \in 1 .. Len(toServer) :
    toServer[j].id <= requestId /\ Awaited(toServer[j]) /\ (toServer[j].wantsNumber => toServer[j].event)

AnswersMatched ==
  \A j \in 1 .. Len(toClient) :
    /\ toClient[j].id <= requestId /\ (toClient[j].number # NONE => toClient[j].event)
    /\ toClient[j].event /\ toClient[j].id = manager.awaiting => SentEnd <= server.last

Matched ==
  /\ manager.awaiting <= requestId /\ RequestsMatched /\ AnswersMatched
  /\ link # "authorized" => toServer = <<>>
  /\ link = "authorized" /\ ~server.session => toServer # <<>>

Order ==
  /\ InLine /\ QuietBlocks /\ Wire /\ Matched
  /\ ~manager.synced => Unsynced
  /\ manager.synced => Numbering

(* The types in the form in which the proofs use them, of this state and   *)
(* of the next.                                                            *)
Sizes ==
  /\ Len(Out) \in Nat /\ Len(manager.sent) \in Nat /\ Len(manager.pending) \in Nat
  /\ Len(accepted) \in Nat /\ Len(delivered) \in Nat
  /\ Len(toServer) \in Nat /\ Len(toClient) \in Nat
  /\ manager.seq \in Nat /\ manager.awaiting \in Int /\ server.last \in Nat /\ requestId \in Nat
  /\ Behind \in Int /\ SentEnd \in Int

Kinds ==
  /\ manager \in EventManagers /\ manager.synced \in BOOLEAN /\ server.session \in BOOLEAN
  /\ Out \in Seq(Event) /\ manager.sent \in Seq(Event) /\ manager.pending \in Seq(Event)
  /\ accepted \in Seq(EventIds) /\ delivered \in Seq(EventIds)
  /\ toServer \in Seq(ClientSyncs) /\ toClient \in Seq(ServerSyncs)

Parts == Len(Out) = Len(manager.sent) + Len(manager.pending)

Basic == Sizes /\ Kinds /\ Parts

LEMMA Basics == TypeOK => Basic
  <1> SUFFICES ASSUME TypeOK PROVE Basic
    OBVIOUS
  <1>1. manager \in EventManagers
    BY DEF TypeOK
  <1>2. /\ Out \in Seq(Event) /\ manager.sent \in Seq(Event) /\ manager.pending \in Seq(Event)
        /\ Len(Out) = Len(manager.sent) + Len(manager.pending)
    BY <1>1, OutgoingType DEF Out
  <1>3. manager.seq \in Nat /\ manager.awaiting \in Int /\ manager.synced \in BOOLEAN
    BY <1>1, ManagerFields DEF NO_REQUEST
  <1>4. /\ accepted \in Seq(EventIds) /\ delivered \in Seq(EventIds)
        /\ Len(accepted) \in Nat /\ Len(delivered) \in Nat
    BY DEF TypeOK
  <1>5. server.last \in Nat /\ server.session \in BOOLEAN
    BY DEF TypeOK, Servers
  <1>6. requestId \in Nat
    BY SyncAssumption DEF TypeOK
  <1>7. \A q \in Seq(Event) : Len(q) \in Nat
    OBVIOUS
  <1>8. Len(Out) \in Nat /\ Len(manager.sent) \in Nat /\ Len(manager.pending) \in Nat
    BY <1>2, <1>7
  <1>9. Behind \in Int /\ SentEnd \in Int
    BY <1>4, <1>8 DEF Behind, SentEnd
  <1>10. toServer \in Seq(ClientSyncs) /\ toClient \in Seq(ServerSyncs)
         /\ Len(toServer) \in Nat /\ Len(toClient) \in Nat
    BY DEF TypeOK
  <1>11. QED BY <1>1, <1>2, <1>3, <1>4, <1>5, <1>6, <1>8, <1>9, <1>10 DEF Basic, Sizes, Kinds, Parts

LEMMA BasicsNext == TypeOK' => Basic'
  BY Basics, PTL
-----------------------------------------------------------------------------
LEMMA OrderInit == Init => Order
  <1> SUFFICES ASSUME Init PROVE Order
    OBVIOUS
  <1>1. /\ manager = NewEventManager /\ server = NewServer /\ toServer = <<>> /\ toClient = <<>>
        /\ accepted = <<>> /\ delivered = <<>> /\ requestId = 0
    BY DEF Init
  <1>2. Out = <<>> /\ Len(Out) = 0 /\ manager.sent = <<>> /\ manager.synced = FALSE /\ manager.blocks = <<>>
    BY <1>1 DEF Out, Outgoing, NewEventManager
  <1>3. Behind = 0 /\ server.last = 0 /\ server.session = FALSE
    BY <1>1, <1>2 DEF Behind, NewServer
  <1>4. InLine
    BY <1>1, <1>2, <1>3 DEF InLine, Placed
  <1>5. QuietBlocks
    BY <1>2 DEF QuietBlocks
  <1>6. Wire
    BY <1>1 DEF Wire
  <1>7. Matched
    BY <1>1 DEF Init, Matched, RequestsMatched, AnswersMatched, NewEventManager, NO_REQUEST
  <1>8. Unsynced
    BY <1>1, <1>2, <1>3 DEF Unsynced, Quiet, NewEventManager
  <1>9. QED BY <1>2, <1>4, <1>5, <1>6, <1>7, <1>8 DEF Order

(* What a step keeps that changes nothing of the events and their numbers, *)
(* of what is on its way to the server, and of what has arrived.           *)
Core == <<manager.seq, manager.sent, manager.pending, manager.synced, manager.awaiting,
          accepted, delivered, server.last, requestId, toServer>>

LEMMA CoreStays ==
  ASSUME Order, UNCHANGED Core
  PROVE  /\ Out' = Out /\ Behind' = Behind /\ SentEnd' = SentEnd
         /\ InLine' /\ Wire' /\ manager'.awaiting <= requestId' /\ RequestsMatched'
         /\ Numbering => Numbering'
  <1>1. /\ manager'.seq = manager.seq /\ manager'.sent = manager.sent /\ manager'.pending = manager.pending
        /\ manager'.synced = manager.synced /\ manager'.awaiting = manager.awaiting
        /\ accepted' = accepted /\ delivered' = delivered /\ server'.last = server.last
        /\ requestId' = requestId /\ toServer' = toServer
    BY DEF Core
  <1>2. Out' = Out
    BY <1>1 DEF Out, Outgoing
  <1>3. Behind' = Behind /\ SentEnd' = SentEnd
    BY <1>1, <1>2 DEF Behind, SentEnd
  <1>4. InLine'
    BY <1>1, <1>2, <1>3 DEF Order, InLine, Placed
  <1>5. \A b : Boundary(b) <=> Boundary(b)'
    BY <1>1, <1>2, <1>3 DEF Boundary
  <1>6. Wire'
    BY <1>1, <1>2, <1>3, <1>5 DEF Order, Wire, OnWire, Placed
  <1>7. RequestsMatched' /\ manager'.awaiting <= requestId'
    BY <1>1, <1>3 DEF Order, Matched, RequestsMatched, Awaited
  <1>8. Numbering => Numbering'
    BY <1>1, <1>2, <1>3, <1>5 DEF Numbering
  <1>9. QED BY <1>2, <1>3, <1>4, <1>6, <1>7, <1>8

(* And a step that does not change what is on its way to the endpoint      *)
(* either, nor the listeners requests.                                     *)
LEMMA NothingMoves ==
  ASSUME Order, UNCHANGED Core, UNCHANGED <<manager.requests, toClient, server.session, link>>, QuietBlocks'
  PROVE  Order'
  <1>1. /\ manager'.seq = manager.seq /\ manager'.sent = manager.sent /\ manager'.synced = manager.synced
        /\ manager'.awaiting = manager.awaiting /\ server'.last = server.last
        /\ requestId' = requestId /\ toServer' = toServer
        /\ manager'.requests = manager.requests /\ toClient' = toClient /\ server'.session = server.session
        /\ link' = link
    BY DEF Core
  <1>2. /\ Out' = Out /\ Behind' = Behind /\ SentEnd' = SentEnd
        /\ InLine' /\ Wire' /\ manager'.awaiting <= requestId' /\ RequestsMatched'
        /\ Numbering => Numbering'
    BY CoreStays
  <1>3. AnswersMatched' /\ Matched'
    BY <1>1, <1>2 DEF Order, Matched, AnswersMatched
  <1>4. Unsynced => Unsynced'
    BY <1>1, <1>2 DEF Unsynced, NumberOnItsWay, HasNumber
  <1>5. QED BY <1>1, <1>2, <1>3, <1>4 DEF Order
-----------------------------------------------------------------------------
(* Blocks and attach calls. *)

LEMMA BlocksStayQuiet ==
  ASSUME TypeOK, Order
  PROVE  /\ manager' = CreateBlock(manager) => QuietBlocks'
         /\ \A i \in DOMAIN manager.blocks :
              /\ \A id : manager' = AddToBlock(manager, i, id) => QuietBlocks'
              /\ manager' = WithoutBlock(manager, i) => QuietBlocks'
              /\ manager' = FinishBlock(manager, i) => QuietBlocks'
         /\ manager'.blocks = manager.blocks => QuietBlocks'
  <1> DEFINE bs == manager.blocks
  <1>1. manager \in EventManagers /\ bs \in Seq(Block) /\ QuietBlocks
    BY ManagerFields DEF TypeOK, Order
  <1>2. \A i \in 1 .. Len(bs) : bs[i].events \in Seq(Event) /\ Quiet(bs[i].events)
    BY <1>1, BlockEvents DEF QuietBlocks
  <1>3. ASSUME manager' = CreateBlock(manager) PROVE QuietBlocks'
    <2> DEFINE b == [id |-> manager.trx + 1, events |-> <<>>]
    <2>1. manager'.blocks = Append(bs, b)
      BY <1>1, <1>3 DEF CreateBlock, EventManagers
    <2>2. Quiet(b.events)
      BY DEF Quiet
    <2> HIDE DEF b
    <2>3. QED BY <1>1, <1>2, <2>1, <2>2 DEF QuietBlocks
  <1>4. ASSUME NEW i \in DOMAIN bs, NEW id, manager' = AddToBlock(manager, i, id) PROVE QuietBlocks'
    <2> DEFINE q == Append(bs[i].events, [id |-> id, num |-> UNNUMBERED])
               b == [bs[i] EXCEPT !.events = q]
    <2>1. i \in 1 .. Len(bs) /\ bs[i] \in Block
      BY <1>1
    <2>2. manager'.blocks = [bs EXCEPT ![i] = b]
      BY <1>1, <1>4 DEF AddToBlock, EventManagers
    <2>3. bs[i].events \in Seq(Event) /\ Quiet(bs[i].events)
      BY <1>2, <2>1
    <2>4. Quiet(q)
      BY <2>3 DEF Quiet
    <2>5. b.events = q
      BY <2>1 DEF Block
    <2> HIDE DEF b, q
    <2>6. Len(manager'.blocks) = Len(bs)
      BY <1>1, <2>2
    <2>7. \A k \in 1 .. Len(bs) : manager'.blocks[k] = IF k = i THEN b ELSE bs[k]
      BY <1>1, <2>1, <2>2
    <2>8. QED BY <1>2, <2>4, <2>5, <2>6, <2>7 DEF QuietBlocks
  <1>5. ASSUME NEW i \in DOMAIN bs, manager' = WithoutBlock(manager, i) \/ manager' = FinishBlock(manager, i)
        PROVE  QuietBlocks'
    <2>1. i \in 1 .. Len(bs)
      BY <1>1
    <2>2. manager'.blocks = SubSeq(bs, 1, i - 1) \o SubSeq(bs, i + 1, Len(bs))
      BY <1>1, <1>5 DEF WithoutBlock, FinishBlock, EventManagers
    <2>3. \A k \in 1 .. Len(manager'.blocks) : \E l \in 1 .. Len(bs) : manager'.blocks[k] = bs[l]
      <3> HIDE DEF bs
      <3>1. SUFFICES ASSUME NEW bb, bb = SubSeq(bs, 1, i - 1) \o SubSeq(bs, i + 1, Len(bs)), NEW k \in 1 .. Len(bb)
                     PROVE  \E l \in 1 .. Len(bs) : bb[k] = bs[l]
        BY <2>2
      <3> DEFINE l == SubSeq(bs, 1, i - 1)
                 r == SubSeq(bs, i + 1, Len(bs))
      <3>2. /\ l \in Seq(Block) /\ Len(l) = i - 1 /\ \A n \in 1 .. i - 1 : l[n] = bs[n]
            /\ r \in Seq(Block) /\ Len(r) = Len(bs) - i /\ \A n \in 1 .. Len(bs) - i : r[n] = bs[i + n]
            /\ Len(bs) \in Nat
        BY <1>1, <2>1
      <3>3. bb = l \o r
        BY <3>1
      <3> HIDE DEF l, r
      <3>4. Len(bb) = Len(bs) - 1
        BY <2>1, <3>2, <3>3
      <3>5. CASE k < i
        <4>1. k \in 1 .. Len(bs) /\ bb[k] = bs[k]
          BY <2>1, <3>1, <3>2, <3>3, <3>4, <3>5
        <4>2. QED BY <4>1
      <3>6. CASE k >= i
        <4>1. k + 1 \in 1 .. Len(bs) /\ k - (i - 1) \in 1 .. Len(bs) - i
          BY <2>1, <3>1, <3>2, <3>4, <3>6
        <4>2. bb[k] = r[k - (i - 1)]
          <5>1. \A n \in 1 .. Len(r) : (l \o r)[Len(l) + n] = r[n]
            BY <3>2
          <5>2. Len(l) + (k - (i - 1)) = k
            BY <2>1, <3>2, <4>1
          <5>3. QED BY <3>2, <3>3, <4>1, <5>1, <5>2
        <4>3. i + (k - (i - 1)) = k + 1
          BY <2>1, <3>1, <3>2, <3>4
        <4>4. bb[k] = bs[k + 1]
          BY <3>2, <4>1, <4>2, <4>3
        <4>5. QED BY <4>1, <4>4
      <3>7. k \in Int /\ i \in Int
        BY <2>1, <3>1, <3>2, <3>4
      <3>8. QED BY <3>5, <3>6, <3>7
    <2>4. QED BY <1>2, <2>3 DEF QuietBlocks
  <1>6. QED BY <1>1, <1>3, <1>4, <1>5 DEF QuietBlocks

LEMMA OrderBlocks == ASSUME TypeOK, Order, OpenBlock \/ AddEvent \/ DropBlock \/ Attach \/ ForgetProfile PROVE Order'
  <1>1. manager \in EventManagers
    BY DEF TypeOK
  <1>2. /\ manager'.seq = manager.seq /\ manager'.sent = manager.sent /\ manager'.pending = manager.pending
        /\ manager'.synced = manager.synced /\ manager'.awaiting = manager.awaiting
        /\ manager'.requests = manager.requests
    BY <1>1 DEF OpenBlock, AddEvent, DropBlock, Attach, ForgetProfile, CreateBlock, AddToBlock, WithoutBlock,
                EventManagers, managers
  <1>3. QuietBlocks'
    <2>1. CASE OpenBlock
      BY <2>1, BlocksStayQuiet DEF OpenBlock
    <2>2. CASE AddEvent
      BY <2>2, BlocksStayQuiet DEF AddEvent
    <2>3. CASE DropBlock
      BY <2>3, BlocksStayQuiet DEF DropBlock
    <2>4. CASE Attach \/ ForgetProfile
      BY <2>4, BlocksStayQuiet DEF Attach, ForgetProfile, managers
    <2>5. QED BY <2>1, <2>2, <2>3, <2>4
  <1>4. UNCHANGED <<accepted, delivered, requestId, toServer, toClient, link>>
    BY DEF OpenBlock, AddEvent, DropBlock, Attach, ForgetProfile, managers, channel, ghosts
  <1>5. server'.last = server.last /\ server'.session = server.session
    BY DEF OpenBlock, AddEvent, DropBlock, Attach, ForgetProfile, TypeOK, Servers
  <1>6. UNCHANGED Core
    BY <1>2, <1>4, <1>5 DEF Core
  <1>7. QED BY <1>2, <1>3, <1>4, <1>5, <1>6, NothingMoves
-----------------------------------------------------------------------------
(* Events are accepted. *)

LEMMA NumbersBelow ==
  ASSUME Sizes, Kinds, Order
  PROVE  manager.seq <= Len(accepted) /\ Behind + Len(Out) = Len(accepted)
  <1>1. Behind + Len(Out) = Len(accepted)
    BY DEF Behind, Sizes
  <1>2. CASE manager.synced
    <2>1. manager.seq + Missing(Out) = Len(accepted)
      BY <1>2 DEF Order, Numbering, NumbersOf
    <2>2. Missing(Out) \in Nat
      BY MissingType DEF Kinds
    <2>3. QED BY <1>1, <2>1, <2>2 DEF Sizes
  <1>3. CASE ~manager.synced
    BY <1>1, <1>3 DEF Order, Unsynced, Sizes
  <1>4. QED BY <1>2, <1>3

LEMMA MessageFields ==
  ASSUME Kinds, NEW j \in 1 .. Len(toServer)
  PROVE  /\ toServer[j] \in ClientSyncs /\ toServer[j].events \in Seq(Event) /\ toServer[j].id \in Nat
         /\ toServer[j].event \in BOOLEAN /\ toServer[j].wantsNumber \in BOOLEAN
  <1>1. toServer[j] \in ClientSyncs
    BY DEF Kinds
  <1>2. QED BY <1>1 DEF ClientSyncs

LEMMA AnswerFields ==
  ASSUME Kinds, NEW j \in 1 .. Len(toClient)
  PROVE  /\ toClient[j] \in ServerSyncs /\ toClient[j].id \in Nat /\ toClient[j].event \in BOOLEAN
         /\ toClient[j].number \in Nat \cup {NONE}
  <1>1. toClient[j] \in ServerSyncs
    BY DEF Kinds
  <1>2. QED BY <1>1, NewsFields

(* A message on its way, while more is accepted. *)
LEMMA MessageStays ==
  ASSUME Sizes, Sizes', NEW w \in Seq(Event), OnWire(w), server'.last = server.last,
         Len(accepted) <= Len(accepted'), \A i \in 1 .. Len(accepted) : accepted'[i] = accepted[i],
         \A b \in Int : Boundary(b) => Boundary(b)'
  PROVE  OnWire(w)'
  <1> SUFFICES ASSUME w # <<>> PROVE OnWire(w)'
    BY DEF OnWire
  <1> DEFINE e == End(w)
             s == Start(w)
             n == Len(w)
             a == Len(accepted)
  <1>1. /\ e \in Nat /\ Top(w, e) /\ n <= e /\ e <= a
        /\ s <= server.last /\ server.last <= e
        /\ Placed(w, s, accepted) /\ Cut(w, s, server.last) /\ Boundary(e)
    BY DEF OnWire
  <1>2. n \in Nat /\ a \in Nat /\ Len(accepted') \in Nat /\ s = e - n
    BY DEF Start, Sizes
  <1>3. \A i \in 1 .. Len(w) : w[i].id = accepted'[s + i]
    <2> SUFFICES ASSUME NEW i \in 1 .. n PROVE w[i].id = accepted'[s + i]
      OBVIOUS
    <2>1. w[i].id = accepted[s + i]
      BY <1>1 DEF Placed
    <2> HIDE DEF e, s, n, a
    <2>2. s + i \in 1 .. a
      BY <1>1, <1>2
    <2>3. QED BY <2>1, <2>2 DEF a
  <1>4. Boundary(e)'
    BY <1>1
  <1>5. e <= Len(accepted')
    <2> HIDE DEF e
    <2>1. QED BY <1>1, <1>2
  <1>6. QED BY <1>1, <1>3, <1>4, <1>5 DEF OnWire, Placed

(* New events, in the places after all others. *)
LEMMA OrderAccepts ==
  ASSUME Sizes, Kinds, Sizes', Kinds', Order, NEW q \in Seq(Event), QuietBlocks',
         InTurnAfter(q, manager.seq, manager'.seq), ~manager.synced => manager'.seq = manager.seq,
         manager'.pending = manager.pending \o q, accepted' = accepted \o Ids(q),
         manager'.sent = manager.sent, manager'.synced = manager.synced,
         manager'.awaiting = manager.awaiting, manager'.requests = manager.requests,
         UNCHANGED <<delivered, requestId, toServer, toClient, link, server>>
  PROVE  Order'
  <1> DEFINE ids == Ids(q)
  <1>1. ids \in Seq(EventIds) /\ Len(ids) = Len(q) /\ Len(q) \in Nat
    BY IdsType
  <1> HIDE DEF ids
  <1>2. Out' = Out \o q
    <2>1. (manager.sent \o manager.pending) \o q = manager.sent \o (manager.pending \o q)
      BY EventsAssociate DEF Kinds
    <2>2. QED BY <2>1 DEF Out, Outgoing
  <1>3. Len(Out') = Len(Out) + Len(q)
    BY <1>2, EventsConcat DEF Kinds
  <1>4. /\ Len(accepted') = Len(accepted) + Len(q)
        /\ \A i \in 1 .. Len(accepted) : accepted'[i] = accepted[i]
    <2>1. accepted' = accepted \o ids /\ accepted \in Seq(EventIds)
      BY DEF Kinds, ids
    <2>2. /\ Len(accepted \o ids) = Len(accepted) + Len(ids)
          /\ \A i \in 1 .. Len(accepted) : (accepted \o ids)[i] = accepted[i]
      BY <1>1, <2>1, IdsConcat
    <2>3. QED BY <1>1, <2>1, <2>2
  <1>5. Behind' = Behind
    BY <1>1, <1>3, <1>4 DEF Behind, Sizes
  <1>6. SentEnd' = SentEnd
    BY <1>5 DEF SentEnd
  <1>7. manager.seq <= Len(accepted) /\ Behind + Len(Out) = Len(accepted)
    BY NumbersBelow
  <1>8. ASSUME NEW b \in Int, Boundary(b) PROVE Boundary(b)'
    <2>1. BoundaryOf(Out \o q, Behind, manager'.seq, b)
      BY <1>7, <1>8, BoundaryConcat DEF Boundary, Kinds, Sizes
    <2>2. QED BY <1>2, <1>5, <2>1 DEF Boundary
  <1>9. InLine'
    <2>1. InLine
      BY DEF Order
    <2>2. /\ 0 <= Behind /\ Behind <= server.last
          /\ server.last = Len(delivered) /\ Len(delivered) <= Len(accepted)
          /\ \A i \in 1 .. Len(delivered) : delivered[i] = accepted[i]
          /\ Placed(Out, Behind, accepted)
      BY <2>1 DEF InLine
    <2>3. \A i \in 1 .. Len(delivered) : delivered[i] = accepted'[i]
      BY <1>4, <2>2 DEF Sizes
    <2>4. Placed(Out \o q, Behind, accepted \o Ids(q))
      BY <1>7, <2>2, PlacedConcat DEF Kinds, Sizes
    <2>5. Len(delivered) <= Len(accepted')
      BY <1>1, <1>4, <2>2 DEF Sizes
    <2>6. QED BY <1>2, <1>5, <2>2, <2>3, <2>4, <2>5 DEF InLine
  <1>10. Wire'
    <2>1. Wire
      BY DEF Order
    <2>2. ASSUME NEW j \in 1 .. Len(toServer) PROVE OnWire(toServer[j].events)'
      <3>1. PICK w : w = toServer[j].events
        OBVIOUS
      <3>2. w \in Seq(Event) /\ OnWire(w)
        BY <2>1, <3>1, MessageFields DEF Wire
      <3>3. Len(accepted) <= Len(accepted')
        BY <1>1, <1>4 DEF Sizes
      <3>4. OnWire(w)'
        BY <1>4, <1>8, <3>2, <3>3, MessageStays
      <3>5. toServer'[j].events = w
        BY <3>1
      <3>6. QED BY <3>4, <3>5
    <2>3. QED BY <2>1, <2>2 DEF Wire
  <1>11. Matched'
    BY <1>6 DEF Order, Matched, RequestsMatched, AnswersMatched, Awaited
  <1>12. ASSUME ~manager.synced PROVE Unsynced'
    <2>1. Unsynced /\ manager'.seq = manager.seq /\ manager.seq \in Nat
      BY <1>12 DEF Order, Sizes
    <2>2. Quiet(q)
      BY <2>1 DEF InTurnAfter
    <2>3. Quiet(Out \o q)
      <3> SUFFICES ASSUME NEW i \in 1 .. Len(Out \o q) PROVE (Out \o q)[i].num = UNNUMBERED
        BY DEF Quiet
      <3>1. \/ i \in 1 .. Len(Out) /\ (Out \o q)[i] = Out[i]
            \/ i - Len(Out) \in 1 .. Len(q) /\ (Out \o q)[i] = q[i - Len(Out)]
        BY EventsConcat DEF Kinds
      <3>2. QED BY <2>1, <2>2, <3>1 DEF Unsynced, Quiet
    <2>4. QED BY <1>2, <1>5, <2>1, <2>3 DEF Unsynced, NumberOnItsWay, HasNumber
  <1>13. ASSUME manager.synced PROVE Numbering'
    <2>1. Numbering
      BY <1>13 DEF Order
    <2>2. NumbersOf(Out \o q, manager'.seq, Len(accepted) + Len(q))
      BY <2>1, NumbersConcat DEF Numbering, Kinds, Sizes
    <2>3. Boundary(server.last)' /\ Boundary(SentEnd)'
      <3>1. \A b \in Int : Boundary(b) => BoundaryOf(Out', Behind', manager'.seq, b)
        BY <1>8 DEF Boundary
      <3>2. QED BY <1>6, <2>1, <3>1 DEF Numbering, Sizes, Boundary
    <2>4. QED BY <1>2, <1>4, <2>2, <2>3 DEF Numbering
  <1>14. QED BY <1>9, <1>10, <1>11, <1>12, <1>13 DEF Order

LEMMA OneEvent ==
  ASSUME NEW p \in Seq(Event), NEW acc \in Seq(EventIds), NEW e \in Event
  PROVE  /\ <<e>> \in Seq(Event) /\ Len(<<e>>) = 1 /\ <<e>>[1] = e
         /\ Append(p, e) = p \o <<e>> /\ Append(acc, e.id) = acc \o Ids(<<e>>)
  <1>1. e.id \in EventIds
    BY EventFields
  <1>2. <<e>> \in Seq(Event) /\ Len(<<e>>) = 1 /\ <<e>>[1] = e
    OBVIOUS
  <1>3. Append(p, e) = p \o <<e>>
    OBVIOUS
  <1>4. Append(acc, e.id) = acc \o <<e.id>>
    BY <1>1
  <1>5. Ids(<<e>>) = <<e.id>>
    <2> DEFINE r == Ids(<<e>>)
               t == <<e.id>>
    <2>1. r \in Seq(EventIds) /\ Len(r) = 1 /\ \A i \in 1 .. 1 : r[i] = <<e>>[i].id
      BY <1>2, IdsType
    <2>2. t \in Seq(EventIds) /\ Len(t) = 1 /\ t[1] = e.id
      BY <1>1
    <2> HIDE DEF r, t
    <2>3. \A i \in 1 .. Len(r) : r[i] = t[i]
      BY <1>2, <2>1, <2>2
    <2>4. r = t
      BY <2>1, <2>2, <2>3, SeqEqual
    <2>5. QED BY <2>4 DEF r, t
  <1>6. QED BY <1>2, <1>3, <1>4, <1>5

LEMMA OrderSend == ASSUME TypeOK, TypeOK', Order, Send PROVE Order'
  <1>1. Sizes /\ Kinds /\ Sizes' /\ Kinds'
    BY Basics, BasicsNext DEF Basic
  <1>2. manager \in EventManagers /\ manager.seq \in Nat
    BY <1>1 DEF Kinds, Sizes
  <1> DEFINE e == [id |-> created + 1, num |-> IF manager.synced THEN manager.seq + 1 ELSE UNNUMBERED]
             q == <<e>>
  <1>3. e \in Event /\ e.id = created + 1
    <2>1. created + 1 \in EventIds
      BY NextEvent DEF Send
    <2>2. (IF manager.synced THEN manager.seq + 1 ELSE UNNUMBERED) \in Nat \cup {UNNUMBERED}
      BY <1>2
    <2>3. QED BY <2>1, <2>2 DEF Event
  <1>4. e.num = IF manager.synced THEN manager.seq + 1 ELSE UNNUMBERED
    OBVIOUS
  <1>5. /\ manager'.pending = Append(manager.pending, e)
        /\ manager'.seq = IF manager.synced THEN manager.seq + 1 ELSE manager.seq
        /\ manager'.sent = manager.sent /\ manager'.synced = manager.synced
        /\ manager'.awaiting = manager.awaiting /\ manager'.requests = manager.requests
        /\ manager'.blocks = manager.blocks
    BY <1>2 DEF Send, SendEvent, EventManagers
  <1>6. accepted' = Append(accepted, e.id)
    BY <1>3 DEF Send
  <1> HIDE DEF e
  <1>7. /\ q \in Seq(Event) /\ Len(q) = 1 /\ q[1] = e
        /\ manager'.pending = manager.pending \o q /\ accepted' = accepted \o Ids(q)
    <2>1. manager.pending \in Seq(Event) /\ accepted \in Seq(EventIds)
      BY <1>1 DEF Kinds
    <2>2. /\ <<e>> \in Seq(Event) /\ Len(<<e>>) = 1 /\ <<e>>[1] = e
          /\ Append(manager.pending, e) = manager.pending \o <<e>>
          /\ Append(accepted, e.id) = accepted \o Ids(<<e>>)
      BY <1>3, <2>1, OneEvent
    <2>3. QED BY <1>5, <1>6, <2>2
  <1> HIDE DEF q
  <1>8. InTurnAfter(q, manager.seq, manager'.seq)
    BY <1>4, <1>5, <1>7 DEF InTurnAfter, Quiet
  <1>9. QuietBlocks'
    BY <1>5, BlocksStayQuiet
  <1>10. UNCHANGED <<delivered, requestId, toServer, toClient, link, server>>
    BY DEF Send
  <1>11. QED BY <1>1, <1>5, <1>7, <1>8, <1>9, <1>10, OrderAccepts

LEMMA OrderSendBlock == ASSUME TypeOK, TypeOK', Order, SendBlock PROVE Order'
  <1>1. Sizes /\ Kinds /\ Sizes' /\ Kinds'
    BY Basics, BasicsNext DEF Basic
  <1>2. manager \in EventManagers
    BY <1>1 DEF Kinds
  <1>3. PICK i \in DOMAIN manager.blocks :
          manager' = FinishBlock(manager, i) /\ accepted' = accepted \o Ids(manager.blocks[i].events)
    BY DEF SendBlock
  <1>4. PICK q : q = manager.blocks[i].events
    OBVIOUS
  <1>5. q \in Seq(Event)
    BY <1>2, <1>4, BlockEvents
  <1>6. /\ manager'.pending = manager.pending \o q /\ manager'.seq = manager.seq
        /\ manager'.sent = manager.sent /\ manager'.synced = manager.synced
        /\ manager'.awaiting = manager.awaiting /\ manager'.requests = manager.requests
    BY <1>2, <1>3, <1>4 DEF FinishBlock, WithoutBlock, EventManagers
  <1>7. QuietBlocks'
    BY <1>3, BlocksStayQuiet
  <1>8. Quiet(q)
    <2>1. i \in 1 .. Len(manager.blocks)
      BY <1>2, BlockEvents
    <2>2. QED BY <1>4, <2>1 DEF Order, QuietBlocks
  <1>9. InTurnAfter(q, manager.seq, manager'.seq)
    BY <1>6, <1>8 DEF InTurnAfter
  <1>10. UNCHANGED <<delivered, requestId, toServer, toClient, link, server>>
    BY DEF SendBlock
  <1>11. accepted' = accepted \o Ids(q)
    BY <1>3, <1>4
  <1>12. QED BY <1>1, <1>5, <1>6, <1>7, <1>9, <1>10, <1>11, OrderAccepts
-----------------------------------------------------------------------------
(* Client syncs are written. *)

LEMMA NumberAll ==
  ASSUME NEW m \in EventManagers
  PROVE  LET w == NumberFirst(m, Len(Outgoing(m))) IN
         /\ w.seq = m.seq + Missing(Outgoing(m)) /\ Outgoing(w) = Numbered(Outgoing(m), m.seq)
         /\ w.synced = m.synced /\ w.blocks = m.blocks /\ w.requests = m.requests
         /\ w \in EventManagers
  <1> DEFINE all == Outgoing(m)
             n == Len(all)
             k == Len(m.sent)
             q == Numbered(all, m.seq)
             w == NumberFirst(m, n)
  <1>1. all \in Seq(Event) /\ n \in Nat /\ k \in 0 .. n /\ m.seq \in Nat
    <2>1. all \in Seq(Event) /\ Len(all) = Len(m.sent) + Len(m.pending)
      BY OutgoingType
    <2>2. Len(m.sent) \in Nat /\ Len(m.pending) \in Nat /\ m.seq \in Nat
      BY ManagerFields
    <2> HIDE DEF all
    <2>3. /\ \A a, b, c \in Nat : c = a + b => a \in 0 .. c
          /\ \A e \in Seq(Event) : Len(e) \in Nat
      OBVIOUS
    <2>4. Len(all) \in Nat
      BY <2>1, <2>3, Zenon
    <2>5. QED BY <2>1, <2>2, <2>3, <2>4
  <1>2. q \in Seq(Event) /\ Len(q) = n
    BY <1>1, NumberedType
  <1>3. SubSeq(all, 1, n) = all
    <2> HIDE DEF all
    <2>1. QED BY <1>1, SubSeqFull
  <1>4. SubSeq(all, n + 1, n) = <<>>
    <2> HIDE DEF all
    <2>1. QED BY <1>1
  <1>5. Numbered(SubSeq(all, 1, n), m.seq) \o SubSeq(all, n + 1, n) = q
    <2> HIDE DEF all
    <2>1. q \o <<>> = q
      <3> HIDE DEF q
      <3>1. QED BY <1>2
    <2>2. QED BY <1>3, <1>4, <2>1
  <1>6. w = [m EXCEPT !.seq = m.seq + Missing(all), !.sent = SubSeq(q, 1, k), !.pending = SubSeq(q, k + 1, Len(q))]
    <2> HIDE DEF q
    <2>1. QED BY <1>5 DEF NumberFirst, EventManagers, Missing
  <1>7. SubSeq(q, 1, k) \o SubSeq(q, k + 1, Len(q)) = q
    <2> HIDE DEF q, all
    <2>1. 1 \in 1 .. Len(q) + 1 /\ k \in 1 - 1 .. Len(q) /\ Len(q) \in k .. Len(q)
      BY <1>1, <1>2
    <2>2. SubSeq(q, 1, k) \o SubSeq(q, k + 1, Len(q)) = SubSeq(q, 1, Len(q))
      BY <1>2, <2>1, ConcatAdjacentSubSeq
    <2>3. QED BY <1>2, <2>2, SubSeqFull
  <1> HIDE DEF q
  <1>8. /\ w.sent = SubSeq(q, 1, k) /\ w.pending = SubSeq(q, k + 1, Len(q)) /\ w.seq = m.seq + Missing(all)
        /\ w.synced = m.synced /\ w.blocks = m.blocks /\ w.requests = m.requests
    BY <1>6 DEF EventManagers
  <1>9. Outgoing(w) = q
    BY <1>7, <1>8 DEF Outgoing
  <1>10. w \in EventManagers
    BY <1>1, NumberFirstType
  <1>11. QED BY <1>8, <1>9, <1>10 DEF q

LEMMA Written ==
  ASSUME NEW m \in EventManagers, NEW id \in Nat
  PROVE  LET w == SerializeEvents(m, id) IN
         /\ WritesEvents(m) => /\ w.seq = m.seq + Missing(Outgoing(m)) /\ w.sent = Numbered(Outgoing(m), m.seq)
                               /\ w.pending = <<>> /\ w.awaiting = id
         /\ ~WritesEvents(m) => /\ w.seq = m.seq /\ w.sent = m.sent /\ w.pending = m.pending
                                /\ w.awaiting = m.awaiting
         /\ w.synced = m.synced /\ w.blocks = m.blocks /\ (m.requests = {} => w.requests = {})
  <1> DEFINE marked == [m EXCEPT !.requests = {[r EXCEPT !.sent = TRUE] : r \in @}]
             v == NumberFirst(marked, Len(Outgoing(m)))
  <1>1. /\ marked \in EventManagers /\ Outgoing(marked) = Outgoing(m)
        /\ marked = [m EXCEPT !.requests = marked.requests]
    BY MarkedType
  <1>2. m.requests = {} => marked.requests = {}
    BY DEF EventManagers
  <1> HIDE DEF marked
  <1>3. /\ marked.seq = m.seq /\ marked.sent = m.sent /\ marked.pending = m.pending
        /\ marked.awaiting = m.awaiting /\ marked.synced = m.synced /\ marked.blocks = m.blocks
    BY <1>1 DEF EventManagers
  <1>4. /\ v.seq = marked.seq + Missing(Outgoing(marked)) /\ Outgoing(v) = Numbered(Outgoing(marked), marked.seq)
        /\ v.synced = marked.synced /\ v.blocks = marked.blocks /\ v.requests = marked.requests
        /\ v \in EventManagers
    BY <1>1, NumberAll
  <1>5. SerializeEvents(m, id) = IF WritesEvents(m)
                                 THEN [v EXCEPT !.sent = Outgoing(v), !.pending = <<>>, !.awaiting = id]
                                 ELSE marked
    BY DEF SerializeEvents, marked
  <1> HIDE DEF v
  <1>6. QED BY <1>1, <1>2, <1>3, <1>4, <1>5 DEF EventManagers

LEMMA AppendFields ==
  ASSUME NEW S, NEW q \in Seq(S), NEW m \in S
  PROVE  /\ Append(q, m) \in Seq(S) /\ Len(Append(q, m)) = Len(q) + 1 /\ Append(q, m) # <<>> /\ Len(q) \in Nat
         /\ \A j \in 1 .. Len(q) : j \in 1 .. Len(Append(q, m)) /\ Append(q, m)[j] = q[j]
         /\ \A j \in 1 .. Len(Append(q, m)) : j \in 1 .. Len(q) \/ (j = Len(q) + 1 /\ Append(q, m)[j] = m)
         /\ q # <<>> => Head(Append(q, m)) = Head(q)
         /\ q = <<>> => Head(Append(q, m)) = m
         /\ Append(q, m)[Len(q) + 1] = m
  OBVIOUS

LEMMA RequestAppend ==
  ASSUME NEW q \in Seq(ClientSyncs), NEW m \in ClientSyncs
  PROVE  /\ Len(q) <= Len(Append(q, m)) /\ Append(q, m) # <<>>
         /\ \A j \in 1 .. Len(q) : j \in 1 .. Len(Append(q, m)) /\ Append(q, m)[j] = q[j]
         /\ \A j \in 1 .. Len(Append(q, m)) : j \in 1 .. Len(q) \/ (j = Len(q) + 1 /\ Append(q, m)[j] = m)
         /\ q # <<>> => Head(Append(q, m)) = Head(q)
         /\ q = <<>> => Head(Append(q, m)) = m
  <1>1. Len(q) \in Nat /\ Len(Append(q, m)) = Len(q) + 1
    OBVIOUS
  <1>2. QED BY <1>1, AppendFields

(* A request for the server's number, or one of other services: no events. *)
LEMMA OrderAsks ==
  ASSUME Sizes, Kinds, Sizes', Kinds', Order, QuietBlocks', NEW m,
         manager'.seq = manager.seq, manager'.sent = manager.sent, manager'.pending = manager.pending,
         manager'.synced = manager.synced, manager'.awaiting = manager.awaiting,
         manager.requests = {} => manager'.requests = {},
         requestId' = requestId + 1, UNCHANGED <<accepted, delivered, toClient, server>>,
         \/ UNCHANGED <<toServer, link>>
         \/ toServer' = Append(toServer, m) /\ link' = "authorized",
         m \in ClientSyncs, m.events = <<>>, m.id = requestId + 1, m.wantsNumber => m.event,
         link = "authorized" \/ manager.synced \/ m.wantsNumber
  PROVE  Order'
  <1>1. Out' = Out /\ Behind' = Behind /\ SentEnd' = SentEnd
    BY DEF Out, Outgoing, Behind, SentEnd
  <1>2. InLine'
    BY <1>1 DEF Order, InLine
  <1>3. \A b : Boundary(b) <=> Boundary(b)'
    BY <1>1 DEF Boundary
  <1>4. /\ Len(toServer) <= Len(toServer')
        /\ \A j \in 1 .. Len(toServer) : toServer'[j] = toServer[j]
        /\ \A j \in 1 .. Len(toServer') : j \in 1 .. Len(toServer) \/ toServer'[j] = m
    <2>1. CASE UNCHANGED toServer
      BY <2>1 DEF Sizes
    <2>2. CASE toServer' = Append(toServer, m)
      BY <2>2, RequestAppend DEF Kinds
    <2>3. QED BY <2>1, <2>2
  <1>5. Wire'
    <2>1. Wire
      BY DEF Order
    <2>2. ASSUME NEW j \in 1 .. Len(toServer) PROVE OnWire(toServer[j].events)'
      <3>1. PICK w : w = toServer[j].events
        OBVIOUS
      <3>2. OnWire(w)
        BY <2>1, <3>1 DEF Wire
      <3>3. OnWire(w)'
        BY <1>1, <1>3, <3>2 DEF OnWire
      <3>4. QED BY <1>4, <3>1, <3>3 DEF OnWire
    <2>3. ASSUME NEW j \in 1 .. Len(toServer') PROVE OnWire(toServer[j].events)'
      <3>1. CASE j \in 1 .. Len(toServer)
        BY <2>2, <3>1
      <3>2. CASE toServer'[j] = m
        BY <3>2 DEF OnWire
      <3>3. QED BY <1>4, <3>1, <3>2
    <2>4. ASSUME NEW j \in 1 .. Len(toServer'), NEW i \in 1 .. j - 1
          PROVE  InTurn(toServer'[i].events, toServer'[j].events)
      <3>1. CASE toServer'[j] = m
        BY <3>1 DEF InTurn
      <3>2. CASE j \in 1 .. Len(toServer)
        <4>1. i \in 1 .. Len(toServer)
          BY <3>2 DEF Sizes
        <4>2. QED BY <1>4, <2>1, <3>2, <4>1 DEF Wire
      <3>3. QED BY <1>4, <3>1, <3>2
    <2>5. QED BY <2>3, <2>4 DEF Wire
  <1>6. Matched'
    <2>1. Matched
      BY DEF Order
    <2>2. manager'.awaiting <= requestId'
      BY <2>1 DEF Matched, Sizes
    <2>3. RequestsMatched'
      <3> SUFFICES ASSUME NEW j \in 1 .. Len(toServer')
                   PROVE  /\ toServer'[j].id <= requestId' /\ Awaited(toServer[j])'
                          /\ toServer'[j].wantsNumber => toServer'[j].event
        BY DEF RequestsMatched, Awaited
      <3>1. CASE j \in 1 .. Len(toServer)
        <4>1. /\ toServer[j].id <= requestId /\ Awaited(toServer[j]) /\ toServer[j].id \in Nat
              /\ toServer[j].wantsNumber => toServer[j].event
          BY <2>1, <3>1, MessageFields DEF Matched, RequestsMatched
        <4>2. toServer[j].id <= requestId + 1
          BY <4>1 DEF Sizes
        <4>3. toServer'[j] = toServer[j]
          BY <1>4, <3>1
        <4>4. Awaited(toServer[j])'
          BY <1>1, <4>1, <4>3 DEF Awaited
        <4>5. QED BY <4>1, <4>2, <4>3, <4>4
      <3>2. CASE toServer'[j] = m
        <4>1. m.id # manager'.awaiting
          BY <2>1 DEF Matched, Sizes
        <4>2. Awaited(toServer[j])'
          BY <3>2, <4>1 DEF Awaited
        <4>3. m.id <= requestId'
          BY DEF Sizes
        <4>4. QED BY <3>2, <4>2, <4>3
      <3>3. QED BY <1>4, <3>1, <3>2
    <2>4. AnswersMatched'
      <3> SUFFICES ASSUME NEW j \in 1 .. Len(toClient) PROVE toClient[j].id <= requestId + 1
        BY <1>1, <2>1 DEF Matched, AnswersMatched
      <3>1. toClient[j].id <= requestId /\ toClient[j].id \in Nat
        BY <2>1, AnswerFields DEF Matched, AnswersMatched
      <3>2. QED BY <3>1 DEF Sizes
    <2>5. toServer # <<>> => toServer' # <<>>
      BY DEF Kinds
    <2>6. toServer' = Append(toServer, m) => toServer' # <<>>
      BY RequestAppend DEF Kinds
    <2>7. QED BY <2>1, <2>2, <2>3, <2>4, <2>5, <2>6 DEF Matched
  <1>7. ASSUME ~manager.synced PROVE Unsynced'
    <2>1. Unsynced /\ Matched
      BY <1>7 DEF Order
    <2>2. \A j \in 1 .. Len(toServer') : toServer'[j].events = <<>>
      BY <1>4, <2>1 DEF Unsynced
    <2>3. ASSUME ~server.session, toServer' # <<>> PROVE Head(toServer').wantsNumber
      <3>1. CASE toServer = <<>>
        <4>1. toServer' = Append(toServer, m) /\ link # "authorized"
          BY <2>1, <2>3, <3>1 DEF Matched
        <4>2. Head(toServer') = m
          BY <3>1, <4>1
        <4>3. QED BY <1>7, <4>1, <4>2
      <3>2. CASE toServer # <<>>
        <4>1. Head(toServer') = Head(toServer)
          <5>1. CASE UNCHANGED toServer
            BY <5>1
          <5>2. CASE toServer' = Append(toServer, m)
            <6>1. Head(Append(toServer, m)) = Head(toServer)
              BY <3>2, RequestAppend DEF Kinds
            <6>2. QED BY <5>2, <6>1
          <5>3. QED BY <5>1, <5>2
        <4>2. QED BY <2>1, <2>3, <3>2, <4>1 DEF Unsynced
      <3>3. QED BY <3>1, <3>2
    <2>4. QED BY <1>1, <2>1, <2>2, <2>3 DEF Unsynced, NumberOnItsWay, HasNumber
  <1>8. Numbering => Numbering'
    BY <1>1, <1>3 DEF Numbering
  <1>9. QED BY <1>2, <1>5, <1>6, <1>7, <1>8 DEF Order

(* All that is held is written. *)
LEMMA OrderWrites ==
  ASSUME Sizes, Kinds, Sizes', Kinds', Order, QuietBlocks', NEW m, NEW r \in Seq(Event),
         manager.synced, Out # <<>>, r = Numbered(Out, manager.seq),
         manager'.seq = manager.seq + Missing(Out), manager'.sent = r, manager'.pending = <<>>,
         manager'.synced = manager.synced, manager'.awaiting = requestId + 1,
         requestId' = requestId + 1, UNCHANGED <<accepted, delivered, toClient, server>>,
         \/ UNCHANGED <<toServer, link>>
         \/ toServer' = Append(toServer, m) /\ link' = "authorized",
         m \in ClientSyncs, m.events = r, m.id = requestId + 1, ~m.wantsNumber
  PROVE  Order'
  <1> DEFINE n == Len(accepted)
  <1>1. /\ Len(r) = Len(Out) /\ \A i \in 1 .. Len(r) : r[i].id = Out[i].id
    BY NumberedNums DEF Kinds, Sizes
  <1>2. Out' = r
    <2>1. r \o <<>> = r
      OBVIOUS
    <2>2. QED BY <2>1 DEF Out, Outgoing
  <1>3. Behind' = Behind
    BY <1>1, <1>2 DEF Behind
  <1>4. Numbering /\ InLine /\ Wire /\ Matched
    BY DEF Order
  <1>5. manager'.seq = n /\ manager.seq <= n
    <2>1. manager.seq + Missing(Out) = n
      BY <1>4 DEF Numbering, NumbersOf
    <2>2. QED BY <2>1, NumbersBelow
  <1>6. SentEnd' = n
    <2>1. SentEnd' = Behind + Len(Out)
      BY <1>1, <1>3 DEF SentEnd
    <2>2. QED BY <2>1, NumbersBelow
  <1>7. Top(r, n) /\ NumbersOf(r, n, n)
    BY <1>4, NumbersWritten DEF Numbering, Kinds, Sizes
  <1>8. ASSUME NEW b \in Int, Boundary(b) PROVE Boundary(b)' /\ Cut(r, Behind, b)
    <2>1. b <= manager.seq /\ Cut(Out, Behind, b)
      BY <1>8 DEF Boundary, BoundaryOf
    <2>2. Cut(r, Behind, b)
      BY <2>1, CutNumbered DEF Kinds, Sizes
    <2>3. b <= n
      BY <1>5, <2>1 DEF Sizes
    <2>4. QED BY <1>2, <1>3, <1>5, <2>2, <2>3 DEF Boundary, BoundaryOf
  <1>9. Boundary(n)'
    <2>1. \A i \in 1 .. Len(r) : ~After(r[i], n)
      <3> SUFFICES ASSUME NEW i \in 1 .. Len(r) PROVE ~After(r[i], n)
        OBVIOUS
      <3>1. r[i].num # UNNUMBERED /\ r[i].num <= n /\ r[i].num \in Int
        BY <1>7, EventNumber DEF Top
      <3>2. ~(r[i].num > n)
        BY <3>1 DEF Sizes
      <3>3. QED BY <3>1, <3>2 DEF After
    <2>2. \A i \in 1 .. Len(r) : ~(Behind + i > n)
      <3>1. Behind + Len(r) = n
        BY <1>1, NumbersBelow
      <3>2. Len(r) \in Nat /\ Behind \in Int /\ n \in Nat
        BY DEF Sizes
      <3> HIDE DEF n
      <3>3. QED BY <3>1, <3>2
    <2>3. Cut(r, Behind, n)
      BY <2>1, <2>2 DEF Cut
    <2>4. n <= n
      BY DEF Sizes
    <2>5. QED BY <1>2, <1>3, <1>5, <2>3, <2>4 DEF Boundary, BoundaryOf
  <1>10. InLine'
    <2>1. Placed(r, Behind, accepted)
      BY <1>1, <1>4 DEF InLine, Placed
    <2>2. QED BY <1>2, <1>3, <1>4, <2>1 DEF InLine
  <1>11. OnWire(r)' /\ End(r) = n
    <2>1. End(r) = n
      BY <1>7, TopIsEnd DEF Sizes
    <2>2. n - Len(r) = Behind
      BY <1>1 DEF Behind
    <2>3. Start(r) = Behind
      BY <2>1, <2>2 DEF Start
    <2>4. Len(r) <= n
      <3>1. 0 <= Behind /\ Behind = n - Len(r) /\ Len(r) \in Nat /\ n \in Nat
        BY <1>4, <2>2 DEF InLine, Sizes
      <3> HIDE DEF n
      <3>2. QED BY <3>1
    <2>5. Behind <= server.last /\ server.last <= n
      BY <1>4 DEF InLine
    <2>6. Placed(r, Behind, accepted')
      BY <1>2, <1>3, <1>10 DEF InLine
    <2>7. Cut(r, Behind, server.last)
      BY <1>4, <1>8 DEF Numbering, Sizes
    <2>8. n \in Nat /\ n <= n
      BY DEF Sizes
    <2>9. QED BY <1>7, <1>9, <2>1, <2>3, <2>4, <2>5, <2>6, <2>7, <2>8 DEF OnWire
  <1>12. /\ Len(toServer) <= Len(toServer')
         /\ \A j \in 1 .. Len(toServer) : toServer'[j] = toServer[j]
         /\ \A j \in 1 .. Len(toServer') : j \in 1 .. Len(toServer) \/ (toServer'[j] = m /\ j = Len(toServer) + 1)
    <2>1. CASE UNCHANGED toServer
      BY <2>1 DEF Sizes
    <2>2. CASE toServer' = Append(toServer, m)
      BY <2>2, RequestAppend DEF Kinds
    <2>3. QED BY <2>1, <2>2
  <1>13. Wire'
    <2>1. ASSUME NEW j \in 1 .. Len(toServer) PROVE OnWire(toServer[j].events)'
      <3>1. PICK w : w = toServer[j].events
        OBVIOUS
      <3>2. w \in Seq(Event) /\ OnWire(w)
        BY <1>4, <3>1, MessageFields DEF Wire
      <3>3. Len(accepted) <= Len(accepted')
        BY DEF Sizes
      <3>4. OnWire(w)'
        BY <1>8, <3>2, <3>3, MessageStays
      <3>5. toServer'[j].events = w
        BY <1>12, <3>1
      <3>6. QED BY <3>4, <3>5
    <2>2. ASSUME NEW j \in 1 .. Len(toServer') PROVE OnWire(toServer[j].events)'
      <3>1. CASE j \in 1 .. Len(toServer)
        BY <2>1, <3>1
      <3>2. CASE toServer'[j] = m
        <4>1. toServer'[j].events = r
          BY <3>2
        <4>2. QED BY <1>11, <4>1
      <3>3. QED BY <1>12, <3>1, <3>2
    <2>3. ASSUME NEW j \in 1 .. Len(toServer'), NEW i \in 1 .. j - 1
          PROVE  InTurn(toServer'[i].events, toServer'[j].events)
      <3>1. CASE toServer'[j] = m /\ j = Len(toServer) + 1
        <4>1. i \in 1 .. Len(toServer)
          BY <3>1 DEF Sizes
        <4>2. PICK w : w = toServer[i].events
          OBVIOUS
        <4>3. toServer'[i].events = w /\ OnWire(w)
          BY <1>4, <1>12, <4>1, <4>2 DEF Wire
        <4>4. ASSUME w # <<>> PROVE End(w) <= End(r) /\ Cut(r, Start(r), End(w))
          <5>1. End(w) \in Nat /\ End(w) <= n /\ Boundary(End(w))
            BY <4>3, <4>4 DEF OnWire
          <5>2. Cut(r, Behind, End(w))
            BY <1>8, <5>1
          <5>3. n - Len(r) = Behind
            BY <1>1 DEF Behind
          <5>4. Start(r) = Behind
            BY <1>11, <5>3 DEF Start
          <5>5. QED BY <1>11, <5>1, <5>2, <5>4
        <4>5. QED BY <3>1, <4>3, <4>4 DEF InTurn
      <3>2. CASE j \in 1 .. Len(toServer)
        <4>1. i \in 1 .. Len(toServer)
          BY <3>2 DEF Sizes
        <4>2. QED BY <1>4, <1>12, <3>2, <4>1 DEF Wire
      <3>3. QED BY <1>12, <3>1, <3>2
    <2>4. QED BY <2>2, <2>3 DEF Wire
  <1>14. Matched'
    <2>1. manager'.awaiting <= requestId'
      BY DEF Sizes
    <2>2. RequestsMatched'
      <3> SUFFICES ASSUME NEW j \in 1 .. Len(toServer')
                   PROVE  /\ toServer'[j].id <= requestId' /\ Awaited(toServer[j])'
                          /\ toServer'[j].wantsNumber => toServer'[j].event
        BY DEF RequestsMatched
      <3>1. CASE j \in 1 .. Len(toServer)
        <4>1. /\ toServer[j].id <= requestId /\ toServer[j].id \in Nat
              /\ toServer[j].wantsNumber => toServer[j].event
          BY <1>4, <3>1, MessageFields DEF Matched, RequestsMatched
        <4>2. toServer[j].id <= requestId + 1 /\ toServer[j].id # requestId + 1
          BY <4>1 DEF Sizes
        <4>3. toServer'[j] = toServer[j]
          BY <1>12, <3>1
        <4>4. Awaited(toServer[j])'
          BY <4>2, <4>3 DEF Awaited
        <4>5. QED BY <4>1, <4>2, <4>3, <4>4
      <3>2. CASE toServer'[j] = m
        <4>1. m.events # <<>>
          <5>1. Len(r) # 0
            BY <1>1 DEF Kinds
          <5>2. QED BY <5>1
        <4>2. Awaited(toServer[j])'
          BY <1>6, <1>11, <3>2, <4>1 DEF Awaited
        <4>3. m.id <= requestId'
          BY DEF Sizes
        <4>4. QED BY <3>2, <4>2, <4>3
      <3>3. QED BY <1>12, <3>1, <3>2
    <2>3. AnswersMatched'
      <3> SUFFICES ASSUME NEW j \in 1 .. Len(toClient)
                   PROVE toClient[j].id <= requestId + 1 /\ toClient[j].id # requestId + 1
        BY <1>4 DEF Matched, AnswersMatched
      <3>1. toClient[j].id <= requestId /\ toClient[j].id \in Nat
        BY <1>4, AnswerFields DEF Matched, AnswersMatched
      <3>2. QED BY <3>1 DEF Sizes
    <2>4. toServer' = Append(toServer, m) => toServer' # <<>>
      BY RequestAppend DEF Kinds
    <2>5. QED BY <1>4, <2>1, <2>2, <2>3, <2>4 DEF Matched
  <1>15. Numbering'
    <2>1. Boundary(server.last)'
      <3>1. \A b \in Int : Boundary(b) => BoundaryOf(Out', Behind', manager'.seq, b)
        BY <1>8 DEF Boundary
      <3>2. QED BY <1>4, <3>1 DEF Numbering, Sizes, Boundary
    <2>2. Boundary(SentEnd)'
      BY <1>6, <1>9 DEF Boundary
    <2>3. QED BY <1>2, <1>5, <1>7, <2>1, <2>2 DEF Numbering
  <1>16. QED BY <1>10, <1>13, <1>14, <1>15 DEF Order

LEMMA NoWrap == ASSUME TypeOK, requestId + 1 < RequestIds PROVE NextId = requestId + 1 /\ requestId + 1 \in Nat
  <1>1. \A a \in Nat, n \in Nat : a < n => a % n = a
    OBVIOUS
  <1>2. requestId + 1 \in Nat /\ RequestIds \in Nat
    BY SyncAssumption DEF TypeOK
  <1>3. QED BY <1>1, <1>2 DEF NextId

(* A listeners request waits only for numbers that are there, so events    *)
(* always fit.                                                             *)
LEMMA RequestsSynced == Order => (HasPayload(manager) => manager.synced) /\ EventsFit(manager)
  BY DEF Order, Unsynced, HasPayload, EventsFit

LEMMA OrderBuilt ==
  ASSUME TypeOK, TypeOK', Order, requestId + 1 < RequestIds, NEW svcs, Serialize(svcs),
         UNCHANGED <<accepted, delivered, toClient, server>>,
         \/ UNCHANGED <<toServer, link>>
         \/ toServer' = Append(toServer, ClientSync(svcs, NextId)) /\ link' = "authorized",
         link = "authorized" \/ "event" \in svcs
  PROVE  Order'
  <1>1. Sizes /\ Kinds /\ Sizes' /\ Kinds'
    BY Basics, BasicsNext DEF Basic
  <1>2. NextId = requestId + 1 /\ requestId + 1 \in Nat
    BY NoWrap
  <1>3. manager \in EventManagers
    BY DEF TypeOK
  <1> DEFINE m == ClientSync(svcs, NextId)
  <1>4. m \in ClientSyncs
    BY <1>2, ClientSyncType
  <1>5. /\ m.id = requestId + 1 /\ m.event = ("event" \in svcs) /\ m.wantsNumber = ("event" \in svcs /\ ~manager.synced)
        /\ m.events = IF "event" \in svcs THEN EventsWritten(manager) ELSE <<>>
    BY <1>2 DEF ClientSync
  <1> HIDE DEF m
  <1>6. requestId' = requestId + 1
    BY <1>2 DEF Serialize
  <1>7. manager' = IF "event" \in svcs THEN SerializeEvents(manager, requestId + 1) ELSE manager
    BY <1>2 DEF Serialize
  <1>8. /\ UNCHANGED <<toServer, link>> \/ (toServer' = Append(toServer, m) /\ link' = "authorized")
        /\ Outgoing(manager) = Out
    BY DEF m, Out
  <1>9. CASE "event" \in svcs /\ WritesEvents(manager)
    <2>1. manager.synced /\ Out # <<>>
      BY <1>9, RequestsSynced DEF WritesEvents, Out
    <2>2. m.events = Numbered(Out, manager.seq) /\ ~m.wantsNumber
      BY <1>5, <1>9, <2>1 DEF EventsWritten, Out
    <2>3. /\ manager'.seq = manager.seq + Missing(Out) /\ manager'.sent = Numbered(Out, manager.seq)
          /\ manager'.pending = <<>> /\ manager'.awaiting = requestId + 1
          /\ manager'.synced = manager.synced /\ manager'.blocks = manager.blocks
      BY <1>2, <1>3, <1>7, <1>9, Written DEF Out
    <2>4. PICK r : r = Numbered(Out, manager.seq)
      OBVIOUS
    <2>5. r \in Seq(Event)
      BY <1>1, <2>4, NumberedNums DEF Kinds, Sizes
    <2>6. QuietBlocks'
      BY <2>3, BlocksStayQuiet
    <2>7. QED BY <1>1, <1>4, <1>5, <1>6, <1>8, <2>1, <2>2, <2>3, <2>4, <2>5, <2>6, OrderWrites
  <1>10. CASE ~("event" \in svcs /\ WritesEvents(manager))
    <2>1. /\ manager'.seq = manager.seq /\ manager'.sent = manager.sent /\ manager'.pending = manager.pending
          /\ manager'.awaiting = manager.awaiting /\ manager'.synced = manager.synced
          /\ manager'.blocks = manager.blocks /\ (manager.requests = {} => manager'.requests = {})
      <3>1. CASE "event" \in svcs
        BY <1>2, <1>3, <1>7, <1>10, <3>1, Written
      <3>2. CASE "event" \notin svcs
        BY <1>7, <3>2
      <3>3. QED BY <3>1, <3>2
    <2>2. m.events = <<>>
      BY <1>5, <1>10 DEF EventsWritten
    <2>3. m.wantsNumber => m.event
      BY <1>5
    <2>4. link = "authorized" \/ manager.synced \/ m.wantsNumber
      BY <1>5
    <2>5. QuietBlocks'
      BY <2>1, BlocksStayQuiet
    <2>6. QED BY <1>1, <1>4, <1>5, <1>6, <1>8, <2>1, <2>2, <2>3, <2>4, <2>5, OrderAsks
  <1>11. QED BY <1>9, <1>10

(* Mishaps that do not happen. *)
Calm == MishapKinds \cap {"listeners", "memory", "corrupt"} = {}

LEMMA NoMishap == ASSUME Calm, NEW k \in {"listeners", "memory", "corrupt"} PROVE ~Happens(k)
  BY DEF Calm, Happens

LEMMA OrderSyncs ==
  ASSUME TypeOK, TypeOK', Order, Calm, requestId + 1 < RequestIds, Connect \/ Sync
  PROVE  Order'
  <1>1. ~Happens("memory") /\ \A svcs : ~SerializeFails(svcs)
    BY NoMishap, RequestsSynced DEF SerializeFails
  <1>2. UNCHANGED <<accepted, delivered, toClient, server>>
    BY DEF Connect, Sync
  <1>3. CASE Connect
    <2>1. Serialize(Services) /\ Hand(Services) /\ link' = "authorized"
      BY <1>1, <1>3 DEF Connect
    <2>2. QED BY <1>2, <2>1, OrderBuilt DEF Hand, Services
  <1>4. CASE Sync
    <2>1. link = "authorized" /\ Serialize(wanted) /\ link' = link /\ (Hand(wanted) \/ UNCHANGED toServer)
      BY <1>1, <1>4 DEF Sync
    <2>2. QED BY <1>2, <2>1, OrderBuilt DEF Hand
  <1>5. QED BY <1>3, <1>4
-----------------------------------------------------------------------------
(* The server takes what is new to it, up to the last place of the message. *)
Reached(w) == IF w = <<>> THEN server.last ELSE End(w)

LEMMA Arrives ==
  ASSUME TypeOK, Sizes, Kinds, Order, NEW w \in Seq(Event), OnWire(w)
  PROVE  LET d == delivered \o Ids(NewEvents(w)) IN
         /\ Reached(w) \in Nat /\ server.last <= Reached(w) /\ Reached(w) <= Len(accepted)
         /\ Len(d) = Reached(w) /\ \A i \in 1 .. Len(d) : d[i] = accepted[i]
         /\ (CHOOSE n \in Numbers(w) \cup {server.last} : \A k \in Numbers(w) \cup {server.last} : k <= n) = Reached(w)
  <1> DEFINE e == Reached(w)
             s == Start(w)
             c == IF w = <<>> THEN 0 ELSE server.last - s
             new == NewEvents(w)
             ids == Ids(new)
             d == delivered \o ids
             S == Numbers(w) \cup {server.last}
             top == CHOOSE n \in S : \A k \in S : k <= n
             last == server.last
             n == Len(w)
  <1>1. /\ InLine /\ last \in Nat /\ n \in Nat /\ last = Len(delivered) /\ last <= Len(accepted)
        /\ \A i \in 1 .. Len(delivered) : delivered[i] = accepted[i]
    BY DEF Order, InLine, Sizes
  <1>2. w # <<>> => /\ e \in Nat /\ Top(w, e) /\ n <= e /\ e <= Len(accepted) /\ s <= last /\ last <= e
                    /\ Placed(w, s, accepted) /\ Cut(w, s, last) /\ s = e - n
    BY DEF OnWire, Start, Reached
  <1>3. w = <<>> => e = last /\ n = 0 /\ c = 0
    BY DEF Reached
  <1>4. e \in Nat /\ last <= e /\ e <= Len(accepted)
    <2> HIDE DEF e, last
    <2>1. last <= last
      BY <1>1
    <2>2. QED BY <1>1, <1>2, <1>3, <2>1
  <1>5. top = e
    <2>1. /\ top \in S /\ top \in Nat /\ last <= top /\ \A i \in 1 .. Len(w) : w[i].num <= top
      <3> HIDE DEF top
      <3>1. QED BY <1>1, HighestNumber DEF top
    <2> HIDE DEF top
    <2>2. CASE w = <<>>
      <3>1. Numbers(w) = {}
        BY <2>2 DEF Numbers
      <3>2. QED BY <1>3, <2>1, <2>2, <3>1
    <2>3. CASE w # <<>>
      <3>1. PICK i \in 1 .. Len(w) : w[i].num = e
        BY <1>2, <2>3 DEF Top
      <3>2. e <= top
        BY <2>1, <3>1
      <3>3. top <= e
        <4>1. CASE top = last
          BY <1>4, <4>1
        <4>2. CASE top \in Numbers(w)
          BY <1>2, <2>3, <4>2 DEF Numbers, Top
        <4>3. QED BY <2>1, <4>1, <4>2
      <3> HIDE DEF e
      <3>4. QED BY <1>4, <2>1, <3>2, <3>3
    <2>4. QED BY <2>2, <2>3
  <1>6. c \in 0 .. n
    <2>1. CASE w = <<>>
      BY <1>1, <1>3, <2>1
    <2>2. CASE w # <<>>
      <3>1. /\ c = last - s /\ e \in Nat /\ n <= e /\ s <= last /\ last <= e /\ s = e - n
            /\ last \in Nat /\ n \in Nat
        BY <1>1, <1>2, <2>2
      <3> HIDE DEF c, e, s, n, last
      <3>2. QED BY <3>1
    <2>3. QED BY <2>1, <2>2
  <1>7. \A i \in 1 .. Len(w) : w[i].num > server.last <=> i > c
    <2> SUFFICES ASSUME NEW i \in 1 .. Len(w) PROVE w[i].num > server.last <=> i > c
      OBVIOUS
    <2>1. w # <<>> /\ i \in Nat /\ c = last - s
      OBVIOUS
    <2>2. After(w[i], last) <=> s + i > last
      BY <1>2, <2>1 DEF Cut
    <2>3. w[i].num # UNNUMBERED
      BY <1>2, <2>1 DEF Top
    <2>4. s \in Int /\ last \in Nat
      BY <1>1, <1>2, <2>1
    <2> HIDE DEF c, s, last
    <2>5. s + i > last <=> i > c
      BY <2>1, <2>4
    <2>6. QED BY <2>2, <2>3, <2>5 DEF After, last
  <1>8. new = SubSeq(w, c + 1, Len(w))
    <2> HIDE DEF c
    <2>1. QED BY <1>6, <1>7, NewIsSuffix
  <1> HIDE DEF c, new
  <1>9. new \in Seq(Event) /\ Len(new) = n - c /\ \A i \in 1 .. n - c : new[i] = w[c + i]
    <2>1. c \in Nat /\ c <= n /\ n \in Nat
      BY <1>1, <1>6
    <2>2. \A i \in c + 1 .. Len(w) : w[i] \in Event
      BY <2>1
    <2>3. QED BY <1>8, <2>1, <2>2
  <1>10. n - c = e - last /\ n - c \in Nat
    <2>1. CASE w = <<>>
      BY <1>1, <1>3, <2>1
    <2>2. CASE w # <<>>
      <3>1. /\ c = last - s /\ e \in Nat /\ s = e - n /\ last \in Nat /\ n \in Nat /\ last <= e
        BY <1>1, <1>2, <2>2 DEF c
      <3> HIDE DEF e, s, n, last
      <3>2. QED BY <3>1
    <2>3. QED BY <2>1, <2>2
  <1>11. ids \in Seq(EventIds) /\ Len(ids) = Len(new) /\ \A i \in 1 .. Len(new) : ids[i] = new[i].id
    BY <1>9, IdsType
  <1> HIDE DEF ids
  <1>12. /\ Len(d) = Len(delivered) + Len(ids)
         /\ \A i \in 1 .. Len(delivered) : d[i] = delivered[i]
         /\ \A i \in 1 .. Len(ids) : d[Len(delivered) + i] = ids[i]
    BY <1>11, IdsConcat DEF Kinds
  <1> HIDE DEF d
  <1>13. Len(d) = e
    <2>1. Len(d) = last + (e - last) /\ e \in Nat /\ last \in Nat
      BY <1>1, <1>4, <1>9, <1>10, <1>11, <1>12
    <2> HIDE DEF e, last
    <2>2. QED BY <2>1
  <1>14. ASSUME NEW i \in 1 .. Len(d) PROVE d[i] = accepted[i]
    <2>1. i \in Nat /\ i >= 1 /\ i <= e /\ e \in Nat
      BY <1>4, <1>13
    <2>2. CASE i <= last
      <3>1. i \in 1 .. Len(delivered)
        BY <1>1, <2>1, <2>2
      <3>2. QED BY <1>1, <1>12, <3>1
    <2>3. CASE ~(i <= last)
      <3> DEFINE j == i - last
      <3>1. j \in 1 .. e - last /\ last + j = i
        <4>1. last \in Nat
          BY <1>1
        <4> HIDE DEF e, last
        <4>2. QED BY <2>1, <2>3, <4>1
      <3>2. w # <<>>
        BY <1>1, <1>3, <2>1, <2>3
      <3>3. d[i] = ids[j]
        <4>1. j \in 1 .. Len(ids)
          BY <1>9, <1>10, <1>11, <3>1
        <4> HIDE DEF j
        <4>2. QED BY <1>1, <1>12, <3>1, <4>1
      <3> HIDE DEF j
      <3>4. ids[j] = w[c + j].id
        BY <1>9, <1>10, <1>11, <3>1
      <3>5. c + j \in 1 .. n /\ s + (c + j) = i
        <4>1. c = last - s /\ c \in 0 .. n /\ e \in Nat /\ s = e - n /\ last \in Nat /\ n \in Nat /\ last <= e
              /\ j \in 1 .. e - last /\ last + j = i
          BY <1>1, <1>2, <1>6, <3>1, <3>2 DEF c
        <4> HIDE DEF e, s, n, last
        <4>2. QED BY <4>1
      <3>6. w[c + j].id = accepted[s + (c + j)]
        BY <1>2, <3>2, <3>5 DEF Placed
      <3>7. QED BY <3>3, <3>4, <3>5, <3>6
    <2>4. QED BY <2>2, <2>3
  <1>15. QED BY <1>4, <1>5, <1>13, <1>14 DEF d, ids, new

LEMMA AnswerAppend ==
  ASSUME NEW q \in Seq(ServerSyncs), NEW m \in ServerSyncs
  PROVE  /\ Len(Append(q, m)) = Len(q) + 1 /\ Len(q) \in Nat
         /\ \A j \in 1 .. Len(q) : j \in 1 .. Len(Append(q, m)) /\ Append(q, m)[j] = q[j]
         /\ \A j \in 1 .. Len(Append(q, m)) : j \in 1 .. Len(q) \/ (j = Len(q) + 1 /\ Append(q, m)[j] = m)
         /\ Append(q, m)[Len(q) + 1] = m
  <1>1. Len(q) \in Nat /\ Len(Append(q, m)) = Len(q) + 1
    OBVIOUS
  <1>2. QED BY <1>1, AppendFields

(* The number that is on its way to the endpoint, after one more answer.   *)
LEMMA HasNumberAppend ==
  ASSUME Kinds, NEW m \in ServerSyncs, toClient' = Append(toClient, m)
  PROVE  /\ \A n \in 0 .. Len(toClient) : HasNumber(n) => HasNumber(n)'
         /\ NumberOnItsWay => NumberOnItsWay'
         /\ m.number # NONE => NumberOnItsWay'
  <1> DEFINE k == Len(toClient)
             t == toClient'
  <1>1. /\ Len(t) = k + 1 /\ k \in Nat /\ t[k + 1] = m
        /\ \A j \in 1 .. k : t[j] = toClient[j]
    BY AnswerAppend DEF Kinds
  <1> HIDE DEF k, t
  <1>2. \A n \in 0 .. k : \A i \in 1 .. n : i \in 1 .. k /\ i \in 1 .. k + 1
    BY <1>1
  <1>3. k + 1 \in 1 .. k + 1
    BY <1>1
  <1>4. NumberOnItsWay' <=> \E i \in 1 .. k + 1 : t[i].number # NONE
    BY <1>1 DEF NumberOnItsWay, HasNumber, t
  <1>5. \A n \in 0 .. k : HasNumber(n) => HasNumber(n)'
    BY <1>1, <1>2 DEF HasNumber, t
  <1>6. NumberOnItsWay => NumberOnItsWay'
    <2>1. k \in 0 .. k
      BY <1>1
    <2>2. QED BY <1>1, <1>2, <1>4, <2>1 DEF NumberOnItsWay, HasNumber, k
  <1>7. m.number # NONE => NumberOnItsWay'
    BY <1>1, <1>3, <1>4
  <1>8. QED BY <1>5, <1>6, <1>7 DEF k

LEMMA OrderServe == ASSUME TypeOK, TypeOK', Order, Serve PROVE Order'
  <1>1. Sizes /\ Kinds /\ Sizes' /\ Kinds'
    BY Basics, BasicsNext DEF Basic
  <1>2. PICK m : m = Head(toServer)
    OBVIOUS
  <1>3. toServer # <<>> /\ toServer' = Tail(toServer) /\ toClient' = Append(toClient, Reply(m))
        /\ delivered' = delivered \o Ids(NewEvents(m.events))
        /\ UNCHANGED <<manager, accepted, requestId, link>>
    BY <1>2 DEF Serve, managers
  <1>4. /\ m \in ClientSyncs /\ m = toServer[1] /\ 1 \in 1 .. Len(toServer) /\ Len(toServer') = Len(toServer) - 1
        /\ \A j \in 1 .. Len(toServer) - 1 : toServer'[j] = toServer[j + 1] /\ j + 1 \in 1 .. Len(toServer)
    <2>1. /\ m \in ClientSyncs /\ m = toServer[1] /\ Len(toServer') = Len(toServer) - 1
          /\ Len(toServer) \in Nat \ {0}
          /\ \A j \in 1 .. Len(toServer) - 1 : toServer'[j] = toServer[j + 1]
      BY <1>1, <1>2, <1>3, HeadTail DEF Kinds
    <2>2. QED BY <2>1
  <1>5. PICK w : w = m.events
    OBVIOUS
  <1>6. w \in Seq(Event) /\ InLine /\ Wire /\ Matched /\ OnWire(w)
    <2>1. InLine /\ Wire /\ Matched
      BY DEF Order
    <2>2. QED BY <1>4, <1>5, <2>1 DEF Wire, ClientSyncs
  <1>7. PICK e : e = Reached(w)
    OBVIOUS
  <1>8. /\ e \in Nat /\ server.last <= e /\ e <= Len(accepted)
        /\ Len(delivered') = e /\ \A i \in 1 .. Len(delivered') : delivered'[i] = accepted[i]
        /\ (CHOOSE n \in Numbers(w) \cup {server.last} : \A k \in Numbers(w) \cup {server.last} : k <= n) = e
    BY <1>1, <1>3, <1>5, <1>6, <1>7, Arrives
  <1>9. server'.last = e /\ server'.session = TRUE
    <2>1. server \in Servers
      BY DEF TypeOK
    <2> DEFINE top == CHOOSE n \in Numbers(w) \cup {server.last} : \A k \in Numbers(w) \cup {server.last} : k <= n
    <2>2. server'.last = top /\ server'.session = TRUE
      BY <1>2, <1>5, <2>1 DEF Serve, Servers
    <2> HIDE DEF top
    <2>3. QED BY <1>8, <2>2 DEF top
  <1>10. Out' = Out /\ Behind' = Behind /\ SentEnd' = SentEnd /\ \A b : Boundary(b) <=> Boundary(b)'
    BY <1>3 DEF Out, Behind, SentEnd, Boundary
  <1>11. InLine'
    <2>1. Behind <= e
      BY <1>1, <1>6, <1>8 DEF InLine, Sizes
    <2>2. QED BY <1>3, <1>6, <1>8, <1>9, <1>10, <2>1 DEF InLine
  <1>12. QuietBlocks'
    BY <1>3, BlocksStayQuiet
  <1>13. Wire'
    <2>1. ASSUME NEW j \in 1 .. Len(toServer) - 1 PROVE OnWire(toServer[j].events)'
      <3>1. j + 1 \in 1 .. Len(toServer) /\ 1 \in 1 .. (j + 1) - 1
        BY <1>1, <1>4 DEF Sizes
      <3>2. PICK q : q = toServer[j + 1].events
        OBVIOUS
      <3>3. toServer'[j].events = q
        BY <1>4, <3>2
      <3>4. OnWire(q) /\ InTurn(w, q)
        BY <1>4, <1>5, <1>6, <3>1, <3>2 DEF Wire
      <3>5. ASSUME q # <<>>
            PROVE  Start(q) <= e /\ e <= End(q) /\ Cut(q, Start(q), e)
        <4>1. /\ Start(q) <= server.last /\ server.last <= End(q) /\ Cut(q, Start(q), server.last)
              /\ End(q) \in Nat /\ q \in Seq(Event)
          BY <1>1, <3>1, <3>2, <3>4, <3>5, MessageFields DEF OnWire
        <4>2. CASE w = <<>>
          BY <1>7, <4>1, <4>2 DEF Reached
        <4>3. CASE w # <<>>
          <5>1. e = End(w) /\ End(w) <= End(q) /\ Cut(q, Start(q), End(w))
            BY <1>7, <3>4, <3>5, <4>3 DEF Reached, InTurn
          <5>2. Start(q) <= e
            <6>1. Len(q) \in Nat
              BY <4>1
            <6>2. Start(q) \in Int
              BY <4>1, <6>1 DEF Start
            <6>3. QED BY <1>1, <1>8, <4>1, <6>2 DEF Sizes
          <5>3. QED BY <5>1, <5>2
        <4>4. QED BY <4>2, <4>3
      <3>6. OnWire(q)'
        BY <1>3, <1>9, <1>10, <3>4, <3>5 DEF OnWire
      <3>7. QED BY <3>3, <3>6
    <2>2. ASSUME NEW j \in 1 .. Len(toServer) - 1, NEW i \in 1 .. j - 1
          PROVE  InTurn(toServer'[i].events, toServer'[j].events)
      <3>1. /\ j + 1 \in 1 .. Len(toServer) /\ i + 1 \in 1 .. (j + 1) - 1
            /\ i \in 1 .. Len(toServer) - 1
        BY <1>1, <1>4 DEF Sizes
      <3>2. toServer'[i] = toServer[i + 1] /\ toServer'[j] = toServer[j + 1]
        BY <1>4, <3>1
      <3>3. QED BY <1>6, <3>1, <3>2 DEF Wire
    <2>3. QED BY <1>4, <2>1, <2>2 DEF Wire
  <1>14. Reply(m) \in ServerSyncs
    BY <1>4, ReplyType
  <1>15. /\ Reply(m).id = m.id /\ Reply(m).event = m.event /\ Reply(m).attach = "none"
         /\ Reply(m).number = IF m.wantsNumber THEN server.last ELSE NONE
    BY DEF Reply
  <1>16. /\ \A j \in 1 .. Len(toClient) : toClient'[j] = toClient[j]
         /\ \A j \in 1 .. Len(toClient') : \/ j \in 1 .. Len(toClient)
                                           \/ j = Len(toClient) + 1 /\ toClient'[j] = Reply(m)
    BY <1>1, <1>3, <1>14, AnswerAppend DEF Kinds
  <1>17. Matched'
    <2>1. RequestsMatched'
      <3> SUFFICES ASSUME NEW j \in 1 .. Len(toServer) - 1
                   PROVE  /\ toServer'[j].id <= requestId' /\ Awaited(toServer[j])'
                          /\ toServer'[j].wantsNumber => toServer'[j].event
        BY <1>4 DEF RequestsMatched
      <3>1. toServer'[j] = toServer[j + 1] /\ j + 1 \in 1 .. Len(toServer)
        BY <1>4
      <3>2. /\ toServer[j + 1].id <= requestId /\ Awaited(toServer[j + 1])
            /\ toServer[j + 1].wantsNumber => toServer[j + 1].event
        BY <1>6, <3>1 DEF Matched, RequestsMatched
      <3>3. QED BY <1>3, <1>10, <3>1, <3>2 DEF Awaited
    <2>2. m.id <= requestId /\ Awaited(m) /\ (m.wantsNumber => m.event)
      BY <1>4, <1>6 DEF Matched, RequestsMatched
    <2>3. m.id = manager.awaiting => SentEnd <= e
      <3>1. SUFFICES ASSUME m.id = manager.awaiting PROVE SentEnd <= e
        OBVIOUS
      <3>2. w # <<>> /\ End(w) = SentEnd
        BY <1>5, <2>2, <3>1 DEF Awaited
      <3>3. e = SentEnd
        BY <1>7, <3>2 DEF Reached
      <3>4. QED BY <1>8, <3>3
    <2>4. ASSUME NEW j \in 1 .. Len(toClient')
          PROVE  /\ toClient'[j].id <= requestId /\ (toClient'[j].number # NONE => toClient'[j].event)
                 /\ toClient'[j].event /\ toClient'[j].id = manager.awaiting => SentEnd <= e
      <3>1. CASE j \in 1 .. Len(toClient)
        <4>1. /\ toClient[j].id <= requestId /\ (toClient[j].number # NONE => toClient[j].event)
              /\ toClient[j].event /\ toClient[j].id = manager.awaiting => SentEnd <= server.last
          BY <1>6, <3>1 DEF Matched, AnswersMatched
        <4>2. SentEnd <= server.last => SentEnd <= e
          BY <1>1, <1>8 DEF Sizes
        <4>3. QED BY <1>16, <3>1, <4>1, <4>2
      <3>2. CASE toClient'[j] = Reply(m)
        BY <1>15, <2>2, <2>3, <3>2
      <3>3. QED BY <1>16, <3>1, <3>2
    <2>5. QED BY <1>3, <1>6, <1>9, <1>10, <2>1, <2>4 DEF Matched, AnswersMatched
  <1>18. Numbering => Numbering'
    <2> SUFFICES ASSUME Numbering PROVE Numbering'
      OBVIOUS
    <2>1. Boundary(e)
      <3>1. CASE w = <<>>
        BY <1>7, <3>1 DEF Numbering, Reached
      <3>2. CASE w # <<>>
        BY <1>6, <1>7, <3>2 DEF OnWire, Reached
      <3>3. QED BY <3>1, <3>2
    <2>2. Boundary(server.last)' /\ Boundary(SentEnd)'
      <3>1. \A b : Boundary(b) => BoundaryOf(Out', Behind', manager'.seq, b)
        BY <1>10 DEF Boundary
      <3>2. QED BY <1>9, <1>10, <2>1, <3>1 DEF Numbering, Boundary
    <2>3. QED BY <1>3, <1>10, <2>2 DEF Numbering
  <1>19. Unsynced => Unsynced'
    <2> SUFFICES ASSUME Unsynced PROVE Unsynced'
      OBVIOUS
    <2>1. w = <<>> /\ e = server.last
      BY <1>4, <1>5, <1>7 DEF Unsynced, Reached
    <2>2. \A j \in 1 .. Len(toServer') : toServer'[j].events = <<>>
      BY <1>4 DEF Unsynced
    <2>3. \A j \in 1 .. Len(toClient') : toClient'[j].number # NONE => toClient'[j].number = e
      BY <1>15, <1>16, <2>1 DEF Unsynced
    <2>4. NumberOnItsWay'
      <3>1. CASE server.session
        BY <1>1, <1>3, <1>14, <3>1, HasNumberAppend DEF Unsynced
      <3>2. CASE ~server.session
        <4>1. m.wantsNumber
          BY <1>2, <1>3, <3>2 DEF Unsynced
        <4>2. Reply(m).number # NONE
          BY <1>1, <1>15, <4>1 DEF Sizes, NONE
        <4>3. QED BY <1>1, <1>3, <1>14, <4>2, HasNumberAppend
      <3>3. QED BY <3>1, <3>2
    <2>5. ASSUME NEW i \in 1 .. Len(toClient'), toClient'[i].attach = "success" PROVE HasNumber(i)'
      <3>1. i \in 1 .. Len(toClient)
        BY <1>15, <1>16, <2>5
      <3>2. HasNumber(i) /\ i \in 0 .. Len(toClient)
        <4>1. toClient[i].attach = "success"
          BY <1>16, <2>5, <3>1
        <4>2. QED BY <1>1, <3>1, <4>1 DEF Unsynced, Sizes
      <3>3. \A n \in 0 .. Len(toClient) : HasNumber(n) => HasNumber(n)'
        BY <1>1, <1>3, <1>14, HasNumberAppend
      <3>4. QED BY <3>2, <3>3
    <2>6. QED BY <1>3, <1>9, <1>10, <2>1, <2>2, <2>3, <2>4, <2>5 DEF Unsynced
  <1>20. QED BY <1>3, <1>11, <1>12, <1>13, <1>17, <1>18, <1>19 DEF Order
-----------------------------------------------------------------------------
(* News of the server's own: of no request, and no number. *)
LEMMA OrderNews ==
  ASSUME TypeOK, TypeOK', Order, NEW news \in ServerSyncs, Push(news),
         news.id = 0, ~news.event, news.number = NONE,
         UNCHANGED <<manager, accepted, delivered, requestId, toServer, link>>,
         server'.last = server.last, server'.session = server.session
  PROVE  Order'
  <1>1. Sizes /\ Kinds /\ Sizes' /\ Kinds'
    BY Basics, BasicsNext DEF Basic
  <1>2. UNCHANGED Core
    BY DEF Core
  <1>3. QuietBlocks'
    BY BlocksStayQuiet
  <1>4. CASE ~server.session
    <2>1. toClient' = toClient
      BY <1>4 DEF Push
    <2>2. QED BY <1>2, <1>3, <2>1, NothingMoves
  <1>5. CASE server.session
    <2>1. toClient' = Append(toClient, news)
      BY <1>5 DEF Push
    <2>2. /\ \A j \in 1 .. Len(toClient) : toClient'[j] = toClient[j]
          /\ \A j \in 1 .. Len(toClient') : \/ j \in 1 .. Len(toClient)
                                            \/ j = Len(toClient) + 1 /\ toClient'[j] = news
      BY <1>1, <2>1, AnswerAppend DEF Kinds
    <2>3. /\ Out' = Out /\ Behind' = Behind /\ SentEnd' = SentEnd
          /\ InLine' /\ Wire' /\ manager'.awaiting <= requestId' /\ RequestsMatched'
          /\ Numbering => Numbering'
      BY <1>2, CoreStays
    <2>4. AnswersMatched'
      <3>1. 0 <= requestId /\ AnswersMatched
        BY <1>1 DEF Order, Matched, Sizes
      <3>2. QED BY <2>2, <2>3, <3>1 DEF AnswersMatched
    <2>5. Matched'
      BY <2>3, <2>4 DEF Order, Matched
    <2>6. Unsynced => Unsynced'
      <3> SUFFICES ASSUME Unsynced PROVE Unsynced'
        OBVIOUS
      <3>1. NumberOnItsWay'
        BY <1>1, <1>5, <2>1, HasNumberAppend DEF Unsynced
      <3>2. ASSUME NEW i \in 1 .. Len(toClient'), toClient'[i].attach = "success" PROVE HasNumber(i)'
        <4>1. CASE i \in 1 .. Len(toClient)
          <5>1. toClient[i].attach = "success"
            BY <2>2, <3>2, <4>1
          <5>2. HasNumber(i) /\ i \in 0 .. Len(toClient)
            BY <1>1, <4>1, <5>1 DEF Unsynced, Sizes
          <5>3. \A n \in 0 .. Len(toClient) : HasNumber(n) => HasNumber(n)'
            BY <1>1, <2>1, HasNumberAppend
          <5>4. QED BY <5>2, <5>3
        <4>2. CASE i = Len(toClient) + 1
          <5>1. i = Len(toClient')
            BY <1>1, <2>1, <4>2, AnswerAppend DEF Kinds
          <5>2. QED BY <3>1, <5>1 DEF NumberOnItsWay, HasNumber
        <4>3. QED BY <2>2, <4>1, <4>2
      <3>3. \A j \in 1 .. Len(toClient') : toClient'[j].number # NONE => toClient'[j].number = server.last
        BY <2>2 DEF Unsynced
      <3>4. QED BY <2>3, <3>1, <3>2, <3>3 DEF Unsynced
    <2>7. QED BY <1>3, <2>3, <2>5, <2>6 DEF Order
  <1>6. QED BY <1>4, <1>5

LEMMA VersionType == TypeOK => server.version + 1 \in Nat
  BY DEF TypeOK, Servers

LEMMA OrderPushes == ASSUME TypeOK, TypeOK', Order, Verify \/ Notify \/ Publish PROVE Order'
  <1>1. server'.last = server.last /\ server'.session = server.session
    BY DEF Verify, Notify, Publish, TypeOK, Servers
  <1>2. UNCHANGED <<manager, accepted, delivered, requestId, toServer, link>>
    BY DEF Verify, Notify, Publish, managers, ghosts
  <1>3. \A a \in Attachments : LET news == [NoNews EXCEPT !.attach = a] IN
          news \in ServerSyncs /\ news.id = 0 /\ ~news.event /\ news.number = NONE
    BY NewsType DEF NoNews
  <1>4. CASE Verify
    <2>1. PICK ok \in BOOLEAN : Push([NoNews EXCEPT !.attach = IF ok THEN "success" ELSE "failure"])
      BY <1>4 DEF Verify
    <2>2. (IF ok THEN "success" ELSE "failure") \in Attachments
      BY DEF Attachments
    <2>3. QED BY <1>1, <1>2, <1>3, <2>1, <2>2, OrderNews
  <1>5. CASE Notify
    <2>1. Push([NoNews EXCEPT !.attach = IF server.attached THEN "detached" ELSE "attached"])
      BY <1>5 DEF Notify
    <2>2. (IF server.attached THEN "detached" ELSE "attached") \in Attachments
      BY DEF Attachments
    <2>3. QED BY <1>1, <1>2, <1>3, <2>1, <2>2, OrderNews
  <1>6. CASE Publish
    <2>1. server.version + 1 \in Nat
      BY VersionType
    <2> DEFINE v == server.version + 1
               news == [NoNews EXCEPT !.config = <<v, v>>]
    <2>2. news \in ServerSyncs /\ news.id = 0 /\ ~news.event /\ news.number = NONE
      <3> HIDE DEF v
      <3>1. v \in Nat
        BY <2>1 DEF v
      <3>2. news \in ServerSyncs
        BY <3>1, NewsType
      <3>3. news.id = 0 /\ news.event = FALSE /\ news.number = NONE
        BY DEF NoNews
      <3>4. QED BY <3>2, <3>3
    <2>3. Push(news)
      BY <1>6 DEF Publish
    <2> HIDE DEF news
    <2>4. QED BY <1>1, <1>2, <2>2, <2>3, OrderNews
  <1>7. QED BY <1>4, <1>5, <1>6
-----------------------------------------------------------------------------
(* An answer is handled. *)

LEMMA ListenersEffect ==
  ASSUME NEW m \in EventManagers, NEW ids
  PROVE  /\ \A f \in {FindListeners(m), AnswerListeners(m, ids)} :
              f.synced = m.synced /\ f.seq = m.seq /\ f.sent = m.sent /\ f.pending = m.pending
              /\ f.awaiting = m.awaiting /\ f.blocks = m.blocks
         /\ m.requests = {} => AnswerListeners(m, ids).requests = {}
  BY DEF FindListeners, AnswerListeners, EventManagers

LEMMA AcknowledgeEffect ==
  ASSUME NEW m \in EventManagers, NEW id
  PROVE  LET k == Acknowledge(m, id) IN
         /\ k.synced = m.synced /\ k.seq = m.seq /\ k.pending = m.pending
         /\ k.blocks = m.blocks /\ k.requests = m.requests
         /\ id = m.awaiting => k.sent = <<>> /\ k.awaiting = NO_REQUEST
         /\ id # m.awaiting => k.sent = m.sent /\ k.awaiting = m.awaiting
  BY DEF Acknowledge, EventManagers

LEMMA SynchronizeEffect ==
  ASSUME NEW m \in EventManagers, NEW number \in Nat
  PROVE  LET k == Synchronize(m, number) IN
         /\ k.sent = m.sent /\ k.awaiting = m.awaiting /\ k.blocks = m.blocks /\ k.requests = m.requests
         /\ k.synced = TRUE
         /\ m.synced => k.seq = m.seq /\ k.pending = m.pending
         /\ ~m.synced /\ m.seq = number => k.seq = m.seq /\ k.pending = m.pending
         /\ ~m.synced /\ m.seq # number =>
              k.seq = number + Len(m.pending) /\ k.pending = Renumbered(m.pending, number)
  BY DEF Synchronize, EventManagers

(* What the handling of an answer comes to. *)
SentForgotten(id) ==
  IF id = manager.awaiting THEN manager'.sent = <<>> /\ manager'.awaiting = NO_REQUEST
  ELSE manager'.sent = manager.sent /\ manager'.awaiting = manager.awaiting

Renumbers(number) ==
  IF manager.seq = number
  THEN manager'.seq = manager.seq /\ manager'.pending = manager.pending
  ELSE manager'.seq = number + Len(manager.pending)
       /\ manager'.pending = Renumbered(manager.pending, number)

LEMMA Handled ==
  ASSUME TypeOK, NEW a \in ServerSyncs, manager' = HandleAttach(a, HandleEvents(a))
  PROVE  /\ manager'.blocks = manager.blocks
         /\ a.attach # "success" /\ manager.requests = {} => manager'.requests = {}
         /\ ~a.event => /\ manager'.sent = manager.sent /\ manager'.awaiting = manager.awaiting
                        /\ manager'.seq = manager.seq /\ manager'.pending = manager.pending
                        /\ manager'.synced = manager.synced
         /\ a.event => SentForgotten(a.id)
         /\ a.event /\ (a.number = NONE \/ manager.synced) =>
              /\ manager'.seq = manager.seq /\ manager'.pending = manager.pending
              /\ manager'.synced = manager.synced
         /\ a.event /\ a.number # NONE /\ ~manager.synced => manager'.synced = TRUE /\ Renumbers(a.number)
  <1> DEFINE s == IF a.number = NONE THEN manager ELSE Synchronize(manager, a.number)
             k == Acknowledge(s, a.id)
             l == AnswerListeners(k, a.listeners)
             h == HandleEvents(a)
  <1>1. manager \in EventManagers /\ a.id \in Nat /\ a.number \in Nat \cup {NONE}
    BY NewsFields DEF TypeOK
  <1>2. /\ s \in EventManagers
        /\ s.sent = manager.sent /\ s.awaiting = manager.awaiting /\ s.blocks = manager.blocks
        /\ s.requests = manager.requests
        /\ a.number = NONE \/ manager.synced =>
             s.seq = manager.seq /\ s.pending = manager.pending /\ s.synced = manager.synced
        /\ a.number # NONE /\ ~manager.synced =>
             /\ s.synced = TRUE
             /\ manager.seq = a.number => s.seq = manager.seq /\ s.pending = manager.pending
             /\ manager.seq # a.number =>
                  s.seq = a.number + Len(manager.pending) /\ s.pending = Renumbered(manager.pending, a.number)
    <2>1. CASE a.number = NONE
      BY <1>1, <2>1
    <2>2. CASE a.number # NONE
      <3>1. a.number \in Nat /\ s = Synchronize(manager, a.number)
        BY <1>1, <2>2
      <3> HIDE DEF s
      <3>2. Synchronize(manager, a.number) \in EventManagers
        BY <1>1, <3>1, SynchronizeType
      <3>3. manager.synced \in BOOLEAN
        BY <1>1, ManagerFields
      <3>4. QED BY <1>1, <2>2, <3>1, <3>2, <3>3, SynchronizeEffect
    <2>3. QED BY <2>1, <2>2
  <1>3. h = IF ~a.event THEN manager ELSE l
    BY DEF HandleEvents
  <1> HIDE DEF s
  <1>4. /\ k \in EventManagers
        /\ k.synced = s.synced /\ k.seq = s.seq /\ k.pending = s.pending
        /\ k.blocks = s.blocks /\ k.requests = s.requests
        /\ a.id = s.awaiting => k.sent = <<>> /\ k.awaiting = NO_REQUEST
        /\ a.id # s.awaiting => k.sent = s.sent /\ k.awaiting = s.awaiting
    BY <1>2, AcknowledgeType, AcknowledgeEffect
  <1> HIDE DEF k
  <1>5. /\ l \in EventManagers
        /\ l.synced = k.synced /\ l.seq = k.seq /\ l.sent = k.sent /\ l.pending = k.pending
        /\ l.awaiting = k.awaiting /\ l.blocks = k.blocks
        /\ k.requests = {} => l.requests = {}
    BY <1>4, AnswerListenersType, ListenersEffect
  <1> HIDE DEF l
  <1>6. h \in EventManagers
    BY <1>1, <1>3, <1>5
  <1>7. manager' = IF a.attach = "success" THEN FindListeners(h) ELSE h
    BY DEF HandleAttach
  <1> HIDE DEF h
  <1>8. /\ manager'.synced = h.synced /\ manager'.seq = h.seq /\ manager'.sent = h.sent
        /\ manager'.pending = h.pending /\ manager'.awaiting = h.awaiting /\ manager'.blocks = h.blocks
        /\ a.attach # "success" => manager'.requests = h.requests
    BY <1>6, <1>7, ListenersEffect
  <1>9. CASE ~a.event
    BY <1>3, <1>8, <1>9
  <1>10. CASE a.event
    <2>1. SentForgotten(a.id)
      BY <1>2, <1>3, <1>4, <1>5, <1>8, <1>10 DEF SentForgotten
    <2>2. a.number # NONE /\ ~manager.synced => manager'.synced = TRUE /\ Renumbers(a.number)
      BY <1>2, <1>3, <1>4, <1>5, <1>8, <1>10 DEF Renumbers
    <2>3. QED BY <1>2, <1>3, <1>4, <1>5, <1>8, <1>10, <2>1, <2>2
  <1>11. QED BY <1>9, <1>10

LEMMA AnswerTaken ==
  ASSUME Kinds, toClient # <<>>, toClient' = Tail(toClient)
  PROVE  /\ Head(toClient) = toClient[1] /\ 1 \in 1 .. Len(toClient)
         /\ \A j \in 1 .. Len(toClient') : j + 1 \in 1 .. Len(toClient) /\ toClient'[j] = toClient[j + 1]
         /\ toClient[1].number = NONE =>
              /\ \A n \in 0 .. Len(toClient') : HasNumber(n + 1) => HasNumber(n)'
              /\ NumberOnItsWay => NumberOnItsWay'
  <1> DEFINE t == toClient'
  <1>0. PICK k : k = Len(toClient')
    OBVIOUS
  <1>1. /\ Head(toClient) = toClient[1] /\ k = Len(toClient) - 1 /\ Len(toClient) \in Nat \ {0}
        /\ \A j \in 1 .. Len(toClient) - 1 : t[j] = toClient[j + 1]
    BY <1>0, HeadTail DEF Kinds
  <1> HIDE DEF t
  <1>2. k \in Nat /\ Len(toClient) = k + 1
    BY <1>1
  <1>3. \A j \in 1 .. k : j + 1 \in 1 .. Len(toClient) /\ t[j] = toClient[j + 1]
    BY <1>1, <1>2
  <1>4. ASSUME toClient[1].number = NONE, NEW n \in 0 .. k, HasNumber(n + 1) PROVE HasNumber(n)'
    <2>1. PICK i \in 1 .. n + 1 : toClient[i].number # NONE
      BY <1>4 DEF HasNumber
    <2>2. i - 1 \in 1 .. n /\ i - 1 \in 1 .. k /\ (i - 1) + 1 = i
      BY <1>2, <1>4, <2>1
    <2>3. t[i - 1].number # NONE
      BY <1>3, <2>1, <2>2
    <2>4. QED BY <2>2, <2>3 DEF HasNumber, t
  <1>5. ASSUME toClient[1].number = NONE, NumberOnItsWay PROVE NumberOnItsWay'
    <2>1. k \in 0 .. k /\ HasNumber(k + 1)
      BY <1>2, <1>5 DEF NumberOnItsWay
    <2>2. HasNumber(k)'
      BY <1>4, <1>5, <2>1
    <2>3. QED BY <1>0, <2>2 DEF NumberOnItsWay, HasNumber
  <1>6. 1 \in 1 .. Len(toClient)
    BY <1>1
  <1>7. QED BY <1>0, <1>1, <1>3, <1>4, <1>5, <1>6 DEF t

(* The answer is of no interest to the events. *)
LEMMA OrderIgnores ==
  ASSUME Kinds, Order, UNCHANGED Core, QuietBlocks', toClient # <<>>, toClient' = Tail(toClient),
         UNCHANGED <<link, server>>,
         manager.synced \/ (toClient[1].number = NONE /\ manager'.requests = {})
  PROVE  Order'
  <1>1. /\ manager'.seq = manager.seq /\ manager'.sent = manager.sent /\ manager'.synced = manager.synced
        /\ manager'.awaiting = manager.awaiting /\ requestId' = requestId /\ toServer' = toServer
    BY DEF Core
  <1>2. /\ Out' = Out /\ Behind' = Behind /\ SentEnd' = SentEnd
        /\ InLine' /\ Wire' /\ manager'.awaiting <= requestId' /\ RequestsMatched'
        /\ Numbering => Numbering'
    BY CoreStays
  <1>3. \A j \in 1 .. Len(toClient') : j + 1 \in 1 .. Len(toClient) /\ toClient'[j] = toClient[j + 1]
    BY AnswerTaken
  <1>4. AnswersMatched' /\ Matched'
    BY <1>1, <1>2, <1>3 DEF Order, Matched, AnswersMatched
  <1>5. ASSUME ~manager.synced PROVE Unsynced'
    <2>1. Unsynced /\ toClient[1].number = NONE /\ manager'.requests = {}
      BY <1>5 DEF Order
    <2>2. server.session => NumberOnItsWay'
      BY <2>1, AnswerTaken DEF Unsynced
    <2>3. ASSUME NEW i \in 1 .. Len(toClient'), toClient'[i].attach = "success" PROVE HasNumber(i)'
      <3>1. HasNumber(i + 1)
        BY <1>3, <2>1, <2>3 DEF Unsynced
      <3>2. i \in 0 .. Len(toClient')
        OBVIOUS
      <3>3. QED BY <2>1, <3>1, <3>2, AnswerTaken
    <2>4. \A j \in 1 .. Len(toClient') : toClient'[j].number # NONE => toClient'[j].number = server.last
      BY <1>3, <2>1 DEF Unsynced
    <2>5. QED BY <1>1, <1>2, <2>1, <2>2, <2>3, <2>4 DEF Unsynced
  <1>6. QED BY <1>1, <1>2, <1>4, <1>5 DEF Order

(* What was sent and has been answered is forgotten: the list of what is   *)
(* held loses its beginning, which the last number sent cuts off.          *)
LEMMA NumbersSuffix ==
  ASSUME NEW p \in Seq(Event), NEW q \in Seq(Event), NEW s \in Int, NEW seq \in Nat, NEW n \in Nat,
         NumbersOf(p \o q, seq, n), Cut(p \o q, s, s + Len(p))
  PROVE  NumbersOf(q, seq, n)
  <1> DEFINE t == p \o q
             l == Len(p)
             e == s + l
  <1>1. /\ t \in Seq(Event) /\ l \in Nat /\ Len(q) \in Nat
        /\ \A i \in 1 .. l : i \in 1 .. Len(t) /\ t[i] = p[i]
        /\ \A i \in 1 .. Len(q) : l + i \in 1 .. Len(t) /\ t[l + i] = q[i]
        /\ \A i \in 1 .. Len(t) : (i \in 1 .. l /\ t[i] = p[i]) \/ (i - l \in 1 .. Len(q) /\ t[i] = q[i - l])
    BY EventsConcat
  <1>2. Missing(t) = Missing(p) + Missing(q)
    BY MissingConcat
  <1>3. /\ seq + Missing(t) = n
        /\ \A i \in 1 .. Len(t) : t[i].num <= seq
        /\ (\E i \in 1 .. Len(t) : t[i].num # UNNUMBERED) => \E i \in 1 .. Len(t) : t[i].num = seq
    BY DEF NumbersOf
  <1>4. \A i \in 1 .. Len(t) : After(t[i], e) <=> s + i > e
    BY DEF Cut
  <1>5. e \in Int /\ e = s + l
    BY <1>1
  <1> HIDE DEF t, l, e
  <1>6. \A i \in 1 .. l : p[i] \in Event /\ ~After(p[i], e)
    <2> SUFFICES ASSUME NEW i \in 1 .. l PROVE p[i] \in Event /\ ~After(p[i], e)
      OBVIOUS
    <2>1. ~(s + i > e)
      BY <1>1, <1>5
    <2>2. p[i] \in Event
      BY DEF l
    <2>3. QED BY <1>1, <1>4, <2>1, <2>2
  <1>7. \A i \in 1 .. Len(q) : q[i] \in Event /\ After(q[i], e)
    <2> SUFFICES ASSUME NEW i \in 1 .. Len(q) PROVE q[i] \in Event /\ After(q[i], e)
      OBVIOUS
    <2>1. s + (l + i) > e
      BY <1>1, <1>5
    <2>2. QED BY <1>1, <1>4, <2>1
  <1>8. Missing(p) = 0
    <2>1. \A i \in 1 .. Len(p) : p[i].num # UNNUMBERED
      BY <1>6 DEF After, l
    <2>2. QED BY <2>1, NoneMissing
  <1>9. seq + Missing(q) = n
    BY <1>2, <1>3, <1>8, MissingType
  <1>10. \A i \in 1 .. Len(q) : q[i].num <= seq
    BY <1>1, <1>3
  <1>11. ASSUME NEW i \in 1 .. Len(q), q[i].num # UNNUMBERED PROVE \E j \in 1 .. Len(q) : q[j].num = seq
    <2>1. q[i].num > e /\ q[i].num <= seq /\ q[i].num \in Int
      BY <1>7, <1>10, <1>11, EventNumber DEF After
    <2>2. l + i \in 1 .. Len(t) /\ t[l + i].num # UNNUMBERED
      BY <1>1, <1>11
    <2>3. PICK j \in 1 .. Len(t) : t[j].num = seq
      BY <1>3, <2>2
    <2>4. ~(j \in 1 .. l /\ t[j] = p[j])
      <3> SUFFICES ASSUME j \in 1 .. l, t[j] = p[j] PROVE FALSE
        OBVIOUS
      <3>1. p[j].num <= e
        BY <1>5, <1>6, EventNumber DEF After
      <3>2. p[j].num = seq
        BY <2>3
      <3>3. QED BY <1>5, <2>1, <3>1, <3>2
    <2>5. j - l \in 1 .. Len(q) /\ q[j - l].num = seq
      BY <1>1, <2>3, <2>4
    <2>6. QED BY <2>5
  <1>12. Quiet(q) => seq + Len(q) = n
    BY <1>9, AllMissing DEF Quiet
  <1>13. QED BY <1>9, <1>10, <1>11, <1>12 DEF NumbersOf

LEMMA PlacedSuffix ==
  ASSUME NEW p \in Seq(Event), NEW q \in Seq(Event), NEW s \in Int, NEW acc, Placed(p \o q, s, acc)
  PROVE  Placed(q, s + Len(p), acc)
  <1> SUFFICES ASSUME NEW i \in 1 .. Len(q) PROVE q[i].id = acc[(s + Len(p)) + i]
    BY DEF Placed
  <1>1. (p \o q)[Len(p) + i] = q[i] /\ Len(p) + i \in 1 .. Len(p \o q) /\ Len(p) \in Nat
    BY EventsConcat
  <1>2. s + (Len(p) + i) = (s + Len(p)) + i
    BY <1>1
  <1>3. QED BY <1>1, <1>2 DEF Placed

LEMMA OrderForgets ==
  ASSUME Sizes, Kinds, Parts, Sizes', Kinds', Order, manager.synced, QuietBlocks',
         toClient # <<>>, toClient' = Tail(toClient), toClient[1].event, toClient[1].id = manager.awaiting,
         manager'.seq = manager.seq, manager'.pending = manager.pending, manager'.synced = manager.synced,
         manager'.sent = <<>>, manager'.awaiting = NO_REQUEST,
         UNCHANGED <<accepted, delivered, requestId, toServer, link, server>>
  PROVE  Order'
  <1>1. InLine /\ Wire /\ Matched /\ Numbering
    BY DEF Order
  <1>2. Out = manager.sent \o manager.pending /\ Out' = manager.pending
    <2>1. <<>> \o manager.pending = manager.pending
      BY DEF Kinds
    <2>2. QED BY <2>1 DEF Out, Outgoing
  <1>3. Behind' = SentEnd /\ SentEnd' = SentEnd
    <2>1. Len(manager'.sent) = 0
      OBVIOUS
    <2>2. Behind' = Len(accepted) - Len(manager.pending)
      BY <1>2 DEF Behind
    <2>3. Behind' = SentEnd
      BY <2>2 DEF SentEnd, Behind, Sizes, Parts
    <2>4. QED BY <2>1, <2>3 DEF SentEnd, Sizes
  <1>4. SentEnd <= server.last
    <2>1. 1 \in 1 .. Len(toClient)
      BY AnswerTaken
    <2>2. QED BY <1>1, <2>1 DEF Matched, AnswersMatched
  <1>5. Behind \in Int /\ SentEnd = Behind + Len(manager.sent)
    BY DEF Sizes, SentEnd
  <1>6. ASSUME NEW b \in Int, Boundary(b) PROVE BoundaryOf(Out', Behind', manager'.seq, b)
    <2>1. b <= manager.seq /\ Cut(manager.sent \o manager.pending, Behind, b)
      BY <1>2, <1>6 DEF Boundary, BoundaryOf
    <2>2. Cut(manager.pending, Behind + Len(manager.sent), b)
      BY <1>5, <2>1, CutSuffix DEF Kinds
    <2>3. QED BY <1>2, <1>3, <1>5, <2>1, <2>2 DEF BoundaryOf
  <1>7. InLine'
    <2>1. Placed(manager.pending, Behind + Len(manager.sent), accepted)
      BY <1>1, <1>2, <1>5, PlacedSuffix DEF Kinds, InLine
    <2>2. 0 <= SentEnd
      BY <1>1, <1>5 DEF InLine, Sizes
    <2>3. QED BY <1>1, <1>2, <1>3, <1>4, <1>5, <2>1, <2>2 DEF InLine
  <1>8. Wire'
    <2>1. ASSUME NEW j \in 1 .. Len(toServer) PROVE OnWire(toServer[j].events)'
      <3>1. PICK w : w = toServer[j].events
        OBVIOUS
      <3>2. OnWire(w)
        BY <1>1, <3>1 DEF Wire
      <3>3. w # <<>> => End(w) \in Int /\ Boundary(End(w))
        BY <3>2 DEF OnWire
      <3>4. w # <<>> => BoundaryOf(Out', Behind', manager'.seq, End(w))
        BY <1>6, <3>3
      <3>5. OnWire(w)'
        BY <3>2, <3>4 DEF OnWire, Boundary
      <3>6. QED BY <3>1, <3>5 DEF OnWire
    <2>2. QED BY <1>1, <2>1 DEF Wire
  <1>9. Matched'
    <2>1. \A j \in 1 .. Len(toServer) : toServer[j].id # NO_REQUEST
      BY MessageFields DEF NO_REQUEST
    <2>2. \A j \in 1 .. Len(toClient) : toClient[j].id # NO_REQUEST
      BY AnswerFields DEF NO_REQUEST
    <2>3. \A j \in 1 .. Len(toClient') : j + 1 \in 1 .. Len(toClient) /\ toClient'[j] = toClient[j + 1]
      BY AnswerTaken
    <2>4. RequestsMatched'
      BY <1>1, <2>1 DEF Matched, RequestsMatched, Awaited
    <2>5. AnswersMatched'
      BY <1>1, <2>2, <2>3 DEF Matched, AnswersMatched
    <2>6. NO_REQUEST <= requestId
      BY DEF NO_REQUEST, Sizes
    <2>7. QED BY <1>1, <2>4, <2>5, <2>6 DEF Matched
  <1>10. Numbering'
    <2>1. NumbersOf(manager.pending, manager.seq, Len(accepted))
      <3>1. NumbersOf(manager.sent \o manager.pending, manager.seq, Len(accepted))
        BY <1>1, <1>2 DEF Numbering
      <3>2. Cut(manager.sent \o manager.pending, Behind, Behind + Len(manager.sent))
        BY <1>1, <1>2, <1>5 DEF Numbering, Boundary, BoundaryOf
      <3>3. QED BY <1>5, <3>1, <3>2, NumbersSuffix DEF Kinds, Sizes
    <2>2. BoundaryOf(Out', Behind', manager'.seq, server.last) /\ BoundaryOf(Out', Behind', manager'.seq, SentEnd)
      BY <1>1, <1>6 DEF Numbering, Sizes
    <2>3. QED BY <1>2, <1>3, <2>1, <2>2 DEF Numbering, Boundary
  <1>11. QED BY <1>7, <1>8, <1>9, <1>10 DEF Order

(* The endpoint learns the server's number, which is how many events were  *)
(* forgotten: all that have been accepted since wait, without a number.    *)
LEMMA NumbersStart ==
  ASSUME Sizes, Kinds', Quiet(manager.pending), manager.pending \in Seq(Event), manager.seq = 0,
         NEW number \in Nat, Renumbers(number), number + Len(manager.pending) = Len(accepted)
  PROVE  /\ Len(manager'.pending) = Len(manager.pending)
         /\ \A i \in 1 .. Len(manager.pending) : /\ manager'.pending[i].id = manager.pending[i].id
                                                /\ After(manager'.pending[i], number)
         /\ NumbersOf(manager'.pending, manager'.seq, Len(accepted)) /\ number <= manager'.seq
  <1> DEFINE q == manager.pending
             r == manager'.pending
  <1>1. Len(q) \in Nat /\ q \in Seq(Event) /\ r \in Seq(Event)
    BY DEF Sizes, Kinds
  <1>2. Quiet(q)
    OBVIOUS
  <1>3. CASE number = 0
    <2>1. r = q /\ manager'.seq = 0
      BY <1>3 DEF Renumbers
    <2>2. Missing(q) = Len(q)
      BY <1>1, <1>2, AllMissing DEF Quiet
    <2>3. \A i \in 1 .. Len(q) : q[i].num = UNNUMBERED
      BY <1>2 DEF Quiet
    <2> HIDE DEF q, r
    <2>4. Len(q) = Len(accepted)
      BY <1>1, <1>3 DEF q, Sizes
    <2>5. NumbersOf(q, 0, Len(accepted))
      BY <1>1, <2>2, <2>3, <2>4 DEF NumbersOf, UNNUMBERED
    <2>6. QED BY <1>3, <2>1, <2>3, <2>5 DEF After, q, r
  <1>4. CASE number # 0
    <2>1. r = Renumbered(q, number) /\ manager'.seq = number + Len(q)
      BY <1>4 DEF Renumbers
    <2>2. Len(r) = Len(q) /\ \A i \in 1 .. Len(q) : r[i].id = q[i].id /\ r[i].num = number + i
      <3> HIDE DEF q, r
      <3>1. QED BY <1>1, <2>1, RenumberedType
    <2> HIDE DEF q, r
    <2>3. number + Len(q) = Len(accepted)
      BY DEF q
    <2>4. \A i \in 1 .. Len(q) : r[i].num # UNNUMBERED /\ r[i].num > number /\ r[i].num <= number + Len(q)
      BY <1>1, <2>2 DEF UNNUMBERED
    <2>5. Missing(r) = 0
      BY <1>1, <2>2, <2>4, NoneMissing
    <2>6. NumbersOf(r, number + Len(q), number + Len(q))
      <3>1. (\E i \in 1 .. Len(r) : r[i].num # UNNUMBERED) => \E i \in 1 .. Len(r) : r[i].num = number + Len(q)
        <4> SUFFICES ASSUME NEW i \in 1 .. Len(q) PROVE \E j \in 1 .. Len(q) : r[j].num = number + Len(q)
          BY <2>2
        <4>1. Len(q) \in 1 .. Len(q)
          BY <1>1
        <4>2. QED BY <2>2, <4>1
      <3>2. Quiet(r) => Len(r) = 0
        <4> SUFFICES ASSUME Quiet(r), Len(r) # 0 PROVE FALSE
          OBVIOUS
        <4>1. 1 \in 1 .. Len(r)
          BY <1>1, <2>2
        <4>2. QED BY <2>2, <2>4, <4>1 DEF Quiet
      <3>3. \A i \in 1 .. Len(r) : r[i].num <= number + Len(q)
        BY <2>2, <2>4
      <3>4. QED BY <1>1, <2>2, <2>5, <3>1, <3>2, <3>3 DEF NumbersOf
    <2>7. number <= number + Len(q)
      BY <1>1
    <2>8. QED BY <2>1, <2>2, <2>3, <2>4, <2>6, <2>7 DEF After, q, r
  <1>5. QED BY <1>3, <1>4

LEMMA OrderNumbers ==
  ASSUME Sizes, Kinds, Parts, Sizes', Kinds', Order, ~manager.synced, QuietBlocks',
         toClient # <<>>, toClient' = Tail(toClient), toClient[1].number # NONE,
         manager'.synced = TRUE, Renumbers(toClient[1].number),
         manager'.sent = manager.sent, manager'.awaiting = manager.awaiting,
         UNCHANGED <<accepted, delivered, requestId, toServer, link, server>>
  PROVE  Order'
  <1>1. InLine /\ Wire /\ Matched /\ Unsynced
    BY DEF Order
  <1>2. PICK number : number = toClient[1].number
    OBVIOUS
  <1>3. number = server.last /\ number = Behind /\ number \in Nat
    <2>1. 1 \in 1 .. Len(toClient)
      BY AnswerTaken
    <2>2. QED BY <1>1, <1>2, <2>1 DEF Unsynced, Sizes
  <1>4. Out = manager.pending /\ Out' = manager'.pending /\ Len(manager.sent) = 0
    <2>1. manager.sent = <<>> /\ manager'.sent = <<>>
      BY <1>1 DEF Unsynced
    <2>2. \A q \in Seq(Event) : <<>> \o q = q
      OBVIOUS
    <2>3. QED BY <2>1, <2>2 DEF Out, Outgoing, Kinds
  <1>5. Quiet(manager.pending) /\ manager.seq = 0
    BY <1>1, <1>4 DEF Unsynced
  <1>6. number + Len(manager.pending) = Len(accepted)
    BY <1>3, <1>4 DEF Behind, Sizes
  <1>7. manager.pending \in Seq(Event) /\ Renumbers(number)
    BY <1>2 DEF Kinds
  <1>8. /\ Len(manager'.pending) = Len(manager.pending)
        /\ \A i \in 1 .. Len(manager.pending) : /\ manager'.pending[i].id = manager.pending[i].id
                                               /\ After(manager'.pending[i], number)
        /\ NumbersOf(manager'.pending, manager'.seq, Len(accepted)) /\ number <= manager'.seq
    BY <1>3, <1>5, <1>6, <1>7, NumbersStart
  <1>9. Behind' = Behind /\ SentEnd' = Behind
    <2>1. Behind' = Behind
      BY <1>4, <1>8 DEF Behind
    <2>2. Len(manager'.sent) = 0
      BY <1>4
    <2>3. QED BY <2>1, <2>2 DEF SentEnd, Sizes
  <1>10. InLine'
    <2>1. Placed(manager'.pending, Behind, accepted)
      BY <1>1, <1>4, <1>8 DEF InLine, Placed
    <2>2. QED BY <1>1, <1>4, <1>9, <2>1 DEF InLine
  <1>11. Wire'
    <2>1. \A j \in 1 .. Len(toServer) : toServer[j].events = <<>>
      BY <1>1 DEF Unsynced
    <2>2. QED BY <2>1 DEF Wire, OnWire, InTurn
  <1>12. Matched'
    <2>1. manager.awaiting = NO_REQUEST
      BY <1>1 DEF Unsynced
    <2>2. \A j \in 1 .. Len(toServer) : toServer[j].id # NO_REQUEST
      BY MessageFields DEF NO_REQUEST
    <2>3. \A j \in 1 .. Len(toClient) : toClient[j].id # NO_REQUEST
      BY AnswerFields DEF NO_REQUEST
    <2>4. \A j \in 1 .. Len(toClient') : j + 1 \in 1 .. Len(toClient) /\ toClient'[j] = toClient[j + 1]
      BY AnswerTaken
    <2>5. RequestsMatched'
      BY <1>1, <2>1, <2>2 DEF Matched, RequestsMatched, Awaited
    <2>6. AnswersMatched'
      BY <1>1, <2>1, <2>3, <2>4 DEF Matched, AnswersMatched
    <2>7. QED BY <1>1, <2>5, <2>6 DEF Matched
  <1>13. Numbering'
    <2>1. Cut(manager'.pending, number, number)
      <3> SUFFICES ASSUME NEW i \in 1 .. Len(manager'.pending)
                   PROVE  After(manager'.pending[i], number) <=> number + i > number
        BY DEF Cut
      <3>1. number + i > number
        BY <1>3
      <3>2. QED BY <1>8, <3>1
    <2>2. BoundaryOf(Out', Behind', manager'.seq, number)
      BY <1>3, <1>4, <1>8, <1>9, <2>1 DEF BoundaryOf
    <2>3. Boundary(server.last)' /\ Boundary(SentEnd)'
      BY <1>3, <1>9, <2>2 DEF Boundary
    <2>4. QED BY <1>4, <1>8, <2>3 DEF Numbering
  <1>14. QED BY <1>10, <1>11, <1>12, <1>13 DEF Order

LEMMA OrderReceive == ASSUME TypeOK, TypeOK', Order, Receive PROVE Order'
  <1>1. Sizes /\ Kinds /\ Parts /\ Sizes' /\ Kinds'
    BY Basics, BasicsNext DEF Basic
  <1>2. PICK a : a = toClient[1]
    OBVIOUS
  <1>3. /\ toClient # <<>> /\ toClient' = Tail(toClient)
        /\ manager' = HandleAttach(Head(toClient), HandleEvents(Head(toClient)))
        /\ UNCHANGED <<accepted, delivered, requestId, toServer, link, server>>
    BY DEF Receive, HandleNews, ghosts
  <1>4. Head(toClient) = toClient[1] /\ 1 \in 1 .. Len(toClient)
    BY <1>1, <1>3, AnswerTaken
  <1>5. a \in ServerSyncs /\ manager' = HandleAttach(a, HandleEvents(a))
    BY <1>1, <1>2, <1>3, <1>4, AnswerFields
  <1>6. /\ manager'.blocks = manager.blocks
        /\ a.attach # "success" /\ manager.requests = {} => manager'.requests = {}
        /\ ~a.event => /\ manager'.sent = manager.sent /\ manager'.awaiting = manager.awaiting
                       /\ manager'.seq = manager.seq /\ manager'.pending = manager.pending
                       /\ manager'.synced = manager.synced
        /\ a.event => SentForgotten(a.id)
        /\ a.event /\ (a.number = NONE \/ manager.synced) =>
             /\ manager'.seq = manager.seq /\ manager'.pending = manager.pending
             /\ manager'.synced = manager.synced
        /\ a.event /\ a.number # NONE /\ ~manager.synced => manager'.synced = TRUE /\ Renumbers(a.number)
    BY <1>5, Handled
  <1>7. QuietBlocks'
    BY <1>6, BlocksStayQuiet
  <1>8. a.id \in Nat /\ a.id # NO_REQUEST /\ (a.number # NONE => a.event)
    BY <1>1, <1>2, <1>4, AnswerFields DEF Order, Matched, AnswersMatched, NO_REQUEST
  <1>9. ~manager.synced => /\ manager.awaiting = NO_REQUEST /\ manager.requests = {}
                           /\ a.attach = "success" => a.number # NONE
    <2> SUFFICES ASSUME ~manager.synced
                 PROVE  /\ manager.awaiting = NO_REQUEST /\ manager.requests = {}
                        /\ a.attach = "success" => a.number # NONE
      OBVIOUS
    <2>1. Unsynced
      BY DEF Order
    <2>2. a.attach = "success" => HasNumber(1)
      BY <1>2, <1>4, <2>1 DEF Unsynced
    <2>3. HasNumber(1) => a.number # NONE
      BY <1>2 DEF HasNumber
    <2>4. QED BY <2>1, <2>2, <2>3 DEF Unsynced
  <1>10. CASE ~manager.synced /\ a.number # NONE
    <2>1. manager'.sent = manager.sent /\ manager'.awaiting = manager.awaiting
      BY <1>6, <1>8, <1>9, <1>10 DEF SentForgotten
    <2>2. QED BY <1>1, <1>2, <1>3, <1>6, <1>7, <1>8, <1>10, <2>1, OrderNumbers
  <1>11. CASE manager.synced /\ a.event /\ a.id = manager.awaiting
    <2>1. manager'.sent = <<>> /\ manager'.awaiting = NO_REQUEST
      BY <1>6, <1>11 DEF SentForgotten
    <2>2. QED BY <1>1, <1>2, <1>3, <1>6, <1>7, <1>11, <2>1, OrderForgets
  <1>12. CASE ~(~manager.synced /\ a.number # NONE) /\ ~(manager.synced /\ a.event /\ a.id = manager.awaiting)
    <2>1. manager'.sent = manager.sent /\ manager'.awaiting = manager.awaiting
      BY <1>6, <1>8, <1>9, <1>12 DEF SentForgotten
    <2>2. /\ manager'.seq = manager.seq /\ manager'.pending = manager.pending
          /\ manager'.synced = manager.synced
      BY <1>6, <1>8, <1>12
    <2>3. UNCHANGED Core
      BY <1>3, <2>1, <2>2 DEF Core
    <2>4. manager.synced \/ (a.number = NONE /\ manager'.requests = {})
      BY <1>6, <1>9, <1>12
    <2>5. QED BY <1>1, <1>2, <1>3, <1>7, <2>3, <2>4, OrderIgnores
  <1>13. QED BY <1>10, <1>11, <1>12
-----------------------------------------------------------------------------
(* Failures. *)

LEMMA OrderDrop == ASSUME TypeOK, Order, Drop PROVE Order'
  <1>1. /\ toServer' = <<>> /\ toClient' = <<>> /\ link' = "down"
        /\ server'.last = server.last /\ server'.session = FALSE
        /\ UNCHANGED <<manager, requestId, accepted, delivered>>
    BY DEF Drop, managers, TypeOK, Servers
  <1>2. Out' = Out /\ Behind' = Behind /\ SentEnd' = SentEnd /\ \A b : Boundary(b) <=> Boundary(b)'
    BY <1>1 DEF Out, Behind, SentEnd, Boundary
  <1>3. Len(toServer') = 0 /\ Len(toClient') = 0
    BY <1>1
  <1>4. InLine'
    BY <1>1, <1>2 DEF Order, InLine
  <1>5. QuietBlocks'
    BY <1>1, BlocksStayQuiet
  <1>6. Wire'
    BY <1>3 DEF Wire
  <1>7. Matched'
    BY <1>1, <1>3 DEF Order, Matched, RequestsMatched, AnswersMatched
  <1>8. Unsynced => Unsynced'
    BY <1>1, <1>2, <1>3 DEF Unsynced
  <1>9. Numbering => Numbering'
    BY <1>1, <1>2 DEF Numbering
  <1>10. QED BY <1>1, <1>4, <1>5, <1>6, <1>7, <1>8, <1>9 DEF Order

LEMMA OrderRestart == ASSUME TypeOK, Order, Restart PROVE Order'
  <1>1. /\ toServer' = <<>> /\ toClient' = <<>> /\ link' = "down" /\ requestId' = 0
        /\ server'.last = server.last /\ server'.session = FALSE
        /\ manager' = NewEventManager /\ accepted' = delivered /\ delivered' = delivered
    BY DEF Restart, TypeOK, Servers
  <1>2. /\ Out' = <<>> /\ Len(Out') = 0 /\ manager'.sent = <<>> /\ manager'.synced = FALSE
        /\ Len(manager'.blocks) = 0 /\ manager'.seq = 0 /\ manager'.awaiting = NO_REQUEST
        /\ manager'.requests = {}
    BY <1>1 DEF Out, Outgoing, NewEventManager
  <1>3. server.last = Len(delivered) /\ server.last \in Nat
    BY Basics DEF Order, InLine, Basic, Sizes
  <1>4. Behind' = server.last
    BY <1>1, <1>2, <1>3 DEF Behind
  <1>5. Len(toServer') = 0 /\ Len(toClient') = 0
    BY <1>1
  <1>6. InLine'
    <2>1. Placed(Out', Behind', accepted')
      BY <1>2 DEF Placed
    <2>2. QED BY <1>1, <1>3, <1>4, <2>1 DEF InLine
  <1>7. QuietBlocks'
    BY <1>2 DEF QuietBlocks
  <1>8. Wire'
    BY <1>5 DEF Wire
  <1>9. Matched'
    BY <1>1, <1>2, <1>5 DEF Matched, RequestsMatched, AnswersMatched, NO_REQUEST
  <1>10. Unsynced'
    <2>1. Quiet(Out')
      BY <1>2 DEF Quiet
    <2>2. QED BY <1>1, <1>2, <1>4, <1>5, <2>1 DEF Unsynced
  <1>11. QED BY <1>2, <1>6, <1>7, <1>8, <1>9, <1>10 DEF Order

(* Every step keeps the order, while request ids do not come round. *)
LEMMA OrderStep ==
  ASSUME Calm, TypeOK, TypeOK', Order, requestId + 1 < RequestIds, [Next]_vars
  PROVE  Order'
  <1>1. CASE UNCHANGED vars
    <2>1. UNCHANGED <<manager, requestId, toServer, toClient, link, server, accepted, delivered>>
      BY <1>1 DEF vars, managers, channel, ghosts
    <2>2. UNCHANGED Core /\ UNCHANGED <<manager.requests, toClient, server.session, link>>
      BY <2>1 DEF Core
    <2>3. QuietBlocks'
      BY <2>1, BlocksStayQuiet
    <2>4. QED BY <2>2, <2>3, NothingMoves
  <1>2. CASE Application
    <2>1. ~LookForListeners
      BY NoMishap DEF LookForListeners
    <2>2. Send \/ OpenBlock \/ AddEvent \/ SendBlock \/ DropBlock \/ Attach
      BY <1>2, <2>1 DEF Application
    <2>3. QED BY <2>2, OrderSend, OrderSendBlock, OrderBlocks
  <1>3. CASE Endpoint
    <2>1. ~ReceiveCorrupt
      BY NoMishap DEF ReceiveCorrupt
    <2>2. Connect \/ Sync \/ Receive
      BY <1>3, <2>1 DEF Endpoint
    <2>3. QED BY <2>2, OrderSyncs, OrderReceive
  <1>4. CASE Server
    BY <1>4, OrderServe, OrderPushes, OrderBlocks DEF Server
  <1>5. CASE Drop \/ Restart
    BY <1>5, OrderDrop, OrderRestart
  <1>6. QED BY <1>1, <1>2, <1>3, <1>4, <1>5 DEF Next
-----------------------------------------------------------------------------
(* Every step is one that EventService allows. *)
Allowed == [Service!Next]_(Service!vars)

LEMMA HeldIds == Out \in Seq(Event) => Held = {Out[i].id : i \in 1 .. Len(Out)}
  <1> SUFFICES ASSUME Out \in Seq(Event) PROVE Held = {Out[i].id : i \in 1 .. Len(Out)}
    OBVIOUS
  <1>1. Held = {Out[i].id : i \in DOMAIN Out}
    BY DEF Held, Out
  <1>2. DOMAIN Out = 1 .. Len(Out)
    OBVIOUS
  <1>3. QED BY <1>1, <1>2

LEMMA HeldIdsNext == Out' \in Seq(Event) => Held' = {Out'[i].id : i \in 1 .. Len(Out')}
  <1>1. (Out \in Seq(Event) => Held = {Out[i].id : i \in 1 .. Len(Out)})'
    BY HeldIds, PTL
  <1>2. QED BY <1>1

LEMMA HeldStays ==
  ASSUME Out \in Seq(Event), Out' \in Seq(Event), Len(Out') = Len(Out),
         \A i \in 1 .. Len(Out) : Out'[i].id = Out[i].id
  PROVE  Held' = Held
  <1> DEFINE p == Out
             q == Out'
  <1>1. Held = {p[i].id : i \in 1 .. Len(p)}
    BY DEF Held, Out
  <1>2. Held' = {q[i].id : i \in 1 .. Len(q)}
    BY DEF Held, Out
  <1> HIDE DEF p, q
  <1>3. {p[i].id : i \in 1 .. Len(p)} = {q[i].id : i \in 1 .. Len(q)}
    BY DEF p, q
  <1>4. QED BY <1>1, <1>2, <1>3

LEMMA Unnoticed == ASSUME Held' = Held, UNCHANGED <<accepted, delivered>> PROVE Allowed
  BY DEF Allowed, Service!vars

LEMMA PrefixByElements ==
  ASSUME NEW S, NEW p \in Seq(S), NEW q \in Seq(S), Len(p) <= Len(q), \A i \in 1 .. Len(p) : p[i] = q[i]
  PROVE  Service!IsPrefix(p, q)
  <1>1. /\ SubSeq(p, 1, Len(p)) = p
        /\ SubSeq(q, 1, Len(p)) \in Seq(S) /\ Len(SubSeq(q, 1, Len(p))) = Len(p)
        /\ \A i \in 1 .. Len(p) : SubSeq(q, 1, Len(p))[i] = q[i]
    BY SubSeqFull
  <1> DEFINE r == SubSeq(q, 1, Len(p))
  <1>2. r = p
    <2> HIDE DEF r
    <2>1. r \in Seq(S) /\ Len(r) = Len(p) /\ \A i \in 1 .. Len(r) : r[i] = p[i]
      BY <1>1 DEF r
    <2>2. QED BY <2>1, SeqEqual
  <1>3. QED BY <1>1, <1>2 DEF Service!IsPrefix

(* More is accepted, and held. *)
LEMMA AcceptAllowed ==
  ASSUME Kinds, Kinds', NEW q \in Seq(Event), Out' = Out \o q, accepted' = accepted \o Ids(q),
         delivered' = delivered
  PROVE  Allowed
  <1> DEFINE ids == Ids(q)
             acc == accepted
  <1>1. ids \in Seq(EventIds) /\ Len(ids) = Len(q) /\ \A i \in 1 .. Len(q) : ids[i] = q[i].id
    BY IdsType
  <1>2. Len(q) \in Nat /\ acc \in Seq(EventIds) /\ Len(acc) \in Nat
    BY DEF Kinds
  <1>3. CASE q = <<>>
    <2>1. Out' = Out
      BY <1>3 DEF Kinds
    <2>2. ids = <<>>
      BY <1>1, <1>3
    <2>3. accepted' = accepted
      BY <1>2, <2>2
    <2>4. Held' = Held
      BY <2>1, HeldStays DEF Kinds
    <2>5. QED BY <2>3, <2>4, Unnoticed
  <1>4. CASE q # <<>>
    <2> HIDE DEF ids
    <2>1. /\ Len(acc \o ids) = Len(acc) + Len(q) /\ acc \o ids \in Seq(EventIds)
          /\ \A i \in 1 .. Len(acc) : (acc \o ids)[i] = acc[i]
      <3>1. ids \in Seq(EventIds) /\ acc \in Seq(EventIds)
        BY <1>1, <1>2
      <3>2. acc \o ids \in Seq(EventIds)
        BY <3>1
      <3>3. QED BY <1>1, <3>1, <3>2, IdsConcat
    <2>2. Len(q) # 0
      BY <1>4
    <2>3. acc # acc \o ids /\ Len(acc) <= Len(acc \o ids)
      BY <1>2, <2>1, <2>2
    <2>4. Service!IsStrictPrefix(acc, acc \o ids)
      BY <1>2, <2>1, <2>3, PrefixByElements DEF Service!IsStrictPrefix
    <2>5. SubSeq(acc \o ids, Len(acc) + 1, Len(acc \o ids)) = ids
      BY <1>1, <1>2
    <2>6. Service!ToSet(ids) = {q[i].id : i \in 1 .. Len(q)}
      <3>1. DOMAIN ids = 1 .. Len(q)
        BY <1>1
      <3>2. QED BY <1>1, <3>1 DEF Service!ToSet
    <2>7. Held' = Held \cup {q[i].id : i \in 1 .. Len(q)}
      <3>1. Held = {Out[i].id : i \in 1 .. Len(Out)} /\ Held' = {Out'[i].id : i \in 1 .. Len(Out')}
        BY HeldIds, HeldIdsNext DEF Kinds
      <3>2. PICK p \in Seq(Event) : p = Out
        BY DEF Kinds
      <3>3. PICK t : t = p \o q
        OBVIOUS
      <3>4. /\ \A i \in 1 .. Len(p) : i \in 1 .. Len(t) /\ t[i] = p[i]
            /\ \A i \in 1 .. Len(q) : Len(p) + i \in 1 .. Len(t) /\ t[Len(p) + i] = q[i]
            /\ \A i \in 1 .. Len(t) : (i \in 1 .. Len(p) /\ t[i] = p[i])
                                       \/ (i - Len(p) \in 1 .. Len(q) /\ t[i] = q[i - Len(p)])
        BY <3>3, EventsConcat
      <3>5. {t[i].id : i \in 1 .. Len(t)} = {p[i].id : i \in 1 .. Len(p)} \cup {q[i].id : i \in 1 .. Len(q)}
        <4>1. ASSUME NEW i \in 1 .. Len(t)
              PROVE  t[i].id \in {p[j].id : j \in 1 .. Len(p)} \cup {q[j].id : j \in 1 .. Len(q)}
          BY <3>4
        <4>2. ASSUME NEW i \in 1 .. Len(p) PROVE p[i].id \in {t[j].id : j \in 1 .. Len(t)}
          BY <3>4
        <4>3. ASSUME NEW i \in 1 .. Len(q) PROVE q[i].id \in {t[j].id : j \in 1 .. Len(t)}
          BY <3>4
        <4>4. QED BY <4>1, <4>2, <4>3
      <3>6. Out' = t
        BY <3>2, <3>3
      <3>7. QED BY <3>1, <3>2, <3>5, <3>6
    <2>8. Service!Accept
      <3>1. Service!ToSet(SubSeq(accepted', Len(accepted) + 1, Len(accepted'))) = {q[i].id : i \in 1 .. Len(q)}
        BY <2>5, <2>6 DEF ids
      <3>2. QED BY <2>4, <2>7, <3>1 DEF Service!Accept, ids
    <2>9. QED BY <2>8 DEF Allowed, Service!Next
  <1>5. QED BY <1>3, <1>4

LEMMA SendAllowed == ASSUME TypeOK, TypeOK', Send \/ SendBlock PROVE Allowed
  <1>1. Kinds /\ Kinds'
    BY Basics, BasicsNext DEF Basic
  <1>2. manager \in EventManagers /\ manager.seq \in Nat
    BY Basics DEF Basic, Kinds, Sizes
  <1>3. ASSUME NEW q \in Seq(Event), manager'.pending = manager.pending \o q, manager'.sent = manager.sent,
               accepted' = accepted \o Ids(q), delivered' = delivered
        PROVE  Allowed
    <2>1. (manager.sent \o manager.pending) \o q = manager.sent \o (manager.pending \o q)
      BY <1>1, EventsAssociate DEF Kinds
    <2>2. Out' = Out \o q
      BY <1>3, <2>1 DEF Out, Outgoing
    <2>3. QED BY <1>1, <1>3, <2>2, AcceptAllowed
  <1>4. CASE Send
    <2> DEFINE e == [id |-> created + 1, num |-> IF manager.synced THEN manager.seq + 1 ELSE UNNUMBERED]
    <2>1. e \in Event /\ e.id = created + 1
      <3>1. created + 1 \in EventIds
        BY <1>4, NextEvent DEF Send
      <3>2. (IF manager.synced THEN manager.seq + 1 ELSE UNNUMBERED) \in Nat \cup {UNNUMBERED}
        BY <1>2
      <3>3. QED BY <3>1, <3>2 DEF Event
    <2>2. manager'.pending = Append(manager.pending, e) /\ manager'.sent = manager.sent
      BY <1>2, <1>4 DEF Send, SendEvent, EventManagers
    <2>3. accepted' = Append(accepted, e.id) /\ delivered' = delivered
      BY <1>4, <2>1 DEF Send
    <2> HIDE DEF e
    <2>4. /\ <<e>> \in Seq(Event) /\ Append(manager.pending, e) = manager.pending \o <<e>>
          /\ Append(accepted, e.id) = accepted \o Ids(<<e>>)
      BY <1>1, <2>1, OneEvent DEF Kinds
    <2>5. QED BY <1>3, <2>2, <2>3, <2>4
  <1>5. CASE SendBlock
    <2>1. PICK i \in DOMAIN manager.blocks :
            manager' = FinishBlock(manager, i) /\ accepted' = accepted \o Ids(manager.blocks[i].events)
      BY <1>5 DEF SendBlock
    <2>2. PICK q : q = manager.blocks[i].events
      OBVIOUS
    <2>3. q \in Seq(Event)
      BY <1>2, <2>2, BlockEvents
    <2>4. manager'.pending = manager.pending \o q /\ manager'.sent = manager.sent
      BY <1>2, <2>1, <2>2 DEF FinishBlock, WithoutBlock, EventManagers
    <2>5. delivered' = delivered
      BY <1>5 DEF SendBlock
    <2>6. QED BY <1>3, <2>1, <2>2, <2>3, <2>4, <2>5
  <1>6. QED BY <1>4, <1>5

(* Events that are written are held as before, with their numbers. *)
LEMMA SyncAllowed ==
  ASSUME TypeOK, TypeOK', Order, Calm, requestId + 1 < RequestIds, Connect \/ Sync
  PROVE  Allowed
  <1>1. Kinds /\ Kinds' /\ manager.seq \in Nat
    BY Basics, BasicsNext DEF Basic, Sizes
  <1>2. ~Happens("memory") /\ \A svcs : ~SerializeFails(svcs)
    BY NoMishap, RequestsSynced DEF SerializeFails
  <1>3. UNCHANGED <<accepted, delivered>>
    BY DEF Connect, Sync
  <1>4. manager' = manager \/ manager' = SerializeEvents(manager, requestId + 1)
    <2>1. PICK svcs : Serialize(svcs)
      BY <1>2 DEF Connect, Sync
    <2>2. QED BY <2>1, NoWrap DEF Serialize
  <1>5. CASE Out' = Out
    <2>1. Held' = Held
      BY <1>1, <1>5, HeldStays DEF Kinds
    <2>2. QED BY <1>3, <2>1, Unnoticed
  <1>6. CASE manager' = SerializeEvents(manager, requestId + 1) /\ WritesEvents(manager)
    <2>1. manager \in EventManagers /\ requestId + 1 \in Nat
      BY NoWrap DEF TypeOK
    <2>2. manager'.sent = Numbered(Out, manager.seq) /\ manager'.pending = <<>>
      BY <1>6, <2>1, Written DEF Out
    <2>3. PICK r : r = Numbered(Out, manager.seq)
      OBVIOUS
    <2>4. r \in Seq(Event) /\ Len(r) = Len(Out) /\ \A i \in 1 .. Len(Out) : r[i].id = Out[i].id
      BY <1>1, <2>3, NumberedNums DEF Kinds
    <2>5. Out' = r
      <3>1. r \o <<>> = r
        BY <2>4
      <3>2. QED BY <2>2, <2>3, <3>1 DEF Out, Outgoing
    <2>6. Held' = Held
      BY <1>1, <2>4, <2>5, HeldStays DEF Kinds
    <2>7. QED BY <1>3, <2>6, Unnoticed
  <1>7. CASE manager' = SerializeEvents(manager, requestId + 1) /\ ~WritesEvents(manager)
    <2>1. manager \in EventManagers /\ requestId + 1 \in Nat
      BY NoWrap DEF TypeOK
    <2>2. manager'.sent = manager.sent /\ manager'.pending = manager.pending
      BY <1>7, <2>1, Written
    <2>3. Out' = Out
      BY <2>2 DEF Out, Outgoing
    <2>4. QED BY <1>5, <2>3
  <1>8. CASE manager' = manager
    BY <1>5, <1>8 DEF Out
  <1>9. QED BY <1>4, <1>6, <1>7, <1>8

(* What is forgotten has arrived: it lies before the last place sent, and  *)
(* the server has reached that.                                            *)
LEMMA ForgetAllowed ==
  ASSUME Sizes, Kinds, Kinds', Order, SentEnd <= server.last, Out = manager.sent \o Out',
         UNCHANGED <<accepted, delivered>>
  PROVE  Allowed
  <1>1. PICK p \in Seq(Event), q \in Seq(Event) : p = manager.sent /\ q = Out'
    BY DEF Kinds
  <1>2. PICK t : t = Out
    OBVIOUS
  <1>3. /\ \A i \in 1 .. Len(q) : Len(p) + i \in 1 .. Len(t) /\ t[Len(p) + i] = q[i]
        /\ \A i \in 1 .. Len(t) : (i \in 1 .. Len(p) /\ t[i] = p[i])
                                  \/ (i - Len(p) \in 1 .. Len(q) /\ t[i] = q[i - Len(p)])
    BY <1>1, <1>2, EventsConcat
  <1>4. Held = {t[i].id : i \in 1 .. Len(t)} /\ Held' = {q[i].id : i \in 1 .. Len(q)}
    BY <1>1, <1>2, HeldIds, HeldIdsNext DEF Kinds
  <1>5. Held' \subseteq Held
    <2>1. ASSUME NEW i \in 1 .. Len(q) PROVE q[i].id \in {t[j].id : j \in 1 .. Len(t)}
      BY <1>3
    <2>2. QED BY <1>4, <2>1
  <1>6. ASSUME NEW i \in 1 .. Len(t), t[i].id \notin {q[j].id : j \in 1 .. Len(q)}
        PROVE  t[i].id \in Service!ToSet(delivered)
    <2>1. i \in 1 .. Len(p)
      BY <1>3, <1>6
    <2>2. InLine /\ SentEnd = Behind + Len(p) /\ Len(p) \in Nat
      BY <1>1 DEF Order, SentEnd
    <2>3. Behind + i \in 1 .. Len(delivered)
      BY <2>1, <2>2 DEF InLine, Sizes
    <2>4. t[i].id = delivered[Behind + i]
      BY <1>2, <2>2, <2>3 DEF InLine, Placed
    <2>5. DOMAIN delivered = 1 .. Len(delivered)
      BY DEF Kinds
    <2>6. QED BY <2>3, <2>4, <2>5 DEF Service!ToSet
  <1>7. Held \ Held' \subseteq Service!ToSet(delivered)
    BY <1>4, <1>6
  <1>8. Service!Forget
    BY <1>5, <1>7 DEF Service!Forget
  <1>9. QED BY <1>8 DEF Allowed, Service!Next

LEMMA ReceiveAllowed == ASSUME TypeOK, TypeOK', Order, Receive PROVE Allowed
  <1>1. Sizes /\ Kinds /\ Kinds'
    BY Basics, BasicsNext DEF Basic
  <1>2. PICK a : a = toClient[1]
    OBVIOUS
  <1>3. /\ toClient # <<>> /\ toClient' = Tail(toClient)
        /\ manager' = HandleAttach(Head(toClient), HandleEvents(Head(toClient)))
        /\ UNCHANGED <<accepted, delivered>>
    BY DEF Receive, HandleNews, ghosts
  <1>4. Head(toClient) = toClient[1] /\ 1 \in 1 .. Len(toClient)
    BY <1>1, <1>3, AnswerTaken
  <1>5. a \in ServerSyncs /\ manager' = HandleAttach(a, HandleEvents(a)) /\ a.id \in Nat
    BY <1>1, <1>2, <1>3, <1>4, AnswerFields
  <1>6. /\ ~a.event => /\ manager'.sent = manager.sent /\ manager'.pending = manager.pending
        /\ a.event => SentForgotten(a.id)
        /\ a.event /\ (a.number = NONE \/ manager.synced) => manager'.pending = manager.pending
        /\ a.event /\ a.number # NONE /\ ~manager.synced => Renumbers(a.number)
    BY <1>5, Handled
  <1>7. CASE manager'.sent = manager.sent /\ manager'.pending = manager.pending
    <2>1. Out' = Out
      BY <1>7 DEF Out, Outgoing
    <2>2. Held' = Held
      BY <1>1, <2>1, HeldStays DEF Kinds
    <2>3. QED BY <1>3, <2>2, Unnoticed
  <1>8. CASE a.event /\ a.id = manager.awaiting
    <2>1. manager.synced
      BY <1>5, <1>8 DEF Order, Unsynced, NO_REQUEST
    <2>2. manager'.sent = <<>> /\ manager'.pending = manager.pending
      BY <1>6, <1>8, <2>1 DEF SentForgotten
    <2>3. <<>> \o manager.pending = manager.pending
      BY <1>1 DEF Kinds
    <2>4. Out = manager.sent \o Out'
      BY <2>2, <2>3 DEF Out, Outgoing
    <2>5. SentEnd <= server.last
      BY <1>2, <1>4, <1>8 DEF Order, Matched, AnswersMatched
    <2>6. QED BY <1>1, <1>3, <2>4, <2>5, ForgetAllowed
  <1>9. CASE a.event /\ a.id # manager.awaiting /\ a.number # NONE /\ ~manager.synced
    <2>1. manager'.sent = <<>> /\ manager.sent = <<>>
      BY <1>6, <1>9 DEF SentForgotten, Order, Unsynced
    <2>2. PICK number \in Nat : number = a.number
      BY <1>1, <1>2, <1>4, <1>9, AnswerFields
    <2>3. PICK p \in Seq(Event) : p = manager.pending
      BY <1>1 DEF Kinds
    <2>4. manager'.pending = p \/ manager'.pending = Renumbered(p, number)
      BY <1>6, <1>9, <2>2, <2>3 DEF Renumbers
    <2>5. PICK r \in Seq(Event) : r = manager'.pending
      BY <1>1 DEF Kinds
    <2>6. Len(r) = Len(p) /\ \A i \in 1 .. Len(p) : r[i].id = p[i].id
      BY <2>4, <2>5, RenumberedType
    <2>7. \A q \in Seq(Event) : <<>> \o q = q
      OBVIOUS
    <2>8. Out = p /\ Out' = r
      BY <2>1, <2>3, <2>5, <2>7 DEF Out, Outgoing
    <2>9. Held' = Held
      BY <2>6, <2>8, HeldStays
    <2>10. QED BY <1>3, <2>9, Unnoticed
  <1>10. QED BY <1>6, <1>7, <1>8, <1>9 DEF SentForgotten

LEMMA ServeAllowed == ASSUME TypeOK, TypeOK', Order, Serve PROVE Allowed
  <1>1. Sizes /\ Kinds /\ Kinds'
    BY Basics, BasicsNext DEF Basic
  <1>2. PICK w : w = Head(toServer).events
    OBVIOUS
  <1>3. toServer # <<>> /\ delivered' = delivered \o Ids(NewEvents(w)) /\ UNCHANGED <<manager, accepted>>
    BY <1>2 DEF Serve, managers
  <1>4. w \in Seq(Event) /\ OnWire(w)
    <2>1. Head(toServer) = toServer[1] /\ 1 \in 1 .. Len(toServer)
      <3>1. Len(toServer) \in Nat \ {0}
        BY <1>1, <1>3, HeadTail DEF Kinds
      <3>2. Head(toServer) = toServer[1]
        BY <1>1, <1>3, HeadTail DEF Kinds
      <3>3. QED BY <3>1, <3>2
    <2>2. QED BY <1>1, <1>2, <2>1, MessageFields DEF Order, Wire
  <1>5. PICK d : d = delivered'
    OBVIOUS
  <1>6. d \in Seq(EventIds) /\ Len(d) <= Len(accepted) /\ server.last <= Len(d)
        /\ \A i \in 1 .. Len(d) : d[i] = accepted[i]
    BY <1>1, <1>3, <1>4, <1>5, Arrives DEF Kinds
  <1>7. InLine
    BY DEF Order
  <1>8. Service!IsPrefix(d, accepted)
    BY <1>1, <1>6, PrefixByElements DEF Kinds
  <1>9. Service!IsPrefix(delivered, d)
    <2>1. Len(delivered) <= Len(d) /\ \A i \in 1 .. Len(delivered) : delivered[i] = d[i]
      BY <1>1, <1>6, <1>7 DEF InLine, Sizes, Kinds
    <2>2. QED BY <1>1, <1>6, <2>1, PrefixByElements DEF Kinds
  <1>10. Held' = Held
    BY <1>3 DEF Held
  <1>11. Service!Arrive
    BY <1>3, <1>5, <1>8, <1>9, <1>10 DEF Service!Arrive
  <1>12. QED BY <1>11 DEF Allowed, Service!Next

LEMMA RestartAllowed == ASSUME Restart PROVE Allowed
  <1>1. manager' = NewEventManager /\ accepted' = delivered /\ delivered' = delivered
    BY DEF Restart
  <1>2. Out' = <<>>
    BY <1>1 DEF Out, Outgoing, NewEventManager
  <1>3. Held' = {}
    BY <1>2 DEF Held, Out
  <1>4. Service!Restart
    BY <1>1, <1>3 DEF Service!Restart
  <1>5. QED BY <1>4 DEF Allowed, Service!Next

LEMMA StepAllowed ==
  ASSUME Calm, TypeOK, TypeOK', Order, requestId + 1 < RequestIds, [Next]_vars
  PROVE  Allowed
  <1>1. manager \in EventManagers
    BY DEF TypeOK
  <1>2. ASSUME manager'.sent = manager.sent, manager'.pending = manager.pending,
               UNCHANGED <<accepted, delivered>>
        PROVE  Allowed
    <2>1. Held' = Held
      BY <1>2 DEF Held, Outgoing
    <2>2. QED BY <1>2, <2>1, Unnoticed
  <1>3. CASE UNCHANGED vars
    BY <1>2, <1>3 DEF vars, managers, ghosts
  <1>4. CASE OpenBlock \/ AddEvent \/ DropBlock \/ Attach
    <2>1. manager'.sent = manager.sent /\ manager'.pending = manager.pending
      BY <1>1, <1>4 DEF OpenBlock, AddEvent, DropBlock, Attach, CreateBlock, AddToBlock, WithoutBlock,
                        EventManagers, managers
    <2>2. UNCHANGED <<accepted, delivered>>
      BY <1>4 DEF OpenBlock, AddEvent, DropBlock, Attach, ghosts
    <2>3. QED BY <1>2, <2>1, <2>2
  <1>5. CASE Verify \/ Notify \/ ForgetProfile \/ Publish \/ Drop
    BY <1>2, <1>5 DEF Verify, Notify, ForgetProfile, Publish, Drop, managers, ghosts
  <1>6. CASE Application
    <2>1. ~LookForListeners
      BY NoMishap DEF LookForListeners
    <2>2. QED BY <1>4, <1>6, <2>1, SendAllowed DEF Application
  <1>7. CASE Endpoint
    <2>1. ~ReceiveCorrupt
      BY NoMishap DEF ReceiveCorrupt
    <2>2. QED BY <1>7, <2>1, SyncAllowed, ReceiveAllowed DEF Endpoint
  <1>8. CASE Server
    BY <1>5, <1>8, ServeAllowed DEF Server
  <1>9. QED BY <1>3, <1>5, <1>6, <1>7, <1>8, RestartAllowed DEF Next

LEMMA InitAllowed == Init => Service!Init
  <1> SUFFICES ASSUME Init PROVE Service!Init
    OBVIOUS
  <1>1. accepted = <<>> /\ delivered = <<>> /\ manager = NewEventManager
    BY DEF Init
  <1>2. Outgoing(manager) = <<>>
    BY <1>1 DEF Outgoing, NewEventManager
  <1>3. Held = {}
    BY <1>2 DEF Held
  <1>4. QED BY <1>1, <1>3 DEF Service!Init
-----------------------------------------------------------------------------
(* As long as the request ids do not come round (there are 2^32 of them),  *)
(* and unless the application looks for listeners on its own, the SDK runs *)
(* out of memory or a configuration cannot be read, the event manager      *)
(* (kaa_event.c) and the server deliver every event in the order in which  *)
(* it was accepted, none twice and none left out, over lost connections,   *)
(* full buffers and restarts, and the endpoint drops no event that has not *)
(* arrived.                                                                *)
THEOREM EventsAreInOrder == Calm => (Spec /\ [](requestId + 1 < RequestIds) => EventsInOrder)
  <1> SUFFICES ASSUME Calm PROVE Spec /\ [](requestId + 1 < RequestIds) => EventsInOrder
    OBVIOUS
  <1>1. Init => Order
    BY OrderInit
  <1>2. TypeOK /\ TypeOK' /\ Order /\ requestId + 1 < RequestIds /\ [Next]_vars => Order'
    BY OrderStep
  <1>3. TypeOK /\ TypeOK' /\ Order /\ requestId + 1 < RequestIds /\ [Next]_vars => [Service!Next]_(Service!vars)
    BY StepAllowed DEF Allowed
  <1>4. Init => Service!Init
    BY InitAllowed
  <1>5. Spec => []TypeOK
    BY TypeCorrectness
  <1>6. QED BY <1>1, <1>2, <1>3, <1>4, <1>5, PTL DEF Spec, EventsInOrder, Service!Spec

(* On the same conditions there is room for every event that is written    *)
(* (kaa_event_request_get_size): nothing waits for an answer to listeners  *)
(* before the numbers are synchronized.                                    *)
THEOREM EventsAlwaysFit == Calm => (Spec /\ [](requestId + 1 < RequestIds) => []AlwaysWritable)
  <1> SUFFICES ASSUME Calm PROVE Spec /\ [](requestId + 1 < RequestIds) => []AlwaysWritable
    OBVIOUS
  <1>1. Init => Order
    BY OrderInit
  <1>2. TypeOK /\ TypeOK' /\ Order /\ requestId + 1 < RequestIds /\ [Next]_vars => Order'
    BY OrderStep
  <1>3. Order => AlwaysWritable
    BY RequestsSynced DEF AlwaysWritable
  <1>4. Spec => []TypeOK
    BY TypeCorrectness
  <1>5. QED BY <1>1, <1>2, <1>3, <1>4, PTL DEF Spec
=============================================================================
