------------------------- MODULE LogDeliveryProofs --------------------------
(***************************************************************************)
(* For any number of records, buckets, failures and timeouts: the          *)
(* variables of LogDelivery keep their types, a record leaves an unlimited *)
(* storage only when the server has it, the list stays in the order of the *)
(* calls, and what is awaited is timed.                                    *)
(*                                                                         *)
(* The first part is about the storage alone: what SizeOf is of a union    *)
(* and a difference, and what each operation does to the counters, the     *)
(* limit and the cursor.  SizeOf is a fold of the community modules, that  *)
(* is the value of a recursive function on the subsets of its argument.    *)
(* That there is such a function, and one only, is shown by the smallest   *)
(* set for which there is not.                                             *)
(*                                                                         *)
(* The invariant IInv follows a bucket on its way: what the storage marks  *)
(* with a bucket that was requested is in the request, and what it marks   *)
(* with one that was answered "ok" has been delivered.  It holds because   *)
(* no operation of the storage but Mark puts a record into a bucket, and   *)
(* Mark only into one that is not on its way.                              *)
(***************************************************************************)
EXTENDS LogDelivery, LeastElements, FiniteSetTheorems, TLAPS

Choice(S) == CHOOSE x \in S : TRUE

(* g gives every set of D what the fold behind SizeOf does. *)
Folded(g, D) ==
  g = [s \in D |-> IF s = {} THEN 0 ELSE RecordSize[Choice(s)] + g[s \ {Choice(s)}]]

LEMMA SizeOfDef ==
  ASSUME NEW S
  PROVE  SizeOf(S) = (CHOOSE g : Folded(g, SUBSET S))[S]
  BY DEF SizeOf, MapThenSumSet, MapThenFoldSet, Folded, Choice

LEMMA ChoiceIn ==
  ASSUME NEW S, S # {}
  PROVE  Choice(S) \in S
  BY DEF Choice

(* The subsets of S with at most n elements. *)
UpTo(S, n) == {s \in SUBSET S : Cardinality(s) <= n}

LEMMA FoldUpTo ==
  ASSUME NEW S, IsFiniteSet(S), NEW n \in Nat
  PROVE  \E g : Folded(g, UpTo(S, n))
  <1> DEFINE Bad == {m \in Nat : ~\E g : Folded(g, UpTo(S, m))}
  <1>1. \A s \in SUBSET S : IsFiniteSet(s) /\ Cardinality(s) \in Nat
    BY FS_Subset, FS_CardinalityType
  <1>2. SUFFICES ASSUME Bad # {} PROVE FALSE
    OBVIOUS
  <1>3. PICK m \in Bad : \A k \in Bad : m <= k
    BY <1>2, LeastNumber
  <1>4. m \in Nat /\ ~\E g : Folded(g, UpTo(S, m))
    OBVIOUS
  <1>5. CASE m = 0
    <2> DEFINE g == [s \in UpTo(S, 0) |-> 0]
    <2>1. \A s \in UpTo(S, 0) : s = {}
      BY <1>1, FS_EmptySet DEF UpTo
    <2>2. Folded(g, UpTo(S, 0))
      BY <2>1 DEF Folded
    <2>3. QED BY <1>4, <1>5, <2>2
  <1>6. CASE m # 0
    <2>1. m - 1 \in Nat /\ m - 1 \notin Bad
      BY <1>3, <1>4, <1>6
    <2>2. PICK g : Folded(g, UpTo(S, m - 1))
      BY <2>1
    <2> DEFINE h == [s \in UpTo(S, m) |->
                       IF s = {} THEN 0 ELSE RecordSize[Choice(s)] + g[s \ {Choice(s)}]]
    <2>3. ASSUME NEW s \in UpTo(S, m), s # {}
          PROVE  s \ {Choice(s)} \in UpTo(S, m - 1)
      <3>1. s \in SUBSET S /\ IsFiniteSet(s) /\ Cardinality(s) \in Nat /\ Cardinality(s) <= m
        BY <1>1 DEF UpTo
      <3>2. Cardinality(s \ {Choice(s)}) = Cardinality(s) - 1
        BY <2>3, <3>1, ChoiceIn, FS_RemoveElement
      <3>3. Cardinality(s \ {Choice(s)}) <= m - 1
        BY <1>4, <3>1, <3>2
      <3>4. QED BY <3>1, <3>3 DEF UpTo
    <2>4. \A s \in UpTo(S, m - 1) :
             g[s] = IF s = {} THEN 0 ELSE RecordSize[Choice(s)] + g[s \ {Choice(s)}]
      BY <2>2 DEF Folded
    <2>5. UpTo(S, m - 1) \subseteq UpTo(S, m)
      BY <1>1, <1>4 DEF UpTo
    <2>6. \A s \in UpTo(S, m - 1) : h[s] = g[s]
      BY <2>4, <2>5
    <2>7. Folded(h, UpTo(S, m))
      <3>1. \A s \in UpTo(S, m) : s # {} => h[s \ {Choice(s)}] = g[s \ {Choice(s)}]
        BY <2>3, <2>6
      <3>2. h = [s \in UpTo(S, m) |->
                   IF s = {} THEN 0 ELSE RecordSize[Choice(s)] + h[s \ {Choice(s)}]]
        BY <3>1
      <3> HIDE DEF h
      <3>3. QED BY <3>2 DEF Folded
    <2>8. QED BY <1>4, <2>7
  <1>7. QED BY <1>5, <1>6

LEMMA FoldExists ==
  ASSUME NEW S, IsFiniteSet(S)
  PROVE  \E g : Folded(g, SUBSET S)
  <1>1. Cardinality(S) \in Nat
    BY FS_CardinalityType
  <1>2. \A s \in SUBSET S : Cardinality(s) <= Cardinality(S)
    BY FS_Subset
  <1>3. UpTo(S, Cardinality(S)) = SUBSET S
    BY <1>2 DEF UpTo
  <1>4. PICK g : Folded(g, UpTo(S, Cardinality(S)))
    BY <1>1, FoldUpTo
  <1>5. Folded(g, SUBSET S)
    BY <1>3, <1>4
  <1>6. QED BY <1>5

LEMMA FoldsAgree ==
  ASSUME NEW S, IsFiniteSet(S), NEW T, T \subseteq S,
         NEW g, Folded(g, SUBSET S), NEW h, Folded(h, SUBSET T)
  PROVE  g[T] = h[T]
  <1> DEFINE Bad == {n \in Nat : \E t \in SUBSET T : Cardinality(t) = n /\ g[t] # h[t]}
  <1>1. \A t \in SUBSET T : IsFiniteSet(t) /\ Cardinality(t) \in Nat
    BY FS_Subset, FS_CardinalityType
  <1>2. SUFFICES ASSUME g[T] # h[T] PROVE FALSE
    OBVIOUS
  <1>3. Bad # {}
    BY <1>1, <1>2
  <1>4. PICK n \in Bad : \A k \in Bad : n <= k
    BY <1>3, LeastNumber
  <1>5. PICK t \in SUBSET T : Cardinality(t) = n /\ g[t] # h[t]
    OBVIOUS
  <1>6. /\ g[t] = IF t = {} THEN 0 ELSE RecordSize[Choice(t)] + g[t \ {Choice(t)}]
        /\ h[t] = IF t = {} THEN 0 ELSE RecordSize[Choice(t)] + h[t \ {Choice(t)}]
    <2>1. t \in SUBSET S
      OBVIOUS
    <2>2. QED BY <2>1 DEF Folded
  <1>7. t # {}
    BY <1>5, <1>6
  <1> DEFINE u == t \ {Choice(t)}
  <1>8. u \in SUBSET T /\ Cardinality(u) = n - 1 /\ Cardinality(u) \in Nat
    BY <1>1, <1>5, <1>7, ChoiceIn, FS_RemoveElement
  <1> HIDE DEF u
  <1>9. Cardinality(u) \notin Bad
    <2>1. ~(n <= Cardinality(u))
      BY <1>8
    <2>2. QED BY <1>4, <2>1
  <1>10. g[u] = h[u]
    BY <1>8, <1>9
  <1>11. QED BY <1>5, <1>6, <1>7, <1>10 DEF u

-----------------------------------------------------------------------------
(* What SizeOf is of sets of records. *)

LEMMA SizeOfFolded ==
  ASSUME NEW S, IsFiniteSet(S), NEW g, Folded(g, SUBSET S), NEW T \in SUBSET S
  PROVE  SizeOf(T) = g[T]
  <1> DEFINE h == CHOOSE k : Folded(k, SUBSET T)
  <1>1. Folded(h, SUBSET T)
    BY FS_Subset, FoldExists
  <1>2. SizeOf(T) = h[T]
    BY SizeOfDef
  <1>3. ASSUME NEW k, Folded(k, SUBSET T) PROVE g[T] = k[T]
    <2>1. T \subseteq S
      OBVIOUS
    <2>2. QED BY <1>3, <2>1, FoldsAgree
  <1> HIDE DEF h
  <1>4. QED BY <1>1, <1>2, <1>3

LEMMA RecordsFinite == IsFiniteSet(Records) /\ \A S \in SUBSET Records : IsFiniteSet(S)
  <1>1. IsFiniteSet(Records)
    BY FS_Interval, StorageAssumption DEF Records, StorageAssumption
  <1>2. QED BY <1>1, FS_Subset

LEMMA SizeOfSteps ==
  /\ SizeOf({}) = 0
  /\ \A S \in SUBSET Records :
       S # {} => SizeOf(S) = RecordSize[Choice(S)] + SizeOf(S \ {Choice(S)})
  <1>1. PICK g : Folded(g, SUBSET Records)
    BY RecordsFinite, FoldExists
  <1>2. \A S \in SUBSET Records : SizeOf(S) = g[S]
    BY <1>1, RecordsFinite, SizeOfFolded
  <1>3. \A S \in SUBSET Records :
           g[S] = IF S = {} THEN 0 ELSE RecordSize[Choice(S)] + g[S \ {Choice(S)}]
    BY <1>1 DEF Folded
  <1>4. QED BY <1>2, <1>3

LEMMA SizeType == \A r \in Records : RecordSize[r] \in Nat /\ RecordSize[r] > 0
  BY StorageAssumption DEF StorageAssumption

LEMMA SizeOfType ==
  ASSUME NEW S \in SUBSET Records
  PROVE  SizeOf(S) \in Nat
  <1> DEFINE Bad == {n \in Nat : \E t \in SUBSET Records : Cardinality(t) = n /\ SizeOf(t) \notin Nat}
  <1>1. \A t \in SUBSET Records : IsFiniteSet(t) /\ Cardinality(t) \in Nat
    BY RecordsFinite, FS_CardinalityType
  <1>2. SUFFICES ASSUME SizeOf(S) \notin Nat PROVE FALSE
    OBVIOUS
  <1>3. Bad # {}
    BY <1>1, <1>2
  <1>4. PICK n \in Bad : \A k \in Bad : n <= k
    BY <1>3, LeastNumber
  <1>5. PICK t \in SUBSET Records : Cardinality(t) = n /\ SizeOf(t) \notin Nat
    OBVIOUS
  <1>6. t # {}
    BY <1>5, SizeOfSteps
  <1> DEFINE u == t \ {Choice(t)}
  <1>7. Choice(t) \in Records /\ Choice(t) \in t
    BY <1>6, ChoiceIn
  <1>8. u \in SUBSET Records /\ Cardinality(u) = n - 1 /\ Cardinality(u) \in Nat
    BY <1>1, <1>5, <1>7, FS_RemoveElement
  <1>9. SizeOf(t) = RecordSize[Choice(t)] + SizeOf(u)
    BY <1>6, SizeOfSteps
  <1> HIDE DEF u
  <1>10. ~(n <= Cardinality(u))
    BY <1>8
  <1>11. SizeOf(u) \in Nat
    BY <1>4, <1>8, <1>10
  <1>12. QED BY <1>5, <1>7, <1>9, <1>11, SizeType

(* Any element can be taken first. *)
LEMMA SizeOfRemove ==
  ASSUME NEW S \in SUBSET Records, NEW x \in S
  PROVE  SizeOf(S) = RecordSize[x] + SizeOf(S \ {x})
  <1> DEFINE Bad == {n \in Nat : \E t \in SUBSET Records : \E y \in t :
                       Cardinality(t) = n /\ SizeOf(t) # RecordSize[y] + SizeOf(t \ {y})}
  <1>1. \A t \in SUBSET Records : IsFiniteSet(t) /\ Cardinality(t) \in Nat
    BY RecordsFinite, FS_CardinalityType
  <1>2. SUFFICES ASSUME SizeOf(S) # RecordSize[x] + SizeOf(S \ {x}) PROVE FALSE
    OBVIOUS
  <1>3. Bad # {}
    BY <1>1, <1>2
  <1>4. PICK n \in Bad : \A k \in Bad : n <= k
    BY <1>3, LeastNumber
  <1>5a. PICK t \in SUBSET Records : \E y \in t :
           Cardinality(t) = n /\ SizeOf(t) # RecordSize[y] + SizeOf(t \ {y})
    OBVIOUS
  <1>5. PICK y \in t : Cardinality(t) = n /\ SizeOf(t) # RecordSize[y] + SizeOf(t \ {y})
    BY <1>5a
  <1> DEFINE c == Choice(t)
             u == t \ {c}
             v == t \ {y}
             w == (t \ {y}) \ {c}
  <1>6. c \in t /\ SizeOf(t) = RecordSize[c] + SizeOf(u)
    BY ChoiceIn, SizeOfSteps
  <1>7. c # y
    BY <1>5, <1>6
  <1>8. /\ u \in SUBSET Records /\ Cardinality(u) = n - 1 /\ Cardinality(u) \in Nat
        /\ v \in SUBSET Records /\ Cardinality(v) = n - 1 /\ Cardinality(v) \in Nat
    BY <1>1, <1>5, <1>6, FS_RemoveElement
  <1>9. y \in u /\ c \in v /\ u \ {y} = w /\ v \ {c} = w /\ w \in SUBSET Records
    BY <1>6, <1>7
  <1> HIDE DEF c, u, v, w
  <1>10. ~(n <= Cardinality(u)) /\ ~(n <= Cardinality(v))
    BY <1>8
  <1>11. ASSUME NEW a \in SUBSET Records, NEW z \in a,
                Cardinality(a) \in Nat, ~(n <= Cardinality(a))
         PROVE  SizeOf(a) = RecordSize[z] + SizeOf(a \ {z})
    <2>1. Cardinality(a) \notin Bad
      BY <1>4, <1>11
    <2>2. QED BY <1>11, <2>1
  <1>12. SizeOf(u) = RecordSize[y] + SizeOf(w)
    BY <1>8, <1>9, <1>10, <1>11
  <1>13. SizeOf(v) = RecordSize[c] + SizeOf(w)
    BY <1>8, <1>9, <1>10, <1>11
  <1>14. /\ RecordSize[y] \in Nat /\ RecordSize[c] \in Nat /\ SizeOf(w) \in Nat
    BY <1>6, <1>9, SizeType, SizeOfType
  <1>15. SizeOf(t) # RecordSize[y] + SizeOf(v)
    BY <1>5 DEF v
  <1>16. QED BY <1>6, <1>12, <1>13, <1>14, <1>15

LEMMA SizeOfAdd ==
  ASSUME NEW S \in SUBSET Records, NEW x \in Records, x \notin S
  PROVE  SizeOf(S \cup {x}) = SizeOf(S) + RecordSize[x]
  <1>1. (S \cup {x}) \ {x} = S /\ S \cup {x} \in SUBSET Records
    OBVIOUS
  <1>2. SizeOf(S \cup {x}) = RecordSize[x] + SizeOf(S)
    BY <1>1, SizeOfRemove
  <1>3. QED BY <1>2, SizeType, SizeOfType

LEMMA SizeOfUnion ==
  ASSUME NEW S \in SUBSET Records, NEW T \in SUBSET Records, S \cap T = {}
  PROVE  SizeOf(S \cup T) = SizeOf(S) + SizeOf(T)
  <1> DEFINE Bad == {n \in Nat : \E t \in SUBSET Records : t \cap S = {} /\ 
                       Cardinality(t) = n /\ SizeOf(S \cup t) # SizeOf(S) + SizeOf(t)}
  <1>1. \A t \in SUBSET Records : IsFiniteSet(t) /\ Cardinality(t) \in Nat
    BY RecordsFinite, FS_CardinalityType
  <1>2. SUFFICES ASSUME SizeOf(S \cup T) # SizeOf(S) + SizeOf(T) PROVE FALSE
    OBVIOUS
  <1>3. Bad # {}
    BY <1>1, <1>2
  <1>4. PICK n \in Bad : \A k \in Bad : n <= k
    BY <1>3, LeastNumber
  <1>5. PICK t \in SUBSET Records : /\ t \cap S = {} /\ Cardinality(t) = n
                                    /\ SizeOf(S \cup t) # SizeOf(S) + SizeOf(t)
    OBVIOUS
  <1>6. t # {}
    <2>1. SUFFICES ASSUME t = {} PROVE FALSE
      OBVIOUS
    <2>2. S \cup t = S /\ SizeOf(t) = 0
      BY <2>1, SizeOfSteps
    <2>3. QED BY <1>5, <2>2, SizeOfType
  <1>7. PICK x \in t : TRUE
    BY <1>6
  <1> DEFINE u == t \ {x}
             a == S \cup t
             b == S \cup u
  <1>8. u \in SUBSET Records /\ Cardinality(u) = n - 1 /\ Cardinality(u) \in Nat /\ u \cap S = {}
    BY <1>1, <1>5, <1>7, FS_RemoveElement
  <1>9. a \in SUBSET Records /\ x \in a /\ a \ {x} = b /\ b \in SUBSET Records
    BY <1>5, <1>7
  <1>10. SizeOf(a) = RecordSize[x] + SizeOf(b) /\ SizeOf(t) = RecordSize[x] + SizeOf(u)
    BY <1>7, <1>9, SizeOfRemove
  <1>11. SizeOf(a) # SizeOf(S) + SizeOf(t)
    BY <1>5
  <1>12. SizeOf(b) = SizeOf(S) + SizeOf(u)
    <2>1. ~(n <= Cardinality(u))
      BY <1>8
    <2>2. Cardinality(u) \notin Bad
      BY <1>4, <2>1
    <2>3. QED BY <1>8, <2>2
  <1>13. SizeOf(S) \in Nat /\ SizeOf(u) \in Nat /\ RecordSize[x] \in Nat
    BY <1>7, <1>8, SizeOfType, SizeType
  <1> HIDE DEF u, a, b
  <1>14. QED BY <1>10, <1>11, <1>12, <1>13

(* What is taken away is taken off, and no part is larger than the whole. *)
LEMMA SizeOfMinus ==
  ASSUME NEW S \in SUBSET Records, NEW T \in SUBSET S
  PROVE  /\ SizeOf(S \ T) = SizeOf(S) - SizeOf(T)
         /\ SizeOf(T) <= SizeOf(S)
  <1>1. (S \ T) \cup T = S /\ (S \ T) \cap T = {}
    OBVIOUS
  <1>2. SizeOf(S) = SizeOf(S \ T) + SizeOf(T)
    BY <1>1, SizeOfUnion
  <1>3. SizeOf(S) \in Nat /\ SizeOf(S \ T) \in Nat /\ SizeOf(T) \in Nat
    BY SizeOfType
  <1>4. QED BY <1>2, <1>3
-----------------------------------------------------------------------------
(* The counters. *)

(* CountersMatch, of any storage. *)
Counted(st) ==
  /\ st.total = SizeOf(Stored(st))
  /\ st.unmarked = SizeOf(Unmarked(st))
  /\ st.count = Cardinality(Unmarked(st))

LEMMA StorageShape ==
  ASSUME NEW B, NEW st, StorageOK(st, B)
  PROVE  /\ st = [logs |-> st.logs, first |-> st.first, last |-> st.last,
                  total |-> st.total, unmarked |-> st.unmarked, count |-> st.count]
         /\ Stored(st) \in SUBSET Records /\ Unmarked(st) \in SUBSET Stored(st)
         /\ st.logs \in [Stored(st) -> B]
         /\ \A r : r \in Unmarked(st) <=> r \in Stored(st) /\ st.logs[r] = UNMARKED
  BY DEF StorageOK, Stored, Unmarked, InBuckets

LEMMA CountAdd ==
  ASSUME NEW S \in SUBSET Records, NEW T \in SUBSET Records, S \cap T = {}
  PROVE  Cardinality(S \cup T) = Cardinality(S) + Cardinality(T)
  <1>1. IsFiniteSet(S) /\ IsFiniteSet(T)
    BY RecordsFinite
  <1>2. Cardinality(S) \in Nat /\ Cardinality(T) \in Nat /\ Cardinality({}) = 0
    BY <1>1, FS_CardinalityType, FS_EmptySet
  <1>3. Cardinality(S \cup T) = Cardinality(S) + Cardinality(T) - Cardinality({})
    BY <1>1, FS_Union
  <1>4. QED BY <1>2, <1>3

LEMMA CountMinus ==
  ASSUME NEW S \in SUBSET Records, NEW T \in SUBSET S
  PROVE  Cardinality(S \ T) = Cardinality(S) - Cardinality(T)
  <1>1. S \cap T = T
    OBVIOUS
  <1>2. QED BY <1>1, RecordsFinite, FS_Difference

LEMMA LinkCounted ==
  ASSUME NEW B, NEW st, StorageOK(st, B), Counted(st), NEW r \in Records \ Stored(st)
  PROVE  Counted(Link(st, r))
  <1> DEFINE x == Link(st, r)
  <1>1. /\ x.logs = [q \in Stored(st) \cup {r} |-> IF q = r THEN UNMARKED ELSE st.logs[q]]
        /\ x.total = st.total + RecordSize[r]
        /\ x.unmarked = st.unmarked + RecordSize[r]
        /\ x.count = st.count + 1
    BY StorageShape DEF Link
  <1> HIDE DEF x
  <1>2. Stored(x) = Stored(st) \cup {r}
    BY <1>1 DEF Stored
  <1>3. Unmarked(x) = Unmarked(st) \cup {r}
    BY <1>1, <1>2 DEF Unmarked, InBuckets
  <1>4. /\ Stored(st) \in SUBSET Records /\ Unmarked(st) \in SUBSET Records
        /\ r \notin Stored(st) /\ r \notin Unmarked(st)
    BY StorageShape
  <1>5. /\ SizeOf(Stored(x)) = SizeOf(Stored(st)) + RecordSize[r]
        /\ SizeOf(Unmarked(x)) = SizeOf(Unmarked(st)) + RecordSize[r]
    BY <1>2, <1>3, <1>4, SizeOfAdd
  <1>6. Cardinality(Unmarked(x)) = Cardinality(Unmarked(st)) + 1
    BY <1>3, <1>4, RecordsFinite, FS_AddElement
  <1>7. QED BY <1>1, <1>5, <1>6 DEF Counted, x

LEMMA ShrinkCounted ==
  ASSUME NEW B, NEW st, StorageOK(st, B), Counted(st)
  PROVE  Counted(Shrink(st))
  <1> DEFINE x     == Shrink(st)
             gone  == Evicted(st)
             fresh == gone \cap Unmarked(st)
             left  == Stored(st) \ gone
  <1>1. /\ x.logs = Restrict(st.logs, left)
        /\ x.total = st.total - SizeOf(gone)
        /\ x.unmarked = st.unmarked - SizeOf(fresh)
        /\ x.count = st.count - Cardinality(fresh)
    BY StorageShape DEF Shrink
  <1>2. gone \in SUBSET Stored(st)
    BY DEF Evicted
  <1> HIDE DEF x, gone
  <1>3. Stored(x) = left /\ \A r \in left : x.logs[r] = st.logs[r]
    BY <1>1, <1>2 DEF Stored, Restrict
  <1>4. Unmarked(x) = Unmarked(st) \ fresh
    BY <1>3 DEF Unmarked, InBuckets
  <1>5. /\ Stored(st) \in SUBSET Records /\ Unmarked(st) \in SUBSET Records
        /\ fresh \in SUBSET Unmarked(st)
    BY StorageShape
  <1>6. /\ SizeOf(Stored(x)) = SizeOf(Stored(st)) - SizeOf(gone)
        /\ SizeOf(Unmarked(x)) = SizeOf(Unmarked(st)) - SizeOf(fresh)
        /\ Cardinality(Unmarked(x)) = Cardinality(Unmarked(st)) - Cardinality(fresh)
    BY <1>2, <1>3, <1>4, <1>5, SizeOfMinus, CountMinus
  <1>7. QED BY <1>1, <1>6 DEF Counted, x

LEMMA RemoveCounted ==
  ASSUME NEW B, NEW st, StorageOK(st, B), Counted(st), NEW b, b # UNMARKED
  PROVE  Counted(RemoveByBucketId(st, b))
  <1> DEFINE x    == RemoveByBucketId(st, b)
             gone == InBuckets(st, {b})
             left == Stored(st) \ gone
  <1>1. CASE gone = {}
    BY <1>1 DEF RemoveByBucketId
  <1>2. CASE gone # {}
    <2>1. /\ x.logs = Restrict(st.logs, left) /\ x.total = st.total - SizeOf(gone)
          /\ x.unmarked = st.unmarked /\ x.count = st.count
      BY <1>2, StorageShape DEF RemoveByBucketId
    <2>2. /\ gone \in SUBSET Stored(st) /\ gone \cap Unmarked(st) = {}
          /\ Stored(st) \in SUBSET Records
      BY StorageShape DEF InBuckets, Unmarked
    <2> HIDE DEF x, gone
    <2>3. Stored(x) = left /\ \A r \in left : x.logs[r] = st.logs[r]
      BY <2>1, <2>2 DEF Stored, Restrict
    <2>4. Unmarked(x) = Unmarked(st)
      BY <2>2, <2>3 DEF Unmarked, InBuckets
    <2>5. SizeOf(Stored(x)) = SizeOf(Stored(st)) - SizeOf(gone)
      BY <2>2, <2>3, SizeOfMinus
    <2>6. QED BY <2>1, <2>4, <2>5 DEF Counted, x
  <1>3. QED BY <1>1, <1>2

LEMMA UnmarkCounted ==
  ASSUME NEW B, NEW st, StorageOK(st, B), Counted(st), NEW C, UNMARKED \notin C
  PROVE  Counted(UnmarkBuckets(st, C))
  <1> DEFINE x == UnmarkBuckets(st, C)
             S == InBuckets(st, C)
  <1>1. CASE S = {}
    BY <1>1 DEF UnmarkBuckets
  <1>2. CASE S # {}
    <2>1. /\ x.logs = [r \in Stored(st) |-> IF r \in S THEN UNMARKED ELSE st.logs[r]]
          /\ x.total = st.total /\ x.unmarked = st.unmarked + SizeOf(S)
          /\ x.count = st.count + Cardinality(S)
      BY <1>2, StorageShape DEF UnmarkBuckets
    <2>2. /\ S \in SUBSET Records /\ S \subseteq Stored(st) /\ S \cap Unmarked(st) = {}
          /\ Unmarked(st) \in SUBSET Records
      BY StorageShape DEF InBuckets, Unmarked
    <2> HIDE DEF x, S
    <2>3. Stored(x) = Stored(st)
      BY <2>1 DEF Stored
    <2>4. Unmarked(x) = Unmarked(st) \cup S
      BY <2>1, <2>2, <2>3 DEF Unmarked, InBuckets
    <2>5. /\ SizeOf(Unmarked(x)) = SizeOf(Unmarked(st)) + SizeOf(S)
          /\ Cardinality(Unmarked(x)) = Cardinality(Unmarked(st)) + Cardinality(S)
      BY <2>2, <2>4, SizeOfUnion, CountAdd
    <2>6. QED BY <2>1, <2>3, <2>5 DEF Counted, x
  <1>3. QED BY <1>1, <1>2

LEMMA MarkCounted ==
  ASSUME NEW B, NEW st, StorageOK(st, B), Counted(st),
         NEW S \in SUBSET Unmarked(st), NEW b, b # UNMARKED
  PROVE  Counted(Mark(st, S, b))
  <1> DEFINE x == Mark(st, S, b)
  <1>1. /\ x.logs = [r \in Stored(st) |-> IF r \in S THEN b ELSE st.logs[r]]
        /\ x.total = st.total /\ x.unmarked = st.unmarked - SizeOf(S)
        /\ x.count = st.count - Cardinality(S)
    BY StorageShape DEF Mark
  <1> HIDE DEF x
  <1>2. Stored(x) = Stored(st)
    BY <1>1 DEF Stored
  <1>3. Unmarked(x) = Unmarked(st) \ S
    BY <1>1, <1>2 DEF Unmarked, InBuckets
  <1>4. Unmarked(st) \in SUBSET Records
    BY StorageShape
  <1>5. /\ SizeOf(Unmarked(x)) = SizeOf(Unmarked(st)) - SizeOf(S)
        /\ Cardinality(Unmarked(x)) = Cardinality(Unmarked(st)) - Cardinality(S)
    BY <1>3, <1>4, SizeOfMinus, CountMinus
  <1>6. QED BY <1>1, <1>2, <1>5 DEF Counted, x
-----------------------------------------------------------------------------
(* The order of the records. *)

LEMMA RecordsNat == Records \subseteq Nat /\ \A r \in Records : r # NULL
  BY StorageAssumption DEF StorageAssumption, Records, NULL

LEMMA Greatest ==
  ASSUME NEW S \in SUBSET Records, S # {}
  PROVE  Max(S) \in S /\ \A y \in S : y <= Max(S)
  <1> DEFINE D == {n \in Nat : \E y \in S : n = MaxRecords - y}
  <1>1. MaxRecords \in Nat /\ \A y \in S : y \in 1 .. MaxRecords
    BY StorageAssumption DEF StorageAssumption, Records
  <1>2. D # {}
    <2>1. PICK y \in S : TRUE
      OBVIOUS
    <2>2. MaxRecords - y \in Nat
      BY <1>1, <2>1
    <2>3. QED BY <2>1, <2>2
  <1>3. PICK n \in D : \A k \in D : n <= k
    BY <1>2, LeastNumber
  <1>4. PICK x \in S : n = MaxRecords - x
    OBVIOUS
  <1>5. \A y \in S : x >= y
    <2> SUFFICES ASSUME NEW y \in S PROVE x >= y
      OBVIOUS
    <2>1. MaxRecords - y \in D
      BY <1>1
    <2>2. n <= MaxRecords - y
      BY <1>3, <2>1
    <2>3. QED BY <1>1, <1>4, <2>2
  <1>6. Max(S) \in S /\ \A y \in S : Max(S) >= y
    BY <1>5 DEF Max
  <1>7. QED BY <1>1, <1>6

LEMMA NextInFacts ==
  ASSUME NEW S \in SUBSET Records, NEW r \in Records
  PROVE  \/ NextIn(S, r) = NULL /\ \A q \in S : q <= r
         \/ /\ NextIn(S, r) \in S /\ r < NextIn(S, r)
            /\ \A q \in S : r < q => NextIn(S, r) <= q
  <1> DEFINE T == {q \in S : q > r}
  <1>1. Records \subseteq Nat
    BY RecordsNat
  <1>2. CASE T # {}
    <2>1. PICK least \in T : \A y \in T : least <= y
      BY <1>1, <1>2, LeastNumber
    <2>2. Min(T) \in T /\ \A y \in T : Min(T) <= y
      BY <2>1 DEF Min
    <2>3. NextIn(S, r) = Min(T)
      BY <1>2 DEF NextIn
    <2> HIDE DEF T
    <2>4. Min(T) \in S /\ r < Min(T)
      BY <1>1, <2>2 DEF T
    <2>5. \A q \in S : r < q => q \in T
      BY <1>1 DEF T
    <2>6. QED BY <2>2, <2>3, <2>4, <2>5
  <1>3. CASE T = {}
    <2>1. \A q \in S : ~(q > r)
      BY <1>3
    <2>2. NextIn(S, r) = NULL
      BY <2>1 DEF NextIn
    <2>3. QED BY <1>1, <2>1, <2>2
  <1>4. QED BY <1>2, <1>3

(* Forced removal takes a record only with all that are older. *)
LEMMA EvictedOldest ==
  ASSUME NEW B, NEW st, StorageOK(st, B), Counted(st)
  PROVE  /\ Evicted(st) \subseteq Stored(st)
         /\ \A r \in Evicted(st), q \in Stored(st) : q < r => q \in Evicted(st)
  <1>1. Evicted(st) \subseteq Stored(st)
    BY DEF Evicted
  <1>2. ASSUME NEW r \in Evicted(st), NEW q \in Stored(st), q < r
        PROVE  q \in Evicted(st)
    <2> DEFINE A == {p \in Stored(st) : p < r}
               C == {p \in Stored(st) : p < q}
    <2>1. Stored(st) \in SUBSET Records /\ Records \subseteq Nat
      BY StorageShape, RecordsNat
    <2>2. C \in SUBSET A /\ A \in SUBSET Records
      <3>1. r \in Nat /\ q \in Nat /\ \A x \in Stored(st) : x \in Nat
        BY <1>1, <2>1
      <3>2. \A x \in Stored(st) : x < q => x < r
        BY <1>2, <3>1
      <3>3. QED BY <2>1, <3>2
    <2>3. SizeOf(C) <= SizeOf(A) /\ SizeOf(C) \in Nat /\ SizeOf(A) \in Nat
      BY <2>2, SizeOfMinus, SizeOfType
    <2>4. st.total \in Nat /\ ForcedSize \in Nat
      BY <2>1, SizeOfType, StorageAssumption DEF Counted, StorageAssumption
    <2>5. st.total - SizeOf(A) > ForcedSize
      BY <1>2 DEF Evicted
    <2> HIDE DEF A, C
    <2>6. st.total - SizeOf(C) > ForcedSize
      BY <2>3, <2>4, <2>5
    <2>7. QED BY <2>6 DEF Evicted, C
  <1>3. QED BY <1>1, <1>2

(* What forced removal leaves takes no more than ForcedSize. *)
LEMMA ShrinkFits ==
  ASSUME NEW B, NEW st, StorageOK(st, B), Counted(st)
  PROVE  Shrink(st).total <= ForcedSize
  <1> DEFINE gone == Evicted(st)
             left == Stored(st) \ gone
  <1>1. Shrink(st).total = st.total - SizeOf(gone)
    BY StorageShape DEF Shrink
  <1>2. /\ Stored(st) \in SUBSET Records /\ Records \subseteq Nat /\ st.total = SizeOf(Stored(st))
        /\ gone \in SUBSET Stored(st)
    BY StorageShape, RecordsNat, EvictedOldest DEF Counted
  <1>3. ForcedSize \in Nat /\ st.total \in Nat /\ SizeOf(gone) \in Nat
    BY <1>2, SizeOfType, StorageAssumption DEF StorageAssumption
  <1>4. CASE left = {}
    <2>1. gone = Stored(st)
      BY <1>2, <1>4
    <2>2. SizeOf(gone) = st.total
      BY <1>2, <2>1
    <2> HIDE DEF gone
    <2>3. QED BY <1>1, <1>3, <2>2
  <1>5. CASE left # {}
    <2>1. PICK m \in left : \A y \in left : m <= y
      <3>1. left \in SUBSET Nat
        BY <1>2
      <3>2. QED BY <1>5, <3>1, LeastNumber
    <2>2. gone = {q \in Stored(st) : q < m}
      <3>1. ASSUME NEW q \in Stored(st), q < m PROVE q \in gone
        <4>1. q \in Nat /\ m \in Nat
          BY <1>2
        <4>2. ~(m <= q)
          BY <3>1, <4>1
        <4>3. QED BY <2>1, <4>2
      <3>2. \A q \in gone : q < m
        <4> SUFFICES ASSUME NEW q \in gone, ~(q < m) PROVE FALSE
          OBVIOUS
        <4>1. q # m /\ q \in Nat /\ m \in Nat
          BY <1>2, <2>1
        <4>2. m < q
          BY <4>1
        <4>3. QED BY <2>1, <4>2, EvictedOldest
      <3>3. QED BY <1>2, <3>1, <3>2
    <2>3. ~(st.total - SizeOf(gone) > ForcedSize)
      BY <2>1, <2>2 DEF Evicted
    <2> HIDE DEF gone
    <2>4. QED BY <1>1, <1>3, <2>3
  <1>6. QED BY <1>4, <1>5
-----------------------------------------------------------------------------
(* The cursor first_unmarked. *)

(* No unmarked record lies before it. *)
NoneBefore(st) == st.first # NULL => \A u \in Unmarked(st) : st.first <= u

Placed(st) == ~Dangling(st) /\ NoneBefore(st)

(* As long as nothing was unmarked, it is the first unmarked record, with  *)
(* nothing but unmarked ones behind it.                                    *)
Fresh(st) ==
  /\ \A u \in Unmarked(st), r \in Stored(st) : u < r => r \in Unmarked(st)
  /\ st.first \in Unmarked(st) \cup {NULL}
  /\ NoneBefore(st)

(* What is marked with a bucket of L lies before it. *)
Behind(st, L) ==
  \A r \in Stored(st) :
    st.logs[r] \in L \ {UNMARKED} =>
      /\ \A u \in Unmarked(st) : r < u
      /\ st.first # NULL => r < st.first

LEMMA FreshPlaced ==
  ASSUME NEW st, Fresh(st)
  PROVE  Placed(st)
  BY DEF Fresh, Placed, Dangling, Unmarked, InBuckets

LEMMA LinkCursor ==
  ASSUME NEW B, NEW st, StorageOK(st, B), NEW r \in Records,
         \A q \in Stored(st) : q < r, st.first <= r
  PROVE  LET x == Link(st, r) IN
         /\ x.first = st.first
         /\ NoneBefore(st) => NoneBefore(x)
         /\ Placed(st) => Placed(x)
         /\ Fresh(st) => Fresh(x)
         /\ \A L : Behind(st, L) => Behind(x, L)
  <1> DEFINE x == Link(st, r)
  <1>1. /\ x.logs = [q \in Stored(st) \cup {r} |-> IF q = r THEN UNMARKED ELSE st.logs[q]]
        /\ x.first = st.first
    BY StorageShape DEF Link
  <1> HIDE DEF x
  <1>2. /\ Stored(x) = Stored(st) \cup {r}
        /\ x.logs[r] = UNMARKED /\ \A q \in Stored(st) : q # r => x.logs[q] = st.logs[q]
    BY <1>1 DEF Stored
  <1>3. Stored(st) \in SUBSET Records /\ Records \subseteq Nat /\ st.first \in Nat
    BY StorageShape, RecordsNat DEF StorageOK, NULL
  <1>4. r \notin Stored(st)
    BY <1>3
  <1>5. Unmarked(x) = Unmarked(st) \cup {r}
    BY <1>2, <1>4 DEF Unmarked, InBuckets
  <1>6. NoneBefore(st) => NoneBefore(x)
    BY <1>1, <1>5 DEF NoneBefore
  <1>7. Placed(st) => Placed(x)
    BY <1>1, <1>2, <1>6 DEF Placed, Dangling
  <1>8. Fresh(st) => Fresh(x)
    <2>1. ASSUME Fresh(st), NEW u \in Unmarked(x), NEW q \in Stored(x), u < q
          PROVE  q \in Unmarked(x)
      <3>1. CASE q = r
        BY <3>1, <1>5
      <3>2. CASE q # r
        <4>1. q \in Stored(st) /\ q < r /\ q \in Nat /\ r \in Nat
          BY <1>2, <1>3, <3>2
        <4>2. u # r
          BY <2>1, <4>1
        <4>3. QED BY <1>5, <2>1, <4>1, <4>2 DEF Fresh
      <3>3. QED BY <3>1, <3>2
    <2>2. Fresh(st) => x.first \in Unmarked(x) \cup {NULL}
      BY <1>1, <1>5 DEF Fresh
    <2>3. QED BY <1>6, <2>1, <2>2 DEF Fresh
  <1>9. ASSUME NEW L, Behind(st, L) PROVE Behind(x, L)
    <2> SUFFICES ASSUME NEW q \in Stored(x), x.logs[q] \in L \ {UNMARKED}
                 PROVE  /\ \A u \in Unmarked(x) : q < u
                        /\ x.first # NULL => q < x.first
      BY DEF Behind
    <2>1. q \in Stored(st) /\ q # r /\ st.logs[q] \in L \ {UNMARKED}
      BY <1>2
    <2>2. q < r
      BY <2>1
    <2>3. QED BY <1>1, <1>5, <1>9, <2>1, <2>2 DEF Behind
  <1>10. QED BY <1>1, <1>6, <1>7, <1>8, <1>9 DEF x

LEMMA ShrinkCursor ==
  ASSUME NEW B, NEW st, StorageOK(st, B), Counted(st)
  PROVE  LET x == Shrink(st) IN
         /\ x.first \in Stored(st) \cup {st.first, NULL}
         /\ Unmarked(x) \subseteq Unmarked(st)
         /\ NoneBefore(st) => NoneBefore(x)
         /\ Fresh(st) => Fresh(x)
         /\ \A L : Fresh(st) /\ Behind(st, L) => Behind(x, L)
  <1> DEFINE x     == Shrink(st)
             gone  == Evicted(st)
             fresh == gone \cap Unmarked(st)
             left  == Stored(st) \ gone
             next  == NextIn(Stored(st), Max(fresh))
  <1>1. /\ x.logs = Restrict(st.logs, left)
        /\ x.first = IF left = {} THEN NULL ELSE IF fresh = {} THEN st.first ELSE next
    BY StorageShape DEF Shrink
  <1>2. /\ Stored(st) \in SUBSET Records /\ Records \subseteq Nat
        /\ gone \subseteq Stored(st) /\ Unmarked(st) \subseteq Stored(st)
    BY StorageShape, RecordsNat, EvictedOldest
  <1>3. \A r \in gone, q \in left : r < q
    <2> SUFFICES ASSUME NEW r \in gone, NEW q \in left, ~(r < q) PROVE FALSE
      OBVIOUS
    <2>1. r \in Nat /\ q \in Nat /\ r # q
      BY <1>2
    <2>2. q < r
      BY <2>1
    <2>3. QED BY <2>2, EvictedOldest
  <1> HIDE DEF x, gone
  <1>4. Stored(x) = left /\ \A r \in left : x.logs[r] = st.logs[r]
    BY <1>1, <1>2 DEF Stored, Restrict
  <1>5. Unmarked(x) = Unmarked(st) \ fresh
    BY <1>4 DEF Unmarked, InBuckets
  <1>6. ASSUME fresh # {}
        PROVE  /\ Max(fresh) \in fresh /\ \A y \in fresh : y <= Max(fresh)
               /\ \/ next = NULL /\ \A q \in Stored(st) : q <= Max(fresh)
                  \/ /\ next \in Stored(st) /\ Max(fresh) < next
                     /\ \A q \in Stored(st) : Max(fresh) < q => next <= q
    <2>1. fresh \in SUBSET Records
      BY <1>2
    <2>2. Max(fresh) \in fresh /\ \A y \in fresh : y <= Max(fresh)
      BY <1>6, <2>1, Greatest
    <2>3. Max(fresh) \in Records
      BY <2>1, <2>2
    <2>4. QED BY <1>2, <2>2, <2>3, NextInFacts
  <1>7. x.first \in Stored(st) \cup {st.first, NULL}
    BY <1>1, <1>6
  <1>8. NoneBefore(st) => NoneBefore(x)
    <2> SUFFICES ASSUME NoneBefore(st), x.first # NULL, NEW u \in Unmarked(x)
                 PROVE  x.first <= u
      BY DEF NoneBefore
    <2>1. u \in Unmarked(st) /\ u \in left
      BY <1>4, <1>5 DEF Unmarked, InBuckets
    <2>2. CASE x.first = st.first
      BY <2>1, <2>2 DEF NoneBefore
    <2>3. CASE fresh # {} /\ x.first = next
      <3>1. Max(fresh) < u
        BY <1>3, <1>6, <2>1, <2>3
      <3>2. QED BY <1>6, <2>1, <2>3, <3>1
    <2>4. QED BY <1>1, <2>2, <2>3
  <1>9. ASSUME Fresh(st) PROVE Fresh(x)
    <2>1. \A u \in Unmarked(x), r \in Stored(x) : u < r => r \in Unmarked(x)
      BY <1>4, <1>5, <1>9 DEF Fresh
    <2>2. x.first \in Unmarked(x) \cup {NULL}
      <3>1. CASE left = {}
        BY <1>1, <3>1
      <3>2. CASE left # {} /\ fresh = {}
        BY <1>1, <1>5, <1>9, <3>2 DEF Fresh
      <3>3. CASE left # {} /\ fresh # {} /\ next # NULL
        <4>1. next \in Stored(st) /\ Max(fresh) < next /\ Max(fresh) \in Unmarked(st)
          BY <1>6, <3>3
        <4>2. next \in Unmarked(st)
          BY <1>9, <4>1 DEF Fresh
        <4>3. next \notin fresh
          <5>1. ~(next <= Max(fresh))
            <6>1. next \in Nat /\ Max(fresh) \in Nat
              BY <1>2, <4>1
            <6>2. \A m, n \in Nat : m < n => ~(n <= m)
              OBVIOUS
            <6>3. QED BY <4>1, <6>1, <6>2
          <5>2. QED BY <1>6, <3>3, <5>1
        <4>4. QED BY <1>1, <1>5, <3>3, <4>2, <4>3
      <3>4. QED BY <1>1, <3>1, <3>2, <3>3
    <2>3. QED BY <1>8, <1>9, <2>1, <2>2 DEF Fresh
  <1>10. ASSUME NEW L, Fresh(st), Behind(st, L) PROVE Behind(x, L)
    <2> SUFFICES ASSUME NEW q \in Stored(x), x.logs[q] \in L \ {UNMARKED}
                 PROVE  /\ \A u \in Unmarked(x) : q < u
                        /\ x.first # NULL => q < x.first
      BY DEF Behind
    <2>1. q \in Stored(st) /\ st.logs[q] \in L \ {UNMARKED}
      BY <1>4
    <2>2. \A u \in Unmarked(x) : q < u
      BY <1>5, <1>10, <2>1 DEF Behind
    <2>3. QED BY <1>9, <1>10, <2>2 DEF Fresh
  <1>11. QED BY <1>5, <1>7, <1>8, <1>9, <1>10 DEF x

LEMMA RemoveCursor ==
  ASSUME NEW B, NEW st, StorageOK(st, B), NEW b, b # UNMARKED
  PROVE  LET x == RemoveByBucketId(st, b) IN
         /\ x.first \in {st.first, NULL}
         /\ Unmarked(x) = Unmarked(st)
         /\ NoneBefore(st) => NoneBefore(x)
         /\ Fresh(st) => Fresh(x)
         /\ \A L : Behind(st, L) => Behind(x, L)
         /\ \A L : b \in L /\ Behind(st, L) /\ Placed(st) => Placed(x)
  <1> DEFINE x    == RemoveByBucketId(st, b)
             gone == InBuckets(st, {b})
             left == Stored(st) \ gone
  <1>1. CASE gone = {}
    BY <1>1 DEF RemoveByBucketId
  <1>2. CASE gone # {}
    <2>1. x.logs = Restrict(st.logs, left) /\ x.first = IF left = {} THEN NULL ELSE st.first
      BY <1>2, StorageShape DEF RemoveByBucketId
    <2>2. gone \subseteq Stored(st) /\ Records \subseteq Nat
          /\ \A r \in Stored(st) : r \in gone <=> st.logs[r] = b
      BY RecordsNat DEF InBuckets
    <2> HIDE DEF x, gone
    <2>3. Stored(x) = left /\ \A r \in left : x.logs[r] = st.logs[r]
      BY <2>1, <2>2 DEF Stored, Restrict
    <2>4. Unmarked(x) = Unmarked(st)
      BY <2>2, <2>3 DEF Unmarked, InBuckets
    <2>5. NoneBefore(st) => NoneBefore(x)
      BY <2>1, <2>4 DEF NoneBefore
    <2>6. Fresh(st) => Fresh(x)
      BY <2>1, <2>3, <2>4, <2>5 DEF Fresh
    <2>7. \A L : Behind(st, L) => Behind(x, L)
      BY <2>1, <2>3, <2>4 DEF Behind
    <2>8. ASSUME NEW L, b \in L, Behind(st, L), Placed(st) PROVE Placed(x)
      <3>1. CASE x.first = NULL
        BY <3>1, <2>5, <2>8 DEF Placed, Dangling
      <3>2. CASE x.first # NULL /\ x.first = st.first
        <4>1. st.first \in Stored(st) /\ st.first \in Nat
          BY <2>2, <2>8, <3>2, StorageShape DEF Placed, Dangling
        <4>2. st.logs[st.first] # b
          BY <2>8, <3>2, <4>1 DEF Behind
        <4>3. x.first \in Stored(x)
          BY <2>2, <2>3, <3>2, <4>1, <4>2
        <4>4. QED BY <2>5, <2>8, <4>3 DEF Placed, Dangling
      <3>3. QED BY <2>1, <3>1, <3>2
    <2>9. QED BY <2>1, <2>4, <2>5, <2>6, <2>7, <2>8 DEF x
  <1>3. QED BY <1>1, <1>2

LEMMA UnmarkCursor ==
  ASSUME NEW B, NEW st, StorageOK(st, B), NEW C
  PROVE  LET x == UnmarkBuckets(st, C) IN
         /\ x.first \in {st.first, NULL}
         /\ NoneBefore(st) => NoneBefore(x)
         /\ Placed(st) => Placed(x)
  <1> DEFINE x == UnmarkBuckets(st, C)
  <1>1. CASE x = st
    BY <1>1
  <1>2. CASE InBuckets(st, C) # {}
    <2>1. x.first = NULL
      BY <1>2, StorageShape DEF UnmarkBuckets
    <2> HIDE DEF x
    <2>2. QED BY <2>1 DEF NoneBefore, Placed, Dangling, x
  <1>3. QED BY <1>1, <1>2 DEF UnmarkBuckets

(* From the cursor, or the head of the list, the records taken are the     *)
(* oldest unmarked ones.                                                   *)
LEMMA FittingOldest ==
  ASSUME NEW B, NEW st, StorageOK(st, B), NoneBefore(st), NEW room \in Nat
  PROVE  LET S == Fitting(st, st.first, room) IN
         /\ S \subseteq Unmarked(st)
         /\ \A s \in S, u \in Unmarked(st) \ S : s < u
  <1> DEFINE ahead == {r \in Unmarked(st) : r >= st.first}
             upto(r) == {q \in ahead : q <= r}
             S == Fitting(st, st.first, room)
  <1>1. Unmarked(st) \in SUBSET Records /\ Records \subseteq Nat
    BY StorageShape, RecordsNat
  <1>2. S = {r \in ahead : SizeOf(upto(r)) <= room}
    BY DEF Fitting
  <1>3. Unmarked(st) = ahead
    <2>1. \A u \in Unmarked(st) : u \in Nat /\ st.first \in Nat
      BY <1>1 DEF StorageOK, NULL
    <2>2. \A u \in Unmarked(st) : u >= st.first
      BY <2>1 DEF NoneBefore, NULL
    <2>3. QED BY <2>2
  <1> HIDE DEF ahead, S
  <1>4. ASSUME NEW s \in S, NEW u \in Unmarked(st) \ S, ~(s < u) PROVE FALSE
    <2>1. s \in ahead /\ u \in ahead /\ ahead \in SUBSET Records
      BY <1>1, <1>2, <1>3, <1>4
    <2>2. u <= s /\ u \in Nat /\ s \in Nat
      BY <1>1, <1>4, <2>1
    <2>3. \A q \in ahead : q <= u => q <= s
      BY <1>1, <2>1, <2>2
    <2>4. upto(u) \in SUBSET upto(s) /\ upto(s) \in SUBSET Records
      BY <2>1, <2>3
    <2>5. SizeOf(upto(u)) <= SizeOf(upto(s)) /\ SizeOf(upto(u)) \in Nat /\ SizeOf(upto(s)) \in Nat
      BY <2>4, SizeOfMinus, SizeOfType
    <2>6. SizeOf(upto(s)) <= room
      BY <1>2
    <2> HIDE DEF upto
    <2>7. SizeOf(upto(u)) <= room
      BY <2>5, <2>6
    <2>8. QED BY <1>2, <1>4, <2>1, <2>7
  <1>5. S \subseteq Unmarked(st)
    BY <1>2, <1>3
  <1>6. QED BY <1>4, <1>5 DEF S

LEMMA MarkCursor ==
  ASSUME NEW B, NEW st, StorageOK(st, B), NEW S \in SUBSET Unmarked(st), S # {},
         NEW b, b # UNMARKED
  PROVE  LET x == Mark(st, S, b) IN
         /\ Unmarked(x) = Unmarked(st) \ S
         /\ x.first \in Stored(st) \cup {NULL}
         /\ (\A s \in S, u \in Unmarked(st) \ S : s < u) =>
              /\ Placed(x)
              /\ Fresh(st) => Fresh(x)
              /\ \A L : Behind(st, L) /\ (\A r \in Stored(st) : st.logs[r] # b)
                        => Behind(x, L \cup {b})
  <1> DEFINE x    == Mark(st, S, b)
             top  == Max(S)
             next == NextIn(Stored(st), top)
  <1>1. /\ x.logs = [r \in Stored(st) |-> IF r \in S THEN b ELSE st.logs[r]]
        /\ x.first = next
    BY StorageShape DEF Mark
  <1>2. /\ Stored(st) \in SUBSET Records /\ Records \subseteq Nat
        /\ Unmarked(st) \subseteq Stored(st)
    BY StorageShape, RecordsNat
  <1>3. top \in S /\ (\A y \in S : y <= top) /\ top \in Records
    <2>1. S \in SUBSET Records
      BY <1>2
    <2>2. QED BY <2>1, Greatest
  <1>4. \/ next = NULL /\ \A q \in Stored(st) : q <= top
        \/ /\ next \in Stored(st) /\ top < next
           /\ \A q \in Stored(st) : top < q => next <= q
    BY <1>2, <1>3, NextInFacts
  <1> HIDE DEF x, top, next
  <1>5. Stored(x) = Stored(st)
    BY <1>1 DEF Stored
  <1>6. Unmarked(x) = Unmarked(st) \ S
    BY <1>1, <1>5 DEF Unmarked, InBuckets
  <1>7. x.first \in Stored(st) \cup {NULL}
    BY <1>1, <1>4
  <1>8. ASSUME \A s \in S, u \in Unmarked(st) \ S : s < u
        PROVE  /\ Placed(x)
               /\ Fresh(st) => Fresh(x)
               /\ \A L : Behind(st, L) /\ (\A r \in Stored(st) : st.logs[r] # b)
                         => Behind(x, L \cup {b})
    <2>1. \A u \in Unmarked(x) : u \in Stored(st) /\ top < u
      BY <1>2, <1>3, <1>6, <1>8
    <2>2. NoneBefore(x)
      BY <1>1, <1>4, <2>1 DEF NoneBefore
    <2>3. Placed(x)
      BY <1>5, <1>7, <2>2 DEF Placed, Dangling
    <2>4. ASSUME NEW q \in Stored(st), top < q PROVE q \notin S
      <3>1. q \in Nat /\ top \in Nat
        BY <1>2, <1>3
      <3>2. ~(q <= top)
        BY <2>4, <3>1
      <3>3. QED BY <1>3, <3>2
    <2>5. ASSUME Fresh(st) PROVE Fresh(x)
      <3>1. ASSUME NEW q \in Stored(st), top < q PROVE q \in Unmarked(x)
        <4>1. q \in Unmarked(st)
          BY <1>3, <2>5, <3>1 DEF Fresh
        <4>2. QED BY <1>6, <2>4, <3>1, <4>1
      <3>2. ASSUME NEW u \in Unmarked(x), NEW r \in Stored(x), u < r PROVE r \in Unmarked(x)
        <4>1. top < u /\ u \in Nat /\ r \in Nat /\ top \in Nat
          BY <1>2, <1>3, <1>5, <2>1
        <4>2. top < r
          BY <3>2, <4>1
        <4>3. QED BY <1>5, <3>1, <4>2
      <3>3. x.first \in Unmarked(x) \cup {NULL}
        BY <1>1, <1>4, <3>1
      <3>4. QED BY <2>2, <3>2, <3>3 DEF Fresh
    <2>6. ASSUME NEW L, Behind(st, L), \A r \in Stored(st) : st.logs[r] # b
          PROVE  Behind(x, L \cup {b})
      <3> SUFFICES ASSUME NEW r \in Stored(x), x.logs[r] \in (L \cup {b}) \ {UNMARKED}
                   PROVE  /\ \A u \in Unmarked(x) : r < u
                          /\ x.first # NULL => r < x.first
        BY DEF Behind
      <3>1. r \in Nat /\ top \in Nat /\ r \in Stored(st)
        BY <1>2, <1>3, <1>5
      <3>2. r <= top
        <4>1. CASE r \in S
          BY <1>3, <4>1
        <4>2. CASE r \notin S
          <5>1. st.logs[r] \in L \ {UNMARKED}
            BY <1>1, <2>6, <3>1, <4>2
          <5>2. r < top
            BY <1>3, <2>6, <3>1, <5>1 DEF Behind
          <5>3. QED BY <3>1, <5>2
        <4>3. QED BY <4>1, <4>2
      <3>3. \A u \in Unmarked(x) : r < u
        <4> SUFFICES ASSUME NEW u \in Unmarked(x) PROVE r < u
          OBVIOUS
        <4>1. u \in Nat /\ top < u
          BY <1>2, <2>1
        <4>2. QED BY <3>1, <3>2, <4>1
      <3>4. ASSUME x.first # NULL PROVE r < x.first
        <4>1. next \in Nat /\ top < next
          BY <1>1, <1>2, <1>4, <3>4
        <4>2. QED BY <1>1, <3>1, <3>2, <4>1
      <3>5. QED BY <3>3, <3>4
    <2>7. QED BY <2>3, <2>5, <2>6
  <1>9. QED BY <1>6, <1>7, <1>8 DEF x
-----------------------------------------------------------------------------
(* The collector. *)

LEMMA NextInType ==
  ASSUME NEW S \in SUBSET Records, NEW r
  PROVE  NextIn(S, r) \in Records \cup {NULL}
  <1> DEFINE T == {q \in S : q > r}
  <1>1. Records \subseteq Nat
    BY StorageAssumption DEF StorageAssumption, Records
  <1>2. CASE T # {}
    <2>1. Min(T) \in T
      BY <1>1, <1>2, LeastElement
    <2>2. NextIn(S, r) = Min(T)
      BY <1>2 DEF NextIn
    <2>3. QED BY <2>1, <2>2
  <1>3. CASE T = {}
    BY <1>3 DEF NextIn
  <1>4. QED BY <1>2, <1>3
-----------------------------------------------------------------------------
(* The storage: what its operations keep, and which buckets grow. *)

Kept(st) == StorageOK(st, BucketId)

(* Nothing enters a bucket. *)
NoneMarked(st, old) ==
  \A b \in BucketId \ {UNMARKED} : InBuckets(st, {b}) \subseteq InBuckets(old, {b})

LEMMA BucketTypes ==
  /\ 0 \in BucketId /\ UNMARKED \in BucketId
  /\ log_bucket_id \in BucketId => NextBucketId \in BucketId
  <1>1. BucketIds \in Nat /\ BucketIds > 1
    BY DeliveryAssumption DEF DeliveryAssumption
  <1>2. 0 \in BucketId
    BY <1>1 DEF BucketId
  <1>3. ASSUME log_bucket_id \in BucketId PROVE NextBucketId \in BucketId
    BY <1>1, <1>3 DEF NextBucketId, BucketId
  <1>4. QED BY <1>2, <1>3 DEF UNMARKED

LEMMA EmptyOK == Kept(EmptyStorage) /\ Stored(EmptyStorage) = {}
  <1> DEFINE l == [r \in {} |-> UNMARKED]
  <1>1. l \in [{} -> BucketId] /\ DOMAIN l = {}
    OBVIOUS
  <1>2. {} \in SUBSET Records
    OBVIOUS
  <1>3. EmptyStorage = [logs |-> l, first |-> NULL, last |-> NULL,
                        total |-> 0, unmarked |-> 0, count |-> 0]
    BY DEF EmptyStorage
  <1> HIDE DEF l
  <1>4. QED BY <1>1, <1>2, <1>3 DEF Kept, StorageOK, Stored

LEMMA Shape ==
  ASSUME NEW st, Kept(st)
  PROVE  /\ Stored(st) \in SUBSET Records
         /\ st.logs \in [Stored(st) -> BucketId]
         /\ st.first \in Records \cup {NULL} /\ st.last \in Records \cup {NULL}
  BY DEF Kept, StorageOK, Stored

(* A storage that gets another list, and pointers into the records. *)
Relist(st, l, f, g, t, u, c) ==
  [st EXCEPT !.logs = l, !.first = f, !.last = g, !.total = t, !.unmarked = u, !.count = c]

LEMMA RelistShape ==
  ASSUME NEW st, NEW a1, NEW a2, NEW a3, NEW a4, NEW a5, NEW a6,
         st = [logs |-> a1, first |-> a2, last |-> a3, total |-> a4, unmarked |-> a5, count |-> a6],
         NEW x, NEW l, NEW f, NEW g, NEW t, NEW u, NEW c, x = Relist(st, l, f, g, t, u, c)
  PROVE  x = [logs |-> x.logs, first |-> x.first, last |-> x.last,
              total |-> x.total, unmarked |-> x.unmarked, count |-> x.count]
  BY DEF Relist

Lists(st, S, l) == Kept(st) /\ Stored(st) = S /\ st.logs = l

LEMMA Relisted ==
  ASSUME NEW st, Kept(st), NEW S \in SUBSET Records, NEW l \in [S -> BucketId],
         NEW f \in Records \cup {NULL}, NEW g \in Records \cup {NULL}, NEW t, NEW u, NEW c
  PROVE  Lists(Relist(st, l, f, g, t, u, c), S, l)
  <1> DEFINE x == Relist(st, l, f, g, t, u, c)
  <1>1. st = [logs |-> st.logs, first |-> st.first, last |-> st.last,
              total |-> st.total, unmarked |-> st.unmarked, count |-> st.count]
    BY DEF Kept, StorageOK
  <1>2. x.logs = l /\ x.first = f /\ x.last = g
    BY <1>1 DEF Relist
  <1>3. x = [logs |-> x.logs, first |-> x.first, last |-> x.last,
             total |-> x.total, unmarked |-> x.unmarked, count |-> x.count]
    BY <1>1, RelistShape
  <1> HIDE DEF x
  <1>4. Kept(x)
    BY <1>2, <1>3 DEF Kept, StorageOK
  <1>5. Stored(x) = S
    BY <1>2 DEF Stored
  <1>6. QED BY <1>2, <1>4, <1>5 DEF Lists, x

LEMMA LinkKeeps ==
  ASSUME NEW st, Kept(st), NEW r \in Records
  PROVE  /\ Kept(Link(st, r))
         /\ Stored(Link(st, r)) = Stored(st) \cup {r}
         /\ NoneMarked(Link(st, r), st)
  <1> DEFINE S == Stored(st) \cup {r}
             l == [q \in S |-> IF q = r THEN UNMARKED ELSE st.logs[q]]
  <1>1. S \in SUBSET Records /\ l \in [S -> BucketId]
    BY Shape, BucketTypes
  <1>2. Link(st, r) = Relist(st, l, st.first, r, st.total + RecordSize[r],
                             st.unmarked + RecordSize[r], st.count + 1)
    BY DEF Link, Relist, Kept, StorageOK
  <1> HIDE DEF S, l
  <1>3. Lists(Link(st, r), S, l)
    <2>1. st.first \in Records \cup {NULL} /\ r \in Records \cup {NULL}
      BY Shape
    <2>2. QED BY <1>1, <1>2, <2>1, Relisted
  <1>4. NoneMarked(Link(st, r), st)
    BY <1>3 DEF Lists, NoneMarked, InBuckets, S, l
  <1>5. QED BY <1>3, <1>4 DEF Lists, S

LEMMA ShrinkKeeps ==
  ASSUME NEW st, Kept(st)
  PROVE  /\ Kept(Shrink(st))
         /\ Stored(Shrink(st)) \subseteq Stored(st)
         /\ NoneMarked(Shrink(st), st)
  <1> DEFINE gone  == Evicted(st)
             fresh == gone \cap Unmarked(st)
             S     == Stored(st) \ gone
             l     == Restrict(st.logs, S)
             f     == IF S = {} THEN NULL
                      ELSE IF fresh = {} THEN st.first ELSE NextIn(Stored(st), Max(fresh))
             g     == IF S = {} THEN NULL ELSE st.last
             u     == st.unmarked - SizeOf(fresh)
             t     == st.total - SizeOf(gone)
  <1>1. S \in SUBSET Records /\ l \in [S -> BucketId]
    BY Shape DEF Restrict
  <1>2. f \in Records \cup {NULL} /\ g \in Records \cup {NULL}
    BY Shape, NextInType
  <1>3. Shrink(st) = Relist(st, l, f, g, t, u, st.count - Cardinality(fresh))
    BY DEF Shrink, Relist
  <1>4. \A r \in S : l[r] = st.logs[r]
    BY DEF Restrict
  <1> HIDE DEF S, l, f, g, u, t
  <1>5. Lists(Shrink(st), S, l)
    BY <1>1, <1>2, <1>3, Relisted
  <1>6. S \subseteq Stored(st)
    BY DEF S
  <1>7. NoneMarked(Shrink(st), st)
    BY <1>4, <1>5, <1>6 DEF Lists, NoneMarked, InBuckets
  <1>8. QED BY <1>5, <1>6, <1>7 DEF Lists

LEMMA AddKeeps ==
  ASSUME NEW st, Kept(st), NEW r \in Records
  PROVE  /\ Kept(AddLogRecord(st, r))
         /\ Stored(AddLogRecord(st, r)) \subseteq Stored(st) \cup {r}
         /\ MaxStorage = 0 => Stored(AddLogRecord(st, r)) = Stored(st) \cup {r}
         /\ NoneMarked(AddLogRecord(st, r), st)
  <1>1. CASE AddLogRecord(st, r) = Link(st, r)
    BY <1>1, LinkKeeps
  <1>2. CASE MaxStorage # 0 /\ AddLogRecord(st, r) = Link(Shrink(st), r)
    <2>1. Kept(Shrink(st)) /\ Stored(Shrink(st)) \subseteq Stored(st) /\ NoneMarked(Shrink(st), st)
      BY ShrinkKeeps
    <2>2. /\ Kept(Link(Shrink(st), r))
          /\ Stored(Link(Shrink(st), r)) = Stored(Shrink(st)) \cup {r}
          /\ NoneMarked(Link(Shrink(st), r), Shrink(st))
      BY <2>1, LinkKeeps
    <2>3. NoneMarked(Link(Shrink(st), r), st)
      BY <2>1, <2>2 DEF NoneMarked
    <2>4. QED BY <1>2, <2>1, <2>2, <2>3
  <1>3. QED BY <1>1, <1>2 DEF AddLogRecord

LEMMA RemoveKeeps ==
  ASSUME NEW st, Kept(st), NEW b
  PROVE  /\ Kept(RemoveByBucketId(st, b))
         /\ Stored(RemoveByBucketId(st, b)) = Stored(st) \ InBuckets(st, {b})
         /\ NoneMarked(RemoveByBucketId(st, b), st)
  <1> DEFINE gone == InBuckets(st, {b})
             S    == Stored(st) \ gone
             l    == Restrict(st.logs, S)
             f    == IF S = {} THEN NULL ELSE st.first
             t    == st.total - SizeOf(gone)
  <1>1. CASE gone = {}
    BY <1>1 DEF RemoveByBucketId, NoneMarked
  <1>2. CASE gone # {}
    <2>1. S \in SUBSET Records /\ l \in [S -> BucketId]
      BY Shape DEF Restrict
    <2>2. f \in Records \cup {NULL} /\ NULL \in Records \cup {NULL}
      BY Shape
    <2>3. RemoveByBucketId(st, b) = Relist(st, l, f, NULL, t, st.unmarked, st.count)
      BY <1>2 DEF RemoveByBucketId, Relist, Kept, StorageOK
    <2>4. \A r \in S : l[r] = st.logs[r]
      BY DEF Restrict
    <2> HIDE DEF S, l, f, t
    <2>5. Lists(RemoveByBucketId(st, b), S, l)
      BY <2>1, <2>2, <2>3, Relisted
    <2>6. S = Stored(st) \ gone
      BY DEF S
    <2>7. NoneMarked(RemoveByBucketId(st, b), st)
      BY <2>4, <2>5, <2>6 DEF Lists, NoneMarked, InBuckets
    <2>8. QED BY <2>5, <2>6, <2>7 DEF Lists
  <1>3. QED BY <1>1, <1>2

LEMMA UnmarkKeeps ==
  ASSUME NEW st, Kept(st), NEW B
  PROVE  /\ Kept(UnmarkBuckets(st, B))
         /\ Stored(UnmarkBuckets(st, B)) = Stored(st)
         /\ NoneMarked(UnmarkBuckets(st, B), st)
  <1> DEFINE U == InBuckets(st, B)
             l == [r \in Stored(st) |-> IF r \in U THEN UNMARKED ELSE st.logs[r]]
             u == st.unmarked + SizeOf(U)
  <1>1. CASE U = {}
    BY <1>1 DEF UnmarkBuckets, NoneMarked
  <1>2. CASE U # {}
    <2>1. Stored(st) \in SUBSET Records /\ l \in [Stored(st) -> BucketId]
      BY Shape, BucketTypes
    <2>2. NULL \in Records \cup {NULL} /\ st.last \in Records \cup {NULL}
      BY Shape
    <2>3. UnmarkBuckets(st, B) = Relist(st, l, NULL, st.last, st.total, u,
                                        st.count + Cardinality(U))
      BY <1>2 DEF UnmarkBuckets, Relist, Kept, StorageOK
    <2>4. \A r \in Stored(st) : l[r] = UNMARKED \/ l[r] = st.logs[r]
      OBVIOUS
    <2> HIDE DEF l, u, U
    <2>5. Lists(UnmarkBuckets(st, B), Stored(st), l)
      BY <2>1, <2>2, <2>3, Relisted
    <2>6. NoneMarked(UnmarkBuckets(st, B), st)
      BY <2>4, <2>5 DEF Lists, NoneMarked, InBuckets
    <2>7. QED BY <2>5, <2>6 DEF Lists
  <1>3. QED BY <1>1, <1>2

LEMMA MarkKeeps ==
  ASSUME NEW st, Kept(st), NEW S, NEW b \in BucketId
  PROVE  /\ Kept(Mark(st, S, b))
         /\ Stored(Mark(st, S, b)) = Stored(st)
         /\ \A c \in BucketId \ {UNMARKED, b} : InBuckets(Mark(st, S, b), {c}) \subseteq InBuckets(st, {c})
         /\ InBuckets(Mark(st, S, b), {b}) \subseteq S \cup InBuckets(st, {b})
  <1> DEFINE l == [r \in Stored(st) |-> IF r \in S THEN b ELSE st.logs[r]]
             f == NextIn(Stored(st), Max(S))
             g == st.last
             t == st.total
             u == st.unmarked - SizeOf(S)
             c == st.count - Cardinality(S)
             M == Stored(st)
  <1>1. M \in SUBSET Records /\ l \in [M -> BucketId]
    BY Shape
  <1>2. f \in Records \cup {NULL} /\ g \in Records \cup {NULL}
    BY Shape, NextInType
  <1>3. Mark(st, S, b) = Relist(st, l, f, g, t, u, c)
    BY DEF Mark, Relist, Kept, StorageOK
  <1>4. \A r \in Stored(st) : l[r] = IF r \in S THEN b ELSE st.logs[r]
    OBVIOUS
  <1> HIDE DEF l, f, g, t, u, c, M
  <1>5. Lists(Mark(st, S, b), M, l)
    BY <1>1, <1>2, <1>3, Relisted
  <1>6. QED BY <1>4, <1>5 DEF Lists, InBuckets, M

LEMMA FittingUnmarked ==
  ASSUME NEW st, NEW start, NEW room
  PROVE  Fitting(st, start, room) \subseteq Stored(st)
  BY DEF Fitting, Unmarked, InBuckets
-----------------------------------------------------------------------------
(* The invariant. *)

Requested(q, st, n) ==
  q.bucket # 0 /\ q.records \subseteq 1 .. n /\ InBuckets(st, {q.bucket}) \subseteq q.records

AllRequested(Q, st, n) == \A q \in Q : Requested(q, st, n)

Answered(s, st, got) == s.bucket # 0 /\ (s.ok => InBuckets(st, {s.bucket}) \subseteq got)

AllAnswered(seq, st, got) == \A i \in DOMAIN seq : Answered(seq[i], st, got)

IInv ==
  /\ TypeOK
  /\ Stored(storage) \subseteq 1 .. added
  /\ AllRequested(requests, storage, added)
  /\ AllAnswered(statuses, storage, delivered)
  /\ AllAnswered(inbox, storage, delivered)
  /\ ~handling => inbox = <<>>

LEMMA RequestedStays ==
  ASSUME NEW Q \in SUBSET Request, NEW st, NEW n \in Nat, AllRequested(Q, st, n),
         NEW R \in SUBSET Q, NEW st2, NoneMarked(st2, st), NEW m \in Nat, n <= m
  PROVE  AllRequested(R, st2, m)
  <1> SUFFICES ASSUME NEW q \in R PROVE Requested(q, st2, m)
    BY DEF AllRequested
  <1>1. q.bucket \in BucketId /\ Requested(q, st, n)
    BY DEF Request, AllRequested
  <1>2. q.bucket # UNMARKED
    BY <1>1 DEF Requested, UNMARKED
  <1>3. InBuckets(st2, {q.bucket}) \subseteq InBuckets(st, {q.bucket})
    BY <1>1, <1>2 DEF NoneMarked
  <1>4. q.records \subseteq 1 .. m
    BY <1>1 DEF Requested
  <1>5. QED BY <1>1, <1>3, <1>4 DEF Requested

LEMMA AnsweredStays ==
  ASSUME NEW seq \in Seq(Status), NEW st, NEW got, AllAnswered(seq, st, got),
         NEW st2, NoneMarked(st2, st), NEW got2, got \subseteq got2
  PROVE  AllAnswered(seq, st2, got2)
  <1> SUFFICES ASSUME NEW i \in DOMAIN seq PROVE Answered(seq[i], st2, got2)
    BY DEF AllAnswered
  <1>1. seq[i] \in Status /\ Answered(seq[i], st, got)
    BY DEF AllAnswered
  <1>2. seq[i].bucket \in BucketId /\ seq[i].bucket # UNMARKED
    BY <1>1 DEF Status, Answered, UNMARKED
  <1>3. InBuckets(st2, {seq[i].bucket}) \subseteq InBuckets(st, {seq[i].bucket})
    BY <1>2 DEF NoneMarked
  <1>4. QED BY <1>1, <1>3 DEF Answered

LEMMA NoneAnswered ==
  ASSUME NEW st, NEW got
  PROVE  AllAnswered(<<>>, st, got)
  BY DEF AllAnswered

LEMMA SameStorage ==
  ASSUME NEW st
  PROVE  NoneMarked(st, st)
  BY DEF NoneMarked

LEMMA InitInv == Init => IInv
  <1> SUFFICES ASSUME Init PROVE IInv
    OBVIOUS
  <1>1. StorageOK(storage, BucketId) /\ Stored(storage) = {}
    BY EmptyOK DEF Init, Kept
  <1>2. log_bucket_id \in BucketId
    BY BucketTypes DEF Init
  <1>3. added \in 0 .. MaxRecords
    BY StorageAssumption DEF Init, StorageAssumption
  <1>4. /\ timeouts \in Seq(BucketId) /\ statuses \in Seq(Status) /\ inbox \in Seq(Status)
        /\ failures \in Nat /\ timedOut \in Nat /\ drops \in Nat
    BY DEF Init
  <1>5. /\ retrying \in BOOLEAN /\ pending \in BOOLEAN /\ handling \in BOOLEAN
        /\ link \in LinkState /\ renewing \in BOOLEAN
        /\ requests \subseteq Request /\ delivered \subseteq Records
        /\ astray \in BOOLEAN /\ outlived \in BOOLEAN
    BY Zenon DEF Init, LinkState
  <1>6. TypeOK
    BY <1>1, <1>2, <1>3, <1>4, <1>5, Zenon DEF TypeOK
  <1>7. AllRequested(requests, storage, added)
    BY DEF Init, AllRequested
  <1>8. /\ AllAnswered(statuses, storage, delivered) /\ AllAnswered(inbox, storage, delivered)
        /\ inbox = <<>>
    BY NoneAnswered DEF Init
  <1>9. QED BY <1>1, <1>6, <1>7, <1>8 DEF IInv

(* What an access point that failed or was replaced leaves of the network. *)
LEMMA Replaced ==
  ASSUME ReplaceAccessPoint, link \in LinkState
  PROVE  /\ link' \in LinkState
         /\ LoseFlight \/ (requests' = requests /\ statuses' = statuses)
  BY DEF ReplaceAccessPoint, LinkState, flight

LEMMA Failed ==
  ASSUME AccessPointFailed, link \in LinkState, renewing \in BOOLEAN
  PROVE  /\ link' \in LinkState /\ renewing' \in BOOLEAN
         /\ LoseFlight \/ (requests' = requests /\ statuses' = statuses)
  BY Replaced DEF AccessPointFailed, flight

(* The steps of the connection touch nothing of the collector. *)
LEMMA Linked ==
  ASSUME IInv, Connack \/ Drop \/ Renew
  PROVE  /\ link' \in LinkState /\ renewing' \in BOOLEAN
         /\ LoseFlight \/ (requests' = requests /\ statuses' = statuses)
         /\ UNCHANGED <<client, reading, added, ghosts, failures, timedOut>>
         /\ drops' \in {drops, drops + 1}
  <1>1. link \in LinkState /\ renewing \in BOOLEAN /\ ListMayEnd \in BOOLEAN
    BY DeliveryAssumption DEF IInv, TypeOK, DeliveryAssumption
  <1>2. CASE Connack
    BY <1>1, <1>2 DEF Connack, LinkState, flight, budgets
  <1>3. CASE Drop
    BY <1>1, <1>3 DEF Drop, LinkState
  <1>4. CASE Renew
    BY <1>1, <1>4, Replaced DEF Renew, budgets
  <1>5. QED BY <1>2, <1>3, <1>4

LEMMA AddRecordInv ==
  ASSUME IInv, AddRecord
  PROVE  IInv'
  <1> DEFINE r  == added + 1
             st == AddLogRecord(storage, r)
  <1>1. added \in Nat /\ added' = r /\ r \in Records /\ r \in 0 .. MaxRecords
    BY StorageAssumption DEF IInv, TypeOK, AddRecord, StorageAssumption, Records
  <1>2. /\ Kept(st) /\ NoneMarked(st, storage)
        /\ Stored(st) \subseteq Stored(storage) \cup {r}
    BY <1>1, AddKeeps DEF Kept, IInv, TypeOK
  <1>3. /\ Kept(Retry(st)) /\ NoneMarked(Retry(st), st) /\ Stored(Retry(st)) = Stored(st)
    BY <1>2, UnmarkKeeps DEF Retry
  <1>4. storage' = st \/ storage' = Retry(st)
    BY DEF AddRecord, HandleTimeout
  <1> HIDE DEF st
  <1>5. /\ Kept(storage') /\ NoneMarked(storage', storage)
        /\ Stored(storage') \subseteq Stored(storage) \cup {r}
    BY <1>2, <1>3, <1>4 DEF NoneMarked
  <1>6. Stored(storage') \subseteq 1 .. added'
    BY <1>1, <1>5 DEF IInv
  <1>7. /\ link' \in LinkState /\ renewing' \in BOOLEAN
        /\ requests' \subseteq requests
        /\ statuses' = statuses \/ statuses' = <<>>
    <2>1. link \in LinkState /\ renewing \in BOOLEAN
      BY DEF IInv, TypeOK
    <2>2. UNCHANGED network \/ AccessPointFailed
      BY DEF AddRecord, HandleTimeout
    <2>3. CASE UNCHANGED network
      BY <2>1, <2>3 DEF network, flight
    <2>4. CASE AccessPointFailed
      BY <2>1, <2>4, Failed DEF LoseFlight
    <2>5. QED BY <2>2, <2>3, <2>4
  <1>8. /\ timeouts' = timeouts \/ timeouts' = <<>>
        /\ timedOut' = timedOut \/ timedOut' = timedOut + 1
    BY DEF AddRecord, HandleTimeout
  <1>9. retrying' \in BOOLEAN /\ pending' \in BOOLEAN /\ outlived' \in BOOLEAN
    BY Zenon DEF AddRecord, HandleTimeout, UpdateStorage, IInv, TypeOK
  <1>10. /\ log_bucket_id' = log_bucket_id /\ handling' = handling /\ inbox' = inbox
         /\ delivered' = delivered /\ failures' = failures /\ drops' = drops
         /\ astray' = astray
    BY DEF AddRecord, reading
  <1>11. TypeOK'
    <2>1. timeouts' \in Seq(BucketId) /\ timedOut' \in Nat /\ statuses' \in Seq(Status)
      <3>1. timeouts \in Seq(BucketId) /\ timedOut \in Nat /\ statuses \in Seq(Status)
        BY Zenon DEF IInv, TypeOK
      <3>2. <<>> \in Seq(BucketId) /\ <<>> \in Seq(Status)
        OBVIOUS
      <3>3. timedOut' \in Nat
        BY <1>8, <3>1
      <3>4. QED BY <1>7, <1>8, <3>1, <3>2, <3>3, Zenon
    <2>2. requests' \subseteq Request /\ added' \in 0 .. MaxRecords
      BY <1>1, <1>7 DEF IInv, TypeOK
    <2>3. QED BY <1>5, <1>7, <1>9, <1>10, <2>1, <2>2, Zenon DEF IInv, TypeOK, Kept
  <1>12. AllRequested(requests', storage', added')
    BY <1>1, <1>5, <1>7, RequestedStays DEF IInv, TypeOK
  <1>13. /\ AllAnswered(statuses', storage', delivered')
         /\ AllAnswered(inbox', storage', delivered')
    BY <1>5, <1>7, <1>10, AnsweredStays, NoneAnswered DEF IInv, TypeOK
  <1>14. QED BY <1>6, <1>10, <1>11, <1>12, <1>13, Zenon DEF IInv

(* What serializing the logs can have done. *)
Serialized ==
  \/ UNCHANGED <<log_bucket_id, storage, timeouts, requests>>
  \/ FailToWrite
  \/ NextBucketId # 0 /\ \E S \in SUBSET Stored(storage) : WriteBucket(S)

LEMMA WriteBucketKeeps ==
  ASSUME IInv, IdIsFree, NextBucketId # 0, NEW S \in SUBSET Stored(storage), WriteBucket(S)
  PROVE  /\ Kept(storage') /\ Stored(storage') = Stored(storage)
         /\ requests' \subseteq Request /\ timeouts' \in Seq(BucketId)
         /\ AllRequested(requests', storage', added)
         /\ AllAnswered(statuses, storage', delivered)
  <1> DEFINE b == NextBucketId
             q == [bucket |-> b, records |-> S]
  <1>1. b \in BucketId \ {UNMARKED} /\ b \notin Outstanding
    <2>1. b \in BucketId
      BY BucketTypes DEF IInv, TypeOK
    <2>2. b \notin Outstanding
      BY DEF IdIsFree
    <2>3. QED BY <2>1, <2>2 DEF UNMARKED
  <1>2. /\ storage' = Mark(storage, S, b) /\ timeouts' = <<b>> \o timeouts
        /\ requests' \subseteq requests \cup {q}
    BY DEF WriteBucket
  <1>3. Kept(storage)
    BY DEF IInv, TypeOK, Kept
  <1>4. /\ Kept(storage') /\ Stored(storage') = Stored(storage)
        /\ \A c \in BucketId \ {UNMARKED, b} : InBuckets(storage', {c}) \subseteq InBuckets(storage, {c})
        /\ InBuckets(storage', {b}) \subseteq S \cup InBuckets(storage, {b})
    BY <1>1, <1>2, <1>3, MarkKeeps
  <1>5. InBuckets(storage', {b}) \subseteq S
    <2>1. InBuckets(storage, {b}) = {}
      BY <1>1 DEF InBuckets, Outstanding
    <2>2. QED BY <1>4, <2>1
  <1>6. S \subseteq 1 .. added /\ S \subseteq Records
    <2>1. Stored(storage) \subseteq Records /\ Stored(storage) \subseteq 1 .. added
      BY <1>3, Shape DEF IInv
    <2>2. QED BY <2>1
  <1>7. q \in Request /\ q.bucket = b /\ q.records = S
    BY <1>1, <1>6 DEF Request
  <1> HIDE DEF b, q
  <1>8. Requested(q, storage', added)
    BY <1>1, <1>5, <1>6, <1>7 DEF Requested, UNMARKED
  <1>9. \A p \in requests : Requested(p, storage', added)
    <2> SUFFICES ASSUME NEW p \in requests PROVE Requested(p, storage', added)
      OBVIOUS
    <2>1. p \in Request /\ Requested(p, storage, added)
      BY DEF IInv, TypeOK, AllRequested
    <2>2. p.bucket \in BucketId \ {UNMARKED, b}
      BY <1>1, <2>1 DEF Request, Requested, UNMARKED, Outstanding
    <2>3. QED BY <1>4, <2>1, <2>2 DEF Requested
  <1>10. requests' \subseteq Request /\ AllRequested(requests', storage', added)
    <2>1. requests \subseteq Request
      BY DEF IInv, TypeOK
    <2>2. QED BY <1>2, <1>7, <1>8, <1>9, <2>1 DEF AllRequested
  <1>11. AllAnswered(statuses, storage', delivered)
    <2> SUFFICES ASSUME NEW i \in DOMAIN statuses PROVE Answered(statuses[i], storage', delivered)
      BY DEF AllAnswered
    <2>1. statuses \in Seq(Status) /\ Answered(statuses[i], storage, delivered)
      BY DEF IInv, TypeOK, AllAnswered
    <2>2. statuses[i] \in Status /\ statuses[i] \in ToSet(statuses)
      BY <2>1 DEF ToSet
    <2>3. statuses[i].bucket \in BucketId \ {UNMARKED, b}
      BY <1>1, <2>1, <2>2 DEF Status, Answered, UNMARKED, Outstanding
    <2>4. QED BY <1>4, <2>1, <2>3 DEF Answered
  <1>12. timeouts' \in Seq(BucketId)
    <2>1. timeouts \in Seq(BucketId) /\ <<b>> \in Seq(BucketId)
      BY <1>1 DEF IInv, TypeOK
    <2>2. QED BY <1>2, <2>1
  <1>13. QED BY <1>4, <1>10, <1>11, <1>12

LEMMA SerializedInv ==
  ASSUME IInv, IdIsFree, ~handling, Serialized,
         link' \in LinkState, pending' = FALSE, astray' \in BOOLEAN,
         UNCHANGED <<retrying, statuses, renewing, reading, added, delivered, outlived, budgets>>
  PROVE  IInv'
  <1>1. /\ Kept(storage') /\ Stored(storage') = Stored(storage)
        /\ requests' \subseteq Request /\ timeouts' \in Seq(BucketId)
        /\ AllRequested(requests', storage', added)
        /\ AllAnswered(statuses, storage', delivered)
    <2>1. CASE UNCHANGED <<storage, timeouts, requests>>
      BY <2>1 DEF IInv, TypeOK, Kept
    <2>2. CASE NextBucketId # 0 /\ \E S \in SUBSET Stored(storage) : WriteBucket(S)
      BY <2>2, WriteBucketKeeps
    <2>3. QED BY <2>1, <2>2 DEF Serialized, FailToWrite
  <1>2. log_bucket_id' \in BucketId
    <2>1. log_bucket_id' = log_bucket_id \/ log_bucket_id' = NextBucketId
      BY DEF Serialized, FailToWrite, WriteBucket
    <2>2. QED BY <2>1, BucketTypes DEF IInv, TypeOK
  <1>3. /\ retrying' = retrying /\ statuses' = statuses /\ handling' = handling
        /\ inbox' = inbox /\ added' = added /\ delivered' = delivered
        /\ failures' = failures /\ timedOut' = timedOut /\ drops' = drops
        /\ renewing' = renewing /\ outlived' = outlived
    BY DEF reading, budgets
  <1>4. pending' \in BOOLEAN
    OBVIOUS
  <1>5. TypeOK'
    BY <1>1, <1>2, <1>3, <1>4, Zenon DEF IInv, TypeOK, Kept
  <1>6. inbox' = <<>>
    BY <1>3 DEF IInv
  <1>7. Stored(storage') \subseteq 1 .. added'
    BY <1>1, <1>3 DEF IInv
  <1>8. QED BY <1>1, <1>3, <1>5, <1>6, <1>7, NoneAnswered, Zenon DEF IInv

LEMMA AuthorizeInv ==
  ASSUME IInv, Authorize
  PROVE  IInv'
  <1>1. Serialized /\ link' \in LinkState
    BY FittingUnmarked DEF Authorize, SerializeLogs, Serialized, LinkState
  <1>2. astray' \in BOOLEAN
    BY Zenon DEF Authorize, SerializeLogs, IInv, TypeOK
  <1>3. QED BY <1>1, <1>2, SerializedInv DEF Authorize

LEMMA SyncInv ==
  ASSUME IInv, Sync
  PROVE  IInv'
  <1>1. Serialized
    BY FittingUnmarked DEF Sync, SerializeLogs, Serialized
  <1>2. link' \in LinkState
    BY DEF Sync, IInv, TypeOK
  <1>3. astray' \in BOOLEAN
    BY Zenon DEF Sync, SerializeLogs, IInv, TypeOK
  <1>4. QED BY <1>1, <1>2, <1>3, SerializedInv DEF Sync

LEMMA PartAnswered ==
  ASSUME NEW seq \in Seq(Status), NEW st, NEW got, AllAnswered(seq, st, got),
         NEW m \in Nat, NEW n \in Nat, 1 <= m, n <= Len(seq)
  PROVE  /\ SubSeq(seq, m, n) \in Seq(Status)
         /\ AllAnswered(SubSeq(seq, m, n), st, got)
  <1> DEFINE part == SubSeq(seq, m, n)
  <1>1. part \in Seq(Status)
    OBVIOUS
  <1>2. \A i \in DOMAIN part : m + i - 1 \in DOMAIN seq /\ part[i] = seq[m + i - 1]
    OBVIOUS
  <1> HIDE DEF part
  <1>3. AllAnswered(part, st, got)
    BY <1>2 DEF AllAnswered
  <1>4. QED BY <1>1, <1>3 DEF part

LEMMA ReceiveSyncInv ==
  ASSUME IInv, ReceiveSync
  PROVE  IInv'
  <1>1. PICK n \in 1 .. Len(statuses) :
          inbox' = SubSeq(statuses, 1, n) /\ statuses' = SubSeq(statuses, n + 1, Len(statuses))
    BY DEF ReceiveSync
  <1>2. /\ handling' = TRUE /\ storage' = storage /\ log_bucket_id' = log_bucket_id
        /\ timeouts' = timeouts /\ retrying' = retrying /\ pending' = pending
        /\ link' = link /\ requests' = requests /\ added' = added /\ delivered' = delivered
        /\ failures' = failures /\ timedOut' = timedOut /\ drops' = drops /\ astray' = astray
        /\ renewing' = renewing /\ outlived' = outlived
    BY DEF ReceiveSync, client, budgets, ghosts
  <1>3. statuses \in Seq(Status) /\ AllAnswered(statuses, storage, delivered)
    BY DEF IInv, TypeOK
  <1>4. n \in Nat /\ n + 1 \in Nat /\ 1 <= n + 1 /\ n <= Len(statuses) /\ Len(statuses) \in Nat
    BY <1>3
  <1>5. /\ inbox' \in Seq(Status) /\ AllAnswered(inbox', storage, delivered)
        /\ statuses' \in Seq(Status) /\ AllAnswered(statuses', storage, delivered)
    BY <1>1, <1>3, <1>4, PartAnswered
  <1>6. TypeOK'
    BY <1>2, <1>5, Zenon DEF IInv, TypeOK
  <1>7. QED BY <1>2, <1>5, <1>6, Zenon DEF IInv

LEMMA TimerRemoved ==
  ASSUME NEW B, timeouts \in Seq(B), NEW b
  PROVE  RemoveRequest(b) \in Seq(B)
  <1> DEFINE found == {i \in DOMAIN timeouts : FindByBucketId(timeouts[i], b)}
  <1>1. CASE found = {}
    BY <1>1 DEF RemoveRequest
  <1>2. CASE found # {}
    <2>1. found \subseteq DOMAIN timeouts /\ DOMAIN timeouts = 1 .. Len(timeouts)
      OBVIOUS
    <2>2. Min(found) \in 1 .. Len(timeouts)
      <3>1. found \in SUBSET Nat
        BY <2>1
      <3>2. Min(found) \in found
        BY <1>2, <3>1, LeastElement
      <3>3. QED BY <2>1, <3>2
    <2>3. ASSUME NEW i \in 1 .. Len(timeouts) PROVE RemoveAt(timeouts, i) \in Seq(B)
      <3>1. /\ SubSeq(timeouts, 1, i - 1) \in Seq(B)
            /\ SubSeq(timeouts, i + 1, Len(timeouts)) \in Seq(B)
        BY <2>3
      <3>2. QED BY <3>1 DEF RemoveAt
    <2>4. RemoveRequest(b) = RemoveAt(timeouts, Min(found))
      BY <1>2 DEF RemoveRequest
    <2>5. QED BY <2>2, <2>3, <2>4
  <1>3. QED BY <1>1, <1>2

LEMMA SettleKeeps ==
  ASSUME Kept(storage), NEW s
  PROVE  /\ Kept(Settle(s)) /\ NoneMarked(Settle(s), storage)
         /\ Stored(Settle(s)) =
              IF s.ok THEN Stored(storage) \ InBuckets(storage, {s.bucket}) ELSE Stored(storage)
  BY RemoveKeeps, UnmarkKeeps DEF Settle

LEMMA HandleStatusInv ==
  ASSUME IInv, HandleStatus
  PROVE  IInv'
  <1> DEFINE s == Head(inbox)
  <1>1. /\ inbox # <<>> /\ inbox' = Tail(inbox)
        /\ timeouts' = RemoveRequest(s.bucket) /\ storage' = Settle(s)
    BY DEF HandleStatus
  <1>2. /\ log_bucket_id' = log_bucket_id /\ pending' = pending
        /\ link' = link /\ requests' = requests /\ statuses' = statuses
        /\ handling' = handling /\ added' = added /\ delivered' = delivered
        /\ failures' = failures /\ timedOut' = timedOut /\ drops' = drops /\ astray' = astray
        /\ renewing' = renewing /\ outlived' = outlived
    BY DEF HandleStatus, network, flight, budgets, ghosts
  <1>3. retrying' \in BOOLEAN
    BY Zenon DEF HandleStatus, IInv, TypeOK
  <1>4. Kept(storage') /\ NoneMarked(storage', storage) /\ Stored(storage') \subseteq Stored(storage)
    <2>1. Kept(storage)
      BY DEF IInv, TypeOK, Kept
    <2>2. QED BY <1>1, <2>1, SettleKeeps
  <1>5. inbox' \in Seq(Status) /\ AllAnswered(inbox', storage, delivered)
    <2>1. inbox \in Seq(Status) /\ AllAnswered(inbox, storage, delivered)
      BY DEF IInv, TypeOK
    <2>2. inbox' = SubSeq(inbox, 2, Len(inbox)) /\ Len(inbox) \in Nat
      BY <1>1, <2>1
    <2>3. QED BY <2>1, <2>2, PartAnswered
  <1>6. timeouts' \in Seq(BucketId)
    BY <1>1, TimerRemoved DEF IInv, TypeOK
  <1>7. TypeOK'
    BY <1>2, <1>3, <1>4, <1>5, <1>6, Zenon DEF IInv, TypeOK, Kept
  <1>8. added \in Nat /\ requests \in SUBSET Request /\ statuses \in Seq(Status)
    BY StorageAssumption DEF IInv, TypeOK, StorageAssumption
  <1>9. AllRequested(requests', storage', added')
    BY <1>2, <1>4, <1>8, RequestedStays DEF IInv
  <1>10. /\ AllAnswered(statuses', storage', delivered')
         /\ AllAnswered(inbox', storage', delivered')
    BY <1>2, <1>4, <1>5, <1>8, AnsweredStays DEF IInv
  <1>11. Stored(storage') \subseteq 1 .. added'
    BY <1>2, <1>4 DEF IInv
  <1>12. handling'
    BY <1>2 DEF HandleStatus
  <1>13. QED BY <1>7, <1>9, <1>10, <1>11, <1>12, Zenon DEF IInv

LEMMA FinishSyncInv ==
  ASSUME IInv, FinishSync
  PROVE  IInv'
  <1>1. /\ storage' = storage /\ handling' = FALSE /\ inbox = <<>>
        /\ log_bucket_id' = log_bucket_id /\ timeouts' = timeouts
        /\ link' = link /\ requests' = requests /\ statuses' = statuses
        /\ inbox' = inbox /\ added' = added /\ delivered' = delivered
        /\ failures' = failures /\ timedOut' = timedOut /\ drops' = drops /\ astray' = astray
        /\ renewing' = renewing /\ outlived' = outlived
    BY DEF FinishSync, network, flight, budgets, ghosts
  <1>2. retrying' \in BOOLEAN /\ pending' \in BOOLEAN
    BY Zenon DEF FinishSync, UpdateStorage, IInv, TypeOK
  <1>3. handling' \in BOOLEAN
    BY <1>1
  <1>4. TypeOK'
    BY <1>1, <1>2, <1>3, Zenon DEF IInv, TypeOK
  <1>5. QED BY <1>1, <1>4, Zenon DEF IInv

LEMMA AnswerInv ==
  ASSUME IInv, NEW q \in requests, NEW ok \in BOOLEAN, Answer(q, ok), failures' \in Nat
  PROVE  IInv'
  <1> DEFINE s == [bucket |-> q.bucket, ok |-> ok]
  <1>1. /\ storage' = storage /\ log_bucket_id' = log_bucket_id /\ timeouts' = timeouts
        /\ retrying' = retrying /\ pending' = pending /\ link' = link
        /\ handling' = handling /\ inbox' = inbox /\ added' = added
        /\ timedOut' = timedOut /\ drops' = drops /\ astray' = astray
        /\ renewing' = renewing /\ outlived' = outlived
    BY DEF Answer, client, reading
  <1>2. /\ requests' = requests \ {q} /\ statuses' = statuses \o <<s>>
        /\ delivered' = IF ok THEN delivered \cup q.records ELSE delivered
    BY DEF Answer
  <1>3. /\ q \in Request /\ Requested(q, storage, added) /\ q.bucket \in BucketId
        /\ q.records \subseteq Records
    BY DEF IInv, TypeOK, AllRequested, Request
  <1>4. delivered \subseteq delivered' /\ delivered' \subseteq Records
    BY <1>2, <1>3 DEF IInv, TypeOK
  <1>5. s \in Status /\ Answered(s, storage, delivered')
    BY <1>2, <1>3 DEF Status, Answered, Requested
  <1>6. statuses \in Seq(Status) /\ inbox \in Seq(Status)
    BY DEF IInv, TypeOK
  <1> HIDE DEF s
  <1>7. statuses' \in Seq(Status) /\ AllAnswered(statuses', storage, delivered')
    <2>1. AllAnswered(statuses, storage, delivered')
      BY <1>4, <1>6, AnsweredStays, SameStorage DEF IInv
    <2>2. statuses' \in Seq(Status)
      BY <1>2, <1>5, <1>6
    <2>3. \A i \in DOMAIN statuses' :
             statuses'[i] = s \/ (i \in DOMAIN statuses /\ statuses'[i] = statuses[i])
      BY <1>2, <1>5, <1>6
    <2>4. QED BY <1>5, <2>1, <2>2, <2>3 DEF AllAnswered
  <1>8. AllAnswered(inbox, storage, delivered')
    BY <1>4, <1>6, AnsweredStays, SameStorage DEF IInv
  <1>9. requests' \subseteq Request /\ AllRequested(requests', storage, added)
    BY <1>2 DEF IInv, TypeOK, AllRequested
  <1>10. TypeOK'
    BY <1>1, <1>4, <1>7, <1>9, Zenon DEF IInv, TypeOK
  <1>11. QED BY <1>1, <1>7, <1>8, <1>9, <1>10, Zenon DEF IInv

LEMMA LinkInv ==
  ASSUME IInv, Connack \/ Drop \/ Renew
  PROVE  IInv'
  <1>1. /\ link' \in LinkState /\ renewing' \in BOOLEAN
        /\ storage' = storage /\ log_bucket_id' = log_bucket_id /\ timeouts' = timeouts
        /\ retrying' = retrying /\ pending' = pending
        /\ handling' = handling /\ inbox' = inbox /\ added' = added /\ delivered' = delivered
        /\ failures' = failures /\ timedOut' = timedOut /\ astray' = astray
        /\ outlived' = outlived
    BY Linked DEF client, reading, ghosts
  <1>2. drops' \in Nat
    BY Linked DEF IInv, TypeOK
  <1>3. requests' \subseteq requests /\ (statuses' = statuses \/ statuses' = <<>>)
    BY Linked DEF LoseFlight
  <1>4. statuses' \in Seq(Status) /\ requests' \subseteq Request
    <2>1. statuses \in Seq(Status) /\ requests \subseteq Request /\ <<>> \in Seq(Status)
      BY DEF IInv, TypeOK
    <2>2. QED BY <1>3, <2>1, Zenon
  <1>5. TypeOK'
    BY <1>1, <1>2, <1>4, Zenon DEF IInv, TypeOK
  <1>6. AllRequested(requests', storage', added')
    BY <1>1, <1>3 DEF AllRequested, IInv
  <1>7. AllAnswered(statuses', storage', delivered')
    BY <1>1, <1>3, NoneAnswered DEF IInv
  <1>8. QED BY <1>1, <1>5, <1>6, <1>7, Zenon DEF IInv

LEMMA StutterInv ==
  ASSUME IInv, UNCHANGED vars
  PROVE  IInv'
  <1>1. /\ link' = link /\ requests' = requests /\ statuses' = statuses /\ drops' = drops
        /\ storage' = storage /\ log_bucket_id' = log_bucket_id /\ timeouts' = timeouts
        /\ retrying' = retrying /\ pending' = pending
        /\ handling' = handling /\ inbox' = inbox /\ added' = added /\ delivered' = delivered
        /\ failures' = failures /\ timedOut' = timedOut /\ astray' = astray
        /\ renewing' = renewing /\ outlived' = outlived
    BY DEF vars, client, network, flight, reading, budgets, ghosts
  <1>2. TypeOK'
    BY <1>1, Zenon DEF IInv, TypeOK
  <1>3. QED BY <1>1, <1>2, Zenon DEF IInv

LEMMA StepInv == IInv /\ [Next]_vars => IInv'
  <1> SUFFICES ASSUME IInv, [Next]_vars PROVE IInv'
    OBVIOUS
  <1>1. CASE AddRecord
    BY <1>1, AddRecordInv
  <1>2. CASE Authorize
    BY <1>2, AuthorizeInv
  <1>3. CASE Sync
    BY <1>3, SyncInv
  <1>4. CASE ReceiveSync
    BY <1>4, ReceiveSyncInv
  <1>5. CASE HandleStatus
    BY <1>5, HandleStatusInv
  <1>6. CASE FinishSync
    BY <1>6, FinishSyncInv
  <1>7. CASE StoreLogs
    <2>1. failures' = failures /\ failures \in Nat
      BY <1>7 DEF StoreLogs, IInv, TypeOK
    <2>2. QED BY <1>7, <2>1, AnswerInv DEF StoreLogs
  <1>8. CASE RejectLogs
    <2>1. failures' = failures + 1 /\ failures \in Nat
      BY <1>8 DEF RejectLogs, IInv, TypeOK
    <2>2. PICK q \in requests : Answer(q, FALSE)
      BY <1>8 DEF RejectLogs
    <2>3. failures' \in Nat
      BY <2>1
    <2>4. QED BY <2>2, <2>3, AnswerInv
  <1>9. CASE Connack \/ Drop \/ Renew
    BY <1>9, LinkInv
  <1>10. CASE UNCHANGED vars
    BY <1>10, StutterInv
  <1>11. QED BY <1>1, <1>2, <1>3, <1>4, <1>5, <1>6, <1>7, <1>8, <1>9, <1>10 DEF Next, Collector

LEMMA Invariant == Spec => []IInv
  BY InitInv, StepInv, PTL DEF Spec

(* Every variable keeps its type: the storage's records stay in buckets    *)
(* whose ids fit log_bucket_id, its pointers name records or nothing, and  *)
(* every request, status and timer is about a bucket.                      *)
THEOREM TypeCorrectness == Spec => []TypeOK
  <1>1. IInv => TypeOK
    BY DEF IInv
  <1>2. QED BY <1>1, Invariant, PTL
-----------------------------------------------------------------------------
(* The refinement: what each step is to the application. *)

Seen == <<1 .. added, Stored(storage), delivered>>

LEMMA SeenInit == Init => Service!Init
  <1> SUFFICES ASSUME Init PROVE Service!Init
    OBVIOUS
  <1>1. 1 .. added = {} /\ Stored(storage) = {} /\ delivered = {}
    BY EmptyOK DEF Init
  <1>2. QED BY <1>1 DEF Service!Init

LEMMA AddRecordSeen ==
  ASSUME IInv, MaxStorage = 0, AddRecord
  PROVE  Service!Next
  <1> DEFINE r  == added + 1
             st == AddLogRecord(storage, r)
  <1>1. added \in Nat /\ added' = r /\ r \in Records /\ delivered' = delivered
    BY StorageAssumption DEF IInv, TypeOK, AddRecord, StorageAssumption, Records
  <1>2. Kept(st) /\ Stored(st) = Stored(storage) \cup {r}
    BY <1>1, AddKeeps DEF Kept, IInv, TypeOK
  <1>3. Stored(Retry(st)) = Stored(st)
    BY <1>2, UnmarkKeeps DEF Retry
  <1>4. storage' = st \/ storage' = Retry(st)
    BY DEF AddRecord, HandleTimeout
  <1> HIDE DEF st
  <1>5. Stored(storage') = Stored(storage) \cup {r}
    BY <1>2, <1>3, <1>4
  <1>6. r \notin 1 .. added /\ 1 .. added' = (1 .. added) \cup {r}
    BY <1>1
  <1>7. Service!Accept(r)
    BY <1>1, <1>5, <1>6 DEF Service!Accept
  <1>8. QED BY <1>1, <1>7 DEF Service!Next

LEMMA SerializedSeen ==
  ASSUME IInv, IdIsFree, Serialized
  PROVE  Stored(storage') = Stored(storage)
  BY WriteBucketKeeps DEF Serialized, FailToWrite

LEMMA HandleStatusSeen ==
  ASSUME IInv, HandleStatus
  PROVE  Service!Next \/ UNCHANGED Seen
  <1> DEFINE s == Head(inbox)
             S == InBuckets(storage, {s.bucket})
  <1>1. /\ storage' = Settle(s) /\ added' = added /\ delivered' = delivered
    BY DEF HandleStatus, ghosts
  <1>2. Kept(storage)
    BY DEF IInv, TypeOK, Kept
  <1>3. Stored(storage') = IF s.ok THEN Stored(storage) \ S ELSE Stored(storage)
    BY <1>1, <1>2, SettleKeeps
  <1>4. s.ok => S \subseteq delivered
    <2>1. inbox \in Seq(Status) /\ inbox # <<>> /\ AllAnswered(inbox, storage, delivered)
      BY DEF HandleStatus, IInv, TypeOK
    <2>2. 1 \in DOMAIN inbox /\ s = inbox[1]
      BY <2>1
    <2>3. QED BY <2>1, <2>2 DEF AllAnswered, Answered
  <1>5. S \subseteq Stored(storage) /\ S \in SUBSET Records
    BY <1>2, Shape DEF InBuckets
  <1>6. CASE s.ok
    <2>1. Service!Forget(S)
      BY <1>1, <1>3, <1>4, <1>5, <1>6 DEF Service!Forget
    <2>2. QED BY <1>5, <2>1 DEF Service!Next
  <1>7. CASE ~s.ok
    BY <1>1, <1>3, <1>7 DEF Seen
  <1>8. QED BY <1>6, <1>7

LEMMA AnswerSeen ==
  ASSUME IInv, NEW q \in requests, NEW ok \in BOOLEAN, Answer(q, ok)
  PROVE  Service!Next \/ UNCHANGED Seen
  <1>1. storage' = storage /\ added' = added
    BY DEF Answer, client
  <1>2. q.records \subseteq 1 .. added /\ q.records \in SUBSET Records
    BY DEF IInv, TypeOK, AllRequested, Requested, Request
  <1>3. CASE ok
    <2>1. Service!Deliver(q.records)
      BY <1>1, <1>2, <1>3 DEF Answer, Service!Deliver
    <2>2. QED BY <1>2, <2>1 DEF Service!Next
  <1>4. CASE ~ok
    BY <1>1, <1>4 DEF Answer, Seen
  <1>5. QED BY <1>3, <1>4

LEMMA StepSeen ==
  ASSUME IInv, MaxStorage = 0, [Next]_vars
  PROVE  Service!Next \/ UNCHANGED Seen
  <1>1. CASE AddRecord
    BY <1>1, AddRecordSeen
  <1>2. CASE Authorize
    <2>1. Serialized /\ IdIsFree /\ added' = added /\ delivered' = delivered
      BY <1>2, FittingUnmarked DEF Authorize, SerializeLogs, Serialized
    <2>2. QED BY <2>1, SerializedSeen DEF Seen
  <1>3. CASE Sync
    <2>1. Serialized /\ IdIsFree /\ added' = added /\ delivered' = delivered
      BY <1>3, FittingUnmarked DEF Sync, SerializeLogs, Serialized
    <2>2. QED BY <2>1, SerializedSeen DEF Seen
  <1>4. CASE ReceiveSync
    BY <1>4 DEF ReceiveSync, client, ghosts, Seen
  <1>5. CASE HandleStatus
    BY <1>5, HandleStatusSeen
  <1>6. CASE FinishSync
    BY <1>6 DEF FinishSync, ghosts, Seen
  <1>7. CASE StoreLogs
    BY <1>7, AnswerSeen DEF StoreLogs
  <1>8. CASE RejectLogs
    <2>1. PICK q \in requests : Answer(q, FALSE)
      BY <1>8 DEF RejectLogs
    <2>2. QED BY <2>1, AnswerSeen
  <1>9. CASE Connack \/ Drop \/ Renew
    BY <1>9, Linked DEF client, ghosts, Seen
  <1>10. CASE UNCHANGED vars
    BY <1>10 DEF vars, client, ghosts, Seen
  <1>11. QED BY <1>1, <1>2, <1>3, <1>4, <1>5, <1>6, <1>7, <1>8, <1>9, <1>10 DEF Next, Collector

(* With an unlimited storage (ext_unlimited_log_storage_create) a record   *)
(* that kaa_logging_add_record took is removed only by a status for a      *)
(* bucket the server has stored it in: failures, timeouts, lost statuses   *)
(* and repeated uploads never lose one.                                    *)
THEOREM UnlimitedKeepsRecords ==
  ASSUME MaxStorage = 0
  PROVE  Spec => KeptUntilDelivered
  <1>1. Init => Service!Init
    BY SeenInit
  <1>2. IInv /\ [Next]_vars => [Service!Next]_Seen
    BY StepSeen
  <1>3. QED BY <1>1, <1>2, Invariant, PTL DEF Spec, KeptUntilDelivered, Service!Spec, Seen
-----------------------------------------------------------------------------
(* last_log_it: an operation keeps it, or clears it, or adds at the tail.  *)

LastIsIn(st) == st.last # NULL => st.last \in Stored(st) /\ \A r \in Stored(st) : r <= st.last

LEMMA AddLast ==
  ASSUME NEW st, Kept(st), NEW n \in Nat, Stored(st) \subseteq 1 .. n, n + 1 \in Records
  PROVE  LastIsIn(AddLogRecord(st, n + 1))
  <1> DEFINE r == n + 1
             x == AddLogRecord(st, r)
  <1>1. PICK y : Kept(y) /\ x = Link(y, r)
    BY ShrinkKeeps DEF AddLogRecord
  <1>2. x.last = r
    BY <1>1 DEF Link, Kept, StorageOK
  <1>3. Stored(Link(y, r)) = Stored(y) \cup {r}
    BY <1>1, LinkKeeps
  <1>4. r \in Stored(x)
    BY <1>1, <1>3
  <1>5. Stored(x) \subseteq Stored(st) \cup {r}
    BY AddKeeps
  <1>6. \A q \in Stored(x) : q <= r
    BY <1>5
  <1> HIDE DEF x, r
  <1>7. QED BY <1>2, <1>4, <1>6 DEF LastIsIn, x, r

LEMMA SettleLast ==
  ASSUME NEW st, Kept(st), LastIsIn(st), NEW B
  PROVE  LastIsIn(UnmarkBuckets(st, B)) /\ LastIsIn(RemoveByBucketId(st, B))
  <1>1. UnmarkBuckets(st, B).last = st.last
    BY DEF UnmarkBuckets, Kept, StorageOK
  <1>2. Stored(UnmarkBuckets(st, B)) = Stored(st)
    BY UnmarkKeeps
  <1>3. LastIsIn(UnmarkBuckets(st, B))
    BY <1>1, <1>2 DEF LastIsIn
  <1>4. RemoveByBucketId(st, B) = st \/ RemoveByBucketId(st, B).last = NULL
    BY DEF RemoveByBucketId, Kept, StorageOK
  <1>5. LastIsIn(RemoveByBucketId(st, B))
    BY <1>4 DEF LastIsIn
  <1>6. QED BY <1>3, <1>5

LEMMA LastStep ==
  ASSUME IInv, LastIsIn(storage), [Next]_vars
  PROVE  LastIsIn(storage')
  <1>1. Kept(storage)
    BY DEF IInv, TypeOK, Kept
  <1>2. CASE AddRecord
    <2> DEFINE st == AddLogRecord(storage, added + 1)
    <2>1. added \in Nat /\ added + 1 \in Records
      BY <1>2, StorageAssumption DEF IInv, TypeOK, AddRecord, StorageAssumption, Records
    <2>2. LastIsIn(st) /\ Kept(st)
      BY <1>1, <2>1, AddLast, AddKeeps DEF IInv
    <2>3. storage' = st \/ storage' = Retry(st)
      BY <1>2 DEF AddRecord, HandleTimeout
    <2> HIDE DEF st
    <2>4. QED BY <2>2, <2>3, SettleLast DEF Retry
  <1>3. CASE Authorize \/ Sync
    <2>1. storage' = storage \/ \E S : storage' = Mark(storage, S, NextBucketId)
      BY <1>3 DEF Authorize, Sync, SerializeLogs, FailToWrite, WriteBucket
    <2>2. ASSUME NEW S, storage' = Mark(storage, S, NextBucketId) PROVE LastIsIn(storage')
      <3>1. storage'.last = storage.last
        BY <1>1, <2>2 DEF Mark, Kept, StorageOK
      <3>2. Stored(storage') = Stored(storage)
        BY <1>1, <2>2, MarkKeeps, BucketTypes DEF IInv, TypeOK
      <3>3. QED BY <3>1, <3>2 DEF LastIsIn
    <2>3. QED BY <2>1, <2>2
  <1>4. CASE HandleStatus
    BY <1>1, <1>4, SettleLast DEF HandleStatus, Settle
  <1>5. CASE ReceiveSync \/ FinishSync \/ StoreLogs \/ RejectLogs
             \/ Connack \/ Drop \/ Renew \/ UNCHANGED vars
    <2>1. storage' = storage
      BY <1>5 DEF ReceiveSync, FinishSync, StoreLogs, RejectLogs, Answer, Connack,
           Drop, Renew, client, ghosts, vars
    <2>2. QED BY <2>1
  <1>6. QED BY <1>2, <1>3, <1>4, <1>5 DEF Next, Collector

(* last_log_it is the tail of the list whenever it is set, so              *)
(* kaa_list_insert_after keeps the records in the order of the calls that  *)
(* added them.                                                             *)
THEOREM TailIsLast == Spec => []LastIsTail
  <1>1. Init => LastIsIn(storage)
    BY DEF Init, EmptyStorage, LastIsIn
  <1>2. IInv /\ LastIsIn(storage) /\ [Next]_vars => LastIsIn(storage)'
    BY LastStep
  <1>3. LastIsIn(storage) => LastIsTail
    BY DEF LastIsIn, LastIsTail
  <1>4. QED BY <1>1, <1>2, <1>3, Invariant, PTL DEF Spec
-----------------------------------------------------------------------------
(* Timers and what they wait for are counted together. *)

Timed == IsFiniteSet(requests) /\ AwaitedIsTimed

LEMMA Lengths ==
  ASSUME IInv, Timed
  PROVE  /\ timeouts \in Seq(BucketId) /\ Len(timeouts) \in Nat
         /\ statuses \in Seq(Status) /\ Len(statuses) \in Nat
         /\ inbox \in Seq(Status) /\ Len(inbox) \in Nat
         /\ IsFiniteSet(requests) /\ Cardinality(requests) \in Nat
         /\ ~outlived => Len(timeouts) >= Cardinality(requests) + Len(statuses) + Len(inbox)
  <1>1. timeouts \in Seq(BucketId) /\ statuses \in Seq(Status) /\ inbox \in Seq(Status)
    BY Zenon DEF IInv, TypeOK
  <1>2. Cardinality(requests) \in Nat
    BY FS_CardinalityType DEF Timed
  <1>3. QED BY <1>1, <1>2 DEF Timed, AwaitedIsTimed, InFlight

LEMMA NothingInFlight ==
  ASSUME requests' = {}, statuses' = <<>>, inbox' = <<>>, Len(timeouts') \in Nat
  PROVE  Timed'
  <1>1. IsFiniteSet(requests') /\ Cardinality(requests') = 0
    BY FS_EmptySet
  <1>2. Len(statuses') = 0 /\ Len(inbox') = 0
    OBVIOUS
  <1>3. QED BY <1>1, <1>2 DEF Timed, AwaitedIsTimed, InFlight

LEMMA SameFlight ==
  ASSUME Timed, timeouts' = timeouts, requests' = requests, statuses' = statuses,
         inbox' = inbox, outlived' = outlived
  PROVE  Timed'
  BY DEF Timed, AwaitedIsTimed, InFlight

LEMMA OneTimerLess ==
  ASSUME timeouts \in Seq(BucketId), NEW b, b # 0, timeouts # <<>>
  PROVE  Len(RemoveRequest(b)) = Len(timeouts) - 1
  <1> DEFINE found == {i \in DOMAIN timeouts : FindByBucketId(timeouts[i], b)}
  <1>1. found = DOMAIN timeouts /\ DOMAIN timeouts = 1 .. Len(timeouts) /\ Len(timeouts) \in Nat \ {0}
    <2>1. found = DOMAIN timeouts
      BY DEF FindByBucketId
    <2>2. DOMAIN timeouts = 1 .. Len(timeouts) /\ Len(timeouts) \in Nat
      OBVIOUS
    <2>3. Len(timeouts) # 0
      OBVIOUS
    <2>4. QED BY <2>1, <2>2, <2>3
  <1>2. Min(found) \in 1 .. Len(timeouts)
    <2>1. found \in SUBSET Nat /\ 1 \in found
      BY <1>1
    <2>2. Min(found) \in found
      BY <2>1, LeastElement
    <2>3. QED BY <1>1, <2>2
  <1>3. ASSUME NEW i \in 1 .. Len(timeouts) PROVE Len(RemoveAt(timeouts, i)) = Len(timeouts) - 1
    <2> DEFINE front == SubSeq(timeouts, 1, i - 1)
               back  == SubSeq(timeouts, i + 1, Len(timeouts))
    <2>1. /\ front \in Seq(BucketId) /\ Len(front) = i - 1
          /\ back \in Seq(BucketId) /\ Len(back) = Len(timeouts) - i
      BY <1>3
    <2>2. RemoveAt(timeouts, i) = front \o back
      BY DEF RemoveAt
    <2> HIDE DEF front, back
    <2>3. Len(front \o back) = Len(front) + Len(back)
      BY <2>1
    <2>4. i \in Nat /\ Len(timeouts) \in Nat
      BY <1>1, <1>3
    <2>5. (i - 1) + (Len(timeouts) - i) = Len(timeouts) - 1
      BY <2>4
    <2>6. QED BY <2>1, <2>2, <2>3, <2>5
  <1>4. RemoveRequest(b) = RemoveAt(timeouts, Min(found))
    BY <1>1 DEF RemoveRequest
  <1>5. QED BY <1>2, <1>3, <1>4

LEMMA TimedStep ==
  ASSUME IInv, Timed, [Next]_vars
  PROVE  Timed'
  <1> USE Lengths
  <1>1. CASE AddRecord
    <2>1. inbox' = <<>>
      BY <1>1 DEF AddRecord, reading, IInv
    <2>2. CASE timeouts' = timeouts /\ UNCHANGED <<network, outlived>>
      <3>1. requests' = requests /\ statuses' = statuses /\ inbox' = inbox
        BY <1>1, <2>2 DEF AddRecord, network, flight, reading
      <3>2. outlived' = outlived
        BY <2>2
      <3>3. QED BY <2>2, <3>1, <3>2, SameFlight
    <2>3. ASSUME NEW st, HandleTimeout(st) PROVE Timed'
      <3>1. timeouts' = <<>> /\ (~outlived' => LoseFlight)
        BY <2>3 DEF HandleTimeout, LoseFlight
      <3>2. requests' \subseteq requests
        BY <2>3, Failed DEF HandleTimeout, LoseFlight, IInv, TypeOK
      <3>3. CASE outlived'
        BY <3>2, <3>3, FS_Subset DEF Timed, AwaitedIsTimed
      <3>4. CASE ~outlived'
        BY <2>1, <3>1, <3>4, NothingInFlight DEF LoseFlight
      <3>5. QED BY <3>3, <3>4
    <2>4. QED BY <1>1, <2>2, <2>3 DEF AddRecord
  <1>2. CASE Authorize \/ Sync
    <2>1. statuses' = statuses /\ inbox' = inbox /\ outlived' = outlived
      BY <1>2 DEF Authorize, Sync, reading
    <2>2. CASE timeouts' = timeouts /\ requests' = requests
      BY <2>1, <2>2, SameFlight
    <2>3. CASE \E S : WriteBucket(S)
      <3>1. PICK q : requests' = requests \/ requests' = requests \cup {q}
        BY <2>3 DEF WriteBucket
      <3>2. IsFiniteSet(requests') /\ Cardinality(requests') \in Nat
            /\ Cardinality(requests') <= Cardinality(requests) + 1
        <4>1. /\ IsFiniteSet(requests \cup {q})
              /\ \/ Cardinality(requests \cup {q}) = Cardinality(requests)
                 \/ Cardinality(requests \cup {q}) = Cardinality(requests) + 1
          BY FS_AddElement
        <4>2. IsFiniteSet(requests) /\ Cardinality(requests) \in Nat
          BY Lengths
        <4>3. CASE requests' = requests
          BY <4>2, <4>3
        <4>4. CASE requests' = requests \cup {q}
          BY <4>1, <4>2, <4>4
        <4>5. QED BY <3>1, <4>3, <4>4
      <3>3. timeouts' = <<NextBucketId>> \o timeouts /\ NextBucketId \in BucketId
        BY <2>3, BucketTypes DEF WriteBucket, IInv, TypeOK
      <3>4. Len(timeouts') = Len(timeouts) + 1
        BY <3>3
      <3>5. QED BY <2>1, <3>2, <3>4 DEF Timed, AwaitedIsTimed, InFlight
    <2>4. QED BY <1>2, <2>2, <2>3 DEF Authorize, Sync, SerializeLogs, FailToWrite
  <1>3. CASE ReceiveSync
    <2>1. PICK n \in 1 .. Len(statuses) :
            inbox' = SubSeq(statuses, 1, n) /\ statuses' = SubSeq(statuses, n + 1, Len(statuses))
      BY <1>3 DEF ReceiveSync
    <2>2. Len(inbox') = n /\ Len(statuses') = Len(statuses) - n
      BY <2>1
    <2>3. /\ timeouts' = timeouts /\ requests' = requests /\ Len(inbox) = 0
          /\ outlived' = outlived
      BY <1>3 DEF ReceiveSync, client, ghosts, IInv
    <2>4. QED BY <2>2, <2>3 DEF Timed, AwaitedIsTimed, InFlight
  <1>4. CASE HandleStatus
    <2>1. /\ inbox # <<>> /\ inbox' = Tail(inbox) /\ requests' = requests /\ statuses' = statuses
          /\ timeouts' = RemoveRequest(Head(inbox).bucket) /\ outlived' = outlived
      BY <1>4 DEF HandleStatus, network, flight, ghosts
    <2>2. Len(inbox') = Len(inbox) - 1 /\ Len(inbox) > 0
      BY <2>1
    <2>3. CASE outlived
      BY <2>1, <2>3 DEF Timed, AwaitedIsTimed
    <2>4. CASE ~outlived
      <3>1. timeouts # <<>>
        BY <2>2, <2>4
      <3>2. 1 \in DOMAIN inbox /\ Head(inbox) = inbox[1]
        BY <2>1
      <3>3. Head(inbox).bucket # 0
        BY <3>2 DEF IInv, AllAnswered, Answered
      <3>4. Len(timeouts') = Len(timeouts) - 1
        BY <2>1, <3>1, <3>3, OneTimerLess
      <3>5. QED BY <2>1, <2>2, <3>4 DEF Timed, AwaitedIsTimed, InFlight
    <2>5. QED BY <2>3, <2>4
  <1>5. CASE FinishSync
    BY <1>5, SameFlight DEF FinishSync, network, flight, ghosts
  <1>6. CASE StoreLogs \/ RejectLogs
    <2>1. PICK q \in requests, ok \in BOOLEAN : Answer(q, ok)
      BY <1>6 DEF StoreLogs, RejectLogs
    <2>2. /\ requests' = requests \ {q} /\ timeouts' = timeouts /\ inbox' = inbox
          /\ statuses' = statuses \o <<[bucket |-> q.bucket, ok |-> ok]>>
          /\ outlived' = outlived
      BY <2>1 DEF Answer, client, reading
    <2>3. IsFiniteSet(requests') /\ Cardinality(requests') = Cardinality(requests) - 1
      BY <2>2, FS_RemoveElement
    <2>4. Len(statuses') = Len(statuses) + 1
      <3>1. q \in Request
        BY DEF IInv, TypeOK
      <3>2. [bucket |-> q.bucket, ok |-> ok] \in Status
        BY <3>1 DEF Request, Status
      <3>3. QED BY <2>2, <3>2
    <2>5. QED BY <2>2, <2>3, <2>4 DEF Timed, AwaitedIsTimed, InFlight
  <1>7. CASE Connack \/ Drop \/ Renew
    <2>1. timeouts' = timeouts /\ inbox' = inbox /\ outlived' = outlived
      BY <1>7, Linked DEF client, reading, ghosts
    <2>2. CASE LoseFlight
      <3>1. IsFiniteSet(requests') /\ Cardinality(requests') = 0 /\ Len(statuses') = 0
        BY <2>2, FS_EmptySet DEF LoseFlight
      <3>2. QED BY <2>1, <3>1 DEF Timed, AwaitedIsTimed, InFlight
    <2>3. CASE requests' = requests /\ statuses' = statuses
      BY <2>1, <2>3, SameFlight
    <2>4. QED BY <1>7, <2>2, <2>3, Linked
  <1>8. CASE UNCHANGED vars
    BY <1>8, SameFlight DEF vars, client, network, flight, reading, ghosts
  <1>9. QED BY <1>1, <1>2, <1>3, <1>4, <1>5, <1>6, <1>7, <1>8 DEF Next, Collector

(* Until a timeout has left a request on its way, whose timer it stops     *)
(* with all the others, a status that can still arrive has a timer left    *)
(* for it, although remove_request takes the newest one whatever the       *)
(* bucket.                                                                 *)
THEOREM AnswersAreTimed == Spec => []AwaitedIsTimed
  <1>1. Init => Timed
    BY FS_EmptySet DEF Init, Timed, AwaitedIsTimed, InFlight
  <1>2. IInv /\ Timed /\ [Next]_vars => Timed'
    BY TimedStep
  <1>3. Timed => AwaitedIsTimed
    BY DEF Timed
  <1>4. QED BY <1>1, <1>2, <1>3, Invariant, PTL DEF Spec
-----------------------------------------------------------------------------
(* The counters. *)

LEMMA FittingIn ==
  ASSUME NEW st, NEW start, NEW room
  PROVE  Fitting(st, start, room) \subseteq Unmarked(st)
  BY DEF Fitting

LEMMA AddCounted ==
  ASSUME NEW st, Kept(st), Counted(st), NEW r \in Records \ Stored(st)
  PROVE  Counted(AddLogRecord(st, r))
  <1>1. CASE AddLogRecord(st, r) = Link(st, r)
    BY <1>1, LinkCounted DEF Kept
  <1>2. CASE AddLogRecord(st, r) = Link(Shrink(st), r)
    <2>1. Kept(Shrink(st)) /\ Stored(Shrink(st)) \subseteq Stored(st)
      BY ShrinkKeeps
    <2>2. Counted(Shrink(st))
      BY ShrinkCounted DEF Kept
    <2>3. r \in Records \ Stored(Shrink(st))
      BY <2>1
    <2>4. Counted(Link(Shrink(st), r))
      BY <2>1, <2>2, <2>3, LinkCounted DEF Kept
    <2>5. QED BY <1>2, <2>4
  <1>3. QED BY <1>1, <1>2 DEF AddLogRecord

(* What a client sync does to the storage: a new bucket is marked, or      *)
(* nothing happens to it.                                                  *)
Bucketed(S, b) ==
  /\ b = NextBucketId /\ b \in BucketId \ {UNMARKED} /\ b \notin Outstanding
  /\ S # {}
  /\ \E start \in SearchStarts(storage) : S = Fitting(storage, start, BucketSize)
  /\ astray' = (astray \/ Dangling(storage))
  /\ storage' = Mark(storage, S, b)
  /\ timeouts' = <<b>> \o timeouts
  /\ requests' \in {requests, requests \cup {[bucket |-> b, records |-> S]}}

Unbucketed ==
  /\ astray' = (astray \/ Dangling(storage)) \/ astray' = astray
  /\ UNCHANGED <<storage, timeouts, requests>>

LEMMA SyncCases ==
  ASSUME IInv, Authorize \/ Sync
  PROVE  /\ ~handling
         /\ UNCHANGED <<statuses, reading, added, delivered, outlived, budgets>>
         /\ Unbucketed \/ \E S \in SUBSET Unmarked(storage) : \E b : Bucketed(S, b)
  <1>1. ~handling /\ IdIsFree /\ UNCHANGED <<statuses, reading, added, delivered, outlived, budgets>>
    BY DEF Authorize, Sync
  <1>2. \/ UNCHANGED <<storage, timeouts, requests, astray>>
        \/ /\ astray' = (astray \/ Dangling(storage))
           /\ \/ FailToWrite
              \/ /\ NextBucketId # 0
                 /\ \E start \in SearchStarts(storage) :
                      LET S == Fitting(storage, start, BucketSize) IN S # {} /\ WriteBucket(S)
    BY DEF Authorize, Sync, SerializeLogs
  <1>3. CASE UNCHANGED <<storage, timeouts, requests, astray>>
    BY <1>1, <1>3 DEF Unbucketed
  <1>4. CASE astray' = (astray \/ Dangling(storage)) /\ FailToWrite
    BY <1>1, <1>4 DEF Unbucketed, FailToWrite
  <1>5. ASSUME astray' = (astray \/ Dangling(storage)), NextBucketId # 0,
               NEW start \in SearchStarts(storage), NEW S,
               S = Fitting(storage, start, BucketSize), S # {}, WriteBucket(S)
        PROVE  S \in SUBSET Unmarked(storage) /\ Bucketed(S, NextBucketId)
    <2>1. S \in SUBSET Unmarked(storage)
      BY <1>5, FittingIn
    <2>2. NextBucketId \in BucketId \ {UNMARKED} /\ NextBucketId \notin Outstanding
      BY <1>1, <1>5, BucketTypes DEF IInv, TypeOK, UNMARKED, IdIsFree
    <2>3. QED BY <1>5, <2>1, <2>2 DEF Bucketed, WriteBucket
  <1>6. QED BY <1>1, <1>2, <1>3, <1>4, <1>5

CountInv == Counted(storage) /\ timeouts \in Seq(BucketId \ {UNMARKED})

LEMMA TimersMarked ==
  ASSUME CountInv
  PROVE  UNMARKED \notin ToSet(timeouts)
  BY DEF CountInv, ToSet

LEMMA FirstStatus ==
  ASSUME IInv, HandleStatus
  PROVE  /\ Head(inbox) \in Status /\ Head(inbox).bucket # UNMARKED
         /\ Head(inbox) \in ToSet(inbox) /\ ToSet(Tail(inbox)) \subseteq ToSet(inbox)
  <1>1. inbox \in Seq(Status) /\ inbox # <<>>
    BY DEF HandleStatus, IInv, TypeOK
  <1>2. 1 \in DOMAIN inbox /\ Head(inbox) = inbox[1]
    BY <1>1
  <1>3. Head(inbox).bucket # UNMARKED
    BY <1>2 DEF IInv, AllAnswered, Answered, UNMARKED
  <1>4. \A i \in DOMAIN Tail(inbox) : i + 1 \in DOMAIN inbox /\ Tail(inbox)[i] = inbox[i + 1]
    BY <1>1
  <1>5. ToSet(Tail(inbox)) \subseteq ToSet(inbox)
    BY <1>4 DEF ToSet
  <1>6. QED BY <1>1, <1>2, <1>3, <1>5 DEF ToSet

LEMMA NewRecord ==
  ASSUME IInv, AddRecord
  PROVE  /\ added \in Nat /\ added' = added + 1
         /\ added + 1 \in Records \ Stored(storage)
         /\ \A q \in Stored(storage) : q < added + 1
  <1>1. added \in Nat /\ added' = added + 1 /\ added + 1 \in Records
    BY StorageAssumption DEF IInv, TypeOK, AddRecord, StorageAssumption, Records
  <1>2. Stored(storage) \subseteq 1 .. added
    BY DEF IInv
  <1>3. \A q \in Stored(storage) : q \in Nat /\ q < added + 1
    BY <1>1, <1>2
  <1>4. added + 1 \notin Stored(storage)
    BY <1>1, <1>3
  <1>5. QED BY <1>1, <1>3, <1>4

LEMMA CountStep ==
  ASSUME IInv, CountInv, [Next]_vars
  PROVE  CountInv'
  <1> DEFINE Timers == Seq(BucketId \ {UNMARKED})
  <1>1. Kept(storage) /\ Counted(storage) /\ timeouts \in Timers
    BY DEF IInv, TypeOK, Kept, CountInv
  <1>2. CASE AddRecord
    <2> DEFINE st == AddLogRecord(storage, added + 1)
    <2>1. Kept(st) /\ Counted(st)
      BY <1>1, <1>2, NewRecord, AddKeeps, AddCounted
    <2>2. storage' = st \/ storage' = UnmarkBuckets(st, ToSet(timeouts))
      BY <1>2 DEF AddRecord, HandleTimeout, Retry
    <2> HIDE DEF st
    <2>3. Counted(UnmarkBuckets(st, ToSet(timeouts)))
      BY <2>1, UnmarkCounted, TimersMarked DEF Kept
    <2>4. timeouts' = timeouts \/ timeouts' = <<>>
      BY <1>2 DEF AddRecord, HandleTimeout
    <2>5. timeouts' \in Timers
      <3>1. <<>> \in Timers
        OBVIOUS
      <3>2. QED BY <1>1, <2>4, <3>1, Zenon
    <2>6. QED BY <2>1, <2>2, <2>3, <2>5 DEF CountInv
  <1>3. CASE Authorize \/ Sync
    <2>1. CASE Unbucketed
      BY <1>1, <2>1 DEF Unbucketed, CountInv
    <2>2. ASSUME NEW S \in SUBSET Unmarked(storage), NEW b, Bucketed(S, b) PROVE CountInv'
      <3>1. b \in BucketId \ {UNMARKED} /\ storage' = Mark(storage, S, b)
            /\ timeouts' = <<b>> \o timeouts
        BY <2>2 DEF Bucketed
      <3>2. Counted(Mark(storage, S, b))
        BY <1>1, <3>1, MarkCounted DEF Kept
      <3>3. timeouts' \in Timers
        BY <1>1, <3>1
      <3>4. QED BY <3>1, <3>2, <3>3 DEF CountInv
    <2>3. QED BY <1>3, <2>1, <2>2, SyncCases
  <1>4. CASE HandleStatus
    <2> DEFINE b == Head(inbox).bucket
    <2>1. b # UNMARKED
      BY <1>4, FirstStatus
    <2>2. /\ storage' = RemoveByBucketId(storage, b) \/ storage' = UnmarkBuckets(storage, {b})
          /\ timeouts' = RemoveRequest(b)
      BY <1>4 DEF HandleStatus, Settle
    <2> HIDE DEF b
    <2>3. Counted(RemoveByBucketId(storage, b))
      BY <1>1, <2>1, RemoveCounted DEF Kept
    <2>4. Counted(UnmarkBuckets(storage, {b}))
      <3>1. UNMARKED \notin {b}
        BY <2>1
      <3>2. QED BY <1>1, <3>1, UnmarkCounted DEF Kept
    <2>5. timeouts' \in Timers
      BY <1>1, <2>2, TimerRemoved
    <2>6. QED BY <2>2, <2>3, <2>4, <2>5 DEF CountInv
  <1>5. CASE ReceiveSync \/ FinishSync \/ StoreLogs \/ RejectLogs
             \/ Connack \/ Drop \/ Renew \/ UNCHANGED vars
    <2>1. storage' = storage /\ timeouts' = timeouts
      BY <1>5 DEF ReceiveSync, FinishSync, StoreLogs, RejectLogs, Answer, Connack,
           Drop, Renew, client, ghosts, vars
    <2>2. QED BY <1>1, <2>1 DEF CountInv
  <1>6. QED BY <1>2, <1>3, <1>4, <1>5 DEF Next, Collector

LEMMA CountInit == Init => CountInv
  <1> SUFFICES ASSUME Init PROVE CountInv
    OBVIOUS
  <1>1. storage = EmptyStorage /\ Stored(storage) = {}
    BY EmptyOK DEF Init
  <1>2. Unmarked(storage) = {}
    BY <1>1 DEF Unmarked, InBuckets
  <1>3. storage.total = 0 /\ storage.unmarked = 0 /\ storage.count = 0
    BY <1>1 DEF EmptyStorage
  <1>4. Counted(storage)
    BY <1>1, <1>2, <1>3, SizeOfSteps, FS_EmptySet DEF Counted
  <1>5. timeouts \in Seq(BucketId \ {UNMARKED})
    BY DEF Init
  <1>6. QED BY <1>4, <1>5 DEF CountInv

LEMMA Counters == Spec => []CountInv
  BY Invariant, CountInit, CountStep, PTL DEF Spec

(* total_occupied_size, unmarked_occupied_size and unmarked_record_count,  *)
(* which every operation of ext_log_storage_memory.c keeps by hand, are    *)
(* always what the list holds, so the strategy decides by the records      *)
(* there are and forced removal stops where it should.                     *)
THEOREM CountersAreExact == Spec => []CountersMatch
  <1>1. CountInv => CountersMatch
    BY DEF CountInv, Counted, CountersMatch
  <1>2. QED BY <1>1, Counters, PTL
-----------------------------------------------------------------------------
(* The limit. *)

(* Within max_storage_size, or one record more than what forced removal     *)
(* leaves.                                                                 *)
OneRecordOver(st) ==
  \/ st.total <= MaxStorage
  \/ \E r \in Records : st.total <= ForcedSize + RecordSize[r]

LEMMA AddFits ==
  ASSUME NEW st, Kept(st), Counted(st), NEW r \in Records \ Stored(st), MaxStorage # 0
  PROVE  OneRecordOver(AddLogRecord(st, r))
  <1>1. MaxStorage \in Nat /\ ForcedSize \in Nat /\ RecordSize[r] \in Nat
    BY SizeType, StorageAssumption DEF StorageAssumption
  <1>2. st.total \in Nat
    BY Shape, SizeOfType DEF Counted
  <1>3. ASSUME NEW x, Kept(x) PROVE Link(x, r).total = x.total + RecordSize[r]
    BY <1>3 DEF Link, Kept, StorageOK
  <1>4. CASE st.total + RecordSize[r] > MaxStorage
    <2>1. AddLogRecord(st, r) = Link(Shrink(st), r)
      BY <1>4 DEF AddLogRecord
    <2>2. Kept(Shrink(st)) /\ Shrink(st).total <= ForcedSize
      BY ShrinkKeeps, ShrinkFits DEF Kept
    <2>3. Shrink(st).total \in Nat
      BY <2>2, Shape, SizeOfType, ShrinkCounted DEF Kept, Counted
    <2>4. Link(Shrink(st), r).total = Shrink(st).total + RecordSize[r]
      BY <1>3, <2>2
    <2>5. Shrink(st).total + RecordSize[r] <= ForcedSize + RecordSize[r]
      BY <1>1, <2>2, <2>3
    <2>6. QED BY <2>1, <2>4, <2>5 DEF OneRecordOver
  <1>5. CASE ~(st.total + RecordSize[r] > MaxStorage)
    <2>1. AddLogRecord(st, r) = Link(st, r)
      BY <1>5 DEF AddLogRecord
    <2>2. Link(st, r).total = st.total + RecordSize[r]
      BY <1>3
    <2>3. QED BY <1>1, <1>2, <1>5, <2>1, <2>2 DEF OneRecordOver
  <1>6. QED BY <1>4, <1>5

FitInv == MaxStorage # 0 => OneRecordOver(storage)

LEMMA FitsStep ==
  ASSUME IInv, CountInv, FitInv, [Next]_vars
  PROVE  FitInv'
  <1> SUFFICES ASSUME MaxStorage # 0, OneRecordOver(storage) PROVE OneRecordOver(storage')
    BY DEF FitInv
  <1>1. Kept(storage) /\ Counted(storage)
    BY DEF IInv, TypeOK, Kept, CountInv
  <1>2. ASSUME NEW st, Kept(st), NEW C PROVE UnmarkBuckets(st, C).total = st.total
    BY <1>2 DEF UnmarkBuckets, Kept, StorageOK
  <1>3. CASE AddRecord
    <2> DEFINE st == AddLogRecord(storage, added + 1)
    <2>1. Kept(st) /\ OneRecordOver(st)
      BY <1>1, <1>3, NewRecord, AddKeeps, AddFits
    <2>2. storage' = st \/ storage' = UnmarkBuckets(st, ToSet(timeouts))
      BY <1>3 DEF AddRecord, HandleTimeout, Retry
    <2> HIDE DEF st
    <2>3. QED BY <1>2, <2>1, <2>2 DEF OneRecordOver
  <1>4. CASE Authorize \/ Sync
    <2>1. ASSUME NEW S, NEW b, storage' = Mark(storage, S, b) PROVE storage'.total = storage.total
      BY <1>1, <2>1 DEF Mark, Kept, StorageOK
    <2>2. storage' = storage \/ \E S, b : storage' = Mark(storage, S, b)
      BY <1>4, SyncCases DEF Unbucketed, Bucketed
    <2>3. QED BY <2>1, <2>2 DEF OneRecordOver
  <1>5. CASE HandleStatus
    <2> DEFINE b == Head(inbox).bucket
               gone == InBuckets(storage, {b})
    <2>1. storage' = RemoveByBucketId(storage, b) \/ storage' = UnmarkBuckets(storage, {b})
      BY <1>5 DEF HandleStatus, Settle
    <2>2. \/ RemoveByBucketId(storage, b) = storage
          \/ RemoveByBucketId(storage, b).total = storage.total - SizeOf(gone)
      BY <1>1 DEF RemoveByBucketId, Kept, StorageOK
    <2>3. gone \in SUBSET Records /\ Stored(storage) \in SUBSET Records
      BY <1>1, Shape DEF InBuckets
    <2>4. SizeOf(gone) \in Nat /\ storage.total \in Nat /\ MaxStorage \in Nat
      BY <1>1, <2>3, SizeOfType, StorageAssumption DEF Counted, StorageAssumption
    <2> HIDE DEF b, gone
    <2>5. storage'.total \in {storage.total, storage.total - SizeOf(gone)}
      BY <1>1, <1>2, <2>1, <2>2
    <2>6. storage'.total \in Int /\ storage'.total <= storage.total
      BY <2>4, <2>5
    <2>7. ForcedSize \in Nat /\ \A r \in Records : RecordSize[r] \in Nat
      BY SizeType, StorageAssumption DEF StorageAssumption
    <2>8. QED BY <2>4, <2>6, <2>7 DEF OneRecordOver
  <1>6. CASE ReceiveSync \/ FinishSync \/ StoreLogs \/ RejectLogs
             \/ Connack \/ Drop \/ Renew \/ UNCHANGED vars
    <2>1. storage' = storage
      BY <1>6 DEF ReceiveSync, FinishSync, StoreLogs, RejectLogs, Answer, Connack,
           Drop, Renew, client, ghosts, vars
    <2>2. QED BY <2>1
  <1>7. QED BY <1>3, <1>4, <1>5, <1>6 DEF Next, Collector

LEMMA Fits == Spec => []FitInv
  <1>1. Init => FitInv
    BY StorageAssumption DEF Init, EmptyStorage, FitInv, OneRecordOver, StorageAssumption
  <1>2. QED BY <1>1, FitsStep, Invariant, Counters, PTL DEF Spec

(* "Max size of the log storage" is kept at every step, if what forced     *)
(* removal leaves has room for one more record.  Nothing in the code makes *)
(* it so: ext_limited_log_storage_create takes any size and percentage,    *)
(* and add_log_record links a record of any size once it has removed.      *)
THEOREM StorageStaysWithin ==
  ASSUME \A r \in Records : ForcedSize + RecordSize[r] <= MaxStorage
  PROVE  Spec => []WithinMaxSize
  <1>1. FitInv /\ CountInv /\ IInv => WithinMaxSize
    <2> SUFFICES ASSUME FitInv, CountInv, IInv, MaxStorage # 0 PROVE storage.total <= MaxStorage
      BY DEF WithinMaxSize
    <2>1. storage.total \in Nat
      BY Shape, SizeOfType DEF IInv, TypeOK, Kept, CountInv, Counted
    <2>2. MaxStorage \in Nat /\ ForcedSize \in Nat /\ \A r \in Records : RecordSize[r] \in Nat
      BY SizeType, StorageAssumption DEF StorageAssumption
    <2>3. QED BY <2>1, <2>2 DEF FitInv, OneRecordOver
  <1>2. QED BY <1>1, Fits, Invariant, Counters, PTL

(* Whatever the sizes, a limited storage that is over its limit takes no   *)
(* more than one record and what forced removal leaves.                    *)
THEOREM StorageOverrun == Spec => [](MaxStorage # 0 => OneRecordOver(storage))
  BY Fits, PTL DEF FitInv
-----------------------------------------------------------------------------
(* The cursor: what a search from it finds. *)

LEMMA AddCursor ==
  ASSUME NEW st, Kept(st), Counted(st), NEW r \in Records,
         \A q \in Stored(st) : q < r, st.first <= r
  PROVE  LET x == AddLogRecord(st, r) IN
         /\ Kept(x)
         /\ x.first \in Stored(st) \cup {st.first, NULL}
         /\ NoneBefore(st) => NoneBefore(x)
         /\ Fresh(st) => Fresh(x)
         /\ \A L : Fresh(st) /\ Behind(st, L) => Behind(x, L)
         /\ MaxStorage = 0 => /\ Placed(st) => Placed(x)
                              /\ \A L : Behind(st, L) => Behind(x, L)
  <1> DEFINE x == AddLogRecord(st, r)
             y == Shrink(st)
  <1>1. Kept(x)
    BY AddKeeps
  <1>2. CASE x = Link(st, r)
    BY <1>1, <1>2, LinkCursor DEF Kept
  <1>3. CASE MaxStorage # 0 /\ x = Link(y, r)
    <2>1. Kept(y) /\ Stored(y) \subseteq Stored(st)
      BY ShrinkKeeps
    <2>2. /\ y.first \in Stored(st) \cup {st.first, NULL}
          /\ NoneBefore(st) => NoneBefore(y)
          /\ Fresh(st) => Fresh(y)
          /\ \A L : Fresh(st) /\ Behind(st, L) => Behind(y, L)
      BY ShrinkCursor DEF Kept
    <2>3. NULL <= r /\ Stored(st) \subseteq Nat /\ r \in Nat
      <3>1. Stored(st) \subseteq Records
        BY Shape
      <3>2. Records \subseteq Nat
        BY RecordsNat
      <3>3. r \in Nat /\ Stored(st) \subseteq Nat
        BY <3>1, <3>2
      <3>4. NULL <= r
        BY <3>3 DEF NULL
      <3>5. QED BY <3>3, <3>4
    <2>4. y.first <= r /\ \A q \in Stored(y) : q < r
      <3>1. \A q \in Stored(st) : q <= r
        BY <2>3
      <3>2. QED BY <2>1, <2>2, <2>3, <3>1
    <2> HIDE DEF x, y
    <2>5. /\ Link(y, r).first = y.first
          /\ NoneBefore(y) => NoneBefore(Link(y, r))
          /\ Fresh(y) => Fresh(Link(y, r))
          /\ \A L : Behind(y, L) => Behind(Link(y, r), L)
      BY <2>1, <2>4, LinkCursor DEF Kept
    <2>6. QED BY <1>1, <1>3, <2>2, <2>5 DEF x
  <1>4. QED BY <1>2, <1>3 DEF AddLogRecord

SearchInv ==
  /\ ~astray => NoneBefore(storage)
  /\ storage.first <= added

LEMMA FirstIn ==
  ASSUME IInv, SearchInv
  PROVE  /\ added \in Nat /\ storage.first \in 0 .. added
         /\ \A q \in Stored(storage) : q \in 0 .. added
  <1>1. added \in Nat
    BY StorageAssumption DEF IInv, TypeOK, StorageAssumption
  <1>2. storage.first \in Nat
    <2>1. Kept(storage)
      BY DEF IInv, TypeOK, Kept
    <2>2. storage.first \in Records \cup {NULL} /\ Records \subseteq Nat
      BY <2>1, Shape, RecordsNat
    <2>3. NULL \in Nat
      BY DEF NULL
    <2>4. QED BY <2>2, <2>3
  <1>3. QED BY <1>1, <1>2 DEF IInv, SearchInv

LEMMA AddedCursor ==
  ASSUME IInv, CountInv, SearchInv, AddRecord
  PROVE  LET x == AddLogRecord(storage, added + 1) IN
         /\ Kept(x)
         /\ x.first \in 0 .. added
         /\ NoneBefore(storage) => NoneBefore(x)
         /\ Fresh(storage) => Fresh(x)
         /\ \A L : Fresh(storage) /\ Behind(storage, L) => Behind(x, L)
         /\ MaxStorage = 0 => /\ Placed(storage) => Placed(x)
                              /\ \A L : Behind(storage, L) => Behind(x, L)
         /\ \/ storage' = x /\ timedOut' = timedOut /\ UNCHANGED network
            \/ /\ storage' = UnmarkBuckets(x, ToSet(timeouts)) /\ timedOut' = timedOut + 1
               /\ ~outlived' => LoseFlight
  <1> DEFINE r == added + 1
             x == AddLogRecord(storage, r)
  <1>1. Kept(storage) /\ Counted(storage) /\ r \in Records
    BY NewRecord DEF IInv, TypeOK, Kept, CountInv
  <1>2. /\ storage.first \in 0 .. added /\ added \in Nat
        /\ \A q \in Stored(storage) : q \in 0 .. added
    BY FirstIn
  <1>3. storage.first <= r /\ \A q \in Stored(storage) : q < r
    BY <1>2
  <1>4. /\ storage' = x /\ timedOut' = timedOut /\ UNCHANGED network
        \/ /\ storage' = UnmarkBuckets(x, ToSet(timeouts)) /\ timedOut' = timedOut + 1
           /\ ~outlived' => LoseFlight
    BY DEF AddRecord, HandleTimeout, Retry, LoseFlight
  <1> HIDE DEF r
  <1>5. /\ Kept(x)
        /\ x.first \in Stored(storage) \cup {storage.first, NULL}
        /\ NoneBefore(storage) => NoneBefore(x)
        /\ Fresh(storage) => Fresh(x)
        /\ \A L : Fresh(storage) /\ Behind(storage, L) => Behind(x, L)
        /\ MaxStorage = 0 => /\ Placed(storage) => Placed(x)
                             /\ \A L : Behind(storage, L) => Behind(x, L)
    BY <1>1, <1>3, AddCursor
  <1>6. x.first \in 0 .. added
    BY <1>2, <1>5 DEF NULL
  <1>7. QED BY <1>4, <1>5, <1>6 DEF x, r

(* A bucket begun where first_unmarked is placed. *)
LEMMA BucketCursor ==
  ASSUME IInv, SearchInv, NEW S \in SUBSET Unmarked(storage), NEW b, Bucketed(S, b)
  PROVE  /\ storage'.first \in 0 .. added
         /\ b \in BucketId \ {UNMARKED}
         /\ Unmarked(storage)' = Unmarked(storage) \ S
         /\ ~Dangling(storage) /\ NoneBefore(storage) =>
              /\ \A s \in S, u \in Unmarked(storage) \ S : s < u
              /\ Placed(storage')
              /\ Fresh(storage) => Fresh(storage')
              /\ \A L : Behind(storage, L) => Behind(storage', L \cup {b})
  <1>1. Kept(storage)
    BY DEF IInv, TypeOK, Kept
  <1>2. /\ S # {} /\ b \in BucketId \ {UNMARKED} /\ b \notin Outstanding
        /\ storage' = Mark(storage, S, b)
    BY DEF Bucketed
  <1>3. \A r \in Stored(storage) : storage.logs[r] # b
    BY <1>2 DEF Outstanding
  <1>4. /\ Unmarked(storage') = Unmarked(storage) \ S
        /\ storage'.first \in Stored(storage) \cup {NULL}
        /\ (\A s \in S, u \in Unmarked(storage) \ S : s < u) =>
             /\ Placed(storage')
             /\ Fresh(storage) => Fresh(storage')
             /\ \A L : Behind(storage, L) => Behind(storage', L \cup {b})
    BY <1>1, <1>2, <1>3, MarkCursor DEF Kept
  <1>5. storage'.first \in 0 .. added
    BY <1>4, FirstIn DEF NULL
  <1>6. ASSUME ~Dangling(storage), NoneBefore(storage)
        PROVE  \A s \in S, u \in Unmarked(storage) \ S : s < u
    <2>1. S = Fitting(storage, storage.first, BucketSize)
      BY <1>6 DEF Bucketed, SearchStarts
    <2>2. BucketSize \in Nat
      BY DeliveryAssumption DEF DeliveryAssumption
    <2>3. QED BY <1>1, <1>6, <2>1, <2>2, FittingOldest DEF Kept
  <1>7. QED BY <1>2, <1>4, <1>5, <1>6

LEMMA SearchStep ==
  ASSUME IInv, CountInv, SearchInv, [Next]_vars
  PROVE  SearchInv'
  <1>1. Kept(storage) /\ added \in Nat /\ storage.first \in 0 .. added
    BY FirstIn DEF IInv, TypeOK, Kept
  <1>2. CASE AddRecord
    <2> DEFINE x == AddLogRecord(storage, added + 1)
    <2>1. /\ Kept(x) /\ x.first \in 0 .. added /\ (NoneBefore(storage) => NoneBefore(x))
          /\ storage' = x \/ storage' = UnmarkBuckets(x, ToSet(timeouts))
      BY <1>2, AddedCursor
    <2>2. added' = added + 1 /\ astray' = astray
      BY <1>2 DEF AddRecord
    <2> HIDE DEF x
    <2>3. storage'.first \in {x.first, NULL} /\ (NoneBefore(x) => NoneBefore(storage'))
      BY <2>1, UnmarkCursor DEF Kept
    <2>4. storage'.first <= added'
      BY <1>1, <2>1, <2>2, <2>3 DEF NULL
    <2>5. QED BY <2>1, <2>2, <2>3, <2>4 DEF SearchInv
  <1>3. CASE Authorize \/ Sync
    <2>1. added' = added
      BY <1>3, SyncCases
    <2>2. CASE Unbucketed
      BY <2>1, <2>2 DEF Unbucketed, SearchInv
    <2>3. ASSUME NEW S \in SUBSET Unmarked(storage), NEW b, Bucketed(S, b) PROVE SearchInv'
      <3>1. ~astray' => ~astray /\ ~Dangling(storage)
        BY <2>3 DEF Bucketed
      <3>2. storage'.first <= added'
        BY <1>1, <2>1, <2>3, BucketCursor
      <3>3. ~astray' => NoneBefore(storage')
        BY <2>3, <3>1, BucketCursor DEF SearchInv, Placed
      <3>4. QED BY <3>2, <3>3 DEF SearchInv
    <2>4. QED BY <1>3, <2>2, <2>3, SyncCases
  <1>4. CASE HandleStatus
    <2> DEFINE b == Head(inbox).bucket
    <2>1. b # UNMARKED
      BY <1>4, FirstStatus
    <2>2. /\ storage' = RemoveByBucketId(storage, b) \/ storage' = UnmarkBuckets(storage, {b})
          /\ added' = added /\ astray' = astray
      BY <1>4 DEF HandleStatus, ghosts, Settle
    <2> HIDE DEF b
    <2>3. storage'.first \in {storage.first, NULL} /\ (NoneBefore(storage) => NoneBefore(storage'))
      BY <1>1, <2>1, <2>2, RemoveCursor, UnmarkCursor DEF Kept
    <2>4. storage'.first <= added'
      BY <1>1, <2>2, <2>3 DEF NULL
    <2>5. QED BY <2>2, <2>3, <2>4 DEF SearchInv
  <1>5. CASE ReceiveSync \/ FinishSync \/ StoreLogs \/ RejectLogs
             \/ Connack \/ Drop \/ Renew \/ UNCHANGED vars
    <2>1. storage' = storage /\ added' = added /\ astray' = astray
      BY <1>5 DEF ReceiveSync, FinishSync, StoreLogs, RejectLogs, Answer, Connack,
           Drop, Renew, client, ghosts, vars
    <2>2. QED BY <2>1 DEF SearchInv
  <1>6. QED BY <1>2, <1>3, <1>4, <1>5 DEF Next, Collector

LEMMA SearchInit == Init => SearchInv
  <1> SUFFICES ASSUME Init PROVE SearchInv
    OBVIOUS
  <1>1. storage.first = NULL /\ added = 0
    BY DEF Init, EmptyStorage
  <1>2. QED BY <1>1 DEF SearchInv, NoneBefore, NULL

LEMMA Searches == Spec => []SearchInv
  BY Invariant, Counters, SearchInit, SearchStep, PTL DEF Spec

(* Until a search begins at a freed record, a new bucket takes the oldest  *)
(* records that are in none: first_unmarked is never behind one, however   *)
(* records are evicted, fail and time out, so that no record is overtaken  *)
(* by one added later.                                                     *)
THEOREM OldestGoFirst == Spec => OldestFirst
  <1>1. ASSUME IInv, SearchInv, [Next]_vars, ~astray', NEW q \in requests' \ requests,
               NEW sent \in q.records, NEW left \in Unmarked(storage')
        PROVE  sent < left
    <2>1. requests' \subseteq requests \/ Authorize \/ Sync
      <3>1. CASE AddRecord
        BY <1>1, <3>1, Failed
           DEF AddRecord, HandleTimeout, LoseFlight, network, flight, IInv, TypeOK
      <3>2. CASE Connack \/ Drop \/ Renew
        BY <1>1, <3>2, Linked DEF LoseFlight
      <3>3. CASE ReceiveSync \/ HandleStatus \/ FinishSync \/ StoreLogs \/ RejectLogs
                 \/ UNCHANGED vars
        BY <3>3 DEF ReceiveSync, HandleStatus, FinishSync, StoreLogs, RejectLogs, Answer,
           network, flight, vars
      <3>4. QED BY <1>1, <3>1, <3>2, <3>3 DEF Next, Collector
    <2>2. PICK S \in SUBSET Unmarked(storage) : \E b : Bucketed(S, b)
      BY <1>1, <2>1, SyncCases DEF Unbucketed
    <2>3. PICK b : Bucketed(S, b)
      BY <2>2
    <2>4. q = [bucket |-> b, records |-> S] /\ ~astray /\ ~Dangling(storage)
      BY <1>1, <2>3 DEF Bucketed
    <2>5. QED BY <1>1, <2>3, <2>4, BucketCursor DEF SearchInv
  <1>2. IInv /\ SearchInv /\ [Next]_vars =>
          [~astray' => \A q \in requests' \ requests :
                         \A sent \in q.records, left \in Unmarked(storage') : sent < left]_vars
    BY <1>1
  <1>3. QED BY <1>2, Invariant, Searches, PTL DEF Spec, OldestFirst
-----------------------------------------------------------------------------
(* The cursor stays in the list. *)

(* The buckets a status can still come for. *)
Awaited == ToSet(statuses) \cup ToSet(inbox)
Live == {q.bucket : q \in requests} \cup {s.bucket : s \in Awaited}

(* What makes CursorInStorage inductive: a bucket that can still be        *)
(* removed lies wholly before first_unmarked.                              *)
CursorInv ==
  NothingLeftBehind =>
    /\ Placed(storage)
    /\ timedOut = 0 => Fresh(storage)
    /\ Behind(storage, Live)
    /\ \A s \in Awaited : s.ok

LEMMA BehindFewer ==
  ASSUME NEW st, NEW L, Behind(st, L), NEW M, M \subseteq L
  PROVE  Behind(st, M)
  BY DEF Behind

LEMMA PartSeen ==
  ASSUME NEW seq \in Seq(Status), NEW m \in Nat, NEW n \in Nat, 1 <= m, n <= Len(seq)
  PROVE  ToSet(SubSeq(seq, m, n)) \subseteq ToSet(seq)
  <1> DEFINE part == SubSeq(seq, m, n)
  <1>1. \A i \in DOMAIN part : m + i - 1 \in DOMAIN seq /\ part[i] = seq[m + i - 1]
    OBVIOUS
  <1> HIDE DEF part
  <1>2. ToSet(part) \subseteq ToSet(seq)
    BY <1>1 DEF ToSet
  <1>3. QED BY <1>2 DEF part

LEMMA ReceivedSeen ==
  ASSUME IInv, ReceiveSync
  PROVE  /\ ToSet(inbox)' \subseteq ToSet(statuses) /\ ToSet(statuses)' \subseteq ToSet(statuses)
         /\ storage' = storage /\ requests' = requests
  <1>1. PICK n \in 1 .. Len(statuses) :
          inbox' = SubSeq(statuses, 1, n) /\ statuses' = SubSeq(statuses, n + 1, Len(statuses))
    BY DEF ReceiveSync
  <1>2. statuses \in Seq(Status)
    BY DEF IInv, TypeOK
  <1>3. n \in Nat /\ n + 1 \in Nat /\ 1 <= n + 1 /\ n <= Len(statuses) /\ Len(statuses) \in Nat
    BY <1>2
  <1>4. /\ ToSet(SubSeq(statuses, 1, n)) \subseteq ToSet(statuses)
        /\ ToSet(SubSeq(statuses, n + 1, Len(statuses))) \subseteq ToSet(statuses)
    BY <1>2, <1>3, PartSeen
  <1>5. QED BY <1>1, <1>4 DEF ReceiveSync, client

LEMMA AnsweredSeen ==
  ASSUME IInv, NEW q \in requests, NEW ok \in BOOLEAN, Answer(q, ok)
  PROVE  /\ ToSet(statuses)' = ToSet(statuses) \cup {[bucket |-> q.bucket, ok |-> ok]}
         /\ requests' = requests \ {q} /\ storage' = storage /\ inbox' = inbox
  <1> DEFINE s == [bucket |-> q.bucket, ok |-> ok]
  <1>1. /\ statuses' = statuses \o <<s>> /\ requests' = requests \ {q}
        /\ storage' = storage /\ inbox' = inbox
    BY DEF Answer, client, reading
  <1>2. statuses \in Seq(Status) /\ s \in Status
    BY DEF IInv, TypeOK, Request, Status
  <1> HIDE DEF s
  <1>3. ToSet(statuses \o <<s>>) = ToSet(statuses) \cup {s}
    <2>1. DOMAIN (statuses \o <<s>>) = DOMAIN statuses \cup {Len(statuses) + 1}
      BY <1>2
    <2>2. \A i \in DOMAIN statuses : (statuses \o <<s>>)[i] = statuses[i]
      BY <1>2
    <2>3. (statuses \o <<s>>)[Len(statuses) + 1] = s
      BY <1>2
    <2>4. QED BY <2>1, <2>2, <2>3 DEF ToSet
  <1>4. QED BY <1>1, <1>3 DEF s

LEMMA LeftBehindStays ==
  ASSUME IInv, NothingLeftBehind', [Next]_vars
  PROVE  NothingLeftBehind /\ failures' = failures /\ (timedOut' = 0 => timedOut = 0)
  <1>1. failures \in Nat /\ timedOut \in Nat
    BY DEF IInv, TypeOK
  <1>2. CASE AddRecord
    <2>1. failures' = failures /\ timedOut' \in {timedOut, timedOut + 1}
      BY <1>2 DEF AddRecord, HandleTimeout
    <2>2. outlived => outlived'
      BY <1>2, Zenon DEF AddRecord, HandleTimeout
    <2>3. QED BY <1>1, <2>1, <2>2 DEF NothingLeftBehind
  <1>3. CASE ~AddRecord
    <2>1. /\ failures' \in {failures, failures + 1}
          /\ timedOut' = timedOut /\ outlived' = outlived
      <3>1. CASE Connack \/ Drop \/ Renew
        <4>1. UNCHANGED <<ghosts, failures, timedOut>>
          BY <3>1, Linked
        <4>2. QED BY <4>1 DEF ghosts
      <3>2. CASE ~(Connack \/ Drop \/ Renew)
        BY <1>3, <3>2 DEF Next, Collector, Authorize, Sync, ReceiveSync, HandleStatus,
           FinishSync, StoreLogs, RejectLogs, Answer, vars, ghosts, budgets
      <3>3. QED BY <3>1, <3>2
    <2>2. QED BY <1>1, <2>1 DEF NothingLeftBehind
  <1>4. QED BY <1>2, <1>3

LEMMA CursorStep ==
  ASSUME IInv, CountInv, SearchInv, CursorInv, [Next]_vars
  PROVE  CursorInv'
  <1> SUFFICES ASSUME NothingLeftBehind'
               PROVE  /\ Placed(storage')
                      /\ timedOut' = 0 => Fresh(storage')
                      /\ Behind(storage', Live')
                      /\ \A s \in Awaited' : s.ok
    BY DEF CursorInv
  <1>1. /\ Placed(storage) /\ (timedOut = 0 => Fresh(storage))
        /\ Behind(storage, Live) /\ \A s \in Awaited : s.ok
    BY LeftBehindStays DEF CursorInv
  <1>2. Kept(storage) /\ timedOut \in Nat
    BY DEF IInv, TypeOK, Kept
  <1>3. CASE AddRecord
    <2> DEFINE x == AddLogRecord(storage, added + 1)
    <2>1. ~handling /\ inbox = <<>> /\ inbox' = inbox
      BY <1>3 DEF AddRecord, IInv, reading
    <2>2. /\ Kept(x)
          /\ Fresh(storage) => Fresh(x)
          /\ \A L : Fresh(storage) /\ Behind(storage, L) => Behind(x, L)
          /\ MaxStorage = 0 => /\ Placed(storage) => Placed(x)
                               /\ \A L : Behind(storage, L) => Behind(x, L)
      BY <1>3, AddedCursor
    <2>3. \/ storage' = x /\ timedOut' = timedOut /\ UNCHANGED network
          \/ /\ storage' = UnmarkBuckets(x, ToSet(timeouts)) /\ timedOut' = timedOut + 1
             /\ ~outlived' => LoseFlight
      BY <1>3, AddedCursor
    <2> HIDE DEF x
    <2>4. CASE storage' = x /\ timedOut' = timedOut /\ UNCHANGED network
      <3>1. Awaited' = Awaited /\ Live' = Live
        BY <2>1, <2>4 DEF network, flight, Awaited, Live
      <3>2. CASE timedOut = 0
        <4>1. Fresh(x) /\ Behind(x, Live)
          BY <1>1, <2>2, <3>2
        <4>2. QED BY <1>1, <2>4, <3>1, <4>1, FreshPlaced
      <3>3. CASE timedOut # 0
        <4>1. MaxStorage = 0
          BY <2>4, <3>3 DEF NothingLeftBehind
        <4>2. Placed(x) /\ Behind(x, Live)
          BY <1>1, <2>2, <4>1
        <4>3. QED BY <1>1, <2>4, <3>1, <3>3, <4>2
      <3>4. QED BY <3>2, <3>3
    <2>5. CASE /\ storage' = UnmarkBuckets(x, ToSet(timeouts)) /\ timedOut' = timedOut + 1
               /\ ~outlived' => LoseFlight
      <3>1. timedOut' # 0
        BY <1>2, <2>5
      <3>2. MaxStorage = 0 /\ LoseFlight
        BY <2>5, <3>1 DEF NothingLeftBehind
      <3>3. Placed(storage')
        BY <1>1, <2>2, <2>5, <3>2, UnmarkCursor DEF Kept
      <3>4. requests' = {} /\ ToSet(statuses') = {} /\ ToSet(inbox') = {}
        BY <2>1, <3>2 DEF LoseFlight, ToSet
      <3>5. Awaited' = {} /\ Live' = {}
        BY <3>4 DEF Awaited, Live
      <3>6. Behind(storage', Live')
        BY <3>5 DEF Behind
      <3>7. QED BY <3>1, <3>3, <3>5, <3>6
    <2>6. QED BY <2>3, <2>4, <2>5
  <1>4. CASE Authorize \/ Sync
    <2>1. UNCHANGED <<statuses, inbox, timedOut>> /\ Awaited' = Awaited
      BY <1>4, SyncCases DEF reading, budgets, Awaited
    <2>2. CASE Unbucketed
      <3>1. storage' = storage /\ Live' = Live
        BY <2>1, <2>2 DEF Unbucketed, Live
      <3>2. QED BY <1>1, <2>1, <3>1
    <2>3. ASSUME NEW S \in SUBSET Unmarked(storage), NEW b, Bucketed(S, b)
          PROVE  /\ Placed(storage')
                 /\ timedOut' = 0 => Fresh(storage')
                 /\ Behind(storage', Live')
      <3>1. ~Dangling(storage) /\ NoneBefore(storage)
        BY <1>1 DEF Placed
      <3>2. /\ Placed(storage')
            /\ Fresh(storage) => Fresh(storage')
            /\ \A L : Behind(storage, L) => Behind(storage', L \cup {b})
        BY <2>3, <3>1, BucketCursor
      <3>3. Live' \subseteq Live \cup {b}
        <4>1. PICK q : q = [bucket |-> b, records |-> S]
          OBVIOUS
        <4>2. q.bucket = b /\ requests' \subseteq requests \cup {q}
          BY <2>3, <4>1 DEF Bucketed
        <4>3. QED BY <2>1, <4>2 DEF Live
      <3>4. Behind(storage', Live')
        BY <1>1, <3>2, <3>3, BehindFewer
      <3>5. QED BY <1>1, <2>1, <3>2, <3>4
    <2>4. QED BY <1>1, <1>4, <2>1, <2>2, <2>3, SyncCases
  <1>5. CASE HandleStatus
    <2> DEFINE s == Head(inbox)
               b == Head(inbox).bucket
    <2>1. b # UNMARKED /\ s \in ToSet(inbox) /\ ToSet(Tail(inbox)) \subseteq ToSet(inbox)
      BY <1>5, FirstStatus
    <2>2. /\ inbox' = Tail(inbox) /\ statuses' = statuses /\ requests' = requests
          /\ timedOut' = timedOut /\ storage' = Settle(s)
      BY <1>5 DEF HandleStatus, network, flight, budgets
    <2>3. s.ok /\ b \in Live
      BY <1>1, <2>1 DEF Awaited, Live
    <2>4. storage' = RemoveByBucketId(storage, b)
      BY <2>2, <2>3 DEF Settle
    <2>5. Awaited' \subseteq Awaited /\ Live' \subseteq Live
      BY <2>1, <2>2 DEF Awaited, Live
    <2> HIDE DEF s, b
    <2>6. /\ Fresh(storage) => Fresh(storage')
          /\ \A L : Behind(storage, L) => Behind(storage', L)
          /\ \A L : b \in L /\ Behind(storage, L) /\ Placed(storage) => Placed(storage')
      BY <1>2, <2>1, <2>4, RemoveCursor DEF Kept
    <2>7. Behind(storage', Live')
      BY <1>1, <2>5, <2>6, BehindFewer
    <2>8. QED BY <1>1, <2>2, <2>3, <2>5, <2>6, <2>7
  <1>6. CASE ReceiveSync
    <2>1. Awaited' \subseteq Awaited /\ Live' \subseteq Live /\ storage' = storage
      BY <1>6, ReceivedSeen DEF Awaited, Live
    <2>2. timedOut' = timedOut
      BY <1>6 DEF ReceiveSync, budgets
    <2>3. QED BY <1>1, <2>1, <2>2, BehindFewer
  <1>7. CASE StoreLogs
    <2>1. PICK q \in requests : Answer(q, TRUE)
      BY <1>7 DEF StoreLogs
    <2>2. /\ Awaited' = Awaited \cup {[bucket |-> q.bucket, ok |-> TRUE]}
          /\ requests' = requests \ {q} /\ storage' = storage
      BY <2>1, AnsweredSeen DEF Awaited
    <2>3. Live' \subseteq Live
      BY <2>2 DEF Live
    <2>4. timedOut' = timedOut
      BY <2>1 DEF Answer
    <2>5. QED BY <1>1, <2>2, <2>3, <2>4, BehindFewer
  <1>8. CASE RejectLogs
    <2>1. failures' = failures + 1 /\ failures \in Nat
      BY <1>8 DEF RejectLogs, IInv, TypeOK
    <2>2. QED BY <2>1, LeftBehindStays
  <1>9. CASE Connack \/ Drop \/ Renew
    <2>1. inbox' = inbox /\ storage' = storage /\ timedOut' = timedOut
      BY <1>9, Linked DEF client, reading
    <2>2. requests' \subseteq requests /\ ToSet(statuses') \subseteq ToSet(statuses)
      BY <1>9, Linked DEF LoseFlight, ToSet
    <2>3. Awaited' \subseteq Awaited /\ Live' \subseteq Live
      BY <2>1, <2>2 DEF Awaited, Live
    <2>4. QED BY <1>1, <2>1, <2>3, BehindFewer
  <1>10. CASE FinishSync \/ UNCHANGED vars
    <2>1. /\ requests' = requests /\ statuses' = statuses /\ inbox' = inbox /\ storage' = storage
          /\ timedOut' = timedOut
      BY <1>10 DEF FinishSync, vars, client, network, flight, reading, budgets
    <2>2. Awaited' = Awaited /\ Live' = Live
      BY <2>1 DEF Awaited, Live
    <2>3. QED BY <1>1, <2>1, <2>2
  <1>11. QED BY <1>3, <1>4, <1>5, <1>6, <1>7, <1>8, <1>9, <1>10 DEF Next, Collector

LEMMA CursorInit == Init => CursorInv
  <1> SUFFICES ASSUME Init PROVE CursorInv
    OBVIOUS
  <1>1. storage.first = NULL /\ Stored(storage) = {}
    BY EmptyOK DEF Init, EmptyStorage
  <1>2. Unmarked(storage) = {}
    BY <1>1 DEF Unmarked, InBuckets
  <1>3. Fresh(storage) /\ Behind(storage, Live)
    BY <1>1, <1>2 DEF Fresh, NoneBefore, Behind
  <1>4. Awaited = {}
    BY DEF Init, Awaited, ToSet
  <1>5. QED BY <1>3, <1>4, FreshPlaced DEF CursorInv

(* first_unmarked names a record of the list, and none behind the first    *)
(* unmarked one, as long as no bucket was refused and none that timed out  *)
(* can be evicted or answered after all: then the buckets on their way,    *)
(* which are what remove_by_bucket_id can free, all lie before it.         *)
THEOREM CursorStaysInStorage == Spec => []CursorInStorage
  <1>1. CursorInv => CursorInStorage
    BY DEF CursorInv, CursorInStorage, CursorPlaced, Placed, Dangling, NoneBefore
  <1>2. QED BY <1>1, CursorInit, CursorStep, Invariant, Counters, Searches, PTL DEF Spec
-----------------------------------------------------------------------------
(* A record is on its way once. *)

LEMMA AddLogs ==
  ASSUME NEW st, Kept(st), NEW r \in Records \ Stored(st)
  PROVE  LET x == AddLogRecord(st, r) IN
         \A q \in Stored(x) : q # r => q \in Stored(st) /\ x.logs[q] = st.logs[q]
  <1> DEFINE y    == Shrink(st)
             left == Stored(st) \ Evicted(st)
  <1>1. ASSUME NEW z, Kept(z), NEW q \in Stored(Link(z, r)), q # r
        PROVE  q \in Stored(z) /\ Link(z, r).logs[q] = z.logs[q]
    <2>1. Link(z, r).logs = [p \in Stored(z) \cup {r} |-> IF p = r THEN UNMARKED ELSE z.logs[p]]
      BY <1>1 DEF Link, Kept, StorageOK
    <2>2. Stored(Link(z, r)) = Stored(z) \cup {r}
      BY <2>1 DEF Stored
    <2>3. QED BY <1>1, <2>1, <2>2
  <1>2. Kept(y)
    BY ShrinkKeeps
  <1>3. ASSUME NEW q \in Stored(y) PROVE q \in Stored(st) /\ y.logs[q] = st.logs[q]
    <2>1. y.logs = Restrict(st.logs, left)
      BY DEF Shrink, Kept, StorageOK
    <2>2. left \subseteq Stored(st)
      OBVIOUS
    <2> HIDE DEF y, left
    <2>3. QED BY <1>3, <2>1, <2>2 DEF Stored, Restrict
  <1> HIDE DEF y
  <1>4. CASE AddLogRecord(st, r) = Link(st, r)
    BY <1>1, <1>4
  <1>5. CASE AddLogRecord(st, r) = Link(y, r)
    BY <1>1, <1>2, <1>3, <1>5
  <1>6. QED BY <1>4, <1>5 DEF AddLogRecord, y

LEMMA MarkLogs ==
  ASSUME NEW st, Kept(st), NEW S, NEW b
  PROVE  LET x == Mark(st, S, b) IN
         /\ Stored(x) = Stored(st)
         /\ \A r \in Stored(st) : x.logs[r] = IF r \in S THEN b ELSE st.logs[r]
  <1>1. Mark(st, S, b).logs = [r \in Stored(st) |-> IF r \in S THEN b ELSE st.logs[r]]
    BY DEF Mark, Kept, StorageOK
  <1>2. QED BY <1>1 DEF Stored

LEMMA RemoveLogs ==
  ASSUME NEW st, Kept(st), NEW b
  PROVE  LET x == RemoveByBucketId(st, b) IN
         \A r \in Stored(x) : r \in Stored(st) /\ x.logs[r] = st.logs[r]
  <1> DEFINE x    == RemoveByBucketId(st, b)
             left == Stored(st) \ InBuckets(st, {b})
  <1>1. x = st \/ x.logs = Restrict(st.logs, left)
    BY DEF RemoveByBucketId, Kept, StorageOK
  <1> HIDE DEF x
  <1>2. QED BY <1>1 DEF Stored, Restrict, x

LEMMA UnmarkLogs ==
  ASSUME NEW st, Kept(st), NEW b
  PROVE  LET x == UnmarkBuckets(st, {b}) IN
         /\ Stored(x) = Stored(st)
         /\ \A r \in Stored(st) : st.logs[r] # b => x.logs[r] = st.logs[r]
  <1> DEFINE x == UnmarkBuckets(st, {b})
             S == InBuckets(st, {b})
  <1>1. x = st \/ x.logs = [r \in Stored(st) |-> IF r \in S THEN UNMARKED ELSE st.logs[r]]
    BY DEF UnmarkBuckets, Kept, StorageOK
  <1>2. \A r \in Stored(st) : r \in S <=> st.logs[r] = b
    BY DEF InBuckets
  <1> HIDE DEF x, S
  <1>3. QED BY <1>1, <1>2 DEF Stored, x

Asked == {q.bucket : q \in requests}
Rejected == {s.bucket : s \in {t \in Awaited : ~t.ok}}

(* Records that are to be sent again are in no other request, and not      *)
(* with the server.                                                        *)
Apart ==
  /\ \A p, q \in requests : p # q => p.bucket # q.bucket /\ p.records \cap q.records = {}
  /\ Asked \cap Rejected = {}
  /\ \A q \in requests : q.records \cap delivered = {}
  /\ \A q \in requests : \A r \in q.records \cap Stored(storage) : storage.logs[r] = q.bucket
  /\ \A r \in delivered \cap Stored(storage) :
       storage.logs[r] \notin Asked \cup Rejected \cup {UNMARKED}

DeliveryInv ==
  /\ delivered \subseteq 1 .. added
  /\ drops = 0 /\ timedOut = 0 => Apart

LEMMA RequestFacts ==
  ASSUME IInv, NEW q \in requests
  PROVE  q.bucket # UNMARKED /\ q.records \subseteq 1 .. added
  BY DEF IInv, AllRequested, Requested, UNMARKED

LEMMA AddApart ==
  ASSUME IInv, DeliveryInv, Apart, AddRecord, timedOut' = 0
  PROVE  Apart'
  <1> DEFINE r == added + 1
             x == AddLogRecord(storage, r)
  <1>1. Kept(storage) /\ r \in Records \ Stored(storage) /\ r \notin 1 .. added
    BY NewRecord DEF IInv, TypeOK, Kept
  <1>2. timedOut \in Nat
    BY DEF IInv, TypeOK
  <1>3. /\ storage' = x /\ requests' = requests /\ statuses' = statuses /\ inbox' = inbox
        /\ delivered' = delivered
    BY <1>2 DEF AddRecord, HandleTimeout, network, flight, reading
  <1>4. \A q \in Stored(storage') : q # r => q \in Stored(storage) /\ storage'.logs[q] = storage.logs[q]
    BY <1>1, <1>3, AddLogs
  <1> HIDE DEF x, r
  <1>5. r \notin delivered /\ \A q \in requests : r \notin q.records
    BY <1>1, RequestFacts DEF DeliveryInv
  <1>6. Asked' = Asked /\ Rejected' = Rejected
    BY <1>3 DEF Asked, Rejected, Awaited
  <1>7. QED BY <1>3, <1>4, <1>5, <1>6 DEF Apart

LEMMA BucketApart ==
  ASSUME IInv, Apart, ~handling, UNCHANGED <<statuses, inbox, delivered>>,
         NEW S \in SUBSET Unmarked(storage), NEW b, Bucketed(S, b)
  PROVE  Apart'
  <1>1. Kept(storage) /\ inbox = <<>>
    BY DEF IInv, TypeOK, Kept
  <1>2. /\ b # UNMARKED /\ b \notin Outstanding /\ storage' = Mark(storage, S, b)
    BY DEF Bucketed
  <1>3. PICK n : n = [bucket |-> b, records |-> S]
    OBVIOUS
  <1>4. n.bucket = b /\ n.records = S /\ requests' \in {requests, requests \cup {n}}
    BY <1>3 DEF Bucketed
  <1>5. /\ Stored(storage') = Stored(storage)
        /\ \A r \in Stored(storage) : storage'.logs[r] = IF r \in S THEN b ELSE storage.logs[r]
    BY <1>1, <1>2, MarkLogs
  <1>6. \A r \in S : r \in Stored(storage) /\ storage.logs[r] = UNMARKED
    BY DEF Unmarked, InBuckets
  <1>7. /\ \A q \in requests : q.bucket # b
        /\ \A r \in Stored(storage) : storage.logs[r] # b
        /\ \A s \in ToSet(statuses) : s.bucket # b
    BY <1>2 DEF Outstanding
  <1>8. ToSet(inbox) = {}
    BY <1>1 DEF ToSet
  <1>9. Awaited' = Awaited /\ \A s \in Awaited : s.bucket # b
    BY <1>7, <1>8 DEF Awaited
  <1>10. Asked' \subseteq Asked \cup {b} /\ Rejected' = Rejected /\ b \notin Rejected
    BY <1>4, <1>9 DEF Asked, Rejected
  <1>11. \A q \in requests : S \cap q.records = {}
    <2> SUFFICES ASSUME NEW q \in requests, NEW r \in S, r \in q.records PROVE FALSE
      OBVIOUS
    <2>1. storage.logs[r] = q.bucket
      BY <1>6 DEF Apart
    <2>2. QED BY <1>6, <2>1, RequestFacts
  <1>12. S \cap delivered = {}
    BY <1>6 DEF Apart
  <1>13. \A p, q \in requests' : p # q => p.bucket # q.bucket /\ p.records \cap q.records = {}
    BY <1>4, <1>7, <1>11 DEF Apart
  <1>14. \A q \in requests' : q.records \cap delivered = {}
    BY <1>4, <1>12 DEF Apart
  <1>15. \A q \in requests' : \A r \in q.records \cap Stored(storage') : storage'.logs[r] = q.bucket
    BY <1>4, <1>5, <1>11 DEF Apart
  <1>16. ASSUME NEW r \in delivered \cap Stored(storage')
         PROVE  storage'.logs[r] \notin Asked' \cup Rejected' \cup {UNMARKED}
    <2>1. r \in Stored(storage) /\ r \notin S /\ storage'.logs[r] = storage.logs[r]
      BY <1>5, <1>12
    <2>2. QED BY <1>7, <1>10, <2>1 DEF Apart
  <1>17. Asked' \cap Rejected' = {}
    BY <1>10 DEF Apart
  <1>18. QED BY <1>13, <1>14, <1>15, <1>16, <1>17 DEF Apart

LEMMA HandleApart ==
  ASSUME IInv, Apart, HandleStatus
  PROVE  Apart'
  <1> DEFINE s == Head(inbox)
             b == Head(inbox).bucket
  <1>1. Kept(storage)
    BY DEF IInv, TypeOK, Kept
  <1>2. s \in ToSet(inbox) /\ ToSet(Tail(inbox)) \subseteq ToSet(inbox)
    BY FirstStatus
  <1>3. /\ inbox' = Tail(inbox) /\ statuses' = statuses /\ requests' = requests
        /\ delivered' = delivered
        /\ storage' = IF s.ok THEN RemoveByBucketId(storage, b) ELSE UnmarkBuckets(storage, {b})
    BY DEF HandleStatus, network, flight, ghosts, Settle
  <1>4. Asked' = Asked /\ Rejected' \subseteq Rejected /\ s \in Awaited
    BY <1>2, <1>3 DEF Asked, Rejected, Awaited
  <1>5. ~s.ok => b \in Rejected
    BY <1>4 DEF Rejected
  <1> HIDE DEF s, b
  <1>6. \A r \in Stored(storage') :
           /\ r \in Stored(storage)
           /\ s.ok \/ storage.logs[r] # b => storage'.logs[r] = storage.logs[r]
    <2>1. CASE s.ok
      <3>1. storage' = RemoveByBucketId(storage, b)
        BY <1>3, <2>1
      <3>2. QED BY <1>1, <3>1, RemoveLogs
    <2>2. CASE ~s.ok
      <3>1. storage' = UnmarkBuckets(storage, {b})
        BY <1>3, <2>2
      <3>2. QED BY <1>1, <2>2, <3>1, UnmarkLogs
    <2>3. QED BY <2>1, <2>2
  <1>7. \A q \in requests : \A r \in q.records \cap Stored(storage') : storage'.logs[r] = q.bucket
    <2> SUFFICES ASSUME NEW q \in requests, NEW r \in q.records \cap Stored(storage')
                 PROVE  storage'.logs[r] = q.bucket
      OBVIOUS
    <2>1. r \in Stored(storage) /\ storage.logs[r] = q.bucket /\ q.bucket \in Asked
      BY <1>6 DEF Apart, Asked
    <2>2. s.ok \/ q.bucket # b
      BY <1>5, <2>1 DEF Apart
    <2>3. QED BY <1>6, <2>1, <2>2
  <1>8. ASSUME NEW r \in delivered \cap Stored(storage')
        PROVE  storage'.logs[r] \notin Asked' \cup Rejected' \cup {UNMARKED}
    <2>1. r \in Stored(storage) /\ storage.logs[r] \notin Asked \cup Rejected \cup {UNMARKED}
      BY <1>6 DEF Apart
    <2>2. s.ok \/ storage.logs[r] # b
      BY <1>5, <2>1
    <2>3. QED BY <1>4, <1>6, <2>1, <2>2
  <1>9. QED BY <1>3, <1>4, <1>7, <1>8 DEF Apart

LEMMA AnswerApart ==
  ASSUME IInv, DeliveryInv, NEW q \in requests, NEW ok \in BOOLEAN, Answer(q, ok)
  PROVE  delivered' \subseteq 1 .. added /\ (Apart => Apart')
  <1>1. PICK s : s = [bucket |-> q.bucket, ok |-> ok]
    OBVIOUS
  <1>2. s.bucket = q.bucket /\ s.ok = ok
    BY <1>1
  <1>3. /\ Awaited' = Awaited \cup {s}
        /\ requests' = requests \ {q} /\ storage' = storage
    BY <1>1, AnsweredSeen DEF Awaited
  <1>4. delivered' = IF ok THEN delivered \cup q.records ELSE delivered
    BY DEF Answer
  <1>5. q.bucket # UNMARKED /\ q.records \subseteq 1 .. added
    BY RequestFacts
  <1>6. delivered' \subseteq 1 .. added
    BY <1>4, <1>5 DEF DeliveryInv
  <1>7. ASSUME Apart PROVE Apart'
    <2>1. Asked' = Asked \ {q.bucket} /\ q.bucket \in Asked
      <3>1. \A p \in requests \ {q} : p.bucket # q.bucket
        BY <1>7 DEF Apart
      <3>2. QED BY <1>3, <3>1 DEF Asked
    <2>2. Rejected' = IF ok THEN Rejected ELSE Rejected \cup {q.bucket}
      BY <1>2, <1>3 DEF Rejected
    <2>3. Asked' \cap Rejected' = {}
      BY <1>7, <2>1, <2>2 DEF Apart
    <2>4. /\ \A p, t \in requests' : p # t => p.bucket # t.bucket /\ p.records \cap t.records = {}
          /\ \A p \in requests' : \A r \in p.records \cap Stored(storage') : storage'.logs[r] = p.bucket
      BY <1>3, <1>7 DEF Apart
    <2>5. \A p \in requests' : p.records \cap delivered' = {}
      <3>1. \A p \in requests' : p.records \cap q.records = {} /\ p.records \cap delivered = {}
        BY <1>3, <1>7 DEF Apart
      <3>2. QED BY <1>4, <3>1
    <2>6. ASSUME NEW r \in delivered' \cap Stored(storage')
          PROVE  storage'.logs[r] \notin Asked' \cup Rejected' \cup {UNMARKED}
      <3>1. CASE r \in delivered
        <4>1. storage.logs[r] \notin Asked \cup Rejected \cup {UNMARKED}
          BY <1>3, <1>7, <3>1 DEF Apart
        <4>2. QED BY <1>3, <2>1, <2>2, <4>1
      <3>2. CASE r \notin delivered
        <4>1. ok /\ storage.logs[r] = q.bucket
          BY <1>3, <1>4, <1>7, <3>2 DEF Apart
        <4>2. q.bucket \notin Rejected
          BY <1>7, <2>1 DEF Apart
        <4>3. QED BY <1>3, <1>5, <2>1, <2>2, <4>1, <4>2
      <3>3. QED BY <3>1, <3>2
    <2>7. QED BY <2>3, <2>4, <2>5, <2>6 DEF Apart
  <1>8. QED BY <1>6, <1>7

LEMMA DeliveryStep ==
  ASSUME IInv, DeliveryInv, [Next]_vars
  PROVE  DeliveryInv'
  <1>1. drops \in Nat /\ timedOut \in Nat /\ added \in Nat
    BY StorageAssumption DEF IInv, TypeOK, StorageAssumption
  <1>2. drops' \in {drops, drops + 1} /\ timedOut' \in {timedOut, timedOut + 1}
    <2>1. CASE Connack \/ Drop \/ Renew
      BY <2>1, Linked
    <2>2. CASE ~(Connack \/ Drop \/ Renew)
      BY <2>2 DEF Next, Collector, AddRecord, HandleTimeout, Authorize, Sync, ReceiveSync,
         HandleStatus, FinishSync, StoreLogs, RejectLogs, Answer, vars, budgets
    <2>3. QED BY <2>1, <2>2
  <1>3. drops' = 0 /\ timedOut' = 0 => Apart
    BY <1>1, <1>2 DEF DeliveryInv
  <1>4. SUFFICES delivered' \subseteq 1 .. added' /\ (drops' = 0 /\ timedOut' = 0 /\ Apart => Apart')
    BY <1>3 DEF DeliveryInv
  <1>5. CASE AddRecord
    <2>1. delivered' = delivered /\ added' = added + 1
      BY <1>5 DEF AddRecord
    <2>2. delivered' \subseteq 1 .. added'
      BY <1>1, <2>1 DEF DeliveryInv
    <2>3. QED BY <1>5, <2>2, AddApart
  <1>6. CASE Authorize \/ Sync
    <2>1. ~handling /\ UNCHANGED <<statuses, inbox, delivered, added>>
      BY <1>6, SyncCases DEF reading
    <2>2. CASE Unbucketed
      <3>1. storage' = storage /\ Asked' = Asked /\ Rejected' = Rejected /\ requests' = requests
        BY <2>1, <2>2 DEF Unbucketed, Asked, Rejected, Awaited
      <3>2. QED BY <2>1, <3>1 DEF Apart, DeliveryInv
    <2>3. QED BY <1>6, <2>1, <2>2, SyncCases, BucketApart DEF DeliveryInv
  <1>7. CASE HandleStatus
    <2>1. delivered' = delivered /\ added' = added
      BY <1>7 DEF HandleStatus, ghosts
    <2>2. QED BY <1>7, <2>1, HandleApart DEF DeliveryInv
  <1>8. CASE ReceiveSync
    <2>1. delivered' = delivered /\ added' = added
      BY <1>8 DEF ReceiveSync, ghosts
    <2>2. /\ Awaited' \subseteq Awaited /\ storage' = storage /\ requests' = requests
      BY <1>8, ReceivedSeen DEF Awaited
    <2>3. Asked' = Asked /\ Rejected' \subseteq Rejected
      BY <2>2 DEF Asked, Rejected
    <2>4. QED BY <2>1, <2>2, <2>3 DEF Apart, DeliveryInv
  <1>9. CASE StoreLogs
    <2>1. PICK q \in requests : Answer(q, TRUE)
      BY <1>9 DEF StoreLogs
    <2>2. added' = added
      BY <2>1 DEF Answer
    <2>3. QED BY <2>1, <2>2, AnswerApart
  <1>10. CASE RejectLogs
    <2>1. PICK q \in requests : Answer(q, FALSE)
      BY <1>10 DEF RejectLogs
    <2>2. added' = added
      BY <2>1 DEF Answer
    <2>3. QED BY <2>1, <2>2, AnswerApart
  <1>11. CASE Connack \/ Drop \/ Renew
    <2>1. /\ delivered' = delivered /\ added' = added /\ storage' = storage /\ inbox' = inbox
      BY <1>11, Linked DEF client, reading, ghosts
    <2>2. requests' \subseteq requests /\ ToSet(statuses') \subseteq ToSet(statuses)
      BY <1>11, Linked DEF LoseFlight, ToSet
    <2>3. Asked' \subseteq Asked /\ Rejected' \subseteq Rejected
      BY <2>1, <2>2 DEF Asked, Rejected, Awaited
    <2>4. QED BY <2>1, <2>2, <2>3 DEF Apart, DeliveryInv
  <1>12. CASE FinishSync \/ UNCHANGED vars
    <2>1. /\ requests' = requests /\ statuses' = statuses /\ inbox' = inbox /\ storage' = storage
          /\ delivered' = delivered /\ added' = added
      BY <1>12 DEF FinishSync, vars, client, network, flight, reading, ghosts
    <2>2. Asked' = Asked /\ Rejected' = Rejected
      BY <2>1 DEF Asked, Rejected, Awaited
    <2>3. QED BY <2>1, <2>2 DEF Apart, DeliveryInv
  <1>13. QED BY <1>5, <1>6, <1>7, <1>8, <1>9, <1>10, <1>11, <1>12 DEF Next, Collector

LEMMA DeliveryInit == Init => DeliveryInv
  <1> SUFFICES ASSUME Init PROVE DeliveryInv
    OBVIOUS
  <1>1. requests = {} /\ delivered = {}
    BY DEF Init
  <1>2. QED BY <1>1 DEF DeliveryInv, Apart, Asked

(* Until a connection is lost or an answer is late, no record is in two    *)
(* requests, and none the server has is sent again: also when buckets are  *)
(* refused and sent anew, evicted while they are on their way, or answered *)
(* out of order.                                                           *)
THEOREM SentOnce == Spec => []DeliveredOnce
  <1>1. DeliveryInv => DeliveredOnce
    BY DEF DeliveryInv, Apart, DeliveredOnce
  <1>2. QED BY <1>1, DeliveryInit, DeliveryStep, Invariant, PTL DEF Spec
=============================================================================
