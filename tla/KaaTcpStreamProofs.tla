------------------------- MODULE KaaTcpStreamProofs -------------------------
(***************************************************************************)
(* For any sizes of messages, buffers and reads, any number of messages    *)
(* and connections: what KaaTcpStream promises of the bytes.               *)
(*                                                                         *)
(* Parsing(p, q, b) says that the parser p, given the bytes b, has the     *)
(* messages q before it, the first of them perhaps in part behind it.      *)
(* A byte keeps it, or takes a message off q, and a message put in puts    *)
(* its bytes behind b: it holds of the server's parser with what is in the *)
(* out_buffer, and of the client's with what is on its way.                *)
(*                                                                         *)
(* The types hold of any server.  The rest is proved of one that stops at  *)
(* a message that closes the channel: the messages that follow one in the  *)
(* same read are handled, and may leave a state in a channel that is down. *)
(***************************************************************************)
EXTENDS KaaTcpStream, LeastElements, TLAPS

(* The recursive functions satisfy their equations. *)

LEMMA DivMod ==
  ASSUME NEW n \in Nat
  PROVE  /\ n = (n \div Base) * Base + (n % Base)
         /\ n \div Base \in Nat /\ n % Base \in Nat /\ n % Base < Base
         /\ n >= Base => n \div Base < n
  BY BaseAssumption DEF BaseAssumption

DigitsFrom(g, n) == IF n < Base THEN <<n>> ELSE <<(n % Base) + Base>> \o g[n \div Base]
DigitsUpTo(g, max) == g = [n \in 0 .. max |-> DigitsFrom(g, n)]

LEMMA DigitsExist ==
  ASSUME NEW max \in Nat
  PROVE  \E g : DigitsUpTo(g, max)
  <1> DEFINE Bad == {m \in Nat : ~\E g : DigitsUpTo(g, m)}
  <1>1. SUFFICES ASSUME Bad # {} PROVE FALSE
    OBVIOUS
  <1>2. PICK m \in Bad : \A k \in Bad : m <= k
    BY <1>1, LeastNumber
  <1>3. CASE m = 0
    <2> DEFINE g == [n \in 0 .. 0 |-> <<n>>]
    <2>1. g = [n \in 0 .. 0 |-> DigitsFrom(g, n)]
      BY BaseAssumption DEF BaseAssumption, DigitsFrom
    <2>2. QED BY <1>2, <1>3, <2>1 DEF DigitsUpTo
  <1>4. CASE m # 0
    <2>1. m - 1 \in Nat /\ ~(m <= m - 1)
      BY <1>2, <1>4
    <2>2. PICK h : DigitsUpTo(h, m - 1)
      BY <1>2, <2>1
    <2> DEFINE g == [n \in 0 .. m |-> IF n = m THEN DigitsFrom(h, m) ELSE h[n]]
    <2>3. \A n \in 0 .. m - 1 : h[n] = DigitsFrom(h, n)
      BY <2>2 DEF DigitsUpTo
    <2>4. ASSUME NEW n \in 0 .. m PROVE DigitsFrom(g, n) = DigitsFrom(h, n)
      <3>1. CASE n < Base
        BY <3>1 DEF DigitsFrom
      <3>2. CASE ~(n < Base)
        <4>1. n \in Nat /\ n >= Base
          BY <1>2, <3>2, BaseAssumption DEF BaseAssumption
        <4>2. n \div Base \in Nat /\ n \div Base < n
          BY <4>1, DivMod
        <4>3. n \div Base \in 0 .. m /\ n \div Base # m
          BY <1>2, <4>1, <4>2
        <4>4. g[n \div Base] = h[n \div Base]
          BY <4>3
        <4> HIDE DEF g
        <4>5. QED BY <4>4 DEF DigitsFrom
      <3>3. QED BY <3>1, <3>2
    <2>5. \A n \in 0 .. m : g[n] = DigitsFrom(h, n)
      <3>1. ASSUME NEW n \in 0 .. m, n # m PROVE n \in 0 .. m - 1
        BY <1>2, <3>1
      <3>2. QED BY <2>3, <3>1
    <2>6. DOMAIN g = 0 .. m /\ g = [n \in 0 .. m |-> g[n]]
      OBVIOUS
    <2> HIDE DEF g
    <2>7. g = [n \in 0 .. m |-> DigitsFrom(g, n)]
      BY <2>4, <2>5, <2>6
    <2>8. QED BY <1>2, <2>7 DEF DigitsUpTo
  <1>5. QED BY <1>3, <1>4

LEMMA DigitsAgree ==
  ASSUME NEW i \in Nat, NEW j \in Nat, NEW g, DigitsUpTo(g, i), NEW h, DigitsUpTo(h, j),
         NEW n \in Nat, n <= i, n <= j
  PROVE  g[n] = h[n]
  <1> DEFINE Bad == {k \in Nat : k <= i /\ k <= j /\ g[k] # h[k]}
  <1>1. SUFFICES ASSUME Bad # {} PROVE FALSE
    OBVIOUS
  <1>2. PICK k \in Bad : \A l \in Bad : k <= l
    BY <1>1, LeastNumber
  <1>3. g[k] = DigitsFrom(g, k) /\ h[k] = DigitsFrom(h, k)
    BY <1>2 DEF DigitsUpTo
  <1>4. k >= Base
    BY <1>2, <1>3, BaseAssumption DEF DigitsFrom, BaseAssumption
  <1>5. k \div Base \in Nat /\ k \div Base < k
    BY <1>2, <1>4, DivMod
  <1>6. g[k \div Base] = h[k \div Base]
    BY <1>2, <1>5
  <1>7. DigitsFrom(g, k) = DigitsFrom(h, k)
    BY <1>6 DEF DigitsFrom
  <1>8. QED BY <1>2, <1>3, <1>7

LEMMA DigitsEquation ==
  ASSUME NEW n \in Nat
  PROVE  LengthDigits[n] = DigitsFrom(LengthDigits, n)
  <1> DEFINE G(m) == CHOOSE g : DigitsUpTo(g, m)
             F == [m \in Nat |-> G(m)[m]]
  <1>1. \A m \in Nat : DigitsUpTo(G(m), m)
    BY DigitsExist
  <1> HIDE DEF G
  <1>2. ASSUME NEW m \in Nat PROVE F[m] = DigitsFrom(F, m)
    <2>1. G(m)[m] = DigitsFrom(G(m), m)
      BY <1>1 DEF DigitsUpTo
    <2>2. CASE m < Base
      BY <2>1, <2>2 DEF DigitsFrom
    <2>3. CASE ~(m < Base)
      <3>1. m >= Base
        BY <2>3, BaseAssumption DEF BaseAssumption
      <3>2. m \div Base \in Nat /\ m \div Base < m
        BY <3>1, DivMod
      <3>3. G(m)[m \div Base] = G(m \div Base)[m \div Base]
        BY <1>1, <3>2, DigitsAgree
      <3>4. F[m \div Base] = G(m)[m \div Base]
        BY <3>2, <3>3
      <3>5. QED BY <2>1, <2>3, <3>4 DEF DigitsFrom
    <2>4. QED BY <2>2, <2>3
  <1>3. F = [m \in Nat |-> F[m]]
    OBVIOUS
  <1> HIDE DEF F
  <1>4. F = [m \in Nat |-> DigitsFrom(F, m)]
    BY <1>2, <1>3
  <1>5. LengthDigits = [m \in Nat |-> DigitsFrom(LengthDigits, m)]
    BY <1>4 DEF LengthDigits, DigitsFrom
  <1>6. QED BY <1>5

Parsed(g, max, p, bytes) ==
  g = [i \in 0 .. max |-> IF i = 0 THEN [parser |-> p, done |-> <<>>, error |-> FALSE]
                          ELSE Process(g[i - 1], bytes[i])]

LEMMA ParsedExists ==
  ASSUME NEW p, NEW bytes, NEW max \in Nat
  PROVE  \E g : Parsed(g, max, p, bytes)
  <1> DEFINE Bad == {m \in Nat : ~\E g : Parsed(g, m, p, bytes)}
  <1>1. SUFFICES ASSUME Bad # {} PROVE FALSE
    OBVIOUS
  <1>2. PICK m \in Bad : \A k \in Bad : m <= k
    BY <1>1, LeastNumber
  <1>3. CASE m = 0
    <2> DEFINE g == [i \in 0 .. 0 |-> [parser |-> p, done |-> <<>>, error |-> FALSE]]
    <2>1. Parsed(g, 0, p, bytes)
      BY DEF Parsed
    <2>2. QED BY <1>2, <1>3, <2>1
  <1>4. CASE m # 0
    <2>1. m - 1 \in Nat /\ ~(m <= m - 1)
      BY <1>2, <1>4
    <2>2. PICK h : Parsed(h, m - 1, p, bytes)
      BY <1>2, <2>1
    <2> DEFINE g == [i \in 0 .. m |-> IF i = m THEN Process(h[m - 1], bytes[m]) ELSE h[i]]
    <2>3. \A i \in 0 .. m - 1 : h[i] = IF i = 0 THEN [parser |-> p, done |-> <<>>, error |-> FALSE]
                                       ELSE Process(h[i - 1], bytes[i])
      BY <2>2 DEF Parsed
    <2>4. ASSUME NEW i \in 0 .. m
          PROVE  g[i] = IF i = 0 THEN [parser |-> p, done |-> <<>>, error |-> FALSE]
                        ELSE Process(g[i - 1], bytes[i])
      <3>1. CASE i = m
        <4>1. m - 1 \in 0 .. m /\ m - 1 # m
          BY <2>1
        <4>2. QED BY <1>4, <3>1, <4>1
      <3>2. CASE i # m
        <4>1. i \in 0 .. m - 1 /\ (i # 0 => i - 1 \in 0 .. m /\ i - 1 # m)
          BY <1>2, <3>2
        <4>2. QED BY <2>3, <3>2, <4>1
      <3>3. QED BY <3>1, <3>2
    <2>5. g = [i \in 0 .. m |-> g[i]]
      OBVIOUS
    <2> HIDE DEF g
    <2>6. Parsed(g, m, p, bytes)
      BY <2>4, <2>5 DEF Parsed
    <2>7. QED BY <1>2, <2>6
  <1>5. QED BY <1>3, <1>4

(* A buffer is processed byte by byte. *)
LEMMA BufferSteps ==
  ASSUME NEW p, NEW bytes, Len(bytes) \in Nat
  PROVE  \E after :
           /\ after[0] = [parser |-> p, done |-> <<>>, error |-> FALSE]
           /\ \A i \in 1 .. Len(bytes) : after[i] = Process(after[i - 1], bytes[i])
           /\ ProcessBuffer(p, bytes) = after[Len(bytes)]
  <1> DEFINE g == CHOOSE g : Parsed(g, Len(bytes), p, bytes)
  <1>1. Parsed(g, Len(bytes), p, bytes)
    BY ParsedExists
  <1>2. ProcessBuffer(p, bytes) = g[Len(bytes)]
    BY DEF ProcessBuffer, Parsed
  <1> HIDE DEF g
  <1>3. ASSUME NEW i \in 0 .. Len(bytes)
        PROVE  g[i] = IF i = 0 THEN [parser |-> p, done |-> <<>>, error |-> FALSE]
                      ELSE Process(g[i - 1], bytes[i])
    BY <1>1 DEF Parsed
  <1>4. g[0] = [parser |-> p, done |-> <<>>, error |-> FALSE]
    <2>1. 0 \in 0 .. Len(bytes)
      OBVIOUS
    <2>2. QED BY <1>3, <2>1, Zenon
  <1>5. ASSUME NEW i \in 1 .. Len(bytes) PROVE g[i] = Process(g[i - 1], bytes[i])
    <2>1. i \in 0 .. Len(bytes) /\ i # 0
      OBVIOUS
    <2>2. QED BY <1>3, <2>1
  <1>6. QED BY <1>2, <1>4, <1>5

HandledIn(g, S, ch, msgs) ==
  g = [s \in SUBSET S |-> IF s = {} THEN ch ELSE Handle(g[s \ {Max(s)}], msgs[Max(s)])]

LEMMA MaxUpTo ==
  ASSUME NEW n \in Nat, NEW s \in SUBSET (1 .. n), n \in s
  PROVE  Max(s) = n
  <1>1. n \in s /\ \A y \in s : n >= y
    OBVIOUS
  <1>2. \A x \in s : (\A y \in s : x >= y) => x = n
    OBVIOUS
  <1>3. QED BY <1>1, <1>2 DEF Max

LEMMA HandledExists ==
  ASSUME NEW ch, NEW msgs, NEW max \in Nat
  PROVE  \E g : HandledIn(g, 1 .. max, ch, msgs)
  <1> DEFINE Bad == {m \in Nat : ~\E g : HandledIn(g, 1 .. m, ch, msgs)}
  <1>1. SUFFICES ASSUME Bad # {} PROVE FALSE
    OBVIOUS
  <1>2. PICK m \in Bad : \A k \in Bad : m <= k
    BY <1>1, LeastNumber
  <1>3. CASE m = 0
    <2> DEFINE g == [s \in SUBSET (1 .. 0) |-> ch]
    <2>1. \A s \in SUBSET (1 .. 0) : s = {}
      OBVIOUS
    <2>2. HandledIn(g, 1 .. 0, ch, msgs)
      BY <2>1 DEF HandledIn
    <2>3. QED BY <1>2, <1>3, <2>2
  <1>4. CASE m # 0
    <2>1. m - 1 \in Nat /\ ~(m <= m - 1)
      BY <1>2, <1>4
    <2>2. PICK h : HandledIn(h, 1 .. m - 1, ch, msgs)
      BY <1>2, <2>1
    <2> DEFINE g == [s \in SUBSET (1 .. m) |->
                       IF m \in s THEN Handle(h[s \ {m}], msgs[m]) ELSE h[s]]
    <2>3. \A s \in SUBSET (1 .. m - 1) :
            h[s] = IF s = {} THEN ch ELSE Handle(h[s \ {Max(s)}], msgs[Max(s)])
      BY <2>2 DEF HandledIn
    <2>4. ASSUME NEW s \in SUBSET (1 .. m)
          PROVE  g[s] = IF s = {} THEN ch ELSE Handle(g[s \ {Max(s)}], msgs[Max(s)])
      <3>1. CASE m \in s
        <4>1. Max(s) = m
          BY <1>2, <3>1, MaxUpTo
        <4>2. s \ {m} \in SUBSET (1 .. m) /\ m \notin s \ {m} /\ s # {}
          BY <3>1
        <4>3. g[s \ {m}] = h[s \ {m}]
          BY <4>2
        <4>4. g[s] = Handle(h[s \ {m}], msgs[m])
          BY <3>1
        <4> HIDE DEF g
        <4>5. QED BY <4>1, <4>2, <4>3, <4>4
      <3>2. CASE m \notin s
        <4>1. s \in SUBSET (1 .. m - 1)
          BY <1>2, <3>2
        <4>2. s \ {Max(s)} \in SUBSET (1 .. m) /\ m \notin s \ {Max(s)}
          BY <3>2
        <4>3. g[s \ {Max(s)}] = h[s \ {Max(s)}] /\ g[s] = h[s]
          BY <3>2, <4>2
        <4> HIDE DEF g
        <4>4. QED BY <2>3, <4>1, <4>3
      <3>3. QED BY <3>1, <3>2
    <2>5. g = [s \in SUBSET (1 .. m) |-> g[s]]
      OBVIOUS
    <2> HIDE DEF g
    <2>6. HandledIn(g, 1 .. m, ch, msgs)
      BY <2>4, <2>5 DEF HandledIn
    <2>7. QED BY <1>2, <2>6
  <1>5. QED BY <1>3, <1>4

(* The messages of a read are handled one by one. *)
LEMMA HandleSteps ==
  ASSUME NEW S, NEW msgs \in Seq(S), NEW ch
  PROVE  \E after :
           /\ after[0] = ch
           /\ \A i \in 1 .. Len(msgs) : after[i] = Handle(after[i - 1], msgs[i])
           /\ FoldLeft(Handle, ch, msgs) = after[Len(msgs)]
  <1> DEFINE n == Len(msgs)
             g == CHOOSE g : HandledIn(g, 1 .. n, ch, msgs)
             after == [i \in 0 .. n |-> g[1 .. i]]
  <1>1. n \in Nat /\ DOMAIN msgs = 1 .. n
    OBVIOUS
  <1>2. HandledIn(g, 1 .. n, ch, msgs)
    BY <1>1, HandledExists
  <1>3. FoldLeft(Handle, ch, msgs) = g[1 .. n]
    <2>1. FoldLeft(Handle, ch, msgs) = (CHOOSE h : HandledIn(h, DOMAIN msgs, ch, msgs))[DOMAIN msgs]
      BY DEF FoldLeft, MapThenFoldSet, HandledIn
    <2>2. QED BY <1>1, <2>1
  <1> HIDE DEF n, g
  <1>4. \A i \in 1 .. n : g[1 .. i] = Handle(g[1 .. (i - 1)], msgs[i])
    <2> SUFFICES ASSUME NEW i \in 1 .. n PROVE g[1 .. i] = Handle(g[1 .. (i - 1)], msgs[i])
      OBVIOUS
    <2>1. i \in Nat /\ i \in 1 .. i /\ 1 .. i \in SUBSET (1 .. n) /\ 1 .. i # {}
      BY <1>1
    <2>2. Max(1 .. i) = i
      BY <2>1, MaxUpTo
    <2>3. (1 .. i) \ {i} = 1 .. (i - 1)
      BY <2>1
    <2>4. QED BY <1>2, <2>1, <2>2, <2>3 DEF HandledIn
  <1>5. g[1 .. 0] = ch
    <2>1. 1 .. 0 = {}
      OBVIOUS
    <2>2. QED BY <1>2, <2>1 DEF HandledIn
  <1>6. after[0] = ch /\ after[n] = FoldLeft(Handle, ch, msgs)
    BY <1>1, <1>3, <1>5
  <1>7. \A i \in 1 .. n : after[i] = Handle(after[i - 1], msgs[i])
    BY <1>1, <1>4
  <1> HIDE DEF after
  <1>8. QED BY <1>6, <1>7 DEF n
-----------------------------------------------------------------------------
(* Sequences. *)

LEMMA ConcatEmpty ==
  ASSUME NEW S, NEW q \in Seq(S)
  PROVE  <<>> \o q = q /\ q \o <<>> = q
  OBVIOUS

LEMMA ConcatAssoc ==
  ASSUME NEW S, NEW a \in Seq(S), NEW b \in Seq(S), NEW c \in Seq(S)
  PROVE  /\ a \o b \in Seq(S)
         /\ (a \o b) \o c = a \o (b \o c)
  OBVIOUS

LEMMA HeadTail ==
  ASSUME NEW S, NEW q \in Seq(S), q # <<>>
  PROVE  /\ Head(q) \in S /\ Tail(q) \in Seq(S) /\ Len(Tail(q)) = Len(q) - 1
         /\ q = <<Head(q)>> \o Tail(q) /\ Head(q) = q[1]
  OBVIOUS

LEMMA ConcatHead ==
  ASSUME NEW S, NEW a \in Seq(S), NEW b \in Seq(S), a # <<>>
  PROVE  /\ a \o b # <<>> /\ Head(a \o b) = Head(a)
         /\ Tail(a \o b) = Tail(a) \o b
  OBVIOUS

LEMMA ConcatOne ==
  ASSUME NEW S, NEW x \in S, NEW b \in Seq(S)
  PROVE  /\ <<x>> \in Seq(S) /\ <<x>> # <<>> /\ <<x>> \o b # <<>>
         /\ Head(<<x>> \o b) = x /\ Tail(<<x>> \o b) = b
  OBVIOUS

LEMMA AppendHead ==
  ASSUME NEW S, NEW a \in Seq(S), NEW b \in Seq(S), b # <<>>
  PROVE  /\ Append(a, Head(b)) \in Seq(S) /\ Append(a, Head(b)) \o Tail(b) = a \o b
         /\ Len(Append(a, Head(b))) = Len(a) + 1
  OBVIOUS

LEMMA AppendTail ==
  ASSUME NEW S, NEW q \in Seq(S), q # <<>>, NEW x \in S
  PROVE  /\ Append(q, x) # <<>> /\ Head(Append(q, x)) = Head(q)
         /\ Tail(Append(q, x)) = Append(Tail(q), x)
  <1>1. <<x>> \in Seq(S)
    OBVIOUS
  <1>2. Append(q, x) = q \o <<x>> /\ Append(Tail(q), x) = Tail(q) \o <<x>>
    OBVIOUS
  <1>3. QED BY <1>1, <1>2, ConcatHead

LEMMA SeqEqual ==
  ASSUME NEW S, NEW a \in Seq(S), NEW b \in Seq(S), Len(a) = Len(b), \A i \in 1 .. Len(a) : a[i] = b[i]
  PROVE  a = b
  OBVIOUS

LEMMA ConcatLen ==
  ASSUME NEW S, NEW a \in Seq(S), NEW b \in Seq(S)
  PROVE  /\ Len(a \o b) = Len(a) + Len(b) /\ Len(a) \in Nat /\ Len(b) \in Nat
         /\ (Len(b) = 0 <=> b = <<>>)
  OBVIOUS
-----------------------------------------------------------------------------
(* Messages and their bytes. *)

Messages == [type : Nat, payload : Seq(Nat)]

LEMMA DigitsType ==
  ASSUME NEW n \in Nat
  PROVE  LengthDigits[n] \in Seq(Nat) /\ LengthDigits[n] # <<>>
  <1> DEFINE Bad == {k \in Nat : ~(LengthDigits[k] \in Seq(Nat) /\ LengthDigits[k] # <<>>)}
  <1>1. SUFFICES ASSUME Bad # {} PROVE FALSE
    OBVIOUS
  <1>2. PICK k \in Bad : \A l \in Bad : k <= l
    BY <1>1, LeastNumber
  <1>3. LengthDigits[k] = DigitsFrom(LengthDigits, k)
    BY <1>2, DigitsEquation
  <1>4. CASE k < Base
    <2>1. LengthDigits[k] = <<k>>
      BY <1>3, <1>4 DEF DigitsFrom
    <2>2. <<k>> \in Seq(Nat) /\ <<k>> # <<>>
      BY <1>2
    <2>3. QED BY <1>2, <2>1, <2>2
  <1>5. CASE ~(k < Base)
    <2>1. k \in Nat /\ k >= Base
      BY <1>2, <1>5, BaseAssumption DEF BaseAssumption
    <2>2. /\ k \div Base \in Nat /\ k \div Base < k /\ (k % Base) + Base \in Nat
          /\ ~(k <= k \div Base)
      BY <2>1, DivMod, BaseAssumption DEF BaseAssumption
    <2>3. LengthDigits[k \div Base] \in Seq(Nat)
      BY <1>2, <2>2
    <2>4. LengthDigits[k] = <<(k % Base) + Base>> \o LengthDigits[k \div Base]
      BY <1>3, <1>5 DEF DigitsFrom
    <2>5. LengthDigits[k] \in Seq(Nat) /\ LengthDigits[k] # <<>>
      BY <2>2, <2>3, <2>4, ConcatOne, ConcatAssoc
    <2>6. QED BY <1>2, <2>5
  <1>6. QED BY <1>4, <1>5

LEMMA EncodeShape ==
  ASSUME NEW m \in Messages
  PROVE  /\ m.type \in Nat /\ m.payload \in Seq(Nat) /\ Len(m.payload) \in Nat
         /\ m = [type |-> m.type, payload |-> m.payload]
         /\ LengthDigits[Len(m.payload)] \o m.payload \in Seq(Nat)
         /\ Encode(m) = <<m.type>> \o (LengthDigits[Len(m.payload)] \o m.payload)
         /\ Encode(m) \in Seq(Nat) /\ Encode(m) # <<>>
         /\ Size(m) \in Nat
  <1>1. /\ m.type \in Nat /\ m.payload \in Seq(Nat) /\ Len(m.payload) \in Nat
        /\ m = [type |-> m.type, payload |-> m.payload]
    BY DEF Messages
  <1> DEFINE d == LengthDigits[Len(m.payload)]
  <1>2. d \in Seq(Nat) /\ <<m.type>> \in Seq(Nat)
    BY <1>1, DigitsType
  <1>3. Encode(m) = (<<m.type>> \o d) \o m.payload
    BY DEF Encode
  <1> HIDE DEF d
  <1>4. d \o m.payload \in Seq(Nat) /\ Encode(m) = <<m.type>> \o (d \o m.payload)
    BY <1>1, <1>2, <1>3, ConcatAssoc
  <1>5. Encode(m) \in Seq(Nat) /\ Encode(m) # <<>>
    BY <1>1, <1>2, <1>4, ConcatAssoc, ConcatOne
  <1>6. Size(m) \in Nat
    BY <1>5 DEF Size
  <1>7. QED BY <1>1, <1>4, <1>5, <1>6 DEF d
-----------------------------------------------------------------------------
(* The parser, a byte of a message at a time. *)

(* p has taken the first bytes of m, and rest is what is left. *)
AtStart(p, m, rest) == p = NewParser /\ rest = Encode(m)

InLength(p, m, rest) ==
  /\ p.state = "length" /\ p.type = m.type /\ p.payload = <<>>
  /\ \E n \in Nat : /\ p.length + n * p.multiplier = Len(m.payload)
                    /\ rest = LengthDigits[n] \o m.payload

InPayload(p, m, rest) ==
  /\ p.state = "payload" /\ p.type = m.type /\ p.length = Len(m.payload)
  /\ p.payload \o rest = m.payload /\ rest # <<>>

Midway(p, m, rest) ==
  /\ p \in Parsers /\ rest \in Seq(Nat)
  /\ AtStart(p, m, rest) \/ InLength(p, m, rest) \/ InPayload(p, m, rest)

Unwanted(m) == m.type = Kaasync /\ m.payload # <<>> /\ Head(m.payload) = 0

LEMMA NewParserType == NewParser \in Parsers
  BY DEF NewParser, Parsers

LEMMA MidwayMore ==
  ASSUME NEW m \in Messages, NEW p, NEW rest, Midway(p, m, rest)
  PROVE  rest \in Seq(Nat) /\ rest # <<>>
  <1>1. rest \in Seq(Nat)
    BY DEF Midway
  <1>2. CASE AtStart(p, m, rest)
    BY <1>2, EncodeShape DEF AtStart
  <1>3. CASE InLength(p, m, rest)
    <2>1. PICK n \in Nat : rest = LengthDigits[n] \o m.payload
      BY <1>3 DEF InLength
    <2>2. QED BY <1>1, <2>1, DigitsType, ConcatHead, EncodeShape
  <1>4. CASE InPayload(p, m, rest)
    BY <1>1, <1>4 DEF InPayload
  <1>5. QED BY <1>1, <1>2, <1>3, <1>4 DEF Midway

LEMMA Weighted ==
  ASSUME NEW l \in Nat, NEW u \in Nat, NEW n \in Nat
  PROVE  /\ l + (n % Base) * u \in Nat /\ u * Base \in Nat /\ l + n * u \in Nat
         /\ (l + (n % Base) * u) + (n \div Base) * (u * Base) = l + n * u
  <1> DEFINE d == n \div Base
             r == n % Base
  <1>1. n = d * Base + r /\ d \in Nat /\ r \in Nat /\ Base \in Nat
    BY DivMod, BaseAssumption DEF BaseAssumption
  <1> HIDE DEF d, r
  <1>2. d * Base \in Nat /\ r * u \in Nat /\ u * Base \in Nat /\ n * u \in Nat
    BY <1>1
  <1>3. n * u = (d * Base) * u + r * u
    BY <1>1
  <1>4. (d * Base) * u = d * (u * Base)
    BY <1>1
  <1>5. (l + r * u) + d * (u * Base) = l + n * u
    BY <1>1, <1>2, <1>3, <1>4
  <1>6. QED BY <1>2, <1>5 DEF d, r

LEMMA DigitByte ==
  ASSUME NEW n \in Nat
  PROVE  /\ (n % Base) + Base \in Nat /\ ~((n % Base) + Base < Base)
         /\ ((n % Base) + Base) % Base = n % Base
         /\ n < Base => n % Base = n
  <1>1. n % Base \in Nat /\ n % Base < Base
    BY DivMod
  <1>2. \A r \in Nat : r < Base => (r + Base) % Base = r /\ r % Base = r
    BY BaseAssumption DEF BaseAssumption
  <1>3. QED BY <1>1, <1>2, BaseAssumption DEF BaseAssumption

Parsings == [parser : Parsers, done : Seq(Messages), error : BOOLEAN]

(* The parser after the byte, before message_done is called. *)
Taken(p, byte) ==
  CASE p.state = "none"   -> [p EXCEPT !.type = byte, !.state = "length"]
    [] p.state = "length" -> WithDigit(p, byte)
    [] OTHER              -> [p EXCEPT !.payload = Append(@, byte)]

Completes(p) == p.state = "payload" /\ Len(p.payload) = p.length

LEMMA TakenType ==
  ASSUME NEW p \in Parsers, NEW byte \in Nat
  PROVE  Taken(p, byte) \in Parsers
  <1>1. /\ p.state \in {"none", "length", "payload"} /\ p.type \in Nat /\ p.length \in Nat
        /\ p.multiplier \in Nat /\ p.payload \in Seq(Nat)
    BY DEF Parsers
  <1>2. CASE p.state = "none"
    BY <1>2 DEF Taken, Parsers
  <1>3. CASE p.state = "length"
    <2>1. /\ p.length + (byte % Base) * p.multiplier \in Nat /\ p.multiplier * Base \in Nat
      BY <1>1, Weighted
    <2> DEFINE x == p.length + (byte % Base) * p.multiplier
               y == p.multiplier * Base
    <2>2. Taken(p, byte) = [p EXCEPT !.length = x, !.multiplier = y,
                                     !.state = IF byte < Base THEN "payload" ELSE "length"]
      BY <1>1, <1>3 DEF Taken, WithDigit, Parsers
    <2> HIDE DEF x, y
    <2>3. QED BY <2>1, <2>2 DEF Parsers, x, y
  <1>4. CASE p.state = "payload"
    <2>1. Append(p.payload, byte) \in Seq(Nat)
      BY <1>1
    <2>2. Taken(p, byte) = [p EXCEPT !.payload = Append(p.payload, byte)]
      BY <1>4 DEF Taken, Parsers
    <2>3. QED BY <2>1, <2>2 DEF Parsers
  <1>5. QED BY <1>1, <1>2, <1>3, <1>4

LEMMA ProcessCases ==
  ASSUME NEW t \in Parsings, NEW byte \in Nat
  PROVE  LET p == Taken(t.parser, byte)
             m == [type |-> p.type, payload |-> p.payload]
         IN  /\ t.error => Process(t, byte) = t
             /\ ~t.error /\ ~Completes(p) =>
                  Process(t, byte) = [parser |-> p, done |-> t.done, error |-> FALSE]
             /\ ~t.error /\ Completes(p) /\ Refused(p) =>
                  Process(t, byte) = [parser |-> p, done |-> t.done, error |-> TRUE]
             /\ ~t.error /\ Completes(p) /\ ~Refused(p) =>
                  Process(t, byte) = [parser |-> NewParser, done |-> Append(t.done, m),
                                      error |-> FALSE]
  <1> DEFINE p == Taken(t.parser, byte)
             m == [type |-> p.type, payload |-> p.payload]
  <1>1. t.error \in BOOLEAN /\ t = [parser |-> t.parser, done |-> t.done, error |-> t.error]
    BY DEF Parsings
  <1>2. Process(t, byte) = CASE t.error -> t
                             [] ~t.error /\ Completes(p) -> MessageDone(t, p)
                             [] OTHER -> [t EXCEPT !.parser = p]
    BY DEF Process, Taken, Completes
  <1>3. /\ [t EXCEPT !.parser = p] = [parser |-> p, done |-> t.done, error |-> t.error]
        /\ [t EXCEPT !.parser = p, !.error = TRUE] = [parser |-> p, done |-> t.done, error |-> TRUE]
        /\ [t EXCEPT !.parser = NewParser, !.done = Append(t.done, m)]
             = [parser |-> NewParser, done |-> Append(t.done, m), error |-> t.error]
    <2>1. ASSUME NEW x PROVE [t EXCEPT !.parser = x] = [parser |-> x, done |-> t.done, error |-> t.error]
      BY DEF Parsings
    <2>2. ASSUME NEW x
          PROVE  [t EXCEPT !.parser = x, !.error = TRUE] = [parser |-> x, done |-> t.done, error |-> TRUE]
      <3> DEFINE r == [t EXCEPT !.parser = x, !.error = TRUE]
      <3>1. r = [i \in {"parser", "done", "error"} |-> r[i]]
        BY DEF Parsings
      <3>2. r.parser = x /\ r.done = t.done /\ r.error = TRUE
        BY DEF Parsings
      <3> HIDE DEF r
      <3>3. r = [parser |-> x, done |-> t.done, error |-> TRUE]
        BY <3>1, <3>2
      <3>4. QED BY <3>3 DEF r
    <2>3. ASSUME NEW x, NEW y
          PROVE  [t EXCEPT !.parser = x, !.done = y] = [parser |-> x, done |-> y, error |-> t.error]
      <3> DEFINE r == [t EXCEPT !.parser = x, !.done = y]
      <3>1. r = [i \in {"parser", "done", "error"} |-> r[i]]
        BY DEF Parsings
      <3>2. r.parser = x /\ r.done = y /\ r.error = t.error
        BY DEF Parsings
      <3> HIDE DEF r
      <3>3. r = [parser |-> x, done |-> y, error |-> t.error]
        BY <3>1, <3>2
      <3>4. QED BY <3>3 DEF r
    <2> HIDE DEF p, m
    <2>4. QED BY <2>1, <2>2, <2>3
  <1>4. MessageDone(t, p) = IF Refused(p) THEN [t EXCEPT !.parser = p, !.error = TRUE]
                            ELSE [t EXCEPT !.parser = NewParser, !.done = Append(t.done, m)]
    BY DEF MessageDone, Done
  <1> HIDE DEF p, m
  <1>5. /\ t.error => Process(t, byte) = t
        /\ ~t.error /\ ~Completes(p) =>
             Process(t, byte) = [parser |-> p, done |-> t.done, error |-> FALSE]
        /\ ~t.error /\ Completes(p) /\ Refused(p) =>
             Process(t, byte) = [parser |-> p, done |-> t.done, error |-> TRUE]
        /\ ~t.error /\ Completes(p) /\ ~Refused(p) =>
             Process(t, byte) = [parser |-> NewParser, done |-> Append(t.done, m), error |-> FALSE]
    <2>1. ASSUME t.error PROVE Process(t, byte) = t
      BY <1>2, <2>1
    <2>2. ASSUME ~t.error, ~Completes(p)
          PROVE  Process(t, byte) = [parser |-> p, done |-> t.done, error |-> FALSE]
      BY <1>1, <1>2, <1>3, <2>2
    <2>3. ASSUME ~t.error, Completes(p) PROVE Process(t, byte) = MessageDone(t, p)
      BY <1>2, <2>3
    <2>4. ASSUME ~t.error, Completes(p), Refused(p)
          PROVE  Process(t, byte) = [parser |-> p, done |-> t.done, error |-> TRUE]
      BY <1>3, <1>4, <2>3, <2>4
    <2>5. ASSUME ~t.error, Completes(p), ~Refused(p)
          PROVE  Process(t, byte) = [parser |-> NewParser, done |-> Append(t.done, m), error |-> FALSE]
      BY <1>1, <1>3, <1>4, <2>3, <2>5
    <2>6. QED BY <2>1, <2>2, <2>4, <2>5
  <1>6. QED BY <1>5 DEF p, m

LEMMA ProcessType ==
  ASSUME NEW t \in Parsings, NEW byte \in Nat
  PROVE  Process(t, byte) \in Parsings
  <1> DEFINE p == Taken(t.parser, byte)
             m == [type |-> p.type, payload |-> p.payload]
  <1>1. t.parser \in Parsers /\ t.done \in Seq(Messages)
    BY DEF Parsings
  <1>2. p \in Parsers
    BY <1>1, TakenType
  <1>3. m \in Messages
    BY <1>2 DEF Parsers, Messages
  <1>4. \/ Process(t, byte) = t
        \/ Process(t, byte) = [parser |-> p, done |-> t.done, error |-> FALSE]
        \/ Process(t, byte) = [parser |-> p, done |-> t.done, error |-> TRUE]
        \/ Process(t, byte) = [parser |-> NewParser, done |-> Append(t.done, m), error |-> FALSE]
    BY ProcessCases
  <1> HIDE DEF p, m
  <1>5. Append(t.done, m) \in Seq(Messages)
    BY <1>1, <1>3
  <1>6. /\ [parser |-> p, done |-> t.done, error |-> FALSE] \in Parsings
        /\ [parser |-> p, done |-> t.done, error |-> TRUE] \in Parsings
    BY <1>1, <1>2 DEF Parsings
  <1>7. [parser |-> NewParser, done |-> Append(t.done, m), error |-> FALSE] \in Parsings
    <2> DEFINE x == Append(t.done, m)
    <2>1. x \in Seq(Messages)
      BY <1>5
    <2> HIDE DEF x
    <2>2. [parser |-> NewParser, done |-> x, error |-> FALSE] \in Parsings
      BY <2>1, NewParserType DEF Parsings
    <2>3. QED BY <2>2 DEF x
  <1>8. QED BY <1>4, <1>6, <1>7

(* The byte that is taken is the next one of the message. *)
LEMMA MidwayTakes ==
  ASSUME NEW m \in Messages, NEW p, NEW rest, Midway(p, m, rest)
  PROVE  LET next == Taken(p, Head(rest))
         IN  \/ ~Completes(next) /\ Midway(next, m, Tail(rest))
             \/ Completes(next) /\ next.type = m.type /\ next.payload = m.payload /\ Tail(rest) = <<>>
  <1> DEFINE next == Taken(p, Head(rest))
             n0 == Len(m.payload)
  <1>1. p \in Parsers /\ rest \in Seq(Nat) /\ rest # <<>>
    BY MidwayMore DEF Midway
  <1>2. /\ p.state \in {"none", "length", "payload"} /\ p.type \in Nat /\ p.length \in Nat
        /\ p.multiplier \in Nat /\ p.payload \in Seq(Nat)
    BY <1>1 DEF Parsers
  <1>3. Head(rest) \in Nat /\ Tail(rest) \in Seq(Nat)
    BY <1>1, HeadTail
  <1>4. next \in Parsers
    BY <1>1, <1>3, TakenType
  <1>5. m.type \in Nat /\ m.payload \in Seq(Nat) /\ n0 \in Nat
    BY EncodeShape
  <1>6. CASE AtStart(p, m, rest)
    <2>1. LengthDigits[n0] \o m.payload \in Seq(Nat)
          /\ rest = <<m.type>> \o (LengthDigits[n0] \o m.payload)
      BY <1>6, EncodeShape DEF AtStart
    <2>2. Head(rest) = m.type /\ Tail(rest) = LengthDigits[n0] \o m.payload
      BY <1>5, <2>1, ConcatOne
    <2>3. /\ next.state = "length" /\ next.type = m.type /\ next.payload = <<>>
          /\ next.length = 0 /\ next.multiplier = 1
      BY <1>6, <2>2 DEF AtStart, NewParser, Taken
    <2> HIDE DEF next
    <2>4. next.length + n0 * next.multiplier = n0
      BY <1>5, <2>3
    <2>5. InLength(next, m, Tail(rest))
      BY <1>5, <2>2, <2>3, <2>4 DEF InLength
    <2>6. ~Completes(next) /\ Midway(next, m, Tail(rest))
      BY <1>3, <1>4, <2>3, <2>5 DEF Completes, Midway
    <2>7. QED BY <2>6 DEF next
  <1>7. CASE InLength(p, m, rest)
    <2>1. /\ p.state = "length" /\ p.type = m.type /\ p.payload = <<>>
      BY <1>7 DEF InLength
    <2>2. PICK n \in Nat : /\ p.length + n * p.multiplier = n0
                           /\ rest = LengthDigits[n] \o m.payload
      BY <1>7 DEF InLength
    <2> DEFINE byte == Head(rest)
    <2>3. /\ next.type = m.type /\ next.payload = <<>>
          /\ next.length = p.length + (byte % Base) * p.multiplier
          /\ next.multiplier = p.multiplier * Base
          /\ next.state = IF byte < Base THEN "payload" ELSE "length"
      BY <1>1, <2>1 DEF Taken, WithDigit, Parsers
    <2>4. LengthDigits[n] = DigitsFrom(LengthDigits, n)
      BY DigitsEquation
    <2>5. CASE n < Base
      <3>1. rest = <<n>> \o m.payload
        BY <2>2, <2>4, <2>5 DEF DigitsFrom
      <3>2. byte = n /\ Tail(rest) = m.payload
        BY <1>5, <3>1, ConcatOne
      <3>3. n % Base = n
        BY <2>5, DigitByte
      <3>4. next.length = n0 /\ next.state = "payload"
        BY <2>2, <2>3, <2>5, <3>2, <3>3
      <3> HIDE DEF next, byte
      <3>5. CASE m.payload = <<>>
        <4>1. Completes(next)
          BY <2>3, <3>4, <3>5 DEF Completes
        <4>2. QED BY <2>3, <3>2, <3>5, <4>1 DEF next
      <3>6. CASE m.payload # <<>>
        <4>1. ~Completes(next)
          BY <1>5, <2>3, <3>4, <3>6 DEF Completes
        <4>2. <<>> \o m.payload = m.payload
          BY <1>5, ConcatEmpty
        <4>3. InPayload(next, m, Tail(rest))
          BY <2>3, <3>2, <3>4, <3>6, <4>2 DEF InPayload
        <4>4. Midway(next, m, Tail(rest))
          BY <1>3, <1>4, <4>3 DEF Midway
        <4>5. QED BY <4>1, <4>4 DEF next
      <3>7. QED BY <3>5, <3>6
    <2>6. CASE ~(n < Base)
      <3> DEFINE d == n \div Base
                 more == LengthDigits[d] \o m.payload
      <3>1. n \in Nat /\ n >= Base
        BY <2>6, BaseAssumption DEF BaseAssumption
      <3>2. d \in Nat /\ (n % Base) + Base \in Nat
        BY DivMod, DigitByte
      <3>3. LengthDigits[d] \in Seq(Nat) /\ LengthDigits[n] = <<(n % Base) + Base>> \o LengthDigits[d]
        BY <2>4, <2>6, <3>2, DigitsType DEF DigitsFrom
      <3>4. more \in Seq(Nat) /\ rest = <<(n % Base) + Base>> \o more
        <4> DEFINE ld == LengthDigits[d]
                   x == (n % Base) + Base
                   a == <<x>>
                   c == m.payload
        <4>1. x \in Nat /\ ld \in Seq(Nat) /\ c \in Seq(Nat)
          BY <1>5, <3>2, <3>3
        <4>2. rest = (a \o ld) \o c
          BY <2>2, <3>3
        <4> HIDE DEF ld, x, c
        <4>3. a \in Seq(Nat)
          BY <4>1
        <4> HIDE DEF a
        <4>4. ld \o c \in Seq(Nat) /\ (a \o ld) \o c = a \o (ld \o c)
          BY <4>1, <4>3, ConcatAssoc
        <4>5. ld \o c \in Seq(Nat) /\ rest = a \o (ld \o c)
          BY <4>2, <4>4
        <4>6. QED BY <4>5 DEF ld, x, a, c
      <3>5. byte = (n % Base) + Base /\ Tail(rest) = more
        BY <3>2, <3>4, ConcatOne
      <3>6. ~(byte < Base) /\ byte % Base = n % Base
        BY <3>5, DigitByte
      <3>7. next.state = "length"
        BY <2>3, <3>6
      <3>8. next.length + d * next.multiplier = n0
        <4>1. (p.length + (n % Base) * p.multiplier) + (n \div Base) * (p.multiplier * Base)
                = p.length + n * p.multiplier
          BY <1>2, Weighted
        <4>2. next.length = p.length + (n % Base) * p.multiplier
          BY <2>3, <3>6
        <4>3. next.multiplier = p.multiplier * Base
          BY <2>3
        <4> HIDE DEF next, byte, n0
        <4>4. QED BY <2>2, <4>1, <4>2, <4>3
      <3> HIDE DEF next, byte
      <3>9. InLength(next, m, Tail(rest))
        BY <2>3, <3>2, <3>5, <3>7, <3>8 DEF InLength
      <3>10. ~Completes(next) /\ Midway(next, m, Tail(rest))
        BY <1>3, <1>4, <3>7, <3>9 DEF Completes, Midway
      <3>11. QED BY <3>10 DEF next
    <2>7. QED BY <2>5, <2>6
  <1>8. CASE InPayload(p, m, rest)
    <2>1. /\ p.state = "payload" /\ p.type = m.type /\ p.length = n0
          /\ p.payload \o rest = m.payload
      BY <1>8 DEF InPayload
    <2>2. /\ next.state = "payload" /\ next.type = m.type /\ next.length = n0
          /\ next.payload = Append(p.payload, Head(rest))
      BY <1>1, <2>1 DEF Taken, Parsers
    <2>3. next.payload \in Seq(Nat) /\ next.payload \o Tail(rest) = m.payload
      BY <1>1, <1>2, <2>1, <2>2, AppendHead
    <2> HIDE DEF next
    <2>4. Len(next.payload) = n0 <=> Tail(rest) = <<>>
      <3> DEFINE la == Len(next.payload)
                 lb == Len(Tail(rest))
      <3>1. n0 = la + lb /\ la \in Nat /\ lb \in Nat
        BY <1>3, <2>3, ConcatLen
      <3>2. lb = 0 <=> Tail(rest) = <<>>
        BY <1>3, <2>3, ConcatLen
      <3> HIDE DEF n0, la, lb
      <3>3. la = n0 <=> lb = 0
        BY <3>1
      <3>4. QED BY <3>2, <3>3 DEF la
    <2>5. CASE Tail(rest) = <<>>
      <3>1. Completes(next)
        BY <2>2, <2>4, <2>5 DEF Completes
      <3>2. next.payload = m.payload
        BY <2>3, <2>5, ConcatEmpty
      <3>3. QED BY <2>2, <2>5, <3>1, <3>2 DEF next
    <2>6. CASE Tail(rest) # <<>>
      <3>1. ~Completes(next)
        BY <2>2, <2>4, <2>6 DEF Completes
      <3>2. InPayload(next, m, Tail(rest))
        BY <2>2, <2>3, <2>6 DEF InPayload
      <3>3. Midway(next, m, Tail(rest))
        BY <1>3, <1>4, <3>2 DEF Midway
      <3>4. QED BY <3>1, <3>3 DEF next
    <2>7. QED BY <2>5, <2>6
  <1>9. QED BY <1>6, <1>7, <1>8 DEF Midway
-----------------------------------------------------------------------------
(* A stream of messages. *)

(* b is the bytes of the messages of q, one after the other: left[i] is what *)
(* follows the first i of them.                                             *)
Cuts(left, q, b) ==
  /\ left \in [0 .. Len(q) -> Seq(Nat)]
  /\ left[0] = b /\ left[Len(q)] = <<>>
  /\ \A i \in 1 .. Len(q) : left[i - 1] = Encode(q[i]) \o left[i]

Encodes(q, b) == \E left : Cuts(left, q, b)

LEMMA EncodesNothing ==
  ASSUME NEW b, Encodes(<<>>, b)
  PROVE  b = <<>>
  BY DEF Encodes, Cuts

LEMMA NothingEncodes == Encodes(<<>>, <<>>)
  <1> DEFINE left == [i \in 0 .. 0 |-> <<>>]
  <1>1. <<>> \in Seq(Nat) /\ Len(<<>>) = 0
    OBVIOUS
  <1>2. Cuts(left, <<>>, <<>>)
    BY <1>1 DEF Cuts
  <1>3. QED BY <1>2 DEF Encodes

LEMMA EncodesHead ==
  ASSUME NEW q \in Seq(Messages), q # <<>>, NEW b, Encodes(q, b)
  PROVE  \E more \in Seq(Nat) : b = Encode(Head(q)) \o more /\ Encodes(Tail(q), more)
  <1> DEFINE n == Len(q)
             r == Tail(q)
  <1>1. PICK left : Cuts(left, q, b)
    BY DEF Encodes
  <1>2. n \in Nat /\ n # 0 /\ Len(r) = n - 1 /\ \A i \in 1 .. n - 1 : r[i] = q[i + 1]
    OBVIOUS
  <1>3. Head(q) = q[1]
    BY HeadTail
  <1>4. /\ left \in [0 .. n -> Seq(Nat)] /\ left[0] = b /\ left[n] = <<>>
        /\ \A i \in 1 .. n : left[i - 1] = Encode(q[i]) \o left[i]
    BY <1>1 DEF Cuts
  <1> HIDE DEF n, r
  <1> DEFINE rest == [i \in 0 .. n - 1 |-> left[i + 1]]
  <1>5. left[1] \in Seq(Nat) /\ b = Encode(q[1]) \o left[1]
    <2>1. 1 \in 1 .. n /\ 1 \in 0 .. n /\ 1 - 1 = 0
      BY <1>2
    <2>2. QED BY <1>4, <2>1
  <1>6. rest \in [0 .. n - 1 -> Seq(Nat)]
    <2>1. \A i \in 0 .. n - 1 : i + 1 \in 0 .. n
      BY <1>2
    <2>2. QED BY <1>4, <2>1
  <1>7. rest[0] = left[1] /\ rest[n - 1] = <<>>
    BY <1>2, <1>4
  <1>8. ASSUME NEW i \in 1 .. n - 1 PROVE rest[i - 1] = Encode(r[i]) \o rest[i]
    <2>1. i + 1 \in 1 .. n /\ i \in 0 .. n - 1 /\ i - 1 \in 0 .. n - 1 /\ (i - 1) + 1 = i /\ (i + 1) - 1 = i
      BY <1>2
    <2>2. left[i] = Encode(q[i + 1]) \o left[i + 1]
      BY <1>4, <2>1
    <2>3. rest[i - 1] = left[i] /\ rest[i] = left[i + 1]
      BY <2>1
    <2> HIDE DEF rest
    <2>4. QED BY <1>2, <2>2, <2>3
  <1> HIDE DEF rest
  <1>9. Cuts(rest, r, left[1])
    BY <1>2, <1>6, <1>7, <1>8 DEF Cuts
  <1>10. QED BY <1>3, <1>5, <1>9 DEF Encodes, r

LEMMA EncodesAppend ==
  ASSUME NEW q \in Seq(Messages), NEW b \in Seq(Nat), Encodes(q, b), NEW m \in Messages
  PROVE  Encodes(Append(q, m), b \o Encode(m))
  <1> DEFINE n == Len(q)
             r == Append(q, m)
             e == Encode(m)
  <1>1. PICK left : Cuts(left, q, b)
    BY DEF Encodes
  <1>2. n \in Nat /\ Len(r) = n + 1 /\ (\A i \in 1 .. n : r[i] = q[i] /\ q[i] \in Messages) /\ r[n + 1] = m
    OBVIOUS
  <1>3. /\ left \in [0 .. n -> Seq(Nat)] /\ left[0] = b /\ left[n] = <<>>
        /\ \A i \in 1 .. n : left[i - 1] = Encode(q[i]) \o left[i]
    BY <1>1 DEF Cuts
  <1>4. e \in Seq(Nat)
    BY EncodeShape
  <1> HIDE DEF n, r, e
  <1> DEFINE rest == [i \in 0 .. n + 1 |-> IF i = n + 1 THEN <<>> ELSE left[i] \o e]
  <1>5. rest \in [0 .. n + 1 -> Seq(Nat)]
    <2>1. ASSUME NEW i \in 0 .. n + 1, i # n + 1 PROVE left[i] \o e \in Seq(Nat)
      <3>1. left[i] \in Seq(Nat)
        BY <1>2, <1>3, <2>1
      <3>2. QED BY <1>4, <3>1, ConcatAssoc
    <2>2. <<>> \in Seq(Nat)
      OBVIOUS
    <2>3. QED BY <2>1, <2>2
  <1>6. rest[0] = b \o e /\ rest[n + 1] = <<>>
    <2>1. 0 \in 0 .. n + 1 /\ n + 1 \in 0 .. n + 1 /\ 0 # n + 1
      BY <1>2
    <2>2. QED BY <1>3, <2>1
  <1>7. ASSUME NEW i \in 1 .. n + 1 PROVE rest[i - 1] = Encode(r[i]) \o rest[i]
    <2>1. CASE i = n + 1
      <3>1. i - 1 \in 0 .. n + 1 /\ i - 1 # n + 1 /\ i - 1 = n /\ i \in 0 .. n + 1
        BY <1>2, <2>1
      <3>2. rest[i - 1] = left[n] \o e /\ rest[i] = <<>>
        BY <2>1, <3>1
      <3>3. <<>> \o e = e /\ e \o <<>> = e
        BY <1>4, ConcatEmpty
      <3>4. Encode(r[i]) = e
        BY <1>2, <2>1 DEF e
      <3> HIDE DEF rest
      <3>5. QED BY <1>3, <3>2, <3>3, <3>4
    <2>2. CASE i # n + 1
      <3>1. i \in 1 .. n /\ i \in 0 .. n + 1 /\ i - 1 \in 0 .. n /\ i - 1 \in 0 .. n + 1 /\ i - 1 # n + 1
            /\ i \in 0 .. n
        BY <1>2, <2>2
      <3>2. rest[i - 1] = left[i - 1] \o e /\ rest[i] = left[i] \o e
        BY <2>2, <3>1
      <3> HIDE DEF rest
      <3>3. left[i - 1] = Encode(q[i]) \o left[i] /\ r[i] = q[i] /\ left[i] \in Seq(Nat)
        BY <1>2, <1>3, <3>1
      <3>4. Encode(q[i]) \in Seq(Nat)
        BY <1>2, <3>1, EncodeShape
      <3>5. (Encode(q[i]) \o left[i]) \o e = Encode(q[i]) \o (left[i] \o e)
        <4> DEFINE x == Encode(q[i])
                   y == left[i]
        <4>1. x \in Seq(Nat) /\ y \in Seq(Nat)
          BY <3>3, <3>4
        <4> HIDE DEF x, y
        <4>2. (x \o y) \o e = x \o (y \o e)
          BY <1>4, <4>1, ConcatAssoc
        <4>3. QED BY <4>2 DEF x, y
      <3>6. QED BY <3>2, <3>3, <3>5
    <2>3. QED BY <2>1, <2>2
  <1> HIDE DEF rest
  <1>8. Cuts(rest, r, b \o e)
    BY <1>2, <1>5, <1>6, <1>7 DEF Cuts
  <1>9. QED BY <1>8 DEF Encodes, r, e

(* A parser p that has b before it, of the messages q: the first of them    *)
(* may be in part behind it.                                               *)
Parsing(p, q, b) ==
  \/ q = <<>> /\ p = NewParser /\ b = <<>>
  \/ q # <<>> /\ \E rest \in Seq(Nat), more \in Seq(Nat) :
       /\ Midway(p, Head(q), rest) /\ b = rest \o more /\ Encodes(Tail(q), more)

LEMMA ParsingTypes ==
  ASSUME NEW q, NEW p, NEW b, Parsing(p, q, b)
  PROVE  p \in Parsers /\ b \in Seq(Nat)
  <1>1. CASE q = <<>>
    <2>1. <<>> \in Seq(Nat)
      OBVIOUS
    <2>2. QED BY <1>1, <2>1, NewParserType DEF Parsing
  <1>2. CASE q # <<>>
    BY <1>2, ConcatAssoc DEF Parsing, Midway
  <1>3. QED BY <1>1, <1>2

LEMMA ParsingFresh ==
  ASSUME NEW q \in Seq(Messages), NEW b, Encodes(q, b)
  PROVE  Parsing(NewParser, q, b)
  <1>1. CASE q = <<>>
    BY <1>1, EncodesNothing DEF Parsing
  <1>2. CASE q # <<>>
    <2>1. PICK more \in Seq(Nat) : b = Encode(Head(q)) \o more /\ Encodes(Tail(q), more)
      BY <1>2, EncodesHead
    <2>2. Head(q) \in Messages
      BY <1>2, HeadTail
    <2>3. Encode(Head(q)) \in Seq(Nat) /\ Midway(NewParser, Head(q), Encode(Head(q)))
      BY <2>2, EncodeShape, NewParserType DEF Midway, AtStart
    <2>4. QED BY <1>2, <2>1, <2>3 DEF Parsing
  <1>3. QED BY <1>1, <1>2

LEMMA ParsingAll ==
  ASSUME NEW q \in Seq(Messages), NEW p, Parsing(p, q, <<>>)
  PROVE  q = <<>> /\ p = NewParser
  <1>1. SUFFICES ASSUME q # <<>> PROVE FALSE
    BY DEF Parsing
  <1>2. PICK rest \in Seq(Nat), more \in Seq(Nat) : Midway(p, Head(q), rest) /\ <<>> = rest \o more
    BY <1>1 DEF Parsing
  <1>3. Head(q) \in Messages
    BY <1>1, HeadTail
  <1>4. rest # <<>>
    BY <1>2, <1>3, MidwayMore
  <1>5. QED BY <1>2, <1>4, ConcatHead

LEMMA ParsingAppend ==
  ASSUME NEW q \in Seq(Messages), NEW p, NEW b \in Seq(Nat), Parsing(p, q, b), NEW m \in Messages
  PROVE  Parsing(p, Append(q, m), b \o Encode(m))
  <1>1. Encode(m) \in Seq(Nat)
    BY EncodeShape
  <1>2. CASE q = <<>>
    <2>1. p = NewParser /\ b = <<>>
      BY <1>2 DEF Parsing
    <2>2. Encodes(Append(q, m), b \o Encode(m))
      BY <1>2, <2>1, NothingEncodes, EncodesAppend
    <2>3. Append(q, m) \in Seq(Messages)
      OBVIOUS
    <2>4. QED BY <2>1, <2>2, <2>3, ParsingFresh
  <1>3. CASE q # <<>>
    <2>1. PICK rest \in Seq(Nat), more \in Seq(Nat) :
            Midway(p, Head(q), rest) /\ b = rest \o more /\ Encodes(Tail(q), more)
      BY <1>3 DEF Parsing
    <2>2. Tail(q) \in Seq(Messages)
      BY <1>3, HeadTail
    <2>3. Encodes(Append(Tail(q), m), more \o Encode(m))
      BY <2>1, <2>2, EncodesAppend
    <2>4. b \o Encode(m) = rest \o (more \o Encode(m)) /\ more \o Encode(m) \in Seq(Nat)
      BY <1>1, <2>1, ConcatAssoc
    <2>5. Append(q, m) # <<>> /\ Head(Append(q, m)) = Head(q) /\ Tail(Append(q, m)) = Append(Tail(q), m)
      BY <1>3, AppendTail
    <2>6. QED BY <2>1, <2>3, <2>4, <2>5 DEF Parsing
  <1>4. QED BY <1>2, <1>3

(* One byte of the stream. *)
LEMMA ParsingNext ==
  ASSUME NEW t \in Parsings, ~t.error, NEW q \in Seq(Messages), NEW b \in Seq(Nat), b # <<>>,
         Parsing(t.parser, q, b)
  PROVE  LET u == Process(t, Head(b))
         IN  /\ q # <<>>
             /\ \/ ~u.error /\ u.done = t.done /\ Parsing(u.parser, q, Tail(b))
                \/ /\ ~u.error /\ u.done = Append(t.done, Head(q)) /\ ~Unwanted(Head(q))
                   /\ Parsing(u.parser, Tail(q), Tail(b))
                \/ u.error /\ u.done = t.done /\ Unwanted(Head(q))
  <1> DEFINE u == Process(t, Head(b))
             m == Head(q)
             p == Taken(t.parser, Head(b))
  <1>1. q # <<>>
    BY DEF Parsing
  <1>2. PICK rest \in Seq(Nat), more \in Seq(Nat) :
          Midway(t.parser, m, rest) /\ b = rest \o more /\ Encodes(Tail(q), more)
    BY <1>1 DEF Parsing
  <1>3. m \in Messages /\ Tail(q) \in Seq(Messages)
    BY <1>1, HeadTail
  <1>4. rest # <<>>
    BY <1>2, <1>3, MidwayMore
  <1>5. Head(b) = Head(rest) /\ Tail(b) = Tail(rest) \o more /\ Head(b) \in Nat /\ Tail(rest) \in Seq(Nat)
    BY <1>2, <1>4, ConcatHead, HeadTail
  <1>6. CASE ~Completes(p) /\ Midway(p, m, Tail(rest))
    <2>1. u = [parser |-> p, done |-> t.done, error |-> FALSE]
      BY <1>5, <1>6, ProcessCases
    <2> HIDE DEF u, m, p
    <2>2. Parsing(p, q, Tail(b))
      BY <1>1, <1>2, <1>5, <1>6 DEF Parsing, m
    <2>3. ~u.error /\ u.done = t.done /\ Parsing(u.parser, q, Tail(b))
      BY <2>1, <2>2
    <2>4. QED BY <1>1, <2>3 DEF u
  <1>7. CASE Completes(p) /\ p.type = m.type /\ p.payload = m.payload /\ Tail(rest) = <<>>
    <2>1. [type |-> p.type, payload |-> p.payload] = m
      BY <1>3, <1>7, EncodeShape
    <2>2. Refused(p) <=> Unwanted(m)
      BY <1>7 DEF Refused, Unwanted
    <2>3. Tail(b) = more
      BY <1>2, <1>5, <1>7, ConcatEmpty
    <2>4. Parsing(NewParser, Tail(q), Tail(b))
      BY <1>2, <1>3, <2>3, ParsingFresh
    <2>5. CASE Unwanted(m)
      <3>1. u = [parser |-> p, done |-> t.done, error |-> TRUE]
        BY <1>5, <1>7, <2>2, <2>5, ProcessCases
      <3> HIDE DEF u, m, p
      <3>2. u.error /\ u.done = t.done
        BY <3>1
      <3>3. QED BY <1>1, <2>5, <3>2 DEF u, m
    <2>6. CASE ~Unwanted(m)
      <3>1. u = [parser |-> NewParser, done |-> Append(t.done, m), error |-> FALSE]
        BY <1>5, <1>7, <2>1, <2>2, <2>6, ProcessCases
      <3> HIDE DEF u, m, p
      <3>2. ~u.error /\ u.done = Append(t.done, m) /\ u.parser = NewParser
        BY <3>1
      <3>3. QED BY <1>1, <2>4, <2>6, <3>2 DEF u, m
    <2>7. QED BY <2>5, <2>6
  <1>8. QED
    <2>1. \/ ~Completes(p) /\ Midway(p, m, Tail(rest))
          \/ Completes(p) /\ p.type = m.type /\ p.payload = m.payload /\ Tail(rest) = <<>>
      BY <1>2, <1>3, <1>5, MidwayTakes
    <2>2. QED BY <1>6, <1>7, <2>1

LEMMA BufferType ==
  ASSUME NEW p \in Parsers, NEW bytes \in Seq(Nat)
  PROVE  ProcessBuffer(p, bytes) \in Parsings
  <1> DEFINE n == Len(bytes)
  <1>1. n \in Nat /\ \A i \in 1 .. n : bytes[i] \in Nat
    OBVIOUS
  <1>2. PICK after : /\ after[0] = [parser |-> p, done |-> <<>>, error |-> FALSE]
                     /\ \A i \in 1 .. n : after[i] = Process(after[i - 1], bytes[i])
                     /\ ProcessBuffer(p, bytes) = after[n]
    BY <1>1, BufferSteps
  <1> HIDE DEF n
  <1> DEFINE Bad == {i \in Nat : i <= n /\ after[i] \notin Parsings}
  <1>3. SUFFICES ASSUME Bad # {} PROVE FALSE
    BY <1>1, <1>2
  <1>4. PICK i \in Bad : \A j \in Bad : i <= j
    BY <1>3, LeastNumber
  <1>5. after[0] \in Parsings
    <2>1. <<>> \in Seq(Messages)
      OBVIOUS
    <2>2. QED BY <1>2, <2>1 DEF Parsings
  <1>6. i # 0 /\ i \in 1 .. n /\ i - 1 \in Nat /\ i - 1 <= n /\ ~(i <= i - 1)
    BY <1>1, <1>4, <1>5
  <1>7. after[i - 1] \in Parsings
    BY <1>4, <1>6
  <1>8. after[i] \in Parsings
    BY <1>1, <1>2, <1>6, <1>7, ProcessType
  <1>9. QED BY <1>4, <1>8

LEMMA NextByte ==
  ASSUME NEW S, NEW b \in Seq(S), NEW n \in 0 .. Len(b), NEW i \in 1 .. n
  PROVE  /\ SubSeq(b, 1, n)[i] = b[i] /\ Len(SubSeq(b, 1, n)) = n
         /\ SubSeq(b, i, Len(b)) \in Seq(S) /\ SubSeq(b, i, Len(b)) # <<>>
         /\ Head(SubSeq(b, i, Len(b))) = b[i]
         /\ Tail(SubSeq(b, i, Len(b))) = SubSeq(b, i + 1, Len(b))
  <1> DEFINE x == SubSeq(b, i, Len(b))
             y == SubSeq(b, i + 1, Len(b))
  <1>1. SubSeq(b, 1, n)[i] = b[i] /\ Len(SubSeq(b, 1, n)) = n
    OBVIOUS
  <1>2. /\ x \in Seq(S) /\ Len(x) = Len(b) - i + 1 /\ Len(b) \in Nat /\ i \in Nat /\ i <= Len(b)
        /\ \A j \in 1 .. Len(b) - i + 1 : x[j] = b[i + j - 1]
    OBVIOUS
  <1>3. /\ y \in Seq(S) /\ Len(y) = Len(b) - i
        /\ \A j \in 1 .. Len(b) - i : y[j] = b[i + j]
    OBVIOUS
  <1> HIDE DEF x, y
  <1>4. x # <<>> /\ Head(x) = x[1] /\ 1 \in 1 .. Len(b) - i + 1 /\ i + 1 - 1 = i
    BY <1>2
  <1>5. Tail(x) = y
    <2>1. Tail(x) \in Seq(S) /\ Len(Tail(x)) = Len(b) - i
      BY <1>2, <1>4
    <2>2. ASSUME NEW j \in 1 .. Len(b) - i PROVE Tail(x)[j] = y[j]
      <3>1. Tail(x)[j] = x[j + 1]
        BY <1>2, <1>4, <2>1
      <3>2. j + 1 \in 1 .. Len(b) - i + 1 /\ i + (j + 1) - 1 = i + j
        BY <1>2
      <3>3. x[j + 1] = b[i + j]
        BY <1>2, <3>2
      <3>4. QED BY <1>3, <3>1, <3>3
    <2>3. QED BY <1>3, <2>1, <2>2, SeqEqual
  <1>6. QED BY <1>1, <1>2, <1>4, <1>5 DEF x, y

(* A parsing t of messages of q, with c still to come. *)
OnTrack(t, q, c) ==
  /\ t \in Parsings
  /\ \A i \in 1 .. Len(t.done) : ~Unwanted(t.done[i])
  /\ \E left \in Seq(Messages) :
       /\ q = t.done \o left
       /\ \/ ~t.error /\ Parsing(t.parser, left, c)
          \/ t.error /\ left # <<>> /\ Unwanted(Head(left))

LEMMA OnTrackNext ==
  ASSUME NEW t, NEW q, NEW c \in Seq(Nat), c # <<>>, OnTrack(t, q, c)
  PROVE  OnTrack(Process(t, Head(c)), q, Tail(c))
  <1> DEFINE u == Process(t, Head(c))
  <1>1. Head(c) \in Nat /\ t \in Parsings /\ t.done \in Seq(Messages)
    BY HeadTail DEF OnTrack, Parsings
  <1>2. u \in Parsings
    BY <1>1, ProcessType
  <1>3. \A i \in 1 .. Len(t.done) : ~Unwanted(t.done[i])
    BY DEF OnTrack
  <1>4. PICK left \in Seq(Messages) :
          /\ q = t.done \o left
          /\ \/ ~t.error /\ Parsing(t.parser, left, c)
             \/ t.error /\ left # <<>> /\ Unwanted(Head(left))
    BY DEF OnTrack
  <1>5. CASE t.error
    <2>1. u = t
      BY <1>1, <1>5, ProcessCases
    <2>2. QED BY <1>3, <1>4, <1>5, <2>1, <1>1 DEF OnTrack
  <1>6. CASE ~t.error
    <2>1. /\ left # <<>>
          /\ \/ ~u.error /\ u.done = t.done /\ Parsing(u.parser, left, Tail(c))
             \/ /\ ~u.error /\ u.done = Append(t.done, Head(left)) /\ ~Unwanted(Head(left))
                /\ Parsing(u.parser, Tail(left), Tail(c))
             \/ u.error /\ u.done = t.done /\ Unwanted(Head(left))
      BY <1>1, <1>4, <1>6, ParsingNext
    <2> HIDE DEF u
    <2>2. CASE ~u.error /\ u.done = t.done /\ Parsing(u.parser, left, Tail(c))
      BY <1>2, <1>3, <1>4, <2>2 DEF OnTrack, u
    <2>3. CASE u.error /\ u.done = t.done /\ Unwanted(Head(left))
      BY <1>2, <1>3, <1>4, <2>1, <2>3 DEF OnTrack, u
    <2>4. CASE /\ ~u.error /\ u.done = Append(t.done, Head(left)) /\ ~Unwanted(Head(left))
               /\ Parsing(u.parser, Tail(left), Tail(c))
      <3>1. Tail(left) \in Seq(Messages) /\ Head(left) \in Messages
        BY <2>1, HeadTail
      <3>2. u.done \o Tail(left) = t.done \o left
        BY <1>1, <2>1, <2>4, AppendHead
      <3>3. \A i \in 1 .. Len(u.done) : ~Unwanted(u.done[i])
        <4>1. \A i \in 1 .. Len(u.done) :
                (i \in 1 .. Len(t.done) /\ u.done[i] = t.done[i]) \/ u.done[i] = Head(left)
          BY <1>1, <2>4, <3>1
        <4>2. QED BY <1>3, <2>4, <4>1
      <3>4. QED BY <1>2, <1>4, <2>4, <3>1, <3>2, <3>3 DEF OnTrack, u
    <2>5. QED BY <2>1, <2>2, <2>3, <2>4
  <1>7. QED BY <1>5, <1>6

(* n bytes of the stream. *)
LEMMA BufferParsed ==
  ASSUME NEW q \in Seq(Messages), NEW p, NEW b \in Seq(Nat), Parsing(p, q, b), NEW n \in 0 .. Len(b)
  PROVE  OnTrack(ProcessBuffer(p, SubSeq(b, 1, n)), q, SubSeq(b, n + 1, Len(b)))
  <1> DEFINE bytes == SubSeq(b, 1, n)
             C(i) == SubSeq(b, i + 1, Len(b))
  <1>1. bytes \in Seq(Nat) /\ Len(bytes) = n /\ n \in Nat
    OBVIOUS
  <1>2. \A i \in 1 .. n : /\ bytes[i] = b[i] /\ C(i - 1) \in Seq(Nat) /\ C(i - 1) # <<>>
                          /\ Head(C(i - 1)) = b[i] /\ Tail(C(i - 1)) = C(i)
    <2> SUFFICES ASSUME NEW i \in 1 .. n
                 PROVE  /\ bytes[i] = b[i] /\ C(i - 1) \in Seq(Nat) /\ C(i - 1) # <<>>
                        /\ Head(C(i - 1)) = b[i] /\ Tail(C(i - 1)) = C(i)
      OBVIOUS
    <2>1. (i - 1) + 1 = i
      OBVIOUS
    <2>2. QED BY <2>1, NextByte
  <1>3. C(0) = b
    OBVIOUS
  <1> HIDE DEF bytes, C
  <1>4. PICK after : /\ after[0] = [parser |-> p, done |-> <<>>, error |-> FALSE]
                     /\ \A i \in 1 .. n : after[i] = Process(after[i - 1], bytes[i])
                     /\ ProcessBuffer(p, bytes) = after[n]
    BY <1>1, BufferSteps
  <1> DEFINE Bad == {i \in Nat : i <= n /\ ~OnTrack(after[i], q, C(i))}
  <1>5. SUFFICES ASSUME ~OnTrack(after[n], q, C(n)) PROVE FALSE
    BY <1>4 DEF bytes, C
  <1>6. PICK i \in Bad : \A j \in Bad : i <= j
    <2>1. n \in Bad
      BY <1>1, <1>5
    <2>2. QED BY <2>1, LeastNumber
  <1>7. OnTrack(after[0], q, C(0))
    <2>1. /\ <<>> \in Seq(Messages) /\ Len(<<>>) = 0 /\ p \in Parsers /\ <<>> \o q = q
      BY ParsingTypes, ConcatEmpty
    <2>2. after[0] \in Parsings
      BY <1>4, <2>1 DEF Parsings
    <2>3. after[0].done = <<>> /\ ~after[0].error /\ after[0].parser = p
      BY <1>4
    <2>4. QED BY <1>3, <2>1, <2>2, <2>3 DEF OnTrack
  <1>8. i # 0 /\ i \in 1 .. n /\ i - 1 \in Nat /\ i - 1 <= n /\ ~(i <= i - 1)
    BY <1>1, <1>6, <1>7
  <1>9. OnTrack(after[i - 1], q, C(i - 1))
    BY <1>6, <1>8
  <1>10. OnTrack(Process(after[i - 1], Head(C(i - 1))), q, Tail(C(i - 1)))
    BY <1>2, <1>8, <1>9, OnTrackNext
  <1>11. OnTrack(after[i], q, C(i))
    BY <1>2, <1>4, <1>8, <1>10
  <1>12. QED BY <1>6, <1>11
-----------------------------------------------------------------------------
(* The messages of either side, and the channel. *)

ClientMessages == {Message(Connect, ConnectSize, 1), PingMessage, Goodbye} \cup Syncs

LEMMA MessageType ==
  ASSUME NEW type \in Nat, NEW n \in Nat, NEW value \in Nat
  PROVE  /\ Message(type, n, value) \in Messages
         /\ Message(type, n, value).type = type
         /\ n # 0 => Head(Message(type, n, value).payload) = value
  <1> DEFINE x == [i \in 1 .. n |-> value]
  <1>1. x \in Seq(Nat) /\ Len(x) = n
    OBVIOUS
  <1>2. n # 0 => x # <<>> /\ Head(x) = value
    <2> SUFFICES ASSUME n # 0 PROVE x # <<>> /\ Head(x) = value
      OBVIOUS
    <2>1. 1 \in 1 .. n /\ x[1] = value
      OBVIOUS
    <2> HIDE DEF x
    <2>2. QED BY <1>1, <2>1
  <1>3. Message(type, n, value) = [type |-> type, payload |-> x]
    BY DEF Message
  <1> HIDE DEF x
  <1>4. QED BY <1>1, <1>2, <1>3 DEF Messages

LEMMA TypeNumbers ==
  /\ Connect \in Nat /\ Connack \in Nat /\ Ping \in Nat /\ Pingresp \in Nat
  /\ Disconnect \in Nat /\ Kaasync \in Nat
  BY DEF Connect, Connack, Ping, Pingresp, Disconnect, Kaasync

LEMMA Sizes ==
  /\ InSize \in Nat /\ OutSize \in Nat /\ ConnectSize \in Nat
  /\ \A n \in SyncSizes : n \in Nat /\ n # 0
  /\ Size(Message(Connect, ConnectSize, 1)) <= OutSize
  /\ MaxConnections \in Nat /\ MaxSent \in Nat /\ MaxSyncs \in Nat /\ MaxPings \in Nat
  BY StreamAssumption DEF StreamAssumption

LEMMA SyncFacts ==
  ASSUME NEW m \in Syncs
  PROVE  m \in Messages /\ m.type = Kaasync /\ ~Unwanted(m)
  <1>1. PICK n \in SyncSizes : m = Message(Kaasync, n, 1)
    BY DEF Syncs
  <1>2. n \in Nat /\ n # 0
    BY Sizes
  <1>3. m \in Messages /\ m.type = Kaasync /\ Head(m.payload) = 1
    BY <1>1, <1>2, TypeNumbers, MessageType
  <1>4. QED BY <1>3 DEF Unwanted

LEMMA ClientFacts ==
  ASSUME NEW m \in ClientMessages
  PROVE  m \in Messages /\ ~Unwanted(m)
  <1>1. CASE m = Message(Connect, ConnectSize, 1)
    <2>1. m \in Messages /\ m.type = Connect
      BY <1>1, TypeNumbers, Sizes, MessageType
    <2>2. QED BY <2>1 DEF Unwanted, Connect, Kaasync
  <1>2. CASE m = PingMessage
    <2>1. m \in Messages /\ m.type = Ping
      BY <1>2, TypeNumbers, MessageType DEF PingMessage
    <2>2. QED BY <2>1 DEF Unwanted, Ping, Kaasync
  <1>3. CASE m = Goodbye
    <2>1. m \in Messages /\ m.type = Disconnect
      BY <1>3, TypeNumbers, MessageType DEF Goodbye
    <2>2. QED BY <2>1 DEF Unwanted, Disconnect, Kaasync
  <1>4. CASE m \in Syncs
    BY <1>4, SyncFacts
  <1>5. QED BY <1>1, <1>2, <1>3, <1>4 DEF ClientMessages

LEMMA ServerFacts ==
  ASSUME NEW m \in ServerMessages
  PROVE  /\ m \in Messages
         /\ m.type = Connack => m \in {Accepted, Rejected}
         /\ m.type = Disconnect => m = Goodbye
  <1>1. CASE m = Accepted \/ m = Rejected
    <2>1. m \in Messages /\ m.type = Connack
      BY <1>1, TypeNumbers, MessageType DEF Accepted, Rejected
    <2>2. QED BY <1>1, <2>1 DEF Connack, Disconnect
  <1>2. CASE m = Foreign
    <2>1. m \in Messages /\ m.type = Kaasync
      BY <1>2, TypeNumbers, MessageType DEF Foreign
    <2>2. QED BY <2>1 DEF Connack, Disconnect, Kaasync
  <1>3. CASE m = Goodbye
    <2>1. m \in Messages /\ m.type = Disconnect
      BY <1>3, TypeNumbers, MessageType DEF Goodbye
    <2>2. QED BY <1>3, <2>1 DEF Connack, Disconnect
  <1>4. CASE m = Message(Pingresp, 0, 1)
    <2>1. m \in Messages /\ m.type = Pingresp
      BY <1>4, TypeNumbers, MessageType
    <2>2. QED BY <2>1 DEF Connack, Disconnect, Pingresp
  <1>5. CASE m \in Syncs
    <2>1. m \in Messages /\ m.type = Kaasync
      BY <1>5, SyncFacts
    <2>2. QED BY <2>1 DEF Connack, Disconnect, Kaasync
  <1>6. QED BY <1>1, <1>2, <1>3, <1>4, <1>5 DEF ServerMessages

Sound(ch) ==
  /\ ch \in Channels /\ Len(ch.out) <= OutSize
  /\ ch.state = "UNDEFINED" => ~ch.up /\ ch.out = <<>>
  /\ ch.state # "UNDEFINED" => ch.queued # <<>>

LEMMA ChannelFields ==
  ASSUME NEW ch \in Channels
  PROVE  /\ ch.up \in BOOLEAN /\ ch.state \in {"UNDEFINED", "AUTHORIZING", "AUTHORIZED", "DISCONNECTING"}
         /\ ch.parser \in Parsers /\ ch.out \in Seq(Nat) /\ ch.queued \in Seq(Messages)
         /\ Len(ch.out) \in Nat
  BY DEF Channels, Messages

LEMMA QueueFacts ==
  ASSUME NEW ch \in Channels, NEW m \in Messages
  PROVE  /\ Queue(ch, m) \in Channels
         /\ Queue(ch, m).up = ch.up /\ Queue(ch, m).state = ch.state /\ Queue(ch, m).parser = ch.parser
         /\ Queue(ch, m).out = ch.out \o Encode(m) /\ Queue(ch, m).queued = Append(ch.queued, m)
         /\ Len(Queue(ch, m).out) = Len(ch.out) + Size(m)
  <1> DEFINE x == ch.out \o Encode(m)
             y == Append(ch.queued, m)
  <1>1. /\ Encode(m) \in Seq(Nat) /\ ch.out \in Seq(Nat) /\ ch.queued \in Seq(Messages)
    BY EncodeShape, ChannelFields
  <1>2. x \in Seq(Nat) /\ Len(x) = Len(ch.out) + Size(m)
    BY <1>1, ConcatLen, ConcatAssoc DEF Size
  <1>3. y \in Seq([type : Nat, payload : Seq(Nat)])
    BY <1>1 DEF Messages
  <1>4. Queue(ch, m) = [ch EXCEPT !.out = x, !.queued = y]
    BY DEF Queue
  <1> HIDE DEF x, y
  <1>5. QED BY <1>2, <1>3, <1>4 DEF Channels, x, y

LEMMA SocketIoErrorFacts ==
  ASSUME NEW ch \in Channels
  PROVE  LET x == SocketIoError(ch)
         IN  /\ Sound(x) /\ x.queued = ch.queued
             /\ ~x.up /\ x.state = "UNDEFINED" /\ x.out = <<>> /\ x.parser = NewParser
             /\ x = [Down EXCEPT !.queued = x.queued]
  <1> DEFINE x == SocketIoError(ch)
             e == <<>>
  <1>1. e \in Seq(Nat) /\ Len(e) = 0
    OBVIOUS
  <1>2. x = [ch EXCEPT !.up = FALSE, !.state = "UNDEFINED", !.out = e, !.parser = NewParser]
    BY DEF SocketIoError
  <1> HIDE DEF e
  <1>3. /\ x \in Channels /\ x.queued = ch.queued /\ ~x.up /\ x.state = "UNDEFINED" /\ x.out = e
        /\ x.parser = NewParser
    BY <1>1, <1>2, NewParserType DEF Channels
  <1> HIDE DEF x
  <1>4. Sound(x)
    BY <1>1, <1>3, Sizes DEF Sound, e
  <1>5. x = [Down EXCEPT !.queued = x.queued]
    <2>1. x = [up |-> x.up, state |-> x.state, parser |-> x.parser, out |-> x.out, queued |-> x.queued]
      BY <1>3 DEF Channels
    <2>2. x.up = FALSE
      BY <1>3, ChannelFields
    <2>3. ASSUME NEW y
          PROVE  [Down EXCEPT !.queued = y]
                   = [up |-> FALSE, state |-> "UNDEFINED", parser |-> NewParser, out |-> <<>>, queued |-> y]
      <3> DEFINE r == [Down EXCEPT !.queued = y]
      <3>1. r = [i \in {"up", "state", "parser", "out", "queued"} |-> r[i]]
        BY DEF Down
      <3>2. /\ r.up = FALSE /\ r.state = "UNDEFINED" /\ r.parser = NewParser /\ r.out = <<>>
            /\ r.queued = y
        BY DEF Down
      <3> HIDE DEF r
      <3>3. r = [up |-> FALSE, state |-> "UNDEFINED", parser |-> NewParser, out |-> <<>>, queued |-> y]
        BY <3>1, <3>2
      <3>4. QED BY <3>3 DEF r
    <2>4. QED BY <1>3, <2>1, <2>2, <2>3 DEF e
  <1>6. QED BY <1>3, <1>4, <1>5 DEF x, e

LEMMA SoundFields ==
  ASSUME NEW ch, Sound(ch)
  PROVE  /\ ch \in Channels /\ ch.up \in BOOLEAN /\ ch.parser \in Parsers
         /\ ch.state \in {"UNDEFINED", "AUTHORIZING", "AUTHORIZED", "DISCONNECTING"}
         /\ ch.out \in Seq(Nat) /\ ch.queued \in Seq(Messages)
         /\ Len(ch.out) \in Nat /\ Len(ch.out) <= OutSize
  BY ChannelFields DEF Sound

(* Steps that change one field. *)
LEMMA StateChange ==
  ASSUME NEW ch, Sound(ch), ch.state # "UNDEFINED",
         NEW x \in {"AUTHORIZING", "AUTHORIZED", "DISCONNECTING"}
  PROVE  LET y == [ch EXCEPT !.state = x]
         IN  /\ Sound(y) /\ y.state = x
             /\ y.up = ch.up /\ y.out = ch.out /\ y.queued = ch.queued /\ y.parser = ch.parser
  <1> DEFINE y == [ch EXCEPT !.state = x]
  <1>1. ch \in Channels
    BY DEF Sound
  <1>2. /\ y \in Channels /\ y.state = x
        /\ y.up = ch.up /\ y.out = ch.out /\ y.queued = ch.queued /\ y.parser = ch.parser
    BY <1>1 DEF Channels
  <1> HIDE DEF y
  <1>3. Sound(y)
    BY <1>2 DEF Sound
  <1>4. QED BY <1>2, <1>3 DEF y

LEMMA ParserChange ==
  ASSUME NEW ch, Sound(ch), NEW p \in Parsers
  PROVE  LET y == [ch EXCEPT !.parser = p]
         IN  /\ Sound(y) /\ y.parser = p
             /\ y.up = ch.up /\ y.out = ch.out /\ y.queued = ch.queued /\ y.state = ch.state
  <1> DEFINE y == [ch EXCEPT !.parser = p]
  <1>1. ch \in Channels
    BY DEF Sound
  <1>2. /\ y \in Channels /\ y.parser = p
        /\ y.up = ch.up /\ y.out = ch.out /\ y.queued = ch.queued /\ y.state = ch.state
    BY <1>1 DEF Channels
  <1> HIDE DEF y
  <1>3. Sound(y)
    BY <1>2 DEF Sound
  <1>4. QED BY <1>2, <1>3 DEF y

LEMMA QueueSound ==
  ASSUME NEW ch, Sound(ch), NEW m \in Messages, Fits(ch, m), ch.state # "UNDEFINED"
  PROVE  Sound(Queue(ch, m))
  <1> DEFINE x == Queue(ch, m)
  <1>1. ch \in Channels /\ ch.queued \in Seq(Messages)
    BY SoundFields
  <1>2. /\ x \in Channels /\ x.state = ch.state /\ x.queued = Append(ch.queued, m)
        /\ Len(x.out) = Len(ch.out) + Size(m)
    BY <1>1, QueueFacts
  <1> HIDE DEF x
  <1>3. x.queued # <<>>
    BY <1>1, <1>2
  <1>4. Sound(x)
    BY <1>2, <1>3 DEF Sound, Fits
  <1>5. QED BY <1>4 DEF x

LEMMA GoodbyeType == Goodbye \in Messages /\ PingMessage \in Messages
  BY ClientFacts DEF ClientMessages

LEMMA HandleSound ==
  ASSUME NEW ch, Sound(ch), NEW m
  PROVE  Sound(Handle(ch, m))
  <1>1. ch \in Channels
    BY DEF Sound
  <1>2. Sound(SocketIoError(ch))
    BY <1>1, SocketIoErrorFacts
  <1>3. Sound(OnConnack(ch, m))
    BY <1>2, StateChange DEF OnConnack
  <1>4. Sound(OnKaasync(ch))
    <2>1. CASE Fits(ch, Goodbye) /\ ch.state = "UNDEFINED"
      <3> DEFINE x == Queue(ch, Goodbye)
                 y == [x EXCEPT !.state = "DISCONNECTING"]
      <3>1. x \in Channels /\ Len(x.out) <= OutSize /\ x.queued # <<>>
        <4>1. /\ x \in Channels /\ Len(x.out) <= OutSize /\ x.queued = Append(ch.queued, Goodbye)
          BY <1>1, <2>1, QueueFacts, GoodbyeType DEF Fits
        <4>2. ch.queued \in Seq(Messages)
          BY SoundFields
        <4> HIDE DEF x
        <4>3. QED BY <4>1, <4>2
      <3> HIDE DEF x
      <3>2. y \in Channels /\ y.out = x.out /\ y.queued = x.queued /\ y.state = "DISCONNECTING"
        BY <3>1 DEF Channels
      <3> HIDE DEF y
      <3>3. Sound(y)
        BY <3>1, <3>2 DEF Sound
      <3>4. QED BY <3>3 DEF OnKaasync, y, x
    <2>2. CASE Fits(ch, Goodbye) /\ ch.state # "UNDEFINED"
      BY <1>1, <2>2, QueueSound, QueueFacts, GoodbyeType, StateChange DEF OnKaasync
    <2>3. CASE ~Fits(ch, Goodbye)
      BY <2>3 DEF OnKaasync
    <2>4. QED BY <2>1, <2>2, <2>3
  <1>5. QED BY <1>2, <1>3, <1>4 DEF Handle

LEMMA HandleAllSound ==
  ASSUME NEW ch, Sound(ch), NEW msgs \in Seq(Messages)
  PROVE  Sound(FoldLeft(Handle, ch, msgs))
  <1> DEFINE n == Len(msgs)
  <1>1. PICK after : /\ after[0] = ch
                     /\ \A i \in 1 .. n : after[i] = Handle(after[i - 1], msgs[i])
                     /\ FoldLeft(Handle, ch, msgs) = after[n]
    BY HandleSteps
  <1>2. n \in Nat
    OBVIOUS
  <1> HIDE DEF n
  <1> DEFINE Bad == {i \in Nat : i <= n /\ ~Sound(after[i])}
  <1>3. SUFFICES ASSUME Bad # {} PROVE FALSE
    BY <1>1, <1>2
  <1>4. PICK i \in Bad : \A j \in Bad : i <= j
    BY <1>3, LeastNumber
  <1>5. i # 0 /\ i \in 1 .. n /\ i - 1 \in Nat /\ i - 1 <= n /\ ~(i <= i - 1)
    BY <1>1, <1>2, <1>4
  <1>6. Sound(after[i - 1])
    BY <1>4, <1>5
  <1>7. Sound(after[i])
    BY <1>1, <1>5, <1>6, HandleSound
  <1>8. QED BY <1>4, <1>7

LEMMA AfterReadSound ==
  ASSUME NEW ch, Sound(ch), NEW bytes \in Seq(Nat)
  PROVE  Sound(AfterRead(ch, bytes).channel) /\ AfterRead(ch, bytes).done \in Seq(Messages)
  <1> DEFINE parsing == ProcessBuffer(ch.parser, bytes)
             h == FoldLeft(Handle, ch, parsing.done)
             x == [h EXCEPT !.parser = parsing.parser]
  <1>1. parsing \in Parsings
    BY BufferType, SoundFields
  <1>2. AfterRead(ch, bytes) = [channel |-> IF parsing.error THEN SocketIoError(x) ELSE x,
                                done |-> parsing.done]
    BY DEF AfterRead
  <1> HIDE DEF parsing
  <1>3. parsing.parser \in Parsers /\ parsing.done \in Seq(Messages)
    BY <1>1 DEF Parsings
  <1>4. Sound(h)
    BY <1>3, HandleAllSound
  <1> HIDE DEF h
  <1>5. Sound(x)
    BY <1>3, <1>4, ParserChange
  <1> HIDE DEF x
  <1>6. Sound(SocketIoError(x))
    BY <1>5, SocketIoErrorFacts DEF Sound
  <1>7. QED BY <1>2, <1>3, <1>5, <1>6

LEMMA KeptFacts ==
  ASSUME Sound(channel), ~KeepaliveFails
  PROVE  /\ Sound(Kept) /\ Kept.up = channel.up /\ Kept.state = channel.state
         /\ Kept.parser = channel.parser
         /\ \/ ~PingWanted /\ Kept = channel
            \/ Kept = Queue(channel, PingMessage) /\ channel.state = "AUTHORIZED"
  <1>1. CASE PingWanted
    <2>1. /\ channel.state = "AUTHORIZED" /\ Fits(channel, PingMessage) /\ channel \in Channels
          /\ Kept = Queue(channel, PingMessage)
      BY <1>1, SoundFields DEF Kept, PingWanted, KeepaliveFails
    <2>2. QED BY <2>1, QueueSound, QueueFacts, GoodbyeType
  <1>2. CASE ~PingWanted
    BY <1>2 DEF Kept
  <1>3. QED BY <1>1, <1>2

LEMMA RestFacts ==
  ASSUME NEW ch, Sound(ch), NEW n \in 0 .. Len(ch.out)
  PROVE  /\ Sound(Rest(ch, n)) /\ Rest(ch, n).up = ch.up /\ Rest(ch, n).state = ch.state
         /\ Rest(ch, n).parser = ch.parser /\ Rest(ch, n).queued = ch.queued
         /\ Rest(ch, n).out = SubSeq(ch.out, n + 1, Len(ch.out))
         /\ SubSeq(ch.out, 1, n) \in Seq(Nat)
  <1> DEFINE x == SubSeq(ch.out, n + 1, Len(ch.out))
  <1>1. ch.out \in Seq(Nat) /\ Len(ch.out) \in Nat /\ Len(ch.out) <= OutSize /\ ch \in Channels
    BY SoundFields
  <1>2. x \in Seq(Nat) /\ Len(x) = Len(ch.out) - n /\ SubSeq(ch.out, 1, n) \in Seq(Nat)
    BY <1>1
  <1>3. ch.out = <<>> => x = <<>>
    BY <1>1, <1>2
  <1>4. Rest(ch, n) = [ch EXCEPT !.out = x]
    BY DEF Rest
  <1> HIDE DEF x
  <1>5. Len(x) <= OutSize
    BY <1>1, <1>2, Sizes
  <1>6. QED BY <1>1, <1>2, <1>3, <1>4, <1>5 DEF Sound, Channels, x

Types ==
  /\ TypeOK /\ Sound(channel)
  /\ arrived \in Seq(Messages) /\ handled \in Seq(Messages)

LEMMA ServerMessageFacts ==
  /\ ServerMessages \subseteq Messages
  /\ \A m \in ServerMessages : Encode(m) \in Seq(Nat)
  BY ServerFacts, EncodeShape

LEMMA BufferTyped ==
  ASSUME NEW p \in Parsers, NEW bytes \in Seq(Nat)
  PROVE  ProcessBuffer(p, bytes).parser \in Parsers /\ ProcessBuffer(p, bytes).done \in Seq(Messages)
  BY BufferType DEF Parsings

(* The CONNECT of a channel that authorizes fits its empty out_buffer. *)
LEMMA AuthorizeFacts ==
  ASSUME NEW ch \in Channels, Len(ch.out) <= OutSize,
         ch.state = "UNDEFINED" => ch.out = <<>>, ch.state # "UNDEFINED" => ch.queued # <<>>
  PROVE  LET y == Authorize(ch)
         IN  /\ Sound(y) /\ y.up = ch.up
             /\ ch.state # "UNDEFINED" => y = ch
             /\ ch.state = "UNDEFINED" =>
                  /\ y.state = "AUTHORIZING" /\ y.parser = ch.parser
                  /\ y.out = <<>> \o Encode(Message(Connect, ConnectSize, 1))
                  /\ y.queued = Append(ch.queued, Message(Connect, ConnectSize, 1))
  <1> DEFINE e == <<>>
             m == Message(Connect, ConnectSize, 1)
             z == Queue(ch, m)
             y == [z EXCEPT !.state = "AUTHORIZING"]
  <1>1. e \in Seq(Nat) /\ Len(e) = 0
    OBVIOUS
  <1>2. m \in Messages /\ Size(m) <= OutSize
    BY ClientFacts, Sizes DEF ClientMessages
  <1>3. CASE ch.state # "UNDEFINED"
    <2>1. Authorize(ch) = ch
      BY <1>3 DEF Authorize
    <2>2. Sound(ch)
      BY <1>3 DEF Sound
    <2>3. QED BY <1>3, <2>1, <2>2
  <1>4. CASE ch.state = "UNDEFINED"
    <2>1. ch.out = e
      BY <1>4
    <2>2. Authorize(ch) = y
      BY <1>4 DEF Authorize
    <2> HIDE DEF e, m
    <2>3. ch.queued \in Seq(Messages)
      BY ChannelFields
    <2>4. /\ z \in Channels /\ z.up = ch.up /\ z.parser = ch.parser
          /\ z.out = e \o Encode(m) /\ z.queued = Append(ch.queued, m) /\ Len(z.out) = Len(e) + Size(m)
      <3>1. /\ z \in Channels /\ z.up = ch.up /\ z.parser = ch.parser
            /\ z.out = ch.out \o Encode(m) /\ z.queued = Append(ch.queued, m)
            /\ Len(z.out) = Len(ch.out) + Size(m)
        BY <1>2, QueueFacts
      <3> HIDE DEF z
      <3>2. QED BY <2>1, <3>1
    <2>5. Len(z.out) <= OutSize
      <3>1. Size(m) \in Nat
        BY <1>2, EncodeShape DEF Size
      <3>2. QED BY <1>1, <1>2, <2>4, <3>1
    <2> HIDE DEF z
    <2>6. z.queued # <<>>
      <3>1. Append(ch.queued, m) # <<>>
        BY <1>2, <2>3
      <3>2. QED BY <2>4, <3>1
    <2>7. /\ y \in Channels /\ y.up = ch.up /\ y.state = "AUTHORIZING" /\ y.parser = z.parser
          /\ y.out = z.out /\ y.queued = z.queued
      BY <2>4 DEF Channels
    <2> HIDE DEF y
    <2>8. Sound(y)
      BY <2>5, <2>6, <2>7 DEF Sound
    <2>9. QED BY <1>4, <2>2, <2>4, <2>7, <2>8 DEF m, e
  <1>5. QED BY <1>3, <1>4

LEMMA LastOfSome ==
  ASSUME NEW S, NEW s \in Seq(S), s # <<>>
  PROVE  Last(s) \in S /\ <<Last(s)>> \in Seq(S) /\ <<Last(s)>> # <<>>
  <1>1. Len(s) \in 1 .. Len(s) /\ s[Len(s)] \in S
    OBVIOUS
  <1>2. Last(s) \in S
    BY <1>1 DEF Last
  <1>3. QED BY <1>2

(* A channel that connects authorizes, or has done so when a write failed. *)
LEMMA ConnectedNext ==
  ASSUME Sound(channel), Connected
  PROVE  /\ Sound(channel') /\ channel'.up
         /\ channel.state = "UNDEFINED" =>
              /\ channel'.state = "AUTHORIZING" /\ channel'.parser = channel.parser
              /\ channel'.out = <<>> \o Encode(Message(Connect, ConnectSize, 1))
              /\ channel'.queued = Append(<<>>, Message(Connect, ConnectSize, 1))
         /\ channel.state # "UNDEFINED" =>
              /\ channel'.state = channel.state /\ channel'.parser = channel.parser
              /\ channel'.out = channel.out /\ channel'.queued = <<Last(channel.queued)>>
  <1> DEFINE q == IF channel.state = "UNDEFINED" THEN <<>> ELSE <<Last(channel.queued)>>
             x == [channel EXCEPT !.up = TRUE, !.queued = q]
  <1>1. /\ channel \in Channels /\ channel.queued \in Seq(Messages) /\ Len(channel.out) <= OutSize
        /\ channel.state = "UNDEFINED" => channel.out = <<>>
    BY SoundFields DEF Sound
  <1>2. /\ q \in Seq([type : Nat, payload : Seq(Nat)])
        /\ channel.state # "UNDEFINED" => q = <<Last(channel.queued)>> /\ q # <<>>
        /\ channel.state = "UNDEFINED" => q = <<>>
    <2>1. CASE channel.state = "UNDEFINED"
      BY <2>1
    <2>2. CASE channel.state # "UNDEFINED"
      BY <1>1, <2>2, LastOfSome DEF Sound, Messages
    <2>3. QED BY <2>1, <2>2
  <1>3. channel' = Authorize(x)
    BY DEF Connected
  <1> HIDE DEF q
  <1>4. /\ x \in Channels /\ x.up = TRUE /\ x.state = channel.state /\ x.parser = channel.parser
        /\ x.out = channel.out /\ x.queued = q
    BY <1>1, <1>2 DEF Channels
  <1> HIDE DEF x
  <1>5. /\ Sound(Authorize(x)) /\ Authorize(x).up = x.up
        /\ x.state # "UNDEFINED" => Authorize(x) = x
        /\ x.state = "UNDEFINED" =>
             /\ Authorize(x).state = "AUTHORIZING" /\ Authorize(x).parser = x.parser
             /\ Authorize(x).out = <<>> \o Encode(Message(Connect, ConnectSize, 1))
             /\ Authorize(x).queued = Append(x.queued, Message(Connect, ConnectSize, 1))
    BY <1>1, <1>2, <1>4, AuthorizeFacts
  <1>6. QED BY <1>2, <1>3, <1>4, <1>5

(* A write that fails leaves a sound channel, which may have authorized. *)
LEMMA GoOnClosedFacts ==
  ASSUME NEW ch \in Channels
  PROVE  LET x == SocketIoError(ch)
             y == GoOnClosed(x)
         IN  /\ Sound(y) /\ ~y.up
             /\ bootstrap => y = x
             /\ ~bootstrap =>
                  /\ y.state = "AUTHORIZING" /\ y.parser = NewParser
                  /\ y.out = <<>> \o Encode(Message(Connect, ConnectSize, 1))
                  /\ y.queued = Append(ch.queued, Message(Connect, ConnectSize, 1))
  <1> DEFINE x == SocketIoError(ch)
  <1>1. /\ Sound(x) /\ x.queued = ch.queued /\ ~x.up /\ x.state = "UNDEFINED" /\ x.out = <<>>
        /\ x.parser = NewParser
    BY SocketIoErrorFacts
  <1> HIDE DEF x
  <1>2. x \in Channels /\ Len(x.out) <= OutSize
    BY <1>1, SoundFields
  <1>3. /\ Sound(Authorize(x)) /\ Authorize(x).up = x.up
        /\ Authorize(x).state = "AUTHORIZING" /\ Authorize(x).parser = x.parser
        /\ Authorize(x).out = <<>> \o Encode(Message(Connect, ConnectSize, 1))
        /\ Authorize(x).queued = Append(x.queued, Message(Connect, ConnectSize, 1))
    BY <1>1, <1>2, AuthorizeFacts
  <1>4. QED BY <1>1, <1>3 DEF GoOnClosed, x

LEMMA InitTypes == Init => Types
  <1> SUFFICES ASSUME Init PROVE Types
    OBVIOUS
  <1> DEFINE e == <<>>
  <1>1. /\ e \in Seq(Nat) /\ e \in Seq(Messages) /\ e \in Seq(ServerMessages) /\ Len(e) = 0
        /\ e \in Seq([type : Nat, payload : Seq(Nat)])
    OBVIOUS
  <1>2. channel = [up |-> FALSE, state |-> "UNDEFINED", parser |-> NewParser, out |-> e, queued |-> e]
    BY DEF Init, Down
  <1>3. sent = e /\ toClient = e /\ arrived = e /\ handled = e
    BY DEF Init
  <1>4. Sound(channel)
    <2> HIDE DEF e
    <2>1. /\ channel \in Channels /\ channel.out = e /\ channel.up = FALSE
          /\ channel.state = "UNDEFINED"
      BY <1>1, <1>2, NewParserType DEF Channels
    <2>2. QED BY <1>1, <2>1, Sizes DEF Sound, e
  <1> HIDE DEF e
  <1>5. /\ connections \in 0 .. MaxConnections /\ syncs \in 0 .. MaxSyncs /\ pings \in 0 .. MaxPings
    BY Sizes DEF Init
  <1>6. bootstrap \in BOOLEAN /\ pending \in BOOLEAN /\ pingDue \in BOOLEAN /\ server \in Parsers
    BY NewParserType DEF Init
  <1>7. channel \in Channels /\ Len(channel.out) <= OutSize
    BY <1>4, SoundFields
  <1>8. TypeOK
    BY <1>1, <1>3, <1>5, <1>6, <1>7 DEF TypeOK
  <1>9. QED BY <1>1, <1>3, <1>4, <1>8 DEF Types

LEMMA Pieces ==
  ASSUME NEW S, NEW b \in Seq(S), NEW n \in Nat, n <= Len(b)
  PROVE  /\ SubSeq(b, 1, n) \in Seq(S) /\ SubSeq(b, n + 1, Len(b)) \in Seq(S)
         /\ Len(SubSeq(b, 1, n)) = n /\ Len(SubSeq(b, n + 1, Len(b))) = Len(b) - n
         /\ SubSeq(b, 1, n) \o SubSeq(b, n + 1, Len(b)) = b
  <1> DEFINE x == SubSeq(b, 1, n)
             y == SubSeq(b, n + 1, Len(b))
  <1>1. Len(b) \in Nat
    OBVIOUS
  <1>2. x \in Seq(S) /\ Len(x) = n /\ \A i \in 1 .. n : x[i] = b[i]
    OBVIOUS
  <1>3. y \in Seq(S) /\ Len(y) = Len(b) - n /\ \A i \in 1 .. Len(b) - n : y[i] = b[n + i]
    OBVIOUS
  <1> HIDE DEF x, y
  <1>4. x \o y \in Seq(S) /\ Len(x \o y) = Len(b)
    BY <1>1, <1>2, <1>3
  <1>5. ASSUME NEW i \in 1 .. Len(b) PROVE (x \o y)[i] = b[i]
    <2>1. CASE i <= n
      BY <1>1, <1>2, <1>3, <2>1
    <2>2. CASE ~(i <= n)
      <3>1. (x \o y)[i] = y[i - n] /\ i - n \in 1 .. Len(b) - n /\ n + (i - n) = i
        BY <1>1, <1>2, <1>3, <2>2
      <3>2. QED BY <1>3, <3>1
    <2>3. QED BY <2>1, <2>2
  <1>6. x \o y = b
    BY <1>4, <1>5, SeqEqual
  <1>7. QED BY <1>2, <1>3, <1>6 DEF x, y

(* What follows the write of a sync: the channel w after it was queued if   *)
(* it fitted, and x after k more bytes were written.                       *)
LEMMA WritePendingFacts ==
  ASSUME NEW ch, Sound(ch), ch.state # "UNDEFINED", NEW m \in Messages
  PROVE  LET w == WritePending(ch, m)
         IN  /\ Sound(w) /\ w.up = ch.up /\ w.state = ch.state /\ w.parser = ch.parser
             /\ \/ w = ch
                \/ w = Queue(ch, m)
  <1>1. ch \in Channels
    BY SoundFields
  <1>2. CASE Fits(ch, m)
    BY <1>1, <1>2, QueueSound, QueueFacts DEF WritePending
  <1>3. CASE ~Fits(ch, m)
    BY <1>3 DEF WritePending
  <1>4. QED BY <1>2, <1>3

LEMMA WroteTypes ==
  ASSUME Types, NEW bytes \in Seq(Nat), NEW ch, Sound(ch), Wrote(bytes, ch)
  PROVE  /\ server' \in Parsers /\ arrived' \in Seq(Messages) /\ channel' \in Channels
         /\ Len(channel'.out) <= OutSize /\ Sound(channel') /\ toClient' \in Seq(Nat)
  <1>1. server \in Parsers /\ arrived \in Seq(Messages) /\ toClient \in Seq(Nat)
    BY DEF Types, TypeOK
  <1>2. ProcessBuffer(server, bytes).parser \in Parsers /\ ProcessBuffer(server, bytes).done \in Seq(Messages)
    BY <1>1, BufferTyped
  <1>3. server' \in Parsers /\ arrived' \in Seq(Messages)
    BY <1>1, <1>2, ConcatLen DEF Wrote
  <1>4. channel' = ch
    BY DEF Wrote
  <1>5. ch \in Channels /\ Len(ch.out) <= OutSize
    BY SoundFields
  <1>6. <<>> \in Seq(Nat)
    OBVIOUS
  <1>7. toClient' \in Seq(Nat)
    BY <1>1, <1>6 DEF Wrote
  <1>8. QED BY <1>3, <1>4, <1>5, <1>7

(* What a Write comes to: the bytes b written, the channel after it. *)
Written(b, ch) ==
  \E n \in 0 .. OutSize :
    /\ n <= Len(Kept.out)
    /\ \/ /\ HangsUp(Rest(Kept, n))
          /\ b = SubSeq(Kept.out, 1, n) /\ ch = SocketIoError(Rest(Kept, n))
       \/ /\ ~HangsUp(Rest(Kept, n))
          /\ b = SubSeq(Kept.out, 1, n) /\ ch = Rest(Kept, n)
       \/ /\ Rest(Kept, n).state # "DISCONNECTING"
          /\ \E m \in Syncs :
               LET next == WritePending(Rest(Kept, n), m)
               IN  \E k \in 0 .. OutSize :
                     /\ k <= Len(next.out)
                     /\ b = SubSeq(Kept.out, 1, n) \o SubSeq(next.out, 1, k) /\ ch = Rest(next, k)

LEMMA WriteWrites ==
  ASSUME Write
  PROVE  /\ \E b, ch : Written(b, ch) /\ Wrote(b, ch)
         /\ channel.up /\ ~KeepaliveFails /\ pingDue' = FALSE
         /\ UNCHANGED <<bootstrap, sent, handled, connections, syncs, pings>>
         /\ pending' = FALSE \/ UNCHANGED pending
  <1>1. PICK n \in 0 .. OutSize :
          /\ n <= Len(Kept.out)
          /\ \/ /\ HangsUp(Rest(Kept, n))
                /\ Wrote(SubSeq(Kept.out, 1, n), SocketIoError(Rest(Kept, n)))
                /\ UNCHANGED pending
             \/ /\ ~HangsUp(Rest(Kept, n))
                /\ Wrote(SubSeq(Kept.out, 1, n), Rest(Kept, n))
                /\ UNCHANGED pending
             \/ /\ Rest(Kept, n).state # "DISCONNECTING"
                /\ \E m \in Syncs :
                     LET next == WritePending(Rest(Kept, n), m)
                     IN  \E k \in 0 .. OutSize :
                           /\ k <= Len(next.out)
                           /\ Wrote(SubSeq(Kept.out, 1, n) \o SubSeq(next.out, 1, k), Rest(next, k))
                /\ pending' = FALSE
    BY DEF Write
  <1>2. (\E b, ch : Written(b, ch) /\ Wrote(b, ch)) /\ (pending' = FALSE \/ UNCHANGED pending)
    <2>1. CASE /\ HangsUp(Rest(Kept, n))
               /\ Wrote(SubSeq(Kept.out, 1, n), SocketIoError(Rest(Kept, n)))
               /\ UNCHANGED pending
      <3>1. Written(SubSeq(Kept.out, 1, n), SocketIoError(Rest(Kept, n)))
        BY <1>1, <2>1 DEF Written
      <3>2. QED BY <2>1, <3>1
    <2>2. CASE /\ ~HangsUp(Rest(Kept, n))
               /\ Wrote(SubSeq(Kept.out, 1, n), Rest(Kept, n))
               /\ UNCHANGED pending
      <3>1. Written(SubSeq(Kept.out, 1, n), Rest(Kept, n))
        BY <1>1, <2>2 DEF Written
      <3>2. QED BY <2>2, <3>1
    <2>3. ASSUME NEW m \in Syncs, NEW k \in 0 .. OutSize,
                 k <= Len(WritePending(Rest(Kept, n), m).out),
                 Rest(Kept, n).state # "DISCONNECTING",
                 Wrote(SubSeq(Kept.out, 1, n) \o SubSeq(WritePending(Rest(Kept, n), m).out, 1, k),
                       Rest(WritePending(Rest(Kept, n), m), k))
          PROVE  \E b, ch : Written(b, ch) /\ Wrote(b, ch)
      <3>1. Written(SubSeq(Kept.out, 1, n) \o SubSeq(WritePending(Rest(Kept, n), m).out, 1, k),
                    Rest(WritePending(Rest(Kept, n), m), k))
        BY <1>1, <2>3 DEF Written
      <3>2. QED BY <2>3, <3>1
    <2>4. QED BY <1>1, <2>1, <2>2, <2>3
  <1>3. QED BY <1>2 DEF Write

LEMMA WrittenSound ==
  ASSUME Types, ~KeepaliveFails, channel.up, NEW b, NEW ch, Written(b, ch)
  PROVE  Sound(ch) /\ b \in Seq(Nat)
  <1>1. Sound(Kept) /\ Kept.up /\ Kept.state # "UNDEFINED"
    BY KeptFacts DEF Types, Sound
  <1>2. PICK n \in 0 .. OutSize :
          /\ n <= Len(Kept.out)
          /\ \/ /\ HangsUp(Rest(Kept, n))
                /\ b = SubSeq(Kept.out, 1, n) /\ ch = SocketIoError(Rest(Kept, n))
             \/ /\ ~HangsUp(Rest(Kept, n))
                /\ b = SubSeq(Kept.out, 1, n) /\ ch = Rest(Kept, n)
             \/ /\ Rest(Kept, n).state # "DISCONNECTING"
                /\ \E m \in Syncs :
                     LET next == WritePending(Rest(Kept, n), m)
                     IN  \E k \in 0 .. OutSize :
                           /\ k <= Len(next.out)
                           /\ b = SubSeq(Kept.out, 1, n) \o SubSeq(next.out, 1, k) /\ ch = Rest(next, k)
    BY DEF Written
  <1> DEFINE r == Rest(Kept, n)
             a == SubSeq(Kept.out, 1, n)
  <1>3. n \in 0 .. Len(Kept.out)
    BY <1>1, <1>2, SoundFields, Sizes
  <1>4. Sound(r) /\ r.state # "UNDEFINED" /\ a \in Seq(Nat)
    BY <1>1, <1>3, RestFacts
  <1>5. Sound(SocketIoError(r))
    BY <1>4, SoundFields, SocketIoErrorFacts
  <1> HIDE DEF r, a
  <1>6. CASE b = a /\ (ch = r \/ ch = SocketIoError(r))
    BY <1>4, <1>5, <1>6
  <1>7. ASSUME NEW m \in Syncs, NEW k \in 0 .. OutSize, k <= Len(WritePending(r, m).out),
               b = a \o SubSeq(WritePending(r, m).out, 1, k), ch = Rest(WritePending(r, m), k)
        PROVE  Sound(ch) /\ b \in Seq(Nat)
    <2> DEFINE w == WritePending(r, m)
               c == SubSeq(w.out, 1, k)
    <2>1. Sound(w)
      BY <1>4, SyncFacts, WritePendingFacts
    <2> HIDE DEF w
    <2>2. k \in 0 .. Len(w.out)
      BY <1>7, <2>1, SoundFields, Sizes DEF w
    <2>3. Sound(Rest(w, k)) /\ c \in Seq(Nat)
      BY <2>1, <2>2, RestFacts
    <2> HIDE DEF c
    <2>4. a \o c \in Seq(Nat)
      BY <1>4, <2>3
    <2>5. QED BY <1>7, <2>3, <2>4 DEF w, c
  <1>8. QED BY <1>2, <1>6, <1>7 DEF r, a

LEMMA NextTypes == Types /\ [Next]_vars => Types'
  <1> SUFFICES ASSUME Types, [Next]_vars PROVE Types'
    OBVIOUS
  <1>1. /\ bootstrap \in BOOLEAN /\ pending \in BOOLEAN /\ pingDue \in BOOLEAN
        /\ channel \in Channels /\ Len(channel.out) <= OutSize /\ server \in Parsers
        /\ sent \in Seq(ServerMessages) /\ toClient \in Seq(Nat)
        /\ connections \in 0 .. MaxConnections /\ syncs \in 0 .. MaxSyncs /\ pings \in 0 .. MaxPings
        /\ Sound(channel) /\ arrived \in Seq(Messages) /\ handled \in Seq(Messages)
    BY DEF Types, TypeOK
  <1> USE DEF TypeOK, Types
  <1>2. CASE Connected
    <2>1. Sound(channel')
      BY <1>1, <1>2, ConnectedNext DEF Connected
    <2>2. /\ <<>> \in Seq(Messages) /\ <<>> \in Seq(ServerMessages) /\ <<>> \in Seq(Nat)
      OBVIOUS
    <2>3. connections' \in 0 .. MaxConnections
      BY <1>1, <1>2, Sizes DEF Connected
    <2>4. /\ server' = NewParser /\ arrived' = <<>> /\ sent' = <<>> /\ toClient' = <<>> /\ handled' = <<>>
          /\ bootstrap' = bootstrap /\ pingDue' = pingDue /\ syncs' = syncs /\ pings' = pings
          /\ pending' \in BOOLEAN
      BY <1>1, <1>2 DEF Connected
    <2>5. channel' \in Channels /\ Len(channel'.out) <= OutSize
      BY <2>1, SoundFields
    <2>6. QED BY <1>1, <2>1, <2>2, <2>3, <2>4, <2>5, NewParserType
  <1>3. CASE ServerSend
    <2>1. PICK m \in ServerMessages : sent' = Append(sent, m) /\ toClient' = toClient \o Encode(m)
      BY <1>3 DEF ServerSend
    <2>2. sent' \in Seq(ServerMessages)
      BY <1>1, <2>1
    <2>3. Encode(m) \in Seq(Nat)
      BY ServerMessageFacts
    <2>4. toClient' \in Seq(Nat)
      BY <1>1, <2>1, <2>3
    <2>5. UNCHANGED <<bootstrap, channel, pending, pingDue, server, arrived, handled, connections, syncs, pings>>
      BY <1>3 DEF ServerSend
    <2>6. QED BY <1>1, <2>2, <2>4, <2>5
  <1>4. CASE Read
    <2>1. PICK n \in 1 .. InSize :
            /\ n <= Len(toClient)
            /\ LET read == AfterRead(Kept, SubSeq(toClient, 1, n)) IN
                 /\ channel' = read.channel
                 /\ handled' = handled \o read.done
                 /\ toClient' = IF read.channel.up THEN SubSeq(toClient, n + 1, Len(toClient)) ELSE <<>>
      BY <1>4 DEF Read
    <2> DEFINE bytes == SubSeq(toClient, 1, n)
               read == AfterRead(Kept, bytes)
    <2>2. bytes \in Seq(Nat) /\ SubSeq(toClient, n + 1, Len(toClient)) \in Seq(Nat) /\ <<>> \in Seq(Nat)
      BY <1>1, <2>1, Pieces, Sizes
    <2>3. Sound(Kept)
      BY <1>1, <1>4, KeptFacts DEF Read
    <2> HIDE DEF bytes
    <2>4. Sound(read.channel) /\ read.done \in Seq(Messages)
      BY <2>2, <2>3, AfterReadSound
    <2> HIDE DEF read
    <2>5. /\ channel' = read.channel /\ handled' = handled \o read.done
          /\ toClient' = IF read.channel.up THEN SubSeq(toClient, n + 1, Len(toClient)) ELSE <<>>
      BY <2>1 DEF read, bytes
    <2>6. handled' \in Seq(Messages) /\ toClient' \in Seq(Nat) /\ Sound(channel')
      BY <1>1, <2>2, <2>4, <2>5
    <2>7. channel' \in Channels /\ Len(channel'.out) <= OutSize
      BY <2>6, SoundFields
    <2>8. pingDue' = FALSE /\ UNCHANGED <<bootstrap, pending, server, arrived, sent, connections, syncs, pings>>
      BY <1>4 DEF Read
    <2>9. QED BY <1>1, <2>6, <2>7, <2>8
  <1>5. CASE Lost
    <2>1. Sound(channel')
      BY <1>1, <1>5, SocketIoErrorFacts DEF Lost
    <2>2. channel' \in Channels /\ Len(channel'.out) <= OutSize /\ <<>> \in Seq(Nat)
      BY <2>1, SoundFields
    <2>3. QED BY <1>1, <1>5, <2>1, <2>2 DEF Lost
  <1>6. CASE Write
    <2>1. /\ channel.up /\ ~KeepaliveFails /\ pingDue' = FALSE
          /\ UNCHANGED <<bootstrap, sent, handled, connections, syncs, pings>>
          /\ pending' = FALSE \/ UNCHANGED pending
      BY <1>6, WriteWrites
    <2>2. PICK b, ch : Written(b, ch) /\ Wrote(b, ch)
      BY <1>6, WriteWrites
    <2>3. Sound(ch) /\ b \in Seq(Nat)
      BY <2>1, <2>2, WrittenSound
    <2>4. /\ server' \in Parsers /\ arrived' \in Seq(Messages) /\ channel' \in Channels
          /\ Len(channel'.out) <= OutSize /\ Sound(channel') /\ toClient' \in Seq(Nat)
      BY <2>2, <2>3, WroteTypes
    <2>5. QED BY <1>1, <2>1, <2>4
  <1>7. CASE CheckKeepalive
    <2>1. Sound(channel')
      BY <1>1, <1>7, KeptFacts DEF CheckKeepalive
    <2>2. channel' \in Channels /\ Len(channel'.out) <= OutSize
      BY <2>1, SoundFields
    <2>3. QED BY <1>1, <1>7, <2>1, <2>2 DEF CheckKeepalive
  <1>8. CASE TimePasses
    <2>1. pings' \in 0 .. MaxPings /\ pingDue' = TRUE
      BY <1>1, <1>8, Sizes DEF TimePasses
    <2>2. UNCHANGED <<bootstrap, channel, pending, server, arrived, sent, toClient, handled, connections, syncs>>
      BY <1>8 DEF TimePasses
    <2>3. QED BY <1>1, <2>1, <2>2
  <1>9. CASE Sync
    <2>1. syncs' \in 0 .. MaxSyncs /\ pending' = TRUE
      BY <1>1, <1>9, Sizes DEF Sync
    <2>2. UNCHANGED <<bootstrap, channel, pingDue, server, arrived, sent, toClient, handled, connections, pings>>
      BY <1>9 DEF Sync
    <2>3. QED BY <1>1, <2>1, <2>2
  <1>10. CASE WriteFails
    <2>1. /\ ~KeepaliveFails /\ channel' = GoOnClosed(SocketIoError(Kept))
          /\ toClient' = <<>> /\ pending' = FALSE /\ pingDue' = FALSE
          /\ UNCHANGED <<bootstrap, server, arrived, sent, handled, connections, syncs, pings>>
      BY <1>10 DEF WriteFails
    <2>2. Kept \in Channels
      BY <1>1, <2>1, KeptFacts, SoundFields
    <2>3. Sound(channel')
      BY <2>1, <2>2, GoOnClosedFacts
    <2>4. channel' \in Channels /\ Len(channel'.out) <= OutSize /\ <<>> \in Seq(Nat)
      BY <2>3, SoundFields
    <2>5. QED BY <1>1, <2>1, <2>3, <2>4
  <1>11. CASE UNCHANGED vars
    BY <1>1, <1>11 DEF vars
  <1>12. QED BY <1>2, <1>3, <1>4, <1>5, <1>6, <1>7, <1>8, <1>9, <1>10, <1>11 DEF Next

(* The out_buffer stays within its size, the parsers within their states,  *)
(* with a server that goes on after a message that closes the channel too  *)
(* (kaa_buffer.c, kaatcp_parser.c).                                        *)
THEOREM TypeCorrectness == Spec => []TypeOK
  <1>1. Types => TypeOK
    BY DEF Types
  <1>2. QED BY <1>1, InitTypes, NextTypes, PTL DEF Spec
-----------------------------------------------------------------------------
(* Prefixes. *)

LEMMA PrefixConcat ==
  ASSUME NEW S, NEW a \in Seq(S), NEW b \in Seq(S)
  PROVE  IsPrefix(a, a \o b) /\ a \o b \in Seq(S)
  <1> DEFINE c == a \o b
  <1>1. /\ c \in Seq(S) /\ Len(a) <= Len(c) /\ Len(a) \in Nat
        /\ \A i \in 1 .. Len(a) : c[i] = a[i]
    OBVIOUS
  <1> HIDE DEF c
  <1>2. SubSeq(a, 1, Len(a)) = SubSeq(c, 1, Len(a))
    <2>1. /\ SubSeq(a, 1, Len(a)) \in Seq(S) /\ Len(SubSeq(a, 1, Len(a))) = Len(a)
          /\ \A i \in 1 .. Len(a) : SubSeq(a, 1, Len(a))[i] = a[i]
      BY <1>1
    <2>2. /\ SubSeq(c, 1, Len(a)) \in Seq(S) /\ Len(SubSeq(c, 1, Len(a))) = Len(a)
          /\ \A i \in 1 .. Len(a) : SubSeq(c, 1, Len(a))[i] = c[i]
      BY <1>1
    <2>3. QED BY <1>1, <2>1, <2>2, SeqEqual
  <1>3. QED BY <1>1, <1>2 DEF IsPrefix, c

LEMMA PrefixSelf ==
  ASSUME NEW S, NEW a \in Seq(S)
  PROVE  IsPrefix(a, a)
  BY DEF IsPrefix

LEMMA PrefixAppend ==
  ASSUME NEW S, NEW a \in Seq(S), NEW x \in S
  PROVE  IsPrefix(a, Append(a, x)) /\ Append(a, x) \in Seq(S)
  <1>1. <<x>> \in Seq(S) /\ Append(a, x) = a \o <<x>>
    OBVIOUS
  <1>2. QED BY <1>1, PrefixConcat

LEMMA PrefixElements ==
  ASSUME NEW S, NEW a \in Seq(S), NEW b \in Seq(S)
  PROVE  IsPrefix(a, b) <=> Len(a) <= Len(b) /\ \A i \in 1 .. Len(a) : a[i] = b[i]
  <1>1. Len(a) \in Nat /\ Len(b) \in Nat
    OBVIOUS
  <1>2. SUFFICES ASSUME Len(a) <= Len(b)
                 PROVE  SubSeq(a, 1, Len(a)) = SubSeq(b, 1, Len(a)) <=> \A i \in 1 .. Len(a) : a[i] = b[i]
    BY DEF IsPrefix
  <1> DEFINE x == SubSeq(a, 1, Len(a))
             y == SubSeq(b, 1, Len(a))
  <1>3. x \in Seq(S) /\ Len(x) = Len(a) /\ \A i \in 1 .. Len(a) : x[i] = a[i]
    OBVIOUS
  <1>4. y \in Seq(S) /\ Len(y) = Len(a) /\ \A i \in 1 .. Len(a) : y[i] = b[i]
    BY <1>1, <1>2
  <1> HIDE DEF x, y
  <1>5. x = y => \A i \in 1 .. Len(a) : a[i] = b[i]
    BY <1>3, <1>4
  <1>6. (\A i \in 1 .. Len(a) : a[i] = b[i]) => x = y
    BY <1>3, <1>4, SeqEqual
  <1>7. QED BY <1>5, <1>6 DEF x, y

LEMMA PrefixTransitive ==
  ASSUME NEW S, NEW a \in Seq(S), NEW b \in Seq(S), NEW c \in Seq(S), IsPrefix(a, b), IsPrefix(b, c)
  PROVE  IsPrefix(a, c)
  <1>1. Len(a) \in Nat /\ Len(b) \in Nat /\ Len(c) \in Nat
    OBVIOUS
  <1>2. /\ Len(a) <= Len(b) /\ \A i \in 1 .. Len(a) : a[i] = b[i]
        /\ Len(b) <= Len(c) /\ \A i \in 1 .. Len(b) : b[i] = c[i]
    BY PrefixElements
  <1>3. Len(a) <= Len(c) /\ \A i \in 1 .. Len(a) : i \in 1 .. Len(b)
    BY <1>1, <1>2
  <1>4. \A i \in 1 .. Len(a) : a[i] = c[i]
    BY <1>2, <1>3
  <1>5. QED BY <1>3, <1>4, PrefixElements

LEMMA SuffixType ==
  ASSUME NEW S, NEW T, NEW a \in Seq(T), NEW b \in Seq(T), a \o b \in Seq(S)
  PROVE  b \in Seq(S)
  <1>1. Len(a) \in Nat /\ Len(b) \in Nat /\ Len(a \o b) = Len(a) + Len(b)
    OBVIOUS
  <1>2. ASSUME NEW i \in 1 .. Len(b) PROVE b[i] \in S
    <2>1. Len(a) + i \in 1 .. Len(a \o b) /\ (a \o b)[Len(a) + i] = b[i]
      BY <1>1
    <2>2. (a \o b)[Len(a) + i] \in S
      BY <2>1
    <2>3. QED BY <2>1, <2>2
  <1>3. QED BY <1>2

LEMMA SubType ==
  ASSUME NEW S, NEW T, S \subseteq T, NEW a \in Seq(S)
  PROVE  a \in Seq(T)
  OBVIOUS

LEMMA MessagesAssoc ==
  \A x, y, z \in Seq(Messages) : x \o (y \o z) = (x \o y) \o z /\ x \o y \in Seq(Messages)
  BY ConcatAssoc

LEMMA SideTypes ==
  /\ \A q \in Seq(ClientMessages) : q \in Seq(Messages)
  /\ \A q \in Seq(ServerMessages) : q \in Seq(Messages)
  <1>1. ClientMessages \subseteq Messages /\ ServerMessages \subseteq Messages
    BY ClientFacts, ServerFacts
  <1>2. QED BY <1>1, SubType
-----------------------------------------------------------------------------
(* A connection: what is queued and not yet with the server is what the     *)
(* server's parser and the out_buffer hold.                                *)

Sending(ch, p, got) ==
  \E left \in Seq(ClientMessages) : ch.queued = got \o left /\ Parsing(p, left, ch.out)

Parting(ch) == ch.state = "DISCONNECTING" => ch.queued # <<>> /\ Last(ch.queued) = Goodbye

Live(ch, p, got) == Sound(ch) /\ ch.up /\ Sending(ch, p, got) /\ Parting(ch)

Over(ch, got) ==
  Sound(ch) /\ ~ch.up /\ ch = [Down EXCEPT !.queued = ch.queued] /\ IsPrefix(got, ch.queued)

(* A channel that has authorized after its write failed. *)
Redialling(ch, got) ==
  /\ Sound(ch) /\ ~ch.up /\ ch.state = "AUTHORIZING" /\ ch.parser = NewParser
  /\ ch.out = <<>> \o Encode(Message(Connect, ConnectSize, 1))
  /\ ch.queued # <<>> /\ Last(ch.queued) = Message(Connect, ConnectSize, 1)
  /\ IsPrefix(got, ch.queued)

LEMMA SendingQueue ==
  ASSUME NEW ch \in Channels, NEW p, NEW got \in Seq(Messages), Sending(ch, p, got),
         NEW m \in ClientMessages
  PROVE  Sending(Queue(ch, m), p, got) /\ IsPrefix(ch.queued, Queue(ch, m).queued)
  <1>1. m \in Messages
    BY ClientFacts
  <1>2. PICK left \in Seq(ClientMessages) : ch.queued = got \o left /\ Parsing(p, left, ch.out)
    BY DEF Sending
  <1>3. left \in Seq(Messages)
    BY SideTypes
  <1>4. ch.out \in Seq(Nat) /\ ch.queued \in Seq(Messages)
    BY ChannelFields
  <1>5. Parsing(p, Append(left, m), ch.out \o Encode(m))
    BY <1>1, <1>2, <1>3, <1>4, ParsingAppend
  <1>6. Append(left, m) \in Seq(ClientMessages)
    OBVIOUS
  <1>7. Append(got \o left, m) = got \o Append(left, m)
    <2>1. <<m>> \in Seq(Messages) /\ Append(left, m) = left \o <<m>>
      BY <1>1
    <2>2. Append(got \o left, m) = (got \o left) \o <<m>>
      BY <1>1, <1>3, <2>1
    <2> DEFINE z == <<m>>
    <2> HIDE DEF z
    <2>3. (got \o left) \o z = got \o (left \o z)
      BY <1>3, <2>1, ConcatAssoc DEF z
    <2>4. QED BY <2>1, <2>2, <2>3 DEF z
  <1>8. Queue(ch, m).out = ch.out \o Encode(m) /\ Queue(ch, m).queued = Append(ch.queued, m)
    BY <1>1, QueueFacts
  <1>9. Sending(Queue(ch, m), p, got)
    BY <1>2, <1>5, <1>6, <1>7, <1>8 DEF Sending
  <1>10. IsPrefix(ch.queued, Queue(ch, m).queued)
    BY <1>1, <1>4, <1>8, PrefixAppend
  <1>11. QED BY <1>9, <1>10

LEMMA SendingPrefix ==
  ASSUME NEW ch, NEW p, NEW got \in Seq(Messages), Sending(ch, p, got)
  PROVE  IsPrefix(got, ch.queued)
  <1>1. PICK left \in Seq(ClientMessages) : ch.queued = got \o left
    BY DEF Sending
  <1>2. QED BY <1>1, SideTypes, PrefixConcat

LEMMA LiveEnds ==
  ASSUME NEW ch, NEW p, NEW got \in Seq(Messages), Live(ch, p, got)
  PROVE  Over(SocketIoError(ch), got) /\ SocketIoError(ch).queued = ch.queued
  <1>1. ch \in Channels
    BY SoundFields DEF Live
  <1>2. IsPrefix(got, ch.queued)
    BY SendingPrefix DEF Live
  <1>3. QED BY <1>1, <1>2, SocketIoErrorFacts DEF Over

(* One message of the server. *)
LEMMA HandleLive ==
  ASSUME NEW ch, NEW p, NEW got \in Seq(Messages), Live(ch, p, got),
         NEW m \in ServerMessages, m \in {Accepted, Rejected} => ch.state = "AUTHORIZING"
  PROVE  /\ IsPrefix(ch.queued, Handle(ch, m).queued)
         /\ \/ Live(Handle(ch, m), p, got) /\ Handle(ch, m).parser = ch.parser
            \/ Over(Handle(ch, m), got) /\ m \in Closing
  <1>1. ch \in Channels /\ ch.queued \in Seq(Messages) /\ Sound(ch)
    BY SoundFields DEF Live
  <1>2. IsPrefix(ch.queued, ch.queued)
    BY <1>1, PrefixSelf
  <1>3. CASE m.type = Connack
    <2>1. m = Accepted \/ m = Rejected
      BY <1>3, ServerFacts
    <2>2. Handle(ch, m) = OnConnack(ch, m)
      BY <1>3 DEF Handle, Connack, Disconnect, Kaasync
    <2>3. CASE m = Accepted
      <3> DEFINE y == [ch EXCEPT !.state = "AUTHORIZED"]
      <3>1. /\ Sound(y) /\ y.state = "AUTHORIZED" /\ y.up = ch.up /\ y.out = ch.out
            /\ y.queued = ch.queued /\ y.parser = ch.parser
        <4>1. ch.state # "UNDEFINED"
          BY <2>3
        <4>2. QED BY <1>1, <4>1, StateChange
      <3>2. Handle(ch, m) = y
        BY <2>2, <2>3 DEF OnConnack
      <3> HIDE DEF y
      <3>3. Live(y, p, got)
        BY <3>1 DEF Live, Sending, Parting
      <3>4. QED BY <1>2, <3>1, <3>2, <3>3
    <2>4. CASE m # Accepted
      <3>1. Handle(ch, m) = SocketIoError(ch) /\ m \in Closing
        BY <2>1, <2>2, <2>4 DEF OnConnack, Closing
      <3>2. QED BY <1>2, <3>1, LiveEnds
    <2>5. QED BY <2>3, <2>4
  <1>4. CASE m.type = Disconnect
    <2>1. m \in Closing
      BY <1>4, ServerFacts DEF Closing
    <2>2. Handle(ch, m) = SocketIoError(ch)
      BY <1>4 DEF Handle, Connack, Disconnect, Kaasync
    <2>3. QED BY <1>2, <2>1, <2>2, LiveEnds
  <1>5. CASE m.type = Kaasync
    <2>1. Handle(ch, m) = OnKaasync(ch)
      BY <1>5 DEF Handle, Connack, Disconnect, Kaasync
    <2>2. CASE bootstrap /\ Fits(ch, Goodbye)
      <3> DEFINE x == Queue(ch, Goodbye)
                 y == [x EXCEPT !.state = "DISCONNECTING"]
      <3>1. Goodbye \in ClientMessages /\ Goodbye \in Messages
        BY GoodbyeType DEF ClientMessages
      <3>2. ch.state # "UNDEFINED" /\ ch.up
        BY DEF Live, Sound
      <3>3. Sound(x)
        BY <1>1, <2>2, <3>1, <3>2, QueueSound
      <3>4. /\ x.up = ch.up /\ x.parser = ch.parser /\ x.queued = Append(ch.queued, Goodbye)
            /\ x.state = ch.state
        BY <1>1, <3>1, QueueFacts
      <3>5. Sending(x, p, got) /\ IsPrefix(ch.queued, x.queued)
        BY <1>1, <3>1, SendingQueue DEF Live
      <3> HIDE DEF x
      <3>6. /\ Sound(y) /\ y.state = "DISCONNECTING" /\ y.up = x.up /\ y.out = x.out
            /\ y.queued = x.queued /\ y.parser = x.parser
        BY <3>2, <3>3, <3>4, StateChange
      <3>7. Handle(ch, m) = y
        BY <2>1, <2>2 DEF OnKaasync, x
      <3> HIDE DEF y
      <3>8. y.queued # <<>> /\ Last(y.queued) = Goodbye
        <4>1. Append(ch.queued, Goodbye) # <<>> /\ Last(Append(ch.queued, Goodbye)) = Goodbye
          BY <1>1, <3>1 DEF Last
        <4>2. QED BY <3>4, <3>6, <4>1
      <3>9. Live(y, p, got)
        BY <3>2, <3>4, <3>5, <3>6, <3>8 DEF Live, Sending, Parting
      <3>10. QED BY <3>4, <3>5, <3>6, <3>7, <3>9
    <2>3. CASE ~(bootstrap /\ Fits(ch, Goodbye))
      BY <1>2, <2>1, <2>3 DEF OnKaasync
    <2>4. QED BY <2>2, <2>3
  <1>6. CASE m.type \notin {Connack, Disconnect, Kaasync}
    BY <1>2, <1>6 DEF Handle
  <1>7. QED BY <1>3, <1>4, <1>5, <1>6

(* What a server says that stops at a message that closes the channel. *)
Shape(s) ==
  /\ \A i \in 1 .. Len(s) : s[i] \in {Accepted, Rejected} <=> i = 1
  /\ \A i \in 1 .. Len(s) - 1 : s[i] \notin Closing

(* The messages of one read: those of s after the first k. *)
Following(s, k, msgs) ==
  k + Len(msgs) <= Len(s) /\ \A i \in 1 .. Len(msgs) : msgs[i] = s[k + i]

(* The channel h that ch has become when the first j of s are handled. *)
Outcome(ch, p, got, s, j, h) ==
  /\ IsPrefix(ch.queued, h.queued)
  /\ \/ /\ Live(h, p, got) /\ h.parser = ch.parser
        /\ j = 0 => h.state = "AUTHORIZING"
     \/ Over(h, got) /\ j = Len(s)

LEMMA HandleAllLive ==
  ASSUME NEW ch, NEW p, NEW got \in Seq(Messages), Live(ch, p, got),
         NEW s \in Seq(ServerMessages), Shape(s),
         NEW k \in Nat, NEW msgs \in Seq(Messages), Following(s, k, msgs),
         k = 0 => ch.state = "AUTHORIZING"
  PROVE  Outcome(ch, p, got, s, k + Len(msgs), FoldLeft(Handle, ch, msgs))
  <1> DEFINE n == Len(msgs)
             Good(x, i) == Outcome(ch, p, got, s, k + i, x)
  <1>1. PICK after : /\ after[0] = ch
                     /\ \A i \in 1 .. n : after[i] = Handle(after[i - 1], msgs[i])
                     /\ FoldLeft(Handle, ch, msgs) = after[n]
    BY HandleSteps
  <1>2. n \in Nat /\ Len(s) \in Nat /\ k + n <= Len(s) /\ ch.queued \in Seq(Messages)
    BY SoundFields DEF Live, Following
  <1>3. \A i \in 1 .. n : msgs[i] = s[k + i]
    BY DEF Following
  <1> HIDE DEF n
  <1>4. Good(after[0], 0)
    <2>1. k + 0 = k
      OBVIOUS
    <2>2. QED BY <1>1, <1>2, <2>1, PrefixSelf DEF Outcome
  <1>5. ASSUME NEW i \in 1 .. n, Good(after[i - 1], i - 1)
        PROVE  Good(after[i], i)
    <2> DEFINE x == after[i - 1]
               m == s[k + i]
    <2>1. after[i] = Handle(x, m)
      BY <1>1, <1>3
    <2>2. /\ k + i \in 1 .. Len(s) /\ (k + i = 1 <=> k + (i - 1) = 0) /\ k + (i - 1) # Len(s)
          /\ k + i # 0 /\ (k + i # Len(s) => k + i \in 1 .. Len(s) - 1)
      BY <1>2
    <2>3. m \in ServerMessages
      BY <2>2
    <2>4. m \in {Accepted, Rejected} <=> k + i = 1
      BY <2>2 DEF Shape
    <2>5. m \in Closing => k + i = Len(s)
      BY <2>2 DEF Shape
    <2>6. /\ IsPrefix(ch.queued, x.queued) /\ Live(x, p, got) /\ x.parser = ch.parser
          /\ k + (i - 1) = 0 => x.state = "AUTHORIZING"
      BY <1>5, <2>2 DEF Outcome
    <2> HIDE DEF x, m, Good
    <2>7. /\ IsPrefix(x.queued, Handle(x, m).queued)
          /\ \/ Live(Handle(x, m), p, got) /\ Handle(x, m).parser = x.parser
             \/ Over(Handle(x, m), got) /\ m \in Closing
      BY <2>2, <2>3, <2>4, <2>6, HandleLive
    <2>8. x.queued \in Seq(Messages) /\ Handle(x, m).queued \in Seq(Messages)
      BY <2>6, <2>7, SoundFields DEF Live, Over
    <2>9. IsPrefix(ch.queued, Handle(x, m).queued)
      BY <1>2, <2>6, <2>7, <2>8, PrefixTransitive
    <2>10. QED BY <2>1, <2>2, <2>5, <2>6, <2>7, <2>9 DEF Good, Outcome
  <1> HIDE DEF Good
  <1> DEFINE Bad == {i \in Nat : i <= n /\ ~Good(after[i], i)}
  <1>6. Good(after[n], n)
    <2>1. SUFFICES ASSUME ~Good(after[n], n) PROVE FALSE
      OBVIOUS
    <2>2. n \in Bad
      BY <1>2, <2>1
    <2>3. PICK i \in Bad : \A j \in Bad : i <= j
      BY <2>2, LeastNumber
    <2>4. i # 0 /\ i \in 1 .. n /\ i - 1 \in Nat /\ i - 1 <= n /\ ~(i <= i - 1)
      BY <1>2, <1>4, <2>3
    <2>5. Good(after[i - 1], i - 1)
      BY <2>3, <2>4
    <2>6. QED BY <1>5, <2>3, <2>4, <2>5
  <1>7. QED BY <1>1, <1>6 DEF Good, n

(* The channel x that ch has become when, of s, all is handled where hd was: *)
(* the bytes c are still to be read.                                       *)
ReadOutcome(ch, p, got, s, hd, all, c, x) ==
  /\ IsPrefix(ch.queued, x.queued)
  /\ all \in Seq(Messages) /\ IsPrefix(hd, all) /\ IsPrefix(all, s)
  /\ \/ /\ Live(x, p, got)
        /\ all = <<>> => x.state = "AUTHORIZING"
        /\ \E rest \in Seq(ServerMessages) : s = all \o rest /\ Parsing(x.parser, rest, c)
     \/ Over(x, got)

(* The bytes of one read, out of b: hd has been handled of s. *)
LEMMA ReadLive ==
  ASSUME NEW ch, NEW p, NEW got \in Seq(Messages), Live(ch, p, got),
         NEW s \in Seq(ServerMessages), Shape(s), NEW hd \in Seq(Messages),
         NEW left \in Seq(ServerMessages), s = hd \o left,
         NEW b, Parsing(ch.parser, left, b), NEW n \in 0 .. Len(b),
         hd = <<>> => ch.state = "AUTHORIZING"
  PROVE  LET r == AfterRead(ch, SubSeq(b, 1, n))
         IN  ReadOutcome(ch, p, got, s, hd, hd \o r.done, SubSeq(b, n + 1, Len(b)), r.channel)
  <1> DEFINE bytes == SubSeq(b, 1, n)
             c == SubSeq(b, n + 1, Len(b))
             t == ProcessBuffer(ch.parser, bytes)
             h == FoldLeft(Handle, ch, t.done)
             x == [h EXCEPT !.parser = t.parser]
             r == AfterRead(ch, bytes)
             all == hd \o r.done
  <1>1. /\ left \in Seq(Messages) /\ s \in Seq(Messages) /\ ch.queued \in Seq(Messages)
        /\ b \in Seq(Nat)
    BY SideTypes, SoundFields, ParsingTypes DEF Live
  <1>2. OnTrack(t, left, c)
    BY <1>1, BufferParsed
  <1>3. r = [channel |-> IF t.error THEN SocketIoError(x) ELSE x, done |-> t.done]
    BY DEF AfterRead
  <1> HIDE DEF t, r, c
  <1>4. t.done \in Seq(Messages) /\ t.parser \in Parsers
    BY <1>2 DEF OnTrack, Parsings
  <1>5. PICK rest \in Seq(Messages) :
          /\ left = t.done \o rest
          /\ \/ ~t.error /\ Parsing(t.parser, rest, c)
             \/ t.error
    BY <1>2 DEF OnTrack
  <1>6. /\ s = (hd \o t.done) \o rest /\ hd \o t.done \in Seq(Messages)
    <2>1. hd \o (t.done \o rest) = (hd \o t.done) \o rest /\ hd \o t.done \in Seq(Messages)
      <3>1. rest \in Seq(Messages)
        BY <1>5
      <3> DEFINE d == t.done
      <3>2. d \in Seq(Messages)
        BY <1>4
      <3> HIDE DEF d
      <3>3. hd \o (d \o rest) = (hd \o d) \o rest /\ hd \o d \in Seq(Messages)
        BY <3>1, <3>2, MessagesAssoc
      <3>4. QED BY <3>3 DEF d
    <2>2. QED BY <1>5, <2>1
  <1>7. rest \in Seq(ServerMessages)
    BY <1>4, <1>5, SuffixType
  <1>8. r.done = t.done /\ all = hd \o t.done
    BY <1>3
  <1>9. all \in Seq(Messages) /\ IsPrefix(hd, all) /\ IsPrefix(all, s)
    BY <1>4, <1>6, <1>8, PrefixConcat
  <1> DEFINE k == Len(hd)
  <1>10. /\ k \in Nat /\ Len(t.done) \in Nat /\ Len(rest) \in Nat
         /\ Len(s) = k + Len(t.done) + Len(rest) /\ k + Len(t.done) <= Len(s)
         /\ Len(all) = k + Len(t.done) /\ (k = 0 <=> hd = <<>>)
    <2>1. /\ Len(hd \o t.done) = k + Len(t.done) /\ k \in Nat /\ Len(t.done) \in Nat
          /\ (k = 0 <=> hd = <<>>)
      BY <1>4, ConcatLen
    <2>2. Len(s) = Len(hd \o t.done) + Len(rest) /\ Len(rest) \in Nat
      BY <1>6, ConcatLen
    <2>3. QED BY <1>8, <2>1, <2>2
  <1>11. ASSUME NEW i \in 1 .. Len(t.done) PROVE t.done[i] = s[k + i]
    <2>1. i \in 1 .. Len(left) /\ left[i] = t.done[i]
      BY <1>4, <1>5
    <2>2. s[k + i] = left[i]
      BY <1>1, <1>10, <2>1
    <2>3. QED BY <2>1, <2>2
  <1> HIDE DEF k
  <1>12. k = 0 => ch.state = "AUTHORIZING"
    BY <1>10
  <1> DEFINE d == t.done
  <1> HIDE DEF d
  <1>13. d \in Seq(Messages) /\ Following(s, k, d) /\ k \in Nat
    BY <1>4, <1>10, <1>11 DEF d, Following
  <1>14. Outcome(ch, p, got, s, k + Len(d), FoldLeft(Handle, ch, d))
    BY <1>12, <1>13, HandleAllLive
  <1>15. /\ IsPrefix(ch.queued, h.queued)
         /\ \/ /\ Live(h, p, got) /\ h.parser = ch.parser
               /\ k + Len(t.done) = 0 => h.state = "AUTHORIZING"
            \/ Over(h, got) /\ k + Len(t.done) = Len(s)
    BY <1>14 DEF d, Outcome
  <1> HIDE DEF h
  <1>16. Sound(h)
    BY <1>15 DEF Live, Over
  <1>17. /\ Sound(x) /\ x.parser = t.parser /\ x.up = h.up /\ x.out = h.out /\ x.queued = h.queued
         /\ x.state = h.state
    BY <1>4, <1>16, ParserChange
  <1>18. CASE t.error
    <2> HIDE DEF x
    <2>1. x \in Channels
      BY <1>17, SoundFields
    <2>2. IsPrefix(got, h.queued)
      BY <1>15, SendingPrefix DEF Live, Over
    <2>3. Over(SocketIoError(x), got) /\ SocketIoError(x).queued = h.queued
      BY <1>17, <2>1, <2>2, SocketIoErrorFacts DEF Over
    <2>4. r.channel = SocketIoError(x)
      BY <1>3, <1>18
    <2>5. QED BY <1>9, <1>15, <2>3, <2>4 DEF r, bytes, ReadOutcome
  <1>19. CASE ~t.error /\ Live(h, p, got)
    <2> HIDE DEF x
    <2>1. r.channel = x
      BY <1>3, <1>19
    <2>2. Live(x, p, got)
      BY <1>17, <1>19 DEF Live, Sending, Parting
    <2>3. all = <<>> => x.state = "AUTHORIZING"
      <3>1. SUFFICES ASSUME all = <<>> PROVE x.state = "AUTHORIZING"
        OBVIOUS
      <3>2. Len(all) = 0
        BY <3>1
      <3>3. h.up
        BY <1>19 DEF Live
      <3>4. QED BY <1>10, <1>15, <1>17, <3>2, <3>3 DEF Over
    <2>4. s = all \o rest /\ Parsing(x.parser, rest, c)
      BY <1>5, <1>6, <1>8, <1>17, <1>19
    <2>5. \E q \in Seq(ServerMessages) : s = all \o q /\ Parsing(r.channel.parser, q, c)
      BY <1>7, <2>1, <2>4
    <2>6. IsPrefix(ch.queued, r.channel.queued)
      BY <1>15, <1>17, <2>1
    <2> HIDE DEF all
    <2>7. QED BY <1>9, <2>1, <2>2, <2>3, <2>5, <2>6 DEF r, bytes, c, all, ReadOutcome
  <1>20. CASE ~t.error /\ ~Live(h, p, got)
    <2>1. Over(h, got) /\ k + Len(t.done) = Len(s)
      BY <1>15, <1>20
    <2>2. rest = <<>>
      BY <1>10, <2>1
    <2>3. t.parser = NewParser
      BY <1>5, <1>20, <2>2 DEF Parsing
    <2>4. h.parser = NewParser
      BY <2>1 DEF Over, Down
    <2>5. x = h
      <3>1. h \in Channels
        BY <1>16, SoundFields
      <3>2. QED BY <2>3, <2>4, <3>1 DEF Channels
    <2>6. r.channel = h
      BY <1>3, <1>20, <2>5
    <2>7. QED BY <1>9, <1>15, <2>1, <2>6 DEF r, bytes, ReadOutcome
  <1>21. QED BY <1>18, <1>19, <1>20
-----------------------------------------------------------------------------
(* Writing. *)

(* The server gets j bytes of the out_buffer of v. *)
LEMMA SendBytes ==
  ASSUME NEW v, v.out \in Seq(Nat), NEW p, NEW got \in Seq(Messages), Sending(v, p, got),
         NEW j \in 0 .. Len(v.out)
  PROVE  LET t == ProcessBuffer(p, SubSeq(v.out, 1, j))
             all == got \o t.done
         IN  /\ all \in Seq(Messages) /\ IsPrefix(got, all) /\ IsPrefix(all, v.queued)
             /\ \E rest \in Seq(ClientMessages) :
                  v.queued = all \o rest /\ Parsing(t.parser, rest, SubSeq(v.out, j + 1, Len(v.out)))
  <1> DEFINE b == v.out
             c == SubSeq(b, j + 1, Len(b))
             t == ProcessBuffer(p, SubSeq(b, 1, j))
             all == got \o t.done
  <1>1. PICK left \in Seq(ClientMessages) : v.queued = got \o left /\ Parsing(p, left, b)
    BY DEF Sending
  <1>2. left \in Seq(Messages) /\ b \in Seq(Nat) /\ j \in 0 .. Len(b)
    BY SideTypes
  <1>3. OnTrack(t, left, c)
    <2> HIDE DEF b
    <2>1. QED BY <1>1, <1>2, BufferParsed
  <1> HIDE DEF t, c
  <1> DEFINE d == t.done
  <1>4. d \in Seq(Messages)
    BY <1>3 DEF OnTrack, Parsings
  <1>5. PICK rest \in Seq(Messages) :
          /\ left = d \o rest
          /\ \/ ~t.error /\ Parsing(t.parser, rest, c)
             \/ t.error /\ rest # <<>> /\ Unwanted(Head(rest))
    BY <1>3 DEF OnTrack
  <1> HIDE DEF d
  <1>6. rest \in Seq(ClientMessages)
    BY <1>4, <1>5, SuffixType
  <1>7. Parsing(t.parser, rest, c)
    <2>1. rest # <<>> => Head(rest) \in ClientMessages
      BY <1>6, HeadTail
    <2>2. QED BY <1>5, <2>1, ClientFacts
  <1>8. rest \in Seq(Messages)
    BY <1>6, SideTypes
  <1>9. got \o (d \o rest) = (got \o d) \o rest /\ got \o d \in Seq(Messages)
    BY <1>4, <1>8, MessagesAssoc
  <1>10. v.queued = (got \o d) \o rest
    BY <1>1, <1>5, <1>9
  <1>11. IsPrefix(got, got \o d) /\ IsPrefix(got \o d, v.queued)
    BY <1>4, <1>8, <1>9, <1>10, PrefixConcat
  <1>12. QED BY <1>6, <1>7, <1>9, <1>10, <1>11 DEF d, t, c

LEMMA KeptLive ==
  ASSUME Types, ~KeepaliveFails, Live(channel, server, arrived)
  PROVE  /\ Live(Kept, server, arrived) /\ IsPrefix(channel.queued, Kept.queued)
         /\ Kept.parser = channel.parser /\ Kept.state = channel.state
         /\ channel.state = "DISCONNECTING" => Kept = channel
  <1>1. /\ channel \in Channels /\ channel.queued \in Seq(Messages) /\ arrived \in Seq(Messages)
        /\ Sound(channel)
    BY SoundFields DEF Types
  <1>2. /\ Sound(Kept) /\ Kept.up = channel.up /\ Kept.state = channel.state
        /\ Kept.parser = channel.parser
        /\ \/ ~PingWanted /\ Kept = channel
           \/ Kept = Queue(channel, PingMessage) /\ channel.state = "AUTHORIZED"
    BY <1>1, KeptFacts
  <1>3. CASE Kept = channel
    BY <1>1, <1>3, PrefixSelf
  <1>4. CASE Kept = Queue(channel, PingMessage) /\ channel.state = "AUTHORIZED"
    <2>1. PingMessage \in ClientMessages
      BY DEF ClientMessages
    <2>2. Sending(Kept, server, arrived) /\ IsPrefix(channel.queued, Kept.queued)
      BY <1>1, <1>4, <2>1, SendingQueue DEF Live
    <2>3. QED BY <1>2, <1>4, <2>2 DEF Live, Parting
  <1>5. QED BY <1>2, <1>3, <1>4

LEMMA CutConcat ==
  ASSUME NEW S, NEW u \in Seq(S), NEW y \in Seq(S)
  PROVE  /\ SubSeq(u \o y, 1, Len(u)) = u
         /\ SubSeq(u \o y, Len(u) + 1, Len(u \o y)) = y
  <1> DEFINE v == u \o y
             x == SubSeq(v, 1, Len(u))
             z == SubSeq(v, Len(u) + 1, Len(v))
  <1>1. /\ v \in Seq(S) /\ Len(v) = Len(u) + Len(y) /\ Len(u) \in Nat /\ Len(y) \in Nat
        /\ \A i \in 1 .. Len(u) : v[i] = u[i]
        /\ \A i \in 1 .. Len(y) : v[Len(u) + i] = y[i]
    OBVIOUS
  <1> HIDE DEF v
  <1>2. x \in Seq(S) /\ Len(x) = Len(u) /\ \A i \in 1 .. Len(u) : x[i] = v[i]
    BY <1>1
  <1>3. z \in Seq(S) /\ Len(z) = Len(y) /\ \A i \in 1 .. Len(y) : z[i] = v[Len(u) + i]
    BY <1>1
  <1> HIDE DEF x, z
  <1>4. x = u
    BY <1>1, <1>2, SeqEqual
  <1>5. z = y
    BY <1>1, <1>3, SeqEqual
  <1>6. QED BY <1>4, <1>5 DEF x, z, v

LEMMA BytesAssoc ==
  \A x, y, z \in Seq(Nat) : x \o (y \o z) = (x \o y) \o z /\ x \o y \in Seq(Nat)
  BY ConcatAssoc

LEMMA BytesLen ==
  \A x, y \in Seq(Nat) : Len(x \o y) = Len(x) + Len(y)
  BY ConcatLen

LEMMA BytesCut ==
  \A x, y \in Seq(Nat) :
    SubSeq(x \o y, 1, Len(x)) = x /\ SubSeq(x \o y, Len(x) + 1, Len(x \o y)) = y
  BY CutConcat

LEMMA Regroup ==
  ASSUME NEW h \in Seq(Nat), NEW r \in Seq(Nat), NEW e \in Seq(Nat)
  PROVE  (h \o r) \o e = h \o (r \o e)
  BY BytesAssoc

LEMMA CutInTwo ==
  ASSUME NEW h \in Seq(Nat), NEW x \in Seq(Nat), NEW y \in Seq(Nat)
  PROVE  LET all == h \o (x \o y)
         IN  /\ SubSeq(all, 1, Len(h) + Len(x)) = h \o x
             /\ SubSeq(all, Len(h) + Len(x) + 1, Len(all)) = y
             /\ all \in Seq(Nat) /\ Len(h) + Len(x) \in 0 .. Len(all)
  <1> DEFINE u == h \o x
             all == h \o (x \o y)
  <1>1. all = u \o y /\ u \in Seq(Nat) /\ Len(u) = Len(h) + Len(x)
    BY Regroup, BytesLen, BytesAssoc
  <1> HIDE DEF u, all
  <1>2. all \in Seq(Nat) /\ SubSeq(all, 1, Len(u)) = u /\ SubSeq(all, Len(u) + 1, Len(all)) = y
    BY <1>1, CutConcat, BytesAssoc
  <1>3. Len(all) = Len(u) + Len(y)
    BY <1>1, BytesLen
  <1>4. Len(u) \in 0 .. Len(all)
    <2>1. Len(u) \in Nat /\ Len(y) \in Nat
      BY <1>1
    <2>2. QED BY <1>3, <2>1
  <1>5. QED BY <1>1, <1>2, <1>4 DEF u, all

(* Bytes written before and after a message is queued are bytes of one      *)
(* buffer.                                                                 *)
SecondWrite(a, e, n, next, k) ==
  /\ a \in Seq(Nat) /\ e \in Seq(Nat) /\ n \in 0 .. Len(a)
  /\ next = SubSeq(a, n + 1, Len(a)) \o e /\ k \in 0 .. Len(next)

OneBuffer(a, e, n, next, k, all) ==
  /\ all \in Seq(Nat) /\ n + k \in 0 .. Len(all)
  /\ SubSeq(a, 1, n) \o SubSeq(next, 1, k) = SubSeq(all, 1, n + k)
  /\ SubSeq(next, k + 1, Len(next)) = SubSeq(all, n + k + 1, Len(all))

LEMMA TwoWrites ==
  ASSUME NEW a, NEW e, NEW n, NEW next, NEW k, SecondWrite(a, e, n, next, k)
  PROVE  OneBuffer(a, e, n, next, k, a \o e)
  <1> DEFINE r == SubSeq(a, n + 1, Len(a))
             h == SubSeq(a, 1, n)
             x == SubSeq(next, 1, k)
             y == SubSeq(next, k + 1, Len(next))
             all == a \o e
  <1>1. /\ a \in Seq(Nat) /\ e \in Seq(Nat) /\ n \in 0 .. Len(a)
         /\ next = SubSeq(a, n + 1, Len(a)) \o e /\ k \in 0 .. Len(next)
    BY DEF SecondWrite
  <1>2. h \in Seq(Nat) /\ r \in Seq(Nat) /\ Len(h) = n /\ h \o r = a
    <2>1. n \in Nat /\ n <= Len(a)
      BY <1>1
    <2>2. QED BY <1>1, <2>1, Pieces
  <1>3. next \in Seq(Nat) /\ next = r \o e
    <2> HIDE DEF r
    <2>1. r \o e \in Seq(Nat)
      BY <1>2, <1>1, BytesAssoc
    <2>2. QED BY <1>1, <2>1 DEF r
  <1>4. x \in Seq(Nat) /\ y \in Seq(Nat) /\ Len(x) = k /\ x \o y = next
    <2>1. k \in Nat /\ k <= Len(next)
      BY <1>3, <1>1
    <2>2. QED BY <1>3, <2>1, Pieces
  <1> HIDE DEF h, r, x, y
  <1>5. h \in Seq(Nat) /\ r \in Seq(Nat) /\ x \in Seq(Nat) /\ y \in Seq(Nat) /\ e \in Seq(Nat)
    BY <1>2, <1>4, <1>1
  <1>6. a = h \o r /\ next = r \o e /\ next = x \o y
    BY <1>2, <1>3, <1>4, Zenon
  <1>7. all = h \o (x \o y)
    <2>1. (h \o r) \o e = h \o (r \o e)
      BY <1>5, Regroup, Zenon
    <2>2. QED BY <1>6, <2>1, Zenon
  <1>8. LET z == h \o (x \o y)
        IN  /\ SubSeq(z, 1, Len(h) + Len(x)) = h \o x
            /\ SubSeq(z, Len(h) + Len(x) + 1, Len(z)) = y
            /\ z \in Seq(Nat) /\ Len(h) + Len(x) \in 0 .. Len(z)
    BY <1>5, CutInTwo, Zenon
  <1> HIDE DEF all
  <1>9. /\ SubSeq(all, 1, n + k) = h \o x /\ SubSeq(all, n + k + 1, Len(all)) = y
        /\ all \in Seq(Nat) /\ n + k \in 0 .. Len(all)
    BY <1>2, <1>4, <1>7, <1>8, Zenon
  <1>10. QED BY <1>9, Zenon DEF all, h, x, y, OneBuffer

(* b is the first j bytes of what v holds, and ch what becomes of it. *)
From(v, j, b, ch) ==
  /\ v.out \in Seq(Nat) /\ v.queued \in Seq(Messages) /\ j \in 0 .. Len(v.out)
  /\ Sending(v, server, arrived) /\ IsPrefix(channel.queued, v.queued)
  /\ b = SubSeq(v.out, 1, j) /\ ch.queued = v.queued /\ Sound(ch)
  /\ \/ /\ ch.up /\ ch.parser = channel.parser /\ ch.state = channel.state
        /\ ch.out = SubSeq(v.out, j + 1, Len(v.out)) /\ Parting(ch)
     \/ /\ ~ch.up /\ ch = [Down EXCEPT !.queued = ch.queued]
        /\ SubSeq(v.out, j + 1, Len(v.out)) = <<>>
        /\ ch.queued = channel.queued /\ Last(ch.queued) = Goodbye

LEMMA WrittenFrom ==
  ASSUME Types, ~KeepaliveFails, Live(channel, server, arrived), NEW b, NEW ch, Written(b, ch)
  PROVE  \E v, j : From(v, j, b, ch)
  <1>1. /\ Live(Kept, server, arrived) /\ IsPrefix(channel.queued, Kept.queued)
        /\ Kept.parser = channel.parser /\ Kept.state = channel.state
        /\ channel.state = "DISCONNECTING" => Kept = channel
    BY KeptLive
  <1>2. /\ Sound(Kept) /\ Kept.up /\ Kept.state # "UNDEFINED" /\ Sending(Kept, server, arrived)
        /\ Parting(Kept) /\ Kept.out \in Seq(Nat) /\ Kept.queued \in Seq(Messages)
        /\ Len(Kept.out) \in Nat /\ arrived \in Seq(Messages) /\ channel.queued \in Seq(Messages)
    BY <1>1, SoundFields DEF Live, Sound, Types
  <1>3. PICK n \in 0 .. OutSize :
          /\ n <= Len(Kept.out)
          /\ \/ /\ HangsUp(Rest(Kept, n))
                /\ b = SubSeq(Kept.out, 1, n) /\ ch = SocketIoError(Rest(Kept, n))
             \/ /\ ~HangsUp(Rest(Kept, n))
                /\ b = SubSeq(Kept.out, 1, n) /\ ch = Rest(Kept, n)
             \/ /\ Rest(Kept, n).state # "DISCONNECTING"
                /\ \E m \in Syncs :
                     LET next == WritePending(Rest(Kept, n), m)
                     IN  \E k \in 0 .. OutSize :
                           /\ k <= Len(next.out)
                           /\ b = SubSeq(Kept.out, 1, n) \o SubSeq(next.out, 1, k) /\ ch = Rest(next, k)
    BY DEF Written
  <1> DEFINE r == Rest(Kept, n)
  <1>4. n \in Nat /\ n \in 0 .. Len(Kept.out)
    BY <1>2, <1>3, Sizes
  <1>5. /\ Sound(r) /\ r.up = Kept.up /\ r.state = Kept.state /\ r.parser = Kept.parser
        /\ r.queued = Kept.queued /\ r.out = SubSeq(Kept.out, n + 1, Len(Kept.out))
    BY <1>2, <1>4, RestFacts
  <1> HIDE DEF r
  <1>6. CASE HangsUp(r) /\ b = SubSeq(Kept.out, 1, n) /\ ch = SocketIoError(r)
    <2>1. r.state = "DISCONNECTING" /\ r.out = <<>>
      BY <1>6 DEF HangsUp
    <2>2. Kept = channel /\ Last(Kept.queued) = Goodbye
      BY <1>1, <1>2, <1>5, <2>1 DEF Parting
    <2>3. /\ Sound(ch) /\ ~ch.up /\ ch = [Down EXCEPT !.queued = ch.queued] /\ ch.queued = r.queued
      BY <1>5, <1>6, SoundFields, SocketIoErrorFacts
    <2>4. From(Kept, n, b, ch)
      BY <1>1, <1>2, <1>4, <1>5, <1>6, <2>1, <2>2, <2>3, Zenon DEF From
    <2>5. QED BY <2>4
  <1>7. CASE b = SubSeq(Kept.out, 1, n) /\ ch = r
    <2>1. Parting(r)
      BY <1>2, <1>5 DEF Parting
    <2>2. From(Kept, n, b, ch)
      BY <1>1, <1>2, <1>4, <1>5, <1>7, <2>1, Zenon DEF From
    <2>3. QED BY <2>2
  <1>8. ASSUME NEW m \in Syncs, NEW k \in 0 .. OutSize, k <= Len(WritePending(r, m).out),
               r.state # "DISCONNECTING",
               b = SubSeq(Kept.out, 1, n) \o SubSeq(WritePending(r, m).out, 1, k),
               ch = Rest(WritePending(r, m), k)
        PROVE  \E v, j : From(v, j, b, ch)
    <2> DEFINE w == WritePending(r, m)
    <2>1. m \in Messages /\ m \in ClientMessages /\ Encode(m) \in Seq(Nat)
      BY SyncFacts, EncodeShape DEF ClientMessages
    <2>2. /\ Sound(w) /\ w.up = r.up /\ w.state = r.state /\ w.parser = r.parser
          /\ w = r \/ w = Queue(r, m)
      BY <1>2, <1>5, <2>1, WritePendingFacts
    <2> HIDE DEF w
    <2>3. w.out \in Seq(Nat) /\ k \in 0 .. Len(w.out)
      BY <1>8, <2>2, SoundFields, Sizes DEF w
    <2>4. /\ Sound(ch) /\ ch.up = w.up /\ ch.state = w.state /\ ch.parser = w.parser
          /\ ch.queued = w.queued /\ ch.out = SubSeq(w.out, k + 1, Len(w.out))
      BY <1>8, <2>2, <2>3, RestFacts DEF w
    <2>5. Parting(ch)
      BY <1>8, <2>2, <2>4 DEF Parting
    <2>6. b = SubSeq(Kept.out, 1, n) \o SubSeq(w.out, 1, k)
      BY <1>8 DEF w
    <2>7. ch.up /\ ch.parser = channel.parser /\ ch.state = channel.state
      BY <1>1, <1>2, <1>5, <2>2, <2>4
    <2>8. CASE w = r
      <3> DEFINE e == <<>>
      <3>1. e \in Seq(Nat)
        OBVIOUS
      <3>2. r.out \o e = r.out /\ Kept.out \o e = Kept.out
        BY <1>2, <1>5, SoundFields, ConcatEmpty
      <3> HIDE DEF e
      <3>3. w.out = SubSeq(Kept.out, n + 1, Len(Kept.out)) \o e
        BY <1>5, <2>8, <3>2
      <3>4. LET all == Kept.out \o e
            IN  /\ all \in Seq(Nat) /\ n + k \in 0 .. Len(all)
                /\ SubSeq(Kept.out, 1, n) \o SubSeq(w.out, 1, k) = SubSeq(all, 1, n + k)
                /\ SubSeq(w.out, k + 1, Len(w.out)) = SubSeq(all, n + k + 1, Len(all))
        <4> DEFINE a == Kept.out
                   next == w.out
        <4>1. SecondWrite(a, e, n, next, k)
          BY <1>2, <1>4, <2>3, <3>1, <3>3 DEF SecondWrite
        <4> HIDE DEF a, next
        <4>2. OneBuffer(a, e, n, next, k, a \o e)
          BY <4>1, TwoWrites
        <4>3. QED BY <4>2 DEF a, next, OneBuffer
      <3>5. From(Kept, n + k, b, ch)
        BY <1>1, <1>2, <1>5, <2>4, <2>5, <2>6, <2>7, <2>8, <3>2, <3>4, Zenon DEF From
      <3>6. QED BY <3>5
    <2>9. CASE w = Queue(r, m)
      <3> DEFINE v == Queue(Kept, m)
                 e == Encode(m)
      <3>1. /\ v.out = Kept.out \o e /\ v.queued = Append(Kept.queued, m) /\ v \in Channels
            /\ w.out = r.out \o e /\ w.queued = Append(r.queued, m)
        <4>1. Kept \in Channels /\ r \in Channels
          BY <1>2, <1>5, SoundFields
        <4>2. /\ Queue(Kept, m) \in Channels /\ Queue(Kept, m).out = Kept.out \o Encode(m)
              /\ Queue(Kept, m).queued = Append(Kept.queued, m)
          BY <2>1, <4>1, QueueFacts
        <4>3. /\ Queue(r, m).out = r.out \o Encode(m)
              /\ Queue(r, m).queued = Append(r.queued, m)
          BY <2>1, <4>1, QueueFacts
        <4>4. QED BY <2>9, <4>2, <4>3, Zenon
      <3>2. Sending(v, server, arrived) /\ IsPrefix(Kept.queued, v.queued)
        BY <1>2, <2>1, SoundFields, SendingQueue
      <3> HIDE DEF v, e
      <3>3. v.queued \in Seq(Messages) /\ v.out \in Seq(Nat)
        BY <3>1, ChannelFields
      <3>4. IsPrefix(channel.queued, v.queued)
        BY <1>1, <1>2, <3>2, <3>3, PrefixTransitive
      <3>5. w.out = SubSeq(Kept.out, n + 1, Len(Kept.out)) \o e /\ e \in Seq(Nat)
        BY <1>5, <2>1, <3>1 DEF e
      <3>6. LET all == Kept.out \o e
            IN  /\ all \in Seq(Nat) /\ n + k \in 0 .. Len(all)
                /\ SubSeq(Kept.out, 1, n) \o SubSeq(w.out, 1, k) = SubSeq(all, 1, n + k)
                /\ SubSeq(w.out, k + 1, Len(w.out)) = SubSeq(all, n + k + 1, Len(all))
        <4> DEFINE a == Kept.out
                   next == w.out
        <4>1. SecondWrite(a, e, n, next, k)
          BY <1>2, <1>4, <2>3, <3>5 DEF SecondWrite
        <4> HIDE DEF a, next
        <4>2. OneBuffer(a, e, n, next, k, a \o e)
          BY <4>1, TwoWrites
        <4>3. QED BY <4>2 DEF a, next, OneBuffer
      <3>7. ch.queued = v.queued
        BY <1>5, <2>4, <3>1
      <3>8. From(v, n + k, b, ch)
        BY <2>4, <2>5, <2>6, <2>7, <3>1, <3>2, <3>3, <3>4, <3>6, <3>7, Zenon DEF From
      <3>9. QED BY <3>8
    <2>10. QED BY <2>2, <2>8, <2>9
  <1>9. QED BY <1>3, <1>6, <1>7, <1>8 DEF r
-----------------------------------------------------------------------------
(* The inductive invariant, of a server that stops at a message that closes *)
(* the channel.                                                            *)

Talking ==
  channel.up =>
    /\ Live(channel, server, arrived)
    /\ handled = <<>> => channel.state = "AUTHORIZING"
    /\ \E left \in Seq(ServerMessages) :
         sent = handled \o left /\ Parsing(channel.parser, left, toClient)

HungUp ==
  ~channel.up =>
    /\ Over(channel, arrived) \/ (~bootstrap /\ Redialling(channel, arrived))
    /\ toClient = <<>> /\ IsPrefix(handled, sent)

Whole == Types /\ Shape(sent) /\ Talking /\ HungUp

(* What a step may do to what was sent and handled, queued and got. *)
Moves ==
  /\ \/ IsPrefix(sent, sent') /\ IsPrefix(handled, handled')
     \/ sent' = <<>> /\ handled' = <<>>
  /\ \/ IsPrefix(channel.queued, channel'.queued) /\ IsPrefix(arrived, arrived')
     \/ Len(channel'.queued) <= 1 /\ arrived' = <<>>

LEMMA WholeFacts ==
  ASSUME Whole
  PROVE  /\ sent \in Seq(ServerMessages) /\ sent \in Seq(Messages) /\ handled \in Seq(Messages)
         /\ arrived \in Seq(Messages) /\ channel.queued \in Seq(Messages)
         /\ toClient \in Seq(Nat) /\ Sound(channel)
         /\ IsPrefix(handled, sent) /\ IsPrefix(arrived, channel.queued)
         /\ IsPrefix(sent, sent) /\ IsPrefix(handled, handled)
         /\ IsPrefix(arrived, arrived) /\ IsPrefix(channel.queued, channel.queued)
  <1>1. /\ sent \in Seq(ServerMessages) /\ sent \in Seq(Messages) /\ handled \in Seq(Messages)
        /\ arrived \in Seq(Messages) /\ channel.queued \in Seq(Messages)
        /\ toClient \in Seq(Nat) /\ Sound(channel)
    BY SideTypes, SoundFields DEF Whole, Types, TypeOK
  <1>2. CASE channel.up
    <2>1. PICK left \in Seq(ServerMessages) : sent = handled \o left
      BY <1>2 DEF Whole, Talking
    <2>2. IsPrefix(handled, sent)
      BY <1>1, <2>1, SideTypes, PrefixConcat
    <2>3. IsPrefix(arrived, channel.queued)
      BY <1>1, <1>2, SendingPrefix DEF Whole, Talking, Live
    <2>4. QED BY <1>1, <2>2, <2>3, PrefixSelf
  <1>3. CASE ~channel.up
    BY <1>1, <1>3, PrefixSelf DEF Whole, HungUp, Over, Redialling
  <1>4. QED BY <1>2, <1>3

LEMMA InitWhole == Init => Whole
  <1> SUFFICES ASSUME Init PROVE Whole
    OBVIOUS
  <1>1. Types
    BY InitTypes
  <1>2. Shape(sent)
    <2>1. sent = <<>> /\ Len(sent) = 0
      BY DEF Init
    <2>2. QED BY <2>1 DEF Shape
  <1>3. ~channel.up /\ toClient = <<>> /\ channel = Down /\ arrived = <<>> /\ handled = <<>> /\ sent = <<>>
    BY DEF Init, Down
  <1>4. IsPrefix(handled, sent) /\ IsPrefix(arrived, channel.queued)
    <2>1. channel.queued = <<>> /\ <<>> \in Seq(Messages)
      BY <1>3 DEF Down
    <2>2. QED BY <1>3, <2>1, PrefixSelf
  <1>5. channel = [Down EXCEPT !.queued = channel.queued]
    BY <1>3 DEF Down
  <1>6. QED BY <1>1, <1>2, <1>3, <1>4, <1>5 DEF Whole, Talking, HungUp, Over, Types

LEMMA EmptyParsing == Parsing(NewParser, <<>>, <<>>)
  BY DEF Parsing

LEMMA ConnectedWhole ==
  ASSUME Whole, Types', Connected
  PROVE  Whole' /\ Moves
  <1> DEFINE m == Message(Connect, ConnectSize, 1)
             e == <<>>
             one == Append(e, m)
             b == e \o Encode(m)
  <1>1. m \in Messages /\ m \in ClientMessages /\ Encode(m) \in Seq(Nat)
    BY ClientFacts, EncodeShape DEF ClientMessages
  <1>2. ~channel.up /\ server' = NewParser /\ arrived' = e /\ sent' = e /\ toClient' = e /\ handled' = e
    BY DEF Connected
  <1>3. one = <<m>>
    OBVIOUS
  <1>4. /\ channel'.up /\ channel'.state = "AUTHORIZING" /\ channel'.parser = NewParser
        /\ channel'.out = b /\ channel'.queued = one /\ Sound(channel')
    <2>1. CASE Over(channel, arrived)
      <3>1. channel.state = "UNDEFINED" /\ channel.parser = NewParser
        BY <2>1 DEF Over, Down
      <3>2. QED BY <3>1, WholeFacts, ConnectedNext
    <2>2. CASE Redialling(channel, arrived)
      <3>1. /\ channel.state = "AUTHORIZING" /\ channel.parser = NewParser /\ channel.out = b
            /\ Last(channel.queued) = m
        BY <2>2 DEF Redialling
      <3> HIDE DEF b, m
      <3>2. QED BY <1>3, <3>1, WholeFacts, ConnectedNext
    <2>3. QED BY <1>2, <2>1, <2>2 DEF Whole, HungUp
  <1>5. e \in Seq(Messages) /\ e \in Seq(Nat) /\ e \in Seq(ServerMessages) /\ Len(e) = 0
    OBVIOUS
  <1> HIDE DEF m
  <1>6. one \in Seq(ClientMessages) /\ one \in Seq(Messages) /\ Len(one) = 1 /\ e \o one = one
    BY <1>1
  <1>7. Parsing(NewParser, one, b)
    BY <1>1, <1>5, EmptyParsing, ParsingAppend
  <1>8. e \o e = e
    BY <1>5, ConcatEmpty
  <1>9. Parsing(NewParser, e, e)
    BY EmptyParsing
  <1>10. Shape(e)
    BY <1>5 DEF Shape
  <1> HIDE DEF e, one, b
  <1>11. Live(channel', server', arrived')
    <2>1. Sending(channel', server', arrived')
      BY <1>2, <1>4, <1>6, <1>7 DEF Sending
    <2>2. QED BY <1>4, <2>1 DEF Live, Parting
  <1>12. \E left \in Seq(ServerMessages) :
           sent' = handled' \o left /\ Parsing(channel'.parser, left, toClient')
    BY <1>2, <1>4, <1>5, <1>8, <1>9
  <1>13. Whole'
    BY <1>2, <1>4, <1>10, <1>11, <1>12 DEF Whole, Talking, HungUp
  <1>14. Moves
    BY <1>2, <1>4, <1>6 DEF Moves, e
  <1>15. QED BY <1>13, <1>14

LEMMA ServerSendWhole ==
  ASSUME ~LastWords, Whole, Types', ServerSend
  PROVE  Whole' /\ Moves
  <1>1. PICK m \in ServerMessages :
          /\ (m \in {Accepted, Rejected}) = (sent = <<>>)
          /\ \A i \in DOMAIN sent : sent[i] \notin Closing
          /\ sent' = Append(sent, m)
          /\ toClient' = toClient \o Encode(m)
    BY DEF ServerSend
  <1>2. UNCHANGED <<channel, server, arrived, handled>> /\ channel.up
    BY DEF ServerSend
  <1>3. /\ sent \in Seq(ServerMessages) /\ sent \in Seq(Messages) /\ handled \in Seq(Messages)
        /\ toClient \in Seq(Nat)
    BY WholeFacts
  <1>4. m \in Messages /\ Encode(m) \in Seq(Nat)
    BY ServerMessageFacts
  <1>5. Shape(sent')
    <2> DEFINE n == Len(sent)
    <2>1. n \in Nat /\ DOMAIN sent = 1 .. n /\ Len(sent') = n + 1
      BY <1>1, <1>3
    <2>2. \A i \in 1 .. n : sent'[i] = sent[i]
      BY <1>1, <1>3
    <2>3. sent'[n + 1] = m
      BY <1>1, <1>3
    <2>4. sent = <<>> <=> n = 0
      BY <1>3
    <2>5. \A i \in 1 .. n : sent[i] \in {Accepted, Rejected} <=> i = 1
      BY DEF Whole, Shape
    <2> HIDE DEF n
    <2>6. ASSUME NEW i \in 1 .. n + 1 PROVE sent'[i] \in {Accepted, Rejected} <=> i = 1
      <3>1. CASE i = n + 1
        <4>1. i = 1 <=> n = 0
          BY <2>1, <3>1
        <4>2. sent'[i] = m
          BY <2>3, <3>1
        <4>3. QED BY <1>1, <2>4, <4>1, <4>2
      <3>2. CASE i # n + 1
        <4>1. i \in 1 .. n
          BY <2>1, <3>2
        <4>2. QED BY <2>2, <2>5, <4>1
      <3>3. QED BY <3>1, <3>2
    <2>7. \A i \in 1 .. (n + 1) - 1 : sent'[i] \notin Closing
      <3>1. (n + 1) - 1 = n
        BY <2>1
      <3>2. QED BY <1>1, <2>1, <2>2, <3>1
    <2>8. QED BY <2>1, <2>6, <2>7 DEF Shape
  <1>6. PICK left \in Seq(ServerMessages) : sent = handled \o left /\ Parsing(channel.parser, left, toClient)
    BY <1>2 DEF Whole, Talking
  <1>7. left \in Seq(Messages)
    BY SideTypes
  <1>8. Parsing(channel.parser, Append(left, m), toClient')
    BY <1>1, <1>3, <1>4, <1>6, <1>7, ParsingAppend
  <1>9. sent' = handled \o Append(left, m) /\ Append(left, m) \in Seq(ServerMessages)
    <2> DEFINE z == <<m>>
    <2>1. \A q \in Seq(Messages) : Append(q, m) = q \o z
      BY <1>4
    <2>2. z \in Seq(Messages) /\ Append(left, m) = left \o z /\ Append(sent, m) = sent \o z
      <3>1. z \in Seq(Messages)
        BY <1>4
      <3> HIDE DEF z
      <3>2. QED BY <1>3, <1>7, <2>1, <3>1
    <2>3. Append(left, m) \in Seq(ServerMessages)
      OBVIOUS
    <2> HIDE DEF z
    <2>4. (handled \o left) \o z = handled \o (left \o z)
      BY <1>3, <1>7, <2>2, MessagesAssoc
    <2>5. QED BY <1>1, <1>6, <2>2, <2>3, <2>4
  <1>10. \E q \in Seq(ServerMessages) :
           sent' = handled' \o q /\ Parsing(channel'.parser, q, toClient')
    BY <1>2, <1>8, <1>9
  <1>11. Whole'
    BY <1>2, <1>5, <1>10 DEF Whole, Talking, HungUp
  <1>12. Moves
    <2>1. IsPrefix(sent, sent')
      BY <1>1, <1>3, <1>4, PrefixAppend
    <2>2. QED BY <1>2, <2>1, WholeFacts DEF Moves
  <1>13. QED BY <1>11, <1>12

LEMMA ReadWhole ==
  ASSUME Whole, Types', Read
  PROVE  Whole' /\ Moves
  <1>1. PICK n \in 1 .. InSize :
          /\ n <= Len(toClient)
          /\ LET read == AfterRead(Kept, SubSeq(toClient, 1, n)) IN
               /\ channel' = read.channel
               /\ handled' = handled \o read.done
               /\ toClient' = IF read.channel.up THEN SubSeq(toClient, n + 1, Len(toClient)) ELSE <<>>
    BY DEF Read
  <1>2. channel.up /\ ~KeepaliveFails /\ UNCHANGED <<server, arrived, sent>>
    BY DEF Read
  <1>3. /\ sent \in Seq(ServerMessages) /\ handled \in Seq(Messages) /\ toClient \in Seq(Nat)
        /\ arrived \in Seq(Messages) /\ channel.queued \in Seq(Messages) /\ Sound(channel)
        /\ IsPrefix(sent, sent) /\ IsPrefix(arrived, arrived)
    BY WholeFacts
  <1>4. Types /\ Shape(sent) /\ Live(channel, server, arrived) /\ (handled = <<>> => channel.state = "AUTHORIZING")
    BY <1>2 DEF Whole, Talking
  <1>5. PICK left \in Seq(ServerMessages) : sent = handled \o left /\ Parsing(channel.parser, left, toClient)
    BY <1>2 DEF Whole, Talking
  <1>6. /\ Live(Kept, server, arrived) /\ IsPrefix(channel.queued, Kept.queued)
        /\ Kept.parser = channel.parser /\ Kept.state = channel.state
    BY <1>2, <1>4, KeptLive
  <1>7. n \in 0 .. Len(toClient)
    BY <1>1, <1>3, Sizes
  <1> DEFINE c == SubSeq(toClient, n + 1, Len(toClient))
             bytes == SubSeq(toClient, 1, n)
             r == AfterRead(Kept, bytes)
             all == handled \o r.done
             K == Kept
  <1> HIDE DEF K
  <1>8. /\ Live(K, server, arrived) /\ Parsing(K.parser, left, toClient)
        /\ handled = <<>> => K.state = "AUTHORIZING"
    BY <1>4, <1>5, <1>6 DEF K
  <1>9. LET x == AfterRead(K, SubSeq(toClient, 1, n))
        IN  ReadOutcome(K, server, arrived, sent, handled, handled \o x.done,
                        SubSeq(toClient, n + 1, Len(toClient)), x.channel)
    BY <1>3, <1>4, <1>5, <1>7, <1>8, ReadLive
  <1>10. /\ channel' = r.channel /\ handled' = all /\ toClient' = IF r.channel.up THEN c ELSE <<>>
         /\ IsPrefix(Kept.queued, r.channel.queued)
         /\ IsPrefix(handled, all) /\ IsPrefix(all, sent)
         /\ \/ /\ Live(r.channel, server, arrived)
               /\ all = <<>> => r.channel.state = "AUTHORIZING"
               /\ \E rest \in Seq(ServerMessages) : sent = all \o rest /\ Parsing(r.channel.parser, rest, c)
            \/ Over(r.channel, arrived)
    BY <1>1, <1>9 DEF K, ReadOutcome
  <1> HIDE DEF r, all, c
  <1>11. /\ sent' = sent /\ server' = server /\ arrived' = arrived
    BY <1>2
  <1>12. Talking'
    <2>1. SUFFICES ASSUME channel'.up
                   PROVE  /\ Live(channel', server', arrived')
                          /\ handled' = <<>> => channel'.state = "AUTHORIZING"
                          /\ \E q \in Seq(ServerMessages) :
                               sent' = handled' \o q /\ Parsing(channel'.parser, q, toClient')
      BY DEF Talking
    <2>2. ~Over(r.channel, arrived) /\ r.channel.up /\ toClient' = c
      BY <1>10, <2>1 DEF Over
    <2>3. QED BY <1>10, <1>11, <2>2
  <1>13. HungUp'
    <2>1. SUFFICES ASSUME ~channel'.up
                   PROVE  Over(channel', arrived') /\ toClient' = <<>> /\ IsPrefix(handled', sent')
      BY DEF HungUp
    <2>2. ~Live(r.channel, server, arrived) /\ ~r.channel.up
      BY <1>10, <2>1 DEF Live
    <2>3. QED BY <1>10, <1>11, <2>2
  <1>14. Moves
    <2>1. channel'.queued \in Seq(Messages) /\ Kept.queued \in Seq(Messages)
      BY <1>6, SoundFields DEF Types, Live
    <2>2. IsPrefix(channel.queued, channel'.queued)
      BY <1>3, <1>6, <1>10, <2>1, PrefixTransitive
    <2>3. QED BY <1>3, <1>10, <1>11, <2>2 DEF Moves
  <1>15. Shape(sent')
    BY <1>4, <1>11
  <1>16. QED BY <1>12, <1>13, <1>14, <1>15 DEF Whole

LEMMA LostWhole ==
  ASSUME Whole, Types', Lost
  PROVE  Whole' /\ Moves
  <1>1. /\ channel.up /\ channel' = SocketIoError(channel) /\ toClient' = <<>>
        /\ UNCHANGED <<server, arrived, sent, handled>>
    BY DEF Lost
  <1>2. Live(channel, server, arrived) /\ arrived \in Seq(Messages)
    BY <1>1, WholeFacts DEF Whole, Talking
  <1>3. Over(channel', arrived) /\ channel'.queued = channel.queued
    BY <1>1, <1>2, LiveEnds
  <1>4. ~channel'.up
    BY <1>3 DEF Over
  <1>5. Whole'
    BY <1>1, <1>3, <1>4, WholeFacts DEF Whole, Talking, HungUp
  <1>6. Moves
    BY <1>1, <1>3, WholeFacts DEF Moves
  <1>7. QED BY <1>5, <1>6

LEMMA WriteFailsWhole ==
  ASSUME Whole, Types', WriteFails
  PROVE  Whole' /\ Moves
  <1> DEFINE m == Message(Connect, ConnectSize, 1)
  <1>1. /\ channel.up /\ ~KeepaliveFails /\ channel' = GoOnClosed(SocketIoError(Kept))
        /\ toClient' = <<>> /\ UNCHANGED <<bootstrap, server, arrived, sent, handled>>
    BY DEF WriteFails
  <1>2. Types /\ Live(channel, server, arrived) /\ arrived \in Seq(Messages)
    BY <1>1, WholeFacts DEF Whole, Talking
  <1>3. Live(Kept, server, arrived) /\ IsPrefix(channel.queued, Kept.queued)
    BY <1>1, <1>2, KeptLive
  <1>4. /\ Kept \in Channels /\ Kept.queued \in Seq(Messages) /\ m \in Messages
        /\ channel.queued \in Seq(Messages)
    BY <1>3, WholeFacts, SoundFields, ClientFacts DEF Live, ClientMessages
  <1> HIDE DEF m
  <1>5. /\ Sound(channel') /\ ~channel'.up
        /\ bootstrap => channel' = SocketIoError(Kept)
        /\ ~bootstrap =>
             /\ channel'.state = "AUTHORIZING" /\ channel'.parser = NewParser
             /\ channel'.out = <<>> \o Encode(Message(Connect, ConnectSize, 1))
             /\ channel'.queued = Append(Kept.queued, m)
    BY <1>1, <1>4, GoOnClosedFacts DEF m
  <1>6. IsPrefix(arrived, Kept.queued)
    BY <1>2, <1>3, SendingPrefix DEF Live
  <1>7. /\ Over(channel', arrived) \/ (~bootstrap /\ Redialling(channel', arrived))
        /\ IsPrefix(channel.queued, channel'.queued)
    <2>1. CASE bootstrap
      BY <1>2, <1>3, <1>5, <2>1, LiveEnds
    <2>2. CASE ~bootstrap
      <3>1. Append(Kept.queued, m) # <<>> /\ Last(Append(Kept.queued, m)) = m
        BY <1>4 DEF Last
      <3>2. IsPrefix(Kept.queued, Append(Kept.queued, m)) /\ Append(Kept.queued, m) \in Seq(Messages)
        BY <1>4, PrefixAppend
      <3>3. /\ IsPrefix(arrived, Append(Kept.queued, m))
            /\ IsPrefix(channel.queued, Append(Kept.queued, m))
        BY <1>2, <1>3, <1>4, <1>6, <3>2, PrefixTransitive
      <3>4. QED BY <1>5, <2>2, <3>1, <3>3 DEF Redialling, m
    <2>3. QED BY <2>1, <2>2
  <1>8. Whole'
    BY <1>1, <1>5, <1>7, WholeFacts DEF Whole, Talking, HungUp
  <1>9. Moves
    BY <1>1, <1>7, WholeFacts DEF Moves
  <1>10. QED BY <1>8, <1>9

LEMMA WriteWhole ==
  ASSUME Whole, Types', Write
  PROVE  /\ Whole' /\ Moves
         /\ ~channel'.up => arrived' = channel.queued /\ Last(arrived') = Goodbye
  <1>1. /\ channel.up /\ ~KeepaliveFails /\ sent' = sent /\ handled' = handled
    BY WriteWrites
  <1>2. PICK b, ch : Written(b, ch) /\ Wrote(b, ch)
    BY WriteWrites
  <1>3. /\ Types /\ Live(channel, server, arrived) /\ (handled = <<>> => channel.state = "AUTHORIZING")
        /\ \E left \in Seq(ServerMessages) :
             sent = handled \o left /\ Parsing(channel.parser, left, toClient)
    BY <1>1 DEF Whole, Talking
  <1>4. PICK v, j : From(v, j, b, ch)
    BY <1>1, <1>2, <1>3, WrittenFrom
  <1>5. /\ arrived \in Seq(Messages) /\ IsPrefix(sent, sent) /\ IsPrefix(handled, handled)
        /\ IsPrefix(handled, sent)
    BY WholeFacts
  <1> DEFINE t == ProcessBuffer(server, b)
             all == arrived \o t.done
             c == SubSeq(v.out, j + 1, Len(v.out))
  <1>6. /\ all \in Seq(Messages) /\ IsPrefix(arrived, all) /\ IsPrefix(all, v.queued)
        /\ \E rest \in Seq(ClientMessages) : v.queued = all \o rest /\ Parsing(t.parser, rest, c)
    BY <1>4, <1>5, SendBytes DEF From
  <1>7. /\ channel' = ch /\ server' = t.parser /\ arrived' = all
        /\ toClient' = IF ch.up THEN toClient ELSE <<>>
    BY <1>2 DEF Wrote
  <1> HIDE DEF t, all, c
  <1>8. IsPrefix(channel.queued, ch.queued) /\ ch.queued = v.queued /\ Sound(ch)
    BY <1>4 DEF From
  <1>9. Moves
    BY <1>1, <1>5, <1>6, <1>7, <1>8 DEF Moves
  <1>10. Shape(sent')
    BY <1>1 DEF Whole
  <1>11. CASE ch.up
    <2>1. ch.parser = channel.parser /\ ch.state = channel.state /\ ch.out = c /\ Parting(ch)
      BY <1>4, <1>11 DEF From, c
    <2>2. Sending(ch, t.parser, all)
      BY <1>6, <1>8, <2>1 DEF Sending
    <2>3. Live(channel', server', arrived')
      BY <1>7, <1>8, <1>11, <2>1, <2>2 DEF Live
    <2>4. \E left \in Seq(ServerMessages) :
            sent' = handled' \o left /\ Parsing(channel'.parser, left, toClient')
      BY <1>1, <1>3, <1>7, <1>11, <2>1
    <2>5. handled' = <<>> => channel'.state = "AUTHORIZING"
      BY <1>1, <1>3, <1>7, <2>1
    <2>6. Whole'
      BY <1>7, <1>10, <1>11, <2>3, <2>4, <2>5 DEF Whole, Talking, HungUp
    <2>7. QED BY <1>7, <1>9, <1>11, <2>6
  <1>12. CASE ~ch.up
    <2>1. /\ ch = [Down EXCEPT !.queued = ch.queued] /\ c = <<>>
          /\ ch.queued = channel.queued /\ Last(ch.queued) = Goodbye
      BY <1>4, <1>12 DEF From, c
    <2>2. PICK rest \in Seq(ClientMessages) : v.queued = all \o rest /\ Parsing(t.parser, rest, c)
      BY <1>6
    <2>3. rest = <<>>
      BY <2>1, <2>2, SideTypes, ParsingAll
    <2>4. ch.queued = all
      BY <1>6, <1>8, <2>2, <2>3, ConcatEmpty
    <2>5. Over(ch, all)
      BY <1>6, <1>8, <1>12, <2>1 DEF Over
    <2>6. Whole'
      BY <1>1, <1>5, <1>7, <1>10, <1>12, <2>5 DEF Whole, Talking, HungUp
    <2>7. QED BY <1>7, <1>9, <2>1, <2>4, <2>6
  <1>13. QED BY <1>11, <1>12

LEMMA KeepaliveWhole ==
  ASSUME Whole, Types', CheckKeepalive
  PROVE  Whole' /\ Moves
  <1>1. /\ channel.up /\ ~KeepaliveFails /\ channel' = Kept
        /\ UNCHANGED <<server, arrived, sent, toClient, handled>>
    BY DEF CheckKeepalive
  <1>2. /\ Types /\ Live(channel, server, arrived) /\ (handled = <<>> => channel.state = "AUTHORIZING")
        /\ \E left \in Seq(ServerMessages) :
             sent = handled \o left /\ Parsing(channel.parser, left, toClient)
    BY <1>1 DEF Whole, Talking
  <1>3. /\ Live(Kept, server, arrived) /\ IsPrefix(channel.queued, Kept.queued)
        /\ Kept.parser = channel.parser /\ Kept.state = channel.state
    BY <1>1, <1>2, KeptLive
  <1>4. Kept.up
    BY <1>3 DEF Live
  <1>5. Whole'
    BY <1>1, <1>2, <1>3, <1>4 DEF Whole, Talking, HungUp
  <1>6. Moves
    BY <1>1, <1>3, WholeFacts DEF Moves
  <1>7. QED BY <1>5, <1>6

LEMMA StillWhole ==
  ASSUME Whole, Types', UNCHANGED <<bootstrap, channel, server, arrived, sent, toClient, handled>>
  PROVE  Whole' /\ Moves
  <1>1. Moves
    BY WholeFacts DEF Moves
  <1>2. Whole'
    BY DEF Whole, Talking, HungUp
  <1>3. QED BY <1>1, <1>2

LEMMA NextWhole ==
  ASSUME ~LastWords, Whole, [Next]_vars
  PROVE  /\ Whole' /\ Moves
         /\ Write /\ ~channel'.up => arrived' = channel.queued /\ Last(arrived') = Goodbye
  <1>1. Types'
    BY NextTypes DEF Whole
  <1>2. CASE Write
    BY <1>1, <1>2, WriteWhole
  <1>3. CASE ~Write
    <2>1. CASE Connected
      BY <1>1, <1>3, <2>1, ConnectedWhole
    <2>2. CASE ServerSend
      BY <1>1, <1>3, <2>2, ServerSendWhole
    <2>3. CASE Read
      BY <1>1, <1>3, <2>3, ReadWhole
    <2>4. CASE Lost
      BY <1>1, <1>3, <2>4, LostWhole
    <2>5. CASE CheckKeepalive
      BY <1>1, <1>3, <2>5, KeepaliveWhole
    <2>6. CASE TimePasses \/ Sync \/ UNCHANGED vars
      <3>1. UNCHANGED <<bootstrap, channel, server, arrived, sent, toClient, handled>>
        BY <2>6 DEF TimePasses, Sync, vars
      <3>2. QED BY <1>1, <1>3, <3>1, StillWhole
    <2>7. CASE WriteFails
      BY <1>1, <1>3, <2>7, WriteFailsWhole
    <2>8. QED BY <1>3, <2>1, <2>2, <2>3, <2>4, <2>5, <2>6, <2>7 DEF Next
  <1>4. QED BY <1>2, <1>3
-----------------------------------------------------------------------------
(* A channel that is not connected holds nothing of the connection it had, *)
(* in its parser, its out_buffer or its state, but the CONNECT that an     *)
(* operations channel queues when a write has failed                       *)
(* (kaa_tcp_channel_socket_io_error, kaa_tcp_channel_process_event).       *)
THEOREM ChannelStartsClean ==
  ASSUME ~LastWords
  PROVE  Spec => []CleanBetweenConnections
  <1>1. Whole => CleanBetweenConnections
    <2> DEFINE out == Encode(Message(Connect, ConnectSize, 1))
               clean == [Down EXCEPT !.queued = channel.queued]
               dialled == [clean EXCEPT !.state = "AUTHORIZING", !.out = out]
    <2>1. SUFFICES ASSUME Whole, ~channel.up
                   PROVE  channel = clean \/ (~bootstrap /\ channel = dialled)
      BY DEF CleanBetweenConnections
    <2>2. CASE Over(channel, arrived)
      BY <2>2 DEF Over
    <2>3. CASE ~bootstrap /\ Redialling(channel, arrived)
      <3>1. out \in Seq(Nat)
        BY ClientFacts, EncodeShape DEF ClientMessages
      <3> HIDE DEF out
      <3>2. <<>> \o out = out
        BY <3>1, ConcatEmpty
      <3>3. /\ channel \in Channels /\ channel.up = FALSE /\ channel.state = "AUTHORIZING"
            /\ channel.parser = NewParser /\ channel.out = out
        BY <2>1, <2>3, <3>2, SoundFields DEF Redialling, out
      <3>4. channel = [up |-> FALSE, state |-> "AUTHORIZING", parser |-> NewParser, out |-> out,
                       queued |-> channel.queued]
        BY <3>3 DEF Channels
      <3>5. dialled = [up |-> FALSE, state |-> "AUTHORIZING", parser |-> NewParser, out |-> out,
                       queued |-> channel.queued]
        <4> DEFINE d == dialled
        <4>1. d = [i \in {"up", "state", "parser", "out", "queued"} |-> d[i]]
          BY DEF Down
        <4>2. /\ d.up = FALSE /\ d.state = "AUTHORIZING" /\ d.parser = NewParser /\ d.out = out
              /\ d.queued = channel.queued
          BY DEF Down
        <4> HIDE DEF d
        <4>3. d = [up |-> FALSE, state |-> "AUTHORIZING", parser |-> NewParser, out |-> out,
                   queued |-> channel.queued]
          BY <4>1, <4>2
        <4>4. QED BY <4>3 DEF d
      <3>6. QED BY <2>3, <3>4, <3>5
    <2>4. QED BY <2>1, <2>2, <2>3 DEF Whole, HungUp
  <1>2. Whole /\ [Next]_vars => Whole'
    BY NextWhole
  <1>3. QED BY <1>1, <1>2, InitWhole, PTL DEF Spec

(* The handlers of the parser get what the server sends whole, once and in *)
(* order, for any lengths of messages and any cuts of the stream           *)
(* (kaatcp_parser_process_buffer).                                         *)
THEOREM ParserDelivers ==
  ASSUME ~LastWords
  PROVE  Spec => ToClient
  <1>1. Init => Inbound!Init
    BY DEF Init, Inbound!Init
  <1>2. Whole /\ [Next]_vars => Whole' /\ Moves
    BY NextWhole
  <1>3. Whole => IsPrefix(handled, sent)
    BY WholeFacts
  <1>4. Moves /\ IsPrefix(handled, sent)' => Inbound!Next
    <2>1. SUFFICES ASSUME Moves, IsPrefix(handled', sent') PROVE Inbound!Next
      OBVIOUS
    <2>2. \A s, t : Inbound!IsPrefix(s, t) <=> IsPrefix(s, t)
      BY DEF IsPrefix, Inbound!IsPrefix
    <2>3. sent' = <<>> => Len(sent') <= 1
      OBVIOUS
    <2>4. QED BY <2>1, <2>2, <2>3 DEF Moves, Inbound!Next, Inbound!Transfer, Inbound!Replace
  <1>5. QED BY <1>1, <1>2, <1>3, <1>4, InitWhole, PTL DEF Spec, ToClient, Inbound!Spec

(* What the server reads is what the channel queued, whole, once and in    *)
(* order, however the out_buffer is written                                *)
(* (kaa_tcp_write_buffer, kaa_buffer.c).                                   *)
THEOREM RequestsArriveWhole ==
  ASSUME ~LastWords
  PROVE  Spec => ToServer
  <1>1. Init => Outbound!Init
    BY DEF Init, Down, Outbound!Init
  <1>2. Whole /\ [Next]_vars => Whole' /\ Moves
    BY NextWhole
  <1>3. Whole => IsPrefix(arrived, channel.queued)
    BY WholeFacts
  <1>4. Moves /\ IsPrefix(arrived, channel.queued)' => Outbound!Next
    <2>1. SUFFICES ASSUME Moves, IsPrefix(arrived', channel'.queued) PROVE Outbound!Next
      OBVIOUS
    <2>2. \A s, t : Outbound!IsPrefix(s, t) <=> IsPrefix(s, t)
      BY DEF IsPrefix, Outbound!IsPrefix
    <2>3. QED BY <2>1, <2>2 DEF Moves, Outbound!Next, Outbound!Transfer, Outbound!Replace
  <1>5. QED BY <1>1, <1>2, <1>3, <1>4, InitWhole, PTL DEF Spec, ToServer, Outbound!Spec

(* A bootstrap channel that hangs up has had its DISCONNECT, and all it     *)
(* queued before it, written (FD_WRITE while DISCONNECTING).               *)
THEOREM GoodbyeIsSaid ==
  ASSUME ~LastWords
  PROVE  Spec => SaysGoodbye
  <1>1. Whole /\ [Next]_vars =>
          /\ Whole'
          /\ [Write /\ ~channel'.up => arrived' = channel.queued /\ Last(arrived') = Goodbye]_vars
    BY NextWhole
  <1>2. QED BY <1>1, InitWhole, PTL DEF Spec, SaysGoodbye
=============================================================================
