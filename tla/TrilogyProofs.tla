---------------------------- MODULE TrilogyProofs ----------------------------
(***************************************************************************)
(* Proofs about the two halves of the Trilogy protocol.  The receiving one *)
(* passes messages on in order, once and whole, and keeps what it has      *)
(* acknowledged (RecvInv); the sending one releases only what was received *)
(* and fails only after an ack for the middle of a packet (SendInv).       *)
(***************************************************************************)
EXTENDS TrilogyReceive, TrilogySend, SequenceTheorems, FiniteSetTheorems, TLAPS

-----------------------------------------------------------------------------
(* Least and greatest numbers, sequences *)

\* A set of natural numbers has a least element.
LEMMA Least ==
  ASSUME NEW S \in SUBSET Nat, S # {}
  PROVE  \E x \in S : \A y \in S : x <= y
  <1> DEFINE R == {ss \in Nat \X Nat : ss[1] < ss[2]}
  <1>1. IsWellFoundedOn(R, Nat)
    BY NatLessThanWellFounded DEF OpToRel
  <1> HIDE DEF R
  <1>2. PICK x \in S : \A y \in S : ~(<<y, x>> \in R)
    BY <1>1, WFMin
  <1>3. ASSUME NEW y \in S
        PROVE  x <= y
    <2>1. x \in Nat /\ y \in Nat /\ <<y, x>> \notin R
      BY <1>2
    <2>2. ~(y < x)
      BY <2>1 DEF R
    <2> QED
      BY <2>1, <2>2
  <1> QED
    BY <1>3

\* A bounded one has a greatest.
LEMMA Greatest ==
  ASSUME NEW b \in Nat, NEW S \in SUBSET (0 .. b), S # {}
  PROVE  \E x \in S : \A y \in S : x >= y
  <1> DEFINE T == {b - x : x \in S}
  <1>1. T \in SUBSET Nat /\ T # {}
    <2>1. \A x \in S : b - x \in Nat
      OBVIOUS
    <2> QED
      BY <2>1
  <1>2. PICK t \in T : \A y \in T : t <= y
    BY <1>1, Least
  <1>3. PICK x \in S : t = b - x
    BY <1>2
  <1>4. ASSUME NEW y \in S
        PROVE  x >= y
    <2>1. b - y \in T
      OBVIOUS
    <2>2. b - x <= b - y
      BY <1>2, <1>3, <2>1
    <2> QED
      BY <2>2
  <1> QED
    BY <1>4

\* A function on 1 .. n is a sequence of length n.
LEMMA FunctionIsSeq ==
  ASSUME NEW S, NEW n \in Nat, NEW s \in [1 .. n -> S]
  PROVE  s \in Seq(S) /\ Len(s) = n
  <1>1. s \in Seq(S)
    BY SeqDef
  <1>2. Len(s) \in Nat /\ DOMAIN s = 1 .. Len(s) /\ DOMAIN s = 1 .. n
    BY <1>1, LenProperties
  <1> QED
    BY <1>1, <1>2

-----------------------------------------------------------------------------
(* The messages of the stream *)

Starts == CHOOSE s \in SUBSET DOMAIN Stream : IsGrouping(s)

\* Where the packet with number a is in the stream
Pos(a) == a - First + 1

\* A message starts at position q, or the stream ends before it.
Boundary(q) == q \in Starts \/ q = Len(Stream) + 1

\* The first packet of the message that packet q belongs to
StartOf(q) == CHOOSE s \in Starts : s <= q /\ q < s + GroupSize(s)

\* The number with which message k of s has to start
StartNumber(s, k, from) == IF k = 1 THEN from ELSE s[k - 1][Len(s[k - 1])] + 1

\* s are the messages with the numbers from .. to - 1.
InOrderFrom(s, from, to) ==
    /\ s \in Seq(Seq(Nat))
    /\ \A k \in DOMAIN s :
         /\ StartNumber(s, k, from) \in Numbers
         /\ Len(s[k]) = GroupSize(Pos(StartNumber(s, k, from)))
         /\ \A j \in 1 .. Len(s[k]) : s[k][j] = StartNumber(s, k, from) + j - 1
    /\ to = StartNumber(s, Len(s) + 1, from)

SlotRecord == [ack : Nat, frag : Nat]

\* The slots are for the numbers from e on.
AlignedTo(slots, e) ==
    /\ slots \in Seq(SlotRecord)
    /\ \A k \in DOMAIN slots :
         \/ slots[k].ack = 0
         \/ slots[k].ack = e + k - 1 /\ e + k - 1 \in Numbers /\ slots[k].frag = FragCountOf(e + k - 1)

\* Number a is in its slot.
Holds(slots, e, a) == a - e + 1 \in DOMAIN slots /\ slots[a - e + 1].ack # 0

\* Something of the message that starts at e is missing.
Incomplete(slots, e) ==
    Pos(e) \in Starts => \E j \in 1 .. GroupSize(Pos(e)) : ~(j \in DOMAIN slots /\ slots[j].ack # 0)

\* Everything before e has been passed on in order, what follows is in the slots, and whatever was
\* acknowledged, up to c, is one or the other.
Receiving(e, slots, out, c) ==
    /\ e \in Nat /\ e >= First /\ Boundary(Pos(e))
    /\ InOrderFrom(out, First, e)
    /\ AlignedTo(slots, e) /\ Incomplete(slots, e)
    /\ c \in Nat /\ c >= First - 1
    /\ \A a \in First .. c : a < e \/ Holds(slots, e, a)

\* Before the first packet has arrived, and after
RecvInv ==
    (~skewed /\ ~restarted /\ ~dead) =>
      /\ received \subseteq Numbers
      /\ First \notin received =>
           /\ nextAckRequestExpected = 0 /\ nextAckRequestCheck = 0 /\ delivered = <<>>
           /\ AlignedTo(inputPackets, 0)
      /\ First \in received =>
           /\ Receiving(nextAckRequestExpected, inputPackets, delivered, nextAckRequestCheck)
           /\ nextAckRequestCheck >= First

\* What is assumed of the stream
LEMMA StreamFacts ==
  /\ Len(Stream) \in Nat \ {0} /\ DOMAIN Stream = 1 .. Len(Stream)
  /\ First \in Nat \ {0} /\ HalfWindow \in Nat \ {0}
  /\ \A q \in 1 .. Len(Stream) :
       /\ Stream[q] \in Nat /\ GroupSize(q) \in Nat \ {0} /\ GroupSize(q) <= HalfWindow
       /\ GroupSize(q) = IF Stream[q] = 0 THEN 1 ELSE Stream[q]
  /\ Starts \subseteq 1 .. Len(Stream) /\ IsGrouping(Starts)
  <1>1. Stream \in Seq(Nat) /\ Stream # <<>>
    BY StreamAssumption
  <1>2. Len(Stream) \in Nat \ {0} /\ DOMAIN Stream = 1 .. Len(Stream)
    BY <1>1, LenProperties, EmptySeq
  <1>3. First \in Nat \ {0} /\ HalfWindow \in Nat \ {0} /\ \A k \in DOMAIN Stream : Stream[k] <= HalfWindow
    BY StreamAssumption, WindowAssumption
  <1>4. \A q \in 1 .. Len(Stream) : Stream[q] \in Nat
    BY <1>1, <1>2, ElementOfSeq
  <1>5. ASSUME NEW q \in 1 .. Len(Stream)
        PROVE  /\ GroupSize(q) \in Nat \ {0} /\ GroupSize(q) <= HalfWindow
               /\ GroupSize(q) = IF Stream[q] = 0 THEN 1 ELSE Stream[q]
    BY <1>2, <1>3, <1>4 DEF GroupSize, Fragmented
  <1>6. \E s \in SUBSET DOMAIN Stream : IsGrouping(s)
    BY StreamAssumption
  <1>7. Starts \in SUBSET DOMAIN Stream /\ IsGrouping(Starts)
    BY Zenon, <1>6 DEF Starts
  <1> QED
    BY <1>2, <1>3, <1>4, <1>5, <1>7

\* A message goes from its start to the next.
LEMMA StartFacts ==
  ASSUME NEW s \in Starts
  PROVE  /\ s \in 1 .. Len(Stream) /\ GroupSize(s) \in Nat \ {0}
         /\ Boundary(s + GroupSize(s)) /\ s + GroupSize(s) <= Len(Stream) + 1
         /\ \A j \in s .. s + GroupSize(s) - 1 :
              /\ j \in 1 .. Len(Stream) /\ Stream[j] = Stream[s] /\ GroupSize(j) = GroupSize(s)
              /\ j \in Starts => j = s
  <1>1. s \in 1 .. Len(Stream) /\ GroupSize(s) \in Nat \ {0} /\ Len(Stream) \in Nat \ {0}
    BY StreamFacts
  <1>2. /\ Boundary(s + GroupSize(s))
        /\ \A j \in s .. s + GroupSize(s) - 1 : Stream[j] = Stream[s] /\ (j \in Starts => j = s)
    BY StreamFacts DEF IsGrouping, Boundary
  <1>3. s + GroupSize(s) <= Len(Stream) + 1
    BY <1>1, <1>2, StreamFacts DEF Boundary
  <1>4. \A j \in s .. s + GroupSize(s) - 1 : j \in 1 .. Len(Stream)
    BY <1>1, <1>3
  <1>5. \A j \in s .. s + GroupSize(s) - 1 : GroupSize(j) = GroupSize(s)
    BY <1>1, <1>2, <1>4, StreamFacts
  <1> QED
    BY <1>1, <1>2, <1>3, <1>4, <1>5

\* A packet belongs to one message.
LEMMA OneStart ==
  ASSUME NEW s \in Starts, NEW t \in Starts, NEW q \in Nat,
         s <= q, q < s + GroupSize(s), t <= q, q < t + GroupSize(t)
  PROVE  s = t
  <1>1. s \in Nat /\ t \in Nat /\ GroupSize(s) \in Nat /\ GroupSize(t) \in Nat
    BY StartFacts
  <1>2. CASE s <= t
    <2>1. t \in s .. s + GroupSize(s) - 1
      BY <1>1, <1>2
    <2> QED
      BY <2>1, StartFacts
  <1>3. CASE t <= s
    <2>1. s \in t .. t + GroupSize(t) - 1
      BY <1>1, <1>3
    <2> QED
      BY <2>1, StartFacts
  <1> QED
    BY <1>1, <1>2, <1>3

\* Every packet belongs to a message.
LEMMA StartOfFacts ==
  ASSUME NEW q \in 1 .. Len(Stream)
  PROVE  /\ StartOf(q) \in Starts /\ StartOf(q) \in Nat /\ StartOf(q) <= q
         /\ q < StartOf(q) + GroupSize(q) /\ GroupSize(StartOf(q)) = GroupSize(q)
         /\ Stream[StartOf(q)] = Stream[q]
  <1>1. q \in Nat /\ Len(Stream) \in Nat
    BY StreamFacts
  <1> DEFINE T == {s \in Starts : s <= q}
  <1>2. T \in SUBSET (0 .. q)
    <2>1. \A s \in Starts : s \in Nat
      BY StartFacts
    <2> QED
      BY <1>1, <2>1
  <1>3. 1 \in T
    BY <1>1, StreamFacts DEF IsGrouping
  <1>4. PICK s \in T : \A y \in T : s >= y
    BY <1>1, <1>2, <1>3, Greatest
  <1>5. s \in Starts /\ s <= q /\ s \in Nat /\ GroupSize(s) \in Nat
    BY <1>4, StartFacts
  <1>6. q < s + GroupSize(s)
    <2>1. SUFFICES ASSUME s + GroupSize(s) <= q
                   PROVE  FALSE
      BY <1>1, <1>5
    <2>2. s + GroupSize(s) \in Starts
      BY <1>1, <1>5, <2>1, StartFacts DEF Boundary
    <2>3. s + GroupSize(s) \in T
      BY <2>1, <2>2
    <2>4. s >= s + GroupSize(s)
      BY <1>4, <2>3
    <2> QED
      BY <1>5, <2>4, StartFacts
  <1>7. StartOf(q) \in Starts /\ StartOf(q) <= q /\ q < StartOf(q) + GroupSize(StartOf(q))
    BY Zenon, <1>5, <1>6 DEF StartOf
  <1>8. StartOf(q) \in Nat /\ GroupSize(StartOf(q)) \in Nat
    BY <1>7, StartFacts
  <1>9. q \in StartOf(q) .. StartOf(q) + GroupSize(StartOf(q)) - 1
    BY <1>1, <1>7, <1>8
  <1>10. GroupSize(StartOf(q)) = GroupSize(q) /\ Stream[StartOf(q)] = Stream[q]
    BY <1>7, <1>9, StartFacts
  <1> QED
    BY <1>7, <1>8, <1>10

\* A packet at which a message starts is the first of its own, and one at which none does
\* belongs to the same message as the packet before.
LEMMA StartOfNext ==
  ASSUME NEW q \in 1 .. Len(Stream)
  PROVE  /\ q \in Starts => StartOf(q) = q
         /\ (q \notin Starts /\ q > 1) => StartOf(q - 1) = StartOf(q)
  <1>1. q \in Nat /\ Len(Stream) \in Nat
    BY StreamFacts
  <1>2. ASSUME q \in Starts
        PROVE  StartOf(q) = q
    <2>1. q <= q /\ q < q + GroupSize(q)
      BY <1>1, <1>2, StartFacts
    <2>2. StartOf(q) \in Starts /\ StartOf(q) <= q /\ q < StartOf(q) + GroupSize(StartOf(q))
      BY StartOfFacts
    <2> QED
      BY <1>1, <1>2, <2>1, <2>2, OneStart
  <1>3. ASSUME q \notin Starts, q > 1
        PROVE  StartOf(q - 1) = StartOf(q)
    <2>1. q - 1 \in 1 .. Len(Stream) /\ q - 1 \in Nat
      BY <1>1, <1>3
    <2>2. /\ StartOf(q) \in Starts /\ StartOf(q) \in Nat /\ StartOf(q) <= q
          /\ q < StartOf(q) + GroupSize(StartOf(q)) /\ StartOf(q) # q
      BY <1>3, StartOfFacts
    <2>3. GroupSize(StartOf(q)) \in Nat
      BY <2>2, StartFacts
    <2>4. StartOf(q) <= q - 1 /\ q - 1 < StartOf(q) + GroupSize(StartOf(q))
      BY <1>1, <2>2, <2>3
    <2>5. /\ StartOf(q - 1) \in Starts /\ StartOf(q - 1) <= q - 1
          /\ q - 1 < StartOf(q - 1) + GroupSize(StartOf(q - 1))
      BY <2>1, StartOfFacts
    <2> QED
      BY <2>1, <2>2, <2>4, <2>5, OneStart
  <1> QED
    BY <1>2, <1>3

\* Where a message ends the next one starts.
LEMMA EndFacts ==
  ASSUME NEW q \in 1 .. Len(Stream)
  PROVE  Boundary(q + 1) <=> q + 1 = StartOf(q) + GroupSize(q)
  <1> DEFINE s == StartOf(q)
             g == GroupSize(q)
  <1>1. q \in Nat /\ Len(Stream) \in Nat /\ g \in Nat
    BY StreamFacts
  <1>2. s \in Starts /\ s \in Nat /\ s <= q /\ q < s + g /\ GroupSize(s) = g
    BY StartOfFacts
  <1>3. Boundary(s + g) /\ s + g <= Len(Stream) + 1 /\ \A j \in s .. s + g - 1 : j \in Starts => j = s
    BY <1>2, StartFacts
  <1> HIDE DEF s, g
  <1>4. ASSUME Boundary(q + 1), q + 1 # s + g
        PROVE  FALSE
    <2>1. q + 1 < s + g
      BY <1>1, <1>2, <1>4
    <2>2. q + 1 \in Starts
      BY <1>1, <1>2, <1>3, <1>4, <2>1 DEF Boundary
    <2>3. q + 1 \in s .. s + g - 1
      BY <1>1, <1>2, <2>1
    <2>4. q + 1 = s
      BY <1>3, <2>2, <2>3
    <2> QED
      BY <1>1, <1>2, <2>4
  <1>5. q + 1 = s + g => Boundary(q + 1)
    BY <1>3
  <1> QED
    BY <1>4, <1>5 DEF s, g

-----------------------------------------------------------------------------
(* The loop over the slots *)

\* The slots are aligned to e, where a message starts.
SlotsAt(slots, e) == AlignedTo(slots, e) /\ e \in Nat /\ e >= First /\ Pos(e) \in Starts

\* A slot that the loop reaches holds the packet it is for.
LEMMA UsableFacts ==
  ASSUME NEW slots, NEW e, SlotsAt(slots, e), NEW k \in Usable(slots)
  PROVE  /\ k \in 1 .. Len(slots) /\ Len(slots) \in Nat /\ Pos(e) + k - 1 \in 1 .. Len(Stream)
         /\ slots[k].ack = e + k - 1 /\ e + k - 1 \in Numbers
         /\ slots[k].frag = Stream[Pos(e) + k - 1] /\ Size(slots[k]) = GroupSize(Pos(e) + k - 1)
         /\ \A j \in 1 .. k : j \in Usable(slots)
  <1>1. e \in Nat /\ e >= First /\ First \in Nat /\ Len(Stream) \in Nat
    BY StreamFacts DEF SlotsAt
  <1>2. Len(slots) \in Nat /\ DOMAIN slots = 1 .. Len(slots)
    BY LenProperties DEF SlotsAt, AlignedTo
  <1>3. k \in 1 .. Len(slots) /\ \A j \in 1 .. k : slots[j].ack # 0 /\ slots[j].frag <= Len(slots)
    BY <1>2 DEF Usable
  <1>4. slots[k].ack # 0
    BY <1>2, <1>3
  <1>5. slots[k].ack = e + k - 1 /\ e + k - 1 \in Numbers /\ slots[k].frag = FragCountOf(e + k - 1)
    BY <1>2, <1>3, <1>4 DEF SlotsAt, AlignedTo
  <1>6. Pos(e) + k - 1 = (e + k - 1) - First + 1 /\ Pos(e) + k - 1 \in 1 .. Len(Stream)
    BY <1>1, <1>2, <1>3, <1>5 DEF Pos, Numbers, LastNumber
  <1>7. slots[k].frag = Stream[Pos(e) + k - 1]
    BY <1>5, <1>6 DEF FragCountOf
  <1>8. Size(slots[k]) = GroupSize(Pos(e) + k - 1)
    BY <1>6, <1>7, StreamFacts DEF Size
  <1>9. \A j \in 1 .. k : j \in Usable(slots)
    <2> TAKE j \in 1 .. k
    <2>1. j \in DOMAIN slots /\ \A m \in 1 .. j : m \in 1 .. k
      BY <1>2, <1>3
    <2> QED
      BY Zenon, <1>3, <2>1 DEF Usable
  <1> QED
    BY <1>2, <1>3, <1>5, <1>6, <1>7, <1>8, <1>9

\* What "frags" is after a slot, given what it was before
FragsAfter(slots, before, k) ==
    IF slots[k].frag = 0 THEN before
    ELSE IF before + 1 = slots[k].frag THEN 0
    ELSE before + 1

\* The recursion of Pending has a solution.
LEMMA PendingEquation ==
  ASSUME NEW slots, Len(slots) \in Nat
  PROVE  \A k \in 0 .. Len(slots) :
           Pending(slots)[k] = IF k = 0 THEN 0 ELSE FragsAfter(slots, Pending(slots)[k - 1], k)
  <1> DEFINE n == Len(slots)
             IsUpTo(g, m) == g = [k \in 0 .. m |-> IF k = 0 THEN 0 ELSE FragsAfter(slots, g[k - 1], k)]
             Without == {m \in 0 .. n : ~ \E g : IsUpTo(g, m)}
  <1>1. Without = {}
    <2>1. SUFFICES ASSUME Without # {}
                   PROVE  FALSE
      OBVIOUS
    <2>2. Without \in SUBSET Nat
      OBVIOUS
    <2>3. PICK m \in Without : \A y \in Without : m <= y
      BY <2>1, <2>2, Least
    <2>4. m \in 0 .. n /\ ~ \E g : IsUpTo(g, m)
      BY <2>3
    <2>5. m # 0
      <3>1. IsUpTo([k \in 0 .. 0 |-> 0], 0)
        OBVIOUS
      <3> QED
        BY <2>4, <3>1
    <2>6. m - 1 \in 0 .. n /\ m - 1 \notin Without
      BY <2>3, <2>4, <2>5
    <2>7. PICK g : IsUpTo(g, m - 1)
      BY <2>6
    <2> DEFINE h == [k \in 0 .. m |-> IF k = m THEN FragsAfter(slots, g[m - 1], m) ELSE g[k]]
    <2>8. ASSUME NEW k \in 0 .. m
          PROVE  h[k] = IF k = 0 THEN 0 ELSE FragsAfter(slots, h[k - 1], k)
      <3>1. CASE k = m
        <4>1. m - 1 \in 0 .. m /\ m - 1 # m
          BY <2>4, <2>5
        <4>2. h[m - 1] = g[m - 1] /\ h[m] = FragsAfter(slots, g[m - 1], m)
          BY <4>1, <3>1
        <4> QED
          BY <2>5, <3>1, <4>2
      <3>2. CASE k # m
        <4>1. k \in 0 .. m - 1 /\ (k # 0 => k - 1 \in 0 .. m /\ k - 1 # m)
          BY <2>4, <3>2
        <4>2. h[k] = g[k] /\ (k # 0 => h[k - 1] = g[k - 1])
          BY <3>2, <4>1
        <4>3. g[k] = IF k = 0 THEN 0 ELSE FragsAfter(slots, g[k - 1], k)
          BY <2>7, <4>1
        <4> QED
          BY Zenon, <4>2, <4>3
      <3> QED
        BY <3>1, <3>2
    <2>9. IsUpTo(h, m)
      <3>1. h = [k \in 0 .. m |-> h[k]]
        OBVIOUS
      <3> HIDE DEF h
      <3> QED
        BY <2>8, <3>1
    <2> QED
      BY <2>4, <2>9
  <1>2. n \in 0 .. n /\ n \notin Without
    BY <1>1
  <1>3. \E g : IsUpTo(g, n)
    BY <1>2
  <1>4. Pending(slots) = CHOOSE g : IsUpTo(g, n)
    BY DEF Pending, FragsAfter
  <1>5. IsUpTo(Pending(slots), n)
    BY Zenon, <1>3, <1>4
  <1> QED
    BY <1>5

\* How far into its message packet q is, 0 at the end of it and where nothing is pending
PendingAt(q) ==
    IF Stream[q] = 0 \/ q + 1 = StartOf(q) + GroupSize(q) THEN 0 ELSE q - StartOf(q) + 1

\* "frags" counts the packets of the message that is not complete.
LEMMA PendingFacts ==
  ASSUME NEW slots, NEW e, SlotsAt(slots, e), NEW k \in Usable(slots)
  PROVE  Pending(slots)[k] = PendingAt(Pos(e) + k - 1)
  <1> DEFINE n == Len(slots)
             P(j) == Pos(e) + j - 1
             Wrong == {j \in Usable(slots) : Pending(slots)[j] # PendingAt(P(j))}
  <1>1. SUFFICES ASSUME Wrong # {}
                 PROVE  FALSE
    BY Zenon
  <1>2. n \in Nat /\ Wrong \in SUBSET Nat
    BY UsableFacts
  <1>3. PICK j \in Wrong : \A y \in Wrong : j <= y
    BY <1>1, <1>2, Least
  <1>4. j \in Usable(slots) /\ Pending(slots)[j] # PendingAt(P(j))
    BY <1>3
  <1>5. /\ j \in 1 .. n /\ P(j) \in 1 .. Len(Stream) /\ slots[j].frag = Stream[P(j)]
        /\ \A m \in 1 .. j : m \in Usable(slots)
    BY <1>4, UsableFacts
  <1>6. Pos(e) \in Starts /\ Pos(e) \in Nat /\ Pos(e) >= 1
    BY StartFacts DEF SlotsAt
  <1>7. Pending(slots)[j] = FragsAfter(slots, Pending(slots)[j - 1], j)
    <2>1. j \in 0 .. n /\ j # 0
      BY <1>2, <1>5
    <2> QED
      BY <1>2, <2>1, PendingEquation
  <1>8. P(j) \in Starts => Pending(slots)[j - 1] = 0
    <2>1. SUFFICES ASSUME P(j) \in Starts
                   PROVE  Pending(slots)[j - 1] = 0
      OBVIOUS
    <2>2. CASE j = 1
      <3>1. 0 \in 0 .. n /\ j - 1 = 0
        BY <1>2, <2>2
      <3> QED
        BY <1>2, <3>1, PendingEquation
    <2>3. CASE j # 1
      <3>1. j - 1 \in Usable(slots) /\ j - 1 \notin Wrong
        BY <1>2, <1>3, <1>5, <2>3
      <3>2. Pending(slots)[j - 1] = PendingAt(P(j - 1))
        BY <3>1
      <3>3. P(j - 1) \in 1 .. Len(Stream) /\ P(j - 1) + 1 = P(j)
        BY <1>5, <1>6, <3>1, UsableFacts
      <3>4. P(j - 1) + 1 = StartOf(P(j - 1)) + GroupSize(P(j - 1))
        BY <2>1, <3>3, EndFacts DEF Boundary
      <3> QED
        BY <3>2, <3>4 DEF PendingAt
    <2> QED
      BY <2>2, <2>3
  <1>9. P(j) \notin Starts => Pending(slots)[j - 1] = P(j) - StartOf(P(j)) /\ Stream[P(j)] # 0
    <2>1. SUFFICES ASSUME P(j) \notin Starts
                   PROVE  Pending(slots)[j - 1] = P(j) - StartOf(P(j)) /\ Stream[P(j)] # 0
      OBVIOUS
    <2>2. j # 1
      BY <1>6, <2>1
    <2>3. j - 1 \in Usable(slots) /\ j - 1 \notin Wrong
      BY <1>2, <1>3, <1>5, <2>2
    <2>4. Pending(slots)[j - 1] = PendingAt(P(j - 1))
      BY <2>3
    <2>5. P(j - 1) \in 1 .. Len(Stream) /\ P(j - 1) + 1 = P(j) /\ P(j) - 1 = P(j - 1) /\ P(j) > 1
      BY <1>5, <1>6, <2>3, UsableFacts
    <2>6. StartOf(P(j - 1)) = StartOf(P(j))
      BY <1>5, <2>1, <2>5, StartOfNext
    <2> DEFINE s == StartOf(P(j))
    <2>7. /\ s \in Starts /\ s \in Nat /\ s <= P(j) /\ P(j) < s + GroupSize(P(j))
          /\ GroupSize(s) = GroupSize(P(j)) /\ Stream[s] = Stream[P(j)]
      BY <1>5, StartOfFacts
    <2>8. /\ s <= P(j - 1) /\ GroupSize(s) = GroupSize(P(j - 1)) /\ Stream[s] = Stream[P(j - 1)]
      BY <2>5, <2>6, StartOfFacts
    <2>9. GroupSize(P(j)) \in Nat /\ Stream[P(j)] \in Nat
          /\ GroupSize(P(j)) = IF Stream[P(j)] = 0 THEN 1 ELSE Stream[P(j)]
      BY <1>5, StreamFacts
    <2> HIDE DEF s, P
    <2>10. P(j) \in Nat /\ P(j - 1) \in Nat
      BY <1>5, <2>5, StreamFacts
    <2>11. Stream[P(j)] # 0
      <3>1. P(j - 1) = P(j) - 1 /\ s <= P(j - 1) /\ s \in Nat /\ P(j) < s + GroupSize(P(j))
        BY <2>5, <2>7, <2>8
      <3>2. GroupSize(P(j)) # 1
        BY <2>9, <2>10, <3>1
      <3> QED
        BY <2>9, <3>2
    <2>12. ~(P(j - 1) + 1 = s + GroupSize(P(j - 1)))
      BY <2>5, <2>7, <2>8, <2>9, <2>10
    <2>13. PendingAt(P(j - 1)) = P(j - 1) - s + 1
      BY <2>6, <2>7, <2>8, <2>11, <2>12 DEF PendingAt, s
    <2>14. P(j - 1) - s + 1 = P(j) - s
      BY <2>5, <2>7, <2>10
    <2> QED
      BY <2>4, <2>11, <2>13, <2>14 DEF s
  <1> DEFINE q == P(j)
             s == StartOf(q)
  <1>10. /\ s \in Starts /\ s \in Nat /\ s <= q /\ q < s + GroupSize(q) /\ q \in Nat
         /\ GroupSize(q) \in Nat /\ Stream[q] \in Nat
         /\ GroupSize(q) = IF Stream[q] = 0 THEN 1 ELSE Stream[q]
    <2>1. q \in 1 .. Len(Stream)
      BY <1>5
    <2> HIDE DEF q, s
    <2>2. q \in Nat /\ GroupSize(q) \in Nat /\ Stream[q] \in Nat
      BY <2>1, StreamFacts
    <2>3. GroupSize(q) = IF Stream[q] = 0 THEN 1 ELSE Stream[q]
      BY <2>1, StreamFacts
    <2>4. StartOf(q) \in Starts /\ StartOf(q) \in Nat /\ StartOf(q) <= q /\ q < StartOf(q) + GroupSize(q)
      BY <2>1, StartOfFacts
    <2> QED
      BY <2>2, <2>3, <2>4 DEF s
  <1>11. q \in Starts => s = q
    BY <1>5, StartOfNext
  <1>12. PendingAt(q) = IF Stream[q] = 0 \/ q + 1 = s + GroupSize(q) THEN 0 ELSE q - s + 1
    BY DEF PendingAt
  <1>13. Pending(slots)[j] = IF Stream[q] = 0 THEN Pending(slots)[j - 1]
                             ELSE IF Pending(slots)[j - 1] + 1 = Stream[q] THEN 0
                             ELSE Pending(slots)[j - 1] + 1
    BY <1>5, <1>7 DEF FragsAfter
  <1>14. Pending(slots)[j] # PendingAt(q)
    BY <1>4
  <1>15. q \in Starts => Pending(slots)[j - 1] = 0
    BY <1>8
  <1>16. q \notin Starts => Pending(slots)[j - 1] = q - s /\ Stream[q] # 0
    BY <1>9
  <1> HIDE DEF q, s, P, Wrong
  <1>17. CASE q \in Starts
    BY <1>10, <1>11, <1>12, <1>13, <1>14, <1>15, <1>17
  <1>18. CASE q \notin Starts
    BY <1>10, <1>12, <1>13, <1>14, <1>16, <1>18
  <1> QED
    BY <1>17, <1>18

\* A message is completed at the slots of its last packets, as far as the loop comes.
LEMMA CompletedFacts ==
  ASSUME NEW slots, NEW e, SlotsAt(slots, e)
  PROVE  Completed(slots) = {k \in Usable(slots) : Boundary(Pos(e) + k)}
  <1>1. ASSUME NEW k \in Usable(slots)
        PROVE  (slots[k].frag = 0 \/ Pending(slots)[k] = 0) <=> Boundary(Pos(e) + k)
    <2> DEFINE q == Pos(e) + k - 1
               s == StartOf(q)
    <2>1. q \in 1 .. Len(Stream) /\ slots[k].frag = Stream[q] /\ Pending(slots)[k] = PendingAt(q)
      BY UsableFacts, PendingFacts
    <2>2. /\ s \in Nat /\ s <= q /\ q < s + GroupSize(q) /\ q \in Nat
          /\ GroupSize(q) \in Nat /\ Stream[q] \in Nat
          /\ GroupSize(q) = IF Stream[q] = 0 THEN 1 ELSE Stream[q]
      <3>1. s \in Nat /\ s <= q /\ q < s + GroupSize(q)
        BY Zenon, <2>1, StartOfFacts
      <3>2. /\ GroupSize(q) \in Nat \ {0} /\ Stream[q] \in Nat
            /\ GroupSize(q) = IF Stream[q] = 0 THEN 1 ELSE Stream[q]
        BY Zenon, <2>1, StreamFacts
      <3> HIDE DEF q, s
      <3>3. q \in Nat
        BY <2>1
      <3> QED
        BY <3>1, <3>2, <3>3
    <2>3. Boundary(q + 1) <=> q + 1 = s + GroupSize(q)
      BY <2>1, EndFacts
    <2>4. q + 1 = Pos(e) + k
      <3>1. Pos(e) \in Nat /\ k \in Nat
        BY StartFacts, UsableFacts DEF SlotsAt
      <3> QED
        BY <3>1
    <2>5. PendingAt(q) = IF Stream[q] = 0 \/ q + 1 = s + GroupSize(q) THEN 0 ELSE q - s + 1
      BY DEF PendingAt
    <2> HIDE DEF q, s
    <2>6. (Stream[q] = 0 \/ PendingAt(q) = 0) <=> q + 1 = s + GroupSize(q)
      BY <2>2, <2>5
    <2> QED
      BY <2>1, <2>3, <2>4, <2>6
  <1> QED
    BY Zenon, <1>1 DEF Completed

\* The slot before the message that is completed at slot k, which is where another one was
LEMMA BeforeFacts ==
  ASSUME NEW slots, NEW e, SlotsAt(slots, e), NEW k \in Completed(slots)
  PROVE  /\ k \in 1 .. Len(slots) /\ k \in Nat /\ k \in Usable(slots)
         /\ Size(slots[k]) \in Nat \ {0} /\ k - Size(slots[k]) \in Nat
         /\ k - Size(slots[k]) = 0 \/ k - Size(slots[k]) \in Completed(slots)
         /\ Pos(e) + (k - Size(slots[k])) \in Starts
         /\ GroupSize(Pos(e) + (k - Size(slots[k]))) = Size(slots[k])
         /\ \A d \in Completed(slots) : d < k => d <= k - Size(slots[k])
  <1> DEFINE q == Pos(e) + k - 1
             s == StartOf(q)
             g == Size(slots[k])
             b == k - g
             base == Pos(e)
  <1>1. k \in Usable(slots) /\ Boundary(base + k)
    BY CompletedFacts
  <1>2. k \in 1 .. Len(slots) /\ Len(slots) \in Nat /\ q \in 1 .. Len(Stream) /\ g = GroupSize(q)
        /\ \A j \in 1 .. k : j \in Usable(slots)
    BY <1>1, UsableFacts
  <1>3. base \in Nat /\ base >= 1 /\ base \in Starts
    BY StartFacts DEF SlotsAt
  <1>4. /\ s \in Starts /\ s \in Nat /\ s <= q /\ q < s + g /\ GroupSize(s) = g /\ q \in Nat
        /\ g \in Nat \ {0} /\ k \in Nat /\ k >= 1 /\ Len(Stream) \in Nat
    BY <1>2, StartOfFacts, StreamFacts
  <1>5. q + 1 = base + k
    BY <1>3, <1>4
  <1>6. q + 1 = s + g
    BY <1>1, <1>2, <1>5, EndFacts
  <1>7. \A j \in s .. s + g - 1 : j \in Starts => j = s
    BY <1>4, StartFacts
  <1> HIDE DEF q, s, g, base
  <1>8. s >= base
    <2>1. SUFFICES ASSUME s < base
                   PROVE  FALSE
      BY <1>3, <1>4
    <2>2. base \in s .. s + g - 1
      BY <1>3, <1>4, <1>5, <1>6, <2>1
    <2> QED
      BY <1>3, <1>4, <1>7, <2>1, <2>2
  <1>9. b \in Nat /\ base + b = s /\ b < k
    BY <1>3, <1>4, <1>5, <1>6, <1>8
  <1>10. b = 0 \/ b \in Completed(slots)
    <2>1. SUFFICES ASSUME b # 0
                   PROVE  b \in Completed(slots)
      OBVIOUS
    <2>2. b \in 1 .. k
      BY <1>4, <1>9, <2>1
    <2>3. b \in Usable(slots) /\ Boundary(base + b)
      BY <1>2, <1>4, <1>9, <2>2 DEF Boundary
    <2> QED
      BY <2>3, CompletedFacts DEF base
  <1>11. ASSUME NEW d \in Completed(slots), d < k
         PROVE  d <= b
    <2>1. d \in Usable(slots) /\ Boundary(base + d)
      BY CompletedFacts DEF base
    <2>2. d \in Nat
      BY <2>1, UsableFacts
    <2>3. SUFFICES ASSUME b < d
                   PROVE  FALSE
      BY <1>9, <2>2
    <2>4. base + d \in s .. s + g - 1 /\ base + d # s /\ base + d # Len(Stream) + 1
      <3>1. q <= Len(Stream)
        BY <1>2, <1>4
      <3> QED
        BY <1>3, <1>4, <1>5, <1>6, <1>9, <1>11, <2>2, <2>3, <3>1
    <2>5. base + d \in Starts
      BY <2>1, <2>4 DEF Boundary
    <2> QED
      BY <1>7, <2>4, <2>5
  <1> QED
    BY <1>1, <1>2, <1>4, <1>9, <1>10, <1>11 DEF g, base

\* The recursion of SumSize has a solution.
LEMMA SumEquation ==
  ASSUME NEW slots, NEW done, Len(slots) \in Nat
  PROVE  \E sum : /\ SumSize(slots, done) = sum[Len(slots)]
                  /\ \A k \in 0 .. Len(slots) :
                       sum[k] = IF k = 0 THEN 0 ELSE sum[k - 1] + IF k \in done THEN Size(slots[k]) ELSE 0
  <1> DEFINE n == Len(slots)
             Add(k) == IF k \in done THEN Size(slots[k]) ELSE 0
             IsUpTo(g, m) == g = [k \in 0 .. m |-> IF k = 0 THEN 0 ELSE g[k - 1] + Add(k)]
             Without == {m \in 0 .. n : ~ \E g : IsUpTo(g, m)}
  <1>4. SumSize(slots, done) = (CHOOSE g : IsUpTo(g, n))[n]
    BY DEF SumSize
  <1> HIDE DEF Add
  <1>1. Without = {}
    <2>1. SUFFICES ASSUME Without # {}
                   PROVE  FALSE
      OBVIOUS
    <2>2. Without \in SUBSET Nat
      OBVIOUS
    <2>3. PICK m \in Without : \A y \in Without : m <= y
      BY <2>1, <2>2, Least
    <2>4. m \in 0 .. n /\ ~ \E g : IsUpTo(g, m)
      BY <2>3
    <2>5. m # 0
      <3>1. IsUpTo([k \in 0 .. 0 |-> 0], 0)
        OBVIOUS
      <3> QED
        BY <2>4, <3>1
    <2>6. m - 1 \in 0 .. n /\ m - 1 \notin Without
      <3> HIDE DEF Without, IsUpTo
      <3>1. m - 1 \in 0 .. n /\ ~(m <= m - 1)
        BY <2>4, <2>5
      <3> QED
        BY Zenon, <2>3, <3>1
    <2>7. PICK g : IsUpTo(g, m - 1)
      BY <2>6
    <2> DEFINE h == [k \in 0 .. m |-> IF k = m THEN g[m - 1] + Add(m) ELSE g[k]]
    <2>8. ASSUME NEW k \in 0 .. m
          PROVE  h[k] = IF k = 0 THEN 0 ELSE h[k - 1] + Add(k)
      <3>1. CASE k = m
        <4>1. m - 1 \in 0 .. m /\ m - 1 # m
          BY <2>4, <2>5
        <4>2. h[m - 1] = g[m - 1] /\ h[m] = g[m - 1] + Add(m)
          BY <4>1, <3>1
        <4> QED
          BY <2>5, <3>1, <4>2
      <3>2. CASE k # m
        <4>1. k \in 0 .. m - 1 /\ (k # 0 => k - 1 \in 0 .. m /\ k - 1 # m)
          BY <2>4, <3>2
        <4>2. h[k] = g[k] /\ (k # 0 => h[k - 1] = g[k - 1])
          BY <3>2, <4>1
        <4>3. g[k] = IF k = 0 THEN 0 ELSE g[k - 1] + Add(k)
          BY <2>7, <4>1
        <4> QED
          BY Zenon, <4>2, <4>3
      <3> QED
        BY <3>1, <3>2
    <2>9. IsUpTo(h, m)
      <3>1. h = [k \in 0 .. m |-> h[k]]
        OBVIOUS
      <3> HIDE DEF h
      <3> QED
        BY <2>8, <3>1
    <2> QED
      BY <2>4, <2>9
  <1>2. n \in 0 .. n /\ n \notin Without
    BY <1>1
  <1>3. \E g : IsUpTo(g, n)
    BY <1>2
  <1> DEFINE sum == CHOOSE g : IsUpTo(g, n)
  <1>5. IsUpTo(sum, n)
    BY Zenon, <1>3
  <1> HIDE DEF sum
  <1>6. \A k \in 0 .. n : sum[k] = IF k = 0 THEN 0 ELSE sum[k - 1] + Add(k)
    BY <1>5
  <1>7. SumSize(slots, done) = sum[n]
    BY <1>4 DEF sum
  <1> QED
    BY <1>6, <1>7 DEF Add

\* "diff" is the slot at which the last message is completed, 0 without one.
LEMMA SumFacts ==
  ASSUME NEW slots, NEW e, SlotsAt(slots, e)
  PROVE  /\ SumSize(slots, Completed(slots)) \in Nat
         /\ SumSize(slots, Completed(slots)) = 0 \/ SumSize(slots, Completed(slots)) \in Completed(slots)
         /\ \A d \in Completed(slots) : d <= SumSize(slots, Completed(slots))
  <1> DEFINE n == Len(slots)
             D == Completed(slots)
             Right(x, k) == x \in Nat /\ x <= k /\ (x = 0 \/ x \in D) /\ \A d \in D : d <= k => d <= x
  <1>1. n \in Nat
    BY LenProperties DEF SlotsAt, AlignedTo
  <1>2. \A k \in D : /\ k \in 1 .. n /\ k \in Nat /\ Size(slots[k]) \in Nat \ {0} /\ k - Size(slots[k]) \in Nat
                     /\ k - Size(slots[k]) = 0 \/ k - Size(slots[k]) \in D
                     /\ \A d \in D : d < k => d <= k - Size(slots[k])
    BY BeforeFacts
  <1> HIDE DEF D
  <1>3. PICK sum : /\ SumSize(slots, D) = sum[n]
                   /\ \A k \in 0 .. n :
                        sum[k] = IF k = 0 THEN 0 ELSE sum[k - 1] + IF k \in D THEN Size(slots[k]) ELSE 0
    BY <1>1, SumEquation
  <1> DEFINE Wrong == {k \in 0 .. n : ~Right(sum[k], k)}
  <1>4. Wrong = {}
    <2>1. SUFFICES ASSUME Wrong # {}
                   PROVE  FALSE
      OBVIOUS
    <2>2. Wrong \in SUBSET Nat
      OBVIOUS
    <2>3. PICK k \in Wrong : \A y \in Wrong : k <= y
      BY <2>1, <2>2, Least
    <2>4. k \in 0 .. n /\ k \in Nat /\ ~Right(sum[k], k)
      BY <1>1, <2>3
    <2>5. k # 0
      <3>1. SUFFICES ASSUME k = 0
                     PROVE  Right(sum[k], k)
        BY <2>4
      <3>2. sum[k] = 0
        BY <1>3, <2>4, <3>1
      <3>3. \A d \in D : ~(d <= k)
        BY <1>2, <3>1
      <3> QED
        BY <3>1, <3>2, <3>3
    <2>6. k - 1 \in 0 .. n /\ k - 1 \notin Wrong
      BY <1>1, <2>3, <2>4, <2>5
    <2>7. Right(sum[k - 1], k - 1)
      BY <2>6
    <2>8. sum[k] = sum[k - 1] + IF k \in D THEN Size(slots[k]) ELSE 0
      BY <1>3, <2>4, <2>5
    <2>9. CASE k \notin D
      <3>1. sum[k] = sum[k - 1]
        BY <2>7, <2>8, <2>9
      <3>2. \A d \in D : d <= k => d <= k - 1
        BY <1>2, <2>4, <2>9
      <3> QED
        BY <2>4, <2>7, <3>1, <3>2
    <2>10. CASE k \in D
      <3> DEFINE b == k - Size(slots[k])
      <3>1. b \in Nat /\ b <= k - 1 /\ (b = 0 \/ b \in D) /\ (\A d \in D : d < k => d <= b)
            /\ Size(slots[k]) \in Nat
        BY <1>2, <2>4, <2>10
      <3>2. sum[k - 1] = b
        <4>1. b <= sum[k - 1]
          BY <2>7, <3>1
        <4>2. sum[k - 1] <= b
          BY <2>4, <2>7, <3>1
        <4> QED
          BY <2>7, <3>1, <4>1, <4>2
      <3>3. sum[k] = k
        BY <2>4, <2>8, <2>10, <3>1, <3>2
      <3> QED
        BY <2>4, <2>10, <3>3
    <2> QED
      BY <2>9, <2>10
  <1>5. n \in 0 .. n /\ n \notin Wrong
    BY <1>1, <1>4
  <1>6. Right(sum[n], n)
    BY <1>5
  <1>7. \A d \in D : d <= sum[n]
    BY <1>2, <1>6
  <1> QED
    BY <1>3, <1>6, <1>7 DEF D

-----------------------------------------------------------------------------
(* The messages that are passed on *)

\* The elements of D are counted in order.
LEMMA RankFacts ==
  ASSUME NEW n \in Nat, NEW D \in SUBSET (1 .. n)
  PROVE  /\ IsFiniteSet(D) /\ Cardinality(D) \in Nat
         /\ \A k \in D : Cardinality({m \in D : m <= k}) \in 1 .. Cardinality(D)
         /\ \A k, l \in D : k < l => Cardinality({m \in D : m <= k}) < Cardinality({m \in D : m <= l})
         /\ \A j \in 1 .. Cardinality(D) : \E k \in D : Cardinality({m \in D : m <= k}) = j
  <1> DEFINE U(x) == {m \in D : m <= x}
             C(x) == Cardinality(U(x))
  <1>1. IsFiniteSet(D) /\ Cardinality(D) \in Nat
    <2>1. IsFiniteSet(1 .. n)
      BY FS_Interval
    <2> QED
      BY <2>1, FS_Subset, FS_CardinalityType
  <1>2. \A x : U(x) \subseteq D /\ IsFiniteSet(U(x)) /\ C(x) \in Nat /\ C(x) <= Cardinality(D)
    <2> TAKE x
    <2>1. U(x) \subseteq D
      OBVIOUS
    <2> HIDE DEF U
    <2> QED
      BY <1>1, <2>1, FS_Subset, FS_CardinalityType
  <1>3. ASSUME NEW x \in Nat, NEW k \in D, ~(k <= x), NEW y \in Nat, x <= y, k <= y
        PROVE  C(x) < C(y)
    <2>1. U(x) \subseteq U(y) /\ U(x) # U(y)
      <3>1. \A m \in D : m <= x => m <= y
        BY <1>3
      <3>2. U(x) \subseteq U(y)
        BY Zenon, <3>1
      <3>3. k \in U(y) /\ k \notin U(x)
        BY <1>3
      <3> QED
        BY <3>2, <3>3
    <2>2. IsFiniteSet(U(y))
      BY <1>2
    <2> HIDE DEF U
    <2>3. Cardinality(U(x)) <= Cardinality(U(y))
      BY <2>1, <2>2, FS_Subset
    <2>4. Cardinality(U(x)) # Cardinality(U(y))
      BY <2>1, <2>2, FS_Subset
    <2>5. Cardinality(U(x)) \in Nat /\ Cardinality(U(y)) \in Nat
      BY <1>2
    <2> QED
      BY <2>3, <2>4, <2>5
  <1>4. U(0) = {} /\ C(0) = 0 /\ U(n) = D /\ C(n) = Cardinality(D)
    <2>1. \A m \in D : ~(m <= 0) /\ m <= n
      OBVIOUS
    <2>2. U(0) = {} /\ U(n) = D
      BY Zenon, <2>1
    <2> QED
      BY <2>2, FS_EmptySet
  <1>5. ASSUME NEW k \in D
        PROVE  C(k) \in 1 .. Cardinality(D)
    <2>1. k \in Nat /\ 0 \in Nat /\ ~(k <= 0) /\ 0 <= k /\ k <= k
      OBVIOUS
    <2>2. C(0) < C(k)
      BY <1>3, <2>1
    <2>3. C(k) \in Nat /\ C(k) <= Cardinality(D)
      BY <1>2
    <2> HIDE DEF C
    <2> QED
      BY <1>1, <1>4, <2>2, <2>3
  <1>6. ASSUME NEW k \in D, NEW l \in D, k < l
        PROVE  C(k) < C(l)
    <2>1. k \in Nat /\ l \in Nat /\ ~(l <= k) /\ k <= l /\ l <= l
      BY <1>6
    <2> QED
      BY <1>3, <2>1
  <1>7. ASSUME NEW j \in 1 .. Cardinality(D)
        PROVE  \E k \in D : C(k) = j
    <2> DEFINE X == {x \in 0 .. n : C(x) >= j}
    <2> HIDE DEF C
    <2>1. X \in SUBSET Nat
      OBVIOUS
    <2>2. n \in X
      BY <1>1, <1>4
    <2>3. PICK x \in X : \A y \in X : x <= y
      BY <2>1, <2>2, Least
    <2>4. x \in 0 .. n /\ C(x) >= j /\ x # 0
      BY <1>4, <2>3
    <2>5. x - 1 \in 0 .. n /\ ~(C(x - 1) >= j) /\ x - 1 \in Nat
      BY <2>3, <2>4
    <2>6. C(x) \in Nat /\ C(x - 1) \in Nat
      BY <1>2
    <2>7. x \in D /\ U(x) = U(x - 1) \cup {x} /\ x \notin U(x - 1)
      <3>1. \A m \in D : m \in Nat
        OBVIOUS
      <3>2. \A m \in D : m <= x <=> (m <= x - 1 \/ m = x)
        BY <2>4, <3>1
      <3>3. x \in D
        <4>1. SUFFICES ASSUME x \notin D
                       PROVE  U(x) = U(x - 1)
          BY <2>4, <2>5 DEF C
        <4> QED
          BY <3>2, <4>1
      <3>4. x \notin U(x - 1)
        BY <2>4
      <3>5. U(x) = U(x - 1) \cup {x}
        BY <3>2, <3>3
      <3> QED
        BY <3>3, <3>4, <3>5
    <2>8. C(x) = C(x - 1) + 1
      <3>1. IsFiniteSet(U(x - 1))
        BY <1>2
      <3> HIDE DEF U
      <3> QED
        BY <2>7, <3>1, FS_AddElement DEF C
    <2>9. C(x) = j
      BY <1>1, <2>4, <2>5, <2>6, <2>8
    <2> QED
      BY <2>7, <2>9
  <1> QED
    BY <1>1, <1>5, <1>6, <1>7

\* The messages that the loop passes on follow each other from e on.
LEMMA MessagesFacts ==
  ASSUME NEW slots, NEW e, SlotsAt(slots, e)
  PROVE  InOrderFrom(Messages(slots), e, e + SumSize(slots, Completed(slots)))
  <1> DEFINE n == Len(slots)
             D == Completed(slots)
             N == Cardinality(D)
             Rank(k) == Cardinality({m \in D : m <= k})
             Nth(j) == CHOOSE k \in D : Rank(k) = j
             r == SumSize(slots, D)
             out == Messages(slots)
  <1>1. n \in Nat /\ e \in Nat /\ e >= First
    BY LenProperties DEF SlotsAt, AlignedTo
  <1>2. D \in SUBSET (1 .. n)
    BY BeforeFacts
  <1>3. /\ N \in Nat
        /\ \A k \in D : Rank(k) \in 1 .. N
        /\ \A k, l \in D : k < l => Rank(k) < Rank(l)
        /\ \A j \in 1 .. N : \E k \in D : Rank(k) = j
    BY <1>1, <1>2, RankFacts
  <1>4. out = [j \in 1 .. N |-> Message(slots, Nth(j))]
    BY DEF Messages
  <1>5. ASSUME NEW k \in D
        PROVE  /\ k \in Nat /\ Size(slots[k]) \in Nat \ {0} /\ k - Size(slots[k]) \in Nat
               /\ k - Size(slots[k]) = 0 \/ k - Size(slots[k]) \in D
               /\ Pos(e) + (k - Size(slots[k])) \in Starts
               /\ GroupSize(Pos(e) + (k - Size(slots[k]))) = Size(slots[k])
               /\ \A d \in D : d < k => d <= k - Size(slots[k])
    BY BeforeFacts
  <1>6. ASSUME NEW k \in D, NEW j \in 1 .. Size(slots[k])
        PROVE  slots[k - Size(slots[k]) + j].ack = e + (k - Size(slots[k])) + j - 1
    <2>1. k \in Usable(slots) /\ \A l \in 1 .. k : l \in Usable(slots)
      BY BeforeFacts, UsableFacts
    <2>2. k - Size(slots[k]) + j \in 1 .. k
      BY <1>5
    <2>3. slots[k - Size(slots[k]) + j].ack = e + (k - Size(slots[k]) + j) - 1
      BY <2>1, <2>2, UsableFacts
    <2> QED
      BY <1>1, <1>5, <2>2, <2>3
  <1>7. \A d \in D : d <= r
    BY SumFacts
  <1>8. r \in Nat /\ (r = 0 \/ r \in D)
    BY SumFacts
  <1>9. Pos(e) \in Nat /\ Pos(e) = e - First + 1 /\ First \in Nat
    BY <1>1, StreamFacts DEF Pos
  <1> HIDE DEF D, N, Rank, Nth, r
  <1>10. ASSUME NEW j \in 1 .. N
         PROVE  Nth(j) \in D /\ Rank(Nth(j)) = j
    BY Zenon, <1>3 DEF Nth
  <1> DEFINE B(j) == IF j = 1 THEN 0 ELSE Nth(j - 1)
  <1>11. ASSUME NEW j \in 1 .. N
         PROVE  Nth(j) - Size(slots[Nth(j)]) = B(j)
    <2> DEFINE k == Nth(j)
               b == k - Size(slots[k])
    <2>1. k \in D /\ Rank(k) = j /\ j \in Nat
      BY <1>3, <1>10
    <2>2. /\ b \in Nat /\ b < k /\ k \in Nat /\ (b = 0 \/ b \in D) /\ (\A d \in D : d < k => d <= b)
      BY <1>5, <2>1
    <2> HIDE DEF k, b
    <2>3. b \in D => Rank(b) < j /\ Rank(b) \in 1 .. N
      BY <1>3, <2>1, <2>2
    <2>4. CASE j = 1
      <3>1. b = 0
        BY <1>3, <2>2, <2>3, <2>4
      <3> QED
        BY <2>4, <3>1 DEF b, k
    <2>5. CASE j # 1
      <3>1. j - 1 \in 1 .. N
        BY <1>3, <2>5
      <3> DEFINE l == Nth(j - 1)
      <3>2. l \in D /\ Rank(l) = j - 1
        BY <1>10, <3>1
      <3>3. l \in Nat
        BY <1>5, <3>2
      <3> HIDE DEF l
      <3>4. l < k
        <4>1. SUFFICES ASSUME ~(l < k)
                       PROVE  FALSE
          OBVIOUS
        <4>2. l = k \/ k < l
          BY <2>2, <3>3, <4>1
        <4>3. k < l => Rank(k) < Rank(l)
          BY <1>3, <2>1, <3>2
        <4> QED
          BY <2>1, <3>2, <4>2, <4>3
      <3>5. l <= b
        BY <2>2, <3>2, <3>4
      <3>6. l # 0
        BY <1>2, <3>2 DEF D
      <3>7. b \in D
        BY <2>2, <3>3, <3>5, <3>6
      <3>8. ~(l < b)
        <4>1. SUFFICES ASSUME l < b
                       PROVE  FALSE
          OBVIOUS
        <4>2. Rank(l) < Rank(b)
          BY <1>3, <3>2, <3>7, <4>1
        <4>3. Rank(b) < j /\ Rank(b) \in Nat
          BY <1>3, <2>3, <3>7
        <4> QED
          BY <2>1, <3>2, <4>2, <4>3
      <3>9. b = l
        BY <2>2, <3>3, <3>5, <3>8
      <3> QED
        BY <2>5, <3>9 DEF b, k, l
    <2> QED
      BY <2>4, <2>5
  <1>12. ASSUME NEW j \in 1 .. N
         PROVE  /\ B(j) \in Nat /\ out[j] \in Seq(Nat) /\ Pos(e) + B(j) \in Starts
                /\ Len(out[j]) = GroupSize(Pos(e) + B(j)) /\ Len(out[j]) \in Nat \ {0}
                /\ \A i \in 1 .. Len(out[j]) : out[j][i] = e + B(j) + i - 1
                /\ B(j) + Len(out[j]) = Nth(j) /\ Nth(j) \in Nat
    <2> DEFINE k == Nth(j)
               g == Size(slots[k])
    <2>1. k \in D /\ out[j] = Message(slots, k)
      BY <1>4, <1>10
    <2>2. k - g = B(j)
      BY <1>11
    <2>3. /\ k \in Nat /\ g \in Nat \ {0} /\ B(j) \in Nat
          /\ Pos(e) + B(j) \in Starts /\ GroupSize(Pos(e) + B(j)) = g
      BY <1>5, <2>1, <2>2
    <2>4. Message(slots, k) = [i \in 1 .. g |-> slots[k - g + i].ack]
      BY DEF Message
    <2>5. \A i \in 1 .. g : slots[k - g + i].ack = e + B(j) + i - 1
      BY <1>6, <2>1, <2>2
    <2> HIDE DEF k, g, B
    <2>6. \A i \in 1 .. g : e + B(j) + i - 1 \in Nat
      BY <1>1, <2>3
    <2>7. out[j] \in [1 .. g -> Nat] /\ \A i \in 1 .. g : out[j][i] = e + B(j) + i - 1
      BY <2>1, <2>4, <2>5, <2>6
    <2>8. out[j] \in Seq(Nat) /\ Len(out[j]) = g
      BY <2>3, <2>7, FunctionIsSeq
    <2>9. B(j) + g = k
      BY <2>2, <2>3
    <2> QED
      BY <2>3, <2>7, <2>8, <2>9 DEF k
  <1> HIDE DEF out
  <1>13. out \in Seq(Seq(Nat)) /\ Len(out) = N /\ DOMAIN out = 1 .. N
    <2>1. out \in [1 .. N -> Seq(Nat)]
      BY <1>4, <1>12 DEF out
    <2> QED
      BY <1>3, <2>1, FunctionIsSeq
  <1>14. ASSUME NEW j \in 1 .. N + 1
         PROVE  StartNumber(out, j, e) = e + B(j)
    <2>1. CASE j = 1
      BY <1>1, <2>1 DEF StartNumber
    <2>2. CASE j # 1
      <3>1. j - 1 \in 1 .. N
        BY <1>3, <2>2
      <3> DEFINE m == out[j - 1]
      <3>2. /\ Len(m) \in Nat \ {0} /\ B(j - 1) \in Nat /\ B(j - 1) + Len(m) = Nth(j - 1)
            /\ \A i \in 1 .. Len(m) : m[i] = e + B(j - 1) + i - 1
        BY <1>12, <3>1
      <3>3. B(j) = Nth(j - 1)
        BY <2>2
      <3> HIDE DEF m, B
      <3>4. m[Len(m)] = e + B(j - 1) + Len(m) - 1
        BY <3>2
      <3>5. m[Len(m)] + 1 = e + B(j)
        BY <1>1, <3>2, <3>3, <3>4
      <3> QED
        BY <2>2, <3>5 DEF StartNumber, m
    <2> QED
      BY <2>1, <2>2
  <1>15. ASSUME NEW j \in 1 .. N
         PROVE  /\ StartNumber(out, j, e) \in Numbers
                /\ Pos(StartNumber(out, j, e)) = Pos(e) + B(j)
    <2>1. StartNumber(out, j, e) = e + B(j) /\ B(j) \in Nat /\ Pos(e) + B(j) \in Starts
      <3>1. j \in 1 .. N + 1
        BY <1>3
      <3>2. StartNumber(out, j, e) = e + B(j)
        BY Zenon, <1>14, <3>1
      <3>3. B(j) \in Nat /\ Pos(e) + B(j) \in Starts
        BY Zenon, <1>12
      <3> QED
        BY <3>2, <3>3
    <2>2. Pos(e) + B(j) \in 1 .. Len(Stream) /\ Len(Stream) \in Nat
      BY <2>1, StreamFacts
    <2> HIDE DEF B
    <2>3. Pos(e + B(j)) = Pos(e) + B(j)
      BY <1>1, <1>9, <2>1 DEF Pos
    <2>4. e + B(j) \in Numbers
      BY <1>1, <1>9, <2>1, <2>2 DEF Numbers, LastNumber
    <2> QED
      BY <2>1, <2>3, <2>4
  <1>16. e + r = StartNumber(out, N + 1, e)
    <2>1. N + 1 \in 1 .. N + 1
      BY <1>3
    <2>2. StartNumber(out, N + 1, e) = e + B(N + 1)
      BY <1>14, <2>1
    <2>3. CASE N = 0
      <3>1. r \notin D
        BY <1>3, <2>3
      <3> QED
        BY <1>8, <2>2, <2>3, <3>1
    <2>4. CASE N # 0
      <3>1. N \in 1 .. N /\ (N + 1) - 1 = N
        BY <1>3, <2>4
      <3>2. Nth(N) \in D /\ Rank(Nth(N)) = N
        BY <1>10, <3>1
      <3>3. Nth(N) <= r /\ Nth(N) \in Nat /\ Nth(N) # 0
        BY <1>2, <1>5, <1>7, <3>2 DEF D
      <3>4. r \in D
        BY <1>8, <3>3
      <3>5. Rank(r) \in 1 .. N
        BY <1>3, <3>4
      <3>6. ~(Nth(N) < r)
        BY <1>3, <3>2, <3>4, <3>5
      <3>7. B(N + 1) = r
        BY <1>3, <1>8, <2>4, <3>1, <3>3, <3>6
      <3> QED
        BY <2>2, <3>7
    <2> QED
      BY <2>3, <2>4
  <1>17. \A k \in DOMAIN out :
           /\ StartNumber(out, k, e) \in Numbers
           /\ Len(out[k]) = GroupSize(Pos(StartNumber(out, k, e)))
           /\ \A j \in 1 .. Len(out[k]) : out[k][j] = StartNumber(out, k, e) + j - 1
    <2> TAKE k \in DOMAIN out
    <2>1. k \in 1 .. N /\ k \in 1 .. N + 1
      BY <1>3, <1>13
    <2>2. StartNumber(out, k, e) = e + B(k)
      BY <1>14, <2>1
    <2>3. StartNumber(out, k, e) \in Numbers /\ Pos(StartNumber(out, k, e)) = Pos(e) + B(k)
      BY <1>15, <2>1
    <2>4. /\ Len(out[k]) = GroupSize(Pos(e) + B(k))
          /\ \A i \in 1 .. Len(out[k]) : out[k][i] = e + B(k) + i - 1
      BY <1>12, <2>1
    <2> QED
      BY Zenon, <2>2, <2>3, <2>4
  <1> QED
    BY Zenon, <1>13, <1>16, <1>17 DEF InOrderFrom, out, r, D

\* Messages that follow messages
LEMMA InOrderJoined ==
  ASSUME NEW s, NEW t, NEW from, NEW mid, NEW to, InOrderFrom(s, from, mid), InOrderFrom(t, mid, to)
  PROVE  InOrderFrom(s \o t, from, to)
  <1> DEFINE u == s \o t
             m == Len(s)
             n == Len(t)
  <1>1. s \in Seq(Seq(Nat)) /\ t \in Seq(Seq(Nat))
    BY DEF InOrderFrom
  <1>2. m \in Nat /\ n \in Nat /\ DOMAIN s = 1 .. m /\ DOMAIN t = 1 .. n
    BY <1>1, LenProperties
  <1>3. /\ u \in Seq(Seq(Nat)) /\ Len(u) = m + n
        /\ \A k \in 1 .. m : u[k] = s[k]
        /\ \A k \in 1 .. n : u[m + k] = t[k]
    <2>1. /\ u \in Seq(Seq(Nat)) /\ Len(u) = m + n
          /\ \A k \in 1 .. m + n : u[k] = IF k <= m THEN s[k] ELSE t[k - m]
      BY <1>1, ConcatProperties
    <2>2. \A k \in 1 .. m : k \in 1 .. m + n /\ k <= m
      BY <1>2
    <2>3. \A k \in 1 .. n : m + k \in 1 .. m + n /\ ~(m + k <= m) /\ (m + k) - m = k
      BY <1>2
    <2> HIDE DEF u, m, n
    <2> QED
      BY <2>1, <2>2, <2>3
  <1>4. DOMAIN u = 1 .. m + n
    BY <1>3, LenProperties
  <1>5. mid = StartNumber(s, m + 1, from) /\ to = StartNumber(t, n + 1, mid)
    BY DEF InOrderFrom
  <1> HIDE DEF u
  <1>6. ASSUME NEW k \in 1 .. m + 1
        PROVE  StartNumber(u, k, from) = StartNumber(s, k, from)
    <2>1. k # 1 => k - 1 \in 1 .. m
      BY <1>2
    <2> QED
      BY <1>3, <2>1 DEF StartNumber
  <1>7. ASSUME NEW k \in 1 .. n + 1
        PROVE  StartNumber(u, m + k, from) = StartNumber(t, k, mid)
    <2>1. CASE k = 1
      <3>1. m + k \in 1 .. m + 1 /\ m + k = m + 1
        BY <1>2, <2>1
      <3> QED
        BY <1>5, <1>6, <2>1, <3>1 DEF StartNumber
    <2>2. CASE k # 1
      <3>1. k - 1 \in 1 .. n /\ m + k # 1 /\ (m + k) - 1 = m + (k - 1)
        BY <1>2, <2>2
      <3>2. u[(m + k) - 1] = t[k - 1]
        BY <1>3, <3>1
      <3> QED
        BY <2>2, <3>1, <3>2 DEF StartNumber
    <2> QED
      BY <2>1, <2>2
  <1>8. ASSUME NEW k \in 1 .. m + n
        PROVE  /\ StartNumber(u, k, from) \in Numbers
               /\ Len(u[k]) = GroupSize(Pos(StartNumber(u, k, from)))
               /\ \A j \in 1 .. Len(u[k]) : u[k][j] = StartNumber(u, k, from) + j - 1
    <2>1. CASE k \in 1 .. m
      <3>1. k \in 1 .. m + 1 /\ k \in DOMAIN s
        BY <1>2, <2>1
      <3>2. u[k] = s[k] /\ StartNumber(u, k, from) = StartNumber(s, k, from)
        BY <1>3, <1>6, <2>1, <3>1
      <3> QED
        BY <3>1, <3>2, Zenon DEF InOrderFrom
    <2>2. CASE k \notin 1 .. m
      <3>1. PICK l \in 1 .. n : k = m + l
        <4>1. k - m \in 1 .. n /\ k = m + (k - m)
          BY <1>2, <2>2
        <4> QED
          BY <4>1
      <3>2. l \in 1 .. n + 1 /\ l \in DOMAIN t
        BY <1>2
      <3>3. u[k] = t[l] /\ StartNumber(u, k, from) = StartNumber(t, l, mid)
        BY <1>3, <1>7, <3>1, <3>2
      <3> QED
        BY <3>2, <3>3, Zenon DEF InOrderFrom
    <2> QED
      BY <2>1, <2>2
  <1>9. to = StartNumber(u, Len(u) + 1, from)
    <2>1. n + 1 \in 1 .. n + 1 /\ Len(u) + 1 = m + (n + 1)
      BY <1>2, <1>3
    <2> QED
      BY <1>5, <1>7, <2>1
  <1> QED
    BY Zenon, <1>3, <1>4, <1>8, <1>9 DEF InOrderFrom, u

\* No messages at all
LEMMA InOrderNone ==
  ASSUME NEW from
  PROVE  InOrderFrom(<<>>, from, from)
  <1>1. <<>> \in Seq(Seq(Nat)) /\ DOMAIN <<>> = {} /\ Len(<<>>) = 0
    BY EmptySeq
  <1>2. StartNumber(<<>>, Len(<<>>) + 1, from) = from
    BY <1>1 DEF StartNumber
  <1> QED
    BY <1>1, <1>2 DEF InOrderFrom

\* A message of one packet
LEMMA InOrderOne ==
  ASSUME NEW a \in Numbers, FragCountOf(a) = 0
  PROVE  InOrderFrom(<<<<a>>>>, a, a + 1)
  <1>1. a \in Nat
    BY StreamFacts DEF Numbers, LastNumber
  <1>2. GroupSize(Pos(a)) = 1
    BY DEF GroupSize, Pos, FragCountOf, Fragmented
  <1> DEFINE s == <<<<a>>>>
  <1>3. s \in Seq(Seq(Nat)) /\ DOMAIN s = {1} /\ Len(s) = 1 /\ s[1] = <<a>> /\ Len(<<a>>) = 1 /\ <<a>>[1] = a
    BY <1>1
  <1> HIDE DEF s
  <1>4. StartNumber(s, 1, a) = a
    BY DEF StartNumber
  <1>5. StartNumber(s, Len(s) + 1, a) = a + 1
    BY <1>3 DEF StartNumber
  <1>6. \A j \in 1 .. 1 : j = 1 /\ a + j - 1 = a
    BY <1>1
  <1>7. \A k \in DOMAIN s :
          /\ StartNumber(s, k, a) \in Numbers
          /\ Len(s[k]) = GroupSize(Pos(StartNumber(s, k, a)))
          /\ \A j \in 1 .. Len(s[k]) : s[k][j] = StartNumber(s, k, a) + j - 1
    <2> SUFFICES /\ StartNumber(s, 1, a) \in Numbers
                 /\ Len(s[1]) = GroupSize(Pos(StartNumber(s, 1, a)))
                 /\ \A j \in 1 .. Len(s[1]) : s[1][j] = StartNumber(s, 1, a) + j - 1
      BY <1>3
    <2>1. \A j \in 1 .. Len(s[1]) : s[1][j] = StartNumber(s, 1, a) + j - 1
      BY <1>3, <1>4, <1>6
    <2> QED
      BY <1>2, <1>3, <1>4, <2>1
  <1> QED
    BY Zenon, <1>3, <1>5, <1>7 DEF InOrderFrom, s

-----------------------------------------------------------------------------
(* One packet *)

\* The slots once the packet has been put into its own
LEMMA FilledFacts ==
  ASSUME NEW slots, NEW e \in Nat, AlignedTo(slots, e), NEW a \in Numbers, a >= e,
         NEW new, new = Filled(slots, a - e, [ack |-> a, frag |-> FragCountOf(a)])
  PROVE  /\ AlignedTo(new, e) /\ Len(new) \in Nat
         /\ a - e + 1 \in 1 .. Len(new) /\ new[a - e + 1].ack = a
         /\ \A k \in DOMAIN new : k # a - e + 1 => (k \in DOMAIN slots /\ new[k] = slots[k]) \/ new[k].ack = 0
         /\ \A k \in DOMAIN slots : k # a - e + 1 => k \in DOMAIN new /\ new[k] = slots[k]
  <1> DEFINE m == Len(slots)
             d == a - e
             n == IF d >= m THEN d + 1 ELSE m
             slot == [ack |-> a, frag |-> FragCountOf(a)]
             At(k) == IF k = d + 1 THEN slot ELSE IF k <= m THEN slots[k] ELSE EmptySlot
  <1>1. m \in Nat /\ DOMAIN slots = 1 .. m /\ \A k \in 1 .. m : slots[k] \in SlotRecord
    BY LenProperties, ElementOfSeq DEF AlignedTo
  <1>2. a \in Nat /\ a # 0 /\ d \in Nat /\ Pos(a) \in 1 .. Len(Stream)
    BY StreamFacts DEF Numbers, LastNumber, Pos
  <1>3. n \in Nat /\ d + 1 \in 1 .. n /\ 1 .. m \subseteq 1 .. n
    BY <1>1, <1>2
  <1>4. FragCountOf(a) \in Nat
    BY <1>2, StreamFacts DEF FragCountOf, Pos
  <1>5. slot \in SlotRecord /\ slot.ack = a /\ slot.frag = FragCountOf(a)
    BY <1>2, <1>4 DEF SlotRecord
  <1>6. EmptySlot \in SlotRecord /\ EmptySlot.ack = 0
    BY DEF EmptySlot, SlotRecord
  <1>7. new = [k \in 1 .. n |-> At(k)]
    BY DEF Filled
  <1> HIDE DEF n, slot, d, m
  <1>8. \A k \in 1 .. n : k <= m => k \in 1 .. m
    BY <1>1, <1>3
  <1>9. \A k \in 1 .. n : At(k) \in SlotRecord
    BY Zenon, <1>1, <1>5, <1>6, <1>8
  <1>10. new \in [1 .. n -> SlotRecord] /\ \A k \in 1 .. n : new[k] = At(k)
    BY <1>7, <1>9
  <1>11. new \in Seq(SlotRecord) /\ Len(new) = n /\ DOMAIN new = 1 .. n
    BY <1>3, <1>10, FunctionIsSeq
  <1>12. ASSUME NEW k \in 1 .. n
         PROVE  \/ new[k].ack = 0
                \/ new[k].ack = e + k - 1 /\ e + k - 1 \in Numbers /\ new[k].frag = FragCountOf(e + k - 1)
    <2>1. CASE k = d + 1
      <3>1. e + k - 1 = a
        BY <1>2, <2>1 DEF d
      <3> QED
        BY <1>5, <1>10, <2>1, <3>1
    <2>2. CASE k # d + 1 /\ k <= m
      BY Zenon, <1>1, <1>8, <1>10, <2>2 DEF AlignedTo
    <2>3. CASE k # d + 1 /\ ~(k <= m)
      BY Zenon, <1>6, <1>10, <2>3
    <2> QED
      BY <2>1, <2>2, <2>3
  <1>13. AlignedTo(new, e)
    BY Zenon, <1>11, <1>12 DEF AlignedTo
  <1>14. new[d + 1].ack = a
    BY <1>3, <1>5, <1>10
  <1>15. \A k \in 1 .. n : k # d + 1 => (k \in 1 .. m /\ new[k] = slots[k]) \/ new[k].ack = 0
    BY Zenon, <1>6, <1>8, <1>10
  <1>16. \A k \in 1 .. m : k # d + 1 => k \in 1 .. n /\ new[k] = slots[k]
    <2>1. \A k \in 1 .. m : k <= m /\ k \in 1 .. n
      BY <1>1, <1>3
    <2> QED
      BY Zenon, <1>10, <2>1
  <1> QED
    BY <1>1, <1>3, <1>11, <1>13, <1>14, <1>15, <1>16 DEF d

\* What the loop leaves in the slots after the last message it completed
LEMMA RestFacts ==
  ASSUME NEW slots, NEW e, SlotsAt(slots, e),
         NEW r, r = SumSize(slots, Completed(slots)), NEW rest, rest = SubSeq(slots, r + 1, Len(slots))
  PROVE  /\ r \in Nat /\ Boundary(Pos(e + r)) /\ AlignedTo(rest, e + r) /\ Incomplete(rest, e + r)
         /\ \A x \in Int : Holds(slots, e, x) => x < e + r \/ Holds(rest, e + r, x)
         /\ e + r = IF Completed(slots) = {} THEN e
                    ELSE slots[CHOOSE k \in Completed(slots) : \A m \in Completed(slots) : m <= k].ack + 1
  <1> DEFINE n == Len(slots)
             D == Completed(slots)
  <1>1. n \in Nat /\ e \in Nat /\ e >= First /\ DOMAIN slots = 1 .. n /\ slots \in Seq(SlotRecord) /\ Pos(e) \in Starts
    BY LenProperties DEF SlotsAt, AlignedTo
  <1>2. r \in Nat /\ (r = 0 \/ r \in D) /\ \A d \in D : d <= r
    BY SumFacts
  <1>3. \A d \in D : d \in 1 .. n /\ d \in Nat /\ d \in Usable(slots) /\ Boundary(Pos(e) + d)
    BY BeforeFacts, CompletedFacts
  <1>4. r <= n
    BY <1>1, <1>2, <1>3
  <1>5. Pos(e) \in Nat /\ Pos(e + r) = Pos(e) + r /\ First \in Nat
    <2>1. First \in Nat
      BY StreamFacts
    <2>2. e \in Nat /\ e >= First /\ r \in Nat
      BY Zenon, <1>1, <1>2
    <2> QED
      BY <2>1, <2>2 DEF Pos
  <1>6. Boundary(Pos(e + r))
    <2>1. CASE r = 0
      BY <1>1, <1>5, <2>1 DEF Boundary
    <2>2. CASE r # 0
      BY <1>2, <1>3, <1>5, <2>2
    <2> QED
      BY <2>1, <2>2
  <1>7. /\ rest \in Seq(SlotRecord) /\ Len(rest) = n - r /\ DOMAIN rest = 1 .. n - r
        /\ \A k \in 1 .. n - r : rest[k] = slots[r + k] /\ r + k \in 1 .. n
    <2>1. r + 1 \in 1 .. n + 1 /\ n - r \in Nat
      BY <1>1, <1>2, <1>4
    <2>2. rest \in Seq(SlotRecord) /\ Len(rest) = n - r /\ \A k \in 1 .. n - r : rest[k] = slots[r + k]
      <3> HIDE DEF n
      <3>0. slots \in Seq(SlotRecord)
        BY Zenon, <1>1
      <3>1. r + 1 \in Int /\ n \in Int /\ \A k \in r + 1 .. n : slots[k] \in SlotRecord
        <4>1. \A k \in 1 .. n : slots[k] \in SlotRecord
          BY Zenon, <3>0, ElementOfSeq DEF n
        <4>2. \A k \in r + 1 .. n : k \in 1 .. n
          BY <1>1, <1>2
        <4>3. r + 1 \in Int /\ n \in Int
          BY <1>1, <1>2
        <4> QED
          BY Zenon, <4>1, <4>2, <4>3
      <3>2. rest = SubSeq(slots, r + 1, n)
        BY Zenon DEF n
      <3>3. /\ rest \in Seq(SlotRecord) /\ Len(rest) = IF r + 1 <= n THEN n - (r + 1) + 1 ELSE 0
            /\ \A k \in 1 .. n - (r + 1) + 1 : rest[k] = slots[(r + 1) + k - 1]
        BY <3>1, <3>2, SubSeqProperties
      <3>4. Len(rest) = n - r
        BY <1>1, <1>2, <1>4, <3>3
      <3>5. n - (r + 1) + 1 = n - r /\ \A k \in 1 .. n - r : (r + 1) + k - 1 = r + k
        BY <1>1, <1>2
      <3>6. \A k \in 1 .. n - r : rest[k] = slots[r + k]
        BY Zenon, <3>3, <3>5
      <3> QED
        BY Zenon, <3>3, <3>4, <3>6
    <2>3. DOMAIN rest = 1 .. n - r
      BY <2>2, LenProperties
    <2>4. \A k \in 1 .. n - r : r + k \in 1 .. n
      BY <1>1, <1>2, <1>4
    <2> QED
      BY <2>2, <2>3, <2>4
  <1>8. AlignedTo(rest, e + r)
    <2>1. ASSUME NEW k \in 1 .. n - r
          PROVE  \/ rest[k].ack = 0
                 \/ rest[k].ack = (e + r) + k - 1 /\ (e + r) + k - 1 \in Numbers
                    /\ rest[k].frag = FragCountOf((e + r) + k - 1)
      <3>1. (e + r) + k - 1 = e + (r + k) - 1
        BY <1>1, <1>2
      <3>2. rest[k] = slots[r + k] /\ r + k \in DOMAIN slots
        BY <1>1, <1>7
      <3> QED
        BY Zenon, <3>1, <3>2 DEF SlotsAt, AlignedTo
    <2> QED
      BY Zenon, <1>7, <2>1 DEF AlignedTo
  <1>9. Incomplete(rest, e + r)
    <2> DEFINE s == Pos(e + r)
               g == GroupSize(s)
    <2>1. SUFFICES ASSUME s \in Starts, \A j \in 1 .. g : j \in DOMAIN rest /\ rest[j].ack # 0
                   PROVE  FALSE
      BY Zenon DEF Incomplete
    <2>2. g \in Nat \ {0} /\ s \in 1 .. Len(Stream) /\ s \in Nat
      BY <2>1, StartFacts
    <2>3. \A j \in s .. s + g - 1 : j \in 1 .. Len(Stream) /\ GroupSize(j) = g
      BY <2>1, StartFacts
    <2>4. Boundary(s + g)
      BY <2>1, StartFacts
    <2> HIDE DEF g, s
    <2>5. r + g <= n
      <3>1. g \in 1 .. n - r
        BY <1>7, <2>1, <2>2
      <3> QED
        BY <1>1, <1>2, <2>2, <3>1
    <2>6. ASSUME NEW k \in 1 .. r + g
          PROVE  slots[k].ack # 0 /\ slots[k].frag <= n
      <3>1. CASE k <= r
        <4>1. r \in Usable(slots) /\ k \in 1 .. r
          BY <1>2, <1>3, <2>2, <3>1
        <4> QED
          BY <4>1 DEF Usable
      <3>2. CASE k > r
        <4>1. PICK j \in 1 .. g : k = r + j
          <5>1. k - r \in 1 .. g /\ k = r + (k - r)
            BY <1>2, <2>2, <3>2
          <5> QED
            BY <5>1
        <4>2. j \in 1 .. n - r /\ rest[j].ack # 0
          BY <1>7, <2>1
        <4>3. slots[k] = rest[j] /\ k \in DOMAIN slots
          BY <1>1, <1>7, <4>1, <4>2
        <4>4. slots[k].ack # 0 /\ slots[k].frag = FragCountOf(e + k - 1)
          BY <4>2, <4>3 DEF SlotsAt, AlignedTo
        <4>5. Pos(e) + k - 1 = (e + k - 1) - First + 1 /\ Pos(e) + k - 1 \in s .. s + g - 1
          <5>1. Pos(e) = e - First + 1 /\ k \in Nat /\ s = Pos(e) + r
            BY <1>2, <1>5, <4>1 DEF Pos, s
          <5>2. Pos(e) + k - 1 = (e + k - 1) - First + 1
            BY <1>1, <1>5, <5>1
          <5>3. Pos(e) + k - 1 = s + j - 1 /\ j \in Nat /\ j >= 1 /\ j <= g
            <6>1. j \in Nat /\ j >= 1 /\ j <= g
              BY <2>2, <4>1
            <6>2. Pos(e) + k - 1 = s + j - 1
              <7>1. k = r + j /\ s = Pos(e) + r /\ Pos(e) \in Nat /\ r \in Nat
                BY <1>2, <1>5, <4>1, <5>1
              <7> QED
                BY <6>1, <7>1
            <6> QED
              BY <6>1, <6>2
          <5>4. s + j - 1 \in s .. s + g - 1
            BY <2>2, <5>3
          <5> QED
            BY <5>2, <5>3, <5>4
        <4>6. slots[k].frag = Stream[Pos(e) + k - 1] /\ Pos(e) + k - 1 \in 1 .. Len(Stream)
              /\ GroupSize(Pos(e) + k - 1) = g
          BY <2>3, <4>4, <4>5 DEF FragCountOf
        <4>7. slots[k].frag <= g
          <5>1. PICK q \in 1 .. Len(Stream) : q = Pos(e) + k - 1
            BY <4>6
          <5>2. slots[k].frag = Stream[q] /\ GroupSize(q) = g
            BY <4>6, <5>1
          <5>3. Stream[q] \in Nat /\ GroupSize(q) = IF Stream[q] = 0 THEN 1 ELSE Stream[q]
            BY StreamFacts
          <5> QED
            BY <5>2, <5>3
        <4>8. slots[k].frag \in Nat
          BY <4>6, StreamFacts
        <4> QED
          BY <1>1, <1>2, <2>2, <2>5, <4>4, <4>7, <4>8
      <3> QED
        BY <1>2, <2>2, <3>1, <3>2
    <2>7. r + g \in Usable(slots)
      <3>1. r + g \in DOMAIN slots
        BY <1>1, <1>2, <2>2, <2>5
      <3> QED
        BY Zenon, <2>6, <3>1 DEF Usable
    <2>8. Pos(e) + (r + g) = s + g
      BY <1>2, <1>5, <2>2 DEF s
    <2>9. r + g \in D
      BY <2>4, <2>7, <2>8, CompletedFacts
    <2>10. r + g <= r
      BY <1>2, <2>9
    <2> QED
      BY <1>2, <2>2, <2>10
  <1>10. ASSUME NEW x \in Int, Holds(slots, e, x), ~(x < e + r)
         PROVE  Holds(rest, e + r, x)
    <2> DEFINE k == x - (e + r) + 1
    <2>1. x - e + 1 \in 1 .. n /\ slots[x - e + 1].ack # 0
      BY <1>1, <1>10 DEF Holds
    <2>2. k \in 1 .. n - r /\ r + k = x - e + 1
      BY <1>1, <1>2, <1>10, <2>1
    <2>3. rest[k] = slots[r + k]
      BY <1>7, <2>2
    <2> QED
      BY <1>7, <2>1, <2>2, <2>3 DEF Holds
  <1>11. e + r = IF D = {} THEN e ELSE slots[CHOOSE k \in D : \A m \in D : m <= k].ack + 1
    <2>1. CASE D = {}
      BY <1>1, <1>2, <2>1
    <2>2. CASE D # {}
      <3>1. r \in D
        BY <1>2, <1>3, <2>2
      <3> DEFINE last == CHOOSE k \in D : \A m \in D : m <= k
      <3>2. last \in D /\ \A m \in D : m <= last
        BY Zenon, <1>2, <3>1
      <3> HIDE DEF last
      <3>3. last = r
        <4>1. last <= r /\ r <= last /\ last \in Nat
          BY <1>2, <1>3, <3>1, <3>2
        <4> QED
          BY <1>2, <4>1
      <3>4. slots[r].ack = e + r - 1
        BY <1>3, <3>1, UsableFacts
      <3>5. slots[last].ack + 1 = e + r
        BY <1>1, <1>2, <3>3, <3>4
      <3> QED
        BY <2>2, <3>5 DEF last
    <2> QED
      BY <2>1, <2>2
  <1> QED
    BY <1>2, <1>6, <1>8, <1>9, <1>10, <1>11

\* What is acknowledged next is the packet that has just been kept.
LEMMA AckKept ==
  ASSUME NEW e, NEW slots, NEW out, NEW c, Receiving(e, slots, out, c), NEW a \in Numbers,
         a = c + 1 => a < e \/ Holds(slots, e, a),
         NEW c1, c1 = IF a = c + 1 THEN a ELSE c
  PROVE  Receiving(e, slots, out, c1)
  <1>1. c \in Nat /\ c >= First - 1 /\ First \in Nat /\ a \in Nat
    BY StreamFacts DEF Receiving, Numbers, LastNumber
  <1>2. c1 \in Nat /\ c1 >= First - 1
    BY <1>1
  <1>3. \A x \in First .. c : x < e \/ Holds(slots, e, x)
    BY Zenon DEF Receiving
  <1>4. \A x \in First .. c1 : x \in First .. c \/ (x = a /\ a = c + 1)
    BY <1>1
  <1>5. \A x \in First .. c1 : x < e \/ Holds(slots, e, x)
    BY Zenon, <1>3, <1>4
  <1> QED
    BY Zenon, <1>2, <1>5 DEF Receiving

\* The packet that is acknowledged next is never taken for one of the past that is not: the message
\* that the server waits for is no longer than the window.
LEMMA NextIsNotPast ==
  ASSUME NEW e, NEW slots, NEW out, NEW c, Receiving(e, slots, out, c), NEW a \in Numbers, a = c + 1, IsPast(a, e)
  PROVE  a < e
  <1>1. /\ c \in Nat /\ c >= First - 1 /\ First \in Nat /\ a \in Nat /\ e \in Nat /\ e >= First
        /\ HalfWindow \in Nat /\ Len(Stream) \in Nat
    BY StreamFacts DEF Receiving, Numbers, LastNumber
  <1>2. SUFFICES ASSUME ~(a < e)
                 PROVE  FALSE
    OBVIOUS
  <1>3. a >= e + HalfWindow /\ e <= a
    BY <1>1, <1>2 DEF IsPast
  <1>4. Pos(e) \in Starts
    <2>1. Pos(e) # Len(Stream) + 1
      BY <1>1, <1>3 DEF Pos, Numbers, LastNumber
    <2> QED
      BY <2>1 DEF Receiving, Boundary
  <1> DEFINE g == GroupSize(Pos(e))
  <1>5. g \in Nat \ {0} /\ g <= HalfWindow
    BY <1>4, StartFacts, StreamFacts
  <1>6. PICK j \in 1 .. g : ~(j \in DOMAIN slots /\ slots[j].ack # 0)
    BY Zenon, <1>4 DEF Receiving, Incomplete
  <1> HIDE DEF g
  <1>7. e + j - 1 \in First .. c /\ ~(e + j - 1 < e) /\ (e + j - 1) - e + 1 = j
    BY <1>1, <1>3, <1>5
  <1>8. Holds(slots, e, e + j - 1)
    BY Zenon, <1>7 DEF Receiving
  <1> QED
    BY <1>6, <1>7, <1>8 DEF Holds

\* The fast path
LEMMA FastPathKeeps ==
  ASSUME NEW e, NEW out, NEW c, Receiving(e, <<>>, out, c), e \in Numbers, FragCountOf(e) = 0,
         NEW c1, c1 = IF e = c + 1 THEN e ELSE c
  PROVE  Receiving(e + 1, <<>>, out \o <<<<e>>>>, c1)
  <1>1. c \in Nat /\ c >= First - 1 /\ First \in Nat /\ e \in Nat /\ e >= First /\ Len(Stream) \in Nat
    BY StreamFacts DEF Receiving
  <1>2. Pos(e) \in Starts /\ Pos(e + 1) = Pos(e) + 1
    <2>1. Pos(e) # Len(Stream) + 1
      BY <1>1 DEF Pos, Numbers, LastNumber
    <2> QED
      BY <1>1, <2>1 DEF Receiving, Boundary, Pos
  <1>3. GroupSize(Pos(e)) = 1
    BY DEF GroupSize, Pos, FragCountOf, Fragmented
  <1>4. Boundary(Pos(e + 1))
    BY <1>2, <1>3, StartFacts
  <1>5. InOrderFrom(out \o <<<<e>>>>, First, e + 1)
    BY InOrderOne, InOrderJoined DEF Receiving
  <1>6. <<>> \in Seq(SlotRecord) /\ DOMAIN <<>> = {}
    BY EmptySeq
  <1>7. AlignedTo(<<>>, e + 1)
    BY <1>6 DEF AlignedTo
  <1>8. Incomplete(<<>>, e + 1)
    <2>1. SUFFICES ASSUME Pos(e + 1) \in Starts
                   PROVE  1 \in 1 .. GroupSize(Pos(e + 1))
      BY Zenon, <1>6 DEF Incomplete
    <2>2. GroupSize(Pos(e + 1)) \in Nat \ {0}
      BY <2>1, StartFacts
    <2> QED
      BY <2>2
  <1>9. ASSUME NEW x \in First .. c1
        PROVE  x < e + 1
    <2>1. x \in First .. c \/ x = e
      BY <1>1
    <2>2. x \in First .. c => x < e
      BY Zenon, <1>6 DEF Receiving, Holds
    <2> QED
      BY <1>1, <2>1, <2>2
  <1>10. c1 \in Nat /\ c1 >= First - 1 /\ e + 1 \in Nat /\ e + 1 >= First
    BY <1>1
  <1> QED
    BY Zenon, <1>4, <1>5, <1>7, <1>8, <1>9, <1>10 DEF Receiving

\* A packet that is put into its slot
LEMMA StoredKeeps ==
  ASSUME NEW e, NEW slots, NEW out, NEW c, Receiving(e, slots, out, c), NEW a \in Numbers, a >= e,
         NEW c1, c1 = IF a = c + 1 THEN a ELSE c,
         NEW new, new = Filled(slots, a - e, [ack |-> a, frag |-> FragCountOf(a)]),
         NEW r, r = SumSize(new, Completed(new))
  PROVE  /\ Receiving(e + r, SubSeq(new, r + 1, Len(new)), out \o Messages(new), c1)
         /\ e + r = IF Completed(new) = {} THEN e
                    ELSE new[CHOOSE k \in Completed(new) : \A m \in Completed(new) : m <= k].ack + 1
  <1>1. c \in Nat /\ c >= First - 1 /\ First \in Nat /\ a \in Nat /\ a # 0 /\ e \in Nat /\ e >= First
        /\ Len(Stream) \in Nat
    BY StreamFacts DEF Receiving, Numbers, LastNumber
  <1>2. Pos(e) \in Starts
    <2>1. Pos(e) # Len(Stream) + 1
      BY <1>1 DEF Pos, Numbers, LastNumber
    <2> QED
      BY <2>1 DEF Receiving, Boundary
  <1>3. AlignedTo(slots, e)
    BY DEF Receiving
  <1>4. /\ AlignedTo(new, e) /\ Len(new) \in Nat
        /\ a - e + 1 \in 1 .. Len(new) /\ new[a - e + 1].ack = a
        /\ \A k \in DOMAIN slots : k # a - e + 1 => k \in DOMAIN new /\ new[k] = slots[k]
    <2>1. e \in Nat
      BY <1>1
    <2> QED
      BY <1>3, <2>1, FilledFacts
  <1>5. SlotsAt(new, e)
    BY <1>1, <1>2, <1>4 DEF SlotsAt
  <1> DEFINE rest == SubSeq(new, r + 1, Len(new))
  <1>6. /\ r \in Nat /\ Boundary(Pos(e + r)) /\ AlignedTo(rest, e + r) /\ Incomplete(rest, e + r)
        /\ \A x \in Int : Holds(new, e, x) => x < e + r \/ Holds(rest, e + r, x)
        /\ e + r = IF Completed(new) = {} THEN e
                   ELSE new[CHOOSE k \in Completed(new) : \A m \in Completed(new) : m <= k].ack + 1
    BY <1>5, RestFacts
  <1> HIDE DEF rest
  <1>7. InOrderFrom(out \o Messages(new), First, e + r)
    <2>1. InOrderFrom(out, First, e)
      BY DEF Receiving
    <2>2. InOrderFrom(Messages(new), e, e + r)
      BY <1>5, MessagesFacts
    <2> QED
      BY <2>1, <2>2, InOrderJoined
  <1>8. Holds(new, e, a)
    <2>1. DOMAIN new = 1 .. Len(new)
      BY <1>4, LenProperties DEF AlignedTo
    <2> QED
      BY <1>1, <1>4, <2>1 DEF Holds
  <1>9. ASSUME NEW x \in Int, Holds(slots, e, x)
        PROVE  Holds(new, e, x)
    <2>1. CASE x = a
      BY <1>8, <2>1
    <2>2. CASE x # a
      <3>1. x - e + 1 # a - e + 1
        BY <1>1, <2>2
      <3> QED
        BY Zenon, <1>4, <1>9, <3>1 DEF Holds
    <2> QED
      BY <2>1, <2>2
  <1>10. ASSUME NEW x \in First .. c1
         PROVE  x < e + r \/ Holds(rest, e + r, x)
    <2>1. x \in Int /\ (x \in First .. c \/ x = a)
      BY <1>1
    <2>2. x < e \/ Holds(new, e, x)
      <3>1. x \in First .. c => x < e \/ Holds(slots, e, x)
        BY Zenon DEF Receiving
      <3> QED
        BY Zenon, <1>8, <1>9, <2>1, <3>1
    <2>3. x < e => x < e + r
      BY <1>1, <1>6, <2>1
    <2> QED
      BY Zenon, <1>6, <2>1, <2>2, <2>3
  <1>11. c1 \in Nat /\ c1 >= First - 1 /\ e + r \in Nat /\ e + r >= First
    BY <1>1, <1>6
  <1>12. Receiving(e + r, rest, out \o Messages(new), c1)
    BY Zenon, <1>6, <1>7, <1>10, <1>11 DEF Receiving
  <1> QED
    BY <1>6, <1>12 DEF rest

\* A packet arrives after the first one has, or it is the first.
LEMMA RecvPacketKeeps ==
  ASSUME NEW e, NEW c, Receiving(e, inputPackets, delivered, c), NEW a \in Numbers, RecvPacket(a, e),
         ~skewed', ~restarted', (a = e /\ FragCountOf(a) = 0) => inputPackets = <<>>,
         NEW c1, c1 = IF a = c + 1 THEN a ELSE c
  PROVE  Receiving(nextAckRequestExpected', inputPackets', delivered', c1)
  <1>1. a \in Nat /\ e \in Nat /\ First \in Nat /\ delivered \in Seq(Seq(Nat))
    BY StreamFacts DEF Receiving, InOrderFrom, Numbers, LastNumber
  <1>2. \A out : PassOn(out) => delivered' = delivered \o out
    BY Zenon DEF PassOn
  <1>3. delivered \o <<>> = delivered
    BY <1>1
  <1>4. ASSUME Ignored(e), a = c + 1 => a < e \/ Holds(inputPackets, e, a)
        PROVE  Receiving(nextAckRequestExpected', inputPackets', delivered', c1)
    <2>1. nextAckRequestExpected' = e /\ inputPackets' = inputPackets /\ delivered' = delivered
      BY <1>2, <1>3, <1>4 DEF Ignored
    <2>2. Receiving(e, inputPackets, delivered, c1)
      BY <1>4, AckKept
    <2> QED
      BY <2>1, <2>2
  <1>5. CASE a = e /\ FragCountOf(a) = 0
    <2>1. FastPath(a, e) /\ inputPackets = <<>>
      BY Zenon, <1>5 DEF RecvPacket
    <2>2. nextAckRequestExpected' = e + 1 /\ inputPackets' = <<>> /\ delivered' = delivered \o <<<<e>>>>
      BY Zenon, <1>2, <1>5, <2>1 DEF FastPath
    <2>3. Receiving(e, <<>>, delivered, c)
      BY <2>1
    <2>4. Receiving(e + 1, <<>>, delivered \o <<<<e>>>>, c1)
      BY <1>5, <2>3, FastPathKeeps
    <2> QED
      BY <2>2, <2>4
  <1>6. CASE ~(a = e /\ FragCountOf(a) = 0) /\ IsPast(a, e)
    <2>1. Ignored(e)
      BY Zenon, <1>6 DEF RecvPacket
    <2>2. a = c + 1 => a < e
      BY <1>6, NextIsNotPast
    <2> QED
      BY <1>4, <2>1, <2>2
  <1>7. CASE ~(a = e /\ FragCountOf(a) = 0) /\ ~IsPast(a, e) /\ a < e
    <2>1. Enormous(e)
      BY Zenon, <1>7 DEF RecvPacket
    <2>2. nextAckRequestExpected' = e /\ inputPackets' = inputPackets /\ delivered' = delivered
      BY <1>2, <1>3, <2>1 DEF Enormous
    <2>3. Receiving(e, inputPackets, delivered, c1)
      BY <1>7, AckKept
    <2> QED
      BY <2>2, <2>3
  <1>8. CASE ~(a = e /\ FragCountOf(a) = 0) /\ ~IsPast(a, e) /\ ~(a < e) /\ Taken(a, e)
    <2>1. Ignored(e)
      BY Zenon, <1>8 DEF RecvPacket
    <2>2. Holds(inputPackets, e, a)
      <3>1. Len(inputPackets) \in Nat /\ DOMAIN inputPackets = 1 .. Len(inputPackets)
        BY LenProperties DEF Receiving, AlignedTo
      <3> QED
        BY <1>1, <1>8, <3>1 DEF Taken, Holds
    <2> QED
      BY <1>4, <2>1, <2>2
  <1>9. CASE ~(a = e /\ FragCountOf(a) = 0) /\ ~IsPast(a, e) /\ ~(a < e) /\ ~Taken(a, e)
    <2> DEFINE new == Filled(inputPackets, a - e, [ack |-> a, frag |-> FragCountOf(a)])
               r == SumSize(new, Completed(new))
    <2>1. Stored(a, e)
      BY Zenon, <1>9 DEF RecvPacket
    <2>2. /\ inputPackets' = SubSeq(new, r + 1, Len(new))
          /\ nextAckRequestExpected' =
               IF Completed(new) = {} THEN e
               ELSE new[CHOOSE k \in Completed(new) : \A m \in Completed(new) : m <= k].ack + 1
          /\ PassOn(Messages(new))
      BY Zenon, <2>1 DEF Stored
    <2> HIDE DEF new
    <2>3. delivered' = delivered \o Messages(new)
      BY Zenon, <1>2, <2>2
    <2>4. a >= e
      BY <1>1, <1>9
    <2>5. /\ Receiving(e + r, SubSeq(new, r + 1, Len(new)), delivered \o Messages(new), c1)
          /\ e + r = IF Completed(new) = {} THEN e
                     ELSE new[CHOOSE k \in Completed(new) : \A m \in Completed(new) : m <= k].ack + 1
      BY <2>4, StoredKeeps DEF new
    <2> QED
      BY Zenon, <2>2, <2>3, <2>5
  <1> QED
    BY Zenon, <1>5, <1>6, <1>7, <1>8, <1>9

\* Nothing is completed while the slot of the number 0 is empty.
LEMMA NothingCompleted ==
  ASSUME NEW slots, AlignedTo(slots, 0)
  PROVE  /\ Completed(slots) = {} /\ SumSize(slots, Completed(slots)) = 0 /\ Messages(slots) = <<>>
         /\ SubSeq(slots, 1, Len(slots)) = slots
  <1> DEFINE n == Len(slots)
  <1>1. slots \in Seq(SlotRecord) /\ n \in Nat /\ DOMAIN slots = 1 .. n
    BY LenProperties DEF AlignedTo
  <1>2. Completed(slots) = {}
    <2>1. SUFFICES ASSUME NEW m \in Usable(slots)
                   PROVE  FALSE
      BY Zenon DEF Completed
    <2>2. m \in 1 .. n /\ \A k \in 1 .. m : slots[k].ack # 0
      BY <1>1 DEF Usable
    <2>3. 1 \in DOMAIN slots /\ slots[1].ack # 0 /\ 0 + 1 - 1 = 0
      BY <1>1, <2>2
    <2> QED
      BY <2>3 DEF AlignedTo
  <1>3. SumSize(slots, {}) = 0
    <2>1. PICK sum : /\ SumSize(slots, {}) = sum[n]
                     /\ \A k \in 0 .. n :
                          sum[k] = IF k = 0 THEN 0 ELSE sum[k - 1] + IF k \in {} THEN Size(slots[k]) ELSE 0
      BY <1>1, SumEquation
    <2> DEFINE Wrong == {k \in 0 .. n : sum[k] # 0}
    <2>2. Wrong = {}
      <3>1. SUFFICES ASSUME Wrong # {}
                     PROVE  FALSE
        OBVIOUS
      <3>2. Wrong \in SUBSET Nat
        OBVIOUS
      <3>3. PICK k \in Wrong : \A y \in Wrong : k <= y
        BY <3>1, <3>2, Least
      <3>4. k \in 0 .. n /\ k # 0
        BY <2>1, <3>3
      <3>5. k - 1 \in 0 .. n /\ k - 1 \notin Wrong
        BY <1>1, <3>3, <3>4
      <3>6. sum[k] = 0 + 0
        BY <2>1, <3>4, <3>5
      <3> QED
        BY <3>3, <3>6
    <2>3. n \in 0 .. n
      BY <1>1
    <2> QED
      BY <2>1, <2>2, <2>3
  <1>4. Messages(slots) = <<>>
    <2>1. Cardinality({}) = 0
      BY FS_EmptySet
    <2>2. 1 .. 0 = {}
      OBVIOUS
    <2>3. DOMAIN Messages(slots) = {}
      BY <1>2, <2>1, <2>2 DEF Messages
    <2>4. Messages(slots) \in Seq({})
      <3>1. Messages(slots) = [j \in {} |-> Message(slots, CHOOSE k \in {} : Cardinality({m \in {} : m <= k}) = j)]
        BY <1>2, <2>1, <2>2 DEF Messages
      <3>2. Messages(slots) \in [1 .. 0 -> {}]
        BY <2>2, <3>1
      <3> QED
        BY <3>2, FunctionIsSeq
    <2> QED
      BY <2>3, <2>4, EmptySeq, LenProperties
  <1>5. SubSeq(slots, 1, Len(slots)) = slots
    BY <1>1, SubSeqFull
  <1> QED
    BY <1>2, <1>3, <1>4, <1>5

\* A packet arrives before the first one has.
LEMMA EarlyPacketKeeps ==
  ASSUME AlignedTo(inputPackets, 0), delivered = <<>>, NEW a \in Numbers, RecvPacket(a, 0), ~skewed', ~restarted'
  PROVE  nextAckRequestExpected' = 0 /\ delivered' = <<>> /\ AlignedTo(inputPackets', 0)
  <1>1. a \in Nat /\ a # 0
    BY StreamFacts DEF Numbers, LastNumber
  <1>2. \A out : PassOn(out) => delivered' = delivered \o out
    BY Zenon DEF PassOn
  <1>3. <<>> \o <<>> = <<>>
    OBVIOUS
  <1>4. Ignored(0) \/ Stored(a, 0)
    BY <1>1 DEF RecvPacket
  <1>5. CASE Ignored(0)
    BY <1>2, <1>3, <1>5 DEF Ignored
  <1>6. CASE Stored(a, 0)
    <2> DEFINE new == Filled(inputPackets, a - 0, [ack |-> a, frag |-> FragCountOf(a)])
               r == SumSize(new, Completed(new))
    <2>1. /\ inputPackets' = SubSeq(new, r + 1, Len(new))
          /\ nextAckRequestExpected' =
               IF Completed(new) = {} THEN 0
               ELSE new[CHOOSE k \in Completed(new) : \A m \in Completed(new) : m <= k].ack + 1
          /\ PassOn(Messages(new))
      BY Zenon, <1>6 DEF Stored
    <2>2. a >= 0
      BY <1>1
    <2>3. AlignedTo(new, 0)
      BY <2>2, FilledFacts
    <2> HIDE DEF new
    <2>4. Completed(new) = {} /\ r = 0 /\ Messages(new) = <<>> /\ SubSeq(new, 1, Len(new)) = new
      BY <2>3, NothingCompleted
    <2>5. inputPackets' = new
      <3>1. r + 1 = 1
        BY <2>4
      <3> QED
        BY Zenon, <2>1, <2>4, <3>1
    <2>6. nextAckRequestExpected' = 0
      BY Zenon, <2>1, <2>4
    <2>7. delivered' = <<>>
      BY <1>2, <1>3, <2>1, <2>4
    <2> QED
      BY <2>3, <2>5, <2>6, <2>7
  <1> QED
    BY <1>4, <1>5, <1>6

\* What is known of a step of Recv after which the promises still hold
LEMMA RecvFacts ==
  ASSUME NEW a, Recv(a), ~skewed', ~restarted', NEW e, e = IF a = First THEN a ELSE nextAckRequestExpected
  PROVE  /\ ~skewed /\ ~restarted /\ ~dead /\ dead' = dead /\ received' = received \cup {a}
         /\ RecvPacket(a, e) /\ RecvAckRequest(a)
         /\ inputPackets # <<>> => a # First /\ ~(a = e /\ FragCountOf(a) = 0)
         /\ a = First => First \notin received
  <1>1. /\ skewed' = IF inputPackets # <<>> /\ (a = First \/ (a = e /\ FragCountOf(a) = 0)) THEN TRUE ELSE skewed
        /\ restarted' = IF a = First /\ First \in received THEN TRUE ELSE restarted
        /\ RecvPacket(a, e)
    BY Zenon DEF Recv
  <1>2. ~dead /\ dead' = dead /\ received' = received \cup {a} /\ RecvAckRequest(a)
    BY Zenon DEF Recv
  <1> QED
    BY Zenon, <1>1, <1>2

\* Any packet arriving keeps the invariant.
LEMMA RecvKeeps ==
  ASSUME RecvInv, NEW a \in Numbers, Recv(a)
  PROVE  RecvInv'
  <1> SUFFICES ASSUME ~skewed', ~restarted', ~dead'
               PROVE  /\ received' \subseteq Numbers
                      /\ First \notin received' =>
                           /\ nextAckRequestExpected' = 0 /\ nextAckRequestCheck' = 0 /\ delivered' = <<>>
                           /\ AlignedTo(inputPackets', 0)
                      /\ First \in received' =>
                           /\ Receiving(nextAckRequestExpected', inputPackets', delivered', nextAckRequestCheck')
                           /\ nextAckRequestCheck' >= First
    BY Zenon DEF RecvInv
  <1> DEFINE e == IF a = First THEN a ELSE nextAckRequestExpected
  <1>1. /\ ~skewed /\ ~restarted /\ ~dead /\ received' = received \cup {a}
        /\ RecvPacket(a, e) /\ RecvAckRequest(a)
        /\ inputPackets # <<>> => a # First /\ ~(a = e /\ FragCountOf(a) = 0)
        /\ a = First => First \notin received
    BY Zenon, RecvFacts
  <1>2. /\ received \subseteq Numbers
        /\ First \notin received =>
             /\ nextAckRequestExpected = 0 /\ nextAckRequestCheck = 0 /\ delivered = <<>>
             /\ AlignedTo(inputPackets, 0)
        /\ First \in received =>
             /\ Receiving(nextAckRequestExpected, inputPackets, delivered, nextAckRequestCheck)
             /\ nextAckRequestCheck >= First
    BY Zenon, <1>1 DEF RecvInv
  <1>3. received' \subseteq Numbers
    BY Zenon, <1>1, <1>2
  <1>4. a \in Nat /\ a >= First /\ First \in Nat \ {0} /\ Len(Stream) \in Nat \ {0}
    BY StreamFacts DEF Numbers, LastNumber
  <1>5. nextAckRequestCheck' = IF a = First \/ a = nextAckRequestCheck + 1 THEN a ELSE nextAckRequestCheck
    BY Zenon, <1>1 DEF RecvAckRequest
  <1>6. CASE a = First
    <2>1. inputPackets = <<>> /\ delivered = <<>> /\ First \notin received /\ nextAckRequestCheck' = First
      BY Zenon, <1>1, <1>2, <1>5, <1>6
    <2>2. e = First
      BY <1>6
    <2> HIDE DEF e
    <2>3. Receiving(First, <<>>, <<>>, First - 1)
      <3>1. <<>> \in Seq(SlotRecord) /\ DOMAIN <<>> = {}
        BY EmptySeq
      <3>2. Pos(First) = 1 /\ 1 \in Starts
        BY <1>4, StreamFacts DEF Pos, IsGrouping
      <3>3. Boundary(Pos(First))
        BY <3>2 DEF Boundary
      <3>4. InOrderFrom(<<>>, First, First)
        BY InOrderNone
      <3>5. AlignedTo(<<>>, First)
        BY <3>1 DEF AlignedTo
      <3>6. Incomplete(<<>>, First)
        <4>1. GroupSize(1) \in Nat \ {0}
          BY <3>2, StartFacts
        <4>2. 1 \in 1 .. GroupSize(Pos(First))
          BY <3>2, <4>1
        <4> QED
          BY Zenon, <3>1, <4>2 DEF Incomplete
      <3>7. First - 1 \in Nat /\ First - 1 >= First - 1 /\ First .. First - 1 = {} /\ First >= First /\ First \in Nat
        BY <1>4
      <3> QED
        BY Zenon, <3>3, <3>4, <3>5, <3>6, <3>7 DEF Receiving
    <2>4. Receiving(First, inputPackets, delivered, First - 1)
      BY <2>1, <2>3
    <2>5. First = IF a = (First - 1) + 1 THEN a ELSE First - 1
      BY <1>4, <1>6
    <2>6. RecvPacket(a, First) /\ ((a = First /\ FragCountOf(a) = 0) => inputPackets = <<>>)
      BY Zenon, <1>1, <2>1, <2>2
    <2>7. Receiving(nextAckRequestExpected', inputPackets', delivered', First)
      BY <2>4, <2>5, <2>6, RecvPacketKeeps
    <2>8. First \in received' /\ nextAckRequestCheck' >= First
      BY <1>1, <1>4, <1>6, <2>1
    <2> QED
      BY Zenon, <1>3, <2>1, <2>7, <2>8
  <1>7. CASE a # First /\ First \notin received
    <2>1. e = 0 /\ First \notin received' /\ nextAckRequestCheck = 0
      BY Zenon, <1>1, <1>2, <1>7
    <2>2. RecvPacket(a, 0)
      BY Zenon, <1>1, <2>1
    <2>3. nextAckRequestExpected' = 0 /\ delivered' = <<>> /\ AlignedTo(inputPackets', 0)
      BY <1>2, <1>7, <2>2, EarlyPacketKeeps
    <2>4. nextAckRequestCheck' = 0
      BY <1>4, <1>5, <1>7, <2>1
    <2> QED
      BY Zenon, <1>3, <2>1, <2>3, <2>4
  <1>8. CASE a # First /\ First \in received
    <2>1. e = nextAckRequestExpected
      BY Zenon, <1>8
    <2>2. /\ Receiving(nextAckRequestExpected, inputPackets, delivered, nextAckRequestCheck)
          /\ nextAckRequestCheck >= First /\ nextAckRequestCheck \in Nat
      BY Zenon, <1>2, <1>8 DEF Receiving
    <2>3. nextAckRequestCheck' = IF a = nextAckRequestCheck + 1 THEN a ELSE nextAckRequestCheck
      BY Zenon, <1>5, <1>8
    <2>4. /\ RecvPacket(a, nextAckRequestExpected)
          /\ (a = nextAckRequestExpected /\ FragCountOf(a) = 0) => inputPackets = <<>>
      BY Zenon, <1>1, <2>1
    <2>5. Receiving(nextAckRequestExpected', inputPackets', delivered', nextAckRequestCheck')
      BY <2>2, <2>3, <2>4, RecvPacketKeeps
    <2>6. nextAckRequestCheck' >= First /\ First \in received'
      BY <1>1, <1>4, <1>8, <2>2, <2>3
    <2> QED
      BY Zenon, <1>3, <2>5, <2>6
  <1> QED
    BY Zenon, <1>6, <1>7, <1>8

-----------------------------------------------------------------------------
(* What the invariant says of the properties *)

\* Every number before the end of the messages is in one of them.
LEMMA AllPassedOn ==
  ASSUME NEW out, NEW e \in Nat, InOrderFrom(out, First, e), NEW a \in First .. e - 1
  PROVE  \E k \in DOMAIN out : \E j \in DOMAIN out[k] : out[k][j] = a
  <1> DEFINE N == Len(out)
             s(k) == StartNumber(out, k, First)
  <1>1. N \in Nat /\ DOMAIN out = 1 .. N /\ First \in Nat /\ a \in Nat /\ a >= First /\ a < e
        /\ \A k \in 1 .. N : out[k] \in Seq(Nat)
    BY LenProperties, ElementOfSeq, StreamFacts DEF InOrderFrom
  <1>2. /\ e = s(N + 1)
        /\ \A k \in 1 .. N : /\ s(k) \in Numbers /\ Len(out[k]) = GroupSize(Pos(s(k)))
                             /\ \A j \in 1 .. Len(out[k]) : out[k][j] = s(k) + j - 1
    BY Zenon, <1>1 DEF InOrderFrom
  <1>3. ASSUME NEW k \in 1 .. N
        PROVE  /\ s(k) \in Nat /\ Len(out[k]) \in Nat \ {0} /\ s(k + 1) = s(k) + Len(out[k])
               /\ DOMAIN out[k] = 1 .. Len(out[k])
    <2>1. s(k) \in Nat /\ Pos(s(k)) \in 1 .. Len(Stream)
      <3>1. First \in Nat \ {0} /\ Len(Stream) \in Nat
        BY StreamFacts
      <3>2. s(k) \in First .. First + Len(Stream) - 1
        BY Zenon, <1>2 DEF Numbers, LastNumber
      <3>3. PICK x : x = s(k)
        OBVIOUS
      <3>4. x \in First .. First + Len(Stream) - 1
        BY Zenon, <3>2, <3>3
      <3>5. x \in Nat /\ Pos(x) \in 1 .. Len(Stream)
        BY <3>1, <3>4 DEF Pos
      <3> QED
        BY Zenon, <3>3, <3>5
    <2>2. Len(out[k]) \in Nat \ {0} /\ DOMAIN out[k] = 1 .. Len(out[k])
      BY <1>1, <1>2, <2>1, StreamFacts, LenProperties
    <2>3. s(k + 1) = out[k][Len(out[k])] + 1
      <3>1. k + 1 # 1 /\ (k + 1) - 1 = k
        BY <1>1
      <3> QED
        BY <3>1 DEF StartNumber
    <2>4. out[k][Len(out[k])] = s(k) + Len(out[k]) - 1
      <3>1. Len(out[k]) \in 1 .. Len(out[k])
        BY <2>2
      <3> QED
        BY Zenon, <1>2, <3>1
    <2> HIDE DEF s
    <2> QED
      BY <2>1, <2>2, <2>3, <2>4
  <1>4. s(1) = First
    BY DEF StartNumber
  <1> HIDE DEF s
  <1>5. N # 0
    <2>1. SUFFICES ASSUME N = 0
                   PROVE  FALSE
      OBVIOUS
    <2>2. N + 1 = 1
      BY <2>1
    <2> QED
      BY <1>1, <1>2, <1>4, <2>2
  <1> DEFINE K == {k \in 1 .. N : a < s(k + 1)}
  <1>6. K \in SUBSET Nat /\ N \in K
    BY <1>1, <1>2, <1>5
  <1>7. PICK k \in K : \A y \in K : k <= y
    BY <1>6, Least
  <1>8. k \in 1 .. N /\ k \in Nat /\ a < s(k + 1)
    BY <1>7
  <1>9. s(k) <= a
    <2>1. CASE k = 1
      BY <1>1, <1>4, <2>1
    <2>2. CASE k # 1
      <3>0. k - 1 \in 1 .. N /\ ~(k <= k - 1) /\ (k - 1) + 1 = k
        <4> HIDE DEF K
        <4> QED
          BY <1>1, <1>8, <2>2
      <3>1. k - 1 \in 1 .. N /\ k - 1 \notin K /\ (k - 1) + 1 = k
        BY Zenon, <1>7, <3>0
      <3>2. ~(a < s(k)) /\ s(k) \in Nat
        BY <1>3, <1>8, <3>1
      <3> QED
        BY <1>1, <3>2
    <2> QED
      BY <2>1, <2>2
  <1>10. a - s(k) + 1 \in 1 .. Len(out[k]) /\ s(k) + (a - s(k) + 1) - 1 = a
    BY <1>1, <1>3, <1>8, <1>9
  <1>11. out[k][a - s(k) + 1] = a
    BY <1>2, <1>8, <1>10
  <1> QED
    BY Zenon, <1>1, <1>3, <1>8, <1>10, <1>11

\* Messages are passed on in the client's order, each once and whole.
LEMMA InvInOrder == RecvInv => InOrderOnce
  <1> SUFFICES ASSUME RecvInv, Sound, NEW k \in DOMAIN delivered
               PROVE  LET m == delivered[k]
                          start == IF k = 1 THEN First ELSE delivered[k - 1][Len(delivered[k - 1])] + 1
                      IN  /\ Len(m) = IF FragCountOf(start) = 0 THEN 1 ELSE FragCountOf(start)
                          /\ \A j \in DOMAIN m : m[j] = start + j - 1
    BY Zenon DEF InOrderOnce
  <1>1. ~skewed /\ ~restarted /\ ~dead
    BY Zenon DEF Sound
  <1>2. First \in received
    <2>1. delivered # <<>>
      BY EmptySeq
    <2> QED
      BY Zenon, <1>1, <2>1 DEF RecvInv
  <1>3. InOrderFrom(delivered, First, nextAckRequestExpected)
    BY Zenon, <1>1, <1>2 DEF RecvInv, Receiving
  <1> DEFINE start == StartNumber(delivered, k, First)
  <1>4. /\ start \in Numbers /\ Len(delivered[k]) = GroupSize(Pos(start))
        /\ \A j \in 1 .. Len(delivered[k]) : delivered[k][j] = start + j - 1
    BY Zenon, <1>3 DEF InOrderFrom
  <1>5. DOMAIN delivered[k] = 1 .. Len(delivered[k])
    <2>1. delivered \in Seq(Seq(Nat))
      BY <1>3 DEF InOrderFrom
    <2>2. delivered[k] \in Seq(Nat)
      BY <2>1, ElementOfSeq, LenProperties
    <2> QED
      BY <2>2, LenProperties
  <1>6. start = IF k = 1 THEN First ELSE delivered[k - 1][Len(delivered[k - 1])] + 1
    BY DEF StartNumber
  <1>7. GroupSize(Pos(start)) = IF FragCountOf(start) = 0 THEN 1 ELSE FragCountOf(start)
    <2> HIDE DEF start
    <2>1. Pos(start) \in 1 .. Len(Stream) /\ FragCountOf(start) = Stream[Pos(start)]
      BY <1>4, StreamFacts DEF Numbers, LastNumber, Pos, FragCountOf
    <2> QED
      BY <2>1, StreamFacts
  <1> HIDE DEF start
  <1> QED
    BY Zenon, <1>4, <1>5, <1>6, <1>7

\* What was acknowledged has been passed on or is in its slot.
LEMMA InvAcked == RecvInv => AckedIsKept
  <1> SUFFICES ASSUME RecvInv, Sound, NEW a \in received, a <= nextAckRequestCheck
               PROVE  PassedOn(a) \/ \E k \in DOMAIN inputPackets : inputPackets[k].ack = a
    BY Zenon DEF AckedIsKept
  <1>1. ~skewed /\ ~restarted /\ ~dead
    BY Zenon DEF Sound
  <1>2. a \in Numbers
    BY Zenon, <1>1 DEF RecvInv
  <1>3. a \in Nat /\ a >= First /\ First \in Nat \ {0}
    BY <1>2, StreamFacts DEF Numbers, LastNumber
  <1>4. First \in received
    <2>1. SUFFICES ASSUME First \notin received
                   PROVE  FALSE
      OBVIOUS
    <2>2. nextAckRequestCheck = 0
      BY Zenon, <1>1, <2>1 DEF RecvInv
    <2> QED
      BY <1>3, <2>2
  <1> DEFINE e == nextAckRequestExpected
  <1>5. Receiving(e, inputPackets, delivered, nextAckRequestCheck)
    BY Zenon, <1>1, <1>4 DEF RecvInv
  <1>6. e \in Nat /\ nextAckRequestCheck \in Nat /\ InOrderFrom(delivered, First, e) /\ AlignedTo(inputPackets, e)
    BY Zenon, <1>5 DEF Receiving
  <1> HIDE DEF e
  <1>7. a < e \/ Holds(inputPackets, e, a)
    <2>1. a \in First .. nextAckRequestCheck
      BY <1>3, <1>6
    <2> QED
      BY Zenon, <1>5, <2>1 DEF Receiving
  <1>8. CASE a < e
    <2>1. a \in First .. e - 1
      BY <1>3, <1>6, <1>8
    <2> QED
      BY Zenon, <1>6, <2>1, AllPassedOn DEF PassedOn
  <1>9. CASE Holds(inputPackets, e, a)
    <2>1. a - e + 1 \in DOMAIN inputPackets /\ inputPackets[a - e + 1].ack # 0
      BY <1>9 DEF Holds
    <2>2. inputPackets[a - e + 1].ack = e + (a - e + 1) - 1
      BY Zenon, <1>6, <2>1 DEF AlignedTo
    <2>3. e + (a - e + 1) - 1 = a
      BY <1>3, <1>6
    <2> QED
      BY Zenon, <2>1, <2>2, <2>3
  <1> QED
    BY <1>7, <1>8, <1>9

-----------------------------------------------------------------------------
(* Theorems *)

\* The slots of ack_mgr_trilogy_recv_packet stay aligned to the number it expects, everything before
\* it has been passed on in order, and whatever network_client_trilogy_recv_ack_request has
\* acknowledged is one or the other, up to the three cases the code does not handle.
THEOREM ReceiveInductive == RecvSpec => []RecvInv
  <1>1. RecvInit => RecvInv
    <2> SUFFICES ASSUME RecvInit
                 PROVE  RecvInv
      OBVIOUS
    <2>1. /\ received = {} /\ nextAckRequestExpected = 0 /\ nextAckRequestCheck = 0
          /\ delivered = <<>> /\ inputPackets = <<>>
      BY DEF RecvInit
    <2>2. AlignedTo(<<>>, 0)
      <3>1. <<>> \in Seq(SlotRecord) /\ DOMAIN <<>> = {}
        BY EmptySeq
      <3> QED
        BY <3>1 DEF AlignedTo
    <2> QED
      BY Zenon, <2>1, <2>2 DEF RecvInv
  <1>2. RecvInv /\ [RecvNext]_recvVars => RecvInv'
    <2> SUFFICES ASSUME RecvInv, [RecvNext]_recvVars
                 PROVE  RecvInv'
      OBVIOUS
    <2>1. ASSUME /\ nextAckRequestExpected' = nextAckRequestExpected /\ nextAckRequestCheck' = nextAckRequestCheck
                 /\ inputPackets' = inputPackets /\ dead' = dead /\ delivered' = delivered
                 /\ received' = received /\ skewed' = skewed /\ restarted' = restarted
          PROVE  RecvInv'
      BY Zenon, <2>1 DEF RecvInv
    <2>2. CASE ClientSend
      BY Zenon, <2>1, <2>2 DEF ClientSend, ackVars, historyVars
    <2>3. ASSUME NEW a, ClientRecvAck(a)
          PROVE  RecvInv'
      BY Zenon, <2>1, <2>3 DEF ClientRecvAck, ackVars, historyVars
    <2>4. ASSUME NEW a \in Numbers, Recv(a)
          PROVE  RecvInv'
      BY <2>4, RecvKeeps
    <2>5. CASE RecvClosing
      <3>1. dead'
        BY Zenon, <2>5 DEF RecvClosing
      <3> QED
        BY Zenon, <3>1 DEF RecvInv
    <2>6. CASE SendAck
      BY Zenon, <2>1, <2>6 DEF SendAck, historyVars
    <2>7. CASE UNCHANGED recvVars
      BY Zenon, <2>1, <2>7 DEF recvVars, ackVars, historyVars
    <2> QED
      BY Zenon, <2>2, <2>3, <2>4, <2>5, <2>6, <2>7 DEF RecvNext
  <1> QED
    BY <1>1, <1>2, PTL DEF RecvSpec

\* For any stream of whole messages, whatever the network loses, repeats, delays or reorders:
\* ack_mgr_trilogy_recv_packet passes messages on in order, each once, whole and unmixed.
THEOREM InOrderOnceHolds == RecvSpec => []InOrderOnce
  BY ReceiveInductive, InvInOrder, PTL

\* network_client_trilogy_recv_ack_request acknowledges nothing that ack_mgr_trilogy_recv_packet drops.
THEOREM AckedIsKeptHolds == RecvSpec => []AckedIsKept
  BY ReceiveInductive, InvAcked, PTL

-----------------------------------------------------------------------------
(* The sending half: the inductive invariant *)

PacketRecord == [no : Nat, len : Nat \ {0}, frags : Nat \ {0}]
EntryRecord == [id : Nat, timeout : BOOLEAN]

\* The queue is the end of what was scheduled, in order.
FirstQueued == Len(scheduled) - Len(outputPackets)

QueueInv ==
    /\ scheduled \in Seq(PacketRecord) /\ outputPackets \in Seq(EntryRecord)
    /\ \A k \in DOMAIN scheduled : /\ scheduled[k].frags = FragCount(scheduled[k].len)
                                   /\ ~Numbered(k) => scheduled[k].frags = 1
    /\ FirstQueued >= 0
    /\ \A i \in DOMAIN outputPackets : outputPackets[i].id = FirstQueued + i
    /\ sendFromIndex \in 0 .. Len(outputPackets)
    /\ lastAckReceived \in Nat /\ clientAcks \subseteq Nat /\ crashed \in BOOLEAN

\* Every number below the next one has been given once, from First on.
NumbersInv ==
    /\ nextAckToRequest \in 0 .. Modulus - 1
    /\ nextAckToRequest = 0 => \E k \in DOMAIN scheduled : Numbered(k)
    /\ Unwrapped =>
         /\ nextAckToRequest # 0 => nextAckToRequest >= FirstSent
         /\ \A k \in DOMAIN scheduled : Numbered(k) =>
              /\ scheduled[k].no >= FirstSent
              /\ nextAckToRequest # 0 => scheduled[k].no + scheduled[k].frags <= nextAckToRequest

\* Fragment f of packet k as a datagram
Fragment(k, f) == [no |-> scheduled[k].no + f, bytes |-> FragBytes(scheduled[k].len, f)]

\* d is a fragment of a packet, as it was cut.
IsFragment(d) ==
    \E k \in DOMAIN scheduled : \E f \in 0 .. scheduled[k].frags - 1 : Numbered(k) /\ d = Fragment(k, f)

DatagramsInv ==
    \A d \in datagrams \cup got :
        /\ d.no \in 0 .. Modulus - 1 /\ d.bytes \in Int /\ d.bytes <= DataSpace
        /\ Unwrapped => d.no = 0 \/ IsFragment(d)

Arrived == {d.no : d \in got}

\* What is acknowledged, and what was released, has arrived.
AcksInv ==
    Unwrapped =>
      /\ \A a \in clientAcks : FirstSent .. a \subseteq Arrived
      /\ \A k \in DOMAIN scheduled : k <= FirstQueued /\ Numbered(k) => Received(scheduled[k])

CrashInv ==
    Unwrapped /\ crashed => \E k \in DOMAIN scheduled :
       k > FirstQueued /\ scheduled[k].no <= lastAckReceived /\ lastAckReceived < LastAck(scheduled[k])

SendInv == QueueInv /\ NumbersInv /\ DatagramsInv /\ AcksInv /\ CrashInv

-----------------------------------------------------------------------------
(* Arithmetic of numbers and fragments *)

\* Min of FiniteSetsExt
LEMMA MinFound ==
  ASSUME NEW S \in SUBSET Nat, S # {}
  PROVE  Min(S) \in S /\ \A y \in S : Min(S) <= y
  BY Least DEF Min

\* Max of FiniteSetsExt
LEMMA MaxFound ==
  ASSUME NEW b \in Nat, NEW S \in SUBSET (0 .. b), S # {}
  PROVE  Max(S) \in S
  BY Greatest DEF Max

\* Skipping fragments leaves less space before a fragment.
LEMMA SpaceFacts ==
  ASSUME NEW s \in Nat, NEW f \in Nat, s <= f, NEW len \in Nat, NEW p, p.len = len
  PROVE  /\ SpaceOf(s, f - 1) \in Int /\ SpaceOf(s, f - 1) <= SpaceOf(0, f - 1)
         /\ FragBytes(len, f) \in Int
         /\ PassedBytes(p, s, f) \in Int /\ PassedBytes(p, s, f) <= DataSpace
         /\ FragBytes(len, f) <= PassedBytes(p, s, f)
         /\ s = 0 => PassedBytes(p, s, f) = FragBytes(len, f)
  <1>1. /\ SpaceOf(s, f - 1) \in Int /\ SpaceOf(0, f - 1) \in Int
        /\ SpaceOf(s, f - 1) <= SpaceOf(0, f - 1)
    BY DEF SpaceOf, DataSpace, OpcodeSize
  <1>2. Space(f) \in Int /\ Space(f) <= DataSpace
    BY DEF Space, DataSpace, OpcodeSize
  <1> QED
    BY <1>1, <1>2 DEF FragBytes, PassedBytes, LeastOf, DataSpace

\* A packet has a fragment.
LEMMA FragCountType ==
  ASSUME NEW len \in Nat \ {0}
  PROVE  FragCount(len) \in Nat \ {0}
  BY DEF FragCount, DataSpace

\* The numbers of a packet before the wrap
LEMMA NumbersPlain ==
  ASSUME Unwrapped, scheduled \in Seq(PacketRecord), NEW k \in DOMAIN scheduled, Numbered(k)
  PROVE  /\ scheduled[k].no \in Nat /\ scheduled[k].frags \in Nat \ {0} /\ scheduled[k].len \in Nat
         /\ scheduled[k].no + scheduled[k].frags <= Modulus
         /\ \A f \in 0 .. scheduled[k].frags - 1 : (scheduled[k].no + f) % Modulus = scheduled[k].no + f
         /\ LastAck(scheduled[k]) = scheduled[k].no + scheduled[k].frags - 1
         /\ NumbersOf(scheduled[k]) = {scheduled[k].no + f : f \in 0 .. scheduled[k].frags - 1}
  <1> DEFINE p == scheduled[k]
  <1>1. p \in PacketRecord
    BY ElementOfSeq, LenProperties
  <1>2. p.no \in Nat /\ p.frags \in Nat \ {0} /\ p.len \in Nat
    BY <1>1 DEF PacketRecord
  <1>3. p.no + p.frags <= Modulus
    BY Zenon DEF Unwrapped
  <1> HIDE DEF p
  <1>4. ASSUME NEW x \in Nat, x < Modulus
        PROVE  x % Modulus = x
    BY <1>4 DEF Modulus
  <1>5. \A f \in 0 .. p.frags - 1 : (p.no + f) % Modulus = p.no + f
    <2> TAKE f \in 0 .. p.frags - 1
    <2>1. p.no + f \in Nat /\ p.no + f < Modulus
      BY <1>2, <1>3 DEF Modulus
    <2> QED
      BY <1>4, <2>1
  <1>6. LastAck(p) = p.no + p.frags - 1
    <2>1. p.no + p.frags - 1 \in Nat /\ p.no + p.frags - 1 < Modulus
      BY <1>2, <1>3 DEF Modulus
    <2> QED
      BY <1>4, <2>1 DEF LastAck
  <1>7. NumbersOf(p) = {p.no + f : f \in 0 .. p.frags - 1}
    BY <1>5 DEF NumbersOf
  <1> QED
    BY <1>2, <1>3, <1>5, <1>6, <1>7 DEF p

-----------------------------------------------------------------------------
(* The invariant: scheduling, sending and timeouts *)

\* The queue and what it is the end of
LEMMA QueueFacts ==
  ASSUME QueueInv
  PROVE  /\ Len(scheduled) \in Nat /\ DOMAIN scheduled = 1 .. Len(scheduled)
         /\ Len(outputPackets) \in Nat /\ DOMAIN outputPackets = 1 .. Len(outputPackets)
         /\ FirstQueued \in Nat /\ FirstQueued + Len(outputPackets) = Len(scheduled)
         /\ sendFromIndex \in Nat /\ sendFromIndex <= Len(outputPackets)
         /\ \A k \in DOMAIN scheduled :
              /\ scheduled[k] \in PacketRecord /\ scheduled[k].no \in Nat
              /\ scheduled[k].len \in Nat \ {0} /\ scheduled[k].frags \in Nat \ {0}
         /\ \A i \in DOMAIN outputPackets :
              /\ outputPackets[i] \in EntryRecord
              /\ outputPackets[i].id = FirstQueued + i /\ outputPackets[i].id \in DOMAIN scheduled
         /\ \A k \in DOMAIN scheduled : Released(k) <=> k <= FirstQueued
  <1>1. scheduled \in Seq(PacketRecord) /\ outputPackets \in Seq(EntryRecord)
    BY DEF QueueInv
  <1>2. /\ Len(scheduled) \in Nat /\ DOMAIN scheduled = 1 .. Len(scheduled)
        /\ Len(outputPackets) \in Nat /\ DOMAIN outputPackets = 1 .. Len(outputPackets)
    BY <1>1, LenProperties
  <1>3. /\ \A k \in DOMAIN scheduled : scheduled[k] \in PacketRecord
        /\ \A i \in DOMAIN outputPackets : outputPackets[i] \in EntryRecord
    BY <1>1, <1>2, ElementOfSeq
  <1>4. \A k \in DOMAIN scheduled :
          scheduled[k].no \in Nat /\ scheduled[k].len \in Nat \ {0} /\ scheduled[k].frags \in Nat \ {0}
    BY <1>3 DEF PacketRecord
  <1>5. /\ FirstQueued >= 0 /\ sendFromIndex \in 0 .. Len(outputPackets)
        /\ \A i \in DOMAIN outputPackets : outputPackets[i].id = FirstQueued + i
    BY DEF QueueInv
  <1>6. FirstQueued \in Nat /\ FirstQueued + Len(outputPackets) = Len(scheduled)
    BY <1>2, <1>5 DEF FirstQueued
  <1>7. \A i \in DOMAIN outputPackets : outputPackets[i].id \in DOMAIN scheduled
    BY <1>2, <1>5, <1>6
  <1>8. ASSUME NEW k \in DOMAIN scheduled
        PROVE  Released(k) <=> k <= FirstQueued
    <2>1. CASE k <= FirstQueued
      BY <1>2, <1>5, <1>6, <2>1 DEF Released
    <2>2. CASE k > FirstQueued
      <3>1. k - FirstQueued \in DOMAIN outputPackets /\ FirstQueued + (k - FirstQueued) = k
        BY <1>2, <1>6, <2>2
      <3> QED
        BY <1>2, <1>5, <1>6, <2>2, <3>1 DEF Released
    <2> QED
      BY <1>2, <1>6, <2>1, <2>2
  <1>9. sendFromIndex \in Nat /\ sendFromIndex <= Len(outputPackets)
    BY <1>2, <1>5
  <1> HIDE DEF PacketRecord, EntryRecord
  <1> QED
    BY Zenon, <1>2, <1>3, <1>4, <1>5, <1>6, <1>7, <1>8, <1>9

\* The numbers are 16 bits wide; the first one is not 0, so that the number before it is one too.
LEMMA FirstNumber ==
  /\ Modulus \in Nat \ {0} /\ Modulus - 1 \in Nat /\ 0 \in 0 .. Modulus - 1
  /\ FirstSent \in Nat \ {0} /\ FirstSent < Modulus /\ FirstSent \in 0 .. Modulus - 1
  /\ FirstSent - 1 \in Nat /\ FirstSent - 1 \in 0 .. Modulus - 1 /\ FirstSent .. FirstSent - 1 = {}
  <1>1. PICK m, f : m = Modulus /\ f = FirstSent
    OBVIOUS
  <1>2. m \in Nat /\ m > 1
    BY <1>1 DEF Modulus
  <1>3. f \in 1 .. m - 1
    BY <1>1, SendAssumption
  <1>4. m \in Nat \ {0} /\ m - 1 \in Nat /\ 0 \in 0 .. m - 1
    BY <1>2
  <1>5. f \in Nat \ {0} /\ f < m /\ f \in 0 .. m - 1
    BY <1>2, <1>3
  <1>6. f - 1 \in Nat /\ f - 1 \in 0 .. m - 1 /\ f .. f - 1 = {}
    BY <1>2, <1>5
  <1> QED
    BY <1>1, <1>4, <1>5, <1>6

\* Nothing is scheduled, sent or acknowledged at the start.
LEMMA SendInvInit == SendInit => SendInv
  <1> SUFFICES ASSUME SendInit
               PROVE  SendInv
    OBVIOUS
  <1>1. /\ scheduled = <<>> /\ outputPackets = <<>> /\ Len(scheduled) = 0 /\ Len(outputPackets) = 0
        /\ DOMAIN scheduled = {} /\ DOMAIN outputPackets = {}
        /\ sendFromIndex = 0 /\ crashed = FALSE /\ datagrams = {} /\ got = {} /\ clientAcks = {}
        /\ lastAckReceived = FirstSent - 1 /\ nextAckToRequest = FirstSent
    BY DEF SendInit
  <1>2. QueueInv
    <2>1. scheduled \in Seq(PacketRecord) /\ outputPackets \in Seq(EntryRecord)
      BY <1>1, EmptySeq
    <2>2. FirstSent - 1 \in Nat
      BY FirstNumber
    <2>3. FirstQueued = 0
      BY <1>1 DEF FirstQueued
    <2>4. sendFromIndex \in 0 .. Len(outputPackets) /\ FirstQueued >= 0
      BY <1>1, <2>3
    <2> QED
      BY Zenon, <1>1, <2>1, <2>2, <2>4 DEF QueueInv
  <1>3. NumbersInv
    BY <1>1, FirstNumber DEF NumbersInv
  <1>4. DatagramsInv /\ AcksInv /\ CrashInv
    BY <1>1 DEF DatagramsInv, AcksInv, CrashInv
  <1> QED
    BY <1>2, <1>3, <1>4 DEF SendInv

\* The numbers are 16 bits wide.
LEMMA ModFacts ==
  ASSUME NEW x \in Nat
  PROVE  /\ x % Modulus \in 0 .. Modulus - 1
         /\ x < Modulus => x % Modulus = x
         /\ x = Modulus => x % Modulus = 0
  <1>1. PICK m, y : m = Modulus /\ y = x % Modulus
    OBVIOUS
  <1>2. y \in Int /\ 0 <= y /\ y < m /\ m \in Int
    BY <1>1 DEF Modulus
  <1>3. (x < m => y = x) /\ (x = m => y = 0)
    BY <1>1 DEF Modulus
  <1>4. y \in 0 .. m - 1
    BY <1>2
  <1> QED
    BY <1>1, <1>3, <1>4

\* The number a packet with an ack request gets
NextNumber == IF nextAckToRequest = 0 THEN 1 ELSE nextAckToRequest

\* Packet p is put at the end of the queue, without a number or with the next one.
Appended(p) ==
    /\ p \in PacketRecord /\ p.frags = FragCount(p.len) /\ (p.no = 0 => p.frags = 1)
    /\ scheduled' = Append(scheduled, p)
    /\ \/ p.no = 0 /\ nextAckToRequest' = nextAckToRequest
       \/ p.no = NextNumber /\ nextAckToRequest' = NumberAfter(NextNumber, p.frags)
    /\ \E e \in EntryRecord : e.id = Len(scheduled) + 1 /\ outputPackets' = Append(outputPackets, e)
    /\ sendFromIndex' = sendFromIndex /\ lastAckReceived' = lastAckReceived
    /\ ~crashed /\ crashed' = crashed /\ datagrams' = datagrams /\ got' = got /\ clientAcks' = clientAcks

\* Scheduling appends a packet.
LEMMA ScheduleAppends ==
  ASSUME SendInv, NEW len \in Lengths, NEW noAck \in BOOLEAN, Schedule(len, noAck)
  PROVE  \E p \in PacketRecord : Appended(p)
  <1> DEFINE p(n) == [no |-> n, len |-> len, frags |-> FragCount(len)]
             e == [id |-> Len(scheduled) + 1, timeout |-> FALSE]
  <1>1. len \in Nat \ {0} /\ FragCount(len) \in Nat \ {0}
    BY FragCountType, SendAssumption
  <1>2. nextAckToRequest \in Nat
    <2>1. nextAckToRequest \in 0 .. Modulus - 1
      BY Zenon DEF SendInv, NumbersInv
    <2> QED
      BY <2>1, FirstNumber
  <1>3. NextNumber \in Nat \ {0}
    BY <1>2 DEF NextNumber
  <1>4. Len(scheduled) \in Nat
    BY QueueFacts DEF SendInv
  <1>5. e \in EntryRecord /\ e.id = Len(scheduled) + 1
    BY <1>4 DEF EntryRecord
  <1>6. /\ outputPackets' = Append(outputPackets, e)
        /\ sendFromIndex' = sendFromIndex /\ lastAckReceived' = lastAckReceived
        /\ ~crashed /\ crashed' = crashed /\ datagrams' = datagrams /\ got' = got /\ clientAcks' = clientAcks
    BY Zenon DEF Schedule, networkVars
  <1>7. \A n \in Nat : p(n) \in PacketRecord /\ p(n).no = n /\ p(n).len = len /\ p(n).frags = FragCount(len)
    BY <1>1 DEF PacketRecord
  <1> HIDE DEF e
  <1>8. CASE noAck = TRUE
    <2>1. /\ scheduled' = Append(scheduled, p(0)) /\ nextAckToRequest' = nextAckToRequest
          /\ FragCount(len) = 1
      BY <1>8, Zenon DEF Schedule
    <2> HIDE DEF p
    <2>2. Appended(p(0))
      BY <1>5, <1>6, <1>7, <2>1 DEF Appended
    <2> QED
      BY <1>7, <2>2
  <1>9. CASE noAck = FALSE
    <2>1. /\ scheduled' = Append(scheduled, p(NextNumber))
          /\ nextAckToRequest' = NumberAfter(NextNumber, FragCount(len))
      BY <1>9, Zenon DEF Schedule, NextNumber
    <2> HIDE DEF p
    <2>2. Appended(p(NextNumber))
      BY <1>3, <1>5, <1>6, <1>7, <2>1 DEF Appended
    <2> QED
      BY <1>3, <1>7, <2>2
  <1> QED
    BY <1>8, <1>9

\* Scheduling a packet keeps the invariant.
LEMMA ScheduleKeeps ==
  ASSUME SendInv, NEW p \in PacketRecord, Appended(p)
  PROVE  SendInv'
  <1>c. PICK c \in Nat, m \in Nat : c = Len(scheduled) /\ m = Len(outputPackets)
    BY QueueFacts DEF SendInv
  <1>1. /\ QueueInv /\ NumbersInv /\ DatagramsInv /\ AcksInv /\ CrashInv
        /\ scheduled \in Seq(PacketRecord) /\ outputPackets \in Seq(EntryRecord)
    BY DEF SendInv, QueueInv
  <1>2. /\ sendFromIndex' = sendFromIndex /\ lastAckReceived' = lastAckReceived /\ crashed' = crashed
        /\ datagrams' = datagrams /\ got' = got /\ clientAcks' = clientAcks /\ ~crashed
        /\ scheduled' = Append(scheduled, p)
    BY DEF Appended
  <1>3. PICK e \in EntryRecord : e.id = c + 1 /\ outputPackets' = Append(outputPackets, e)
    BY <1>c DEF Appended
  <1>4. /\ p.no \in Nat /\ p.len \in Nat \ {0} /\ p.frags \in Nat \ {0} /\ p.frags = FragCount(p.len)
        /\ p.no = 0 => p.frags = 1
    BY DEF Appended, PacketRecord
  <1>5. FirstSent \in Nat \ {0} /\ FirstSent < Modulus /\ Modulus \in Nat
    BY FirstNumber
  <1>6. nextAckToRequest \in Nat /\ nextAckToRequest < Modulus
    <2>1. nextAckToRequest \in 0 .. Modulus - 1
      BY Zenon, <1>1 DEF NumbersInv
    <2> QED
      BY <1>5, <2>1
  <1>7. NextNumber \in Nat \ {0} /\ (nextAckToRequest # 0 => NextNumber = nextAckToRequest)
        /\ (nextAckToRequest = 0 => NextNumber = 1)
    BY <1>6 DEF NextNumber
  <1>8. \/ p.no = 0 /\ nextAckToRequest' = nextAckToRequest
        \/ p.no = NextNumber /\ p.no # 0 /\ nextAckToRequest' = (p.no + p.frags) % Modulus
    BY <1>7 DEF Appended, NumberAfter
  <1>9. /\ scheduled' \in Seq(PacketRecord) /\ outputPackets' \in Seq(EntryRecord)
        /\ Len(scheduled') = c + 1 /\ Len(outputPackets') = m + 1
        /\ \A k \in 1 .. c : scheduled'[k] = scheduled[k]
        /\ scheduled'[c + 1] = p
        /\ \A i \in 1 .. m : outputPackets'[i] = outputPackets[i]
        /\ outputPackets'[m + 1] = e
    BY <1>c, <1>1, <1>2, <1>3, AppendProperties
  <1>10. /\ DOMAIN scheduled' = 1 .. c + 1 /\ DOMAIN outputPackets' = 1 .. m + 1
         /\ DOMAIN scheduled = 1 .. c /\ DOMAIN outputPackets = 1 .. m /\ c \in Nat /\ m \in Nat
    BY <1>c, <1>1, <1>9, LenProperties
  <1>11. FirstQueued' = FirstQueued /\ FirstQueued \in Nat /\ FirstQueued + m = c
    <2>1. FirstQueued' = Len(scheduled') - Len(outputPackets')
      BY DEF FirstQueued
    <2> QED
      BY <1>c, <1>1, <1>9, <1>10, <2>1, QueueFacts DEF FirstQueued
  <1>12. /\ \A k \in 1 .. c : k \in 1 .. c + 1 /\ k # c + 1
         /\ \A k \in 1 .. c + 1 : k \in 1 .. c \/ k = c + 1
         /\ \A i \in 1 .. m + 1 : i \in 1 .. m \/ i = m + 1
         /\ c + 1 \in 1 .. c + 1
         /\ \A k \in 1 .. c : \A j \in 1 .. k - 1 : j \in 1 .. c
         /\ (c + 1) - 1 = c
    BY <1>10
  <1>13. /\ \A k \in 1 .. c : Numbered(k)' <=> Numbered(k)
         /\ Numbered(c + 1)' <=> p.no # 0
    BY Zenon, <1>9 DEF Numbered
  <1>14. QueueInv'
    <2>1. ASSUME NEW k \in DOMAIN scheduled'
          PROVE  /\ scheduled'[k].frags = FragCount(scheduled'[k].len)
                 /\ ~Numbered(k)' => scheduled'[k].frags = 1
      <3>1. CASE k \in 1 .. c
        BY Zenon, <1>1, <1>9, <1>10, <1>13, <3>1 DEF QueueInv
      <3>2. CASE k = c + 1
        BY Zenon, <1>4, <1>9, <1>13, <3>2
      <3> QED
        BY Zenon, <1>10, <1>12, <3>1, <3>2
    <2>2. ASSUME NEW i \in DOMAIN outputPackets'
          PROVE  outputPackets'[i].id = FirstQueued' + i
      <3>1. CASE i \in 1 .. m
        BY Zenon, <1>1, <1>9, <1>10, <1>11, <3>1 DEF QueueInv
      <3>2. CASE i = m + 1
        <4>1. outputPackets'[i].id = c + 1
          BY Zenon, <1>3, <1>9, <3>2
        <4>2. c + 1 = FirstQueued + (m + 1)
          BY <1>10, <1>11
        <4> QED
          BY Zenon, <1>11, <3>2, <4>1, <4>2
      <3> QED
        BY Zenon, <1>10, <1>12, <3>1, <3>2
    <2>3. sendFromIndex' \in 0 .. Len(outputPackets') /\ FirstQueued' >= 0
      BY <1>c, <1>1, <1>2, <1>9, <1>10, <1>11 DEF QueueInv
    <2>4. lastAckReceived' \in Nat /\ clientAcks' \subseteq Nat /\ crashed' \in BOOLEAN
      BY <1>1, <1>2 DEF QueueInv
    <2> QED
      BY Zenon, <1>9, <2>1, <2>2, <2>3, <2>4 DEF QueueInv
  <1>15. ASSUME Unwrapped'
         PROVE  /\ Unwrapped
                /\ p.no # 0 => /\ p.no + p.frags <= Modulus
                               /\ \A j \in 1 .. c : Numbered(j) => scheduled[j].no + scheduled[j].frags <= p.no
    <2>1. \A k \in 1 .. c + 1 : Numbered(k)' =>
            /\ scheduled'[k].no + scheduled'[k].frags <= Modulus
            /\ \A j \in 1 .. k - 1 : Numbered(j)' => scheduled'[j].no + scheduled'[j].frags <= scheduled'[k].no
      BY Zenon, <1>10, <1>15 DEF Unwrapped
    <2>2. ASSUME NEW k \in 1 .. c, Numbered(k)
          PROVE  /\ scheduled[k].no + scheduled[k].frags <= Modulus
                 /\ \A j \in 1 .. k - 1 : Numbered(j) => scheduled[j].no + scheduled[j].frags <= scheduled[k].no
      BY Zenon, <1>9, <1>12, <1>13, <2>1, <2>2
    <2>3. ASSUME p.no # 0
          PROVE  /\ p.no + p.frags <= Modulus
                 /\ \A j \in 1 .. c : Numbered(j) => scheduled[j].no + scheduled[j].frags <= p.no
      BY Zenon, <1>9, <1>12, <1>13, <2>1, <2>3
    <2> QED
      BY Zenon, <1>10, <2>2, <2>3 DEF Unwrapped
  <1>16. NumbersInv'
    <2>1. nextAckToRequest' \in 0 .. Modulus - 1
      <3>1. p.no + p.frags \in Nat
        BY <1>4
      <3>2. (p.no + p.frags) % Modulus \in 0 .. Modulus - 1
        BY <3>1, ModFacts
      <3> QED
        BY Zenon, <1>1, <1>8, <3>2 DEF NumbersInv
    <2>2. nextAckToRequest' = 0 => \E k \in DOMAIN scheduled' : Numbered(k)'
      <3>1. CASE p.no # 0
        BY Zenon, <1>10, <1>12, <1>13, <3>1
      <3>2. CASE p.no = 0
        <4>1. nextAckToRequest' = nextAckToRequest
          BY Zenon, <1>8, <3>2
        <4> QED
          BY Zenon, <1>1, <1>10, <1>12, <1>13, <4>1 DEF NumbersInv
      <3> QED
        BY Zenon, <3>1, <3>2
    <2>3. ASSUME Unwrapped'
          PROVE  /\ nextAckToRequest' # 0 => nextAckToRequest' >= FirstSent
                 /\ \A k \in DOMAIN scheduled' : Numbered(k)' =>
                      /\ scheduled'[k].no >= FirstSent
                      /\ nextAckToRequest' # 0 => scheduled'[k].no + scheduled'[k].frags <= nextAckToRequest'
      <3>1. /\ nextAckToRequest # 0 => nextAckToRequest >= FirstSent
            /\ \A k \in 1 .. c : Numbered(k) =>
                 /\ scheduled[k].no >= FirstSent
                 /\ nextAckToRequest # 0 => scheduled[k].no + scheduled[k].frags <= nextAckToRequest
            /\ nextAckToRequest = 0 => \E k \in 1 .. c : Numbered(k)
        BY Zenon, <1>1, <1>10, <1>15, <2>3 DEF NumbersInv
      <3>2. CASE p.no = 0
        <4>1. nextAckToRequest' = nextAckToRequest
          BY Zenon, <1>8, <3>2
        <4>2. \A k \in 1 .. c + 1 : Numbered(k)' => k \in 1 .. c /\ Numbered(k) /\ scheduled'[k] = scheduled[k]
          BY Zenon, <1>9, <1>12, <1>13, <3>2
        <4> QED
          BY Zenon, <1>10, <3>1, <4>1, <4>2
      <3>3. CASE p.no # 0
        <4>1. /\ p.no + p.frags <= Modulus
              /\ \A j \in 1 .. c : Numbered(j) => scheduled[j].no + scheduled[j].frags <= p.no
          BY Zenon, <1>15, <2>3, <3>3
        <4>2. \A k \in 1 .. c : scheduled[k].no \in Nat /\ scheduled[k].frags \in Nat \ {0}
          BY Zenon, <1>1, <1>10, QueueFacts
        <4>3. p.no = NextNumber /\ nextAckToRequest' = (p.no + p.frags) % Modulus
          BY Zenon, <1>8, <3>3
        <4>4. nextAckToRequest # 0
          <5>1. SUFFICES ASSUME nextAckToRequest = 0
                         PROVE  FALSE
            OBVIOUS
          <5>2. PICK k \in 1 .. c : Numbered(k)
            BY <3>1, <5>1
          <5>3. scheduled[k].no + scheduled[k].frags <= p.no /\ scheduled[k].no >= FirstSent /\ p.no = 1
            BY Zenon, <1>7, <3>1, <4>1, <4>3, <5>1, <5>2
          <5> QED
            BY <1>5, <4>2, <5>2, <5>3
        <4>5. p.no >= FirstSent
          BY Zenon, <1>7, <3>1, <4>3, <4>4
        <4>6. nextAckToRequest' = IF p.no + p.frags = Modulus THEN 0 ELSE p.no + p.frags
          <5>1. p.no + p.frags \in Nat
            BY <1>4
          <5> QED
            BY <1>5, <4>1, <4>3, <5>1, ModFacts
        <4>7. nextAckToRequest' # 0 => nextAckToRequest' >= FirstSent /\ p.no + p.frags <= nextAckToRequest'
          BY <1>4, <1>5, <4>5, <4>6
        <4>8. ASSUME NEW k \in 1 .. c, Numbered(k), nextAckToRequest' # 0
              PROVE  scheduled[k].no + scheduled[k].frags <= nextAckToRequest'
          BY <1>4, <4>1, <4>2, <4>6, <4>8
        <4> QED
          BY Zenon, <1>9, <1>10, <1>12, <1>13, <3>1, <4>5, <4>7, <4>8
      <3> QED
        BY Zenon, <3>2, <3>3
    <2> QED
      BY Zenon, <2>1, <2>2, <2>3 DEF NumbersInv
  <1>17. DatagramsInv'
    <2>1. ASSUME NEW d, IsFragment(d)
          PROVE  IsFragment(d)'
      <3>1. PICK k \in 1 .. c : \E f \in 0 .. scheduled[k].frags - 1 : Numbered(k) /\ d = Fragment(k, f)
        BY Zenon, <1>10, <2>1 DEF IsFragment
      <3>2. k \in DOMAIN scheduled' /\ scheduled'[k] = scheduled[k] /\ Numbered(k)'
        BY Zenon, <1>9, <1>10, <1>12, <1>13, <3>1
      <3>3. \A f : Fragment(k, f)' = Fragment(k, f)
        BY <3>2 DEF Fragment
      <3> QED
        BY Zenon, <3>1, <3>2, <3>3 DEF IsFragment
    <2> QED
      BY Zenon, <1>1, <1>2, <1>15, <2>1 DEF DatagramsInv
  <1>18. AcksInv'
    <2>1. \A k \in 1 .. c + 1 : k <= FirstQueued => k \in 1 .. c
      BY <1>10, <1>11
    <2>2. Arrived' = Arrived
      BY <1>2 DEF Arrived
    <2>3. \A k \in 1 .. c : Received(scheduled[k]) => Received(scheduled[k])'
      BY <1>2, <1>9 DEF Received, NumbersOf
    <2> QED
      BY Zenon, <1>1, <1>2, <1>10, <1>11, <1>13, <1>15, <2>1, <2>2, <2>3 DEF AcksInv
  <1>19. CrashInv'
    BY <1>2 DEF CrashInv
  <1> QED
    BY <1>14, <1>16, <1>17, <1>18, <1>19 DEF SendInv

\* Nothing but what is scheduled decides what the numbers are and what a fragment is.
LEMMA SameScheduled ==
  ASSUME scheduled' = scheduled
  PROVE  /\ Unwrapped' <=> Unwrapped
         /\ \A k : Numbered(k)' <=> Numbered(k)
         /\ \A d : IsFragment(d)' <=> IsFragment(d)
         /\ \A k : LastAck(scheduled[k])' = LastAck(scheduled[k])
         /\ (NumbersInv /\ nextAckToRequest' = nextAckToRequest) => NumbersInv'
  <1>1. \A k : Numbered(k)' <=> Numbered(k)
    BY Zenon DEF Numbered
  <1>2. Unwrapped' <=> Unwrapped
    BY Zenon, <1>1 DEF Unwrapped
  <1>3. \A k, f : Fragment(k, f)' = Fragment(k, f)
    BY Zenon DEF Fragment
  <1>4. \A d : IsFragment(d)' <=> IsFragment(d)
    BY Zenon, <1>1, <1>3 DEF IsFragment
  <1>5. \A k : LastAck(scheduled[k])' = LastAck(scheduled[k])
    BY Zenon DEF LastAck
  <1>6. (NumbersInv /\ nextAckToRequest' = nextAckToRequest) => NumbersInv'
    BY Zenon, <1>1, <1>2 DEF NumbersInv
  <1> QED
    BY Zenon, <1>1, <1>2, <1>4, <1>5, <1>6

\* More that arrives leaves received what was.
LEMMA ReceivedStays ==
  ASSUME scheduled' = scheduled, got \subseteq got', NEW k, Received(scheduled[k])
  PROVE  Received(scheduled[k])'
  BY Zenon DEF Received, NumbersOf

\* Changing no more than the timeouts of the queue keeps it the end of what was scheduled.
LEMMA QueueKept ==
  ASSUME QueueInv, scheduled' = scheduled,
         outputPackets' \in [1 .. Len(outputPackets) -> EntryRecord],
         \A i \in 1 .. Len(outputPackets) : outputPackets'[i].id = outputPackets[i].id,
         sendFromIndex' = sendFromIndex \/ sendFromIndex' = Len(outputPackets),
         lastAckReceived' = lastAckReceived, clientAcks' \subseteq Nat, crashed' \in BOOLEAN
  PROVE  QueueInv' /\ FirstQueued' = FirstQueued
  <1>1. PICK m \in Nat : m = Len(outputPackets)
    BY QueueFacts
  <1>2. outputPackets' \in Seq(EntryRecord) /\ Len(outputPackets') = m
    BY <1>1, FunctionIsSeq
  <1>3. DOMAIN outputPackets' = 1 .. m /\ DOMAIN outputPackets = 1 .. m
    BY <1>1, <1>2, LenProperties, QueueFacts
  <1>4. FirstQueued' = FirstQueued
    BY <1>1, <1>2 DEF FirstQueued
  <1>5. sendFromIndex' \in 0 .. Len(outputPackets')
    BY <1>1, <1>2, QueueFacts
  <1> QED
    BY Zenon, <1>1, <1>2, <1>3, <1>4, <1>5, SameScheduled DEF QueueInv

\* The fragments that are left out when a packet is sent again
LEMMA SkippedFacts ==
  ASSUME QueueInv, NEW i \in DOMAIN outputPackets, NEW p, p = scheduled[outputPackets[i].id]
  PROVE  /\ Skipped(i) \in Nat
         /\ (Skipped(i) # 0 /\ Skipped(i) < p.frags) =>
              /\ p.frags > 1
              /\ IsPast(lastAckReceived, (p.no + Skipped(i)) % Modulus)
              /\ ~IsPast(lastAckReceived, (p.no + 0) % Modulus)
  <1> DEFINE unacked == {f \in 0 .. p.frags - 1 : IsPast(lastAckReceived, (p.no + f) % Modulus)}
  <1>1. p.frags \in Nat \ {0} /\ p.no \in Nat
    BY QueueFacts
  <1>2. CASE ~(i <= sendFromIndex /\ p.frags > 1)
    BY <1>2 DEF Skipped
  <1>3. CASE i <= sendFromIndex /\ p.frags > 1
    <2>1. Skipped(i) = IF unacked = {} THEN p.frags ELSE Min(unacked)
      BY <1>3 DEF Skipped, AckedFragments
    <2>2. CASE unacked = {}
      BY <1>1, <2>1, <2>2
    <2>3. CASE unacked # {}
      <3>1. unacked \in SUBSET Nat
        OBVIOUS
      <3>2. Min(unacked) \in unacked /\ \A y \in unacked : Min(unacked) <= y
        BY <2>3, <3>1, MinFound
      <3>3. Skipped(i) \in unacked /\ \A y \in unacked : Skipped(i) <= y
        BY <2>1, <2>3, <3>2
      <3>4. Skipped(i) \in Nat /\ IsPast(lastAckReceived, (p.no + Skipped(i)) % Modulus)
        BY <3>3
      <3>5. Skipped(i) # 0 => 0 \notin unacked
        BY <3>3, <3>4
      <3>6. 0 \in 0 .. p.frags - 1
        BY <1>1
      <3> QED
        BY Zenon, <1>3, <3>4, <3>5, <3>6
    <2> QED
      BY <2>2, <2>3
  <1> QED
    BY <1>2, <1>3

\* A fragment is overrun only after an ack for the middle of its packet.
LEMMA OverrunFacts ==
  ASSUME QueueInv, Unwrapped, NEW i \in DOMAIN outputPackets, Overruns(i)
  PROVE  \E k \in DOMAIN scheduled :
           /\ k > FirstQueued /\ scheduled[k].no <= lastAckReceived
           /\ lastAckReceived < LastAck(scheduled[k])
  <1>1. PICK k \in DOMAIN scheduled : k = outputPackets[i].id
    BY QueueFacts
  <1>2. k > FirstQueued
    <2>1. k = FirstQueued + i /\ i \in 1 .. Len(outputPackets) /\ FirstQueued \in Nat /\ Len(outputPackets) \in Nat
      BY <1>1, QueueFacts
    <2> QED
      BY <2>1
  <1> DEFINE p == scheduled[k]
             s == Skipped(i)
             a == lastAckReceived
  <1>3. p.frags \in Nat \ {0} /\ p.no \in Nat /\ p.len \in Nat /\ a \in Nat
    BY QueueFacts DEF QueueInv
  <1>4. PICK f \in s .. p.frags - 1 : PassedBytes(p, s, f) > FragBytes(p.len, f)
    BY <1>1 DEF Overruns
  <1>5. s \in Nat
    BY <1>1, SkippedFacts
  <1>6. f \in Nat /\ s <= f /\ s < p.frags
    BY <1>3, <1>4, <1>5
  <1>7. s # 0
    <2>1. SUFFICES ASSUME s = 0
                   PROVE  FALSE
      OBVIOUS
    <2>2. PassedBytes(p, s, f) = FragBytes(p.len, f) /\ FragBytes(p.len, f) \in Int
      BY <1>3, <1>5, <1>6, <2>1, SpaceFacts
    <2> QED
      BY <1>4, <2>2
  <1>8. p.frags > 1 /\ IsPast(a, (p.no + s) % Modulus) /\ ~IsPast(a, (p.no + 0) % Modulus)
    BY <1>1, <1>6, <1>7, SkippedFacts
  <1>9. Numbered(k)
    BY <1>3, <1>8 DEF QueueInv
  <1>10. /\ (p.no + s) % Modulus = p.no + s /\ (p.no + 0) % Modulus = p.no + 0
         /\ LastAck(p) = p.no + p.frags - 1
    <2>1. s \in 0 .. p.frags - 1 /\ 0 \in 0 .. p.frags - 1
      BY <1>3, <1>5, <1>6
    <2>2. scheduled \in Seq(PacketRecord)
      BY DEF QueueInv
    <2> QED
      BY <1>9, <2>1, <2>2, NumbersPlain
  <1>11. HalfWindow \in Nat
    BY WindowAssumption
  <1> HIDE DEF p, s, a
  <1>12. IsPast(a, p.no + s) /\ ~IsPast(a, p.no + 0)
    BY <1>8, <1>10
  <1>13. p.no <= a /\ a < p.no + p.frags - 1
    BY <1>3, <1>5, <1>6, <1>7, <1>11, <1>12 DEF IsPast
  <1> QED
    BY <1>2, <1>10, <1>13 DEF p, a

\* What is sent of a packet are fragments as they were cut.
LEMMA FragmentsFacts ==
  ASSUME QueueInv, NEW i \in DOMAIN outputPackets, ~Overruns(i), NEW d \in Fragments(i)
  PROVE  /\ d.no \in 0 .. Modulus - 1 /\ d.bytes \in Int /\ d.bytes <= DataSpace
         /\ Unwrapped => d.no = 0 \/ IsFragment(d)
  <1>1. PICK k \in DOMAIN scheduled : k = outputPackets[i].id
    BY QueueFacts
  <1> DEFINE p == scheduled[k]
             s == Skipped(i)
  <1>2. p.frags \in Nat \ {0} /\ p.no \in Nat /\ p.len \in Nat /\ s \in Nat
    BY <1>1, QueueFacts, SkippedFacts
  <1>3. PICK f \in s .. p.frags - 1 :
          d = [no |-> IF p.no = 0 THEN 0 ELSE (p.no + f) % Modulus, bytes |-> PassedBytes(p, s, f)]
    BY Zenon, <1>1 DEF Fragments
  <1>4. f \in Nat /\ s <= f /\ f \in 0 .. p.frags - 1 /\ p.no + f \in Nat
    BY <1>2, <1>3
  <1>5. ~(PassedBytes(p, s, f) > FragBytes(p.len, f))
    BY Zenon, <1>1, <1>3 DEF Overruns
  <1>6. /\ PassedBytes(p, s, f) \in Int /\ PassedBytes(p, s, f) <= DataSpace
        /\ FragBytes(p.len, f) \in Int /\ FragBytes(p.len, f) <= PassedBytes(p, s, f)
    BY <1>2, <1>4, SpaceFacts
  <1>7. PassedBytes(p, s, f) = FragBytes(p.len, f)
    BY <1>5, <1>6
  <1>8. d.bytes = FragBytes(p.len, f) /\ d.no = IF p.no = 0 THEN 0 ELSE (p.no + f) % Modulus
    BY <1>3, <1>7
  <1>9. d.no \in 0 .. Modulus - 1
    <2>1. 0 \in 0 .. Modulus - 1
      BY FirstNumber
    <2> QED
      BY <1>4, <1>8, <2>1, ModFacts
  <1>10. ASSUME Unwrapped, d.no # 0
         PROVE  IsFragment(d)
    <2>1. Numbered(k)
      BY <1>8, <1>10 DEF Numbered
    <2>2. scheduled \in Seq(PacketRecord)
      BY DEF QueueInv
    <2>3. (p.no + f) % Modulus = p.no + f /\ p.no # 0
      BY <1>4, <1>10, <2>1, <2>2, NumbersPlain DEF Numbered
    <2>4. d = Fragment(k, f)
      BY <1>3, <1>7, <2>3 DEF Fragment
    <2> QED
      BY Zenon, <1>4, <2>1, <2>4 DEF IsFragment
  <1> QED
    BY Zenon, <1>6, <1>7, <1>8, <1>9, <1>10

\* Sending keeps the invariant, also when it fails.
LEMMA SendQueuedKeeps ==
  ASSUME SendInv, SendQueued
  PROVE  SendInv'
  <1>1. QueueInv /\ NumbersInv /\ DatagramsInv /\ AcksInv /\ CrashInv
    BY DEF SendInv
  <1>2. /\ scheduled' = scheduled /\ lastAckReceived' = lastAckReceived /\ got' = got /\ clientAcks' = clientAcks
        /\ nextAckToRequest' = nextAckToRequest /\ ~crashed
    BY Zenon DEF SendQueued
  <1>3. ToSend \subseteq DOMAIN outputPackets /\ clientAcks \subseteq Nat
    BY <1>1 DEF ToSend, QueueInv
  <1>4. PICK m \in Nat : m = Len(outputPackets) /\ DOMAIN outputPackets = 1 .. m
    BY <1>1, QueueFacts
  <1>5. \A i \in 1 .. m : outputPackets[i] \in EntryRecord
    BY <1>1, <1>4, QueueFacts
  <1>6. CASE \E i \in ToSend : Overruns(i)
    <2>1. /\ crashed' = TRUE /\ outputPackets' = outputPackets /\ sendFromIndex' = sendFromIndex
          /\ datagrams' = datagrams
      BY Zenon, <1>6 DEF SendQueued
    <2>2. outputPackets' \in [1 .. m -> EntryRecord]
      <3>1. outputPackets \in Seq(EntryRecord)
        BY <1>1 DEF QueueInv
      <3> QED
        BY <1>4, <1>5, <2>1, <3>1, LenProperties
    <2>3. QueueInv' /\ FirstQueued' = FirstQueued
      BY <1>1, <1>2, <1>3, <1>4, <2>1, <2>2, QueueKept
    <2>4. NumbersInv'
      BY <1>1, <1>2, SameScheduled
    <2>5. DatagramsInv'
      BY Zenon, <1>1, <1>2, <2>1, SameScheduled DEF DatagramsInv
    <2>6. AcksInv'
      <3>1. Arrived' = Arrived
        BY <1>2 DEF Arrived
      <3>2. \A k : Received(scheduled[k]) => Received(scheduled[k])'
        BY <1>2, ReceivedStays
      <3> QED
        BY Zenon, <1>1, <1>2, <2>3, <3>1, <3>2, SameScheduled DEF AcksInv
    <2>7. CrashInv'
      <3>1. ASSUME Unwrapped
            PROVE  \E k \in DOMAIN scheduled :
                     /\ k > FirstQueued /\ scheduled[k].no <= lastAckReceived
                     /\ lastAckReceived < LastAck(scheduled[k])
        BY <1>1, <1>3, <1>6, <3>1, OverrunFacts
      <3> QED
        BY Zenon, <1>2, <2>3, <3>1, SameScheduled DEF CrashInv
    <2> QED
      BY <2>3, <2>4, <2>5, <2>6, <2>7 DEF SendInv
  <1>7. CASE ~ \E i \in ToSend : Overruns(i)
    <2> DEFINE cleared(i) == IF i \in ToSend /\ Fragments(i) # {}
                               THEN [outputPackets[i] EXCEPT !.timeout = FALSE] ELSE outputPackets[i]
    <2>1. /\ datagrams' = datagrams \cup UNION {Fragments(i) : i \in ToSend}
          /\ outputPackets' = [i \in DOMAIN outputPackets |-> cleared(i)]
          /\ sendFromIndex' = Len(outputPackets) /\ crashed' = crashed
      BY Zenon, <1>7 DEF SendQueued
    <2>2. \A i \in 1 .. m : cleared(i) \in EntryRecord /\ cleared(i).id = outputPackets[i].id
      <3> TAKE i \in 1 .. m
      <3>1. [outputPackets[i] EXCEPT !.timeout = FALSE] \in EntryRecord
            /\ [outputPackets[i] EXCEPT !.timeout = FALSE].id = outputPackets[i].id
        BY <1>5 DEF EntryRecord
      <3> QED
        BY Zenon, <1>5, <3>1
    <2> HIDE DEF cleared
    <2>3. /\ outputPackets' \in [1 .. m -> EntryRecord]
          /\ \A i \in 1 .. m : outputPackets'[i].id = outputPackets[i].id
      BY <1>4, <2>1, <2>2
    <2>4. crashed' \in BOOLEAN
      BY <1>1, <2>1 DEF QueueInv
    <2>5. QueueInv' /\ FirstQueued' = FirstQueued
      BY <1>1, <1>2, <1>3, <1>4, <2>1, <2>3, <2>4, QueueKept
    <2>6. NumbersInv'
      BY <1>1, <1>2, SameScheduled
    <2>7. DatagramsInv'
      <3>1. ASSUME NEW d \in datagrams' \cup got'
            PROVE  /\ d.no \in 0 .. Modulus - 1 /\ d.bytes \in Int /\ d.bytes <= DataSpace
                   /\ Unwrapped => d.no = 0 \/ IsFragment(d)
        <4>1. CASE d \in datagrams \cup got
          BY Zenon, <1>1, <4>1 DEF DatagramsInv
        <4>2. CASE \E i \in ToSend : d \in Fragments(i)
          <5>1. PICK i \in ToSend : d \in Fragments(i)
            BY <4>2
          <5> QED
            BY Zenon, <1>1, <1>3, <1>7, <5>1, FragmentsFacts
        <4> QED
          BY Zenon, <1>2, <2>1, <4>1, <4>2
      <3> QED
        BY Zenon, <1>2, <3>1, SameScheduled DEF DatagramsInv
    <2>8. AcksInv'
      <3>1. Arrived' = Arrived
        BY <1>2 DEF Arrived
      <3>2. \A k : Received(scheduled[k]) => Received(scheduled[k])'
        BY <1>2, ReceivedStays
      <3> QED
        BY Zenon, <1>1, <1>2, <2>5, <3>1, <3>2, SameScheduled DEF AcksInv
    <2>9. CrashInv'
      BY Zenon, <1>2, <2>1 DEF CrashInv
    <2> QED
      BY <2>5, <2>6, <2>7, <2>8, <2>9 DEF SendInv
  <1> QED
    BY <1>6, <1>7

\* Time passes: nothing but the timeout of an entry changes.
LEMMA TimeoutKeeps ==
  ASSUME SendInv, NEW i, Timeout(i)
  PROVE  SendInv'
  <1>1. QueueInv /\ NumbersInv /\ DatagramsInv /\ AcksInv /\ CrashInv
    BY DEF SendInv
  <1>2. /\ scheduled' = scheduled /\ lastAckReceived' = lastAckReceived /\ got' = got /\ clientAcks' = clientAcks
        /\ nextAckToRequest' = nextAckToRequest /\ ~crashed /\ crashed' = crashed
        /\ sendFromIndex' = sendFromIndex /\ datagrams' = datagrams
        /\ outputPackets' = [outputPackets EXCEPT ![i].timeout = TRUE]
    BY Zenon DEF Timeout, networkVars
  <1>3. PICK m \in Nat : m = Len(outputPackets) /\ DOMAIN outputPackets = 1 .. m
    BY <1>1, QueueFacts
  <1>4. \A j \in 1 .. m : outputPackets[j] \in EntryRecord
    BY <1>1, <1>3, QueueFacts
  <1>5. outputPackets \in [1 .. m -> EntryRecord]
    <2>1. outputPackets \in Seq(EntryRecord)
      BY <1>1 DEF QueueInv
    <2> QED
      BY <1>3, <1>4, <2>1, LenProperties
  <1>6. /\ outputPackets' \in [1 .. m -> EntryRecord]
        /\ \A j \in 1 .. m : outputPackets'[j].id = outputPackets[j].id
    BY <1>2, <1>5 DEF EntryRecord
  <1>7. clientAcks' \subseteq Nat /\ crashed' \in BOOLEAN
    BY <1>1, <1>2 DEF QueueInv
  <1>8. QueueInv' /\ FirstQueued' = FirstQueued
    BY <1>1, <1>2, <1>3, <1>6, <1>7, QueueKept
  <1>9. NumbersInv'
    BY <1>1, <1>2, SameScheduled
  <1>10. DatagramsInv'
    BY Zenon, <1>1, <1>2, SameScheduled DEF DatagramsInv
  <1>11. AcksInv'
    <2>1. Arrived' = Arrived
      BY <1>2 DEF Arrived
    <2>2. \A k : Received(scheduled[k]) => Received(scheduled[k])'
      BY <1>2, ReceivedStays
    <2> QED
      BY Zenon, <1>1, <1>2, <1>8, <2>1, <2>2, SameScheduled DEF AcksInv
  <1>12. CrashInv'
    BY Zenon, <1>2 DEF CrashInv
  <1> QED
    BY <1>8, <1>9, <1>10, <1>11, <1>12 DEF SendInv

\* An ack releases only what it covers.
LEMMA RecvAckKeeps ==
  ASSUME SendInv, NEW ack, RecvAck(ack)
  PROVE  SendInv'
  <1> DEFINE kept == {i \in 1 .. sendFromIndex : LastAck(scheduled[outputPackets[i].id]) > ack}
             least == Min(kept)
             cut == IF kept = {} THEN sendFromIndex ELSE least - 1
  <1>1. QueueInv /\ NumbersInv /\ DatagramsInv /\ AcksInv /\ CrashInv
    BY DEF SendInv
  <1>2. /\ scheduled' = scheduled /\ lastAckReceived' = ack /\ got' = got /\ clientAcks' = clientAcks \ {ack}
        /\ nextAckToRequest' = nextAckToRequest /\ ~crashed /\ crashed' = crashed
        /\ datagrams' = datagrams /\ ack \in clientAcks
    BY Zenon DEF RecvAck
  <1>3. /\ outputPackets' = SubSeq(outputPackets, cut + 1, Len(outputPackets))
        /\ sendFromIndex' = IF cut > 0 THEN 0 ELSE sendFromIndex
    BY Zenon DEF RecvAck
  <1>4. PICK m \in Nat : m = Len(outputPackets) /\ DOMAIN outputPackets = 1 .. m
    BY <1>1, QueueFacts
  <1>5. sendFromIndex \in Nat /\ sendFromIndex <= m
    BY <1>1, <1>4, QueueFacts
  <1>6. kept # {} => least \in kept /\ \A y \in kept : least <= y
    <2>1. kept \in SUBSET Nat
      OBVIOUS
    <2> QED
      BY <2>1, MinFound
  <1>7. PICK n \in Nat : n = cut /\ n <= sendFromIndex /\ \A i \in 1 .. n : i \notin kept
    <2>1. CASE kept = {}
      BY <1>5, <2>1
    <2>2. CASE kept # {}
      <3>1. least \in 1 .. sendFromIndex
        BY <1>6, <2>2
      <3>2. cut = least - 1
        BY <2>2
      <3>3. \A y \in kept : least <= y
        BY <1>6, <2>2
      <3> HIDE DEF kept, least, cut
      <3>4. cut \in Nat /\ cut <= sendFromIndex
        BY <1>5, <3>1, <3>2
      <3>5. ASSUME NEW i \in 1 .. cut
            PROVE  i \notin kept
        BY <3>1, <3>2, <3>3
      <3> QED
        BY <3>4, <3>5
    <2> QED
      BY <2>1, <2>2
  <1> HIDE DEF cut
  <1>8. outputPackets \in Seq(EntryRecord)
    BY <1>1 DEF QueueInv
  <1>9. /\ outputPackets' \in Seq(EntryRecord) /\ Len(outputPackets') = m - n
        /\ \A i \in 1 .. m - n : outputPackets'[i] = outputPackets[n + i]
    <2>1. outputPackets' = SubSeq(outputPackets, n + 1, m)
      BY <1>3, <1>4, <1>7
    <2>2. n + 1 \in 1 .. m + 1 /\ n \in 0 .. m
      BY <1>5, <1>7
    <2> QED
      BY <1>4, <1>5, <1>7, <1>8, <2>1, <2>2, SubSeqProperties
  <1>10. m - n \in Nat /\ DOMAIN outputPackets' = 1 .. m - n
    BY <1>5, <1>7, <1>9, LenProperties
  <1>11. FirstQueued' = FirstQueued + n /\ FirstQueued \in Nat
    BY <1>1, <1>2, <1>4, <1>9, QueueFacts DEF FirstQueued
  <1>12. ack \in Nat /\ clientAcks' \subseteq Nat /\ crashed' \in BOOLEAN
    BY <1>1, <1>2 DEF QueueInv
  <1>13. QueueInv'
    <2>1. ASSUME NEW i \in 1 .. m - n
          PROVE  outputPackets'[i].id = FirstQueued' + i
      <3>1. n + i \in 1 .. m
        BY <1>7, <1>10
      <3>2. outputPackets[n + i].id = FirstQueued + (n + i)
        BY <1>1, <1>4, <3>1 DEF QueueInv
      <3> QED
        BY <1>7, <1>9, <1>10, <1>11, <3>2
    <2>2. sendFromIndex' \in 0 .. Len(outputPackets') /\ FirstQueued' >= 0
      BY <1>3, <1>5, <1>7, <1>9, <1>10, <1>11
    <2> QED
      BY Zenon, <1>1, <1>2, <1>9, <1>10, <1>12, <2>1, <2>2, SameScheduled DEF QueueInv
  <1>14. NumbersInv'
    BY <1>1, <1>2, SameScheduled
  <1>15. DatagramsInv'
    BY Zenon, <1>1, <1>2, SameScheduled DEF DatagramsInv
  <1>16. ASSUME Unwrapped, NEW k \in DOMAIN scheduled, k <= FirstQueued + n, Numbered(k)
         PROVE  Received(scheduled[k])
    <2>1. CASE k <= FirstQueued
      BY Zenon, <1>1, <1>16, <2>1 DEF AcksInv
    <2>2. CASE k > FirstQueued
      <3>1. PICK i \in 1 .. n : k = FirstQueued + i
        <4>1. k \in Nat
          BY <1>1, QueueFacts
        <4>2. k - FirstQueued \in 1 .. n /\ k = FirstQueued + (k - FirstQueued)
          BY <1>11, <1>16, <2>2, <4>1
        <4> QED
          BY <4>2
      <3>2. i \in 1 .. sendFromIndex /\ i \in 1 .. m /\ i \notin kept
        BY <1>5, <1>7
      <3>3. outputPackets[i].id = k
        BY <1>1, <1>4, <3>1, <3>2, QueueFacts
      <3>4. ~(LastAck(scheduled[k]) > ack)
        BY <3>2, <3>3
      <3>5. scheduled \in Seq(PacketRecord)
        BY <1>1 DEF QueueInv
      <3>6. /\ scheduled[k].no \in Nat /\ scheduled[k].frags \in Nat \ {0}
            /\ LastAck(scheduled[k]) = scheduled[k].no + scheduled[k].frags - 1
            /\ NumbersOf(scheduled[k]) = {scheduled[k].no + f : f \in 0 .. scheduled[k].frags - 1}
        BY <1>16, <3>5, NumbersPlain
      <3>7. scheduled[k].no >= FirstSent
        BY <1>1, <1>16 DEF NumbersInv
      <3>8. \A f \in 0 .. scheduled[k].frags - 1 : scheduled[k].no + f \in FirstSent .. ack
        BY <1>12, <3>4, <3>6, <3>7, SendAssumption
      <3>9. FirstSent .. ack \subseteq Arrived
        BY <1>1, <1>2, <1>16 DEF AcksInv
      <3> QED
        BY Zenon, <3>6, <3>8, <3>9 DEF Received, Arrived
    <2>3. k \in Nat
      BY <1>1, QueueFacts
    <2> QED
      BY <1>11, <2>1, <2>2, <2>3
  <1>17. AcksInv'
    <2>1. Arrived' = Arrived
      BY <1>2 DEF Arrived
    <2>2. \A k : Received(scheduled[k]) => Received(scheduled[k])'
      BY <1>2, ReceivedStays
    <2> QED
      BY Zenon, <1>1, <1>2, <1>11, <1>16, <2>1, <2>2, SameScheduled DEF AcksInv
  <1>18. CrashInv'
    BY Zenon, <1>2 DEF CrashInv
  <1> QED
    BY <1>13, <1>14, <1>15, <1>17, <1>18 DEF SendInv

\* The client and the network leave the server alone: the rest of the invariant holds when no
\* datagram is made up, nothing that arrived is forgotten and every new ack is for what arrived.
LEMMA NetworkKeeps ==
  ASSUME SendInv, UNCHANGED serverVars,
         datagrams' \cup got' \subseteq datagrams \cup got, got \subseteq got',
         clientAcks' \subseteq Nat,
         Unwrapped => \A a \in clientAcks' : a \in clientAcks \/ FirstSent .. a \subseteq Arrived'
  PROVE  SendInv'
  <1>1. QueueInv /\ NumbersInv /\ DatagramsInv /\ AcksInv /\ CrashInv
    BY DEF SendInv
  <1>2. /\ scheduled' = scheduled /\ outputPackets' = outputPackets /\ sendFromIndex' = sendFromIndex
        /\ lastAckReceived' = lastAckReceived /\ nextAckToRequest' = nextAckToRequest /\ crashed' = crashed
    BY DEF serverVars
  <1>3. FirstQueued' = FirstQueued
    BY <1>2 DEF FirstQueued
  <1>4. QueueInv'
    BY Zenon, <1>1, <1>2, <1>3, SameScheduled DEF QueueInv
  <1>5. NumbersInv'
    BY <1>1, <1>2, SameScheduled
  <1>6. DatagramsInv'
    <2>1. \A d \in datagrams' \cup got' : d \in datagrams \cup got
      OBVIOUS
    <2> QED
      BY Zenon, <1>1, <1>2, <2>1, SameScheduled DEF DatagramsInv
  <1>7. AcksInv'
    <2>1. Arrived \subseteq Arrived'
      BY DEF Arrived
    <2>2. \A k : Received(scheduled[k]) => Received(scheduled[k])'
      BY <1>2, ReceivedStays
    <2>3. ASSUME Unwrapped, NEW a \in clientAcks'
          PROVE  FirstSent .. a \subseteq Arrived'
      BY Zenon, <1>1, <2>1, <2>3 DEF AcksInv
    <2> QED
      BY Zenon, <1>1, <1>2, <1>3, <2>2, <2>3, SameScheduled DEF AcksInv
  <1>8. CrashInv'
    BY Zenon, <1>1, <1>2, <1>3, SameScheduled DEF CrashInv
  <1> QED
    BY <1>4, <1>5, <1>6, <1>7, <1>8 DEF SendInv

\* The client acknowledges no more than it has without a gap.
LEMMA ClientReceivesKeeps ==
  ASSUME SendInv, NEW d \in datagrams, ClientReceives(d)
  PROVE  SendInv'
  <1>1. /\ datagrams' = datagrams \ {d} /\ got' = got \cup {d} /\ UNCHANGED serverVars
        /\ clientAcks' = IF d.no = 0 THEN clientAcks ELSE clientAcks \cup {Contiguous(got \cup {d})}
    BY Zenon DEF ClientReceives
  <1> DEFINE numbers == {x.no : x \in got \cup {d}}
             gapless == {n \in {FirstSent - 1} \cup numbers : FirstSent .. n \subseteq numbers}
  <1>2. numbers = Arrived'
    BY <1>1 DEF Arrived
  <1>3. \A x \in datagrams \cup got : x.no \in 0 .. Modulus - 1
    BY DEF SendInv, DatagramsInv
  <1>4. numbers \subseteq 0 .. Modulus - 1
    BY <1>3
  <1>5. FirstSent - 1 \in 0 .. Modulus - 1 /\ FirstSent .. FirstSent - 1 = {} /\ Modulus - 1 \in Nat
    BY FirstNumber
  <1>6. Max(gapless) \in gapless
    <2>1. gapless \in SUBSET (0 .. Modulus - 1)
      BY <1>4, <1>5
    <2>2. gapless # {}
      BY <1>5
    <2> QED
      BY <1>5, <2>1, <2>2, MaxFound
  <1>7. Contiguous(got \cup {d}) = Max(gapless)
    BY DEF Contiguous
  <1> HIDE DEF numbers
  <1>8. /\ Contiguous(got \cup {d}) \in 0 .. Modulus - 1
        /\ FirstSent .. Contiguous(got \cup {d}) \subseteq Arrived'
    BY <1>2, <1>4, <1>5, <1>6, <1>7
  <1>9. clientAcks \subseteq Nat
    BY DEF SendInv, QueueInv
  <1>10. clientAcks' \subseteq Nat
    <2>1. Contiguous(got \cup {d}) \in Nat
      BY <1>5, <1>8
    <2> HIDE DEF Contiguous
    <2> QED
      BY <1>1, <1>9, <2>1
  <1>11. \A a \in clientAcks' : a \in clientAcks \/ FirstSent .. a \subseteq Arrived'
    BY <1>1, <1>8
  <1>12. datagrams' \cup got' \subseteq datagrams \cup got /\ got \subseteq got'
    BY <1>1
  <1> QED
    BY <1>1, <1>10, <1>11, <1>12, NetworkKeeps

\* Losing a datagram or an ack keeps the invariant.
LEMMA LoseKeeps ==
  ASSUME SendInv, Lose
  PROVE  SendInv'
  <1>1. got' = got /\ UNCHANGED serverVars
    BY Zenon DEF Lose
  <1>2. datagrams' \subseteq datagrams /\ clientAcks' \subseteq clientAcks
    BY Zenon DEF Lose
  <1>3. clientAcks \subseteq Nat
    BY DEF SendInv, QueueInv
  <1> QED
    BY <1>1, <1>2, <1>3, NetworkKeeps

-----------------------------------------------------------------------------
(* What the invariant says of the properties *)

\* The numbers of two packets have nothing in common.
LEMMA NumbersApart ==
  ASSUME QueueInv, Unwrapped, NEW k \in DOMAIN scheduled, NEW j \in DOMAIN scheduled, Numbered(k), Numbered(j),
         NEW f \in 0 .. scheduled[k].frags - 1, NEW g \in 0 .. scheduled[j].frags - 1,
         scheduled[k].no + f = scheduled[j].no + g
  PROVE  k = j /\ f = g
  <1>1. /\ scheduled[k].no \in Nat /\ scheduled[k].frags \in Nat
        /\ scheduled[j].no \in Nat /\ scheduled[j].frags \in Nat /\ k \in Nat /\ j \in Nat
    <2>1. scheduled[k].no \in Nat /\ scheduled[k].frags \in Nat \ {0}
      BY Zenon, QueueFacts
    <2>2. scheduled[j].no \in Nat /\ scheduled[j].frags \in Nat \ {0}
      BY Zenon, QueueFacts
    <2>3. DOMAIN scheduled = 1 .. Len(scheduled) /\ Len(scheduled) \in Nat
      BY Zenon, QueueFacts
    <2>4. k \in Nat /\ j \in Nat
      BY <2>3
    <2> QED
      BY <2>1, <2>2, <2>4
  <1>2. j < k => scheduled[j].no + scheduled[j].frags <= scheduled[k].no
    <2>1. SUFFICES ASSUME j < k
                   PROVE  scheduled[j].no + scheduled[j].frags <= scheduled[k].no
      OBVIOUS
    <2>2. j \in 1 .. k - 1
      BY <1>1, <2>1, QueueFacts
    <2> QED
      BY Zenon, <2>2 DEF Unwrapped
  <1>3. k < j => scheduled[k].no + scheduled[k].frags <= scheduled[j].no
    <2>1. SUFFICES ASSUME k < j
                   PROVE  scheduled[k].no + scheduled[k].frags <= scheduled[j].no
      OBVIOUS
    <2>2. k \in 1 .. j - 1
      BY <1>1, <2>1, QueueFacts
    <2> QED
      BY Zenon, <2>2 DEF Unwrapped
  <1>4. ~(j < k) /\ ~(k < j)
    BY <1>1, <1>2, <1>3
  <1>5. k = j
    BY <1>1, <1>4
  <1> QED
    BY <1>1, <1>5

\* What arrives with the number of a fragment is that fragment.
LEMMA NumberIsFragment ==
  ASSUME QueueInv, NumbersInv, DatagramsInv, Unwrapped, NEW k \in DOMAIN scheduled, Numbered(k),
         NEW d \in got, NEW f \in 0 .. scheduled[k].frags - 1, d.no = scheduled[k].no + f
  PROVE  d = Fragment(k, f)
  <1>1. scheduled \in Seq(PacketRecord)
    BY DEF QueueInv
  <1>2. scheduled[k].no \in Nat /\ scheduled[k].frags \in Nat \ {0}
    BY <1>1, NumbersPlain
  <1>3. d.no # 0
    BY <1>2 DEF Numbered
  <1>4. IsFragment(d)
    BY Zenon, <1>3 DEF DatagramsInv
  <1>5. PICK j \in DOMAIN scheduled : \E g \in 0 .. scheduled[j].frags - 1 : Numbered(j) /\ d = Fragment(j, g)
    BY Zenon, <1>4 DEF IsFragment
  <1>6. PICK g \in 0 .. scheduled[j].frags - 1 : Numbered(j) /\ d = Fragment(j, g)
    BY <1>5
  <1>7. d.no = scheduled[j].no + g
    BY <1>6 DEF Fragment
  <1>8. k = j /\ f = g
    BY <1>6, <1>7, NumbersApart
  <1> QED
    BY <1>6, <1>8

\* The process has failed only after an ack for the middle of a packet.
LEMMA InvFails == SendInv => FailsOnlyAfterPartialAck
  <1> SUFFICES ASSUME SendInv
               PROVE  FailsOnlyAfterPartialAck
    OBVIOUS
  <1>1. QueueInv /\ DatagramsInv /\ CrashInv
    BY DEF SendInv
  <1>2. \A k \in DOMAIN scheduled : k > FirstQueued => ~Released(k)
    <2>1. ASSUME NEW k \in DOMAIN scheduled, k > FirstQueued
          PROVE  ~(k <= FirstQueued)
      <3>1. k \in Nat /\ FirstQueued \in Nat
        BY <1>1, QueueFacts
      <3> QED
        BY <2>1, <3>1
    <2> QED
      BY Zenon, <1>1, <2>1, QueueFacts
  <1>3. \A d \in got \cup datagrams : d.bytes <= DataSpace
    BY Zenon, <1>1 DEF DatagramsInv
  <1> QED
    BY Zenon, <1>1, <1>2, <1>3 DEF CrashInv, FailsOnlyAfterPartialAck

-----------------------------------------------------------------------------
(* Theorems *)

\* packet_trilogy_calc_length_and_frag_count gives a packet enough fragments for its bytes and the
\* opcode, which it does not count, exactly unless the length modulo 512 is 0 or 511.
THEOREM FragmentsFit ==
  ASSUME NEW len \in Nat \ {0}
  PROVE  SpaceOf(0, FragCount(len) - 1) >= len <=> len % DataSpace \notin {0, DataSpace - 1}
  <1>1. PICK q \in Nat, r \in 0 .. 511 : len = 512 * q + r
    <2>1. len \div 512 \in Nat /\ len % 512 \in 0 .. 511 /\ len = 512 * (len \div 512) + (len % 512)
      OBVIOUS
    <2> QED
      BY <2>1
  <1>2. len % DataSpace = r
    BY <1>1 DEF DataSpace
  <1>3. FragCount(len) = IF r = 0 THEN q ELSE q + 1
    BY <1>1 DEF FragCount, DataSpace
  <1>4. SpaceOf(0, FragCount(len) - 1) = FragCount(len) * 512 - 2 /\ FragCount(len) \in Nat \ {0}
    BY FragCountType DEF SpaceOf, DataSpace, OpcodeSize
  <1>5. FragCount(len) * 512 - 2 >= len <=> r # 0 /\ r # 511
    BY <1>1, <1>3
  <1> QED
    BY <1>2, <1>4, <1>5 DEF DataSpace

\* Fragments of a packet hold their space, and the last one the rest if it fits.
LEMMA FragmentSizes ==
  ASSUME NEW len \in Nat \ {0}, NEW f \in 0 .. FragCount(len) - 1
  PROVE  /\ f < FragCount(len) - 1 => FragBytes(len, f) = Space(f)
         /\ f = FragCount(len) - 1 =>
              (SpaceOf(0, f - 1) + FragBytes(len, f) = len <=> len % DataSpace \notin {0, DataSpace - 1})
  <1>1. FragCount(len) \in Nat \ {0}
    BY FragCountType
  <1>2. /\ SpaceOf(0, f) = SpaceOf(0, f - 1) + Space(f)
        /\ SpaceOf(0, f) = (f + 1) * 512 - 2 /\ SpaceOf(0, f - 1) \in Int /\ Space(f) \in Int
    BY <1>1 DEF SpaceOf, Space, DataSpace, OpcodeSize
  <1>3. CASE f < FragCount(len) - 1
    <2>1. FragCount(len) = (len + 511) \div 512
      BY <1>1, <1>3 DEF FragCount, DataSpace
    <2>2. len >= (f + 1) * 512
      <3>1. PICK q \in Int : q = (len + 511) \div 512
        OBVIOUS
      <3>2. 512 * q <= len + 511
        BY <3>1
      <3> QED
        BY <1>3, <2>1, <3>1, <3>2
    <2>3. Space(f) <= len - SpaceOf(0, f - 1)
      BY <1>2, <2>2
    <2> QED
      BY <1>1, <1>2, <1>3, <2>3 DEF FragBytes, LeastOf
  <1>4. CASE f = FragCount(len) - 1
    <2>1. SpaceOf(0, f - 1) + FragBytes(len, f) = len <=> SpaceOf(0, f) >= len
      BY <1>2 DEF FragBytes, LeastOf
    <2> QED
      BY <1>1, <1>4, <2>1, FragmentsFit
  <1> QED
    BY <1>1, <1>3, <1>4

\* What was released has arrived, fragment by fragment, as it was cut.
LEMMA InvReleased == SendInv => ReleasedIsReceived
  <1> SUFFICES ASSUME SendInv, Unwrapped, NEW k \in DOMAIN scheduled, Released(k), Numbered(k)
               PROVE  /\ Received(scheduled[k])
                      /\ \A d \in got : \A f \in 0 .. scheduled[k].frags - 1 :
                           d.no = scheduled[k].no + f => WholeUnlessCut(scheduled[k], f, d.bytes)
    BY Zenon DEF ReleasedIsReceived
  <1>1. QueueInv /\ NumbersInv /\ DatagramsInv /\ AcksInv
    BY DEF SendInv
  <1>2. Received(scheduled[k])
    BY <1>1, QueueFacts DEF AcksInv
  <1>3. ASSUME NEW d \in got, NEW f \in 0 .. scheduled[k].frags - 1, d.no = scheduled[k].no + f
        PROVE  WholeUnlessCut(scheduled[k], f, d.bytes)
    <2>1. d = Fragment(k, f)
      BY <1>1, <1>3, NumberIsFragment
    <2>2. d.bytes = FragBytes(scheduled[k].len, f)
      BY <2>1 DEF Fragment
    <2>3. scheduled \in Seq(PacketRecord) /\ scheduled[k].frags = FragCount(scheduled[k].len)
      BY Zenon, <1>1 DEF QueueInv
    <2>4. scheduled[k] \in PacketRecord
      BY <2>3, ElementOfSeq, LenProperties
    <2>5. scheduled[k].len \in Nat \ {0}
      BY <2>4 DEF PacketRecord
    <2> QED
      BY <2>2, <2>3, <2>5, FragmentSizes DEF WholeUnlessCut
  <1> QED
    BY Zenon, <1>2, <1>3

\* The queue is the end of what was scheduled, the numbers are given once and in order, every
\* datagram is a fragment as packet_trilogy_fragmentize cut it, and nothing is acknowledged or
\* released that has not arrived.
THEOREM SendInductive == SendSpec => []SendInv
  <1>1. SendInit => SendInv
    BY SendInvInit
  <1>2. SendInv /\ [SendNext]_sendVars => SendInv'
    <2> SUFFICES ASSUME SendInv, [SendNext]_sendVars
                 PROVE  SendInv'
      OBVIOUS
    <2>1. ASSUME NEW len \in Lengths, NEW noAck \in BOOLEAN, Schedule(len, noAck)
          PROVE  SendInv'
      BY <2>1, ScheduleAppends, ScheduleKeeps
    <2>2. CASE SendQueued
      BY <2>2, SendQueuedKeeps
    <2>3. ASSUME NEW i \in 1 .. MaxPackets, Timeout(i)
          PROVE  SendInv'
      BY <2>3, TimeoutKeeps
    <2>4. ASSUME NEW a \in clientAcks, RecvAck(a)
          PROVE  SendInv'
      BY <2>4, RecvAckKeeps
    <2>5. ASSUME NEW d \in datagrams, ClientReceives(d)
          PROVE  SendInv'
      BY <2>5, ClientReceivesKeeps
    <2>6. CASE Lose
      BY <2>6, LoseKeeps
    <2>7. CASE UNCHANGED sendVars
      <3>1. UNCHANGED serverVars /\ datagrams' = datagrams /\ got' = got /\ clientAcks' = clientAcks
        BY <2>7 DEF sendVars, networkVars
      <3>2. clientAcks \subseteq Nat
        BY DEF SendInv, QueueInv
      <3> QED
        BY <3>1, <3>2, NetworkKeeps
    <2> QED
      BY <2>1, <2>2, <2>3, <2>4, <2>5, <2>6, <2>7 DEF SendNext
  <1> QED
    BY <1>1, <1>2, PTL DEF SendSpec

\* For any lengths and however many packets, whatever is lost, delayed, reordered or sent again:
\* network_client_trilogy_recv_ack_response releases a packet only when the client has its fragments, each of them whole
\* unless the length modulo 512 is 0 or 511.
THEOREM ReleasedHolds == SendSpec => []ReleasedIsReceived
  BY SendInductive, InvReleased, PTL

\* network_client_trilogy_send_queued fails only after an ack for the middle of a packet, and
\* never sends more in a datagram than a fragment may hold.
THEOREM FailsHolds == SendSpec => []FailsOnlyAfterPartialAck
  BY SendInductive, InvFails, PTL
=============================================================================
