--------------------------- MODULE LogWriterProofs ---------------------------
(***************************************************************************)
(* Proofs about LogWriter, for every set of sources and any number of      *)
(* packets: the packets are handled once each and in order, and a message  *)
(* reaches its file exactly when the file is open.                         *)
(***************************************************************************)
EXTENDS LogWriter, SequenceTheorems, TLAPS

Packet == [op : {"open", "message", "close"}, source : Sources, id : Int]
Entry == [packet : Packet, result : {"written", "dropped", "opened", "failed", "closed"}]

-----------------------------------------------------------------------------
(* The history of handled packets *)

\* The packets of the history
Packets(h) == [k \in DOMAIN h |-> h[k].packet]

\* Whether, after the first m entries, source s has opened its file and not closed it
OpenIn(h, s, m) ==
    \E j \in 1 .. m :
        /\ h[j].packet.source = s /\ h[j].result = "opened"
        /\ \A l \in j + 1 .. m : h[l].packet.source = s => h[l].result # "closed"

LEMMA PacketsOfEntries ==
  ASSUME NEW h \in Seq(Entry)
  PROVE  /\ Packets(h) \in Seq(Packet) /\ Len(Packets(h)) = Len(h)
         /\ Len(h) \in Nat /\ DOMAIN h = 1 .. Len(h)
         /\ \A k \in 1 .. Len(h) : h[k] \in Entry /\ Packets(h)[k] = h[k].packet
  <1>1. Len(h) \in Nat /\ DOMAIN h = 1 .. Len(h)
    BY LenProperties
  <1>2. \A k \in 1 .. Len(h) : h[k] \in Entry
    BY ElementOfSeq
  <1>3. \A k \in 1 .. Len(h) : h[k].packet \in Packet
    BY <1>2 DEF Entry
  <1>4. Packets(h) = [k \in 1 .. Len(h) |-> h[k].packet]
    BY <1>1 DEF Packets
  <1>5. [k \in 1 .. Len(h) |-> h[k].packet] \in Seq(Packet)
    BY <1>1, <1>3
  <1>6. Len([k \in 1 .. Len(h) |-> h[k].packet]) = Len(h)
    BY <1>1
  <1> QED
    BY <1>1, <1>2, <1>4, <1>5, <1>6

LEMMA EntryAdded ==
  ASSUME NEW h \in Seq(Entry), NEW e \in Entry
  PROVE  /\ Append(h, e) \in Seq(Entry) /\ Len(Append(h, e)) = Len(h) + 1
         /\ \A k \in 1 .. Len(h) : Append(h, e)[k] = h[k]
         /\ Append(h, e)[Len(h) + 1] = e
         /\ Packets(Append(h, e)) = Packets(h) \o <<e.packet>>
  <1> DEFINE g == Append(h, e)
             N == Len(h)
             p == e.packet
  <1>1. /\ g \in Seq(Entry) /\ Len(g) = N + 1
        /\ \A k \in 1 .. N : g[k] = h[k]
        /\ g[N + 1] = e
    BY AppendProperties
  <1>2. p \in Packet
    BY DEF Entry
  <1>3. /\ Packets(h) \in Seq(Packet) /\ Len(Packets(h)) = N /\ N \in Nat
        /\ \A k \in 1 .. N : Packets(h)[k] = h[k].packet
    BY PacketsOfEntries
  <1>4. /\ Packets(g) \in Seq(Packet) /\ Len(Packets(g)) = N + 1
        /\ \A k \in 1 .. N + 1 : Packets(g)[k] = g[k].packet
    <2> HIDE DEF g
    <2> QED
      BY <1>1, PacketsOfEntries
  <1>5. Append(Packets(h), p) = Packets(h) \o <<p>>
    BY <1>2, <1>3, AppendIsConcat
  <1>6. /\ Append(Packets(h), p) \in Seq(Packet) /\ Len(Append(Packets(h), p)) = N + 1
        /\ \A k \in 1 .. N : Append(Packets(h), p)[k] = Packets(h)[k]
        /\ Append(Packets(h), p)[N + 1] = p
    BY <1>2, <1>3, AppendProperties
  <1>7. ASSUME NEW k \in 1 .. N + 1
        PROVE  Packets(g)[k] = Append(Packets(h), p)[k]
    <2>1. CASE k \in 1 .. N
      BY <1>1, <1>3, <1>4, <1>6, <2>1
    <2>2. CASE k = N + 1
      BY <1>1, <1>4, <1>6, <2>2
    <2> QED
      BY <1>3, <2>1, <2>2
  <1>8. Packets(g) = Append(Packets(h), p)
    <2> HIDE DEF g, p, N
    <2>1. /\ Len(Packets(g)) = Len(Append(Packets(h), p))
          /\ \A k \in 1 .. Len(Packets(g)) : Packets(g)[k] = Append(Packets(h), p)[k]
      BY <1>4, <1>6, <1>7
    <2> QED
      BY <1>4, <1>6, <2>1, SeqEqual
  <1> QED
    BY <1>1, <1>5, <1>8

\* An entry changes what is open only when it opens or closes the file.
LEMMA OpenAdded ==
  ASSUME NEW h \in Seq(Entry), NEW e \in Entry, NEW s
  PROVE  /\ \A m \in 0 .. Len(h) : OpenIn(Append(h, e), s, m) <=> OpenIn(h, s, m)
         /\ OpenIn(Append(h, e), s, Len(h) + 1) <=>
              \/ e.packet.source = s /\ e.result = "opened"
              \/ OpenIn(h, s, Len(h)) /\ ~(e.packet.source = s /\ e.result = "closed")
  <1> DEFINE g == Append(h, e)
             N == Len(h)
  <1>1. /\ N \in Nat /\ g[N + 1] = e
        /\ \A k \in 1 .. N : g[k] = h[k]
    BY EntryAdded, PacketsOfEntries
  <1> HIDE DEF g, N
  <1>2. ASSUME NEW m \in 0 .. N
        PROVE  OpenIn(g, s, m) <=> OpenIn(h, s, m)
    <2>1. \A j \in 1 .. m : g[j] = h[j]
      BY <1>1
    <2>2. \A j \in 1 .. m : \A l \in j + 1 .. m : g[l] = h[l]
      BY <1>1
    <2> QED
      BY <2>1, <2>2 DEF OpenIn
  <1>3. ASSUME OpenIn(g, s, N + 1)
        PROVE  \/ e.packet.source = s /\ e.result = "opened"
               \/ OpenIn(g, s, N) /\ ~(e.packet.source = s /\ e.result = "closed")
    <2>1. PICK j \in 1 .. N + 1 :
            /\ g[j].packet.source = s /\ g[j].result = "opened"
            /\ \A l \in j + 1 .. N + 1 : g[l].packet.source = s => g[l].result # "closed"
      BY <1>3 DEF OpenIn
    <2>2. CASE j = N + 1
      BY <1>1, <2>1, <2>2
    <2>3. CASE j # N + 1
      <3>1. j \in 1 .. N /\ N + 1 \in j + 1 .. N + 1 /\ \A l \in j + 1 .. N : l \in j + 1 .. N + 1
        BY <1>1, <2>3
      <3>2. OpenIn(g, s, N)
        BY <2>1, <3>1 DEF OpenIn
      <3>3. ~(e.packet.source = s /\ e.result = "closed")
        BY <1>1, <2>1, <3>1
      <3> QED
        BY <3>2, <3>3
    <2> QED
      BY <2>2, <2>3
  <1>4. ASSUME e.packet.source = s, e.result = "opened"
        PROVE  OpenIn(g, s, N + 1)
    <2>1. N + 1 \in 1 .. N + 1 /\ \A l \in N + 1 + 1 .. N + 1 : FALSE
      BY <1>1
    <2> QED
      BY <1>1, <1>4, <2>1 DEF OpenIn
  <1>5. ASSUME OpenIn(g, s, N), ~(e.packet.source = s /\ e.result = "closed")
        PROVE  OpenIn(g, s, N + 1)
    <2>1. PICK j \in 1 .. N :
            /\ g[j].packet.source = s /\ g[j].result = "opened"
            /\ \A l \in j + 1 .. N : g[l].packet.source = s => g[l].result # "closed"
      BY <1>5 DEF OpenIn
    <2>2. j \in 1 .. N + 1 /\ \A l \in j + 1 .. N + 1 : l \in j + 1 .. N \/ l = N + 1
      BY <1>1
    <2>3. \A l \in j + 1 .. N + 1 : g[l].packet.source = s => g[l].result # "closed"
      BY <1>1, <1>5, <2>1, <2>2
    <2> QED
      BY <2>1, <2>2, <2>3 DEF OpenIn
  <1>6. N \in 0 .. N
    BY <1>1
  <1> QED
    BY <1>2, <1>3, <1>4, <1>5, <1>6 DEF g, N

-----------------------------------------------------------------------------
(* The queues *)

LEMMA Assoc ==
  ASSUME NEW a \in Seq(Packet), NEW b \in Seq(Packet), NEW c \in Seq(Packet)
  PROVE  a \o (b \o c) = (a \o b) \o c
  BY ConcatAssociative

\* A pass is its first packet and the rest of it.
LEMMA FirstOfPass ==
  ASSUME NEW w \in Seq(Packet), NEW j \in Nat, NEW l \in Nat, 1 <= j, j <= l, l <= Len(w)
  PROVE  /\ SubSeq(w, j, l) = <<w[j]>> \o SubSeq(w, j + 1, l)
         /\ <<w[j]>> \in Seq(Packet) /\ SubSeq(w, j + 1, l) \in Seq(Packet)
  <1>1. Len(w) \in Nat /\ \A k \in 1 .. Len(w) : w[k] \in Packet
    BY LenProperties, ElementOfSeq
  <1>2. j \in 1 .. Len(w) /\ l \in j .. Len(w)
    BY <1>1
  <1>3. SubSeq(w, j, l) = <<w[j]>> \o SubSeq(w, j + 1, l)
    BY <1>2, SubSeqRecursiveFirst
  <1>4. <<w[j]>> \in Seq(Packet)
    BY <1>1, <1>2
  <1>5. j + 1 \in Int /\ l \in Int /\ \A k \in j + 1 .. l : w[k] \in Packet
    BY <1>1, <1>2
  <1>6. SubSeq(w, j + 1, l) \in Seq(Packet)
    BY <1>5, SubSeqProperties
  <1> QED
    BY <1>3, <1>4, <1>6

\* What is pushed behind the end of the pass does not change the pass.
LEMMA PassUnchanged ==
  ASSUME NEW w \in Seq(Packet), NEW p \in Packet,
         NEW j \in Nat, NEW l \in Nat, 1 <= j, l <= Len(w)
  PROVE  SubSeq(Append(w, p), j, l) = SubSeq(w, j, l)
  <1> DEFINE x == Append(w, p)
  <1>1. Len(w) \in Nat /\ \A k \in 1 .. Len(w) : w[k] \in Packet /\ x[k] = w[k]
    BY LenProperties, ElementOfSeq, AppendProperties
  <1> HIDE DEF x
  <1>2. j \in Int /\ l \in Int /\ \A k \in j .. l : w[k] \in Packet /\ x[k] \in Packet /\ x[k] = w[k]
    BY <1>1
  <1>3. /\ SubSeq(w, j, l) \in Seq(Packet)
        /\ Len(SubSeq(w, j, l)) = IF j <= l THEN l - j + 1 ELSE 0
        /\ \A k \in 1 .. l - j + 1 : SubSeq(w, j, l)[k] = w[j + k - 1]
    BY <1>2, SubSeqProperties
  <1>4. /\ SubSeq(x, j, l) \in Seq(Packet)
        /\ Len(SubSeq(x, j, l)) = IF j <= l THEN l - j + 1 ELSE 0
        /\ \A k \in 1 .. l - j + 1 : SubSeq(x, j, l)[k] = x[j + k - 1]
    BY <1>2, SubSeqProperties
  <1>5. Len(SubSeq(x, j, l)) = Len(SubSeq(w, j, l))
    BY <1>3, <1>4
  <1>6. ASSUME NEW k \in 1 .. Len(SubSeq(x, j, l))
        PROVE  SubSeq(x, j, l)[k] = SubSeq(w, j, l)[k]
    <2>1. k \in 1 .. l - j + 1 /\ j + k - 1 \in j .. l
      BY <1>2, <1>4
    <2> QED
      BY <1>2, <1>3, <1>4, <2>1
  <1> QED
    BY <1>3, <1>4, <1>5, <1>6, SeqEqual DEF x

-----------------------------------------------------------------------------
(* The list of open files *)

Elems(s) == {s[k] : k \in DOMAIN s}
Distinct(s) == \A a, b \in DOMAIN s : s[a] = s[b] => a = b

\* A list of open files, each of them in it once
FileList(s) == s \in Seq(Sources) /\ Distinct(s)

LEMMA FileFacts ==
  ASSUME NEW s, FileList(s)
  PROVE  /\ s \in Seq(Sources) /\ Len(s) \in Nat /\ DOMAIN s = 1 .. Len(s)
         /\ \A k \in 1 .. Len(s) : s[k] \in Sources /\ s[k] \in Elems(s)
         /\ \A a, b \in 1 .. Len(s) : s[a] = s[b] => a = b
  <1>1. s \in Seq(Sources)
    BY DEF FileList
  <1>2. Len(s) \in Nat /\ DOMAIN s = 1 .. Len(s)
    BY <1>1, LenProperties
  <1>3. \A k \in 1 .. Len(s) : s[k] \in Sources
    BY <1>1, ElementOfSeq
  <1> QED
    BY <1>1, <1>2, <1>3 DEF Elems, FileList, Distinct

LEMMA NoFiles == FileList(<<>>) /\ Elems(<<>>) = {}
  <1>1. <<>> \in Seq(Sources) /\ DOMAIN <<>> = {}
    OBVIOUS
  <1> QED
    BY <1>1 DEF FileList, Distinct, Elems

\* The file of a source that has none open is opened.
LEMMA FileAdded ==
  ASSUME NEW s, FileList(s), NEW e \in Sources, e \notin Elems(s)
  PROVE  FileList(Append(s, e)) /\ Elems(Append(s, e)) = Elems(s) \cup {e}
  <1> DEFINE t == Append(s, e)
             N == Len(s)
  <1>1. /\ t \in Seq(Sources) /\ Len(t) = N + 1 /\ N \in Nat
        /\ \A k \in 1 .. N : t[k] = s[k]
        /\ t[N + 1] = e
    BY FileFacts, AppendProperties
  <1>2. DOMAIN t = 1 .. N + 1 /\ DOMAIN s = 1 .. N
    BY <1>1, LenProperties, FileFacts
  <1> HIDE DEF t, N
  <1>3. \A k \in 1 .. N + 1 : k \in 1 .. N \/ k = N + 1
    BY <1>1
  <1>4. 1 .. N \subseteq 1 .. N + 1 /\ N + 1 \in 1 .. N + 1
    BY <1>1
  <1>5. Elems(t) = Elems(s) \cup {e}
    BY <1>1, <1>2, <1>3, <1>4 DEF Elems
  <1>6. \A k \in 1 .. N : s[k] # e
    BY <1>2 DEF Elems
  <1>7. Distinct(t)
    BY <1>1, <1>2, <1>3, <1>6 DEF Distinct, FileList
  <1> QED
    BY <1>1, <1>5, <1>7 DEF FileList, t

\* array_swap_and_pop takes one file from the list, and no other.
LEMMA FileRemoved ==
  ASSUME NEW s, FileList(s), NEW k \in 1 .. Len(s)
  PROVE  FileList(Remove(s, k)) /\ Elems(Remove(s, k)) = Elems(s) \ {s[k]}
  <1> DEFINE N == Len(s)
             r == [s EXCEPT ![k] = s[N]]
             t == SubSeq(r, 1, N - 1)
  <1>1. /\ N \in Nat \ {0} /\ DOMAIN s = 1 .. N /\ s \in Seq(Sources)
        /\ \A a \in 1 .. N : s[a] \in Sources
        /\ \A a, b \in 1 .. N : s[a] = s[b] => a = b
    BY FileFacts
  <1>2. /\ Len(r) = N
        /\ \A a \in 1 .. N : r[a] = IF a = k THEN s[N] ELSE s[a]
    BY <1>1, ExceptSeq
  <1>3. Remove(s, k) = t
    BY DEF Remove
  <1> HIDE DEF r, N
  <1>4. /\ t \in Seq(Sources) /\ Len(t) = N - 1
        /\ \A a \in 1 .. N - 1 : t[a] = IF a = k THEN s[N] ELSE s[a]
    <2>1. 1 \in Int /\ N - 1 \in Int /\ \A a \in 1 .. N - 1 : r[a] \in Sources
      BY <1>1, <1>2
    <2>2. /\ t \in Seq(Sources)
          /\ Len(t) = IF 1 <= N - 1 THEN N - 1 - 1 + 1 ELSE 0
          /\ \A a \in 1 .. N - 1 - 1 + 1 : t[a] = r[1 + a - 1]
      BY <2>1, SubSeqProperties
    <2> HIDE DEF t
    <2>3. Len(t) = N - 1
      BY <1>1, <2>2
    <2>4. ASSUME NEW a \in 1 .. N - 1
          PROVE  t[a] = IF a = k THEN s[N] ELSE s[a]
      <3>1. a \in 1 .. N - 1 - 1 + 1 /\ 1 + a - 1 = a /\ a \in 1 .. N
        BY <1>1
      <3> QED
        BY <1>2, <2>2, <3>1
    <2> QED
      BY <2>2, <2>3, <2>4
  <1>5. DOMAIN t = 1 .. N - 1
    BY <1>4, LenProperties
  <1> HIDE DEF t
  <1>6. k \in 1 .. N /\ N \in 1 .. N
    BY <1>1 DEF N
  <1>7. \A a \in 1 .. N - 1 : a \in 1 .. N /\ a # N
    BY <1>1
  <1>8. \A a \in 1 .. N : a \in 1 .. N - 1 \/ a = N
    BY <1>1
  <1>9. Distinct(t)
    <2> SUFFICES ASSUME NEW a \in 1 .. N - 1, NEW b \in 1 .. N - 1, t[a] = t[b]
                 PROVE  a = b
      BY <1>5 DEF Distinct
    <2>1. a \in 1 .. N /\ b \in 1 .. N /\ a # N /\ b # N
      BY <1>7
    <2> QED
      BY <1>1, <1>4, <1>6, <2>1
  <1>10. Elems(t) \subseteq Elems(s) \ {s[k]}
    <2> SUFFICES ASSUME NEW a \in 1 .. N - 1
                 PROVE  t[a] \in Elems(s) /\ t[a] # s[k]
      BY <1>5 DEF Elems
    <2>1. a \in 1 .. N /\ a # N
      BY <1>7
    <2> QED
      BY <1>1, <1>4, <1>6, <2>1 DEF Elems
  <1>11. Elems(s) \ {s[k]} \subseteq Elems(t)
    <2> SUFFICES ASSUME NEW a \in 1 .. N, s[a] # s[k]
                 PROVE  s[a] \in Elems(t)
      BY <1>1 DEF Elems
    <2>1. CASE a # N
      <3>1. a \in 1 .. N - 1 /\ t[a] = s[a]
        BY <1>4, <1>8, <2>1
      <3> QED
        BY <1>5, <3>1 DEF Elems
    <2>2. CASE a = N
      <3>1. k \in 1 .. N - 1 /\ t[k] = s[a]
        BY <1>4, <1>6, <1>8, <2>2
      <3> QED
        BY <1>5, <3>1 DEF Elems
    <2> QED
      BY <2>1, <2>2
  <1> QED
    BY <1>3, <1>4, <1>9, <1>10, <1>11 DEF FileList

-----------------------------------------------------------------------------
(* The inductive invariant *)

LogTypes ==
    /\ posted \in Seq(Packet) /\ inQueue \in Seq(Packet) /\ writeQueue \in Seq(Packet)
    /\ handled \in Seq(Entry)
    /\ n \in Nat /\ i \in Nat
    /\ FileList(logFiles)

\* Where a pass over writeQueue is; between two passes the queue is empty.
PassInv ==
    /\ pc \in {"process", "undefined"} => 1 <= i /\ i <= n + 1 /\ n <= Len(writeQueue)
    /\ pc \notin {"process", "undefined"} => writeQueue = <<>> /\ n = 0 /\ i = 1

\* Every packet that was posted is handled, in the pass or in the input queue.
OrderInv == pc # "undefined" => posted = Packets(handled) \o SubSeq(writeQueue, i, n) \o inQueue

\* The open files are those the history opened and did not close.
FilesInv ==
    pc # "stopped" =>
        \A s \in Sources : s \in Elems(logFiles) <=> OpenIn(handled, s, Len(handled))

\* A message was written exactly when its file was open.
WrittenInv ==
    \A k \in 1 .. Len(handled) : handled[k].packet.op = "message" =>
        (handled[k].result = "written" <=> OpenIn(handled, handled[k].packet.source, k - 1))

LogInv == LogTypes /\ PassInv /\ OrderInv /\ FilesInv /\ WrittenInv

\* The queues, the history and the files are as before, and so is the pass.
Same == UNCHANGED <<posted, inQueue, writeQueue, handled, n, i, logFiles>>

LEMMA SameKept ==
  ASSUME LogInv, Same, pc' = pc
  PROVE  LogInv'
  <1>1. /\ posted' = posted /\ inQueue' = inQueue /\ writeQueue' = writeQueue
        /\ handled' = handled /\ n' = n /\ i' = i /\ logFiles' = logFiles
    BY DEF Same
  <1> QED
    BY <1>1 DEF LogInv, LogTypes, PassInv, OrderInv, FilesInv, WrittenInv

\* The thread goes from one place between two passes to another.
LEMMA BetweenPasses ==
  ASSUME LogInv, Same, pc \in {"wait", "read", "check"}, pc' \in {"wait", "read", "check", "stopped"}
  PROVE  LogInv'
  <1>1. /\ posted' = posted /\ inQueue' = inQueue /\ writeQueue' = writeQueue
        /\ handled' = handled /\ n' = n /\ i' = i /\ logFiles' = logFiles
    BY DEF Same
  <1>2. pc \notin {"process", "undefined"} /\ pc # "undefined" /\ pc # "stopped"
    OBVIOUS
  <1>3. pc' \notin {"process", "undefined"}
    OBVIOUS
  <1> QED
    BY <1>1, <1>2, <1>3 DEF LogInv, LogTypes, PassInv, OrderInv, FilesInv, WrittenInv

LEMMA InitKept == Init => LogInv
  <1> SUFFICES ASSUME Init PROVE LogInv
    OBVIOUS
  <1>1. /\ inQueue = <<>> /\ writeQueue = <<>> /\ logFiles = <<>> /\ n = 0 /\ i = 1
        /\ posted = <<>> /\ handled = <<>> /\ pc = "wait"
    BY DEF Init
  <1>2. LogTypes
    BY <1>1, NoFiles DEF LogTypes
  <1>3. PassInv
    BY <1>1 DEF PassInv
  <1>4. OrderInv
    <2>1. Packets(<<>>) \in Seq(Packet) /\ Len(Packets(<<>>)) = 0
      <3>1. <<>> \in Seq(Entry) /\ Len(<<>>) = 0
        BY EmptySeq
      <3> QED
        BY <3>1, PacketsOfEntries
    <2>2. Packets(<<>>) = <<>>
      BY <2>1, EmptySeq
    <2>3. SubSeq(<<>>, 1, 0) = <<>>
      BY SubSeqEmpty
    <2>4. <<>> \o <<>> = <<>> /\ <<>> \in Seq(Packet)
      BY ConcatEmptySeq, EmptySeq
    <2> QED
      BY <1>1, <2>2, <2>3, <2>4 DEF OrderInv
  <1>5. FilesInv
    <2>1. Len(<<>>) = 0 /\ 1 .. 0 = {}
      BY EmptySeq
    <2>2. \A s : ~OpenIn(<<>>, s, 0)
      BY <2>1 DEF OpenIn
    <2> QED
      BY <1>1, <2>1, <2>2, NoFiles DEF FilesInv
  <1>6. WrittenInv
    <2>1. Len(<<>>) = 0 /\ 1 .. 0 = {}
      BY EmptySeq
    <2> QED
      BY <1>1, <2>1 DEF WrittenInv
  <1> QED
    BY <1>2, <1>3, <1>4, <1>5, <1>6 DEF LogInv

LEMMA PostKept ==
  ASSUME LogInv, NEW s \in Sources, NEW op \in Ops(s), Post(op, s)
  PROVE  LogInv'
  <1> DEFINE p == [op |-> op, source |-> s, id |-> Len(posted) + 1]
             a == Packets(handled)
             b == SubSeq(writeQueue, i, n)
  <1>1. /\ inQueue' = Append(inQueue, p) /\ posted' = Append(posted, p)
        /\ writeQueue' = writeQueue /\ handled' = handled /\ n' = n /\ i' = i
        /\ logFiles' = logFiles /\ pc' = pc
    BY DEF Post, passVars
  <1>2. LogTypes
    BY DEF LogInv
  <1>3. p \in Packet
    <2>1. op \in {"open", "message", "close"}
      BY DEF Ops
    <2>2. Len(posted) + 1 \in Int
      BY <1>2, LenProperties DEF LogTypes
    <2> QED
      BY <2>1, <2>2 DEF Packet
  <1> HIDE DEF p
  <1>4. inQueue' \in Seq(Packet) /\ posted' \in Seq(Packet)
    BY <1>1, <1>2, <1>3, AppendProperties DEF LogTypes
  <1>5. LogTypes'
    BY <1>1, <1>2, <1>4 DEF LogTypes
  <1>6. ASSUME pc # "undefined"
        PROVE  posted' = a \o b \o inQueue'
    <2>1. a \in Seq(Packet)
      BY <1>2, PacketsOfEntries DEF LogTypes
    <2>2. b \in Seq(Packet)
      <3>1. \A k \in i .. n : writeQueue[k] \in Packet
        <4>1. CASE pc \in {"process", "undefined"}
          <5>1. 1 <= i /\ n <= Len(writeQueue) /\ Len(writeQueue) \in Nat
            BY <1>2, <4>1, LenProperties DEF LogInv, PassInv, LogTypes
          <5>2. \A k \in i .. n : k \in 1 .. Len(writeQueue)
            BY <1>2, <5>1 DEF LogTypes
          <5> QED
            BY <1>2, <5>2, ElementOfSeq DEF LogTypes
        <4>2. CASE pc \notin {"process", "undefined"}
          BY <4>2 DEF LogInv, PassInv
        <4> QED
          BY <4>1, <4>2
      <3>2. i \in Int /\ n \in Int
        BY <1>2 DEF LogTypes
      <3> QED
        BY <3>1, <3>2, SubSeqProperties
    <2>3. a \o b \in Seq(Packet)
      BY <2>1, <2>2, ConcatProperties
    <2>4. posted = (a \o b) \o inQueue
      BY <1>6 DEF LogInv, OrderInv
    <2> HIDE DEF a, b
    <2>5. posted' = posted \o <<p>> /\ inQueue' = inQueue \o <<p>>
      BY <1>1, <1>2, <1>3, AppendIsConcat DEF LogTypes
    <2>6. <<p>> \in Seq(Packet) /\ inQueue \in Seq(Packet)
      BY <1>2, <1>3 DEF LogTypes
    <2>7. ((a \o b) \o inQueue) \o <<p>> = (a \o b) \o (inQueue \o <<p>>)
      BY <2>3, <2>6, ConcatAssociative
    <2> QED
      BY <2>4, <2>5, <2>7
  <1>7. OrderInv'
    BY <1>1, <1>6 DEF OrderInv
  <1> QED
    BY <1>1, <1>5, <1>7 DEF LogInv, PassInv, FilesInv, WrittenInv

LEMMA ReadKept ==
  ASSUME LogInv, ReadInputQueue
  PROVE  LogInv'
  <1> DEFINE a == Packets(handled)
  <1>1. /\ pc = "read" /\ writeQueue' = writeQueue \o inQueue /\ inQueue' = <<>>
        /\ n' = Len(writeQueue') /\ i' = 1 /\ pc' = "process"
        /\ logFiles' = logFiles /\ posted' = posted /\ handled' = handled
    BY DEF ReadInputQueue, historyVars
  <1>2. LogTypes
    BY DEF LogInv
  <1>3. writeQueue = <<>> /\ n = 0 /\ i = 1
    BY <1>1 DEF LogInv, PassInv
  <1>4. writeQueue' = inQueue
    BY <1>1, <1>2, <1>3, ConcatEmptySeq DEF LogTypes
  <1>5. n' \in Nat
    BY <1>1, <1>2, <1>4, LenProperties DEF LogTypes
  <1>6. LogTypes'
    BY <1>1, <1>2, <1>4, <1>5, EmptySeq DEF LogTypes
  <1>7. PassInv'
    BY <1>1, <1>5 DEF PassInv
  <1>8. OrderInv'
    <2>1. a \in Seq(Packet)
      BY <1>2, PacketsOfEntries DEF LogTypes
    <2>2. posted = a \o SubSeq(<<>>, 1, 0) \o inQueue
      BY <1>1, <1>3 DEF LogInv, OrderInv
    <2>3. SubSeq(<<>>, 1, 0) = <<>>
      BY SubSeqEmpty
    <2>4. SubSeq(writeQueue', i', n') = inQueue
      BY <1>1, <1>2, <1>4, SubSeqFull DEF LogTypes
    <2> HIDE DEF a
    <2>5. a \o <<>> = a
      BY <2>1, ConcatEmptySeq
    <2>6. a \o inQueue \in Seq(Packet)
      BY <1>2, <2>1, ConcatProperties DEF LogTypes
    <2>7. (a \o inQueue) \o <<>> = a \o inQueue
      BY <2>6, ConcatEmptySeq
    <2>8. posted' = a \o SubSeq(writeQueue', i', n') \o inQueue'
      BY <1>1, <2>2, <2>3, <2>4, <2>5, <2>7
    <2>9. a = Packets(handled')
      BY <1>1 DEF a
    <2> QED
      BY <2>8, <2>9 DEF OrderInv
  <1>9. FilesInv' /\ WrittenInv'
    BY <1>1 DEF LogInv, FilesInv, WrittenInv
  <1> QED
    BY <1>6, <1>7, <1>8, <1>9 DEF LogInv

LEMMA EndPassKept ==
  ASSUME LogInv, EndPass
  PROVE  LogInv'
  <1>1. /\ pc = "process" /\ i > n /\ writeQueue' = <<>> /\ n' = 0 /\ i' = 1 /\ pc' = "read"
        /\ inQueue' = inQueue /\ logFiles' = logFiles /\ posted' = posted /\ handled' = handled
    BY DEF EndPass, historyVars
  <1>2. LogTypes
    BY DEF LogInv
  <1>3. LogTypes'
    BY <1>1, <1>2, EmptySeq DEF LogTypes
  <1>4. PassInv'
    BY <1>1 DEF PassInv
  <1>5. OrderInv'
    <2>1. SubSeq(writeQueue, i, n) = <<>>
      BY <1>1, <1>2, SubSeqEmpty DEF LogTypes
    <2>2. SubSeq(<<>>, 1, 0) = <<>>
      BY SubSeqEmpty
    <2> QED
      BY <1>1, <2>1, <2>2 DEF LogInv, OrderInv
  <1>6. FilesInv' /\ WrittenInv'
    BY <1>1 DEF LogInv, FilesInv, WrittenInv
  <1> QED
    BY <1>3, <1>4, <1>5, <1>6 DEF LogInv

LEMMA CheckStopKept ==
  ASSUME LogInv, CheckStop
  PROVE  LogInv'
  <1>1. /\ pc = "check" /\ inQueue' = inQueue /\ writeQueue' = writeQueue
        /\ n' = n /\ i' = i /\ posted' = posted /\ handled' = handled
        /\ pc' = IF shouldStop THEN "stopped" ELSE "wait"
        /\ logFiles' = IF shouldStop THEN <<>> ELSE logFiles
    BY DEF CheckStop, passVars, historyVars
  <1>2. CASE shouldStop
    <2>1. pc' = "stopped" /\ logFiles' = <<>>
      BY <1>1, <1>2
    <2>2. FileList(logFiles')
      BY <2>1, NoFiles
    <2> QED
      BY <1>1, <2>1, <2>2 DEF LogInv, LogTypes, PassInv, OrderInv, FilesInv, WrittenInv
  <1>3. CASE ~shouldStop
    <2>1. Same /\ pc' = "wait"
      BY <1>1, <1>3 DEF Same
    <2> QED
      BY <1>1, <2>1, BetweenPasses
  <1> QED
    BY <1>2, <1>3

-----------------------------------------------------------------------------
(* Handling a packet *)

Results == {"written", "dropped", "opened", "failed", "closed"}

\* What all the handlers share: the packet of the pass goes to the history, and
\* the file list agrees with the history again when the handler kept it so.
LEMMA HandleKept ==
  ASSUME LogInv, pc = "process", i <= n, NEW r \in Results,
         Handle(writeQueue[i], r),
         \/ writeQueue' = writeQueue
         \/ writeQueue' = Append(writeQueue, Report(writeQueue[i])),
         FileList(logFiles'),
         \A s \in Sources : s \in Elems(logFiles') <=>
             \/ writeQueue[i].source = s /\ r = "opened"
             \/ s \in Elems(logFiles) /\ ~(writeQueue[i].source = s /\ r = "closed"),
         writeQueue[i].op = "message" =>
             (r = "written" <=> writeQueue[i].source \in Elems(logFiles))
  PROVE  LogInv'
  <1> DEFINE p == writeQueue[i]
             e == [packet |-> p, result |-> r]
             a == Packets(handled)
             N == Len(handled)
  <1>1. /\ handled' = Append(handled, e) /\ i' = i + 1 /\ inQueue' = inQueue /\ n' = n
        /\ pc' = pc /\ posted' = posted
    BY DEF Handle
  <1>2. LogTypes
    BY DEF LogInv
  <1>3. /\ 1 <= i /\ n <= Len(writeQueue) /\ Len(writeQueue) \in Nat
        /\ i \in Nat /\ n \in Nat /\ i \in 1 .. Len(writeQueue)
    <2>1. 1 <= i /\ n <= Len(writeQueue)
      BY DEF LogInv, PassInv
    <2>2. Len(writeQueue) \in Nat /\ i \in Nat /\ n \in Nat
      BY <1>2, LenProperties DEF LogTypes
    <2> QED
      BY <2>1, <2>2
  <1>4. p \in Packet /\ p.source \in Sources
    <2>1. p \in Packet
      BY <1>2, <1>3, ElementOfSeq DEF LogTypes
    <2> QED
      BY <2>1 DEF Packet
  <1>5. e \in Entry /\ e.packet = p /\ e.result = r
    BY <1>4 DEF Entry, Results
  <1> HIDE DEF e
  <1>6. /\ handled' \in Seq(Entry) /\ Len(handled') = N + 1 /\ N \in Nat
        /\ \A k \in 1 .. N : handled'[k] = handled[k]
        /\ handled'[N + 1] = e
        /\ Packets(handled') = a \o <<p>>
    BY <1>1, <1>2, <1>5, EntryAdded, PacketsOfEntries DEF LogTypes
  <1>7. ASSUME NEW s
        PROVE  /\ \A m \in 0 .. N : OpenIn(handled', s, m) <=> OpenIn(handled, s, m)
               /\ OpenIn(handled', s, N + 1) <=>
                    \/ p.source = s /\ r = "opened"
                    \/ OpenIn(handled, s, N) /\ ~(p.source = s /\ r = "closed")
    BY <1>1, <1>2, <1>5, OpenAdded DEF LogTypes
  <1>8. \A s \in Sources : s \in Elems(logFiles) <=> OpenIn(handled, s, N)
    BY DEF LogInv, FilesInv
  <1>10. /\ writeQueue' \in Seq(Packet) /\ n <= Len(writeQueue')
         /\ SubSeq(writeQueue', i + 1, n) = SubSeq(writeQueue, i + 1, n)
    <2>1. CASE writeQueue' = writeQueue
      BY <1>2, <1>3, <2>1 DEF LogTypes
    <2>2. CASE writeQueue' = Append(writeQueue, Report(p))
      <3>1. Report(p) \in Packet
        <4>1. p.id \in Int /\ 0 - p.id \in Int
          BY <1>4 DEF Packet
        <4>2. Master \in Sources
          BY LogAssumption
        <4> QED
          BY <4>1, <4>2 DEF Packet, Report
      <3>2. writeQueue' \in Seq(Packet) /\ Len(writeQueue') = Len(writeQueue) + 1
        BY <1>2, <2>2, <3>1, AppendProperties DEF LogTypes
      <3>3. i + 1 \in Nat /\ 1 <= i + 1 /\ n <= Len(writeQueue')
        BY <1>3, <3>2
      <3>4. SubSeq(writeQueue', i + 1, n) = SubSeq(writeQueue, i + 1, n)
        BY <1>2, <1>3, <2>2, <3>1, <3>3, PassUnchanged DEF LogTypes
      <3> QED
        BY <3>2, <3>3, <3>4
    <2> QED
      BY <2>1, <2>2
  <1>11. LogTypes'
    <2>1. n' \in Nat /\ i' \in Nat
      BY <1>1, <1>3
    <2> QED
      BY <1>1, <1>2, <1>6, <1>10, <2>1 DEF LogTypes
  <1>12. PassInv'
    <2>1. 1 <= i' /\ i' <= n' + 1 /\ n' <= Len(writeQueue')
      BY <1>1, <1>3, <1>10
    <2> QED
      BY <1>1, <2>1 DEF PassInv
  <1>13. OrderInv'
    <2>1. a \in Seq(Packet) /\ inQueue \in Seq(Packet) /\ writeQueue \in Seq(Packet)
      BY <1>2, PacketsOfEntries DEF LogTypes
    <2>2. posted = a \o SubSeq(writeQueue, i, n) \o inQueue
      BY DEF LogInv, OrderInv
    <2> HIDE DEF a
    <2>3. /\ SubSeq(writeQueue, i, n) = <<p>> \o SubSeq(writeQueue, i + 1, n)
          /\ <<p>> \in Seq(Packet) /\ SubSeq(writeQueue, i + 1, n) \in Seq(Packet)
      BY <1>3, <2>1, FirstOfPass
    <2>4. a \o (<<p>> \o SubSeq(writeQueue, i + 1, n)) = (a \o <<p>>) \o SubSeq(writeQueue, i + 1, n)
      <3> DEFINE one == <<p>>
                 rest == SubSeq(writeQueue, i + 1, n)
      <3>1. a \in Seq(Packet) /\ one \in Seq(Packet) /\ rest \in Seq(Packet)
        BY <2>1, <2>3
      <3> HIDE DEF one, rest
      <3>2. a \o (one \o rest) = (a \o one) \o rest
        BY <3>1, Assoc
      <3> QED
        BY <3>2 DEF one, rest
    <2>5. posted = (a \o <<p>>) \o SubSeq(writeQueue, i + 1, n) \o inQueue
      BY <2>2, <2>3, <2>4
    <2> QED
      BY <1>1, <1>6, <1>10, <2>5 DEF OrderInv
  <1>14. FilesInv'
    <2> SUFFICES ASSUME NEW s \in Sources
                 PROVE  s \in Elems(logFiles') <=> OpenIn(handled', s, N + 1)
      BY <1>6 DEF FilesInv
    <2> QED
      BY <1>7, <1>8
  <1>15. WrittenInv'
    <2> SUFFICES ASSUME NEW k \in 1 .. N + 1, handled'[k].packet.op = "message"
                 PROVE  handled'[k].result = "written" <=>
                          OpenIn(handled', handled'[k].packet.source, k - 1)
      BY <1>6 DEF WrittenInv
    <2>1. CASE k \in 1 .. N
      <3>1. handled'[k] = handled[k] /\ k - 1 \in 0 .. N
        BY <1>6, <2>1
      <3>2. handled[k].result = "written" <=> OpenIn(handled, handled[k].packet.source, k - 1)
        BY <2>1, <3>1 DEF LogInv, WrittenInv
      <3> QED
        BY <1>7, <3>1, <3>2
    <2>2. CASE k = N + 1
      <3>1. handled'[k] = e /\ k - 1 = N /\ N \in 0 .. N
        BY <1>6, <2>2
      <3>2. r = "written" <=> p.source \in Elems(logFiles)
        BY <1>5, <3>1
      <3>3. p.source \in Elems(logFiles) <=> OpenIn(handled, p.source, N)
        BY <1>4, <1>8
      <3>4. OpenIn(handled', p.source, N) <=> OpenIn(handled, p.source, N)
        BY <1>7, <3>1
      <3> QED
        BY <1>5, <3>1, <3>2, <3>3, <3>4
    <2> QED
      BY <1>6, <2>1, <2>2
  <1> QED
    BY <1>11, <1>12, <1>13, <1>14, <1>15 DEF LogInv

LEMMA OpenIsListed == \A s : IsOpen(s) <=> s \in Elems(logFiles)
  BY DEF IsOpen, Elems

\* The source of the packet of the pass
LEMMA SourceOfPacket ==
  ASSUME LogInv, pc = "process", i <= n
  PROVE  writeQueue[i].source \in Sources /\ FileList(logFiles)
  <1>1. LogTypes /\ 1 <= i /\ n <= Len(writeQueue)
    BY DEF LogInv, PassInv
  <1>2. Len(writeQueue) \in Nat /\ i \in Nat /\ n \in Nat
    BY <1>1, LenProperties DEF LogTypes
  <1>3. i \in 1 .. Len(writeQueue)
    BY <1>1, <1>2
  <1>4. writeQueue[i] \in Packet
    BY <1>1, <1>3, ElementOfSeq DEF LogTypes
  <1> QED
    BY <1>1, <1>4 DEF Packet, LogTypes

LEMMA WriteMessageKept ==
  ASSUME LogInv, WriteMessage
  PROVE  LogInv'
  <1> DEFINE p == writeQueue[i]
             r == IF IsOpen(p.source) THEN "written" ELSE "dropped"
  <1>1. /\ pc = "process" /\ i <= n /\ p.op = "message" /\ Handle(p, r)
        /\ writeQueue' = writeQueue /\ logFiles' = logFiles
    BY DEF WriteMessage, Processing
  <1>2. r \in Results /\ r # "opened" /\ r # "closed"
    BY DEF Results
  <1>3. r = "written" <=> p.source \in Elems(logFiles)
    BY OpenIsListed
  <1>4. FileList(logFiles')
    BY <1>1, SourceOfPacket
  <1> HIDE DEF r
  <1> QED
    BY <1>1, <1>2, <1>3, <1>4, HandleKept

LEMMA OpenFileKept ==
  ASSUME LogInv, OpenFile
  PROVE  LogInv'
  <1> DEFINE p == writeQueue[i]
  <1>1. /\ pc = "process" /\ i <= n /\ p.op = "open" /\ Handle(p, "opened")
        /\ writeQueue' = writeQueue
        /\ logFiles' = IF IsOpen(p.source) THEN logFiles ELSE Append(logFiles, p.source)
    BY DEF OpenFile, Processing
  <1>2. p.source \in Sources /\ FileList(logFiles)
    BY <1>1, SourceOfPacket
  <1>3. FileList(logFiles') /\ Elems(logFiles') = Elems(logFiles) \cup {p.source}
    <2>1. CASE IsOpen(p.source)
      BY <1>1, <1>2, <2>1, OpenIsListed
    <2>2. CASE ~IsOpen(p.source)
      BY <1>1, <1>2, <2>2, OpenIsListed, FileAdded
    <2> QED
      BY <2>1, <2>2
  <1>4. "opened" \in Results
    BY DEF Results
  <1> QED
    BY <1>1, <1>3, <1>4, HandleKept

LEMMA OpenFailsKept ==
  ASSUME LogInv, OpenFails
  PROVE  LogInv'
  <1> DEFINE p == writeQueue[i]
  <1>1. /\ pc = "process" /\ i <= n /\ p.op = "open" /\ Handle(p, "failed")
        /\ writeQueue' = Append(writeQueue, Report(p)) /\ logFiles' = logFiles
    BY DEF OpenFails, Processing
  <1>2. FileList(logFiles') /\ "failed" \in Results
    BY <1>1, SourceOfPacket DEF Results
  <1> QED
    BY <1>1, <1>2, HandleKept

LEMMA CloseFileKept ==
  ASSUME LogInv, CloseFile
  PROVE  LogInv'
  <1> DEFINE p == writeQueue[i]
             found == {k \in DOMAIN logFiles : logFiles[k] = p.source}
  <1>1. /\ pc = "process" /\ i <= n /\ p.op = "close" /\ Handle(p, "closed")
        /\ writeQueue' = writeQueue
        /\ \/ found = {} /\ logFiles' = logFiles
           \/ \E k \in found : logFiles' = Remove(logFiles, k)
    BY DEF CloseFile, Processing
  <1>2. FileList(logFiles)
    BY <1>1, SourceOfPacket
  <1>3. FileList(logFiles') /\ Elems(logFiles') = Elems(logFiles) \ {p.source}
    <2>1. CASE found = {} /\ logFiles' = logFiles
      <3>1. p.source \notin Elems(logFiles)
        BY <2>1 DEF Elems
      <3> QED
        BY <1>2, <2>1, <3>1
    <2>2. ASSUME NEW k \in found, logFiles' = Remove(logFiles, k)
          PROVE  FileList(logFiles') /\ Elems(logFiles') = Elems(logFiles) \ {p.source}
      <3>1. k \in 1 .. Len(logFiles) /\ logFiles[k] = p.source
        BY <1>2, FileFacts
      <3> QED
        BY <1>2, <2>2, <3>1, FileRemoved
    <2> QED
      BY <1>1, <2>1, <2>2
  <1>4. "closed" \in Results
    BY DEF Results
  <1> QED
    BY <1>1, <1>3, <1>4, HandleKept

-----------------------------------------------------------------------------
(* Every step *)

LEMMA NextKept == LogInv /\ [Next]_vars => LogInv'
  <1> SUFFICES ASSUME LogInv, [Next]_vars PROVE LogInv'
    OBVIOUS
  <1>1. ASSUME NEW s \in Sources, NEW op \in Ops(s), Post(op, s) PROVE LogInv'
    BY <1>1, PostKept
  <1>2. CASE ReadShutdown
    BY <1>2, SameKept DEF ReadShutdown, Same, queueVars, passVars, historyVars
  <1>3. CASE Trigger
    BY <1>3, SameKept DEF Trigger, Same, queueVars, passVars, historyVars
  <1>4. CASE WaitUntilStopped
    BY <1>4, SameKept DEF WaitUntilStopped, Same, queueVars, passVars, historyVars
  <1>5. CASE ThreadWait
    BY <1>5, BetweenPasses DEF ThreadWait, Same, queueVars, passVars, historyVars
  <1>6. CASE ReadInputQueue
    BY <1>6, ReadKept
  <1>7. CASE InputQueueEmpty
    BY <1>7, BetweenPasses DEF InputQueueEmpty, Same, queueVars, passVars, historyVars
  <1>8. CASE ReadMovedArray
    <2>1. /\ pc = "process" /\ pc' = "undefined"
          /\ posted' = posted /\ inQueue' = inQueue /\ writeQueue' = writeQueue
          /\ handled' = handled /\ n' = n /\ i' = i /\ logFiles' = logFiles
      BY <1>8 DEF ReadMovedArray, queueVars, passVars, historyVars
    <2> QED
      BY <2>1 DEF LogInv, LogTypes, PassInv, OrderInv, FilesInv, WrittenInv
  <1>9. CASE WriteMessage
    BY <1>9, WriteMessageKept
  <1>10. CASE OpenFile
    BY <1>10, OpenFileKept
  <1>11. CASE OpenFails
    BY <1>11, OpenFailsKept
  <1>12. CASE CloseFile
    BY <1>12, CloseFileKept
  <1>13. CASE EndPass
    BY <1>13, EndPassKept
  <1>14. CASE CheckStop
    BY <1>14, CheckStopKept
  <1>15. CASE UNCHANGED vars
    BY <1>15, SameKept DEF vars, Same, queueVars, passVars, historyVars
  <1> QED
    BY <1>1, <1>2, <1>3, <1>4, <1>5, <1>6, <1>7, <1>8, <1>9, <1>10, <1>11, <1>12, <1>13,
       <1>14, <1>15 DEF Next, MainThread, LogThread

LEMMA OrderFromInv == LogInv => HandledInOrder
  <1> SUFFICES ASSUME LogInv PROVE HandledInOrder
    OBVIOUS
  <1>1. Len(handled) \in Nat /\ DOMAIN handled = 1 .. Len(handled)
    BY PacketsOfEntries DEF LogInv, LogTypes
  <1>2. ASSUME NEW k \in 1 .. Len(handled)
        PROVE  OpenedBefore(k) <=> OpenIn(handled, handled[k].packet.source, k - 1)
    BY DEF OpenedBefore, OpenIn, SameSource
  <1>3. pc # "undefined" =>
          posted = [k \in DOMAIN handled |-> handled[k].packet] \o SubSeq(writeQueue, i, n) \o inQueue
    BY DEF LogInv, OrderInv, Packets
  <1> QED
    BY <1>1, <1>2, <1>3 DEF LogInv, WrittenInv, HandledInOrder

\* log_thread_main_loop and the handlers it calls, with the packets that
\* log_thread_post_message adds meanwhile: in every reachable state each packet
\* that was posted is handled, in the pass or in the input queue, in the order
\* of posting; the list of open files is what the history of opened and closed
\* files says.
THEOREM LogInvariant == Spec => []LogInv
  <1>1. Init => LogInv
    BY InitKept
  <1>2. LogInv /\ [Next]_vars => LogInv'
    BY NextKept
  <1> QED
    BY <1>1, <1>2, PTL DEF Spec

\* The packets that log_thread_post_message queues are handled once each and in
\* order, and log_thread_write writes a message exactly when its source has
\* opened its file and not closed it since.
THEOREM HandledInOrderHolds == Spec => []HandledInOrder
  <1>1. LogInv => HandledInOrder
    BY OrderFromInv
  <1> QED
    BY <1>1, LogInvariant, PTL

=============================================================================
