---------------------------- MODULE CommonProofs -----------------------------
(***************************************************************************)
(* Proofs about what every process takes from src/common.  DbThread, for   *)
(* every set of queries and transactions: no job is lost or duplicated     *)
(* between the queues, and each is executed at most once, before its       *)
(* callback runs.  TimerPool, for every set of timers: a timer and the     *)
(* entry it points to agree.  HashTable, for every hash function: the      *)
(* links of a chain stay right, and the table is a map.                    *)
(***************************************************************************)
EXTENDS DbThread, TimerPool, HashTable, FiniteSetTheorems, SequenceTheorems,
        NaturalsInduction, WellFoundedInduction, TLAPS

-----------------------------------------------------------------------------
(* Queues without duplicates *)

Elems(s) == {s[k] : k \in DOMAIN s}
Distinct(s) == \A a, b \in DOMAIN s : s[a] = s[b] => a = b

\* A queue of jobs, each of them in it once
Queue(s) == s \in Seq(Jobs) /\ Distinct(s)

\* The job that a thread holds, if any
Held(x) == {x} \ {NoJob}

LEMMA QueueFacts ==
  ASSUME NEW s, Queue(s)
  PROVE  /\ s \in Seq(Jobs) /\ Len(s) \in Nat /\ DOMAIN s = 1 .. Len(s)
         /\ \A k \in 1 .. Len(s) : s[k] \in Jobs /\ s[k] \in Elems(s)
         /\ Elems(s) \subseteq Jobs
         /\ \A a, b \in 1 .. Len(s) : s[a] = s[b] => a = b
  <1>1. s \in Seq(Jobs)
    BY DEF Queue
  <1>2. Len(s) \in Nat /\ DOMAIN s = 1 .. Len(s)
    BY <1>1, LenProperties
  <1>3. \A k \in 1 .. Len(s) : s[k] \in Jobs
    BY <1>1, ElementOfSeq
  <1> QED
    BY <1>1, <1>2, <1>3 DEF Elems, Queue, Distinct

\* How often a job is in such a queue
LEMMA TimesInQueue ==
  ASSUME NEW s, Queue(s), NEW j
  PROVE  Times(j, s) = IF j \in Elems(s) THEN 1 ELSE 0
  <1>1. CASE j \in Elems(s)
    <2>1. PICK k \in DOMAIN s : s[k] = j
      BY <1>1 DEF Elems
    <2>2. {a \in DOMAIN s : s[a] = j} = {k}
      BY <2>1 DEF Queue, Distinct
    <2> QED
      BY <1>1, <2>2, FS_Singleton DEF Times
  <1>2. CASE j \notin Elems(s)
    <2>1. {a \in DOMAIN s : s[a] = j} = {}
      BY <1>2 DEF Elems
    <2> QED
      BY <1>2, <2>1, FS_EmptySet DEF Times
  <1> QED
    BY <1>1, <1>2

\* array_push_back
LEMMA JobAppended ==
  ASSUME NEW s, Queue(s), NEW j \in Jobs, j \notin Elems(s)
  PROVE  Queue(Append(s, j)) /\ Elems(Append(s, j)) = Elems(s) \cup {j}
  <1> DEFINE t == Append(s, j)
             n == Len(s)
  <1>1. /\ t \in Seq(Jobs) /\ Len(t) = n + 1 /\ n \in Nat
        /\ \A k \in 1 .. n : t[k] = s[k]
        /\ t[n + 1] = j
    BY QueueFacts, AppendProperties
  <1>2. DOMAIN t = 1 .. n + 1 /\ DOMAIN s = 1 .. n
    BY <1>1, LenProperties, QueueFacts
  <1> HIDE DEF t, n
  <1>3. \A k \in 1 .. n + 1 : k \in 1 .. n \/ k = n + 1
    BY <1>1
  <1>4. 1 .. n \subseteq 1 .. n + 1 /\ n + 1 \in 1 .. n + 1
    BY <1>1
  <1>5. Elems(t) = Elems(s) \cup {j}
    BY <1>1, <1>2, <1>3, <1>4 DEF Elems
  <1>6. \A k \in 1 .. n : s[k] # j
    BY <1>2 DEF Elems
  <1>7. Distinct(t)
    BY <1>1, <1>2, <1>3, <1>6 DEF Distinct, Queue
  <1> QED
    BY <1>1, <1>5, <1>7 DEF Queue, t

\* array_pop_back
LEMMA BackTaken ==
  ASSUME NEW s, Queue(s), s # <<>>
  PROVE  /\ Back(s) \in Elems(s) /\ Queue(Front(s))
         /\ Elems(Front(s)) = Elems(s) \ {Back(s)}
  <1> DEFINE t == Front(s)
             n == Len(s)
  <1>1. /\ n \in Nat \ {0} /\ DOMAIN s = 1 .. n /\ s \in Seq(Jobs)
        /\ \A k \in 1 .. n : s[k] \in Jobs
        /\ \A a, b \in 1 .. n : s[a] = s[b] => a = b
    BY QueueFacts, EmptySeq
  <1>2. /\ t \in Seq(Jobs) /\ Len(t) = n - 1
        /\ \A k \in 1 .. n - 1 : t[k] = s[k]
    <2>1. 1 \in Int /\ n - 1 \in Int /\ \A k \in 1 .. n - 1 : s[k] \in Jobs
      BY <1>1
    <2>2. /\ SubSeq(s, 1, n - 1) \in Seq(Jobs)
          /\ Len(SubSeq(s, 1, n - 1)) = IF 1 <= n - 1 THEN n - 1 - 1 + 1 ELSE 0
          /\ \A k \in 1 .. n - 1 - 1 + 1 : SubSeq(s, 1, n - 1)[k] = s[1 + k - 1]
      BY <2>1, SubSeqProperties
    <2> QED
      BY <1>1, <2>2 DEF Front
  <1>3. DOMAIN t = 1 .. n - 1
    BY <1>2, LenProperties
  <1>4. Back(s) = s[n]
    BY DEF Back
  <1> HIDE DEF t, n
  <1>5. \A k \in 1 .. n : k \in 1 .. n - 1 \/ k = n
    BY <1>1
  <1>6. n \in 1 .. n /\ \A k \in 1 .. n - 1 : k \in 1 .. n /\ k # n
    BY <1>1
  <1>7. Elems(t) = Elems(s) \ {s[n]} /\ s[n] \in Elems(s)
    BY <1>1, <1>2, <1>3, <1>5, <1>6 DEF Elems
  <1>8. Distinct(t)
    BY <1>1, <1>2, <1>3, <1>6 DEF Distinct
  <1> QED
    BY <1>2, <1>4, <1>7, <1>8 DEF Queue, t

\* array_swap_and_pop
LEMMA SwappedAndPopped ==
  ASSUME NEW s, Queue(s), NEW k \in 1 .. Len(s)
  PROVE  /\ s[k] \in Elems(s) /\ Queue(SwapAndPop(s, k))
         /\ Elems(SwapAndPop(s, k)) = Elems(s) \ {s[k]}
  <1> DEFINE n == Len(s)
             r == [s EXCEPT ![k] = s[n]]
             t == SwapAndPop(s, k)
  <1>1. /\ n \in Nat \ {0} /\ DOMAIN s = 1 .. n /\ s \in Seq(Jobs)
        /\ \A a \in 1 .. n : s[a] \in Jobs
        /\ \A a, b \in 1 .. n : s[a] = s[b] => a = b
    BY QueueFacts
  <1>2. /\ Len(r) = n
        /\ \A a \in 1 .. n : r[a] = IF a = k THEN s[n] ELSE s[a]
    BY <1>1, ExceptSeq
  <1>3. t = SubSeq(r, 1, n - 1)
    BY <1>2 DEF SwapAndPop, Front, Back
  <1> HIDE DEF r, t, n
  <1>4. /\ t \in Seq(Jobs) /\ Len(t) = n - 1
        /\ \A a \in 1 .. n - 1 : t[a] = IF a = k THEN s[n] ELSE s[a]
    <2>1. 1 \in Int /\ n - 1 \in Int /\ \A a \in 1 .. n - 1 : r[a] \in Jobs
      BY <1>1, <1>2
    <2>2. /\ SubSeq(r, 1, n - 1) \in Seq(Jobs)
          /\ Len(SubSeq(r, 1, n - 1)) = IF 1 <= n - 1 THEN n - 1 - 1 + 1 ELSE 0
          /\ \A a \in 1 .. n - 1 - 1 + 1 : SubSeq(r, 1, n - 1)[a] = r[1 + a - 1]
      BY <2>1, SubSeqProperties
    <2> QED
      BY <1>1, <1>2, <1>3, <2>2
  <1>5. DOMAIN t = 1 .. n - 1
    BY <1>4, LenProperties
  <1>6. Distinct(t)
    BY <1>1, <1>4, <1>5 DEF Distinct
  <1>7. k \in 1 .. n
    BY DEF n
  <1>8. ASSUME NEW x \in Elems(s), x # s[k]
        PROVE  x \in Elems(t)
    <2>1. PICK a \in 1 .. n : s[a] = x /\ a # k
      BY <1>1, <1>8 DEF Elems
    <2>2. CASE a = n
      <3>1. k \in 1 .. n - 1 /\ t[k] = x
        BY <1>1, <1>4, <1>7, <2>1, <2>2
      <3> QED
        BY <1>5, <3>1 DEF Elems
    <2>3. CASE a # n
      <3>1. a \in 1 .. n - 1 /\ t[a] = x
        BY <1>1, <1>4, <2>1, <2>3
      <3> QED
        BY <1>5, <3>1 DEF Elems
    <2> QED
      BY <2>2, <2>3
  <1>9. ASSUME NEW x \in Elems(t)
        PROVE  x \in Elems(s) /\ x # s[k]
    <2>1. PICK a \in 1 .. n - 1 : t[a] = x
      BY <1>5 DEF Elems
    <2>2. CASE a = k
      <3>1. n \in 1 .. n /\ n # k /\ x = s[n]
        BY <1>1, <1>4, <1>7, <2>1, <2>2
      <3> QED
        BY <1>1, <1>7, <3>1 DEF Elems
    <2>3. CASE a # k
      <3>1. a \in 1 .. n /\ x = s[a]
        BY <1>1, <1>4, <2>1, <2>3
      <3> QED
        BY <1>1, <1>7, <2>3, <3>1 DEF Elems
    <2> QED
      BY <2>2, <2>3
  <1>10. s[k] \in Elems(s)
    BY <1>1, <1>7 DEF Elems
  <1> QED
    BY <1>4, <1>6, <1>8, <1>9, <1>10 DEF Queue, t

\* All that was scheduled since is moved to the queue that is executed.
LEMMA Concatenated ==
  ASSUME NEW s, Queue(s), NEW t, Queue(t), Elems(s) \cap Elems(t) = {}
  PROVE  Queue(s \o t) /\ Elems(s \o t) = Elems(s) \cup Elems(t)
  <1> DEFINE m == Len(s)
             n == Len(t)
             u == s \o t
  <1>1. /\ s \in Seq(Jobs) /\ t \in Seq(Jobs) /\ m \in Nat /\ n \in Nat
        /\ DOMAIN s = 1 .. m /\ DOMAIN t = 1 .. n
        /\ \A k \in 1 .. m : s[k] \in Elems(s)
        /\ \A k \in 1 .. n : t[k] \in Elems(t)
        /\ \A a, b \in 1 .. m : s[a] = s[b] => a = b
        /\ \A a, b \in 1 .. n : t[a] = t[b] => a = b
    BY QueueFacts
  <1>2. /\ u \in Seq(Jobs) /\ Len(u) = m + n
        /\ \A k \in 1 .. m + n : u[k] = IF k <= m THEN s[k] ELSE t[k - m]
    BY <1>1, ConcatProperties
  <1>3. DOMAIN u = 1 .. m + n
    BY <1>2, LenProperties
  <1> HIDE DEF u, m, n
  <1>4. \A k \in 1 .. m + n :
          \/ k \in 1 .. m /\ u[k] = s[k]
          \/ k > m /\ k - m \in 1 .. n /\ u[k] = t[k - m]
    BY <1>1, <1>2
  <1>5. ASSUME NEW k \in 1 .. m
        PROVE  k \in 1 .. m + n /\ u[k] = s[k]
    <2>1. k \in 1 .. m + n /\ k <= m
      BY <1>1
    <2> QED
      BY <1>2, <2>1
  <1>6. ASSUME NEW k \in 1 .. n
        PROVE  k + m \in 1 .. m + n /\ u[k + m] = t[k]
    <2>1. k + m \in 1 .. m + n /\ ~(k + m <= m) /\ (k + m) - m = k
      BY <1>1
    <2>2. u[k + m] = IF k + m <= m THEN s[k + m] ELSE t[(k + m) - m]
      BY <1>2, <2>1
    <2> QED
      BY <2>1, <2>2
  <1>7. Elems(u) = Elems(s) \cup Elems(t)
    <2>1. Elems(u) \subseteq Elems(s) \cup Elems(t)
      BY <1>1, <1>3, <1>4 DEF Elems
    <2>2. Elems(s) \subseteq Elems(u)
      BY <1>1, <1>3, <1>5 DEF Elems
    <2>3. ASSUME NEW x \in Elems(t)
          PROVE  x \in Elems(u)
      <3>1. PICK k \in 1 .. n : t[k] = x
        BY <1>1 DEF Elems
      <3>2. k + m \in DOMAIN u /\ u[k + m] = x
        BY <1>3, <1>6, <3>1
      <3> QED
        BY <3>2 DEF Elems
    <2> QED
      BY <2>1, <2>2, <2>3
  <1>8. ASSUME NEW a \in 1 .. m + n, NEW b \in 1 .. m + n, u[a] = u[b]
        PROVE  a = b
    <2>1. CASE a \in 1 .. m /\ b \in 1 .. m
      BY <1>1, <1>5, <1>8, <2>1
    <2>2. CASE a > m /\ b > m
      <3>1. a - m \in 1 .. n /\ b - m \in 1 .. n /\ t[a - m] = t[b - m]
        BY <1>1, <1>2, <1>8, <2>2
      <3>2. a - m = b - m
        BY <1>1, <3>1
      <3> QED
        BY <1>1, <3>2
    <2>3. ASSUME NEW c \in 1 .. m, NEW d \in 1 .. m + n, d > m
          PROVE  u[c] # u[d]
      <3>1. u[c] \in Elems(s)
        BY <1>1, <1>5
      <3>2. u[d] \in Elems(t)
        BY <1>1, <1>2, <2>3
      <3> QED
        BY <3>1, <3>2
    <2>4. (a \in 1 .. m \/ a > m) /\ (b \in 1 .. m \/ b > m)
      BY <1>4
    <2> QED
      BY <1>8, <2>1, <2>2, <2>3, <2>4
  <1>9. Distinct(u)
    BY <1>3, <1>8 DEF Distinct
  <1> QED
    BY <1>2, <1>7, <1>9 DEF Queue, u

LEMMA NoQueue == Queue(<<>>) /\ Elems(<<>>) = {}
  <1>1. <<>> \in Seq(Jobs) /\ DOMAIN <<>> = {}
    BY EmptySeq
  <1> QED
    BY <1>1 DEF Queue, Distinct, Elems

-----------------------------------------------------------------------------
(* The inductive invariant *)

Types ==
    /\ Queue(inQueue) /\ Queue(inTransactionQueue) /\ Queue(executeQueue) /\ Queue(outQueue)
    /\ trans \in Jobs \cup {NoJob} /\ query \in Jobs \cup {NoJob}
    /\ i \in Nat \ {0}
    /\ scheduled \subseteq Jobs /\ finished \subseteq Jobs
    /\ executed \in [Jobs -> Nat]

\* The thread holds a transaction while it runs it, the owner a query while it
\* runs its callback.
Holding ==
    /\ pc = "begun" => trans # NoJob
    /\ pc \notin {"begun", "escaped"} => trans = NoJob
    /\ (owner = "callback") <=> (query # NoJob)

Waiting == Elems(inQueue) \cup Elems(inTransactionQueue) \cup Elems(executeQueue) \cup Held(trans)
Done == Elems(outQueue) \cup Held(query) \cup finished

\* The places a job can be in have none in common ...
Apart ==
    /\ Elems(inQueue) \cap (Elems(inTransactionQueue) \cup Elems(executeQueue) \cup Held(trans)) = {}
    /\ Elems(inTransactionQueue) \cap (Elems(executeQueue) \cup Held(trans)) = {}
    /\ Elems(executeQueue) \cap Held(trans) = {}
    /\ Elems(outQueue) \cap (Held(query) \cup finished) = {}
    /\ Held(query) \cap finished = {}
    /\ Waiting \cap Done = {}

\* ... together they have every job that was scheduled, and those in the last
\* three are the ones that were executed.
Accounted ==
    /\ scheduled = Waiting \cup Done
    /\ \A j \in Jobs : executed[j] = IF j \in Done THEN 1 ELSE 0

DbInv == Types /\ Holding /\ Apart /\ Accounted

LEMMA HeldFacts == Held(NoJob) = {} /\ NoJob \notin Jobs /\ \A j \in Jobs : Held(j) = {j}
  BY DbAssumption DEF Held

LEMMA DbInit == Init => DbInv
  <1> SUFFICES ASSUME Init PROVE DbInv
    OBVIOUS
  <1>1. Types
    BY NoQueue DEF Init, Types
  <1>2. Holding
    BY DEF Init, Holding
  <1>3. Waiting = {} /\ Done = {}
    BY NoQueue, HeldFacts DEF Init, Waiting, Done
  <1>4. Apart
    BY <1>3, NoQueue, HeldFacts DEF Init, Apart
  <1>5. Accounted
    BY <1>3 DEF Init, Accounted
  <1> QED
    BY <1>1, <1>2, <1>4, <1>5 DEF DbInv

\* Steps that move no job
LEMMA NothingMoved ==
  ASSUME DbInv, UNCHANGED <<queueVars, trans, query, historyVars>>,
         i' \in Nat \ {0}, Holding'
  PROVE  DbInv'
  <1>1. Waiting' = Waiting /\ Done' = Done
    BY DEF Waiting, Done, queueVars, historyVars
  <1>2. Types'
    BY DEF DbInv, Types, queueVars, historyVars
  <1>3. Apart'
    BY <1>1 DEF DbInv, Apart, queueVars, historyVars
  <1>4. Accounted'
    BY <1>1 DEF DbInv, Accounted, historyVars
  <1> QED
    BY <1>2, <1>3, <1>4 DEF DbInv

\* The places of a job in DbInv, as sets that a step moves it between
LEMMA PlaceFacts ==
  ASSUME DbInv
  PROVE  /\ Elems(inQueue) \subseteq Jobs /\ Elems(inTransactionQueue) \subseteq Jobs
         /\ Elems(executeQueue) \subseteq Jobs /\ Elems(outQueue) \subseteq Jobs
         /\ Held(trans) \subseteq Jobs /\ Held(query) \subseteq Jobs
  BY QueueFacts DEF DbInv, Types, Held

\* db_thread_schedule_query and its transaction counterpart
LEMMA ScheduleStep ==
  ASSUME DbInv, NEW j \in Jobs, j \notin scheduled,
         \/ inQueue' = Append(inQueue, j) /\ UNCHANGED inTransactionQueue
         \/ inTransactionQueue' = Append(inTransactionQueue, j) /\ UNCHANGED inQueue,
         scheduled' = scheduled \cup {j},
         UNCHANGED <<executeQueue, outQueue, threadVars, owner, query, executed, finished>>
  PROVE  DbInv'
  <1>1. j \notin Waiting /\ j \notin Done
    BY DEF DbInv, Accounted
  <1>2. /\ Queue(inQueue)' /\ Queue(inTransactionQueue)'
        /\ \/ /\ Elems(inQueue)' = Elems(inQueue) \cup {j}
              /\ Elems(inTransactionQueue)' = Elems(inTransactionQueue)
           \/ /\ Elems(inTransactionQueue)' = Elems(inTransactionQueue) \cup {j}
              /\ Elems(inQueue)' = Elems(inQueue)
    <2>1. Queue(inQueue) /\ Queue(inTransactionQueue)
      BY DEF DbInv, Types
    <2>2. j \notin Elems(inQueue) /\ j \notin Elems(inTransactionQueue)
      BY <1>1 DEF Waiting
    <2>3. CASE inQueue' = Append(inQueue, j) /\ UNCHANGED inTransactionQueue
      <3>1. Queue(Append(inQueue, j)) /\ Elems(Append(inQueue, j)) = Elems(inQueue) \cup {j}
        BY <2>1, <2>2, JobAppended
      <3> QED
        BY <2>1, <2>3, <3>1
    <2>4. CASE inTransactionQueue' = Append(inTransactionQueue, j) /\ UNCHANGED inQueue
      <3>1. /\ Queue(Append(inTransactionQueue, j))
            /\ Elems(Append(inTransactionQueue, j)) = Elems(inTransactionQueue) \cup {j}
        BY <2>1, <2>2, JobAppended
      <3> QED
        BY <2>1, <2>4, <3>1
    <2> QED
      BY <2>3, <2>4
  <1>3. /\ Elems(executeQueue)' = Elems(executeQueue) /\ Elems(outQueue)' = Elems(outQueue)
        /\ Held(trans)' = Held(trans) /\ Held(query)' = Held(query) /\ finished' = finished
    BY DEF threadVars
  <1>4. Waiting' = Waiting \cup {j} /\ Done' = Done
    BY <1>2, <1>3 DEF Waiting, Done
  <1>5. Types'
    BY <1>2 DEF DbInv, Types, threadVars
  <1>6. Holding'
    BY DEF DbInv, Holding, threadVars
  <1>7. Apart'
    BY <1>1, <1>2, <1>3, <1>4 DEF DbInv, Apart, Waiting, Done
  <1>8. Accounted'
    BY <1>1, <1>4 DEF DbInv, Accounted
  <1> QED
    BY <1>5, <1>6, <1>7, <1>8 DEF DbInv

\* The owner takes a query from outQueue and finishes it.
LEMMA TakeCallbackStep ==
  ASSUME DbInv, TakeCallback
  PROVE  DbInv'
  <1>1. query = NoJob /\ Held(query) = {}
    BY HeldFacts DEF DbInv, Holding, TakeCallback
  <1>2. /\ Back(outQueue) \in Elems(outQueue) /\ Queue(outQueue)'
        /\ Elems(outQueue)' = Elems(outQueue) \ {Back(outQueue)}
    BY BackTaken DEF DbInv, Types, TakeCallback
  <1>3. query' \in Jobs /\ query' # NoJob /\ Held(query)' = {Back(outQueue)}
    BY <1>2, PlaceFacts, HeldFacts DEF TakeCallback
  <1>4. Waiting' = Waiting /\ Done' = Done
    BY <1>1, <1>2, <1>3 DEF Waiting, Done, TakeCallback, threadVars, historyVars
  <1>5. Types'
    BY <1>2, <1>3 DEF DbInv, Types, TakeCallback, threadVars, historyVars
  <1>6. Holding'
    BY <1>3 DEF DbInv, Holding, TakeCallback, threadVars
  <1>7. Apart'
    BY <1>1, <1>2, <1>3, <1>4 DEF DbInv, Apart, TakeCallback, threadVars, historyVars, Done
  <1>8. Accounted'
    BY <1>4 DEF DbInv, Accounted, TakeCallback, historyVars
  <1> QED
    BY <1>5, <1>6, <1>7, <1>8 DEF DbInv

LEMMA FinishCallbackStep ==
  ASSUME DbInv, FinishCallback
  PROVE  DbInv'
  <1>1. query \in Jobs /\ Held(query) = {query}
    BY HeldFacts DEF DbInv, Types, Holding, FinishCallback
  <1>2. query' = NoJob /\ Held(query)' = {} /\ finished' = finished \cup {query}
    BY HeldFacts DEF FinishCallback
  <1>3. Waiting' = Waiting /\ Done' = Done
    BY <1>1, <1>2 DEF Waiting, Done, FinishCallback, threadVars, queueVars
  <1>4. Types'
    BY <1>1, <1>2 DEF DbInv, Types, FinishCallback, threadVars, queueVars
  <1>5. Holding'
    BY <1>2 DEF DbInv, Holding, FinishCallback, threadVars
  <1>6. Apart'
    BY <1>1, <1>2, <1>3 DEF DbInv, Apart, FinishCallback, threadVars, queueVars
  <1>7. Accounted'
    BY <1>3 DEF DbInv, Accounted, FinishCallback
  <1> QED
    BY <1>4, <1>5, <1>6, <1>7 DEF DbInv

\* The thread takes a transaction.
LEMMA TakeTransactionStep ==
  ASSUME DbInv, TakeTransaction
  PROVE  DbInv'
  <1> DEFINE j == Back(inTransactionQueue)
  <1>1. trans = NoJob /\ Held(trans) = {}
    BY HeldFacts DEF DbInv, Holding, TakeTransaction
  <1>2. /\ j \in Elems(inTransactionQueue) /\ Queue(inTransactionQueue)'
        /\ Elems(inTransactionQueue)' = Elems(inTransactionQueue) \ {j}
    BY BackTaken DEF DbInv, Types, TakeTransaction
  <1>3. trans' = j /\ j \in Jobs /\ trans' # NoJob /\ Held(trans)' = {j}
    BY <1>2, PlaceFacts, HeldFacts DEF TakeTransaction
  <1> HIDE DEF j
  <1>4. Waiting' = Waiting /\ Done' = Done
    BY <1>1, <1>2, <1>3 DEF Waiting, Done, TakeTransaction, ownerVars, historyVars
  <1>5. Types'
    BY <1>2, <1>3 DEF DbInv, Types, TakeTransaction, ownerVars, historyVars
  <1>6. Holding'
    BY <1>3 DEF DbInv, Holding, TakeTransaction, ownerVars
  <1>7. Apart'
    BY <1>1, <1>2, <1>3, <1>4 DEF DbInv, Apart, TakeTransaction, ownerVars, historyVars, Waiting
  <1>8. Accounted'
    BY <1>4 DEF DbInv, Accounted, TakeTransaction, historyVars
  <1> QED
    BY <1>5, <1>6, <1>7, <1>8 DEF DbInv

\* A job leaves the ones that wait and joins those that are done.
LEMMA Completed ==
  ASSUME DbInv, NEW j \in Jobs, j \in Waiting, Complete(j)
  PROVE  /\ Queue(outQueue)' /\ Elems(outQueue)' \cup finished' = Elems(outQueue) \cup finished \cup {j}
         /\ Elems(outQueue)' \cap finished' = {} /\ finished' \subseteq Jobs
         /\ executed' \in [Jobs -> Nat] /\ scheduled' = scheduled
         /\ \A k \in Jobs : executed'[k] = IF k \in Done \cup {j} THEN 1 ELSE 0
  <1>1. j \notin Done /\ j \notin Elems(outQueue) /\ j \notin finished
    BY DEF DbInv, Apart, Done
  <1>2. executed \in [Jobs -> Nat] /\ executed[j] = 0
        /\ \A k \in Jobs : executed[k] = IF k \in Done THEN 1 ELSE 0
    BY <1>1 DEF DbInv, Types, Accounted
  <1>3. executed' = [executed EXCEPT ![j] = executed[j] + 1]
    BY DEF Complete
  <1>4. executed' \in [Jobs -> Nat]
        /\ \A k \in Jobs : executed'[k] = IF k \in Done \cup {j} THEN 1 ELSE 0
    BY <1>2, <1>3
  <1>5. Elems(outQueue) \cap finished = {} /\ Queue(outQueue) /\ finished \subseteq Jobs
    BY DEF DbInv, Apart, Types
  <1>6. CASE j \in Callback
    <2>1. outQueue' = Append(outQueue, j) /\ finished' = finished /\ scheduled' = scheduled
      BY <1>6 DEF Complete
    <2>2. Queue(outQueue)' /\ Elems(outQueue)' = Elems(outQueue) \cup {j}
      BY <1>1, <1>5, <2>1, JobAppended
    <2> QED
      BY <1>1, <1>4, <1>5, <2>1, <2>2
  <1>7. CASE j \notin Callback
    <2>1. outQueue' = outQueue /\ finished' = finished \cup {j} /\ scheduled' = scheduled
      BY <1>7 DEF Complete
    <2> QED
      BY <1>1, <1>4, <1>5, <2>1
  <1> QED
    BY <1>6, <1>7

LEMMA CommitStep ==
  ASSUME DbInv, CommitTransaction
  PROVE  DbInv'
  <1>1. trans \in Jobs /\ Held(trans) = {trans} /\ trans \in Waiting
    BY HeldFacts DEF DbInv, Types, Holding, CommitTransaction, Waiting
  <1>2. /\ Complete(trans) /\ trans' = NoJob /\ Held(trans)' = {} /\ pc' = "transactions"
        /\ UNCHANGED <<inQueue, inTransactionQueue, executeQueue, i, owner, query>>
    BY HeldFacts DEF CommitTransaction, ownerVars
  <1>3. /\ Queue(outQueue)' /\ Elems(outQueue)' \cup finished' = Elems(outQueue) \cup finished \cup {trans}
        /\ Elems(outQueue)' \cap finished' = {} /\ finished' \subseteq Jobs
        /\ executed' \in [Jobs -> Nat] /\ scheduled' = scheduled
        /\ \A k \in Jobs : executed'[k] = IF k \in Done \cup {trans} THEN 1 ELSE 0
    BY <1>1, <1>2, Completed
  <1>4. trans \notin Elems(inQueue) \cup Elems(inTransactionQueue) \cup Elems(executeQueue)
    BY <1>1 DEF DbInv, Apart
  <1>5. Waiting' = Waiting \ {trans} /\ Done' = Done \cup {trans}
    BY <1>1, <1>2, <1>3, <1>4 DEF Waiting, Done
  <1>6. Types'
    BY <1>2, <1>3 DEF DbInv, Types
  <1>7. Holding'
    BY <1>2 DEF DbInv, Holding
  <1>8. Apart'
    BY <1>1, <1>2, <1>3, <1>5 DEF DbInv, Apart, Waiting, Done
  <1>9. Accounted'
    BY <1>1, <1>3, <1>5 DEF DbInv, Accounted
  <1> QED
    BY <1>6, <1>7, <1>8, <1>9 DEF DbInv

LEMMA QueryDoneStep ==
  ASSUME DbInv, QueryDone
  PROVE  DbInv'
  <1> DEFINE j == executeQueue[i]
  <1>1. Queue(executeQueue) /\ i \in 1 .. Len(executeQueue)
    BY QueueFacts DEF DbInv, Types, QueryDone
  <1>2. /\ j \in Elems(executeQueue) /\ Queue(executeQueue)'
        /\ Elems(executeQueue)' = Elems(executeQueue) \ {j}
    BY <1>1, SwappedAndPopped DEF QueryDone
  <1>3. j \in Jobs /\ j \in Waiting
    BY <1>2, PlaceFacts DEF Waiting
  <1>4. Complete(j) /\ UNCHANGED <<inQueue, inTransactionQueue, pc, i, trans, owner, query>>
    BY DEF QueryDone, threadVars, ownerVars
  <1> HIDE DEF j
  <1>5. /\ Queue(outQueue)' /\ Elems(outQueue)' \cup finished' = Elems(outQueue) \cup finished \cup {j}
        /\ Elems(outQueue)' \cap finished' = {} /\ finished' \subseteq Jobs
        /\ executed' \in [Jobs -> Nat] /\ scheduled' = scheduled
        /\ \A k \in Jobs : executed'[k] = IF k \in Done \cup {j} THEN 1 ELSE 0
    BY <1>3, <1>4, Completed
  <1>6. j \notin Elems(inQueue) \cup Elems(inTransactionQueue) \cup Held(trans)
    BY <1>2 DEF DbInv, Apart
  <1>7. Waiting' = Waiting \ {j} /\ Done' = Done \cup {j}
    BY <1>2, <1>4, <1>5, <1>6 DEF Waiting, Done
  <1>8. Types'
    BY <1>2, <1>4, <1>5 DEF DbInv, Types
  <1>9. Holding'
    BY <1>4 DEF DbInv, Holding
  <1>10. Apart'
    BY <1>2, <1>3, <1>4, <1>5, <1>7 DEF DbInv, Apart, Waiting, Done
  <1>11. Accounted'
    BY <1>3, <1>5, <1>7 DEF DbInv, Accounted
  <1> QED
    BY <1>8, <1>9, <1>10, <1>11 DEF DbInv

LEMMA ReadStep ==
  ASSUME DbInv, ReadNewlyScheduled
  PROVE  DbInv'
  <1>1. /\ executeQueue' = executeQueue \o inQueue /\ inQueue' = <<>> /\ i' = 1
        /\ pc = "read" /\ pc' = "execute"
        /\ UNCHANGED <<inTransactionQueue, outQueue, trans, owner, query,
                       scheduled, executed, finished>>
    BY DEF ReadNewlyScheduled, ownerVars, historyVars
  <1>2. Queue(executeQueue) /\ Queue(inQueue) /\ Elems(executeQueue) \cap Elems(inQueue) = {}
    BY DEF DbInv, Types, Apart
  <1>3. Queue(executeQueue)' /\ Elems(executeQueue)' = Elems(executeQueue) \cup Elems(inQueue)
    BY <1>1, <1>2, Concatenated
  <1>4. Queue(inQueue)' /\ Elems(inQueue)' = {}
    BY <1>1, NoQueue
  <1>5. Waiting' = Waiting /\ Done' = Done
    BY <1>1, <1>3, <1>4 DEF Waiting, Done
  <1>6. Types'
    BY <1>1, <1>3, <1>4 DEF DbInv, Types
  <1>7. Holding'
    BY <1>1 DEF DbInv, Holding
  <1>8. Apart'
    BY <1>1, <1>3, <1>4, <1>5 DEF DbInv, Apart
  <1>9. Accounted'
    BY <1>1, <1>5 DEF DbInv, Accounted
  <1> QED
    BY <1>6, <1>7, <1>8, <1>9 DEF DbInv

LEMMA DbNext ==
  ASSUME DbInv, [Next]_vars
  PROVE  DbInv'
  <1>0. i \in Nat \ {0} /\ i + 1 \in Nat \ {0} /\ Holding
    BY DEF DbInv, Types
  <1>1. CASE UNCHANGED vars
    <2>1. Holding' /\ i' = i
      BY <1>0, <1>1 DEF vars, Holding, threadVars, ownerVars
    <2> QED
      BY <1>0, <1>1, <2>1, NothingMoved DEF vars, threadVars, ownerVars
  <1>2. ASSUME NEW q \in Queries, ScheduleQuery(q)
        PROVE  DbInv'
    <2>1. q \in Jobs
      BY DEF Jobs
    <2> QED
      BY <1>2, <2>1, ScheduleStep DEF ScheduleQuery
  <1>3. ASSUME NEW t \in Transactions, ScheduleTransaction(t)
        PROVE  DbInv'
    <2>1. t \in Jobs
      BY DEF Jobs
    <2> QED
      BY <1>3, <2>1, ScheduleStep DEF ScheduleTransaction
  <1>4. CASE SendStopSignal \/ Trigger \/ BeginCallbacks \/ EndCallbacks \/ WaitUntilStopped
    <2>1. UNCHANGED <<queueVars, trans, query, historyVars, pc, i>>
      BY <1>4 DEF SendStopSignal, Trigger, BeginCallbacks, EndCallbacks, WaitUntilStopped, threadVars
    <2>2. owner' = owner \/ (owner # "callback" /\ owner' # "callback")
      BY <1>4 DEF SendStopSignal, Trigger, BeginCallbacks, EndCallbacks, WaitUntilStopped
    <2>3. Holding'
      BY <1>0, <2>1, <2>2 DEF Holding
    <2> QED
      BY <1>0, <2>1, <2>3, NothingMoved
  <1>5. CASE ThreadWait \/ EndTransactions \/ QueryBusy \/ ThrowOnOwner \/ EndExecute \/ CheckStop
    <2>1. UNCHANGED <<queueVars, trans, query, historyVars, owner>> /\ (i' = i \/ i' = i + 1)
      BY <1>5 DEF ThreadWait, EndTransactions, QueryBusy, ThrowOnOwner, EndExecute, CheckStop, ownerVars
    <2>2. \/ pc' = "escaped"
          \/ pc \notin {"begun", "escaped"} /\ pc' # "begun"
      BY <1>5 DEF ThreadWait, EndTransactions, QueryBusy, ThrowOnOwner, EndExecute, CheckStop
    <2>3. Holding'
      BY <1>0, <2>1, <2>2 DEF Holding
    <2> QED
      BY <1>0, <2>1, <2>3, NothingMoved
  <1> QED
    BY <1>1, <1>2, <1>3, <1>4, <1>5, TakeCallbackStep, FinishCallbackStep, TakeTransactionStep,
       CommitStep, QueryDoneStep, ReadStep DEF Next, Owner, Thread

\* The inductive invariant holds in every state.
THEOREM DbInvariant == Spec => []DbInv
  <1>1. Init => DbInv
    BY DbInit
  <1>2. DbInv /\ [Next]_vars => DbInv'
    BY DbNext
  <1> QED
    BY <1>1, <1>2, PTL DEF Spec

\* Whether a thread holds a job, as a number
LEMMA HeldTimes ==
  ASSUME NEW x, NEW j \in Jobs, NEW where
  PROVE  Cardinality({w \in {where} : x = j}) = IF j \in Held(x) THEN 1 ELSE 0
  <1>0. j \in Held(x) <=> x = j
    BY DbAssumption DEF Held
  <1>1. CASE x = j
    <2>1. {w \in {where} : x = j} = {where}
      BY <1>1
    <2> QED
      BY <1>0, <1>1, <2>1, FS_Singleton
  <1>2. CASE x # j
    <2>1. {w \in {where} : x = j} = {}
      BY <1>2
    <2> QED
      BY <1>0, <1>2, <2>1, FS_EmptySet
  <1> QED
    BY <1>1, <1>2

LEMMA FinishedTimes ==
  ASSUME NEW j
  PROVE  Cardinality(finished \cap {j}) = IF j \in finished THEN 1 ELSE 0
  <1>1. CASE j \in finished
    <2>1. finished \cap {j} = {j}
      BY <1>1
    <2> QED
      BY <1>1, <2>1, FS_Singleton
  <1>2. CASE j \notin finished
    <2>1. finished \cap {j} = {}
      BY <1>2
    <2> QED
      BY <1>2, <2>1, FS_EmptySet
  <1> QED
    BY <1>1, <1>2

\* Whatever the two threads do between their critical sections, a job that was
\* scheduled is in one queue or one thread's hands or finished, and in one only;
\* it is executed at most once, and before its callback runs.
THEOREM ExactlyOnceHolds == Spec => []ExactlyOnce
  <1>1. ASSUME DbInv
        PROVE  ExactlyOnce
    <2>1. SUFFICES ASSUME NEW j \in Jobs
                   PROVE  /\ Places(j) = IF j \in scheduled THEN 1 ELSE 0
                          /\ executed[j] = Times(j, outQueue)
                                 + Cardinality({x \in {"query"} : query = j})
                                 + Cardinality(finished \cap {j})
      BY DEF ExactlyOnce
    <2> DEFINE a == Times(j, inQueue)
               b == Times(j, inTransactionQueue)
               c == Times(j, executeQueue)
               d == Times(j, outQueue)
               e == Cardinality({x \in {"trans"} : trans = j})
               f == Cardinality({x \in {"query"} : query = j})
               g == Cardinality(finished \cap {j})
    <2>2. /\ a = IF j \in Elems(inQueue) THEN 1 ELSE 0
          /\ b = IF j \in Elems(inTransactionQueue) THEN 1 ELSE 0
          /\ c = IF j \in Elems(executeQueue) THEN 1 ELSE 0
          /\ d = IF j \in Elems(outQueue) THEN 1 ELSE 0
      BY <1>1, TimesInQueue DEF DbInv, Types
    <2>3. e = IF j \in Held(trans) THEN 1 ELSE 0
      BY HeldTimes
    <2>4. f = IF j \in Held(query) THEN 1 ELSE 0
      BY HeldTimes
    <2>5. g = IF j \in finished THEN 1 ELSE 0
      BY FinishedTimes
    <2>6. Places(j) = a + b + c + d + e + f + g
      BY DEF Places
    <2>7. executed[j] = IF j \in Done THEN 1 ELSE 0
      BY <1>1 DEF DbInv, Accounted
    <2> HIDE DEF a, b, c, d, e, f, g
    <2>8. executed[j] = d + f + g
      BY <1>1, <2>2, <2>4, <2>5, <2>7 DEF DbInv, Apart, Done
    <2>9. a + b + c + e = IF j \in Waiting THEN 1 ELSE 0
      BY <1>1, <2>2, <2>3 DEF DbInv, Apart, Waiting
    <2>10. d + f + g = IF j \in Done THEN 1 ELSE 0
      BY <2>7, <2>8
    <2>11. (j \in scheduled <=> j \in Waiting \/ j \in Done) /\ ~(j \in Waiting /\ j \in Done)
      BY <1>1 DEF DbInv, Apart, Accounted
    <2>12. a + b + c + d + e + f + g = (a + b + c + e) + (d + f + g)
      BY <2>2, <2>3, <2>4, <2>5
    <2>13. Places(j) = IF j \in scheduled THEN 1 ELSE 0
      BY <2>6, <2>9, <2>10, <2>11, <2>12
    <2> QED
      BY <2>8, <2>13 DEF d, f, g
  <1> QED
    BY <1>1, DbInvariant, PTL

-----------------------------------------------------------------------------
(* TimerPool *)

\* The types of the pool, of the timers and of the locals of a cycle.
PoolTypes ==
    /\ now \in Nat /\ curTime \in Nat /\ at \in Nat \ {0}
    /\ pool \in Seq(Entry)
    /\ poolIndex \in [Timers -> Nat]
    /\ exists \subseteq Timers /\ freed \subseteq Timers /\ forced \subseteq Timers
    /\ phase \in {"idle", "sweep", "trigger", "callback", "undefined"}
    /\ triggered \in Seq(Nat)
    /\ stale \in BOOLEAN

\* Where a cycle is: the sweep has only noted entries that it has passed, and
\* those stay in the pool, since only the last entry is ever taken away.
CyclePlace ==
    /\ phase = "idle" => at = 1 /\ triggered = <<>>
    /\ phase = "sweep" => /\ at <= Len(pool) + 1
                       /\ \A k \in 1 .. Len(triggered) : triggered[k] \in 1 .. at - 1
    /\ phase \in {"trigger", "callback"} =>
           \A k \in 1 .. Len(triggered) : triggered[k] \in 1 .. Len(pool)

\* A timer and the pool agree.
Agrees(t) ==
    /\ \A k \in 1 .. Len(pool) : Live(k, t) <=> (poolIndex[t] = k /\ t \in exists)
    /\ poolIndex[t] \in 0 .. Len(pool)
    /\ t \notin exists => poolIndex[t] = 0
    /\ t \in forced => poolIndex[t] # 0

\* The inductive invariant
TimerInv ==
    /\ PoolTypes
    /\ CyclePlace
    /\ ~stale /\ phase # "undefined" => \A t \in Timers : Agrees(t)

-----------------------------------------------------------------------------
(* What the operations on the arrays do. *)

\* timer_pool_internal_start_timer adds a live entry at the end.
LEMMA Started ==
  ASSUME PoolTypes, NEW t \in Timers, NEW due \in Nat, StartEntry(t, due)
  PROVE  /\ pool' \in Seq(Entry) /\ Len(pool') = Len(pool) + 1
         /\ \A k \in 1 .. Len(pool) : pool'[k] = pool[k]
         /\ pool'[Len(pool) + 1] = [timer |-> t, due |-> due, dead |-> FALSE]
         /\ poolIndex' = [poolIndex EXCEPT ![t] = Len(pool) + 1]
  <1>1. [timer |-> t, due |-> due, dead |-> FALSE] \in Entry
    BY DEF Entry
  <1> QED
    BY <1>1, AppendProperties DEF StartEntry, PoolTypes

\* A write to one entry leaves the length and the other entries alone.
LEMMA Written ==
  ASSUME PoolTypes, NEW k \in Nat, NEW e \in Entry, pool' = [pool EXCEPT ![k] = e]
  PROVE  /\ pool' \in Seq(Entry) /\ Len(pool') = Len(pool)
         /\ \A j \in 1 .. Len(pool) : pool'[j] = IF j = k THEN e ELSE pool[j]
  <1>1. DOMAIN pool = 1 .. Len(pool) /\ \A j \in 1 .. Len(pool) : pool[j] \in Entry
    BY LenProperties, ElementOfSeq DEF PoolTypes
  <1>2. CASE k \in 1 .. Len(pool)
    BY <1>1, <1>2, ExceptSeq DEF PoolTypes
  <1>3. CASE k \notin 1 .. Len(pool)
    <2>1. pool' = pool
      BY <1>1, <1>3 DEF PoolTypes
    <2> QED
      BY <2>1, <1>3 DEF PoolTypes
  <1> QED
    BY <1>2, <1>3

\* timer_pool_swap_and_pop: the last entry takes the place of entry i.
LEMMA Swapped ==
  ASSUME PoolTypes, NEW n, n = Len(pool), at \in 1 .. n,
         pool' = SubSeq([pool EXCEPT ![at] = pool[n]], 1, n - 1)
  PROVE  /\ n \in Nat \ {0}
         /\ pool' \in Seq(Entry) /\ Len(pool') = n - 1
         /\ \A k \in 1 .. n - 1 : pool'[k] = IF k = at THEN pool[n] ELSE pool[k]
  <1> DEFINE s == [pool EXCEPT ![at] = pool[n]]
  <1>1. n \in Nat \ {0} /\ DOMAIN pool = 1 .. n /\ \A j \in 1 .. n : pool[j] \in Entry
    BY LenProperties, ElementOfSeq DEF PoolTypes
  <1>2. \A k \in 1 .. n - 1 : s[k] = (IF k = at THEN pool[n] ELSE pool[k]) /\ s[k] \in Entry
    BY <1>1 DEF PoolTypes
  <1> HIDE DEF s
  <1>3. /\ SubSeq(s, 1, n - 1) \in Seq(Entry)
        /\ Len(SubSeq(s, 1, n - 1)) = IF 1 <= n - 1 THEN n - 1 - 1 + 1 ELSE 0
        /\ \A k \in 1 .. n - 1 - 1 + 1 : SubSeq(s, 1, n - 1)[k] = s[1 + k - 1]
    <2>1. 1 \in Int /\ n - 1 \in Int
      BY <1>1
    <2> QED
      BY <2>1, <1>2, SubSeqProperties
  <1>4. pool' = SubSeq(s, 1, n - 1)
    BY DEF s
  <1> QED
    BY <1>1, <1>2, <1>3, <1>4
-----------------------------------------------------------------------------
(* What the operations preserve. *)

\* Starting a timer that is not started: a new entry for it and for no other.
LEMMA StartAgrees ==
  ASSUME PoolTypes, \A u \in Timers : Agrees(u),
         NEW t \in Timers, NEW due \in Nat, StartEntry(t, due), poolIndex[t] = 0,
         exists' = exists \cup {t}, forced' \subseteq forced \cup {t}
  PROVE  \A u \in Timers : Agrees(u)'
  <1> SUFFICES ASSUME NEW u \in Timers PROVE Agrees(u)'
    OBVIOUS
  <1>1. /\ Len(pool') = Len(pool) + 1
        /\ \A k \in 1 .. Len(pool) : pool'[k] = pool[k]
        /\ pool'[Len(pool) + 1] = [timer |-> t, due |-> due, dead |-> FALSE]
        /\ poolIndex' = [poolIndex EXCEPT ![t] = Len(pool) + 1]
    BY Started
  <1>2. Len(pool) \in Nat /\ poolIndex \in [Timers -> Nat]
    BY LenProperties DEF PoolTypes
  <1>3. \A k \in 1 .. Len(pool') : Live(k, u)' <=> (poolIndex'[u] = k /\ u \in exists')
    BY <1>1, <1>2 DEF Agrees, Live
  <1> QED
    BY <1>1, <1>2, <1>3 DEF Agrees

\* Setting a trigger time or delaying: an entry that stays alive, or dead.
LEMMA WriteAgrees ==
  ASSUME PoolTypes, \A u \in Timers : Agrees(u),
         NEW k \in Nat, NEW e \in Entry, pool' = [pool EXCEPT ![k] = e],
         k \in 1 .. Len(pool) => e.timer = pool[k].timer /\ e.dead = pool[k].dead,
         poolIndex' = poolIndex, exists' = exists,
         \A u \in forced' : u \in forced \/ poolIndex[u] # 0
  PROVE  \A u \in Timers : Agrees(u)'
  <1>1. Len(pool') = Len(pool) /\ \A j \in 1 .. Len(pool) : pool'[j] = IF j = k THEN e ELSE pool[j]
    BY Written
  <1>2. Len(pool) \in Nat
    BY LenProperties DEF PoolTypes
  <1>3. \A u \in Timers : \A j \in 1 .. Len(pool) : Live(j, u)' <=> Live(j, u)
    BY <1>1, <1>2 DEF Live
  <1> QED
    BY <1>1, <1>2, <1>3 DEF Agrees

\* timer_stop: the timer's own entry, and no other, is marked.
LEMMA StopAgrees ==
  ASSUME PoolTypes, NEW t \in exists, StopEntry(t),
         exists' = exists \/ exists' = exists \ {t}
  PROVE  /\ pool' \in Seq(Entry) /\ Len(pool') = Len(pool)
         /\ poolIndex' = [poolIndex EXCEPT ![t] = 0]
         /\ forced' = forced \ {t}
         /\ (\A u \in Timers : Agrees(u)) => \A u \in Timers : Agrees(u)'
  <1>1. t \in Timers /\ poolIndex \in [Timers -> Nat] /\ Len(pool) \in Nat
        /\ DOMAIN pool = 1 .. Len(pool) /\ \A j \in 1 .. Len(pool) : pool[j] \in Entry
    BY LenProperties, ElementOfSeq DEF PoolTypes
  <1>2. poolIndex' = [poolIndex EXCEPT ![t] = 0] /\ forced' = forced \ {t}
    BY DEF StopEntry, INVALID_INDEX
  <1> DEFINE k == poolIndex[t]
  <1>3. CASE k \in 1 .. Len(pool)
    <2> DEFINE e == [pool[k] EXCEPT !.dead = TRUE]
    <2>1. e \in Entry /\ e.timer = pool[k].timer /\ e.dead = TRUE
      BY <1>1, <1>3 DEF Entry
    <2>2. pool' = [pool EXCEPT ![k] = e]
      BY <1>1, <1>3 DEF StopEntry, MarkDead, INVALID_INDEX
    <2> HIDE DEF e
    <2>3. pool' \in Seq(Entry) /\ Len(pool') = Len(pool)
          /\ \A j \in 1 .. Len(pool) : pool'[j] = IF j = k THEN e ELSE pool[j]
      BY <1>1, <2>1, <2>2, Written
    <2>4. ASSUME \A u \in Timers : Agrees(u), NEW u \in Timers PROVE Agrees(u)'
      <3>1. \A j \in 1 .. Len(pool') : Live(j, u)' <=> (poolIndex'[u] = j /\ u \in exists')
        BY <1>1, <1>2, <1>3, <2>1, <2>3, <2>4 DEF Agrees, Live
      <3> QED
        BY <1>1, <1>2, <1>3, <2>3, <2>4, <3>1 DEF Agrees
    <2> QED
      BY <1>2, <2>3, <2>4
  <1>4. CASE k \notin 1 .. Len(pool)
    <2>1. pool' = pool
      BY <1>1, <1>4 DEF StopEntry, MarkDead
    <2>2. ASSUME \A u \in Timers : Agrees(u), NEW u \in Timers PROVE Agrees(u)'
      <3>1. k = 0
        BY <1>1, <1>4, <2>2 DEF Agrees
      <3>2. \A j \in 1 .. Len(pool') : Live(j, u)' <=> (poolIndex'[u] = j /\ u \in exists')
        BY <1>1, <1>2, <2>1, <2>2, <3>1 DEF Agrees, Live
      <3> QED
        BY <1>1, <1>2, <2>1, <2>2, <3>1, <3>2 DEF Agrees
    <2> QED
      BY <1>2, <2>1, <2>2 DEF PoolTypes
  <1> QED
    BY <1>3, <1>4

\* timer_pool_swap_and_pop, for a live last entry: its timer gets the index
\* of the dead one.
LEMMA SweepAgrees ==
  ASSUME TimerInv, SweepDead, ~stale', phase' # "undefined"
  PROVE  \A u \in Timers : Agrees(u)'
  <1> SUFFICES ASSUME NEW u \in Timers PROVE Agrees(u)'
    OBVIOUS
  <1> DEFINE n == Len(pool)
             moved == pool[n].timer
  <1>1. PoolTypes /\ poolIndex \in [Timers -> Nat] /\ DOMAIN pool = 1 .. n /\ n \in Nat
        /\ \A j \in 1 .. n : pool[j] \in Entry
    BY LenProperties, ElementOfSeq DEF TimerInv, PoolTypes
  <1>2. at \in 1 .. n /\ pool[at].dead /\ ~stale /\ phase # "undefined"
        /\ ~(at # n /\ pool[n].dead) /\ ~(at # n /\ moved \in freed) /\ exists' = exists /\ forced' = forced
        /\ pool' = SubSeq([pool EXCEPT ![at] = pool[n]], 1, n - 1)
        /\ poolIndex' = IF at # n /\ moved \notin freed THEN [poolIndex EXCEPT ![moved] = at] ELSE poolIndex
    BY <1>1 DEF SweepDead
  <1>3. n \in Nat \ {0} /\ Len(pool') = n - 1
        /\ \A k \in 1 .. n - 1 : pool'[k] = IF k = at THEN pool[n] ELSE pool[k]
    BY <1>1, <1>2, Swapped
  <1>4. \A v \in Timers : Agrees(v)
    BY <1>2 DEF TimerInv
  <1>5. Agrees(u) /\ (u \in forced => poolIndex[u] # 0) /\ (u \notin exists => poolIndex[u] = 0)
        /\ poolIndex[u] \in 0 .. n
    BY <1>4 DEF Agrees
  <1>6. ASSUME \A k \in 1 .. n - 1 : Live(k, u)' <=> (poolIndex'[u] = k /\ u \in exists'),
               poolIndex'[u] \in 0 .. n - 1, u \notin exists => poolIndex'[u] = 0,
               u \in forced => poolIndex'[u] # 0
        PROVE  Agrees(u)'
    BY <1>2, <1>3, <1>6 DEF Agrees
  <1>7. CASE at = n
    <2>1. poolIndex' = poolIndex /\ \A k \in 1 .. n - 1 : Live(k, u)' <=> Live(k, u)
      BY <1>2, <1>3, <1>7 DEF Live
    <2>2. poolIndex[u] # n
      BY <1>2, <1>3, <1>4, <1>7 DEF Agrees, Live
    <2>3. \A k \in 1 .. n - 1 : Live(k, u)' <=> (poolIndex'[u] = k /\ u \in exists')
      BY <1>2, <1>3, <1>5, <2>1 DEF Agrees
    <2>4. poolIndex'[u] \in 0 .. n - 1
      BY <1>3, <1>5, <2>1, <2>2
    <2> QED
      BY <1>5, <1>6, <2>1, <2>3, <2>4
  <1>8. CASE at # n
    <2>1. moved \in Timers /\ ~pool[n].dead /\ poolIndex' = [poolIndex EXCEPT ![moved] = at]
      <3>1. pool[n] \in Entry
        BY <1>1, <1>3
      <3>2. moved \in Timers
        BY <3>1 DEF Entry
      <3>3. ~pool[n].dead /\ moved \notin freed
        BY <1>2, <1>8
      <3>4. poolIndex' = [poolIndex EXCEPT ![moved] = at]
        BY <1>2, <1>8, <3>3
      <3> QED
        BY <3>2, <3>3, <3>4
    <2>2. poolIndex[moved] = n /\ moved \in exists
      BY <1>3, <1>4, <2>1 DEF Agrees, Live
    <2>3. CASE u = moved
      <3>1. poolIndex'[u] = at /\ at \in 1 .. n - 1
        <4>1. poolIndex'[u] = at
          BY <1>1, <2>1, <2>3
        <4>2. at \in 1 .. n - 1
          BY <1>2, <1>3, <1>8
        <4> QED
          BY <4>1, <4>2
      <3>2. \A k \in 1 .. n - 1 : Live(k, u)' <=> k = at
        <4>1. \A k \in 1 .. n - 1 : ~Live(k, u)
          BY <1>3, <1>5, <2>2, <2>3 DEF Agrees
        <4> QED
          BY <1>3, <2>1, <2>3, <4>1 DEF Live
      <3> QED
        BY <1>2, <1>3, <1>6, <2>2, <2>3, <3>1, <3>2
    <2>4. CASE u # moved
      <3>1. poolIndex'[u] = poolIndex[u] /\ poolIndex[u] # n /\ poolIndex[u] # at
        <4>1. poolIndex'[u] = poolIndex[u]
          BY <1>1, <2>1, <2>4
        <4>2. ~Live(n, u) /\ ~Live(at, u)
          BY <1>2, <2>4 DEF Live
        <4>3. u \notin exists => poolIndex[u] = 0
          BY <1>5
        <4> QED
          BY <1>2, <1>3, <1>5, <4>1, <4>2, <4>3 DEF Agrees
      <3>2. \A k \in 1 .. n - 1 : Live(k, u)' <=> (k # at /\ Live(k, u))
        BY <1>3, <2>1, <2>4 DEF Live
      <3>3. \A k \in 1 .. n - 1 : Live(k, u)' <=> (poolIndex'[u] = k /\ u \in exists')
        BY <1>2, <1>3, <1>5, <3>1, <3>2 DEF Agrees
      <3>4. poolIndex'[u] \in 0 .. n - 1
        BY <1>3, <1>5, <3>1
      <3> QED
        BY <1>5, <1>6, <3>1, <3>3, <3>4
    <2> QED
      BY <2>3, <2>4
  <1> QED
    BY <1>7, <1>8
-----------------------------------------------------------------------------
(* The inductive invariant *)

\* A step that leaves the pool, the timers and the place in the cycle alone.
LEMMA QuietStep ==
  ASSUME TimerInv, UNCHANGED <<pool, timerVars, stale>>, forced' \subseteq forced,
         phase = "undefined" => phase' = "undefined"
  PROVE  ~stale' /\ phase' # "undefined" => \A t \in Timers : Agrees(t)'
  BY DEF TimerInv, timerVars, Agrees, Live

\* The operations, from the main loop or from a callback.
LEMMA OperationStep ==
  ASSUME TimerInv, NEW t \in Timers, Operation(t)
  PROVE  TimerInv'
  <1>1. /\ PoolTypes /\ MayCall /\ now' = now /\ UNCHANGED cycleVars /\ stale' = stale
        /\ phase # "undefined" /\ phase \in {"idle", "callback"}
    BY DEF TimerInv, Operation, Create, Stop, Destroy, Restart, Delay, ForceTrigger, MayCall
  <1>2. Len(pool) \in Nat /\ DOMAIN pool = 1 .. Len(pool) /\ poolIndex \in [Timers -> Nat]
        /\ \A j \in 1 .. Len(pool) : pool[j] \in Entry
    BY <1>1, LenProperties, ElementOfSeq DEF PoolTypes
  <1>3. ~stale => \A u \in Timers : Agrees(u)
    BY <1>1 DEF TimerInv
  \* Enough: types, a pool that is no shorter, and agreement.
  <1>4. ASSUME pool' \in Seq(Entry), Len(pool') >= Len(pool), poolIndex' \in [Timers -> Nat],
               exists' \subseteq Timers, freed' \subseteq Timers, forced' \subseteq Timers,
               ~stale => \A u \in Timers : Agrees(u)'
        PROVE  TimerInv'
    <2>1. PoolTypes'
      BY <1>1, <1>4 DEF PoolTypes, cycleVars
    <2>2. Len(pool') \in Nat
      BY <1>4, LenProperties
    <2>3. CyclePlace'
      BY <1>1, <1>2, <1>4, <2>2 DEF TimerInv, CyclePlace, cycleVars
    <2> QED
      BY <1>1, <1>4, <2>1, <2>3 DEF TimerInv
  \* Writing to an entry that stays as dead or alive as it was.
  <1>5. ASSUME NEW due \in Nat, t \in exists, poolIndex[t] # 0, SetDue(poolIndex[t], due),
               UNCHANGED timerVars, forced' \subseteq forced \cup {t}
        PROVE  TimerInv'
    <2> DEFINE k == poolIndex[t]
    <2>1. CASE k \in 1 .. Len(pool)
      <3> DEFINE d == [pool[k] EXCEPT !.due = due]
                 e == [d EXCEPT !.dead = FALSE]
      <3>1. e \in Entry /\ e.timer = pool[k].timer /\ e.dead = FALSE
        <4>1. d \in Entry /\ d.timer = pool[k].timer
          BY <1>2, <2>1, <1>5 DEF Entry
        <4> HIDE DEF d
        <4> QED
          BY <4>1 DEF Entry
      <3>2. pool' = [pool EXCEPT ![k] = e]
        BY <1>2, <1>5, <2>1 DEF SetDue
      <3> HIDE DEF e
      <3>3. e.timer = pool[k].timer /\ (~stale => e.dead = pool[k].dead)
        <4>1. ~stale => Live(k, t)
          BY <1>3, <1>5, <2>1 DEF Agrees
        <4> QED
          BY <1>2, <2>1, <3>1, <4>1 DEF Live, Entry
      <3>4. pool' \in Seq(Entry) /\ Len(pool') = Len(pool)
        BY <1>1, <1>2, <3>1, <3>2, Written
      <3>5. ~stale => \A u \in Timers : Agrees(u)'
        <4>1. \A u \in forced' : u \in forced \/ poolIndex[u] # 0
          BY <1>5
        <4>2. k \in Nat /\ poolIndex' = poolIndex /\ exists' = exists
          BY <1>2, <1>5 DEF timerVars
        <4> QED
          BY <1>1, <1>3, <3>1, <3>2, <3>3, <4>1, <4>2, WriteAgrees
      <3> QED
        BY <1>1, <1>2, <1>4, <1>5, <3>4, <3>5 DEF timerVars, PoolTypes
    <2>2. CASE k \notin 1 .. Len(pool)
      <3>1. pool' = pool
        BY <1>2, <1>5, <2>2 DEF SetDue
      <3>2. stale
        BY <1>1, <1>2, <1>3, <1>5, <2>2 DEF Agrees, PoolTypes
      <3> QED
        BY <1>1, <1>2, <1>4, <1>5, <3>1, <3>2 DEF timerVars, PoolTypes
    <2> QED
      BY <2>1, <2>2
  \* Starting a timer that has no index.
  <1>6. ASSUME NEW due \in Nat, StartEntry(t, due), ~stale => poolIndex[t] = 0,
               exists' = exists \cup {t}, freed' = freed, forced' \subseteq forced \cup {t}
        PROVE  TimerInv'
    <2>1. pool' \in Seq(Entry) /\ Len(pool') = Len(pool) + 1
          /\ poolIndex' = [poolIndex EXCEPT ![t] = Len(pool) + 1]
      BY <1>1, <1>6, Started
    <2>2. ~stale => \A u \in Timers : Agrees(u)'
      BY <1>1, <1>3, <1>6, StartAgrees
    <2> QED
      BY <1>1, <1>2, <1>4, <1>6, <2>1, <2>2 DEF PoolTypes
  <1>7. now \in Nat /\ now + Period \in Nat
    BY <1>1, TimerAssumption DEF PoolTypes
  <1>8. ASSUME NEW start \in BOOLEAN, Create(t, start) PROVE TimerInv'
    <2>1. t \notin exists /\ exists' = exists \cup {t} /\ freed' = freed /\ forced' = forced
      BY <1>8 DEF Create
    <2>2. CASE start
      <3>1. ~stale => poolIndex[t] = 0
        BY <1>3, <2>1 DEF Agrees
      <3>2. StartEntry(t, now + Period)
        BY <1>8, <2>2 DEF Create
      <3> QED
        BY <1>6, <1>7, <2>1, <3>1, <3>2
    <2>3. CASE ~start
      <3>1. pool' = pool /\ poolIndex' = poolIndex
        BY <1>8, <2>3 DEF Create
      <3>2. ~stale => \A u \in Timers : Agrees(u)'
        BY <1>2, <1>3, <2>1, <3>1 DEF Agrees, Live
      <3> QED
        BY <1>1, <1>2, <1>4, <2>1, <3>1, <3>2 DEF PoolTypes
    <2> QED
      BY <2>2, <2>3
  <1>9. CASE Stop(t) \/ Destroy(t)
    <2>1. t \in exists /\ StopEntry(t) /\ (exists' = exists \/ exists' = exists \ {t})
          /\ freed' \subseteq Timers
      BY <1>1, <1>9 DEF Stop, Destroy, PoolTypes
    <2>2. /\ pool' \in Seq(Entry) /\ Len(pool') = Len(pool)
          /\ poolIndex' = [poolIndex EXCEPT ![t] = 0]
          /\ forced' = forced \ {t}
          /\ (\A u \in Timers : Agrees(u)) => \A u \in Timers : Agrees(u)'
      BY <1>1, <2>1, StopAgrees
    <2> QED
      BY <1>1, <1>2, <1>3, <1>4, <2>1, <2>2 DEF PoolTypes
  <1>10. CASE Restart(t)
    <2>1. t \in exists /\ exists' = exists /\ freed' = freed /\ forced' = forced
          /\ exists' = exists \cup {t}
      BY <1>10 DEF Restart
    <2>2. CASE poolIndex[t] = 0 /\ StartEntry(t, now + Period)
      BY <1>6, <1>7, <2>1, <2>2
    <2>3. CASE poolIndex[t] # 0 /\ SetDue(poolIndex[t], now + Period) /\ UNCHANGED poolIndex
      BY <1>5, <1>7, <2>1, <2>3 DEF timerVars
    <2> QED
      BY <1>10, <2>2, <2>3 DEF Restart, INVALID_INDEX
  <1>11. CASE ForceTrigger(t)
    <2>1. t \in exists /\ exists' = exists /\ freed' = freed /\ forced' \subseteq forced \cup {t}
          /\ exists' = exists \cup {t}
      BY <1>11 DEF ForceTrigger
    <2>2. CASE poolIndex[t] = 0 /\ StartEntry(t, now)
      BY <1>6, <1>7, <2>1, <2>2
    <2>3. CASE poolIndex[t] # 0 /\ SetDue(poolIndex[t], now) /\ UNCHANGED poolIndex
      BY <1>5, <1>7, <2>1, <2>3 DEF timerVars
    <2> QED
      BY <1>11, <2>2, <2>3 DEF ForceTrigger, INVALID_INDEX
  <1>12. CASE Delay(t)
    <2> DEFINE k == poolIndex[t]
               e == [pool[k] EXCEPT !.due = @ + 1]
    <2>1. k \in 1 .. Len(pool) /\ k \in Nat /\ UNCHANGED timerVars /\ forced' = forced
          /\ pool' = [pool EXCEPT ![k] = e]
      BY <1>2, <1>12 DEF Delay
    <2>2. e \in Entry /\ e.timer = pool[k].timer /\ e.dead = pool[k].dead
      BY <1>2, <2>1 DEF Entry
    <2> HIDE DEF e
    <2>3. pool' \in Seq(Entry) /\ Len(pool') = Len(pool)
      BY <1>1, <2>1, <2>2, Written
    <2>4. ~stale => \A u \in Timers : Agrees(u)'
      BY <1>1, <1>3, <2>1, <2>2, WriteAgrees DEF timerVars
    <2> QED
      BY <1>1, <1>2, <1>4, <2>1, <2>3, <2>4 DEF timerVars, PoolTypes
  <1> QED
    BY <1>8, <1>9, <1>10, <1>11, <1>12 DEF Operation

\* The steps of a cycle and of the clock.
LEMMA CycleStep ==
  ASSUME TimerInv, Tick \/ Cycle \/ UNCHANGED poolVars
  PROVE  TimerInv'
  <1>1. PoolTypes /\ CyclePlace /\ (~stale /\ phase # "undefined" => \A u \in Timers : Agrees(u))
    BY DEF TimerInv
  <1>2. Len(pool) \in Nat /\ DOMAIN pool = 1 .. Len(pool) /\ poolIndex \in [Timers -> Nat]
        /\ Len(triggered) \in Nat
        /\ \A j \in 1 .. Len(pool) : pool[j] \in Entry
    BY <1>1, LenProperties, ElementOfSeq DEF PoolTypes
  <1>3. ASSUME UNCHANGED <<pool, timerVars, stale>>, forced' \subseteq forced,
               phase = "undefined" => phase' = "undefined", CyclePlace',
               now' \in Nat, curTime' \in Nat, at' \in Nat \ {0}, triggered' \in Seq(Nat),
               phase' \in {"idle", "sweep", "trigger", "callback", "undefined"}
        PROVE  TimerInv'
    <2>1. PoolTypes'
      BY <1>1, <1>3 DEF PoolTypes, timerVars
    <2>2. ~stale' /\ phase' # "undefined" => \A u \in Timers : Agrees(u)'
      BY <1>3, QuietStep
    <2> QED
      BY <1>3, <2>1, <2>2 DEF TimerInv
  <1>4. CASE Tick \/ UNCHANGED poolVars
    <2>1. CyclePlace'
      BY <1>1, <1>4 DEF CyclePlace, Tick, poolVars, cycleVars
    <2> QED
      BY <1>1, <1>3, <1>4, <2>1 DEF Tick, poolVars, cycleVars, PoolTypes
  <1>5. CASE BeginCycle
    <2>1. CyclePlace'
      BY <1>1, <1>2, <1>5 DEF CyclePlace, BeginCycle
    <2> QED
      BY <1>1, <1>3, <1>5, <2>1 DEF BeginCycle, PoolTypes
  <1>6. CASE SweepDead
    <2> DEFINE n == Len(pool)
    <2>1. /\ phase = "sweep" /\ at \in 1 .. n
          /\ pool' = SubSeq([pool EXCEPT ![at] = pool[n]], 1, n - 1)
          /\ phase' \in {"sweep", "undefined"} /\ stale' \in BOOLEAN
          /\ poolIndex' = poolIndex \/ poolIndex' = [poolIndex EXCEPT ![pool[n].timer] = at]
          /\ UNCHANGED <<now, exists, freed, at, curTime, triggered, forced>>
      BY <1>1, <1>2, <1>6 DEF SweepDead, PoolTypes
    <2>2. n \in Nat \ {0} /\ pool' \in Seq(Entry) /\ Len(pool') = n - 1
      BY <1>1, <2>1, Swapped
    <2>3. poolIndex' \in [Timers -> Nat]
      BY <1>2, <2>1
    <2>4. PoolTypes'
      BY <1>1, <2>1, <2>2, <2>3 DEF PoolTypes
    <2>5. CyclePlace'
      BY <1>1, <2>1, <2>2 DEF CyclePlace
    <2>6. ~stale' /\ phase' # "undefined" => \A u \in Timers : Agrees(u)'
      BY <1>6, SweepAgrees
    <2> QED
      BY <2>4, <2>5, <2>6 DEF TimerInv
  <1>7. CASE SweepLive
    <2>1. /\ phase = "sweep" /\ phase' = phase /\ at \in 1 .. Len(pool) /\ at' = at + 1
          /\ triggered' = triggered \/ triggered' = Append(triggered, at)
          /\ pool' = pool
      BY <1>2, <1>7 DEF SweepLive
    <2>2. triggered' \in Seq(Nat) /\ \A k \in 1 .. Len(triggered') : triggered'[k] \in 1 .. at' - 1
      <3>1. \A k \in 1 .. Len(triggered) : triggered[k] \in 1 .. at - 1
        BY <1>1, <2>1 DEF CyclePlace
      <3>2. CASE triggered' = triggered
        BY <1>1, <1>2, <2>1, <3>1, <3>2 DEF PoolTypes
      <3>3. CASE triggered' = Append(triggered, at)
        <4>1. /\ triggered' \in Seq(Nat) /\ Len(triggered') = Len(triggered) + 1
              /\ \A k \in 1 .. Len(triggered) : triggered'[k] = triggered[k]
              /\ triggered'[Len(triggered) + 1] = at
          BY <1>1, <3>3, AppendProperties DEF PoolTypes
        <4>2. at \in Nat /\ at' = at + 1 /\ Len(triggered) \in Nat
          BY <1>1, <1>2, <2>1, LenProperties DEF PoolTypes
        <4>3. ASSUME NEW k \in 1 .. Len(triggered')
              PROVE  triggered'[k] \in 1 .. at' - 1
          <5>1. CASE k \in 1 .. Len(triggered)
            BY <3>1, <4>1, <4>2, <5>1
          <5>2. CASE k = Len(triggered) + 1
            BY <2>1, <4>1, <4>2, <5>2
          <5> QED
            BY <4>1, <4>2, <5>1, <5>2
        <4> QED
          BY <4>1, <4>3
      <3> QED
        BY <2>1, <3>2, <3>3
    <2>3. CyclePlace'
      BY <1>2, <2>1, <2>2 DEF CyclePlace
    <2> QED
      BY <1>1, <1>3, <1>7, <2>1, <2>2, <2>3 DEF SweepLive, PoolTypes
  <1>8. CASE EndSweep
    <2>1. CyclePlace'
      <3>1. \A k \in 1 .. Len(triggered) : triggered[k] \in 1 .. Len(pool)
        BY <1>1, <1>2, <1>8 DEF CyclePlace, EndSweep, PoolTypes
      <3> QED
        BY <1>8, <3>1 DEF CyclePlace, EndSweep
    <2> QED
      BY <1>1, <1>3, <1>8, <2>1 DEF EndSweep, PoolTypes
  <1>9. CASE CallbackReturns
    <2>1. CyclePlace'
      BY <1>1, <1>9 DEF CyclePlace, CallbackReturns
    <2> QED
      BY <1>1, <1>3, <1>9, <2>1 DEF CallbackReturns, PoolTypes
  <1>10. CASE EndCycle
    <2>1. CyclePlace' /\ triggered' \in Seq(Nat)
      BY <1>10 DEF CyclePlace, EndCycle
    <2> QED
      BY <1>1, <1>3, <1>10, <2>1 DEF EndCycle, PoolTypes
  <1>11. CASE TriggerTimer
    <2> DEFINE k == triggered[at]
    <2>1. phase = "trigger" /\ at \in 1 .. Len(triggered) /\ k \in 1 .. Len(pool)
          /\ UNCHANGED <<now, timerVars, at, curTime, triggered, stale>>
      BY <1>1, <1>2, <1>11 DEF CyclePlace, TriggerTimer, PoolTypes
    <2>2. CASE pool[k].timer \in freed
      <3>1. phase' = "undefined" /\ pool' = pool /\ forced' = forced
        BY <1>11, <2>2 DEF TriggerTimer
      <3>2. CyclePlace'
        BY <3>1 DEF CyclePlace
      <3> QED
        BY <1>1, <1>3, <2>1, <3>1, <3>2 DEF PoolTypes
    <2>3. CASE pool[k].timer \notin freed
      <3> DEFINE e == [pool[k] EXCEPT !.due = @ + Period]
      <3>1. phase' = "callback" /\ pool' = [pool EXCEPT ![k] = e] /\ forced' \subseteq forced
        BY <1>2, <1>11, <2>1, <2>3 DEF TriggerTimer
      <3>2. e \in Entry /\ e.timer = pool[k].timer /\ e.dead = pool[k].dead
        <4>1. pool[k] \in Entry /\ Period \in Nat
          BY <1>2, <2>1, TimerAssumption
        <4> HIDE DEF k
        <4>2. pool[k].due + Period \in Nat
          BY <4>1 DEF Entry
        <4> QED
          BY <4>1, <4>2 DEF Entry
      <3> HIDE DEF e
      <3>3. pool' \in Seq(Entry) /\ Len(pool') = Len(pool) /\ k \in Nat
        <4>1. k \in Nat
          BY <1>2, <2>1
        <4> QED
          BY <1>1, <3>1, <3>2, <4>1, Written
      <3>4. PoolTypes'
        BY <1>1, <2>1, <3>1, <3>3 DEF PoolTypes, timerVars
      <3>5. CyclePlace'
        BY <1>1, <2>1, <3>1, <3>3 DEF CyclePlace
      <3>6. ~stale' => \A u \in Timers : Agrees(u)'
        <4> HIDE DEF k
        <4> QED
          BY <1>1, <2>1, <3>1, <3>2, <3>3, WriteAgrees DEF timerVars
      <3> QED
        BY <3>4, <3>5, <3>6 DEF TimerInv
    <2> QED
      BY <2>2, <2>3
  <1> QED
    BY <1>4, <1>5, <1>6, <1>7, <1>8, <1>9, <1>10, <1>11 DEF Cycle

LEMMA TimerInit == PoolInit => TimerInv
  <1> SUFFICES ASSUME PoolInit PROVE TimerInv
    OBVIOUS
  <1>1. PoolTypes
    <2>1. <<>> \in Seq(Entry) /\ <<>> \in Seq(Nat)
      OBVIOUS
    <2>2. pool = <<>> /\ triggered = <<>>
      BY DEF PoolInit
    <2>3. poolIndex \in [Timers -> Nat]
      BY DEF PoolInit, INVALID_INDEX
    <2>4. pool \in Seq(Entry) /\ triggered \in Seq(Nat)
      BY <2>1, <2>2
    <2>5. now \in Nat /\ curTime \in Nat /\ at \in Nat \ {0}
      BY DEF PoolInit
    <2>6. /\ exists \subseteq Timers /\ freed \subseteq Timers /\ forced \subseteq Timers
          /\ phase \in {"idle", "sweep", "trigger", "callback", "undefined"}
          /\ stale \in BOOLEAN
      BY DEF PoolInit
    <2> QED
      BY <2>3, <2>4, <2>5, <2>6 DEF PoolTypes
  <1>2. CyclePlace
    BY DEF PoolInit, CyclePlace
  <1>3. ASSUME NEW t \in Timers PROVE Agrees(t)
    BY DEF PoolInit, Agrees, INVALID_INDEX
  <1> QED
    BY <1>1, <1>2, <1>3 DEF TimerInv

LEMMA TimerIndex == TimerInv => IndexInv
  <1> SUFFICES ASSUME TimerInv PROVE IndexInv
    OBVIOUS
  <1>1. pool \in Seq(Entry) /\ DOMAIN pool = 1 .. Len(pool) /\ Len(pool) \in Nat
    BY LenProperties DEF TimerInv, PoolTypes
  <1>2. ASSUME ~stale, phase # "undefined", NEW t \in Timers
        PROVE  /\ \A k \in DOMAIN pool : Live(k, t) <=> (poolIndex[t] = k /\ t \in exists)
               /\ t \in forced => \E k \in DOMAIN pool : Live(k, t)
    <2>1. Agrees(t)
      BY <1>2 DEF TimerInv
    <2>2. ASSUME t \in forced PROVE \E k \in DOMAIN pool : Live(k, t)
      <3>1. poolIndex[t] \in 1 .. Len(pool) /\ t \in exists
        BY <1>1, <2>1, <2>2 DEF Agrees
      <3> QED
        BY <1>1, <2>1, <3>1 DEF Agrees
    <2> QED
      BY <1>1, <2>1, <2>2 DEF Agrees
  <1> QED
    BY <1>1, <1>2 DEF IndexInv

\* Whatever a script does to the timers, and wherever in a cycle it does it,
\* poolIndex and the pool agree until a dead entry is moved, and a timer that
\* was forced and neither stopped nor called since is started.
THEOREM IndexCorrect == PoolSpec => []IndexInv
  <1>1. PoolInit => TimerInv
    BY TimerInit
  <1>2. TimerInv /\ [PoolNext]_poolVars => TimerInv'
    <2> SUFFICES ASSUME TimerInv, [PoolNext]_poolVars PROVE TimerInv'
      OBVIOUS
    <2>1. CASE Tick \/ Cycle \/ UNCHANGED poolVars
      BY <2>1, CycleStep
    <2>2. ASSUME NEW t \in Timers, Operation(t) PROVE TimerInv'
      BY <2>2, OperationStep
    <2> QED
      BY <2>1, <2>2 DEF PoolNext
  <1>3. TimerInv => IndexInv
    BY TimerIndex
  <1> QED
    BY <1>1, <1>2, <1>3, PTL DEF PoolSpec

-----------------------------------------------------------------------------
(* HashTable *)

\* A set of natural numbers has a least element.
LEMMA Least ==
  ASSUME NEW S \in SUBSET Nat, S # {}
  PROVE  \E x \in S : \A y \in S : x <= y
  <1> DEFINE R == {ss \in Nat \X Nat : ss[1] < ss[2]}
  <1>1. IsWellFoundedOn(R, Nat)
    BY NatLessThanWellFounded DEF OpToRel
  <1> HIDE DEF R
  <1>2. PICK x \in S : \A y \in S : ~(<<y, x>> \in R)
    BY <1>1, WFMin
  <1>3. ASSUME NEW y \in S
        PROVE  x <= y
    <2>1. x \in Nat /\ y \in Nat /\ <<y, x>> \notin R
      BY <1>2
    <2>2. ~(y < x)
      BY <2>1 DEF R
    <2> QED
      BY <2>1, <2>2
  <1> QED
    BY <1>3

\* A bounded one has a greatest.
LEMMA Greatest ==
  ASSUME NEW b \in Nat, NEW S \in SUBSET (0 .. b), S # {}
  PROVE  \E x \in S : \A y \in S : x >= y
  <1> DEFINE T == {b - x : x \in S}
  <1>1. T \in SUBSET Nat /\ T # {}
    <2>1. \A x \in S : b - x \in Nat
      OBVIOUS
    <2> QED
      BY <2>1
  <1>2. PICK t \in T : \A y \in T : t <= y
    BY <1>1, Least
  <1>3. PICK x \in S : t = b - x
    BY <1>2
  <1>4. ASSUME NEW y \in S
        PROVE  x >= y
    <2>1. b - y \in T
      OBVIOUS
    <2>2. b - x <= b - y
      BY <1>2, <1>3, <2>1
    <2> QED
      BY <2>2
  <1> QED
    BY <1>4


-----------------------------------------------------------------------------
(* Positions *)

LEMMA ModFacts ==
  ASSUME NEW h \in Nat, NEW c \in Nat \ {0}
  PROVE  h % c \in 0 .. c - 1 /\ h % c \in Nat
  OBVIOUS

\* The remainder is the only number below c that differs from h by a multiple of c.
LEMMA ModUnique ==
  ASSUME NEW c \in Nat \ {0}, NEW q \in Nat, NEW r \in 0 .. c - 1
  PROVE  (c * q + r) % c = r
  OBVIOUS

\* A position in the doubled table tells the one in the old table.
LEMMA ModOfDouble ==
  ASSUME NEW c \in Nat \ {0}, NEW x \in Nat
  PROVE  x % c = IF x % (2 * c) < c THEN x % (2 * c) ELSE (x % (2 * c)) - c
  <1>1. PICK a \in Nat : a = x \div (2 * c)
    <2>1. 2 * c \in Nat \ {0}
      OBVIOUS
    <2> QED
      BY <2>1
  <1>2. PICK r \in 0 .. 2 * c - 1 : r = x % (2 * c)
    <2>1. 2 * c \in Nat \ {0}
      OBVIOUS
    <2> QED
      BY <2>1
  <1>3. x = (2 * c) * a + r
    <2>1. PICK b \in Nat \ {0} : b = 2 * c
      OBVIOUS
    <2>2. x = b * (x \div b) + (x % b)
      BY <2>1
    <2> QED
      BY <1>1, <1>2, <2>1, <2>2
  <1>4. (2 * c) * a = c * (2 * a)
    OBVIOUS
  <1>5. c * (2 * a + 1) = c * (2 * a) + c
    OBVIOUS
  <1>6. 2 * a \in Nat /\ 2 * a + 1 \in Nat
    OBVIOUS
  <1>7. CASE r < c
    <2>1. r \in 0 .. c - 1
      BY <1>7
    <2>2. (c * (2 * a) + r) % c = r
      BY <1>6, <2>1, ModUnique
    <2> QED
      BY <1>2, <1>3, <1>4, <1>7, <2>2
  <1>8. CASE ~(r < c)
    <2>1. r - c \in 0 .. c - 1
      BY <1>8
    <2>2. (c * (2 * a + 1) + (r - c)) % c = r - c
      BY <1>6, <2>1, ModUnique
    <2>3. x = c * (2 * a + 1) + (r - c)
      BY <1>3, <1>4, <1>5
    <2> QED
      BY <1>2, <1>8, <2>2, <2>3
  <1> QED
    BY <1>7, <1>8

\* Keys that share a main position in the doubled table share it in the old one.
LEMMA ModHalf ==
  ASSUME NEW c \in Nat \ {0}, NEW x \in Nat, NEW y \in Nat, x % (2 * c) = y % (2 * c)
  PROVE  x % c = y % c
  <1>1. x % c = IF x % (2 * c) < c THEN x % (2 * c) ELSE (x % (2 * c)) - c
    BY ModOfDouble
  <1>2. y % c = IF y % (2 * c) < c THEN y % (2 * c) ELSE (y % (2 * c)) - c
    BY ModOfDouble
  <1> QED
    BY <1>1, <1>2

-----------------------------------------------------------------------------
(* Chains *)

\* nx links the members of C in the order of their ranks d.
Follows(nx, C, d, z) ==
    \/ nx[z] = INVALID /\ \A j \in C : d[j] <= d[z]
    \/ nx[z] \in C /\ d[nx[z]] > d[z] /\ \A j \in C : d[j] <= d[z] \/ d[j] >= d[nx[z]]

IsChain(nx, C, d) ==
    /\ \A z \in C : d[z] \in Nat /\ Follows(nx, C, d, z)
    /\ \A z, j \in C : d[z] = d[j] => z = j

\* The recursion of Walk has a solution.
LEMMA WalkEquation ==
  ASSUME NEW t, t.capacity \in Nat, NEW z
  PROVE  \A k \in 0 .. t.capacity :
           Walk(t, z)[k] = IF k = 0 THEN z
                           ELSE IF Walk(t, z)[k - 1] = INVALID THEN INVALID ELSE t.ent[Walk(t, z)[k - 1]].next
  <1> DEFINE n == t.capacity
             After(x) == IF x = INVALID THEN INVALID ELSE t.ent[x].next
             IsUpTo(g, m) == g = [k \in 0 .. m |-> IF k = 0 THEN z ELSE After(g[k - 1])]
             Without == {m \in 0 .. n : ~ \E g : IsUpTo(g, m)}
  <1> HIDE DEF After
  <1>1. Without = {}
    <2>1. SUFFICES ASSUME Without # {}
                   PROVE  FALSE
      OBVIOUS
    <2>2. Without \in SUBSET Nat
      OBVIOUS
    <2>3. PICK m \in Without : \A y \in Without : m <= y
      BY <2>1, <2>2, Least
    <2>4. m \in 0 .. n /\ ~ \E g : IsUpTo(g, m)
      BY <2>3
    <2>5. m # 0
      <3>1. IsUpTo([k \in 0 .. 0 |-> z], 0)
        OBVIOUS
      <3> QED
        BY <2>4, <3>1
    <2>6. m - 1 \in 0 .. n /\ m - 1 \notin Without
      BY <2>3, <2>4, <2>5
    <2>7. PICK g : IsUpTo(g, m - 1)
      BY <2>6
    <2> DEFINE h == [k \in 0 .. m |-> IF k = m THEN After(g[m - 1]) ELSE g[k]]
    <2>8. ASSUME NEW k \in 0 .. m
          PROVE  h[k] = IF k = 0 THEN z ELSE After(h[k - 1])
      <3>1. CASE k = m
        <4>1. m - 1 \in 0 .. m /\ m - 1 # m
          BY <2>4, <2>5
        <4>2. h[m - 1] = g[m - 1] /\ h[m] = After(g[m - 1])
          BY <4>1, <3>1
        <4> QED
          BY <2>5, <3>1, <4>2
      <3>2. CASE k # m
        <4>1. k \in 0 .. m - 1 /\ (k # 0 => k - 1 \in 0 .. m /\ k - 1 # m)
          BY <2>4, <3>2
        <4>2. h[k] = g[k] /\ (k # 0 => h[k - 1] = g[k - 1])
          BY <3>2, <4>1
        <4>3. g[k] = IF k = 0 THEN z ELSE After(g[k - 1])
          BY <2>7, <4>1
        <4> QED
          BY Zenon, <4>2, <4>3
      <3> QED
        BY <3>1, <3>2
    <2>9. IsUpTo(h, m)
      <3>1. h = [k \in 0 .. m |-> h[k]]
        OBVIOUS
      <3> HIDE DEF h
      <3> QED
        BY <2>8, <3>1
    <2> QED
      BY <2>4, <2>9
  <1>2. n \in 0 .. n /\ n \notin Without
    BY <1>1
  <1>3. \E g : IsUpTo(g, n)
    BY <1>2
  <1>4. Walk(t, z) = CHOOSE g : IsUpTo(g, n)
    BY Zenon DEF Walk, After
  <1>5. IsUpTo(Walk(t, z), n)
    BY Zenon, <1>3, <1>4
  <1> QED
    BY <1>5 DEF After

\* The entries C of t are such a chain.
ChainIn(t, nx, C, d) ==
    /\ t.capacity \in 1 .. MaxCapacity /\ C \subseteq 0 .. t.capacity - 1
    /\ IsChain(nx, C, d) /\ \A j \in C : t.ent[j].next = nx[j]

\* The walk from an entry ends; it meets what comes after it, each behind another.
Walks(t, nx, C, d, z) ==
    /\ Ends(t, z)
    /\ \A j : j \in OnChain(t, z) <=> j \in C /\ d[j] >= d[z]
    /\ \A j \in OnChain(t, z) : j # z => \E p \in OnChain(t, z) : nx[p] = j
    /\ \E p \in OnChain(t, z) : nx[p] = INVALID

LEMMA WalkFacts ==
  ASSUME NEW t, NEW nx, NEW C, NEW d, ChainIn(t, nx, C, d), NEW z \in C
  PROVE  Walks(t, nx, C, d, z)
  <1>c. /\ t.capacity \in 1 .. MaxCapacity /\ C \subseteq 0 .. t.capacity - 1
        /\ IsChain(nx, C, d) /\ \A j \in C : t.ent[j].next = nx[j]
    BY DEF ChainIn
  <1> USE <1>c
  <1> DEFINE w == Walk(t, z)
  <1>0. PICK c \in 1 .. MaxCapacity : c = t.capacity
    OBVIOUS
  <1>1. c \in Nat /\ INVALID \notin C /\ C \subseteq 0 .. c - 1 /\ MaxCapacity \in Nat
    BY <1>0, HashTableAssumption DEF INVALID
  <1>2. \A k \in 0 .. c : w[k] = IF k = 0 THEN z ELSE IF w[k - 1] = INVALID THEN INVALID ELSE t.ent[w[k - 1]].next
    <2>1. t.capacity \in Nat
      BY <1>0, <1>1
    <2>2. \A k \in 0 .. t.capacity :
            Walk(t, z)[k] = IF k = 0 THEN z
                            ELSE IF Walk(t, z)[k - 1] = INVALID THEN INVALID ELSE t.ent[Walk(t, z)[k - 1]].next
      BY ONLY <2>1, WalkEquation
    <2> QED
      BY <1>0, <2>2
  <1>3. w[0] = z
    BY <1>1, <1>2
  <1> HIDE DEF w
  <1>4. \A k \in C : d[k] \in Nat /\ Follows(nx, C, d, k)
    BY DEF IsChain
  <1>5. \A k \in 0 .. c : w[k] = INVALID \/ (w[k] \in C /\ d[w[k]] >= d[z])
    <2> DEFINE Bad == {k \in 0 .. c : ~(w[k] = INVALID \/ (w[k] \in C /\ d[w[k]] >= d[z]))}
    <2>1. SUFFICES ASSUME Bad # {} PROVE FALSE
      OBVIOUS
    <2>2. PICK m \in Bad : \A y \in Bad : m <= y
      <3>1. Bad \in SUBSET Nat
        BY <1>1
      <3> QED
        BY <2>1, <3>1, Least
    <2>3. m \in 0 .. c /\ m # 0
      BY <1>3, <1>4, <2>2
    <2>4. m - 1 \in 0 .. c /\ m - 1 \notin Bad
      BY <2>2, <2>3
    <2>5. w[m] = IF w[m - 1] = INVALID THEN INVALID ELSE t.ent[w[m - 1]].next
      BY <1>2, <2>3
    <2>6. w[m - 1] \in C /\ d[w[m - 1]] >= d[z] /\ w[m] = nx[w[m - 1]]
      BY <2>2, <2>4, <2>5
    <2>7. Follows(nx, C, d, w[m - 1]) /\ d[w[m - 1]] \in Nat /\ d[z] \in Nat
      BY <1>4, <2>6
    <2>8. w[m] = INVALID \/ (w[m] \in C /\ d[w[m]] > d[w[m - 1]])
      BY <2>6, <2>7 DEF Follows
    <2>9. w[m] = INVALID \/ (w[m] \in C /\ d[w[m]] >= d[z])
      BY <1>4, <2>6, <2>7, <2>8
    <2> QED
      BY <2>2, <2>9
  <1>6. \A k \in 0 .. c - 1 : /\ w[k] = INVALID => w[k + 1] = INVALID
                              /\ w[k] # INVALID => w[k] \in C /\ w[k + 1] = nx[w[k]]
    <2> TAKE k \in 0 .. c - 1
    <2>1. k + 1 \in 0 .. c /\ k \in 0 .. c /\ k + 1 # 0 /\ (k + 1) - 1 = k
      BY <1>1
    <2>2. w[k + 1] = IF w[k] = INVALID THEN INVALID ELSE t.ent[w[k]].next
      BY <1>2, <2>1
    <2> QED
      BY <1>5, <2>1, <2>2
  <1>7. \A l \in 0 .. c : w[l] # INVALID => \A k \in 0 .. l - 1 : w[k] # INVALID /\ d[w[k]] < d[w[l]]
    <2> DEFINE Bad == {l \in 0 .. c : ~(w[l] # INVALID => \A k \in 0 .. l - 1 : w[k] # INVALID /\ d[w[k]] < d[w[l]])}
    <2>1. SUFFICES ASSUME Bad # {} PROVE FALSE
      OBVIOUS
    <2>2. PICK m \in Bad : \A y \in Bad : m <= y
      <3>1. Bad \in SUBSET Nat
        BY <1>1
      <3> QED
        BY <2>1, <3>1, Least
    <2>3. m \in 0 .. c /\ w[m] # INVALID
      BY <2>2
    <2>4. PICK k \in 0 .. m - 1 : ~(w[k] # INVALID /\ d[w[k]] < d[w[m]])
      BY <2>2
    <2>5. m - 1 \in 0 .. c - 1 /\ m - 1 \notin Bad /\ m - 1 \in 0 .. c /\ (m - 1) + 1 = m
      BY <1>1, <2>2, <2>3, <2>4
    <2>6. w[m - 1] # INVALID /\ w[m - 1] \in C /\ w[m] = nx[w[m - 1]] /\ w[m] \in C
      BY <1>5, <1>6, <2>3, <2>5
    <2>7. d[w[m - 1]] < d[w[m]]
      BY <1>4, <2>3, <2>6 DEF Follows
    <2>8. k = m - 1 \/ k \in 0 .. (m - 1) - 1
      BY <2>3, <2>4
    <2>9. k \in 0 .. (m - 1) - 1 => w[k] # INVALID /\ d[w[k]] < d[w[m - 1]]
      BY <2>5, <2>6
    <2>10. k \in 0 .. c
      BY <1>1, <2>3, <2>4
    <2>11. w[k] # INVALID => w[k] \in C /\ d[w[k]] \in Nat
      BY <1>4, <1>5, <2>10
    <2>12. d[w[m - 1]] \in Nat /\ d[w[m]] \in Nat
      BY <1>4, <2>6
    <2> QED
      BY <2>4, <2>6, <2>7, <2>8, <2>9, <2>11, <2>12
  <1>8. w[c] = INVALID
    <2>1. SUFFICES ASSUME w[c] # INVALID PROVE FALSE
      OBVIOUS
    <2>2. \A k \in 0 .. c : w[k] # INVALID /\ w[k] \in C
      BY <1>1, <1>5, <1>7, <2>1
    <2> DEFINE f == [k \in 0 .. c |-> w[k]]
    <2>3. f \in [0 .. c -> 0 .. c - 1]
      BY <1>1, <2>2
    <2>4. IsFiniteSet(0 .. c) /\ Cardinality(0 .. c) = c + 1
      <3>1. 0 \in Int /\ c \in Int /\ ~(0 > c) /\ c - 0 + 1 = c + 1
        BY <1>1
      <3> QED
        BY <3>1, FS_Interval
    <2>5. IsFiniteSet(0 .. c - 1) /\ Cardinality(0 .. c - 1) = c
      <3>1. 0 \in Int /\ c - 1 \in Int /\ ~(0 > c - 1) /\ (c - 1) - 0 + 1 = c
        BY <1>0, <1>1
      <3> QED
        BY <3>1, FS_Interval
    <2>6. Cardinality(0 .. c - 1) < Cardinality(0 .. c)
      BY <1>1, <2>4, <2>5
    <2> HIDE DEF f
    <2>7. PICK x, y \in 0 .. c : x # y /\ f[x] = f[y]
      BY ONLY <2>3, <2>4, <2>5, <2>6, FS_PigeonHole
    <2>8. w[x] = w[y]
      BY <2>7 DEF f
    <2>9. ~(x < y)
      <3>1. x < y => x \in 0 .. y - 1
        BY <2>7
      <3>2. x < y => d[w[x]] < d[w[y]]
        BY <1>7, <2>2, <3>1
      <3>3. d[w[x]] \in Nat
        BY <1>4, <2>2
      <3> QED
        BY <2>8, <3>2, <3>3
    <2>10. ~(y < x)
      <3>1. y < x => y \in 0 .. x - 1
        BY <2>7
      <3>2. y < x => d[w[y]] < d[w[x]]
        BY <1>7, <2>2, <3>1
      <3>3. d[w[x]] \in Nat
        BY <1>4, <2>2
      <3> QED
        BY <2>8, <3>2, <3>3
    <2> QED
      BY <1>1, <2>7, <2>9, <2>10
  <1>9. Ends(t, z)
    BY <1>0, <1>8 DEF Ends, w
  <1>10. \A j : j \in OnChain(t, z) <=> j # INVALID /\ \E k \in 0 .. c : w[k] = j
    BY Zenon, <1>0 DEF OnChain, w
  <1>11. ASSUME NEW j \in C, d[j] >= d[z]
         PROVE  \E k \in 0 .. c : w[k] = j
    <2> DEFINE S == {k \in 0 .. c : w[k] # INVALID /\ d[w[k]] <= d[j]}
    <2>1. 0 \in S
      BY <1>1, <1>3, <1>4, <1>11
    <2>2. PICK m \in S : \A y \in S : m >= y
      BY <1>1, <2>1, Greatest
    <2>3. m \in 0 .. c - 1 /\ w[m] # INVALID /\ d[w[m]] <= d[j]
      BY <1>1, <1>8, <2>2
    <2>4. w[m] \in C /\ w[m + 1] = nx[w[m]] /\ m + 1 \in 0 .. c /\ m + 1 \notin S
      BY <1>1, <1>6, <2>2, <2>3
    <2>5. Follows(nx, C, d, w[m]) /\ d[w[m]] \in Nat /\ d[j] \in Nat
      BY <1>4, <2>4
    <2>6. d[j] <= d[w[m]]
      <3>1. CASE w[m + 1] = INVALID
        BY <1>1, <2>4, <2>5, <3>1 DEF Follows
      <3>2. CASE w[m + 1] # INVALID
        <4>1. w[m + 1] \in C /\ ~(d[w[m + 1]] <= d[j]) /\ d[w[m + 1]] \in Nat
          BY <1>4, <1>5, <2>4, <3>2
        <4>2. d[j] <= d[w[m]] \/ d[j] >= d[w[m + 1]]
          BY <2>4, <2>5, <3>2 DEF Follows
        <4> QED
          BY <2>5, <4>1, <4>2
      <3> QED
        BY <3>1, <3>2
    <2>7. d[j] = d[w[m]]
      BY <2>3, <2>5, <2>6
    <2>8. j = w[m]
      BY <2>4, <2>7 DEF IsChain
    <2> QED
      BY <1>1, <2>3, <2>8
  <1>12. \A j : j \in OnChain(t, z) <=> j \in C /\ d[j] >= d[z]
    <2>1. ASSUME NEW j \in OnChain(t, z)
          PROVE  j \in C /\ d[j] >= d[z]
      BY <1>5, <1>10
    <2>2. ASSUME NEW j \in C, d[j] >= d[z]
          PROVE  j \in OnChain(t, z)
      BY <1>1, <1>10, <1>11, <2>2
    <2> QED
      BY <2>1, <2>2
  <1>13. ASSUME NEW j \in OnChain(t, z), j # z
         PROVE  \E p \in OnChain(t, z) : nx[p] = j
    <2>1. PICK k \in 0 .. c : w[k] = j /\ j # INVALID
      BY <1>10
    <2>2. k - 1 \in 0 .. c - 1 /\ k - 1 \in 0 .. c /\ (k - 1) + 1 = k
      BY <1>1, <1>3, <1>13, <2>1
    <2>3. w[k - 1] # INVALID /\ nx[w[k - 1]] = j
      BY <1>6, <2>1, <2>2
    <2> QED
      BY <1>10, <2>2, <2>3
  <1>14. \E p \in OnChain(t, z) : nx[p] = INVALID
    <2> DEFINE S == {k \in 0 .. c : w[k] = INVALID}
    <2>1. c \in S
      BY <1>1, <1>8
    <2>2. PICK m \in S : \A y \in S : m <= y
      <3>1. S \in SUBSET Nat /\ S # {}
        BY <1>1, <2>1
      <3> QED
        BY <3>1, Least
    <2>3. m # 0
      BY <1>1, <1>3, <2>2
    <2>4. m - 1 \in 0 .. c - 1 /\ m - 1 \in 0 .. c /\ (m - 1) + 1 = m /\ m - 1 \notin S
      BY <1>1, <2>2, <2>3
    <2>5. w[m - 1] # INVALID /\ nx[w[m - 1]] = INVALID
      BY <1>6, <2>2, <2>4
    <2> QED
      BY <1>10, <2>4, <2>5
  <1> QED
    BY <1>9, <1>12, <1>13, <1>14 DEF Walks

\* An entry is linked from one place.
LEMMA OnePredecessor ==
  ASSUME NEW nx, NEW C, NEW d, IsChain(nx, C, d), INVALID \notin C,
         NEW p \in C, NEW q \in C, nx[p] = nx[q], nx[p] \in C
  PROVE  p = q
  <1>1. /\ d[p] \in Nat /\ d[q] \in Nat /\ d[nx[p]] \in Nat
        /\ Follows(nx, C, d, p) /\ Follows(nx, C, d, q)
    BY DEF IsChain
  <1>2. d[nx[p]] > d[p] /\ d[nx[q]] > d[q]
    BY <1>1 DEF Follows
  <1>3. d[q] <= d[p] \/ d[q] >= d[nx[p]]
    BY <1>1 DEF Follows
  <1>4. d[p] <= d[q] \/ d[p] >= d[nx[q]]
    BY <1>1 DEF Follows
  <1>5. d[p] = d[q]
    BY <1>1, <1>2, <1>3, <1>4
  <1> QED
    BY <1>5 DEF IsChain

\* A chain is not touched by what happens elsewhere.
LEMMA ChainSame ==
  ASSUME NEW nx, NEW C, NEW d, IsChain(nx, C, d),
         NEW ny, NEW e, \A z \in C : ny[z] = nx[z] /\ e[z] = d[z]
  PROVE  IsChain(ny, C, e)
  <1>1. ASSUME NEW z \in C
        PROVE  e[z] \in Nat /\ Follows(ny, C, e, z)
    <2>1. d[z] \in Nat /\ Follows(nx, C, d, z)
      BY DEF IsChain
    <2> QED
      BY <2>1 DEF Follows
  <1>2. \A z, j \in C : e[z] = e[j] => z = j
    BY DEF IsChain
  <1> QED
    BY Zenon, <1>1, <1>2 DEF IsChain

LEMMA ChainOfOne ==
  ASSUME NEW nx, NEW z, NEW d, d[z] \in Nat, nx[z] = INVALID
  PROVE  IsChain(nx, {z}, d)
  BY DEF IsChain, Follows

\* f comes behind the end p.
LEMMA ChainAppended ==
  ASSUME NEW nx, NEW C, NEW d, IsChain(nx, C, d), INVALID \notin C,
         NEW p \in C, nx[p] = INVALID, NEW f, f \notin C, f # INVALID,
         NEW ny, ny[p] = f, ny[f] = INVALID, \A z \in C : z # p => ny[z] = nx[z],
         NEW e, e[f] = d[p] + 1, \A z \in C : e[z] = d[z],
         NEW D, \A z : z \in D <=> z \in C \/ z = f
  PROVE  IsChain(ny, D, e)
  <1>1. \A z \in C : d[z] \in Nat /\ Follows(nx, C, d, z)
    BY DEF IsChain
  <1>2. \A z \in C : d[z] <= d[p]
    BY <1>1 DEF Follows
  <1>3. \A z \in D : e[z] \in Nat /\ e[z] <= e[f] /\ (z # f => e[z] < e[f])
    BY <1>1, <1>2
  <1>4. ASSUME NEW z \in C, z # p
        PROVE  Follows(ny, D, e, z)
    <2>1. nx[z] # INVALID
      <3>1. SUFFICES ASSUME nx[z] = INVALID PROVE FALSE
        OBVIOUS
      <3>2. d[p] <= d[z]
        BY <1>1, <3>1 DEF Follows
      <3>3. d[p] = d[z]
        BY <1>1, <1>2, <3>2
      <3> QED
        BY <1>4, <3>3 DEF IsChain
    <2>2. nx[z] \in C /\ d[nx[z]] > d[z] /\ \A j \in C : d[j] <= d[z] \/ d[j] >= d[nx[z]]
      BY <1>1, <2>1 DEF Follows
    <2>3. ny[z] \in D /\ e[ny[z]] > e[z]
      BY <1>4, <2>2
    <2>4. ASSUME NEW j \in D
          PROVE  e[j] <= e[z] \/ e[j] >= e[ny[z]]
      <3>1. CASE j = f
        BY <1>3, <1>4, <2>2, <3>1
      <3>2. CASE j \in C
        BY <1>4, <2>2, <3>2
      <3> QED
        BY <3>1, <3>2
    <2> QED
      BY <2>3, <2>4 DEF Follows
  <1>5. Follows(ny, D, e, p)
    <2>1. e[f] > e[p]
      BY <1>1
    <2>2. \A j \in D : e[j] <= e[p] \/ e[j] >= e[f]
      BY <1>1, <1>2, <1>3
    <2> QED
      BY <2>1, <2>2 DEF Follows
  <1>6. Follows(ny, D, e, f)
    BY <1>3 DEF Follows
  <1>7. ASSUME NEW z \in D, NEW j \in D, e[z] = e[j]
        PROVE  z = j
    <2>1. CASE z = f \/ j = f
      BY <1>3, <1>7, <2>1
    <2>2. CASE z \in C /\ j \in C
      BY <1>7, <2>2 DEF IsChain
    <2> QED
      BY <2>1, <2>2
  <1> QED
    BY <1>3, <1>4, <1>5, <1>6, <1>7 DEF IsChain

\* f takes the place of q.
LEMMA ChainMoved ==
  ASSUME NEW nx, NEW C, NEW d, IsChain(nx, C, d), INVALID \notin C,
         NEW p \in C, NEW q \in C, nx[p] = q, NEW f, f \notin C, f # INVALID,
         NEW ny, ny[p] = f, ny[f] = nx[q], \A z \in C : z # p /\ z # q => ny[z] = nx[z],
         NEW e, e[f] = d[q], \A z \in C : z # q => e[z] = d[z],
         NEW D, \A z : z \in D <=> (z \in C /\ z # q) \/ z = f
  PROVE  IsChain(ny, D, e)
  <1> DEFINE old(z) == IF z = f THEN q ELSE z
  <1>1. \A z \in C : d[z] \in Nat /\ Follows(nx, C, d, z)
    BY DEF IsChain
  <1>2. p # q
    BY <1>1 DEF Follows
  <1>3. \A z \in D : old(z) \in C /\ e[z] = d[old(z)]
    OBVIOUS
  <1>4. \A z, j \in D : old(z) = old(j) => z = j
    OBVIOUS
  <1>5. ASSUME NEW z \in D
        PROVE  \/ ny[z] = INVALID /\ nx[old(z)] = INVALID
               \/ ny[z] \in D /\ nx[old(z)] = old(ny[z])
    <2>1. CASE z = p
      BY <1>2, <2>1
    <2>2. CASE z = f
      <3>1. ny[z] = nx[q] /\ nx[q] # q /\ (nx[q] = INVALID \/ nx[q] \in C)
        BY <1>1, <2>2 DEF Follows
      <3> QED
        BY <2>2, <3>1
    <2>3. CASE z # p /\ z # f
      <3>1. z \in C /\ ny[z] = nx[z] /\ (nx[z] = INVALID \/ nx[z] \in C)
        BY <1>1, <2>3 DEF Follows
      <3>2. nx[z] # q
        BY <2>3, <3>1, OnePredecessor
      <3> QED
        BY <2>3, <3>1, <3>2
    <2> QED
      BY <2>1, <2>2, <2>3
  <1> HIDE DEF old
  <1>6. ASSUME NEW z \in D
        PROVE  e[z] \in Nat /\ Follows(ny, D, e, z)
    <2>1. Follows(nx, C, d, old(z)) /\ old(z) \in C /\ e[z] = d[old(z)] /\ e[z] \in Nat
      BY <1>1, <1>3
    <2>2. CASE ny[z] = INVALID /\ nx[old(z)] = INVALID
      <3>1. \A j \in C : d[j] <= d[old(z)]
        BY <2>1, <2>2 DEF Follows
      <3> QED
        BY <1>3, <2>1, <2>2, <3>1 DEF Follows
    <2>3. CASE ny[z] \in D /\ nx[old(z)] = old(ny[z])
      <3>1. old(ny[z]) \in C /\ e[ny[z]] = d[old(ny[z])]
        BY <1>3, <2>3
      <3>2. d[nx[old(z)]] > d[old(z)] /\ \A j \in C : d[j] <= d[old(z)] \/ d[j] >= d[nx[old(z)]]
        BY <2>1, <2>3, <3>1 DEF Follows
      <3>3. e[ny[z]] > e[z]
        BY <2>1, <2>3, <3>1, <3>2
      <3>4. \A j \in D : e[j] <= e[z] \/ e[j] >= e[ny[z]]
        BY <1>3, <2>1, <2>3, <3>1, <3>2
      <3> QED
        BY <2>1, <2>3, <3>3, <3>4 DEF Follows
    <2> QED
      BY <1>5, <2>2, <2>3
  <1>7. ASSUME NEW z \in D, NEW j \in D, e[z] = e[j]
        PROVE  z = j
    <2>1. old(z) = old(j)
      BY <1>3, <1>7 DEF IsChain
    <2> QED
      BY <1>4, <2>1
  <1> QED
    BY Zenon, <1>6, <1>7 DEF IsChain

\* q is left out.
LEMMA ChainCut ==
  ASSUME NEW nx, NEW C, NEW d, IsChain(nx, C, d), INVALID \notin C,
         NEW p \in C, NEW q \in C, nx[p] = q,
         NEW ny, ny[p] = nx[q], \A z \in C : z # p /\ z # q => ny[z] = nx[z],
         NEW D, \A z : z \in D <=> z \in C /\ z # q
  PROVE  IsChain(ny, D, d)
  <1>1. \A z \in C : d[z] \in Nat /\ Follows(nx, C, d, z)
    BY DEF IsChain
  <1>2. d[p] < d[q] /\ \A j \in C : d[j] <= d[p] \/ d[j] >= d[q]
    BY <1>1 DEF Follows
  <1>3. Follows(ny, D, d, p)
    <2>1. CASE nx[q] = INVALID
      <3>1. \A j \in C : d[j] <= d[q]
        BY <1>1, <2>1 DEF Follows
      <3>2. ASSUME NEW j \in D
            PROVE  d[j] <= d[p]
        <4>1. d[j] # d[q]
          BY DEF IsChain
        <4>2. d[j] <= d[q] /\ d[j] \in Nat /\ d[q] \in Nat /\ (d[j] <= d[p] \/ d[j] >= d[q])
          BY <1>1, <1>2, <3>1
        <4> QED
          BY <4>1, <4>2
      <3> QED
        BY <2>1, <3>2 DEF Follows
    <2>2. CASE nx[q] # INVALID
      <3>1. nx[q] \in C /\ d[nx[q]] > d[q] /\ \A j \in C : d[j] <= d[q] \/ d[j] >= d[nx[q]]
        BY <1>1, <2>2 DEF Follows
      <3>2. nx[q] \in D /\ d[nx[q]] > d[p]
        BY <1>1, <1>2, <3>1
      <3>3. ASSUME NEW j \in D
            PROVE  d[j] <= d[p] \/ d[j] >= d[nx[q]]
        <4>1. d[j] # d[q]
          BY DEF IsChain
        <4>2. d[j] \in Nat /\ d[q] \in Nat /\ (d[j] <= d[p] \/ d[j] >= d[q]) /\ (d[j] <= d[q] \/ d[j] >= d[nx[q]])
          BY <1>1, <1>2, <3>1
        <4> QED
          BY <4>1, <4>2
      <3> QED
        BY <3>2, <3>3 DEF Follows
    <2> QED
      BY <2>1, <2>2
  <1>4. ASSUME NEW z \in D, z # p
        PROVE  Follows(ny, D, d, z)
    <2>1. ny[z] = nx[z] /\ Follows(nx, C, d, z)
      BY <1>1, <1>4
    <2>2. nx[z] # q
      BY <1>4, OnePredecessor
    <2> QED
      BY <2>1, <2>2 DEF Follows
  <1>5. \A z, j \in D : d[z] = d[j] => z = j
    BY DEF IsChain
  <1> QED
    BY <1>1, <1>3, <1>4, <1>5 DEF IsChain

-----------------------------------------------------------------------------
(* Tables *)

Cells(t) == 0 .. t.capacity - 1
Used(t) == {z \in Cells(t) : t.ent[z].key # None}
Home(t, z) == MainPos(t, t.ent[z].hash)

\* The entries that belong to main position h
Chain(t, h) == {z \in Used(t) : Home(t, z) = h}

NextOf(t) == [z \in Cells(t) |-> t.ent[z].next]

EntryRecord == [key : Keys \cup {None}, hash : Nat, next : Nat, data : Values \cup {None}]

IsTable(t) ==
    /\ t \in [capacity : Nat, freeIndex : Nat, ent : [Cells(t) -> EntryRecord]]
    /\ t.capacity \in 2 .. MaxCapacity
    /\ t.freeIndex \in Cells(t) \cup {INVALID}

\* What an entry holds, and that no key is there twice
Entries(t) ==
    /\ \A z \in Cells(t) : t.ent[z].key = None => t.ent[z].next = INVALID
    /\ \A z \in Used(t) : t.ent[z].hash = HashOf[t.ent[z].key] /\ t.ent[z].data \in Values
    /\ \A z, j \in Used(t) : t.ent[z].key = t.ent[j].key => z = j

\* A chain starts at its main position.
LinkedAt(t, d, h) ==
    Chain(t, h) # {} =>
      /\ h \in Chain(t, h) /\ \A j \in Chain(t, h) : d[h] <= d[j]
      /\ IsChain(NextOf(t), Chain(t, h), d)

Linked(t, d) == d \in [Cells(t) -> Nat] /\ \A h \in Cells(t) : LinkedAt(t, d, h)

\* An entry is missed by the free index only at its own main position.
FreeIndexRight(t) ==
    /\ t.freeIndex # INVALID => t.ent[t.freeIndex].key = None
    /\ \A z \in Cells(t) : t.ent[z].key = None => z >= t.freeIndex \/ Home(t, z) = z

Good(t) == IsTable(t) /\ Entries(t) /\ FreeIndexRight(t) /\ \E d : Linked(t, d)

\* What the table says of a key
Has(t, k, v) == \E z \in Used(t) : t.ent[z].key = k /\ t.ent[z].data = v

LEMMA TableFacts ==
  ASSUME NEW t, IsTable(t)
  PROVE  /\ t.capacity \in Nat \ {0} /\ t.capacity \in 1 .. MaxCapacity /\ MaxCapacity \in Nat
         /\ t.ent \in [Cells(t) -> EntryRecord] /\ \A z \in Cells(t) : t.ent[z] \in EntryRecord
         /\ Cells(t) \subseteq Nat /\ INVALID \in Nat /\ INVALID \notin Cells(t)
         /\ \A z \in Cells(t) : z < INVALID
         /\ \A x \in Nat : MainPos(t, x) \in Cells(t)
         /\ \A z \in Cells(t) : Home(t, z) \in Cells(t) /\ t.ent[z].hash \in Nat
  <1>1. MaxCapacity \in Nat
    BY HashTableAssumption
  <1>2. t.capacity \in Nat \ {0} /\ t.capacity \in 1 .. MaxCapacity
    BY <1>1 DEF IsTable
  <1>3. t.ent \in [Cells(t) -> EntryRecord] /\ \A z \in Cells(t) : t.ent[z] \in EntryRecord
    BY DEF IsTable
  <1>4. Cells(t) \subseteq Nat /\ INVALID \in Nat /\ INVALID \notin Cells(t) /\ \A z \in Cells(t) : z < INVALID
    BY <1>1, <1>2 DEF Cells, INVALID
  <1>5. \A x \in Nat : MainPos(t, x) \in Cells(t)
    BY <1>2, ModFacts DEF MainPos, Cells
  <1>6. \A z \in Cells(t) : t.ent[z].hash \in Nat
    BY <1>3 DEF EntryRecord
  <1> QED
    BY <1>1, <1>2, <1>3, <1>4, <1>5, <1>6 DEF Home

\* Following the links from a member of a chain
LEMMA ChainWalk ==
  ASSUME NEW t, IsTable(t), NEW d, Linked(t, d), NEW z \in Used(t)
  PROVE  /\ Ends(t, z)
         /\ \A j : j \in OnChain(t, z) <=> j \in Chain(t, Home(t, z)) /\ d[j] >= d[z]
         /\ \A j \in OnChain(t, z) : j # z => \E p \in OnChain(t, z) : NextOf(t)[p] = j
         /\ \E p \in OnChain(t, z) : NextOf(t)[p] = INVALID
  <1> DEFINE C == Chain(t, Home(t, z))
  <1>1. z \in C /\ C \subseteq Cells(t) /\ Home(t, z) \in Cells(t)
    BY TableFacts DEF Chain, Used
  <1>2. IsChain(NextOf(t), C, d)
    BY <1>1 DEF Linked, LinkedAt
  <1>3. \A j \in C : t.ent[j].next = NextOf(t)[j]
    BY <1>1 DEF NextOf
  <1>4. t.capacity \in 1 .. MaxCapacity /\ C \in SUBSET (0 .. t.capacity - 1)
    BY <1>1, TableFacts DEF Cells
  <1> HIDE DEF C
  <1>5. PICK nx : nx = NextOf(t)
    OBVIOUS
  <1>6. IsChain(nx, C, d) /\ z \in C
    BY <1>1, <1>2, <1>5
  <1>8. \A j \in C : t.ent[j].next = nx[j]
    BY <1>3, <1>5
  <1>7. ChainIn(t, nx, C, d)
    BY <1>4, <1>6, <1>8 DEF ChainIn
  <1>9. Walks(t, nx, C, d, z)
    BY <1>6, <1>7, WalkFacts
  <1> QED
    BY <1>5, <1>9 DEF C, Walks

\* From its main position the whole chain is met.
LEMMA HeadWalk ==
  ASSUME NEW t, IsTable(t), NEW d, Linked(t, d), NEW h \in Cells(t), Chain(t, h) # {}
  PROVE  /\ OnChain(t, h) = Chain(t, h) /\ h \in Chain(t, h)
         /\ \A j \in Chain(t, h) : j # h => \E p \in Chain(t, h) : NextOf(t)[p] = j
         /\ \E p \in Chain(t, h) : NextOf(t)[p] = INVALID
  <1>1. h \in Chain(t, h) /\ \A j \in Chain(t, h) : d[h] <= d[j]
    BY DEF Linked, LinkedAt
  <1>2. h \in Used(t) /\ Home(t, h) = h
    BY <1>1 DEF Chain
  <1>3. \A j \in Chain(t, h) : d[j] \in Nat
    BY DEF Chain, Used, Linked
  <1>4. \A j : j \in OnChain(t, h) <=> j \in Chain(t, h) /\ d[j] >= d[h]
    BY <1>2, ChainWalk
  <1>5. OnChain(t, h) = Chain(t, h)
    BY <1>1, <1>3, <1>4
  <1> QED
    BY <1>1, <1>2, <1>5, ChainWalk

\* A used entry's main position is used by its chain.
LEMMA HomeUsed ==
  ASSUME NEW t, IsTable(t), NEW d, Linked(t, d), NEW z \in Used(t)
  PROVE  Home(t, z) \in Used(t) /\ Home(t, Home(t, z)) = Home(t, z) /\ Home(t, z) \in Cells(t)
  <1>1. Home(t, z) \in Cells(t) /\ z \in Chain(t, Home(t, z))
    BY TableFacts DEF Chain, Used
  <1>2. Home(t, z) \in Chain(t, Home(t, z))
    BY <1>1 DEF Linked, LinkedAt
  <1> QED
    BY <1>1, <1>2 DEF Chain

LEMMA LinkedAtSame ==
  ASSUME NEW t, NEW s, s.capacity = t.capacity, NEW d, NEW e, NEW h,
         Chain(s, h) = Chain(t, h), LinkedAt(t, d, h),
         \A z \in Chain(t, h) : s.ent[z].next = t.ent[z].next /\ e[z] = d[z]
  PROVE  LinkedAt(s, e, h)
  <1>1. CASE Chain(t, h) = {}
    BY <1>1 DEF LinkedAt
  <1>2. CASE Chain(t, h) # {}
    <2>1. /\ h \in Chain(t, h) /\ \A j \in Chain(t, h) : d[h] <= d[j]
          /\ IsChain(NextOf(t), Chain(t, h), d)
      BY <1>2 DEF LinkedAt
    <2>2. \A z \in Chain(t, h) : NextOf(s)[z] = NextOf(t)[z] /\ e[z] = d[z]
      BY DEF NextOf, Chain, Used, Cells
    <2>3. IsChain(NextOf(s), Chain(s, h), e)
      BY <2>1, <2>2, ChainSame
    <2>4. \A j \in Chain(t, h) : e[h] <= e[j]
      BY <2>1
    <2> QED
      BY <2>1, <2>3, <2>4 DEF LinkedAt
  <1> QED
    BY <1>1, <1>2

\* hash_table_get_by_cstr finds exactly what the table has.
LEMMA LookupFacts ==
  ASSUME NEW t, Good(t), NEW k \in Keys
  PROVE  /\ \A v : Has(t, k, v) => Lookup(t, k) = v
         /\ (\A v : ~Has(t, k, v)) => Lookup(t, k) = None
         /\ \A z \in Used(t) : t.ent[z].key = k => Entered(t, k) /\ Finds(t, k) = {z}
         /\ (\A z \in Used(t) : t.ent[z].key # k) /\ Entered(t, k) => Finds(t, k) = {}
  <1>1. PICK d : Linked(t, d)
    BY DEF Good
  <1>2. IsTable(t) /\ Entries(t)
    BY DEF Good
  <1> DEFINE h == MainPos(t, CalcHash(k))
  <1>3. h \in Cells(t)
    BY <1>2, TableFacts, HashTableAssumption DEF CalcHash
  <1>4. k # None
    BY HashTableAssumption
  <1>5. ASSUME Entered(t, k)
        PROVE  OnChain(t, h) = Chain(t, h) /\ Finds(t, k) = {z \in Used(t) : t.ent[z].key = k}
    <2>1. h \in Chain(t, h)
      BY <1>3, <1>5 DEF Entered, Chain, Used, Home
    <2>2. OnChain(t, h) = Chain(t, h)
      BY <1>1, <1>2, <1>3, <2>1, HeadWalk
    <2>3. \A z \in Used(t) : t.ent[z].key = k => Home(t, z) = h
      BY <1>2 DEF Entries, Home, CalcHash
    <2> QED
      BY <2>2, <2>3 DEF Finds, Chain
  <1>6. ASSUME NEW z \in Used(t), t.ent[z].key = k
        PROVE  Entered(t, k) /\ Finds(t, k) = {z}
    <2>1. Home(t, z) = h
      BY <1>2, <1>6 DEF Entries, Home, CalcHash
    <2>2. h \in Used(t) /\ Home(t, h) = h
      BY <1>1, <1>2, <2>1, HomeUsed
    <2>3. Entered(t, k)
      BY <2>2 DEF Entered, Used, Home
    <2>4. Finds(t, k) = {j \in Used(t) : t.ent[j].key = k}
      BY <1>5, <2>3
    <2>5. \A j \in Used(t) : t.ent[j].key = k => j = z
      BY <1>2, <1>6 DEF Entries
    <2> QED
      BY <1>6, <2>3, <2>4, <2>5
  <1>7. ASSUME NEW v, Has(t, k, v)
        PROVE  Lookup(t, k) = v
    <2>1. PICK z \in Used(t) : t.ent[z].key = k /\ t.ent[z].data = v
      BY <1>7 DEF Has
    <2>2. Entered(t, k) /\ Finds(t, k) = {z}
      BY <1>6, <2>1
    <2>3. (CHOOSE j \in Finds(t, k) : TRUE) = z
      BY <2>2
    <2> QED
      BY <2>1, <2>2, <2>3 DEF Lookup
  <1>8. ASSUME \A v : ~Has(t, k, v)
        PROVE  Lookup(t, k) = None
    <2>1. \A z \in Used(t) : t.ent[z].key # k
      BY <1>8 DEF Has
    <2>2. Entered(t, k) => Finds(t, k) = {}
      BY <1>5, <2>1
    <2> QED
      BY <2>2 DEF Lookup
  <1> QED
    BY <1>5, <1>6, <1>7, <1>8

-----------------------------------------------------------------------------
(* Adding an entry *)

\* new may be put into t: a removed entry of the old table, or an entry whose key is not there.
Fits(t, new) ==
    /\ new \in EntryRecord
    /\ new.key # None => /\ new.hash = HashOf[new.key] /\ new.data \in Values
                         /\ \A z \in Used(t) : t.ent[z].key # new.key

\* s has what t has, and new.
Gains(t, s, new) ==
    \A k \in Keys : \A v : Has(s, k, v) <=> Has(t, k, v) \/ (k = new.key /\ v = new.data)

\* new has been put into t, at the cost of the free entry x.
Inserted(t, s, new, x) ==
    /\ IsTable(s) /\ s.capacity = t.capacity /\ s.freeIndex = t.freeIndex
    /\ Entries(s) /\ (\E e : Linked(s, e)) /\ Gains(t, s, new)
    /\ \A z \in Cells(t) : t.ent[z].key = None /\ z # x => s.ent[z] = t.ent[z]
    /\ \A z \in Cells(t) : s.ent[z].key = None => (z # x /\ t.ent[z].key = None) \/ Home(s, z) = z

LEMMA CopiedFacts ==
  ASSUME NEW e \in EntryRecord, NEW new \in EntryRecord
  PROVE  /\ Copied(e, new) \in EntryRecord
         /\ Copied(e, new).key = new.key /\ Copied(e, new).hash = new.hash
         /\ Copied(e, new).data = new.data /\ Copied(e, new).next = e.next
  BY DEF Copied, EntryRecord

WithEntries(t, en) == [t EXCEPT !.ent = en]

\* Replacing the entries of a table leaves a table.
LEMMA TableOf ==
  ASSUME NEW t, IsTable(t), NEW en \in [Cells(t) -> EntryRecord]
  PROVE  /\ IsTable(WithEntries(t, en)) /\ WithEntries(t, en).ent = en
         /\ WithEntries(t, en).capacity = t.capacity /\ WithEntries(t, en).freeIndex = t.freeIndex
  <1>1. PICK s : s = WithEntries(t, en)
    OBVIOUS
  <1>2. s.ent = en /\ s.capacity = t.capacity /\ s.freeIndex = t.freeIndex
    BY <1>1 DEF IsTable, WithEntries
  <1>3. Cells(s) = Cells(t)
    BY <1>2 DEF Cells
  <1>4. s \in [capacity : Nat, freeIndex : Nat, ent : [Cells(s) -> EntryRecord]]
    BY <1>1, <1>3 DEF IsTable, WithEntries
  <1>5. IsTable(s)
    BY <1>2, <1>3, <1>4 DEF IsTable
  <1> QED
    BY <1>1, <1>2, <1>5

\* The main position is free.
LEMMA PutInserts ==
  ASSUME NEW t, NEW d, IsTable(t), Entries(t), Linked(t, d), NEW new, Fits(t, new),
         NEW pos, pos = MainPos(t, new.hash), t.ent[pos].key = None
  PROVE  Inserted(t, [t EXCEPT !.ent[pos] = Copied(@, new)], new, pos)
  <1>0. PICK s : s = [t EXCEPT !.ent[pos] = Copied(@, new)]
    OBVIOUS
  <1>1. new \in EntryRecord /\ new.hash \in Nat
    BY DEF Fits, EntryRecord
  <1>2. pos \in Cells(t) /\ t.ent[pos] \in EntryRecord /\ t.ent \in [Cells(t) -> EntryRecord]
    BY <1>1, TableFacts
  <1> DEFINE e == Copied(t.ent[pos], new)
  <1>3. e \in EntryRecord /\ e.key = new.key /\ e.hash = new.hash /\ e.data = new.data /\ e.next = INVALID
    <2>1. t.ent[pos].next = INVALID
      BY <1>2 DEF Entries
    <2> QED
      BY <1>1, <1>2, <2>1, CopiedFacts
  <1> HIDE DEF e
  <1>4. s = [t EXCEPT !.ent = [t.ent EXCEPT ![pos] = e]]
    BY <1>0, <1>2 DEF IsTable, e
  <1>5. /\ IsTable(s) /\ s.ent = [t.ent EXCEPT ![pos] = e] /\ s.capacity = t.capacity
        /\ s.freeIndex = t.freeIndex /\ Cells(s) = Cells(t) /\ \A x : MainPos(s, x) = MainPos(t, x)
    <2>1. PICK en : en = [t.ent EXCEPT ![pos] = e]
      OBVIOUS
    <2>2. en \in [Cells(t) -> EntryRecord]
      BY <1>2, <1>3, <2>1
    <2>3. /\ IsTable(WithEntries(t, en)) /\ WithEntries(t, en).ent = en
          /\ WithEntries(t, en).capacity = t.capacity /\ WithEntries(t, en).freeIndex = t.freeIndex
      BY <2>2, TableOf
    <2>4. s = WithEntries(t, en)
      BY <1>4, <2>1 DEF WithEntries
    <2>5. IsTable(s) /\ s.ent = en /\ s.capacity = t.capacity /\ s.freeIndex = t.freeIndex
      BY <2>3, <2>4
    <2> QED
      BY <2>1, <2>5 DEF Cells, MainPos
  <1>6. s.ent[pos] = e /\ \A z \in Cells(t) : z # pos => s.ent[z] = t.ent[z]
    BY <1>2, <1>5
  <1>7. Home(s, pos) = pos /\ \A z \in Cells(t) : z # pos => Home(s, z) = Home(t, z)
    BY <1>3, <1>5, <1>6 DEF Home
  <1>8. /\ pos \notin Used(t) /\ Used(s) \subseteq Used(t) \cup {pos}
        /\ \A z \in Cells(t) : z # pos => (z \in Used(s) <=> z \in Used(t))
        /\ pos \in Used(s) <=> new.key # None
    BY <1>2, <1>3, <1>5, <1>6 DEF Used
  <1>9. Chain(t, pos) = {}
    <2>1. pos \notin Chain(t, pos)
      BY <1>8 DEF Chain
    <2> QED
      BY <1>2, <2>1 DEF Linked, LinkedAt
  <1>10. Linked(s, d)
    <2>1. ASSUME NEW h \in Cells(t), h # pos
          PROVE  LinkedAt(s, d, h)
      <3>1. Chain(s, h) = Chain(t, h)
        BY <1>7, <1>8, <2>1 DEF Chain, Used
      <3>2. \A z \in Chain(t, h) : s.ent[z].next = t.ent[z].next /\ d[z] = d[z]
        BY <1>6, <1>8 DEF Chain, Used
      <3>3. LinkedAt(t, d, h)
        BY DEF Linked
      <3>4. s.capacity = t.capacity
        BY <1>5
      <3> QED
        BY Zenon, <3>1, <3>2, <3>3, <3>4, LinkedAtSame
    <2>2. LinkedAt(s, d, pos)
      <3>1. Chain(s, pos) \subseteq {pos}
        BY <1>7, <1>8, <1>9 DEF Chain, Used
      <3>2. CASE Chain(s, pos) = {}
        BY <3>2 DEF LinkedAt
      <3>3. CASE Chain(s, pos) # {}
        <4>1. Chain(s, pos) = {pos}
          BY <3>1, <3>3
        <4>2. d[pos] \in Nat /\ NextOf(s)[pos] = INVALID
          BY <1>2, <1>3, <1>5, <1>6 DEF NextOf, Linked
        <4>3. IsChain(NextOf(s), {pos}, d)
          BY <4>2, ChainOfOne
        <4> QED
          BY <4>1, <4>2, <4>3 DEF LinkedAt
      <3> QED
        BY <3>2, <3>3
    <2>3. d \in [Cells(s) -> Nat]
      BY <1>5 DEF Linked
    <2> QED
      BY <1>5, <2>1, <2>2, <2>3 DEF Linked
  <1>11. Entries(s)
    <2>1. \A z \in Cells(s) : s.ent[z].key = None => s.ent[z].next = INVALID
      BY <1>3, <1>5, <1>6 DEF Entries
    <2>2. \A z \in Used(s) : s.ent[z].hash = HashOf[s.ent[z].key] /\ s.ent[z].data \in Values
      <3> TAKE z \in Used(s)
      <3>1. CASE z = pos
        BY <1>3, <1>6, <1>8, <3>1 DEF Fits
      <3>2. CASE z # pos
        BY <1>6, <1>8, <3>2 DEF Entries, Used
      <3> QED
        BY <3>1, <3>2
    <2>3. ASSUME NEW z \in Used(s), NEW j \in Used(s), s.ent[z].key = s.ent[j].key
          PROVE  z = j
      <3>1. CASE z = pos /\ j # pos
        BY <1>3, <1>6, <1>8, <2>3, <3>1 DEF Fits, Used
      <3>2. CASE j = pos /\ z # pos
        BY <1>3, <1>6, <1>8, <2>3, <3>2 DEF Fits, Used
      <3>3. CASE z # pos /\ j # pos
        BY <1>6, <1>8, <2>3, <3>3 DEF Entries, Used
      <3> QED
        BY <3>1, <3>2, <3>3
    <2> QED
      BY <2>1, <2>2, <2>3 DEF Entries
  <1>12. Gains(t, s, new)
    <2> SUFFICES ASSUME NEW k \in Keys, NEW v
                 PROVE  Has(s, k, v) <=> Has(t, k, v) \/ (k = new.key /\ v = new.data)
      BY DEF Gains
    <2>1. ASSUME Has(s, k, v)
          PROVE  Has(t, k, v) \/ (k = new.key /\ v = new.data)
      <3>1. PICK z \in Used(s) : s.ent[z].key = k /\ s.ent[z].data = v
        BY <2>1 DEF Has
      <3>2. CASE z = pos
        BY <1>3, <1>6, <3>1, <3>2
      <3>3. CASE z # pos
        <4>1. z \in Used(t) /\ t.ent[z] = s.ent[z]
          BY <1>6, <1>8, <3>3 DEF Used
        <4> QED
          BY <3>1, <4>1 DEF Has
      <3> QED
        BY <3>2, <3>3
    <2>2. ASSUME Has(t, k, v)
          PROVE  Has(s, k, v)
      <3>1. PICK z \in Used(t) : t.ent[z].key = k /\ t.ent[z].data = v
        BY <2>2 DEF Has
      <3>2. z # pos /\ z \in Used(s) /\ s.ent[z] = t.ent[z]
        BY <1>6, <1>8 DEF Used
      <3> QED
        BY <3>1, <3>2 DEF Has
    <2>3. ASSUME k = new.key, v = new.data
          PROVE  Has(s, k, v)
      <3>1. k # None
        BY HashTableAssumption
      <3>2. pos \in Used(s) /\ s.ent[pos].key = k /\ s.ent[pos].data = v
        BY <1>3, <1>6, <1>8, <2>3, <3>1
      <3> QED
        BY <3>2 DEF Has
    <2> QED
      BY <2>1, <2>2, <2>3
  <1>13. \A z \in Cells(t) : s.ent[z].key = None => (z # pos /\ t.ent[z].key = None) \/ Home(s, z) = z
    BY <1>6, <1>7
  <1>14. Inserted(t, s, new, pos)
    BY <1>5, <1>6, <1>10, <1>11, <1>12, <1>13 DEF Inserted
  <1> QED
    BY <1>0, <1>14

-----------------------------------------------------------------------------
(* Moving entries *)

SameItem(a, b) == a.key = b.key /\ a.hash = b.hash /\ a.data = b.data

\* Every entry of s is one of t that may have moved; those in X are gone.
Transfers(t, s, g, X) ==
    /\ \A z \in Used(s) : g[z] \in Used(t) \ X /\ SameItem(s.ent[z], t.ent[g[z]])
    /\ \A z, j \in Used(s) : g[z] = g[j] => z = j
    /\ \A j \in Used(t) \ X : \E z \in Used(s) : g[z] = j

LEMMA TransferKeeps ==
  ASSUME NEW t, NEW s, s.capacity = t.capacity, Entries(t), NEW g, NEW X, Transfers(t, s, g, X),
         \A z \in Cells(t) : s.ent[z].key = None => s.ent[z].next = INVALID
  PROVE  /\ Entries(s)
         /\ \A k, v : Has(s, k, v) <=> \E j \in Used(t) \ X : t.ent[j].key = k /\ t.ent[j].data = v
  <1>1. Cells(s) = Cells(t)
    BY DEF Cells
  <1>2. \A z \in Used(s) : g[z] \in Used(t) /\ g[z] \notin X /\ SameItem(s.ent[z], t.ent[g[z]])
    BY DEF Transfers
  <1>3. \A z \in Used(s) : s.ent[z].hash = HashOf[s.ent[z].key] /\ s.ent[z].data \in Values
    <2> TAKE z \in Used(s)
    <2>1. t.ent[g[z]].hash = HashOf[t.ent[g[z]].key] /\ t.ent[g[z]].data \in Values
      BY <1>2 DEF Entries
    <2> QED
      BY <1>2, <2>1 DEF SameItem
  <1>4. ASSUME NEW z \in Used(s), NEW j \in Used(s), s.ent[z].key = s.ent[j].key
        PROVE  z = j
    <2>1. t.ent[g[z]].key = t.ent[g[j]].key
      BY <1>2, <1>4 DEF SameItem
    <2>2. g[z] = g[j]
      BY <1>2, <2>1 DEF Entries
    <2> QED
      BY <2>2 DEF Transfers
  <1>5. Entries(s)
    BY <1>1, <1>3, <1>4 DEF Entries
  <1>6. ASSUME NEW k, NEW v
        PROVE  Has(s, k, v) <=> \E j \in Used(t) \ X : t.ent[j].key = k /\ t.ent[j].data = v
    <2>1. ASSUME Has(s, k, v)
          PROVE  \E j \in Used(t) \ X : t.ent[j].key = k /\ t.ent[j].data = v
      <3>1. PICK z \in Used(s) : s.ent[z].key = k /\ s.ent[z].data = v
        BY <2>1 DEF Has
      <3>2. g[z] \in Used(t) \ X /\ t.ent[g[z]].key = k /\ t.ent[g[z]].data = v
        BY <1>2, <3>1 DEF SameItem
      <3> QED
        BY <3>2
    <2>2. ASSUME NEW j \in Used(t) \ X, t.ent[j].key = k, t.ent[j].data = v
          PROVE  Has(s, k, v)
      <3>1. PICK z \in Used(s) : g[z] = j
        BY DEF Transfers
      <3>2. s.ent[z].key = k /\ s.ent[z].data = v
        BY <1>2, <2>2, <3>1 DEF SameItem
      <3> QED
        BY <3>2 DEF Has
    <2> QED
      BY <2>1, <2>2
  <1> QED
    BY <1>5, <1>6

\* The guest at pos moves to the free entry f and p, which linked to it, is bent to f.
LEMMA MoveKeeps ==
  ASSUME NEW t, NEW d, IsTable(t), Entries(t), Linked(t, d),
         NEW f \in Cells(t), t.ent[f].key = None,
         NEW pos \in Used(t), Home(t, pos) # pos,
         NEW p \in Chain(t, Home(t, pos)), t.ent[p].next = pos,
         NEW s, IsTable(s), s.capacity = t.capacity,
         s.ent[f] = t.ent[pos], s.ent[pos].key = None, s.ent[pos].next = INVALID,
         SameItem(s.ent[p], t.ent[p]), s.ent[p].next = f,
         \A z \in Cells(t) : z # f /\ z # pos /\ z # p => s.ent[z] = t.ent[z]
  PROVE  /\ Entries(s) /\ \E e : Linked(s, e)
         /\ \A k, v : Has(s, k, v) <=> Has(t, k, v)
  <1> DEFINE h == Home(t, pos)
             C == Chain(t, h)
             e == [d EXCEPT ![f] = d[pos]]
  <1>1. /\ Cells(s) = Cells(t) /\ pos \in Cells(t) /\ f # pos /\ f \notin Used(t) /\ f # INVALID
        /\ \A z : Home(s, z) = MainPos(t, s.ent[z].hash)
    BY TableFacts DEF Cells, Used, Home, MainPos
  <1>2. h \in Cells(t) /\ pos \in C /\ C \subseteq Used(t) /\ C \subseteq Cells(t) /\ INVALID \notin C
    BY TableFacts DEF Chain, Used
  <1>3. h \in C /\ (\A j \in C : d[h] <= d[j]) /\ IsChain(NextOf(t), C, d) /\ h # pos
    BY <1>2 DEF Linked, LinkedAt
  <1>4. \A z \in Cells(t) : NextOf(s)[z] = s.ent[z].next /\ NextOf(t)[z] = t.ent[z].next
    BY <1>1 DEF NextOf
  <1>5. p \in Used(t) /\ p \in Cells(t) /\ p # f
    BY <1>1, <1>2
  <1>6. p # pos
    <2>1. Follows(NextOf(t), C, d, pos) /\ d[pos] \in Nat
      BY <1>2, <1>3 DEF IsChain
    <2>2. NextOf(t)[pos] # pos
      BY <2>1, <1>2 DEF Follows
    <2> QED
      BY <1>1, <1>4, <2>2
  <1>7. \A z \in Used(s) : z # pos /\ z \in Cells(t)
    BY <1>1 DEF Used
  <1>8. f \in Used(s) /\ p \in Used(s)
    BY <1>1, <1>5 DEF Used, SameItem
  <1>9. \A z \in Cells(t) : z # f /\ z # pos => (z \in Used(s) <=> z \in Used(t)) /\ SameItem(s.ent[z], t.ent[z])
    BY <1>1 DEF Used, SameItem
  <1> DEFINE g == [z \in Used(s) |-> IF z = f THEN pos ELSE z]
  <1>10. Transfers(t, s, g, {})
    <2>1. ASSUME NEW z \in Used(s)
          PROVE  g[z] \in Used(t) \ {} /\ SameItem(s.ent[z], t.ent[g[z]])
      <3>1. CASE z = f
        BY <3>1 DEF SameItem
      <3>2. CASE z # f
        <4>1. g[z] = z
          BY <3>2
        <4> QED
          BY <1>7, <1>9, <3>2, <4>1
      <3> QED
        BY <3>1, <3>2
    <2>2. \A z, j \in Used(s) : g[z] = g[j] => z = j
      BY <1>7
    <2>3. ASSUME NEW j \in Used(t) \ {}
          PROVE  \E z \in Used(s) : g[z] = j
      <3>1. CASE j = pos
        BY <1>8, <3>1
      <3>2. CASE j # pos
        <4>1. j \in Cells(t) /\ j # f
          BY <1>1 DEF Used
        <4>2. j \in Used(s) /\ g[j] = j
          BY <1>9, <3>2, <4>1
        <4> QED
          BY <4>2
      <3> QED
        BY <3>1, <3>2
    <2> HIDE DEF g
    <2> QED
      BY <2>1, <2>2, <2>3 DEF Transfers
  <1>11. \A z \in Cells(t) : s.ent[z].key = None => s.ent[z].next = INVALID
    <2> TAKE z \in Cells(t)
    <2>1. CASE z = f \/ z = p
      BY <1>8, <2>1 DEF Used
    <2>2. CASE z = pos
      BY <2>2
    <2>3. CASE z # f /\ z # pos /\ z # p
      BY <2>3 DEF Entries
    <2> QED
      BY <2>1, <2>2, <2>3
  <1>12. Entries(s) /\ \A k, v : Has(s, k, v) <=> \E j \in Used(t) \ {} : t.ent[j].key = k /\ t.ent[j].data = v
    <2> HIDE DEF g
    <2> QED
      BY <1>10, <1>11, TransferKeeps
  <1>13. \A k, v : Has(s, k, v) <=> Has(t, k, v)
    BY <1>12 DEF Has
  <1>14. e \in [Cells(t) -> Nat] /\ e[f] = d[pos] /\ \A z \in Cells(t) : z # f => e[z] = d[z]
    BY <1>1 DEF Linked
  <1> HIDE DEF e, g
  <1>15. ASSUME NEW x \in Cells(t), x # h
         PROVE  LinkedAt(s, e, x)
    <2>1. pos \notin Chain(t, x) /\ p \notin Chain(t, x) /\ f \notin Chain(t, x) /\ Chain(t, x) \subseteq Cells(t)
      BY <1>1, <1>15 DEF Chain, Used
    <2>2. ASSUME NEW z \in Cells(t)
          PROVE  z \in Chain(s, x) <=> z \in Chain(t, x)
      <3>1. CASE z = f
        BY <1>1, <1>15, <2>1, <3>1 DEF Chain, Home
      <3>2. CASE z = pos
        BY <1>7, <2>1, <3>2 DEF Chain
      <3>3. CASE z # f /\ z # pos
        BY <1>1, <1>9, <3>3 DEF Chain, SameItem, Home
      <3> QED
        BY <3>1, <3>2, <3>3
    <2>3. Chain(s, x) = Chain(t, x)
      BY <1>1, <2>2 DEF Chain, Used
    <2>4. \A z \in Chain(t, x) : s.ent[z].next = t.ent[z].next /\ e[z] = d[z]
      BY <1>14, <2>1
    <2>5. LinkedAt(t, d, x)
      BY DEF Linked
    <2> QED
      BY Zenon, <2>3, <2>4, <2>5, LinkedAtSame
  <1>16. LinkedAt(s, e, h)
    <2>1. ASSUME NEW z \in Cells(t)
          PROVE  z \in Chain(s, h) <=> z \in (C \ {pos}) \cup {f}
      <3>1. CASE z = f
        BY <1>1, <1>8, <3>1 DEF Chain, Home
      <3>2. CASE z = pos
        BY <1>1, <1>7, <3>2 DEF Chain
      <3>3. CASE z # f /\ z # pos
        BY <1>1, <1>9, <3>3 DEF Chain, SameItem, Home
      <3> QED
        BY <3>1, <3>2, <3>3
    <2> DEFINE D == Chain(s, h)
    <2>2. \A z : z \in D <=> (z \in C /\ z # pos) \/ z = f
      BY <1>1, <1>2, <2>1 DEF Chain, Used
    <2>3. /\ NextOf(t)[p] = pos /\ NextOf(s)[p] = f /\ NextOf(s)[f] = NextOf(t)[pos]
          /\ \A z \in C : z # p /\ z # pos => NextOf(s)[z] = NextOf(t)[z]
      <3>1. \A z \in C : z \in Cells(t) /\ z # f
        BY <1>1, <1>2
      <3> QED
        BY <1>1, <1>4, <1>5, <3>1
    <2>4. e[f] = d[pos] /\ \A z \in C : z # pos => e[z] = d[z]
      BY <1>1, <1>2, <1>14
    <2>5. f \notin C /\ p \in C
      BY <1>1, <1>2
    <2>6. PICK nx, ny : nx = NextOf(t) /\ ny = NextOf(s)
      OBVIOUS
    <2>7. /\ IsChain(nx, C, d) /\ nx[p] = pos /\ ny[p] = f /\ ny[f] = nx[pos]
          /\ \A z \in C : z # p /\ z # pos => ny[z] = nx[z]
      BY <1>3, <2>3, <2>6
    <2> HIDE DEF C, D, h
    <2>8. IsChain(ny, D, e)
      BY <1>1, <1>2, <2>2, <2>4, <2>5, <2>7, ChainMoved
    <2>9. h \in D
      BY <1>3, <2>2
    <2>10. \A j \in D : e[h] <= e[j]
      <3>1. h # f /\ e[h] = d[h]
        BY <1>3, <2>4, <2>5
      <3> QED
        BY <1>2, <1>3, <2>2, <2>4, <3>1
    <2> QED
      BY <2>6, <2>8, <2>9, <2>10 DEF LinkedAt, D
  <1>17. Linked(s, e)
    BY <1>1, <1>14, <1>15, <1>16 DEF Linked
  <1> QED
    BY <1>12, <1>13, <1>17

\* The new entry goes to the free entry f, behind the end p of its chain.
LEMMA AppendKeeps ==
  ASSUME NEW t, NEW d, IsTable(t), Entries(t), Linked(t, d),
         NEW f \in Cells(t), t.ent[f].key = None,
         NEW new, Fits(t, new), new.key # None, NEW pos \in Cells(t), pos = MainPos(t, new.hash),
         NEW p \in Chain(t, pos), t.ent[p].next = INVALID,
         NEW s, IsTable(s), s.capacity = t.capacity,
         SameItem(s.ent[f], new), s.ent[f].next = INVALID,
         SameItem(s.ent[p], t.ent[p]), s.ent[p].next = f,
         \A z \in Cells(t) : z # f /\ z # p => s.ent[z] = t.ent[z]
  PROVE  Entries(s) /\ (\E e : Linked(s, e)) /\ Gains(t, s, new)
  <1> DEFINE C == Chain(t, pos)
             e == [d EXCEPT ![f] = d[p] + 1]
  <1>1. /\ Cells(s) = Cells(t) /\ f \notin Used(t) /\ f # INVALID
        /\ \A z : Home(s, z) = MainPos(t, s.ent[z].hash)
    BY TableFacts DEF Cells, Used, Home, MainPos
  <1>2. C \subseteq Used(t) /\ C \subseteq Cells(t) /\ INVALID \notin C
    BY TableFacts DEF Chain, Used
  <1>3. pos \in C /\ (\A j \in C : d[pos] <= d[j]) /\ IsChain(NextOf(t), C, d)
    BY DEF Linked, LinkedAt
  <1>4. \A z \in Cells(t) : NextOf(s)[z] = s.ent[z].next /\ NextOf(t)[z] = t.ent[z].next
    BY <1>1 DEF NextOf
  <1>5. p \in Used(t) /\ p \in Cells(t) /\ p # f
    BY <1>1, <1>2
  <1>6. f \in Used(s) /\ Home(s, f) = pos
    BY <1>1 DEF Used, SameItem
  <1>7. \A z \in Cells(t) : z # f => /\ z \in Used(s) <=> z \in Used(t)
                                     /\ SameItem(s.ent[z], t.ent[z]) /\ Home(s, z) = Home(t, z)
    BY <1>1 DEF Used, SameItem, Home
  <1>8. Entries(s)
    <2>1. ASSUME NEW z \in Cells(s), s.ent[z].key = None
          PROVE  s.ent[z].next = INVALID
      <3>1. z # f /\ z # p /\ z \in Cells(t)
        BY <1>1, <1>5, <1>6, <1>7, <2>1 DEF Used
      <3> QED
        BY <2>1, <3>1 DEF Entries
    <2>2. ASSUME NEW z \in Used(s)
          PROVE  s.ent[z].hash = HashOf[s.ent[z].key] /\ s.ent[z].data \in Values
      <3>1. CASE z = f
        BY <3>1 DEF Fits, SameItem
      <3>2. CASE z # f
        <4>1. z \in Used(t) /\ SameItem(s.ent[z], t.ent[z])
          BY <1>1, <1>7, <3>2 DEF Used
        <4> QED
          BY <4>1 DEF Entries, SameItem
      <3> QED
        BY <3>1, <3>2
    <2>3. ASSUME NEW z \in Used(s), NEW j \in Used(s), s.ent[z].key = s.ent[j].key
          PROVE  z = j
      <3>1. \A x \in Used(s) : x # f => x \in Used(t) /\ s.ent[x].key = t.ent[x].key
        BY <1>1, <1>7 DEF Used, SameItem
      <3>2. \A x \in Used(t) : t.ent[x].key # s.ent[f].key
        BY DEF Fits, SameItem
      <3>3. CASE z = f \/ j = f
        BY <2>3, <3>1, <3>2, <3>3
      <3>4. CASE z # f /\ j # f
        BY <2>3, <3>1, <3>4 DEF Entries
      <3> QED
        BY <3>3, <3>4
    <2> QED
      BY <2>1, <2>2, <2>3 DEF Entries
  <1>9. Gains(t, s, new)
    <2> SUFFICES ASSUME NEW k \in Keys, NEW v
                 PROVE  Has(s, k, v) <=> Has(t, k, v) \/ (k = new.key /\ v = new.data)
      BY DEF Gains
    <2>1. ASSUME Has(s, k, v)
          PROVE  Has(t, k, v) \/ (k = new.key /\ v = new.data)
      <3>1. PICK z \in Used(s) : s.ent[z].key = k /\ s.ent[z].data = v
        BY <2>1 DEF Has
      <3>2. CASE z = f
        BY <3>1, <3>2 DEF SameItem
      <3>3. CASE z # f
        <4>1. z \in Used(t) /\ SameItem(s.ent[z], t.ent[z])
          BY <1>1, <1>7, <3>3 DEF Used
        <4> QED
          BY <3>1, <4>1 DEF Has, SameItem
      <3> QED
        BY <3>2, <3>3
    <2>2. ASSUME Has(t, k, v)
          PROVE  Has(s, k, v)
      <3>1. PICK z \in Used(t) : t.ent[z].key = k /\ t.ent[z].data = v
        BY <2>2 DEF Has
      <3>2. z \in Used(s) /\ SameItem(s.ent[z], t.ent[z])
        BY <1>1, <1>7 DEF Used
      <3> QED
        BY <3>1, <3>2 DEF Has, SameItem
    <2>3. ASSUME k = new.key, v = new.data
          PROVE  Has(s, k, v)
      BY <1>6, <2>3 DEF Has, SameItem
    <2> QED
      BY <2>1, <2>2, <2>3
  <1>10. /\ e \in [Cells(t) -> Nat] /\ e[f] = d[p] + 1 /\ \A z \in Cells(t) : z # f => e[z] = d[z]
         /\ \A z \in Cells(t) : d[z] \in Nat
    BY <1>5 DEF Linked
  <1> HIDE DEF e
  <1>11. ASSUME NEW x \in Cells(t), x # pos
         PROVE  LinkedAt(s, e, x)
    <2>1. p \notin Chain(t, x) /\ f \notin Chain(t, x) /\ Chain(t, x) \subseteq Cells(t)
      BY <1>1, <1>11 DEF Chain, Used
    <2>2. Chain(s, x) = Chain(t, x)
      BY <1>1, <1>6, <1>7, <1>11 DEF Chain, Used
    <2>3. \A z \in Chain(t, x) : s.ent[z].next = t.ent[z].next /\ e[z] = d[z]
      BY <1>10, <2>1
    <2>4. LinkedAt(t, d, x)
      BY DEF Linked
    <2> QED
      BY Zenon, <2>2, <2>3, <2>4, LinkedAtSame
  <1>12. LinkedAt(s, e, pos)
    <2> DEFINE D == Chain(s, pos)
    <2>1. \A z : z \in D <=> z \in C \/ z = f
      BY <1>1, <1>6, <1>7 DEF Chain, Used
    <2>2. PICK nx, ny : nx = NextOf(t) /\ ny = NextOf(s)
      OBVIOUS
    <2>3. /\ IsChain(nx, C, d) /\ nx[p] = INVALID /\ ny[p] = f /\ ny[f] = INVALID
          /\ \A z \in C : z # p => ny[z] = nx[z]
      <3>1. \A z \in C : z \in Cells(t) /\ z # f
        BY <1>1, <1>2
      <3> QED
        BY <1>3, <1>4, <1>5, <2>2, <3>1
    <2>4. f \notin C /\ p \in C /\ e[f] = d[p] + 1 /\ \A z \in C : e[z] = d[z]
      BY <1>1, <1>2, <1>10
    <2> HIDE DEF C, D
    <2>5. IsChain(ny, D, e)
      BY <1>1, <1>2, <2>1, <2>3, <2>4, ChainAppended
    <2>6. \A j \in D : e[pos] <= e[j]
      <3>1. e[pos] = d[pos] /\ d[pos] <= d[p] /\ d[pos] \in Nat /\ d[p] \in Nat
        BY <1>3, <1>5, <1>10, <2>4
      <3> QED
        BY <1>3, <2>1, <2>4, <3>1
    <2>7. pos \in D
      BY <1>3, <2>1
    <2> QED
      BY <2>2, <2>5, <2>6, <2>7 DEF LinkedAt, D
  <1>13. Linked(s, e)
    BY <1>1, <1>10, <1>11, <1>12 DEF Linked
  <1> QED
    BY <1>8, <1>9, <1>13

LEMMA AppendInserts ==
  ASSUME NEW t, NEW d, IsTable(t), Entries(t), Linked(t, d),
         t.freeIndex \in Cells(t), t.ent[t.freeIndex].key = None,
         NEW new, Fits(t, new), new.key # None,
         NEW pos \in Used(t), pos = MainPos(t, new.hash), Home(t, pos) = pos
  PROVE  Inserted(t, Appended(t, pos, new), new, t.freeIndex)
  <1> DEFINE f == t.freeIndex
             p == LinksTo(t, pos, INVALID)
  <1>1. pos \in Cells(t) /\ pos \in Chain(t, pos) /\ Chain(t, pos) \subseteq Used(t) /\ Used(t) \subseteq Cells(t)
    BY DEF Used, Chain
  <1>2. OnChain(t, pos) = Chain(t, pos) /\ \E q \in Chain(t, pos) : NextOf(t)[q] = INVALID
    BY <1>1, HeadWalk
  <1>3. \E q \in OnChain(t, pos) : t.ent[q].next = INVALID
    BY <1>1, <1>2 DEF NextOf
  <1>4. p \in Chain(t, pos) /\ t.ent[p].next = INVALID
    BY <1>2, <1>3 DEF LinksTo
  <1> HIDE DEF p
  <1>5. p # f /\ p \in Cells(t) /\ p \in Used(t) /\ f \in Cells(t)
    BY <1>1, <1>4 DEF Used
  <1>6. t.ent \in [Cells(t) -> EntryRecord] /\ t.ent[p] \in EntryRecord /\ t.ent[f] \in EntryRecord /\ new \in EntryRecord
    BY <1>5, TableFacts DEF Fits
  <1>7. f \in Nat
    BY <1>5, TableFacts
  <1> DEFINE ep == [t.ent[p] EXCEPT !.next = f]
             ef == Copied(t.ent[f], new)
  <1>8. ep \in EntryRecord /\ SameItem(ep, t.ent[p]) /\ ep.next = f
    BY <1>6, <1>7 DEF EntryRecord, SameItem
  <1>9. ef \in EntryRecord /\ SameItem(ef, new) /\ ef.next = INVALID
    <2>1. t.ent[f].next = INVALID
      BY <1>5 DEF Entries
    <2> QED
      BY <1>6, <2>1, CopiedFacts DEF SameItem
  <1>10. PICK en : en = [t.ent EXCEPT ![p] = ep, ![f] = ef]
    OBVIOUS
  <1>11. Appended(t, pos, new) = WithEntries(t, en)
    BY <1>5, <1>6, <1>10 DEF Appended, WithEntries, p, IsTable
  <1> HIDE DEF ep, ef
  <1>12. en \in [Cells(t) -> EntryRecord] /\ en[p] = ep /\ en[f] = ef /\ \A z \in Cells(t) : z # p /\ z # f => en[z] = t.ent[z]
    BY <1>5, <1>6, <1>8, <1>9, <1>10
  <1>13. PICK s : s = WithEntries(t, en)
    OBVIOUS
  <1>14. IsTable(s) /\ s.ent = en /\ s.capacity = t.capacity /\ s.freeIndex = t.freeIndex
    BY <1>12, <1>13, TableOf
  <1>15. /\ SameItem(s.ent[f], new) /\ s.ent[f].next = INVALID
         /\ SameItem(s.ent[p], t.ent[p]) /\ s.ent[p].next = f
         /\ \A z \in Cells(t) : z # f /\ z # p => s.ent[z] = t.ent[z]
    BY <1>8, <1>9, <1>12, <1>14
  <1>16. Entries(s) /\ (\E e : Linked(s, e)) /\ Gains(t, s, new)
    BY <1>1, <1>4, <1>5, <1>14, <1>15, AppendKeeps
  <1>17. \A z \in Cells(t) : t.ent[z].key = None /\ z # f => s.ent[z] = t.ent[z]
    BY <1>5, <1>15 DEF Used
  <1>18. ASSUME NEW z \in Cells(t), s.ent[z].key = None
         PROVE  z # f /\ t.ent[z].key = None
    <2>1. z # f
      BY <1>15, <1>18 DEF SameItem
    <2>2. z # p
      BY <1>5, <1>15, <1>18 DEF SameItem, Used
    <2> QED
      BY <1>15, <1>18, <2>1, <2>2
  <1>19. Inserted(t, s, new, f)
    BY <1>14, <1>16, <1>17, <1>18 DEF Inserted
  <1> QED
    BY <1>11, <1>13, <1>19

LEMMA EvictInserts ==
  ASSUME NEW t, NEW d, IsTable(t), Entries(t), Linked(t, d),
         t.freeIndex \in Cells(t), t.ent[t.freeIndex].key = None,
         NEW new, Fits(t, new),
         NEW pos \in Used(t), pos = MainPos(t, new.hash), Home(t, pos) # pos
  PROVE  Inserted(t, Evicted(t, pos, new), new, t.freeIndex)
  <1> DEFINE f == t.freeIndex
             h == Home(t, pos)
             C == Chain(t, h)
  <1>1. pos \in Cells(t) /\ pos \in C /\ C \subseteq Used(t) /\ Used(t) \subseteq Cells(t) /\ h \in Cells(t) /\ pos # f
    BY TableFacts DEF Used, Chain
  <1>2. h \in C /\ IsChain(NextOf(t), C, d) /\ (\A j \in C : d[h] <= d[j])
    BY <1>1 DEF Linked, LinkedAt
  <1>3. /\ t.ent \in [Cells(t) -> EntryRecord] /\ t.ent[pos] \in EntryRecord /\ t.ent[f] \in EntryRecord
        /\ new \in EntryRecord /\ f \in Cells(t) /\ f \in Nat /\ INVALID \in Nat
    BY <1>1, TableFacts DEF Fits
  <1>4. PICK em : em = [t.ent EXCEPT ![f] = t.ent[pos]]
    OBVIOUS
  <1>5. em \in [Cells(t) -> EntryRecord] /\ em[f] = t.ent[pos] /\ \A z \in Cells(t) : z # f => em[z] = t.ent[z]
    BY <1>3, <1>4
  <1>6. PICK moved : moved = WithEntries(t, em)
    OBVIOUS
  <1>7. IsTable(moved) /\ moved.ent = em /\ moved.capacity = t.capacity /\ moved.freeIndex = t.freeIndex
    BY <1>5, <1>6, TableOf
  <1>8. moved = [t EXCEPT !.ent[t.freeIndex] = t.ent[pos]]
    BY <1>3, <1>4, <1>6 DEF WithEntries, IsTable
  <1> DEFINE p == LinksTo(moved, h, pos)
  <1>9. p \in C /\ t.ent[p].next = pos
    <2>1. \A j \in C : j \in Cells(t) /\ j # f
      BY <1>1 DEF Used
    <2>2. PICK nx : nx = NextOf(t)
      OBVIOUS
    <2>3. \A j \in C : moved.ent[j].next = nx[j] /\ t.ent[j].next = nx[j]
      BY <1>5, <1>7, <2>1, <2>2 DEF NextOf
    <2>4. moved.capacity \in 1 .. MaxCapacity /\ C \in SUBSET (0 .. moved.capacity - 1)
      BY <1>1, <1>7, TableFacts DEF Cells
    <2> HIDE DEF C, h
    <2>5. /\ \A j : j \in OnChain(moved, h) <=> j \in C /\ d[j] >= d[h]
          /\ \A j \in OnChain(moved, h) : j # h => \E q \in OnChain(moved, h) : nx[q] = j
      <3>1. ChainIn(moved, nx, C, d) /\ h \in C
        BY <1>2, <2>2, <2>3, <2>4 DEF ChainIn
      <3>2. Walks(moved, nx, C, d, h)
        BY <3>1, WalkFacts
      <3> QED
        BY <3>2 DEF Walks
    <2>6. pos \in OnChain(moved, h) /\ pos # h
      <3>1. d[h] \in Nat /\ d[pos] \in Nat
        BY <1>1 DEF Linked
      <3> QED
        BY <1>1, <1>2, <2>5, <3>1 DEF h
    <2>7. \E q \in OnChain(moved, h) : moved.ent[q].next = pos
      BY <2>3, <2>5, <2>6
    <2>8. p \in OnChain(moved, h) /\ moved.ent[p].next = pos
      BY <2>7 DEF LinksTo
    <2> QED
      BY <2>3, <2>5, <2>8
  <1>10. p # f /\ p \in Cells(t) /\ p \in Used(t)
    BY <1>1, <1>9 DEF Used
  <1>11. p # pos
    <2>1. Follows(NextOf(t), C, d, pos) /\ d[pos] \in Nat /\ NextOf(t)[pos] = t.ent[pos].next
      BY <1>1, <1>2 DEF IsChain, NextOf
    <2>2. t.ent[pos].next # pos
      <3>1. pos # INVALID
        BY <1>1, TableFacts
      <3> QED
        BY <2>1, <3>1 DEF Follows
    <2> QED
      BY <1>9, <2>2
  <1> DEFINE ep == [t.ent[p] EXCEPT !.next = f]
             gone == [t.ent[pos] EXCEPT !.key = None, !.next = INVALID]
             en == [em EXCEPT ![p] = ep, ![pos] = gone]
             m == WithEntries(t, en)
  <1>12. ep \in EntryRecord /\ SameItem(ep, t.ent[p]) /\ ep.next = f
    BY <1>3, <1>10, TableFacts DEF EntryRecord, SameItem
  <1>13. gone \in EntryRecord /\ gone.key = None /\ gone.next = INVALID
    BY <1>3 DEF EntryRecord
  <1>14. [Copied(t.ent[pos], new) EXCEPT !.next = INVALID] = Copied(gone, new)
    BY <1>3 DEF EntryRecord, Copied
  <1>15. Evicted(t, pos, new) = [m EXCEPT !.ent[pos] = Copied(@, new)]
    <2>1. Evicted(t, pos, new) = [moved EXCEPT !.ent[p].next = f, !.ent[pos] = [Copied(@, new) EXCEPT !.next = INVALID]]
      BY <1>8 DEF Evicted, p, h, Home
    <2>2. moved = [t EXCEPT !.ent = em] /\ moved.ent[p] = t.ent[p] /\ moved.ent[pos] = t.ent[pos]
      BY <1>1, <1>5, <1>6, <1>7, <1>10 DEF WithEntries
    <2> HIDE DEF p, gone, h
    <2>3. [moved EXCEPT !.ent[p].next = f, !.ent[pos] = [Copied(@, new) EXCEPT !.next = INVALID]]
            = WithEntries(t, [em EXCEPT ![p] = ep, ![pos] = Copied(gone, new)])
      BY <1>1, <1>5, <1>7, <1>10, <1>11, <1>14, <2>2 DEF WithEntries, IsTable
    <2>4. [m EXCEPT !.ent[pos] = Copied(@, new)]
            = WithEntries(t, [em EXCEPT ![p] = ep, ![pos] = Copied(gone, new)])
      BY <1>1, <1>5, <1>10, <1>11 DEF WithEntries, IsTable
    <2> QED
      BY <2>1, <2>3, <2>4
  <1> HIDE DEF ep, gone, p
  <1>16. /\ en \in [Cells(t) -> EntryRecord] /\ en[p] = ep /\ en[pos] = gone /\ en[f] = t.ent[pos]
         /\ \A z \in Cells(t) : z # p /\ z # pos /\ z # f => en[z] = t.ent[z]
    BY <1>1, <1>3, <1>5, <1>10, <1>11, <1>12, <1>13
  <1> HIDE DEF en
  <1>17. IsTable(m) /\ m.ent = en /\ m.capacity = t.capacity /\ m.freeIndex = t.freeIndex
    BY <1>16, TableOf
  <1> HIDE DEF m
  <1>18. /\ m.ent[f] = t.ent[pos] /\ m.ent[pos].key = None /\ m.ent[pos].next = INVALID
         /\ SameItem(m.ent[p], t.ent[p]) /\ m.ent[p].next = f
         /\ \A z \in Cells(t) : z # f /\ z # pos /\ z # p => m.ent[z] = t.ent[z]
    BY <1>12, <1>13, <1>16, <1>17
  <1>19. Entries(m) /\ (\E e : Linked(m, e)) /\ \A k, v : Has(m, k, v) <=> Has(t, k, v)
    BY <1>3, <1>9, <1>17, <1>18, MoveKeeps
  <1>20. PICK e : Linked(m, e)
    BY <1>19
  <1>21. Fits(m, new)
    <2>1. ASSUME new.key # None, NEW z \in Used(m), m.ent[z].key = new.key
          PROVE  FALSE
      <3>1. Has(m, new.key, m.ent[z].data)
        BY <2>1 DEF Has
      <3>2. Has(t, new.key, m.ent[z].data)
        BY <1>19, <3>1
      <3> QED
        BY <2>1, <3>2 DEF Has, Fits
    <2> QED
      BY <2>1 DEF Fits
  <1>22. Cells(m) = Cells(t) /\ pos = MainPos(m, new.hash)
    BY <1>17 DEF Cells, MainPos
  <1>23. Inserted(m, Evicted(t, pos, new), new, pos)
    BY <1>15, <1>17, <1>18, <1>19, <1>20, <1>21, <1>22, PutInserts
  <1>24. PICK s : s = Evicted(t, pos, new)
    OBVIOUS
  <1>25. Inserted(m, s, new, pos)
    BY <1>23, <1>24
  <1>26. ASSUME NEW z \in Cells(t), t.ent[z].key = None, z # f
         PROVE  s.ent[z] = t.ent[z]
    <2>1. z # pos /\ z # p
      BY <1>10, <1>26 DEF Used
    <2>2. m.ent[z] = t.ent[z]
      BY <1>18, <1>26, <2>1
    <2> QED
      BY <1>22, <1>25, <1>26, <2>1, <2>2 DEF Inserted
  <1>27. ASSUME NEW z \in Cells(t), s.ent[z].key = None
         PROVE  (z # f /\ t.ent[z].key = None) \/ Home(s, z) = z
    <2>1. (z # pos /\ m.ent[z].key = None) \/ Home(s, z) = z
      BY <1>22, <1>25, <1>27 DEF Inserted
    <2>2. z # pos /\ m.ent[z].key = None => z # f /\ z # p
      BY <1>1, <1>10, <1>18 DEF Used, SameItem
    <2> QED
      BY <1>18, <2>1, <2>2
  <1>28. Gains(t, s, new)
    BY <1>19, <1>25 DEF Inserted, Gains
  <1>29. /\ IsTable(s) /\ s.capacity = t.capacity /\ s.freeIndex = t.freeIndex
         /\ Entries(s) /\ \E x : Linked(s, x)
    BY <1>17, <1>25 DEF Inserted
  <1>30. Inserted(t, s, new, f)
    BY <1>26, <1>27, <1>28, <1>29 DEF Inserted
  <1> QED
    BY <1>24, <1>30

-----------------------------------------------------------------------------
(* The free index *)

LEMMA SameEntries ==
  ASSUME NEW s, NEW a, a.ent = s.ent, a.capacity = s.capacity
  PROVE  /\ Cells(a) = Cells(s) /\ Used(a) = Used(s) /\ \A z : Home(a, z) = Home(s, z)
         /\ Entries(s) => Entries(a)
         /\ \A d : Linked(s, d) => Linked(a, d)
         /\ \A k, v : Has(a, k, v) <=> Has(s, k, v)
  <1>1. Cells(a) = Cells(s)
    BY DEF Cells
  <1>2. Used(a) = Used(s)
    BY <1>1 DEF Used
  <1>3. \A z : Home(a, z) = Home(s, z)
    BY DEF Home, MainPos
  <1>4. \A h : Chain(a, h) = Chain(s, h)
    BY <1>2, <1>3 DEF Chain
  <1>5. NextOf(a) = NextOf(s)
    BY <1>1 DEF NextOf
  <1>6. Entries(s) => Entries(a)
    BY <1>1, <1>2 DEF Entries
  <1>7. \A d : Linked(s, d) => Linked(a, d)
    BY <1>1, <1>4, <1>5 DEF Linked, LinkedAt
  <1>8. \A k, v : Has(a, k, v) <=> Has(s, k, v)
    BY <1>2 DEF Has
  <1> QED
    BY <1>1, <1>2, <1>3, <1>6, <1>7, <1>8

\* hash_table_advance_free_index finds the next free entry.
LEMMA AdvanceFacts ==
  ASSUME NEW s, IsTable(s), s.freeIndex \in Cells(s),
         \A z \in Cells(s) : s.ent[z].key = None => z > s.freeIndex \/ Home(s, z) = z
  PROVE  /\ IsTable(Advanced(s)) /\ Advanced(s).ent = s.ent /\ Advanced(s).capacity = s.capacity
         /\ FreeIndexRight(Advanced(s))
  <1> DEFINE free == {z \in s.freeIndex + 1 .. s.capacity - 1 : s.ent[z].key = None}
             n == NextFree(s, s.freeIndex)
  <1>1. s.freeIndex \in Nat /\ s.capacity \in Nat /\ free \subseteq Cells(s) /\ free \subseteq Nat
    <2>1. s.capacity \in Nat /\ Cells(s) \subseteq Nat
      BY TableFacts
    <2>2. s.freeIndex \in Nat
      BY <2>1
    <2>3. ASSUME NEW z \in free
          PROVE  z \in Cells(s) /\ z \in Nat
      BY <2>1, <2>2 DEF Cells
    <2> QED
      BY <2>1, <2>2, <2>3
  <1>2. \A z \in Cells(s) : s.ent[z].key = None /\ z > s.freeIndex => z \in free
    BY <1>1 DEF Cells
  <1>3. \/ free = {} /\ n = INVALID
        \/ n \in free /\ \A j \in free : n <= j
    <2>1. CASE free = {}
      BY <2>1 DEF NextFree
    <2>2. CASE free # {}
      <3>1. \E z \in free : \A j \in free : z <= j
        BY <1>1, <2>2, Least
      <3>2. n = CHOOSE z \in free : \A j \in free : z <= j
        BY <2>2 DEF NextFree
      <3> HIDE DEF n, free
      <3> QED
        BY <3>1, <3>2
    <2> QED
      BY <2>1, <2>2
  <1>4. PICK a : a = Advanced(s)
    OBVIOUS
  <1>5. a.ent = s.ent /\ a.capacity = s.capacity /\ a.freeIndex = n
    BY <1>4 DEF Advanced, IsTable
  <1>6. Cells(a) = Cells(s) /\ \A z : Home(a, z) = Home(s, z)
    BY <1>5, SameEntries
  <1>7. n \in Nat /\ n \in Cells(s) \cup {INVALID}
    BY <1>1, <1>3, TableFacts
  <1>8. IsTable(a)
    <2>1. a \in [capacity : Nat, freeIndex : Nat, ent : [Cells(a) -> EntryRecord]]
      <3> HIDE DEF n
      <3> QED
        BY <1>4, <1>6, <1>7 DEF IsTable, Advanced, n
    <2> QED
      BY <1>5, <1>6, <1>7, <2>1 DEF IsTable
  <1>9. n # INVALID => s.ent[n].key = None
    BY <1>3
  <1>10. ASSUME NEW z \in Cells(s), s.ent[z].key = None, Home(s, z) # z
         PROVE  z >= n
    BY <1>1, <1>2, <1>3, <1>10
  <1>11. FreeIndexRight(a)
    BY <1>5, <1>6, <1>9, <1>10 DEF FreeIndexRight
  <1> QED
    BY <1>4, <1>5, <1>8, <1>11

\* s is t and new; of the free entries of t one may have been used.
Grown(t, s, new) ==
    /\ Good(s) /\ s.capacity = t.capacity /\ Gains(t, s, new)
    /\ \E x \in Cells(t) : \A z \in Cells(t) : t.ent[z].key = None /\ z # x => s.ent[z] = t.ent[z]

LEMMA InsertedElsewhere ==
  ASSUME NEW t, Good(t), NEW s, NEW new, NEW x \in Cells(t), Inserted(t, s, new, x), x # t.freeIndex
  PROVE  Grown(t, s, new)
  <1>1. /\ IsTable(s) /\ s.capacity = t.capacity /\ s.freeIndex = t.freeIndex
        /\ Entries(s) /\ (\E e : Linked(s, e)) /\ Gains(t, s, new)
        /\ \A z \in Cells(t) : t.ent[z].key = None /\ z # x => s.ent[z] = t.ent[z]
        /\ \A z \in Cells(t) : s.ent[z].key = None => (z # x /\ t.ent[z].key = None) \/ Home(s, z) = z
    BY DEF Inserted
  <1>2. IsTable(t) /\ FreeIndexRight(t) /\ Cells(s) = Cells(t)
    BY <1>1 DEF Good, Cells
  <1>3. s.freeIndex # INVALID => s.ent[s.freeIndex].key = None
    BY <1>1, <1>2 DEF FreeIndexRight, IsTable
  <1>4. ASSUME NEW z \in Cells(s), s.ent[z].key = None, Home(s, z) # z
        PROVE  z >= s.freeIndex
    <2>1. z # x /\ t.ent[z].key = None /\ s.ent[z] = t.ent[z]
      BY <1>1, <1>2, <1>4
    <2>2. Home(t, z) = Home(s, z)
      BY <1>1, <2>1 DEF Home, MainPos
    <2> QED
      BY <1>1, <1>2, <1>4, <2>1, <2>2 DEF FreeIndexRight
  <1>5. FreeIndexRight(s)
    BY <1>3, <1>4 DEF FreeIndexRight
  <1> QED
    BY <1>1, <1>5 DEF Grown, Good

LEMMA InsertedAtFreeIndex ==
  ASSUME NEW t, Good(t), t.freeIndex \in Cells(t), NEW s, NEW new, Inserted(t, s, new, t.freeIndex)
  PROVE  Grown(t, Advanced(s), new)
  <1> DEFINE x == t.freeIndex
  <1>1. /\ IsTable(s) /\ s.capacity = t.capacity /\ s.freeIndex = t.freeIndex
        /\ Entries(s) /\ (\E e : Linked(s, e)) /\ Gains(t, s, new)
        /\ \A z \in Cells(t) : t.ent[z].key = None /\ z # x => s.ent[z] = t.ent[z]
        /\ \A z \in Cells(t) : s.ent[z].key = None => (z # x /\ t.ent[z].key = None) \/ Home(s, z) = z
    BY DEF Inserted
  <1>2. IsTable(t) /\ FreeIndexRight(t) /\ Cells(s) = Cells(t) /\ Cells(t) \subseteq Nat
    BY <1>1, TableFacts DEF Good, Cells
  <1>3. ASSUME NEW z \in Cells(s), s.ent[z].key = None, Home(s, z) # z
        PROVE  z > s.freeIndex
    <2>1. z # x /\ t.ent[z].key = None /\ s.ent[z] = t.ent[z]
      BY <1>1, <1>2, <1>3
    <2>2. Home(t, z) = Home(s, z)
      BY <1>1, <2>1 DEF Home, MainPos
    <2>3. z >= x
      BY <1>1, <1>2, <1>3, <2>1, <2>2 DEF FreeIndexRight
    <2> QED
      BY <1>1, <1>2, <2>1, <2>3
  <1>4. /\ IsTable(Advanced(s)) /\ Advanced(s).ent = s.ent /\ Advanced(s).capacity = s.capacity
        /\ FreeIndexRight(Advanced(s))
    BY <1>1, <1>2, <1>3, AdvanceFacts
  <1>5. PICK a : a = Advanced(s)
    OBVIOUS
  <1>6. a.ent = s.ent /\ a.capacity = s.capacity /\ IsTable(a) /\ FreeIndexRight(a)
    BY <1>4, <1>5
  <1>7. Entries(a) /\ (\E e : Linked(a, e)) /\ \A k, v : Has(a, k, v) <=> Has(s, k, v)
    BY <1>1, <1>6, SameEntries
  <1>8. Gains(t, a, new)
    BY <1>1, <1>7 DEF Gains
  <1>9. Grown(t, a, new)
    BY <1>1, <1>6, <1>7, <1>8 DEF Grown, Good
  <1> QED
    BY <1>5, <1>9

\* Copying an entry into a table
LEMMA RehashedKeeps ==
  ASSUME NEW t, Good(t), NEW new, Fits(t, new), NEW pos, pos = MainPos(t, new.hash),
         t.ent[pos].key # None => t.freeIndex # INVALID,
         new.key = None => \A z \in Used(t) : Home(t, z) # pos
  PROVE  Grown(t, Rehashed(t, new), new)
  <1>1. PICK d : Linked(t, d)
    BY DEF Good
  <1>2. IsTable(t) /\ Entries(t) /\ FreeIndexRight(t)
    BY DEF Good
  <1>3. new \in EntryRecord /\ new.hash \in Nat /\ pos \in Cells(t)
    BY <1>2, TableFacts DEF Fits, EntryRecord
  <1>4. CASE t.ent[pos].key = None
    <2>1. PICK put : put = [t EXCEPT !.ent[pos] = Copied(@, new)]
      OBVIOUS
    <2>2. Inserted(t, put, new, pos)
      BY <1>1, <1>2, <1>4, <2>1, PutInserts
    <2>3. CASE pos # t.freeIndex
      <3>1. Rehashed(t, new) = put
        BY <1>4, <2>1, <2>3 DEF Rehashed
      <3> QED
        BY <1>3, <2>2, <2>3, <3>1, InsertedElsewhere
    <2>4. CASE pos = t.freeIndex
      <3>1. Rehashed(t, new) = Advanced(put)
        BY <1>4, <2>1, <2>4 DEF Rehashed
      <3>2. Inserted(t, put, new, t.freeIndex) /\ t.freeIndex \in Cells(t)
        BY <1>3, <2>2, <2>4
      <3> QED
        BY <3>1, <3>2, InsertedAtFreeIndex
    <2> QED
      BY <2>3, <2>4
  <1>5. CASE t.ent[pos].key # None
    <2>1. pos \in Used(t) /\ t.freeIndex \in Cells(t) /\ t.ent[t.freeIndex].key = None
      BY <1>2, <1>3, <1>5 DEF Used, IsTable, FreeIndexRight
    <2>2. CASE Home(t, pos) # pos
      <3>1. Rehashed(t, new) = Advanced(Evicted(t, pos, new))
        BY <1>5, <2>2 DEF Rehashed, Home
      <3>2. Inserted(t, Evicted(t, pos, new), new, t.freeIndex)
        BY <1>1, <1>2, <2>1, <2>2, EvictInserts
      <3> QED
        BY <2>1, <3>1, <3>2, InsertedAtFreeIndex
    <2>3. CASE Home(t, pos) = pos
      <3>1. Rehashed(t, new) = Advanced(Appended(t, pos, new))
        BY <1>5, <2>3 DEF Rehashed, Home
      <3>2. new.key # None
        BY <2>1, <2>3
      <3>3. Inserted(t, Appended(t, pos, new), new, t.freeIndex)
        BY <1>1, <1>2, <2>1, <2>3, <3>2, AppendInserts
      <3> QED
        BY <2>1, <3>1, <3>3, InsertedAtFreeIndex
    <2> QED
      BY <2>2, <2>3
  <1> QED
    BY <1>4, <1>5

-----------------------------------------------------------------------------
(* Doubling the table *)

\* The recursion of Realloc has a solution.
LEMMA ReallocEquation ==
  ASSUME NEW t, t.capacity \in Nat
  PROVE  \E g : /\ \A k \in 0 .. t.capacity :
                     g[k] = IF k = 0 THEN EmptyTable(2 * t.capacity) ELSE Rehashed(g[k - 1], t.ent[k - 1])
                /\ Realloc(t) = g[t.capacity]
  <1> DEFINE n == t.capacity
             start == EmptyTable(2 * t.capacity)
             After(x, k) == Rehashed(x, t.ent[k - 1])
             IsUpTo(g, m) == g = [k \in 0 .. m |-> IF k = 0 THEN start ELSE After(g[k - 1], k)]
             Without == {m \in 0 .. n : ~ \E g : IsUpTo(g, m)}
  <1> HIDE DEF After, start
  <1>1. Without = {}
    <2>1. SUFFICES ASSUME Without # {}
                   PROVE  FALSE
      OBVIOUS
    <2>2. Without \in SUBSET Nat
      OBVIOUS
    <2>3. PICK m \in Without : \A y \in Without : m <= y
      BY <2>1, <2>2, Least
    <2>4. m \in 0 .. n /\ ~ \E g : IsUpTo(g, m)
      BY <2>3
    <2>5. m # 0
      <3>1. IsUpTo([k \in 0 .. 0 |-> start], 0)
        OBVIOUS
      <3> QED
        BY <2>4, <3>1
    <2>6. m - 1 \in 0 .. n /\ m - 1 \notin Without
      BY <2>3, <2>4, <2>5
    <2>7. PICK g : IsUpTo(g, m - 1)
      BY <2>6
    <2> DEFINE h == [k \in 0 .. m |-> IF k = m THEN After(g[m - 1], m) ELSE g[k]]
    <2>8. ASSUME NEW k \in 0 .. m
          PROVE  h[k] = IF k = 0 THEN start ELSE After(h[k - 1], k)
      <3>1. CASE k = m
        <4>1. m - 1 \in 0 .. m /\ m - 1 # m
          BY <2>4, <2>5
        <4>2. h[m - 1] = g[m - 1] /\ h[m] = After(g[m - 1], m)
          BY <4>1, <3>1
        <4> QED
          BY <2>5, <3>1, <4>2
      <3>2. CASE k # m
        <4>1. k \in 0 .. m - 1 /\ (k # 0 => k - 1 \in 0 .. m /\ k - 1 # m)
          BY <2>4, <3>2
        <4>2. h[k] = g[k] /\ (k # 0 => h[k - 1] = g[k - 1])
          BY <3>2, <4>1
        <4>3. g[k] = IF k = 0 THEN start ELSE After(g[k - 1], k)
          BY <2>7, <4>1
        <4> QED
          BY Zenon, <4>2, <4>3
      <3> QED
        BY <3>1, <3>2
    <2>9. IsUpTo(h, m)
      <3>1. h = [k \in 0 .. m |-> h[k]]
        OBVIOUS
      <3> HIDE DEF h
      <3> QED
        BY <2>8, <3>1
    <2> QED
      BY <2>4, <2>9
  <1>2. n \in 0 .. n /\ n \notin Without
    BY <1>1
  <1>3. \E g : IsUpTo(g, n)
    BY <1>2
  <1>4. PICK g : g = CHOOSE f : IsUpTo(f, n)
    OBVIOUS
  <1>5. IsUpTo(g, n)
    BY Zenon, <1>3, <1>4
  <1>6. Realloc(t) = g[n]
    BY Zenon, <1>4 DEF Realloc, After, start
  <1>7. \A k \in 0 .. n : g[k] = IF k = 0 THEN start ELSE After(g[k - 1], k)
    BY <1>5
  <1> QED
    BY Zenon, <1>6, <1>7 DEF After, start

LEMMA EmptyIsGood ==
  ASSUME NEW n \in 2 .. MaxCapacity
  PROVE  /\ Good(EmptyTable(n)) /\ EmptyTable(n).capacity = n
         /\ \A z \in 0 .. n - 1 : EmptyTable(n).ent[z] = EmptyEntry
         /\ \A k, v : ~Has(EmptyTable(n), k, v)
  <1>1. PICK a : a = EmptyTable(n)
    OBVIOUS
  <1>2. MaxCapacity \in Nat /\ n \in Nat /\ INVALID \in Nat /\ 0 \in 0 .. n - 1
    BY HashTableAssumption DEF INVALID
  <1>3. EmptyEntry \in EntryRecord /\ EmptyEntry.key = None /\ EmptyEntry.next = INVALID /\ EmptyEntry.hash = 0
    BY <1>2 DEF EmptyEntry, EntryRecord
  <1>4. a.capacity = n /\ a.freeIndex = 0 /\ Cells(a) = 0 .. n - 1 /\ \A z \in 0 .. n - 1 : a.ent[z] = EmptyEntry
    BY <1>1 DEF EmptyTable, Cells
  <1>5. IsTable(a)
    <2>1. a \in [capacity : Nat, freeIndex : Nat, ent : [Cells(a) -> EntryRecord]]
      BY <1>1, <1>2, <1>3, <1>4 DEF EmptyTable
    <2> QED
      BY <1>2, <1>4, <2>1 DEF IsTable
  <1>6. Used(a) = {}
    BY <1>3, <1>4 DEF Used
  <1>7. Entries(a)
    BY <1>3, <1>4, <1>6 DEF Entries
  <1>8. FreeIndexRight(a)
    <2>1. a.ent[a.freeIndex].key = None
      BY <1>2, <1>3, <1>4
    <2>2. \A z \in Cells(a) : z >= a.freeIndex
      BY <1>4
    <2> QED
      BY <2>1, <2>2 DEF FreeIndexRight
  <1>9. \E d : Linked(a, d)
    <2>1. [z \in Cells(a) |-> 0] \in [Cells(a) -> Nat]
      OBVIOUS
    <2>2. \A d, h : LinkedAt(a, d, h)
      BY <1>6 DEF LinkedAt, Chain
    <2> QED
      BY <2>1, <2>2 DEF Linked
  <1>10. \A k, v : ~Has(a, k, v)
    BY <1>6 DEF Has
  <1>11. Good(a)
    BY <1>5, <1>7, <1>8, <1>9 DEF Good
  <1> QED
    BY <1>1, <1>4, <1>10, <1>11

\* a is the doubled table after the first n entries of t.
Copying(t, a, n) ==
    /\ Good(a) /\ a.capacity = 2 * t.capacity
    /\ \A k \in Keys : \A v : Has(a, k, v) <=> \E z \in Used(t) : z < n /\ t.ent[z].key = k /\ t.ent[z].data = v
    /\ \E X \in SUBSET Cells(a) : /\ IsFiniteSet(X) /\ Cardinality(X) <= n
                                  /\ \A z \in Cells(a) : z \notin X => a.ent[z] = EmptyEntry

\* There is room left.
LEMMA CopyingHasRoom ==
  ASSUME NEW t, IsTable(t), NEW a, NEW n \in 0 .. t.capacity, Copying(t, a, n)
  PROVE  a.freeIndex # INVALID /\ a.freeIndex \in Cells(a)
  <1>1. IsTable(a) /\ FreeIndexRight(a) /\ a.capacity = 2 * t.capacity
    BY DEF Copying, Good
  <1>2. PICK X \in SUBSET Cells(a) : /\ IsFiniteSet(X) /\ Cardinality(X) <= n
                                     /\ \A z \in Cells(a) : z \notin X => a.ent[z] = EmptyEntry
    BY DEF Copying
  <1>3. PICK c \in Nat : c = t.capacity /\ c >= 2 /\ a.capacity = 2 * c /\ n <= c
    BY <1>1, TableFacts, HashTableAssumption DEF IsTable
  <1> DEFINE Y == X \cup {0}
  <1>4. IsFiniteSet(Y) /\ Cardinality(Y) <= c + 1
    <2>1. IsFiniteSet(Y) /\ (Cardinality(Y) = Cardinality(X) \/ Cardinality(Y) = Cardinality(X) + 1)
      BY <1>2, FS_AddElement
    <2>2. Cardinality(X) \in Nat
      BY <1>2, FS_CardinalityType
    <2> QED
      BY <1>2, <1>3, <2>1, <2>2
  <1>5. IsFiniteSet(Cells(a)) /\ Cardinality(Cells(a)) = 2 * c
    <2>1. 0 \in Int /\ 2 * c - 1 \in Int /\ ~(0 > 2 * c - 1) /\ (2 * c - 1) - 0 + 1 = 2 * c
      BY <1>3
    <2> QED
      BY <1>3, <2>1, FS_Interval DEF Cells
  <1>6. ~(Cells(a) \subseteq Y)
    <2> HIDE DEF Y
    <2>1. SUFFICES ASSUME Cells(a) \subseteq Y PROVE FALSE
      OBVIOUS
    <2>2. Cardinality(Cells(a)) <= Cardinality(Y)
      BY <1>4, <2>1, FS_Subset
    <2>3. Cardinality(Y) \in Nat
      BY <1>4, FS_CardinalityType
    <2> QED
      BY <1>3, <1>4, <1>5, <2>2, <2>3
  <1>7. PICK z \in Cells(a) : z \notin X /\ z # 0
    BY <1>6
  <1>8. a.ent[z].key = None /\ a.ent[z].hash = 0
    BY <1>2, <1>7 DEF EmptyEntry
  <1>9. Home(a, z) = 0
    <2>1. PICK b \in Nat \ {0} : b = a.capacity
      BY <1>1, TableFacts
    <2>2. 0 % b = 0
      <3>1. (b * 0 + 0) % b = 0
        BY ModUnique
      <3> QED
        BY <3>1
    <2> QED
      BY <1>8, <2>1, <2>2 DEF Home, MainPos
  <1>10. z >= a.freeIndex
    BY <1>1, <1>7, <1>8, <1>9 DEF FreeIndexRight
  <1>11. z < INVALID /\ z \in Nat /\ INVALID \in Nat
    BY <1>1, <1>7, TableFacts
  <1> QED
    BY <1>1, <1>10, <1>11 DEF IsTable

\* One more entry is copied, a removed one without being linked to anything.
LEMMA CopyingStep ==
  ASSUME NEW t, Good(t), t.freeIndex = INVALID, NEW n \in Cells(t), NEW a, Copying(t, a, n)
  PROVE  Copying(t, Rehashed(a, t.ent[n]), n + 1)
  <1> DEFINE new == t.ent[n]
             pos == MainPos(a, new.hash)
  <1>1. IsTable(t) /\ Entries(t) /\ FreeIndexRight(t)
    BY DEF Good
  <1>2. PICK d : Linked(t, d)
    BY DEF Good
  <1>3. Good(a) /\ IsTable(a) /\ Entries(a) /\ a.capacity = 2 * t.capacity
    BY DEF Copying, Good
  <1>4. /\ \A z \in Cells(t) : z \in Nat /\ z < INVALID /\ t.ent[z] \in EntryRecord /\ t.ent[z].hash \in Nat
        /\ t.capacity \in Nat \ {0} /\ n \in Nat /\ INVALID \in Nat
    BY <1>1, TableFacts
  <1>5. \A k \in Keys : \A v : Has(a, k, v) <=> \E z \in Used(t) : z < n /\ t.ent[z].key = k /\ t.ent[z].data = v
    BY DEF Copying
  <1>6. ASSUME NEW z \in Used(a)
        PROVE  /\ a.ent[z].hash \in Nat
               /\ \E j \in Used(t) : j < n /\ t.ent[j].key = a.ent[z].key /\ t.ent[j].hash = a.ent[z].hash
    <2>1. z \in Cells(a) /\ a.ent[z].key # None /\ a.ent[z] \in EntryRecord
      BY <1>3, TableFacts DEF Used
    <2>2. a.ent[z].key \in Keys /\ a.ent[z].hash \in Nat
      BY <2>1 DEF EntryRecord
    <2>3. Has(a, a.ent[z].key, a.ent[z].data)
      BY DEF Has
    <2>4. PICK j \in Used(t) : j < n /\ t.ent[j].key = a.ent[z].key
      BY <1>5, <2>2, <2>3
    <2>5. t.ent[j].hash = a.ent[z].hash
      BY <1>1, <1>3, <2>4 DEF Entries
    <2> QED
      BY <2>2, <2>4, <2>5
  <1>7. Fits(a, new)
    <2>1. ASSUME new.key # None
          PROVE  /\ new.hash = HashOf[new.key] /\ new.data \in Values
                 /\ \A z \in Used(a) : a.ent[z].key # new.key
      <3>1. n \in Used(t)
        BY <2>1 DEF Used
      <3>2. ASSUME NEW z \in Used(a), a.ent[z].key = new.key
            PROVE  FALSE
        <4>1. PICK j \in Used(t) : j < n /\ t.ent[j].key = a.ent[z].key
          BY <1>6
        <4>2. j = n
          BY <1>1, <3>1, <3>2, <4>1 DEF Entries
        <4> QED
          BY <1>4, <4>1, <4>2
      <3> QED
        BY <1>1, <3>1, <3>2 DEF Entries
    <2> QED
      BY <1>4, <2>1 DEF Fits
  <1>8. a.ent[pos].key # None => a.freeIndex # INVALID
    <2>1. n \in 0 .. t.capacity
      BY <1>4 DEF Cells
    <2> QED
      BY <1>1, <2>1, CopyingHasRoom
  <1>9. ASSUME new.key = None, NEW z \in Used(a), Home(a, z) = pos
        PROVE  FALSE
    <2>1. Home(t, n) = n
      BY <1>1, <1>4, <1>9 DEF FreeIndexRight
    <2>2. PICK j \in Used(t) : j < n /\ t.ent[j].hash = a.ent[z].hash
      BY <1>6
    <2>3. PICK c \in Nat \ {0} : c = t.capacity
      BY <1>4
    <2>4. PICK x \in Nat : x = t.ent[j].hash
      BY <1>6, <2>2
    <2>5. PICK y \in Nat : y = new.hash
      BY <1>4
    <2>6. x % (2 * c) = y % (2 * c)
      BY <1>3, <1>9, <2>2, <2>3, <2>4, <2>5 DEF Home, MainPos
    <2>7. x % c = y % c
      BY <2>6, ModHalf
    <2>8. Home(t, j) = Home(t, n)
      BY <2>3, <2>4, <2>5, <2>7 DEF Home, MainPos
    <2>9. Home(t, j) \in Used(t)
      BY <1>1, <1>2, HomeUsed
    <2> QED
      BY <1>9, <2>1, <2>8, <2>9 DEF Used
  <1>10. PICK s : s = Rehashed(a, new)
    OBVIOUS
  <1> HIDE DEF new
  <1>11. Grown(a, s, new)
    <2>1. PICK q : q = pos
      OBVIOUS
    <2>2. q = MainPos(a, new.hash) /\ (a.ent[q].key # None => a.freeIndex # INVALID)
      BY <1>8, <2>1
    <2>3. new.key = None => \A z \in Used(a) : Home(a, z) # q
      BY <1>9, <2>1
    <2>4. Grown(a, Rehashed(a, new), new)
      BY <1>3, <1>7, <2>2, <2>3, RehashedKeeps
    <2> QED
      BY <1>10, <2>4
  <1>12. Good(s) /\ s.capacity = 2 * t.capacity /\ Cells(s) = Cells(a)
    BY <1>3, <1>11 DEF Grown, Cells
  <1>13. ASSUME NEW k \in Keys, NEW v
         PROVE  Has(s, k, v) <=> \E z \in Used(t) : z < n + 1 /\ t.ent[z].key = k /\ t.ent[z].data = v
    <2>1. Has(s, k, v) <=> Has(a, k, v) \/ (k = new.key /\ v = new.data)
      BY <1>11 DEF Grown, Gains
    <2>2. Has(a, k, v) <=> \E z \in Used(t) : z < n /\ t.ent[z].key = k /\ t.ent[z].data = v
      BY <1>5
    <2>3. \A z \in Used(t) : z < n + 1 <=> z < n \/ z = n
      BY <1>4 DEF Used
    <2>4. k # None
      BY HashTableAssumption
    <2>5. k = new.key => n \in Used(t)
      BY <2>4 DEF Used, new
    <2>6. k = new.key /\ v = new.data <=> n \in Used(t) /\ t.ent[n].key = k /\ t.ent[n].data = v
      BY <2>5 DEF new
    <2> QED
      BY <2>1, <2>2, <2>3, <2>6
  <1>14. \E X \in SUBSET Cells(s) : /\ IsFiniteSet(X) /\ Cardinality(X) <= n + 1
                                    /\ \A z \in Cells(s) : z \notin X => s.ent[z] = EmptyEntry
    <2>1. PICK X \in SUBSET Cells(a) : /\ IsFiniteSet(X) /\ Cardinality(X) <= n
                                       /\ \A z \in Cells(a) : z \notin X => a.ent[z] = EmptyEntry
      BY DEF Copying
    <2>2. PICK x \in Cells(a) : \A z \in Cells(a) : a.ent[z].key = None /\ z # x => s.ent[z] = a.ent[z]
      BY <1>11 DEF Grown
    <2>3. IsFiniteSet(X \cup {x}) /\ (Cardinality(X \cup {x}) = Cardinality(X) \/ Cardinality(X \cup {x}) = Cardinality(X) + 1)
      BY <2>1, FS_AddElement
    <2>4. Cardinality(X) \in Nat
      BY <2>1, FS_CardinalityType
    <2>5. Cardinality(X \cup {x}) <= n + 1
      BY <1>4, <2>1, <2>3, <2>4
    <2>6. ASSUME NEW z \in Cells(a), z \notin X \cup {x}
          PROVE  s.ent[z] = EmptyEntry
      <3>1. a.ent[z] = EmptyEntry /\ EmptyEntry.key = None
        BY <2>1, <2>6 DEF EmptyEntry
      <3> QED
        BY <2>2, <2>6, <3>1
    <2>7. X \cup {x} \in SUBSET Cells(s)
      BY <1>12, <2>1, <2>2
    <2> QED
      BY <1>12, <2>3, <2>5, <2>6, <2>7
  <1>15. Copying(t, s, n + 1)
    BY <1>12, <1>13, <1>14 DEF Copying
  <1> QED
    BY <1>10, <1>15 DEF new

\* hash_table_realloc keeps what the table has and leaves room for more.
LEMMA ReallocKeeps ==
  ASSUME NEW t, Good(t), t.freeIndex = INVALID, 2 * t.capacity <= MaxCapacity
  PROVE  /\ Good(Realloc(t)) /\ Realloc(t).freeIndex # INVALID
         /\ \A k \in Keys : \A v : Has(Realloc(t), k, v) <=> Has(t, k, v)
  <1>1. IsTable(t) /\ t.capacity \in Nat /\ t.capacity >= 2
    BY TableFacts DEF Good, IsTable
  <1>2. PICK c \in Nat : c = t.capacity /\ c >= 2
    BY <1>1
  <1>3. PICK g : /\ \A k \in 0 .. c : g[k] = IF k = 0 THEN EmptyTable(2 * c) ELSE Rehashed(g[k - 1], t.ent[k - 1])
                 /\ Realloc(t) = g[c]
    BY <1>2, ReallocEquation
  <1>4. Copying(t, g[0], 0)
    <2>1. 2 * c \in 2 .. MaxCapacity
      BY <1>2, HashTableAssumption
    <2>2. /\ Good(EmptyTable(2 * c)) /\ EmptyTable(2 * c).capacity = 2 * c
          /\ \A z \in 0 .. 2 * c - 1 : EmptyTable(2 * c).ent[z] = EmptyEntry
          /\ \A k, v : ~Has(EmptyTable(2 * c), k, v)
      BY <2>1, EmptyIsGood
    <2>3. g[0] = EmptyTable(2 * c)
      BY <1>2, <1>3
    <2>4. Cells(g[0]) = 0 .. 2 * c - 1
      BY <2>2, <2>3 DEF Cells
    <2>5. \A z \in Used(t) : ~(z < 0)
      BY <1>1, TableFacts DEF Used
    <2>6. {} \in SUBSET Cells(g[0]) /\ IsFiniteSet({}) /\ Cardinality({}) <= 0
      BY FS_EmptySet
    <2>7. \A z \in Cells(g[0]) : z \notin {} => g[0].ent[z] = EmptyEntry
      BY <2>2, <2>3, <2>4
    <2> QED
      BY <1>2, <2>2, <2>3, <2>5, <2>6, <2>7 DEF Copying
  <1>5. \A n \in 0 .. c : Copying(t, g[n], n)
    <2> DEFINE Bad == {n \in 0 .. c : ~Copying(t, g[n], n)}
    <2>1. SUFFICES ASSUME Bad # {} PROVE FALSE
      OBVIOUS
    <2>2. PICK m \in Bad : \A y \in Bad : m <= y
      <3>1. Bad \in SUBSET Nat
        BY <1>2
      <3> QED
        BY <2>1, <3>1, Least
    <2>3. m \in 0 .. c /\ m # 0 /\ ~Copying(t, g[m], m)
      BY <1>4, <2>2
    <2>4. m - 1 \in 0 .. c /\ m - 1 \notin Bad /\ m - 1 \in Cells(t) /\ (m - 1) + 1 = m
      BY <1>2, <2>2, <2>3 DEF Cells
    <2>5. Copying(t, g[m - 1], m - 1)
      BY <2>4
    <2>6. PICK n \in Cells(t) : n = m - 1
      BY <2>4
    <2>7. PICK a : a = g[m - 1]
      OBVIOUS
    <2>8. Copying(t, Rehashed(a, t.ent[n]), n + 1)
      BY <2>5, <2>6, <2>7, CopyingStep
    <2>9. g[m] = Rehashed(a, t.ent[n])
      BY <1>3, <2>3, <2>6, <2>7
    <2> QED
      BY <2>3, <2>4, <2>6, <2>8, <2>9
  <1>6. PICK a : a = Realloc(t)
    OBVIOUS
  <1>7. Copying(t, a, c) /\ c \in 0 .. t.capacity
    BY <1>2, <1>3, <1>5, <1>6
  <1>8. Good(a) /\ a.freeIndex # INVALID
    BY <1>1, <1>7, CopyingHasRoom DEF Copying
  <1>9. ASSUME NEW k \in Keys, NEW v
        PROVE  Has(a, k, v) <=> Has(t, k, v)
    <2>1. \A z \in Used(t) : z < c
      BY <1>2 DEF Used, Cells
    <2> QED
      BY <1>7, <2>1 DEF Copying, Has
  <1> QED
    BY <1>6, <1>8, <1>9

-----------------------------------------------------------------------------
(* hash_table_set_by_cstr *)

NewEntry(k, v) == [key |-> k, hash |-> CalcHash(k), next |-> INVALID, data |-> v]

\* A key that is there stays as it is, one that is not is added.
LEMMA PlacedFacts ==
  ASSUME NEW t, Good(t), NEW k \in Keys, NEW v \in Values,
         t.ent[MainPos(t, CalcHash(k))].key # None => t.freeIndex # INVALID
  PROVE  /\ (\E w : Has(t, k, w)) => Placed(t, k, NewEntry(k, v)) = t
         /\ (\A w : ~Has(t, k, w)) => Grown(t, Placed(t, k, NewEntry(k, v)), NewEntry(k, v))
  <1>1. PICK new : new = NewEntry(k, v)
    OBVIOUS
  <1>2. k # None /\ HashOf[k] \in Nat /\ INVALID \in Nat
    BY HashTableAssumption DEF INVALID
  <1>3. new \in EntryRecord /\ new.key = k /\ new.hash = CalcHash(k) /\ new.data = v /\ CalcHash(k) = HashOf[k]
    BY <1>1, <1>2 DEF NewEntry, EntryRecord, CalcHash
  <1> DEFINE pos == MainPos(t, new.hash)
  <1>4. IsTable(t)
    BY DEF Good
  <1>5. pos \in Cells(t)
    BY <1>2, <1>3, <1>4, TableFacts
  <1>6. Entered(t, k) <=> t.ent[pos].key # None /\ MainPos(t, t.ent[pos].hash) = pos
    BY <1>3 DEF Entered
  <1>7. ASSUME \E w : Has(t, k, w)
        PROVE  Placed(t, k, new) = t
    <2>1. PICK z \in Used(t) : t.ent[z].key = k
      BY <1>7 DEF Has
    <2>2. Entered(t, k) /\ Finds(t, k) = {z}
      BY <2>1, LookupFacts
    <2> QED
      BY <1>6, <2>2 DEF Placed
  <1>8. ASSUME \A w : ~Has(t, k, w)
        PROVE  Grown(t, Placed(t, k, new), new)
    <2>1. \A z \in Used(t) : t.ent[z].key # k
      BY <1>8 DEF Has
    <2>2. Entered(t, k) => Finds(t, k) = {}
      BY <2>1, LookupFacts
    <2>3. Placed(t, k, new) = Rehashed(t, new)
      <3>1. CASE t.ent[pos].key = None
        BY <3>1 DEF Placed, Rehashed
      <3>2. CASE t.ent[pos].key # None /\ MainPos(t, t.ent[pos].hash) # pos
        BY <3>2 DEF Placed, Rehashed
      <3>3. CASE t.ent[pos].key # None /\ MainPos(t, t.ent[pos].hash) = pos
        <4>1. Finds(t, k) = {}
          BY <1>6, <2>2, <3>3
        <4> QED
          BY <3>3, <4>1 DEF Placed, Rehashed
      <3> QED
        BY <3>1, <3>2, <3>3
    <2>4. Fits(t, new)
      BY <1>3, <2>1 DEF Fits
    <2>5. PICK q : q = pos
      OBVIOUS
    <2>6. q = MainPos(t, new.hash) /\ (t.ent[q].key # None => t.freeIndex # INVALID) /\ new.key # None
      BY <1>2, <1>3, <2>5
    <2>7. Grown(t, Rehashed(t, new), new)
      BY <2>4, <2>6, RehashedKeeps
    <2> QED
      BY <2>3, <2>7
  <1> QED
    BY <1>1, <1>7, <1>8

\* hash_table_set_by_cstr, with the table it leaves and what it returns
LEMMA SetFacts ==
  ASSUME Good(tbl), NEW k \in Keys, NEW v \in Values, Set(k, v)
  PROVE  /\ Good(tbl')
         /\ (\E w : Has(tbl, k, w)) =>
              result' = FALSE /\ \A x \in Keys : \A w : Has(tbl', x, w) <=> Has(tbl, x, w)
         /\ (\A w : ~Has(tbl, k, w)) =>
              result' = TRUE /\ \A x \in Keys : \A w : Has(tbl', x, w) <=> Has(tbl, x, w) \/ (x = k /\ w = v)
  <1>1. PICK t : t = IF MustGrow(tbl, k) THEN Realloc(tbl) ELSE tbl
    OBVIOUS
  <1>2. PICK s : s = Placed(t, k, NewEntry(k, v))
    OBVIOUS
  <1>3. tbl' = s /\ result' = (s # t) /\ (MustGrow(tbl, k) => 2 * tbl.capacity <= MaxCapacity)
    BY <1>1, <1>2 DEF Set, NewEntry
  <1>4. /\ Good(t) /\ (\A x \in Keys : \A w : Has(t, x, w) <=> Has(tbl, x, w))
        /\ t.ent[MainPos(t, CalcHash(k))].key # None => t.freeIndex # INVALID
    <2>1. CASE MustGrow(tbl, k)
      <3>1. tbl.freeIndex = INVALID /\ 2 * tbl.capacity <= MaxCapacity /\ t = Realloc(tbl)
        BY <1>1, <1>3, <2>1 DEF MustGrow
      <3>2. /\ Good(Realloc(tbl)) /\ Realloc(tbl).freeIndex # INVALID
            /\ \A x \in Keys : \A w : Has(Realloc(tbl), x, w) <=> Has(tbl, x, w)
        BY <3>1, ReallocKeeps
      <3> QED
        BY <3>1, <3>2
    <2>2. CASE ~MustGrow(tbl, k)
      BY <1>1, <2>2 DEF MustGrow
    <2> QED
      BY <2>1, <2>2
  <1>5. CASE \E w : Has(tbl, k, w)
    <2>1. \E w : Has(t, k, w)
      BY <1>4, <1>5
    <2>2. s = t
      BY <1>2, <1>4, <2>1, PlacedFacts
    <2> QED
      BY <1>3, <1>4, <1>5, <2>2
  <1>6. CASE \A w : ~Has(tbl, k, w)
    <2>1. \A w : ~Has(t, k, w)
      BY <1>4, <1>6
    <2>2. PICK new : new = NewEntry(k, v)
      OBVIOUS
    <2>3. Grown(t, s, new)
      BY <1>2, <1>4, <2>1, <2>2, PlacedFacts
    <2>4. new.key = k /\ new.data = v
      BY <2>2 DEF NewEntry
    <2>5. Good(s) /\ \A x \in Keys : \A w : Has(s, x, w) <=> Has(t, x, w) \/ (x = k /\ w = v)
      BY <2>3, <2>4 DEF Grown, Gains
    <2>6. s # t
      BY <2>1, <2>5
    <2> QED
      BY <1>3, <1>4, <1>6, <2>5, <2>6
  <1> QED
    BY <1>5, <1>6

-----------------------------------------------------------------------------
(* hash_table_remove_by_cstr *)

\* What is lost when q leaves the chain at p: its item, or that of p when q's is put there.
LostAt(t, s, p, q, x) ==
    \/ x = q /\ SameItem(s.ent[p], t.ent[p])
    \/ x = p /\ SameItem(s.ent[p], t.ent[q])

\* Entry q is cut out of the chain at h, behind p.
IsCut(t, s, h, p, q, x) ==
    /\ p \in Chain(t, h) /\ q \in Chain(t, h) /\ t.ent[p].next = q
    /\ s.capacity = t.capacity /\ s.ent[q].key = None /\ s.ent[q].next = INVALID
    /\ s.ent[p].next = t.ent[q].next /\ LostAt(t, s, p, q, x)
    /\ \A z \in Cells(t) : z # p /\ z # q => s.ent[z] = t.ent[z]

\* s has what t has but for the item of entry x.
HasRest(t, s, x) ==
    \A k, v : Has(s, k, v) <=> \E j \in Used(t) : j # x /\ t.ent[j].key = k /\ t.ent[j].data = v

LEMMA CutKeeps ==
  ASSUME NEW t, NEW d, IsTable(t), Entries(t), Linked(t, d), NEW h \in Cells(t), NEW s, NEW p, NEW q, NEW x,
         IsCut(t, s, h, p, q, x)
  PROVE  Entries(s) /\ HasRest(t, s, x) /\ \E e : Linked(s, e)
  <1>0. /\ p \in Chain(t, h) /\ q \in Chain(t, h) /\ t.ent[p].next = q
        /\ s.capacity = t.capacity /\ s.ent[q].key = None /\ s.ent[q].next = INVALID
        /\ s.ent[p].next = t.ent[q].next /\ LostAt(t, s, p, q, x)
        /\ \A z \in Cells(t) : z # p /\ z # q => s.ent[z] = t.ent[z]
    BY DEF IsCut
  <1> USE <1>0
  <1> DEFINE C == Chain(t, h)
  <1>1. Cells(s) = Cells(t) /\ \A z : Home(s, z) = MainPos(t, s.ent[z].hash)
    BY DEF Cells, Home, MainPos
  <1>2. C \subseteq Used(t) /\ C \subseteq Cells(t) /\ INVALID \notin C /\ p \in C /\ q \in C
    BY TableFacts DEF Chain, Used
  <1>3. h \in C /\ (\A j \in C : d[h] <= d[j]) /\ IsChain(NextOf(t), C, d) /\ \A j \in C : d[j] \in Nat
    BY <1>2 DEF Linked, LinkedAt
  <1>4. \A z \in Cells(t) : NextOf(s)[z] = s.ent[z].next /\ NextOf(t)[z] = t.ent[z].next
    BY <1>1 DEF NextOf
  <1>5. d[q] > d[p]
    <2>1. NextOf(t)[p] = q /\ Follows(NextOf(t), C, d, p)
      BY <1>2, <1>3, <1>4 DEF IsChain
    <2> QED
      BY <1>2, <2>1 DEF Follows
  <1>6. p # q /\ q # h /\ p \in Cells(t) /\ q \in Cells(t)
    BY <1>2, <1>3, <1>5
  <1>7. p \in Used(s) /\ q \notin Used(s) /\ Home(s, p) = h
    <2>1. t.ent[p].key # None /\ t.ent[q].key # None /\ Home(t, p) = h /\ Home(t, q) = h
      BY DEF Chain, Used
    <2> QED
      BY <1>1, <1>6, <2>1 DEF Used, SameItem, Home, LostAt
  <1>8. \A z \in Cells(t) : z # p /\ z # q => (z \in Used(s) <=> z \in Used(t)) /\ Home(s, z) = Home(t, z)
    BY <1>1 DEF Used, Home
  <1> DEFINE g == [z \in Used(s) |-> IF z = p /\ x = p THEN q ELSE z]
  <1>9. Transfers(t, s, g, {x})
    <2>1. ASSUME NEW z \in Used(s)
          PROVE  g[z] \in Used(t) \ {x} /\ SameItem(s.ent[z], t.ent[g[z]])
      <3>1. CASE z = p
        BY <1>2, <1>6, <3>1 DEF LostAt
      <3>2. CASE z # p
        <4>1. z # q /\ z \in Cells(t)
          BY <1>1, <1>7 DEF Used
        <4>2. g[z] = z /\ z \in Used(t) /\ s.ent[z] = t.ent[z] /\ z # x
          BY <1>8, <3>2, <4>1 DEF LostAt
        <4> QED
          BY <4>2 DEF SameItem
      <3> QED
        BY <3>1, <3>2
    <2>2. \A z, j \in Used(s) : g[z] = g[j] => z = j
      BY <1>7
    <2>3. ASSUME NEW j \in Used(t) \ {x}
          PROVE  \E z \in Used(s) : g[z] = j
      <3>1. CASE j = q \/ j = p
        BY <1>6, <1>7, <3>1 DEF LostAt
      <3>2. CASE j # q /\ j # p
        <4>1. j \in Used(s) /\ g[j] = j
          BY <1>8, <3>2 DEF Used
        <4> QED
          BY <4>1
      <3> QED
        BY <3>1, <3>2
    <2> HIDE DEF g
    <2> QED
      BY <2>1, <2>2, <2>3 DEF Transfers
  <1> HIDE DEF g
  <1>10. \A z \in Cells(t) : s.ent[z].key = None => s.ent[z].next = INVALID
    <2> TAKE z \in Cells(t)
    <2>1. CASE z = p
      BY <1>7, <2>1 DEF Used
    <2>2. CASE z # p
      BY <2>2 DEF Entries
    <2> QED
      BY <2>1, <2>2
  <1>11. Entries(s) /\ \A k, v : Has(s, k, v) <=> \E j \in Used(t) : j # x /\ t.ent[j].key = k /\ t.ent[j].data = v
    <2>1. PICK X : X = {x}
      OBVIOUS
    <2>2. Transfers(t, s, g, X)
      BY <1>9, <2>1
    <2>3. Entries(s) /\ \A k, v : Has(s, k, v) <=> \E j \in Used(t) \ X : t.ent[j].key = k /\ t.ent[j].data = v
      BY <1>10, <2>2, TransferKeeps
    <2> QED
      BY <2>1, <2>3
  <1>12. ASSUME NEW y \in Cells(t), y # h
         PROVE  LinkedAt(s, d, y)
    <2>1. p \notin Chain(t, y) /\ q \notin Chain(t, y) /\ Chain(t, y) \subseteq Cells(t)
      BY <1>12 DEF Chain, Used
    <2>2. Chain(s, y) = Chain(t, y)
      <3>1. ASSUME NEW z \in Cells(t)
            PROVE  z \in Chain(s, y) <=> z \in Chain(t, y)
        BY <1>7, <1>8, <1>12, <2>1 DEF Chain
      <3> QED
        BY <1>1, <3>1 DEF Chain, Used
    <2>3. \A z \in Chain(t, y) : s.ent[z].next = t.ent[z].next /\ d[z] = d[z]
      BY <2>1
    <2>4. LinkedAt(t, d, y)
      BY DEF Linked
    <2> QED
      BY Zenon, <2>2, <2>3, <2>4, LinkedAtSame
  <1>13. LinkedAt(s, d, h)
    <2> DEFINE D == Chain(s, h)
    <2>1. \A z : z \in D <=> z \in C /\ z # q
      <3>1. ASSUME NEW z \in Cells(t)
            PROVE  z \in D <=> z \in C /\ z # q
        BY <1>2, <1>7, <1>8 DEF Chain
      <3> QED
        BY <1>1, <1>2, <3>1 DEF Chain, Used
    <2>2. PICK nx, ny : nx = NextOf(t) /\ ny = NextOf(s)
      OBVIOUS
    <2>3. /\ IsChain(nx, C, d) /\ nx[p] = q /\ ny[p] = nx[q]
          /\ \A z \in C : z # p /\ z # q => ny[z] = nx[z]
      BY <1>2, <1>3, <1>4, <1>6, <2>2
    <2> HIDE DEF C, D
    <2>4. IsChain(ny, D, d)
      BY <1>2, <2>1, <2>3, ChainCut
    <2>5. h \in D /\ \A j \in D : d[h] <= d[j]
      BY <1>3, <1>6, <2>1
    <2> QED
      BY <2>2, <2>4, <2>5 DEF LinkedAt, D
  <1>14. Linked(s, d)
    BY <1>1, <1>12, <1>13 DEF Linked
  <1> QED
    BY <1>11, <1>14 DEF HasRest

LEMMA FreedFacts ==
  ASSUME NEW t, IsTable(t), NEW z \in Cells(t)
  PROVE  /\ IsTable(FreedAt(t, z)) /\ FreedAt(t, z).capacity = t.capacity
         /\ FreedAt(t, z).freeIndex = IF t.freeIndex > z THEN z ELSE t.freeIndex
         /\ FreedAt(t, z).ent[z].key = None /\ FreedAt(t, z).ent[z].next = INVALID
         /\ \A j \in Cells(t) : j # z => FreedAt(t, z).ent[j] = t.ent[j]
  <1>1. /\ t.ent \in [Cells(t) -> EntryRecord] /\ t.ent[z] \in EntryRecord /\ z \in Nat /\ INVALID \in Nat
        /\ t.freeIndex \in Nat /\ t.freeIndex \in Cells(t) \cup {INVALID} /\ t.capacity \in Nat
    BY TableFacts DEF IsTable
  <1> DEFINE e == [t.ent[z] EXCEPT !.key = None, !.next = INVALID]
             f == IF t.freeIndex > z THEN z ELSE t.freeIndex
  <1>2. e \in EntryRecord /\ e.key = None /\ e.next = INVALID
    BY <1>1 DEF EntryRecord
  <1>3. f \in Nat /\ f \in Cells(t) \cup {INVALID}
    BY <1>1
  <1>4. PICK en : en = [t.ent EXCEPT ![z] = e]
    OBVIOUS
  <1>5. FreedAt(t, z) = [capacity |-> t.capacity, freeIndex |-> f, ent |-> en]
    <2>1. PICK a : a = [t EXCEPT !.ent[z].key = None]
      OBVIOUS
    <2>2. a = [t EXCEPT !.ent = [t.ent EXCEPT ![z] = [t.ent[z] EXCEPT !.key = None]]]
      BY <2>1 DEF IsTable
    <2>3. PICK b : b = [a EXCEPT !.ent[z].next = INVALID]
      OBVIOUS
    <2>4. b = [t EXCEPT !.ent = en]
      BY <1>1, <1>4, <2>2, <2>3 DEF IsTable
    <2>5. FreedAt(t, z) = [b EXCEPT !.freeIndex = f]
      BY <2>1, <2>3 DEF FreedAt
    <2> HIDE DEF f
    <2> QED
      BY <2>4, <2>5 DEF IsTable
  <1> HIDE DEF e, f
  <1>6. en \in [Cells(t) -> EntryRecord] /\ en[z] = e /\ \A j \in Cells(t) : j # z => en[j] = t.ent[j]
    BY <1>1, <1>2, <1>4
  <1>7. PICK s : s = FreedAt(t, z)
    OBVIOUS
  <1>8. s.capacity = t.capacity /\ s.freeIndex = f /\ s.ent = en
    BY <1>5, <1>7
  <1>9. Cells(s) = Cells(t)
    BY <1>8 DEF Cells
  <1>10. IsTable(s)
    <2>1. s \in [capacity : Nat, freeIndex : Nat, ent : [Cells(s) -> EntryRecord]]
      BY <1>1, <1>3, <1>5, <1>6, <1>7, <1>9
    <2> QED
      BY <1>3, <1>8, <1>9, <2>1 DEF IsTable
  <1> QED
    BY <1>2, <1>6, <1>7, <1>8, <1>10 DEF f

\* The free index is told of the entry that is freed.
LEMMA FreeIndexTold ==
  ASSUME NEW t, IsTable(t), FreeIndexRight(t), NEW s, s.capacity = t.capacity,
         NEW z \in Cells(t), s.ent[z].key = None,
         s.freeIndex = IF t.freeIndex > z THEN z ELSE t.freeIndex,
         \A j \in Cells(t) : j # z /\ (t.ent[j].key = None \/ s.ent[j].key = None) => s.ent[j] = t.ent[j]
  PROVE  FreeIndexRight(s)
  <1>1. Cells(s) = Cells(t) /\ Cells(t) \subseteq Nat /\ INVALID \in Nat /\ t.freeIndex \in Cells(t) \cup {INVALID}
    BY TableFacts DEF Cells, IsTable
  <1>2. s.freeIndex # INVALID => s.ent[s.freeIndex].key = None
    <2>1. CASE s.freeIndex = z
      BY <2>1
    <2>2. CASE s.freeIndex # z
      BY <1>1, <2>2 DEF FreeIndexRight
    <2> QED
      BY <2>1, <2>2
  <1>3. ASSUME NEW j \in Cells(s), s.ent[j].key = None, Home(s, j) # j
        PROVE  j >= s.freeIndex
    <2>1. CASE j = z
      BY <1>1, <2>1
    <2>2. CASE j # z
      <3>1. s.ent[j] = t.ent[j] /\ t.ent[j].key = None
        BY <1>1, <1>3, <2>2
      <3>2. Home(t, j) # j
        BY <1>3, <3>1 DEF Home, MainPos
      <3>3. j >= t.freeIndex
        BY <1>1, <3>1, <3>2 DEF FreeIndexRight
      <3> QED
        BY <1>1, <3>3
    <2> QED
      BY <2>1, <2>2
  <1> QED
    BY <1>2, <1>3 DEF FreeIndexRight

\* s is t without the item of entry x.
Loses(t, s, x) == Good(s) /\ HasRest(t, s, x)

LEMMA UnlinkedLoses ==
  ASSUME NEW t, Good(t), NEW h \in Cells(t), NEW z \in Chain(t, h), z # h
  PROVE  Loses(t, Unlinked(t, h, z), z)
  <1>1. PICK d : Linked(t, d)
    BY DEF Good
  <1>2. IsTable(t) /\ Entries(t) /\ FreeIndexRight(t)
    BY DEF Good
  <1>3. OnChain(t, h) = Chain(t, h) /\ \E q \in Chain(t, h) : NextOf(t)[q] = z
    BY <1>1, <1>2, HeadWalk
  <1>4. Chain(t, h) \subseteq Used(t) /\ Used(t) \subseteq Cells(t)
    BY DEF Chain, Used
  <1> DEFINE p == LinksTo(t, h, z)
  <1>5. p \in Chain(t, h) /\ t.ent[p].next = z
    <2>1. \E q \in OnChain(t, h) : t.ent[q].next = z
      BY <1>3, <1>4 DEF NextOf
    <2> QED
      BY <1>3, <2>1 DEF LinksTo
  <1>6. p \in Used(t) /\ p \in Cells(t) /\ z \in Used(t) /\ z \in Cells(t)
    BY <1>4, <1>5
  <1>7. p # z
    <2>1. IsChain(NextOf(t), Chain(t, h), d)
      BY <1>1 DEF Linked, LinkedAt
    <2>2. Follows(NextOf(t), Chain(t, h), d, p) /\ d[p] \in Nat
      BY <1>5, <2>1 DEF IsChain
    <2>3. NextOf(t)[p] = z
      BY <1>5, <1>6 DEF NextOf
    <2>4. z # INVALID
      BY <1>2, <1>6, TableFacts
    <2> QED
      BY <2>2, <2>3, <2>4 DEF Follows
  <1>8. /\ t.ent \in [Cells(t) -> EntryRecord] /\ t.ent[p] \in EntryRecord /\ t.ent[z] \in EntryRecord
    BY <1>2, <1>6, TableFacts
  <1> DEFINE ep == [t.ent[p] EXCEPT !.next = t.ent[z].next]
  <1>9. ep \in EntryRecord /\ SameItem(ep, t.ent[p]) /\ ep.next = t.ent[z].next
    BY <1>8 DEF EntryRecord, SameItem
  <1>10. PICK en : en = [t.ent EXCEPT ![p] = ep]
    OBVIOUS
  <1>11. Unlinked(t, h, z) = FreedAt(WithEntries(t, en), z)
    BY <1>2, <1>10 DEF Unlinked, WithEntries, IsTable
  <1> HIDE DEF ep, p
  <1>12. en \in [Cells(t) -> EntryRecord] /\ en[p] = ep /\ \A j \in Cells(t) : j # p => en[j] = t.ent[j]
    BY <1>6, <1>8, <1>9, <1>10
  <1>13. PICK u : u = WithEntries(t, en)
    OBVIOUS
  <1>14. IsTable(u) /\ u.ent = en /\ u.capacity = t.capacity /\ u.freeIndex = t.freeIndex /\ Cells(u) = Cells(t)
    BY <1>2, <1>12, <1>13, TableOf DEF Cells
  <1>15. PICK s : s = FreedAt(u, z)
    OBVIOUS
  <1>16. /\ IsTable(s) /\ s.capacity = t.capacity /\ s.freeIndex = IF t.freeIndex > z THEN z ELSE t.freeIndex
         /\ s.ent[z].key = None /\ s.ent[z].next = INVALID /\ \A j \in Cells(t) : j # z => s.ent[j] = u.ent[j]
    BY <1>6, <1>14, <1>15, FreedFacts
  <1>17. /\ s.ent[p].next = t.ent[z].next /\ SameItem(s.ent[p], t.ent[p])
         /\ \A j \in Cells(t) : j # p /\ j # z => s.ent[j] = t.ent[j]
    BY <1>6, <1>7, <1>9, <1>12, <1>14, <1>16
  <1>18. Entries(s) /\ HasRest(t, s, z) /\ \E e : Linked(s, e)
    <2>1. LostAt(t, s, p, z, z)
      BY <1>17 DEF LostAt
    <2>2. IsCut(t, s, h, p, z, z)
      BY <1>5, <1>16, <1>17, <2>1 DEF IsCut
    <2> QED
      BY <1>1, <1>2, <2>2, CutKeeps
  <1>19. FreeIndexRight(s)
    <2>1. t.ent[p].key # None /\ s.ent[p].key # None
      BY <1>6, <1>17 DEF Used, SameItem
    <2>2. \A j \in Cells(t) : j # z /\ (t.ent[j].key = None \/ s.ent[j].key = None) => s.ent[j] = t.ent[j]
      BY <1>17, <2>1
    <2> QED
      BY <1>2, <1>6, <1>16, <2>2, FreeIndexTold
  <1>20. Loses(t, s, z)
    BY <1>16, <1>18, <1>19 DEF Loses, Good
  <1> QED
    BY <1>11, <1>13, <1>15, <1>20

LEMMA PulledUpLoses ==
  ASSUME NEW t, Good(t), NEW h \in Cells(t), h \in Chain(t, h), t.ent[h].next # INVALID
  PROVE  Loses(t, PulledUp(t, h), h)
  <1>1. PICK d : Linked(t, d)
    BY DEF Good
  <1>2. IsTable(t) /\ Entries(t) /\ FreeIndexRight(t)
    BY DEF Good
  <1>3. Chain(t, h) \subseteq Used(t) /\ Used(t) \subseteq Cells(t)
    BY DEF Chain, Used
  <1>4. PICK q : q = t.ent[h].next
    OBVIOUS
  <1>5. q \in Chain(t, h) /\ q # h
    <2>1. IsChain(NextOf(t), Chain(t, h), d)
      BY <1>1 DEF Linked, LinkedAt
    <2>2. Follows(NextOf(t), Chain(t, h), d, h) /\ d[h] \in Nat
      BY <2>1 DEF IsChain
    <2>3. NextOf(t)[h] = q
      BY <1>4 DEF NextOf
    <2> QED
      BY <1>4, <2>2, <2>3 DEF Follows
  <1>6. h \in Used(t) /\ q \in Used(t) /\ q \in Cells(t)
    BY <1>3, <1>5
  <1>7. /\ t.ent \in [Cells(t) -> EntryRecord] /\ t.ent[h] \in EntryRecord /\ t.ent[q] \in EntryRecord
    BY <1>2, <1>6, TableFacts
  <1>8. PICK en : en = [t.ent EXCEPT ![h] = t.ent[q]]
    OBVIOUS
  <1>9. PulledUp(t, h) = FreedAt(WithEntries(t, en), q)
    BY <1>2, <1>4, <1>8 DEF PulledUp, WithEntries, IsTable
  <1>10. en \in [Cells(t) -> EntryRecord] /\ en[h] = t.ent[q] /\ \A j \in Cells(t) : j # h => en[j] = t.ent[j]
    BY <1>6, <1>7, <1>8
  <1>11. PICK u : u = WithEntries(t, en)
    OBVIOUS
  <1>12. IsTable(u) /\ u.ent = en /\ u.capacity = t.capacity /\ u.freeIndex = t.freeIndex /\ Cells(u) = Cells(t)
    BY <1>2, <1>10, <1>11, TableOf DEF Cells
  <1>13. PICK s : s = FreedAt(u, q)
    OBVIOUS
  <1>14. /\ IsTable(s) /\ s.capacity = t.capacity /\ s.freeIndex = IF t.freeIndex > q THEN q ELSE t.freeIndex
         /\ s.ent[q].key = None /\ s.ent[q].next = INVALID /\ \A j \in Cells(t) : j # q => s.ent[j] = u.ent[j]
    BY <1>6, <1>12, <1>13, FreedFacts
  <1>15. /\ s.ent[h].next = t.ent[q].next /\ SameItem(s.ent[h], t.ent[q])
         /\ \A j \in Cells(t) : j # h /\ j # q => s.ent[j] = t.ent[j]
    BY <1>5, <1>6, <1>10, <1>12, <1>14 DEF SameItem
  <1>16. Entries(s) /\ HasRest(t, s, h) /\ \E e : Linked(s, e)
    <2>1. LostAt(t, s, h, q, h)
      BY <1>15 DEF LostAt
    <2>2. IsCut(t, s, h, h, q, h)
      BY <1>4, <1>5, <1>14, <1>15, <2>1 DEF IsCut
    <2> QED
      BY <1>1, <1>2, <2>2, CutKeeps
  <1>17. FreeIndexRight(s)
    <2>1. t.ent[h].key # None /\ s.ent[h].key # None
      BY <1>6, <1>15 DEF Used, SameItem
    <2>2. \A j \in Cells(t) : j # q /\ (t.ent[j].key = None \/ s.ent[j].key = None) => s.ent[j] = t.ent[j]
      BY <1>15, <2>1
    <2> QED
      BY <1>2, <1>6, <1>14, <2>2, FreeIndexTold
  <1>18. Loses(t, s, h)
    BY <1>14, <1>16, <1>17 DEF Loses, Good
  <1> QED
    BY <1>9, <1>11, <1>13, <1>18

LEMMA EmptiedLoses ==
  ASSUME NEW t, Good(t), NEW h \in Cells(t), h \in Chain(t, h), t.ent[h].next = INVALID
  PROVE  Loses(t, Emptied(t, h), h)
  <1>1. PICK d : Linked(t, d)
    BY DEF Good
  <1>2. IsTable(t) /\ Entries(t) /\ FreeIndexRight(t)
    BY DEF Good
  <1>3. h \in Used(t) /\ Home(t, h) = h /\ t.ent[h].key # None
    BY DEF Chain, Used
  <1>4. \A j \in Chain(t, h) : j = h
    <2>1. IsChain(NextOf(t), Chain(t, h), d) /\ \A j \in Chain(t, h) : d[h] <= d[j]
      BY <1>1 DEF Linked, LinkedAt
    <2>2. Follows(NextOf(t), Chain(t, h), d, h) /\ \A j \in Chain(t, h) : d[j] \in Nat
      BY <2>1 DEF IsChain
    <2>3. NextOf(t)[h] = INVALID /\ INVALID \notin Chain(t, h)
      BY <1>2, TableFacts DEF NextOf, Chain, Used
    <2>4. \A j \in Chain(t, h) : d[j] <= d[h]
      BY <2>2, <2>3 DEF Follows
    <2>5. \A j \in Chain(t, h) : d[j] = d[h]
      BY <2>1, <2>2, <2>4
    <2> QED
      BY <2>1, <2>5 DEF IsChain
  <1>5. t.ent \in [Cells(t) -> EntryRecord] /\ t.ent[h] \in EntryRecord /\ INVALID \in Nat
    BY <1>2, TableFacts
  <1> DEFINE e == [t.ent[h] EXCEPT !.key = None, !.next = INVALID]
  <1>6. e \in EntryRecord /\ e.key = None /\ e.next = INVALID /\ e.hash = t.ent[h].hash
    BY <1>5 DEF EntryRecord
  <1>7. PICK en : en = [t.ent EXCEPT ![h] = e]
    OBVIOUS
  <1>8. Emptied(t, h) = WithEntries(t, en)
    <2>1. PICK a : a = [t EXCEPT !.ent[h].key = None]
      OBVIOUS
    <2>2. a = [t EXCEPT !.ent = [t.ent EXCEPT ![h] = [t.ent[h] EXCEPT !.key = None]]]
      BY <2>1 DEF IsTable
    <2>3. PICK b : b = [a EXCEPT !.ent[h].next = INVALID]
      OBVIOUS
    <2>4. b = [t EXCEPT !.ent = en]
      BY <1>2, <1>5, <1>7, <2>2, <2>3 DEF IsTable
    <2>5. Emptied(t, h) = b
      BY <2>1, <2>3 DEF Emptied
    <2> QED
      BY <2>4, <2>5 DEF WithEntries
  <1> HIDE DEF e
  <1>9. en \in [Cells(t) -> EntryRecord] /\ en[h] = e /\ \A j \in Cells(t) : j # h => en[j] = t.ent[j]
    BY <1>5, <1>6, <1>7
  <1>10. PICK s : s = WithEntries(t, en)
    OBVIOUS
  <1>11. IsTable(s) /\ s.ent = en /\ s.capacity = t.capacity /\ s.freeIndex = t.freeIndex /\ Cells(s) = Cells(t)
    BY <1>2, <1>9, <1>10, TableOf DEF Cells
  <1>12. /\ \A z \in Used(s) : z # h /\ z \in Used(t) /\ s.ent[z] = t.ent[z]
         /\ \A z \in Used(t) : z # h => z \in Used(s) /\ s.ent[z] = t.ent[z]
    BY <1>6, <1>9, <1>11 DEF Used
  <1>13. Entries(s) /\ HasRest(t, s, h)
    <2> DEFINE g == [z \in Used(s) |-> z]
    <2>1. PICK X : X = {h}
      OBVIOUS
    <2>2. Transfers(t, s, g, X)
      BY <1>12, <2>1 DEF Transfers, SameItem
    <2>3. \A z \in Cells(t) : s.ent[z].key = None => s.ent[z].next = INVALID
      BY <1>2, <1>6, <1>9, <1>11 DEF Entries
    <2> HIDE DEF g
    <2>4. Entries(s) /\ \A k, v : Has(s, k, v) <=> \E j \in Used(t) \ X : t.ent[j].key = k /\ t.ent[j].data = v
      BY <1>2, <1>11, <2>2, <2>3, TransferKeeps
    <2> QED
      BY <2>1, <2>4 DEF HasRest
  <1>14. ASSUME NEW y \in Cells(t)
         PROVE  LinkedAt(s, d, y)
    <2>1. CASE y = h
      <3>1. Chain(s, h) = {}
        <4>1. ASSUME NEW z \in Chain(s, h)
              PROVE  FALSE
          <5>1. z \in Used(s) /\ Home(s, z) = h
            BY DEF Chain
          <5>2. z \in Chain(t, h) /\ z # h
            BY <1>11, <1>12, <5>1 DEF Chain, Home, MainPos
          <5> QED
            BY <1>4, <5>2
        <4> QED
          BY <4>1
      <3> QED
        BY <2>1, <3>1 DEF LinkedAt
    <2>2. CASE y # h
      <3>1. h \notin Chain(t, y)
        BY <1>3, <2>2 DEF Chain
      <3>2. Chain(s, y) = Chain(t, y)
        BY <1>11, <1>12, <3>1 DEF Chain, Home, MainPos
      <3>3. \A z \in Chain(t, y) : s.ent[z].next = t.ent[z].next /\ d[z] = d[z]
        BY <1>12, <3>1 DEF Chain
      <3>4. LinkedAt(t, d, y) /\ s.capacity = t.capacity
        BY <1>1, <1>11 DEF Linked
      <3> QED
        BY Zenon, <3>2, <3>3, <3>4, LinkedAtSame
    <2> QED
      BY <2>1, <2>2
  <1>15. Linked(s, d)
    BY <1>1, <1>11, <1>14 DEF Linked
  <1>16. FreeIndexRight(s)
    <2>1. s.freeIndex # INVALID => s.ent[s.freeIndex].key = None
      <3>1. t.freeIndex # INVALID => t.freeIndex \in Cells(t) /\ t.freeIndex # h /\ t.ent[t.freeIndex].key = None
        BY <1>2, <1>3 DEF FreeIndexRight, IsTable
      <3> QED
        BY <1>9, <1>11, <3>1
    <2>2. ASSUME NEW z \in Cells(s), s.ent[z].key = None
          PROVE  z >= s.freeIndex \/ Home(s, z) = z
      <3>1. CASE z = h
        BY <1>3, <1>6, <1>9, <1>11, <3>1 DEF Home, MainPos
      <3>2. CASE z # h
        BY <1>2, <1>9, <1>11, <2>2, <3>2 DEF FreeIndexRight, Home, MainPos
      <3> QED
        BY <3>1, <3>2
    <2> QED
      BY <2>1, <2>2 DEF FreeIndexRight
  <1>17. Loses(t, s, h)
    BY <1>11, <1>13, <1>15, <1>16 DEF Loses, Good
  <1> QED
    BY <1>8, <1>10, <1>17

\* hash_table_remove_by_cstr takes k out and leaves the others.
LEMMA RemovedFacts ==
  ASSUME NEW t, Good(t), NEW k \in Keys
  PROVE  /\ Good(Removed(t, k))
         /\ \A x \in Keys : \A v : Has(Removed(t, k), x, v) <=> Has(t, x, v) /\ x # k
  <1>1. PICK s : s = Removed(t, k)
    OBVIOUS
  <1> DEFINE pos == MainPos(t, CalcHash(k))
  <1>2. CASE \A z \in Used(t) : t.ent[z].key # k
    <2>1. ~Entered(t, k) \/ Finds(t, k) = {}
      BY <1>2, LookupFacts
    <2>2. s = t
      BY <1>1, <2>1 DEF Removed
    <2>3. \A v : ~Has(t, k, v)
      BY <1>2 DEF Has
    <2> QED
      BY <1>1, <2>2, <2>3
  <1>3. ASSUME NEW z \in Used(t), t.ent[z].key = k
        PROVE  Good(s) /\ \A x \in Keys : \A v : Has(s, x, v) <=> Has(t, x, v) /\ x # k
    <2>1. IsTable(t) /\ Entries(t)
      BY DEF Good
    <2>2. PICK d : Linked(t, d)
      BY DEF Good
    <2>3. Entered(t, k) /\ Finds(t, k) = {z}
      BY <1>3, LookupFacts
    <2>4. (CHOOSE j \in Finds(t, k) : TRUE) = z
      BY <2>3
    <2>5. Home(t, z) = pos
      BY <1>3, <2>1 DEF Entries, Home, CalcHash
    <2>6. pos \in Cells(t) /\ pos \in Used(t) /\ Home(t, pos) = pos
      BY <2>1, <2>2, <2>5, HomeUsed
    <2>7. PICK h : h = pos
      OBVIOUS
    <2>8. h \in Cells(t) /\ h \in Chain(t, h) /\ z \in Chain(t, h)
      BY <2>5, <2>6, <2>7 DEF Chain
    <2>9. Loses(t, s, z)
      <3>1. CASE z # h
        <4>1. s = Unlinked(t, h, z)
          BY <1>1, <2>3, <2>4, <2>7, <3>1 DEF Removed
        <4> QED
          BY <2>8, <3>1, <4>1, UnlinkedLoses
      <3>2. CASE z = h /\ t.ent[h].next # INVALID
        <4>1. s = PulledUp(t, h)
          BY <1>1, <2>3, <2>4, <2>7, <3>2 DEF Removed
        <4> QED
          BY <2>8, <3>2, <4>1, PulledUpLoses
      <3>3. CASE z = h /\ t.ent[h].next = INVALID
        <4>1. s = Emptied(t, h)
          BY <1>1, <2>3, <2>4, <2>7, <3>3 DEF Removed
        <4> QED
          BY <2>8, <3>3, <4>1, EmptiedLoses
      <3> QED
        BY <3>1, <3>2, <3>3
    <2>10. \A j \in Used(t) : j # z <=> t.ent[j].key # k
      BY <1>3, <2>1 DEF Entries
    <2> QED
      BY <2>9, <2>10 DEF Loses, HasRest, Has
  <1> QED
    BY <1>1, <1>2, <1>3

-----------------------------------------------------------------------------
(* The theorems *)

\* Good tables stay good through insertions, evictions, reallocations and removals.
THEOREM TableInductive == TableSpec => []Good(tbl)
  <1>1. TableInit => Good(tbl)
    <2>1. 2 \in 2 .. MaxCapacity
      BY HashTableAssumption
    <2> QED
      BY <2>1, EmptyIsGood DEF TableInit, DEFAULT_CAPACITY
  <1>2. Good(tbl) /\ [TableNext]_tableVars => Good(tbl)'
    <2> SUFFICES ASSUME Good(tbl), [TableNext]_tableVars
                 PROVE  Good(tbl')
      OBVIOUS
    <2>1. ASSUME NEW k \in Keys, NEW v \in Values, Set(k, v)
          PROVE  Good(tbl')
      BY <2>1, SetFacts
    <2>2. ASSUME NEW k \in Keys, Remove(k)
          PROVE  Good(tbl')
      BY <2>2, RemovedFacts DEF Remove
    <2>3. CASE UNCHANGED tbl
      BY <2>3
    <2> QED
      BY <2>1, <2>2, <2>3 DEF TableNext, Get, tableVars
  <1> QED
    BY <1>1, <1>2, PTL DEF TableSpec

\* The loops of the lookups end and compare no key that is NULL, and a free
\* entry is missed by the free index only where a reallocation cannot link it.
THEOREM TableSoundHolds == TableSpec => []TableSound
  <1>1. Good(tbl) => TableSound
    <2> SUFFICES ASSUME Good(tbl)
                 PROVE  TableSound
      OBVIOUS
    <2>1. PICK d : Linked(tbl, d)
      BY DEF Good
    <2>2. IsTable(tbl) /\ FreeIndexRight(tbl)
      BY DEF Good
    <2>3. ASSUME NEW z \in 0 .. tbl.capacity - 1, tbl.ent[z].key # None
          PROVE  /\ Ends(tbl, z)
                 /\ \A j \in OnChain(tbl, z) :
                      tbl.ent[j].key # None /\ MainPos(tbl, tbl.ent[j].hash) = MainPos(tbl, tbl.ent[z].hash)
      <3>1. z \in Used(tbl)
        BY <2>3 DEF Used, Cells
      <3>2. PICK t : t = tbl
        OBVIOUS
      <3>3. Ends(t, z) /\ \A j : j \in OnChain(t, z) <=> j \in Chain(t, Home(t, z)) /\ d[j] >= d[z]
        BY <2>1, <2>2, <3>1, <3>2, ChainWalk
      <3> QED
        BY <3>2, <3>3 DEF Chain, Used, Home
    <2>4. \A z \in 0 .. tbl.capacity - 1 : tbl.ent[z].key = None =>
            z >= tbl.freeIndex \/ MainPos(tbl, tbl.ent[z].hash) = z
      BY <2>2 DEF FreeIndexRight, Cells, Home
    <2>5. tbl.freeIndex # INVALID => tbl.ent[tbl.freeIndex].key = None
      BY <2>2 DEF FreeIndexRight
    <2> QED
      BY <2>3, <2>4, <2>5 DEF TableSound
  <1> QED
    BY <1>1, TableInductive, PTL

\* What a lookup returns is what the table has.
LEMMA LookupIs ==
  ASSUME NEW t, Good(t), NEW k \in Keys
  PROVE  /\ \A v \in Values : Lookup(t, k) = v <=> Has(t, k, v)
         /\ Lookup(t, k) = None <=> \A v : ~Has(t, k, v)
         /\ Lookup(t, k) \in Values \cup {None}
  <1>1. ASSUME NEW v, Has(t, k, v)
        PROVE  v \in Values /\ Lookup(t, k) = v /\ v # None
    <2>1. v \in Values
      BY <1>1 DEF Good, Entries, Has
    <2> QED
      BY <1>1, <2>1, LookupFacts, HashTableAssumption
  <1>2. (\A v : ~Has(t, k, v)) => Lookup(t, k) = None
    BY LookupFacts
  <1>3. \A v \in Values : v # None
    BY HashTableAssumption
  <1> QED
    BY <1>1, <1>2, <1>3

\* eqp_hash_table.c is the map that eqp_hash_table.h describes.
THEOREM ImplementsMapHolds == TableSpec => ImplementsMap
  <1> DEFINE m == [k \in Keys |-> Lookup(tbl, k)]
  <1>1. TableInit => Map!Init
    <2> SUFFICES ASSUME TableInit
                 PROVE  m = [k \in Keys |-> None] /\ result = None
      BY DEF Map!Init
    <2>1. 2 \in 2 .. MaxCapacity
      BY HashTableAssumption
    <2>2. Good(tbl) /\ \A k, v : ~Has(tbl, k, v)
      BY <2>1, EmptyIsGood DEF TableInit, DEFAULT_CAPACITY
    <2>3. \A k \in Keys : Lookup(tbl, k) = None
      BY <2>2, LookupIs
    <2> QED
      BY <2>3 DEF TableInit
  <1>2. Good(tbl) /\ Good(tbl)' /\ [TableNext]_tableVars => [Map!Next]_(Map!vars)
    <2> SUFFICES ASSUME Good(tbl), Good(tbl'), [TableNext]_tableVars
                 PROVE  [Map!Next]_(Map!vars)
      OBVIOUS
    <2>0. PICK t, s : t = tbl /\ s = tbl'
      OBVIOUS
    <2>1. m = [k \in Keys |-> Lookup(t, k)] /\ m' = [k \in Keys |-> Lookup(s, k)]
      BY <2>0
    <2>2. Good(t) /\ Good(s)
      BY <2>0
    <2>3. ASSUME NEW k \in Keys, NEW v \in Values, Set(k, v)
          PROVE  Map!Set(k, v)
      <3>1. /\ (\E w : Has(t, k, w)) =>
                 result' = FALSE /\ \A x \in Keys : \A w : Has(s, x, w) <=> Has(t, x, w)
            /\ (\A w : ~Has(t, k, w)) =>
                 result' = TRUE /\ \A x \in Keys : \A w : Has(s, x, w) <=> Has(t, x, w) \/ (x = k /\ w = v)
        BY <2>0, <2>3, SetFacts
      <3>2. CASE \E w : Has(t, k, w)
        <4>1. Lookup(t, k) # None
          BY <2>2, <3>2, LookupIs
        <4>2. ASSUME NEW x \in Keys
              PROVE  Lookup(s, x) = Lookup(t, x)
          BY <2>2, <3>1, <3>2, LookupIs
        <4>3. m' = m
          BY <2>1, <4>2
        <4>4. m[k] # None /\ result' = FALSE
          BY <2>1, <3>1, <3>2, <4>1
        <4> QED
          BY <4>3, <4>4 DEF Map!Set
      <3>3. CASE \A w : ~Has(t, k, w)
        <4>1. Lookup(t, k) = None
          BY <2>2, <3>3, LookupIs
        <4>2. ASSUME NEW x \in Keys
              PROVE  Lookup(s, x) = IF x = k THEN v ELSE Lookup(t, x)
          <5>1. CASE x = k
            <6>1. Has(s, k, v)
              BY <3>1, <3>3
            <6> QED
              BY <2>2, <5>1, <6>1, LookupIs
          <5>2. CASE x # k
            <6>1. \A w : Has(s, x, w) <=> Has(t, x, w)
              BY <3>1, <3>3, <5>2
            <6> QED
              BY <2>2, <5>2, <6>1, LookupIs
          <5> QED
            BY <5>1, <5>2
        <4>3. m' = [m EXCEPT ![k] = v]
          BY <2>1, <4>2
        <4>4. m[k] = None /\ result' = TRUE
          BY <2>1, <3>1, <3>3, <4>1
        <4> QED
          BY <4>3, <4>4 DEF Map!Set
      <3> QED
        BY <3>2, <3>3
    <2>4. ASSUME NEW k \in Keys, Get(k)
          PROVE  Map!Get(k)
      <3>1. s = t /\ result' = Lookup(t, k)
        BY <2>0, <2>4 DEF Get
      <3> QED
        BY <2>1, <3>1 DEF Map!Get
    <2>5. ASSUME NEW k \in Keys, Remove(k)
          PROVE  Map!Remove(k)
      <3>1. s = Removed(t, k) /\ result' = None
        BY <2>0, <2>5 DEF Remove
      <3>2. \A x \in Keys : \A w : Has(s, x, w) <=> Has(t, x, w) /\ x # k
        BY <2>2, <3>1, RemovedFacts
      <3>3. ASSUME NEW x \in Keys
            PROVE  Lookup(s, x) = IF x = k THEN None ELSE Lookup(t, x)
        <4>1. CASE x = k
          BY <2>2, <3>2, <4>1, LookupIs
        <4>2. CASE x # k
          <5>1. \A w : Has(s, x, w) <=> Has(t, x, w)
            BY <3>2, <4>2
          <5> QED
            BY <2>2, <4>2, <5>1, LookupIs
        <4> QED
          BY <4>1, <4>2
      <3>4. m' = [m EXCEPT ![k] = None]
        BY <2>1, <3>3
      <3> QED
        BY <3>1, <3>4 DEF Map!Remove
    <2>6. CASE UNCHANGED tableVars
      <3>1. s = t /\ result' = result
        BY <2>0, <2>6 DEF tableVars
      <3> QED
        BY <2>1, <3>1 DEF Map!vars
    <2> QED
      BY <2>3, <2>4, <2>5, <2>6 DEF TableNext, Map!Next
  <1> QED
    BY <1>1, <1>2, TableInductive, PTL DEF TableSpec, Map!Spec, ImplementsMap

=============================================================================
