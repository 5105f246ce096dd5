--------------------------- MODULE CharacterProofs ---------------------------
(***************************************************************************)
(* Proofs about the processes a character passes through.                  *)
(*                                                                         *)
(* CharSelect, for every set of clients, keys and accounts: no client is   *)
(* freed while something points to it, and each request to zone in is      *)
(* answered at most once.                                                  *)
(*                                                                         *)
(* Character, for every number of sessions, of bind points, of changes and *)
(* of waiting snapshots, for every item file, creation script and          *)
(* spellbook: the items stay in the database, spells are lost only by a    *)
(* torn SELECT, a load gives back what was saved, and the player is shown  *)
(* the items in their places.                                              *)
(***************************************************************************)
EXTENDS CharSelect, Character, FiniteSetTheorems, SequenceTheorems, TLAPS

-----------------------------------------------------------------------------
(* The inductive invariant *)

QueryOps == {"status", "account", "pair", "characters", "name", "create", "delete", "transaction"}
Ids == Accounts \cup {NoAccount}
ClientRecord == [refs : Nat, up : BOOLEAN, sent : BOOLEAN, id : Ids,
                 authed : BOOLEAN, approved : BOOLEAN, listed : BOOLEAN]
JobRecord == [op : QueryOps, who : Clients \cup Keys, name : Names \cup {""},
              done : BOOLEAN, hit : BOOLEAN]
Attempt == [account : Ids, client : Clients]

Types ==
    /\ client \in [Clients -> ClientRecord]
    /\ unauthed \subseteq Clients
    /\ attempts \in Seq(Attempt)
    /\ timers \in [Clients -> Nat]
    /\ entered \in [Clients -> Nat] /\ answered \in [Clients -> Nat]
    /\ jobs \subseteq JobRecord

HasJob(c) == \E job \in jobs : job.who = c

\* A client has one query at most; the one of an auth is not about a client.
JobsInv ==
    /\ \A job \in jobs : job.who \in Clients <=> job.op # "status"
    /\ \A j, k \in jobs : j.who = k.who /\ j.who \in Clients => j = k

\* The references that are accounted for: the connection's, the query's and
\* the timers'.  A query that failed without its callback leaves one behind.
Holders(c) ==
    (IF client[c].up THEN 1 ELSE 0) + (IF HasJob(c) THEN 1 ELSE 0) + timers[c]

\* A client that waits for its auth has sent its key, and no query is made for
\* it before the auth comes.
ClientInv(c) ==
    /\ client[c].refs >= Holders(c)
    /\ ~client[c].sent => ~HasJob(c) /\ ~client[c].listed /\ c \notin unauthed
    /\ c \in unauthed => client[c].refs > 0 /\ ~HasJob(c) /\ ~client[c].listed

ClientsInv == \A c \in Clients : ClientInv(c)

CharSelectInv == Types /\ JobsInv /\ ClientsInv /\ ZoneInAnsweredOnce

-----------------------------------------------------------------------------
(* The array of attempts to zone in *)

\* How many attempts of a client are in an array
IndexSet(s, c) == {k \in DOMAIN s : s[k].client = c}

LEMMA IndexSetFinite ==
  ASSUME NEW s \in Seq(Attempt), NEW c
  PROVE  /\ IsFiniteSet(IndexSet(s, c)) /\ Cardinality(IndexSet(s, c)) \in Nat
         /\ Len(s) \in Nat /\ DOMAIN s = 1 .. Len(s)
  <1>1. Len(s) \in Nat /\ DOMAIN s = 1 .. Len(s)
    BY LenProperties
  <1>2. IsFiniteSet(1 .. Len(s))
    BY <1>1, FS_Interval
  <1>3. IndexSet(s, c) \in SUBSET (1 .. Len(s))
    BY <1>1 DEF IndexSet
  <1>4. IsFiniteSet(IndexSet(s, c))
    BY <1>2, <1>3, FS_Subset
  <1> QED
    BY <1>1, <1>4, FS_CardinalityType

\* array_push_back
LEMMA AttemptAdded ==
  ASSUME NEW s \in Seq(Attempt), NEW a \in Attempt, NEW c
  PROVE  /\ Append(s, a) \in Seq(Attempt)
         /\ Cardinality(IndexSet(Append(s, a), c)) =
              Cardinality(IndexSet(s, c)) + (IF a.client = c THEN 1 ELSE 0)
  <1> DEFINE t == Append(s, a)
             n == Len(s)
  <1>1. /\ n \in Nat /\ DOMAIN s = 1 .. n /\ IsFiniteSet(IndexSet(s, c))
        /\ Cardinality(IndexSet(s, c)) \in Nat
    BY IndexSetFinite
  <1>2. /\ t \in Seq(Attempt) /\ Len(t) = n + 1
        /\ \A k \in 1 .. n : t[k] = s[k]
        /\ t[n + 1] = a
    BY AppendProperties
  <1>3. DOMAIN t = 1 .. n + 1
    BY <1>2, LenProperties
  <1> HIDE DEF t, n
  <1>4. \A k \in 1 .. n + 1 : k \in 1 .. n \/ k = n + 1
    BY <1>1
  <1>5. n + 1 \notin 1 .. n /\ 1 .. n \subseteq 1 .. n + 1 /\ n + 1 \in 1 .. n + 1
    BY <1>1
  <1>6. CASE a.client = c
    <2>1. IndexSet(t, c) = IndexSet(s, c) \cup {n + 1} /\ n + 1 \notin IndexSet(s, c)
      <3>1. n + 1 \notin IndexSet(s, c)
        BY <1>1, <1>5 DEF IndexSet
      <3>2. ASSUME NEW k
            PROVE  k \in IndexSet(t, c) <=> k \in IndexSet(s, c) \/ k = n + 1
        <4>1. CASE k \in 1 .. n
          BY <1>1, <1>2, <1>3, <1>5, <4>1 DEF IndexSet
        <4>2. CASE k = n + 1
          BY <1>2, <1>3, <1>5, <1>6, <4>2 DEF IndexSet
        <4>3. CASE k \notin 1 .. n + 1
          BY <1>1, <1>3, <1>5, <4>3 DEF IndexSet
        <4> QED
          BY <1>4, <4>1, <4>2, <4>3
      <3> QED
        BY <3>1, <3>2
    <2>2. Cardinality(IndexSet(s, c) \cup {n + 1}) = Cardinality(IndexSet(s, c)) + 1
      BY <1>1, <2>1, FS_AddElement
    <2>3. Cardinality(IndexSet(t, c)) = Cardinality(IndexSet(s, c)) + (IF a.client = c THEN 1 ELSE 0)
      BY <1>6, <2>1, <2>2
    <2> QED
      BY <1>2, <2>3 DEF t
  <1>7. CASE a.client # c
    <2>1. IndexSet(t, c) = IndexSet(s, c)
      <3>1. ASSUME NEW k
            PROVE  k \in IndexSet(t, c) <=> k \in IndexSet(s, c)
        <4>1. CASE k \in 1 .. n
          BY <1>1, <1>2, <1>3, <1>5, <4>1 DEF IndexSet
        <4>2. CASE k = n + 1
          BY <1>1, <1>2, <1>3, <1>5, <1>7, <4>2 DEF IndexSet
        <4>3. CASE k \notin 1 .. n + 1
          BY <1>1, <1>3, <1>5, <4>3 DEF IndexSet
        <4> QED
          BY <1>4, <4>1, <4>2, <4>3
      <3>2. IndexSet(t, c) \subseteq IndexSet(s, c) /\ IndexSet(s, c) \subseteq IndexSet(t, c)
        BY <3>1
      <3> QED
        BY <3>2
    <2> QED
      BY <1>1, <1>2, <1>7, <2>1 DEF t
  <1> QED
    BY <1>6, <1>7

\* array_swap_and_pop
LEMMA AttemptRemoved ==
  ASSUME NEW s \in Seq(Attempt), NEW k \in 1 .. Len(s), NEW c
  PROVE  /\ SwapAndPop(s, k) \in Seq(Attempt)
         /\ Cardinality(IndexSet(SwapAndPop(s, k), c)) =
              Cardinality(IndexSet(s, c)) - (IF s[k].client = c THEN 1 ELSE 0)
  <1> DEFINE n == Len(s)
             r == [s EXCEPT ![k] = s[n]]
             t == SwapAndPop(s, k)
             S == IndexSet(s, c)
  <1>1. /\ n \in Nat \ {0} /\ DOMAIN s = 1 .. n /\ IsFiniteSet(S) /\ Cardinality(S) \in Nat
        /\ k \in 1 .. n /\ \A j \in 1 .. n : s[j] \in Attempt
    BY IndexSetFinite, ElementOfSeq
  <1>2. \A j \in 1 .. n : r[j] = IF j = k THEN s[n] ELSE s[j]
    BY <1>1
  <1>3. t = SubSeq(r, 1, n - 1)
    BY DEF SwapAndPop
  <1> HIDE DEF r, t, n
  <1>4. /\ t \in Seq(Attempt) /\ Len(t) = n - 1
        /\ \A j \in 1 .. n - 1 : t[j] = IF j = k THEN s[n] ELSE s[j]
    <2>1. 1 \in Int /\ n - 1 \in Int /\ \A j \in 1 .. n - 1 : r[j] \in Attempt
      BY <1>1, <1>2
    <2>2. /\ SubSeq(r, 1, n - 1) \in Seq(Attempt)
          /\ Len(SubSeq(r, 1, n - 1)) = IF 1 <= n - 1 THEN n - 1 - 1 + 1 ELSE 0
          /\ \A j \in 1 .. n - 1 - 1 + 1 : SubSeq(r, 1, n - 1)[j] = r[1 + j - 1]
      BY <2>1, SubSeqProperties
    <2> QED
      BY <1>1, <1>2, <1>3, <2>2
  <1>5. DOMAIN t = 1 .. n - 1
    BY <1>4, LenProperties
  <1>6. /\ n \in 1 .. n /\ n \notin 1 .. n - 1
        /\ \A j \in 1 .. n - 1 : j \in 1 .. n
        /\ \A j \in 1 .. n : j # n => j \in 1 .. n - 1
    BY <1>1
  <1>7. S \subseteq 1 .. n /\ \A j \in 1 .. n : j \in S <=> s[j].client = c
    BY <1>1 DEF IndexSet
  <1>8. IndexSet(t, c) \subseteq 1 .. n - 1
        /\ \A j \in 1 .. n - 1 : j \in IndexSet(t, c) <=> t[j].client = c
    BY <1>5 DEF IndexSet
  <1> HIDE DEF S
  <1>9. CASE s[n].client = c /\ s[k].client = c
    <2>1. IndexSet(t, c) = S \ {n} /\ n \in S
      BY <1>1, <1>4, <1>6, <1>7, <1>8, <1>9
    <2> QED
      BY <1>1, <1>4, <1>9, <2>1, FS_RemoveElement DEF S, t
  <1>10. CASE s[n].client # c /\ s[k].client = c
    <2>1. IndexSet(t, c) = S \ {k} /\ k \in S
      BY <1>1, <1>4, <1>6, <1>7, <1>8, <1>10
    <2> QED
      <3>1. Cardinality(S \ {k}) = Cardinality(S) - 1
        BY Zenon, <1>1, <2>1, FS_RemoveElement
      <3> QED
        BY Zenon, <1>4, <1>10, <2>1, <3>1 DEF S, t
  <1>11. CASE s[n].client = c /\ s[k].client # c
    <2>1. IndexSet(t, c) = (S \ {n}) \cup {k} /\ n \in S /\ k \notin S \ {n}
      BY <1>1, <1>4, <1>6, <1>7, <1>8, <1>11
    <2>2. IsFiniteSet(S \ {n}) /\ Cardinality(S \ {n}) = Cardinality(S) - 1
      BY <1>1, <2>1, FS_RemoveElement
    <2>3. Cardinality((S \ {n}) \cup {k}) = Cardinality(S \ {n}) + 1
      BY <2>1, <2>2, FS_AddElement
    <2> QED
      BY <1>1, <1>4, <1>11, <2>1, <2>2, <2>3 DEF S, t
  <1>12. CASE s[n].client # c /\ s[k].client # c
    <2>1. IndexSet(t, c) = S
      BY <1>1, <1>4, <1>6, <1>7, <1>8, <1>12
    <2> QED
      BY <1>1, <1>4, <1>12, <2>1 DEF S, t
  <1> QED
    BY <1>9, <1>10, <1>11, <1>12

\* The search of the array finds the first of the attempts it looks for.
LEMMA LeastFound ==
  ASSUME NEW S \in SUBSET Nat, S # {}
  PROVE  Least(S) \in S
  <1> DEFINE R == {ss \in Nat \X Nat : ss[1] < ss[2]}
  <1>1. IsWellFoundedOn(R, Nat)
    BY NatLessThanWellFounded DEF OpToRel
  <1> HIDE DEF R
  <1>2. PICK x \in S : \A y \in S : ~(<<y, x>> \in R)
    BY <1>1, WFMin
  <1>3. ASSUME NEW y \in S
        PROVE  x <= y
    <2>1. x \in Nat /\ y \in Nat /\ <<y, x>> \notin R
      BY <1>2
    <2>2. ~(y < x)
      BY <2>1 DEF R
    <2> QED
      BY <2>1, <2>2
  <1> QED
    BY <1>3 DEF Least

-----------------------------------------------------------------------------
(* Frames *)

LEMMA ClientFacts ==
  ASSUME Types, NEW c \in Clients
  PROVE  /\ client[c] \in ClientRecord /\ client[c].refs \in Nat /\ timers[c] \in Nat
         /\ client[c].up \in BOOLEAN /\ client[c].sent \in BOOLEAN /\ client[c].listed \in BOOLEAN
  BY DEF Types, ClientRecord

\* The step changes no other client, and the queries of no other client.
OnlyClient(c) ==
    /\ client' \in [Clients -> ClientRecord] /\ unauthed' \subseteq Clients
    /\ \A u \in Clients : u # c => client'[u] = client[u] /\ (u \in unauthed' <=> u \in unauthed)
OnlyJobsOf(c) ==
    /\ jobs' \subseteq JobRecord
    /\ \A j \in JobRecord : j.who \in Clients \ {c} => (j \in jobs' <=> j \in jobs)
    /\ \A j \in jobs' : j.who \in Clients <=> j.op # "status"
    /\ \A j, k \in jobs' : j.who = c /\ k.who = c => j = k

\* A step that concerns one client keeps what holds of the others.
LEMMA StepOfClient ==
  ASSUME CharSelectInv, NEW c \in Clients, OnlyClient(c), OnlyJobsOf(c),
         timers' \in [Clients -> Nat], \A u \in Clients : u # c => timers'[u] = timers[u],
         ClientInv(c)'
  PROVE  JobsInv' /\ ClientsInv'
  <1>1. Types /\ JobsInv /\ ClientsInv
    BY DEF CharSelectInv
  <1>2. JobsInv'
    <2>1. ASSUME NEW j \in jobs', NEW k \in jobs', j.who = k.who, j.who \in Clients
          PROVE  j = k
      BY <1>1, <2>1 DEF JobsInv, OnlyJobsOf
    <2> QED
      BY <2>1 DEF JobsInv, OnlyJobsOf
  <1>3. ASSUME NEW u \in Clients, u # c
        PROVE  ClientInv(u)'
    <2>1. HasJob(u)' <=> HasJob(u)
      BY <1>1, <1>3 DEF HasJob, Types, OnlyJobsOf
    <2>2. client'[u] = client[u] /\ timers'[u] = timers[u] /\ (u \in unauthed' <=> u \in unauthed)
      BY <1>3 DEF OnlyClient
    <2>3. Holders(u)' = Holders(u)
      BY <2>1, <2>2 DEF Holders
    <2>4. ClientInv(u)
      BY <1>1 DEF ClientsInv
    <2> QED
      BY <2>1, <2>2, <2>3, <2>4 DEF ClientInv
  <1> QED
    BY <1>2, <1>3 DEF ClientsInv

\* A step that changes at most the queries of auths
LEMMA StatusStep ==
  ASSUME CharSelectInv, UNCHANGED <<client, unauthed, timers>>, jobs' \subseteq JobRecord,
         \A j \in JobRecord : j.who \in Clients => (j \in jobs' <=> j \in jobs),
         \A j \in jobs' : j.who \in Clients <=> j.op # "status"
  PROVE  JobsInv' /\ ClientsInv'
  <1>1. Types /\ JobsInv /\ ClientsInv
    BY DEF CharSelectInv
  <1>2. JobsInv'
    BY <1>1 DEF JobsInv
  <1>3. ASSUME NEW u \in Clients
        PROVE  ClientInv(u)'
    <2>1. HasJob(u)' <=> HasJob(u)
      BY <1>1 DEF HasJob, Types
    <2>2. Holders(u)' = Holders(u)
      BY <2>1 DEF Holders
    <2>3. ClientInv(u)
      BY <1>1 DEF ClientsInv
    <2> QED
      BY <2>1, <2>2, <2>3 DEF ClientInv
  <1> QED
    BY <1>2, <1>3 DEF ClientsInv

\* A step that leaves the attempts and their history alone
LEMMA ZoneUnchanged ==
  ASSUME CharSelectInv, UNCHANGED zoneVars,
         client' \in [Clients -> ClientRecord], unauthed' \subseteq Clients,
         jobs' \subseteq JobRecord, JobsInv', ClientsInv'
  PROVE  CharSelectInv'
  <1>1. Types'
    BY DEF CharSelectInv, Types, zoneVars
  <1>2. ZoneInAnsweredOnce'
    BY DEF CharSelectInv, ZoneInAnsweredOnce, AttemptsOf, zoneVars
  <1> QED
    BY <1>1, <1>2 DEF CharSelectInv

\* A step of one client that leaves the attempts and the timers alone
LEMMA QuietStep ==
  ASSUME CharSelectInv, NEW c \in Clients, OnlyClient(c), OnlyJobsOf(c), UNCHANGED zoneVars,
         ClientInv(c)'
  PROVE  CharSelectInv'
  <1>1. timers' = timers /\ timers \in [Clients -> Nat]
    BY DEF zoneVars, CharSelectInv, Types
  <1>2. JobsInv' /\ ClientsInv'
    BY <1>1, StepOfClient
  <1> QED
    BY <1>2, ZoneUnchanged DEF OnlyClient, OnlyJobsOf

\* The queries change by those of one client.
LEMMA JobMade ==
  ASSUME NEW op \in QueryOps, NEW who, who \in Clients \/ who \in Keys,
         NEW name, name \in Names \/ name = ""
  PROVE  /\ NewJob(op, who, name) \in JobRecord
         /\ NewJob(op, who, name).who = who /\ NewJob(op, who, name).op = op
  BY DEF NewJob, JobRecord

LEMMA JobsKept ==
  ASSUME CharSelectInv, NEW c \in Clients, jobs' = jobs
  PROVE  OnlyJobsOf(c) /\ (HasJob(c)' <=> HasJob(c))
  BY DEF CharSelectInv, Types, JobsInv, OnlyJobsOf, HasJob

LEMMA JobAdded ==
  ASSUME CharSelectInv, NEW c \in Clients, ~HasJob(c),
         NEW gone \in SUBSET jobs, \A g \in gone : g.who \notin Clients,
         NEW j \in JobRecord, j.who = c, j.op # "status",
         jobs' = (jobs \ gone) \cup {j}
  PROVE  OnlyJobsOf(c) /\ HasJob(c)'
  <1>1. jobs \subseteq JobRecord /\ JobsInv
    BY DEF CharSelectInv, Types
  <1>2. \A k \in jobs' : k.who = c => k = j
    BY DEF HasJob
  <1>3. jobs' \subseteq JobRecord /\ HasJob(c)'
    BY <1>1 DEF HasJob
  <1>4. \A k \in JobRecord : k.who \in Clients \ {c} => (k \in jobs' <=> k \in jobs)
    OBVIOUS
  <1>5. \A k \in jobs' : k.who \in Clients <=> k.op # "status"
    BY <1>1 DEF JobsInv
  <1> QED
    BY <1>2, <1>3, <1>4, <1>5 DEF OnlyJobsOf

LEMMA JobReplaced ==
  ASSUME CharSelectInv, NEW job \in jobs, job.who \in Clients,
         NEW new \in SUBSET JobRecord, \A j \in new : j.who = job.who /\ j.op # "status",
         \A j, k \in new : j = k,
         jobs' = (jobs \ {job}) \cup new
  PROVE  /\ OnlyJobsOf(job.who) /\ HasJob(job.who)
         /\ HasJob(job.who)' <=> new # {}
  <1>1. jobs \subseteq JobRecord /\ JobsInv /\ HasJob(job.who)
    BY DEF CharSelectInv, Types, HasJob
  <1>2. \A k \in jobs \ {job} : k.who # job.who
    BY <1>1 DEF JobsInv
  <1>3. jobs' \subseteq JobRecord
    BY <1>1
  <1>4. \A k \in JobRecord : k.who \in Clients \ {job.who} => (k \in jobs' <=> k \in jobs)
    OBVIOUS
  <1>5. \A k \in jobs' : k.who \in Clients <=> k.op # "status"
    BY <1>1 DEF JobsInv
  <1>6. \A j, k \in jobs' : j.who = job.who /\ k.who = job.who => j = k
    BY <1>2
  <1>7. HasJob(job.who)' <=> new # {}
    BY <1>2 DEF HasJob
  <1> QED
    BY <1>1, <1>3, <1>4, <1>5, <1>6, <1>7 DEF OnlyJobsOf

\* The clients change by one of them.
LEMMA RefsWritten ==
  ASSUME NEW r \in ClientRecord, NEW n \in Nat
  PROVE  /\ [r EXCEPT !.refs = n] \in ClientRecord /\ [r EXCEPT !.refs = n].refs = n
         /\ [r EXCEPT !.refs = n].up = r.up /\ [r EXCEPT !.refs = n].sent = r.sent
         /\ [r EXCEPT !.refs = n].listed = r.listed
  BY DEF ClientRecord

LEMMA ClientConstants ==
  /\ NewClient \in ClientRecord /\ NewClient.refs = 1 /\ ~NewClient.sent /\ ~NewClient.listed
  /\ Unborn \in ClientRecord /\ Unborn.refs = 0 /\ ~Unborn.up /\ ~Unborn.sent /\ ~Unborn.listed
  /\ Freed \in ClientRecord /\ Freed.refs = 0 /\ ~Freed.up /\ Freed.sent /\ ~Freed.listed
  <1>1. NewClient \in ClientRecord /\ NewClient.refs = 1 /\ ~NewClient.sent /\ ~NewClient.listed
    BY DEF NewClient, ClientRecord, Ids
  <1>2. /\ Unborn \in ClientRecord /\ Unborn.refs = 0 /\ ~Unborn.up /\ Unborn.sent = NewClient.sent
        /\ Unborn.listed = NewClient.listed
    BY <1>1 DEF Unborn, ClientRecord
  <1>3. /\ Freed \in ClientRecord /\ Freed.refs = Unborn.refs /\ Freed.up = Unborn.up /\ Freed.sent
        /\ Freed.listed = Unborn.listed
    BY <1>2 DEF Freed, ClientRecord
  <1> QED
    BY <1>1, <1>2, <1>3

LEMMA ClientWritten ==
  ASSUME CharSelectInv, NEW c \in Clients, NEW r \in ClientRecord,
         client' = [client EXCEPT ![c] = r], unauthed' \in SUBSET Clients,
         \A u \in Clients : u # c => (u \in unauthed' <=> u \in unauthed)
  PROVE  OnlyClient(c) /\ client'[c] = r
  BY DEF OnlyClient, CharSelectInv, Types

\* char_select_client_drop, of a reference that is held by nothing else: the
\* client is freed only when nothing else holds one.
LEMMA Dropped ==
  ASSUME CharSelectInv, NEW c \in Clients, NEW r \in ClientRecord, Drop(c, r),
         timers'[c] \in Nat,
         r.refs >= 1 + (IF r.up THEN 1 ELSE 0) + (IF HasJob(c)' THEN 1 ELSE 0) + timers'[c],
         ~r.sent => ~HasJob(c)' /\ ~r.listed /\ c \notin unauthed,
         c \in unauthed => ~HasJob(c)' /\ ~r.listed
  PROVE  OnlyClient(c) /\ ClientInv(c)'
  <1>1. r.refs \in Nat /\ unauthed \subseteq Clients
    BY DEF ClientRecord, CharSelectInv, Types
  <1>2. CASE r.refs > 1
    <2> DEFINE d == [r EXCEPT !.refs = r.refs - 1]
    <2>1. client' = [client EXCEPT ![c] = d] /\ unauthed' = unauthed
      BY <1>2 DEF Drop
    <2>2. r.refs - 1 \in Nat
      BY <1>1, <1>2
    <2>3. d \in ClientRecord /\ d.refs = r.refs - 1 /\ d.up = r.up /\ d.sent = r.sent /\ d.listed = r.listed
      BY <2>2, RefsWritten
    <2> HIDE DEF d
    <2>4. OnlyClient(c) /\ client'[c] = d
      BY <1>1, <2>1, <2>3, ClientWritten
    <2>5. Holders(c)' = (IF r.up THEN 1 ELSE 0) + (IF HasJob(c)' THEN 1 ELSE 0) + timers'[c]
      BY <2>3, <2>4 DEF Holders
    <2>6. client'[c].refs >= Holders(c)' /\ client'[c].refs > 0
      BY <1>1, <1>2, <2>3, <2>4, <2>5
    <2> QED
      BY <2>1, <2>3, <2>4, <2>6 DEF ClientInv
  <1>3. CASE ~(r.refs > 1)
    <2>1. client' = [client EXCEPT ![c] = Freed] /\ unauthed' = unauthed \ {c}
      BY <1>3 DEF Drop, Forgotten
    <2>2. OnlyClient(c) /\ client'[c] = Freed
      BY <1>1, <2>1, ClientWritten, ClientConstants
    <2>3. ~HasJob(c)' /\ timers'[c] = 0
      BY <1>1, <1>3
    <2>4. Holders(c)' = 0
      BY <2>2, <2>3, ClientConstants DEF Holders
    <2> QED
      BY <2>1, <2>2, <2>3, <2>4, ClientConstants DEF ClientInv
  <1> QED
    BY <1>2, <1>3

-----------------------------------------------------------------------------
(* Clients and auths *)

\* What the invariant says of one client
LEMMA InvOf ==
  ASSUME CharSelectInv, NEW c \in Clients
  PROVE  /\ ClientInv(c) /\ Types /\ JobsInv /\ client \in [Clients -> ClientRecord]
         /\ client[c] \in ClientRecord /\ client[c].refs \in Nat /\ timers[c] \in Nat
         /\ client[c].up \in BOOLEAN /\ client[c].sent \in BOOLEAN /\ client[c].listed \in BOOLEAN
         /\ client[c].refs >= (IF client[c].up THEN 1 ELSE 0) + (IF HasJob(c) THEN 1 ELSE 0) + timers[c]
         /\ unauthed \subseteq Clients /\ jobs \subseteq JobRecord
  <1>1. Types /\ JobsInv /\ ClientInv(c)
    BY DEF CharSelectInv, ClientsInv
  <1>2. client \in [Clients -> ClientRecord] /\ unauthed \subseteq Clients /\ jobs \subseteq JobRecord
    BY <1>1 DEF Types
  <1>3. client[c].refs >= Holders(c)
    BY <1>1 DEF ClientInv
  <1> QED
    BY <1>1, <1>2, <1>3, ClientFacts DEF Holders

LEMMA ConnectStep ==
  ASSUME CharSelectInv, NEW c \in Clients, Connect(c)
  PROVE  CharSelectInv'
  <1>1. /\ client' = [client EXCEPT ![c] = NewClient] /\ client[c] = Unborn
        /\ jobs' = jobs /\ unauthed' = unauthed /\ UNCHANGED zoneVars /\ timers' = timers
    BY DEF Connect, authVars, zoneVars
  <1>2. OnlyClient(c) /\ client'[c] = NewClient
    BY <1>1, ClientWritten, ClientConstants, InvOf
  <1>3. OnlyJobsOf(c) /\ (HasJob(c)' <=> HasJob(c))
    BY <1>1, JobsKept
  <1>4. ~HasJob(c) /\ c \notin unauthed
    BY <1>1, InvOf, ClientConstants DEF ClientInv
  <1>5. timers[c] = 0
    BY <1>1, InvOf, ClientConstants
  <1>6. Holders(c)' <= 1
    BY <1>1, <1>3, <1>4, <1>5 DEF Holders
  <1>7. ClientInv(c)'
    BY <1>1, <1>2, <1>3, <1>4, <1>6, ClientConstants DEF ClientInv
  <1> QED
    BY <1>1, <1>2, <1>3, <1>7, QuietStep

LEMMA DisconnectStep ==
  ASSUME CharSelectInv, NEW c \in Clients, Disconnect(c)
  PROVE  CharSelectInv'
  <1> DEFINE r == [client[c] EXCEPT !.up = FALSE]
  <1>1. client[c].up /\ Drop(c, r) /\ jobs' = jobs /\ UNCHANGED zoneVars /\ timers' = timers
    BY DEF Disconnect, zoneVars
  <1>2. /\ r \in ClientRecord /\ r.refs = client[c].refs /\ ~r.up
        /\ r.sent = client[c].sent /\ r.listed = client[c].listed
    BY InvOf DEF ClientRecord
  <1> HIDE DEF r
  <1>3. OnlyJobsOf(c) /\ (HasJob(c)' <=> HasJob(c))
    BY <1>1, JobsKept
  <1>4. r.refs >= 1 + (IF r.up THEN 1 ELSE 0) + (IF HasJob(c)' THEN 1 ELSE 0) + timers'[c]
    BY <1>1, <1>2, <1>3, InvOf
  <1>5. OnlyClient(c) /\ ClientInv(c)'
    BY <1>1, <1>2, <1>3, <1>4, InvOf, Dropped DEF ClientInv
  <1> QED
    BY <1>1, <1>3, <1>5, QuietStep

\* char_select_client_set_auth: the client waits no longer, and its first query
\* takes a reference.
LEMMA AuthStep ==
  ASSUME CharSelectInv, NEW c \in Clients, NEW authed \in BOOLEAN,
         NEW gone \in SUBSET jobs, \A g \in gone : g.who \notin Clients,
         SetAuth(c, authed, jobs \ gone), ~HasJob(c), ~client[c].listed,
         unauthed' = unauthed \ {c}, UNCHANGED zoneVars
  PROVE  CharSelectInv'
  <1> DEFINE n == client[c].refs + 1
             r == [client[c] EXCEPT !.sent = TRUE, !.authed = authed, !.refs = n]
             j == NewJob("account", c, "")
  <1>1. n \in Nat /\ client \in [Clients -> ClientRecord] /\ client[c] \in ClientRecord
    BY InvOf
  <1>2. client' = [client EXCEPT ![c] = r] /\ jobs' = (jobs \ gone) \cup {j} /\ timers' = timers
    BY <1>1 DEF SetAuth, zoneVars
  <1>3. /\ r \in ClientRecord /\ r.refs = n /\ r.up = client[c].up
        /\ r.sent /\ r.listed = client[c].listed
    BY <1>1 DEF ClientRecord
  <1>4. j \in JobRecord /\ j.who = c /\ j.op # "status"
    <2>1. "account" \in QueryOps
      BY DEF QueryOps
    <2>2. j \in JobRecord /\ j.who = c /\ j.op = "account"
      BY <2>1 DEF NewJob, JobRecord
    <2> QED
      BY <2>2
  <1> HIDE DEF r, j
  <1>5. OnlyClient(c) /\ client'[c] = r
    BY <1>2, <1>3, ClientWritten, InvOf
  <1>6. OnlyJobsOf(c) /\ HasJob(c)'
    BY <1>2, <1>4, JobAdded
  <1>7. client'[c].refs >= Holders(c)'
    BY <1>2, <1>3, <1>5, <1>6, InvOf DEF Holders
  <1>8. ClientInv(c)'
    BY <1>3, <1>5, <1>7 DEF ClientInv
  <1> QED
    BY <1>5, <1>6, <1>8, QuietStep

LEMMA LoginInfoStep ==
  ASSUME CharSelectInv, NEW c \in Clients, HandleLoginInfo(c)
  PROVE  CharSelectInv'
  <1>1. client[c].up /\ ~client[c].sent /\ UNCHANGED zoneVars
    BY DEF HandleLoginInfo
  <1>2. ~HasJob(c) /\ ~client[c].listed /\ c \notin unauthed
    BY <1>1, InvOf DEF ClientInv
  <1>3. CASE SetAuth(c, TRUE, jobs) /\ UNCHANGED unauthed
    <2>1. unauthed' = unauthed \ {c} /\ jobs = jobs \ {}
      BY <1>2, <1>3
    <2>2. SetAuth(c, TRUE, jobs \ {})
      BY <1>3, <2>1
    <2>3. {} \in SUBSET jobs /\ (\A g \in {} : g.who \notin Clients) /\ TRUE \in BOOLEAN
      OBVIOUS
    <2> QED
      BY <1>1, <1>2, <2>1, <2>2, <2>3, AuthStep, Zenon
  <1>4. CASE client' = [client EXCEPT ![c].sent = TRUE] /\ unauthed' = unauthed \cup {c} /\ UNCHANGED jobs
    <2> DEFINE r == [client[c] EXCEPT !.sent = TRUE]
    <2>1. client' = [client EXCEPT ![c] = r] /\ timers' = timers
      BY <1>1, <1>4, InvOf DEF zoneVars
    <2>2. /\ r \in ClientRecord /\ r.refs = client[c].refs /\ r.up = client[c].up
          /\ r.sent /\ r.listed = client[c].listed
      BY InvOf DEF ClientRecord
    <2> HIDE DEF r
    <2>3. OnlyClient(c) /\ client'[c] = r
      <3>1. unauthed' \in SUBSET Clients /\ \A u \in Clients : u # c => (u \in unauthed' <=> u \in unauthed)
        BY <1>4, InvOf
      <3> QED
        BY <2>1, <2>2, <3>1, ClientWritten
    <2>4. OnlyJobsOf(c) /\ (HasJob(c)' <=> HasJob(c))
      BY <1>4, JobsKept
    <2>5. client'[c].refs >= Holders(c)' /\ client'[c].refs > 0
      BY <1>1, <1>2, <2>1, <2>2, <2>3, <2>4, InvOf DEF Holders
    <2>6. ClientInv(c)'
      BY <1>2, <2>2, <2>3, <2>4, <2>5 DEF ClientInv
    <2> QED
      BY <1>1, <2>3, <2>4, <2>6, QuietStep
  <1> QED
    BY <1>3, <1>4 DEF HandleLoginInfo

\* Steps that concern no client
LEMMA QueriesOfAuths ==
  ASSUME CharSelectInv, UNCHANGED <<client, unauthed, zoneVars>>, jobs' \subseteq JobRecord,
         \A j \in JobRecord : j.who \in Clients => (j \in jobs' <=> j \in jobs),
         \A j \in jobs' : j.who \in Clients <=> j.op # "status"
  PROVE  CharSelectInv'
  <1>1. UNCHANGED timers
    BY DEF zoneVars
  <1>2. JobsInv' /\ ClientsInv'
    BY <1>1, StatusStep
  <1>3. client' \in [Clients -> ClientRecord] /\ unauthed' \subseteq Clients
    BY DEF CharSelectInv, Types
  <1> QED
    BY <1>2, <1>3, ZoneUnchanged

LEMMA NothingChanged ==
  ASSUME CharSelectInv, UNCHANGED <<client, jobs, unauthed, zoneVars>>
  PROVE  CharSelectInv'
  BY QueriesOfAuths DEF CharSelectInv, Types, JobsInv

LEMMA LoginAuthStep ==
  ASSUME CharSelectInv, NEW k \in Keys, HandleLoginAuth(k)
  PROVE  CharSelectInv'
  <1> DEFINE j == NewJob("status", k, "")
  <1>1. jobs' = jobs \cup {j} /\ UNCHANGED <<client, unauthed, zoneVars>>
    BY DEF HandleLoginAuth, LinkStep, authVars
  <1>2. j \in JobRecord /\ j.who \notin Clients /\ j.op = "status"
    <2>1. "status" \in QueryOps /\ k \notin Clients
      BY CharSelectAssumption DEF QueryOps
    <2> QED
      BY <2>1, JobMade
  <1> HIDE DEF j
  <1>3. jobs \subseteq JobRecord /\ \A x \in jobs : x.who \in Clients <=> x.op # "status"
    BY DEF CharSelectInv, Types, JobsInv
  <1>4. jobs' \subseteq JobRecord /\ \A x \in jobs' : x.who \in Clients <=> x.op # "status"
    BY <1>1, <1>2, <1>3
  <1>5. \A x \in JobRecord : x.who \in Clients => (x \in jobs' <=> x \in jobs)
    BY <1>1, <1>2
  <1> QED
    BY <1>1, <1>4, <1>5, QueriesOfAuths

LEMMA AccountStatusStep ==
  ASSUME CharSelectInv, NEW job \in jobs, AccountStatusCallback(job)
  PROVE  CharSelectInv'
  <1>1. job.op = "status" /\ UNCHANGED zoneVars
    BY DEF AccountStatusCallback, Due
  <1>2. /\ jobs \subseteq JobRecord /\ job.who \notin Clients
        /\ \A x \in jobs : x.who \in Clients <=> x.op # "status"
    BY <1>1 DEF CharSelectInv, Types, JobsInv
  <1>3. CASE jobs' = jobs \ {job} /\ UNCHANGED <<client, unauthed>>
    BY <1>1, <1>2, <1>3, QueriesOfAuths
  <1>4. ASSUME NEW c \in Waiting(job.who), NEW authed \in BOOLEAN,
               SetAuth(c, authed, jobs \ {job}), unauthed' = unauthed \ {c}
        PROVE  CharSelectInv'
    <2>1. c \in Clients /\ c \in unauthed
      BY DEF Waiting, CharSelectInv, Types
    <2>2. ~HasJob(c) /\ ~client[c].listed
      BY <2>1, InvOf DEF ClientInv
    <2>3. {job} \in SUBSET jobs /\ \A g \in {job} : g.who \notin Clients
      BY <1>2
    <2> QED
      BY <1>1, <1>4, <2>1, <2>2, <2>3, AuthStep, Zenon
  <1> QED
    BY <1>3, <1>4 DEF AccountStatusCallback, HandleClientAuth, authVars

-----------------------------------------------------------------------------
(* Queries *)

\* The query of a client is replaced by another, and takes over its reference;
\* or it failed, and left the reference behind.
LEMMA QueryStep ==
  ASSUME CharSelectInv, NEW job \in jobs, job.who \in Clients,
         NEW new \in SUBSET JobRecord, \A j \in new : j.who = job.who /\ j.op # "status",
         \A j, k \in new : j = k, jobs' = (jobs \ {job}) \cup new,
         NEW r \in ClientRecord, client' = [client EXCEPT ![job.who] = r],
         r.refs = client[job.who].refs, r.up = client[job.who].up,
         r.sent = client[job.who].sent, r.listed = client[job.who].listed,
         UNCHANGED <<unauthed, zoneVars>>
  PROVE  CharSelectInv'
  <1> DEFINE c == job.who
  <1>1. OnlyJobsOf(c) /\ HasJob(c)
    BY JobReplaced
  <1>2. OnlyClient(c) /\ client'[c] = r
    BY ClientWritten, InvOf
  <1>3. timers' = timers
    BY DEF zoneVars
  <1> HIDE DEF c
  <1>4. c \in Clients /\ unauthed' = unauthed /\ UNCHANGED zoneVars
    BY DEF c
  <1>5. /\ r.refs = client[c].refs /\ r.up = client[c].up
        /\ r.sent = client[c].sent /\ r.listed = client[c].listed
    BY DEF c
  <1>6. client'[c].refs >= Holders(c)'
    BY <1>1, <1>2, <1>3, <1>4, <1>5, InvOf DEF Holders
  <1>7. client[c].sent /\ c \notin unauthed
    BY <1>1, <1>4, InvOf DEF ClientInv
  <1>8. ClientInv(c)'
    BY <1>2, <1>4, <1>5, <1>6, <1>7 DEF ClientInv
  <1> QED
    BY <1>1, <1>2, <1>4, <1>8, QuietStep

LEMMA WhoIsClient ==
  ASSUME CharSelectInv, NEW job \in jobs, job.op # "status"
  PROVE  job.who \in Clients
  BY DEF CharSelectInv, JobsInv

LEMMA ExecuteStep ==
  ASSUME CharSelectInv, NEW job \in jobs, Execute(job)
  PROVE  CharSelectInv'
  <1> DEFINE fails == job.op = "pair" /\ AccountOf(job.who) \in pairs
             d == [job EXCEPT !.done = TRUE, !.hit = Hits(job)]
             new == IF fails THEN {} ELSE {d}
  <1>1. jobs' = (jobs \ {job}) \cup new /\ UNCHANGED <<client, unauthed, zoneVars>>
    BY DEF Execute, authVars
  <1>2. /\ jobs \subseteq JobRecord /\ client \in [Clients -> ClientRecord]
        /\ \A j \in jobs : j.who \in Clients <=> j.op # "status"
    BY DEF CharSelectInv, Types, JobsInv
  <1>3. Hits(job) \in BOOLEAN
    <2>1. CASE job.op = "name"
      BY <2>1 DEF Hits, Taken
    <2>2. CASE job.op = "create"
      BY <2>2 DEF Hits, Taken
    <2>3. CASE job.op = "delete"
      BY <2>3 DEF Hits
    <2>4. CASE job.op \notin {"name", "create", "delete"}
      BY <2>4 DEF Hits
    <2> QED
      BY <2>1, <2>2, <2>3, <2>4
  <1>4. d \in JobRecord /\ d.who = job.who /\ d.op = job.op
    BY <1>2, <1>3 DEF JobRecord
  <1> HIDE DEF d
  <1>5. new \in SUBSET JobRecord /\ (\A j \in new : j.who = job.who /\ j.op = job.op) /\ \A j, k \in new : j = k
    BY <1>4
  <1> HIDE DEF new
  <1>6. CASE job.who \in Clients
    <2>1. client' = [client EXCEPT ![job.who] = client[job.who]] /\ client[job.who] \in ClientRecord
      BY <1>1, <1>2, <1>6
    <2>2. \A j \in new : j.who = job.who /\ j.op # "status"
      BY <1>2, <1>5, <1>6
    <2> QED
      BY <1>1, <1>5, <1>6, <2>1, <2>2, QueryStep
  <1>7. CASE job.who \notin Clients
    <2>1. jobs' \subseteq JobRecord /\ \A j \in jobs' : j.who \in Clients <=> j.op # "status"
      BY <1>1, <1>2, <1>5
    <2>2. \A j \in JobRecord : j.who \in Clients => (j \in jobs' <=> j \in jobs)
      BY <1>1, <1>5, <1>7
    <2> QED
      BY <1>1, <2>1, <2>2, QueriesOfAuths
  <1> QED
    BY <1>6, <1>7

\* Another query follows, and the client may learn its account id.
LEMMA CarriedStep ==
  ASSUME CharSelectInv, NEW job \in jobs, job.op # "status",
         NEW op \in QueryOps \ {"status"}, jobs' = Carried(job, op),
         client' = client \/ client' = [client EXCEPT ![job.who].id = AccountOf(job.who)],
         UNCHANGED <<unauthed, zoneVars>>
  PROVE  CharSelectInv'
  <1> DEFINE c == job.who
             j == NewJob(op, c, "")
             d == [client[c] EXCEPT !.id = AccountOf(c)]
             new == {j}
  <1>1. c \in Clients /\ client \in [Clients -> ClientRecord] /\ client[c] \in ClientRecord
    BY WhoIsClient, InvOf
  <1>2. j \in JobRecord /\ j.who = c /\ j.op = op
    BY <1>1 DEF NewJob, JobRecord
  <1>3. jobs' = (jobs \ {job}) \cup new
    BY DEF Carried
  <1> HIDE DEF j
  <1>4. new \in SUBSET JobRecord /\ (\A x \in new : x.who = c /\ x.op # "status") /\ \A x, y \in new : x = y
    BY <1>2
  <1>5. AccountOf(c) \in Ids
    BY <1>1, CharSelectAssumption DEF AccountOf, Ids
  <1>6. /\ d \in ClientRecord /\ d.refs = client[c].refs /\ d.up = client[c].up
        /\ d.sent = client[c].sent /\ d.listed = client[c].listed
    BY <1>1, <1>5 DEF ClientRecord
  <1>7. client' = [client EXCEPT ![c] = client[c]] \/ client' = [client EXCEPT ![c] = d]
    BY <1>1
  <1>8. PICK r \in ClientRecord :
          /\ client' = [client EXCEPT ![c] = r] /\ r.refs = client[c].refs /\ r.up = client[c].up
          /\ r.sent = client[c].sent /\ r.listed = client[c].listed
    <2> HIDE DEF d
    <2> QED
      BY <1>1, <1>6, <1>7
  <1> HIDE DEF new, d
  <1> QED
    BY <1>1, <1>3, <1>4, <1>8, QueryStep

\* The last query of a client ends, and its reference is dropped.
LEMMA FinishStep ==
  ASSUME CharSelectInv, NEW job \in jobs, job.op # "status", NEW r \in ClientRecord,
         r.refs = client[job.who].refs, r.up = client[job.who].up, r.sent = client[job.who].sent,
         Finish(job, r)
  PROVE  CharSelectInv'
  <1> DEFINE c == job.who
  <1>1. c \in Clients
    BY WhoIsClient
  <1>2. jobs' = (jobs \ {job}) \cup {} /\ Drop(c, r) /\ UNCHANGED zoneVars /\ timers' = timers
    BY DEF Finish, zoneVars
  <1>3. OnlyJobsOf(c) /\ HasJob(c) /\ ~HasJob(c)'
    <2>1. {} \in SUBSET JobRecord
      OBVIOUS
    <2> QED
      BY <1>1, <1>2, <2>1, JobReplaced
  <1>4. r.refs = client[c].refs /\ r.up = client[c].up /\ r.sent = client[c].sent
    OBVIOUS
  <1> HIDE DEF c
  <1>5. client[c].sent /\ c \notin unauthed
    BY <1>1, <1>3, InvOf DEF ClientInv
  <1>6. r.refs >= 1 + (IF r.up THEN 1 ELSE 0) + (IF HasJob(c)' THEN 1 ELSE 0) + timers'[c]
    BY <1>1, <1>2, <1>3, <1>4, InvOf
  <1>7. timers'[c] \in Nat
    BY <1>1, <1>2, InvOf
  <1>8. OnlyClient(c) /\ ClientInv(c)'
    BY <1>1, <1>2, <1>4, <1>5, <1>6, <1>7, Dropped
  <1> QED
    BY <1>1, <1>2, <1>3, <1>8, QuietStep

LEMMA CallbackStep ==
  ASSUME CharSelectInv, NEW job \in jobs, Callback(job)
  PROVE  CharSelectInv'
  <1> DEFINE c == job.who
  <1>1. ASSUME job.op # "status"
        PROVE  c \in Clients /\ client[c] \in ClientRecord
    BY <1>1, WhoIsClient, InvOf
  <1>2. \A op \in {"characters", "pair", "transaction"} : op \in QueryOps \ {"status"}
    BY DEF QueryOps
  <1>3. CASE AccountIdCallback(job) \/ InsertAccountIdCallback(job)
    <2>1. /\ job.op # "status" /\ UNCHANGED <<unauthed, zoneVars>>
          /\ jobs' = Carried(job, "characters") \/ jobs' = Carried(job, "pair")
          /\ client' = client \/ client' = [client EXCEPT ![job.who].id = AccountOf(job.who)]
      BY <1>3 DEF AccountIdCallback, InsertAccountIdCallback, Due, authVars
    <2> QED
      BY <1>2, <2>1, CarriedStep
  <1>4. CASE CharactersCallback(job)
    <2> DEFINE r == [client[c] EXCEPT !.listed = TRUE]
    <2>1. job.op # "status" /\ Finish(job, r)
      BY <1>4 DEF CharactersCallback, Due
    <2>2. r \in ClientRecord /\ r.refs = client[c].refs /\ r.up = client[c].up /\ r.sent = client[c].sent
      BY <1>1, <2>1 DEF ClientRecord
    <2> HIDE DEF r
    <2> QED
      BY <2>1, <2>2, FinishStep
  <1>5. CASE NameCallback(job)
    <2> DEFINE b == client[c].approved \/ ~(job.hit \/ Taken(job.name))
               r == [client[c] EXCEPT !.approved = b]
    <2>1. job.op # "status" /\ Finish(job, r)
      BY <1>5 DEF NameCallback, Due
    <2>2. b \in BOOLEAN
      OBVIOUS
    <2> HIDE DEF b
    <2>3. r \in ClientRecord /\ r.refs = client[c].refs /\ r.up = client[c].up /\ r.sent = client[c].sent
      BY <1>1, <2>1, <2>2 DEF ClientRecord
    <2> HIDE DEF r
    <2> QED
      BY <2>1, <2>3, FinishStep
  <1>6. ASSUME NEW more \in BOOLEAN, CreateCallback(job, more)
        PROVE  CharSelectInv'
    <2> DEFINE r == [client[c] EXCEPT !.approved = FALSE]
    <2>1. job.op # "status"
      BY <1>6 DEF CreateCallback, Due
    <2>2. \/ /\ jobs' = Carried(job, "transaction") \/ jobs' = Carried(job, "characters")
             /\ client' = client /\ UNCHANGED <<unauthed, zoneVars>>
          \/ Finish(job, r)
      BY <1>6 DEF CreateCallback, authVars
    <2>3. r \in ClientRecord /\ r.refs = client[c].refs /\ r.up = client[c].up /\ r.sent = client[c].sent
      BY <1>1, <2>1 DEF ClientRecord
    <2> HIDE DEF r
    <2>4. CASE Finish(job, r)
      BY <2>1, <2>3, <2>4, FinishStep
    <2>5. CASE ~Finish(job, r)
      BY <1>2, <2>1, <2>2, <2>5, CarriedStep
    <2> QED
      BY <2>4, <2>5
  <1>7. CASE TransactionFinished(job)
    <2>1. /\ job.op # "status" /\ UNCHANGED <<unauthed, zoneVars>>
          /\ jobs' = Carried(job, "characters") /\ client' = client
      BY <1>7 DEF TransactionFinished, Due, authVars
    <2> QED
      BY <1>2, <2>1, CarriedStep
  <1>8. CASE DeleteCallback(job)
    <2>1. job.op # "status"
      BY <1>8 DEF DeleteCallback, Due
    <2>2. \/ jobs' = Carried(job, "characters") /\ client' = client /\ UNCHANGED <<unauthed, zoneVars>>
          \/ Finish(job, client[c])
      BY <1>8 DEF DeleteCallback, authVars
    <2>3. CASE Finish(job, client[c])
      BY <1>1, <2>1, <2>3, FinishStep
    <2>4. CASE ~Finish(job, client[c])
      BY <1>2, <2>1, <2>2, <2>4, CarriedStep
    <2> QED
      BY <2>3, <2>4
  <1> QED
    BY <1>3, <1>4, <1>5, <1>6, <1>7, <1>8, AccountStatusStep DEF Callback

-----------------------------------------------------------------------------
(* The character screen and zoning in *)

LEMMA ScreenStep ==
  ASSUME CharSelectInv, NEW c \in Clients, NEW op \in {"name", "create", "delete"},
         NEW name \in Names, Screen(c, op, name)
  PROVE  CharSelectInv'
  <1> DEFINE n == client[c].refs + 1
             r == [client[c] EXCEPT !.refs = n]
             j == NewJob(op, c, name)
  <1>1. n \in Nat /\ client \in [Clients -> ClientRecord] /\ client[c] \in ClientRecord
    BY InvOf
  <1>2. /\ client' = [client EXCEPT ![c] = r] /\ jobs' = (jobs \ {}) \cup {j}
        /\ UNCHANGED <<unauthed, zoneVars>> /\ timers' = timers
    BY <1>1 DEF Screen, authVars, zoneVars
  <1>3. client[c].listed /\ ~HasJob(c)
    BY DEF Screen, AtScreen, HasJob
  <1>4. /\ r \in ClientRecord /\ r.refs = n /\ r.up = client[c].up
        /\ r.sent = client[c].sent /\ r.listed = client[c].listed
    BY <1>1, RefsWritten
  <1>5. op \in QueryOps /\ op # "status"
    BY DEF QueryOps
  <1>6. j \in JobRecord /\ j.who = c /\ j.op # "status"
    BY <1>5 DEF NewJob, JobRecord
  <1> HIDE DEF r, j
  <1>7. OnlyClient(c) /\ client'[c] = r
    BY <1>2, <1>4, ClientWritten, InvOf
  <1>8. OnlyJobsOf(c) /\ HasJob(c)'
    <2>1. {} \in SUBSET jobs /\ \A g \in {} : g.who \notin Clients
      OBVIOUS
    <2> QED
      BY <1>2, <1>3, <1>6, <2>1, JobAdded
  <1>9. client'[c].refs >= Holders(c)'
    BY <1>2, <1>3, <1>4, <1>7, <1>8, InvOf DEF Holders
  <1>10. client[c].sent /\ c \notin unauthed
    BY <1>3, InvOf DEF ClientInv
  <1>11. ClientInv(c)'
    BY <1>2, <1>4, <1>7, <1>9, <1>10 DEF ClientInv
  <1> QED
    BY <1>2, <1>7, <1>8, <1>11, QuietStep

LEMMA CreateInvalidStep ==
  ASSUME CharSelectInv, NEW c \in Clients, CreateInvalid(c)
  PROVE  CharSelectInv'
  <1> DEFINE r == [client[c] EXCEPT !.approved = FALSE]
  <1>1. client \in [Clients -> ClientRecord] /\ client[c] \in ClientRecord
    BY InvOf
  <1>2. /\ client' = [client EXCEPT ![c] = r]
        /\ UNCHANGED <<jobs, unauthed, zoneVars>> /\ timers' = timers
    BY <1>1 DEF CreateInvalid, authVars, zoneVars
  <1>3. /\ r \in ClientRecord /\ r.refs = client[c].refs /\ r.up = client[c].up
        /\ r.sent = client[c].sent /\ r.listed = client[c].listed
    BY <1>1 DEF ClientRecord
  <1> HIDE DEF r
  <1>4. OnlyClient(c) /\ client'[c] = r
    BY <1>2, <1>3, ClientWritten, InvOf
  <1>5. OnlyJobsOf(c) /\ (HasJob(c)' <=> HasJob(c))
    BY <1>2, JobsKept
  <1>6. Holders(c)' = Holders(c)
    BY <1>2, <1>3, <1>4, <1>5 DEF Holders
  <1>7. ClientInv(c)'
    BY <1>2, <1>3, <1>4, <1>5, <1>6, InvOf DEF ClientInv
  <1> QED
    BY <1>2, <1>4, <1>5, <1>7, QuietStep

LEMMA CountFacts ==
  ASSUME CharSelectInv, NEW c \in Clients
  PROVE  /\ AttemptsOf(c) = IndexSet(attempts, c) /\ Cardinality(AttemptsOf(c)) \in Nat
         /\ answered[c] + Cardinality(AttemptsOf(c)) = entered[c]
         /\ Cardinality(AttemptsOf(c)) <= timers[c]
         /\ answered[c] \in Nat /\ entered[c] \in Nat /\ timers[c] \in Nat
  <1>1. attempts \in Seq(Attempt) /\ answered[c] \in Nat /\ entered[c] \in Nat /\ timers[c] \in Nat
    BY DEF CharSelectInv, Types
  <1>2. AttemptsOf(c) = IndexSet(attempts, c)
    BY DEF AttemptsOf, IndexSet
  <1>3. Cardinality(AttemptsOf(c)) \in Nat
    BY <1>1, <1>2, IndexSetFinite
  <1> QED
    BY <1>1, <1>2, <1>3 DEF CharSelectInv, ZoneInAnsweredOnce

\* A request is listed with a timer, and the timer takes a reference.
LEMMA EnterStep ==
  ASSUME CharSelectInv, NEW c \in Clients, HandleEnter(c)
  PROVE  CharSelectInv'
  <1> DEFINE n == client[c].refs + 1
             r == [client[c] EXCEPT !.refs = n]
             a == [account |-> client[c].id, client |-> c]
  <1>1. /\ n \in Nat /\ client \in [Clients -> ClientRecord] /\ client[c] \in ClientRecord
        /\ attempts \in Seq(Attempt)
    BY InvOf DEF CharSelectInv, Types
  <1>2. /\ client' = [client EXCEPT ![c] = r] /\ UNCHANGED <<jobs, unauthed, answered>>
        /\ attempts' = Append(attempts, a)
    BY <1>1 DEF HandleEnter, EnterRefs, authVars
  <1>3. /\ timers' \in [Clients -> Nat] /\ timers'[c] = timers[c] + 1
        /\ \A u \in Clients : u # c => timers'[u] = timers[u]
    BY DEF HandleEnter, CharSelectInv, Types
  <1>4. /\ entered' \in [Clients -> Nat] /\ entered'[c] = entered[c] + 1
        /\ \A u \in Clients : u # c => entered'[u] = entered[u]
    BY DEF HandleEnter, CharSelectInv, Types
  <1>5. /\ r \in ClientRecord /\ r.refs = n /\ r.up = client[c].up
        /\ r.sent = client[c].sent /\ r.listed = client[c].listed
    BY <1>1, RefsWritten
  <1>6. a \in Attempt /\ a.client = c
    BY <1>1 DEF Attempt, ClientRecord
  <1> HIDE DEF r, a
  <1>7. OnlyClient(c) /\ client'[c] = r
    BY <1>2, <1>5, ClientWritten, InvOf
  <1>8. OnlyJobsOf(c) /\ (HasJob(c)' <=> HasJob(c))
    BY <1>2, JobsKept
  <1>9. client'[c].refs >= Holders(c)'
    <2>1. client'[c].refs = n /\ (client'[c].up <=> client[c].up)
      BY <1>5, <1>7
    <2>2. client[c].refs >= Holders(c) /\ timers[c] \in Nat /\ client[c].refs \in Nat
      BY InvOf DEF ClientInv
    <2>3. Holders(c)' = Holders(c) + 1
      BY <1>3, <1>8, <2>1, <2>2 DEF Holders
    <2>4. Holders(c) \in Nat
      BY <2>2 DEF Holders
    <2> QED
      BY <1>2, <2>1, <2>2, <2>3, <2>4
  <1>10. client'[c].refs > 0
    BY <1>1, <1>5, <1>7, InvOf
  <1>11. ClientInv(c)'
    BY <1>2, <1>5, <1>7, <1>8, <1>9, <1>10, InvOf DEF ClientInv
  <1>12. JobsInv' /\ ClientsInv'
    BY <1>3, <1>7, <1>8, <1>11, StepOfClient
  <1>13. attempts' \in Seq(Attempt)
    BY <1>1, <1>2, <1>6, AttemptAdded
  <1>14. Types'
    BY <1>2, <1>3, <1>4, <1>7, <1>8, <1>13 DEF CharSelectInv, Types, OnlyClient, OnlyJobsOf
  <1>15. ASSUME NEW u \in Clients
         PROVE  /\ answered'[u] + Cardinality(AttemptsOf(u)') = entered'[u]
                /\ Cardinality(AttemptsOf(u)') <= timers'[u]
    <2>1. Cardinality(AttemptsOf(u)') = Cardinality(AttemptsOf(u)) + (IF c = u THEN 1 ELSE 0)
      <3>1. AttemptsOf(u)' = IndexSet(Append(attempts, a), u) /\ AttemptsOf(u) = IndexSet(attempts, u)
        BY <1>2 DEF AttemptsOf, IndexSet
      <3> QED
        BY <1>1, <1>6, <3>1, AttemptAdded
    <2>2. /\ Cardinality(AttemptsOf(u)) \in Nat /\ answered[u] \in Nat /\ entered[u] \in Nat
          /\ timers[u] \in Nat /\ answered[u] + Cardinality(AttemptsOf(u)) = entered[u]
          /\ Cardinality(AttemptsOf(u)) <= timers[u]
      BY CountFacts
    <2>3. CASE u = c
      <3>1. /\ answered'[u] = answered[u] /\ entered'[u] = entered[u] + 1
            /\ timers'[u] = timers[u] + 1
            /\ Cardinality(AttemptsOf(u)') = Cardinality(AttemptsOf(u)) + 1
        BY <1>2, <1>3, <1>4, <2>1, <2>3
      <3> QED
        BY <2>2, <3>1
    <2>4. CASE u # c
      BY <1>2, <1>3, <1>4, <2>1, <2>2, <2>4
    <2> QED
      BY <2>3, <2>4
  <1>16. ZoneInAnsweredOnce'
    BY <1>15 DEF ZoneInAnsweredOnce
  <1> QED
    BY <1>12, <1>14, <1>16 DEF CharSelectInv

\* An answer takes one attempt from the array and tells its client.
LEMMA Answered ==
  ASSUME CharSelectInv, NEW found \in SUBSET (DOMAIN attempts), Answer(found)
  PROVE  /\ attempts' \in Seq(Attempt) /\ answered' \in [Clients -> Nat]
         /\ \A u \in Clients :
              /\ answered'[u] + Cardinality(AttemptsOf(u)') = entered[u]
              /\ Cardinality(AttemptsOf(u)') <= Cardinality(AttemptsOf(u))
         /\ \A c \in Clients : found = AttemptsOf(c) /\ timers[c] > 0 =>
              Cardinality(AttemptsOf(c)') <= timers[c] - 1
  <1>1. /\ attempts \in Seq(Attempt) /\ answered \in [Clients -> Nat]
        /\ Len(attempts) \in Nat /\ DOMAIN attempts = 1 .. Len(attempts)
    BY IndexSetFinite DEF CharSelectInv, Types
  <1>2. CASE found = {}
    <2>1. attempts' = attempts /\ answered' = answered
      BY <1>2 DEF Answer
    <2>2. \A u \in Clients : AttemptsOf(u)' = AttemptsOf(u)
      BY <2>1 DEF AttemptsOf
    <2>3. \A u \in Clients : /\ answered'[u] + Cardinality(AttemptsOf(u)') = entered[u]
                             /\ Cardinality(AttemptsOf(u)') <= Cardinality(AttemptsOf(u))
      BY <2>1, <2>2, CountFacts
    <2>4. ASSUME NEW c \in Clients, found = AttemptsOf(c), timers[c] > 0
          PROVE  Cardinality(AttemptsOf(c)') <= timers[c] - 1
      <3>1. Cardinality(AttemptsOf(c)') = 0
        BY <1>2, <2>2, <2>4, FS_EmptySet
      <3> QED
        BY <2>4, <3>1, CountFacts
    <2> QED
      BY <1>1, <2>1, <2>3, <2>4
  <1>3. CASE found # {}
    <2> DEFINE k == Least(found)
               d == attempts[k].client
    <2>1. k \in found /\ k \in 1 .. Len(attempts)
      BY <1>1, <1>3, LeastFound
    <2>2. attempts' = SwapAndPop(attempts, k) /\ answered' = [answered EXCEPT ![d] = @ + 1]
      BY <1>3 DEF Answer
    <2>3. d \in Clients
      <3>1. attempts[k] \in Attempt
        BY <1>1, <2>1, ElementOfSeq
      <3> QED
        BY <3>1 DEF Attempt
    <2> HIDE DEF k
    <2>4. ASSUME NEW u \in Clients
          PROVE  Cardinality(AttemptsOf(u)') = Cardinality(AttemptsOf(u)) - (IF d = u THEN 1 ELSE 0)
      <3>1. AttemptsOf(u)' = IndexSet(SwapAndPop(attempts, k), u) /\ AttemptsOf(u) = IndexSet(attempts, u)
        BY <2>2 DEF AttemptsOf, IndexSet
      <3> QED
        BY <1>1, <2>1, <3>1, AttemptRemoved
    <2>5. attempts' \in Seq(Attempt)
      BY <1>1, <2>1, <2>2, AttemptRemoved
    <2>6. \A c \in Clients : found = AttemptsOf(c) => d = c
      BY <2>1 DEF AttemptsOf
    <2> HIDE DEF d
    <2>7. answered' \in [Clients -> Nat] /\ answered'[d] = answered[d] + 1
          /\ \A u \in Clients : u # d => answered'[u] = answered[u]
      BY <1>1, <2>2, <2>3
    <2>8. ASSUME NEW u \in Clients
          PROVE  /\ answered'[u] + Cardinality(AttemptsOf(u)') = entered[u]
                 /\ Cardinality(AttemptsOf(u)') <= Cardinality(AttemptsOf(u))
      <3>1. CASE u = d
        BY <2>4, <2>7, <3>1, CountFacts
      <3>2. CASE u # d
        BY <2>4, <2>7, <3>2, CountFacts
      <3> QED
        BY <3>1, <3>2
    <2>9. ASSUME NEW c \in Clients, found = AttemptsOf(c), timers[c] > 0
          PROVE  Cardinality(AttemptsOf(c)') <= timers[c] - 1
      <3>1. Cardinality(AttemptsOf(c)') = Cardinality(AttemptsOf(c)) - 1
        BY <2>4, <2>6, <2>9
      <3> QED
        BY <3>1, CountFacts
    <2> QED
      BY <2>5, <2>7, <2>8, <2>9
  <1> QED
    BY <1>2, <1>3

\* The master's answer: some client's attempt ends, and its timer goes on.
LEMMA ZoningAnswerStep ==
  ASSUME CharSelectInv, NEW a \in Accounts, HandleZoningAnswer(a)
  PROVE  CharSelectInv'
  <1> DEFINE found == {k \in DOMAIN attempts : attempts[k].account = a}
  <1>1. Answer(found) /\ UNCHANGED <<client, jobs, unauthed, timers, entered>>
    BY DEF HandleZoningAnswer, authVars
  <1>2. found \in SUBSET (DOMAIN attempts)
    OBVIOUS
  <1> HIDE DEF found
  <1>3. /\ attempts' \in Seq(Attempt) /\ answered' \in [Clients -> Nat]
        /\ \A u \in Clients :
             /\ answered'[u] + Cardinality(AttemptsOf(u)') = entered[u]
             /\ Cardinality(AttemptsOf(u)') <= Cardinality(AttemptsOf(u))
    BY <1>1, <1>2, Answered
  <1>4. Types'
    BY <1>1, <1>3 DEF CharSelectInv, Types
  <1>5. JobsInv' /\ ClientsInv'
    BY <1>1, StatusStep DEF CharSelectInv, Types, JobsInv
  <1>6. ASSUME NEW u \in Clients
        PROVE  /\ answered'[u] + Cardinality(AttemptsOf(u)') = entered'[u]
               /\ Cardinality(AttemptsOf(u)') <= timers'[u]
    <2>1. Cardinality(AttemptsOf(u)) <= timers[u] /\ Cardinality(AttemptsOf(u)) \in Nat /\ timers[u] \in Nat
      BY CountFacts
    <2>2. Cardinality(AttemptsOf(u)') \in Nat
      <3>1. AttemptsOf(u)' = IndexSet(attempts', u)
        BY DEF AttemptsOf, IndexSet
      <3> QED
        BY <1>3, <3>1, IndexSetFinite
    <2> QED
      BY <1>1, <1>3, <2>1, <2>2
  <1>7. ZoneInAnsweredOnce'
    BY <1>6 DEF ZoneInAnsweredOnce
  <1> QED
    BY <1>4, <1>5, <1>7 DEF CharSelectInv

\* A timer gives up its reference, and with it an attempt that is still listed.
LEMMA TimeoutStep ==
  ASSUME CharSelectInv, NEW c \in Clients, ZoneInTimeout(c)
  PROVE  CharSelectInv'
  <1>1. /\ timers[c] > 0 /\ Answer(AttemptsOf(c)) /\ Drop(c, client[c])
        /\ jobs' = jobs /\ entered' = entered
    BY DEF ZoneInTimeout, TimedOut, AttemptsOf
  <1>2. /\ timers' \in [Clients -> Nat] /\ timers'[c] = timers[c] - 1
        /\ \A u \in Clients : u # c => timers'[u] = timers[u]
    BY <1>1 DEF ZoneInTimeout, CharSelectInv, Types
  <1>3. OnlyJobsOf(c) /\ (HasJob(c)' <=> HasJob(c))
    BY <1>1, JobsKept
  <1>4. client[c].refs >= 1 + (IF client[c].up THEN 1 ELSE 0) + (IF HasJob(c)' THEN 1 ELSE 0) + timers'[c]
    BY <1>1, <1>2, <1>3, InvOf
  <1>5. OnlyClient(c) /\ ClientInv(c)'
    BY <1>1, <1>2, <1>3, <1>4, InvOf, Dropped DEF ClientInv
  <1>6. JobsInv' /\ ClientsInv'
    BY <1>2, <1>3, <1>5, StepOfClient
  <1>7. AttemptsOf(c) \in SUBSET (DOMAIN attempts)
    BY DEF AttemptsOf
  <1>8. /\ attempts' \in Seq(Attempt) /\ answered' \in [Clients -> Nat]
        /\ \A u \in Clients :
             /\ answered'[u] + Cardinality(AttemptsOf(u)') = entered[u]
             /\ Cardinality(AttemptsOf(u)') <= Cardinality(AttemptsOf(u))
        /\ Cardinality(AttemptsOf(c)') <= timers[c] - 1
    BY <1>1, <1>7, Answered
  <1>9. Types'
    BY <1>1, <1>2, <1>3, <1>5, <1>8 DEF CharSelectInv, Types, OnlyClient, OnlyJobsOf
  <1>10. ASSUME NEW u \in Clients
         PROVE  /\ answered'[u] + Cardinality(AttemptsOf(u)') = entered'[u]
                /\ Cardinality(AttemptsOf(u)') <= timers'[u]
    <2>1. Cardinality(AttemptsOf(u)) <= timers[u] /\ Cardinality(AttemptsOf(u)) \in Nat /\ timers[u] \in Nat
      BY CountFacts
    <2>2. Cardinality(AttemptsOf(u)') \in Nat
      <3>1. AttemptsOf(u)' = IndexSet(attempts', u)
        BY DEF AttemptsOf, IndexSet
      <3> QED
        BY <1>8, <3>1, IndexSetFinite
    <2>3. CASE u = c
      BY <1>1, <1>2, <1>8, <2>3
    <2>4. CASE u # c
      BY <1>1, <1>2, <1>8, <2>1, <2>2, <2>4
    <2> QED
      BY <2>3, <2>4
  <1>11. ZoneInAnsweredOnce'
    BY <1>10 DEF ZoneInAnsweredOnce
  <1> QED
    BY <1>6, <1>9, <1>11 DEF CharSelectInv

-----------------------------------------------------------------------------
(* The theorems *)

LEMMA CharSelectInit == Init => CharSelectInv
  <1> SUFFICES ASSUME Init PROVE CharSelectInv
    OBVIOUS
  <1>1. Types
    BY ClientConstants DEF Init, Types
  <1>2. JobsInv
    BY DEF Init, JobsInv
  <1>3. ASSUME NEW c \in Clients
        PROVE  ClientInv(c)
    <2>1. client[c] = Unborn /\ timers[c] = 0 /\ ~HasJob(c) /\ c \notin unauthed
      BY DEF Init, HasJob
    <2>2. Holders(c) = 0
      BY <2>1, ClientConstants DEF Holders
    <2> QED
      BY <2>1, <2>2, ClientConstants DEF ClientInv
  <1>4. ASSUME NEW c \in Clients
        PROVE  answered[c] + Cardinality(AttemptsOf(c)) = entered[c] /\ Cardinality(AttemptsOf(c)) <= timers[c]
    <2>1. AttemptsOf(c) = {}
      BY DEF Init, AttemptsOf
    <2>2. Cardinality(AttemptsOf(c)) = 0
      BY <2>1, FS_EmptySet
    <2> QED
      BY <2>2 DEF Init
  <1> QED
    BY <1>1, <1>2, <1>3, <1>4 DEF CharSelectInv, ClientsInv, ZoneInAnsweredOnce

LEMMA CharSelectNext ==
  ASSUME CharSelectInv, [Next]_vars
  PROVE  CharSelectInv'
  <1>1. CASE UNCHANGED vars
    BY <1>1, NothingChanged DEF vars, authVars
  <1>2. ASSUME NEW c \in Clients, Player(c)
        PROVE  CharSelectInv'
    BY <1>2, ConnectStep, DisconnectStep, LoginInfoStep, ScreenStep, CreateInvalidStep, EnterStep DEF Player
  <1>3. ASSUME NEW who \in Clients \cup Keys, Database(who)
        PROVE  CharSelectInv'
    BY <1>3, ExecuteStep, CallbackStep DEF Database
  <1>4. CASE LoginServer
    <2>1. CASE Reconnect \/ Restart \/ HandleLoginRequest \/ UnclaimedAuthsTimer
      <3>1. UNCHANGED <<client, jobs, unauthed, zoneVars>>
        BY <2>1 DEF Reconnect, Restart, HandleLoginRequest, UnclaimedAuthsTimer, LinkStep, authVars, vars
      <3> QED
        BY <3>1, NothingChanged
    <2> QED
      BY <1>4, <2>1, LoginAuthStep DEF LoginServer
  <1> QED
    BY <1>1, <1>2, <1>3, <1>4, TimeoutStep, ZoningAnswerStep DEF Next

\* The inductive invariant holds in every state.
THEOREM CharSelectInvariant == Spec => []CharSelectInv
  <1>1. Init => CharSelectInv
    BY CharSelectInit
  <1>2. CharSelectInv /\ [Next]_vars => CharSelectInv'
    BY CharSelectNext
  <1> QED
    BY <1>1, <1>2, PTL DEF Spec

\* char_select_client_drop frees a client only when neither its connection, nor
\* a query, a timer, an attempt to zone in or the list of clients without an
\* auth points to it.
THEOREM NoDanglingHolds == Spec => []NoDanglingClient
  <1>1. ASSUME CharSelectInv
        PROVE  NoDanglingClient
    <2>1. SUFFICES ASSUME NEW c \in Clients,
                          \/ c \in unauthed \/ AttemptsOf(c) # {} \/ timers[c] > 0 \/ client[c].up
                          \/ HasJob(c)
                   PROVE  client[c].refs > 0
      BY DEF NoDanglingClient, HasJob
    <2>2. CASE c \in unauthed
      BY <1>1, <2>2, InvOf DEF ClientInv
    <2>3. CASE timers[c] > 0 \/ client[c].up \/ HasJob(c)
      BY <1>1, <2>3, InvOf
    <2>4. CASE AttemptsOf(c) # {}
      <3>1. IsFiniteSet(AttemptsOf(c))
        BY <1>1, CountFacts, IndexSetFinite DEF CharSelectInv, Types
      <3>2. Cardinality(AttemptsOf(c)) # 0
        BY <2>4, <3>1, FS_EmptySet
      <3>3. timers[c] > 0
        BY <1>1, <3>2, CountFacts
      <3> QED
        BY <2>3, <3>3
    <2> QED
      BY <2>1, <2>2, <2>3, <2>4
  <1> QED
    BY <1>1, CharSelectInvariant, PTL

\* Each request to zone in is answered at most once, whether the master or the
\* timer is first, and an attempt that is still listed has a timer to end it.
THEOREM AnsweredOnceHolds == Spec => []ZoneInAnsweredOnce
  <1>1. CharSelectInv => ZoneInAnsweredOnce
    BY DEF CharSelectInv
  <1> QED
    BY <1>1, CharSelectInvariant, PTL
-----------------------------------------------------------------------------
(* Character: the inductive invariant *)

\* The items that have a prototype and are in the database.
KeptItems == IF cre.st = "created" THEN WithPrototype(cre.items) ELSE {}

SpellTables == {"spellbook", "memmed"}

\* What the sessions and the snapshots are measured by.
World == [st |-> cre.st, known |-> cre.known, iksar |-> cre.iksar, items |-> KeptItems,
          torn |-> torn, spells |-> [t \in SpellTables |-> disk[t]]]

IsSeq(s) == s \in Seq(Range(s))

GoodRows(t, rows) ==
    /\ IsTable(rows)
    /\ t = "skill" => \A r \in rows : Trained(r[2])
    /\ t = "bind" => \A r \in rows : r[2] # None

\* Unless a SELECT was torn, all copies of the spells are those of the database.
Untorn(w, t, rows) == ~w.torn /\ t \in SpellTables => rows = w.spells[t]

FoundRows(w, rows) == {r \in rows : r[2] \in w.known}

QueryOk(q, w) ==
    /\ q.t \in Tables
    /\ GoodRows(q.t, q.rows)
    /\ q.t = "inventory" => FoundRows(w, q.rows) = w.items
    /\ Untorn(w, q.t, q.was)

IsSkills(sk) == sk \in [skill : [SkillIds -> 0 .. 255], lang : [LangIds -> 0 .. 255]]

\* A skill has its first value or one that is saved.
SkillsOk(sk, iksar) ==
    /\ \A i \in LangIds : Trained(sk.lang[i])
    /\ \A i \in SkillIds \ LangIds :
         sk.skill[i] = InitSkills(UntrainedSkills, iksar).skill[i] \/ Trained(sk.skill[i])

BookOk(book) == IsTable(Range(book)) /\ book = Ordered(Range(book))
MemOk(mem) == mem = [i \in MemSlots |-> mem[i]]
BindsOk(bind) == bind = [i \in BindIds |-> bind[i]] /\ \A i \in BindIds : bind[i] # None

IsClient(m) == m = [stat |-> m.stat, sk |-> m.sk, inv |-> m.inv,
                    book |-> m.book, mem |-> m.mem, bind |-> m.bind]

LoadedOk(m, loaded, w) ==
    /\ IsClient(m)
    /\ IsSkills(m.sk)
    /\ "stats" \notin loaded => m.sk = UntrainedSkills
    /\ "stats" \in loaded => SkillsOk(m.sk, w.iksar)
    /\ "inventory" \in loaded => m.inv = LoadRows("inventory", EmptyInventory, w.items)
    /\ "spellbook" \in loaded => BookOk(m.book) /\ Untorn(w, "spellbook", SaveBook(m.book))
    /\ "memmed" \in loaded => MemOk(m.mem) /\ Untorn(w, "memmed", SaveMemmed(m.mem))
    /\ "bind" \in loaded => BindsOk(m.bind)

\* Each table is read once: it is waiting, it is being read or it is loaded.
Todo(c) == Range(c.todo)
Reading(c) == {q.t : q \in Range(c.out)}
Asked(c) == Todo(c) \cup Reading(c) \cup c.loaded

WorkOk(c) ==
    /\ IsSeq(c.todo) /\ IsSeq(c.out)
    /\ Asked(c) \subseteq Tables
    /\ \A i, j \in DOMAIN c.todo : c.todo[i] = c.todo[j] => i = j
    /\ \A i, j \in DOMAIN c.out : c.out[i].t = c.out[j].t => i = j
    /\ Todo(c) \cap Reading(c) = {} /\ Todo(c) \cap c.loaded = {} /\ Reading(c) \cap c.loaded = {}
    /\ "skill" \in Asked(c) => "stats" \in c.loaded

ShownOk(c) ==
    /\ c.shown.profile.carried = CarriedItems(c.m.inv)
    /\ c.shown.profile.bank = BankItems(c.m.inv)
    /\ c.shown.profile.charges = BankCharges(c.m.inv)

IsSession(c) == c = [st |-> c.st, todo |-> c.todo, out |-> c.out, loaded |-> c.loaded,
                     m |-> c.m, shown |-> c.shown]

SessionOk(c, w) ==
    /\ IsSession(c) /\ WorkOk(c)
    /\ c.st \in {"none", "loading", "in", "gone"}
    /\ c.st \in {"none", "gone"} => Asked(c) = {}
    /\ c.st \in {"loading", "in"} => w.st \in {"created", "orphan"}
    /\ c.st = "in" => c.loaded = Tables /\ ShownOk(c)
    /\ \A i \in DOMAIN c.out : QueryOk(c.out[i], w)
    /\ LoadedOk(c.m, c.loaded, w)

IsRows(rows) == rows = [t \in Tables |-> rows[t]] /\ \A t \in Tables : GoodRows(t, rows[t])

SnapshotOk(rows, w) ==
    /\ IsRows(rows)
    /\ \A t \in Tables : Untorn(w, t, rows[t])
    /\ rows["inventory"] = w.items

TxShape == tx = [rows |-> tx.rows, at |-> tx.at, deleted |-> tx.deleted]

\* How far the transaction has come with the table at place i
TableIs(i) ==
    /\ i < tx.at => db[Keyed[i]] = tx.rows[Keyed[i]]
    /\ i = tx.at /\ tx.deleted =>
         db[Keyed[i]] \subseteq tx.rows[Keyed[i]] /\ db[Keyed[i]] # tx.rows[Keyed[i]]
    /\ (i > tx.at \/ (i = tx.at /\ ~tx.deleted)) => db[Keyed[i]] = disk[Keyed[i]]

TxOk ==
    /\ TxShape
    /\ tx.at \in -1 .. 6 /\ tx.deleted \in BOOLEAN
    /\ tx.deleted => tx.at \in 1 .. 5
    /\ tx.at = -1 <=> tx = NoTx
    /\ tx.at >= 0 => SnapshotOk(tx.rows, World)
    /\ db["stats"] = IF tx.at >= 1 THEN tx.rows["stats"] ELSE disk["stats"]
    /\ \A i \in 1 .. 5 : TableIs(i)

DiskOk ==
    /\ IsRows(db) /\ IsRows(disk)
    /\ FoundRows(World, disk["inventory"]) = KeptItems
    /\ cre.st # "none" /\ ~torn =>
         /\ disk["spellbook"] \in Books
         /\ disk["memmed"] = {Lowest(disk["spellbook"])}

CreatedOk ==
    /\ cre.st \in {"none", "inserted", "created", "orphan"}
    /\ cre.st # "none" =>
         /\ cre = [st |-> cre.st, known |-> cre.known, iksar |-> cre.iksar,
                   items |-> cre.items, binds |-> cre.binds]
         /\ None \notin cre.known
         /\ IsTable(cre.items) /\ GoodRows("bind", cre.binds)
    /\ cre.st \in {"none", "inserted"} =>
         /\ pend = <<>> /\ tx = NoTx /\ disk["inventory"] = {}
         /\ \A s \in Sessions : cl[s].st = "none"

CharacterInv ==
    /\ CreatedOk /\ DiskOk /\ TxOk
    /\ IsSeq(pend) /\ \A i \in DOMAIN pend : SnapshotOk(pend[i].rows, World)
    /\ cl = [s \in Sessions |-> cl[s]] /\ \A s \in Sessions : SessionOk(cl[s], World)

-----------------------------------------------------------------------------
(* Rows, their least key and their order *)

\* A set of natural numbers has a least element.
LEMMA LeastNumber ==
  ASSUME NEW S \in SUBSET Nat, S # {}
  PROVE  \E x \in S : \A y \in S : x <= y
  <1> DEFINE R == {ss \in Nat \X Nat : ss[1] < ss[2]}
  <1>1. IsWellFoundedOn(R, Nat)
    BY NatLessThanWellFounded DEF OpToRel
  <1> HIDE DEF R
  <1>2. PICK x \in S : \A y \in S : ~(<<y, x>> \in R)
    BY <1>1, WFMin
  <1>3. ASSUME NEW y \in S
        PROVE  x <= y
    <2>1. x \in Nat /\ y \in Nat /\ <<y, x>> \notin R
      BY <1>2
    <2>2. ~(y < x)
      BY <2>1 DEF R
    <2> QED
      BY <2>1, <2>2
  <1> QED
    BY <1>3

LEMMA TablePart ==
  ASSUME NEW rows, IsTable(rows), NEW part \in SUBSET rows
  PROVE  IsTable(part)
  <1>1. IsFiniteSet(part)
    BY FS_Subset DEF IsTable
  <1> QED
    BY <1>1 DEF IsTable

LEMMA NoTableRows == IsTable({})
  BY FS_EmptySet DEF IsTable

LEMMA OneRow ==
  ASSUME NEW k \in Nat, NEW v
  PROVE  IsTable({<<k, v>>})
  <1>1. IsFiniteSet({<<k, v>>})
    BY FS_Singleton
  <1>2. \A r \in {<<k, v>>} : r \in Nat \X {r[2]}
    OBVIOUS
  <1> QED
    BY <1>1, <1>2 DEF IsTable

\* The first row a SELECT finds, and the next row a save inserts
LEMMA LowestFound ==
  ASSUME NEW rows, IsTable(rows), rows # {}
  PROVE  Lowest(rows) \in rows /\ \A o \in rows : Lowest(rows)[1] <= o[1]
  <1> DEFINE S == {r[1] : r \in rows}
  <1>1. \A r \in rows : r[1] \in Nat
    BY DEF IsTable
  <1>2. S \in SUBSET Nat /\ S # {}
    BY <1>1
  <1>3. PICK x \in S : \A y \in S : x <= y
    BY <1>2, LeastNumber
  <1>4. PICK r \in rows : r[1] = x
    BY <1>3
  <1>5. \A o \in rows : r[1] <= o[1]
    BY <1>3, <1>4
  <1> QED
    BY <1>5 DEF Lowest

\* The rows before a row
Before(rows, r) == {o \in rows : o[1] < r[1]}

LEMMA BeforeCount ==
  ASSUME NEW rows, IsTable(rows), NEW r \in rows
  PROVE  Cardinality(Before(rows, r)) \in 0 .. Cardinality(rows) - 1 /\ Cardinality(rows) \in Nat
  <1> DEFINE rest == rows \ {r}
  <1>1. IsFiniteSet(rows) /\ r[1] \in Nat
    BY DEF IsTable
  <1>2. IsFiniteSet(rest) /\ Cardinality(rest) = Cardinality(rows) - 1
    BY <1>1, FS_RemoveElement
  <1>3. Before(rows, r) \in SUBSET rest
    BY <1>1 DEF Before
  <1>4. IsFiniteSet(Before(rows, r)) /\ Cardinality(Before(rows, r)) <= Cardinality(rest)
    BY <1>2, <1>3, FS_Subset
  <1>5. Cardinality(Before(rows, r)) \in Nat /\ Cardinality(rows) \in Nat
    BY <1>1, <1>4, FS_CardinalityType
  <1> QED
    BY <1>2, <1>4, <1>5

LEMMA BeforeLess ==
  ASSUME NEW rows, IsTable(rows), NEW r \in rows, NEW o \in rows, r[1] < o[1]
  PROVE  Cardinality(Before(rows, r)) < Cardinality(Before(rows, o))
  <1>1. IsFiniteSet(rows) /\ \A x \in rows : x[1] \in Nat
    BY DEF IsTable
  <1>2. Before(rows, o) \in SUBSET rows /\ Before(rows, r) \in SUBSET Before(rows, o)
    BY <1>1 DEF Before
  <1>3. r \in Before(rows, o) /\ r \notin Before(rows, r)
    BY <1>1 DEF Before
  <1>4. IsFiniteSet(Before(rows, o))
    BY <1>1, <1>2, FS_Subset
  <1>5. /\ IsFiniteSet(Before(rows, r))
        /\ Cardinality(Before(rows, r)) <= Cardinality(Before(rows, o))
        /\ Cardinality(Before(rows, o)) = Cardinality(Before(rows, r)) => Before(rows, o) = Before(rows, r)
    BY <1>2, <1>4, FS_Subset
  <1>6. Cardinality(Before(rows, r)) \in Nat /\ Cardinality(Before(rows, o)) \in Nat
    BY <1>4, <1>5, FS_CardinalityType
  <1> QED
    BY <1>3, <1>5, <1>6

LEMMA BeforeInjective ==
  ASSUME NEW rows, IsTable(rows), NEW r \in rows, NEW o \in rows,
         Cardinality(Before(rows, r)) = Cardinality(Before(rows, o))
  PROVE  r = o
  <1>1. r[1] \in Nat /\ o[1] \in Nat
    BY DEF IsTable
  <1>2. Cardinality(Before(rows, r)) \in Int /\ Cardinality(Before(rows, o)) \in Int
    BY BeforeCount
  <1>3. ~(r[1] < o[1]) /\ ~(o[1] < r[1])
    BY <1>2, BeforeLess
  <1>4. r[1] = o[1]
    BY <1>1, <1>3
  <1> QED
    BY <1>4 DEF IsTable

\* Every place has its row.
LEMMA BeforeOnto ==
  ASSUME NEW rows, IsTable(rows), NEW k \in 0 .. Cardinality(rows) - 1
  PROVE  \E r \in rows : Cardinality(Before(rows, r)) = k
  <1> DEFINE n == Cardinality(rows)
             f == [r \in rows |-> Cardinality(Before(rows, r))]
             T == 0 .. n - 1
  <1>1. IsFiniteSet(rows) /\ n \in Nat
    BY FS_CardinalityType DEF IsTable
  <1>2. IsFiniteSet(T) /\ Cardinality(T) = n
    BY <1>1, FS_Interval
  <1>3. f \in [rows -> T]
    BY BeforeCount
  <1>4. \A r, o \in rows : f[r] = f[o] => r = o
    BY BeforeInjective
  <1>5. f \in Injection(rows, T)
    BY <1>3, <1>4 DEF Injection, IsInjective
  <1>6. f \in Surjection(rows, T)
    BY <1>1, <1>2, <1>5, FS_Injection
  <1>7. \A t \in T : \E r \in rows : f[r] = t
    BY <1>6 DEF Surjection
  <1> QED
    BY <1>7

LEMMA OrderedFacts ==
  ASSUME NEW rows, IsTable(rows)
  PROVE  /\ Cardinality(rows) \in Nat
         /\ Ordered(rows) \in [1 .. Cardinality(rows) -> rows]
         /\ Ordered(rows) \in Seq(rows) /\ Len(Ordered(rows)) = Cardinality(rows)
         /\ Range(Ordered(rows)) = rows
  <1> DEFINE n == Cardinality(rows)
             At(k) == CHOOSE r \in rows : Cardinality(Before(rows, r)) = k - 1
  <1>1. n \in Nat
    BY FS_CardinalityType DEF IsTable
  <1>2. Ordered(rows) = [k \in 1 .. n |-> At(k)]
    BY DEF Ordered, Before
  <1>3. ASSUME NEW k \in 1 .. n
        PROVE  At(k) \in rows /\ Cardinality(Before(rows, At(k))) = k - 1
    <2>1. k - 1 \in 0 .. n - 1
      BY <1>1
    <2>2. \E r \in rows : Cardinality(Before(rows, r)) = k - 1
      BY <2>1, BeforeOnto
    <2> QED
      BY <2>2
  <1>4. Ordered(rows) \in [1 .. n -> rows]
    BY <1>2, <1>3
  <1>5. ASSUME NEW r \in rows
        PROVE  r \in Range(Ordered(rows))
    <2>1. Cardinality(Before(rows, r)) \in 0 .. n - 1
      BY BeforeCount
    <2>2. PICK k \in 1 .. n : k - 1 = Cardinality(Before(rows, r))
      <3>1. PICK c : c = Cardinality(Before(rows, r))
        OBVIOUS
      <3>2. c + 1 \in 1 .. n /\ (c + 1) - 1 = c
        BY <1>1, <2>1, <3>1
      <3> QED
        BY <3>1, <3>2
    <2>3. At(k) \in rows /\ Cardinality(Before(rows, At(k))) = Cardinality(Before(rows, r))
      BY <1>3, <2>2
    <2>4. PICK o : o = At(k)
      OBVIOUS
    <2>5. o = r
      BY <2>3, <2>4, BeforeInjective
    <2> QED
      BY <1>2, <2>4, <2>5 DEF Range
  <1>6. Range(Ordered(rows)) \subseteq rows
    BY <1>4 DEF Range
  <1>7. Ordered(rows) \in Seq(rows) /\ Len(Ordered(rows)) = n
    BY <1>1, <1>4
  <1> QED
    BY <1>1, <1>4, <1>5, <1>6, <1>7
-----------------------------------------------------------------------------
(* Loading row by row *)

\* The recursion of LoadRows has a solution.
LEMMA LoadRowsEquation ==
  ASSUME NEW t, NEW start, NEW rows, IsTable(rows)
  PROVE  \E g : /\ \A k \in 0 .. Cardinality(rows) :
                     g[k] = IF k = 0 THEN start ELSE LoadRow(t, g[k - 1], Ordered(rows)[k])
                /\ LoadRows(t, start, rows) = g[Cardinality(rows)]
  <1> DEFINE n == Cardinality(rows)
             After(x, k) == LoadRow(t, x, Ordered(rows)[k])
             IsUpTo(g, m) == g = [k \in 0 .. m |-> IF k = 0 THEN start ELSE After(g[k - 1], k)]
             Without == {m \in 0 .. n : ~ \E g : IsUpTo(g, m)}
  <1>0. n \in Nat /\ Len(Ordered(rows)) = n
    BY OrderedFacts
  <1> HIDE DEF After
  <1>1. Without = {}
    <2>1. SUFFICES ASSUME Without # {}
                   PROVE  FALSE
      OBVIOUS
    <2>2. Without \in SUBSET Nat
      BY <1>0
    <2>3. PICK m \in Without : \A y \in Without : m <= y
      BY <2>1, <2>2, LeastNumber
    <2>4. m \in 0 .. n /\ ~ \E g : IsUpTo(g, m)
      BY <2>3
    <2>5. m # 0
      <3>1. IsUpTo([k \in 0 .. 0 |-> start], 0)
        OBVIOUS
      <3> QED
        BY <2>4, <3>1
    <2>6. m - 1 \in 0 .. n /\ m - 1 \notin Without
      BY <1>0, <2>3, <2>4, <2>5
    <2>7. PICK g : IsUpTo(g, m - 1)
      BY <2>6
    <2> DEFINE h == [k \in 0 .. m |-> IF k = m THEN After(g[m - 1], m) ELSE g[k]]
    <2>8. ASSUME NEW k \in 0 .. m
          PROVE  h[k] = IF k = 0 THEN start ELSE After(h[k - 1], k)
      <3>1. CASE k = m
        <4>1. m - 1 \in 0 .. m /\ m - 1 # m
          BY <1>0, <2>4, <2>5
        <4>2. h[m - 1] = g[m - 1] /\ h[m] = After(g[m - 1], m)
          BY <4>1, <3>1
        <4> QED
          BY <2>5, <3>1, <4>2
      <3>2. CASE k # m
        <4>1. k \in 0 .. m - 1 /\ (k # 0 => k - 1 \in 0 .. m /\ k - 1 # m)
          BY <1>0, <2>4, <3>2
        <4>2. h[k] = g[k] /\ (k # 0 => h[k - 1] = g[k - 1])
          BY <3>2, <4>1
        <4>3. g[k] = IF k = 0 THEN start ELSE After(g[k - 1], k)
          BY <2>7, <4>1
        <4> QED
          BY Zenon, <4>2, <4>3
      <3> QED
        BY <3>1, <3>2
    <2>9. IsUpTo(h, m)
      <3>1. h = [k \in 0 .. m |-> h[k]]
        OBVIOUS
      <3> HIDE DEF h
      <3> QED
        BY <2>8, <3>1
    <2> QED
      BY <2>4, <2>9
  <1>2. n \in 0 .. n /\ n \notin Without
    BY <1>0, <1>1
  <1>3. \E g : IsUpTo(g, n)
    BY <1>2
  <1>4. PICK g : g = CHOOSE f : IsUpTo(f, n)
    OBVIOUS
  <1>5. IsUpTo(g, n)
    BY Zenon, <1>3, <1>4
  <1>6. LoadRows(t, start, rows) = g[n]
    BY Zenon, <1>0, <1>4 DEF LoadRows, After
  <1>7. \A k \in 0 .. n : g[k] = IF k = 0 THEN start ELSE After(g[k - 1], k)
    BY <1>5
  <1> QED
    BY Zenon, <1>6, <1>7 DEF After

Cursor == <<InvSlot_Cursor, None>>

\* The array after some rows: the cursor's entry, which has no item, and the rows.
HoldsRows(x, rows) ==
    /\ x = [slots |-> x.slots, primaryIndex |-> x.primaryIndex, queue |-> x.queue]
    /\ IsSeq(x.slots) /\ Len(x.slots) >= 1
    /\ x.slots[1] = Cursor
    /\ Range(x.slots) = {Cursor} \cup rows

LEMMA SeqAppended ==
  ASSUME NEW s, IsSeq(s), NEW e
  PROVE  /\ IsSeq(Append(s, e)) /\ Range(Append(s, e)) = Range(s) \cup {e}
         /\ Len(s) \in Nat /\ Len(Append(s, e)) = Len(s) + 1
         /\ \A i \in 1 .. Len(s) : Append(s, e)[i] = s[i]
         /\ Append(s, e)[Len(s) + 1] = e
  <1> DEFINE S == Range(s) \cup {e}
             n == Len(s)
             a == Append(s, e)
  <1>1. s \in Seq(S) /\ n \in Nat /\ DOMAIN s = 1 .. n
    BY DEF IsSeq
  <1>2. a \in Seq(S) /\ Len(a) = n + 1 /\ DOMAIN a = 1 .. n + 1
    BY <1>1
  <1>3. (\A i \in 1 .. n : a[i] = s[i]) /\ a[n + 1] = e
    BY <1>1
  <1> HIDE DEF a, n
  <1>4. Range(a) = S
    <2>1. ASSUME NEW x \in Range(a) PROVE x \in S
      <3>1. PICK i \in 1 .. n + 1 : x = a[i]
        BY <1>2 DEF Range
      <3>2. i = n + 1 \/ i \in 1 .. n
        BY <1>1, <3>1
      <3> QED
        BY <1>1, <1>3, <3>1, <3>2 DEF Range
    <2>2. ASSUME NEW x \in S PROVE x \in Range(a)
      <3>1. CASE x = e
        BY <1>1, <1>2, <1>3, <3>1 DEF Range
      <3>2. CASE x \in Range(s)
        <4>1. PICK i \in 1 .. n : x = s[i]
          BY <1>1, <3>2 DEF Range
        <4>2. i \in 1 .. n + 1 /\ a[i] = x
          BY <1>1, <1>3, <4>1
        <4> QED
          BY <1>2, <4>2 DEF Range
      <3> QED
        BY <3>1, <3>2
    <2> QED
      BY <2>1, <2>2
  <1> QED
    BY <1>1, <1>2, <1>3, <1>4 DEF IsSeq, a, n

LEMMA ItemAdded ==
  ASSUME NEW x, NEW rows, HoldsRows(x, rows), NEW r
  PROVE  HoldsRows(LoadRow("inventory", x, r), rows \cup {r})
  <1> DEFINE y == LoadRow("inventory", x, r)
             p == IF r[1] = InvSlot_Primary THEN Len(x.slots) ELSE x.primaryIndex
  <1>1. x.slots[1][2] = None
    BY DEF HoldsRows, Cursor
  <1>2. y = [x EXCEPT !.slots = Append(x.slots, r), !.primaryIndex = p]
    BY <1>1 DEF LoadRow, AddItem
  <1>3. y = [slots |-> Append(x.slots, r), primaryIndex |-> p, queue |-> x.queue]
    <2>1. PICK a, b, c : x = [slots |-> a, primaryIndex |-> b, queue |-> c]
      BY DEF HoldsRows
    <2> HIDE DEF y, p
    <2> QED
      BY <1>2, <2>1
  <1> HIDE DEF y, p
  <1>4. /\ IsSeq(Append(x.slots, r)) /\ Range(Append(x.slots, r)) = Range(x.slots) \cup {r}
        /\ Len(x.slots) \in Nat /\ Len(Append(x.slots, r)) = Len(x.slots) + 1
        /\ \A i \in 1 .. Len(x.slots) : Append(x.slots, r)[i] = x.slots[i]
    BY SeqAppended DEF HoldsRows
  <1>5. Append(x.slots, r)[1] = Cursor /\ Len(Append(x.slots, r)) >= 1
    BY <1>4 DEF HoldsRows
  <1>6. PICK z : z = Append(x.slots, r)
    OBVIOUS
  <1>7. y.slots = z /\ y.primaryIndex = p /\ y.queue = x.queue
    BY <1>3, <1>6
  <1>8. y = [slots |-> y.slots, primaryIndex |-> y.primaryIndex, queue |-> y.queue]
    BY <1>3, <1>6, <1>7
  <1>9. IsSeq(z) /\ Len(z) >= 1 /\ z[1] = Cursor /\ Range(z) = {Cursor} \cup (rows \cup {r})
    BY <1>4, <1>5, <1>6 DEF HoldsRows
  <1>10. HoldsRows(y, rows \cup {r})
    BY <1>7, <1>8, <1>9 DEF HoldsRows
  <1> QED
    BY <1>10 DEF y

LEMMA EmptyHoldsNone == HoldsRows(EmptyInventory, {})
  <1> DEFINE s == <<Cursor>>
  <1>1. EmptyInventory = [slots |-> s, primaryIndex |-> -1, queue |-> <<>>]
    BY DEF EmptyInventory, Cursor
  <1>2. s \in Seq({Cursor}) /\ Len(s) = 1 /\ s[1] = Cursor /\ Range(s) = {Cursor}
    BY DEF Range
  <1> HIDE DEF s
  <1>3. IsSeq(s)
    BY <1>2 DEF IsSeq
  <1> QED
    BY <1>1, <1>2, <1>3 DEF HoldsRows

\* What is loaded is saved again: all rows, and nothing else.
LEMMA InventoryLoaded ==
  ASSUME NEW rows, IsTable(rows), \A r \in rows : r[2] # None
  PROVE  SaveInventory(LoadRows("inventory", EmptyInventory, rows)) = rows
  <1> DEFINE n == Cardinality(rows)
             s == Ordered(rows)
             Upto(k) == {s[j] : j \in 1 .. k}
  <1>1. n \in Nat /\ s \in [1 .. n -> rows] /\ Range(s) = rows
    BY OrderedFacts
  <1>2. PICK g : /\ \A k \in 0 .. n :
                      g[k] = IF k = 0 THEN EmptyInventory ELSE LoadRow("inventory", g[k - 1], s[k])
                 /\ LoadRows("inventory", EmptyInventory, rows) = g[n]
    BY LoadRowsEquation
  <1> HIDE DEF s, n
  <1> DEFINE Bad == {k \in 0 .. n : ~HoldsRows(g[k], Upto(k))}
  <1>3. Bad = {}
    <2>1. SUFFICES ASSUME Bad # {} PROVE FALSE
      OBVIOUS
    <2>2. Bad \in SUBSET Nat
      BY <1>1
    <2>3. PICK k \in Bad : \A y \in Bad : k <= y
      BY <2>1, <2>2, LeastNumber
    <2>4. k \in 0 .. n /\ ~HoldsRows(g[k], Upto(k))
      BY <2>3
    <2>5. CASE k = 0
      <3>1. g[k] = EmptyInventory
        BY <1>2, <2>4, <2>5
      <3>2. Upto(k) = {}
        BY <2>5
      <3> QED
        BY <2>4, <3>1, <3>2, EmptyHoldsNone
    <2>6. CASE k # 0
      <3>0. k \in Int /\ k - 1 \in 0 .. n /\ ~(k <= k - 1)
        BY <1>1, <2>4, <2>6
      <3>1. k - 1 \in 0 .. n /\ k - 1 \notin Bad
        <4> HIDE DEF Bad
        <4> QED
          BY <2>3, <3>0
      <3>2. HoldsRows(g[k - 1], Upto(k - 1))
        BY <3>1
      <3>3. g[k] = LoadRow("inventory", g[k - 1], s[k])
        BY <1>2, <2>4, <2>6
      <3>4. Upto(k) = Upto(k - 1) \cup {s[k]}
        <4>1. 1 .. k = (1 .. (k - 1)) \cup {k}
          BY <1>1, <2>4, <2>6
        <4> QED
          BY <4>1
      <3>5. PICK u : u = Upto(k - 1)
        OBVIOUS
      <3>6. HoldsRows(g[k], u \cup {s[k]})
        BY <3>2, <3>3, <3>5, ItemAdded
      <3> QED
        BY <2>4, <3>4, <3>5, <3>6
    <2> QED
      BY <2>5, <2>6
  <1>4. n \in 0 .. n /\ n \notin Bad
    <2>1. n \in 0 .. n
      BY <1>1
    <2> HIDE DEF Bad
    <2> QED
      BY <1>3, <2>1
  <1>5. HoldsRows(g[n], Upto(n))
    BY <1>4
  <1>6. Upto(n) = rows
    BY <1>1 DEF Range
  <1>7. Range(g[n].slots) = {Cursor} \cup rows
    BY <1>5, <1>6 DEF HoldsRows
  <1> QED
    BY <1>2, <1>7 DEF SaveInventory, Cursor
-----------------------------------------------------------------------------
(* Skills, bind points, gems and the book: what is saved is loaded again *)

\* The rows of an array
LEMMA ArrayRows ==
  ASSUME NEW S \in SUBSET Nat, IsFiniteSet(S), NEW f
  PROVE  IsTable({<<i, f[i]>> : i \in S})
  <1> DEFINE T == {<<i, f[i]>> : i \in S}
             g == [i \in S |-> <<i, f[i]>>]
  <1>1. g \in Surjection(S, T)
    BY DEF Surjection
  <1>2. IsFiniteSet(T)
    BY <1>1, FS_Surjection
  <1>3. ASSUME NEW r \in T PROVE r \in Nat \X {r[2]}
    <2>1. PICK i \in S : r = <<i, f[i]>>
      OBVIOUS
    <2>2. i \in Nat
      OBVIOUS
    <2> QED
      BY <2>1, <2>2
  <1>4. \A r, o \in T : r[1] = o[1] => r = o
    OBVIOUS
  <1> QED
    BY <1>2, <1>3, <1>4 DEF IsTable

LEMMA SavedBinds ==
  ASSUME NEW bind, BindsOk(bind)
  PROVE  GoodRows("bind", SaveBinds(bind)) /\ LoadBinds(SaveBinds(bind)) = bind
  <1>0. BindCount \in Nat
    BY CharacterAssumption
  <1>1. IsFiniteSet(BindIds) /\ BindIds \in SUBSET Nat
    BY <1>0, FS_Interval DEF BindIds
  <1>2. DOMAIN bind = BindIds /\ {j \in DOMAIN bind : bind[j] # None} = BindIds
    BY DEF BindsOk
  <1>3. SaveBinds(bind) = {<<i, bind[i]>> : i \in BindIds}
    BY <1>2 DEF SaveBinds
  <1>4. IsTable(SaveBinds(bind)) /\ \A r \in SaveBinds(bind) : r[2] # None
    BY <1>1, <1>3, ArrayRows DEF BindsOk
  <1> DEFINE rows == SaveBinds(bind)
             set == [i \in BindIds |-> IF \E r \in rows : r[1] = i
                                       THEN (CHOOSE r \in rows : r[1] = i)[2] ELSE None]
             named == {i \in BindIds : set[i] # None}
             fill == IF named = {} THEN Qeynos ELSE set[CHOOSE i \in named : \A j \in named : i <= j]
  <1>5. ASSUME NEW i \in BindIds PROVE set[i] = bind[i] /\ bind[i] # None
    <2>1. <<i, bind[i]>> \in rows /\ \A r \in rows : r[1] = i => r = <<i, bind[i]>>
      BY <1>3
    <2>2. (CHOOSE r \in rows : r[1] = i) = <<i, bind[i]>>
      BY <2>1
    <2> QED
      BY <2>1, <2>2 DEF BindsOk
  <1>6. LoadBinds(rows) = [i \in BindIds |-> IF set[i] = None THEN fill ELSE set[i]]
    BY DEF LoadBinds
  <1> HIDE DEF set, fill, rows
  <1>7. LoadBinds(rows) = [i \in BindIds |-> bind[i]]
    BY <1>5, <1>6
  <1> QED
    BY <1>4, <1>7 DEF GoodRows, BindsOk, rows

\* client_fill_in_missing_bind_points leaves no bind point unset.
LEMMA LoadedBinds ==
  ASSUME NEW rows, GoodRows("bind", rows)
  PROVE  BindsOk(LoadBinds(rows))
  <1> DEFINE set == [i \in BindIds |-> IF \E r \in rows : r[1] = i
                                       THEN (CHOOSE r \in rows : r[1] = i)[2] ELSE None]
             named == {i \in BindIds : set[i] # None}
             fill == IF named = {} THEN Qeynos ELSE set[CHOOSE i \in named : \A j \in named : i <= j]
  <1>0. BindCount \in Nat /\ None # Qeynos
    BY CharacterAssumption
  <1>1. LoadBinds(rows) = [i \in BindIds |-> IF set[i] = None THEN fill ELSE set[i]]
    BY DEF LoadBinds
  <1>2. fill # None
    <2>1. CASE named = {}
      BY <1>0, <2>1
    <2>2. CASE named # {}
      <3>1. named \in SUBSET Nat
        BY <1>0 DEF BindIds
      <3>2. \E x \in named : \A y \in named : x <= y
        BY <2>2, <3>1, LeastNumber
      <3>3. PICK c : c = CHOOSE i \in named : \A j \in named : i <= j
        OBVIOUS
      <3>4. c \in named
        <4> HIDE DEF named
        <4> QED
          BY <3>2, <3>3
      <3>5. set[c] # None
        BY <3>4
      <3> HIDE DEF set, named
      <3> QED
        BY <2>2, <3>3, <3>5
    <2> QED
      BY <2>1, <2>2
  <1> HIDE DEF set, fill
  <1> QED
    BY <1>1, <1>2 DEF BindsOk

LEMMA MemSlotsFinite == IsFiniteSet(MemSlots) /\ MemSlots \in SUBSET Nat
  <1>1. 0 \in Int /\ 8 \in Int
    OBVIOUS
  <1>2. IsFiniteSet(0 .. 8)
    BY <1>1, FS_Interval
  <1> QED
    BY <1>2 DEF MemSlots

LEMMA SavedMemmed ==
  ASSUME NEW mem, MemOk(mem)
  PROVE  GoodRows("memmed", SaveMemmed(mem)) /\ LoadMemmed(SaveMemmed(mem)) = mem
  <1> DEFINE S == {j \in MemSlots : mem[j] # None}
             rows == SaveMemmed(mem)
  <1>1. rows = {<<i, mem[i]>> : i \in S}
    BY DEF SaveMemmed
  <1>2. S \in SUBSET Nat /\ IsFiniteSet(S)
    BY MemSlotsFinite, FS_Subset
  <1> HIDE DEF S
  <1>3. IsTable(rows)
    BY <1>1, <1>2, ArrayRows
  <1>4. ASSUME NEW i \in MemSlots
        PROVE  mem[i] = IF \E r \in rows : r[1] = i THEN (CHOOSE r \in rows : r[1] = i)[2] ELSE None
    <2>1. CASE mem[i] = None
      <3>1. \A r \in rows : r[1] # i
        BY <1>1, <2>1 DEF S
      <3> QED
        BY <2>1, <3>1
    <2>2. CASE mem[i] # None
      <3>1. <<i, mem[i]>> \in rows /\ \A r \in rows : r[1] = i => r = <<i, mem[i]>>
        BY <1>1, <2>2 DEF S
      <3>2. (CHOOSE r \in rows : r[1] = i) = <<i, mem[i]>>
        BY <3>1
      <3> QED
        BY <3>1, <3>2
    <2> QED
      BY <2>1, <2>2
  <1> HIDE DEF rows
  <1>5. LoadMemmed(rows) = [i \in MemSlots |-> mem[i]]
    BY <1>4 DEF LoadMemmed
  <1> QED
    BY <1>3, <1>5 DEF GoodRows, MemOk, rows

LEMMA LoadedMemmed ==
  ASSUME NEW rows
  PROVE  MemOk(LoadMemmed(rows))
  BY DEF MemOk, LoadMemmed

\* The gem that a creation leaves is loaded and saved again.
LEMMA OneGem ==
  ASSUME NEW k \in MemSlots, NEW v, v # None
  PROVE  SaveMemmed(LoadMemmed({<<k, v>>})) = {<<k, v>>}
  <1> DEFINE rows == {<<k, v>>}
             mem == LoadMemmed(rows)
  <1>1. ASSUME NEW i \in MemSlots PROVE mem[i] = IF i = k THEN v ELSE None
    <2>1. CASE i = k
      <3>1. (CHOOSE r \in rows : r[1] = i) = <<k, v>>
        BY <2>1
      <3> QED
        BY <2>1, <3>1 DEF LoadMemmed
    <2>2. CASE i # k
      BY <2>2 DEF LoadMemmed
    <2> QED
      BY <2>1, <2>2
  <1> HIDE DEF mem
  <1>2. {j \in MemSlots : mem[j] # None} = {k}
    BY <1>1
  <1>3. SaveMemmed(mem) = {<<i, mem[i]>> : i \in {k}}
    BY <1>2 DEF SaveMemmed
  <1> QED
    BY <1>1, <1>3 DEF mem

LEMMA LoadedBook ==
  ASSUME NEW rows, IsTable(rows)
  PROVE  BookOk(LoadBook(rows)) /\ SaveBook(LoadBook(rows)) = rows
  <1>1. Range(Ordered(rows)) = rows
    BY OrderedFacts
  <1> QED
    BY <1>1 DEF BookOk, LoadBook, SaveBook

LEMMA SavedBook ==
  ASSUME NEW book, BookOk(book)
  PROVE  GoodRows("spellbook", SaveBook(book)) /\ LoadBook(SaveBook(book)) = book
  BY DEF BookOk, LoadBook, SaveBook, GoodRows

\* After some rows, a value is that of a row with its key, or the old one if
\* there is no such row.
ValueOf(v, old, key, rows) ==
    \/ \E r \in rows : r[1] = key /\ v = r[2]
    \/ v = old /\ \A r \in rows : r[1] # key

TakesRows(x, sk, rows) ==
    /\ IsSkills(x)
    /\ \A i \in SkillIds \ LangIds : ValueOf(x.skill[i], sk.skill[i], i, rows)
    /\ \A i \in LangIds : ValueOf(x.lang[i], sk.lang[i], i + LANGUAGE_OFFSET, rows)

LEMMA SkillSet ==
  ASSUME NEW x, IsSkills(x), NEW r, r[1] \in Nat, Trained(r[2])
  PROVE  /\ IsSkills(LoadRow("skill", x, r))
         /\ \A i \in SkillIds \ LangIds :
              LoadRow("skill", x, r).skill[i] = IF r[1] = i THEN r[2] ELSE x.skill[i]
         /\ \A i \in LangIds :
              LoadRow("skill", x, r).lang[i] = IF r[1] = i + LANGUAGE_OFFSET THEN r[2] ELSE x.lang[i]
  <1>1. PICK a \in [SkillIds -> 0 .. 255], b \in [LangIds -> 0 .. 255] : x = [skill |-> a, lang |-> b]
    BY DEF IsSkills
  <1>2. PICK k \in Nat : k = r[1]
    OBVIOUS
  <1>3. PICK v \in 1 .. 250 : v = r[2]
    BY DEF Trained, SKILL_MAX
  <1>4. PICK y : y = LoadRow("skill", x, r)
    OBVIOUS
  <1>5. y = SetSkill(x, r)
    BY <1>4 DEF LoadRow
  <1>6. CASE k >= 100 /\ k - 100 \notin LangIds
    <2>1. y = x
      BY <1>2, <1>5, <1>6 DEF SetSkill, LANGUAGE_OFFSET
    <2> QED
      BY <1>2, <1>4, <1>6, <2>1 DEF LANGUAGE_OFFSET, LangIds, SkillIds
  <1>7. CASE k >= 100 /\ k - 100 \in LangIds
    <2>1. k = 100 /\ k - 100 = 0
      BY <1>7 DEF LangIds
    <2>2. y = [x EXCEPT !.lang[0] = v, !.skill[0] = v]
      BY <1>2, <1>3, <1>5, <1>7, <2>1 DEF SetSkill, LANGUAGE_OFFSET
    <2>3. PICK a2, b2 : a2 = [a EXCEPT ![0] = v] /\ b2 = [b EXCEPT ![0] = v]
      OBVIOUS
    <2>4. y = [skill |-> a2, lang |-> b2]
      BY <1>1, <2>2, <2>3
    <2>5. v \in 0 .. 255 /\ 0 \in SkillIds /\ 0 \in LangIds
      BY <1>3 DEF SkillIds, LangIds
    <2>6. a2 \in [SkillIds -> 0 .. 255] /\ b2 \in [LangIds -> 0 .. 255]
      BY <2>3, <2>5
    <2>7. IsSkills(y)
      BY <2>4, <2>6 DEF IsSkills
    <2>8. \A i \in SkillIds \ LangIds : r[1] # i /\ y.skill[i] = x.skill[i]
      BY <1>1, <1>2, <2>1, <2>3, <2>4 DEF SkillIds, LangIds
    <2>9. \A i \in LangIds : r[1] = i + LANGUAGE_OFFSET /\ y.lang[i] = r[2]
      BY <1>2, <1>3, <2>1, <2>3, <2>4 DEF LangIds, LANGUAGE_OFFSET
    <2> QED
      BY <1>4, <2>7, <2>8, <2>9
  <1>8. CASE ~(k >= 100)
    <2>1. y = [x EXCEPT !.skill[k] = v]
      BY <1>2, <1>3, <1>5, <1>8 DEF SetSkill, LANGUAGE_OFFSET
    <2>2. PICK a2 : a2 = [a EXCEPT ![k] = v]
      OBVIOUS
    <2>3. y = [skill |-> a2, lang |-> b]
      BY <1>1, <2>1, <2>2
    <2>4. v \in 0 .. 255
      BY <1>3
    <2>5. a2 \in [SkillIds -> 0 .. 255] /\ \A i \in SkillIds : a2[i] = IF i = k THEN v ELSE a[i]
      BY <2>2, <2>4
    <2>6. IsSkills(y)
      BY <1>1, <2>3, <2>5 DEF IsSkills
    <2>7. \A i \in SkillIds \ LangIds : y.skill[i] = IF r[1] = i THEN r[2] ELSE x.skill[i]
      BY <1>1, <1>2, <1>3, <2>3, <2>5
    <2>8. \A i \in LangIds : r[1] # i + LANGUAGE_OFFSET /\ y.lang[i] = x.lang[i]
      BY <1>1, <1>2, <1>8, <2>3 DEF LangIds, LANGUAGE_OFFSET
    <2> QED
      BY <1>4, <2>6, <2>7, <2>8
  <1> QED
    BY <1>6, <1>7, <1>8

LEMMA TakesOneMore ==
  ASSUME NEW x, NEW sk, NEW rows, TakesRows(x, sk, rows), NEW r, r[1] \in Nat, Trained(r[2])
  PROVE  TakesRows(LoadRow("skill", x, r), sk, rows \cup {r})
  <1>1. PICK y : y = LoadRow("skill", x, r)
    OBVIOUS
  <1>2. IsSkills(x)
    BY DEF TakesRows
  <1>3. /\ IsSkills(y)
        /\ \A i \in SkillIds \ LangIds : y.skill[i] = IF r[1] = i THEN r[2] ELSE x.skill[i]
        /\ \A i \in LangIds : y.lang[i] = IF r[1] = i + LANGUAGE_OFFSET THEN r[2] ELSE x.lang[i]
    BY <1>1, <1>2, SkillSet
  <1>4. ASSUME NEW v, NEW u, NEW old, NEW key, ValueOf(v, old, key, rows),
               u = IF r[1] = key THEN r[2] ELSE v
        PROVE  ValueOf(u, old, key, rows \cup {r})
    BY <1>4 DEF ValueOf
  <1>5. \A i \in SkillIds \ LangIds : ValueOf(y.skill[i], sk.skill[i], i, rows \cup {r})
    BY <1>3, <1>4 DEF TakesRows
  <1>6. \A i \in LangIds : ValueOf(y.lang[i], sk.lang[i], i + LANGUAGE_OFFSET, rows \cup {r})
    BY <1>3, <1>4 DEF TakesRows
  <1> QED
    BY <1>1, <1>3, <1>5, <1>6 DEF TakesRows

LEMMA SkillsLoaded ==
  ASSUME NEW sk, IsSkills(sk), NEW rows, GoodRows("skill", rows)
  PROVE  TakesRows(LoadSkills(sk, rows), sk, rows)
  <1> DEFINE n == Cardinality(rows)
             s == Ordered(rows)
             Upto(k) == {s[j] : j \in 1 .. k}
  <1>0. IsTable(rows) /\ \A r \in rows : r[1] \in Nat /\ Trained(r[2])
    BY DEF GoodRows, IsTable
  <1>1. n \in Nat /\ s \in [1 .. n -> rows] /\ Range(s) = rows
    BY <1>0, OrderedFacts
  <1>2. PICK g : /\ \A k \in 0 .. n :
                      g[k] = IF k = 0 THEN sk ELSE LoadRow("skill", g[k - 1], s[k])
                 /\ LoadRows("skill", sk, rows) = g[n]
    BY <1>0, LoadRowsEquation
  <1> HIDE DEF s, n
  <1> DEFINE Bad == {k \in 0 .. n : ~TakesRows(g[k], sk, Upto(k))}
  <1>3. Bad = {}
    <2>1. SUFFICES ASSUME Bad # {} PROVE FALSE
      OBVIOUS
    <2>2. Bad \in SUBSET Nat
      BY <1>1
    <2>3. PICK k \in Bad : \A y \in Bad : k <= y
      BY <2>1, <2>2, LeastNumber
    <2>4. k \in 0 .. n /\ ~TakesRows(g[k], sk, Upto(k))
      BY <2>3
    <2>5. CASE k = 0
      <3>1. g[k] = sk
        BY <1>2, <2>4, <2>5
      <3>2. Upto(k) = {}
        BY <2>5
      <3>3. TakesRows(sk, sk, {})
        BY DEF TakesRows, ValueOf
      <3> QED
        BY <2>4, <3>1, <3>2, <3>3
    <2>6. CASE k # 0
      <3>0. k \in Int /\ k - 1 \in 0 .. n /\ ~(k <= k - 1) /\ k \in 1 .. n
        BY <1>1, <2>4, <2>6
      <3>1. k - 1 \in 0 .. n /\ k - 1 \notin Bad
        <4> HIDE DEF Bad
        <4> QED
          BY <2>3, <3>0
      <3>2. TakesRows(g[k - 1], sk, Upto(k - 1))
        BY <3>1
      <3>3. g[k] = LoadRow("skill", g[k - 1], s[k])
        BY <1>2, <2>4, <2>6
      <3>4. Upto(k) = Upto(k - 1) \cup {s[k]}
        <4>1. 1 .. k = (1 .. (k - 1)) \cup {k}
          BY <1>1, <2>4, <2>6
        <4> QED
          BY <4>1
      <3>5. PICK u : u = Upto(k - 1)
        OBVIOUS
      <3>6. s[k][1] \in Nat /\ Trained(s[k][2])
        BY <1>0, <1>1, <3>0
      <3>7. TakesRows(g[k], sk, u \cup {s[k]})
        BY <3>2, <3>3, <3>5, <3>6, TakesOneMore
      <3> QED
        BY <2>4, <3>4, <3>5, <3>7
    <2> QED
      BY <2>5, <2>6
  <1>4. n \in 0 .. n /\ n \notin Bad
    <2>1. n \in 0 .. n
      BY <1>1
    <2> HIDE DEF Bad
    <2> QED
      BY <1>3, <2>1
  <1>5. TakesRows(g[n], sk, Upto(n))
    BY <1>4
  <1>6. Upto(n) = rows
    BY <1>1 DEF Range
  <1> QED
    BY <1>2, <1>5, <1>6 DEF LoadSkills

LEMMA FirstSkills ==
  ASSUME NEW iksar
  PROVE  /\ IsSkills(UntrainedSkills)
         /\ IsSkills(InitSkills(UntrainedSkills, iksar))
         /\ SkillsOk(InitSkills(UntrainedSkills, iksar), iksar)
  <1> DEFINE a == [i \in SkillIds |-> IF i \in {0, 2} THEN 0 ELSE HAVENT_TRAINED]
             b == [i \in LangIds |-> 100]
             v == IF iksar THEN 100 ELSE 0
             a1 == [a EXCEPT ![1] = CANT_LEARN]
             a2 == [a1 EXCEPT ![2] = v]
  <1>1. a \in [SkillIds -> 0 .. 255] /\ b \in [LangIds -> 0 .. 255] /\ a[2] = 0
    BY DEF HAVENT_TRAINED, SkillIds
  <1>2. UntrainedSkills = [skill |-> a, lang |-> b]
    BY DEF UntrainedSkills
  <1>3. a1 \in [SkillIds -> 0 .. 255] /\ a1[2] = 0
    BY <1>1 DEF CANT_LEARN, SkillIds
  <1>4. v \in 0 .. 255
    OBVIOUS
  <1> HIDE DEF v
  <1>5. a2 \in [SkillIds -> 0 .. 255]
    BY <1>3, <1>4
  <1>6. InitSkills(UntrainedSkills, iksar) = [skill |-> a2, lang |-> b]
    <2> HIDE DEF a, b
    <2>1. InitSkills(UntrainedSkills, iksar) =
            [[skill |-> a, lang |-> b] EXCEPT !.skill[1] = CANT_LEARN, !.skill[2] = IF iksar THEN 100 ELSE @]
      BY <1>2 DEF InitSkills
    <2>2. [[skill |-> a, lang |-> b] EXCEPT !.skill[1] = CANT_LEARN] = [skill |-> a1, lang |-> b]
      OBVIOUS
    <2>3. [[skill |-> a1, lang |-> b] EXCEPT !.skill[2] = IF iksar THEN 100 ELSE @] = [skill |-> a2, lang |-> b]
      BY <1>3 DEF v
    <2>4. PICK p, p1 : p = [skill |-> a, lang |-> b] /\ p1 = [p EXCEPT !.skill[1] = CANT_LEARN]
      OBVIOUS
    <2>5. p1 = [skill |-> a1, lang |-> b]
      BY <2>2, <2>4
    <2>6. InitSkills(UntrainedSkills, iksar) = [p1 EXCEPT !.skill[2] = IF iksar THEN 100 ELSE @]
      BY <2>1, <2>4
    <2> HIDE DEF a1, a2
    <2> QED
      BY <2>3, <2>5, <2>6
  <1>7. \A i \in LangIds : b[i] = 100
    OBVIOUS
  <1>8. IsSkills([skill |-> a, lang |-> b]) /\ IsSkills([skill |-> a2, lang |-> b])
    BY <1>1, <1>5 DEF IsSkills
  <1> HIDE DEF a2, b
  <1>9. SkillsOk(InitSkills(UntrainedSkills, iksar), iksar)
    BY <1>6, <1>7 DEF SkillsOk, Trained, SKILL_MAX
  <1> QED
    BY <1>2, <1>6, <1>8, <1>9

LEMMA SavedSkills ==
  ASSUME NEW sk
  PROVE  GoodRows("skill", SaveSkills(sk))
  <1> DEFINE S == {j \in SkillIds : Trained(sk.skill[j])}
             L == {j \in LangIds : Trained(sk.lang[j])}
             M == {j + LANGUAGE_OFFSET : j \in L}
             f == [k \in M |-> sk.lang[k - LANGUAGE_OFFSET]]
             A == {<<i, sk.skill[i]>> : i \in S}
             B == {<<i + LANGUAGE_OFFSET, sk.lang[i]>> : i \in L}
  <1>1. SaveSkills(sk) = A \cup B
    BY DEF SaveSkills
  <1>2. S \in SUBSET Nat /\ IsFiniteSet(S)
    <2>1. IsFiniteSet(0 .. 2)
      <3>1. 0 \in Int /\ 2 \in Int
        OBVIOUS
      <3> QED
        BY <3>1, FS_Interval
    <2>2. S \in SUBSET (0 .. 2)
      BY DEF SkillIds
    <2> HIDE DEF S
    <2>3. IsFiniteSet(S)
      BY <2>1, <2>2, FS_Subset
    <2> QED
      BY <2>2, <2>3
  <1>3. M \in SUBSET {100}
    BY DEF LangIds, LANGUAGE_OFFSET
  <1>4. M \in SUBSET Nat /\ IsFiniteSet(M)
    <2>1. IsFiniteSet({100})
      BY FS_Singleton
    <2> HIDE DEF M
    <2>2. IsFiniteSet(M)
      BY <1>3, <2>1, FS_Subset
    <2> QED
      BY <1>3, <2>2
  <1>5. B = {<<k, f[k]>> : k \in M}
    <2>1. \A i \in L : i + LANGUAGE_OFFSET \in M /\ f[i + LANGUAGE_OFFSET] = sk.lang[i]
      BY DEF LangIds, LANGUAGE_OFFSET
    <2>2. \A k \in M : k - LANGUAGE_OFFSET \in L /\ f[k] = sk.lang[k - LANGUAGE_OFFSET] /\ k = (k - LANGUAGE_OFFSET) + LANGUAGE_OFFSET
      BY DEF LangIds, LANGUAGE_OFFSET
    <2> HIDE DEF L, M, f
    <2> QED
      BY <2>1, <2>2
  <1>6. IsTable(A)
    <2> HIDE DEF S
    <2> QED
      BY <1>2, ArrayRows
  <1>7. IsTable({<<k, f[k]>> : k \in M})
    <2> HIDE DEF M, f
    <2> QED
      BY <1>4, ArrayRows
  <1>8. (\A r \in A : r[1] \in 0 .. 2 /\ Trained(r[2])) /\ (\A r \in B : r[1] = 100 /\ Trained(r[2]))
    BY DEF SkillIds, LangIds, LANGUAGE_OFFSET
  <1> HIDE DEF A, B
  <1>9. IsTable(B)
    BY <1>5, <1>7
  <1>10. IsFiniteSet(A \cup B)
    BY <1>6, <1>9, FS_Union DEF IsTable
  <1>11. IsTable(A \cup B)
    BY <1>6, <1>8, <1>9, <1>10 DEF IsTable
  <1> QED
    BY <1>1, <1>8, <1>11 DEF GoodRows

\* What a skill keeps over a save and a load
LEMMA SkillsReloaded ==
  ASSUME NEW sk, NEW iksar, IsSkills(sk), SkillsOk(sk, iksar)
  PROVE  LET r == LoadSkills(InitSkills(UntrainedSkills, iksar), SaveSkills(sk))
         IN  r.lang = sk.lang /\ \A i \in SkillIds \ LangIds : r.skill[i] = sk.skill[i]
  <1> DEFINE init == InitSkills(UntrainedSkills, iksar)
             rows == SaveSkills(sk)
             r == LoadSkills(init, rows)
  <1>1. TakesRows(r, init, rows)
    BY SkillsLoaded, SavedSkills, FirstSkills
  <1>2. \A x \in rows : \/ \E i \in SkillIds : x = <<i, sk.skill[i]>> /\ Trained(sk.skill[i])
                        \/ \E i \in LangIds : x = <<i + LANGUAGE_OFFSET, sk.lang[i]>>
    BY DEF SaveSkills
  <1>3. ASSUME NEW i \in LangIds PROVE r.lang[i] = sk.lang[i]
    <2>1. <<i + LANGUAGE_OFFSET, sk.lang[i]>> \in rows
      BY DEF SaveSkills, SkillsOk
    <2>2. \A x \in rows : x[1] = i + LANGUAGE_OFFSET => x[2] = sk.lang[i]
      BY <1>2 DEF LangIds, SkillIds, LANGUAGE_OFFSET
    <2>3. ValueOf(r.lang[i], init.lang[i], i + LANGUAGE_OFFSET, rows)
      BY <1>1 DEF TakesRows
    <2> HIDE DEF r, rows
    <2>4. PICK q : q = <<i + LANGUAGE_OFFSET, sk.lang[i]>>
      OBVIOUS
    <2>5. q \in rows /\ q[1] = i + LANGUAGE_OFFSET
      BY <2>1, <2>4
    <2> QED
      BY <2>2, <2>3, <2>5 DEF ValueOf
  <1>4. ASSUME NEW i \in SkillIds \ LangIds PROVE r.skill[i] = sk.skill[i]
    <2>1. ValueOf(r.skill[i], init.skill[i], i, rows)
      BY <1>1 DEF TakesRows
    <2>2. \A x \in rows : x[1] = i => x[2] = sk.skill[i] /\ Trained(sk.skill[i])
      BY <1>2 DEF LangIds, SkillIds, LANGUAGE_OFFSET
    <2>3. CASE Trained(sk.skill[i])
      <3>1. <<i, sk.skill[i]>> \in rows
        BY <2>3 DEF SaveSkills
      <3>2. PICK q : q = <<i, sk.skill[i]>>
        OBVIOUS
      <3>3. q \in rows /\ q[1] = i
        BY <3>1, <3>2
      <3> HIDE DEF r, rows
      <3> QED
        BY <2>1, <2>2, <3>3 DEF ValueOf
    <2>4. CASE ~Trained(sk.skill[i])
      <3>1. sk.skill[i] = init.skill[i]
        BY <2>4 DEF SkillsOk
      <3> HIDE DEF r, rows, init
      <3> QED
        BY <2>1, <2>2, <2>4, <3>1 DEF ValueOf
    <2> QED
      BY <2>3, <2>4
  <1>5. r.lang \in [LangIds -> 0 .. 255] /\ sk.lang \in [LangIds -> 0 .. 255]
    BY <1>1 DEF TakesRows, IsSkills
  <1>6. r.lang = sk.lang
    <2> HIDE DEF r
    <2> QED
      BY <1>3, <1>5
  <1> HIDE DEF r
  <1>7. r.lang = sk.lang /\ \A i \in SkillIds \ LangIds : r.skill[i] = sk.skill[i]
    BY <1>4, <1>6
  <1> QED
    BY <1>7 DEF r

LEMMA SkillsKept ==
  ASSUME NEW sk, NEW iksar, IsSkills(sk), SkillsOk(sk, iksar), NEW rows, GoodRows("skill", rows)
  PROVE  IsSkills(LoadSkills(sk, rows)) /\ SkillsOk(LoadSkills(sk, rows), iksar)
  <1> DEFINE r == LoadSkills(sk, rows)
  <1>1. TakesRows(r, sk, rows)
    BY SkillsLoaded
  <1>2. \A x \in rows : Trained(x[2])
    BY DEF GoodRows
  <1> HIDE DEF r
  <1>3. \A i \in LangIds : Trained(r.lang[i])
    BY <1>1, <1>2 DEF TakesRows, ValueOf, SkillsOk
  <1>4. \A i \in SkillIds \ LangIds : r.skill[i] = sk.skill[i] \/ Trained(r.skill[i])
    BY <1>1, <1>2 DEF TakesRows, ValueOf
  <1> QED
    BY <1>1, <1>3, <1>4 DEF TakesRows, SkillsOk, r
-----------------------------------------------------------------------------
(* Snapshots, and the rows a SELECT ends with *)

LEMMA TableNames ==
  /\ Tables = {"stats", "memmed", "skill", "bind", "inventory", "spellbook"}
  /\ Keyed[1] = "memmed" /\ Keyed[2] = "skill" /\ Keyed[3] = "bind"
  /\ Keyed[4] = "inventory" /\ Keyed[5] = "spellbook"
  /\ DOMAIN Keyed = 1 .. 5 /\ Len(Keyed) = 5
  <1>1. Keyed = <<"memmed", "skill", "bind", "inventory", "spellbook">>
    BY DEF Keyed
  <1>2. DOMAIN Keyed = 1 .. 5 /\ Len(Keyed) = 5
    BY <1>1
  <1>3. /\ Keyed[1] = "memmed" /\ Keyed[2] = "skill" /\ Keyed[3] = "bind"
        /\ Keyed[4] = "inventory" /\ Keyed[5] = "spellbook"
    BY <1>1
  <1>4. 1 .. 5 = {1, 2, 3, 4, 5}
    OBVIOUS
  <1>5. Range(Keyed) = {Keyed[i] : i \in {1, 2, 3, 4, 5}}
    BY <1>2, <1>4 DEF Range
  <1> QED
    BY <1>2, <1>3, <1>5 DEF Tables

\* The place of a table in the transaction
LEMMA TablePlace ==
  ASSUME NEW t \in Tables
  PROVE  t = "stats" \/ \E i \in 1 .. 5 : t = Keyed[i]
  BY TableNames

LEMMA TablesDistinct ==
  /\ \A i \in 1 .. 5 : Keyed[i] \in Tables /\ Keyed[i] # "stats"
  /\ \A i, j \in 1 .. 5 : Keyed[i] = Keyed[j] => i = j
  <1>1. 1 .. 5 = {1, 2, 3, 4, 5}
    OBVIOUS
  <1> QED
    BY <1>1, TableNames

LEMMA GoodPart ==
  ASSUME NEW t, NEW rows, GoodRows(t, rows), NEW part \in SUBSET rows
  PROVE  GoodRows(t, part)
  <1>1. IsTable(part)
    BY TablePart DEF GoodRows
  <1> QED
    BY <1>1 DEF GoodRows

LEMMA NoGoodRows ==
  ASSUME NEW t
  PROVE  GoodRows(t, {})
  BY NoTableRows DEF GoodRows

\* What the world of a session promises about the items
WorldOk(w) == IsTable(w.items) /\ \A r \in w.items : r[2] # None /\ r[2] \in w.known

LEMMA SnapshotIs ==
  ASSUME NEW m
  PROVE  /\ Snapshot(m) = [t \in Tables |-> Snapshot(m)[t]]
         /\ Snapshot(m)["stats"] = {<<0, m.stat>>}
         /\ Snapshot(m)["skill"] = SaveSkills(m.sk)
         /\ Snapshot(m)["inventory"] = SaveInventory(m.inv)
         /\ Snapshot(m)["spellbook"] = SaveBook(m.book)
         /\ Snapshot(m)["memmed"] = SaveMemmed(m.mem)
         /\ Snapshot(m)["bind"] = SaveBinds(m.bind)
  BY TableNames DEF Snapshot

\* auto-save writes nothing but good rows.
LEMMA SnapshotGood ==
  ASSUME NEW m, NEW w, WorldOk(w), LoadedOk(m, Tables, w)
  PROVE  SnapshotOk(Snapshot(m), w)
  <1> DEFINE rows == Snapshot(m)
  <1>0. /\ rows = [t \in Tables |-> rows[t]]
        /\ rows["stats"] = {<<0, m.stat>>} /\ rows["skill"] = SaveSkills(m.sk)
        /\ rows["inventory"] = SaveInventory(m.inv) /\ rows["spellbook"] = SaveBook(m.book)
        /\ rows["memmed"] = SaveMemmed(m.mem) /\ rows["bind"] = SaveBinds(m.bind)
    BY SnapshotIs
  <1> HIDE DEF rows
  <1>1. /\ "inventory" \in Tables /\ "spellbook" \in Tables /\ "memmed" \in Tables /\ "bind" \in Tables
    BY TableNames
  <1>2. /\ m.inv = LoadRows("inventory", EmptyInventory, w.items)
        /\ BookOk(m.book) /\ Untorn(w, "spellbook", SaveBook(m.book))
        /\ MemOk(m.mem) /\ Untorn(w, "memmed", SaveMemmed(m.mem))
        /\ BindsOk(m.bind)
    BY <1>1 DEF LoadedOk
  <1>3. SaveInventory(m.inv) = w.items
    BY <1>2, InventoryLoaded DEF WorldOk
  <1>4. GoodRows("stats", rows["stats"])
    <2>1. 0 \in Nat
      OBVIOUS
    <2> QED
      BY <1>0, <2>1, OneRow DEF GoodRows
  <1>5. GoodRows("skill", rows["skill"])
    BY <1>0, SavedSkills
  <1>6. GoodRows("inventory", rows["inventory"])
    BY <1>0, <1>3 DEF GoodRows, WorldOk
  <1>7. GoodRows("spellbook", rows["spellbook"])
    BY <1>0, <1>2, SavedBook
  <1>8. GoodRows("memmed", rows["memmed"])
    BY <1>0, <1>2, SavedMemmed
  <1>9. GoodRows("bind", rows["bind"])
    BY <1>0, <1>2, SavedBinds
  <1>10. \A t \in Tables : GoodRows(t, rows[t])
    BY <1>4, <1>5, <1>6, <1>7, <1>8, <1>9, TableNames
  <1>11. IsRows(rows)
    BY <1>0, <1>10 DEF IsRows
  <1>12. ASSUME NEW t \in Tables PROVE Untorn(w, t, rows[t])
    <2>1. CASE t = "spellbook"
      BY <1>0, <1>2, <2>1
    <2>2. CASE t = "memmed"
      BY <1>0, <1>2, <2>2
    <2>3. CASE t \notin SpellTables
      BY <2>3 DEF Untorn
    <2> QED
      BY <2>1, <2>2, <2>3 DEF SpellTables
  <1> QED
    BY <1>0, <1>3, <1>11, <1>12 DEF SnapshotOk, rows

\* The world stays the same, but a SELECT may have been torn.
SameWorld(w, v) ==
    /\ v.st = w.st /\ v.known = w.known /\ v.iksar = w.iksar /\ v.items = w.items
    /\ v.torn \/ (~w.torn /\ v.spells = w.spells)

LEMMA UntornKept ==
  ASSUME NEW w, NEW v, SameWorld(w, v), NEW t, NEW rows, Untorn(w, t, rows)
  PROVE  Untorn(v, t, rows)
  BY DEF SameWorld, Untorn

LEMMA SnapshotKept ==
  ASSUME NEW w, NEW v, SameWorld(w, v), NEW rows, SnapshotOk(rows, w)
  PROVE  SnapshotOk(rows, v)
  <1>1. \A t \in Tables : Untorn(v, t, rows[t])
    BY UntornKept DEF SnapshotOk
  <1>2. v.items = w.items
    BY DEF SameWorld
  <1> QED
    BY <1>1, <1>2 DEF SnapshotOk

LEMMA QueryKept ==
  ASSUME NEW w, NEW v, SameWorld(w, v), NEW q, QueryOk(q, w)
  PROVE  QueryOk(q, v)
  <1>1. Untorn(v, q.t, q.was)
    BY UntornKept DEF QueryOk
  <1>2. v.items = w.items /\ v.known = w.known
    BY DEF SameWorld
  <1> QED
    BY <1>1, <1>2 DEF QueryOk, FoundRows

LEMMA LoadedKept ==
  ASSUME NEW w, NEW v, SameWorld(w, v), NEW m, NEW loaded, LoadedOk(m, loaded, w)
  PROVE  LoadedOk(m, loaded, v)
  <1>1. v.items = w.items /\ v.iksar = w.iksar
    BY DEF SameWorld
  <1>2. "spellbook" \in loaded => BookOk(m.book) /\ Untorn(v, "spellbook", SaveBook(m.book))
    BY UntornKept DEF LoadedOk
  <1>3. "memmed" \in loaded => MemOk(m.mem) /\ Untorn(v, "memmed", SaveMemmed(m.mem))
    BY UntornKept DEF LoadedOk
  <1> QED
    BY <1>1, <1>2, <1>3 DEF LoadedOk

LEMMA SessionKept ==
  ASSUME NEW w, NEW v, SameWorld(w, v), NEW c, SessionOk(c, w)
  PROVE  SessionOk(c, v)
  <1>1. \A i \in DOMAIN c.out : QueryOk(c.out[i], v)
    BY QueryKept DEF SessionOk
  <1>2. LoadedOk(c.m, c.loaded, v)
    BY LoadedKept DEF SessionOk
  <1>3. v.st = w.st
    BY DEF SameWorld
  <1> QED
    BY <1>1, <1>2, <1>3 DEF SessionOk

LEMMA WorldIs ==
  /\ World.st = cre.st /\ World.known = cre.known /\ World.iksar = cre.iksar
  /\ World.items = KeptItems /\ World.torn = torn
  /\ World.spells = [t \in SpellTables |-> disk[t]]
  BY DEF World

LEMMA ItemsOk ==
  ASSUME CreatedOk
  PROVE  WorldOk(World)
  <1>1. CASE cre.st = "created"
    <2>1. KeptItems = WithPrototype(cre.items)
      BY <1>1 DEF KeptItems
    <2>2. KeptItems \in SUBSET cre.items /\ \A r \in KeptItems : r[2] \in cre.known
      BY <2>1 DEF WithPrototype, Known
    <2>3. IsTable(cre.items) /\ None \notin cre.known
      BY <1>1 DEF CreatedOk
    <2>4. IsTable(KeptItems)
      BY <2>2, <2>3, TablePart
    <2> QED
      BY <2>2, <2>3, <2>4, WorldIs DEF WorldOk
  <1>2. CASE cre.st # "created"
    <2>1. KeptItems = {}
      BY <1>2 DEF KeptItems
    <2> QED
      BY <2>1, WorldIs, NoTableRows DEF WorldOk
  <1> QED
    BY <1>1, <1>2

\* Whatever a transaction has done so far, no item is in the inventory table
\* that the character does not have.
LEMMA InventoryRows ==
  ASSUME CharacterInv
  PROVE  FoundRows(World, db["inventory"]) \subseteq KeptItems
  <1>1. TableIs(4) /\ (tx.at >= 0 => tx.rows["inventory"] = KeptItems) /\ tx.at \in -1 .. 6 /\ tx.deleted \in BOOLEAN
    BY WorldIs DEF CharacterInv, TxOk, SnapshotOk
  <1>2. db["inventory"] = disk["inventory"] \/ db["inventory"] \subseteq KeptItems
    BY <1>1, TableNames DEF TableIs
  <1>3. FoundRows(World, disk["inventory"]) = KeptItems
    BY DEF CharacterInv, DiskOk
  <1> QED
    BY <1>2, <1>3 DEF FoundRows

LEMMA SelectedGood ==
  ASSUME CharacterInv, NEW q, QueryOk(q, World)
  PROVE  /\ GoodRows(q.t, Selected(q))
         /\ q.t = "inventory" => WithPrototype(Selected(q)) = KeptItems
  <1>1. q.t \in Tables /\ GoodRows(q.t, q.rows) /\ GoodRows(q.t, db[q.t])
    BY DEF QueryOk, CharacterInv, DiskOk, IsRows
  <1>2. CASE q.rows = {}
    <2>1. Selected(q) = db[q.t]
      BY <1>2 DEF Selected
    <2>2. ASSUME q.t = "inventory" PROVE WithPrototype(Selected(q)) = KeptItems
      <3>1. KeptItems = {}
        BY <1>2, <2>2, WorldIs DEF QueryOk, FoundRows
      <3> QED
        BY <2>1, <2>2, <3>1, InventoryRows, WorldIs DEF FoundRows, WithPrototype, Known
    <2> QED
      BY <1>1, <2>1, <2>2
  <1>3. CASE q.rows # {} /\ q.t = "inventory"
    <2>1. Selected(q) = q.rows
      BY <1>3 DEF Selected, ReadAtOnce
    <2>2. FoundRows(World, q.rows) = KeptItems
      BY <1>3, WorldIs DEF QueryOk
    <2> QED
      BY <1>1, <2>1, <2>2, WorldIs DEF FoundRows, WithPrototype, Known
  <1>4. CASE q.rows # {} /\ q.t # "inventory"
    <2> DEFINE later == {r \in db[q.t] : \A f \in q.rows : r[1] > f[1]}
    <2>1. Selected(q) = q.rows \cup later
      BY <1>4 DEF Selected, ReadAtOnce
    <2>2. \A r \in later, f \in q.rows : r[1] > f[1]
      OBVIOUS
    <2>3. GoodRows(q.t, later)
      <3>1. later \in SUBSET db[q.t]
        OBVIOUS
      <3> HIDE DEF later
      <3> QED
        BY <1>1, <3>1, GoodPart
    <2> HIDE DEF later
    <2>4. IsFiniteSet(q.rows \cup later)
      BY <1>1, <2>3, FS_Union DEF GoodRows, IsTable
    <2>5. IsTable(q.rows \cup later)
      <3>1. \A r \in q.rows \cup later : r \in Nat \X {r[2]}
        BY <1>1, <2>3 DEF GoodRows, IsTable
      <3>2. \A r \in q.rows \cup later : r[1] \in Nat
        BY <3>1
      <3>3. \A r, o \in q.rows \cup later : r[1] = o[1] => r = o
        BY <1>1, <2>2, <2>3, <3>2 DEF GoodRows, IsTable
      <3> QED
        BY <2>4, <3>1, <3>3 DEF IsTable
    <2>6. GoodRows(q.t, q.rows \cup later)
      BY <1>1, <2>3, <2>5 DEF GoodRows
    <2> QED
      BY <1>4, <2>1, <2>6
  <1> QED
    BY <1>2, <1>3, <1>4
-----------------------------------------------------------------------------
(* Steps of a session *)

LEMMA NothingIn ==
  ASSUME NEW s, s = <<>>
  PROVE  IsSeq(s) /\ Range(s) = {} /\ DOMAIN s = {}
  <1>1. s \in Seq({})
    BY EmptySeq
  <1>2. DOMAIN s = {}
    BY EmptySeq
  <1>3. Range(s) = {}
    BY <1>2 DEF Range
  <1> QED
    BY <1>1, <1>2, <1>3 DEF IsSeq

LEMMA BlankOk ==
  ASSUME NEW w
  PROVE  LoadedOk(Blank, {}, w)
  <1>1. IsClient(Blank) /\ Blank.sk = UntrainedSkills
    BY DEF IsClient, Blank
  <1>2. IsSkills(UntrainedSkills)
    BY FirstSkills
  <1> QED
    BY <1>1, <1>2 DEF LoadedOk

LEMMA NewSession ==
  ASSUME NEW c, NEW w, c.todo = <<>>, c.out = <<>>, c.loaded = {}, c.m = Blank, IsSession(c),
         c.st \in {"none", "gone"}
  PROVE  SessionOk(c, w)
  <1>0. IsSeq(c.todo) /\ IsSeq(c.out) /\ Range(c.todo) = {} /\ Range(c.out) = {}
        /\ DOMAIN c.todo = {} /\ DOMAIN c.out = {}
    BY NothingIn
  <1>1. Todo(c) = {} /\ Reading(c) = {} /\ Asked(c) = {}
    BY <1>0 DEF Todo, Reading, Asked
  <1>2. WorkOk(c)
    BY <1>0, <1>1 DEF WorkOk
  <1>3. LoadedOk(c.m, c.loaded, w)
    BY BlankOk
  <1>4. \A i \in DOMAIN c.out : QueryOk(c.out[i], w)
    BY NothingIn
  <1> QED
    BY <1>1, <1>2, <1>3, <1>4 DEF SessionOk

LEMMA AbsentIs ==
  /\ Absent = [st |-> "none", todo |-> <<>>, out |-> <<>>, loaded |-> {}, m |-> Blank, shown |-> None]
  /\ Gone = [st |-> "gone", todo |-> <<>>, out |-> <<>>, loaded |-> {}, m |-> Blank, shown |-> None]
  <1>1. Absent = [st |-> "none", todo |-> <<>>, out |-> <<>>, loaded |-> {}, m |-> Blank, shown |-> None]
    BY DEF Absent
  <1>2. PICK a, e : a = Absent /\ e = <<>>
    OBVIOUS
  <1>3. a = [st |-> "none", todo |-> e, out |-> e, loaded |-> {}, m |-> Blank, shown |-> None]
    BY <1>1, <1>2
  <1>4. [a EXCEPT !.st = "gone"] = [st |-> "gone", todo |-> e, out |-> e, loaded |-> {}, m |-> Blank, shown |-> None]
    BY <1>3
  <1> QED
    BY <1>1, <1>2, <1>4 DEF Gone

LEMMA AbsentOk ==
  ASSUME NEW w
  PROVE  SessionOk(Absent, w) /\ SessionOk(Gone, w)
  <1>1. PICK a, g : a = Absent /\ g = Gone
    OBVIOUS
  <1>2. IsSession(a) /\ a.st = "none" /\ a.todo = <<>> /\ a.out = <<>> /\ a.loaded = {} /\ a.m = Blank
    BY <1>1, AbsentIs DEF IsSession
  <1>3. IsSession(g) /\ g.st = "gone" /\ g.todo = <<>> /\ g.out = <<>> /\ g.loaded = {} /\ g.m = Blank
    BY <1>1, AbsentIs DEF IsSession
  <1>4. SessionOk(a, w)
    BY <1>2, NewSession
  <1>5. SessionOk(g, w)
    BY <1>3, NewSession
  <1> QED
    BY <1>1, <1>4, <1>5

LEMMA FirstQueriesAre ==
  /\ IsSeq(FirstQueries) /\ Range(FirstQueries) = {"stats", "inventory", "spellbook", "memmed", "bind"}
  /\ \A i, j \in DOMAIN FirstQueries : FirstQueries[i] = FirstQueries[j] => i = j
  <1> DEFINE s == FirstQueries
             N == {"stats", "inventory", "spellbook", "memmed", "bind"}
  <1>1. s \in Seq(N) /\ Len(s) = 5 /\ DOMAIN s = 1 .. 5
    BY DEF FirstQueries
  <1>2. s[1] = "stats" /\ s[2] = "inventory" /\ s[3] = "spellbook" /\ s[4] = "memmed" /\ s[5] = "bind"
    BY DEF FirstQueries
  <1>3. 1 .. 5 = {1, 2, 3, 4, 5}
    OBVIOUS
  <1> HIDE DEF s
  <1>4. Range(s) = {s[i] : i \in {1, 2, 3, 4, 5}}
    BY <1>1, <1>3 DEF Range
  <1>5. Range(s) = N
    BY <1>2, <1>4
  <1>6. IsSeq(s)
    BY <1>1, <1>5 DEF IsSeq
  <1>7. \A i, j \in {1, 2, 3, 4, 5} : s[i] = s[j] => i = j
    BY <1>2
  <1> QED
    BY <1>1, <1>3, <1>5, <1>6, <1>7 DEF s

LEMMA AnnouncedOk ==
  ASSUME NEW w, w.st \in {"created", "orphan"}
  PROVE  SessionOk([Absent EXCEPT !.st = "loading", !.todo = FirstQueries], w)
  <1>1. PICK c : c = [Absent EXCEPT !.st = "loading", !.todo = FirstQueries]
    OBVIOUS
  <1>2. c = [st |-> "loading", todo |-> FirstQueries, out |-> <<>>, loaded |-> {}, m |-> Blank, shown |-> None]
    BY <1>1, AbsentIs
  <1>3. /\ IsSession(c) /\ c.st = "loading" /\ c.todo = FirstQueries /\ c.out = <<>>
        /\ c.loaded = {} /\ c.m = Blank
    BY <1>2 DEF IsSession
  <1>0. IsSeq(c.out) /\ Range(c.out) = {} /\ DOMAIN c.out = {}
    BY <1>3, NothingIn
  <1>4. Todo(c) \subseteq Tables /\ "skill" \notin Todo(c) /\ Reading(c) = {} /\ Asked(c) = Todo(c)
    BY <1>0, <1>3, FirstQueriesAre, TableNames DEF Todo, Reading, Asked
  <1>5. WorkOk(c)
    BY <1>0, <1>3, <1>4, FirstQueriesAre DEF WorkOk
  <1>6. LoadedOk(c.m, c.loaded, w)
    BY <1>3, BlankOk
  <1>7. \A i \in DOMAIN c.out : QueryOk(c.out[i], w)
    BY <1>3, NothingIn
  <1>8. SessionOk(c, w)
    BY <1>3, <1>5, <1>6, <1>7 DEF SessionOk
  <1> QED
    BY <1>1, <1>8

\* Nothing but the sessions changes.
SameRest == UNCHANGED <<cre, db, disk, pend, tx, torn>>

LEMMA InvOfSessions ==
  ASSUME CharacterInv, SameRest, cre.st \notin {"none", "inserted"},
         cl' = [s \in Sessions |-> cl'[s]], \A s \in Sessions : SessionOk(cl'[s], World)
  PROVE  CharacterInv'
  <1>1. World' = World /\ KeptItems' = KeptItems
    BY DEF SameRest, World, KeptItems, WithPrototype, Known
  <1>2. CreatedOk'
    BY DEF SameRest, CharacterInv, CreatedOk
  <1>3. DiskOk'
    BY <1>1 DEF SameRest, CharacterInv, DiskOk
  <1>4. TxOk'
    BY <1>1 DEF SameRest, CharacterInv, TxOk, TxShape, TableIs
  <1>5. IsSeq(pend)' /\ \A i \in DOMAIN pend' : SnapshotOk(pend'[i].rows, World')
    BY <1>1 DEF SameRest, CharacterInv
  <1> QED
    BY <1>1, <1>2, <1>3, <1>4, <1>5 DEF CharacterInv

\* One session takes a step.
LEMMA OneSession ==
  ASSUME CharacterInv, SameRest, NEW s \in Sessions, NEW c, cl' = [cl EXCEPT ![s] = c],
         cre.st \notin {"none", "inserted"}, SessionOk(c, World)
  PROVE  CharacterInv'
  <1>1. cl = [o \in Sessions |-> cl[o]] /\ \A o \in Sessions : SessionOk(cl[o], World)
    BY DEF CharacterInv
  <1>2. cl' = [o \in Sessions |-> cl'[o]] /\ \A o \in Sessions : cl'[o] = IF o = s THEN c ELSE cl[o]
    BY <1>1
  <1>3. \A o \in Sessions : SessionOk(cl'[o], World)
    BY <1>1, <1>2
  <1> QED
    BY <1>2, <1>3, InvOfSessions

\* A session that does anything belongs to a character that exists.
LEMMA SessionExists ==
  ASSUME CharacterInv, NEW s \in Sessions, cl[s].st \in {"loading", "in"} \/ Asked(cl[s]) # {}
  PROVE  /\ SessionOk(cl[s], World) /\ cre.st \in {"created", "orphan"}
         /\ cl = [o \in Sessions |-> cl[o]]
  <1>1. SessionOk(cl[s], World) /\ cl = [o \in Sessions |-> cl[o]]
    BY DEF CharacterInv
  <1>2. cl[s].st \in {"loading", "in"}
    BY <1>1 DEF SessionOk
  <1> QED
    BY <1>1, <1>2, WorldIs DEF SessionOk

LEMMA AnnounceStep ==
  ASSUME CharacterInv, NEW s \in Sessions, Announce(s)
  PROVE  CharacterInv'
  <1>1. PICK c : c = [Absent EXCEPT !.st = "loading", !.todo = FirstQueries]
    OBVIOUS
  <1>2. SessionOk(c, World)
    BY <1>1, AnnouncedOk, WorldIs DEF Announce
  <1>3. SameRest /\ cl' = [cl EXCEPT ![s] = c] /\ cre.st \notin {"none", "inserted"}
    BY <1>1 DEF Announce, SameRest
  <1> QED
    BY <1>2, <1>3, OneSession

LEMMA LeaveStep ==
  ASSUME CharacterInv, NEW s \in Sessions, Leave(s)
  PROVE  CharacterInv'
  <1>1. cre.st \in {"created", "orphan"}
    BY SessionExists DEF Leave
  <1>2. SameRest /\ cl' = [cl EXCEPT ![s] = Gone]
    BY DEF Leave, SameRest
  <1>3. SessionOk(Gone, World)
    BY AbsentOk
  <1> QED
    BY <1>1, <1>2, <1>3, OneSession

LEMMA ChangeStep ==
  ASSUME CharacterInv, NEW s \in Sessions, Change(s)
  PROVE  CharacterInv'
  <1>1. SessionOk(cl[s], World) /\ cre.st \in {"created", "orphan"} /\ cl = [o \in Sessions |-> cl[o]]
    BY SessionExists DEF Change
  <1>2. PICK m, d : m = cl[s].m /\ d = [m EXCEPT !.stat = m.stat + 1]
    OBVIOUS
  <1>3. PICK c, e : c = cl[s] /\ e = [c EXCEPT !.m = d]
    OBVIOUS
  <1>4. cl' = [cl EXCEPT ![s] = e] /\ SameRest
    BY <1>1, <1>2, <1>3 DEF Change, SameRest
  <1>5. IsClient(m) /\ IsSession(c) /\ c.m = m
    BY <1>1, <1>2, <1>3 DEF SessionOk, LoadedOk
  <1>6. /\ IsClient(d) /\ d.sk = m.sk /\ d.inv = m.inv /\ d.book = m.book /\ d.mem = m.mem /\ d.bind = m.bind
    <2>1. PICK p1, p2, p3, p4, p5, p6 : m = [stat |-> p1, sk |-> p2, inv |-> p3, book |-> p4, mem |-> p5, bind |-> p6]
      BY <1>5 DEF IsClient
    <2> QED
      BY <1>2, <2>1 DEF IsClient
  <1>7. /\ IsSession(e) /\ e.st = c.st /\ e.todo = c.todo /\ e.out = c.out /\ e.loaded = c.loaded
        /\ e.m = d /\ e.shown = c.shown
    <2>1. PICK p1, p2, p3, p4, p5, p6 : c = [st |-> p1, todo |-> p2, out |-> p3, loaded |-> p4, m |-> p5, shown |-> p6]
      BY <1>5 DEF IsSession
    <2> QED
      BY <1>3, <2>1 DEF IsSession
  <1>8. WorkOk(e) /\ Asked(e) = Asked(c)
    BY <1>1, <1>3, <1>7 DEF SessionOk, WorkOk, Asked, Todo, Reading
  <1>9. LoadedOk(d, e.loaded, World)
    BY <1>1, <1>3, <1>5, <1>6, <1>7 DEF SessionOk, LoadedOk
  <1>10. ShownOk(c) => ShownOk(e)
    BY <1>5, <1>6, <1>7 DEF ShownOk
  <1>11. SessionOk(e, World)
    BY <1>1, <1>3, <1>7, <1>8, <1>9, <1>10 DEF SessionOk
  <1> QED
    BY <1>1, <1>4, <1>11, OneSession

LEMMA EnterZoneStep ==
  ASSUME CharacterInv, NEW s \in Sessions, Enter(s)
  PROVE  CharacterInv'
  <1>1. SessionOk(cl[s], World) /\ cre.st \in {"created", "orphan"} /\ cl = [o \in Sessions |-> cl[o]]
    BY SessionExists DEF Enter
  <1>0. PICK c, p : c = cl[s] /\ p = [profile |-> Profile(cl[s].m), entry |-> ZoneEntry(cl[s].m)]
    OBVIOUS
  <1>2. PICK e : c = cl[s] /\ p = [profile |-> Profile(c.m), entry |-> ZoneEntry(c.m)] /\ e = [c EXCEPT !.st = "in", !.shown = p]
    BY <1>0
  <1>3. cl' = [cl EXCEPT ![s] = e] /\ SameRest
    BY <1>1, <1>2 DEF Enter, SameRest
  <1>4. /\ IsSession(e) /\ e.st = "in" /\ e.todo = c.todo /\ e.out = c.out /\ e.loaded = c.loaded
        /\ e.m = c.m /\ e.shown = p
    <2>1. PICK p1, p2, p3, p4, p5, p6 : c = [st |-> p1, todo |-> p2, out |-> p3, loaded |-> p4, m |-> p5, shown |-> p6]
      BY <1>1, <1>2 DEF SessionOk, IsSession
    <2> QED
      BY <1>2, <2>1 DEF IsSession
  <1>5. WorkOk(e)
    BY <1>1, <1>2, <1>4 DEF SessionOk, WorkOk, Asked, Todo, Reading
  <1>6. ShownOk(e)
    <2>1. PICK f : f = Profile(c.m)
      OBVIOUS
    <2>2. /\ f.carried = CarriedItems(c.m.inv) /\ f.bank = BankItems(c.m.inv)
          /\ f.charges = BankCharges(c.m.inv)
      BY <2>1 DEF Profile
    <2>3. e.shown.profile = f
      BY <1>2, <1>4, <2>1
    <2> QED
      BY <1>4, <2>2, <2>3 DEF ShownOk
  <1>7. e.loaded = Tables
    BY <1>2, <1>4 DEF Enter
  <1>8. SessionOk(e, World)
    BY <1>1, <1>2, <1>4, <1>5, <1>6, <1>7, WorldIs DEF SessionOk
  <1> QED
    BY <1>1, <1>3, <1>8, OneSession
-----------------------------------------------------------------------------
(* The queries of a session *)

LEMMA SeqTail ==
  ASSUME NEW s, IsSeq(s), s # <<>>
  PROVE  /\ Len(s) \in Nat \ {0} /\ DOMAIN s = 1 .. Len(s) /\ Head(s) = s[1] /\ 1 \in DOMAIN s
         /\ IsSeq(Tail(s)) /\ DOMAIN Tail(s) = 1 .. Len(s) - 1
         /\ \A i \in 1 .. Len(s) - 1 : Tail(s)[i] = s[i + 1] /\ i + 1 \in DOMAIN s
  <1> DEFINE n == Len(s)
  <1>1. s \in Seq(Range(s))
    BY DEF IsSeq
  <1>2. n \in Nat \ {0} /\ DOMAIN s = 1 .. n
    BY <1>1, EmptySeq, LenProperties
  <1>3. Head(s) = s[1] /\ Tail(s) \in Seq(Range(s)) /\ Len(Tail(s)) = n - 1
    BY <1>1, HeadTailProperties
  <1>4. \A i \in 1 .. n - 1 : Tail(s)[i] = s[i + 1]
    BY <1>1, <1>2
  <1>5. PICK u : u = Tail(s)
    OBVIOUS
  <1>6. u \in Seq(Range(s)) /\ Len(u) = n - 1 /\ DOMAIN u = 1 .. n - 1
    BY <1>3, <1>5, LenProperties
  <1>7. u \in Seq(Range(u))
    <2>1. u \in [1 .. Len(u) -> Range(u)]
      BY <1>2, <1>6 DEF Range
    <2>2. Len(u) \in Nat
      BY <1>2, <1>6
    <2> QED
      BY <2>1, <2>2
  <1> QED
    BY <1>2, <1>3, <1>4, <1>5, <1>6, <1>7 DEF IsSeq

\* What the six callbacks do
LEMMA LoadTableIs ==
  ASSUME NEW m, NEW rows
  PROVE  /\ LoadTable("stats", m, rows) = LoadStats(m, rows)
         /\ LoadTable("skill", m, rows) = [m EXCEPT !.sk = LoadSkills(m.sk, rows)]
         /\ LoadTable("inventory", m, rows) = [m EXCEPT !.inv = LoadInventory(rows)]
         /\ LoadTable("spellbook", m, rows) = [m EXCEPT !.book = LoadBook(rows)]
         /\ LoadTable("memmed", m, rows) = [m EXCEPT !.mem = LoadMemmed(rows)]
         /\ LoadTable("bind", m, rows) = [m EXCEPT !.bind = LoadBinds(rows)]
  BY DEF LoadTable

\* The memorized spells of the world are one gem.
GemOk(w) == ~w.torn => \E k \in MemSlots : \E x : x # None /\ w.spells["memmed"] = {<<k, x>>}

LEMMA LoadTableOk ==
  ASSUME NEW m, NEW loaded, NEW w, LoadedOk(m, loaded, w), GemOk(w), w.iksar = cre.iksar,
         NEW t \in Tables, t \notin loaded, t = "skill" => "stats" \in loaded,
         t = "stats" => "skill" \notin loaded,
         NEW rows, GoodRows(t, rows), Untorn(w, t, rows), t = "inventory" => WithPrototype(rows) = w.items
  PROVE  LoadedOk(LoadTable(t, m, rows), loaded \cup {t}, w)
  <1>1. PICK p1, p2, p3, p4, p5, p6 : m = [stat |-> p1, sk |-> p2, inv |-> p3, book |-> p4, mem |-> p5, bind |-> p6]
    BY DEF LoadedOk, IsClient
  <1>2. PICK d : d = LoadTable(t, m, rows)
    OBVIOUS
  <1>3. CASE t = "stats"
    <2>1. m.sk = UntrainedSkills
      BY <1>3 DEF LoadedOk
    <2>2. PICK v, sk : v = (CHOOSE r \in rows : TRUE)[2] /\ sk = InitSkills(m.sk, cre.iksar)
      OBVIOUS
    <2>3. d = [m EXCEPT !.stat = v, !.sk = sk]
      <3>1. d = LoadStats(m, rows)
        BY <1>2, <1>3, LoadTableIs
      <3> QED
        BY Zenon, <2>2, <3>1 DEF LoadStats
    <2>4. d = [stat |-> v, sk |-> sk, inv |-> p3, book |-> p4, mem |-> p5, bind |-> p6]
      BY <1>1, <2>3
    <2>5. IsClient(d) /\ d.sk = sk /\ d.inv = m.inv /\ d.book = m.book /\ d.mem = m.mem /\ d.bind = m.bind
      BY <1>1, <2>4 DEF IsClient
    <2>6. IsSkills(sk) /\ SkillsOk(sk, w.iksar)
      BY <2>1, <2>2, FirstSkills
    <2>7. LoadedOk(d, loaded \cup {t}, w)
      BY <1>3, <2>5, <2>6 DEF LoadedOk
    <2> QED
      BY <1>2, <2>7
  <1>4. CASE t = "skill"
    <2>1. PICK sk : sk = LoadSkills(m.sk, rows)
      OBVIOUS
    <2>2. d = [m EXCEPT !.sk = sk]
      BY <1>2, <1>4, <2>1, LoadTableIs
    <2>3. d = [stat |-> p1, sk |-> sk, inv |-> p3, book |-> p4, mem |-> p5, bind |-> p6]
      BY <1>1, <2>2
    <2>4. IsClient(d) /\ d.sk = sk /\ d.inv = m.inv /\ d.book = m.book /\ d.mem = m.mem /\ d.bind = m.bind
      BY <1>1, <2>3 DEF IsClient
    <2>5. IsSkills(m.sk) /\ SkillsOk(m.sk, w.iksar) /\ GoodRows("skill", rows)
      BY <1>4 DEF LoadedOk
    <2>6. IsSkills(sk) /\ SkillsOk(sk, w.iksar)
      BY <2>1, <2>5, SkillsKept
    <2>7. LoadedOk(d, loaded \cup {t}, w)
      BY <1>4, <2>4, <2>6 DEF LoadedOk
    <2> QED
      BY <1>2, <2>7
  <1>5. CASE t = "inventory"
    <2>1. PICK inv : inv = LoadInventory(rows)
      OBVIOUS
    <2>2. inv = LoadRows("inventory", EmptyInventory, w.items)
      BY <1>5, <2>1 DEF LoadInventory
    <2>3. d = [m EXCEPT !.inv = inv]
      BY <1>2, <1>5, <2>1, LoadTableIs
    <2>4. d = [stat |-> p1, sk |-> p2, inv |-> inv, book |-> p4, mem |-> p5, bind |-> p6]
      BY <1>1, <2>3
    <2>5. IsClient(d) /\ d.sk = m.sk /\ d.inv = inv /\ d.book = m.book /\ d.mem = m.mem /\ d.bind = m.bind
      BY <1>1, <2>4 DEF IsClient
    <2>6. LoadedOk(d, loaded \cup {t}, w)
      BY <1>5, <2>2, <2>5 DEF LoadedOk
    <2> QED
      BY <1>2, <2>6
  <1>6. CASE t = "spellbook"
    <2>1. PICK book : book = LoadBook(rows)
      OBVIOUS
    <2>2. BookOk(book) /\ SaveBook(book) = rows
      BY <2>1, LoadedBook DEF GoodRows
    <2>3. d = [m EXCEPT !.book = book]
      BY <1>2, <1>6, <2>1, LoadTableIs
    <2>4. d = [stat |-> p1, sk |-> p2, inv |-> p3, book |-> book, mem |-> p5, bind |-> p6]
      BY <1>1, <2>3
    <2>5. IsClient(d) /\ d.sk = m.sk /\ d.inv = m.inv /\ d.book = book /\ d.mem = m.mem /\ d.bind = m.bind
      BY <1>1, <2>4 DEF IsClient
    <2>6. LoadedOk(d, loaded \cup {t}, w)
      BY <1>6, <2>2, <2>5 DEF LoadedOk
    <2> QED
      BY <1>2, <2>6
  <1>7. CASE t = "memmed"
    <2>1. PICK mem : mem = LoadMemmed(rows)
      OBVIOUS
    <2>2. MemOk(mem)
      BY <2>1, LoadedMemmed
    <2>3. d = [m EXCEPT !.mem = mem]
      BY <1>2, <1>7, <2>1, LoadTableIs
    <2>4. d = [stat |-> p1, sk |-> p2, inv |-> p3, book |-> p4, mem |-> mem, bind |-> p6]
      BY <1>1, <2>3
    <2>5. IsClient(d) /\ d.sk = m.sk /\ d.inv = m.inv /\ d.book = m.book /\ d.mem = mem /\ d.bind = m.bind
      BY <1>1, <2>4 DEF IsClient
    <2>6. Untorn(w, "memmed", SaveMemmed(mem))
      <3>1. SUFFICES ASSUME ~w.torn PROVE SaveMemmed(mem) = w.spells["memmed"]
        BY DEF Untorn
      <3>2. PICK k \in MemSlots : \E x : x # None /\ w.spells["memmed"] = {<<k, x>>}
        BY <3>1 DEF GemOk
      <3>3. PICK x : x # None /\ w.spells["memmed"] = {<<k, x>>}
        BY <3>2
      <3>4. rows = {<<k, x>>}
        BY <1>7, <3>1, <3>3 DEF Untorn, SpellTables
      <3> QED
        BY <2>1, <3>3, <3>4, OneGem
    <2>7. LoadedOk(d, loaded \cup {t}, w)
      BY <1>7, <2>2, <2>5, <2>6 DEF LoadedOk
    <2> QED
      BY <1>2, <2>7
  <1>8. CASE t = "bind"
    <2>1. PICK bind : bind = LoadBinds(rows)
      OBVIOUS
    <2>2. BindsOk(bind)
      BY <1>8, <2>1, LoadedBinds
    <2>3. d = [m EXCEPT !.bind = bind]
      BY <1>2, <1>8, <2>1, LoadTableIs
    <2>4. d = [stat |-> p1, sk |-> p2, inv |-> p3, book |-> p4, mem |-> p5, bind |-> bind]
      BY <1>1, <2>3
    <2>5. IsClient(d) /\ d.sk = m.sk /\ d.inv = m.inv /\ d.book = m.book /\ d.mem = m.mem /\ d.bind = bind
      BY <1>1, <2>4 DEF IsClient
    <2>6. LoadedOk(d, loaded \cup {t}, w)
      BY <1>8, <2>2, <2>5 DEF LoadedOk
    <2> QED
      BY <1>2, <2>6
  <1> QED
    BY <1>3, <1>4, <1>5, <1>6, <1>7, <1>8, TableNames

LEMMA SeqOfDomain ==
  ASSUME NEW s, NEW n \in Nat, DOMAIN s = 1 .. n, s = [i \in 1 .. n |-> s[i]]
  PROVE  IsSeq(s) /\ Len(s) = n
  <1>1. s \in [1 .. n -> Range(s)]
    BY DEF Range
  <1> QED
    BY <1>1 DEF IsSeq

\* The queries of a session before and after the callback of table t
CalledBack(c, e, t) ==
    /\ c.out # <<>> /\ t = c.out[1].t
    /\ e.out = Tail(c.out) /\ e.loaded = c.loaded \cup {t}
    /\ e.todo = IF t = "stats" THEN Append(c.todo, "skill") ELSE c.todo

LEMMA CallbackWork ==
  ASSUME NEW c, WorkOk(c), NEW e, NEW t, CalledBack(c, e, t)
  PROVE  /\ WorkOk(e) /\ t \in Tables /\ t \notin c.loaded
         /\ t = "skill" => "stats" \in c.loaded
         /\ t = "stats" => "skill" \notin c.loaded
         /\ \A i \in DOMAIN e.out : \E j \in DOMAIN c.out : e.out[i] = c.out[j]
  <1> DEFINE n == Len(c.out)
             a == c.out
  <1> USE DEF CalledBack
  <1>1. /\ n \in Nat \ {0} /\ DOMAIN a = 1 .. n /\ 1 \in DOMAIN a
        /\ IsSeq(e.out) /\ DOMAIN e.out = 1 .. n - 1
        /\ \A i \in 1 .. n - 1 : e.out[i] = a[i + 1] /\ i + 1 \in DOMAIN a
    BY SeqTail DEF WorkOk
  <1>2. t \in Reading(c)
    BY <1>1 DEF Reading, Range
  <1> HIDE DEF n
  <1>3. Reading(e) = Reading(c) \ {t}
    <2>1. ASSUME NEW x \in Reading(e) PROVE x \in Reading(c) /\ x # t
      <3>1. PICK i \in 1 .. n - 1 : x = e.out[i].t
        BY <1>1 DEF Reading, Range
      <3>2. x = a[i + 1].t /\ i + 1 \in DOMAIN a /\ i + 1 # 1
        BY <1>1, <3>1
      <3> QED
        <4>1. x \in Reading(c)
          BY <3>2 DEF Reading, Range
        <4>2. x # t
          <5>1. \A f, g \in DOMAIN c.out : c.out[f].t = c.out[g].t => f = g
            BY Zenon DEF WorkOk
          <5> QED
            BY Zenon, <1>1, <3>2, <5>1
        <4> QED
          BY <4>1, <4>2
    <2>2. ASSUME NEW x \in Reading(c), x # t PROVE x \in Reading(e)
      <3>1. PICK j \in 1 .. n : x = a[j].t
        BY <1>1 DEF Reading, Range
      <3>2. j # 1
        BY <2>2, <3>1
      <3>3. j - 1 \in 1 .. n - 1 /\ (j - 1) + 1 = j
        BY <1>1, <3>1, <3>2
      <3>4. e.out[j - 1] = a[j]
        BY <1>1, <3>3
      <3> QED
        BY <1>1, <3>1, <3>3, <3>4 DEF Reading, Range
    <2> QED
      BY <2>1, <2>2
  <1>4. \A i, j \in DOMAIN e.out : e.out[i].t = e.out[j].t => i = j
    <2>1. SUFFICES ASSUME NEW i \in 1 .. n - 1, NEW j \in 1 .. n - 1, e.out[i].t = e.out[j].t PROVE i = j
      BY <1>1
    <2>2. a[i + 1].t = a[j + 1].t /\ i + 1 \in DOMAIN a /\ j + 1 \in DOMAIN a
      BY <1>1, <2>1
    <2>3. i + 1 = j + 1
      BY <2>2 DEF WorkOk
    <2> QED
      BY <1>1, <2>3
  <1>5. t \in Tables /\ t \notin c.loaded /\ t \notin Todo(c)
    BY <1>2 DEF WorkOk, Asked
  <1>6. "skill" \in Asked(c) => "stats" \in c.loaded
    BY DEF WorkOk
  <1>7. t = "skill" => "stats" \in c.loaded
    BY <1>2, <1>6 DEF Asked
  <1>8. t = "stats" => "skill" \notin Asked(c)
    BY <1>5, <1>6
  <1>9. CASE t # "stats"
    <2>1. e.todo = c.todo /\ Todo(e) = Todo(c)
      BY <1>9 DEF Todo
    <2>2. Asked(e) = Asked(c)
      BY <1>2, <1>3, <2>1 DEF Asked
    <2>4. "skill" \in Asked(e) => "stats" \in e.loaded
      BY <1>6, <2>2
    <2>5. Todo(e) \cap Reading(e) = {} /\ Todo(e) \cap e.loaded = {} /\ Reading(e) \cap e.loaded = {}
      BY <1>3, <1>5, <2>1 DEF WorkOk
    <2>6. /\ IsSeq(e.todo) /\ Asked(e) \subseteq Tables
          /\ \A i, j \in DOMAIN e.todo : e.todo[i] = e.todo[j] => i = j
      BY <2>1, <2>2 DEF WorkOk
    <2>3. WorkOk(e)
      BY <1>1, <1>4, <2>4, <2>5, <2>6 DEF WorkOk
    <2> QED
      BY <1>1, <1>5, <1>7, <1>9, <2>3
  <1>10. CASE t = "stats"
    <2> DEFINE k == Len(c.todo)
    <2>1. IsSeq(c.todo)
      BY DEF WorkOk
    <2>2. DOMAIN c.todo = 1 .. k
      BY <2>1 DEF IsSeq
    <2>3. /\ e.todo = Append(c.todo, "skill") /\ IsSeq(e.todo) /\ Todo(e) = Todo(c) \cup {"skill"}
          /\ k \in Nat /\ Len(e.todo) = k + 1
          /\ \A i \in 1 .. k : e.todo[i] = c.todo[i]
          /\ e.todo[k + 1] = "skill"
      BY <1>10, <2>1, SeqAppended DEF Todo
    <2>4. DOMAIN e.todo = 1 .. k + 1
      BY <2>3 DEF IsSeq
    <2> HIDE DEF k
    <2>5. "skill" \notin Asked(c) /\ "skill" \in Tables
      BY <1>8, <1>10, TableNames
    <2>6. \A i \in 1 .. k : e.todo[i] # "skill"
      BY <2>2, <2>3, <2>5 DEF Asked, Todo, Range
    <2>7. \A i, j \in DOMAIN e.todo : e.todo[i] = e.todo[j] => i = j
      <3>1. SUFFICES ASSUME NEW i \in 1 .. k + 1, NEW j \in 1 .. k + 1, e.todo[i] = e.todo[j] PROVE i = j
        BY <2>4
      <3>2. (i = k + 1 \/ i \in 1 .. k) /\ (j = k + 1 \/ j \in 1 .. k)
        BY <2>3, <3>1
      <3>3. CASE i \in 1 .. k /\ j \in 1 .. k
        BY <2>2, <2>3, <3>1, <3>3 DEF WorkOk
      <3> QED
        BY <2>3, <2>6, <3>1, <3>2, <3>3
    <2>8. Asked(e) = Asked(c) \cup {"skill"}
      BY <1>2, <1>3, <2>3 DEF Asked
    <2>9. WorkOk(e)
      BY <1>1, <1>3, <1>4, <1>5, <1>10, <2>3, <2>5, <2>7, <2>8 DEF WorkOk, Asked
    <2> QED
      BY <1>1, <1>5, <1>8, <1>10, <2>9 DEF Asked
  <1> QED
    BY <1>9, <1>10

LEMMA OneGemInWorld ==
  ASSUME CharacterInv, cre.st # "none"
  PROVE  GemOk(World)
  <1>1. SUFFICES ASSUME ~torn PROVE \E k \in MemSlots : \E x : x # None /\ World.spells["memmed"] = {<<k, x>>}
    BY WorldIs DEF GemOk
  <1>2. PICK b \in Books : disk["spellbook"] = b /\ disk["memmed"] = {Lowest(b)}
    BY <1>1 DEF CharacterInv, DiskOk
  <1>3. IsTable(b) /\ b # {} /\ None \notin {r[2] : r \in b} /\ Lowest(b)[1] \in MemSlots
    BY CharacterAssumption
  <1>4. PICK g : g = Lowest(b)
    OBVIOUS
  <1>5. g \in b /\ g[1] \in MemSlots /\ g[2] # None
    BY <1>3, <1>4, LowestFound
  <1>6. g \in Nat \X {g[2]}
    BY <1>3, <1>5 DEF IsTable
  <1>7. g = <<g[1], g[2]>>
    BY <1>6
  <1>8. World.spells["memmed"] = {<<g[1], g[2]>>}
    BY <1>2, <1>4, <1>7, WorldIs DEF SpellTables
  <1> QED
    BY <1>5, <1>8

LEMMA LoadCallbackStep ==
  ASSUME CharacterInv, NEW s \in Sessions, LoadCallback(s)
  PROVE  CharacterInv'
  <1> DEFINE c == cl[s]
             q == Head(c.out)
             rows == Selected(q)
             m1 == LoadTable(q.t, c.m, rows)
             td == IF q.t = "stats" THEN Append(c.todo, "skill") ELSE c.todo
             v == World'
  <1>1. c.out # <<>> /\ UNCHANGED <<cre, db, disk, pend, tx>> /\ torn' = (torn \/ rows # q.was)
    BY DEF LoadCallback
  <1>2. SessionOk(c, World) /\ cl = [o \in Sessions |-> cl[o]]
    BY DEF CharacterInv
  <1>3. IsSeq(c.out) /\ 1 \in DOMAIN c.out /\ q = c.out[1]
    BY <1>1, <1>2, SeqTail DEF SessionOk, WorkOk
  <1>4. q.t \in Asked(c)
    BY <1>3 DEF Asked, Reading, Range
  <1>5. cre.st \in {"created", "orphan"}
    BY <1>4, SessionExists
  <1>6. v.st = World.st /\ v.known = World.known /\ v.iksar = World.iksar /\ v.items = World.items
        /\ v.spells = World.spells /\ v.torn = torn'
    BY <1>1 DEF World, KeptItems, WithPrototype, Known
  <1> HIDE DEF v
  <1>7. SameWorld(World, v)
    BY <1>1, <1>6, WorldIs DEF SameWorld
  <1>8. QueryOk(q, World)
    BY <1>2, <1>3 DEF SessionOk
  <1>9. GoodRows(q.t, rows) /\ (q.t = "inventory" => WithPrototype(rows) = KeptItems)
    BY <1>8, SelectedGood
  <1>10. Untorn(v, q.t, rows)
    <2>1. SUFFICES ASSUME ~v.torn, q.t \in SpellTables PROVE rows = v.spells[q.t]
      BY DEF Untorn
    <2>2. ~torn /\ rows = q.was
      BY <1>1, <1>6, <2>1
    <2> QED
      BY <1>6, <1>8, <2>1, <2>2, WorldIs DEF QueryOk, Untorn
  <1>11. GemOk(v)
    <2>1. GemOk(World)
      BY <1>5, OneGemInWorld
    <2> QED
      BY <1>1, <1>6, <2>1, WorldIs DEF GemOk
  <1>12. LoadedOk(c.m, c.loaded, v)
    BY <1>2, <1>7, LoadedKept DEF SessionOk
  <1>13. PICK p1, p2, p3, p4, p5, p6 : c = [st |-> p1, todo |-> p2, out |-> p3, loaded |-> p4, m |-> p5, shown |-> p6]
    BY <1>2 DEF SessionOk, IsSession
  <1>14. c.st = "loading"
    <2>1. c.st \in {"loading", "in"}
      BY <1>2, <1>4 DEF SessionOk
    <2>2. c.st = "in" => c.loaded = Tables
      BY <1>2 DEF SessionOk
    <2>3. q.t \in Reading(c)
      BY <1>3 DEF Reading, Range
    <2>4. q.t \in Tables /\ q.t \notin c.loaded
      BY <1>2, <2>3 DEF SessionOk, WorkOk, Asked
    <2> QED
      BY <2>1, <2>2, <2>4
  <1>15. PICK e : e = [st |-> c.st, todo |-> td, out |-> Tail(c.out), loaded |-> c.loaded \cup {q.t}, m |-> m1, shown |-> c.shown]
    OBVIOUS
  <1>16. cl' = [cl EXCEPT ![s] = e]
    <2>1. cl' = [cl EXCEPT ![s].m = LoadTable(q.t, @, rows), ![s].out = Tail(@),
                           ![s].loaded = @ \cup {q.t},
                           ![s].todo = IF q.t = "stats" THEN Append(@, "skill") ELSE @]
      BY DEF LoadCallback
    <2> HIDE DEF rows, q
    <2>2. cl' = [cl EXCEPT ![s] = [[[[cl[s] EXCEPT !.m = m1] EXCEPT !.out = Tail(cl[s].out)]
                                      EXCEPT !.loaded = cl[s].loaded \cup {q.t}] EXCEPT !.todo = td]]
      <3> HIDE DEF m1, td
      <3> QED
        BY <1>2, <1>13, <2>1 DEF m1, td
    <2> HIDE DEF m1, td
    <2>3. PICK tl, ld : tl = Tail(cl[s].out) /\ ld = cl[s].loaded \cup {q.t}
      OBVIOUS
    <2>4. PICK c1 : c1 = [cl[s] EXCEPT !.m = m1]
      OBVIOUS
    <2>5. PICK c2 : c2 = [c1 EXCEPT !.out = tl]
      OBVIOUS
    <2>6. PICK c3 : c3 = [c2 EXCEPT !.loaded = ld]
      OBVIOUS
    <2>7. cl' = [cl EXCEPT ![s] = [c3 EXCEPT !.todo = td]]
      BY <2>2, <2>3, <2>4, <2>5, <2>6
    <2>8. c1 = [st |-> p1, todo |-> p2, out |-> p3, loaded |-> p4, m |-> m1, shown |-> p6]
      BY <1>13, <2>4
    <2>9. c2 = [st |-> p1, todo |-> p2, out |-> tl, loaded |-> p4, m |-> m1, shown |-> p6]
      BY <2>5, <2>8
    <2>10. c3 = [st |-> p1, todo |-> p2, out |-> tl, loaded |-> ld, m |-> m1, shown |-> p6]
      BY <2>6, <2>9
    <2>11. [c3 EXCEPT !.todo = td] = [st |-> p1, todo |-> td, out |-> tl, loaded |-> ld, m |-> m1, shown |-> p6]
      BY <2>10
    <2>12. p1 = cl[s].st /\ p6 = cl[s].shown
      BY <1>13
    <2>13. [c3 EXCEPT !.todo = td] = e
      BY <1>15, <2>3, <2>11, <2>12
    <2> QED
      BY <2>7, <2>13
  <1>17. /\ e.st = "loading" /\ e.todo = td /\ e.out = Tail(c.out) /\ e.loaded = c.loaded \cup {q.t}
         /\ e.m = m1 /\ IsSession(e)
    BY <1>14, <1>15 DEF IsSession
  <1>18. /\ WorkOk(e) /\ q.t \in Tables /\ q.t \notin c.loaded
         /\ q.t = "skill" => "stats" \in c.loaded
         /\ q.t = "stats" => "skill" \notin c.loaded
         /\ \A i \in DOMAIN e.out : \E j \in DOMAIN c.out : e.out[i] = c.out[j]
    <2>1. PICK t : t = q.t
      OBVIOUS
    <2>2. WorkOk(c) /\ CalledBack(c, e, t)
      BY <1>1, <1>2, <1>3, <1>17, <2>1 DEF SessionOk, CalledBack
    <2> HIDE DEF c, q
    <2> QED
      BY <1>1, <2>1, <2>2, CallbackWork
  <1>19. LoadedOk(m1, c.loaded \cup {q.t}, v)
    <2>1. PICK t, ld, rs, m : t = q.t /\ ld = c.loaded /\ rs = rows /\ m = c.m
      OBVIOUS
    <2>2. /\ LoadedOk(m, ld, v) /\ GemOk(v) /\ v.iksar = cre.iksar
          /\ t \in Tables /\ t \notin ld /\ (t = "skill" => "stats" \in ld)
          /\ (t = "stats" => "skill" \notin ld)
          /\ GoodRows(t, rs) /\ Untorn(v, t, rs) /\ (t = "inventory" => WithPrototype(rs) = v.items)
      BY <1>6, <1>9, <1>10, <1>11, <1>12, <1>18, <2>1, WorldIs
    <2>3. LoadedOk(LoadTable(t, m, rs), ld \cup {t}, v)
      BY <2>2, LoadTableOk
    <2> QED
      BY <2>1, <2>3
  <1>20. \A i \in DOMAIN e.out : QueryOk(e.out[i], v)
    <2>1. \A j \in DOMAIN c.out : QueryOk(c.out[j], v)
      BY <1>2, <1>7, QueryKept DEF SessionOk
    <2> HIDE DEF c
    <2> QED
      BY <1>18, <2>1
  <1>21. SessionOk(e, v)
    <2>1. v.st \in {"created", "orphan"}
      BY <1>5, <1>6, WorldIs
    <2> HIDE DEF c, q, rows, m1, td
    <2> QED
      BY <1>17, <1>18, <1>19, <1>20, <2>1 DEF SessionOk
  <1> HIDE DEF c, q, rows, m1, td
  <1>22. cl' = [o \in Sessions |-> cl'[o]] /\ \A o \in Sessions : SessionOk(cl'[o], v)
    <2>1. \A o \in Sessions : SessionOk(cl[o], v)
      BY <1>7, SessionKept DEF CharacterInv
    <2>2. cl' = [o \in Sessions |-> cl'[o]] /\ \A o \in Sessions : cl'[o] = IF o = s THEN e ELSE cl[o]
      BY <1>2, <1>16
    <2> QED
      BY <1>21, <2>1, <2>2
  <1>23. KeptItems' = KeptItems
    BY <1>1 DEF KeptItems, WithPrototype, Known
  <1>24. CreatedOk'
    BY <1>1, <1>5 DEF CharacterInv, CreatedOk
  <1>25. DiskOk'
    <2>1. FoundRows(World', disk["inventory"]) = FoundRows(World, disk["inventory"])
      BY <1>6 DEF FoundRows, v
    <2> QED
      BY <1>1, <1>23, <2>1 DEF CharacterInv, DiskOk
  <1>26. TxOk'
    <2>1. tx.at >= 0 => SnapshotOk(tx.rows, World')
      BY <1>7, SnapshotKept DEF CharacterInv, TxOk, v
    <2> QED
      BY <1>1, <2>1 DEF CharacterInv, TxOk, TxShape, TableIs
  <1>27. IsSeq(pend') /\ \A i \in DOMAIN pend' : SnapshotOk(pend'[i].rows, World')
    BY <1>1, <1>7, SnapshotKept DEF CharacterInv, v
  <1> QED
    BY <1>22, <1>24, <1>25, <1>26, <1>27 DEF CharacterInv, v

\* Between two transactions the connection sees what is committed.
LEMMA NoTransaction ==
  ASSUME CharacterInv, tx = NoTx
  PROVE  db = disk
  <1>1. tx.at = -1 /\ tx.deleted = FALSE
    BY DEF NoTx
  <1>2. db["stats"] = disk["stats"]
    BY <1>1 DEF CharacterInv, TxOk
  <1>3. \A i \in 1 .. 5 : db[Keyed[i]] = disk[Keyed[i]]
    <2>1. \A i \in 1 .. 5 : i > tx.at /\ TableIs(i)
      BY <1>1 DEF CharacterInv, TxOk
    <2> QED
      BY <2>1 DEF TableIs
  <1>4. \A t \in Tables : db[t] = disk[t]
    BY <1>2, <1>3, TablePlace
  <1>5. db = [t \in Tables |-> db[t]] /\ disk = [t \in Tables |-> disk[t]]
    BY DEF CharacterInv, DiskOk, IsRows
  <1> QED
    BY <1>4, <1>5

LEMMA FirstStepOk ==
  ASSUME CharacterInv, tx = NoTx, NEW t \in Tables
  PROVE  QueryOk(FirstStep(t), World) /\ FirstStep(t).t = t
  <1>1. PICK q : q = FirstStep(t)
    OBVIOUS
  <1>2. db = disk /\ GoodRows(t, db[t])
    BY NoTransaction DEF CharacterInv, DiskOk, IsRows
  <1>3. /\ q.t = t /\ q.was = db[t]
        /\ q.rows = IF ReadAtOnce(t) \/ db[t] = {} THEN db[t] ELSE {Lowest(db[t])}
    BY <1>1 DEF FirstStep
  <1>4. GoodRows(t, q.rows)
    <2>1. CASE ReadAtOnce(t) \/ db[t] = {}
      BY <1>2, <1>3, <2>1
    <2>2. CASE ~(ReadAtOnce(t) \/ db[t] = {})
      <3>1. Lowest(db[t]) \in db[t]
        BY <1>2, <2>2, LowestFound DEF GoodRows
      <3>2. q.rows \in SUBSET db[t]
        BY <1>3, <2>2, <3>1
      <3> QED
        BY <1>2, <3>2, GoodPart
    <2> QED
      BY <2>1, <2>2
  <1>5. t = "inventory" => FoundRows(World, q.rows) = World.items
    BY <1>2, <1>3, WorldIs DEF ReadAtOnce, CharacterInv, DiskOk
  <1>6. Untorn(World, t, q.was)
    BY <1>2, <1>3, WorldIs DEF Untorn
  <1> QED
    BY <1>1, <1>3, <1>4, <1>5, <1>6 DEF QueryOk

\* The order in which a batch of n queries is executed
Turn(n, i) == IF i = n THEN 1 ELSE i + 1

LEMMA BatchOrder ==
  ASSUME NEW s, IsSeq(s), NEW n \in DOMAIN s
  PROVE  LET b == SubSeq(s, 2, n) \o <<s[1]>>
         IN  \A i \in 1 .. n : b[i] = s[Turn(n, i)]
  <1> DEFINE S == Range(s)
             k == Len(s)
             a == SubSeq(s, 2, n)
             z == <<s[1]>>
             b == a \o z
  <1>1. s \in Seq(S) /\ k \in Nat /\ DOMAIN s = 1 .. k /\ n \in 1 .. k
    BY DEF IsSeq
  <1>2. \A i \in 1 .. k : s[i] \in S
    BY <1>1 DEF Range
  <1> HIDE DEF S, k
  <1>3. 2 \in Int /\ n \in Int /\ \A i \in 2 .. n : s[i] \in S
    BY <1>1, <1>2
  <1>4. /\ a \in Seq(S) /\ Len(a) = IF 2 <= n THEN n - 2 + 1 ELSE 0
        /\ \A i \in 1 .. n - 2 + 1 : a[i] = s[2 + i - 1]
    BY <1>3, SubSeqProperties
  <1>5. Len(a) = n - 1
    BY <1>1, <1>4
  <1>6. z \in Seq(S) /\ Len(z) = 1 /\ z[1] = s[1]
    BY <1>1, <1>2
  <1> HIDE DEF a, z
  <1>7. \A i \in 1 .. Len(a) + Len(z) : b[i] = IF i <= Len(a) THEN a[i] ELSE z[i - Len(a)]
    BY <1>4, <1>6, ConcatProperties
  <1> HIDE DEF b
  <1>8. ASSUME NEW i \in 1 .. n PROVE b[i] = s[Turn(n, i)]
    <2>1. b[i] = IF i <= n - 1 THEN a[i] ELSE z[i - (n - 1)]
      BY <1>1, <1>5, <1>6, <1>7
    <2>2. CASE i = n
      <3>1. ~(i <= n - 1) /\ i - (n - 1) = 1
        BY <1>1, <2>2
      <3> QED
        BY <1>6, <2>1, <2>2, <3>1 DEF Turn
    <2>3. CASE i # n
      <3>1. i <= n - 1 /\ i \in 1 .. n - 2 + 1 /\ 2 + i - 1 = i + 1
        BY <1>1, <2>3
      <3>2. a[i] = s[i + 1]
        BY <1>4, <3>1
      <3> QED
        BY <2>1, <2>3, <3>1, <3>2 DEF Turn
    <2> QED
      BY <2>2, <2>3
  <1> QED
    BY <1>8 DEF b, a, z

LEMMA TurnFacts ==
  ASSUME NEW n \in Nat \ {0}
  PROVE  /\ \A i \in 1 .. n : Turn(n, i) \in 1 .. n
         /\ \A i, j \in 1 .. n : Turn(n, i) = Turn(n, j) => i = j
         /\ \A k \in 1 .. n : \E i \in 1 .. n : Turn(n, i) = k
  <1>1. \A i \in 1 .. n : Turn(n, i) \in 1 .. n
    BY DEF Turn
  <1>2. \A i, j \in 1 .. n : Turn(n, i) = Turn(n, j) => i = j
    BY DEF Turn
  <1>3. ASSUME NEW k \in 1 .. n PROVE \E i \in 1 .. n : Turn(n, i) = k
    <2>1. CASE k = 1
      BY <2>1 DEF Turn
    <2>2. CASE k # 1
      <3>1. k - 1 \in 1 .. n /\ k - 1 # n /\ (k - 1) + 1 = k
        BY <2>2
      <3> QED
        BY <3>1 DEF Turn
    <2> QED
      BY <2>1, <2>2
  <1> QED
    BY <1>1, <1>2, <1>3

\* The queries of a session before and after n of them are executed
Executed(c, e, n) ==
    /\ n \in DOMAIN c.todo
    /\ e.loaded = c.loaded
    /\ e.todo = SubSeq(c.todo, n + 1, Len(c.todo))
    /\ IsSeq(e.out) /\ DOMAIN e.out = 1 .. n + Len(c.out)
    /\ \A i \in 1 .. n : e.out[i].t = c.todo[Turn(n, i)]
    /\ \A i \in 1 .. Len(c.out) : e.out[n + i] = c.out[i]

LEMMA ExecutedWork ==
  ASSUME NEW c, WorkOk(c), NEW e, NEW n, Executed(c, e, n)
  PROVE  WorkOk(e) /\ Asked(e) = Asked(c)
  <1> DEFINE k == Len(c.todo)
             l == Len(c.out)
             a == c.todo
             b == c.out
             u == e.todo
             o == e.out
  <1>1. k \in Nat /\ DOMAIN a = 1 .. k /\ n \in 1 .. k /\ a \in Seq(Range(a))
    BY DEF WorkOk, IsSeq, Executed
  <1>2. l \in Nat /\ DOMAIN b = 1 .. l
    BY DEF WorkOk, IsSeq
  <1>3. /\ IsSeq(o) /\ DOMAIN o = 1 .. n + l
        /\ \A i \in 1 .. n : o[i].t = a[Turn(n, i)]
        /\ \A i \in 1 .. l : o[n + i] = b[i]
    BY DEF Executed
  <1>4. /\ \A i \in 1 .. n : Turn(n, i) \in 1 .. n
        /\ \A i, j \in 1 .. n : Turn(n, i) = Turn(n, j) => i = j
        /\ \A x \in 1 .. n : \E i \in 1 .. n : Turn(n, i) = x
    <2>1. n \in Nat \ {0}
      BY <1>1
    <2> QED
      BY <2>1, TurnFacts
  <1>5. u = SubSeq(a, n + 1, k) /\ e.loaded = c.loaded
    BY DEF Executed
  <1> HIDE DEF k, l
  <1>6. Len(u) = k - n /\ (\A i \in 1 .. k - n : u[i] = a[n + i]) /\ IsSeq(u) /\ DOMAIN u = 1 .. k - n
    <2>1. n + 1 \in Int /\ k \in Int /\ \A i \in n + 1 .. k : a[i] \in Range(a)
      BY <1>1 DEF Range
    <2>2. /\ u \in Seq(Range(a)) /\ Len(u) = IF n + 1 <= k THEN k - (n + 1) + 1 ELSE 0
          /\ \A i \in 1 .. k - (n + 1) + 1 : u[i] = a[(n + 1) + i - 1]
      BY <1>5, <2>1, SubSeqProperties
    <2>3. k - (n + 1) + 1 = k - n /\ \A i \in 1 .. k - n : (n + 1) + i - 1 = n + i
      BY <1>1
    <2>4. Len(u) = k - n /\ k - n \in Nat
      BY <1>1, <2>2
    <2>5. \A i \in 1 .. k - n : u[i] = a[n + i]
      BY <2>2, <2>3
    <2>6. DOMAIN u = 1 .. k - n /\ u = [i \in 1 .. k - n |-> u[i]]
      BY <2>2, <2>4
    <2>7. IsSeq(u)
      BY <2>4, <2>6, SeqOfDomain
    <2> QED
      BY <2>4, <2>5, <2>6, <2>7
  <1>7. ASSUME NEW t
        PROVE  /\ t \in Todo(c) <=> \E i \in 1 .. k : t = a[i]
               /\ t \in Todo(e) <=> \E i \in 1 .. k - n : t = a[n + i]
               /\ t \in Reading(c) <=> \E i \in 1 .. l : t = b[i].t
               /\ t \in Reading(e) <=> \E i \in 1 .. n + l : t = o[i].t
    <2>1. t \in Todo(c) <=> \E i \in 1 .. k : t = a[i]
      BY <1>1 DEF Todo, Range
    <2>2. t \in Todo(e) <=> \E i \in 1 .. k - n : t = u[i]
      BY <1>6 DEF Todo, Range
    <2>3. t \in Todo(e) <=> \E i \in 1 .. k - n : t = a[n + i]
      BY <1>6, <2>2
    <2>4. t \in Reading(c) <=> \E i \in 1 .. l : t = b[i].t
      BY <1>2 DEF Reading, Range
    <2>5. t \in Reading(e) <=> \E i \in 1 .. n + l : t = o[i].t
      BY <1>3 DEF Reading, Range
    <2> QED
      BY <2>1, <2>3, <2>4, <2>5
  <1>8. \A i, j \in 1 .. k : a[i] = a[j] => i = j
    BY <1>1 DEF WorkOk
  <1>9. \A i, j \in 1 .. l : b[i].t = b[j].t => i = j
    BY <1>2 DEF WorkOk
  <1>10. \A i \in 1 .. n + l : i \in 1 .. n \/ (i - n \in 1 .. l /\ o[i] = b[i - n])
    <2>1. SUFFICES ASSUME NEW i \in 1 .. n + l, i \notin 1 .. n PROVE i - n \in 1 .. l /\ o[i] = b[i - n]
      OBVIOUS
    <2>2. i - n \in 1 .. l /\ n + (i - n) = i
      BY <1>1, <1>2, <2>1
    <2> QED
      BY <1>3, <2>2
  <1>11. ASSUME NEW t
         PROVE  t \in Reading(e) <=> t \in Reading(c) \/ \E i \in 1 .. n : t = a[i]
    <2>1. ASSUME t \in Reading(e) PROVE t \in Reading(c) \/ \E i \in 1 .. n : t = a[i]
      <3>1. PICK i \in 1 .. n + l : t = o[i].t
        BY <1>7, <2>1
      <3>2. CASE i \in 1 .. n
        BY <1>3, <1>4, <3>1, <3>2
      <3>3. CASE i - n \in 1 .. l /\ o[i] = b[i - n]
        BY <1>7, <3>1, <3>3
      <3> QED
        BY <1>10, <3>1, <3>2, <3>3
    <2>2. ASSUME t \in Reading(c) PROVE t \in Reading(e)
      <3>1. PICK i \in 1 .. l : t = b[i].t
        BY <1>7, <2>2
      <3>2. n + i \in 1 .. n + l /\ o[n + i] = b[i]
        BY <1>1, <1>2, <1>3, <3>1
      <3> QED
        BY <1>7, <3>1, <3>2
    <2>3. ASSUME NEW x \in 1 .. n, t = a[x] PROVE t \in Reading(e)
      <3>1. PICK i \in 1 .. n : Turn(n, i) = x
        BY <1>4
      <3>2. i \in 1 .. n + l /\ o[i].t = t
        BY <1>1, <1>2, <1>3, <2>3, <3>1
      <3> QED
        BY <1>7, <3>2
    <2> QED
      BY <2>1, <2>2, <2>3
  <1>12. ASSUME NEW t
         PROVE  t \in Todo(c) <=> t \in Todo(e) \/ \E i \in 1 .. n : t = a[i]
    <2>1. ASSUME t \in Todo(c) PROVE t \in Todo(e) \/ \E i \in 1 .. n : t = a[i]
      <3>1. PICK i \in 1 .. k : t = a[i]
        BY <1>7, <2>1
      <3>2. i \in 1 .. n \/ (i - n \in 1 .. k - n /\ n + (i - n) = i)
        BY <1>1, <3>1
      <3> QED
        BY <1>7, <3>1, <3>2
    <2>2. ASSUME t \in Todo(e) PROVE t \in Todo(c)
      <3>1. PICK i \in 1 .. k - n : t = a[n + i]
        BY <1>7, <2>2
      <3>2. n + i \in 1 .. k
        BY <1>1, <3>1
      <3> QED
        BY <1>7, <3>1, <3>2
    <2>3. ASSUME NEW x \in 1 .. n, t = a[x] PROVE t \in Todo(c)
      <3>1. x \in 1 .. k
        BY <1>1
      <3> QED
        BY <1>7, <2>3, <3>1
    <2> QED
      BY <2>1, <2>2, <2>3
  <1>13. ASSUME NEW t, t \in Todo(e), NEW i \in 1 .. n, t = a[i] PROVE FALSE
    <2>1. PICK j \in 1 .. k - n : t = a[n + j]
      BY <1>7, <1>13
    <2>2. n + j \in 1 .. k /\ i \in 1 .. k /\ n + j # i
      BY <1>1, <2>1
    <2> QED
      BY <1>8, <1>13, <2>1, <2>2
  <1>14. Asked(e) = Asked(c)
    BY <1>5, <1>11, <1>12 DEF Asked
  <1>15. \A i, j \in DOMAIN u : u[i] = u[j] => i = j
    <2>1. SUFFICES ASSUME NEW i \in 1 .. k - n, NEW j \in 1 .. k - n, u[i] = u[j] PROVE i = j
      BY <1>6
    <2>2. a[n + i] = a[n + j] /\ n + i \in 1 .. k /\ n + j \in 1 .. k
      BY <1>1, <1>6, <2>1
    <2>3. n + i = n + j
      BY <1>8, <2>2
    <2> QED
      BY <1>1, <2>3
  <1>16. ASSUME NEW i \in 1 .. n, NEW j \in 1 .. n + l, o[i].t = o[j].t PROVE i = j
    <2>1. Turn(n, i) \in 1 .. n /\ o[i].t = a[Turn(n, i)] /\ o[i].t \in Todo(c)
      BY <1>3, <1>4, <1>12
    <2>2. CASE j \in 1 .. n
      <3>1. Turn(n, j) \in 1 .. n /\ o[j].t = a[Turn(n, j)]
        BY <1>3, <1>4, <2>2
      <3>2. Turn(n, i) \in 1 .. k /\ Turn(n, j) \in 1 .. k
        BY <1>1, <2>1, <3>1
      <3>3. Turn(n, i) = Turn(n, j)
        BY <1>8, <1>16, <2>1, <3>1, <3>2
      <3> QED
        BY <1>4, <2>2, <3>3
    <2>3. CASE j - n \in 1 .. l /\ o[j] = b[j - n]
      <3>1. o[j].t \in Reading(c)
        BY <1>7, <2>3
      <3> QED
        BY <1>16, <2>1, <3>1 DEF WorkOk
    <2> QED
      BY <1>10, <2>2, <2>3
  <1>17. \A i, j \in DOMAIN o : o[i].t = o[j].t => i = j
    <2>1. SUFFICES ASSUME NEW i \in 1 .. n + l, NEW j \in 1 .. n + l, o[i].t = o[j].t PROVE i = j
      BY <1>3
    <2>2. CASE i \in 1 .. n
      BY <1>16, <2>1, <2>2
    <2>3. CASE j \in 1 .. n
      BY <1>16, <2>1, <2>3
    <2>4. CASE (i - n \in 1 .. l /\ o[i] = b[i - n]) /\ (j - n \in 1 .. l /\ o[j] = b[j - n])
      <3>1. i - n = j - n
        BY <1>9, <2>1, <2>4
      <3> QED
        BY <1>1, <1>2, <3>1
    <2> QED
      BY <1>10, <2>2, <2>3, <2>4
  <1>18. Todo(e) \cap Reading(e) = {}
    BY <1>11, <1>12, <1>13 DEF WorkOk
  <1>19. Todo(e) \cap e.loaded = {} /\ Reading(e) \cap e.loaded = {}
    BY <1>5, <1>11, <1>12 DEF WorkOk
  <1>20. Asked(e) \subseteq Tables /\ ("skill" \in Asked(e) => "stats" \in e.loaded)
    BY <1>5, <1>14 DEF WorkOk
  <1> QED
    BY <1>3, <1>6, <1>14, <1>15, <1>17, <1>18, <1>19, <1>20 DEF WorkOk

LEMMA ExecuteLoadsStep ==
  ASSUME CharacterInv, NEW s \in Sessions, NEW n, ExecuteLoads(s, n)
  PROVE  CharacterInv'
  <1> DEFINE c == cl[s]
             td == c.todo
             batch == SubSeq(td, 2, n) \o <<td[1]>>
             new == [i \in 1 .. n |-> FirstStep(batch[i])]
             o == new \o c.out
             u == SubSeq(td, n + 1, Len(td))
  <1>1. tx = NoTx /\ n \in DOMAIN td /\ SameRest
    BY DEF ExecuteLoads, SameRest
  <1>2. SessionOk(c, World) /\ cl = [x \in Sessions |-> cl[x]] /\ WorkOk(c)
    BY DEF CharacterInv, SessionOk
  <1>3. IsSeq(td) /\ Len(td) \in Nat /\ DOMAIN td = 1 .. Len(td) /\ n \in Nat \ {0}
    BY <1>1, <1>2 DEF WorkOk, IsSeq
  <1>4. \A i \in 1 .. n : batch[i] = td[Turn(n, i)]
    BY <1>1, <1>3, BatchOrder
  <1>5. \A i \in 1 .. n : Turn(n, i) \in 1 .. n
    BY <1>3, TurnFacts
  <1> HIDE DEF batch
  <1>6. \A i \in 1 .. n : batch[i] \in Tables /\ batch[i] \in Asked(c)
    <2>1. ASSUME NEW i \in 1 .. n PROVE batch[i] \in Tables /\ batch[i] \in Asked(c)
      <3>1. Turn(n, i) \in DOMAIN td
        BY <1>1, <1>3, <1>5
      <3>2. batch[i] \in Todo(c)
        BY <1>4, <3>1 DEF Todo, Range
      <3> QED
        BY <1>2, <3>2 DEF WorkOk, Asked
    <2> QED
      BY <2>1
  <1>7. c.st \in {"loading", "in"} /\ c.st # "in" /\ cre.st \in {"created", "orphan"}
    <2>1. 1 \in 1 .. n
      BY <1>3
    <2>2. Asked(c) # {} /\ batch[1] \in Asked(c) /\ td[Turn(n, 1)] = batch[1]
      BY <1>4, <1>6, <2>1
    <2>3. c.st \in {"loading", "in"}
      BY <1>2, <2>2 DEF SessionOk
    <2>4. c.st = "in" => c.loaded = Tables
      BY <1>2 DEF SessionOk
    <2>5. batch[1] \in Todo(c) /\ batch[1] \in Tables
      <3>1. Turn(n, 1) \in DOMAIN td
        BY <1>1, <1>3, <1>5, <2>1
      <3> QED
        BY <1>6, <2>1, <2>2, <3>1 DEF Todo, Range
    <2>6. c.loaded # Tables
      BY <1>2, <2>5 DEF WorkOk
    <2>7. cre.st \in {"created", "orphan"}
      BY <2>3, SessionExists
    <2> QED
      BY <2>3, <2>4, <2>6, <2>7
  <1>8. \A i \in 1 .. n : QueryOk(new[i], World) /\ new[i].t = td[Turn(n, i)]
    BY <1>1, <1>4, <1>6, FirstStepOk
  <1> DEFINE l == Len(c.out)
             X == Range(new) \cup Range(c.out)
  <1>9. l \in Nat /\ DOMAIN c.out = 1 .. l /\ c.out \in Seq(X)
    <2>1. c.out \in Seq(Range(c.out))
      BY <1>2 DEF WorkOk, IsSeq
    <2>2. Range(c.out) \subseteq X
      OBVIOUS
    <2> HIDE DEF X, new, c
    <2> QED
      BY <2>1, <2>2
  <1>10. new \in Seq(X) /\ Len(new) = n
    <2>1. DOMAIN new = 1 .. n /\ new = [i \in 1 .. n |-> new[i]]
      OBVIOUS
    <2> HIDE DEF new
    <2>2. IsSeq(new) /\ Len(new) = n
      BY <1>3, <2>1, SeqOfDomain
    <2> QED
      BY <2>2 DEF IsSeq
  <1> HIDE DEF new, X
  <1>11. o \in Seq(X) /\ Len(o) = n + l /\ \A i \in 1 .. n + l : o[i] = IF i <= n THEN new[i] ELSE c.out[i - n]
    BY <1>9, <1>10, ConcatProperties
  <1>12. DOMAIN o = 1 .. n + l /\ n + l \in Nat
    BY <1>3, <1>9, <1>11
  <1> HIDE DEF o, l
  <1>13. IsSeq(o)
    <2>1. o = [i \in 1 .. n + l |-> o[i]]
      BY <1>11, <1>12
    <2> QED
      BY <1>12, <2>1, SeqOfDomain
  <1>14. \A i \in 1 .. n : o[i] = new[i]
    BY <1>3, <1>9, <1>11
  <1>15. \A i \in 1 .. l : o[n + i] = c.out[i]
    <2>1. ASSUME NEW i \in 1 .. l PROVE o[n + i] = c.out[i]
      <3>1. n + i \in 1 .. n + l /\ ~(n + i <= n) /\ (n + i) - n = i
        BY <1>3, <1>9
      <3> QED
        BY <1>11, <3>1
    <2> QED
      BY <2>1
  <1>16. PICK p1, p2, p3, p4, p5, p6 : c = [st |-> p1, todo |-> p2, out |-> p3, loaded |-> p4, m |-> p5, shown |-> p6]
    BY <1>2 DEF SessionOk, IsSession
  <1>17. PICK e : e = [st |-> c.st, todo |-> u, out |-> o, loaded |-> c.loaded, m |-> c.m, shown |-> c.shown]
    OBVIOUS
  <1>18. cl' = [cl EXCEPT ![s] = e]
    <2>1. cl' = [cl EXCEPT ![s].out = new \o @, ![s].todo = SubSeq(@, n + 1, Len(@))]
      BY DEF ExecuteLoads, new, batch
    <2> HIDE DEF u
    <2>2. cl' = [cl EXCEPT ![s] = [[cl[s] EXCEPT !.out = o] EXCEPT !.todo = u]]
      BY <1>2, <1>16, <2>1 DEF u, o
    <2>3. PICK c1 : c1 = [cl[s] EXCEPT !.out = o]
      OBVIOUS
    <2>4. cl' = [cl EXCEPT ![s] = [c1 EXCEPT !.todo = u]]
      BY <2>2, <2>3
    <2>5. c1 = [st |-> p1, todo |-> p2, out |-> o, loaded |-> p4, m |-> p5, shown |-> p6]
      BY <1>16, <2>3
    <2>6. [c1 EXCEPT !.todo = u] = [st |-> p1, todo |-> u, out |-> o, loaded |-> p4, m |-> p5, shown |-> p6]
      BY <2>5
    <2>7. p1 = c.st /\ p4 = c.loaded /\ p5 = c.m /\ p6 = c.shown
      BY <1>16
    <2>8. [c1 EXCEPT !.todo = u] = e
      BY <1>17, <2>6, <2>7
    <2> QED
      BY <2>4, <2>8
  <1>19. /\ IsSession(e) /\ e.st = c.st /\ e.todo = u /\ e.out = o /\ e.loaded = c.loaded
         /\ e.m = c.m /\ e.shown = c.shown
    BY <1>17 DEF IsSession
  <1>20. Executed(c, e, n)
    <2>1. \A i \in 1 .. n : e.out[i].t = td[Turn(n, i)]
      BY <1>8, <1>14, <1>19
    <2> QED
      BY <1>1, <1>12, <1>13, <1>15, <1>19, <2>1 DEF Executed, l
  <1> HIDE DEF c, u
  <1>21. WorkOk(e) /\ Asked(e) = Asked(c)
    BY <1>2, <1>20, ExecutedWork
  <1>22. \A i \in DOMAIN e.out : QueryOk(e.out[i], World)
    <2>1. SUFFICES ASSUME NEW i \in 1 .. n + l PROVE QueryOk(o[i], World)
      BY <1>12, <1>19
    <2>2. CASE i \in 1 .. n
      BY <1>8, <1>14, <2>2
    <2>3. CASE i \notin 1 .. n
      <3>1. i - n \in 1 .. l /\ n + (i - n) = i
        BY <1>3, <1>9, <2>1, <2>3
      <3>2. o[i] = c.out[i - n]
        BY <1>15, <3>1
      <3> QED
        BY <1>2, <1>9, <3>1, <3>2 DEF SessionOk
    <2> QED
      BY <2>2, <2>3
  <1>23. SessionOk(e, World)
    BY <1>2, <1>7, <1>19, <1>21, <1>22, WorldIs DEF SessionOk
  <1> QED
    BY <1>1, <1>7, <1>18, <1>23, OneSession

-----------------------------------------------------------------------------
(* Saving *)

LEMMA AutoSaveStep ==
  ASSUME CharacterInv, NEW s \in Sessions, AutoSave(s)
  PROVE  CharacterInv'
  <1> DEFINE m == cl[s].m
             p == [of |-> s, rows |-> Snapshot(m)]
  <1>1. SessionOk(cl[s], World) /\ cre.st \in {"created", "orphan"} /\ cl[s].st = "in"
    BY SessionExists DEF AutoSave
  <1>2. LoadedOk(m, Tables, World)
    BY <1>1 DEF SessionOk
  <1>3. WorldOk(World)
    BY ItemsOk DEF CharacterInv
  <1>4. SnapshotOk(Snapshot(m), World)
    BY <1>2, <1>3, SnapshotGood
  <1>5. pend' = Append(pend, p) /\ UNCHANGED <<cre, db, disk, cl, tx, torn>>
    BY DEF AutoSave
  <1>6. p.rows = Snapshot(m)
    OBVIOUS
  <1> HIDE DEF p, m
  <1>7. IsSeq(pend) /\ \A i \in DOMAIN pend : SnapshotOk(pend[i].rows, World)
    BY DEF CharacterInv
  <1>8. /\ IsSeq(pend') /\ Len(pend) \in Nat /\ Len(pend') = Len(pend) + 1
        /\ \A i \in 1 .. Len(pend) : pend'[i] = pend[i]
        /\ pend'[Len(pend) + 1] = p
    BY <1>5, <1>7, SeqAppended
  <1>9. DOMAIN pend = 1 .. Len(pend) /\ DOMAIN pend' = 1 .. Len(pend) + 1
    BY <1>7, <1>8 DEF IsSeq
  <1>10. \A i \in DOMAIN pend' : SnapshotOk(pend'[i].rows, World)
    <2>1. SUFFICES ASSUME NEW i \in 1 .. Len(pend) + 1 PROVE SnapshotOk(pend'[i].rows, World)
      BY <1>9
    <2>2. i = Len(pend) + 1 \/ i \in 1 .. Len(pend)
      BY <1>8
    <2> QED
      BY <1>4, <1>6, <1>7, <1>8, <1>9, <2>2
  <1>11. World' = World /\ KeptItems' = KeptItems
    BY <1>5 DEF World, KeptItems, WithPrototype, Known
  <1>12. CreatedOk'
    BY <1>1, <1>5 DEF CharacterInv, CreatedOk
  <1>13. DiskOk'
    BY <1>5, <1>11 DEF CharacterInv, DiskOk
  <1>14. TxOk'
    BY <1>5, <1>11 DEF CharacterInv, TxOk, TxShape, TableIs
  <1> QED
    BY <1>5, <1>8, <1>10, <1>11, <1>12, <1>13, <1>14 DEF CharacterInv

LEMMA SavingOnly ==
  ASSUME CharacterInv, UNCHANGED <<cre, disk, cl, torn>>, cre.st \notin {"none", "inserted"},
         IsRows(db'), TxOk', IsSeq(pend'), \A i \in DOMAIN pend' : SnapshotOk(pend'[i].rows, World)
  PROVE  CharacterInv'
  <1>1. World' = World /\ KeptItems' = KeptItems
    BY DEF World, KeptItems, WithPrototype, Known
  <1>2. CreatedOk'
    BY DEF CharacterInv, CreatedOk
  <1>3. DiskOk'
    BY <1>1 DEF CharacterInv, DiskOk
  <1> QED
    BY <1>1, <1>2, <1>3 DEF CharacterInv

LEMMA BeginStep ==
  ASSUME CharacterInv, Begin
  PROVE  CharacterInv'
  <1> DEFINE n == Len(pend)
             p == pend[n].rows
  <1>1. /\ tx = NoTx /\ pend # <<>> /\ tx' = [rows |-> p, at |-> 0, deleted |-> FALSE]
        /\ pend' = SubSeq(pend, 1, n - 1) /\ UNCHANGED <<cre, db, disk, cl, torn>>
    BY DEF Begin
  <1>2. IsSeq(pend) /\ \A i \in DOMAIN pend : SnapshotOk(pend[i].rows, World)
    BY DEF CharacterInv
  <1>3. n \in Nat \ {0} /\ DOMAIN pend = 1 .. n /\ pend \in Seq(Range(pend))
    BY <1>1, <1>2, SeqTail DEF IsSeq
  <1>4. cre.st \notin {"none", "inserted"}
    BY <1>1 DEF CharacterInv, CreatedOk
  <1>5. SnapshotOk(p, World)
    BY <1>2, <1>3
  <1> HIDE DEF n, p
  <1>6. IsSeq(pend') /\ DOMAIN pend' = 1 .. n - 1 /\ \A i \in 1 .. n - 1 : pend'[i] = pend[i]
    <2>1. 1 \in Int /\ n - 1 \in Int /\ \A i \in 1 .. n - 1 : pend[i] \in Range(pend)
      BY <1>3 DEF Range
    <2>2. /\ pend' \in Seq(Range(pend)) /\ Len(pend') = IF 1 <= n - 1 THEN (n - 1) - 1 + 1 ELSE 0
          /\ \A i \in 1 .. (n - 1) - 1 + 1 : pend'[i] = pend[1 + i - 1]
      BY <1>1, <2>1, SubSeqProperties
    <2>3. Len(pend') = n - 1 /\ n - 1 \in Nat /\ (n - 1) - 1 + 1 = n - 1 /\ \A i \in 1 .. n - 1 : 1 + i - 1 = i
      BY <1>3, <2>2
    <2>4. \A i \in 1 .. n - 1 : pend'[i] = pend[i]
      BY <2>2, <2>3
    <2>5. DOMAIN pend' = 1 .. n - 1 /\ pend' = [i \in 1 .. n - 1 |-> pend'[i]]
      BY <2>2, <2>3
    <2>6. IsSeq(pend')
      BY <2>3, <2>5, SeqOfDomain
    <2> QED
      BY <2>4, <2>5, <2>6
  <1>7. \A i \in DOMAIN pend' : SnapshotOk(pend'[i].rows, World)
    BY <1>2, <1>3, <1>6
  <1>8. db = disk
    BY <1>1, NoTransaction
  <1>9. World' = World
    BY <1>1 DEF World, KeptItems, WithPrototype, Known
  <1>10. tx'.rows = p /\ tx'.at = 0 /\ tx'.deleted = FALSE /\ TxShape' /\ tx' # NoTx
    BY <1>1 DEF TxShape, NoTx
  <1>11. \A i \in 1 .. 5 : TableIs(i)'
    BY <1>1, <1>8, <1>10 DEF TableIs
  <1>12. TxOk'
    BY <1>1, <1>5, <1>8, <1>9, <1>10, <1>11 DEF TxOk
  <1>13. IsRows(db')
    BY <1>1 DEF CharacterInv, DiskOk
  <1> QED
    BY <1>1, <1>4, <1>6, <1>7, <1>12, <1>13, SavingOnly

\* A statement of the transaction writes one table.
LEMMA StatementWrites ==
  ASSUME CharacterInv, tx # NoTx, UNCHANGED <<cre, disk, cl, pend, torn>>,
         NEW t \in Tables, NEW rows, GoodRows(t, rows), db' = [db EXCEPT ![t] = rows], TxOk'
  PROVE  CharacterInv'
  <1>1. IsRows(db) /\ cre.st \notin {"none", "inserted"}
    BY DEF CharacterInv, DiskOk, CreatedOk
  <1>2. db' = [x \in Tables |-> db'[x]] /\ \A x \in Tables : db'[x] = IF x = t THEN rows ELSE db[x]
    BY <1>1 DEF IsRows
  <1>3. IsRows(db')
    BY <1>1, <1>2 DEF IsRows
  <1>4. IsSeq(pend') /\ \A i \in DOMAIN pend' : SnapshotOk(pend'[i].rows, World)
    BY DEF CharacterInv
  <1> QED
    BY <1>1, <1>3, <1>4, SavingOnly

LEMMA InTransaction ==
  ASSUME CharacterInv, tx # NoTx
  PROVE  /\ tx.at \in 0 .. 6 /\ tx.deleted \in BOOLEAN /\ TxShape
         /\ SnapshotOk(tx.rows, World) /\ IsRows(tx.rows) /\ IsRows(db)
         /\ db["stats"] = (IF tx.at >= 1 THEN tx.rows["stats"] ELSE disk["stats"])
         /\ \A i \in 1 .. 5 : TableIs(i)
         /\ tx.deleted => tx.at \in 1 .. 5
  <1>1. tx.at \in -1 .. 6 /\ tx.at # -1
    BY DEF CharacterInv, TxOk
  <1>2. tx.at \in 0 .. 6
    BY <1>1
  <1>3. tx.at >= 0
    BY <1>2
  <1> QED
    BY <1>2, <1>3 DEF CharacterInv, TxOk, DiskOk, SnapshotOk

LEMMA UpdateStatsStep ==
  ASSUME CharacterInv, tx # NoTx, UpdateStats, UNCHANGED <<cre, disk, cl, pend, torn>>
  PROVE  CharacterInv'
  <1> DEFINE r == tx.rows["stats"]
  <1>1. tx.at = 0 /\ db' = [db EXCEPT !["stats"] = r] /\ tx' = [tx EXCEPT !.at = 1]
    BY DEF UpdateStats
  <1>2. "stats" \in Tables
    BY TableNames
  <1>3. GoodRows("stats", r)
    BY <1>2, InTransaction DEF IsRows
  <1>4. tx'.rows = tx.rows /\ tx'.at = 1 /\ tx'.deleted = tx.deleted /\ TxShape'
    BY <1>1, InTransaction DEF TxShape
  <1>5. ~tx.deleted
    BY <1>1, InTransaction
  <1>6. db'["stats"] = r /\ \A i \in 1 .. 5 : db'[Keyed[i]] = db[Keyed[i]]
    BY <1>1, <1>2, InTransaction, TablesDistinct DEF IsRows
  <1>7. \A i \in 1 .. 5 : TableIs(i)'
    <2>1. ASSUME NEW i \in 1 .. 5 PROVE TableIs(i)'
      <3>1. TableIs(i) /\ i > tx.at
        BY <1>1, InTransaction
      <3>2. db'[Keyed[i]] = disk'[Keyed[i]]
        BY <1>6, <3>1 DEF TableIs
      <3> QED
        BY <1>4, <1>5, <3>2 DEF TableIs
    <2> QED
      BY <2>1
  <1>8. World' = World
    BY DEF World, KeptItems, WithPrototype, Known
  <1>9. tx' # NoTx
    BY <1>4 DEF NoTx
  <1>10. TxOk'
    BY <1>4, <1>5, <1>6, <1>7, <1>8, <1>9, InTransaction DEF TxOk
  <1> HIDE DEF r
  <1> QED
    BY <1>1, <1>2, <1>3, <1>10, StatementWrites

\* The tables but the one that is written are as they were.
LEMMA OtherTables ==
  ASSUME CharacterInv, tx # NoTx, NEW k \in 1 .. 5, NEW rows, db' = [db EXCEPT ![Keyed[k]] = rows]
  PROVE  /\ db'["stats"] = db["stats"] /\ db'[Keyed[k]] = rows
         /\ \A i \in 1 .. 5 : i # k => db'[Keyed[i]] = db[Keyed[i]]
  <1>1. IsRows(db)
    BY InTransaction
  <1>2. Keyed[k] \in Tables /\ "stats" \in Tables
    BY TablesDistinct, TableNames
  <1>3. \A x \in Tables : db'[x] = IF x = Keyed[k] THEN rows ELSE db[x]
    BY <1>1, <1>2 DEF IsRows
  <1> QED
    BY <1>2, <1>3, TablesDistinct

\* The transaction is done with table k and goes on to the next, or stays with k.
LEMMA TableWritten ==
  ASSUME CharacterInv, tx # NoTx, UNCHANGED <<cre, disk, cl, pend, torn>>,
         NEW k \in 1 .. 5, k = tx.at, NEW rows, GoodRows(Keyed[k], rows),
         db' = [db EXCEPT ![Keyed[k]] = rows],
         TxShape', tx'.rows = tx.rows,
         \/ tx'.at = k + 1 /\ tx'.deleted = FALSE /\ rows = tx.rows[Keyed[k]]
         \/ tx'.at = k /\ tx'.deleted = TRUE /\ rows \subseteq tx.rows[Keyed[k]] /\ rows # tx.rows[Keyed[k]]
  PROVE  CharacterInv'
  <1>1. /\ db'["stats"] = db["stats"] /\ db'[Keyed[k]] = rows
        /\ \A i \in 1 .. 5 : i # k => db'[Keyed[i]] = db[Keyed[i]]
    BY OtherTables
  <1>2. ASSUME NEW i \in 1 .. 5 PROVE TableIs(i)'
    <2>1. TableIs(i)
      BY InTransaction
    <2>2. CASE i = k
      BY <1>1, <2>2 DEF TableIs
    <2>3. CASE i < k
      <3>1. db[Keyed[i]] = tx.rows[Keyed[i]]
        BY <2>1, <2>3 DEF TableIs
      <3>2. db'[Keyed[i]] = tx'.rows[Keyed[i]] /\ i < tx'.at
        BY <1>1, <2>3, <3>1
      <3> QED
        BY <3>2 DEF TableIs
    <2>4. CASE i > k
      <3>1. db[Keyed[i]] = disk[Keyed[i]]
        BY <2>1, <2>4 DEF TableIs
      <3>2. db'[Keyed[i]] = disk'[Keyed[i]] /\ ~(i < tx'.at)
        BY <1>1, <2>4, <3>1
      <3>3. ~(i = tx'.at /\ tx'.deleted)
        BY <2>4
      <3> QED
        BY <3>2, <3>3 DEF TableIs
    <2> QED
      BY <2>2, <2>3, <2>4
  <1>3. World' = World
    BY DEF World, KeptItems, WithPrototype, Known
  <1>4. tx'.at \in 1 .. 6 /\ tx'.deleted \in BOOLEAN /\ (tx'.deleted => tx'.at \in 1 .. 5)
    <2>0. k \in 1 .. 6 /\ k + 1 \in 1 .. 6
      OBVIOUS
    <2>1. CASE tx'.at = k + 1 /\ tx'.deleted = FALSE
      BY Zenon, <2>0, <2>1
    <2>2. CASE tx'.at = k /\ tx'.deleted = TRUE
      BY Zenon, <2>0, <2>2
    <2> QED
      BY <2>1, <2>2
  <1>5. tx' # NoTx
    BY <1>4 DEF NoTx
  <1>6. db'["stats"] = tx'.rows["stats"]
    BY <1>1, InTransaction
  <1>7. TxOk'
    BY <1>2, <1>3, <1>4, <1>5, <1>6, InTransaction DEF TxOk
  <1>8. Keyed[k] \in Tables
    BY TablesDistinct
  <1> QED
    BY <1>7, <1>8, StatementWrites

LEMMA DeleteRowsStep ==
  ASSUME CharacterInv, tx # NoTx, DeleteRows, UNCHANGED <<cre, disk, cl, pend, torn>>
  PROVE  CharacterInv'
  <1>1. PICK k \in 1 .. 5 : k = tx.at
    BY TableNames DEF DeleteRows
  <1>2. db' = [db EXCEPT ![Keyed[k]] = {}] /\ tx.deleted = FALSE
    BY <1>1, InTransaction DEF DeleteRows
  <1>3. GoodRows(Keyed[k], {})
    BY NoGoodRows
  <1>4. CASE tx.rows[Keyed[k]] = {}
    <2>1. tx' = [tx EXCEPT !.at = k + 1]
      BY <1>1, <1>4, InTransaction DEF DeleteRows, TxShape
    <2>2. TxShape' /\ tx'.rows = tx.rows /\ tx'.at = k + 1 /\ tx'.deleted = FALSE
      BY <1>2, <2>1, InTransaction DEF TxShape
    <2> QED
      BY <1>1, <1>2, <1>3, <1>4, <2>2, TableWritten
  <1>5. CASE tx.rows[Keyed[k]] # {}
    <2>1. tx' = [tx EXCEPT !.deleted = TRUE]
      BY <1>1, <1>5 DEF DeleteRows
    <2>2. TxShape' /\ tx'.rows = tx.rows /\ tx'.at = k /\ tx'.deleted = TRUE
      BY <1>1, <2>1, InTransaction DEF TxShape
    <2> QED
      BY <1>1, <1>2, <1>3, <1>5, <2>2, TableWritten
  <1> QED
    BY <1>4, <1>5

LEMMA InsertRowStep ==
  ASSUME CharacterInv, tx # NoTx, InsertRow, UNCHANGED <<cre, disk, cl, pend, torn>>
  PROVE  CharacterInv'
  <1>1. PICK k \in 1 .. 5 : k = tx.at
    BY TableNames DEF InsertRow
  <1>2. tx.deleted = TRUE
    BY InTransaction DEF InsertRow
  <1> DEFINE t == Keyed[k]
             left == tx.rows[t] \ db[t]
             r == Lowest(left)
             rows == db[t] \cup {r}
  <1>3. /\ db' = [db EXCEPT ![t] = rows]
        /\ tx' = IF left = {r} THEN [tx EXCEPT !.at = tx.at + 1, !.deleted = FALSE] ELSE tx
    <2>1. db' = [db EXCEPT ![t] = @ \cup {r}] /\
          tx' = IF left = {r} THEN [tx EXCEPT !.at = @ + 1, !.deleted = FALSE] ELSE tx
      BY <1>1 DEF InsertRow
    <2> HIDE DEF left, r
    <2> QED
      BY <2>1, InTransaction DEF TxShape
  <1>4. TableIs(k) /\ t \in Tables /\ GoodRows(t, tx.rows[t])
    BY TablesDistinct, InTransaction DEF IsRows
  <1>5. db[t] \subseteq tx.rows[t] /\ db[t] # tx.rows[t]
    BY <1>1, <1>2, <1>4 DEF TableIs
  <1>6. left # {} /\ IsTable(left)
    <2>1. left \in SUBSET tx.rows[t]
      OBVIOUS
    <2>2. left # {}
      BY <1>5
    <2> HIDE DEF left
    <2> QED
      BY <1>4, <2>1, <2>2, TablePart DEF GoodRows
  <1>7. r \in left
    BY <1>6, LowestFound
  <1>8. rows \in SUBSET tx.rows[t]
    BY <1>5, <1>7
  <1>9. GoodRows(t, rows)
    BY <1>4, <1>8, GoodPart
  <1>10. CASE left = {r}
    <2>1. rows = tx.rows[t]
      BY <1>5, <1>10
    <2>2. TxShape' /\ tx'.rows = tx.rows /\ tx'.at = k + 1 /\ tx'.deleted = FALSE
      <3>1. tx' = [tx EXCEPT !.at = tx.at + 1, !.deleted = FALSE]
        BY <1>3, <1>10
      <3> HIDE DEF left, r, rows
      <3> QED
        BY <1>1, <3>1, InTransaction DEF TxShape
    <2> HIDE DEF left, r, rows
    <2> QED
      BY <1>1, <1>3, <1>9, <2>1, <2>2, TableWritten
  <1>11. CASE left # {r}
    <2>1. rows # tx.rows[t]
      BY <1>5, <1>7, <1>11
    <2>2. TxShape' /\ tx'.rows = tx.rows /\ tx'.at = k /\ tx'.deleted = TRUE
      BY <1>1, <1>2, <1>3, <1>11, InTransaction DEF TxShape
    <2> HIDE DEF left, r, rows
    <2> QED
      BY <1>1, <1>3, <1>8, <1>9, <2>1, <2>2, TableWritten
  <1> QED
    BY <1>10, <1>11

LEMMA StatementStep ==
  ASSUME CharacterInv, Statement
  PROVE  CharacterInv'
  <1>1. tx # NoTx /\ UNCHANGED <<cre, disk, cl, pend, torn>>
    BY DEF Statement
  <1>2. CASE UpdateStats
    BY <1>1, <1>2, UpdateStatsStep
  <1>3. CASE DeleteRows
    BY <1>1, <1>3, DeleteRowsStep
  <1>4. CASE InsertRow
    BY <1>1, <1>4, InsertRowStep
  <1> QED
    BY <1>2, <1>3, <1>4 DEF Statement

LEMMA NoTxOk ==
  ASSUME tx' = NoTx, db' = disk'
  PROVE  TxOk'
  <1>1. NoTx.at = -1 /\ NoTx.deleted = FALSE /\ NoTx = [rows |-> NoTx.rows, at |-> NoTx.at, deleted |-> NoTx.deleted]
    BY DEF NoTx
  <1>2. tx'.at = -1 /\ tx'.deleted = FALSE /\ TxShape'
    BY <1>1 DEF TxShape
  <1>3. \A i \in 1 .. 5 : TableIs(i)'
    BY <1>2 DEF TableIs
  <1>4. tx'.deleted \in BOOLEAN /\ ~tx'.deleted
    BY Zenon, <1>2
  <1>5. tx'.at \in -1 .. 6 /\ ~(tx'.at >= 0) /\ ~(tx'.at >= 1)
    BY <1>2
  <1> QED
    BY <1>2, <1>3, <1>4, <1>5 DEF TxOk

LEMMA CommitStep ==
  ASSUME CharacterInv, Commit
  PROVE  CharacterInv'
  <1>1. tx # NoTx /\ tx.at > 5 /\ disk' = db /\ tx' = NoTx /\ UNCHANGED <<cre, db, cl, pend, torn>>
    BY TableNames DEF Commit
  <1>2. tx.at = 6
    BY <1>1, InTransaction
  <1>3. ASSUME NEW t \in Tables PROVE db[t] = tx.rows[t]
    <2>1. CASE t = "stats"
      BY <1>1, <1>2, <2>1, InTransaction
    <2>2. CASE \E i \in 1 .. 5 : t = Keyed[i]
      <3>1. PICK i \in 1 .. 5 : t = Keyed[i]
        BY <2>2
      <3>2. TableIs(i) /\ i < tx.at
        BY <1>1, <1>2, InTransaction
      <3> QED
        BY <3>1, <3>2 DEF TableIs
    <2> QED
      BY <2>1, <2>2, TablePlace
  <1>4. KeptItems' = KeptItems
    BY <1>1 DEF KeptItems, WithPrototype, Known
  <1>5. /\ World'.st = cre.st /\ World'.known = cre.known /\ World'.iksar = cre.iksar
        /\ World'.items = KeptItems /\ World'.torn = torn
        /\ World'.spells = [t \in SpellTables |-> db[t]]
    BY <1>1, <1>4 DEF World
  <1>6. SpellTables \subseteq Tables /\ "inventory" \in Tables
    BY TableNames DEF SpellTables
  <1>7. SnapshotOk(tx.rows, World)
    BY <1>1, InTransaction
  <1>8. ASSUME ~torn, NEW t \in SpellTables PROVE db[t] = disk[t]
    <2>1. Untorn(World, t, tx.rows[t]) /\ db[t] = tx.rows[t]
      BY <1>3, <1>6, <1>7 DEF SnapshotOk
    <2> QED
      BY <1>8, <2>1, WorldIs DEF Untorn
  <1>9. SameWorld(World, World')
    <2>1. CASE torn
      BY <1>5, <2>1, WorldIs DEF SameWorld
    <2>2. CASE ~torn
      <3>1. [t \in SpellTables |-> db[t]] = [t \in SpellTables |-> disk[t]]
        BY <1>8, <2>2
      <3> QED
        BY <1>5, <2>2, <3>1, WorldIs DEF SameWorld
    <2> QED
      BY <2>1, <2>2
  <1>10. db["inventory"] = KeptItems
    BY <1>3, <1>6, <1>7, WorldIs DEF SnapshotOk
  <1>11. WorldOk(World)
    BY ItemsOk DEF CharacterInv
  <1>12. FoundRows(World', disk'["inventory"]) = KeptItems'
    BY <1>1, <1>4, <1>5, <1>10, <1>11, WorldIs DEF FoundRows, WorldOk
  <1>13. DiskOk'
    <2>1. IsRows(db') /\ IsRows(disk')
      BY <1>1 DEF CharacterInv, DiskOk
    <2>2. ASSUME cre.st # "none", ~torn
          PROVE  disk'["spellbook"] \in Books /\ disk'["memmed"] = {Lowest(disk'["spellbook"])}
      <3>1. disk'["spellbook"] = disk["spellbook"] /\ disk'["memmed"] = disk["memmed"]
        BY <1>1, <1>8, <2>2 DEF SpellTables
      <3> QED
        BY <2>2, <3>1 DEF CharacterInv, DiskOk
    <2> QED
      BY <1>1, <1>12, <2>1, <2>2 DEF DiskOk
  <1>14. TxOk'
    BY <1>1, NoTxOk
  <1>15. CreatedOk'
    BY <1>1 DEF CharacterInv, CreatedOk
  <1>16. IsSeq(pend') /\ \A i \in DOMAIN pend' : SnapshotOk(pend'[i].rows, World')
    BY <1>1, <1>9, SnapshotKept DEF CharacterInv
  <1>17. cl' = [s \in Sessions |-> cl'[s]] /\ \A s \in Sessions : SessionOk(cl'[s], World')
    BY <1>1, <1>9, SessionKept DEF CharacterInv
  <1> QED
    BY <1>13, <1>14, <1>15, <1>16, <1>17 DEF CharacterInv

LEMMA CrashStep ==
  ASSUME CharacterInv, Crash
  PROVE  CharacterInv'
  <1>1. /\ db' = disk /\ pend' = <<>> /\ tx' = NoTx /\ UNCHANGED <<cre, disk, torn>>
        /\ cl' = [s \in Sessions |-> IF cl[s] = Absent THEN Absent ELSE Gone]
    BY DEF Crash
  <1>2. PICK s \in Sessions : cl[s].st \in {"loading", "in"}
    BY DEF Crash
  <1>3. cre.st \in {"created", "orphan"}
    BY <1>2, SessionExists
  <1>4. World' = World /\ KeptItems' = KeptItems
    BY <1>1 DEF World, KeptItems, WithPrototype, Known
  <1>5. CreatedOk'
    BY <1>1, <1>3 DEF CharacterInv, CreatedOk
  <1>6. DiskOk'
    BY <1>1, <1>4 DEF CharacterInv, DiskOk
  <1>7. TxOk'
    BY <1>1, NoTxOk
  <1>8. IsSeq(pend') /\ DOMAIN pend' = {}
    BY <1>1, NothingIn
  <1>9. \A i \in DOMAIN pend' : SnapshotOk(pend'[i].rows, World')
    BY <1>8
  <1>10. cl' = [o \in Sessions |-> cl'[o]] /\ \A o \in Sessions : cl'[o] = Absent \/ cl'[o] = Gone
    BY <1>1
  <1>11. \A o \in Sessions : SessionOk(cl'[o], World')
    BY <1>10, AbsentOk
  <1> QED
    BY <1>5, <1>6, <1>7, <1>8, <1>9, <1>10, <1>11 DEF CharacterInv
-----------------------------------------------------------------------------
(* Creation *)

\* The last item given for a slot stays.
LEMMA StartingItems ==
  ASSUME NEW items \in Seq(Nat \X Nat)
  PROVE  IsTable(AddStartingItems(items))
  <1> DEFINE S == {j \in DOMAIN items : \A l \in DOMAIN items : l > j => items[l][1] # items[j][1]}
             T == {items[k] : k \in S}
             f == [k \in S |-> items[k]]
  <1>1. DOMAIN items = 1 .. Len(items) /\ Len(items) \in Nat /\ \A k \in DOMAIN items : items[k] \in Nat \X Nat
    OBVIOUS
  <1>2. IsFiniteSet(S)
    <2>1. IsFiniteSet(1 .. Len(items))
      <3>1. 1 \in Int /\ Len(items) \in Int
        BY <1>1
      <3> QED
        BY <3>1, FS_Interval
    <2>2. S \in SUBSET (1 .. Len(items))
      BY <1>1
    <2> HIDE DEF S
    <2> QED
      BY <2>1, <2>2, FS_Subset
  <1>3. IsFiniteSet(T)
    <2> HIDE DEF S
    <2>1. f \in Surjection(S, T)
      BY DEF Surjection
    <2> HIDE DEF f, T
    <2> QED
      BY <1>2, <2>1, FS_Surjection
  <1>4. ASSUME NEW r \in T PROVE r \in Nat \X {r[2]}
    <2>1. r \in Nat \X Nat
      BY <1>1
    <2> QED
      BY <2>1
  <1>5. ASSUME NEW r \in T, NEW o \in T, r[1] = o[1] PROVE r = o
    <2>1. PICK j \in S : r = items[j]
      OBVIOUS
    <2>2. PICK k \in S : o = items[k]
      OBVIOUS
    <2>3. j \in DOMAIN items /\ k \in DOMAIN items /\ j \in Nat /\ k \in Nat
      <3>1. j \in DOMAIN items /\ k \in DOMAIN items
        OBVIOUS
      <3> HIDE DEF S, T, f
      <3> QED
        BY <1>1, <3>1
    <2>4. ~(j > k) /\ ~(k > j)
      BY <1>5, <2>1, <2>2, <2>3
    <2>5. j = k
      BY <2>3, <2>4
    <2> QED
      BY <2>1, <2>2, <2>5
  <1>6. AddStartingItems(items) = T
    BY DEF AddStartingItems
  <1> HIDE DEF T
  <1> QED
    BY <1>3, <1>4, <1>5, <1>6 DEF IsTable

\* A session that has not begun does not look at the world.
LEMMA IdleSession ==
  ASSUME NEW c, NEW w, NEW v, SessionOk(c, w), c.st = "none"
  PROVE  SessionOk(c, v)
  <1>1. IsSession(c) /\ WorkOk(c) /\ Asked(c) = {} /\ LoadedOk(c.m, c.loaded, w)
    BY DEF SessionOk
  <1>2. Range(c.out) = {} /\ c.loaded = {}
    BY <1>1 DEF Asked, Reading
  <1>3. DOMAIN c.out = {}
    BY <1>2 DEF Range
  <1>4. LoadedOk(c.m, c.loaded, v)
    BY <1>1, <1>2 DEF LoadedOk
  <1> QED
    BY <1>1, <1>3, <1>4 DEF SessionOk

\* Steps of the char-select process, before the first session
LEMMA CreationStep ==
  ASSUME CharacterInv, cre.st \in {"none", "inserted"}, UNCHANGED <<cl, pend, tx, torn>>,
         db' = disk', CreatedOk', DiskOk'
  PROVE  CharacterInv'
  <1>1. tx = NoTx /\ pend = <<>> /\ \A s \in Sessions : cl[s].st = "none"
    BY DEF CharacterInv, CreatedOk
  <1>2. TxOk'
    BY <1>1, NoTxOk
  <1>3. IsSeq(pend') /\ DOMAIN pend' = {}
    BY <1>1, NothingIn
  <1>4. \A i \in DOMAIN pend' : SnapshotOk(pend'[i].rows, World')
    BY <1>3
  <1>5. cl' = [s \in Sessions |-> cl'[s]] /\ \A s \in Sessions : SessionOk(cl[s], World)
    BY DEF CharacterInv
  <1>6. \A s \in Sessions : SessionOk(cl'[s], World')
    BY <1>1, <1>5, IdleSession
  <1> QED
    BY <1>2, <1>3, <1>4, <1>5, <1>6 DEF CharacterInv

LEMMA CreateStep ==
  ASSUME CharacterInv, NEW iksar \in Iksar, NEW items \in StartItems, NEW binds \in StartBinds,
         NEW book \in Books, Create(iksar, items, binds, book)
  PROVE  CharacterInv'
  <1>1. /\ cre.st = "none" /\ ServerStarted
        /\ cre' = [st |-> "inserted", known |-> FoundIds, iksar |-> iksar,
                   items |-> AddStartingItems(items), binds |-> SetBindPoint(binds)]
        /\ disk' = [disk EXCEPT !["stats"] = {<<0, 0>>}, !["spellbook"] = book,
                                !["memmed"] = {Lowest(book)}]
        /\ db' = disk' /\ UNCHANGED <<cl, pend, tx, torn>>
    BY DEF Create
  <1>2. IsTable(book) /\ book # {} /\ items \in Seq(Nat \X Nat) /\ IsTable(binds) /\ \A b \in binds : b[2] # None
    BY CharacterAssumption
  <1>3. None \notin FoundIds
    BY <1>1, CharacterAssumption DEF ServerStarted, FoundIds
  <1>4. PICK known, given, binds2 : known = FoundIds /\ given = AddStartingItems(items) /\ binds2 = SetBindPoint(binds)
    OBVIOUS
  <1>5. IsTable(given)
    BY <1>2, <1>4, StartingItems
  <1>6. GoodRows("bind", binds2)
    <2>1. binds2 \in SUBSET binds
      BY <1>4 DEF SetBindPoint
    <2>2. GoodRows("bind", binds)
      BY <1>2 DEF GoodRows
    <2> QED
      BY <2>1, <2>2, GoodPart
  <1>7. cre' = [st |-> "inserted", known |-> known, iksar |-> iksar, items |-> given, binds |-> binds2]
    BY <1>1, <1>4
  <1>8. IsRows(disk) /\ disk["inventory"] = {} /\ tx = NoTx /\ pend = <<>> /\ \A s \in Sessions : cl[s].st = "none"
    BY <1>1 DEF CharacterInv, CreatedOk, DiskOk
  <1>9. PICK gem : gem = {Lowest(book)}
    OBVIOUS
  <1>10. /\ disk' = [t \in Tables |-> disk'[t]] /\ disk'["stats"] = {<<0, 0>>} /\ disk'["spellbook"] = book
         /\ disk'["memmed"] = gem /\ disk'["inventory"] = {}
         /\ disk'["skill"] = disk["skill"] /\ disk'["bind"] = disk["bind"]
    <2>1. disk = [t \in Tables |-> disk[t]]
      BY <1>8 DEF IsRows
    <2>2. disk' = [disk EXCEPT !["stats"] = {<<0, 0>>}, !["spellbook"] = book, !["memmed"] = gem]
      BY <1>1, <1>9
    <2> QED
      BY <1>8, <2>1, <2>2, TableNames
  <1>11. GoodRows("memmed", gem) /\ GoodRows("spellbook", book) /\ GoodRows("stats", {<<0, 0>>})
    <2>1. gem \in SUBSET book
      BY <1>2, <1>9, LowestFound
    <2>2. IsTable(gem)
      BY <1>2, <2>1, TablePart
    <2>3. 0 \in Nat
      OBVIOUS
    <2>4. IsTable({<<0, 0>>})
      BY <2>3, OneRow
    <2> QED
      BY <1>2, <2>2, <2>4 DEF GoodRows
  <1>12. IsRows(disk')
    <2>1. GoodRows("inventory", {}) /\ GoodRows("skill", disk["skill"]) /\ GoodRows("bind", disk["bind"])
      BY <1>8, NoGoodRows, TableNames DEF IsRows
    <2> QED
      BY <1>10, <1>11, <2>1, TableNames DEF IsRows
  <1>13. cre'.st = "inserted" /\ cre'.known = known /\ cre'.items = given /\ cre'.binds = binds2
         /\ cre' = [st |-> cre'.st, known |-> cre'.known, iksar |-> cre'.iksar, items |-> cre'.items, binds |-> cre'.binds]
    BY <1>7
  <1>14. CreatedOk'
    BY <1>1, <1>3, <1>4, <1>5, <1>6, <1>8, <1>10, <1>13 DEF CreatedOk
  <1>15. KeptItems' = {}
    BY <1>13 DEF KeptItems
  <1>16. DiskOk'
    BY <1>1, <1>9, <1>10, <1>12, <1>15 DEF DiskOk, FoundRows
  <1> QED
    BY <1>1, <1>14, <1>16, CreationStep

LEMMA CreatedRecord ==
  ASSUME CreatedOk, cre.st = "inserted", NEW st, cre' = [cre EXCEPT !.st = st]
  PROVE  /\ cre'.st = st /\ cre'.known = cre.known /\ cre'.items = cre.items /\ cre'.binds = cre.binds
         /\ cre' = [st |-> cre'.st, known |-> cre'.known, iksar |-> cre'.iksar,
                    items |-> cre'.items, binds |-> cre'.binds]
  <1>1. PICK p1, p2, p3, p4, p5 : cre = [st |-> p1, known |-> p2, iksar |-> p3, items |-> p4, binds |-> p5]
    BY DEF CreatedOk
  <1> QED
    BY <1>1

LEMMA CreateDetailsStep ==
  ASSUME CharacterInv, CreateDetails
  PROVE  CharacterInv'
  <1>1. /\ cre.st = "inserted" /\ cre' = [cre EXCEPT !.st = "created"]
        /\ disk' = [disk EXCEPT !["bind"] = cre.binds, !["inventory"] = cre.items]
        /\ db' = disk' /\ UNCHANGED <<cl, pend, tx, torn>>
    BY DEF CreateDetails
  <1>2. CreatedOk /\ DiskOk
    BY DEF CharacterInv
  <1>3. /\ cre'.st = "created" /\ cre'.known = cre.known /\ cre'.items = cre.items /\ cre'.binds = cre.binds
        /\ cre' = [st |-> cre'.st, known |-> cre'.known, iksar |-> cre'.iksar,
                   items |-> cre'.items, binds |-> cre'.binds]
    BY <1>1, <1>2, CreatedRecord
  <1>4. IsTable(cre.items) /\ GoodRows("bind", cre.binds) /\ None \notin cre.known /\ IsRows(disk)
    BY <1>1, <1>2 DEF CreatedOk, DiskOk
  <1>5. CreatedOk'
    BY <1>3, <1>4 DEF CreatedOk
  <1>6. /\ disk' = [t \in Tables |-> disk'[t]] /\ disk'["bind"] = cre.binds /\ disk'["inventory"] = cre.items
        /\ \A t \in Tables \ {"bind", "inventory"} : disk'[t] = disk[t]
    <2>1. disk = [t \in Tables |-> disk[t]]
      BY <1>4 DEF IsRows
    <2> QED
      BY <1>1, <2>1, TableNames
  <1>7. GoodRows("inventory", cre.items)
    BY <1>4 DEF GoodRows
  <1>8. IsRows(disk')
    BY <1>4, <1>6, <1>7 DEF IsRows
  <1>9. FoundRows(World', disk'["inventory"]) = KeptItems'
    BY <1>3, <1>6 DEF FoundRows, World, KeptItems, WithPrototype, Known
  <1>10. disk'["spellbook"] = disk["spellbook"] /\ disk'["memmed"] = disk["memmed"]
    BY <1>6, TableNames
  <1>11. DiskOk'
    BY <1>1, <1>2, <1>8, <1>9, <1>10 DEF DiskOk
  <1> QED
    BY <1>1, <1>5, <1>11, CreationStep

LEMMA CharSelectDiesStep ==
  ASSUME CharacterInv, CharSelectDies
  PROVE  CharacterInv'
  <1>1. /\ cre.st = "inserted" /\ cre' = [cre EXCEPT !.st = "orphan"]
        /\ UNCHANGED <<db, disk, cl, pend, tx, torn>>
    BY DEF CharSelectDies
  <1>2. CreatedOk /\ DiskOk
    BY DEF CharacterInv
  <1>3. /\ cre'.st = "orphan" /\ cre'.known = cre.known /\ cre'.items = cre.items /\ cre'.binds = cre.binds
        /\ cre' = [st |-> cre'.st, known |-> cre'.known, iksar |-> cre'.iksar,
                   items |-> cre'.items, binds |-> cre'.binds]
    BY <1>1, <1>2, CreatedRecord
  <1>4. CreatedOk'
    BY <1>1, <1>2, <1>3 DEF CreatedOk
  <1>5. KeptItems' = {} /\ disk'["inventory"] = {} /\ tx = NoTx
    BY <1>1, <1>2, <1>3 DEF KeptItems, CreatedOk
  <1>6. DiskOk'
    BY <1>1, <1>2, <1>5 DEF DiskOk, FoundRows
  <1>7. db' = disk'
    BY <1>1, <1>5, NoTransaction
  <1> QED
    BY <1>1, <1>4, <1>6, <1>7, CreationStep
-----------------------------------------------------------------------------
(* The invariant holds *)

LEMMA CharacterInitOk ==
  ASSUME CharacterInit
  PROVE  CharacterInv
  <1>1. /\ cre = [st |-> "none"] /\ db = NoRows /\ disk = NoRows
        /\ cl = [s \in Sessions |-> Absent] /\ pend = <<>> /\ tx = NoTx /\ torn = FALSE
    BY DEF CharacterInit
  <1>2. cre.st = "none"
    BY <1>1
  <1>3. KeptItems = {}
    BY <1>2 DEF KeptItems
  <1>4. IsRows(NoRows)
    <2>1. NoRows = [t \in Tables |-> NoRows[t]] /\ \A t \in Tables : NoRows[t] = {}
      BY DEF NoRows
    <2> QED
      BY <2>1, NoGoodRows DEF IsRows
  <1>5. disk["inventory"] = {}
    BY <1>1, TableNames DEF NoRows
  <1>6. DiskOk
    BY <1>1, <1>2, <1>3, <1>4, <1>5 DEF DiskOk, FoundRows
  <1>7. Absent.st = "none"
    BY AbsentIs
  <1>8. CreatedOk
    BY <1>1, <1>2, <1>5, <1>7 DEF CreatedOk
  <1>9. TxOk
    <2>1. NoTx.at = -1 /\ NoTx.deleted = FALSE /\ NoTx = [rows |-> NoTx.rows, at |-> NoTx.at, deleted |-> NoTx.deleted]
      BY DEF NoTx
    <2>2. tx.at = -1 /\ tx.deleted = FALSE /\ TxShape
      BY <1>1, <2>1 DEF TxShape
    <2>3. \A i \in 1 .. 5 : TableIs(i)
      BY <1>1, <2>2 DEF TableIs
    <2>4. tx.deleted \in BOOLEAN /\ ~tx.deleted
      BY Zenon, <2>2
    <2>5. tx.at \in -1 .. 6 /\ ~(tx.at >= 0) /\ ~(tx.at >= 1)
      BY <2>2
    <2> QED
      BY <1>1, <2>2, <2>3, <2>4, <2>5 DEF TxOk
  <1>10. IsSeq(pend) /\ DOMAIN pend = {}
    BY <1>1, NothingIn
  <1>11. \A i \in DOMAIN pend : SnapshotOk(pend[i].rows, World)
    BY <1>10
  <1>12. cl = [s \in Sessions |-> cl[s]] /\ \A s \in Sessions : SessionOk(cl[s], World)
    BY <1>1, AbsentOk
  <1> QED
    BY <1>6, <1>8, <1>9, <1>10, <1>11, <1>12 DEF CharacterInv

\* item_gen does not touch the character.
LEMMA NothingHappens ==
  ASSUME CharacterInv, UNCHANGED <<cre, db, disk, cl, pend, tx, torn>>
  PROVE  CharacterInv'
  <1>1. World' = World /\ KeptItems' = KeptItems
    BY DEF World, KeptItems, WithPrototype, Known
  <1>2. CreatedOk'
    BY DEF CharacterInv, CreatedOk
  <1>3. DiskOk'
    BY <1>1 DEF CharacterInv, DiskOk
  <1>4. TxOk'
    BY <1>1 DEF CharacterInv, TxOk, TxShape, TableIs
  <1> QED
    BY <1>1, <1>2, <1>3, <1>4 DEF CharacterInv

LEMMA CharacterNextOk ==
  ASSUME CharacterInv, [CharacterNext]_charVars
  PROVE  CharacterInv'
  <1>1. CASE UNCHANGED charVars
    BY <1>1, NothingHappens DEF charVars
  <1>2. ASSUME NEW scan \in Scans, RunItemGen(scan) PROVE CharacterInv'
    BY <1>2, NothingHappens DEF RunItemGen
  <1>3. ASSUME NEW iksar \in Iksar, NEW items \in StartItems, NEW binds \in StartBinds,
               NEW book \in Books, Create(iksar, items, binds, book)
        PROVE  CharacterInv'
    BY <1>3, CreateStep
  <1>4. CASE CreateDetails
    BY <1>4, CreateDetailsStep
  <1>5. CASE CharSelectDies
    BY <1>5, CharSelectDiesStep
  <1>6. ASSUME NEW s \in Sessions, Announce(s) PROVE CharacterInv'
    BY <1>6, AnnounceStep
  <1>7. ASSUME NEW s \in Sessions, LoadCallback(s) PROVE CharacterInv'
    BY <1>7, LoadCallbackStep
  <1>8. ASSUME NEW s \in Sessions, Enter(s) PROVE CharacterInv'
    BY <1>8, EnterZoneStep
  <1>9. ASSUME NEW s \in Sessions, Change(s) PROVE CharacterInv'
    BY <1>9, ChangeStep
  <1>10. ASSUME NEW s \in Sessions, AutoSave(s) PROVE CharacterInv'
    BY <1>10, AutoSaveStep
  <1>11. ASSUME NEW s \in Sessions, Leave(s) PROVE CharacterInv'
    BY <1>11, LeaveStep
  <1>12. ASSUME NEW s \in Sessions, NEW n \in 1 .. Len(FirstQueries), ExecuteLoads(s, n) PROVE CharacterInv'
    BY <1>12, ExecuteLoadsStep
  <1>13. CASE Begin
    BY <1>13, BeginStep
  <1>14. CASE Statement
    BY <1>14, StatementStep
  <1>15. CASE Commit
    BY <1>15, CommitStep
  <1>16. CASE Crash
    BY <1>16, CrashStep
  <1> QED
    BY <1>1, <1>2, <1>3, <1>4, <1>5, <1>6, <1>7, <1>8, <1>9, <1>10, <1>11, <1>12,
       <1>13, <1>14, <1>15, <1>16 DEF CharacterNext

\* Whatever two sessions, the char-select process and the database thread do,
\* every table, every waiting snapshot, every SELECT under way and every loaded
\* client agrees with the character that was created.
THEOREM CharacterInductive == CharacterSpec => []CharacterInv
  <1>1. CharacterInit => CharacterInv
    BY CharacterInitOk
  <1>2. CharacterInv /\ [CharacterNext]_charVars => CharacterInv'
    BY CharacterNextOk
  <1> QED
    BY <1>1, <1>2, PTL DEF CharacterSpec

\* The items of a created character are in the database once and in their
\* slots, at every moment a process may die (client_save_transaction).
THEOREM InventoryKeptHolds == CharacterSpec => []InventoryKept
  <1>1. CharacterInv => InventoryKept
    <2>1. SUFFICES ASSUME CharacterInv, cre.st = "created"
                   PROVE  {r \in disk["inventory"] : r[2] \in Known} = {r \in cre.items : r[2] \in Known}
      BY DEF InventoryKept
    <2>2. KeptItems = {r \in cre.items : r[2] \in Known}
      BY <2>1 DEF KeptItems, WithPrototype
    <2>3. FoundRows(World, disk["inventory"]) = {r \in disk["inventory"] : r[2] \in Known}
      BY WorldIs DEF FoundRows, Known
    <2>4. FoundRows(World, disk["inventory"]) = KeptItems
      BY <2>1 DEF CharacterInv, DiskOk
    <2> QED
      BY <2>2, <2>3, <2>4
  <1> QED
    BY <1>1, CharacterInductive, PTL

\* The spells of a character are lost only after a SELECT that read the rows
\* of two states of its table (query_select on the main thread).
THEOREM SpellsKeptHolds == CharacterSpec => []SpellsKeptUnlessTorn
  <1>1. CharacterInv => SpellsKeptUnlessTorn
    BY DEF CharacterInv, DiskOk, SpellsKeptUnlessTorn, Exists
  <1> QED
    BY <1>1, CharacterInductive, PTL

LEMMA ReloadGives ==
  ASSUME NEW m, NEW w, WorldOk(w), LoadedOk(m, Tables, w), w.items = KeptItems, w.known = cre.known,
         w.iksar = cre.iksar
  PROVE  LET r == Reload(m)
         IN  /\ [r EXCEPT !.sk = m.sk] = m
             /\ r.sk.lang = m.sk.lang
             /\ \A i \in SkillIds \ LangIds : r.sk.skill[i] = m.sk.skill[i]
  <1>1. PICK rows, sk : /\ rows = Snapshot(m)
                        /\ sk = LoadSkills(InitSkills(UntrainedSkills, cre.iksar), SaveSkills(m.sk))
    OBVIOUS
  <1>2. /\ rows["skill"] = SaveSkills(m.sk) /\ rows["inventory"] = SaveInventory(m.inv)
        /\ rows["spellbook"] = SaveBook(m.book) /\ rows["memmed"] = SaveMemmed(m.mem)
        /\ rows["bind"] = SaveBinds(m.bind)
    BY <1>1, SnapshotIs
  <1>3. /\ "inventory" \in Tables /\ "spellbook" \in Tables /\ "memmed" \in Tables
        /\ "bind" \in Tables /\ "stats" \in Tables
    BY TableNames
  <1>4. /\ m.inv = LoadRows("inventory", EmptyInventory, w.items)
        /\ BookOk(m.book) /\ MemOk(m.mem) /\ BindsOk(m.bind)
        /\ IsClient(m) /\ IsSkills(m.sk) /\ SkillsOk(m.sk, cre.iksar)
    BY <1>3 DEF LoadedOk
  <1>5. LoadInventory(rows["inventory"]) = m.inv
    <2>1. SaveInventory(m.inv) = w.items
      BY <1>4, InventoryLoaded DEF WorldOk
    <2>2. WithPrototype(w.items) = w.items
      BY DEF WithPrototype, Known, WorldOk
    <2> QED
      BY <1>2, <1>4, <2>1, <2>2 DEF LoadInventory
  <1>6. /\ LoadBook(rows["spellbook"]) = m.book /\ LoadMemmed(rows["memmed"]) = m.mem
        /\ LoadBinds(rows["bind"]) = m.bind
    BY <1>2, <1>4, SavedBook, SavedMemmed, SavedBinds
  <1>7. sk.lang = m.sk.lang /\ \A i \in SkillIds \ LangIds : sk.skill[i] = m.sk.skill[i]
    BY <1>1, <1>4, SkillsReloaded
  <1>8. PICK r : r = Reload(m)
    OBVIOUS
  <1>9. r = [m EXCEPT !.inv = m.inv, !.book = m.book, !.mem = m.mem, !.bind = m.bind, !.sk = sk]
    <2>1. r = [m EXCEPT !.inv = LoadInventory(rows["inventory"]), !.book = LoadBook(rows["spellbook"]),
                        !.mem = LoadMemmed(rows["memmed"]), !.bind = LoadBinds(rows["bind"]),
                        !.sk = LoadSkills(InitSkills(UntrainedSkills, cre.iksar), rows["skill"])]
      BY <1>1, <1>8 DEF Reload
    <2> QED
      BY <1>1, <1>2, <1>5, <1>6, <2>1
  <1>10. r.sk = sk /\ [r EXCEPT !.sk = m.sk] = m
    <2>1. PICK p1, p2, p3, p4, p5, p6 : m = [stat |-> p1, sk |-> p2, inv |-> p3, book |-> p4, mem |-> p5, bind |-> p6]
      BY <1>4 DEF IsClient
    <2> QED
      BY <1>9, <2>1
  <1> QED
    BY <1>7, <1>8, <1>10

\* What auto-save would write of a client in the zone is what the next load
\* gives back (client_save.c against the load callbacks of client.c).
THEOREM ReloadedHolds == CharacterSpec => []ReloadedAsSaved
  <1>1. CharacterInv => ReloadedAsSaved
    <2>1. SUFFICES ASSUME CharacterInv, NEW s \in Sessions, Playing(s)
                   PROVE  LET m == cl[s].m
                              r == Reload(m)
                          IN /\ [r EXCEPT !.sk = m.sk] = m
                             /\ r.sk.lang = m.sk.lang
                             /\ \A i \in SkillIds \ LangIds : r.sk.skill[i] = m.sk.skill[i]
      BY DEF ReloadedAsSaved
    <2>2. PICK m, w : m = cl[s].m /\ w = World
      OBVIOUS
    <2>3. SessionOk(cl[s], World) /\ cl[s].st = "in"
      BY <2>1 DEF CharacterInv, Playing
    <2>4. LoadedOk(m, Tables, w)
      BY <2>2, <2>3 DEF SessionOk
    <2>5. WorldOk(w) /\ w.items = KeptItems /\ w.known = cre.known /\ w.iksar = cre.iksar
      BY <2>1, <2>2, ItemsOk, WorldIs DEF CharacterInv
    <2> QED
      BY <2>2, <2>4, <2>5, ReloadGives
  <1> QED
    BY <1>1, CharacterInductive, PTL

\* What an array of the profile shows are the item packets of its slots.
LEMMA AreaShown ==
  ASSUME NEW inv, NEW a
  PROVE  WrittenTo(inv, a)
           = {<<k.slot - a.from, k.item>> : k \in {x \in ItemPackets(inv) : x.slot \in a.from .. a.to}}
  <1> DEFINE R == {x \in Range(inv.slots) : x[2] # None}
             K == {x \in ItemPackets(inv) : x.slot \in a.from .. a.to}
             A == InArea(inv, a)
  <1>1. ItemPackets(inv) = {ItemPacket(r) : r \in R}
    BY DEF ItemPackets
  <1>2. A = {r \in R : r[1] \in a.from .. a.to}
    BY DEF InArea
  <1> HIDE DEF R, A
  <1>3. \A r \in A : ItemPacket(r) \in K /\ ItemPacket(r).slot = r[1] /\ ItemPacket(r).item = r[2]
    BY <1>1, <1>2 DEF ItemPacket
  <1>4. \A k \in K : \E r \in A : k.slot = r[1] /\ k.item = r[2]
    BY <1>1, <1>2 DEF ItemPacket
  <1>5. WrittenTo(inv, a) = {<<r[1] - a.from, r[2]>> : r \in A}
    BY DEF WrittenTo, A
  <1> HIDE DEF K
  <1>6. WrittenTo(inv, a) = {<<k.slot - a.from, k.item>> : k \in K}
    <2>1. ASSUME NEW r \in A PROVE \E k \in K : <<r[1] - a.from, r[2]>> = <<k.slot - a.from, k.item>>
      BY <1>3
    <2>2. ASSUME NEW k \in K PROVE \E r \in A : <<r[1] - a.from, r[2]>> = <<k.slot - a.from, k.item>>
      BY <1>4
    <2> QED
      BY <1>5, <2>1, <2>2
  <1> QED
    BY <1>6 DEF K

\* Only the last slot of the bank bags has no entry.
LEMMA AreaFits ==
  ASSUME NEW inv, NEW a \in {Main, Bags, Bank, BankBags}, NEW e \in WrittenTo(inv, a)
  PROVE  e[1] < a.size \/ e[1] + a.from = 2111
  <1>1. PICK r \in InArea(inv, a) : e = <<r[1] - a.from, r[2]>>
    BY DEF WrittenTo
  <1>2. r[1] \in a.from .. a.to /\ e[1] = r[1] - a.from
    BY <1>1 DEF InArea
  <1>3. \/ a.from = 1 /\ a.to = 30 /\ a.size = 30
        \/ a.from = 251 /\ a.to = 340 /\ a.size = 90
        \/ a.from = 2000 /\ a.to = 2007 /\ a.size = 8
        \/ a.from = 2031 /\ a.to = 2111 /\ a.size = 80
    BY DEF Main, Bags, Bank, BankBags
  <1> QED
    BY <1>2, <1>3

\* The item packets and the profile show a client's items in the same places
\* (client_trilogy_send_player_profile, client_trilogy_handle_op_inventory_request).
THEOREM ShownInPlaceHolds == CharacterSpec => []ShownInPlace
  <1>1. CharacterInv => ShownInPlace
    <2>1. SUFFICES ASSUME CharacterInv PROVE ShownInPlace
      OBVIOUS
    <2>2. ASSUME NEW s \in Sessions, Playing(s)
          PROVE  LET p       == cl[s].shown.profile
                     packets == ItemPackets(cl[s].m.inv)
                     InPlace(w, a) ==
                         /\ w = {<<k.slot - a.from, k.item>> : k \in {x \in packets : x.slot \in a.from .. a.to}}
                         /\ \A e \in w : e[1] < a.size \/ e[1] + a.from = 2111
                 IN /\ \A a \in {Main, Bags} : InPlace(p.carried[a], a)
                    /\ \A a \in {Bank, BankBags} :
                         InPlace(p.bank[a], a) /\ p.charges[a] = {e[1] : e \in p.bank[a]}
      <3>1. PICK p, inv : p = cl[s].shown.profile /\ inv = cl[s].m.inv
        OBVIOUS
      <3>2. p.carried = CarriedItems(inv) /\ p.bank = BankItems(inv) /\ p.charges = BankCharges(inv)
        BY <2>1, <2>2, <3>1 DEF CharacterInv, Playing, SessionOk, ShownOk
      <3>3. \A a \in {Main, Bags} : p.carried[a] = WrittenTo(inv, a)
        BY <3>2 DEF CarriedItems
      <3>4. \A a \in {Bank, BankBags} : p.bank[a] = WrittenTo(inv, a)
        BY <3>2 DEF BankItems
      <3>5. \A a \in {Bank, BankBags} : p.charges[a] = {e[1] : e \in WrittenTo(inv, a)}
        BY <3>2 DEF BankCharges
      <3>6. \A a \in {Main, Bags, Bank, BankBags} :
              WrittenTo(inv, a) = {<<k.slot - a.from, k.item>> : k \in {x \in ItemPackets(inv) : x.slot \in a.from .. a.to}}
        BY AreaShown
      <3>7. \A a \in {Main, Bags, Bank, BankBags} :
              \A e \in WrittenTo(inv, a) : e[1] < a.size \/ e[1] + a.from = 2111
        BY AreaFits
      <3> DEFINE Shows(w, a) ==
                   /\ w = {<<k.slot - a.from, k.item>> : k \in {x \in ItemPackets(inv) : x.slot \in a.from .. a.to}}
                   /\ \A e \in w : e[1] < a.size \/ e[1] + a.from = 2111
      <3>8. \A a \in {Main, Bags, Bank, BankBags} : Shows(WrittenTo(inv, a), a)
        BY <3>6, <3>7
      <3> HIDE DEF Shows
      <3>9. \A a \in {Main, Bags} : Shows(p.carried[a], a)
        BY <3>3, <3>8
      <3>10. \A a \in {Bank, BankBags} : Shows(p.bank[a], a) /\ p.charges[a] = {e[1] : e \in p.bank[a]}
        BY <3>4, <3>5, <3>8
      <3> QED
        BY <3>1, <3>9, <3>10 DEF Shows
    <2> QED
      BY <2>2 DEF ShownInPlace
  <1> QED
    BY <1>1, CharacterInductive, PTL
==============================================================================
