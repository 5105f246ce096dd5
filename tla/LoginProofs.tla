---------------------------- MODULE LoginProofs -----------------------------
(***************************************************************************)
(* Proofs about Login, for every set of players, accounts and servers and  *)
(* any number of connections: no client is freed while something refers to *)
(* it, the two arrays of the TCP server agree, and an accepted player has  *)
(* a key of its own account.                                               *)
(***************************************************************************)
EXTENDS Login, FiniteSetTheorems, SequenceTheorems, TLAPS

-----------------------------------------------------------------------------
(* The game clients *)

States == {"none", "BrandNew", "VersionSent", "ProcessingCredentials", "AcceptedCredentials"}
Words == {"Connected", "Gone", "Error", "Session", "Accept"}
ClientRecord == [refs : Nat, state : States, id : Nat, pass : Passwords \cup {""}, key : Nat]
JobRecord == [op : {"select", "insert"}, client : Players, done : BOOLEAN]
Row == [user : Users, pass : Passwords \cup {""}]

PlayerTypes ==
    /\ user \in [Players -> Users]
    /\ client \in [Players -> ClientRecord]
    /\ told \in [Players -> SUBSET Words]
    /\ clientList \subseteq [id : Nat, client : Players]
    /\ jobs \subseteq JobRecord
    /\ table \in Seq(Row)
    /\ issued \subseteq [id : Nat, key : Nat]

HasJob(p) == \E job \in jobs : job.client = p

\* What holds of a player.  Its connection and its query each have a reference
\* (a query that failed leaves one behind); a query runs only while credentials
\* are checked; a client that is logged in has the id of its account.
PlayerInv(p) ==
    /\ Connected(p) => client[p].refs >= 1
    /\ HasJob(p) => client[p].refs >= 1 /\ client[p].state = "ProcessingCredentials"
    /\ Connected(p) /\ HasJob(p) => client[p].refs >= 2
    /\ "Connected" \notin told[p] => client[p] = Freed /\ ~HasJob(p) /\ told[p] = {}
    /\ client[p].refs > 0 /\ client[p].state = "AcceptedCredentials" =>
           HasAccount(user[p]) /\ client[p].id = AccountId(user[p])
    /\ client[p].refs > 0 /\ "Accept" \in told[p] =>
           /\ client[p].state = "AcceptedCredentials"
           /\ [id |-> client[p].id, key |-> client[p].key] \in issued

\* A player has one query at most, and an INSERT that was executed left its row.
JobsInv ==
    /\ \A j, k \in jobs : j.client = k.client => j = k
    /\ \A j \in jobs : j.op = "insert" /\ j.done => HasAccount(user[j.client])

\* The list names clients that are logged in, by their account.
ListInv ==
    \A e \in clientList :
        /\ client[e.client].refs > 0 /\ client[e.client].state = "AcceptedCredentials"
        /\ client[e.client].id = e.id

\* The username is a primary key.
TableInv == \A i, j \in DOMAIN table : table[i].user = table[j].user => i = j

\* The keys are numbered as they are issued.
KeysInv ==
    /\ IsFiniteSet(issued)
    /\ \A a \in issued : a.key \in 1 .. Cardinality(issued)
    /\ \A a, b \in issued : a.key = b.key => a = b

\* The inductive invariant of the game clients
ClientsInv ==
    /\ PlayerTypes
    /\ \A p \in Players : PlayerInv(p)
    /\ JobsInv /\ ListInv /\ TableInv /\ KeysInv

\* The id of an account is that of its only row.
LEMMA AccountIdIs ==
  ASSUME TableInv, NEW k \in DOMAIN table
  PROVE  AccountId(table[k].user) = k /\ HasAccount(table[k].user)
  BY DEF TableInv, AccountId, HasAccount

\* A row that is added to the table changes the id of no account.
LEMMA RowAdded ==
  ASSUME PlayerTypes, TableInv, NEW r \in Row, ~HasAccount(r.user), table' = Append(table, r)
  PROVE  /\ table' \in Seq(Row) /\ TableInv' /\ HasAccount(r.user)'
         /\ \A u \in Users : HasAccount(u) => HasAccount(u)' /\ AccountId(u)' = AccountId(u)
  <1>1. /\ DOMAIN table = 1 .. Len(table) /\ Len(table) \in Nat
        /\ table' \in Seq(Row) /\ Len(table') = Len(table) + 1
        /\ DOMAIN table' = 1 .. Len(table')
        /\ \A k \in 1 .. Len(table) : table'[k] = table[k]
        /\ table'[Len(table) + 1] = r
    BY AppendProperties, LenProperties DEF PlayerTypes
  <1>2. TableInv'
    BY <1>1 DEF TableInv, HasAccount
  <1>3. HasAccount(r.user)'
    BY <1>1 DEF HasAccount
  <1>4. ASSUME NEW u \in Users, HasAccount(u)
        PROVE  HasAccount(u)' /\ AccountId(u)' = AccountId(u)
    <2>1. PICK k \in DOMAIN table : table[k].user = u
      BY <1>4 DEF HasAccount
    <2>2. k \in DOMAIN table' /\ table'[k].user = u
      BY <1>1, <2>1
    <2>3. AccountId(u) = k
      BY <2>1, AccountIdIs
    <2>4. AccountId(u)' = k
      BY <1>2, <2>2 DEF TableInv, AccountId
    <2> QED
      BY <2>2, <2>3, <2>4 DEF HasAccount
  <1> QED
    BY <1>1, <1>2, <1>3, <1>4

\* Writing to the number of references changes nothing else.
LEMMA RefsWritten ==
  ASSUME NEW c \in ClientRecord, NEW n \in Nat
  PROVE  /\ c.refs \in Nat
         /\ [c EXCEPT !.refs = n] \in ClientRecord
         /\ [c EXCEPT !.refs = n].refs = n
         /\ [c EXCEPT !.refs = n].state = c.state
         /\ [c EXCEPT !.refs = n].id = c.id
         /\ [c EXCEPT !.refs = n].key = c.key
  BY DEF ClientRecord

\* What a step of player p leaves alone keeps the invariant of the others.
LEMMA OtherPlayers ==
  ASSUME ClientsInv, NEW p \in Players, NEW u \in Players, u # p,
         client'[u] = client[u], told'[u] = told[u], HasJob(u)' <=> HasJob(u),
         UNCHANGED <<user, table>>, issued \subseteq issued'
  PROVE  PlayerInv(u)'
  <1>1. PlayerInv(u)
    BY DEF ClientsInv
  <1>2. (HasAccount(user[u]) <=> HasAccount(user[u])') /\ AccountId(user[u])' = AccountId(user[u])
    BY DEF HasAccount, AccountId
  <1> QED
    BY <1>1, <1>2 DEF PlayerInv, Connected

\* login_client_drop, when the client gives up a reference that it holds.
LEMMA Dropped ==
  ASSUME ClientsInv, NEW p \in Players, NEW c \in ClientRecord,
         NEW list \in SUBSET [id : Nat, client : Players],
         \A e \in list : /\ e.client # p => e \in clientList
                         /\ e.client = p => e.id = c.id /\ c.state = "AcceptedCredentials",
         c.refs > 0, Drop(p, c, list)
  PROVE  /\ client' \in [Players -> ClientRecord]
         /\ clientList' \subseteq [id : Nat, client : Players]
         /\ ListInv'
         /\ \A u \in Players : u # p => client'[u] = client[u]
         /\ \/ c.refs > 1 /\ client'[p] = [c EXCEPT !.refs = c.refs - 1]
            \/ c.refs = 1 /\ client'[p] = Freed
  <1>0. c.refs \in Nat
    BY RefsWritten
  <1>1. Freed \in ClientRecord /\ client \in [Players -> ClientRecord]
    BY DEF Freed, NewClient, ClientRecord, ClientsInv, PlayerTypes, States
  <1>2. CASE c.refs > 1
    <2> DEFINE n == c.refs - 1
               d == [c EXCEPT !.refs = n]
    <2>0. n \in Nat /\ n > 0
      BY <1>0, <1>2
    <2>1. d \in ClientRecord /\ d.refs > 0 /\ d.state = c.state /\ d.id = c.id
      BY <2>0, RefsWritten
    <2>2. client' = [client EXCEPT ![p] = d] /\ clientList' = list
      BY <1>2 DEF Drop
    <2> HIDE DEF d
    <2>3. ListInv'
      BY <1>1, <2>1, <2>2 DEF ListInv, ClientsInv
    <2> QED
      BY <1>1, <1>2, <2>1, <2>2, <2>3 DEF d
  <1>3. CASE ~(c.refs > 1)
    <2>1. client' = [client EXCEPT ![p] = Freed] /\ clientList' = Unlisted(list, c.id)
      BY <1>3 DEF Drop
    <2>2. c.refs = 1
      BY <1>0, <1>3
    <2>3. ListInv'
      BY <1>1, <2>1 DEF ListInv, ClientsInv, Unlisted
    <2> QED
      BY <1>1, <2>1, <2>2, <2>3 DEF Unlisted
  <1> QED
    BY <1>2, <1>3

\* What is left to show of a step of player p.
LEMMA StepOfPlayer ==
  ASSUME ClientsInv, NEW p \in Players, UNCHANGED <<user, table, issued>>,
         client' \in [Players -> ClientRecord], told' \in [Players -> SUBSET Words],
         clientList' \subseteq [id : Nat, client : Players], jobs' \subseteq JobRecord,
         \A u \in Players : u # p => client'[u] = client[u] /\ told'[u] = told[u],
         \A j \in JobRecord : j.client # p => (j \in jobs' <=> j \in jobs),
         \A j, k \in jobs' : j.client = p /\ k.client = p => j = k,
         \A j \in jobs' : j.client = p /\ j.op = "insert" /\ j.done => HasAccount(user[p]),
         PlayerInv(p)', ListInv'
  PROVE  ClientsInv'
  <1>1. PlayerTypes /\ JobsInv /\ TableInv /\ KeysInv
    BY DEF ClientsInv
  <1>2. PlayerTypes'
    BY <1>1 DEF PlayerTypes
  <1>3. TableInv' /\ KeysInv'
    BY <1>1 DEF TableInv, KeysInv
  <1>4. \A u \in Users : HasAccount(u)' <=> HasAccount(u)
    BY DEF HasAccount
  <1>5. JobsInv'
    <2>1. \A j, k \in jobs' : j.client = k.client => j = k
      BY <1>1 DEF JobsInv
    <2>2. \A j \in jobs' : j.client \in Players /\ user[j.client] \in Users /\ j \in JobRecord
      BY <1>1 DEF JobRecord, PlayerTypes
    <2>3. \A j \in jobs' : j.op = "insert" /\ j.done => HasAccount(user[j.client])
      BY <1>1, <2>2 DEF JobsInv
    <2> QED
      BY <1>4, <2>1, <2>2, <2>3 DEF JobsInv
  <1>6. ASSUME NEW u \in Players PROVE PlayerInv(u)'
    <2>1. CASE u = p
      BY <2>1
    <2>2. CASE u # p
      <3>1. HasJob(u)' <=> HasJob(u)
        BY <1>1, <2>2 DEF HasJob, PlayerTypes
      <3> QED
        BY <2>2, <3>1, OtherPlayers
    <2> QED
      BY <2>1, <2>2
  <1> QED
    BY <1>2, <1>3, <1>5, <1>6 DEF ClientsInv

\* Connecting, disconnecting and the packets of a player.
LEMMA PlayerStep ==
  ASSUME ClientsInv, NEW p \in Players, Connect(p) \/ Disconnect(p) \/ HandleVersion(p)
  PROVE  ClientsInv'
  <1>1. PlayerTypes /\ PlayerInv(p) /\ JobsInv /\ ListInv /\ TableInv /\ KeysInv
        /\ client[p] \in ClientRecord /\ client \in [Players -> ClientRecord]
        /\ told \in [Players -> SUBSET Words]
    BY DEF ClientsInv, PlayerTypes
  <1>2. UNCHANGED <<user, table, jobs, issued>>
    BY DEF Connect, Disconnect, HandleVersion, serverVars
  <1>4. (HasAccount(user[p]) <=> HasAccount(user[p])') /\ AccountId(user[p])' = AccountId(user[p])
        /\ (HasJob(p)' <=> HasJob(p))
    BY <1>2 DEF HasAccount, AccountId, HasJob
  <1>5. ASSUME client' \in [Players -> ClientRecord], told' \in [Players -> SUBSET Words],
               clientList' \subseteq [id : Nat, client : Players],
               \A u \in Players : u # p => client'[u] = client[u] /\ told'[u] = told[u],
               PlayerInv(p)', ListInv'
        PROVE  ClientsInv'
    <2>1. \A j \in jobs' : j.op = "insert" /\ j.done => HasAccount(user[j.client])
      BY <1>1, <1>2 DEF JobsInv
    <2>2. \A j, k \in jobs' : j.client = k.client => j = k
      BY <1>1, <1>2 DEF JobsInv
    <2>3. jobs' \subseteq JobRecord
      BY <1>1, <1>2 DEF PlayerTypes
    <2> QED
      BY <1>2, <1>5, <2>1, <2>2, <2>3, StepOfPlayer
  <1>6. CASE Connect(p)
    <2>1. NewClient \in ClientRecord /\ client' = [client EXCEPT ![p] = NewClient]
          /\ clientList' = clientList /\ told' = [told EXCEPT ![p] = @ \cup {"Connected"}]
          /\ "Connected" \notin told[p]
      BY <1>6 DEF Connect, NewClient, ClientRecord, States, Tell
    <2>2. client[p] = Freed /\ ~HasJob(p) /\ told[p] = {} /\ client[p].refs = 0
      BY <1>1, <2>1 DEF PlayerInv, Freed, NewClient
    <2>3. client'[p] = NewClient /\ told'[p] = {"Connected"}
      <3>1. client'[p] = NewClient
        BY <1>1, <2>1
      <3>2. told'[p] = told[p] \cup {"Connected"}
        BY <1>1, <2>1
      <3> QED
        BY <2>2, <3>1, <3>2
    <2>4. PlayerInv(p)'
      <3>1. client'[p].refs = 1 /\ client'[p].state = "BrandNew"
        <4>1. NewClient.refs = 1 /\ NewClient.state = "BrandNew"
          BY DEF NewClient
        <4> QED
          BY <2>3, <4>1
      <3> QED
        BY <1>4, <2>2, <2>3, <3>1 DEF PlayerInv, Connected
    <2>5. ListInv'
      BY <1>1, <2>1, <2>2 DEF ListInv
    <2> QED
      BY <1>1, <1>5, <2>1, <2>4, <2>5 DEF Words, PlayerTypes
  <1>7. CASE HandleVersion(p)
    <2> DEFINE c == [client[p] EXCEPT !.state = "VersionSent"]
    <2>1. c \in ClientRecord /\ c.state = "VersionSent" /\ c.refs = client[p].refs
      BY <1>1 DEF ClientRecord, States
    <2>2. client' = [client EXCEPT ![p] = c] /\ told' = told /\ clientList' = clientList
          /\ Connected(p) /\ client[p].state = "BrandNew"
      BY <1>1, <1>7 DEF HandleVersion
    <2> HIDE DEF c
    <2>3. client'[p] = c
      BY <1>1, <2>2
    <2>4. PlayerInv(p)'
      BY <1>1, <1>4, <2>1, <2>2, <2>3 DEF PlayerInv, Connected
    <2>5. ListInv'
      BY <1>1, <2>1, <2>2 DEF ListInv
    <2> QED
      BY <1>1, <1>5, <2>1, <2>2, <2>4, <2>5 DEF PlayerTypes
  <1>8. CASE Disconnect(p)
    <2>1. Connected(p) /\ Drop(p, client[p], clientList) /\ told' = [told EXCEPT ![p] = @ \cup {"Gone"}]
      BY <1>8 DEF Disconnect, Tell
    <2>2. client[p].refs > 0 /\ (HasJob(p) => client[p].refs >= 2) /\ clientList \subseteq [id : Nat, client : Players]
      <3>1. client[p].refs \in Nat
        BY <1>1, RefsWritten
      <3> QED
        BY <1>1, <2>1, <3>1 DEF PlayerInv, PlayerTypes
    <2>3. /\ client' \in [Players -> ClientRecord]
          /\ clientList' \subseteq [id : Nat, client : Players]
          /\ ListInv'
          /\ \A u \in Players : u # p => client'[u] = client[u]
          /\ \/ client[p].refs > 1 /\ client'[p] = [client[p] EXCEPT !.refs = client[p].refs - 1]
             \/ client[p].refs = 1 /\ client'[p] = Freed
      BY <1>1, <2>1, <2>2, Dropped DEF ListInv
    <2>4. told'[p] = told[p] \cup {"Gone"} /\ told' \in [Players -> SUBSET Words]
      BY <1>1, <2>1 DEF Words
    <2>5. PlayerInv(p)'
      <3>1. CASE client[p].refs > 1 /\ client'[p] = [client[p] EXCEPT !.refs = client[p].refs - 1]
        <4>1. client'[p].refs = client[p].refs - 1 /\ client'[p].state = client[p].state
              /\ client'[p].id = client[p].id /\ client'[p].key = client[p].key
              /\ client[p].refs \in Nat
          BY <1>1, <3>1 DEF ClientRecord
        <4> QED
          BY <1>1, <1>2, <1>4, <2>1, <2>2, <2>4, <3>1, <4>1 DEF PlayerInv, Connected
      <3>2. CASE client[p].refs = 1 /\ client'[p] = Freed
        BY <1>1, <1>4, <2>1, <2>2, <2>4, <3>2 DEF PlayerInv, Connected, Freed, NewClient
      <3> QED
        BY <2>3, <3>1, <3>2
    <2> QED
      BY <1>5, <2>1, <2>3, <2>4, <2>5, <1>1
  <1> QED
    BY <1>6, <1>7, <1>8

\* login_client_check_credentials
LEMMA CredentialsStep ==
  ASSUME ClientsInv, NEW p \in Players, NEW pass \in Passwords, NEW tooLong \in BOOLEAN,
         HandleCredentials(p, pass, tooLong)
  PROVE  ClientsInv'
  <1>1. PlayerTypes /\ PlayerInv(p) /\ JobsInv /\ ListInv
        /\ client[p] \in ClientRecord /\ client \in [Players -> ClientRecord]
        /\ told \in [Players -> SUBSET Words] /\ jobs \subseteq JobRecord
        /\ UNCHANGED <<user, table, issued, clientList>>
    BY DEF ClientsInv, PlayerTypes, HandleCredentials, serverVars
  <1>2. Connected(p) /\ client[p].state = "VersionSent" /\ ~HasJob(p) /\ client[p].refs \in Nat
        /\ client[p].refs >= 1 /\ "Accept" \notin told[p]
    <2>1. client[p].refs \in Nat
      BY <1>1, RefsWritten
    <2> QED
      BY <1>1, <2>1 DEF HandleCredentials, PlayerInv
  <1>3. \A e \in clientList : e.client # p
    BY <1>1, <1>2 DEF ListInv
  <1> DEFINE c == [client[p] EXCEPT !.state = "ProcessingCredentials"]
             d == [c EXCEPT !.pass = pass]
  <1>4. c \in ClientRecord /\ c.state = "ProcessingCredentials" /\ c.refs = client[p].refs
    BY <1>1 DEF ClientRecord, States
  <1>5. CASE tooLong
    <2>1. client' = [client EXCEPT ![p] = c] /\ told' = [told EXCEPT ![p] = @ \cup {"Error"}]
          /\ jobs' = jobs
      BY <1>5 DEF HandleCredentials, Tell
    <2> HIDE DEF c
    <2>2. client'[p] = c /\ told'[p] = told[p] \cup {"Error"}
      BY <1>1, <2>1
    <2>3. ~HasJob(p)'
      BY <1>2, <2>1 DEF HasJob
    <2>4. PlayerInv(p)'
      BY <1>1, <1>2, <1>4, <2>2, <2>3 DEF PlayerInv, Connected
    <2>5. ListInv'
      BY <1>1, <1>3, <2>1 DEF ListInv, PlayerTypes
    <2>6. \A j \in jobs' : j.client # p
      BY <2>3 DEF HasJob
    <2>7. client' \in [Players -> ClientRecord] /\ told' \in [Players -> SUBSET Words]
      BY <1>1, <1>4, <2>1 DEF Words
    <2>8. clientList' \subseteq [id : Nat, client : Players]
      BY <1>1 DEF PlayerTypes
    <2> QED
      BY <1>1, <2>1, <2>4, <2>5, <2>6, <2>7, <2>8, StepOfPlayer
  <1>6. CASE ~tooLong
    <2>1. d \in ClientRecord /\ d.state = "ProcessingCredentials" /\ d.refs = client[p].refs
      <3> HIDE DEF c
      <3> QED
        BY <1>4 DEF ClientRecord
    <2> DEFINE n == d.refs + 1
               e == [d EXCEPT !.refs = n]
               job == Job("select", p, FALSE)
    <2>2. client' = [client EXCEPT ![p] = e] /\ told' = told /\ jobs' = jobs \cup {job}
      BY <1>6 DEF HandleCredentials, Grabbed
    <2> HIDE DEF d
    <2>3. e \in ClientRecord /\ e.state = "ProcessingCredentials" /\ e.refs = client[p].refs + 1
      <3>1. n \in Nat
        BY <1>2, <2>1
      <3> QED
        BY <2>1, <3>1, RefsWritten
    <2> HIDE DEF e
    <2>4. job \in JobRecord /\ job.client = p /\ job.op = "select"
      BY DEF Job, JobRecord
    <2> HIDE DEF job
    <2>5. client'[p] = e /\ HasJob(p)'
      BY <1>1, <2>2, <2>4 DEF HasJob
    <2>6. PlayerInv(p)'
      BY <1>1, <1>2, <2>2, <2>3, <2>5 DEF PlayerInv, Connected
    <2>7. ListInv'
      BY <1>1, <1>3, <2>2 DEF ListInv, PlayerTypes
    <2>8. \A j \in jobs' : j.client = p => j = job
      BY <1>2, <2>2 DEF HasJob
    <2>9. client' \in [Players -> ClientRecord] /\ jobs' \subseteq JobRecord
          /\ \A j \in JobRecord : j.client # p => (j \in jobs' <=> j \in jobs)
      BY <1>1, <2>2, <2>3, <2>4
    <2>10. clientList' \subseteq [id : Nat, client : Players]
      BY <1>1 DEF PlayerTypes
    <2>11. \A u \in Players : u # p => client'[u] = client[u] /\ told'[u] = told[u]
      BY <1>1, <2>2
    <2>12. told' \in [Players -> SUBSET Words]
      BY <1>1, <2>2
    <2>13. \A j \in jobs' : j.client = p => j.op # "insert"
      BY <2>4, <2>8
    <2> QED
      BY <1>1, <2>6, <2>7, <2>8, <2>9, <2>10, <2>11, <2>12, <2>13, StepOfPlayer
  <1> QED
    BY <1>5, <1>6

\* A query of player p has been executed.
LEMMA JobFacts ==
  ASSUME ClientsInv, NEW p \in Players, NEW job \in jobs, job.client = p
  PROVE  /\ client[p] \in ClientRecord /\ client[p].refs \in Nat /\ client[p].refs >= 1
         /\ client[p].state = "ProcessingCredentials"
         /\ Connected(p) => client[p].refs >= 2
         /\ "Connected" \in told[p] /\ "Accept" \notin told[p]
         /\ \A e \in clientList : e.client # p
         /\ \A j \in jobs : j.client = p => j = job
  <1>1. HasJob(p) /\ PlayerInv(p) /\ ListInv /\ JobsInv /\ client[p] \in ClientRecord
    BY DEF HasJob, ClientsInv, PlayerTypes
  <1>2. client[p].refs \in Nat
    BY <1>1, RefsWritten
  <1>3. client[p].state = "ProcessingCredentials" /\ client[p].refs >= 1
    BY <1>1 DEF PlayerInv
  <1>4. \A e \in clientList : e.client # p
    BY <1>1, <1>3 DEF ListInv
  <1>5. "Connected" \in told[p] /\ "Accept" \notin told[p] /\ (Connected(p) => client[p].refs >= 2)
    BY <1>1, <1>2, <1>3 DEF PlayerInv
  <1>6. \A j \in jobs : j.client = p => j = job
    BY <1>1 DEF JobsInv
  <1> QED
    BY <1>1, <1>2, <1>3, <1>4, <1>5, <1>6

\* The callback that answers the credentials: the query is gone, and its
\* reference with it.  The client is c just before it is dropped.
LEMMA AnswerStep ==
  ASSUME ClientsInv, NEW p \in Players, NEW job \in jobs, job.client = p,
         NEW c \in ClientRecord, NEW list \in SUBSET [id : Nat, client : Players], NEW word \in Words,
         word \in {"Session", "Error"},
         c.refs = client[p].refs,
         \/ c.state = "ProcessingCredentials" /\ list = clientList
         \/ /\ c.state = "AcceptedCredentials" /\ HasAccount(user[p]) /\ c.id = AccountId(user[p])
            /\ list = clientList \cup {[id |-> c.id, client |-> p]},
         Drop(p, c, list), Tell(p, word), jobs' = jobs \ {job},
         UNCHANGED <<user, table, issued>>
  PROVE  ClientsInv'
  <1>1. PlayerTypes /\ PlayerInv(p) /\ told \in [Players -> SUBSET Words] /\ jobs \subseteq JobRecord
        /\ client \in [Players -> ClientRecord] /\ c.refs \in Nat
    BY RefsWritten DEF ClientsInv, PlayerTypes
  <1>2. /\ c.refs >= 1 /\ (Connected(p) => c.refs >= 2)
        /\ "Connected" \in told[p] /\ "Accept" \notin told[p]
        /\ \A e \in clientList : e.client # p
        /\ \A j \in jobs : j.client = p => j = job
    BY JobFacts
  <1>3. \A e \in list : /\ e.client # p => e \in clientList
                       /\ e.client = p => e.id = c.id /\ c.state = "AcceptedCredentials"
    BY <1>2
  <1>4. /\ client' \in [Players -> ClientRecord]
        /\ clientList' \subseteq [id : Nat, client : Players]
        /\ ListInv'
        /\ \A u \in Players : u # p => client'[u] = client[u]
        /\ \/ c.refs > 1 /\ client'[p] = [c EXCEPT !.refs = c.refs - 1]
           \/ c.refs = 1 /\ client'[p] = Freed
    BY <1>1, <1>2, <1>3, Dropped
  <1>5. told' \in [Players -> SUBSET Words] /\ told'[p] = told[p] \cup {word}
        /\ \A u \in Players : u # p => told'[u] = told[u]
    BY <1>1 DEF Tell
  <1>6. /\ jobs' \subseteq JobRecord /\ \A j \in jobs' : j.client # p
        /\ \A j \in JobRecord : j.client # p => (j \in jobs' <=> j \in jobs)
    BY <1>1, <1>2
  <1>7. ~HasJob(p)'
    BY <1>6 DEF HasJob
  <1>8. /\ "Connected" \in told'[p] /\ "Accept" \notin told'[p]
        /\ Connected(p)' <=> Connected(p)
    BY <1>2, <1>5 DEF Connected
  <1>9. (HasAccount(user[p]) <=> HasAccount(user[p])') /\ AccountId(user[p])' = AccountId(user[p])
    BY DEF HasAccount, AccountId
  <1>10. PlayerInv(p)'
    <2>1. CASE c.refs > 1 /\ client'[p] = [c EXCEPT !.refs = c.refs - 1]
      <3>1. c.refs - 1 \in Nat
        BY <1>1, <2>1
      <3>2. client'[p].refs = c.refs - 1 /\ client'[p].state = c.state /\ client'[p].id = c.id
        BY <2>1, <3>1, RefsWritten
      <3> QED
        BY <1>1, <1>2, <1>7, <1>8, <1>9, <2>1, <3>2 DEF PlayerInv
    <2>2. CASE c.refs = 1 /\ client'[p] = Freed
      <3>1. Freed.refs = 0
        BY DEF Freed, NewClient
      <3> QED
        BY <1>2, <1>7, <1>8, <2>2, <3>1 DEF PlayerInv
    <2> QED
      BY <1>4, <2>1, <2>2
  <1> QED
    BY <1>4, <1>5, <1>6, <1>10, StepOfPlayer

\* login_client_credentials_callback and login_client_auto_create_account_callback
LEMMA CallbackStep ==
  ASSUME ClientsInv, NEW p \in Players, CredentialsCallback(p) \/ AutoCreateCallback(p)
  PROVE  ClientsInv'
  <1>1. PlayerTypes /\ PlayerInv(p) /\ JobsInv /\ ListInv
        /\ client[p] \in ClientRecord /\ client \in [Players -> ClientRecord]
        /\ told \in [Players -> SUBSET Words] /\ jobs \subseteq JobRecord
        /\ UNCHANGED <<user, table, issued>> /\ clientList \subseteq [id : Nat, client : Players]
    BY DEF ClientsInv, PlayerTypes, CredentialsCallback, AutoCreateCallback, serverVars
  <1>2. ASSUME NEW job \in jobs, job.client = p, jobs' = jobs \ {job}, HasAccount(user[p]),
               LogIn(p, AccountId(user[p]))
        PROVE  ClientsInv'
    <2>1. AccountId(user[p]) \in Nat
      <3>1. DOMAIN table = 1 .. Len(table) /\ Len(table) \in Nat
        BY <1>1, LenProperties DEF PlayerTypes
      <3>2. PICK k \in DOMAIN table : table[k].user = user[p]
        BY <1>2 DEF HasAccount
      <3>3. AccountId(user[p]) = k
        BY <3>2, AccountIdIs DEF ClientsInv
      <3> QED
        BY <3>1, <3>2, <3>3
    <2> DEFINE id == AccountId(user[p])
               a == [client[p] EXCEPT !.state = "AcceptedCredentials"]
               b == [a EXCEPT !.id = id]
               c == [b EXCEPT !.pass = ""]
               list == clientList \cup {[id |-> id, client |-> p]}
    <2>2. Drop(p, c, list) /\ Tell(p, "Session")
      BY <1>2 DEF LogIn
    <2> HIDE DEF id
    <2>3. a \in ClientRecord /\ a.refs = client[p].refs /\ a.state = "AcceptedCredentials"
      BY <1>1 DEF ClientRecord, States
    <2> HIDE DEF a
    <2>4. b \in ClientRecord /\ b.refs = client[p].refs /\ b.state = "AcceptedCredentials" /\ b.id = id
      BY <2>1, <2>3 DEF ClientRecord, id
    <2> HIDE DEF b
    <2>5. c \in ClientRecord /\ c.refs = client[p].refs /\ c.state = "AcceptedCredentials" /\ c.id = id
      BY <2>4 DEF ClientRecord
    <2> HIDE DEF c
    <2>6. list \in SUBSET [id : Nat, client : Players]
          /\ list = clientList \cup {[id |-> c.id, client |-> p]}
      BY <1>1, <2>1, <2>5 DEF id
    <2> HIDE DEF list
    <2>7. c.id = AccountId(user[p])
      BY <2>5 DEF id
    <2>8. "Session" \in Words
      BY DEF Words
    <2> QED
      BY <1>1, <1>2, <2>2, <2>5, <2>6, <2>7, <2>8, AnswerStep
  <1>3. \A op \in {"select", "insert"}, done \in BOOLEAN :
            LET j == Job(op, p, done)
            IN  j \in JobRecord /\ j.client = p /\ j.op = op /\ j.done = done
    BY DEF Job, JobRecord
  <1>4. CASE AutoCreateCallback(p)
    <2> DEFINE job == Job("insert", p, TRUE)
    <2>1. job \in jobs /\ job.client = p /\ job.op = "insert" /\ job.done
          /\ jobs' = jobs \ {job} /\ LogIn(p, AccountId(user[p]))
      BY <1>3, <1>4 DEF AutoCreateCallback
    <2>2. HasAccount(user[p])
      BY <1>1, <2>1 DEF JobsInv
    <2> QED
      BY <1>2, <2>1, <2>2
  <1>5. CASE CredentialsCallback(p)
    <2> DEFINE job == Job("select", p, TRUE)
               next == Job("insert", p, FALSE)
    <2>1. job \in jobs /\ job.client = p
      BY <1>3, <1>5 DEF CredentialsCallback
    <2>2. CASE ~HasAccount(user[p])
      <3>1. jobs' = (jobs \ {job}) \cup {next} /\ UNCHANGED <<client, clientList, told>>
        BY <1>5, <2>2 DEF CredentialsCallback
      <3>2. next \in JobRecord /\ next.client = p /\ next.done = FALSE
        BY <1>3
      <3> HIDE DEF job, next
      <3>3. \A j \in jobs' : j.client = p => j = next
        BY <2>1, <3>1, JobFacts
      <3>4. /\ jobs' \subseteq JobRecord
            /\ \A j \in JobRecord : j.client # p => (j \in jobs' <=> j \in jobs)
        BY <1>1, <2>1, <3>1, <3>2
      <3>5. HasJob(p)' /\ HasJob(p)
        BY <2>1, <3>1, <3>2 DEF HasJob
      <3>6. (HasAccount(user[p]) <=> HasAccount(user[p])') /\ AccountId(user[p])' = AccountId(user[p])
        BY <1>1 DEF HasAccount, AccountId
      <3>7. PlayerInv(p)' /\ ListInv'
        BY <1>1, <3>1, <3>5, <3>6 DEF PlayerInv, ListInv, Connected
      <3>8. client' \in [Players -> ClientRecord] /\ told' \in [Players -> SUBSET Words]
            /\ clientList' \subseteq [id : Nat, client : Players]
            /\ \A u \in Players : u # p => client'[u] = client[u] /\ told'[u] = told[u]
        BY <1>1, <3>1
      <3>9. \A j \in jobs' : j.client = p => ~j.done
        BY <3>2, <3>3
      <3> QED
        BY <1>1, <3>3, <3>4, <3>7, <3>8, <3>9, StepOfPlayer
    <2>3. CASE HasAccount(user[p])
      <3>1. jobs' = jobs \ {job} /\ (LogIn(p, AccountId(user[p])) \/ Refuse(p))
        BY <1>5, <2>3 DEF CredentialsCallback
      <3>2. CASE LogIn(p, AccountId(user[p]))
        BY <1>2, <2>1, <2>3, <3>1, <3>2
      <3>3. CASE Refuse(p)
        <4> DEFINE c == [client[p] EXCEPT !.pass = ""]
        <4>1. Drop(p, c, clientList) /\ Tell(p, "Error")
          BY <3>3 DEF Refuse
        <4>2. c \in ClientRecord /\ c.refs = client[p].refs /\ c.state = client[p].state
          BY <1>1 DEF ClientRecord
        <4> HIDE DEF c, job
        <4>3. client[p].state = "ProcessingCredentials"
          BY <2>1, JobFacts
        <4>4. "Error" \in Words
          BY DEF Words
        <4> QED
          BY <1>1, <2>1, <3>1, <4>1, <4>2, <4>3, <4>4, AnswerStep
      <3> QED
        BY <3>1, <3>2, <3>3
    <2> QED
      BY <2>2, <2>3
  <1> QED
    BY <1>4, <1>5

\* The database thread executes a query.
LEMMA ExecuteStep ==
  ASSUME ClientsInv, NEW job \in jobs, Execute(job)
  PROVE  ClientsInv'
  <1> DEFINE p == job.client
             fails == job.op = "insert" /\ HasAccount(user[p])
             after == Job(job.op, p, TRUE)
  <1>1. /\ PlayerTypes /\ JobsInv /\ ListInv /\ TableInv /\ KeysInv
        /\ job \in JobRecord /\ p \in Players /\ user[p] \in Users /\ client[p] \in ClientRecord
        /\ UNCHANGED <<user, client, clientList, told, issued>>
    BY DEF ClientsInv, PlayerTypes, Execute, serverVars, JobRecord
  <1>2. after \in JobRecord /\ after.client = p /\ after.op = job.op /\ after.done
    BY <1>1 DEF Job, JobRecord
  <1>3. jobs' = (jobs \ {job}) \cup IF fails THEN {} ELSE {after}
    BY DEF Execute
  <1>4. /\ table' \in Seq(Row) /\ TableInv'
        /\ \A u \in Users : HasAccount(u) => HasAccount(u)' /\ AccountId(u)' = AccountId(u)
        /\ job.op = "insert" => HasAccount(user[p])'
    <2>1. CASE job.op = "insert" /\ ~fails
      <3> DEFINE r == [user |-> user[p], pass |-> client[p].pass]
      <3>1. r \in Row /\ r.user = user[p]
        BY <1>1 DEF Row, ClientRecord
      <3>2. table' = Append(table, r) /\ ~HasAccount(user[p])
        BY <2>1 DEF Execute
      <3> HIDE DEF r
      <3> QED
        BY <1>1, <3>1, <3>2, RowAdded
    <2>2. CASE ~(job.op = "insert" /\ ~fails)
      <3>1. table' = table
        BY <2>2 DEF Execute
      <3>2. job.op = "insert" => HasAccount(user[p])
        BY <2>2
      <3> HIDE DEF p
      <3> QED
        BY <1>1, <3>1, <3>2 DEF PlayerTypes, TableInv, HasAccount, AccountId
    <2> QED
      BY <2>1, <2>2
  <1> HIDE DEF after, fails
  <1>5. PlayerTypes'
    BY <1>1, <1>2, <1>3, <1>4 DEF PlayerTypes
  <1>6. JobsInv'
    <2>1. \A j \in jobs : j.client = p => j = job
      BY <1>1 DEF JobsInv
    <2>2. \A j \in jobs' : j = after \/ (j \in jobs /\ j.client # p)
      BY <1>3, <2>1
    <2>3. \A j, k \in jobs' : j.client = k.client => j = k
      BY <1>1, <1>2, <2>2 DEF JobsInv
    <2>4. ASSUME NEW j \in jobs', j.op = "insert", j.done PROVE HasAccount(user[j.client])'
      <3>1. CASE j = after
        BY <1>1, <1>2, <1>4, <2>4, <3>1
      <3>2. CASE j \in jobs
        <4>1. HasAccount(user[j.client]) /\ user[j.client] \in Users
          BY <1>1, <2>4, <3>2 DEF JobsInv, PlayerTypes, JobRecord
        <4> QED
          BY <1>1, <1>4, <4>1
      <3> QED
        BY <2>2, <3>1, <3>2
    <2> QED
      BY <1>1, <2>3, <2>4 DEF JobsInv
  <1>7. ASSUME NEW u \in Players PROVE PlayerInv(u)'
    <2>1. PlayerInv(u) /\ user[u] \in Users
      BY <1>1 DEF ClientsInv, PlayerTypes
    <2>2. HasJob(u)' => HasJob(u)
      BY <1>2, <1>3 DEF HasJob
    <2> QED
      BY <1>1, <1>4, <2>1, <2>2 DEF PlayerInv, Connected
  <1>8. ListInv' /\ KeysInv'
    BY <1>1 DEF ListInv, KeysInv
  <1> QED
    BY <1>4, <1>5, <1>6, <1>7, <1>8 DEF ClientsInv

\* tcp_client_handle_op_client_login_response
LEMMA ResponseStep ==
  ASSUME ClientsInv, NEW i \in DOMAIN tcpClients, HandleLoginResponse(i)
  PROVE  ClientsInv'
  <1> DEFINE msg == Head(conns[tcpClients[i].conn].inbox)
             found == {e \in clientList : e.id = msg.id}
             key == Cardinality(issued) + 1
  <1>1. /\ PlayerTypes /\ JobsInv /\ ListInv /\ TableInv /\ KeysInv
        /\ client \in [Players -> ClientRecord] /\ told \in [Players -> SUBSET Words]
        /\ UNCHANGED <<user, clientList, table, jobs>>
    BY DEF ClientsInv, PlayerTypes, HandleLoginResponse
  <1>2. TableInv' /\ JobsInv' /\ (\A u \in Players : HasJob(u)' <=> HasJob(u))
        /\ \A u \in Players : (HasAccount(user[u])' <=> HasAccount(user[u]))
                              /\ AccountId(user[u])' = AccountId(user[u])
    BY <1>1 DEF TableInv, JobsInv, HasJob, HasAccount, AccountId
  <1>3. CASE UNCHANGED <<client, told, issued>>
    <2>1. PlayerTypes' /\ ListInv' /\ KeysInv'
      BY <1>1, <1>3 DEF PlayerTypes, ListInv, KeysInv
    <2>2. ASSUME NEW u \in Players PROVE PlayerInv(u)'
      BY <1>1, <1>2, <1>3 DEF ClientsInv, PlayerInv, Connected
    <2> QED
      BY <1>2, <2>1, <2>2 DEF ClientsInv
  <1>4. CASE ~UNCHANGED <<client, told, issued>>
    <2>1. PICK e \in clientList :
            /\ IF msg.response
                 THEN /\ issued' = issued \cup {ClientAuth(client[e.client], key)}
                      /\ client' = [client EXCEPT ![e.client].key = key]
                 ELSE UNCHANGED <<issued, client>>
            /\ IF client[e.client].state = "AcceptedCredentials"
                 THEN Tell(e.client, IF msg.response THEN "Accept" ELSE "Error")
                 ELSE UNCHANGED told
      BY <1>4 DEF HandleLoginResponse
    <2> DEFINE p == e.client
               c == [client[p] EXCEPT !.key = key]
               auth == [id |-> client[p].id, key |-> key]
    <2>2. p \in Players /\ client[p] \in ClientRecord /\ client[p].state = "AcceptedCredentials"
          /\ client[p].refs > 0 /\ client[p].id \in Nat /\ PlayerInv(p)
      <3>1. p \in Players /\ client[p].state = "AcceptedCredentials" /\ client[p].refs > 0
        BY <1>1, <2>1 DEF PlayerTypes, ListInv
      <3>2. client[p] \in ClientRecord
        BY <1>1, <3>1
      <3> QED
        BY <3>1, <3>2 DEF ClientRecord, ClientsInv
    <2>3. "Connected" \in told[p]
      <3>1. Freed.refs = 0
        BY DEF Freed, NewClient
      <3> QED
        BY <2>2, <3>1 DEF PlayerInv
    <2>4. IsFiniteSet(issued) /\ Cardinality(issued) \in Nat /\ key \in Nat
      BY <1>1, FS_CardinalityType DEF KeysInv
    <2> HIDE DEF p, key
    <2>5. c \in ClientRecord /\ c.refs = client[p].refs /\ c.state = client[p].state
          /\ c.id = client[p].id /\ c.key = key
      BY <2>2, <2>4 DEF ClientRecord
    <2>6. CASE msg.response
      <3>1. issued' = issued \cup {auth} /\ client' = [client EXCEPT ![p] = c]
            /\ told' = [told EXCEPT ![p] = @ \cup {"Accept"}]
        BY <1>1, <2>1, <2>2, <2>6 DEF ClientAuth, Tell, p, key
      <3> HIDE DEF c
      <3>2. auth \in [id : Nat, key : Nat] /\ auth.key = key /\ auth \notin issued
        <4>1. auth \in [id : Nat, key : Nat] /\ auth.key = key
          BY <2>2, <2>4
        <4> HIDE DEF auth
        <4> QED
          BY <1>1, <2>4, <4>1 DEF KeysInv, key
      <3>3. KeysInv'
        <4> HIDE DEF auth
        <4>1. IsFiniteSet(issued') /\ Cardinality(issued') = Cardinality(issued) + 1
          BY <2>4, <3>1, <3>2, FS_AddElement
        <4>2. \A a \in issued' : a.key \in 1 .. Cardinality(issued')
          BY <1>1, <2>4, <3>1, <3>2, <4>1 DEF KeysInv, key
        <4>3. \A a \in issued : a.key # key
          BY <1>1, <2>4 DEF KeysInv, key
        <4>4. \A a, b \in issued' : a.key = b.key => a = b
          BY <1>1, <3>1, <3>2, <4>3 DEF KeysInv
        <4> QED
          BY <4>1, <4>2, <4>4 DEF KeysInv
      <3>4. PlayerTypes'
        BY <1>1, <2>2, <2>5, <3>1, <3>2 DEF PlayerTypes, Words
      <3>5. client'[p] = c /\ told'[p] = told[p] \cup {"Accept"} /\ issued \subseteq issued'
            /\ \A u \in Players : u # p => client'[u] = client[u] /\ told'[u] = told[u]
        BY <1>1, <2>2, <3>1
      <3>6. [id |-> c.id, key |-> c.key] \in issued'
        BY <2>5, <3>1
      <3>7. PlayerInv(p)'
        BY <1>1, <1>2, <2>2, <2>3, <2>5, <3>5, <3>6 DEF PlayerInv, Connected
      <3>8. ASSUME NEW u \in Players PROVE PlayerInv(u)'
        BY <1>1, <1>2, <2>2, <3>5, <3>7, OtherPlayers
      <3>9. ListInv'
        BY <1>1, <2>2, <2>5, <3>5 DEF ListInv, PlayerTypes
      <3> QED
        BY <1>2, <3>3, <3>4, <3>8, <3>9 DEF ClientsInv
    <2>7. CASE ~msg.response
      <3>1. UNCHANGED <<issued, client>> /\ told' = [told EXCEPT ![p] = @ \cup {"Error"}]
        BY <1>1, <2>1, <2>2, <2>7 DEF Tell, p
      <3>2. PlayerTypes' /\ ListInv' /\ KeysInv'
        BY <1>1, <2>2, <3>1 DEF PlayerTypes, ListInv, KeysInv, Words
      <3>3. told'[p] = told[p] \cup {"Error"}
            /\ \A u \in Players : u # p => told'[u] = told[u]
        BY <1>1, <2>2, <3>1
      <3>4. PlayerInv(p)'
        BY <1>1, <1>2, <2>2, <2>3, <3>1, <3>3 DEF PlayerInv, Connected
      <3>5. ASSUME NEW u \in Players PROVE PlayerInv(u)'
        BY <1>1, <1>2, <2>2, <3>1, <3>3, <3>4, OtherPlayers
      <3> QED
        BY <1>2, <3>2, <3>5 DEF ClientsInv
    <2> QED
      BY <2>6, <2>7
  <1> QED
    BY <1>3, <1>4

-----------------------------------------------------------------------------
(* The TCP server's arrays *)

TcpTypes ==
    /\ accepted \in Nat
    /\ tcpClients \in Seq([conn : Nat, index : Int])
    /\ serverList \in Seq([conn : Nat, status : {"Locked", "Up"}])

\* The inductive invariant of the arrays: no two clients have the same listing.
ArraysInv ==
    /\ TcpTypes
    /\ \A i \in 1 .. Len(tcpClients) : tcpClients[i].index # -1 =>
           /\ tcpClients[i].index \in 0 .. Len(serverList) - 1
           /\ serverList[tcpClients[i].index + 1].conn = tcpClients[i].conn
    /\ \A i, j \in 1 .. Len(tcpClients) :
           tcpClients[i].index = tcpClients[j].index /\ tcpClients[i].index # -1 => i = j
    /\ \A j \in 1 .. Len(serverList) :
           \E i \in 1 .. Len(tcpClients) : tcpClients[i].index = j - 1

TcpRecord == [conn : Nat, index : Int]
Listing == [conn : Nat, status : {"Locked", "Up"}]

\* Where the element now at j was, before k of n elements was swapped and popped
From(j, k, n) == IF j = k THEN n ELSE j

\* All elements but the one that is popped are kept, each once.
LEMMA FromProperties ==
  ASSUME NEW n \in Nat, NEW k \in 1 .. n
  PROVE  /\ \A j \in 1 .. n - 1 : From(j, k, n) \in 1 .. n /\ From(j, k, n) # k
         /\ \A i, j \in 1 .. n - 1 : From(i, k, n) = From(j, k, n) => i = j
         /\ \A i \in 1 .. n : i # k => \E j \in 1 .. n - 1 : From(j, k, n) = i
  <1>1. \A j \in 1 .. n - 1 : From(j, k, n) \in 1 .. n /\ From(j, k, n) # k
    BY DEF From
  <1>2. \A i, j \in 1 .. n - 1 : From(i, k, n) = From(j, k, n) => i = j
    BY DEF From
  <1>3. ASSUME NEW i \in 1 .. n, i # k
        PROVE  \E j \in 1 .. n - 1 : From(j, k, n) = i
    <2>1. CASE i = n
      <3>1. k \in 1 .. n - 1 /\ From(k, k, n) = i
        BY <1>3, <2>1 DEF From
      <3> QED
        BY <3>1
    <2>2. CASE i # n
      <3>1. i \in 1 .. n - 1 /\ From(i, k, n) = i
        BY <1>3, <2>2 DEF From
      <3> QED
        BY <3>1
    <2> QED
      BY <2>1, <2>2
  <1> QED
    BY <1>1, <1>2, <1>3

\* array_swap_and_pop
LEMMA SwappedAndPopped ==
  ASSUME NEW S, NEW s \in Seq(S), NEW k \in 1 .. Len(s)
  PROVE  /\ SwapAndPop(s, k) \in Seq(S) /\ Len(SwapAndPop(s, k)) = Len(s) - 1
         /\ \A j \in 1 .. Len(s) - 1 : SwapAndPop(s, k)[j] = s[From(j, k, Len(s))]
  <1> DEFINE n == Len(s)
             t == [s EXCEPT ![k] = s[n]]
  <1>1. n \in Nat \ {0} /\ DOMAIN s = 1 .. n /\ \A j \in 1 .. n : s[j] \in S
    BY LenProperties, ElementOfSeq
  <1>2. \A j \in 1 .. n - 1 : t[j] = s[From(j, k, n)] /\ t[j] \in S
    BY <1>1 DEF From
  <1>3. SwapAndPop(s, k) = SubSeq(t, 1, n - 1)
    BY DEF SwapAndPop
  <1> HIDE DEF t, n
  <1>4. /\ SubSeq(t, 1, n - 1) \in Seq(S)
        /\ Len(SubSeq(t, 1, n - 1)) = IF 1 <= n - 1 THEN n - 1 - 1 + 1 ELSE 0
        /\ \A j \in 1 .. n - 1 - 1 + 1 : SubSeq(t, 1, n - 1)[j] = t[1 + j - 1]
    <2>1. 1 \in Int /\ n - 1 \in Int
      BY <1>1
    <2> QED
      BY <2>1, <1>2, SubSeqProperties
  <1> QED
    BY <1>1, <1>2, <1>3, <1>4 DEF n

\* The arrays as sequences of records, and their elements
LEMMA ArrayFacts ==
  ASSUME ArraysInv
  PROVE  /\ tcpClients \in Seq(TcpRecord) /\ serverList \in Seq(Listing)
         /\ Len(tcpClients) \in Nat /\ Len(serverList) \in Nat
         /\ DOMAIN tcpClients = 1 .. Len(tcpClients) /\ DOMAIN serverList = 1 .. Len(serverList)
         /\ \A j \in 1 .. Len(tcpClients) :
              /\ tcpClients[j] \in TcpRecord
              /\ tcpClients[j].index \in Int /\ tcpClients[j].conn \in Nat
         /\ \A j \in 1 .. Len(serverList) : serverList[j] \in Listing
  <1>1. tcpClients \in Seq(TcpRecord) /\ serverList \in Seq(Listing)
    BY DEF ArraysInv, TcpTypes, TcpRecord, Listing
  <1>2. /\ Len(tcpClients) \in Nat /\ Len(serverList) \in Nat
        /\ DOMAIN tcpClients = 1 .. Len(tcpClients) /\ DOMAIN serverList = 1 .. Len(serverList)
    BY <1>1, LenProperties
  <1>3. ASSUME NEW j \in 1 .. Len(tcpClients)
        PROVE  /\ tcpClients[j] \in TcpRecord
               /\ tcpClients[j].index \in Int /\ tcpClients[j].conn \in Nat
    <2>1. tcpClients[j] \in TcpRecord
      BY <1>1, <1>2, ElementOfSeq
    <2> QED
      BY <2>1 DEF TcpRecord
  <1>4. \A j \in 1 .. Len(serverList) : serverList[j] \in Listing
    BY <1>1, <1>2, ElementOfSeq
  <1> QED
    BY <1>1, <1>2, <1>3, <1>4

\* server_list_add
LEMMA ListingAdded ==
  ASSUME ArraysInv, NEW i \in DOMAIN tcpClients, HandleNewLoginServer(i)
  PROVE  ArraysInv'
  <1>1. /\ tcpClients \in Seq(TcpRecord) /\ serverList \in Seq(Listing) /\ accepted' = accepted /\ accepted \in Nat
        /\ Len(tcpClients) \in Nat /\ Len(serverList) \in Nat /\ i \in 1 .. Len(tcpClients)
        /\ tcpClients[i] \in TcpRecord /\ tcpClients[i].conn \in Nat /\ DOMAIN tcpClients = 1 .. Len(tcpClients)
        /\ \A j \in 1 .. Len(tcpClients) : tcpClients[j] \in TcpRecord /\ tcpClients[j].index \in Int
    <2>1. accepted' = accepted /\ accepted \in Nat
      BY DEF HandleNewLoginServer, ArraysInv, TcpTypes
    <2> QED
      BY <2>1, ArrayFacts
  <1>2. CASE tcpClients[i].index # -1
    BY <1>1, <1>2 DEF HandleNewLoginServer, ArraysInv, TcpTypes
  <1>3. CASE tcpClients[i].index = -1
    <2> DEFINE n == Len(serverList)
               c == [tcpClients[i] EXCEPT !.index = n]
               e == [conn |-> tcpClients[i].conn, status |-> "Locked"]
    <2>1. serverList' = Append(serverList, e) /\ tcpClients' = [tcpClients EXCEPT ![i] = c]
      BY <1>1, <1>3 DEF HandleNewLoginServer
    <2>2. c \in TcpRecord /\ c.index = n /\ c.conn = tcpClients[i].conn
          /\ e \in Listing /\ e.conn = tcpClients[i].conn
      <3>1. n \in Int /\ tcpClients[i].conn \in Nat
        BY <1>1
      <3>2. c \in TcpRecord /\ c.index = n /\ c.conn = tcpClients[i].conn
        BY <1>1, <3>1 DEF TcpRecord
      <3>3. e \in Listing /\ e.conn = tcpClients[i].conn
        BY <3>1 DEF Listing
      <3> QED
        BY <3>2, <3>3
    <2> HIDE DEF c, e
    <2>3. /\ tcpClients' \in Seq(TcpRecord) /\ Len(tcpClients') = Len(tcpClients)
          /\ \A j \in 1 .. Len(tcpClients) : tcpClients'[j] = IF j = i THEN c ELSE tcpClients[j]
      BY <1>1, <2>1, <2>2, ExceptSeq
    <2>4. /\ serverList' \in Seq(Listing) /\ Len(serverList') = n + 1
          /\ \A j \in 1 .. n : serverList'[j] = serverList[j]
          /\ serverList'[n + 1] = e
      BY <1>1, <2>1, <2>2, AppendProperties
    <2>5. TcpTypes'
      BY <1>1, <2>3, <2>4 DEF TcpTypes, TcpRecord, Listing, ArraysInv
    <2>6. ASSUME NEW k \in 1 .. Len(tcpClients), tcpClients[k].index # -1
          PROVE  /\ tcpClients[k].index \in 0 .. n - 1
                 /\ serverList[tcpClients[k].index + 1].conn = tcpClients[k].conn
      BY <2>6 DEF ArraysInv
    <2>7. \A k \in 1 .. Len(tcpClients') : tcpClients'[k].index # -1 =>
            /\ tcpClients'[k].index \in 0 .. Len(serverList') - 1
            /\ serverList'[tcpClients'[k].index + 1].conn = tcpClients'[k].conn
      <3>1. SUFFICES ASSUME NEW k \in 1 .. Len(tcpClients), tcpClients'[k].index # -1
                     PROVE  /\ tcpClients'[k].index \in 0 .. n
                            /\ serverList'[tcpClients'[k].index + 1].conn = tcpClients'[k].conn
        BY <1>1, <2>3, <2>4
      <3>2. CASE k = i
        <4>1. tcpClients'[k] = c
          BY <2>3, <3>2
        <4> QED
          BY <1>1, <2>2, <2>4, <4>1
      <3>3. CASE k # i
        <4>1. tcpClients'[k] = tcpClients[k]
          BY <2>3, <3>3
        <4>2. /\ tcpClients[k].index \in 0 .. n - 1
              /\ serverList[tcpClients[k].index + 1].conn = tcpClients[k].conn
          BY <2>6, <3>1, <4>1
        <4>3. tcpClients[k].index + 1 \in 1 .. n /\ tcpClients[k].index \in 0 .. n
          BY <1>1, <4>2
        <4> QED
          BY <2>4, <4>1, <4>2, <4>3
      <3> QED
        BY <3>2, <3>3
    <2>8. \A k, j \in 1 .. Len(tcpClients') :
            tcpClients'[k].index = tcpClients'[j].index /\ tcpClients'[k].index # -1 => k = j
      <3>1. SUFFICES ASSUME NEW k \in 1 .. Len(tcpClients), NEW j \in 1 .. Len(tcpClients),
                            tcpClients'[k].index = tcpClients'[j].index, tcpClients'[k].index # -1
                     PROVE  k = j
        BY <2>3
      <3>2. \A u \in 1 .. Len(tcpClients) : u # i => tcpClients'[u] = tcpClients[u]
        BY <2>3
      <3>3. tcpClients'[i].index = n
        BY <1>1, <2>2, <2>3
      <3>4. \A u \in 1 .. Len(tcpClients) : tcpClients[u].index # n
        BY <1>1, <2>6
      <3>5. CASE k # i /\ j # i
        BY <3>1, <3>2, <3>5 DEF ArraysInv
      <3> QED
        BY <3>1, <3>2, <3>3, <3>4, <3>5
    <2>9. ASSUME NEW j \in 1 .. Len(serverList')
          PROVE  \E k \in 1 .. Len(tcpClients') : tcpClients'[k].index = j - 1
      <3>1. CASE j = n + 1
        BY <1>1, <2>2, <2>3, <3>1
      <3>2. CASE j \in 1 .. n
        <4>1. PICK k \in 1 .. Len(tcpClients) : tcpClients[k].index = j - 1
          BY <3>2 DEF ArraysInv
        <4>2. k # i
          BY <1>3, <3>2, <4>1
        <4> QED
          BY <2>3, <4>1, <4>2
      <3> QED
        BY <1>1, <2>4, <3>1, <3>2
    <2> QED
      BY <2>5, <2>7, <2>8, <2>9 DEF ArraysInv
  <1> QED
    BY <1>2, <1>3

\* tcp_server_handle_closed_client
LEMMA ClientClosed ==
  ASSUME ArraysInv, NEW i \in DOMAIN tcpClients, HandleClosedClient(i)
  PROVE  ArraysInv'
  <1> DEFINE m == Len(tcpClients)
             n == Len(serverList)
             gone == tcpClients[i].index
             fixed == Reindexed(tcpClients, gone, n - 1)
  <1>1. /\ tcpClients \in Seq(TcpRecord) /\ serverList \in Seq(Listing)
        /\ accepted' = accepted /\ accepted \in Nat
        /\ m \in Nat /\ n \in Nat /\ i \in Nat /\ i \in 1 .. m /\ DOMAIN tcpClients = 1 .. m
        /\ \A j \in 1 .. m : /\ tcpClients[j] \in TcpRecord
                            /\ tcpClients[j].index \in Int /\ tcpClients[j].conn \in Nat
    <2>1. accepted' = accepted /\ accepted \in Nat
      BY DEF HandleClosedClient, ArraysInv, TcpTypes
    <2> QED
      BY <2>1, ArrayFacts
  <1>0. /\ \A j \in 1 .. m - 1 : From(j, i, m) \in 1 .. m /\ From(j, i, m) # i
        /\ \A k, j \in 1 .. m - 1 : From(k, i, m) = From(j, i, m) => k = j
        /\ \A k \in 1 .. m : k # i => \E j \in 1 .. m - 1 : From(j, i, m) = k
    BY <1>1, FromProperties
  <1>2. CASE gone = -1
    <2>1. tcpClients' = SwapAndPop(tcpClients, i) /\ serverList' = serverList
      BY <1>2 DEF HandleClosedClient
    <2>2. /\ tcpClients' \in Seq(TcpRecord) /\ Len(tcpClients') = m - 1
          /\ \A j \in 1 .. m - 1 : tcpClients'[j] = tcpClients[From(j, i, m)]
      BY <1>1, <2>1, SwappedAndPopped
    <2>3. TcpTypes'
      BY <1>1, <2>1, <2>2 DEF TcpTypes, TcpRecord, Listing, ArraysInv
    <2>5. \A k \in 1 .. Len(tcpClients') : tcpClients'[k].index # -1 =>
            /\ tcpClients'[k].index \in 0 .. Len(serverList') - 1
            /\ serverList'[tcpClients'[k].index + 1].conn = tcpClients'[k].conn
      <3>1. SUFFICES ASSUME NEW k \in 1 .. m - 1, tcpClients'[k].index # -1
                     PROVE  /\ tcpClients'[k].index \in 0 .. n - 1
                            /\ serverList[tcpClients'[k].index + 1].conn = tcpClients'[k].conn
        BY <2>1, <2>2
      <3>2. From(k, i, m) \in 1 .. m /\ tcpClients'[k] = tcpClients[From(k, i, m)]
        BY <1>0, <2>2
      <3> QED
        BY <3>1, <3>2 DEF ArraysInv
    <2>6. \A k, j \in 1 .. Len(tcpClients') :
            tcpClients'[k].index = tcpClients'[j].index /\ tcpClients'[k].index # -1 => k = j
      <3>1. SUFFICES ASSUME NEW k \in 1 .. m - 1, NEW j \in 1 .. m - 1,
                            tcpClients'[k].index = tcpClients'[j].index, tcpClients'[k].index # -1
                     PROVE  k = j
        BY <2>2
      <3>2. /\ From(k, i, m) \in 1 .. m /\ tcpClients'[k] = tcpClients[From(k, i, m)]
            /\ From(j, i, m) \in 1 .. m /\ tcpClients'[j] = tcpClients[From(j, i, m)]
        BY <1>0, <2>2
      <3>3. From(k, i, m) = From(j, i, m)
        BY <3>1, <3>2 DEF ArraysInv
      <3> QED
        BY <1>0, <3>3
    <2>7. ASSUME NEW j \in 1 .. Len(serverList')
          PROVE  \E k \in 1 .. Len(tcpClients') : tcpClients'[k].index = j - 1
      <3>1. PICK k \in 1 .. m : tcpClients[k].index = j - 1
        BY <2>1 DEF ArraysInv
      <3>2. k # i
        <4>1. j - 1 # -1
          BY <1>1, <2>1
        <4> QED
          BY <1>2, <3>1, <4>1
      <3>3. PICK u \in 1 .. m - 1 : From(u, i, m) = k
        BY <1>0, <3>2
      <3> QED
        BY <2>2, <3>1, <3>3
    <2> QED
      BY <2>3, <2>5, <2>6, <2>7 DEF ArraysInv
  <1>3. CASE gone # -1
    <2>1. serverList' = SwapAndPop(serverList, gone + 1) /\ tcpClients' = SwapAndPop(fixed, i)
      BY <1>3 DEF HandleClosedClient, WithoutListing
    <2>2. gone \in 0 .. n - 1 /\ gone + 1 \in 1 .. n /\ n \in 1 .. n
      <3>1. gone \in 0 .. n - 1
        BY <1>1, <1>3 DEF ArraysInv
      <3> QED
        BY <1>1, <3>1
    <2>3. /\ serverList' \in Seq(Listing) /\ Len(serverList') = n - 1
          /\ \A j \in 1 .. n - 1 : serverList'[j] = IF j = gone + 1 THEN serverList[n] ELSE serverList[j]
      <3>1. /\ serverList' \in Seq(Listing) /\ Len(serverList') = n - 1
            /\ \A j \in 1 .. n - 1 : serverList'[j] = serverList[From(j, gone + 1, n)]
        BY <1>1, <2>1, <2>2, SwappedAndPopped
      <3> QED
        BY <3>1 DEF From
    \* The client of the last listing is found, and is the only one.
    <2>4. PICK b \in 1 .. m : tcpClients[b].index = n - 1
      <3>1. \A j \in 1 .. n : \E k \in 1 .. m : tcpClients[k].index = j - 1
        BY DEF ArraysInv
      <3> QED
        BY <2>2, <3>1
    <2>5. \A k \in 1 .. m : tcpClients[k].index = n - 1 => k = b
      BY <1>1, <2>2, <2>4 DEF ArraysInv
    <2>6. /\ fixed \in Seq(TcpRecord) /\ Len(fixed) = m
          /\ \A k \in 1 .. m : /\ fixed[k].conn = tcpClients[k].conn
                              /\ fixed[k].index \in Int
                              /\ fixed[k].index = IF k = b THEN gone ELSE tcpClients[k].index
      <3> DEFINE found == {k \in DOMAIN tcpClients : tcpClients[k].index = n - 1}
                 c == [tcpClients[b] EXCEPT !.index = gone]
      <3>1. found = {b}
        BY <1>1, <2>4, <2>5
      <3>2. Least(found) = b
        BY <3>1, <1>1 DEF Least
      <3>3. c \in TcpRecord /\ c.index = gone /\ c.conn = tcpClients[b].conn
        BY <1>1, <2>2 DEF TcpRecord
      <3>4. CASE n - 1 > 0
        <4>1. fixed = [tcpClients EXCEPT ![b] = c]
          BY <1>1, <3>1, <3>2, <3>4 DEF Reindexed
        <4> HIDE DEF c, fixed
        <4> QED
          BY <1>1, <3>3, <4>1, ExceptSeq
      <3>5. CASE ~(n - 1 > 0)
        <4>1. fixed = tcpClients
          BY <3>5 DEF Reindexed
        <4>2. n - 1 = gone
          BY <1>1, <2>2, <3>5
        <4> QED
          BY <1>1, <2>4, <2>5, <4>1, <4>2
      <3> QED
        BY <3>4, <3>5
    <2> HIDE DEF fixed
    <2>7. /\ tcpClients' \in Seq(TcpRecord) /\ Len(tcpClients') = m - 1
          /\ \A j \in 1 .. m - 1 : tcpClients'[j] = fixed[From(j, i, m)]
      <3>1. fixed \in Seq(TcpRecord) /\ Len(fixed) = m /\ i \in 1 .. Len(fixed)
        BY <1>1, <2>6
      <3>2. /\ SwapAndPop(fixed, i) \in Seq(TcpRecord) /\ Len(SwapAndPop(fixed, i)) = Len(fixed) - 1
            /\ \A j \in 1 .. Len(fixed) - 1 : SwapAndPop(fixed, i)[j] = fixed[From(j, i, Len(fixed))]
        BY <3>1, SwappedAndPopped
      <3> QED
        BY <2>1, <3>1, <3>2
    <2>8. TcpTypes'
      BY <1>1, <2>3, <2>7 DEF TcpTypes, TcpRecord, Listing, ArraysInv
    \* All but client i are as they were, but for the one that is moved.
    <2>9. ASSUME NEW k \in 1 .. m, k # i, fixed[k].index # -1
          PROVE  /\ fixed[k].index \in 0 .. n - 2
                 /\ serverList'[fixed[k].index + 1].conn = fixed[k].conn
      <3>1. tcpClients[k].index # -1 => /\ tcpClients[k].index \in 0 .. n - 1
                                        /\ serverList[tcpClients[k].index + 1].conn = tcpClients[k].conn
                                        /\ tcpClients[k].index # gone
        BY <1>1, <1>3, <2>9 DEF ArraysInv
      <3>2. CASE k = b
        <4>1. gone # n - 1 /\ serverList[n].conn = tcpClients[k].conn
          BY <1>1, <2>2, <2>4, <3>1, <3>2
        <4>2. fixed[k].index = gone /\ fixed[k].conn = tcpClients[k].conn
          BY <2>6, <3>2
        <4>3. gone \in 0 .. n - 2 /\ gone + 1 \in 1 .. n - 1
          <5>1. PICK x, y : x = gone /\ y = n
            OBVIOUS
          <5>2. y \in Nat /\ x \in 0 .. y - 1 /\ x # y - 1
            BY Zenon, <1>1, <2>2, <4>1, <5>1
          <5>3. x \in 0 .. y - 2 /\ x + 1 \in 1 .. y - 1
            BY <5>2
          <5> QED
            BY Zenon, <5>1, <5>3
        <4>4. serverList'[gone + 1] = serverList[n]
          BY <2>3, <4>3
        <4> QED
          BY <4>1, <4>2, <4>3, <4>4
      <3>3. CASE k # b
        <4>1. tcpClients[k].index # -1 /\ tcpClients[k].index # n - 1
          BY <2>5, <2>6, <2>9, <3>3
        <4>2. tcpClients[k].index \in 0 .. n - 2 /\ tcpClients[k].index + 1 \in 1 .. n - 1
          <5>1. PICK x, y : x = tcpClients[k].index /\ y = n
            OBVIOUS
          <5>2. y \in Nat /\ x \in 0 .. y - 1 /\ x # y - 1
            BY Zenon, <1>1, <3>1, <4>1, <5>1
          <5>3. x \in 0 .. y - 2 /\ x + 1 \in 1 .. y - 1
            BY <5>2
          <5> QED
            BY Zenon, <5>1, <5>3
        <4>3. fixed[k].index = tcpClients[k].index /\ fixed[k].conn = tcpClients[k].conn
          BY <2>6, <3>3
        <4>4. tcpClients[k].index + 1 # gone + 1
          <5>1. tcpClients[k].index \in Int /\ gone \in Int /\ tcpClients[k].index # gone
            BY <1>1, <2>2, <3>1, <4>1
          <5> QED
            BY <5>1
        <4>5. serverList'[tcpClients[k].index + 1] = serverList[tcpClients[k].index + 1]
          BY <2>3, <4>2, <4>4
        <4> QED
          BY <3>1, <4>1, <4>2, <4>3, <4>5
      <3> QED
        BY <3>2, <3>3
    <2>10. \A k, j \in 1 .. m : k # i /\ j # i /\ fixed[k].index = fixed[j].index
                                 /\ fixed[k].index # -1 => k = j
      <3>1. \A k \in 1 .. m : k # i => tcpClients[k].index # gone
        BY <1>1, <1>3 DEF ArraysInv
      <3> QED
        BY <1>1, <1>3, <2>6, <3>1 DEF ArraysInv
    <2>11. Len(serverList') - 1 = n - 2
      BY <1>1, <2>3
    <2>12. \A k \in 1 .. Len(tcpClients') : tcpClients'[k].index # -1 =>
             /\ tcpClients'[k].index \in 0 .. Len(serverList') - 1
             /\ serverList'[tcpClients'[k].index + 1].conn = tcpClients'[k].conn
      <3>1. SUFFICES ASSUME NEW k \in 1 .. m - 1, tcpClients'[k].index # -1
                     PROVE  /\ tcpClients'[k].index \in 0 .. n - 2
                            /\ serverList'[tcpClients'[k].index + 1].conn = tcpClients'[k].conn
        BY <2>7, <2>11
      <3>2. /\ From(k, i, m) \in 1 .. m /\ From(k, i, m) # i
            /\ tcpClients'[k] = fixed[From(k, i, m)]
        BY <1>0, <2>7
      <3> QED
        BY <2>9, <3>1, <3>2
    <2>13. \A k, j \in 1 .. Len(tcpClients') :
             tcpClients'[k].index = tcpClients'[j].index /\ tcpClients'[k].index # -1 => k = j
      <3>1. SUFFICES ASSUME NEW k \in 1 .. m - 1, NEW j \in 1 .. m - 1,
                            tcpClients'[k].index = tcpClients'[j].index, tcpClients'[k].index # -1
                     PROVE  k = j
        BY <2>7
      <3>2. /\ From(k, i, m) \in 1 .. m /\ From(k, i, m) # i
            /\ From(j, i, m) \in 1 .. m /\ From(j, i, m) # i
            /\ tcpClients'[k] = fixed[From(k, i, m)] /\ tcpClients'[j] = fixed[From(j, i, m)]
        BY <1>0, <2>7
      <3>3. From(k, i, m) = From(j, i, m)
        BY <2>10, <3>1, <3>2
      <3> QED
        BY <1>0, <3>3
    <2>14. ASSUME NEW j \in 1 .. Len(serverList')
           PROVE  \E k \in 1 .. Len(tcpClients') : tcpClients'[k].index = j - 1
      <3>1. \E k \in 1 .. m : k # i /\ fixed[k].index = j - 1
        <4>1. CASE j = gone + 1
          <5>1. b # i /\ fixed[b].index = j - 1
            BY <1>1, <2>2, <2>3, <2>4, <2>6, <4>1
          <5> QED
            BY <5>1
        <4>2. CASE j # gone + 1
          <5>0. j \in 1 .. n
            BY <1>1, <2>3
          <5>1. PICK k \in 1 .. m : tcpClients[k].index = j - 1
            BY <5>0 DEF ArraysInv
          <5>2. tcpClients[k].index # gone /\ tcpClients[k].index # n - 1
            BY <1>1, <2>3, <4>2, <5>0, <5>1
          <5>3. k # i /\ k # b
            BY <1>1, <2>4, <5>2
          <5>4. fixed[k].index = tcpClients[k].index
            BY <2>6, <5>3
          <5> QED
            BY <5>1, <5>3, <5>4
        <4> QED
          BY <4>1, <4>2
      <3>2. PICK k \in 1 .. m : k # i /\ fixed[k].index = j - 1
        BY <3>1
      <3>3. PICK u \in 1 .. m - 1 : From(u, i, m) = k
        BY <1>0, <3>2
      <3> QED
        BY <2>7, <3>2, <3>3
    <2> QED
      BY <2>8, <2>12, <2>13, <2>14 DEF ArraysInv
  <1> QED
    BY <1>2, <1>3

\* tcp_client_init
LEMMA ClientAdded ==
  ASSUME ArraysInv, TcpAccept
  PROVE  ArraysInv'
  <1> DEFINE m == Len(tcpClients)
             c == [conn |-> accepted + 1, index |-> -1]
  <1>1. /\ tcpClients \in Seq(TcpRecord) /\ m \in Nat /\ accepted \in Nat
        /\ serverList' = serverList /\ accepted' = accepted + 1 /\ tcpClients' = Append(tcpClients, c)
    BY ArrayFacts DEF TcpAccept, ArraysInv, TcpTypes
  <1>2. c \in TcpRecord /\ c.index = -1
    BY <1>1 DEF TcpRecord
  <1> HIDE DEF c
  <1>3. /\ tcpClients' \in Seq(TcpRecord) /\ Len(tcpClients') = m + 1
        /\ \A k \in 1 .. m : tcpClients'[k] = tcpClients[k]
        /\ tcpClients'[m + 1] = c
    BY <1>1, <1>2, AppendProperties
  <1>4. \A k \in 1 .. Len(tcpClients') : tcpClients'[k].index # -1 => k \in 1 .. m
    BY <1>1, <1>2, <1>3
  <1>5. \A k \in 1 .. m : k \in 1 .. Len(tcpClients')
    BY <1>1, <1>3
  <1> HIDE DEF m
  <1>6. TcpTypes'
    BY <1>1, <1>3 DEF TcpTypes, TcpRecord, ArraysInv
  <1>7. \A k \in 1 .. Len(tcpClients') : tcpClients'[k].index # -1 =>
          /\ tcpClients'[k].index \in 0 .. Len(serverList') - 1
          /\ serverList'[tcpClients'[k].index + 1].conn = tcpClients'[k].conn
    BY <1>1, <1>3, <1>4 DEF ArraysInv, m
  <1>8. \A k, j \in 1 .. Len(tcpClients') :
          tcpClients'[k].index = tcpClients'[j].index /\ tcpClients'[k].index # -1 => k = j
    BY <1>3, <1>4 DEF ArraysInv, m
  <1>9. ASSUME NEW j \in 1 .. Len(serverList')
        PROVE  \E k \in 1 .. Len(tcpClients') : tcpClients'[k].index = j - 1
    <2>1. PICK k \in 1 .. m : tcpClients[k].index = j - 1
      BY <1>1 DEF ArraysInv, m
    <2> QED
      BY <1>3, <1>5, <2>1
  <1> QED
    BY <1>6, <1>7, <1>8, <1>9 DEF ArraysInv

\* server_list_update_by_index
LEMMA StatusUpdated ==
  ASSUME ArraysInv, NEW i \in DOMAIN tcpClients, HandleServerStatus(i)
  PROVE  ArraysInv'
  <1> DEFINE k == tcpClients[i].index + 1
             e == [serverList[k] EXCEPT !.status = "Up"]
  <1>1. /\ serverList \in Seq(Listing) /\ DOMAIN serverList = 1 .. Len(serverList)
        /\ \A j \in 1 .. Len(serverList) : serverList[j] \in Listing
        /\ tcpClients' = tcpClients /\ accepted' = accepted
    BY ArrayFacts DEF HandleServerStatus
  <1>2. CASE k \notin DOMAIN serverList
    <2>1. serverList' = serverList
      BY <1>2 DEF HandleServerStatus
    <2> QED
      BY <1>1, <2>1 DEF ArraysInv, TcpTypes
  <1>3. CASE k \in DOMAIN serverList
    <2>1. serverList' = [serverList EXCEPT ![k] = e]
      BY <1>3 DEF HandleServerStatus
    <2>2. e \in Listing /\ e.conn = serverList[k].conn
      BY <1>1, <1>3 DEF Listing
    <2> HIDE DEF e, k
    <2>3. /\ serverList' \in Seq(Listing) /\ Len(serverList') = Len(serverList)
          /\ \A j \in 1 .. Len(serverList) : serverList'[j] = IF j = k THEN e ELSE serverList[j]
      BY <1>1, <1>3, <2>1, <2>2, ExceptSeq
    <2>4. \A j \in 1 .. Len(serverList) : serverList'[j].conn = serverList[j].conn
      BY <2>2, <2>3
    <2>5. TcpTypes'
      BY <1>1, <2>3 DEF TcpTypes, Listing, ArraysInv
    <2>6. ASSUME NEW j \in 1 .. Len(tcpClients'), tcpClients'[j].index # -1
          PROVE  /\ tcpClients'[j].index \in 0 .. Len(serverList') - 1
                 /\ serverList'[tcpClients'[j].index + 1].conn = tcpClients'[j].conn
      <3>1. /\ tcpClients[j].index \in 0 .. Len(serverList) - 1
            /\ serverList[tcpClients[j].index + 1].conn = tcpClients[j].conn
        BY <1>1, <2>6 DEF ArraysInv
      <3>2. tcpClients[j].index + 1 \in 1 .. Len(serverList)
        BY <3>1, ArrayFacts
      <3> QED
        BY <1>1, <2>3, <2>4, <3>1, <3>2
    <2> QED
      BY <1>1, <2>3, <2>5, <2>6 DEF ArraysInv
  <1> QED
    BY <1>2, <1>3

-----------------------------------------------------------------------------
(* Every step keeps both invariants. *)

LEMMA ClientsUnchanged ==
  ASSUME ClientsInv, UNCHANGED <<playerVars, issued>>
  PROVE  ClientsInv'
  <1> USE DEF playerVars
  <1>1. \A p \in Players : PlayerInv(p)'
    BY DEF ClientsInv, PlayerInv, Connected, HasJob, HasAccount, AccountId
  <1>2. PlayerTypes' /\ ListInv' /\ TableInv' /\ KeysInv'
    BY DEF ClientsInv, PlayerTypes, ListInv, TableInv, KeysInv
  <1>3. JobsInv'
    BY DEF ClientsInv, JobsInv, HasAccount
  <1> QED
    BY <1>1, <1>2, <1>3 DEF ClientsInv

LEMMA ArraysUnchanged ==
  ASSUME ArraysInv, UNCHANGED <<accepted, serverList, tcpClients>>
  PROVE  ArraysInv'
  BY DEF ArraysInv, TcpTypes

LEMMA LoginInit == Init => ClientsInv /\ ArraysInv
  <1> SUFFICES ASSUME Init PROVE ClientsInv /\ ArraysInv
    OBVIOUS
  <1>1. Freed \in ClientRecord /\ Freed.refs = 0 /\ Freed.state = "none"
    BY DEF Freed, NewClient, ClientRecord, States
  <1>2. PlayerTypes
    BY <1>1 DEF Init, PlayerTypes
  <1>3. \A p \in Players : PlayerInv(p)
    BY <1>1 DEF Init, PlayerInv, Connected, HasJob
  <1>4. KeysInv
    BY FS_EmptySet DEF Init, KeysInv
  <1>5. JobsInv /\ ListInv /\ TableInv
    BY DEF Init, JobsInv, ListInv, TableInv
  <1>6. ArraysInv
    BY DEF Init, ArraysInv, TcpTypes
  <1> QED
    BY <1>2, <1>3, <1>4, <1>5, <1>6 DEF ClientsInv

\* A step of the players' side leaves the arrays alone; the servers' side, but
\* for the answer to a login request, leaves the clients alone.
LEMMA LoginNext ==
  ASSUME ClientsInv, ArraysInv, [Next]_vars
  PROVE  ClientsInv' /\ ArraysInv'
  <1>1. CASE UNCHANGED vars
    BY <1>1, ClientsUnchanged, ArraysUnchanged DEF vars, serverVars
  <1>2. ASSUME NEW p \in Players, Connect(p) \/ Disconnect(p) \/ HandleVersion(p)
        PROVE  ClientsInv' /\ ArraysInv'
    <2>1. UNCHANGED <<accepted, serverList, tcpClients>>
      BY <1>2 DEF Connect, Disconnect, HandleVersion, serverVars
    <2> QED
      BY <1>2, <2>1, PlayerStep, ArraysUnchanged
  <1>3. ASSUME NEW p \in Players, NEW pass \in Passwords, NEW tooLong \in BOOLEAN,
               HandleCredentials(p, pass, tooLong)
        PROVE  ClientsInv' /\ ArraysInv'
    <2>1. UNCHANGED <<accepted, serverList, tcpClients>>
      BY <1>3 DEF HandleCredentials, serverVars
    <2> QED
      BY <1>3, <2>1, CredentialsStep, ArraysUnchanged
  <1>4. ASSUME NEW p \in Players, HandleBanner(p) \/ HandleServerList(p) \/ HandleSessionKey(p)
        PROVE  ClientsInv' /\ ArraysInv'
    BY <1>1, <1>4 DEF HandleBanner, HandleServerList, HandleSessionKey
  <1>5. ASSUME NEW p \in Players, NEW s \in Servers, HandleStatusRequest(p, s)
        PROVE  ClientsInv' /\ ArraysInv'
    BY <1>5, ClientsUnchanged, ArraysUnchanged DEF HandleStatusRequest
  <1>6. ASSUME NEW job \in jobs, Execute(job)
        PROVE  ClientsInv' /\ ArraysInv'
    <2>1. UNCHANGED <<accepted, serverList, tcpClients>>
      BY <1>6 DEF Execute, serverVars
    <2> QED
      BY <1>6, <2>1, ExecuteStep, ArraysUnchanged
  <1>7. CASE Callback
    <2>1. PICK p \in Players : CredentialsCallback(p) \/ AutoCreateCallback(p)
      BY <1>7 DEF Callback
    <2>2. UNCHANGED <<accepted, serverList, tcpClients>>
      BY <2>1 DEF CredentialsCallback, AutoCreateCallback, serverVars
    <2> QED
      BY <2>1, <2>2, CallbackStep, ArraysUnchanged
  <1>8. CASE Server
    <2>1. UNCHANGED <<playerVars, accepted, serverList, tcpClients, issued>>
      BY <1>8 DEF Server, ServerConnect, ServerClose, ServerRespond
    <2> QED
      BY <2>1, ClientsUnchanged, ArraysUnchanged
  <1>9. CASE TcpAccept
    <2>1. UNCHANGED <<playerVars, issued>>
      BY <1>9 DEF TcpAccept
    <2> QED
      BY <1>9, <2>1, ClientsUnchanged, ClientAdded
  <1>10. ASSUME NEW k \in DOMAIN conns, TcpRecv(k)
         PROVE  ClientsInv' /\ ArraysInv'
    <2>1. PICK i \in DOMAIN tcpClients :
            \/ HandleNewLoginServer(i) \/ HandleServerStatus(i) \/ HandleLoginResponse(i)
            \/ HandleClosedClient(i)
      BY <1>10 DEF TcpRecv
    <2>2. CASE HandleLoginResponse(i)
      <3>1. UNCHANGED <<accepted, serverList, tcpClients>>
        BY <2>2 DEF HandleLoginResponse
      <3> QED
        BY <2>2, <3>1, ResponseStep, ArraysUnchanged
    <2>3. CASE ~HandleLoginResponse(i)
      <3>1. UNCHANGED <<playerVars, issued>>
        BY <2>1, <2>3 DEF HandleNewLoginServer, HandleServerStatus, HandleClosedClient
      <3> QED
        BY <2>1, <2>3, <3>1, ClientsUnchanged, ListingAdded, StatusUpdated, ClientClosed
    <2> QED
      BY <2>2, <2>3
  <1> QED
    BY <1>1, <1>2, <1>3, <1>4, <1>5, <1>6, <1>7, <1>8, <1>9, <1>10 DEF Next, HandlePacket

\* Both inductive invariants hold in every state.
THEOREM LoginInvariant == Spec => [](ClientsInv /\ ArraysInv)
  <1>1. Init => ClientsInv /\ ArraysInv
    BY LoginInit
  <1>2. ClientsInv /\ ArraysInv /\ [Next]_vars => (ClientsInv /\ ArraysInv)'
    BY LoginNext
  <1> QED
    BY <1>1, <1>2, PTL DEF Spec

\* login_client_drop never frees a client that its connection, a query or the
\* client list still refers to, and the list has the ids of the clients.
THEOREM NoDanglingHolds == Spec => []NoDanglingClient
  <1>1. ASSUME ClientsInv
        PROVE  NoDanglingClient
    <2>1. \A job \in jobs : job.client \in Players /\ HasJob(job.client)
      BY <1>1 DEF ClientsInv, PlayerTypes, JobRecord, HasJob
    <2>2. \A p \in Players : client[p].refs \in Nat
      BY <1>1 DEF ClientsInv, PlayerTypes, ClientRecord
    <2>3. ASSUME NEW p \in Players, Connected(p) \/ HasJob(p)
          PROVE  client[p].refs > 0
      <3>1. PlayerInv(p)
        BY <1>1 DEF ClientsInv
      <3>2. client[p].refs >= 1
        BY <2>3, <3>1 DEF PlayerInv
      <3> QED
        BY <2>2, <3>2
    <2>4. \A e \in clientList : client[e.client].refs > 0 /\ client[e.client].id = e.id
      BY <1>1 DEF ClientsInv, ListInv
    <2> QED
      BY <2>1, <2>3, <2>4 DEF NoDanglingClient
  <1> QED
    BY <1>1, LoginInvariant, PTL

\* A TcpClient's index is that of the listing its own server registered, and
\* every listing has a TcpClient, whatever order connections close in.
THEOREM IndexConsistentHolds == Spec => []IndexConsistent
  <1>1. ASSUME ArraysInv
        PROVE  IndexConsistent
    <2>1. /\ Len(serverList) \in Nat /\ DOMAIN tcpClients = 1 .. Len(tcpClients)
          /\ DOMAIN serverList = 1 .. Len(serverList)
          /\ \A i \in 1 .. Len(tcpClients) : tcpClients[i].index \in Int
      BY <1>1, ArrayFacts
    <2>2. \A i \in DOMAIN tcpClients : tcpClients[i].index # -1 =>
            /\ tcpClients[i].index \in 0 .. Len(serverList) - 1
            /\ serverList[tcpClients[i].index + 1].conn = tcpClients[i].conn
      BY <1>1, <2>1 DEF ArraysInv
    <2>3. \A x \in 0 .. Len(serverList) - 1 : x + 1 \in DOMAIN serverList
      BY <2>1
    <2>4. \A j \in DOMAIN serverList : \E i \in DOMAIN tcpClients : tcpClients[i].index = j - 1
      BY <1>1, <2>1 DEF ArraysInv
    <2> QED
      BY <2>2, <2>3, <2>4 DEF IndexConsistent
  <1> QED
    BY <1>1, LoginInvariant, PTL

\* A player that was told it is accepted has a key that a server was sent for
\* the player's own account, and the servers are sent every key once.
THEOREM AcceptedHolds == Spec => []AcceptedWithItsKey
  <1>1. ASSUME ClientsInv
        PROVE  AcceptedWithItsKey
    <2>1. ASSUME NEW p \in Players, "Accept" \in told[p], client[p].refs > 0
          PROVE  [id |-> AccountId(user[p]), key |-> client[p].key] \in issued
      BY <1>1, <2>1 DEF ClientsInv, PlayerInv
    <2>2. \A a, b \in issued : a.key = b.key => a = b
      BY <1>1 DEF ClientsInv, KeysInv
    <2> QED
      BY <2>1, <2>2 DEF AcceptedWithItsKey
  <1> QED
    BY <1>1, LoginInvariant, PTL
=============================================================================
