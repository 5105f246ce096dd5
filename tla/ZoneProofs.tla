------------------------------ MODULE ZoneProofs ------------------------------
(***************************************************************************)
(* Proofs about Zone, whatever order zones start and clients are           *)
(* announced, connect, enter, reconnect, go linkdead and leave in: the     *)
(* indices, entity ids and tables of the zone cluster agree, the           *)
(* references of a client are its holders, and every listing that is not   *)
(* linkdead has a connection.                                              *)
(*                                                                         *)
(* The functions of the code are operators from a memory to a memory, and  *)
(* so are the lemmas: for each operator a predicate says what it changes   *)
(* (ClientRemoved, MobSpawned, Entered, WentLinkdead, DeadRemoved...), a   *)
(* lemma ("...Is") shows that it does, and a lemma ("Sound..." or          *)
(* "...Sound") that it keeps a sound memory sound.  The second half does   *)
(* the same for the references: "Core..." for the counts and the owners,   *)
(* "Listings..." for the array of connected clients, "...Exact" for each   *)
(* action.                                                                 *)
(***************************************************************************)
EXTENDS Zone, FiniteSetTheorems, SequenceTheorems, TLAPS

-----------------------------------------------------------------------------
(* The inductive invariant, of a memory s in which nothing has failed *)

ClientRecord == [name : Names \cup {None}, zone : Zones \cup {None}, refs : Int,
                 handler : Conns \cup {None}, loaded : SUBSET AllLoaded,
                 linkdead : BOOLEAN, index : Nat]
HandlerRecord == [refs : Int, index : Nat, obj : Clients \cup {None},
                  dead : BOOLEAN, ignore : BOOLEAN]
ListRecord == [client : Clients, linkdead : BOOLEAN]
ConnectedRecord == [client : Clients, handler : Conns \cup {None}]
ZoneRecord == [ents : Seq(Mobs \cup {None}), mobs : Seq(Mobs),
               list : Seq(ListRecord)]

Faults == {"none", "expected timer", "no handler", "freed stub", "broadcast", "stub", "freed client"}

Memory == [client : [Clients -> ClientRecord], mob : [Mobs -> [entity : Nat, index : Nat]],
           npcs : Nat, zoneList : SUBSET Zones, zone : [Zones -> ZoneRecord \cup {None}],
           expected : [Names -> Clients \cup {None}], byName : [Names -> Clients \cup {None}],
           connected : Seq(ConnectedRecord),
           expectTimers : SUBSET Clients, lingers : SUBSET Clients,
           queries : SUBSET (Clients \X (Tables \cup {"stats", "skills"})),
           udp : Seq(Conns), handler : [Conns -> HandlerRecord],
           freedStubs : SUBSET Conns, fault : Faults]

\* The connection c is an entry of the socket.
Open(s, c) == \E i \in DOMAIN s.udp : s.udp[i] = c

Sockets(s, pl) ==
    /\ \A i \in DOMAIN s.udp : s.handler[s.udp[i]].index = i
    /\ \A c \in Conns : /\ pl[c] = "here" => Open(s, c)
                        /\ pl[c] = "away" => ~Open(s, c)
                        /\ s.handler[c].dead => pl[c] = "gone"

\* Who is known to whom
Born(s, k) == s.client[k].name # None

Known(s) ==
    /\ \A k \in Clients : IF Born(s, k) THEN s.client[k].zone \in s.zoneList
                                         ELSE s.client[k].zone = None
    /\ \A c \in Conns : s.handler[c].obj # None => Born(s, s.handler[c].obj)
    /\ \A n \in Names : s.expected[n] # None => s.client[s.expected[n]].name = n
    /\ s.npcs <= MaxNpcs

Entities(s, z) == {i \in DOMAIN s.zone[z].ents : s.zone[z].ents[i] # None}

\* Every mob is found by its index and by its entity id, and is in one zone.
MobLists(s) ==
    /\ \A z \in s.zoneList :
         /\ s.zone[z] \in ZoneRecord
         /\ \A i \in DOMAIN s.zone[z].mobs :
              LET m == s.zone[z].mobs[i] IN
              /\ s.mob[m].index = i
              /\ s.mob[m].entity \in DOMAIN s.zone[z].ents /\ s.zone[z].ents[s.mob[m].entity] = m
         /\ Cardinality(Entities(s, z)) = Len(s.zone[z].mobs)
    /\ \A z, y \in s.zoneList : \A i \in DOMAIN s.zone[z].mobs, j \in DOMAIN s.zone[y].mobs :
         s.zone[z].mobs[i] = s.zone[y].mobs[j] => z = y
    /\ \A m \in Mobs : m > MaxClients + s.npcs => s.mob[m].entity = 0

\* Client k is in the list of its zone, and is found by its index.
ClientIn(s, k) ==
    LET z == s.client[k].zone IN
    /\ z \in s.zoneList
    /\ s.client[k].index \in DOMAIN s.zone[z].list
    /\ s.zone[z].list[s.client[k].index].client = k
    /\ s.mob[k].index \in DOMAIN s.zone[z].mobs
    /\ s.zone[z].mobs[s.mob[k].index] = k

IsListed(s, k) == \E i \in DOMAIN s.connected : s.connected[i].client = k

ClientLists(s) ==
    /\ \A z \in s.zoneList : \A i \in DOMAIN s.zone[z].list :
         LET k == s.zone[z].list[i].client IN
         s.client[k].index = i /\ s.client[k].zone = z /\ IsListed(s, k)
    /\ \A i \in DOMAIN s.connected :
         LET k == s.connected[i].client IN
         /\ ClientIn(s, k) /\ s.client[k].name # None /\ s.byName[s.client[k].name] = k
         /\ \A j \in DOMAIN s.connected : s.connected[j].client = k => j = i
    /\ \A n \in Names : s.byName[n] # None =>
         IsListed(s, s.byName[n]) /\ s.client[s.byName[n]].name = n

-----------------------------------------------------------------------------
\* The memory's fields
LEMMA Fields ==
  ASSUME NEW s \in Memory
  PROVE  /\ s.client \in [Clients -> ClientRecord]
         /\ s.mob \in [Mobs -> [entity : Nat, index : Nat]] /\ s.npcs \in Nat
         /\ s.zoneList \in SUBSET Zones /\ s.zone \in [Zones -> ZoneRecord \cup {None}]
         /\ s.expected \in [Names -> Clients \cup {None}] /\ s.byName \in [Names -> Clients \cup {None}]
         /\ s.connected \in Seq(ConnectedRecord)
         /\ s.expectTimers \in SUBSET Clients /\ s.lingers \in SUBSET Clients
         /\ s.queries \in SUBSET (Clients \X (Tables \cup {"stats", "skills"}))
         /\ s.udp \in Seq(Conns) /\ s.handler \in [Conns -> HandlerRecord]
         /\ s.freedStubs \in SUBSET Conns /\ s.fault \in Faults
  BY DEF Memory

SameLists(s, t) ==
    /\ t.mob = s.mob /\ t.npcs = s.npcs /\ t.zoneList = s.zoneList /\ t.zone = s.zone
    /\ t.byName = s.byName /\ t.connected = s.connected

SameWaits(s, t) ==
    /\ t.expected = s.expected /\ t.expectTimers = s.expectTimers /\ t.lingers = s.lingers
    /\ t.queries = s.queries /\ t.freedStubs = s.freedStubs

\* What is the same in every handler but its references
SameHandlers(s, t) ==
    \A c \in Conns : /\ t.handler[c].index = s.handler[c].index
                     /\ t.handler[c].obj = s.handler[c].obj
                     /\ t.handler[c].dead = s.handler[c].dead
                     /\ t.handler[c].ignore = s.handler[c].ignore

\* What is the same in every client but its references
SameClients(s, t) ==
    \A k \in Clients : /\ t.client[k].name = s.client[k].name
                       /\ t.client[k].zone = s.client[k].zone
                       /\ t.client[k].handler = s.client[k].handler
                       /\ t.client[k].loaded = s.client[k].loaded
                       /\ t.client[k].linkdead = s.client[k].linkdead
                       /\ t.client[k].index = s.client[k].index

\* Writing the references of a handler changes no other field of it.
LEMMA RefsOfHandler ==
  ASSUME NEW h \in HandlerRecord, NEW x \in Int
  PROVE  /\ [h EXCEPT !.refs = x] \in HandlerRecord /\ [h EXCEPT !.refs = x].refs = x
         /\ [h EXCEPT !.refs = x].index = h.index /\ [h EXCEPT !.refs = x].obj = h.obj
         /\ [h EXCEPT !.refs = x].dead = h.dead /\ [h EXCEPT !.refs = x].ignore = h.ignore
  BY DEF HandlerRecord

\* Writing the references of a client changes no other field of it.
LEMMA RefsOfClient ==
  ASSUME NEW h \in ClientRecord, NEW x \in Int
  PROVE  /\ [h EXCEPT !.refs = x] \in ClientRecord /\ [h EXCEPT !.refs = x].refs = x
         /\ [h EXCEPT !.refs = x].name = h.name /\ [h EXCEPT !.refs = x].zone = h.zone
         /\ [h EXCEPT !.refs = x].handler = h.handler /\ [h EXCEPT !.refs = x].loaded = h.loaded
         /\ [h EXCEPT !.refs = x].linkdead = h.linkdead /\ [h EXCEPT !.refs = x].index = h.index
  BY DEF ClientRecord

\* protocol_handler_drop
LEMMA HandlerDropIs ==
  ASSUME NEW s \in Memory, NEW c
  PROVE  LET t == HandlerDrop(s, c) IN
         /\ t \in Memory /\ SameLists(s, t) /\ SameWaits(s, t) /\ SameHandlers(s, t)
         /\ t.client = s.client /\ t.udp = s.udp /\ t.fault = s.fault
         /\ \A d \in Conns : t.handler[d].refs = IF d = c THEN s.handler[d].refs - 1 ELSE s.handler[d].refs
  <1> DEFINE x == s.handler[c].refs - 1
             h == [s.handler EXCEPT ![c] = [s.handler[c] EXCEPT !.refs = x]]
             t == [s EXCEPT !.handler = h]
  <1>1. HandlerDrop(s, c) = t
    BY DEF HandlerDrop, Memory
  <1>2. s.handler \in [Conns -> HandlerRecord]
    BY Fields
  <1>3. \A d \in Conns : h[d] = IF d = c THEN [s.handler[d] EXCEPT !.refs = s.handler[d].refs - 1] ELSE s.handler[d]
    BY <1>2
  <1>4. ASSUME NEW d \in Conns
        PROVE  /\ h[d] \in HandlerRecord
               /\ h[d].index = s.handler[d].index /\ h[d].obj = s.handler[d].obj
               /\ h[d].dead = s.handler[d].dead /\ h[d].ignore = s.handler[d].ignore
               /\ h[d].refs = IF d = c THEN s.handler[d].refs - 1 ELSE s.handler[d].refs
    <2>1. s.handler[d] \in HandlerRecord /\ s.handler[d].refs - 1 \in Int
      BY <1>2 DEF HandlerRecord
    <2>2. CASE d = c
      <3>1. h[d] = [s.handler[d] EXCEPT !.refs = s.handler[d].refs - 1]
        BY <1>3, <2>2
      <3> HIDE DEF h
      <3> QED
        BY <2>1, <2>2, <3>1, RefsOfHandler
    <2>3. CASE d # c
      <3>1. h[d] = s.handler[d]
        BY <1>3, <2>3
      <3> HIDE DEF h
      <3> QED
        BY <2>1, <2>3, <3>1
    <2> QED
      BY <2>2, <2>3
  <1>5. h \in [Conns -> HandlerRecord]
    <2>1. h = [d \in Conns |-> h[d]]
      BY <1>2
    <2> HIDE DEF h
    <2> QED
      BY <1>4, <2>1
  <1> HIDE DEF h
  <1>6. t \in Memory /\ t.handler = h
    BY <1>5 DEF Memory
  <1>7. SameLists(s, t) /\ SameWaits(s, t) /\ t.client = s.client /\ t.udp = s.udp /\ t.fault = s.fault
    BY DEF SameLists, SameWaits, Memory
  <1>8. SameHandlers(s, t)
    BY <1>4, <1>6 DEF SameHandlers
  <1> QED
    BY <1>1, <1>4, <1>6, <1>7, <1>8

\* client_drop
LEMMA DropIs ==
  ASSUME NEW s \in Memory, NEW k \in Clients
  PROVE  LET t == Drop(s, k) IN
         /\ t \in Memory /\ SameLists(s, t) /\ SameWaits(s, t)
         /\ SameHandlers(s, t) /\ SameClients(s, t)
         /\ t.udp = s.udp /\ t.fault = s.fault
         /\ \A j \in Clients : t.client[j].refs = IF j = k THEN s.client[j].refs - 1 ELSE s.client[j].refs
         /\ \A d \in Conns : t.handler[d].refs =
              IF d = s.client[k].handler /\ s.client[k].refs <= 1
                THEN s.handler[d].refs - 1 ELSE s.handler[d].refs
  <1> DEFINE x == s.client[k].refs - 1
             f == [s.client EXCEPT ![k] = [s.client[k] EXCEPT !.refs = x]]
             u == [s EXCEPT !.client = f]
             t == Drop(s, k)
  <1>1. t = IF s.client[k].refs > 1 \/ s.client[k].handler = None THEN u ELSE HandlerDrop(u, s.client[k].handler)
    BY DEF Drop, Memory
  <1>2. s.client \in [Clients -> ClientRecord] /\ s.client[k] \in ClientRecord /\ s.client[k].refs \in Int
    BY Fields DEF ClientRecord
  <1>3. \A j \in Clients : f[j] = IF j = k THEN [s.client[j] EXCEPT !.refs = s.client[j].refs - 1] ELSE s.client[j]
    BY <1>2
  <1>4. ASSUME NEW j \in Clients
        PROVE  /\ f[j] \in ClientRecord
               /\ f[j].name = s.client[j].name /\ f[j].zone = s.client[j].zone
               /\ f[j].handler = s.client[j].handler /\ f[j].loaded = s.client[j].loaded
               /\ f[j].linkdead = s.client[j].linkdead /\ f[j].index = s.client[j].index
               /\ f[j].refs = IF j = k THEN s.client[j].refs - 1 ELSE s.client[j].refs
    <2>1. s.client[j] \in ClientRecord /\ s.client[j].refs - 1 \in Int
      BY <1>2 DEF ClientRecord
    <2>2. CASE j = k
      <3>1. f[j] = [s.client[j] EXCEPT !.refs = s.client[j].refs - 1]
        BY <1>3, <2>2
      <3> HIDE DEF f
      <3> QED
        BY <2>1, <2>2, <3>1, RefsOfClient
    <2>3. CASE j # k
      <3>1. f[j] = s.client[j]
        BY <1>3, <2>3
      <3> HIDE DEF f
      <3> QED
        BY <2>1, <2>3, <3>1
    <2> QED
      BY <2>2, <2>3
  <1>5. f \in [Clients -> ClientRecord]
    <2>1. f = [d \in Clients |-> f[d]]
      BY <1>2
    <2> HIDE DEF f
    <2> QED
      BY <1>4, <2>1
  <1> HIDE DEF f
  <1>6. u \in Memory /\ u.client = f
    BY <1>5 DEF Memory
  <1>7. SameLists(s, u) /\ SameWaits(s, u) /\ u.handler = s.handler /\ u.udp = s.udp /\ u.fault = s.fault
    BY DEF SameLists, SameWaits, Memory
  <1> HIDE DEF t, u
  <1>8. CASE s.client[k].refs > 1 \/ s.client[k].handler = None
    <2>1. t = u
      BY <1>1, <1>8
    <2>2. SameHandlers(s, t) /\ SameClients(s, t)
      BY <1>4, <1>6, <1>7, <2>1 DEF SameHandlers, SameClients
    <2>3. \A d \in Conns : ~(d = s.client[k].handler /\ s.client[k].refs <= 1)
      BY <1>2, <1>8, ZoneAssumption DEF Conns
    <2> QED
      BY <1>4, <1>6, <1>7, <2>1, <2>2, <2>3 DEF t
  <1>9. CASE ~(s.client[k].refs > 1 \/ s.client[k].handler = None)
    <2>1. t = HandlerDrop(u, s.client[k].handler)
      BY <1>1, <1>9
    <2>2. /\ t \in Memory /\ SameLists(u, t) /\ SameWaits(u, t) /\ SameHandlers(u, t)
          /\ t.client = u.client /\ t.udp = u.udp /\ t.fault = u.fault
          /\ \A d \in Conns : t.handler[d].refs =
               IF d = s.client[k].handler THEN u.handler[d].refs - 1 ELSE u.handler[d].refs
      BY <1>6, <2>1, HandlerDropIs
    <2>3. SameHandlers(s, t) /\ SameClients(s, t)
      BY <1>4, <1>6, <1>7, <2>2 DEF SameHandlers, SameClients
    <2>4. SameLists(s, t) /\ SameWaits(s, t)
      BY <1>7, <2>2 DEF SameLists, SameWaits
    <2>5. s.client[k].refs <= 1
      BY <1>2, <1>9
    <2> QED
      BY <1>4, <1>6, <1>7, <2>2, <2>3, <2>4, <2>5 DEF t
  <1> QED
    BY <1>8, <1>9

-----------------------------------------------------------------------------
(* Arrays *)

\* Where the element now at j was, before k of n elements was swapped and popped
From(j, k, n) == IF j = k THEN n ELSE j

\* The places that are left after a swap-and-pop at k come from all others, once each.
LEMMA FromProperties ==
  ASSUME NEW n \in Nat, NEW k \in 1 .. n
  PROVE  /\ \A j \in 1 .. n - 1 : From(j, k, n) \in 1 .. n /\ From(j, k, n) # k
         /\ \A i, j \in 1 .. n - 1 : From(i, k, n) = From(j, k, n) => i = j
         /\ \A i \in 1 .. n : i # k => \E j \in 1 .. n - 1 : From(j, k, n) = i
  <1>1. \A j \in 1 .. n - 1 : From(j, k, n) \in 1 .. n /\ From(j, k, n) # k
    BY DEF From
  <1>2. \A i, j \in 1 .. n - 1 : From(i, k, n) = From(j, k, n) => i = j
    BY DEF From
  <1>3. ASSUME NEW i \in 1 .. n, i # k
        PROVE  \E j \in 1 .. n - 1 : From(j, k, n) = i
    <2>1. CASE i = n
      <3>1. k \in 1 .. n - 1 /\ From(k, k, n) = i
        BY <1>3, <2>1 DEF From
      <3> QED
        BY <3>1
    <2>2. CASE i # n
      <3>1. i \in 1 .. n - 1 /\ From(i, k, n) = i
        BY <1>3, <2>2 DEF From
      <3> QED
        BY <3>1
    <2> QED
      BY <2>1, <2>2
  <1> QED
    BY <1>1, <1>2, <1>3

\* array_swap_and_pop
LEMMA SwappedAndPopped ==
  ASSUME NEW S, NEW s \in Seq(S), NEW k \in 1 .. Len(s)
  PROVE  /\ SwapAndPop(s, k) \in Seq(S) /\ Len(SwapAndPop(s, k)) = Len(s) - 1
         /\ \A j \in 1 .. Len(s) - 1 : SwapAndPop(s, k)[j] = s[From(j, k, Len(s))]
  <1> DEFINE n == Len(s)
             t == [s EXCEPT ![k] = s[n]]
  <1>1. n \in Nat \ {0} /\ DOMAIN s = 1 .. n /\ \A j \in 1 .. n : s[j] \in S
    BY LenProperties, ElementOfSeq
  <1>2. \A j \in 1 .. n - 1 : t[j] = s[From(j, k, n)] /\ t[j] \in S
    BY <1>1 DEF From
  <1>3. SwapAndPop(s, k) = SubSeq(t, 1, n - 1)
    BY DEF SwapAndPop
  <1> HIDE DEF t, n
  <1>4. /\ SubSeq(t, 1, n - 1) \in Seq(S)
        /\ Len(SubSeq(t, 1, n - 1)) = IF 1 <= n - 1 THEN n - 1 - 1 + 1 ELSE 0
        /\ \A j \in 1 .. n - 1 - 1 + 1 : SubSeq(t, 1, n - 1)[j] = t[1 + j - 1]
    <2>1. 1 \in Int /\ n - 1 \in Int
      BY <1>1
    <2> QED
      BY <2>1, <1>2, SubSeqProperties
  <1> QED
    BY <1>1, <1>2, <1>3, <1>4 DEF n

\* The loops that look for the first match find one.
LEMMA LeastFound ==
  ASSUME NEW S \in SUBSET Nat, S # {}
  PROVE  Least(S) \in S
  <1> DEFINE R == {ss \in Nat \X Nat : ss[1] < ss[2]}
  <1>1. IsWellFoundedOn(R, Nat)
    BY NatLessThanWellFounded DEF OpToRel
  <1> HIDE DEF R
  <1>2. PICK x \in S : \A y \in S : ~(<<y, x>> \in R)
    BY <1>1, WFMin
  <1>3. ASSUME NEW y \in S
        PROVE  x <= y
    <2>1. x \in Nat /\ y \in Nat /\ <<y, x>> \notin R
      BY <1>2
    <2>2. ~(y < x)
      BY <2>1 DEF R
    <2> QED
      BY <2>1, <2>2
  <1> QED
    BY <1>3 DEF Least

\* The arrays of a zone are sequences over their elements.
LEMMA ZoneFacts ==
  ASSUME NEW r \in ZoneRecord
  PROVE  /\ r.ents \in Seq(Mobs \cup {None}) /\ Len(r.ents) \in Nat /\ DOMAIN r.ents = 1 .. Len(r.ents)
         /\ r.mobs \in Seq(Mobs) /\ Len(r.mobs) \in Nat /\ DOMAIN r.mobs = 1 .. Len(r.mobs)
         /\ r.list \in Seq(ListRecord) /\ Len(r.list) \in Nat /\ DOMAIN r.list = 1 .. Len(r.list)
         /\ \A i \in DOMAIN r.ents : r.ents[i] \in Mobs \cup {None}
         /\ \A i \in DOMAIN r.mobs : r.mobs[i] \in Mobs
         /\ \A i \in DOMAIN r.list : r.list[i] \in ListRecord /\ r.list[i].client \in Clients
  <1>1. r.ents \in Seq(Mobs \cup {None}) /\ r.mobs \in Seq(Mobs) /\ r.list \in Seq(ListRecord)
    BY DEF ZoneRecord
  <1>2. /\ Len(r.ents) \in Nat /\ DOMAIN r.ents = 1 .. Len(r.ents)
        /\ Len(r.mobs) \in Nat /\ DOMAIN r.mobs = 1 .. Len(r.mobs)
        /\ Len(r.list) \in Nat /\ DOMAIN r.list = 1 .. Len(r.list)
    BY <1>1, LenProperties
  <1>3. \A i \in DOMAIN r.list : r.list[i] \in ListRecord
    BY <1>1, <1>2, ElementOfSeq
  <1>4. \A i \in DOMAIN r.list : r.list[i].client \in Clients
    BY <1>3 DEF ListRecord
  <1> QED
    BY <1>1, <1>2, <1>3, <1>4, ElementOfSeq

\* Where the mobs of a zone are
LEMMA MobPlaces ==
  ASSUME NEW s \in Memory, MobLists(s)
  PROVE  \A y \in s.zoneList :
           /\ y \in Zones /\ s.zone[y] \in ZoneRecord
           /\ \A i \in DOMAIN s.zone[y].mobs :
                /\ s.zone[y].mobs[i] \in Mobs
                /\ s.mob[s.zone[y].mobs[i]].index = i
                /\ s.mob[s.zone[y].mobs[i]].entity \in DOMAIN s.zone[y].ents
                /\ s.zone[y].ents[s.mob[s.zone[y].mobs[i]].entity] = s.zone[y].mobs[i]
  <1> SUFFICES ASSUME NEW y \in s.zoneList
               PROVE  /\ y \in Zones /\ s.zone[y] \in ZoneRecord
                      /\ \A i \in DOMAIN s.zone[y].mobs :
                           /\ s.zone[y].mobs[i] \in Mobs
                           /\ s.mob[s.zone[y].mobs[i]].index = i
                           /\ s.mob[s.zone[y].mobs[i]].entity \in DOMAIN s.zone[y].ents
                           /\ s.zone[y].ents[s.mob[s.zone[y].mobs[i]].entity] = s.zone[y].mobs[i]
    BY Zenon
  <1>1. y \in Zones /\ s.zone[y] \in ZoneRecord
    BY Zenon, Fields DEF MobLists
  <1>2. \A i \in DOMAIN s.zone[y].mobs : s.zone[y].mobs[i] \in Mobs
    BY Zenon, <1>1, ZoneFacts
  <1>3. \A i \in DOMAIN s.zone[y].mobs :
          LET m == s.zone[y].mobs[i] IN
          /\ s.mob[m].index = i
          /\ s.mob[m].entity \in DOMAIN s.zone[y].ents /\ s.zone[y].ents[s.mob[m].entity] = m
    BY Zenon DEF MobLists
  <1> QED
    BY Zenon, <1>1, <1>2, <1>3

\* Whom an entry of a zone's list names
LEMMA ListPlaces ==
  ASSUME NEW s, ClientLists(s), NEW y \in s.zoneList, NEW i \in DOMAIN s.zone[y].list,
         NEW j, j = s.zone[y].list[i].client
  PROVE  s.client[j].index = i /\ s.client[j].zone = y /\ IsListed(s, j)
  <1>1. LET k == s.zone[y].list[i].client IN
        s.client[k].index = i /\ s.client[k].zone = y /\ IsListed(s, k)
    BY Zenon DEF ClientLists
  <1> QED
    BY Zenon, <1>1

\* Whom an entry of connectedClients names
LEMMA ConnectedPlaces ==
  ASSUME NEW s, ClientLists(s), NEW i \in DOMAIN s.connected, NEW j, j = s.connected[i].client
  PROVE  /\ ClientIn(s, j) /\ s.client[j].name # None /\ s.byName[s.client[j].name] = j
         /\ \A h \in DOMAIN s.connected : s.connected[h].client = j => h = i
  BY Zenon DEF ClientLists

\* The arrays of the cluster and of the socket are sequences over their elements.
LEMMA ConnectedFacts ==
  ASSUME NEW s \in Memory
  PROVE  /\ Len(s.connected) \in Nat /\ DOMAIN s.connected = 1 .. Len(s.connected)
         /\ \A i \in DOMAIN s.connected : /\ s.connected[i] \in ConnectedRecord
                                          /\ s.connected[i].client \in Clients
         /\ Len(s.udp) \in Nat /\ DOMAIN s.udp = 1 .. Len(s.udp)
         /\ \A i \in DOMAIN s.udp : s.udp[i] \in Conns
  <1>1. s.connected \in Seq(ConnectedRecord) /\ s.udp \in Seq(Conns)
    BY Fields
  <1>2. /\ Len(s.connected) \in Nat /\ DOMAIN s.connected = 1 .. Len(s.connected)
        /\ Len(s.udp) \in Nat /\ DOMAIN s.udp = 1 .. Len(s.udp)
    BY <1>1, LenProperties
  <1>3. \A i \in DOMAIN s.connected : s.connected[i] \in ConnectedRecord
    BY <1>1, <1>2, ElementOfSeq
  <1>4. \A i \in DOMAIN s.connected : s.connected[i].client \in Clients
    BY <1>3 DEF ConnectedRecord
  <1> QED
    BY <1>1, <1>2, <1>3, <1>4, ElementOfSeq

\* Clients are mobs; no mob and no connection is the null pointer.
LEMMA ClientIsMob == Clients \subseteq Mobs /\ Mobs \subseteq Nat \ {0} /\ None \notin Mobs /\ None \notin Conns
  BY ZoneAssumption DEF Clients, Mobs, Conns

-----------------------------------------------------------------------------
(* Writing to the memory *)

\* What lies outside the zones
SameButZones(s, t) ==
    /\ SameWaits(s, t) /\ t.mob = s.mob /\ t.npcs = s.npcs /\ t.zoneList = s.zoneList
    /\ t.byName = s.byName /\ t.connected = s.connected
    /\ t.client = s.client /\ t.udp = s.udp /\ t.handler = s.handler /\ t.fault = s.fault

\* What writing one element of a function does
LEMMA Updated ==
  ASSUME NEW A, NEW B, NEW f \in [A -> B], NEW a \in A, NEW b \in B
  PROVE  /\ [f EXCEPT ![a] = b] \in [A -> B] /\ [f EXCEPT ![a] = b][a] = b
         /\ \A x \in A : x # a => [f EXCEPT ![a] = b][x] = f[x]
  OBVIOUS

\* What writing one zone does to the memory
LEMMA ZoneWritten ==
  ASSUME NEW s \in Memory, NEW z \in Zones, NEW r \in ZoneRecord
  PROVE  LET t == [s EXCEPT !.zone = [s.zone EXCEPT ![z] = r]] IN
         /\ t \in Memory /\ SameButZones(s, t) /\ t.zone[z] = r
         /\ \A y \in Zones : y # z => t.zone[y] = s.zone[y]
  <1> DEFINE f == [s.zone EXCEPT ![z] = r]
             t == [s EXCEPT !.zone = f]
  <1>1. /\ f \in [Zones -> ZoneRecord \cup {None}] /\ f[z] = r
        /\ \A y \in Zones : y # z => f[y] = s.zone[y]
    BY Fields
  <1> HIDE DEF f
  <1>2. t \in Memory /\ t.zone = f
    BY <1>1 DEF Memory
  <1>3. SameButZones(s, t)
    BY DEF Memory, SameButZones, SameWaits
  <1> QED
    BY <1>1, <1>2, <1>3 DEF f

Put(f, e, x) == [f EXCEPT ![e] = x]

\* What writing one element of an array does
LEMMA PutInSeq ==
  ASSUME NEW S, NEW q \in Seq(S), NEW i \in DOMAIN q, NEW x \in S
  PROVE  /\ Put(q, i, x) \in Seq(S) /\ Len(Put(q, i, x)) = Len(q) /\ Put(q, i, x)[i] = x
         /\ DOMAIN Put(q, i, x) = DOMAIN q
         /\ \A j \in DOMAIN q : j # i => Put(q, i, x)[j] = q[j]
  <1>1. DOMAIN q = 1 .. Len(q)
    BY LenProperties
  <1>2. /\ Put(q, i, x) \in Seq(S) /\ Len(Put(q, i, x)) = Len(q) /\ Put(q, i, x)[i] = x
        /\ \A j \in 1 .. Len(q) : j # i => Put(q, i, x)[j] = q[j]
    BY <1>1, ExceptSeq DEF Put
  <1>3. DOMAIN Put(q, i, x) = 1 .. Len(Put(q, i, x))
    BY <1>2, LenProperties
  <1> QED
    BY <1>1, <1>2, <1>3

\* The three arrays of a zone written
WriteArrays(s, z, l, m, e, x) ==
    [s EXCEPT !.zone[z].list = l, !.zone[z].mobs = m, !.zone[z].ents[e] = x]

\* What writing the three arrays of a zone does
LEMMA ArraysWritten ==
  ASSUME NEW s \in Memory, NEW z \in Zones, s.zone[z] \in ZoneRecord,
         NEW l \in Seq(ListRecord), NEW m \in Seq(Mobs), NEW e, NEW x,
         Put(s.zone[z].ents, e, x) \in Seq(Mobs \cup {None}),
         NEW t, t = WriteArrays(s, z, l, m, e, x)
  PROVE
         /\ t \in Memory /\ SameButZones(s, t) /\ t.zone[z] \in ZoneRecord
         /\ t.zone[z].list = l /\ t.zone[z].mobs = m
         /\ t.zone[z].ents = Put(s.zone[z].ents, e, x)
         /\ \A y \in Zones : y # z => t.zone[y] = s.zone[y]
  <1> DEFINE a == [s EXCEPT !.zone[z].list = l]
             b == [a EXCEPT !.zone[z].mobs = m]
             c == [b EXCEPT !.zone[z].ents[e] = x]
  <1>1. t = c
    BY DEF WriteArrays
  <1>2. /\ a \in Memory /\ SameButZones(s, a) /\ a.zone[z] \in ZoneRecord
        /\ a.zone[z].list = l /\ a.zone[z].mobs = s.zone[z].mobs /\ a.zone[z].ents = s.zone[z].ents
        /\ \A y \in Zones : y # z => a.zone[y] = s.zone[y]
    <2> DEFINE r == [s.zone[z] EXCEPT !.list = l]
    <2>1. a = [s EXCEPT !.zone = [s.zone EXCEPT ![z] = r]]
      BY DEF Memory
    <2>2. /\ r \in ZoneRecord
          /\ r.list = l /\ r.mobs = s.zone[z].mobs /\ r.ents = s.zone[z].ents
      BY DEF ZoneRecord
    <2> HIDE DEF r, a
    <2> DEFINE q == [s EXCEPT !.zone = [s.zone EXCEPT ![z] = r]]
    <2>3. /\ q \in Memory /\ SameButZones(s, q) /\ q.zone[z] = r
          /\ \A y \in Zones : y # z => q.zone[y] = s.zone[y]
      BY ZenonT(30), <2>2, ZoneWritten
    <2> HIDE DEF q
    <2>4. a = q
      BY <2>1 DEF q
    <2> QED
      BY <2>2, <2>3, <2>4
  <1> HIDE DEF a
  <1>3. /\ b \in Memory /\ SameButZones(a, b) /\ b.zone[z] \in ZoneRecord
        /\ b.zone[z].list = l /\ b.zone[z].mobs = m /\ b.zone[z].ents = s.zone[z].ents
        /\ \A y \in Zones : y # z => b.zone[y] = a.zone[y]
    <2> DEFINE r == [a.zone[z] EXCEPT !.mobs = m]
    <2>1. b = [a EXCEPT !.zone = [a.zone EXCEPT ![z] = r]]
      BY <1>2 DEF Memory
    <2>2. /\ r \in ZoneRecord
          /\ r.list = l /\ r.mobs = m /\ r.ents = s.zone[z].ents
      BY <1>2 DEF ZoneRecord
    <2> HIDE DEF r, b
    <2> DEFINE q == [a EXCEPT !.zone = [a.zone EXCEPT ![z] = r]]
    <2>3. /\ q \in Memory /\ SameButZones(a, q) /\ q.zone[z] = r
          /\ \A y \in Zones : y # z => q.zone[y] = a.zone[y]
      BY ZenonT(30), <1>2, <2>2, ZoneWritten
    <2> HIDE DEF q
    <2>4. b = q
      BY <2>1 DEF q
    <2> QED
      BY <2>2, <2>3, <2>4
  <1> HIDE DEF b
  <1> DEFINE E == Put(s.zone[z].ents, e, x)
  <1>5. /\ c \in Memory /\ SameButZones(b, c) /\ c.zone[z] \in ZoneRecord
        /\ c.zone[z].list = l /\ c.zone[z].mobs = m /\ c.zone[z].ents = E
        /\ \A y \in Zones : y # z => c.zone[y] = b.zone[y]
    <2> DEFINE r == [b.zone[z] EXCEPT !.ents = Put(b.zone[z].ents, e, x)]
    <2>1. c = [b EXCEPT !.zone = [b.zone EXCEPT ![z] = r]]
      BY <1>3 DEF Memory, Put
    <2>2. /\ r \in ZoneRecord
          /\ r.list = l /\ r.mobs = m /\ r.ents = E
      BY <1>3 DEF ZoneRecord
    <2> HIDE DEF r, c
    <2> DEFINE q == [b EXCEPT !.zone = [b.zone EXCEPT ![z] = r]]
    <2>3. /\ q \in Memory /\ SameButZones(b, q) /\ q.zone[z] = r
          /\ \A y \in Zones : y # z => q.zone[y] = b.zone[y]
      <3>1. b \in Memory /\ r \in ZoneRecord
        BY <1>3, <2>2
      <3> QED
        BY ZenonT(30), <3>1, ZoneWritten
    <2> HIDE DEF q
    <2>4. c = q
      BY <2>1 DEF q
    <2> QED
      BY <2>2, <2>3, <2>4
  <1> HIDE DEF c
  <1> HIDE DEF c
  <1>7. SameButZones(s, c)
    BY <1>2, <1>3, <1>5 DEF SameButZones, SameWaits
  <1>8. \A y \in Zones : y # z => c.zone[y] = s.zone[y]
    BY <1>2, <1>3, <1>5
  <1> QED
    BY <1>1, <1>5, <1>7, <1>8

-----------------------------------------------------------------------------
(* zone_remove_client *)

MobRecord == [entity : Nat, index : Nat]

\* Writing the index of one client leaves everything else about clients.
LEMMA IndexOfClient ==
  ASSUME NEW f \in [Clients -> ClientRecord], NEW k \in Clients, NEW x \in Nat
  PROVE  LET g == [f EXCEPT ![k].index = x] IN
         /\ g \in [Clients -> ClientRecord]
         /\ \A j \in Clients :
              /\ g[j].name = f[j].name /\ g[j].zone = f[j].zone
              /\ g[j].refs = f[j].refs /\ g[j].handler = f[j].handler
              /\ g[j].loaded = f[j].loaded /\ g[j].linkdead = f[j].linkdead
              /\ g[j].index = IF j = k THEN x ELSE f[j].index
  <1> DEFINE r == [f[k] EXCEPT !.index = x]
             g == [f EXCEPT ![k] = r]
  <1>1. /\ r \in ClientRecord /\ r.name = f[k].name /\ r.zone = f[k].zone /\ r.refs = f[k].refs
        /\ r.handler = f[k].handler /\ r.loaded = f[k].loaded /\ r.linkdead = f[k].linkdead
        /\ r.index = x
    BY DEF ClientRecord
  <1> HIDE DEF r
  <1>2. g \in [Clients -> ClientRecord] /\ g[k] = r /\ \A j \in Clients : j # k => g[j] = f[j]
    BY <1>1, Updated
  <1>3. [f EXCEPT ![k].index = x] = g
    BY DEF r
  <1> HIDE DEF g
  <1> QED
    BY <1>1, <1>2, <1>3

\* Writing the index of one mob leaves everything else about mobs.
LEMMA IndexOfMob ==
  ASSUME NEW f \in [Mobs -> MobRecord], NEW k \in Mobs, NEW x \in Nat
  PROVE  LET g == [f EXCEPT ![k].index = x] IN
         /\ g \in [Mobs -> MobRecord]
         /\ \A j \in Mobs : /\ g[j].entity = f[j].entity
                            /\ g[j].index = IF j = k THEN x ELSE f[j].index
  <1> DEFINE r == [f[k] EXCEPT !.index = x]
             g == [f EXCEPT ![k] = r]
  <1>1. r \in MobRecord /\ r.entity = f[k].entity /\ r.index = x
    BY DEF MobRecord
  <1> HIDE DEF r
  <1>2. g \in [Mobs -> MobRecord] /\ g[k] = r /\ \A j \in Mobs : j # k => g[j] = f[j]
    BY <1>1, Updated
  <1>3. [f EXCEPT ![k].index = x] = g
    BY DEF r
  <1> HIDE DEF g
  <1> QED
    BY <1>1, <1>2, <1>3

\* What zone_remove_client does
ClientRemoved(s, k, t) ==
    LET z == s.client[k].zone
        ci == s.client[k].index
        mi == s.mob[k].index
        l == Len(s.zone[z].list)
        n == Len(s.zone[z].mobs)
    IN
    /\ t \in Memory /\ SameWaits(s, t)
    /\ t.npcs = s.npcs /\ t.zoneList = s.zoneList /\ t.byName = s.byName
    /\ t.connected = s.connected /\ t.udp = s.udp /\ t.handler = s.handler /\ t.fault = s.fault
    /\ t.zone[z] \in ZoneRecord
    /\ Len(t.zone[z].list) = l - 1
    /\ \A i \in 1 .. l - 1 : t.zone[z].list[i] = s.zone[z].list[From(i, ci, l)]
    /\ Len(t.zone[z].mobs) = n - 1
    /\ \A i \in 1 .. n - 1 : t.zone[z].mobs[i] = s.zone[z].mobs[From(i, mi, n)]
    /\ t.zone[z].ents = Put(s.zone[z].ents, s.mob[k].entity, None)
    /\ \A y \in Zones : y # z => t.zone[y] = s.zone[y]
    /\ \A j \in Clients :
         /\ t.client[j].name = s.client[j].name /\ t.client[j].zone = s.client[j].zone
         /\ t.client[j].refs = s.client[j].refs /\ t.client[j].handler = s.client[j].handler
         /\ t.client[j].loaded = s.client[j].loaded /\ t.client[j].linkdead = s.client[j].linkdead
         /\ t.client[j].index = IF ci < l /\ j = s.zone[z].list[l].client
                                  THEN ci ELSE s.client[j].index
    /\ \A m \in Mobs :
         /\ t.mob[m].entity = s.mob[m].entity
         /\ t.mob[m].index = IF mi < n /\ m = s.zone[z].mobs[n]
                               THEN mi ELSE s.mob[m].index

\* zone_remove_client of a client that is in its zone
LEMMA RemoveClientIs ==
  ASSUME NEW s \in Memory, NEW k \in Clients, ClientIn(s, k),
         s.zone[s.client[k].zone] \in ZoneRecord,
         s.mob[k].entity \in DOMAIN s.zone[s.client[k].zone].ents,
         NEW t, t = RemoveClient(s, k)
  PROVE  ClientRemoved(s, k, t)
  <1> DEFINE z == s.client[k].zone
             ci == s.client[k].index
             mi == s.mob[k].index
             e == s.mob[k].entity
             r == s.zone[z]
             l == Len(r.list)
             n == Len(r.mobs)
             lst == SwapAndPop(r.list, ci)
             mbs == SwapAndPop(r.mobs, mi)
             u == [s EXCEPT !.zone[z].list = lst, !.zone[z].mobs = mbs, !.zone[z].ents[e] = None]
             cl == IF ci <= Len(u.zone[z].list)
                     THEN [u.client EXCEPT ![u.zone[z].list[ci].client].index = ci] ELSE u.client
             mb == MobMoved(u, z, mi)
  <1>1. /\ z \in Zones /\ ci \in 1 .. l /\ mi \in 1 .. n
        /\ r.list \in Seq(ListRecord) /\ r.mobs \in Seq(Mobs) /\ r.ents \in Seq(Mobs \cup {None})
        /\ l \in Nat /\ n \in Nat /\ e \in 1 .. Len(r.ents)
        /\ \A i \in 1 .. l : r.list[i].client \in Clients
        /\ \A i \in 1 .. n : r.mobs[i] \in Mobs
    BY Zenon, ZoneFacts, Fields DEF ClientIn
  <1>2. /\ lst \in Seq(ListRecord) /\ Len(lst) = l - 1
        /\ \A j \in 1 .. l - 1 : lst[j] = r.list[From(j, ci, l)]
    BY Zenon, <1>1, SwappedAndPopped
  <1>3. /\ mbs \in Seq(Mobs) /\ Len(mbs) = n - 1
        /\ \A j \in 1 .. n - 1 : mbs[j] = r.mobs[From(j, mi, n)]
    BY Zenon, <1>1, SwappedAndPopped
  <1>4. Put(r.ents, e, None) \in Seq(Mobs \cup {None})
    <2>1. None \in Mobs \cup {None}
      OBVIOUS
    <2>2. e \in DOMAIN r.ents
      OBVIOUS
    <2> QED
      BY Zenon, <1>1, <2>1, <2>2, PutInSeq
  <1>5. t = [u EXCEPT !.client = cl, !.mob = mb]
    <2>1. RemoveClient(s, k) = [u EXCEPT !.client = cl, !.mob = mb]
      BY Zenon DEF RemoveClient
    <2> HIDE DEF u, cl, mb
    <2> QED
      BY <2>1
  <1> HIDE DEF lst, mbs, ci, mi, l, n, e, z
  <1>6. /\ u \in Memory /\ SameButZones(s, u) /\ u.zone[z] \in ZoneRecord
        /\ u.zone[z].list = lst /\ u.zone[z].mobs = mbs
        /\ u.zone[z].ents = Put(r.ents, e, None)
        /\ \A y \in Zones : y # z => u.zone[y] = s.zone[y]
    <2>1. z \in Zones /\ lst \in Seq(ListRecord) /\ mbs \in Seq(Mobs)
      BY <1>1, <1>2, <1>3
    <2> HIDE DEF r, u
    <2>2. Put(s.zone[z].ents, e, None) \in Seq(Mobs \cup {None}) /\ s.zone[z] \in ZoneRecord
      BY <1>4 DEF r, z
    <2>3. u = WriteArrays(s, z, lst, mbs, e, None)
      BY DEF u, WriteArrays
    <2> QED
      BY <2>1, <2>2, <2>3, ArraysWritten DEF r
  <1>7. /\ u.client = s.client /\ s.client \in [Clients -> ClientRecord]
        /\ u.mob = s.mob /\ s.mob \in [Mobs -> MobRecord]
    BY Zenon, <1>6, Fields DEF SameButZones, MobRecord
  <1>u. u.zone[z].list = lst /\ u.zone[z].mobs = mbs
    BY Zenon, <1>6
  <1> HIDE DEF u
  <1>8. /\ cl \in [Clients -> ClientRecord]
        /\ \A j \in Clients :
              /\ cl[j].name = s.client[j].name /\ cl[j].zone = s.client[j].zone
              /\ cl[j].refs = s.client[j].refs /\ cl[j].handler = s.client[j].handler
              /\ cl[j].loaded = s.client[j].loaded /\ cl[j].linkdead = s.client[j].linkdead
              /\ cl[j].index = IF ci < l /\ j = r.list[l].client THEN ci ELSE s.client[j].index
    <2>0. ci \in 1 .. l /\ l \in Nat /\ Len(lst) = l - 1
      BY <1>1, <1>2
    <2>1. CASE ci < l
      <3>1. cl = [s.client EXCEPT ![lst[ci].client].index = ci]
        BY <1>u, <1>7, <2>0, <2>1
      <3>2. ci \in 1 .. l - 1 /\ l \in 1 .. l /\ ci \in Nat
        BY <2>0, <2>1
      <3>3. lst[ci] = r.list[l] /\ r.list[l].client \in Clients
        BY <1>1, <1>2, <3>2 DEF From
      <3> DEFINE q == r.list[l].client
      <3>4. cl = [s.client EXCEPT ![q].index = ci] /\ q \in Clients
        BY Zenon, <3>1, <3>3
      <3> HIDE DEF cl, q
      <3>5. /\ cl \in [Clients -> ClientRecord]
            /\ \A j \in Clients :
              /\ cl[j].name = s.client[j].name /\ cl[j].zone = s.client[j].zone
              /\ cl[j].refs = s.client[j].refs /\ cl[j].handler = s.client[j].handler
              /\ cl[j].loaded = s.client[j].loaded /\ cl[j].linkdead = s.client[j].linkdead
              /\ cl[j].index = IF j = q THEN ci ELSE s.client[j].index
        BY <1>7, <3>2, <3>4, IndexOfClient
      <3> QED
        BY <2>1, <3>5 DEF q
    <2>2. CASE ~(ci < l)
      <3>1. cl = s.client
        BY <1>u, <1>7, <2>0, <2>2
      <3> HIDE DEF cl
      <3> QED
        BY <1>7, <2>2, <3>1
    <2> QED
      BY Zenon, <2>1, <2>2
  <1>9. /\ mb \in [Mobs -> MobRecord]
        /\ \A m \in Mobs :
              /\ mb[m].entity = s.mob[m].entity
              /\ mb[m].index = IF mi < n /\ m = r.mobs[n] THEN mi ELSE s.mob[m].index
    <2>0. mi \in 1 .. n /\ n \in Nat /\ Len(mbs) = n - 1
      BY <1>1, <1>3
    <2>1. CASE mi < n
      <3>1. mb = [s.mob EXCEPT ![mbs[mi]].index = mi]
        BY <1>u, <1>7, <2>0, <2>1 DEF MobMoved
      <3>2. mi \in 1 .. n - 1 /\ n \in 1 .. n /\ mi \in Nat
        BY <2>0, <2>1
      <3>3. mbs[mi] = r.mobs[n] /\ r.mobs[n] \in Mobs
        BY <1>1, <1>3, <3>2 DEF From
      <3> DEFINE q == r.mobs[n]
      <3>4. mb = [s.mob EXCEPT ![q].index = mi] /\ q \in Mobs
        BY <3>1, <3>3
      <3> HIDE DEF mb, q
      <3>5. /\ mb \in [Mobs -> MobRecord]
            /\ \A m \in Mobs : /\ mb[m].entity = s.mob[m].entity
                                /\ mb[m].index = IF m = q THEN mi ELSE s.mob[m].index
        BY <1>7, <3>2, <3>4, IndexOfMob
      <3> QED
        BY <2>1, <3>5 DEF q
    <2>2. CASE ~(mi < n)
      <3>1. mb = s.mob
        BY <1>u, <1>7, <2>0, <2>2 DEF MobMoved
      <3> HIDE DEF mb
      <3> QED
        BY <1>7, <2>2, <3>1
    <2> QED
      BY <2>1, <2>2
  <1> HIDE DEF cl, mb
  <1>10. /\ t \in Memory /\ t.client = cl /\ t.mob = mb /\ t.zone = u.zone
         /\ SameWaits(u, t)
         /\ t.npcs = u.npcs /\ t.zoneList = u.zoneList /\ t.byName = u.byName
         /\ t.connected = u.connected /\ t.udp = u.udp /\ t.handler = u.handler /\ t.fault = u.fault
    <2>1. cl \in [Clients -> ClientRecord] /\ mb \in [Mobs -> [entity : Nat, index : Nat]] /\ u \in Memory
      BY <1>6, <1>8, <1>9 DEF MobRecord
    <2> QED
      BY ZenonT(30), <1>5, <2>1 DEF Memory, SameWaits
  <1>11. /\ SameWaits(s, t)
         /\ t.npcs = s.npcs /\ t.zoneList = s.zoneList /\ t.byName = s.byName
         /\ t.connected = s.connected /\ t.udp = s.udp /\ t.handler = s.handler /\ t.fault = s.fault
    BY <1>6, <1>10 DEF SameButZones, SameWaits
  <1>12. /\ t.zone[z] \in ZoneRecord
         /\ Len(t.zone[z].list) = l - 1
         /\ \A i \in 1 .. l - 1 : t.zone[z].list[i] = r.list[From(i, ci, l)]
         /\ Len(t.zone[z].mobs) = n - 1
         /\ \A i \in 1 .. n - 1 : t.zone[z].mobs[i] = r.mobs[From(i, mi, n)]
         /\ t.zone[z].ents = Put(r.ents, e, None)
         /\ \A y \in Zones : y # z => t.zone[y] = s.zone[y]
    BY <1>2, <1>3, <1>6, <1>10
  <1> QED
    BY ZenonT(30), <1>8, <1>9, <1>10, <1>11, <1>12 DEF ClientRemoved, ci, mi, l, n, e, z

\* The mobs keep their places, but for the one moved into the gap.
LEMMA MobsRemoved ==
  ASSUME NEW s \in Memory, NEW k \in Clients, MobLists(s), ClientIn(s, k),
         NEW t, t = RemoveClient(s, k)
  PROVE  /\ ClientRemoved(s, k, t) /\ MobLists(t)
         /\ \A y \in s.zoneList : \A m \in Mobs :
              m # k /\ (\E i \in DOMAIN s.zone[y].mobs : s.zone[y].mobs[i] = m) =>
                t.mob[m].index \in DOMAIN t.zone[y].mobs /\ t.zone[y].mobs[t.mob[m].index] = m
  <1> DEFINE z == s.client[k].zone
             mi == s.mob[k].index
             e == s.mob[k].entity
             n == Len(s.zone[z].mobs)
  <1>4. \A y \in s.zoneList :
          /\ y \in Zones /\ s.zone[y] \in ZoneRecord
          /\ \A i \in DOMAIN s.zone[y].mobs :
               /\ s.zone[y].mobs[i] \in Mobs
               /\ s.mob[s.zone[y].mobs[i]].index = i
               /\ s.mob[s.zone[y].mobs[i]].entity \in DOMAIN s.zone[y].ents
               /\ s.zone[y].ents[s.mob[s.zone[y].mobs[i]].entity] = s.zone[y].mobs[i]
    BY Zenon, MobPlaces
  <1>d. \A x, y \in s.zoneList : \A i \in DOMAIN s.zone[x].mobs, j \in DOMAIN s.zone[y].mobs :
          s.zone[x].mobs[i] = s.zone[y].mobs[j] => x = y
    BY Zenon DEF MobLists
  <1>1. /\ z \in s.zoneList /\ z \in Zones /\ s.zone[z] \in ZoneRecord
        /\ n \in Nat /\ DOMAIN s.zone[z].mobs = 1 .. n /\ mi \in 1 .. n
        /\ s.zone[z].mobs[mi] = k /\ k \in Mobs
        /\ e \in DOMAIN s.zone[z].ents /\ s.zone[z].ents[e] = k
        /\ e \in 1 .. Len(s.zone[z].ents)
    <2>1. z \in s.zoneList /\ z \in Zones /\ s.zone[z] \in ZoneRecord /\ k \in Mobs
      BY Zenon, Fields, ClientIsMob DEF ClientIn, MobLists
    <2>2. n \in Nat /\ DOMAIN s.zone[z].mobs = 1 .. n /\ DOMAIN s.zone[z].ents = 1 .. Len(s.zone[z].ents)
      BY <2>1, ZoneFacts
    <2>3. mi \in 1 .. n /\ s.zone[z].mobs[mi] = k
      BY Zenon, <2>2 DEF ClientIn
    <2>4. e \in DOMAIN s.zone[z].ents /\ s.zone[z].ents[e] = k
      <3>1. mi \in DOMAIN s.zone[z].mobs
        BY <2>2, <2>3
      <3> DEFINE m == s.zone[z].mobs[mi]
      <3>2. s.mob[m].entity \in DOMAIN s.zone[z].ents /\ s.zone[z].ents[s.mob[m].entity] = m
        BY Zenon, <1>4, <2>1, <3>1
      <3>3. m = k
        BY Zenon, <2>3
      <3> HIDE DEF m
      <3> QED
        BY Zenon, <3>2, <3>3
    <2> QED
      BY Zenon, <2>1, <2>2, <2>3, <2>4
  <1>c. ClientRemoved(s, k, t)
    BY Zenon, <1>1, RemoveClientIs
  <1>2. /\ t \in Memory /\ t.zoneList = s.zoneList /\ t.npcs = s.npcs
        /\ t.zone[z] \in ZoneRecord
        /\ Len(t.zone[z].mobs) = n - 1
        /\ \A i \in 1 .. n - 1 : t.zone[z].mobs[i] = s.zone[z].mobs[From(i, mi, n)]
        /\ t.zone[z].ents = Put(s.zone[z].ents, e, None)
        /\ \A y \in Zones : y # z => t.zone[y] = s.zone[y]
        /\ \A m \in Mobs :
             /\ t.mob[m].entity = s.mob[m].entity
             /\ t.mob[m].index = IF mi < n /\ m = s.zone[z].mobs[n] THEN mi ELSE s.mob[m].index
    BY Zenon, <1>c DEF ClientRemoved
  <1>k. s.mob[k].index = mi
    OBVIOUS
  <1>3. DOMAIN t.zone[z].mobs = 1 .. n - 1
    BY Zenon, <1>2, ZoneFacts
  <1>5. /\ Put(s.zone[z].ents, e, None)[e] = None
        /\ DOMAIN t.zone[z].ents = DOMAIN s.zone[z].ents
        /\ \A i \in DOMAIN s.zone[z].ents : i # e => t.zone[z].ents[i] = s.zone[z].ents[i]
    <2>1. None \in Mobs \cup {None}
      OBVIOUS
    <2>2. s.zone[z].ents \in Seq(Mobs \cup {None}) /\ DOMAIN s.zone[z].ents = 1 .. Len(s.zone[z].ents)
      BY ZenonT(30), <1>1, ZoneFacts
    <2>3. DOMAIN t.zone[z].ents = 1 .. Len(t.zone[z].ents)
      BY Zenon, <1>2, ZoneFacts
    <2> DEFINE q == s.zone[z].ents
               w == Put(q, e, None)
               S == Mobs \cup {None}
    <2>4. q \in Seq(S) /\ e \in DOMAIN q /\ None \in S
      BY Zenon, <1>1, <2>1, <2>2
    <2> HIDE DEF q, S, e
    <2>5. /\ DOMAIN w = DOMAIN q /\ w[e] = None
          /\ \A i \in DOMAIN q : i # e => w[i] = q[i]
      BY <2>4, PutInSeq
    <2> HIDE DEF w
    <2>6. t.zone[z].ents = w
      BY Zenon, <1>2 DEF w, q
    <2> QED
      BY Zenon, <2>5, <2>6 DEF q, w
  <1> HIDE DEF n, mi, e, z
  <1>6. ASSUME NEW i \in 1 .. n - 1
        PROVE  LET m == t.zone[z].mobs[i] IN
               /\ m \in Mobs /\ m # k
               /\ t.mob[m].index = i
               /\ t.mob[m].entity \in DOMAIN t.zone[z].ents /\ t.zone[z].ents[t.mob[m].entity] = m
    <2> DEFINE m == t.zone[z].mobs[i]
               f == From(i, mi, n)
    <2>0. n \in Nat /\ mi \in 1 .. n
      BY <1>1
    <2>1. f \in 1 .. n /\ f # mi /\ m = s.zone[z].mobs[f]
      <3>1. f \in 1 .. n /\ f # mi
        BY <2>0, FromProperties
      <3> QED
        BY <1>2, <3>1
    <2>2. /\ m \in Mobs /\ s.mob[m].index = f
          /\ s.mob[m].entity \in DOMAIN s.zone[z].ents /\ s.zone[z].ents[s.mob[m].entity] = m
      BY ZenonT(30), <1>1, <1>4, <2>1
    <2>3. m # k
      BY Zenon, <1>k, <2>1, <2>2
    <2>4. s.mob[m].entity # e
      BY Zenon, <1>1, <2>2, <2>3
    <2>5. t.mob[m].entity = s.mob[m].entity
      BY Zenon, <1>2, <2>2
    <2>6. t.mob[m].index = i
      <3>1. CASE i = mi
        <4>1. f = n /\ mi < n
          BY <1>1, <3>1 DEF From
        <4> QED
          BY Zenon, <1>2, <2>1, <2>2, <3>1, <4>1
      <3>2. CASE i # mi
        <4>1. f = i
          BY <3>2 DEF From
        <4>2. m # s.zone[z].mobs[n]
          <5>1. s.mob[s.zone[z].mobs[n]].index = n
            <6>1. n \in DOMAIN s.zone[z].mobs /\ z \in s.zoneList
              BY <1>1
            <6> QED
              BY Zenon, <1>4, <6>1
          <5>2. s.mob[m].index = i /\ i # n
            <6>1. i # n
              BY <2>0
            <6> QED
              BY Zenon, <2>2, <4>1, <6>1
          <5> QED
            BY <5>1, <5>2
        <4> QED
          BY Zenon, <1>2, <2>2, <4>1, <4>2
      <3> QED
        BY <3>1, <3>2
    <2> HIDE DEF m
    <2>7. t.mob[m].entity \in DOMAIN t.zone[z].ents /\ t.zone[z].ents[t.mob[m].entity] = m
      BY <1>5, <2>2, <2>4, <2>5
    <2> QED
      BY Zenon, <2>2, <2>3, <2>6, <2>7 DEF m
  \* In the other zones nothing moves.
  <1>7. ASSUME NEW y \in s.zoneList, y # z, NEW i \in DOMAIN s.zone[y].mobs
        PROVE  t.mob[s.zone[y].mobs[i]].index = s.mob[s.zone[y].mobs[i]].index
    <2>1. n \in DOMAIN s.zone[z].mobs
      BY <1>1
    <2>2. s.zone[y].mobs[i] # s.zone[z].mobs[n]
      BY <1>1, <1>7, <2>1 DEF MobLists
    <2> QED
      BY Zenon, <1>2, <1>4, <2>2
  <1>8. Cardinality(Entities(t, z)) = n - 1
    <2>1. Entities(t, z) = Entities(s, z) \ {e}
      BY <1>2, <1>5 DEF Entities
    <2>2. e \in Entities(s, z)
      BY <1>1, ClientIsMob DEF Entities
    <2>3. IsFiniteSet(DOMAIN s.zone[z].ents)
      <3>1. DOMAIN s.zone[z].ents = 1 .. Len(s.zone[z].ents) /\ Len(s.zone[z].ents) \in Nat
        BY <1>1, ZoneFacts
      <3> QED
        BY <3>1, FS_Interval
    <2>4. IsFiniteSet(Entities(s, z))
      BY <2>3, FS_Subset DEF Entities
    <2>5. Cardinality(Entities(s, z)) = n
      BY Zenon, <1>1 DEF MobLists, n
    <2> QED
      BY <2>1, <2>2, <2>4, <2>5, FS_RemoveElement
  <1>9. ASSUME NEW y \in t.zoneList
        PROVE  /\ t.zone[y] \in ZoneRecord
               /\ \A i \in DOMAIN t.zone[y].mobs :
                    LET m == t.zone[y].mobs[i] IN
                    /\ t.mob[m].index = i
                    /\ t.mob[m].entity \in DOMAIN t.zone[y].ents /\ t.zone[y].ents[t.mob[m].entity] = m
               /\ Cardinality(Entities(t, y)) = Len(t.zone[y].mobs)
    <2>1. CASE y = z
      BY Zenon, <1>2, <1>3, <1>6, <1>8, <2>1
    <2>2. CASE y # z
      <3>1. t.zone[y] = s.zone[y] /\ s.zone[y] \in ZoneRecord /\ y \in s.zoneList
        BY Zenon, <1>2, <1>4, <2>2
      <3>2. Cardinality(Entities(t, y)) = Len(t.zone[y].mobs)
        <4>1. Entities(t, y) = Entities(s, y)
          BY Zenon, <3>1 DEF Entities
        <4>2. Cardinality(Entities(s, y)) = Len(s.zone[y].mobs)
          BY Zenon, <3>1 DEF MobLists
        <4> QED
          BY Zenon, <3>1, <4>1, <4>2
      <3>3. ASSUME NEW i \in DOMAIN t.zone[y].mobs, NEW m, m = t.zone[y].mobs[i]
            PROVE  /\ t.mob[m].index = i
                   /\ t.mob[m].entity \in DOMAIN t.zone[y].ents /\ t.zone[y].ents[t.mob[m].entity] = m
        <4>1. i \in DOMAIN s.zone[y].mobs /\ s.zone[y].mobs[i] = m
          BY Zenon, <3>1, <3>3
        <4>2. /\ m \in Mobs /\ s.mob[m].index = i
              /\ s.mob[m].entity \in DOMAIN s.zone[y].ents /\ s.zone[y].ents[s.mob[m].entity] = m
          BY Zenon, <1>4, <3>1, <4>1
        <4>3. t.mob[m].index = s.mob[m].index
          BY Zenon, <1>7, <2>2, <3>1, <4>1
        <4>4. t.mob[m].entity = s.mob[m].entity
          BY Zenon, <1>2, <4>2
        <4> QED
          BY Zenon, <3>1, <4>2, <4>3, <4>4
      <3> QED
        BY Zenon, <3>1, <3>2, <3>3
    <2> QED
      BY Zenon, <2>1, <2>2
  <1>10. \A y \in t.zoneList : \A i \in DOMAIN t.zone[y].mobs :
            \E j \in DOMAIN s.zone[y].mobs : t.zone[y].mobs[i] = s.zone[y].mobs[j]
    <2> SUFFICES ASSUME NEW y \in t.zoneList, NEW i \in DOMAIN t.zone[y].mobs
                 PROVE  \E j \in DOMAIN s.zone[y].mobs : t.zone[y].mobs[i] = s.zone[y].mobs[j]
      OBVIOUS
    <2>1. CASE y = z
      <3>1. From(i, mi, n) \in DOMAIN s.zone[z].mobs
        BY <1>1, <1>3, <2>1, FromProperties
      <3> QED
        BY <1>2, <1>3, <2>1, <3>1
    <2>2. CASE y # z
      BY Zenon, <1>2, <1>4, <2>2
    <2> QED
      BY <2>1, <2>2
  <1>11. ASSUME NEW x \in t.zoneList, NEW y \in t.zoneList,
                NEW i \in DOMAIN t.zone[x].mobs, NEW j \in DOMAIN t.zone[y].mobs,
                t.zone[x].mobs[i] = t.zone[y].mobs[j]
         PROVE  x = y
    <2>1. PICK a \in DOMAIN s.zone[x].mobs : t.zone[x].mobs[i] = s.zone[x].mobs[a]
      BY <1>10
    <2>2. PICK b \in DOMAIN s.zone[y].mobs : t.zone[y].mobs[j] = s.zone[y].mobs[b]
      BY <1>10
    <2>3. s.zone[x].mobs[a] = s.zone[y].mobs[b] /\ x \in s.zoneList /\ y \in s.zoneList
      BY <1>2, <1>11, <2>1, <2>2
    <2> QED
      BY <1>d, <2>3
  <1>12. \A m \in Mobs : m > MaxClients + t.npcs => t.mob[m].entity = 0
    BY Zenon, <1>2 DEF MobLists
  <1>13. MobLists(t)
    BY Zenon, <1>9, <1>11, <1>12 DEF MobLists
  <1>14. ASSUME NEW y \in s.zoneList, NEW m \in Mobs, m # k,
                NEW i \in DOMAIN s.zone[y].mobs, s.zone[y].mobs[i] = m
         PROVE  t.mob[m].index \in DOMAIN t.zone[y].mobs /\ t.zone[y].mobs[t.mob[m].index] = m
    <2>1. CASE y = z
      <3>1. i # mi /\ i \in 1 .. n
        BY <1>1, <1>14, <2>1
      <3>2. PICK j \in 1 .. n - 1 : From(j, mi, n) = i
        BY <1>1, <3>1, FromProperties
      <3>3. t.zone[z].mobs[j] = m
        BY <1>2, <1>14, <2>1, <3>2
      <3> QED
        BY ZenonT(30), <1>3, <1>6, <2>1, <3>3
    <2>2. CASE y # z
      <3>1. t.zone[y] = s.zone[y] /\ s.mob[m].index = i
        BY Zenon, <1>2, <1>4, <1>14, <2>2
      <3>2. t.mob[m].index = i
        BY Zenon, <1>7, <1>14, <2>2, <3>1
      <3> QED
        BY Zenon, <1>14, <3>1, <3>2
    <2> QED
      BY <2>1, <2>2
  <1> QED
    BY <1>c, <1>13, <1>14

\* What removing client k does to the lists of the zones: every entry that is left was there, names
\* another client and is where that client's index says; every other client in place keeps its entry.
ListKept(s, k, t) ==
    /\ \A y \in s.zoneList : \A i \in DOMAIN t.zone[y].list :
         LET j == t.zone[y].list[i].client IN
         /\ j \in Clients /\ j # k /\ t.client[j].index = i
         /\ \E f \in DOMAIN s.zone[y].list : s.zone[y].list[f] = t.zone[y].list[i]
    /\ \A j \in Clients : j # k /\ ClientIn(s, j) =>
         LET y == s.client[j].zone IN
         /\ t.client[j].index \in DOMAIN t.zone[y].list
         /\ t.zone[y].list[t.client[j].index] = s.zone[y].list[s.client[j].index]

\* The list of the zone likewise
LEMMA ListRemoved ==
  ASSUME NEW s \in Memory, NEW k \in Clients, MobLists(s), ClientLists(s), ClientIn(s, k),
         NEW t, ClientRemoved(s, k, t)
  PROVE  ListKept(s, k, t)
  <1> DEFINE z == s.client[k].zone
             ci == s.client[k].index
             l == Len(s.zone[z].list)
  <1>1. /\ z \in s.zoneList /\ z \in Zones /\ s.zone[z] \in ZoneRecord
        /\ l \in Nat /\ DOMAIN s.zone[z].list = 1 .. l /\ ci \in 1 .. l
        /\ s.zone[z].list[ci].client = k
    <2>1. z \in s.zoneList /\ z \in Zones /\ s.zone[z] \in ZoneRecord
      BY Zenon, Fields DEF ClientIn, MobLists
    <2>2. l \in Nat /\ DOMAIN s.zone[z].list = 1 .. l
      BY <2>1, ZoneFacts
    <2> QED
      BY Zenon, <2>1, <2>2 DEF ClientIn
  <1>2. /\ t.zone[z] \in ZoneRecord /\ Len(t.zone[z].list) = l - 1
        /\ \A i \in 1 .. l - 1 : t.zone[z].list[i] = s.zone[z].list[From(i, ci, l)]
        /\ \A y \in Zones : y # z => t.zone[y] = s.zone[y]
        /\ \A j \in Clients :
             t.client[j].index = IF ci < l /\ j = s.zone[z].list[l].client THEN ci ELSE s.client[j].index
    BY Zenon DEF ClientRemoved
  <1>3. DOMAIN t.zone[z].list = 1 .. l - 1
    BY ZenonT(30), <1>2, ZoneFacts
  <1>4. \A y \in s.zoneList : y \in Zones /\ s.zone[y] \in ZoneRecord
    BY Zenon, Fields DEF MobLists
  <1>5. \A y \in s.zoneList : \A i \in DOMAIN s.zone[y].list :
          LET j == s.zone[y].list[i].client IN
          j \in Clients /\ s.client[j].index = i /\ s.client[j].zone = y
    <2> SUFFICES ASSUME NEW y \in s.zoneList, NEW i \in DOMAIN s.zone[y].list
                 PROVE  LET j == s.zone[y].list[i].client IN
                        j \in Clients /\ s.client[j].index = i /\ s.client[j].zone = y
      BY Zenon
    <2> DEFINE j == s.zone[y].list[i].client
    <2>1. j \in Clients
      BY Zenon, <1>4, ZoneFacts
    <2>2. s.client[j].index = i /\ s.client[j].zone = y
      BY ListPlaces
    <2> QED
      BY Zenon, <2>1, <2>2
  <1>k. s.client[k].index = ci
    OBVIOUS
  <1> HIDE DEF z, ci, l
  \* In the list of this zone
  <1>6. ASSUME NEW i \in 1 .. l - 1
        PROVE  LET j == t.zone[z].list[i].client
                   f == From(i, ci, l)
               IN  /\ f \in DOMAIN s.zone[z].list /\ t.zone[z].list[i] = s.zone[z].list[f]
                   /\ j \in Clients /\ j # k /\ t.client[j].index = i
    <2> DEFINE j == t.zone[z].list[i].client
               f == From(i, ci, l)
    <2>0. l \in Nat /\ ci \in 1 .. l
      BY <1>1
    <2>1. f \in 1 .. l /\ f # ci
      BY <2>0, FromProperties
    <2>2. t.zone[z].list[i] = s.zone[z].list[f]
      BY <1>2
    <2>3. j \in Clients /\ s.client[j].index = f
      <3> DEFINE g == s.zone[z].list[f].client
      <3>1. f \in DOMAIN s.zone[z].list /\ z \in s.zoneList
        BY Zenon, <1>1, <2>1
      <3>2. g \in Clients /\ s.client[g].index = f
        BY Zenon, <1>5, <3>1
      <3>3. j = g
        BY Zenon, <2>2
      <3> QED
        BY Zenon, <3>2, <3>3
    <2>4. j # k
      BY <1>k, <2>1, <2>3
    <2>5. t.client[j].index = i
      <3>1. CASE i = ci
        <4>1. f = l /\ ci < l
          BY <2>0, <3>1 DEF From
        <4> QED
          BY <1>2, <2>2, <2>3, <3>1, <4>1
      <3>2. CASE i # ci
        <4>1. f = i
          BY <3>2 DEF From
        <4>2. i # l
          BY <2>0
        <4>3. s.client[s.zone[z].list[l].client].index = l
          <5>1. l \in DOMAIN s.zone[z].list /\ z \in s.zoneList
            BY <1>1
          <5> QED
            BY Zenon, <1>5, <5>1
        <4>4. j # s.zone[z].list[l].client
          BY <2>3, <4>1, <4>2, <4>3
        <4> QED
          BY <1>2, <2>3, <4>1, <4>4
      <3> QED
        BY <3>1, <3>2
    <2> HIDE DEF j
    <2> QED
      BY <1>1, <2>1, <2>2, <2>3, <2>4, <2>5 DEF j
  \* In the others
  <1>7. ASSUME NEW y \in s.zoneList, y # z, NEW i \in DOMAIN s.zone[y].list
        PROVE  LET j == s.zone[y].list[i].client IN
               /\ t.zone[y] = s.zone[y] /\ j # k /\ t.client[j].index = s.client[j].index
    <2>1. l \in DOMAIN s.zone[z].list /\ ci \in DOMAIN s.zone[z].list
      BY <1>1
    <2>2. /\ s.client[s.zone[z].list[l].client].zone = z
          /\ s.client[s.zone[z].list[ci].client].zone = z
          /\ s.client[s.zone[y].list[i].client].zone = y
          /\ s.zone[y].list[i].client \in Clients
      BY Zenon, <1>1, <1>5, <2>1
    <2>3. s.zone[y].list[i].client # s.zone[z].list[l].client /\ s.zone[y].list[i].client # k
      BY <1>1, <1>7, <2>2
    <2> QED
      BY Zenon, <1>2, <1>4, <1>7, <2>2, <2>3
  <1>8. ASSUME NEW y \in s.zoneList, NEW i \in DOMAIN t.zone[y].list
        PROVE  LET j == t.zone[y].list[i].client IN
               /\ j \in Clients /\ j # k /\ t.client[j].index = i
               /\ \E f \in DOMAIN s.zone[y].list : s.zone[y].list[f] = t.zone[y].list[i]
    <2>1. CASE y = z
      BY <1>3, <1>6, <2>1
    <2>2. CASE y # z
      <3>1. t.zone[y] = s.zone[y]
        BY <1>2, <1>4, <2>2
      <3> QED
        <4> DEFINE j == s.zone[y].list[i].client
        <4>1. i \in DOMAIN s.zone[y].list /\ t.zone[y].list[i] = s.zone[y].list[i]
          BY Zenon, <1>8, <3>1
        <4>2. j \in Clients /\ s.client[j].index = i
          BY Zenon, <1>5, <4>1
        <4>3. j # k /\ t.client[j].index = s.client[j].index
          BY Zenon, <1>7, <2>2, <4>1
        <4> QED
          BY Zenon, <4>1, <4>2, <4>3
    <2> QED
      BY <2>1, <2>2
  <1>9. ASSUME NEW j \in Clients, j # k, ClientIn(s, j)
        PROVE  LET y == s.client[j].zone IN
               /\ t.client[j].index \in DOMAIN t.zone[y].list
               /\ t.zone[y].list[t.client[j].index] = s.zone[y].list[s.client[j].index]
    <2> DEFINE y == s.client[j].zone
               f == s.client[j].index
    <2>1. y \in s.zoneList /\ f \in DOMAIN s.zone[y].list /\ s.zone[y].list[f].client = j
      BY Zenon, <1>9 DEF ClientIn
    <2> HIDE DEF y
    <2>2. CASE y = z
      <3>1. f \in 1 .. l /\ f # ci
        BY <1>1, <1>9, <2>1, <2>2
      <3>2. PICK i \in 1 .. l - 1 : From(i, ci, l) = f
        <4>1. l \in Nat /\ ci \in 1 .. l
          BY <1>1
        <4> QED
          BY <3>1, <4>1, FromProperties
      <3>3. t.zone[z].list[i] = s.zone[z].list[f] /\ t.client[t.zone[z].list[i].client].index = i
        BY <1>6, <3>2
      <3>4. t.zone[z].list[i].client = j
        BY Zenon, <2>1, <2>2, <3>3
      <3> QED
        BY <1>3, <2>2, <3>3, <3>4 DEF y
    <2>3. CASE y # z
      <3>1. t.zone[y] = s.zone[y] /\ t.client[j].index = f
        BY Zenon, <1>7, <2>1, <2>3
      <3> QED
        BY <2>1, <3>1 DEF y
    <2> QED
      BY Zenon, <2>2, <2>3
  <1> QED
    BY Zenon, <1>8, <1>9 DEF ListKept

-----------------------------------------------------------------------------
(* zc_remove_connected_client *)

\* The mobs stay in order where neither they nor the arrays of mobs change.
LEMMA MobListsSame ==
  ASSUME NEW s, NEW t, MobLists(s), t.mob = s.mob, t.npcs = s.npcs, t.zoneList = s.zoneList,
         \A z \in s.zoneList : /\ t.zone[z] \in ZoneRecord
                               /\ t.zone[z].mobs = s.zone[z].mobs /\ t.zone[z].ents = s.zone[z].ents
  PROVE  MobLists(t)
  <1>1. \A z \in s.zoneList : Entities(t, z) = Entities(s, z)
    BY DEF Entities
  <1>2. ASSUME NEW z \in t.zoneList
        PROVE  /\ t.zone[z] \in ZoneRecord
               /\ \A i \in DOMAIN t.zone[z].mobs :
                    LET m == t.zone[z].mobs[i] IN
                    /\ t.mob[m].index = i
                    /\ t.mob[m].entity \in DOMAIN t.zone[z].ents /\ t.zone[z].ents[t.mob[m].entity] = m
               /\ Cardinality(Entities(t, z)) = Len(t.zone[z].mobs)
    <2>1. /\ \A i \in DOMAIN s.zone[z].mobs :
               LET m == s.zone[z].mobs[i] IN
               /\ s.mob[m].index = i
               /\ s.mob[m].entity \in DOMAIN s.zone[z].ents /\ s.zone[z].ents[s.mob[m].entity] = m
          /\ Cardinality(Entities(s, z)) = Len(s.zone[z].mobs)
      BY Zenon DEF MobLists
    <2>2. t.zone[z].mobs = s.zone[z].mobs /\ t.zone[z].ents = s.zone[z].ents
          /\ t.zone[z] \in ZoneRecord /\ Entities(t, z) = Entities(s, z)
      BY <1>1
    <2> QED
      BY Zenon, <2>1, <2>2
  <1>3. ASSUME NEW x \in t.zoneList, NEW y \in t.zoneList,
               NEW i \in DOMAIN t.zone[x].mobs, NEW j \in DOMAIN t.zone[y].mobs,
               t.zone[x].mobs[i] = t.zone[y].mobs[j]
        PROVE  x = y
    <2>1. t.zone[x].mobs = s.zone[x].mobs /\ t.zone[y].mobs = s.zone[y].mobs
      OBVIOUS
    <2> QED
      <3>1. /\ x \in s.zoneList /\ y \in s.zoneList /\ i \in DOMAIN s.zone[x].mobs /\ j \in DOMAIN s.zone[y].mobs
            /\ s.zone[x].mobs[i] = s.zone[y].mobs[j]
        BY <1>3, <2>1
      <3>2. \A a, b \in s.zoneList : \A f \in DOMAIN s.zone[a].mobs, g \in DOMAIN s.zone[b].mobs :
              s.zone[a].mobs[f] = s.zone[b].mobs[g] => a = b
        BY Zenon DEF MobLists
      <3> QED
        BY Zenon, <3>1, <3>2
  <1>4. \A m \in Mobs : m > MaxClients + t.npcs => t.mob[m].entity = 0
    BY Zenon DEF MobLists
  <1> QED
    BY Zenon, <1>2, <1>3, <1>4 DEF MobLists

\* The clients stay in order where only flags of the listings change.
LEMMA ClientListsSame ==
  ASSUME NEW s \in Memory, NEW t, MobLists(s), ClientLists(s), t.zoneList = s.zoneList, t.mob = s.mob,
         \A z \in s.zoneList : /\ t.zone[z].mobs = s.zone[z].mobs
                               /\ DOMAIN t.zone[z].list = DOMAIN s.zone[z].list
                               /\ \A i \in DOMAIN s.zone[z].list :
                                    t.zone[z].list[i].client = s.zone[z].list[i].client,
         t.byName = s.byName, DOMAIN t.connected = DOMAIN s.connected,
         \A i \in DOMAIN s.connected : t.connected[i].client = s.connected[i].client,
         \A k \in Clients : /\ t.client[k].name = s.client[k].name
                            /\ t.client[k].zone = s.client[k].zone
                            /\ t.client[k].index = s.client[k].index
  PROVE  ClientLists(t) /\ \A k \in Clients : IsListed(t, k) <=> IsListed(s, k)
  <1>1. \A k : IsListed(t, k) <=> IsListed(s, k)
    BY DEF IsListed
  <1>2. \A k \in Clients : ClientIn(s, k) => ClientIn(t, k)
    BY ZenonT(30) DEF ClientIn
  <1>3. \A i \in DOMAIN s.connected : s.connected[i].client \in Clients
    BY ConnectedFacts
  <1>4. \A z \in s.zoneList : \A i \in DOMAIN s.zone[z].list : s.zone[z].list[i].client \in Clients
    BY Zenon, ZoneFacts DEF MobLists
  <1>5. \A n \in Names : s.byName[n] # None => s.byName[n] \in Clients
    BY Fields
  <1>6. \A z \in t.zoneList : \A i \in DOMAIN t.zone[z].list :
          LET k == t.zone[z].list[i].client IN
          t.client[k].index = i /\ t.client[k].zone = z /\ IsListed(t, k)
    <2> SUFFICES ASSUME NEW z \in s.zoneList, NEW i \in DOMAIN s.zone[z].list
                 PROVE  LET k == t.zone[z].list[i].client IN
                        t.client[k].index = i /\ t.client[k].zone = z /\ IsListed(t, k)
      BY Zenon
    <2> DEFINE k == s.zone[z].list[i].client
    <2>1. s.client[k].index = i /\ s.client[k].zone = z /\ IsListed(s, k)
      BY Zenon DEF ClientLists
    <2>2. k \in Clients /\ t.zone[z].list[i].client = k
      BY <1>4
    <2> HIDE DEF k
    <2> QED
      BY <1>1, <2>1, <2>2
  <1>7. ASSUME NEW i \in DOMAIN t.connected
        PROVE  LET k == t.connected[i].client IN
               /\ ClientIn(t, k) /\ t.client[k].name # None /\ t.byName[t.client[k].name] = k
               /\ \A j \in DOMAIN t.connected : t.connected[j].client = k => j = i
    <2> DEFINE k == s.connected[i].client
    <2>1. k \in Clients /\ t.connected[i].client = k
      BY <1>3
    <2>2. /\ ClientIn(s, k) /\ s.client[k].name # None /\ s.byName[s.client[k].name] = k
          /\ \A j \in DOMAIN s.connected : s.connected[j].client = k => j = i
      BY Zenon DEF ClientLists
    <2> HIDE DEF k
    <2> QED
      BY <1>2, <2>1, <2>2
  <1>8. \A n \in Names : t.byName[n] # None =>
          IsListed(t, t.byName[n]) /\ t.client[t.byName[n]].name = n
    <2> SUFFICES ASSUME NEW n \in Names, t.byName[n] # None
                 PROVE  IsListed(t, t.byName[n]) /\ t.client[t.byName[n]].name = n
      BY Zenon
    <2> DEFINE j == s.byName[n]
    <2>1. t.byName[n] = j /\ j # None /\ j \in Clients
      BY <1>1, Fields
    <2>2. IsListed(s, j) /\ s.client[j].name = n
      BY Zenon, <2>1 DEF ClientLists
    <2> HIDE DEF j
    <2> QED
      BY <1>1, <1>5, <2>1, <2>2
  <1>9. ClientLists(t)
    BY Zenon, <1>6, <1>7, <1>8 DEF ClientLists
  <1> QED
    BY <1>1, <1>9

\* What it does to the memory, whether the client is listed or not
ConnectedRemoved(s, k, t) ==
    /\ t \in Memory /\ SameWaits(s, t)
    /\ t.npcs = s.npcs /\ t.zoneList = s.zoneList /\ t.udp = s.udp
    /\ t.handler = s.handler /\ t.fault = s.fault
    /\ \A j \in Clients :
         /\ t.client[j].name = s.client[j].name /\ t.client[j].zone = s.client[j].zone
         /\ t.client[j].refs = s.client[j].refs /\ t.client[j].handler = s.client[j].handler
         /\ t.client[j].loaded = s.client[j].loaded /\ t.client[j].linkdead = s.client[j].linkdead
    /\ \A m \in Mobs : t.mob[m].entity = s.mob[m].entity
    /\ \A i \in DOMAIN t.connected : \E f \in DOMAIN s.connected : t.connected[i] = s.connected[f]
    /\ \A j \in Clients : j # k /\ IsListed(s, j) => IsListed(t, j)
    /\ \A j \in Clients : IsListed(t, j) =>
         LET y == s.client[j].zone IN
         t.zone[y].list[t.client[j].index] = s.zone[y].list[s.client[j].index]
    /\ \A n \in Names : t.byName[n] = IF IsListed(s, k) /\ n = s.client[k].name THEN None ELSE s.byName[n]

\* zc_remove_connected_client keeps the lists in order and leaves the client in none.
LEMMA RemoveConnectedIs ==
  ASSUME NEW s \in Memory, NEW k \in Clients, MobLists(s), ClientLists(s),
         NEW t, t = RemoveConnected(s, k)
  PROVE  ConnectedRemoved(s, k, t) /\ MobLists(t) /\ ClientLists(t) /\ ~IsListed(t, k)
  <1>1. PlaceOf(s, k) # {} <=> IsListed(s, k)
    BY DEF PlaceOf, IsListed
  <1>2. CASE ~IsListed(s, k)
    <2>1. t = s
      BY <1>1, <1>2 DEF RemoveConnected
    <2>2. ConnectedRemoved(s, k, s)
      BY <1>2 DEF ConnectedRemoved, SameWaits
    <2> QED
      BY <1>2, <2>1, <2>2
  <1>3. CASE IsListed(s, k)
    <2> DEFINE u == RemoveClient(s, k)
               c == Len(s.connected)
    <2>1. PICK p \in DOMAIN s.connected : s.connected[p].client = k
      BY <1>3 DEF IsListed
    <2>2. /\ ClientIn(s, k) /\ s.client[k].name # None /\ s.byName[s.client[k].name] = k
          /\ \A j \in DOMAIN s.connected : s.connected[j].client = k => j = p
      BY Zenon, <2>1 DEF ClientLists
    <2>3. /\ ClientRemoved(s, k, u) /\ MobLists(u)
          /\ \A y \in s.zoneList : \A m \in Mobs :
               m # k /\ (\E i \in DOMAIN s.zone[y].mobs : s.zone[y].mobs[i] = m) =>
                 u.mob[m].index \in DOMAIN u.zone[y].mobs /\ u.zone[y].mobs[u.mob[m].index] = m
      BY <2>2, MobsRemoved
    <2> HIDE DEF u
    <2>4. /\ c \in Nat /\ DOMAIN s.connected = 1 .. c /\ p \in 1 .. c /\ p \in Nat
          /\ s.connected \in Seq(ConnectedRecord)
          /\ \A i \in 1 .. c : s.connected[i].client \in Clients
      BY <2>1, ConnectedFacts, Fields
    <2>5. Least(PlaceOf(s, k)) = p
      <3>1. PlaceOf(s, k) = {p}
        BY <2>1, <2>2 DEF PlaceOf
      <3>2. PlaceOf(s, k) \in SUBSET Nat /\ PlaceOf(s, k) # {}
        BY <2>4, <3>1
      <3> QED
        BY <3>1, <3>2, LeastFound
    <2> DEFINE cn == SwapAndPop(s.connected, p)
               bn == Unnamed(s, k)
    <2>6. /\ cn \in Seq(ConnectedRecord) /\ Len(cn) = c - 1
          /\ \A j \in 1 .. c - 1 : cn[j] = s.connected[From(j, p, c)]
      BY <2>4, SwappedAndPopped
    <2>7. /\ bn \in [Names -> Clients \cup {None}]
          /\ \A n \in Names : bn[n] = IF n = s.client[k].name THEN None ELSE s.byName[n]
      BY Zenon, Fields DEF Unnamed
    <2>8. t = [u EXCEPT !.byName = bn, !.connected = cn]
      <3>1. u.connected = s.connected
        BY Zenon, <2>3 DEF ClientRemoved
      <3>2. t = [u EXCEPT !.byName = bn, !.connected = SwapAndPop(u.connected, Least(PlaceOf(s, k)))]
        BY <1>1, <1>3 DEF RemoveConnected, u
      <3> QED
        BY <2>5, <3>1, <3>2
    <2> HIDE DEF cn, bn
    <2>9. u \in Memory
      BY Zenon, <2>3 DEF ClientRemoved
    <2>10. /\ t \in Memory /\ SameWaits(u, t) /\ t.byName = bn /\ t.connected = cn
           /\ t.npcs = u.npcs /\ t.zoneList = u.zoneList /\ t.udp = u.udp
           /\ t.handler = u.handler /\ t.fault = u.fault
           /\ t.client = u.client /\ t.mob = u.mob /\ t.zone = u.zone
      <3>1. cn \in Seq(ConnectedRecord) /\ bn \in [Names -> Clients \cup {None}]
        BY <2>6, <2>7
      <3> QED
        BY ZenonT(30), <2>8, <2>9, <3>1 DEF Memory, SameWaits
    <2>11. /\ SameWaits(s, t)
           /\ t.npcs = s.npcs /\ t.zoneList = s.zoneList /\ t.udp = s.udp
           /\ t.handler = s.handler /\ t.fault = s.fault
           /\ \A j \in Clients :
                /\ t.client[j].name = s.client[j].name /\ t.client[j].zone = s.client[j].zone
                /\ t.client[j].refs = s.client[j].refs /\ t.client[j].handler = s.client[j].handler
                /\ t.client[j].loaded = s.client[j].loaded /\ t.client[j].linkdead = s.client[j].linkdead
           /\ \A m \in Mobs : t.mob[m].entity = s.mob[m].entity
      <3>1. /\ SameWaits(s, u)
            /\ u.npcs = s.npcs /\ u.zoneList = s.zoneList /\ u.udp = s.udp
            /\ u.handler = s.handler /\ u.fault = s.fault
        BY Zenon, <2>3 DEF ClientRemoved
      <3>2. /\ \A j \in Clients :
                /\ u.client[j].name = s.client[j].name /\ u.client[j].zone = s.client[j].zone
                /\ u.client[j].refs = s.client[j].refs /\ u.client[j].handler = s.client[j].handler
                /\ u.client[j].loaded = s.client[j].loaded /\ u.client[j].linkdead = s.client[j].linkdead
            /\ \A m \in Mobs : u.mob[m].entity = s.mob[m].entity
        BY Zenon, <2>3 DEF ClientRemoved
      <3>3. SameWaits(s, t)
        BY <2>10, <3>1 DEF SameWaits
      <3> QED
        BY <2>10, <3>1, <3>2, <3>3
    <2>12. DOMAIN t.connected = 1 .. c - 1
      BY <2>6, <2>10, LenProperties
    <2> HIDE DEF c
    \* Where the entries of connectedClients come from
    <2>13. ASSUME NEW i \in 1 .. c - 1
           PROVE  LET f == From(i, p, c) IN
                  f \in 1 .. c /\ f # p /\ t.connected[i] = s.connected[f] /\ s.connected[f].client # k
      <3>1. From(i, p, c) \in 1 .. c /\ From(i, p, c) # p
        BY <2>4, FromProperties
      <3> QED
        BY <2>2, <2>4, <2>6, <2>10, <3>1
    <2>14. ~IsListed(t, k)
      BY <2>12, <2>13 DEF IsListed
    <2>15. ASSUME NEW j \in Clients, j # k, IsListed(s, j)
           PROVE  IsListed(t, j)
      <3>1. PICK f \in 1 .. c : s.connected[f].client = j
        BY <2>4, <2>15 DEF IsListed
      <3>2. f # p
        BY <2>1, <2>15, <3>1
      <3>3. PICK i \in 1 .. c - 1 : From(i, p, c) = f
        BY <2>4, <3>2, FromProperties
      <3>4. t.connected[i].client = j
        BY <2>13, <3>1, <3>3
      <3> QED
        BY <2>12, <3>4 DEF IsListed
    <2>16. ASSUME NEW j \in Clients, IsListed(t, j)
           PROVE  j # k /\ IsListed(s, j) /\ ClientIn(s, j) /\ s.client[j].name # None
                  /\ s.byName[s.client[j].name] = j
      <3>1. PICK i \in 1 .. c - 1 : t.connected[i].client = j
        BY <2>12, <2>16 DEF IsListed
      <3>2. PICK f \in DOMAIN s.connected : s.connected[f].client = j /\ f # p
        BY <2>4, <2>13, <3>1
      <3> QED
        BY Zenon, <2>2, <3>2 DEF ClientLists, IsListed
    <2>17. /\ \A y \in s.zoneList : \A i \in DOMAIN u.zone[y].list :
                LET j == u.zone[y].list[i].client IN
                /\ j \in Clients /\ j # k /\ u.client[j].index = i
                /\ \E f \in DOMAIN s.zone[y].list : s.zone[y].list[f] = u.zone[y].list[i]
           /\ \A j \in Clients : j # k /\ ClientIn(s, j) =>
                LET y == s.client[j].zone IN
                /\ u.client[j].index \in DOMAIN u.zone[y].list
                /\ u.zone[y].list[u.client[j].index] = s.zone[y].list[s.client[j].index]
      <3>1. ClientIn(s, k) /\ ClientRemoved(s, k, u)
        BY Zenon, <2>2, <2>3
      <3>2. ListKept(s, k, u)
        BY Zenon, <3>1, ListRemoved
      <3> QED
        BY Zenon, <3>2 DEF ListKept
    <2>18. ConnectedRemoved(s, k, t)
      <3>1. \A i \in DOMAIN t.connected : \E f \in DOMAIN s.connected : t.connected[i] = s.connected[f]
        BY <2>4, <2>12, <2>13
      <3>2. \A j \in Clients : IsListed(t, j) =>
              LET y == s.client[j].zone IN
              t.zone[y].list[t.client[j].index] = s.zone[y].list[s.client[j].index]
        <4> SUFFICES ASSUME NEW j \in Clients, IsListed(t, j)
                     PROVE  LET y == s.client[j].zone IN
                            t.zone[y].list[t.client[j].index] = s.zone[y].list[s.client[j].index]
          BY Zenon
        <4> DEFINE y == s.client[j].zone
        <4>1. j # k /\ ClientIn(s, j)
          BY Zenon, <2>16
        <4>2. u.zone[y].list[u.client[j].index] = s.zone[y].list[s.client[j].index]
          BY Zenon, <2>17, <4>1
        <4>3. t.zone = u.zone /\ t.client = u.client
          BY Zenon, <2>10
        <4> QED
          BY Zenon, <4>2, <4>3
      <3>3. \A n \in Names : t.byName[n] = IF IsListed(s, k) /\ n = s.client[k].name THEN None ELSE s.byName[n]
        BY <1>3, <2>7, <2>10
      <3> QED
        BY Zenon, <2>10, <2>11, <2>15, <3>1, <3>2, <3>3 DEF ConnectedRemoved
    <2>19. MobLists(t)
      <3>1. \A y \in u.zoneList : u.zone[y] \in ZoneRecord
        BY Zenon, <2>3 DEF MobLists
      <3> QED
        BY <2>3, <2>10, <3>1, MobListsSame
    <2>20. ASSUME NEW y \in t.zoneList, NEW i \in DOMAIN t.zone[y].list
           PROVE  LET j == t.zone[y].list[i].client IN
                  t.client[j].index = i /\ t.client[j].zone = y /\ IsListed(t, j)
      <3> DEFINE j == t.zone[y].list[i].client
      <3>0. y \in s.zoneList /\ i \in DOMAIN u.zone[y].list /\ j = u.zone[y].list[i].client
        BY <2>10, <2>11
      <3>1. /\ j \in Clients /\ j # k /\ t.client[j].index = i
            /\ \E f \in DOMAIN s.zone[y].list : s.zone[y].list[f] = t.zone[y].list[i]
        <4> DEFINE g == u.zone[y].list[i].client
        <4>1. /\ g \in Clients /\ g # k /\ u.client[g].index = i
              /\ \E f \in DOMAIN s.zone[y].list : s.zone[y].list[f] = u.zone[y].list[i]
          BY Zenon, <2>17, <3>0
        <4>2. j = g /\ t.client = u.client /\ t.zone = u.zone
          BY Zenon, <2>10, <3>0
        <4> QED
          BY Zenon, <4>1, <4>2
      <3>2. PICK f \in DOMAIN s.zone[y].list : s.zone[y].list[f].client = j
        BY <3>1
      <3> HIDE DEF j
      <3>3. s.client[j].zone = y /\ IsListed(s, j)
        BY <2>2, <3>0, <3>2, ListPlaces
      <3>4. t.client[j].zone = y /\ IsListed(t, j)
        BY <2>11, <2>15, <3>1, <3>3
      <3> QED
        BY Zenon, <3>1, <3>4 DEF j
    <2>21. ASSUME NEW j \in Clients, IsListed(t, j)
           PROVE  ClientIn(t, j)
      <3> DEFINE y == s.client[j].zone
      <3>1. j # k /\ ClientIn(s, j)
        BY <2>16, <2>21
      <3>2. t.client[j].zone = y
        BY <2>11
      <3>3. y \in t.zoneList /\ y \in s.zoneList
        BY Zenon, <2>11, <3>1 DEF ClientIn
      <3>4. /\ t.client[j].index \in DOMAIN t.zone[y].list
            /\ t.zone[y].list[t.client[j].index] = s.zone[y].list[s.client[j].index]
        BY Zenon, <2>10, <2>17, <3>1
      <3>5. s.zone[y].list[s.client[j].index].client = j
        BY Zenon, <3>1 DEF ClientIn
      <3>6. t.mob[j].index \in DOMAIN t.zone[y].mobs /\ t.zone[y].mobs[t.mob[j].index] = j
        <4>1. \E i \in DOMAIN s.zone[y].mobs : s.zone[y].mobs[i] = j
          BY Zenon, <3>1 DEF ClientIn
        <4> HIDE DEF y
        <4> QED
          BY <2>3, <2>10, <3>1, <3>3, <4>1, ClientIsMob
      <3> HIDE DEF y
      <3> QED
        BY <3>2, <3>3, <3>4, <3>5, <3>6 DEF ClientIn
    <2>22. ASSUME NEW i \in DOMAIN t.connected
           PROVE  LET j == t.connected[i].client IN
                  /\ ClientIn(t, j) /\ t.client[j].name # None /\ t.byName[t.client[j].name] = j
                  /\ \A h \in DOMAIN t.connected : t.connected[h].client = j => h = i
      <3> DEFINE j == t.connected[i].client
      <3>1. j \in Clients /\ IsListed(t, j)
        BY <2>10, ConnectedFacts DEF IsListed
      <3>2. ClientIn(t, j)
        BY <2>21, <3>1
      <3>3. /\ j # k /\ s.client[j].name # None /\ s.byName[s.client[j].name] = j
            /\ t.client[j].name = s.client[j].name /\ s.client[j].name \in Names
        <4>1. s.client[j].name \in Names \cup {None}
          BY <3>1, Fields DEF ClientRecord
        <4> QED
          BY <2>11, <2>16, <3>1, <4>1
      <3>4. t.byName[t.client[j].name] = j
        BY <2>2, <2>7, <2>10, <3>3
      <3>5. ASSUME NEW h \in DOMAIN t.connected, t.connected[h].client = j
            PROVE  h = i
        <4>1. /\ t.connected[i] = s.connected[From(i, p, c)] /\ From(i, p, c) \in DOMAIN s.connected
              /\ t.connected[h] = s.connected[From(h, p, c)] /\ From(h, p, c) \in DOMAIN s.connected
              /\ i \in 1 .. c - 1 /\ h \in 1 .. c - 1
          BY <2>4, <2>12, <2>13, <3>5
        <4>2. From(h, p, c) = From(i, p, c)
          <5>1. \A g \in DOMAIN s.connected :
                  s.connected[g].client = s.connected[From(i, p, c)].client => g = From(i, p, c)
            BY Zenon, <4>1 DEF ClientLists
          <5>2. s.connected[From(h, p, c)].client = s.connected[From(i, p, c)].client
            BY Zenon, <3>5, <4>1
          <5> QED
            BY Zenon, <4>1, <5>1, <5>2
        <4> QED
          BY <2>4, <4>1, <4>2, FromProperties
      <3> HIDE DEF j
      <3> QED
        BY Zenon, <3>2, <3>3, <3>4, <3>5 DEF j
    <2>23. ASSUME NEW n \in Names, t.byName[n] # None
           PROVE  IsListed(t, t.byName[n]) /\ t.client[t.byName[n]].name = n
      <3> DEFINE j == s.byName[n]
      <3>1. t.byName[n] = j /\ n # s.client[k].name /\ j # None
        BY <2>7, <2>10, <2>23
      <3>2. j \in Clients
        BY <3>1, Fields
      <3>3. IsListed(s, j) /\ s.client[j].name = n
        BY Zenon, <3>1 DEF ClientLists
      <3> HIDE DEF j
      <3> QED
        BY <2>11, <2>15, <3>1, <3>2, <3>3
    <2>24. ClientLists(t)
      BY Zenon, <2>20, <2>22, <2>23 DEF ClientLists
    <2> QED
      BY <2>14, <2>18, <2>19, <2>24
  <1> QED
    BY <1>2, <1>3

-----------------------------------------------------------------------------
(* zone_spawn_mob and zone_spawn_client *)

\* The place of a new mob is free, and there is no hole behind the last.
LEMMA PlaceFound ==
  ASSUME NEW ents \in Seq(Mobs \cup {None}), NEW i, i = EntityPlace(ents)
  PROVE  /\ i \in 1 .. Len(ents) + 1 /\ (i \in DOMAIN ents => ents[i] = None)
         /\ (DOMAIN ents) \cup {i} = IF i \in DOMAIN ents THEN 1 .. Len(ents) ELSE 1 .. Len(ents) + 1
  <1> DEFINE gaps == {j \in DOMAIN ents : ents[j] = None}
  <1>1. DOMAIN ents = 1 .. Len(ents) /\ Len(ents) \in Nat
    BY LenProperties
  <1>2. CASE gaps = {}
    <2>1. i = Len(ents) + 1
      BY <1>2 DEF EntityPlace
    <2> QED
      BY <1>1, <2>1
  <1>3. CASE gaps # {}
    <2>1. gaps \in SUBSET Nat
      BY <1>1
    <2>2. i = Least(gaps)
      BY <1>3 DEF EntityPlace
    <2>3. Least(gaps) \in gaps
      BY <1>3, <2>1, LeastFound
    <2>4. i \in DOMAIN ents /\ ents[i] = None
      BY <2>2, <2>3
    <2>5. (DOMAIN ents) \cup {i} = DOMAIN ents
      BY <2>4
    <2>6. i \in 1 .. Len(ents) + 1
      BY <1>1, <2>4
    <2> QED
      BY <1>1, <2>4, <2>5, <2>6
  <1> QED
    BY <1>2, <1>3

\* What zone_spawn_mob does
MobSpawned(s, z, m, t) ==
    LET i == EntityPlace(s.zone[z].ents) IN
    /\ t \in Memory /\ SameWaits(s, t)
    /\ t.npcs = s.npcs /\ t.zoneList = s.zoneList /\ t.byName = s.byName /\ t.connected = s.connected
    /\ t.client = s.client /\ t.udp = s.udp /\ t.handler = s.handler /\ t.fault = s.fault
    /\ \A y \in Zones : y # z => t.zone[y] = s.zone[y]
    /\ t.zone[z] \in ZoneRecord /\ t.zone[z].list = s.zone[z].list
    /\ t.zone[z].mobs = Append(s.zone[z].mobs, m)
    /\ DOMAIN t.zone[z].ents = (DOMAIN s.zone[z].ents) \cup {i}
    /\ t.zone[z].ents[i] = m
    /\ \A j \in DOMAIN s.zone[z].ents : j # i => t.zone[z].ents[j] = s.zone[z].ents[j]
    /\ t.mob[m].entity = i /\ t.mob[m].index = Len(s.zone[z].mobs) + 1
    /\ \A x \in Mobs : x # m => t.mob[x] = s.mob[x]

\* The two arrays of mobs written
WriteMobs(s, z, e, m) == [[s EXCEPT !.zone[z].ents = e] EXCEPT !.zone[z].mobs = m]

AreWritten(s, z, e, m, t) ==
    /\ t \in Memory /\ SameButZones(s, t) /\ t.zone[z] \in ZoneRecord
    /\ t.zone[z].list = s.zone[z].list /\ t.zone[z].mobs = m /\ t.zone[z].ents = e
    /\ \A y \in Zones : y # z => t.zone[y] = s.zone[y]

\* What writing the two arrays of mobs of a zone does
LEMMA MobsWritten ==
  ASSUME NEW s \in Memory, NEW z \in Zones, s.zone[z] \in ZoneRecord,
         NEW e \in Seq(Mobs \cup {None}), NEW m \in Seq(Mobs),
         NEW t, t = WriteMobs(s, z, e, m)
  PROVE  AreWritten(s, z, e, m, t)
  <1> DEFINE a == [s EXCEPT !.zone[z].ents = e]
             b == [a EXCEPT !.zone[z].mobs = m]
  <1>1. t = b
    BY DEF WriteMobs
  <1>2. /\ a \in Memory /\ SameButZones(s, a) /\ a.zone[z] \in ZoneRecord
        /\ a.zone[z].list = s.zone[z].list /\ a.zone[z].mobs = s.zone[z].mobs /\ a.zone[z].ents = e
        /\ \A y \in Zones : y # z => a.zone[y] = s.zone[y]
    <2> DEFINE r == [s.zone[z] EXCEPT !.ents = e]
    <2>1. a = [s EXCEPT !.zone = [s.zone EXCEPT ![z] = r]]
      BY DEF Memory
    <2>2. /\ r \in ZoneRecord
          /\ r.list = s.zone[z].list /\ r.mobs = s.zone[z].mobs /\ r.ents = e
      BY DEF ZoneRecord
    <2> HIDE DEF r, a
    <2> DEFINE q == [s EXCEPT !.zone = [s.zone EXCEPT ![z] = r]]
    <2>3. /\ q \in Memory /\ SameButZones(s, q) /\ q.zone[z] = r
          /\ \A y \in Zones : y # z => q.zone[y] = s.zone[y]
      BY <2>2, ZoneWritten
    <2> HIDE DEF q
    <2>4. a = q
      BY <2>1 DEF q
    <2> QED
      BY <2>2, <2>3, <2>4
  <1> HIDE DEF a
  <1>3. /\ b \in Memory /\ SameButZones(a, b) /\ b.zone[z] \in ZoneRecord
        /\ b.zone[z].list = s.zone[z].list /\ b.zone[z].mobs = m /\ b.zone[z].ents = e
        /\ \A y \in Zones : y # z => b.zone[y] = a.zone[y]
    <2> DEFINE r == [a.zone[z] EXCEPT !.mobs = m]
    <2>1. b = [a EXCEPT !.zone = [a.zone EXCEPT ![z] = r]]
      BY <1>2 DEF Memory
    <2>2. /\ r \in ZoneRecord
          /\ r.list = s.zone[z].list /\ r.mobs = m /\ r.ents = e
      BY <1>2 DEF ZoneRecord
    <2> HIDE DEF r, b
    <2> DEFINE q == [a EXCEPT !.zone = [a.zone EXCEPT ![z] = r]]
    <2>3. /\ q \in Memory /\ SameButZones(a, q) /\ q.zone[z] = r
          /\ \A y \in Zones : y # z => q.zone[y] = a.zone[y]
      <3>1. a \in Memory /\ r \in ZoneRecord
        BY <1>2, <2>2
      <3> QED
        BY <3>1, ZoneWritten
    <2> HIDE DEF q
    <2>4. b = q
      BY <2>1 DEF q
    <2> QED
      BY <2>2, <2>3, <2>4
  <1> HIDE DEF b
  <1>4. SameButZones(s, b)
    BY <1>2, <1>3 DEF SameButZones, SameWaits
  <1> QED
    BY <1>1, <1>2, <1>3, <1>4 DEF AreWritten

\* zone_spawn_mob
LEMMA SpawnMobIs ==
  ASSUME NEW s \in Memory, NEW z \in Zones, s.zone[z] \in ZoneRecord, NEW m \in Mobs,
         NEW t, t = SpawnMob(s, z, m)
  PROVE  MobSpawned(s, z, m, t)
  <1> DEFINE ents == s.zone[z].ents
             i == EntityPlace(ents)
             n == Len(s.zone[z].mobs) + 1
             e2 == [j \in (DOMAIN ents) \cup {i} |-> IF j = i THEN m ELSE ents[j]]
             m2 == Append(s.zone[z].mobs, m)
             r == [entity |-> i, index |-> n]
             u == WriteMobs(s, z, e2, m2)
             f == [s.mob EXCEPT ![m] = r]
  <1>1. /\ ents \in Seq(Mobs \cup {None}) /\ DOMAIN ents = 1 .. Len(ents) /\ Len(ents) \in Nat
        /\ s.zone[z].mobs \in Seq(Mobs) /\ Len(s.zone[z].mobs) \in Nat
        /\ \A j \in DOMAIN ents : ents[j] \in Mobs \cup {None}
    BY ZoneFacts
  <1>2. /\ i \in 1 .. Len(ents) + 1 /\ (i \in DOMAIN ents => ents[i] = None)
        /\ (DOMAIN ents) \cup {i} = IF i \in DOMAIN ents THEN 1 .. Len(ents) ELSE 1 .. Len(ents) + 1
    BY <1>1, PlaceFound
  <1>3. t = [u EXCEPT !.mob[m] = r]
    <2>1. t = [[[s EXCEPT !.zone[z].ents = e2] EXCEPT !.zone[z].mobs = m2] EXCEPT !.mob[m] = r]
      BY DEF SpawnMob
    <2> QED
      BY <2>1 DEF WriteMobs
  <1> HIDE DEF i
  <1>4. e2 \in Seq(Mobs \cup {None})
    <2>1. \A j \in (DOMAIN ents) \cup {i} : e2[j] \in Mobs \cup {None}
      BY <1>1
    <2>2. PICK l \in Nat : (DOMAIN ents) \cup {i} = 1 .. l
      <3> HIDE DEF ents
      <3>1. CASE i \in DOMAIN ents
        BY <1>1, <1>2, <3>1
      <3>2. CASE i \notin DOMAIN ents
        <4>1. Len(ents) + 1 \in Nat
          BY <1>1
        <4> QED
          BY <1>2, <3>2, <4>1
      <3> QED
        BY <3>1, <3>2
    <2>3. e2 \in [1 .. l -> Mobs \cup {None}]
      <3> HIDE DEF ents
      <3>1. \A j \in 1 .. l : (IF j = i THEN m ELSE ents[j]) \in Mobs \cup {None}
        BY <1>1, <2>2
      <3>2. e2 = [j \in 1 .. l |-> IF j = i THEN m ELSE ents[j]]
        BY <2>2
      <3> QED
        BY <3>1, <3>2
    <2> HIDE DEF e2
    <2> QED
      BY <2>3, SeqDef
  <1>5. m2 \in Seq(Mobs)
    BY <1>1, AppendProperties
  <1>6. /\ DOMAIN e2 = (DOMAIN ents) \cup {i} /\ e2[i] = m
        /\ \A j \in DOMAIN ents : j # i => e2[j] = ents[j]
    OBVIOUS
  <1> HIDE DEF e2, m2
  <1>7. /\ u \in Memory /\ SameButZones(s, u) /\ u.zone[z] \in ZoneRecord
        /\ u.zone[z].list = s.zone[z].list /\ u.zone[z].mobs = m2 /\ u.zone[z].ents = e2
        /\ \A y \in Zones : y # z => u.zone[y] = s.zone[y]
    <2> DEFINE q == u
    <2>1. q = WriteMobs(s, z, e2, m2)
      OBVIOUS
    <2> HIDE DEF q, ents, n, r, f
    <2>2. /\ q \in Memory /\ SameButZones(s, q) /\ q.zone[z] \in ZoneRecord
          /\ q.zone[z].list = s.zone[z].list /\ q.zone[z].mobs = m2 /\ q.zone[z].ents = e2
          /\ \A y \in Zones : y # z => q.zone[y] = s.zone[y]
      <3>2. e2 \in Seq(Mobs \cup {None}) /\ m2 \in Seq(Mobs)
        BY <1>4, <1>5
      <3>1. AreWritten(s, z, e2, m2, q)
        BY <2>1, <3>2, MobsWritten
      <3> QED
        BY <3>1 DEF AreWritten
    <2> QED
      BY <2>2 DEF q
  <1> HIDE DEF u
  <1>8. r \in MobRecord /\ r.entity = i /\ r.index = n
    BY <1>1, <1>2 DEF MobRecord
  <1> HIDE DEF r, n
  <1>9. /\ f \in [Mobs -> MobRecord] /\ f[m] = r /\ \A x \in Mobs : x # m => f[x] = s.mob[x]
    <2>1. s.mob \in [Mobs -> MobRecord]
      BY Fields DEF MobRecord
    <2> QED
      BY <1>8, <2>1, Updated
  <1>10. t = [u EXCEPT !.mob = f]
    <2>1. u.mob = s.mob /\ u \in Memory
      BY <1>7 DEF SameButZones
    <2> QED
      BY <1>3, <2>1 DEF Memory
  <1> HIDE DEF f
  <1>11. /\ t \in Memory /\ t.mob = f /\ t.zone = u.zone /\ SameWaits(u, t)
         /\ t.npcs = u.npcs /\ t.zoneList = u.zoneList /\ t.byName = u.byName /\ t.connected = u.connected
         /\ t.client = u.client /\ t.udp = u.udp /\ t.handler = u.handler /\ t.fault = u.fault
    <2>1. u \in Memory /\ f \in [Mobs -> [entity : Nat, index : Nat]]
      BY <1>7, <1>9 DEF MobRecord
    <2> QED
      BY ZenonT(30), <1>10, <2>1 DEF Memory, SameWaits
  <1>12. /\ SameWaits(s, t)
         /\ t.npcs = s.npcs /\ t.zoneList = s.zoneList /\ t.byName = s.byName /\ t.connected = s.connected
         /\ t.client = s.client /\ t.udp = s.udp /\ t.handler = s.handler /\ t.fault = s.fault
    BY <1>7, <1>11 DEF SameButZones, SameWaits
  <1>13. /\ \A y \in Zones : y # z => t.zone[y] = s.zone[y]
         /\ t.zone[z] \in ZoneRecord /\ t.zone[z].list = s.zone[z].list
         /\ t.zone[z].mobs = m2
         /\ DOMAIN t.zone[z].ents = (DOMAIN ents) \cup {i}
         /\ t.zone[z].ents[i] = m
         /\ \A j \in DOMAIN ents : j # i => t.zone[z].ents[j] = ents[j]
    BY <1>6, <1>7, <1>11
  <1>14. /\ t.mob[m].entity = i /\ t.mob[m].index = n
         /\ \A x \in Mobs : x # m => t.mob[x] = s.mob[x]
    BY <1>8, <1>9, <1>11
  <1> QED
    BY <1>11, <1>12, <1>13, <1>14 DEF MobSpawned, m2, n, i

\* A mob without an entity id is in no zone; the others keep their places.
LEMMA MobsSpawned ==
  ASSUME NEW s \in Memory, MobLists(s), NEW z \in s.zoneList, NEW m \in Mobs,
         s.mob[m].entity = 0, m <= MaxClients + s.npcs,
         NEW t, t = SpawnMob(s, z, m)
  PROVE  /\ MobSpawned(s, z, m, t) /\ MobLists(t)
         /\ \A y \in s.zoneList : \A i \in DOMAIN s.zone[y].mobs :
              /\ s.zone[y].mobs[i] # m
              /\ i \in DOMAIN t.zone[y].mobs /\ t.zone[y].mobs[i] = s.zone[y].mobs[i]
         /\ t.mob[m].index \in DOMAIN t.zone[z].mobs /\ t.zone[z].mobs[t.mob[m].index] = m
  <1> DEFINE e == EntityPlace(s.zone[z].ents)
             n == Len(s.zone[z].mobs) + 1
  <1>1. \A y \in s.zoneList :
          /\ y \in Zones /\ s.zone[y] \in ZoneRecord
          /\ \A i \in DOMAIN s.zone[y].mobs :
               /\ s.zone[y].mobs[i] \in Mobs
               /\ s.mob[s.zone[y].mobs[i]].index = i
               /\ s.mob[s.zone[y].mobs[i]].entity \in DOMAIN s.zone[y].ents
               /\ s.zone[y].ents[s.mob[s.zone[y].mobs[i]].entity] = s.zone[y].mobs[i]
    BY Zenon, MobPlaces
  <1>d. \A x, y \in s.zoneList : \A i \in DOMAIN s.zone[x].mobs, j \in DOMAIN s.zone[y].mobs :
          s.zone[x].mobs[i] = s.zone[y].mobs[j] => x = y
    BY Zenon DEF MobLists
  <1>c. \A y \in s.zoneList : Cardinality(Entities(s, y)) = Len(s.zone[y].mobs)
    BY DEF MobLists
  <1>l. \A x \in Mobs : x > MaxClients + s.npcs => s.mob[x].entity = 0
    BY DEF MobLists
  <1>2. MobSpawned(s, z, m, t)
    BY Zenon, <1>1, SpawnMobIs
  <1>3. /\ t \in Memory /\ t.npcs = s.npcs /\ t.zoneList = s.zoneList
        /\ \A y \in Zones : y # z => t.zone[y] = s.zone[y]
        /\ t.zone[z] \in ZoneRecord
        /\ t.zone[z].mobs = Append(s.zone[z].mobs, m)
        /\ DOMAIN t.zone[z].ents = (DOMAIN s.zone[z].ents) \cup {e}
        /\ t.zone[z].ents[e] = m
        /\ \A j \in DOMAIN s.zone[z].ents : j # e => t.zone[z].ents[j] = s.zone[z].ents[j]
        /\ t.mob[m].entity = e /\ t.mob[m].index = n
        /\ \A x \in Mobs : x # m => t.mob[x] = s.mob[x]
    BY <1>2 DEF MobSpawned
  <1>4. /\ s.zone[z].mobs \in Seq(Mobs) /\ Len(s.zone[z].mobs) \in Nat
        /\ DOMAIN s.zone[z].mobs = 1 .. Len(s.zone[z].mobs)
        /\ s.zone[z].ents \in Seq(Mobs \cup {None}) /\ DOMAIN s.zone[z].ents = 1 .. Len(s.zone[z].ents)
        /\ Len(s.zone[z].ents) \in Nat
    BY Zenon, <1>1, ZoneFacts
  <1>5. /\ DOMAIN t.zone[z].mobs = 1 .. n /\ n \in Nat /\ t.zone[z].mobs[n] = m
        /\ \A i \in DOMAIN s.zone[z].mobs : i \in 1 .. n /\ i # n /\ t.zone[z].mobs[i] = s.zone[z].mobs[i]
        /\ \A i \in 1 .. n : i = n \/ i \in DOMAIN s.zone[z].mobs
        /\ Len(t.zone[z].mobs) = n
    <2>1. /\ Len(Append(s.zone[z].mobs, m)) = Len(s.zone[z].mobs) + 1
          /\ \A i \in 1 .. Len(s.zone[z].mobs) : Append(s.zone[z].mobs, m)[i] = s.zone[z].mobs[i]
          /\ Append(s.zone[z].mobs, m)[Len(s.zone[z].mobs) + 1] = m
      BY <1>4, AppendProperties
    <2>2. DOMAIN t.zone[z].mobs = 1 .. Len(t.zone[z].mobs)
      BY <1>3, ZoneFacts
    <2>3. Len(t.zone[z].mobs) = n
      BY <1>3, <2>1
    <2> QED
      BY SMTT(30), <1>3, <1>4, <2>1, <2>2, <2>3
  <1>6. e \in Nat \ {0} /\ (e \in DOMAIN s.zone[z].ents => s.zone[z].ents[e] = None)
    <2>1. e \in 1 .. Len(s.zone[z].ents) + 1 /\ (e \in DOMAIN s.zone[z].ents => s.zone[z].ents[e] = None)
      BY <1>4, PlaceFound
    <2> HIDE DEF e
    <2> QED
      BY <1>4, <2>1
  <1> HIDE DEF e, n
  <1>7. ASSUME NEW y \in s.zoneList, NEW i \in DOMAIN s.zone[y].mobs
        PROVE  /\ s.zone[y].mobs[i] # m
               /\ i \in DOMAIN t.zone[y].mobs /\ t.zone[y].mobs[i] = s.zone[y].mobs[i]
    <2>1. s.mob[s.zone[y].mobs[i]].entity # 0
      <3>1. DOMAIN s.zone[y].ents = 1 .. Len(s.zone[y].ents) /\ Len(s.zone[y].ents) \in Nat
        BY Zenon, <1>1, ZoneFacts
      <3>2. s.mob[s.zone[y].mobs[i]].entity \in 1 .. Len(s.zone[y].ents)
        BY ZenonT(30), <1>1, <3>1
      <3> QED
        BY <3>1, <3>2
    <2>2. CASE y = z
      BY <1>5, <2>1, <2>2
    <2>3. CASE y # z
      BY Zenon, <1>1, <1>3, <2>1, <2>3
    <2> QED
      BY <2>2, <2>3
  \* What was found is found still.
  <1>8. ASSUME NEW y \in s.zoneList, NEW i \in DOMAIN s.zone[y].mobs
        PROVE  LET x == s.zone[y].mobs[i] IN
               /\ t.mob[x].index = i
               /\ t.mob[x].entity \in DOMAIN t.zone[y].ents /\ t.zone[y].ents[t.mob[x].entity] = x
    <2> DEFINE x == s.zone[y].mobs[i]
               f == s.mob[x].entity
    <2>1. x \in Mobs /\ x # m /\ s.mob[x].index = i /\ f \in DOMAIN s.zone[y].ents /\ s.zone[y].ents[f] = x
      BY Zenon, <1>1, <1>7
    <2>2. t.mob[x] = s.mob[x]
      BY Zenon, <1>3, <2>1
    <2> HIDE DEF x
    <2>3. f \in DOMAIN t.zone[y].ents /\ t.zone[y].ents[f] = x
      <3>1. CASE y = z
        <4>1. f # e
          BY <1>6, <2>1, <3>1, ClientIsMob
        <4> HIDE DEF f
        <4> QED
          BY <1>3, <2>1, <3>1, <4>1
      <3>2. CASE y # z
        BY Zenon, <1>1, <1>3, <2>1, <3>2
      <3> QED
        BY <3>1, <3>2
    <2> QED
      BY Zenon, <2>1, <2>2, <2>3 DEF x
  <1>9. Cardinality(Entities(t, z)) = n
    <2>1. Entities(t, z) = Entities(s, z) \cup {e}
      BY <1>3, <1>6, ClientIsMob DEF Entities
    <2>2. e \notin Entities(s, z)
      BY <1>6 DEF Entities
    <2>3. IsFiniteSet(DOMAIN s.zone[z].ents)
      <3>1. DOMAIN s.zone[z].ents = 1 .. Len(s.zone[z].ents) /\ Len(s.zone[z].ents) \in Nat
        BY <1>4
      <3> DEFINE l == Len(s.zone[z].ents)
      <3>2. 1 \in Int /\ l \in Int
        BY <3>1
      <3> HIDE DEF l
      <3>3. IsFiniteSet(1 .. l)
        BY <3>2, FS_Interval
      <3> QED
        BY <3>1, <3>3 DEF l
    <2>4. IsFiniteSet(Entities(s, z))
      BY <2>3, FS_Subset DEF Entities
    <2>5. Cardinality(Entities(s, z)) = Len(s.zone[z].mobs)
      BY <1>c
    <2> QED
      BY ZenonT(30), <2>1, <2>2, <2>4, <2>5, FS_AddElement DEF n
  <1>10. ASSUME NEW y \in t.zoneList
         PROVE  /\ t.zone[y] \in ZoneRecord
                /\ \A i \in DOMAIN t.zone[y].mobs :
                     LET x == t.zone[y].mobs[i] IN
                     /\ t.mob[x].index = i
                     /\ t.mob[x].entity \in DOMAIN t.zone[y].ents /\ t.zone[y].ents[t.mob[x].entity] = x
                /\ Cardinality(Entities(t, y)) = Len(t.zone[y].mobs)
    <2>0. y \in s.zoneList
      BY <1>3
    <2>1. CASE y = z
      <3>1. ASSUME NEW i \in DOMAIN t.zone[z].mobs
            PROVE  LET x == t.zone[z].mobs[i] IN
                   /\ t.mob[x].index = i
                   /\ t.mob[x].entity \in DOMAIN t.zone[z].ents /\ t.zone[z].ents[t.mob[x].entity] = x
        <4>1. CASE i = n
          BY Zenon, <1>3, <1>5, <4>1
        <4>2. CASE i # n
          <5>1. i \in DOMAIN s.zone[z].mobs
            BY <1>5, <4>2
          <5>2. t.zone[z].mobs[i] = s.zone[z].mobs[i]
            BY <1>5, <5>1
          <5> QED
            BY Zenon, <1>8, <5>1, <5>2
        <4> QED
          BY Zenon, <4>1, <4>2
      <3> QED
        BY Zenon, <1>3, <1>5, <1>9, <2>1, <3>1
    <2>2. CASE y # z
      <3>1. t.zone[y] = s.zone[y]
        BY Zenon, <1>1, <1>3, <2>0, <2>2
      <3>2. Entities(t, y) = Entities(s, y)
        BY <3>1 DEF Entities
      <3>3. s.zone[y] \in ZoneRecord /\ Cardinality(Entities(s, y)) = Len(s.zone[y].mobs)
        BY Zenon, <1>1, <1>c, <2>0
      <3>4. \A i \in DOMAIN s.zone[y].mobs :
              LET x == s.zone[y].mobs[i] IN
              /\ t.mob[x].index = i
              /\ t.mob[x].entity \in DOMAIN t.zone[y].ents /\ t.zone[y].ents[t.mob[x].entity] = x
        BY Zenon, <1>8, <2>0
      <3> QED
        BY Zenon, <3>1, <3>2, <3>3, <3>4
    <2> QED
      BY Zenon, <2>1, <2>2
  <1>11. ASSUME NEW x \in t.zoneList, NEW y \in t.zoneList,
                NEW i \in DOMAIN t.zone[x].mobs, NEW j \in DOMAIN t.zone[y].mobs,
                t.zone[x].mobs[i] = t.zone[y].mobs[j]
         PROVE  x = y
    <2>0. x \in s.zoneList /\ y \in s.zoneList
      BY <1>3
    <2>1. \A w \in s.zoneList : \A h \in DOMAIN t.zone[w].mobs :
            \/ w = z /\ t.zone[w].mobs[h] = m
            \/ h \in DOMAIN s.zone[w].mobs /\ t.zone[w].mobs[h] = s.zone[w].mobs[h]
      <3> SUFFICES ASSUME NEW w \in s.zoneList, NEW h \in DOMAIN t.zone[w].mobs
                   PROVE  \/ w = z /\ t.zone[w].mobs[h] = m
                          \/ h \in DOMAIN s.zone[w].mobs /\ t.zone[w].mobs[h] = s.zone[w].mobs[h]
        OBVIOUS
      <3>1. CASE w = z
        BY <1>5, <3>1
      <3>2. CASE w # z
        <4>1. t.zone[w] = s.zone[w]
          BY Zenon, <1>1, <1>3, <3>2
        <4> QED
          BY <4>1
      <3> QED
        BY <3>1, <3>2
    <2> QED
      BY <1>d, <1>7, <1>11, <2>0, <2>1
  <1>12. \A x \in Mobs : x > MaxClients + t.npcs => t.mob[x].entity = 0
    <2>1. MaxClients + s.npcs \in Nat /\ m \in Nat
      BY Fields, ZoneAssumption DEF Mobs
    <2>2. ~(m > MaxClients + s.npcs)
      BY <2>1
    <2> QED
      BY <1>3, <1>l, <2>2
  <1>13. MobLists(t)
    BY Zenon, <1>10, <1>11, <1>12 DEF MobLists
  <1>14. t.mob[m].index \in DOMAIN t.zone[z].mobs /\ t.zone[z].mobs[t.mob[m].index] = m
    BY <1>3, <1>4, <1>5 DEF n
  <1> QED
    BY <1>2, <1>7, <1>13, <1>14

\* The list of a zone written
WriteList(s, z, l) == [s EXCEPT !.zone[z].list = l]

ListIsWritten(s, z, l, t) ==
    /\ t \in Memory /\ SameButZones(s, t) /\ t.zone[z] \in ZoneRecord
    /\ t.zone[z].list = l /\ t.zone[z].mobs = s.zone[z].mobs /\ t.zone[z].ents = s.zone[z].ents
    /\ \A y \in Zones : y # z => t.zone[y] = s.zone[y]

\* What writing the client list of a zone does
LEMMA ListWritten ==
  ASSUME NEW s \in Memory, NEW z \in Zones, s.zone[z] \in ZoneRecord, NEW l \in Seq(ListRecord),
         NEW t, t = WriteList(s, z, l)
  PROVE  ListIsWritten(s, z, l, t)
  <1> DEFINE r == [s.zone[z] EXCEPT !.list = l]
             q == [s EXCEPT !.zone = [s.zone EXCEPT ![z] = r]]
  <1>1. t = q
    BY DEF WriteList, Memory
  <1>2. /\ r \in ZoneRecord
        /\ r.list = l /\ r.mobs = s.zone[z].mobs /\ r.ents = s.zone[z].ents
    BY DEF ZoneRecord
  <1> HIDE DEF r
  <1>3. /\ q \in Memory /\ SameButZones(s, q) /\ q.zone[z] = r
        /\ \A y \in Zones : y # z => q.zone[y] = s.zone[y]
    BY <1>2, ZoneWritten
  <1> HIDE DEF q
  <1> QED
    BY <1>1, <1>2, <1>3 DEF ListIsWritten

\* The clients written
ClientsAre(s, f, t) ==
    /\ t \in Memory /\ t.client = f /\ SameLists(s, t) /\ SameWaits(s, t)
    /\ t.udp = s.udp /\ t.handler = s.handler /\ t.fault = s.fault

\* What writing clients does to the memory
LEMMA ClientsWritten ==
  ASSUME NEW s \in Memory, NEW f \in [Clients -> ClientRecord], NEW t, t = [s EXCEPT !.client = f]
  PROVE  ClientsAre(s, f, t)
  <1>1. t \in Memory /\ t.client = f
    BY DEF Memory
  <1>2. SameLists(s, t) /\ SameWaits(s, t) /\ t.udp = s.udp /\ t.handler = s.handler /\ t.fault = s.fault
    BY DEF SameLists, SameWaits, Memory
  <1> QED
    BY <1>1, <1>2 DEF ClientsAre

-----------------------------------------------------------------------------
(* zc_add_connected_client *)

\* The memory with client k in the tables of the cluster
InTables(s, k) ==
    [s EXCEPT !.byName[s.client[k].name] = k,
              !.connected = Append(@, [client |-> k, handler |-> s.client[k].handler])]

TablesWritten(s, k, t) ==
    /\ t \in Memory /\ SameWaits(s, t)
    /\ t.npcs = s.npcs /\ t.zoneList = s.zoneList /\ t.zone = s.zone /\ t.mob = s.mob
    /\ t.client = s.client /\ t.udp = s.udp /\ t.handler = s.handler /\ t.fault = s.fault
    /\ t.connected = Append(s.connected, [client |-> k, handler |-> s.client[k].handler])
    /\ \A n \in Names : t.byName[n] = IF n = s.client[k].name THEN k ELSE s.byName[n]

\* The tables after zc_add_connected_client, before the client is spawned
LEMMA InTablesIs ==
  ASSUME NEW s \in Memory, NEW k \in Clients, NEW t, t = InTables(s, k)
  PROVE  TablesWritten(s, k, t)
  <1> DEFINE e == [client |-> k, handler |-> s.client[k].handler]
             cn == Append(s.connected, e)
             bn == [s.byName EXCEPT ![s.client[k].name] = k]
  <1>1. e \in ConnectedRecord
    <2>1. s.client[k].handler \in Conns \cup {None}
      BY Fields DEF ClientRecord
    <2> QED
      BY <2>1 DEF ConnectedRecord
  <1> HIDE DEF e
  <1>2. cn \in Seq(ConnectedRecord)
    BY <1>1, Fields, AppendProperties
  <1>3. /\ bn \in [Names -> Clients \cup {None}]
        /\ \A n \in Names : bn[n] = IF n = s.client[k].name THEN k ELSE s.byName[n]
    BY Fields
  <1>4. t = [[s EXCEPT !.byName = bn] EXCEPT !.connected = cn]
    BY DEF InTables, Memory, e
  <1> HIDE DEF cn, bn
  <1>5. t \in Memory /\ t.byName = bn /\ t.connected = cn
    BY ZenonT(30), <1>2, <1>3, <1>4 DEF Memory
  <1>6. /\ SameWaits(s, t)
        /\ t.npcs = s.npcs /\ t.zoneList = s.zoneList /\ t.zone = s.zone /\ t.mob = s.mob
        /\ t.client = s.client /\ t.udp = s.udp /\ t.handler = s.handler /\ t.fault = s.fault
    BY <1>4 DEF SameWaits, Memory
  <1> QED
    BY <1>3, <1>5, <1>6 DEF TablesWritten, cn, e

\* What zone_spawn_client does
ClientSpawned(s, z, k, t) ==
    /\ t \in Memory /\ SameWaits(s, t)
    /\ t.npcs = s.npcs /\ t.zoneList = s.zoneList /\ t.byName = s.byName /\ t.connected = s.connected
    /\ t.udp = s.udp /\ t.handler = s.handler /\ t.fault = s.fault
    /\ \A y \in Zones : y # z => t.zone[y].list = s.zone[y].list
    /\ t.zone[z] \in ZoneRecord
    /\ t.zone[z].list = Append(s.zone[z].list, [client |-> k, linkdead |-> FALSE])
    /\ \A y \in s.zoneList : \A i \in DOMAIN s.zone[y].mobs :
         /\ s.zone[y].mobs[i] # k
         /\ i \in DOMAIN t.zone[y].mobs /\ t.zone[y].mobs[i] = s.zone[y].mobs[i]
    /\ t.mob[k].index \in DOMAIN t.zone[z].mobs /\ t.zone[z].mobs[t.mob[k].index] = k
    /\ \A x \in Mobs : x # k => t.mob[x] = s.mob[x]
    /\ \A j \in Clients :
         /\ t.client[j].name = s.client[j].name /\ t.client[j].zone = s.client[j].zone
         /\ t.client[j].refs = s.client[j].refs /\ t.client[j].handler = s.client[j].handler
         /\ t.client[j].loaded = s.client[j].loaded /\ t.client[j].linkdead = s.client[j].linkdead
         /\ t.client[j].index = IF j = k THEN Len(s.zone[z].list) + 1 ELSE s.client[j].index

\* zone_spawn_client of a client that was not spawned before keeps the mobs in order.
LEMMA SpawnClientIs ==
  ASSUME NEW s \in Memory, MobLists(s), NEW z \in s.zoneList, NEW k \in Clients, s.mob[k].entity = 0,
         NEW t, t = SpawnClient(s, z, k)
  PROVE  ClientSpawned(s, z, k, t) /\ MobLists(t)
  <1> DEFINE v == SpawnMob(s, z, k)
             e == [client |-> k, linkdead |-> FALSE]
             l == Append(v.zone[z].list, e)
             w == WriteList(v, z, l)
             x == Len(v.zone[z].list) + 1
             f == [w.client EXCEPT ![k].index = x]
  <1>1. k \in Mobs /\ k <= MaxClients + s.npcs /\ z \in Zones
    <2>1. s.npcs \in Nat /\ z \in Zones
      BY Fields
    <2> QED
      BY <2>1, ClientIsMob, ZoneAssumption DEF Clients
  <1>2. /\ MobSpawned(s, z, k, v) /\ MobLists(v)
        /\ \A y \in s.zoneList : \A i \in DOMAIN s.zone[y].mobs :
              /\ s.zone[y].mobs[i] # k
              /\ i \in DOMAIN v.zone[y].mobs /\ v.zone[y].mobs[i] = s.zone[y].mobs[i]
        /\ v.mob[k].index \in DOMAIN v.zone[z].mobs /\ v.zone[z].mobs[v.mob[k].index] = k
    BY <1>1, MobsSpawned
  <1>3. t = [[v EXCEPT !.zone[z].list = l] EXCEPT !.client[k].index = x]
    BY DEF SpawnClient
  <1> HIDE DEF v
  <1>4. /\ v \in Memory /\ SameWaits(s, v)
        /\ v.npcs = s.npcs /\ v.zoneList = s.zoneList /\ v.byName = s.byName /\ v.connected = s.connected
        /\ v.client = s.client /\ v.udp = s.udp /\ v.handler = s.handler /\ v.fault = s.fault
        /\ \A y \in Zones : y # z => v.zone[y] = s.zone[y]
        /\ v.zone[z] \in ZoneRecord /\ v.zone[z].list = s.zone[z].list
        /\ \A y \in Mobs : y # k => v.mob[y] = s.mob[y]
    BY <1>2 DEF MobSpawned
  <1>5. l \in Seq(ListRecord) /\ x \in Nat
    <2>1. e \in ListRecord
      BY DEF ListRecord
    <2> HIDE DEF e
    <2>2. v.zone[z].list \in Seq(ListRecord) /\ Len(v.zone[z].list) \in Nat
      BY <1>4, ZoneFacts
    <2> QED
      BY <2>1, <2>2, AppendProperties
  <1> HIDE DEF e, l, x
  <1>6. ListIsWritten(v, z, l, w)
    <2>1. w = WriteList(v, z, l)
      OBVIOUS
    <2> HIDE DEF w
    <2> QED
      BY <1>1, <1>4, <1>5, <2>1, ListWritten
  <1>7. t = [w EXCEPT !.client[k].index = x]
    BY <1>3 DEF WriteList
  <1> HIDE DEF w
  <1>8. /\ w \in Memory /\ SameButZones(v, w) /\ w.zone[z] \in ZoneRecord
        /\ w.zone[z].list = l /\ w.zone[z].mobs = v.zone[z].mobs /\ w.zone[z].ents = v.zone[z].ents
        /\ \A y \in Zones : y # z => w.zone[y] = v.zone[y]
    BY <1>6 DEF ListIsWritten
  <1>9. /\ f \in [Clients -> ClientRecord]
        /\ \A j \in Clients :
              /\ f[j].name = w.client[j].name /\ f[j].zone = w.client[j].zone
              /\ f[j].refs = w.client[j].refs /\ f[j].handler = w.client[j].handler
              /\ f[j].loaded = w.client[j].loaded /\ f[j].linkdead = w.client[j].linkdead
              /\ f[j].index = IF j = k THEN x ELSE w.client[j].index
    <2>1. w.client \in [Clients -> ClientRecord]
      BY <1>8, Fields
    <2> QED
      BY <1>5, <2>1, IndexOfClient
  <1>10. t = [w EXCEPT !.client = f]
    BY <1>7, <1>8 DEF Memory
  <1> HIDE DEF f
  <1>11. ClientsAre(w, f, t)
    BY <1>8, <1>9, <1>10, ClientsWritten
  <1>12. /\ t \in Memory /\ t.client = f /\ SameLists(w, t) /\ SameWaits(w, t)
         /\ t.udp = w.udp /\ t.handler = w.handler /\ t.fault = w.fault
    BY <1>11 DEF ClientsAre
  <1>13. /\ t.zone = w.zone /\ t.mob = v.mob /\ w.client = s.client /\ SameWaits(s, t)
         /\ t.npcs = s.npcs /\ t.zoneList = s.zoneList /\ t.byName = s.byName /\ t.connected = s.connected
         /\ t.udp = s.udp /\ t.handler = s.handler /\ t.fault = s.fault
    BY <1>4, <1>8, <1>12 DEF SameLists, SameWaits, SameButZones
  <1>14. \A y \in s.zoneList : y \in Zones /\ w.zone[y] \in ZoneRecord /\ w.zone[y].mobs = v.zone[y].mobs
                               /\ w.zone[y].ents = v.zone[y].ents
    <2> SUFFICES ASSUME NEW y \in s.zoneList
                 PROVE  y \in Zones /\ w.zone[y] \in ZoneRecord /\ w.zone[y].mobs = v.zone[y].mobs
                        /\ w.zone[y].ents = v.zone[y].ents
      OBVIOUS
    <2>1. y \in Zones /\ v.zone[y] \in ZoneRecord
      BY Zenon, <1>2, <1>4, Fields DEF MobLists
    <2>2. CASE y = z
      BY <1>8, <2>1, <2>2
    <2>3. CASE y # z
      BY <1>8, <2>1, <2>3
    <2> QED
      BY <2>2, <2>3
  <1>15. MobLists(t)
    <2>1. /\ t.mob = v.mob /\ t.npcs = v.npcs /\ t.zoneList = v.zoneList
          /\ \A y \in v.zoneList : /\ t.zone[y] \in ZoneRecord
                                   /\ t.zone[y].mobs = v.zone[y].mobs /\ t.zone[y].ents = v.zone[y].ents
      BY <1>4, <1>13, <1>14
    <2> QED
      BY <1>2, <2>1, MobListsSame
  <1>16. /\ \A y \in Zones : y # z => t.zone[y].list = s.zone[y].list
         /\ t.zone[z] \in ZoneRecord
         /\ t.zone[z].list = Append(s.zone[z].list, [client |-> k, linkdead |-> FALSE])
    BY <1>4, <1>8, <1>13 DEF l, e
  <1>17. /\ \A y \in s.zoneList : \A i \in DOMAIN s.zone[y].mobs :
              /\ s.zone[y].mobs[i] # k
              /\ i \in DOMAIN t.zone[y].mobs /\ t.zone[y].mobs[i] = s.zone[y].mobs[i]
         /\ t.mob[k].index \in DOMAIN t.zone[z].mobs /\ t.zone[z].mobs[t.mob[k].index] = k
         /\ \A y \in Mobs : y # k => t.mob[y] = s.mob[y]
    <2>1. \A y \in s.zoneList : t.zone[y].mobs = v.zone[y].mobs
      BY <1>13, <1>14
    <2> QED
      BY <1>2, <1>4, <1>13, <2>1
  <1>18. \A j \in Clients :
         /\ t.client[j].name = s.client[j].name /\ t.client[j].zone = s.client[j].zone
         /\ t.client[j].refs = s.client[j].refs /\ t.client[j].handler = s.client[j].handler
         /\ t.client[j].loaded = s.client[j].loaded /\ t.client[j].linkdead = s.client[j].linkdead
         /\ t.client[j].index = IF j = k THEN Len(s.zone[z].list) + 1 ELSE s.client[j].index
    BY <1>4, <1>9, <1>12, <1>13 DEF x
  <1>19. ClientSpawned(s, z, k, t)
    BY Zenon, <1>12, <1>13, <1>16, <1>17, <1>18 DEF ClientSpawned
  <1> QED
    BY <1>15, <1>19

\* What zc_add_connected_client does once a client of the same name is out of the way
Entered(s, k, t) ==
    /\ t \in Memory /\ SameWaits(s, t)
    /\ t.npcs = s.npcs /\ t.zoneList = s.zoneList /\ t.udp = s.udp
    /\ t.handler = s.handler /\ t.fault = s.fault
    /\ \A j \in Clients :
         /\ t.client[j].name = s.client[j].name /\ t.client[j].zone = s.client[j].zone
         /\ t.client[j].refs = s.client[j].refs /\ t.client[j].handler = s.client[j].handler
         /\ t.client[j].loaded = s.client[j].loaded /\ t.client[j].linkdead = s.client[j].linkdead
    /\ \A i \in DOMAIN t.connected :
         \/ \E f \in DOMAIN s.connected : t.connected[i] = s.connected[f]
         \/ t.connected[i].client = k /\ t.connected[i].handler = s.client[k].handler
    /\ \A j \in Clients : j # k /\ IsListed(t, j) =>
         LET y == s.client[j].zone IN
         t.zone[y].list[t.client[j].index] = s.zone[y].list[s.client[j].index]

\* A client that enters under a name no listed client has keeps the lists in order.
LEMMA EnteredIs ==
  ASSUME NEW s \in Memory, MobLists(s), ClientLists(s), NEW k \in Clients, Born(s, k),
         s.client[k].zone \in s.zoneList, s.byName[s.client[k].name] = None, s.mob[k].entity = 0,
         NEW t, t = SpawnClient(InTables(s, k), s.client[k].zone, k)
  PROVE  Entered(s, k, t) /\ MobLists(t) /\ ClientLists(t)
  <1> DEFINE u == InTables(s, k)
             z == s.client[k].zone
             nm == s.client[k].name
             e == [client |-> k, handler |-> s.client[k].handler]
             g == [client |-> k, linkdead |-> FALSE]
             c == Len(s.connected)
             l == Len(s.zone[z].list)
  <1>1. TablesWritten(s, k, u)
    BY InTablesIs
  <1>t. t = SpawnClient(u, z, k)
    OBVIOUS
  <1> HIDE DEF u
  <1>2. /\ u \in Memory /\ SameWaits(s, u)
        /\ u.npcs = s.npcs /\ u.zoneList = s.zoneList /\ u.zone = s.zone /\ u.mob = s.mob
        /\ u.client = s.client /\ u.udp = s.udp /\ u.handler = s.handler /\ u.fault = s.fault
        /\ u.connected = Append(s.connected, e)
        /\ \A n \in Names : u.byName[n] = IF n = nm THEN k ELSE s.byName[n]
    BY <1>1 DEF TablesWritten
  <1>3. MobLists(u)
    <2>1. \A y \in s.zoneList : s.zone[y] \in ZoneRecord
      BY Zenon DEF MobLists
    <2> QED
      BY <1>2, <2>1, MobListsSame
  <1>4. ClientSpawned(u, z, k, t) /\ MobLists(t)
    <2>1. z \in u.zoneList /\ u.mob[k].entity = 0
      BY <1>2
    <2> HIDE DEF z
    <2> QED
      BY <1>t, <1>2, <1>3, <2>1, SpawnClientIs
  <1>5. /\ t \in Memory /\ SameWaits(u, t)
        /\ t.npcs = s.npcs /\ t.zoneList = s.zoneList /\ t.byName = u.byName /\ t.connected = u.connected
        /\ t.udp = s.udp /\ t.handler = s.handler /\ t.fault = s.fault
        /\ \A y \in Zones : y # z => t.zone[y].list = s.zone[y].list
        /\ t.zone[z] \in ZoneRecord
        /\ t.zone[z].list = Append(s.zone[z].list, g)
    BY ZenonT(30), <1>2, <1>4 DEF ClientSpawned
  <1>6. /\ \A y \in s.zoneList : \A i \in DOMAIN s.zone[y].mobs :
             /\ s.zone[y].mobs[i] # k
             /\ i \in DOMAIN t.zone[y].mobs /\ t.zone[y].mobs[i] = s.zone[y].mobs[i]
        /\ t.mob[k].index \in DOMAIN t.zone[z].mobs /\ t.zone[z].mobs[t.mob[k].index] = k
        /\ \A x \in Mobs : x # k => t.mob[x] = s.mob[x]
    <2> HIDE DEF z
    <2>1. /\ \A y \in u.zoneList : \A i \in DOMAIN u.zone[y].mobs :
               /\ u.zone[y].mobs[i] # k
               /\ i \in DOMAIN t.zone[y].mobs /\ t.zone[y].mobs[i] = u.zone[y].mobs[i]
          /\ t.mob[k].index \in DOMAIN t.zone[z].mobs /\ t.zone[z].mobs[t.mob[k].index] = k
          /\ \A x \in Mobs : x # k => t.mob[x] = u.mob[x]
      BY Zenon, <1>4 DEF ClientSpawned
    <2>2. u.zoneList = s.zoneList /\ u.zone = s.zone /\ u.mob = s.mob
      BY <1>2
    <2>3. ASSUME NEW y \in s.zoneList, NEW i \in DOMAIN s.zone[y].mobs
          PROVE  /\ s.zone[y].mobs[i] # k
                 /\ i \in DOMAIN t.zone[y].mobs /\ t.zone[y].mobs[i] = s.zone[y].mobs[i]
      <3>1. y \in u.zoneList /\ i \in DOMAIN u.zone[y].mobs /\ u.zone[y].mobs[i] = s.zone[y].mobs[i]
        BY <2>2
      <3> QED
        BY Zenon, <2>1, <3>1
    <2>4. \A x \in Mobs : x # k => t.mob[x] = s.mob[x]
      BY Zenon, <2>1, <2>2
    <2>5. t.mob[k].index \in DOMAIN t.zone[z].mobs /\ t.zone[z].mobs[t.mob[k].index] = k
      BY Zenon, <2>1
    <2> QED
      BY Zenon, <2>3, <2>4, <2>5
  <1>7. \A j \in Clients :
         /\ t.client[j].name = s.client[j].name /\ t.client[j].zone = s.client[j].zone
         /\ t.client[j].refs = s.client[j].refs /\ t.client[j].handler = s.client[j].handler
         /\ t.client[j].loaded = s.client[j].loaded /\ t.client[j].linkdead = s.client[j].linkdead
         /\ t.client[j].index = IF j = k THEN l + 1 ELSE s.client[j].index
    <2> HIDE DEF z
    <2>1. \A j \in Clients :
            /\ t.client[j].name = u.client[j].name /\ t.client[j].zone = u.client[j].zone
            /\ t.client[j].refs = u.client[j].refs /\ t.client[j].handler = u.client[j].handler
            /\ t.client[j].loaded = u.client[j].loaded /\ t.client[j].linkdead = u.client[j].linkdead
            /\ t.client[j].index = IF j = k THEN Len(u.zone[z].list) + 1 ELSE u.client[j].index
      BY Zenon, <1>4 DEF ClientSpawned
    <2>2. u.client = s.client /\ Len(u.zone[z].list) = l
      BY <1>2
    <2> HIDE DEF l
    <2> QED
      <3> SUFFICES ASSUME NEW j \in Clients
                   PROVE  /\ t.client[j].name = s.client[j].name /\ t.client[j].zone = s.client[j].zone
                          /\ t.client[j].refs = s.client[j].refs /\ t.client[j].handler = s.client[j].handler
                          /\ t.client[j].loaded = s.client[j].loaded
                          /\ t.client[j].linkdead = s.client[j].linkdead
                          /\ t.client[j].index = IF j = k THEN l + 1 ELSE s.client[j].index
        BY Zenon
      <3>1. /\ t.client[j].name = s.client[j].name /\ t.client[j].zone = s.client[j].zone
            /\ t.client[j].refs = s.client[j].refs /\ t.client[j].handler = s.client[j].handler
            /\ t.client[j].loaded = s.client[j].loaded /\ t.client[j].linkdead = s.client[j].linkdead
        <4>1. /\ t.client[j].name = u.client[j].name /\ t.client[j].zone = u.client[j].zone
              /\ t.client[j].refs = u.client[j].refs /\ t.client[j].handler = u.client[j].handler
              /\ t.client[j].loaded = u.client[j].loaded /\ t.client[j].linkdead = u.client[j].linkdead
          BY Zenon, <2>1
        <4> QED
          BY <2>2, <4>1
      <3>2. t.client[j].index = IF j = k THEN l + 1 ELSE s.client[j].index
        BY Zenon, <2>1, <2>2
      <3> QED
        BY Zenon, <3>1, <3>2
  <1>8. SameWaits(s, t)
    BY Zenon, <1>2, <1>5 DEF SameWaits
  <1>9. /\ z \in s.zoneList /\ z \in Zones /\ s.zone[z] \in ZoneRecord /\ l \in Nat
        /\ DOMAIN s.zone[z].list = 1 .. l /\ s.zone[z].list \in Seq(ListRecord)
        /\ nm \in Names /\ g \in ListRecord /\ g.client = k
        /\ e \in ConnectedRecord /\ e.client = k /\ e.handler = s.client[k].handler
    <2>1. z \in s.zoneList /\ z \in Zones /\ s.zone[z] \in ZoneRecord
      BY Zenon, Fields DEF MobLists
    <2>2. l \in Nat /\ DOMAIN s.zone[z].list = 1 .. l /\ s.zone[z].list \in Seq(ListRecord)
      BY <2>1, ZoneFacts
    <2>3. nm \in Names \cup {None} /\ nm # None /\ s.client[k].handler \in Conns \cup {None}
      BY Fields DEF ClientRecord, Born
    <2>4. g \in ListRecord /\ g.client = k
      BY DEF ListRecord
    <2>5. e \in ConnectedRecord /\ e.client = k /\ e.handler = s.client[k].handler
      BY <2>3 DEF ConnectedRecord
    <2> QED
      BY <2>1, <2>2, <2>3, <2>4, <2>5
  <1>10. /\ c \in Nat /\ DOMAIN s.connected = 1 .. c /\ DOMAIN t.connected = 1 .. c + 1
         /\ t.connected[c + 1] = e
         /\ \A i \in 1 .. c : t.connected[i] = s.connected[i] /\ s.connected[i].client \in Clients
    <2> HIDE DEF e
    <2>1. s.connected \in Seq(ConnectedRecord) /\ c \in Nat /\ DOMAIN s.connected = 1 .. c
      BY Fields, LenProperties
    <2>2. /\ Append(s.connected, e) \in Seq(ConnectedRecord)
          /\ Len(Append(s.connected, e)) = c + 1
          /\ \A i \in 1 .. c : Append(s.connected, e)[i] = s.connected[i]
          /\ Append(s.connected, e)[c + 1] = e
      BY <1>9, <2>1, AppendProperties
    <2>3. DOMAIN Append(s.connected, e) = 1 .. c + 1
      BY <2>2, LenProperties
    <2>4. t.connected = Append(s.connected, e)
      BY Zenon, <1>2, <1>5
    <2>5. \A i \in DOMAIN s.connected : s.connected[i].client \in Clients
      BY ConnectedFacts
    <2> HIDE DEF c
    <2> QED
      BY <2>1, <2>2, <2>3, <2>4, <2>5
  <1>11. /\ DOMAIN t.zone[z].list = 1 .. l + 1 /\ t.zone[z].list[l + 1] = g
         /\ \A i \in 1 .. l : t.zone[z].list[i] = s.zone[z].list[i]
    <2> DEFINE q == s.zone[z].list
    <2>0. q \in Seq(ListRecord) /\ l = Len(q) /\ l \in Nat /\ g \in ListRecord /\ t.zone[z].list = Append(q, g)
      BY Zenon, <1>5, <1>9
    <2> HIDE DEF g, q, l
    <2>1. /\ Append(q, g) \in Seq(ListRecord)
          /\ Len(Append(q, g)) = l + 1
          /\ \A i \in 1 .. l : Append(q, g)[i] = q[i]
          /\ Append(q, g)[l + 1] = g
      <3>1. Append(q, g) \in Seq(ListRecord) /\ Len(Append(q, g)) = l + 1
        BY <2>0, AppendProperties
      <3>2. \A i \in 1 .. l : Append(q, g)[i] = q[i]
        BY <2>0, AppendProperties
      <3>3. Append(q, g)[l + 1] = g
        BY <2>0, AppendProperties
      <3> QED
        BY Zenon, <3>1, <3>2, <3>3
    <2>2. DOMAIN Append(q, g) = 1 .. l + 1
      BY <2>1, LenProperties
    <2> QED
      BY Zenon, <2>0, <2>1, <2>2 DEF q
  <1> HIDE DEF c, l, e, g, z, nm
  <1>12. \A j \in Clients : IsListed(t, j) <=> IsListed(s, j) \/ j = k
    <2>1. \A j \in Clients : IsListed(s, j) => IsListed(t, j)
      BY <1>10 DEF IsListed
    <2>2. IsListed(t, k)
      <3>1. c + 1 \in 1 .. c + 1
        BY <1>10
      <3> QED
        BY <1>9, <1>10, <3>1 DEF IsListed
    <2>3. ASSUME NEW i \in DOMAIN t.connected, t.connected[i].client # k
          PROVE  i \in DOMAIN s.connected /\ t.connected[i] = s.connected[i]
      BY <1>9, <1>10, <2>3
    <2>4. \A j \in Clients : IsListed(t, j) /\ j # k => IsListed(s, j)
      BY <2>3 DEF IsListed
    <2> QED
      BY <2>1, <2>2, <2>4
  <1>13. ~IsListed(s, k)
    <2>1. \A i \in DOMAIN s.connected : s.connected[i].client = k => s.byName[s.client[k].name] = k
      BY Zenon DEF ClientLists
    <2> QED
      BY <2>1, ClientIsMob DEF IsListed
  \* A client listed before is found where it was.
  <1>14. ASSUME NEW j \in Clients, j # k, IsListed(s, j)
         PROVE  /\ ClientIn(s, j) /\ s.client[j].name # None /\ s.byName[s.client[j].name] = j
                /\ ClientIn(t, j)
                /\ t.zone[s.client[j].zone].list[t.client[j].index] = s.zone[s.client[j].zone].list[s.client[j].index]
    <2>1. ClientIn(s, j) /\ s.client[j].name # None /\ s.byName[s.client[j].name] = j
      <3>1. PICK i \in DOMAIN s.connected : s.connected[i].client = j
        BY <1>14 DEF IsListed
      <3> QED
        BY Zenon, <3>1 DEF ClientLists
    <2> DEFINE y == s.client[j].zone
               x == s.client[j].index
    <2>2. /\ y \in s.zoneList /\ x \in DOMAIN s.zone[y].list /\ s.zone[y].list[x].client = j
          /\ s.mob[j].index \in DOMAIN s.zone[y].mobs /\ s.zone[y].mobs[s.mob[j].index] = j
      BY Zenon, <2>1 DEF ClientIn
    <2>3. t.client[j].zone = y /\ t.client[j].index = x
      BY <1>7, <1>14
    <2> HIDE DEF y, x
    <2>4. x \in DOMAIN t.zone[y].list /\ t.zone[y].list[x] = s.zone[y].list[x]
      <3>1. CASE y = z
        <4>1. x \in 1 .. l /\ l \in Nat
          BY Zenon, <1>9, <2>2, <3>1
        <4>2. x \in 1 .. l + 1
          BY <4>1
        <4>3. t.zone[z].list[x] = s.zone[z].list[x] /\ x \in DOMAIN t.zone[z].list
          BY Zenon, <1>11, <4>1, <4>2
        <4> QED
          BY <3>1, <4>3
      <3>2. CASE y # z
        <4>1. y \in Zones
          BY <2>2, Fields
        <4> QED
          BY Zenon, <1>5, <2>2, <3>2, <4>1
      <3> QED
        BY <3>1, <3>2
    <2>5. t.mob[j] = s.mob[j]
      BY Zenon, <1>6, <1>14, ClientIsMob
    <2>6. t.mob[j].index \in DOMAIN t.zone[y].mobs /\ t.zone[y].mobs[t.mob[j].index] = j
      BY Zenon, <1>6, <2>2, <2>5
    <2>7. ClientIn(t, j)
      BY Zenon, <1>5, <2>2, <2>3, <2>4, <2>6 DEF ClientIn
    <2> QED
      BY Zenon, <2>1, <2>3, <2>4, <2>7 DEF y, x
  <1>15. ClientIn(t, k)
    <2>1. t.client[k].zone = z /\ t.client[k].index = l + 1 /\ l + 1 \in 1 .. l + 1
      <3>1. t.client[k].zone = z /\ t.client[k].index = l + 1
        BY Zenon, <1>7 DEF z
      <3>2. l \in Nat
        BY Zenon, <1>9
      <3> HIDE DEF l, z
      <3>3. l + 1 \in 1 .. l + 1
        BY <3>2
      <3> QED
        BY Zenon, <3>1, <3>3
    <2> QED
      BY Zenon, <1>5, <1>6, <1>9, <1>11, <2>1 DEF ClientIn
  <1>16. Entered(s, k, t)
    <2>1. \A i \in DOMAIN t.connected :
            \/ \E f \in DOMAIN s.connected : t.connected[i] = s.connected[f]
            \/ t.connected[i].client = k /\ t.connected[i].handler = s.client[k].handler
      BY <1>9, <1>10
    <2>2. \A j \in Clients : j # k /\ IsListed(t, j) =>
            LET y == s.client[j].zone IN
            t.zone[y].list[t.client[j].index] = s.zone[y].list[s.client[j].index]
      BY Zenon, <1>12, <1>14
    <2> QED
      BY Zenon, <1>5, <1>7, <1>8, <2>1, <2>2 DEF Entered
  <1>17. ASSUME NEW y \in t.zoneList, NEW i \in DOMAIN t.zone[y].list
         PROVE  LET j == t.zone[y].list[i].client IN
                t.client[j].index = i /\ t.client[j].zone = y /\ IsListed(t, j)
    <2>0. y \in s.zoneList /\ y \in Zones /\ s.zone[y] \in ZoneRecord
      BY Zenon, <1>5, Fields DEF MobLists
    <2>1. CASE y = z /\ i = l + 1
      BY ZenonT(30), <1>7, <1>9, <1>11, <1>12, <2>1 DEF z
    <2>2. CASE ~(y = z /\ i = l + 1)
      <3> DEFINE j == s.zone[y].list[i].client
      <3>1. i \in DOMAIN s.zone[y].list /\ t.zone[y].list[i] = s.zone[y].list[i]
        <4>1. CASE y = z
          <5>1. i \in 1 .. l + 1 /\ i # l + 1 /\ l \in Nat
            BY <1>9, <1>11, <2>2, <4>1
          <5>2. i \in 1 .. l
            BY <5>1
          <5> QED
            BY <1>9, <1>11, <4>1, <5>2
        <4>2. CASE y # z
          BY Zenon, <1>5, <2>0, <4>2
        <4> QED
          BY <4>1, <4>2
      <3>2. j \in Clients
        BY <2>0, <3>1, ZoneFacts
      <3>3. s.client[j].index = i /\ s.client[j].zone = y /\ IsListed(s, j)
        BY Zenon, <2>0, <3>1 DEF ClientLists
      <3>4. t.zone[y].list[i].client = j
        BY <3>1
      <3> HIDE DEF j
      <3>5. j # k
        BY <1>13, <3>3
      <3> QED
        <4>1. t.client[j].index = i /\ t.client[j].zone = y
          BY Zenon, <1>7, <3>2, <3>3, <3>5
        <4>2. IsListed(t, j)
          BY Zenon, <1>12, <3>2, <3>3
        <4> QED
          BY Zenon, <3>4, <4>1, <4>2
    <2> QED
      BY Zenon, <2>1, <2>2
  <1>18. ASSUME NEW i \in DOMAIN t.connected
         PROVE  LET j == t.connected[i].client IN
                /\ ClientIn(t, j) /\ t.client[j].name # None /\ t.byName[t.client[j].name] = j
                /\ \A h \in DOMAIN t.connected : t.connected[h].client = j => h = i
    <2>1. CASE i = c + 1
      <3>1. t.connected[i].client = k
        BY <1>9, <1>10, <2>1
      <3>2. t.client[k].name = nm /\ nm # None /\ t.byName[nm] = k
        BY Zenon, <1>2, <1>5, <1>7, <1>9 DEF nm, Born
      <3>3. ASSUME NEW h \in DOMAIN t.connected, t.connected[h].client = k
            PROVE  h = i
        BY <1>10, <1>13, <2>1, <3>3 DEF IsListed
      <3> QED
        BY <1>15, <3>1, <3>2, <3>3
    <2>2. CASE i # c + 1
      <3> DEFINE j == s.connected[i].client
      <3>1. i \in DOMAIN s.connected /\ j \in Clients /\ t.connected[i].client = j
        BY <1>10, <2>2
      <3>2. IsListed(s, j)
        BY <3>1 DEF IsListed
      <3>3. \A h \in DOMAIN s.connected : s.connected[h].client = j => h = i
        BY Zenon, <3>1 DEF ClientLists
      <3> HIDE DEF j
      <3>4. j # k
        BY <1>13, <3>2
      <3>5. ClientIn(t, j) /\ s.client[j].name # None /\ s.byName[s.client[j].name] = j
        BY Zenon, <1>14, <3>1, <3>2, <3>4
      <3>6. t.client[j].name = s.client[j].name /\ s.client[j].name \in Names
        <4>1. s.client[j].name \in Names \cup {None}
          BY <3>1, Fields DEF ClientRecord
        <4> QED
          BY <1>7, <3>1, <3>5, <4>1
      <3>7. s.client[j].name # nm
        BY <3>5, <3>1, ClientIsMob DEF nm
      <3>8. t.byName[t.client[j].name] = j
        BY Zenon, <1>2, <1>5, <3>5, <3>6, <3>7
      <3>9. ASSUME NEW h \in DOMAIN t.connected, t.connected[h].client = j
            PROVE  h = i
        <4>1. h # c + 1
          BY <1>9, <1>10, <3>4, <3>9
        <4>2. h \in DOMAIN s.connected /\ s.connected[h].client = j
          BY <1>10, <3>9, <4>1
        <4> QED
          BY <3>3, <4>2
      <3> QED
        BY <3>1, <3>5, <3>6, <3>8, <3>9
    <2> QED
      BY Zenon, <2>1, <2>2
  <1>19. ASSUME NEW n \in Names, t.byName[n] # None
         PROVE  IsListed(t, t.byName[n]) /\ t.client[t.byName[n]].name = n
    <2>1. CASE n = nm
      <3>1. t.byName[n] = k
        BY Zenon, <1>2, <1>5, <2>1
      <3>2. t.client[k].name = nm /\ IsListed(t, k)
        BY <1>7, <1>12 DEF nm
      <3> QED
        BY <2>1, <3>1, <3>2
    <2>2. CASE n # nm
      <3> DEFINE j == s.byName[n]
      <3>1. t.byName[n] = j /\ j # None /\ j \in Clients
        <4>1. t.byName[n] = j
          BY Zenon, <1>2, <1>5, <2>2
        <4>2. j \in Clients \cup {None}
          BY Zenon, Fields
        <4> HIDE DEF j
        <4> QED
          BY <1>19, <4>1, <4>2
      <3>2. IsListed(s, j) /\ s.client[j].name = n
        BY Zenon, <3>1 DEF ClientLists
      <3> HIDE DEF j
      <3> QED
        BY <1>7, <1>12, <3>1, <3>2
    <2> QED
      BY Zenon, <2>1, <2>2
  <1>20. ClientLists(t)
    BY Zenon, <1>17, <1>18, <1>19 DEF ClientLists
  <1> QED
    BY <1>4, <1>16, <1>20

-----------------------------------------------------------------------------
(* The invariant of the lists *)

Sound(s, pl) == s \in Memory /\ Sockets(s, pl) /\ Known(s) /\ MobLists(s) /\ ClientLists(s)

ListsInv ==
    /\ sweep \in Nat /\ player \in [Conns -> {"away", "here", "gone"}]
    /\ zc.fault = "none" => Sound(zc, player)

\* What a step that moves nothing in the lists leaves alone
Kept(s, t) ==
    /\ SameLists(s, t) /\ t.udp = s.udp
    /\ \A k \in Clients : /\ t.client[k].name = s.client[k].name
                          /\ t.client[k].zone = s.client[k].zone
                          /\ t.client[k].index = s.client[k].index
    /\ \A c \in Conns : /\ t.handler[c].index = s.handler[c].index
                        /\ t.handler[c].dead = s.handler[c].dead
                        /\ t.handler[c].obj # s.handler[c].obj =>
                             t.handler[c].obj # None /\ Born(s, t.handler[c].obj)
    /\ \A n \in Names : t.expected[n] \in {None, s.expected[n]}

\* The lists stay in order when no list changes and no name, zone or index of a client.
LEMMA ListsKept ==
  ASSUME NEW s \in Memory, MobLists(s), ClientLists(s), NEW t, SameLists(s, t),
         \A k \in Clients : /\ t.client[k].name = s.client[k].name
                            /\ t.client[k].zone = s.client[k].zone
                            /\ t.client[k].index = s.client[k].index
  PROVE  MobLists(t) /\ ClientLists(t)
  <1>1. /\ t.mob = s.mob /\ t.npcs = s.npcs /\ t.zoneList = s.zoneList /\ t.zone = s.zone
        /\ t.byName = s.byName /\ t.connected = s.connected
    BY DEF SameLists
  <1>2. \A z \in s.zoneList : s.zone[z] \in ZoneRecord
    BY Zenon DEF MobLists
  <1>3. MobLists(t)
    BY <1>1, <1>2, MobListsSame
  <1>4. ClientLists(t)
    BY <1>1, ClientListsSame
  <1> QED
    BY <1>3, <1>4

\* A step that moves nothing in the lists keeps a sound memory sound.
LEMMA SoundKept ==
  ASSUME NEW s, NEW pl, Sound(s, pl), NEW t \in Memory, Kept(s, t)
  PROVE  Sound(t, pl)
  <1>1. s \in Memory /\ Sockets(s, pl) /\ Known(s) /\ MobLists(s) /\ ClientLists(s)
    BY DEF Sound
  <1>2. MobLists(t) /\ ClientLists(t)
    BY <1>1, ListsKept DEF Kept
  <1>3. Sockets(t, pl)
    <2>1. \A i \in DOMAIN s.udp : s.udp[i] \in Conns
      BY <1>1, ConnectedFacts
    <2>2. /\ t.udp = s.udp
          /\ \A c \in Conns : t.handler[c].index = s.handler[c].index /\ t.handler[c].dead = s.handler[c].dead
      BY DEF Kept
    <2>3. \A c : Open(t, c) <=> Open(s, c)
      BY <2>2 DEF Open
    <2> QED
      BY <1>1, <2>1, <2>2, <2>3 DEF Sockets
  <1>4. Known(t)
    <2>1. /\ \A k \in Clients : t.client[k].name = s.client[k].name /\ t.client[k].zone = s.client[k].zone
          /\ t.zoneList = s.zoneList /\ t.npcs = s.npcs
      BY DEF Kept, SameLists
    <2>2. \A k \in Clients : IF Born(t, k) THEN t.client[k].zone \in t.zoneList ELSE t.client[k].zone = None
      BY <1>1, <2>1 DEF Known, Born
    <2>3. ASSUME NEW c \in Conns, t.handler[c].obj # None
          PROVE  Born(t, t.handler[c].obj)
      <3>1. t.handler[c].obj \in Clients
        <4>1. t.handler[c] \in HandlerRecord
          BY Fields
        <4> QED
          BY <2>3, <4>1 DEF HandlerRecord
      <3>2. Born(s, t.handler[c].obj)
        BY <1>1, <2>3 DEF Kept, Known
      <3> QED
        BY <2>1, <3>1, <3>2 DEF Born
    <2>4. ASSUME NEW n \in Names, t.expected[n] # None
          PROVE  t.client[t.expected[n]].name = n
      <3>1. t.expected[n] = s.expected[n]
        BY <2>4 DEF Kept
      <3>2. s.expected[n] \in Clients /\ s.client[s.expected[n]].name = n
        BY <1>1, <2>4, <3>1, Fields DEF Known
      <3> QED
        BY <2>1, <3>1, <3>2
    <2>5. t.npcs <= MaxNpcs
      BY <1>1, <2>1 DEF Known
    <2> QED
      BY <2>2, <2>3, <2>4, <2>5 DEF Known
  <1> QED
    BY <1>2, <1>3, <1>4 DEF Sound

\* A step that only takes or leaves references
LEMMA SameIsKept ==
  ASSUME NEW s, NEW t, SameLists(s, t), t.udp = s.udp, SameClients(s, t), SameHandlers(s, t),
         t.expected = s.expected
  PROVE  Kept(s, t)
  BY DEF SameClients, SameHandlers, Kept

\* client_drop keeps the lists in order.
LEMMA SoundDrop ==
  ASSUME NEW s, NEW pl, Sound(s, pl), NEW k \in Clients, NEW t, t = Drop(s, k)
  PROVE  Sound(t, pl) /\ t.fault = s.fault
  <1>1. s \in Memory
    BY DEF Sound
  <1>2. /\ t \in Memory /\ SameLists(s, t) /\ SameWaits(s, t)
        /\ SameHandlers(s, t) /\ SameClients(s, t) /\ t.udp = s.udp /\ t.fault = s.fault
    BY <1>1, DropIs
  <1>3. t.expected = s.expected
    BY <1>2 DEF SameWaits
  <1> QED
    BY <1>2, <1>3, SameIsKept, SoundKept

\* protocol_handler_drop keeps the lists in order.
LEMMA SoundHandlerDrop ==
  ASSUME NEW s, NEW pl, Sound(s, pl), NEW c, NEW t, t = HandlerDrop(s, c)
  PROVE  Sound(t, pl) /\ t.fault = s.fault
  <1>1. s \in Memory
    BY DEF Sound
  <1>2. /\ t \in Memory /\ SameLists(s, t) /\ SameWaits(s, t)
        /\ SameHandlers(s, t) /\ t.client = s.client /\ t.udp = s.udp /\ t.fault = s.fault
    BY <1>1, HandlerDropIs
  <1>3. t.expected = s.expected
    BY <1>2 DEF SameWaits
  <1>4. SameClients(s, t)
    BY <1>2 DEF SameClients
  <1> QED
    BY <1>2, <1>3, <1>4, SameIsKept, SoundKept

\* What a removal from the lists leaves alone
LEMMA SoundRemoved ==
  ASSUME NEW s, NEW pl, Sound(s, pl), NEW k \in Clients, NEW t, t = RemoveConnected(s, k)
  PROVE  Sound(t, pl) /\ ConnectedRemoved(s, k, t) /\ ~IsListed(t, k)
  <1>1. s \in Memory /\ Sockets(s, pl) /\ Known(s) /\ MobLists(s) /\ ClientLists(s)
    BY DEF Sound
  <1>2. ConnectedRemoved(s, k, t) /\ MobLists(t) /\ ClientLists(t) /\ ~IsListed(t, k)
    BY <1>1, RemoveConnectedIs
  <1>3. /\ t \in Memory /\ t.expected = s.expected /\ t.npcs = s.npcs /\ t.zoneList = s.zoneList
        /\ t.udp = s.udp /\ t.handler = s.handler
        /\ \A j \in Clients : t.client[j].name = s.client[j].name /\ t.client[j].zone = s.client[j].zone
    BY Zenon, <1>2 DEF ConnectedRemoved, SameWaits
  <1>4. Sockets(t, pl)
    BY <1>1, <1>3 DEF Sockets, Open
  <1>5. Known(t)
    <2>1. \A c \in Conns : s.handler[c].obj # None => s.handler[c].obj \in Clients
      BY <1>1, Fields DEF HandlerRecord
    <2>2. \A n \in Names : s.expected[n] # None => s.expected[n] \in Clients
      BY <1>1, Fields
    <2> QED
      BY <1>1, <1>3, <2>1, <2>2 DEF Known, Born
  <1> QED
    BY <1>2, <1>3, <1>4, <1>5 DEF Sound

-----------------------------------------------------------------------------
(* Writing to the handlers *)

\* The handlers written
HandlersAre(s, f, t) ==
    /\ t \in Memory /\ t.handler = f /\ SameLists(s, t) /\ SameWaits(s, t)
    /\ t.udp = s.udp /\ t.client = s.client /\ t.fault = s.fault

\* What writing handlers does to the memory
LEMMA HandlersWritten ==
  ASSUME NEW s \in Memory, NEW f \in [Conns -> HandlerRecord], NEW t, t = [s EXCEPT !.handler = f]
  PROVE  HandlersAre(s, f, t)
  <1>1. t \in Memory /\ t.handler = f
    BY DEF Memory
  <1>2. SameLists(s, t) /\ SameWaits(s, t) /\ t.udp = s.udp /\ t.client = s.client /\ t.fault = s.fault
    BY DEF SameLists, SameWaits, Memory
  <1> QED
    BY <1>1, <1>2 DEF HandlersAre

FlagOf(h) == [h EXCEPT !.ignore = TRUE]
DeadOf(h) == [h EXCEPT !.dead = TRUE]
IndexIn(h, x) == [h EXCEPT !.index = x]

\* The flag to ignore all packets is one field of a handler.
LEMMA FlagWritten ==
  ASSUME NEW h \in HandlerRecord
  PROVE  /\ FlagOf(h) \in HandlerRecord /\ FlagOf(h).ignore = TRUE /\ FlagOf(h).dead = h.dead
         /\ FlagOf(h).index = h.index /\ FlagOf(h).obj = h.obj /\ FlagOf(h).refs = h.refs
  BY DEF HandlerRecord, FlagOf

\* The flag of a dead connection is one field of a handler.
LEMMA DeadWritten ==
  ASSUME NEW h \in HandlerRecord
  PROVE  /\ DeadOf(h) \in HandlerRecord /\ DeadOf(h).dead = TRUE /\ DeadOf(h).ignore = h.ignore
         /\ DeadOf(h).index = h.index /\ DeadOf(h).obj = h.obj /\ DeadOf(h).refs = h.refs
  BY DEF HandlerRecord, DeadOf

\* The index is one field of a handler.
LEMMA IndexWritten ==
  ASSUME NEW h \in HandlerRecord, NEW i \in Nat
  PROVE  /\ IndexIn(h, i) \in HandlerRecord /\ IndexIn(h, i).dead = h.dead /\ IndexIn(h, i).ignore = h.ignore
         /\ IndexIn(h, i).index = i /\ IndexIn(h, i).obj = h.obj /\ IndexIn(h, i).refs = h.refs
  BY DEF HandlerRecord, IndexIn

\* udp_socket_flag_client_to_ignore_all_packets of the handler x
IgnoredAt(s, x, t) ==
    /\ t \in Memory /\ SameLists(s, t) /\ SameWaits(s, t)
    /\ t.udp = s.udp /\ t.client = s.client /\ t.fault = s.fault
    /\ \A d \in Conns :
         /\ t.handler[d].refs = s.handler[d].refs /\ t.handler[d].index = s.handler[d].index
         /\ t.handler[d].obj = s.handler[d].obj /\ t.handler[d].dead = s.handler[d].dead
         /\ t.handler[d].ignore = IF d = x THEN TRUE ELSE s.handler[d].ignore

\* udp_socket_flag_client_to_ignore_all_packets
LEMMA IgnoredIs ==
  ASSUME NEW s \in Memory, NEW c, NEW t, t = Ignored(s, c),
         NEW x, x = s.udp[s.handler[c].index]
  PROVE  IgnoredAt(s, x, t)
  <1> DEFINE f == [s.handler EXCEPT ![x] = FlagOf(s.handler[x])]
  <1>1. t = [s EXCEPT !.handler = f]
    BY DEF Ignored, Memory, FlagOf
  <1>2. s.handler \in [Conns -> HandlerRecord]
    BY Fields
  <1>3. ASSUME NEW d \in Conns
        PROVE  /\ f[d] \in HandlerRecord
               /\ f[d].refs = s.handler[d].refs /\ f[d].index = s.handler[d].index
               /\ f[d].obj = s.handler[d].obj /\ f[d].dead = s.handler[d].dead
               /\ f[d].ignore = IF d = x THEN TRUE ELSE s.handler[d].ignore
    <2>1. s.handler[d] \in HandlerRecord
      BY <1>2
    <2>2. CASE d = x
      <3>1. f[d] = FlagOf(s.handler[d])
        BY <1>2, <2>2
      <3> HIDE DEF f
      <3> QED
        BY ZenonT(30), <2>1, <2>2, <3>1, FlagWritten
    <2>3. CASE d # x
      <3>1. f[d] = s.handler[d]
        BY <1>2, <2>3
      <3> HIDE DEF f
      <3> QED
        BY <2>1, <2>3, <3>1
    <2> QED
      BY ZenonT(30), <2>2, <2>3
  <1>4. f \in [Conns -> HandlerRecord]
    <2>1. f = [d \in Conns |-> f[d]]
      BY <1>2
    <2> HIDE DEF f
    <2> QED
      BY <1>3, <2>1
  <1> HIDE DEF f
  <1>5. HandlersAre(s, f, t)
    BY <1>1, <1>4, HandlersWritten
  <1> QED
    BY <1>3, <1>5 DEF HandlersAre, IgnoredAt

\* The entry of the socket marked dead by protocol_handler_trilogy_recv
DeadAt(s, x, t) ==
    /\ t \in Memory /\ SameLists(s, t) /\ SameWaits(s, t)
    /\ t.udp = s.udp /\ t.client = s.client /\ t.fault = s.fault
    /\ \A d \in Conns :
         /\ t.handler[d].refs = s.handler[d].refs /\ t.handler[d].index = s.handler[d].index
         /\ t.handler[d].obj = s.handler[d].obj /\ t.handler[d].ignore = s.handler[d].ignore
         /\ t.handler[d].dead = IF d = x THEN TRUE ELSE s.handler[d].dead

\* A connection that is marked as dead
LEMMA DeadIs ==
  ASSUME NEW s \in Memory, NEW x, NEW t, t = [s EXCEPT !.handler[x].dead = TRUE]
  PROVE  DeadAt(s, x, t)
  <1> DEFINE f == [s.handler EXCEPT ![x] = DeadOf(s.handler[x])]
  <1>1. t = [s EXCEPT !.handler = f]
    BY DEF Memory, DeadOf
  <1>2. s.handler \in [Conns -> HandlerRecord]
    BY Fields
  <1>3. ASSUME NEW d \in Conns
        PROVE  /\ f[d] \in HandlerRecord
               /\ f[d].refs = s.handler[d].refs /\ f[d].index = s.handler[d].index
               /\ f[d].obj = s.handler[d].obj /\ f[d].ignore = s.handler[d].ignore
               /\ f[d].dead = IF d = x THEN TRUE ELSE s.handler[d].dead
    <2>1. s.handler[d] \in HandlerRecord
      BY <1>2
    <2>2. CASE d = x
      <3>1. f[d] = DeadOf(s.handler[d])
        BY <1>2, <2>2
      <3> HIDE DEF f
      <3> QED
        BY <2>1, <2>2, <3>1, DeadWritten
    <2>3. CASE d # x
      <3>1. f[d] = s.handler[d]
        BY <1>2, <2>3
      <3> HIDE DEF f
      <3> QED
        BY <2>1, <2>3, <3>1
    <2> QED
      BY <2>2, <2>3
  <1>4. f \in [Conns -> HandlerRecord]
    <2>1. f = [d \in Conns |-> f[d]]
      BY <1>2
    <2> HIDE DEF f
    <2> QED
      BY <1>3, <2>1
  <1> HIDE DEF f
  <1>5. HandlersAre(s, f, t)
    BY <1>1, <1>4, HandlersWritten
  <1> QED
    BY <1>3, <1>5 DEF HandlersAre, DeadAt

\* protocol_handler_update_index
IndexAt(s, i, t) ==
    /\ t \in Memory /\ SameLists(s, t) /\ SameWaits(s, t)
    /\ t.udp = s.udp /\ t.client = s.client /\ t.fault = s.fault
    /\ \A d \in Conns :
         /\ t.handler[d].refs = s.handler[d].refs /\ t.handler[d].dead = s.handler[d].dead
         /\ t.handler[d].obj = s.handler[d].obj /\ t.handler[d].ignore = s.handler[d].ignore
         /\ t.handler[d].index = IF i \in DOMAIN s.udp /\ d = s.udp[i] THEN i ELSE s.handler[d].index

\* protocol_handler_update_index
LEMMA UpdateIndexIs ==
  ASSUME NEW s \in Memory, NEW i \in Nat, NEW t, t = UpdateIndex(s, i)
  PROVE  IndexAt(s, i, t)
  <1>1. CASE i \notin DOMAIN s.udp
    BY <1>1 DEF UpdateIndex, IndexAt, SameLists, SameWaits
  <1>2. CASE i \in DOMAIN s.udp
    <2> DEFINE x == s.udp[i]
               f == [s.handler EXCEPT ![x] = IndexIn(s.handler[x], i)]
    <2>1. t = [s EXCEPT !.handler = f]
      BY <1>2 DEF UpdateIndex, Memory, IndexIn
    <2>2. s.handler \in [Conns -> HandlerRecord]
      BY Fields
    <2> HIDE DEF x
    <2>3. ASSUME NEW d \in Conns
          PROVE  /\ f[d] \in HandlerRecord
                 /\ f[d].refs = s.handler[d].refs /\ f[d].dead = s.handler[d].dead
                 /\ f[d].obj = s.handler[d].obj /\ f[d].ignore = s.handler[d].ignore
                 /\ f[d].index = IF d = x THEN i ELSE s.handler[d].index
      <3>1. s.handler[d] \in HandlerRecord
        BY <2>2
      <3>2. CASE d = x
        <4>1. f[d] = IndexIn(s.handler[d], i)
          BY <2>2, <3>2
        <4> HIDE DEF f
        <4> QED
          BY <3>1, <3>2, <4>1, IndexWritten
      <3>3. CASE d # x
        <4>1. f[d] = s.handler[d]
          BY <2>2, <3>3
        <4> HIDE DEF f
        <4> QED
          BY <3>1, <3>3, <4>1
      <3> QED
        BY <3>2, <3>3
    <2>4. f \in [Conns -> HandlerRecord]
      <3>1. f = [d \in Conns |-> f[d]]
        BY <2>2
      <3> HIDE DEF f
      <3> QED
        BY <2>3, <3>1
    <2> HIDE DEF f
    <2>5. HandlersAre(s, f, t)
      BY <2>1, <2>4, HandlersWritten
    <2> QED
      BY <1>2, <2>3, <2>5 DEF HandlersAre, IndexAt, x
  <1> QED
    BY <1>1, <1>2

\* udp_socket_handle_dead_client: every index finds its entry again
DeadRemoved(s, i, t) ==
    /\ t \in Memory /\ SameLists(s, t) /\ SameWaits(s, t)
    /\ t.client = s.client /\ t.fault = s.fault
    /\ \A d \in Conns :
         /\ t.handler[d].obj = s.handler[d].obj /\ t.handler[d].dead = s.handler[d].dead
         /\ t.handler[d].ignore = s.handler[d].ignore
         /\ t.handler[d].refs = IF d = s.udp[i] THEN s.handler[d].refs - 1 ELSE s.handler[d].refs
    /\ \A j \in DOMAIN t.udp : t.handler[t.udp[j]].index = j
    /\ \A c \in Conns : Open(t, c) <=> Open(s, c) /\ c # s.udp[i]

\* udp_socket_handle_dead_client takes one connection out and keeps the indices of the others.
LEMMA HandleDeadClientIs ==
  ASSUME NEW s \in Memory, \A j \in DOMAIN s.udp : s.handler[s.udp[j]].index = j,
         NEW i \in DOMAIN s.udp, NEW t, t = HandleDeadClient(s, i)
  PROVE  DeadRemoved(s, i, t)
  <1> DEFINE u == HandlerDrop(s, s.udp[i])
             n == Len(s.udp)
             q == SwapAndPop(s.udp, i)
             v == [u EXCEPT !.udp = q]
  <1>1. /\ u \in Memory /\ SameLists(s, u) /\ SameWaits(s, u) /\ SameHandlers(s, u)
        /\ u.client = s.client /\ u.udp = s.udp /\ u.fault = s.fault
        /\ \A d \in Conns : u.handler[d].refs = IF d = s.udp[i] THEN s.handler[d].refs - 1 ELSE s.handler[d].refs
    BY HandlerDropIs
  <1>2. t = UpdateIndex(v, i)
    BY <1>1 DEF HandleDeadClient
  <1> HIDE DEF u
  <1>3. /\ n \in Nat /\ DOMAIN s.udp = 1 .. n /\ i \in 1 .. n /\ i \in Nat /\ s.udp \in Seq(Conns)
        /\ \A j \in 1 .. n : s.udp[j] \in Conns
    BY Fields, ConnectedFacts
  <1>4. q \in Seq(Conns) /\ Len(q) = n - 1 /\ \A j \in 1 .. n - 1 : q[j] = s.udp[From(j, i, n)]
    BY <1>3, SwappedAndPopped
  <1>5. DOMAIN q = 1 .. n - 1
    BY <1>4, LenProperties
  <1> HIDE DEF q, n
  <1>6. v \in Memory /\ v.udp = q
    BY <1>1, <1>4 DEF Memory
  <1>7. SameLists(u, v) /\ SameWaits(u, v) /\ v.client = u.client /\ v.fault = u.fault /\ v.handler = u.handler
    BY <1>1 DEF SameLists, SameWaits, Memory
  <1> HIDE DEF v
  <1>8. IndexAt(v, i, t)
    BY <1>2, <1>3, <1>6, UpdateIndexIs
  <1>9. /\ t \in Memory /\ SameLists(v, t) /\ SameWaits(v, t)
        /\ t.udp = q /\ t.client = v.client /\ t.fault = v.fault
        /\ \A d \in Conns :
             /\ t.handler[d].refs = u.handler[d].refs /\ t.handler[d].dead = u.handler[d].dead
             /\ t.handler[d].obj = u.handler[d].obj /\ t.handler[d].ignore = u.handler[d].ignore
             /\ t.handler[d].index = IF i \in DOMAIN q /\ d = q[i] THEN i ELSE u.handler[d].index
    BY <1>6, <1>7, <1>8 DEF IndexAt
  <1>10. SameLists(s, t) /\ SameWaits(s, t) /\ t.client = s.client /\ t.fault = s.fault
    BY <1>1, <1>7, <1>9 DEF SameLists, SameWaits
  <1>11. \A d \in Conns :
           /\ t.handler[d].obj = s.handler[d].obj /\ t.handler[d].dead = s.handler[d].dead
           /\ t.handler[d].ignore = s.handler[d].ignore
           /\ t.handler[d].refs = IF d = s.udp[i] THEN s.handler[d].refs - 1 ELSE s.handler[d].refs
           /\ t.handler[d].index = IF i \in DOMAIN q /\ d = q[i] THEN i ELSE s.handler[d].index
    BY <1>1, <1>9 DEF SameHandlers
  <1>12. ASSUME NEW j \in 1 .. n - 1
         PROVE  /\ q[j] = s.udp[From(j, i, n)] /\ From(j, i, n) \in 1 .. n /\ From(j, i, n) # i
                /\ s.handler[q[j]].index = From(j, i, n) /\ q[j] \in Conns
    <2>1. From(j, i, n) \in 1 .. n /\ From(j, i, n) # i
      BY <1>3, FromProperties
    <2>2. q[j] = s.udp[From(j, i, n)]
      BY <1>4
    <2> QED
      BY <1>3, <2>1, <2>2
  <1>13. ASSUME NEW j \in DOMAIN t.udp
         PROVE  t.handler[t.udp[j]].index = j
    <2>1. j \in 1 .. n - 1 /\ t.udp[j] = q[j]
      BY <1>5, <1>9
    <2>2. CASE j = i
      BY <1>5, <1>11, <1>12, <2>1, <2>2
    <2>3. CASE j # i
      <3>1. From(j, i, n) = j
        BY <2>3 DEF From
      <3>2. i \in DOMAIN q => q[j] # q[i]
        <4> SUFFICES ASSUME i \in DOMAIN q, q[j] = q[i] PROVE FALSE
          OBVIOUS
        <4>1. s.handler[q[i]].index = From(i, i, n) /\ s.handler[q[j]].index = j
          BY <1>5, <1>12, <2>1, <3>1
        <4>2. From(i, i, n) = n
          BY DEF From
        <4>3. j # n
          BY <1>3, <2>1
        <4> QED
          BY <4>1, <4>2, <4>3
      <3> QED
        BY <1>11, <1>12, <2>1, <3>1, <3>2
    <2> QED
      BY <2>2, <2>3
  <1>14. ASSUME NEW c \in Conns
         PROVE  Open(t, c) <=> Open(s, c) /\ c # s.udp[i]
    <2>1. ASSUME Open(t, c)
          PROVE  Open(s, c) /\ c # s.udp[i]
      <3>1. PICK j \in 1 .. n - 1 : q[j] = c
        BY <1>5, <1>9, <2>1 DEF Open
      <3>2. c = s.udp[From(j, i, n)] /\ From(j, i, n) \in 1 .. n /\ From(j, i, n) # i
            /\ s.handler[c].index = From(j, i, n)
        BY <1>12, <3>1
      <3>3. s.handler[s.udp[i]].index = i
        OBVIOUS
      <3> QED
        BY <1>3, <3>2, <3>3 DEF Open
    <2>2. ASSUME Open(s, c), c # s.udp[i]
          PROVE  Open(t, c)
      <3>1. PICK f \in 1 .. n : s.udp[f] = c /\ f # i
        BY <1>3, <2>2 DEF Open
      <3>2. PICK j \in 1 .. n - 1 : From(j, i, n) = f
        BY <1>3, <3>1, FromProperties
      <3>3. q[j] = c
        BY <1>4, <3>1, <3>2
      <3> QED
        BY <1>5, <1>9, <3>3 DEF Open
    <2> QED
      BY <2>1, <2>2
  <1> QED
    BY <1>9, <1>10, <1>11, <1>13, <1>14 DEF DeadRemoved

-----------------------------------------------------------------------------
(* Linkdeath *)

\* zone_mark_client_as_linkdead
Marked(s, k, t) ==
    /\ t \in Memory /\ SameButZones(s, t)
    /\ \A y \in s.zoneList :
         /\ t.zone[y] \in ZoneRecord
         /\ t.zone[y].mobs = s.zone[y].mobs /\ t.zone[y].ents = s.zone[y].ents
         /\ DOMAIN t.zone[y].list = DOMAIN s.zone[y].list
         /\ \A i \in DOMAIN s.zone[y].list :
              /\ t.zone[y].list[i].client = s.zone[y].list[i].client
              /\ t.zone[y].list[i].linkdead = IF y = s.client[k].zone /\ i = s.client[k].index
                                                THEN TRUE ELSE s.zone[y].list[i].linkdead

MarkOf(e) == [e EXCEPT !.linkdead = TRUE]

\* zone_mark_client_as_linkdead sets a flag at most.
LEMMA MarkLinkdeadIs ==
  ASSUME NEW s \in Memory, MobLists(s), NEW k \in Clients, s.client[k].zone \in s.zoneList,
         NEW t, t = MarkLinkdead(s, k)
  PROVE  Marked(s, k, t)
  <1> DEFINE z == s.client[k].zone
             i == s.client[k].index
             q == s.zone[z].list
             l == Put(q, i, MarkOf(q[i]))
  <1>1. \A y \in s.zoneList : y \in Zones /\ s.zone[y] \in ZoneRecord
    BY Zenon, Fields DEF MobLists
  <1>2. CASE i \notin DOMAIN q
    <2>1. t = s
      BY <1>2 DEF MarkLinkdead
    <2>2. \A y \in s.zoneList : \A j \in DOMAIN s.zone[y].list : ~(y = z /\ j = i)
      BY <1>2
    <2> QED
      BY <1>1, <2>1, <2>2 DEF Marked, SameButZones, SameWaits
  <1>3. CASE i \in DOMAIN q
    <2>1. t = WriteList(s, z, l)
      BY Zenon, <1>3, <1>1 DEF MarkLinkdead, WriteList, Put, MarkOf, Memory
    <2>2. /\ z \in Zones /\ z \in s.zoneList /\ s.zone[z] \in ZoneRecord /\ q \in Seq(ListRecord)
          /\ \A j \in DOMAIN q : q[j] \in ListRecord
      BY <1>1, ZoneFacts
    <2>3. MarkOf(q[i]) \in ListRecord /\ MarkOf(q[i]).client = q[i].client /\ MarkOf(q[i]).linkdead = TRUE
      <3>1. q[i] \in ListRecord
        BY Zenon, <1>3, <2>2
      <3> HIDE DEF q, i
      <3> QED
        BY <3>1 DEF ListRecord, MarkOf
    <2>q. q = s.zone[z].list
      OBVIOUS
    <2>z. z = s.client[k].zone /\ i = s.client[k].index
      OBVIOUS
    <2> HIDE DEF q, i, z
    <2>4. /\ l \in Seq(ListRecord) /\ DOMAIN l = DOMAIN q /\ l[i] = MarkOf(q[i])
          /\ \A j \in DOMAIN q : j # i => l[j] = q[j]
      BY <1>3, <2>2, <2>3, PutInSeq
    <2> HIDE DEF l
    <2>5. ListIsWritten(s, z, l, t)
      BY <2>1, <2>2, <2>4, ListWritten
    <2>6. /\ t \in Memory /\ SameButZones(s, t) /\ t.zone[z] \in ZoneRecord
          /\ t.zone[z].list = l /\ t.zone[z].mobs = s.zone[z].mobs /\ t.zone[z].ents = s.zone[z].ents
          /\ \A y \in Zones : y # z => t.zone[y] = s.zone[y]
      BY <2>5 DEF ListIsWritten
    <2>7. ASSUME NEW y \in s.zoneList
          PROVE  /\ t.zone[y] \in ZoneRecord
                 /\ t.zone[y].mobs = s.zone[y].mobs /\ t.zone[y].ents = s.zone[y].ents
                 /\ DOMAIN t.zone[y].list = DOMAIN s.zone[y].list
                 /\ \A j \in DOMAIN s.zone[y].list :
                      /\ t.zone[y].list[j].client = s.zone[y].list[j].client
                      /\ t.zone[y].list[j].linkdead = IF y = z /\ j = i
                                                        THEN TRUE ELSE s.zone[y].list[j].linkdead
      <3>1. CASE y = z
        <4>1. ASSUME NEW j \in DOMAIN q
              PROVE  /\ l[j].client = q[j].client
                     /\ l[j].linkdead = IF j = i THEN TRUE ELSE q[j].linkdead
          BY <2>3, <2>4
        <4> QED
          BY <2>4, <2>6, <2>q, <3>1, <4>1
      <3>2. CASE y # z
        BY <1>1, <2>6, <3>2
      <3> QED
        BY <3>1, <3>2
    <2> QED
      BY ZenonT(30), <2>6, <2>7, <2>z DEF Marked
  <1> QED
    BY <1>2, <1>3

\* zc_remove_connected_client with isLinkdead
WentLinkdead(s, k, t) ==
    /\ t \in Memory
    /\ t.expected = s.expected /\ t.expectTimers = s.expectTimers /\ t.lingers = s.lingers \cup {k}
    /\ t.queries = s.queries /\ t.freedStubs = s.freedStubs
    /\ t.mob = s.mob /\ t.npcs = s.npcs /\ t.zoneList = s.zoneList /\ t.byName = s.byName
    /\ t.udp = s.udp /\ t.fault = s.fault /\ SameHandlers(s, t)
    /\ \A d \in Conns : t.handler[d].refs =
         IF d = s.client[k].handler THEN s.handler[d].refs - 1 ELSE s.handler[d].refs
    /\ \A j \in Clients :
         /\ t.client[j].name = s.client[j].name /\ t.client[j].zone = s.client[j].zone
         /\ t.client[j].index = s.client[j].index /\ t.client[j].loaded = s.client[j].loaded
         /\ t.client[j].refs = IF j = k THEN s.client[j].refs + 1 ELSE s.client[j].refs
         /\ t.client[j].handler = IF j = k THEN None ELSE s.client[j].handler
         /\ t.client[j].linkdead = IF j = k THEN TRUE ELSE s.client[j].linkdead
    /\ DOMAIN t.connected = DOMAIN s.connected
    /\ \A i \in DOMAIN s.connected :
         /\ t.connected[i].client = s.connected[i].client
         /\ t.connected[i].handler = IF s.connected[i].client = k THEN None ELSE s.connected[i].handler
    /\ \A y \in s.zoneList :
         /\ t.zone[y] \in ZoneRecord
         /\ t.zone[y].mobs = s.zone[y].mobs /\ t.zone[y].ents = s.zone[y].ents
         /\ DOMAIN t.zone[y].list = DOMAIN s.zone[y].list
         /\ \A i \in DOMAIN s.zone[y].list :
              /\ t.zone[y].list[i].client = s.zone[y].list[i].client
              /\ t.zone[y].list[i].linkdead = IF y = s.client[k].zone /\ i = s.client[k].index
                                                THEN TRUE ELSE s.zone[y].list[i].linkdead

LinkdeadOf(r) ==
    [[[r EXCEPT !.refs = LingerRef(@)] EXCEPT !.handler = None] EXCEPT !.linkdead = TRUE]
UnhandledOf(e) == [e EXCEPT !.handler = None]

\* What a client is like once it is linkdead
LEMMA LinkdeadWritten ==
  ASSUME NEW r \in ClientRecord
  PROVE  /\ LinkdeadOf(r) \in ClientRecord
         /\ LinkdeadOf(r).name = r.name /\ LinkdeadOf(r).zone = r.zone /\ LinkdeadOf(r).index = r.index
         /\ LinkdeadOf(r).loaded = r.loaded /\ LinkdeadOf(r).refs = r.refs + 1
         /\ LinkdeadOf(r).handler = None /\ LinkdeadOf(r).linkdead = TRUE
  <1> DEFINE a == [r EXCEPT !.refs = r.refs + 1]
             b == [a EXCEPT !.handler = None]
             c == [b EXCEPT !.linkdead = TRUE]
  <1>1. LinkdeadOf(r) = c
    BY DEF LinkdeadOf, LingerRef
  <1>2. /\ a \in ClientRecord
        /\ a.name = r.name /\ a.zone = r.zone /\ a.index = r.index
        /\ a.loaded = r.loaded /\ a.refs = r.refs + 1
    BY DEF ClientRecord
  <1> HIDE DEF a
  <1>3. /\ b \in ClientRecord
        /\ b.name = a.name /\ b.zone = a.zone /\ b.index = a.index
        /\ b.loaded = a.loaded /\ b.refs = a.refs /\ b.handler = None
    BY <1>2 DEF ClientRecord
  <1> HIDE DEF b
  <1>4. /\ c \in ClientRecord
        /\ c.name = b.name /\ c.zone = b.zone /\ c.index = b.index
        /\ c.loaded = b.loaded /\ c.refs = b.refs /\ c.handler = b.handler /\ c.linkdead = TRUE
    BY <1>3 DEF ClientRecord
  <1> HIDE DEF c
  <1> QED
    BY <1>1, <1>2, <1>3, <1>4

\* zc_remove_connected_client of a linkdead client
LEMMA GoLinkdeadIs ==
  ASSUME NEW s \in Memory, MobLists(s), NEW k \in Clients, s.client[k].zone \in s.zoneList,
         NEW t, t = GoLinkdead(s, k)
  PROVE  WentLinkdead(s, k, t)
  <1> DEFINE a == HandlerDrop(s, s.client[k].handler)
             b == MarkLinkdead(a, k)
             f == [b.client EXCEPT ![k] = LinkdeadOf(b.client[k])]
             cn == [i \in DOMAIN b.connected |-> IF b.connected[i].client = k
                                                  THEN UnhandledOf(b.connected[i]) ELSE b.connected[i]]
             lg == b.lingers \cup {k}
  <1>1. /\ a \in Memory /\ SameLists(s, a) /\ SameWaits(s, a) /\ SameHandlers(s, a)
        /\ a.client = s.client /\ a.udp = s.udp /\ a.fault = s.fault
        /\ \A d \in Conns : a.handler[d].refs =
             IF d = s.client[k].handler THEN s.handler[d].refs - 1 ELSE s.handler[d].refs
    BY HandlerDropIs
  <1>2. t = [[[[[b EXCEPT !.client[k].refs = LingerRef(@)] EXCEPT !.client[k].handler = None]
                 EXCEPT !.client[k].linkdead = TRUE] EXCEPT !.connected = cn] EXCEPT !.lingers = lg]
    <2>1. t = [b EXCEPT !.client[k].refs = LingerRef(@), !.client[k].handler = None,
              !.client[k].linkdead = TRUE,
              !.connected = [i \in DOMAIN @ |-> IF @[i].client = k
                                                  THEN [@[i] EXCEPT !.handler = None]
                                                  ELSE @[i]],
              !.lingers = @ \cup {k}]
      BY Zenon DEF GoLinkdead
    <2> QED
      BY Zenon, <2>1 DEF UnhandledOf
  <1> HIDE DEF a
  <1>3. Marked(a, k, b)
    <2>1. MobLists(a)
      <3>1. a.mob = s.mob /\ a.npcs = s.npcs /\ a.zoneList = s.zoneList /\ a.zone = s.zone
        BY <1>1 DEF SameLists
      <3>2. \A y \in s.zoneList : s.zone[y] \in ZoneRecord
        BY Zenon DEF MobLists
      <3> QED
        BY <3>1, <3>2, MobListsSame
    <2>2. a.client[k].zone \in a.zoneList
      BY <1>1 DEF SameLists
    <2> QED
      BY <1>1, <2>1, <2>2, MarkLinkdeadIs
  <1> HIDE DEF b
  <1>4. /\ b \in Memory /\ SameButZones(a, b) /\ SameWaits(a, b) /\ b.client = s.client
        /\ \A y \in a.zoneList :
             /\ b.zone[y] \in ZoneRecord
             /\ b.zone[y].mobs = a.zone[y].mobs /\ b.zone[y].ents = a.zone[y].ents
             /\ DOMAIN b.zone[y].list = DOMAIN a.zone[y].list
             /\ \A i \in DOMAIN a.zone[y].list :
                  /\ b.zone[y].list[i].client = a.zone[y].list[i].client
                  /\ b.zone[y].list[i].linkdead = IF y = a.client[k].zone /\ i = a.client[k].index
                                                    THEN TRUE ELSE a.zone[y].list[i].linkdead
    BY <1>1, <1>3 DEF Marked, SameButZones
  <1>5. t = [[[b EXCEPT !.client = f] EXCEPT !.connected = cn] EXCEPT !.lingers = lg]
    <2>1. b.client \in [Clients -> ClientRecord]
      BY <1>4, Fields
    <2>2. [[[b EXCEPT !.client[k].refs = LingerRef(@)] EXCEPT !.client[k].handler = None]
                 EXCEPT !.client[k].linkdead = TRUE] = [b EXCEPT !.client = f]
      BY ZenonT(30), <1>4, <2>1 DEF LinkdeadOf, LingerRef, Memory
    <2> HIDE DEF f, cn, lg
    <2> QED
      BY <1>2, <2>2
  <1>6. /\ f \in [Clients -> ClientRecord]
        /\ \A j \in Clients :
             /\ f[j].name = s.client[j].name /\ f[j].zone = s.client[j].zone
             /\ f[j].index = s.client[j].index /\ f[j].loaded = s.client[j].loaded
             /\ f[j].refs = IF j = k THEN s.client[j].refs + 1 ELSE s.client[j].refs
             /\ f[j].handler = IF j = k THEN None ELSE s.client[j].handler
             /\ f[j].linkdead = IF j = k THEN TRUE ELSE s.client[j].linkdead
    <2>1. b.client \in [Clients -> ClientRecord] /\ b.client[k] \in ClientRecord
      BY <1>4, Fields
    <2> DEFINE r == LinkdeadOf(b.client[k])
    <2>2. /\ r \in ClientRecord
          /\ r.name = s.client[k].name /\ r.zone = s.client[k].zone /\ r.index = s.client[k].index
          /\ r.loaded = s.client[k].loaded /\ r.refs = s.client[k].refs + 1
          /\ r.handler = None /\ r.linkdead = TRUE
      <3>1. b.client[k] = s.client[k]
        BY <1>4
      <3> DEFINE h == s.client[k]
      <3>2. h \in ClientRecord /\ r = LinkdeadOf(h)
        BY <2>1, <3>1
      <3> HIDE DEF h, r
      <3>3. /\ r \in ClientRecord
            /\ r.name = h.name /\ r.zone = h.zone /\ r.index = h.index
            /\ r.loaded = h.loaded /\ r.refs = h.refs + 1
            /\ r.handler = None /\ r.linkdead = TRUE
        BY <3>2, LinkdeadWritten
      <3> QED
        BY <3>3 DEF h
    <2> HIDE DEF r
    <2>3. f \in [Clients -> ClientRecord] /\ f[k] = r /\ \A j \in Clients : j # k => f[j] = b.client[j]
      <3>1. f = [b.client EXCEPT ![k] = r]
        BY DEF r
      <3> HIDE DEF f
      <3> QED
        BY <2>1, <2>2, <3>1, Updated
    <2> HIDE DEF f
    <2>4. b.client = s.client
      BY <1>4
    <2>5. ASSUME NEW j \in Clients
          PROVE  /\ f[j].name = s.client[j].name /\ f[j].zone = s.client[j].zone
                 /\ f[j].index = s.client[j].index /\ f[j].loaded = s.client[j].loaded
                 /\ f[j].refs = IF j = k THEN s.client[j].refs + 1 ELSE s.client[j].refs
                 /\ f[j].handler = IF j = k THEN None ELSE s.client[j].handler
                 /\ f[j].linkdead = IF j = k THEN TRUE ELSE s.client[j].linkdead
      <3>1. CASE j = k
        BY <2>2, <2>3, <3>1
      <3>2. CASE j # k
        <4>1. f[j] = s.client[j]
          BY <2>3, <2>4, <3>2
        <4> QED
          BY <3>2, <4>1
      <3> QED
        BY <3>1, <3>2
    <2> QED
      BY <2>3, <2>5
  <1> HIDE DEF f
  <1>7. b.connected = s.connected /\ b.lingers = s.lingers
    BY <1>1, <1>4 DEF SameLists, SameWaits, SameButZones
  <1>8. /\ cn \in Seq(ConnectedRecord) /\ DOMAIN cn = DOMAIN s.connected
        /\ \A i \in DOMAIN s.connected :
             /\ cn[i].client = s.connected[i].client
             /\ cn[i].handler = IF s.connected[i].client = k THEN None ELSE s.connected[i].handler
    <2> DEFINE n == Len(s.connected)
    <2>1. n \in Nat /\ DOMAIN s.connected = 1 .. n
      BY ConnectedFacts
    <2>d. DOMAIN cn = 1 .. n
      BY <1>7, <2>1
    <2>2. \A i \in DOMAIN s.connected : s.connected[i] \in ConnectedRecord
      BY ConnectedFacts
    <2>3. ASSUME NEW i \in DOMAIN s.connected
          PROVE  /\ cn[i] \in ConnectedRecord /\ cn[i].client = s.connected[i].client
                 /\ cn[i].handler = IF s.connected[i].client = k THEN None ELSE s.connected[i].handler
      <3>1. cn[i] = IF s.connected[i].client = k THEN UnhandledOf(s.connected[i]) ELSE s.connected[i]
        BY <1>7
      <3>2. s.connected[i] \in ConnectedRecord
        BY <2>2
      <3> DEFINE e == s.connected[i]
      <3>3. /\ UnhandledOf(e) \in ConnectedRecord /\ UnhandledOf(e).client = e.client
            /\ UnhandledOf(e).handler = None
        <4> HIDE DEF e
        <4>1. e \in ConnectedRecord
          BY <3>2 DEF e
        <4> QED
          BY <4>1 DEF ConnectedRecord, UnhandledOf
      <3> HIDE DEF cn
      <3> QED
        BY <3>1, <3>2, <3>3
    <2>4. cn \in [1 .. n -> ConnectedRecord]
      <3>1. cn = [i \in 1 .. n |-> cn[i]]
        BY <2>d
      <3> HIDE DEF cn, n
      <3> QED
        BY <2>1, <2>3, <3>1
    <2> HIDE DEF cn, n
    <2>5. cn \in Seq(ConnectedRecord)
      BY <2>1, <2>4, SeqDef
    <2> QED
      BY <2>1, <2>d, <2>3, <2>5
  <1> HIDE DEF cn
  <1>9. lg \in SUBSET Clients
    BY <1>4, Fields
  <1> HIDE DEF lg
  <1>10. t \in Memory /\ t.client = f /\ t.connected = cn /\ t.lingers = lg
    <2>1. b \in Memory /\ f \in [Clients -> ClientRecord] /\ cn \in Seq(ConnectedRecord) /\ lg \in SUBSET Clients
      BY <1>4, <1>6, <1>8, <1>9
    <2> QED
      BY ZenonT(30), <1>5, <2>1 DEF Memory
  <1>11. /\ t.expected = b.expected /\ t.expectTimers = b.expectTimers
         /\ t.queries = b.queries /\ t.freedStubs = b.freedStubs
         /\ t.mob = b.mob /\ t.npcs = b.npcs /\ t.zoneList = b.zoneList /\ t.byName = b.byName
         /\ t.udp = b.udp /\ t.fault = b.fault /\ t.handler = b.handler /\ t.zone = b.zone
    BY <1>4, <1>5 DEF Memory
  <1>12. /\ t.expected = s.expected /\ t.expectTimers = s.expectTimers /\ t.lingers = s.lingers \cup {k}
         /\ t.queries = s.queries /\ t.freedStubs = s.freedStubs
         /\ t.mob = s.mob /\ t.npcs = s.npcs /\ t.zoneList = s.zoneList /\ t.byName = s.byName
         /\ t.udp = s.udp /\ t.fault = s.fault /\ t.handler = a.handler /\ a.zoneList = s.zoneList /\ a.zone = s.zone
    BY <1>1, <1>4, <1>7, <1>10, <1>11 DEF SameLists, SameWaits, SameButZones, lg
  <1>13. SameHandlers(s, t) /\ \A d \in Conns : t.handler[d].refs =
           IF d = s.client[k].handler THEN s.handler[d].refs - 1 ELSE s.handler[d].refs
    BY <1>1, <1>12 DEF SameHandlers
  <1>14. \A y \in s.zoneList :
         /\ t.zone[y] \in ZoneRecord
         /\ t.zone[y].mobs = s.zone[y].mobs /\ t.zone[y].ents = s.zone[y].ents
         /\ DOMAIN t.zone[y].list = DOMAIN s.zone[y].list
         /\ \A i \in DOMAIN s.zone[y].list :
              /\ t.zone[y].list[i].client = s.zone[y].list[i].client
              /\ t.zone[y].list[i].linkdead = IF y = s.client[k].zone /\ i = s.client[k].index
                                                THEN TRUE ELSE s.zone[y].list[i].linkdead
    <2>1. t.zone = b.zone /\ a.zoneList = s.zoneList /\ a.zone = s.zone /\ a.client = s.client
      BY <1>1, <1>11, <1>12
    <2> SUFFICES ASSUME NEW y \in s.zoneList
                 PROVE  /\ t.zone[y] \in ZoneRecord
                        /\ t.zone[y].mobs = s.zone[y].mobs /\ t.zone[y].ents = s.zone[y].ents
                        /\ DOMAIN t.zone[y].list = DOMAIN s.zone[y].list
                        /\ \A i \in DOMAIN s.zone[y].list :
                             /\ t.zone[y].list[i].client = s.zone[y].list[i].client
                             /\ t.zone[y].list[i].linkdead = IF y = s.client[k].zone /\ i = s.client[k].index
                                                               THEN TRUE ELSE s.zone[y].list[i].linkdead
      OBVIOUS
    <2>2. y \in a.zoneList /\ a.zone[y] = s.zone[y] /\ t.zone[y] = b.zone[y] /\ a.client[k] = s.client[k]
      BY <2>1
    <2>3. /\ b.zone[y] \in ZoneRecord
          /\ b.zone[y].mobs = a.zone[y].mobs /\ b.zone[y].ents = a.zone[y].ents
          /\ DOMAIN b.zone[y].list = DOMAIN a.zone[y].list
          /\ \A i \in DOMAIN a.zone[y].list :
               /\ b.zone[y].list[i].client = a.zone[y].list[i].client
               /\ b.zone[y].list[i].linkdead = IF y = a.client[k].zone /\ i = a.client[k].index
                                                 THEN TRUE ELSE a.zone[y].list[i].linkdead
      BY <1>4, <2>2
    <2> QED
      BY ZenonT(30), <2>2, <2>3
  <1> QED
    BY ZenonT(30), <1>6, <1>8, <1>10, <1>12, <1>13, <1>14 DEF WentLinkdead

-----------------------------------------------------------------------------
(* The lists after each operation *)

\* Ignoring the packets of a connection keeps the lists in order.
LEMMA SoundIgnored ==
  ASSUME NEW s, NEW pl, Sound(s, pl), NEW c, NEW t, t = Ignored(s, c)
  PROVE  Sound(t, pl) /\ t.fault = s.fault
  <1>1. s \in Memory
    BY DEF Sound
  <1> DEFINE x == s.udp[s.handler[c].index]
  <1>2. IgnoredAt(s, x, t)
    <2>1. x = s.udp[s.handler[c].index]
      OBVIOUS
    <2> HIDE DEF x
    <2> QED
      BY <1>1, <2>1, IgnoredIs
  <1> HIDE DEF x
  <1>3. /\ t \in Memory /\ SameLists(s, t) /\ t.expected = s.expected
        /\ t.udp = s.udp /\ t.client = s.client /\ t.fault = s.fault
        /\ \A d \in Conns : /\ t.handler[d].index = s.handler[d].index
                            /\ t.handler[d].obj = s.handler[d].obj /\ t.handler[d].dead = s.handler[d].dead
    BY <1>2 DEF IgnoredAt, SameWaits
  <1>4. Kept(s, t)
    BY <1>3 DEF Kept
  <1> QED
    BY <1>3, <1>4, SoundKept

\* Linkdeath keeps the lists in order.
LEMMA SoundLinkdead ==
  ASSUME NEW s, NEW pl, Sound(s, pl), NEW k \in Clients, Born(s, k), NEW t, t = GoLinkdead(s, k)
  PROVE  Sound(t, pl) /\ WentLinkdead(s, k, t) /\ t.fault = s.fault
  <1>1. s \in Memory /\ Sockets(s, pl) /\ Known(s) /\ MobLists(s) /\ ClientLists(s)
    BY DEF Sound
  <1>2. WentLinkdead(s, k, t)
    <2>1. s.client[k].zone \in s.zoneList
      BY <1>1 DEF Known
    <2> QED
      BY <1>1, <2>1, GoLinkdeadIs
  <1>3. /\ t \in Memory /\ t.expected = s.expected
        /\ t.mob = s.mob /\ t.npcs = s.npcs /\ t.zoneList = s.zoneList /\ t.byName = s.byName
        /\ t.udp = s.udp /\ t.fault = s.fault /\ SameHandlers(s, t)
        /\ \A j \in Clients :
             /\ t.client[j].name = s.client[j].name /\ t.client[j].zone = s.client[j].zone
             /\ t.client[j].index = s.client[j].index
    BY <1>2 DEF WentLinkdead
  <1>4. /\ DOMAIN t.connected = DOMAIN s.connected
        /\ \A i \in DOMAIN s.connected : t.connected[i].client = s.connected[i].client
        /\ \A y \in s.zoneList :
             /\ t.zone[y] \in ZoneRecord
             /\ t.zone[y].mobs = s.zone[y].mobs /\ t.zone[y].ents = s.zone[y].ents
             /\ DOMAIN t.zone[y].list = DOMAIN s.zone[y].list
             /\ \A i \in DOMAIN s.zone[y].list : t.zone[y].list[i].client = s.zone[y].list[i].client
    BY <1>2 DEF WentLinkdead
  <1>5. MobLists(t)
    BY <1>1, <1>3, <1>4, MobListsSame
  <1>6. ClientLists(t)
    BY <1>1, <1>3, <1>4, ClientListsSame
  <1>7. Sockets(t, pl)
    <2>1. \A i \in DOMAIN s.udp : s.udp[i] \in Conns
      BY <1>1, ConnectedFacts
    <2> QED
      BY <1>1, <1>3, <2>1 DEF Sockets, Open, SameHandlers
  <1>8. Known(t)
    <2>1. \A c \in Conns : s.handler[c].obj # None => s.handler[c].obj \in Clients
      BY <1>1, Fields DEF HandlerRecord
    <2>2. \A n \in Names : s.expected[n] # None => s.expected[n] \in Clients
      BY <1>1, Fields
    <2> QED
      BY <1>1, <1>3, <2>1, <2>2 DEF Known, Born, SameHandlers
  <1> QED
    BY <1>2, <1>3, <1>5, <1>6, <1>7, <1>8 DEF Sound

\* Taking a dead connection out of the socket keeps the lists in order.
LEMMA SoundDead ==
  ASSUME NEW s, NEW pl, Sound(s, pl), NEW i \in DOMAIN s.udp, pl[s.udp[i]] = "gone",
         NEW t, t = HandleDeadClient(s, i)
  PROVE  Sound(t, pl) /\ t.fault = s.fault
  <1>1. s \in Memory /\ Sockets(s, pl) /\ Known(s) /\ MobLists(s) /\ ClientLists(s)
    BY DEF Sound
  <1>2. DeadRemoved(s, i, t)
    BY <1>1, HandleDeadClientIs DEF Sockets
  <1>3. /\ t \in Memory /\ SameLists(s, t) /\ SameWaits(s, t)
        /\ t.client = s.client /\ t.fault = s.fault
        /\ \A d \in Conns : t.handler[d].obj = s.handler[d].obj /\ t.handler[d].dead = s.handler[d].dead
        /\ \A j \in DOMAIN t.udp : t.handler[t.udp[j]].index = j
        /\ \A c \in Conns : Open(t, c) <=> Open(s, c) /\ c # s.udp[i]
    BY <1>2 DEF DeadRemoved
  <1>4. MobLists(t) /\ ClientLists(t)
    BY <1>1, <1>3, ListsKept
  <1>5. Sockets(t, pl)
    BY <1>1, <1>3 DEF Sockets
  <1>6. Known(t)
    BY <1>1, <1>3 DEF Known, Born, SameLists, SameWaits
  <1> QED
    BY <1>3, <1>4, <1>5, <1>6 DEF Sound

\* A fault stays a fault, whatever the rest of the step does.
LEMMA FaultIs ==
  ASSUME NEW s \in Memory, NEW why \in Faults
  PROVE  /\ Fault(s, why) \in Memory /\ Fault(s, why).fault = why
         /\ Fault(s, why).udp = s.udp /\ Fault(s, why).handler = s.handler
  BY DEF Fault, Memory

\* zone_broadcast_packet and client_check_loading_finished change nothing else.
LEMMA SentOrFault ==
  ASSUME NEW s \in Memory
  PROVE  /\ \A z : Broadcast(s, z) = s \/ Broadcast(s, z).fault # "none"
         /\ \A k : CheckLoadingFinished(s, k) = s \/ CheckLoadingFinished(s, k).fault # "none"
  <1>1. "broadcast" \in Faults /\ "no handler" \in Faults /\ "broadcast" # "none" /\ "no handler" # "none"
    BY DEF Faults
  <1> QED
    BY Zenon, <1>1, FaultIs DEF Broadcast, CheckLoadingFinished

\* A connection of a player that is there finds itself by its index.
LEMMA FindsItself ==
  ASSUME NEW s, NEW pl, Sound(s, pl), NEW c \in Conns, pl[c] = "here"
  PROVE  s.handler[c].index \in DOMAIN s.udp /\ s.udp[s.handler[c].index] = c
  BY DEF Sound, Sockets, Open

-----------------------------------------------------------------------------
(* The lists after each action *)

\* A step that changes neither what the references depend on nor the listings
Quiet(s, t) ==
    /\ t \in Memory /\ SameWaits(s, t) /\ t.client = s.client /\ t.udp = s.udp /\ t.handler = s.handler
    /\ t.connected = s.connected /\ \A y \in s.zoneList : t.zone[y].list = s.zone[y].list

\* A zone that starts is empty.
LEMMA StartZoneSound ==
  ASSUME Sound(zc, player), NEW z \in Zones, StartZone(z)
  PROVE  Sound(zc', player) /\ Quiet(zc, zc')
  <1> DEFINE s == zc
             f == [s.zone EXCEPT ![z] = NewZone]
             a == [s EXCEPT !.zoneList = s.zoneList \cup {z}]
             t == [a EXCEPT !.zone = f]
  <1>1. s \in Memory /\ Sockets(s, player) /\ Known(s) /\ MobLists(s) /\ ClientLists(s)
    BY DEF Sound
  <1>2. zc' = t /\ z \notin s.zoneList
    BY <1>1 DEF StartZone, Memory
  <1>3. NewZone \in ZoneRecord /\ NewZone.ents = <<>> /\ NewZone.mobs = <<>> /\ NewZone.list = <<>>
    BY DEF NewZone, ZoneRecord
  <1>4. /\ f \in [Zones -> ZoneRecord \cup {None}] /\ f[z] = NewZone
        /\ \A y \in Zones : y # z => f[y] = s.zone[y]
    <2>1. s.zone \in [Zones -> ZoneRecord \cup {None}] /\ NewZone \in ZoneRecord \cup {None}
      BY <1>1, <1>3, Fields
    <2> QED
      BY <2>1
  <1> HIDE DEF f, s
  <1>5. /\ t \in Memory /\ t.zone = f /\ t.zoneList = s.zoneList \cup {z}
    BY <1>1, <1>4 DEF Memory
  <1>6. /\ t.client = s.client /\ t.udp = s.udp /\ t.handler = s.handler /\ t.fault = s.fault
        /\ t.expected = s.expected /\ t.mob = s.mob /\ t.npcs = s.npcs
        /\ t.byName = s.byName /\ t.connected = s.connected /\ SameWaits(s, t)
    BY <1>1 DEF Memory, SameWaits
  <1> HIDE DEF t
  <1>7. Sockets(t, player)
    BY <1>1, <1>6 DEF Sockets, Open
  <1>8. Known(t)
    BY <1>1, <1>5, <1>6 DEF Known, Born
  <1>9. /\ \A y \in s.zoneList : y \in Zones /\ y # z /\ t.zone[y] = s.zone[y] /\ s.zone[y] \in ZoneRecord
        /\ t.zone[z] = NewZone /\ DOMAIN NewZone.mobs = {} /\ DOMAIN NewZone.list = {}
        /\ DOMAIN NewZone.ents = {} /\ Len(NewZone.mobs) = 0
    <2>1. \A y \in s.zoneList : y \in Zones /\ s.zone[y] \in ZoneRecord
      BY Zenon, <1>1, Fields DEF MobLists
    <2>2. \A y \in s.zoneList : y # z
      BY Zenon, <1>1, <1>2
    <2>3. \A y \in s.zoneList : t.zone[y] = s.zone[y]
      BY Zenon, <1>4, <1>5, <2>1, <2>2
    <2>4. t.zone[z] = NewZone
      BY Zenon, <1>4, <1>5
    <2> QED
      BY <1>3, <2>1, <2>2, <2>3, <2>4
  <1>10. MobLists(t)
    <2>1. ASSUME NEW y \in t.zoneList
          PROVE  /\ t.zone[y] \in ZoneRecord
                 /\ \A i \in DOMAIN t.zone[y].mobs :
                      LET m == t.zone[y].mobs[i] IN
                      /\ t.mob[m].index = i
                      /\ t.mob[m].entity \in DOMAIN t.zone[y].ents /\ t.zone[y].ents[t.mob[m].entity] = m
                 /\ Cardinality(Entities(t, y)) = Len(t.zone[y].mobs)
      <3>1. CASE y = z
        <4>1. Entities(t, y) = {}
          BY <1>9, <3>1 DEF Entities
        <4>2. Cardinality(Entities(t, y)) = 0
          BY <4>1, FS_EmptySet
        <4> QED
          BY Zenon, <1>3, <1>9, <3>1, <4>2
      <3>2. CASE y # z
        <4>1. y \in s.zoneList /\ t.zone[y] = s.zone[y] /\ t.mob = s.mob
          BY <1>5, <1>6, <1>9, <3>2
        <4>2. Entities(t, y) = Entities(s, y)
          BY <4>1 DEF Entities
        <4>3. /\ s.zone[y] \in ZoneRecord
              /\ \A i \in DOMAIN s.zone[y].mobs :
                   LET m == s.zone[y].mobs[i] IN
                   /\ s.mob[m].index = i
                   /\ s.mob[m].entity \in DOMAIN s.zone[y].ents /\ s.zone[y].ents[s.mob[m].entity] = m
              /\ Cardinality(Entities(s, y)) = Len(s.zone[y].mobs)
          BY Zenon, <1>1, <4>1 DEF MobLists
        <4> QED
          BY Zenon, <4>1, <4>2, <4>3
      <3> QED
        BY Zenon, <3>1, <3>2
    <2>2. ASSUME NEW x \in t.zoneList, NEW y \in t.zoneList,
                 NEW i \in DOMAIN t.zone[x].mobs, NEW j \in DOMAIN t.zone[y].mobs,
                 t.zone[x].mobs[i] = t.zone[y].mobs[j]
          PROVE  x = y
      <3>1. x # z /\ y # z
        BY <1>9
      <3>2. x \in s.zoneList /\ y \in s.zoneList /\ t.zone[x] = s.zone[x] /\ t.zone[y] = s.zone[y]
        BY <1>5, <1>9, <3>1
      <3> QED
        <4>1. s.zone[x].mobs[i] = s.zone[y].mobs[j] /\ i \in DOMAIN s.zone[x].mobs /\ j \in DOMAIN s.zone[y].mobs
          BY Zenon, <2>2, <3>2
        <4> QED
          BY Zenon, <1>1, <3>2, <4>1 DEF MobLists
    <2>3. \A m \in Mobs : m > MaxClients + t.npcs => t.mob[m].entity = 0
      BY Zenon, <1>1, <1>6 DEF MobLists
    <2> QED
      BY Zenon, <2>1, <2>2, <2>3 DEF MobLists
  <1>11. ClientLists(t)
    <2>1. \A k : IsListed(t, k) <=> IsListed(s, k)
      BY <1>6 DEF IsListed
    <2>2. \A k \in Clients : ClientIn(s, k) => ClientIn(t, k)
      BY Zenon, <1>5, <1>6, <1>9 DEF ClientIn
    <2>3. ASSUME NEW y \in t.zoneList, NEW i \in DOMAIN t.zone[y].list
          PROVE  LET k == t.zone[y].list[i].client IN
                 t.client[k].index = i /\ t.client[k].zone = y /\ IsListed(t, k)
      <3>1. y # z
        BY <1>9
      <3>2. y \in s.zoneList /\ t.zone[y] = s.zone[y]
        BY <1>5, <1>9, <3>1
      <3>3. ASSUME NEW k, k = t.zone[y].list[i].client
            PROVE  t.client[k].index = i /\ t.client[k].zone = y /\ IsListed(t, k)
        <4>1. i \in DOMAIN s.zone[y].list /\ k = s.zone[y].list[i].client
          BY Zenon, <3>2, <3>3
        <4>2. s.client[k].index = i /\ s.client[k].zone = y /\ IsListed(s, k)
          BY <1>1, <3>2, <4>1, ListPlaces
        <4> QED
          BY Zenon, <1>6, <2>1, <4>2
      <3> QED
        BY Zenon, <3>3
    <2>4. ASSUME NEW i \in DOMAIN t.connected
          PROVE  LET k == t.connected[i].client IN
                 /\ ClientIn(t, k) /\ t.client[k].name # None /\ t.byName[t.client[k].name] = k
                 /\ \A j \in DOMAIN t.connected : t.connected[j].client = k => j = i
      <3>1. i \in DOMAIN s.connected /\ s.connected[i].client \in Clients
        BY <1>1, <1>6, ConnectedFacts
      <3>2. ASSUME NEW k, k = s.connected[i].client
            PROVE  /\ ClientIn(s, k) /\ s.client[k].name # None /\ s.byName[s.client[k].name] = k
                   /\ \A j \in DOMAIN s.connected : s.connected[j].client = k => j = i
        BY <1>1, <3>1, <3>2, ConnectedPlaces
      <3> QED
        BY Zenon, <1>6, <2>2, <3>1, <3>2
    <2>5. \A n \in Names : t.byName[n] # None => IsListed(t, t.byName[n]) /\ t.client[t.byName[n]].name = n
      <3> SUFFICES ASSUME NEW n \in Names, t.byName[n] # None
                   PROVE  IsListed(t, t.byName[n]) /\ t.client[t.byName[n]].name = n
        BY Zenon
      <3> DEFINE j == s.byName[n]
      <3>1. t.byName[n] = j /\ j # None
        BY Zenon, <1>6
      <3>2. IsListed(s, j) /\ s.client[j].name = n
        BY Zenon, <1>1, <3>1 DEF ClientLists
      <3> HIDE DEF j
      <3> QED
        BY Zenon, <1>6, <2>1, <3>1, <3>2
    <2> QED
      BY Zenon, <2>3, <2>4, <2>5 DEF ClientLists
  <1>12. Quiet(s, t)
    BY <1>5, <1>6, <1>9 DEF Quiet
  <1>13. Sound(t, player)
    BY <1>5, <1>7, <1>8, <1>10, <1>11 DEF Sound
  <1> QED
    BY <1>2, <1>12, <1>13 DEF s

\* Client k is announced as n: it is new, and the queries of client_create run.
Announced(s, n, z, k, t) ==
    /\ t \in Memory /\ SameLists(s, t)
    /\ t.udp = s.udp /\ t.handler = s.handler /\ t.lingers = s.lingers /\ t.freedStubs = s.freedStubs
    /\ t.expectTimers = s.expectTimers \cup {k}
    /\ t.queries = s.queries \cup ({k} \X (Tables \cup {"stats"}))
    /\ t.expected[n] = k /\ \A m \in Names : m # n => t.expected[m] = s.expected[m]
    /\ t.client[k].name = n /\ t.client[k].zone = z /\ t.client[k].refs = 2 + Cardinality(Tables)
    /\ t.client[k].handler = None /\ t.client[k].loaded = {} /\ ~t.client[k].linkdead
    /\ \A j \in Clients : j # k => t.client[j] = s.client[j]

\* What zc_client_expected_to_zone_in comes to
LEMMA AnnouncedIs ==
  ASSUME zc \in Memory, NEW n \in Names, NEW z \in Zones, ExpectedToZoneIn(n, z)
  PROVE  \/ zc' = zc
         \/ \E k \in Clients : z \in zc.zoneList /\ ~Born(zc, k) /\ Announced(zc, n, z, k, zc')
  <1> DEFINE s == zc
             unborn == {j \in Clients : s.client[j].name = None}
             k == Least(unborn)
             r == Created(n, z)
             f == [s.client EXCEPT ![k] = r]
             ex == [s.expected EXCEPT ![n] = k]
             et == s.expectTimers \cup {k}
             qs == s.queries \cup ({k} \X (Tables \cup {"stats"}))
             t == [[[[s EXCEPT !.client = f] EXCEPT !.expectTimers = et] EXCEPT !.expected = ex]
                     EXCEPT !.queries = qs]
  <1>1. s \in Memory
    OBVIOUS
  <1>2. k \in Clients /\ s.client[k].name = None
    <2>1. unborn \in SUBSET Nat /\ unborn # {}
      BY DEF ExpectedToZoneIn, Clients
    <2>2. k \in unborn
      BY <2>1, LeastFound
    <2> HIDE DEF k
    <2> QED
      BY <2>2
  <1>3. CASE z \notin s.zoneList
    BY <1>3 DEF ExpectedToZoneIn
  <1>4. CASE z \in s.zoneList
    <2>1. zc' = t
      BY <1>1, <1>4 DEF ExpectedToZoneIn, Memory
    <2> HIDE DEF s, k
    <2>2. /\ r \in ClientRecord /\ r.name = n /\ r.zone = z /\ r.refs = 2 + Cardinality(Tables)
          /\ r.handler = None /\ r.loaded = {} /\ r.linkdead = FALSE
      <3> DEFINE q == Cardinality(Tables)
      <3>1. q \in Nat
        BY FS_CardinalityType, ZoneAssumption
      <3> HIDE DEF q
      <3>2. /\ Unborn \in ClientRecord /\ Unborn.handler = None /\ Unborn.loaded = {} /\ Unborn.linkdead = FALSE
        BY DEF Unborn, ClientRecord
      <3>3. 2 + q \in Int
        BY <3>1
      <3> DEFINE g == [Unborn EXCEPT !.name = n]
                 h == [g EXCEPT !.zone = z]
      <3>4. g \in ClientRecord /\ g.name = n /\ g.handler = None /\ g.loaded = {} /\ g.linkdead = FALSE
        BY <3>2 DEF ClientRecord
      <3> HIDE DEF g
      <3>5. h \in ClientRecord /\ h.name = n /\ h.zone = z /\ h.handler = None /\ h.loaded = {} /\ h.linkdead = FALSE
        BY <3>4 DEF ClientRecord
      <3>6. r = [h EXCEPT !.refs = 2 + q]
        BY DEF Created, q, g
      <3> HIDE DEF h, r
      <3>7. /\ r \in ClientRecord /\ r.name = n /\ r.zone = z /\ r.refs = 2 + q
            /\ r.handler = None /\ r.loaded = {} /\ r.linkdead = FALSE
        BY <3>3, <3>5, <3>6 DEF ClientRecord
      <3> QED
        BY <3>7 DEF q
    <2> HIDE DEF r
    <2>3. /\ f \in [Clients -> ClientRecord] /\ f[k] = r
          /\ \A j \in Clients : j # k => f[j] = s.client[j]
      BY <1>1, <1>2, <2>2, Fields, Updated
    <2>4. /\ ex \in [Names -> Clients \cup {None}] /\ ex[n] = k
          /\ \A m \in Names : m # n => ex[m] = s.expected[m]
      <3>1. s.expected \in [Names -> Clients \cup {None}]
        BY <1>1, Fields
      <3> QED
        BY <1>2, <3>1
    <2>5. et \in SUBSET Clients /\ qs \in SUBSET (Clients \X (Tables \cup {"stats", "skills"}))
      BY <1>1, <1>2, Fields
    <2> HIDE DEF f, ex
    <2>6. t \in Memory /\ t.client = f /\ t.expected = ex /\ t.expectTimers = et /\ t.queries = qs
      <3> HIDE DEF et, qs
      <3> QED
        BY <1>1, <2>3, <2>4, <2>5 DEF Memory
    <2>7. t.udp = s.udp /\ t.handler = s.handler /\ SameLists(s, t) /\ t.lingers = s.lingers
          /\ t.freedStubs = s.freedStubs
      <3> HIDE DEF et, qs
      <3> QED
        BY <1>1 DEF SameLists, Memory
    <2> HIDE DEF t
    <2>8. Announced(s, n, z, k, t)
      BY <2>2, <2>3, <2>4, <2>6, <2>7 DEF Announced
    <2>9. ~Born(s, k)
      BY <1>2 DEF Born
    <2>10. z \in zc.zoneList /\ Announced(zc, n, z, k, zc') /\ ~Born(zc, k)
      BY <1>4, <2>1, <2>8, <2>9 DEF s
    <2> QED
      BY Zenon, <1>2, <2>10
  <1> QED
    BY <1>3, <1>4

\* The client that is announced was in no list.
LEMMA SoundAnnounced ==
  ASSUME NEW s, NEW pl, Sound(s, pl), NEW n \in Names, NEW z \in s.zoneList, NEW k \in Clients, ~Born(s, k),
         NEW t, Announced(s, n, z, k, t)
  PROVE  Sound(t, pl)
  <1>1. s \in Memory /\ Sockets(s, pl) /\ Known(s) /\ MobLists(s) /\ ClientLists(s)
    BY DEF Sound
  <1>2. t.client[k].name = n /\ t.client[k].zone = z
    BY DEF Announced
  <1>3. \A j \in Clients : j # k => t.client[j] = s.client[j]
    BY DEF Announced
  <1>4. t.expected[n] = k /\ \A m \in Names : m # n => t.expected[m] = s.expected[m]
    BY DEF Announced
  <1>5. s.client[k].name = None
    BY DEF Born
  <1>6. t \in Memory
    BY DEF Announced
  <1>7. t.udp = s.udp /\ t.handler = s.handler /\ SameLists(s, t)
    BY DEF Announced
  <1>8. Sockets(t, pl)
    BY <1>1, <1>7 DEF Sockets, Open
  <1>9. Known(t)
    <2>1. \A j \in Clients : IF Born(t, j) THEN t.client[j].zone \in t.zoneList ELSE t.client[j].zone = None
      <3> SUFFICES ASSUME NEW j \in Clients
                   PROVE  IF Born(t, j) THEN t.client[j].zone \in t.zoneList
                                        ELSE t.client[j].zone = None
        OBVIOUS
      <3>1. t.zoneList = s.zoneList
        BY <1>7 DEF SameLists
      <3>2. CASE j = k
        <4>1. t.client[j] = t.client[k]
          BY <1>3, <1>6, <3>2
        <4> QED
          BY <1>2, <3>1, <4>1, ZoneAssumption DEF Born
      <3>3. CASE j # k
        <4>1. t.client[j] = s.client[j]
          BY <1>3, <1>6, <3>3
        <4>2. IF Born(s, j) THEN s.client[j].zone \in s.zoneList ELSE s.client[j].zone = None
          BY <1>1 DEF Known
        <4> QED
          BY <3>1, <4>1, <4>2 DEF Born
      <3> QED
        BY <3>2, <3>3
    <2>2. \A j \in Clients : Born(s, j) => Born(t, j)
      BY <1>5, <1>3, <1>6 DEF Born
    <2>3. ASSUME NEW c \in Conns, t.handler[c].obj # None
          PROVE  Born(t, t.handler[c].obj)
      <3>1. s.handler[c].obj \in Clients
        <4>1. s.handler[c] \in HandlerRecord
          BY <1>1, Fields
        <4> QED
          BY <1>7, <2>3, <4>1 DEF HandlerRecord
      <3> QED
        BY <1>1, <1>7, <2>2, <2>3, <3>1 DEF Known
    <2>4. ASSUME NEW m \in Names, t.expected[m] # None
          PROVE  t.client[t.expected[m]].name = m
      <3>1. CASE m = n
        BY <1>2, <1>3, <1>4, <1>6, <3>1
      <3>2. CASE m # n
        <4>1. t.expected[m] = s.expected[m] /\ s.expected[m] \in Clients
          BY <1>1, <1>4, <1>6, <2>4, <3>2, Fields
        <4>2. s.client[s.expected[m]].name = m
          BY <1>1, <2>4, <4>1 DEF Known
        <4>3. s.expected[m] # k
          BY <1>5, <4>2, ZoneAssumption
        <4> QED
          BY <1>3, <1>6, <4>1, <4>2, <4>3
      <3> QED
        BY <3>1, <3>2
    <2>5. t.npcs <= MaxNpcs
      BY <1>1, <1>7 DEF Known, SameLists
    <2> QED
      BY <2>1, <2>3, <2>4, <2>5 DEF Known
  <1>10. /\ t.mob = s.mob /\ t.npcs = s.npcs /\ t.zoneList = s.zoneList /\ t.zone = s.zone
         /\ t.byName = s.byName /\ t.connected = s.connected
    BY <1>7 DEF SameLists
  <1>11. MobLists(t)
    <2>1. \A y \in s.zoneList : s.zone[y] \in ZoneRecord
      BY Zenon, <1>1 DEF MobLists
    <2> QED
      BY <1>1, <1>10, <2>1, MobListsSame
  <1>12. ~IsListed(s, k)
    BY Zenon, <1>1, <1>5 DEF ClientLists, IsListed
  <1>13. \A j \in Clients : j # k => t.client[j] = s.client[j]
    BY <1>3, <1>6
  <1>14. \A j : IsListed(t, j) <=> IsListed(s, j)
    BY <1>10 DEF IsListed
  <1>15. ClientLists(t)
    <2>1. \A j \in Clients : j # k /\ ClientIn(s, j) => ClientIn(t, j)
      BY ZenonT(30), <1>10, <1>13 DEF ClientIn
    <2>2. ASSUME NEW y \in t.zoneList, NEW i \in DOMAIN t.zone[y].list
          PROVE  LET j == t.zone[y].list[i].client IN
                 t.client[j].index = i /\ t.client[j].zone = y /\ IsListed(t, j)
      <3> DEFINE j == s.zone[y].list[i].client
      <3>1. y \in s.zoneList /\ i \in DOMAIN s.zone[y].list /\ t.zone[y].list[i].client = j
        BY <1>10
      <3>2. j \in Clients
        BY Zenon, <1>1, <3>1, ZoneFacts DEF MobLists
      <3>3. s.client[j].index = i /\ s.client[j].zone = y /\ IsListed(s, j)
        BY Zenon, <1>1, <3>1 DEF ClientLists
      <3> HIDE DEF j
      <3> QED
        BY <1>12, <1>13, <1>14, <3>1, <3>2, <3>3
    <2>3. ASSUME NEW i \in DOMAIN t.connected
          PROVE  LET j == t.connected[i].client IN
                 /\ ClientIn(t, j) /\ t.client[j].name # None /\ t.byName[t.client[j].name] = j
                 /\ \A h \in DOMAIN t.connected : t.connected[h].client = j => h = i
      <3> DEFINE j == s.connected[i].client
      <3>1. i \in DOMAIN s.connected /\ j \in Clients /\ t.connected = s.connected
        BY <1>1, <1>10, ConnectedFacts
      <3>2. /\ ClientIn(s, j) /\ s.client[j].name # None /\ s.byName[s.client[j].name] = j
            /\ \A h \in DOMAIN s.connected : s.connected[h].client = j => h = i
        BY Zenon, <1>1, <3>1 DEF ClientLists
      <3>3. j # k
        BY <1>5, <3>2
      <3>4. t.client[j] = s.client[j] /\ t.byName = s.byName
        BY <1>10, <1>13, <3>1, <3>3
      <3>5. ClientIn(t, j)
        BY <2>1, <3>1, <3>2, <3>3
      <3>6. t.connected[i].client = j
        BY <3>1
      <3> HIDE DEF j
      <3> QED
        BY <3>1, <3>2, <3>4, <3>5, <3>6
    <2>4. ASSUME NEW m \in Names, t.byName[m] # None
          PROVE  IsListed(t, t.byName[m]) /\ t.client[t.byName[m]].name = m
      <3> DEFINE j == s.byName[m]
      <3>1. t.byName[m] = j /\ j \in Clients
        BY <1>1, <1>10, <2>4, Fields
      <3>2. IsListed(s, j) /\ s.client[j].name = m
        BY Zenon, <1>1, <2>4, <3>1 DEF ClientLists
      <3> HIDE DEF j
      <3> QED
        BY <1>12, <1>13, <1>14, <3>1, <3>2
    <2> QED
      BY Zenon, <2>2, <2>3, <2>4 DEF ClientLists
  <1> QED
    BY <1>6, <1>8, <1>9, <1>11, <1>15 DEF Sound

\* zc_client_expected_to_zone_in keeps the lists in order.
LEMMA ExpectedToZoneInSound ==
  ASSUME Sound(zc, player), NEW n \in Names, NEW z \in Zones, ExpectedToZoneIn(n, z)
  PROVE  Sound(zc', player)
  <1>1. zc \in Memory
    BY DEF Sound
  <1> QED
    BY Zenon, <1>1, AnnouncedIs, SoundAnnounced

\* A query that has come back
Loaded(s, k, x, Q, t) ==
    /\ t \in Memory /\ SameLists(s, t) /\ t.queries = Q
    /\ t.expected = s.expected /\ t.expectTimers = s.expectTimers /\ t.lingers = s.lingers
    /\ t.freedStubs = s.freedStubs /\ t.udp = s.udp /\ t.handler = s.handler /\ t.fault = s.fault
    /\ \A j \in Clients :
         /\ t.client[j].name = s.client[j].name /\ t.client[j].zone = s.client[j].zone
         /\ t.client[j].refs = s.client[j].refs /\ t.client[j].handler = s.client[j].handler
         /\ t.client[j].linkdead = s.client[j].linkdead /\ t.client[j].index = s.client[j].index
         /\ t.client[j].loaded = IF j = k THEN s.client[j].loaded \cup {x} ELSE s.client[j].loaded

\* What the callback of a query does besides dropping its reference
LEMMA LoadedIs ==
  ASSUME NEW s \in Memory, NEW k \in Clients, NEW x \in AllLoaded,
         NEW Q \in SUBSET (Clients \X (Tables \cup {"stats", "skills"})),
         NEW t, t = [s EXCEPT !.queries = Q, !.client[k].loaded = @ \cup {x}]
  PROVE  Loaded(s, k, x, Q, t)
  <1> DEFINE y == s.client[k].loaded \cup {x}
             r == [s.client[k] EXCEPT !.loaded = y]
             f == [s.client EXCEPT ![k] = r]
  <1>1. s.client \in [Clients -> ClientRecord] /\ s.client[k] \in ClientRecord
    BY Fields
  <1>2. y \in SUBSET AllLoaded
    BY <1>1 DEF ClientRecord
  <1>3. t = [[s EXCEPT !.queries = Q] EXCEPT !.client = f]
    BY DEF Memory
  <1> HIDE DEF y
  <1>4. /\ r \in ClientRecord /\ r.name = s.client[k].name /\ r.zone = s.client[k].zone
        /\ r.refs = s.client[k].refs /\ r.handler = s.client[k].handler
        /\ r.linkdead = s.client[k].linkdead /\ r.index = s.client[k].index /\ r.loaded = y
    BY <1>1, <1>2 DEF ClientRecord
  <1> HIDE DEF r
  <1>5. f \in [Clients -> ClientRecord] /\ f[k] = r /\ \A j \in Clients : j # k => f[j] = s.client[j]
    BY <1>1, <1>4, Updated
  <1> HIDE DEF f
  <1>6. t \in Memory /\ t.client = f /\ t.queries = Q
    BY ZenonT(30), <1>3, <1>5 DEF Memory
  <1>7. /\ SameLists(s, t)
        /\ t.expected = s.expected /\ t.expectTimers = s.expectTimers /\ t.lingers = s.lingers
        /\ t.freedStubs = s.freedStubs /\ t.udp = s.udp /\ t.handler = s.handler /\ t.fault = s.fault
    BY <1>3 DEF SameLists, Memory
  <1>8. ASSUME NEW j \in Clients
        PROVE  /\ f[j].name = s.client[j].name /\ f[j].zone = s.client[j].zone
               /\ f[j].refs = s.client[j].refs /\ f[j].handler = s.client[j].handler
               /\ f[j].linkdead = s.client[j].linkdead /\ f[j].index = s.client[j].index
               /\ f[j].loaded = IF j = k THEN s.client[j].loaded \cup {x} ELSE s.client[j].loaded
    <2>1. CASE j = k
      BY <1>4, <1>5, <2>1 DEF y
    <2>2. CASE j # k
      BY <1>5, <2>2
    <2> QED
      BY <2>1, <2>2
  <1> QED
    BY <1>6, <1>7, <1>8 DEF Loaded

\* A query that comes back keeps the lists in order.
LEMMA SoundLoaded ==
  ASSUME NEW s, NEW pl, Sound(s, pl), NEW k, NEW x, NEW Q, NEW t, Loaded(s, k, x, Q, t)
  PROVE  Sound(t, pl) /\ t.fault = s.fault
  <1>1. t \in Memory /\ t.fault = s.fault
    BY DEF Loaded
  <1>2. Kept(s, t)
    BY DEF Loaded, Kept
  <1> QED
    BY <1>1, <1>2, SoundKept

\* The queries after client_load_stats_callback and after the other callbacks
LEMMA QueriesTyped ==
  ASSUME NEW s \in Memory, NEW k \in Clients, NEW x
  PROVE  /\ (s.queries \ {x}) \cup {<<k, "skills">>} \in SUBSET (Clients \X (Tables \cup {"stats", "skills"}))
         /\ s.queries \ {x} \in SUBSET (Clients \X (Tables \cup {"stats", "skills"}))
  BY Fields

\* client_load_stats_callback keeps the lists in order.
LEMMA LoadStatsSound ==
  ASSUME Sound(zc, player), NEW k \in Clients, LoadStats(k)
  PROVE  Sound(zc', player)
  <1> DEFINE Q == (zc.queries \ {<<k, "stats">>}) \cup {<<k, "skills">>}
  <1>1. zc \in Memory
    BY DEF Sound
  <1>2. Q \in SUBSET (Clients \X (Tables \cup {"stats", "skills"})) /\ "stats" \in AllLoaded
    BY <1>1, QueriesTyped DEF AllLoaded
  <1>3. zc' = [zc EXCEPT !.queries = Q, !.client[k].loaded = @ \cup {"stats"}]
    BY DEF LoadStats, SkillsRef
  <1> HIDE DEF Q
  <1>4. Loaded(zc, k, "stats", Q, zc')
    BY Zenon, <1>1, <1>2, <1>3, LoadedIs
  <1> QED
    BY <1>4, SoundLoaded

\* The other callbacks keep the lists in order.
LEMMA LoadTableSound ==
  ASSUME Sound(zc, player), NEW k \in Clients, NEW x \in Tables \cup {"skills"}, LoadTable(k, x),
         zc'.fault = "none"
  PROVE  Sound(zc', player)
  <1> DEFINE Q == zc.queries \ {<<k, x>>}
             s == [zc EXCEPT !.queries = Q, !.client[k].loaded = @ \cup {x}]
             u == IF "connection" \in zc.client[k].loaded THEN CheckLoadingFinished(s, k) ELSE s
  <1>1. zc \in Memory
    BY DEF Sound
  <1>2. Q \in SUBSET (Clients \X (Tables \cup {"stats", "skills"})) /\ x \in AllLoaded
    BY <1>1, QueriesTyped DEF AllLoaded
  <1>3. zc' = Drop(u, k)
    BY DEF LoadTable
  <1> HIDE DEF Q
  <1>4. Loaded(zc, k, x, Q, s)
    BY Zenon, <1>1, <1>2, LoadedIs
  <1> HIDE DEF s
  <1>5. Sound(s, player) /\ s \in Memory
    <2>1. Sound(s, player)
      BY <1>4, SoundLoaded
    <2> QED
      BY <2>1 DEF Sound
  <1>6. u = s \/ u.fault # "none"
    BY <1>5, SentOrFault
  <1>7. u \in Memory
    <2>1. "no handler" \in Faults
      BY DEF Faults
    <2> QED
      BY Zenon, <1>5, <2>1, FaultIs DEF CheckLoadingFinished
  <1> HIDE DEF u
  <1>8. zc'.fault = u.fault
    <2> DEFINE t == Drop(u, k)
    <2>1. t.fault = u.fault
      BY <1>7, DropIs
    <2> HIDE DEF t
    <2> QED
      BY <1>3, <2>1 DEF t
  <1>9. Sound(u, player)
    BY <1>5, <1>6, <1>8
  <1> QED
    BY <1>3, <1>9, SoundDrop

\* An entry of expectedClientsByName removed, and its timer
LEMMA ExpectedTimeoutSound ==
  ASSUME Sound(zc, player), NEW k \in Clients, ExpectedTimeout(k), zc'.fault = "none"
  PROVE  Sound(zc', player)
  <1> DEFINE n == zc.client[k].name
             et == zc.expectTimers \ {k}
             s == [zc EXCEPT !.expectTimers = et]
             ex == [zc.expected EXCEPT ![n] = None]
             u == [s EXCEPT !.expected = ex]
  <1>1. zc \in Memory
    BY DEF Sound
  <1>2. ~Freed(zc, k)
    <2>1. "expected timer" \in Faults /\ "expected timer" # "none"
      BY DEF Faults
    <2>2. Fault(zc, "expected timer").fault = "expected timer"
      BY Zenon, <1>1, <2>1, FaultIs
    <2> QED
      BY Zenon, <2>1, <2>2 DEF ExpectedTimeout
  <1>3. zc' = IF zc.expected[n] = None THEN s ELSE Drop([s EXCEPT !.expected[n] = None], k)
    BY <1>2 DEF ExpectedTimeout
  <1>4. [s EXCEPT !.expected[n] = None] = u
    BY <1>1 DEF Memory
  <1>5. et \in SUBSET Clients
    BY <1>1, Fields
  <1>6. /\ ex \in [Names -> Clients \cup {None}]
        /\ \A m \in Names : ex[m] \in {None, zc.expected[m]}
    <2>1. zc.expected \in [Names -> Clients \cup {None}]
      BY <1>1, Fields
    <2> QED
      BY <2>1
  <1> HIDE DEF et, ex
  <1>7. s \in Memory /\ u \in Memory /\ u.expected = ex /\ s.expected = zc.expected
    BY <1>1, <1>5, <1>6 DEF Memory
  <1>8. /\ SameLists(zc, s) /\ s.udp = zc.udp /\ s.client = zc.client /\ s.handler = zc.handler
        /\ SameLists(zc, u) /\ u.udp = zc.udp /\ u.client = zc.client /\ u.handler = zc.handler
    BY <1>1 DEF SameLists, Memory
  <1> HIDE DEF s, u
  <1>9. Kept(zc, s) /\ Kept(zc, u)
    BY <1>6, <1>7, <1>8 DEF Kept
  <1>10. Sound(s, player) /\ Sound(u, player)
    BY <1>7, <1>9, SoundKept
  <1>11. zc' = s \/ zc' = Drop(u, k)
    BY <1>3, <1>4
  <1> QED
    BY <1>10, <1>11, SoundDrop

\* Connection c matched with client k, which is expected as n
IsMatched(s, c, n, k, t) ==
    /\ t \in Memory /\ SameLists(s, t)
    /\ t.expectTimers = s.expectTimers /\ t.lingers = s.lingers /\ t.queries = s.queries
    /\ t.freedStubs = s.freedStubs \cup {c} /\ t.udp = s.udp /\ t.fault = s.fault
    /\ \A m \in Names : t.expected[m] = IF m = n THEN None ELSE s.expected[m]
    /\ \A d \in Conns :
         /\ t.handler[d].refs = s.handler[d].refs /\ t.handler[d].index = s.handler[d].index
         /\ t.handler[d].dead = s.handler[d].dead /\ t.handler[d].ignore = s.handler[d].ignore
         /\ t.handler[d].obj = IF d = c THEN k ELSE s.handler[d].obj
    /\ \A j \in Clients :
         /\ t.client[j].name = s.client[j].name /\ t.client[j].zone = s.client[j].zone
         /\ t.client[j].refs = s.client[j].refs /\ t.client[j].index = s.client[j].index
         /\ t.client[j].linkdead = s.client[j].linkdead
         /\ t.client[j].handler = IF j = k THEN c ELSE s.client[j].handler
         /\ t.client[j].loaded = IF j = k THEN s.client[j].loaded \cup {"connection"} ELSE s.client[j].loaded

ObjOf(h, x) == [h EXCEPT !.obj = x]

\* The object is one field of a handler.
LEMMA ObjWritten ==
  ASSUME NEW h \in HandlerRecord, NEW x \in Clients \cup {None}
  PROVE  /\ ObjOf(h, x) \in HandlerRecord /\ ObjOf(h, x).dead = h.dead /\ ObjOf(h, x).ignore = h.ignore
         /\ ObjOf(h, x).index = h.index /\ ObjOf(h, x).obj = x /\ ObjOf(h, x).refs = h.refs
  BY DEF HandlerRecord, ObjOf

MatchOf(r, c) == [r EXCEPT !.handler = c, !.loaded = @ \cup {"connection"}]

\* What a client is like once it is matched
LEMMA MatchWritten ==
  ASSUME NEW r \in ClientRecord, NEW c \in Conns
  PROVE  /\ MatchOf(r, c) \in ClientRecord
         /\ MatchOf(r, c).name = r.name /\ MatchOf(r, c).zone = r.zone /\ MatchOf(r, c).refs = r.refs
         /\ MatchOf(r, c).index = r.index /\ MatchOf(r, c).linkdead = r.linkdead
         /\ MatchOf(r, c).handler = c /\ MatchOf(r, c).loaded = r.loaded \cup {"connection"}
  <1> DEFINE a == [r EXCEPT !.handler = c]
             y == r.loaded \cup {"connection"}
             b == [a EXCEPT !.loaded = y]
  <1>1. y \in SUBSET AllLoaded
    BY DEF ClientRecord, AllLoaded
  <1>2. /\ a \in ClientRecord /\ a.loaded = r.loaded /\ a.handler = c
        /\ a.name = r.name /\ a.zone = r.zone /\ a.refs = r.refs
        /\ a.index = r.index /\ a.linkdead = r.linkdead
    BY DEF ClientRecord
  <1>3. MatchOf(r, c) = b
    BY <1>2 DEF MatchOf
  <1> HIDE DEF a, y
  <1>4. /\ b \in ClientRecord /\ b.loaded = y /\ b.handler = a.handler
        /\ b.name = a.name /\ b.zone = a.zone /\ b.refs = a.refs
        /\ b.index = a.index /\ b.linkdead = a.linkdead
    BY <1>1, <1>2 DEF ClientRecord
  <1> HIDE DEF b
  <1> QED
    BY <1>2, <1>3, <1>4 DEF y

\* What a match changes
LEMMA MatchedIs ==
  ASSUME NEW s \in Memory, NEW c \in Conns, NEW n \in Names, NEW k \in Clients,
         NEW a, a = [s EXCEPT !.freedStubs = @ \cup {c}],
         NEW t, t = [a EXCEPT !.expected[n] = None, !.handler[c].obj = k, !.client[k] = Matched(a, k, c)]
  PROVE  IsMatched(s, c, n, k, t)
  <1> DEFINE fs == s.freedStubs \cup {c}
             ex == [s.expected EXCEPT ![n] = None]
             h == [s.handler EXCEPT ![c] = ObjOf(s.handler[c], k)]
             f == [s.client EXCEPT ![k] = MatchOf(s.client[k], c)]
  <1>1. /\ s.client \in [Clients -> ClientRecord] /\ s.handler \in [Conns -> HandlerRecord]
        /\ s.expected \in [Names -> Clients \cup {None}] /\ s.freedStubs \in SUBSET Conns
    BY Fields
  <1>2. t = [[[[s EXCEPT !.freedStubs = fs] EXCEPT !.expected = ex] EXCEPT !.handler = h] EXCEPT !.client = f]
    <2>1. a = [s EXCEPT !.freedStubs = fs]
      OBVIOUS
    <2>2. a.expected = s.expected /\ a.handler = s.handler /\ a.client = s.client
      BY <2>1 DEF Memory
    <2> QED
      BY <2>1, <2>2 DEF Matched, MatchOf, ObjOf, Memory
  <1>3. fs \in SUBSET Conns
    BY <1>1
  <1>4. /\ ex \in [Names -> Clients \cup {None}]
        /\ \A m \in Names : ex[m] = IF m = n THEN None ELSE s.expected[m]
    BY <1>1
  <1>5. /\ h \in [Conns -> HandlerRecord] /\ h[c] = ObjOf(s.handler[c], k)
        /\ \A d \in Conns : d # c => h[d] = s.handler[d]
        /\ h[c].dead = s.handler[c].dead /\ h[c].ignore = s.handler[c].ignore
        /\ h[c].index = s.handler[c].index /\ h[c].obj = k /\ h[c].refs = s.handler[c].refs
    <2> DEFINE r == ObjOf(s.handler[c], k)
    <2>1. /\ r \in HandlerRecord /\ r.dead = s.handler[c].dead /\ r.ignore = s.handler[c].ignore
          /\ r.index = s.handler[c].index /\ r.obj = k /\ r.refs = s.handler[c].refs
      BY <1>1, ObjWritten
    <2> HIDE DEF r
    <2>2. h = [s.handler EXCEPT ![c] = r]
      BY DEF r
    <2> HIDE DEF h
    <2>3. h \in [Conns -> HandlerRecord] /\ h[c] = r /\ \A d \in Conns : d # c => h[d] = s.handler[d]
      BY <1>1, <2>1, <2>2, Updated
    <2> QED
      BY <2>1, <2>3 DEF r
  <1>6. /\ f \in [Clients -> ClientRecord]
        /\ \A j \in Clients : j # k => f[j] = s.client[j]
        /\ f[k].name = s.client[k].name /\ f[k].zone = s.client[k].zone
        /\ f[k].refs = s.client[k].refs /\ f[k].index = s.client[k].index
        /\ f[k].linkdead = s.client[k].linkdead /\ f[k].handler = c
        /\ f[k].loaded = s.client[k].loaded \cup {"connection"}
    <2> DEFINE r == MatchOf(s.client[k], c)
    <2>1. /\ r \in ClientRecord
          /\ r.name = s.client[k].name /\ r.zone = s.client[k].zone
          /\ r.refs = s.client[k].refs /\ r.index = s.client[k].index
          /\ r.linkdead = s.client[k].linkdead /\ r.handler = c
          /\ r.loaded = s.client[k].loaded \cup {"connection"}
      BY <1>1, MatchWritten
    <2> HIDE DEF r
    <2>2. f = [s.client EXCEPT ![k] = r]
      BY DEF r
    <2> HIDE DEF f
    <2>3. f \in [Clients -> ClientRecord] /\ f[k] = r /\ \A j \in Clients : j # k => f[j] = s.client[j]
      BY <1>1, <2>1, <2>2, Updated
    <2> QED
      BY <2>1, <2>3
  <1> HIDE DEF fs, ex, h, f
  <1>7. t \in Memory /\ t.freedStubs = fs /\ t.expected = ex /\ t.handler = h /\ t.client = f
    <2>1. h \in [Conns -> HandlerRecord] /\ f \in [Clients -> ClientRecord] /\ ex \in [Names -> Clients \cup {None}]
      BY <1>4, <1>5, <1>6
    <2> QED
      BY ZenonT(30), <1>2, <1>3, <2>1 DEF Memory
  <1>8. /\ SameLists(s, t) /\ t.expectTimers = s.expectTimers /\ t.lingers = s.lingers
        /\ t.queries = s.queries /\ t.udp = s.udp /\ t.fault = s.fault
    BY <1>2 DEF SameLists, Memory
  <1>9. \A d \in Conns :
         /\ t.handler[d].refs = s.handler[d].refs /\ t.handler[d].index = s.handler[d].index
         /\ t.handler[d].dead = s.handler[d].dead /\ t.handler[d].ignore = s.handler[d].ignore
         /\ t.handler[d].obj = IF d = c THEN k ELSE s.handler[d].obj
    <2> SUFFICES ASSUME NEW d \in Conns
                 PROVE  /\ h[d].refs = s.handler[d].refs /\ h[d].index = s.handler[d].index
                        /\ h[d].dead = s.handler[d].dead /\ h[d].ignore = s.handler[d].ignore
                        /\ h[d].obj = IF d = c THEN k ELSE s.handler[d].obj
      BY <1>7
    <2>1. CASE d = c
      BY <1>5, <2>1
    <2>2. CASE d # c
      <3>1. h[d] = s.handler[d]
        BY <1>5, <2>2
      <3> QED
        BY <2>2, <3>1
    <2> QED
      BY <2>1, <2>2
  <1>10. \A j \in Clients :
         /\ t.client[j].name = s.client[j].name /\ t.client[j].zone = s.client[j].zone
         /\ t.client[j].refs = s.client[j].refs /\ t.client[j].index = s.client[j].index
         /\ t.client[j].linkdead = s.client[j].linkdead
         /\ t.client[j].handler = IF j = k THEN c ELSE s.client[j].handler
         /\ t.client[j].loaded = IF j = k THEN s.client[j].loaded \cup {"connection"} ELSE s.client[j].loaded
    <2> SUFFICES ASSUME NEW j \in Clients
                 PROVE  /\ f[j].name = s.client[j].name /\ f[j].zone = s.client[j].zone
                        /\ f[j].refs = s.client[j].refs /\ f[j].index = s.client[j].index
                        /\ f[j].linkdead = s.client[j].linkdead
                        /\ f[j].handler = IF j = k THEN c ELSE s.client[j].handler
                        /\ f[j].loaded = IF j = k THEN s.client[j].loaded \cup {"connection"} ELSE s.client[j].loaded
      BY <1>7
    <2>1. CASE j = k
      BY <1>6, <2>1
    <2>2. CASE j # k
      <3>1. f[j] = s.client[j]
        BY <1>6, <2>2
      <3> QED
        BY <2>2, <3>1
    <2> QED
      BY <2>1, <2>2
  <1> QED
    BY <1>4, <1>7, <1>8, <1>9, <1>10 DEF IsMatched, fs

\* Freeing the stub changes nothing else.
LEMMA StubFreed ==
  ASSUME NEW s \in Memory, NEW c \in Conns, NEW t, t = [s EXCEPT !.freedStubs = @ \cup {c}]
  PROVE  /\ t \in Memory /\ SameLists(s, t) /\ t.freedStubs = s.freedStubs \cup {c}
         /\ t.expected = s.expected /\ t.expectTimers = s.expectTimers /\ t.lingers = s.lingers
         /\ t.queries = s.queries /\ t.udp = s.udp /\ t.client = s.client
         /\ t.handler = s.handler /\ t.fault = s.fault
  <1> DEFINE fs == s.freedStubs \cup {c}
  <1>1. fs \in SUBSET Conns
    BY Fields
  <1>2. t = [s EXCEPT !.freedStubs = fs]
    OBVIOUS
  <1> HIDE DEF fs
  <1>3. t \in Memory /\ t.freedStubs = fs
    BY <1>1, <1>2 DEF Memory
  <1>4. SameLists(s, t)
        /\ t.expected = s.expected /\ t.expectTimers = s.expectTimers /\ t.lingers = s.lingers
        /\ t.queries = s.queries /\ t.udp = s.udp /\ t.client = s.client
        /\ t.handler = s.handler /\ t.fault = s.fault
    BY <1>2 DEF SameLists, Memory
  <1> QED
    BY <1>3, <1>4 DEF fs

\* What zc_client_match_with_expected comes to, when nothing fails
LEMMA ZoneEntryIs ==
  ASSUME zc \in Memory, NEW c \in Conns, NEW n \in Names, ZoneEntry(c, n), zc'.fault = "none"
  PROVE  \/ /\ zc.expected[n] = None
            /\ zc' = HandlerDrop([zc EXCEPT !.freedStubs = @ \cup {c}], c)
         \/ /\ zc.expected[n] \in Clients
            /\ IsMatched(zc, c, n, zc.expected[n], zc')
  <1> DEFINE k == zc.expected[n]
             s == [zc EXCEPT !.freedStubs = @ \cup {c}]
             t == [s EXCEPT !.expected[n] = None, !.handler[c].obj = k, !.client[k] = Matched(s, k, c)]
  <1>1. CASE k = None
    BY <1>1 DEF ZoneEntry
  <1>2. CASE k # None
    <2>1. zc' = CheckLoadingFinished(t, k)
      BY <1>2 DEF ZoneEntry
    <2>2. k \in Clients
      BY <1>2, Fields
    <2> HIDE DEF k
    <2>3. IsMatched(zc, c, n, k, t)
      <3>1. s = [zc EXCEPT !.freedStubs = @ \cup {c}]
        OBVIOUS
      <3> HIDE DEF s
      <3> QED
        BY Zenon, <2>2, <3>1, MatchedIs
    <2> HIDE DEF t
    <2>4. t \in Memory
      BY <2>3 DEF IsMatched
    <2>5. zc' = t
      BY <2>1, <2>4, SentOrFault
    <2> QED
      BY <2>2, <2>3, <2>5 DEF k
  <1> QED
    BY <1>1, <1>2

\* zc_client_match_with_expected keeps the lists in order, with a match and without.
LEMMA ZoneEntrySound ==
  ASSUME Sound(zc, player), NEW c \in Conns, NEW n \in Names, ZoneEntry(c, n), zc'.fault = "none"
  PROVE  Sound(zc', player)
  <1>1. zc \in Memory /\ Known(zc)
    BY DEF Sound
  <1> DEFINE s == [zc EXCEPT !.freedStubs = @ \cup {c}]
             k == zc.expected[n]
  <1>2. CASE zc' = HandlerDrop(s, c)
    <2>1. /\ s \in Memory /\ SameLists(zc, s) /\ s.expected = zc.expected
          /\ s.udp = zc.udp /\ s.client = zc.client /\ s.handler = zc.handler
      BY <1>1, StubFreed
    <2> HIDE DEF s
    <2>2. Kept(zc, s)
      BY <2>1 DEF Kept
    <2>3. Sound(s, player)
      BY <2>1, <2>2, SoundKept
    <2> QED
      BY <1>2, <2>3, SoundHandlerDrop
  <1>3. CASE k \in Clients /\ IsMatched(zc, c, n, k, zc')
    <2>1. k # None /\ Born(zc, k)
      <3>1. k # None
        BY <1>3, ClientIsMob
      <3>2. zc.client[k].name = n
        BY <1>1, <3>1 DEF Known
      <3> QED
        BY <3>1, <3>2, ZoneAssumption DEF Born
    <2> HIDE DEF k
    <2>2. zc' \in Memory
      BY <1>3 DEF IsMatched
    <2>3. Kept(zc, zc')
      BY <1>3, <2>1 DEF IsMatched, Kept
    <2> QED
      BY <2>2, <2>3, SoundKept
  <1> QED
    BY <1>1, <1>2, <1>3, ZoneEntryIs

\* The connection c is new.
IsConnected(s, c, t) ==
    /\ t \in Memory /\ SameLists(s, t) /\ SameWaits(s, t) /\ t.client = s.client
    /\ \A d \in Conns : d # c => t.handler[d] = s.handler[d] /\ (Open(t, d) <=> Open(s, d))
    /\ t.handler[c].refs = 2 /\ t.handler[c].obj = None

\* A new connection is the last of the socket and has its index.
LEMMA ConnectSound ==
  ASSUME Sound(zc, player), player \in [Conns -> {"away", "here", "gone"}],
         NEW c \in Conns, Connect(c)
  PROVE  Sound(zc', player') /\ IsConnected(zc, c, zc')
  <1> DEFINE s == zc
             n == Len(s.udp) + 1
             q == Append(s.udp, c)
             r == FirstPacket(n)
             h == [s.handler EXCEPT ![c] = r]
             t == [[s EXCEPT !.udp = q] EXCEPT !.handler = h]
  <1>1. s \in Memory /\ Sockets(s, player) /\ Known(s) /\ MobLists(s) /\ ClientLists(s)
    BY DEF Sound
  <1>2. zc' = t /\ player[c] = "away" /\ player' = [player EXCEPT ![c] = "here"]
    BY <1>1 DEF Connect, Memory
  <1> HIDE DEF s
  <1>3. /\ s.udp \in Seq(Conns) /\ Len(s.udp) \in Nat /\ DOMAIN s.udp = 1 .. Len(s.udp)
        /\ \A i \in DOMAIN s.udp : s.udp[i] \in Conns
    BY <1>1, Fields, ConnectedFacts
  <1>4. /\ q \in Seq(Conns) /\ DOMAIN q = 1 .. n /\ q[n] = c /\ n \in Nat
        /\ \A i \in DOMAIN s.udp : i \in DOMAIN q /\ i # n /\ q[i] = s.udp[i]
        /\ \A i \in DOMAIN q : i = n \/ i \in DOMAIN s.udp
        /\ n \in DOMAIN q
    <2>1. /\ q \in Seq(Conns) /\ Len(q) = n /\ q[n] = c
          /\ \A i \in 1 .. Len(s.udp) : q[i] = s.udp[i]
      BY <1>3, AppendProperties
    <2>2. DOMAIN q = 1 .. n
      BY <2>1, LenProperties
    <2> HIDE DEF q
    <2> QED
      BY <1>3, <2>1, <2>2
  <1> HIDE DEF n, q
  <1>5. /\ r \in HandlerRecord /\ r.index = n /\ r.obj = None /\ r.dead = FALSE
        /\ r.ignore = FALSE /\ r.refs = 2
    BY <1>4 DEF FirstPacket, HandlerRecord
  <1> HIDE DEF r
  <1>6. h \in [Conns -> HandlerRecord] /\ h[c] = r /\ \A d \in Conns : d # c => h[d] = s.handler[d]
    BY <1>1, <1>5, Fields, Updated
  <1> HIDE DEF h
  <1>7. t \in Memory /\ t.udp = q /\ t.handler = h
    BY <1>1, <1>4, <1>6 DEF Memory
  <1>8. SameLists(s, t) /\ SameWaits(s, t) /\ t.client = s.client /\ t.expected = s.expected
    BY <1>1 DEF Memory, SameLists, SameWaits
  <1> HIDE DEF t
  <1>9. MobLists(t) /\ ClientLists(t)
    BY <1>1, <1>8, ListsKept
  <1>10. Known(t)
    <2>1. \A d \in Conns : t.handler[d].obj # None => Born(s, t.handler[d].obj)
      BY <1>1, <1>5, <1>6, <1>7 DEF Known
    <2> QED
      BY <1>1, <1>8, <2>1 DEF Known, Born, SameLists
  <1>11. ~Open(s, c)
    BY <1>1, <1>2 DEF Sockets
  <1>12. \A d \in Conns : Open(t, d) <=> Open(s, d) \/ d = c
    <2>1. ASSUME NEW d \in Conns, Open(t, d)
          PROVE  Open(s, d) \/ d = c
      BY <1>4, <1>7, <2>1 DEF Open
    <2>2. ASSUME NEW d \in Conns, Open(s, d)
          PROVE  Open(t, d)
      BY <1>4, <1>7, <2>2 DEF Open
    <2>3. Open(t, c)
      BY <1>4, <1>7 DEF Open
    <2> QED
      BY <2>1, <2>2, <2>3
  <1>13. Sockets(t, player')
    <2>1. ASSUME NEW i \in DOMAIN t.udp
          PROVE  t.handler[t.udp[i]].index = i
      <3>1. CASE i = n
        BY <1>4, <1>5, <1>6, <1>7, <3>1
      <3>2. CASE i # n
        <4>1. i \in DOMAIN s.udp /\ t.udp[i] = s.udp[i] /\ s.udp[i] \in Conns
          BY <1>3, <1>4, <1>7, <3>2
        <4>2. s.udp[i] # c
          BY <1>11, <4>1 DEF Open
        <4> QED
          BY <1>1, <1>6, <1>7, <4>1, <4>2 DEF Sockets
      <3> QED
        BY <3>1, <3>2
    <2>2. ASSUME NEW d \in Conns
          PROVE  /\ player'[d] = "here" => Open(t, d)
                 /\ player'[d] = "away" => ~Open(t, d)
                 /\ t.handler[d].dead => player'[d] = "gone"
      <3>1. CASE d = c
        BY <1>2, <1>5, <1>6, <1>7, <1>12, <3>1
      <3>2. CASE d # c
        <4>1. player'[d] = player[d] /\ t.handler[d] = s.handler[d]
          BY <1>2, <1>6, <1>7, <3>2
        <4> QED
          BY <1>1, <1>12, <3>2, <4>1 DEF Sockets
      <3> QED
        BY <3>1, <3>2
    <2> QED
      BY <2>1, <2>2 DEF Sockets
  <1>14. IsConnected(s, c, t)
    BY <1>5, <1>6, <1>7, <1>8, <1>12 DEF IsConnected
  <1>15. Sound(t, player')
    BY <1>7, <1>9, <1>10, <1>13 DEF Sound
  <1> QED
    BY <1>2, <1>14, <1>15 DEF s

\* The player of a connection is gone.
LEMMA SoundGone ==
  ASSUME NEW s, NEW pl \in [Conns -> {"away", "here", "gone"}], Sound(s, pl),
         NEW c \in Conns, pl[c] = "here", NEW p, p = [pl EXCEPT ![c] = "gone"]
  PROVE  Sound(s, p)
  <1>1. p[c] = "gone" /\ \A d \in Conns : d # c => p[d] = pl[d]
    OBVIOUS
  <1>2. Sockets(s, pl)
    BY DEF Sound
  <1>3. Sockets(s, p)
    BY <1>1, <1>2 DEF Sockets
  <1> QED
    BY <1>3 DEF Sound

\* A closing packet marks the connection dead.
LEMMA SoundClosed ==
  ASSUME NEW s, NEW pl, Sound(s, pl), NEW c \in Conns, pl[c] = "gone", NEW t, DeadAt(s, c, t)
  PROVE  Sound(t, pl)
  <1>1. s \in Memory /\ Sockets(s, pl) /\ Known(s) /\ MobLists(s) /\ ClientLists(s)
    BY DEF Sound
  <1>2. /\ t \in Memory /\ SameLists(s, t) /\ SameWaits(s, t)
        /\ t.udp = s.udp /\ t.client = s.client
        /\ \A d \in Conns : /\ t.handler[d].index = s.handler[d].index
                            /\ t.handler[d].obj = s.handler[d].obj
                            /\ t.handler[d].dead = IF d = c THEN TRUE ELSE s.handler[d].dead
    BY DEF DeadAt
  <1>3. MobLists(t) /\ ClientLists(t)
    BY <1>1, <1>2, ListsKept
  <1>4. Sockets(t, pl)
    <2>1. \A i \in DOMAIN s.udp : s.udp[i] \in Conns
      BY <1>1, ConnectedFacts
    <2>2. \A d \in Conns : Open(t, d) <=> Open(s, d)
      BY <1>2 DEF Open
    <2>3. \A i \in DOMAIN t.udp : t.handler[t.udp[i]].index = i
      <3>1. t.udp = s.udp /\ \A d \in Conns : t.handler[d].index = s.handler[d].index
        BY <1>2
      <3>2. \A i \in DOMAIN s.udp : s.handler[s.udp[i]].index = i
        BY <1>1 DEF Sockets
      <3> QED
        BY <2>1, <3>1, <3>2
    <2>4. ASSUME NEW d \in Conns, t.handler[d].dead
          PROVE  pl[d] = "gone"
      <3>1. CASE d = c
        BY <3>1
      <3>2. CASE d # c
        BY <1>1, <1>2, <2>4, <3>2 DEF Sockets
      <3> QED
        BY <3>1, <3>2
    <2>5. \A d \in Conns : (pl[d] = "here" => Open(t, d)) /\ (pl[d] = "away" => ~Open(t, d))
      BY <1>1, <2>2 DEF Sockets
    <2> QED
      BY <2>3, <2>4, <2>5 DEF Sockets
  <1>5. Known(t)
    <2>1. t.expected = s.expected /\ t.zoneList = s.zoneList /\ t.npcs = s.npcs /\ t.client = s.client
      BY <1>2 DEF SameLists, SameWaits
    <2>2. \A d \in Conns : t.handler[d].obj = s.handler[d].obj
      BY <1>2
    <2> QED
      BY <1>1, <2>1, <2>2 DEF Known, Born
  <1> QED
    BY <1>2, <1>3, <1>4, <1>5 DEF Sound

\* client_on_disconnect
LEMMA OnDisconnectSound ==
  ASSUME NEW s, NEW pl, Sound(s, pl), NEW c \in Conns, NEW ld \in BOOLEAN, NEW t, t = OnDisconnect(s, c, ld)
  PROVE  /\ t \in Memory /\ t.udp = s.udp
         /\ \A d \in Conns : t.handler[d].index = s.handler[d].index
         /\ t.fault = "none" => Sound(t, pl)
  <1> DEFINE k == s.handler[c].obj
             u == IF ld THEN GoLinkdead(s, k) ELSE RemoveConnected(s, k)
  <1>1. s \in Memory /\ Known(s)
    BY DEF Sound
  <1>2. CASE k = None \/ Freed(s, k)
    <2>1. "stub" \in Faults /\ "freed client" \in Faults /\ "stub" # "none" /\ "freed client" # "none"
      BY DEF Faults
    <2>2. t = Fault(s, "stub") \/ t = Fault(s, "freed client")
      BY Zenon, <1>2 DEF OnDisconnect
    <2>3. PICK why \in Faults : why # "none" /\ t = Fault(s, why)
      BY Zenon, <2>1, <2>2
    <2>4. t \in Memory /\ t.fault = why /\ t.udp = s.udp /\ t.handler = s.handler
      BY <1>1, <2>3, FaultIs
    <2> QED
      BY <2>3, <2>4
  <1>3. CASE k # None /\ ~Freed(s, k)
    <2>1. t = Drop(u, k)
      BY <1>3 DEF OnDisconnect
    <2>2. k \in Clients /\ Born(s, k)
      <3>1. s.handler[c] \in HandlerRecord
        BY <1>1, Fields
      <3> QED
        BY <1>1, <1>3, <3>1 DEF HandlerRecord, Known
    <2> HIDE DEF k
    <2>3. /\ Sound(u, pl) /\ u.udp = s.udp
          /\ \A d \in Conns : u.handler[d].index = s.handler[d].index
      <3>1. CASE ld
        <4>1. u = GoLinkdead(s, k)
          BY <3>1
        <4>2. Sound(u, pl) /\ WentLinkdead(s, k, u)
          BY <2>2, <4>1, SoundLinkdead
        <4> HIDE DEF u
        <4> QED
          BY <4>2 DEF WentLinkdead, SameHandlers
      <3>2. CASE ~ld
        <4>1. u = RemoveConnected(s, k)
          BY <3>2
        <4>2. Sound(u, pl) /\ ConnectedRemoved(s, k, u)
          BY <2>2, <4>1, SoundRemoved
        <4> HIDE DEF u
        <4> QED
          BY <4>2 DEF ConnectedRemoved
      <3> QED
        BY <3>1, <3>2
    <2> HIDE DEF u
    <2>4. Sound(t, pl)
      BY <2>1, <2>2, <2>3, SoundDrop
    <2>5. t.udp = u.udp /\ SameHandlers(u, t)
      BY <2>1, <2>2, <2>3, DropIs DEF Sound
    <2> QED
      BY <2>3, <2>4, <2>5 DEF Sound, SameHandlers
  <1> QED
    BY <1>2, <1>3

\* A closing packet takes the client out of every list and keeps them in order.
LEMMA ClosingSound ==
  ASSUME Sound(zc, player), player \in [Conns -> {"away", "here", "gone"}],
         NEW c \in Conns, Closing(c), zc'.fault = "none"
  PROVE  Sound(zc', player')
  <1> DEFINE s == [zc EXCEPT !.handler[c].dead = TRUE]
  <1>1. player[c] = "here" /\ player' = [player EXCEPT ![c] = "gone"]
    BY Zenon DEF Closing, Up
  <1>2. zc.udp[zc.handler[c].index] = c
    BY <1>1, FindsItself
  <1>3. zc' = OnDisconnect(s, c, FALSE)
    BY <1>2 DEF Closing
  <1>4. Sound(zc, player') /\ player'[c] = "gone"
    BY <1>1, SoundGone
  <1>5. DeadAt(zc, c, s)
    BY DeadIs DEF Sound
  <1> HIDE DEF s
  <1>6. Sound(s, player')
    BY <1>4, <1>5, SoundClosed
  <1>7. FALSE \in BOOLEAN
    OBVIOUS
  <1> QED
    BY <1>3, <1>6, <1>7, OnDisconnectSound

\* A step of the sweep keeps the lists in order and the indices of the socket.
LEMMA CheckTimeoutsSound ==
  ASSUME Sound(zc, player), player \in [Conns -> {"away", "here", "gone"}], CheckTimeouts, zc'.fault = "none"
  PROVE  Sound(zc', player)
  <1> DEFINE c == zc.udp[sweep]
  <1>1. sweep \in DOMAIN zc.udp
    BY DEF CheckTimeouts
  <1>2. zc \in Memory /\ Sockets(zc, player) /\ c \in Conns
    BY <1>1, ConnectedFacts DEF Sound
  <1>3. CASE zc.handler[c].dead /\ zc' = HandleDeadClient(zc, sweep)
    <2>1. player[c] = "gone"
      BY <1>2, <1>3 DEF Sockets
    <2> QED
      BY <1>1, <1>3, <2>1, SoundDead
  <1>4. CASE player[c] = "gone" /\ zc' = HandleDeadClient(OnDisconnect(zc, c, TRUE), sweep)
    <2> DEFINE s == OnDisconnect(zc, c, TRUE)
    <2>1. /\ s \in Memory /\ s.udp = zc.udp
          /\ \A d \in Conns : s.handler[d].index = zc.handler[d].index
          /\ s.fault = "none" => Sound(s, player)
      <3>1. TRUE \in BOOLEAN
        OBVIOUS
      <3> HIDE DEF c
      <3> QED
        BY <1>2, <3>1, OnDisconnectSound
    <2> HIDE DEF s
    <2>z. zc' = HandleDeadClient(s, sweep)
      BY <1>4 DEF s
    <2>2. zc'.fault = s.fault
      <3>1. \A j \in DOMAIN s.udp : s.handler[s.udp[j]].index = j
        <4>1. \A j \in DOMAIN zc.udp : zc.udp[j] \in Conns
          BY <1>2, ConnectedFacts
        <4> QED
          BY <1>2, <2>1, <4>1 DEF Sockets
      <3>2. DeadRemoved(s, sweep, zc')
        BY <1>1, <2>1, <2>z, <3>1, HandleDeadClientIs
      <3> QED
        BY <3>2 DEF DeadRemoved
    <2>3. Sound(s, player) /\ sweep \in DOMAIN s.udp /\ player[s.udp[sweep]] = "gone"
      BY <1>1, <1>4, <2>1, <2>2
    <2> QED
      BY <2>3, <2>z, SoundDead
  <1> QED
    BY <1>3, <1>4 DEF CheckTimeouts

\* The end of linkdeath keeps the lists in order.
LEMMA LingerTimeoutSound ==
  ASSUME Sound(zc, player), NEW k \in Clients, LingerTimeout(k)
  PROVE  Sound(zc', player)
  <1> DEFINE lg == zc.lingers \ {k}
             s == [zc EXCEPT !.lingers = lg]
             u == RemoveConnected(s, k)
  <1>1. zc \in Memory
    BY DEF Sound
  <1>2. zc' = Drop(u, k)
    BY DEF LingerTimeout, Lingered
  <1>3. lg \in SUBSET Clients
    BY <1>1, Fields
  <1> HIDE DEF lg
  <1>4. s \in Memory
    BY <1>1, <1>3 DEF Memory
  <1>5. SameLists(zc, s) /\ s.udp = zc.udp /\ s.client = zc.client /\ s.handler = zc.handler /\ s.expected = zc.expected
    BY <1>1 DEF SameLists, Memory
  <1> HIDE DEF s
  <1>6. Kept(zc, s)
    BY <1>5 DEF Kept
  <1>7. Sound(s, player)
    BY <1>4, <1>6, SoundKept
  <1>8. Sound(u, player)
    BY <1>7, SoundRemoved
  <1> HIDE DEF u
  <1> QED
    BY <1>2, <1>8, SoundDrop

\* An NPC that is spawned was in no zone, and keeps the lists in order.
LEMMA SpawnNpcSound ==
  ASSUME Sound(zc, player), NEW z \in Zones, SpawnNpc(z), zc'.fault = "none"
  PROVE  Sound(zc', player) /\ Quiet(zc, zc')
  <1> DEFINE x == zc.npcs + 1
             s == [zc EXCEPT !.npcs = x]
             m == MaxClients + zc.npcs + 1
             t == SpawnMob(s, z, m)
  <1>1. zc \in Memory /\ Sockets(zc, player) /\ Known(zc) /\ MobLists(zc) /\ ClientLists(zc)
    BY DEF Sound
  <1>2. zc' = Broadcast(t, z) /\ zc.npcs < MaxNpcs
    BY DEF SpawnNpc
  <1>3. PICK k \in Clients : zc.client[k].zone = z /\ zc.mob[k].entity # 0
    BY DEF SpawnNpc
  <1>4. zc.npcs \in Nat /\ x \in Nat /\ x <= MaxNpcs /\ m \in Mobs /\ m > MaxClients + zc.npcs
        /\ m <= MaxClients + x /\ MaxClients \in Nat
    BY <1>1, <1>2, Fields, ZoneAssumption DEF Mobs
  <1>5. zc.mob[m].entity = 0
    BY Zenon, <1>1, <1>4 DEF MobLists
  <1>z. z \in zc.zoneList
    <2>1. zc.client[k].zone # None
      BY <1>3, ZoneAssumption
    <2> QED
      BY <1>1, <1>3, <2>1 DEF Known
  <1> HIDE DEF x, m
  <1>6. s \in Memory /\ s.npcs = x
    BY <1>1, <1>4 DEF Memory
  <1>7. /\ s.mob = zc.mob /\ s.zone = zc.zone /\ s.zoneList = zc.zoneList /\ s.byName = zc.byName
        /\ s.connected = zc.connected /\ s.client = zc.client /\ s.udp = zc.udp
        /\ s.handler = zc.handler /\ SameWaits(zc, s)
    BY <1>1 DEF Memory, SameWaits
  <1> HIDE DEF s
  <1>8. MobLists(s)
    <2>1. \A y \in Mobs : y > MaxClients + s.npcs => s.mob[y].entity = 0
      <3>1. \A y \in Mobs : y > MaxClients + x => y > MaxClients + zc.npcs
        BY <1>4 DEF Mobs, x
      <3> QED
        BY Zenon, <1>1, <1>6, <1>7, <3>1 DEF MobLists
    <2>2. ASSUME NEW y \in s.zoneList
          PROVE  /\ s.zone[y] \in ZoneRecord
                 /\ \A i \in DOMAIN s.zone[y].mobs :
                      LET w == s.zone[y].mobs[i] IN
                      /\ s.mob[w].index = i
                      /\ s.mob[w].entity \in DOMAIN s.zone[y].ents /\ s.zone[y].ents[s.mob[w].entity] = w
                 /\ Cardinality(Entities(s, y)) = Len(s.zone[y].mobs)
      <3>1. Entities(s, y) = Entities(zc, y) /\ y \in zc.zoneList
        BY <1>7 DEF Entities
      <3>2. /\ zc.zone[y] \in ZoneRecord
            /\ \A i \in DOMAIN zc.zone[y].mobs :
                 LET w == zc.zone[y].mobs[i] IN
                 /\ zc.mob[w].index = i
                 /\ zc.mob[w].entity \in DOMAIN zc.zone[y].ents /\ zc.zone[y].ents[zc.mob[w].entity] = w
            /\ Cardinality(Entities(zc, y)) = Len(zc.zone[y].mobs)
        BY Zenon, <1>1, <3>1 DEF MobLists
      <3> QED
        BY Zenon, <1>7, <3>1, <3>2
    <2>3. \A a, b \in s.zoneList : \A i \in DOMAIN s.zone[a].mobs, j \in DOMAIN s.zone[b].mobs :
            s.zone[a].mobs[i] = s.zone[b].mobs[j] => a = b
      <3> SUFFICES ASSUME NEW a \in s.zoneList, NEW b \in s.zoneList,
                          NEW i \in DOMAIN s.zone[a].mobs, NEW j \in DOMAIN s.zone[b].mobs,
                          s.zone[a].mobs[i] = s.zone[b].mobs[j]
                   PROVE  a = b
        BY Zenon
      <3>1. /\ a \in zc.zoneList /\ b \in zc.zoneList /\ i \in DOMAIN zc.zone[a].mobs /\ j \in DOMAIN zc.zone[b].mobs
            /\ zc.zone[a].mobs[i] = zc.zone[b].mobs[j]
        BY Zenon, <1>7
      <3> QED
        BY Zenon, <1>1, <3>1 DEF MobLists
    <2> QED
      BY Zenon, <2>1, <2>2, <2>3 DEF MobLists
  <1>9. /\ MobSpawned(s, z, m, t) /\ MobLists(t)
        /\ \A y \in s.zoneList : \A i \in DOMAIN s.zone[y].mobs :
              /\ s.zone[y].mobs[i] # m
              /\ i \in DOMAIN t.zone[y].mobs /\ t.zone[y].mobs[i] = s.zone[y].mobs[i]
    <2>1. z \in s.zoneList /\ m \in Mobs /\ s.mob[m].entity = 0 /\ m <= MaxClients + s.npcs
      BY <1>4, <1>5, <1>6, <1>7, <1>z
    <2> QED
      BY <1>6, <1>8, <2>1, MobsSpawned
  <1> HIDE DEF t
  <1>10. /\ t \in Memory /\ t.npcs = x /\ t.zoneList = zc.zoneList /\ t.byName = zc.byName
         /\ t.connected = zc.connected /\ t.client = zc.client /\ t.udp = zc.udp
         /\ t.handler = zc.handler /\ t.expected = zc.expected /\ SameWaits(zc, t)
         /\ \A y \in Zones : y # z => t.zone[y] = zc.zone[y]
         /\ t.zone[z].list = zc.zone[z].list
         /\ \A y \in Mobs : y # m => t.mob[y] = zc.mob[y]
    BY <1>6, <1>7, <1>9 DEF MobSpawned, SameWaits
  <1>11. ClientLists(t)
    <2>1. \A j : IsListed(t, j) <=> IsListed(zc, j)
      BY <1>10 DEF IsListed
    <2>2. \A y \in zc.zoneList : y \in Zones /\ t.zone[y].list = zc.zone[y].list
      BY <1>1, <1>10, Fields
    <2>3. ASSUME NEW j \in Clients, ClientIn(zc, j)
          PROVE  ClientIn(t, j)
      <3> DEFINE y == zc.client[j].zone
                 i == zc.mob[j].index
      <3>1. y \in zc.zoneList /\ i \in DOMAIN zc.zone[y].mobs /\ zc.zone[y].mobs[i] = j
            /\ zc.client[j].index \in DOMAIN zc.zone[y].list /\ zc.zone[y].list[zc.client[j].index].client = j
        BY Zenon, <2>3 DEF ClientIn
      <3>2. t.client = zc.client /\ t.zone[y].list = zc.zone[y].list /\ y \in t.zoneList
        BY Zenon, <1>10, <2>2, <3>1
      <3> HIDE DEF y, i
      <3>3. j # m /\ i \in DOMAIN t.zone[y].mobs /\ t.zone[y].mobs[i] = j
        BY <1>7, <1>9, <3>1
      <3>4. t.mob[j] = zc.mob[j]
        BY <1>10, <3>3, ClientIsMob
      <3> QED
        BY Zenon, <3>1, <3>2, <3>3, <3>4 DEF ClientIn, y, i
    <2>4. ASSUME NEW y \in t.zoneList, NEW i \in DOMAIN t.zone[y].list
          PROVE  LET j == t.zone[y].list[i].client IN
                 t.client[j].index = i /\ t.client[j].zone = y /\ IsListed(t, j)
      <3>1. y \in zc.zoneList /\ t.zone[y].list = zc.zone[y].list
        BY Zenon, <1>10, <2>2
      <3>2. ASSUME NEW j, j = t.zone[y].list[i].client
            PROVE  t.client[j].index = i /\ t.client[j].zone = y /\ IsListed(t, j)
        <4>1. i \in DOMAIN zc.zone[y].list /\ j = zc.zone[y].list[i].client
          BY Zenon, <3>1, <3>2
        <4>2. zc.client[j].index = i /\ zc.client[j].zone = y /\ IsListed(zc, j)
          BY <1>1, <3>1, <4>1, ListPlaces
        <4> QED
          BY Zenon, <1>10, <2>1, <4>2
      <3> QED
        BY Zenon, <3>2
    <2>5. ASSUME NEW i \in DOMAIN t.connected
          PROVE  LET j == t.connected[i].client IN
                 /\ ClientIn(t, j) /\ t.client[j].name # None /\ t.byName[t.client[j].name] = j
                 /\ \A h \in DOMAIN t.connected : t.connected[h].client = j => h = i
      <3>1. t.connected[i].client \in Clients
        BY <1>10, ConnectedFacts
      <3>2. ASSUME NEW j, j = t.connected[i].client
            PROVE  /\ ClientIn(t, j) /\ t.client[j].name # None /\ t.byName[t.client[j].name] = j
                   /\ \A h \in DOMAIN t.connected : t.connected[h].client = j => h = i
        <4>1. i \in DOMAIN zc.connected /\ j = zc.connected[i].client
          BY Zenon, <1>10, <3>2
        <4>2. /\ ClientIn(zc, j) /\ zc.client[j].name # None /\ zc.byName[zc.client[j].name] = j
              /\ \A h \in DOMAIN zc.connected : zc.connected[h].client = j => h = i
          BY <1>1, <4>1, ConnectedPlaces
        <4>3. ClientIn(t, j)
          BY Zenon, <2>3, <3>1, <3>2, <4>2
        <4> QED
          BY Zenon, <1>10, <4>2, <4>3
      <3> QED
        BY Zenon, <3>2
    <2>6. \A n \in Names : t.byName[n] # None => IsListed(t, t.byName[n]) /\ t.client[t.byName[n]].name = n
      <3> SUFFICES ASSUME NEW n \in Names, t.byName[n] # None
                   PROVE  IsListed(t, t.byName[n]) /\ t.client[t.byName[n]].name = n
        BY Zenon
      <3> DEFINE j == zc.byName[n]
      <3>1. t.byName[n] = j /\ j # None
        BY Zenon, <1>10
      <3>2. IsListed(zc, j) /\ zc.client[j].name = n
        BY Zenon, <1>1, <3>1 DEF ClientLists
      <3> HIDE DEF j
      <3> QED
        BY Zenon, <1>10, <2>1, <3>1, <3>2
    <2> QED
      BY Zenon, <2>4, <2>5, <2>6 DEF ClientLists
  <1>12. Sockets(t, player)
    BY <1>1, <1>10 DEF Sockets, Open
  <1>13. Known(t)
    BY <1>1, <1>4, <1>10 DEF Known, Born
  <1>14. zc' = t
    BY <1>2, <1>10, SentOrFault
  <1>15. Quiet(zc, t)
    <2>1. \A y \in zc.zoneList : t.zone[y].list = zc.zone[y].list
      BY <1>1, <1>10, Fields
    <2> QED
      BY <1>10, <2>1 DEF Quiet
  <1> QED
    BY <1>9, <1>10, <1>11, <1>12, <1>13, <1>14, <1>15 DEF Sound

\* What becomes of a client of the same name
WasReplaced(s, n, t) ==
    /\ t.byName[n] = None /\ t.fault = s.fault
    /\ t.zoneList = s.zoneList
    /\ \A j \in Clients : /\ t.client[j].name = s.client[j].name
                          /\ t.client[j].zone = s.client[j].zone
                          /\ t.client[j].handler = s.client[j].handler
    /\ \A m \in Mobs : t.mob[m].entity = s.mob[m].entity

\* A client whose character enters again is taken out of the lists.
LEMMA ReplacedSound ==
  ASSUME NEW s, NEW pl, Sound(s, pl), NEW n \in Names, NEW t, t = Replaced(s, s.byName[n])
  PROVE  Sound(t, pl) /\ WasReplaced(s, n, t)
  <1> DEFINE p == s.byName[n]
             u == RemoveConnected(s, p)
             v == Ignored(u, s.client[p].handler)
  <1>1. s \in Memory /\ ClientLists(s)
    BY DEF Sound
  <1>2. CASE p = None
    <2>1. t = s
      BY <1>2 DEF Replaced
    <2> QED
      BY <1>2, <2>1 DEF WasReplaced
  <1>3. CASE p # None
    <2>1. p \in Clients /\ IsListed(s, p) /\ s.client[p].name = n
      <3>1. p \in Clients
        BY <1>1, <1>3, Fields
      <3> QED
        BY Zenon, <1>1, <1>3, <3>1 DEF ClientLists
    <2>2. t = u \/ t = Drop(v, p)
      BY <1>3 DEF Replaced
    <2> HIDE DEF p
    <2>3. Sound(u, pl) /\ ConnectedRemoved(s, p, u)
      BY <2>1, SoundRemoved
    <2> HIDE DEF u
    <2>4. WasReplaced(s, n, u)
      BY <2>1, <2>3 DEF ConnectedRemoved, WasReplaced
    <2>5. Sound(v, pl) /\ v.fault = u.fault
      BY <2>3, SoundIgnored
    <2>6. SameLists(u, v) /\ v.client = u.client
      <3> DEFINE x == u.udp[u.handler[s.client[p].handler].index]
                 c == s.client[p].handler
      <3>1. x = u.udp[u.handler[c].index] /\ v = Ignored(u, c) /\ u \in Memory
        BY <2>3 DEF Sound
      <3> HIDE DEF x, c, v
      <3>2. IgnoredAt(u, x, v)
        BY <3>1, IgnoredIs
      <3> QED
        BY <3>2 DEF IgnoredAt
    <2> HIDE DEF v
    <2> DEFINE w == Drop(v, p)
    <2>7. Sound(w, pl) /\ w.fault = v.fault /\ SameLists(v, w) /\ SameClients(v, w)
      <3>1. v \in Memory
        BY <2>5 DEF Sound
      <3> QED
        BY <2>1, <2>5, <3>1, SoundDrop, DropIs
    <2> HIDE DEF w
    <2>8. WasReplaced(s, n, w)
      <3>1. w.byName = u.byName /\ w.mob = u.mob /\ w.zoneList = u.zoneList /\ w.fault = u.fault
        BY <2>5, <2>6, <2>7 DEF SameLists
      <3>2. \A j \in Clients : /\ w.client[j].name = u.client[j].name
                               /\ w.client[j].zone = u.client[j].zone
                               /\ w.client[j].handler = u.client[j].handler
        BY <2>6, <2>7 DEF SameClients
      <3> QED
        BY <2>4, <3>1, <3>2 DEF WasReplaced
    <2> QED
      BY <2>2, <2>3, <2>4, <2>7, <2>8 DEF w
  <1> QED
    BY <1>2, <1>3

\* What zc_add_connected_client comes to, when nothing fails
LEMMA EnterZoneIs ==
  ASSUME Sound(zc, player), NEW c \in Conns, EnterZone(c), zc'.fault = "none",
         NEW s, s = Replaced(zc, zc.byName[zc.client[zc.handler[c].obj].name])
  PROVE  /\ zc.handler[c].obj \in Clients /\ Sound(s, player)
         /\ Entered(s, zc.handler[c].obj, zc') /\ MobLists(zc') /\ ClientLists(zc')
  <1> DEFINE k == zc.handler[c].obj
             n == zc.client[k].name
             z == s.client[k].zone
             u == SpawnClient(InTables(s, k), z, k)
  <1>1. zc \in Memory /\ Known(zc)
    BY DEF Sound
  <1>2. k # None /\ zc.mob[k].entity = 0
    BY Zenon DEF EnterZone
  <1>3. k \in Clients /\ Born(zc, k)
    <2>1. zc.handler[c] \in HandlerRecord
      BY <1>1, Fields
    <2> QED
      BY Zenon, <1>1, <1>2, <2>1 DEF HandlerRecord, Known
  <1>4. n \in Names /\ zc.client[k].zone \in zc.zoneList
    <2>1. zc.client[k] \in ClientRecord
      BY Zenon, <1>1, <1>3, Fields
    <2> QED
      BY Zenon, <1>1, <1>3, <2>1 DEF ClientRecord, Born, Known
  <1>n. n = zc.client[k].name /\ s = Replaced(zc, zc.byName[n])
    OBVIOUS
  <1>z. zc' = Broadcast(SpawnClient([s EXCEPT !.byName[n] = k,
                 !.connected = Append(@, [client |-> k, handler |-> s.client[k].handler])], z, k), z)
    BY Zenon DEF EnterZone
  <1> HIDE DEF k, n, z
  <1>5. Sound(s, player) /\ WasReplaced(zc, n, s)
    BY <1>4, <1>n, ReplacedSound
  <1>6. /\ s.byName[n] = None /\ s.client[k].name = n /\ s.mob[k].entity = 0 /\ z \in s.zoneList
        /\ Born(s, k)
    BY Zenon, <1>2, <1>3, <1>4, <1>5, <1>n, ClientIsMob DEF WasReplaced, Born, z
  <1>7. zc' = Broadcast(u, z)
    BY Zenon, <1>6, <1>z DEF InTables
  <1>8. Entered(s, k, u) /\ MobLists(u) /\ ClientLists(u)
    <2>1. s \in Memory /\ MobLists(s) /\ ClientLists(s)
      BY Zenon, <1>5 DEF Sound
    <2>2. s.client[k].zone \in s.zoneList /\ s.byName[s.client[k].name] = None
      BY Zenon, <1>6 DEF z
    <2>3. u = SpawnClient(InTables(s, k), s.client[k].zone, k)
      BY DEF z
    <2> HIDE DEF u
    <2> QED
      BY Zenon, <1>3, <1>6, <2>1, <2>2, <2>3, EnteredIs
  <1> HIDE DEF u
  <1>9. zc' = u
    <2>1. u \in Memory
      BY Zenon, <1>8 DEF Entered
    <2> QED
      BY <1>7, <2>1, SentOrFault
  <1> QED
    BY Zenon, <1>3, <1>5, <1>8, <1>9 DEF k

\* client_trilogy_handle_op_enter_zone keeps the lists in order.
LEMMA EnterZoneSound ==
  ASSUME Sound(zc, player), NEW c \in Conns, EnterZone(c), zc'.fault = "none"
  PROVE  Sound(zc', player)
  <1> DEFINE k == zc.handler[c].obj
             s == Replaced(zc, zc.byName[zc.client[zc.handler[c].obj].name])
             t == zc'
  <1>1. k \in Clients /\ Sound(s, player) /\ Entered(s, k, t) /\ MobLists(t) /\ ClientLists(t)
    BY EnterZoneIs
  <1> HIDE DEF k, s
  <1>2. /\ t \in Memory /\ t.npcs = s.npcs /\ t.zoneList = s.zoneList /\ t.udp = s.udp
        /\ t.handler = s.handler /\ t.expected = s.expected
        /\ \A j \in Clients : t.client[j].name = s.client[j].name /\ t.client[j].zone = s.client[j].zone
    BY Zenon, <1>1 DEF Entered, SameWaits
  <1>3. s \in Memory /\ Sockets(s, player) /\ Known(s)
    BY <1>1 DEF Sound
  <1>4. Sockets(t, player)
    BY <1>2, <1>3 DEF Sockets, Open
  <1>5. Known(t)
    <2>1. \A d \in Conns : s.handler[d].obj # None => s.handler[d].obj \in Clients
      BY <1>3, Fields DEF HandlerRecord
    <2>2. \A n \in Names : s.expected[n] # None => s.expected[n] \in Clients
      BY <1>3, Fields
    <2> QED
      BY <1>2, <1>3, <2>1, <2>2 DEF Known, Born
  <1> QED
    BY <1>1, <1>2, <1>4, <1>5 DEF Sound

\* Disconnecting a stub keeps the lists in order.
LEMMA StubTooLateSound ==
  ASSUME Sound(zc, player), NEW c \in Conns, StubTooLate(c)
  PROVE  Sound(zc', player)
  BY SoundIgnored DEF StubTooLate

-----------------------------------------------------------------------------
(* The lists: the invariant and the theorems *)

\* Nothing is announced, connected or spawned when the process starts.
LEMMA ListsInvInit == Init => ListsInv
  <1> SUFFICES ASSUME Init
               PROVE  ListsInv
    OBVIOUS
  <1> DEFINE h == FirstPacket(0)
             g == [h EXCEPT !.refs = 0]
  <1>1. Unborn \in ClientRecord /\ Unborn.name = None /\ Unborn.zone = None
    BY DEF Unborn, ClientRecord
  <1>2. h \in HandlerRecord /\ h.obj = None /\ h.dead = FALSE
    BY DEF FirstPacket, HandlerRecord
  <1> HIDE DEF h
  <1>3. g \in HandlerRecord /\ g.obj = None /\ g.dead = FALSE
    BY <1>2 DEF HandlerRecord
  <1>4. /\ zc.client = [k \in Clients |-> Unborn]
        /\ zc.mob = [m \in Mobs |-> [entity |-> 0, index |-> 0]]
        /\ zc.npcs = 0 /\ zc.zoneList = {}
        /\ zc.zone = [z \in Zones |-> None]
        /\ zc.expected = [n \in Names |-> None] /\ zc.byName = [n \in Names |-> None]
        /\ zc.connected = <<>> /\ zc.expectTimers = {} /\ zc.lingers = {} /\ zc.queries = {}
        /\ zc.udp = <<>> /\ zc.handler = [c \in Conns |-> g]
        /\ zc.freedStubs = {} /\ zc.fault = "none"
    BY DEF Init, g, h
  <1>5. zc = [client |-> zc.client, mob |-> zc.mob, npcs |-> zc.npcs, zoneList |-> zc.zoneList,
              zone |-> zc.zone, expected |-> zc.expected, byName |-> zc.byName,
              connected |-> zc.connected, expectTimers |-> zc.expectTimers,
              lingers |-> zc.lingers, queries |-> zc.queries, udp |-> zc.udp,
              handler |-> zc.handler, freedStubs |-> zc.freedStubs, fault |-> zc.fault]
    BY DEF Init
  <1> HIDE DEF g
  <1>6. /\ zc.client \in [Clients -> ClientRecord]
        /\ zc.mob \in [Mobs -> [entity : Nat, index : Nat]]
        /\ zc.handler \in [Conns -> HandlerRecord]
    BY <1>1, <1>3, <1>4
  <1>7. /\ zc.npcs \in Nat /\ zc.zoneList \in SUBSET Zones
        /\ zc.zone \in [Zones -> ZoneRecord \cup {None}]
        /\ zc.expected \in [Names -> Clients \cup {None}] /\ zc.byName \in [Names -> Clients \cup {None}]
        /\ zc.expectTimers \in SUBSET Clients /\ zc.lingers \in SUBSET Clients
        /\ zc.queries \in SUBSET (Clients \X (Tables \cup {"stats", "skills"}))
        /\ zc.freedStubs \in SUBSET Conns
    BY <1>4
  <1>8. zc.connected \in Seq(ConnectedRecord) /\ zc.udp \in Seq(Conns) /\ zc.fault \in Faults
    BY <1>4 DEF Faults
  <1>9. zc \in Memory
    BY <1>5, <1>6, <1>7, <1>8 DEF Memory
  <1>10. DOMAIN zc.udp = {} /\ DOMAIN zc.connected = {}
    BY <1>4
  <1>11. player = [c \in Conns |-> "away"] /\ sweep = 0
    BY DEF Init
  <1>12. Sockets(zc, player)
    BY <1>3, <1>4, <1>10, <1>11 DEF Sockets, Open
  <1>13. Known(zc)
    <2>1. \A k \in Clients : zc.client[k].name = None /\ zc.client[k].zone = None
      BY <1>1, <1>4
    <2>2. \A c \in Conns : zc.handler[c].obj = None
      BY <1>3, <1>4
    <2>3. zc.npcs <= MaxNpcs
      BY <1>4, ZoneAssumption
    <2>4. \A n \in Names : zc.expected[n] = None
      BY <1>4
    <2> QED
      BY <2>1, <2>2, <2>3, <2>4 DEF Known, Born
  <1>14. MobLists(zc)
    <2>1. \A m \in Mobs : zc.mob[m].entity = 0
      BY <1>4
    <2> QED
      BY <1>4, <2>1 DEF MobLists
  <1>15. ClientLists(zc)
    <2>1. \A n \in Names : zc.byName[n] = None
      BY <1>4
    <2> QED
      BY <1>4, <1>10, <2>1 DEF ClientLists
  <1> QED
    BY <1>9, <1>11, <1>12, <1>13, <1>14, <1>15 DEF ListsInv, Sound

\* What every step of the sweep and of the main loop leaves of the player and the sweep
LEMMA PlayerTyped ==
  ASSUME sweep \in Nat, player \in [Conns -> {"away", "here", "gone"}], Next
  PROVE  sweep' \in Nat /\ player' \in [Conns -> {"away", "here", "gone"}]
  <1>1. CASE sweep = 0 /\ Step /\ UNCHANGED sweep
    BY Zenon, <1>1 DEF Step, Connect, Closing, Vanish
  <1>2. CASE Sweep
    <2>1. CheckTimeouts => sweep' = sweep \/ sweep' = sweep + 1
      BY Zenon DEF CheckTimeouts
    <2>2. SweepBegins \/ SweepEnds => sweep' \in Nat
      BY DEF SweepBegins, SweepEnds
    <2> QED
      BY <1>2, <2>1, <2>2 DEF Sweep
  <1> QED
    BY <1>1, <1>2 DEF Next

\* Every step that does not fail keeps the lists in order.
LEMMA ListsInvNext == ListsInv /\ [Next]_vars => ListsInv'
  <1>1. CASE UNCHANGED vars
    BY <1>1 DEF ListsInv, vars
  <1>2. ASSUME ListsInv, Next
        PROVE  ListsInv'
    <2>1. /\ Sound(zc, player) /\ sweep \in Nat
          /\ player \in [Conns -> {"away", "here", "gone"}]
      BY <1>2 DEF ListsInv, Next
    <2>2. sweep' \in Nat /\ player' \in [Conns -> {"away", "here", "gone"}]
      BY <1>2, <2>1, PlayerTyped
    <2> SUFFICES ASSUME zc'.fault = "none"
                 PROVE  Sound(zc', player')
      BY <2>2 DEF ListsInv
    <2>3. ASSUME NEW z \in Zones, StartZone(z), UNCHANGED player
          PROVE  Sound(zc', player')
      BY <2>1, <2>3, StartZoneSound
    <2>4. ASSUME NEW n \in Names, NEW z \in Zones, ExpectedToZoneIn(n, z), UNCHANGED player
          PROVE  Sound(zc', player')
      BY <2>1, <2>4, ExpectedToZoneInSound
    <2>5. ASSUME NEW k \in Clients, LoadStats(k), UNCHANGED player
          PROVE  Sound(zc', player')
      BY <2>1, <2>5, LoadStatsSound
    <2>6. ASSUME NEW k \in Clients, NEW x \in Tables \cup {"skills"}, LoadTable(k, x), UNCHANGED player
          PROVE  Sound(zc', player')
      BY <2>1, <2>6, LoadTableSound
    <2>7. ASSUME NEW k \in Clients, ExpectedTimeout(k), UNCHANGED player
          PROVE  Sound(zc', player')
      BY <2>1, <2>7, ExpectedTimeoutSound
    <2>8. ASSUME NEW k \in Clients, LingerTimeout(k), UNCHANGED player
          PROVE  Sound(zc', player')
      BY <2>1, <2>8, LingerTimeoutSound
    <2>9. ASSUME NEW z \in Zones, SpawnNpc(z), UNCHANGED player
          PROVE  Sound(zc', player')
      BY <2>1, <2>9, SpawnNpcSound
    <2>10. ASSUME NEW c \in Conns, NEW n \in Names, ZoneEntry(c, n), UNCHANGED player
           PROVE  Sound(zc', player')
      BY <2>1, <2>10, ZoneEntrySound
    <2>11. ASSUME NEW c \in Conns, StubTooLate(c), UNCHANGED player
           PROVE  Sound(zc', player')
      BY <2>1, <2>11, StubTooLateSound
    <2>12. ASSUME NEW c \in Conns, OtherPacket(c)
           PROVE  FALSE
      <3>1. zc \in Memory /\ "freed stub" \in Faults /\ zc' = Fault(zc, "freed stub")
        BY Zenon, <2>1, <2>12 DEF Sound, Faults, OtherPacket
      <3>2. zc'.fault = "freed stub"
        BY Zenon, <3>1, FaultIs
      <3> QED
        BY Zenon, <3>2
    <2>13. ASSUME NEW c \in Conns, EnterZone(c), UNCHANGED player
           PROVE  Sound(zc', player')
      BY <2>1, <2>13, EnterZoneSound
    <2>14. ASSUME NEW c \in Conns, Connect(c)
           PROVE  Sound(zc', player')
      BY <2>1, <2>14, ConnectSound
    <2>15. ASSUME NEW c \in Conns, Closing(c)
           PROVE  Sound(zc', player')
      BY <2>1, <2>15, ClosingSound
    <2>16. ASSUME NEW c \in Conns, Vanish(c)
           PROVE  Sound(zc', player')
      <3>1. player[c] = "here" /\ player' = [player EXCEPT ![c] = "gone"] /\ zc' = zc
        BY <2>16 DEF Vanish
      <3> QED
        BY <2>1, <3>1, SoundGone
    <2>17. CASE Sweep
      <3>1. player' = player
        BY <2>17 DEF Sweep
      <3>2. CASE CheckTimeouts
        BY <2>1, <3>1, <3>2, CheckTimeoutsSound
      <3>3. CASE SweepBegins \/ SweepEnds
        BY <2>1, <3>1, <3>3 DEF SweepBegins, SweepEnds
      <3> QED
        BY <2>17, <3>2, <3>3 DEF Sweep
    <2>18. CASE (Ipc \/ Database \/ Timer \/ \E z \in Zones : SpawnNpc(z)) /\ UNCHANGED player
      BY <2>3, <2>4, <2>5, <2>6, <2>7, <2>8, <2>9, <2>18 DEF Ipc, Database, Timer
    <2>19. CASE (\E c \in Conns : Packet(c)) /\ UNCHANGED player
      BY <2>10, <2>11, <2>12, <2>13, <2>19 DEF Packet
    <2>20. CASE \E c \in Conns : Connect(c) \/ Closing(c) \/ Vanish(c)
      BY <2>14, <2>15, <2>16, <2>20
    <2> QED
      BY <1>2, <2>17, <2>18, <2>19, <2>20 DEF Next, Step
  <1> QED
    BY <1>1, <1>2

\* What the run checks follows.
LEMMA ListsInvAgree == ListsInv => ListsAgree
  <1> SUFFICES ASSUME ListsInv, zc.fault = "none"
               PROVE  ListsAgree
    BY Zenon DEF ListsAgree
  <1>1. zc \in Memory /\ Sockets(zc, player) /\ Known(zc) /\ MobLists(zc) /\ ClientLists(zc)
    BY DEF ListsInv, Sound
  <1>2. \A k : IsListed(zc, k) => Listed(k)
    BY DEF IsListed, Listed, PlaceOf
  <1>3. \A c \in Conns, i \in DOMAIN zc.udp : zc.udp[i] = c => zc.handler[c].index = i
    BY <1>1 DEF Sockets
  <1>4. ASSUME NEW z \in zc.zoneList
        PROVE  /\ \A i \in DOMAIN zc.zone[z].mobs :
                    LET m == zc.zone[z].mobs[i] IN
                    zc.mob[m].index = i /\ zc.zone[z].ents[zc.mob[m].entity] = m
               /\ \A i \in DOMAIN zc.zone[z].list :
                    LET k == zc.zone[z].list[i].client IN
                    zc.client[k].index = i /\ Listed(k) /\ zc.client[k].zone = z
               /\ Cardinality({i \in DOMAIN zc.zone[z].ents : zc.zone[z].ents[i] # None})
                    = Len(zc.zone[z].mobs)
    <2>1. \A i \in DOMAIN zc.zone[z].mobs :
            LET m == zc.zone[z].mobs[i] IN
            zc.mob[m].index = i /\ zc.zone[z].ents[zc.mob[m].entity] = m
      BY Zenon, <1>1 DEF MobLists
    <2>2. \A i \in DOMAIN zc.zone[z].list :
            LET k == zc.zone[z].list[i].client IN
            zc.client[k].index = i /\ Listed(k) /\ zc.client[k].zone = z
      <3> SUFFICES ASSUME NEW i \in DOMAIN zc.zone[z].list
                   PROVE  LET k == zc.zone[z].list[i].client IN
                          zc.client[k].index = i /\ Listed(k) /\ zc.client[k].zone = z
        BY Zenon
      <3> DEFINE k == zc.zone[z].list[i].client
      <3>1. zc.client[k].index = i /\ zc.client[k].zone = z /\ IsListed(zc, k)
        BY Zenon, <1>1 DEF ClientLists
      <3> QED
        BY Zenon, <1>2, <3>1
    <2>3. Cardinality(Entities(zc, z)) = Len(zc.zone[z].mobs)
      BY Zenon, <1>1 DEF MobLists
    <2> QED
      BY Zenon, <2>1, <2>2, <2>3 DEF Entities
  <1>5. \A i \in DOMAIN zc.connected :
          LET k == zc.connected[i].client IN
          /\ zc.byName[zc.client[k].name] = k
          /\ zc.zone[zc.client[k].zone].list[zc.client[k].index].client = k
    BY Zenon, <1>1 DEF ClientLists, ClientIn
  <1>6. \A n \in Names : zc.byName[n] # None => Listed(zc.byName[n])
    BY Zenon, <1>1, <1>2 DEF ClientLists
  <1> QED
    BY Zenon, <1>3, <1>4, <1>5, <1>6 DEF ListsAgree

\* As long as nothing has failed, the memory is typed and the indices, entity ids and
\* tables of clients, mobs and connections belong together.
THEOREM ListsInductive == Spec => []ListsInv
  BY ListsInvInit, ListsInvNext, PTL DEF Spec

\* Whatever order zone entries, replacements, linkdeaths and spawns come in, the lists
\* that zone_cluster.c, zone.c and udp_socket.c keep by swap-and-pop agree.
THEOREM Lists == Spec => []ListsAgree
  BY ListsInductive, ListsInvAgree, PTL

-----------------------------------------------------------------------------
(* The invariant of the references *)

\* The connection c still owns the client k that it was matched with.
Serves(s, c, k) ==
    Open(s, c) /\ s.handler[c].obj = k /\ ~s.handler[c].dead /\ ~s.handler[c].ignore

IsServed(s, k) == \E c \in Conns : Serves(s, c, k)
IsExpected(s, k) == \E n \in Names : s.expected[n] = k
QueriesOf(s, k) == {q \in s.queries : q[1] = k}

\* The holders of client k: its queries, and one each for the table of expected
\* clients, the connection and the linger timer
Holders(s, k) ==
    Cardinality(QueriesOf(s, k)) + (IF IsExpected(s, k) THEN 1 ELSE 0)
      + (IF IsServed(s, k) THEN 1 ELSE 0) + (IF k \in s.lingers THEN 1 ELSE 0)

\* The references are the holders, and one more of the client o that is about to drop one.
Counted(s, o) ==
    \A k \in Clients : Born(s, k) =>
      s.client[k].refs = Holders(s, k) + (IF k = o THEN 1 ELSE 0)

\* A query is for what has not been loaded, the skills are asked for after the stats.
Loading(s) ==
    /\ \A q \in s.queries : Born(s, q[1]) /\ q[2] \notin s.client[q[1]].loaded
    /\ \A k \in Clients : <<k, "stats">> \in s.queries =>
         "skills" \notin s.client[k].loaded /\ <<k, "skills">> \notin s.queries

\* A client is expected until it is matched or its timer runs, one for a character.
Expecting(s) ==
    /\ \A k \in s.expectTimers : Born(s, k)
    /\ \A j, k \in s.expectTimers : s.client[j].name = s.client[k].name => j = k
    /\ \A n \in Names : s.expected[n] # None =>
         LET k == s.expected[n] IN
         /\ k \in s.expectTimers /\ k \notin s.lingers
         /\ s.client[k].handler = None /\ ~s.client[k].linkdead
         /\ \A c \in Conns : s.handler[c].obj # k

\* A client has one connection, and no connection when it is linkdead.  What a
\* replaced client has left at its connection is nothing.
Owning(s, pl) ==
    /\ \A c, d \in Conns : s.handler[c].obj # None /\ s.handler[c].obj = s.handler[d].obj => c = d
    /\ \A k \in Clients :
         /\ ~Born(s, k) => s.client[k].handler = None /\ s.client[k].refs = 0 /\ k \notin s.lingers
         /\ s.client[k].handler # None => s.handler[s.client[k].handler].obj = k
         /\ s.client[k].linkdead => s.client[k].handler = None
         /\ k \in s.lingers => s.client[k].linkdead
    /\ \A c \in Conns :
         /\ pl[c] = "away" => s.handler[c].obj = None
         /\ \A k \in Clients :
              /\ Serves(s, c, k) => s.client[k].handler = c
              /\ Open(s, c) /\ s.handler[c].ignore /\ s.handler[c].obj = k => Holders(s, k) = 0

\* A handler is kept by the socket, and by the stub or the client.
HandlerRefs(s) ==
    \A c \in Conns :
      /\ \A k \in Clients : s.client[k].refs > 0 /\ s.client[k].handler = c =>
           s.handler[c].refs >= (IF Open(s, c) THEN 2 ELSE 1)
      /\ Open(s, c) /\ s.handler[c].obj = None /\ c \notin s.freedStubs => s.handler[c].refs >= 2

Core(s, pl, o) == Loading(s) /\ Expecting(s) /\ Owning(s, pl) /\ HandlerRefs(s) /\ Counted(s, o)

\* The listing of client k in its zone
ListingOf(s, k) == s.zone[s.client[k].zone].list[s.client[k].index]

\* A listed client, other than one that is about to leave, lingers and is marked, or is served.
Held(s, k) ==
    /\ s.client[k].loaded = AllLoaded
    /\ \/ s.client[k].linkdead /\ k \in s.lingers /\ ListingOf(s, k).linkdead
       \/ ~s.client[k].linkdead /\ \E c \in Conns : s.client[k].handler = c /\ Serves(s, c, k)

Listings(s, o) ==
    \A i \in DOMAIN s.connected : s.connected[i].client # o =>
      /\ Held(s, s.connected[i].client)
      /\ s.connected[i].handler \in {None, s.client[s.connected[i].client].handler}

\* Between two steps no client is about to drop a reference.
Exact(s, pl) == Core(s, pl, None) /\ Listings(s, None)

RefsInv == zc.fault = "none" => Exact(zc, player)

\* What is read of a memory has its type.
LEMMA Types ==
  ASSUME NEW s \in Memory
  PROVE  /\ \A k \in Clients : /\ s.client[k].refs \in Int /\ s.client[k].handler \in Conns \cup {None}
                               /\ s.client[k].name \in Names \cup {None}
                               /\ s.client[k].loaded \in SUBSET AllLoaded
         /\ \A c \in Conns : s.handler[c].refs \in Int /\ s.handler[c].obj \in Clients \cup {None}
         /\ \A n \in Names : s.expected[n] \in Clients \cup {None}
         /\ None \notin Clients /\ None \notin Conns
  <1>1. \A k \in Clients : s.client[k] \in ClientRecord
    BY Fields
  <1>2. \A c \in Conns : s.handler[c] \in HandlerRecord
    BY Fields
  <1>3. \A n \in Names : s.expected[n] \in Clients \cup {None}
    BY Fields
  <1>4. None \notin Clients /\ None \notin Conns
    BY ClientIsMob, ZoneAssumption DEF Clients
  <1> QED
    BY <1>1, <1>2, <1>3, <1>4 DEF ClientRecord, HandlerRecord

\* There are finitely many queries, each for a table of a client.
LEMMA QueriesFinite ==
  ASSUME NEW s \in Memory
  PROVE  /\ IsFiniteSet(s.queries)
         /\ \A k : IsFiniteSet(QueriesOf(s, k)) /\ Cardinality(QueriesOf(s, k)) \in Nat
         /\ \A q \in s.queries : /\ q[1] \in Clients /\ q[2] \in Tables \cup {"stats", "skills"}
                                 /\ q = <<q[1], q[2]>>
  <1> DEFINE T == Tables \cup {"stats", "skills"}
  <1>1. IsFiniteSet(T)
    <2>1. IsFiniteSet({"stats"}) /\ IsFiniteSet({"skills"})
      BY FS_Singleton
    <2>2. IsFiniteSet({"stats"} \cup {"skills"})
      BY <2>1, FS_Union
    <2>3. IsFiniteSet(Tables \cup ({"stats"} \cup {"skills"}))
      BY <2>2, FS_Union, ZoneAssumption
    <2>4. Tables \cup ({"stats"} \cup {"skills"}) = T
      OBVIOUS
    <2> QED
      BY <2>3, <2>4
  <1>2. IsFiniteSet(Clients)
    BY FS_Interval, ZoneAssumption DEF Clients
  <1>3. s.queries \in SUBSET (Clients \X T)
    BY Fields
  <1> HIDE DEF T
  <1>4. IsFiniteSet(Clients \X T)
    BY <1>1, <1>2, FS_Product
  <1>5. IsFiniteSet(s.queries)
    BY <1>3, <1>4, FS_Subset
  <1>6. ASSUME NEW k
        PROVE  IsFiniteSet(QueriesOf(s, k)) /\ Cardinality(QueriesOf(s, k)) \in Nat
    <2>1. QueriesOf(s, k) \subseteq s.queries
      BY DEF QueriesOf
    <2>2. IsFiniteSet(QueriesOf(s, k))
      BY <1>5, <2>1, FS_Subset
    <2> QED
      BY <2>2, FS_CardinalityType
  <1>7. ASSUME NEW q \in s.queries
        PROVE  q[1] \in Clients /\ q[2] \in T /\ q = <<q[1], q[2]>>
    <2>1. q \in Clients \X T
      BY <1>3
    <2> QED
      BY <2>1
  <1> QED
    BY <1>5, <1>6, <1>7 DEF T

\* The holders are counted, and one that is there counts.
LEMMA HoldersType ==
  ASSUME NEW s \in Memory, NEW k
  PROVE  /\ Holders(s, k) \in Nat
         /\ IsExpected(s, k) \/ IsServed(s, k) \/ k \in s.lingers => Holders(s, k) > 0
         /\ Holders(s, k) = 0 => QueriesOf(s, k) = {}
  <1>1. Cardinality(QueriesOf(s, k)) \in Nat /\ IsFiniteSet(QueriesOf(s, k))
    BY QueriesFinite
  <1>2. Cardinality(QueriesOf(s, k)) = 0 => QueriesOf(s, k) = {}
    BY <1>1, FS_EmptySet
  <1> QED
    BY <1>1, <1>2 DEF Holders

\* The holders depend on the queries, the table, the connections and the timers only.
LEMMA HoldersSame ==
  ASSUME NEW s, NEW t, NEW k, QueriesOf(t, k) = QueriesOf(s, k),
         IsExpected(t, k) <=> IsExpected(s, k), IsServed(t, k) <=> IsServed(s, k),
         k \in t.lingers <=> k \in s.lingers
  PROVE  Holders(t, k) = Holders(s, k)
  BY DEF Holders

\* All that the references depend on is the same.
SameView(s, t) ==
    /\ SameWaits(s, t)
    /\ \A k \in Clients :
         /\ t.client[k].name = s.client[k].name /\ t.client[k].refs = s.client[k].refs
         /\ t.client[k].handler = s.client[k].handler /\ t.client[k].loaded = s.client[k].loaded
         /\ t.client[k].linkdead = s.client[k].linkdead
    /\ \A c \in Conns :
         /\ t.handler[c].refs = s.handler[c].refs /\ t.handler[c].obj = s.handler[c].obj
         /\ t.handler[c].dead = s.handler[c].dead /\ t.handler[c].ignore = s.handler[c].ignore
         /\ Open(t, c) <=> Open(s, c)

\* What changes nothing of that keeps the references.
LEMMA CoreSame ==
  ASSUME NEW s \in Memory, NEW t, NEW pl, NEW o, Core(s, pl, o), SameView(s, t)
  PROVE  Core(t, pl, o)
  <1>1. Loading(s) /\ Expecting(s) /\ Owning(s, pl) /\ HandlerRefs(s) /\ Counted(s, o)
    BY DEF Core
  <1>2. /\ t.expected = s.expected /\ t.expectTimers = s.expectTimers /\ t.lingers = s.lingers
        /\ t.queries = s.queries /\ t.freedStubs = s.freedStubs
    BY DEF SameView, SameWaits
  <1>3. \A k \in Clients :
         /\ t.client[k].name = s.client[k].name /\ t.client[k].refs = s.client[k].refs
         /\ t.client[k].handler = s.client[k].handler /\ t.client[k].loaded = s.client[k].loaded
         /\ t.client[k].linkdead = s.client[k].linkdead
         /\ Born(t, k) <=> Born(s, k)
    BY DEF SameView, Born
  <1>4. \A c \in Conns :
         /\ t.handler[c].refs = s.handler[c].refs /\ t.handler[c].obj = s.handler[c].obj
         /\ t.handler[c].dead = s.handler[c].dead /\ t.handler[c].ignore = s.handler[c].ignore
         /\ Open(t, c) <=> Open(s, c)
    BY DEF SameView
  <1>5. \A c \in Conns, k \in Clients : Serves(t, c, k) <=> Serves(s, c, k)
    BY <1>4 DEF Serves
  <1>6. \A k \in Clients : Holders(t, k) = Holders(s, k)
    <2> SUFFICES ASSUME NEW k \in Clients
                 PROVE  Holders(t, k) = Holders(s, k)
      OBVIOUS
    <2>1. IsServed(t, k) <=> IsServed(s, k)
      BY <1>5 DEF IsServed
    <2>2. QueriesOf(t, k) = QueriesOf(s, k) /\ (IsExpected(t, k) <=> IsExpected(s, k))
      BY <1>2 DEF QueriesOf, IsExpected
    <2> QED
      BY <1>2, <2>1, <2>2, HoldersSame
  <1>7. /\ \A q \in s.queries : q[1] \in Clients
        /\ s.expectTimers \subseteq Clients
        /\ \A n \in Names : s.expected[n] # None => s.expected[n] \in Clients
        /\ \A k \in Clients : s.client[k].handler # None => s.client[k].handler \in Conns
    BY QueriesFinite, Types, Fields
  <1>8. Loading(t)
    BY <1>1, <1>2, <1>3, <1>7 DEF Loading
  <1>9. Expecting(t)
    BY <1>1, <1>2, <1>3, <1>4, <1>7 DEF Expecting
  <1>10. Owning(t, pl)
    BY <1>1, <1>2, <1>3, <1>4, <1>5, <1>6, <1>7 DEF Owning
  <1>11. HandlerRefs(t)
    BY <1>1, <1>2, <1>3, <1>4 DEF HandlerRefs
  <1>12. Counted(t, o)
    BY <1>1, <1>3, <1>6 DEF Counted
  <1> QED
    BY <1>8, <1>9, <1>10, <1>11, <1>12 DEF Core

\* client_drop by the one that held a reference too many: the handler goes with the last.
LEMMA CoreDrop ==
  ASSUME NEW s \in Memory, NEW pl, NEW k \in Clients, Born(s, k), Core(s, pl, k), NEW t, t = Drop(s, k)
  PROVE  Core(t, pl, None)
  <1>1. Loading(s) /\ Expecting(s) /\ Owning(s, pl) /\ HandlerRefs(s) /\ Counted(s, k)
    BY DEF Core
  <1>2. /\ SameWaits(s, t) /\ SameHandlers(s, t) /\ SameClients(s, t) /\ t.udp = s.udp
        /\ \A j \in Clients : t.client[j].refs = IF j = k THEN s.client[j].refs - 1 ELSE s.client[j].refs
        /\ \A d \in Conns : t.handler[d].refs =
             IF d = s.client[k].handler /\ s.client[k].refs <= 1
               THEN s.handler[d].refs - 1 ELSE s.handler[d].refs
    BY DropIs
  <1>3. /\ t.expected = s.expected /\ t.expectTimers = s.expectTimers /\ t.lingers = s.lingers
        /\ t.queries = s.queries /\ t.freedStubs = s.freedStubs
    BY <1>2 DEF SameWaits
  <1>4. \A j \in Clients :
         /\ t.client[j].name = s.client[j].name /\ t.client[j].handler = s.client[j].handler
         /\ t.client[j].loaded = s.client[j].loaded /\ t.client[j].linkdead = s.client[j].linkdead
         /\ Born(t, j) <=> Born(s, j)
    BY <1>2 DEF SameClients, Born
  <1>5. \A c \in Conns :
         /\ t.handler[c].obj = s.handler[c].obj
         /\ t.handler[c].dead = s.handler[c].dead /\ t.handler[c].ignore = s.handler[c].ignore
         /\ Open(t, c) <=> Open(s, c)
    BY <1>2 DEF SameHandlers, Open
  <1>6. \A c \in Conns, j \in Clients : Serves(t, c, j) <=> Serves(s, c, j)
    BY <1>5 DEF Serves
  <1>7. \A j \in Clients : Holders(t, j) = Holders(s, j) /\ Holders(s, j) \in Nat
    <2> SUFFICES ASSUME NEW j \in Clients
                 PROVE  Holders(t, j) = Holders(s, j) /\ Holders(s, j) \in Nat
      OBVIOUS
    <2>1. IsServed(t, j) <=> IsServed(s, j)
      BY <1>6 DEF IsServed
    <2>2. QueriesOf(t, j) = QueriesOf(s, j) /\ (IsExpected(t, j) <=> IsExpected(s, j))
      BY <1>3 DEF QueriesOf, IsExpected
    <2> QED
      BY <1>3, <2>1, <2>2, HoldersSame, HoldersType
  <1>8. /\ \A q \in s.queries : q[1] \in Clients
        /\ s.expectTimers \subseteq Clients
        /\ \A n \in Names : s.expected[n] # None => s.expected[n] \in Clients
        /\ \A j \in Clients : /\ s.client[j].handler # None => s.client[j].handler \in Conns
                              /\ s.client[j].refs \in Int
        /\ \A c \in Conns : s.handler[c].refs \in Int
        /\ None \notin Clients
    BY QueriesFinite, Types, Fields
  <1>9. Loading(t)
    BY <1>1, <1>3, <1>4, <1>8 DEF Loading
  <1>10. Expecting(t)
    BY <1>1, <1>3, <1>4, <1>5, <1>8 DEF Expecting
  <1>11. Owning(t, pl)
    <2>1. \A j \in Clients : ~Born(s, j) => t.client[j].refs = s.client[j].refs
      BY <1>2
    <2> QED
      BY <1>1, <1>3, <1>4, <1>5, <1>6, <1>7, <1>8, <2>1 DEF Owning
  <1>12. HandlerRefs(t)
    <2> SUFFICES ASSUME NEW c \in Conns
                 PROVE  /\ \A j \in Clients : t.client[j].refs > 0 /\ t.client[j].handler = c =>
                             t.handler[c].refs >= (IF Open(t, c) THEN 2 ELSE 1)
                        /\ Open(t, c) /\ t.handler[c].obj = None /\ c \notin t.freedStubs
                             => t.handler[c].refs >= 2
      BY DEF HandlerRefs
    <2>1. s.client[k].handler = c => s.handler[c].obj = k
      BY <1>1, <1>8, ClientIsMob DEF Owning
    <2>2. ASSUME NEW j \in Clients, t.client[j].refs > 0, t.client[j].handler = c
          PROVE  t.handler[c].refs >= (IF Open(t, c) THEN 2 ELSE 1)
      <3>1. s.client[j].refs > 0 /\ s.client[j].handler = c
        BY <1>2, <1>4, <1>8, <2>2
      <3>2. s.handler[c].refs >= (IF Open(s, c) THEN 2 ELSE 1)
        BY <1>1, <3>1 DEF HandlerRefs
      <3>3. j # k => s.client[k].handler # c
        <4>1. s.handler[c].obj = j
          BY <1>1, <1>8, <3>1, ClientIsMob DEF Owning
        <4> QED
          BY <2>1, <4>1
      <3>4. j = k => s.client[k].refs > 1
        BY <1>2, <1>8, <2>2
      <3>5. t.handler[c].refs = s.handler[c].refs
        BY <1>2, <1>8, <3>3, <3>4
      <3> QED
        BY <1>5, <3>2, <3>5
    <2>3. ASSUME Open(t, c), t.handler[c].obj = None, c \notin t.freedStubs
          PROVE  t.handler[c].refs >= 2
      <3>1. t.handler[c].refs = s.handler[c].refs
        BY <1>2, <1>5, <1>8, <2>1, <2>3
      <3> QED
        BY <1>1, <1>3, <1>5, <2>3, <3>1 DEF HandlerRefs
    <2> QED
      BY <2>2, <2>3
  <1>13. Counted(t, None)
    <2>1. \A j \in Clients : j # None
      BY <1>8
    <2> QED
      BY <1>1, <1>2, <1>4, <1>7, <1>8, <2>1 DEF Counted
  <1> QED
    BY <1>9, <1>10, <1>11, <1>12, <1>13 DEF Core

\* A player that vanishes changes nothing of the references.
LEMMA CoreGone ==
  ASSUME NEW s, NEW pl \in [Conns -> {"away", "here", "gone"}], NEW o, Core(s, pl, o),
         NEW c \in Conns, NEW p, p = [pl EXCEPT ![c] = "gone"]
  PROVE  Core(s, p, o)
  <1>1. \A d \in Conns : p[d] = "away" => pl[d] = "away"
    BY SMT
  <1>2. Owning(s, p)
    BY <1>1 DEF Core, Owning
  <1> QED
    BY <1>2 DEF Core

\* A query that comes back, when its holder is accounted for
LEMMA CoreLoaded ==
  ASSUME NEW s \in Memory, NEW pl, Core(s, pl, None), NEW k \in Clients, NEW x, NEW Q, NEW t, Loaded(s, k, x, Q, t),
         Loading(t), NEW o,
         \A j \in Clients : Cardinality(QueriesOf(t, j)) = Cardinality(QueriesOf(s, j)) - (IF j = o THEN 1 ELSE 0)
  PROVE  Core(t, pl, o)
  <1>1. Loading(s) /\ Expecting(s) /\ Owning(s, pl) /\ HandlerRefs(s) /\ Counted(s, None)
    BY DEF Core
  <1>2. /\ t.expected = s.expected /\ t.expectTimers = s.expectTimers /\ t.lingers = s.lingers
        /\ t.freedStubs = s.freedStubs /\ t.handler = s.handler /\ t.udp = s.udp /\ t \in Memory
    BY DEF Loaded
  <1>3. \A j \in Clients :
         /\ t.client[j].name = s.client[j].name /\ t.client[j].handler = s.client[j].handler
         /\ t.client[j].refs = s.client[j].refs /\ t.client[j].linkdead = s.client[j].linkdead
         /\ Born(t, j) <=> Born(s, j)
    BY DEF Loaded, Born
  <1>4. \A c \in Conns : Open(t, c) <=> Open(s, c)
    BY <1>2 DEF Open
  <1>5. \A c \in Conns, j \in Clients : Serves(t, c, j) <=> Serves(s, c, j)
    BY <1>2, <1>4 DEF Serves
  <1>6. \A j \in Clients : /\ Holders(t, j) = Holders(s, j) - (IF j = o THEN 1 ELSE 0)
                           /\ Holders(s, j) \in Nat /\ Holders(t, j) \in Nat
    <2> SUFFICES ASSUME NEW j \in Clients
                 PROVE  /\ Holders(t, j) = Holders(s, j) - (IF j = o THEN 1 ELSE 0)
                        /\ Holders(s, j) \in Nat /\ Holders(t, j) \in Nat
      OBVIOUS
    <2>1. IsServed(t, j) <=> IsServed(s, j)
      BY <1>5 DEF IsServed
    <2>2. IsExpected(t, j) <=> IsExpected(s, j)
      BY <1>2 DEF IsExpected
    <2>3. Cardinality(QueriesOf(s, j)) \in Nat /\ Cardinality(QueriesOf(t, j)) \in Nat
      BY <1>2, QueriesFinite
    <2>4. Holders(s, j) \in Nat /\ Holders(t, j) \in Nat
      BY <1>2, HoldersType
    <2>5. Holders(t, j) = Holders(s, j) - (IF j = o THEN 1 ELSE 0)
      BY <1>2, <2>1, <2>2, <2>3 DEF Holders
    <2> QED
      BY <2>4, <2>5
  <1>7. /\ s.expectTimers \subseteq Clients
        /\ \A n \in Names : s.expected[n] # None => s.expected[n] \in Clients
        /\ \A j \in Clients : /\ s.client[j].handler # None => s.client[j].handler \in Conns
                              /\ s.client[j].refs \in Int
        /\ None \notin Clients
    BY Types, Fields
  <1>8. Expecting(t)
    BY <1>1, <1>2, <1>3, <1>7 DEF Expecting
  <1>9. Owning(t, pl)
    <2>1. \A j \in Clients : Holders(s, j) = 0 => Holders(t, j) = 0
      BY <1>6
    <2> QED
      BY <1>1, <1>2, <1>3, <1>4, <1>5, <1>7, <2>1 DEF Owning
  <1>10. HandlerRefs(t)
    BY <1>1, <1>2, <1>3, <1>4 DEF HandlerRefs
  <1>11. Counted(t, o)
    <2> SUFFICES ASSUME NEW j \in Clients, Born(t, j)
                 PROVE  t.client[j].refs = Holders(t, j) + (IF j = o THEN 1 ELSE 0)
      BY DEF Counted
    <2>1. s.client[j].refs = Holders(s, j)
      BY <1>1, <1>3, <1>6, <1>7 DEF Counted
    <2> QED
      BY <1>3, <1>6, <2>1
  <1> QED
    BY <1>8, <1>9, <1>10, <1>11 DEF Core

\* The callback of a table: one query less
LEMMA CoreTable ==
  ASSUME NEW s \in Memory, NEW pl, Core(s, pl, None), NEW k \in Clients, NEW x,
         <<k, x>> \in s.queries, x # "stats",
         NEW Q, Q = s.queries \ {<<k, x>>}, NEW t, Loaded(s, k, x, Q, t)
  PROVE  Core(t, pl, k)
  <1>1. Loading(s)
    BY DEF Core
  <1>2. t.queries = Q /\ t \in Memory
    BY DEF Loaded
  <1>3. \A j \in Clients :
         /\ Born(t, j) <=> Born(s, j)
         /\ t.client[j].loaded = IF j = k THEN s.client[j].loaded \cup {x} ELSE s.client[j].loaded
    BY DEF Loaded, Born
  <1>4. \A q \in s.queries : q[1] \in Clients /\ q = <<q[1], q[2]>>
    BY QueriesFinite
  <1>5. Loading(t)
    <2>1. ASSUME NEW q \in t.queries
          PROVE  Born(t, q[1]) /\ q[2] \notin t.client[q[1]].loaded
      <3>1. q \in s.queries /\ q # <<k, x>>
        BY <1>2, <2>1
      <3>2. q[1] \in Clients /\ (q[1] = k => q[2] # x)
        BY <1>4, <3>1
      <3>3. Born(s, q[1]) /\ q[2] \notin s.client[q[1]].loaded
        BY <1>1, <3>1 DEF Loading
      <3> QED
        BY <1>3, <3>2, <3>3
    <2>2. ASSUME NEW j \in Clients, <<j, "stats">> \in t.queries
          PROVE  "skills" \notin t.client[j].loaded /\ <<j, "skills">> \notin t.queries
      <3>1. <<j, "stats">> \in s.queries
        BY <1>2, <2>2
      <3>2. "skills" \notin s.client[j].loaded /\ <<j, "skills">> \notin s.queries
        BY <1>1, <3>1 DEF Loading
      <3>3. j = k => x # "skills"
        BY <3>2
      <3> QED
        BY <1>2, <1>3, <3>2, <3>3
    <2> QED
      BY <2>1, <2>2 DEF Loading
  <1>6. ASSUME NEW j \in Clients
        PROVE  Cardinality(QueriesOf(t, j)) = Cardinality(QueriesOf(s, j)) - (IF j = k THEN 1 ELSE 0)
    <2>1. CASE j = k
      <3>1. QueriesOf(t, j) = QueriesOf(s, j) \ {<<k, x>>} /\ <<k, x>> \in QueriesOf(s, j)
        BY <1>2, <2>1 DEF QueriesOf
      <3>2. IsFiniteSet(QueriesOf(s, j)) /\ Cardinality(QueriesOf(s, j)) \in Nat
        BY QueriesFinite
      <3>3. Cardinality(QueriesOf(s, j) \ {<<k, x>>}) = Cardinality(QueriesOf(s, j)) - 1
        BY <3>1, <3>2, FS_RemoveElement
      <3> QED
        BY <2>1, <3>1, <3>3
    <2>2. CASE j # k
      <3>1. QueriesOf(t, j) = QueriesOf(s, j)
        BY <1>2, <2>2 DEF QueriesOf
      <3>2. Cardinality(QueriesOf(s, j)) \in Nat
        BY QueriesFinite
      <3> QED
        BY <2>2, <3>1, <3>2
    <2> QED
      BY <2>1, <2>2
  <1> QED
    BY <1>5, <1>6, CoreLoaded

\* The callback of the stats: the query for the skills takes over
LEMMA CoreStats ==
  ASSUME NEW s \in Memory, NEW pl, Core(s, pl, None), NEW k \in Clients,
         <<k, "stats">> \in s.queries,
         NEW Q, Q = (s.queries \ {<<k, "stats">>}) \cup {<<k, "skills">>}, NEW t, Loaded(s, k, "stats", Q, t)
  PROVE  Core(t, pl, None)
  <1>1. Loading(s)
    BY DEF Core
  <1>2. t.queries = Q /\ t \in Memory
    BY DEF Loaded
  <1>3. \A j \in Clients :
         /\ Born(t, j) <=> Born(s, j)
         /\ t.client[j].loaded = IF j = k THEN s.client[j].loaded \cup {"stats"} ELSE s.client[j].loaded
    BY DEF Loaded, Born
  <1>4. \A q \in s.queries : q[1] \in Clients /\ q = <<q[1], q[2]>>
    BY QueriesFinite
  <1>5. Born(s, k) /\ "skills" \notin s.client[k].loaded /\ <<k, "skills">> \notin s.queries
    <2>1. <<k, "stats">>[1] = k
      OBVIOUS
    <2> QED
      BY <1>1, <2>1 DEF Loading
  <1>6. Loading(t)
    <2>1. ASSUME NEW q \in t.queries
          PROVE  Born(t, q[1]) /\ q[2] \notin t.client[q[1]].loaded
      <3>1. CASE q = <<k, "skills">>
        BY <1>3, <1>5, <3>1
      <3>2. CASE q # <<k, "skills">>
        <4>1. q \in s.queries /\ q # <<k, "stats">>
          BY <1>2, <2>1, <3>2
        <4>2. q[1] \in Clients /\ (q[1] = k => q[2] # "stats")
          BY <1>4, <4>1
        <4>3. Born(s, q[1]) /\ q[2] \notin s.client[q[1]].loaded
          BY <1>1, <4>1 DEF Loading
        <4>4. q[2] \notin t.client[q[1]].loaded
          <5>1. CASE q[1] = k
            <6>1. t.client[k].loaded = s.client[k].loaded \cup {"stats"}
              BY <1>3
            <6>2. q[2] # "stats" /\ q[2] \notin s.client[k].loaded
              BY <4>2, <4>3, <5>1
            <6> QED
              BY <5>1, <6>1, <6>2
          <5>2. CASE q[1] # k
            BY <1>3, <4>2, <4>3, <5>2
          <5> QED
            BY <5>1, <5>2
        <4> QED
          BY <1>3, <4>2, <4>3, <4>4
      <3> QED
        BY <3>1, <3>2
    <2>2. ASSUME NEW j \in Clients, <<j, "stats">> \in t.queries
          PROVE  "skills" \notin t.client[j].loaded /\ <<j, "skills">> \notin t.queries
      <3>1. j # k /\ <<j, "stats">> \in s.queries
        BY <1>2, <2>2
      <3>2. "skills" \notin s.client[j].loaded /\ <<j, "skills">> \notin s.queries
        BY <1>1, <3>1 DEF Loading
      <3> QED
        <4>1. t.client[j].loaded = s.client[j].loaded
          BY <1>3, <3>1
        <4>2. <<j, "skills">> \notin t.queries
          BY <1>2, <3>1, <3>2
        <4> QED
          BY <3>2, <4>1, <4>2
    <2> QED
      BY <2>1, <2>2 DEF Loading
  <1>7. ASSUME NEW j \in Clients
        PROVE  Cardinality(QueriesOf(t, j)) = Cardinality(QueriesOf(s, j))
    <2>1. CASE j = k
      <3> DEFINE A == QueriesOf(s, j)
                 B == A \ {<<k, "stats">>}
      <3>1. QueriesOf(t, j) = B \cup {<<k, "skills">>} /\ <<k, "stats">> \in A /\ <<k, "skills">> \notin B
        BY <1>2, <1>5, <2>1 DEF QueriesOf
      <3>2. IsFiniteSet(A) /\ Cardinality(A) \in Nat
        BY QueriesFinite
      <3> HIDE DEF A
      <3>3. IsFiniteSet(B) /\ Cardinality(B) = Cardinality(A) - 1
        BY <3>1, <3>2, FS_RemoveElement
      <3> HIDE DEF B
      <3>4. Cardinality(B \cup {<<k, "skills">>}) = Cardinality(B) + 1
        BY <3>1, <3>3, FS_AddElement
      <3> QED
        BY <3>1, <3>2, <3>3, <3>4 DEF A
    <2>2. CASE j # k
      <3>1. QueriesOf(t, j) = QueriesOf(s, j)
        BY <1>2, <2>2 DEF QueriesOf
      <3> QED
        BY <3>1
    <2> QED
      BY <2>1, <2>2
  <1>8. \A j \in Clients : Cardinality(QueriesOf(t, j)) = Cardinality(QueriesOf(s, j)) - (IF j = None THEN 1 ELSE 0)
    <2>1. \A j \in Clients : j # None /\ Cardinality(QueriesOf(s, j)) \in Nat
      BY QueriesFinite, Types
    <2> QED
      BY <1>7, <2>1
  <1> QED
    BY <1>6, <1>8, CoreLoaded

\* Everything that a client has besides its place in the lists
SameOwners(s, t) ==
    \A k \in Clients :
      /\ t.client[k].name = s.client[k].name /\ t.client[k].refs = s.client[k].refs
      /\ t.client[k].handler = s.client[k].handler /\ t.client[k].loaded = s.client[k].loaded
      /\ t.client[k].linkdead = s.client[k].linkdead

\* Nothing is expected, served or lingers that was not before.
Shrinks(s, t) ==
    /\ t.queries = s.queries /\ t.lingers \subseteq s.lingers /\ t.expectTimers \subseteq s.expectTimers
    /\ \A n \in Names : t.expected[n] # None => t.expected[n] = s.expected[n] /\ t.expected[n] \in t.expectTimers
    /\ \A c \in Conns : t.handler[c].obj = s.handler[c].obj /\ (Open(t, c) => Open(s, c))
    /\ \A c \in Conns, k \in Clients : Serves(t, c, k) => Serves(s, c, k)

\* The holder of one reference goes, or none.
LEMMA CoreShrinks ==
  ASSUME NEW s \in Memory, NEW pl, Core(s, pl, None), NEW t \in Memory, NEW o,
         SameOwners(s, t), Shrinks(s, t), HandlerRefs(t),
         \A k \in Clients : Holders(t, k) = Holders(s, k) - (IF k = o THEN 1 ELSE 0),
         \A c \in Conns, k \in Clients :
           Open(t, c) /\ t.handler[c].ignore /\ t.handler[c].obj = k => Holders(t, k) = 0
  PROVE  Core(t, pl, o)
  <1>1. Loading(s) /\ Expecting(s) /\ Owning(s, pl) /\ Counted(s, None)
    BY DEF Core
  <1>2. /\ t.queries = s.queries /\ t.lingers \subseteq s.lingers /\ t.expectTimers \subseteq s.expectTimers
        /\ \A n \in Names : t.expected[n] # None => t.expected[n] = s.expected[n] /\ t.expected[n] \in t.expectTimers
        /\ \A c \in Conns : t.handler[c].obj = s.handler[c].obj
        /\ \A c \in Conns, k \in Clients : Serves(t, c, k) => Serves(s, c, k)
    BY DEF Shrinks
  <1>3. \A k \in Clients :
          /\ t.client[k].name = s.client[k].name /\ t.client[k].refs = s.client[k].refs
          /\ t.client[k].handler = s.client[k].handler /\ t.client[k].loaded = s.client[k].loaded
          /\ t.client[k].linkdead = s.client[k].linkdead
          /\ Born(t, k) <=> Born(s, k)
    BY DEF SameOwners, Born
  <1>4. /\ \A q \in s.queries : q[1] \in Clients
        /\ s.expectTimers \subseteq Clients /\ None \notin Clients
        /\ \A n \in Names : s.expected[n] # None => s.expected[n] \in Clients
        /\ \A k \in Clients : s.client[k].handler # None => s.client[k].handler \in Conns
    BY QueriesFinite, Types, Fields
  <1>5. Loading(t)
    BY <1>1, <1>2, <1>3, <1>4 DEF Loading
  <1>6. Expecting(t)
    <2>1. ASSUME NEW n \in Names, t.expected[n] # None
          PROVE  LET k == t.expected[n] IN
                 /\ k \in t.expectTimers /\ k \notin t.lingers
                 /\ t.client[k].handler = None /\ ~t.client[k].linkdead
                 /\ \A c \in Conns : t.handler[c].obj # k
      <3> DEFINE k == t.expected[n]
      <3>1. k = s.expected[n] /\ k \in t.expectTimers /\ k \in Clients
        BY <1>2, <1>4, <2>1
      <3>2. /\ k \notin s.lingers /\ s.client[k].handler = None /\ ~s.client[k].linkdead
            /\ \A c \in Conns : s.handler[c].obj # k
        BY <1>1, <2>1, <3>1 DEF Expecting
      <3> HIDE DEF k
      <3>3. /\ k \in t.expectTimers /\ k \notin t.lingers
            /\ t.client[k].handler = None /\ ~t.client[k].linkdead
            /\ \A c \in Conns : t.handler[c].obj # k
        BY <1>2, <1>3, <3>1, <3>2
      <3> QED
        BY <3>3 DEF k
    <2>2. /\ \A k \in t.expectTimers : Born(t, k)
          /\ \A j, k \in t.expectTimers : t.client[j].name = t.client[k].name => j = k
      BY <1>1, <1>2, <1>3, <1>4 DEF Expecting
    <2> QED
      BY <2>1, <2>2 DEF Expecting
  <1>7. Owning(t, pl)
    BY <1>1, <1>2, <1>3, <1>4 DEF Owning
  <1>8. Counted(t, o)
    <2> SUFFICES ASSUME NEW j \in Clients, Born(t, j)
                 PROVE  t.client[j].refs = Holders(t, j) + (IF j = o THEN 1 ELSE 0)
      BY DEF Counted
    <2>1. Holders(s, j) \in Nat /\ Holders(t, j) \in Nat
      BY HoldersType
    <2>2. s.client[j].refs = Holders(s, j)
      BY <1>1, <1>3, <1>4, <2>1 DEF Counted
    <2> QED
      BY <1>3, <2>1, <2>2
  <1> QED
    BY <1>5, <1>6, <1>7, <1>8 DEF Core

\* The references of the handlers where neither they nor the socket change
LEMMA HandlersSame ==
  ASSUME NEW s, NEW t, HandlerRefs(s), SameOwners(s, t), t.freedStubs = s.freedStubs,
         \A c \in Conns : /\ t.handler[c].refs = s.handler[c].refs /\ t.handler[c].obj = s.handler[c].obj
                          /\ Open(t, c) <=> Open(s, c)
  PROVE  HandlerRefs(t)
  BY DEF HandlerRefs, SameOwners

\* The expected timer of a client that is no longer expected
LEMMA CoreTimer ==
  ASSUME NEW s \in Memory, NEW pl, Core(s, pl, None), NEW k \in s.expectTimers,
         \A n \in Names : s.expected[n] # k,
         NEW t \in Memory, t.expectTimers = s.expectTimers \ {k}, t.expected = s.expected,
         t.queries = s.queries, t.lingers = s.lingers, t.freedStubs = s.freedStubs,
         t.client = s.client, t.handler = s.handler, t.udp = s.udp
  PROVE  Core(t, pl, None)
  <1>1. Expecting(s) /\ Owning(s, pl) /\ HandlerRefs(s) /\ SameOwners(s, t)
    BY DEF Core, SameOwners
  <1>2. \A c \in Conns : Open(t, c) <=> Open(s, c)
    BY DEF Open
  <1>3. \A c \in Conns, j \in Clients : Serves(t, c, j) <=> Serves(s, c, j)
    BY <1>2 DEF Serves
  <1>4. Shrinks(s, t)
    BY <1>1, <1>2, <1>3 DEF Shrinks, Expecting
  <1>5. HandlerRefs(t)
    BY <1>1, <1>2, HandlersSame
  <1>6. ASSUME NEW j \in Clients
        PROVE  Holders(t, j) = Holders(s, j) /\ Holders(s, j) \in Nat
    <2>1. IsServed(t, j) <=> IsServed(s, j)
      BY <1>3 DEF IsServed
    <2>2. QueriesOf(t, j) = QueriesOf(s, j) /\ (IsExpected(t, j) <=> IsExpected(s, j))
      BY DEF QueriesOf, IsExpected
    <2> QED
      BY <2>1, <2>2, HoldersSame, HoldersType
  <1>7. \A j \in Clients : j # None
    BY Types
  <1>8. \A j \in Clients : Holders(t, j) = Holders(s, j) - (IF j = None THEN 1 ELSE 0)
    BY <1>6, <1>7
  <1>9. \A c \in Conns, j \in Clients :
          Open(t, c) /\ t.handler[c].ignore /\ t.handler[c].obj = j => Holders(t, j) = 0
    BY <1>1, <1>2, <1>6 DEF Owning
  <1> QED
    BY <1>1, <1>4, <1>5, <1>8, <1>9, CoreShrinks

\* The timer takes the client from the table of expected clients.
LEMMA CoreUnexpected ==
  ASSUME NEW s \in Memory, NEW pl, Core(s, pl, None), Known(s), NEW k \in Clients, NEW n \in Names, s.expected[n] = k,
         NEW t \in Memory, t.expectTimers = s.expectTimers \ {k},
         \A m \in Names : t.expected[m] = IF m = n THEN None ELSE s.expected[m],
         t.queries = s.queries, t.lingers = s.lingers, t.freedStubs = s.freedStubs,
         t.client = s.client, t.handler = s.handler, t.udp = s.udp
  PROVE  Core(t, pl, k)
  <1>1. Expecting(s) /\ Owning(s, pl) /\ HandlerRefs(s) /\ SameOwners(s, t)
    BY DEF Core, SameOwners
  <1>2. \A c \in Conns : Open(t, c) <=> Open(s, c)
    BY DEF Open
  <1>3. \A c \in Conns, j \in Clients : Serves(t, c, j) <=> Serves(s, c, j)
    BY <1>2 DEF Serves
  <1>4. None \notin Clients /\ \A m \in Names : s.expected[m] \in Clients \cup {None}
    BY Types
  <1>5. \A m \in Names : s.expected[m] = k => m = n
    BY <1>4 DEF Known
  <1>6. Shrinks(s, t)
    <2>1. ASSUME NEW m \in Names, t.expected[m] # None
          PROVE  t.expected[m] = s.expected[m] /\ t.expected[m] \in t.expectTimers
      <3>1. m # n /\ t.expected[m] = s.expected[m]
        BY <2>1
      <3>2. s.expected[m] # k /\ s.expected[m] \in s.expectTimers
        BY <1>1, <1>5, <2>1, <3>1 DEF Expecting
      <3> QED
        BY <3>1, <3>2
    <2> QED
      BY <1>2, <1>3, <2>1 DEF Shrinks
  <1>7. HandlerRefs(t)
    BY <1>1, <1>2, HandlersSame
  <1>8. \A j \in Clients : Holders(s, j) \in Nat /\ Holders(t, j) \in Nat
    BY HoldersType
  <1>9. ASSUME NEW j \in Clients
        PROVE  Holders(t, j) = Holders(s, j) - (IF j = k THEN 1 ELSE 0)
    <2>1. IsServed(t, j) <=> IsServed(s, j)
      BY <1>3 DEF IsServed
    <2>2. QueriesOf(t, j) = QueriesOf(s, j) /\ Cardinality(QueriesOf(s, j)) \in Nat
      BY QueriesFinite DEF QueriesOf
    <2>3. CASE j = k
      <3>1. IsExpected(s, j)
        BY <2>3 DEF IsExpected
      <3>2. ~IsExpected(t, j)
        BY <1>4, <1>5, <2>3 DEF IsExpected
      <3> QED
        BY <2>1, <2>2, <2>3, <3>1, <3>2 DEF Holders
    <2>4. CASE j # k
      <3>1. IsExpected(t, j) <=> IsExpected(s, j)
        BY <1>4, <2>4 DEF IsExpected
      <3>2. Holders(t, j) = Holders(s, j)
        BY <2>1, <2>2, <3>1, HoldersSame
      <3> QED
        BY <1>8, <2>4, <3>2
    <2> QED
      BY <2>3, <2>4
  <1>10. \A c \in Conns, j \in Clients :
          Open(t, c) /\ t.handler[c].ignore /\ t.handler[c].obj = j => Holders(t, j) = 0
    <2>1. \A c \in Conns, j \in Clients :
            Open(t, c) /\ t.handler[c].ignore /\ t.handler[c].obj = j => Holders(s, j) = 0
      BY <1>1, <1>2 DEF Owning
    <2> QED
      BY <1>8, <1>9, <2>1
  <1> QED
    BY <1>1, <1>6, <1>7, <1>9, <1>10, CoreShrinks

\* The linger timer of client k is over.
LEMMA CoreLingered ==
  ASSUME NEW s \in Memory, NEW pl, Core(s, pl, None), NEW k \in s.lingers,
         NEW t \in Memory, t.lingers = s.lingers \ {k}, t.expected = s.expected,
         t.queries = s.queries, t.expectTimers = s.expectTimers, t.freedStubs = s.freedStubs,
         t.client = s.client, t.handler = s.handler, t.udp = s.udp
  PROVE  Core(t, pl, k)
  <1>1. Expecting(s) /\ Owning(s, pl) /\ HandlerRefs(s) /\ SameOwners(s, t)
    BY DEF Core, SameOwners
  <1>2. \A c \in Conns : Open(t, c) <=> Open(s, c)
    BY DEF Open
  <1>3. \A c \in Conns, j \in Clients : Serves(t, c, j) <=> Serves(s, c, j)
    BY <1>2 DEF Serves
  <1>4. Shrinks(s, t)
    BY <1>1, <1>2, <1>3 DEF Shrinks, Expecting
  <1>5. HandlerRefs(t)
    BY <1>1, <1>2, HandlersSame
  <1>6. \A j \in Clients : Holders(s, j) \in Nat /\ Holders(t, j) \in Nat
    BY HoldersType
  <1>7. ASSUME NEW j \in Clients
        PROVE  Holders(t, j) = Holders(s, j) - (IF j = k THEN 1 ELSE 0)
    <2>1. IsServed(t, j) <=> IsServed(s, j)
      BY <1>3 DEF IsServed
    <2>2. /\ QueriesOf(t, j) = QueriesOf(s, j) /\ Cardinality(QueriesOf(s, j)) \in Nat
          /\ IsExpected(t, j) <=> IsExpected(s, j)
      BY QueriesFinite DEF QueriesOf, IsExpected
    <2> QED
      BY <2>1, <2>2 DEF Holders
  <1>8. \A c \in Conns, j \in Clients :
          Open(t, c) /\ t.handler[c].ignore /\ t.handler[c].obj = j => Holders(t, j) = 0
    <2>1. \A c \in Conns, j \in Clients :
            Open(t, c) /\ t.handler[c].ignore /\ t.handler[c].obj = j => Holders(s, j) = 0
      BY <1>1, <1>2 DEF Owning
    <2> QED
      BY <1>6, <1>7, <2>1
  <1> QED
    BY <1>1, <1>4, <1>5, <1>7, <1>8, CoreShrinks

\* The connection c stops to serve its client k; when its packets are ignored,
\* nothing else may hold the client.
LEMMA CoreUnserved ==
  ASSUME NEW s \in Memory, NEW pl, Core(s, pl, None), NEW c \in Conns, NEW k \in Clients, Serves(s, c, k),
         NEW t \in Memory, SameWaits(s, t), t.client = s.client, t.udp = s.udp,
         \A d \in Conns : t.handler[d].refs = s.handler[d].refs /\ t.handler[d].obj = s.handler[d].obj,
         \A d \in Conns, j \in Clients : Serves(t, d, j) <=> Serves(s, d, j) /\ d # c,
         \A d \in Conns : t.handler[d].ignore => s.handler[d].ignore \/ (d = c /\ Holders(s, k) = 1)
  PROVE  Core(t, pl, k)
  <1>1. Expecting(s) /\ Owning(s, pl) /\ HandlerRefs(s) /\ SameOwners(s, t)
    BY DEF Core, SameOwners
  <1>2. \A d \in Conns : Open(t, d) <=> Open(s, d)
    BY DEF Open
  <1>3. /\ t.expected = s.expected /\ t.expectTimers = s.expectTimers /\ t.lingers = s.lingers
        /\ t.queries = s.queries /\ t.freedStubs = s.freedStubs
    BY DEF SameWaits
  <1>4. Shrinks(s, t)
    BY <1>1, <1>2, <1>3 DEF Shrinks, Expecting
  <1>5. HandlerRefs(t)
    BY <1>1, <1>2, <1>3, HandlersSame
  <1>6. \A j \in Clients : Holders(s, j) \in Nat /\ Holders(t, j) \in Nat
    BY HoldersType
  <1>7. s.handler[c].obj = k /\ k # None
    BY Types DEF Serves
  <1>8. ASSUME NEW j \in Clients
        PROVE  Holders(t, j) = Holders(s, j) - (IF j = k THEN 1 ELSE 0)
    <2>1. /\ QueriesOf(t, j) = QueriesOf(s, j) /\ Cardinality(QueriesOf(s, j)) \in Nat
          /\ IsExpected(t, j) <=> IsExpected(s, j)
      BY <1>3, QueriesFinite DEF QueriesOf, IsExpected
    <2>2. CASE j = k
      <3>1. IsServed(s, j)
        BY <2>2 DEF IsServed
      <3>2. \A d \in Conns : Serves(s, d, k) => d = c
        <4>1. \A d \in Conns : Serves(s, d, k) => s.handler[d].obj = k
          BY DEF Serves
        <4> QED
          BY <1>1, <1>7, <4>1 DEF Owning
      <3>3. ~IsServed(t, j)
        BY <2>2, <3>2 DEF IsServed
      <3> QED
        BY <1>3, <2>1, <2>2, <3>1, <3>3 DEF Holders
    <2>3. CASE j # k
      <3>1. ~Serves(s, c, j)
        BY <1>7, <2>3 DEF Serves
      <3>2. IsServed(t, j) <=> IsServed(s, j)
        BY <3>1 DEF IsServed
      <3>3. Holders(t, j) = Holders(s, j)
        BY <1>3, <2>1, <3>2, HoldersSame
      <3> QED
        BY <1>6, <2>3, <3>3
    <2> QED
      BY <2>2, <2>3
  <1>9. ASSUME NEW d \in Conns, NEW j \in Clients, Open(t, d), t.handler[d].ignore, t.handler[d].obj = j
        PROVE  Holders(t, j) = 0
    <2>1. CASE s.handler[d].ignore
      <3>1. Holders(s, j) = 0
        BY <1>1, <1>2, <1>9, <2>1 DEF Owning
      <3> QED
        BY <1>6, <1>8, <3>1
    <2>2. CASE d = c /\ Holders(s, k) = 1
      <3>1. j = k
        BY <1>7, <1>9, <2>2
      <3> QED
        BY <1>8, <2>2, <3>1
    <2> QED
      BY <1>9, <2>1, <2>2
  <1> QED
    BY <1>1, <1>4, <1>5, <1>8, <1>9, CoreShrinks

\* A connection whose player has closed it
LEMMA CoreClosed ==
  ASSUME NEW s \in Memory, NEW pl, Core(s, pl, None), NEW c \in Conns, NEW k \in Clients, Serves(s, c, k),
         NEW t, DeadAt(s, c, t)
  PROVE  Core(t, pl, k)
  <1>1. /\ t \in Memory /\ SameWaits(s, t) /\ t.client = s.client /\ t.udp = s.udp
        /\ \A d \in Conns :
             /\ t.handler[d].refs = s.handler[d].refs /\ t.handler[d].obj = s.handler[d].obj
             /\ t.handler[d].ignore = s.handler[d].ignore
             /\ t.handler[d].dead = IF d = c THEN TRUE ELSE s.handler[d].dead
    BY DEF DeadAt
  <1>2. \A d \in Conns : Open(t, d) <=> Open(s, d)
    BY <1>1 DEF Open
  <1>3. \A d \in Conns, j \in Clients : Serves(t, d, j) <=> Serves(s, d, j) /\ d # c
    BY <1>1, <1>2 DEF Serves
  <1> QED
    BY <1>1, <1>3, CoreUnserved

\* The connection of a client that is replaced and that nothing else holds
LEMMA CoreReplaced ==
  ASSUME NEW s \in Memory, NEW pl, Core(s, pl, None), NEW c \in Conns, NEW k \in Clients, Serves(s, c, k),
         Holders(s, k) = 1, NEW t, IgnoredAt(s, c, t)
  PROVE  Core(t, pl, k)
  <1>1. /\ t \in Memory /\ SameWaits(s, t) /\ t.client = s.client /\ t.udp = s.udp
        /\ \A d \in Conns :
             /\ t.handler[d].refs = s.handler[d].refs /\ t.handler[d].obj = s.handler[d].obj
             /\ t.handler[d].dead = s.handler[d].dead
             /\ t.handler[d].ignore = IF d = c THEN TRUE ELSE s.handler[d].ignore
    BY DEF IgnoredAt
  <1>2. \A d \in Conns : Open(t, d) <=> Open(s, d)
    BY <1>1 DEF Open
  <1>3. \A d \in Conns, j \in Clients : Serves(t, d, j) <=> Serves(s, d, j) /\ d # c
    BY <1>1, <1>2 DEF Serves
  <1>4. \A d \in Conns : t.handler[d].ignore => s.handler[d].ignore \/ (d = c /\ Holders(s, k) = 1)
    BY <1>1
  <1>5. t \in Memory /\ SameWaits(s, t) /\ t.client = s.client /\ t.udp = s.udp
    BY Zenon, <1>1
  <1>6. \A d \in Conns : t.handler[d].refs = s.handler[d].refs /\ t.handler[d].obj = s.handler[d].obj
    BY Zenon, <1>1
  <1> QED
    BY <1>3, <1>4, <1>5, <1>6, CoreUnserved

\* A step of the socket that takes nothing from a client
LEMMA CoreSockets ==
  ASSUME NEW s \in Memory, NEW pl, Core(s, pl, None), NEW t \in Memory, SameOwners(s, t), HandlerRefs(t),
         t.expected = s.expected, t.expectTimers = s.expectTimers, t.lingers = s.lingers, t.queries = s.queries,
         \A c \in Conns : /\ t.handler[c].obj = s.handler[c].obj /\ (Open(t, c) => Open(s, c))
                          /\ t.handler[c].ignore /\ t.handler[c].obj # None => s.handler[c].ignore,
         \A c \in Conns, k \in Clients : Serves(t, c, k) <=> Serves(s, c, k)
  PROVE  Core(t, pl, None)
  <1>1. Expecting(s) /\ Owning(s, pl)
    BY DEF Core
  <1>2. Shrinks(s, t)
    BY <1>1 DEF Shrinks, Expecting
  <1>3. None \notin Clients
    BY Types
  <1>4. ASSUME NEW j \in Clients
        PROVE  Holders(t, j) = Holders(s, j) /\ Holders(s, j) \in Nat
    <2>1. IsServed(t, j) <=> IsServed(s, j)
      BY DEF IsServed
    <2>2. QueriesOf(t, j) = QueriesOf(s, j) /\ (IsExpected(t, j) <=> IsExpected(s, j))
      BY DEF QueriesOf, IsExpected
    <2> QED
      BY <2>1, <2>2, HoldersSame, HoldersType
  <1>5. \A j \in Clients : Holders(t, j) = Holders(s, j) - (IF j = None THEN 1 ELSE 0)
    BY <1>3, <1>4
  <1>6. \A c \in Conns, j \in Clients :
          Open(t, c) /\ t.handler[c].ignore /\ t.handler[c].obj = j => Holders(t, j) = 0
    BY <1>1, <1>3, <1>4 DEF Owning
  <1> QED
    BY <1>2, <1>5, <1>6, CoreShrinks

\* A stub whose packets are ignored
LEMMA CoreStub ==
  ASSUME NEW s \in Memory, NEW pl, Core(s, pl, None), NEW c \in Conns, s.handler[c].obj = None,
         NEW t, IgnoredAt(s, c, t)
  PROVE  Core(t, pl, None)
  <1>1. /\ t \in Memory /\ SameWaits(s, t) /\ t.client = s.client /\ t.udp = s.udp
        /\ \A d \in Conns :
             /\ t.handler[d].refs = s.handler[d].refs /\ t.handler[d].obj = s.handler[d].obj
             /\ t.handler[d].dead = s.handler[d].dead
             /\ t.handler[d].ignore = IF d = c THEN TRUE ELSE s.handler[d].ignore
    BY DEF IgnoredAt
  <1>2. \A d \in Conns : Open(t, d) <=> Open(s, d)
    BY <1>1 DEF Open
  <1>3. \A j \in Clients : j # None
    BY Types
  <1>4. \A d \in Conns, j \in Clients : Serves(t, d, j) <=> Serves(s, d, j)
    BY <1>1, <1>2, <1>3 DEF Serves
  <1>5. HandlerRefs(s) /\ SameOwners(s, t)
    BY <1>1 DEF Core, SameOwners
  <1>6. /\ t.expected = s.expected /\ t.expectTimers = s.expectTimers /\ t.lingers = s.lingers
        /\ t.queries = s.queries /\ t.freedStubs = s.freedStubs
    BY <1>1 DEF SameWaits
  <1>7. HandlerRefs(t)
    BY <1>1, <1>2, <1>5, <1>6, HandlersSame
  <1>8. \A d \in Conns : t.handler[d].ignore /\ t.handler[d].obj # None => s.handler[d].ignore
    BY <1>1
  <1> QED
    BY <1>1, <1>2, <1>4, <1>5, <1>6, <1>7, <1>8, CoreSockets

\* A dead connection leaves the socket.
LEMMA CoreDead ==
  ASSUME NEW s \in Memory, NEW pl, Core(s, pl, None), NEW i \in DOMAIN s.udp, s.handler[s.udp[i]].dead,
         NEW t, DeadRemoved(s, i, t)
  PROVE  Core(t, pl, None)
  <1> DEFINE c == s.udp[i]
  <1>0. c \in Conns /\ Open(s, c)
    BY ConnectedFacts DEF Open
  <1>1. /\ t \in Memory /\ SameWaits(s, t) /\ t.client = s.client
        /\ \A d \in Conns :
             /\ t.handler[d].obj = s.handler[d].obj /\ t.handler[d].dead = s.handler[d].dead
             /\ t.handler[d].ignore = s.handler[d].ignore
             /\ t.handler[d].refs = IF d = c THEN s.handler[d].refs - 1 ELSE s.handler[d].refs
             /\ Open(t, d) <=> Open(s, d) /\ d # c
    BY DEF DeadRemoved
  <1>2. s.handler[c].dead
    OBVIOUS
  <1> HIDE DEF c
  <1>3. \A d \in Conns, j \in Clients : Serves(t, d, j) <=> Serves(s, d, j)
    BY <1>1, <1>2 DEF Serves
  <1>4. HandlerRefs(s) /\ SameOwners(s, t)
    BY <1>1 DEF Core, SameOwners
  <1>5. /\ t.expected = s.expected /\ t.expectTimers = s.expectTimers /\ t.lingers = s.lingers
        /\ t.queries = s.queries /\ t.freedStubs = s.freedStubs
    BY <1>1 DEF SameWaits
  <1>6. HandlerRefs(t)
    <2>1. \A d \in Conns : s.handler[d].refs \in Int
      BY Types
    <2> QED
      BY <1>0, <1>1, <1>4, <1>5, <2>1 DEF HandlerRefs, SameOwners
  <1>7. \A d \in Conns : t.handler[d].ignore /\ t.handler[d].obj # None => s.handler[d].ignore
    BY <1>1
  <1> QED
    BY <1>1, <1>3, <1>4, <1>5, <1>6, <1>7, CoreSockets

\* What protocol_handler_drop does
HandlerDropped(s, c, t) ==
    /\ t \in Memory /\ SameLists(s, t) /\ SameWaits(s, t) /\ SameHandlers(s, t)
    /\ t.client = s.client /\ t.udp = s.udp
    /\ \A d \in Conns : t.handler[d].refs = IF d = c THEN s.handler[d].refs - 1 ELSE s.handler[d].refs

\* protocol_handler_drop
LEMMA HandlerIsDropped ==
  ASSUME NEW s \in Memory, NEW c, NEW t, t = HandlerDrop(s, c)
  PROVE  HandlerDropped(s, c, t)
  <1>1. /\ t \in Memory /\ SameLists(s, t) /\ SameWaits(s, t) /\ SameHandlers(s, t)
        /\ t.client = s.client /\ t.udp = s.udp
    BY HandlerDropIs
  <1>2. \A d \in Conns : t.handler[d].refs = IF d = c THEN s.handler[d].refs - 1 ELSE s.handler[d].refs
    BY HandlerDropIs
  <1> QED
    BY <1>1, <1>2 DEF HandlerDropped

\* A connection without a match: its stub is freed, and the handler loses a reference.
LEMMA CoreUnmatched ==
  ASSUME NEW s \in Memory, NEW pl, Core(s, pl, None), NEW c \in Conns, s.handler[c].obj = None,
         NEW t, t = HandlerDrop([s EXCEPT !.freedStubs = @ \cup {c}], c)
  PROVE  Core(t, pl, None)
  <1> DEFINE u == [s EXCEPT !.freedStubs = @ \cup {c}]
  <1>1. /\ u \in Memory /\ u.freedStubs = s.freedStubs \cup {c}
        /\ u.expected = s.expected /\ u.expectTimers = s.expectTimers /\ u.lingers = s.lingers
        /\ u.queries = s.queries /\ u.udp = s.udp /\ u.client = s.client /\ u.handler = s.handler
    BY StubFreed
  <1>2. t = HandlerDrop(u, c)
    OBVIOUS
  <1> HIDE DEF u
  <1>3. HandlerDropped(u, c, t)
    BY <1>1, <1>2, HandlerIsDropped
  <1>a. t \in Memory /\ SameWaits(u, t) /\ SameHandlers(u, t) /\ t.client = u.client /\ t.udp = u.udp
    BY <1>3 DEF HandlerDropped
  <1>b. \A d \in Conns : d # c => t.handler[d].refs = s.handler[d].refs
    BY <1>1, <1>3 DEF HandlerDropped
  <1>4. /\ t.expected = s.expected /\ t.expectTimers = s.expectTimers /\ t.lingers = s.lingers
        /\ t.queries = s.queries /\ t.freedStubs = s.freedStubs \cup {c}
    BY <1>1, <1>a DEF SameWaits
  <1>5. \A d \in Conns : /\ t.handler[d].obj = s.handler[d].obj /\ t.handler[d].dead = s.handler[d].dead
                         /\ t.handler[d].ignore = s.handler[d].ignore
                         /\ Open(t, d) <=> Open(s, d)
    BY <1>1, <1>a DEF SameHandlers, Open
  <1>6. \A d \in Conns, j \in Clients : Serves(t, d, j) <=> Serves(s, d, j)
    BY <1>5 DEF Serves
  <1>7. HandlerRefs(s) /\ Owning(s, pl) /\ SameOwners(s, t)
    BY <1>1, <1>a DEF Core, SameOwners
  <1>8. HandlerRefs(t)
    <2>1. \A j \in Clients : s.client[j].handler # c
      <3>1. \A j \in Clients : j # None /\ c # None
        BY Types
      <3> QED
        BY <1>7, <3>1 DEF Owning
    <2>2. SUFFICES ASSUME NEW d \in Conns
                   PROVE  /\ \A k \in Clients : t.client[k].refs > 0 /\ t.client[k].handler = d =>
                               t.handler[d].refs >= (IF Open(t, d) THEN 2 ELSE 1)
                          /\ Open(t, d) /\ t.handler[d].obj = None /\ d \notin t.freedStubs
                               => t.handler[d].refs >= 2
      BY DEF HandlerRefs
    <2>3. CASE d = c
      BY <1>4, <1>7, <2>1, <2>3 DEF SameOwners
    <2>4. CASE d # c
      <3>1. \A k \in Clients : t.client[k].refs = s.client[k].refs /\ t.client[k].handler = s.client[k].handler
        BY <1>7 DEF SameOwners
      <3>2. t.handler[d].refs = s.handler[d].refs /\ t.handler[d].obj = s.handler[d].obj
        BY <1>5, <1>b, <2>4
      <3>3. d \in t.freedStubs <=> d \in s.freedStubs
        BY <1>4, <2>4
      <3>4. Open(t, d) <=> Open(s, d)
        BY <1>5
      <3> QED
        BY <1>7, <3>1, <3>2, <3>3, <3>4 DEF HandlerRefs
    <2> QED
      BY <2>3, <2>4
  <1> QED
    BY <1>a, <1>4, <1>5, <1>6, <1>7, <1>8, CoreSockets

\* The connection c is matched with client k: the connection holds what the table held.
LEMMA CoreMatched ==
  ASSUME NEW s \in Memory, NEW pl, Core(s, pl, None), Known(s), NEW c \in Conns, NEW n \in Names,
         NEW k \in Clients, s.expected[n] = k, s.handler[c].obj = None, c \notin s.freedStubs,
         Open(s, c), ~s.handler[c].dead, ~s.handler[c].ignore, pl[c] # "away",
         NEW t, IsMatched(s, c, n, k, t)
  PROVE  Core(t, pl, None)
  <1>1. Loading(s) /\ Expecting(s) /\ Owning(s, pl) /\ HandlerRefs(s) /\ Counted(s, None)
    BY DEF Core
  <1>2. t \in Memory /\ k # None /\ c # None
    BY Types DEF IsMatched
  <1>3. /\ t.expectTimers = s.expectTimers /\ t.lingers = s.lingers /\ t.queries = s.queries
        /\ t.freedStubs = s.freedStubs \cup {c} /\ t.udp = s.udp
        /\ t.expected[n] = None /\ \A m \in Names : m # n => t.expected[m] = s.expected[m]
    BY DEF IsMatched
  <1>4. \A d \in Conns :
          /\ t.handler[d].refs = s.handler[d].refs /\ t.handler[d].dead = s.handler[d].dead
          /\ t.handler[d].ignore = s.handler[d].ignore
          /\ d # c => t.handler[d].obj = s.handler[d].obj
          /\ Open(t, d) <=> Open(s, d)
    BY DEF IsMatched, Open
  <1>5. t.handler[c].obj = k /\ t.client[k].handler = c
        /\ t.client[k].loaded = s.client[k].loaded \cup {"connection"}
    BY DEF IsMatched
  <1>6. \A j \in Clients :
          /\ t.client[j].name = s.client[j].name /\ t.client[j].refs = s.client[j].refs
          /\ t.client[j].linkdead = s.client[j].linkdead
          /\ j # k => t.client[j].handler = s.client[j].handler /\ t.client[j].loaded = s.client[j].loaded
          /\ Born(t, j) <=> Born(s, j)
    BY DEF IsMatched, Born
  <1>7. /\ k \in s.expectTimers /\ k \notin s.lingers /\ ~s.client[k].linkdead
        /\ \A d \in Conns : s.handler[d].obj # k
    BY <1>1, <1>2 DEF Expecting
  <1>8. s.client[k].name = n /\ Born(s, k) /\ \A m \in Names : m # n => s.expected[m] # k
    <2>1. s.client[k].name = n /\ \A m \in Names : s.expected[m] = k => s.client[k].name = m
      BY <1>2 DEF Known
    <2> QED
      BY <2>1, ZoneAssumption DEF Born
  <1>9. \A j \in Clients : s.client[j].handler # c
    <2>1. \A j \in Clients : j # None
      BY Types
    <2> QED
      BY <1>1, <1>2, <2>1 DEF Owning
  <1>10. \A d \in Conns, j \in Clients : j # k => (Serves(t, d, j) <=> Serves(s, d, j))
    <2>1. \A j \in Clients : j # None
      BY Types
    <2> QED
      BY <1>4, <1>5, <2>1 DEF Serves
  <1>11. Serves(t, c, k) /\ \A d \in Conns : Serves(t, d, k) => d = c
    BY <1>4, <1>5, <1>7 DEF Serves
  <1>12. ASSUME NEW j \in Clients
         PROVE  Holders(t, j) = Holders(s, j)
    <2>1. QueriesOf(t, j) = QueriesOf(s, j) /\ Cardinality(QueriesOf(s, j)) \in Nat
      BY <1>3, QueriesFinite DEF QueriesOf
    <2>2. CASE j = k
      <3>1. IsExpected(s, j) /\ ~IsExpected(t, j)
        BY <1>2, <1>3, <1>8, <2>2 DEF IsExpected
      <3>2. ~IsServed(s, j) /\ IsServed(t, j)
        BY <1>7, <1>11, <2>2 DEF IsServed, Serves
      <3> QED
        BY <1>3, <2>1, <3>1, <3>2 DEF Holders
    <2>3. CASE j # k
      <3>1. j # None
        BY Types
      <3>2. IsExpected(t, j) <=> IsExpected(s, j)
        BY <1>3, <2>3, <3>1 DEF IsExpected
      <3>3. IsServed(t, j) <=> IsServed(s, j)
        BY <1>10, <2>3 DEF IsServed
      <3> QED
        BY <1>3, <2>1, <3>2, <3>3, HoldersSame
    <2> QED
      BY <2>2, <2>3
  <1>13. Loading(t)
    <2>1. \A q \in s.queries : q[1] \in Clients /\ q[2] # "connection"
      BY QueriesFinite, ZoneAssumption
    <2>2. ASSUME NEW q \in t.queries
          PROVE  Born(t, q[1]) /\ q[2] \notin t.client[q[1]].loaded
      <3>1. q \in s.queries /\ q[1] \in Clients /\ q[2] # "connection" /\ Born(s, q[1])
            /\ q[2] \notin s.client[q[1]].loaded
        BY <1>1, <1>3, <2>1 DEF Loading
      <3>2. CASE q[1] = k
        BY <1>5, <1>6, <3>1, <3>2
      <3>3. CASE q[1] # k
        BY <1>6, <3>1, <3>3
      <3> QED
        BY <3>2, <3>3
    <2>3. ASSUME NEW j \in Clients, <<j, "stats">> \in t.queries
          PROVE  "skills" \notin t.client[j].loaded /\ <<j, "skills">> \notin t.queries
      <3>1. "skills" \notin s.client[j].loaded /\ <<j, "skills">> \notin s.queries
        BY <1>1, <1>3, <2>3 DEF Loading
      <3>2. CASE j = k
        BY <1>3, <1>5, <3>1, <3>2
      <3>3. CASE j # k
        BY <1>3, <1>6, <3>1, <3>3
      <3> QED
        BY <3>2, <3>3
    <2> QED
      BY <2>2, <2>3 DEF Loading
  <1>14. Expecting(t)
    <2>1. (\A j \in t.expectTimers : Born(t, j))
          /\ \A i, j \in t.expectTimers : t.client[i].name = t.client[j].name => i = j
      <3>1. t.expectTimers \subseteq Clients
        BY <1>2, Fields
      <3> QED
        BY <1>1, <1>3, <1>6, <3>1 DEF Expecting
    <2>2. ASSUME NEW m \in Names, t.expected[m] # None, NEW j, j = t.expected[m]
          PROVE  /\ j \in t.expectTimers /\ j \notin t.lingers
                 /\ t.client[j].handler = None /\ ~t.client[j].linkdead
                 /\ \A d \in Conns : t.handler[d].obj # j
      <3>1. m # n /\ j = s.expected[m] /\ j # None /\ j # k
        BY <1>3, <1>8, <2>2
      <3>2. j \in Clients
        BY <3>1, Types
      <3>3. /\ j \in s.expectTimers /\ j \notin s.lingers
            /\ s.client[j].handler = None /\ ~s.client[j].linkdead
            /\ \A d \in Conns : s.handler[d].obj # j
        BY <1>1, <3>1 DEF Expecting
      <3> QED
        BY <1>3, <1>4, <1>5, <1>6, <3>1, <3>2, <3>3
    <2> QED
      BY <2>1, <2>2 DEF Expecting
  <1>15. Owning(t, pl)
    <2>1. ASSUME NEW d \in Conns, NEW e \in Conns, t.handler[d].obj # None,
                 t.handler[d].obj = t.handler[e].obj
          PROVE  d = e
      <3>1. CASE d # c /\ e # c
        BY <1>1, <1>4, <2>1, <3>1 DEF Owning
      <3>2. CASE d = c \/ e = c
        BY <1>4, <1>5, <1>7, <2>1, <3>2
      <3> QED
        BY <3>1, <3>2
    <2>2. ASSUME NEW j \in Clients
          PROVE  /\ ~Born(t, j) => t.client[j].handler = None /\ t.client[j].refs = 0 /\ j \notin t.lingers
                 /\ t.client[j].handler # None => t.handler[t.client[j].handler].obj = j
                 /\ t.client[j].linkdead => t.client[j].handler = None
                 /\ j \in t.lingers => t.client[j].linkdead
      <3>1. CASE j = k
        BY <1>3, <1>5, <1>6, <1>7, <1>8, <3>1
      <3>2. CASE j # k
        <4>1. s.client[j].handler # c /\ s.client[j].handler \in Conns \cup {None}
          BY <1>9, Types
        <4> QED
          BY <1>1, <1>3, <1>4, <1>6, <3>2, <4>1 DEF Owning
      <3> QED
        BY <3>1, <3>2
    <2>3. ASSUME NEW d \in Conns, pl[d] = "away"
          PROVE  t.handler[d].obj = None
      BY <1>1, <1>4, <2>3 DEF Owning
    <2>4. ASSUME NEW d \in Conns, NEW j \in Clients, Serves(t, d, j)
          PROVE  t.client[j].handler = d
      <3>1. CASE j = k
        BY <1>5, <1>11, <2>4, <3>1
      <3>2. CASE j # k
        BY <1>1, <1>6, <1>10, <2>4, <3>2 DEF Owning
      <3> QED
        BY <3>1, <3>2
    <2>5. ASSUME NEW d \in Conns, NEW j \in Clients, Open(t, d), t.handler[d].ignore, t.handler[d].obj = j
          PROVE  Holders(t, j) = 0
      <3>1. d # c /\ Open(s, d) /\ s.handler[d].ignore /\ s.handler[d].obj = j
        BY <1>4, <2>5
      <3>2. Holders(s, j) = 0
        BY <1>1, <3>1 DEF Owning
      <3> QED
        BY <1>12, <3>2
    <2> QED
      BY <2>1, <2>2, <2>3, <2>4, <2>5 DEF Owning
  <1>16. HandlerRefs(t)
    <2>1. SUFFICES ASSUME NEW d \in Conns
                   PROVE  /\ \A j \in Clients : t.client[j].refs > 0 /\ t.client[j].handler = d =>
                               t.handler[d].refs >= (IF Open(t, d) THEN 2 ELSE 1)
                          /\ Open(t, d) /\ t.handler[d].obj = None /\ d \notin t.freedStubs
                               => t.handler[d].refs >= 2
      BY DEF HandlerRefs
    <2>2. CASE d = c
      <3>1. s.handler[c].refs >= 2
        BY <1>1 DEF HandlerRefs
      <3>2. t.handler[d].refs >= 2 /\ Open(t, d)
        BY <1>4, <2>2, <3>1
      <3> QED
        BY <3>2
    <2>3. CASE d # c
      <3>1. \A j \in Clients : t.client[j].handler = d =>
              s.client[j].handler = d /\ t.client[j].refs = s.client[j].refs
        BY <1>5, <1>6, <2>3
      <3>2. /\ t.handler[d].refs = s.handler[d].refs /\ t.handler[d].obj = s.handler[d].obj
            /\ Open(t, d) <=> Open(s, d)
        BY <1>4, <2>3
      <3>3. d \notin t.freedStubs => d \notin s.freedStubs
        BY <1>3
      <3> QED
        BY <1>1, <3>1, <3>2, <3>3 DEF HandlerRefs
    <2> QED
      BY <2>2, <2>3
  <1>17. Counted(t, None)
    BY <1>1, <1>6, <1>12 DEF Counted
  <1> QED
    BY <1>13, <1>14, <1>15, <1>16, <1>17 DEF Core

\* A new connection, which has neither client nor holder yet
LEMMA CoreConnected ==
  ASSUME NEW s \in Memory, NEW pl \in [Conns -> {"away", "here", "gone"}], Core(s, pl, None), NEW c \in Conns,
         s.handler[c].obj = None, NEW p, p = [pl EXCEPT ![c] = "here"],
         NEW t \in Memory, SameWaits(s, t), t.client = s.client,
         \A d \in Conns : d # c => t.handler[d] = s.handler[d] /\ (Open(t, d) <=> Open(s, d)),
         t.handler[c].refs = 2, t.handler[c].obj = None
  PROVE  Core(t, p, None)
  <1>1. Loading(s) /\ Expecting(s) /\ Owning(s, pl) /\ HandlerRefs(s) /\ Counted(s, None)
    BY DEF Core
  <1>2. /\ t.expected = s.expected /\ t.expectTimers = s.expectTimers /\ t.lingers = s.lingers
        /\ t.queries = s.queries /\ t.freedStubs = s.freedStubs
    BY DEF SameWaits
  <1>3. \A j \in Clients : j # None /\ s.client[j].handler # c
    <2>1. \A j \in Clients : j # None /\ c # None
      BY Types
    <2> QED
      BY <1>1, <2>1 DEF Owning
  <1>4. \A d \in Conns : t.handler[d].obj = s.handler[d].obj
    OBVIOUS
  <1>5. \A d \in Conns, j \in Clients : Serves(t, d, j) <=> Serves(s, d, j)
    BY <1>3, <1>4 DEF Serves
  <1>6. \A j \in Clients : Holders(t, j) = Holders(s, j)
    <2>1. SUFFICES ASSUME NEW j \in Clients PROVE Holders(t, j) = Holders(s, j)
      OBVIOUS
    <2>2. QueriesOf(t, j) = QueriesOf(s, j) /\ (IsExpected(t, j) <=> IsExpected(s, j))
      BY <1>2 DEF QueriesOf, IsExpected
    <2>3. IsServed(t, j) <=> IsServed(s, j)
      BY <1>5 DEF IsServed
    <2> QED
      BY <1>2, <2>2, <2>3, HoldersSame
  <1>7. Loading(t)
    BY <1>1, <1>2 DEF Loading, Born
  <1>8. Expecting(t)
    BY <1>1, <1>2, <1>4 DEF Expecting, Born
  <1>9. Owning(t, p)
    <2>1. \A k \in Clients :
            /\ ~Born(t, k) => t.client[k].handler = None /\ t.client[k].refs = 0 /\ k \notin t.lingers
            /\ t.client[k].handler # None => t.handler[t.client[k].handler].obj = k
            /\ t.client[k].linkdead => t.client[k].handler = None
            /\ k \in t.lingers => t.client[k].linkdead
      <3>1. \A k \in Clients : s.client[k].handler \in Conns \cup {None}
        BY Types
      <3> QED
        BY <1>1, <1>2, <1>4, <3>1 DEF Owning, Born
    <2>2. \A d, e \in Conns : t.handler[d].obj # None /\ t.handler[d].obj = t.handler[e].obj => d = e
      BY <1>1, <1>4 DEF Owning
    <2>3. ASSUME NEW d \in Conns
          PROVE  p[d] = "away" => t.handler[d].obj = None
      BY <1>1, <1>4 DEF Owning
    <2>4. ASSUME NEW d \in Conns, NEW j \in Clients
          PROVE  /\ Serves(t, d, j) => t.client[j].handler = d
                 /\ Open(t, d) /\ t.handler[d].ignore /\ t.handler[d].obj = j => Holders(t, j) = 0
      <3>1. CASE d = c
        BY <1>1, <1>3, <1>5, <3>1 DEF Owning
      <3>2. CASE d # c
        BY <1>1, <1>5, <1>6, <3>2 DEF Owning
      <3> QED
        BY <3>1, <3>2
    <2> QED
      BY <2>1, <2>2, <2>3, <2>4 DEF Owning
  <1>10. HandlerRefs(t)
    <2>1. SUFFICES ASSUME NEW d \in Conns
                   PROVE  /\ \A j \in Clients : t.client[j].refs > 0 /\ t.client[j].handler = d =>
                               t.handler[d].refs >= (IF Open(t, d) THEN 2 ELSE 1)
                          /\ Open(t, d) /\ t.handler[d].obj = None /\ d \notin t.freedStubs
                               => t.handler[d].refs >= 2
      BY DEF HandlerRefs
    <2>2. CASE d = c
      BY <1>3, <2>2
    <2>3. CASE d # c
      BY <1>1, <1>2, <2>3 DEF HandlerRefs
    <2> QED
      BY <2>2, <2>3
  <1>11. Counted(t, None)
    BY <1>1, <1>6 DEF Counted, Born
  <1> QED
    BY <1>7, <1>8, <1>9, <1>10, <1>11 DEF Core

\* One query for the stats and one for each table
LEMMA QueriesCreated ==
  ASSUME NEW k
  PROVE  Cardinality({k} \X (Tables \cup {"stats"})) = Cardinality(Tables) + 1
  <1>1. IsFiniteSet(Tables) /\ "stats" \notin Tables
    BY ZoneAssumption
  <1>2. IsFiniteSet(Tables \cup {"stats"}) /\ Cardinality(Tables \cup {"stats"}) = Cardinality(Tables) + 1
    BY <1>1, FS_AddElement
  <1>3. IsFiniteSet({k}) /\ Cardinality({k}) = 1
    BY FS_Singleton
  <1>4. Cardinality({k} \X (Tables \cup {"stats"})) = Cardinality({k}) * Cardinality(Tables \cup {"stats"})
    BY <1>2, <1>3, FS_Product
  <1>5. Cardinality(Tables) \in Nat
    BY <1>1, FS_CardinalityType
  <1> QED
    BY <1>2, <1>3, <1>4, <1>5

\* client_create takes a reference for each query and one for the table of expected clients.
LEMMA CoreAnnounced ==
  ASSUME NEW s \in Memory, NEW pl, Core(s, pl, None), Known(s), NEW n \in Names, NEW k \in Clients, ~Born(s, k), NEW z,
         \A j \in s.expectTimers : s.client[j].name # n, NEW t, Announced(s, n, z, k, t)
  PROVE  Core(t, pl, None)
  <1> DEFINE Q == {k} \X (Tables \cup {"stats"})
  <1>1. Loading(s) /\ Expecting(s) /\ Owning(s, pl) /\ HandlerRefs(s) /\ Counted(s, None)
    BY DEF Core
  <1>2. /\ t \in Memory /\ t.udp = s.udp /\ t.handler = s.handler /\ t.lingers = s.lingers
        /\ t.freedStubs = s.freedStubs /\ t.expectTimers = s.expectTimers \cup {k}
        /\ t.queries = s.queries \cup Q
        /\ t.expected[n] = k /\ \A m \in Names : m # n => t.expected[m] = s.expected[m]
    BY DEF Announced
  <1>3. /\ t.client[k].name = n /\ t.client[k].refs = 2 + Cardinality(Tables)
        /\ t.client[k].handler = None /\ t.client[k].loaded = {} /\ ~t.client[k].linkdead
        /\ \A j \in Clients : j # k => t.client[j] = s.client[j]
    BY DEF Announced
  <1>q. \A q \in Q : q[1] = k /\ q[2] \in Tables \cup {"stats"} /\ q[2] # "skills"
    BY ZoneAssumption
  <1>c. Cardinality(Q) = Cardinality(Tables) + 1 /\ Cardinality(Tables) \in Nat
    BY QueriesCreated, FS_CardinalityType, ZoneAssumption
  <1> HIDE DEF Q
  <1>4. n # None /\ Born(t, k) /\ \A j \in Clients : j # None /\ (j # k => (Born(t, j) <=> Born(s, j)))
    BY <1>3, ZoneAssumption, Types DEF Born
  <1>5. s.expected[n] = None
    BY <1>1 DEF Known, Expecting
  <1>6. /\ \A q \in s.queries : q[1] # k
        /\ \A m \in Names : s.expected[m] # k
        /\ k \notin s.expectTimers /\ k \notin s.lingers
        /\ \A d \in Conns : s.handler[d].obj # k
    <2>1. \A q \in s.queries : q[1] # k
      BY <1>1 DEF Loading
    <2>2. k \notin s.expectTimers /\ k \notin s.lingers
      BY <1>1 DEF Expecting, Owning
    <2>3. \A m \in Names : s.expected[m] # k
      BY <1>1, <1>4, <2>2 DEF Expecting
    <2>4. \A d \in Conns : s.handler[d].obj # k
      BY <1>4 DEF Known
    <2> QED
      BY <2>1, <2>2, <2>3, <2>4
  <1>7. \A d \in Conns : Open(t, d) <=> Open(s, d)
    BY <1>2 DEF Open
  <1>8. \A d \in Conns, j \in Clients : Serves(t, d, j) <=> Serves(s, d, j)
    BY <1>2, <1>7 DEF Serves
  <1>9. \A j \in Clients : j # k => Holders(t, j) = Holders(s, j)
    <2>1. SUFFICES ASSUME NEW j \in Clients, j # k PROVE Holders(t, j) = Holders(s, j)
      OBVIOUS
    <2>2. QueriesOf(t, j) = QueriesOf(s, j)
      BY <1>2, <1>q, <2>1 DEF QueriesOf
    <2>3. IsExpected(t, j) <=> IsExpected(s, j)
      BY <1>2, <1>4, <1>5, <2>1 DEF IsExpected
    <2>4. IsServed(t, j) <=> IsServed(s, j)
      BY <1>8 DEF IsServed
    <2> QED
      BY <1>2, <2>2, <2>3, <2>4, HoldersSame
  <1>10. Holders(t, k) = 2 + Cardinality(Tables)
    <2>1. QueriesOf(t, k) = Q
      BY <1>2, <1>6, <1>q DEF QueriesOf
    <2>2. IsExpected(t, k)
      BY <1>2 DEF IsExpected
    <2>3. ~IsServed(t, k)
      BY <1>2, <1>6 DEF IsServed, Serves
    <2> QED
      BY <1>2, <1>6, <1>c, <2>1, <2>2, <2>3 DEF Holders
  <1>11. Loading(t)
    <2>1. ASSUME NEW q \in t.queries
          PROVE  Born(t, q[1]) /\ q[2] \notin t.client[q[1]].loaded
      <3>1. CASE q \in Q
        BY <1>3, <1>4, <1>q, <3>1
      <3>2. CASE q \in s.queries
        <4>1. q[1] \in Clients /\ q[1] # k
          BY <1>6, <3>2, QueriesFinite
        <4> QED
          BY <1>1, <1>3, <1>4, <3>2, <4>1 DEF Loading
      <3> QED
        BY <1>2, <3>1, <3>2
    <2>2. ASSUME NEW j \in Clients, <<j, "stats">> \in t.queries
          PROVE  "skills" \notin t.client[j].loaded /\ <<j, "skills">> \notin t.queries
      <3>1. <<j, "skills">> \notin Q
        BY <1>q
      <3>2. CASE j = k
        BY <1>2, <1>3, <1>6, <3>1, <3>2
      <3>3. CASE j # k
        <4>1. <<j, "stats">> \in s.queries
          BY <1>2, <1>q, <2>2, <3>3
        <4> QED
          BY <1>1, <1>2, <1>3, <3>1, <3>3, <4>1 DEF Loading
      <3> QED
        BY <3>2, <3>3
    <2> QED
      BY <2>1, <2>2 DEF Loading
  <1>12. Expecting(t)
    <2>1. \A j \in t.expectTimers : j = k \/ (j \in s.expectTimers /\ j \in Clients /\ j # k)
      BY <1>2, <1>6, Fields
    <2>2. \A j \in t.expectTimers : Born(t, j)
      BY <1>1, <1>4, <2>1 DEF Expecting
    <2>3. ASSUME NEW i \in t.expectTimers, NEW j \in t.expectTimers, t.client[i].name = t.client[j].name
          PROVE  i = j
      <3>1. CASE i # k /\ j # k
        BY <1>1, <1>3, <2>1, <2>3, <3>1 DEF Expecting
      <3>2. CASE i = k \/ j = k
        BY <1>3, <2>1, <2>3, <3>2
      <3> QED
        BY <3>1, <3>2
    <2>4. ASSUME NEW m \in Names, t.expected[m] # None, NEW j, j = t.expected[m]
          PROVE  /\ j \in t.expectTimers /\ j \notin t.lingers
                 /\ t.client[j].handler = None /\ ~t.client[j].linkdead
                 /\ \A d \in Conns : t.handler[d].obj # j
      <3>1. CASE m = n
        BY <1>2, <1>3, <1>6, <2>4, <3>1
      <3>2. CASE m # n
        <4>1. j = s.expected[m] /\ j # k /\ j # None
          BY <1>2, <1>6, <2>4, <3>2
        <4>2. j \in Clients
          BY <4>1, Types
        <4> QED
          BY <1>1, <1>2, <1>3, <4>1, <4>2 DEF Expecting
      <3> QED
        BY <3>1, <3>2
    <2> QED
      BY <2>2, <2>3, <2>4 DEF Expecting
  <1>13. Owning(t, pl)
    <2>1. \A d, e \in Conns : t.handler[d].obj # None /\ t.handler[d].obj = t.handler[e].obj => d = e
      BY <1>1, <1>2 DEF Owning
    <2>2. ASSUME NEW j \in Clients
          PROVE  /\ ~Born(t, j) => t.client[j].handler = None /\ t.client[j].refs = 0 /\ j \notin t.lingers
                 /\ t.client[j].handler # None => t.handler[t.client[j].handler].obj = j
                 /\ t.client[j].linkdead => t.client[j].handler = None
                 /\ j \in t.lingers => t.client[j].linkdead
      <3>1. CASE j = k
        BY <1>2, <1>3, <1>4, <1>6, <3>1
      <3>2. CASE j # k
        BY <1>1, <1>2, <1>3, <1>4, <3>2 DEF Owning
      <3> QED
        BY <3>1, <3>2
    <2>3. ASSUME NEW d \in Conns
          PROVE  pl[d] = "away" => t.handler[d].obj = None
      BY <1>1, <1>2 DEF Owning
    <2>4. ASSUME NEW d \in Conns, NEW j \in Clients
          PROVE  /\ Serves(t, d, j) => t.client[j].handler = d
                 /\ Open(t, d) /\ t.handler[d].ignore /\ t.handler[d].obj = j => Holders(t, j) = 0
      <3>1. CASE j = k
        BY <1>2, <1>6, <3>1 DEF Serves
      <3>2. CASE j # k
        BY <1>1, <1>2, <1>3, <1>7, <1>8, <1>9, <3>2 DEF Owning
      <3> QED
        BY <3>1, <3>2
    <2> QED
      BY <2>1, <2>2, <2>3, <2>4 DEF Owning
  <1>14. HandlerRefs(t)
    <2>1. \A d \in Conns : d # None
      BY Types
    <2>2. \A d \in Conns, j \in Clients : t.client[j].handler = d => j # k /\ t.client[j] = s.client[j]
      BY <1>3, <2>1
    <2> QED
      BY <1>1, <1>2, <1>7, <2>2 DEF HandlerRefs
  <1>15. Counted(t, None)
    <2>1. SUFFICES ASSUME NEW j \in Clients, Born(t, j)
                   PROVE  t.client[j].refs = Holders(t, j) + (IF j = None THEN 1 ELSE 0)
      BY DEF Counted
    <2>2. CASE j = k
      BY <1>3, <1>4, <1>10, <1>c, <2>2
    <2>3. CASE j # k
      BY <1>1, <1>3, <1>4, <1>9, <2>1, <2>3 DEF Counted
    <2> QED
      BY <2>2, <2>3
  <1> QED
    BY <1>11, <1>12, <1>13, <1>14, <1>15 DEF Core

\* The sweep takes the connection c of client k out of the socket, and the client goes
\* linkdead: the linger timer holds what the connection held.
Died(s, c, k, t) ==
    /\ t \in Memory /\ t.byName = s.byName
    /\ t.expected = s.expected /\ t.expectTimers = s.expectTimers /\ t.lingers = s.lingers \cup {k}
    /\ t.queries = s.queries /\ t.freedStubs = s.freedStubs
    /\ \A d \in Conns : /\ t.handler[d].obj = s.handler[d].obj
                        /\ t.handler[d].dead = s.handler[d].dead /\ t.handler[d].ignore = s.handler[d].ignore
                        /\ d # c => t.handler[d].refs = s.handler[d].refs
                        /\ Open(t, d) <=> Open(s, d) /\ d # c
    /\ t.client[k].handler = None /\ t.client[k].linkdead
    /\ \A j \in Clients :
         /\ t.client[j].name = s.client[j].name /\ t.client[j].zone = s.client[j].zone
         /\ t.client[j].index = s.client[j].index /\ t.client[j].loaded = s.client[j].loaded
         /\ t.client[j].refs = s.client[j].refs
         /\ j # k => t.client[j].handler = s.client[j].handler /\ t.client[j].linkdead = s.client[j].linkdead
    /\ DOMAIN t.connected = DOMAIN s.connected
    /\ \A i \in DOMAIN s.connected :
         /\ t.connected[i].client = s.connected[i].client
         /\ t.connected[i].handler = IF s.connected[i].client = k THEN None ELSE s.connected[i].handler
    /\ \A y \in s.zoneList : \A i \in DOMAIN s.zone[y].list :
         t.zone[y].list[i].linkdead = IF y = s.client[k].zone /\ i = s.client[k].index
                                        THEN TRUE ELSE s.zone[y].list[i].linkdead

\* The connection of a client that is not freed serves it, unless it is dead.
LEMMA IsServing ==
  ASSUME NEW s \in Memory, NEW pl, Core(s, pl, None), NEW c \in Conns, NEW k \in Clients, Born(s, k),
         Open(s, c), s.handler[c].obj = k, ~s.handler[c].dead, ~Freed(s, k)
  PROVE  Serves(s, c, k) /\ s.client[k].handler = c /\ s.client[k].refs > 0
  <1>1. Owning(s, pl) /\ Counted(s, None)
    BY DEF Core
  <1>2. k # None /\ Holders(s, k) \in Nat
    BY HoldersType, Types
  <1>3. s.client[k].refs = Holders(s, k)
    BY <1>1, <1>2 DEF Counted
  <1>4. s.client[k].refs > 0
    BY <1>2, <1>3 DEF Freed, Born
  <1>5. ~s.handler[c].ignore
    BY <1>1, <1>3, <1>4 DEF Owning
  <1>6. Serves(s, c, k)
    BY <1>5 DEF Serves
  <1> QED
    BY <1>1, <1>4, <1>6 DEF Owning

\* What client_on_disconnect of a linkdead client and udp_socket_handle_dead_client come to
LEMMA DiedIs ==
  ASSUME NEW s, NEW pl, Sound(s, pl), NEW i \in DOMAIN s.udp, NEW c \in Conns, c = s.udp[i],
         NEW k \in Clients, s.client[k].handler = c, s.client[k].refs > 0,
         NEW u, WentLinkdead(s, k, u), NEW v, v = Drop(u, k), NEW t, t = HandleDeadClient(v, i)
  PROVE  Died(s, c, k, t)
  <1>1. s \in Memory /\ Sockets(s, pl)
    BY DEF Sound
  <1>2. u \in Memory /\ u.udp = s.udp /\ SameHandlers(s, u)
    BY DEF WentLinkdead
  <1>3. /\ v \in Memory /\ SameLists(u, v) /\ SameWaits(u, v) /\ SameHandlers(u, v) /\ SameClients(u, v)
        /\ v.udp = u.udp
    BY <1>2, DropIs
  <1>4. \A j \in Clients : v.client[j].refs = IF j = k THEN u.client[j].refs - 1 ELSE u.client[j].refs
    BY <1>2, DropIs
  <1>5. u.client[k].handler = None /\ u.client[k].linkdead = TRUE
    BY DEF WentLinkdead
  <1>6. \A d \in Conns : v.handler[d].refs = u.handler[d].refs
    <2>1. \A d \in Conns : d # u.client[k].handler
      BY <1>5, Types, <1>2
    <2> QED
      BY <1>2, <2>1, DropIs
  <1>7. \A j \in DOMAIN v.udp : v.handler[v.udp[j]].index = j
    <2>1. \A j \in DOMAIN s.udp : s.udp[j] \in Conns
      BY <1>1, ConnectedFacts
    <2> QED
      BY <1>1, <1>2, <1>3, <2>1 DEF Sockets, SameHandlers
  <1>8. DeadRemoved(v, i, t)
    BY <1>2, <1>3, <1>7, HandleDeadClientIs
  <1>9. /\ t \in Memory /\ SameLists(v, t) /\ SameWaits(v, t) /\ t.client = v.client
        /\ \A d \in Conns :
             /\ t.handler[d].obj = v.handler[d].obj /\ t.handler[d].dead = v.handler[d].dead
             /\ t.handler[d].ignore = v.handler[d].ignore
             /\ d # c => t.handler[d].refs = v.handler[d].refs
             /\ Open(t, d) <=> Open(v, d) /\ d # c
    BY <1>2, <1>3, <1>8 DEF DeadRemoved
  <1>10. /\ t.byName = s.byName
         /\ t.expected = s.expected /\ t.expectTimers = s.expectTimers /\ t.lingers = s.lingers \cup {k}
         /\ t.queries = s.queries /\ t.freedStubs = s.freedStubs
    BY <1>3, <1>9 DEF WentLinkdead, SameLists, SameWaits
  <1>11. \A d \in Conns : /\ t.handler[d].obj = s.handler[d].obj
                          /\ t.handler[d].dead = s.handler[d].dead /\ t.handler[d].ignore = s.handler[d].ignore
                          /\ Open(t, d) <=> Open(s, d) /\ d # c
    BY <1>2, <1>3, <1>9 DEF SameHandlers, Open
  <1>12. \A d \in Conns : d # c => t.handler[d].refs = s.handler[d].refs
    <2>1. \A d \in Conns : d # c => u.handler[d].refs = s.handler[d].refs
      BY DEF WentLinkdead
    <2> QED
      BY <1>6, <1>9, <2>1
  <1>13. t.client[k].handler = None /\ t.client[k].linkdead
    BY <1>3, <1>5, <1>9 DEF SameClients
  <1>14. ASSUME NEW j \in Clients
         PROVE  /\ t.client[j].name = s.client[j].name /\ t.client[j].zone = s.client[j].zone
                /\ t.client[j].index = s.client[j].index /\ t.client[j].loaded = s.client[j].loaded
                /\ t.client[j].refs = s.client[j].refs
                /\ j # k => t.client[j].handler = s.client[j].handler /\ t.client[j].linkdead = s.client[j].linkdead
    <2>1. /\ u.client[j].name = s.client[j].name /\ u.client[j].zone = s.client[j].zone
          /\ u.client[j].index = s.client[j].index /\ u.client[j].loaded = s.client[j].loaded
          /\ u.client[j].refs = IF j = k THEN s.client[j].refs + 1 ELSE s.client[j].refs
          /\ j # k => u.client[j].handler = s.client[j].handler /\ u.client[j].linkdead = s.client[j].linkdead
      BY DEF WentLinkdead
    <2>2. s.client[j].refs \in Int
      BY <1>1, Types
    <2>3. v.client[j].refs = s.client[j].refs
      BY <1>4, <2>1, <2>2
    <2> QED
      BY <1>3, <1>9, <2>1, <2>3 DEF SameClients
  <1>15. /\ DOMAIN t.connected = DOMAIN s.connected
         /\ \A e \in DOMAIN s.connected :
              /\ t.connected[e].client = s.connected[e].client
              /\ t.connected[e].handler = IF s.connected[e].client = k THEN None ELSE s.connected[e].handler
    BY <1>3, <1>9 DEF WentLinkdead, SameLists
  <1>16. \A y \in s.zoneList : \A e \in DOMAIN s.zone[y].list :
           t.zone[y].list[e].linkdead = IF y = s.client[k].zone /\ e = s.client[k].index
                                          THEN TRUE ELSE s.zone[y].list[e].linkdead
    <2>1. t.zone = u.zone
      BY <1>3, <1>9 DEF SameLists
    <2> SUFFICES ASSUME NEW y \in s.zoneList, NEW e \in DOMAIN s.zone[y].list
                 PROVE  u.zone[y].list[e].linkdead = IF y = s.client[k].zone /\ e = s.client[k].index
                                                       THEN TRUE ELSE s.zone[y].list[e].linkdead
      BY Zenon, <2>1
    <2>2. \A n \in DOMAIN s.zone[y].list :
            /\ u.zone[y].list[n].client = s.zone[y].list[n].client
            /\ u.zone[y].list[n].linkdead = IF y = s.client[k].zone /\ n = s.client[k].index
                                              THEN TRUE ELSE s.zone[y].list[n].linkdead
      BY Zenon DEF WentLinkdead
    <2> QED
      BY Zenon, <2>2
  <1> QED
    BY <1>9, <1>10, <1>11, <1>12, <1>13, <1>14, <1>15, <1>16 DEF Died

\* Linkdeath keeps the references exact.
LEMMA CoreDied ==
  ASSUME NEW s \in Memory, NEW pl, Core(s, pl, None), NEW c \in Conns, NEW k \in Clients, Born(s, k),
         Serves(s, c, k), NEW t, Died(s, c, k, t)
  PROVE  Core(t, pl, None)
  <1>1. Loading(s) /\ Expecting(s) /\ Owning(s, pl) /\ HandlerRefs(s) /\ Counted(s, None)
    BY DEF Core
  <1>2. /\ t \in Memory
        /\ t.expected = s.expected /\ t.expectTimers = s.expectTimers /\ t.lingers = s.lingers \cup {k}
        /\ t.queries = s.queries /\ t.freedStubs = s.freedStubs
    BY DEF Died
  <1>3. \A d \in Conns : /\ t.handler[d].obj = s.handler[d].obj
                         /\ t.handler[d].dead = s.handler[d].dead /\ t.handler[d].ignore = s.handler[d].ignore
                         /\ d # c => t.handler[d].refs = s.handler[d].refs
                         /\ Open(t, d) <=> Open(s, d) /\ d # c
    BY DEF Died
  <1>4. /\ t.client[k].handler = None /\ t.client[k].linkdead
        /\ \A j \in Clients :
             /\ t.client[j].name = s.client[j].name /\ t.client[j].loaded = s.client[j].loaded
             /\ t.client[j].refs = s.client[j].refs /\ (Born(t, j) <=> Born(s, j))
             /\ j # k => t.client[j].handler = s.client[j].handler /\ t.client[j].linkdead = s.client[j].linkdead
    BY DEF Died, Born
  <1>5. s.handler[c].obj = k /\ s.client[k].handler = c /\ \A j \in Clients : j # None /\ c # None
    BY <1>1, Types DEF Owning, Serves
  <1>6. k \notin s.lingers
    BY <1>1, <1>5 DEF Owning
  <1>7. \A d \in Conns, j \in Clients : Serves(t, d, j) <=> Serves(s, d, j) /\ d # c
    BY <1>3 DEF Serves
  <1>8. \A d \in Conns : d # c => s.handler[d].obj # k
    BY <1>1, <1>5 DEF Owning
  <1>9. ASSUME NEW j \in Clients
        PROVE  Holders(t, j) = Holders(s, j)
    <2>1. QueriesOf(t, j) = QueriesOf(s, j) /\ Cardinality(QueriesOf(s, j)) \in Nat
          /\ (IsExpected(t, j) <=> IsExpected(s, j))
      BY <1>2, QueriesFinite DEF QueriesOf, IsExpected
    <2>2. CASE j = k
      <3>1. IsServed(s, j)
        BY <2>2 DEF IsServed
      <3>2. ~IsServed(t, j)
        BY <1>3, <1>7, <1>8, <2>2 DEF IsServed, Serves
      <3> QED
        BY <1>2, <1>6, <2>1, <2>2, <3>1, <3>2 DEF Holders
    <2>3. CASE j # k
      <3>1. IsServed(t, j) <=> IsServed(s, j)
        <4>1. ~Serves(s, c, j)
          BY <1>5, <2>3 DEF Serves
        <4> QED
          BY <1>7, <4>1 DEF IsServed
      <3> QED
        BY <1>2, <2>1, <2>3, <3>1, HoldersSame
    <2> QED
      BY <2>2, <2>3
  <1>10. Loading(t)
    <2>1. \A q \in s.queries : q[1] \in Clients
      BY QueriesFinite
    <2> QED
      BY <1>1, <1>2, <1>4, <2>1 DEF Loading
  <1>11. Expecting(t)
    <2>1. s.expectTimers \subseteq Clients
      BY Fields
    <2>2. ASSUME NEW m \in Names, t.expected[m] # None, NEW j, j = t.expected[m]
          PROVE  /\ j \in t.expectTimers /\ j \notin t.lingers
                 /\ t.client[j].handler = None /\ ~t.client[j].linkdead
                 /\ \A d \in Conns : t.handler[d].obj # j
      <3>1. j = s.expected[m] /\ j \in Clients /\ j # None
        BY <1>2, <2>2, Types
      <3>2. /\ j \in s.expectTimers /\ j \notin s.lingers
            /\ s.client[j].handler = None /\ ~s.client[j].linkdead
            /\ \A d \in Conns : s.handler[d].obj # j
        BY <1>1, <3>1 DEF Expecting
      <3>3. j # k
        BY <1>5, <3>2
      <3> QED
        BY <1>2, <1>3, <1>4, <3>1, <3>2, <3>3
    <2>3. (\A j \in t.expectTimers : Born(t, j))
          /\ \A i, j \in t.expectTimers : t.client[i].name = t.client[j].name => i = j
      BY <1>1, <1>2, <1>4, <2>1 DEF Expecting
    <2> QED
      BY <2>2, <2>3 DEF Expecting
  <1>12. Owning(t, pl)
    <2>1. \A d, e \in Conns : t.handler[d].obj # None /\ t.handler[d].obj = t.handler[e].obj => d = e
      BY <1>1, <1>3 DEF Owning
    <2>2. ASSUME NEW j \in Clients
          PROVE  /\ ~Born(t, j) => t.client[j].handler = None /\ t.client[j].refs = 0 /\ j \notin t.lingers
                 /\ t.client[j].handler # None => t.handler[t.client[j].handler].obj = j
                 /\ t.client[j].linkdead => t.client[j].handler = None
                 /\ j \in t.lingers => t.client[j].linkdead
      <3>1. CASE j = k
        BY <1>4, <3>1
      <3>2. CASE j # k
        <4>1. s.client[j].handler \in Conns \cup {None}
          BY Types
        <4> QED
          BY <1>1, <1>2, <1>3, <1>4, <3>2, <4>1 DEF Owning
      <3> QED
        BY <3>1, <3>2
    <2>3. ASSUME NEW d \in Conns
          PROVE  pl[d] = "away" => t.handler[d].obj = None
      BY <1>1, <1>3 DEF Owning
    <2>4. ASSUME NEW d \in Conns, NEW j \in Clients
          PROVE  /\ Serves(t, d, j) => t.client[j].handler = d
                 /\ Open(t, d) /\ t.handler[d].ignore /\ t.handler[d].obj = j => Holders(t, j) = 0
      <3>1. CASE j = k
        BY <1>3, <1>8, <3>1 DEF Serves
      <3>2. CASE j # k
        BY <1>1, <1>3, <1>4, <1>7, <1>9, <3>2 DEF Owning
      <3> QED
        BY <3>1, <3>2
    <2> QED
      BY <2>1, <2>2, <2>3, <2>4 DEF Owning
  <1>13. HandlerRefs(t)
    <2>1. SUFFICES ASSUME NEW d \in Conns
                   PROVE  /\ \A j \in Clients : t.client[j].refs > 0 /\ t.client[j].handler = d =>
                               t.handler[d].refs >= (IF Open(t, d) THEN 2 ELSE 1)
                          /\ Open(t, d) /\ t.handler[d].obj = None /\ d \notin t.freedStubs
                               => t.handler[d].refs >= 2
      BY DEF HandlerRefs
    <2>2. \A j \in Clients : t.client[j].handler = d => j # k /\ d # c /\ s.client[j].handler = d
      <3>1. d # None
        BY Types
      <3>2. \A j \in Clients : j # k => s.client[j].handler # c
        BY <1>1, <1>5 DEF Owning
      <3> QED
        BY <1>4, <3>1, <3>2
    <2>3. CASE d = c
      BY <1>3, <2>2, <2>3
    <2>4. CASE d # c
      BY <1>1, <1>2, <1>3, <1>4, <2>2, <2>4 DEF HandlerRefs
    <2> QED
      BY <2>3, <2>4
  <1>14. Counted(t, None)
    BY <1>1, <1>4, <1>9 DEF Counted
  <1> QED
    BY <1>10, <1>11, <1>12, <1>13, <1>14 DEF Core

-----------------------------------------------------------------------------
(* The listings *)

\* What a listed client needs to stay held
StaysHeld(s, j, t) ==
    /\ t.client[j].loaded = s.client[j].loaded /\ t.client[j].linkdead = s.client[j].linkdead
    /\ t.client[j].handler = s.client[j].handler
    /\ j \in s.lingers => j \in t.lingers
    /\ ListingOf(s, j).linkdead => ListingOf(t, j).linkdead
    /\ \A c \in Conns : Serves(s, c, j) => Serves(t, c, j)

\* A listed client is held.
LEMMA ListedIsHeld ==
  ASSUME NEW s, NEW o, Listings(s, o), NEW j, IsListed(s, j), j # o
  PROVE  Held(s, j)
  BY DEF Listings, IsListed

\* The listings that are left are those of clients that stay held.
LEMMA ListingsKept ==
  ASSUME NEW s, NEW o, Listings(s, o), NEW t \in Memory, NEW p,
         \A i \in DOMAIN t.connected : t.connected[i].client # p =>
           \E f \in DOMAIN s.connected : t.connected[i] = s.connected[f] /\ s.connected[f].client # o,
         \A j \in Clients : IsListed(t, j) /\ j # p => StaysHeld(s, j, t)
  PROVE  Listings(t, p)
  <1>1. SUFFICES ASSUME NEW i \in DOMAIN t.connected, NEW j, j = t.connected[i].client, j # p
                 PROVE  Held(t, j) /\ t.connected[i].handler \in {None, t.client[j].handler}
    BY DEF Listings
  <1>2. j \in Clients /\ IsListed(t, j)
    BY <1>1, ConnectedFacts DEF IsListed
  <1>3. PICK f \in DOMAIN s.connected : t.connected[i] = s.connected[f] /\ s.connected[f].client # o
    BY <1>1
  <1>4. Held(s, j) /\ s.connected[f].handler \in {None, s.client[j].handler}
    BY <1>1, <1>3 DEF Listings
  <1>5. StaysHeld(s, j, t)
    BY <1>1, <1>2
  <1>6. Held(t, j)
    BY <1>4, <1>5 DEF Held, StaysHeld
  <1> QED
    BY <1>1, <1>3, <1>4, <1>5, <1>6 DEF StaysHeld

\* The same lists of clients that stay held
LEMMA ListingsSame ==
  ASSUME NEW s \in Memory, NEW o, Listings(s, o), NEW t \in Memory, SameLists(s, t),
         \A j \in Clients : IsListed(s, j) /\ j # o =>
           /\ t.client[j].loaded = s.client[j].loaded /\ t.client[j].linkdead = s.client[j].linkdead
           /\ t.client[j].handler = s.client[j].handler
           /\ t.client[j].zone = s.client[j].zone /\ t.client[j].index = s.client[j].index
           /\ j \in s.lingers => j \in t.lingers
           /\ \A c \in Conns : Serves(s, c, j) => Serves(t, c, j)
  PROVE  Listings(t, o)
  <1>1. t.connected = s.connected /\ t.zone = s.zone
    BY DEF SameLists
  <1>2. \A j \in Clients : IsListed(t, j) <=> IsListed(s, j)
    BY <1>1 DEF IsListed
  <1>3. ASSUME NEW j \in Clients, IsListed(t, j), j # o
        PROVE  StaysHeld(s, j, t)
    <2>1. ListingOf(t, j) = ListingOf(s, j)
      BY <1>1, <1>2, <1>3 DEF ListingOf
    <2> QED
      BY <1>2, <1>3, <2>1 DEF StaysHeld
  <1>4. \A i \in DOMAIN t.connected : t.connected[i].client # o =>
          \E f \in DOMAIN s.connected : t.connected[i] = s.connected[f] /\ s.connected[f].client # o
    BY <1>1
  <1> QED
    BY <1>3, <1>4, ListingsKept

\* client_drop changes no listing.
LEMMA ListingsDrop ==
  ASSUME NEW s \in Memory, NEW o, Listings(s, o), NEW k \in Clients, NEW t, t = Drop(s, k)
  PROVE  Listings(t, o)
  <1>1. /\ t \in Memory /\ SameLists(s, t) /\ SameWaits(s, t) /\ SameHandlers(s, t) /\ SameClients(s, t)
        /\ t.udp = s.udp
    BY DropIs
  <1>2. \A c \in Conns, j \in Clients : Serves(s, c, j) => Serves(t, c, j)
    BY <1>1 DEF SameHandlers, Serves, Open
  <1>3. t.lingers = s.lingers
    BY <1>1 DEF SameWaits
  <1>4. \A j \in Clients :
          /\ t.client[j].loaded = s.client[j].loaded /\ t.client[j].linkdead = s.client[j].linkdead
          /\ t.client[j].handler = s.client[j].handler
          /\ t.client[j].zone = s.client[j].zone /\ t.client[j].index = s.client[j].index
    BY <1>1 DEF SameClients
  <1> QED
    BY <1>1, <1>2, <1>3, <1>4, ListingsSame

\* zc_remove_connected_client changes no reference.
LEMMA CoreRemoved ==
  ASSUME NEW s \in Memory, NEW pl, NEW o, Core(s, pl, o), NEW k, NEW t, ConnectedRemoved(s, k, t)
  PROVE  Core(t, pl, o)
  <1>1. t.udp = s.udp /\ t.handler = s.handler /\ SameWaits(s, t)
    BY DEF ConnectedRemoved
  <1>2. \A j \in Clients :
          /\ t.client[j].name = s.client[j].name /\ t.client[j].refs = s.client[j].refs
          /\ t.client[j].handler = s.client[j].handler /\ t.client[j].loaded = s.client[j].loaded
          /\ t.client[j].linkdead = s.client[j].linkdead
    BY DEF ConnectedRemoved
  <1>3. SameView(s, t)
    BY <1>1, <1>2 DEF SameView, Open
  <1> QED
    BY <1>3, CoreSame

\* The client that is about to leave is listed no more, and the others are as they were.
LEMMA ListingsRemoved ==
  ASSUME NEW s \in Memory, NEW k \in Clients, Listings(s, k), NEW t, ConnectedRemoved(s, k, t), ~IsListed(t, k)
  PROVE  Listings(t, None)
  <1>1. /\ t \in Memory /\ t.udp = s.udp /\ t.handler = s.handler /\ t.lingers = s.lingers
        /\ \A i \in DOMAIN t.connected : \E f \in DOMAIN s.connected : t.connected[i] = s.connected[f]
    BY DEF ConnectedRemoved, SameWaits
  <1>2. \A i \in DOMAIN t.connected : t.connected[i].client # k
    BY DEF IsListed
  <1>3. ASSUME NEW i \in DOMAIN t.connected
        PROVE  \E f \in DOMAIN s.connected : t.connected[i] = s.connected[f] /\ s.connected[f].client # k
    BY <1>1, <1>2
  <1>4. ASSUME NEW j \in Clients, IsListed(t, j)
        PROVE  StaysHeld(s, j, t)
    <2>1. /\ t.client[j].loaded = s.client[j].loaded /\ t.client[j].linkdead = s.client[j].linkdead
          /\ t.client[j].handler = s.client[j].handler /\ t.client[j].zone = s.client[j].zone
      BY DEF ConnectedRemoved
    <2>2. t.zone[s.client[j].zone].list[t.client[j].index] = s.zone[s.client[j].zone].list[s.client[j].index]
      BY <1>4 DEF ConnectedRemoved
    <2>3. ListingOf(t, j) = ListingOf(s, j)
      BY <2>1, <2>2 DEF ListingOf
    <2>4. \A c \in Conns : Serves(s, c, j) => Serves(t, c, j)
      BY <1>1 DEF Serves, Open
    <2> QED
      BY <1>1, <2>1, <2>3, <2>4 DEF StaysHeld
  <1> QED
    BY <1>1, <1>3, <1>4, ListingsKept

\* Less is asked of the listings when a client is about to leave.
LEMMA ListingsWeaker ==
  ASSUME NEW s, Listings(s, None), s \in Memory, NEW k
  PROVE  Listings(s, k)
  <1>1. \A i \in DOMAIN s.connected : s.connected[i].client # None
    BY ConnectedFacts, Types
  <1> QED
    BY <1>1 DEF Listings

-----------------------------------------------------------------------------
(* The references after each action *)

\* A listed client is in its zone.
LEMMA ListedIsIn ==
  ASSUME NEW s, ClientLists(s), NEW j, IsListed(s, j)
  PROVE  ClientIn(s, j) /\ Born(s, j) /\ s.byName[s.client[j].name] = j
  <1>1. PICK i \in DOMAIN s.connected : s.connected[i].client = j
    BY DEF IsListed
  <1>2. \A e \in DOMAIN s.connected :
          /\ ClientIn(s, s.connected[e].client) /\ s.client[s.connected[e].client].name # None
          /\ s.byName[s.client[s.connected[e].client].name] = s.connected[e].client
    BY Zenon DEF ClientLists
  <1> QED
    BY Zenon, <1>1, <1>2 DEF Born

\* Starting a zone and spawning an NPC touch no reference.
LEMMA ExactQuiet ==
  ASSUME NEW s, NEW pl, Sound(s, pl), Exact(s, pl), NEW t, Quiet(s, t)
  PROVE  Exact(t, pl)
  <1>1. s \in Memory /\ ClientLists(s) /\ Core(s, pl, None) /\ Listings(s, None)
    BY DEF Sound, Exact
  <1>2. /\ t \in Memory /\ SameWaits(s, t) /\ t.client = s.client /\ t.udp = s.udp /\ t.handler = s.handler
        /\ t.connected = s.connected /\ \A y \in s.zoneList : t.zone[y].list = s.zone[y].list
    BY DEF Quiet
  <1>3. SameView(s, t)
    BY <1>2 DEF SameView, Open
  <1>4. Core(t, pl, None)
    BY <1>1, <1>3, CoreSame
  <1>5. ASSUME NEW j \in Clients, IsListed(t, j)
        PROVE  StaysHeld(s, j, t)
    <2>1. s.client[j].zone \in s.zoneList
      <3>1. IsListed(s, j)
        BY <1>2, <1>5 DEF IsListed
      <3> QED
        BY Zenon, <1>1, <3>1, ListedIsIn DEF ClientIn
    <2>2. ListingOf(t, j) = ListingOf(s, j)
      BY <1>2, <2>1 DEF ListingOf
    <2>3. \A c \in Conns : Serves(s, c, j) => Serves(t, c, j)
      BY <1>2 DEF Serves, Open
    <2> QED
      BY <1>2, <2>2, <2>3 DEF StaysHeld, SameWaits
  <1>6. \A i \in DOMAIN t.connected : t.connected[i].client # None =>
          \E f \in DOMAIN s.connected : t.connected[i] = s.connected[f] /\ s.connected[f].client # None
    BY <1>2
  <1>7. Listings(t, None)
    BY <1>1, <1>2, <1>5, <1>6, ListingsKept
  <1> QED
    BY <1>4, <1>7 DEF Exact

\* zc_client_expected_to_zone_in
LEMMA ExpectedToZoneInExact ==
  ASSUME Sound(zc, player), Exact(zc, player), NEW n \in Names, NEW z \in Zones, ExpectedToZoneIn(n, z)
  PROVE  Exact(zc', player)
  <1>1. zc \in Memory /\ Known(zc) /\ ClientLists(zc) /\ Core(zc, player, None) /\ Listings(zc, None)
    BY DEF Sound, Exact
  <1>2. CASE zc' = zc
    BY <1>2
  <1>3. ASSUME NEW k \in Clients, ~Born(zc, k), Announced(zc, n, z, k, zc')
        PROVE  Exact(zc', player)
    <2>1. \A j \in zc.expectTimers : zc.client[j].name # n
      BY Zenon DEF ExpectedToZoneIn
    <2>2. Core(zc', player, None)
      BY <1>1, <1>3, <2>1, CoreAnnounced
    <2>3. /\ zc' \in Memory /\ SameLists(zc, zc') /\ zc'.lingers = zc.lingers /\ zc'.udp = zc.udp
          /\ zc'.handler = zc.handler /\ \A j \in Clients : j # k => zc'.client[j] = zc.client[j]
      BY <1>3 DEF Announced
    <2>4. ~IsListed(zc, k)
      BY <1>1, <1>3, ListedIsIn
    <2>5. \A c \in Conns, j \in Clients : Serves(zc, c, j) => Serves(zc', c, j)
      BY <2>3 DEF Serves, Open
    <2>6. Listings(zc', None)
      BY <1>1, <2>3, <2>4, <2>5, ListingsSame
    <2> QED
      BY <2>2, <2>6 DEF Exact
  <1> QED
    BY Zenon, <1>1, <1>2, <1>3, AnnouncedIs

\* A listed client is loaded: what comes back is not for it.
LEMMA ListingsLoaded ==
  ASSUME NEW s \in Memory, Listings(s, None), NEW k \in Clients, NEW x \in AllLoaded, NEW Q,
         NEW t, Loaded(s, k, x, Q, t)
  PROVE  Listings(t, None)
  <1>1. t \in Memory /\ SameLists(s, t) /\ t.lingers = s.lingers /\ t.udp = s.udp /\ t.handler = s.handler
    BY DEF Loaded
  <1>2. \A c \in Conns, j \in Clients : Serves(s, c, j) => Serves(t, c, j)
    BY <1>1 DEF Serves, Open
  <1>3. ASSUME NEW j \in Clients, IsListed(s, j)
        PROVE  /\ t.client[j].loaded = s.client[j].loaded /\ t.client[j].linkdead = s.client[j].linkdead
               /\ t.client[j].handler = s.client[j].handler
               /\ t.client[j].zone = s.client[j].zone /\ t.client[j].index = s.client[j].index
    <2>1. j # None
      BY Types
    <2>2. s.client[j].loaded = AllLoaded
      BY <1>3, <2>1, ListedIsHeld DEF Held
    <2>3. t.client[j].loaded = s.client[j].loaded
      BY <2>2 DEF Loaded
    <2> QED
      BY <2>3 DEF Loaded
  <1> QED
    BY <1>1, <1>2, <1>3, ListingsSame

\* client_load_stats_callback
LEMMA LoadStatsExact ==
  ASSUME Sound(zc, player), Exact(zc, player), NEW k \in Clients, LoadStats(k)
  PROVE  Exact(zc', player)
  <1> DEFINE Q == (zc.queries \ {<<k, "stats">>}) \cup {<<k, "skills">>}
  <1>1. zc \in Memory /\ Core(zc, player, None) /\ Listings(zc, None)
    BY DEF Sound, Exact
  <1>2. Q \in SUBSET (Clients \X (Tables \cup {"stats", "skills"})) /\ "stats" \in AllLoaded
    BY <1>1, QueriesTyped DEF AllLoaded
  <1>3. zc' = [zc EXCEPT !.queries = Q, !.client[k].loaded = @ \cup {"stats"}]
    BY DEF LoadStats, SkillsRef
  <1>4. <<k, "stats">> \in zc.queries
    BY DEF LoadStats
  <1>5. Q = (zc.queries \ {<<k, "stats">>}) \cup {<<k, "skills">>}
    OBVIOUS
  <1> HIDE DEF Q
  <1>6. Loaded(zc, k, "stats", Q, zc')
    BY Zenon, <1>1, <1>2, <1>3, LoadedIs
  <1>7. Core(zc', player, None)
    BY Zenon, <1>1, <1>4, <1>5, <1>6, CoreStats
  <1>8. Listings(zc', None)
    BY Zenon, <1>1, <1>2, <1>6, ListingsLoaded
  <1> QED
    BY <1>7, <1>8 DEF Exact

\* The callbacks of the other queries
LEMMA LoadTableExact ==
  ASSUME Sound(zc, player), Exact(zc, player), NEW k \in Clients, NEW x \in Tables \cup {"skills"}, LoadTable(k, x),
         zc'.fault = "none"
  PROVE  Exact(zc', player)
  <1> DEFINE Q == zc.queries \ {<<k, x>>}
             s == [zc EXCEPT !.queries = Q, !.client[k].loaded = @ \cup {x}]
             u == IF "connection" \in zc.client[k].loaded THEN CheckLoadingFinished(s, k) ELSE s
  <1>1. zc \in Memory /\ Core(zc, player, None) /\ Listings(zc, None)
    BY DEF Sound, Exact
  <1>2. Q \in SUBSET (Clients \X (Tables \cup {"stats", "skills"})) /\ x \in AllLoaded
    BY <1>1, QueriesTyped DEF AllLoaded
  <1>3. zc' = Drop(u, k) /\ <<k, x>> \in zc.queries /\ x # "stats"
    BY DEF LoadTable
  <1>4. Q = zc.queries \ {<<k, x>>}
    OBVIOUS
  <1> HIDE DEF Q
  <1>5. Loaded(zc, k, x, Q, s)
    BY Zenon, <1>1, <1>2, LoadedIs
  <1> HIDE DEF s
  <1>6. s \in Memory
    BY <1>5 DEF Loaded
  <1>7. u = s \/ u.fault # "none"
    BY <1>6, SentOrFault
  <1>8. u \in Memory
    <2>1. "no handler" \in Faults
      BY DEF Faults
    <2> QED
      BY Zenon, <1>6, <2>1, FaultIs DEF CheckLoadingFinished
  <1> HIDE DEF u
  <1>9. zc'.fault = u.fault
    <2> DEFINE t == Drop(u, k)
    <2>1. t.fault = u.fault
      BY <1>8, DropIs
    <2> HIDE DEF t
    <2> QED
      BY <1>3, <2>1 DEF t
  <1>10. zc' = Drop(s, k)
    BY <1>3, <1>7, <1>9
  <1>11. Core(s, player, k)
    BY Zenon, <1>1, <1>3, <1>4, <1>5, CoreTable
  <1>12. Listings(s, None)
    BY Zenon, <1>1, <1>2, <1>5, ListingsLoaded
  <1>13. Born(s, k)
    <2>1. Born(zc, k)
      <3>1. Loading(zc)
        BY <1>1 DEF Core
      <3>2. Born(zc, <<k, x>>[1])
        BY Zenon, <1>3, <3>1 DEF Loading
      <3> QED
        BY <3>2
    <2> QED
      BY <1>5, <2>1 DEF Loaded, Born
  <1> QED
    BY <1>6, <1>10, <1>11, <1>12, <1>13, CoreDrop, ListingsDrop DEF Exact

\* zc_expected_client_timeout_callback
LEMMA ExpectedTimeoutExact ==
  ASSUME Sound(zc, player), Exact(zc, player), NEW k \in Clients, ExpectedTimeout(k), zc'.fault = "none"
  PROVE  Exact(zc', player)
  <1> DEFINE n == zc.client[k].name
             et == zc.expectTimers \ {k}
             s == [zc EXCEPT !.expectTimers = et]
             ex == [zc.expected EXCEPT ![n] = None]
             u == [s EXCEPT !.expected = ex]
  <1>1. zc \in Memory /\ Known(zc) /\ Core(zc, player, None) /\ Listings(zc, None) /\ Expecting(zc)
    BY DEF Sound, Exact, Core
  <1>2. ~Freed(zc, k)
    <2>1. "expected timer" \in Faults /\ "expected timer" # "none"
      BY DEF Faults
    <2>2. Fault(zc, "expected timer").fault = "expected timer"
      BY Zenon, <1>1, <2>1, FaultIs
    <2> QED
      BY Zenon, <2>1, <2>2 DEF ExpectedTimeout
  <1>3. zc' = (IF zc.expected[n] = None THEN s ELSE Drop([s EXCEPT !.expected[n] = None], k)) /\ k \in zc.expectTimers
    BY <1>2 DEF ExpectedTimeout
  <1>4. [s EXCEPT !.expected[n] = None] = u
    BY <1>1 DEF Memory
  <1>5. et \in SUBSET Clients
    BY <1>1, Fields
  <1>b. Born(zc, k) /\ n \in Names
    <2>1. Born(zc, k)
      BY <1>1, <1>3 DEF Expecting
    <2> QED
      BY <1>1, <2>1, Types DEF Born
  <1>6. /\ ex \in [Names -> Clients \cup {None}] /\ \A m \in Names : ex[m] = IF m = n THEN None ELSE zc.expected[m]
    <2>1. zc.expected \in [Names -> Clients \cup {None}]
      BY <1>1, Fields
    <2> QED
      BY <2>1
  <1>m. et = zc.expectTimers \ {k} /\ n = zc.client[k].name
    OBVIOUS
  <1> HIDE DEF et, ex, n
  <1>7. s \in Memory /\ u \in Memory /\ u.expected = ex /\ s.expected = zc.expected
        /\ s.expectTimers = et /\ u.expectTimers = et
    BY <1>1, <1>5, <1>6 DEF Memory
  <1>8. /\ SameLists(zc, s) /\ s.udp = zc.udp /\ s.client = zc.client /\ s.handler = zc.handler
        /\ SameLists(zc, u) /\ u.udp = zc.udp /\ u.client = zc.client /\ u.handler = zc.handler
        /\ s.queries = zc.queries /\ s.lingers = zc.lingers /\ s.freedStubs = zc.freedStubs
        /\ u.queries = zc.queries /\ u.lingers = zc.lingers /\ u.freedStubs = zc.freedStubs
    BY <1>1 DEF SameLists, Memory
  <1> HIDE DEF s, u
  <1>9. Listings(s, None) /\ Listings(u, None)
    <2>1. \A c \in Conns, j \in Clients : Serves(zc, c, j) => Serves(s, c, j) /\ Serves(u, c, j)
      BY <1>8 DEF Serves, Open
    <2> QED
      BY <1>1, <1>7, <1>8, <2>1, ListingsSame
  <1>10. k # None /\ \A m \in Names : zc.expected[m] = k => m = n
    BY <1>1, <1>m, Types DEF Known
  <1>11. CASE zc.expected[n] = None
    <2>1. zc' = s
      BY <1>3, <1>11
    <2>2. \A m \in Names : zc.expected[m] # k
      BY <1>10, <1>11
    <2>3. Core(s, player, None)
      BY <1>1, <1>3, <1>7, <1>8, <1>m, <2>2, CoreTimer
    <2> QED
      BY <1>9, <2>1, <2>3 DEF Exact
  <1>12. CASE zc.expected[n] # None
    <2>1. zc' = Drop(u, k)
      BY <1>3, <1>4, <1>12
    <2>2. zc.expected[n] = k
      <3> DEFINE j == zc.expected[n]
      <3>1. j \in zc.expectTimers /\ zc.client[j].name = n
        BY <1>1, <1>12, <1>b DEF Expecting, Known
      <3> HIDE DEF j
      <3>2. j = k
        BY <1>1, <1>3, <1>m, <3>1 DEF Expecting
      <3> QED
        BY <3>2 DEF j
    <2>3. \A m \in Names : u.expected[m] = IF m = n THEN None ELSE zc.expected[m]
      BY <1>6, <1>7
    <2>4. Core(u, player, k)
      BY <1>1, <1>7, <1>8, <1>b, <1>m, <2>2, <2>3, CoreUnexpected
    <2>5. Born(u, k)
      BY <1>8, <1>b DEF Born
    <2> QED
      BY <1>7, <1>9, <2>1, <2>4, <2>5, CoreDrop, ListingsDrop DEF Exact
  <1> QED
    BY <1>11, <1>12

\* zc_remove_linkdead_client_callback
LEMMA LingerTimeoutExact ==
  ASSUME Sound(zc, player), Exact(zc, player), NEW k \in Clients, LingerTimeout(k)
  PROVE  Exact(zc', player)
  <1> DEFINE lg == zc.lingers \ {k}
             s == [zc EXCEPT !.lingers = lg]
             u == RemoveConnected(s, k)
  <1>1. zc \in Memory /\ Core(zc, player, None) /\ Listings(zc, None) /\ Owning(zc, player)
    BY DEF Sound, Exact, Core
  <1>2. zc' = Drop(u, k) /\ k \in zc.lingers
    BY DEF LingerTimeout, Lingered
  <1>3. lg \in SUBSET Clients
    BY <1>1, Fields
  <1>l. lg = zc.lingers \ {k}
    OBVIOUS
  <1> HIDE DEF lg
  <1>4. s \in Memory /\ s.lingers = lg
    BY <1>1, <1>3 DEF Memory
  <1>5. /\ SameLists(zc, s) /\ s.udp = zc.udp /\ s.client = zc.client
        /\ s.handler = zc.handler /\ s.expected = zc.expected
        /\ s.queries = zc.queries /\ s.expectTimers = zc.expectTimers /\ s.freedStubs = zc.freedStubs
    BY <1>1 DEF SameLists, Memory
  <1> HIDE DEF s
  <1>6. Kept(zc, s)
    BY <1>5 DEF Kept
  <1>7. Sound(s, player)
    BY <1>4, <1>6, SoundKept
  <1>8. Sound(u, player) /\ ConnectedRemoved(s, k, u) /\ ~IsListed(u, k)
    BY <1>7, SoundRemoved
  <1> HIDE DEF u
  <1>9. Core(s, player, k)
    BY <1>1, <1>2, <1>4, <1>5, <1>l, CoreLingered
  <1>10. Listings(s, k)
    <2>1. Listings(zc, k)
      BY <1>1, ListingsWeaker
    <2>2. \A c \in Conns, j \in Clients : Serves(zc, c, j) => Serves(s, c, j)
      BY <1>5 DEF Serves, Open
    <2> QED
      BY <1>1, <1>4, <1>5, <1>l, <2>1, <2>2, ListingsSame
  <1>11. Core(u, player, k) /\ Listings(u, None) /\ u \in Memory
    BY <1>4, <1>8, <1>9, <1>10, CoreRemoved, ListingsRemoved DEF Sound
  <1>12. Born(u, k)
    <2>1. Born(zc, k)
      BY <1>1, <1>2 DEF Owning
    <2> QED
      BY <1>5, <1>8, <2>1 DEF ConnectedRemoved, Born
  <1> QED
    BY <1>2, <1>11, <1>12, CoreDrop, ListingsDrop DEF Exact

\* udp_socket_recv of a new address
LEMMA ConnectExact ==
  ASSUME Sound(zc, player), Exact(zc, player), player \in [Conns -> {"away", "here", "gone"}],
         NEW c \in Conns, Connect(c)
  PROVE  Exact(zc', player')
  <1>1. zc \in Memory /\ Core(zc, player, None) /\ Listings(zc, None) /\ Owning(zc, player)
    BY DEF Sound, Exact, Core
  <1>2. player[c] = "away" /\ player' = [player EXCEPT ![c] = "here"]
    BY DEF Connect
  <1>3. zc.handler[c].obj = None
    BY <1>1, <1>2 DEF Owning
  <1>4. IsConnected(zc, c, zc')
    BY ConnectSound
  <1>5. /\ zc' \in Memory /\ SameLists(zc, zc') /\ SameWaits(zc, zc') /\ zc'.client = zc.client
        /\ \A d \in Conns : d # c => zc'.handler[d] = zc.handler[d] /\ (Open(zc', d) <=> Open(zc, d))
        /\ zc'.handler[c].refs = 2 /\ zc'.handler[c].obj = None
    BY <1>4 DEF IsConnected
  <1>6. Core(zc', player', None)
    BY <1>1, <1>2, <1>3, <1>5, CoreConnected
  <1>7. \A d \in Conns, j \in Clients : Serves(zc, d, j) => Serves(zc', d, j)
    <2>1. \A j \in Clients : j # None
      BY Types, <1>1
    <2> QED
      BY <1>3, <1>5, <2>1 DEF Serves
  <1>8. Listings(zc', None)
    BY <1>1, <1>5, <1>7, ListingsSame DEF SameWaits
  <1> QED
    BY <1>6, <1>8 DEF Exact

\* A player that vanishes
LEMMA VanishExact ==
  ASSUME Exact(zc, player), player \in [Conns -> {"away", "here", "gone"}], NEW c \in Conns, Vanish(c)
  PROVE  Exact(zc', player')
  BY CoreGone DEF Vanish, Exact

\* client_stub_recv_packet_trilogy
LEMMA StubTooLateExact ==
  ASSUME Sound(zc, player), Exact(zc, player), NEW c \in Conns, StubTooLate(c)
  PROVE  Exact(zc', player)
  <1>1. zc \in Memory /\ Core(zc, player, None) /\ Listings(zc, None)
    BY DEF Sound, Exact
  <1>2. player[c] = "here" /\ zc.handler[c].obj = None /\ zc' = Ignored(zc, c)
    BY Zenon DEF StubTooLate, Up
  <1>3. zc.udp[zc.handler[c].index] = c
    BY <1>2, FindsItself
  <1>4. IgnoredAt(zc, c, zc')
    BY <1>1, <1>2, <1>3, IgnoredIs
  <1>5. Core(zc', player, None)
    BY <1>1, <1>2, <1>4, CoreStub
  <1>6. /\ zc' \in Memory /\ SameLists(zc, zc') /\ SameWaits(zc, zc') /\ zc'.client = zc.client
        /\ zc'.udp = zc.udp
    BY <1>4 DEF IgnoredAt
  <1>7. \A d \in Conns, j \in Clients : Serves(zc, d, j) => Serves(zc', d, j)
    <2>1. \A j \in Clients : j # None
      BY Types, <1>1
    <2>2. \A d \in Conns : /\ zc'.handler[d].obj = zc.handler[d].obj /\ zc'.handler[d].dead = zc.handler[d].dead
                           /\ d # c => zc'.handler[d].ignore = zc.handler[d].ignore
      BY <1>4 DEF IgnoredAt
    <2> QED
      BY <1>2, <1>6, <2>1, <2>2 DEF Serves, Open
  <1>8. Listings(zc', None)
    BY <1>1, <1>6, <1>7, ListingsSame DEF SameWaits
  <1> QED
    BY <1>5, <1>8 DEF Exact

\* zc_client_match_with_expected
LEMMA ZoneEntryExact ==
  ASSUME Sound(zc, player), Exact(zc, player), NEW c \in Conns, NEW n \in Names, ZoneEntry(c, n), zc'.fault = "none"
  PROVE  Exact(zc', player)
  <1> DEFINE s == [zc EXCEPT !.freedStubs = @ \cup {c}]
             k == zc.expected[n]
  <1>1. /\ zc \in Memory /\ Known(zc) /\ Sockets(zc, player) /\ Core(zc, player, None) /\ Listings(zc, None)
        /\ Expecting(zc)
    BY DEF Sound, Exact, Core
  <1>2. /\ player[c] = "here" /\ ~zc.handler[c].dead /\ ~zc.handler[c].ignore
        /\ zc.handler[c].obj = None /\ c \notin zc.freedStubs
    BY Zenon DEF ZoneEntry, Up
  <1>n. \A j \in Clients : j # None
    BY Types, <1>1
  <1>3. CASE zc' = HandlerDrop(s, c)
    <2>1. Core(zc', player, None)
      BY <1>1, <1>2, <1>3, CoreUnmatched
    <2>2. /\ s \in Memory /\ SameLists(zc, s) /\ s.lingers = zc.lingers
          /\ s.udp = zc.udp /\ s.client = zc.client /\ s.handler = zc.handler
      BY <1>1, StubFreed
    <2> HIDE DEF s
    <2>3. HandlerDropped(s, c, zc')
      BY <1>3, <2>2, HandlerIsDropped
    <2>4. /\ zc' \in Memory /\ SameLists(zc, zc') /\ zc'.lingers = zc.lingers /\ SameHandlers(s, zc')
          /\ zc'.udp = zc.udp /\ zc'.client = zc.client
      BY <2>2, <2>3 DEF HandlerDropped, SameLists, SameWaits
    <2>5. \A d \in Conns, j \in Clients : Serves(zc, d, j) => Serves(zc', d, j)
      BY <2>2, <2>4 DEF Serves, Open, SameHandlers
    <2>6. Listings(zc', None)
      BY <1>1, <2>4, <2>5, ListingsSame
    <2> QED
      BY <2>1, <2>6 DEF Exact
  <1>4. CASE k \in Clients /\ IsMatched(zc, c, n, k, zc')
    <2>1. zc.expected[n] = k /\ k # None /\ k \in Clients
      BY <1>4, <1>n
    <2> HIDE DEF k
    <2>2. Open(zc, c)
      BY <1>1, <1>2 DEF Sockets
    <2>3. Core(zc', player, None)
      BY <1>1, <1>2, <1>4, <2>1, <2>2, CoreMatched
    <2>4. ~IsListed(zc, k)
      <3>1. zc.client[k].handler = None /\ ~zc.client[k].linkdead
        BY <1>1, <2>1 DEF Expecting
      <3>2. ~Held(zc, k)
        <4>1. \A d \in Conns : d # None
          BY Types, <1>1
        <4> QED
          BY <3>1, <4>1 DEF Held
      <3> QED
        BY <1>1, <2>1, <3>2, ListedIsHeld
    <2>5. /\ zc' \in Memory /\ SameLists(zc, zc') /\ zc'.lingers = zc.lingers /\ zc'.udp = zc.udp
      BY <1>4 DEF IsMatched
    <2>6. \A j \in Clients : j # k =>
            /\ zc'.client[j].loaded = zc.client[j].loaded /\ zc'.client[j].linkdead = zc.client[j].linkdead
            /\ zc'.client[j].handler = zc.client[j].handler
            /\ zc'.client[j].zone = zc.client[j].zone /\ zc'.client[j].index = zc.client[j].index
      BY <1>4 DEF IsMatched
    <2>7. \A d \in Conns, j \in Clients : Serves(zc, d, j) => Serves(zc', d, j)
      <3>1. \A d \in Conns : /\ zc'.handler[d].dead = zc.handler[d].dead /\ zc'.handler[d].ignore = zc.handler[d].ignore
                             /\ d # c => zc'.handler[d].obj = zc.handler[d].obj
        BY <1>4 DEF IsMatched
      <3> QED
        BY <1>2, <1>n, <2>5, <3>1 DEF Serves, Open
    <2>8. Listings(zc', None)
      BY <1>1, <2>4, <2>5, <2>6, <2>7, ListingsSame
    <2> QED
      BY <2>3, <2>8 DEF Exact
  <1> QED
    BY <1>1, <1>3, <1>4, ZoneEntryIs

\* A closing packet
LEMMA ClosingExact ==
  ASSUME Sound(zc, player), Exact(zc, player), player \in [Conns -> {"away", "here", "gone"}],
         NEW c \in Conns, Closing(c), zc'.fault = "none"
  PROVE  Exact(zc', player')
  <1> DEFINE s == [zc EXCEPT !.handler[c].dead = TRUE]
             k == zc.handler[c].obj
             u == RemoveConnected(s, k)
  <1>1. /\ zc \in Memory /\ Known(zc) /\ Sockets(zc, player) /\ Core(zc, player, None) /\ Listings(zc, None)
    BY DEF Sound, Exact
  <1>2. /\ player[c] = "here" /\ ~zc.handler[c].dead /\ ~zc.handler[c].ignore
        /\ player' = [player EXCEPT ![c] = "gone"]
    BY Zenon DEF Closing, Up
  <1>3. zc.udp[zc.handler[c].index] = c
    BY <1>2, FindsItself
  <1>4. zc' = OnDisconnect(s, c, FALSE)
    BY <1>3 DEF Closing
  <1>5. Sound(zc, player') /\ player'[c] = "gone"
    BY <1>2, SoundGone
  <1>6. DeadAt(zc, c, s)
    BY DeadIs DEF Sound
  <1> HIDE DEF s
  <1>7. Sound(s, player') /\ s \in Memory
    <2>1. Sound(s, player')
      BY <1>5, <1>6, SoundClosed
    <2> QED
      BY <2>1 DEF Sound
  <1>8. s.handler[c].obj = k /\ s.client = zc.client /\ SameLists(zc, s) /\ SameWaits(zc, s) /\ s.udp = zc.udp
    BY <1>6 DEF DeadAt
  <1>9. k # None /\ ~Freed(s, k)
    <2>1. "stub" \in Faults /\ "freed client" \in Faults /\ "stub" # "none" /\ "freed client" # "none"
      BY DEF Faults
    <2>2. Fault(s, "stub").fault # "none" /\ Fault(s, "freed client").fault # "none"
      BY Zenon, <1>7, <2>1, FaultIs
    <2> QED
      BY Zenon, <1>4, <1>8, <2>2 DEF OnDisconnect
  <1>10. zc' = Drop(u, k)
    BY Zenon, <1>4, <1>8, <1>9 DEF OnDisconnect
  <1>11. k \in Clients /\ Born(zc, k) /\ Open(zc, c) /\ zc.handler[c].obj = k
    BY <1>1, <1>2, <1>9, Types DEF Known, Sockets
  <1> HIDE DEF k
  <1>12. Serves(zc, c, k)
    BY <1>2, <1>11 DEF Serves
  <1>13. Core(zc, player', None)
    BY <1>1, <1>2, CoreGone
  <1>14. Core(s, player', k)
    BY <1>1, <1>6, <1>11, <1>12, <1>13, CoreClosed
  <1>15. Listings(s, k)
    <2>1. Listings(zc, k)
      BY <1>1, ListingsWeaker
    <2>2. \A d \in Conns, j \in Clients : j # k /\ Serves(zc, d, j) => Serves(s, d, j)
      <3>1. \A d \in Conns : /\ s.handler[d].obj = zc.handler[d].obj /\ s.handler[d].ignore = zc.handler[d].ignore
                             /\ d # c => s.handler[d].dead = zc.handler[d].dead
        BY <1>6 DEF DeadAt
      <3> QED
        BY <1>8, <1>11, <3>1 DEF Serves, Open
    <2> QED
      BY <1>1, <1>7, <1>8, <2>1, <2>2, ListingsSame DEF SameWaits
  <1>16. Sound(u, player') /\ ConnectedRemoved(s, k, u) /\ ~IsListed(u, k)
    BY <1>7, <1>11, SoundRemoved
  <1> HIDE DEF u
  <1>17. Core(u, player', k) /\ Listings(u, None) /\ u \in Memory
    BY <1>7, <1>11, <1>14, <1>15, <1>16, CoreRemoved, ListingsRemoved DEF Sound
  <1>18. Born(u, k)
    BY <1>8, <1>11, <1>16 DEF ConnectedRemoved, Born
  <1> QED
    BY <1>10, <1>11, <1>17, <1>18, CoreDrop, ListingsDrop DEF Exact

\* The listing of a client that goes linkdead is marked.
LEMMA ListingsDied ==
  ASSUME NEW s, NEW pl, Sound(s, pl), Listings(s, None), NEW c \in Conns, NEW k \in Clients,
         s.handler[c].obj = k, NEW t, Died(s, c, k, t)
  PROVE  Listings(t, None)
  <1>1. s \in Memory /\ ClientLists(s) /\ MobLists(s)
    BY DEF Sound
  <1>2. /\ t \in Memory /\ t.lingers = s.lingers \cup {k} /\ DOMAIN t.connected = DOMAIN s.connected
        /\ \A i \in DOMAIN s.connected :
             /\ t.connected[i].client = s.connected[i].client
             /\ t.connected[i].handler = IF s.connected[i].client = k THEN None ELSE s.connected[i].handler
    BY DEF Died
  <1>3. /\ t.client[k].handler = None /\ t.client[k].linkdead
        /\ \A j \in Clients :
             /\ t.client[j].zone = s.client[j].zone
             /\ t.client[j].index = s.client[j].index /\ t.client[j].loaded = s.client[j].loaded
             /\ j # k => t.client[j].handler = s.client[j].handler /\ t.client[j].linkdead = s.client[j].linkdead
    BY DEF Died
  <1>4. \A d \in Conns, j \in Clients : j # k /\ Serves(s, d, j) => Serves(t, d, j)
    <2>1. \A d \in Conns : /\ t.handler[d].obj = s.handler[d].obj
                           /\ t.handler[d].dead = s.handler[d].dead /\ t.handler[d].ignore = s.handler[d].ignore
                           /\ Open(t, d) <=> Open(s, d) /\ d # c
      BY DEF Died
    <2> QED
      BY <2>1 DEF Serves
  <1>5. SUFFICES ASSUME NEW i \in DOMAIN t.connected, NEW j, j = t.connected[i].client
                 PROVE  Held(t, j) /\ t.connected[i].handler \in {None, t.client[j].handler}
    BY DEF Listings
  <1>6. j \in Clients /\ IsListed(s, j) /\ j = s.connected[i].client /\ i \in DOMAIN s.connected
    BY <1>1, <1>2, <1>5, ConnectedFacts DEF IsListed
  <1>7. j # None
    BY <1>1, <1>6, Types
  <1>8. Held(s, j) /\ s.connected[i].handler \in {None, s.client[j].handler}
    BY <1>6, <1>7 DEF Listings
  <1>9. s.client[j].zone \in s.zoneList /\ s.client[j].index \in DOMAIN s.zone[s.client[j].zone].list
    BY Zenon, <1>1, <1>6, ListedIsIn DEF ClientIn
  <1>10. ListingOf(t, j).linkdead = IF s.client[j].zone = s.client[k].zone /\ s.client[j].index = s.client[k].index
                                      THEN TRUE ELSE ListingOf(s, j).linkdead
    <2>1. \A y \in s.zoneList : \A e \in DOMAIN s.zone[y].list :
            t.zone[y].list[e].linkdead = IF y = s.client[k].zone /\ e = s.client[k].index
                                           THEN TRUE ELSE s.zone[y].list[e].linkdead
      BY Zenon DEF Died
    <2>2. t.client[j].zone = s.client[j].zone /\ t.client[j].index = s.client[j].index
      BY <1>3, <1>6
    <2> DEFINE y == s.client[j].zone
               e == s.client[j].index
    <2>3. t.zone[y].list[e].linkdead = IF y = s.client[k].zone /\ e = s.client[k].index
                                         THEN TRUE ELSE s.zone[y].list[e].linkdead
      BY Zenon, <1>9, <2>1
    <2>4. ListingOf(t, j) = t.zone[y].list[e] /\ ListingOf(s, j) = s.zone[y].list[e]
      BY Zenon, <2>2 DEF ListingOf
    <2> QED
      BY <2>3, <2>4
  <1>11. CASE j = k
    <2>1. ListingOf(t, j).linkdead
      BY <1>10, <1>11
    <2>2. t.client[j].loaded = AllLoaded
      BY <1>3, <1>6, <1>8 DEF Held
    <2> QED
      BY <1>2, <1>3, <1>6, <1>11, <2>1, <2>2 DEF Held
  <1>12. CASE j # k
    <2>1. ListingOf(s, j).linkdead => ListingOf(t, j).linkdead
      BY <1>10
    <2> QED
      BY <1>2, <1>3, <1>4, <1>6, <1>8, <1>12, <2>1 DEF Held
  <1> QED
    BY <1>11, <1>12

\* A step of the sweep
LEMMA CheckTimeoutsExact ==
  ASSUME Sound(zc, player), Exact(zc, player), CheckTimeouts, zc'.fault = "none"
  PROVE  Exact(zc', player)
  <1> DEFINE c == zc.udp[sweep]
  <1>1. sweep \in DOMAIN zc.udp
    BY DEF CheckTimeouts
  <1>2. /\ zc \in Memory /\ Sockets(zc, player) /\ Known(zc) /\ Core(zc, player, None) /\ Listings(zc, None)
        /\ c \in Conns
    BY <1>1, ConnectedFacts DEF Sound, Exact
  <1>3. CASE zc.handler[c].dead /\ zc' = HandleDeadClient(zc, sweep)
    <2>1. DeadRemoved(zc, sweep, zc')
      BY <1>1, <1>2, <1>3, HandleDeadClientIs DEF Sockets
    <2>2. Core(zc', player, None)
      BY <1>1, <1>2, <1>3, <2>1, CoreDead
    <2>3. zc' \in Memory /\ SameLists(zc, zc') /\ SameWaits(zc, zc') /\ zc'.client = zc.client
      BY <2>1 DEF DeadRemoved
    <2>4. \A d \in Conns, j \in Clients : Serves(zc, d, j) => Serves(zc', d, j)
      <3>1. \A d \in Conns : /\ zc'.handler[d].obj = zc.handler[d].obj /\ zc'.handler[d].dead = zc.handler[d].dead
                             /\ zc'.handler[d].ignore = zc.handler[d].ignore
                             /\ Open(zc', d) <=> Open(zc, d) /\ d # c
        BY <2>1 DEF DeadRemoved
      <3> QED
        BY <1>3, <3>1 DEF Serves
    <2>5. Listings(zc', None)
      BY <1>2, <2>3, <2>4, ListingsSame DEF SameWaits
    <2> QED
      BY <2>2, <2>5 DEF Exact
  <1>4. CASE ~zc.handler[c].dead /\ zc' = HandleDeadClient(OnDisconnect(zc, c, TRUE), sweep)
    <2> DEFINE v == OnDisconnect(zc, c, TRUE)
               k == zc.handler[c].obj
               u == GoLinkdead(zc, k)
    <2>1. /\ v \in Memory /\ v.udp = zc.udp
          /\ \A d \in Conns : v.handler[d].index = zc.handler[d].index
          /\ v.fault = "none" => Sound(v, player)
      <3>1. TRUE \in BOOLEAN
        OBVIOUS
      <3> HIDE DEF c, k, u
      <3> QED
        BY <1>2, <3>1, OnDisconnectSound
    <2>c. c = zc.udp[sweep] /\ c \in Conns
      BY <1>2
    <2>2. zc' = HandleDeadClient(v, sweep)
      BY <1>4
    <2>v. v = IF k = None THEN Fault(zc, "stub") ELSE IF Freed(zc, k) THEN Fault(zc, "freed client") ELSE Drop(u, k)
      BY Zenon DEF OnDisconnect
    <2> HIDE DEF v
    <2>3. zc'.fault = v.fault
      <3>1. \A j \in DOMAIN v.udp : v.handler[v.udp[j]].index = j
        <4>1. \A j \in DOMAIN zc.udp : zc.udp[j] \in Conns
          BY <1>2, ConnectedFacts
        <4> QED
          BY <1>2, <2>1, <4>1 DEF Sockets
      <3>2. DeadRemoved(v, sweep, zc')
        BY <1>1, <2>1, <2>2, <3>1, HandleDeadClientIs
      <3> QED
        BY <3>2 DEF DeadRemoved
    <2>4. k # None /\ ~Freed(zc, k)
      <3>1. "stub" \in Faults /\ "freed client" \in Faults /\ "stub" # "none" /\ "freed client" # "none"
        BY DEF Faults
      <3>2. Fault(zc, "stub").fault # "none" /\ Fault(zc, "freed client").fault # "none"
        BY Zenon, <1>2, <3>1, FaultIs
      <3> QED
        BY Zenon, <2>3, <2>v, <3>2
    <2>5. v = Drop(u, k)
      BY Zenon, <2>4, <2>v
    <2>6. k \in Clients /\ Born(zc, k) /\ Open(zc, c) /\ zc.handler[c].obj = k /\ ~zc.handler[c].dead
      BY <1>1, <1>2, <1>4, <2>4, Types DEF Known, Open
    <2> HIDE DEF k, c
    <2>7. Serves(zc, c, k) /\ zc.client[k].handler = c /\ zc.client[k].refs > 0
      BY <1>2, <2>4, <2>6, <2>c, IsServing
    <2>8. WentLinkdead(zc, k, u)
      BY <2>6, SoundLinkdead
    <2> HIDE DEF u
    <2>9. Died(zc, c, k, zc')
      BY <1>1, <2>2, <2>5, <2>6, <2>7, <2>8, <2>c, DiedIs
    <2>10. Core(zc', player, None)
      BY <1>2, <2>6, <2>7, <2>9, <2>c, CoreDied
    <2>11. Listings(zc', None)
      BY <1>2, <2>6, <2>9, <2>c, ListingsDied
    <2> QED
      BY <2>10, <2>11 DEF Exact
  <1>5. CASE zc' = zc
    BY <1>5
  <1> QED
    BY <1>3, <1>4, <1>5 DEF CheckTimeouts

\* Nothing but its connection holds a client that is in a zone and not linkdead.
LEMMA HeldOnce ==
  ASSUME NEW s \in Memory, NEW pl, Core(s, pl, None), NEW k \in Clients, Held(s, k), ~s.client[k].linkdead
  PROVE  Holders(s, k) = 1 /\ \E c \in Conns : s.client[k].handler = c /\ Serves(s, c, k)
  <1>1. Loading(s) /\ Expecting(s) /\ Owning(s, pl)
    BY DEF Core
  <1>2. PICK c \in Conns : s.client[k].handler = c /\ Serves(s, c, k)
    BY DEF Held
  <1>3. s.client[k].loaded = AllLoaded /\ k # None /\ c # None
    BY Types DEF Held
  <1>4. QueriesOf(s, k) = {}
    <2>1. \A q \in s.queries : q[1] = k => q[2] \notin AllLoaded
      BY <1>1, <1>3 DEF Loading
    <2>2. \A q \in s.queries : q[2] \in AllLoaded
      BY QueriesFinite DEF AllLoaded
    <2> QED
      BY <2>1, <2>2 DEF QueriesOf
  <1>5. ~IsExpected(s, k)
    BY <1>1, <1>2, <1>3 DEF Expecting, IsExpected
  <1>6. k \notin s.lingers
    BY <1>1 DEF Owning
  <1>7. IsServed(s, k)
    BY <1>2 DEF IsServed
  <1>8. Cardinality(QueriesOf(s, k)) = 0
    BY <1>4, FS_EmptySet
  <1> QED
    BY <1>2, <1>5, <1>6, <1>7, <1>8 DEF Holders

\* The clients of other names stay as they are.
OthersStay(s, p, t) ==
    \A j \in Clients : j # p =>
      /\ t.client[j].loaded = s.client[j].loaded /\ t.client[j].linkdead = s.client[j].linkdead
      /\ t.client[j].handler = s.client[j].handler
      /\ \A c \in Conns : Serves(s, c, j) => Serves(t, c, j)

\* A client whose character enters again loses its connection's reference, once.
LEMMA ReplacedExact ==
  ASSUME NEW s, NEW pl, Sound(s, pl), Exact(s, pl), NEW n \in Names, NEW p, p = s.byName[n], NEW t, t = Replaced(s, p)
  PROVE  Exact(t, pl) /\ OthersStay(s, p, t)
  <1> DEFINE u == RemoveConnected(s, p)
             v == Ignored(u, s.client[p].handler)
  <1>1. s \in Memory /\ ClientLists(s) /\ Core(s, pl, None) /\ Listings(s, None)
    BY DEF Sound, Exact
  <1>2. CASE p = None
    <2>1. t = s
      BY <1>2 DEF Replaced
    <2> QED
      BY <2>1 DEF OthersStay
  <1>3. CASE p # None
    <2>1. p \in Clients /\ IsListed(s, p)
      <3>1. p \in Clients
        BY <1>1, <1>3, Fields
      <3> QED
        BY Zenon, <1>1, <1>3, <3>1 DEF ClientLists
    <2>2. t = IF s.client[p].linkdead THEN u ELSE Drop(v, p)
      BY <1>3 DEF Replaced
    <2>3. Sound(u, pl) /\ ConnectedRemoved(s, p, u) /\ ~IsListed(u, p)
      BY <2>1, SoundRemoved
    <2> HIDE DEF u
    <2>4. u \in Memory /\ Core(u, pl, None) /\ Listings(u, None)
      <3>1. Listings(s, p)
        BY <1>1, ListingsWeaker
      <3> QED
        BY <1>1, <2>1, <2>3, <3>1, CoreRemoved, ListingsRemoved DEF Sound
    <2>5. u.udp = s.udp /\ u.handler = s.handler /\ SameWaits(s, u)
      BY <2>3 DEF ConnectedRemoved
    <2>6. \A j \in Clients :
            /\ u.client[j].name = s.client[j].name
            /\ u.client[j].loaded = s.client[j].loaded /\ u.client[j].linkdead = s.client[j].linkdead
            /\ u.client[j].handler = s.client[j].handler
      BY <2>3 DEF ConnectedRemoved
    <2>7. \A c \in Conns : \A j : Serves(u, c, j) <=> Serves(s, c, j)
      BY <2>5 DEF Serves, Open
    <2>8. OthersStay(s, p, u)
      BY <2>6, <2>7 DEF OthersStay
    <2>9. CASE s.client[p].linkdead
      BY <2>2, <2>4, <2>8, <2>9 DEF Exact
    <2>10. CASE ~s.client[p].linkdead
      <3>1. Held(s, p)
        BY <1>1, <1>3, <2>1, ListedIsHeld
      <3>2. Holders(s, p) = 1 /\ \E c \in Conns : s.client[p].handler = c /\ Serves(s, c, p)
        BY <1>1, <2>1, <2>10, <3>1, HeldOnce
      <3>3. PICK d \in Conns : s.client[p].handler = d /\ Serves(s, d, p)
        BY <3>2
      <3>4. Serves(u, d, p) /\ v = Ignored(u, d) /\ t = Drop(v, p)
        BY <2>2, <2>7, <2>10, <3>3
      <3> HIDE DEF v
      <3>5. Holders(u, p) = 1
        <4>1. QueriesOf(u, p) = QueriesOf(s, p) /\ (IsExpected(u, p) <=> IsExpected(s, p))
          BY <2>5 DEF SameWaits, QueriesOf, IsExpected
        <4>2. IsServed(u, p) <=> IsServed(s, p)
          BY <2>7 DEF IsServed
        <4>3. u.lingers = s.lingers
          BY <2>5 DEF SameWaits
        <4>4. Holders(u, p) = Holders(s, p)
          BY <4>1, <4>2, <4>3, HoldersSame
        <4> QED
          BY <3>2, <4>4
      <3>6. u.udp[u.handler[d].index] = d
        <4>1. Sockets(u, pl) /\ Open(u, d)
          BY <2>3, <3>4 DEF Sound, Serves
        <4> QED
          BY <4>1 DEF Sockets, Open
      <3>7. IgnoredAt(u, d, v)
        BY <2>4, <3>4, <3>6, IgnoredIs
      <3>8. Core(v, pl, p)
        BY <2>1, <2>4, <3>4, <3>5, <3>7, CoreReplaced
      <3>9. v \in Memory /\ SameLists(u, v) /\ SameWaits(u, v) /\ v.udp = u.udp /\ v.client = u.client
        BY <3>7 DEF IgnoredAt
      <3>10. \A e \in Conns, j \in Clients : j # p /\ Serves(u, e, j) => Serves(v, e, j)
        <4>1. \A e \in Conns : /\ v.handler[e].obj = u.handler[e].obj /\ v.handler[e].dead = u.handler[e].dead
                               /\ e # d => v.handler[e].ignore = u.handler[e].ignore
          BY <3>7 DEF IgnoredAt
        <4>2. u.handler[d].obj = p
          BY <3>4 DEF Serves
        <4> QED
          BY <3>9, <4>1, <4>2 DEF Serves, Open
      <3>11. Listings(v, None)
        BY <2>3, <2>4, <3>9, <3>10, ListingsSame DEF SameWaits
      <3>12. Born(v, p)
        <4>1. Born(s, p)
          BY <1>1, <2>1, ListedIsIn
        <4> QED
          BY <2>1, <2>6, <3>9, <4>1 DEF Born
      <3>13. Exact(t, pl)
        BY <2>1, <3>4, <3>8, <3>9, <3>11, <3>12, CoreDrop, ListingsDrop DEF Exact
      <3>14. SameClients(v, t) /\ SameHandlers(v, t) /\ t.udp = v.udp
        BY <2>1, <3>4, <3>9, DropIs
      <3>15. \A e \in Conns, j \in Clients : Serves(v, e, j) => Serves(t, e, j)
        BY <3>14 DEF SameHandlers, Serves, Open
      <3>16. OthersStay(s, p, t)
        BY <2>8, <2>7, <3>9, <3>10, <3>14, <3>15 DEF OthersStay, SameClients
      <3> QED
        BY <3>13, <3>16
    <2> QED
      BY <2>9, <2>10
  <1> QED
    BY <1>2, <1>3

\* client_trilogy_handle_op_enter_zone
LEMMA EnterZoneExact ==
  ASSUME Sound(zc, player), Exact(zc, player), NEW c \in Conns, EnterZone(c), zc'.fault = "none"
  PROVE  Exact(zc', player)
  <1> DEFINE k == zc.handler[c].obj
             n == zc.client[k].name
             p == zc.byName[n]
             s == Replaced(zc, p)
  <1>1. /\ zc \in Memory /\ Sockets(zc, player) /\ Known(zc) /\ MobLists(zc) /\ ClientLists(zc)
        /\ Core(zc, player, None) /\ Owning(zc, player)
    BY DEF Sound, Exact, Core
  <1>2. k \in Clients /\ Sound(s, player) /\ Entered(s, k, zc')
    BY EnterZoneIs
  <1>3. /\ player[c] = "here" /\ ~zc.handler[c].dead /\ ~zc.handler[c].ignore
        /\ k # None /\ zc.client[k].loaded = AllLoaded /\ zc.mob[k].entity = 0
    BY Zenon DEF EnterZone, Up
  <1>4. n \in Names
    <2>1. Born(zc, k)
      BY <1>1, <1>3 DEF Known
    <2> QED
      BY <1>1, <1>2, <2>1, Types DEF Born
  <1>5. zc.handler[c].obj = k /\ p = zc.byName[n] /\ s = Replaced(zc, p) /\ n = zc.client[k].name
    OBVIOUS
  <1> HIDE DEF k, n, p, s
  <1>6. Exact(s, player) /\ OthersStay(zc, p, s)
    BY <1>4, <1>5, ReplacedExact
  <1>7. p # k
    <2>1. SUFFICES ASSUME p = k PROVE FALSE
      OBVIOUS
    <2>2. IsListed(zc, k)
      BY Zenon, <1>1, <1>3, <1>4, <1>5, <2>1 DEF ClientLists
    <2>3. ClientIn(zc, k)
      BY <1>1, <2>2, ListedIsIn
    <2> DEFINE z == zc.client[k].zone
               i == zc.mob[k].index
    <2>4. z \in zc.zoneList /\ i \in DOMAIN zc.zone[z].mobs /\ zc.zone[z].mobs[i] = k
      BY Zenon, <2>3 DEF ClientIn
    <2> HIDE DEF z, i
    <2>5. zc.mob[k].entity \in DOMAIN zc.zone[z].ents /\ zc.zone[z] \in ZoneRecord
      BY Zenon, <1>1, <2>4 DEF MobLists
    <2>6. zc.mob[k].entity \in 1 .. Len(zc.zone[z].ents) /\ Len(zc.zone[z].ents) \in Nat
      BY <2>5, ZoneFacts
    <2> QED
      BY <1>3, <2>6
  <1>8. Serves(zc, c, k)
    BY <1>1, <1>3, <1>5 DEF Serves, Sockets
  <1>9. zc.client[k].handler = c /\ ~zc.client[k].linkdead
    <2>1. c # None
      BY <1>1, Types
    <2> QED
      BY <1>1, <1>2, <1>8, <2>1 DEF Owning
  <1>10. s.client[k].loaded = AllLoaded /\ ~s.client[k].linkdead /\ s.client[k].handler = c /\ Serves(s, c, k)
    BY <1>2, <1>3, <1>6, <1>7, <1>8, <1>9 DEF OthersStay
  <1>11. s \in Memory /\ Core(s, player, None) /\ Listings(s, None)
    BY <1>2, <1>6 DEF Sound, Exact
  <1>12. zc' \in Memory /\ SameWaits(s, zc') /\ zc'.udp = s.udp /\ zc'.handler = s.handler
    BY Zenon, <1>2 DEF Entered
  <1>13. \A j \in Clients :
           /\ zc'.client[j].name = s.client[j].name /\ zc'.client[j].zone = s.client[j].zone
           /\ zc'.client[j].refs = s.client[j].refs /\ zc'.client[j].handler = s.client[j].handler
           /\ zc'.client[j].loaded = s.client[j].loaded /\ zc'.client[j].linkdead = s.client[j].linkdead
    BY Zenon, <1>2 DEF Entered
  <1>14. SameView(s, zc')
    BY <1>12, <1>13 DEF SameView, Open
  <1>15. Core(zc', player, None)
    BY <1>11, <1>14, CoreSame
  <1>16. \A d \in Conns, j \in Clients : Serves(s, d, j) => Serves(zc', d, j)
    BY <1>12 DEF Serves, Open
  <1>17. ASSUME NEW i \in DOMAIN zc'.connected, NEW j, j = zc'.connected[i].client
         PROVE  Held(zc', j) /\ zc'.connected[i].handler \in {None, zc'.client[j].handler}
    <2>1. \/ \E f \in DOMAIN s.connected : zc'.connected[i] = s.connected[f]
          \/ zc'.connected[i].client = k /\ zc'.connected[i].handler = s.client[k].handler
      BY Zenon, <1>2 DEF Entered
    <2>2. j \in Clients /\ IsListed(zc', j) /\ j # None
      BY <1>12, <1>17, ConnectedFacts, Types DEF IsListed
    <2>3. ASSUME NEW f \in DOMAIN s.connected, zc'.connected[i] = s.connected[f]
          PROVE  Held(s, j) /\ zc'.connected[i].handler \in {None, zc'.client[j].handler}
      BY <1>11, <1>13, <1>17, <2>2, <2>3 DEF Listings
    <2>4. CASE j = k
      <3>1. Held(zc', k)
        BY <1>2, <1>10, <1>13, <1>16 DEF Held
      <3>2. zc'.connected[i].handler \in {None, zc'.client[j].handler}
        BY <1>2, <1>13, <2>1, <2>3, <2>4
      <3> QED
        BY <2>4, <3>1, <3>2
    <2>5. CASE j # k
      <3>1. PICK f \in DOMAIN s.connected : zc'.connected[i] = s.connected[f]
        BY <1>17, <2>1, <2>5
      <3>2. Held(s, j) /\ zc'.connected[i].handler \in {None, zc'.client[j].handler}
        BY <2>3, <3>1
      <3>3. zc'.zone[s.client[j].zone].list[zc'.client[j].index] = s.zone[s.client[j].zone].list[s.client[j].index]
        BY Zenon, <1>2, <2>2, <2>5 DEF Entered
      <3>4. ListingOf(zc', j) = ListingOf(s, j)
        BY <1>13, <2>2, <3>3 DEF ListingOf
      <3>5. zc'.lingers = s.lingers
        BY <1>12 DEF SameWaits
      <3>6. Held(zc', j)
        BY <1>13, <1>16, <2>2, <3>2, <3>4, <3>5 DEF Held
      <3> QED
        BY <3>2, <3>6
    <2> QED
      BY <2>4, <2>5
  <1>18. Listings(zc', None)
    BY <1>17 DEF Listings
  <1> QED
    BY <1>15, <1>18 DEF Exact

-----------------------------------------------------------------------------
(* The references: the invariant and the theorems *)

\* At the start there is no client, no connection and no query.
LEMMA RefsInvInit == Init => RefsInv
  <1> SUFFICES ASSUME Init
               PROVE  Exact(zc, player)
    BY DEF RefsInv
  <1>1. /\ \A k \in Clients : zc.client[k] = Unborn
        /\ \A n \in Names : zc.expected[n] = None
        /\ zc.connected = <<>> /\ zc.udp = <<>> /\ zc.expectTimers = {} /\ zc.lingers = {} /\ zc.queries = {}
    BY DEF Init
  <1>2. \A c \in Conns : zc.handler[c].obj = None
    BY DEF Init, FirstPacket
  <1>3. \A k \in Clients : /\ ~Born(zc, k) /\ zc.client[k].handler = None
                           /\ zc.client[k].refs = 0 /\ ~zc.client[k].linkdead
    BY <1>1 DEF Unborn, Born
  <1>4. \A c \in Conns : ~Open(zc, c)
    BY <1>1 DEF Open
  <1>5. Loading(zc) /\ Expecting(zc)
    BY <1>1 DEF Loading, Expecting
  <1>6. Owning(zc, player)
    BY Zenon, <1>1, <1>2, <1>3, <1>4 DEF Owning, Serves
  <1>7. HandlerRefs(zc)
    BY <1>3, <1>4 DEF HandlerRefs
  <1>8. Counted(zc, None)
    BY <1>3 DEF Counted
  <1>9. Listings(zc, None)
    BY <1>1 DEF Listings
  <1> QED
    BY <1>5, <1>6, <1>7, <1>8, <1>9 DEF Exact, Core

\* Every step that does not fail keeps the references exact.
LEMMA RefsInvNext == ListsInv /\ RefsInv /\ [Next]_vars => RefsInv'
  <1>1. CASE UNCHANGED vars
    BY <1>1 DEF RefsInv, vars
  <1>2. ASSUME ListsInv, RefsInv, Next, zc'.fault = "none"
        PROVE  Exact(zc', player')
    <2>1. /\ Sound(zc, player) /\ Exact(zc, player)
          /\ player \in [Conns -> {"away", "here", "gone"}]
      BY <1>2 DEF ListsInv, RefsInv, Next
    <2>2. ASSUME NEW z \in Zones, StartZone(z) \/ SpawnNpc(z), UNCHANGED player
          PROVE  Exact(zc', player')
      <3>1. Quiet(zc, zc')
        BY <1>2, <2>1, <2>2, StartZoneSound, SpawnNpcSound
      <3> QED
        BY <2>1, <2>2, <3>1, ExactQuiet
    <2>3. ASSUME NEW n \in Names, NEW z \in Zones, ExpectedToZoneIn(n, z), UNCHANGED player
          PROVE  Exact(zc', player')
      BY <2>1, <2>3, ExpectedToZoneInExact
    <2>4. ASSUME NEW k \in Clients, LoadStats(k), UNCHANGED player
          PROVE  Exact(zc', player')
      BY <2>1, <2>4, LoadStatsExact
    <2>5. ASSUME NEW k \in Clients, NEW x \in Tables \cup {"skills"}, LoadTable(k, x), UNCHANGED player
          PROVE  Exact(zc', player')
      BY <1>2, <2>1, <2>5, LoadTableExact
    <2>6. ASSUME NEW k \in Clients, ExpectedTimeout(k), UNCHANGED player
          PROVE  Exact(zc', player')
      BY <1>2, <2>1, <2>6, ExpectedTimeoutExact
    <2>7. ASSUME NEW k \in Clients, LingerTimeout(k), UNCHANGED player
          PROVE  Exact(zc', player')
      BY <2>1, <2>7, LingerTimeoutExact
    <2>8. ASSUME NEW c \in Conns, NEW n \in Names, ZoneEntry(c, n), UNCHANGED player
          PROVE  Exact(zc', player')
      BY <1>2, <2>1, <2>8, ZoneEntryExact
    <2>9. ASSUME NEW c \in Conns, StubTooLate(c), UNCHANGED player
          PROVE  Exact(zc', player')
      BY <2>1, <2>9, StubTooLateExact
    <2>10. ASSUME NEW c \in Conns, OtherPacket(c)
           PROVE  FALSE
      <3>1. zc \in Memory /\ "freed stub" \in Faults /\ zc' = Fault(zc, "freed stub")
        BY Zenon, <2>1, <2>10 DEF Sound, Faults, OtherPacket
      <3>2. zc'.fault = "freed stub"
        BY Zenon, <3>1, FaultIs
      <3> QED
        BY Zenon, <1>2, <3>2
    <2>11. ASSUME NEW c \in Conns, EnterZone(c), UNCHANGED player
           PROVE  Exact(zc', player')
      BY <1>2, <2>1, <2>11, EnterZoneExact
    <2>12. ASSUME NEW c \in Conns, Connect(c) \/ Closing(c) \/ Vanish(c)
           PROVE  Exact(zc', player')
      BY Zenon, <1>2, <2>1, <2>12, ConnectExact, ClosingExact, VanishExact
    <2>13. CASE Sweep
      <3>1. player' = player
        BY <2>13 DEF Sweep
      <3>2. CASE CheckTimeouts
        BY <1>2, <2>1, <3>1, <3>2, CheckTimeoutsExact
      <3>3. CASE SweepBegins \/ SweepEnds
        BY <2>1, <3>1, <3>3 DEF SweepBegins, SweepEnds
      <3> QED
        BY <2>13, <3>2, <3>3 DEF Sweep
    <2>14. CASE (Ipc \/ Database \/ Timer \/ \E z \in Zones : SpawnNpc(z)) /\ UNCHANGED player
      BY <2>2, <2>3, <2>4, <2>5, <2>6, <2>7, <2>14 DEF Ipc, Database, Timer
    <2>15. CASE (\E c \in Conns : Packet(c)) /\ UNCHANGED player
      BY <2>8, <2>9, <2>10, <2>11, <2>15 DEF Packet
    <2> QED
      BY <1>2, <2>12, <2>13, <2>14, <2>15 DEF Next, Step
  <1> QED
    BY <1>1, <1>2 DEF RefsInv

\* A client has a reference of the table of expected clients when it is expected: it is
\* there under its own name only.
LEMMA ExpectedOnce ==
  ASSUME zc \in Memory, Known(zc), NEW k \in Clients
  PROVE  Cardinality({n \in Names : zc.expected[n] = k}) = IF IsExpected(zc, k) THEN 1 ELSE 0
  <1> DEFINE X == {n \in Names : zc.expected[n] = k}
  <1>1. CASE ~IsExpected(zc, k)
    <2>1. X = {}
      BY <1>1 DEF IsExpected
    <2> QED
      BY <1>1, <2>1, FS_EmptySet
  <1>2. CASE IsExpected(zc, k)
    <2>1. PICK m \in Names : zc.expected[m] = k
      BY <1>2 DEF IsExpected
    <2>2. \A n \in Names : zc.expected[n] = k => n = zc.client[k].name
      <3>1. k # None
        BY Types
      <3> QED
        BY Zenon, <3>1 DEF Known
    <2>3. X = {m}
      BY <2>1, <2>2
    <2> QED
      BY <1>2, <2>3, FS_Singleton
  <1> QED
    BY <1>1, <1>2

\* A client has at most one connection that serves it.
LEMMA ServedOnce ==
  ASSUME Owning(zc, player), NEW k \in Clients
  PROVE  Cardinality(Serving(k)) = IF IsServed(zc, k) THEN 1 ELSE 0
  <1>1. Serving(k) = {c \in Conns : Serves(zc, c, k)}
    BY Zenon DEF Serving, Serves, Open
  <1>2. CASE ~IsServed(zc, k)
    <2>1. Serving(k) = {}
      BY <1>1, <1>2 DEF IsServed
    <2> QED
      BY <1>2, <2>1, FS_EmptySet
  <1>3. CASE IsServed(zc, k)
    <2>1. PICK d \in Conns : Serves(zc, d, k)
      BY <1>3 DEF IsServed
    <2>2. \A c \in Conns : Serves(zc, c, k) => zc.client[k].handler = c
      BY Zenon DEF Owning
    <2>3. Serving(k) = {d}
      BY <1>1, <2>1, <2>2
    <2> QED
      BY <1>3, <2>3, FS_Singleton
  <1> QED
    BY <1>2, <1>3

\* The references of a listed client keep it.
LEMMA ListedIsKept ==
  ASSUME Sound(zc, player), Exact(zc, player), NEW k \in Clients, IsListed(zc, k)
  PROVE  zc.client[k].refs > 0
  <1>1. zc \in Memory /\ ClientLists(zc) /\ Counted(zc, None) /\ Listings(zc, None) /\ k # None
    BY Types DEF Sound, Exact, Core
  <1>2. Held(zc, k) /\ Born(zc, k)
    BY <1>1, ListedIsHeld, ListedIsIn
  <1>3. IsServed(zc, k) \/ k \in zc.lingers
    BY Zenon, <1>2 DEF Held, IsServed
  <1>4. Holders(zc, k) \in Nat /\ Holders(zc, k) > 0
    BY <1>1, <1>3, HoldersType
  <1>5. zc.client[k].refs = Holders(zc, k) + 0
    BY <1>1, <1>2 DEF Counted
  <1> QED
    BY <1>4, <1>5

\* What the run checks of the references follows.
LEMMA RefsInvExact == ListsInv /\ RefsInv => RefsExact
  <1> SUFFICES ASSUME Sound(zc, player), Exact(zc, player), zc.fault = "none"
               PROVE  RefsExact
    BY Zenon DEF ListsInv, RefsInv, RefsExact
  <1>1. /\ zc \in Memory /\ Known(zc) /\ ClientLists(zc) /\ Owning(zc, player) /\ HandlerRefs(zc)
        /\ Counted(zc, None) /\ Listings(zc, None)
    BY DEF Sound, Exact, Core
  <1>2. \A k \in Clients : zc.client[k].handler \in Conns \cup {None}
    BY <1>1 DEF Memory, ClientRecord
  <1>3. \A c \in Conns : zc.handler[c].refs \in Int
    BY <1>1 DEF Memory, HandlerRecord
  <1>4. ASSUME NEW k \in Clients, zc.client[k].refs > 0, zc.client[k].handler # None
        PROVE  zc.handler[zc.client[k].handler].refs > 0
    <2> DEFINE c == zc.client[k].handler
    <2>1. c \in Conns
      BY <1>2, <1>4
    <2>2. zc.handler[c].refs >= (IF Open(zc, c) THEN 2 ELSE 1)
      BY <1>1, <1>4, <2>1 DEF HandlerRefs
    <2> QED
      BY <1>3, <2>1, <2>2
  <1>5. ASSUME NEW k \in Clients, Born(zc, k)
        PROVE  zc.client[k].refs = Cardinality({q \in zc.queries : q[1] = k})
                                    + Cardinality({n \in Names : zc.expected[n] = k})
                                    + Cardinality(Serving(k))
                                    + (IF k \in zc.lingers THEN 1 ELSE 0)
    <2>1. k # None
      BY <1>1, Types
    <2>2. zc.client[k].refs = Holders(zc, k) + 0
      BY <1>1, <1>5, <2>1 DEF Counted
    <2>3. Holders(zc, k) \in Nat
      BY <1>1, HoldersType
    <2>4. zc.client[k].refs = Holders(zc, k)
      BY <2>2, <2>3
    <2> QED
      BY Zenon, <1>1, <2>4, ExpectedOnce, ServedOnce DEF Holders, QueriesOf
  <1>6. ASSUME NEW k \in Clients, Listed(k)
        PROVE  ~Freed(zc, k)
    <2>1. IsListed(zc, k)
      BY <1>6 DEF Listed, PlaceOf, IsListed
    <2>2. zc.client[k].refs > 0
      BY <2>1, ListedIsKept
    <2> QED
      BY <2>2 DEF Freed
  <1>7. ASSUME NEW i \in DOMAIN zc.connected, zc.connected[i].handler # None
        PROVE  zc.handler[zc.connected[i].handler].refs > 0
    <2> DEFINE k == zc.connected[i].client
    <2>1. k \in Clients
      BY <1>1, ConnectedFacts
    <2>2. IsListed(zc, k) /\ k # None
      BY <1>1, <2>1, Types DEF IsListed
    <2>3. zc.client[k].refs > 0
      BY <2>1, <2>2, ListedIsKept
    <2>4. zc.connected[i].handler = zc.client[k].handler
      BY <1>1, <1>7, <2>2 DEF Listings
    <2> QED
      BY <1>4, <1>7, <2>1, <2>3, <2>4
  <1> QED
    BY Zenon, <1>4, <1>5, <1>6, <1>7 DEF RefsExact, Born

\* What the run checks of the broadcasts follows.
LEMMA RefsInvBroadcast == ListsInv /\ RefsInv => BroadcastHasHandler
  <1> SUFFICES ASSUME Sound(zc, player), Exact(zc, player),
                      NEW z \in zc.zoneList, NEW i \in DOMAIN zc.zone[z].list, ~zc.zone[z].list[i].linkdead
               PROVE  \E c \in Conns : /\ zc.client[zc.zone[z].list[i].client].handler = c
                                       /\ c \in Serving(zc.zone[z].list[i].client)
    BY Zenon DEF ListsInv, RefsInv, BroadcastHasHandler
  <1> DEFINE k == zc.zone[z].list[i].client
  <1>1. zc \in Memory /\ MobLists(zc) /\ ClientLists(zc) /\ Listings(zc, None)
    BY DEF Sound, Exact
  <1>2. zc.client[k].index = i /\ zc.client[k].zone = z /\ IsListed(zc, k)
    BY Zenon, <1>1 DEF ClientLists
  <1>3. k \in Clients
    <2>1. zc.zone[z] \in ZoneRecord
      BY Zenon, <1>1 DEF MobLists
    <2> QED
      BY <2>1, ZoneFacts
  <1>4. Held(zc, k)
    BY <1>1, <1>2, <1>3, Types, ListedIsHeld
  <1> HIDE DEF k
  <1>5. ~ListingOf(zc, k).linkdead
    BY <1>2 DEF ListingOf
  <1>6. PICK c \in Conns : zc.client[k].handler = c /\ Serves(zc, c, k)
    BY Zenon, <1>4, <1>5 DEF Held
  <1>7. c \in Serving(k)
    BY Zenon, <1>6 DEF Serving, Serves, Open
  <1> QED
    BY Zenon, <1>6, <1>7 DEF k

\* As long as nothing has failed, every client is referred to by its holders and by
\* nothing else, and every listed client lingers or is served.
THEOREM RefsInductive == Spec => []RefsInv
  BY RefsInvInit, RefsInvNext, ListsInductive, PTL DEF Spec

\* Whatever order announcements, query results, timers, zone entries, reconnections and
\* linkdeaths come in, the references that client.c and protocol_handler.c count are
\* exactly the holders: nothing listed is freed, and nothing is leaked.
THEOREM Refs == Spec => []RefsExact
  BY RefsInductive, ListsInductive, RefsInvExact, PTL

\* zone_broadcast_packet never sends to a listing without a connection that serves it.
THEOREM Broadcasts == Spec => []BroadcastHasHandler
  BY RefsInductive, ListsInductive, RefsInvBroadcast, PTL
=============================================================================
