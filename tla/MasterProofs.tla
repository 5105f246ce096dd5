---------------------------- MODULE MasterProofs ----------------------------
(***************************************************************************)
(* Proofs about the master for every set of zones and clients and every    *)
(* configuration of zone clusters.                                         *)
(***************************************************************************)
EXTENDS Master, FiniteSetTheorems, TLAPS

\* The part of MasterInv about queries, children and the lock ...
ControlInv == QueryTypes /\ ChildTypes /\ LockInv /\ NoClientYet /\ PidsKnown

\* ... and the part about zones and clusters.
ZoneInv == ZcTypes /\ OnlyReserved /\ ZoneRunsOnce /\ RoomForWaiting

\* MasterInv is these two parts and nothing else.
LEMMA InvParts == MasterInv <=> ControlInv /\ ZoneInv
  BY DEF MasterInv, ControlInv, ZoneInv

\* What is left of a sequence when array_pop_back has taken its last element.
LEMMA FrontFacts ==
  ASSUME NEW S, NEW s \in Seq(S), Len(s) # 0
  PROVE  /\ SubSeq(s, 1, Len(s) - 1) \in Seq(S)
         /\ \A j \in DOMAIN SubSeq(s, 1, Len(s) - 1) :
                j \in DOMAIN s /\ SubSeq(s, 1, Len(s) - 1)[j] = s[j]
  <1>1. Len(s) \in Nat /\ 1 <= Len(s) /\ DOMAIN s = 1 .. Len(s)
    OBVIOUS
  <1> QED
    BY <1>1

-----------------------------------------------------------------------------
(* Queries, children and the lock *)

\* A callback taken from outQueue is one of those that were in it.
LEMMA TakeCallbackStep ==
  ASSUME ControlInv, TakeCallback
  PROVE  ControlInv'
  <1> DEFINE S == [of : Clients \cup {Motd}, row : Rows]
  <1>1. outQueue \in Seq(S) /\ Len(outQueue) # 0
    BY DEF ControlInv, QueryTypes, TakeCallback
  <1>2. /\ outQueue' = SubSeq(outQueue, 1, Len(outQueue) - 1)
        /\ query' = outQueue[Len(outQueue)]
    BY DEF TakeCallback
  <1> HIDE DEF S
  <1>3. /\ outQueue' \in Seq(S)
        /\ \A j \in DOMAIN outQueue' : j \in DOMAIN outQueue /\ outQueue'[j] = outQueue[j]
    BY <1>1, <1>2, FrontFacts
  <1>4. query' \in S /\ Len(outQueue) \in DOMAIN outQueue
    BY <1>1, <1>2
  <1>5. query' \in [of : Clients \cup {Motd, "none"}, row : Rows]
    BY <1>4 DEF S
  <1>6. QueryTypes'
    BY <1>3, <1>5 DEF S, ControlInv, QueryTypes, TakeCallback
  <1>7. NoClientYet'
    BY <1>2, <1>3, <1>4 DEF ControlInv, NoClientYet, Early, TakeCallback
  <1> QED
    BY <1>6, <1>7
       DEF TakeCallback, MainGoto, ControlInv, ChildTypes, LockInv, MainHolds, PidsKnown, childVars

\* A child that RestartSilent leaves without a pid could not be started, now or
\* before.
LEMMA RestartSilentStep ==
  ASSUME ControlInv, RestartSilent
  PROVE  ControlInv'
  <1>1. PICK outcome \in [silent -> StartOutcomes] :
           /\ child' = [p \in Watched |-> IF p \in silent THEN outcome[p] ELSE child[p]]
           /\ \E late \in SUBSET silent : silent' = {p \in silent : outcome[p] # Started} \cup late
           /\ spawnFailed' = IF \E p \in silent : outcome[p] # Started THEN TRUE ELSE spawnFailed
    BY DEF RestartSilent
  <1>2. Started \in [pid : BOOLEAN, ring : BOOLEAN] /\ Started.pid
    BY DEF Started
  <1>3. StartOutcomes \subseteq [pid : BOOLEAN, ring : BOOLEAN]
    BY <1>2 DEF StartOutcomes
  <1>4. silent \subseteq Watched /\ child \in [Watched -> [pid : BOOLEAN, ring : BOOLEAN]]
        /\ spawnFailed \in BOOLEAN
    BY DEF ControlInv, ChildTypes
  <1>5. child' \in [Watched -> [pid : BOOLEAN, ring : BOOLEAN]]
    BY <1>1, <1>3, <1>4
  <1>6. silent' \subseteq Watched /\ spawnFailed' \in BOOLEAN /\ (spawnFailed => spawnFailed')
    BY <1>1, <1>4
  <1>7. ASSUME NEW p \in Watched, ~child'[p].pid
        PROVE  spawnFailed' \/ ~child[p].pid
    <2>1. CASE p \in silent
      BY <1>1, <1>2, <1>7, <2>1
    <2>2. CASE p \notin silent
      BY <1>1, <1>7, <2>2
    <2> QED
      BY <2>1, <2>2
  <1>8. main = "status" /\ main' = "loop" /\ mutex' = "free"
    BY DEF RestartSilent, MainGoto
  <1>9. PidsKnown'
    BY <1>6, <1>7, <1>8 DEF ControlInv, PidsKnown
  <1>10. LockInv'
    BY <1>8 DEF RestartSilent, ControlInv, LockInv, MainHolds
  <1>11. QueryTypes' /\ NoClientYet'
    BY DEF RestartSilent, ControlInv, QueryTypes, NoClientYet, Early, dbVars
  <1> QED
    BY <1>5, <1>6, <1>9, <1>10, <1>11 DEF ControlInv, ChildTypes

\* Every step keeps the types of queries and children, the owner of the lock and
\* what is known of the children's pids.
LEMMA ControlStep ==
  ASSUME MasterInv, [Next]_vars
  PROVE  ControlInv'
  <1> USE MasterAssumption
      DEF ControlInv, QueryTypes, ChildTypes, LockInv, MainHolds, NoClientYet, Early, PidsKnown,
          threadVars, dbVars, mgrVars, lifeVars, childVars, historyVars, zcVars
  <1>0. ControlInv
    BY InvParts
  <1>1. CASE ScheduleMotd
    BY <1>0, <1>1 DEF ScheduleMotd
  <1>2. CASE ScriptThrows
    BY <1>0, <1>2 DEF ScriptThrows
  <1>3. CASE LockConfigure
    BY <1>0, <1>3 DEF LockConfigure
  <1>4. CASE ConfigureZones
    BY <1>0, <1>4 DEF ConfigureZones
  <1>5. CASE EndConfigure
    BY <1>0, <1>5 DEF EndConfigure
  <1>6. CASE HandleKeepAlive
    BY <1>0, <1>6 DEF HandleKeepAlive, IpcUnlock, NoPacket
  <1>7. CASE HandleClientZoning
    BY <1>0, <1>7 DEF HandleClientZoning, IpcUnlock, NoPacket
  <1>8. CASE HandleShutdown
    BY <1>0, <1>8 DEF HandleShutdown, IpcUnlock, NoPacket
  <1>9. CASE ClientMgrDeinit
    BY <1>0, <1>9 DEF ClientMgrDeinit
  <1>10. CASE UnlockShutdown
    BY <1>0, <1>10 DEF UnlockShutdown
  <1>11. CASE ThreadEnds
    BY <1>0, <1>11 DEF ThreadEnds
  <1>12. CASE CheckShutdown
    BY <1>0, <1>12 DEF CheckShutdown, MainGoto
  <1>13. CASE TakeCallback
    BY <1>0, <1>13, TakeCallbackStep
  <1>14. CASE EndCallbacks
    BY <1>0, <1>14 DEF EndCallbacks, MainGoto
  <1>15. CASE LockCallback
    BY <1>0, <1>15 DEF LockCallback, MainGoto
  <1>16. CASE MotdCallback
    BY <1>0, <1>16 DEF MotdCallback, MainGoto, CallbackDone, NoQuery, Rows
  <1>17. CASE RejectClient
    BY <1>0, <1>17 DEF RejectClient, MainGoto, CallbackDone, NoQuery, Rows
  <1>18. CASE FindCluster
    BY <1>0, <1>18 DEF FindCluster, MainGoto
  <1>19. CASE InformCluster
    BY <1>0, <1>19 DEF InformCluster, MainGoto, CallbackDone, NoQuery, Rows
  <1>20. CASE CallbackFaults
    BY <1>0, <1>20 DEF CallbackFaults, EndProcess
  <1>21. CASE ChecksNotDue
    BY <1>0, <1>21 DEF ChecksNotDue, MainGoto
  <1>22. CASE LockStatus
    BY <1>0, <1>22 DEF LockStatus, MainGoto
  <1>23. CASE ThreadIsGone
    BY <1>0, <1>23 DEF ThreadIsGone, MainGoto
  <1>24. CASE RestartSilent
    BY <1>0, <1>24, RestartSilentStep
  <1>25. CASE KillGroup
    BY <1>0, <1>25 DEF KillGroup, EndProcess
  <1>26. CASE ReadClusters
    BY <1>0, <1>26 DEF ReadClusters, MainGoto
  <1>27. CASE LockShutdown
    BY <1>0, <1>27 DEF LockShutdown, MainGoto
  <1>28. CASE ShutDownChildren
    BY <1>0, <1>28 DEF ShutDownChildren, MainGoto
  <1>29. CASE ShutDownLogWriter
    BY <1>0, <1>29 DEF ShutDownLogWriter, EndProcess
  <1>30. ASSUME NEW p \in Packets, Receive(p) PROVE ControlInv'
    BY <1>0, <1>30 DEF Receive, Packets
  <1>31. ASSUME NEW q \in Clients \cup {Motd}, QueryDone(q) PROVE ControlInv'
    BY <1>0, <1>31 DEF QueryDone, Rows
  <1>32. ASSUME NEW p \in Watched, FallSilent(p) PROVE ControlInv'
    BY <1>0, <1>32 DEF FallSilent
  <1>33. CASE UNCHANGED vars
    BY <1>0, <1>33 DEF vars
  <1> QED
    BY <1>1, <1>2, <1>3, <1>4, <1>5, <1>6, <1>7, <1>8, <1>9, <1>10, <1>11, <1>12,
       <1>13, <1>14, <1>15, <1>16, <1>17, <1>18, <1>19, <1>20, <1>21, <1>22, <1>23,
       <1>24, <1>25, <1>26, <1>27, <1>28, <1>29, <1>30, <1>31, <1>32, <1>33
       DEF Next, Ipc, Main

-----------------------------------------------------------------------------
(* Zones and clusters *)

\* How many positions of an array a set of them can lose or gain.
LEMMA SizeFacts ==
  ASSUME NEW S, NEW s \in Seq(S), NEW T, T \subseteq DOMAIN s
  PROVE  /\ Cardinality(T) \in Nat
         /\ \A U \in SUBSET T : Cardinality(U) \in Nat /\ Cardinality(U) <= Cardinality(T)
         /\ \A r \in T : \A U \in SUBSET (T \ {r}) :
                Cardinality(U) \in Nat /\ Cardinality(U) + 1 <= Cardinality(T)
         /\ \A r : \A U \in SUBSET (T \cup {r}) :
                Cardinality(U) \in Nat /\ Cardinality(U) <= Cardinality(T) + 1
  <1>1. DOMAIN s = 1 .. Len(s) /\ Len(s) \in Nat
    OBVIOUS
  <1>2. IsFiniteSet(T)
    <2>1. 1 \in Int /\ Len(s) \in Int
      BY <1>1
    <2>2. IsFiniteSet(1 .. Len(s))
      BY <2>1, FS_Interval
    <2> QED
      BY <1>1, <2>2, FS_Subset
  <1>3. Cardinality(T) \in Nat
    BY <1>2, FS_CardinalityType
  <1>4. ASSUME NEW U \in SUBSET T
        PROVE  Cardinality(U) \in Nat /\ Cardinality(U) <= Cardinality(T)
    BY <1>2, FS_Subset, FS_CardinalityType
  <1>5. ASSUME NEW r \in T, NEW U \in SUBSET (T \ {r})
        PROVE  Cardinality(U) \in Nat /\ Cardinality(U) + 1 <= Cardinality(T)
    <2>1. IsFiniteSet(T \ {r}) /\ Cardinality(T \ {r}) = Cardinality(T) - 1
      BY <1>2, FS_RemoveElement
    <2>2. Cardinality(U) \in Nat /\ Cardinality(U) <= Cardinality(T \ {r})
      BY <2>1, FS_Subset, FS_CardinalityType
    <2> QED
      BY <1>3, <2>1, <2>2
  <1>6. ASSUME NEW r, NEW U \in SUBSET (T \cup {r})
        PROVE  Cardinality(U) \in Nat /\ Cardinality(U) <= Cardinality(T) + 1
    <2>1. /\ IsFiniteSet(T \cup {r})
          /\ Cardinality(T \cup {r}) = Cardinality(T) \/ Cardinality(T \cup {r}) = Cardinality(T) + 1
      BY <1>2, FS_AddElement
    <2>2. Cardinality(U) \in Nat /\ Cardinality(U) <= Cardinality(T \cup {r})
      BY <2>1, FS_Subset, FS_CardinalityType
    <2> QED
      BY <1>3, <2>1, <2>2
  <1> QED
    BY <1>3, <1>4, <1>5, <1>6

\* What zoneClustersBySourceId says once a zone that was not running is entered.
LEMMA ZoneEntered ==
  ASSUME ZcTypes, ZoneRunsOnce,
         NEW z \in Zones, NEW k \in Nat, Running(z) = {},
         zoneClustersBySourceId' = Append(zoneClustersBySourceId, [zone |-> z, zc |-> k])
  PROVE  /\ zoneClustersBySourceId' \in Seq([zone : Zones, zc : Nat])
         /\ ZoneRunsOnce'
         /\ \A y : Running(y)' = {} => Running(y) = {} /\ y # z
         /\ \A r \in DOMAIN zoneClustersBySourceId' :
                \/ zoneClustersBySourceId'[r].zone = z
                \/ \E s \in DOMAIN zoneClustersBySourceId :
                       zoneClustersBySourceId'[r].zone = zoneClustersBySourceId[s].zone
  <1> DEFINE e == [zone |-> z, zc |-> k]
             n == Len(zoneClustersBySourceId)
  <1>1. zoneClustersBySourceId \in Seq([zone : Zones, zc : Nat]) /\ n \in Nat
    BY DEF ZcTypes
  <1>2. e \in [zone : Zones, zc : Nat] /\ e.zone = z
    OBVIOUS
  <1>3. /\ zoneClustersBySourceId' \in Seq([zone : Zones, zc : Nat])
        /\ DOMAIN zoneClustersBySourceId = 1 .. n
        /\ DOMAIN zoneClustersBySourceId' = 1 .. n + 1
        /\ zoneClustersBySourceId'[n + 1] = e
        /\ \A r \in 1 .. n : zoneClustersBySourceId'[r] = zoneClustersBySourceId[r]
    BY <1>1, <1>2
  <1>4. \A r \in 1 .. n : zoneClustersBySourceId[r].zone # z
    BY <1>3 DEF Running
  <1>5. ZoneRunsOnce'
    BY <1>1, <1>2, <1>3, <1>4 DEF ZoneRunsOnce
  <1>6. ASSUME NEW y, Running(y)' = {}
        PROVE  Running(y) = {} /\ y # z
    <2>1. n + 1 \in 1 .. n + 1 /\ 1 .. n \subseteq 1 .. n + 1
      BY <1>1
    <2>2. \A r \in 1 .. n + 1 : zoneClustersBySourceId'[r].zone # y
      BY <1>3, <1>6 DEF Running
    <2>3. y # z
      BY <1>2, <1>3, <2>1, <2>2
    <2>4. \A r \in 1 .. n : zoneClustersBySourceId[r].zone # y
      BY <1>3, <2>1, <2>2
    <2> QED
      BY <1>3, <2>3, <2>4 DEF Running
  <1>7. ASSUME NEW r \in DOMAIN zoneClustersBySourceId'
        PROVE  \/ zoneClustersBySourceId'[r].zone = z
               \/ \E s \in DOMAIN zoneClustersBySourceId :
                      zoneClustersBySourceId'[r].zone = zoneClustersBySourceId[s].zone
    BY <1>1, <1>2, <1>3
  <1> QED
    BY <1>3, <1>5, <1>6, <1>7

\* A step that leaves the clusters, their zones and the reservations alone.
LEMMA QuietZones ==
  ASSUME ZoneInv, Early' => Early,
         UNCHANGED <<activeZoneClusters, zoneClustersBySourceId, zoneReservations>>
  PROVE  ZoneInv'
  <1>1. ZcTypes' /\ ZoneRunsOnce'
    BY DEF ZoneInv, ZcTypes, ZoneRunsOnce
  <1>2. OnlyReserved'
    BY DEF ZoneInv, OnlyReserved, Reserved
  <1>3. \A k : Waiting(k)' = Waiting(k)
    BY DEF Waiting, Running
  <1>4. RoomForWaiting'
    BY <1>3 DEF ZoneInv, RoomForWaiting
  <1> QED
    BY <1>1, <1>2, <1>4 DEF ZoneInv

\* The reservations that wait on a cluster are positions of zoneReservations.
LEMMA WaitingInDomain == \A k : Waiting(k) \subseteq DOMAIN zoneReservations
  BY DEF Waiting

Cluster == [maxZones : MaxZones, reservedZones : Nat, zoneCount : Nat, up : BOOLEAN]

\* How the room on a cluster changes with its counters and with the number of
\* reservations that wait.
LEMMA RoomFacts ==
  ASSUME NEW c \in Cluster, NEW d \in Cluster, NEW w \in Nat, NEW v \in Nat,
         d.maxZones = c.maxZones
  PROVE  /\ HasReservedRoom(d, v) => HasRoom(d, v)
         /\ d.reservedZones = c.reservedZones /\ d.zoneCount + v <= c.zoneCount + w /\ v <= w
                => /\ HasRoom(c, w) => HasRoom(d, v)
                   /\ HasReservedRoom(c, w) => HasReservedRoom(d, v)
         /\ d.reservedZones = c.reservedZones /\ d.zoneCount = c.zoneCount + 1 /\ v <= w
                => (HasFreeSpace(c) /\ HasRoom(c, w) => HasRoom(d, v))
         /\ d.reservedZones = c.reservedZones + 1 /\ d.zoneCount + v <= c.zoneCount + w + 1
                => (HasReservedRoom(c, w) => HasReservedRoom(d, v))
  <1>1. /\ c.maxZones \in Nat /\ c.reservedZones \in Nat /\ c.zoneCount \in Nat
        /\ d.maxZones \in Nat /\ d.reservedZones \in Nat /\ d.zoneCount \in Nat
    BY ZoneAssumption DEF Cluster
  <1> QED
    BY <1>1 DEF HasRoom, HasReservedRoom, HasFreeSpace, Max2

\* An array one of whose elements is replaced.
LEMMA ReplaceFacts ==
  ASSUME NEW S, NEW s \in Seq(S), NEW k \in DOMAIN s, NEW e \in S
  PROVE  LET t == [s EXCEPT ![k] = e] IN
         /\ t \in Seq(S) /\ DOMAIN t = DOMAIN s
         /\ t[k] = e
         /\ \A j \in DOMAIN s : s[j] \in S /\ t[j] \in S /\ (j # k => t[j] = s[j])
  <1>1. Len(s) \in Nat /\ DOMAIN s = 1 .. Len(s) /\ \A j \in DOMAIN s : s[j] \in S
    OBVIOUS
  <1>2. [s EXCEPT ![k] = e] \in [1 .. Len(s) -> S]
    BY <1>1
  <1>3. [s EXCEPT ![k] = e] \in Seq(S)
    BY <1>1, <1>2
  <1> QED
    BY <1>1, <1>2, <1>3

\* A zone that starts takes up no room that a waiting reservation needs: it was
\* one of those that wait on its cluster, or zone_cluster_has_free_space held.
LEMMA StartZoneStep ==
  ASSUME ZoneInv, ~Early', NEW z \in Zones, NEW k,
         FromReserved(z, k) \/ FromFreeSpace(z, k)
  PROVE  ZoneInv'
  <1>1. /\ activeZoneClusters \in Seq(Cluster)
        /\ zoneReservations \in Seq([zone : Zones, zc : Nat])
        /\ \A r \in DOMAIN zoneReservations : zoneReservations[r].zc \in DOMAIN activeZoneClusters
    BY DEF ZoneInv, ZcTypes, Cluster
  <1>2. /\ Running(z) = {}
        /\ zoneReservations' = zoneReservations
        /\ zoneClustersBySourceId' = Append(zoneClustersBySourceId, [zone |-> z, zc |-> k])
        /\ activeZoneClusters' = [activeZoneClusters EXCEPT ![k].zoneCount = @ + 1]
    BY DEF FromReserved, FromFreeSpace, StartZoneOnCluster
  <1>3. k \in DOMAIN activeZoneClusters
    BY <1>1 DEF FromReserved, FromFreeSpace, Reserved, IsFirst, FreeClusters
  <1>4. /\ k \in Nat
        /\ activeZoneClusters[k] \in Cluster
        /\ [activeZoneClusters[k] EXCEPT !.zoneCount = @ + 1] \in Cluster
    <2>1. k \in Nat /\ activeZoneClusters[k] \in Cluster
      BY <1>1, <1>3
    <2> QED
      BY <2>1 DEF Cluster
  <1>5. /\ activeZoneClusters' \in Seq(Cluster)
        /\ DOMAIN activeZoneClusters' = DOMAIN activeZoneClusters
        /\ \A j \in DOMAIN activeZoneClusters :
               /\ activeZoneClusters[j] \in Cluster
               /\ activeZoneClusters'[j] \in Cluster
               /\ j # k => activeZoneClusters'[j] = activeZoneClusters[j]
        /\ activeZoneClusters'[k] = [activeZoneClusters[k] EXCEPT !.zoneCount = @ + 1]
    <2> DEFINE e == [activeZoneClusters[k] EXCEPT !.zoneCount = @ + 1]
    <2>1. e \in Cluster /\ activeZoneClusters' = [activeZoneClusters EXCEPT ![k] = e]
      BY <1>2, <1>4
    <2> HIDE DEF e
    <2>2. /\ activeZoneClusters' \in Seq(Cluster)
          /\ DOMAIN activeZoneClusters' = DOMAIN activeZoneClusters
          /\ \A j \in DOMAIN activeZoneClusters :
                 /\ activeZoneClusters[j] \in Cluster
                 /\ activeZoneClusters'[j] \in Cluster
                 /\ j # k => activeZoneClusters'[j] = activeZoneClusters[j]
          /\ activeZoneClusters'[k] = e
      BY <1>1, <1>3, <2>1, ReplaceFacts
    <2> QED
      BY <2>2 DEF e
  <1>6. /\ zoneClustersBySourceId' \in Seq([zone : Zones, zc : Nat])
        /\ ZoneRunsOnce'
        /\ \A y : Running(y)' = {} => Running(y) = {} /\ y # z
    BY <1>2, <1>4, ZoneEntered DEF ZoneInv
  <1>7. ZcTypes'
    BY <1>1, <1>2, <1>5, <1>6 DEF ZcTypes, Cluster
  <1>8. \A j : Waiting(j)' \subseteq {r \in Waiting(j) : zoneReservations[r].zone # z}
    BY <1>2, <1>6 DEF Waiting
  <1>9. ASSUME NEW j \in DOMAIN activeZoneClusters
        PROVE  HasRoom(activeZoneClusters'[j], Cardinality(Waiting(j)'))
    <2>1. HasRoom(activeZoneClusters[j], Cardinality(Waiting(j)))
      BY DEF ZoneInv, RoomForWaiting
    <2>2. /\ Cardinality(Waiting(j)) \in Nat /\ Cardinality(Waiting(j)') \in Nat
          /\ Cardinality(Waiting(j)') <= Cardinality(Waiting(j))
      <3>1. Waiting(j)' \in SUBSET Waiting(j)
        BY <1>8
      <3> QED
        BY <1>1, <3>1, WaitingInDomain, SizeFacts
    <2>3. CASE j # k
      <3>1. activeZoneClusters[j].zoneCount \in Nat
        BY <1>5 DEF Cluster
      <3> QED
        BY <1>5, <2>1, <2>2, <2>3, <3>1, RoomFacts
    <2>4. /\ activeZoneClusters[k].zoneCount \in Nat
          /\ activeZoneClusters'[k].zoneCount = activeZoneClusters[k].zoneCount + 1
          /\ activeZoneClusters'[k].maxZones = activeZoneClusters[k].maxZones
          /\ activeZoneClusters'[k].reservedZones = activeZoneClusters[k].reservedZones
      BY <1>4, <1>5 DEF Cluster
    <2>5. CASE j = k /\ FromReserved(z, k)
      <3>1. PICK r \in DOMAIN zoneReservations : zoneReservations[r].zone = z /\ zoneReservations[r].zc = k
        BY <2>5 DEF FromReserved, Reserved
      <3>2. r \in Waiting(j) /\ Waiting(j)' \in SUBSET (Waiting(j) \ {r})
        BY <1>2, <1>8, <2>5, <3>1 DEF Waiting
      <3>3. Cardinality(Waiting(j)') + 1 <= Cardinality(Waiting(j))
        BY <1>1, <3>2, WaitingInDomain, SizeFacts
      <3>4. activeZoneClusters'[k].zoneCount + Cardinality(Waiting(j)')
                <= activeZoneClusters[k].zoneCount + Cardinality(Waiting(j))
        BY <2>2, <2>4, <3>3
      <3> QED
        BY <1>5, <2>1, <2>2, <2>4, <2>5, <3>4, RoomFacts
    <2>6. CASE j = k /\ FromFreeSpace(z, k)
      <3>1. HasFreeSpace(activeZoneClusters[k])
        BY <2>6 DEF FromFreeSpace, IsFirst, FreeClusters
      <3> QED
        BY <1>5, <2>1, <2>2, <2>4, <2>6, <3>1, RoomFacts
    <2> QED
      BY <2>3, <2>5, <2>6
  <1>10. RoomForWaiting' /\ OnlyReserved'
    BY <1>5, <1>9 DEF RoomForWaiting, OnlyReserved
  <1> QED
    BY <1>6, <1>7, <1>10 DEF ZoneInv

\* A cluster started later has no reservations, and the ones before it keep theirs.
LEMMA NewClusterStep ==
  ASSUME ZoneInv, Early' => Early, NEW zc \in Cluster,
         zc.reservedZones = 0, zc.zoneCount = 0 \/ (zc.zoneCount = 1 /\ ~Early'),
         activeZoneClusters' = Append(activeZoneClusters, zc),
         zoneReservations' = zoneReservations,
         zoneClustersBySourceId' \in Seq([zone : Zones, zc : Nat]),
         ZoneRunsOnce', OnlyReserved',
         \A y : Running(y)' = {} => Running(y) = {}
  PROVE  ZoneInv'
  <1> DEFINE n == Len(activeZoneClusters)
  <1>1. /\ activeZoneClusters \in Seq(Cluster)
        /\ zoneReservations \in Seq([zone : Zones, zc : Nat])
        /\ \A r \in DOMAIN zoneReservations : zoneReservations[r].zc \in DOMAIN activeZoneClusters
    BY DEF ZoneInv, ZcTypes, Cluster
  <1>2. /\ n \in Nat /\ DOMAIN activeZoneClusters = 1 .. n
        /\ activeZoneClusters' \in Seq(Cluster)
        /\ DOMAIN activeZoneClusters' = 1 .. n + 1
        /\ \A j \in 1 .. n : activeZoneClusters'[j] = activeZoneClusters[j]
                             /\ activeZoneClusters[j] \in Cluster
        /\ activeZoneClusters'[n + 1] = zc
    BY <1>1
  <1>3. ZcTypes'
    BY <1>1, <1>2 DEF ZcTypes, Cluster
  <1>4. \A j : Waiting(j)' \in SUBSET Waiting(j)
    BY DEF Waiting
  <1>5. ASSUME NEW j \in 1 .. n
        PROVE  /\ HasRoom(activeZoneClusters'[j], Cardinality(Waiting(j)'))
               /\ Early' => HasReservedRoom(activeZoneClusters'[j], Cardinality(Waiting(j)'))
    <2>1. /\ HasRoom(activeZoneClusters[j], Cardinality(Waiting(j)))
          /\ Early => HasReservedRoom(activeZoneClusters[j], Cardinality(Waiting(j)))
      BY <1>2 DEF ZoneInv, RoomForWaiting
    <2>2. /\ Cardinality(Waiting(j)) \in Nat /\ Cardinality(Waiting(j)') \in Nat
          /\ Cardinality(Waiting(j)') <= Cardinality(Waiting(j))
      BY <1>1, <1>4, WaitingInDomain, SizeFacts
    <2>3. activeZoneClusters[j].zoneCount \in Nat
      BY <1>2 DEF Cluster
    <2> QED
      BY <1>2, <2>1, <2>2, <2>3, RoomFacts
  <1>6. ASSUME NEW j, j = n + 1
        PROVE  Cardinality(Waiting(j)') = 0
    <2>1. Waiting(j)' = {}
      BY <1>1, <1>2, <1>4, <1>6 DEF Waiting
    <2> QED
      BY <2>1, FS_EmptySet
  <1>7. HasRoom(zc, 0) /\ (Early' => HasReservedRoom(zc, 0))
    <2>1. zc.maxZones \in Nat \ {0}
      BY ZoneAssumption DEF Cluster
    <2> QED
      BY <2>1 DEF HasRoom, HasReservedRoom, Max2
  <1>8. RoomForWaiting'
    <2>1. SUFFICES ASSUME NEW j \in 1 .. n + 1
                   PROVE  /\ HasRoom(activeZoneClusters'[j], Cardinality(Waiting(j)'))
                          /\ Early' => HasReservedRoom(activeZoneClusters'[j], Cardinality(Waiting(j)'))
      BY <1>2 DEF RoomForWaiting
    <2>2. CASE j = n + 1
      BY <1>2, <1>6, <1>7, <2>2
    <2>3. CASE j \in 1 .. n
      BY <1>5, <2>3
    <2> QED
      BY <1>2, <2>2, <2>3
  <1> QED
    BY <1>3, <1>8 DEF ZoneInv

\* A reservation is made before the first client zones in, so its zone is not
\* running yet and its cluster has room for one more.
LEMMA ReserveZoneStep ==
  ASSUME ZoneInv, Early, Early', NEW z \in Zones, NEW alwaysUp \in BOOLEAN,
         ReserveZone(z, alwaysUp)
  PROVE  ZoneInv'
  <1> DEFINE k == Len(activeZoneClusters)
             n == Len(zoneReservations)
             old == activeZoneClusters[k]
             new == [old EXCEPT !.reservedZones = @ + 1,
                                !.zoneCount = IF alwaysUp THEN @ + 1 ELSE @]
  <1>1. /\ activeZoneClusters \in Seq(Cluster)
        /\ zoneReservations \in Seq([zone : Zones, zc : Nat])
        /\ zoneClustersBySourceId \in Seq([zone : Zones, zc : Nat])
        /\ \A r \in DOMAIN zoneReservations : zoneReservations[r].zc \in DOMAIN activeZoneClusters
    BY DEF ZoneInv, ZcTypes, Cluster
  <1>2. /\ k \in DOMAIN activeZoneClusters /\ k \in Nat
        /\ Reserved(z) = {}
        /\ zoneReservations' = Append(zoneReservations, [zone |-> z, zc |-> k])
        /\ IF alwaysUp
             THEN zoneClustersBySourceId' = Append(zoneClustersBySourceId, [zone |-> z, zc |-> k])
             ELSE zoneClustersBySourceId' = zoneClustersBySourceId
    BY <1>1 DEF ReserveZone
  <1>3. old \in Cluster /\ new \in Cluster
    <2>1. old \in Cluster
      BY <1>1, <1>2
    <2> HIDE DEF old
    <2>2. [old EXCEPT !.reservedZones = @ + 1] \in Cluster
      BY <2>1 DEF Cluster
    <2>3. PICK mid \in Cluster : mid = [old EXCEPT !.reservedZones = @ + 1]
      BY <2>2
    <2>4. /\ new = [mid EXCEPT !.zoneCount = IF alwaysUp THEN @ + 1 ELSE @]
          /\ mid.zoneCount \in Nat
      BY <2>1, <2>3 DEF Cluster
    <2>5. PICK c \in Nat : new = [mid EXCEPT !.zoneCount = c]
      BY <2>4
    <2> QED
      BY <2>1, <2>3, <2>5 DEF Cluster
  <1>4. /\ new.maxZones = old.maxZones
        /\ new.reservedZones = old.reservedZones + 1
        /\ new.zoneCount = IF alwaysUp THEN old.zoneCount + 1 ELSE old.zoneCount
        /\ old.zoneCount \in Nat
    BY <1>3 DEF Cluster
  <1>5. activeZoneClusters' = [activeZoneClusters EXCEPT ![k] = new]
    <2>1. CASE alwaysUp
      BY <1>1, <1>2, <1>3, <2>1 DEF ReserveZone, Cluster
    <2>2. CASE ~alwaysUp
      BY <1>1, <1>2, <1>3, <2>2 DEF ReserveZone, Cluster
    <2> QED
      BY <2>1, <2>2
  <1> HIDE DEF new
  <1>6. /\ activeZoneClusters' \in Seq(Cluster)
        /\ DOMAIN activeZoneClusters' = DOMAIN activeZoneClusters
        /\ \A j \in DOMAIN activeZoneClusters :
               /\ activeZoneClusters[j] \in Cluster
               /\ activeZoneClusters'[j] \in Cluster
               /\ j # k => activeZoneClusters'[j] = activeZoneClusters[j]
        /\ activeZoneClusters'[k] = new
    BY <1>1, <1>2, <1>3, <1>5, ReplaceFacts
  <1>7. /\ n \in Nat /\ DOMAIN zoneReservations = 1 .. n
        /\ zoneReservations' \in Seq([zone : Zones, zc : Nat])
        /\ DOMAIN zoneReservations' = 1 .. n + 1
        /\ \A r \in 1 .. n : zoneReservations'[r] = zoneReservations[r]
        /\ zoneReservations'[n + 1] = [zone |-> z, zc |-> k]
    BY <1>1, <1>2
  <1>8. Running(z) = {}
    BY <1>2 DEF ZoneInv, OnlyReserved, Running
  <1>9. /\ zoneClustersBySourceId' \in Seq([zone : Zones, zc : Nat])
        /\ ZoneRunsOnce'
        /\ \A y : Running(y)' = {} => Running(y) = {} /\ (alwaysUp => y # z)
        /\ \A r \in DOMAIN zoneClustersBySourceId' :
               \/ zoneClustersBySourceId'[r].zone = z
               \/ \E s \in DOMAIN zoneClustersBySourceId :
                      zoneClustersBySourceId'[r].zone = zoneClustersBySourceId[s].zone
    <2>1. CASE alwaysUp
      BY <1>2, <1>8, <2>1, ZoneEntered DEF ZoneInv
    <2>2. CASE ~alwaysUp
      BY <1>1, <1>2, <2>2 DEF ZoneInv, ZoneRunsOnce, Running
    <2> QED
      BY <2>1, <2>2
  <1>10. ZcTypes'
    <2>1. ASSUME NEW r \in 1 .. n + 1
          PROVE  zoneReservations'[r].zc \in DOMAIN activeZoneClusters'
      <3>1. CASE r \in 1 .. n
        BY <1>1, <1>6, <1>7, <3>1
      <3>2. CASE r = n + 1
        BY <1>2, <1>6, <1>7, <3>2
      <3> QED
        BY <1>7, <3>1, <3>2
    <2> QED
      BY <1>6, <1>7, <1>9, <2>1 DEF ZcTypes, Cluster
  <1>11. OnlyReserved'
    <2>1. \A y : Reserved(y) # {} \/ y = z => Reserved(y)' # {}
      BY <1>7 DEF Reserved
    <2> QED
      BY <1>9, <2>1 DEF ZoneInv, OnlyReserved
  <1>12. ASSUME NEW j, NEW r \in Waiting(j)'
         PROVE  r \in Waiting(j) \/ (r = n + 1 /\ j = k /\ ~alwaysUp)
    <2>1. /\ r \in 1 .. n + 1
          /\ zoneReservations'[r].zc = j
      BY <1>7, <1>12 DEF Waiting
    <2>2. PICK y : y = zoneReservations'[r].zone /\ Running(y)' = {}
      BY <1>12 DEF Waiting, Running
    <2>3. CASE r \in 1 .. n
      BY <1>7, <1>9, <2>1, <2>2, <2>3 DEF Waiting
    <2>4. CASE r = n + 1
      <3>1. j = k /\ y = z
        BY <1>7, <2>1, <2>2, <2>4
      <3>2. ~alwaysUp
        BY <1>9, <2>2, <3>1
      <3> QED
        BY <2>4, <3>1, <3>2
    <2> QED
      BY <1>7, <2>1, <2>3, <2>4
  <1>13. \A j : /\ Waiting(j)' \in SUBSET (Waiting(j) \cup {n + 1})
                /\ j # k \/ alwaysUp => Waiting(j)' \in SUBSET Waiting(j)
    BY <1>12
  <1>14. ASSUME NEW j \in DOMAIN activeZoneClusters
         PROVE  /\ HasRoom(activeZoneClusters'[j], Cardinality(Waiting(j)'))
                /\ HasReservedRoom(activeZoneClusters'[j], Cardinality(Waiting(j)'))
    <2>1. HasReservedRoom(activeZoneClusters[j], Cardinality(Waiting(j)))
      BY DEF ZoneInv, RoomForWaiting
    <2>2. /\ Cardinality(Waiting(j)) \in Nat /\ Cardinality(Waiting(j)') \in Nat
          /\ Cardinality(Waiting(j)') <= Cardinality(Waiting(j)) + 1
          /\ j # k \/ alwaysUp => Cardinality(Waiting(j)') <= Cardinality(Waiting(j))
      BY <1>1, <1>13, WaitingInDomain, SizeFacts
    <2>3. activeZoneClusters[j].zoneCount \in Nat
      BY <1>6 DEF Cluster
    <2>4. CASE j # k
      BY <1>6, <2>1, <2>2, <2>3, <2>4, RoomFacts
    <2>5. CASE j = k
      <3>1. new.zoneCount + Cardinality(Waiting(j)') <= old.zoneCount + Cardinality(Waiting(j)) + 1
        BY <1>4, <2>2
      <3> QED
        BY <1>3, <1>4, <1>6, <2>1, <2>2, <2>5, <3>1, RoomFacts
    <2> QED
      BY <2>4, <2>5
  <1>15. RoomForWaiting'
    BY <1>6, <1>14 DEF RoomForWaiting
  <1> QED
    BY <1>9, <1>10, <1>11, <1>15 DEF ZoneInv

\* zc_mgr_init keeps the invariant of the clusters ...
LEMMA ConfigureStep ==
  ASSUME ZoneInv, Early, Early', Configure
  PROVE  ZoneInv'
  <1>1. CASE \E max \in MaxZones, up \in BOOLEAN : ConfigureCluster(max, up)
    <2>1. PICK max \in MaxZones, up \in BOOLEAN : ConfigureCluster(max, up)
      BY <1>1
    <2>2. /\ NewCluster(max, up) \in Cluster
          /\ NewCluster(max, up).reservedZones = 0 /\ NewCluster(max, up).zoneCount = 0
      BY DEF NewCluster, Cluster
    <2>3. /\ activeZoneClusters' = Append(activeZoneClusters, NewCluster(max, up))
          /\ zoneReservations' = zoneReservations
          /\ zoneClustersBySourceId' = zoneClustersBySourceId
      BY <2>1 DEF ConfigureCluster
    <2>4. /\ zoneClustersBySourceId' \in Seq([zone : Zones, zc : Nat])
          /\ ZoneRunsOnce' /\ OnlyReserved'
          /\ \A y : Running(y)' = {} => Running(y) = {}
      BY <2>3 DEF ZoneInv, ZcTypes, ZoneRunsOnce, OnlyReserved, Reserved, Running
    <2> QED
      BY <2>2, <2>3, <2>4, NewClusterStep
  <1>2. CASE \E z \in Zones, alwaysUp \in BOOLEAN : ReserveZone(z, alwaysUp)
    BY <1>2, ReserveZoneStep
  <1> QED
    BY <1>1, <1>2 DEF Configure

\* ... and so does zc_mgr_get_or_start, for every place it takes a cluster from.
LEMMA GetOrStartStep ==
  ASSUME ZoneInv, ~Early, ~Early', NEW z \in Zones, NEW k, GetOrStart(z, k)
  PROVE  ZoneInv'
  <1>1. CASE AlreadyRunning(z, k)
    BY <1>1, QuietZones DEF AlreadyRunning, zcVars
  <1>2. CASE FromReserved(z, k) \/ FromFreeSpace(z, k)
    BY <1>2, StartZoneStep
  <1>3. CASE \E up \in BOOLEAN : OnNewCluster(z, k, up)
    <2>1. PICK up \in BOOLEAN : OnNewCluster(z, k, up)
      BY <1>3
    <2> DEFINE zc == [NewCluster(DefaultMax, up) EXCEPT !.zoneCount = 1]
    <2>2. zc \in Cluster /\ zc.reservedZones = 0 /\ zc.zoneCount = 1
      BY ZoneAssumption DEF NewCluster, Cluster
    <2>3. /\ activeZoneClusters' = Append(activeZoneClusters, zc)
          /\ zoneReservations' = zoneReservations
          /\ zoneClustersBySourceId' = Append(zoneClustersBySourceId, [zone |-> z, zc |-> k])
          /\ Running(z) = {}
      BY <2>1 DEF OnNewCluster
    <2>4. k \in Nat
      BY <2>1 DEF OnNewCluster, ZoneInv, ZcTypes
    <2>5. /\ zoneClustersBySourceId' \in Seq([zone : Zones, zc : Nat])
          /\ ZoneRunsOnce'
          /\ \A y : Running(y)' = {} => Running(y) = {}
      BY <2>3, <2>4, ZoneEntered DEF ZoneInv
    <2>6. OnlyReserved'
      BY DEF OnlyReserved
    <2> HIDE DEF zc
    <2> QED
      BY <2>2, <2>3, <2>5, <2>6, NewClusterStep
  <1> QED
    BY <1>1, <1>2, <1>3 DEF GetOrStart

\* Every step keeps the invariant of the clusters: only ConfigureZones and
\* FindCluster change them, and no client is there to be found one before the
\* configuration is over.
LEMMA ZoneStep ==
  ASSUME MasterInv, [Next]_vars
  PROVE  ZoneInv'
  <1> USE DEF Early, threadVars, dbVars, mgrVars, lifeVars, childVars, historyVars, zcVars
  <1>0. ZoneInv /\ NoClientYet /\ QueryTypes
    BY DEF MasterInv, ZoneInv
  <1>1. CASE ConfigureZones
    BY <1>0, <1>1, ConfigureStep DEF ConfigureZones
  <1>2. CASE FindCluster
    <2>1. query.row \in Zones /\ ~Early
      BY <1>0, <1>2 DEF FindCluster, MayAddClient, QueryTypes, Rows, NoClientYet
    <2>2. ipc' = ipc
      BY <1>2 DEF FindCluster
    <2>3. PICK k : GetOrStart(query.row, k)
      BY <1>2 DEF FindCluster
    <2> QED
      BY <1>0, <2>1, <2>2, <2>3, GetOrStartStep
  <1>3. CASE \/ ScheduleMotd \/ ScriptThrows \/ LockConfigure \/ EndConfigure
             \/ HandleKeepAlive \/ HandleClientZoning \/ HandleShutdown
             \/ ClientMgrDeinit \/ UnlockShutdown \/ ThreadEnds
    BY <1>0, <1>3, QuietZones
       DEF ScheduleMotd, ScriptThrows, LockConfigure, EndConfigure, HandleKeepAlive,
           HandleClientZoning, HandleShutdown, IpcUnlock, ClientMgrDeinit, UnlockShutdown, ThreadEnds
  <1>4. CASE \/ CheckShutdown \/ TakeCallback \/ EndCallbacks \/ LockCallback
             \/ MotdCallback \/ RejectClient \/ InformCluster \/ CallbackFaults
    BY <1>0, <1>4, QuietZones
       DEF CheckShutdown, TakeCallback, EndCallbacks, LockCallback, MotdCallback, RejectClient,
           InformCluster, CallbackFaults, EndProcess
  <1>5. CASE \/ ChecksNotDue \/ LockStatus \/ ThreadIsGone \/ RestartSilent \/ KillGroup
             \/ ReadClusters \/ LockShutdown \/ ShutDownChildren \/ ShutDownLogWriter
    BY <1>0, <1>5, QuietZones
       DEF ChecksNotDue, LockStatus, ThreadIsGone, RestartSilent, KillGroup, ReadClusters,
           LockShutdown, ShutDownChildren, ShutDownLogWriter, EndProcess
  <1>6. CASE \/ \E p \in Packets : Receive(p)
             \/ \E q \in Clients \cup {Motd} : QueryDone(q)
             \/ \E p \in Watched : FallSilent(p)
    BY <1>0, <1>6, QuietZones DEF Receive, QueryDone, FallSilent
  <1>7. CASE UNCHANGED vars
    BY <1>0, <1>7, QuietZones DEF vars
  <1> QED
    BY <1>1, <1>2, <1>3, <1>4, <1>5, <1>6, <1>7 DEF Next, Ipc, Main

-----------------------------------------------------------------------------
(* The theorems *)

\* The state that master_main has reached when it starts the IPC thread.
LEMMA MasterInit == Init => MasterInv
  <1> SUFFICES ASSUME Init PROVE MasterInv
    OBVIOUS
  <1>1. QueryTypes /\ NoClientYet
    BY MasterAssumption DEF Init, QueryTypes, NoClientYet, Early, NoQuery, NoPacket, Rows, Motd
  <1>2. ChildTypes
    <2>1. StartOutcomes \subseteq [pid : BOOLEAN, ring : BOOLEAN]
      BY DEF StartOutcomes, Started
    <2> QED
      BY <2>1 DEF Init, ChildTypes
  <1>3. LockInv /\ PidsKnown
    BY DEF Init, LockInv, MainHolds, PidsKnown
  <1>4. ZcTypes /\ OnlyReserved /\ ZoneRunsOnce /\ RoomForWaiting
    BY DEF Init, ZcInit, ZcTypes, OnlyReserved, ZoneRunsOnce, RoomForWaiting
  <1> QED
    BY <1>1, <1>2, <1>3, <1>4 DEF MasterInv

\* MasterInv holds in every reachable state of the master, whatever the zones,
\* the clients and the configured clusters are.
THEOREM MasterCorrect == Spec => []MasterInv
  <1>1. MasterInv /\ [Next]_vars => MasterInv'
    <2> SUFFICES ASSUME MasterInv, [Next]_vars PROVE MasterInv'
      OBVIOUS
    <2>1. ControlInv' /\ ZoneInv'
      BY ControlStep, ZoneStep
    <2> QED
      BY <2>1 DEF MasterInv, ControlInv, ZoneInv
  <1> QED
    BY <1>1, MasterInit, PTL DEF Spec

\* The main thread's callbacks, checks and shutdown and the IPC thread's handlers
\* exclude each other.
THEOREM OneThreadAtATimeHolds == Spec => []OneThreadAtATime
  <1>1. MasterInv => OneThreadAtATime
    BY DEF MasterInv, LockInv, MainHolds, OneThreadAtATime
  <1> QED
    BY <1>1, MasterCorrect, PTL

\* zc_mgr_get_or_start never starts a second copy of a zone.
THEOREM ZoneRunsOnceHolds == Spec => []ZoneRunsOnce
  <1>1. MasterInv => ZoneRunsOnce
    BY DEF MasterInv
  <1> QED
    BY <1>1, MasterCorrect, PTL

\* No cluster is given more zones than it may run or has reserved.
THEOREM WithinCapacityHolds == Spec => []WithinCapacity
  <1>1. MasterInv => WithinCapacity
    <2> SUFFICES ASSUME MasterInv, NEW k \in DOMAIN activeZoneClusters
                 PROVE  activeZoneClusters[k].zoneCount
                            <= Max2(activeZoneClusters[k].maxZones, activeZoneClusters[k].reservedZones)
      BY DEF WithinCapacity
    <2>1. activeZoneClusters[k] \in Cluster
      <3>1. activeZoneClusters \in Seq(Cluster)
        BY DEF MasterInv, ZcTypes, Cluster
      <3> QED
        BY <3>1
    <2>2. /\ activeZoneClusters[k].zoneCount \in Nat
          /\ activeZoneClusters[k].maxZones \in Nat
          /\ activeZoneClusters[k].reservedZones \in Nat
      BY <2>1, ZoneAssumption DEF Cluster
    <2>3. Cardinality(Waiting(k)) \in Nat
      BY WaitingInDomain, SizeFacts DEF MasterInv, ZcTypes
    <2>4. HasRoom(activeZoneClusters[k], Cardinality(Waiting(k)))
      BY DEF MasterInv, RoomForWaiting
    <2> QED
      BY <2>2, <2>3, <2>4 DEF HasRoom, Max2
  <1> QED
    BY <1>1, MasterCorrect, PTL

\* "kill -s 9 0" is not reached while every child could be started.
THEOREM GroupKilledOnlyAfterFailureHolds == Spec => []GroupKilledOnlyAfterFailure
  <1>1. MasterInv => GroupKilledOnlyAfterFailure
    BY DEF MasterInv, PidsKnown, GroupKilledOnlyAfterFailure
  <1> QED
    BY <1>1, MasterCorrect, PTL
=============================================================================
