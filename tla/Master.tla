------------------------------- MODULE Master -------------------------------
(***************************************************************************)
(* The master process (src/master): its main thread, which runs the        *)
(* database callbacks and the status checks and shuts the children down,   *)
(* and its IPC thread, which handles the packets of the other processes.   *)
(* One lock, ClientMgr.mutex, is meant to keep them apart; taking it,      *)
(* working under it and what is done without it are steps of their own.    *)
(* IpcBuffer models the ring the packets come from, DbThread the thread    *)
(* that executes queries and TimerPool the timer of the status checks:     *)
(* here a packet may arrive, a query may finish and the timer may be due   *)
(* at any time.                                                            *)
(***************************************************************************)
EXTENDS ZoneClusterMgr

CONSTANTS
    Clients,        \* the characters that char select sends to a zone
    NoRow,          \* the answer to a query that finds nothing
    Watched         \* the children with a status check: login and char select

Motd == "motd"                          \* the query for the message of the day

ASSUME MasterAssumption ==
    /\ NoRow \notin Zones
    /\ Motd \notin Clients /\ "none" \notin Clients
    /\ "charSelect" \in Watched /\ Watched \subseteq {"login", "charSelect"}

VARIABLES
    mutex,          \* ClientMgr.mutex: "free" or the thread that holds it
    main, ipc,      \* where the main thread and the IPC thread are
    packet,         \* the IPC thread's local packet
    query, target,  \* the query whose callback the main thread runs, and its cluster
    inDb, outQueue, \* queries being executed, and executed ones
    clientMgr,      \* "none", "up" or "gone" (client_mgr_deinit)
    motdLoaded,     \* ClientMgr.messageOfTheDay is set
    mutexShutdown,  \* MasterIpcThread.mutexShutdown is still locked
    mutexLifetime,  \* the Thread's mutexLifetime is still locked
    silent,         \* the watched children not heard of for 15 seconds
    child,          \* records [pid, ring] of the watched children
    zcProcs,        \* how many clusters the shutting-down main thread has read
    requested,      \* history: the clients that asked to zone in
    answers,        \* history: what char select was told about each of them
    stopped,        \* history: the children that were sent Shutdown, in order
    spawnFailed     \* history: a child could not be started

threadVars == <<mutex, main, ipc, packet, query, target>>
dbVars == <<inDb, outQueue>>
mgrVars == <<clientMgr, motdLoaded>>
lifeVars == <<mutexShutdown, mutexLifetime>>
childVars == <<silent, child, spawnFailed>>
historyVars == <<requested, answers, stopped>>
vars == <<zcVars, threadVars, dbVars, mgrVars, lifeVars, childVars, zcProcs, historyVars>>

NoPacket == [op |-> "none"]
NoQuery == [of |-> "none", row |-> NoRow]

Started == [pid |-> TRUE, ring |-> TRUE]

\* What master_start_process leaves behind: the ring or the fork may fail.
StartOutcomes == {Started, [pid |-> FALSE, ring |-> TRUE], [pid |-> FALSE, ring |-> FALSE]}

\* master_main up to master_start_ipc_thread
Init ==
    /\ ZcInit
    /\ mutex = "free" /\ main = "loop" /\ ipc = "start"
    /\ packet = NoPacket /\ query = NoQuery /\ target = 0
    /\ inDb = {} /\ outQueue = <<>>
    /\ clientMgr = "none" /\ motdLoaded = FALSE
    /\ mutexShutdown = TRUE /\ mutexLifetime = TRUE
    /\ child \in [Watched -> StartOutcomes]
    /\ silent = {p \in Watched : ~child[p].pid}
    /\ spawnFailed = (\E p \in Watched : ~child[p].pid)
    /\ zcProcs = 0
    /\ requested = {} /\ answers = [c \in Clients |-> <<>>] /\ stopped = <<>>

-----------------------------------------------------------------------------
(* The IPC thread: master_ipc_thread_main_loop *)

\* client_mgr_init: the queries are scheduled under the lock ...
ScheduleMotd ==
    /\ ipc = "start" /\ mutex = "free"
    /\ inDb' = inDb \cup {Motd}
    /\ clientMgr' = "up"
    /\ ipc' = "scripts"
    /\ UNCHANGED <<zcVars, mutex, main, packet, query, outQueue, motdLoaded, lifeVars, childVars,
                   zcProcs, historyVars, target>>

\* ... a script that is missing or broken ends the thread with an exception ...
ScriptThrows ==
    /\ ipc \in {"start", "scripts"}
    /\ ipc' = "leaving"
    /\ UNCHANGED <<zcVars, mutex, main, packet, query, dbVars, mgrVars, lifeVars, childVars,
                   zcProcs, historyVars, target>>

\* ... and the zone clusters are configured under the lock again.
LockConfigure ==
    /\ ipc = "scripts" /\ mutex = "free"
    /\ mutex' = "ipc" /\ ipc' = "configure"
    /\ UNCHANGED <<zcVars, main, packet, query, dbVars, mgrVars, lifeVars, childVars,
                   zcProcs, historyVars, target>>

\* zc_mgr_init
ConfigureZones ==
    /\ ipc = "configure"
    /\ Configure
    /\ UNCHANGED <<threadVars, dbVars, mgrVars, lifeVars, childVars, zcProcs, historyVars>>

EndConfigure ==
    /\ ipc = "configure"
    /\ mutex' = "free" /\ ipc' = "wait"
    /\ UNCHANGED <<zcVars, main, packet, query, dbVars, mgrVars, lifeVars, childVars,
                   zcProcs, historyVars, target>>

\* ipc_buffer_read in master_ipc_loop, then the lock.  A packet that waits for
\* the lock in the thread's hands is no different from one still in the ring.
Receive(p) ==
    /\ ipc = "wait" /\ mutex = "free"
    /\ packet' = p
    /\ mutex' = "ipc" /\ ipc' = "handle"
    /\ requested' = IF p.op = "ClientZoning" THEN requested \cup {p.client} ELSE requested
    /\ UNCHANGED <<zcVars, main, query, target, dbVars, mgrVars, lifeVars, childVars,
                   zcProcs, answers, stopped>>

\* The end of master_ipc_thread_handle_packet
IpcUnlock(label) ==
    /\ mutex' = "free"
    /\ ipc' = label
    /\ packet' = NoPacket

\* proc_update_last_activity_time
HandleKeepAlive ==
    /\ ipc = "handle" /\ packet.op = "KeepAlive"
    /\ silent' = IF child[packet.source].ring THEN silent \ {packet.source} ELSE silent
    /\ IpcUnlock("wait")
    /\ UNCHANGED <<zcVars, main, query, dbVars, mgrVars, lifeVars, child, spawnFailed,
                   zcProcs, historyVars, target>>

\* client_mgr_handle_zone_in_from_char_select
HandleClientZoning ==
    /\ ipc = "handle" /\ packet.op = "ClientZoning"
    /\ IF child["charSelect"].ring
         THEN inDb' = inDb \cup {packet.client} /\ silent' = silent \ {"charSelect"}
         ELSE UNCHANGED <<inDb, silent>>
    /\ IpcUnlock("wait")
    /\ UNCHANGED <<zcVars, main, query, outQueue, mgrVars, lifeVars, child, spawnFailed,
                   zcProcs, historyVars, target>>

\* console_receive, for the command "shutdown": the only one that ends the loop
HandleShutdown ==
    /\ ipc = "handle" /\ packet.op = "shutdown"
    /\ IpcUnlock("deinit")
    /\ UNCHANGED <<zcVars, main, query, dbVars, mgrVars, lifeVars, childVars, zcProcs, historyVars, target>>

\* Mutant: mutexShutdown is not unlocked afterwards.
ClientMgrDeinit_NoSignal ==
    /\ ipc = "deinit"
    /\ clientMgr' = "gone" /\ motdLoaded' = FALSE
    /\ ipc' = "leaving"
    /\ UNCHANGED <<zcVars, mutex, main, packet, query, dbVars, lifeVars, childVars,
                   zcProcs, historyVars, target>>

\* client_mgr_deinit, which does not take the lock
ClientMgrDeinit ==
    /\ ipc = "deinit"
    /\ clientMgr' = "gone" /\ motdLoaded' = FALSE
    /\ ipc' = "unlockShutdown"
    /\ UNCHANGED <<zcVars, mutex, main, packet, query, dbVars, lifeVars, childVars,
                   zcProcs, historyVars, target>>

UnlockShutdown ==
    /\ ipc = "unlockShutdown"
    /\ mutexShutdown' = FALSE
    /\ ipc' = "leaving"
    /\ UNCHANGED <<zcVars, mutex, main, packet, query, dbVars, mgrVars, mutexLifetime, childVars,
                   zcProcs, historyVars, target>>

\* thread_proc_wrapper
ThreadEnds ==
    /\ ipc = "leaving"
    /\ mutexLifetime' = FALSE
    /\ ipc' = "ended"
    /\ UNCHANGED <<zcVars, mutex, main, packet, query, dbVars, mgrVars, mutexShutdown, childVars,
                   zcProcs, historyVars, target>>

-----------------------------------------------------------------------------
(* The database thread, and time *)

MasterUp == main \notin {"undefined", "killed", "exited"}

\* What the database holds is up to the other processes.
QueryDone(q) ==
    /\ q \in inDb /\ MasterUp
    /\ inDb' = inDb \ {q}
    /\ \E row \in IF q = Motd THEN {NoRow} ELSE Zones \cup {NoRow} :
           outQueue' = Append(outQueue, [of |-> q, row |-> row])
    /\ UNCHANGED <<zcVars, threadVars, mgrVars, lifeVars, childVars, zcProcs, historyVars>>

FallSilent(p) ==
    /\ p \notin silent /\ MasterUp
    /\ silent' = silent \cup {p}
    /\ UNCHANGED <<zcVars, threadVars, dbVars, mgrVars, lifeVars, child, spawnFailed, zcProcs, historyVars>>

-----------------------------------------------------------------------------
(* The main thread: master_main_loop *)

MainGoto(label) == main' = label

\* What ends the main thread ends the process.
EndProcess(label) == main' = label /\ ipc' = "killed"

CheckShutdown ==
    /\ main = "loop"
    /\ IF mutexShutdown THEN MainGoto("callbacks") ELSE MainGoto("deinit")
    /\ UNCHANGED <<zcVars, mutex, ipc, packet, query, dbVars, mgrVars, lifeVars, childVars,
                   zcProcs, historyVars, target>>

\* db_thread_execute_query_callbacks takes the back of outQueue ...
TakeCallback ==
    /\ main = "callbacks"
    /\ outQueue # <<>>
    /\ query' = outQueue[Len(outQueue)]
    /\ outQueue' = SubSeq(outQueue, 1, Len(outQueue) - 1)
    /\ MainGoto("lockCallback")
    /\ UNCHANGED <<zcVars, mutex, ipc, packet, inDb, mgrVars, lifeVars, childVars, zcProcs, historyVars, target>>

EndCallbacks ==
    /\ main = "callbacks"
    /\ outQueue = <<>>
    /\ MainGoto("timers")
    /\ UNCHANGED <<zcVars, mutex, ipc, packet, query, dbVars, mgrVars, lifeVars, childVars,
                   zcProcs, historyVars, target>>

\* ... and each of the callbacks takes the lock.
LockCallback ==
    /\ main = "lockCallback" /\ mutex = "free"
    /\ mutex' = "main"
    /\ MainGoto("callback")
    /\ UNCHANGED <<zcVars, ipc, packet, query, dbVars, mgrVars, lifeVars, childVars,
                   zcProcs, historyVars, target>>

CallbackDone ==
    /\ mutex' = "free"
    /\ query' = NoQuery
    /\ MainGoto("callbacks")

\* client_mgr_motd_callback
MotdCallback ==
    /\ main = "callback" /\ query.of = Motd
    /\ motdLoaded' = TRUE
    /\ CallbackDone
    /\ UNCHANGED <<zcVars, ipc, packet, dbVars, clientMgr, lifeVars, childVars, zcProcs, historyVars, target>>

\* proc_ipc_send to char select: dropped when it has no ring.
Answer(c, msg) ==
    answers' = IF child["charSelect"].ring THEN [answers EXCEPT ![c] = Append(@, msg)] ELSE answers

\* Mutant: char select is not told.
RejectClient_Silent ==
    /\ main = "callback" /\ query.of \in Clients
    /\ query.row = NoRow
    /\ CallbackDone
    /\ UNCHANGED <<zcVars, ipc, packet, dbVars, mgrVars, lifeVars, childVars, zcProcs, historyVars, target>>

\* client_mgr_from_char_select_callback finds no row
RejectClient ==
    /\ main = "callback" /\ query.of \in Clients
    /\ query.row = NoRow
    /\ Answer(query.of, "Reject")
    /\ CallbackDone
    /\ UNCHANGED <<zcVars, ipc, packet, dbVars, mgrVars, lifeVars, childVars, zcProcs, requested, stopped, target>>

MayAddClient == query.of \in Clients /\ query.row # NoRow

\* client_mgr_add_client_from_char_select gets a cluster for the zone ...
FindCluster ==
    /\ main = "callback" /\ MayAddClient
    /\ clientMgr = "up" /\ motdLoaded
    /\ \E k \in 1 .. Len(activeZoneClusters) + 1 :
           GetOrStart(query.row, k) /\ target' = k
    /\ MainGoto("inform")
    /\ UNCHANGED <<mutex, ipc, packet, query, dbVars, mgrVars, lifeVars, childVars, zcProcs, historyVars>>

\* ... tells it of the client, and char select of the cluster.
InformCluster ==
    /\ main = "inform"
    /\ clientMgr = "up"
    /\ inbox' = Sent(inbox, target, [op |-> "ClientZoning", arg |-> query.row])
    /\ Answer(query.of, "Address")
    /\ target' = 0
    /\ CallbackDone
    /\ UNCHANGED <<activeZoneClusters, zoneClustersBySourceId, zoneReservations, ipc, packet, dbVars,
                   mgrVars, lifeVars, childVars, zcProcs, requested, stopped>>

\* messageOfTheDay, or the client manager's arrays and strings, are NULL.
CallbackFaults ==
    /\ \/ main = "callback" /\ MayAddClient
       \/ main = "inform"
    /\ clientMgr # "up" \/ ~motdLoaded
    /\ EndProcess("undefined")
    /\ UNCHANGED <<zcVars, mutex, packet, query, target, dbVars, mgrVars, lifeVars, childVars,
                   zcProcs, historyVars>>

-----------------------------------------------------------------------------
(* timer_pool_execute_callbacks: master_status_checks_callback, if it is due *)

ChecksNotDue ==
    /\ main = "timers"
    /\ MainGoto("loop")
    /\ UNCHANGED <<zcVars, mutex, ipc, packet, query, target, dbVars, mgrVars, lifeVars, childVars,
                   zcProcs, historyVars>>

LockStatus ==
    /\ main = "timers" /\ mutex = "free"
    /\ mutex' = "main"
    /\ MainGoto("status")
    /\ UNCHANGED <<zcVars, ipc, packet, query, target, dbVars, mgrVars, lifeVars, childVars,
                   zcProcs, historyVars>>

\* master_check_threads_status throws; nothing releases the lock on the way to
\* master_deinit.
ThreadIsGone ==
    /\ main = "status"
    /\ ~mutexLifetime
    /\ MainGoto("deinit")
    /\ UNCHANGED <<zcVars, mutex, ipc, packet, query, target, dbVars, mgrVars, lifeVars, childVars,
                   zcProcs, historyVars>>

\* master_check_child_procs_status: proc_kill and master_start_process for every
\* silent child.  A child that is started counts as heard of, unless its 32-bit
\* timestamp is behind the clock (2^32 milliseconds after boot); one that is not
\* started keeps its old timestamp.
RestartSilent ==
    /\ main = "status"
    /\ mutexLifetime
    /\ \A p \in silent : child[p].pid
    /\ \E outcome \in [silent -> StartOutcomes] :
         /\ child' = [p \in Watched |-> IF p \in silent THEN outcome[p] ELSE child[p]]
         /\ \E late \in SUBSET silent : silent' = {p \in silent : outcome[p] # Started} \cup late
         /\ spawnFailed' = IF \E p \in silent : outcome[p] # Started THEN TRUE ELSE spawnFailed
    /\ mutex' = "free"
    /\ MainGoto("loop")
    /\ UNCHANGED <<zcVars, ipc, packet, query, target, dbVars, mgrVars, lifeVars, zcProcs, historyVars>>

\* proc_kill of a child that has no pid is "kill -s 9 0": every process of the
\* master's group, the master included.
KillGroup ==
    /\ main = "status"
    /\ mutexLifetime
    /\ \E p \in silent : ~child[p].pid
    /\ EndProcess("killed")
    /\ UNCHANGED <<zcVars, mutex, packet, query, target, dbVars, mgrVars, lifeVars, childVars,
                   zcProcs, historyVars>>

-----------------------------------------------------------------------------
(* master_deinit: master_shut_down_all_child_processes and core_deinit *)

\* The array of clusters is read before the lock is taken.
ReadClusters ==
    /\ main = "deinit"
    /\ zcProcs' = Len(activeZoneClusters)
    /\ MainGoto("lockShutdown")
    /\ UNCHANGED <<zcVars, mutex, ipc, packet, query, target, dbVars, mgrVars, lifeVars, childVars, historyVars>>

LockShutdown ==
    /\ main = "lockShutdown" /\ mutex = "free"
    /\ mutex' = "main"
    /\ MainGoto("shutdown")
    /\ UNCHANGED <<zcVars, ipc, packet, query, target, dbVars, mgrVars, lifeVars, childVars,
                   zcProcs, historyVars>>

Child(p, id) == [proc |-> p, id |-> id]

WithRing(p) == IF p \in Watched /\ child[p].ring THEN <<Child(p, 0)>> ELSE <<>>

ClustersUp ==
    SelectSeq([k \in 1 .. zcProcs |-> Child("zoneCluster", k)],
              LAMBDA zc : activeZoneClusters[zc.id].up)

\* proc_shutdown of login, char select and the clusters
ShutDownChildren ==
    /\ main = "shutdown"
    /\ stopped' = WithRing("login") \o WithRing("charSelect") \o ClustersUp
    /\ child' = [p \in Watched |-> [pid |-> FALSE, ring |-> FALSE]]
    /\ MainGoto("sleep")
    /\ UNCHANGED <<zcVars, mutex, ipc, packet, query, target, dbVars, mgrVars, lifeVars,
                   silent, spawnFailed, zcProcs, requested, answers>>

\* The log writer comes last.
ShutDownLogWriter ==
    /\ main = "sleep"
    /\ stopped' = Append(stopped, Child("logWriter", 0))
    /\ mutex' = "free"
    /\ EndProcess("exited")
    /\ UNCHANGED <<zcVars, packet, query, target, dbVars, mgrVars, lifeVars, childVars,
                   zcProcs, requested, answers>>

-----------------------------------------------------------------------------

Packets ==
    [op : {"KeepAlive"}, source : Watched]
        \cup [op : {"ClientZoning"}, client : Clients \ requested]
        \cup [op : {"shutdown"}]

Ipc ==
    \/ ScheduleMotd \/ LockConfigure \/ EndConfigure
    \/ HandleKeepAlive \/ HandleClientZoning \/ HandleShutdown
    \/ ClientMgrDeinit \/ UnlockShutdown \/ ThreadEnds

Main ==
    \/ CheckShutdown \/ TakeCallback \/ EndCallbacks \/ LockCallback
    \/ MotdCallback \/ RejectClient \/ FindCluster \/ InformCluster \/ CallbackFaults
    \/ ChecksNotDue \/ LockStatus \/ ThreadIsGone \/ RestartSilent \/ KillGroup
    \/ ReadClusters \/ LockShutdown \/ ShutDownChildren \/ ShutDownLogWriter

Next ==
    \/ Ipc \/ Main
    \/ ScriptThrows
    \/ ConfigureZones
    \/ \E p \in Packets : Receive(p)
    \/ \E q \in Clients \cup {Motd} : QueryDone(q)
    \/ \E p \in Watched : FallSilent(p)

Spec == Init /\ [][Next]_vars

\* Both threads and the database thread keep running.  The lock is a spin lock:
\* a thread that tries again and again finds it free at some time.
Fairness ==
    /\ WF_vars(Ipc) /\ SF_vars(LockConfigure)
    /\ WF_vars(Main) /\ SF_vars(LockCallback \/ LockShutdown)
    /\ \A q \in Clients \cup {Motd} : WF_vars(QueryDone(q))

FairSpec == Spec /\ Fairness

-----------------------------------------------------------------------------
(* The inductive invariant behind OneThreadAtATime, ZoneRunsOnce,           *)
(* WithinCapacity and GroupKilledOnlyAfterFailure, by parts.                *)

Rows == Zones \cup {NoRow}

ZcTypes ==
    /\ activeZoneClusters \in
           Seq([maxZones : MaxZones, reservedZones : Nat, zoneCount : Nat, up : BOOLEAN])
    /\ zoneClustersBySourceId \in Seq([zone : Zones, zc : Nat])
    /\ zoneReservations \in Seq([zone : Zones, zc : Nat])
    /\ \A r \in DOMAIN zoneReservations : zoneReservations[r].zc \in DOMAIN activeZoneClusters

QueryTypes ==
    /\ inDb \subseteq Clients \cup {Motd}
    /\ outQueue \in Seq([of : Clients \cup {Motd}, row : Rows])
    /\ query \in [of : Clients \cup {Motd, "none"}, row : Rows]
    /\ packet.op = "ClientZoning" => packet.client \in Clients

ChildTypes ==
    /\ child \in [Watched -> [pid : BOOLEAN, ring : BOOLEAN]]
    /\ silent \subseteq Watched
    /\ spawnFailed \in BOOLEAN

MainHolds == main \in {"callback", "inform", "status", "shutdown", "sleep"}

LockInv ==
    /\ MainHolds => mutex = "main"
    /\ mutex = "ipc" <=> ipc \in {"configure", "handle"}

\* Until the configuration is over no client is on its way ...
Early == ipc \in {"start", "scripts", "configure"}

NoClientYet ==
    Early => /\ inDb \cap Clients = {}
             /\ \A j \in DOMAIN outQueue : outQueue[j].of \notin Clients
             /\ query.of \notin Clients

\* ... and so only reserved zones run.
OnlyReserved ==
    Early => \A r \in DOMAIN zoneClustersBySourceId : Reserved(zoneClustersBySourceId[r].zone) # {}

\* The reservations on cluster k whose zone has not been started.
Waiting(k) == {r \in DOMAIN zoneReservations :
                  zoneReservations[r].zc = k /\ Running(zoneReservations[r].zone) = {}}

\* There is room for w more zones, in the end and before the first client.
HasRoom(zc, w) ==
    /\ w <= zc.reservedZones
    /\ zc.zoneCount + w <= Max2(zc.maxZones, zc.reservedZones)

HasReservedRoom(zc, w) == zc.zoneCount + w <= zc.reservedZones

RoomForWaiting ==
    \A k \in DOMAIN activeZoneClusters :
        /\ HasRoom(activeZoneClusters[k], Cardinality(Waiting(k)))
        /\ Early => HasReservedRoom(activeZoneClusters[k], Cardinality(Waiting(k)))

PidsKnown ==
    /\ (\E p \in Watched : ~child[p].pid) => spawnFailed \/ main \in {"sleep", "exited"}
    /\ main = "killed" => spawnFailed

\* What the master's threads keep: who holds the lock, that nothing but reserved
\* zones is started before the first client, and that every cluster has room for
\* the reserved zones still to come.
MasterInv ==
    /\ ZcTypes /\ QueryTypes /\ ChildTypes
    /\ LockInv
    /\ NoClientYet /\ OnlyReserved
    /\ ZoneRunsOnce
    /\ RoomForWaiting
    /\ PidsKnown

-----------------------------------------------------------------------------
(* Properties *)

\* The threads work on the clusters, the clients and the children one at a time.
OneThreadAtATime ==
    ~( /\ main \in {"callback", "inform", "status", "shutdown", "sleep"}
       /\ ipc \in {"configure", "handle"})

\* Each child that was running is told once to stop, the log writer last.
StoppedInOrder ==
    main = "exited" =>
        /\ stopped[Len(stopped)] = Child("logWriter", 0)
        /\ \A k \in DOMAIN activeZoneClusters : activeZoneClusters[k].up =>
               Cardinality({j \in DOMAIN stopped : stopped[j] = Child("zoneCluster", k)}) = 1

\* The master kills a process group only after it has failed to start a child.
GroupKilledOnlyAfterFailure == main = "killed" => spawnFailed

\* The thread that holds the lock is the one that waits for it: a status check
\* found that the IPC thread had ended.
SelfLocked == main = "lockShutdown" /\ mutex = "main"

\* A shutdown command brings the master down, with every child told once to
\* stop and the log writer last, except where the status check comes between
\* the end of the IPC thread and the main loop's look at it.
ShutdownCompletes == ipc = "deinit" ~> ((~MasterUp /\ StoppedInOrder) \/ SelfLocked)

\* A client that asks to zone in is answered in the end, unless the master
\* shuts down or char select has no ring to hear the answer on.
EventuallyAnswered ==
    \A c \in Clients :
        c \in requested
            ~> (answers[c] # <<>> \/ ~MasterUp \/ SelfLocked \/ ~mutexShutdown \/ ~child["charSelect"].ring)
=============================================================================
