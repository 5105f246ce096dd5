----------------------------- MODULE LogWriter -----------------------------
(***************************************************************************)
(* The log-writer process (src/log): its main thread takes packets from    *)
(* the shared IPC ring and posts them to the logging thread, which opens,  *)
(* appends to and closes one file per source.  What is in the ring is the  *)
(* choice of every other process (log_from_vformat, ipc_set_log_open,      *)
(* log_close, the master's shutdown), so each read of it returns any       *)
(* packet; IpcBuffer models how the ring carries them.                     *)
(***************************************************************************)
EXTENDS Integers, Sequences

CONSTANTS
    Sources,        \* the processes and zones that have a log of their own
    Master,         \* EQP_SOURCE_ID_MASTER
    MaxPackets,     \* bound: how many packets the main thread reads from the ring
    MinCapacity     \* MIN_CAPACITY of an Array

ASSUME LogAssumption ==
    /\ Master \in Sources
    /\ MaxPackets \in Nat
    /\ MinCapacity \in Nat \ {0}

VARIABLES
    inQueue, writeQueue, logFiles,      \* LogThread
    capacity,       \* the capacity of the writeQueue array
    n, i,           \* the locals of log_thread_process_write_queue
    dangling,       \* its local "packets" points to an array that has moved
    semaphore, shouldStop,              \* Thread
    pc,             \* where the logging thread is
    owner,          \* where the main thread is
    postDue,        \* the main thread has yet to call thread_trigger
    posted,         \* history: the packets that were posted
    handled         \* history: what became of each of them, in that order

queueVars == <<inQueue, writeQueue, logFiles, capacity>>
passVars == <<n, i, dangling>>
historyVars == <<posted, handled>>
vars == <<queueVars, passVars, semaphore, shouldStop, pc, owner, postDue, historyVars>>

\* Every source opens its log and writes to it; the master's is never closed.
Ops(s) == {"open", "message"} \cup (IF s = Master THEN {} ELSE {"close"})

\* The packet that reports that the file of packet p could not be opened.
Report(p) == [op |-> "message", source |-> Master, id |-> 0 - p.id]

\* The capacity after array_push_back has filled the array up to length.
Doubled(c, length) ==
    LET Fits(k) == c * 2 ^ k >= length
    IN  c * 2 ^ (CHOOSE k \in 0 .. length : Fits(k) /\ \A j \in 0 .. k - 1 : ~Fits(j))

Init ==
    /\ inQueue = <<>> /\ writeQueue = <<>> /\ logFiles = <<>>
    /\ capacity = MinCapacity
    /\ n = 0 /\ i = 1 /\ dangling = FALSE
    /\ semaphore = 0 /\ shouldStop = FALSE
    /\ pc = "wait" /\ owner = "run" /\ postDue = FALSE
    /\ posted = <<>> /\ handled = <<>>

-----------------------------------------------------------------------------
(* log_writer_main_loop and log_writer_deinit *)

\* Mutant: log_thread_post_message without its thread_trigger.
Post_NoTrigger(op, s) ==
    /\ owner = "run" /\ ~postDue
    /\ Len(posted) < MaxPackets
    /\ LET p == [op |-> op, source |-> s, id |-> Len(posted) + 1] IN
         inQueue' = Append(inQueue, p) /\ posted' = Append(posted, p)
    /\ UNCHANGED <<writeQueue, logFiles, capacity, passVars, semaphore, shouldStop, pc,
                   owner, postDue, handled>>

\* The main loop reads a packet from the ring: log_thread_post_message.
Post(op, s) ==
    /\ owner = "run" /\ ~postDue
    /\ Len(posted) < MaxPackets
    /\ LET p == [op |-> op, source |-> s, id |-> Len(posted) + 1] IN
         inQueue' = Append(inQueue, p) /\ posted' = Append(posted, p)
    /\ postDue' = TRUE
    /\ UNCHANGED <<writeQueue, logFiles, capacity, passVars, semaphore, shouldStop, pc,
                   owner, handled>>

Trigger ==
    /\ postDue
    /\ postDue' = FALSE
    /\ semaphore' = semaphore + 1
    /\ UNCHANGED <<queueVars, passVars, shouldStop, pc, owner, historyVars>>

ReadShutdown ==
    /\ owner = "run" /\ ~postDue
    /\ shouldStop' = TRUE
    /\ postDue' = TRUE
    /\ owner' = "stopping"
    /\ UNCHANGED <<queueVars, passVars, semaphore, pc, historyVars>>

WaitUntilStopped ==
    /\ owner = "stopping" /\ ~postDue
    /\ pc = "stopped"
    /\ owner' = "deinit"
    /\ UNCHANGED <<queueVars, passVars, semaphore, shouldStop, pc, postDue, historyVars>>

-----------------------------------------------------------------------------
(* log_thread_main_loop *)

ThreadWait ==
    /\ pc = "wait"
    /\ semaphore > 0
    /\ semaphore' = semaphore - 1
    /\ pc' = "read"
    /\ UNCHANGED <<queueVars, passVars, shouldStop, owner, postDue, historyVars>>

\* Mutant: inQueue is not cleared.
ReadInputQueue_NoClear ==
    /\ pc = "read"
    /\ inQueue # <<>>
    /\ writeQueue' = writeQueue \o inQueue
    /\ capacity' = Doubled(capacity, Len(inQueue))
    /\ n' = Len(writeQueue') /\ i' = 1 /\ dangling' = FALSE
    /\ pc' = "process"
    /\ UNCHANGED <<inQueue, logFiles, semaphore, shouldStop, owner, postDue, historyVars>>

\* log_thread_read_input_queue moves everything; the pass over writeQueue then
\* remembers its length and its place in memory.
ReadInputQueue ==
    /\ pc = "read"
    /\ inQueue # <<>>
    /\ writeQueue' = writeQueue \o inQueue
    /\ inQueue' = <<>>
    /\ capacity' = Doubled(capacity, Len(inQueue))
    /\ n' = Len(writeQueue') /\ i' = 1 /\ dangling' = FALSE
    /\ pc' = "process"
    /\ UNCHANGED <<logFiles, semaphore, shouldStop, owner, postDue, historyVars>>

InputQueueEmpty ==
    /\ pc = "read"
    /\ inQueue = <<>>
    /\ pc' = "check"
    /\ UNCHANGED <<queueVars, passVars, semaphore, shouldStop, owner, postDue, historyVars>>

IsOpen(s) == \E k \in DOMAIN logFiles : logFiles[k] = s

Handle(p, result) ==
    /\ handled' = Append(handled, [packet |-> p, result |-> result])
    /\ i' = i + 1
    /\ UNCHANGED <<inQueue, n, semaphore, shouldStop, pc, owner, postDue, posted>>

Processing(op) == pc = "process" /\ i <= n /\ writeQueue[i].op = op

\* The pass reads the memory the array has moved out of.  What is there is
\* undefined: the packets may still be intact (the actions below), or anything
\* may happen, which the model does not follow further.
ReadMovedArray ==
    /\ pc = "process" /\ i <= n
    /\ dangling
    /\ pc' = "undefined"
    /\ UNCHANGED <<queueVars, passVars, semaphore, shouldStop, owner, postDue, historyVars>>

\* log_thread_write
WriteMessage ==
    /\ Processing("message")
    /\ LET p == writeQueue[i] IN
         Handle(p, IF IsOpen(p.source) THEN "written" ELSE "dropped")
    /\ UNCHANGED <<writeQueue, logFiles, capacity, dangling>>

\* log_thread_open: the file is already open, or it can be opened ...
OpenFile ==
    /\ Processing("open")
    /\ LET p == writeQueue[i] IN
         /\ logFiles' = IF IsOpen(p.source) THEN logFiles ELSE Append(logFiles, p.source)
         /\ Handle(p, "opened")
    /\ UNCHANGED <<writeQueue, capacity, dangling>>

\* ... or it cannot, and a report is pushed onto the queue that is being
\* processed.  When the array is full it grows, and realloc may move it.
OpenFails ==
    /\ Processing("open")
    /\ LET p == writeQueue[i] IN
         /\ ~IsOpen(p.source)
         /\ writeQueue' = Append(writeQueue, Report(p))
         /\ Handle(p, "failed")
    /\ capacity' = Doubled(capacity, Len(writeQueue) + 1)
    /\ dangling' \in IF capacity' > capacity THEN {dangling, TRUE} ELSE {dangling}
    /\ UNCHANGED logFiles

Remove(s, k) == SubSeq([s EXCEPT ![k] = s[Len(s)]], 1, Len(s) - 1)

\* log_thread_close
CloseFile ==
    /\ Processing("close")
    /\ LET p == writeQueue[i]
           found == {k \in DOMAIN logFiles : logFiles[k] = p.source} IN
         /\ \/ found = {} /\ UNCHANGED logFiles
            \/ \E k \in found : (\A m \in found : k <= m) /\ logFiles' = Remove(logFiles, k)
         /\ Handle(p, "closed")
    /\ UNCHANGED <<writeQueue, capacity, dangling>>

EndPass ==
    /\ pc = "process"
    /\ i > n
    /\ writeQueue' = <<>>
    /\ n' = 0 /\ i' = 1
    /\ pc' = "read"
    /\ UNCHANGED <<inQueue, logFiles, capacity, dangling, semaphore, shouldStop,
                   owner, postDue, historyVars>>

\* On the way out every file is closed.
CheckStop ==
    /\ pc = "check"
    /\ pc' = IF shouldStop THEN "stopped" ELSE "wait"
    /\ logFiles' = IF shouldStop THEN <<>> ELSE logFiles
    /\ UNCHANGED <<inQueue, writeQueue, capacity, passVars, semaphore, shouldStop,
                   owner, postDue, historyVars>>

-----------------------------------------------------------------------------

MainThread == Trigger \/ WaitUntilStopped

LogThread ==
    \/ ThreadWait \/ ReadInputQueue \/ InputQueueEmpty
    \/ ReadMovedArray \/ WriteMessage \/ OpenFile \/ OpenFails \/ CloseFile
    \/ EndPass \/ CheckStop

Next ==
    \/ \E s \in Sources : \E op \in Ops(s) : Post(op, s)
    \/ ReadShutdown
    \/ MainThread
    \/ LogThread

Spec == Init /\ [][Next]_vars

\* Both threads of the process keep running; nobody has to write to the ring.
FairSpec == Spec /\ WF_vars(MainThread) /\ WF_vars(LogThread)

-----------------------------------------------------------------------------
(* Properties *)

SameSource(j, k) == handled[j].packet.source = handled[k].packet.source

OpenedBefore(k) ==
    \E j \in 1 .. k - 1 :
        /\ SameSource(j, k) /\ handled[j].result = "opened"
        /\ \A m \in j + 1 .. k - 1 : SameSource(m, k) => handled[m].result # "closed"

\* Every posted packet is handled once and in the order of posting, however
\* the two threads interleave and whatever reports are pushed in between (as
\* long as the pass has not read an array that has moved).  A message reaches
\* its file exactly when its source opened the file, with success, and has not
\* closed it since: closing one log, which swaps the last file into its place,
\* never takes another one down.
HandledInOrder ==
    /\ pc # "undefined" =>
           posted = [k \in DOMAIN handled |-> handled[k].packet] \o SubSeq(writeQueue, i, n) \o inQueue
    /\ \A k \in DOMAIN handled : handled[k].packet.op = "message" =>
           (handled[k].result = "written" <=> OpenedBefore(k))

\* A packet that is posted is eventually handled, unless the process shuts down
\* (a packet posted after the last look into inQueue and before the stop is
\* lost); and shutting down comes to an end: the logging thread wakes up and
\* sees it.
EventuallyHandled ==
    /\ Len(posted) > Len(handled)
           ~> (Len(posted) = Len(handled) \/ shouldStop \/ pc = "undefined")
    /\ shouldStop ~> (owner = "deinit" \/ pc = "undefined")
=============================================================================
