------------------------------ MODULE DbThread ------------------------------
(***************************************************************************)
(* The database thread of src/common/db/db_thread.c, the Thread object it  *)
(* runs on (src/common/eqp_thread.c) and the thread that owns it: queries  *)
(* and transactions are scheduled by the owner, executed in the background *)
(* and their callbacks run by the owner again.  Each critical section      *)
(* under mutexInQueue or mutexOutQueue is one step; between two of them    *)
(* the other thread may run.                                               *)
(***************************************************************************)
EXTENDS Integers, Sequences, FiniteSets

CONSTANTS
    Queries,        \* the queries that may be scheduled, each of them once
    Transactions,   \* the transactions that may be scheduled, each of them once
    Callback,       \* the jobs that were given a QueryCallback
    Failing         \* the jobs for which sqlite3_step reports an error

Jobs == Queries \cup Transactions

NoJob == "none"

ASSUME DbAssumption ==
    /\ Queries \cap Transactions = {} /\ NoJob \notin Jobs
    /\ Callback \subseteq Jobs
    /\ Failing \subseteq Jobs

VARIABLES
    inQueue, inTransactionQueue, executeQueue, outQueue,    \* DbThread
    semaphore,      \* Thread.semaphore
    shouldStop,     \* Thread.mutexShouldContinue has been unlocked
    pc,             \* where the database thread is in db_thread_main_loop
    i,              \* the index of db_thread_execute_queries, from 1
    trans,          \* the transaction being run
    owner,          \* where the owning thread is
    postDue,        \* the owner has yet to call thread_trigger
    query,          \* the query whose callback the owner runs
    scheduled,      \* history: the jobs scheduled so far
    executed,       \* history: how often each job was executed
    finished        \* history: the jobs that are done with, callback included

queueVars == <<inQueue, inTransactionQueue, executeQueue, outQueue>>
threadVars == <<pc, i, trans>>
ownerVars == <<owner, postDue, query>>
historyVars == <<scheduled, executed, finished>>
vars == <<queueVars, semaphore, shouldStop, threadVars, ownerVars, historyVars>>

Front(s) == SubSeq(s, 1, Len(s) - 1)
Back(s) == s[Len(s)]

\* Mutant: the last element is dropped whatever the index.
SwapAndPop_Back(s, k) == Front(s)

\* array_swap_and_pop
SwapAndPop(s, k) == Front([s EXCEPT ![k] = Back(s)])

Init ==
    /\ inQueue = <<>> /\ inTransactionQueue = <<>>
    /\ executeQueue = <<>> /\ outQueue = <<>>
    /\ semaphore = 0
    /\ shouldStop = FALSE
    /\ pc = "wait" /\ i = 1 /\ trans = NoJob
    /\ owner = "run" /\ postDue = FALSE /\ query = NoJob
    /\ scheduled = {}
    /\ executed = [j \in Jobs |-> 0]
    /\ finished = {}

-----------------------------------------------------------------------------
(* The owner: the main thread of a process. *)

MaySchedule == owner \in {"run", "callback"} /\ ~postDue

ScheduleQuery(q) ==
    /\ MaySchedule
    /\ q \notin scheduled
    /\ inQueue' = Append(inQueue, q)
    /\ postDue' = TRUE
    /\ scheduled' = scheduled \cup {q}
    /\ UNCHANGED <<inTransactionQueue, executeQueue, outQueue, semaphore, shouldStop,
                   threadVars, owner, query, executed, finished>>

ScheduleTransaction(t) ==
    /\ MaySchedule
    /\ t \notin scheduled
    /\ inTransactionQueue' = Append(inTransactionQueue, t)
    /\ postDue' = TRUE
    /\ scheduled' = scheduled \cup {t}
    /\ UNCHANGED <<inQueue, executeQueue, outQueue, semaphore, shouldStop,
                   threadVars, owner, query, executed, finished>>

\* thread_trigger
Trigger ==
    /\ postDue
    /\ postDue' = FALSE
    /\ semaphore' = semaphore + 1
    /\ UNCHANGED <<queueVars, shouldStop, threadVars, owner, query, historyVars>>

\* db_thread_execute_query_callbacks: take the back of outQueue, run its
\* callback without the mutex, finalize it, and look again.
BeginCallbacks ==
    /\ owner = "run" /\ ~postDue
    /\ outQueue # <<>>
    /\ owner' = "pump"
    /\ UNCHANGED <<queueVars, semaphore, shouldStop, threadVars, postDue, query, historyVars>>

TakeCallback ==
    /\ owner = "pump"
    /\ outQueue # <<>>
    /\ query' = Back(outQueue)
    /\ outQueue' = Front(outQueue)
    /\ owner' = "callback"
    /\ UNCHANGED <<inQueue, inTransactionQueue, executeQueue, semaphore, shouldStop,
                   threadVars, postDue, historyVars>>

FinishCallback ==
    /\ owner = "callback" /\ ~postDue
    /\ finished' = finished \cup {query}
    /\ query' = NoJob
    /\ owner' = "pump"
    /\ UNCHANGED <<queueVars, semaphore, shouldStop, threadVars, postDue, scheduled, executed>>

EndCallbacks ==
    /\ owner = "pump"
    /\ outQueue = <<>>
    /\ owner' = "run"
    /\ UNCHANGED <<queueVars, semaphore, shouldStop, threadVars, postDue, query, historyVars>>

\* core_deinit: thread_send_stop_signal ...
SendStopSignal ==
    /\ owner = "run" /\ ~postDue
    /\ shouldStop' = TRUE
    /\ postDue' = TRUE
    /\ owner' = "stopping"
    /\ UNCHANGED <<queueVars, semaphore, threadVars, query, historyVars>>

\* ... thread_wait_until_stopped, then db_deinit and db_thread_deinit.
WaitUntilStopped ==
    /\ owner = "stopping" /\ ~postDue
    /\ pc = "stopped"
    /\ owner' = "deinit"
    /\ UNCHANGED <<queueVars, semaphore, shouldStop, threadVars, postDue, query, historyVars>>

-----------------------------------------------------------------------------
(* db_thread_main_loop *)

ThreadWait ==
    /\ pc = "wait"
    /\ semaphore > 0
    /\ semaphore' = semaphore - 1
    /\ pc' = "transactions"
    /\ UNCHANGED <<queueVars, shouldStop, i, trans, ownerVars, historyVars>>

\* db_thread_run_transactions
TakeTransaction ==
    /\ pc = "transactions"
    /\ inTransactionQueue # <<>>
    /\ trans' = Back(inTransactionQueue)
    /\ inTransactionQueue' = Front(inTransactionQueue)
    /\ pc' = "begun"
    /\ UNCHANGED <<inQueue, executeQueue, outQueue, semaphore, shouldStop, i,
                   ownerVars, historyVars>>

\* A job is out of the thread's hands once it is executed: it goes to outQueue
\* if it has a callback and is finalized if it has none.
Complete(j) ==
    /\ executed' = [executed EXCEPT ![j] = @ + 1]
    /\ IF j \in Callback
         THEN outQueue' = Append(outQueue, j) /\ UNCHANGED finished
         ELSE finished' = finished \cup {j} /\ UNCHANGED outQueue
    /\ UNCHANGED scheduled

\* The callback's statements between BEGIN and COMMIT.  query_execute_synchronus
\* spins while the database is busy, which is no step.
CommitTransaction ==
    /\ pc = "begun"
    /\ trans \notin Failing
    /\ Complete(trans)
    /\ trans' = NoJob
    /\ pc' = "transactions"
    /\ UNCHANGED <<inQueue, inTransactionQueue, executeQueue, semaphore, shouldStop, i, ownerVars>>

EndTransactions ==
    /\ pc = "transactions"
    /\ inTransactionQueue = <<>>
    /\ pc' = "read"
    /\ UNCHANGED <<queueVars, semaphore, shouldStop, i, trans, ownerVars, historyVars>>

\* db_thread_read_newly_scheduled
ReadNewlyScheduled ==
    /\ pc = "read"
    /\ executeQueue' = executeQueue \o inQueue
    /\ inQueue' = <<>>
    /\ i' = 1
    /\ pc' = "execute"
    /\ UNCHANGED <<inTransactionQueue, outQueue, semaphore, shouldStop, trans,
                   ownerVars, historyVars>>

\* db_thread_execute_queries: sqlite3_step answers SQLITE_BUSY ...
QueryBusy ==
    /\ pc = "execute"
    /\ i <= Len(executeQueue)
    /\ i' = i + 1
    /\ UNCHANGED <<queueVars, semaphore, shouldStop, pc, trans, ownerVars, historyVars>>

\* ... or SQLITE_ROW or SQLITE_DONE ...
QueryDone ==
    /\ pc = "execute"
    /\ i <= Len(executeQueue)
    /\ executeQueue[i] \notin Failing
    /\ Complete(executeQueue[i])
    /\ executeQueue' = SwapAndPop(executeQueue, i)
    /\ UNCHANGED <<inQueue, inTransactionQueue, semaphore, shouldStop, threadVars, ownerVars>>

\* ... or an error.  query_execute_background throws it on the Basic of the
\* Core that owns the database, not on the thread's own, so the jump lands in
\* the owner's exception scope: from here on the thread is lost and nothing
\* more can be said of either stack.  A statement of a transaction does the same.
ThrowOnOwner ==
    /\ \/ pc = "execute" /\ i <= Len(executeQueue) /\ executeQueue[i] \in Failing
       \/ pc = "begun" /\ trans \in Failing
    /\ pc' = "escaped"
    /\ UNCHANGED <<queueVars, semaphore, shouldStop, i, trans, ownerVars, historyVars>>

\* Mutant: the loop goes back to sleep although busy queries are left.
EndExecute_Sleep ==
    /\ pc = "execute"
    /\ i > Len(executeQueue)
    /\ pc' = "check"
    /\ UNCHANGED <<queueVars, semaphore, shouldStop, i, trans, ownerVars, historyVars>>

\* Queries that were busy are tried again after 2 milliseconds.
EndExecute ==
    /\ pc = "execute"
    /\ i > Len(executeQueue)
    /\ pc' = IF executeQueue = <<>> THEN "check" ELSE "transactions"
    /\ UNCHANGED <<queueVars, semaphore, shouldStop, i, trans, ownerVars, historyVars>>

\* thread_should_stop; thread_proc_wrapper unlocks mutexLifetime on the way out.
CheckStop ==
    /\ pc = "check"
    /\ pc' = IF shouldStop THEN "stopped" ELSE "wait"
    /\ UNCHANGED <<queueVars, semaphore, shouldStop, i, trans, ownerVars, historyVars>>

-----------------------------------------------------------------------------

Owner ==
    \/ Trigger \/ BeginCallbacks \/ TakeCallback \/ FinishCallback \/ EndCallbacks
    \/ WaitUntilStopped

Thread ==
    \/ ThreadWait \/ TakeTransaction \/ CommitTransaction \/ EndTransactions
    \/ ReadNewlyScheduled \/ QueryBusy \/ QueryDone \/ ThrowOnOwner
    \/ EndExecute \/ CheckStop

Next ==
    \/ \E q \in Queries : ScheduleQuery(q)
    \/ \E t \in Transactions : ScheduleTransaction(t)
    \/ SendStopSignal
    \/ Owner
    \/ Thread

Spec == Init /\ [][Next]_vars

\* Both threads keep running, a database that is busy again and again is
\* sometimes not, and the owner's main loop keeps calling
\* db_thread_execute_query_callbacks; what it schedules, and when it stops, is
\* up to the program.
Fairness == WF_vars(Thread) /\ WF_vars(Owner)
            /\ SF_vars(QueryDone \/ ThrowOnOwner)

FairSpec == Spec /\ Fairness

-----------------------------------------------------------------------------
(* Properties *)

Times(j, s) == Cardinality({k \in DOMAIN s : s[k] = j})

\* In how many places of the program a job is.
Places(j) ==
    Times(j, inQueue) + Times(j, inTransactionQueue) + Times(j, executeQueue)
        + Times(j, outQueue)
        + Cardinality({x \in {"trans"} : trans = j}) + Cardinality({x \in {"query"} : query = j})
        + Cardinality(finished \cap {j})

\* A scheduled job is in exactly one place at any time: the swaps, the moves
\* between queues and the unlocked callbacks lose none and duplicate none.  It
\* is executed at most once, and its callback runs only after that.
ExactlyOnce ==
    \A j \in Jobs :
        /\ Places(j) = IF j \in scheduled THEN 1 ELSE 0
        /\ executed[j] = Times(j, outQueue) + Cardinality({x \in {"query"} : query = j})
                            + Cardinality(finished \cap {j})

\* Every job is eventually executed and its callback run, a busy database
\* notwithstanding, unless the program shuts down; and core_deinit returns: the
\* thread is woken up, drains what it finds, sees the stop signal and gives up
\* its lifetime.  A failing statement that takes the thread away ends both.
EventuallyFinished ==
    /\ \A j \in Jobs : j \in scheduled ~> (j \in finished \/ shouldStop \/ pc = "escaped")
    /\ shouldStop ~> (owner = "deinit" \/ pc = "escaped")
=============================================================================
