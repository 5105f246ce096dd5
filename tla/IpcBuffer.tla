------------------------------ MODULE IpcBuffer ------------------------------
(***************************************************************************)
(* The shared-memory IPC ring of src/common/sync/ipc_buffer.c: a circular  *)
(* list of blocks with four cursors, written by any number of threads of   *)
(* any number of processes and read by the one thread that owns the        *)
(* buffer.  Every atomic operation of a writer is a step of its own; the   *)
(* plain stores and loads of a block's payload are the steps WriteBlock    *)
(* and CopyOut.                                                            *)
(*                                                                         *)
(* readStart <= readEnd <= writeStart <= writeEnd around the ring:         *)
(* [readStart, readEnd) is being read, [readEnd, writeStart) is published, *)
(* [writeStart, writeEnd) is claimed by writers, the rest is free.         *)
(***************************************************************************)
EXTENDS Integers, Sequences

CONSTANTS
    N,          \* EQP_IPC_BUFFER_NUM_PACKETS, the number of blocks
    Writers,    \* the threads, of any process, that call ipc_buffer_write
    Mortal,     \* the writers whose process may be killed (proc_kill)
    MaxWrites   \* bound: how often each writer calls ipc_buffer_write

ASSUME RingAssumption ==
    /\ N \in Nat /\ N >= 2
    /\ MaxWrites \in Nat
    /\ Mortal \subseteq Writers

VARIABLES
    readStart, readEnd, writeStart, writeEnd,   \* the cursors of IpcBuffer
    hasBeenRead, hasBeenWritten,                \* the flags of each IpcBlock
    data,       \* the payload of each IpcBlock
    semaphore,  \* IpcBuffer.semaphore
    pc,         \* where each writer is in ipc_buffer_write / _do_write
    index,      \* each writer's local "index"
    block,      \* each writer's claimed "block"
    sent,       \* how many calls of ipc_buffer_write each writer has made
    rpc,        \* where the reader is in its receive loop
    rblock,     \* the reader's local "block"
    alive,      \* the writers whose process has not been killed
    claimed,    \* history: the messages in the order their blocks were claimed
    delivered,  \* history: the packets the reader has handed to its caller
    lapped      \* history: a writer slept while the ring went all the way
                \* round past the index it had loaded

writerVars == <<pc, index, block, sent, alive>>
readerVars == <<rpc, rblock, delivered>>
cursorVars == <<readStart, readEnd, writeStart, writeEnd>>
vars == <<cursorVars, hasBeenRead, hasBeenWritten, data, semaphore,
          writerVars, readerVars, claimed, lapped>>

Blocks == 0 .. N - 1

\* A message is named by its writer and the number of the call that sent it.
Messages == Writers \X (1 .. MaxWrites)
NoMessage == <<>>

\* The ring that ipc_buffer_init links.
nextIndex == [b \in Blocks |-> IF b = N - 1 THEN 0 ELSE b + 1]

Message(w) == <<w, sent[w]>>

Goto(w, label) == pc' = [pc EXCEPT ![w] = label]

At(w, label) == w \in alive /\ pc[w] = label

-----------------------------------------------------------------------------
(* ipc_buffer_init *)
Init ==
    /\ readStart = 0 /\ readEnd = 0 /\ writeStart = 0 /\ writeEnd = 0
    /\ hasBeenRead = [b \in Blocks |-> FALSE]
    /\ hasBeenWritten = [b \in Blocks |-> FALSE]
    /\ data = [b \in Blocks |-> NoMessage]
    /\ semaphore = 0
    /\ pc = [w \in Writers |-> "idle"]
    /\ index = [w \in Writers |-> 0]
    /\ block = [w \in Writers |-> 0]
    /\ sent = [w \in Writers |-> 0]
    /\ alive = Writers
    /\ rpc = "wait" /\ rblock = 0
    /\ claimed = <<>> /\ delivered = <<>>
    /\ lapped = FALSE

-----------------------------------------------------------------------------
(* ipc_buffer_write *)

BeginWrite(w) ==
    /\ At(w, "idle")
    /\ sent[w] < MaxWrites
    /\ sent' = [sent EXCEPT ![w] = @ + 1]
    /\ Goto(w, "load")
    /\ UNCHANGED <<cursorVars, hasBeenRead, hasBeenWritten, data, semaphore,
                   index, block, alive, readerVars, claimed, lapped>>

LoadWriteEnd(w) ==
    /\ At(w, "load")
    /\ index' = [index EXCEPT ![w] = writeEnd]
    /\ Goto(w, "check")
    /\ UNCHANGED <<cursorVars, hasBeenRead, hasBeenWritten, data, semaphore,
                   block, sent, alive, readerVars, claimed, lapped>>

\* Mutant: writeEnd is not kept away from readStart.
RingFull_Never(i) == FALSE

RingFull(i) == nextIndex[i] = readStart

\* When the ring is full the writer spins, and gives up once 10 milliseconds
\* have passed since the call began.
CheckFull(w) ==
    /\ At(w, "check")
    /\ \/ RingFull(index[w]) /\ (Goto(w, "load") \/ Goto(w, "idle"))
       \/ ~RingFull(index[w]) /\ Goto(w, "claim")
    /\ UNCHANGED <<cursorVars, hasBeenRead, hasBeenWritten, data, semaphore,
                   index, block, sent, alive, readerVars, claimed, lapped>>

\* Claiming block i takes the ring past an index that another writer loaded
\* before the previous lap and still intends to use: its compare-and-exchange
\* will succeed although everything it checked is out of date.
Laps(w, i) ==
    \E v \in Writers \ {w} :
        \/ pc[v] = "claim" /\ index[v] = nextIndex[i]
        \/ pc[v] = "clear" /\ index[v] = i /\ writeStart # i

\* Mutant: the result of the compare-and-exchange is not looked at.
ClaimBlock_Unchecked(w) ==
    /\ At(w, "claim")
    /\ writeEnd' = nextIndex[index[w]]
    /\ block' = [block EXCEPT ![w] = index[w]]
    /\ claimed' = Append(claimed, Message(w))
    /\ lapped' = IF Laps(w, index[w]) THEN TRUE ELSE lapped
    /\ Goto(w, "write")
    /\ UNCHANGED <<readStart, readEnd, writeStart, hasBeenRead, hasBeenWritten,
                   data, semaphore, index, sent, alive, readerVars>>

\* The weak compare-and-exchange on writeEnd succeeds: the block is ours.
ClaimBlock(w) ==
    /\ At(w, "claim")
    /\ writeEnd = index[w]
    /\ writeEnd' = nextIndex[index[w]]
    /\ block' = [block EXCEPT ![w] = index[w]]
    /\ claimed' = Append(claimed, Message(w))
    /\ lapped' = IF Laps(w, index[w]) THEN TRUE ELSE lapped
    /\ Goto(w, "write")
    /\ UNCHANGED <<readStart, readEnd, writeStart, hasBeenRead, hasBeenWritten,
                   data, semaphore, index, sent, alive, readerVars>>

\* It fails, spuriously or because another writer came first: start over.
ClaimFails(w) ==
    /\ At(w, "claim")
    /\ Goto(w, "load")
    /\ UNCHANGED <<cursorVars, hasBeenRead, hasBeenWritten, data, semaphore,
                   index, block, sent, alive, readerVars, claimed, lapped>>

-----------------------------------------------------------------------------
(* ipc_buffer_do_write *)

WriteBlock(w) ==
    /\ At(w, "write")
    /\ data' = [data EXCEPT ![block[w]] = Message(w)]
    /\ Goto(w, "store")
    /\ UNCHANGED <<cursorVars, hasBeenRead, hasBeenWritten, semaphore,
                   index, block, sent, alive, readerVars, claimed, lapped>>

StoreWritten(w) ==
    /\ At(w, "store")
    /\ hasBeenWritten' = [hasBeenWritten EXCEPT ![block[w]] = TRUE]
    /\ Goto(w, "loadStart")
    /\ UNCHANGED <<cursorVars, hasBeenRead, data, semaphore,
                   index, block, sent, alive, readerVars, claimed, lapped>>

LoadWriteStart(w) ==
    /\ At(w, "loadStart")
    /\ index' = [index EXCEPT ![w] = writeStart]
    /\ Goto(w, "clear")
    /\ UNCHANGED <<cursorVars, hasBeenRead, hasBeenWritten, data, semaphore,
                   block, sent, alive, readerVars, claimed, lapped>>

\* The compare-and-exchange that clears hasBeenWritten succeeds ...
ClearWritten(w) ==
    /\ At(w, "clear")
    /\ hasBeenWritten[index[w]]
    /\ hasBeenWritten' = [hasBeenWritten EXCEPT ![index[w]] = FALSE]
    /\ Goto(w, "advance")
    /\ UNCHANGED <<cursorVars, hasBeenRead, data, semaphore,
                   index, block, sent, alive, readerVars, claimed, lapped>>

\* ... or fails, and the loop ends.
FoundCleared(w) ==
    /\ At(w, "clear")
    /\ ~hasBeenWritten[index[w]]
    /\ Goto(w, "trigger")
    /\ UNCHANGED <<cursorVars, hasBeenRead, hasBeenWritten, data, semaphore,
                   index, block, sent, alive, readerVars, claimed, lapped>>

\* Mutant: only one block is advanced over, not "as far as possible".
AdvanceWriteStart_Once(w) ==
    /\ At(w, "advance")
    /\ writeStart' = IF writeStart = index[w] THEN nextIndex[index[w]] ELSE writeStart
    /\ Goto(w, "trigger")
    /\ UNCHANGED <<readStart, readEnd, writeEnd, hasBeenRead, hasBeenWritten,
                   data, semaphore, index, block, sent, alive, readerVars,
                   claimed, lapped>>

\* The compare-and-exchange on writeStart; its result is not looked at.
AdvanceWriteStart(w) ==
    /\ At(w, "advance")
    /\ writeStart' = IF writeStart = index[w] THEN nextIndex[index[w]] ELSE writeStart
    /\ Goto(w, "loadStart")
    /\ UNCHANGED <<readStart, readEnd, writeEnd, hasBeenRead, hasBeenWritten,
                   data, semaphore, index, block, sent, alive, readerVars,
                   claimed, lapped>>

Trigger(w) ==
    /\ At(w, "trigger")
    /\ semaphore' = semaphore + 1
    /\ Goto(w, "idle")
    /\ UNCHANGED <<cursorVars, hasBeenRead, hasBeenWritten, data,
                   index, block, sent, alive, readerVars, claimed, lapped>>

\* proc_kill sends SIGKILL: the writer stops wherever it is.
Kill(w) ==
    /\ w \in Mortal \cap alive
    /\ alive' = alive \ {w}
    /\ UNCHANGED <<cursorVars, hasBeenRead, hasBeenWritten, data, semaphore,
                   pc, index, block, sent, readerVars, claimed, lapped>>

-----------------------------------------------------------------------------
(* The owner of the buffer: wait for the semaphore (ipc_buffer_wait, or     *)
(* ipc_buffer_try once per cycle), then call ipc_buffer_read until it fails.*)
(* No other thread moves readEnd, readStart or hasBeenRead, so the reader's *)
(* compare-and-exchanges succeed; a spurious failure is a stuttering step.  *)

SemaphoreWait ==
    /\ rpc = "wait"
    /\ semaphore > 0
    /\ semaphore' = semaphore - 1
    /\ rpc' = "read"
    /\ UNCHANGED <<cursorVars, hasBeenRead, hasBeenWritten, data, writerVars,
                   rblock, delivered, claimed, lapped>>

NothingToRead ==
    /\ rpc = "read"
    /\ readEnd = writeStart
    /\ rpc' = "wait"
    /\ UNCHANGED <<cursorVars, hasBeenRead, hasBeenWritten, data, semaphore,
                   writerVars, rblock, delivered, claimed, lapped>>

ClaimRead ==
    /\ rpc = "read"
    /\ readEnd # writeStart
    /\ rblock' = readEnd
    /\ readEnd' = nextIndex[readEnd]
    /\ rpc' = "copy"
    /\ UNCHANGED <<readStart, writeStart, writeEnd, hasBeenRead, hasBeenWritten,
                   data, semaphore, writerVars, delivered, claimed, lapped>>

CopyOut ==
    /\ rpc = "copy"
    /\ delivered' = Append(delivered, data[rblock])
    /\ rpc' = "mark"
    /\ UNCHANGED <<cursorVars, hasBeenRead, hasBeenWritten, data, semaphore,
                   writerVars, rblock, claimed, lapped>>

MarkRead ==
    /\ rpc = "mark"
    /\ hasBeenRead' = [hasBeenRead EXCEPT ![rblock] = TRUE]
    /\ rpc' = "advance"
    /\ UNCHANGED <<cursorVars, hasBeenWritten, data, semaphore, writerVars,
                   rblock, delivered, claimed, lapped>>

AdvanceReadStart ==
    /\ rpc = "advance"
    /\ hasBeenRead[readStart]
    /\ hasBeenRead' = [hasBeenRead EXCEPT ![readStart] = FALSE]
    /\ readStart' = nextIndex[readStart]
    /\ UNCHANGED <<readEnd, writeStart, writeEnd, hasBeenWritten, data, semaphore,
                   writerVars, readerVars, claimed, lapped>>

FinishRead ==
    /\ rpc = "advance"
    /\ ~hasBeenRead[readStart]
    /\ rpc' = "read"
    /\ UNCHANGED <<cursorVars, hasBeenRead, hasBeenWritten, data, semaphore,
                   writerVars, rblock, delivered, claimed, lapped>>

-----------------------------------------------------------------------------

\* Everything a writer does once it has called ipc_buffer_write.
Write(w) ==
    \/ LoadWriteEnd(w) \/ CheckFull(w) \/ ClaimBlock(w) \/ ClaimFails(w)
    \/ WriteBlock(w) \/ StoreWritten(w) \/ LoadWriteStart(w)
    \/ ClearWritten(w) \/ FoundCleared(w) \/ AdvanceWriteStart(w)
    \/ Trigger(w)

Read ==
    \/ SemaphoreWait \/ NothingToRead \/ ClaimRead \/ CopyOut \/ MarkRead
    \/ AdvanceReadStart \/ FinishRead

Next ==
    \/ \E w \in Writers : BeginWrite(w) \/ Write(w) \/ Kill(w)
    \/ Read

Spec == Init /\ [][Next]_vars

\* The operating system keeps scheduling every thread that is not killed;
\* whether a writer calls ipc_buffer_write again is up to the program.
Fairness == WF_vars(Read) /\ \A w \in Writers : WF_vars(Write(w))

FairSpec == Spec /\ Fairness

-----------------------------------------------------------------------------
(* Properties *)

Labels == {"idle", "load", "check", "claim", "write", "store", "loadStart",
           "clear", "advance", "trigger"}

\* The type of every variable: cursors, flags and payloads of IpcBuffer and
\* the locals of ipc_buffer_write and ipc_buffer_read.
TypeOK ==
    /\ readStart \in Blocks /\ readEnd \in Blocks
    /\ writeStart \in Blocks /\ writeEnd \in Blocks
    /\ hasBeenRead \in [Blocks -> BOOLEAN]
    /\ hasBeenWritten \in [Blocks -> BOOLEAN]
    /\ data \in [Blocks -> Messages \cup {NoMessage}]
    /\ semaphore \in Nat
    /\ pc \in [Writers -> Labels]
    /\ index \in [Writers -> Blocks]
    /\ block \in [Writers -> Blocks]
    /\ sent \in [Writers -> 0 .. MaxWrites]
    /\ \A w \in Writers : pc[w] # "idle" => sent[w] > 0
    /\ alive \subseteq Writers
    /\ rpc \in {"wait", "read", "copy", "mark", "advance"}
    /\ rblock \in Blocks
    /\ claimed \in Seq(Messages)
    /\ delivered \in Seq(Messages \cup {NoMessage})
    /\ lapped \in BOOLEAN

\* Distance from a to b going forward around the ring.
Dist(a, b) == IF a <= b THEN b - a ELSE b - a + N

\* b lies in the half-open stretch of the ring from "from" to "to".
InRange(b, from, to) == Dist(from, b) < Dist(from, to)

\* The block whose message is the next one to be delivered.
FirstUndelivered == IF rpc \in {"mark", "advance"} THEN readEnd ELSE readStart

\* The message that was claimed for block b of the stretch still to deliver.
Entry(b) == claimed[Len(delivered) + 1 + Dist(FirstUndelivered, b)]

\* What the reader hands out is, in order, what was claimed: ipc_buffer_read
\* loses, repeats, reorders and corrupts nothing (as long as no writer sleeps
\* for a whole lap).
FifoDelivery ==
    ~lapped => \A i \in 1 .. Len(delivered) :
                   i <= Len(claimed) /\ delivered[i] = claimed[i]

\* Between its claim and its hasBeenWritten store a writer has its block to
\* itself: no second writer fills it and the reader is not copying it out.
ExclusiveBlock ==
    ~lapped => \A w \in Writers : pc[w] \in {"write", "store"} =>
        /\ \A v \in Writers \ {w} : pc[v] \in {"write", "store"} => block[v] # block[w]
        /\ rpc = "copy" => rblock # block[w]

\* Once every surviving writer has returned from ipc_buffer_write, a packet
\* that is claimed but not published can only be stuck behind the block of a
\* writer that was killed in the middle of ipc_buffer_do_write.
StuckOnlyBehindTheDead ==
    (~lapped /\ (\A w \in alive : pc[w] = "idle") /\ writeStart # writeEnd)
        => \E w \in Writers \ alive :
               \/ pc[w] \in {"write", "store"} /\ block[w] = writeStart
               \/ pc[w] \in {"loadStart", "clear", "advance"}

-----------------------------------------------------------------------------
(* The inductive invariant behind FifoDelivery and ExclusiveBlock, by parts. *)

CursorOrder ==
    /\ Dist(readStart, readEnd) <= Dist(readStart, writeStart)
    /\ Dist(readStart, writeStart) <= Dist(readStart, writeEnd)

ReaderPosition ==
    /\ rpc \in {"wait", "read"} => readEnd = readStart
    /\ rpc \in {"copy", "mark"} =>
           rblock = readStart /\ readEnd = nextIndex[readStart] /\ readStart # writeStart
    /\ rpc = "advance" =>
           \/ readEnd = readStart
           \/ readEnd = nextIndex[readStart] /\ readStart # writeStart /\ rblock = readStart
    /\ \A b \in Blocks :
           hasBeenRead[b] <=> (rpc = "advance" /\ b = readStart /\ readEnd # readStart)

Accounted == Dist(FirstUndelivered, writeEnd) = Len(claimed) - Len(delivered)

DeliveredSoFar ==
    \A i \in 1 .. Len(delivered) : i <= Len(claimed) /\ delivered[i] = claimed[i]

Published == \A b \in Blocks : InRange(b, FirstUndelivered, writeStart) => data[b] = Entry(b)

Filling(w) == pc[w] \in {"write", "store"}

FillingBlocks ==
    \A w \in Writers, b \in Blocks : Filling(w) /\ block[w] = b =>
        /\ InRange(b, writeStart, writeEnd)
        /\ ~hasBeenWritten[b]
        /\ Entry(b) = Message(w)
        /\ pc[w] = "store" => data[b] = Message(w)
        /\ \A v \in Writers : Filling(v) /\ block[v] = b => v = w

WrittenBlocks ==
    \A b \in Blocks : hasBeenWritten[b] =>
        InRange(b, writeStart, writeEnd) /\ data[b] = Entry(b)

AdvancingWriter ==
    \A w \in Writers, b \in Blocks : pc[w] = "advance" /\ index[w] = b =>
        /\ b = writeStart
        /\ b # writeEnd
        /\ ~hasBeenWritten[b]
        /\ data[b] = Entry(b)
        /\ \A v \in Writers : pc[v] = "advance" => v = w
        /\ \A v \in Writers : Filling(v) => block[v] # b

FreshIndices ==
    \A w \in Writers :
        /\ pc[w] = "claim" /\ index[w] = writeEnd => nextIndex[writeEnd] # readStart
        /\ pc[w] = "clear" /\ index[w] # writeStart => ~InRange(index[w], writeStart, writeEnd)

RingState ==
    /\ CursorOrder
    /\ ReaderPosition
    /\ Accounted
    /\ DeliveredSoFar
    /\ Published
    /\ FillingBlocks
    /\ WrittenBlocks
    /\ AdvancingWriter
    /\ FreshIndices

\* Where the cursors are, what every block between them holds and who owns
\* it: the state ipc_buffer_write and ipc_buffer_read keep as long as no
\* writer is lapped.
RingInv == ~lapped => RingState

-----------------------------------------------------------------------------
(* What the ring promises its users, and liveness. *)

Queue == INSTANCE IpcQueue WITH
            Capacity <- N - 1, accepted <- claimed, taken <- delivered,
            broken <- lapped

\* The ring implements a bounded first-in first-out queue.
ImplementsQueue == Queue!Spec

\* Every packet whose block was claimed is eventually delivered, unless a
\* writer is killed inside ipc_buffer_write.
EventuallyDelivered ==
    \A m \in Messages :
        (\E i \in DOMAIN claimed : claimed[i] = m)
            ~> \/ lapped \/ \E i \in DOMAIN delivered : delivered[i] = m
               \/ \E w \in Writers \ alive : pc[w] # "idle"
=============================================================================
