------------------------------ MODULE IpcQueue ------------------------------
(***************************************************************************)
(* What the IPC ring of ipc_buffer.c promises the processes that use it: a *)
(* bounded queue that hands over every message it has accepted, once and   *)
(* in the order of acceptance.  The promise ends when the ring is broken.  *)
(***************************************************************************)
EXTENDS Integers, Sequences

CONSTANTS Messages, Capacity

VARIABLES accepted, taken, broken

vars == <<accepted, taken, broken>>

Init == accepted = <<>> /\ taken = <<>> /\ broken = FALSE

Accept ==
    /\ Len(accepted) - Len(taken) < Capacity
    /\ \E m \in Messages : accepted' = Append(accepted, m)
    /\ UNCHANGED <<taken, broken>>

Take ==
    /\ Len(taken) < Len(accepted)
    /\ taken' = Append(taken, accepted[Len(taken) + 1])
    /\ UNCHANGED <<accepted, broken>>

Next == broken' \/ Accept \/ Take

Spec == Init /\ [][Next]_vars
=============================================================================
