----------------------------- MODULE AckCommon ------------------------------
(***************************************************************************)
(* How both halves of the Trilogy protocol compare 16-bit numbers          *)
(* (src/non_master/net/ack_common.c).                                      *)
(***************************************************************************)
EXTENDS Integers

CONSTANT HalfWindow     \* EQP_ACK_WINDOW_HALF_SIZE

ASSUME WindowAssumption == HalfWindow \in Nat \ {0}

\* ack_compare returns AckPast.  The arguments are promoted to int, so nothing wraps.
IsPast(got, expected) ==
    /\ got # expected
    /\ ~(got > expected /\ got < expected + HalfWindow)
    /\ ~(got < expected - HalfWindow)
=============================================================================
