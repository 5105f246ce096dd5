---------------------------- MODULE MCCharSelect -----------------------------
(* Two clients of one account, each with a session key of its own. *)
EXTENDS CharSelect

CONSTANTS c1, c2, k1, k2, a1

MCKeyOf == [c \in {c1, c2} |-> IF c = c1 THEN k1 ELSE k2]
MCAccountOfKey == [k \in {k1, k2} |-> a1]
=============================================================================
