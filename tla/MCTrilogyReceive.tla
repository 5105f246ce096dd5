------------------------- MODULE MCTrilogyReceive -------------------------
(* A small stream for TrilogyReceive: a fragmented message between others. *)
EXTENDS TrilogyReceive

MCStream == <<0, 0, 2, 2, 0, 0>>
=============================================================================
