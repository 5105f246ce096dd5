---------------------------- MODULE MCHashTable ----------------------------
(* Hashes chosen so that keys collide in a table of two, four or eight.    *)
EXTENDS HashTable, TLC
CONSTANTS k1, k2, k3, k4
MCHashOf == (k1 :> 0) @@ (k2 :> 4) @@ (k3 :> 1) @@ (k4 :> 4)
============================================================================
