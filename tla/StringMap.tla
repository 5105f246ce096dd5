------------------------------ MODULE StringMap ------------------------------
(***************************************************************************)
(* What eqp_hash_table.h promises its callers: a map from strings to       *)
(* values in which an entry, once set, stays as it is until it is removed. *)
(***************************************************************************)
CONSTANTS Keys, Values, None

VARIABLES map,    \* the value of every key, None when the key is absent
          result  \* what the last call returned

vars == <<map, result>>

Init == map = [k \in Keys |-> None] /\ result = None

\* "If the table already has an entry with the given key, it will not be
\* overwritten and these will return false."
Set(k, v) ==
    /\ result' = (map[k] = None)
    /\ map' = IF map[k] = None THEN [map EXCEPT ![k] = v] ELSE map

Get(k) == result' = map[k] /\ UNCHANGED map

Remove(k) == map' = [map EXCEPT ![k] = None] /\ result' = None

Next == \E k \in Keys : (\E v \in Values : Set(k, v)) \/ Get(k) \/ Remove(k)

Spec == Init /\ [][Next]_vars
==============================================================================
