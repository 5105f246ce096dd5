------------------------------ MODULE HashTable ------------------------------
(***************************************************************************)
(* The string-keyed hash table (common/container/eqp_hash_table.c): one    *)
(* array of entries that holds both the main positions and the overflow    *)
(* chains.  An entry is "free" when its key is NULL; the hash of a removed *)
(* entry stays behind in it.  A key that finds its main position taken is  *)
(* put into the free entry and linked to the chain; a key that finds a     *)
(* guest of another chain there evicts it.  Lookups follow links without a *)
(* bound and compare keys without a check for NULL, so the links have to   *)
(* be right for the program not to hang or fault.                          *)
(*                                                                         *)
(* Keys are model values, the hash function is a parameter; every call     *)
(* runs to its end before the next one (the table is not shared).          *)
(***************************************************************************)
EXTENDS Naturals, FiniteSets

CONSTANTS Keys,         \* the strings used as keys
          Values,       \* the elements stored (elemSize bytes each)
          None,         \* NULL, "no result"
          HashOf,       \* hash_table_calc_hash of every key
          MaxCapacity   \* bound: the table is not made larger than this

ASSUME HashTableAssumption ==
    /\ HashOf \in [Keys -> Nat]
    /\ None \notin Keys \cup Values \cup BOOLEAN
    /\ MaxCapacity \in Nat /\ MaxCapacity >= 2

VARIABLES tbl,    \* the HashTable: capacity, freeIndex and the entries
          result  \* what the last call returned

tableVars == <<tbl, result>>

DEFAULT_CAPACITY == 2

\* NEXT_INVALID and FREE_INDEX_INVALID are the same number, larger than any
\* index; comparisons with it rely on that.
INVALID == MaxCapacity + 1

EmptyEntry == [key |-> None, hash |-> 0, next |-> INVALID, data |-> None]

EmptyTable(n) ==
    [capacity |-> n, freeIndex |-> 0, ent |-> [i \in 0 .. n - 1 |-> EmptyEntry]]

\* hash & (capacity - 1): capacities are powers of two.
MainPos(t, h) == h % t.capacity

\* hash_table_calc_hash
CalcHash(k) == HashOf[k]

Copied(e, old) == [e EXCEPT !.key = old.key, !.hash = old.hash, !.data = old.data]

\* The entries met when the links are followed from i, in order; a walk that
\* has not ended after "capacity" steps never ends.
Walk(t, i) ==
    LET w[n \in 0 .. t.capacity] ==
          IF n = 0 THEN i
          ELSE IF w[n - 1] = INVALID THEN INVALID ELSE t.ent[w[n - 1]].next
    IN w

Ends(t, i) == Walk(t, i)[t.capacity] = INVALID

OnChain(t, i) ==
    LET w == Walk(t, i) IN {w[n] : n \in 0 .. t.capacity} \ {INVALID}

\* The entry of the chain from i that links to j (j = INVALID: its end).
LinksTo(t, i, j) == CHOOSE p \in OnChain(t, i) : t.ent[p].next = j

\* hash_table_advance_free_index: only entries above the index are looked at.
NextFree(t, from) ==
    LET free == {i \in from + 1 .. t.capacity - 1 : t.ent[i].key = None}
    IN IF free = {} THEN INVALID ELSE CHOOSE i \in free : \A j \in free : i <= j

Advanced(t) == [t EXCEPT !.freeIndex = NextFree(t, t.freeIndex)]

\* Mutant: the chain of the guest still links to the place it was moved from.
Evicted_NotBent(t, pos, new) ==
    [t EXCEPT !.ent[t.freeIndex] = t.ent[pos],
              !.ent[pos] = [Copied(@, new) EXCEPT !.next = INVALID]]

\* The guest at pos moves to the free entry, links included, the chain it
\* belongs to is bent to it, and the new entry takes its main position.
Evicted(t, pos, new) ==
    LET f     == t.freeIndex
        home  == MainPos(t, t.ent[pos].hash)
        moved == [t EXCEPT !.ent[f] = t.ent[pos]]
        p     == LinksTo(moved, home, pos)
    IN [moved EXCEPT !.ent[p].next = f,
                     !.ent[pos] = [Copied(@, new) EXCEPT !.next = INVALID]]

\* The new entry goes to the free entry, at the end of the chain of pos.
Appended(t, pos, new) ==
    LET f == t.freeIndex
        p == LinksTo(t, pos, INVALID)
    IN [t EXCEPT !.ent[p].next = f, !.ent[f] = Copied(@, new)]

\* One entry of the old table put into the new one, removed entries too: the
\* loop does not look at their key.
Rehashed(t, old) ==
    LET pos == MainPos(t, old.hash)
    IN IF t.ent[pos].key = None
       THEN LET put == [t EXCEPT !.ent[pos] = Copied(@, old)]
            IN IF pos # t.freeIndex THEN put ELSE Advanced(put)
       ELSE IF MainPos(t, t.ent[pos].hash) # pos
       THEN Advanced(Evicted(t, pos, old))
       ELSE Advanced(Appended(t, pos, old))

\* hash_table_realloc
Realloc(t) ==
    LET after[n \in 0 .. t.capacity] ==
          IF n = 0 THEN EmptyTable(2 * t.capacity)
          ELSE Rehashed(after[n - 1], t.ent[n - 1])
    IN after[t.capacity]

\* string_compare_cstr dereferences the key: a NULL key on a chain with the
\* hash that is looked for is a fault.
Finds(t, k) ==
    {i \in OnChain(t, MainPos(t, CalcHash(k))) : t.ent[i].key = k}

\* Whether a lookup goes into the chain at all.
Entered(t, k) ==
    LET e == t.ent[MainPos(t, CalcHash(k))]
    IN e.key # None /\ MainPos(t, e.hash) = MainPos(t, CalcHash(k))

\* hash_table_get_by_cstr
Lookup(t, k) ==
    IF Entered(t, k) /\ Finds(t, k) # {}
    THEN t.ent[CHOOSE i \in Finds(t, k) : TRUE].data
    ELSE None

\* The part of hash_table_do_set that needs no free entry, or has one.
Placed(t, k, new) ==
    LET pos == MainPos(t, new.hash)
        put == [t EXCEPT !.ent[pos] = Copied(@, new)]
    IN IF t.ent[pos].key = None
       THEN IF pos = t.freeIndex THEN Advanced(put) ELSE put
       ELSE IF MainPos(t, t.ent[pos].hash) # pos
       THEN Advanced(Evicted(t, pos, new))
       ELSE IF Finds(t, k) # {} THEN t
       ELSE Advanced(Appended(t, pos, new))

\* Main position taken and no free entry: the table is doubled first.
MustGrow(t, k) ==
    t.ent[MainPos(t, CalcHash(k))].key # None /\ t.freeIndex = INVALID

\* hash_table_set_by_cstr
Set(k, v) ==
    LET new == [key |-> k, hash |-> CalcHash(k), next |-> INVALID, data |-> v]
        t   == IF MustGrow(tbl, k) THEN Realloc(tbl) ELSE tbl
    IN /\ MustGrow(tbl, k) => 2 * tbl.capacity <= MaxCapacity
       /\ tbl' = Placed(t, k, new)
       /\ result' = (Placed(t, k, new) # t)

\* hash_table_get_by_cstr
Get(k) == result' = Lookup(tbl, k) /\ UNCHANGED tbl

\* Freeing entry i lowers the free index to it, if it is lower.
FreedAt(t, i) ==
    [t EXCEPT !.ent[i].key = None, !.ent[i].next = INVALID,
              !.freeIndex = IF t.freeIndex > i THEN i ELSE t.freeIndex]

\* Cut out of its chain.
Unlinked(t, pos, i) ==
    FreedAt([t EXCEPT !.ent[LinksTo(t, pos, i)].next = t.ent[i].next], i)

\* Mutant: the head of a chain is emptied like an entry that is alone.
PulledUp_Emptied(t, pos) == [t EXCEPT !.ent[pos].key = None, !.ent[pos].next = INVALID]

\* The second entry of the chain moves to the main position.
PulledUp(t, pos) ==
    FreedAt([t EXCEPT !.ent[pos] = t.ent[t.ent[pos].next]], t.ent[pos].next)

\* Alone on its chain: the free index is not told.
Emptied(t, pos) == [t EXCEPT !.ent[pos].key = None, !.ent[pos].next = INVALID]

\* hash_table_remove_by_cstr
Removed(t, k) ==
    LET pos == MainPos(t, CalcHash(k))
        i   == CHOOSE j \in Finds(t, k) : TRUE
    IN IF ~Entered(t, k) \/ Finds(t, k) = {} THEN t
       ELSE IF i # pos THEN Unlinked(t, pos, i)
       ELSE IF t.ent[pos].next # INVALID THEN PulledUp(t, pos)
       ELSE Emptied(t, pos)

Remove(k) == tbl' = Removed(tbl, k) /\ result' = None

\* hash_table_create
TableInit == tbl = EmptyTable(DEFAULT_CAPACITY) /\ result = None

TableNext == \E k \in Keys : (\E v \in Values : Set(k, v)) \/ Get(k) \/ Remove(k)

TableSpec == TableInit /\ [][TableNext]_tableVars
-----------------------------------------------------------------------------
\* PROPERTY.  The table is the map its header promises: whatever sequence of
\* insertions, evictions, removals and reallocations went before, every call
\* returns what the map would return, an entry is never lost, doubled,
\* overwritten or found again after it was removed.
Map == INSTANCE StringMap WITH map <- [k \in Keys |-> Lookup(tbl, k)]
ImplementsMap == Map!Spec

\* INVARIANT.  Following links always ends, and no link leads to an entry
\* whose key is NULL: hash_table_get_by_cstr and hash_table_remove_by_cstr
\* loop until NEXT_INVALID and pass ent->key to strcmp without a check.  The
\* free index is free, and an entry is only missed by it when it is below it
\* and was the main position of the key removed from it: that is why
\* hash_table_realloc, which copies removed entries with the others, never
\* links one into a chain.
TableSound ==
    /\ \A i \in 0 .. tbl.capacity - 1 : tbl.ent[i].key # None =>
         /\ Ends(tbl, i)
         /\ \A j \in OnChain(tbl, i) :
              tbl.ent[j].key # None /\ MainPos(tbl, tbl.ent[j].hash) = MainPos(tbl, tbl.ent[i].hash)
    /\ tbl.freeIndex # INVALID => tbl.ent[tbl.freeIndex].key = None
    /\ \A i \in 0 .. tbl.capacity - 1 : tbl.ent[i].key = None =>
         \/ i >= tbl.freeIndex
         \/ MainPos(tbl, tbl.ent[i].hash) = i
==============================================================================
