------------------------------ MODULE ItemStore ------------------------------
(***************************************************************************)
(* The item file.  item_gen scans the item scripts, gives every new script *)
(* an id, commits the ids to the database and writes a file with a hash    *)
(* table and the prototypes; the master opens it at its start and tells    *)
(* its children, which find a prototype by its id (item_gen.c,             *)
(* item_shm_loader.c, item_share_mem.c).  Character composes this with the *)
(* server that uses the file.                                              *)
(*                                                                         *)
(* A scan is the sequence of <<path, modification time>> the script yields;*)
(* an offset into the file is the number of the prototype, 0 none.  The    *)
(* bit-mixing hash of the ids is any function.                             *)
(***************************************************************************)
EXTENDS Integers, Sequences, SequencesExt

CONSTANTS None,     \* NULL, and a file that is not there
          Hashes,   \* functions from ids to hashes
          Scans,    \* scans of the scripts
          MaxScans  \* bound: runs of item_gen

VARIABLES itemHash,  \* the hash function, the same in all programs
          itemRows,  \* the item table of the database
          itemFile,  \* the item file, or None
          scanned    \* history: the scan of every run, and that of the file

itemVars == <<itemHash, itemRows, itemFile, scanned>>

INVALID == -1
FirstItemId == 1000  \* nextItemId of item_gen_init
-----------------------------------------------------------------------------
(* Ids: item_gen_read_db_entries, item_gen_add, item_gen_commit_changes.   *)

ReadDbEntries ==
    [nextItemId |-> IF itemRows = {} THEN FirstItemId ELSE Max({r.id : r \in itemRows}) + 1,
     entries    |-> itemRows, prototypes |-> <<>>, changes |-> <<>>]

\* A known script keeps its id and its row is changed only if it is newer.  A
\* new one is not entered: a script that defines two items gets two ids.
ItemGenAdd(gen, script) ==
    LET known == {r \in gen.entries : r.path = script[1]}
        old   == CHOOSE r \in known : TRUE
        row   == [id |-> IF known = {} THEN gen.nextItemId ELSE old.id,
                  path |-> script[1], time |-> script[2]]
        added == [gen EXCEPT !.prototypes = Append(@, row.id)]
    IN IF known = {}
       THEN [added EXCEPT !.nextItemId = @ + 1, !.changes = Append(@, row)]
       ELSE IF script[2] > old.time
       THEN [added EXCEPT !.entries = (@ \ {old}) \cup {row}, !.changes = Append(@, row)]
       ELSE added

\* One transaction; script_path is UNIQUE, so a second new row of a script
\* throws and takes everything back (None).
CommitChanges(changes) ==
    LET Apply(db, row) ==
            IF db = None \/ \E r \in db : r.path = row.path /\ r.id # row.id THEN None
            ELSE {r \in db : r.id # row.id} \cup {row}
    IN FoldLeft(Apply, itemRows, changes)
-----------------------------------------------------------------------------
(* The hash table of the file: item_gen_write_to_disk.                     *)

NoEntry == [key |-> 0, hash |-> 0, next |-> INVALID, offset |-> 0]

\* bit_pow2_greater_or_equal, for a file with items in it
Capacity(n) == Min({c \in {2 ^ k : k \in 0 .. n} : c >= n})

EmptyFile(n) ==
    [cap |-> Capacity(n), entries |-> [i \in 0 .. Capacity(n) - 1 |-> NoEntry],
     freeIndex |-> 0, count |-> 0, duplicate |-> FALSE]

\* item_gen_advance_free_index: the search starts anew; a full table keeps the index.
AdvanceFreeIndex(f) ==
    LET free == {i \in DOMAIN f.entries : f.entries[i].offset = 0}
    IN [f EXCEPT !.freeIndex = IF free = {} THEN @ ELSE Min(free)]

\* From entry i along the chain to the first entry in stop, or to its end.
Follow(entries, i, stop) ==
    FoldLeft(LAMBDA j, k : IF j \in stop \/ entries[j].next = INVALID THEN j ELSE entries[j].next,
             i, [k \in 1 .. Cardinality(DOMAIN entries) |-> k])

\* item_gen_set_hash_entry: the next prototype's offset; next stays as it is.
SetHashEntry(f, i, id, hash) ==
    [f EXCEPT !.entries[i].key = id, !.entries[i].hash = hash,
                 !.entries[i].offset = f.count + 1, !.count = @ + 1]

\* Mutant: the chain of the evicted entry is not bent.
Evict_NotBent(f, i) ==
    [f EXCEPT !.entries[f.freeIndex] = f.entries[i], !.entries[i].next = INVALID]

\* An entry that is in another chain's way goes to the free index.
Evict(f, i) ==
    LET es     == f.entries
        before == Follow(es, es[i].hash % f.cap, {j \in DOMAIN es : es[j].next = i})
    IN [f EXCEPT !.entries[f.freeIndex] = es[i],
                    !.entries[before].next = f.freeIndex,
                    !.entries[i].next = INVALID]

Put(f, id, hash) ==
    LET es   == f.entries
        i    == hash % f.cap
        last == Follow(es, i, {j \in DOMAIN es : es[j].key = id})
    IN IF es[i].offset = 0
       THEN LET put == SetHashEntry(f, i, id, hash)
            IN IF i = f.freeIndex THEN AdvanceFreeIndex(put) ELSE put
       ELSE IF es[i].hash % f.cap # i
       THEN AdvanceFreeIndex(SetHashEntry(Evict(f, i), i, id, hash))
       ELSE IF es[last].key = id
       THEN [f EXCEPT !.duplicate = TRUE]
       ELSE AdvanceFreeIndex(SetHashEntry([f EXCEPT !.entries[last].next = f.freeIndex],
                                          f.freeIndex, id, hash))

WriteToDisk(ids) ==
    FoldLeft(LAMBDA f, id : IF f.duplicate THEN f ELSE Put(f, id, itemHash[id]), EmptyFile(Len(ids)), ids)

Scanned(scan) == FoldLeft(ItemGenAdd, ReadDbEntries, scan)

\* item_gen_scan_and_generate.  A scan with two items in one script throws:
\* before the commit if the script is new, before the file if it is known.
ItemGen(scan) ==
    LET gen     == Scanned(scan)
        commit  == CommitChanges(gen.changes)
        written == WriteToDisk(gen.prototypes)
        wrote   == commit # None /\ ~written.duplicate
    IN /\ Len(scanned.all) < MaxScans
       /\ itemRows' = IF commit = None THEN itemRows ELSE commit
       /\ itemFile' = IF wrote THEN written ELSE itemFile
       /\ scanned' = [all |-> Append(scanned.all, scan), file |-> IF wrote THEN scan ELSE scanned.file]
       /\ UNCHANGED itemHash

\* The program dies between the commit and the file.
ItemGenDies(scan) ==
    /\ Len(scanned.all) < MaxScans
    /\ CommitChanges(Scanned(scan).changes) # None
    /\ itemRows' = CommitChanges(Scanned(scan).changes)
    /\ scanned' = [scanned EXCEPT !.all = Append(@, scan)]
    /\ UNCHANGED <<itemHash, itemFile>>

ItemInit ==
    /\ itemHash \in Hashes
    /\ itemRows = {} /\ itemFile = None
    /\ scanned = [all |-> <<>>, file |-> <<>>]
-----------------------------------------------------------------------------
(* Opening and finding.                                                    *)

\* item_shm_loader_open_main: item_shm_loader_try_open never says that it
\* succeeded, so that the second path is opened over the first.  Without a
\* file item_shm_loader_send_details tells the children nothing.
OpenMain(first, second) == IF second # None THEN second ELSE first

\* item_share_mem_get_offset and item_share_mem_get_prototype
GetPrototype(f, id) ==
    LET es == f.entries
        i  == itemHash[id] % f.cap
        at == Follow(es, i, {j \in DOMAIN es : es[j].key = id})
    IN IF es[i].offset = 0 \/ es[i].hash % f.cap # i \/ es[at].key # id \/ es[at].offset > f.count
       THEN 0 ELSE es[at].offset
-----------------------------------------------------------------------------
\* The scripts an id has in the database, and in the file.
RowPath(id)  == {r.path : r \in {x \in itemRows : x.id = id}}
FilePath(id) == LET at == IF itemFile = None THEN 0 ELSE GetPrototype(itemFile, id)
                IN IF at = 0 THEN {} ELSE {scanned.file[at][1]}

\* PROPERTY.  Whatever the hashes and the order of the scripts, and after
\* scripts have come and gone, each run of item_gen leaves a file in which an
\* id that is found leads to the prototype of the script that has this id in
\* the database, and each script of the scan is found under its id.  An id
\* never passes from one script to another, in the database or from one file
\* to the next, although programs throw and die: the ids in the inventories
\* of the players go on to mean the same items.
ItemsFound ==
    [][scanned' # scanned =>
         \A id \in DOMAIN itemHash :
            /\ FilePath(id)' = RowPath(id)' \cap {s[1] : s \in Range(scanned'.file)}
            /\ RowPath(id) \subseteq RowPath(id)'
            /\ FilePath(id) # {} /\ FilePath(id)' # {} => FilePath(id) = FilePath(id)']_itemVars
==============================================================================
