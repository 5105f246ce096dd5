------------------------------ MODULE Character ------------------------------
(***************************************************************************)
(* The life of one character in the database: it is created by the         *)
(* char-select process, loaded by the zone cluster when it is announced,   *)
(* shown to its player, changed by scripts and written back by the         *)
(* auto-save timer (char_create_lua.c, client.c, inventory.c, skills.c,    *)
(* spellbook.c, client_save.c, client_packet_trilogy_output.c).            *)
(*                                                                         *)
(* The main thread of the zone cluster and its database thread share one   *)
(* SQLite connection.  The database thread makes the first step of a       *)
(* SELECT; its remaining rows are fetched by the callback on the main      *)
(* thread (query_select), possibly between two statements of a save.       *)
(* Two sessions of the character can exist at once: a client that lost its *)
(* connection lingers, and goes on saving, while its player returns.       *)
(*                                                                         *)
(* A table is a set of rows <<key, value>>; positions, names and most of   *)
(* the statistics are one value, "stat".  SQLite is external: a process    *)
(* that dies leaves the last commit behind.                                *)
(***************************************************************************)
EXTENDS ItemStore

CONSTANTS Sessions,    \* client objects of this character, numbered as they are created
          BindCount,   \* EQP_CLIENT_BIND_POINT_COUNT, 5 in the code
          PlayedScans, \* bound: the scans of item_gen after which the server is started
          PlayedHash,  \* bound: and the hash function it is then started with
          Iksar,       \* whether a created character may be an Iksar, and may not
          StartItems,  \* sequences of items a creation script may add
          StartBinds,  \* bind points a creation may name
          Books,       \* rows of the spellbook table before the first load
          MaxChanges,  \* bound: changes made by scripts
          MaxPending   \* bound: waiting snapshots of one session

VARIABLES cre,      \* creation in the char-select process
          db,       \* the rows as the zone cluster's connection sees them
          disk,     \* the rows as last committed
          cl,       \* the sessions
          pend,     \* inTransactionQueue: snapshots waiting for the database thread
          tx,       \* the transaction the database thread is in, or NoTx
          torn      \* whether some SELECT has read rows of two states of its table

charVars == <<itemVars, cre, db, disk, cl, pend, tx, torn>>

Keyed     == <<"memmed", "skill", "bind", "inventory", "spellbook">>
Tables    == {"stats"} \cup Range(Keyed)

\* The rows of a table: the keys are its primary key.
IsTable(rows) ==
    /\ IsFiniteSet(rows)
    /\ \A r \in rows : r \in Nat \X {r[2]}
    /\ \A r, o \in rows : r[1] = o[1] => r = o

Lowest(rows) == CHOOSE r \in rows : \A o \in rows : r[1] <= o[1]

\* ORDER BY the key: the k-th row has k - 1 rows before it.
Ordered(rows) ==
    [k \in 1 .. Cardinality(rows) |->
        CHOOSE r \in rows : Cardinality({o \in rows : o[1] < r[1]}) = k - 1]

NoRows == [t \in Tables |-> {}]

\* No transaction.  In one, at counts the tables that are written.
NoTx == [rows |-> NoRows, at |-> -1, deleted |-> FALSE]
-----------------------------------------------------------------------------
(* Skills and languages, by representatives: skill 0 has the number of a   *)
(* language, skill 1 is one a class cannot learn, skill 2 is Swimming.     *)

SkillIds == 0 .. 2
LangIds  == {0}
CANT_LEARN == 255
HAVENT_TRAINED == 254
SKILL_MAX == 250
LANGUAGE_OFFSET == 100

\* skills_preinit
UntrainedSkills ==
    [skill |-> [i \in SkillIds |-> IF i \in {0, 2} THEN 0 ELSE HAVENT_TRAINED],
     lang  |-> [i \in LangIds |-> 100]]

\* skills_init: what the class cannot learn, and the Iksar's swimming.
InitSkills(sk, iksar) ==
    [sk EXCEPT !.skill[1] = CANT_LEARN, !.skill[2] = IF iksar THEN 100 ELSE @]

\* skills_set_from_db: the row of a language also sets the skill of its number.
SetSkill(sk, row) ==
    IF row[1] >= LANGUAGE_OFFSET
    THEN LET i == row[1] - LANGUAGE_OFFSET
         IN IF i \notin LangIds THEN sk
            ELSE [sk EXCEPT !.lang[i] = row[2], !.skill[i] = row[2]]
    ELSE [sk EXCEPT !.skill[row[1]] = row[2]]

Trained(v) == v \in 1 .. SKILL_MAX

SaveSkills(sk) ==
    {<<i, sk.skill[i]>> : i \in {j \in SkillIds : Trained(sk.skill[j])}}
    \cup {<<i + LANGUAGE_OFFSET, sk.lang[i]>> : i \in {j \in LangIds : Trained(sk.lang[j])}}
-----------------------------------------------------------------------------
(* Bind points, memorized spells, spellbook.                               *)

BindIds == 0 .. BindCount - 1
Qeynos  == "qeynos"

\* client_set_bind_point for every row, then client_fill_in_missing_bind_points.
LoadBinds(rows) ==
    LET set   == [i \in BindIds |-> IF \E r \in rows : r[1] = i
                                    THEN (CHOOSE r \in rows : r[1] = i)[2] ELSE None]
        named == {i \in BindIds : set[i] # None}
        fill  == IF named = {} THEN Qeynos
                 ELSE set[CHOOSE i \in named : \A j \in named : i <= j]
    IN [i \in BindIds |-> IF set[i] = None THEN fill ELSE set[i]]

SaveBinds(bind) == {<<i, bind[i]>> : i \in {j \in DOMAIN bind : bind[j] # None}}

MemSlots == 0 .. 8  \* EQP_MEMORIZED_SPELL_SLOTS

LoadMemmed(rows) ==
    [i \in MemSlots |-> IF \E r \in rows : r[1] = i
                        THEN (CHOOSE r \in rows : r[1] = i)[2] ELSE None]

\* Mutant: the first gem is passed over.
SaveMemmed_FromOne(mem) == {<<i, mem[i]>> : i \in {j \in MemSlots \ {0} : mem[j] # None}}

SaveMemmed(mem) == {<<i, mem[i]>> : i \in {j \in MemSlots : mem[j] # None}}

LoadBook(rows) == Ordered(rows)

SaveBook(book) == Range(book)
-----------------------------------------------------------------------------
(* Inventory: an array of <<slot, item>>, the cursor first.                *)

\* item_share_mem_open, of the path the master names; nothing is at the second path.
ViewedItems == OpenMain(itemFile, None)

FoundIds == {id \in DOMAIN itemHash : GetPrototype(ViewedItems, id) # 0}

\* What zc_item_by_id finds; the file stays as it was when the server was started.
Known == cre.known

InvSlot_Primary == 13
InvSlot_Cursor  == 30

\* inventory_init: the cursor's entry has no item, and never gets one.
EmptyInventory == [slots |-> << <<InvSlot_Cursor, None>> >>, primaryIndex |-> -1, queue |-> <<>>]

\* Mutant: everything for the cursor goes to its queue.
AddItem_Queued(inv, row) ==
    IF row[1] = InvSlot_Cursor THEN [inv EXCEPT !.queue = Append(@, row)]
    ELSE [inv EXCEPT !.slots = Append(@, row)]

\* inventory_add_from_database
AddItem(inv, row) ==
    IF row[1] = InvSlot_Cursor /\ inv.slots[1][2] # None
    THEN [inv EXCEPT !.queue = Append(@, row)]
    ELSE [inv EXCEPT !.slots = Append(@, row),
                     !.primaryIndex = IF row[1] = InvSlot_Primary THEN Len(inv.slots) ELSE @]

\* A row whose item has no prototype is passed over.
WithPrototype(rows) == {r \in rows : r[2] \in Known}

SaveInventory(inv) == {r \in Range(inv.slots) : r[2] # None}
-----------------------------------------------------------------------------
(* The callbacks that take the rows one by one, in the order of the keys.  *)

LoadRow(t, part, row) == IF t = "skill" THEN SetSkill(part, row) ELSE AddItem(part, row)

LoadRows(t, start, rows) ==
    LET sorted == Ordered(rows)
        after[k \in 0 .. Len(sorted)] ==
            IF k = 0 THEN start ELSE LoadRow(t, after[k - 1], sorted[k])
    IN after[Len(sorted)]

LoadSkills(sk, rows) == LoadRows("skill", sk, rows)
LoadInventory(rows)  == LoadRows("inventory", EmptyInventory, WithPrototype(rows))
-----------------------------------------------------------------------------
(* What the player is shown.                                               *)

\* The arrays of the player profile: first slot, last slot, entries.
Main     == [from |-> 1,    to |-> 30,   size |-> 30]
Bags     == [from |-> 251,  to |-> 340,  size |-> 90]
Bank     == [from |-> 2000, to |-> 2007, size |-> 8]
BankBags == [from |-> 2031, to |-> 2111, size |-> 80]

\* Mutant: the range without its last slot.
InArea_Short(inv, a) == {r \in Range(inv.slots) : r[2] # None /\ r[1] \in a.from .. a.to - 1}

\* inventory_iterate_no_augs
InArea(inv, a) == {r \in Range(inv.slots) : r[2] # None /\ r[1] \in a.from .. a.to}

\* Every item is written at its distance from the first slot of the array.
WrittenTo(inv, a) == {<<r[1] - a.from, r[2]>> : r \in InArea(inv, a)}

\* client_trilogy_send_player_profile, by its parts.
CarriedItems(inv) == [a \in {Main, Bags} |-> WrittenTo(inv, a)]
BankItems(inv)    == [a \in {Bank, BankBags} |-> WrittenTo(inv, a)]
BankCharges(inv)  == [a \in {Bank, BankBags} |-> {w[1] : w \in WrittenTo(inv, a)}]

\* The book up to its trilogy size, and one gem less than there are memorized spells.
SpellsShown(m) == [book |-> {r \in Range(m.book) : r[1] < 256},
                   gems |-> [i \in 0 .. 7 |-> m.mem[i]]]

StatsShown(m) == [stat |-> m.stat, lang |-> m.sk.lang]
GuildAndTimesShown(m) == m.stat
TrainingShown(m) == [skill |-> m.sk.skill, bind |-> m.bind]

Profile(m) == [stats |-> StatsShown(m), carried |-> CarriedItems(m.inv), spells |-> SpellsShown(m),
               training |-> TrainingShown(m), charges |-> BankCharges(m.inv), bank |-> BankItems(m.inv),
               other |-> GuildAndTimesShown(m)]

\* client_trilogy_send_zone_entry
ZoneEntry(m) == m.stat

\* client_trilogy_handle_op_inventory_request: an item packet, with the slot
\* and the id of the prototype, for every item in whichever slot.
ItemPacket(r) == [slot |-> r[1], item |-> r[2]]
ItemPackets(inv) == {ItemPacket(r) : r \in {x \in Range(inv.slots) : x[2] # None}}
-----------------------------------------------------------------------------
(* Before the server is started: item_gen.                                 *)

RunItemGen(scan) ==
    /\ cre.st = "none"
    /\ ItemGen(scan) \/ ItemGenDies(scan)
    /\ UNCHANGED <<cre, db, disk, cl, pend, tx, torn>>

\* Bound: of all item files the server is started with one.
ServerStarted == itemHash = PlayedHash /\ scanned = [all |-> PlayedScans, file |-> Last(PlayedScans)]
-----------------------------------------------------------------------------
\* What a creation script gives, and what the spellbook table may hold: rows
\* with their keys, and spells the lowest of which has a gem.
ASSUME CharacterAssumption ==
    /\ BindCount \in Nat
    /\ None \notin DOMAIN PlayedHash /\ None # Qeynos
    /\ Iksar \subseteq BOOLEAN
    /\ \A items \in StartItems : items \in Seq(Nat \X Nat)
    /\ \A binds \in StartBinds : IsTable(binds) /\ \A b \in binds : b[2] # None
    /\ \A book \in Books :
         /\ IsTable(book) /\ book # {} /\ None \notin {r[2] : r \in book}
         /\ Lowest(book)[1] \in MemSlots
-----------------------------------------------------------------------------
(* Creation in the char-select process.                                    *)

\* char_create_lua_add_starting_item: a second item for a slot replaces the first.
AddStartingItems(items) ==
    {items[k] : k \in {j \in DOMAIN items : \A l \in DOMAIN items : l > j => items[l][1] # items[j][1]}}

\* char_create_lua_set_bind_point: an index that is too large is ignored.
SetBindPoint(binds) == {b \in binds : b[1] \in BindIds}

\* The INSERT of cs_trilogy_handle_op_create_character; the script has given
\* items and bind points.  (CharSelect models the checks before it; what the
\* spellbook holds was put there by hand, no code writes it before a save.)
Create(iksar, items, binds, book) ==
    /\ cre.st = "none" /\ ServerStarted
    /\ cre' = [st |-> "inserted", known |-> FoundIds, iksar |-> iksar,
                items |-> AddStartingItems(items), binds |-> SetBindPoint(binds)]
    /\ disk' = [disk EXCEPT !["stats"] = {<<0, 0>>}, !["spellbook"] = book,
                            !["memmed"] = {Lowest(book)}]
    /\ db' = disk'
    /\ UNCHANGED <<itemVars, cl, pend, tx, torn>>

\* cs_client_trilogy_create_character_callback and cs_client_trilogy_transaction:
\* bind points and items in one transaction, if there are any.
CreateDetails ==
    /\ cre.st = "inserted"
    /\ cre' = [cre EXCEPT !.st = "created"]
    /\ disk' = [disk EXCEPT !["bind"] = cre.binds, !["inventory"] = cre.items]
    /\ db' = disk'
    /\ UNCHANGED <<itemVars, cl, pend, tx, torn>>

\* The char-select process dies between the two; the character stays.
CharSelectDies ==
    /\ cre.st = "inserted"
    /\ cre' = [cre EXCEPT !.st = "orphan"]
    /\ UNCHANGED <<itemVars, db, disk, cl, pend, tx, torn>>
-----------------------------------------------------------------------------
(* Loading.                                                                *)

Blank == [stat |-> 0, sk |-> UntrainedSkills, inv |-> EmptyInventory,
          book |-> <<>>, mem |-> LoadMemmed({}), bind |-> [i \in BindIds |-> None]]

\* A session: its queries that wait for the database thread, those that wait
\* for their callbacks (the back of outQueue first), the flags of loaded.
Absent == [st |-> "none", todo |-> <<>>, out |-> <<>>, loaded |-> {}, m |-> Blank, shown |-> None]
Gone   == [Absent EXCEPT !.st = "gone"]

\* client_create: five queries; the one for the skills follows the stats.
\* (Bound: one session loads at a time.)
FirstQueries == <<"stats", "inventory", "spellbook", "memmed", "bind">>

Announce(s) ==
    /\ cre.st \in {"created", "orphan"}
    /\ cl[s].st = "none"
    /\ \A o \in Sessions : cl[o].st # "loading" /\ (o < s => cl[o].st # "none")
    /\ cl' = [cl EXCEPT ![s] = [Absent EXCEPT !.st = "loading", !.todo = FirstQueries]]
    /\ UNCHANGED <<itemVars, cre, db, disk, pend, tx, torn>>

\* Mutant: an index serves the inventory too.
ReadAtOnce_Never(t) == FALSE

\* SQLite reads the whole result when no index serves the ORDER BY.
ReadAtOnce(t) == t = "inventory"

\* query_execute_background: the first step of the statement.
FirstStep(t) ==
    [t |-> t, was |-> db[t],
     rows |-> IF ReadAtOnce(t) \/ db[t] = {} THEN db[t] ELSE {Lowest(db[t])}]

\* db_thread_read_newly_scheduled and db_thread_execute_queries, between two
\* transactions: the n queries that have been scheduled by now.  The first is
\* executed first, then array_swap_and_pop brings up the last one, and so on;
\* callbacks take the newest first.  (A callback that comes during the batch
\* finds the same rows as after it.)
ExecuteLoads(s, n) ==
    LET todo  == cl[s].todo
        batch == SubSeq(todo, 2, n) \o <<todo[1]>>
    IN /\ tx = NoTx
       /\ n \in DOMAIN todo
       /\ cl' = [cl EXCEPT ![s].out  = [i \in 1 .. n |-> FirstStep(batch[i])] \o @,
                           ![s].todo = SubSeq(@, n + 1, Len(@))]
       /\ UNCHANGED <<itemVars, cre, db, disk, pend, tx, torn>>

\* query_select until it ends: the fetched row, then the rows after it as
\* they are now; a statement that had ended starts again.
Selected(q) ==
    IF q.rows = {} THEN db[q.t]
    ELSE IF ReadAtOnce(q.t) THEN q.rows
    ELSE q.rows \cup {r \in db[q.t] : \A f \in q.rows : r[1] > f[1]}

\* The six load callbacks.
LoadStats(m, rows) ==
    [m EXCEPT !.stat = (CHOOSE r \in rows : TRUE)[2], !.sk = InitSkills(m.sk, cre.iksar)]

LoadTable(t, m, rows) ==
    CASE t = "stats"     -> LoadStats(m, rows)
      [] t = "skill"     -> [m EXCEPT !.sk = LoadSkills(@, rows)]
      [] t = "inventory" -> [m EXCEPT !.inv = LoadInventory(rows)]
      [] t = "spellbook" -> [m EXCEPT !.book = LoadBook(rows)]
      [] t = "memmed"    -> [m EXCEPT !.mem = LoadMemmed(rows)]
      [] t = "bind"      -> [m EXCEPT !.bind = LoadBinds(rows)]

\* db_thread_execute_query_callbacks
LoadCallback(s) ==
    LET q    == Head(cl[s].out)
        rows == Selected(q)
    IN /\ cl[s].out # <<>>
       /\ cl' = [cl EXCEPT ![s].m      = LoadTable(q.t, @, rows),
                           ![s].out    = Tail(@),
                           ![s].loaded = @ \cup {q.t},
                           ![s].todo   = IF q.t = "stats" THEN Append(@, "skill") ELSE @]
       /\ torn' = (torn \/ rows # q.was)
       /\ UNCHANGED <<itemVars, cre, db, disk, pend, tx>>

\* client_check_loading_finished: timers start, the profile and the zone
\* entry are sent.
Enter(s) ==
    /\ cl[s].st = "loading"
    /\ cl[s].loaded = Tables
    /\ cl' = [cl EXCEPT ![s].st = "in", ![s].shown = [profile |-> Profile(cl[s].m), entry |-> ZoneEntry(cl[s].m)]]
    /\ UNCHANGED <<itemVars, cre, db, disk, pend, tx, torn>>
-----------------------------------------------------------------------------
(* Playing.                                                                *)

\* A script changes a base statistic (mob_set_base_str and the like).
Change(s) ==
    /\ cl[s].st = "in"
    /\ \A o \in Sessions : cl[o].m.stat < MaxChanges
    /\ cl' = [cl EXCEPT ![s].m.stat = @ + 1]
    /\ UNCHANGED <<itemVars, cre, db, disk, pend, tx, torn>>

\* client_save and client_save_override_location_and_vitals copy the client,
\* in the form the rows will have.  (disciplineTimestamp is not copied and the
\* memory not cleared: that column is not part of the model.)
Snapshot(m) ==
    [t \in Tables |->
        CASE t = "stats"     -> {<<0, m.stat>>}
          [] t = "skill"     -> SaveSkills(m.sk)
          [] t = "inventory" -> SaveInventory(m.inv)
          [] t = "spellbook" -> SaveBook(m.book)
          [] t = "memmed"    -> SaveMemmed(m.mem)
          [] t = "bind"      -> SaveBinds(m.bind)]

PendingOf(s) == SelectSeq(pend, LAMBDA p : p.of = s)

\* Mutant: only the first snapshot is scheduled.
AutoSave_Once(s) ==
    /\ cl[s].st = "in"
    /\ disk["skill"] = {} /\ tx = NoTx /\ pend = <<>>
    /\ pend' = Append(pend, [of |-> s, rows |-> Snapshot(cl[s].m)])
    /\ UNCHANGED <<itemVars, cre, db, disk, cl, tx, torn>>

\* client_timer_auto_save_callback
AutoSave(s) ==
    /\ cl[s].st = "in"
    /\ Len(PendingOf(s)) < MaxPending
    /\ pend' = Append(pend, [of |-> s, rows |-> Snapshot(cl[s].m)])
    /\ UNCHANGED <<itemVars, cre, db, disk, cl, tx, torn>>

\* The client is dropped (Zone models when); nothing is saved.  Queries in
\* flight hold references, so a client that is loading stays.
Leave(s) ==
    /\ cl[s].st = "in"
    /\ cl' = [cl EXCEPT ![s] = Gone]
    /\ UNCHANGED <<itemVars, cre, db, disk, pend, tx, torn>>
-----------------------------------------------------------------------------
(* The database thread: client_save_transaction statement by statement.    *)

\* BEGIN, for the snapshot at the back of the queue.
Begin ==
    /\ tx = NoTx
    /\ pend # <<>>
    /\ tx' = [rows |-> pend[Len(pend)].rows, at |-> 0, deleted |-> FALSE]
    /\ pend' = SubSeq(pend, 1, Len(pend) - 1)
    /\ UNCHANGED <<itemVars, cre, db, disk, cl, torn>>

\* UPDATE character
UpdateStats ==
    /\ tx.at = 0
    /\ db' = [db EXCEPT !["stats"] = tx.rows["stats"]]
    /\ tx' = [tx EXCEPT !.at = 1]

\* DELETE FROM the table, then one INSERT per row.
DeleteRows ==
    /\ tx.at \in DOMAIN Keyed /\ ~tx.deleted
    /\ db' = [db EXCEPT ![Keyed[tx.at]] = {}]
    /\ tx' = IF tx.rows[Keyed[tx.at]] = {} THEN [tx EXCEPT !.at = @ + 1]
             ELSE [tx EXCEPT !.deleted = TRUE]

InsertRow ==
    /\ tx.at \in DOMAIN Keyed /\ tx.deleted
    /\ LET t    == Keyed[tx.at]
           left == tx.rows[t] \ db[t]
           r    == Lowest(left)
       IN /\ db' = [db EXCEPT ![t] = @ \cup {r}]
          /\ tx' = IF left = {r} THEN [tx EXCEPT !.at = @ + 1, !.deleted = FALSE] ELSE tx

Statement ==
    /\ tx # NoTx
    /\ UpdateStats \/ DeleteRows \/ InsertRow
    /\ UNCHANGED <<itemVars, cre, disk, cl, pend, torn>>

Commit ==
    /\ tx # NoTx
    /\ tx.at > Len(Keyed)
    /\ disk' = db
    /\ tx' = NoTx
    /\ UNCHANGED <<itemVars, cre, db, cl, pend, torn>>

\* The zone cluster's process dies; the journal takes the file back to the
\* last commit.
Crash ==
    /\ \E s \in Sessions : cl[s].st \in {"loading", "in"}
    /\ db' = disk
    /\ cl' = [s \in Sessions |-> IF cl[s] = Absent THEN Absent ELSE Gone]
    /\ pend' = <<>>
    /\ tx' = NoTx
    /\ UNCHANGED <<itemVars, cre, disk, torn>>
-----------------------------------------------------------------------------
CharacterInit ==
    /\ ItemInit
    /\ cre = [st |-> "none"]
    /\ db = NoRows /\ disk = NoRows
    /\ cl = [s \in Sessions |-> Absent]
    /\ pend = <<>> /\ tx = NoTx
    /\ torn = FALSE

CharacterNext ==
    \/ \E scan \in Scans : RunItemGen(scan)
    \/ \E iksar \in Iksar, items \in StartItems, binds \in StartBinds, book \in Books :
         Create(iksar, items, binds, book)
    \/ CreateDetails \/ CharSelectDies
    \/ \E s \in Sessions :
         \/ Announce(s) \/ LoadCallback(s) \/ Enter(s) \/ Change(s) \/ AutoSave(s) \/ Leave(s)
         \/ \E n \in 1 .. Len(FirstQueries) : ExecuteLoads(s, n)
    \/ Begin \/ Statement \/ Commit
    \/ Crash

CharacterSpec == CharacterInit /\ [][CharacterNext]_charVars

\* Timers and callbacks run in every cycle of the main loop; the database
\* thread runs while it has work.
Fairness ==
    /\ WF_charVars(Begin \/ Statement \/ Commit)
    /\ \A s \in Sessions : WF_charVars(AutoSave(s))

CharacterFairSpec == CharacterSpec /\ Fairness
-----------------------------------------------------------------------------
Exists == cre.st \in {"created", "orphan"}
Playing(s) == cl[s].st = "in"

\* INVARIANT.  The items a character was created with, and that have a
\* prototype, are in the database once and in their slot, whoever loads and
\* saves at the same time and whichever process dies: inventory.h says that
\* saving whole in one transaction "ensures that an inventory will always be
\* consistent in the database".  It needs the rows to be read at once, too.
InventoryKept ==
    cre.st = "created" =>
        {r \in disk["inventory"] : r[2] \in Known} = {r \in cre.items : r[2] \in Known}

\* INVARIANT.  A spell is lost from the book, and from the gems, only when a
\* session's callback read the rows of two states of the table (torn).
SpellsKeptUnlessTorn ==
    Exists /\ ~torn =>
        /\ \E b \in Books : disk["spellbook"] = b
        /\ disk["memmed"] = {Lowest(disk["spellbook"])}

\* What a load makes of the rows that auto-save would write now
Reload(m) ==
    LET rows == Snapshot(m)
        sk   == LoadSkills(InitSkills(UntrainedSkills, cre.iksar), rows["skill"])
    IN [m EXCEPT !.inv = LoadInventory(rows["inventory"]), !.book = LoadBook(rows["spellbook"]),
                 !.mem = LoadMemmed(rows["memmed"]), !.bind = LoadBinds(rows["bind"]),
                 !.sk = sk]

\* INVARIANT.  What auto-save would write now is what the next load gives
\* back: bind points, gems, spellbook, inventory, languages and the skills
\* whose number is not also the number of a language.
ReloadedAsSaved ==
    \A s \in Sessions : Playing(s) =>
        LET m == cl[s].m
            r == Reload(m)
        IN /\ [r EXCEPT !.sk = m.sk] = m
           /\ r.sk.lang = m.sk.lang
           /\ \A i \in SkillIds \ LangIds : r.sk.skill[i] = m.sk.skill[i]

\* INVARIANT.  Every item packet names an item that the profile has in the
\* place of its slot, inside the array, and the profile has nothing else; only
\* the last slot of the bank bags lies outside (81 slots, 80 entries).
ShownInPlace ==
    \A s \in Sessions : Playing(s) =>
        LET p       == cl[s].shown.profile
            packets == ItemPackets(cl[s].m.inv)
            InPlace(w, a) ==
                /\ w = {<<k.slot - a.from, k.item>> : k \in {x \in packets : x.slot \in a.from .. a.to}}
                /\ \A e \in w : e[1] < a.size \/ e[1] + a.from = 2111
        IN /\ \A a \in {Main, Bags} : InPlace(p.carried[a], a)
           /\ \A a \in {Bank, BankBags} :
                InPlace(p.bank[a], a) /\ p.charges[a] = {e[1] : e \in p.bank[a]}

\* PROPERTY.  What a script has done to a client is written sooner or later,
\* unless the client leaves first (nothing is saved then), is changed again
\* or another session of the character is in the zone.
EventuallySaved ==
    \A s \in Sessions, v \in 1 .. MaxChanges :
        (Playing(s) /\ cl[s].m.stat = v)
          ~> \/ disk["stats"] = {<<0, v>>}
             \/ ~Playing(s)
             \/ cl[s].m.stat # v
             \/ \E o \in Sessions \ {s} : Playing(o)
==============================================================================
