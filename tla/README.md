# A TLA+ verification of EQP

EQP is an EverQuest server emulator in C. It runs as several processes: `master`,
which starts and supervises the others; `log-writer`; `login`; `char-select`; one
or more `zone-cluster` processes; and `console`, a command-line client of the
master. `map_gen` and `item_gen` are offline tools. The repository has no
documentation beyond its comments and no tests, so the comments are what the
properties are held against.

Paths below are relative to `src/src/` unless they start with `bin/`.

## Inventory

| Part | State it keeps | Operations | Talks to others by |
|---|---|---|---|
| IPC ring (`common/sync/ipc_buffer.c`) | four cursors, blocks with two flags, a semaphore, all in shared memory | `ipc_buffer_write` by anyone, `ipc_buffer_read` by the owner | is the channel between all processes |
| Database thread (`common/db/db_thread.c`, `common/eqp_thread.c`) | four queues, two mutexes, the thread's semaphore and two "lifetime" mutexes | schedule, run transactions, execute queries, run callbacks, stop | one per process, queues shared with the main thread |
| Log writer (`log/`) | input queue, write queue, open files | open, write, close, report a failure, stop | fed by every process through its ring |
| Timers (`common/time/`) | pool of (trigger time with dead bit, timer), index in each timer | create, start, stop, restart, delay, force, destroy, execute | callbacks, also into Lua |
| Trilogy protocol (`non_master/net/`) | per connection: numbers, slots of received packets, output queue, resend index | receive, acknowledge, reassemble, send, resend | UDP to the game client |
| Master (`master/`) | children, clients, zone clusters, one lock, message of the day | start, supervise, restart, hand over clients, shut down | all rings, the database thread |
| Zone-cluster manager (`master/zone_cluster_manager.c`) | clusters, which zone runs where, reservations | configure, reserve, find or start a zone | rings of the clusters |
| Zone cluster (`zone_cluster/zone_cluster.c`, `zone.c`, `mob/client.c`) | zones with their lists of mobs and clients, expected and connected clients, reference counts | announce, load, match with a connection, enter, broadcast, linkdead, linger, remove | ring, UDP, timers, database callbacks |
| A character (`zone_cluster/mob/client*.c`, `inventory.c`, `skills.c`, `spellbook.c`) | the loaded character, snapshots waiting to be saved | create, load, change, auto-save, show | six tables of the database, one connection shared by two threads |
| Items (`item_gen/`, `master/item_shm_loader.c`, `common/item/item_share_mem.c`) | ids in the database, a file with a hash table and prototypes | scan, commit, write, open, look up | the item file, which all processes map |
| UDP socket (`non_master/net/udp_socket.c`, `protocol_handler.c`) | connections with dead and ignore flags, handlers with reference counts | first packet, sweep for inactive connections, removal | callbacks into the process that owns it |
| Login (`login/`) | clients with references, clients by account, server listings, TCP connections | check credentials, create an account, list servers, issue a session key | UDP, TCP, database |
| Char select (`char_select/`) | clients, auths nobody has claimed, zone-in attempts and their timers | match client and auth, list, create, delete, zone in | UDP, TCP to login, ring, database |
| Containers (`common/container/`) | arrays, a hash table with chained entries and a free index | push, pop, swap and pop; set, get, remove, grow | used by all |

What is hard here: several processes write to one ring without locks; a child can
be killed by the master at any instruction; two or three threads of a process share
queues and one coarse lock; database callbacks run later than, and not in the order
of, what they answer; UDP loses, repeats and reorders; timers are created and
destroyed inside timer callbacks; objects are kept by reference counts that queries,
timers, tables and connections hold; arrays are compacted by swapping, so that every
index kept elsewhere must be corrected; a player may return while the old client
still lingers and saves; and shutting down involves all of it at once.
`PROJECT.json` lists these hazards one by one at the line where they bite.

## Modules

| Module | Models | Notes |
|---|---|---|
| `IpcBuffer` | the ring | every atomic operation of a writer is a step; payload stores and loads are steps of their own |
| `IpcQueue` | what the ring promises | a bounded FIFO queue; `IpcBuffer` refines it |
| `IpcBufferProofs` | | TLAPS proofs about `IpcBuffer` |
| `DbThread` | database thread, `Thread`, owner | a critical section is one step |
| `LogWriter` | both threads of the log writer | reads from the ring return any packet |
| `LogWriterProofs` | | TLAPS proof about `LogWriter` |
| `TimerPool` | timers and the pool | one thread; callbacks may do anything to any timer |
| `CommonProofs` | | TLAPS proofs about `DbThread`, `TimerPool` and `HashTable` |
| `AckCommon` | comparing two ack numbers | operators only; extended by both halves of the protocol |
| `TrilogyReceive` | receiving half of the protocol | the game client and the network are external |
| `ZoneClusterMgr` | assignment of zones to clusters | operators only; extended by `Master` |
| `Master` | main thread and IPC thread of the master | composes `ZoneClusterMgr` |
| `MasterProofs` | | TLAPS proofs about `Master` and `ZoneClusterMgr` |
| `TrilogySend` | sending half of the protocol | the client and the network are external |
| `TrilogyProofs` | | TLAPS proofs about `TrilogyReceive` and `TrilogySend` |
| `Login` | the login process | players' handshakes and servers' connections |
| `LoginProofs` | | TLAPS proofs about `Login` |
| `CharSelect` | the char-select process | composed with the master only through its answers |
| `Zone` | the zone-cluster process over the UDP socket | the memory is one record, functions are operators on it |
| `ZoneProofs` | | TLAPS proofs about `Zone` |
| `Character` | creation, load, save and display of a character | composes `ItemStore` with the zone cluster's two threads |
| `ItemStore` | item_gen, the item file, finding a prototype | extended by `Character` |
| `CharacterProofs` | | TLAPS proofs about `CharSelect` and `Character` |
| `HashTable` | the string hash table | one action per public operation |
| `StringMap` | what the hash table promises | a partial function; `HashTable` refines it |
| `MC*` | | instances for TLC: packet stream, keys and accounts, hashes, scans |

Variables carry the names of the C fields. A `pc`-like variable (`pc`, `rpc`,
`phase`, `main`, `ipc`, `owner`) says where a thread is, and an action is the stretch of
code between two points at which another thread can see a difference. History
variables are marked as such. Two of them bound the inputs (`requested` in `Master`
lets each client ask once, `scheduled` in `DbThread` lets each query be scheduled
once); apart from that they are only read by properties and by other history.

**IpcBuffer.** `pc[w]` walks a writer through `ipc_buffer_write` (`load`, `check`,
`claim`) and `ipc_buffer_do_write` (`write`, `store`, `loadStart`, `clear`,
`advance`, `trigger`). The weak compare-and-exchange may fail spuriously
(`ClaimFails`). A full ring makes the writer spin or give up (10 ms). `Kill` is
`proc_kill`. The reader is alone, so its two compare-and-exchanges per block are one
step. `lapped` records that a writer slept on an index for a full lap: from then on
its compare-and-exchange can succeed on stale grounds, and no ordering holds.

**DbThread.** `Front`/`Back` because the code takes transactions and callbacks from
the end of their arrays. `QueryBusy` leaves a query for the next round.
`ThrowOnOwner` is the error path of `query_execute_background`, which throws on the
Basic of the Core instead of the thread's: afterwards the thread is `escaped`.

**LogWriter.** `OpenFails` pushes its report onto the array that is being walked.
`dangling` says that `realloc` may have moved it; `ReadMovedArray` is the undefined
outcome of reading on, the other actions the outcome in which the memory is intact.

**TimerPool.** `SweepDead` is `timer_pool_swap_and_pop`: it writes `poolIndex` of
whichever timer it moves. `stale` records that the moved entry was dead. Touching a
freed timer leads to `undefined`, where the model ends. Indices start at 1 and 0 is
`INVALID_INDEX`.

**TrilogyReceive.** `Recv(a)` is the arrival of any copy of any packet sent so far,
so loss, repetition and reordering need no network variable. `ack_compare` works on
promoted integers and does not wrap. `skewed` records the fast path, or the arrival of
the first packet, with slots in use, `restarted` a second arrival of the first packet,
`exhausted` the endless growth of the slots: the promises hold up to these, which the
code does not handle. Of the client `StreamAssumption` says that the fragments of a
message follow each other in its stream (the code says "Working from the assumption"
of the same), that no message has more of them than half the window, and that the
numbers do not wrap.

**Master.** `mutex` is `ClientMgr.mutex`. The main thread is a loop over shutdown
check, callbacks and timers; the IPC thread configures, then handles packets under
the lock and, at the end, destroys the client manager without it. Packets, query
results and silence of a child arrive at any time. Each client asks to zone in once.
`KillGroup` is `kill -s 9 0`. The message of the day is taken to be in the database
(`bin/db/schema.sql` inserts it). Starting a process has the outcomes of
`StartOutcomes`; the swallowed exception leaves what was set before it.

**TrilogySend.** A packet is a number, a length and a count of fragments;
`FragBytes` and `PassedBytes` follow the cursor arithmetic of
`packet_trilogy_fragmentize` and of the resend path. A pass of the main loop
(`SendQueued`) sends what is new and what has timed out; an ack of any age may arrive
at any time. `crashed` is the exception that the cursor throws at the end of the
buffer when a packet is sent again from its middle. The numbers wrap; what is promised
of acks is promised until they do (`Unwrapped`), since the comparison with the last
number of a packet does not.

**Login.** A `LoginClient` is freed at reference 0: the connection, each query and
the list of clients that wait for a server hold one. `client_list_remove` takes every
entry of an account. `conns` are TCP connections in the order they were made,
`tcpClients` and `serverList` the two arrays that swap and pop.

**CharSelect.** A client with its key and the auth with the same key come in either
order. Zone-in attempts are records found by account, timers are counted per client,
and `answered` counts what the player was told. The duplicate INSERT of a pair, whose
callback never runs, is `pairFailed`.

**Zone.** `zc` is the memory of the process, and the functions of the code are
operators from a memory to the memory they leave, in the code's order; an action is
one packet, timer, query callback or IPC packet, and one entry of the sweep. A use of
freed or null memory sets `zc.fault` and ends the behaviour: the timer of an expected
client that was freed, a ZoneEntry on a freed stub, a disconnect or timeout of a
connection that was never matched, a client that was replaced and is still served,
and loading or a broadcast without a handler. The properties are about everything
that happens before the first fault.

**Character, ItemStore.** A table is a set of rows `<<key, value>>`. `db` is what the
connection sees, `disk` what is committed; a process that dies goes back to `disk`.
`ExecuteLoads` makes the first step of up to n queries, `LoadCallback` fetches the rest later
and takes the rows in the order of their keys (`LoadRows`);
`Begin`, `Statement` and `Commit` are the statements of `client_save_transaction`,
one at a time. `torn` records that a callback has read rows of two states. The skills
are three representatives: one that shares its number with a language, one a class
cannot learn, and Swimming. `ItemGen` and `ItemGenDies` are a whole run of the offline
program; the server is started (bound) with the file that one chosen sequence of runs
leaves, and an inventory holds ids that the file knows and one it does not.

**HashTable.** An entry is a key, its hash, a link and a value. `hash_table_realloc`
copies every entry, removed ones included; `FreedAt`, `PulledUp` and `Evicted` are the
three ways in which entries move.

## Runs

| Run | Bounds | Shows |
|---|---|---|
| `ipc_ring` | 3 blocks, 2 writers with 2 writes, one mortal | order, contents, exclusion, refinement of `IpcQueue`, delivery; only a killed writer can block the ring |
| `db` | 3 queries, 2 transactions, failing and with callback among them | once-only execution, termination |
| `log` | 2 sources, 4 packets, capacity 2 | order, file state, termination |
| `timers` | 2 timers, 3 entries, time up to 2, delays up to 3 | index agreement, forced timers are started, due timers run |
| `trilogy_receive` | 6 packets, a group of 2 fragments, half window 3 | order, wholeness, nothing acknowledged is lost |
| `trilogy_send` | 2 packets of 100, 600 or 1024 bytes, numbers from 1 | nothing is released early, everything arrives, where it fails, which bytes are missing |
| `master` | 2 zones, 1 client, 1 configured cluster of 1 or 2 zones, more on demand, char select watched | zones run once and within capacity, shutdown in order, clients answered |
| `login` | 2 players with one account, 1 server, 2 connections, 2 passwords | references, indices, keys, answers |
| `char_select` | 2 clients with two keys of one account, 1 character name, 1 request each | references, one answer per request, an answer in the end |
| `zone` | 2 clients, 2 names, 2 connections, 1 zone, 1 NPC, one table besides stats and skills | exact references, agreement of six lists, broadcasts, removal |
| `hash_table` | 4 keys with 3 hashes, 2 values, capacity up to 8 | refinement of `StringMap`, sound links and free index |
| `character` | 2 sessions, 1 change, 1 waiting snapshot, 4 item ids with all hashes of 4, 2 runs of item_gen out of 5 scans | nothing is lost but by a torn read, what is saved is loaded, shown and found |

Why the bounds suffice. Three blocks and two writes per writer take the ring round
once with both writers in it. Two transactions and three queries put two elements in
each queue, so that taking from the end and swapping show. A log array of capacity 2
and four packets make it grow under the walk. Three pool entries hold a live one, a
dead one and a moved one. Six packets span a group of fragments with packets before
and after it, and the window of 3 lets numbers fall behind it. 600 and 1024 bytes are two
fragments, the latter without room for its last bytes, so that acks come for the middle of a packet, and two packets make an ack
release one of them. Two zones compete for a cluster of one, with and without
reservations, and for a second cluster started on demand. Two players of one account
and two connections of a server make both arrays of the login process swap. Two
clients of one account race for its row and for the master's answer, which names the
account only. Two clients announced in the zone cluster are a character that returns
or two characters whose places are swapped, with an NPC between them. Four keys over
three hashes make chains of two with an entry of another chain in the way, and the
table grows twice. Two sessions are what a lingering client and its returned player
are; two runs of item_gen with scripts that come, go, change and appear twice give
every id a history.

All runs but `hash_table` turn deadlock checking off because the systems may stop:
writers run out of packets to send, processes shut down, players go.

## Fairness

Threads are scheduled: weak fairness of each thread's steps. Nobody has to call
`ipc_buffer_write`, schedule a query, post a packet or ask for a shutdown. Three
choices need a word:

- `DbThread` has strong fairness of finishing a query: SQLite answers `SQLITE_BUSY`
  again and again, but not forever, since other processes' transactions end;
- `Master` has strong fairness of taking the lock: `atomic_mutex_lock` is a spin
  lock, and the IPC thread blocks on its semaphore between packets with the lock
  free;
- `TrilogyReceive` assumes that the client repeats a packet until it is
  acknowledged and that one of the copies arrives; `TrilogySend` assumes the same of
  the other direction: of the copies of a datagram that the server goes on sending one
  arrives (strong fairness of receiving it, since copies are lost); acks may all be lost.

`Login`, `CharSelect` and `Zone` have weak fairness of what their main loops and their
database threads do by themselves: queries are executed, callbacks run, connections
are read, zone-in and linger timers fire, the sweep goes on. Players, servers and the
master owe nothing. `Character` has weak fairness of the database thread's steps and of
the auto-save timer, which the callback of every save restarts.

`ShutdownCompletes` excludes the self-deadlock of `eqp_master.c:209`: the status
check finds that the IPC thread has ended and throws with the lock held, and
`master_deinit` waits for the same lock. `EventuallyAnswered` excludes the faults of
`CallbackFaults` (through `MasterUp`), a shutdown, and a char select without a ring.

## Proofs

`IpcBufferProofs` proves, for every number of blocks `N >= 2`, every set of writers
and mortals and every bound on the writes (`RingAssumption`):

- `TypeCorrect`: `Spec => []TypeOK`;
- `RingCorrect`: `Spec => []RingInv`, the inductive invariant;
- `Fifo`: `Spec => []FifoDelivery`; `Exclusive`: `Spec => []ExclusiveBlock`;
- `OwnersCorrect`: `Spec => []OwnerInv`, a second inductive invariant on top of the
  first, and `Stuck`: `Spec => []StuckOnlyBehindTheDead`;
- `Refinement`: `Spec => ImplementsQueue`, that is, `Queue!Spec`.

`FifoDelivery` alone is not inductive: that the next packet is the right one depends
on what the blocks hold. `RingInv` says where the cursors are (`CursorOrder`,
`ReaderPosition`), that the distance between the next undelivered block and
`writeEnd` is the number of claimed and undelivered messages (`Accounted`), that a
published block holds its message (`Published`), that a block being filled belongs
to one writer (`FillingBlocks`), that a set flag means the payload is there
(`WrittenBlocks`), that at most one writer is between clearing a flag and advancing
(`AdvancingWriter`), and that loaded indices are current or out of harm's way
(`FreshIndices`). It is stated under `~lapped`; `LappedStays` shows that `lapped`
is never reset. Distances around the ring are handled by a few lemmas
(`DistFacts` and those after it), one lemma per action that moves a cursor does the
work, and `QuietStep` covers the rest.

`StuckOnlyBehindTheDead` looks only at states in which the surviving writers are idle,
so it says nothing about the states before. `OwnerInv` does: a claimed block has been
written, or some writer, killed or not, is filling it or advancing over it (`Owned`);
and when the block at `writeStart` has been written, some writer is about to look at
`writeStart` (`Helped`). The second part is what the loop of `ipc_buffer_do_write` is
for: whoever sets a flag or moves `writeStart` looks again.

`MasterProofs` proves, for every set of zones and clients, every choice of maxima
and any number of clusters (`ZoneAssumption`, `MasterAssumption`):

- `MasterCorrect`: `Spec => []MasterInv`, the inductive invariant;
- `OneThreadAtATimeHolds`, `ZoneRunsOnceHolds`, `WithinCapacityHolds` and
  `GroupKilledOnlyAfterFailureHolds`: the four properties of the same names.

`WithinCapacity` is not inductive: whether a reserved zone still fits when it is
started depends on how many other reservations are waiting. `RoomForWaiting` counts
them (`Waiting(k)`): the waiting reservations of a cluster are at most its
`reservedZones`, and together with the running zones they fit. Starting a reserved
zone removes it from `Waiting(k)` as `zoneCount` grows; starting another zone is
allowed by `zone_cluster_has_free_space`, which leaves room for all of them. While
the configuration runs a stronger bound holds, because no client can have been added
(`NoClientYet`) and so only reserved zones run (`OnlyReserved`); that in turn is why
an always-up zone is not started twice. The proof has two halves: `ControlStep`
goes through the actions for queries, children and the lock; `ZoneStep` shows that
only `ConfigureZones` and `FindCluster` change clusters and rests on one lemma for
each way they do so.

`CommonProofs` proves, for every set of timers, every period and all bounds
(`TimerAssumption`), `IndexCorrect`: `Spec => []IndexInv`. The inductive invariant
`TimerInv` adds two things. `CyclePlace`: the sweep notes only indices it has passed,
and since only the last entry is ever taken away they still name entries when their
callbacks run. `Agrees(t)`: the index of a timer is 0 or names an entry, is 0 when the
timer does not exist, and is not 0 when the timer is forced; without it a stopped
timer could be started over an entry that it already has. `Started`, `Written` and
`Swapped` say what the array operations do; for each there is a lemma that it keeps
the agreement, and `OperationStep` and `CycleStep` put them together.

It also proves, for all sets of queries and transactions, with any of them
failing or without a callback (`DbAssumption`; a job is not the marker for "no job"),
`ExactlyOnceHolds`: `Spec => []ExactlyOnce`. `ExactlyOnce` counts how often a job is in
which array; the inductive invariant `DbInv` says the same with sets, which the provers
handle: the four queues have no duplicates (`Queue`), the queues, the job each thread
holds and the finished jobs are pairwise disjoint (`Apart`), together they are what
was scheduled, and a job has been executed exactly when it is past the execution
(`Accounted`). `Holding` ties what a thread holds to where it is, so that a job in hand
is not overwritten. `JobAppended`, `BackTaken`, `SwappedAndPopped` and the lemmas after
them say what the array operations do to the set of elements; `TimesInQueue` leads back
from sets to counts.

Of `HashTable` it proves, for every set of keys and values, every hash function and any
capacity up to the bound (`HashTableAssumption`):

- `TableInductive`: `TableSpec => []Good(tbl)`;
- `TableSoundHolds`: `TableSpec => []TableSound`;
- `ImplementsMapHolds`: `TableSpec => ImplementsMap`, the refinement of `StringMap`.

`TableSound` follows the links, which says nothing of what a step does to them. In `Good` a
chain is a set, the used entries with one main position, and the links run through it in
the order of ranks that some function `d` gives (`IsChain`, `Linked`); the first is the main
position itself. `WalkFacts` leads from there to what the loops meet: ranks grow, so by
counting a walk is over before it has taken as many steps as there are entries.
`ChainAppended`, `ChainMoved` and `ChainCut` are what the code does to a chain: link one
behind the last, put one in the place of another, take one out. `Entries` adds that no key
is there twice and `FreeIndexRight` what the free index may miss: an entry at the main
position of the hash left behind in it. That clause is why copying removed entries does no
harm. The argument is in `CopyingStep`: a doubled table gives two hashes the same position
only if the old one did (`ModHalf`), and there the position was empty. `CopyingHasRoom` shows by
counting that a doubled table does not run out of free entries while it is filled, which
`hash_table_realloc` takes for granted.

`LogWriterProofs` proves, for every set of sources and any number of packets
(`LogAssumption`), `HandledInOrderHolds`: `Spec => []HandledInOrder`. In `LogInv` the
order of the packets is inductive together with the place of the pass (`PassInv`: what
`OpenFails` pushes lies behind `n`, and between two passes the array is empty). That a
message is written exactly when its file was opened and not closed is a statement about
the history, whereas `log_thread_write` looks at the list of files: `FilesInv` says that
the list is what the history says, which needs that no file is listed twice, because
`log_thread_close` removes one entry only. Nothing is claimed about the packets once the
pass has read an array that has moved.

`LoginProofs` proves, for every set of players, users and passwords and any number of
connections (`LoginAssumption`):

- `LoginInvariant`: `Spec => [](ClientsInv /\ ArraysInv)`, two inductive invariants that
  do not depend on each other;
- `NoDanglingHolds`, `IndexConsistentHolds` and `AcceptedHolds`: the three invariants of
  the run.

`NoDanglingClient` is not inductive, since a count that is positive may still be one too
low for two holders. `PlayerInv` bounds the references of a client from below by its
connection and its query together, and ties its state to what it may have: a query runs
only while credentials are checked, so a client that is logged in, and so may be in the
list (`ListInv`), is held by its connection alone. `JobsInv` (one query for each player),
`TableInv` (one row for each user) and `KeysInv` (the keys issued so far) supply what the
callbacks find. `ArraysInv` adds to `IndexConsistent` that no two TCP clients have the
same index: without it the removal of a listing could leave a second client with the
index of the listing that was moved.

`CharacterProofs` proves, for all sets of clients, keys and accounts and any number of
requests (`CharSelectAssumption`; a client is not a key), `CharSelectInvariant`,
`NoDanglingHolds` and `AnsweredOnceHolds`. `CharSelectInv` bounds the references from below by
connection, query and timers (`ClientInv`); an exact count does not hold, since the pair
that was inserted twice leaves a reference behind. An attempt in the array is covered
by its timer (`ZoneInAnsweredOnce`), which is part of the induction. The lemmas about
`IndexSet` say how removing, by swap and pop, changes the number of attempts of each
client; `LeastFound` that the loop which looks for an attempt stops at the first.

Of `Character` it proves, for every number of sessions, bind points, changes and waiting
snapshots, every item file and every creation script (`CharacterAssumption`: the rows of
the scripts have keys, no item and no spell is NULL, and the first spell of a book has a
gem):

- `CharacterInductive`: `CharacterSpec => []CharacterInv`;
- `InventoryKeptHolds`, `SpellsKeptHolds`, `ReloadedHolds` and `ShownInPlaceHolds`: the four
  invariants of the run about the character's data.

`InventoryKept` speaks of the committed rows, but what will be committed next waits in a
snapshot, was copied from a client, and was loaded by a SELECT that may have begun before
the last commit. `CharacterInv` ties all of these to one record, `World` (the items with a
prototype, the committed spells, whether a SELECT was torn):

- `DiskOk`: the committed tables are tables (`IsTable`) and agree with the creation;
- `TxOk`: the tables before the one the transaction is at have the rows of its snapshot, the
  ones after it are as committed, and the one it is at has some of its rows, never all;
- `SnapshotOk`: every waiting snapshot has exactly the items of the world;
- `QueryOk`: a SELECT that has begun will find them. For the inventory its rows were read at
  once, between two transactions; this is where `ReadAtOnce` is needed. For the spells it is
  only known what the table was (`was`), so the claim ends when a callback finds other rows;
- `WorkOk`: each table of a session is waiting, being read or loaded, and only one of them,
  and the skills are asked for after the statistics, so that `skills_init` cannot
  overwrite a row;
- `LoadedOk`: each loaded part of a client is one that a load gives, which is what makes
  saving and loading inverse to each other.

A commit changes the world only if a SELECT was torn (`SameWorld`, `CommitStep`). Loading is
a recursive function over the ordered rows: `OrderedFacts` shows by counting the rows
before a row that every row has its place, `LoadRowsEquation` that the recursion has a
solution, and `InventoryLoaded` and `SkillsLoaded` follow it by a least counterexample.
`SavedBinds`, `SavedMemmed`, `SavedBook`, `InventoryLoaded` and `SkillsReloaded` are the five
ways in which what was saved is loaded again.

`ZoneProofs` proves, for all sets of characters and zones, any finite set of tables and
any number of clients, connections and NPCs (`ZoneAssumption`; the null pointer is none
of them), the three invariants of the run:

- `Lists`: `Spec => []ListsAgree`, from the inductive invariant `ListsInv`;
- `Refs` and `Broadcasts`: `Spec => []RefsExact` and `Spec => []BroadcastHasHandler`, from
  the invariant `RefsInv`, which is inductive on top of `ListsInv`.

Like the properties, both invariants say nothing once a use of freed memory or of a null
pointer has been reached (`zc.fault`). `Sound` adds to `ListsAgree` what each list
operation relies on:

- `Sockets`: a player that is here has its entry in the socket, one that is away has
  none, so that a closing packet finds its own connection by index;
- `Known`: a client that was announced is in a zone that runs, the others in no zone, and
  the table of expected clients has each under its own name;
- `MobLists`: the entity id of a mob lies within the array (the property only says what is
  found there), no mob is in two zones, and an NPC that has not been spawned is in none,
  so that a spawn cannot list a mob twice;
- `ClientLists`: no client is in `connectedClients` twice, or `zc_remove_connected_client`,
  which stops at the first entry, would leave the second one behind.

The functions of the code are operators on the memory, so each has two lemmas: one says
what it changes, one that it keeps a sound memory sound; `ListsInvNext` goes through the
actions. `ReplacedSound` is the case a test would hardly reach, a character that enters
again while its earlier client is still listed, linkdead or not.

`RefsExact` counts connections and entries; `Exact` says the same with at most one of
each, and adds what makes the count survive a step:

- `Loading`: a query is for what has not been loaded, so that a listed client, which has
  everything, has no query and no second holder;
- `Expecting`: an expected client has its timer and nothing else but queries: no
  connection and no linger timer, and no other pending timer is of its name. That is
  what the callback of the timer goes by when it looks up the name;
- `Owning`: a connection and its client name each other, a linkdead client has no
  connection, and a replaced client, whose connection is told to ignore it, has no
  holder left. Without it a late `on_disconnect` could drop the reference of another
  holder;
- `HandlerRefs`: the socket and the stub or client keep a handler, two of them while it is
  open;
- `Listings`: a listed client lingers and is marked linkdead in its zone, or is served by
  the connection it names. This is `BroadcastHasHandler` from the client's side.

Most functions drop a reference after they have removed its holder. `Core(s, pl, o)` and
`Listings(s, o)` are therefore stated with the one client `o` that is about to drop one,
and the lemmas lead from `None` to `o` and, by `CoreDrop`, back.

`TrilogyProofs` proves, for every stream that `StreamAssumption` admits, every half window
(`WindowAssumption`), all lengths of packets and every first number (`SendAssumption`):

- `ReceiveInductive`: `RecvSpec => []RecvInv`; `InOrderOnceHolds` and `AckedIsKeptHolds`: the
  two invariants of the run `trilogy_receive`;
- `SendInductive`: `SendSpec => []SendInv`; `ReleasedHolds` and `FailsHolds`: the two
  invariants of the run `trilogy_send`;
- `FragmentsFit`: the fragments of a packet have room for its bytes exactly when its length
  modulo 512 is neither 0 nor 511.

`InOrderOnce` looks at what was passed on and `AckedIsKept` at what was acknowledged; what
comes next depends on the slots. `Receiving` puts the three together: the expected number
is the start of a message (`Boundary`), everything before it has been passed on, in order
(`InOrderFrom`), the slots are for the numbers from it on (`AlignedTo`), the message that
starts at it is not whole (`Incomplete`: a whole one would have been passed on by the
packet that completed it), and every acknowledged number is before it or in its slot.
`PendingFacts` and `SumFacts` say what the loops over the slots count: a group that has
all its packets is completed, and completed groups are passed on one after the other
(`MessagesFacts`) until one lacks a packet (`RestFacts`). The sums and counts are
recursive functions over the slots; each is characterised by an equation for one step
and a least counterexample (`Least`) in place of an induction.

`ReleasedIsReceived` needs that the datagrams are what was scheduled: `QueueInv` (the queue
is the end of what was scheduled, in order), `NumbersInv` (every number below the next has
been given once), `DatagramsInv` (every datagram is a fragment, as it was cut), `AcksInv`
(whatever is acknowledged or released has arrived). `CrashInv` says that the cursor throws
only while a packet that was acknowledged in its middle is at the head of the queue.

Only model-checked: liveness (fairness is out of the prover's reach), the order of
shutdown, and `ItemsFound` of `ItemStore`: the hash table of the item file is filled by
folds over a scan, and what a fold leaves for every scan needs an induction over data. It is
checked for all hashes and all scans of the instance; the proofs about `Character` take the
items that are found as any set (`cre.known`).

## Where comments and code disagree

The properties are stated up to these, each of which is a reachable step of a model
and is named in the property it limits.

- `ipc_buffer.c:64` takes a cleared flag to mean that another thread has advanced or
  that the end was reached. A writer that sleeps for a lap between loading the index
  and clearing the flag clears the flag of a newer packet (`lapped`).
- `timer.h:43` promises that forcing a stopped timer starts it.
  `timer_pool_swap_and_pop` gives a stopped timer whose dead entry it moves an index
  again, and forcing it then changes an entry that is not its own (`stale`).
- `ack_mgr_trilogy.c:121` takes a taken slot to hold a repetition. The fast path
  advances the expected number and leaves the slots as they are (`skewed`).
- `packet_trilogy.c:76` says that the two bytes which the opcode takes from the first
  fragment go towards the final one. The number of fragments is computed without them
  (line 18): when the length modulo 512 is 0 or 511 there is no room for the last one or
  two bytes, and `packet_trilogy_fragmentize` moves only them, so that the last fragment is
  read from the wrong place too. `ReleasedIsReceived` names these lengths and counts bytes only;
  `FragmentsFit` shows that there are no others.
- `client_manager.h:27` says that the IPC thread owns the lock whenever it does
  anything; `client_mgr_deinit` runs without it.
- `zone_cluster.c:193` says that the timer of an expected client is safe; the client
  may be freed, or another one expected under its name (`zc.fault`).
- `inventory.h` says that saving in one transaction keeps an inventory consistent. It
  does (`InventoryKept`), but the spellbook and the gems, saved in the same way, are
  read row by row while another session saves (`torn`).
- `login_client_trilogy.c:171` explains two cases in which a player is shown a
  server's local address; the test that follows takes `string_compare_cstr`, which is
  0 for equal strings, for equality. The shown address is not modelled.

## Not modelled

- Standard protocol: unfinished in the code, nothing reaches its state.
- Console program: parses arguments, sends one message, prints the answers.
- TCP framing of login and char select (partial headers): whole packets only.
- Movement, chat and appearance packets, stat fields, packet layouts: data that no
  property tells apart.
- Map tools, line of sight: floating-point geometry.
- Static tables (`zone_id.c`), mmap and the Windows branches.
- Sequence numbers, counters and CRCs of datagrams; packets without an ack request on
  the receiving side.

## Plan

Done: `IpcBuffer`, `Master`, `TimerPool`, `DbThread`, `LogWriter`, `Login`, `CharSelect`,
`Zone`, `TrilogyReceive`, `TrilogySend`, `HashTable` and `Character` with proofs, `ItemStore`.

Left:

1. The hand-over of a client from login through char select and master to the zone
   cluster as one composition, with the three processes' own models as its parts.
2. TCP framing; a receiver of a stream whose numbers wrap.
