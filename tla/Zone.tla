-------------------------------- MODULE Zone ---------------------------------
(***************************************************************************)
(* The zone-cluster process (src/zone_cluster) over the UDP socket of      *)
(* src/non_master/net: the zones it runs, the clients the master announces,*)
(* their loading from the database, the connections they are matched with, *)
(* their place in the lists of cluster and zone, linkdeath and removal.    *)
(* One thread runs the main loop: every packet, timer, query callback and  *)
(* IPC packet is handled in one step, the sweep of the socket in one step  *)
(* per entry.  The process's memory is the record zc, and the functions of *)
(* the code are operators from a memory to the memory they leave.          *)
(*                                                                         *)
(* A use of freed memory or of a null pointer sets zc.fault, and nothing   *)
(* happens after it.  A player sends ZoneEntry once, for a character that  *)
(* has been announced, and EnterZone once, when its profile has come.      *)
(***************************************************************************)
EXTENDS Integers, Sequences, FiniteSets

CONSTANTS
    Names,          \* characters
    Zones,
    MaxConns,       \* bound: UDP connections, an address from first packet to last
    Tables,         \* what is loaded besides stats and skills, one query each:
                    \* inventory, spellbook, memmedSpells, bindPoints
    MaxClients,     \* bound: clients announced
    MaxNpcs,        \* bound: NPCs spawned
    None

ASSUME ZoneAssumption ==
    /\ MaxClients \in Nat /\ MaxNpcs \in Nat /\ MaxConns \in Nat
    /\ None \notin Names \cup Zones \cup Nat
    /\ IsFiniteSet(Tables) /\ {"stats", "skills", "connection"} \cap Tables = {}

Clients == 1..MaxClients
Conns == 1..MaxConns                    \* numbered as they come
Mobs == 1..(MaxClients + MaxNpcs)       \* the clients, then the NPCs
AllLoaded == Tables \cup {"stats", "skills", "connection"}   \* loaded.total = 0xff

VARIABLES
    zc,             \* the memory: see Init
    player,         \* what the player of each connection does: "away", "here" or
                    \* "gone" (no packet for EQP_UDP_SOCKET_LINKDEAD_TIMEOUT)
    sweep           \* the entry udp_socket_check_timeouts is at, or 0

vars == <<zc, player, sweep>>

Unborn == [name |-> None, zone |-> None, refs |-> 0, handler |-> None,
           loaded |-> {}, linkdead |-> FALSE, index |-> 1]

\* zone_create
NewZone == [ents |-> <<>>, mobs |-> <<>>, list |-> <<>>]

\* protocol_handler_check_first_packet and protocol_handler_trilogy_init, for a
\* client of the trilogy protocol; obj = None stands for the stub
FirstPacket(i) == [refs |-> 2, index |-> i, obj |-> None, dead |-> FALSE, ignore |-> FALSE]

Init ==
    /\ zc = [client  |-> [k \in Clients |-> Unborn],
             mob     |-> [m \in Mobs |-> [entity |-> 0, index |-> 0]],
             npcs    |-> 0,                 \* how many were spawned
             zoneList |-> {},               \* the zones that run
             zone    |-> [z \in Zones |-> None],
             expected |-> [n \in Names |-> None],   \* expectedClientsByName
             byName  |-> [n \in Names |-> None],    \* connectedClientsByName
             connected |-> <<>>,            \* connectedClients: [client, handler]
             expectTimers |-> {},           \* clients whose expected timer is pending
             lingers |-> {},                \* clients whose linkdead timer is pending
             queries |-> {},                \* <<client, what is loaded>>
             udp     |-> <<>>,              \* UdpSocket.clients, by connection
             handler |-> [c \in Conns |->   \* UdpClient and ProtocolHandler
                            [FirstPacket(0) EXCEPT !.refs = 0]],
             freedStubs |-> {},             \* connections whose stub was freed
             fault   |-> "none"]
    /\ player = [c \in Conns |-> "away"]
    /\ sweep = 0

\* array_swap_and_pop
SwapAndPop(s, i) == SubSeq([s EXCEPT ![i] = s[Len(s)]], 1, Len(s) - 1)

Least(S) == CHOOSE i \in S : \A j \in S : i <= j

Freed(s, k) == s.client[k].name # None /\ s.client[k].refs = 0
Fault(s, why) == [s EXCEPT !.fault = why]

-----------------------------------------------------------------------------
(* References, mobs and zones *)

\* protocol_handler_drop
HandlerDrop(s, c) == [s EXCEPT !.handler[c].refs = @ - 1]

\* client_drop
Drop(s, k) ==
    LET t == [s EXCEPT !.client[k].refs = @ - 1] IN
    IF s.client[k].refs > 1 \/ s.client[k].handler = None
      THEN t
      ELSE HandlerDrop(t, s.client[k].handler)

\* Where zone_spawn_mob puts a mob: the first gap, or a new place.
EntityPlace(ents) ==
    LET gaps == {i \in DOMAIN ents : ents[i] = None} IN
    IF gaps = {} THEN Len(ents) + 1 ELSE Least(gaps)

\* zone_spawn_mob
SpawnMob(s, z, m) ==
    LET ents == s.zone[z].ents
        i == EntityPlace(ents)
        n == Len(s.zone[z].mobs) + 1
    IN  [s EXCEPT !.zone[z].ents = [j \in (DOMAIN ents) \cup {i} |->
                                        IF j = i THEN m ELSE ents[j]],
                  !.zone[z].mobs = Append(@, m),
                  !.mob[m] = [entity |-> i, index |-> n]]

\* zone_spawn_client
SpawnClient(s, z, k) ==
    LET t == SpawnMob(s, z, k) IN
    [t EXCEPT !.zone[z].list = Append(@, [client |-> k, linkdead |-> FALSE]),
              !.client[k].index = Len(t.zone[z].list) + 1]

\* zone_broadcast_packet, through the handlers of the clients not marked linkdead
Broadcast(s, z) ==
    IF \E i \in DOMAIN s.zone[z].list : /\ ~s.zone[z].list[i].linkdead
                                        /\ s.client[s.zone[z].list[i].client].handler = None
      THEN Fault(s, "broadcast")
      ELSE s

\* Mutant: the mob moved into the gap keeps its old index.
MobMoved_Stale(s, z, i) == s.mob

\* The mobs after another one was moved to place i of mobsByPosition, if one was
MobMoved(s, z, i) ==
    IF i <= Len(s.zone[z].mobs)
      THEN [s.mob EXCEPT ![s.zone[z].mobs[i]].index = i]
      ELSE s.mob

\* zone_remove_client
RemoveClient(s, k) ==
    LET z == s.client[k].zone
        ci == s.client[k].index
        mi == s.mob[k].index
        t == [s EXCEPT !.zone[z].list = SwapAndPop(@, ci),
                       !.zone[z].mobs = SwapAndPop(@, mi),
                       !.zone[z].ents[s.mob[k].entity] = None]
    IN  [t EXCEPT !.client = IF ci <= Len(t.zone[z].list)
                               THEN [@ EXCEPT ![t.zone[z].list[ci].client].index = ci]
                               ELSE @,
                  !.mob = MobMoved(t, z, mi)]

\* Mutant: the listing of a linkdead client is left as it is.
MarkLinkdead_Not(s, k) == s

\* zone_mark_client_as_linkdead: by index, which is the first for a client not listed
MarkLinkdead(s, k) ==
    LET z == s.client[k].zone
        i == s.client[k].index
    IN  IF i \in DOMAIN s.zone[z].list
          THEN [s EXCEPT !.zone[z].list[i].linkdead = TRUE]
          ELSE s

PlaceOf(s, k) == {i \in DOMAIN s.connected : s.connected[i].client = k}

\* client_grab of zc_remove_connected_client
LingerRef(r) == r + 1

\* zc_remove_connected_client with isLinkdead
GoLinkdead(s, k) ==
    LET t == MarkLinkdead(HandlerDrop(s, s.client[k].handler), k) IN
    [t EXCEPT !.client[k].refs = LingerRef(@), !.client[k].handler = None,
              !.client[k].linkdead = TRUE,
              !.connected = [i \in DOMAIN @ |-> IF @[i].client = k
                                                  THEN [@[i] EXCEPT !.handler = None]
                                                  ELSE @[i]],
              !.lingers = @ \cup {k}]

\* hash_table_remove_by_str(connectedClientsByName, name)
Unnamed(s, k) == [s.byName EXCEPT ![s.client[k].name] = None]

\* zc_remove_connected_client without isLinkdead
RemoveConnected(s, k) ==
    IF PlaceOf(s, k) = {}
      THEN s
      ELSE [RemoveClient(s, k) EXCEPT
              !.byName = Unnamed(s, k),
              !.connected = SwapAndPop(@, Least(PlaceOf(s, k)))]

-----------------------------------------------------------------------------
(* Clients announced and loaded: zone_cluster.c, client.c *)

\* zc_start_zone; the checks of the source id are left out
StartZone(z) ==
    /\ z \notin zc.zoneList
    /\ zc' = [zc EXCEPT !.zoneList = @ \cup {z}, !.zone[z] = NewZone]

\* client_create: one query for the stats and one for each table, a reference each
Created(n, z) ==
    [Unborn EXCEPT !.name = n, !.zone = z, !.refs = 2 + Cardinality(Tables)]

\* zc_client_expected_to_zone_in.  A character is announced again only when the
\* expected timer of the last announcement has run.
ExpectedToZoneIn(n, z) ==
    LET unborn == {k \in Clients : zc.client[k].name = None}
        k == Least(unborn)
    IN  /\ unborn # {}
        /\ \A j \in zc.expectTimers : zc.client[j].name # n
        /\ zc' = IF z \notin zc.zoneList
                   THEN zc
                   ELSE [zc EXCEPT !.client[k] = Created(n, z),
                                   !.expectTimers = @ \cup {k},
                                   !.expected[n] = k,
                                   !.queries = @ \cup ({k} \X (Tables \cup {"stats"}))]

\* zc_expected_client_timeout_callback: the client is the timer's, the entry the name's
ExpectedTimeout(k) ==
    LET n == zc.client[k].name
        s == [zc EXCEPT !.expectTimers = @ \ {k}]
    IN  /\ k \in zc.expectTimers
        /\ zc' = IF Freed(zc, k) THEN Fault(zc, "expected timer")
                 ELSE IF zc.expected[n] = None THEN s
                 ELSE Drop([s EXCEPT !.expected[n] = None], k)

\* client_check_loading_finished: the profile, the zone entry and the weather are
\* sent through the handler
CheckLoadingFinished(s, k) ==
    IF s.client[k].loaded = AllLoaded /\ s.client[k].handler = None
      THEN Fault(s, "no handler")
      ELSE s

\* Mutant: the query for the skills does not carry the reference on.
SkillsRef_Dropped(s, k) == Drop(s, k)

\* What client_load_stats_callback does with its reference: the query for the
\* skills carries it on.
SkillsRef(s, k) == s

\* client_load_stats_callback
LoadStats(k) ==
    /\ <<k, "stats">> \in zc.queries
    /\ zc' = SkillsRef([zc EXCEPT
                  !.queries = (@ \ {<<k, "stats">>}) \cup {<<k, "skills">>},
                  !.client[k].loaded = @ \cup {"stats"}], k)

\* client_load_skills_callback and the callbacks of the other tables
LoadTable(k, t) ==
    LET s == [zc EXCEPT !.queries = @ \ {<<k, t>>},
                        !.client[k].loaded = @ \cup {t}]
    IN  /\ <<k, t>> \in zc.queries /\ t # "stats"
        /\ zc' = Drop(IF "connection" \in zc.client[k].loaded
                        THEN CheckLoadingFinished(s, k)
                        ELSE s, k)

-----------------------------------------------------------------------------
(* Connections: udp_socket.c, protocol_handler.c, client_packet_trilogy_input.c *)

Up(c) == player[c] = "here" /\ ~zc.handler[c].dead /\ ~zc.handler[c].ignore

\* udp_socket_recv of a new address
Connect(c) ==
    /\ player[c] = "away" /\ \A d \in 1..(c - 1) : player[d] # "away"
    /\ player' = [player EXCEPT ![c] = "here"]
    /\ zc' = [zc EXCEPT !.udp = Append(@, c),
                        !.handler[c] = FirstPacket(Len(zc.udp) + 1)]

\* The matched client in zc_client_match_with_expected
Matched(s, k, c) ==
    [s.client[k] EXCEPT !.handler = c, !.loaded = @ \cup {"connection"}]

\* zc_client_match_with_expected.  The stub is freed; without a match the
\* handler goes on pointing to it.
ZoneEntry(c, n) ==
    LET k == zc.expected[n]
        s == [zc EXCEPT !.freedStubs = @ \cup {c}]
    IN  /\ Up(c) /\ zc.handler[c].obj = None /\ c \notin zc.freedStubs
        /\ \E j \in Clients : zc.client[j].name = n
        /\ zc' = IF k = None
                   THEN HandlerDrop(s, c)
                   ELSE CheckLoadingFinished(
                          [s EXCEPT !.expected[n] = None, !.handler[c].obj = k,
                                    !.client[k] = Matched(s, k, c)], k)

\* udp_socket_flag_client_to_ignore_all_packets, by the handler's index
Ignored(s, c) == [s EXCEPT !.handler[s.udp[s.handler[c].index]].ignore = TRUE]

\* client_stub_recv_packet_trilogy, EQP_CLIENT_ZONE_IN_NO_AUTH_TIMEOUT after
\* the connection: protocol_handler_send_disconnect
StubTooLate(c) ==
    /\ Up(c) /\ zc.handler[c].obj = None /\ c \notin zc.freedStubs
    /\ zc' = Ignored(zc, c)

\* client_recv_packet_trilogy of a packet that changes nothing: the requests for the
\* zone info and the inventory, which are answered, echoes and unhandled packets
OtherPacket(c) ==
    /\ Up(c) /\ zc.handler[c].obj = None /\ c \in zc.freedStubs
    /\ zc' = Fault(zc, "freed stub")

\* What zc_add_connected_client does with a client of the same name, p
Replaced(s, p) ==
    IF p = None THEN s
    ELSE IF s.client[p].linkdead THEN RemoveConnected(s, p)
    ELSE Drop(Ignored(RemoveConnected(s, p), s.client[p].handler), p)

\* client_trilogy_handle_op_enter_zone and zc_add_connected_client
EnterZone(c) ==
    LET k == zc.handler[c].obj
        n == zc.client[k].name
        s == Replaced(zc, zc.byName[n])
        t == [s EXCEPT !.byName[n] = k,
                       !.connected = Append(@, [client |-> k, handler |-> s.client[k].handler])]
    IN  /\ Up(c) /\ k # None /\ zc.client[k].loaded = AllLoaded
        /\ zc.mob[k].entity = 0
        /\ zc' = Broadcast(SpawnClient(t, s.client[k].zone, k), s.client[k].zone)

\* client_on_disconnect of the object of c; a stub has no zone cluster
OnDisconnect(s, c, linkdead) ==
    LET k == s.handler[c].obj IN
    IF k = None THEN Fault(s, "stub")
    ELSE IF Freed(s, k) THEN Fault(s, "freed client")
    ELSE Drop(IF linkdead THEN GoLinkdead(s, k) ELSE RemoveConnected(s, k), k)

\* protocol_handler_trilogy_recv of a closing packet
Closing(c) ==
    /\ Up(c)
    /\ player' = [player EXCEPT ![c] = "gone"]
    /\ zc' = OnDisconnect(
                [zc EXCEPT !.handler[zc.udp[zc.handler[c].index]].dead = TRUE], c, FALSE)

\* The last packet of a player is EQP_UDP_SOCKET_LINKDEAD_TIMEOUT_MILLISECONDS old.
Vanish(c) ==
    /\ player[c] = "here"
    /\ player' = [player EXCEPT ![c] = "gone"]
    /\ UNCHANGED zc

\* protocol_handler_update_index of the handler moved to place i, if one was
UpdateIndex(s, i) ==
    IF i \in DOMAIN s.udp THEN [s EXCEPT !.handler[s.udp[i]].index = i] ELSE s

\* udp_socket_handle_dead_client
HandleDeadClient(s, i) ==
    UpdateIndex([HandlerDrop(s, s.udp[i]) EXCEPT !.udp = SwapAndPop(@, i)], i)

\* One entry of udp_socket_check_timeouts
CheckTimeouts ==
    LET c == zc.udp[sweep] IN
    /\ sweep \in DOMAIN zc.udp
    /\ \/ /\ zc.handler[c].dead
          /\ zc' = HandleDeadClient(zc, sweep)
          /\ UNCHANGED sweep
       \/ /\ ~zc.handler[c].dead /\ player[c] = "gone"
          /\ zc' = HandleDeadClient(OnDisconnect(zc, c, TRUE), sweep)
          /\ UNCHANGED sweep
       \/ /\ ~zc.handler[c].dead /\ player[c] = "here"
          /\ sweep' = sweep + 1
          /\ UNCHANGED zc

SweepBegins ==
    /\ sweep = 0 /\ \E i \in DOMAIN zc.udp : player[zc.udp[i]] = "gone"
    /\ sweep' = 1 /\ UNCHANGED zc

SweepEnds ==
    /\ sweep > Len(zc.udp)
    /\ sweep' = 0 /\ UNCHANGED zc

\* Mutant: the timer drops the client and leaves it in the lists.
Lingered_Listed(s, k) == s

\* The removal of zc_remove_linkdead_client_callback
Lingered(s, k) == RemoveConnected(s, k)

\* zc_remove_linkdead_client_callback
LingerTimeout(k) ==
    /\ k \in zc.lingers
    /\ zc' = Drop(Lingered([zc EXCEPT !.lingers = @ \ {k}], k), k)

\* zone_spawn_npc, called from the timer that event_spawn of the global client script
\* starts: after a client has entered the zone
SpawnNpc(z) ==
    /\ zc.npcs < MaxNpcs
    /\ \E k \in Clients : zc.client[k].zone = z /\ zc.mob[k].entity # 0
    /\ zc' = Broadcast(SpawnMob([zc EXCEPT !.npcs = @ + 1], z, MaxClients + zc.npcs + 1), z)

-----------------------------------------------------------------------------
(* The main loop, zc_main_loop *)

Ipc == \/ \E z \in Zones : StartZone(z)
       \/ \E n \in Names, z \in Zones : ExpectedToZoneIn(n, z)

Database == \E k \in Clients : LoadStats(k) \/ \E t \in Tables \cup {"skills"} : LoadTable(k, t)

Timer == \E k \in Clients : ExpectedTimeout(k) \/ LingerTimeout(k)

Packet(c) == (\E n \in Names : ZoneEntry(c, n)) \/ StubTooLate(c) \/ OtherPacket(c) \/ EnterZone(c)

Sweep == UNCHANGED player /\ (SweepBegins \/ CheckTimeouts \/ SweepEnds)

Step ==
    \/ (Ipc \/ Database \/ Timer \/ \E z \in Zones : SpawnNpc(z)) /\ UNCHANGED player
    \/ (\E c \in Conns : Packet(c)) /\ UNCHANGED player
    \/ \E c \in Conns : Connect(c) \/ Closing(c) \/ Vanish(c)

Next ==
    /\ zc.fault = "none"
    /\ \/ sweep = 0 /\ Step /\ UNCHANGED sweep
       \/ Sweep

Spec == Init /\ [][Next]_vars

\* The main loop runs for ever.
Running(A) == zc.fault = "none" /\ sweep = 0 /\ A /\ UNCHANGED <<player, sweep>>
FairSpec ==
    /\ Spec
    /\ WF_vars(zc.fault = "none" /\ Sweep)
    /\ \A k \in Clients : WF_vars(Running(LingerTimeout(k)))

-----------------------------------------------------------------------------
(* Properties *)

Listed(k) == PlaceOf(zc, k) # {}

\* The connections that still own the client they were matched with
Serving(k) == {c \in Conns : /\ \E i \in DOMAIN zc.udp : zc.udp[i] = c
                             /\ zc.handler[c].obj = k
                             /\ ~zc.handler[c].dead /\ ~zc.handler[c].ignore}

\* The references of a client are exactly its holders: its queries, the linger
\* timer, and the table of expected clients or the connection it was matched with.  A
\* reference too few frees it under one of them, one too many leaks it.  So whatever
\* order announcements, query results, timers, reconnections and linkdeaths come in,
\* a client that is listed is allocated, and no client and no listing names a
\* handler that is freed.
RefsExact ==
    zc.fault = "none" =>
      /\ \A k \in Clients : zc.client[k].name # None =>
           /\ zc.client[k].refs = Cardinality({q \in zc.queries : q[1] = k})
                                    + Cardinality({n \in Names : zc.expected[n] = k})
                                    + Cardinality(Serving(k))
                                    + (IF k \in zc.lingers THEN 1 ELSE 0)
           /\ Listed(k) => ~Freed(zc, k)
           /\ zc.client[k].refs > 0 /\ zc.client[k].handler # None
                => zc.handler[zc.client[k].handler].refs > 0
      /\ \A i \in DOMAIN zc.connected : zc.connected[i].handler # None
           => zc.handler[zc.connected[i].handler].refs > 0

\* The lists agree after any order of spawns and swap-and-pop removals: an entity id,
\* a zone index and a socket index find their own mob, client and connection, and the
\* clients listed by the cluster are those of the table of names and of the zone lists,
\* one for a character.
ListsAgree ==
    zc.fault = "none" =>
      /\ \A c \in Conns, i \in DOMAIN zc.udp :
           zc.udp[i] = c => zc.handler[c].index = i
      /\ \A z \in zc.zoneList :
           /\ \A i \in DOMAIN zc.zone[z].mobs :
                LET m == zc.zone[z].mobs[i] IN
                zc.mob[m].index = i /\ zc.zone[z].ents[zc.mob[m].entity] = m
           /\ \A i \in DOMAIN zc.zone[z].list :
                LET k == zc.zone[z].list[i].client IN
                zc.client[k].index = i /\ Listed(k) /\ zc.client[k].zone = z
           /\ Cardinality({i \in DOMAIN zc.zone[z].ents : zc.zone[z].ents[i] # None})
                = Len(zc.zone[z].mobs)
      /\ \A i \in DOMAIN zc.connected :
           LET k == zc.connected[i].client IN
           /\ zc.byName[zc.client[k].name] = k
           /\ zc.zone[zc.client[k].zone].list[zc.client[k].index].client = k
      /\ \A n \in Names : zc.byName[n] # None => Listed(zc.byName[n])

\* zone_broadcast_packet sends to every listing not marked linkdead through the
\* client's handler: such a client has one, and it is of a connection that still exists.
BroadcastHasHandler ==
    zc.fault = "none" =>
      \A z \in zc.zoneList : \A i \in DOMAIN zc.zone[z].list :
        ~zc.zone[z].list[i].linkdead =>
          \E c \in Conns : /\ zc.client[zc.zone[z].list[i].client].handler = c
                           /\ c \in Serving(zc.zone[z].list[i].client)

\* A character whose player has vanished leaves the lists in the end: the
\* sweep of the socket makes it linkdead, the linger timer removes it.
VanishedLeaves ==
    \A c \in Conns : \A k \in Clients :
      (player[c] = "gone" /\ zc.handler[c].obj = k /\ Listed(k))
        ~> (zc.fault # "none" \/ ~Listed(k))
=============================================================================
