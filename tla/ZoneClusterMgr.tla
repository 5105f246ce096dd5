-------------------------- MODULE ZoneClusterMgr --------------------------
(***************************************************************************)
(* The master's assignment of zones to zone-cluster processes              *)
(* (src/master/zone_cluster_manager.c and zone_cluster.c).  A zone is      *)
(* named by its source id.  The configuration script starts clusters and   *)
(* reserves zones on them; a client that zones in then gets the cluster    *)
(* its zone runs on, and the zone is started first where it is needed.     *)
(***************************************************************************)
EXTENDS Integers, Sequences, FiniteSets

CONSTANTS
    Zones,          \* the source ids of the zones
    MaxZones,       \* the values of maxZones the configuration may choose
    DefaultMax,     \* maxZonesPerCluster
    MaxClusters     \* bound: how many zone clusters the configuration starts

ASSUME ZoneAssumption ==
    /\ MaxZones \subseteq Nat \ {0}
    /\ DefaultMax \in MaxZones
    /\ MaxClusters \in Nat

VARIABLES
    activeZoneClusters,         \* records [maxZones, reservedZones, zoneCount, up]
    zoneClustersBySourceId,     \* records [zone, zc]: where each zone runs
    zoneReservations,           \* records [zone, zc]
    inbox                       \* history: what was sent to each cluster

zcVars == <<activeZoneClusters, zoneClustersBySourceId, zoneReservations, inbox>>

ZcInit ==
    /\ activeZoneClusters = <<>>
    /\ zoneClustersBySourceId = <<>>
    /\ zoneReservations = <<>>
    /\ inbox = <<>>

-----------------------------------------------------------------------------

\* zone_cluster_create, master_start_zone_cluster.  When the process or its
\* ring cannot be created the exception is swallowed and the cluster is kept.
NewCluster(max, up) == [maxZones |-> max, reservedZones |-> 0, zoneCount |-> 0, up |-> up]

\* proc_ipc_send: nothing is sent to a process that has no ring.
Sent(boxes, k, msg) ==
    IF activeZoneClusters[k].up THEN [boxes EXCEPT ![k] = Append(@, msg)] ELSE boxes

\* zc_mgr_start_zone_on_cluster
StartZoneOnCluster(z, k) ==
    /\ activeZoneClusters' = [activeZoneClusters EXCEPT ![k].zoneCount = @ + 1]
    /\ inbox' = Sent(inbox, k, [op |-> "StartZone", arg |-> z])
    /\ zoneClustersBySourceId' = Append(zoneClustersBySourceId, [zone |-> z, zc |-> k])

-----------------------------------------------------------------------------
(* The configuration script (zone_cluster_config_loader.lua) *)

\* zc_mgr_start_zone_cluster, then zone_cluster_set_max_zones
ConfigureCluster(max, up) ==
    /\ Len(activeZoneClusters) < MaxClusters
    /\ activeZoneClusters' = Append(activeZoneClusters, NewCluster(max, up))
    /\ inbox' = Append(inbox, <<>>)
    /\ UNCHANGED <<zoneClustersBySourceId, zoneReservations>>

Reserved(z) == {r \in DOMAIN zoneReservations : zoneReservations[r].zone = z}

\* zc_mgr_add_zone_reservation, for the cluster configured last.  A zone is
\* taken to be listed once in the configuration.
ReserveZone(z, alwaysUp) ==
    LET k == Len(activeZoneClusters) IN
    /\ k > 0
    /\ Reserved(z) = {}
    /\ zoneReservations' = Append(zoneReservations, [zone |-> z, zc |-> k])
    /\ IF alwaysUp
         THEN /\ activeZoneClusters' = [activeZoneClusters EXCEPT ![k].reservedZones = @ + 1,
                                                                  ![k].zoneCount = @ + 1]
              /\ inbox' = Sent(inbox, k, [op |-> "StartZone", arg |-> z])
              /\ zoneClustersBySourceId' = Append(zoneClustersBySourceId, [zone |-> z, zc |-> k])
         ELSE /\ activeZoneClusters' = [activeZoneClusters EXCEPT ![k].reservedZones = @ + 1]
              /\ UNCHANGED <<inbox, zoneClustersBySourceId>>

-----------------------------------------------------------------------------
(* zc_mgr_get_or_start: the four places it looks for a cluster, in order *)

Running(z) == {r \in DOMAIN zoneClustersBySourceId : zoneClustersBySourceId[r].zone = z}

\* Mutant: a cluster that is full takes one zone more.
HasFreeSpace_OffByOne(zc) == zc.zoneCount <= zc.maxZones

\* zone_cluster_has_free_space
HasFreeSpace(zc) == zc.zoneCount < zc.maxZones - zc.reservedZones

FreeClusters == {k \in DOMAIN activeZoneClusters : HasFreeSpace(activeZoneClusters[k])}

IsFirst(k, S) == k \in S /\ \A j \in S : k <= j

AlreadyRunning(z, k) ==
    /\ \E r \in Running(z) : IsFirst(r, Running(z)) /\ k = zoneClustersBySourceId[r].zc
    /\ UNCHANGED zcVars

\* Mutant: a reserved zone is started although it is running.
FromReserved_Again(z, k) ==
    /\ \E r \in Reserved(z) : IsFirst(r, Reserved(z)) /\ k = zoneReservations[r].zc
    /\ StartZoneOnCluster(z, k)
    /\ UNCHANGED zoneReservations

\* zc_mgr_start_zone_from_reserved_list
FromReserved(z, k) ==
    /\ Running(z) = {}
    /\ \E r \in Reserved(z) : IsFirst(r, Reserved(z)) /\ k = zoneReservations[r].zc
    /\ StartZoneOnCluster(z, k)
    /\ UNCHANGED zoneReservations

\* zc_mgr_start_zone_from_free_space
FromFreeSpace(z, k) ==
    /\ Running(z) = {} /\ Reserved(z) = {}
    /\ IsFirst(k, FreeClusters)
    /\ StartZoneOnCluster(z, k)
    /\ UNCHANGED zoneReservations

\* zc_mgr_start_zone_cluster, then the zone on it
OnNewCluster(z, k, up) ==
    /\ Running(z) = {} /\ Reserved(z) = {} /\ FreeClusters = {}
    /\ k = Len(activeZoneClusters) + 1
    /\ activeZoneClusters' = Append(activeZoneClusters, [NewCluster(DefaultMax, up) EXCEPT !.zoneCount = 1])
    /\ inbox' = Append(inbox, IF up THEN <<[op |-> "StartZone", arg |-> z]>> ELSE <<>>)
    /\ zoneClustersBySourceId' = Append(zoneClustersBySourceId, [zone |-> z, zc |-> k])
    /\ UNCHANGED zoneReservations

GetOrStart(z, k) ==
    \/ AlreadyRunning(z, k)
    \/ FromReserved(z, k)
    \/ FromFreeSpace(z, k)
    \/ \E up \in BOOLEAN : OnNewCluster(z, k, up)

-----------------------------------------------------------------------------

Configure ==
    \/ \E max \in MaxZones, up \in BOOLEAN : ConfigureCluster(max, up)
    \/ \E z \in Zones, alwaysUp \in BOOLEAN : ReserveZone(z, alwaysUp)

-----------------------------------------------------------------------------
(* Properties *)

\* A zone runs in one place: however the configuration and the clients
\* interleave, zc_mgr_get_or_start never starts a second copy of it.
ZoneRunsOnce ==
    \A r, s \in DOMAIN zoneClustersBySourceId :
        zoneClustersBySourceId[r].zone = zoneClustersBySourceId[s].zone => r = s

Max2(a, b) == IF a >= b THEN a ELSE b

\* A cluster never runs more than maxZones zones, unless more than that are
\* reserved on it: the free-space rule leaves room for every reserved zone
\* that may still be started.
WithinCapacity ==
    \A k \in DOMAIN activeZoneClusters :
        activeZoneClusters[k].zoneCount
            <= Max2(activeZoneClusters[k].maxZones, activeZoneClusters[k].reservedZones)
=============================================================================
