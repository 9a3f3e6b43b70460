-------------------------- MODULE StorageReservation --------------------------
(***************************************************************************)
(* Reservations of whole disks and the bounded regions opened on them      *)
(* (filesystem/src/storage_reservation.rs, storage_region.rs,              *)
(* storage_inventory.rs).  A client reads the inventory, reserves a disk   *)
(* it saw there, and may open a region of it for raw transfers; the        *)
(* service must never hand out a disk it has mounted, nor the same disk    *)
(* twice, while disks are unplugged, swapped and repartitioned at any time *)
(* and the storage driver may fail a call whose effect is unknown.         *)
(*                                                                         *)
(* A disk is named by its GUID; its geometry and partitions are one layout *)
(* number; the driver pins a plugged disk by its slot and the epoch of the *)
(* plug event (STORAGE_QUERY_DEVICE_IDENTITY).                             *)
(***************************************************************************)
EXTENDS Naturals, FiniteSets, Functions

CONSTANTS Slot,        \* driver device numbers; slot 0 holds the mounted disk
          Guid,        \* disks
          Mounted,     \* the GUID of the disk the volumes are on
          MaxLayout,   \* bound on repartitionings of a disk
          MaxEpoch,    \* bound on plug events
          MaxGen,      \* bound on inventory generations
          MaxObject    \* bound on provider objects handed out

ASSUME StorageAssumption ==
  0 \in Slot /\ 0 \notin Guid \cup {Mounted} /\ MaxLayout \in Nat /\ MaxEpoch \in Nat

VARIABLES world,        \* slot -> [guid, layout, epoch], or Empty
          epoch,        \* plug events so far
          inventory,    \* [generation, disks, warning]: the last observation
          reservations, \* object -> [disk, observed, revoked]
          regions,      \* object -> [slot, epoch, failed]: Region
          driver,       \* regions the driver has open: set of [slot, epoch, object]
          references,   \* objects with a native reference outside the service
          releasing,    \* objects whose last reference is gone
          next          \* next_open_id

storageVars == <<world, epoch, inventory, reservations, regions, driver, references,
                 releasing, next>>

Empty == [guid |-> 0, layout |-> 0, epoch |-> 0]

StorageInit ==
    /\ world = [s \in Slot |-> IF s = 0 THEN [guid |-> Mounted, layout |-> 0, epoch |-> 1]
                               ELSE Empty]
    /\ epoch = 1
    /\ inventory = [generation |-> 0, disks |-> <<>>, warning |-> TRUE]
    /\ reservations = <<>> /\ regions = <<>> /\ driver = {}
    /\ references = {} /\ releasing = {} /\ next = 1

----------------------------------------------------------------------------
\* The machine: a disk is plugged, pulled, or repartitioned.  The mounted
\* disk stays where it is.

Plug == \E s \in Slot \ {0}, g \in Guid, l \in 0..MaxLayout :
          /\ world[s] = Empty /\ epoch < MaxEpoch
          /\ \A t \in Slot : world[t].guid # g
          /\ epoch' = epoch + 1
          /\ world' = [world EXCEPT ![s] = [guid |-> g, layout |-> l, epoch |-> epoch']]
          /\ UNCHANGED <<inventory, reservations, regions, driver, references,
                         releasing, next>>

\* The driver forgets the regions of a disk that was pulled.
Pull == \E s \in Slot \ {0} :
          /\ world[s] # Empty
          /\ world' = [world EXCEPT ![s] = Empty]
          /\ driver' = {d \in driver : d.slot # s}
          /\ UNCHANGED <<epoch, inventory, reservations, regions, references,
                         releasing, next>>

Repartition == \E s \in Slot \ {0} :
          /\ world[s] # Empty /\ world[s].layout < MaxLayout
          /\ world' = [world EXCEPT ![s].layout = @ + 1]
          /\ UNCHANGED <<epoch, inventory, reservations, regions, driver,
                         references, releasing, next>>

----------------------------------------------------------------------------
\* Inventory.

\* physical: what inspecting every listed device observes.
Physical == [g \in {world[s].guid : s \in Slot} \ {0} |->
               LET s == CHOOSE t \in Slot : world[t].guid = g
               IN  [device |-> s, guid |-> g, layout |-> world[s].layout]]

\* refresh_storage_inventory: an inspection the driver fails leaves a warning,
\* which no reservation survives.
Refreshed(warned) == [generation |-> inventory.generation + 1,
                      disks |-> Physical, warning |-> warned]

\* storage_inventory_request with generation 0, the cache older than 2 s.
Refresh == \E warned \in BOOLEAN :
    /\ inventory.generation < MaxGen
    /\ inventory' = Refreshed(warned)
    /\ UNCHANGED <<world, epoch, reservations, regions, driver, references,
                   releasing, next>>

\* reservable_disk: every mounted volume must be placed, on another disk.
Reservable(inv, disk) ==
    /\ ~inv.warning
    /\ disk \in DOMAIN inv.disks
    /\ Mounted \in DOMAIN inv.disks
    /\ disk # Mounted

\* Reservations::acquire: one reservation per disk, device and GUID, revoked
\* reservations included.
Free(disk, observed) ==
    \A o \in DOMAIN reservations :
       LET r == reservations[o] IN
       r.disk # disk /\ r.observed.device # observed.device
                     /\ r.observed.guid # observed.guid

\* reserve_storage and acquire_storage_region up to retain_storage_reservation:
\* the client's generation must be current, and the disk the same before and
\* after a fresh observation.
Selected(disk, fresh) ==
    /\ Reservable(inventory, disk) /\ Reservable(fresh, disk)
    /\ inventory.disks[disk] = fresh.disks[disk]
    /\ Free(disk, fresh.disks[disk])

\* A table with a new entry.
Added(table, o, entry) ==
    [k \in DOMAIN table \cup {o} |-> IF k = o THEN entry ELSE table[k]]

\* retain_storage_reservation, once Selected has let Reservations::acquire in.
Retain(disk, fresh) ==
    reservations' = Added(reservations, next,
                          [disk |-> disk, observed |-> fresh.disks[disk], revoked |-> FALSE])

----------------------------------------------------------------------------
\* Requests.

\* storage_reservation: create_provider_object may fail, which retires the
\* reservation at once; a lost reply leaves an object nobody holds.
ReserveStorage ==
    \E disk \in Guid, warned \in BOOLEAN, published, delivered \in BOOLEAN :
       LET fresh == Refreshed(warned) IN
       /\ inventory.generation < MaxGen /\ next <= MaxObject
       /\ Reservable(inventory, disk)
       /\ inventory' = fresh
       /\ IF ~Selected(disk, fresh)
          THEN UNCHANGED <<reservations, references, releasing, next>>
          ELSE /\ next' = next + 1
               /\ IF published THEN Retain(disk, fresh) ELSE UNCHANGED reservations
               /\ references' = IF published /\ delivered THEN references \cup {next}
                                ELSE references
               /\ releasing' = IF published /\ ~delivered THEN releasing \cup {next}
                               ELSE releasing
       /\ UNCHANGED <<world, epoch, regions, driver>>

\* What the driver answers to OPEN_REGION for the pinned epoch: it opened the
\* region, it refused, or the call failed and it may have opened it.
OpenRegion(slot, ep) ==
    IF world[slot].epoch = ep
    THEN {<<"ok", TRUE>>, <<"refused", FALSE>>, <<"unknown", TRUE>>, <<"unknown", FALSE>>}
    ELSE {<<"refused", FALSE>>, <<"unknown", FALSE>>}

\* provider_close(object) of an object with a region: when the driver cannot
\* confirm the close, region and reservation both stay.
CloseOutcomes(region) == IF region \in driver THEN BOOLEAN ELSE {TRUE}

\* (A mutant.) A failed open releases the disk although the driver may have it open.
KeepConfirmed(answer) == answer = "ok"

KeepReservation(answer) == answer \in {"ok", "unknown"}

\* acquire_storage_region: the epoch is read before the fresh observation, so
\* the disk may be swapped in between; the driver checks it again.
AcquireStorageRegion ==
    \E disk \in Guid, warned \in BOOLEAN, ep \in 1..MaxEpoch :
       LET fresh == Refreshed(warned)
           slot == inventory.disks[disk].device
           mine == [slot |-> slot, epoch |-> ep, object |-> next]
       IN
       /\ inventory.generation < MaxGen /\ next <= MaxObject
       /\ Reservable(inventory, disk)
       /\ ep <= epoch
       /\ inventory' = fresh
       /\ IF ~Selected(disk, fresh)
          THEN UNCHANGED <<reservations, regions, driver, references, releasing, next>>
          ELSE \E answer \in OpenRegion(slot, ep), delivered \in BOOLEAN :
               /\ next' = next + 1
               /\ driver' = IF answer[2] THEN driver \cup {mine} ELSE driver
               /\ IF KeepReservation(answer[1])
                  THEN Retain(disk, fresh) ELSE UNCHANGED reservations
               /\ IF answer[1] = "ok"
                  THEN /\ regions' = Added(regions, next,
                                         [slot |-> slot, epoch |-> ep, failed |-> FALSE])
                       /\ references' = IF delivered THEN references \cup {next}
                                        ELSE references
                       /\ releasing' = IF delivered THEN releasing
                                       ELSE releasing \cup {next}
                  ELSE UNCHANGED <<regions, references, releasing>>
       /\ UNCHANGED <<world, epoch>>

\* validate_storage_reservation: any difference from the disk observed at the
\* reservation revokes it for good.
Validate ==
    \E o \in references, warned \in BOOLEAN :
       LET fresh == Refreshed(warned)
           r == reservations[o]
       IN
       /\ o \notin DOMAIN regions /\ ~r.revoked
       /\ inventory.generation < MaxGen
       /\ inventory' = fresh
       /\ reservations' = [reservations EXCEPT ![o].revoked =
                             ~(Reservable(fresh, r.disk)
                               /\ fresh.disks[r.disk] = r.observed)]
       /\ UNCHANGED <<world, epoch, regions, driver, references, releasing, next>>

\* Region::request: the first failed transfer fails every later one.
RegionRequest ==
    \E o \in references \cap DOMAIN regions :
       /\ ~regions[o].failed
       /\ regions' = [regions EXCEPT ![o].failed = TRUE]
       /\ UNCHANGED <<world, epoch, inventory, reservations, driver, references,
                      releasing, next>>

DropReference ==
    \E o \in references :
       /\ references' = references \ {o}
       /\ releasing' = releasing \cup {o}
       /\ UNCHANGED <<world, epoch, inventory, reservations, regions, driver, next>>

\* OP_RELEASE, and the direct close when a region object cannot be published:
\* the message is consumed whether or not provider_close succeeds.
ProviderClose ==
    \E o \in releasing :
       LET region == IF o \in DOMAIN regions
                     THEN [slot |-> regions[o].slot, epoch |-> regions[o].epoch,
                           object |-> o]
                     ELSE [slot |-> 0, epoch |-> 0, object |-> o]
       IN
       /\ releasing' = releasing \ {o}
       /\ \E closed \in CloseOutcomes(region) :
            IF closed
            THEN /\ regions' = Restrict(regions, DOMAIN regions \ {o})
                 /\ reservations' = Restrict(reservations, DOMAIN reservations \ {o})
                 /\ driver' = driver \ {region}
            ELSE /\ UNCHANGED <<regions, reservations>>
                 /\ driver' \in {driver, driver \ {region}}
       /\ UNCHANGED <<world, epoch, inventory, references, next>>

StorageNext ==
    \/ Plug \/ Pull \/ Repartition \/ Refresh
    \/ ReserveStorage \/ AcquireStorageRegion \/ Validate \/ RegionRequest
    \/ DropReference \/ ProviderClose

StorageSpec == StorageInit /\ [][StorageNext]_storageVars

----------------------------------------------------------------------------
\* A region the driver has open is covered by a reservation of the same device
\* for as long as the driver may have it, uncertain opens and failed closes
\* included; a device is reserved once, and never the disk a volume is mounted
\* on.  So no two clients ever write one disk, and none writes under the
\* file system (acquire_storage_region, Reservations::acquire, provider_close).
RegionsCovered ==
    /\ \A d \in driver :
         /\ d.object \in DOMAIN reservations
         /\ reservations[d.object].observed.device = d.slot
         /\ world[d.slot].guid # Mounted
    /\ \A o, p \in DOMAIN reservations :
         o # p => reservations[o].observed.device # reservations[p].observed.device
=============================================================================
