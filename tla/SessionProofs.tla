---------------------------- MODULE SessionProofs ----------------------------
(***************************************************************************)
(* Proofs about two services that hold something on behalf of others.      *)
(* Storage: for any number of disks, plug events, inventory generations    *)
(* and objects, every region the driver has open stays covered by the one  *)
(* reservation of its device.  Sessions: for any accounts, sessions and    *)
(* requests, whatever launch, teardown or reply fails, every process tree  *)
(* is accounted for and consent follows the session.                       *)
(***************************************************************************)
EXTENDS SessionManager, StorageReservation, TLAPS

-----------------------------------------------------------------------------
(* Reservations of whole disks.                                            *)

\* The disk of the volumes is in slot 0, and no other slot shows its GUID.
WorldSound ==
  /\ world \in [Slot -> [guid : Guid \cup {0, Mounted}, layout : Nat, epoch : Nat]]
  /\ \A s \in Slot : world[s].guid = Mounted <=> s = 0
  /\ epoch \in Nat

Observations == [device : Slot, guid : Guid \cup {Mounted}, layout : Nat]

\* An observed disk other than the mounted one is not in slot 0.
InventorySound ==
  /\ inventory.generation \in Nat
  /\ \A g \in DOMAIN inventory.disks :
       /\ inventory.disks[g] \in Observations
       /\ g # Mounted => inventory.disks[g].device # 0

\* Objects are numbered upwards, a number is used once.
ObjectsNumbered ==
  /\ next \in Nat
  /\ \A o \in DOMAIN reservations \cup DOMAIN regions \cup references \cup releasing :
       o \in Nat /\ o < next

\* Reservations are of devices other than the mounted one, each reserved once.
ReservationsSound ==
  /\ reservations = [o \in DOMAIN reservations |-> reservations[o]]
  /\ \A o \in DOMAIN reservations :
       /\ reservations[o] \in [disk : Guid, observed : Observations, revoked : BOOLEAN]
       /\ reservations[o].observed.device # 0
  /\ \A o, p \in DOMAIN reservations :
       o # p => reservations[o].observed.device # reservations[p].observed.device

\* An open region has a reservation; while a client can still give up the
\* object, the driver's region is the one on record.
DriverSound ==
  /\ \A o \in DOMAIN regions : regions[o] \in [slot : Slot, epoch : Nat, failed : BOOLEAN]
  /\ driver \in SUBSET [slot : Slot, epoch : Nat, object : Nat]
  /\ \A d \in driver :
       /\ d.object \in DOMAIN reservations
       /\ reservations[d.object].observed.device = d.slot
       /\ d.object \in references \cup releasing =>
            /\ d.object \in DOMAIN regions
            /\ regions[d.object].slot = d.slot /\ regions[d.object].epoch = d.epoch

StorageInv == WorldSound /\ InventorySound /\ ObjectsNumbered /\ ReservationsSound /\ DriverSound

Unmoved == UNCHANGED <<reservations, regions, driver, references, releasing, next>>

\* What only changes the machine or the inventory leaves the rest sound.
LEMMA UnmovedKeeps ==
  ASSUME StorageInv, Unmoved
  PROVE  (ObjectsNumbered /\ ReservationsSound /\ DriverSound)'
BY DEF Unmoved, StorageInv, ObjectsNumbered, ReservationsSound, DriverSound

LEMMA PlugKeeps == ASSUME StorageInv, Plug PROVE StorageInv'
<1>1. PICK s \in Slot \ {0}, g \in Guid, l \in 0 .. MaxLayout :
        /\ \A t \in Slot : world[t].guid # g
        /\ epoch' = epoch + 1
        /\ world' = [world EXCEPT ![s] = [guid |-> g, layout |-> l, epoch |-> epoch']]
        /\ UNCHANGED inventory /\ Unmoved
  BY Zenon DEF Plug, Unmoved
<1>2. g # Mounted
  BY <1>1, StorageAssumption DEF StorageInv, WorldSound
<1>3. l \in Nat /\ epoch' \in Nat
  BY <1>1, StorageAssumption DEF StorageInv, WorldSound
<1>4. WorldSound'
  BY <1>1, <1>2, <1>3 DEF StorageInv, WorldSound
<1>5. InventorySound'
  BY <1>1 DEF StorageInv, InventorySound
<1> QED BY <1>1, <1>4, <1>5, UnmovedKeeps DEF StorageInv

LEMMA PullKeeps == ASSUME StorageInv, Pull PROVE StorageInv'
<1>1. PICK s \in Slot \ {0} :
        /\ world' = [world EXCEPT ![s] = Empty]
        /\ driver' = {d \in driver : d.slot # s}
  BY Zenon DEF Pull
<1>2. UNCHANGED <<epoch, inventory, reservations, regions, references, releasing, next>>
  BY DEF Pull
<1>3. WorldSound'
  BY <1>1, <1>2, StorageAssumption DEF StorageInv, WorldSound, Empty
<1>4. (InventorySound /\ ObjectsNumbered /\ ReservationsSound)'
  BY <1>2 DEF StorageInv, InventorySound, ObjectsNumbered, ReservationsSound
<1>5. DriverSound'
  BY <1>1, <1>2 DEF StorageInv, DriverSound
<1> QED BY <1>3, <1>4, <1>5 DEF StorageInv

LEMMA RepartitionKeeps == ASSUME StorageInv, Repartition PROVE StorageInv'
<1>1. PICK s \in Slot \ {0} : world' = [world EXCEPT ![s].layout = @ + 1]
  BY Zenon DEF Repartition
<1>2. UNCHANGED <<epoch, inventory>> /\ Unmoved
  BY DEF Repartition, Unmoved
<1>3. WorldSound'
  <2>1. world[s].layout + 1 \in Nat
    BY DEF StorageInv, WorldSound
  <2> QED BY <1>1, <1>2, <2>1 DEF StorageInv, WorldSound
<1>4. InventorySound'
  BY <1>2 DEF StorageInv, InventorySound
<1> QED BY <1>2, <1>3, <1>4, UnmovedKeeps DEF StorageInv

\* A fresh observation places every disk but the mounted one outside slot 0.
LEMMA RefreshedSound ==
  ASSUME StorageInv, NEW warned \in BOOLEAN
  PROVE  /\ Refreshed(warned).generation \in Nat
         /\ \A g \in DOMAIN Refreshed(warned).disks :
              /\ Refreshed(warned).disks[g] \in Observations
              /\ g # Mounted => Refreshed(warned).disks[g].device # 0
<1>1. Refreshed(warned).generation \in Nat /\ Refreshed(warned).disks = Physical
  BY DEF StorageInv, InventorySound, Refreshed
<1>2. ASSUME NEW g \in DOMAIN Physical
      PROVE  Physical[g] \in Observations /\ (g # Mounted => Physical[g].device # 0)
  <2> DEFINE t == CHOOSE t \in Slot : world[t].guid = g
  <2>1. \E u \in Slot : world[u].guid = g
    BY DEF Physical
  <2>2. t \in Slot /\ world[t].guid = g
    BY <2>1
  <2>3. Physical[g] = [device |-> t, guid |-> g, layout |-> world[t].layout]
    BY DEF Physical
  <2>4. g # 0
    BY DEF Physical
  <2> HIDE DEF t
  <2> QED BY <2>2, <2>3, <2>4, StorageAssumption DEF StorageInv, WorldSound, Observations
<1> QED BY <1>1, <1>2

LEMMA RefreshKeeps ==
  ASSUME StorageInv, NEW warned \in BOOLEAN, inventory' = Refreshed(warned),
         UNCHANGED <<world, epoch>>
  PROVE  (WorldSound /\ InventorySound)'
BY ZenonT(60), RefreshedSound DEF StorageInv, WorldSound, InventorySound

\* Retain: the new reservation is of a free device that is not the mounted one.
LEMMA RetainKeeps ==
  ASSUME StorageInv, NEW warned \in BOOLEAN, NEW disk \in Guid, Selected(disk, Refreshed(warned)),
         Retain(disk, Refreshed(warned))
  PROVE  /\ ReservationsSound'
         /\ next \notin DOMAIN reservations
         /\ DOMAIN reservations' = DOMAIN reservations \cup {next}
         /\ \A o \in DOMAIN reservations : reservations'[o] = reservations[o]
         /\ reservations'[next].observed.device = inventory.disks[disk].device
<1> DEFINE fresh == Refreshed(warned)
           new == [disk |-> disk, observed |-> fresh.disks[disk], revoked |-> FALSE]
<1>1. reservations' = [o \in {next} \cup DOMAIN reservations |->
                         IF o = next THEN new ELSE reservations[o]]
  BY DEF Retain, Added
<1>2. next \notin DOMAIN reservations
  BY DEF StorageInv, ObjectsNumbered
<1>3. /\ fresh.disks[disk] = inventory.disks[disk] /\ fresh.disks[disk] \in Observations
      /\ fresh.disks[disk].device # 0
  BY RefreshedSound DEF Selected, Reservable
<1>4. \A o \in DOMAIN reservations : reservations[o].observed.device # fresh.disks[disk].device
  BY DEF Selected, Free
<1> HIDE DEF fresh
<1>5. /\ new \in [disk : Guid, observed : Observations, revoked : BOOLEAN]
      /\ new.observed = fresh.disks[disk]
  BY <1>3
<1> HIDE DEF new
<1> QED BY <1>1, <1>2, <1>3, <1>4, <1>5 DEF StorageInv, ReservationsSound

LEMMA ReserveKeeps == ASSUME StorageInv, ReserveStorage PROVE StorageInv'
<1>1. PICK disk \in Guid, warned \in BOOLEAN, published \in BOOLEAN, delivered \in BOOLEAN :
        /\ inventory' = Refreshed(warned)
        /\ IF ~Selected(disk, Refreshed(warned))
           THEN UNCHANGED <<reservations, references, releasing, next>>
           ELSE /\ next' = next + 1
                /\ IF published THEN Retain(disk, Refreshed(warned)) ELSE UNCHANGED reservations
                /\ references' = IF published /\ delivered THEN references \cup {next}
                                 ELSE references
                /\ releasing' = IF published /\ ~delivered THEN releasing \cup {next}
                                ELSE releasing
  BY DEF ReserveStorage
<1>2. UNCHANGED <<world, epoch, regions, driver>>
  BY DEF ReserveStorage
<1>3. (WorldSound /\ InventorySound)'
  BY <1>1, <1>2, RefreshKeeps
<1>4. CASE ~Selected(disk, Refreshed(warned))
  BY <1>1, <1>2, <1>3, <1>4, UnmovedKeeps DEF Unmoved, StorageInv
<1>5. CASE Selected(disk, Refreshed(warned)) /\ published
  <2>1. /\ ReservationsSound' /\ next \notin DOMAIN reservations
        /\ DOMAIN reservations' = DOMAIN reservations \cup {next}
        /\ \A o \in DOMAIN reservations : reservations'[o] = reservations[o]
    BY ZenonT(60), <1>1, <1>5, RetainKeeps
  <2>2. /\ next' = next + 1
        /\ references' \cup releasing' = references \cup releasing \cup {next}
    BY <1>1, <1>5
  <2>3. ObjectsNumbered'
    BY <1>2, <2>1, <2>2 DEF StorageInv, ObjectsNumbered
  <2>4. DriverSound'
    BY <1>2, <2>1, <2>2 DEF StorageInv, DriverSound
  <2> QED BY ZenonT(60), <1>3, <2>1, <2>3, <2>4 DEF StorageInv
<1>6. CASE Selected(disk, Refreshed(warned)) /\ ~published
  <2>1. next' = next + 1 /\ UNCHANGED <<reservations, references, releasing>>
    BY <1>1, <1>6
  <2>2. (ObjectsNumbered /\ ReservationsSound /\ DriverSound)'
    BY <1>2, <2>1 DEF StorageInv, ObjectsNumbered, ReservationsSound, DriverSound
  <2> QED BY <1>3, <2>2 DEF StorageInv
<1> QED BY <1>4, <1>5, <1>6

\* The new region of object next is covered by the new reservation.
LEMMA AcquireKeeps == ASSUME StorageInv, AcquireStorageRegion PROVE StorageInv'
<1>1. PICK disk \in Guid, warned \in BOOLEAN, ep \in 1 .. MaxEpoch :
        LET fresh == Refreshed(warned)
            slot == inventory.disks[disk].device
            mine == [slot |-> slot, epoch |-> ep, object |-> next]
        IN
        /\ inventory.generation < MaxGen /\ next <= MaxObject
        /\ Reservable(inventory, disk)
        /\ ep <= epoch
        /\ inventory' = fresh
        /\ IF ~Selected(disk, fresh)
           THEN UNCHANGED <<reservations, regions, driver, references, releasing, next>>
           ELSE \E answer \in OpenRegion(slot, ep), delivered \in BOOLEAN :
                /\ next' = next + 1
                /\ driver' = IF answer[2] THEN driver \cup {mine} ELSE driver
                /\ IF KeepReservation(answer[1])
                   THEN Retain(disk, fresh) ELSE UNCHANGED reservations
                /\ IF answer[1] = "ok"
                   THEN /\ regions' = Added(regions, next,
                                            [slot |-> slot, epoch |-> ep, failed |-> FALSE])
                        /\ references' = IF delivered THEN references \cup {next}
                                         ELSE references
                        /\ releasing' = IF delivered THEN releasing
                                        ELSE releasing \cup {next}
                   ELSE UNCHANGED <<regions, references, releasing>>
        /\ UNCHANGED <<world, epoch>>
  BY Zenon DEF AcquireStorageRegion
<1>2. UNCHANGED <<world, epoch>>
  BY DEF AcquireStorageRegion
<1>3. (WorldSound /\ InventorySound)'
  BY <1>1, <1>2, RefreshKeeps
<1> DEFINE slot == inventory.disks[disk].device
           mine == [slot |-> slot, epoch |-> ep, object |-> next]
<1>4. CASE ~Selected(disk, Refreshed(warned))
  <2>1. Unmoved
    BY ZenonT(60), <1>1, <1>4 DEF Unmoved
  <2> QED BY ZenonT(60), <1>3, <2>1, UnmovedKeeps DEF StorageInv
<1>5. CASE Selected(disk, Refreshed(warned))
  <2>1. PICK answer \in OpenRegion(slot, ep), delivered \in BOOLEAN :
          /\ next' = next + 1
          /\ driver' = IF answer[2] THEN driver \cup {mine} ELSE driver
          /\ IF KeepReservation(answer[1])
             THEN Retain(disk, Refreshed(warned)) ELSE UNCHANGED reservations
          /\ IF answer[1] = "ok"
             THEN /\ regions' = Added(regions, next, [slot |-> slot, epoch |-> ep, failed |-> FALSE])
                  /\ references' = IF delivered THEN references \cup {next} ELSE references
                  /\ releasing' = IF delivered THEN releasing ELSE releasing \cup {next}
             ELSE UNCHANGED <<regions, references, releasing>>
    BY Zenon, <1>1, <1>5
  <2>2. /\ answer[1] \in {"ok", "refused", "unknown"}
        /\ answer[2] => KeepReservation(answer[1])
    <3>1. \/ answer = <<"ok", TRUE>> \/ answer = <<"unknown", TRUE>>
          \/ answer = <<"refused", FALSE>> \/ answer = <<"unknown", FALSE>>
      BY Zenon DEF OpenRegion
    <3>2. ASSUME answer = <<"ok", TRUE>> PROVE answer[1] = "ok"
      BY <3>2
    <3>3. ASSUME answer = <<"unknown", TRUE>> PROVE answer[1] = "unknown"
      BY <3>3
    <3>4. ASSUME answer = <<"unknown", FALSE>> PROVE answer[1] = "unknown"
      BY <3>4
    <3>5. ASSUME answer = <<"refused", FALSE>> PROVE answer[1] = "refused" /\ answer[2] = FALSE
      BY ZenonT(60), <3>5
    <3> QED BY Zenon, <3>1, <3>2, <3>3, <3>4, <3>5 DEF KeepReservation
  <2>3. slot \in Slot /\ ep \in Nat /\ next \in Nat
    BY <1>1, StorageAssumption DEF StorageInv, InventorySound, ObjectsNumbered, Reservable, Observations
  <2>4. /\ ReservationsSound' /\ next \notin DOMAIN reservations
        /\ DOMAIN reservations \subseteq DOMAIN reservations'
        /\ DOMAIN reservations' \subseteq DOMAIN reservations \cup {next}
        /\ \A o \in DOMAIN reservations : reservations'[o] = reservations[o]
        /\ KeepReservation(answer[1]) => /\ next \in DOMAIN reservations'
                                         /\ reservations'[next].observed.device = slot
    <3>1. CASE KeepReservation(answer[1])
      BY ZenonT(60), <1>5, <2>1, <3>1, RetainKeeps
    <3>2. CASE ~KeepReservation(answer[1])
      BY <2>1, <3>2 DEF StorageInv, ReservationsSound, ObjectsNumbered
    <3> QED BY ZenonT(60), <3>1, <3>2
  <2>5. /\ DOMAIN regions \subseteq DOMAIN regions'
        /\ DOMAIN regions' \subseteq DOMAIN regions \cup {next}
        /\ \A o \in DOMAIN regions : regions'[o] = regions[o]
        /\ answer[1] = "ok" => /\ next \in DOMAIN regions'
                               /\ regions'[next].slot = slot /\ regions'[next].epoch = ep
        /\ \A o \in DOMAIN regions' : regions'[o] \in [slot : Slot, epoch : Nat, failed : BOOLEAN]
    <3> DEFINE entry == [slot |-> slot, epoch |-> ep, failed |-> FALSE]
    <3>1. /\ entry \in [slot : Slot, epoch : Nat, failed : BOOLEAN]
          /\ entry.slot = slot /\ entry.epoch = ep
      BY ZenonT(60), <2>3
    <3>2. regions' = regions \/ (answer[1] = "ok" /\ regions' = Added(regions, next, entry))
      BY ZenonT(60), <2>1
    <3>3. answer[1] = "ok" => regions' = Added(regions, next, entry)
      BY <2>1
    <3>4. next \notin DOMAIN regions
      BY DEF StorageInv, ObjectsNumbered
    <3> HIDE DEF entry
    <3> QED BY ZenonT(60), <3>1, <3>2, <3>3, <3>4 DEF Added, StorageInv, DriverSound
  <2>6. /\ references' \cup releasing' \subseteq references \cup releasing \cup {next}
        /\ next \in references' \cup releasing' => answer[1] = "ok"
    BY <2>1 DEF StorageInv, ObjectsNumbered
  <2>7. ObjectsNumbered'
    BY <2>1, <2>3, <2>4, <2>5, <2>6 DEF StorageInv, ObjectsNumbered
  <2>8. ASSUME NEW d \in driver'
        PROVE  /\ d \in [slot : Slot, epoch : Nat, object : Nat]
               /\ d.object \in DOMAIN reservations'
               /\ reservations'[d.object].observed.device = d.slot
               /\ d.object \in references' \cup releasing' =>
                    /\ d.object \in DOMAIN regions'
                    /\ regions'[d.object].slot = d.slot /\ regions'[d.object].epoch = d.epoch
    <3>1. CASE d \in driver
      <4>1. d.object # next
        BY <3>1 DEF StorageInv, DriverSound, ObjectsNumbered
      <4> QED BY ZenonT(60), <2>4, <2>5, <2>6, <3>1, <4>1 DEF StorageInv, DriverSound
    <3>2. CASE d = mine /\ answer[2]
      <4>1. d.slot = slot /\ d.epoch = ep /\ d.object = next
        BY <3>2
      <4>2. d \in [slot : Slot, epoch : Nat, object : Nat]
        BY <2>3, <3>2
      <4> HIDE DEF slot, mine
      <4> QED BY ZenonT(60), <2>2, <2>4, <2>5, <2>6, <3>2, <4>1, <4>2
    <3> QED BY ZenonT(60), <2>1, <3>1, <3>2
  <2> QED BY <1>3, <2>4, <2>5, <2>7, <2>8 DEF StorageInv, DriverSound
<1> QED BY <1>4, <1>5

LEMMA ValidateKeeps == ASSUME StorageInv, Validate PROVE StorageInv'
<1>1. PICK o \in references, warned \in BOOLEAN, v \in BOOLEAN :
        /\ inventory' = Refreshed(warned)
        /\ reservations' = [reservations EXCEPT ![o].revoked = v]
  BY Zenon DEF Validate
<1>2. UNCHANGED <<world, epoch, regions, driver, references, releasing, next>>
  BY DEF Validate
<1>3. (WorldSound /\ InventorySound)'
  BY <1>1, <1>2, RefreshKeeps
<1>4. /\ reservations' = [p \in DOMAIN reservations' |-> reservations'[p]]
      /\ DOMAIN reservations' = DOMAIN reservations
      /\ \A p \in DOMAIN reservations :
           /\ reservations'[p] \in [disk : Guid, observed : Observations, revoked : BOOLEAN]
           /\ reservations'[p].observed = reservations[p].observed
  BY Zenon, <1>1 DEF StorageInv, ReservationsSound
<1>5. ReservationsSound'
  BY <1>4 DEF StorageInv, ReservationsSound
<1>6. (ObjectsNumbered /\ DriverSound)'
  BY <1>2, <1>4 DEF StorageInv, ObjectsNumbered, DriverSound
<1> QED BY <1>3, <1>5, <1>6 DEF StorageInv

LEMMA RegionRequestKeeps == ASSUME StorageInv, RegionRequest PROVE StorageInv'
<1>1. PICK o \in references \cap DOMAIN regions : regions' = [regions EXCEPT ![o].failed = TRUE]
  BY Zenon DEF RegionRequest
<1>2. UNCHANGED <<world, epoch, inventory, reservations, driver, references, releasing, next>>
  BY DEF RegionRequest
<1>3. /\ DOMAIN regions' = DOMAIN regions
      /\ \A p \in DOMAIN regions :
           /\ regions'[p] \in [slot : Slot, epoch : Nat, failed : BOOLEAN]
           /\ regions'[p].slot = regions[p].slot /\ regions'[p].epoch = regions[p].epoch
  BY Zenon, <1>1 DEF StorageInv, DriverSound
<1>4. (WorldSound /\ InventorySound /\ ReservationsSound)'
  BY <1>2 DEF StorageInv, WorldSound, InventorySound, ReservationsSound
<1>5. (ObjectsNumbered /\ DriverSound)'
  BY <1>2, <1>3 DEF StorageInv, ObjectsNumbered, DriverSound
<1> QED BY <1>4, <1>5 DEF StorageInv

LEMMA DropReferenceKeeps == ASSUME StorageInv, DropReference PROVE StorageInv'
<1>1. references' \cup releasing' = references \cup releasing
  BY DEF DropReference
<1>2. UNCHANGED <<world, epoch, inventory, reservations, regions, driver, next>>
  BY ZenonT(60) DEF DropReference
<1>3. (WorldSound /\ InventorySound /\ ReservationsSound)'
  BY <1>2 DEF StorageInv, WorldSound, InventorySound, ReservationsSound
<1>4. ObjectsNumbered'
  BY ZenonT(60), <1>1, <1>2 DEF StorageInv, ObjectsNumbered
<1>5. DriverSound'
  BY <1>1, <1>2 DEF StorageInv, DriverSound
<1> QED BY <1>3, <1>4, <1>5 DEF StorageInv

\* A close that is confirmed ends the only region of the object.
LEMMA ProviderCloseKeeps == ASSUME StorageInv, ProviderClose PROVE StorageInv'
<1> DEFINE RegionOf(o) == IF o \in DOMAIN regions
                          THEN [slot |-> regions[o].slot, epoch |-> regions[o].epoch, object |-> o]
                          ELSE [slot |-> 0, epoch |-> 0, object |-> o]
<1>1. PICK o \in releasing :
        /\ releasing' = releasing \ {o}
        /\ \/ /\ regions' = Restrict(regions, DOMAIN regions \ {o})
              /\ reservations' = Restrict(reservations, DOMAIN reservations \ {o})
              /\ driver' = driver \ {RegionOf(o)}
           \/ UNCHANGED <<regions, reservations>> /\ driver' \in SUBSET driver
  BY Zenon DEF ProviderClose
<1>2. UNCHANGED <<world, epoch, inventory, references, next>>
  BY DEF ProviderClose
<1>3. (WorldSound /\ InventorySound)'
  BY <1>2 DEF StorageInv, WorldSound, InventorySound
<1>4. ASSUME NEW d \in driver, d.object = o
      PROVE  d = RegionOf(o)
  <2>1. /\ o \in DOMAIN regions /\ d.slot = regions[o].slot /\ d.epoch = regions[o].epoch
        /\ d \in [slot : Slot, epoch : Nat, object : Nat]
    BY <1>1, <1>4 DEF StorageInv, DriverSound
  <2> QED BY ZenonT(60), <1>4, <2>1
<1> HIDE DEF RegionOf
<1>5. CASE UNCHANGED <<regions, reservations>> /\ driver' \in SUBSET driver
  <2>1. (ObjectsNumbered /\ ReservationsSound)'
    BY ZenonT(60), <1>1, <1>2, <1>5 DEF StorageInv, ObjectsNumbered, ReservationsSound
  <2>2. DriverSound'
    BY <1>1, <1>2, <1>5 DEF StorageInv, DriverSound
  <2> QED BY ZenonT(60), <1>3, <2>1, <2>2 DEF StorageInv
<1>6. CASE /\ regions' = Restrict(regions, DOMAIN regions \ {o})
           /\ reservations' = Restrict(reservations, DOMAIN reservations \ {o})
           /\ driver' = driver \ {RegionOf(o)}
  <2>1. /\ DOMAIN regions' = DOMAIN regions \ {o}
        /\ \A p \in DOMAIN regions' : regions'[p] = regions[p]
    BY <1>6 DEF Restrict
  <2>2. /\ DOMAIN reservations' = DOMAIN reservations \ {o}
        /\ \A p \in DOMAIN reservations' : reservations'[p] = reservations[p]
        /\ reservations' = [p \in DOMAIN reservations' |-> reservations'[p]]
    BY <1>6 DEF Restrict
  <2>3. \A d \in driver' : d \in driver /\ d.object # o
    BY ZenonT(60), <1>4, <1>6
  <2>4. ObjectsNumbered'
    BY ZenonT(60), <1>1, <1>2, <2>1, <2>2 DEF StorageInv, ObjectsNumbered
  <2>5. ReservationsSound'
    BY <2>2 DEF StorageInv, ReservationsSound
  <2>6. DriverSound'
    BY <1>1, <1>2, <2>1, <2>2, <2>3 DEF StorageInv, DriverSound
  <2> QED BY <1>3, <2>4, <2>5, <2>6 DEF StorageInv
<1> QED BY <1>1, <1>5, <1>6

LEMMA StorageStarts == StorageInit => StorageInv
<1> SUFFICES ASSUME StorageInit PROVE StorageInv
  BY ZenonT(60)
<1>1. WorldSound
  BY ZenonT(60), StorageAssumption DEF StorageInit, WorldSound, Empty
<1>2. InventorySound /\ ObjectsNumbered /\ ReservationsSound /\ DriverSound
  BY DEF StorageInit, InventorySound, ObjectsNumbered, ReservationsSound, DriverSound
<1> QED BY <1>1, <1>2 DEF StorageInv

\* The inductive invariant: objects are numbered once, and while an object can
\* still be given up the driver's region for it is the one in the region table
\* (storage_reservation.rs Reservations::acquire, storage_region.rs, main.rs).
THEOREM StorageInvariance == StorageSpec => []StorageInv
<1>1. StorageInit => StorageInv
  BY StorageStarts
<1>2. StorageInv /\ [StorageNext]_storageVars => StorageInv'
  <2> SUFFICES ASSUME StorageInv, [StorageNext]_storageVars PROVE StorageInv'
    BY ZenonT(60)
  <2>1. CASE UNCHANGED storageVars
    BY <2>1 DEF storageVars, StorageInv, WorldSound, InventorySound, ObjectsNumbered,
       ReservationsSound, DriverSound
  <2>2. CASE Refresh
    <3>1. PICK warned \in BOOLEAN : inventory' = Refreshed(warned)
      BY <2>2 DEF Refresh
    <3>2. UNCHANGED <<world, epoch>> /\ Unmoved
      BY <2>2 DEF Refresh, Unmoved
    <3> QED BY <3>1, <3>2, RefreshKeeps, UnmovedKeeps DEF StorageInv
  <2> QED BY <2>1, <2>2, PlugKeeps, PullKeeps, RepartitionKeeps, ReserveKeeps, AcquireKeeps,
             ValidateKeeps, RegionRequestKeeps, DropReferenceKeeps, ProviderCloseKeeps
          DEF StorageNext
<1> QED BY <1>1, <1>2, PTL DEF StorageSpec

\* No two clients ever write one disk, and none writes under the file system
\* (RegionsCovered), for any number of disks, plug events, failing driver calls
\* and objects.
THEOREM RegionsStayCovered == StorageSpec => []RegionsCovered
<1>1. StorageInv => RegionsCovered
  BY DEF StorageInv, WorldSound, ReservationsSound, DriverSound, RegionsCovered
<1> QED BY <1>1, StorageInvariance, PTL

-----------------------------------------------------------------------------
(* Desktop sessions.                                                       *)

Images == {"workspace", "linux", "binder"}

\* Roots of sessions, not of the installer or of the manager's own helpers.
Own(S) == {r \in S : r.n # 0 /\ r.image # "installer"}

Trees == [n : Nat, image : Images]

SessionTypes ==
  /\ session \in Nat \ {0} /\ active \in {0, session}
  /\ stage \in {"idle", "login", "workspace", "linux", "binder", "publish", "unlock"}
  /\ cleanup \in Seq(Trees) /\ unpublished \in Seq(Trees)
  /\ logout \in [on : BOOLEAN, plan : Seq(Trees), acked : BOOLEAN]
  /\ who \in User /\ keychain \in [up : BOOLEAN, user : User \cup {Nobody}]
  /\ inbox \in Seq([from : Nat \ {0}, kind : {"lock", "logout", "portal"}])

\* Every tree of a session is the present one's, and a list names what is owned.
TreesOwned ==
  /\ Own(live) \subseteq DOMAIN owners \cup failed
  /\ \A r \in Own(live \cup DOMAIN owners \cup failed) : r \in Trees /\ r.n = session
  /\ active = 0 => Own(DOMAIN owners) \subseteq Pending
  /\ logout.on => /\ active # 0 /\ logout.plan # <<>> /\ stage = "idle"
                  /\ Own(DOMAIN owners) \subseteq Range(logout.plan)

\* What each stage of the loop may rely on.
StageSound ==
  /\ stage \in {"login", "workspace"} => MayLogIn /\ Own(live \cup DOMAIN owners) = {}
  /\ stage \in {"login", "workspace", "linux", "binder"} => active = 0 /\ cleanup = <<>>
  /\ stage \in {"publish", "unlock"} => active # 0
  /\ stage \in {"workspace", "linux", "binder", "publish"} => (keychain.up => keychain.user = who)
  /\ told.on => active # 0

SessionInv == SessionTypes /\ TreesOwned /\ StageSound /\ ConsentGated

LEMMA TailNames ==
  ASSUME NEW s \in Seq(Trees), s # <<>>
  PROVE  /\ Tail(s) \in Seq(Trees) /\ Range(s) \subseteq Range(Tail(s)) \cup {Head(s)}
         /\ Len(s) = 1 => Range(s) \subseteq {Head(s)}
         /\ Len(s) # 1 => Tail(s) # <<>>
<1>1. Tail(s) \in Seq(Trees) /\ Len(Tail(s)) = Len(s) - 1 /\ Len(s) \in Nat \ {0}
  OBVIOUS
<1>2. ASSUME NEW i \in 1 .. Len(s) PROVE s[i] = Head(s) \/ (i - 1 \in 1 .. Len(s) - 1 /\ s[i] = Tail(s)[i - 1])
  <2>1. CASE i = 1
    BY <2>1
  <2>2. CASE i # 1
    <3>1. i - 1 \in 1 .. Len(s) - 1
      BY <1>1, <2>2
    <3>2. Tail(s)[i - 1] = s[(i - 1) + 1]
      BY <1>1, <3>1
    <3> QED BY <3>1, <3>2
  <2> QED BY <2>1, <2>2
<1>3. ASSUME NEW i \in 1 .. Len(s) PROVE s[i] \in Range(Tail(s)) \cup {Head(s)}
  <2>1. DOMAIN Tail(s) = 1 .. Len(s) - 1
    BY <1>1
  <2> QED BY Zenon, <1>2, <2>1 DEF Range
<1>4. Range(s) \subseteq Range(Tail(s)) \cup {Head(s)}
  BY <1>3 DEF Range
<1>5. Len(s) = 1 => Range(s) \subseteq {Head(s)}
  <2>1. DOMAIN s = 1 .. Len(s) /\ Head(s) = s[1]
    OBVIOUS
  <2> QED BY <2>1 DEF Range
<1>6. Len(s) # 1 => Tail(s) # <<>>
  <2>1. Len(<<>>) = 0
    OBVIOUS
  <2>2. Len(s) # 1 => Len(Tail(s)) # 0
    BY <1>1
  <2> QED BY Zenon, <2>1, <2>2
<1> QED BY <1>1, <1>4, <1>5, <1>6

LEMMA ReversedNames ==
  ASSUME NEW s \in Seq(Trees)
  PROVE  Reversed(s) \in Seq(Trees) /\ Range(Reversed(s)) = Range(s)
<1>1. Reversed(s) \in Seq(Trees) /\ Len(Reversed(s)) = Len(s) /\ DOMAIN Reversed(s) = 1 .. Len(s)
  BY DEF Reversed
<1>2. \A i \in 1 .. Len(s) : (Len(s) - i) + 1 \in 1 .. Len(s) /\ Reversed(s)[i] = s[(Len(s) - i) + 1]
  BY DEF Reversed
<1>3. \A i \in 1 .. Len(s) : s[i] = Reversed(s)[(Len(s) - i) + 1]
  BY DEF Reversed
<1>4. DOMAIN s = 1 .. Len(s)
  OBVIOUS
<1>5. ASSUME NEW x \in Range(s) PROVE x \in Range(Reversed(s))
  <2>1. PICK i \in 1 .. Len(s) : x = s[i]
    BY Zenon, <1>4 DEF Range
  <2>2. x = Reversed(s)[(Len(s) - i) + 1] /\ (Len(s) - i) + 1 \in DOMAIN Reversed(s)
    BY Zenon, <1>1, <1>2, <1>3, <2>1
  <2> QED BY Zenon, <2>2 DEF Range
<1>6. ASSUME NEW x \in Range(Reversed(s)) PROVE x \in Range(s)
  <2>1. PICK i \in 1 .. Len(s) : x = Reversed(s)[i]
    BY Zenon, <1>1 DEF Range
  <2>2. x = s[(Len(s) - i) + 1] /\ (Len(s) - i) + 1 \in DOMAIN s
    BY Zenon, <1>2, <1>4, <2>1
  <2> QED BY Zenon, <2>2 DEF Range
<1> QED BY Zenon, <1>1, <1>5, <1>6

LEMMA AppendNames ==
  ASSUME NEW s \in Seq(Trees), NEW r \in Trees
  PROVE  Append(s, r) \in Seq(Trees) /\ Range(Append(s, r)) = Range(s) \cup {r}
<1>1. /\ Append(s, r) \in Seq(Trees) /\ Len(Append(s, r)) = Len(s) + 1
      /\ Append(s, r)[Len(s) + 1] = r /\ \A i \in 1 .. Len(s) : Append(s, r)[i] = s[i]
      /\ Len(s) \in Nat
  OBVIOUS
<1>2. DOMAIN s = 1 .. Len(s) /\ DOMAIN Append(s, r) = 1 .. Len(s) + 1
  BY <1>1
<1>3. 1 .. Len(s) + 1 = (1 .. Len(s)) \cup {Len(s) + 1}
  BY <1>1
<1> QED BY <1>1, <1>2, <1>3 DEF Range

LEMMA PlanNames ==
  ASSUME NEW n \in Nat
  PROVE  /\ TeardownPlan(n) \in Seq(Trees) /\ TeardownPlan(n) # <<>>
         /\ \A r \in DOMAIN owners \cap Trees : r.n = n => r \in Range(TeardownPlan(n))
<1> DEFINE w == Root(n, "workspace")
           b == Root(n, "binder")
           l == Root(n, "linux")
<1>1. w \in Trees /\ b \in Trees /\ l \in Trees
  BY DEF Root, Trees, Images
<1>2. ASSUME NEW r \in Trees, r.n = n PROVE r \in {w, b, l}
  BY <1>2 DEF Root, Trees, Images
<1> HIDE DEF w, b, l
<1>3. CASE l \in DOMAIN owners
  <2>1. TeardownPlan(n) = <<l>> \o <<w, b>>
    BY <1>3 DEF TeardownPlan, l, w, b
  <2> DEFINE p == <<l>> \o <<w, b>>
  <2>2. <<l>> \in Seq(Trees) /\ <<w, b>> \in Seq(Trees) /\ Len(<<l>>) = 1 /\ Len(<<w, b>>) = 2
    BY <1>1
  <2>3. p \in Seq(Trees) /\ Len(p) = 3 /\ p[1] = l /\ p[2] = w /\ p[3] = b
    BY <2>2
  <2> HIDE DEF p
  <2>4. DOMAIN p = 1 .. 3 /\ p # <<>>
    BY <2>3
  <2>5. {w, b, l} \subseteq Range(p)
    BY <2>3, <2>4 DEF Range
  <2> QED BY <1>2, <2>1, <2>3, <2>4, <2>5 DEF p
<1>4. CASE l \notin DOMAIN owners
  <2>1. TeardownPlan(n) = <<>> \o <<w, b>>
    BY <1>4 DEF TeardownPlan, l, w, b
  <2>2. <<>> \o <<w, b>> = <<w, b>>
    BY <1>1
  <2>3. Range(<<w, b>>) = {w, b} /\ <<w, b>> # <<>> /\ <<w, b>> \in Seq(Trees)
    BY <1>1 DEF Range
  <2> QED BY <1>2, <1>4, <2>1, <2>2, <2>3
<1> QED BY <1>3, <1>4

\* A teardown step lets go of its root only when the tree is gone.
LEMMA Terminates ==
  ASSUME NEW r, NEW t \in TerminateOwnedRoot(r)
  PROVE  /\ t.done \in BOOLEAN /\ t.live \subseteq live
         /\ DOMAIN t.owners \subseteq DOMAIN owners
         /\ DOMAIN owners \subseteq DOMAIN t.owners \cup {r}
         /\ t.done => r \notin DOMAIN t.owners /\ r \notin t.live
         /\ ~t.done => DOMAIN t.owners = DOMAIN owners
<1>1. CASE t = [live |-> live \ {r}, done |-> TRUE, owners |-> [q \in DOMAIN owners \ {r} |-> owners[q]]]
  BY <1>1
<1>2. CASE t = [live |-> live, owners |-> owners, done |-> FALSE]
  BY <1>2
<1>3. CASE t = [live |-> live \ {r}, owners |-> owners, done |-> FALSE]
  BY <1>3
<1>4. CASE t = [live |-> live \ {r}, owners |-> [owners EXCEPT ![r] = TRUE], done |-> FALSE]
  BY <1>4
<1> QED BY <1>1, <1>2, <1>3, <1>4 DEF TerminateOwnedRoot

LEMMA RetryCleanupKeeps == ASSUME SessionInv, RetryFailedSessionCleanup PROVE SessionInv'
<1>1. PICK t \in TerminateOwnedRoot(Head(cleanup)) :
          /\ live' = t.live /\ owners' = t.owners
          /\ cleanup' = IF t.done THEN Tail(cleanup) ELSE cleanup
  BY DEF RetryFailedSessionCleanup
<1>2. /\ stage = "idle" /\ cleanup # <<>>
      /\ UNCHANGED <<active, session, who, stage, unpublished, logout, failed,
                     keychain, told, prepared, worker, prompt, inbox>>
  BY DEF RetryFailedSessionCleanup
<1>3. /\ t.done \in BOOLEAN /\ t.live \subseteq live
      /\ DOMAIN t.owners \subseteq DOMAIN owners
      /\ DOMAIN owners \subseteq DOMAIN t.owners \cup {Head(cleanup)}
      /\ t.done => Head(cleanup) \notin DOMAIN t.owners /\ Head(cleanup) \notin t.live
      /\ ~t.done => DOMAIN t.owners = DOMAIN owners
  BY Terminates
<1>4. cleanup' \in Seq(Trees) /\ Range(cleanup) \subseteq Range(cleanup') \cup {Head(cleanup)}
  BY <1>1, <1>2, TailNames DEF SessionInv, SessionTypes
<1>5. ~t.done => Range(cleanup') = Range(cleanup)
  BY <1>1
<1>6. SessionTypes'
  BY <1>2, <1>4 DEF SessionInv, SessionTypes
<1>7. Own(live') \subseteq DOMAIN owners' \cup failed'
  BY <1>1, <1>2, <1>3 DEF SessionInv, TreesOwned, Own
<1>8. \A r \in Own(live' \cup DOMAIN owners' \cup failed') : r \in Trees /\ r.n = session'
  BY <1>1, <1>2, <1>3 DEF SessionInv, TreesOwned, Own
<1>9. active' = 0 => Own(DOMAIN owners') \subseteq Pending'
  BY ZenonT(60), <1>1, <1>2, <1>3, <1>4, <1>5 DEF SessionInv, TreesOwned, Own, Pending
<1>10. logout'.on => /\ active' # 0 /\ logout'.plan # <<>> /\ stage' = "idle"
                     /\ Own(DOMAIN owners') \subseteq Range(logout'.plan)
  BY ZenonT(60), <1>1, <1>2, <1>3 DEF SessionInv, TreesOwned, Own
<1>11. StageSound' /\ ConsentGated'
  BY <1>2 DEF SessionInv, StageSound, ConsentGated
<1> QED BY SMTT(60), <1>6, <1>7, <1>8, <1>9, <1>10, <1>11 DEF SessionInv, TreesOwned

LEMMA RetryLaunchKeeps == ASSUME SessionInv, RetryFailedLaunchCleanup PROVE SessionInv'
<1>1. PICK r \in failed, done \in BOOLEAN :
          live' = live \ {r} /\ failed' = IF done THEN failed \ {r} ELSE failed
  BY ZenonT(60) DEF RetryFailedLaunchCleanup
<1>2. /\ stage = "idle"
      /\ UNCHANGED <<active, session, who, stage, owners, unpublished, cleanup,
                     logout, keychain, told, prepared, worker, prompt, inbox>>
  BY DEF RetryFailedLaunchCleanup
<1>3. TreesOwned'
  BY ZenonT(60), <1>1, <1>2 DEF SessionInv, TreesOwned, Own, Pending
<1>4. SessionTypes' /\ StageSound' /\ ConsentGated'
  BY <1>2 DEF SessionInv, SessionTypes, StageSound, ConsentGated
<1> QED BY <1>3, <1>4 DEF SessionInv

LEMMA LogoutKeeps == ASSUME SessionInv, LogoutStep PROVE SessionInv'
<1> DEFINE r == Head(logout.plan)
           acked == logout.acked \/ r.image = "binder"
<1>1. PICK t \in TerminateOwnedRoot(r) :
            /\ live' = t.live /\ owners' = t.owners
            /\ IF t.done /\ Len(logout.plan) = 1
                 THEN /\ logout' = NoLogout /\ active' = 0
                      /\ stage' = IF MayLogIn /\ session < MaxSession
                                    THEN "login" ELSE "idle"
                 ELSE /\ logout' = [logout EXCEPT !.acked = acked,
                                      !.plan = IF t.done THEN Tail(@) ELSE @]
                      /\ UNCHANGED <<active, stage>>
  BY Zenon DEF LogoutStep
<1>2. /\ stage = "idle" /\ logout.on
      /\ UNCHANGED <<session, who, unpublished, cleanup, failed, keychain, told,
                     prepared, worker, prompt, inbox>>
  BY DEF LogoutStep
<1>3. /\ t.done \in BOOLEAN /\ t.live \subseteq live
      /\ DOMAIN t.owners \subseteq DOMAIN owners
      /\ DOMAIN owners \subseteq DOMAIN t.owners \cup {r}
      /\ t.done => r \notin DOMAIN t.owners /\ r \notin t.live
      /\ ~t.done => DOMAIN t.owners = DOMAIN owners
  BY Terminates
<1>4. logout.plan \in Seq(Trees) /\ logout.plan # <<>> /\ active # 0
      /\ logout \in [on : BOOLEAN, plan : Seq(Trees), acked : BOOLEAN]
      /\ Own(DOMAIN owners) \subseteq Range(logout.plan) /\ ~told.on
  BY <1>2 DEF SessionInv, SessionTypes, TreesOwned, ConsentGated
<1>5. /\ Tail(logout.plan) \in Seq(Trees) /\ Range(logout.plan) \subseteq Range(Tail(logout.plan)) \cup {r}
      /\ Len(logout.plan) = 1 => Range(logout.plan) \subseteq {r}
      /\ Len(logout.plan) # 1 => Tail(logout.plan) # <<>>
  BY <1>4, TailNames
<1>6. acked \in BOOLEAN
  BY <1>4
<1> HIDE DEF r, acked
<1>7. Own(live') \subseteq DOMAIN owners' \cup failed'
  BY <1>1, <1>2, <1>3 DEF SessionInv, TreesOwned, Own
<1>8. \A q \in Own(live' \cup DOMAIN owners' \cup failed') : q \in Trees /\ q.n = session'
  BY <1>1, <1>2, <1>3 DEF SessionInv, TreesOwned, Own
<1>9. CASE t.done /\ Len(logout.plan) = 1
  <2>1. /\ logout' = NoLogout /\ active' = 0 /\ stage' \in {"login", "idle"}
        /\ stage' = "login" => MayLogIn
    BY <1>1, <1>9
  <2>2. Own(DOMAIN owners') = {}
    BY ZenonT(60), <1>1, <1>3, <1>4, <1>5, <1>9 DEF Own
  <2>3. NoLogout \in [on : BOOLEAN, plan : Seq(Trees), acked : BOOLEAN] /\ ~NoLogout.on
    BY DEF NoLogout
  <2>4. SessionTypes'
    BY ZenonT(60), <1>2, <2>1, <2>3 DEF SessionInv, SessionTypes
  <2>5. TreesOwned'
    BY ZenonT(60), <1>7, <1>8, <2>1, <2>2, <2>3 DEF TreesOwned
  <2>6. stage' = "login" => MayLogIn' /\ Own(live' \cup DOMAIN owners') = {}
    BY ZenonT(60), <1>2, <1>7, <2>1, <2>2 DEF MayLogIn, Own
  <2>7. StageSound' /\ ConsentGated'
    BY <1>2, <1>4, <2>1, <2>6 DEF SessionInv, StageSound, ConsentGated, MayLogIn
  <2> QED BY <2>4, <2>5, <2>7 DEF SessionInv
<1>10. CASE ~(t.done /\ Len(logout.plan) = 1)
  <2>1. /\ logout' = [logout EXCEPT !.acked = acked, !.plan = IF t.done THEN Tail(@) ELSE @]
        /\ UNCHANGED <<active, stage>>
    BY <1>1, <1>10
  <2>2. /\ logout' \in [on : BOOLEAN, plan : Seq(Trees), acked : BOOLEAN] /\ logout'.on
        /\ logout'.plan = IF t.done THEN Tail(logout.plan) ELSE logout.plan
    BY Zenon, <1>2, <1>4, <1>5, <1>6, <2>1
  <2>3. logout'.plan # <<>> /\ Own(DOMAIN owners') \subseteq Range(logout'.plan)
    BY ZenonT(60), <1>1, <1>3, <1>4, <1>5, <1>10, <2>2 DEF Own
  <2>4. SessionTypes'
    BY <1>2, <2>1, <2>2 DEF SessionInv, SessionTypes
  <2>5. TreesOwned'
    BY Zenon, <1>2, <1>4, <1>7, <1>8, <2>1, <2>3 DEF TreesOwned
  <2>6. StageSound' /\ ConsentGated'
    BY ZenonT(60), <1>2, <1>4, <2>1 DEF SessionInv, StageSound, ConsentGated
  <2> QED BY <2>4, <2>5, <2>6 DEF SessionInv
<1> QED BY SMTT(60), <1>9, <1>10

LEMMA LaunchOutcome ==
  ASSUME NEW r, NEW l \in Launch(r)
  PROVE  /\ l.ok \in BOOLEAN
         /\ l.failed \subseteq failed \cup {r} /\ failed \subseteq l.failed
         /\ l.live \subseteq live \cup {r} /\ live \subseteq l.live
         /\ l.live # live => l.ok \/ r \in l.failed
         /\ l.ok => l.failed = failed
<1>1. CASE l = [ok |-> FALSE, failed |-> failed, live |-> live]
  BY <1>1
<1>2. CASE l = [ok |-> TRUE, failed |-> failed, live |-> live \cup {r}]
  BY <1>2
<1>3. CASE l = [ok |-> FALSE, failed |-> failed \cup {r}, live |-> live \cup {r}]
  BY <1>3
<1> QED BY <1>1, <1>2, <1>3 DEF Launch

LEMMA ActivatedOutcome ==
  ASSUME NEW u \in User, NEW k \in Activated(keychain, u),
         keychain \in [up : BOOLEAN, user : User \cup {Nobody}]
  PROVE  /\ k.k \in [up : BOOLEAN, user : User \cup {Nobody}]
         /\ k.ok => k.k.user = u
<1>1. CASE k = [k |-> keychain, ok |-> FALSE]
  BY <1>1
<1>2. CASE \E b \in BOOLEAN : k = [k |-> [keychain EXCEPT !.user = u], ok |-> b]
  BY <1>2
<1> QED BY <1>1, <1>2 DEF Activated

LEMMA AuthenticateKeeps == ASSUME SessionInv, AuthenticateNext PROVE SessionInv'
<1>1. /\ stage = "login"
      /\ UNCHANGED <<active, live, owners, unpublished, cleanup, logout, told,
                     prepared, worker, prompt, inbox>>
  BY DEF AuthenticateNext
<1>2. /\ active = 0 /\ failed = {} /\ cleanup = <<>> /\ unpublished = <<>>
      /\ Own(live \cup DOMAIN owners) = {} /\ ~told.on /\ ~logout.on
  BY Zenon, <1>1 DEF SessionInv, StageSound, MayLogIn, TreesOwned
<1>3. Own(live) = {} /\ Own(DOMAIN owners) = {}
  BY <1>2 DEF Own
<1>4. CASE stage' = "idle" /\ UNCHANGED <<session, who>> /\ Own(failed') = {}
           /\ keychain' \in [up : BOOLEAN, user : User \cup {Nobody}]
  <2>1. Own(live \cup DOMAIN owners \cup failed') = {}
    BY ZenonT(60), <1>2, <1>4 DEF Own
  <2>2. SessionTypes'
    BY <1>1, <1>4 DEF SessionInv, SessionTypes
  <2>3. TreesOwned'
    BY Zenon, <1>1, <1>2, <1>3, <2>1 DEF TreesOwned
  <2>4. StageSound' /\ ConsentGated'
    BY ZenonT(60), <1>1, <1>2, <1>4 DEF StageSound, ConsentGated
  <2> QED BY ZenonT(60), <2>2, <2>3, <2>4 DEF SessionInv
<1>5. ASSUME NEW l \in Launch(SecureUi), failed' = l.failed PROVE Own(failed') = {}
  BY <1>2, <1>5, LaunchOutcome DEF Own, SecureUi, Root
<1>6. Own(failed) = {}
  BY ZenonT(60), <1>2 DEF Own
<1>7. CASE /\ \E l \in Launch(SecureUi) : ~ l.ok /\ failed' = l.failed
           /\ stage' = "idle" /\ UNCHANGED <<session, who, keychain>>
  BY ZenonT(60), <1>4, <1>5, <1>7 DEF SessionInv, SessionTypes
<1>8. CASE stage' = "idle" /\ UNCHANGED <<session, who, keychain, failed>>
  BY <1>4, <1>6, <1>8 DEF SessionInv, SessionTypes
<1>9. ASSUME NEW u \in User, NEW k \in Activated(keychain, u),
             keychain' = k.k, UNCHANGED failed,
             IF k.ok
               THEN stage' = "workspace" /\ session' = session + 1 /\ who' = u
               ELSE stage' = "idle" /\ UNCHANGED <<session, who>>
      PROVE  SessionInv'
  <2>1. /\ keychain' \in [up : BOOLEAN, user : User \cup {Nobody}]
        /\ k.ok => keychain'.user = u
    BY ZenonT(60), <1>9, ActivatedOutcome DEF SessionInv, SessionTypes
  <2>2. CASE ~ k.ok
    BY ZenonT(60), <1>4, <1>6, <1>9, <2>1, <2>2
  <2>3. CASE k.ok
    <3>1. stage' = "workspace" /\ session' = session + 1 /\ who' = u /\ keychain'.user = u
      BY ZenonT(60), <1>9, <2>1, <2>3
    <3>2. SessionTypes'
      BY <1>1, <1>2, <2>1, <3>1 DEF SessionInv, SessionTypes
    <3>3. Own(live \cup DOMAIN owners \cup failed) = {}
      BY <1>2 DEF Own
    <3>4. TreesOwned'
      BY Zenon, <1>1, <1>2, <1>3, <1>9, <3>3 DEF TreesOwned
    <3>5. StageSound' /\ ConsentGated'
      BY Zenon, <1>1, <1>2, <1>9, <3>1 DEF StageSound, ConsentGated, MayLogIn
    <3> QED BY ZenonT(60), <3>2, <3>4, <3>5 DEF SessionInv
  <2> QED BY ZenonT(60), <2>2, <2>3
<1> QED BY ZenonT(60), <1>7, <1>8, <1>9 DEF AuthenticateNext

\* A launch accounts for its tree, in the owners or in what is rolled back.
LEMMA LaunchOwned ==
  ASSUME SessionInv, NEW image \in Images, NEW l \in Launch(Root(session, image)),
         LaunchImage(image, l)
  PROVE  /\ Root(session, image) \in Trees
         /\ DOMAIN owners' = IF l.ok THEN DOMAIN owners \cup {Root(session, image)} ELSE DOMAIN owners
         /\ Own(live') \subseteq DOMAIN owners' \cup failed'
         /\ \A r \in Own(live' \cup DOMAIN owners' \cup failed') : r \in Trees /\ r.n = session
<1> DEFINE R == Root(session, image)
<1>1. R \in Trees /\ R.n = session
  BY DEF Root, Trees, SessionInv, SessionTypes
<1>2. DOMAIN owners' = IF l.ok THEN DOMAIN owners \cup {R} ELSE DOMAIN owners
  BY DEF LaunchImage
<1>3. failed' = l.failed /\ live' = l.live
  BY ZenonT(60) DEF LaunchImage
<1>4. /\ l.ok \in BOOLEAN
      /\ l.failed \subseteq failed \cup {R} /\ failed \subseteq l.failed
      /\ l.live \subseteq live \cup {R} /\ live \subseteq l.live
      /\ l.live # live => l.ok \/ R \in l.failed
  BY ZenonT(60), LaunchOutcome
<1> HIDE DEF R
<1>5. Own(live') \subseteq DOMAIN owners' \cup failed'
  BY ZenonT(60), <1>2, <1>3, <1>4 DEF SessionInv, TreesOwned, Own
<1>6. \A r \in Own(live' \cup DOMAIN owners' \cup failed') : r \in Trees /\ r.n = session
  BY ZenonT(60), <1>1, <1>2, <1>3, <1>4 DEF SessionInv, TreesOwned, Own
<1> QED BY ZenonT(60), <1>1, <1>2, <1>5, <1>6 DEF R

\* While a launch is under way there is no session, no logout and no consent.
LEMMA LaunchingAlone ==
  ASSUME SessionInv, stage \in {"workspace", "linux", "binder"}
  PROVE  /\ active = 0 /\ cleanup = <<>> /\ ~logout.on /\ ~told.on
         /\ Own(DOMAIN owners) \subseteq Range(unpublished)
         /\ keychain.up => keychain.user = who
<1>1. Range(<<>>) = {}
  BY DEF Range
<1> QED BY <1>1 DEF SessionInv, StageSound, TreesOwned, Pending

\* What was launched is in the list that is published or torn down.
LEMMA LaunchListed ==
  ASSUME SessionInv, NEW image \in Images, NEW l \in Launch(Root(session, image)),
         LaunchImage(image, l), stage \in {"workspace", "linux", "binder"}
  PROVE  /\ Launched(image, l) \in Seq(Trees) /\ Reversed(Launched(image, l)) \in Seq(Trees)
         /\ Own(DOMAIN owners') \subseteq Range(Launched(image, l))
         /\ Range(Reversed(Launched(image, l))) = Range(Launched(image, l))
<1> DEFINE R == Root(session, image)
<1>1. R \in Trees /\ DOMAIN owners' = IF l.ok THEN DOMAIN owners \cup {R} ELSE DOMAIN owners
  BY Zenon, LaunchOwned
<1>2. Own(DOMAIN owners) \subseteq Range(unpublished) /\ unpublished \in Seq(Trees)
  BY LaunchingAlone DEF SessionInv, SessionTypes
<1>3. Launched(image, l) = IF l.ok THEN Append(unpublished, R) ELSE unpublished
  BY ZenonT(60) DEF Launched
<1> HIDE DEF R
<1>4. Append(unpublished, R) \in Seq(Trees) /\ Range(Append(unpublished, R)) = Range(unpublished) \cup {R}
  BY ZenonT(60), <1>1, <1>2, AppendNames
<1>5. Launched(image, l) \in Seq(Trees) /\ Own(DOMAIN owners') \subseteq Range(Launched(image, l))
  BY <1>1, <1>2, <1>3, <1>4 DEF Own
<1> QED BY <1>5, ReversedNames

LEMMA NoNames == <<>> \in Seq(Trees) /\ Range(<<>>) = {}
BY DEF Range

LEMMA WorkspaceKeeps == ASSUME SessionInv, LaunchWorkspace PROVE SessionInv'
<1>1. PICK l \in Launch(Root(session, "workspace")), ready \in BOOLEAN :
          /\ LaunchImage("workspace", l)
          /\ IF l.ok /\ ready
               THEN /\ unpublished' = Launched("workspace", l) /\ stage' = "linux"
                    /\ UNCHANGED cleanup
               ELSE /\ ScheduleFailedSessionCleanup(Launched("workspace", l))
                    /\ stage' = "idle"
  BY ZenonT(60) DEF LaunchWorkspace
<1>2. /\ stage = "workspace"
      /\ UNCHANGED <<active, session, who, logout, keychain, told, prepared,
                     worker, prompt, inbox>>
  BY DEF LaunchWorkspace
<1>3. "workspace" \in Images
  BY ZenonT(60) DEF Images
<1>4. /\ active = 0 /\ cleanup = <<>> /\ ~logout.on /\ ~told.on
      /\ keychain.up => keychain.user = who
  BY SMTT(60), <1>2, LaunchingAlone
<1>5. /\ Own(live') \subseteq DOMAIN owners' \cup failed'
      /\ \A r \in Own(live' \cup DOMAIN owners' \cup failed') : r \in Trees /\ r.n = session
  BY Zenon, <1>1, <1>3, LaunchOwned
<1>6. /\ Launched("workspace", l) \in Seq(Trees) /\ Reversed(Launched("workspace", l)) \in Seq(Trees)
      /\ Own(DOMAIN owners') \subseteq Range(Launched("workspace", l))
      /\ Range(Reversed(Launched("workspace", l))) = Range(Launched("workspace", l))
  BY <1>1, <1>2, <1>3, LaunchListed
<1>7. /\ cleanup' \in Seq(Trees) /\ unpublished' \in Seq(Trees)
      /\ Own(DOMAIN owners') \subseteq Range(cleanup') \cup Range(unpublished')
      /\ stage' \in {"linux", "idle"} /\ (stage' = "linux" => cleanup' = <<>>)
  BY ZenonT(60), <1>1, <1>4, <1>6, NoNames DEF ScheduleFailedSessionCleanup
<1>8. SessionTypes'
  BY ZenonT(60), <1>2, <1>7 DEF SessionInv, SessionTypes
<1>9. TreesOwned'
  BY ZenonT(60), <1>2, <1>4, <1>5, <1>7 DEF TreesOwned, Pending
<1>10. StageSound' /\ ConsentGated'
  BY <1>2, <1>4, <1>7 DEF StageSound, ConsentGated
<1> QED BY ZenonT(60), <1>8, <1>9, <1>10 DEF SessionInv

LEMMA LinuxKeeps == ASSUME SessionInv, LaunchLinux PROVE SessionInv'
<1>1. PICK l \in Launch(Root(session, "linux")) :
          LaunchImage("linux", l) /\ unpublished' = Launched("linux", l)
  BY DEF LaunchLinux
<1>2. /\ stage = "linux" /\ stage' = "binder"
      /\ UNCHANGED <<active, session, who, cleanup, logout, keychain, told,
                     prepared, worker, prompt, inbox>>
  BY DEF LaunchLinux
<1>3. "linux" \in Images
  BY ZenonT(60) DEF Images
<1>4. /\ active = 0 /\ cleanup = <<>> /\ ~logout.on /\ ~told.on
      /\ keychain.up => keychain.user = who
  BY <1>2, LaunchingAlone
<1>5. /\ Own(live') \subseteq DOMAIN owners' \cup failed'
      /\ \A r \in Own(live' \cup DOMAIN owners' \cup failed') : r \in Trees /\ r.n = session
  BY Zenon, <1>1, <1>3, LaunchOwned
<1>6. unpublished' \in Seq(Trees) /\ Own(DOMAIN owners') \subseteq Range(unpublished')
  BY ZenonT(60), <1>1, <1>2, <1>3, LaunchListed
<1>7. SessionTypes'
  BY ZenonT(60), <1>2, <1>6 DEF SessionInv, SessionTypes
<1>8. TreesOwned'
  BY ZenonT(60), <1>2, <1>4, <1>5, <1>6 DEF TreesOwned, Pending
<1>9. StageSound' /\ ConsentGated'
  BY <1>2, <1>4 DEF StageSound, ConsentGated
<1> QED BY ZenonT(60), <1>7, <1>8, <1>9 DEF SessionInv

LEMMA BinderKeeps == ASSUME SessionInv, LaunchBinder PROVE SessionInv'
<1>1. PICK l \in Launch(Root(session, "binder")) :
          /\ LaunchImage("binder", l)
          /\ IF l.ok
               THEN /\ active' = session /\ unpublished' = <<>> /\ stage' = "publish"
                    /\ UNCHANGED cleanup
               ELSE /\ ScheduleFailedSessionCleanup(unpublished) /\ stage' = "idle"
                    /\ UNCHANGED active
  BY ZenonT(60) DEF LaunchBinder
<1>2. /\ stage = "binder"
      /\ UNCHANGED <<session, who, logout, keychain, told, prepared, worker,
                     prompt, inbox>>
  BY DEF LaunchBinder
<1>3. "binder" \in Images
  BY ZenonT(60) DEF Images
<1>4. /\ active = 0 /\ cleanup = <<>> /\ ~logout.on /\ ~told.on /\ session # 0
      /\ keychain.up => keychain.user = who
      /\ Own(DOMAIN owners) \subseteq Range(unpublished) /\ unpublished \in Seq(Trees)
  BY <1>2, LaunchingAlone DEF SessionInv, SessionTypes
<1>5. /\ Own(live') \subseteq DOMAIN owners' \cup failed'
      /\ DOMAIN owners' = IF l.ok THEN DOMAIN owners \cup {Root(session, "binder")} ELSE DOMAIN owners
      /\ \A r \in Own(live' \cup DOMAIN owners' \cup failed') : r \in Trees /\ r.n = session
  BY ZenonT(60), <1>1, <1>3, LaunchOwned
<1>6. Reversed(unpublished) \in Seq(Trees) /\ Range(Reversed(unpublished)) = Range(unpublished)
  BY ZenonT(60), <1>4, ReversedNames
<1>7. CASE l.ok
  <2>1. active' = session /\ unpublished' = <<>> /\ stage' = "publish" /\ cleanup' = <<>>
    BY ZenonT(60), <1>1, <1>4, <1>7
  <2>2. SessionTypes'
    BY SMTT(60), <1>2, <2>1, NoNames DEF SessionInv, SessionTypes
  <2>3. TreesOwned'
    BY ZenonT(60), <1>2, <1>4, <1>5, <2>1 DEF TreesOwned
  <2>4. StageSound' /\ ConsentGated'
    BY <1>2, <1>4, <2>1 DEF StageSound, ConsentGated
  <2> QED BY ZenonT(60), <2>2, <2>3, <2>4 DEF SessionInv
<1>8. CASE ~l.ok
  <2>1. active' = active /\ unpublished' = <<>> /\ stage' = "idle" /\ cleanup' = Reversed(unpublished)
        /\ DOMAIN owners' = DOMAIN owners
    BY ZenonT(60), <1>1, <1>5, <1>8 DEF ScheduleFailedSessionCleanup
  <2>2. SessionTypes'
    BY ZenonT(60), <1>2, <1>6, <2>1, NoNames DEF SessionInv, SessionTypes
  <2>3. Own(DOMAIN owners') \subseteq Range(cleanup')
    BY SMTT(60), <1>4, <1>6, <2>1
  <2>4. TreesOwned'
    BY Zenon, <1>2, <1>4, <1>5, <2>1, <2>3 DEF TreesOwned, Pending
  <2>5. StageSound' /\ ConsentGated'
    BY ZenonT(60), <1>2, <1>4, <2>1 DEF StageSound, ConsentGated
  <2> QED BY ZenonT(60), <2>2, <2>4, <2>5 DEF SessionInv
<1> QED BY ZenonT(60), <1>7, <1>8

LEMMA NativeOutcome ==
  ASSUME NEW n, NEW on \in BOOLEAN, NEW p0, NEW p \in Native(n, on, p0)
  PROVE  /\ p.c = told \/ p.c = [session |-> n, on |-> on]
         /\ p.ok => p.c = [session |-> n, on |-> on]
<1>1. CASE p = [c |-> told, ok |-> FALSE]
  BY ZenonT(60), <1>1
<1>2. CASE \E b \in BOOLEAN : p = [c |-> [session |-> n, on |-> on], ok |-> b]
  BY <1>2
<1> QED BY ZenonT(60), <1>1, <1>2 DEF Native, Published

LEMMA PublishKeeps == ASSUME SessionInv, PublishSession PROVE SessionInv'
<1>1. /\ stage = "publish" /\ stage' = "idle"
      /\ UNCHANGED <<active, session, who, live, owners, unpublished, cleanup, logout,
                     failed, keychain, worker, prompt, inbox>>
  BY DEF PublishSession
<1>2. told' = told \/ told' = [session |-> session, on |-> TRUE]
  BY Zenon, NativeOutcome DEF PublishSession
<1>3. active = session /\ active # 0 /\ ~logout.on /\ (keychain.up => keychain.user = who)
  BY ZenonT(60), <1>1 DEF SessionInv, SessionTypes, StageSound, TreesOwned
<1>4. SessionTypes'
  BY <1>1 DEF SessionInv, SessionTypes
<1>5. TreesOwned'
  BY Zenon, <1>1, <1>3 DEF SessionInv, TreesOwned, Pending
<1>6. StageSound' /\ ConsentGated'
  BY <1>1, <1>2, <1>3 DEF SessionInv, StageSound, ConsentGated
<1> QED BY ZenonT(60), <1>4, <1>5, <1>6 DEF SessionInv

Messages == [from : Nat \ {0}, kind : {"lock", "logout", "portal"}]

LEMMA TakeTyped ==
  ASSUME SessionInv, Take
  PROVE  inbox' \in Seq(Messages) /\ Head(inbox) \in Messages
<1>1. inbox \in Seq(Messages) /\ inbox # <<>> /\ inbox' = Tail(inbox)
  BY DEF SessionInv, SessionTypes, Take, Messages
<1> HIDE DEF Messages
<1> QED BY <1>1

\* A step that leaves the session, its trees and its consent as they are.
LEMMA QuietKeeps ==
  ASSUME SessionInv, inbox' \in Seq(Messages),
         UNCHANGED <<active, session, who, stage, live, owners, unpublished, cleanup,
                     logout, failed, keychain, told>>
  PROVE  SessionInv'
<1>1. SessionTypes'
  BY DEF SessionInv, SessionTypes, Messages
<1>2. TreesOwned'
  BY Zenon DEF SessionInv, TreesOwned, Pending
<1>3. StageSound' /\ ConsentGated'
  BY Zenon DEF SessionInv, StageSound, ConsentGated, MayLogIn
<1> QED BY ZenonT(60), <1>1, <1>2, <1>3 DEF SessionInv

LEMMA LockOutcome ==
  ASSUME NEW k \in LockKeychain, keychain \in [up : BOOLEAN, user : User \cup {Nobody}]
  PROVE  k.k \in [up : BOOLEAN, user : User \cup {Nobody}]
<1>1. CASE \E b \in BOOLEAN : k = [k |-> keychain, ok |-> b]
  BY <1>1
<1>2. CASE \E b \in BOOLEAN : k = [k |-> [keychain EXCEPT !.user = Nobody], ok |-> b]
  BY <1>2
<1> QED BY ZenonT(60), <1>1, <1>2 DEF LockKeychain

LEMMA RequestKeeps == ASSUME SessionInv, SessionRequest PROVE SessionInv'
<1> DEFINE m == Head(inbox)
           Begun == [on |-> TRUE, plan |-> TeardownPlan(active), acked |-> FALSE]
<1>1. /\ stage = "idle"
      /\ UNCHANGED <<active, session, who, live, owners, unpublished, cleanup, failed,
                     prepared, worker, prompt>>
  BY DEF SessionRequest
<1>2. inbox' \in Seq(Messages) /\ m \in Messages
  BY ZenonT(60), TakeTyped DEF SessionRequest
<1>3. active # 0 /\ active = session /\ ~logout.on
  BY ZenonT(60), <1>2 DEF SessionRequest, Accepted, Messages, SessionInv, SessionTypes
<1>4. PICK p \in Native(active, FALSE, prepared) :
        /\ told' = p.c
        /\ IF ~ p.ok THEN UNCHANGED <<keychain, stage, logout>>
           ELSE \E k \in LockKeychain :
                 /\ keychain' = k.k
                 /\ IF ~ k.ok THEN UNCHANGED <<stage, logout>>
                    ELSE IF m.kind = "lock" THEN stage' = "unlock" /\ UNCHANGED logout
                    ELSE logout' = Begun /\ UNCHANGED stage
  BY Zenon DEF SessionRequest, LeaveSession
<1>5. /\ p.c = told \/ p.c = [session |-> active, on |-> FALSE]
      /\ p.ok => p.c = [session |-> active, on |-> FALSE]
  BY Zenon, NativeOutcome
<1>6. /\ TeardownPlan(active) \in Seq(Trees) /\ TeardownPlan(active) # <<>>
      /\ \A r \in DOMAIN owners \cap Trees : r.n = active => r \in Range(TeardownPlan(active))
  BY ZenonT(60), <1>3, PlanNames DEF SessionInv, SessionTypes
<1>7. Own(DOMAIN owners) \subseteq Range(TeardownPlan(active))
  <2>1. \A r \in Own(DOMAIN owners) : r \in DOMAIN owners /\ r \in Trees /\ r.n = active
    BY SMTT(60), <1>3 DEF SessionInv, TreesOwned, Own
  <2> QED BY <1>6, <2>1
<1>8. /\ Begun \in [on : BOOLEAN, plan : Seq(Trees), acked : BOOLEAN]
      /\ Begun.on /\ Begun.plan = TeardownPlan(active)
  BY <1>6
<1> HIDE DEF m, Begun
<1>9. CASE ~ p.ok
  <2>1. UNCHANGED <<keychain, stage, logout>> /\ (told'.on => told' = told)
    BY SMTT(60), <1>4, <1>5, <1>9
  <2>2. SessionTypes'
    BY SMTT(60), <1>1, <1>2, <2>1 DEF SessionInv, SessionTypes, Messages
  <2>3. TreesOwned'
    BY Zenon, <1>1, <1>3, <2>1 DEF SessionInv, TreesOwned, Pending
  <2>4. StageSound' /\ ConsentGated'
    BY <1>1, <1>3, <2>1 DEF SessionInv, StageSound, ConsentGated
  <2> QED BY SMTT(60), <2>2, <2>3, <2>4 DEF SessionInv
<1>10. CASE p.ok
  <2>1. ~told'.on
    BY <1>4, <1>5, <1>10
  <2>2. PICK k \in LockKeychain :
                 /\ keychain' = k.k
                 /\ IF ~ k.ok THEN UNCHANGED <<stage, logout>>
                    ELSE IF m.kind = "lock" THEN stage' = "unlock" /\ UNCHANGED logout
                    ELSE logout' = Begun /\ UNCHANGED stage
    BY <1>4, <1>10
  <2>3. keychain' \in [up : BOOLEAN, user : User \cup {Nobody}]
    BY SMTT(60), <2>2, LockOutcome DEF SessionInv, SessionTypes
  <2>4. \/ UNCHANGED logout /\ stage' \in {"idle", "unlock"}
        \/ logout' = Begun /\ stage' = "idle"
    BY ZenonT(60), <1>1, <2>2
  <2>5. SessionTypes'
    BY ZenonT(60), <1>1, <1>2, <1>8, <2>3, <2>4 DEF SessionInv, SessionTypes, Messages
  <2>6. logout'.on => logout'.plan = TeardownPlan(active) /\ stage' = "idle"
    BY SMTT(60), <1>3, <1>8, <2>4
  <2>7. TreesOwned'
    BY ZenonT(60), <1>1, <1>3, <1>6, <1>7, <2>6 DEF SessionInv, TreesOwned, Pending
  <2>8. StageSound' /\ ConsentGated'
    BY ZenonT(60), <1>1, <1>3, <2>1, <2>4 DEF SessionInv, StageSound, ConsentGated
  <2> QED BY SMTT(60), <2>5, <2>7, <2>8 DEF SessionInv
<1> QED BY ZenonT(60), <1>9, <1>10

LEMMA UnlockKeeps == ASSUME SessionInv, Unlock PROVE SessionInv'
<1>1. /\ stage = "unlock" /\ stage' = "idle"
      /\ UNCHANGED <<active, session, who, live, owners, unpublished, cleanup, logout,
                     prepared, worker, prompt, inbox>>
  BY ZenonT(60) DEF Unlock
<1>2. active # 0 /\ ~logout.on /\ ~told.on /\ who \in User
      /\ keychain \in [up : BOOLEAN, user : User \cup {Nobody}]
  BY <1>1 DEF SessionInv, SessionTypes, StageSound, TreesOwned, ConsentGated
<1>3. ASSUME failed \subseteq failed', Own(failed') = Own(failed),
             keychain' \in [up : BOOLEAN, user : User \cup {Nobody}],
             told'.on => keychain'.user = who /\ told'.session = active
      PROVE  SessionInv'
  <2>1. SessionTypes'
    BY ZenonT(60), <1>1, <1>3 DEF SessionInv, SessionTypes
  <2>2. TreesOwned'
    BY ZenonT(60), <1>1, <1>2, <1>3 DEF SessionInv, TreesOwned, Pending, Own
  <2>3. StageSound' /\ ConsentGated'
    BY ZenonT(60), <1>1, <1>2, <1>3 DEF StageSound, ConsentGated
  <2> QED BY SMTT(60), <2>1, <2>2, <2>3 DEF SessionInv
<1>4. CASE /\ \E l \in Launch(SecureUi) : ~ l.ok /\ failed' = l.failed
           /\ UNCHANGED <<keychain, told>>
  <2>1. PICK l \in Launch(SecureUi) : failed' = l.failed
    BY ZenonT(60), <1>4
  <2>2. failed \subseteq failed' /\ failed' \subseteq failed \cup {SecureUi}
    BY ZenonT(60), <2>1, LaunchOutcome
  <2>3. Own(failed') = Own(failed)
    BY <2>2 DEF Own, SecureUi, Root
  <2> QED BY ZenonT(60), <1>2, <1>3, <1>4, <2>2, <2>3
<1>5. CASE UNCHANGED <<failed, keychain, told>>
  BY <1>2, <1>3, <1>5
<1>6. CASE /\ UNCHANGED failed
           /\ \E u \in {who} : \E k \in Activated(keychain, u) :
               /\ keychain' = k.k
               /\ IF k.ok THEN \E p \in Native(active, TRUE, prepared) : told' = p.c
                  ELSE UNCHANGED told
  <2>1. PICK k \in Activated(keychain, who) :
               /\ keychain' = k.k
               /\ IF k.ok THEN \E p \in Native(active, TRUE, prepared) : told' = p.c
                  ELSE UNCHANGED told
    BY ZenonT(60), <1>6
  <2>2. /\ keychain' \in [up : BOOLEAN, user : User \cup {Nobody}]
        /\ k.ok => keychain'.user = who
    BY ZenonT(60), <1>2, <2>1, ActivatedOutcome
  <2>3. CASE k.ok
    <3>1. told' = told \/ told' = [session |-> active, on |-> TRUE]
      BY ZenonT(60), <2>1, <2>3, NativeOutcome
    <3> QED BY <1>2, <1>3, <1>6, <2>2, <2>3, <3>1
  <2>4. CASE ~ k.ok
    BY ZenonT(60), <1>2, <1>3, <1>6, <2>1, <2>2, <2>4
  <2> QED BY <2>3, <2>4
<1> QED BY Zenon, <1>4, <1>5, <1>6 DEF Unlock

LEMMA PresenterKeeps == ASSUME SessionInv, MaintainPresenter \/ PresenterExits PROVE SessionInv'
<1>1. UNCHANGED <<active, session, who, stage, owners, unpublished, cleanup, logout,
                  keychain, told, prepared, prompt, inbox>>
  BY ZenonT(60) DEF MaintainPresenter, PresenterExits
<1>2. /\ live' \subseteq live \cup {Presenter} /\ live \ {Presenter} \subseteq live'
      /\ \/ failed' = failed
         \/ failed = {} /\ failed' = {Presenter} /\ stage = "idle"
  BY ZenonT(60) DEF MaintainPresenter, PresenterExits
<1>3. \A S, T : S \subseteq T \cup {Presenter} => Own(S) \subseteq Own(T)
  BY DEF Own, Presenter, Root
<1>4. /\ Own(live') \subseteq Own(live) /\ Own(live) \subseteq DOMAIN owners \cup failed
      /\ live' \cup DOMAIN owners \cup failed' \subseteq (live \cup DOMAIN owners \cup failed) \cup {Presenter}
      /\ live' \cup DOMAIN owners \subseteq (live \cup DOMAIN owners) \cup {Presenter}
  BY ZenonT(60), <1>2, <1>3 DEF SessionInv, TreesOwned
<1>5. /\ Own(live' \cup DOMAIN owners \cup failed') \subseteq Own(live \cup DOMAIN owners \cup failed)
      /\ Own(live' \cup DOMAIN owners) \subseteq Own(live \cup DOMAIN owners)
  BY ZenonT(60), <1>3, <1>4
<1>6. SessionTypes'
  BY SMTT(60), <1>1 DEF SessionInv, SessionTypes
<1>7. TreesOwned'
  <2>1. Own(live') \subseteq DOMAIN owners \cup failed'
    BY <1>2, <1>4
  <2> QED BY Zenon, <1>1, <1>5, <2>1 DEF SessionInv, TreesOwned, Pending
<1>8. StageSound' /\ ConsentGated'
  <2>1. stage \in {"login", "workspace"} => failed' = failed
    BY ZenonT(60), <1>2
  <2> QED BY Zenon, <1>1, <1>5, <2>1 DEF SessionInv, StageSound, ConsentGated, MayLogIn
<1> QED BY ZenonT(60), <1>6, <1>7, <1>8 DEF SessionInv

LEMMA KeychainExitKeeps == ASSUME SessionInv, KeychainExits PROVE SessionInv'
<1>1. /\ keychain' = [up |-> FALSE, user |-> Nobody]
      /\ UNCHANGED <<active, session, who, stage, live, owners, unpublished, cleanup,
                     logout, failed, told, prepared, worker, prompt, inbox>>
  BY ZenonT(60) DEF KeychainExits
<1>2. SessionTypes'
  BY <1>1 DEF SessionInv, SessionTypes
<1>3. TreesOwned'
  BY Zenon, <1>1 DEF SessionInv, TreesOwned, Pending
<1>4. StageSound' /\ ConsentGated'
  BY Zenon, <1>1 DEF SessionInv, StageSound, ConsentGated, MayLogIn
<1> QED BY ZenonT(60), <1>2, <1>3, <1>4 DEF SessionInv

LEMMA AskKeeps == ASSUME SessionInv, Ask PROVE SessionInv'
<1>1. PICK n \in 1 .. session, kind \in {"lock", "logout", "portal"} :
          inbox' = Append(inbox, [from |-> n, kind |-> kind])
  BY ZenonT(60) DEF Ask
<1>2. [from |-> n, kind |-> kind] \in Messages /\ inbox \in Seq(Messages)
  BY DEF Messages, SessionInv, SessionTypes
<1>3. inbox' \in Seq(Messages)
  BY SMTT(60), <1>1, <1>2
<1> QED BY ZenonT(60), <1>3, QuietKeeps DEF Ask

LEMMA QuietRequestsKeep ==
  ASSUME SessionInv, RefuseRequest \/ LoseRequest \/ PortalRequest PROVE SessionInv'
<1>1. inbox' \in Seq(Messages)
  BY TakeTyped DEF RefuseRequest, LoseRequest, PortalRequest
<1> QED BY ZenonT(60), <1>1, QuietKeeps DEF RefuseRequest, LoseRequest, PortalRequest

LEMMA SessionStarts == SessionInit => SessionInv
<1> SUFFICES ASSUME SessionInit PROVE SessionInv
  BY ZenonT(60)
<1>1. /\ session = 1 /\ who \in User /\ stage = "idle" /\ unpublished = <<>>
      /\ logout = NoLogout /\ failed = {} /\ inbox = <<>>
      /\ keychain = [up |-> TRUE, user |-> who] /\ DOMAIN owners = live
  BY ZenonT(60) DEF SessionInit
<1>2. /\ Own(live) \subseteq {Root(1, "workspace"), Root(1, "binder"), Root(1, "linux")}
      /\ \/ active = 1 /\ cleanup = <<>> /\ (told.on => told.session = 1)
         \/ /\ active = 0 /\ cleanup = <<Root(1, "workspace")>> /\ ~told.on
            /\ live = {Root(1, "workspace")}
  BY DEF SessionInit, Own, Root
<1>3. \A image \in Images : Root(1, image) \in Trees /\ Root(1, image).n = 1
  BY ZenonT(60) DEF Root, Trees
<1>4. Root(1, "workspace") \in Trees /\ Root(1, "binder") \in Trees /\ Root(1, "linux") \in Trees
  BY ZenonT(60), <1>3 DEF Images
<1>5. \A r \in Own(live) : r \in Trees /\ r.n = 1
  BY <1>2, <1>3 DEF Images
<1>6. cleanup \in Seq(Trees) /\ (active = 0 => live \subseteq Range(cleanup))
  <2>1. <<Root(1, "workspace")>> \in Seq(Trees)
    BY <1>4
  <2>2. Range(<<Root(1, "workspace")>>) = {Root(1, "workspace")}
    BY DEF Range
  <2>3. \/ cleanup = <<>> /\ active = 1
        \/ cleanup = <<Root(1, "workspace")>> /\ live = {Root(1, "workspace")}
    BY <1>2
  <2>4. cleanup \in Seq(Trees)
    BY Zenon, <2>1, <2>3, NoNames
  <2>5. 1 # 0
    OBVIOUS
  <2>6. active = 0 => live \subseteq Range(cleanup)
    BY ZenonT(60), <2>2, <2>3, <2>5
  <2> QED BY <2>4, <2>6
<1>7. NoLogout \in [on : BOOLEAN, plan : Seq(Trees), acked : BOOLEAN] /\ ~NoLogout.on
  BY DEF NoLogout
<1>8. SessionTypes
  BY SMTT(60), <1>1, <1>2, <1>6, <1>7, NoNames DEF SessionTypes
<1>9. Own(live \cup live \cup {}) = Own(live) /\ Own(live) \subseteq live
  BY ZenonT(60) DEF Own
<1>10. TreesOwned
  BY ZenonT(60), <1>1, <1>5, <1>6, <1>7, <1>9 DEF TreesOwned, Pending
<1>11. StageSound /\ ConsentGated
  BY SMTT(60), <1>1, <1>2, <1>7 DEF StageSound, ConsentGated
<1> QED BY <1>8, <1>10, <1>11 DEF SessionInv

LEMMA SessionStep == SessionInv /\ [SessionNext]_sessionVars => SessionInv'
<1> SUFFICES ASSUME SessionInv, [SessionNext]_sessionVars PROVE SessionInv'
  BY ZenonT(60)
<1>1. CASE UNCHANGED sessionVars
  BY ZenonT(60), <1>1, QuietKeeps DEF sessionVars, SessionInv, SessionTypes, Messages
<1>2. CASE RetryFailedSessionCleanup \/ RetryFailedLaunchCleanup \/ LogoutStep
  BY ZenonT(60), <1>2, RetryCleanupKeeps, RetryLaunchKeeps, LogoutKeeps
<1>3. CASE AuthenticateNext \/ LaunchWorkspace \/ LaunchLinux \/ LaunchBinder
  BY ZenonT(60), <1>3, AuthenticateKeeps, WorkspaceKeeps, LinuxKeeps, BinderKeeps
<1>4. CASE PublishSession \/ SessionRequest \/ Unlock
  BY ZenonT(60), <1>4, PublishKeeps, RequestKeeps, UnlockKeeps
<1>5. CASE RefuseRequest \/ LoseRequest \/ PortalRequest \/ Ask
  BY <1>5, QuietRequestsKeep, AskKeeps
<1>6. CASE MaintainPresenter \/ PresenterExits \/ KeychainExits
  BY <1>6, PresenterKeeps, KeychainExitKeeps
<1> QED BY ZenonT(60), <1>1, <1>2, <1>3, <1>4, <1>5, <1>6 DEF SessionNext

\* The loop always knows every tree of the session it runs, builds or ends, and
\* each stage finds what it relies on (bootstrap.rs resident).
THEOREM SessionInvariance == SessionSpec => []SessionInv
BY SessionStarts, SessionStep, PTL DEF SessionSpec

LEMMA InvIsolates == SessionInv => SessionsSound
<1> SUFFICES ASSUME SessionInv PROVE SessionsSound
  BY ZenonT(60)
<1> DEFINE own == Own(live \cup DOMAIN owners)
<1>1. own \cap live \subseteq DOMAIN owners \cup failed
  BY ZenonT(60) DEF SessionInv, TreesOwned, Own
<1>2. \A r \in own : r.n = session
  BY ZenonT(60) DEF SessionInv, TreesOwned, Own
<1>3. active = 0 => own \cap DOMAIN owners \subseteq Pending
  BY DEF SessionInv, TreesOwned, Own
<1>4. own \cap DOMAIN owners \subseteq {r \in own : r.n = active} \cup Pending
  BY ZenonT(60), <1>2, <1>3 DEF SessionInv, SessionTypes
<1>5. SessionsIsolated
  BY <1>1, <1>2, <1>4 DEF SessionsIsolated, Own
<1> QED BY <1>5 DEF SessionInv, SessionsSound

\* For any accounts and any number of sessions: no tree of a session is
\* forgotten or outlives it, two sessions never run at once, and consent is on
\* only for the session that is on, unlocked and not being ended
\* (bootstrap.rs resident, login_next_session; session_teardown.rs).
THEOREM SessionsStaySound == SessionSpec => []SessionsSound
BY SessionInvariance, InvIsolates, PTL

=============================================================================
