--------------------------- MODULE ServiceProofs ---------------------------
(***************************************************************************)
(* Proofs about the services that decide what the system runs: the         *)
(* installation of a new system (SystemUpdate) and the policy databases    *)
(* (PolicyStore), which must survive a loss of power at any step, the      *)
(* verification of packages (PackageVerify) and the certificate database it *)
(* rests on (TrustSync).                                                   *)
(***************************************************************************)
EXTENDS SystemUpdate, PolicyStore, PackageVerify, TrustSync, TLAPS

-----------------------------------------------------------------------------
(* Installing a system into the inactive slot.                             *)

SlotContents == [1 .. Chunks -> 0 .. MaxBuild]
Steps == {"fetch", "flush", "verify", "stage"}
Jobs == [step : Steps \cup {"none"}, build : 0 .. MaxBuild, next : Int, digest : BOOLEAN, tag : Tags]

\* A slot holds chunks of builds; the record names a slot to boot and at most one to try.
UpdateTypes ==
  /\ disk \in [Slots -> SlotContents]
  /\ cache \in [Slots -> SlotContents]
  /\ record \in [active : Slots, pending : Slots \cup {NoSlot}, attempts : Int]
  /\ sys \in [slot : Slots \cup {Off}, stage : {"off", "settling", "idle"}]
  /\ job \in Jobs

\* A record's slots are complete, and nothing written to them waits for a flush.
RecordSound ==
  /\ Complete(disk[record.active]) /\ cache[record.active] = disk[record.active]
  /\ record.pending # NoSlot =>
       /\ record.pending # record.active
       /\ Complete(disk[record.pending]) /\ cache[record.pending] = disk[record.pending]
       /\ BuildOf(disk[record.pending]) > BuildOf(disk[record.active])

\* The running system is one of those the record names; without one nothing is in flight.
SystemSound ==
  /\ sys.slot = Off => cache = disk /\ job = NoJob /\ sys.stage = "off"
  /\ sys.slot # Off => sys.slot \in {record.active, record.pending} /\ sys.stage # "off"

\* An installation writes to the slot the record does not name; from the flush on
\* the disk holds what is read, and what is staged is the newer image.
JobSound ==
  job # NoJob =>
    /\ job.step \in Steps /\ sys.stage = "idle"
    /\ record.active = sys.slot /\ record.pending = NoSlot
    /\ job.build \in 1 .. MaxBuild /\ job.build > BuildOf(cache[sys.slot])
    /\ job.step = "fetch" => job.next \in 1 .. Chunks
    /\ job.step \in {"verify", "stage"} => cache = disk
    /\ job.step = "stage" => Holds(cache[Other(sys.slot)], job.build)

UpdateInv == UpdateTypes /\ RecordSound /\ SystemSound /\ JobSound

LEMMA ImageTypes ==
  ASSUME NEW b \in 0 .. MaxBuild
  PROVE  /\ Image(b) \in SlotContents /\ BuildOf(Image(b)) = b
         /\ b # 0 => Complete(Image(b))
BY UpdateAssumption DEF Image, SlotContents, BuildOf, Complete, Holds

\* NoJob is a job, and one at any step differs from it.
LEMMA JobTypes ==
  /\ NoJob \in Jobs
  /\ \A j \in Jobs : j.step \in Steps => j # NoJob
BY UpdateAssumption DEF Jobs, NoJob, Steps, Tags, NoTag

LEMMA UpdateStarts == UpdateInit => UpdateInv
<1> SUFFICES ASSUME UpdateInit PROVE UpdateInv
  BY ZenonT(60)
<1>1. Image(1) \in SlotContents /\ Image(0) \in SlotContents /\ Complete(Image(1))
  BY UpdateAssumption, ImageTypes
<1>2. UpdateTypes
  BY <1>1, UpdateAssumption DEF UpdateInit, UpdateTypes, Slots, Garbage, NoSlot, Off, NoJob, NoTag,
     Tags, Steps, Jobs
<1>3. RecordSound /\ SystemSound /\ JobSound
  BY ZenonT(60), <1>1 DEF UpdateInit, RecordSound, SystemSound, JobSound, Slots, Garbage
<1> QED BY ZenonT(60), <1>2, <1>3 DEF UpdateInv

\* The boot loader picks a slot the record names.
LEMMA StartKeeps == ASSUME UpdateInv, Start PROVE UpdateInv'
BY DEF Start, UpdateInv, UpdateTypes, RecordSound, SystemSound, JobSound, NoSlot, Slots, Off, Other

\* What power loss may tear is the slot the system does not run from: either it
\* has nothing unwritten, or the record does not name it.
LEMMA PowerLossKeeps == ASSUME UpdateInv, PowerLoss PROVE UpdateInv'
<1> DEFINE t == Other(sys.slot)
<1>1. sys.slot \in Slots /\ t \in Slots /\ t # sys.slot
  BY ZenonT(60) DEF PowerLoss, UpdateInv, UpdateTypes, Slots, Other, Off
<1>2. PICK late \in SUBSET (1 .. Chunks) :
        disk' = [disk EXCEPT ![t] = [k \in 1 .. Chunks |-> IF k \in late THEN cache[t][k] ELSE disk[t][k]]]
  BY Zenon DEF PowerLoss
<1>3. cache' = disk' /\ record' = record /\ job' = NoJob /\ sys' = [slot |-> Off, stage |-> "off"]
  BY ZenonT(60) DEF PowerLoss
<1>4. disk' \in [Slots -> SlotContents]
  BY Zenon, <1>1, <1>2 DEF UpdateInv, UpdateTypes, SlotContents
<1>5. cache[t] = disk[t] => disk'[t] = disk[t]
  BY Zenon, <1>1, <1>2 DEF UpdateInv, UpdateTypes, SlotContents
<1>6. disk'[sys.slot] = disk[sys.slot]
  BY ZenonT(60), <1>1, <1>2 DEF UpdateInv, UpdateTypes
<1>7. \A s \in {record.active, record.pending} \ {NoSlot} : disk'[s] = disk[s]
  BY ZenonT(60), <1>1, <1>5, <1>6 DEF UpdateInv, UpdateTypes, RecordSound, Slots, NoSlot
<1>8. UpdateTypes'
  BY <1>3, <1>4, UpdateAssumption DEF UpdateInv, UpdateTypes, NoJob, NoTag, Tags, Steps, Jobs, Off
<1>9. RecordSound'
  BY ZenonT(60), <1>3, <1>7 DEF UpdateInv, UpdateTypes, RecordSound, Slots, NoSlot
<1> QED BY ZenonT(60), <1>3, <1>8, <1>9 DEF UpdateInv, SystemSound, JobSound

\* A confirmed trial makes the pending slot, which runs, the active one.
LEMMA ConfirmKeeps ==
  ASSUME UpdateInv, ConfirmFails \/ ConfirmTrial
  PROVE  UpdateInv'
<1>1. /\ sys.stage = "settling" /\ sys' = [sys EXCEPT !.stage = "idle"]
      /\ \/ record' = record
         \/ /\ record.pending = sys.slot
            /\ record' = [active |-> sys.slot, pending |-> NoSlot, attempts |-> 0]
      /\ UNCHANGED <<disk, cache, job>>
  BY ZenonT(60) DEF ConfirmFails, ConfirmTrial
<1>2. job = NoJob /\ sys.slot \in Slots
  BY ZenonT(60), <1>1 DEF UpdateInv, UpdateTypes, JobSound, SystemSound
<1> QED BY <1>1, <1>2 DEF UpdateInv, UpdateTypes, RecordSound, SystemSound, JobSound, Slots, NoSlot, Off

\* Giving up leaves the slots and the record.
LEMMA TickKeeps == ASSUME UpdateInv, Tick PROVE UpdateInv'
<1>1. /\ sys.stage = "idle" /\ job = NoJob
      /\ UNCHANGED <<disk, cache, record, sys>>
  BY ZenonT(60) DEF Tick
<1> DEFINE Begins(b) ==
             /\ record.active = sys.slot /\ record.pending = NoSlot /\ ~ b <= CurrentBuild
             /\ job' = [step |-> "fetch", build |-> b, next |-> 1, digest |-> TRUE, tag |-> NoTag]
<1>2. job' = NoJob \/ \E b \in 1 .. MaxBuild : Begins(b)
  <2>1. ASSUME NEW r \in Responses, NEW b \in Poll(r), NEW q, InstallOffer(q[1], b, q[2])
        PROVE  job' = NoJob \/ \E c \in 1 .. MaxBuild : Begins(c)
    <3>1. b \in 1 .. MaxBuild
      BY Zenon, UpdateAssumption DEF Responses, Poll, CheckResponse
    <3>2. job' = NoJob \/ Begins(b)
      BY ZenonT(60), <2>1 DEF InstallOffer, GiveUp
    <3> QED BY ZenonT(60), <3>1, <3>2
  <2>2. UNCHANGED job \/ \E r \in Responses : \E b \in Poll(r) : \E q : InstallOffer(q[1], b, q[2])
    BY ZenonT(60) DEF Tick
  <2> HIDE DEF Begins
  <2> QED BY ZenonT(60), <1>1, <2>1, <2>2
<1>3. UpdateTypes'
  <2>1. NoJob \in Jobs
    BY ZenonT(60), JobTypes
  <2>2. ASSUME NEW b \in 1 .. MaxBuild, Begins(b) PROVE job' \in Jobs
    BY <2>2, UpdateAssumption DEF Jobs, Steps, Tags, NoTag
  <2> HIDE DEF Begins
  <2> QED BY ZenonT(60), <1>1, <1>2, <2>1, <2>2 DEF UpdateInv, UpdateTypes
<1>4. RecordSound' /\ (sys.slot # Off => SystemSound')
  BY ZenonT(60), <1>1 DEF UpdateInv, RecordSound, SystemSound
<1>5. sys.slot # Off
  BY ZenonT(60), <1>1 DEF UpdateInv, SystemSound
<1>6. JobSound'
  <2>1. ASSUME NEW b \in 1 .. MaxBuild, Begins(b) PROVE JobSound'
    <3>1. BuildOf(cache[sys.slot]) \in Int
      BY <1>5, UpdateAssumption DEF UpdateInv, UpdateTypes, SlotContents, BuildOf
    <3>2. b > BuildOf(cache[sys.slot])
      BY <2>1, <3>1, UpdateAssumption DEF CurrentBuild
    <3>3. /\ job'.step = "fetch" /\ job'.build = b /\ job'.next = 1
          /\ record.active = sys.slot /\ record.pending = NoSlot
      BY ZenonT(60), <2>1
    <3> HIDE DEF Begins
    <3> QED BY <1>1, <3>2, <3>3, UpdateAssumption DEF JobSound, Steps
  <2> HIDE DEF Begins
  <2> QED BY ZenonT(60), <1>2, <2>1 DEF JobSound
<1> QED BY ZenonT(60), <1>3, <1>4, <1>5, <1>6 DEF UpdateInv

\* What an installation at one of its steps may rely on.
LEMMA AtStep ==
  ASSUME UpdateInv, job.step \in Steps
  PROVE  /\ job # NoJob
         /\ record.active = sys.slot /\ record.pending = NoSlot /\ sys.stage = "idle"
         /\ job.build \in 1 .. MaxBuild /\ job.build > BuildOf(cache[sys.slot])
         /\ job.step = "fetch" => job.next \in 1 .. Chunks
         /\ job.step \in {"verify", "stage"} => cache = disk
         /\ job.step = "stage" => Holds(cache[Other(sys.slot)], job.build)
         /\ sys.slot \in Slots /\ Other(sys.slot) \in Slots /\ Other(sys.slot) # sys.slot
<1>1. job # NoJob
  BY ZenonT(60), JobTypes DEF UpdateInv, UpdateTypes
<1>2. sys.slot \in Slots
  BY ZenonT(60), <1>1 DEF UpdateInv, UpdateTypes, JobSound, Off, Slots
<1>3. Other(sys.slot) \in Slots /\ Other(sys.slot) # sys.slot
  BY ZenonT(60), <1>2 DEF Slots, Other
<1> QED BY ZenonT(60), <1>1, <1>2, <1>3 DEF UpdateInv, JobSound

\* A chunk goes to the slot the record does not name.
LEMMA FetchKeeps == ASSUME UpdateInv, FetchAndWrite PROVE UpdateInv'
<1> DEFINE t == Other(sys.slot)
<1>1. /\ job.step = "fetch" /\ job # NoJob /\ job.next \in 1 .. Chunks
      /\ record.active = sys.slot /\ record.pending = NoSlot /\ sys.stage = "idle"
      /\ job.build \in 1 .. MaxBuild /\ job.build > BuildOf(cache[sys.slot])
      /\ sys.slot \in Slots /\ t \in Slots /\ t # sys.slot
  BY ZenonT(60), AtStep DEF FetchAndWrite, Steps
<1>2. UNCHANGED <<disk, record, sys>>
  BY ZenonT(60) DEF FetchAndWrite
<1> DEFINE Writes(v) == cache' = [cache EXCEPT ![t][job.next] = v]
           Goes(d, g) == job' = [job EXCEPT !.next = job.next + 1, !.digest = d, !.tag = g,
                                            !.step = IF job.next = Chunks THEN "flush" ELSE "fetch"]
<1>3. /\ cache' = cache \/ \E v \in 0 .. MaxBuild : Writes(v)
      /\ job' = NoJob \/ \E d \in BOOLEAN, g \in Tags : Goes(d, g)
  <2>1. CASE job' = NoJob /\ UNCHANGED cache
    BY ZenonT(60), <2>1
  <2>2. CASE job' = NoJob /\ cache' \in {cache, [cache EXCEPT ![t][job.next] = Garbage]}
    <3>1. 0 \in 0 .. MaxBuild
      BY UpdateAssumption
    <3> QED BY ZenonT(60), <2>2, <3>1 DEF Garbage
  <2>3. ASSUME NEW got \in Fetch(job.tag, job.build), NEW cost \in {0, 1},
               cache' = [cache EXCEPT ![t][job.next] = IF cost = 0 THEN got.bytes ELSE Garbage],
               job' = [job EXCEPT !.next = job.next + 1, !.digest = @ /\ got.bytes = job.build,
                                  !.tag = got.tag,
                                  !.step = IF job.next = Chunks THEN "flush" ELSE "fetch"]
        PROVE  /\ \E v \in 0 .. MaxBuild : Writes(v)
               /\ \E d \in BOOLEAN, g \in Tags : Goes(d, g)
    <3>1. job.tag \in Tags /\ job.digest \in BOOLEAN
      BY ZenonT(60) DEF UpdateInv, UpdateTypes, Jobs
    <3>2. got.bytes \in 0 .. MaxBuild /\ got.tag \in Tags
      BY <1>1, <2>3, <3>1, UpdateAssumption DEF Fetch, Garbage
    <3>3. (IF cost = 0 THEN got.bytes ELSE Garbage) \in 0 .. MaxBuild
      BY <3>2, UpdateAssumption DEF Garbage
    <3>4. Goes(job.digest /\ got.bytes = job.build, got.tag)
      BY ZenonT(60), <2>3
    <3>5. (job.digest /\ got.bytes = job.build) \in BOOLEAN
      BY ZenonT(60)
    <3>6. Writes(IF cost = 0 THEN got.bytes ELSE Garbage)
      BY ZenonT(60), <2>3
    <3> HIDE DEF Writes, Goes
    <3> QED BY Zenon, <3>2, <3>3, <3>4, <3>5, <3>6
  <2> HIDE DEF Writes, Goes
  <2> QED BY Zenon, <2>1, <2>2, <2>3 DEF FetchAndWrite, GiveUp
<1>4. cache' \in [Slots -> SlotContents] /\ cache'[sys.slot] = cache[sys.slot]
  <2>1. ASSUME NEW v \in 0 .. MaxBuild, Writes(v)
        PROVE  cache' \in [Slots -> SlotContents] /\ cache'[sys.slot] = cache[sys.slot]
    BY ZenonT(60), <1>1, <2>1 DEF UpdateInv, UpdateTypes, SlotContents
  <2> HIDE DEF Writes
  <2> QED BY Zenon, <1>3, <2>1 DEF UpdateInv, UpdateTypes
<1>5. job' # NoJob => /\ job' \in Jobs /\ job'.build = job.build /\ job'.step \in {"fetch", "flush"}
                      /\ job'.step = "fetch" => job'.next \in 1 .. Chunks
  <2>1. ASSUME NEW d \in BOOLEAN, NEW g \in Tags, Goes(d, g)
        PROVE  /\ job' \in Jobs /\ job'.build = job.build /\ job'.step \in {"fetch", "flush"}
               /\ job'.step = "fetch" => job'.next = job.next + 1 /\ job.next # Chunks
    <3>1. job \in Jobs /\ job.next + 1 \in Int
      BY <1>1, UpdateAssumption DEF UpdateInv, UpdateTypes
    <3>2. job' \in Jobs
      BY Zenon, <2>1, <3>1 DEF Jobs, Steps
    <3>3. /\ job'.build = job.build /\ job'.next = job.next + 1
          /\ job'.step = IF job.next = Chunks THEN "flush" ELSE "fetch"
      BY ZenonT(60), <2>1, <3>1 DEF Jobs
    <3> QED BY ZenonT(60), <3>2, <3>3
  <2> HIDE DEF Goes
  <2>2. job' # NoJob => /\ job' \in Jobs /\ job'.build = job.build /\ job'.step \in {"fetch", "flush"}
                        /\ job'.step = "fetch" => job'.next = job.next + 1 /\ job.next # Chunks
    BY ZenonT(60), <1>3, <2>1
  <2> QED BY <1>1, <2>2, UpdateAssumption
<1>6. UpdateTypes'
  BY ZenonT(60), <1>2, <1>4, <1>5, JobTypes DEF UpdateInv, UpdateTypes
<1>7. RecordSound' /\ SystemSound'
  BY ZenonT(60), <1>1, <1>2, <1>4 DEF UpdateInv, UpdateTypes, RecordSound, SystemSound, Slots, Off
<1>8. JobSound'
  BY ZenonT(60), <1>1, <1>2, <1>4, <1>5 DEF JobSound, Steps
<1> QED BY ZenonT(60), <1>6, <1>7, <1>8 DEF UpdateInv

LEMMA FlushKeeps == ASSUME UpdateInv, Flush PROVE UpdateInv'
<1> DEFINE t == Other(sys.slot)
<1>1. /\ job.step = "flush" /\ job # NoJob
      /\ record.active = sys.slot /\ record.pending = NoSlot /\ sys.stage = "idle"
      /\ job.build \in 1 .. MaxBuild /\ job.build > BuildOf(cache[sys.slot])
      /\ sys.slot \in Slots /\ t \in Slots /\ t # sys.slot
  BY ZenonT(60), AtStep DEF Flush, Steps
<1>2. UNCHANGED <<cache, record, sys>>
  BY ZenonT(60) DEF Flush
<1>3. \/ disk' = disk /\ job' = NoJob
      \/ disk' = [disk EXCEPT ![t] = cache[t]] /\ job' = [job EXCEPT !.step = "verify"]
  BY ZenonT(60) DEF Flush, GiveUp
<1>4. disk' \in [Slots -> SlotContents] /\ disk'[sys.slot] = disk[sys.slot]
  BY ZenonT(60), <1>1, <1>3 DEF UpdateInv, UpdateTypes
<1>5. job' # NoJob => /\ cache' = disk' /\ job' \in Jobs
                      /\ job'.step = "verify" /\ job'.build = job.build
  <2> SUFFICES ASSUME disk' = [disk EXCEPT ![t] = cache[t]], job' = [job EXCEPT !.step = "verify"]
               PROVE  /\ \A s \in Slots : cache[s] = disk'[s]
                      /\ job' \in Jobs /\ job'.step = "verify" /\ job'.build = job.build
    BY ZenonT(60), <1>2, <1>3, <1>4 DEF UpdateInv, UpdateTypes
  <2>1. \A s \in Slots : s = t \/ s = sys.slot
    BY ZenonT(60), <1>1 DEF Slots
  <2>2. cache[sys.slot] = disk[sys.slot]
    BY ZenonT(60), <1>1 DEF UpdateInv, RecordSound
  <2>3. \A s \in Slots : cache[s] = disk'[s]
    BY ZenonT(60), <1>1, <1>4, <2>1, <2>2 DEF UpdateInv, UpdateTypes
  <2> QED BY ZenonT(60), <2>3 DEF UpdateInv, UpdateTypes, Jobs, Steps
<1>6. UpdateTypes'
  BY ZenonT(60), <1>2, <1>4, <1>5, JobTypes DEF UpdateInv, UpdateTypes
<1>7. RecordSound' /\ SystemSound'
  BY ZenonT(60), <1>1, <1>2, <1>4 DEF UpdateInv, UpdateTypes, RecordSound, SystemSound, Slots, Off
<1>8. JobSound'
  BY ZenonT(60), <1>1, <1>2, <1>5 DEF JobSound, Steps
<1> QED BY ZenonT(60), <1>6, <1>7, <1>8 DEF UpdateInv

LEMMA JudgeKeeps == ASSUME UpdateInv, Judge PROVE UpdateInv'
<1> DEFINE Passes == job' = [job EXCEPT !.step = "stage"] /\ Holds(cache[Other(sys.slot)], job.build)
<1>1. /\ job.step = "verify" /\ UNCHANGED <<disk, cache, record, sys>>
      /\ job' = NoJob \/ Passes
  BY ZenonT(60) DEF Judge, GiveUp, VerifyInstalled
<1>2. job # NoJob /\ cache = disk
  BY ZenonT(60), <1>1, AtStep DEF Steps
<1>3. job' # NoJob => /\ job' \in Jobs /\ job'.step = "stage" /\ job'.build = job.build
                      /\ Holds(cache[Other(sys.slot)], job.build)
  BY ZenonT(60), <1>1 DEF UpdateInv, UpdateTypes, Jobs, Steps
<1> HIDE DEF Passes
<1>4. UpdateTypes'
  BY ZenonT(60), <1>1, <1>3, JobTypes DEF UpdateInv, UpdateTypes
<1>5. RecordSound'
  BY ZenonT(60), <1>1 DEF UpdateInv, RecordSound
<1>6. SystemSound'
  BY ZenonT(60), <1>1, <1>2 DEF UpdateInv, SystemSound
<1>7. JobSound'
  BY ZenonT(60), <1>1, <1>2, <1>3 DEF UpdateInv, JobSound, Steps
<1> QED BY ZenonT(60), <1>4, <1>5, <1>6, <1>7 DEF UpdateInv

\* Only a complete, durable and newer image becomes pending.
LEMMA StageKeeps == ASSUME UpdateInv, Stage PROVE UpdateInv'
<1> DEFINE t == Other(sys.slot)
<1>1. /\ job.step = "stage" /\ job # NoJob /\ cache = disk /\ Holds(cache[t], job.build)
      /\ job.build \in 1 .. MaxBuild /\ job.build > BuildOf(cache[sys.slot])
      /\ record.active = sys.slot /\ record.pending = NoSlot /\ sys.stage = "idle"
      /\ sys.slot \in Slots /\ t \in Slots /\ t # sys.slot
  BY ZenonT(60), AtStep DEF Stage, Steps
<1>2. /\ UNCHANGED <<disk, cache, sys>> /\ job' = NoJob
      /\ \/ record' = record
         \/ record' = [record EXCEPT !.pending = t, !.attempts = MaxTrial]
  BY ZenonT(60) DEF Stage, GiveUp
<1>3. Complete(disk[t]) /\ BuildOf(disk[t]) = job.build
  BY <1>1, ImageTypes DEF Complete, Holds
<1>4. UpdateTypes'
  <2>1. record' \in [active : Slots, pending : Slots \cup {NoSlot}, attempts : Int]
    <3>1. MaxTrial \in Int
      BY UpdateAssumption
    <3> HIDE DEF t
    <3> QED BY Zenon, <1>1, <1>2, <3>1 DEF UpdateInv, UpdateTypes
  <2> QED BY ZenonT(60), <1>2, <2>1, JobTypes DEF UpdateInv, UpdateTypes
<1>5. RecordSound' /\ SystemSound'
  BY Zenon, <1>1, <1>2, <1>3 DEF UpdateInv, UpdateTypes, RecordSound, SystemSound, Slots, Off, NoSlot
<1> QED BY ZenonT(60), <1>2, <1>4, <1>5 DEF UpdateInv, JobSound

LEMMA UpdateStutters == ASSUME UpdateInv, Decide \/ UNCHANGED updateVars PROVE UpdateInv'
BY ZenonT(60) DEF Decide, updateVars, UpdateInv, UpdateTypes, RecordSound, SystemSound, JobSound

\* The inductive invariant: an image is written only to the slot the boot-state
\* record does not name, and named only once it is durable, complete and newer
\* (update/src/installer.rs install_verified, service.rs confirm_trial).
THEOREM UpdateInvariance == UpdateSpec => []UpdateInv
<1>1. UpdateInit => UpdateInv
  BY ZenonT(60), UpdateStarts
<1>2. UpdateInv /\ [UpdateNext]_updateVars => UpdateInv'
  BY ZenonT(60), StartKeeps, PowerLossKeeps, ConfirmKeeps, TickKeeps, FetchKeeps, FlushKeeps, JudgeKeeps,
     StageKeeps, UpdateStutters DEF UpdateNext
<1> QED BY <1>1, <1>2, PTL DEF UpdateSpec

\* Whatever fails, and whenever power goes, the machine has a system to boot
\* (AlwaysBootable; update/src/installer.rs), for every size of image, every
\* number of builds and trial boots and any number of failures.
THEOREM MachineBoots == UpdateSpec => []AlwaysBootable
<1>1. UpdateInv => AlwaysBootable
  BY ZenonT(60) DEF UpdateInv, UpdateTypes, RecordSound, SystemSound, AlwaysBootable, NoSlot, Slots, Off
<1> QED BY <1>1, UpdateInvariance, PTL

-----------------------------------------------------------------------------
(* The policy databases.                                                   *)

Files == (SUBSET Record) \cup {Absent, Torn}
Dirs == [current : Files, temporary : Files, previous : Files]
States == [d : Dirs, safe : SUBSET Dirs, fuse : Nat, how : {"error", "crash"},
           st : {"ok", "error", "crash"}]

\* A directory from which every record in K, and none outside A, is recovered.
Good(d, K, A) == d \in Dirs /\ K \subseteq Surviving(d) /\ Surviving(d) \subseteq A

\* A request in progress that has only left good directories behind.
Sound(s, K, A) ==
  /\ s \in States
  /\ s.d \in s.safe
  /\ \A d \in s.safe : Good(d, K, A)

\* A request that meets no failure.
Calm(s) == s.fuse = 0 /\ s.st = "ok"

\* What one step of a request makes of s: it leads to d, or fails and stands still.
Leads(s, t, d, K, A) ==
  /\ Sound(t, K, A)
  /\ t.st = "ok" => s.st = "ok" /\ t.d = d
  /\ t.st # "ok" => t.d = s.d
  /\ Calm(s) => Calm(t)

LEMMA OpSound ==
  ASSUME NEW K, NEW A, NEW s, Sound(s, K, A), NEW after, NEW d \in after,
         \A e \in after : Good(e, K, A)
  PROVE  /\ Leads(s, Op(s, d, after), d, K, A)
         /\ Op(s, d, after).safe = IF Op(s, d, after).st = "ok" THEN after ELSE s.safe
<1> DEFINE t == Op(s, d, after)
<1> SUFFICES Leads(s, t, d, K, A) /\ t.safe = IF t.st = "ok" THEN after ELSE s.safe
  BY ZenonT(60)
<1>1. s \in States /\ d \in Dirs /\ after \in SUBSET Dirs
  BY ZenonT(60) DEF Sound, Good
<1>2. CASE s.st # "ok"
  BY ZenonT(60), <1>2 DEF Op, Calm, Leads
<1>3. CASE s.st = "ok" /\ s.fuse = 1
  <2>1. t = [s EXCEPT !.fuse = 0, !.st = s.how]
    BY ZenonT(60), <1>3 DEF Op
  <2> HIDE DEF t
  <2>2. /\ t \in States /\ t.d = s.d /\ t.safe = s.safe /\ t.st # "ok"
    BY Zenon, <1>1, <2>1 DEF States
  <2> QED BY <1>3, <2>2 DEF Sound, Calm, Leads
<1>4. CASE s.st = "ok" /\ s.fuse # 1
  <2> DEFINE f == IF s.fuse = 0 THEN 0 ELSE s.fuse - 1
  <2>1. t = [s EXCEPT !.d = d, !.safe = after, !.fuse = f]
    BY ZenonT(60), <1>4 DEF Op
  <2>2. f \in Nat /\ (s.fuse = 0 => f = 0)
    BY <1>1, <1>4 DEF States
  <2> HIDE DEF f, t
  <2>3. t \in States /\ t.d = d /\ t.safe = after /\ t.st = "ok" /\ t.fuse = f
    BY Zenon, <1>1, <1>4, <2>1, <2>2 DEF States
  <2> QED BY ZenonT(60), <1>4, <2>2, <2>3 DEF Sound, Calm, Leads
<1> QED BY ZenonT(60), <1>2, <1>3, <1>4

LEMMA LookSound ==
  ASSUME NEW K, NEW A, NEW s, Sound(s, K, A)
  PROVE  Leads(s, Look(s), s.d, K, A) /\ Look(s).d = s.d /\ Look(s).safe = s.safe
<1>1. s.d \in s.safe /\ \A e \in s.safe : Good(e, K, A)
  BY ZenonT(60) DEF Sound
<1>2. /\ Leads(s, Look(s), s.d, K, A)
      /\ Look(s).safe = IF Look(s).st = "ok" THEN s.safe ELSE s.safe
  BY <1>1, OpSound DEF Look
<1> QED BY ZenonT(60), <1>2 DEF Leads

LEMMA ChangeSound ==
  ASSUME NEW K, NEW A, NEW s, Sound(s, K, A), NEW d, Good(d, K, A)
  PROVE  Leads(s, Change(s, d), d, K, A)
<1>1. d \in s.safe \cup {d} /\ \A e \in s.safe \cup {d} : Good(e, K, A)
  BY ZenonT(60) DEF Sound
<1> QED BY ZenonT(60), <1>1, OpSound DEF Change

LEMMA SyncSound ==
  ASSUME NEW K, NEW A, NEW s, Sound(s, K, A)
  PROVE  /\ Leads(s, SyncPolicyDir(s), s.d, K, A) /\ SyncPolicyDir(s).d = s.d
         /\ SyncPolicyDir(s).st = "ok" => SyncPolicyDir(s).safe = {s.d}
<1>1. s.d \in {s.d} /\ \A e \in {s.d} : Good(e, K, A)
  BY ZenonT(60) DEF Sound
<1>2. /\ Leads(s, SyncPolicyDir(s), s.d, K, A)
      /\ SyncPolicyDir(s).safe = IF SyncPolicyDir(s).st = "ok" THEN {s.d} ELSE s.safe
  BY <1>1, OpSound DEF SyncPolicyDir
<1> QED BY ZenonT(60), <1>2 DEF Leads

\* The directories the operations of recovery and replacement lead to.
LEMMA MovesGood ==
  ASSUME NEW K, NEW A, NEW d, Good(d, K, A), NEW c \in Files
  PROVE  /\ Good([d EXCEPT !.temporary = c], K, A)
         /\ d.current # Absent => Good([d EXCEPT !.previous = Absent], K, A)
         /\ d.current = Absent => Good([d EXCEPT !["current"] = d["previous"], !["previous"] = Absent], K, A)
         /\ d.current # Absent => Good([d EXCEPT !["previous"] = d["current"], !["current"] = Absent], K, A)
<1>1. Absent \in Files /\ d \in Dirs
  BY ZenonT(60) DEF Files, Good
<1> QED BY ZenonT(60), <1>1 DEF Good, Dirs, Surviving

\* recover_policy_file: what is recovered does not change, and when it succeeds
\* the current file holds it; with something to repair it is durable as well.
Recovers(s, t, K, A) ==
  /\ Sound(t, K, A)
  /\ t.st = "ok" => /\ s.st = "ok" /\ t.d.previous = Absent
                    /\ Records(t.d) = Surviving(s.d)
                    /\ s.d.previous # Absent => t.safe = {t.d}
                    /\ s.d.previous = Absent => t.safe = s.safe \/ t.safe = {t.d}
  /\ Calm(s) => Calm(t)

LEMMA RecoverSound ==
  ASSUME NEW K, NEW A, NEW s, Sound(s, K, A)
  PROVE  Recovers(s, RecoverPolicyFile(s), K, A)
<1> DEFINE looked == Look(Look(s))
           moved == IF s.d.current = Absent THEN Rename(looked, "previous", "current")
                    ELSE RemoveFile(looked, "previous")
           repaired == IF s.d.previous = Absent THEN looked ELSE SyncPolicyDir(moved)
           again == Look(repaired)
           cleared == SyncPolicyDir(RemoveFile(again, "temporary"))
<1>1. /\ Sound(looked, K, A) /\ looked.d = s.d /\ looked.safe = s.safe
      /\ looked.st = "ok" => s.st = "ok"
      /\ Calm(s) => Calm(looked)
  <2>1. Sound(Look(s), K, A)
    BY ZenonT(60), LookSound DEF Leads
  <2> QED BY ZenonT(60), <2>1, LookSound DEF Leads
<1> HIDE DEF looked
<1>2. Good(s.d, K, A)
  BY ZenonT(60) DEF Sound
<1>3. s.d.previous # Absent =>
        /\ Sound(moved, K, A)
        /\ moved.st = "ok" => /\ s.st = "ok" /\ moved.d.previous = Absent /\ moved.d.current = Surviving(s.d)
                              /\ moved.d.current # Absent
        /\ Calm(s) => Calm(moved)
  <2>1. CASE s.d.current = Absent /\ s.d.previous # Absent
    <3> DEFINE d == [s.d EXCEPT !["current"] = s.d["previous"], !["previous"] = Absent]
    <3>1. Good(d, K, A)
      BY Zenon, <1>2, <2>1, MovesGood DEF Files
    <3>2. d.previous = Absent /\ d.current = s.d.previous
      BY ZenonT(60), <1>2 DEF Good, Dirs
    <3>3. moved = Change(looked, d)
      BY ZenonT(60), <1>1, <2>1 DEF Rename
    <3> HIDE DEF d
    <3>4. Leads(looked, Change(looked, d), d, K, A)
      BY ZenonT(60), <1>1, <3>1, ChangeSound
    <3> HIDE DEF moved
    <3> QED BY ZenonT(60), <1>1, <2>1, <3>2, <3>3, <3>4 DEF Leads, Surviving
  <2>2. CASE s.d.current # Absent
    <3> DEFINE d == [s.d EXCEPT !["previous"] = Absent]
    <3>1. Good(d, K, A)
      BY Zenon, <1>2, <2>2, MovesGood DEF Files
    <3>2. d.previous = Absent /\ d.current = s.d.current
      BY ZenonT(60), <1>2 DEF Good, Dirs
    <3>3. moved = Change(looked, d)
      BY ZenonT(60), <1>1, <2>2 DEF RemoveFile
    <3> HIDE DEF d
    <3>4. Leads(looked, Change(looked, d), d, K, A)
      BY ZenonT(60), <1>1, <3>1, ChangeSound
    <3> HIDE DEF moved
    <3> QED BY ZenonT(60), <1>1, <2>2, <3>2, <3>3, <3>4 DEF Leads, Surviving
  <2> QED BY ZenonT(60), <2>1, <2>2
<1> HIDE DEF moved
<1>4. Recovers(s, repaired, K, A)
  <2>1. CASE s.d.previous = Absent
    BY ZenonT(60), <1>1, <2>1 DEF Recovers, Records, Surviving
  <2>2. CASE s.d.previous # Absent
    <3>1. Leads(moved, SyncPolicyDir(moved), moved.d, K, A) /\ SyncPolicyDir(moved).d = moved.d
          /\ (SyncPolicyDir(moved).st = "ok" => SyncPolicyDir(moved).safe = {moved.d})
      BY ZenonT(60), <1>3, <2>2, SyncSound
    <3> QED BY ZenonT(60), <1>3, <2>2, <3>1 DEF Leads, Recovers, Records
  <2> QED BY ZenonT(60), <2>1, <2>2
<1> HIDE DEF repaired
<1>5. Recovers(s, again, K, A)
  <2>1. Leads(repaired, again, repaired.d, K, A) /\ again.d = repaired.d /\ again.safe = repaired.safe
    BY ZenonT(60), <1>4, LookSound DEF Recovers
  <2> HIDE DEF again
  <2> QED BY ZenonT(60), <1>4, <2>1 DEF Leads, Recovers
<1> HIDE DEF again
<1>6. again.st = "ok" => Recovers(s, cleared, K, A)
  <2> SUFFICES ASSUME again.st = "ok" PROVE Recovers(s, cleared, K, A)
    BY ZenonT(60)
  <2> DEFINE d == [again.d EXCEPT !["temporary"] = Absent]
             less == RemoveFile(again, "temporary")
  <2>1. Good(again.d, K, A) /\ Sound(again, K, A)
    BY ZenonT(60), <1>5 DEF Recovers, Sound
  <2>2. Good(d, K, A)
    BY Zenon, <2>1, MovesGood DEF Files
  <2>3. d.previous = again.d.previous /\ d.current = again.d.current
    BY ZenonT(60), <2>1 DEF Good, Dirs
  <2>4. Leads(again, less, d, K, A)
    BY ZenonT(60), <2>1, <2>2, ChangeSound DEF RemoveFile
  <2> HIDE DEF d, less
  <2>5. Leads(less, cleared, less.d, K, A) /\ cleared.d = less.d
        /\ (cleared.st = "ok" => cleared.safe = {less.d})
    BY Zenon, <2>4, SyncSound DEF Leads, less
  <2> HIDE DEF cleared
  <2> QED BY ZenonT(60), <1>5, <2>3, <2>4, <2>5 DEF Leads, Recovers, Records
<1>7. RecoverPolicyFile(s) = IF again.st # "ok" \/ again.d.temporary = Absent THEN again ELSE cleared
  BY ZenonT(60) DEF RecoverPolicyFile, cleared, again, repaired, moved, looked
<1> QED BY ZenonT(60), <1>5, <1>6, <1>7

\* write_file: the temporary file only.
LEMMA WriteSound ==
  ASSUME NEW K, NEW A, NEW s, Sound(s, K, A), NEW bytes \in Files
  PROVE  /\ Sound(WriteFile(s, bytes), K, A)
         /\ WriteFile(s, bytes).st = "ok" =>
              s.st = "ok" /\ WriteFile(s, bytes).d = [s.d EXCEPT !.temporary = bytes]
<1> DEFINE torn == [s.d EXCEPT !.temporary = Torn]
           full == [s.d EXCEPT !.temporary = bytes]
           opened == Op(s, torn, s.safe \cup {torn})
           safe == (s.safe \ {torn}) \cup {full}
<1>1. Good(torn, K, A) /\ Good(full, K, A)
  BY Zenon, MovesGood DEF Sound, Files
<1>2. WriteFile(s, bytes) = Op(opened, full, safe)
  BY ZenonT(60) DEF WriteFile
<1> HIDE DEF torn, full
<1>3. Leads(s, opened, torn, K, A)
  BY ZenonT(60), <1>1, ChangeSound DEF Change
<1>4. full \in safe /\ \A e \in safe : Good(e, K, A)
  BY ZenonT(60), <1>1 DEF Sound
<1> HIDE DEF opened, safe
<1>5. Leads(opened, Op(opened, full, safe), full, K, A)
  BY <1>3, <1>4, OpSound DEF Leads
<1> QED BY ZenonT(60), <1>2, <1>3, <1>5 DEF Leads, full

LEMMA SetAsideSound ==
  ASSUME NEW K, NEW A, NEW s, Sound(s, K, A)
  PROVE  /\ Sound(SetAside(s), K, A)
         /\ SetAside(s).st = "ok" =>
              /\ s.st = "ok" /\ SetAside(s).d.current = Absent
              /\ SetAside(s).d.temporary = s.d.temporary
              /\ s.d.current # Absent => SetAside(s).d.previous = s.d.current
<1>1. CASE s.d.current = Absent
  BY ZenonT(60), <1>1 DEF SetAside
<1>2. CASE s.d.current # Absent
  <2> DEFINE d == [s.d EXCEPT !["previous"] = s.d["current"], !["current"] = Absent]
  <2>1. Good(d, K, A)
    BY Zenon, <1>2, MovesGood DEF Sound, Files
  <2>2. d.current = Absent /\ d.previous = s.d.current /\ d.temporary = s.d.temporary
    BY ZenonT(60) DEF Sound, Good, Dirs
  <2>3. SetAside(s) = Change(s, d)
    BY ZenonT(60), <1>2 DEF SetAside, Rename
  <2> HIDE DEF d
  <2> QED BY <2>1, <2>2, <2>3, ChangeSound DEF Leads
<1> QED BY ZenonT(60), <1>1, <1>2

\* The new file takes its name, or the old one is put back.
LEMMA InstallSound ==
  ASSUME NEW K, NEW A, NEW s, Sound(s, K, A), NEW had \in BOOLEAN,
         NEW bytes \in SUBSET Record, bytes # Absent, K \subseteq bytes, bytes \subseteq A,
         s.st = "ok" => /\ s.d.temporary = bytes /\ s.d.current = Absent
                        /\ had => s.d.previous # Absent
  PROVE  /\ Sound(Install(s, had), K, A)
         /\ Install(s, had).st = "ok" => s.st = "ok" /\ Install(s, had).d.current = bytes
<1> DEFINE placed == Rename(s, "temporary", "current")
<1>0. s \in States /\ s.d \in Dirs /\ Absent \in Files
  BY ZenonT(60) DEF Sound, States, Files
<1>1. CASE s.st # "ok"
  <2>1. placed = s
    BY ZenonT(60), <1>1 DEF Rename, Change, Op
  <2> QED BY ZenonT(60), <1>1, <2>1 DEF Install
<1>2. CASE s.st = "ok"
  <2> DEFINE d == [s.d EXCEPT !["current"] = s.d["temporary"], !["temporary"] = Absent]
  <2>1. d \in Dirs /\ d.current = bytes
    BY ZenonT(60), <1>0, <1>2 DEF Dirs
  <2>2. Good(d, K, A)
    BY ZenonT(60), <2>1 DEF Good, Surviving
  <2>3. placed = Change(s, d)
    BY ZenonT(60) DEF Rename
  <2> HIDE DEF d
  <2>4. Leads(s, placed, d, K, A)
    BY ZenonT(60), <2>2, <2>3, ChangeSound
  <2> HIDE DEF placed
  <2>5. CASE placed.st # "error"
    BY ZenonT(60), <1>2, <2>1, <2>4, <2>5 DEF Install, placed, Leads
  <2>6. CASE placed.st = "error"
    <3> DEFINE b == [placed.d EXCEPT !.current = s.d.previous, !.previous = Absent]
               back == IF had THEN [placed EXCEPT !.d = b] ELSE placed
               t == [back EXCEPT !.safe = {back.d}]
    <3>1. Install(s, had) = t
      BY ZenonT(60), <1>2, <2>6 DEF Install, placed
    <3>2. placed \in States /\ placed.d = s.d
      BY ZenonT(60), <2>4, <2>6 DEF Leads, Sound
    <3>3. had => Good(b, K, A)
      <4>1. Good([s.d EXCEPT !["current"] = s.d["previous"], !["previous"] = Absent], K, A)
        BY Zenon, <1>0, <1>2, MovesGood DEF Sound
      <4> QED BY Zenon, <3>2, <4>1
    <3> HIDE DEF b
    <3>4. back \in States /\ back.d \in Dirs /\ back.st = "error" /\ Good(back.d, K, A)
      BY ZenonT(60), <2>6, <3>2, <3>3 DEF States, Good, Sound
    <3> HIDE DEF back
    <3>5. t \in States /\ t.d = back.d /\ t.safe = {back.d} /\ t.st = "error"
      BY ZenonT(60), <3>4 DEF States
    <3> HIDE DEF t
    <3>6. Sound(t, K, A)
      BY ZenonT(60), <3>4, <3>5 DEF Sound
    <3> QED BY ZenonT(60), <3>1, <3>5, <3>6
  <2> QED BY ZenonT(60), <2>5, <2>6
<1> QED BY ZenonT(60), <1>1, <1>2

\* replace_policy_file: on success exactly the new contents, durably.
LEMMA ReplaceSound ==
  ASSUME NEW K, NEW A, NEW s, Sound(s, K, A),
         NEW bytes \in SUBSET Record, bytes # Absent, K \subseteq bytes, bytes \subseteq A
  PROVE  /\ Sound(ReplacePolicyFile(s, bytes), K, A)
         /\ ReplacePolicyFile(s, bytes).st = "ok" =>
              /\ ReplacePolicyFile(s, bytes).safe = {ReplacePolicyFile(s, bytes).d}
              /\ ReplacePolicyFile(s, bytes).d.current = bytes
<1> DEFINE fresh == WriteFile(RecoverPolicyFile(s), bytes)
           written == SyncPolicyDir(fresh)
           looked == Look(written)
           had == looked.d.current # Absent
           aside == SetAside(looked)
           named == Install(aside, had)
           placed == SyncPolicyDir(named)
           less == RemoveFile(placed, "previous")
<1>1. Sound(fresh, K, A) /\ (fresh.st = "ok" => fresh.d.temporary = bytes)
  <2>1. Sound(RecoverPolicyFile(s), K, A)
    BY ZenonT(60), RecoverSound DEF Recovers
  <2>2. /\ Sound(fresh, K, A)
        /\ fresh.st = "ok" => fresh.d = [RecoverPolicyFile(s).d EXCEPT !.temporary = bytes]
    BY <2>1, WriteSound DEF Files
  <2>3. RecoverPolicyFile(s).d \in Dirs
    BY ZenonT(60), <2>1 DEF Sound, States
  <2> QED BY ZenonT(60), <2>2, <2>3 DEF Dirs
<1> HIDE DEF fresh
<1>2. Sound(looked, K, A) /\ (looked.st = "ok" => looked.d.temporary = bytes)
  <2>1. Sound(written, K, A) /\ written.d = fresh.d /\ (written.st = "ok" => fresh.st = "ok")
    BY ZenonT(60), <1>1, SyncSound DEF Leads
  <2> HIDE DEF written
  <2> QED BY ZenonT(60), <1>1, <2>1, LookSound DEF Leads
<1> HIDE DEF looked
<1>3. /\ Sound(aside, K, A)
      /\ aside.st = "ok" => /\ aside.d.temporary = bytes /\ aside.d.current = Absent
                            /\ had => aside.d.previous # Absent
  BY ZenonT(60), <1>2, SetAsideSound
<1>4. had \in BOOLEAN
  BY ZenonT(60)
<1> HIDE DEF aside, had
<1>5. Sound(named, K, A) /\ (named.st = "ok" => named.d.current = bytes)
  BY <1>3, <1>4, InstallSound
<1> HIDE DEF named
<1>6. /\ Sound(placed, K, A)
      /\ placed.st = "ok" => placed.safe = {placed.d} /\ placed.d.current = bytes
  BY <1>5, SyncSound DEF Leads
<1> HIDE DEF placed
<1>7. placed.st = "ok" => /\ Sound(SyncPolicyDir(less), K, A)
                          /\ SyncPolicyDir(less).st = "ok" =>
                               /\ SyncPolicyDir(less).safe = {SyncPolicyDir(less).d}
                               /\ SyncPolicyDir(less).d.current = bytes
  <2> SUFFICES ASSUME placed.st = "ok"
               PROVE  /\ Sound(SyncPolicyDir(less), K, A)
                      /\ SyncPolicyDir(less).st = "ok" =>
                           /\ SyncPolicyDir(less).safe = {SyncPolicyDir(less).d}
                           /\ SyncPolicyDir(less).d.current = bytes
    BY ZenonT(60)
  <2> DEFINE d == [placed.d EXCEPT !["previous"] = Absent]
  <2>1. Good(d, K, A)
    BY Zenon, <1>6, MovesGood DEF Sound, Files
  <2>2. d.current = bytes
    BY ZenonT(60), <1>6 DEF Sound, States, Dirs
  <2>3. Leads(placed, less, d, K, A)
    BY ZenonT(60), <1>6, <2>1, ChangeSound DEF RemoveFile
  <2> HIDE DEF less, d
  <2> QED BY <2>2, <2>3, SyncSound DEF Leads
<1> HIDE DEF less
<1>8. ReplacePolicyFile(s, bytes) = IF placed.st = "ok" /\ had THEN SyncPolicyDir(less) ELSE placed
  BY ZenonT(60) DEF ReplacePolicyFile, less, placed, named, aside, had, looked, written, fresh
<1> QED BY ZenonT(60), <1>6, <1>7, <1>8

\* A request to keep record r: whatever it leaves is good, and when it answers
\* success everything it leaves holds r.
Keeps(t, r, K, A) == Sound(t, K, A) /\ (t.st = "ok" => Sound(t, K \cup {r}, A))

\* The file is read once it was repaired.
LEMMA ReadySound ==
  ASSUME NEW K, NEW A, NEW s, Sound(s, K, A)
  PROVE  Recovers(s, Look(RecoverPolicyFile(s)), K, A)
<1> DEFINE t == RecoverPolicyFile(s)
<1>1. Recovers(s, t, K, A)
  BY ZenonT(60), RecoverSound
<1> HIDE DEF t
<1>2. Leads(t, Look(t), t.d, K, A) /\ Look(t).d = t.d /\ Look(t).safe = t.safe
  BY ZenonT(60), <1>1, LookSound DEF Recovers
<1>3. Recovers(s, Look(t), K, A)
  BY ZenonT(60), <1>1, <1>2 DEF Recovers, Leads
<1> QED BY ZenonT(60), <1>3 DEF t

LEMMA AddSound ==
  ASSUME NEW K, NEW A \in SUBSET Record, NEW s, Sound(s, K, A), NEW r \in A,
         NEW ready, Recovers(s, ready, K, A), ready.st = "ok"
  PROVE  Keeps(ReplacePolicyFile(ready, Records(ready.d) \cup {r}), r, K, A)
<1> DEFINE bytes == Records(ready.d) \cup {r}
           t == ReplacePolicyFile(ready, bytes)
<1>1. K \subseteq bytes /\ bytes \subseteq A /\ r \in bytes
  BY DEF Recovers, Sound, Good
<1>2. bytes \in SUBSET Record /\ bytes # Absent
  BY ZenonT(60), <1>1, PolicyAssumption DEF Absent
<1> HIDE DEF bytes
<1>3. /\ Sound(t, K, A)
      /\ t.st = "ok" => t.safe = {t.d} /\ t.d.current = bytes
  BY <1>1, <1>2, ReplaceSound DEF Recovers
<1> HIDE DEF t
<1>4. t.st = "ok" => Sound(t, K \cup {r}, A)
  BY <1>1, <1>2, <1>3 DEF Sound, Good, Surviving
<1>5. Keeps(t, r, K, A)
  BY ZenonT(60), <1>3, <1>4 DEF Keeps
<1> QED BY ZenonT(60), <1>5 DEF t, bytes

LEMMA AppendSound ==
  ASSUME NEW K, NEW A \in SUBSET Record, NEW s, Sound(s, K, A), NEW r \in A
  PROVE  Keeps(AppendPersistentGrant(s, r), r, K, A)
<1> DEFINE ready == Look(RecoverPolicyFile(s))
<1>1. Recovers(s, ready, K, A)
  BY ZenonT(60), ReadySound
<1> HIDE DEF ready
<1>2. ready.st = "ok" => Keeps(ReplacePolicyFile(ready, Records(ready.d) \cup {r}), r, K, A)
  BY ZenonT(60), <1>1, AddSound
<1>3. ready.st # "ok" => Keeps(ready, r, K, A)
  BY ZenonT(60), <1>1 DEF Recovers, Keeps
<1> QED BY ZenonT(60), <1>2, <1>3 DEF AppendPersistentGrant, ready

\* remember answers success without writing when the record is there already; it
\* is durable unless an earlier sync failed.
LEMMA RememberSound ==
  ASSUME NEW K, NEW A \in SUBSET Record, NEW s, Sound(s, K, A), NEW r \in A
  PROVE  /\ Sound(Remember(s, r), K, A)
         /\ r \notin Records(s.d) \/ s.safe = {s.d} => Keeps(Remember(s, r), r, K, A)
<1> DEFINE ready == Look(RecoverPolicyFile(s))
           refused == [ready EXCEPT !.st = "error"]
           added == ReplacePolicyFile(ready, Records(ready.d) \cup {r})
<1>1. Recovers(s, ready, K, A)
  BY ZenonT(60), ReadySound
<1>2. ready.st = "ok" => Keeps(added, r, K, A)
  <2> HIDE DEF ready
  <2> QED BY ZenonT(60), <1>1, AddSound
<1>3. ASSUME ready.st = "ok", r \in Records(ready.d), r \notin Records(s.d) \/ s.safe = {s.d}
      PROVE  Sound(ready, K \cup {r}, A)
  <2>1. r \in Surviving(s.d)
    BY ZenonT(60), <1>1, <1>3 DEF Recovers
  <2>2. CASE s.safe = {s.d}
    <3>1. Sound(s, K \cup {r}, A)
      BY ZenonT(60), <2>1, <2>2 DEF Sound, Good
    <3> QED BY ZenonT(60), <3>1, ReadySound DEF Recovers
  <2>3. CASE r \notin Records(s.d)
    <3>1. s.d.previous # Absent
      BY ZenonT(60), <2>1, <2>3 DEF Records, Surviving
    <3>2. ready.safe = {ready.d} /\ ready.d.previous = Absent
      BY ZenonT(60), <1>1, <1>3, <3>1 DEF Recovers
    <3> HIDE DEF ready
    <3> QED BY ZenonT(60), <1>1, <1>3, <3>2 DEF Recovers, Sound, Good, Surviving, Records
  <2> QED BY ZenonT(60), <1>3, <2>2, <2>3
<1> HIDE DEF ready
<1>4. Sound(ready, K, A)
  BY ZenonT(60), <1>1 DEF Recovers
<1>5. Keeps(refused, r, K, A)
  <2>1. refused \in States /\ refused.d = ready.d /\ refused.safe = ready.safe /\ refused.st = "error"
    BY ZenonT(60), <1>4 DEF Sound, States
  <2> HIDE DEF refused
  <2> QED BY ZenonT(60), <1>4, <2>1 DEF Sound, Keeps
<1> HIDE DEF refused, added
<1>6. \/ ready.st # "ok" /\ Remember(s, r) = ready
      \/ Remember(s, r) = refused
      \/ ready.st = "ok" /\ r \in Records(ready.d) /\ Remember(s, r) = ready
      \/ ready.st = "ok" /\ Remember(s, r) = added
  BY ZenonT(60) DEF Remember, ready, refused, added
<1> QED BY ZenonT(60), <1>2, <1>3, <1>4, <1>5, <1>6 DEF Keeps

-----------------------------------------------------------------------------
\* Every directory a crash may leave is good; a look-up told the truth.
Held(present, left, K, A) ==
  /\ present \in left
  /\ \A d \in left : Good(d, K, A)

Told == verdict # NoVerdict => /\ verdict[1] \in kept => verdict[2]
                               /\ verdict[2] => verdict[1] \in asked

PolicyInv ==
  /\ which \in {"grants", "consents"} /\ asked \in SUBSET Record
  /\ Held(dir, durable, kept, asked)
  /\ Told

LEMMA StartingSound ==
  ASSUME NEW K, NEW A, Held(dir, durable, K, A), NEW f \in Failing
  PROVE  /\ Sound(Starting(f[1], f[2]), K, A)
         /\ Starting(f[1], f[2]).d = dir /\ Starting(f[1], f[2]).safe = durable
         /\ f[1] = 0 => Calm(Starting(f[1], f[2]))
<1>1. f[1] \in Nat /\ f[2] \in {"error", "crash"}
  BY PolicyAssumption DEF Failing
<1>2. durable \in SUBSET Dirs /\ dir \in Dirs
  BY ZenonT(60) DEF Held, Good
<1>3. Starting(f[1], f[2]) \in States
  BY ZenonT(60), <1>1, <1>2 DEF Starting, States
<1> QED BY ZenonT(60), <1>3 DEF Starting, Held, Sound, Calm

LEMMA FinishHeld ==
  ASSUME NEW K, NEW A, NEW s, Sound(s, K, A), Finish(s)
  PROVE  Held(dir', durable', K, A)
<1>1. CASE s.st = "crash"
  <2>1. PICK d \in s.safe : dir' = d /\ durable' = {d}
    BY ZenonT(60), <1>1 DEF Finish
  <2> QED BY ZenonT(60), <2>1 DEF Held, Sound, Good, Surviving
<1>2. CASE s.st # "crash"
  BY ZenonT(60), <1>2 DEF Finish, Held, Sound, Good, Surviving
<1> QED BY ZenonT(60), <1>1, <1>2

LEMMA GrantKeeps ==
  ASSUME PolicyInv, NEW r \in Record, Grant(r)
  PROVE  PolicyInv'
<1> DEFINE A == asked \cup {r}
<1>1. PICK f \in Failing :
        \E s \in {IF which = "grants" THEN AppendPersistentGrant(Starting(f[1], f[2]), r)
                  ELSE Remember(Starting(f[1], f[2]), r)} :
          /\ Finish(s)
          /\ kept' = IF s.st = "ok" /\ ~Unsettled(r) THEN kept \cup {r} ELSE kept
  BY ZenonT(60) DEF Grant
<1> DEFINE s0 == Starting(f[1], f[2])
           s == IF which = "grants" THEN AppendPersistentGrant(s0, r) ELSE Remember(s0, r)
<1>2. Finish(s) /\ kept' = IF s.st = "ok" /\ ~Unsettled(r) THEN kept \cup {r} ELSE kept
  BY ZenonT(60), <1>1
<1>3. asked' = A /\ verdict' = NoVerdict
  BY ZenonT(60) DEF Grant
<1>4. Held(dir, durable, kept, A) /\ A \in SUBSET Record /\ r \in A
  BY ZenonT(60) DEF PolicyInv, Held, Good
<1> HIDE DEF A
<1>5. Sound(s0, kept, A) /\ s0.d = dir /\ s0.safe = durable
  BY ZenonT(60), <1>4, StartingSound
<1> HIDE DEF s0
<1>6. which # "grants" /\ ~Unsettled(r) => r \notin Records(s0.d) \/ s0.safe = {s0.d}
  <2> SUFFICES ASSUME which # "grants", ~Unsettled(r), r \in Records(dir)
               PROVE  durable = {dir}
    BY ZenonT(60), <1>5
  <2> QED BY ZenonT(60) DEF Unsettled, Unsynced, PolicyInv
<1>7. Sound(s, kept, A) /\ (s.st = "ok" /\ ~Unsettled(r) => Sound(s, kept \cup {r}, A))
  BY Zenon, <1>4, <1>5, <1>6, AppendSound, RememberSound DEF Keeps
<1> HIDE DEF s
<1>8. Sound(s, kept', asked')
  BY ZenonT(60), <1>2, <1>3, <1>7
<1>9. Held(dir', durable', kept', asked')
  BY ZenonT(60), <1>2, <1>8, FinishHeld
<1>10. which' = which
  BY ZenonT(60) DEF Grant
<1> QED BY ZenonT(60), <1>3, <1>4, <1>9, <1>10 DEF PolicyInv, Told

LEMMA QueryKeeps ==
  ASSUME PolicyInv, NEW r \in Record, Query(r)
  PROVE  PolicyInv'
<1>1. PICK f \in Failing :
        \E s \in {Look(RecoverPolicyFile(Starting(f[1], f[2])))} :
          Finish(s) /\ verdict' = IF f[1] = 0 THEN <<r, Matches(s, r)>> ELSE NoVerdict
  BY ZenonT(60) DEF Query
<1> DEFINE s0 == Starting(f[1], f[2])
           s == Look(RecoverPolicyFile(s0))
<1>2. Finish(s) /\ verdict' = IF f[1] = 0 THEN <<r, Matches(s, r)>> ELSE NoVerdict
  BY ZenonT(60), <1>1
<1>3. UNCHANGED <<which, asked, kept>>
  BY ZenonT(60) DEF Query
<1>4. Sound(s0, kept, asked) /\ (f[1] = 0 => Calm(s0))
  BY ZenonT(60), StartingSound DEF PolicyInv
<1> HIDE DEF s0
<1>5. Recovers(s0, s, kept, asked)
  BY ZenonT(60), <1>4, ReadySound
<1> HIDE DEF s
<1>6. Held(dir', durable', kept, asked)
  BY ZenonT(60), <1>2, <1>5, FinishHeld DEF Recovers
<1>7. f[1] = 0 => /\ r \in kept => Matches(s, r)
                  /\ Matches(s, r) => r \in asked
  <2> SUFFICES ASSUME f[1] = 0
               PROVE  s.st = "ok" /\ kept \subseteq Records(s.d) /\ Records(s.d) \subseteq asked
    BY ZenonT(60) DEF Matches
  <2>1. s.st = "ok"
    BY ZenonT(60), <1>4, <1>5 DEF Recovers, Calm
  <2> QED BY ZenonT(60), <1>4, <1>5, <2>1 DEF Recovers, Sound, Good
<1>8. Told'
  <2>1. CASE f[1] = 0
    <3>1. verdict'[1] = r /\ verdict'[2] = Matches(s, r)
      BY ZenonT(60), <1>2, <2>1
    <3> QED BY ZenonT(60), <1>3, <1>7, <2>1, <3>1 DEF Told
  <2>2. CASE f[1] # 0
    BY ZenonT(60), <1>2, <2>2 DEF Told, NoVerdict
  <2> QED BY ZenonT(60), <2>1, <2>2
<1> QED BY ZenonT(60), <1>3, <1>6, <1>8 DEF PolicyInv

LEMMA StopKeeps ==
  ASSUME PolicyInv, Stop
  PROVE  PolicyInv'
<1>1. PICK d \in durable : dir' = d /\ durable' = {d}
  BY ZenonT(60) DEF Stop
<1>2. Held(dir', durable', kept, asked)
  BY ZenonT(60), <1>1 DEF PolicyInv, Held
<1>3. UNCHANGED <<which, asked, kept>> /\ verdict' = NoVerdict
  BY ZenonT(60) DEF Stop
<1> QED BY ZenonT(60), <1>2, <1>3 DEF PolicyInv, Told

\* The inductive invariant: every directory a stop may leave, whatever failed
\* before, recovers to a complete database (persistent_grant.rs
\* replace_policy_file, recover_policy_file; execution_grant.rs remember).
THEOREM PolicyInvariance == PolicySpec => []PolicyInv
<1>1. PolicyInit => PolicyInv
  <2> SUFFICES ASSUME PolicyInit PROVE PolicyInv
    BY ZenonT(60)
  <2>1. Missing \in Dirs /\ Surviving(Missing) = {}
    BY ZenonT(60) DEF Missing, Dirs, Files, Surviving
  <2> QED BY ZenonT(60), <2>1 DEF PolicyInit, PolicyInv, Held, Told, Good
<1>2. PolicyInv /\ [PolicyNext]_policyVars => PolicyInv'
  <2> SUFFICES ASSUME PolicyInv, [PolicyNext]_policyVars PROVE PolicyInv'
    BY ZenonT(60)
  <2>1. CASE UNCHANGED policyVars
    BY ZenonT(60), <2>1 DEF policyVars, PolicyInv, Told
  <2> QED BY ZenonT(60), <2>1, GrantKeeps, QueryKeeps, StopKeeps DEF PolicyNext
<1> QED BY <1>1, <1>2, PTL DEF PolicySpec

\* Acknowledged grants survive every failure and every stop, and nothing else is
\* ever granted (GrantsSurvive), for every set of grants, any number of failing
\* operations in a behaviour and any length of a request.
THEOREM GrantsKept == PolicySpec => []GrantsSurvive
<1>1. PolicyInv => GrantsSurvive
  BY ZenonT(60) DEF PolicyInv, Held, Told, Good, GrantsSurvive
<1> QED BY <1>1, PolicyInvariance, PTL

-----------------------------------------------------------------------------
(* Verifying a package.                                                    *)

Chunk == UNION {{Head_(p), Tail_(p)} : p \in Packages}

TransferType ==
  [active : BOOLEAN, sender : Client \cup {"none"}, request : RequestIds \cup {0},
   expected : Seq(Chunk), bytes : Seq([data : Chunk, by : Client \X RequestIds])]

\* The inductive invariant: every byte of the active transfer came from its
\* sender under its request, and what was announced is a whole package.
VerifyInv ==
  /\ transfer \in TransferType
  /\ transfer.active =>
       /\ DOMAIN transfer.expected = 1 .. 2
       /\ \A i \in DOMAIN transfer.bytes : transfer.bytes[i].by = <<transfer.sender, transfer.request>>
  /\ uses = "path" => file \in Packages
  /\ VerdictsExact

LEMMA RefusedExact == ASSUME ReplyError PROVE VerdictsExact'
  BY ZenonT(60) DEF ReplyError, Refused, VerdictsExact

\* A verdict given under a current database that trusts the package.
LEMMA VerifiedExact ==
  ASSUME NEW c, NEW r, NEW p, NEW from, Verified(c, r, p, from), from = {<<c, r>>}, IsCurrent(database),
         p.payload = p.head.covers, p.head.manifest \notin database.revoked, p.head.issuer \in database.usable
  PROVE  VerdictsExact'
  BY ZenonT(60) DEF Verified, VerdictsExact, IsCurrent

LEMMA VerifyBeginInv ==
  ASSUME VerifyInv, NEW c \in Client, NEW r \in RequestIds, NEW p \in Packages, VerifyBegin(c, r, p)
  PROVE  VerifyInv'
<1>1. VerdictsExact'
  BY ZenonT(60), RefusedExact DEF VerifyBegin
<1>2. Bytes(p) \in Seq(Chunk) /\ DOMAIN Bytes(p) = 1 .. 2
  BY DEF Bytes, Chunk
<1>3. CASE IsCurrent(database)
  <2> DEFINE t == [active |-> TRUE, sender |-> c, request |-> r, expected |-> Bytes(p), bytes |-> <<>>]
  <2>1. transfer' = t
    BY ZenonT(60), <1>3 DEF VerifyBegin
  <2>2. t \in TransferType
    BY <1>2 DEF TransferType
  <2>3. DOMAIN t.expected = 1 .. 2 /\ DOMAIN t.bytes = {}
    BY <1>2
  <2> HIDE DEF t
  <2>4. transfer'.active => /\ DOMAIN transfer'.expected = 1 .. 2
                            /\ \A i \in DOMAIN transfer'.bytes :
                                 transfer'.bytes[i].by = <<transfer'.sender, transfer'.request>>
    BY ZenonT(60), <2>1, <2>3
  <2> QED BY ZenonT(60), <1>1, <2>1, <2>2, <2>4 DEF VerifyInv, VerifyBegin, TransferType
<1>4. CASE ~IsCurrent(database)
  BY ZenonT(60), <1>1, <1>4 DEF VerifyInv, VerifyBegin, TransferType
<1> QED BY ZenonT(60), <1>3, <1>4

LEMMA NoTransferType == NoTransfer \in TransferType /\ ~NoTransfer.active
  BY DEF NoTransfer, TransferType

LEMMA VerifyChunkInv ==
  ASSUME VerifyInv, NEW c \in Client, NEW r \in RequestIds, NEW offset, NEW data \in Chunk,
         VerifyChunk(c, r, offset, data)
  PROVE  VerifyInv'
<1>1. VerdictsExact'
  BY ZenonT(60), RefusedExact DEF VerifyChunk
<1>2. CASE ChunkValid(c, r, offset)
  <2> DEFINE b == [data |-> data, by |-> <<c, r>>]
             bs == Append(transfer.bytes, b)
             t == [transfer EXCEPT !.bytes = bs]
  <2>1. transfer' = t
    BY ZenonT(60), <1>2 DEF VerifyChunk
  <2>2. b \in [data : Chunk, by : Client \X RequestIds]
    BY ZenonT(60)
  <2>3. transfer.bytes \in Seq([data : Chunk, by : Client \X RequestIds])
    BY ZenonT(60) DEF VerifyInv, TransferType
  <2>4. /\ bs \in Seq([data : Chunk, by : Client \X RequestIds])
        /\ DOMAIN bs = 1 .. Len(transfer.bytes) + 1
        /\ bs[Len(transfer.bytes) + 1] = b
        /\ \A i \in 1 .. Len(transfer.bytes) : bs[i] = transfer.bytes[i]
        /\ DOMAIN transfer.bytes = 1 .. Len(transfer.bytes) /\ Len(transfer.bytes) \in Nat
    <3> HIDE DEF b
    <3> QED BY <2>2, <2>3
  <2>5. \A i \in DOMAIN bs : bs[i].by = <<c, r>>
    <3>1. \A i \in DOMAIN transfer.bytes : transfer.bytes[i].by = <<c, r>>
      BY ZenonT(60), <1>2 DEF VerifyInv, VerifyChunk, ChunkValid
    <3>2. b.by = <<c, r>>
      BY ZenonT(60)
    <3> HIDE DEF b, bs
    <3> QED BY <2>4, <3>1, <3>2
  <2> HIDE DEF bs
  <2>6. t \in TransferType /\ t.bytes = bs /\ t.expected = transfer.expected /\ t.sender = c /\ t.request = r
    BY ZenonT(60), <1>2, <2>4 DEF VerifyInv, TransferType, ChunkValid
  <2>7. DOMAIN transfer.expected = 1 .. 2
    BY ZenonT(60) DEF VerifyInv, VerifyChunk
  <2> HIDE DEF t
  <2> QED BY ZenonT(60), <1>1, <2>1, <2>5, <2>6, <2>7 DEF VerifyInv, VerifyChunk, TransferType
<1>3. CASE ~ChunkValid(c, r, offset)
  <2>1. transfer' = NoTransfer
    BY ZenonT(60), <1>3 DEF VerifyChunk
  <2> QED BY ZenonT(60), <1>1, <2>1, NoTransferType DEF VerifyInv, VerifyChunk, TransferType
<1> QED BY ZenonT(60), <1>2, <1>3

LEMMA VerifyFinishInv ==
  ASSUME VerifyInv, NEW c \in Client, NEW r \in RequestIds, VerifyFinish(c, r)
  PROVE  VerifyInv'
<1> DEFINE p == [head |-> transfer.bytes[1].data.head, payload |-> transfer.bytes[2].data.payload]
           complete == /\ transfer.sender = c /\ transfer.request = r
                       /\ Contents(transfer.bytes) = transfer.expected
           from == {transfer.bytes[i].by : i \in DOMAIN transfer.bytes}
           judged == complete /\ database.loaded /\ VerifyPackageBytes(p, database)
<1>1. VerdictsExact'
  <2>1. CASE judged
    <3>1. Verified(c, r, p, from)
      BY ZenonT(60), <2>1 DEF VerifyFinish
    <3>2. IsCurrent(database) /\ p.payload = p.head.covers /\ p.head.manifest \notin database.revoked
            /\ p.head.issuer \in database.usable
      BY ZenonT(60), <2>1 DEF VerifyPackageBytes, IssuerPublicKey, VerifyPayloadFiles
    <3>3. DOMAIN Contents(transfer.bytes) = DOMAIN transfer.bytes
      BY ZenonT(60) DEF Contents
    <3>4. DOMAIN transfer.bytes = 1 .. 2 /\ \A i \in DOMAIN transfer.bytes : transfer.bytes[i].by = <<c, r>>
      BY ZenonT(60), <2>1, <3>3 DEF VerifyInv, VerifyFinish
    <3>5. from = {<<c, r>>}
      <4>1. 1 \in DOMAIN transfer.bytes
        BY <3>4
      <4> QED BY ZenonT(60), <3>4, <4>1
    <3> HIDE DEF p, from
    <3> QED BY ZenonT(60), <3>1, <3>2, <3>5, VerifiedExact
  <2>2. CASE ~judged
    <3>1. ReplyError
      BY ZenonT(60), <2>2 DEF VerifyFinish
    <3> QED BY ZenonT(60), <3>1, RefusedExact
  <2> QED BY ZenonT(60), <2>1, <2>2
<1>2. transfer' = NoTransfer
  BY ZenonT(60) DEF VerifyFinish
<1> QED BY ZenonT(60), <1>1, <1>2, NoTransferType DEF VerifyInv, VerifyFinish, TransferType

LEMMA VerifyFileInv ==
  ASSUME VerifyInv, uses = "path", NEW c, NEW r, NEW p, NEW metadata \in BOOLEAN, VerifyFile(c, r, p, metadata)
  PROVE  VerifyInv'
<1> DEFINE q == IF metadata THEN [file EXCEPT !.payload = file.head.manifest] ELSE file
           judged == /\ IsCurrent(database)
                     /\ IF metadata THEN VerifyPackageMetadata(file, database)
                        ELSE file = p /\ VerifyPackageBytes(file, database)
<1>1. file = [head |-> file.head, payload |-> file.payload]
  BY ZenonT(60), PackagesAssumption DEF VerifyInv
<1>2. VerdictsExact'
  <2>1. CASE judged
    <3>1. Verified(c, r, q, {<<c, r>>})
      BY ZenonT(60), <2>1 DEF VerifyFile
    <3>2. IsCurrent(database) /\ file.head.manifest \notin database.revoked
            /\ file.head.issuer \in database.usable /\ file.head.covers = file.head.manifest
            /\ (metadata \/ file.payload = file.head.manifest)
      BY ZenonT(60), <2>1 DEF VerifyPackageBytes, VerifyPackageMetadata, IssuerPublicKey, VerifyPayloadFiles
    <3>3. q.head = file.head /\ q.payload = file.head.manifest
      BY ZenonT(60), <1>1, <3>2
    <3> HIDE DEF q
    <3> QED BY ZenonT(60), <3>1, <3>2, <3>3, VerifiedExact
  <2>2. CASE ~judged
    <3>1. ReplyError
      BY ZenonT(60), <2>2 DEF VerifyFile
    <3> QED BY ZenonT(60), <3>1, RefusedExact
  <2> QED BY ZenonT(60), <2>1, <2>2
<1> QED BY ZenonT(60), <1>2 DEF VerifyInv, VerifyFile, TransferType

\* Every byte of a transfer is its sender's, in every reachable state.
THEOREM VerifyInvariance == VerifySpec => []VerifyInv
<1>1. VerifyInit => VerifyInv
  BY NoTransferType DEF VerifyInit, VerifyInv, VerdictsExact, Refused
<1>2. ASSUME VerifyInv, [VerifyNext]_verifyVars PROVE VerifyInv'
  <2>1. ASSUME Reload \/ DatabaseExpires \/ Swap PROVE VerifyInv'
    <3>1. VerdictsExact'
      BY ZenonT(60), <2>1, RefusedExact DEF Reload, DatabaseExpires, Swap
    <3> QED BY ZenonT(60), <1>2, <2>1, <3>1 DEF VerifyInv, Reload, DatabaseExpires, Swap, TransferType
  <2>2. ASSUME NEW c \in Client, NEW r \in RequestIds, ByChunks(c, r) PROVE VerifyInv'
    <3>1. CASE \E p \in Packages : VerifyBegin(c, r, p)
      BY ZenonT(60), <1>2, <3>1, VerifyBeginInv
    <3>2. CASE \E offset \in 0 .. 1, data \in Chunk : VerifyChunk(c, r, offset, data)
      BY ZenonT(60), <1>2, <3>2, VerifyChunkInv
    <3>3. CASE VerifyFinish(c, r)
      BY ZenonT(60), <1>2, <3>3, VerifyFinishInv
    <3> QED BY ZenonT(60), <2>2, <3>1, <3>2, <3>3 DEF ByChunks, Chunk
  <2>3. ASSUME NEW c \in Client, NEW r \in RequestIds, ByPath(c, r) PROVE VerifyInv'
    BY ZenonT(60), <1>2, <2>3, VerifyFileInv DEF ByPath
  <2>4. CASE UNCHANGED verifyVars
    BY ZenonT(60), <1>2, <2>4 DEF verifyVars, VerifyInv, TransferType, VerdictsExact
  <2> QED BY ZenonT(60), <1>2, <2>1, <2>2, <2>3, <2>4 DEF VerifyNext
<1> QED BY <1>1, <1>2, PTL DEF VerifySpec

\* A package is called genuine only to the client that sent every byte of it,
\* when the payload is what the signed manifest commits to, under a current
\* database that trusts its certificate.
THEOREM VerdictsAlwaysExact == VerifySpec => []VerdictsExact
<1>1. VerifyInv => VerdictsExact
  BY ZenonT(60) DEF VerifyInv
<1> QED BY <1>1, VerifyInvariance, PTL

-----------------------------------------------------------------------------
(* The certificate database.                                               *)

Snapshot == [version : Nat, generated : Nat, issuers : SUBSET Issuer]
Database == [trust : Snapshot, revocations : Snapshot, generation : Nat]
Updater == [pc : {"down", "idle", "notify"}, state : Database, before : Database,
            next : [Kinds -> Nat], fails : [Kinds -> 0 .. Len(Backoff)]]

\* The server numbers its snapshots.
Numbered == /\ server \in [Kinds -> Seq(Snapshot)]
            /\ \A k \in Kinds : \A i \in DOMAIN server[k] : server[k][i].version = i

\* What is held of a kind came from the server.
Published(k, s) == s = NoSnapshot \/ s \in Range(server[k])
FromServer(d) == Published("trust", d.trust) /\ Published("revocations", d.revocations)

\* A round in progress, as its context carries it.
Round(c) == /\ c \in [u : Updater, d : Database, t : Nat, unknown : BOOLEAN]
            /\ c.u.state = c.d /\ FromServer(c.d)

\* e came of d: no snapshot went back, and one that is another one is newer.
Newer(s, r) == s.version < r.version \/ s = r
Grown(d, e) == /\ Newer(d.trust, e.trust) /\ Newer(d.revocations, e.revocations)
               /\ d.generation <= e.generation
               /\ d.trust = e.trust /\ d.revocations = e.revocations => d = e

\* The attempt for k was followed by a pause, or brought something new.
Paused(c, o, k) == o.u.next[k] > now \/ c.d[k].version < o.d[k].version

LEMMA RangeVersion ==
  ASSUME Numbered, NEW k \in Kinds, NEW held, Published(k, held), NEW s \in Range(server[k]), s # held,
         s.version >= held.version
  PROVE  s.version > held.version /\ s \in Snapshot
<1>1. PICK i \in DOMAIN server[k] : s = server[k][i]
  BY ZenonT(60) DEF Range
<1>2. s.version = i /\ i \in Nat \ {0} /\ s \in Snapshot
  BY <1>1 DEF Numbered
<1>3. CASE held = NoSnapshot
  BY <1>2, <1>3 DEF NoSnapshot
<1>4. CASE held \in Range(server[k])
  <2>1. PICK j \in DOMAIN server[k] : held = server[k][j]
    BY ZenonT(60), <1>4 DEF Range
  <2>2. held.version = j /\ j \in Nat
    BY <2>1 DEF Numbered
  <2> QED BY <1>1, <1>2, <2>1, <2>2
<1> QED BY ZenonT(60), <1>2, <1>3, <1>4 DEF Published

\* d with a new snapshot of kind k.
Replaced(d, k, s) == [d EXCEPT ![k] = s, !.generation = @ + 1]

LEMMA DatabaseType ==
  ASSUME NEW d \in Database, NEW k \in Kinds, NEW s \in Snapshot
  PROVE  /\ d[k] \in Snapshot
         /\ Replaced(d, k, s) \in Database /\ Replaced(d, k, s)[k] = s
         /\ \A j \in Kinds \ {k} : Replaced(d, k, s)[j] = d[j]
         /\ Replaced(d, k, s).generation = d.generation + 1
<1>1. /\ d.trust \in Snapshot /\ d.revocations \in Snapshot /\ d.generation \in Nat
      /\ d = [trust |-> d.trust, revocations |-> d.revocations, generation |-> d.generation]
  BY ZenonT(60) DEF Database
<1> DEFINE e == Replaced(d, k, s)
<1>2. CASE k = "trust"
  <2>0. e = [d EXCEPT !.trust = s, !.generation = @ + 1]
    BY ZenonT(60), <1>2 DEF Replaced
  <2> HIDE DEF e
  <2>1. e = [trust |-> s, revocations |-> d.revocations, generation |-> d.generation + 1]
    BY ZenonT(60), <2>0 DEF Database
  <2>2. e \in Database /\ e.trust = s /\ e.revocations = d.revocations /\ e.generation = d.generation + 1
    BY <1>1, <2>1 DEF Database
  <2>3. d[k] \in Snapshot /\ e[k] = s /\ \A j \in Kinds \ {k} : e[j] = d[j]
    BY ZenonT(60), <1>1, <1>2, <2>2 DEF Kinds
  <2> QED BY ZenonT(60), <2>2, <2>3 DEF e
<1>3. CASE k = "revocations"
  <2>0. e = [d EXCEPT !.revocations = s, !.generation = @ + 1]
    BY ZenonT(60), <1>3 DEF Replaced
  <2> HIDE DEF e
  <2>1. e = [trust |-> d.trust, revocations |-> s, generation |-> d.generation + 1]
    BY ZenonT(60), <2>0 DEF Database
  <2>2. e \in Database /\ e.revocations = s /\ e.trust = d.trust /\ e.generation = d.generation + 1
    BY <1>1, <2>1 DEF Database
  <2>3. d[k] \in Snapshot /\ e[k] = s /\ \A j \in Kinds \ {k} : e[j] = d[j]
    BY ZenonT(60), <1>1, <1>3, <2>2 DEF Kinds
  <2> QED BY ZenonT(60), <2>2, <2>3 DEF e
<1> QED BY ZenonT(60), <1>2, <1>3 DEF Kinds

\* u when the next attempt for k is due at n, after g failures.
After(u, k, n, g) == [u EXCEPT !.next[k] = n, !.fails[k] = g]

\* v differs from u in when k is next due, after now.
OnlyNext(u, v, k) == v.state = u.state /\ \A j \in Kinds \ {k} : v.next[j] = u.next[j]

LEMMA AfterType ==
  ASSUME NEW u \in Updater, NEW k \in Kinds, NEW n \in Nat, NEW g \in 0 .. Len(Backoff)
  PROVE  /\ After(u, k, n, g) \in Updater /\ After(u, k, n, g).next[k] = n
         /\ OnlyNext(u, After(u, k, n, g), k)
BY ZenonT(60) DEF Updater, After, OnlyNext

\* The pauses of the scheduler.
LEMMA SchedulerType ==
  ASSUME now \in Nat, NEW u \in Updater, NEW k \in Kinds, NEW s \in Snapshot
  PROVE  /\ RecordSuccess(u, k, s) \in Updater /\ OnlyNext(u, RecordSuccess(u, k, s), k)
         /\ RecordNotModified(u, k, s) \in Updater /\ RecordNotModified(u, k, s).next[k] > now
         /\ OnlyNext(u, RecordNotModified(u, k, s), k)
         /\ RetryLater(u, k) \in Updater /\ RetryLater(u, k).next[k] > now /\ OnlyNext(u, RetryLater(u, k), k)
         /\ Reject(u, k) \in Updater /\ Reject(u, k).next[k] > now /\ OnlyNext(u, Reject(u, k), k)
<1>1. Period[k] \in Nat /\ Period[k] > 0 /\ Len(Backoff) \in Nat /\ Len(Backoff) > 0
  BY TrustAssumption
<1>2. u.next[k] \in Nat /\ u.fails[k] \in 0 .. Len(Backoff)
  BY ZenonT(60) DEF Updater
<1>3. PICK m \in Nat : m = Least(now + Period[k], RefreshBeforeExpiry(s))
  BY <1>1, TrustAssumption DEF Least, RefreshBeforeExpiry, Most, Snapshot
<1>4. PICK f \in 1 .. Len(Backoff) : f = Least(u.fails[k] + 1, Len(Backoff))
  BY <1>1, <1>2 DEF Least
<1>5. PICK b \in Nat : b = Backoff[f] /\ b > 0
  BY <1>4, TrustAssumption
<1>6. RecordSuccess(u, k, s) = After(u, k, m, 0)
  BY ZenonT(60), <1>3 DEF RecordSuccess, After
<1>7. RetryLater(u, k) = After(u, k, now + b, f)
  BY ZenonT(60), <1>2, <1>4, <1>5 DEF RetryLater, After, Updater
<1>8. Reject(u, k) = After(u, k, now + Period[k], 0)
  BY ZenonT(60) DEF Reject, After
<1>9. 0 \in 0 .. Len(Backoff) /\ f \in 0 .. Len(Backoff)
      /\ now + b \in Nat /\ now + Period[k] \in Nat /\ now + 1 \in Nat
      /\ now + b > now /\ now + Period[k] > now /\ now + 1 > now
  BY <1>1, <1>4, <1>5
<1>10. After(u, k, m, 0) \in Updater /\ After(u, k, m, 0).next[k] = m /\ OnlyNext(u, After(u, k, m, 0), k)
  BY ZenonT(60), <1>9, AfterType
<1>11. PICK n \in Nat : n = now + b
  BY ZenonT(60), <1>9
<1>12. After(u, k, n, f) \in Updater /\ After(u, k, n, f).next[k] = n /\ OnlyNext(u, After(u, k, n, f), k)
  BY ZenonT(60), <1>9, AfterType
<1>13. PICK p \in Nat : p = now + Period[k]
  BY ZenonT(60), <1>9
<1>14. After(u, k, p, 0) \in Updater /\ After(u, k, p, 0).next[k] = p /\ OnlyNext(u, After(u, k, p, 0), k)
  BY ZenonT(60), <1>9, AfterType
<1>15. PICK q \in Nat : q = now + 1
  BY ZenonT(60), <1>9
<1>16. After(u, k, q, 0) \in Updater /\ After(u, k, q, 0).next[k] = q /\ OnlyNext(u, After(u, k, q, 0), k)
  BY ZenonT(60), <1>9, AfterType
<1>17. RecordNotModified(u, k, s) = IF m <= now THEN After(u, k, q, 0) ELSE After(u, k, m, 0)
  <2>1. RecordNotModified(u, k, s) = IF m <= now THEN [After(u, k, m, 0) EXCEPT !.next[k] = q] ELSE After(u, k, m, 0)
    BY ZenonT(60), <1>6, <1>10, <1>15 DEF RecordNotModified
  <2>2. [After(u, k, m, 0) EXCEPT !.next[k] = q] = After(u, k, q, 0)
    BY ZenonT(60) DEF After, Updater
  <2> QED BY ZenonT(60), <2>1, <2>2
<1>18. RecordNotModified(u, k, s) \in Updater /\ RecordNotModified(u, k, s).next[k] > now
       /\ OnlyNext(u, RecordNotModified(u, k, s), k)
  BY <1>9, <1>10, <1>15, <1>16, <1>17
<1>19. RetryLater(u, k) \in Updater /\ RetryLater(u, k).next[k] > now /\ OnlyNext(u, RetryLater(u, k), k)
  BY ZenonT(60), <1>7, <1>9, <1>11, <1>12
<1>20. Reject(u, k) \in Updater /\ Reject(u, k).next[k] > now /\ OnlyNext(u, Reject(u, k), k)
  BY ZenonT(60), <1>8, <1>9, <1>13, <1>14
<1> QED BY ZenonT(60), <1>6, <1>10, <1>18, <1>19, <1>20

\* A request for k leaves a round that has grown, left the other kind alone, and
\* paused k unless it was deferred.
Untouched(c, o, k) == \A j \in Kinds \ {k} : o.d[j] = c.d[j] /\ o.u.next[j] = c.u.next[j]
Effect(c, o, k, defer) ==
  /\ Round(o) /\ Grown(c.d, o.d) /\ Untouched(c, o, k)
  /\ Paused(c, o, k) \/ (defer /\ o.unknown)
  /\ ~defer => o.unknown = c.unknown

LEMMA GrownSame == ASSUME NEW d \in Database PROVE Grown(d, d)
BY DEF Grown, Newer, Database

LEMMA GrownTwice ==
  ASSUME NEW d \in Database, NEW e \in Database, NEW f \in Database, Grown(d, e), Grown(e, f)
  PROVE  Grown(d, f)
<1>1. ASSUME NEW q \in Snapshot, NEW r \in Snapshot, NEW s \in Snapshot, Newer(q, r), Newer(r, s)
      PROVE  Newer(q, s) /\ (q = s => q = r /\ r = s)
  <2>1. q.version \in Nat /\ r.version \in Nat /\ s.version \in Nat
    BY ZenonT(60) DEF Snapshot
  <2> QED BY <1>1, <2>1 DEF Newer
<1>2. /\ d.trust \in Snapshot /\ d.revocations \in Snapshot /\ d.generation \in Nat
      /\ e.trust \in Snapshot /\ e.revocations \in Snapshot /\ e.generation \in Nat
      /\ f.trust \in Snapshot /\ f.revocations \in Snapshot /\ f.generation \in Nat
  BY ZenonT(60) DEF Database
<1>3. /\ Newer(d.trust, e.trust) /\ Newer(d.revocations, e.revocations) /\ d.generation <= e.generation
      /\ Newer(e.trust, f.trust) /\ Newer(e.revocations, f.revocations) /\ e.generation <= f.generation
      /\ (d.trust = e.trust /\ d.revocations = e.revocations => d = e)
      /\ (e.trust = f.trust /\ e.revocations = f.revocations => e = f)
  BY ZenonT(60) DEF Grown
<1>4. Newer(d.trust, f.trust) /\ (d.trust = f.trust => d.trust = e.trust /\ e.trust = f.trust)
  BY ZenonT(60), <1>1, <1>2, <1>3
<1>5. Newer(d.revocations, f.revocations)
      /\ (d.revocations = f.revocations => d.revocations = e.revocations /\ e.revocations = f.revocations)
  BY ZenonT(60), <1>1, <1>2, <1>3
<1>6. d.generation <= f.generation
  BY <1>2, <1>3
<1> QED BY ZenonT(60), <1>3, <1>4, <1>5, <1>6 DEF Grown

LEMMA GrownVersions ==
  ASSUME NEW d \in Database, NEW e \in Database, Grown(d, e), NEW k \in Kinds
  PROVE  d[k] \in Snapshot /\ e[k] \in Snapshot /\ d[k].version <= e[k].version /\ d[k].version \in Nat
<1>1. /\ d.trust \in Snapshot /\ d.revocations \in Snapshot
      /\ e.trust \in Snapshot /\ e.revocations \in Snapshot
  BY ZenonT(60) DEF Database
<1>2. ASSUME NEW q \in Snapshot, NEW r \in Snapshot, Newer(q, r)
      PROVE  q.version <= r.version /\ q.version \in Nat
  BY <1>2 DEF Newer, Snapshot
<1>3. Newer(d.trust, e.trust) /\ Newer(d.revocations, e.revocations)
  BY ZenonT(60) DEF Grown
<1>4. d.trust.version <= e.trust.version /\ d.trust.version \in Nat
      /\ d.revocations.version <= e.revocations.version /\ d.revocations.version \in Nat
  BY ZenonT(60), <1>1, <1>2, <1>3
<1> QED BY ZenonT(60), <1>1, <1>4 DEF Kinds

\* A failed, refused or needless request.
LEMMA KeptEffect ==
  ASSUME NEW c, Round(c), NEW k \in Kinds, NEW defer \in BOOLEAN,
         NEW v \in Updater, OnlyNext(c.u, v, k), v.next[k] > now, NEW t \in Nat
  PROVE  Effect(c, [c EXCEPT !.u = v, !.t = t], k, defer)
<1> DEFINE o == [c EXCEPT !.u = v, !.t = t]
<1>1. c.d \in Database /\ c.u.state = c.d /\ FromServer(c.d) /\ c.unknown \in BOOLEAN
      /\ c \in [u : Updater, d : Database, t : Nat, unknown : BOOLEAN]
  BY ZenonT(60) DEF Round
<1>2. o.u = v /\ o.d = c.d /\ o.t = t /\ o.unknown = c.unknown
      /\ o \in [u : Updater, d : Database, t : Nat, unknown : BOOLEAN]
  BY ZenonT(60), <1>1
<1> HIDE DEF o
<1>3. Round(o)
  BY ZenonT(60), <1>1, <1>2 DEF Round, OnlyNext
<1>4. Grown(c.d, o.d) /\ Untouched(c, o, k)
  BY ZenonT(60), <1>1, <1>2, GrownSame DEF Untouched, OnlyNext
<1>5. Paused(c, o, k)
  BY ZenonT(60), <1>2 DEF Paused
<1>6. Effect(c, o, k, defer)
  BY ZenonT(60), <1>2, <1>3, <1>4, <1>5 DEF Effect
<1> QED BY ZenonT(60), <1>6 DEF o

LEMMA DeferredEffect ==
  ASSUME NEW c, Round(c), NEW k \in Kinds
  PROVE  Effect(c, [c EXCEPT !.unknown = TRUE], k, TRUE)
<1> DEFINE o == [c EXCEPT !.unknown = TRUE]
<1>1. c.d \in Database /\ c.u.state = c.d /\ FromServer(c.d)
      /\ c \in [u : Updater, d : Database, t : Nat, unknown : BOOLEAN]
  BY ZenonT(60) DEF Round
<1>2. o.u = c.u /\ o.d = c.d /\ o.t = c.t /\ o.unknown = TRUE
      /\ o \in [u : Updater, d : Database, t : Nat, unknown : BOOLEAN]
  BY ZenonT(60), <1>1
<1> HIDE DEF o
<1>3. Round(o)
  BY ZenonT(60), <1>1, <1>2 DEF Round
<1>4. Grown(c.d, o.d) /\ Untouched(c, o, k)
  BY ZenonT(60), <1>1, <1>2, GrownSame DEF Untouched
<1>6. Effect(c, o, k, TRUE)
  BY ZenonT(60), <1>2, <1>3, <1>4 DEF Effect
<1> QED BY ZenonT(60), <1>6 DEF o

\* A snapshot that is persisted is newer than the one it replaces.
LEMMA PersistEffect ==
  ASSUME now \in Nat, Numbered, NEW c, Round(c), NEW k \in Kinds, NEW defer \in BOOLEAN,
         NEW s \in Range(server[k]), s # c.d[k], s.version >= c.d[k].version
  PROVE  Effect(c, Persist(c, k, s), k, defer)
<1>1. c.d \in Database /\ c.u.state = c.d /\ FromServer(c.d) /\ c.unknown \in BOOLEAN /\ c.u \in Updater
      /\ c \in [u : Updater, d : Database, t : Nat, unknown : BOOLEAN]
  BY ZenonT(60) DEF Round
<1>2. Published(k, c.d[k])
  BY ZenonT(60), <1>1 DEF FromServer, Kinds
<1>3. s.version > c.d[k].version /\ s \in Snapshot
  BY ZenonT(60), <1>2, RangeVersion
<1>4. PICK e : e = Replaced(c.d, k, s)
  BY ZenonT(60)
<1>5. e \in Database /\ c.d[k] \in Snapshot /\ e[k] = s /\ e.generation = c.d.generation + 1
      /\ \A j \in Kinds \ {k} : e[j] = c.d[j]
  BY <1>1, <1>3, <1>4, DatabaseType
<1>6. PICK v : v = RecordSuccess([c.u EXCEPT !.state = e], k, s)
  BY ZenonT(60)
<1>7. v \in Updater /\ v.state = e /\ \A j \in Kinds \ {k} : v.next[j] = c.u.next[j]
  <2>1. PICK w : w = [c.u EXCEPT !.state = e]
    BY ZenonT(60)
  <2>2. w \in Updater /\ w.state = e /\ w.next = c.u.next
    BY ZenonT(60), <1>1, <1>5, <2>1 DEF Updater
  <2>3. RecordSuccess(w, k, s) \in Updater /\ OnlyNext(w, RecordSuccess(w, k, s), k)
    BY ZenonT(60), <1>3, <2>2, SchedulerType
  <2> QED BY ZenonT(60), <1>6, <2>1, <2>2, <2>3 DEF OnlyNext
<1>8. PICK o : o = [c EXCEPT !.u = v, !.d = e]
  BY ZenonT(60)
<1>9. o = Persist(c, k, s)
  BY ZenonT(60), <1>1, <1>4, <1>6, <1>8 DEF Persist, Replaced
<1>10. o.u = v /\ o.d = e /\ o.unknown = c.unknown
       /\ o \in [u : Updater, d : Database, t : Nat, unknown : BOOLEAN]
  BY ZenonT(60), <1>1, <1>5, <1>7, <1>8
<1>11. FromServer(e)
  BY ZenonT(60), <1>1, <1>5 DEF FromServer, Published, Kinds
<1>12. Round(o)
  BY ZenonT(60), <1>7, <1>10, <1>11 DEF Round
<1>13. Grown(c.d, e)
  <2>1. c.d.generation <= e.generation
    BY <1>1, <1>5 DEF Database
  <2>2. c.d[k] # s
    BY ZenonT(60)
  <2> QED BY ZenonT(60), <1>3, <1>5, <2>1, <2>2 DEF Grown, Newer, Kinds
<1>14. Untouched(c, o, k) /\ Paused(c, o, k)
  BY ZenonT(60), <1>3, <1>5, <1>7, <1>10 DEF Untouched, Paused
<1> QED BY ZenonT(60), <1>9, <1>10, <1>12, <1>13, <1>14 DEF Effect

LEMMA OneEffect ==
  ASSUME now \in Nat, Numbered, NEW c, Round(c), NEW k \in Kinds, NEW defer \in BOOLEAN,
         NEW o \in SynchronizeOne(c, k, defer)
  PROVE  Effect(c, o, k, defer)
<1> DEFINE Failed == c.t > 0 /\ o = [c EXCEPT !.u = RetryLater(@, k), !.t = @ - 1]
<1>1. \/ Failed
      \/ o = [c EXCEPT !.u = Reject(@, k)]
      \/ o = [c EXCEPT !.u = RecordNotModified(@, k, c.u.state[k])]
      \/ \E s \in Range(server[k]) : s # c.u.state[k] /\ Apply(c, k, s) = "ok" /\ o = Persist(c, k, s)
      \/ defer /\ o = [c EXCEPT !.unknown = TRUE]
  BY ZenonT(60) DEF SynchronizeOne
<1>2. c.d \in Database /\ c.u.state = c.d /\ c.t \in Nat /\ c.u \in Updater
      /\ c \in [u : Updater, d : Database, t : Nat, unknown : BOOLEAN]
  BY ZenonT(60) DEF Round
<1>3. c.d[k] \in Snapshot
  BY ZenonT(60), <1>2 DEF Database, Kinds
<1>4. /\ RecordNotModified(c.u, k, c.d[k]) \in Updater /\ RecordNotModified(c.u, k, c.d[k]).next[k] > now
      /\ OnlyNext(c.u, RecordNotModified(c.u, k, c.d[k]), k)
      /\ RetryLater(c.u, k) \in Updater /\ RetryLater(c.u, k).next[k] > now /\ OnlyNext(c.u, RetryLater(c.u, k), k)
      /\ Reject(c.u, k) \in Updater /\ Reject(c.u, k).next[k] > now /\ OnlyNext(c.u, Reject(c.u, k), k)
  BY ZenonT(60), <1>2, <1>3, SchedulerType
<1>5. ASSUME NEW v \in Updater, OnlyNext(c.u, v, k), v.next[k] > now, o = [c EXCEPT !.u = v]
      PROVE  Effect(c, o, k, defer)
  <2>1. PICK t \in Nat : t = c.t
    BY ZenonT(60), <1>2
  <2>2. o = [c EXCEPT !.u = v, !.t = t]
    BY ZenonT(60), <1>2, <1>5, <2>1
  <2>3. OnlyNext(c.u, v, k) /\ v.next[k] > now
    BY ZenonT(60), <1>5
  <2>4. Effect(c, [c EXCEPT !.u = v, !.t = t], k, defer)
    BY ZenonT(60), <2>3, KeptEffect
  <2> QED BY ZenonT(60), <2>2, <2>4
<1>6. CASE Failed
  <2>1. PICK v \in Updater : v = RetryLater(c.u, k)
    BY ZenonT(60), <1>4
  <2>2. PICK t \in Nat : t = c.t - 1
    BY <1>2, <1>6
  <2>3. o = [c EXCEPT !.u = v, !.t = t]
    BY ZenonT(60), <1>6, <2>1, <2>2
  <2> QED BY ZenonT(60), <1>4, <2>1, <2>3, KeptEffect
<1>7. CASE o = [c EXCEPT !.u = Reject(@, k)]
  <2>1. PICK v \in Updater : v = Reject(c.u, k)
    BY ZenonT(60), <1>4
  <2> QED BY ZenonT(60), <1>4, <1>5, <1>7, <2>1
<1>8. CASE o = [c EXCEPT !.u = RecordNotModified(@, k, c.u.state[k])]
  <2>1. PICK v \in Updater : v = RecordNotModified(c.u, k, c.d[k])
    BY ZenonT(60), <1>4
  <2> QED BY ZenonT(60), <1>2, <1>4, <1>5, <1>8, <2>1
<1>9. ASSUME NEW s \in Range(server[k]), s # c.u.state[k], Apply(c, k, s) = "ok", o = Persist(c, k, s)
      PROVE  Effect(c, o, k, defer)
  <2>1. s.version >= c.d[k].version
    BY ZenonT(60), <1>2, <1>9 DEF Apply, VerifyTrust, VerifyRevocations, Kinds
  <2> QED BY ZenonT(60), <1>2, <1>9, <2>1, PersistEffect
<1>10. CASE defer /\ o = [c EXCEPT !.unknown = TRUE]
  BY ZenonT(60), <1>10, DeferredEffect
<1> QED BY ZenonT(60), <1>1, <1>6, <1>7, <1>8, <1>9, <1>10

\* Together the requests of a round pause every kind that was due.
LEMMA DueEffect ==
  ASSUME now \in Nat, Numbered, NEW c, Round(c), ~c.unknown, NEW o \in SynchronizeDue(c)
  PROVE  /\ Round(o) /\ Grown(c.d, o.d)
         /\ \A k \in Kinds : c.u.next[k] <= now => Paused(c, o, k)
<1> DEFINE first == IF c.u.next["trust"] <= now THEN SynchronizeOne(c, "trust", FALSE) ELSE {c}
<1> DEFINE Second(x) == IF x.u.next["revocations"] <= now THEN SynchronizeOne(x, "revocations", TRUE) ELSE {x}
           Third(y) == IF ~y.unknown THEN {y}
                       ELSE UNION {SynchronizeOne(z, "revocations", FALSE) : z \in SynchronizeOne(y, "trust", FALSE)}
<1>a. o \in UNION {Third(y) : y \in UNION {Second(x) : x \in first}}
  BY ZenonT(60) DEF SynchronizeDue
<1> HIDE DEF first, Second, Third
<1>b. PICK y \in UNION {Second(x) : x \in first} : o \in Third(y)
  BY ZenonT(60), <1>a
<1>0. PICK x \in first : y \in Second(x)
  BY ZenonT(60), <1>b
<1>1. \/ ~y.unknown /\ o = y
      \/ y.unknown /\ \E z \in SynchronizeOne(y, "trust", FALSE) : o \in SynchronizeOne(z, "revocations", FALSE)
  BY ZenonT(60), <1>b DEF Third
<1> USE DEF first, Second
<1>2. "trust" \in Kinds /\ "revocations" \in Kinds /\ Kinds = {"trust", "revocations"}
  BY ZenonT(60) DEF Kinds
<1>3. /\ Round(x) /\ Grown(c.d, x.d) /\ Untouched(c, x, "trust") /\ ~x.unknown
      /\ c.u.next["trust"] <= now => Paused(c, x, "trust")
  <2>1. CASE c.u.next["trust"] <= now
    <3>1. Effect(c, x, "trust", FALSE)
      BY ZenonT(60), <1>0, <1>2, <2>1, OneEffect
    <3> QED BY ZenonT(60), <3>1 DEF Effect
  <2>2. CASE ~(c.u.next["trust"] <= now)
    <3>1. x = c
      BY ZenonT(60), <1>0, <2>2
    <3> QED BY ZenonT(60), <2>2, <3>1, GrownSame DEF Untouched, Round
  <2> QED BY ZenonT(60), <2>1, <2>2
<1>4. /\ Round(y) /\ Grown(x.d, y.d) /\ Untouched(x, y, "revocations")
      /\ x.u.next["revocations"] <= now => Paused(x, y, "revocations") \/ y.unknown
  <2>1. CASE x.u.next["revocations"] <= now
    <3>1. Effect(x, y, "revocations", TRUE)
      BY ZenonT(60), <1>0, <1>2, <1>3, <2>1, OneEffect
    <3> QED BY ZenonT(60), <3>1 DEF Effect
  <2>2. CASE ~(x.u.next["revocations"] <= now)
    <3>1. y = x
      BY ZenonT(60), <1>0, <2>2
    <3> QED BY ZenonT(60), <1>3, <2>2, <3>1, GrownSame DEF Untouched, Round
  <2> QED BY ZenonT(60), <2>1, <2>2
<1>5. c.d \in Database /\ x.d \in Database /\ y.d \in Database
  BY ZenonT(60), <1>3, <1>4 DEF Round
<1>6. Grown(c.d, y.d)
  BY ZenonT(60), <1>3, <1>4, <1>5, GrownTwice
<1>7. x.d["revocations"] = c.d["revocations"] /\ x.u.next["revocations"] = c.u.next["revocations"]
      /\ y.d["trust"] = x.d["trust"] /\ y.u.next["trust"] = x.u.next["trust"]
  BY ZenonT(60), <1>2, <1>3, <1>4 DEF Untouched
<1>8. CASE ~y.unknown /\ o = y
  <2>1. c.u.next["trust"] <= now => Paused(c, o, "trust")
    BY ZenonT(60), <1>3, <1>7, <1>8 DEF Paused
  <2>2. c.u.next["revocations"] <= now => Paused(c, o, "revocations")
    BY ZenonT(60), <1>4, <1>7, <1>8 DEF Paused
  <2> QED BY ZenonT(60), <1>2, <1>4, <1>6, <1>8, <2>1, <2>2
<1>9. ASSUME NEW z \in SynchronizeOne(y, "trust", FALSE), o \in SynchronizeOne(z, "revocations", FALSE)
      PROVE  /\ Round(o) /\ Grown(c.d, o.d)
             /\ Paused(c, o, "trust") /\ Paused(c, o, "revocations")
  <2>1. Effect(y, z, "trust", FALSE)
    BY ZenonT(60), <1>2, <1>4, <1>9, OneEffect
  <2>2. Round(z) /\ Grown(y.d, z.d) /\ Untouched(y, z, "trust") /\ Paused(y, z, "trust")
    BY ZenonT(60), <2>1 DEF Effect
  <2>3. Effect(z, o, "revocations", FALSE)
    BY ZenonT(60), <1>2, <1>9, <2>2, OneEffect
  <2>4. Round(o) /\ Grown(z.d, o.d) /\ Untouched(z, o, "revocations") /\ Paused(z, o, "revocations")
    BY ZenonT(60), <2>3 DEF Effect
  <2>5. z.d \in Database /\ o.d \in Database
    BY ZenonT(60), <2>2, <2>4 DEF Round
  <2>6. Grown(c.d, z.d)
    BY ZenonT(60), <1>5, <1>6, <2>2, <2>5, GrownTwice
  <2>7. Grown(c.d, o.d)
    BY ZenonT(60), <1>5, <2>4, <2>5, <2>6, GrownTwice
  <2>8. o.d["trust"] = z.d["trust"] /\ o.u.next["trust"] = z.u.next["trust"]
    BY ZenonT(60), <1>2, <2>4 DEF Untouched
  <2>9. /\ c.d["trust"].version <= y.d["trust"].version /\ c.d["trust"].version \in Nat
        /\ y.d["trust"].version \in Nat /\ z.d["trust"].version \in Nat
    BY ZenonT(60), <1>2, <1>5, <1>6, <2>2, <2>5, GrownVersions, GrownSame
  <2>10. /\ c.d["revocations"].version <= z.d["revocations"].version /\ c.d["revocations"].version \in Nat
         /\ z.d["revocations"].version \in Nat /\ o.d["revocations"].version \in Nat
    BY ZenonT(60), <1>2, <1>5, <2>4, <2>5, <2>6, GrownVersions, GrownSame
  <2>11. Paused(c, o, "trust")
    BY <2>2, <2>8, <2>9 DEF Paused
  <2>12. Paused(c, o, "revocations")
    BY <2>4, <2>10 DEF Paused
  <2> QED BY ZenonT(60), <2>4, <2>7, <2>11, <2>12
<1> QED BY ZenonT(60), <1>1, <1>2, <1>8, <1>9

Notice == [kind : Kinds, version : Nat, generation : Nat]

\* The database holds what the notice announces, or something newer.
Covered(n, d) == n.generation <= d.generation /\ n.version <= d[n.kind].version

LEMMA ConcatElements ==
  ASSUME NEW S, NEW p \in Seq(S), NEW q \in Seq(S)
  PROVE  /\ p \o q \in Seq(S)
         /\ \A i \in DOMAIN (p \o q) : \/ \E j \in DOMAIN p : (p \o q)[i] = p[j]
                                      \/ \E j \in DOMAIN q : (p \o q)[i] = q[j]
         /\ p \o q = <<>> => p = <<>> /\ q = <<>>
<1>1. p \o q \in Seq(S) /\ Len(p \o q) = Len(p) + Len(q) /\ Len(p) \in Nat /\ Len(q) \in Nat
  OBVIOUS
<1>2. ASSUME NEW i \in DOMAIN (p \o q)
      PROVE  \/ \E j \in DOMAIN p : (p \o q)[i] = p[j]
             \/ \E j \in DOMAIN q : (p \o q)[i] = q[j]
  <2>1. i \in 1 .. Len(p) + Len(q)
    BY <1>1
  <2>2. CASE i <= Len(p)
    <3>1. i \in DOMAIN p /\ (p \o q)[i] = p[i]
      BY <1>1, <2>1, <2>2
    <3> QED BY ZenonT(60), <3>1
  <2>3. CASE i > Len(p)
    <3>1. i - Len(p) \in DOMAIN q /\ (p \o q)[i] = q[i - Len(p)]
      BY <1>1, <2>1, <2>3
    <3> QED BY ZenonT(60), <3>1
  <2> QED BY <1>1, <2>1, <2>2, <2>3
<1>3. p \o q = <<>> => p = <<>> /\ q = <<>>
  BY <1>1
<1> QED BY ZenonT(60), <1>1, <1>2, <1>3

LEMMA NoticesSaid ==
  ASSUME NEW b \in Database, NEW e \in Database
  PROVE  /\ Notices(b, e) \in Seq(Notice)
         /\ \A i \in DOMAIN Notices(b, e) : Covered(Notices(b, e)[i], e)
         /\ Notices(b, e) = <<>> => b.trust.version = e.trust.version /\ b.revocations.version = e.revocations.version
<1> DEFINE N(k) == [kind |-> k, version |-> e[k].version, generation |-> e.generation]
           One(k) == IF b[k].version = e[k].version THEN <<>> ELSE <<N(k)>>
<1>1. ASSUME NEW k \in Kinds PROVE N(k) \in Notice /\ Covered(N(k), e)
  <2>1. e[k] \in Snapshot /\ e.generation \in Nat
    BY ZenonT(60) DEF Database, Kinds
  <2>2. e[k].version \in Nat
    BY ZenonT(60), <2>1 DEF Snapshot
  <2> QED BY <2>1, <2>2 DEF Notice, Covered
<1>2. PICK x \in Notice : x = N("trust") /\ Covered(x, e)
  BY ZenonT(60), <1>1 DEF Kinds
<1>3. PICK y \in Notice : y = N("revocations") /\ Covered(y, e)
  BY ZenonT(60), <1>1 DEF Kinds
<1>4. Notices(b, e) = One("trust") \o One("revocations")
  BY ZenonT(60) DEF Notices
<1>5. /\ One("trust") = IF b.trust.version = e.trust.version THEN <<>> ELSE <<x>>
      /\ One("revocations") = IF b.revocations.version = e.revocations.version THEN <<>> ELSE <<y>>
  BY ZenonT(60), <1>2, <1>3
<1> HIDE DEF N, One
<1>6. ASSUME NEW p \in {<<>>, <<x>>}, NEW q \in {<<>>, <<y>>}
      PROVE  /\ p \o q \in Seq(Notice)
             /\ \A i \in DOMAIN (p \o q) : (p \o q)[i] = x \/ (p \o q)[i] = y
             /\ p \o q = <<>> => p = <<>> /\ q = <<>>
  <2>1. p \in Seq(Notice) /\ q \in Seq(Notice)
        /\ (\A j \in DOMAIN p : p[j] = x) /\ \A j \in DOMAIN q : q[j] = y
    <3>1. ASSUME NEW n \in Notice, NEW r \in {<<>>, <<n>>}
          PROVE  r \in Seq(Notice) /\ \A j \in DOMAIN r : r[j] = n
      <4>1. CASE r = <<>>
        BY <4>1
      <4>2. CASE r = <<n>>
        BY <4>2
      <4> QED BY ZenonT(60), <4>1, <4>2
    <3> QED BY ZenonT(60), <3>1
  <2> QED BY <2>1, ConcatElements
<1>7. PICK p \in {<<>>, <<x>>}, q \in {<<>>, <<y>>} : p = One("trust") /\ q = One("revocations")
  BY ZenonT(60), <1>5
<1>8. Notices(b, e) = p \o q
  BY ZenonT(60), <1>4, <1>7
<1>9. <<x>> # <<>> /\ <<y>> # <<>>
  BY ZenonT(60)
<1>10. /\ Notices(b, e) \in Seq(Notice)
       /\ \A i \in DOMAIN Notices(b, e) : Notices(b, e)[i] = x \/ Notices(b, e)[i] = y
       /\ Notices(b, e) = <<>> => p = <<>> /\ q = <<>>
  BY ZenonT(60), <1>6, <1>8
<1>11. \A i \in DOMAIN Notices(b, e) : Covered(Notices(b, e)[i], e)
  BY ZenonT(60), <1>2, <1>3, <1>10
<1> QED BY ZenonT(60), <1>5, <1>7, <1>9, <1>10, <1>11

\* signature.service decides with the database on the disk, or will hear of it.
Informed ==
  ~lost /\ sig.up =>
    \/ announced # <<>>
    \/ upd.pc = "notify" /\ Notices(upd.before, upd.state) # <<>>
    \/ sig.db = persisted
    \/ LoadActiveDatabase = NotLoaded

\* Everything the runs and DatabaseInStep need, preserved by every step.
TrustInv ==
  /\ now \in Nat /\ trouble \in Nat /\ lost \in BOOLEAN /\ Numbered
  /\ persisted \in Database /\ FromServer(persisted)
  /\ upd \in Updater
  /\ upd.pc # "down" => upd.state = persisted
  /\ announced \in Seq(Notice) /\ \A i \in DOMAIN announced : Covered(announced[i], persisted)
  /\ peak \in [Kinds -> Nat] /\ \A k \in Kinds : persisted[k].version = peak[k]
  /\ sig = [up |-> sig.up, db |-> sig.db] /\ sig.up \in BOOLEAN
  /\ ~hurried
  /\ Informed

LEMMA CoveredGrown ==
  ASSUME NEW d \in Database, NEW e \in Database, Grown(d, e), NEW n \in Notice, Covered(n, d)
  PROVE  Covered(n, e)
<1>1. n.kind \in Kinds /\ n.version \in Nat /\ n.generation \in Nat
  BY ZenonT(60) DEF Notice
<1>2. d.generation <= e.generation /\ d.generation \in Nat /\ e.generation \in Nat
  BY ZenonT(60) DEF Grown, Database
<1>3. d[n.kind].version <= e[n.kind].version /\ d[n.kind].version \in Nat
  BY ZenonT(60), <1>1, GrownVersions
<1>4. e[n.kind].version \in Nat
  BY ZenonT(60), <1>1, GrownVersions, GrownSame
<1> QED BY <1>1, <1>2, <1>3, <1>4 DEF Covered

LEMMA SynchronizeInv == TrustInv /\ Synchronize => TrustInv'
<1> SUFFICES ASSUME TrustInv, Synchronize PROVE TrustInv'
  BY ZenonT(60)
<1> DEFINE start == [u |-> upd, d |-> persisted, t |-> trouble, unknown |-> FALSE]
<1>1. PICK c \in SynchronizeDue(start) :
        /\ upd' = [c.u EXCEPT !.pc = "notify", !.before = upd.state]
        /\ persisted' = c.d
        /\ trouble' = c.t
        /\ hurried' = Hurried(upd, c.u)
        /\ peak' = [k \in Kinds |-> Most(peak[k], c.d[k].version)]
  BY ZenonT(60) DEF Synchronize
<1>2. upd.pc = "idle" /\ now' = now /\ server' = server /\ sig' = sig /\ announced' = announced /\ lost' = lost
  BY ZenonT(60) DEF Synchronize
<1>3. now \in Nat /\ Numbered /\ persisted \in Database /\ FromServer(persisted) /\ upd \in Updater
      /\ upd.state = persisted /\ trouble \in Nat /\ announced \in Seq(Notice) /\ peak \in [Kinds -> Nat]
  BY ZenonT(60), <1>2 DEF TrustInv
<1>4. Round(start) /\ ~start.unknown
  BY ZenonT(60), <1>3 DEF Round
<1>5. PICK s : s = start
  BY ZenonT(60)
<1>6. Round(s) /\ ~s.unknown /\ s.u = upd /\ s.d = persisted /\ c \in SynchronizeDue(s)
  BY ZenonT(60), <1>1, <1>4, <1>5
<1> HIDE DEF start
<1>7. Round(c) /\ Grown(s.d, c.d) /\ \A k \in Kinds : s.u.next[k] <= now => Paused(s, c, k)
  BY ZenonT(60), <1>3, <1>6, DueEffect
<1>8. c.d \in Database /\ c.u \in Updater /\ c.u.state = c.d /\ FromServer(c.d) /\ c.t \in Nat
  BY ZenonT(60), <1>7 DEF Round
<1>9. Numbered' /\ FromServer(persisted)' /\ persisted' \in Database
  BY ZenonT(60), <1>1, <1>2, <1>3, <1>8 DEF Numbered, FromServer, Published
<1>10. upd' \in Updater /\ upd'.pc = "notify" /\ upd'.state = persisted' /\ upd'.before = persisted
  BY ZenonT(60), <1>1, <1>3, <1>8 DEF Updater
<1>11. \A i \in DOMAIN announced' : Covered(announced[i], c.d)
  <2>1. TAKE i \in DOMAIN announced'
  <2>2. announced[i] \in Notice /\ Covered(announced[i], persisted)
    BY <1>2, <1>3 DEF TrustInv
  <2> QED BY ZenonT(60), <1>3, <1>6, <1>7, <1>8, <2>2, CoveredGrown
<1>12. \A i \in DOMAIN announced' : Covered(announced[i], persisted)'
  BY ZenonT(60), <1>1, <1>2, <1>11 DEF Covered
<1>13. peak' \in [Kinds -> Nat] /\ \A k \in Kinds : persisted'[k].version = peak'[k]
  <2>1. ASSUME NEW k \in Kinds PROVE Most(peak[k], c.d[k].version) = c.d[k].version /\ c.d[k].version \in Nat
    <3>1. persisted[k].version <= c.d[k].version /\ persisted[k].version \in Nat
      BY ZenonT(60), <1>3, <1>6, <1>7, <1>8, GrownVersions
    <3>2. c.d[k].version \in Nat
      BY ZenonT(60), <1>8, GrownVersions, GrownSame
    <3>3. peak[k] = persisted[k].version
      BY ZenonT(60) DEF TrustInv
    <3> QED BY <3>1, <3>2, <3>3 DEF Most
  <2> QED BY ZenonT(60), <1>1, <2>1
<1>14. ~hurried'
  <2>1. ASSUME NEW k \in Kinds, upd.next[k] <= now, c.u.next[k] <= now, upd.state[k] = c.u.state[k]
        PROVE  FALSE
    <3>1. c.u.next[k] > now \/ persisted[k].version < c.d[k].version
      BY ZenonT(60), <1>6, <1>7, <2>1 DEF Paused
    <3>2. c.u.next[k] \in Nat
      BY ZenonT(60), <1>8 DEF Updater
    <3>3. c.d[k].version \in Nat /\ persisted[k] = c.d[k]
      BY ZenonT(60), <1>3, <1>8, <2>1, GrownVersions, GrownSame
    <3> QED BY <1>3, <2>1, <3>1, <3>2, <3>3
  <2> QED BY ZenonT(60), <1>1, <2>1 DEF Hurried
<1>15. Informed'
  <2>1. CASE persisted' = persisted
    BY ZenonT(60), <1>2, <2>1 DEF TrustInv, Informed, LoadActiveDatabase, StoredVerifies, VerifyRevocationSnapshot
  <2>2. CASE persisted' # persisted
    <3>1. persisted.trust # c.d.trust \/ persisted.revocations # c.d.revocations
      BY ZenonT(60), <1>1, <1>6, <1>7, <2>2 DEF Grown
    <3>2. /\ persisted.trust.version \in Nat /\ c.d.trust.version \in Nat
          /\ persisted.revocations.version \in Nat /\ c.d.revocations.version \in Nat
      BY ZenonT(60), <1>3, <1>8 DEF Database, Snapshot
    <3>3. persisted.trust.version # c.d.trust.version \/ persisted.revocations.version # c.d.revocations.version
      BY <1>6, <1>7, <3>1, <3>2 DEF Grown, Newer
    <3>4. Notices(persisted, c.d) # <<>>
      BY ZenonT(60), <1>3, <1>8, <3>3, NoticesSaid
    <3>5. Notices(upd.before, upd.state)' # <<>>
      BY ZenonT(60), <1>1, <1>10, <3>4 DEF Notices
    <3> QED BY ZenonT(60), <1>10, <3>5 DEF Informed
  <2> QED BY ZenonT(60), <2>1, <2>2
<1> QED BY ZenonT(60), <1>1, <1>2, <1>3, <1>8, <1>9, <1>10, <1>12, <1>13, <1>14, <1>15 DEF TrustInv

LEMMA NotifyChangesInv == TrustInv /\ NotifyChanges => TrustInv'
<1> SUFFICES ASSUME TrustInv, NotifyChanges PROVE TrustInv'
  BY ZenonT(60)
<1>1. /\ upd.pc = "notify" /\ upd' = [upd EXCEPT !.pc = "idle", !.before = Empty]
      /\ now' = now /\ server' = server /\ persisted' = persisted /\ sig' = sig
      /\ hurried' = hurried /\ peak' = peak /\ trouble' = trouble
  BY ZenonT(60) DEF NotifyChanges
<1>2. PICK a : a = Notices(upd.before, upd.state)
  BY ZenonT(60)
<1>3. \/ sig.up /\ announced' = announced \o a /\ lost' = lost
      \/ ~sig.up /\ announced' = announced /\ lost' = (lost \/ a # <<>>)
  BY ZenonT(60), <1>2 DEF NotifyChanges
<1>4. upd \in Updater /\ upd.state = persisted /\ persisted \in Database /\ upd.before \in Database
  BY ZenonT(60), <1>1 DEF TrustInv, Updater
<1>5. a \in Seq(Notice) /\ \A i \in DOMAIN a : Covered(a[i], persisted)
  BY ZenonT(60), <1>2, <1>4, NoticesSaid
<1>6. Empty \in Database
  BY ZenonT(60) DEF Empty, NoSnapshot, Database, Snapshot
<1>7. upd' \in Updater /\ upd'.pc = "idle" /\ upd'.state = persisted'
  BY ZenonT(60), <1>1, <1>4, <1>6 DEF Updater
<1>8. announced \in Seq(Notice) /\ \A i \in DOMAIN announced : Covered(announced[i], persisted)
  BY ZenonT(60) DEF TrustInv
<1>9. announced' \in Seq(Notice) /\ \A i \in DOMAIN announced' : Covered(announced'[i], persisted)
  <2>1. CASE announced' = announced \o a
    BY <1>5, <1>8, <2>1, ConcatElements
  <2>2. CASE announced' = announced
    BY ZenonT(60), <1>8, <2>2
  <2> QED BY ZenonT(60), <1>3, <2>1, <2>2
<1>10. \A i \in DOMAIN announced' : Covered(announced[i], persisted)'
  BY ZenonT(60), <1>1, <1>9 DEF Covered
<1>11. Informed'
  <2>1. CASE sig.up
    <3>1. announced' = announced \o a /\ lost' = lost /\ sig' = sig
      BY ZenonT(60), <1>1, <1>3, <2>1
    <3>2. announced # <<>> \/ a # <<>> => announced' # <<>>
      BY ZenonT(60), <1>5, <1>8, <3>1, ConcatElements
    <3> QED BY ZenonT(60), <1>1, <1>2, <3>1, <3>2
          DEF TrustInv, Informed, LoadActiveDatabase, StoredVerifies, VerifyRevocationSnapshot
  <2>2. CASE ~sig.up
    BY ZenonT(60), <1>1, <2>2 DEF Informed
  <2> QED BY ZenonT(60), <2>1, <2>2
<1>12. Numbered' /\ FromServer(persisted)' /\ lost' \in BOOLEAN
  BY ZenonT(60), <1>1, <1>3 DEF TrustInv, Numbered, FromServer, Published
<1> QED BY ZenonT(60), <1>1, <1>4, <1>7, <1>9, <1>10, <1>11, <1>12 DEF TrustInv

LEMMA UpdateDiesInv == TrustInv /\ UpdateDies => TrustInv'
<1> SUFFICES ASSUME TrustInv, UpdateDies PROVE TrustInv'
  BY ZenonT(60)
<1>1. /\ trouble > 0 /\ upd.pc # "down" /\ trouble' = trouble - 1
      /\ lost' = (lost \/ (upd.pc = "notify" /\ Notices(upd.before, upd.state) # <<>>))
      /\ upd' = [upd EXCEPT !.pc = "down", !.state = Empty, !.before = Empty]
      /\ now' = now /\ server' = server /\ persisted' = persisted /\ sig' = sig /\ announced' = announced
      /\ hurried' = hurried /\ peak' = peak
  BY ZenonT(60) DEF UpdateDies
<1>2. Empty \in Database
  BY ZenonT(60) DEF Empty, NoSnapshot, Database, Snapshot
<1>3. upd' \in Updater /\ upd'.pc = "down"
  BY ZenonT(60), <1>1, <1>2 DEF TrustInv, Updater
<1>4. Informed'
  BY ZenonT(60), <1>1 DEF TrustInv, Informed, LoadActiveDatabase, StoredVerifies, VerifyRevocationSnapshot
<1>5. Numbered' /\ FromServer(persisted)' /\ lost' \in BOOLEAN /\ trouble' \in Nat
  BY <1>1 DEF TrustInv, Numbered, FromServer, Published
<1>6. \A i \in DOMAIN announced' : Covered(announced[i], persisted)'
  BY ZenonT(60), <1>1 DEF TrustInv, Covered
<1> QED BY ZenonT(60), <1>1, <1>3, <1>4, <1>5, <1>6 DEF TrustInv

LEMMA LoadRepositoryInv == TrustInv /\ LoadRepository => TrustInv'
<1> SUFFICES ASSUME TrustInv, LoadRepository PROVE TrustInv'
  BY ZenonT(60)
<1>1. /\ upd.pc = "down"
      /\ upd' = [pc |-> "idle", state |-> persisted, before |-> Empty,
                 next |-> [k \in Kinds |-> now], fails |-> [k \in Kinds |-> 0]]
      /\ now' = now /\ server' = server /\ persisted' = persisted /\ sig' = sig /\ announced' = announced
      /\ hurried' = hurried /\ peak' = peak /\ lost' = lost /\ trouble' = trouble
  BY ZenonT(60) DEF LoadRepository
<1>2. Empty \in Database /\ 0 \in 0 .. Len(Backoff)
  BY TrustAssumption DEF Empty, NoSnapshot, Database, Snapshot
<1>3. upd' \in Updater /\ upd'.pc = "idle" /\ upd'.state = persisted'
  BY ZenonT(60), <1>1, <1>2 DEF TrustInv, Updater
<1>4. Informed'
  BY ZenonT(60), <1>1 DEF TrustInv, Informed, LoadActiveDatabase, StoredVerifies, VerifyRevocationSnapshot
<1>5. Numbered' /\ FromServer(persisted)'
  BY ZenonT(60), <1>1 DEF TrustInv, Numbered, FromServer, Published
<1>6. \A i \in DOMAIN announced' : Covered(announced[i], persisted)'
  BY ZenonT(60), <1>1 DEF TrustInv, Covered
<1> QED BY ZenonT(60), <1>1, <1>3, <1>4, <1>5, <1>6 DEF TrustInv

LEMMA LoadedDatabase == LoadActiveDatabase = persisted \/ LoadActiveDatabase = NotLoaded
BY ZenonT(60) DEF LoadActiveDatabase

LEMMA SignatureInv == TrustInv /\ (InstallEndpoint \/ HandleUpdateNotification \/ SignatureDies) => TrustInv'
<1> SUFFICES ASSUME TrustInv, InstallEndpoint \/ HandleUpdateNotification \/ SignatureDies PROVE TrustInv'
  BY ZenonT(60)
<1>1. /\ now' = now /\ server' = server /\ persisted' = persisted /\ upd' = upd
      /\ hurried' = hurried /\ peak' = peak
  BY ZenonT(60) DEF InstallEndpoint, HandleUpdateNotification, SignatureDies
<1>2. Numbered' /\ FromServer(persisted)' /\ LoadActiveDatabase' = LoadActiveDatabase
  BY ZenonT(60), <1>1 DEF TrustInv, Numbered, FromServer, Published, LoadActiveDatabase, StoredVerifies, VerifyRevocationSnapshot
<1>3. announced \in Seq(Notice) /\ \A i \in DOMAIN announced : Covered(announced[i], persisted)
  BY ZenonT(60) DEF TrustInv
<1>4. trouble \in Nat /\ lost \in BOOLEAN /\ sig = [up |-> sig.up, db |-> sig.db] /\ sig.up \in BOOLEAN
  BY ZenonT(60) DEF TrustInv
<1>5. /\ trouble' \in Nat /\ lost' \in BOOLEAN
      /\ sig' = [up |-> sig'.up, db |-> sig'.db] /\ sig'.up \in BOOLEAN
  <2>1. CASE InstallEndpoint
    BY ZenonT(60), <1>4, <2>1 DEF InstallEndpoint
  <2>2. CASE HandleUpdateNotification
    <3>1. trouble' = trouble /\ lost' = lost /\ (sig' = sig \/ sig' = [sig EXCEPT !.db = LoadActiveDatabase])
      BY ZenonT(60), <2>2 DEF HandleUpdateNotification
    <3> QED BY ZenonT(60), <1>4, <3>1
  <2>3. CASE SignatureDies
    BY <1>4, <2>3 DEF SignatureDies
  <2> QED BY ZenonT(60), <2>1, <2>2, <2>3
<1>6. announced' \in Seq(Notice) /\ \A i \in DOMAIN announced' : Covered(announced'[i], persisted)
  <2>1. CASE InstallEndpoint
    BY ZenonT(60), <1>3, <2>1 DEF InstallEndpoint
  <2>2. CASE HandleUpdateNotification
    BY <1>3, <2>2 DEF HandleUpdateNotification
  <2>3. CASE SignatureDies
    BY <2>3 DEF SignatureDies
  <2> QED BY ZenonT(60), <2>1, <2>2, <2>3
<1>7. \A i \in DOMAIN announced' : Covered(announced[i], persisted)'
  BY ZenonT(60), <1>1, <1>6 DEF Covered
<1>8. Informed'
  <2>1. CASE InstallEndpoint
    BY ZenonT(60), <1>1, <1>2, <2>1, LoadedDatabase DEF InstallEndpoint, Informed
  <2>2. CASE HandleUpdateNotification
    <3>1. announced # <<>>
      BY ZenonT(60), <2>2 DEF HandleUpdateNotification
    <3>2. PICK n \in Notice : n = Head(announced) /\ Covered(n, persisted)
      BY <1>3, <3>1
    <3>3. sig' = IF LoadActiveDatabase # NotLoaded /\ LoadActiveDatabase.generation >= n.generation
                    /\ LoadActiveDatabase[n.kind].version >= n.version
                 THEN [sig EXCEPT !.db = LoadActiveDatabase] ELSE sig
      BY ZenonT(60), <2>2, <3>2 DEF HandleUpdateNotification
    <3>4. n.kind \in Kinds /\ n.version \in Nat /\ n.generation \in Nat
      BY ZenonT(60) DEF Notice
    <3>5. persisted.generation \in Nat /\ persisted[n.kind].version \in Nat
      BY ZenonT(60), <3>4, GrownVersions, GrownSame DEF TrustInv, Database
    <3>6. CASE LoadActiveDatabase = NotLoaded
      BY ZenonT(60), <1>2, <3>6 DEF Informed
    <3>7. CASE LoadActiveDatabase = persisted /\ LoadActiveDatabase # NotLoaded
      <4>1. sig' = [sig EXCEPT !.db = persisted]
        BY ZenonT(60), <3>2, <3>3, <3>4, <3>5, <3>7 DEF Covered
      <4>2. sig'.db = persisted'
        BY ZenonT(60), <1>1, <4>1 DEF TrustInv
      <4> QED BY ZenonT(60), <4>2 DEF Informed
    <3> QED BY ZenonT(60), <3>6, <3>7, LoadedDatabase
  <2>3. CASE SignatureDies
    BY ZenonT(60), <2>3 DEF SignatureDies, Informed
  <2> QED BY ZenonT(60), <2>1, <2>2, <2>3
<1> QED BY ZenonT(60), <1>1, <1>2, <1>4, <1>5, <1>6, <1>7, <1>8 DEF TrustInv

LEMMA PublishInv == TrustInv /\ Publish => TrustInv'
<1> SUFFICES ASSUME TrustInv, Publish PROVE TrustInv'
  BY ZenonT(60)
<1>1. /\ now' = now /\ persisted' = persisted /\ upd' = upd /\ sig' = sig /\ announced' = announced
      /\ lost' = lost /\ hurried' = hurried /\ peak' = peak /\ trouble' = trouble
  BY ZenonT(60) DEF Publish
<1>2. PICK k \in Kinds, i \in SUBSET Issuer :
        server' = [server EXCEPT ![k] = Append(@, [version |-> Len(@) + 1, generated |-> now, issuers |-> i])]
  BY ZenonT(60) DEF Publish
<1>3. now \in Nat /\ Numbered /\ FromServer(persisted)
  BY ZenonT(60) DEF TrustInv
<1>4. server[k] \in Seq(Snapshot) /\ Len(server[k]) \in Nat
  BY <1>3 DEF Numbered
<1>5. PICK e \in Snapshot : e = [version |-> Len(server[k]) + 1, generated |-> now, issuers |-> i]
  <2>1. Len(server[k]) + 1 \in Nat
    BY <1>4
  <2>2. [version |-> Len(server[k]) + 1, generated |-> now, issuers |-> i] \in Snapshot
    BY ZenonT(60), <1>3, <2>1 DEF Snapshot
  <2> QED BY ZenonT(60), <2>2
<1>6. /\ Append(server[k], e) \in Seq(Snapshot) /\ Len(Append(server[k], e)) = Len(server[k]) + 1
      /\ \A j \in 1 .. Len(server[k]) : Append(server[k], e)[j] = server[k][j]
      /\ Append(server[k], e)[Len(server[k]) + 1] = e
  <2>1. ASSUME NEW q \in Seq(Snapshot)
        PROVE  /\ Append(q, e) \in Seq(Snapshot) /\ Len(Append(q, e)) = Len(q) + 1
               /\ \A j \in 1 .. Len(q) : Append(q, e)[j] = q[j]
               /\ Append(q, e)[Len(q) + 1] = e
    OBVIOUS
  <2> QED BY ZenonT(60), <1>4, <2>1
<1>7. e.version = Len(server[k]) + 1
  BY ZenonT(60), <1>5
<1>8. server' = [server EXCEPT ![k] = Append(server[k], e)]
  BY ZenonT(60), <1>2, <1>5
<1>9. server' \in [Kinds -> Seq(Snapshot)] /\ server \in [Kinds -> Seq(Snapshot)]
  BY ZenonT(60), <1>3, <1>6, <1>8 DEF Numbered
<1>10. Numbered'
  <2>1. ASSUME NEW l \in Kinds, NEW j \in DOMAIN server'[l] PROVE server'[l][j].version = j
    <3>1. CASE l = k
      BY <1>3, <1>4, <1>6, <1>7, <1>8, <1>9, <3>1 DEF Numbered
    <3>2. CASE l # k
      BY ZenonT(60), <1>3, <1>8, <1>9, <3>2 DEF Numbered
    <3> QED BY ZenonT(60), <3>1, <3>2
  <2> QED BY ZenonT(60), <1>9, <2>1 DEF Numbered
<1>11. ASSUME NEW l \in Kinds, NEW r \in Range(server[l]) PROVE r \in Range(server'[l])
  <2>1. PICK j \in DOMAIN server[l] : r = server[l][j]
    BY ZenonT(60) DEF Range
  <2>2. j \in DOMAIN server'[l] /\ server'[l][j] = r
    <3>1. CASE l = k
      BY <1>4, <1>6, <1>8, <1>9, <2>1, <3>1
    <3>2. CASE l # k
      BY ZenonT(60), <1>8, <1>9, <2>1, <3>2
    <3> QED BY ZenonT(60), <3>1, <3>2
  <2> QED BY ZenonT(60), <2>2 DEF Range
<1>12. FromServer(persisted)'
  BY ZenonT(60), <1>1, <1>3, <1>11 DEF FromServer, Published, Kinds
<1>13. Informed' /\ \A j \in DOMAIN announced' : Covered(announced[j], persisted)'
  BY ZenonT(60), <1>1 DEF TrustInv, Informed, LoadActiveDatabase, StoredVerifies, VerifyRevocationSnapshot, Covered
<1> QED BY ZenonT(60), <1>1, <1>10, <1>12, <1>13 DEF TrustInv

LEMMA QuietInv == TrustInv /\ (Pass \/ UNCHANGED trustVars) => TrustInv'
<1> SUFFICES ASSUME TrustInv, Pass \/ UNCHANGED trustVars PROVE TrustInv'
  BY ZenonT(60)
<1>1. /\ server' = server /\ persisted' = persisted /\ upd' = upd /\ sig' = sig /\ announced' = announced
      /\ lost' = lost /\ hurried' = hurried /\ peak' = peak /\ trouble' = trouble
  BY ZenonT(60) DEF Pass, trustVars
<1>2. now' \in Nat
  BY DEF Pass, trustVars, TrustInv
<1>3. Informed' /\ \A j \in DOMAIN announced' : Covered(announced[j], persisted)'
  BY ZenonT(60), <1>1 DEF TrustInv, Informed, LoadActiveDatabase, StoredVerifies, VerifyRevocationSnapshot, Covered
<1>4. Numbered' /\ FromServer(persisted)'
  BY ZenonT(60), <1>1 DEF TrustInv, Numbered, FromServer, Published
<1> QED BY ZenonT(60), <1>1, <1>2, <1>3, <1>4 DEF TrustInv

LEMMA TrustInitInv == TrustInit => TrustInv
<1> SUFFICES ASSUME TrustInit PROVE TrustInv
  BY ZenonT(60)
<1>1. PICK i \in SUBSET Issuer, j \in Issuer :
        server = [k \in Kinds |-> <<[version |-> 1, generated |-> 0, issuers |-> IF k = "trust" THEN i ELSE {j}]>>]
  BY ZenonT(60) DEF TrustInit
<1>2. Numbered
  <2>1. ASSUME NEW k \in Kinds PROVE server[k] \in Seq(Snapshot) /\ \A n \in DOMAIN server[k] : server[k][n].version = n
    <3>1. PICK e \in Snapshot : e = [version |-> 1, generated |-> 0, issuers |-> IF k = "trust" THEN i ELSE {j}]
      BY <1>1 DEF Snapshot
    <3>2. server[k] = <<e>> /\ e.version = 1
      BY ZenonT(60), <1>1, <3>1
    <3> QED BY <3>2
  <2>2. server = [k \in Kinds |-> server[k]]
    BY ZenonT(60), <1>1
  <2> QED BY ZenonT(60), <2>1, <2>2 DEF Numbered
<1>3. /\ now = 0 /\ persisted = Empty /\ announced = <<>> /\ lost = FALSE /\ hurried = FALSE
      /\ peak = [k \in Kinds |-> 0] /\ trouble = MaxTrouble /\ sig = [up |-> FALSE, db |-> NotLoaded]
      /\ upd = [pc |-> "down", state |-> Empty, before |-> Empty,
                next |-> [k \in Kinds |-> 0], fails |-> [k \in Kinds |-> 0]]
  BY ZenonT(60) DEF TrustInit
<1>4. /\ Empty \in Database /\ 0 \in 0 .. Len(Backoff)
      /\ Empty.trust = NoSnapshot /\ Empty.revocations = NoSnapshot /\ NoSnapshot.version = 0
  BY TrustAssumption DEF Empty, NoSnapshot, Database, Snapshot
<1>5. upd \in Updater /\ upd.pc = "down"
  BY ZenonT(60), <1>3, <1>4 DEF Updater
<1>6. FromServer(persisted)
  BY ZenonT(60), <1>3, <1>4 DEF FromServer, Published
<1>7. peak \in [Kinds -> Nat] /\ \A k \in Kinds : persisted[k].version = peak[k]
  BY ZenonT(60), <1>3, <1>4 DEF Kinds
<1>8. announced \in Seq(Notice) /\ \A n \in DOMAIN announced : Covered(announced[n], persisted)
  BY <1>3
<1>9. sig = [up |-> sig.up, db |-> sig.db] /\ sig.up = FALSE
  BY ZenonT(60), <1>3
<1>10. Informed
  BY ZenonT(60), <1>9 DEF Informed
<1> QED BY ZenonT(60), <1>2, <1>3, <1>4, <1>5, <1>6, <1>7, <1>8, <1>9, <1>10, TrustAssumption DEF TrustInv

\* The updater, the disk, the notices under way and signature.service are in step in
\* every reachable state of the certificate database (update/src/service.rs:65,
\* notifier.rs:28, signature/src/main.rs:832).
THEOREM TrustInvariance == TrustSpec => []TrustInv
<1>1. TrustInit => TrustInv
  BY ZenonT(60), TrustInitInv
<1>2. TrustInv /\ [TrustNext]_trustVars => TrustInv'
  BY ZenonT(60), SynchronizeInv, NotifyChangesInv, UpdateDiesInv, LoadRepositoryInv, SignatureInv, PublishInv, QuietInv
     DEF TrustNext
<1> QED BY <1>1, <1>2, PTL DEF TrustSpec

\* What update.service holds is on the disk, no snapshot goes back, signature.service
\* decides with the database on the disk once it has heard everything, and a fruitless
\* attempt is followed by a pause (update/src/service.rs:65, scheduler.rs:85,
\* signature/src/main.rs:832).
THEOREM DatabaseAlwaysInStep == TrustSpec => []DatabaseInStep
<1>1. TrustInv => DatabaseInStep
  BY ZenonT(60) DEF TrustInv, Informed, DatabaseInStep
<1> QED BY <1>1, TrustInvariance, PTL
=============================================================================
