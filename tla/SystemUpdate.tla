----------------------------- MODULE SystemUpdate -----------------------------
(* update.service installing a new system into the inactive one of two slots,   *)
(* the trial boots that follow and the result it reports.  The image is fetched *)
(* chunk by chunk, written through the disk's cache, read back, and published by *)
(* the boot-state record; power may fail anywhere, and what was written but not  *)
(* flushed may or may not have reached the disk.                                *)
(*                                                                              *)
(* A chunk holds the build number of the image it belongs to, Garbage when it is *)
(* anything else.  The boot-state store (storage::load, stage, confirm) and the  *)
(* boot loader are external: a trial boot spends an attempt, an exhausted trial  *)
(* is dropped.                                                                  *)
EXTENDS Integers, FiniteSets

CONSTANTS
  Chunks,        \* chunks of an image
  MaxBuild,      \* highest build number
  MaxTrial,      \* MAX_TRIAL_BOOTS
  MaxRevision,   \* consent decisions in a behaviour, at most
  MaxFaults      \* failing operations and power failures during an installation

ASSUME UpdateAssumption ==
  Chunks \in Nat \ {0} /\ MaxBuild \in Nat \ {0} /\ MaxTrial \in Nat

VARIABLES
  disk,          \* slot -> chunk -> build: what is durable
  cache,         \* slot -> chunk -> build: what a read returns
  record,        \* the boot-state record: [active, pending, attempts]
  sys,           \* the running system: [slot, stage]
  job,           \* the installation: [step, build, next, digest, tag]
  result,        \* the pending update result file
  consent,       \* revision of the consent to report update results, Withdrawn
  revision,      \* consent decisions so far
  past,          \* history: builds confirmed and builds rolled back
  faults         \* failures left

updateVars == <<disk, cache, record, sys, job, result, consent, revision, past, faults>>

Slots == {"A", "B"}
Other(s) == IF s = "A" THEN "B" ELSE "A"
Off == "off"
NoSlot == "none"
Garbage == 0
Withdrawn == 0
NoTag == "none"
NoResult == [outcome |-> "none", target |-> 0, slot |-> NoSlot, stamp |-> 0]
NoJob == [step |-> "none", build |-> 0, next |-> 0, digest |-> TRUE, tag |-> NoTag]
Image(b) == [k \in 1 .. Chunks |-> b]
Holds(slot, b) == slot = Image(b)
Complete(slot) == \E b \in 1 .. MaxBuild : Holds(slot, b)
BuildOf(slot) == slot[1]

(* release_identity: the build of the running system.                            *)
CurrentBuild == BuildOf(cache[sys.slot])

(* save_atomic, remove_file: the file holds the new record, or the old one when   *)
(* the write fails; the second component is the cost.                            *)
Saved(old, new) == {<<new, 0>>, <<old, 1>>}

(* record_staged_update.                                                         *)
RecordStagedUpdate(b, target) ==
  IF consent = Withdrawn THEN {<<result, 0>>}
  ELSE Saved(result, [outcome |-> "staged", target |-> b, slot |-> target, stamp |-> consent])

(* record_failed_update.                                                         *)
RecordFailedUpdate(old, b) ==
  IF consent = Withdrawn THEN {<<old, 0>>}
  ELSE Saved(old, [outcome |-> "failed", target |-> b, slot |-> NoSlot, stamp |-> consent])

(* purge_reportable_update_result: a result with an outcome goes; one that still *)
(* waits for its first boot stays.                                               *)
PurgeReportableUpdateResult ==
  IF result.outcome \in {"none", "staged"} THEN {<<result, 0>>} ELSE Saved(result, NoResult)

(* (A mutant.) A result that already has an outcome is decided again.            *)
RecordBootOutcomeTwice(running, confirmed) ==
  IF consent = Withdrawn THEN PurgeReportableUpdateResult
  ELSE IF result = NoResult THEN {<<result, 0>>}
  ELSE IF result.stamp # consent THEN Saved(result, NoResult)
  ELSE Saved(result, [result EXCEPT !.outcome = IF result.slot = running THEN "succeeded" ELSE "rolled_back"])

(* record_boot_outcome: the first boot after staging decides the result.          *)
RecordBootOutcome(running, confirmed) ==
  IF consent = Withdrawn THEN PurgeReportableUpdateResult
  ELSE IF result = NoResult THEN {<<result, 0>>}
  ELSE IF result.stamp # consent THEN Saved(result, NoResult)
  ELSE IF result.outcome # "staged" \/ (confirmed /\ result.slot # running) THEN {<<result, 0>>}
  ELSE Saved(result, [result EXCEPT !.outcome = IF result.slot = running THEN "succeeded" ELSE "rolled_back"])

(* queue_update_result: a decided result moves to the delivery queue; one given  *)
(* under another consent is dropped.                                             *)
QueueUpdateResult ==
  IF result = NoResult \/ (result.stamp = consent /\ result.outcome = "staged") THEN {<<result, 0>>}
  ELSE Saved(result, NoResult)

(* The boot loader (external): a pending slot is tried while attempts are left.   *)
Start ==
  /\ sys.slot = Off
  /\ \/ /\ record.pending # NoSlot
        /\ record.attempts > 0
        /\ record' = [record EXCEPT !.attempts = @ - 1]
        /\ sys' = [slot |-> record.pending, stage |-> "settling"]
        /\ UNCHANGED past
     \/ /\ record.pending # NoSlot
        /\ record.attempts = 0
        /\ record' = [record EXCEPT !.pending = NoSlot]
        /\ sys' = [slot |-> record.active, stage |-> "settling"]
        /\ past' = [past EXCEPT !.rolled = @ \cup {BuildOf(disk[record.pending])}]
     \/ /\ record.pending = NoSlot
        /\ sys' = [slot |-> record.active, stage |-> "settling"]
        /\ UNCHANGED <<record, past>>
  /\ UNCHANGED <<disk, cache, job, result, consent, revision, faults>>

(* Power is lost or the machine restarts: any of the chunks that were written    *)
(* and not flushed may be lost.                                                  *)
PowerLoss ==
  /\ sys.slot # Off
  /\ job # NoJob => faults > 0
  /\ \E kept \in SUBSET (1 .. Chunks), t \in {Other(sys.slot)} :
       disk' = [disk EXCEPT ![t] = [k \in 1 .. Chunks |-> IF k \in kept THEN cache[t][k] ELSE disk[t][k]]]
  /\ cache' = disk'
  /\ sys' = [slot |-> Off, stage |-> "off"]
  /\ job' = NoJob
  /\ faults' = IF job # NoJob THEN faults - 1 ELSE faults
  /\ UNCHANGED <<record, result, consent, revision, past>>

(* The user decides about reporting: each decision is a new revision.            *)
Decide ==
  /\ revision < MaxRevision
  /\ revision' = revision + 1
  /\ consent' \in {Withdrawn, revision + 1}
  /\ consent' # consent
  /\ UNCHANGED <<disk, cache, record, sys, job, result, past, faults>>

(* confirm_running fails (the layout or the record cannot be read, or the new     *)
(* record cannot be written, perhaps after it took effect): nothing is recorded. *)
ConfirmFails ==
  /\ sys.stage = "settling"
  /\ faults > 0
  /\ \/ UNCHANGED <<record, past>>
     \/ /\ record.pending = sys.slot
        /\ record' = [active |-> sys.slot, pending |-> NoSlot, attempts |-> 0]
        /\ past' = [past EXCEPT !.confirmed = @ \cup {CurrentBuild}]
  /\ faults' = faults - 1
  /\ sys' = [sys EXCEPT !.stage = "idle"]
  /\ UNCHANGED <<disk, cache, job, result, consent, revision>>

(* confirm_trial, confirm_running: a stable boot changes nothing, a trial becomes *)
(* permanent, a contradictory record is left alone.                              *)
ConfirmTrial ==
  /\ sys.stage = "settling"
  /\ sys' = [sys EXCEPT !.stage = "idle"]
  /\ LET stable == record.pending = NoSlot /\ record.active = sys.slot
         trial == record.pending = sys.slot /\ record.attempts < MaxTrial
     IN  \E w \in IF stable \/ trial THEN RecordBootOutcome(sys.slot, trial) ELSE {<<result, 0>>} :
           /\ faults >= w[2]
           /\ result' = w[1]
           /\ faults' = faults - w[2]
           /\ IF trial
              THEN /\ record' = [active |-> sys.slot, pending |-> NoSlot, attempts |-> 0]
                   /\ past' = [past EXCEPT !.confirmed = @ \cup {CurrentBuild}]
              ELSE UNCHANGED <<record, past>>
  /\ UNCHANGED <<disk, cache, job, consent, revision>>

(* An installation that ends with an error, at the given cost in failures.        *)
GiveUp(old, b, cost) ==
  /\ job' = NoJob
  /\ \E w \in RecordFailedUpdate(old, b) :
       /\ faults >= cost + w[2]
       /\ result' = w[1]
       /\ faults' = faults - cost - w[2]

(* install_offer and the checks of install: the other slot is free to write only *)
(* when this one is the active one and nothing is pending.                       *)
InstallOffer(old, b, cost) ==
  IF record.active # sys.slot \/ record.pending # NoSlot \/ b <= CurrentBuild
  THEN GiveUp(old, b, cost)
  ELSE /\ job' = [step |-> "fetch", build |-> b, next |-> 1, digest |-> TRUE, tag |-> NoTag]
       /\ result' = old
       /\ faults' = faults - cost

(* What the public API can answer to a poll (external): it is unwell, throttles,  *)
(* has nothing, or offers a release with its signature and architecture.          *)
Responses ==
  [answer : {"unhealthy", "limited", "unavailable", "no_update"}, stopped : {FALSE}, here : {TRUE},
   signed : {TRUE}, build : {1}]
    \cup [answer : {"available"}, stopped : BOOLEAN, here : BOOLEAN, signed : BOOLEAN, build : 1 .. MaxBuild]

(* verify_available: an offer for this architecture signed by a release key.      *)
VerifyAvailable(r) == r.here /\ r.signed

(* check_http_response, check_response: the offer a reply carries.                *)
CheckResponse(r) == IF r.answer = "available" /\ VerifyAvailable(r) THEN {r.build} ELSE {}

(* Agent::poll: nothing is offered while distribution is stopped.                 *)
Poll(r) == IF r.answer = "unhealthy" \/ r.stopped THEN {} ELSE CheckResponse(r)

(* Agent::tick: a decided result is queued, or purged without consent; then the   *)
(* server is asked and may offer a release.                                      *)
Tick ==
  /\ sys.stage = "idle"
  /\ job = NoJob
  /\ \E q \in IF consent = Withdrawn THEN PurgeReportableUpdateResult ELSE QueueUpdateResult :
       /\ faults >= q[2]
       /\ \/ /\ result' = q[1]
             /\ faults' = faults - q[2]
             /\ UNCHANGED job
          \/ \E r \in Responses : \E b \in Poll(r) : InstallOffer(q[1], b, q[2])
  /\ UNCHANGED <<disk, cache, record, sys, consent, revision, past>>

(* parse_headers: the entity tag of a reply, if it has one.                       *)
Tags == {NoTag, "t", "u"}

(* RangeDownloader::fetch: the range asked for, of the entity the earlier ranges  *)
(* came from when that one was tagged.  What the server holds need not be the     *)
(* artifact.                                                                     *)
Fetch(expected, b) ==
  {[bytes |-> got, tag |-> t] : got \in {b, Garbage}, t \in IF expected = NoTag THEN Tags ELSE {expected}}

(* One turn of the writing loop: the chunk is fetched, its header is checked, it  *)
(* is hashed and written.  A write may fail, or silently store something else.   *)
FetchAndWrite ==
  /\ job.step = "fetch"
  /\ LET t == Other(sys.slot)
         k == job.next
     IN  \/ GiveUp(result, job.build, 0) /\ UNCHANGED cache                   \* the download or the header check fails
         \/ /\ GiveUp(result, job.build, 1)                                  \* the disk fails
            /\ cache' \in {cache, [cache EXCEPT ![t][k] = Garbage]}
         \/ \E got \in Fetch(job.tag, job.build), cost \in {0, 1} :
              /\ faults >= cost
              /\ cache' = [cache EXCEPT ![t][k] = IF cost = 0 THEN got.bytes ELSE Garbage]
              /\ job' = [job EXCEPT !.next = k + 1, !.digest = @ /\ got.bytes = job.build, !.tag = got.tag,
                                    !.step = IF k = Chunks THEN "flush" ELSE "fetch"]
              /\ faults' = faults - cost
              /\ UNCHANGED result
  /\ UNCHANGED <<disk, record, sys, consent, revision, past>>

(* (A mutant.) The image is not flushed before it is verified.                    *)
FlushNothing ==
  /\ job.step = "flush"
  /\ job' = [job EXCEPT !.step = "verify"]
  /\ UNCHANGED <<disk, cache, record, sys, result, consent, revision, past, faults>>

(* The flush that makes the image durable before it is judged.                    *)
Flush ==
  /\ job.step = "flush"
  /\ \/ /\ disk' = [disk EXCEPT ![Other(sys.slot)] = cache[Other(sys.slot)]]
        /\ job' = [job EXCEPT !.step = "verify"]
        /\ UNCHANGED <<result, faults>>
     \/ GiveUp(result, job.build, 1) /\ UNCHANGED disk
  /\ UNCHANGED <<cache, record, sys, consent, revision, past>>

(* verify_installed: what the slot reads back is the signed image of this build.  *)
VerifyInstalled(slot, b) == Holds(slot, b)

(* The artifact digest, then the read-back; a read may fail.                      *)
Judge ==
  /\ job.step = "verify"
  /\ \/ /\ job.digest /\ VerifyInstalled(cache[Other(sys.slot)], job.build)
        /\ job' = [job EXCEPT !.step = "stage"]
        /\ UNCHANGED <<result, faults>>
     \/ /\ ~(job.digest /\ VerifyInstalled(cache[Other(sys.slot)], job.build))
        /\ GiveUp(result, job.build, 0)
     \/ GiveUp(result, job.build, 1)
  /\ UNCHANGED <<disk, cache, record, sys, consent, revision, past>>

(* The last flush and storage::stage; a failure may come after the record took    *)
(* effect.                                                                       *)
Stage ==
  /\ job.step = "stage"
  /\ LET t == Other(sys.slot)
         staged == [record EXCEPT !.pending = t, !.attempts = MaxTrial]
     IN  \/ GiveUp(result, job.build, 1) /\ record' \in {record, staged}
         \/ /\ record' = staged
            /\ job' = NoJob
            /\ \E w \in RecordStagedUpdate(job.build, t) :
                 faults >= w[2] /\ result' = w[1] /\ faults' = faults - w[2]
  /\ UNCHANGED <<disk, cache, sys, consent, revision, past>>

UpdateInit ==
  /\ disk = [s \in Slots |-> IF s = "A" THEN Image(1) ELSE Image(Garbage)]
  /\ cache = disk
  /\ record = [active |-> "A", pending |-> NoSlot, attempts |-> 0]
  /\ sys = [slot |-> Off, stage |-> "off"]
  /\ job = NoJob
  /\ result = NoResult
  /\ consent \in {Withdrawn, 1}
  /\ revision = 1
  /\ past = [confirmed |-> {}, rolled |-> {}]
  /\ faults = MaxFaults

UpdateNext ==
  \/ Start \/ PowerLoss \/ Decide \/ ConfirmFails \/ ConfirmTrial
  \/ Tick \/ FetchAndWrite \/ Flush \/ Judge \/ Stage

UpdateSpec == UpdateInit /\ [][UpdateNext]_updateVars

(* Whatever fails, and whenever power goes, the machine has a system to boot:    *)
(* the active slot holds one complete image on the disk itself, a pending slot a  *)
(* complete image of a newer build, and a running system is never written over   *)
(* (update/src/installer.rs:85, 119, 124, 126, 141).                             *)
AlwaysBootable ==
  /\ Complete(disk[record.active])
  /\ record.pending # NoSlot => /\ Complete(disk[record.pending])
                                /\ BuildOf(disk[record.pending]) > BuildOf(disk[record.active])
                                /\ record.pending # record.active
  /\ sys.slot # Off => Complete(disk[sys.slot]) /\ cache[sys.slot] = disk[sys.slot]

(* A reported result is what happened: with at most one failure, a build reported *)
(* as booted was confirmed and a build reported as rolled back was given up by    *)
(* the boot loader (update/src/diagnostics.rs:450).                              *)
ResultsTruthful ==
  faults + 1 >= MaxFaults =>
    /\ result.outcome = "succeeded" => result.target \in past.confirmed
    /\ result.outcome = "rolled_back" => result.target \in past.rolled
=============================================================================
