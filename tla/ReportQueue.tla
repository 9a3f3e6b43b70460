------------------------------ MODULE ReportQueue ------------------------------
(* The optional reports of update.service: the daily diagnostics report and the   *)
(* result of a system update.  Each becomes a file of the delivery queue, stamped *)
(* with the consent it was made under, and goes to the server until it is         *)
(* accepted, refused or no longer permitted.  Files are replaced in several steps *)
(* (temporary, backup, rename), any of which may fail or be the last one before   *)
(* the service dies; the next tick works with what is left.                       *)
(*                                                                              *)
(* One kind of report and one day per behaviour.  A daily report has one path;    *)
(* that of an update result is named after its event.                            *)
EXTENDS Integers, Sequences, FiniteSets, SequencesExt

CONSTANTS
  MaxEvent,      \* event identifiers handed out, at most
  MaxRevision,   \* consent decisions, at most
  MaxFuse,       \* file operations of one tick that can be the failing one
  MaxFaults      \* failing operations in a behaviour, at most

VARIABLES
  kind,          \* "basic" or "update"
  queue,         \* path -> [json, backup, moved, sent, rejected]
  result,        \* the pending-result file: [json, backup]
  consent,       \* revision of the consent in force, Withdrawn
  revision,      \* consent decisions so far
  events,        \* identifiers handed out
  results,       \* history: consent revisions under which a result was recorded
  leftover,      \* history: a result was saved and its backup could not be removed
  accepted,      \* history: reports the server accepted, with the consent then
  faults         \* failures left

reportVars == <<kind, queue, result, consent, revision, events, results, leftover, accepted, faults>>

Withdrawn == 0
None == [event |-> 0, stamp |-> 0, tried |-> FALSE]
Paths == 1 .. MaxEvent
Order == [p \in Paths |-> p]
Nothing == [json |-> None, backup |-> None, moved |-> None, sent |-> FALSE, rejected |-> FALSE]

-------------------------------------------------------------------------------
(* The state of a tick: the files, the operations left before the failing one,    *)
(* how that one fails, and how the call stands ("ok", "error", "crash").           *)
Op(s, t) ==
  IF s.st # "ok" THEN s
  ELSE IF s.fuse = 1 THEN [s EXCEPT !.fuse = 0, !.st = s.how]
  ELSE [t EXCEPT !.fuse = IF s.fuse = 0 THEN 0 ELSE s.fuse - 1]

(* An error the caller drops; a crash is not one.                                 *)
Ignore(s) == IF s.st = "error" THEN [s EXCEPT !.st = "ok"] ELSE s

(* recover_atomic: a backup beside its file is dropped, one without it returns.    *)
Recovered(f) ==
  IF f.json # None THEN [f EXCEPT !.backup = None]
  ELSE [f EXCEPT !.json = f.backup, !.backup = None]

RecoverQueue(s, p) ==
  IF s.q[p].backup = None THEN s ELSE Op(s, [s EXCEPT !.q[p] = Recovered(@)])
RecoverResult(s) ==
  IF s.res.backup = None THEN s ELSE Op(s, [s EXCEPT !.res = Recovered(@)])

(* save_atomic's renames on one file: the old one aside, the new one in place (or  *)
(* the old one back), the backup away.  The temporary written first is not read.   *)
Aside(f) == [f EXCEPT !.backup = f.json, !.json = None]
Placed(f, r) == [f EXCEPT !.json = r]
Dropped(f) == [f EXCEPT !.backup = None]

(* save_atomic of a queue file.                                                    *)
SaveQueue(s, p, r) ==
  LET written == Op(RecoverQueue(s, p), RecoverQueue(s, p))
      had == written.q[p].json # None
      aside == IF had THEN Op(written, [written EXCEPT !.q[p] = Aside(@)]) ELSE written
      placed == Op(aside, [aside EXCEPT !.q[p] = Placed(@, r)])
  IN  IF had /\ aside.st = "ok" /\ placed.st = "error"
      THEN [placed EXCEPT !.q[p] = Recovered(@)]
      ELSE IF had /\ placed.st = "ok" THEN Ignore(Op(placed, [placed EXCEPT !.q[p] = Dropped(@)]))
      ELSE placed

(* save_atomic of the pending-result file.                                         *)
SaveResult(s, r) ==
  LET written == Op(RecoverResult(s), RecoverResult(s))
      had == written.res.json # None
      aside == IF had THEN Op(written, [written EXCEPT !.res = Aside(@)]) ELSE written
      placed == Op(aside, [aside EXCEPT !.res = Placed(@, r)])
  IN  IF had /\ aside.st = "ok" /\ placed.st = "error"
      THEN [placed EXCEPT !.res = Recovered(@)]
      ELSE IF had /\ placed.st = "ok"
      THEN LET dropped == Op(placed, [placed EXCEPT !.res = Dropped(@)])
           IN  [Ignore(dropped) EXCEPT !.left = @ \/ dropped.st = "error"]
      ELSE placed

RemoveQueue(s, p) == Op(s, [s EXCEPT !.q[p].json = None])

(* purge_queue: every queued file of the kind, then every quarantined one.          *)
PurgeQueue(s) ==
  LET Queued(t, p) ==
        LET a == IF t.q[p].json = None THEN t ELSE RemoveQueue(t, p)
        IN  IF a.q[p].backup = None THEN a ELSE Op(a, [a EXCEPT !.q[p].backup = None])
      Moved(t, p) == IF t.q[p].moved = None THEN t ELSE Op(t, [t EXCEPT !.q[p].moved = None])
  IN  FoldLeft(Moved, FoldLeft(Queued, s, Order), Order)

(* purge_reportable_update_result.                                                 *)
PurgeReportableUpdateResult(s) ==
  LET t == RecoverResult(s)
  IN  IF t.res.json = None THEN t ELSE Op(t, [t EXCEPT !.res.json = None])

(* queue_basic: one report a day, unless one was queued, sent, refused or moved.   *)
QueueBasic(s) ==
  LET t == RecoverQueue(s, 1)
  IN  IF t.st # "ok" \/ t.q[1].json # None \/ t.q[1].sent \/ t.q[1].rejected \/ t.q[1].moved # None
         \/ t.ids = MaxEvent
      THEN t
      ELSE SaveQueue([t EXCEPT !.ids = @ + 1], 1, [event |-> t.ids + 1, stamp |-> consent, tried |-> FALSE])

(* (A mutant.) The identifier is not kept with the result before it is queued.     *)
IdentifiedAnew(s) ==
  [s EXCEPT !.ids = @ + 1, !.res.json.event = s.ids + 1]

(* The event identifier of a result is saved with it before anything is queued.    *)
Identified(s) ==
  IF s.res.json.event # 0 THEN s
  ELSE SaveResult([s EXCEPT !.ids = @ + 1], [s.res.json EXCEPT !.event = s.ids + 1])

(* queue_update_result: a result of an earlier consent is dropped, another one is  *)
(* named, queued and removed.                                                      *)
QueueUpdateResult(s) ==
  LET t == RecoverResult(s)
  IN  IF t.st # "ok" \/ t.res.json = None THEN t
      ELSE IF t.res.json.stamp # consent THEN Op(t, [t EXCEPT !.res.json = None])
      ELSE IF t.res.json.event = 0 /\ t.ids = MaxEvent THEN t
      ELSE LET u == Identified(t)
               p == u.res.json.event
               v == IF u.st # "ok" THEN u
                    ELSE IF u.q[p].json # None THEN u
                    ELSE SaveQueue(u, p, [u.res.json EXCEPT !.tried = FALSE])
           IN  Op(v, [v EXCEPT !.res.json = None])

-------------------------------------------------------------------------------
(* mark_daily_sent: a daily report leaves a marker, an update result does not.     *)
MarkDailySent(s, p) == IF kind = "basic" THEN Op(s, [s EXCEPT !.q[p].sent = TRUE]) ELSE s

(* Delivery::Accepted: the file goes only once the marker is there.                *)
Accepted(s, p) ==
  LET t == MarkDailySent([s EXCEPT !.got = @ \cup {[event |-> s.q[p].json.event, stamp |-> s.q[p].json.stamp,
                                                    under |-> consent]}], p)
  IN  IF t.st # "ok" THEN t ELSE RemoveQueue(t, p)

(* Delivery::Quarantine: moved away, or else marked and removed.                   *)
Quarantine(s, p) ==
  LET moved == Op(s, [s EXCEPT !.q[p].moved = s.q[p].json, !.q[p].json = None])
  IN  IF moved.st # "error" THEN moved
      ELSE RemoveQueue([moved EXCEPT !.st = "ok", !.q[p].rejected = TRUE], p)

(* Delivery::Retry: the file is written back with its next attempt.                *)
Retry(s, p) == SaveQueue(s, p, [s.q[p].json EXCEPT !.tried = TRUE])

(* queue_authorized: the report carries the stamp of the consent in force.         *)
QueueAuthorized(r) == consent # Withdrawn /\ r.stamp = consent

(* delivery_for: what the server's answer means; a request that fails is retried.  *)
Answers == {"accepted", "quarantine", "retry"}

(* One file of flush.  After a retry the loop stops ("stop").                      *)
FlushFile(s, p) ==
  IF s.st # "ok" \/ s.stop \/ s.q[p].json = None THEN {s}
  ELSE IF s.q[p].rejected \/ s.q[p].sent \/ ~QueueAuthorized(s.q[p].json) THEN {Ignore(RemoveQueue(s, p))}
  ELSE (IF s.q[p].json.tried THEN {s} ELSE {})
         \cup {CASE a = "accepted" -> Ignore(Accepted(s, p))
                 [] a = "quarantine" -> Ignore(Quarantine(s, p))
                 [] a = "retry" -> [Ignore(Retry(s, p)) EXCEPT !.stop = TRUE] : a \in Answers}

(* queue_files: backups are recovered first; a failure ends the flush.             *)
QueueFiles(s) == FoldLeft(RecoverQueue, s, Order)

(* flush.                                                                          *)
Flush(s) ==
  LET listed == QueueFiles(s)
  IN  IF listed.st # "ok" THEN {Ignore(listed)}
      ELSE FoldLeft(LAMBDA ts, p : UNION {FlushFile(t, p) : t \in ts}, {listed}, Order)

(* Agent::tick, the reporting half: without consent everything is purged; with it  *)
(* the report is queued and the queue is flushed.                                  *)
TickFrom(s) ==
  IF consent = Withdrawn
  THEN LET purged == Ignore(PurgeQueue(s))
       IN  {IF kind = "update" THEN Ignore(PurgeReportableUpdateResult(purged)) ELSE purged}
  ELSE Flush(Ignore(IF kind = "basic" THEN QueueBasic(s) ELSE QueueUpdateResult(s)))

(* A tick; the failing operation, if any, is chosen beforehand.                    *)
Tick ==
  \E f \in 0 .. MaxFuse, how \in {"error", "crash"} :
    /\ f > 0 => faults > 0
    /\ f = 0 => how = "error"
    /\ \E s \in TickFrom([q |-> queue, res |-> result, ids |-> events, got |-> accepted, fuse |-> f,
                          how |-> how, st |-> "ok", stop |-> FALSE, left |-> leftover]) :
         /\ s.fuse = 0
         /\ queue' = s.q
         /\ result' = s.res
         /\ events' = s.ids
         /\ accepted' = s.got
         /\ leftover' = s.left
         /\ faults' = IF f > 0 THEN faults - 1 ELSE faults
    /\ UNCHANGED <<kind, consent, revision, results>>

(* record_failed_update, record_boot_outcome: a result with an outcome is saved.    *)
RecordResult ==
  /\ kind = "update"
  /\ consent # Withdrawn
  /\ consent \notin results
  /\ \E s \in {SaveResult([q |-> queue, res |-> result, ids |-> events, got |-> accepted, fuse |-> 0,
                           how |-> "error", st |-> "ok", stop |-> FALSE, left |-> leftover],
                          [event |-> 0, stamp |-> consent, tried |-> FALSE])} : result' = s.res
  /\ results' = results \cup {consent}
  /\ UNCHANGED <<kind, queue, consent, revision, events, leftover, accepted, faults>>

(* The user grants or withdraws the consent (external).                            *)
Decide ==
  /\ revision < MaxRevision
  /\ revision' = revision + 1
  /\ consent' \in {Withdrawn, revision + 1} \ {consent}
  /\ UNCHANGED <<kind, queue, result, events, results, leftover, accepted, faults>>

ReportInit ==
  /\ kind \in {"basic", "update"}
  /\ queue = [p \in Paths |-> Nothing]
  /\ result = [json |-> None, backup |-> None]
  /\ consent = 1
  /\ revision = 1
  /\ events = 0
  /\ results = {}
  /\ accepted = {}
  /\ leftover = FALSE
  /\ faults = MaxFaults

ReportNext == Tick \/ RecordResult \/ Decide

ReportSpec == ReportInit /\ [][ReportNext]_reportVars

-------------------------------------------------------------------------------
(* Whatever step fails or is the last before a crash: a report is accepted only    *)
(* under the consent it was made under, at most one daily report and one result    *)
(* per consent are ever accepted (a repeated delivery repeats its event; a result  *)
(* whose backup could not be removed is the exception), and an update result is     *)
(* somewhere until it was accepted or refused, as long as its     *)
(* consent stands (update/src/diagnostics.rs:191, 472, 633).                       *)
ReportsExact ==
  /\ \A a \in accepted : a.under = a.stamp
  /\ \A a, b \in accepted : a.stamp = b.stamp /\ ~leftover => a.event = b.event
  /\ kind = "update" /\ consent \in results =>
       \/ \E f \in {result} \cup Range(queue) : consent \in {f.json.stamp, f.backup.stamp}
       \/ \E p \in Paths : queue[p].moved.stamp = consent \/ queue[p].rejected
       \/ \E a \in accepted : a.stamp = consent
=============================================================================
