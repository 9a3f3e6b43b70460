------------------------------- MODULE TrustSync -------------------------------
(* The developer-certificate database: update.service fetches the trust and the   *)
(* revocation snapshot, verifies and persists them and tells signature.service,    *)
(* which reads the database back read-only.  The two run concurrently and either   *)
(* may die; the server publishes new snapshots and may answer with old ones.       *)
(*                                                                              *)
(* The certificate-database store is external: persisting a snapshot either takes  *)
(* effect or changes nothing, and a database whose revocations no longer verify     *)
(* under its trust does not load.  Time is in units of which the periods and the    *)
(* lifetime of a snapshot are a few.                                               *)
EXTENDS Integers, Sequences, FiniteSets, Functions

CONSTANTS
  Issuer,          \* issuers of revocation snapshots
  MaxVersion,      \* versions of each snapshot, at most
  MaxNow,          \* length of a behaviour
  Lifetime,        \* validity of a snapshot
  Period,          \* kind -> TRUST_PERIOD_MS, REVOCATION_PERIOD_MS
  Backoff,         \* RETRY_BACKOFF_MS
  MaxTrouble       \* failures and deaths in a behaviour, at most

VARIABLES
  now,             \* the clock
  server,          \* kind -> the snapshots published so far
  persisted,       \* the persisted database: [trust, revocations, generation]
  upd,             \* update.service: [pc, state, before, next, fails]
  sig,             \* signature.service: [up, db]
  announced,       \* notifications on their way to signature.service
  lost,            \* history: a notification was not sent
  hurried,         \* history: the last attempt was not followed by a pause
  peak,            \* history: kind -> newest version ever persisted
  trouble          \* failures left

trustVars == <<now, server, persisted, upd, sig, announced, lost, hurried, peak, trouble>>

Kinds == {"trust", "revocations"}

(* Periods and backoffs are pauses; there is a backoff.                            *)
ASSUME TrustAssumption ==
  /\ Lifetime \in Nat /\ MaxTrouble \in Nat
  /\ Period \in [Kinds -> Nat \ {0}]
  /\ Backoff \in Seq(Nat \ {0}) /\ Backoff # <<>>

NoSnapshot == [version |-> 0, generated |-> 0, issuers |-> {}]
Empty == [trust |-> NoSnapshot, revocations |-> NoSnapshot, generation |-> 0]
NotLoaded == [Empty EXCEPT !.generation = -1]
Expires(s) == s.generated + Lifetime
Least(a, b) == IF a < b THEN a ELSE b
Most(a, b) == IF a < b THEN b ELSE a

-------------------------------------------------------------------------------
(* Verification.                                                                 *)

(* verify_trust: in its validity, and not older than the one held.                *)
VerifyTrust(s, held) == now < Expires(s) /\ s.version >= held.version

(* validate_revocation_issuer, verify_revocation_snapshot: signed by an issuer the *)
(* trust snapshot lists as usable.                                                *)
VerifyRevocationSnapshot(s, trust) == trust.version > 0 /\ s.issuers \subseteq trust.issuers

(* verify_revocations.                                                            *)
VerifyRevocations(s, trust, held) ==
  VerifyRevocationSnapshot(s, trust) /\ now < Expires(s) /\ s.version >= held.version

(* verify_stored_trust, verify_stored_revocations as RecoveryValidator uses them:   *)
(* a stored snapshot is judged at the time it was generated.                       *)
StoredVerifies(d) == d.revocations.version > 0 => VerifyRevocationSnapshot(d.revocations, d.trust)

-------------------------------------------------------------------------------
(* The scheduler.  u is the state of update.service.                               *)

(* refresh_before_expiry_ms: three quarters of the lifetime.                       *)
RefreshBeforeExpiry(s) == Most(now, s.generated + (3 * Lifetime) \div 4)

(* record_success.                                                                *)
RecordSuccess(u, k, s) ==
  [u EXCEPT !.next[k] = Least(now + Period[k], RefreshBeforeExpiry(s)), !.fails[k] = 0]

(* record_not_modified: past the refresh point, the next attempt still waits.       *)
RecordNotModified(u, k, s) ==
  LET v == RecordSuccess(u, k, s)
  IN  IF v.next[k] <= now THEN [v EXCEPT !.next[k] = now + 1] ELSE v

(* record_failure of a transient failure, and of a rejected snapshot.              *)
RetryLater(u, k) ==
  [u EXCEPT !.next[k] = now + Backoff[Least(u.fails[k] + 1, Len(Backoff))],
            !.fails[k] = Least(@ + 1, Len(Backoff))]
Reject(u, k) == [u EXCEPT !.next[k] = now + Period[k], !.fails[k] = 0]

-------------------------------------------------------------------------------
(* A round of synchronize_due.  c carries update.service, the disk, the failures    *)
(* left and whether the round deferred an unknown issuer.                          *)

(* apply_trust, apply_revocations: what becomes of the snapshot.                    *)
Apply(c, k, s) ==
  IF k = "trust"
  THEN IF VerifyTrust(s, c.u.state.trust) THEN "ok" ELSE "reject"
  ELSE IF ~VerifyRevocationSnapshot(s, c.u.state.trust) THEN "unknown"
  ELSE IF VerifyRevocations(s, c.u.state.trust, c.u.state.revocations) THEN "ok" ELSE "reject"

(* persist_snapshot: state and disk move together to the next generation.           *)
Persist(c, k, s) ==
  LET d == [c.u.state EXCEPT ![k] = s, !.generation = @ + 1]
  IN  [c EXCEPT !.u = RecordSuccess([@ EXCEPT !.state = d], k, s), !.d = d]

(* synchronize_one: one request, conditional on the entity tag, and its answer from   *)
(* some cache of the server.  Another snapshot is applied or refused, an unchanged    *)
(* one is marked, a failing server or store is retried.                              *)
SynchronizeOne(c, k, defer) ==
  LET held == c.u.state[k]
      Answered(s) ==
        LET verdict == Apply(c, k, s)
        IN  IF verdict = "ok"
            THEN {Persist(c, k, s)}
                   \cup (IF c.t > 0 THEN {[c EXCEPT !.u = RetryLater(@, k), !.t = @ - 1]} ELSE {})
            ELSE IF verdict = "unknown" /\ defer THEN {[c EXCEPT !.unknown = TRUE]}
            ELSE {[c EXCEPT !.u = Reject(@, k)]}
      NotModified ==
        IF Expires(held) <= now THEN {[c EXCEPT !.u = Reject(@, k)]}
        ELSE {[c EXCEPT !.u = RecordNotModified(@, k, held)]}
  IN  (IF c.t > 0 THEN {[c EXCEPT !.u = RetryLater(@, k), !.t = @ - 1]} ELSE {})
        \cup UNION {IF s = held THEN NotModified ELSE Answered(s) : s \in Range(server[k])}

(* synchronize_due: trust first; revocations by an unknown issuer fetch the trust    *)
(* again and are asked for once more.                                              *)
SynchronizeDue(c) ==
  LET first == IF c.u.next["trust"] <= now THEN SynchronizeOne(c, "trust", FALSE) ELSE {c}
      second == UNION {IF x.u.next["revocations"] <= now THEN SynchronizeOne(x, "revocations", TRUE) ELSE {x}
                         : x \in first}
  IN  UNION {IF ~x.unknown THEN {x}
             ELSE UNION {SynchronizeOne(y, "revocations", FALSE) : y \in SynchronizeOne(x, "trust", FALSE)}
               : x \in second}

(* The attempt of this round was followed by no pause although nothing new came.    *)
Hurried(u, v) == \E k \in Kinds : u.next[k] <= now /\ v.next[k] <= now /\ u.state[k] = v.state[k]

(* The first half of a turn of update.service's loop.                               *)
Synchronize ==
  /\ upd.pc = "idle"
  /\ \E k \in Kinds : upd.next[k] <= now
  /\ \E c \in SynchronizeDue([u |-> upd, d |-> persisted, t |-> trouble, unknown |-> FALSE]) :
       /\ upd' = [c.u EXCEPT !.pc = "notify", !.before = upd.state]
       /\ persisted' = c.d
       /\ trouble' = c.t
       /\ hurried' = Hurried(upd, c.u)
       /\ peak' = [k \in Kinds |-> Most(peak[k], c.d[k].version)]
  /\ UNCHANGED <<now, server, sig, announced, lost>>

(* (A mutant.) Only a changed trust snapshot is announced.                          *)
NoticesTrustOnly(before, after) ==
  IF before.trust.version # after.trust.version
  THEN <<[kind |-> "trust", version |-> after.trust.version, generation |-> after.generation]>> ELSE <<>>

(* notify_changes: one notice per snapshot whose version changed.                   *)
Notices(before, after) ==
  LET One(k) == IF before[k].version = after[k].version THEN <<>>
                ELSE <<[kind |-> k, version |-> after[k].version, generation |-> after.generation]>>
  IN  One("trust") \o One("revocations")

(* The second half, after an update that was offered has been installed: a notice   *)
(* that cannot be sent ends the announcement.                                       *)
NotifyChanges ==
  /\ upd.pc = "notify"
  /\ upd' = [upd EXCEPT !.pc = "idle", !.before = Empty]
  /\ LET all == Notices(upd.before, upd.state)
     IN  IF sig.up
         THEN announced' = announced \o all /\ UNCHANGED lost
         ELSE UNCHANGED announced /\ lost' = (lost \/ all # <<>>)
  /\ UNCHANGED <<now, server, persisted, sig, hurried, peak, trouble>>

(* update.service dies; what it had not announced is never announced.               *)
UpdateDies ==
  /\ trouble > 0
  /\ upd.pc # "down"
  /\ trouble' = trouble - 1
  /\ lost' = (lost \/ (upd.pc = "notify" /\ Notices(upd.before, upd.state) # <<>>))
  /\ upd' = [upd EXCEPT !.pc = "down", !.state = Empty, !.before = Empty]
  /\ UNCHANGED <<now, server, persisted, sig, announced, hurried, peak>>

(* load_repository and the start of run: both kinds are due at once.                *)
LoadRepository ==
  /\ upd.pc = "down"
  /\ StoredVerifies(persisted)
  /\ upd' = [pc |-> "idle", state |-> persisted, before |-> Empty,
             next |-> [k \in Kinds |-> now], fails |-> [k \in Kinds |-> 0]]
  /\ UNCHANGED <<now, server, persisted, sig, announced, lost, hurried, peak, trouble>>

-------------------------------------------------------------------------------
(* load_active_database: both snapshots, verified as stored.                         *)
LoadActiveDatabase ==
  IF persisted.trust.version > 0 /\ persisted.revocations.version > 0 /\ StoredVerifies(persisted) THEN persisted ELSE NotLoaded

(* signature.service starts and is given its POSIX endpoint.                         *)
InstallEndpoint ==
  /\ ~sig.up
  /\ sig' = [up |-> TRUE, db |-> LoadActiveDatabase]
  /\ lost' = FALSE
  /\ UNCHANGED <<now, server, persisted, upd, announced, hurried, peak, trouble>>

(* handle_update_notification: the database is replaced by one at least as new as    *)
(* announced, and kept when none can be loaded.                                      *)
HandleUpdateNotification ==
  /\ sig.up
  /\ announced # <<>>
  /\ announced' = Tail(announced)
  /\ LET n == Head(announced)
         loaded == LoadActiveDatabase
     IN  sig' = IF loaded # NotLoaded /\ loaded.generation >= n.generation /\ loaded[n.kind].version >= n.version
                THEN [sig EXCEPT !.db = loaded] ELSE sig
  /\ UNCHANGED <<now, server, persisted, upd, lost, hurried, peak, trouble>>

SignatureDies ==
  /\ trouble > 0
  /\ sig.up
  /\ trouble' = trouble - 1
  /\ sig' = [up |-> FALSE, db |-> NotLoaded]
  /\ announced' = <<>>
  /\ UNCHANGED <<now, server, persisted, upd, lost, hurried, peak>>

-------------------------------------------------------------------------------
(* The certificate authority publishes (external): each revocation snapshot is       *)
(* signed by an issuer its newest trust snapshot lists.                             *)
Publish ==
  \E k \in Kinds :
    /\ Len(server[k]) < MaxVersion
    /\ \E i \in SUBSET Issuer \ {{}} :
         /\ k = "revocations" => /\ Cardinality(i) = 1
                                 /\ i \subseteq server["trust"][Len(server["trust"])].issuers
         /\ server' = [server EXCEPT ![k] =
              Append(@, [version |-> Len(@) + 1, generated |-> now, issuers |-> i])]
    /\ UNCHANGED <<now, persisted, upd, sig, announced, lost, hurried, peak, trouble>>

Pass ==
  /\ now < MaxNow
  /\ now' = now + 1
  /\ UNCHANGED <<server, persisted, upd, sig, announced, lost, hurried, peak, trouble>>

TrustInit ==
  /\ now = 0
  /\ \E i \in SUBSET Issuer, j \in {CHOOSE j \in Issuer : TRUE} :
       /\ j \in i
       /\ server = [k \in Kinds |-> <<[version |-> 1, generated |-> 0,
                                       issuers |-> IF k = "trust" THEN i ELSE {j}]>>]
  /\ persisted = Empty
  /\ upd = [pc |-> "down", state |-> Empty, before |-> Empty,
            next |-> [k \in Kinds |-> 0], fails |-> [k \in Kinds |-> 0]]
  /\ sig = [up |-> FALSE, db |-> NotLoaded]
  /\ announced = <<>>
  /\ lost = FALSE
  /\ hurried = FALSE
  /\ peak = [k \in Kinds |-> 0]
  /\ trouble = MaxTrouble

TrustNext ==
  \/ Synchronize \/ NotifyChanges \/ UpdateDies \/ LoadRepository
  \/ InstallEndpoint \/ HandleUpdateNotification \/ SignatureDies
  \/ Publish \/ Pass

TrustSpec == TrustInit /\ [][TrustNext]_trustVars

-------------------------------------------------------------------------------
(* What update.service holds is what it persisted, and no persisted snapshot is       *)
(* ever replaced by an older one.  Once everything sent is handled, and unless a      *)
(* notice could not be sent, the database signature.service decides with is the one    *)
(* on the disk whenever that one loads at all.  An attempt that brings nothing new is  *)
(* followed by a pause (update/src/service.rs:65, notifier.rs:28, scheduler.rs:85,     *)
(* snapshot.rs:76, signature/src/main.rs:832).                                        *)
DatabaseInStep ==
  /\ upd.pc # "down" => upd.state = persisted
  /\ \A k \in Kinds : persisted[k].version = peak[k]
  /\ ~lost /\ announced = <<>> /\ upd.pc # "notify" /\ sig.up /\ LoadActiveDatabase # NotLoaded
       => sig.db = persisted
  /\ ~hurried
=============================================================================
