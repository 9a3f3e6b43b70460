--------------------------- MODULE RecordLockProofs ---------------------------
(***************************************************************************)
(* The invariant of RecordLockService, for every number of processes,      *)
(* threads, files and bytes and every limit.                               *)
(***************************************************************************)
EXTENDS RecordLockLemmas

-----------------------------------------------------------------------------
(* One lemma per action.                                                   *)

LEMMA LoopExitsStep ==
  ASSUME IInv, LoopExits
  PROVE  IInv'
<1> DEFINE gone == {p \in svc.registered : p \notin alive}
           r == Retire(svc, gone)
<1>1. PICK failed \in SUBSET (gone \ svc.exited) :
        svc' = [WithdrawPages(r, gone \ failed) EXCEPT !.exited = @ \cup (gone \ failed)]
  BY Zenon DEF LoopExits
<1> DEFINE E == svc.exited \cup (gone \ failed)
<1>2. gone \in SUBSET Process /\ E \in SUBSET Process /\ svc.registered \in SUBSET Process
  BY DEF IInv, SInv, Service
<1> HIDE DEF gone
<1>3. /\ Descends(svc, r)
      /\ r.registered = svc.registered /\ r.exited = svc.exited
      /\ \A p \in gone : ~HasOwner(r.locks, p) /\ ~HasOwner(r.waits, p) /\ ~HasOwner(r.execs, p)
  BY <1>2, RetireInv DEF IInv
<1> HIDE DEF r
<1>a. SInv(r) /\ r.waits \subseteq svc.waits /\ r.nextWait = svc.nextWait
  BY <1>3 DEF Descends
<1>4. svc' = [WithdrawPages(r, gone \ failed) EXCEPT !.exited = E, !.registered = svc.registered]
  BY Zenon, <1>1, <1>3, <1>a DEF WithdrawPages, SInv, Service
<1>5. \A p \in Process : Admitted(r, p) /\ (p \notin svc.registered \/ p \in E)
                         => p \in gone \ failed
  BY <1>3 DEF Admitted
<1>6. SInv(svc')
  <2>1. gone \ failed \in SUBSET Process
    BY <1>2
  <2>2. \A p \in gone \ failed :
          ~HasOwner(r.locks, p) /\ ~HasOwner(r.waits, p) /\ ~HasOwner(r.execs, p)
    BY SMTT(60), <1>3
  <2> HIDE DEF E
  <2> QED BY Zenon, <1>2, <1>a, <1>4, <1>5, <2>1, <2>2, WithdrawInv
<1>7. Descends(svc, svc')
  BY Zenon, <1>a, <1>4, <1>6 DEF Descends, WithdrawPages, SInv, Service
<1>8. TypeOK'
  BY <1>6 DEF LoopExits, IInv, TypeOK, SInv, Stage
<1> QED BY <1>7, <1>8, QuietStep DEF LoopExits

LEMMA LoopExecsStep ==
  ASSUME IInv, LoopExecs
  PROVE  IInv'
<1>1. PICK bad \in SUBSET Unreadable :
        svc' = ReleaseUnused(Refresh(svc, ExecOwners(svc, File), bad))
  BY DEF LoopExecs
<1>2. ExecOwners(svc, File) \in SUBSET Process /\ image \in [Process -> Image]
  BY ExecOwnersType DEF IInv, TypeOK
<1> DEFINE r == Refresh(svc, ExecOwners(svc, File), bad)
<1>3. Descends(svc, r)
  BY Zenon, <1>2, RefreshInv DEF IInv
<1> HIDE DEF r
<1>4. Descends(svc, svc')
  <2>1. Descends(r, svc')
    BY ZenonT(60), <1>1, <1>3, ReleaseUnusedInv DEF Descends, r
  <2> QED BY <1>3, <2>1, DescendsTrans
<1>5. TypeOK'
  BY <1>4 DEF LoopExecs, IInv, TypeOK, Descends, SInv, Stage
<1> QED BY <1>4, <1>5, QuietStep DEF LoopExecs

LEMMA EndPassStep ==
  ASSUME IInv, EndPass
  PROVE  IInv'
<1>1. Descends(svc, svc')
  BY ReleaseUnusedInv DEF EndPass, IInv
<1>2. TypeOK'
  BY <1>1 DEF EndPass, IInv, TypeOK, Descends, SInv, Stage
<1> QED BY <1>1, <1>2, QuietStep DEF EndPass

LEMMA ReapStep ==
  ASSUME IInv, NEW p \in Process, Reap(p)
  PROVE  IInv'
<1> DEFINE r == Retire(svc, {p})
           E == svc.exited \ {p}
           R == svc.registered \ {p}
<1>1. {p} \in SUBSET Process /\ E \in SUBSET Process /\ R \in SUBSET Process
  BY DEF IInv, SInv, Service
<1>2. /\ Descends(svc, r)
      /\ r.registered = svc.registered /\ r.exited = svc.exited
      /\ \A q \in {p} : ~HasOwner(r.locks, q) /\ ~HasOwner(r.waits, q) /\ ~HasOwner(r.execs, q)
  BY <1>1, RetireInv DEF IInv
<1>b. SInv(r) /\ r.waits \subseteq svc.waits /\ r.nextWait = svc.nextWait
  BY <1>2 DEF Descends
<1>a. svc' = [WithdrawPages(r, {p}) EXCEPT !.exited = @ \ {p}, !.registered = @ \ {p}]
  BY DEF Reap
<1> HIDE DEF r
<1>3. svc' = [WithdrawPages(r, {p}) EXCEPT !.exited = E, !.registered = R]
  BY ZenonT(60), <1>2, <1>a, <1>b DEF WithdrawPages, SInv, Service
<1>4. \A q \in Process : Admitted(r, q) /\ (q \notin R \/ q \in E) => q \in {p}
  BY <1>2 DEF Admitted
<1>5. SInv(svc')
  <2> HIDE DEF E, R
  <2> QED BY Zenon, <1>1, <1>2, <1>b, <1>3, <1>4, WithdrawInv
<1>6. Descends(svc, svc')
  BY Zenon, <1>b, <1>3, <1>5 DEF Descends, WithdrawPages, SInv, Service
<1>7. TypeOK'
  BY <1>5 DEF Reap, IInv, TypeOK, SInv, Stage
<1> QED BY <1>6, <1>7, QuietStep DEF Reap

LEMMA ReceiveStep ==
  ASSUME IInv, NEW t \in Thread, NEW r \in Request, Receive(t, r)
  PROVE  IInv'
<1> DEFINE p == ProcessOf[t]
           e == IF r.op = "wait" /\ r.late THEN epoch[t] - 1 ELSE epoch[t]
<1>1. p \in Process /\ {p} \in SUBSET Process /\ image \in [Process -> Image]
  BY ThreadAssumption DEF IInv, TypeOK
<1>2. svc' = Refresh(svc, {p}, {})
  BY SMTT(60) DEF Receive
<1>3. Descends(svc, svc')
  BY Zenon, <1>1, <1>2, RefreshInv DEF IInv
<1>4. e \in Epoch
  <2>1. epoch[t] \in 0..MaxEpoch
    BY DEF IInv, TypeOK, Epoch
  <2>2. (r.op = "wait" /\ r.late) => epoch[t] > 0
    BY DEF Receive
  <2> QED BY <2>1, <2>2, LimitAssumption DEF Epoch
<1>5. svc'.observed[p] \in Image
  BY ZenonT(60), <1>1, <1>3 DEF Descends, SInv, Service
<1>6. call' = {[thread |-> t, image |-> svc'.observed[p], request |-> r, epoch |-> e]}
  BY DEF Receive
<1>7. call' \in SUBSET Call
  BY SMTT(60), <1>4, <1>5, <1>6 DEF Call
<1>8. TypeOK'
  BY ZenonT(60), <1>3, <1>7 DEF Receive, IInv, TypeOK, Descends, SInv, Stage
<1> QED BY <1>3, <1>8, QuietStep DEF Receive

\* The native side leaves the service alone.
LEMMA NativeStep ==
  ASSUME IInv, UNCHANGED Service_, image' \in [Process -> Image],
         alive' \in SUBSET Process, threads' \in SUBSET Thread
  PROVE  IInv'
BY DEF Service_, IInv, TypeOK, JInv, WaitHasJob

LEMMA NativeExecType ==
  ASSUME IInv, NEW t \in Thread, NativeExec(t)
  PROVE  image' \in [Process -> Image]
<1>1. ProcessOf[t] \in Process /\ image[ProcessOf[t]] \in 0..MaxImage
  BY ThreadAssumption DEF IInv, TypeOK, Image
<1>2. image \in [Process -> Image] /\ image[ProcessOf[t]] + 1 \in Image
  BY <1>1, LimitAssumption DEF NativeExec, IInv, TypeOK, Image
<1> QED BY <1>1, <1>2 DEF NativeExec

LEMMA CommitGrantStep ==
  ASSUME IInv, CommitGrant
  PROVE  IInv'
<1>1. PICK g \in staged :
        /\ svc' = IF g.delivered
                    THEN Store(svc, g.owner, g.locks, g.pins)
                    ELSE Publish(svc, g.owner)
        /\ stage' = g.resume
  BY DEF CommitGrant
<1>2. /\ g.owner \in Process /\ g.locks \in SUBSET Lock /\ g.pins \in SUBSET File
      /\ g.resume \in Stage /\ GInv(svc, g) /\ SInv(svc)
  BY DEF IInv, TypeOK, Grant, Stage
<1>3. Descends(svc, svc')
  <2>1. CASE g.delivered
    <3>1. Storable(svc, g.owner, g.locks, g.pins) /\ Admitted(svc, g.owner)
      BY <1>2 DEF GInv, Storable
    <3> QED BY ZenonT(60), <1>1, <1>2, <2>1, <3>1, SetInv
  <2>2. CASE ~g.delivered
    BY ZenonT(60), <1>1, <1>2, <2>2, PublishInv DEF GInv
  <2> QED BY <2>1, <2>2
<1>4. TypeOK'
  BY ZenonT(60), <1>1, <1>2, <1>3 DEF CommitGrant, IInv, TypeOK, Descends, SInv
<1>5. JInv'
  BY <1>3 DEF CommitGrant, IInv, JInv, WaitHasJob, Descends
<1> QED BY <1>3, <1>4, <1>5 DEF CommitGrant, IInv, Descends

\* Storing an unblocked lock, as a reply or as a pending grant.
LEMMA GrantInv ==
  ASSUME NEW s, SInv(s), NEW p \in Process, NEW f \in File, NEW k \in Kind, NEW r \in ByteRange,
         Blockers(s.locks, p, f, k, r) = {}
  PROVE  Storable(s, p, Replacement(s.locks, p, f, k, r), {f})
<1> DEFINE S == s.locks
           L == Replacement(S, p, f, k, r)
<1>1. S \in SUBSET Lock /\ Exclusive(S) /\ Blockers(S, p, f, k, r) = {}
  BY DEF SInv, Service
<1> HIDE DEF S
<1>2. L \in SUBSET Lock /\ Exclusive(L)
  BY <1>1, ReplacementType, ReplacementExclusive
<1>3. ASSUME NEW a \in L
      PROVE  (\E l \in S : l.file = a.file /\ l.owner = a.owner) \/ (a.file = f /\ a.owner = p)
  BY <1>1, <1>3, ReplacementFrom
<1> HIDE DEF L
<1>4. \A l \in L : l.file \in s.files \cup {f}
  BY <1>3 DEF SInv, S
<1>5. \A q \in Process : HasOwner(L, q) => HasOwner(s.locks, q) \/ q = p
  BY <1>3 DEF HasOwner, S
<1>6. Storable(s, p, L, {f})
  BY <1>2, <1>4, <1>5 DEF Storable
<1> QED BY <1>6 DEF L, S

\* ... or storing part of what is held.
LEMMA SmallerInv ==
  ASSUME NEW r, NEW s, Descends(r, s), NEW p \in Process, Admitted(s, p),
         NEW L, Within(L, s.locks)
  PROVE  Descends(r, ReleaseUnused(Store(s, p, L, {})))
<1> USE DEF Within
<1>1. SInv(s) /\ {} \in SUBSET File
  BY DEF Descends
<1>2. \A l \in L : l.file \in s.files \cup {}
  BY <1>1 DEF SInv
<1>3. \A q \in Process : HasOwner(L, q) => HasOwner(s.locks, q) \/ q = p
  BY DEF HasOwner
<1> DEFINE u == Store(s, p, L, {})
<1>a. Storable(s, p, L, {})
  BY <1>1, <1>2, <1>3 DEF Storable
<1>4. Descends(s, u)
  BY <1>1, <1>a, SetInv
<1> HIDE DEF u
<1>5. SInv(u)
  BY <1>4 DEF Descends
<1>6. Descends(r, ReleaseUnused(u))
  BY <1>4, <1>5, ReleaseUnusedInv, DescendsTrans
<1> QED BY <1>6 DEF u

\* Unlocking a range leaves part of what is held, merged or not.
LEMMA UnlockInv ==
  ASSUME NEW L \in SUBSET Lock, Exclusive(L), NEW p \in Process, NEW f \in File, NEW r \in ByteRange
  PROVE  Within(Pieces(L, p, f, r), L) /\ Within(Coalesce(Pieces(L, p, f, r)), L)
<1> DEFINE P == Pieces(L, p, f, r)
           C == Coalesce(P)
<1>1. P \in SUBSET Lock
  BY PiecesType
<1>2. Exclusive(P)
  BY PiecesExclusive
<1>3. ASSUME NEW a \in P PROVE \E l \in L : l.file = a.file /\ l.owner = a.owner
  BY <1>3, PiecesFrom
<1> HIDE DEF P
<1>4. C \in SUBSET Lock
  BY <1>1, ReplacementType
<1>5. Exclusive(C)
  BY <1>1, <1>2, CoalesceExclusive
<1>6. ASSUME NEW a \in C PROVE \E l \in L : l.file = a.file /\ l.owner = a.owner
  <2>1. PICK b \in P : b.file = a.file /\ b.owner = a.owner
    BY <1>1, <1>6, CoalesceFrom
  <2> QED BY <1>3, <2>1
<1> HIDE DEF C
<1>7. Within(P, L) /\ Within(C, L)
  BY ZenonT(60), <1>1, <1>2, <1>3, <1>4, <1>5, <1>6 DEF Within
<1> QED BY <1>7 DEF P, C

LEMMA FinishRecordLockStep ==
  ASSUME IInv, NEW c \in call, FinishRecordLock(c)
  PROVE  IInv'
<1> DEFINE p == ProcessOf[c.thread]
           r == c.request
<1>1. /\ c.thread \in Thread /\ p \in Process /\ r \in AnyRequest
      /\ r.op \in {"set", "query", "unlock", "release"} /\ stage = "finish"
  BY ZenonT(60), ThreadAssumption, RequestAssumption DEF IInv, TypeOK, Call, FinishRecordLock
<1>a. /\ r.file \in File
      /\ r.op = "unlock" => r.range \in ByteRange
      /\ r.op = "set" => r.range \in ByteRange /\ r.kind \in Kind
  BY SMTT(60), <1>1 DEF AnyRequest
<1>2. PICK bad \in SUBSET Unreadable :
        LockOutcome(c, RefreshedFor(Validated(c, bad), r.file, bad))
  BY Zenon, RecordLockCases
<1> DEFINE v == RefreshedFor(Validated(c, bad), r.file, bad)
           s == ReleaseUnused(v.svc)
           Set(locks, pins) == Answer(ReleaseUnused(Store(s, p, locks, pins)))
<1>3. Descends(svc, v.svc)
  BY ZenonT(60), <1>1, HandlerInv
<1>4. CASE Answer(v.svc)
  <2> HIDE DEF v
  <2> QED BY SMTT(60), <1>1, <1>3, <1>4, AnswerStep
<1> DEFINE Case == \/ Answer(s)
                   \/ Answer(Publish(s, p))
                   \/ Set(ReleaseFile(s.locks, p, r.file), {})
                   \/ r.op = "unlock" /\ Set(Pieces(s.locks, p, r.file, r.range), {})
                   \/ r.op = "unlock" /\ Set(Coalesce(Pieces(s.locks, p, r.file, r.range)), {})
                   \/ /\ r.op = "set" /\ Blockers(s.locks, p, r.file, r.kind, r.range) = {}
                      /\ Set(Replacement(s.locks, p, r.file, r.kind, r.range), {r.file})
<1>5. CASE v.ok /\ Admitted(v.svc, p) /\ Case
  <2>1. Case
    BY Zenon, <1>5
  <2> HIDE DEF Case
  <2>2. Descends(svc, s) /\ Admitted(s, p)
    <3> HIDE DEF v
    <3> QED BY ZenonT(60), <1>3, <1>5, ReleaseUnusedInv DEF Descends
  <2> HIDE DEF s, v
  <2>a. s.locks \in SUBSET Lock /\ Exclusive(s.locks)
        /\ \A l \in s.locks : l.file \in s.files
    BY ZenonT(60), <2>2 DEF Descends, SInv, Service
  <2>5. CASE Answer(s)
    BY ZenonT(60), <1>1, <2>2, <2>5, AnswerStep
  <2>6. CASE Answer(Publish(s, p))
    <3>1. Descends(svc, Publish(s, p))
      BY ZenonT(60), <1>1, <2>2, PublishInv DEF Descends
    <3> QED BY ZenonT(60), <1>1, <2>6, <3>1, AnswerStep
  <2>7. CASE Set(ReleaseFile(s.locks, p, r.file), {})
    <3> DEFINE L == ReleaseFile(s.locks, p, r.file)
    <3>1. Within(L, s.locks)
      BY ZenonT(60), <2>a DEF ReleaseFile, Exclusive, Within
    <3>2. Answer(ReleaseUnused(Store(s, p, L, {})))
      BY ZenonT(60), <2>7
    <3> HIDE DEF L
    <3> QED BY ZenonT(60), <1>1, <2>2, <3>1, <3>2, SmallerInv, AnswerStep
  <2>8. CASE r.op = "unlock" /\ Set(Pieces(s.locks, p, r.file, r.range), {})
    <3> DEFINE L == Pieces(s.locks, p, r.file, r.range)
    <3>1. Within(L, s.locks)
      <4>1. r.file \in File /\ r.range \in ByteRange
        BY ZenonT(60), <1>a, <2>8
      <4> QED BY ZenonT(60), <1>1, <2>a, <4>1, UnlockInv
    <3>2. Answer(ReleaseUnused(Store(s, p, L, {})))
      BY ZenonT(60), <2>8
    <3> HIDE DEF L
    <3> QED BY ZenonT(60), <1>1, <2>2, <3>1, <3>2, SmallerInv, AnswerStep
  <2>9. CASE r.op = "unlock" /\ Set(Coalesce(Pieces(s.locks, p, r.file, r.range)), {})
    <3> DEFINE L == Coalesce(Pieces(s.locks, p, r.file, r.range))
    <3>1. Within(L, s.locks)
      <4>1. r.file \in File /\ r.range \in ByteRange
        BY ZenonT(60), <1>a, <2>9
      <4> QED BY ZenonT(60), <1>1, <2>a, <4>1, UnlockInv
    <3>2. Answer(ReleaseUnused(Store(s, p, L, {})))
      BY ZenonT(60), <2>9
    <3> HIDE DEF L
    <3> QED BY ZenonT(60), <1>1, <2>2, <3>1, <3>2, SmallerInv, AnswerStep
  <2>10. CASE /\ r.op = "set" /\ Blockers(s.locks, p, r.file, r.kind, r.range) = {}
              /\ Set(Replacement(s.locks, p, r.file, r.kind, r.range), {r.file})
    <3> DEFINE L == Replacement(s.locks, p, r.file, r.kind, r.range)
    <3>1. Storable(s, p, L, {r.file})
      <4>1. r.file \in File /\ r.range \in ByteRange /\ r.kind \in Kind
            /\ Blockers(s.locks, p, r.file, r.kind, r.range) = {}
        BY ZenonT(60), <1>a, <2>10
      <4>2. SInv(s)
        BY ZenonT(60), <2>2 DEF Descends
      <4> HIDE DEF Set, p, r
      <4> QED BY ZenonT(60), <1>1, <4>1, <4>2, GrantInv
    <3>2. Answer(ReleaseUnused(Store(s, p, L, {r.file})))
      BY ZenonT(60), <2>10
    <3> HIDE DEF L
    <3>3. Descends(svc, Store(s, p, L, {r.file}))
      <4>1. SInv(s)
        BY ZenonT(60), <2>2 DEF Descends
      <4>2. Descends(s, Store(s, p, L, {r.file}))
        BY ZenonT(60), <1>1, <2>2, <3>1, <4>1, SetInv
      <4> QED BY ZenonT(60), <2>2, <4>2, DescendsTrans
    <3>4. Descends(svc, ReleaseUnused(Store(s, p, L, {r.file})))
      <4> DEFINE u == Store(s, p, L, {r.file})
      <4> HIDE DEF u
      <4>1. Descends(svc, u) /\ SInv(u)
        BY <3>3 DEF Descends, u
      <4>2. Descends(svc, ReleaseUnused(u))
        BY ZenonT(60), <4>1, ReleaseUnusedInv, DescendsTrans
      <4> QED BY ZenonT(60), <4>2 DEF u
    <3> QED BY ZenonT(60), <1>1, <3>2, <3>4, AnswerStep
  <2> QED BY ZenonT(60), <2>1, <2>5, <2>6, <2>7, <2>8, <2>9, <2>10 DEF Case
<1> QED BY ZenonT(60), <1>2, <1>4, <1>5 DEF LockOutcome

\* A grant is safe to announce and, later, to commit.
LEMMA StageGrantInv ==
  ASSUME NEW s, SInv(s), NEW p \in Process, Admitted(s, p),
         NEW L, NEW F, Storable(s, p, L, F),
         NEW t, NEW resume \in {"exits", "retry"}, StageGrant(s, p, L, F, t, resume)
  PROVE  /\ SInv(svc') /\ svc'.waits = s.waits /\ svc'.nextWait = s.nextWait
         /\ staged' \in SUBSET Grant /\ stage' = "commit"
         /\ \A g \in staged' : GInv(svc', g)
<1> USE DEF Storable
<1> DEFINE h == Hint(s, p, "held")
<1>1. SInv(h)
  BY HintInv
<1>2. /\ h.waits = s.waits /\ h.nextWait = s.nextWait /\ h.locks = s.locks
      /\ h.files = s.files /\ h.registered = s.registered /\ h.exited = s.exited
      /\ h.page[p] # "clear"
  BY ZenonT(60) DEF Hint, SInv, Service
<1>3. svc' = h /\ stage' = "commit"
  BY ZenonT(60) DEF StageGrant
<1> HIDE DEF h
<1>4. PICK d \in BOOLEAN :
        staged' = {[owner |-> p, locks |-> L, pins |-> F, delivered |-> d, resume |-> resume]}
  BY ZenonT(60) DEF StageGrant
<1> DEFINE g == [owner |-> p, locks |-> L, pins |-> F, delivered |-> d, resume |-> resume]
<1>5. g \in Grant
  BY ZenonT(60) DEF Grant
<1>6. g.owner = p /\ g.locks = L /\ g.pins = F
  BY ZenonT(60)
<1> HIDE DEF g
<1>7. GInv(h, g)
  BY ZenonT(60), <1>2, <1>6 DEF GInv, Admitted
<1>8. staged' = {g}
  BY <1>4 DEF g
<1> QED BY ZenonT(60), <1>1, <1>2, <1>3, <1>5, <1>7, <1>8

\* Taking waits off the queue.
LEMMA DequeueInv ==
  ASSUME NEW s, SInv(s), NEW W
  PROVE  /\ Descends(s, [s EXCEPT !.waits = @ \ W])
         /\ [s EXCEPT !.waits = @ \ W].waits = s.waits \ W
         /\ [s EXCEPT !.waits = @ \ W].locks = s.locks
         /\ [s EXCEPT !.waits = @ \ W].files = s.files
         /\ \A p : Admitted([s EXCEPT !.waits = @ \ W], p) <=> Admitted(s, p)
<1> DEFINE u == [s EXCEPT !.waits = @ \ W]
<1>1. /\ u.locks = s.locks /\ u.execs = s.execs /\ u.waits = s.waits \ W
      /\ u.files = s.files /\ u.observed = s.observed /\ u.nextWait = s.nextWait
      /\ u.registered = s.registered /\ u.exited = s.exited /\ u.page = s.page
      /\ u \in Service
  BY ZenonT(60) DEF SInv, Service
<1> HIDE DEF u
<1>2. SInv(u)
  BY <1>1 DEF SInv, Admitted, HasOwner
<1>3. Descends(s, u) /\ \A p : Admitted(u, p) <=> Admitted(s, p)
  BY <1>1, <1>2 DEF Descends, Admitted
<1> QED BY <1>1, <1>3 DEF u

LEMMA RetryJobStep ==
  ASSUME IInv, NEW j \in todo, RetryJob(j)
  PROVE  IInv'
<1> DEFINE p == ProcessOf[j.thread]
<1>1. j.thread \in Thread /\ p \in Process /\ TypeOK /\ SInv(svc) /\ staged = {}
      /\ stage = "retry"
  BY ZenonT(60), ThreadAssumption DEF IInv, TypeOK, Job, RetryJob
<1>2. PICK bad \in SUBSET Unreadable, signalled \in BOOLEAN :
        RetryOutcome(j, RefreshedFor(Resumed(j, bad, signalled), j.file, bad))
  BY Zenon, RetryCases
<1> DEFINE i == Validated(j, bad)
           e == Resumed(j, bad, signalled)
           s == RefreshedFor(e, j.file, bad).svc
           found == MatchingWait(s, p, j.token)
           consumed == [s EXCEPT !.waits = @ \ found]
           L(w) == Replacement(s.locks, p, w.file, w.kind, w.range)
<1>3. \/ /\ svc' = consumed /\ jobs' = jobs \ {j} /\ UNCHANGED <<stage, staged>>
      \/ svc' = s /\ UNCHANGED <<stage, staged, jobs>>
      \/ \E w \in found :
           /\ BlockersOf(s.locks, w) = {}
           /\ StageGrant(consumed, p, L(w), {}, j.thread, "retry")
           /\ jobs' = jobs \ {j}
  BY Zenon, <1>2 DEF RetryOutcome
<1>4. Descends(svc, s)
  <2>1. Descends(svc, i.svc)
    BY Zenon, <1>1, ValidatedInv
  <2>2. e.svc = i.svc
    BY Zenon, ResumedIs
  <2> HIDE DEF i, e
  <2>3. Descends(e.svc, s)
    <3>1. SInv(e.svc)
      BY ZenonT(60), <2>1, <2>2 DEF Descends
    <3> QED BY <1>1, <3>1, RefreshedForInv
  <2> QED BY SMTT(60), <2>1, <2>2, <2>3, DescendsTrans
<1> HIDE DEF s
<1>5. SInv(s) /\ s.locks \in SUBSET Lock /\ s.waits \in SUBSET Wait
  BY <1>4 DEF Descends, SInv, Service
<1>6. /\ Descends(s, consumed) /\ consumed.waits = s.waits \ found
      /\ consumed.locks = s.locks /\ consumed.files = s.files
      /\ Admitted(consumed, p) <=> Admitted(s, p)
  BY <1>5, DequeueInv
<1>7. Descends(svc, consumed)
  BY SMTT(60), <1>4, <1>6, DescendsTrans
<1>8. ASSUME jobs' = jobs \ {j}, svc'.waits = s.waits \ found, svc'.nextWait = s.nextWait
      PROVE  JInv'
  <2>1. ASSUME NEW w \in svc'.waits
        PROVE  \E k \in jobs' : /\ ProcessOf[k.thread] = w.owner
                                /\ k.token = w.token /\ k.file = w.file /\ k.image = w.revision
    <3>1. w \in svc.waits /\ w \in s.waits /\ w \notin found
      BY ZenonT(60), <1>4, <1>8 DEF Descends
    <3>2. PICK k \in jobs : /\ ProcessOf[k.thread] = w.owner
                            /\ k.token = w.token /\ k.file = w.file /\ k.image = w.revision
      BY ZenonT(60), <3>1 DEF IInv, JInv, WaitHasJob
    <3>3. CASE k = j
      <4>1. w.owner = p /\ w.token = j.token /\ w.revision = s.observed[p]
        BY ZenonT(60), <1>5, <3>1, <3>2, <3>3 DEF SInv
      <4>2. Admitted(s, p)
        BY ZenonT(60), <1>1, <1>5, <3>1, <4>1 DEF SInv, HasOwner
      <4> QED BY SMTT(60), <3>1, <4>1, <4>2 DEF MatchingWait
    <3> QED BY ZenonT(60), <1>8, <3>2, <3>3
  <2>2. svc'.nextWait = svc.nextWait
    BY SMTT(60), <1>4, <1>8 DEF Descends
  <2> QED BY Zenon, <1>8, <2>1, <2>2 DEF IInv, JInv, WaitHasJob
<1>9. /\ todo' = todo \ {j} /\ UNCHANGED <<epoch, image, alive, threads, call>>
  BY Zenon DEF RetryJob
<1>10. CASE svc' = consumed /\ jobs' = jobs \ {j} /\ UNCHANGED <<stage, staged>>
  <2>1. JInv'
    BY <1>6, <1>8, <1>10 DEF Descends
  <2>2. SInv(svc')
    BY ZenonT(60), <1>7, <1>10 DEF Descends
  <2>3. TypeOK'
    BY ZenonT(60), <1>9, <1>10, <2>2 DEF IInv, TypeOK, SInv
  <2> QED BY ZenonT(60), <1>1, <1>10, <2>1, <2>2, <2>3 DEF IInv
<1>11. CASE svc' = s /\ UNCHANGED <<stage, staged, jobs>>
  <2>1. TypeOK'
    BY ZenonT(60), <1>5, <1>9, <1>11 DEF IInv, TypeOK, SInv
  <2> QED BY ZenonT(60), <1>1, <1>4, <1>11, <2>1, QuietStep
<1>12. CASE \E w \in found : /\ BlockersOf(s.locks, w) = {}
                              /\ StageGrant(consumed, p, L(w), {}, j.thread, "retry")
                              /\ jobs' = jobs \ {j}
  <2>1. PICK w \in found : /\ BlockersOf(s.locks, w) = {}
                           /\ StageGrant(consumed, p, L(w), {}, j.thread, "retry")
                           /\ jobs' = jobs \ {j}
    BY ZenonT(60), <1>12
  <2>2. /\ w \in s.waits /\ w.owner = p /\ Admitted(s, p)
        /\ w.file \in File /\ w.kind \in Kind /\ w.range \in ByteRange /\ w.file \in s.files
    BY <1>5 DEF MatchingWait, Wait, SInv
  <2>3. Blockers(s.locks, p, w.file, w.kind, w.range) = {}
    BY SMTT(60), <2>1, <2>2 DEF BlockersOf
  <2>4. Storable(s, p, L(w), {w.file})
    BY ZenonT(60), <1>1, <1>5, <2>2, <2>3, GrantInv
  <2> DEFINE N == L(w)
  <2>a. StageGrant(consumed, p, N, {}, j.thread, "retry")
    BY <2>1
  <2> HIDE DEF consumed, N, L
  <2>5. SInv(consumed) /\ Admitted(consumed, p)
    BY Zenon, <1>6, <1>7, <2>2 DEF Descends
  <2>6. Storable(consumed, p, N, {})
    <3>1. Storable(s, p, N, {w.file})
      BY SMTT(60), <2>4 DEF N
    <3> QED BY ZenonT(60), <1>6, <2>2, <3>1 DEF Storable
  <2>7. /\ SInv(svc') /\ svc'.waits = consumed.waits /\ svc'.nextWait = consumed.nextWait
        /\ staged' \in SUBSET Grant /\ stage' = "commit"
        /\ \A g \in staged' : GInv(svc', g)
    BY ZenonT(60), <1>1, <2>5, <2>6, <2>a, StageGrantInv
  <2>8. JInv'
    BY ZenonT(60), <1>6, <1>8, <2>1, <2>7 DEF Descends
  <2>9. TypeOK'
    BY ZenonT(60), <1>9, <2>1, <2>7 DEF IInv, TypeOK, SInv, Stage
  <2> QED BY Zenon, <2>7, <2>8, <2>9 DEF IInv
<1> QED BY Zenon, <1>3, <1>10, <1>11, <1>12

\* Queueing a wait under the next token.
LEMMA EnqueueInv ==
  ASSUME NEW s, SInv(s), NEW w \in Wait, Admitted(s, w.owner),
         w.revision = s.observed[w.owner], w.token = s.nextWait, ~(s.nextWait > MaxToken)
  PROVE  /\ SInv(Enqueue(s, w))
         /\ Enqueue(s, w).waits = s.waits \cup {w}
         /\ Enqueue(s, w).nextWait = s.nextWait + 1
<1> DEFINE u == Enqueue(s, w)
<1>a. w.file \in File /\ w.owner \in Process
  BY ZenonT(60) DEF Wait
<1>b. s.nextWait \in 1..(MaxToken + 1)
  BY ZenonT(60) DEF SInv, Service
<1>1. /\ w.file \in File /\ w.owner \in Process /\ s.nextWait \in Int
      /\ s.nextWait + 1 \in 1..(MaxToken + 1)
  BY <1>a, <1>b, LimitAssumption
<1>2. /\ u \in Service /\ u.waits = s.waits \cup {w} /\ u.nextWait = s.nextWait + 1
      /\ u.files = s.files \cup {w.file} /\ u.locks = s.locks
      /\ u.execs = s.execs /\ u.observed = s.observed /\ u.page = s.page
      /\ u.registered = s.registered /\ u.exited = s.exited
  BY ZenonT(60), <1>1 DEF Enqueue, SInv, Service
<1> HIDE DEF u
<1>3. \A x \in s.waits : x.token < s.nextWait /\ x.token \in Int
  <2>1. s.waits \in SUBSET Wait /\ \A x \in s.waits : x.token < s.nextWait
    BY DEF SInv, Service
  <2>2. \A x \in Wait : x.token \in Token
    BY DEF Wait
  <2>3. \A i \in Token : i \in Int
    BY DEF Token
  <2> QED BY ZenonT(60), <2>1, <2>2, <2>3
<1>4. \A x \in s.waits : x.revision = s.observed[x.owner]
  BY ZenonT(60) DEF SInv
<1>5. \A x, y \in s.waits : x.token = y.token => x = y
  BY ZenonT(60) DEF SInv
<1>6. ASSUME NEW x \in u.waits
      PROVE  x.revision = u.observed[x.owner] /\ x.token < u.nextWait
  <2>0. /\ u.observed = s.observed /\ u.nextWait = s.nextWait + 1
        /\ x = w \/ x \in s.waits
    BY ZenonT(60), <1>2
  <2>1. CASE x = w
    BY <1>1, <2>0, <2>1
  <2>2. CASE x \in s.waits
    <3>1. x.token < s.nextWait /\ x.token \in Int /\ x.revision = s.observed[x.owner]
      BY ZenonT(60), <1>3, <1>4, <2>2
    <3> QED BY <1>1, <2>0, <3>1
  <2> QED BY ZenonT(60), <2>0, <2>1, <2>2
<1>7. ASSUME NEW x \in u.waits, NEW y \in u.waits, x.token = y.token
      PROVE  x = y
  <2>1. (x = w \/ x \in s.waits) /\ (y = w \/ y \in s.waits)
    BY ZenonT(60), <1>2
  <2>2. \A z \in s.waits : z.token # w.token
    BY SMTT(60), <1>1, <1>3
  <2> QED BY ZenonT(60), <1>5, <1>7, <2>1, <2>2
<1>8. \A x \in u.locks \cup u.waits : x.file \in u.files
  BY ZenonT(60), <1>2 DEF SInv
<1>9. ASSUME NEW q \in Process, ~Admitted(u, q)
      PROVE  /\ ~HasOwner(u.locks, q) /\ ~HasOwner(u.waits, q)
             /\ ~HasOwner(u.execs, q) /\ u.page[q] = "none"
  <2>1. ~Admitted(s, q) /\ q # w.owner
    BY ZenonT(60), <1>2, <1>9 DEF Admitted
  <2> QED BY ZenonT(60), <1>2, <2>1 DEF SInv, HasOwner
<1>10. Exclusive(u.locks) /\ \A q \in Process : HasOwner(u.locks, q) => u.page[q] # "clear"
  BY SMTT(60), <1>2 DEF SInv
<1>11. SInv(u)
  BY ZenonT(60), <1>2, <1>6, <1>7, <1>8, <1>9, <1>10 DEF SInv
<1> QED BY <1>2, <1>11 DEF u

LEMMA FinishWaitStep ==
  ASSUME IInv, NEW c \in call, FinishWait(c)
  PROVE  IInv'
<1> DEFINE p == ProcessOf[c.thread]
           r == c.request
<1>1. /\ c.thread \in Thread /\ p \in Process /\ c.image \in Image /\ c.epoch \in Epoch
      /\ r \in AnyRequest /\ r.op = "wait" /\ stage = "finish"
  BY ZenonT(60), ThreadAssumption, RequestAssumption DEF IInv, TypeOK, Call, FinishWait
<1>2. r.file \in File /\ r.range \in ByteRange /\ r.kind \in Kind
  BY SMTT(60), <1>1 DEF AnyRequest
<1>3. PICK bad \in SUBSET Unreadable :
        WaitOutcome(c, RefreshedFor(Validated(c, bad), r.file, bad))
  BY Zenon, WaitCases
<1> DEFINE v == RefreshedFor(Validated(c, bad), r.file, bad)
           s == ReleaseUnused(v.svc)
           w == [owner |-> p, revision |-> s.observed[p], file |-> r.file,
                 kind |-> r.kind, range |-> r.range, token |-> s.nextWait]
           L == Replacement(s.locks, p, r.file, r.kind, r.range)
           j == [thread |-> c.thread, image |-> c.image, epoch |-> c.epoch,
                 token |-> w.token, file |-> r.file]
<1>4. \/ Answer(v.svc)
      \/ Answer(s)
      \/ /\ v.ok /\ Admitted(v.svc, p) /\ ~QueueFull(s, p)
         /\ svc' = Enqueue(s, w)
         /\ jobs' = jobs \cup {j}
         /\ call' = {} /\ stage' = "exits"
         /\ UNCHANGED <<epoch, image, alive, threads, staged, todo>>
      \/ /\ Admitted(v.svc, p) /\ BlockersOf(s.locks, w) = {}
         /\ StageGrant(s, p, L, {r.file}, c.thread, "exits")
         /\ call' = {}
         /\ UNCHANGED <<epoch, image, alive, threads, jobs, todo>>
  BY ZenonT(60), <1>3 DEF WaitOutcome
<1>5. Descends(svc, v.svc) /\ (v.ok => v.svc.observed[p] = c.image)
  BY ZenonT(60), <1>1, HandlerInv
<1> HIDE DEF v
<1>6. /\ Descends(svc, s) /\ (v.ok => s.observed[p] = c.image)
      /\ Admitted(s, p) <=> Admitted(v.svc, p)
  BY ZenonT(60), <1>5, ReleaseUnusedInv DEF Descends
<1> HIDE DEF s
<1>7. s \in Service /\ SInv(s) /\ s.nextWait \in 1..(MaxToken + 1)
      /\ s.observed[p] \in Image
  BY ZenonT(60), <1>1, <1>6 DEF Descends, SInv, Service
<1>8. CASE Answer(v.svc)
  BY ZenonT(60), <1>1, <1>5, <1>8, AnswerStep
<1>9. CASE Answer(s)
  BY ZenonT(60), <1>1, <1>6, <1>9, AnswerStep
<1>10. CASE /\ v.ok /\ Admitted(v.svc, p) /\ ~QueueFull(s, p)
            /\ svc' = Enqueue(s, w)
            /\ jobs' = jobs \cup {j}
            /\ call' = {} /\ stage' = "exits"
            /\ UNCHANGED <<epoch, image, alive, threads, staged, todo>>
  <2>0. ~(s.nextWait > MaxToken)
    BY ZenonT(60), <1>10 DEF QueueFull
  <2>1. s.nextWait \in Token
    BY SMTT(60), <1>7, <2>0, LimitAssumption DEF Token
  <2>2. w \in Wait /\ j \in Job
    BY ZenonT(60), <1>1, <1>2, <1>7, <2>1 DEF Wait, Job
  <2>3. /\ w.owner = p /\ w.revision = s.observed[p] /\ w.file = r.file /\ w.token = s.nextWait
        /\ j.thread = c.thread /\ j.image = c.image /\ j.token = s.nextWait /\ j.file = r.file
    BY ZenonT(60)
  <2> HIDE DEF w, j
  <2>4. Admitted(s, p)
    BY ZenonT(60), <1>6, <1>10
  <2>5. /\ SInv(s) /\ Admitted(s, w.owner) /\ w.revision = s.observed[w.owner]
        /\ w.token = s.nextWait
    BY ZenonT(60), <1>7, <2>3, <2>4
  <2>6. svc' = Enqueue(s, w)
    BY ZenonT(60), <1>10
  <2>7. SInv(svc') /\ svc'.waits = s.waits \cup {w} /\ svc'.nextWait = s.nextWait + 1
    BY ZenonT(60), <2>0, <2>2, <2>5, <2>6, EnqueueInv
  <2>8. TypeOK'
    BY Zenon, <1>10, <2>2, <2>7 DEF IInv, TypeOK, Stage, SInv
  <2>9. \A k \in jobs : k.token < s.nextWait /\ k.token \in Int
    <3>1. svc.nextWait = s.nextWait
      BY ZenonT(60), <1>6 DEF Descends
    <3>2. jobs \in SUBSET Job /\ \A k \in jobs : k.token < svc.nextWait
      BY ZenonT(60) DEF IInv, JInv, TypeOK
    <3> QED BY <3>1, <3>2 DEF Job, Token
  <2>10. JInv'
    <3>b. s.nextWait \in Int
      BY <1>7, LimitAssumption
    <3>0. jobs' = jobs \cup {j} /\ s.nextWait \in Int
      BY ZenonT(60), <1>10, <3>b
    <3>1. \A k \in jobs' : k.token < svc'.nextWait
      BY <2>3, <2>7, <2>9, <3>0
    <3>a. \A k, l \in jobs : k.token = l.token => k = l
      BY ZenonT(60) DEF IInv, JInv
    <3>2. \A k, l \in jobs' : k.token = l.token => k = l
      BY <2>3, <2>9, <3>0, <3>a
    <3>3. ASSUME NEW x \in svc'.waits
          PROVE  \E k \in jobs' : /\ ProcessOf[k.thread] = x.owner
                                  /\ k.token = x.token /\ k.file = x.file /\ k.image = x.revision
      <4>1. CASE x = w
        <5>1. /\ ProcessOf[j.thread] = x.owner /\ j.token = x.token
              /\ j.file = x.file /\ j.image = x.revision
          BY ZenonT(60), <1>6, <1>10, <2>3, <4>1
        <5> QED BY ZenonT(60), <1>10, <5>1
      <4>2. CASE x \in s.waits
        BY ZenonT(60), <1>6, <1>10, <4>2 DEF IInv, JInv, WaitHasJob, Descends
      <4> QED BY ZenonT(60), <2>7, <4>1, <4>2
    <3> QED BY ZenonT(60), <3>1, <3>2, <3>3 DEF JInv, WaitHasJob
  <2> QED BY ZenonT(60), <1>1, <1>10, <2>7, <2>8, <2>10 DEF IInv
<1>11. CASE /\ Admitted(v.svc, p) /\ BlockersOf(s.locks, w) = {}
            /\ StageGrant(s, p, L, {r.file}, c.thread, "exits")
            /\ call' = {}
            /\ UNCHANGED <<epoch, image, alive, threads, jobs, todo>>
  <2>1. Blockers(s.locks, p, r.file, r.kind, r.range) = {}
    BY ZenonT(60), <1>11 DEF BlockersOf
  <2>2. Storable(s, p, L, {r.file})
    <3>1. r.file \in File /\ r.kind \in Kind /\ r.range \in ByteRange
      BY <1>2
    <3>2. SInv(s)
      BY SMTT(60), <1>7
    <3> QED BY Zenon, <1>1, <2>1, <3>1, <3>2, GrantInv
  <2>3. StageGrant(s, p, L, {r.file}, c.thread, "exits") /\ Admitted(s, p)
    BY ZenonT(60), <1>6, <1>11
  <2> HIDE DEF L
  <2>4. /\ SInv(svc') /\ svc'.waits = s.waits /\ svc'.nextWait = s.nextWait
        /\ staged' \in SUBSET Grant /\ stage' = "commit"
        /\ \A g \in staged' : GInv(svc', g)
    BY ZenonT(60), <1>1, <1>7, <2>2, <2>3, StageGrantInv
  <2>5. JInv'
    BY ZenonT(60), <1>6, <1>11, <2>4 DEF IInv, JInv, WaitHasJob, Descends
  <2>6. TypeOK'
    BY Zenon, <1>11, <2>4 DEF IInv, TypeOK, SInv, Stage
  <2> QED BY SMTT(60), <2>4, <2>5, <2>6 DEF IInv
<1> QED BY ZenonT(60), <1>4, <1>8, <1>9, <1>10, <1>11

\* Changing the preparations of an admitted process.
LEMMA ExecsInv ==
  ASSUME NEW s, SInv(s), NEW p \in Process, Admitted(s, p),
         NEW X \in SUBSET Preparation, NEW n \in 1..(MaxToken + 1),
         \A x \in X : x.owner = p \/ \E e \in s.execs : e.owner = x.owner
  PROVE  Descends(s, [s EXCEPT !.nextExec = n, !.execs = X])
<1> DEFINE u == [s EXCEPT !.nextExec = n, !.execs = X]
<1>1. /\ u.locks = s.locks /\ u.execs = X /\ u.waits = s.waits
      /\ u.files = s.files /\ u.observed = s.observed /\ u.nextWait = s.nextWait
      /\ u.registered = s.registered /\ u.exited = s.exited /\ u.page = s.page
      /\ u \in Service
  BY Zenon DEF SInv, Service
<1> HIDE DEF u
<1>2. ASSUME NEW q \in Process, ~Admitted(u, q)
      PROVE  /\ ~HasOwner(u.locks, q) /\ ~HasOwner(u.waits, q)
             /\ ~HasOwner(u.execs, q) /\ u.page[q] = "none"
  <2>1. ~Admitted(s, q) /\ q # p
    BY ZenonT(60), <1>1, <1>2 DEF Admitted
  <2> QED BY ZenonT(60), <1>1, <2>1 DEF SInv, HasOwner
<1>3. SInv(u)
  BY ZenonT(60), <1>1, <1>2 DEF SInv
<1> QED BY <1>1, <1>3 DEF Descends, u

LEMMA FinishExecStep ==
  ASSUME IInv, NEW c \in call, FinishExec(c)
  PROVE  IInv'
<1> DEFINE p == ProcessOf[c.thread]
           r == c.request
<1>1. /\ c.thread \in Thread /\ p \in Process /\ r \in AnyRequest
      /\ r.op \in {"prepare", "extend", "cancel"} /\ stage = "finish"
  BY ZenonT(60), ThreadAssumption, RequestAssumption DEF IInv, TypeOK, Call, FinishExec
<1>2. r.op \in {"prepare", "extend"} => r.files \in SUBSET File
  BY SMTT(60), <1>1 DEF AnyRequest
<1>3. PICK bad \in SUBSET Unreadable : ExecOutcome(c, Validated(c, bad))
  BY Zenon, ExecCases
<1> DEFINE s == Validated(c, bad).svc
           named == {e \in {x \in s.execs : x.owner = p} : e.token = r.token}
           owned == {f \in r.files : OwnsFile(s.locks, p, f)}
           new == [owner |-> p, revision |-> s.observed[p], token |-> s.nextExec, files |-> owned]
           grown == {[e EXCEPT !.files = @ \cup owned] : e \in named}
<1>4. \/ Answer(s)
      \/ /\ Admitted(s, p) /\ r.op = "prepare" /\ ~(s.nextExec > MaxToken)
         /\ Answer([s EXCEPT !.nextExec = @ + 1, !.execs = @ \cup {new}])
      \/ /\ Admitted(s, p) /\ r.op = "extend"
         /\ Answer([s EXCEPT !.execs = (@ \ named) \cup grown])
      \/ /\ Admitted(s, p) /\ Answer([s EXCEPT !.execs = @ \ named])
  BY ZenonT(60), <1>3 DEF ExecOutcome
<1>5. Descends(svc, s)
  BY ZenonT(60), <1>1, ValidatedInv DEF IInv
<1> HIDE DEF s
<1>6. /\ SInv(s) /\ s \in Service /\ s.execs \in SUBSET Preparation
      /\ s.nextExec \in 1..(MaxToken + 1) /\ s.observed[p] \in Image
  BY ZenonT(60), <1>1, <1>5 DEF Descends, SInv, Service
<1>7. ASSUME NEW X \in SUBSET Preparation, NEW n \in 1..(MaxToken + 1), Admitted(s, p),
             \A x \in X : x.owner = p \/ \E e \in s.execs : e.owner = x.owner
      PROVE  Descends(svc, [s EXCEPT !.nextExec = n, !.execs = X])
  BY ZenonT(60), <1>1, <1>5, <1>6, <1>7, ExecsInv, DescendsTrans
<1>8. CASE Answer(s)
  BY ZenonT(60), <1>1, <1>5, <1>8, AnswerStep
<1>9. CASE /\ Admitted(s, p) /\ r.op = "prepare" /\ ~(s.nextExec > MaxToken)
           /\ Answer([s EXCEPT !.nextExec = @ + 1, !.execs = @ \cup {new}])
  <2>1. s.nextExec \in Token /\ s.nextExec + 1 \in 1..(MaxToken + 1)
    BY <1>6, <1>9, LimitAssumption DEF Token
  <2>2. new \in Preparation /\ new.owner = p
    BY ZenonT(60), <1>1, <1>2, <1>6, <1>9, <2>1 DEF Preparation
  <2> DEFINE X == s.execs \cup {new}
             n == s.nextExec + 1
  <2>3. X \in SUBSET Preparation /\ n \in 1..(MaxToken + 1)
        /\ \A x \in X : x.owner = p \/ \E e \in s.execs : e.owner = x.owner
    BY Zenon, <1>6, <2>1, <2>2
  <2>4. Answer([s EXCEPT !.nextExec = n, !.execs = X])
    BY <1>9
  <2> HIDE DEF X, n
  <2>5. Descends(svc, [s EXCEPT !.nextExec = n, !.execs = X])
    BY Zenon, <1>7, <1>9, <2>3
  <2> QED BY ZenonT(60), <1>1, <2>4, <2>5, AnswerStep
<1>10. CASE /\ Admitted(s, p) /\ r.op = "extend"
            /\ Answer([s EXCEPT !.execs = (@ \ named) \cup grown])
  <2> DEFINE X == (s.execs \ named) \cup grown
  <2>1. ASSUME NEW x \in grown
        PROVE  x \in Preparation /\ x.owner = p
    <3>1. PICK e \in named : x = [e EXCEPT !.files = @ \cup owned]
      OBVIOUS
    <3>2. owned \in SUBSET File
      BY <1>2, <1>10
    <3>3. e \in Preparation /\ e.owner = p
      BY ZenonT(60), <1>6
    <3> HIDE DEF owned
    <3> QED BY ZenonT(60), <3>1, <3>2, <3>3 DEF Preparation
  <2>2. X \in SUBSET Preparation
        /\ \A x \in X : x.owner = p \/ \E e \in s.execs : e.owner = x.owner
    <3> HIDE DEF grown
    <3> QED BY <1>6, <2>1
  <2>3. [s EXCEPT !.nextExec = s.nextExec, !.execs = X] = [s EXCEPT !.execs = X]
    BY Zenon, <1>6 DEF Service
  <2>4. Answer([s EXCEPT !.execs = X])
    BY <1>10
  <2> HIDE DEF X
  <2>5. Descends(svc, [s EXCEPT !.execs = X])
    BY Zenon, <1>6, <1>7, <1>10, <2>2, <2>3
  <2> QED BY ZenonT(60), <1>1, <2>4, <2>5, AnswerStep
<1>11. CASE Admitted(s, p) /\ Answer([s EXCEPT !.execs = @ \ named])
  <2> DEFINE X == s.execs \ named
  <2>2. X \in SUBSET Preparation
        /\ \A x \in X : x.owner = p \/ \E e \in s.execs : e.owner = x.owner
    BY <1>6
  <2>3. [s EXCEPT !.nextExec = s.nextExec, !.execs = X] = [s EXCEPT !.execs = X]
    BY ZenonT(60), <1>6 DEF Service
  <2>4. Answer([s EXCEPT !.execs = X])
    BY <1>11
  <2> HIDE DEF X
  <2>5. Descends(svc, [s EXCEPT !.execs = X])
    BY Zenon, <1>6, <1>7, <1>11, <2>2, <2>3
  <2> QED BY ZenonT(60), <1>1, <2>4, <2>5, AnswerStep
<1> QED BY ZenonT(60), <1>4, <1>8, <1>9, <1>10, <1>11

LEMMA FinishInterruptStep ==
  ASSUME IInv, NEW c \in call, FinishInterrupt(c)
  PROVE  IInv'
<1>1. c.thread \in Thread /\ c.request \in AnyRequest /\ c.request.op = "interrupt"
  BY ZenonT(60), RequestAssumption DEF IInv, TypeOK, Call, FinishInterrupt
<1>2. c.request.target \in Thread
  BY ZenonT(60), <1>1 DEF AnyRequest
<1>3. PICK bad \in SUBSET Unreadable :
        /\ svc' = Validated(c, bad).svc
        /\ \/ epoch' = epoch
           \/ /\ epoch[c.request.target] < MaxEpoch
              /\ epoch' = [epoch EXCEPT ![c.request.target] = @ + 1]
  BY SMTT(60) DEF FinishInterrupt
<1>4. Descends(svc, svc')
  BY Zenon, <1>1, <1>3, ValidatedInv DEF IInv
<1>5. epoch' \in [Thread -> Epoch]
  <2>1. epoch \in [Thread -> 0..MaxEpoch]
    BY SMTT(60) DEF IInv, TypeOK, Epoch
  <2> QED BY <1>2, <1>3, <2>1, LimitAssumption DEF Epoch
<1>6. TypeOK'
  BY Zenon, <1>4, <1>5 DEF FinishInterrupt, IInv, TypeOK, Descends, SInv, Stage
<1> QED BY ZenonT(60), <1>4, <1>6, QuietStep DEF FinishInterrupt

LEMMA FinishPolicyStep ==
  ASSUME IInv, NEW c \in call, FinishPolicy(c)
  PROVE  IInv'
<1> DEFINE p == ProcessOf[c.thread]
           x == IF HasOwner(svc.locks, p) THEN "held" ELSE "clear"
           u == [svc EXCEPT !.page[p] = x]
<1>1. /\ p \in Process /\ stage = "finish" /\ SInv(svc) /\ Descends(svc, svc)
  BY ZenonT(60), ThreadAssumption DEF IInv, TypeOK, Call, FinishPolicy, Descends
<1>2. CASE Answer(svc)
  BY ZenonT(60), <1>1, <1>2, AnswerStep
<1>3. CASE Admitted(svc, p) /\ Answer(u)
  <2>1. /\ u.locks = svc.locks /\ u.execs = svc.execs /\ u.waits = svc.waits
        /\ u.files = svc.files /\ u.observed = svc.observed /\ u.nextWait = svc.nextWait
        /\ u.registered = svc.registered /\ u.exited = svc.exited /\ u \in Service
        /\ \A q \in Process : u.page[q] = IF q = p THEN x ELSE svc.page[q]
    BY ZenonT(60), <1>1 DEF SInv, Service
  <2>2. x = "clear" => ~HasOwner(svc.locks, p)
    OBVIOUS
  <2>3. Answer(u)
    BY ZenonT(60), <1>3
  <2> HIDE DEF u, x
  <2>4. \A q \in Process : HasOwner(u.locks, q) => u.page[q] # "clear"
    BY ZenonT(60), <1>1, <2>1, <2>2 DEF SInv
  <2>5. SInv(u)
    BY ZenonT(60), <1>1, <1>3, <2>1, <2>4 DEF SInv, Admitted
  <2> QED BY ZenonT(60), <1>1, <2>1, <2>3, <2>5, AnswerStep DEF Descends
<1> QED BY <1>2, <1>3 DEF FinishPolicy

-----------------------------------------------------------------------------
(* The theorems.                                                           *)

LEMMA InitIInv == Init => IInv
<1> SUFFICES ASSUME Init PROVE IInv
  OBVIOUS
<1>a. 0 \in Image /\ 0 \in Epoch /\ 1 \in 1..(MaxToken + 1)
  BY LimitAssumption DEF Image, Epoch
<1>b. /\ [p \in Process |-> 0] \in [Process -> Image]
      /\ [t \in Thread |-> 0] \in [Thread -> Epoch]
      /\ [p \in Process |-> "none"] \in [Process -> {"none", "clear", "held"}]
  BY ZenonT(60), <1>a
<1>1. svc \in Service
  BY ZenonT(60), <1>a, <1>b DEF Init, Service
<1>2. TypeOK
  BY ZenonT(60), <1>1, <1>b DEF Init, TypeOK, Stage
<1>3. /\ svc.locks = {} /\ svc.waits = {} /\ svc.execs = {}
      /\ svc.page = [p \in Process |-> "none"]
  BY SMTT(60) DEF Init
<1>4. SInv(svc)
  BY Zenon, <1>1, <1>3 DEF SInv, Exclusive, HasOwner
<1> QED BY Zenon, <1>2, <1>3, <1>4 DEF Init, IInv, JInv, WaitHasJob

LEMMA NextIInv == IInv /\ [Next]_vars => IInv'
<1> SUFFICES ASSUME IInv, [Next]_vars PROVE IInv'
  OBVIOUS
<1>1. CASE LoopExits BY <1>1, LoopExitsStep
<1>2. CASE LoopExecs BY <1>2, LoopExecsStep
<1>3. CASE \E j \in todo : RetryJob(j) BY <1>3, RetryJobStep
<1>4. CASE CommitGrant BY <1>4, CommitGrantStep
<1>5. CASE EndPass BY ZenonT(60), <1>5, EndPassStep
<1>6. CASE Wake \/ OtherRequest
  <2>1. TypeOK' /\ Descends(svc, svc')
    BY <1>6 DEF Wake, OtherRequest, IInv, TypeOK, Stage, Descends
  <2> QED BY ZenonT(60), <1>6, <2>1, QuietStep DEF Wake, OtherRequest
<1>7. CASE \E t \in Thread, r \in Request : Receive(t, r) BY ZenonT(60), <1>7, ReceiveStep
<1>8. CASE Finish
  BY ZenonT(60), <1>8, FinishRecordLockStep, FinishWaitStep, FinishExecStep, FinishInterruptStep,
     FinishPolicyStep DEF Finish
<1>9. CASE \E p \in Process : Reap(p) BY ZenonT(60), <1>9, ReapStep
<1>10. CASE \E p \in Process : NativeExit(p)
  BY ZenonT(60), <1>10, NativeStep DEF NativeExit, IInv, TypeOK
<1>11. CASE \E t \in Thread : NativeExec(t) \/ NativeThreadExit(t)
  <2>1. ASSUME NEW t \in Thread, NativeExec(t) PROVE IInv'
    BY ZenonT(60), <2>1, NativeStep, NativeExecType DEF NativeExec, IInv, TypeOK
  <2>2. ASSUME NEW t \in Thread, NativeThreadExit(t) PROVE IInv'
    BY ZenonT(60), <2>2, NativeStep DEF NativeThreadExit, IInv, TypeOK
  <2> QED BY ZenonT(60), <1>11, <2>1, <2>2
<1>12. CASE UNCHANGED vars
  BY Zenon, <1>12 DEF vars, IInv, TypeOK, JInv, WaitHasJob
<1> QED BY ZenonT(60), <1>1, <1>2, <1>3, <1>4, <1>5, <1>6, <1>7, <1>8, <1>9, <1>10, <1>11, <1>12 DEF Next

\* The conjunction above holds in every reachable state.
THEOREM Invariance == Spec => []IInv
BY InitIInv, NextIInv, PTL DEF Spec

\* Every variable keeps its type.
THEOREM TypeCorrect == Spec => []TypeOK
<1>1. IInv => TypeOK
  BY DEF IInv
<1> QED BY <1>1, Invariance, PTL

\* No two processes ever hold conflicting locks, across splitting and merging,
\* deferred grants, execs and exits.
THEOREM LocksExclude == Spec => []MutualExclusion
<1>1. IInv => MutualExclusion
  BY Zenon DEF IInv, SInv, MutualExclusion
<1> QED BY <1>1, Invariance, PTL

\* Every inode a lock or a queued wait names stays pinned.
THEOREM PinsCover == Spec => []FilesPinned
<1>1. IInv => FilesPinned
  BY ZenonT(60) DEF IInv, SInv, FilesPinned
<1> QED BY <1>1, Invariance, PTL

\* The fast-close page never says "clear" to a process that holds locks or has
\* been told that it does.
THEOREM HintNeverLies == Spec => []HintSound
<1>1. IInv => HintSound
  BY DEF IInv, SInv, GInv, HintSound
<1> QED BY <1>1, Invariance, PTL

\* Observed exits leave nothing behind.
THEOREM ExitsRetire == Spec => []ExitRetiresAll
<1>1. IInv => ExitRetiresAll
  BY DEF IInv, SInv, Admitted, ExitRetiresAll
<1> QED BY <1>1, Invariance, PTL

\* Every queued wait is still served by exactly the call that queued it.
THEOREM WaitsServed == Spec => []WaitHasJob
<1>1. IInv => WaitHasJob
  BY DEF IInv, JInv
<1> QED BY <1>1, Invariance, PTL
=============================================================================
