--------------------------- MODULE RecordLockSettled ---------------------------
(***************************************************************************)
(* Every step of RecordLockService leaves the registry merged, observed    *)
(* execs release exactly what was prepared, no call is left queued behind  *)
(* a stale lock, and refusing cycles when a call is queued keeps           *)
(* single-threaded processes free of deadlock.                             *)
(***************************************************************************)
EXTENDS RecordLockSteps

-----------------------------------------------------------------------------
(* The handlers, one lemma each.                                           *)

LEMMA FinishWaitSettles ==
  ASSUME IInv, Settled, NEW c \in call, FinishWait(c)
  PROVE  Settles /\ Shape /\ Unstale /\ Serves
<1> DEFINE p == ProcessOf[c.thread]
           r == c.request
<1>1. /\ c.thread \in Thread /\ p \in Process /\ r \in AnyRequest /\ r.op = "wait"
      /\ TypeOK /\ SInv(svc) /\ Current(svc) /\ todo' = todo
  BY ZenonT(60), ThreadAssumption, RequestAssumption DEF IInv, TypeOK, Call, FinishWait, Settled, Answer
<1>2. r.file \in File /\ r.range \in ByteRange /\ r.kind \in Kind
  BY <1>1 DEF AnyRequest
<1>3. PICK bad \in SUBSET Unreadable :
        WaitOutcome(c, RefreshedFor(Validated(c, bad), r.file, bad))
  BY Zenon, WaitCases
<1> DEFINE i == Validated(c, bad)
           v == RefreshedFor(i, r.file, bad)
           s == ReleaseUnused(v.svc)
           w == [owner |-> p, revision |-> s.observed[p], file |-> r.file,
                 kind |-> r.kind, range |-> r.range, token |-> s.nextWait]
           job == [thread |-> c.thread, image |-> c.image, epoch |-> c.epoch,
                   token |-> w.token, file |-> r.file]
<1>4. \/ /\ svc' = v.svc \/ svc' = s \/ svc' = Hint(s, p, "held")
         /\ jobs' = jobs
         /\ staged' = staged \/ \A g \in staged' : g.owner = p
      \/ /\ staged' = staged /\ v.ok /\ ~Deadlocks(s, w) /\ ~QueueFull(s, p)
         /\ svc' = Enqueue(s, w) /\ jobs' = jobs \cup {job}
  <2>1. \/ (svc' = v.svc \/ svc' = s) /\ jobs' = jobs /\ staged' = staged
        \/ /\ staged' = staged /\ v.ok /\ ~Deadlocks(s, w) /\ ~QueueFull(s, p)
           /\ svc' = Enqueue(s, w) /\ jobs' = jobs \cup {job}
        \/ /\ StageGrant(s, p, Replacement(s.locks, p, r.file, r.kind, r.range), {r.file},
                         c.thread, "exits")
           /\ jobs' = jobs
    BY ZenonT(60), <1>3 DEF WaitOutcome, Answer
  <2>2. CASE /\ StageGrant(s, p, Replacement(s.locks, p, r.file, r.kind, r.range), {r.file},
                           c.thread, "exits")
             /\ jobs' = jobs
    <3> HIDE DEF s, v, w, job
    <3> QED BY ZenonT(60), <2>2, StageGrantOwner
  <2> HIDE DEF s, v, w, job
  <2> QED BY ZenonT(60), <2>1, <2>2
<1>5. Observes(svc, v.svc, image) /\ (v.ok => v.svc.observed[p] <= svc.observed[p])
  BY ZenonT(60), <1>1, HandlerObserves, Accepted
<1>6. Descends(svc, v.svc)
  BY ZenonT(60), <1>1, HandlerInv
<1>7. \A x \in v.svc.execs : v.ok /\ r.file \in x.files => image[x.owner] <= x.revision
  <2>1. Descends(svc, i.svc) /\ Observes(svc, i.svc, image)
    BY ZenonT(60), <1>1, ValidatedInv, ValidatedObserves
  <2> HIDE DEF i
  <2>2. SInv(i.svc) /\ Current(i.svc)
    BY ZenonT(60), <1>1, <2>1, ObservesCurrent DEF Descends
  <2>3. v.ok => i.ok
    BY ZenonT(60), <1>1, <2>2, RefreshedForInv
  <2> QED BY ZenonT(60), <1>1, <2>2, <2>3, FreshFor
<1> HIDE DEF v
<1>8. v.svc \in Service /\ SInv(v.svc)
  BY <1>6 DEF Descends, SInv
<1>9. /\ s \in Service /\ s.locks = v.svc.locks /\ s.execs = v.svc.execs
      /\ s.waits = v.svc.waits /\ s.observed = v.svc.observed /\ s.nextWait = v.svc.nextWait
  BY ZenonT(60), <1>8, ReleaseUnusedKeeps
<1> HIDE DEF s
<1>10. Observes(svc, s, image)
  BY ZenonT(60), <1>5, <1>9, ObservesLike
<1>11. CASE /\ svc' = v.svc \/ svc' = s \/ svc' = Hint(s, p, "held")
            /\ jobs' = jobs
            /\ staged' = staged \/ \A g \in staged' : g.owner = p
  <2>1. /\ svc' \in Service /\ svc'.locks = s.locks /\ svc'.execs = s.execs
        /\ svc'.waits \subseteq s.waits /\ svc'.observed = s.observed
    <3>1. p \in Process
      BY <1>1
    <3> HIDE DEF p
    <3>2. CASE svc' = Hint(s, p, "held")
      BY ZenonT(60), <1>9, <3>1, <3>2, HeldKeeps
    <3> QED BY ZenonT(60), <1>8, <1>9, <1>11, <3>2
  <2>2. Observes(svc, svc', image)
    BY ZenonT(60), <1>10, <2>1, ObservesLike
  <2>3. Unstale
    BY ZenonT(60), <1>1, <1>11 DEF Unstale
  <2>4. Serves
    BY ZenonT(60), <1>11, <2>2 DEF Serves, Observes
  <2> QED BY ZenonT(60), <1>1, <2>2, <2>3, <2>4, ObservingStep
<1>12. CASE /\ staged' = staged /\ v.ok /\ ~Deadlocks(s, w) /\ ~QueueFull(s, p)
            /\ svc' = Enqueue(s, w) /\ jobs' = jobs \cup {job}
  <2>1. /\ svc'.locks = s.locks /\ svc'.execs = s.execs /\ svc'.waits = s.waits \cup {w}
        /\ svc'.observed = s.observed
    <3> HIDE DEF w
    <3> QED BY ZenonT(60), <1>9, <1>12 DEF Enqueue, Service
  <2>2. w.owner = p /\ w.file = r.file /\ w.token = s.nextWait
    BY ZenonT(60)
  <2>3. w \in Wait
    <3>1. s.nextWait \in 1..(MaxToken + 1) /\ s.observed[p] \in Image
      BY ZenonT(60), <1>1, <1>9 DEF Service
    <3>2. ~(s.nextWait > MaxToken)
      BY ZenonT(60), <1>12 DEF QueueFull
    <3>3. s.nextWait \in Token
      BY SMTT(60), <3>1, <3>2, LimitAssumption DEF Token
    <3> QED BY ZenonT(60), <1>1, <1>2, <3>1, <3>3 DEF Wait
  <2>4. \A x \in s.waits : x.token < s.nextWait
    BY ZenonT(60), <1>8, <1>9 DEF SInv
  <2> HIDE DEF w
  <2>5. Acts(s, svc', p)
    BY ZenonT(60), <2>1, <2>2 DEF Acts, Mine
  <2>6. Merged(svc'.locks)
    BY ZenonT(60), <1>10, <2>1, MergedLoses DEF Observes, Settled
  <2>7. Current(svc')
    <3>1. Current(s)
      BY ZenonT(60), <1>1, <1>10, ObservesCurrent
    <3> QED BY ZenonT(60), <2>1, <3>1 DEF Current
  <2>8. Settles
    BY ZenonT(60), <1>1, <1>5, <1>9, <1>10, <1>12, <2>5, <2>6, <2>7, ActingStep
  <2>9. Queues(svc, svc', p)
    <3>1. Shrinks(svc, s)
      BY ZenonT(60), <1>10 DEF Observes, Loses, Shrinks
    <3> QED BY ZenonT(60), <1>9, <1>12, <2>1, <2>2, <2>3, <3>1 DEF Queues
  <2>10. Unstale
    <3> SUFFICES ASSUME NEW k \in jobs', k \notin jobs \/ k \in todo \ todo',
                        NEW u \in svc'.waits, u.token = k.token,
                        NEW l \in BlockersOf(svc'.locks, u), NEW x \in svc'.execs,
                        x.owner = l.owner, l.file \in x.files
                 PROVE  image[x.owner] <= x.revision
      BY ZenonT(60) DEF Unstale
    <3>1. k = job
      BY ZenonT(60), <1>1, <1>12
    <3>2. u.token = s.nextWait
      BY ZenonT(60), <2>2, <3>1
    <3>3. s.nextWait \in Int
      BY <1>9, LimitAssumption DEF Service
    <3>4. u = w
      BY <2>1, <2>4, <3>2, <3>3
    <3>5. l.file = r.file
      BY ZenonT(60), <2>2, <3>4 DEF BlockersOf, Blockers
    <3> QED BY ZenonT(60), <1>7, <1>9, <1>12, <2>1, <3>5
  <2>11. Serves
    BY ZenonT(60), <1>12 DEF Serves
  <2> QED BY ZenonT(60), <2>8, <2>9, <2>10, <2>11 DEF Shape
<1> QED BY ZenonT(60), <1>4, <1>11, <1>12

\* A preparation made, extended or cancelled stays that of the caller's image.
LEMMA PreparingStep ==
  ASSUME TypeOK, Settled, NEW s, Observes(svc, s, image), NEW p \in Process,
         s.observed[p] <= svc.observed[p],
         svc'.locks = s.locks, svc'.waits = s.waits, svc'.observed = s.observed,
         \A e \in svc'.execs : e \in s.execs \/ (e.owner = p /\ e.revision = s.observed[p]),
         \A e \in s.execs : e.owner # p => e \in svc'.execs
  PROVE  Settles /\ Shape
<1>1. Acts(s, svc', p)
  BY Zenon DEF Acts, Mine
<1>2. Current(svc')
  <2>1. Current(s)
    BY ZenonT(60), ObservesCurrent DEF Settled
  <2> QED BY ZenonT(60), <2>1 DEF Current
<1>3. Merged(svc'.locks)
  BY ZenonT(60), MergedLoses DEF Observes, Settled
<1>4. Shrinks(svc, svc')
  BY ZenonT(60) DEF Shrinks, Observes, Loses
<1> QED BY ZenonT(60), <1>1, <1>2, <1>3, <1>4, ActingStep DEF Shape

LEMMA FinishExecSettles ==
  ASSUME IInv, Settled, NEW c \in call, FinishExec(c)
  PROVE  Settles /\ Shape
<1> DEFINE p == ProcessOf[c.thread]
           r == c.request
<1>1. /\ c.thread \in Thread /\ p \in Process /\ TypeOK /\ SInv(svc) /\ Current(svc)
      /\ c.image <= svc.observed[p]
  BY ZenonT(60), ThreadAssumption DEF IInv, TypeOK, Call, Settled
<1>3. PICK bad \in SUBSET Unreadable : ExecOutcome(c, Validated(c, bad))
  BY Zenon, ExecCases
<1> DEFINE v == Validated(c, bad)
           s == v.svc
           named == {e \in {x \in s.execs : x.owner = p} : e.token = r.token}
           owned == {f \in r.files : OwnsFile(s.locks, p, f)}
           new == [owner |-> p, revision |-> s.observed[p], token |-> s.nextExec, files |-> owned]
           grown == {[e EXCEPT !.files = @ \cup owned] : e \in named}
<1>4. \/ svc' = s
      \/ v.ok /\ svc' = [s EXCEPT !.nextExec = @ + 1, !.execs = @ \cup {new}]
      \/ v.ok /\ svc' = [s EXCEPT !.execs = (@ \ named) \cup grown]
      \/ v.ok /\ svc' = [s EXCEPT !.execs = @ \ named]
  BY ZenonT(60), <1>3 DEF ExecOutcome, Answer
<1>5. Observes(svc, s, image) /\ (v.ok => s.observed[p] = c.image)
  BY ZenonT(60), <1>1, ValidatedObserves, ValidatedInv
<1> HIDE DEF v
<1>6. s \in Service /\ (v.ok => s.observed[p] <= svc.observed[p])
  BY ZenonT(60), <1>1, <1>5 DEF Observes
<1>7. CASE svc' = s
  BY ZenonT(60), <1>1, <1>5, <1>7, ObservingStep
<1>8. CASE v.ok /\ svc' = [s EXCEPT !.nextExec = @ + 1, !.execs = @ \cup {new}]
  <2>1. new.owner = p /\ new.revision = s.observed[p]
    BY ZenonT(60)
  <2> HIDE DEF new, s
  <2>2. /\ svc'.locks = s.locks /\ svc'.waits = s.waits /\ svc'.observed = s.observed
        /\ svc'.execs = s.execs \cup {new}
    BY ZenonT(60), <1>6, <1>8 DEF Service
  <2> QED BY ZenonT(60), <1>1, <1>5, <1>6, <1>8, <2>1, <2>2, PreparingStep
<1>9. CASE v.ok /\ svc' = [s EXCEPT !.execs = (@ \ named) \cup grown]
  <2>1. ASSUME NEW g \in grown PROVE g.owner = p /\ g.revision = s.observed[p]
    <3>1. PICK e \in named : g = [e EXCEPT !.files = @ \cup owned]
      BY ZenonT(60)
    <3>2. e \in Preparation /\ e \in s.execs /\ e.owner = p
      BY ZenonT(60), <1>6 DEF Service
    <3> HIDE DEF owned
    <3>3. g.owner = e.owner /\ g.revision = e.revision
      BY ZenonT(60), <3>1, <3>2 DEF Preparation
    <3>4. e.revision = s.observed[p]
      BY SMTT(60), <1>1, <1>5, <3>2, ObservesCurrent DEF Current
    <3> QED BY ZenonT(60), <3>2, <3>3, <3>4
  <2>2. \A e \in named : e.owner = p
    BY ZenonT(60)
  <2> HIDE DEF grown, named, s
  <2>3. /\ svc'.locks = s.locks /\ svc'.waits = s.waits /\ svc'.observed = s.observed
        /\ svc'.execs = (s.execs \ named) \cup grown
    BY ZenonT(60), <1>6, <1>9 DEF Service
  <2>4. \A e \in svc'.execs : e \in s.execs \/ (e.owner = p /\ e.revision = s.observed[p])
    BY ZenonT(60), <2>1, <2>3
  <2>5. \A e \in s.execs : e.owner # p => e \in svc'.execs
    BY ZenonT(60), <2>2, <2>3
  <2> QED BY ZenonT(60), <1>1, <1>5, <1>6, <1>9, <2>3, <2>4, <2>5, PreparingStep
<1>10. CASE v.ok /\ svc' = [s EXCEPT !.execs = @ \ named]
  <2>1. \A e \in named : e.owner = p
    OBVIOUS
  <2> HIDE DEF named, s
  <2>2. /\ svc'.locks = s.locks /\ svc'.waits = s.waits /\ svc'.observed = s.observed
        /\ svc'.execs = s.execs \ named
    BY ZenonT(60), <1>6, <1>10 DEF Service
  <2> QED BY ZenonT(60), <1>1, <1>5, <1>6, <1>10, <2>1, <2>2, PreparingStep
<1> QED BY ZenonT(60), <1>4, <1>7, <1>8, <1>9, <1>10

LEMMA FinishInterruptSettles ==
  ASSUME IInv, Settled, NEW c \in call, FinishInterrupt(c)
  PROVE  Settles /\ Shape
<1>1. c.thread \in Thread /\ TypeOK /\ Current(svc)
  BY ZenonT(60) DEF IInv, TypeOK, Call, Settled
<1>2. PICK bad \in SUBSET Unreadable : svc' = Validated(c, bad).svc
  BY DEF FinishInterrupt
<1>3. Observes(svc, svc', image)
  BY ZenonT(60), <1>1, <1>2, ValidatedObserves
<1> QED BY ZenonT(60), <1>1, <1>3, ObservingStep

LEMMA FinishPolicySettles ==
  ASSUME IInv, Settled, NEW c \in call, FinishPolicy(c)
  PROVE  Settles /\ Shape
<1>1. svc \in Service
  BY ZenonT(60) DEF IInv, TypeOK
<1>2. /\ svc'.locks = svc.locks /\ svc'.execs = svc.execs
      /\ svc'.waits = svc.waits /\ svc'.observed = svc.observed
  BY ZenonT(60), <1>1 DEF FinishPolicy, Answer, Service
<1> QED BY ZenonT(60), <1>2, StutterSettles

LEMMA NextSettles ==
  ASSUME IInv, GrantsFresh, Settled, [Next]_vars
  PROVE  Settles /\ Shape
<1>1. CASE LoopExits BY ZenonT(60), <1>1, LoopExitsSettles
<1>2. CASE LoopExecs BY ZenonT(60), <1>2, LoopExecsSettles
<1>3. CASE \E j \in todo : RetryJob(j) BY ZenonT(60), <1>3, RetryJobSettles
<1>4. CASE CommitGrant BY ZenonT(60), <1>4, CommitGrantSettles
<1>5. CASE EndPass BY ZenonT(60), <1>5, EndPassSettles
<1>6. CASE Wake \/ OtherRequest BY ZenonT(60), <1>6, StutterSettles DEF Wake, OtherRequest
<1>7. CASE \E t \in Thread, r \in Request : Receive(t, r) BY ZenonT(60), <1>7, ReceiveSettles
<1>8. CASE Finish
  BY ZenonT(60), <1>8, FinishRecordLockSettles, FinishWaitSettles, FinishExecSettles,
     FinishInterruptSettles, FinishPolicySettles DEF Finish
<1>9. CASE \E p \in Process : Reap(p) BY ZenonT(60), <1>9, ReapSettles
<1>10. CASE \E p \in Process : NativeExit(p)
  BY ZenonT(60), <1>10, StutterSettles DEF NativeExit, Service_
<1>11. CASE \E t \in Thread : NativeExec(t) \/ NativeThreadExit(t)
  BY ZenonT(60), <1>11, StutterSettles DEF NativeExec, NativeThreadExit, Service_
<1>12. CASE UNCHANGED vars
  BY ZenonT(60), <1>12, StutterSettles DEF vars
<1> QED BY ZenonT(60), <1>1, <1>2, <1>3, <1>4, <1>5, <1>6, <1>7, <1>8, <1>9, <1>10, <1>11, <1>12 DEF Next

-----------------------------------------------------------------------------
(* The theorems about single steps.                                        *)

LEMMA NextBooks ==
  ASSUME IInv, Settled, [Next]_vars
  PROVE  Books
<1>1. CASE LoopExits \/ LoopExecs \/ CommitGrant \/ EndPass \/ Wake \/ OtherRequest
  BY ZenonT(60), <1>1 DEF LoopExits, LoopExecs, CommitGrant, EndPass, Wake, OtherRequest, Books
<1>2. CASE \E j \in todo : RetryJob(j)
  BY ZenonT(60), <1>2, RetryJobSettles
<1>3. CASE \E t \in Thread, r \in Request : Receive(t, r)
  <2>1. PICK t \in Thread, r \in Request : Receive(t, r)
    BY ZenonT(60), <1>3
  <2> DEFINE late == r.op = "wait" /\ r.late
             new == [thread |-> t, image |-> svc'.observed[ProcessOf[t]], request |-> r,
                     epoch |-> IF late THEN epoch[t] - 1 ELSE epoch[t]]
  <2>2. /\ call' = {new} /\ jobs' = jobs /\ \A j \in jobs : j.thread # t
        /\ svc' = Refresh(svc, {ProcessOf[t]}, {})
    BY ZenonT(60), <2>1 DEF Receive
  <2>3. svc'.observed[ProcessOf[t]] \in Int
    <3>1. svc' \in Service
      BY ZenonT(60), <2>2, RefreshType, ThreadAssumption DEF IInv, TypeOK
    <3> QED BY SMTT(60), <3>1, ThreadAssumption, LimitAssumption DEF Service, Image
  <2>4. new.thread = t /\ new.image = svc'.observed[ProcessOf[t]]
    OBVIOUS
  <2> HIDE DEF new
  <2>5. svc'.observed[ProcessOf[t]] <= svc'.observed[ProcessOf[t]]
    BY SMTT(60), <2>3
  <2>6. ASSUME NEW c \in call'
        PROVE  /\ \A j \in jobs : j.thread # c.thread
               /\ c.thread \in Thread
               /\ c.image <= svc'.observed[ProcessOf[c.thread]]
    BY ZenonT(60), <2>2, <2>4, <2>5
  <2> QED BY ZenonT(60), <2>2, <2>6 DEF Books
<1>4. CASE Finish
  <2>1. PICK c \in call : \/ FinishRecordLock(c) \/ FinishWait(c) \/ FinishExec(c)
                          \/ FinishInterrupt(c) \/ FinishPolicy(c)
    BY ZenonT(60), <1>4 DEF Finish
  <2>2. CASE FinishWait(c)
    <3> DEFINE p == ProcessOf[c.thread]
    <3>1. \/ jobs' = jobs /\ call' = {}
          \/ call' = {} /\ \E k : jobs' = jobs \cup {[thread |-> c.thread, image |-> c.image,
                epoch |-> c.epoch, token |-> k, file |-> c.request.file]}
      BY ZenonT(60), <2>2 DEF FinishWait, Answer
    <3>2. CASE jobs' = jobs /\ call' = {}
      BY <3>2 DEF Books
    <3>3. CASE call' = {} /\ \E k : jobs' = jobs \cup {[thread |-> c.thread, image |-> c.image,
                epoch |-> c.epoch, token |-> k, file |-> c.request.file]}
      <4>1. PICK k : jobs' = jobs \cup {[thread |-> c.thread, image |-> c.image,
                epoch |-> c.epoch, token |-> k, file |-> c.request.file]}
        BY SMTT(60), <3>3
      <4> DEFINE n == [thread |-> c.thread, image |-> c.image,
                epoch |-> c.epoch, token |-> k, file |-> c.request.file]
      <4>2. jobs' = jobs \cup {n} /\ n.thread = c.thread
        BY ZenonT(60), <4>1
      <4> HIDE DEF n
      <4> QED BY SMTT(60), <3>3, <4>2 DEF Books
    <3> QED BY Zenon, <3>1, <3>2, <3>3
  <2>3. CASE FinishRecordLock(c)
    BY ZenonT(60), <2>3, RecordLockAnswers DEF Books
  <2>4. CASE FinishExec(c)
    BY ZenonT(60), <2>4 DEF FinishExec, Answer, Books
  <2>5. CASE FinishInterrupt(c) \/ FinishPolicy(c)
    BY ZenonT(60), <2>5 DEF FinishInterrupt, FinishPolicy, Answer, Books
  <2> QED BY SMTT(60), <2>1, <2>2, <2>3, <2>4, <2>5
<1>5. CASE \E p \in Process : Reap(p) \/ NativeExit(p)
  BY ZenonT(60), <1>5 DEF Reap, NativeExit, Service_, Books
<1>6. CASE \E t \in Thread : NativeExec(t) \/ NativeThreadExit(t)
  BY ZenonT(60), <1>6 DEF NativeExec, NativeThreadExit, Service_, Books
<1>7. CASE UNCHANGED vars
  BY ZenonT(60), <1>7 DEF vars, Books
<1> QED BY ZenonT(60), <1>1, <1>2, <1>3, <1>4, <1>5, <1>6, <1>7 DEF Next

LEMMA NextSettled ==
  ASSUME IInv, GrantsFresh, Settled, [Next]_vars, TypeOK'
  PROVE  Settled'
<1>1. Settles /\ Books /\ TypeOK /\ TypeOK'
  BY ZenonT(60), NextSettles, NextBooks DEF IInv
<1>2. ASSUME NEW c \in call' PROVE c.image <= svc'.observed[ProcessOf[c.thread]]
  <2>1. CASE c \in call
    <3>1. c.thread \in Thread /\ c.image \in Int /\ ProcessOf[c.thread] \in Process
      BY SMTT(60), <1>1, <2>1, ThreadAssumption, LimitAssumption DEF TypeOK, Call, Image
    <3>2. svc.observed[ProcessOf[c.thread]] \in Int /\ svc'.observed[ProcessOf[c.thread]] \in Int
      BY SMTT(60), <1>1, <3>1, LimitAssumption DEF TypeOK, Service, Image
    <3>3. /\ c.image <= svc.observed[ProcessOf[c.thread]]
          /\ svc.observed[ProcessOf[c.thread]] <= svc'.observed[ProcessOf[c.thread]]
      BY ZenonT(60), <1>1, <2>1, <3>1 DEF Settled, Settles
    <3> QED BY SMTT(60), <3>1, <3>2, <3>3
  <2>2. CASE c \notin call
    BY ZenonT(60), <1>1, <2>2 DEF Books
  <2> QED BY ZenonT(60), <2>1, <2>2
<1> QED BY ZenonT(60), <1>1, <1>2 DEF Settles, Settled

LEMMA InitSettled ==
  ASSUME Init
  PROVE  Settled
<1>1. svc.locks = {} /\ svc.execs = {} /\ call = {}
  BY DEF Init
<1>2. Coalesce({}) = {}
  <2>1. ASSUME NEW l \in Coalesce({}) PROVE FALSE
    <3>1. Covers({}, l, l.range.start)
      BY ZenonT(60), RunStarts
    <3> QED BY ZenonT(60), <3>1 DEF Covers
  <2> QED BY ZenonT(60), <2>1
<1> QED BY ZenonT(60), <1>1, <1>2 DEF Settled, Merged, Current

\* What ExecReleasesPrepared says of one step.
Exact ==
  \A p \in alive : svc'.observed[p] # svc.observed[p] =>
    /\ ~HasOwner(svc'.execs, p) /\ ~HasOwner(svc'.waits, p)
    /\ {l \in svc'.locks : l.owner = p} =
         {l \in svc.locks : l.owner = p /\
            \A e \in svc.execs : e.owner = p => l.file \notin e.files}

LEMMA NextExact ==
  ASSUME IInv, GrantsFresh, Settled, [Next]_vars
  PROVE  Exact
<1> SUFFICES ASSUME NEW p \in alive, svc'.observed[p] # svc.observed[p]
               PROVE  /\ ~HasOwner(svc'.execs, p) /\ ~HasOwner(svc'.waits, p)
                      /\ {l \in svc'.locks : l.owner = p} =
                          {l \in svc.locks : l.owner = p /\
                             \A e \in svc.execs : e.owner = p => l.file \notin e.files}
  BY ZenonT(60) DEF Exact
<1>1. p \in Process
  BY ZenonT(60) DEF IInv, TypeOK
<1>2. Releases(svc, svc')
  BY ZenonT(60), NextSettles DEF Settles
<1>3. /\ Mine(svc'.execs, p) = {} /\ Mine(svc'.waits, p) = {}
        /\ Mine(svc'.locks, p) = {l \in svc.locks : l.owner = p /\
                             \A e \in svc.execs : e.owner = p => l.file \notin e.files}
  BY ZenonT(60), <1>1, <1>2 DEF Releases
<1> QED BY ZenonT(60), <1>3 DEF Mine, HasOwner

LEMMA NextUnstale ==
  ASSUME IInv, Settled, [Next]_vars
  PROVE  Unstale
<1>1. CASE \E j \in todo : RetryJob(j)
  BY ZenonT(60), <1>1, RetryJobSettles
<1>2. CASE \E c \in call : FinishWait(c)
  BY ZenonT(60), <1>2, FinishWaitSettles
<1>3. CASE LoopExecs
  BY ZenonT(60), <1>3 DEF LoopExecs, Unstale
<1>4. CASE jobs' = jobs /\ todo' = todo
  BY ZenonT(60), <1>4 DEF Unstale
<1>5. CASE LoopExits \/ CommitGrant \/ EndPass \/ Wake \/ OtherRequest
  BY ZenonT(60), <1>4, <1>5 DEF LoopExits, CommitGrant, EndPass, Wake, OtherRequest
<1>6. CASE \E t \in Thread, r \in Request : Receive(t, r)
  BY ZenonT(60), <1>4, <1>6 DEF Receive
<1>7. CASE \E c \in call : FinishRecordLock(c)
  BY ZenonT(60), <1>4, <1>7, RecordLockAnswers
<1>8. CASE \E c \in call : FinishExec(c)
  BY <1>4, <1>8 DEF FinishExec, Answer
<1>9. CASE \E c \in call : FinishInterrupt(c) \/ FinishPolicy(c)
  BY ZenonT(60), <1>4, <1>9 DEF FinishInterrupt, FinishPolicy, Answer
<1>10. CASE \E p \in Process : Reap(p) \/ NativeExit(p)
  BY ZenonT(60), <1>4, <1>10 DEF Reap, NativeExit, Service_
<1>11. CASE \E t \in Thread : NativeExec(t) \/ NativeThreadExit(t)
  BY ZenonT(60), <1>4, <1>11 DEF NativeExec, NativeThreadExit, Service_
<1>12. CASE UNCHANGED vars
  BY ZenonT(60), <1>4, <1>12 DEF vars
<1>13. CASE Finish
  BY ZenonT(60), <1>2, <1>7, <1>8, <1>9, <1>13 DEF Finish
<1> QED BY ZenonT(60), <1>1, <1>3, <1>5, <1>6, <1>10, <1>11, <1>12, <1>13 DEF Next

-----------------------------------------------------------------------------
(* Cycles.                                                                 *)

\* No set of waiting processes each of which waits for another of the set.
Acyclic(s) ==
  \A S \in SUBSET {w.owner : w \in s.waits} :
    S # {} => \E o \in S : Successors(s.locks, s.waits, o) \cap S = {}

LEMMA Edge ==
  ASSUME NEW L, NEW W, NEW o, NEW x
  PROVE  x \in Successors(L, W, o) <=>
           \E w \in W : w.owner = o /\ \E l \in BlockersOf(L, w) : l.owner = x
BY ZenonT(60) DEF Successors

\* New locks of a process that waits for nothing close no cycle.
LEMMA WritesAcyclic ==
  ASSUME NEW s, NEW t, NEW p, Acyclic(s), Writes(s, t, p), ~HasOwner(t.waits, p)
  PROVE  Acyclic(t)
<1> SUFFICES ASSUME NEW S \in SUBSET {w.owner : w \in t.waits}, S # {}
             PROVE  \E o \in S : Successors(t.locks, t.waits, o) \cap S = {}
  BY ZenonT(60) DEF Acyclic
<1>1. S \in SUBSET {w.owner : w \in s.waits}
  BY ZenonT(60) DEF Writes
<1>2. PICK o \in S : Successors(s.locks, s.waits, o) \cap S = {}
  BY ZenonT(60), <1>1 DEF Acyclic
<1>3. ASSUME NEW x \in Successors(t.locks, t.waits, o), x \in S PROVE FALSE
  <2>1. PICK w \in t.waits : w.owner = o /\ \E l \in BlockersOf(t.locks, w) : l.owner = x
    BY SMTT(60), Edge
  <2>2. PICK l \in BlockersOf(t.locks, w) : l.owner = x
    BY ZenonT(60), <2>1
  <2>3. x # p
    BY ZenonT(60), <1>3 DEF HasOwner
  <2>4. l \in t.locks
    BY ZenonT(60) DEF BlockersOf, Blockers
  <2>5. w \in s.waits /\ l \in s.locks
    BY ZenonT(60), <2>2, <2>3, <2>4 DEF Writes
  <2>6. l \in BlockersOf(s.locks, w)
    BY ZenonT(60), <2>5 DEF BlockersOf, Blockers
  <2>7. x \in Successors(s.locks, s.waits, o)
    BY ZenonT(60), <2>1, <2>2, <2>5, <2>6, Edge
  <2> QED BY ZenonT(60), <1>2, <1>3, <2>7
<1> QED BY ZenonT(60), <1>3

LEMMA ShrinksAcyclic ==
  ASSUME NEW s, NEW t, Acyclic(s), Shrinks(s, t)
  PROVE  Acyclic(t)
<1> SUFFICES ASSUME NEW S \in SUBSET {w.owner : w \in t.waits}, S # {}
             PROVE  \E o \in S : Successors(t.locks, t.waits, o) \cap S = {}
  BY ZenonT(60) DEF Acyclic
<1>1. S \in SUBSET {w.owner : w \in s.waits}
  BY ZenonT(60) DEF Shrinks
<1>2. PICK o \in S : Successors(s.locks, s.waits, o) \cap S = {}
  BY ZenonT(60), <1>1 DEF Acyclic
<1>3. ASSUME NEW x \in Successors(t.locks, t.waits, o) PROVE x \in Successors(s.locks, s.waits, o)
  <2>1. PICK w \in t.waits : w.owner = o /\ \E l \in BlockersOf(t.locks, w) : l.owner = x
    BY SMTT(60), Edge
  <2>2. PICK l \in BlockersOf(t.locks, w) : l.owner = x
    BY ZenonT(60), <2>1
  <2>3. w \in s.waits /\ l \in BlockersOf(s.locks, w)
    BY ZenonT(60), <2>2 DEF BlockersOf, Blockers, Shrinks
  <2> QED BY ZenonT(60), <2>1, <2>2, <2>3, Edge
<1> QED BY ZenonT(60), <1>2, <1>3

\* A call that closes no cycle when it is queued, of a process that had none
\* queued, leaves none: what it reaches is closed and does not hold its owner.
LEMMA QueuesAcyclic ==
  ASSUME NEW s, NEW t, NEW p \in Process, Acyclic(s), Queues(s, t, p), ~HasOwner(s.waits, p)
  PROVE  Acyclic(t)
<1>1. PICK r \in Service, w \in Wait :
        /\ Shrinks(s, r) /\ w.owner = p /\ ~Deadlocks(r, w)
        /\ t.waits = r.waits \cup {w} /\ t.locks = r.locks
  BY ZenonT(60) DEF Queues
<1>2. Acyclic(r) /\ \A x \in r.waits : x.owner # p
  BY ZenonT(60), <1>1, ShrinksAcyclic DEF Shrinks, HasOwner
<1>3. PICK R \in SUBSET Process :
        /\ Successors(t.locks, t.waits, p) \subseteq R
        /\ \A o \in R : Successors(t.locks, t.waits, o) \subseteq R
        /\ p \notin R
  BY ZenonT(60), <1>1 DEF Deadlocks
<1>4. ASSUME NEW S \in SUBSET {x.owner : x \in t.waits}, S # {}, p \notin S
      PROVE  \E o \in S : Successors(t.locks, t.waits, o) \cap S = {}
  <2>1. S \in SUBSET {x.owner : x \in r.waits}
    BY ZenonT(60), <1>1, <1>4
  <2>2. PICK o \in S : Successors(r.locks, r.waits, o) \cap S = {}
    BY ZenonT(60), <1>2, <1>4, <2>1 DEF Acyclic
  <2>3. ASSUME NEW x \in Successors(t.locks, t.waits, o)
        PROVE  x \in Successors(r.locks, r.waits, o)
    <3>1. PICK u \in t.waits : u.owner = o /\ \E l \in BlockersOf(t.locks, u) : l.owner = x
      BY Edge
    <3>2. u \in r.waits
      BY Zenon, <1>1, <1>4, <2>2, <3>1
    <3> QED BY SMTT(60), <1>1, <3>1, <3>2, Edge
  <2> QED BY ZenonT(60), <2>2, <2>3
<1>5. ASSUME NEW S \in SUBSET {x.owner : x \in t.waits}, S # {}
      PROVE  \E o \in S : Successors(t.locks, t.waits, o) \cap S = {}
  <2>1. CASE p \notin S
    BY ZenonT(60), <1>4, <1>5, <2>1
  <2>2. CASE p \in S /\ Successors(t.locks, t.waits, p) \cap S = {}
    BY ZenonT(60), <2>2
  <2>3. CASE p \in S /\ Successors(t.locks, t.waits, p) \cap S # {}
    <3> DEFINE T == S \cap R
    <3>1. T # {} /\ p \notin T /\ T \in SUBSET {x.owner : x \in t.waits}
      BY ZenonT(60), <1>3, <2>3
    <3>2. PICK o \in T : Successors(t.locks, t.waits, o) \cap T = {}
      <4> HIDE DEF T
      <4> QED BY ZenonT(60), <1>4, <3>1
    <3>3. Successors(t.locks, t.waits, o) \subseteq R
      BY ZenonT(60), <1>3
    <3> QED BY ZenonT(60), <3>2, <3>3
  <2> QED BY ZenonT(60), <2>1, <2>2, <2>3
<1> QED BY ZenonT(60), <1>5 DEF Acyclic

\* A thread waits in one call at a time, and a granted process in none.
Calm ==
  /\ \A i, j \in jobs : i.thread = j.thread => i = j
  /\ \A c \in call, j \in jobs : c.thread # j.thread
  /\ \A g \in staged : ~HasOwner(svc.waits, g.owner)
  /\ Acyclic(svc)

\* The process of the call being handled has nothing queued.
LEMMA CallerIdle ==
  ASSUME OneThreadPerProcess, IInv, Calm, NEW c \in call
  PROVE  ~HasOwner(svc.waits, ProcessOf[c.thread])
<1> SUFFICES ASSUME NEW w \in svc.waits, w.owner = ProcessOf[c.thread] PROVE FALSE
  BY ZenonT(60) DEF HasOwner
<1>1. PICK j \in jobs : ProcessOf[j.thread] = w.owner
  BY ZenonT(60) DEF IInv, JInv, WaitHasJob
<1>2. j.thread \in Thread /\ c.thread \in Thread
  BY DEF IInv, TypeOK, Job, Call
<1>3. j.thread = c.thread
  BY ZenonT(60), <1>1, <1>2 DEF OneThreadPerProcess
<1> QED BY ZenonT(60), <1>3 DEF Calm

\* A process has at most one call queued.
LEMMA OneWait ==
  ASSUME OneThreadPerProcess, IInv, Calm, NEW v \in svc.waits, NEW w \in svc.waits,
         v.owner = w.owner
  PROVE  v = w
<1>1. PICK i \in jobs : ProcessOf[i.thread] = v.owner /\ i.token = v.token
  BY ZenonT(60) DEF IInv, JInv, WaitHasJob
<1>2. PICK j \in jobs : ProcessOf[j.thread] = w.owner /\ j.token = w.token
  BY ZenonT(60) DEF IInv, JInv, WaitHasJob
<1>3. i.thread \in Thread /\ j.thread \in Thread
  BY ZenonT(60) DEF IInv, TypeOK, Job
<1>4. i = j
  BY ZenonT(60), <1>1, <1>2, <1>3 DEF OneThreadPerProcess, Calm
<1> QED BY ZenonT(60), <1>1, <1>2, <1>4 DEF IInv, SInv

LEMMA NextServes ==
  ASSUME IInv, Settled, [Next]_vars
  PROVE  Serves
<1>1. CASE \E j \in todo : RetryJob(j)
  BY ZenonT(60), <1>1, RetryJobSettles
<1>2. CASE \E c \in call : FinishWait(c)
  BY ZenonT(60), <1>2, FinishWaitSettles
<1>3. CASE staged' = staged \/ staged' = {}
  BY ZenonT(60), <1>3 DEF Serves
<1>4. CASE LoopExits \/ LoopExecs \/ CommitGrant \/ EndPass \/ Wake \/ OtherRequest
  BY ZenonT(60), <1>3, <1>4 DEF LoopExits, LoopExecs, CommitGrant, EndPass, Wake, OtherRequest
<1>5. CASE \E t \in Thread, r \in Request : Receive(t, r)
  BY ZenonT(60), <1>3, <1>5 DEF Receive
<1>6. CASE \E c \in call : FinishRecordLock(c)
  BY ZenonT(60), <1>3, <1>6, RecordLockAnswers
<1>7. CASE \E c \in call : FinishExec(c)
  BY ZenonT(60), <1>3, <1>7 DEF FinishExec, Answer
<1>8. CASE \E c \in call : FinishInterrupt(c) \/ FinishPolicy(c)
  BY ZenonT(60), <1>3, <1>8 DEF FinishInterrupt, FinishPolicy, Answer
<1>9. CASE \E p \in Process : Reap(p) \/ NativeExit(p)
  BY ZenonT(60), <1>3, <1>9 DEF Reap, NativeExit, Service_
<1>10. CASE \E t \in Thread : NativeExec(t) \/ NativeThreadExit(t)
  BY ZenonT(60), <1>3, <1>10 DEF NativeExec, NativeThreadExit, Service_
<1>11. CASE UNCHANGED vars
  BY ZenonT(60), <1>3, <1>11 DEF vars
<1>12. CASE Finish
  BY ZenonT(60), <1>2, <1>6, <1>7, <1>8, <1>12 DEF Finish
<1> QED BY ZenonT(60), <1>1, <1>4, <1>5, <1>9, <1>10, <1>11, <1>12 DEF Next

LEMMA InitCalm ==
  ASSUME Init
  PROVE  Calm
<1>1. svc.waits = {} /\ jobs = {} /\ call = {} /\ staged = {}
  BY ZenonT(60) DEF Init
<1>2. Acyclic(svc)
  BY ZenonT(60), <1>1 DEF Acyclic
<1> QED BY ZenonT(60), <1>1, <1>2 DEF Calm

LEMMA NextCalm ==
  ASSUME OneThreadPerProcess, IInv, GrantsFresh, Settled, Calm, [Next]_vars
  PROVE  Calm'
<1>1. Shape /\ Books /\ Serves
  BY ZenonT(60), NextSettles, NextBooks, NextServes
<1>2. \A i, j \in jobs' : i.thread = j.thread => i = j
  BY ZenonT(60), <1>1 DEF Books, Calm
<1>3. \A c \in call', j \in jobs' : c.thread # j.thread
  BY ZenonT(60), <1>1 DEF Books, Calm
<1>4. \A c \in call : ProcessOf[c.thread] \in Process
  BY ZenonT(60), ThreadAssumption DEF IInv, TypeOK, Call
<1>5. Acyclic(svc')
  <2>1. CASE Shrinks(svc, svc')
    BY ZenonT(60), <2>1, ShrinksAcyclic DEF Calm
  <2>2. ASSUME NEW c \in call, Writes(svc, svc', ProcessOf[c.thread]) PROVE Acyclic(svc')
    <3>1. ~HasOwner(svc'.waits, ProcessOf[c.thread])
      BY ZenonT(60), <2>2, CallerIdle DEF Writes, HasOwner
    <3> QED BY ZenonT(60), <2>2, <3>1, WritesAcyclic DEF Calm
  <2>3. ASSUME NEW g \in staged, Writes(svc, svc', g.owner) PROVE Acyclic(svc')
    <3>1. ~HasOwner(svc'.waits, g.owner)
      BY ZenonT(60), <2>3 DEF Calm, Writes, HasOwner
    <3> QED BY ZenonT(60), <2>3, <3>1, WritesAcyclic DEF Calm
  <2>4. ASSUME NEW c \in call, Queues(svc, svc', ProcessOf[c.thread]) PROVE Acyclic(svc')
    BY ZenonT(60), <1>4, <2>4, CallerIdle, QueuesAcyclic DEF Calm
  <2> QED BY ZenonT(60), <1>1, <2>1, <2>2, <2>3, <2>4 DEF Shape
<1>6. ASSUME NEW g \in staged' PROVE ~HasOwner(svc'.waits, g.owner)
  <2>1. CASE g \in staged
    <3>1. stage = "commit"
      BY ZenonT(60), <2>1 DEF IInv
    <3>2. svc'.waits \subseteq svc.waits
      <4>1. CASE CommitGrant
        BY ZenonT(60), <4>1 DEF CommitGrant
      <4>2. svc' = svc \/ CommitGrant
        BY ZenonT(60), <3>1 DEF Next, LoopExits, LoopExecs, RetryJob, EndPass, Wake, OtherRequest, Receive,
           Finish, FinishRecordLock, FinishWait, FinishExec, FinishInterrupt, FinishPolicy,
           Reap, NativeExit, NativeExec, NativeThreadExit, Service_, vars
      <4> QED BY ZenonT(60), <4>1, <4>2
    <3> QED BY ZenonT(60), <2>1, <3>2 DEF Calm, HasOwner
  <2>2. CASE svc'.waits \subseteq svc.waits /\ \E c \in call : g.owner = ProcessOf[c.thread]
    BY ZenonT(60), <2>2, CallerIdle DEF HasOwner
  <2>3. CASE /\ svc'.waits \subseteq svc.waits
             /\ \E w \in svc.waits : w \notin svc'.waits /\ w.owner = g.owner
    BY ZenonT(60), <2>3, OneWait DEF HasOwner
  <2> QED BY ZenonT(60), <1>1, <2>1, <2>2, <2>3 DEF Serves
<1> QED BY ZenonT(60), <1>2, <1>3, <1>5, <1>6 DEF Calm

=============================================================================
