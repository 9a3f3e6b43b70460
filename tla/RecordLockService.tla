-------------------------- MODULE RecordLockService --------------------------
(***************************************************************************)
(* Advisory record locks of posix.service: the registry, the deferred      *)
(* F_SETLKW calls, the close-on-exec preparations, the inode pins and the  *)
(* fast-close hint page, as one main loop over native processes that run,  *)
(* exec and exit on their own.                                             *)
(*                                                                         *)
(* svc is the part of PosixService this concerns; it changes only under    *)
(* the service_state mutex, so every handler is one step over it.  Native  *)
(* steps fall between any two steps of the loop, including the             *)
(* one gap inside a handler that clients can observe: a grant's reply is   *)
(* sent before its locks are committed (stage "commit").                   *)
(***************************************************************************)
EXTENDS Integers, FiniteSets

-----------------------------------------------------------------------------
(* The registry (posix/src/record_lock.rs): byte ranges, lock records and   *)
(* what is computed from a list of them.  A registry is modelled as the SET  *)
(* of its entries; RecordLockList keeps the list and the sort-and-merge      *)
(* loop, and is checked to compute the same sets.                            *)

CONSTANTS
  Process,                \* process ids: the owners of locks
  File,                   \* FileKey: (device, inode) observed by the filesystem
  END,                    \* i64::MAX + 1, the first byte no range contains
  MAX_LOCKS,              \* entries in the registry
  MAX_LOCKS_PER_PROCESS   \* entries of one owner

ASSUME EndAssumption == END \in Nat \ {0}
ASSUME QuotaAssumption == MAX_LOCKS \in Nat /\ MAX_LOCKS_PER_PROCESS \in Nat

Kind == {"read", "write"}

\* Half-open, never empty: normalize refuses end <= start.
ByteRange == {r \in [start : 0..END, end : 0..END] : r.start < r.end}

Lock == [file : File, owner : Process, kind : Kind, range : ByteRange]

Overlaps(a, b) == a.start < b.end /\ b.start < a.end

HasOwner(locks, owner) == \E l \in locks : l.owner = owner

HasFile(locks, file) == \E l \in locks : l.file = file

OwnsFile(locks, owner, file) == \E l \in locks : l.owner = owner /\ l.file = file

ReleaseFile(locks, owner, file) ==
  {l \in locks : l.owner # owner \/ l.file # file}

\* Mutant: only two write locks conflict.
BlockersBothWrite(locks, owner, file, kind, range) ==
  {l \in locks : /\ l.file = file
                 /\ l.owner # owner
                 /\ Overlaps(range, l.range)
                 /\ kind = "write" /\ l.kind = "write"}

Blockers(locks, owner, file, kind, range) ==
  {l \in locks : /\ l.file = file
                 /\ l.owner # owner
                 /\ Overlaps(range, l.range)
                 /\ kind = "write" \/ l.kind = "write"}

-----------------------------------------------------------------------------
(* Replacing what one owner holds inside a range.                          *)

Touched(locks, owner, file, range) ==
  {l \in locks : l.owner = owner /\ l.file = file /\ Overlaps(l.range, range)}

\* What is left of a touched lock: the part before the range, the part after.
Remnants(lock, range) ==
  {p \in { [lock EXCEPT !.range = [start |-> lock.range.start, end |-> range.start]],
           [lock EXCEPT !.range = [start |-> range.end, end |-> lock.range.end]] } :
     p.range.start < p.range.end}

Pieces(locks, owner, file, range) ==
  LET touched == Touched(locks, owner, file, range)
  IN  (locks \ touched) \cup UNION {Remnants(l, range) : l \in touched}

Covers(locks, lock, byte) ==
  \E l \in locks : /\ l.file = lock.file
                   /\ l.owner = lock.owner
                   /\ l.kind = lock.kind
                   /\ l.range.start <= byte
                   /\ byte < l.range.end

\* Touching or overlapping records of one (file, owner, kind) become one: the
\* maximal runs of covered bytes.
Coalesce(locks) ==
  {l \in Lock : /\ \A b \in l.range.start..(l.range.end - 1) : Covers(locks, l, b)
                /\ ~Covers(locks, l, l.range.start - 1)
                /\ ~Covers(locks, l, l.range.end)}

Replacement(locks, owner, file, kind, range) ==
  Coalesce(Pieces(locks, owner, file, range)
             \cup {[file |-> file, owner |-> owner, kind |-> kind, range |-> range]})

\* An unlock strictly inside a record splits it and takes the allocating path.
PunchesHole(locks, owner, file, range) ==
  \E l \in locks : /\ l.owner = owner
                   /\ l.file = file
                   /\ l.range.start < range.start
                   /\ range.end < l.range.end

\* Mutant: the range is unlocked for every process.
UnlockedForAll(locks, owner, file, range) ==
  Coalesce(UNION {{l \in Pieces(locks, o, file, range) : l.owner = o} : o \in Process})

Unlocked(locks, owner, file, range) ==
  LET pieces == Pieces(locks, owner, file, range)
  IN  IF PunchesHole(locks, owner, file, range) THEN Coalesce(pieces) ELSE pieces

Fits(locks, owner) ==
  /\ Cardinality(locks) <= MAX_LOCKS
  /\ Cardinality({l \in locks : l.owner = owner}) <= MAX_LOCKS_PER_PROCESS

-----------------------------------------------------------------------------
(* The service.                                                              *)

CONSTANTS
  Thread,
  ProcessOf,                \* [Thread -> Process], native ownership of threads
  Request,                  \* the requests clients make, a subset of AnyRequest
  Unreadable,               \* processes whose native image status may fail
  Mortal,                   \* processes that may exit
  MAX_WAITERS, MAX_WAITERS_PER_PROCESS, MAX_PREPARATIONS,
  MaxToken,                 \* the last wait or preparation token (u64::MAX - 1)
  MaxImage,                 \* how often a process execs
  MaxEpoch                  \* how often a thread is interrupted

ASSUME ThreadAssumption == ProcessOf \in [Thread -> Process]
ASSUME LimitAssumption ==
  /\ MAX_WAITERS \in Nat /\ MAX_WAITERS_PER_PROCESS \in Nat
  /\ MAX_PREPARATIONS \in Nat
  /\ MaxToken \in Nat /\ MaxImage \in Nat /\ MaxEpoch \in Nat

Token == 1..MaxToken
Image == 0..MaxImage
Epoch == 0..MaxEpoch

AnyRequest ==
       [op : {"set", "query"}, file : File, kind : Kind, range : ByteRange]
  \cup [op : {"unlock"}, file : File, range : ByteRange]
  \cup [op : {"release"}, file : File]
  \cup [op : {"wait"}, file : File, kind : Kind, range : ByteRange, late : BOOLEAN]
  \cup [op : {"prepare"}, files : SUBSET File]
  \cup [op : {"extend"}, files : SUBSET File, token : Token]
  \cup [op : {"cancel"}, token : Token]
  \cup [op : {"interrupt"}, target : Thread]
  \cup [op : {"policy"}]

ASSUME RequestAssumption == Request \subseteq AnyRequest

Stage == {"exits", "execs", "retry", "commit", "receive", "finish"}
Wait == [owner : Process, revision : Image, file : File, kind : Kind,
         range : ByteRange, token : Token]
Preparation == [owner : Process, revision : Image, token : Token, files : SUBSET File]
Job == [thread : Thread, image : Image, epoch : Epoch, token : Token, file : File]
Call == [thread : Thread, image : Image, epoch : Epoch, request : Request]
Grant == [owner : Process, locks : SUBSET Lock, pins : SUBSET File,
          delivered : BOOLEAN, resume : {"exits", "retry"}]
Service ==
  [locks : SUBSET Lock,                   \* record_locks
   files : SUBSET File,                   \* record_lock_files: pinned inodes
   execs : SUBSET Preparation,            \* record_lock_execs
   nextExec : 1..(MaxToken + 1),
   waits : SUBSET Wait,                   \* record_lock_wait
   nextWait : 1..(MaxToken + 1),
   page : [Process -> {"none", "clear", "held"}],  \* resource_policies: the hint
   observed : [Process -> Image],         \* observed_image_revision
   exited : SUBSET Process,               \* exit_observed
   registered : SUBSET Process]           \* sessions and processes

VARIABLES
  svc, epoch,                 \* PosixService; signal_delivery_epochs
  image, alive, threads,      \* the native side: image revisions, lives
  stage, call, staged,        \* the main loop, its admitted call, its open grant
  jobs, todo                  \* pending_lock_waits, those left in this pass

vars == <<svc, epoch, image, alive, threads, stage, call, staged, jobs, todo>>

Init ==
  /\ svc = [locks |-> {}, files |-> {}, execs |-> {}, nextExec |-> 1,
            waits |-> {}, nextWait |-> 1, page |-> [p \in Process |-> "none"],
            observed |-> [p \in Process |-> 0], exited |-> {}, registered |-> Process]
  /\ epoch = [t \in Thread |-> 0]
  /\ image = [p \in Process |-> 0]
  /\ alive = Process
  /\ threads = Thread
  /\ stage = "exits"
  /\ call = {} /\ staged = {} /\ jobs = {} /\ todo = {}

-----------------------------------------------------------------------------
(* Updates of the service state.                                           *)

\* Infallible scalar publication on the page, if the process ever asked for one.
Hint(s, p, value) ==
  IF s.page[p] = "none" THEN s ELSE [s EXCEPT !.page[p] = value]

Publish(s, p) == Hint(s, p, IF HasOwner(s.locks, p) THEN "held" ELSE "clear")

\* New contents of the registry, and the truth about them on the owner's page.
Store(s, p, locks, pins) ==
  Publish([s EXCEPT !.locks = locks, !.files = @ \cup pins], p)

Admitted(s, p) == p \in s.registered /\ p \notin s.exited

ReleaseUnused(s) ==
  [s EXCEPT !.files = {f \in s.files : HasFile(s.locks, f) \/ HasFile(s.waits, f)}]

\* What a preparation gives up once the image that replaced its owner is seen.
Completed(s, p) == {e \in s.execs : e.owner = p /\ image[p] > e.revision}

\* Mutant: an exec releases every lock of its process.
CommitObservedAll(s, seen) ==
  [s EXCEPT !.locks = {l \in s.locks : l.owner \notin seen},
            !.execs = {e \in s.execs : ~(e.owner \in seen /\ e \in Completed(s, e.owner))}]

CommitObserved(s, seen) ==
  [s EXCEPT
     !.locks = {l \in s.locks : ~(/\ l.owner \in seen
                                  /\ \E e \in Completed(s, l.owner) : l.file \in e.files)},
     !.execs = {e \in s.execs : ~(e.owner \in seen /\ e \in Completed(s, e.owner))}]

\* refresh_process_image_state for every process of seen, all of newer images.
Observe(s, seen) ==
  LET c == CommitObserved(s, seen)
  IN  [c EXCEPT
         !.page = [p \in Process |-> IF p \in seen THEN Publish(c, p).page[p] ELSE c.page[p]],
         !.waits = {w \in c.waits : w.owner \notin seen},
         !.observed = [p \in Process |-> IF p \in seen THEN image[p] ELSE c.observed[p]]]

Readable(s, p, bad) == p \in s.registered /\ p \in alive /\ p \notin bad

Refresh(s, owners, bad) ==
  Observe(s, {p \in owners : Readable(s, p, bad) /\ image[p] > s.observed[p]})

ExecOwners(s, files) == {e.owner : e \in {x \in s.execs : x.files \cap files # {}}}

\* validate_pending_request_image: the sender's endpoint, then its image.
Validated(c, bad) ==
  LET p == ProcessOf[c.thread]
      s == IF c.thread \in threads THEN Refresh(svc, {p}, bad) ELSE svc
  IN  [svc |-> s,
       ok |-> c.thread \in threads /\ Readable(s, p, bad) /\ s.observed[p] = c.image]

\* Mutant: the execs of other processes are not looked at.
RefreshedForNobody(v, file, bad) == v

\* ... then the preparations that cover the file, those of other processes too.
RefreshedFor(v, file, bad) ==
  LET owners == ExecOwners(v.svc, {file})
  IN  IF v.ok THEN [svc |-> Refresh(v.svc, owners, bad),
                    ok |-> \A o \in owners : Readable(v.svc, o, bad)]
              ELSE v

\* Mutant: an exit leaves the calls of its process queued.
RetireKeepingWaits(s, gone) ==
  LET r == [s EXCEPT !.locks = {l \in s.locks : l.owner \notin gone},
                     !.execs = {e \in s.execs : e.owner \notin gone}]
  IN  [r EXCEPT !.page = [p \in Process |->
                            IF p \in gone THEN Publish(r, p).page[p] ELSE r.page[p]]]

Retire(s, gone) ==
  LET r == [s EXCEPT !.locks = {l \in s.locks : l.owner \notin gone},
                     !.execs = {e \in s.execs : e.owner \notin gone},
                     !.waits = {w \in s.waits : w.owner \notin gone}]
  IN  [r EXCEPT !.page = [p \in Process |->
                            IF p \in gone THEN Publish(r, p).page[p] ELSE r.page[p]]]

WithdrawPages(s, gone) ==
  [s EXCEPT !.page = [p \in Process |-> IF p \in gone THEN "none" ELSE s.page[p]]]

-----------------------------------------------------------------------------
(* Blocking requests: who waits for whom.                                  *)

BlockersOf(locks, r) == Blockers(locks, r.owner, r.file, r.kind, r.range)

\* Edges are recomputed from the ranges held now, for every wait of the owner.
Successors(locks, waits, owner) ==
  UNION {{l.owner : l \in BlockersOf(locks, w)} : w \in {x \in waits : x.owner = owner}}

\* Mutant: only a direct cycle of two is looked for.
DeadlocksDirect(s, candidate) ==
  \E o \in Successors(s.locks, s.waits \cup {candidate}, candidate.owner) :
    candidate.owner \in Successors(s.locks, s.waits, o)

\* The candidate's owner is reachable from itself: every set that contains its
\* successors and is closed under edges contains it.
Deadlocks(s, candidate) ==
  LET waits == s.waits \cup {candidate}
  IN  \A R \in SUBSET Process :
        (/\ Successors(s.locks, waits, candidate.owner) \subseteq R
         /\ \A o \in R : Successors(s.locks, waits, o) \subseteq R)
        => candidate.owner \in R

\* Mutant: tokens are not limited.
QueueFullAnyToken(s, owner) ==
  \/ Cardinality(s.waits) >= MAX_WAITERS
  \/ Cardinality({w \in s.waits : w.owner = owner}) >= MAX_WAITERS_PER_PROCESS

QueueFull(s, owner) ==
  \/ Cardinality(s.waits) >= MAX_WAITERS
  \/ Cardinality({w \in s.waits : w.owner = owner}) >= MAX_WAITERS_PER_PROCESS
  \/ s.nextWait > MaxToken

Enqueue(s, wait) ==
  [s EXCEPT !.waits = @ \cup {wait}, !.nextWait = @ + 1, !.files = @ \cup {wait.file}]

MatchingWait(s, p, token) ==
  {w \in s.waits : /\ Admitted(s, p)
                   /\ w.owner = p
                   /\ w.revision = s.observed[p]
                   /\ w.token = token}

-----------------------------------------------------------------------------
(* The main loop.                                                          *)

\* A handler ends by going back to the top of the loop.
Answer(s) ==
  /\ svc' = s /\ call' = {} /\ stage' = "exits"
  /\ UNCHANGED <<epoch, image, alive, threads, staged, jobs, todo>>

\* refresh_child_exit_notifications.  Locks go first; a later notification that
\* fails leaves the exit unobserved and is retried in the next pass.
LoopExits ==
  /\ stage = "exits"
  /\ LET gone == {p \in svc.registered : p \notin alive}
     IN  \E failed \in SUBSET (gone \ svc.exited) :
           svc' = [WithdrawPages(Retire(svc, gone), gone \ failed)
                     EXCEPT !.exited = @ \cup (gone \ failed)]
  /\ stage' = "execs"
  /\ UNCHANGED <<epoch, image, alive, threads, call, staged, jobs, todo>>

\* Mutant: the pass over the deferred calls is skipped.
LoopExecsSkip ==
  /\ stage = "execs"
  /\ \E bad \in SUBSET Unreadable :
       svc' = ReleaseUnused(Refresh(svc, ExecOwners(svc, File), bad))
  /\ stage' = "retry"
  /\ UNCHANGED <<epoch, image, alive, threads, call, staged, jobs, todo>>

LoopExecs ==
  /\ stage = "execs"
  /\ \E bad \in SUBSET Unreadable :
       svc' = ReleaseUnused(Refresh(svc, ExecOwners(svc, File), bad))
  /\ stage' = "retry"
  /\ todo' = jobs
  /\ UNCHANGED <<epoch, image, alive, threads, call, staged, jobs>>

\* commit_record_lock_reply, up to and including the reply: the hint is forced
\* before the receiver can run.
StageGrant(s, owner, prepared, pins, thread, resume) ==
  /\ svc' = Hint(s, owner, "held")
  /\ \E delivered \in BOOLEAN :
       /\ delivered => thread \in threads
       /\ staged' = {[owner |-> owner, locks |-> prepared, pins |-> pins,
                      delivered |-> delivered, resume |-> resume]}
  /\ stage' = "commit"

\* ... and after it: an undelivered reply republishes the truth and grants nothing.
CommitGrant ==
  /\ stage = "commit"
  /\ \E g \in staged :
       /\ svc' = IF g.delivered
                   THEN Store(svc, g.owner, g.locks, g.pins)
                   ELSE Publish(svc, g.owner)
       /\ stage' = g.resume
  /\ staged' = {}
  /\ UNCHANGED <<epoch, image, alive, threads, call, jobs, todo>>

\* One round of complete_pending_lock_waits.
RetryJob(j) ==
  /\ stage = "retry"
  /\ todo' = todo \ {j}
  /\ \E bad \in SUBSET Unreadable, signalled \in BOOLEAN, oom \in BOOLEAN :
     LET p == ProcessOf[j.thread]
         i == Validated(j, bad)
         e == [i EXCEPT !.ok = i.ok /\ epoch[j.thread] = j.epoch /\ ~signalled]
         v == RefreshedFor(e, j.file, bad)
         found == MatchingWait(v.svc, p, j.token)
         consumed == [v.svc EXCEPT !.waits = @ \ found]
     IN  \/ /\ ~v.ok \/ found = {}
            /\ svc' = consumed
            /\ jobs' = jobs \ {j}
            /\ UNCHANGED <<stage, staged>>
         \/ /\ v.ok
            /\ \E w \in found :
               LET prepared == Replacement(v.svc.locks, p, w.file, w.kind, w.range)
               IN  \/ /\ BlockersOf(v.svc.locks, w) # {}
                      /\ svc' = v.svc
                      /\ UNCHANGED <<stage, staged, jobs>>
                   \/ /\ BlockersOf(v.svc.locks, w) = {}
                      /\ oom \/ ~Fits(prepared, p)
                      /\ svc' = consumed
                      /\ jobs' = jobs \ {j}
                      /\ UNCHANGED <<stage, staged>>
                   \/ /\ BlockersOf(v.svc.locks, w) = {}
                      /\ ~oom /\ Fits(prepared, p)
                      /\ StageGrant(consumed, p, prepared, {}, j.thread, "retry")
                      /\ jobs' = jobs \ {j}
  /\ UNCHANGED <<epoch, image, alive, threads, call>>

EndPass ==
  /\ stage = "retry" /\ todo = {}
  /\ svc' = ReleaseUnused(svc)
  /\ stage' = "receive"
  /\ UNCHANGED <<epoch, image, alive, threads, call, staged, jobs, todo>>

\* Mutant: only hint pages make the loop wait for an exit.
LifecycleHandlesPages == {p \in svc.registered : svc.page[p] # "none"}

\* Native exits the loop waits for, next to its endpoint and its deadline.
LifecycleHandles ==
  {p \in svc.registered :
     \/ svc.page[p] # "none"
     \/ /\ p \notin svc.exited
        /\ HasOwner(svc.locks, p) \/ HasOwner(svc.execs, p) \/ HasOwner(svc.waits, p)}

\* The 10 ms deadline armed by pending calls and preparations, or a native exit.
Armed == jobs # {} \/ svc.execs # {} \/ LifecycleHandles \ alive # {}

Wake ==
  /\ stage = "receive" /\ Armed
  /\ stage' = "exits"
  /\ UNCHANGED <<svc, epoch, image, alive, threads, call, staged, jobs, todo>>

\* Requests that never reach lock policy, refused ones included.
OtherRequest ==
  /\ stage = "receive"
  /\ stage' = "exits"
  /\ UNCHANGED <<svc, epoch, image, alive, threads, call, staged, jobs, todo>>

\* Admission observes the sender's image and captures it.  A thread inside a
\* deferred call sends nothing.
Receive(t, r) ==
  LET p == ProcessOf[t]
      late == r.op = "wait" /\ r.late
  IN  /\ stage = "receive"
      /\ t \in threads
      /\ \A j \in jobs : j.thread # t
      /\ Readable(svc, p, {})
      /\ late => epoch[t] > 0
      /\ svc' = Refresh(svc, {p}, {})
      /\ call' = {[thread |-> t, image |-> svc'.observed[p], request |-> r,
                   epoch |-> IF late THEN epoch[t] - 1 ELSE epoch[t]]}
      /\ stage' = "finish"
      /\ UNCHANGED <<epoch, image, alive, threads, staged, jobs, todo>>

-----------------------------------------------------------------------------
(* The handlers of an admitted call.                                       *)

\* F_SETLK, F_GETLK, unlocking and close: record_lock_request::finish.
FinishRecordLock(c) ==
  /\ stage = "finish" /\ c.request.op \in {"set", "query", "unlock", "release"}
  /\ \E bad \in SUBSET Unreadable, oom \in BOOLEAN :
     LET p == ProcessOf[c.thread]
         r == c.request
         v == RefreshedFor(Validated(c, bad), r.file, bad)
         s == ReleaseUnused(v.svc)
         Set(locks, pins) == Answer(ReleaseUnused(Store(s, p, locks, pins)))
         Refuse == Answer(Publish(s, p))
     IN  IF ~v.ok \/ ~Admitted(v.svc, p) THEN Answer(v.svc) ELSE
         \/ r.op = "query" /\ Answer(s)
         \/ r.op = "release" /\ Set(ReleaseFile(s.locks, p, r.file), {})
         \/ /\ r.op = "unlock"
            /\ LET locks == Unlocked(s.locks, p, r.file, r.range)
               IN  IF /\ PunchesHole(s.locks, p, r.file, r.range)
                      /\ oom \/ ~Fits(locks, p)
                     THEN Refuse
                     ELSE Set(locks, {})
         \/ /\ r.op = "set"
            /\ LET locks == Replacement(s.locks, p, r.file, r.kind, r.range)
               IN  IF \/ Blockers(s.locks, p, r.file, r.kind, r.range) # {}
                      \/ oom \/ ~Fits(locks, p)
                     THEN Refuse
                     ELSE Set(locks, {r.file})

\* F_SETLKW: record_lock_wait_request::finish and the job it leaves behind.
FinishWait(c) ==
  /\ stage = "finish" /\ c.request.op = "wait"
  /\ \E bad \in SUBSET Unreadable, signalled \in BOOLEAN, oom \in BOOLEAN :
     LET p == ProcessOf[c.thread]
         r == c.request
         v == RefreshedFor(Validated(c, bad), r.file, bad)
         s == ReleaseUnused(v.svc)
         w == [owner |-> p, revision |-> s.observed[p], file |-> r.file,
               kind |-> r.kind, range |-> r.range, token |-> s.nextWait]
         prepared == Replacement(s.locks, p, r.file, r.kind, r.range)
         blocked == BlockersOf(s.locks, w) # {}
     IN  IF ~v.ok \/ signalled \/ epoch[c.thread] # c.epoch \/ ~Admitted(v.svc, p)
           THEN Answer(v.svc)
         ELSE IF IF blocked THEN QueueFull(s, p) \/ Deadlocks(s, w) \/ oom
                            ELSE oom \/ ~Fits(prepared, p)
           THEN Answer(s)
         ELSE IF blocked
           THEN /\ svc' = Enqueue(s, w)
                /\ jobs' = jobs \cup {[thread |-> c.thread, image |-> c.image,
                                       epoch |-> c.epoch, token |-> w.token,
                                       file |-> r.file]}
                /\ call' = {} /\ stage' = "exits"
                /\ UNCHANGED <<epoch, image, alive, threads, staged, todo>>
           ELSE /\ StageGrant(s, p, prepared, {r.file}, c.thread, "exits")
                /\ call' = {}
                /\ UNCHANGED <<epoch, image, alive, threads, jobs, todo>>

\* OP_RECORD_LOCK_EXEC: begin, extend and cancel one process's preparation.
FinishExec(c) ==
  /\ stage = "finish" /\ c.request.op \in {"prepare", "extend", "cancel"}
  /\ \E bad \in SUBSET Unreadable :
     LET p == ProcessOf[c.thread]
         r == c.request
         v == Validated(c, bad)
         s == v.svc
         mine == {e \in s.execs : e.owner = p}
         named == {e \in mine : e.token = r.token}
         owned == {f \in r.files : OwnsFile(s.locks, p, f)}
     IN  IF ~v.ok \/ ~Admitted(s, p) THEN Answer(s) ELSE
         \/ /\ r.op = "prepare"
            /\ IF \/ mine # {} \/ owned = {}
                  \/ Cardinality(s.execs) >= MAX_PREPARATIONS
                  \/ s.nextExec > MaxToken
                 THEN Answer(s)
                 ELSE Answer([s EXCEPT !.nextExec = @ + 1,
                        !.execs = @ \cup {[owner |-> p, revision |-> s.observed[p],
                                          token |-> s.nextExec, files |-> owned]}])
         \/ /\ r.op = "extend"
            /\ IF \A e \in named : Cardinality(e.files \cup owned) > MAX_LOCKS_PER_PROCESS
                 THEN Answer(s)
                 ELSE Answer([s EXCEPT !.execs = (@ \ named) \cup
                                {[e EXCEPT !.files = @ \cup owned] : e \in named}])
         \/ r.op = "cancel" /\ Answer([s EXCEPT !.execs = @ \ named])

\* OP_THREAD_WAIT_INTERRUPT: a sibling's deferred call is answered next pass.
FinishInterrupt(c) ==
  /\ stage = "finish" /\ c.request.op = "interrupt"
  /\ \E bad \in SUBSET Unreadable :
     LET p == ProcessOf[c.thread]
         t == c.request.target
         v == Validated(c, bad)
     IN  /\ svc' = v.svc
         /\ epoch' = IF /\ v.ok /\ Admitted(v.svc, p)
                        /\ ProcessOf[t] = p /\ epoch[t] < MaxEpoch
                       THEN [epoch EXCEPT ![t] = @ + 1] ELSE epoch
  /\ call' = {} /\ stage' = "exits"
  /\ UNCHANGED <<image, alive, threads, staged, jobs, todo>>

\* OP_RESOURCE_POLICY: the page is created once, already telling the truth.
FinishPolicy(c) ==
  /\ stage = "finish" /\ c.request.op = "policy"
  /\ LET p == ProcessOf[c.thread]
     IN  \/ Answer(svc)
         \/ /\ Admitted(svc, p) /\ svc.page[p] = "none"
            /\ Answer([svc EXCEPT !.page[p] =
                         IF HasOwner(svc.locks, p) THEN "held" ELSE "clear"])

Finish == \E c \in call : \/ FinishRecordLock(c) \/ FinishWait(c) \/ FinishExec(c)
                          \/ FinishInterrupt(c) \/ FinishPolicy(c)

\* A parent's wait (or the orphan reaper) removes an exited process for good.
Reap(p) ==
  /\ stage = "receive"
  /\ p \in svc.registered /\ p \notin alive
  /\ svc' = [WithdrawPages(Retire(svc, {p}), {p})
               EXCEPT !.exited = @ \ {p}, !.registered = @ \ {p}]
  /\ stage' = "exits"
  /\ UNCHANGED <<epoch, image, alive, threads, call, staged, jobs, todo>>

-----------------------------------------------------------------------------
(* The native side.                                                        *)

Service_ == <<svc, epoch, stage, call, staged, jobs, todo>>

\* A running thread replaces the image; the others of its process are retired.
NativeExec(t) ==
  LET p == ProcessOf[t]
  IN  /\ t \in threads /\ image[p] < MaxImage
      /\ \A x \in jobs \cup call : x.thread # t
      /\ image' = [image EXCEPT ![p] = @ + 1]
      /\ threads' = {u \in threads : u = t \/ ProcessOf[u] # p}
      /\ UNCHANGED alive
      /\ UNCHANGED Service_

NativeExit(p) ==
  /\ p \in alive \cap Mortal
  /\ alive' = alive \ {p}
  /\ threads' = {u \in threads : ProcessOf[u] # p}
  /\ UNCHANGED image
  /\ UNCHANGED Service_

NativeThreadExit(t) ==
  /\ t \in threads
  /\ \E u \in threads : u # t /\ ProcessOf[u] = ProcessOf[t]
  /\ threads' = threads \ {t}
  /\ UNCHANGED <<image, alive>>
  /\ UNCHANGED Service_

Next ==
  \/ LoopExits \/ LoopExecs \/ (\E j \in todo : RetryJob(j)) \/ CommitGrant
  \/ EndPass \/ Wake \/ OtherRequest
  \/ \E t \in Thread, r \in Request : Receive(t, r)
  \/ Finish
  \/ \E p \in Process : Reap(p) \/ NativeExit(p)
  \/ \E t \in Thread : NativeExec(t) \/ NativeThreadExit(t)

Spec == Init /\ [][Next]_vars

\* The loop thread runs unless it sleeps without a deadline: each of its steps
\* moves stage or todo.
Progress ==
  /\ stage # "receive" \/ Armed
  /\ \E s \in Stage, left \in SUBSET todo \cup {jobs} :
       stage' = s /\ todo' = left

FairSpec == Spec /\ WF_<<stage, todo>>(Progress)

-----------------------------------------------------------------------------
(* Properties.                                                             *)

\* Every variable keeps the shape the code gives it.
TypeOK ==
  /\ svc \in Service
  /\ epoch \in [Thread -> Epoch]
  /\ image \in [Process -> Image]
  /\ alive \in SUBSET Process /\ threads \in SUBSET Thread
  /\ stage \in Stage
  /\ call \in SUBSET Call /\ staged \in SUBSET Grant
  /\ jobs \in SUBSET Job /\ todo \in SUBSET Job

\* Advisory locking itself (record_lock.rs blockers/replacement): no two
\* processes hold overlapping ranges of a file when one of them is a write lock.
Exclusive(locks) ==
  \A a, b \in locks :
    (/\ a.file = b.file /\ a.owner # b.owner
     /\ a.kind = "write" \/ b.kind = "write")
    => ~Overlaps(a.range, b.range)

MutualExclusion == Exclusive(svc.locks)

\* "Keeping one live reference per locked file prevents inode reuse"
\* (record_lock_request.rs): whatever names a file has it pinned.
FilesPinned ==
  \A x \in svc.locks \cup svc.waits : x.file \in svc.files

\* "A prospective successful reply must never expose a false fast-close hint"
\* (resource_policy.rs): a process that holds locks, or has been told that it
\* does, never reads a clear page.
HintSound ==
  \A p \in Process :
    (HasOwner(svc.locks, p) \/ \E g \in staged : g.owner = p /\ g.delivered)
    => svc.page[p] # "clear"

\* Every queued wait belongs to a deferred call that is going to retry it: no
\* entry is left behind to pin a file, use up quota or complete a false cycle.
WaitHasJob ==
  \A w \in svc.waits : \E j \in jobs :
    /\ ProcessOf[j.thread] = w.owner
    /\ j.token = w.token /\ j.file = w.file /\ j.image = w.revision

\* An exit that has been observed leaves no lock, wait, preparation or page.
ExitRetiresAll ==
  \A p \in Process : (p \in svc.exited \/ p \notin svc.registered) =>
    /\ ~HasOwner(svc.locks, p) /\ ~HasOwner(svc.waits, p) /\ ~HasOwner(svc.execs, p)
    /\ svc.page[p] = "none"

OneThreadPerProcess ==
  \A t, u \in Thread : ProcessOf[t] = ProcessOf[u] => t = u

\* Detection at enqueue is enough for single-threaded processes: there is never
\* a set of waiting processes each of which waits for another of the set.
NoDeadlock ==
  \A S \in SUBSET {w.owner : w \in svc.waits} :
    S # {} => \E o \in S : Successors(svc.locks, svc.waits, o) \cap S = {}

\* "A different process must not see stale conflicts after completed exec"
\* (record_lock_exec.rs): no call is queued, or left queued, behind a lock that
\* its owner's completed exec gives up.
NoStaleConflict ==
  [][\A j \in jobs' : (j \notin jobs \/ j \in todo \ todo') =>
       \A w \in svc'.waits : w.token = j.token =>
         \A l \in BlockersOf(svc'.locks, w) : \A e \in svc'.execs :
           (e.owner = l.owner /\ l.file \in e.files) => image[e.owner] <= e.revision]_vars

\* Observing an exec releases exactly the prepared files of the new image.
ExecReleasesPrepared ==
  [][\A p \in alive : svc'.observed[p] # svc.observed[p] =>
       /\ ~HasOwner(svc'.execs, p) /\ ~HasOwner(svc'.waits, p)
       /\ {l \in svc'.locks : l.owner = p} =
            {l \in svc.locks : l.owner = p /\
               \A e \in svc.execs : e.owner = p => l.file \notin e.files}]_vars

Deferred(t) == {j \in jobs : j.thread = t}
Lockable(j) == \A w \in svc.waits : w.token = j.token => BlockersOf(svc.locks, w) = {}
SomeLockable(t) == \E j \in Deferred(t) : Lockable(j)
AllBlocked(t) ==
  \A j \in Deferred(t) : \E w \in svc.waits : w.token = j.token /\ BlockersOf(svc.locks, w) # {}
Interrupted(t) == \E j \in Deferred(t) : j.epoch # epoch[t]

\* A deferred call whose lock is free is answered, or finds it taken again, and
\* an interrupted one is answered: the loop never sleeps on it.
CallsAnswered ==
  \A t \in Thread :
    /\ SomeLockable(t) ~> AllBlocked(t)
    /\ Interrupted(t) ~> ~Interrupted(t)

DeadHolds(p) == p \notin alive /\ HasOwner(svc.locks, p)
ReplacedHolds(p) == \E e \in svc.execs : e.owner = p /\ image[p] > e.revision

\* The locks of an exited process, and the prepared locks of a replaced image,
\* are released without another request arriving.
DeadLocksRelease ==
  \A p \in Process :
    /\ DeadHolds(p) ~> ~HasOwner(svc.locks, p)
    /\ ReplacedHolds(p) ~> ~ReplacedHolds(p)

-----------------------------------------------------------------------------
(* What the service implements.                                            *)

ModeOn(locks, f, b, p) ==
  LET covering == {l \in locks : /\ l.file = f /\ l.owner = p
                                 /\ l.range.start <= b /\ b < l.range.end}
  IN  IF \E l \in covering : l.kind = "write" THEN "write"
      ELSE IF covering # {} THEN "read" ELSE "none"

HeldIn(locks) ==
  [f \in File |-> [b \in 0..(END - 1) |-> [p \in Process |-> ModeOn(locks, f, b, p)]]]

HeldBytes == HeldIn(svc.locks)

Bytes == INSTANCE ByteLocks WITH held <- HeldBytes

\* The registry of ranges, with its splits, merges, deferred grants and lazily
\* observed execs and exits, behaves as one mode per process and byte.
ImplementsByteLocks == Bytes!Spec
=============================================================================
