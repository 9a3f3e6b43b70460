-------------------------- MODULE ProcessLifecycle --------------------------
(***************************************************************************)
(* Life and death of POSIX processes in posix.service: fork, spawn and     *)
(* launch; exits, SIGCHLD, waits and their lossy replies; reparenting and  *)
(* reaping; a launcher's two-phase teardown of a process tree; stop and    *)
(* continue; process groups, sessions and controlling terminals.           *)
(*                                                                         *)
(* The service is one loop.  A pass runs the housekeeping stages of Order, *)
(* then the loop sleeps ("idle") until a request or a native event; it     *)
(* handles one request and starts the next pass.  The service lock keeps   *)
(* requests out of a pass; nothing keeps the native side out: a process    *)
(* may exit or replace its image between any two steps.                    *)
(***************************************************************************)
EXTENDS PosixProcess, FiniteSetsExt, Sequences

CONSTANTS
  Thread,        \* threads that may block in a wait
  Workload       \* by name, what the outside world does in a behaviour

ChildKind == {"ignore", "default", "caught"}
WaitRequest ==
  [select : Process \cup {NoProcess}, byGroup : BOOLEAN, exit : BOOLEAN,
   stop : BOOLEAN, cont : BOOLEAN, nowait : BOOLEAN, nohang : BOOLEAN]
Operation ==
  {"other", "fork", "spawn", "launch", "teardown", "abort", "timer", "wait",
   "disposition", "kill", "dequeue", "stop", "signaled", "setpgid", "setsid",
   "terminal", "foreground", "access", "tty", "exit", "exec"}

\* A workload says which operations, waits and signals processes use, on which
\* process numbers and up to which bounds, and whether native calls may fail.
WorkloadType ==
  [op : SUBSET Operation, process : SUBSET Process,
   thread : SUBSET Thread, terminal : SUBSET Terminal,
   wait : SUBSET WaitRequest, child : SUBSET (ChildKind \X SUBSET ChildOption),
   sent : SUBSET Signal, target : SUBSET Process, taken : SUBSET Signal,
   uid : SUBSET Uid, moveStopped : BOOLEAN, faults : BOOLEAN,
   limit : Nat, forks : 0..MaxFork, tokens : 0..MaxToken, images : 0..MaxImage]

VARIABLES
  s,        \* the environment, a record of Environment
  nat,      \* the native side: state and image revision of each process
  waits,    \* pending_waits: the blocked wait of each thread
  stage,    \* where the loop is
  todo,     \* what the stage has still to visit
  job,      \* the request a multi-step stage works for
  load      \* the workload of this behaviour

vars == <<s, nat, waits, stage, todo, job, load>>

\* The process of a thread: threads 21, 22, ... belong to process 2.
ProcOf(t) == t \div 10

NoWait == [image |-> MaxImage + 1]
BlockedWait ==
  [select : Process \cup {NoProcess}, byGroup : BOOLEAN, exit : BOOLEAN,
   stop : BOOLEAN, cont : BOOLEAN, nowait : BOOLEAN, nohang : BOOLEAN,
   image : 0..MaxImage]

NoJob == [kind |-> "none"]

Order == <<"early notes", "exits", "forks", "orphans", "discards", "resumes",
           "notes", "waits">>
Stage == {Order[k] : k \in 1..Len(Order)} \cup {"idle", "serve", "select", "reclaim"}

Exited(p) == nat.state[p] = "exited"
Alive(p) == nat.state[p] \in {"running", "suspended"}

\* The outcome of a native read: in a faulty workload it may fail.
Outcome == IF load.faults THEN BOOLEAN ELSE {TRUE}

TypeOK ==
  /\ s \in Environment
  /\ nat \in [state : [Process -> {"unborn", "running", "suspended", "exited"}],
              image : [Process -> 0..MaxImage]]
  /\ waits \in [Thread -> BlockedWait \cup {NoWait}]
  /\ stage \in Stage
  /\ todo \subseteq Process \cup Thread
  /\ job.kind \in {"none", "wait", "reclaim"}
  /\ load \in WorkloadType

Init ==
  /\ s = Bootstrap
  /\ nat = [state |-> [p \in Process |-> IF p = Boot THEN "running" ELSE "unborn"],
            image |-> [p \in Process |-> 0]]
  /\ waits = [t \in Thread |-> NoWait]
  /\ stage = "idle" /\ todo = {} /\ job = NoJob
  /\ load \in Range(Workload)
-----------------------------------------------------------------------------
(***************************************************************************)
(* The pass.  Work(k, e, n) is what stage k would change; a stage with     *)
(* nothing to change is skipped.                                           *)
(***************************************************************************)
\* has_reparentable_children, needs_parent_exit_observation
HasReparentable(e, p) ==
  p # Boot /\ ~Frozen(e, p) /\ \E c \in e.children[p] : ~Frozen(e, c)

NeedsObservation(e, p) ==
  p # Boot /\ ~e.wait[p].exitObserved /\ e.children[p] # {}

\* The candidates of refresh_child_exit_notifications.
ExitCandidates(e) ==
  {p \in e.reg : \/ ~e.wait[p].exitNotified /\ e.parent[p] # NoProcess
                 \/ HasReparentable(e, p) \/ NeedsObservation(e, p)
                 \/ e.terminal[p] # NoTerminal \/ p \in e.timers}

\* A preparation of an image since replaced (fork_matches_image).
Stale(e, f) == e.wait[f.owner].image # f.image

\* The candidates of reap_discarded_children_for.
DiscardCandidates(e, n) ==
  {c \in e.reg : /\ e.parent[c] # NoProcess
                 /\ e.wait[c].discard \/ Discards(e, e.parent[c])
                 /\ \/ n.state[c] = "exited"
                    \/ n.image[e.parent[c]] # e.wait[e.parent[c]].image}

\* Mutant: an orphan whose exit has been announced is skipped.
OrphanCandidatesUnannounced(e, n) ==
  {p \in e.orphaned : ~Pinned(e, p) /\ n.state[p] = "exited" /\ ~e.wait[p].exitNotified}

\* The candidates of reap_orphans.
OrphanCandidates(e, n) == {p \in e.orphaned : ~Pinned(e, p) /\ n.state[p] = "exited"}

\* Mutant: a blocked wait is not tried again.
RetriedNever(w) == {}

\* The calls complete_pending_waits retries.
Retried(w) == {t \in Thread : w[t] # NoWait}

Work(k, e, n, w) ==
  CASE Order[k] \in {"early notes", "notes"} -> {d.parent : d \in e.deferred}
    [] Order[k] = "exits" -> {p \in ExitCandidates(e) : n.state[p] = "exited"}
    [] Order[k] = "forks" -> {f.owner : f \in {g \in e.forks : Stale(e, g) \/ n.state[g.owner] = "exited"}}
    [] Order[k] = "orphans" -> OrphanCandidates(e, n)
    [] Order[k] = "discards" -> DiscardCandidates(e, n)
    [] Order[k] = "resumes" -> e.resumes
    [] Order[k] = "waits" -> Retried(w)

\* Enter the first stage from k on that has work, or sleep.
Enter(k, e, n, w) ==
  LET busy == {i \in k..Len(Order) : Work(i, e, n, w) # {}}
  IN  IF busy = {} THEN stage' = "idle" /\ todo' = {}
      ELSE stage' = Order[Min(busy)] /\ todo' = Work(Min(busy), e, n, w)

\* A new pass, after a request left environment e and native side n behind.
Pass(e, n, w) == Enter(1, e, n, w)

\* The rest of stage k: `left` is still to be visited.
Continue(k, left, e, n, w) ==
  IF left = {} THEN Enter(k + 1, e, n, w) ELSE stage' = Order[k] /\ todo' = left

\* wait_for_request_or_child: level-triggered exits of lifecycle handles, the
\* retry deadline and the periodic thread sweep start a pass without a request.
Wake ==
  /\ stage = "idle"
  /\ Pass(s, nat, waits)
  /\ stage' # "idle"
  /\ UNCHANGED <<s, nat, waits, job>>
-----------------------------------------------------------------------------
(***************************************************************************)
(* The stages, one process at a time.                                      *)
(***************************************************************************)
\* refresh_child_notifications, at the head of the pass and after the resumes.
Notes(k) ==
  /\ stage = Order[k] /\ Order[k] \in {"early notes", "notes"}
  /\ \E ok \in Outcome :
       s' = IF ok THEN RefreshDeferred(s, Min(todo), nat) ELSE s
  /\ Continue(k, todo \ {Min(todo)}, s', nat, waits)
  /\ UNCHANGED <<nat, waits, job>>

\* refresh_child_exit_notifications for one exited process.  A failed read of
\* the parent's image leaves only the cancelled resume.
ExitSeen(e, p, n) ==
  LET t == ObserveExit(e, p, n)
  IN  IF t.parent[p] = NoProcess THEN t ELSE NoteExited(t, p, n)

Exits ==
  LET p == Min(todo)
  IN  /\ stage = "exits"
      /\ \E ok \in Outcome :
           s' = IF ok \/ s.parent[p] = NoProcess
                  THEN ExitSeen(s, p, nat) ELSE CancelResume(s, p)
      /\ Continue(2, todo \ {p}, s', nat, waits)
      /\ UNCHANGED <<nat, waits, job>>

\* reap_abandoned_forks
Forks ==
  /\ stage = "forks"
  /\ s' = [s EXCEPT !.forks = {f \in @ : ~Stale(s, f) /\ ~Exited(f.owner)}]
  /\ Enter(4, s', nat, waits)
  /\ UNCHANGED <<nat, waits, job>>

\* reap_orphans: a failed read ends the stage.
Orphans ==
  LET p == Min(todo)
  IN  /\ stage = "orphans"
      /\ \E ok \in Outcome :
           /\ s' = IF ok THEN ReapObserved(ObserveExit(s, p, nat), p)
                   ELSE CancelResume(s, p)
           /\ Continue(4, IF ok THEN todo \ {p} ELSE {}, s', nat, waits)
      /\ UNCHANGED <<nat, waits, job>>

\* Mutant: the options are not read again after the exit was observed.
DiscardUnread(e, c, n0, n) ==
  LET q == e.parent[c]
      u == ObserveExit(e, c, n)
  IN  IF (~e.wait[c].discard /\ ~Discards(e, q)) \/ ~Exited(c) THEN e
      ELSE IF Pinned(u, c) THEN u
      ELSE ReapObserved(u, c)

\* reap_discarded_children_for, one candidate: e is the environment, n0 the
\* native side at the first read of the parent's image, n the native side at
\* the reads of the exit observation.
Discard(e, c, n0, n) ==
  LET q == e.parent[c]
      t == RefreshImage(e, q, n0)
      u == ObserveExit(t, c, n)
  IN  IF (~t.wait[c].discard /\ ~Discards(t, q)) \/ ~Exited(c) THEN t
      ELSE IF ~u.wait[c].discard \/ Pinned(u, c) THEN u
      ELSE ReapObserved(u, c)

\* The parent may replace its image between the two reads.
ExecBetween(q) ==
  {nat} \cup (IF "exec" \in load.op /\ nat.state[q] = "running" /\ nat.image[q] < load.images
               THEN {[nat EXCEPT !.image[q] = @ + 1]} ELSE {})

DiscardOne(c, ok) ==
  \E n \in ExecBetween(s.parent[c]) :
    /\ nat' = IF ok THEN n ELSE nat
    /\ s' = IF ok THEN Discard(s, c, nat, n) ELSE s

Discards_ ==
  LET c == Min(todo)
  IN  /\ stage = "discards"
      /\ \E ok \in Outcome :
           /\ DiscardOne(c, ok)
           /\ Continue(5, IF ok THEN todo \ {c} ELSE {}, s', nat', waits)
      /\ UNCHANGED <<waits, job>>

\* prepare_child_resume and the effects of a native resume that succeeded.
Resumed(e, p) ==
  LET w == e.wait[p]
      q == e.parent[p]
      d == [child |-> p, parent |-> q, image |-> e.wait[q].image,
            suppress |-> "NOCLDSTOP" \in e.opts[q]]
      t == [e EXCEPT !.resumes = @ \ {p}, !.wait[p].resumeContinued = FALSE]
  IN  IF ~(w.resumeContinued /\ w.stopped) THEN t
      ELSE [t EXCEPT !.wait[p].stopped = FALSE, !.wait[p].stopReported = FALSE,
                     !.wait[p].continuedPending = TRUE,
                     !.deferred = IF q = NoProcess THEN @ ELSE @ \cup {d}]

\* Mutants: a failed native resume counts, or an exited process keeps its own.
ApplyResumeAnyway(e, p, ok) ==
  IF p \notin e.resumes THEN e
  ELSE IF Exited(p) THEN CancelResume(e, p) ELSE Resumed(e, p)

ApplyResumeExited(e, p, ok) ==
  IF p \notin e.resumes \/ Exited(p) THEN e
  ELSE IF ok THEN Resumed(e, p) ELSE e

\* apply_process_resume: retired after native exit, kept when resume fails.
ApplyResume(e, p, ok) ==
  IF p \notin e.resumes THEN e
  ELSE IF Exited(p) THEN CancelResume(e, p)
  ELSE IF ok THEN Resumed(e, p) ELSE e

WakeNative(n, p, ok) ==
  IF ok /\ n.state[p] = "suspended" THEN [n EXCEPT !.state[p] = "running"] ELSE n

Resumes ==
  LET p == Min(todo)
  IN  /\ stage = "resumes"
      /\ \E ok \in Outcome :
           /\ s' = ApplyResume(s, p, ok)
           /\ nat' = WakeNative(nat, p, ok)
      /\ Continue(6, todo \ {p}, s', nat', waits)
      /\ UNCHANGED <<waits, job>>
-----------------------------------------------------------------------------
(***************************************************************************)
(* Waiting for children.  A wait is served in two stages: discarded        *)
(* children of the caller are reaped ("serve"), then an event is selected, *)
(* replied and, if the reply was accepted, consumed ("select").            *)
(***************************************************************************)
\* matching_child_ids
Matching(e, p, w) ==
  {c \in e.children[p] :
     IF w.byGroup
       THEN e.group[c] = IF w.select = NoProcess THEN e.group[p] ELSE w.select
       ELSE w.select \in {NoProcess, c}}

\* ProcessWaitState::take_status: is there a status, and without it.
HasStatus(w, r) ==
  (r.stop /\ w.stopped /\ ~w.stopReported) \/ (r.cont /\ w.continuedPending)

TakeStatus(w, r) ==
  IF r.nowait THEN w
  ELSE IF r.stop /\ w.stopped /\ ~w.stopReported
    THEN [w EXCEPT !.stopReported = TRUE]
    ELSE [w EXCEPT !.continuedPending = FALSE]

Ready(e, c, r) == IF Exited(c) THEN r.exit ELSE HasStatus(e.wait[c], r)

\* Leave the wait: back to the waits still to retry, or to a new pass.
Leave(e, n, w) ==
  /\ job' = NoJob
  /\ IF job.again
       THEN Continue(8, job.left, e, n, w)
       ELSE Pass(e, n, w)

\* The first half of wait_child_observation_with_reply.
BeginWait(e, t, r, again, left) ==
  LET mine == {c \in DiscardCandidates(e, nat) : e.parent[c] = ProcOf(t)}
  IN  /\ job' = [kind |-> "wait", thread |-> t, req |-> r, again |-> again, left |-> left]
      /\ stage' = IF mine = {} THEN "select" ELSE "serve"
      /\ todo' = mine

Serve ==
  LET c == Min(todo)
  IN  /\ stage = "serve"
      /\ \E ok \in Outcome :
           /\ DiscardOne(c, ok)
           /\ IF ok
                THEN /\ todo' = todo \ {c}
                     /\ stage' = IF todo' = {} THEN "select" ELSE "serve"
                     /\ UNCHANGED <<waits, job>>
                ELSE /\ waits' = [waits EXCEPT ![job.thread] = NoWait]
                     /\ Leave(s, nat, waits')

\* note_child_exited for the exited children the selection walks over.
NoteAll(e, p, C, n) ==
  LET t == RefreshImage(RefreshDeferred(e, p, n), p, n)
      fresh == {c \in C : ~e.wait[c].exitNotified}
      u == [t EXCEPT !.wait = [c \in Process |->
               IF c \in fresh THEN [@[c] EXCEPT !.exitNotified = TRUE] ELSE @[c]]]
  IN  IF C = {} THEN e ELSE IF fresh = {} THEN t ELSE Enqueue(u, p, "CHLD")

\* The reaping of a waited-for child credits its usage to the waiter.
ReapWaited(e, p, c) ==
  LET t == ReapObserved(e, c)
  IN  [t EXCEPT !.wait[p].waited = @ \cup {c} \cup e.wait[c].waited]

\* A reply that was not accepted consumes nothing.
Consumed(e, p, c, delivered) == IF delivered THEN ReapWaited(e, p, c) ELSE e

Answer(t, e) == s' = e /\ waits' = [waits EXCEPT ![t] = NoWait] /\ Leave(e, nat, waits')

\* The second half, for the caller p = ProcOf(job.thread) and its request r.
Select ==
  LET t == job.thread
      r == job.req
      p == ProcOf(t)
      C == Matching(s, p, r)
      free == {c \in C : ~Pinned(s, c)}
      dead == {c \in free : Exited(c)}
      ready == {c \in free : Ready(s, c, r)}
      first == Min(ready)
      u == NoteAll(s, p, {c \in dead : ready = {} \/ c <= first}, nat)
      v == ObserveExit(u, first, nat)
  IN  /\ stage = "select"
      /\ \/ C = {} /\ Answer(t, s)                                \* ECHILD
         \/ C # {} /\ load.faults /\ Answer(t, s)                      \* a read failed
         \/ C # {} /\ ready = {} /\ C = dead /\ Answer(t, u)      \* ECHILD
         \/ C # {} /\ ready = {} /\ C # dead /\ r.nohang /\ Answer(t, u)
         \/ C # {} /\ ready = {} /\ C # dead /\ ~r.nohang
              /\ s' = u /\ waits' = [waits EXCEPT ![t] = r] /\ Leave(u, nat, waits')
         \/ \E delivered \in BOOLEAN :
              /\ ready # {} /\ Exited(first)
              /\ Answer(t, IF r.nowait THEN u
                           ELSE Consumed(v, p, first, delivered))
         \/ \E delivered \in BOOLEAN :
              /\ ready # {} /\ ~Exited(first)
              /\ Answer(t, IF delivered
                             THEN [u EXCEPT !.wait[first] = TakeStatus(@, r)] ELSE u)
      /\ UNCHANGED nat

\* complete_pending_waits: a wait of a replaced image or of an interrupted
\* thread is answered with the error; the others are served again.
Waits ==
  /\ stage = "waits"
  /\ \E t \in todo :
       LET p == ProcOf(t)
           e == RefreshImage(s, p, nat)
           valid == p \in s.reg /\ Alive(p)
           drop == [waits EXCEPT ![t] = NoWait]
       IN  \/ /\ valid /\ waits[t].image = e.wait[p].image
              /\ Matching(e, p, waits[t]) # {}
              /\ s' = e
              /\ BeginWait(e, t, waits[t], TRUE, todo \ {t})
              /\ UNCHANGED <<nat, waits>>
           \/ /\ \/ ~valid \/ waits[t].image # e.wait[p].image
                 \/ Matching(e, p, waits[t]) = {} \/ load.faults \/ s.pending[p] # {}
              /\ s' = IF valid THEN e ELSE s
              /\ waits' = drop
              /\ Continue(8, todo \ {t}, s', nat, drop)
              /\ UNCHANGED <<nat, job>>
-----------------------------------------------------------------------------
(***************************************************************************)
(* Requests.  Admission observes the sender's image; a request from an     *)
(* exited process is refused.                                              *)
(***************************************************************************)
Request(p, op) == stage = "idle" /\ op \in load.op /\ p \in s.reg /\ Alive(p)
Admitted(p) == RefreshImage(s, p, nat)
Finish(e, n) == s' = e /\ nat' = n /\ Pass(e, n, waits) /\ UNCHANGED <<waits, job>>

\* A request that changes nothing but the observed image.
Other(p) == Request(p, "other") /\ Finish(Admitted(p), nat)

\* Fork: preparation freezes the policy, commit installs it.
LiveForks(e) == {f \in e.forks : ~Stale(e, f)}

\* check_fork_process_limit
BelowLimit(e, u) ==
  u = "root" \/ Cardinality({q \in e.reg : e.uid[q] = u})
                + Cardinality({f \in LiveForks(e) : f.uid = u}) < load.limit

\* Mutant: a frozen process may still fork.
CanPrepareFrozen(e, p) ==
  /\ ~e.wait[p].exitObserved
  /\ e.nextFork <= load.forks /\ BelowLimit(e, e.uid[p])

CanPrepare(e, p) ==
  /\ ~Frozen(e, p) /\ ~e.wait[p].exitObserved
  /\ e.nextFork <= load.forks /\ BelowLimit(e, e.uid[p])

ForkOf(e, p) ==
  [token |-> e.nextFork, owner |-> p, image |-> e.wait[p].image,
   group |-> e.group[p], session |-> e.session[p], ignored |-> e.ignored[p],
   opts |-> e.opts[p], uid |-> e.uid[p]]

\* A preparation whose reply is lost is cancelled at once.
PrepareFork(p) ==
  LET e == Admitted(p)
      t == [e EXCEPT !.forks = LiveForks(e)]
  IN  /\ Request(p, "fork")
      /\ \E delivered \in BOOLEAN :
           Finish(IF CanPrepare(t, p)
                    THEN [t EXCEPT !.nextFork = @ + 1,
                                   !.forks = IF delivered THEN @ \cup {ForkOf(t, p)} ELSE @]
                    ELSE t, nat)

Install(e, f, c) ==
  [e EXCEPT !.reg = @ \cup {c}, !.parent[c] = f.owner, !.creator[c] = f.owner,
            !.children[f.owner] = @ \cup {c}, !.group[c] = f.group,
            !.session[c] = f.session, !.uid[c] = f.uid, !.ignored[c] = f.ignored,
            !.opts[c] = f.opts, !.wait[c] = BlankWait, !.forks = @ \ {f}]

Unborn(c) == c \in load.process /\ nat.state[c] = "unborn"
Born(c) == [nat EXCEPT !.state[c] = "running"]

CommitFork(p, c) ==
  LET e == Admitted(p)
  IN  /\ Request(p, "fork")
      /\ Unborn(c)
      /\ \E f \in {g \in e.forks : g.owner = p} :
           /\ ~Stale(e, f) /\ ~Frozen(e, p) /\ ~e.wait[p].exitObserved
           /\ Finish(Install(e, f, c), Born(c))

CancelFork(p) ==
  LET e == Admitted(p)
  IN  /\ Request(p, "fork")
      /\ \E f \in {g \in e.forks : g.owner = p} :
           Finish([e EXCEPT !.forks = @ \ {f}], nat)

\* adopt_child: prepare and commit at once, for parent p and creator b.
Adopt(e, p, c, b, u) ==
  LET t == [e EXCEPT !.forks = LiveForks(e)]
      i == Install([t EXCEPT !.nextFork = @ + 1], ForkOf(t, p), c)
  IN  [ResetImage(i, c) EXCEPT !.uid[c] = u, !.creator[c] = b, !.wait[c].fresh = TRUE]

\* adopt_spawned_child
Spawn(p, c, u) ==
  LET e == Admitted(p)
  IN  /\ Request(p, "spawn")
      /\ Unborn(c) /\ CanPrepare(e, p)
      /\ e.uid[p] = "root" \/ u = e.uid[p]
      /\ Finish(Adopt(e, p, c, p, u), Born(c))

\* adopt_launched_child: broker b launches c for requester q.
Launch(b, q, c) ==
  LET e == Admitted(b)
  IN  /\ Request(b, "launch")
      /\ e.uid[b] = "root" /\ q \in e.reg /\ Alive(q)
      /\ Unborn(c) /\ CanPrepare(e, q)
      /\ Finish(Adopt(e, q, c, b, e.uid[q]), Born(c))
-----------------------------------------------------------------------------
(***************************************************************************)
(* A creator's teardown of what it launched.                               *)
(***************************************************************************)
\* launched_tree_process_ids: the descendants of a process, itself included.
Tree(e, root) ==
  {q \in Process : \A S \in SUBSET Process :
     (root \in S /\ \A x \in S : e.children[x] \subseteq S) => q \in S}

\* begin_launched_tree_termination freezes the tree, then terminates it from
\* the leaves up.  K is how far it got: a termination may fail or take time.
Terminate(p, root) ==
  LET e == Admitted(p)
      new == e.teardown[root] = {}
      M == IF new THEN Tree(e, root) ELSE e.teardown[root]
  IN  /\ Request(p, "teardown")
      /\ e.creator[root] = p
      /\ new => \A q \in M : ~Frozen(e, q)
      /\ M \subseteq e.reg
      /\ \E K \in SUBSET {q \in M : Alive(q)} :
           /\ \A q \in K : \A c \in e.children[q] : Exited(c) \/ c \in K
           /\ Finish([e EXCEPT !.teardown[root] = M],
                     [nat EXCEPT !.state = [q \in Process |->
                        IF q \in K THEN "exited" ELSE @[q]]])

\* reclaim_launched_tree: only when every member is registered and has exited;
\* the members are reaped children first, and a failed read ends it midway.
BeginReclaim(p, root) ==
  LET e == Admitted(p)
  IN  /\ Request(p, "teardown")
      /\ root \in e.reg /\ e.creator[root] = p /\ e.teardown[root] # {}
      /\ \A q \in e.teardown[root] : q \in e.reg /\ Exited(q)
      /\ s' = e /\ stage' = "reclaim" /\ todo' = e.teardown[root]
      /\ job' = [kind |-> "reclaim", root |-> root]
      /\ UNCHANGED <<nat, waits>>

Leaves(e, M) == {q \in M : e.children[q] \cap M = {}}

Reclaim ==
  /\ stage = "reclaim"
  /\ \E c \in Leaves(s, todo), ok \in Outcome :
       LET r == ReapObserved(ObserveExit(s, c, nat), c)
           done == ok /\ todo = {c}
       IN  /\ s' = IF ~ok THEN CancelResume(s, c)
                   ELSE IF done THEN [r EXCEPT !.teardown[job.root] = {}] ELSE r
           /\ IF ok /\ ~done
                THEN stage' = "reclaim" /\ todo' = todo \ {c} /\ UNCHANGED job
                ELSE job' = NoJob /\ Pass(s', nat, waits)
  /\ UNCHANGED <<nat, waits>>

\* abort_launched_child
MayAbort(e, p, c) == c \in e.reg /\ e.creator[c] = p /\ ~Pinned(e, c)

Abort(p, c) ==
  LET e == Admitted(p)
      n == [nat EXCEPT !.state[c] = "exited"]
  IN  /\ Request(p, "abort")
      /\ MayAbort(e, p, c)
      /\ \E ok \in Outcome :
           Finish(IF ok THEN ReapObserved(ObserveExit(e, c, n), c)
                  ELSE CancelResume(e, c), n)
-----------------------------------------------------------------------------
(***************************************************************************)
(* Signals, stops and continuations.                                       *)
(***************************************************************************)
\* discard_observed_child_status
DiscardObserved(e, p) ==
  [e EXCEPT !.wait = [c \in Process |->
     IF e.parent[c] = p /\ @[c].exitObserved
       THEN [@[c] EXCEPT !.discard = TRUE] ELSE @[c]]]

\* signal_disposition_payload for SIGCHLD, and set_signal_child_options.
SetChildAction(p, kind, o) ==
  LET e == Admitted(p)
      t == [e EXCEPT !.opts[p] = o,
                     !.pending[p] = IF kind = "caught" THEN @ ELSE @ \ {"CHLD"},
                     !.ignored[p] = IF kind = "ignore" THEN @ \cup {"CHLD"} ELSE @ \ {"CHLD"}]
  IN  /\ Request(p, "disposition")
      /\ Finish(IF Discards(t, p) THEN DiscardObserved(t, p) ELSE t, nat)

\* signal_permission, with the same-session exemption of SIGCONT.
MaySignal(e, p, q, sig) ==
  \/ e.uid[p] = "root" \/ e.uid[p] = e.uid[q]
  \/ sig = "CONT" /\ e.session[p] = e.session[q]

\* send_signal to one process or to a group.
Kill(p, q, byGroup, sig) ==
  LET e == Admitted(p)
      T == {m \in e.reg : /\ IF byGroup THEN e.group[m] = q ELSE m = q
                          /\ MaySignal(e, p, m, sig)}
  IN  /\ Request(p, "kill") /\ T # {}
      /\ Finish(EnqueueAll(e, T, sig), nat)

\* A thread of p takes a pending signal and with it a delivery token.
Dequeue(p, sig) ==
  LET e == Admitted(p)
  IN  /\ Request(p, "dequeue")
      /\ sig \in e.pending[p] /\ e.nextToken <= load.tokens
      /\ Finish([e EXCEPT !.pending[p] = @ \ {sig}, !.nextToken = @ + 1,
                          !.wait[p].deliveries =
                             @ \cup {[token |-> e.nextToken, signal |-> sig]}], nat)

\* ProcessWaitState::stopped
Stopped(w, d) ==
  LET x == [w EXCEPT !.deliveries = @ \ {d}]
  IN  IF w.stopped THEN x
      ELSE [x EXCEPT !.stopped = TRUE, !.stopSignal = d.signal,
                     !.stopReported = FALSE, !.continuedPending = FALSE]

StopDelivery(d) == d.signal \in StopSignal

\* report_process_stopped.  fail is the native operation that fails, if any:
\* the earlier resume, or the reads and the suspension.
ReportStopped(p, d) ==
  LET e == Admitted(p)
      idle == d.signal # "STOP" /\ <<e.session[p], e.group[p]>> \notin Connected(e)
      t == ApplyResume(e, p, TRUE)
      u == RefreshParent(t, p, nat)
      v == [u EXCEPT !.wait[p] = Stopped(@, d)]
  IN  /\ Request(p, "stop")
      /\ d \in e.wait[p].deliveries /\ StopDelivery(d)
      /\ IF idle THEN Finish([e EXCEPT !.wait[p].deliveries = @ \ {d}], nat)
         ELSE \E fail \in {"none"} \cup (IF load.faults THEN {"resume", "suspend"} ELSE {}) :
                CASE fail = "resume" -> Finish(e, nat)
                  [] fail = "suspend" ->
                       Finish(t, IF p \in e.resumes THEN WakeNative(nat, p, TRUE) ELSE nat)
                  [] fail = "none" ->
                       Finish(IF u.wait[p].stopped THEN v ELSE NotifyParent(v, p, TRUE),
                              [nat EXCEPT !.state[p] = "suspended"])

\* complete_signal_delivery
CompleteDelivery(p, d) ==
  LET e == Admitted(p)
  IN  /\ Request(p, "dequeue")
      /\ d \in e.wait[p].deliveries
      /\ Finish([e EXCEPT !.wait[p].deliveries = @ \ {d}], nat)

\* report_process_signaled: the token is spent before the termination.
ReportSignaled(p, d) ==
  LET e == Admitted(p)
      t == [e EXCEPT !.wait[p].deliveries = @ \ {d}]
  IN  /\ Request(p, "signaled")
      /\ d \in e.wait[p].deliveries /\ d.signal \in {"HUP", "KILL"}
      /\ \E ok \in Outcome :
           IF ok THEN Finish([t EXCEPT !.wait[p].killed = TRUE],
                             [nat EXCEPT !.state[p] = "exited"])
           ELSE Finish(t, nat)

\* An alarm, interval timer or resource policy the process owns until it exits.
SetTimer(p) ==
  /\ Request(p, "timer")
  /\ Finish([Admitted(p) EXCEPT !.timers = @ \cup {p}], nat)
-----------------------------------------------------------------------------
(***************************************************************************)
(* Process groups, sessions and terminals.                                 *)
(***************************************************************************)
\* set_process_group: p moves q, itself or a child that has not yet replaced
\* its image, to group g.
SetGroup(p, q, g) ==
  LET e == Admitted(p)
  IN  /\ Request(p, "setpgid")
      /\ \/ q = p
         \/ e.parent[q] = p /\ Alive(q) /\ nat.image[q] = 0 /\ ~e.wait[q].fresh
      /\ e.session[q] = e.session[p] /\ e.session[q] # q
      /\ g = q \/ Members(e, e.session[p], g) # {}
      /\ Finish(NotifyOrphaned([e EXCEPT !.group[q] = g], Connected(e)), nat)

\* create_session
CreateSession(p) ==
  LET e == Admitted(p)
  IN  /\ Request(p, "setsid")
      /\ \A q \in e.reg : e.group[q] # p
      /\ Finish(NotifyOrphaned([e EXCEPT !.group[p] = p, !.session[p] = p],
                               Connected(e)), nat)

\* acquire_controlling_terminal, release_controlling_terminal
Acquire(p, t) ==
  LET e == Admitted(p)
  IN  /\ Request(p, "terminal")
      /\ e.session[p] = p /\ e.terminal[p] = NoTerminal /\ e.tty[t] = NoTty
      /\ Finish([e EXCEPT !.terminal[p] = t,
                          !.tty[t] = [session |-> p, group |-> e.group[p]]], nat)

Release(p) ==
  LET e == Admitted(p)
  IN  /\ Request(p, "terminal")
      /\ e.session[p] = p /\ e.terminal[p] # NoTerminal
      /\ Finish(ReleaseTerminal(e, p), nat)

\* authorize_terminal_access: a background caller's group gets the signal,
\* unless the caller ignores or blocks it or the group is orphaned.
Background(e, p, t) == e.group[p] # e.tty[t].group
Denied(e, p, t, sig) ==
  EnqueueAll(e, LiveMembers(e, e.tty[t].session, e.group[p]), sig)

TerminalAccess(p, t, sig) ==
  LET e == Admitted(p)
  IN  /\ Request(p, "access")
      /\ e.terminal[e.session[p]] = t /\ Background(e, p, t)
      /\ sig \notin e.ignored[p]
      /\ <<e.tty[t].session, e.group[p]>> \in Connected(e)
      /\ Finish(Denied(e, p, t, sig), nat)

\* set_terminal_foreground_process_group; blocked: the calling thread blocks
\* SIGTTOU.
SetForeground(p, t, g, blocked) ==
  LET e == Admitted(p)
      free == ~Background(e, p, t) \/ "TTOU" \in e.ignored[p] \/ blocked
  IN  /\ Request(p, "foreground")
      /\ e.terminal[e.session[p]] = t
      /\ Members(e, e.session[p], g) # {}
      /\ \/ free /\ Finish([e EXCEPT !.tty[t].group = g], nat)
         \/ /\ ~free /\ <<e.tty[t].session, e.group[p]>> \in Connected(e)
            /\ Finish(Denied(e, p, t, "TTOU"), nat)

\* signal_terminal_foreground_group and hangup_terminal, from the PTY provider.
TerminalSignal(t, sig) ==
  /\ stage = "idle" /\ "tty" \in load.op /\ s.tty[t] # NoTty
  /\ Members(s, s.tty[t].session, s.tty[t].group) # {}
  /\ Finish(EnqueueAll(s, Members(s, s.tty[t].session, s.tty[t].group), sig), nat)

Hangup(t) ==
  /\ stage = "idle" /\ "tty" \in load.op /\ s.tty[t] # NoTty
  /\ Finish(Enqueue(s, s.tty[t].session, "HUP"), nat)
-----------------------------------------------------------------------------
\* A wait request: an error if no child matches, otherwise it is served.
RequestWait(t, r) ==
  LET p == ProcOf(t)
      e == Admitted(p)
      w == [select |-> r.select, byGroup |-> r.byGroup, exit |-> r.exit,
            stop |-> r.stop, cont |-> r.cont, nowait |-> r.nowait,
            nohang |-> r.nohang, image |-> e.wait[p].image]
  IN  /\ Request(p, "wait") /\ waits[t] = NoWait
      /\ Matching(e, p, w) # {}
      /\ s' = e /\ BeginWait(e, t, w, FALSE, {})
      /\ UNCHANGED <<nat, waits>>

\* The native side: a process exits, or replaces its image.
NativeExit(p) ==
  /\ "exit" \in load.op /\ p # Boot /\ nat.state[p] = "running"
  /\ nat' = [nat EXCEPT !.state[p] = "exited"]
  /\ UNCHANGED <<s, waits, stage, todo, job>>

NativeExec(p) ==
  /\ "exec" \in load.op /\ nat.state[p] = "running" /\ nat.image[p] < load.images
  /\ nat' = [nat EXCEPT !.image[p] = @ + 1]
  /\ UNCHANGED <<s, waits, stage, todo, job>>

Housekeeping ==
  \/ Notes(1) \/ Exits \/ Forks \/ Orphans \/ Discards_ \/ Resumes \/ Notes(7)
  \/ Waits \/ Serve \/ Select \/ Reclaim

ForkRequest ==
  \/ \E p \in s.reg : Other(p) \/ PrepareFork(p) \/ CancelFork(p) \/ SetTimer(p)
  \/ \E p \in s.reg, c \in Process :
       \/ CommitFork(p, c) \/ Terminate(p, c) \/ BeginReclaim(p, c) \/ Abort(p, c)
       \/ \E u \in load.uid : Spawn(p, c, u)
       \/ \E q \in s.reg : Launch(p, q, c)

SignalRequest ==
  \/ \E p \in s.reg, a \in load.child : SetChildAction(p, a[1], a[2])
  \/ \E p \in s.reg, q \in load.target, byGroup \in BOOLEAN, sig \in load.sent : Kill(p, q, byGroup, sig)
  \/ \E p \in s.reg, sig \in load.taken : Dequeue(p, sig)
  \/ \E p \in s.reg : \E d \in s.wait[p].deliveries :
       ReportStopped(p, d) \/ CompleteDelivery(p, d) \/ ReportSignaled(p, d)

Movable == {p \in s.reg : load.moveStopped \/ nat.state[p] = "running"}

JobRequest ==
  \/ \E p \in s.reg, q \in Movable, g \in Process : SetGroup(p, q, g)
  \/ \E p \in Movable : CreateSession(p)
  \/ \E p \in s.reg : Release(p)
  \/ \E p \in s.reg, t \in load.terminal :
       \/ Acquire(p, t)
       \/ \E sig \in load.taken \cap {"TTIN", "TTOU"} : TerminalAccess(p, t, sig)
       \/ \E g \in Process, blocked \in BOOLEAN : SetForeground(p, t, g, blocked)
  \/ \E t \in load.terminal : Hangup(t) \/ \E sig \in {"TSTP"} : TerminalSignal(t, sig)

Step ==
  \/ Wake \/ Housekeeping
  \/ \E t \in load.thread, r \in load.wait : RequestWait(t, r)
  \/ ForkRequest \/ SignalRequest \/ JobRequest
  \/ \E p \in Process : NativeExit(p) \/ NativeExec(p)

Next == Step /\ UNCHANGED load

Spec == Init /\ [][Next]_vars

\* The loop keeps running: it is one thread whose every native call returns,
\* woken by exits and by its periodic deadline.  Each of its steps moves stage or
\* todo, and no native step does.
Busy == stage # "idle" \/ \E k \in 1..Len(Order) : Work(k, s, nat, waits) # {}
Progress ==
  /\ Busy
  /\ \E g \in Stage, left \in SUBSET (Process \cup Thread) : stage' = g /\ todo' = left
FairSpec == Spec /\ WF_<<stage, todo>>(Progress)
-----------------------------------------------------------------------------
(***************************************************************************)
(* Properties.                                                             *)
(***************************************************************************)
\* The parent and children maps are inverse, relate only registered
\* processes, and lead from every process to a root: commit, reparenting and
\* reaping edit them separately, in a loop over a snapshot.  The usage of a
\* process is credited to one account at most, and only after it is gone: a
\* failed reply credits nothing, a retried wait does not credit twice.
TreeConsistent ==
  /\ \A p, c \in Process : c \in s.children[p] <=> s.parent[c] = p
  /\ \A c \in Process : s.parent[c] # NoProcess => c \in s.reg /\ s.parent[c] \in s.reg
  /\ s.orphaned \subseteq {c \in s.reg : s.parent[c] = Boot}
  /\ \A c \in s.reg : Boot \in Tree([s EXCEPT !.children = [p \in Process |-> {s.parent[p]} \ {NoProcess}]], c)
  /\ \A p \in s.reg :
       /\ s.wait[p].waited \cap s.reg = {}
       /\ \A q \in s.reg \ {p} : s.wait[p].waited \cap s.wait[q].waited = {}

\* A frozen tree is closed under children and held by one teardown: nothing
\* forks into it, and no other teardown shares a member.
FrozenClosed ==
  \A r \in Process :
    /\ \A p \in s.teardown[r] : s.children[p] \subseteq s.teardown[r]
    /\ \A q \in Process \ {r} : s.teardown[r] \cap s.teardown[q] = {}

\* "Once this succeeds the root no longer has a POSIX environment (ESRCH), so a
\* caller ... can retry reclaim": between requests, the members a retry looks up
\* are registered as long as the root is, so that ESRCH says the root is gone.
ReclaimRetryable ==
  stage = "idle" =>
    \A r \in s.reg : s.teardown[r] # {} => s.teardown[r] \subseteq s.reg

\* Of every step: a child leaves the service only when its exit status was
\* consumed by a wait of its parent, was to be discarded under the parent's
\* current image, or when it is an orphan, or its living creator aborts or
\* reclaims it.
StatusNotLost ==
  \A c \in s.reg \ s.reg' :
    LET q == s.parent[c]
    IN  \/ c \in s.wait'[q].waited
        \/ c \in s.orphaned
        \/ s.wait[c].discard
        \/ Discards(s', q) /\ s.wait'[q].image = nat.image'[q]
        \/ stage = "idle" /\ Alive(s.creator[c])
        \/ stage = "reclaim" /\ c \in s.teardown[job.root]

\* Of every step: exit_notified means that the present parent has been sent
\* SIGCHLD: setting the flag, or changing parents with the flag set, comes with
\* the signal.
ExitAnnounced ==
  \A c \in s.reg' :
    (s.wait'[c].exitNotified /\ ~(s.wait[c].exitNotified /\ s.parent'[c] = s.parent[c]))
      => "CHLD" \in s.pending'[s.parent'[c]] \cup s.ignored'[s.parent'[c]]

\* A process the kernel holds suspended is one the service knows to be
\* stopped, and a promised continuation has its native resume queued.  The two
\* terminal maps are inverse, and only a session leader whose exit has not been
\* observed controls a terminal.
JobsConsistent ==
  /\ \A p \in s.reg :
       /\ nat.state[p] = "suspended" => s.wait[p].stopped
       /\ s.wait[p].resumeContinued => p \in s.resumes /\ s.wait[p].stopped
  /\ \A p \in Process, t \in Terminal : s.terminal[p] = t <=> s.tty[t].session = p
  /\ \A p \in Process : s.terminal[p] # NoTerminal =>
       p \in s.reg /\ s.session[p] = p /\ ~s.wait[p].exitObserved

\* A stop generated before a SIGCONT never takes effect after it: while the
\* SIGCONT is pending no stop is pending and no stop delivery is outstanding.
NoStopAcrossContinue ==
  \A p \in s.reg : "CONT" \in s.pending[p] =>
    /\ s.pending[p] \cap StopSignal = {}
    /\ \A d \in s.wait[p].deliveries : d.signal \notin StopSignal

\* No process stopped by the keyboard or the terminal is left stopped in an
\* orphaned process group, where no shell could continue it.  (A suspended
\* process's own queued setpgid is not a transition POSIX signals: it is kept
\* out of the workloads this is stated for.)
NotStranded ==
  ~load.moveStopped => \A p \in s.reg :
    (/\ nat.state[p] = "suspended" /\ s.wait[p].stopSignal # "STOP"
     /\ ~s.wait[p].exitObserved
     /\ <<s.session[p], s.group[p]>> \notin Connected(s)) => p \in s.resumes

Gone(p) == p \notin s.reg \/ Pinned(s, p)

\* Orphans do not accumulate: an exited orphan is reaped, or held by a teardown.
ExitedOrphan(p) == p \in s.orphaned /\ Exited(p)
OrphansReaped == \A p \in Process : ExitedOrphan(p) ~> Gone(p)

\* A blocked wait is answered once a child it selects has exited and no
\* teardown holds it.
Answerable(t, c) ==
  waits[t] # NoWait /\ waits[t].exit /\ Exited(c) /\ c \in Matching(s, ProcOf(t), waits[t])
Answered(t, c) == waits[t] = NoWait \/ Gone(c)
WaitsAnswered == \A t \in Thread : \A c \in Process : Answerable(t, c) ~> Answered(t, c)

\* A queued native resume is carried out or retired.
Resuming(p) == p \in s.resumes
ResumesApplied == \A p \in Process : Resuming(p) ~> ~Resuming(p)
=============================================================================
