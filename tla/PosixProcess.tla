---------------------------- MODULE PosixProcess ----------------------------
(***************************************************************************)
(* The process environment posix.service keeps (struct PosixService in     *)
(* posix/src/lib.rs), as a record, and the policy operations that several  *)
(* handlers share: generating a signal, observing an image change or an    *)
(* exit, reparenting, orphaned process groups, reaping.  Every operation   *)
(* takes the record and returns the record the code leaves behind.         *)
(*                                                                         *)
(* A process is identified by its number, 0 is "none": the maps of the     *)
(* service are total functions whose entries outside `reg` are blank.      *)
(***************************************************************************)
EXTENDS Naturals, FiniteSets

CONSTANTS
  Process,       \* process numbers the run may use, positive
  Boot,          \* the inherited bootstrap process, reaper of orphans
  Terminal,      \* terminals of the PTY provider
  MaxImage,      \* bound on the image replacements (exec) of one process
  MaxToken,      \* bound on the signal delivery tokens handed out
  MaxFork        \* bound on the fork tokens handed out

NoProcess == 0
NoTerminal == "no terminal"

\* JOB_CONTROL_STOP_SIGNALS and the signals whose generation the policy uses.
StopSignal == {"STOP", "TSTP", "TTIN", "TTOU"}
Signal == StopSignal \cup {"HUP", "KILL", "CHLD", "CONT"}
ChildOption == {"NOCLDSTOP", "NOCLDWAIT"}
Uid == {"root", "user"}

Delivery == [token : 1..MaxToken, signal : Signal]

\* ProcessWaitState.  `waited` stands for waited_usage: the processes whose
\* usage has been added to this one's account.
WaitState ==
  [image : 0..MaxImage, fresh : BOOLEAN, stopped : BOOLEAN,
   stopSignal : StopSignal \cup {"none"}, stopReported : BOOLEAN,
   continuedPending : BOOLEAN, resumeContinued : BOOLEAN,
   exitObserved : BOOLEAN, exitNotified : BOOLEAN, discard : BOOLEAN,
   deliveries : SUBSET Delivery, killed : BOOLEAN, waited : SUBSET Process]

BlankWait ==
  [image |-> 0, fresh |-> FALSE, stopped |-> FALSE, stopSignal |-> "none",
   stopReported |-> FALSE, continuedPending |-> FALSE,
   resumeContinued |-> FALSE, exitObserved |-> FALSE, exitNotified |-> FALSE,
   discard |-> FALSE, deliveries |-> {}, killed |-> FALSE, waited |-> {}]

\* child_notification.rs Deferred, and fork_state.rs ForkState.
Deferred == [child : Process, parent : Process, image : 0..MaxImage, suppress : BOOLEAN]
Fork ==
  [token : 1..MaxFork, owner : Process, image : 0..MaxImage, group : Process,
   session : Process, ignored : SUBSET Signal, opts : SUBSET ChildOption, uid : Uid]

Tty == [session : Process, group : Process]
NoTty == [session |-> NoProcess, group |-> NoProcess]

Environment ==
  [reg : SUBSET Process, parent : [Process -> Process \cup {NoProcess}],
   children : [Process -> SUBSET Process], orphaned : SUBSET Process,
   creator : [Process -> Process \cup {NoProcess}],
   teardown : [Process -> SUBSET Process],
   group : [Process -> Process \cup {NoProcess}],
   session : [Process -> Process \cup {NoProcess}], uid : [Process -> Uid],
   pending : [Process -> SUBSET Signal], ignored : [Process -> SUBSET Signal],
   opts : [Process -> SUBSET ChildOption], wait : [Process -> WaitState],
   resumes : SUBSET Process, deferred : SUBSET Deferred, forks : SUBSET Fork,
   nextFork : 1..(MaxFork + 1), nextToken : 1..(MaxToken + 1),
   terminal : [Process -> Terminal \cup {NoTerminal}],
   tty : [Terminal -> Tty \cup {NoTty}], timers : SUBSET Process]

\* initialize_bootstrap_process: the one environment that exists at start.
Bootstrap ==
  [reg |-> {Boot}, parent |-> [p \in Process |-> NoProcess],
   children |-> [p \in Process |-> {}], orphaned |-> {},
   creator |-> [p \in Process |-> NoProcess],
   teardown |-> [p \in Process |-> {}],
   group |-> [p \in Process |-> IF p = Boot THEN Boot ELSE NoProcess],
   session |-> [p \in Process |-> IF p = Boot THEN Boot ELSE NoProcess],
   uid |-> [p \in Process |-> "root"],
   pending |-> [p \in Process |-> {}], ignored |-> [p \in Process |-> {}],
   opts |-> [p \in Process |-> {}], wait |-> [p \in Process |-> BlankWait],
   resumes |-> {}, deferred |-> {}, forks |-> {}, nextFork |-> 1,
   nextToken |-> 1, terminal |-> [p \in Process |-> NoTerminal],
   tty |-> [t \in Terminal |-> NoTty], timers |-> {}]
-----------------------------------------------------------------------------
(***************************************************************************)
(* Generating signals.                                                     *)
(***************************************************************************)
Cancelled(sig) ==
  IF sig = "CONT" THEN StopSignal ELSE IF sig \in StopSignal THEN {"CONT"} ELSE {}

\* Mutant: deliveries already handed out survive a SIGCONT.
PreparedLate(w, sig) ==
  [w EXCEPT !.resumeContinued = @ \/ (sig = "CONT" /\ w.stopped)]

\* prepare_signal_generation on the wait state: SIGCONT and SIGKILL cancel
\* the stop deliveries already handed out; SIGCONT asks for the continuation.
Prepared(w, sig) ==
  [w EXCEPT !.deliveries =
              IF sig \in {"CONT", "KILL"}
                THEN {d \in @ : d.signal \notin StopSignal} ELSE @,
            !.resumeContinued = @ \/ (sig = "CONT" /\ w.stopped)]

\* enqueue_signal_with_origin for every process of T.
EnqueueAll(s, T, sig) ==
  [s EXCEPT !.pending = [p \in Process |->
                IF p \notin T THEN @[p]
                ELSE (@[p] \ Cancelled(sig))
                       \cup (IF sig \in s.ignored[p] THEN {} ELSE {sig})],
            !.wait = [p \in Process |-> IF p \in T THEN Prepared(@[p], sig) ELSE @[p]],
            !.resumes = IF sig \in {"CONT", "KILL"} THEN @ \cup T ELSE @]

Enqueue(s, p, sig) == EnqueueAll(s, {p}, sig)
-----------------------------------------------------------------------------
(***************************************************************************)
(* Images.  `nat` is the native side: nat.image[p] is the revision the     *)
(* kernel reports for p, which only exec advances.                         *)
(***************************************************************************)
\* reset_image_signals: handlers, child options and handed-out deliveries
\* belong to the old image; ignored and pending signals survive.
ResetImage(s, p) ==
  [s EXCEPT !.opts[p] = {}, !.wait[p].deliveries = {}]

\* refresh_process_image_state
RefreshImage(s, p, nat) ==
  IF nat.image[p] = s.wait[p].image THEN s
  ELSE [ResetImage(s, p) EXCEPT !.wait[p].image = nat.image[p]]

\* refresh_child_notifications_for_parent: events of an image since replaced
\* lose the suppression that image had asked for.
RefreshDeferred(s, p, nat) ==
  LET mine == {d \in s.deferred : d.parent = p}
      t == RefreshImage(s, p, nat)
      heard == \E d \in mine : ~(d.suppress /\ d.image = t.wait[p].image)
      u == IF heard THEN Enqueue(t, p, "CHLD") ELSE t
  IN  IF mine = {} THEN s ELSE [u EXCEPT !.deferred = @ \ mine]

\* The reads of the parent that precede every child event: its deferred
\* notifications, then its image.
RefreshParent(s, c, nat) ==
  IF s.parent[c] = NoProcess THEN s
  ELSE RefreshImage(RefreshDeferred(s, s.parent[c], nat), s.parent[c], nat)

\* discards_child_status
Discards(s, p) == "CHLD" \in s.ignored[p] \/ "NOCLDWAIT" \in s.opts[p]
-----------------------------------------------------------------------------
(***************************************************************************)
(* Process groups and terminals.                                           *)
(***************************************************************************)
\* non_orphaned_groups
Connected(s) ==
  {<<s.session[m], s.group[m]>> :
     m \in {q \in s.reg :
              /\ s.parent[q] # NoProcess
              /\ ~s.wait[q].exitObserved /\ ~s.wait[s.parent[q]].exitObserved
              /\ s.session[s.parent[q]] = s.session[q]
              /\ s.group[s.parent[q]] # s.group[q]}}

Members(s, session, group) ==
  {m \in s.reg : s.session[m] = session /\ s.group[m] = group}

LiveMembers(s, session, group) ==
  {m \in Members(s, session, group) : ~s.wait[m].exitObserved}

\* Mutant: the group is hung up but not continued.
NotifyOrphanedHup(s, before) ==
  LET lost == before \ Connected(s)
      hit == {m \in s.reg :
                \E g \in lost :
                  /\ m \in LiveMembers(s, g[1], g[2])
                  /\ \E q \in LiveMembers(s, g[1], g[2]) : s.wait[q].stopped}
  IN  EnqueueAll(s, hit, "HUP")

\* notify_newly_orphaned_groups: SIGHUP, then SIGCONT, to every live member of
\* a group that just lost its last connection and contains a stopped process.
NotifyOrphaned(s, before) ==
  LET lost == before \ Connected(s)
      hit == {m \in s.reg :
                \E g \in lost :
                  /\ m \in LiveMembers(s, g[1], g[2])
                  /\ \E q \in LiveMembers(s, g[1], g[2]) : s.wait[q].stopped}
  IN  EnqueueAll(EnqueueAll(s, hit, "HUP"), hit, "CONT")

\* Mutant: the foreground group outlives the session.
ReleaseTerminalPartly(s, p) ==
  IF s.terminal[p] = NoTerminal THEN s
  ELSE [s EXCEPT !.tty[s.terminal[p]].session = NoProcess, !.terminal[p] = NoTerminal]

\* release_session_terminal
ReleaseTerminal(s, p) ==
  IF s.terminal[p] = NoTerminal THEN s
  ELSE [s EXCEPT !.tty[s.terminal[p]] = NoTty, !.terminal[p] = NoTerminal]

\* hangup_exited_controlling_process
HangupTerminal(s, p) ==
  IF s.terminal[p] = NoTerminal THEN s
  ELSE LET t == s.tty[s.terminal[p]]
       IN  ReleaseTerminal(EnqueueAll(s, Members(s, t.session, t.group), "HUP"), p)
-----------------------------------------------------------------------------
(***************************************************************************)
(* Exits.                                                                  *)
(***************************************************************************)
Frozen(s, p) == \E r \in Process : p \in s.teardown[r]

\* reap_is_pinned
Pinned(s, p) == Frozen(s, p) \/ \E c \in s.children[p] : Frozen(s, c)

\* Mutants: moved children stay with their old parent, keep their announcement,
\* or include the ones a teardown holds.
ReparentTwice(s, p) ==
  LET moved == IF p = Boot \/ Boot \notin s.reg \/ Frozen(s, p) THEN {}
               ELSE {c \in s.children[p] : ~Frozen(s, c)}
  IN  [s EXCEPT !.parent = [c \in Process |-> IF c \in moved THEN Boot ELSE @[c]],
                !.children[Boot] = @ \cup moved, !.orphaned = @ \cup moved,
                !.wait = [c \in Process |->
                    IF c \in moved THEN [@[c] EXCEPT !.exitNotified = FALSE] ELSE @[c]]]

ReparentAnnounced(s, p) ==
  LET moved == IF p = Boot \/ Boot \notin s.reg \/ Frozen(s, p) THEN {}
               ELSE {c \in s.children[p] : ~Frozen(s, c)}
  IN  [s EXCEPT !.parent = [c \in Process |-> IF c \in moved THEN Boot ELSE @[c]],
                !.children = [q \in Process |->
                    IF q = p THEN @[q] \ moved
                    ELSE IF q = Boot THEN @[q] \cup moved ELSE @[q]],
                !.orphaned = @ \cup moved]

\* reparent_children_of_exited: the bootstrap process inherits every child
\* no teardown holds, and is to be told of their exits afresh.
Reparent(s, p) ==
  LET moved == IF p = Boot \/ Boot \notin s.reg \/ Frozen(s, p) THEN {}
               ELSE {c \in s.children[p] : ~Frozen(s, c)}
  IN  [s EXCEPT !.parent = [c \in Process |-> IF c \in moved THEN Boot ELSE @[c]],
                !.children = [q \in Process |->
                    IF q = p THEN @[q] \ moved
                    ELSE IF q = Boot THEN @[q] \cup moved ELSE @[q]],
                !.orphaned = @ \cup moved,
                !.wait = [c \in Process |->
                    IF c \in moved THEN [@[c] EXCEPT !.exitNotified = FALSE] ELSE @[c]]]

\* cancel_unconfirmed_resume
CancelResume(s, p) ==
  [s EXCEPT !.resumes = @ \ {p}, !.wait[p].resumeContinued = FALSE]

\* observe_process_exit once the parent has been read: mark a discarded
\* status; the first time, also retire what the process owned.
MarkDiscard(s, c) ==
  IF s.parent[c] # NoProcess /\ Discards(s, s.parent[c])
    THEN [s EXCEPT !.wait[c].discard = TRUE] ELSE s

FirstExit(s, p) ==
  LET t == HangupTerminal([s EXCEPT !.timers = @ \ {p}], p)
  IN  NotifyOrphaned(Reparent([t EXCEPT !.wait[p].exitObserved = TRUE], p),
                     Connected(s))

ObserveExit(s, p, nat) ==
  LET t == MarkDiscard(RefreshParent(CancelResume(s, p), p, nat), p)
  IN  IF t.wait[p].exitObserved THEN t ELSE FirstExit(t, p)

\* notify_parent_of_child_change; `job` is a stop or a continuation.
NotifyParent(s, c, job) ==
  IF \/ s.parent[c] = NoProcess
     \/ job /\ "NOCLDSTOP" \in s.opts[s.parent[c]]
    THEN s ELSE Enqueue(s, s.parent[c], "CHLD")

\* note_child_exited
NoteExited(s, c, nat) ==
  LET t == RefreshParent(s, c, nat)
  IN  IF t.wait[c].exitNotified THEN t
      ELSE NotifyParent([t EXCEPT !.wait[c].exitNotified = TRUE], c, FALSE)

\* reap_observed_child
ReapObserved(s, c) ==
  LET t == IF s.session[c] = c THEN ReleaseTerminal(s, c) ELSE s
  IN  [t EXCEPT !.reg = @ \ {c}, !.orphaned = @ \ {c}, !.resumes = @ \ {c},
                !.timers = @ \ {c},
                !.children[s.parent[c]] = @ \ {c},
                !.parent[c] = NoProcess, !.creator[c] = NoProcess,
                !.group[c] = NoProcess, !.session[c] = NoProcess, !.uid[c] = "root",
                !.pending[c] = {}, !.ignored[c] = {}, !.opts[c] = {},
                !.wait[c] = BlankWait,
                !.forks = {f \in @ : f.owner # c},
                !.deferred = {d \in @ : d.parent # c}]
=============================================================================
