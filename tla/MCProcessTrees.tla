------------------------------- MODULE MCProcessTrees -------------------------------
(******************************************************************************)
(* The processes of the system, one view of them in a behaviour: the process  *)
(* table of the POSIX service with its trees, the record locks that processes *)
(* wait for, or the start of the system by the service manager.               *)
(******************************************************************************)
EXTENDS Naturals, TLC

CONSTANTS Process, Terminal, Thread, TreeWorkload, p1, p2, p3, t1, t2, t3, Waiters,
          WaitFiles, WaitCallers, WaitThreads, WaitRequests

\* The component a behaviour runs, and that component's variables, in order.
VARIABLES part, r1, r2, r3, r4, r5, r6, r7, r8, r9, r10, r11, r12, r13

vars == <<part, r1, r2, r3, r4, r5, r6, r7, r8, r9, r10, r11, r12, r13>>

Trees == INSTANCE MCProcessLifecycle WITH
  Boot <- 1, MaxImage <- 1, MaxToken <- 0, MaxFork <- 3, Workload <- TreeWorkload, s <- r1,
  nat <- r2, waits <- r3, stage <- r4, todo <- r5, job <- r6, load <- r7
Booting == INSTANCE Bootstrap WITH
  install <- r1, pc <- r2, outcome <- r3, children <- r4, dead <- r5, sent <- r6,
  inbox <- r7, hand <- r8, runtime <- r9, driver <- r10, failed <- r11, open <- r12,
  next <- r13
Waits == INSTANCE RecordLockList WITH
  Process <- Waiters, File <- WaitFiles, END <- 3, MAX_LOCKS <- 6,
  MAX_LOCKS_PER_PROCESS <- 3, Thread <- WaitCallers, ProcessOf <- WaitThreads,
  Request <- WaitRequests, MAX_WAITERS <- 3, MaxToken <- 3, Unreadable <- {}, Mortal <- {},
  MAX_WAITERS_PER_PROCESS <- 1, MAX_PREPARATIONS <- 1, MaxImage <- 0, MaxEpoch <- 0,
  svc <- r1, epoch <- r2, image <- r3, alive <- r4, threads <- r5, stage <- r6, call <- r7,
  staged <- r8, jobs <- r9, todo <- r10

\* The same modules without a workload, for the definitions of the workloads.
TreesLoads == INSTANCE MCProcessLifecycle WITH
  Process <- Process, Boot <- 1, Terminal <- Terminal, Thread <- Thread, MaxImage <- 1,
  MaxToken <- 0, MaxFork <- 3, Workload <- {}, s <- r1, nat <- r2, waits <- r3,
  stage <- r4, todo <- r5, job <- r6, load <- r7

TreeWorkload_ == TreesLoads!Trees

Byte(b) == [start |-> b, end |-> b + 1]

\* Three single-threaded processes and one file of three bytes locked one at a
\* time, so that cycles of two and of three processes can close.
WaitThreads_ == [t \in WaitCallers |-> CASE t = t1 -> p1 [] t = t2 -> p2 [] t = t3 -> p3]
WaitRequests_ ==
       [op : {"wait"}, file : WaitFiles, kind : {"write"}, range : {Byte(b) : b \in 0..2},
        late : {FALSE}]
  \cup [op : {"wait"}, file : WaitFiles, kind : {"read"}, range : {Byte(0)}, late : {FALSE}]
  \cup [op : {"release"}, file : WaitFiles]

\* These processes are interchangeable together with their threads.
ThreadOf(p) == CASE p = p1 -> t1 [] p = p2 -> t2 [] p = p3 -> t3
ProcessOf(t) == CASE t = t1 -> p1 [] t = t2 -> p2 [] t = t3 -> p3
JointSymmetry ==
  {[x \in Waiters \cup WaitCallers |-> IF x \in Waiters THEN q[x] ELSE ThreadOf(q[ProcessOf(x)])] :
   q \in Permutations(Waiters)}

Unused == "unused"

\* The registers a component has no variable for.
IdleFrom13 == r13 = Unused
IdleFrom12 == r12 = Unused /\ IdleFrom13
IdleFrom11 == r11 = Unused /\ IdleFrom12
IdleFrom10 == r10 = Unused /\ IdleFrom11
IdleFrom9 == r9 = Unused /\ IdleFrom10
IdleFrom8 == r8 = Unused /\ IdleFrom9

Init ==
  \/ part = "trees" /\ Trees!Init /\ IdleFrom8
  \/ part = "boot" /\ Booting!BootInit
  \/ part = "waits" /\ Waits!Init /\ IdleFrom11

TreesStep == part = "trees" /\ Trees!Next /\ UNCHANGED <<part, r8, r9, r10, r11, r12, r13>>
BootingStep == part = "boot" /\ Booting!BootNext /\ UNCHANGED <<part>>
WaitsStep == part = "waits" /\ Waits!Next /\ UNCHANGED <<part, r11, r12, r13>>

Next == TreesStep \/ BootingStep \/ WaitsStep

Spec == Init /\ [][Next]_vars

\* The parent and children maps are one tree, each process's usage is credited once,
\* and a frozen tree is closed and held by one teardown (TreeConsistent and
\* FrozenClosed of ProcessLifecycle).
TreesClosed == part = "trees" => Trees!TypeOK /\ Trees!TreeConsistent /\ Trees!FrozenClosed

\* exit_notified stands for a SIGCHLD the present parent was sent, and a child leaves
\* only when its status was consumed, discarded or nobody's to consume (ExitAnnounced
\* and StatusNotLost of ProcessLifecycle).
ExitsObserved == [][part = "trees" => Trees!ExitAnnounced /\ Trees!StatusNotLost]_vars

\* Every endpoint a message brought is closed or kept in exactly one place, whichever
\* wait received it (EndpointsAccounted of Bootstrap).
EndpointsAccounted == part = "boot" => Booting!EndpointsAccounted

\* No cycle of waiting calls forms, and the search that refuses the call that
\* would close one finds it, within its arrays (record_lock_wait.rs).
CyclesRefused == part = "waits" => Waits!CyclesRefused
==============================================================================
