--------------------------------- MODULE MCProgress ---------------------------------
(******************************************************************************)
(* The main loop of the POSIX service with the fairness its scheduling gives  *)
(* it: record locks, or processes and waits, one of them in a behaviour.      *)
(******************************************************************************)

CONSTANTS p1, p2, t1, t2, t3, LockOwners, LockFiles, LockCallers, LockMortals, LockThreads,
          LockRequests, Process, Thread, LifeWorkload

\* The component a behaviour runs, and that component's variables, in order.
VARIABLES part, r1, r2, r3, r4, r5, r6, r7, r8, r9, r10

vars == <<part, r1, r2, r3, r4, r5, r6, r7, r8, r9, r10>>

Locks == INSTANCE RecordLockService WITH
  Process <- LockOwners, File <- LockFiles, END <- 1, MAX_LOCKS <- 2,
  MAX_LOCKS_PER_PROCESS <- 1, Thread <- LockCallers, ProcessOf <- LockThreads,
  Request <- LockRequests, Unreadable <- {}, Mortal <- LockMortals, MAX_WAITERS <- 2,
  MAX_WAITERS_PER_PROCESS <- 1, MAX_PREPARATIONS <- 1, MaxToken <- 2, MaxImage <- 1,
  MaxEpoch <- 1, svc <- r1, epoch <- r2, image <- r3, alive <- r4, threads <- r5,
  stage <- r6, call <- r7, staged <- r8, jobs <- r9, todo <- r10
Life == INSTANCE MCProcessLifecycle WITH
  Boot <- 1, Terminal <- {}, MaxImage <- 1, MaxToken <- 0, MaxFork <- 3,
  Workload <- LifeWorkload, s <- r1, nat <- r2, waits <- r3, stage <- r4, todo <- r5,
  job <- r6, load <- r7

\* The same modules without a workload, for the definitions of the workloads.
LifeLoads == INSTANCE MCProcessLifecycle WITH
  Process <- Process, Boot <- 1, Terminal <- {}, Thread <- Thread, MaxImage <- 1,
  MaxToken <- 0, MaxFork <- 3, Workload <- {}, s <- r1, nat <- r2, waits <- r3,
  stage <- r4, todo <- r5, job <- r6, load <- r7

LockThreads_ == [t \in LockCallers |-> IF t = t3 THEN p2 ELSE p1]
LockRequests_ ==
       [op : {"wait"}, file : LockFiles, kind : {"write"}, range : {[start |-> 0, end |-> 1]},
        late : {FALSE}]
  \cup [op : {"release"}, file : LockFiles]
  \cup [op : {"prepare"}, files : {LockFiles}]
  \cup [op : {"interrupt"}, target : {t1}]
LifeWorkload_ == LifeLoads!Steady

Unused == "unused"

\* The registers a component has no variable for.
IdleFrom10 == r10 = Unused
IdleFrom9 == r9 = Unused /\ IdleFrom10
IdleFrom8 == r8 = Unused /\ IdleFrom9

Init ==
  \/ part = "locks" /\ Locks!Init
  \/ part = "life" /\ Life!Init /\ IdleFrom8

LocksStep == part = "locks" /\ Locks!Next /\ UNCHANGED <<part>>
LifeStep == part = "life" /\ Life!Next /\ UNCHANGED <<part, r8, r9, r10>>

Next == LocksStep \/ LifeStep

Spec == Init /\ [][Next]_vars
\* The loop thread of the POSIX service, in either part of it.
FairSpec ==
  /\ Spec
  /\ WF_<<r6, r10>>(part = "locks" /\ Locks!Progress)
  /\ WF_<<r4, r5>>(part = "life" /\ Life!Progress)

\* A deferred lock call is answered once its lock is free or its thread is
\* interrupted, and the locks of dead and of replaced images are released
\* (CallsAnswered and DeadLocksRelease of RecordLockService).
LockCallsServed ==
  /\ \A t \in LockCallers :
       /\ (part = "locks" /\ Locks!SomeLockable(t)) ~> (part = "locks" => Locks!AllBlocked(t))
       /\ (part = "locks" /\ Locks!Interrupted(t)) ~> (part = "locks" => ~Locks!Interrupted(t))
  /\ \A p \in LockOwners :
       /\ (part = "locks" /\ Locks!DeadHolds(p)) ~> (part = "locks" => ~Locks!DeadHolds(p))
       /\ (part = "locks" /\ Locks!ReplacedHolds(p)) ~> (part = "locks" => ~Locks!ReplacedHolds(p))

\* Exited orphans are reaped, blocked waits answered and queued resumes carried
\* out (OrphansReaped, WaitsAnswered and ResumesApplied of ProcessLifecycle).
ProcessesServed ==
  \A p \in Process :
    /\ (part = "life" /\ Life!ExitedOrphan(p)) ~> (part = "life" => Life!Gone(p))
    /\ (part = "life" /\ Life!Resuming(p)) ~> (part = "life" => ~Life!Resuming(p))
    /\ \A t \in Thread :
         (part = "life" /\ Life!Answerable(t, p)) ~> (part = "life" => Life!Answered(t, p))
==============================================================================
