------------------------------ MODULE MCJobsAndSockets ------------------------------
(******************************************************************************)
(* Job control, or the UNIX-domain sockets, one of them in a behaviour: two   *)
(* parts of the POSIX service that share no state.                            *)
(******************************************************************************)
EXTENDS Naturals, FiniteSetsExt

CONSTANTS Process, Terminal, Thread, JobWorkload, SocketWorkload

\* The component a behaviour runs, and that component's variables, in order.
VARIABLES part, r1, r2, r3, r4, r5, r6, r7

vars == <<part, r1, r2, r3, r4, r5, r6, r7>>

Jobs == INSTANCE MCProcessLifecycle WITH
  Boot <- 1, MaxImage <- 1, MaxToken <- 2, MaxFork <- 3, Workload <- JobWorkload, s <- r1,
  nat <- r2, waits <- r3, stage <- r4, todo <- r5, job <- r6, load <- r7
Sockets == INSTANCE SocketWorker WITH
  Workload <- SocketWorkload, Capacity <- 2, MaxMarkers <- 2, MaxRecords <- 2,
  MaxRecord <- 2, MaxEndpoints <- 5, MaxId <- 20, MaxJobs <- 2, MaxWaits <- 2,
  MaxRoute <- 2, RightsLimit <- 3, w <- r1, held <- r2, path <- r3, late <- r4, load <- r5

\* The same modules without a workload, for the definitions of the workloads.
JobsLoads == INSTANCE MCProcessLifecycle WITH
  Process <- Process, Boot <- 1, Terminal <- Terminal, Thread <- Thread, MaxImage <- 1,
  MaxToken <- 2, MaxFork <- 3, Workload <- {}, s <- r1, nat <- r2, waits <- r3,
  stage <- r4, todo <- r5, job <- r6, load <- r7
SocketsLoads == INSTANCE SocketWorker WITH
  Workload <- {}, Capacity <- 2, MaxMarkers <- 2, MaxRecords <- 2, MaxRecord <- 2,
  MaxEndpoints <- 5, MaxId <- 20, MaxJobs <- 2, MaxWaits <- 2, MaxRoute <- 2,
  RightsLimit <- 3, w <- r1, held <- r2, path <- r3, late <- r4, load <- r5

JobWorkload_ == JobsLoads!JobControl

NoSockets == SocketsLoads!Fresh
Socket(kind, peer) == SocketsLoads!Endpoint(kind, peer)
With(v, ids) == SocketsLoads!Publish([v EXCEPT !.next = Max(DOMAIN v.sock) + 1], ids)

\* Sockets 1 (bound, listening with a backlog of one), 2 and 3 (clients).
Server(kind) ==
  With([NoSockets EXCEPT !.sock = [i \in 1..3 |-> IF i = 1 THEN [Socket(kind, 0) EXCEPT !.backlog = 1]
                                                  ELSE Socket(kind, 0)],
                         !.bind = {1}], 1..3)
\* One or two connected pairs.
Pairs(kind, n) ==
  With([NoSockets EXCEPT !.sock = [i \in 1..(2 * n) |->
                                 Socket(kind, IF i % 2 = 1 THEN i + 1 ELSE i - 1)]], 1..(2 * n))
\* Three datagram sockets, the first bound.
Boxes ==
  With([NoSockets EXCEPT !.sock = [i \in 1..3 |-> Socket("datagram", 0)], !.bind = {1}], 1..3)

Load(ops, start, descriptors, inode, sizes, ids, rights, transfers) ==
  [start |-> start, held |-> descriptors, path |-> inode,
   env |-> [ops |-> ops, size |-> sizes, ids |-> ids, rights |-> rights, transfers |-> transfers]]

SocketWorkload_ ==
  [Accept |-> Load({"connect", "accept", "close", "listen"}, Server("stream"), 1..3, 1, {1}, 6, {}, 0),
   Packet |-> Load({"connect", "accept", "close", "write", "read"}, Server("packet"), 1..2, 1,
                   {0, 2}, 7, {}, 0),
   Names |-> Load({"create", "bind", "listen", "connect", "close"}, NoSockets, {}, 0, {1}, 2, {}, 0),
   Bytes |-> Load({"write", "read", "wait", "close"}, Pairs("stream", 1), 1..2, 0, {1, 2}, 2, {}, 0),
   Ends |-> Load({"write", "read", "shutdown", "capacity", "control", "close"}, Pairs("stream", 1), 1..2, 0, {1, 2}, 2, {}, 0),
   Boxes |-> Load({"write", "read", "peer", "close", "bind"}, Boxes, 1..3, 1, {2}, 3, {}, 0),
   Waits |-> Load({"write", "read", "peer", "wait", "close"}, Boxes, 1..2, 1, {1, 2}, 3, {}, 0),
   Routes |-> Load({"read", "route", "peer", "close"}, Boxes, 1..2, 1, {1, 2}, 3, {}, 0),
   Cycles |-> Load({"transfer", "receive", "close"}, Pairs("stream", 1), 1..2, 0, {1}, 2, {1}, 2),
   Letters |-> Load({"transfer", "receive", "close"}, Pairs("datagram", 1), 1..2, 0, {1}, 2, {1}, 3),
   Marks |-> Load({"transfer", "read", "write"}, Pairs("stream", 1), 1..2, 0, {1, 2}, 2, {1}, 2),
   Bundles |-> Load({"transfer", "receive"}, Pairs("stream", 1), {1, 2}, 0,
                  {1}, 2, {0, 1, 2}, 2),
   Backlog |-> Load({"connect", "accept", "close", "transfer"}, Server("stream"), 1..2, 1, {1}, 4, {1}, 1),
   Routed |-> Load({"transfer", "route", "close"}, Boxes, {2}, 1, {1}, 3, {1}, 2)]

Unused == "unused"

\* The registers a component has no variable for.
IdleFrom7 == r7 = Unused
IdleFrom6 == r6 = Unused /\ IdleFrom7

Init ==
  \/ part = "jobs" /\ Jobs!Init
  \/ part = "sockets" /\ Sockets!Init /\ IdleFrom6

JobsStep == part = "jobs" /\ Jobs!Next /\ UNCHANGED <<part>>
SocketsStep == part = "sockets" /\ Sockets!Next /\ UNCHANGED <<part, r6, r7>>

Next == JobsStep \/ SocketsStep

Spec == Init /\ [][Next]_vars

\* Process groups, sessions and controlling terminals agree, and no process
\* stopped by the keyboard or the terminal is left stopped in an orphaned group; a stop
\* generated before a SIGCONT never takes effect after it (TypeOK, JobsConsistent,
\* NotStranded and NoStopAcrossContinue of ProcessLifecycle).
JobsSound ==
  part = "jobs" =>
    Jobs!TypeOK /\ Jobs!JobsConsistent /\ Jobs!NotStranded /\ Jobs!NoStopAcrossContinue

\* Peers, listeners and their backlogs agree, and a queue's markers, charges and
\* rights are those of the bytes it holds (PeersAgree and QueuesExact of SocketWorker).
ConnectionsExact == part = "sockets" => Sockets!PeersAgree /\ Sockets!QueuesExact

\* The published readiness levels are the ones the queues justify, and no waiting
\* call sleeps on a condition that holds (LevelsPublished and NoneStranded).
SocketsServed == part = "sockets" => Sockets!LevelsPublished /\ Sockets!NoneStranded

\* A collection of rights in flight discards only what nobody can receive, and
\* all of it when nothing makes it give up (CollectsGarbage of SocketWorker).
CollectsGarbage == [][part = "sockets" => Sockets!CollectsGarbage]_vars
==============================================================================
