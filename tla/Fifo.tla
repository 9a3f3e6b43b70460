--------------------------------- MODULE Fifo ---------------------------------
(***************************************************************************)
(* The FIFO worker of posix.service (posix/src/fifo.rs, fifo_manager.rs,   *)
(* fifo_provider.rs, fifo_wait.rs, fifo_wait_ipc.rs, fifo_native.rs).  One *)
(* thread serves, in order of arrival, openings of FIFO inodes, reads and  *)
(* writes on the descriptions, one-shot wait registrations, and the        *)
(* kernel's release message for an object whose last native reference is   *)
(* gone.                                                                   *)
(*                                                                         *)
(* Bytes are counted, not stored.  A reference to a data object is held by *)
(* a client or, as a lease, by a wait registered on it; a notification     *)
(* object is held by a client.                                             *)
(***************************************************************************)
EXTENDS Naturals, FiniteSets, Functions

CONSTANTS Inode,      \* FIFO inodes, one channel each
          Capacity,   \* BUFFER_CAPACITY
          PipeBuf,    \* PIPE_BUF: writes up to this length are all or none
          MaxOpens,   \* bound on object ids ever used
          MaxJobs     \* bound on notification ids ever used

ASSUME FifoAssumption == Capacity \in Nat /\ PipeBuf \in Nat

VARIABLES data,     \* inode -> bytes queued (0 when the channel is gone)
          opens,    \* object -> [inode, access, ready, seen, client]
          jobs,     \* job -> [object, condition, ready, client]
          level,    \* object -> native signals last published
          woken,    \* jobs whose notification was signalled
          lastOpen, lastJob

fifoVars == <<data, opens, jobs, level, woken, lastOpen, lastJob>>

FifoInit == /\ data = [i \in Inode |-> 0]
            /\ opens = <<>> /\ jobs = <<>> /\ level = <<>> /\ woken = {}
            /\ lastOpen = 0 /\ lastJob = 0

----------------------------------------------------------------------------
\* Channel observations.

Of(os, i, access) == {o \in DOMAIN os : os[o].inode = i /\ os[o].access = access}

\* Channel::readiness.
Readiness(os, d, o) ==
    LET e == os[o]
        noWriter == Of(os, e.inode, "write") = {}
        noReader == Of(os, e.inode, "read") = {}
    IN  [readable |-> e.ready /\ e.access = "read" /\ d[e.inode] > 0,
         writable |-> e.ready /\ e.access = "write" /\ ~noReader /\ d[e.inode] < Capacity,
         eof      |-> e.ready /\ e.access = "read" /\ noWriter,
         hangup   |-> e.ready /\ e.access = "read" /\ e.seen /\ noWriter,
         broken   |-> e.ready /\ e.access = "write" /\ noReader]

\* native_signals.
Signals(r) == (IF r.readable \/ r.eof THEN {"readable"} ELSE {})
              \cup (IF r.writable \/ r.broken THEN {"writable"} ELSE {})
              \cup (IF r.hangup \/ r.broken THEN {"closed"} ELSE {})

\* wait_ready; a condition is <<"open">>, <<"read">> or <<"write", length>>.
WaitReady(os, d, o, condition) ==
    LET r == Readiness(os, d, o) IN
    \/ condition[1] = "open" /\ os[o].ready
    \/ condition[1] = "read" /\ (r.readable \/ r.eof)
    \/ /\ condition[1] = "write" /\ os[o].ready
       /\ \/ r.broken
          \/ (IF condition[2] <= PipeBuf THEN condition[2] ELSE 1)
               <= Capacity - d[os[o].inode]

\* The conditions a description of each direction may wait for.
Conditions(access) == {<<"open">>} \cup
    (IF access = "read" THEN {<<"read">>}
     ELSE {<<"write", n>> : n \in 1..(PipeBuf + 1)})

----------------------------------------------------------------------------
\* What follows every mutation of a channel, before the reply.

\* visit_signals: publish the levels of the changed channel's descriptions.
VisitSignals(os, d, i) ==
    [o \in DOMAIN os |-> IF os[o].inode = i \/ o \notin DOMAIN level
                         THEN Signals(Readiness(os, d, o)) ELSE level[o]]

\* A pump that looks at readers only.
PumpActing(os, d, js, i) ==
    [j \in DOMAIN js |->
       IF os[js[j].object].inode = i /\ os[js[j].object].access = "read"
       THEN [js[j] EXCEPT !.ready = @ \/ WaitReady(os, d, js[j].object, js[j].condition)]
       ELSE js[j]]

\* Waits::pump: latch what became ready on the channel, signal all of it.
Pump(os, d, js, i) ==
    [j \in DOMAIN js |->
       IF os[js[j].object].inode = i
       THEN [js[j] EXCEPT !.ready = @ \/ WaitReady(os, d, js[j].object, js[j].condition)]
       ELSE js[j]]

Changed(os, d, i) ==
    /\ opens' = os
    /\ data' = d
    /\ level' = VisitSignals(os, d, i)
    /\ jobs' = Pump(os, d, jobs, i)
    /\ woken' = woken \cup {j \in DOMAIN jobs' : jobs'[j].ready}

----------------------------------------------------------------------------
\* Requests.

Opposite(access) == IF access = "read" THEN "write" ELSE "read"

\* Channel::open: the new description and every opposite one rendezvous.
Joined(i, access, nonblocking, client) ==
    LET met == Of(opens, i, Opposite(access)) # {}
        new == [inode |-> i, access |-> access, ready |-> nonblocking \/ met,
                seen |-> access = "read" /\ met, client |-> client]
    IN  [o \in DOMAIN opens \cup {lastOpen + 1} |->
           IF o = lastOpen + 1 THEN new
           ELSE IF opens[o].inode = i /\ opens[o].access # access
           THEN [opens[o] EXCEPT !.ready = TRUE,
                                 !.seen = @ \/ access = "write"]
           ELSE opens[o]]

\* Manager::open: a nonblocking writer needs a reader.
OpenRefused(i, access, nonblocking) ==
    access = "write" /\ nonblocking /\ Of(opens, i, "read") = {}

\* fifo_native::run: the reply that carries the only reference may be lost.  A
\* failed object creation uses up the id and changes nothing else.
Register ==
    \E i \in Inode, access \in {"read", "write"}, nonblocking, created, delivered \in BOOLEAN :
       /\ lastOpen < MaxOpens
       /\ ~OpenRefused(i, access, nonblocking)
       /\ lastOpen' = lastOpen + 1
       /\ IF created THEN Changed(Joined(i, access, nonblocking, delivered), data, i)
          ELSE UNCHANGED <<opens, data, level, jobs, woken>>
       /\ UNCHANGED lastJob

\* Waits::register: a condition that holds already is latched at once.
WaitJob(o, condition, delivered) ==
    [object |-> o, condition |-> condition, client |-> delivered,
     ready |-> WaitReady(opens, data, o, condition)]

\* fifo_wait_ipc::serve: a client that holds the description waits on it.
RegisterWait ==
    \E o \in DOMAIN opens : \E condition \in Conditions(opens[o].access), delivered \in BOOLEAN :
       LET job == WaitJob(o, condition, delivered) IN
       /\ opens[o].client
       /\ lastJob < MaxJobs
       /\ lastJob' = lastJob + 1
       /\ jobs' = [j \in DOMAIN jobs \cup {lastJob'} |-> IF j = lastJob' THEN job ELSE jobs[j]]
       /\ woken' = IF job.ready THEN woken \cup {lastJob'} ELSE woken
       /\ UNCHANGED <<data, opens, level, lastOpen>>

\* handle_provider_request: a transfer is for a ready description of its direction.
CanTransfer(o, access) == opens[o].client /\ opens[o].access = access /\ opens[o].ready

\* OP_READ: at end of stream it returns nothing; a queue that is empty while
\* a writer exists would block.
ReadFifo ==
    \E o \in DOMAIN opens, n \in 1..Capacity :
       LET i == opens[o].inode
           count == IF n < data[i] THEN n ELSE data[i]
       IN
       /\ CanTransfer(o, "read")
       /\ data[i] > 0
       /\ Changed(opens, [data EXCEPT ![i] = @ - count], i)
       /\ UNCHANGED <<lastOpen, lastJob>>

WriteFifo ==
    \E o \in DOMAIN opens, n \in 1..(PipeBuf + 1) :
       LET i == opens[o].inode
           available == Capacity - data[i]
       IN
       /\ CanTransfer(o, "write")
       /\ Of(opens, i, "read") # {}
       /\ available > 0 /\ (n <= PipeBuf => n <= available)
       /\ Changed(opens, [data EXCEPT ![i] = @ + (IF n < available THEN n ELSE available)], i)
       /\ UNCHANGED <<lastOpen, lastJob>>

----------------------------------------------------------------------------
\* References and releases.

Leased(o) == \E j \in DOMAIN jobs : jobs[j].object = o

CloseData == \E o \in DOMAIN opens :
    /\ opens[o].client
    /\ opens' = [opens EXCEPT ![o].client = FALSE]
    /\ UNCHANGED <<data, jobs, level, woken, lastOpen, lastJob>>

CloseNotification == \E j \in DOMAIN jobs :
    /\ jobs[j].client
    /\ jobs' = [jobs EXCEPT ![j].client = FALSE]
    /\ UNCHANGED <<data, opens, level, woken, lastOpen, lastJob>>

Without(f, x) == Restrict(f, DOMAIN f \ {x})

\* Channel::close: the last description of the inode takes the bytes with it.
Closed(os, i) == IF \A o \in DOMAIN os : os[o].inode # i
                 THEN [data EXCEPT ![i] = 0] ELSE data

\* OP_RELEASE of a data object, sent once nothing refers to it.
ReleaseData == \E o \in DOMAIN opens :
    LET left == Without(opens, o) IN
    /\ ~opens[o].client /\ ~Leased(o)
    /\ Changed(left, Closed(left, opens[o].inode), opens[o].inode)
    /\ UNCHANGED <<lastOpen, lastJob>>

\* OP_RELEASE of a notification: Waits::release drops the lease.
ReleaseJob == \E j \in DOMAIN jobs :
    /\ ~jobs[j].client
    /\ jobs' = Without(jobs, j)
    /\ woken' = woken \ {j}
    /\ UNCHANGED <<data, opens, level, lastOpen, lastJob>>

FifoNext == \/ Register \/ RegisterWait \/ ReadFifo \/ WriteFifo
            \/ CloseData \/ CloseNotification \/ ReleaseData \/ ReleaseJob

FifoSpec == FifoInit /\ [][FifoNext]_fifoVars

----------------------------------------------------------------------------
\* No wake-up is lost: a wait whose condition holds has been signalled,
\* whichever operation of whichever client made it hold; the level each
\* description publishes is the one its channel is in; and a wait keeps the
\* description it is about (visit_signals, pump, register, and the lease).
FifoWakes ==
    /\ \A j \in DOMAIN jobs :
         /\ jobs[j].object \in DOMAIN opens
         /\ WaitReady(opens, data, jobs[j].object, jobs[j].condition) => j \in woken
    /\ \A o \in DOMAIN opens : level[o] = Signals(Readiness(opens, data, o))
    /\ \A i \in Inode : data[i] > 0 => \E o \in DOMAIN opens : opens[o].inode = i
=============================================================================
