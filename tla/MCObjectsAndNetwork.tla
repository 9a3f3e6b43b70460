---------------------------- MODULE MCObjectsAndNetwork ----------------------------
(******************************************************************************)
(* The other objects of the POSIX service and the network service, one        *)
(* component in a behaviour: FIFOs, terminals, shared memory and semaphores,  *)
(* Internet sockets, the resolver, TLS and HTTP sessions, the IP stack.  The  *)
(* components share no state the models keep.                                 *)
(******************************************************************************)
EXTENDS Fifo, SharedObjects

CONSTANTS Modes, Sane, TerminalWorkload, StreamWorkload, Peer, Host, Asked, Client, NextHop

\* The component a behaviour runs, and that component's variables, in order.
VARIABLES part, r1, r2, r3, r4, r5, r6, r7, r8, r9, r10, r11, r12, r13

vars == <<part, r1, r2, r3, r4, r5, r6, r7, r8, r9, r10, r11, r12, r13, fifoVars,
          sharedVars>>

registers == <<r1, r2, r3, r4, r5, r6, r7, r8, r9, r10, r11, r12, r13>>

Terminals == INSTANCE Pty WITH
  Cap <- 2, Workload <- TerminalWorkload, term <- r1, objects <- r2, factories <- r3,
  metadata <- r4, native <- r5, releases <- r6, level <- r7, opener <- r8, node <- r9,
  retiring <- r10, hung <- r11, next <- r12, load <- r13
Tcp == INSTANCE TcpStreams WITH
  Workload <- StreamWorkload, net <- r1, tcb <- r2, row <- r3, job <- r4, held <- r5,
  closing <- r6, up <- r7, work <- r8, nextSock <- r9, nextTcb <- r10, events <- r11,
  load <- r12
Udp == INSTANCE InetDatagrams WITH
  TransmitLimit <- 2, QueueLimit <- 2, MaxRecord <- 4, desc <- r1, object <- r2,
  wire <- r3, accepted <- r4, arrived <- r5, taken <- r6, next <- r7
Dns == INSTANCE Resolver WITH
  Name <- Host, RetryLimit <- 1, JobLimit <- 2, MaxSockets <- 2, MaxQuery <- 2,
  MaxChange <- 2, config <- r1, dns <- r2, pending <- r3, answered <- r4, object <- r5,
  sync <- r6, next <- r7
Sessions == INSTANCE NetworkSessions WITH
  MaxRows <- 2, TlsLimit <- 1, HttpLimit <- 1, MaxRedirects <- 1, MaxHandle <- 5,
  net <- r1, sessions <- r2, responses <- r3, known <- r4
Ip == INSTANCE IpStack WITH
  Hop <- NextHop, QueueLimit <- 2, MaxRetries <- 1, MaxPacket <- 4, lease <- r1, arp <- r2,
  queue <- r3, sent <- r4, ping <- r5, next <- r6

\* The terminal's line editing, its flow control, or the life of its objects.
Base == {"ICANON", "ECHO", "ECHOE", "IXON", "ISIG", "IEXTEN", "ONLCR"}
Modes_ == {Base, Base \cup {"IXANY", "NOFLSH"}, Base \ {"ECHO"}, {"ECHO", "ISIG"}, {}}
TerminalWorkload_ ==
  [line |-> [bytes |-> {"data", "newline", "eof", "erase", "kill", "werase",
                        "reprint", "lnext", "intr", "stop", "start"},
             modes |-> {Base, Base \ {"ECHO"}, {"ECHO", "ISIG"}}, flows |-> {}, objects |-> 3],
   flow |-> [bytes |-> {"data", "newline", "intr", "stop", "start"},
             modes |-> {Base, Base \cup {"IXANY", "NOFLSH"}, {}},
             flows |-> {"output_stop", "output_start", "input_stop"}, objects |-> 3],
   life |-> [bytes |-> {"data"}, modes |-> {}, flows |-> {"output_stop"}, objects |-> 4]]

\* One socket that connects, or a listener and what it accepts.
StreamWorkload_ ==
  {[sockets |-> 1, connections |-> 1, events |-> 4, connects |-> TRUE,
    takes |-> {"ok", "kept", "lost"}],
   [sockets |-> 2, connections |-> 2, events |-> 3, connects |-> FALSE,
    takes |-> {"ok", "lost"}]}

Unused == "unused"

\* The registers a component has no variable for.
IdleFrom13 == r13 = Unused
IdleFrom12 == r12 = Unused /\ IdleFrom13
IdleFrom11 == r11 = Unused /\ IdleFrom12
IdleFrom10 == r10 = Unused /\ IdleFrom11
IdleFrom9 == r9 = Unused /\ IdleFrom10
IdleFrom8 == r8 = Unused /\ IdleFrom9
IdleFrom7 == r7 = Unused /\ IdleFrom8
IdleFrom6 == r6 = Unused /\ IdleFrom7
IdleFrom5 == r5 = Unused /\ IdleFrom6
IdleFrom4 == r4 = Unused /\ IdleFrom5
IdleFrom3 == r3 = Unused /\ IdleFrom4
IdleFrom2 == r2 = Unused /\ IdleFrom3
IdleFrom1 == r1 = Unused /\ IdleFrom2

\* An extended component that does not run stays as it starts.
FifoIdle == FifoInit
SharedIdle == SharedInit

Init ==
  \/ part = "pty" /\ Terminals!Init /\ FifoIdle /\ SharedIdle
  \/ part = "tcp" /\ Tcp!TcpInit /\ IdleFrom13 /\ FifoIdle /\ SharedIdle
  \/ part = "udp" /\ Udp!DatagramInit /\ IdleFrom8 /\ FifoIdle /\ SharedIdle
  \/ part = "dns" /\ Dns!ResolverInit /\ IdleFrom8 /\ FifoIdle /\ SharedIdle
  \/ part = "sessions" /\ Sessions!SessionsInit /\ IdleFrom5 /\ FifoIdle /\ SharedIdle
  \/ part = "ip" /\ Ip!IpInit /\ IdleFrom7 /\ FifoIdle /\ SharedIdle
  \/ part = "fifo" /\ FifoInit /\ IdleFrom1 /\ SharedIdle
  \/ part = "shared" /\ SharedInit /\ IdleFrom1 /\ FifoIdle

TerminalsStep == part = "pty" /\ Terminals!PtyNext /\ UNCHANGED <<part, fifoVars, sharedVars>>
TcpStep == part = "tcp" /\ Tcp!TcpNext /\ UNCHANGED <<part, r13, fifoVars, sharedVars>>
UdpStep == part = "udp" /\ Udp!DatagramNext /\ UNCHANGED <<part, r8, r9, r10, r11, r12, r13, fifoVars, sharedVars>>
DnsStep == part = "dns" /\ Dns!ResolverNext /\ UNCHANGED <<part, r8, r9, r10, r11, r12, r13, fifoVars, sharedVars>>
SessionsStep == part = "sessions" /\ Sessions!SessionsNext /\ UNCHANGED <<part, r5, r6, r7, r8, r9, r10, r11, r12, r13, fifoVars, sharedVars>>
IpStep == part = "ip" /\ Ip!IpNext /\ UNCHANGED <<part, r7, r8, r9, r10, r11, r12, r13, fifoVars, sharedVars>>
FifoStep == part = "fifo" /\ FifoNext /\ UNCHANGED <<part, registers, sharedVars>>
SharedStep == part = "shared" /\ SharedNext /\ UNCHANGED <<part, registers, fifoVars>>

Next == TerminalsStep \/ TcpStep \/ UdpStep \/ DnsStep \/ SessionsStep \/ IpStep \/ FifoStep \/
        SharedStep

Spec == Init /\ [][Next]_vars

\* Whatever is typed, read, flushed or changed, a terminal's queues account for every
\* byte, the table of its ends and factories agrees with itself, and the kernel shows
\* the level each end is ready for (the three invariants of Pty).
TerminalsSound ==
  part = "pty" =>
    Terminals!PtyQueuesExact /\ Terminals!PtyObjectsOwned /\ Terminals!PtyLevelsPublished

\* No lookup is lost, answered twice or left behind, and what was learned on one
\* network is not used on another (QueriesOwned and CacheCurrent of Resolver).
ResolverSound == part = "dns" => Dns!QueriesOwned /\ Dns!CacheCurrent

\* A connect has one outcome, the one its stream came to; no connection leaks or is
\* shared; no readiness is lost between the services; datagrams are sent, and received
\* once, in order; every live connection belongs to one client or one TLS session of
\* it, on every path of a request; and packets to one hop leave in the order they were
\* accepted (ConnectsExact, StreamsOwned and StreamLevelsPublished of TcpStreams,
\* DatagramsExact of InetDatagrams, SessionsOwned of NetworkSessions, PacketsOrdered of
\* IpStack).
NetworkSound ==
  /\ part = "tcp" => Tcp!ConnectsExact /\ Tcp!StreamsOwned /\ Tcp!StreamLevelsPublished
  /\ part = "udp" => Udp!DatagramsExact
  /\ part = "sessions" => Sessions!SessionsOwned
  /\ part = "ip" => Ip!PacketsOrdered
==============================================================================
