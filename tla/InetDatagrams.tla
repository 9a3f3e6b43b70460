----------------------------- MODULE InetDatagrams -----------------------------
(***************************************************************************)
(* A UDP description of the POSIX socket worker (inet_datagram.rs,         *)
(* inet_socket.rs) over a packet object of network.service (datagram.rs,   *)
(* datagram_provider.rs).  The worker calls the network synchronously and  *)
(* forwards the levels it finds there; the network's loop transmits,       *)
(* receives and publishes levels on its own.                               *)
(***************************************************************************)
EXTENDS Naturals, Sequences, SequencesExt, FiniteSets

CONSTANTS Peer,          \* remote endpoints
          TransmitLimit, \* records waiting for the transport
          QueueLimit,    \* received records kept
          MaxRecord      \* bound on records ever sent or received

VARIABLES desc,     \* the description: [live, bound, peer, forwarded]
          object,   \* the packet object: [live, peer, inbox, outbox, error, level]
          wire,     \* records transmitted: [to, id]
          accepted, \* records accepted for sending, with the destination meant
          arrived,  \* records queued on arrival
          taken,    \* records handed to the application and removed
          next

datagramVars == <<desc, object, wire, accepted, arrived, taken, next>>

None == "none"
NoObject == [live |-> FALSE, peer |-> None, inbox |-> <<>>, outbox |-> <<>>, error |-> FALSE, level |-> {}]
NewDescription == [live |-> TRUE, bound |-> FALSE, peer |-> None, forwarded |-> {}]

DatagramInit ==
    /\ desc = [NewDescription EXCEPT !.live = FALSE] /\ object = NoObject
    /\ wire = <<>> /\ accepted = <<>> /\ arrived = <<>> /\ taken = <<>> /\ next = 1

----------------------------------------------------------------------------
\* network.service, over n = [o, wire].

Net == [o |-> object, wire |-> wire]

\* pump_datagrams, first half: the transport takes records until it is full;
\* a refused record is dropped and its error kept.
Transmit(n) ==
    UNION {{[o |-> [n.o EXCEPT !.outbox = SubSeq(@, k + 1, Len(@)), !.error = @ \/ refused # {}],
             wire |-> n.wire \o SelectSeq(SubSeq(n.o.outbox, 1, k),
                                          LAMBDA r : \A i \in refused : n.o.outbox[i] # r)]
              : refused \in SUBSET (1..k)} : k \in 0..Len(n.o.outbox)}

Level(o) == (IF o.inbox # <<>> \/ o.error THEN {"R"} ELSE {})
              \cup (IF Len(o.outbox) < TransmitLimit \/ o.error THEN {"W"} ELSE {})

\* pump_datagrams: records move, then the level is published.
PumpDatagrams(n) == {[t EXCEPT !.o.level = Level(t.o)] : t \in Transmit(n)}

\* dispatch_datagram: the level is published before the reply is sent.
ServedEarly(n) == {n}
Served(n) == PumpDatagrams(n)

\* OP_WRITE, with the error of an earlier record first.
NetWrite(n, to, id) ==
    IF n.o.error THEN [n |-> [n EXCEPT !.o.error = FALSE], ok |-> FALSE]
    ELSE IF Len(n.o.outbox) = TransmitLimit THEN [n |-> n, ok |-> FALSE]
    ELSE [n |-> [n EXCEPT !.o.outbox = Append(@, [to |-> to, id |-> id])], ok |-> TRUE]

\* OP_READ_AT and OP_READ.
NetRead(n, peek) ==
    IF n.o.error THEN [n |-> [n EXCEPT !.o.error = FALSE], ok |-> FALSE, id |-> 0]
    ELSE IF n.o.inbox = <<>> THEN [n |-> n, ok |-> FALSE, id |-> 0]
    ELSE [n |-> IF peek THEN n ELSE [n EXCEPT !.o.inbox = Tail(@)], ok |-> TRUE, id |-> Head(n.o.inbox)]

----------------------------------------------------------------------------
\* The socket worker.  A turn serves a request and then forwards the levels.

Worker(n, d) ==
    /\ object' = n.o /\ wire' = n.wire
    /\ desc' = [d EXCEPT !.forwarded = IF d.bound THEN n.o.level ELSE {"W"}]

\* open_binding: the resource opened, verified and kept, or closed again.
Binding(d) ==
    IF d.bound THEN {[d |-> d, n |-> Net, ok |-> TRUE]}
    ELSE {[d |-> d, n |-> Net, ok |-> FALSE]} \cup
         {[d |-> [d EXCEPT !.bound = TRUE], n |-> m, ok |-> TRUE]
            : m \in Served([Net EXCEPT !.o = [NoObject EXCEPT !.live = TRUE]])}

Create ==
    /\ ~desc.live /\ next <= MaxRecord
    /\ desc' = NewDescription
    /\ UNCHANGED <<object, wire, accepted, arrived, taken, next>>

Bind ==
    /\ desc.live /\ ~desc.bound
    /\ \E b \in Binding(desc) : Worker(b.n, b.d)
    /\ UNCHANGED <<accepted, arrived, taken, next>>

\* connect: the description's peer changes after the object's; a source that
\* cannot be routed leaves both.
Connect ==
    \E p \in Peer : \E b \in Binding(desc), routed \in BOOLEAN :
       /\ desc.live
       /\ IF b.ok /\ routed
          THEN \E m \in Served([b.n EXCEPT !.o.peer = p]) : Worker(m, [b.d EXCEPT !.peer = p])
          ELSE Worker(b.n, b.d)
       /\ UNCHANGED <<accepted, arrived, taken, next>>

Disconnect ==
    /\ desc.live
    /\ \E m \in IF desc.bound THEN Served([Net EXCEPT !.o.peer = None]) ELSE {Net} :
         Worker(m, [desc EXCEPT !.peer = None])
    /\ UNCHANGED <<accepted, arrived, taken, next>>

\* send_to: without an address to the description's peer.
SendTo ==
    \E to \in Peer \cup {None} :
       LET target == IF to = None THEN desc.peer ELSE to IN
       /\ desc.live /\ target # None /\ next <= MaxRecord
       /\ \E b \in Binding(desc) :
            LET w == NetWrite(b.n, target, next) IN
            IF ~b.ok THEN Worker(b.n, b.d) /\ UNCHANGED <<accepted, next>>
            ELSE /\ \E m \in Served(w.n) : Worker(m, b.d)
                 /\ IF w.ok THEN accepted' = Append(accepted, [to |-> target, id |-> next]) /\ next' = next + 1
                    ELSE UNCHANGED <<accepted, next>>
       /\ UNCHANGED <<arrived, taken>>

\* transfer_record, Receive: the head is peeked, copied out and then removed by
\* a second call; either call may meet the error of a record sent before.
ReceiveRecord ==
    \E peek \in BOOLEAN :
       /\ desc.live /\ desc.bound
       /\ LET first == NetRead(Net, TRUE) IN
          \E m \in Served(first.n) :
             IF ~first.ok \/ peek THEN Worker(m, desc) /\ UNCHANGED taken
             ELSE LET second == NetRead(m, FALSE) IN
                  \E k \in Served(second.n) :
                     /\ Worker(k, desc)
                     /\ taken' = IF second.ok /\ second.id = first.id THEN Append(taken, first.id) ELSE taken
       /\ UNCHANGED <<accepted, arrived, next>>

\* The worker is woken for a level it watches, one it has not forwarded.
Wake ==
    /\ desc.live /\ desc.bound /\ object.level \ desc.forwarded # {}
    /\ Worker(Net, desc) /\ UNCHANGED <<accepted, arrived, taken, next>>

\* The last reference goes: the description closes its binding.
Release ==
    /\ desc.live /\ desc' = [desc EXCEPT !.live = FALSE, !.bound = FALSE, !.peer = None]
    /\ object' = NoObject
    /\ UNCHANGED <<wire, accepted, arrived, taken, next>>

----------------------------------------------------------------------------
\* network.service on its own.

\* A datagram arrives; a full queue drops it.  A peer that was set filters.
Arrive ==
    \E p \in Peer :
       /\ object.live /\ next <= MaxRecord /\ object.peer \in {None, p}
       /\ Len(object.inbox) < QueueLimit
       /\ object' = [object EXCEPT !.inbox = Append(@, next)]
       /\ arrived' = Append(arrived, next) /\ next' = next + 1
       /\ UNCHANGED <<desc, wire, accepted, taken>>

NetworkTurn ==
    /\ object.live
    /\ \E m \in PumpDatagrams(Net) : object' = m.o /\ wire' = m.wire
    /\ UNCHANGED <<desc, accepted, arrived, taken, next>>

DatagramNext == \/ Create \/ Bind \/ Connect \/ Disconnect \/ SendTo \/ ReceiveRecord \/ Wake
                \/ Release \/ Arrive \/ NetworkTurn

DatagramSpec == DatagramInit /\ [][DatagramNext]_datagramVars

----------------------------------------------------------------------------
\* Datagrams are what the application was told.  A record goes, in order, to
\* the destination that held when it was accepted, whatever peer is set later;
\* a received record is taken at most once, in the order of arrival; the peer
\* of the description is the object's; and a level the worker forwards is one
\* the object still has, since the worker does not watch a level it forwards
\* (datagram_provider.rs dispatch_datagram, pump_datagrams; inet_socket.rs pump,
\* watches, transfer_record; inet_datagram.rs connect, disconnect).
DatagramsExact ==
    /\ ToSet(wire) \subseteq ToSet(accepted) /\ \A i, k \in DOMAIN wire : i < k => wire[i].id < wire[k].id
    /\ ToSet(taken) \subseteq ToSet(arrived) /\ \A i, k \in DOMAIN taken : i < k => taken[i] < taken[k]
    /\ desc.live /\ desc.bound => desc.peer = object.peer /\ object.live
    /\ desc.live /\ desc.bound => desc.forwarded \subseteq object.level
=============================================================================
