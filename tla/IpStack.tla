-------------------------------- MODULE IpStack --------------------------------
(***************************************************************************)
(* The interface half of network.service (stack.rs): the lease, address    *)
(* resolution with the queue of packets that wait for a next hop, and the  *)
(* synchronous echo request.  The DHCP client and the packet formats       *)
(* belong to libraries; frames of the network arrive in any order, and the *)
(* device may refuse any transmission.                                     *)
(***************************************************************************)
EXTENDS Naturals, Sequences, SequencesExt, FiniteSets

CONSTANTS Hop,        \* next hops packets can be routed to
          QueueLimit, \* PENDING_IPV4_LIMIT
          MaxRetries, \* of an address request
          MaxPacket   \* bound on packets and echoes ever sent

VARIABLES lease,    \* [config, tcp, dhcp]: the stack's address, the TCP transport's, the client
          arp,      \* [known, pending, retries]: resolved hops, the hop asked for (0: none)
          queue,    \* packets waiting for their next hop: [hop, id]
          sent,     \* packets transmitted, in order
          ping,     \* [sent, reply, target, first]: <<hop, sequence>> or <<>>
          next      \* next packet or echo

ipVars == <<lease, arp, queue, sent, ping, next>>

Address == {1, 2}

IpInit ==
    /\ lease = [config |-> 0, tcp |-> 0, dhcp |-> "Selecting"]
    /\ arp = [known |-> {}, pending |-> 0, retries |-> 0]
    /\ queue = <<>> /\ sent = <<>> /\ next = 1
    /\ ping = [sent |-> <<>>, reply |-> <<>>, target |-> 0, first |-> 0]

----------------------------------------------------------------------------
\* Packets, over p = [arp, queue, sent].

Packets == [arp |-> arp, queue |-> queue, sent |-> sent]

Of(p, ok) == [p |-> p, ok |-> ok]

\* transmit: the device takes the frame or refuses it.
Transmitted(p, packet) == {Of([p EXCEPT !.sent = Append(@, packet)], TRUE), Of(p, FALSE)}

\* send_arp_request: a refused request leaves what was pending.
SendArpRequest(p, hop) ==
    {Of([p EXCEPT !.arp.pending = hop, !.arp.retries = @ + 1], TRUE), Of(p, FALSE)}

\* resolve: a hop that is neither known nor asked for is asked for.
Resolve(p, hop) ==
    IF p.arp.pending = hop THEN {Of(p, TRUE)}
    ELSE SendArpRequest([p EXCEPT !.arp.retries = 0], hop)

\* send_routed_ipv4: to a known hop, or into the queue.
SendRouted(p, hop, id) ==
    IF hop \in p.arp.known THEN Transmitted(p, [hop |-> hop, id |-> id])
    ELSE {IF r.ok /\ Len(r.p.queue) < QueueLimit
          THEN Of([r.p EXCEPT !.queue = Append(@, [hop |-> hop, id |-> id])], TRUE)
          ELSE Of(r.p, FALSE) : r \in Resolve(p, hop)}

\* flush_pending limited to the hop that was asked for last.
FlushPendingAsked(p, hop) ==
    IF p.arp.pending # hop THEN {p}
    ELSE {[p EXCEPT !.queue = SelectSeq(@, LAMBDA k : k.hop # hop),
                    !.sent = @ \o SelectSeq(p.queue, LAMBDA k : k.hop = hop)]}

\* flush_pending: each packet for the hop is sent or dropped, the others stay.
FlushPending(p, hop) ==
    LET mine == {i \in 1..Len(p.queue) : p.queue[i].hop = hop} IN
    {[p EXCEPT !.queue = SelectSeq(@, LAMBDA k : k.hop # hop),
               !.sent = @ \o SelectSeq(p.queue, LAMBDA k : \E i \in taken : p.queue[i] = k)]
       : taken \in SUBSET mine}

DropPendingFor(p, hop) == [p EXCEPT !.queue = SelectSeq(@, LAMBDA k : k.hop # hop)]

Set(p) == arp' = p.arp /\ queue' = p.queue /\ sent' = p.sent

----------------------------------------------------------------------------
\* Sending.

\* UDP, TCP and echo replies: one packet each.
Send ==
    /\ lease.config # 0 /\ next <= MaxPacket /\ next' = next + 1
    /\ \E hop \in Hop : \E r \in SendRouted(Packets, hop, next) : Set(r.p)
    /\ UNCHANGED <<lease, ping>>

\* send_echo: what is expected changes once the request is on its way.
Echo(hop) ==
    /\ next <= MaxPacket /\ next' = next + 1
    /\ \E r \in SendRouted(Packets, hop, next) :
         /\ Set(r.p)
         /\ ping' = IF r.ok THEN [ping EXCEPT !.sent = <<hop, next>>] ELSE ping

\* ping: the request begins; a refused echo ends it at once.
PingStart ==
    \E hop \in Hop :
       /\ ping.target = 0 /\ lease.config # 0 /\ next <= MaxPacket /\ next' = next + 1
       /\ \E r \in SendRouted(Packets, hop, next) :
            /\ Set(r.p)
            /\ ping' = IF r.ok THEN [sent |-> <<hop, next>>, reply |-> <<>>, target |-> hop, first |-> next]
                       ELSE [ping EXCEPT !.reply = <<>>]
       /\ UNCHANGED lease

\* Its loop: another echo is sent when the last one was answered by someone else.
PingAgain ==
    /\ ping.target # 0 /\ ping.sent = <<>> /\ lease.config # 0
    /\ ~(ping.reply # <<>> /\ ping.reply[1] = ping.target)
    /\ Echo(ping.target) /\ UNCHANGED lease

\* It returns with the reply or at its deadline.
PingEnds ==
    /\ ping.target # 0 /\ ping' = [ping EXCEPT !.target = 0, !.first = 0]
    /\ UNCHANGED <<lease, arp, queue, sent, next>>

----------------------------------------------------------------------------
\* Receiving.

\* handle_arp: a reply or a request teaches the sender's address.
HandleArp ==
    \E hop \in Hop :
       /\ lease.config # 0
       /\ \E p \in FlushPending([Packets EXCEPT !.arp.known = @ \cup {hop}], hop) :
            Set([p EXCEPT !.arp.pending = IF @ = hop THEN 0 ELSE @])
       /\ UNCHANGED <<lease, ping, next>>

\* handle_ipv4: an echo reply counts when it answers the last echo.
EchoReply ==
    /\ lease.config # 0 /\ ping.sent # <<>>
    /\ \E i \in 1..Len(sent) : sent[i].hop = ping.sent[1] /\ sent[i].id = ping.sent[2]
    /\ ping' = [ping EXCEPT !.reply = ping.sent, !.sent = <<>>]
    /\ UNCHANGED <<lease, arp, queue, sent, next>>

\* handle_dhcp: offers, acknowledgements (also of an unusable lease) and refusals.
DhcpOffer ==
    /\ lease.dhcp = "Selecting" /\ lease' = [lease EXCEPT !.dhcp = "Requesting"]
    /\ UNCHANGED <<arp, queue, sent, ping, next>>

DhcpAck ==
    /\ lease.dhcp \in {"Requesting", "Renewing"}
    /\ \/ /\ lease' = [lease EXCEPT !.dhcp = "Bound"]
          /\ UNCHANGED <<arp, queue, sent, ping, next>>
       \/ \E a \in Address, gateway \in Hop :
            /\ lease' = [config |-> a, tcp |-> a, dhcp |-> "Bound"]
            /\ Echo(gateway)

DhcpNak ==
    /\ lease.dhcp \in {"Requesting", "Renewing"}
    /\ lease' = [lease EXCEPT !.dhcp = "Selecting", !.config = 0]
    /\ UNCHANGED <<arp, queue, sent, ping, next>>

\* interface_failed.
InterfaceFailed ==
    /\ lease' = [lease EXCEPT !.config = 0, !.tcp = 0]
    /\ arp' = [arp EXCEPT !.pending = 0] /\ queue' = <<>>
    /\ UNCHANGED <<sent, ping, next>>

----------------------------------------------------------------------------
\* tick.

\* The lease runs towards its end; a failed client takes the address away.
LeaseAges ==
    /\ \/ lease.dhcp = "Bound" /\ lease' = [lease EXCEPT !.dhcp = "Renewing"]
       \/ lease.dhcp # "Failed" /\ lease' = [config |-> 0, tcp |-> 0, dhcp |-> "Failed"]
    /\ UNCHANGED <<arp, queue, sent, ping, next>>

\* The pending address request is repeated or given up with its packets.
ArpRetry ==
    /\ arp.pending # 0
    /\ IF arp.retries >= MaxRetries
       THEN Set(DropPendingFor([Packets EXCEPT !.arp.pending = 0], arp.pending))
       ELSE \E r \in SendArpRequest(Packets, arp.pending) : Set(r.p)
    /\ UNCHANGED <<lease, ping, next>>

\* Addresses expire.
ArpExpires ==
    \E hop \in arp.known : /\ arp' = [arp EXCEPT !.known = @ \ {hop}]
                           /\ UNCHANGED <<lease, queue, sent, ping, next>>

IpNext == \/ Send \/ PingStart \/ PingAgain \/ PingEnds \/ HandleArp \/ EchoReply \/ DhcpOffer
          \/ DhcpAck \/ DhcpNak \/ InterfaceFailed \/ LeaseAges \/ ArpRetry \/ ArpExpires

IpSpec == IpInit /\ [][IpNext]_ipVars

----------------------------------------------------------------------------
\* Packets to one next hop leave in the order they were accepted, and none waits
\* for a hop whose address is known: a packet sent directly never overtakes a
\* queued one, whichever hop was asked for in between.  An echo request is
\* answered only by a reply to an echo of that very request; and while the
\* stack has an address, the TCP transport has the same one (stack.rs resolve,
\* flush_pending, handle_arp, ping, handle_dhcp).
PacketsOrdered ==
    /\ \A i, k \in 1..Len(sent) : i < k /\ sent[i].hop = sent[k].hop => sent[i].id < sent[k].id
    /\ \A i \in 1..Len(sent), k \in 1..Len(queue) : sent[i].hop = queue[k].hop => sent[i].id < queue[k].id
    /\ \A k \in 1..Len(queue) : queue[k].hop \notin arp.known
    /\ ping.target # 0 /\ ping.reply # <<>> /\ ping.reply[1] = ping.target => ping.reply[2] >= ping.first
    /\ lease.config # 0 => lease.tcp = lease.config
=============================================================================
