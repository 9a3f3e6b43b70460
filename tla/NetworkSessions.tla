--------------------------- MODULE NetworkSessions ---------------------------
(***************************************************************************)
(* The synchronous entry points of network.service: TCP connections by     *)
(* handle (stack.rs), TLS sessions over them (tls.rs) and HTTP requests    *)
(* over those (http.rs).  A request runs to its end before the next one,   *)
(* driving the interface in its own loops, so that the interface may fail  *)
(* and peers may close inside any of them.  What TCP, TLS and HTTP decide  *)
(* about the bytes is a nondeterministic outcome of each call.             *)
(***************************************************************************)
EXTENDS Naturals, FiniteSets, FiniteSetsExt, Functions, TLC

CONSTANTS Client,
          MaxRows,      \* connections of the transport's table
          TlsLimit,     \* MAX_TLS_CONNECTIONS
          HttpLimit,    \* MAX_HTTP_RESPONSES
          MaxRedirects, \* of the redirect tracker
          MaxHandle     \* bound on handles ever made

VARIABLES net,       \* [rows: handle -> [owner, ended], up, next]
          sessions,  \* TLS handle -> [owner, tcp]
          responses, \* HTTP handle -> owner
          known      \* handles each client was given

sessionVars == <<net, sessions, responses, known>>

SessionsInit ==
    /\ net = [rows |-> <<>>, up |-> TRUE, next |-> 1]
    /\ sessions = <<>> /\ responses = <<>> /\ known = [c \in Client |-> {}]

Drop(f, D) == Restrict(f, DOMAIN f \ D)

Out(n, ok, h) == [n |-> n, ok |-> ok, h |-> h]

----------------------------------------------------------------------------
\* Connections by handle, over n = [rows, up, next].

\* A failing receive takes the interface and every connection by handle down.
InterfaceFailed(n) == [n EXCEPT !.rows = <<>>, !.up = FALSE]

Remove(n, h) == [n EXCEPT !.rows = Drop(@, {h})]

Owned(n, o, h) == h \in DOMAIN n.rows /\ n.rows[h].owner = o

\* What a loop that drives connection h may do to it besides succeeding.
Broken(n, h) == {Out(Remove(n, h), FALSE, h), Out(InterfaceFailed(n), FALSE, h)}

TcpConnect(n, o) ==
    {Out(n, FALSE, 0)}
      \cup (IF n.up /\ Cardinality(DOMAIN n.rows) < MaxRows /\ n.next <= MaxHandle
            THEN {Out([n EXCEPT !.rows = (n.next :> [owner |-> o, ended |-> FALSE]) @@ @,
                                !.next = @ + 1], TRUE, n.next),
                  Out(InterfaceFailed(n), FALSE, 0)}
            ELSE {})

\* A full send buffer refuses the data and keeps the connection.
TcpSend(n, o, h) ==
    {Out(n, FALSE, h)}
      \cup (IF Owned(n, o, h)
            THEN Broken(n, h) \cup (IF n.rows[h].ended THEN {} ELSE {Out(n, TRUE, h)})
            ELSE {})

\* A timeout keeps the connection; a closed peer is a successful receive.
TcpReceive(n, o, h) ==
    {Out(n, FALSE, h)} \cup (IF Owned(n, o, h) THEN Broken(n, h) \cup {Out(n, TRUE, h)} ELSE {})

\* A completed close leaves the row to the next tick.
TcpClose(n, o, h) ==
    {Out(n, FALSE, h)}
      \cup (IF Owned(n, o, h)
            THEN Broken(n, h) \cup {Out([n EXCEPT !.rows[h].ended = TRUE], TRUE, h)}
            ELSE {})

Discard(n, o, h) == IF Owned(n, o, h) THEN Remove(n, h) ELSE n

----------------------------------------------------------------------------
\* TLS sessions, over x = [n, s, ok, h] with the sessions s.

Tls(n, s, ok, h) == [n |-> n, s |-> s, ok |-> ok, h |-> h]

\* finish_connect: a handshake sends and receives until it is established.
Handshake(n, o, h) ==
    UNION {IF sent.ok THEN TcpReceive(sent.n, o, h) ELSE {sent} : sent \in TcpSend(n, o, h)}

\* The handshake may also be refused while the connection is alive.
FinishConnect(n, s, o, h) ==
    {IF r.ok /\ established /\ r.n.next <= MaxHandle
     THEN Tls([r.n EXCEPT !.next = @ + 1],
              (r.n.next :> [owner |-> o, tcp |-> h]) @@ s, TRUE, r.n.next)
     ELSE Tls(r.n, s, FALSE, 0)
       : r \in Handshake(n, o, h), established \in BOOLEAN}

\* connect_inner that leaves the connection of a failed handshake.
ConnectInnerLeaves(n, s, o) ==
    IF Cardinality(DOMAIN s) >= TlsLimit THEN {Tls(n, s, FALSE, 0)}
    ELSE UNION {IF ~c.ok THEN {Tls(c.n, s, FALSE, 0)} ELSE FinishConnect(c.n, s, o, c.h)
                  : c \in TcpConnect(n, o)}

\* connect_inner: the connection of a failed handshake is discarded.
ConnectInner(n, s, o) ==
    IF Cardinality(DOMAIN s) >= TlsLimit THEN {Tls(n, s, FALSE, 0)}
    ELSE UNION {IF ~c.ok THEN {Tls(c.n, s, FALSE, 0)}
                ELSE {IF f.ok THEN f ELSE Tls(Discard(f.n, o, c.h), s, FALSE, 0)
                        : f \in FinishConnect(c.n, s, o, c.h)}
                  : c \in TcpConnect(n, o)}

HasSession(s, o, t) == t \in DOMAIN s /\ s[t].owner = o

\* send and receive take the session out and put it back when they succeed.
TlsSend(n, s, o, t) ==
    IF ~HasSession(s, o, t) THEN {Tls(n, s, FALSE, t)}
    ELSE {IF r.ok THEN Tls(r.n, s, TRUE, t)
          ELSE Tls(Discard(r.n, o, s[t].tcp), Drop(s, {t}), FALSE, t)
            : r \in TcpSend(n, o, s[t].tcp)}

\* Plaintext that is pending, or a peer that closed, needs no transfer.
TlsReceive(n, s, o, t) ==
    IF ~HasSession(s, o, t) THEN {Tls(n, s, FALSE, t)}
    ELSE {Tls(n, s, TRUE, t)} \cup
         {IF r.ok THEN Tls(r.n, s, TRUE, t)
          ELSE Tls(Discard(r.n, o, s[t].tcp), Drop(s, {t}), FALSE, t)
            : r \in TcpReceive(n, o, s[t].tcp) \cup Handshake(n, o, s[t].tcp)}

\* close_session: the alert is sent before the connection is closed.
CloseSession(n, o, h) ==
    UNION {IF sent.ok THEN TcpClose(sent.n, o, h) ELSE {sent} : sent \in TcpSend(n, o, h)}

TlsClose(n, s, o, t) ==
    IF ~HasSession(s, o, t) THEN {Tls(n, s, FALSE, t)}
    ELSE {Tls(IF r.ok THEN r.n ELSE Discard(r.n, o, s[t].tcp), Drop(s, {t}), r.ok, t)
            : r \in CloseSession(n, o, s[t].tcp)}

----------------------------------------------------------------------------
\* HTTP requests.

\* exchange: the request is sent, responses are received until one is complete.
Exchange(n, s, o, t) ==
    UNION {IF ~sent.ok THEN {sent}
           ELSE UNION {{r, Tls(r.n, r.s, FALSE, t)} : r \in TlsReceive(sent.n, sent.s, o, t)}
             : sent \in TlsSend(n, s, o, t)}

\* One hop of the redirect loop: the session is closed whatever happened.
Hop(n, s, o) ==
    UNION {IF ~c.ok THEN {c}
           ELSE UNION {UNION {{Tls(d.n, d.s, e.ok /\ d.ok, 0)} : d \in TlsClose(e.n, e.s, o, c.h)}
                         : e \in Exchange(c.n, c.s, o, c.h)}
             : c \in ConnectInner(n, s, o)}

\* request_inner: a redirect that may be followed starts another hop.
RequestInner(n, s, o) ==
    FoldSet(LAMBDA i, outs : outs \cup UNION {IF x.ok THEN Hop(x.n, x.s, o) ELSE {} : x \in outs},
            Hop(n, s, o), 1..MaxRedirects)

----------------------------------------------------------------------------
\* Requests of the clients.

Give(c, h) == known' = [known EXCEPT ![c] = @ \cup {h}]

TcpConnectRequest ==
    \E c \in Client : \E r \in TcpConnect(net, c) :
       /\ net' = r.n
       /\ IF r.ok THEN Give(c, r.h) ELSE UNCHANGED known
       /\ UNCHANGED <<sessions, responses>>

TcpRequest(Op(_, _, _)) ==
    \E c \in Client : \E h \in known[c] : \E r \in Op(net, c, h) :
       net' = r.n /\ UNCHANGED <<sessions, responses, known>>

TcpSendRequest == TcpRequest(TcpSend)
TcpReceiveRequest == TcpRequest(TcpReceive)
TcpCloseRequest == TcpRequest(TcpClose)

TlsConnectRequest ==
    \E c \in Client : \E r \in ConnectInner(net, sessions, c) :
       /\ net' = r.n /\ sessions' = r.s
       /\ IF r.ok THEN Give(c, r.h) ELSE UNCHANGED known
       /\ UNCHANGED responses

TlsRequest(Op(_, _, _, _)) ==
    \E c \in Client : \E t \in known[c] : \E r \in Op(net, sessions, c, t) :
       net' = r.n /\ sessions' = r.s /\ UNCHANGED <<responses, known>>

TlsSendRequest == TlsRequest(TlsSend)
TlsReceiveRequest == TlsRequest(TlsReceive)
TlsCloseRequest == TlsRequest(TlsClose)

HttpRequest ==
    \E c \in Client :
       /\ Cardinality(DOMAIN responses) < HttpLimit
       /\ \E r \in RequestInner(net, sessions, c), stored \in BOOLEAN :
            /\ sessions' = r.s
            /\ IF r.ok /\ stored /\ r.n.next <= MaxHandle
               THEN /\ net' = [r.n EXCEPT !.next = @ + 1]
                    /\ responses' = (r.n.next :> c) @@ responses
                    /\ Give(c, r.n.next)
               ELSE net' = r.n /\ UNCHANGED <<responses, known>>

HttpClose ==
    \E c \in Client : \E h \in known[c] \cap DOMAIN responses :
       /\ responses[h] = c /\ responses' = Drop(responses, {h})
       /\ UNCHANGED <<net, sessions, known>>

\* tick drives the connections by handle and removes the ended ones.
Tick ==
    /\ net' = [net EXCEPT !.rows = Drop(@, {h \in DOMAIN @ : @[h].ended})]
    /\ UNCHANGED <<sessions, responses, known>>

\* A peer resets or closes; the interface fails or is configured again.
PeerEnds ==
    \E h \in DOMAIN net.rows :
       /\ ~net.rows[h].ended /\ net' = [net EXCEPT !.rows[h].ended = TRUE]
       /\ UNCHANGED <<sessions, responses, known>>

ReceiveFails == net' = InterfaceFailed(net) /\ UNCHANGED <<sessions, responses, known>>

Configured == net' = [net EXCEPT !.up = TRUE] /\ UNCHANGED <<sessions, responses, known>>

SessionsNext == \/ TcpConnectRequest \/ TcpSendRequest \/ TcpReceiveRequest \/ TcpCloseRequest
                \/ TlsConnectRequest \/ TlsSendRequest \/ TlsReceiveRequest \/ TlsCloseRequest
                \/ HttpRequest \/ HttpClose \/ Tick \/ PeerEnds \/ ReceiveFails \/ Configured

SessionsSpec == SessionsInit /\ [][SessionsNext]_sessionVars

----------------------------------------------------------------------------
\* Nothing of the shared tables is lost on any path of a request.  A live
\* connection is either held by the client it belongs to under its handle or is
\* that of exactly one TLS session of the client; a TLS session is one its
\* client was given, so an HTTP request leaves none behind; a stored response
\* is known to its client (tls.rs connect_inner, send, receive, close; http.rs
\* request_inner; stack.rs tcp_connect, tcp_close, interface_failed).
SessionsOwned ==
    /\ \A h \in DOMAIN net.rows :
         LET o == net.rows[h].owner
             users == {t \in DOMAIN sessions : sessions[t].tcp = h}
         IN \/ net.rows[h].ended
            \/ h \in known[o] /\ users = {}
            \/ h \notin known[o] /\ \E t \in users : users = {t} /\ sessions[t].owner = o
    /\ \A t \in DOMAIN sessions : t \in known[sessions[t].owner]
    /\ \A r \in DOMAIN responses : r \in known[responses[r]]
=============================================================================
