----------------------------- MODULE UnixStreams -----------------------------
(***************************************************************************)
(* UNIX socket descriptions (posix/src/socket.rs), their byte queue with   *)
(* ancillary markers (socket_stream.rs), their record queue                *)
(* (socket_record.rs) and the collector (socket_gc.rs), as functions of    *)
(* the table of descriptions.                                              *)
(*                                                                         *)
(* A table s maps the live description ids to endpoints.  A byte is        *)
(* modelled by the rights that were sent with it: <<>> for a plain byte,   *)
(* the bundle for the first byte of a message that carries one.  0 is "no  *)
(* description".  Names, credentials and timeouts are left out: they are   *)
(* reported, never acted on.                                               *)
(***************************************************************************)
EXTENDS Integers, Sequences, SequencesExt

CONSTANTS
  Capacity,      \* RECEIVE_CAPACITY, SEND_CAPACITY
  MaxMarkers,    \* MAX_MARKERS of a byte queue
  MaxRecords,    \* MAX_QUEUED_RECORDS
  MaxRecord,     \* MAX_RECORD_SIZE
  MaxEndpoints,  \* MAX_ENDPOINTS
  MaxId          \* MAX_DESCRIPTION_ID

Endpoint(kind, peer) ==
  [kind |-> kind, peer |-> peer, bytes |-> <<>>, marks |-> <<>>, recs |-> <<>>,
   charged |-> 0, rcap |-> Capacity, scap |-> Capacity, error |-> FALSE,
   rshut |-> FALSE, wshut |-> FALSE, backlog |-> 0, pending |-> <<>>,
   listener |-> 0, retry |-> 0]

Live(s, i) == i \in DOMAIN s
Without(s, i) == Restrict(s, DOMAIN s \ {i})
Listens(s, i) == Live(s, i) /\ s[i].backlog # 0
Has(s, n) == Cardinality(DOMAIN s) + n <= MaxEndpoints
Monus(a, b) == IF a <= b THEN 0 ELSE a - b
-----------------------------------------------------------------------------
(* StreamQueue *)

Written(e, n, rights) ==
  [e EXCEPT !.bytes = @ \o [k \in 1..n |-> IF k = 1 THEN rights ELSE <<>>],
            !.marks = IF n = 0 \/ rights = <<>> THEN @
                      ELSE Append(@, [start |-> Len(e.bytes), end |-> Len(e.bytes) + n,
                                      rights |-> rights])]

\* Mutant: a read runs on into the message after the one that carries rights.
ReadLengthOver(e, maximum) == Min({maximum, Len(e.bytes)})

\* A read ends at the end of the first message that carries rights.
ReadLength(e, maximum) ==
  LET count == Min({maximum, Len(e.bytes)})
  IN  IF e.marks # <<>> /\ e.marks[1].start < count THEN Min({count, e.marks[1].end}) ELSE count

ReadRights(e, maximum) ==
  IF e.marks # <<>> /\ e.marks[1].start < ReadLength(e, maximum) THEN e.marks[1].rights ELSE <<>>

ReadOwned(e, maximum) ==
  LET n == ReadLength(e, maximum)
      rest == IF e.marks # <<>> /\ e.marks[1].start < n THEN Tail(e.marks) ELSE e.marks
  IN  [e EXCEPT !.bytes = SubSeq(@, n + 1, Len(@)),
                !.marks = [k \in 1..Len(rest) |->
                             [rest[k] EXCEPT !.start = @ - n, !.end = @ - n]]]

ClearQueue(e) == [e EXCEPT !.bytes = <<>>, !.marks = <<>>, !.recs = <<>>, !.charged = 0]
-----------------------------------------------------------------------------
(* RecordQueue *)

Charge(n) == IF n = 0 THEN 1 ELSE n
CanPush(e, n, scap) ==
  IF n > MaxRecord \/ Charge(n) > Min({e.rcap, scap}) THEN "EMSGSIZE"
  ELSE IF Len(e.recs) < MaxRecords /\ Charge(n) <= Monus(e.rcap, e.charged) THEN "ok"
  ELSE "EAGAIN"

Pushed(e, n, sender, rights) ==
  [e EXCEPT !.recs = Append(@, [len |-> n, sender |-> sender, rights |-> rights]),
            !.charged = @ + Charge(n)]
Popped(e) == [e EXCEPT !.charged = @ - Charge(e.recs[1].len), !.recs = Tail(@)]

\* A datagram socket that selects a peer keeps only that peer's records.
RetainSender(e, sender) ==
  LET kept == SelectSeq(e.recs, LAMBDA r : r.sender = sender)
      gone == SelectSeq(e.recs, LAMBDA r : r.sender # sender)
  IN  [e EXCEPT !.recs = kept,
                !.charged = @ - FoldLeft(LAMBDA sum, r : sum + Charge(r.len), 0, gone)]
-----------------------------------------------------------------------------
(* Readiness, and the native level it is published as *)

Broken(s, i) ==
  LET p == s[i].peer
  IN  ~Live(s, p) \/ s[p].rshut \/ (s[i].kind # "stream" /\ s[p].peer \notin {0, i})

PeerWrites(s, i) == Live(s, s[i].peer) /\ ~s[s[i].peer].wshut

ReadClosed(s, i) ==
  \/ s[i].rshut
  \/ s[i].kind = "stream" /\ s[i].backlog = 0 /\ ~PeerWrites(s, i)
  \/ s[i].kind = "packet" /\ s[i].backlog = 0 /\ ~PeerWrites(s, i)

Ready(read, write, rclosed, wclosed, werror) ==
  [readable |-> read, writable |-> write, rclosed |-> rclosed, wclosed |-> wclosed,
   werror |-> werror]

Readiness(s, i) ==
  LET e == s[i]
      werror == e.peer # 0 /\ Broken(s, i)
      free == IF ~Live(s, e.peer) THEN e.kind = "datagram"
              ELSE IF e.kind = "stream"
                     THEN Len(s[e.peer].bytes) < Min({s[e.peer].rcap, e.scap})
              ELSE CanPush(s[e.peer], 0, e.scap) = "ok"
  IN  IF e.backlog # 0 THEN Ready(e.pending # <<>>, FALSE, FALSE, FALSE, FALSE)
      ELSE IF e.kind # "datagram" /\ e.peer = 0 THEN Ready(TRUE, TRUE, TRUE, TRUE, FALSE)
      ELSE Ready(e.bytes # <<>> \/ e.recs # <<>> \/ ReadClosed(s, i)
                   \/ (e.kind = "packet" /\ e.error),
                 ~e.wshut /\ ~werror /\ free,
                 ReadClosed(s, i), e.wshut \/ werror, werror)

\* native_signals: readable, writable, hung up.
Signals(s, i) ==
  LET r == Readiness(s, i)
  IN  {x \in {"R", "W", "H"} :
         CASE x = "R" -> r.readable
           [] x = "W" -> r.writable \/ r.wclosed
           [] x = "H" -> r.werror \/ (r.rclosed /\ r.wclosed)}

\* record_observers: the senders a change of i's queue or filter concerns.
Observers(s, i) == {j \in DOMAIN s : s[j].kind # "stream" /\ s[j].peer = i}
-----------------------------------------------------------------------------
(* Sending and receiving *)

StreamRoom(s, i) ==
  Monus(Min({s[s[i].peer].rcap, s[i].scap}), Len(s[s[i].peer].bytes))

\* write, stream_send_length: how a send of n bytes ends.
StreamSend(s, i, n, withRights) ==
  CASE s[i].wshut -> "EPIPE"
    [] ~s[i].wshut /\ s[i].peer = 0 -> "ENOTCONN"
    [] ~s[i].wshut /\ s[i].peer # 0 ->
         IF ~Live(s, s[i].peer) \/ s[s[i].peer].rshut THEN "EPIPE"
         ELSE IF n = 0 THEN "ok"
         ELSE IF StreamRoom(s, i) = 0 THEN "EAGAIN"
         ELSE IF withRights /\ Len(s[s[i].peer].marks) >= MaxMarkers THEN "EAGAIN"
         ELSE "ok"

\* A send of no bytes transfers nothing.
StreamSent(s, i, n, rights) ==
  IF n = 0 THEN s ELSE [s EXCEPT ![s[i].peer] = Written(@, Min({n, StreamRoom(s, i)}), rights)]

\* stream_read_count: how a read of n > 0 bytes ends.
StreamRead(s, i) ==
  CASE s[i].rshut -> "eof"
    [] ~s[i].rshut /\ s[i].peer = 0 -> "ENOTCONN"
    [] ~s[i].rshut /\ s[i].peer # 0 ->
         IF s[i].bytes # <<>> THEN "ok" ELSE IF s[i].error THEN "error"
         ELSE IF ReadClosed(s, i) THEN "eof" ELSE "EAGAIN"

\* record_send_to_ready: i sends n to d, which is its peer or a resolved target.
RecordSendTo(s, i, d, n) ==
  CASE s[i].wshut -> "EPIPE"
    [] ~s[i].wshut /\ s[i].kind = "packet" /\ s[i].peer # d -> "EISCONN"
    [] ~s[i].wshut /\ (s[i].kind = "packet" => s[i].peer = d) ->
         IF ~Live(s, d) \/ s[d].rshut THEN "EPIPE"
         ELSE IF s[d].kind # s[i].kind THEN "EPROTOTYPE"
         ELSE IF s[d].peer \notin {0, i} THEN "EPERM"
         ELSE CanPush(s[d], n, s[i].scap)

\* record_destination and record_send_ready: terminal results are ready.
RecordSend(s, i, n) == IF s[i].peer = 0 THEN "ENOTCONN" ELSE RecordSendTo(s, i, s[i].peer, n)

\* record_read_terminal and the queue head.
RecordRead(s, i) ==
  CASE s[i].rshut -> "eof"
    [] ~s[i].rshut /\ s[i].kind = "packet" /\ s[i].peer = 0 -> "ENOTCONN"
    [] ~s[i].rshut /\ (s[i].kind = "packet" => s[i].peer # 0) ->
         IF s[i].recs # <<>> THEN "ok"
         ELSE IF s[i].kind = "datagram" THEN "EAGAIN"
         ELSE IF s[i].error THEN "error"
         ELSE IF ReadClosed(s, i) THEN "eof" ELSE "EAGAIN"

ReceiveStatus(s, i) == IF s[i].kind = "stream" THEN StreamRead(s, i) ELSE RecordRead(s, i)
SendStatus(s, i, n, withRights) ==
  IF s[i].kind = "stream" THEN StreamSend(s, i, n, withRights) ELSE RecordSend(s, i, n)

\* receive_wait_ready, ancillary_send_ready; both refuse what cannot be awaited.
CanAwait(s, i, cond) ==
  IF cond.op = "receive" THEN s[i].kind = "datagram" \/ s[i].peer # 0
  ELSE IF s[i].kind # "stream" THEN RecordSend(s, i, cond.n) # "EMSGSIZE"
  ELSE StreamSend(s, i, cond.n, TRUE) \in {"ok", "EAGAIN"}
Awaited(s, i, cond) ==
  IF cond.op = "send" THEN SendStatus(s, i, cond.n, TRUE) # "EAGAIN"
  ELSE IF s[i].kind = "stream"
    THEN Len(s[i].bytes) >= cond.n \/ s[i].error \/ ReadClosed(s, i)
    ELSE s[i].recs # <<>> \/ s[i].error \/ ReadClosed(s, i)
-----------------------------------------------------------------------------
(* Connections *)

\* check_connect and connect_internal, in the order of their checks.
ConnectStatus(s, next, c, l) ==
  CASE ~Live(s, c) -> "EBADF"
    [] Live(s, c) /\ s[c].peer # 0 -> "EISCONN"
    [] Live(s, c) /\ s[c].peer = 0 /\ s[c].backlog # 0 -> "EINVAL"
    [] Live(s, c) /\ s[c].peer = 0 /\ s[c].backlog = 0 ->
         IF ~Listens(s, l) THEN "ECONNREFUSED"
         ELSE IF s[c].kind # s[l].kind THEN "EPROTOTYPE"
         ELSE IF Len(s[l].pending) >= s[l].backlog THEN "EAGAIN"
         ELSE IF ~Has(s, 1) \/ next > MaxId THEN "ENFILE"
         ELSE "ok"

Connected(s, id, c, l) ==
  LET new == [Endpoint(s[l].kind, c) EXCEPT !.rcap = s[l].rcap, !.scap = s[l].scap,
                                            !.listener = l]
  IN  (id :> new) @@ [s EXCEPT ![l].pending = Append(@, id), ![c].peer = id]

Committed(s, l) ==
  LET e == s[l].pending[1]
  IN  [s EXCEPT ![l].pending = Tail(@), ![e].listener = 0, ![e].retry = 0]

\* Mutant: the client keeps the retired id as its peer.
AbortedDangling(s, l, retry) ==
  LET e == s[l].pending[1]
  IN  (retry :> [s[e] EXCEPT !.retry = 0]) @@ [Without(s, e) EXCEPT ![l].pending[1] = retry]

\* abort_accept: the queued connection goes on under a fresh id.
Aborted(s, l, retry) ==
  LET e == s[l].pending[1]
      moved == (retry :> [s[e] EXCEPT !.retry = 0])
                 @@ [Without(s, e) EXCEPT ![l].pending[1] = retry]
  IN  IF Live(moved, s[e].peer) THEN [moved EXCEPT ![s[e].peer].peer = retry] ELSE moved

\* connect_datagram_named
DatagramConnect(s, c, d) ==
  IF ~Live(s, d) \/ s[d].rshut THEN "ECONNREFUSED"
  ELSE IF s[d].kind # "datagram" THEN "EPROTOTYPE"
  ELSE IF s[d].peer \notin {0, c} THEN "EPERM" ELSE "ok"
DatagramConnected(s, c, d) == [s EXCEPT ![c] = RetainSender([@ EXCEPT !.peer = d], d)]
Disconnected(s, i) ==
  [s EXCEPT ![i] = IF @.peer = 0 THEN @ ELSE [ClearQueue(@) EXCEPT !.peer = 0]]

Shut(s, i, how) ==
  LET read == IF how = "write" THEN s[i] ELSE [ClearQueue(s[i]) EXCEPT !.rshut = TRUE]
  IN  [s EXCEPT ![i] = IF how = "read" THEN read ELSE [read EXCEPT !.wshut = TRUE]]

\* notify_peer_release: unread or unaccepted data is lost.
PeerTold(s, id, e, unaccepted) ==
  LET lost == unaccepted \/ e.bytes # <<>> \/ (e.kind = "packet" /\ e.recs # <<>>)
  IN  IF lost /\ Live(s, e.peer) /\ s[e.peer].peer = id
        THEN [s EXCEPT ![e.peer].error = TRUE] ELSE s

Released(s, i) ==
  LET alone == PeerTold(Without(s, i), i, s[i], FALSE)
      Drop(t, p) == IF Live(t, p) THEN PeerTold(Without(t, p), p, t[p], TRUE) ELSE t
      drained == FoldLeft(Drop, alone, s[i].pending)
      l == s[i].listener
  IN  IF Listens(drained, l)
        THEN [drained EXCEPT ![l].pending = SelectSeq(@, LAMBDA p : p # i)]
        ELSE drained

\* release_observers and affected.
ReleaseObservers(s, i) ==
  {s[i].peer} \cup {s[p].peer : p \in ToSet(s[i].pending) \cap DOMAIN s}
-----------------------------------------------------------------------------
(* socket_gc::unreachable.  nodes maps ids to reference counts; an edge is one *)
(* queued reference.                                                           *)

Incoming(edges, n) == Cardinality({e \in edges : e.target = n})

Roots(nodes, edges) == {n \in DOMAIN nodes : nodes[n] > Incoming(edges, n)}

\* Mutant: what a reachable queue holds is not followed.
UnreachableDirect(nodes, edges) == DOMAIN nodes \ Roots(nodes, edges)

Unreachable(nodes, edges) ==
  LET reach[k \in 0..Cardinality(DOMAIN nodes)] ==
        IF k = 0 THEN Roots(nodes, edges)
        ELSE reach[k - 1] \cup {e.target : e \in {x \in edges : x.source \in reach[k - 1]}}
  IN  DOMAIN nodes \ reach[Cardinality(DOMAIN nodes)]

QueuedRights(e) ==
  UNION {ToSet(e.marks[k].rights) : k \in DOMAIN e.marks}
    \cup UNION {ToSet(e.recs[k].rights) : k \in DOMAIN e.recs}
=============================================================================
