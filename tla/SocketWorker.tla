----------------------------- MODULE SocketWorker -----------------------------
(***************************************************************************)
(* The provider worker of the UNIX sockets (posix/src/socket_native.rs):   *)
(* one thread that owns the descriptions, the bindings, the connect jobs,  *)
(* the receive and send waits, the sendto routes and the descriptor        *)
(* transfers.  It handles one request at a time, publishes the native      *)
(* level of every description the request may have changed, and retries    *)
(* what was waiting before it takes the next request.                      *)
(*                                                                         *)
(* w is everything the worker owns.  held is the set of descriptions some  *)
(* client has a descriptor for, path the inode the one pathname of the     *)
(* model resolves to (an inode is named by the socket bound to it), late   *)
(* the ids whose final release the kernel still has to deliver although    *)
(* the worker has given them up.  Reference counts are the kernel's: they  *)
(* are computed from who owns a handle.                                    *)
(***************************************************************************)
EXTENDS UnixStreams

CONSTANTS
  Workload,      \* name -> what a behaviour starts from (start, held, path) and what it
                 \* does (env: operations, lengths, numbers of ids, rights and transfers)
  MaxJobs,       \* connect jobs at a time
  MaxWaits,      \* receive and send waits at a time
  MaxRoute,      \* route ids that are minted
  RightsLimit    \* the worker's budget of retained references

VARIABLES w, held, path, late, load
vars == <<w, held, path, late, load>>

Outcome == {"created", "refused", "undelivered"}

Fresh == [sock |-> <<>>, next |-> 1, bind |-> {}, jobs |-> <<>>, waits |-> {},
          routes |-> <<>>, nextR |-> 1, stages |-> <<>>, nextT |-> 1, level |-> <<>>]

Pending(v, c) == \E k \in DOMAIN v.jobs : v.jobs[k].client = c /\ v.jobs[k].waiting
-----------------------------------------------------------------------------
(* References *)

StageRights(v) == UNION {ToSet(v.stages[t].rights) : t \in DOMAIN v.stages}
Leases(v) == StageRights(v) \cup UNION {QueuedRights(v.sock[i]) : i \in DOMAIN v.sock}

References(v, descriptors, i) ==
  Cardinality({i} \cap descriptors)
    + Cardinality({l \in Leases(v) : l.target = i})
    + Cardinality({x \in v.waits : x.socket = i})
    + Cardinality({r \in DOMAIN v.routes : v.routes[r].client = i})
    + Cardinality({t \in DOMAIN v.stages : v.stages[t].socket = i /\ v.stages[t].route = 0})

\* The kernel has an object for i: it is not waiting to be accepted.
Exported(v, i) == Live(v.sock, i) /\ v.sock[i].listener = 0
Retired(v, descriptors, i) == Exported(v, i) /\ References(v, descriptors, i) = 0

RightsUsed(v) ==
  LET Sum(S, Weight(_)) == FoldSet(LAMBDA x, sum : sum + Weight(x), 0, S)
      InQueue(i) == Cardinality(QueuedRights(v.sock[i]))
      InStage(t) == IF v.stages[t].state = "collecting" THEN v.stages[t].expected
                    ELSE Len(v.stages[t].rights)
  IN  Sum(DOMAIN v.sock, InQueue) + Sum(DOMAIN v.stages, InStage)
-----------------------------------------------------------------------------
(* signal: the levels of ids and of the senders that watch them *)

Level(v, i) == IF Pending(v, i) THEN {} ELSE Signals(v.sock, i)

\* Mutant: the senders that watch a socket are forgotten.
PublishPlain(v, ids) ==
  LET told == {i \in ids : Exported(v, i)}
  IN  [v EXCEPT !.level = [i \in (DOMAIN @ \cup told) \cap DOMAIN v.sock |->
                             IF i \in told THEN Level(v, i) ELSE @[i]]]

Publish(v, ids) ==
  LET told == {i \in ids \cup UNION {Observers(v.sock, i) : i \in ids} : Exported(v, i)}
  IN  [v EXCEPT !.level = [i \in (DOMAIN @ \cup told) \cap DOMAIN v.sock |->
                             IF i \in told THEN Level(v, i) ELSE @[i]]]

Affected(v, i) == {i, v.sock[i].peer}
-----------------------------------------------------------------------------
(* The three pumps *)

\* try_connect: the retained inode must still be bound and listening.
TryConnect(v, c, l) ==
  IF Live(v.sock, c) /\ v.sock[c].peer = 0 /\ v.sock[c].backlog = 0 /\ l \notin v.bind
    THEN "ECONNREFUSED" ELSE ConnectStatus(v.sock, v.next, c, l)

ConnectTo(v, c, l) == [v EXCEPT !.sock = Connected(@, v.next, c, l), !.next = @ + 1]

PumpJob(v, k) ==
  LET job == v.jobs[k]
      result == TryConnect(v, job.client, job.listener)
      done == [v EXCEPT !.jobs[k].waiting = FALSE, !.jobs[k].result = result]
  IN  IF ~job.waiting \/ result = "EAGAIN" THEN v
      ELSE IF result = "ok" THEN ConnectTo(done, job.client, job.listener) ELSE done

PumpConnects(v) ==
  LET after == FoldLeft(PumpJob, v, [k \in 1..Len(v.jobs) |-> k])
      done == {k \in DOMAIN v.jobs : v.jobs[k].waiting /\ ~after.jobs[k].waiting}
  IN  Publish(after, {after.jobs[k].client : k \in done}
                       \cup {after.jobs[k].listener : k \in {j \in done : after.jobs[j].result = "ok"}})

\* A wait that was ready stays ready.
PumpWaits(v) ==
  [v EXCEPT !.waits = {[x EXCEPT !.ready = @ \/ Awaited(v.sock, x.socket, x.cond)] : x \in @}]

RouteReady(v, r) ==
  r.complete \/ RecordSendTo(v.sock, r.client, r.socket, r.n) # "EAGAIN"
PumpRoutes(v) ==
  [v EXCEPT !.routes = [r \in DOMAIN @ |-> [@[r] EXCEPT !.ready = RouteReady(v, v.routes[r])]]]

\* Mutant: the loop forgets the connections that wait for the backlog.
SettledNoConnects(v) == PumpRoutes(PumpWaits(v))

\* What the loop does after a request.
Settled(v) == PumpRoutes(PumpWaits(PumpConnects(v)))
-----------------------------------------------------------------------------
(* The worker's state after a request, before it settles *)

Listening(v, i, n) == Publish([v EXCEPT !.sock[i].backlog = n], {i})

StreamWrite(v, i, n, rights) ==
  Publish([v EXCEPT !.sock = StreamSent(@, i, n, rights)], Affected(v, i))

RecordWrite(v, i, d, n, rights) ==
  Publish([v EXCEPT !.sock[d] = Pushed(@, n, i, rights)], {i, d})

Consumed(v, i, n) ==
  [v EXCEPT !.sock[i] = IF @.kind = "stream" THEN ReadOwned(@, n) ELSE Popped(@)]

ErrorTaken(v, i) == [v EXCEPT !.sock[i].error = FALSE]

\* OP_RELEASE: an id the worker no longer knows changes nothing.
ReleaseSocket(v, i) ==
  IF ~Live(v.sock, i) THEN v
  ELSE LET told == {i} \cup ReleaseObservers(v.sock, i)
       IN  Publish([v EXCEPT !.sock = Released(@, i), !.bind = @ \ {i}], told)

\* A lease a peek shares is no edge: its reference is also held outside the queue.
Edges(v) ==
  {[source |-> p[1], target |-> p[2].target, lease |-> p[2]] :
     p \in {q \in (DOMAIN v.sock) \X (Leases(v) \ StageRights(v)) :
              q[2] \in QueuedRights(v.sock[q[1]]) /\ q[2].target # 0}}

\* collect_record_cycles: a node the kernel knows no object of aborts it.
Garbage(v, descriptors) ==
  LET edges == Edges(v)
      nodes == {e.source : e \in edges} \cup {e.target : e \in edges}
  IN  IF \E i \in nodes : ~Exported(v, i) \/ Retired(v, descriptors, i) THEN {}
      ELSE Unreachable([i \in nodes |-> References(v, descriptors, i)], edges)

Collected(v, garbage) ==
  Publish([v EXCEPT !.sock = [i \in DOMAIN @ |->
                                IF i \in garbage THEN ClearQueue(@[i]) ELSE @[i]]], garbage)
-----------------------------------------------------------------------------
(* Requests.  A request that is refused, or that only asks, changes nothing: *)
(* Touch stands for all of them.                                             *)

Allowed(op) == op \in load.ops
Size == load.size
Rights == load.rights
MoreTransfers == w.nextT <= load.transfers
MoreIds(n) == w.next + n - 1 <= load.ids
Env == <<held, path, late, load>>

Create(kind, pair, outcome) ==
  LET n == IF pair THEN 2 ELSE 1
      ids == w.next..(w.next + n - 1)
      new == [i \in ids |-> Endpoint(kind, IF ~pair THEN 0 ELSE 2 * w.next + 1 - i)]
      made == [w EXCEPT !.sock = new @@ @, !.next = @ + n]
  IN  /\ Allowed("create") /\ Has(w.sock, n) /\ w.next + n - 1 <= MaxId /\ MoreIds(n)
      /\ w' = Settled(IF outcome = "refused" THEN [w EXCEPT !.next = @ + n]
                      ELSE Publish(made, ids))
      /\ held' = IF outcome = "created" THEN held \cup ids ELSE held
      /\ UNCHANGED <<path, late, load>>

Bind(i) ==
  /\ Allowed("bind") /\ i \in held /\ i \notin w.bind /\ path = 0
  /\ path' = i
  /\ w' = PumpConnects([w EXCEPT !.bind = @ \cup {i}])
  /\ UNCHANGED <<held, late, load>>

Unlink ==
  /\ Allowed("bind") /\ path # 0
  /\ path' = 0
  /\ UNCHANGED <<w, held, late, load>>

Listen(i, backlog) ==
  /\ Allowed("listen") /\ i \in held \cap w.bind
  /\ w.sock[i].kind # "datagram" /\ w.sock[i].peer = 0
  /\ w' = PumpConnects(Listening(w, i, backlog))
  /\ UNCHANGED Env

\* prepare_connect: the name must lead to a listening socket.
ConnectTarget(v) == Listens(v.sock, path)

\* start: connected at once, or a job for a blocking call while the backlog is full.
Start(v, c, l, blocking) ==
  LET result == TryConnect(v, c, l)
      job == [client |-> c, listener |-> l, waiting |-> TRUE, result |-> "none"]
  IN  CASE result = "ok" -> {ConnectTo(v, c, l)}
        [] result = "EAGAIN" /\ blocking /\ Len(v.jobs) < MaxJobs
             -> {[v EXCEPT !.jobs = Append(@, job)]}
        [] OTHER -> {}

Connect(c, blocking, delivered) ==
  /\ Allowed("connect") /\ c \in held /\ w.sock[c].kind # "datagram"
  /\ ~Pending(w, c) /\ ConnectTarget(w)
  /\ \E v \in Start(w, c, path, blocking /\ delivered) :
        w' = Settled(Publish(v, IF v.jobs = w.jobs THEN {c, path} ELSE {c}))
  /\ UNCHANGED Env

\* A committed result wins the race with the deadline.
Expire(k) ==
  /\ Allowed("connect") /\ w.jobs[k].waiting
  /\ w' = PumpConnects([w EXCEPT !.jobs[k].waiting = FALSE, !.jobs[k].result = "ETIMEDOUT"])
  /\ UNCHANGED Env

JobRelease(k) ==
  /\ Allowed("connect")
  /\ w' = PumpConnects(Publish([w EXCEPT !.jobs = RemoveAt(@, k)], {w.jobs[k].client}))
  /\ UNCHANGED Env

\* begin, commit or abort_accept in one request.  When the reply fails the
\* object of the aborted id is closed, and its release arrives late.
Accept(l, outcome) ==
  LET e == w.sock[l].pending[1]
  IN  /\ Allowed("accept") /\ l \in held /\ w.sock[l].pending # <<>>
      /\ w.next <= MaxId /\ MoreIds(1)
      /\ w' = Settled(
           IF outcome = "created"
             THEN Publish([w EXCEPT !.sock = Committed(@, l), !.next = @ + 1], {l, e})
             ELSE [w EXCEPT !.sock = Aborted(@, l, w.next), !.next = @ + 1])
      /\ held' = IF outcome = "created" THEN held \cup {e} ELSE held
      /\ late' = IF outcome = "undelivered" THEN late \cup {e} ELSE late
      /\ UNCHANGED <<path, load>>

Write(i, n) ==
  /\ Allowed("write") /\ i \in held /\ w.sock[i].kind = "stream"
  /\ StreamSend(w.sock, i, n, FALSE) = "ok"
  /\ w' = Settled(StreamWrite(w, i, n, <<>>))
  /\ UNCHANGED Env

Read(i, n) ==
  /\ Allowed("read") /\ i \in held /\ w.sock[i].kind = "stream"
  /\ \/ /\ StreamRead(w.sock, i) = "ok"
        /\ w' = Settled(Publish(Consumed(w, i, n), Affected(w, i)))
     \/ /\ StreamRead(w.sock, i) = "error"
        /\ w' = Settled(Publish(ErrorTaken(w, i), Affected(w, i)))
  /\ UNCHANGED Env

SendRecord(i, n) ==
  /\ Allowed("write") /\ i \in held /\ w.sock[i].kind # "stream"
  /\ RecordSend(w.sock, i, n) = "ok"
  /\ w' = Settled(RecordWrite(w, i, w.sock[i].peer, n, <<>>))
  /\ UNCHANGED Env

\* A request that ends in an error publishes nothing.
ReceiveRecord(i) ==
  /\ Allowed("read") /\ i \in held /\ w.sock[i].kind # "stream"
  /\ \/ /\ RecordRead(w.sock, i) = "ok"
        /\ w' = Settled(Publish(Consumed(w, i, 0), Affected(w, i)))
     \/ /\ RecordRead(w.sock, i) = "error"
        /\ w' = Settled(ErrorTaken(w, i))
  /\ UNCHANGED Env

TakeError(i) ==
  /\ Allowed("control") /\ i \in held /\ w.sock[i].error
  /\ w' = Settled(Publish(ErrorTaken(w, i), Affected(w, i)))
  /\ UNCHANGED Env

SetCapacity(i, side, n) ==
  /\ Allowed("capacity") /\ i \in held
  /\ w' = Settled(Publish(IF side = "receive" THEN [w EXCEPT !.sock[i].rcap = n]
                          ELSE [w EXCEPT !.sock[i].scap = n], Affected(w, i)))
  /\ UNCHANGED Env

Shutdown(i, how) ==
  /\ Allowed("shutdown") /\ i \in held /\ w.sock[i].peer # 0
  /\ w' = Settled(Publish([w EXCEPT !.sock = Shut(@, i, how)], Affected(w, i)))
  /\ UNCHANGED Env

Touch(i) ==
  /\ Allowed("control") /\ i \in held
  /\ w' = Settled(Publish(w, Affected(w, i)))
  /\ UNCHANGED Env

ConnectDatagram(c) ==
  /\ Allowed("peer") /\ c \in held /\ w.sock[c].kind = "datagram"
  /\ path \in w.bind /\ DatagramConnect(w.sock, c, path) = "ok"
  /\ w' = Settled(Publish([w EXCEPT !.sock = DatagramConnected(@, c, path)],
                          {path} \cup Affected(w, c)))
  /\ UNCHANGED Env

Disconnect(c) ==
  /\ Allowed("peer") /\ c \in held /\ w.sock[c].kind = "datagram"
  /\ w' = Settled(Publish([w EXCEPT !.sock = Disconnected(@, c)], Affected(w, c)))
  /\ UNCHANGED Env
-----------------------------------------------------------------------------
(* Waits and routes *)

\* start_condition; the pump that follows decides whether it is ready.
Awaiting(v, i, cond) ==
  [v EXCEPT !.waits = @ \cup {[socket |-> i, cond |-> cond, ready |-> FALSE]}]

WaitStart(i, cond) ==
  /\ Allowed("wait") /\ i \in held /\ CanAwait(w.sock, i, cond)
  /\ Cardinality(w.waits) < MaxWaits
  /\ \A x \in w.waits : x.socket # i \/ x.cond # cond
  /\ w' = Settled(Awaiting(w, i, cond))
  /\ UNCHANGED Env

WaitRelease(x) ==
  /\ Allowed("wait")
  /\ w' = [w EXCEPT !.waits = @ \ {x}]
  /\ UNCHANGED Env

RouteStart(c, n) ==
  LET route == [client |-> c, socket |-> path, n |-> n, complete |-> FALSE, ready |-> FALSE]
  IN  /\ Allowed("route") /\ c \in held /\ w.sock[c].kind = "datagram"
      /\ path \in w.bind /\ RecordSendTo(w.sock, c, path, n) \in {"ok", "EAGAIN"}
      /\ w.nextR <= MaxRoute
      /\ w' = Settled([w EXCEPT !.routes = (w.nextR :> route) @@ @, !.nextR = @ + 1])
      /\ UNCHANGED Env

RouteSend(r) ==
  LET route == w.routes[r]
  IN  /\ Allowed("route") /\ ~route.complete
      /\ RecordSendTo(w.sock, route.client, route.socket, route.n) = "ok"
      /\ w' = Settled(RecordWrite([w EXCEPT !.routes[r].complete = TRUE],
                                  route.client, route.socket, route.n, <<>>))
      /\ UNCHANGED Env

\* A transfer that was begun on the route keeps it.
RouteRelease(r) ==
  /\ Allowed("route") /\ \A t \in DOMAIN w.stages : w.stages[t].route # r
  /\ w' = [w EXCEPT !.routes = Restrict(@, DOMAIN @ \ {r})]
  /\ UNCHANGED Env
-----------------------------------------------------------------------------
(* Descriptor transfers *)

Stage(i, route, n, count, state, rights) ==
  [socket |-> i, route |-> route, n |-> n, expected |-> count, state |-> state,
   rights |-> rights]

Begin(i, route, n, count) ==
  /\ Allowed("transfer") /\ MoreTransfers
  /\ IF route = 0 THEN i \in held
     ELSE /\ route \in DOMAIN w.routes /\ ~w.routes[route].complete
          /\ i = w.routes[route].client /\ n = w.routes[route].n
  /\ w.sock[i].kind = "stream" \/ n <= MaxRecord
  /\ RightsUsed(w) + count <= RightsLimit
  /\ w' = Settled([w EXCEPT
              !.stages = (w.nextT :> Stage(i, route, n, count, "collecting", <<>>)) @@ @,
              !.nextT = @ + 1])
  /\ UNCHANGED Env

\* target is a description the client has a descriptor for, or 0 for a file.
AppendRight(t, target) ==
  LET stage == w.stages[t]
      lease == [stage |-> t, pos |-> Len(stage.rights), target |-> target]
  IN  /\ Allowed("transfer") /\ stage.state = "collecting"
      /\ Len(stage.rights) < stage.expected /\ target \in held \cup {0}
      /\ w' = Settled([w EXCEPT !.stages[t].rights = Append(@, lease)])
      /\ UNCHANGED Env

\* Payload and rights are queued together, once; an error leaves them ready.
Commit(t) ==
  LET stage == w.stages[t]
      done == [w EXCEPT !.stages[t].state = "complete", !.stages[t].rights = <<>>]
      i == stage.socket
      d == IF stage.route = 0 THEN w.sock[i].peer ELSE w.routes[stage.route].socket
  IN  /\ Allowed("transfer") /\ stage.state \in {"collecting", "ready"}
      /\ Len(stage.rights) = stage.expected
      /\ \/ /\ w.sock[i].kind = "stream"
            /\ StreamSend(w.sock, i, stage.n, stage.rights # <<>>) = "ok"
            /\ w' = Settled(StreamWrite(done, i, stage.n, stage.rights))
         \/ /\ w.sock[i].kind # "stream"
            /\ stage.route # 0 => ~w.routes[stage.route].complete
            /\ d # 0 /\ RecordSendTo(w.sock, i, d, stage.n) = "ok"
            /\ w' = Settled(RecordWrite(
                      [done EXCEPT !.routes = [r \in DOMAIN @ |->
                         IF r = stage.route THEN [@[r] EXCEPT !.complete = TRUE] ELSE @[r]]],
                      i, d, stage.n, stage.rights))
      /\ UNCHANGED Env

\* Receive or peek.  The receipt's id is spent even when its reply fails.
Receive(i, n, maximum, peek, delivered) ==
  LET e == w.sock[i]
      rights == IF e.kind = "stream" THEN ReadRights(e, n) ELSE e.recs[1].rights
      shown == SubSeq(rights, 1, Min({maximum, Len(rights)}))
      minted == IF shown = <<>> THEN w ELSE [w EXCEPT !.nextT = @ + 1]
      receipt == IF shown = <<>> THEN minted
                 ELSE [minted EXCEPT !.stages =
                         (w.nextT :> Stage(i, 0, n, 0, "received", shown)) @@ @]
  IN  /\ Allowed("receive") /\ i \in held
      /\ \/ /\ ReceiveStatus(w.sock, i) = "ok"
            /\ shown # <<>> => MoreTransfers
            /\ peek => RightsUsed(w) + Len(shown) <= RightsLimit
            /\ w' = Settled(IF ~delivered THEN minted
                            ELSE IF peek THEN receipt
                            ELSE Publish(Consumed(receipt, i, n), Affected(w, i)))
         \/ /\ ReceiveStatus(w.sock, i) = "error"
            /\ w' = Settled(ErrorTaken(w, i))
      /\ UNCHANGED Env

Deliver(t, k) ==
  LET stage == w.stages[t]
      taken == {stage.rights[j].target : j \in 1..k} \ {0}
  IN  /\ Allowed("receive") /\ stage.state = "received" /\ k \in 1..Len(stage.rights)
      /\ held' = held \cup taken
      /\ w' = Settled([w EXCEPT !.stages[t].rights = SubSeq(@, k + 1, Len(@))])
      /\ UNCHANGED <<path, late, load>>

StageRelease(t) ==
  /\ Allowed("transfer") \/ Allowed("receive")
  /\ w' = [w EXCEPT !.stages = Restrict(@, DOMAIN @ \ {t})]
  /\ UNCHANGED Env
-----------------------------------------------------------------------------
Close(i) ==
  /\ Allowed("close") /\ i \in held
  /\ held' = held \ {i}
  /\ UNCHANGED <<w, path, late, load>>

\* The kernel reports the last reference, or the end of an aborted object.
Release(i) ==
  /\ Retired(w, held, i) \/ i \in late
  /\ w' = Settled(ReleaseSocket(w, i))
  /\ late' = late \ {i}
  /\ UNCHANGED <<held, path, load>>

\* The periodic collection, due while some queue carries rights.
Collect ==
  /\ \E i \in DOMAIN w.sock : QueuedRights(w.sock[i]) # {}
  /\ w' = PumpRoutes(PumpWaits(Collected(w, Garbage(w, held))))
  /\ UNCHANGED Env

Init ==
  /\ \E name \in DOMAIN Workload :
       /\ w = Workload[name].start /\ held = Workload[name].held /\ path = Workload[name].path
       /\ load = Workload[name].env
  /\ late = {}

Conditions == [op : {"receive", "send"}, n : Size]

ClientNext ==
  \/ \E kind \in {"stream", "packet", "datagram"}, pair \in BOOLEAN, outcome \in Outcome :
       Create(kind, pair, outcome)
  \/ Unlink
  \/ \E i \in held :
       \/ Bind(i) \/ TakeError(i) \/ Touch(i) \/ Disconnect(i) \/ ConnectDatagram(i)
       \/ ReceiveRecord(i) \/ Close(i)
       \/ \E n \in 1..2 : Listen(i, n)
       \/ \E blocking, delivered \in BOOLEAN : Connect(i, blocking, delivered)
       \/ \E outcome \in Outcome : Accept(i, outcome)
       \/ \E n \in Size : Write(i, n) \/ SendRecord(i, n) \/ RouteStart(i, n)
       \/ \E n \in Size \ {0} : Read(i, n)
       \/ \E n \in 1..Capacity, side \in {"receive", "send"} : SetCapacity(i, side, n)
       \/ \E how \in {"read", "write", "both"} : Shutdown(i, how)
       \/ \E cond \in Conditions : cond.n # 0 /\ WaitStart(i, cond)
       \/ \E n \in Size \ {0}, maximum \in Rights, peek, delivered \in BOOLEAN :
            Receive(i, n, maximum, peek, delivered)
  \/ \E k \in DOMAIN w.jobs : Expire(k) \/ JobRelease(k)
  \/ \E x \in w.waits : WaitRelease(x)
  \/ \E r \in DOMAIN w.routes : RouteSend(r) \/ RouteRelease(r)
  \/ \E i \in DOMAIN w.sock, route \in {0} \cup DOMAIN w.routes, n \in Size, count \in Rights :
       Begin(i, route, n, count)
  \/ \E t \in DOMAIN w.stages :
       \/ Commit(t) \/ StageRelease(t)
       \/ \E target \in held \cup {0} : AppendRight(t, target)
       \/ \E k \in 1..2 : Deliver(t, k)

Next ==
  \/ ClientNext
  \/ \E i \in DOMAIN w.sock \cup late : Release(i)
  \/ Collect

Spec == Init /\ [][Next]_vars
-----------------------------------------------------------------------------
\* Connections are pairs whatever accept attempts fail: each end names the
\* other, or the other is gone; and the queue of a listener holds each of its
\* unaccepted connections once and nothing else (socket.rs, abort_accept:
\* "a delayed native release cannot erase this still-queued connection").
PeersAgree ==
  \A i \in DOMAIN w.sock :
    LET e == w.sock[i]
    IN  /\ e.kind # "datagram" /\ Live(w.sock, e.peer) => w.sock[e.peer].peer = i
        /\ e.listener # 0 => /\ Listens(w.sock, e.listener)
                             /\ i \in ToSet(w.sock[e.listener].pending)
        /\ IsInjective(e.pending)
        /\ \A p \in ToSet(e.pending) : Live(w.sock, p) /\ w.sock[p].listener = i

\* Every level a poller may sleep on is what the description is ready for: no
\* transition of one end, of a watching sender or of a waiting connect is left
\* unpublished.  Until the client acknowledges it, an expired job leaves the
\* level at zero; the peers of a description are told when it is released.
LevelsPublished ==
  \A i \in DOMAIN w.level :
    \/ w.level[i] = Level(w, i)
    \/ \E k \in DOMAIN w.jobs : w.jobs[k].client = i /\ w.jobs[k].result = "ETIMEDOUT"
    \/ Retired(w, held, w.sock[i].peer)

\* Nothing that can go on is left waiting when the worker takes its next
\* request: no connect whose listener has room or is gone, no wait whose
\* condition holds, no route whose level is not what a send would meet.
NoneStranded ==
  /\ \A k \in DOMAIN w.jobs :
       w.jobs[k].waiting => TryConnect(w, w.jobs[k].client, w.jobs[k].listener) = "EAGAIN"
  /\ \A x \in w.waits : Awaited(w.sock, x.socket, x.cond) => x.ready
  /\ \A r \in DOMAIN w.routes : w.routes[r].ready = RouteReady(w, w.routes[r])

\* The descriptions somebody can still reach: through a descriptor, a wait, a
\* route or a transfer, as an unaccepted connection of such a listener, or
\* through the rights queued at such a description.
Reachable ==
  LET roots == held \cup {x.socket : x \in w.waits}
                 \cup {w.routes[r].client : r \in DOMAIN w.routes}
                 \cup {w.stages[t].socket : t \in DOMAIN w.stages}
                 \cup {l.target : l \in StageRights(w)}
      More(S) == {l.target : l \in UNION {QueuedRights(w.sock[i]) : i \in S \cap DOMAIN w.sock}}
                   \cup UNION {ToSet(w.sock[i].pending) : i \in S \cap DOMAIN w.sock}
      reach[k \in 0..Cardinality(DOMAIN w.sock)] ==
        IF k = 0 THEN roots ELSE reach[k - 1] \cup More(reach[k - 1])
  IN  reach[Cardinality(DOMAIN w.sock)]

\* Of every step: a collection discards only what nobody can receive, and, when no
\* unaccepted connection and no pending release make it give up, everything
\* of that kind (socket.rs, collect_record_cycles: "Nothing is discarded until
\* EVERY lookup, sample and allocation succeeds").
CollectsGarbage ==
  Collect =>
    LET lost == {i \in DOMAIN w.sock : QueuedRights(w'.sock[i]) # QueuedRights(w.sock[i])}
        dead == {i \in DOMAIN w.sock \ Reachable : QueuedRights(w.sock[i]) # {}}
    IN  /\ lost \subseteq dead
        /\ (\A i \in DOMAIN w.sock : Exported(w, i) /\ ~Retired(w, held, i))
             => {i \in dead : \E l \in QueuedRights(w.sock[i]) : l.target # 0} \subseteq lost

\* A queue's markers stand exactly where the rights were sent, in order and
\* within the bytes, whatever reads split the messages; its charge is that of
\* the records it holds; and no reader ever holds rights it was not sent with.
QueuesExact ==
  \A i \in DOMAIN w.sock :
    LET e == w.sock[i]
    IN  /\ {<<m.start, m.rights>> : m \in ToSet(e.marks)}
             = {<<k - 1, e.bytes[k]>> : k \in {j \in DOMAIN e.bytes : e.bytes[j] # <<>>}}
        /\ \A m \in ToSet(e.marks) : m.start < m.end /\ m.end <= Len(e.bytes)
        /\ \A a, b \in DOMAIN e.marks : a < b => e.marks[a].end <= e.marks[b].start
        /\ e.charged = FoldLeft(LAMBDA sum, r : sum + Charge(r.len), 0, e.recs)
        /\ Len(e.bytes) <= Capacity /\ e.charged <= Capacity
=============================================================================
