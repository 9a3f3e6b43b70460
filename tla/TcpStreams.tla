------------------------------ MODULE TcpStreams ------------------------------
(***************************************************************************)
(* TCP sockets, from the client's descriptor to the connection table.      *)
(* Two services cooperate: the socket worker of posix.service keeps a      *)
(* Stream per open description and a job per blocking connect              *)
(* (posix/src/inet_stream.rs, inet_stream_socket.rs), and network.service  *)
(* keeps a resource row per stream over the shared TCP table               *)
(* (network/src/stream.rs, stream_provider.rs).                            *)
(*                                                                         *)
(* The worker calls the network service synchronously; the network service *)
(* serves one request at a time and ends each by advancing TCP and         *)
(* publishing the levels of its resources, so those levels are a function  *)
(* of its state (Level).  TCP progresses between any two calls: the cancel *)
(* of a connect, three calls, is the one handler split into its calls      *)
(* (work).  A description and its network resource carry one number.  The  *)
(* TCP machine itself is the library's: Progress lets it move as TCP may.  *)
(***************************************************************************)
EXTENDS Naturals, FiniteSets, FiniteSetsExt, Functions, TLC

CONSTANT Workload   \* the instances of a run: bounds and what clients ask for

VARIABLES net,    \* socket -> row of the network service
          tcb,    \* connection -> [owner, state, recv, room, loop]
          row,    \* description -> Stream and its forwarded levels
          job,    \* description -> blocking connect waiting for it
          held,   \* descriptions and jobs ("job", d) clients still hold
          closing,\* sockets the worker closed, their release not yet served
          up,     \* whether the interface has an address
          work,   \* the cancel in progress, or Idle
          nextSock, nextTcb, events,
          load    \* the instance of this behaviour

tcpVars == <<net, tcb, row, job, held, closing, up, work, nextSock, nextTcb,
             events, load>>

Levels == {"R", "W", "P"}
None == "none"
Idle == [stage |-> "idle", d |-> 0, reason |-> None]

TcpInit == /\ net = <<>> /\ tcb = <<>> /\ row = <<>> /\ job = <<>> /\ held = {}
           /\ closing = {} /\ up = TRUE /\ work = Idle
           /\ nextSock = 1 /\ nextTcb = 1 /\ events = 0 /\ load \in Workload

Without(f, D) == Restrict(f, DOMAIN f \ D)

----------------------------------------------------------------------------
\* network.service: rows over the TCP table.

NewRow(addr) == [bind |-> "idle", tcp |-> 0, addr |-> addr, rshut |-> FALSE, wshut |-> FALSE,
                 released |-> FALSE, connected |-> FALSE, failure |-> None, pending |-> None]

\* A failure is recorded once, and once more as the error to take.
Fail(r, e) == IF r.failure = None THEN [r EXCEPT !.failure = e, !.pending = e] ELSE r

Eof(state) == state \in {"CloseWait", "LastAck", "TimeWait", "Closed"}

Queue(t, d) == {c \in DOMAIN t : t[c].owner = d}
Unaccepted(n, t, d) == {c \in Queue(t, d) : ~\E s \in DOMAIN n : n[s].bind = "conn" /\ n[s].tcp = c}

Status(n, t, d) ==
    LET r == n[d] IN
    IF r.failure # None
    THEN [r |-> TRUE, w |-> TRUE, p |-> TRUE, connecting |-> FALSE, error |-> r.pending]
    ELSE CASE r.bind = "idle" ->
                [r |-> FALSE, w |-> FALSE, p |-> FALSE, connecting |-> FALSE, error |-> r.pending]
           [] r.bind = "listener" ->
                [r |-> Unaccepted(n, t, d) # {}, w |-> FALSE, p |-> FALSE,
                 connecting |-> FALSE, error |-> r.pending]
           [] OTHER ->
                LET c == t[r.tcp] IN
                [r |-> c.recv \/ Eof(c.state) \/ r.rshut,
                 w |-> ~r.wshut /\ c.state \in {"Established", "CloseWait"} /\ c.room,
                 p |-> Eof(c.state),
                 connecting |-> c.state = "SynSent",
                 error |-> r.pending]

\* What pump signals on the resource.
Level(n, t, d) ==
    LET s == Status(n, t, d) IN
    (IF s.r THEN {"R"} ELSE {}) \cup (IF s.w THEN {"W"} ELSE {}) \cup (IF s.p THEN {"P"} ELSE {})

\* The end of advance: connections that opened, connections that were reset,
\* and input nobody will read.
Marked(n, t) ==
    [s \in DOMAIN n |->
       IF n[s].bind # "conn" THEN n[s]
       ELSE LET c == t[n[s].tcp]
                r == [n[s] EXCEPT !.connected = @ \/ c.state \in {"Established", "CloseWait"}]
            IN IF c.state = "Reset" THEN Fail(r, IF r.connected THEN "reset" ELSE "refused") ELSE r]

Drained(n, t) ==
    [c \in DOMAIN t |->
       IF \E s \in DOMAIN n : n[s].bind = "conn" /\ n[s].tcp = c /\ n[s].rshut
       THEN [t[c] EXCEPT !.recv = FALSE] ELSE t[c]]

\* Released rows whose connection ended go with it.
Ended(n, t) == {s \in DOMAIN n : n[s].released /\ t[n[s].tcp].state \in {"Closed", "Reset"}}

Advanced(n, t) ==
    LET marked == Marked(n, t)
        gone == Ended(n, t)
    IN [net |-> Without(marked, gone), tcb |-> Without(Drained(n, t), {n[s].tcp : s \in gone})]

\* request_close on a connection of the library.
CloseRequested(c) ==
    [c EXCEPT !.state = CASE c.state = "Established" -> "FinWait"
                          [] c.state = "CloseWait" -> "LastAck"
                          [] OTHER -> c.state]

\* release of a listener that leaves the connections nobody accepted.
ReleaseRowLeaves(n, t, d) ==
    IF n[d].bind = "conn" THEN [net |-> Without(n, {d}), tcb |-> Without(t, {n[d].tcp})]
    ELSE [net |-> Without(n, {d}), tcb |-> t]

\* release: a connection with nothing unread closes gracefully and lingers;
\* a listener takes the connections nobody accepted along.
ReleaseRow(n, t, d) ==
    LET r == n[d] IN
    CASE r.bind = "idle" -> [net |-> Without(n, {d}), tcb |-> t]
      [] r.bind = "listener" -> [net |-> Without(n, {d}), tcb |-> Without(t, Unaccepted(n, t, d))]
      [] OTHER ->
           LET c == t[r.tcp] IN
           IF c.recv \/ c.state \in {"SynSent", "Reset", "Closed"}
           THEN [net |-> Without(n, {d}), tcb |-> Without(t, {r.tcp})]
           ELSE [net |-> [n EXCEPT ![d].released = TRUE, ![d].rshut = TRUE],
                 tcb |-> [t EXCEPT ![r.tcp] = CloseRequested(c)]]

\* cancel_connect: a connection that opened stays; an unopened one is aborted.
Committed(n, t, d) == n[d].connected \/ t[n[d].tcp].state \in {"Established", "CloseWait"}

Aborted(n, t, d) ==
    [net |-> [n EXCEPT ![d] = Fail(@, "aborted")], tcb |-> [t EXCEPT ![n[d].tcp].state = "Reset"]]

\* Requests on a resource, over s = [net, tcb, ...]; they need a row that has not failed.
Opened(s, d) == [s EXCEPT !.net = (d :> NewRow("any")) @@ @]

NetListen(s, d) == [s EXCEPT !.net[d].bind = "listener"]

NetConnect(s, d, c, loop) ==
    [s EXCEPT !.tcb = (c :> [owner |-> d, state |-> "SynSent", recv |-> FALSE,
                             room |-> TRUE, loop |-> loop]) @@ @,
              !.net[d].bind = "conn", !.net[d].tcp = c,
              !.net[d].addr = IF loop THEN "loop" ELSE "iface"]

\* accept moves a connection of the queue to a resource of its own.
NetAccept(s, c, d) ==
    [s EXCEPT !.net = (d :> [NewRow(IF s.tcb[c].loop THEN "loop" ELSE "iface")
                               EXCEPT !.bind = "conn", !.tcp = c, !.connected = TRUE]) @@ @]

NetSend(s, d, room) == [s EXCEPT !.tcb[s.net[d].tcp].room = room]
NetReceive(s, d, more) == [s EXCEPT !.tcb[s.net[d].tcp].recv = more]

NetShutdown(s, d, read, write) ==
    [s EXCEPT !.net[d].rshut = @ \/ read, !.net[d].wshut = @ \/ write,
              !.tcb[s.net[d].tcp] = IF write /\ ~s.net[d].wshut THEN CloseRequested(@) ELSE @]

----------------------------------------------------------------------------
\* posix.service: streams, over s = [net, tcb, row, job].

NewStream(phase) == [phase |-> phase, rshut |-> FALSE, wshut |-> FALSE, eof |-> FALSE,
                     failure |-> None, pending |-> None, forwarded |-> {}]

StreamFail(r, e) == IF r.failure = None
                    THEN [r EXCEPT !.failure = e, !.pending = e, !.phase = "Failed"] ELSE r

\* What the completed observation makes of the stream.
Settled(r, o) ==
    CASE r.phase = "Connecting" /\ ~o.connecting /\ o.w -> [r EXCEPT !.phase = "Connected", !.eof = o.p]
      [] r.phase = "Connecting" /\ ~o.connecting -> StreamFail(r, "eio")
      [] r.phase = "Connected" /\ o.connecting -> StreamFail(r, "eio")
      [] r.phase = "Connected" -> [r EXCEPT !.eof = @ \/ o.p]
      [] OTHER -> r

\* A stream an inconsistent observation fails makes refresh fail.
SettledIn(s, d, o) ==
    LET r == Settled(s.row[d], o) IN
    [s |-> [s EXCEPT !.row[d] = r], ok |-> s.row[d].failure = r.failure, o |-> o]

\* refresh, given what it observed, when the failure is recorded only once it
\* was consumed below.
ObservedTakesFirst(s, d, take, o) ==
    CASE o.error = None -> SettledIn(s, d, o)
      [] o.error # None /\ take = "kept" -> [s |-> s, ok |-> FALSE, o |-> o]
      [] o.error # None /\ take = "lost" ->
           [s |-> [s EXCEPT !.net[d].pending = None], ok |-> FALSE, o |-> o]
      [] OTHER -> SettledIn([s EXCEPT !.net[d].pending = None,
                                      !.row[d] = StreamFail(@, o.error)], d, o)

\* refresh, given what it observed: a failure of the transport is retained
\* before it is consumed below; the consuming call may fail before (kept) or
\* after (lost) it took effect.
Observed(s, d, take, o) ==
    CASE o.error = None -> SettledIn(s, d, o)
      [] o.error # None /\ take = "kept" ->
           [s |-> [s EXCEPT !.row[d] = StreamFail(@, o.error)], ok |-> FALSE, o |-> o]
      [] o.error # None /\ take = "lost" ->
           [s |-> [s EXCEPT !.row[d] = StreamFail(@, o.error), !.net[d].pending = None],
            ok |-> FALSE, o |-> o]
      [] OTHER -> SettledIn([s EXCEPT !.net[d].pending = None,
                                      !.row[d] = StreamFail(@, o.error)], d, o)

Refresh(s, d, take) == Observed(s, d, take, Status(s.net, s.tcb, d))

\* connect_result: "pending", "ok" or the failure.
Outcome(f, d) == CASE ~f.ok -> "eio"
                   [] f.s.row[d].phase = "Connected" -> "ok"
                   [] f.s.row[d].phase = "Connecting" -> "pending"
                   [] OTHER -> f.s.row[d].failure

NativeSignals(r, w, p) ==
    (IF r THEN {"R"} ELSE {}) \cup (IF w THEN {"W"} ELSE {}) \cup (IF p THEN {"P"} ELSE {})

Readiness(r, o) ==
    LET failed == r.failure # None
        readClosed == r.rshut \/ r.eof \/ failed
        writeClosed == r.wshut \/ failed
    IN CASE r.phase = "Listening" -> IF o.r THEN {"R"} ELSE {}
         [] r.phase = "Connecting" -> {}
         [] r.phase \in {"Fresh", "Bound"} -> Levels
         [] OTHER -> NativeSignals(o.r \/ readClosed, o.w \/ writeClosed,
                                   failed \/ (readClosed /\ writeClosed))

\* Registry::result without expiry: a result, once there, stays.
Answered(f, d, e) == IF e = "pending" THEN f.s ELSE [f.s EXCEPT !.job[d].result = e]

Tried(f, d) == Answered(f, d, Outcome(f, d))

JobResult(s, d, take) == IF s.job[d].result # None THEN s ELSE Tried(Refresh(s, d, take), d)

Forwarded(f, d) ==
    [f.s EXCEPT !.row[d].forwarded = IF f.ok THEN Readiness(f.s.row[d], f.o) ELSE Levels]

Signalled(s) ==
    [s EXCEPT !.job = [d \in DOMAIN s.job |->
                         [s.job[d] EXCEPT !.signalled = s.job[d].result # None]]]

\* Registry::pump, at the head of every turn of the worker's loop.
Pump(s, take) ==
    FoldSet(LAMBDA d, x : Forwarded(Refresh(x, d, take), d),
            Signalled(FoldSet(LAMBDA d, x : JobResult(x, d, take), s, DOMAIN s.job)),
            DOMAIN s.row)

\* watches for input and room only.
WatchedData(d) == {"R", "W"} \ row[d].forwarded

\* The levels the worker waits for on the resource of d.
Watched(d) == Levels \ row[d].forwarded

State == [net |-> net, tcb |-> tcb, row |-> row, job |-> job]
Takes == load.takes

\* The network service's own turn ends with advance.
Became(n, t) == \E a \in {Advanced(n, t)} : net' = a.net /\ tcb' = a.tcb

\* A handler of the worker that leaves s, and the turn it ends.
Turn(s, take) == \E p \in {Pump(s, take)} :
                 Became(p.net, p.tcb) /\ row' = p.row /\ job' = p.job

Free == work = Idle
Frame == UNCHANGED <<up, work, events>>

----------------------------------------------------------------------------
\* Requests to the worker.

\* CREATE: a failed native object or reply drops the stream again.
Create ==
    \E delivered \in BOOLEAN, take \in {"ok"} :
       LET d == nextSock IN
       /\ Free /\ d <= load.sockets
       /\ nextSock' = d + 1
       /\ IF delivered
          THEN /\ Turn([Opened(State, d) EXCEPT !.row = (d :> NewStream("Fresh")) @@ row], take)
               /\ held' = held \cup {<<"d", d>>} /\ UNCHANGED closing
          ELSE /\ Turn(Opened(State, d), take)
               /\ closing' = closing \cup {d} /\ UNCHANGED held
       /\ Frame /\ UNCHANGED nextTcb

Bind ==
    \E d \in DOMAIN row, addr \in {"any", "iface"} :
       /\ Free /\ <<"d", d>> \in held /\ row[d].phase = "Fresh"
       /\ addr = "iface" => up
       /\ Turn([State EXCEPT !.row[d].phase = "Bound", !.net[d].addr = addr], "ok")
       /\ Frame /\ UNCHANGED <<held, closing, nextSock, nextTcb>>

Listen ==
    \E d \in DOMAIN row :
       /\ Free /\ <<"d", d>> \in held
       /\ row[d].phase \in {"Fresh", "Bound"} /\ net[d].failure = None
       /\ Turn([NetListen(State, d) EXCEPT !.row[d].phase = "Listening"], "ok")
       /\ Frame /\ UNCHANGED <<held, closing, nextSock, nextTcb>>

Accepting(s, c, d) == [NetAccept(s, c, d) EXCEPT !.row = (d :> NewStream("Connected")) @@ @]

\* accept: the description is dropped when its peer cannot be read, when its
\* native object fails or when the reply is lost.
Accept ==
    \E l \in DOMAIN row, delivered \in BOOLEAN, take \in Takes :
       LET d == nextSock IN
       /\ Free /\ <<"d", l>> \in held /\ d <= load.sockets
       /\ row[l].phase = "Listening" /\ net[l].failure = None
       /\ \E c \in Unaccepted(net, tcb, l) :
            LET f == Refresh(Accepting(State, c, d), d, take)
            IN IF delivered /\ f.ok
               THEN /\ Turn(f.s, take)
                    /\ held' = held \cup {<<"d", d>>} /\ UNCHANGED closing
               ELSE /\ Turn([f.s EXCEPT !.row = Without(@, {d})], take)
                    /\ closing' = closing \cup {d} /\ UNCHANGED held
       /\ nextSock' = d + 1
       /\ Frame /\ UNCHANGED nextTcb

\* Registry::connect of a blocking socket: the job that waits for the result.
Started(s, d) == [s EXCEPT !.job = (d :> [result |-> None, signalled |-> FALSE]) @@ job]

\* connect: the job of a blocking connect keeps the description alive.  A job
\* that cannot be delivered is released at once.
Attempt(s, d, c, loop) == [NetConnect(s, d, c, loop) EXCEPT !.row[d].phase = "Connecting"]

Connect ==
    \E d \in DOMAIN row, loop, blocking, delivered \in BOOLEAN :
       LET c == nextTcb
           s == Attempt(State, d, c, loop)
       IN
       /\ Free /\ <<"d", d>> \in held /\ load.connects /\ c <= load.connections
       /\ row[d].phase \in {"Fresh", "Bound"} /\ net[d].failure = None
       /\ loop \/ up
       /\ net[d].addr # "iface" \/ ~loop
       /\ ~blocking => delivered
       /\ nextTcb' = c + 1
       /\ IF blocking
          THEN Turn(Started(s, d), "ok")
          ELSE Turn(s, "ok")
       /\ held' = IF blocking /\ delivered THEN held \cup {<<"job", d>>} ELSE held
       /\ Frame /\ UNCHANGED <<closing, nextSock>>

Live(d) == Free /\ <<"d", d>> \in held
Quiet == Frame /\ UNCHANGED <<held, closing, nextSock, nextTcb>>

\* send and receive: the pending error first, then what the phase allows.
Send ==
    \E d \in DOMAIN row, take \in Takes, room \in BOOLEAN :
       LET f == Refresh(State, d, take)
           r == f.s.row[d]
       IN
       /\ Live(d) /\ f.ok
       /\ IF r.pending # None THEN Turn([f.s EXCEPT !.row[d].pending = None], take)
          ELSE /\ r.phase = "Connected" /\ ~r.wshut /\ f.o.w
               /\ Turn(NetSend(f.s, d, room), take)
       /\ Quiet

Receive ==
    \E d \in DOMAIN row, take \in Takes, more \in BOOLEAN :
       LET f == Refresh(State, d, take)
           r == f.s.row[d]
       IN
       /\ Live(d) /\ f.ok
       /\ IF r.pending # None THEN Turn([f.s EXCEPT !.row[d].pending = None], take)
          ELSE /\ r.phase = "Connected" /\ ~r.rshut
               /\ IF tcb[net[d].tcp].recv
                  THEN Turn(NetReceive(f.s, d, more), take)
                  ELSE f.o.p /\ Turn([f.s EXCEPT !.row[d].eof = TRUE], take)
       /\ Quiet

Shutdown ==
    \E d \in DOMAIN row, read, write \in BOOLEAN :
       LET f == Refresh(State, d, "ok") IN
       /\ Live(d) /\ (read \/ write) /\ f.s.row[d].phase = "Connected"
       /\ Turn([NetShutdown(f.s, d, read, write) EXCEPT
                  !.row[d].rshut = @ \/ read, !.row[d].wshut = @ \/ write], "ok")
       /\ Quiet

TakeError ==
    \E d \in DOMAIN row, take \in Takes :
       LET f == Refresh(State, d, take) IN
       /\ Live(d) /\ f.ok /\ f.s.row[d].pending # None
       /\ Turn([f.s EXCEPT !.row[d].pending = None], take)
       /\ Quiet

----------------------------------------------------------------------------
\* Jobs.  A cancel asks for the result, cancels below, and, when the
\* connection had opened after all, asks for the result again.

\* The end of a cancel with result e: an expiring job records it, a released
\* one is gone with its reference to the description.
Concluded(s, d, reason, e) ==
    IF reason = "timedout" THEN [s EXCEPT !.job[d].result = e]
    ELSE [s EXCEPT !.job = Without(@, {d})]

\* CONTROL_CONNECT_EXPIRE of a job the client holds, or the release of a job it
\* dropped; both leave a job that has its result alone.
CancelBegins ==
    \E d \in DOMAIN job, take \in Takes :
       LET reason == IF <<"job", d>> \in held THEN "timedout" ELSE "cancelled"
           f == Refresh(State, d, take)
           e == Outcome(f, d)
       IN
       /\ Free /\ job[d].result = None
       /\ IF e = "pending"
          THEN /\ Became(f.s.net, f.s.tcb) /\ row' = f.s.row /\ job' = f.s.job
               /\ work' = [stage |-> "cancel", d |-> d, reason |-> reason]
          ELSE Turn(Concluded(f.s, d, reason, e), take) /\ UNCHANGED work
       /\ UNCHANGED <<up, events, held, closing, nextSock, nextTcb>>

Cancel ==
    \E take \in Takes :
       LET d == work.d
           lower == Aborted(net, tcb, d)
           s == State
       IN
       /\ work.stage = "cancel"
       /\ IF net[d].failure # None
          THEN /\ Turn(Concluded([s EXCEPT !.row[d] = IF net[d].failure = "netdown" THEN @
                                                      ELSE StreamFail(@, net[d].failure)],
                                 d, work.reason, net[d].failure), take)
               /\ work' = Idle
          ELSE IF Committed(net, tcb, d)
          THEN /\ work' = [work EXCEPT !.stage = "confirm"]
               /\ UNCHANGED <<net, tcb, row, job>>
          ELSE /\ Turn(Concluded([s EXCEPT !.net = lower.net, !.tcb = lower.tcb,
                                           !.row[d] = StreamFail(@, work.reason)],
                                 d, work.reason, work.reason), take)
               /\ work' = Idle
       /\ UNCHANGED <<up, events, held, closing, nextSock, nextTcb>>

Confirm ==
    \E take \in Takes :
       LET d == work.d
           f == Refresh(State, d, take)
           e == Outcome(f, d)
       IN
       /\ work.stage = "confirm"
       /\ Turn(IF e = "pending"
               THEN Concluded([f.s EXCEPT !.row[d] = StreamFail(@, "eio")], d, work.reason, "eio")
               ELSE Concluded(f.s, d, work.reason, e), take)
       /\ work' = Idle
       /\ UNCHANGED <<up, events, held, closing, nextSock, nextTcb>>

\* The release of a job that has its result.
ReleaseJob ==
    \E d \in DOMAIN job :
       /\ Free /\ <<"job", d>> \notin held /\ job[d].result # None
       /\ Turn([State EXCEPT !.job = Without(@, {d})], "ok")
       /\ Quiet

\* A description nobody holds any more, the source of a job included.
ReleaseDescription ==
    \E d \in DOMAIN row :
       /\ Free /\ <<"d", d>> \notin held /\ d \notin DOMAIN job
       /\ Turn([State EXCEPT !.row = Without(@, {d})], "ok")
       /\ closing' = closing \cup {d}
       /\ Frame /\ UNCHANGED <<held, nextSock, nextTcb>>

\* The worker wakes because a level it watches rose.
Wake ==
    \E d \in DOMAIN row, take \in Takes :
       /\ Free /\ Level(net, tcb, d) \cap Watched(d) # {}
       /\ Turn(State, take)
       /\ Quiet

ClientCloses ==
    \E h \in held :
       /\ held' = held \ {h}
       /\ UNCHANGED <<net, tcb, row, job, closing, up, work, nextSock, nextTcb, events>>

----------------------------------------------------------------------------
\* The network service on its own.

\* OP_RELEASE of a resource whose last reference the worker dropped.
NetworkRelease ==
    \E d \in closing :
       LET a == ReleaseRow(net, tcb, d) IN
       /\ Became(a.net, a.tcb)
       /\ closing' = closing \ {d}
       /\ UNCHANGED <<row, job, held, up, work, nextSock, nextTcb, events>>

Outside == events < load.events /\ events' = events + 1
           /\ UNCHANGED <<row, job, held, closing, work, nextSock>>

\* What segments and timers may do to one connection.
Moves(c) ==
    CASE c.state = "SynSent" -> {[c EXCEPT !.state = x] : x \in {"Established", "Reset"}}
      [] c.state = "Established" -> {[c EXCEPT !.state = x] : x \in {"CloseWait", "Reset"}}
                                      \cup {[c EXCEPT !.recv = TRUE], [c EXCEPT !.room = TRUE]}
      [] c.state = "CloseWait" -> {[c EXCEPT !.state = "Reset"], [c EXCEPT !.room = TRUE]}
      [] c.state = "FinWait" -> {[c EXCEPT !.state = x] : x \in {"TimeWait", "Reset"}}
                                  \cup {[c EXCEPT !.recv = TRUE]}
      [] c.state = "LastAck" -> {[c EXCEPT !.state = x] : x \in {"Closed", "Reset"}}
      [] c.state = "TimeWait" -> {[c EXCEPT !.state = "Closed"]}
      [] OTHER -> {}

Progress ==
    \E c \in DOMAIN tcb :
       /\ \E moved \in Moves(tcb[c]) : Became(net, [tcb EXCEPT ![c] = moved])
       /\ Outside /\ UNCHANGED <<up, nextTcb>>

\* A connection completes on a listener.
Incoming ==
    \E l \in DOMAIN net, loop \in BOOLEAN :
       /\ net[l].bind = "listener" /\ net[l].failure = None /\ nextTcb <= load.connections
       /\ IF loop THEN net[l].addr = "any" ELSE up
       /\ Became(net, (nextTcb :> [owner |-> l, state |-> "Established", recv |-> FALSE,
                                   room |-> TRUE, loop |-> loop]) @@ tcb)
       /\ nextTcb' = nextTcb + 1
       /\ Outside /\ UNCHANGED up

\* A connection nobody accepted yet ends: the table drops it.
IncomingLost ==
    \E l \in DOMAIN net : \E c \in Unaccepted(net, tcb, l) :
       /\ net[l].bind = "listener"
       /\ Became(net, Without(tcb, {c}))
       /\ Outside /\ UNCHANGED <<up, nextTcb>>

\* A retransmission limit leaves the connection in its state.
TimedOut ==
    \E d \in DOMAIN net :
       /\ net[d].bind = "conn" /\ tcb[net[d].tcp].state \notin {"Closed", "Reset", "TimeWait"}
       /\ Became([net EXCEPT ![d] = Fail(@, "timeout")], tcb)
       /\ Outside /\ UNCHANGED <<up, nextTcb>>

\* fail_external: a packet that cannot be sent.
FailExternal ==
    \E d \in DOMAIN net :
       /\ net[d].bind = "conn"
       /\ Became([net EXCEPT ![d] = Fail(@, "unreachable")], [tcb EXCEPT ![net[d].tcp].state = "Reset"])
       /\ Outside /\ UNCHANGED <<up, nextTcb>>

\* configure: losing the address resets what is bound to it.
Configure ==
    LET lost == {s \in DOMAIN net : net[s].addr = "iface"}
        failing == {s \in lost : net[s].bind # "idle"}
    IN
    /\ up' = ~up
    /\ IF up
       THEN Became([s \in DOMAIN net |-> IF s \in failing THEN Fail(net[s], "netdown") ELSE net[s]],
                   [c \in DOMAIN tcb |-> IF tcb[c].loop THEN tcb[c]
                                         ELSE [tcb[c] EXCEPT !.state = "Reset"]])
       ELSE UNCHANGED <<net, tcb>>
    /\ Outside /\ UNCHANGED nextTcb

\* A released connection that lingers past its deadline.
Linger ==
    \E d \in DOMAIN net :
       /\ net[d].released
       /\ Became(Without(net, {d}), Without(tcb, {net[d].tcp}))
       /\ Outside /\ UNCHANGED <<up, nextTcb>>

TcpStep == \/ Create \/ Bind \/ Listen \/ Accept \/ Connect
           \/ Send \/ Receive \/ Shutdown \/ TakeError
           \/ CancelBegins \/ Cancel \/ Confirm \/ ReleaseJob \/ ReleaseDescription
           \/ Wake \/ ClientCloses \/ NetworkRelease
           \/ Progress \/ Incoming \/ IncomingLost \/ TimedOut \/ FailExternal
           \/ Configure \/ Linger

TcpNext == TcpStep /\ UNCHANGED load

TcpSpec == TcpInit /\ [][TcpNext]_tcpVars

----------------------------------------------------------------------------
\* A connect has one outcome.  What a blocking connect was told is what became
\* of the stream: success only for a stream that opened, a refusal, a timeout or
\* a cancellation only for one that is failed here and below (except for the
\* transient errors of the calls between the services, "eio").  A failure the
\* transport reported and that was consumed is never forgotten: no stream whose
\* transport failed and gave its error away still counts as connecting or open
\* (inet_stream.rs refresh, connect_result, cancel_connect).
ConnectsExact ==
    /\ \A d \in DOMAIN job :
         LET e == job[d].result IN
         /\ e = "ok" => net[d].connected
         /\ e \notin {None, "ok", "eio"} => row[d].failure # None /\ net[d].failure # None
    /\ \A d \in DOMAIN row :
         /\ net[d].failure # None /\ net[d].pending = None => row[d].phase = "Failed"
         /\ row[d].phase = "Connected" => net[d].connected
         /\ row[d].failure \in {"timedout", "cancelled"} => net[d].failure # None /\ ~net[d].connected

\* No connection leaks and none is shared.  Every resource of the network
\* service belongs to an open description, waits for its release or lingers;
\* every connection of the table is bound by exactly one resource or waits on
\* a live listener; a job keeps its description (stream.rs release, abort,
\* advance; inet_stream_socket.rs release_job, remove).
StreamsOwned ==
    /\ DOMAIN row \cap closing = {}
    /\ DOMAIN row \cup closing = {d \in DOMAIN net : ~net[d].released}
    /\ DOMAIN job \subseteq DOMAIN row
    /\ \A d \in DOMAIN net : net[d].bind = "conn" => net[d].tcp \in DOMAIN tcb
    /\ \A c \in DOMAIN tcb :
         LET binders == {d \in DOMAIN net : net[d].bind = "conn" /\ net[d].tcp = c}
             l == tcb[c].owner
         IN \/ Cardinality(binders) = 1
            \/ binders = {} /\ l \in DOMAIN net /\ net[l].bind = "listener"

\* No readiness is lost between the services.  Once the worker waits and none of
\* the levels it watches is up, every description shows every level it is ready for,
\* and every job whose connection was decided has its result
\* (inet_stream_socket.rs pump, watches).
StreamLevelsPublished ==
    Free /\ (\A d \in DOMAIN row : Level(net, tcb, d) \cap Watched(d) = {}) =>
      /\ \A d \in DOMAIN row :
           LET f == Refresh(State, d, "ok") IN
           Readiness(f.s.row[d], f.o) \subseteq row[d].forwarded
      /\ \A d \in DOMAIN job : job[d].result = None => tcb[net[d].tcp].state = "SynSent"
=============================================================================
