------------------------------- MODULE Resolver -------------------------------
(***************************************************************************)
(* DNS lookups of network.service: the engine of jobs over datagram and    *)
(* stream sockets (resolver.rs) and its three kinds of clients: deferred   *)
(* replies to ResolveIpv4 (resolver_rpc.rs), result objects                *)
(* (resolver_provider.rs) and the synchronous lookups of the older TCP,    *)
(* TLS and HTTP entry points (resolver_stack.rs).  The service is one      *)
(* thread; what the transports and servers answer to each call, the        *)
(* passing of deadlines and changes of the interface are nondeterministic. *)
(***************************************************************************)
EXTENDS Naturals, FiniteSets, FiniteSetsExt, Functions, TLC

CONSTANTS Name,       \* names of the network
          Asked,      \* names clients look up
          RetryLimit, \* datagrams sent before a stream is tried
          JobLimit,   \* jobs of the engine
          MaxSockets, \* sockets the transports can give to the engine
          MaxQuery,   \* bound on queries ever started
          MaxChange   \* bound on changes of the interface

VARIABLES config,   \* configuration of the interface, 0 when there is none
          dns,      \* the engine: [context, jobs, cache, sockets]
          pending,  \* ResolveIpv4 requests waiting: request -> query
          answered, \* ResolveIpv4 requests replied to: request -> replies
          object,   \* result objects: id -> [query, ready, live]
          sync,     \* the query of a synchronous lookup, 0 outside one
          next      \* next query, request or object

resolverVars == <<config, dns, pending, answered, object, sync, next>>

Budget == 1..4   \* STEP_BUDGET

ResolverInit ==
    /\ config = 1
    /\ dns = [context |-> 0, jobs |-> <<>>, cache |-> {}, sockets |-> {}]
    /\ pending = <<>> /\ answered = <<>> /\ object = <<>> /\ sync = 0 /\ next = 1

Drop(f, D) == Restrict(f, DOMAIN f \ D)

----------------------------------------------------------------------------
\* The engine, over e = [context, jobs, cache, sockets].

NewJob(name, context, answer) ==
    [name |-> name, prefix |-> FALSE, stage |-> "Prepare", datagram |-> 0, stream |-> 0,
     attempts |-> 0, context |-> context, answer |-> answer]

Unanswered(e) == {q \in DOMAIN e.jobs : e.jobs[q].answer = "none"}

\* close gives both sockets of a job back.
Close(e, q) ==
    [e EXCEPT !.sockets = @ \ {e.jobs[q].datagram, e.jobs[q].stream},
              !.jobs[q].datagram = 0, !.jobs[q].stream = 0]

\* The socket the transports allocate next, if they have one.
FreeSockets(e) == LET free == (1..MaxSockets) \ e.sockets IN IF free = {} THEN {} ELSE {Min(free)}

Out(e, out) == [e |-> e, out |-> out]

\* Every call to a transport may fail.
Failing(e) == {Out(e, "err")}

\* response: a terminal answer ends the job, an alias starts over for the name
\* it leads to.
Response(e, q) ==
    {Out(Close(e, q), "done")}
      \cup {Out([Close(e, q) EXCEPT !.jobs[q].prefix = TRUE, !.jobs[q].name = n,
                                    !.jobs[q].stage = "Prepare"], "wait")
              : n \in IF e.jobs[q].prefix THEN {} ELSE Name \ {e.jobs[q].name}}

\* tcp that opens the stream beside the datagram socket.
TcpKeeps(e, q) ==
    Failing(e)
      \cup {Out([e EXCEPT !.sockets = @ \cup {s}, !.jobs[q].stream = s,
                          !.jobs[q].datagram = 0, !.jobs[q].stage = "Connecting"], "go")
              : s \in FreeSockets(e)}

\* tcp: the datagram socket goes before the stream is opened.
Tcp(e, q) ==
    LET closed == Close(e, q) IN
    Failing(closed)
      \cup {Out([closed EXCEPT !.sockets = @ \cup {s}, !.jobs[q].stream = s,
                               !.jobs[q].stage = "Connecting"], "go")
              : s \in FreeSockets(closed)}

\* The answers the cache may give, positive or negative; entries expire.
Cached(e, name) == {"done" : c \in {c \in e.cache : c.name = name}}

Prepare(e, q) ==
    LET j == e.jobs[q] IN
    Failing(e)
      \cup (IF j.prefix THEN {Out(Close(e, q), a) : a \in Cached(e, j.name)} ELSE {})
      \cup {Out(e, "wait")}
      \cup {Out([e EXCEPT !.sockets = @ \cup {s}, !.jobs[q].datagram = s,
                          !.jobs[q].attempts = 0, !.jobs[q].stage = "Datagram"], "go")
              : s \in FreeSockets(e)}

Datagram(e, q) ==
    LET j == e.jobs[q]
        received == IF j.attempts = 0 THEN {} ELSE Response(e, q) \cup Tcp(e, q) \cup {Out(e, "go")}
        due == IF j.attempts >= RetryLimit THEN Tcp(e, q)
               ELSE {Out([e EXCEPT !.jobs[q].attempts = @ + 1],
                         IF j.attempts = 0 THEN "go" ELSE "wait")}
    IN Failing(e) \cup received \cup due \cup {Out(e, "wait")}

Connecting(e, q) ==
    Failing(e) \cup {Out(e, "wait"), Out([e EXCEPT !.jobs[q].stage = "Sending"], "go")}

Sending(e, q) ==
    Failing(e) \cup {Out(e, "wait"), Out(e, "go"), Out([e EXCEPT !.jobs[q].stage = "Length"], "go")}

Length(e, q) ==
    Failing(e) \cup {Out(e, "wait"), Out(e, "go"), Out([e EXCEPT !.jobs[q].stage = "Body"], "go")}

\* The response of another transaction makes the job wait for the next one.
Body(e, q) ==
    Failing(e) \cup {Out(e, "wait"), Out(e, "go"), Out([e EXCEPT !.jobs[q].stage = "Length"], "go")}
               \cup Response(e, q)

Stage(e, q) == CASE e.jobs[q].stage = "Prepare" -> Prepare(e, q)
                 [] e.jobs[q].stage = "Datagram" -> Datagram(e, q)
                 [] e.jobs[q].stage = "Connecting" -> Connecting(e, q)
                 [] e.jobs[q].stage = "Sending" -> Sending(e, q)
                 [] e.jobs[q].stage = "Length" -> Length(e, q)
                 [] e.jobs[q].stage = "Body" -> Body(e, q)

\* step: up to four stages as long as they do not wait; past its deadline the
\* job fails instead.
Step(e, q) ==
    Failing(e) \cup
    FoldSet(LAMBDA b, outs : UNION {IF o.out = "go" THEN Stage(o.e, q) ELSE {o} : o \in outs},
            {Out(e, "go")}, Budget)

\* pump, for one job: the answer of a finished step.
Finished(o, q) ==
    CASE o.out \in {"go", "wait"} -> o.e
      [] o.out = "err" -> [Close(o.e, q) EXCEPT !.jobs[q].answer = "err"]
      [] OTHER -> [Close(o.e, q) EXCEPT
                     !.jobs[q].answer = o.out,
                     !.cache = @ \cup {[name |-> o.e.jobs[q].name, context |-> o.e.jobs[q].context]}]

\* sync that keeps what was learned on the other network.
SyncedKeepsCache(e, c) ==
    IF e.context = c THEN e ELSE [e EXCEPT !.context = c]

\* sync: a change of the interface fails every job and empties the cache.
Synced(e, c) ==
    IF e.context = c THEN e
    ELSE LET open == Unanswered(e) IN
         [context |-> c, cache |-> {},
          sockets |-> e.sockets \ UNION {{e.jobs[q].datagram, e.jobs[q].stream} : q \in open},
          jobs |-> [q \in DOMAIN e.jobs |->
                      IF q \in open THEN [e.jobs[q] EXCEPT !.datagram = 0, !.stream = 0, !.answer = "err"]
                      ELSE e.jobs[q]]]

\* pump: the set of engines one call may leave.
PumpDns(e, c) ==
    LET s == Synced(e, c) IN
    FoldSet(LAMBDA q, es : UNION {{Finished(o, q) : o \in Step(x, q)} : x \in es},
            {s}, Unanswered(s))

\* start: refused without a configuration or a free slot.
Startable(e) == config # 0 /\ Cardinality(DOMAIN e.jobs) < JobLimit

Started(e, q, name) ==
    {[e EXCEPT !.jobs = (q :> NewJob(name, config, a)) @@ @] : a \in {"none"} \cup Cached(e, name)}

\* take and cancel.
Taken(e, Q) == [e EXCEPT !.jobs = Drop(@, Q)]
Cancelled(e, q) == Taken(Close(e, q), {q})

Ready(e, q) == q \in DOMAIN e.jobs /\ e.jobs[q].answer # "none"

----------------------------------------------------------------------------
\* The clients.

\* A result object, and its result: immutable from then on.
NewObject(q) == [query |-> q, ready |-> FALSE, live |-> TRUE]
Finish(row) == [row EXCEPT !.query = 0, !.ready = TRUE]

\* remove: the query of an object that goes is cancelled.
Removed(e, O) == FoldSet(LAMBDA q, x : Cancelled(x, q), e,
                         {object[o].query : o \in O} \cap DOMAIN e.jobs)

\* Replies::pump: every answered request is replied to.
DeliverReplies(requests) ==
    /\ pending' = Drop(pending, requests)
    /\ answered' = [r \in DOMAIN answered |-> IF r \in requests THEN answered[r] + 1 ELSE answered[r]]

\* update: an object takes its answer.
Updated(e, o) == IF object[o].live /\ Ready(e, object[o].query) THEN Finish(object[o]) ELSE object[o]

\* Server::pump: an object that cannot be signalled any more is removed.
Delivered(e) ==
    LET requests == {r \in DOMAIN pending : Ready(e, pending[r])}
        dead == {o \in DOMAIN object : ~object[o].live}
        served == {o \in DOMAIN object \ dead : Ready(e, object[o].query)}
    IN /\ DeliverReplies(requests)
       /\ object' = [o \in DOMAIN object \ dead |-> Updated(e, o)]
       /\ dns' = Taken(Removed(e, dead), {pending[r] : r \in requests} \cup {object[o].query : o \in served})

Loop == sync = 0

\* A turn of the service loop; tick pumps once more without delivering.
Tick == /\ Loop /\ Unanswered(dns) # {}
        /\ \E e \in PumpDns(dns, config) : dns' = e
        /\ UNCHANGED <<config, pending, answered, object, sync, next>>

Turn == /\ Loop
        /\ \E e \in PumpDns(dns, config) : Delivered(e)
        /\ UNCHANGED <<config, sync, next>>

\* Replies::dispatch: a request that cannot start is answered at once.
Resolve ==
    \E name \in Asked :
       LET e == Synced(dns, config)
           r == next
       IN
       /\ Loop /\ next <= MaxQuery /\ next' = next + 1
       /\ IF Startable(e)
          THEN /\ dns' \in Started(e, r, name)
               /\ pending' = (r :> r) @@ pending /\ answered' = (r :> 0) @@ answered
          ELSE dns' = e /\ answered' = (r :> 1) @@ answered /\ UNCHANGED pending
       /\ UNCHANGED <<config, object, sync>>

\* Server::open, the pump and the reply: an object whose start failed is ready
\* with the failure; an undelivered object goes again.
Open ==
    \E name \in Asked, delivered \in BOOLEAN :
       LET e == Synced(dns, config)
           o == next
       IN
       /\ Loop /\ next <= MaxQuery /\ next' = next + 1
       /\ IF ~delivered THEN dns' = e /\ UNCHANGED object
          ELSE IF ~Startable(e)
          THEN /\ dns' = e
               /\ object' = (o :> Finish(NewObject(0))) @@ object
          ELSE /\ dns' \in Started(e, o, name)
               /\ object' = (o :> NewObject(o)) @@ object
       /\ UNCHANGED <<config, pending, answered, sync>>

\* CANCEL of an object takes the answer first; reads and status do the same.
CancelObject ==
    \E o \in DOMAIN object :
       LET q == object[o].query IN
       /\ Loop /\ object[o].live
       /\ IF object[o].ready THEN UNCHANGED <<dns, object>>
          ELSE /\ dns' = IF Ready(dns, q) THEN Taken(dns, {q}) ELSE Cancelled(dns, q)
               /\ object' = [object EXCEPT ![o] = Finish(@)]
       /\ UNCHANGED <<config, pending, answered, sync, next>>

\* The last reference of an object goes; its release is served later, unless a
\* pump finds the object dead first.
LoseObject ==
    \E o \in DOMAIN object :
       /\ object[o].live /\ object' = [object EXCEPT ![o].live = FALSE]
       /\ UNCHANGED <<config, dns, pending, answered, sync, next>>

ReleaseObject ==
    \E o \in DOMAIN object :
       /\ Loop /\ ~object[o].live
       /\ dns' = Removed(dns, {o})
       /\ object' = Drop(object, {o})
       /\ UNCHANGED <<config, pending, answered, sync, next>>

\* resolve_ipv4: the lookup drives every job until its own is answered, or
\* until the clock or the interface fails.
ResolveSync ==
    \E name \in Asked :
       LET e == Synced(dns, config) IN
       /\ Loop /\ next <= MaxQuery /\ Startable(e)
       /\ next' = next + 1 /\ sync' = next
       /\ dns' \in Started(e, next, name)
       /\ UNCHANGED <<config, pending, answered, object>>

DriveSync ==
    /\ sync # 0
    /\ \E e \in PumpDns(dns, config) :
         IF Ready(e, sync) THEN dns' = Taken(e, {sync}) /\ sync' = 0
         ELSE dns' = e /\ UNCHANGED sync
    /\ UNCHANGED <<config, pending, answered, object, next>>

AbandonSync ==
    /\ sync # 0 /\ dns' = Cancelled(dns, sync) /\ sync' = 0
    /\ UNCHANGED <<config, pending, answered, object, next>>

\* The interface loses its configuration or gets another one.
Reconfigure ==
    \E c \in 0..MaxChange :
       /\ c # config /\ (c = 0 \/ c > dns.context) /\ config' = c
       /\ UNCHANGED <<dns, pending, answered, object, sync, next>>

ResolverNext == \/ Tick \/ Turn \/ Resolve \/ Open \/ CancelObject \/ LoseObject \/ ReleaseObject
                \/ ResolveSync \/ DriveSync \/ AbandonSync \/ Reconfigure

ResolverSpec == ResolverInit /\ [][ResolverNext]_resolverVars

----------------------------------------------------------------------------
\* No lookup is lost, answered twice or left behind.  Every job of the engine
\* has exactly one client waiting for it and every waiting client has its job;
\* a request is replied to once; the sockets in use are those of the jobs under
\* way, one at a time (resolver.rs step, close, cancel; resolver_rpc.rs pump;
\* resolver_provider.rs update, remove; resolver_stack.rs resolve_ipv4).
QueriesOwned ==
    LET waiting == {o \in DOMAIN object : object[o].query # 0}
        owners(q) == Cardinality({r \in DOMAIN pending : pending[r] = q})
                       + Cardinality({o \in waiting : object[o].query = q})
                       + (IF sync = q THEN 1 ELSE 0)
        held(j) == {j.datagram, j.stream} \ {0}
    IN /\ \A q \in DOMAIN dns.jobs : owners(q) = 1
       /\ Range(pending) \cup {object[o].query : o \in waiting} \cup ({sync} \ {0})
            = DOMAIN dns.jobs
       /\ \A o \in DOMAIN object : object[o].ready <=> object[o].query = 0
       /\ \A r \in DOMAIN answered : answered[r] = IF r \in DOMAIN pending THEN 0 ELSE 1
       /\ dns.sockets = UNION {held(dns.jobs[q]) : q \in Unanswered(dns)}
       /\ \A q \in DOMAIN dns.jobs : Cardinality(held(dns.jobs[q])) <= 1
       /\ \A q \in DOMAIN dns.jobs \ Unanswered(dns) : held(dns.jobs[q]) = {}

\* What was learned on one network is not used on another: the cache holds only
\* answers of the engine's context, and every job under way asks the server of
\* that context (resolver.rs sync).
CacheCurrent ==
    /\ \A c \in dns.cache : c.context = dns.context
    /\ \A q \in Unanswered(dns) : dns.jobs[q].context = dns.context
=============================================================================
