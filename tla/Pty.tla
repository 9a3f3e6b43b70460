---------------------------------- MODULE Pty ----------------------------------
(***************************************************************************)
(* Pseudoterminals of posix.service: the line discipline and the object    *)
(* table of posix/src/pty.rs and pty/editing.rs, the provider thread of    *)
(* posix/src/main.rs that serves them, and the opener on the control       *)
(* thread (pty_master.rs, open_pty_response, terminal_publication.rs) that *)
(* creates, synchronises and publishes a terminal while it is served.      *)
(*                                                                         *)
(* Bytes are counted, not stored; a byte a master types is known by the    *)
(* role the control characters give it.  One terminal exists at a time:    *)
(* terminals share nothing but the counters of their ids.  A write is of   *)
(* one byte: a longer one is the same loop body run again.                 *)
(***************************************************************************)
EXTENDS Naturals, FiniteSets, Sequences, SequencesExt, TLC

CONSTANTS Cap,          \* BUFFER_CAPACITY
          Modes,        \* sets of termios flags a client may install
          Sane,         \* the flags of a fresh terminal
          Workload      \* name -> [bytes, modes, flows, objects]: what a behaviour's
                        \* clients do, and the bound on the object ids it uses

VARIABLES term,       \* the PseudoTerminal, or None
          objects,    \* object id -> "master" or "slave"
          factories,  \* slave_factories: ids that may open a slave
          metadata,   \* opens that retain a filesystem reference
          native,     \* ids some holder outside the manager has a reference to
          releases,   \* ids whose OP_RELEASE is still undelivered
          level,      \* native object -> signals last published
          opener,     \* [step, master, slave, factory] of the control thread
          node,       \* masters whose slave's name is in the device directory
          retiring,   \* names the cleanup worker has been given
          hung,       \* SIGHUP was sent for this terminal
          next,       \* next_object_id
          load

ptyVars == <<term, objects, factories, metadata, native, releases, level,
             opener, node, retiring, hung, next, load>>

None == [none |-> TRUE]
Idle == [step |-> "idle", master |-> 0, slave |-> 0, factory |-> 0]

Init == /\ term = None /\ objects = <<>> /\ factories = {} /\ metadata = {}
        /\ native = {} /\ releases = {} /\ level = <<>> /\ opener = Idle
        /\ node = {} /\ retiring = {} /\ hung = FALSE /\ next = 1
        /\ \E name \in DOMAIN Workload : load = Workload[name]

----------------------------------------------------------------------------
\* The line discipline: functions of a terminal record.

New(m, s, locked) ==
    [master |-> m, live |-> {m, s}, masterOpen |-> TRUE, slaveOpen |-> TRUE,
     locked |-> locked, input |-> 0, records |-> <<>>, canonical |-> 0,
     output |-> 0, edit |-> 0, attributes |-> Sane, stopped |-> FALSE,
     manual |-> FALSE, quote |-> FALSE, name |-> FALSE]

Has(t, flag) == flag \in t.attributes

HasInputCapacity(t) == /\ t.edit = 0
                       /\ t.input + t.canonical < Cap
                       /\ Len(t.records) < Cap

CanonicalDataFull(t) == t.canonical >= Cap - 1

\* output_bytes_for: a newline is two bytes when output is post-processed.
OutputBytesFor(t, b) == IF b = "newline" /\ Has(t, "ONLCR") THEN 2 ELSE 1

\* should_echo and the length of what it appends.
EchoOf(t, b) == IF Has(t, "ECHO") THEN OutputBytesFor(t, b) ELSE 0

\* can_append_output refuses even an empty echo while an edit is deferred.
Admits(t, n) == t.edit = 0 /\ n <= Cap - t.output

AppendRawInput(t, n) ==
    IF n = 0 THEN t
    ELSE [t EXCEPT !.input = @ + n,
                   !.records = IF @ # <<>> /\ ~Last(@).canonical
                               THEN [@ EXCEPT ![Len(@)].remaining = @ + n]
                               ELSE Append(@, [remaining |-> n, canonical |-> FALSE])]

CommitCanonicalInput(t) ==
    [t EXCEPT !.input = @ + t.canonical, !.canonical = 0,
              !.records = Append(@, [remaining |-> t.canonical, canonical |-> TRUE])]

FlushInput(t) == [t EXCEPT !.input = 0, !.records = <<>>, !.canonical = 0, !.quote = FALSE]
FlushOutput(t) == [t EXCEPT !.output = 0, !.edit = 0]

FlushForSignal(t) == IF Has(t, "NOFLSH") THEN t ELSE FlushOutput(FlushInput(t))

\* refill_edit_echo: deferred echo moves up as far as the queue has room.
RefillEditEcho(t) ==
    LET count == IF t.edit < Cap - t.output THEN t.edit ELSE Cap - t.output
    IN  [t EXCEPT !.output = @ + count, !.edit = @ - count]

QueueEditEcho(t, n) == RefillEditEcho([t EXCEPT !.edit = n])

\* extended_edit: VWERASE and VREPRINT.  A character is one byte or several;
\* a quoted newline of the line is reprinted as two bytes.
ExtendedEdit(t, b) ==
    IF t.edit # 0 THEN {t}
    ELSE IF b = "werase"
    THEN IF t.canonical = 0 THEN {t}
         ELSE {LET cut == [t EXCEPT !.canonical = end] IN
               IF ~Has(t, "ECHO") THEN cut
               ELSE QueueEditEcho(cut, IF Has(t, "ECHOE") THEN 3 * n ELSE 1) :
                 <<end, n>> \in {p \in (0..(t.canonical - 1)) \X (1..t.canonical) :
                                   p[1] + p[2] <= t.canonical}}
    ELSE IF ~Has(t, "ECHO") THEN {t}
    ELSE {QueueEditEcho(t, 1 + OutputBytesFor(t, "newline") + t.canonical + quoted) :
            quoted \in IF Has(t, "ONLCR") THEN 0..t.canonical ELSE {0}}

\* The byte after VLNEXT is data whatever it is.
Quoted(t, b) ==
    LET echo == EchoOf(t, b) IN
    IF CanonicalDataFull(t) THEN {[t EXCEPT !.quote = FALSE]}
    ELSE IF HasInputCapacity(t) /\ Admits(t, echo)
    THEN {[t EXCEPT !.canonical = @ + 1, !.output = @ + echo, !.quote = FALSE]}
    ELSE {t}

LiteralNext(t) ==
    LET echo == IF Has(t, "ECHO") THEN 2 ELSE 0 IN
    IF HasInputCapacity(t) /\ Admits(t, echo)
    THEN {[t EXCEPT !.output = @ + echo, !.quote = TRUE]} ELSE {t}

\* VERASE removes one character, of one byte or several.
Erased(t) ==
    LET echo == IF ~Has(t, "ECHO") THEN 0 ELSE IF Has(t, "ECHOE") THEN 3 ELSE 1 IN
    IF t.canonical = 0 \/ ~Admits(t, echo) THEN {t}
    ELSE {[t EXCEPT !.canonical = remaining, !.output = @ + echo] :
            remaining \in 0..(t.canonical - 1)}

Killed(t) ==
    LET echo == EchoOf(t, "newline") IN
    IF Admits(t, echo) THEN {[t EXCEPT !.canonical = 0, !.output = @ + echo]} ELSE {t}

Ended(t) == IF Len(t.records) >= Cap THEN {t} ELSE {CommitCanonicalInput(t)}

\* An ordinary byte, or a special one whose function is switched off.
Ordinary(t, b) ==
    LET echo == EchoOf(t, b)
        line == Has(t, "ICANON")
        echoed == [t EXCEPT !.output = @ + echo]
    IN  IF (line /\ CanonicalDataFull(t) /\ b # "newline")
           \/ ~HasInputCapacity(t) \/ ~Admits(t, echo) THEN {t}
        ELSE IF ~line THEN {AppendRawInput(echoed, 1)}
        ELSE LET held == [echoed EXCEPT !.canonical = @ + 1]
             IN  {IF b = "newline" THEN CommitCanonicalInput(held) ELSE held}

\* One byte through write_master.  A byte that cannot be taken leaves the
\* terminal as it is, but for the restart IXANY has already done.
Typed(t0, b) ==
    LET t == IF Has(t0, "IXON") /\ Has(t0, "IXANY") /\ b # "stop"
             THEN [t0 EXCEPT !.stopped = FALSE] ELSE t0
    IN  CASE t0.quote -> Quoted(t0, b)
          [] ~t0.quote /\ b = "intr" /\ Has(t, "ISIG") -> {FlushForSignal(t)}
          [] ~t0.quote /\ b \in {"stop", "start"} /\ Has(t, "IXON") ->
                {[t EXCEPT !.stopped = b = "stop"]}
          [] ~t0.quote /\ Has(t, "ICANON") /\ Has(t, "IEXTEN") /\ b \in {"werase", "reprint"} ->
                ExtendedEdit(t, b)
          [] ~t0.quote /\ Has(t, "ICANON") /\ Has(t, "IEXTEN") /\ b = "lnext" -> LiteralNext(t)
          [] ~t0.quote /\ Has(t, "ICANON") /\ b = "erase" -> Erased(t)
          [] ~t0.quote /\ Has(t, "ICANON") /\ b = "kill" -> Killed(t)
          [] ~t0.quote /\ Has(t, "ICANON") /\ b = "eof" -> Ended(t)
          [] OTHER -> Ordinary(t, b)

WriteSlave(t, b) ==
    LET n == OutputBytesFor(t, b) IN
    IF t.masterOpen /\ Admits(t, n) THEN {[t EXCEPT !.output = @ + n]} ELSE {t}

\* read_input: one record at most, and an empty record is one end of file.
ReadInput(t, maximum) ==
    IF t.records = <<>> THEN t
    ELSE LET front == Head(t.records)
             n == IF maximum < front.remaining THEN maximum ELSE front.remaining
         IN  [t EXCEPT !.input = @ - n,
                       !.records = IF n = front.remaining THEN Tail(@)
                                   ELSE [@ EXCEPT ![1].remaining = @ - n]]

ReadMaster(t, maximum) ==
    IF (t.stopped \/ t.manual) /\ t.slaveOpen THEN t
    ELSE LET n == IF maximum < t.output THEN maximum ELSE t.output
         IN  IF n = 0 THEN t ELSE RefillEditEcho([t EXCEPT !.output = @ - n])

\* A mode change that leaves the pending line where it is.
SetAttributesLoses(t, mode) ==
    [t EXCEPT !.attributes = mode,
              !.quote = @ /\ {"ICANON", "IEXTEN"} \subseteq mode,
              !.stopped = @ /\ "IXON" \in mode]

\* set_attributes: leaving canonical mode hands over the pending line.
SetAttributes(t, mode) ==
    LET u == [t EXCEPT !.attributes = mode,
                       !.quote = @ /\ {"ICANON", "IEXTEN"} \subseteq mode,
                       !.stopped = @ /\ "IXON" \in mode]
    IN  IF Has(t, "ICANON") /\ "ICANON" \notin mode
        THEN AppendRawInput([u EXCEPT !.canonical = 0], t.canonical) ELSE u

Drained(t) == t.output = 0 \/ ~t.masterOpen

DrainOutput(t) == IF t.masterOpen THEN t ELSE FlushOutput(t)

SetAttributesWhenDrained(t, mode, flush) ==
    IF ~Drained(t) THEN t
    ELSE LET u == DrainOutput(t)
         IN  SetAttributes(IF flush THEN FlushInput(u) ELSE u, mode)

\* PTY_CONTROL_FLOW.
Flow(t, action) ==
    CASE action = "output_stop" -> [t EXCEPT !.manual = TRUE]
      [] action = "output_start" -> [t EXCEPT !.manual = FALSE, !.stopped = FALSE]
      [] OTHER -> IF t.masterOpen /\ t.output < Cap
                  THEN [t EXCEPT !.output = @ + 1] ELSE t

\* signals: the levels of one end.
SignalsOf(t, side) ==
    LET readable == IF side = "master"
                    THEN (~(t.stopped \/ t.manual) \/ ~t.slaveOpen) /\ t.output > 0
                    ELSE t.records # <<>>
        writable == IF side = "master"
                    THEN /\ t.slaveOpen /\ HasInputCapacity(t)
                         /\ (~Has(t, "ECHO") \/ t.output < Cap)
                    ELSE t.masterOpen /\ t.edit = 0 /\ t.output < Cap
        closed == IF side = "master" THEN ~t.slaveOpen ELSE ~t.masterOpen
    IN  (IF readable THEN {"readable"} ELSE {}) \cup (IF writable THEN {"writable"} ELSE {})
        \cup (IF closed THEN {"closed"} ELSE {}) \cup (IF t.output = 0 THEN {"idle"} ELSE {})

----------------------------------------------------------------------------
\* The object table and the two threads.

Alive == term # None

\* Only the slaves are told.
PublishRequested(t, table, ids) ==
    [o \in DOMAIN level |-> IF o \in ids /\ o \in DOMAIN table /\ table[o] = "slave"
                            THEN SignalsOf(t, table[o]) ELSE level[o]]

\* The provider publishes every live end's level after it served a request.
Publish(t, table, ids) ==
    [o \in DOMAIN level |-> IF o \in ids /\ o \in DOMAIN table
                            THEN SignalsOf(t, table[o]) ELSE level[o]]

\* A request on one end of the terminal.
Serve(o, t) ==
    /\ term' = t
    /\ level' = Publish(t, objects, term.live)
    /\ UNCHANGED <<objects, factories, metadata, native, releases, opener, node,
                   retiring, hung, next, load>>

Requests(o, side) == Alive /\ o \in native /\ o \in DOMAIN objects /\ objects[o] = side

Read ==
    \E o \in native, maximum \in {1, Cap} :
       \/ Requests(o, "master") /\ Serve(o, ReadMaster(term, maximum))
       \/ Requests(o, "slave") /\ Serve(o, ReadInput(term, maximum))

Write ==
    \E o \in native, b \in load.bytes :
       \/ /\ Requests(o, "master") /\ term.slaveOpen
          /\ \E t \in Typed(term, b) : Serve(o, t)
       \/ /\ Requests(o, "slave") /\ b \in {"data", "newline"}
          /\ \E t \in WriteSlave(term, b) : Serve(o, t)

Control ==
    \E o \in native, side \in {"master", "slave"} :
       /\ Requests(o, side)
       /\ \/ \E mode \in load.modes :
                \/ Serve(o, SetAttributes(term, mode))
                \/ \E flush \in BOOLEAN : Serve(o, SetAttributesWhenDrained(term, mode, flush))
          \/ load.modes # {} /\ Drained(term) /\ Serve(o, DrainOutput(term))
          \/ /\ load.modes # {}
             /\ \E flush \in {FlushInput(term), FlushOutput(term), FlushInput(FlushOutput(term))} :
                   Serve(o, flush)
          \/ \E action \in load.flows :
                Serve(o, Flow(term, action))
          \/ \E value \in BOOLEAN :
                side = "master" /\ Serve(o, [term EXCEPT !.locked = value])

Without(f, s) == [x \in DOMAIN f \ s |-> f[x]]

ReleasedEnd(t, o, side) ==
    LET u == [t EXCEPT !.live = @ \ {o}] IN
    IF side = "master" THEN [u EXCEPT !.masterOpen = FALSE, !.name = FALSE]
    ELSE IF Cardinality(u.live) = (IF u.masterOpen THEN 1 ELSE 0)
    THEN [u EXCEPT !.slaveOpen = FALSE, !.stopped = FALSE, !.manual = FALSE]
    ELSE u

\* Factories not counted.
UnusedFactories(t, fs) == ~t.masterOpen /\ ~t.slaveOpen

Unused(t, fs) == ~t.masterOpen /\ ~t.slaveOpen /\ fs = {}

\* The kernel tells the provider that an object's last reference is gone.
Release ==
    \E o \in releases :
       /\ releases' = releases \ {o}
       /\ \/ /\ o \in factories
             /\ factories' = factories \ {o}
             /\ term' = IF Unused(term, factories') THEN None ELSE term
             /\ UNCHANGED <<objects, metadata, level, retiring, hung>>
          \/ /\ o \in DOMAIN objects
             /\ objects' = Without(objects, {o})
             /\ metadata' = metadata \ {o}
             /\ LET t == ReleasedEnd(term, o, objects[o]) IN
                /\ retiring' = IF objects[o] = "master" /\ term.name
                               THEN retiring \cup {o} ELSE retiring
                /\ hung' = (hung \/ objects[o] = "master")
                /\ term' = IF Unused(t, factories) THEN None ELSE t
                /\ level' = Publish(term', objects', term.live)
             /\ UNCHANGED factories
          \/ /\ o \notin factories /\ o \notin DOMAIN objects
             /\ UNCHANGED <<term, objects, factories, metadata, level, retiring, hung>>
       /\ UNCHANGED <<native, opener, node, next, load>>

\* A client, or the device directory, drops the last reference to an object.
\* The opener keeps its own until its publication is over.
Drop ==
    \E o \in native :
       /\ o \notin {opener.master, opener.slave, opener.factory}
       /\ native' = native \ {o}
       /\ releases' = releases \cup {o}
       /\ UNCHANGED <<term, objects, factories, metadata, level, opener, node,
                      retiring, hung, next, load>>

\* pty_factory::serve: a holder of the master mints a factory; when the
\* native object cannot be created the factory is released at once.
CreateFactory ==
    \E o \in native :
       /\ Requests(o, "master") /\ next <= load.objects
       /\ next' = next + 1
       /\ factories' = factories \cup {next}
       /\ native' = native \cup {next}
       /\ UNCHANGED <<term, objects, metadata, releases, level, opener, node,
                      retiring, hung, load>>

\* reopen_slave.
WithSlave(t, o) == [t EXCEPT !.live = @ \cup {o}, !.slaveOpen = TRUE]

\* pty_open::open: a factory opens a slave of its own.  The new object and
\* every live end are signalled before the reply; when the native object or
\* its options fail the open is released and the other ends signalled again.
OpenSlave ==
    \E f \in factories, outcome \in {"opened", "uncreated", "failed"} :
       LET t == WithSlave(term, next) IN
       /\ f \in native /\ next <= load.objects
       /\ Alive /\ term.masterOpen /\ ~term.locked
       /\ next' = next + 1
       /\ IF outcome = "opened"
          THEN /\ term' = t
               /\ objects' = (next :> "slave") @@ objects
               /\ metadata' = metadata \cup {next}
               /\ native' = native \cup {next}
               /\ level' = [o \in DOMAIN level \cup {next} |->
                              IF o \in t.live THEN SignalsOf(t, objects'[o]) ELSE level[o]]
          ELSE /\ term' = ReleasedEnd(t, next, "slave")
               /\ UNCHANGED <<objects, metadata, native>>
               /\ level' = Publish(term', objects, t.live)
       /\ releases' = IF outcome = "failed" THEN releases \cup {next} ELSE releases
       /\ UNCHANGED <<factories, opener, node, retiring, hung, load>>

\* pty_master::open and open_pty_response, one step between two unlocks.  A
\* master-only terminal is locked and gives up the slave it was made with.
OpenTerminal ==
    \E locked \in BOOLEAN :
       LET m == next
           s == next + 1
           t == New(m, s, locked)
       IN
       /\ opener = Idle /\ ~Alive /\ s <= load.objects
       /\ next' = next + 2
       /\ term' = IF locked THEN ReleasedEnd(t, s, "slave") ELSE t
       /\ objects' = IF locked THEN m :> "master" ELSE (m :> "master") @@ (s :> "slave")
       /\ opener' = [step |-> "made", master |-> m, slave |-> s, factory |-> 0]
       /\ hung' = FALSE
       /\ UNCHANGED <<factories, metadata, native, releases, level, node, retiring, load>>

CreateNative ==
    /\ opener.step = "made"
    /\ native' = native \cup DOMAIN objects
    /\ level' = [o \in DOMAIN objects |-> {}] @@ level
    /\ opener' = [opener EXCEPT !.step = "created"]
    /\ UNCHANGED <<term, objects, factories, metadata, releases, node, retiring,
                   hung, next, load>>

\* handle_pty_sync_request, on the provider thread.
Synchronize ==
    /\ opener.step = "created"
    /\ level' = [o \in DOMAIN level |-> IF o \in term.live THEN SignalsOf(term, objects[o])
                                         ELSE level[o]]
    /\ opener' = [opener EXCEPT !.step = "synced"]
    /\ UNCHANGED <<term, objects, factories, metadata, native, releases, node,
                   retiring, hung, next, load>>

\* publish_created_pair: make a factory, register the name with it, attach
\* the lease on the name to the terminal.
PublishFactory ==
    /\ opener.step = "synced" /\ next <= load.objects
    /\ next' = next + 1
    /\ factories' = factories \cup {next}
    /\ native' = native \cup {next}
    /\ opener' = [opener EXCEPT !.step = "factory", !.factory = next]
    /\ UNCHANGED <<term, objects, metadata, releases, level, node, retiring, hung, load>>

Register ==
    /\ opener.step = "factory"
    /\ node' = node \cup {opener.master}
    /\ opener' = [opener EXCEPT !.step = "leased", !.factory = 0]
    /\ UNCHANGED <<term, objects, factories, metadata, native, releases, level,
                   retiring, hung, next, load>>

AttachSlaveName ==
    /\ opener.step = "leased"
    /\ term' = [term EXCEPT !.name = TRUE]
    /\ opener' = Idle
    /\ UNCHANGED <<objects, factories, metadata, native, releases, level, node,
                   retiring, hung, next, load>>

\* discard: the terminal goes with everything recorded for it.
Discard ==
    /\ term' = None /\ objects' = <<>> /\ factories' = {} /\ metadata' = {}

\* A failed step closes the handles it holds and discards the terminal.
AbandonOpen ==
    LET held == native \cap {opener.master, opener.slave, opener.factory} IN
    /\ opener.step \in {"made", "created", "synced", "factory"}
    /\ Discard
    /\ native' = native \ held
    /\ releases' = releases \cup held
    /\ opener' = Idle
    /\ UNCHANGED <<level, node, retiring, hung, next, load>>

\* terminal_publication::retire: a failed removal stays queued.
RetireName ==
    \E m \in retiring :
       /\ retiring' = retiring \ {m}
       /\ node' = node \ {m}
       /\ UNCHANGED <<term, objects, factories, metadata, native, releases, level,
                      opener, hung, next, load>>

PtyNext == \/ Read \/ Write \/ Control \/ Release \/ Drop \/ CreateFactory \/ OpenSlave
           \/ OpenTerminal \/ CreateNative \/ Synchronize \/ PublishFactory \/ Register
           \/ AttachSlaveName \/ AbandonOpen \/ RetireName

PtySpec == Init /\ [][PtyNext]_ptyVars

----------------------------------------------------------------------------
Total(records) == FoldLeft(LAMBDA n, r : n + r.remaining, 0, records)

\* Typing, editing, reading, flushing and mode changes keep the queues of a
\* terminal exact: the record headers account for every readable byte, no
\* queue and no header list outgrows its capacity, echo is deferred only
\* behind a full output queue, a pending line always keeps a header slot, and
\* a master that cannot write leaves a byte for somebody to read.
PtyQueuesExact ==
    Alive =>
      /\ Total(term.records) = term.input
      /\ term.input + term.canonical <= Cap
      /\ Len(term.records) <= Cap /\ (term.canonical > 0 => Len(term.records) < Cap)
      /\ term.output <= Cap
      /\ term.edit > 0 => term.output = Cap
      /\ ~Has(term, "ICANON") => term.canonical = 0 /\ ~term.quote
      /\ ~HasInputCapacity(term) => term.records # <<>> \/ term.output > 0

\* Whatever order opens, failures and releases take, the table agrees with
\* itself: a terminal lives exactly as long as an end or a factory of it, an
\* end nobody can release any more is not kept, a closed master has hung up
\* its slaves and given its name to the cleanup worker.
PtyObjectsOwned ==
    /\ Alive => /\ term.live = DOMAIN objects
                /\ term.masterOpen = (\E o \in term.live : objects[o] = "master")
                /\ term.slaveOpen = (\E o \in term.live : objects[o] = "slave")
                /\ ~Unused(term, factories)
                /\ (term.slaveOpen /\ ~term.masterOpen) => hung
    /\ ~Alive => objects = <<>> /\ factories = {}
    /\ metadata \subseteq {o \in DOMAIN objects : objects[o] = "slave"}
    /\ opener.step # "made" => DOMAIN objects \cup factories \subseteq native \cup releases
    /\ \A m \in node : \/ m \in retiring
                        \/ (Alive /\ term.master = m /\ (term.name \/ opener.step = "leased"))

\* Once a terminal is synchronised, the level the kernel shows for each end
\* is the one its queues and flags call for, after every request on any end,
\* every independent open, failed open and close.
PtyLevelsPublished ==
    opener.step \notin {"made", "created"} =>
      \A o \in native \cap DOMAIN objects : level[o] = SignalsOf(term, objects[o])
===============================================================================
