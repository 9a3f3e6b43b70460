-------------------------- MODULE ExecutionConsent --------------------------
(* Consent to run an image that asks for capabilities: one question at a time,
   carried by four services.  capability.service holds the requester's call,
   owns the decision and grants; compositor.service says whether the protected
   display of this question is on screen; input.service says what the hands on
   the keyboard and the pointer did; a presenter (secure-ui's execution server
   or a terminal) draws the question and proposes a choice.

   The broker is one thread: it maintains its tables, receives one message and
   handles it.  Its calls to the compositor and to the input authority are
   synchronous, so a command is two steps, before and after the display's
   answer, and everyone else may move in between.                            *)
EXTENDS Integers, Sequences, FiniteSets, SequencesExt, Functions, TLC

CONSTANTS Requester,    \* processes that ask to run an image
          Presenter,    \* "overlay": secure-ui; "terminal": a text display
          Key, Button,  \* controls of the seat
          MaxAsk,       \* questions asked
          MaxSerial,    \* observations before the seat's counter is exhausted
          MaxSession, MaxPolicy, MaxFocus, MaxContent, MaxBytes,
          MaxUnread,    \* observations under way when another control moves
          MaxTrouble    \* disturbances of an otherwise smooth question

VARIABLES broker,   \* capability.service
          seat,     \* input.service's consent authority
          display,  \* compositor.service's presentation registry
          ui,       \* the presenters
          world,    \* processes, time, the terminal's foreground group, and
                    \* the kind of presenter this behaviour's requesters have
          calls     \* unanswered calls of each requester

consentVars == <<broker, seat, display, ui, world, calls>>

None == [id |-> 0]
Empty == [x \in {} |-> None]
Process == Requester \union Presenter

(* The peer captured when it first spoke is still that process and image. *)
Current(p) == world.image[p] = "same"

Without(f, x) == Restrict(f, DOMAIN f \ {x})

(* The environment disturbs a behaviour at most MaxTrouble times. *)
Trouble(w) ==
    /\ world.trouble < MaxTrouble
    /\ world' = [w EXCEPT !.trouble = @ + 1]

(* What the handlers of the broker read and change, as one value. *)
Sys == [b |-> broker, i |-> seat, d |-> display, calls |-> calls]

Commit(x) ==
    /\ broker' = x.b
    /\ seat' = x.i
    /\ display' = x.d
    /\ calls' = x.calls

ConsentInit ==
    /\ broker = [pc |-> "maintain", cmd |-> None, policy |-> 1,
                 last |-> [gen |-> 0, active |-> FALSE], domain |-> FALSE,
                 context |-> 0, pending |-> Empty, slots |-> Empty, bytes |-> 0,
                 next |-> 1, idle |-> FALSE, text |-> FALSE, active |-> None,
                 input |-> FALSE, channel |-> 0, serial |-> 0,
                 remembered |-> {}, granted |-> {}]
    /\ \E p \in Presenter :
       \E held \in {{}} \union {{k} : k \in IF p = "terminal" THEN Key ELSE Button} :
       /\ world = [image |-> [q \in Process |-> "same"], late |-> {},
                   foreground |-> TRUE, trouble |-> 0, kind |-> p]
       /\ seat = [held |-> held, serial |-> 0, exhausted |-> FALSE, active |-> 0,
                  events |-> <<>>, trail |-> <<>>]
    /\ display = [context |-> [gen |-> 0, active |-> FALSE], entries |-> Empty,
                  focus |-> 1, focused |-> "none", clear |-> TRUE,
                  content |-> [p \in Presenter |-> 0]]
    /\ ui = [p \in Presenter |-> [id |-> 0, armed |-> FALSE]]
    /\ calls = [r \in Requester |-> 0]

-----------------------------------------------------------------------------
(* compositor.service: the registry of expected protected presentations. *)

(* A bound presentation is revoked by the first observation that finds another
   image, focus generation or focus, or the surface covered or gone; a full
   present of newer content than the bound one makes it presented.           *)
UpdateEntry(d, e, presented) ==
    IF ~ e.bound \/ e.stage = "revoked" THEN e
    ELSE IF ~ (/\ Current(e.by)
               /\ e.focus = d.focus
               /\ d.focused = e.by
               /\ d.clear
               /\ d.content[e.by] >= e.base)
         THEN [e EXCEPT !.stage = "revoked"]
    ELSE IF presented /\ e.stage = "pending" /\ d.content[e.by] > e.base
         THEN [e EXCEPT !.stage = "presented"]
    ELSE e

(* The event loop observes every registration before each message. *)
Observe(d) ==
    [d EXCEPT !.entries = [id \in DOMAIN @ |-> UpdateEntry(d, @[id], FALSE)]]

FullPresented(d) ==
    [d EXCEPT !.entries = [id \in DOMAIN @ |-> UpdateEntry(d, @[id], TRUE)]]

UpdateContext(d, context) ==
    [d EXCEPT !.entries = Empty, !.context = context]

RegisterDisplay(d, id, by) ==
    [d EXCEPT !.entries = @ @@ (id :> [stage |-> "pending", by |-> by,
                                       bound |-> FALSE, base |-> 0, focus |-> 0])]

CancelDisplay(d, id) == [d EXCEPT !.entries = Without(@, id)]

(* A renderer binds its focused surface to the registration it was told of. *)
Bind(p) ==
    /\ ui[p].id \in DOMAIN display.entries
    /\ LET e == display.entries[ui[p].id]
       IN /\ Current(p)
          /\ e.by = p
          /\ ~ e.bound
          /\ e.stage = "pending"
          /\ display.focused = p
          /\ display' = Observe([display EXCEPT
                 !.entries[ui[p].id] = [e EXCEPT !.bound = TRUE,
                                                 !.base = display.content[p],
                                                 !.focus = display.focus]])
    /\ UNCHANGED <<broker, seat, ui, world, calls>>

(* A commit of the renderer's surface, ... *)
CommitSurface(p) ==
    /\ Current(p)
    /\ ui[p].id # 0
    /\ display.content[p] < MaxContent
    /\ display' = Observe([display EXCEPT !.content[p] = @ + 1])
    /\ UNCHANGED <<broker, seat, ui, world, calls>>

(* ... a successful full present, ... *)
Present ==
    /\ DOMAIN display.entries # {}
    /\ display' = FullPresented(Observe(display))
    /\ UNCHANGED <<broker, seat, ui, world, calls>>

(* ... the keyboard focus moving, which starts a new focus generation, ... *)
UpdateKeyboardFocus(to) ==
    /\ to # display.focused
    /\ display.focus < MaxFocus
    /\ display' = Observe([display EXCEPT !.focused = to, !.focus = @ + 1])
    /\ IF display.focused = "none" THEN world' = world ELSE Trouble(world)
    /\ UNCHANGED <<broker, seat, ui, calls>>

(* ... and another surface moving over the presented one, or away. *)
Cover ==
    /\ DOMAIN display.entries # {}
    /\ display' = Observe([display EXCEPT !.clear = ~ @])
    /\ Trouble(world)
    /\ UNCHANGED <<broker, seat, ui, calls>>

-----------------------------------------------------------------------------
(* input.service: one authority-owned stream of physical observations. *)

OnScreen(id) ==
    /\ id \in DOMAIN display.entries
    /\ LET e == display.entries[id]
       IN /\ e.stage = "presented"
          /\ e.focus = display.focus
          /\ display.focused = e.by
          /\ display.clear

AllReleased(s) == ~ s.exhausted /\ s.held = {}

(* An observation takes the next serial number.  While the stream is armed it
   is sent to the broker; when the send fails, or when the counter runs out,
   the stream ends.  "trail" is history: what happened since the stream was
   armed, and whether the question was on screen then.                       *)
Publish(s, t, k, sent) ==
    IF s.exhausted \/ s.serial = MaxSerial
    THEN [s EXCEPT !.exhausted = TRUE, !.active = 0, !.trail = <<>>]
    ELSE LET n == [s EXCEPT !.serial = @ + 1]
         IN IF s.active = 0 THEN n
            ELSE IF ~ sent THEN [n EXCEPT !.active = 0, !.trail = <<>>]
            ELSE [n EXCEPT !.events = Append(@, [id |-> s.active, serial |-> n.serial,
                                                 t |-> t, k |-> k]),
                           !.trail = Append(@, [t |-> t, k |-> k,
                                                shown |-> OnScreen(s.active)])]

(* The hands move while a question is open; before, they only hold something. *)
Touched == broker.slots # Empty /\ Len(seat.events) < MaxUnread

Keyboard(k, down, synthetic, sent) ==
    /\ ~ seat.exhausted
    /\ Touched
    /\ world.kind = "terminal"
    /\ LET t == IF synthetic THEN "synthetic"
                ELSE IF down THEN IF k \in seat.held THEN "repeat" ELSE "press"
                ELSE IF seat.held \subseteq {k} THEN "allreleased" ELSE "release"
           s == IF synthetic THEN seat
                ELSE [seat EXCEPT !.held = IF down THEN @ \union {k} ELSE @ \ {k}]
       IN /\ seat' = Publish(s, t, k, sent)
          /\ IF sent /\ t \notin {"repeat", "synthetic"} THEN world' = world
             ELSE Trouble(world)
    /\ UNCHANGED <<broker, display, ui, calls>>

(* A pointer report is taken whole before its changes are observed in order. *)
Pointer(buttons, sent) ==
    /\ ~ seat.exhausted
    /\ Touched
    /\ world.kind = "overlay"
    /\ LET old == seat.held \intersect Button
           s == [seat EXCEPT !.held = (@ \ Button) \union buttons]
           changed == SetToSortSeq((old \ buttons) \union (buttons \ old), <)
           Step(acc, k) == Publish(acc, IF k \in buttons THEN "press"
                                        ELSE IF AllReleased(s) THEN "allreleased"
                                        ELSE "release", k, sent)
       IN /\ old # buttons
          /\ seat' = FoldLeft(Step, s, changed)
          /\ IF sent THEN world' = world ELSE Trouble(world)
    /\ UNCHANGED <<broker, display, ui, calls>>

(* The authority's answers to its registered owner. *)
ArmStream(s, id) ==
    [s EXCEPT !.active = id,
              !.trail = <<[t |-> IF AllReleased(s) THEN "allreleased" ELSE "held",
                           k |-> 0, shown |-> OnScreen(id)]>>]

CancelStream(s, id) ==
    IF ~ s.exhausted /\ s.active = id
    THEN [s EXCEPT !.active = 0, !.trail = <<>>] ELSE s

-----------------------------------------------------------------------------
(* capability.service: the registry of held calls, the controller of pending
   questions, the one question being asked, and its two channels.           *)

Reply(x, r) == [x EXCEPT !.calls[r] = @ - 1]

(* (A mutant.)  The retired question stays with the controller. *)
RetireForgetful(x, id) ==
    Reply([x EXCEPT !.b.slots = Without(@, id), !.b.bytes = @ - 1],
          x.b.slots[id].req)

Retire(x, id) ==
    Reply([x EXCEPT !.b.slots = Without(@, id), !.b.pending = Without(@, id),
                    !.b.bytes = @ - 1], x.b.slots[id].req)

RetireAll(x, ids) == FoldLeft(Retire, x, SetToSeq(ids))

CancelInput(x) ==
    IF x.b.channel = 0 THEN x
    ELSE [x EXCEPT !.i = CancelStream(@, x.b.channel), !.b.channel = 0]

Dismiss(x, id) ==
    LET y == CancelInput(x) IN [y EXCEPT !.d = CancelDisplay(@, id)]

CancelActive(x) ==
    IF x.b.active = None THEN x
    ELSE LET id == x.b.active.id
             y == [x EXCEPT !.b.active = None]
         IN Dismiss(IF id \in DOMAIN y.b.slots THEN Retire(y, id) ELSE y, id)

InvalidatePolicy(x) ==
    RetireAll(x, {id \in DOMAIN x.b.slots : x.b.slots[id].policy # x.b.policy})

Expire(x) == RetireAll(x, DOMAIN x.b.slots \intersect world.late)

Reap(x) ==
    RetireAll(x, {id \in DOMAIN x.b.slots :
                     world.image[x.b.slots[id].req] = "exited"})

Maintain(x) ==
    LET y == [x EXCEPT !.b.idle = @ /\ Current("overlay"),
                       !.b.text = @ /\ Current("terminal")]
        a == y.b.active
    IN IF a # None /\ (a.id \notin DOMAIN y.b.slots \/ ~ Current(a.by))
       THEN CancelActive(y) ELSE y

Maintained(x) == Maintain(Reap(Expire(InvalidatePolicy(x))))

(* The top of the loop, before every receive. *)
Loop ==
    /\ broker.pc = "maintain"
    /\ Commit([Maintained(Sys) EXCEPT !.b.pc = "receive"])
    /\ UNCHANGED <<ui, world>>

(* Nothing to receive: an exit or the deadline ends the wait. *)
Wake ==
    /\ broker.pc = "receive"
    /\ Maintained(Sys) # Sys
    /\ broker' = [broker EXCEPT !.pc = "maintain"]
    /\ UNCHANGED <<seat, display, ui, world, calls>>

Handled(x) == Commit([x EXCEPT !.b.pc = "maintain"])

(* Only the session owner publishes sessions, with growing generations: an
   active one always newer, the end of one also at its own generation.       *)
Publishable(last, context) ==
    ~ \/ context.gen < last.gen
      \/ context.gen = last.gen /\ context.active

Revoke(x) ==
    CancelInput([RetireAll(x, DOMAIN x.b.slots) EXCEPT !.b.pending = Empty])

(* Publication revokes what is pending before it tells the compositor; it may
   fail before the compositor hears of it, or lose only the answer.          *)
PublishSession(context, outcome) ==
    /\ broker.pc = "receive"
    /\ Publishable(broker.last, context)
    /\ LET x == Revoke([Sys EXCEPT !.b.last = context, !.b.domain = FALSE])
           told == [x EXCEPT !.b.context = 0, !.d = UpdateContext(@, context)]
       IN Handled(CASE outcome = "refused" -> x
                    [] outcome = "unheard" -> [x EXCEPT !.b.context = 0]
                    [] outcome = "unanswered" -> told
                    [] OTHER ->
                         [told EXCEPT !.b.context = IF context.active
                                                    THEN context.gen ELSE 0,
                                      !.b.domain = context.active])
    /\ IF broker.last.gen = 0 /\ outcome = "ok" THEN world' = world
       ELSE Trouble(world)
    /\ ui' = ui

InstallInput ==
    /\ broker.pc = "receive"
    /\ ~ broker.input
    /\ ~ seat.exhausted
    /\ broker.pending = Empty
    /\ Handled([Sys EXCEPT !.b.input = TRUE, !.b.serial = seat.serial])
    /\ UNCHANGED <<ui, world>>

(* An index refresh gives authorization a new generation. *)
RefreshPackageIndex ==
    /\ broker.pc = "receive"
    /\ broker.policy < MaxPolicy
    /\ Handled([Sys EXCEPT !.b.policy = @ + 1])
    /\ Trouble(world)
    /\ ui' = ui

(* secure-ui waits for a question; a terminal polls for one. *)
WaitFrontend(p) ==
    /\ broker.pc = "receive"
    /\ Current(p)
    /\ p = "overlay"
    /\ ui[p].id = 0
    /\ ~ broker.idle
    /\ ~ (broker.active # None /\ broker.active.by = p)
    /\ Handled([Sys EXCEPT !.b.idle = TRUE])
    /\ UNCHANGED <<ui, world>>

PollText(p) ==
    /\ broker.pc = "receive"
    /\ Current(p)
    /\ p = "terminal"
    /\ ui[p].id = 0
    /\ IF broker.active # None /\ broker.active.by = p
       THEN /\ ui' = [ui EXCEPT ![p] = [id |-> broker.active.id, armed |-> FALSE]]
            /\ Handled(Sys)
       ELSE /\ ui' = ui
            /\ ~ broker.text
            /\ Handled([Sys EXCEPT !.b.text = TRUE])
    /\ world' = world

ReleaseText(p) ==
    /\ broker.pc = "receive"
    /\ Current(p)
    /\ p = "terminal"
    /\ IF broker.active # None /\ broker.active.by = p
       THEN Handled(CancelActive(Sys))
       ELSE broker.text /\ Handled([Sys EXCEPT !.b.text = FALSE])
    /\ ui' = [ui EXCEPT ![p] = [id |-> 0, armed |-> FALSE]]
    /\ world' = world

(* The session the requester is a member of, as the two channels agree. *)
InSession(x) ==
    /\ x.b.last.active
    /\ x.b.context = x.b.last.gen
    /\ x.b.domain

\* The question a frontend has taken on.
Activated(id, r, p) ==
    [id |-> id, req |-> r, by |-> p, armed |-> FALSE,
     selected |-> "none", confirmed |-> "none", released |-> FALSE]

(* Frontends::begin for the requester r and the presenter its kind selects:
   the question, its held call and its display, or nothing at all.           *)
Begin(x, r, p) ==
    LET id == x.b.next
        q == [req |-> r, by |-> p, session |-> x.b.last.gen, policy |-> x.b.policy]
    IN [x EXCEPT
          !.d = RegisterDisplay(@, id, p),
          !.b.pending = @ @@ (id :> [stage |-> "offered", serial |-> 0,
                                     released |-> FALSE, gesture |-> 0]),
          !.b.slots = @ @@ (id :> q),
          !.b.bytes = @ + 1,
          !.b.next = id + 1,
          !.b.idle = @ /\ p # "overlay",
          !.b.text = @ /\ p # "terminal",
          !.b.active = Activated(id, r, p)]

MayBegin(x, p) ==
    /\ x.b.active = None
    /\ IF p = "overlay" THEN x.b.idle ELSE x.b.text /\ world.foreground
    /\ Current(p)
    /\ InSession(x)
    /\ x.b.input /\ x.b.channel = 0
    /\ x.d.context = [gen |-> x.b.last.gen, active |-> TRUE]
    /\ x.b.bytes < MaxBytes

(* A launch: remembered consent answers it at once, a question holds the call,
   and anything missing refuses it.                                          *)
Launch(r, p) ==
    /\ broker.pc = "receive"
    /\ Current(r)
    /\ calls[r] = 0
    /\ broker.next <= MaxAsk
    /\ IF r \notin broker.remembered /\ MayBegin(Sys, p)
       THEN /\ Handled([Begin(Sys, r, p) EXCEPT !.calls[r] = 1])
            /\ ui' = IF p = "overlay"
                     THEN [ui EXCEPT ![p] = [id |-> broker.next, armed |-> FALSE]]
                     ELSE ui
       ELSE Handled(Sys) /\ ui' = ui
    /\ world' = world

-----------------------------------------------------------------------------
(* A presenter's command, first half: it is the active presenter, the display
   and the session still hold.  A refusal that is not "try again" makes the
   presenter close its window and dismiss the question.                     *)

Closed(p) == ui' = [ui EXCEPT ![p] = [id |-> 0, armed |-> FALSE]]

Observed(x, a) ==
    IF ~ Current(a.req) \/ ~ InSession(x) \/ a.id \notin DOMAIN x.d.entries
    THEN "revoked"
    ELSE IF a.by = "terminal" /\ ~ world.foreground THEN "revoked"
    ELSE x.d.entries[a.id].stage

Command(p, action) ==
    /\ broker.pc = "receive"
    /\ Current(p)
    /\ ui[p].id # 0
    /\ action \in {"once", "always"} => ui[p].armed
    /\ LET a == broker.active
           x == [Sys EXCEPT !.d = Observe(@)]
           stage == Observed(x, a)
       IN IF a = None \/ a.id # ui[p].id \/ a.by # p
          THEN Handled(Sys) /\ Closed(p)
          ELSE IF action \in {"dismiss", "deny"}
          THEN Handled(CancelActive(Sys)) /\ Closed(p)
          ELSE CASE stage = "pending" -> Handled(x) /\ ui' = ui
                 [] stage = "revoked" -> Handled(CancelActive(x)) /\ Closed(p)
                 [] stage = "presented" ->
                      /\ Commit([x EXCEPT !.b.pc = "commit",
                                  !.b.cmd = [id |-> a.id, by |-> p, action |-> action,
                                             late |-> a.id \in world.late]])
                      /\ ui' = ui
    /\ world' = world

(* Every observation the authority made has been received. *)
Synchronized(x) ==
    IF x.b.channel = 0 \/ x.i.exhausted \/ x.i.active # x.b.channel THEN "ended"
    ELSE IF x.i.serial # x.b.serial THEN "behind"
    ELSE "yes"

(* The presenter says the question is on screen: the stream is armed once, and
   the controller keeps the authority's snapshot.                            *)
Arm(x, id) ==
    LET released == AllReleased(x.i)
    IN [x EXCEPT !.i = ArmStream(@, id),
                 !.b.channel = id, !.b.serial = x.i.serial,
                 !.b.pending[id] = [stage |-> "armed", serial |-> x.i.serial,
                                    released |-> released, gesture |-> 0],
                 !.b.active.armed = TRUE,
                 !.b.active.selected = "none", !.b.active.confirmed = "none",
                 !.b.active.released = released]

Live(x, cmd, stage) ==
    /\ cmd.id \in DOMAIN x.b.pending
    /\ ~ cmd.late
    /\ x.b.pending[cmd.id].stage = stage

CommitPresented ==
    /\ broker.pc = "commit"
    /\ broker.cmd.action = "presented"
    /\ LET cmd == broker.cmd
           x == [Sys EXCEPT !.b.cmd = None]
           armed == [ui EXCEPT ![cmd.by].armed = TRUE]
       IN IF broker.active.armed
          THEN /\ Handled(x)
               /\ CASE Synchronized(x) = "yes" -> ui' = armed
                    [] Synchronized(x) = "behind" -> ui' = ui
                    [] OTHER -> Closed(cmd.by)
          ELSE IF Live(x, cmd, "offered") /\ x.b.channel = 0
                  /\ ~ x.i.exhausted /\ x.i.active = 0
          THEN Handled(Arm(x, cmd.id)) /\ ui' = armed
          ELSE Handled(CancelActive(x)) /\ Closed(cmd.by)
    /\ world' = world

(* The answer is remembered first, if asked for; then the kernel is told, which
   refuses an image that is no longer the one that asked.                    *)
Complete(b, cmd, req, outcome) ==
    IF outcome = "unstored" THEN b
    ELSE [b EXCEPT !.remembered = IF cmd.action = "always" THEN @ \union {req} ELSE @,
                   !.granted = IF Current(req)
                               THEN @ \union {[id |-> cmd.id, choice |-> cmd.action]}
                               ELSE @]

(* The question is consumed before anything that may fail. *)
Finish(x, cmd, outcome) ==
    LET req == x.b.slots[cmd.id].req
        y == Reply([x EXCEPT !.b.pending = Without(@, cmd.id),
                             !.b.slots = Without(@, cmd.id),
                             !.b.bytes = @ - 1,
                             !.b.active = None], req)
    IN Dismiss([y EXCEPT !.b = Complete(@, cmd, req, outcome)], cmd.id)

Accepts(a, choice) == a.by = "overlay" \/ a.confirmed = choice

CommitDecide(outcome) ==
    /\ broker.pc = "commit"
    /\ broker.cmd.action \in {"once", "always"}
    /\ outcome = "unstored" => broker.cmd.action = "always"
    /\ LET cmd == broker.cmd
           x == [Sys EXCEPT !.b.cmd = None]
           a == broker.active
       IN CASE ~ a.armed \/ Synchronized(x) = "behind"
                 \/ (Synchronized(x) = "yes" /\ ~ Accepts(a, cmd.action)) ->
                 Handled(x) /\ ui' = ui
            [] a.armed /\ Synchronized(x) = "ended" -> Handled(x) /\ Closed(cmd.by)
            [] OTHER ->
                 IF ~ Live(x, cmd, "armed")
                 THEN Handled(CancelActive(x)) /\ Closed(cmd.by)
                 ELSE IF x.b.pending[cmd.id].gesture = 0
                 THEN Handled(x) /\ ui' = ui
                 ELSE Handled(Finish(x, cmd, outcome)) /\ Closed(cmd.by)
    /\ world' = world

-----------------------------------------------------------------------------
(* An observation arrives.  A press counts when everything was released
   before it; a terminal also wants the shortcut of the choice and then Enter,
   each pressed alone.                                                       *)

(* Y or A selects, Enter confirms. *)
Shortcut(k) == CASE k = 21 -> "once" [] k = 30 -> "always" [] OTHER -> "none"

(* (A mutant.)  A press counts whatever was held before it. *)
InputUnreleased(q, ev) ==
    [q EXCEPT !.serial = ev.serial,
              !.gesture = IF ev.t = "press" THEN ev.serial ELSE @,
              !.released = TRUE]

Input(q, ev) ==
    [q EXCEPT !.serial = ev.serial,
              !.gesture = IF ev.t = "press" /\ q.released THEN ev.serial ELSE @,
              !.released = IF ev.t = "press" THEN FALSE
                           ELSE @ \/ ev.t = "allreleased"]

TextEvidence(a, ev) ==
    CASE ev.t = "allreleased" -> [a EXCEPT !.released = TRUE]
      [] ev.t = "press" ->
           [a EXCEPT !.released = FALSE,
                     !.confirmed = IF a.released /\ ev.k = 28 THEN a.selected
                                   ELSE "none",
                     !.selected = IF a.released THEN Shortcut(ev.k) ELSE "none"]
      [] ev.t = "release" -> a
      [] OTHER -> [a EXCEPT !.selected = "none", !.confirmed = "none"]

(* The channel takes only the next serial of the stream it armed. *)
Receives(b, ev) == b.channel = ev.id /\ ev.serial = b.serial + 1

InputEvent ==
    /\ broker.pc = "receive"
    /\ seat.events # <<>>
    /\ LET ev == Head(seat.events)
           x == [Sys EXCEPT !.i.events = Tail(@)]
           y == [x EXCEPT !.b.serial = ev.serial]
       IN IF ~ Receives(broker, ev) THEN Handled(x)
          ELSE IF ev.id \notin DOMAIN y.b.pending THEN Handled(y)
          ELSE IF ev.id \in world.late
          THEN Handled([y EXCEPT !.b.pending = Without(@, ev.id)])
          ELSE Handled([y EXCEPT
                 !.b.pending[ev.id] = Input(@, ev),
                 !.b.active = IF @.by = "terminal" THEN TextEvidence(@, ev) ELSE @])
    /\ UNCHANGED <<ui, world>>

-----------------------------------------------------------------------------
(* Processes exec or exit, the deadline of the question passes, the terminal's
   foreground group changes.                                                 *)
Leave(p, how) ==
    /\ Current(p)
    /\ Trouble([world EXCEPT !.image[p] = how])
    /\ display' = display
    /\ UNCHANGED <<broker, seat, ui, calls>>

Deadline ==
    /\ ~ DOMAIN broker.slots \subseteq world.late
    /\ Trouble([world EXCEPT !.late = DOMAIN broker.slots])
    /\ UNCHANGED <<broker, seat, display, ui, calls>>

Background ==
    /\ world.kind = "terminal"
    /\ Trouble([world EXCEPT !.foreground = ~ @])
    /\ UNCHANGED <<broker, seat, display, ui, calls>>

ConsentNext ==
    \/ Loop
    \/ Wake
    \/ InstallInput
    \/ RefreshPackageIndex
    \/ Present
    \/ Cover
    \/ Deadline
    \/ Background
    \/ InputEvent
    \/ CommitPresented
    \/ \E outcome \in {"stored", "unstored"} : CommitDecide(outcome)
    \/ \E gen \in 1..MaxSession, active \in BOOLEAN,
          outcome \in {"ok", "refused", "unheard", "unanswered"} :
          PublishSession([gen |-> gen, active |-> active], outcome)
    \/ \E p \in {world.kind} :
          \/ WaitFrontend(p)
          \/ PollText(p)
          \/ ReleaseText(p)
          \/ Bind(p)
          \/ CommitSurface(p)
          \/ \E action \in {"presented", "once", "always", "deny", "dismiss"} :
                Command(p, action)
          \/ \E r \in Requester : Launch(r, p)
    \/ \E to \in {world.kind, "none"} : UpdateKeyboardFocus(to)
    \/ \E p \in Requester \union {world.kind}, how \in {"execed", "exited"} : Leave(p, how)
    \/ \E k \in Key, down, synthetic, sent \in BOOLEAN :
          Keyboard(k, down, synthetic, sent)
    \/ \E buttons \in SUBSET Button, sent \in BOOLEAN : Pointer(buttons, sent)

ConsentSpec == ConsentInit /\ [][ConsentNext]_consentVars

-----------------------------------------------------------------------------
(* Every unanswered call is held in exactly one slot and charged once; and when
   the broker has maintained its tables, the only slot left is that of the
   active question, and only it has a pending decision, a display registration
   or an input stream: whichever of the four services, the requester or the
   deadline ended the previous question.                                     *)
ConsentAccounted ==
    /\ broker.bytes = Cardinality(DOMAIN broker.slots)
    /\ \A r \in Requester :
          calls[r] = Cardinality({id \in DOMAIN broker.slots : broker.slots[id].req = r})
    /\ DOMAIN broker.pending \subseteq DOMAIN broker.slots
    /\ broker.pc = "receive" =>
          LET a == {broker.active.id} \ {0}
          IN /\ DOMAIN broker.slots = a
             /\ {broker.channel} \ {0} \subseteq a
             /\ seat.active \in {0, broker.channel}
             /\ DOMAIN display.entries \subseteq a

Quiet(trail, i, j, kinds) == \A k \in (i + 1)..(j - 1) : trail[k].t \notin kinds

(* A press made after everything was released, with the question on screen. *)
FreshPress(trail, j) ==
    /\ trail[j].t = "press"
    /\ trail[j].shown
    /\ \E i \in 1..(j - 1) : /\ trail[i].t = "allreleased"
                             /\ Quiet(trail, i, j, {"press"})

Witnessed(trail, by, choice) ==
    LET end == Len(trail) + 1
    IN IF by = "overlay" THEN \E j \in DOMAIN trail : FreshPress(trail, j)
       ELSE \E m, n \in DOMAIN trail :
               /\ m < n
               /\ FreshPress(trail, m) /\ Shortcut(trail[m].k) = choice
               /\ FreshPress(trail, n) /\ trail[n].k = 28
               /\ Quiet(trail, m, n, {"press", "repeat", "synthetic"})
               /\ Quiet(trail, n, end, {"press", "repeat", "synthetic"})

(* Of every step: a grant is given only while the requester is the process that asked, in the
   session and under the policy it asked in, and only for a choice that fresh
   physical presses made while its own question was on screen; and a choice is
   remembered only by such a proposal.                                       *)
GrantsWitnessed ==
    LET cmd == broker.cmd
        q == broker.slots[cmd.id]
    IN /\ broker'.granted # broker.granted => Current(q.req)
       /\ (broker'.granted # broker.granted \/ broker'.remembered # broker.remembered) =>
             /\ q.session = broker.last.gen
             /\ broker.last.active
             /\ display.context = broker.last
             /\ q.policy = broker.policy
             /\ Witnessed(seat.trail, q.by, cmd.action)

=============================================================================
