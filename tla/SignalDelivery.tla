---------------------------- MODULE SignalDelivery ----------------------------
(***************************************************************************)
(* Signals of one process of the POSIX service: generation, masks and      *)
(* dispositions, native interrupts, dequeue and its delivery tokens,       *)
(* synchronous waits, POSIX timers, the alarm clock, and exec.             *)
(* posix/src/lib.rs keeps the sets, signal_dequeue.rs and the              *)
(* process_timer modules select and publish, main.rs runs the loop.        *)
(*                                                                         *)
(* svc is the service's state of the process.  Everything else is outside  *)
(* it: the threads, their requests in flight, the native interrupt flags,  *)
(* the image and the clock.  The loop makes a pass (stages "timers",       *)
(* "waits", "notify") before each request ("receive").                     *)
(***************************************************************************)
EXTENDS Integers, FiniteSets, Sequences, SequencesExt

CONSTANTS
  Thread,         \* thread ids, positive
  Signal,         \* signal numbers, positive: the lowest is taken first
  StopSignals, Cont, Kill, Uncatchable, DefaultIgnored, AlarmSignal,
  MaxDeliveries,  \* MAX_OUTSTANDING_SIGNAL_DELIVERIES
  MaxTimers,      \* MAX_TIMERS_PER_PROCESS
  Ceiling,        \* the last finite time of a schedule
  MaxNow,         \* bound: the clock stops here
  Workload        \* name -> what the environment of a behaviour may do

VARIABLES svc, stage, alive, handle, started, called, call, seen, image, now, left, load

client == <<alive, started, called, call, seen>>
vars == <<svc, stage, handle, client, image, now, left, load>>


\* Key 0 stands for the process, in origins and in notifications.
Process == 0
Idle == [op |-> "none"]
Blocked == [op |-> "blocked"]
NoEvent == [seq |-> 0, count |-> 0]

Min0(S) == CHOOSE x \in S : \A y \in S : x <= y
-----------------------------------------------------------------------------
(* Schedule: a deadline (0 when disarmed) and an interval. *)

Armed(time, initial, interval) ==
  [deadline |-> IF initial = 0 THEN 0 ELSE time + initial, interval |-> interval]

Expirations(s, time) ==
  IF s.deadline = 0 \/ s.deadline > time THEN 0
  ELSE IF s.interval = 0 THEN 1
  ELSE (time - s.deadline) \div s.interval + 1

\* Mutant: the next deadline counts from the observation.
AdvancedDrift(s, time) ==
  IF Expirations(s, time) = 0 THEN s
  ELSE [s EXCEPT !.deadline = IF s.interval = 0 \/ time + s.interval > Ceiling
                                THEN 0 ELSE time + s.interval]

\* Schedule::observe: advance from the scheduled deadline, or disarm.
Advanced(s, time) ==
  LET next == s.deadline + Expirations(s, time) * s.interval
  IN  IF Expirations(s, time) = 0 THEN s
      ELSE [s EXCEPT !.deadline = IF s.interval = 0 \/ next > Ceiling THEN 0 ELSE next]
-----------------------------------------------------------------------------
(* Timers: one pending event each, counting its expirations.  first and told *)
(* are history: the first deadline since the timer was set, and how many     *)
(* expirations were reported or deliberately discarded since.                *)

SignalTimers(s) == {t \in s.timers : t.kind = "signal" /\ t.event # NoEvent}
TimerSignals(s) == {t.signal : t \in SignalTimers(s)}

\* Registry::discard_signals
WithoutEvents(s, signals) ==
  [s EXCEPT !.timers = {IF t \in SignalTimers(s) /\ t.signal \in signals
                          THEN [t EXCEPT !.told = @ + t.event.count, !.event = NoEvent]
                          ELSE t : t \in @}]

TimerOf(s, id) == CHOOSE t \in s.timers : t.id = id

\* OwnedTimers::observe
Observed(s, id) ==
  LET t == TimerOf(s, id)
      count == Expirations(t.schedule, now)
      new == count # 0 /\ t.kind # "none" /\ t.event = NoEvent
      more == count # 0 /\ t.kind # "none" /\ t.event # NoEvent
      event == IF new THEN [seq |-> s.seq, count |-> count]
               ELSE IF more THEN [t.event EXCEPT !.count = @ + count] ELSE t.event
  IN  [s EXCEPT !.timers = (@ \ {t}) \cup {[t EXCEPT !.schedule = Advanced(@, now), !.event = event]},
                !.seq = IF new THEN @ + 1 ELSE @]
-----------------------------------------------------------------------------
(* Generation *)

\* Mutant: the events of the process's timers outlive a cancellation.
PreparedPartly(s, signal) ==
  LET cancelled == IF signal = Cont THEN StopSignals
                   ELSE IF signal \in StopSignals THEN {Cont} ELSE {}
  IN  [s EXCEPT !.pending = @ \ cancelled,
                !.own = [t \in Thread |-> @[t] \ cancelled],
                !.origins = {o \in @ : o[2] \notin cancelled},
                !.deliveries = IF signal \in {Cont, Kill}
                                 THEN {d \in @ : d.signal \notin StopSignals} ELSE @]

\* prepare_signal_generation: stops and SIGCONT cancel each other wherever they
\* are pending, and SIGCONT and SIGKILL also the stops already handed out.
Prepared(s, signal) ==
  LET cancelled == IF signal = Cont THEN StopSignals
                   ELSE IF signal \in StopSignals THEN {Cont} ELSE {}
  IN  [WithoutEvents(s, cancelled) EXCEPT
         !.pending = @ \ cancelled,
         !.own = [t \in Thread |-> @[t] \ cancelled],
         !.origins = {o \in @ : o[2] \notin cancelled},
         !.deliveries = IF signal \in {Cont, Kill}
                          THEN {d \in @ : d.signal \notin StopSignals} ELSE @]

\* remove_empty_signal_notification
Quieted(s) ==
  IF s.pending = {} /\ TimerSignals(s) = {} THEN [s EXCEPT !.notes = @ \ {Process}] ELSE s

\* enqueue_signal_with_origin
Enqueued(s, signal) ==
  LET p == Prepared(s, signal)
  IN  IF signal \in p.ignored THEN Quieted(p)
      ELSE [p EXCEPT !.pending = @ \cup {signal},
                     !.origins = @ \cup {<<Process, signal>>},
                     !.notes = @ \cup {Process}]

\* notify_timer_signal, once per new pending event
TimerNotified(s, signal) ==
  LET p == Prepared(s, signal)
  IN  Quieted(IF signal \in p.ignored THEN WithoutEvents(p, {signal})
              ELSE [p EXCEPT !.notes = @ \cup {Process}])

\* observe_new_signal and its notification
ObservedNew(s, id) ==
  LET o == Observed(s, id)
      t == TimerOf(o, id)
  IN  IF TimerOf(s, id).event = NoEvent /\ t.event # NoEvent /\ t.kind = "signal"
        THEN TimerNotified(o, t.signal) ELSE o

\* thread_raise_signal_payload, for the caller or for a sibling it names
Raised(s, t, signal) ==
  LET p == Prepared(s, signal)
  IN  IF t \notin s.known THEN s
      ELSE IF signal \in p.ignored THEN p
      ELSE [p EXCEPT !.own[t] = @ \cup {signal},
                     !.origins = @ \cup {<<t, signal>>},
                     !.notes = IF signal \in p.mask[t] THEN @ ELSE @ \cup {t}]

\* signal_disposition_payload and ProcessSignalState::set_disposition
Disposed(s, signal, kind) ==
  LET discards == kind = "ignore" \/ (kind = "default" /\ signal \in DefaultIgnored)
      d == [s EXCEPT !.ignored = IF kind = "ignore" THEN @ \cup {signal} ELSE @ \ {signal},
                     !.caught = IF kind = "caught" THEN @ \cup {signal} ELSE @ \ {signal}]
      gone == [WithoutEvents(d, {signal}) EXCEPT
                 !.pending = @ \ {signal},
                 !.own = [t \in Thread |-> @[t] \ {signal}],
                 !.origins = {o \in @ : o[2] # signal},
                 !.notes = {n \in @ : n = Process \/ s.own[n] \ {signal} # {}}]
  IN  Quieted(IF discards THEN gone ELSE d)

\* Mutant: a signal that is no longer blocked waits for the next notification.
MaskedQuietly(s, t, how, set) ==
  LET wanted == set \ Uncatchable
      current == IF t \in s.known THEN s.mask[t] ELSE {}
      updated == CASE how = "set" -> wanted
                   [] how = "block" -> current \cup wanted
                   [] how = "unblock" -> current \ wanted
                   [] how = "initialize" -> IF t \in s.known THEN current ELSE wanted
  IN  [s EXCEPT !.known = @ \cup {t}, !.mask[t] = updated]

\* thread_signal_mask_payload
Masked(s, t, how, set) ==
  LET wanted == set \ Uncatchable
      current == IF t \in s.known THEN s.mask[t] ELSE {}
      updated == CASE how = "set" -> wanted
                   [] how = "block" -> current \cup wanted
                   [] how = "unblock" -> current \ wanted
                   [] how = "initialize" -> IF t \in s.known THEN current ELSE wanted
      opened == (IF t \in s.known THEN current ELSE Signal) \ updated
  IN  [s EXCEPT !.known = @ \cup {t},
                !.mask[t] = updated,
                !.notes = @ \cup (IF opened \cap (s.pending \cup TimerSignals(s)) # {}
                                    THEN {Process} ELSE {})
                            \cup (IF opened \cap s.own[t] # {} THEN {t} ELSE {})]

\* signal_thread_ready, when the thread's handle is registered
Ready(s, t) ==
  IF t \notin s.known THEN s
  ELSE [s EXCEPT
          !.notes = @ \cup (IF (s.pending \cup TimerSignals(s)) \ s.mask[t] # {} THEN {Process} ELSE {})
                      \cup (IF s.own[t] \ s.mask[t] # {} THEN {t} ELSE {})]

\* retire_signal_thread, once the thread is known to have terminated
Retired(s, t) ==
  LET r == [Quieted([s EXCEPT !.timers = {x \in @ : x.target # t}]) EXCEPT
              !.known = @ \ {t}, !.mask[t] = {}, !.epoch[t] = 0, !.own[t] = {},
              !.origins = {o \in @ : o[1] # t},
              !.notes = @ \ {t},
              !.deliveries = {d \in @ : d.thread # t}]
  IN  IF r.pending \cup TimerSignals(r) # {} THEN [r EXCEPT !.notes = @ \cup {Process}] ELSE r

\* reset_image_signals, when a new image is observed
Refreshed(s) ==
  IF s.image = image THEN s
  ELSE [s EXCEPT !.image = image, !.timers = {}, !.caught = {}, !.deliveries = {}]
-----------------------------------------------------------------------------
(* Selection: the thread's own signals, then the lowest number, a timer's     *)
(* event only where it is lower than every ordinary signal.  Nothing is       *)
(* consumed before the reply is published.                                    *)

\* The lowest (signal, id) among the events of non-ignored signals.
TimerCandidates(s, eligible) ==
  LET events == {t \in SignalTimers(s) : t.signal \in eligible \ s.ignored}
  IN  {t \in events : \A u \in events :
         t.signal < u.signal \/ (t.signal = u.signal /\ t.id <= u.id)}

NoCandidate == [from |-> "none", signal |-> 0]

Candidate(s, t, eligible) ==
  LET own == s.own[t] \cap eligible
      ordinary == s.pending \cap eligible
      timers == {x \in TimerCandidates(s, eligible) : \A g \in ordinary : x.signal < g}
  IN  IF own # {} THEN [from |-> "thread", signal |-> Min0(own)]
      ELSE IF timers # {}
        THEN LET x == CHOOSE x \in timers : TRUE
             IN  [from |-> "timer", signal |-> x.signal, timer |-> x.id]
      ELSE IF ordinary # {} THEN [from |-> "process", signal |-> Min0(ordinary)]
      ELSE NoCandidate

\* OwnedTimers::accept: the expirations up to now belong to this event.
Accepted(s, id) ==
  LET o == Observed(s, id)
      t == TimerOf(o, id)
  IN  [o EXCEPT !.timers = (@ \ {t}) \cup
         {[t EXCEPT !.overrun = t.event.count - 1, !.told = @ + t.event.count, !.event = NoEvent]}]

\* Mutant: taking a signal leaves its origin behind.
TakenOnly(s, t, c) ==
  CASE c.from = "thread" -> [s EXCEPT !.own[t] = @ \ {c.signal}]
    [] c.from = "process" -> [s EXCEPT !.pending = @ \ {c.signal}]
    [] c.from = "timer" -> Accepted(s, c.timer)

\* What a published reply consumes.
Taken(s, t, c) ==
  CASE c.from = "thread" -> [s EXCEPT !.own[t] = @ \ {c.signal},
                                      !.origins = @ \ {<<t, c.signal>>}]
    [] c.from = "process" -> [s EXCEPT !.pending = @ \ {c.signal},
                                       !.origins = @ \ {<<Process, c.signal>>}]
    [] c.from = "timer" -> Accepted(s, c.timer)

\* begin_signal_delivery and Publication: a token, and a step of the epoch.
Begun(s, t, signal) ==
  [s EXCEPT !.deliveries = @ \cup {[token |-> s.token, thread |-> t, signal |-> signal]},
            !.token = @ + 1, !.epoch[t] = @ + 1]

\* The token is spent, the event stays and asks for another interrupt.
Unpublished(s, t, c) ==
  [(IF c.from = "timer" THEN Observed(s, c.timer) ELSE s) EXCEPT
     !.token = @ + 1,
     !.notes = @ \cup {IF c.from = "thread" THEN t ELSE Process}]

\* dequeue_signal_with_timers for a candidate, with room for a delivery
Dequeued(s, t, c, published) ==
  IF published THEN Quieted(Begun(Taken(s, t, c), t, c.signal)) ELSE Unpublished(s, t, c)

\* Mutant: only a delivery that happened interrupts a wait.
InterruptedLate(s, t, epoch) == s.epoch[t] # epoch

\* validate_wait_delivery_epoch: the caller must first handle a signal.
Interrupted(s, t, epoch) ==
  \/ s.epoch[t] # epoch
  \/ (s.pending \cup s.own[t] \cup (TimerSignals(s) \ s.ignored)) \ s.mask[t] # {}

\* poll_wait_signal_info_with_timers: "stay", or what answers the wait.
WaitResult(s, w) ==
  LET wanted == w.mask \ Uncatchable
      c == Candidate(s, w.thread, wanted)
  IN  IF w.image # s.image \/ w.thread \notin s.known THEN [kind |-> "ESRCH"]
      ELSE IF Interrupted(s, w.thread, w.epoch) THEN [kind |-> "EINTR"]
      ELSE IF wanted \ s.mask[w.thread] # {} THEN [kind |-> "EINVAL"]
      ELSE IF c # NoCandidate THEN [kind |-> "signal", candidate |-> c]
      ELSE IF w.deadline # 0 /\ now >= w.deadline THEN [kind |-> "EAGAIN"]
      ELSE [kind |-> "stay"]

\* An unpublished wait keeps the exact signal pending.
WaitPolled(s, w, published) ==
  LET r == WaitResult(s, w)
  IN  IF r.kind # "signal" \/ ~published THEN s
      ELSE IF r.candidate.from = "timer" THEN Quieted(Taken(s, w.thread, r.candidate))
      ELSE Taken(s, w.thread, r.candidate)

\* poll_timer_callback: the oldest event of a timer that calls back.
Callbacks(s) == {t \in s.timers : t.kind = "thread" /\ t.event # NoEvent}
Oldest(s) == CHOOSE t \in Callbacks(s) : \A u \in Callbacks(s) : t.event.seq <= u.event.seq
-----------------------------------------------------------------------------
(* The service loop *)

UnchangedOutside == UNCHANGED <<image, now, left, load>>

TimerIds(s) == {t.id : t \in s.timers}

\* expire_alarms_at
AlarmExpired(s) ==
  IF Expirations(s.alarm, now) = 0 THEN s
  ELSE [Enqueued(s, AlarmSignal) EXCEPT !.alarm = Advanced(@, now)]

\* observe_process_timers: the armed timers that notify, in the order of their ids.
TimersObserved(s) ==
  LET plan == {t.id : t \in {x \in s.timers : x.kind # "none" /\ x.schedule.deadline # 0}}
  IN  FoldLeft(ObservedNew, s, SetToSortSeq(plan, <))

LoopTimers ==
  /\ stage = "timers" /\ stage' = "waits"
  /\ svc' = LET s == AlarmExpired(svc)
            IN  IF s.timers = {} THEN s ELSE TimersObserved(Refreshed(s))
  /\ UNCHANGED <<handle, client>> /\ UnchangedOutside

\* complete_pending_signal_waits, then callback_waits.observe.  A caller may die
\* as it is answered: then nothing was published to it.
LoopWaits ==
  /\ stage = "waits" /\ stage' = "notify"
  /\ \E order \in SetToSeqs(svc.waits), dying \in SUBSET {w.thread : w \in svc.waits} :
       LET start == IF svc.waits = {} /\ svc.callback = 0 THEN svc ELSE Refreshed(svc)
           Poll(s, w) ==
             IF w.thread \notin alive THEN [s EXCEPT !.waits = @ \ {w}]
             ELSE IF WaitResult(s, w).kind = "stay" THEN s
             ELSE [WaitPolled(s, w, w.thread \notin dying) EXCEPT !.waits = @ \ {w}]
           polled == FoldLeft(Poll, start, order)
           waiter == polled.callback
           reached == waiter # 0 /\ (waiter \notin alive \/ Callbacks(polled) # {}
                                       \/ polled.callbackImage # polled.image
                                       \/ waiter \notin polled.known)
           offered == reached /\ waiter \in alive /\ waiter \in polled.known
                        /\ polled.callbackImage = polled.image
           final == IF ~reached THEN polled
                    ELSE [(IF offered THEN Accepted(polled, Oldest(polled).id) ELSE polled)
                            EXCEPT !.callback = 0]
           answered == ({w.thread : w \in start.waits \ final.waits}
                          \cup (IF reached THEN {waiter} ELSE {})) \cap alive
       IN  /\ svc' = final
           /\ alive' = alive \ dying
           /\ call' = [t \in Thread |-> IF t \in answered \cup dying THEN Idle ELSE call[t]]
           /\ called' = called \ dying
  /\ UNCHANGED <<handle, started, seen>> /\ UnchangedOutside

Running == {t \in alive : started[t] = {"mask", "handle"}}
Reachable == {t \in alive : "handle" \in started[t]}

\* deliver_signal_notifications: interrupt the thread, or every thread of the
\* process; a thread found terminated is retired.  Then, once a second, the sweep.
LoopNotify(sweep) ==
  /\ stage = "notify" /\ stage' = "receive"
  /\ LET targets == (svc.notes \ {Process}) \cap handle
         one == FoldLeft(Retired, [svc EXCEPT !.notes = @ \ (targets \cap alive)],
                         SetToSortSeq(targets \ alive, <))
         everyone == IF Process \in one.notes THEN handle \ (targets \ alive) ELSE {}
         two == FoldLeft(Retired, one, SetToSortSeq(everyone \ alive, <))
         told == IF everyone \cap alive # {} THEN [two EXCEPT !.notes = @ \ {Process}] ELSE two
         left1 == handle \ ((targets \cup everyone) \ alive)
         swept == IF sweep THEN left1 \ alive ELSE {}
     IN  /\ svc' = FoldLeft(Retired, told, SetToSortSeq(swept, <))
         /\ handle' = left1 \ swept
         /\ called' = called \cup ((targets \cup everyone) \cap Reachable)
  /\ UNCHANGED <<alive, started, call, seen>> /\ UnchangedOutside

\* The loop's wait ends: a deadline, or a handle that became ready.
Wake ==
  /\ stage = "receive" /\ stage' = "timers"
  /\ UNCHANGED <<svc, handle, client>> /\ UnchangedOutside
-----------------------------------------------------------------------------
(* Requests of the process's threads, authenticated by their endpoint *)

Receives(t, op) == stage = "receive" /\ stage' = "timers" /\ t \in alive /\ call[t].op = op

Reply(t) == call' = [call EXCEPT ![t] = Idle]

ThreadMask(t) ==
  /\ Receives(t, "mask")
  /\ svc' = Masked(Refreshed(svc), t, call[t].how, call[t].set)
  /\ started' = [started EXCEPT ![t] = @ \cup {"mask"}]
  /\ Reply(t) /\ UNCHANGED <<handle, alive, called, seen>> /\ UnchangedOutside

ThreadRegister(t) ==
  /\ Receives(t, "register")
  /\ svc' = Ready(Refreshed(svc), t)
  /\ handle' = handle \cup {t}
  /\ started' = [started EXCEPT ![t] = @ \cup {"handle"}]
  /\ Reply(t) /\ UNCHANGED <<alive, called, seen>> /\ UnchangedOutside

SignalDisposition(t) ==
  /\ Receives(t, "disposition")
  /\ svc' = Disposed(Refreshed(svc), call[t].signal, call[t].kind)
  /\ Reply(t) /\ UNCHANGED <<handle, alive, started, called, seen>> /\ UnchangedOutside

ThreadRaise(t) ==
  /\ Receives(t, "raise")
  /\ svc' = IF call[t].target \in alive THEN Raised(Refreshed(svc), call[t].target, call[t].signal)
            ELSE Refreshed(svc)
  /\ Reply(t) /\ UNCHANGED <<handle, alive, started, called, seen>> /\ UnchangedOutside

\* thread_fault_signal_payload: the fault itself is delivered, nothing is pending.
ThreadFault(t) ==
  /\ Receives(t, "fault")
  /\ LET s == Refreshed(svc)
     IN  svc' = IF t \in s.known /\ Cardinality(s.deliveries) < MaxDeliveries
                  THEN Begun(s, t, call[t].signal) ELSE s
  /\ Reply(t) /\ UNCHANGED <<handle, alive, started, called, seen>> /\ UnchangedOutside

ThreadEpoch(t) ==
  /\ Receives(t, "epoch")
  /\ svc' = Refreshed(svc)
  /\ seen' = [seen EXCEPT ![t] = svc.epoch[t]]
  /\ Reply(t) /\ UNCHANGED <<handle, alive, started, called>> /\ UnchangedOutside

\* The empty answer ends the thread's upcall; at the limit the call fails.
DequeueSignal(t, published) ==
  /\ Receives(t, "dequeue")
  /\ LET s == Refreshed(svc)
         c == Candidate(s, t, Signal \ s.mask[t])
         full == Cardinality(s.deliveries) >= MaxDeliveries
     IN  /\ ~published => t \in s.known /\ c # NoCandidate /\ ~full
         /\ svc' = IF t \notin s.known \/ c = NoCandidate THEN s
                   ELSE IF full THEN (IF c.from = "timer" THEN Observed(s, c.timer) ELSE s)
                   ELSE Dequeued(s, t, c, published)
         /\ called' = IF published /\ c # NoCandidate THEN called ELSE called \ {t}
  /\ alive' = IF published THEN alive ELSE alive \ {t}
  /\ Reply(t) /\ UNCHANGED <<handle, started, seen>> /\ UnchangedOutside

\* complete_signal_delivery
CompleteDelivery(t) ==
  /\ Receives(t, "complete")
  /\ LET s == Refreshed(svc)
     IN  svc' = [s EXCEPT !.deliveries = {d \in @ : d.token # call[t].token}]
  /\ Reply(t) /\ UNCHANGED <<handle, alive, started, called, seen>> /\ UnchangedOutside

\* OP_SIGNAL_THREAD_WAIT_INFO and _TIMED_WAIT
SignalWait(t, published) ==
  /\ Receives(t, "wait")
  /\ LET s == Refreshed(svc)
         w == [thread |-> t, mask |-> call[t].mask, epoch |-> seen[t],
               deadline |-> call[t].deadline, image |-> image]
         r == WaitResult(s, w)
     IN  /\ ~published => r.kind = "signal"
         /\ svc' = IF r.kind = "stay" THEN [s EXCEPT !.waits = @ \cup {w}]
                   ELSE WaitPolled(s, w, published)
         /\ call' = [call EXCEPT ![t] = IF r.kind = "stay" THEN Blocked ELSE Idle]
  /\ alive' = IF published THEN alive ELSE alive \ {t}
  /\ called' = IF published THEN called ELSE called \ {t}
  /\ UNCHANGED <<handle, started, seen>> /\ UnchangedOutside

\* OP_TIMER_THREAD_WAIT: one deferred callback wait per process
TimerThreadWait(t) ==
  /\ Receives(t, "callback")
  /\ LET s == Refreshed(svc)
         ready == Callbacks(s) # {}
     IN  IF s.callback # 0 \/ t \notin s.known THEN svc' = s /\ Reply(t)
         ELSE IF ready THEN svc' = Accepted(s, Oldest(s).id) /\ Reply(t)
         ELSE /\ svc' = [s EXCEPT !.callback = t, !.callbackImage = image]
              /\ call' = [call EXCEPT ![t] = Blocked]
  /\ UNCHANGED <<handle, alive, started, called, seen>> /\ UnchangedOutside

NewTimer(id, c) ==
  [id |-> id, kind |-> c.kind, signal |-> c.signal, target |-> c.target,
   schedule |-> Armed(0, 0, 0), event |-> NoEvent, overrun |-> 0, first |-> 0, told |-> 0]

\* create_with_reply: the id is consumed even if the reply is not published.
Created(s, c, published) ==
  [s EXCEPT !.nextTimer = @ + 1,
            !.timers = IF published THEN @ \cup {NewTimer(s.nextTimer, c)} ELSE @]

TimerCreate(t, published) ==
  /\ Receives(t, "create")
  /\ LET s == Refreshed(svc)
         room == Cardinality(s.timers) < MaxTimers
     IN  /\ ~published => room
         /\ svc' = IF room THEN Created(s, call[t], published) ELSE s
  /\ alive' = IF published THEN alive ELSE alive \ {t}
  /\ called' = IF published THEN called ELSE called \ {t}
  /\ Reply(t) /\ UNCHANGED <<handle, started, seen>> /\ UnchangedOutside

\* OP_TIMER_SET: the pending event of the old setting is dropped.
TimerSet(t) ==
  /\ Receives(t, "set")
  /\ LET s == Refreshed(svc)
         x == TimerOf(s, call[t].timer)
         schedule == Armed(now, call[t].initial, call[t].interval)
     IN  svc' = IF call[t].timer \notin TimerIds(s) THEN s
                ELSE Quieted([s EXCEPT !.timers = (@ \ {x}) \cup
                       {[x EXCEPT !.schedule = schedule, !.event = NoEvent,
                                  !.first = schedule.deadline, !.told = 0]}])
  /\ Reply(t) /\ UNCHANGED <<handle, alive, started, called, seen>> /\ UnchangedOutside

\* OP_TIMER_GET observes the timer; OP_TIMER_DELETE drops it with its event.
TimerGet(t) ==
  /\ Receives(t, "get")
  /\ LET s == Refreshed(svc)
     IN  svc' = IF call[t].timer \notin TimerIds(s) THEN s ELSE Quieted(ObservedNew(s, call[t].timer))
  /\ Reply(t) /\ UNCHANGED <<handle, alive, started, called, seen>> /\ UnchangedOutside

TimerDelete(t) ==
  /\ Receives(t, "delete")
  /\ LET s == Refreshed(svc)
     IN  svc' = IF call[t].timer \notin TimerIds(s) THEN s
                ELSE Quieted([s EXCEPT !.timers = {x \in @ : x.id # call[t].timer}])
  /\ Reply(t) /\ UNCHANGED <<handle, alive, started, called, seen>> /\ UnchangedOutside

\* alarm_payload and real_timer_payload: expire what is due, then replace.
SetAlarm(t) ==
  /\ Receives(t, "alarm")
  /\ svc' = [AlarmExpired(Refreshed(svc)) EXCEPT
               !.alarm = Armed(now, call[t].initial, call[t].interval)]
  /\ Reply(t) /\ UNCHANGED <<handle, alive, started, called, seen>> /\ UnchangedOutside

\* thread_wait_interrupt: a cancelled wait of a sibling sees another epoch.
WaitInterrupt(t) ==
  /\ Receives(t, "cancel")
  /\ LET s == Refreshed(svc)
     IN  svc' = IF call[t].target \in s.known \cap alive
                  THEN [s EXCEPT !.epoch[call[t].target] = @ + 1] ELSE s
  /\ Reply(t) /\ UNCHANGED <<handle, alive, started, called, seen>> /\ UnchangedOutside

\* A signal from another process, a terminal or the service itself.
Send(signal) ==
  /\ stage = "receive" /\ stage' = "timers"
  /\ left > 0 /\ left' = left - 1
  /\ svc' = Enqueued(Refreshed(svc), signal)
  /\ UNCHANGED <<handle, client, image, now, load>>
-----------------------------------------------------------------------------
(* The threads.  An interrupted thread dequeues until nothing is left; a thread *)
(* blocked in a deferred wait does so once the wait is answered.                *)

Post(t, request) ==
  /\ t \in alive /\ call[t] = Idle
  /\ call' = [call EXCEPT ![t] = request]
  /\ UNCHANGED <<svc, stage, handle, alive, started, called, seen, image, now, load>>

Start(t) ==
  /\ started[t] # {"mask", "handle"}
  /\ \/ /\ "mask" \notin started[t]
        /\ \E m \in load.initial : Post(t, [op |-> "mask", how |-> "initialize", set |-> m])
     \/ "handle" \notin started[t] /\ Post(t, [op |-> "register"])
  /\ UNCHANGED left

Upcall(t) == t \in called /\ Post(t, [op |-> "dequeue"]) /\ UNCHANGED left

Handled(t) ==
  /\ \E d \in svc.deliveries : d.thread = t /\ Post(t, [op |-> "complete", token |-> d.token])
  /\ UNCHANGED left

\* Requests that generate or change something, limited by the bound `left`.
Request(t) ==
  /\ t \in Running /\ t \notin called /\ left > 0 /\ left' = left - 1
  /\ \E r \in load.requests : Post(t, r)

\* sigwait: read the epoch, then wait with it.
PrepareWait(t) == t \in Running /\ seen[t] # svc.epoch[t] /\ load.waits # {}
                    /\ Post(t, [op |-> "epoch"]) /\ UNCHANGED left

Birth(t) ==
  /\ t \notin alive /\ t \in load.threads /\ t \notin svc.known /\ t \notin handle
  /\ left > 0 /\ left' = left - 1 /\ alive # {}
  /\ alive' = alive \cup {t}
  /\ started' = [started EXCEPT ![t] = {}]
  /\ call' = [call EXCEPT ![t] = Idle]
  /\ UNCHANGED <<svc, stage, handle, called, seen, image, now, load>>

\* A thread ends; another one goes on.
Death(t) ==
  /\ t \in alive /\ alive # {t} /\ t \in load.mortal
  /\ alive' = alive \ {t} /\ called' = called \ {t}
  /\ call' = [call EXCEPT ![t] = Idle]
  /\ UNCHANGED <<svc, stage, handle, started, seen, image, now, left, load>>

\* exec: the caller goes on in a new image, its siblings are gone.
Exec(t) ==
  /\ t \in alive /\ call[t] = Idle /\ load.execs /\ left > 0 /\ left' = left - 1
  /\ image' = image + 1
  /\ alive' = {t} /\ called' = {}
  /\ started' = [started EXCEPT ![t] = {}]
  /\ call' = [u \in Thread |-> Idle]
  /\ UNCHANGED <<svc, stage, handle, seen, now, load>>

Tick ==
  /\ now < MaxNow /\ load.clock /\ now' = now + 1
  /\ UNCHANGED <<svc, stage, handle, client, image, left, load>>
-----------------------------------------------------------------------------
NewService ==
  [pending |-> {}, ignored |-> {}, caught |-> {},
   known |-> {}, mask |-> [t \in Thread |-> {}], epoch |-> [t \in Thread |-> 0],
   own |-> [t \in Thread |-> {}], origins |-> {}, notes |-> {},
   deliveries |-> {}, token |-> 1, waits |-> {}, callback |-> 0, callbackImage |-> 0,
   timers |-> {}, nextTimer |-> 1, seq |-> 1, alarm |-> Armed(0, 0, 0), image |-> 0]

Init ==
  /\ load \in {Workload[name] : name \in DOMAIN Workload}
  /\ svc = NewService /\ stage = "timers"
  /\ alive = {Min0(Thread)} /\ handle = {}
  /\ started = [t \in Thread |-> {}] /\ called = {}
  /\ call = [t \in Thread |-> Idle] /\ seen = [t \in Thread |-> 0]
  /\ image = 0 /\ now = 0 /\ left = load.budget

Loop == LoopTimers \/ LoopWaits \/ (\E sweep \in BOOLEAN : LoopNotify(sweep))

Serve(t) ==
  \/ ThreadMask(t) \/ ThreadRegister(t) \/ SignalDisposition(t) \/ ThreadRaise(t)
  \/ ThreadFault(t) \/ ThreadEpoch(t) \/ CompleteDelivery(t) \/ TimerThreadWait(t)
  \/ TimerSet(t) \/ TimerGet(t) \/ TimerDelete(t) \/ SetAlarm(t) \/ WaitInterrupt(t)
  \/ \E published \in BOOLEAN :
       DequeueSignal(t, published) \/ SignalWait(t, published) \/ TimerCreate(t, published)

Next ==
  \/ Loop \/ Wake \/ Tick
  \/ \E signal \in load.sends : Send(signal)
  \/ \E t \in Thread : \/ Serve(t) \/ Start(t) \/ Upcall(t) \/ Handled(t) \/ Request(t)
                       \/ PrepareWait(t) \/ Birth(t) \/ Death(t) \/ Exec(t)

Spec == Init /\ [][Next]_vars

\* The loop runs, takes up every request, and sweeps the threads now and then; an
\* interrupted thread that is not waiting runs its upcall; time passes.
FairSpec ==
  /\ Spec
  /\ WF_vars(Loop) /\ SF_vars(LoopNotify(TRUE)) /\ WF_vars(Wake) /\ WF_vars(Tick)
  /\ \A t \in Thread : SF_vars(Serve(t)) /\ WF_vars(Upcall(t)) /\ WF_vars(Start(t))
-----------------------------------------------------------------------------
TypeOK ==
  /\ svc.pending \subseteq Signal /\ svc.ignored \subseteq Signal /\ svc.caught \subseteq Signal
  /\ svc.known \subseteq Thread /\ svc.mask \in [Thread -> SUBSET (Signal \ Uncatchable)]
  /\ svc.own \in [Thread -> SUBSET Signal] /\ svc.notes \subseteq Thread \cup {Process}
  /\ stage \in {"timers", "waits", "notify", "receive"}
  /\ alive \subseteq Thread /\ handle \subseteq Thread /\ called \subseteq alive
  /\ now \in 0..MaxNow /\ left \in Nat

\* A pending signal has its origin, and nothing else has one: dequeue and sigwait
\* find the origin of whatever they select, and never answer EIO.
OriginsMatch ==
  svc.origins = {<<Process, g>> : g \in svc.pending}
                  \cup UNION {{<<t, g>> : g \in svc.own[t]} : t \in Thread}

\* No lost wakeup: a thread that may take a pending signal has been interrupted
\* and not drained, or a notification that will interrupt it is still recorded,
\* whatever was masked, registered, retired or left unpublished meanwhile.
NoLostWake ==
  \A t \in Running \cap svc.known \cap handle :
    svc.image = image =>
    /\ (svc.pending \cup TimerSignals(svc)) \ svc.mask[t] # {} => Process \in svc.notes \/ t \in called
    /\ svc.own[t] \ svc.mask[t] # {} => t \in svc.notes \/ t \in called

\* SIGCONT and a stop are never pending together, in the process, any of its
\* threads or its timers.
StopContExclude ==
  LET somewhere == svc.pending \cup UNION {svc.own[t] : t \in Thread} \cup TimerSignals(svc)
  IN  Cont \in somewhere => somewhere \cap StopSignals = {}

\* Every expiration of a timer is in its pending event or was reported or
\* discarded, once: the schedule stands exactly that many intervals after the
\* deadline first set.
TimersConserve ==
  \A t \in svc.timers :
    LET fired == t.told + t.event.count
    IN  t.kind # "none" /\ t.first # 0 =>
          IF t.schedule.interval = 0 THEN fired = (IF t.schedule.deadline = 0 THEN 1 ELSE 0)
          ELSE t.schedule.deadline # 0 => t.schedule.deadline = t.first + fired * t.schedule.interval

\* Every pending signal has its origin and nothing else has one; SIGCONT and a
\* stop are never pending together; every expiration of a timer is reported or
\* discarded once (OriginsMatch, StopContExclude and TimersConserve).
SignalsConserve == OriginsMatch /\ StopContExclude /\ TimersConserve

\* A deferred wait that can be answered - its signal is pending, a signal it must
\* handle first is, or its deadline passed - does not stay unanswered.
Answerable(t) ==
  \E w \in svc.waits :
    /\ w.thread = t /\ call[t] = Blocked
    /\ \/ (svc.pending \cup svc.own[t]) \cap (w.mask \cup (Signal \ svc.mask[t])) # {}
       \/ w.deadline # 0 /\ now >= w.deadline

WaitsServed == \A t \in Thread : []<>(~Answerable(t))
-----------------------------------------------------------------------------
(* Workloads for model checking.  Signal numbers keep the order of the real   *)
(* ones where it matters: 1 an ordinary signal, 2 SIGCONT, 3 SIGTSTP,         *)
(* 4 SIGCHLD.                                                                 *)

Quiet == [threads |-> {}, mortal |-> {}, initial |-> {{}}, sends |-> {}, requests |-> {},
          waits |-> {}, execs |-> FALSE, clock |-> FALSE, budget |-> 3]

Raise(t, g) == [op |-> "raise", target |-> t, signal |-> g]
SetMask(how, m) == [op |-> "mask", how |-> how, set |-> m]
Dispose(g, kind) == [op |-> "disposition", signal |-> g, kind |-> kind]
Wait(m, d) == [op |-> "wait", mask |-> m, deadline |-> d]
Create(kind, g, t) == [op |-> "create", kind |-> kind, signal |-> g, target |-> t]
Arm(id, i, p) == [op |-> "set", timer |-> id, initial |-> i, interval |-> p]

\* Two threads that come and go, one signal, masks.
Masks_ == [Quiet EXCEPT !.threads = {2}, !.mortal = {2}, !.initial = {{}, {1}}, !.sends = {1},
             !.requests = {SetMask("block", {1}), SetMask("unblock", {1}), Raise(2, 1)}]

\* Stops, continues and dispositions.
Stops_ == [Quiet EXCEPT !.sends = {2, 3, 4}, !.initial = {{2, 3, 4}},
             !.requests = {Raise(1, 2), Raise(1, 3), Dispose(3, "ignore"), Dispose(4, "default"),
                           Dispose(3, "caught"), SetMask("set", {}), [op |-> "fault", signal |-> 1],
                           Create("signal", 3, 0), Arm(1, 1, 0)}, !.clock = TRUE]

\* Waits for signals: two waiters and cancellation; deadlines.
Waits_ == [Quiet EXCEPT !.threads = {2}, !.mortal = {2}, !.initial = {{1}}, !.sends = {1, 4},
             !.waits = {{1}},
             !.requests = {Wait({1}, 0), [op |-> "cancel", target |-> 2]}]
Timed_ == [Quiet EXCEPT !.initial = {{1}}, !.sends = {1, 4}, !.waits = {{1}}, !.clock = TRUE,
             !.requests = {Wait({1}, 0), Wait({1}, 1), Raise(1, 1)}]

\* Timers that signal, against an ordinary signal and a disposition.
Timers_ == [Quiet EXCEPT !.clock = TRUE, !.initial = {{}, {1}}, !.sends = {1},
              !.requests = {Create("signal", 1, 0), Create("signal", 4, 1), Arm(1, 1, 1), Arm(1, 1, 2),
                            [op |-> "get", timer |-> 1], Dispose(1, "ignore"), Wait({1}, 0)}]

\* Timers that call back, or only count; deletion.
Callbacks_ == [Quiet EXCEPT !.clock = TRUE, !.budget = 4,
                 !.requests = {Create("thread", 1, 0), Create("none", 1, 0), Arm(1, 1, 1), Arm(2, 1, 0),
                               [op |-> "delete", timer |-> 1], [op |-> "callback"]}]

\* exec, with an alarm that outlives it; threads that do not.
Execs_ == [Quiet EXCEPT !.threads = {2}, !.sends = {1}, !.execs = TRUE,
             !.requests = {SetMask("set", {1}), [op |-> "callback"]}]
Alarms_ == [Quiet EXCEPT !.execs = TRUE, !.clock = TRUE,
              !.requests = {[op |-> "alarm", initial |-> 1, interval |-> 1], SetMask("set", {1}),
                            Create("thread", 1, 0), [op |-> "callback"]}]

All_ == [masks |-> Masks_, stops |-> Stops_, waits |-> Waits_, timed |-> Timed_, timers |-> Timers_,
         callbacks |-> Callbacks_, execs |-> Execs_, alarms |-> Alarms_]
=============================================================================
