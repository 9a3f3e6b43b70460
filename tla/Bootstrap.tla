----------------------------- MODULE Bootstrap -----------------------------
(***************************************************************************)
(* How service-manager.service brings the system up (orchestration.rs,    *)
(* bootstrap.rs, readiness.rs, driver_controller.rs, service_launcher.rs): *)
(* one thread runs a fixed program of launches and waits.  Every message   *)
(* to the manager arrives in one inbox, so a wait for one service also     *)
(* receives what others publish.  A launch that fails half way is kept for *)
(* a later cleanup and no native launch is made until that is done.        *)
(***************************************************************************)
EXTENDS Integers, Sequences

VARIABLES install,   \* first boot: no login, the installer is started
          pc,        \* the next step of the program
          outcome,   \* "boot", "running" or the reason the boot stopped
          children,  \* the services launched
          dead,      \* those of them whose exit matters and happened
          sent,      \* those that have published their readiness
          inbox,     \* messages to the manager
          hand,      \* the shared handshake: statuses, endpoint slots, deferred
          runtime,   \* endpoints and requests the manager keeps
          driver,    \* the discovery session with drivers.service
          failed,    \* a failed launch waits for its cleanup
          open,      \* endpoint handles the manager holds
          next       \* the next handle

bootVars == <<install, pc, outcome, children, dead, sent, inbox, hand, runtime,
              driver, failed, open, next>>

Service == {"fs", "posix", "drivers", "mboot", "input", "display", "compositor",
            "network", "update", "user", "keychain", "secure", "workspace",
            "linux", "binder", "installer"}
Publisher == {"fs", "posix", "user", "network"}
Silent == {"mboot", "compositor", "update", "linux", "installer"}

Do(op, s) == [op |-> op, s |-> s]

\* The whole boot, in order.  "spawn" must succeed, "try" need not.
Program(first) ==
    <<Do("spawn", "fs"), Do("endpoint", "fs"), Do("spawn", "posix"),
      Do("endpoint", "posix"), Do("spawn", "drivers"), Do("hello", "drivers"),
      Do("try", "mboot"), Do("spawn", "input"), Do("spawn", "display"),
      Do("wait", "display"), Do("wait", "input"), Do("try", "compositor"),
      Do("discover", "drivers"), Do("try", "network"), Do("try", "update"),
      Do("spawn", "user"), Do("wait", "user"), Do("spawn", "keychain"),
      Do("wait", "keychain")>>
    \o (IF first THEN <<>> ELSE <<Do("spawn", "secure"), Do("login", "secure")>>)
    \o <<Do("spawn", "workspace"), Do("wait", "workspace"), Do("try", "linux"),
         Do("spawn", "binder"), Do("wait", "binder")>>
    \o (IF first THEN <<Do("spawn", "installer")>> ELSE <<>>)
    \o <<Do("complete", "drivers"), Do("network", "network")>>

NewHandshake == [live |-> TRUE, status |-> [s \in Service |-> "none"],
                 slot |-> [s \in Publisher |-> 0], deferred |-> 0]

BootInit ==
    /\ install \in BOOLEAN /\ pc = 1 /\ outcome = "boot"
    /\ children = {} /\ dead = {} /\ sent = {} /\ inbox = <<>>
    /\ hand = NewHandshake
    /\ runtime = [fs |-> 0, posix |-> 0, requests |-> 0]
    /\ driver = "hello" /\ failed = FALSE /\ open = {} /\ next = 1

Step == Program(install)[pc]
At(op) == outcome = "boot" /\ Step.op = op
Advance ==
    /\ pc' = pc + 1
    /\ outcome' = IF pc = Len(Program(install)) THEN "running" ELSE outcome
Stop(why) == pc' = pc /\ outcome' = why

---------------------------------------------------------------------------
(* Launches.                                                               *)

\* "launched"; "refused", nothing was created; "rolled back", a process was
\* created and its registration or its start failed.
CreateWithRollback == {"launched", "refused", "rolled back"}

\* No native launch is made while one waits for its cleanup.
SpawnNative == IF failed THEN {"cleanup"} ELSE CreateWithRollback
SpawnNativeSession == IF failed THEN {"cleanup"} ELSE CreateWithRollback

\* filesystem and posix are launched before there is a POSIX session: a failed
\* launch is waited for on the spot.
SpawnNamespace == {"launched", "refused"}

Spawned(s, result) ==
    /\ children' = IF result = "launched" THEN children \cup {s} ELSE children
    /\ failed' = (failed \/ result = "rolled back")
    /\ UNCHANGED <<install, dead, sent, inbox, hand, runtime, driver, open, next>>

Required(s, results) ==
    /\ At("spawn") /\ Step.s = s
    /\ \E result \in results :
          /\ Spawned(s, result)
          /\ IF result = "launched" THEN Advance ELSE Stop(result)

Optional(s, results) ==
    /\ At("try") /\ Step.s = s /\ Advance
    /\ \E result \in results : Spawned(s, result)

SpawnFixed == Required("fs", SpawnNamespace) \/ Required("posix", SpawnNamespace)
SpawnDrivers == Required("drivers", SpawnNative)
SpawnMbootAgent == Optional("mboot", SpawnNative)
SpawnInput == Required("input", SpawnNative)
SpawnDisplay == Required("display", SpawnNative)
SpawnCompositor == Optional("compositor", SpawnNative)
SpawnNetwork == Optional("network", SpawnNative)
\* update.service is only tried when network.service was started.
SpawnUpdate ==
    Optional("update", IF "network" \in children THEN SpawnNative ELSE {"refused"})
SpawnUser == Required("user", SpawnNative)
StartKeychain == Required("keychain", SpawnNative)
SpawnSecureUi == Required("secure", SpawnNative)
\* The keychain is opened for the account first, which may fail.
SpawnWorkspaceSession == Required("workspace", SpawnNativeSession)
SpawnUserSession ==
    \/ Optional("linux", SpawnNativeSession)
    \/ Required("binder", SpawnNativeSession)
    \/ Required("installer", SpawnNativeSession)

---------------------------------------------------------------------------
(* One message of the inbox, as each kind of wait takes it.  The result is *)
(* the handshake, the handles held and whether the wait is given up.       *)

Taken(h, o, err) == [h |-> h, o |-> o, err |-> err]

Record(h, m) ==
    [h EXCEPT !.status[m.from] = IF @ = "none" THEN (IF m.ok THEN "ok" ELSE "bad")
                                 ELSE @]

Stored(h, m) == [Record(h, m) EXCEPT !.slot[m.from] = m.handle]

Deferred(h) == [h EXCEPT !.deferred = @ + 1]

\* A known endpoint that is not wanted is closed, an unknown one is left to
\* the caller.
RecordBackgroundLeaks(h, o, m) ==
    IF \/ h.slot[m.from] # 0 \/ h.status[m.from] # "none"
       \/ m.from = "user" /\ ~ m.ok
      THEN Taken(h, o \cup {m.handle}, TRUE)
      ELSE Taken(Stored(h, m), o \cup {m.handle}, FALSE)
RecordBackground(h, o, m) ==
    IF \/ h.slot[m.from] # 0 \/ h.status[m.from] # "none"
       \/ m.from = "user" /\ ~ m.ok
      THEN Taken(h, o, TRUE)
      ELSE Taken(Stored(h, m), o \cup {m.handle}, FALSE)

\* An endpoint for the service that is waited for, or an unwanted one.
OwnEndpoint(h, o, m, wanted) ==
    IF m.from = wanted /\ m.ok /\ h.slot[m.from] = 0
      THEN Taken(Stored(h, m), o \cup {m.handle}, FALSE)
      ELSE IF m.ok THEN Taken(h, o, TRUE) ELSE Taken(Record(h, m), o, FALSE)

InReadyWait(h, o, m) ==
    CASE m.kind = "ready"    -> Taken(Record(h, m), o, FALSE)
      [] m.kind = "session"  -> Taken(h, o, TRUE)
      [] m.kind = "endpoint" -> IF m.from \in {"user", "network"}
                                  THEN RecordBackground(h, o, m)
                                  ELSE OwnEndpoint(h, o, m, "posix")
      [] OTHER               -> Taken(Deferred(h), o, FALSE)

InEndpointWait(h, o, m) ==
    CASE m.kind = "ready"    -> Taken(Record(h, m), o, FALSE)
      [] m.kind = "session"  -> Taken(h, o, TRUE)
      [] m.kind = "endpoint" -> OwnEndpoint(h, o, m, Step.s)
      [] OTHER               -> Taken(Deferred(h), o, FALSE)

InLoginWait(h, o, m) ==
    CASE m.kind = "ready"    -> Taken(Record(h, m), o, FALSE)
      [] m.kind = "session"  -> Taken(Record(h, m), o, m.from # "secure")
      [] m.kind = "endpoint" -> IF m.from \in {"user", "network"}
                                  THEN RecordBackground(h, o, m)
                                  ELSE Taken(h, o, TRUE)
      [] OTHER               -> Taken(Deferred(h), o, FALSE)

\* One turn of a wait: at most one message is received.
Turn(In(_, _, _)) ==
    IF inbox = <<>> THEN Taken(hand, open, FALSE) ELSE In(hand, open, Head(inbox))

Received == inbox' = IF inbox = <<>> THEN inbox ELSE Tail(inbox)

Kept == UNCHANGED <<install, children, dead, sent, driver, failed, next>>

\* The wait goes on: nothing came for the service and it still runs.
WaitOn(t, s) ==
    /\ inbox # <<>> /\ ~ t.err /\ t.h.status[s] = "none"
    /\ hand' = t.h /\ open' = t.o
    /\ UNCHANGED <<pc, outcome, runtime>>

\* The wait fails: a bad message or status, an exit, or the deadline.
WaitFails(t, s) == t.err \/ t.h.status[s] # "ok"

---------------------------------------------------------------------------
\* A wait for the endpoint of a namespace service.
EndpointReady(s) ==
    /\ At("endpoint") /\ Step.s = s /\ Received /\ Kept
    /\ LET t == Turn(InEndpointWait)
       IN \/ WaitOn(t, s)
          \/ /\ WaitFails(t, s)
             /\ hand' = t.h /\ open' = t.o /\ Stop("not ready") /\ UNCHANGED runtime
          \/ /\ ~ t.err /\ t.h.status[s] = "ok"
             /\ hand' = t.h /\ open' = t.o
             /\ \/ runtime' = [runtime EXCEPT ![s] = t.h.slot[s]] /\ Advance
                \/ \* the endpoint cannot be installed in the early services
                   s = "posix" /\ Stop("not ready") /\ UNCHANGED runtime

WaitFilesystemReady == EndpointReady("fs")
WaitPosixReady == EndpointReady("posix")

\* A wait whose success needs no more than the status.
Ready(s) ==
    /\ At("wait") /\ Step.s = s /\ Received /\ Kept
    /\ LET t == Turn(InReadyWait)
       IN \/ WaitOn(t, s)
          \/ /\ hand' = t.h /\ open' = t.o /\ UNCHANGED runtime
             /\ \/ WaitFails(t, s) /\ Stop("not ready")
                \/ ~ t.err /\ t.h.status[s] = "ok" /\ Advance
                \/ \* the raw input endpoint cannot be acquired
                   s = "input" /\ Stop("not ready")

WaitDisplayReady == Ready("display")
WaitInputReady == Ready("input")
WaitKeychainReady == Ready("keychain")
WaitWorkspaceReady == Ready("workspace")
WaitBinderReady == Ready("binder")

\* The endpoint leaves the handshake and is closed once it is handed over.
TakeUserEndpoint(h) == [h EXCEPT !.slot["user"] = 0]
TakeNetworkEndpoint(h) == [h EXCEPT !.slot["network"] = 0]

\* user.service's endpoint is handed to posix.service and closed.
WaitUserReady ==
    /\ At("wait") /\ Step.s = "user" /\ Received /\ Kept
    /\ LET t == Turn(InReadyWait)
       IN \/ WaitOn(t, "user")
          \/ /\ WaitFails(t, "user")
             /\ hand' = t.h /\ open' = t.o /\ Stop("not ready") /\ UNCHANGED runtime
          \/ /\ ~ t.err /\ t.h.status["user"] = "ok"
             /\ hand' = TakeUserEndpoint(t.h)
             /\ open' = t.o \ {t.h.slot["user"]}
             /\ UNCHANGED runtime
             /\ Advance \/ Stop("not ready")

\* The login has no deadline, only the exit of secure-ui.service ends it.
WaitSecureUiLogin ==
    /\ At("login") /\ Received /\ Kept
    /\ LET t == Turn(InLoginWait)
       IN \/ WaitOn(t, "secure")
          \/ /\ hand' = t.h /\ open' = t.o /\ UNCHANGED runtime
             /\ \/ ~ t.err /\ t.h.status["secure"] = "ok" /\ Advance
                \/ /\ \/ t.err \/ t.h.status["secure"] = "bad"
                      \/ t.h.status["secure"] = "none" /\ "secure" \in dead
                   /\ Stop("not ready")

\* Whatever the outcome, the endpoint goes to posix.service, what was deferred
\* to the resident loop, and the handshake ends.
WaitNetworkReady ==
    /\ At("network") /\ Kept
    /\ IF "network" \notin children
         THEN Advance /\ UNCHANGED <<inbox, hand, open, runtime>>
         ELSE /\ Received
              /\ LET t == Turn(InReadyWait)
                 IN \/ WaitOn(t, "network")
                    \/ /\ hand' = [TakeNetworkEndpoint(t.h) EXCEPT
                                     !.live = FALSE, !.deferred = 0,
                                     !.slot["fs"] = 0, !.slot["posix"] = 0]
                       /\ open' = t.o \ {t.h.slot["network"]}
                       /\ runtime' = [runtime EXCEPT
                                        !.requests = @ + t.h.deferred]
                       /\ Advance

---------------------------------------------------------------------------
(* The discovery session.  Its waits take whatever message comes first.    *)

AcceptHello(m) == IF m.kind = "hello" THEN "ready" ELSE driver
StartRequest == {driver, "waiting"}
AcceptComplete(m) == IF m.kind = "complete" THEN "complete" ELSE driver

\* What the first message makes of the session; nothing if none comes in time.
WaitForMessage(Accept(_)) == IF inbox = <<>> THEN driver ELSE Accept(Head(inbox))

WaitDriverHello ==
    /\ At("hello") /\ Received
    /\ driver' = WaitForMessage(AcceptHello)
    /\ IF driver' = "ready" THEN Advance ELSE Stop("not ready")
    /\ UNCHANGED <<install, children, dead, sent, hand, runtime, failed, open, next>>

StartDiscovery ==
    /\ At("discover") /\ Advance /\ driver' \in StartRequest
    /\ UNCHANGED <<install, children, dead, sent, inbox, hand, runtime, failed,
                   open, next>>

WaitDiscoveryComplete ==
    /\ At("complete") /\ Advance
    /\ IF driver # "waiting" THEN UNCHANGED <<inbox, driver>>
         ELSE Received /\ driver' = WaitForMessage(AcceptComplete)
    /\ UNCHANGED <<install, children, dead, sent, hand, runtime, failed, open, next>>

---------------------------------------------------------------------------
(* The children.                                                           *)

Kind(s) == CASE s \in Publisher -> "endpoint" [] s = "secure" -> "session"
             [] s = "drivers" -> "hello" [] OTHER -> "ready"

Post(s, kind, ok) ==
    /\ inbox' = Append(inbox, [from |-> s, kind |-> kind, ok |-> ok, handle |-> next])
    /\ next' = IF kind = "endpoint" THEN next + 1 ELSE next
    /\ UNCHANGED <<install, pc, outcome, children, dead, hand, runtime, driver,
                   failed, open>>

\* A child publishes that it is ready, or why it is not.
Publish ==
    \E s \in (children \ (dead \cup sent)) \ Silent, ok \in BOOLEAN :
        Post(s, Kind(s), ok) /\ sent' = sent \cup {s}

DiscoveryDone ==
    /\ driver = "waiting" /\ "drivers" \notin dead /\ "done" \notin sent
    /\ Post("drivers", "complete", TRUE) /\ sent' = sent \cup {"done"}

\* Binder may ask the resident manager for something while the boot still runs.
Request ==
    /\ "binder" \in children \ dead /\ "asked" \notin sent
    /\ Post("binder", "request", TRUE) /\ sent' = sent \cup {"asked"}

\* Every other wait has a deadline, which ends it as an exit would.
Exit ==
    /\ outcome = "boot" /\ dead = {} /\ "secure" \in children
    /\ dead' = {"secure"}
    /\ UNCHANGED <<install, pc, outcome, children, sent, inbox, hand, runtime,
                   driver, failed, open, next>>

BootNext ==
    \/ SpawnFixed \/ SpawnDrivers \/ SpawnMbootAgent \/ SpawnInput \/ SpawnDisplay
    \/ SpawnCompositor \/ SpawnNetwork \/ SpawnUpdate \/ SpawnUser \/ StartKeychain
    \/ SpawnSecureUi \/ SpawnWorkspaceSession \/ SpawnUserSession
    \/ WaitFilesystemReady \/ WaitPosixReady \/ WaitDisplayReady \/ WaitInputReady
    \/ WaitUserReady \/ WaitKeychainReady \/ WaitSecureUiLogin \/ WaitWorkspaceReady
    \/ WaitBinderReady \/ WaitNetworkReady
    \/ WaitDriverHello \/ StartDiscovery \/ WaitDiscoveryComplete
    \/ Publish \/ DiscoveryDone \/ Request \/ Exit

BootSpec == BootInit /\ [][BootNext]_bootVars

---------------------------------------------------------------------------
HeldEndpoints ==
    {hand.slot[s] : s \in Publisher} \cup {runtime.fs, runtime.posix}

\* Every endpoint handle that a message brought is closed, or kept in exactly
\* the place a later step takes it from, whichever wait happened to receive it
\* (readiness.rs, bootstrap.rs); and no native service is launched without
\* the POSIX endpoint it is registered through.
EndpointsAccounted ==
    /\ open = HeldEndpoints \ {0}
    /\ \A s, t \in Publisher : hand.slot[s] = hand.slot[t] /\ s # t => hand.slot[s] = 0
    /\ children \ {"fs", "posix"} # {} => runtime.posix \in open

\* linux.service need not start, and that it did not never keeps Binder from
\* starting: the boot is not given up at Binder because its launch is refused
\* until a failed launch is cleaned up (service_launcher.rs, spawn_native_session).
LinuxIsBestEffort == ~ (outcome = "cleanup" /\ Step.s = "binder")
=============================================================================
