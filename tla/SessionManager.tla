--------------------------- MODULE SessionManager ---------------------------
(***************************************************************************)
(* The resident loop of service-manager.service (bootstrap.rs resident):   *)
(* one desktop session at a time, its process trees, the lock screen, the  *)
(* logout that ends it and the login that follows, and the consent session *)
(* that capability.service is told of.  What posix.service and             *)
(* keychain.service are asked may fail, or be done with the reply lost.    *)
(***************************************************************************)
EXTENDS Integers, Sequences, Functions

CONSTANTS User,        \* accounts
          MaxSession,  \* sessions of a behaviour
          MaxInbox     \* requests that wait at once

VARIABLES active,      \* the session that is on, 0 if none
          session,     \* the number of the last session begun
          who,         \* its account
          stage,       \* what the loop is in the middle of
          live,        \* process trees that still run
          owners,      \* session_processes: root -> tree exit confirmed
          unpublished, \* roots of a launch that is not a session yet
          cleanup,     \* roots of a failed launch still to be torn down
          logout,      \* the pending logout
          failed,      \* launches kept for rollback
          keychain,    \* [up, user]: whose secrets are unlocked
          told,        \* what capability.service was last told
          prepared,    \* the session whose domain the consent epoch holds
          worker,      \* the execution presenter
          prompt,      \* a permission prompt is kept ready
          inbox        \* requests not yet taken

sessionVars == <<active, session, who, stage, live, owners, unpublished, cleanup,
                 logout, failed, keychain, told, prepared, worker, prompt, inbox>>

Root(n, image) == [n |-> n, image |-> image]
Nobody == "nobody"
NoLogout == [on |-> FALSE, plan |-> <<>>, acked |-> FALSE]

\* What a boot leaves: a session, or the roots of one that was not completed.
SessionInit ==
    /\ session = 1 /\ who \in User /\ stage = "idle"
    /\ unpublished = <<>> /\ logout = NoLogout /\ failed = {}
    /\ keychain = [up |-> TRUE, user |-> who] /\ worker = "none"
    /\ prompt \in BOOLEAN /\ inbox = <<>>
    /\ \/ /\ active = 1 /\ cleanup = <<>> /\ prepared \in {0, 1}
          /\ told \in {[session |-> 1, on |-> FALSE],
                       [session |-> 1, on |-> prepared = 1]}
          /\ \E linux \in BOOLEAN, installer \in BOOLEAN :
                live = {Root(1, "workspace"), Root(1, "binder")}
                       \cup (IF linux THEN {Root(1, "linux")} ELSE {})
                       \cup (IF installer THEN {Root(1, "installer")} ELSE {})
       \/ /\ active = 0 /\ live = {Root(1, "workspace")} /\ prepared = 0
          /\ told = [session |-> 1, on |-> FALSE]
          /\ cleanup = <<Root(1, "workspace")>>
    /\ owners = [r \in live |-> FALSE]

---------------------------------------------------------------------------
(* Teardown.                                                               *)

\* Terminate the tree, then reclaim it, then let go of its owner.  Either
\* request may fail, or succeed with its reply lost.
TerminateForgetful(r) ==
    {[live |-> l, owners |-> [q \in DOMAIN owners \ {r} |-> owners[q]], done |-> TRUE] :
       l \in {live, live \ {r}}}
TerminateOwnedRoot(r) ==
    (IF owners[r] THEN {[live |-> live, owners |-> owners, done |-> FALSE]}
     ELSE {[live |-> l, owners |-> owners, done |-> FALSE] : l \in {live, live \ {r}}}
          \cup {[live |-> live \ {r}, owners |-> [owners EXCEPT ![r] = TRUE],
                 done |-> FALSE]})
    \cup {[live |-> live \ {r}, done |-> TRUE,
           owners |-> [q \in DOMAIN owners \ {r} |-> owners[q]]]}

RetryFailedSessionCleanup ==
    /\ stage = "idle" /\ cleanup # <<>>
    /\ \E t \in TerminateOwnedRoot(Head(cleanup)) :
          /\ live' = t.live /\ owners' = t.owners
          /\ cleanup' = IF t.done THEN Tail(cleanup) ELSE cleanup
    /\ UNCHANGED <<active, session, who, stage, unpublished, logout, failed,
                   keychain, told, prepared, worker, prompt, inbox>>

RetryFailedLaunchCleanup ==
    /\ stage = "idle"
    /\ \E r \in failed : \E done \in BOOLEAN :
          /\ live' = live \ {r}
          /\ failed' = IF done THEN failed \ {r} ELSE failed
    /\ UNCHANGED <<active, session, who, stage, owners, unpublished, cleanup,
                   logout, keychain, told, prepared, worker, prompt, inbox>>

\* No login may begin before every earlier launch is accounted for.
MayLogIn == cleanup = <<>> /\ unpublished = <<>> /\ failed = {}

LogoutStep ==
    /\ stage = "idle" /\ logout.on
    /\ LET r == Head(logout.plan)
           acked == logout.acked \/ r.image = "binder"
       IN \E t \in TerminateOwnedRoot(r) :
            /\ live' = t.live /\ owners' = t.owners
            /\ IF t.done /\ Len(logout.plan) = 1
                 THEN /\ logout' = NoLogout /\ active' = 0
                      /\ stage' = IF MayLogIn /\ session < MaxSession
                                    THEN "login" ELSE "idle"
                 ELSE /\ logout' = [logout EXCEPT !.acked = acked,
                                      !.plan = IF t.done THEN Tail(@) ELSE @]
                      /\ UNCHANGED <<active, stage>>
    /\ UNCHANGED <<session, who, unpublished, cleanup, failed, keychain, told,
                   prepared, worker, prompt, inbox>>

---------------------------------------------------------------------------
(* Launches.  A launch is made only when none waits for rollback.          *)

\* The root, whether it was launched, and what is kept for rollback.
Launch(r) ==
    {[ok |-> FALSE, failed |-> failed, live |-> live]}
    \cup (IF failed # {} THEN {}
          ELSE {[ok |-> TRUE, failed |-> failed, live |-> live \cup {r}],
                [ok |-> FALSE, failed |-> failed \cup {r}, live |-> live \cup {r}]})

\* The secure-ui process ends by itself, so its tree is not followed.
SecureUi == Root(0, "secure")

\* Keychain.service is asked to unlock; the answer may be lost.
Activated(k, u) ==
    IF ~ k.up THEN {[k |-> k, ok |-> FALSE]}
    ELSE {[k |-> [k EXCEPT !.user = u], ok |-> b] : b \in BOOLEAN}
         \cup {[k |-> k, ok |-> FALSE]}

\* Trees are taken down in the opposite order of their launch.
Reversed(roots) == [i \in 1 .. Len(roots) |-> roots[(Len(roots) - i) + 1]]

ScheduleFailedSessionCleanup(roots) ==
    /\ cleanup' = Reversed(roots) /\ unpublished' = <<>>

\* The login screen: an account, or none.
AuthenticateNext ==
    /\ stage = "login"
    /\ \/ /\ \E l \in Launch(SecureUi) : ~ l.ok /\ failed' = l.failed
          /\ stage' = "idle" /\ UNCHANGED <<session, who, keychain>>
       \/ \* nobody logged in
          stage' = "idle" /\ UNCHANGED <<session, who, keychain, failed>>
       \/ \E u \in User : \E k \in Activated(keychain, u) :
            /\ keychain' = k.k /\ UNCHANGED failed
            /\ IF k.ok
                 THEN stage' = "workspace" /\ session' = session + 1 /\ who' = u
                 ELSE stage' = "idle" /\ UNCHANGED <<session, who>>
    /\ UNCHANGED <<active, live, owners, unpublished, cleanup, logout, told,
                   prepared, worker, prompt, inbox>>

LaunchImage(image, l) ==
    /\ failed' = l.failed /\ live' = l.live
    /\ owners' = IF l.ok THEN [q \in DOMAIN owners \cup {Root(session, image)} |->
                                 q \in DOMAIN owners /\ owners[q]]
                 ELSE owners

Launched(image, l) ==
    IF l.ok THEN Append(unpublished, Root(session, image)) ELSE unpublished

LaunchWorkspace ==
    /\ stage = "workspace"
    /\ \E l \in Launch(Root(session, "workspace")), ready \in BOOLEAN :
          /\ LaunchImage("workspace", l)
          /\ IF l.ok /\ ready
               THEN /\ unpublished' = Launched("workspace", l) /\ stage' = "linux"
                    /\ UNCHANGED cleanup
               ELSE /\ ScheduleFailedSessionCleanup(Launched("workspace", l))
                    /\ stage' = "idle"
    /\ UNCHANGED <<active, session, who, logout, keychain, told, prepared,
                   worker, prompt, inbox>>

LaunchLinux ==
    /\ stage = "linux" /\ stage' = "binder"
    /\ \E l \in Launch(Root(session, "linux")) :
          LaunchImage("linux", l) /\ unpublished' = Launched("linux", l)
    /\ UNCHANGED <<active, session, who, cleanup, logout, keychain, told,
                   prepared, worker, prompt, inbox>>

\* Only the root that was launched last completes the session.
LaunchBinder ==
    /\ stage = "binder"
    /\ \E l \in Launch(Root(session, "binder")) :
          /\ LaunchImage("binder", l)
          /\ IF l.ok
               THEN /\ active' = session /\ unpublished' = <<>> /\ stage' = "publish"
                    /\ UNCHANGED cleanup
               ELSE /\ ScheduleFailedSessionCleanup(unpublished) /\ stage' = "idle"
                    /\ UNCHANGED active
    /\ UNCHANGED <<session, who, logout, keychain, told, prepared, worker,
                   prompt, inbox>>

---------------------------------------------------------------------------
(* The consent session.                                                    *)

\* Told to capability.service: done, done with an error, or not done.
Published(n, on) ==
    {[c |-> [session |-> n, on |-> on], ok |-> b] : b \in BOOLEAN}
    \cup {[c |-> told, ok |-> FALSE]}

\* A session can only be switched on with the domain it was launched in.
Native(n, on, p) ==
    IF on /\ p # n THEN {[c |-> told, ok |-> FALSE]} ELSE Published(n, on)

PublishSession ==
    /\ stage = "publish" /\ stage' = "idle"
    /\ \/ prepared' = session /\ \E p \in Native(session, TRUE, session) : told' = p.c
       \/ \* the domain cannot be duplicated
          prepared' = 0 /\ UNCHANGED told
    /\ UNCHANGED <<active, session, who, live, owners, unpublished, cleanup, logout,
                   failed, keychain, worker, prompt, inbox>>

---------------------------------------------------------------------------
(* Requests.                                                               *)

LockKeychain ==
    IF ~ keychain.up THEN {[k |-> keychain, ok |-> TRUE]}
    ELSE {[k |-> [keychain EXCEPT !.user = Nobody], ok |-> b] : b \in BOOLEAN}
         \cup {[k |-> keychain, ok |-> FALSE]}

TeardownPlan(n) ==
    (IF Root(n, "linux") \in DOMAIN owners THEN <<Root(n, "linux")>> ELSE <<>>)
      \o <<Root(n, "workspace"), Root(n, "binder")>>

Take == inbox # <<>> /\ inbox' = Tail(inbox)

\* Binder of the session that is on, and of no session that is being ended.
Accepted(m) == m.from = active /\ ~ logout.on

RefuseRequest ==
    /\ stage = "idle" /\ Take
    /\ Head(inbox).kind # "portal" /\ ~ Accepted(Head(inbox))
    /\ UNCHANGED <<active, session, who, stage, live, owners, unpublished, cleanup,
                   logout, failed, keychain, told, prepared, worker, prompt>>

\* Consent is withdrawn and the keychain locked before anything else.
LeaveSessionUnrevoked(m) ==
    \E k \in LockKeychain :
        /\ keychain' = k.k /\ UNCHANGED told
        /\ IF ~ k.ok THEN UNCHANGED <<stage, logout>>
             ELSE IF m.kind = "lock" THEN stage' = "unlock" /\ UNCHANGED logout
             ELSE /\ logout' = [on |-> TRUE, plan |-> TeardownPlan(active), acked |-> FALSE]
                  /\ UNCHANGED stage
LeaveSession(m) ==
    \E p \in Native(active, FALSE, prepared) :
      /\ told' = p.c
      /\ IF ~ p.ok THEN UNCHANGED <<keychain, stage, logout>>
         ELSE \E k \in LockKeychain :
               /\ keychain' = k.k
               /\ IF ~ k.ok THEN UNCHANGED <<stage, logout>>
                  ELSE IF m.kind = "lock" THEN stage' = "unlock" /\ UNCHANGED logout
                  ELSE /\ logout' = [on |-> TRUE, plan |-> TeardownPlan(active),
                                     acked |-> FALSE]
                       /\ UNCHANGED stage

SessionRequest ==
    /\ stage = "idle" /\ Take
    /\ Head(inbox).kind # "portal" /\ Accepted(Head(inbox))
    /\ LeaveSession(Head(inbox))
    /\ UNCHANGED <<active, session, who, live, owners, unpublished, cleanup, failed,
                   prepared, worker, prompt>>

\* The lock screen: only the session's own account ends it with consent on.
Unlock ==
    /\ stage = "unlock" /\ stage' = "idle"
    /\ \/ /\ \E l \in Launch(SecureUi) : ~ l.ok /\ failed' = l.failed
          /\ UNCHANGED <<keychain, told>>
       \/ UNCHANGED <<failed, keychain, told>>
       \/ /\ UNCHANGED failed
          /\ \E u \in {who} : \E k \in Activated(keychain, u) :
               /\ keychain' = k.k
               /\ IF k.ok THEN \E p \in Native(active, TRUE, prepared) : told' = p.c
                  ELSE UNCHANGED told
    /\ UNCHANGED <<active, session, who, live, owners, unpublished, cleanup, logout,
                   prepared, worker, prompt, inbox>>

\* Requests that come while a login or lock screen is up are taken and lost.
LoseRequest ==
    /\ stage \in {"login", "unlock"} /\ Take
    /\ UNCHANGED <<active, session, who, stage, live, owners, unpublished, cleanup,
                   logout, failed, keychain, told, prepared, worker, prompt>>

\* A prompt process that is ready, unless it does not come up.
Prewarm == {FALSE, failed = {}}

\* The prompt that was ready is used up and a fresh one is made ready.
RunPrompt == {FALSE} \cup Prewarm

\* Only linux.service of the session that is on may ask, and not during logout.
Authorized(m) == m.from = active /\ ~ logout.on

PortalRequest ==
    /\ stage = "idle" /\ Take /\ Head(inbox).kind = "portal"
    /\ prompt' \in IF Authorized(Head(inbox)) THEN RunPrompt ELSE {prompt}
    /\ UNCHANGED <<active, session, who, stage, live, owners, unpublished, cleanup,
                   logout, failed, keychain, told, prepared, worker>>

---------------------------------------------------------------------------
Presenter == Root(0, "presenter")

\* One presenter is kept; one that exits, or that did not come up, is rolled
\* back like a failed launch.
MaintainPresenter ==
    /\ stage = "idle" /\ active # 0 /\ ~ logout.on /\ failed = {}
    /\ \/ /\ worker = "exited" /\ worker' = "none" /\ failed' = {Presenter}
          /\ UNCHANGED live
       \/ /\ worker = "none"
          /\ \/ worker' = "up" /\ live' = live \cup {Presenter} /\ UNCHANGED failed
             \/ UNCHANGED worker /\ failed' = {Presenter} /\ live' = live \cup {Presenter}
    /\ UNCHANGED <<active, session, who, stage, owners, unpublished, cleanup, logout,
                   keychain, told, prepared, prompt, inbox>>

PresenterExits ==
    /\ worker = "up" /\ worker' = "exited" /\ live' = live \ {Presenter}
    /\ UNCHANGED <<active, session, who, stage, owners, unpublished, cleanup, logout,
                   failed, keychain, told, prepared, prompt, inbox>>

KeychainExits ==
    /\ keychain.up /\ keychain' = [up |-> FALSE, user |-> Nobody]
    /\ UNCHANGED <<active, session, who, stage, live, owners, unpublished, cleanup,
                   logout, failed, told, prepared, worker, prompt, inbox>>

\* Binder and linux.service of a live session ask.
Ask ==
    /\ Len(inbox) < MaxInbox
    /\ \E n \in 1 .. session, kind \in {"lock", "logout", "portal"} :
          /\ Root(n, IF kind = "portal" THEN "linux" ELSE "binder") \in live
          /\ inbox' = Append(inbox, [from |-> n, kind |-> kind])
    /\ UNCHANGED <<active, session, who, stage, live, owners, unpublished, cleanup,
                   logout, failed, keychain, told, prepared, worker, prompt>>

SessionNext ==
    \/ RetryFailedSessionCleanup \/ RetryFailedLaunchCleanup \/ LogoutStep
    \/ AuthenticateNext \/ LaunchWorkspace \/ LaunchLinux \/ LaunchBinder
    \/ PublishSession \/ RefuseRequest \/ SessionRequest \/ Unlock \/ LoseRequest
    \/ PortalRequest \/ MaintainPresenter \/ PresenterExits \/ KeychainExits \/ Ask

SessionSpec == SessionInit /\ [][SessionNext]_sessionVars

---------------------------------------------------------------------------
Pending == Range(cleanup) \cup Range(unpublished)

\* No process tree of a session is forgotten or outlives it: a tree that runs
\* is owned or kept for rollback; what is owned belongs to the session that is
\* on or to a launch being built or torn down; and trees of two sessions never
\* run at once.  The installer of a first boot is in no teardown plan and is
\* exempt (bootstrap.rs login_next_session, session_teardown.rs).
SessionsIsolated ==
    LET own == {r \in live \cup DOMAIN owners : r.n # 0 /\ r.image # "installer"}
    IN /\ own \cap live \subseteq DOMAIN owners \cup failed
       /\ own \cap DOMAIN owners \subseteq {r \in own : r.n = active} \cup Pending
       /\ \A r, q \in own : r.n = q.n

\* capability.service has a consent session on only while that session is on,
\* unlocked, not being logged out of, and the keychain is not open for another
\* account (bootstrap.rs resident, consent_session.rs).
ConsentGated ==
    told.on => /\ active = told.session /\ ~ logout.on /\ stage # "unlock"
               /\ keychain.up => keychain.user = who

\* Both at once, of every state of the loop (bootstrap.rs resident).
SessionsSound == SessionsIsolated /\ ConsentGated
=============================================================================
