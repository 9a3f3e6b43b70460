--------------------------------- MODULE MCServices ---------------------------------
(******************************************************************************)
(* The system services above the POSIX layer, one of them in a behaviour:     *)
(* login sessions (service-manager), execution consent and its policy store   *)
(* (capability), packages and their verification (package, signature),        *)
(* snapshots, updates and reports (update), accounts and vaults (user,        *)
(* keychain).  The components share no state the models keep.                 *)
(******************************************************************************)
EXTENDS SessionManager, PolicyStore, SystemUpdate, PackageVerify, TrustSync

CONSTANTS Requester, Frontend, Key, Button, Releases, App, LoginWorkload

\* The component a behaviour runs, and that component's variables, in order.
VARIABLES part, r1, r2, r3, r4, r5, r6, r7, r8, r9, r10

vars == <<part, r1, r2, r3, r4, r5, r6, r7, r8, r9, r10, sessionVars, policyVars,
          updateVars, verifyVars, trustVars>>

registers == <<r1, r2, r3, r4, r5, r6, r7, r8, r9, r10>>

Consent == INSTANCE ExecutionConsent WITH
  Presenter <- Frontend, MaxAsk <- 1, MaxSerial <- 3, MaxSession <- 2, MaxPolicy <- 2,
  MaxFocus <- 2, MaxContent <- 1, MaxBytes <- 1, MaxUnread <- 1, MaxTrouble <- 1,
  broker <- r1, seat <- r2, display <- r3, ui <- r4, world <- r5, calls <- r6
Package == INSTANCE PackageService WITH
  MaxFuse <- 36, MaxFaults <- 1, files <- r1, index <- r2, bundle <- r3, faults <- r4,
  answer <- r5
Report == INSTANCE ReportQueue WITH
  MaxEvent <- 2, MaxRevision <- 3, MaxFuse <- 14, MaxFaults <- 3, kind <- r1, queue <- r2,
  result <- r3, consent <- r4, revision <- r5, events <- r6, results <- r7, leftover <- r8,
  accepted <- r9, faults <- r10
Login == INSTANCE LoginKeychain WITH
  MaxGeneration <- 4, MaxEpoch <- 4, Workload <- LoginWorkload, accounts <- r1,
  files <- r2, job <- r3, k <- r4, tags <- r5, truth <- r6, load <- r7

\* One user against crashes and saves that fail or are cut short, one with
\* applications, and two users.
One == {CHOOSE u \in User : TRUE}
OneApp == {CHOOSE a \in App : TRUE}
LoginWorkload_ ==
  {[users |-> One, apps |-> {}, tags |-> 3, cuts |-> 1, crashes |-> 1, faults |-> 0],
   [users |-> One, apps |-> {}, tags |-> 2, cuts |-> 0, crashes |-> 1, faults |-> 2],
   [users |-> One, apps |-> App, tags |-> 1, cuts |-> 0, crashes |-> 0, faults |-> 0],
   [users |-> One, apps |-> OneApp, tags |-> 1, cuts |-> 0, crashes |-> 0, faults |-> 1],
   [users |-> User, apps |-> {}, tags |-> 2, cuts |-> 0, crashes |-> 0, faults |-> 1]}
\* Two saves that are cut short.
Cut_ == {[users |-> One, apps |-> {}, tags |-> 2, cuts |-> 2, crashes |-> 1, faults |-> 0]}

\* An update of equal layout, one of a smaller layout, and one of another signer.
Releases_ == {
  [number |-> 1, layout |-> <<"a", "b">>, signer |-> "dev", linux |-> FALSE],
  [number |-> 2, layout |-> <<"a", "b">>, signer |-> "dev", linux |-> FALSE],
  [number |-> 3, layout |-> <<"a">>, signer |-> "dev", linux |-> FALSE],
  [number |-> 4, layout |-> <<"a">>, signer |-> "other", linux |-> TRUE]}

\* A genuine package, one with another payload, one with another manifest's
\* signature, and one that is not a well-formed container.
Container(shape, manifest, covers, payload) ==
  [head |-> [shape |-> shape, manifest |-> manifest, covers |-> covers, issuer |-> "i"],
   payload |-> payload]
Packages_ == {Container(TRUE, 1, 1, 1), Container(TRUE, 1, 1, 2), Container(TRUE, 2, 1, 2),
              Container(FALSE, 1, 1, 1)}

Period_ == [k \in {"trust", "revocations"} |-> IF k = "trust" THEN 3 ELSE 2]
Backoff_ == <<1, 2>>

Unused == "unused"

\* The registers a component has no variable for.
IdleFrom10 == r10 = Unused
IdleFrom9 == r9 = Unused /\ IdleFrom10
IdleFrom8 == r8 = Unused /\ IdleFrom9
IdleFrom7 == r7 = Unused /\ IdleFrom8
IdleFrom6 == r6 = Unused /\ IdleFrom7
IdleFrom5 == r5 = Unused /\ IdleFrom6
IdleFrom4 == r4 = Unused /\ IdleFrom5
IdleFrom3 == r3 = Unused /\ IdleFrom4
IdleFrom2 == r2 = Unused /\ IdleFrom3
IdleFrom1 == r1 = Unused /\ IdleFrom2

\* An extended component that does not run stays as it starts.
SessionIdle == SessionInit /\ active = 0 /\ ~ prompt /\ who \in One
PolicyIdle == PolicyInit /\ which = "grants"
UpdateIdle == UpdateInit /\ consent = Withdrawn
VerifyIdle == VerifyInit /\ uses = "chunks"
TrustIdle == TrustInit

Init ==
  \/ part = "consent" /\ Consent!ConsentInit /\ IdleFrom7 /\ SessionIdle /\ PolicyIdle /\ UpdateIdle /\ VerifyIdle /\ TrustIdle
  \/ part = "package" /\ Package!PackageInit /\ IdleFrom6 /\ SessionIdle /\ PolicyIdle /\ UpdateIdle /\ VerifyIdle /\ TrustIdle
  \/ part = "report" /\ Report!ReportInit /\ SessionIdle /\ PolicyIdle /\ UpdateIdle /\ VerifyIdle /\ TrustIdle
  \/ part = "login" /\ Login!LoginInit /\ IdleFrom8 /\ SessionIdle /\ PolicyIdle /\ UpdateIdle /\ VerifyIdle /\ TrustIdle
  \/ part = "session" /\ SessionInit /\ IdleFrom1 /\ PolicyIdle /\ UpdateIdle /\ VerifyIdle /\ TrustIdle
  \/ part = "policy" /\ PolicyInit /\ IdleFrom1 /\ SessionIdle /\ UpdateIdle /\ VerifyIdle /\ TrustIdle
  \/ part = "update" /\ UpdateInit /\ IdleFrom1 /\ SessionIdle /\ PolicyIdle /\ VerifyIdle /\ TrustIdle
  \/ part = "verify" /\ VerifyInit /\ IdleFrom1 /\ SessionIdle /\ PolicyIdle /\ UpdateIdle /\ TrustIdle
  \/ part = "trust" /\ TrustInit /\ IdleFrom1 /\ SessionIdle /\ PolicyIdle /\ UpdateIdle /\ VerifyIdle

ConsentStep == part = "consent" /\ Consent!ConsentNext /\ UNCHANGED <<part, r7, r8, r9, r10, sessionVars, policyVars, updateVars, verifyVars, trustVars>>
PackageStep == part = "package" /\ Package!PackageNext /\ UNCHANGED <<part, r6, r7, r8, r9, r10, sessionVars, policyVars, updateVars, verifyVars, trustVars>>
ReportStep == part = "report" /\ Report!ReportNext /\ UNCHANGED <<part, sessionVars, policyVars, updateVars, verifyVars, trustVars>>
LoginStep == part = "login" /\ Login!LoginNext /\ UNCHANGED <<part, r8, r9, r10, sessionVars, policyVars, updateVars, verifyVars, trustVars>>
SessionStep == part = "session" /\ SessionNext /\ UNCHANGED <<part, registers, policyVars, updateVars, verifyVars, trustVars>>
PolicyStep == part = "policy" /\ PolicyNext /\ UNCHANGED <<part, registers, sessionVars, updateVars, verifyVars, trustVars>>
UpdateStep == part = "update" /\ UpdateNext /\ UNCHANGED <<part, registers, sessionVars, policyVars, verifyVars, trustVars>>
VerifyStep == part = "verify" /\ VerifyNext /\ UNCHANGED <<part, registers, sessionVars, policyVars, updateVars, trustVars>>
TrustStep == part = "trust" /\ TrustNext /\ UNCHANGED <<part, registers, sessionVars, policyVars, updateVars, verifyVars>>

Next == ConsentStep \/ PackageStep \/ ReportStep \/ LoginStep \/ SessionStep \/ PolicyStep \/
        UpdateStep \/ VerifyStep \/ TrustStep

Spec == Init /\ [][Next]_vars

\* Every unanswered request for consent is held in exactly one slot and charged once
\* (ConsentAccounted of ExecutionConsent).
ConsentAccounted == part = "consent" => Consent!ConsentAccounted

\* A grant is given only to the process that asked, for a choice made on the screen
\* that showed the question (GrantsWitnessed of ExecutionConsent).
GrantsWitnessed == [][part = "consent" => Consent!GrantsWitnessed]_vars

\* An installed package keeps its contents through every failed or interrupted request,
\* and a request that fails takes nothing half-way (ContentsKept and RequestsAtomic
\* of PackageService).
PackagesAtomic ==
  [][part = "package" => Package!ContentsKept' /\ Package!RequestsAtomic]_vars

\* A reported result is what happened, and a report is sent once and only under its
\* consent (ResultsTruthful of SystemUpdate, ReportsExact of ReportQueue).
ReportsTruthful ==
  /\ ResultsTruthful
  /\ part = "report" => Report!ReportsExact

\* An account's password opens its vault, and a vault holds what the acknowledged
\* requests made of it (LoginOpensVault and SecretsKept of LoginKeychain).
VaultsFollowLogins == part = "login" => Login!LoginOpensVault /\ Login!SecretsKept

\* Accounts and vaults alone.
RecoverySpec == (part = "login" /\ Login!LoginInit /\ IdleFrom8 /\ SessionIdle /\ PolicyIdle
                 /\ UpdateIdle /\ VerifyIdle /\ TrustIdle)
                  /\ [][LoginStep]_vars

\* A start after interrupted saves finds the password the vault was last sealed with
\* (LoginRecoverable of LoginKeychain).
LoginRecoverable == part = "login" => Login!LoginRecoverable
==============================================================================
