------------------------------ MODULE PolicyStore ------------------------------
(* The two policy databases of capability.service: persistent capability grants and   *)
(* remembered execution consents.  Each is one file, replaced through a temporary     *)
(* and a previous name with a directory sync after every stage, and repaired before    *)
(* every read.  Any operation may fail, and the machine may stop before any of them:   *)
(* directory changes not yet synced may then be lost, and so may the end of a file     *)
(* that was not.                                                                     *)
(*                                                                                 *)
(* The contents of a file are the set of its records, Torn when it is not complete.    *)
EXTENDS Integers, FiniteSets

CONSTANTS
  Record,          \* grants that can be asked for
  MaxRecords,      \* MAX_RECORDS of the consent database
  MaxFuse,         \* operations of one request that can be the failing one
  MaxFailures        \* failures in a behaviour, at most

ASSUME PolicyAssumption == "absent" \notin Record /\ "torn" \notin Record /\ MaxFuse \in Nat

VARIABLES
  which,           \* the database: "grants" or "consents"
  dir,             \* current, temporary, previous: contents or Absent
  durable,         \* the directories a crash may leave behind
  asked,           \* history: records ever asked for
  kept,            \* history: records acknowledged (see Unsettled)
  verdict,         \* history: the last look-up and what it answered
  failures           \* failures left

policyVars == <<which, dir, durable, asked, kept, verdict, failures>>

Absent == {"absent"}
Torn == {"torn"}
NoVerdict == <<>>
Missing == [current |-> Absent, temporary |-> Absent, previous |-> Absent]

-------------------------------------------------------------------------------
(* A request in progress: the directory, what a crash may leave of it, the           *)
(* operations left before the failing one, how it fails and how the call stands.      *)
Op(s, d, after) ==
  IF s.st # "ok" THEN s
  ELSE IF s.fuse = 1 THEN [s EXCEPT !.fuse = 0, !.st = s.how]
  ELSE [s EXCEPT !.d = d, !.safe = after, !.fuse = IF s.fuse = 0 THEN 0 ELSE s.fuse - 1]

(* A look at the directory, which may fail too.                                       *)
Look(s) == Op(s, s.d, s.safe)

(* rename, remove: in effect at once, durable with the next sync.                     *)
Change(s, d) == Op(s, d, s.safe \cup {d})
Rename(s, a, b) == Change(s, [s.d EXCEPT ![b] = s.d[a], ![a] = Absent])
RemoveFile(s, a) == Change(s, [s.d EXCEPT ![a] = Absent])

(* sync_policy_dir.                                                                   *)
SyncPolicyDir(s) == Op(s, s.d, {s.d})

(* write_file: the temporary is opened, written and synced; stopped half-way it is      *)
(* there and torn.                                                                    *)
WriteFile(s, bytes) ==
  LET torn == [s.d EXCEPT !.temporary = Torn]
      full == [s.d EXCEPT !.temporary = bytes]
      opened == Op(s, torn, s.safe \cup {torn})
  IN  Op(opened, full, (s.safe \ {torn}) \cup {full})

(* recover_policy_file: the previous file returns when there is no current one and      *)
(* goes when there is; a temporary goes.                                              *)
RecoverPolicyFile(s) ==
  LET looked == Look(Look(s))
      repaired ==
        IF s.d.previous = Absent THEN looked
        ELSE SyncPolicyDir(IF s.d.current = Absent THEN Rename(looked, "previous", "current")
                           ELSE RemoveFile(looked, "previous"))
      again == Look(repaired)
  IN  IF again.st # "ok" \/ again.d.temporary = Absent THEN again
      ELSE SyncPolicyDir(RemoveFile(again, "temporary"))

(* (A mutant.) The current file is removed before the new one takes its name.           *)
SetAsideRemoves(s) == IF s.d.current = Absent THEN s ELSE SyncPolicyDir(RemoveFile(s, "current"))

(* The current file makes way.                                                        *)
SetAside(s) == IF s.d.current = Absent THEN s ELSE Rename(s, "current", "previous")

(* The new file takes the current name; when that fails the old one is put back.        *)
Install(s, had) ==
  LET placed == Rename(s, "temporary", "current")
  IN  IF s.st = "ok" /\ placed.st = "error"
      THEN LET back == IF had THEN [placed EXCEPT !.d = [@ EXCEPT !.current = s.d.previous, !.previous = Absent]]
                       ELSE placed
           IN  [back EXCEPT !.safe = {back.d}]
      ELSE placed

(* replace_policy_file.                                                               *)
ReplacePolicyFile(s, bytes) ==
  LET written == SyncPolicyDir(WriteFile(RecoverPolicyFile(s), bytes))
      looked == Look(written)
      had == looked.d.current # Absent
      placed == SyncPolicyDir(Install(SetAside(looked), had))
  IN  IF placed.st = "ok" /\ had THEN SyncPolicyDir(RemoveFile(placed, "previous")) ELSE placed

(* read_file_bounded, and a file that is not there is empty.                            *)
Records(d) == IF d.current = Absent THEN {} ELSE d.current

-------------------------------------------------------------------------------
(* append_persistent_grant: the record is added to what the file holds.                 *)
AppendPersistentGrant(s, r) ==
  LET ready == Look(RecoverPolicyFile(s))
  IN  IF ready.st # "ok" THEN ready ELSE ReplacePolicyFile(ready, Records(ready.d) \cup {r})

(* decode: a file whose checksum does not match is refused.                             *)
Decodes(d) == Records(d) # Torn

(* encode, load and remember: a known record is enough, a full database refuses.         *)
Remember(s, r) ==
  LET ready == Look(RecoverPolicyFile(s))
  IN  IF ready.st # "ok" THEN ready
      ELSE IF ~Decodes(ready.d) THEN [ready EXCEPT !.st = "error"]
      ELSE IF r \in Records(ready.d) THEN ready
      ELSE IF Cardinality(Records(ready.d)) = MaxRecords THEN [ready EXCEPT !.st = "error"]
      ELSE ReplacePolicyFile(ready, Records(ready.d) \cup {r})

(* grant_db_matches, contains: the record is looked up in the repaired file; a failing     *)
(* look-up finds nothing.                                                              *)
Matches(s, r) == s.st = "ok" /\ r \in Records(s.d)

(* A request ends; a crash leaves one of the durable directories.                        *)
Finish(s) ==
  /\ s.fuse = 0
  /\ IF s.st = "crash"
     THEN \E d \in s.safe : dir' = d /\ durable' = {d}
     ELSE dir' = s.d /\ durable' = s.safe

Starting(f, how) == [d |-> dir, safe |-> durable, fuse |-> f, how |-> how, st |-> "ok"]
Failing == {<<0, "error">>} \cup (IF failures > 0 THEN (1 .. MaxFuse) \X {"error", "crash"} ELSE {})

(* Some rename or removal has not been synced: a crash may bring another directory back.  *)
Unsynced == durable # {dir}

(* A consent asked for again after the sync behind its first recording failed: it is      *)
(* acknowledged because the file holds it, with nothing synced.                          *)
Unsettled(r) == which = "consents" /\ r \in Records(dir) /\ Unsynced

(* A grant is given for good: acknowledged only when every step succeeded.               *)
Grant(r) ==
  \E f \in Failing :
    \E s \in {IF which = "grants" THEN AppendPersistentGrant(Starting(f[1], f[2]), r)
              ELSE Remember(Starting(f[1], f[2]), r)} :
      /\ Finish(s)
      /\ asked' = asked \cup {r}
      /\ kept' = IF s.st = "ok" /\ ~Unsettled(r) THEN kept \cup {r} ELSE kept
      /\ verdict' = NoVerdict
      /\ failures' = IF f[1] > 0 THEN failures - 1 ELSE failures
      /\ UNCHANGED which

(* A grant is looked up.                                                               *)
Query(r) ==
  \E f \in Failing :
    \E s \in {Look(RecoverPolicyFile(Starting(f[1], f[2])))} :
      /\ Finish(s)
      /\ verdict' = IF f[1] = 0 THEN <<r, Matches(s, r)>> ELSE NoVerdict
      /\ failures' = IF f[1] > 0 THEN failures - 1 ELSE failures
      /\ UNCHANGED <<which, asked, kept>>

(* The machine stops between two requests.                                              *)
Stop ==
  /\ Unsynced
  /\ \E d \in durable : dir' = d /\ durable' = {d}
  /\ verdict' = NoVerdict
  /\ UNCHANGED <<which, asked, kept, failures>>

PolicyInit ==
  /\ which \in {"grants", "consents"}
  /\ dir = Missing
  /\ durable = {Missing}
  /\ asked = {}
  /\ kept = {}
  /\ verdict = NoVerdict
  /\ failures = MaxFailures

PolicyNext == (\E r \in Record : Grant(r) \/ Query(r)) \/ Stop

PolicySpec == PolicyInit /\ [][PolicyNext]_policyVars

(* What recovery makes of a directory.                                                  *)
Surviving(d) == IF d.current # Absent THEN d.current ELSE IF d.previous # Absent THEN d.previous ELSE {}

(* Whatever step fails and wherever the machine stops, now or earlier: every database a    *)
(* crash may leave is complete, holds every grant that was acknowledged and none that was   *)
(* not asked for; and a look-up finds a grant exactly when it was acknowledged or a failed   *)
(* request left it (capability/src/persistent_grant.rs:274, 297; execution_grant.rs:155).   *)
GrantsSurvive ==
  /\ \A d \in durable \cup {dir} : kept \subseteq Surviving(d) /\ Surviving(d) \subseteq asked
  /\ verdict # NoVerdict => /\ verdict[1] \in kept => verdict[2]
                            /\ verdict[2] => verdict[1] \in asked
=============================================================================
