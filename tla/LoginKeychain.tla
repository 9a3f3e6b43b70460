---------------------------- MODULE LoginKeychain ----------------------------
(* Accounts (user.service) and the vaults their passwords open (keychain.service). *)
(* A password change touches both: the vault first gets a wrapper for the new     *)
(* password beside the old one, then the account database is saved, and the next  *)
(* login drops the wrapper that is not the account's.  Saves may fail half-way     *)
(* and the machine may stop; the session manager locks and activates sessions at  *)
(* any time.                                                                     *)
(*                                                                              *)
(* A password hash is a number, its tag; a tag stands for one password.  Keys and  *)
(* ciphertext are left out: a vault lists the tags and passwords that open it.     *)
EXTENDS Integers, FiniteSets

CONSTANTS
  User, App,
  MaxGeneration,   \* u64::MAX of a vault's generation
  MaxEpoch,        \* sessions and starts of keychain.service in a behaviour
  Workload         \* a behaviour's environment: [users, apps: who makes requests; tags: password
                   \* hashes made; cuts: account saves not finished; crashes; faults: failing
                   \* operations of the keychain's storage and of the group database]

VARIABLES
  accounts,        \* user.service: [healthy, db, groupsHealthy, groups]
  files,           \* the two database files: name -> [primary, temporary, backup]
  job,             \* the request user.service works on
  k,               \* keychain.service and its vault files
  tags,            \* hashes made so far
  truth,           \* history: user -> data its acknowledged requests allow
  load             \* the workload, its budgets counting down

loginVars == <<accounts, files, job, k, tags, truth, load>>

Password == {1, 2}
Locked == 0
NoUser == "none"
NoKey == [tag |-> 0, pw |-> Locked]      \* an account that has no password yet
Gone == [tag |-> -1, pw |-> Locked]      \* no account
Nothing == [a \in App |-> {}]            \* the entry of each owner: {} or {[secret, grants]}
NoVault == [kind |-> "none", keys |-> {}, data |-> Nothing, generation |-> 0]
NoPending == [state |-> "none", vault |-> NoVault, key |-> NoKey]
Idle == [step |-> "idle", user |-> NoUser, old |-> NoKey, new |-> NoKey, epoch |-> 0]
None == {}                               \* a file that is not there; {x}: it holds x
TornUsers == [u \in User |-> [tag |-> -3, pw |-> Locked]]   \* a file whose writing did not finish
TornGroups == {"torn"}

-------------------------------------------------------------------------------
(* save_bytes: the directory after each of its operations.                        *)
(* The directory between the two renames.                                           *)
Installing(d, new) == [primary |-> None, temporary |-> {new}, backup |-> d.primary]

(* write_synced: the new database, or a part of it.                                  *)
WriteSynced(d, new, torn) == {[d EXCEPT !.temporary = {x}] : x \in {new, torn}}

Saved(d, new) == [primary |-> {new}, temporary |-> None, backup |-> None]
Unfinished(d, new, torn) ==
  {d, [d EXCEPT !.temporary = None]} \cup WriteSynced(d, new, torn)
    \cup {[d EXCEPT !.temporary = t, !.backup = None] : t \in {None, {new}}}
    \cup {Installing(d, new), [Saved(d, new) EXCEPT !.backup = d.primary], Saved(d, new)}

(* load_bytes: the database, else what a stopped save left.                          *)
LoadBytes(d) == IF d.primary # None THEN d.primary ELSE IF d.temporary # None THEN d.temporary ELSE d.backup
Loaded(d) == CHOOSE x \in LoadBytes(d) : TRUE

-------------------------------------------------------------------------------
(* Results of a keychain request: the service after it, whether it said yes, and   *)
(* the failures it took.                                                          *)
Yes(s) == {[k |-> s, ok |-> TRUE, cost |-> 0]}
No(s) == {[k |-> s, ok |-> FALSE, cost |-> 0]}

(* execute: a storage error or a corrupt vault drops what is cached for the user.    *)
Evict(s, u) ==
  [s EXCEPT !.unlocked[u] = NoVault, !.pending[u] = NoPending, !.recoveries[u] = NoPending]
StorageError(s, u) == {[k |-> Evict(s, u), ok |-> FALSE, cost |-> 1]}
Corrupt(s, u) == No(Evict(s, u))

(* publish: the new vault is on the disk, or it is not known whether it is.             *)
Publish(s, u, vault) == {s, [s EXCEPT !.disk[u] = vault]}

(* (A mutant.) A failed write keeps the cached vault.                               *)
PublishLoginKeepsCache(s, u, vault, after) ==
  Yes(after) \cup {[k |-> t, ok |-> FALSE, cost |-> 1] : t \in Publish(s, u, vault)}

(* publish_login, and the commit of save.                                            *)
PublishLogin(s, u, vault, after) ==
  Yes(after) \cup {[k |-> Evict(t, u), ok |-> FALSE, cost |-> 1] : t \in Publish(s, u, vault)}

(* Data::next refuses the last generation.                                            *)
Full(vault) == vault.generation = MaxGeneration

(* create and migrate: one wrapper, of the login.                                      *)
Create(key) == [kind |-> "login", keys |-> {key}, data |-> Nothing, generation |-> 1]
Migrate(vault, key) == [Create(key) EXCEPT !.data = vault.data, !.generation = vault.generation + 1]

(* login_vault::open with the tag of an account; Unlocked::open of the old format.        *)
OpensLogin(vault, key) == vault.kind = "login" /\ key \in vault.keys
OpensLegacy(vault, pw) == vault.kind = "legacy" /\ pw \in {x.pw : x \in vault.keys}

Ready(vault, key) == [state |-> "ready", vault |-> vault, key |-> key]
Recovery(vault, key) == [state |-> "recovery", vault |-> vault, key |-> key]

(* VerifiedLogin: the vault is made, opened, taken over from the old format, or has to be  *)
(* recovered with an earlier password.                                                *)
VerifiedLogin(u, epoch, key) ==
  LET s == [k EXCEPT !.pending[u] = NoPending]
      blob == k.disk[u]
      With(vault) == [s EXCEPT !.disk[u] = vault, !.pending[u] = Ready(vault, key)]
      Renew(vault) == PublishLogin(s, u, vault, With(vault))
  IN  IF epoch # k.epoch THEN No(k)
      ELSE StorageError(s, u) \cup
           (IF blob.kind = "none" THEN Renew(Create(key))
            ELSE IF OpensLogin(blob, key) THEN Yes(With(blob))
            ELSE IF ~OpensLegacy(blob, key.pw) THEN Yes([s EXCEPT !.pending[u] = Recovery(blob, key)])
            ELSE IF Full(blob) THEN No(s)
            ELSE Renew(Migrate(blob, key)))

(* (A mutant.) The old wrapper is dropped at once.                                   *)
PreparedAlone(vault, current, key) == Migrate(vault, key)

(* prepare_password_change: the account's wrapper and the new one.                    *)
Prepared(vault, current, key) ==
  [vault EXCEPT !.keys = {x \in @ : x.tag = current} \cup {key}, !.generation = @ + 1]

(* PrepareLoginPassword.                                                             *)
PrepareLoginPassword(u, epoch, current, key) ==
  LET held == k.unlocked[u]
  IN  IF epoch # k.epoch THEN No(k)
      ELSE StorageError(k, u) \cup
           (IF k.disk[u].kind = "none"
            THEN IF held # NoVault \/ k.pending[u] # NoPending THEN Corrupt(k, u) ELSE Yes(k)
            ELSE IF k.user # u \/ held = NoVault THEN No(k)
            ELSE IF held # k.disk[u] THEN Corrupt(k, u)
            ELSE IF current \notin {x.tag : x \in held.keys} \/ Full(held) THEN No(k)
            ELSE LET next == Prepared(held, current, key)
                 IN  PublishLogin(k, u, next, [k EXCEPT !.disk[u] = next, !.unlocked[u] = next, !.pending[u] = NoPending]))

(* Session control: everything cached is dropped and a new epoch starts.               *)
Ended == [k EXCEPT !.unlocked = [u \in User |-> NoVault], !.recoveries = [u \in User |-> NoPending],
                   !.known = {}, !.epoch = @ + 1, !.user = NoUser]
Settled(s) == [s EXCEPT !.pending = [u \in User |-> NoPending]]

(* consolidate: the wrapper of the login that was verified stays.                       *)
Consolidate(vault, key) ==
  IF vault.keys = {key} THEN vault ELSE [vault EXCEPT !.keys = {key}, !.generation = @ + 1]

(* activate_login: the verified login opens the vault of the session.  An error leaves   *)
(* the session active and the logins of other users pending.                           *)
ActivateLogin(s, u) ==
  LET p == k.pending[u]
      kept == [s EXCEPT !.pending[u] = NoPending]
      new == Consolidate(p.vault, p.key)
      Failed(t) == [k |-> t, ok |-> FALSE, cost |-> 1]
      opened == Yes(Settled([s EXCEPT !.disk[u] = new, !.unlocked[u] = new]))
  IN  CASE p.state = "none" -> Yes(Settled(s))
        [] p.state = "recovery" -> Yes(Settled([s EXCEPT !.recoveries[u] = p]))
        [] p.state = "ready" ->
             {Failed(kept)} \cup
             (IF p.vault # k.disk[u] THEN No(kept)
              ELSE IF new = p.vault THEN opened
              ELSE IF Full(p.vault) THEN No(kept)
              ELSE opened \cup {Failed(t) : t \in Publish(kept, u, new)})

(* recover_login: an earlier password opens the vault, which then gets the login's.     *)
RecoverLogin(s, u, pw) ==
  LET p == s.recoveries[u]
      blob == s.disk[u]
      next == Migrate(blob, p.key)
  IN  IF p.state = "none" THEN No(s)
      ELSE StorageError(s, u) \cup
           (IF p.vault # blob THEN Corrupt(s, u)
            ELSE IF pw \notin {x.pw : x \in blob.keys} \/ Full(blob) THEN No(s)
            ELSE PublishLogin(s, u, next, [s EXCEPT !.disk[u] = next, !.unlocked[u] = next,
                                                    !.recoveries[u] = NoPending]))

(* current_publication and save: the cached vault must still be the one on the disk.    *)
Save(s, u, data) ==
  LET held == s.unlocked[u]
      next == [held EXCEPT !.data = data, !.generation = @ + 1]
  IN  IF held = NoVault \/ Full(held) THEN No(s)
      ELSE StorageError(s, u) \cup
           (IF held # s.disk[u] THEN Corrupt(s, u)
            ELSE PublishLogin(s, u, next, [s EXCEPT !.disk[u] = next, !.unlocked[u] = next]))

(* Status: a cached vault that is not the one on the disk is dropped.                   *)
Status(s, u) ==
  StorageError(s, u) \cup (IF s.unlocked[u] \in {NoVault, s.disk[u]} THEN Yes(s) ELSE Corrupt(s, u))

Lock(s, u) == Yes([s EXCEPT !.unlocked[u] = NoVault])

(* The data a request makes of what the vault holds: none if there is no such entry.       *)
Put(data, a, secret) ==
  {[data EXCEPT ![a] = {[secret |-> secret, grants |-> UNION {e.grants : e \in @}]}]}
Delete(data, a) == IF data[a] = {} THEN {} ELSE {[data EXCEPT ![a] = {}]}
ManageDelete(data, id) == Delete(data, id)
DataApplications(data) ==
  {a \in App : data[a] # {}} \cup UNION {UNION {e.grants : e \in data[a]} : a \in App}
Grant(data, id, known) ==
  LET With(grants) == [data EXCEPT ![id] = {[e EXCEPT !.grants = grants] : e \in @}]
  IN  UNION {{With(e.grants \ {t}) : t \in App \ {id}}
               \cup {With(e.grants \cup {t}) : t \in (known \cup DataApplications(data)) \ {id}} : e \in data[id]}

-------------------------------------------------------------------------------
Took(r) ==
  /\ load.faults >= r.cost
  /\ load' = [load EXCEPT !.faults = @ - r.cost]
  /\ k' = r.k

(* What a request of an application leaves of the promise made about the data.           *)
Promise(u, data, r) ==
  truth' = [truth EXCEPT ![u] = IF r.ok THEN {data} ELSE IF r.cost > 0 THEN @ \cup {data} ELSE @]

(* A request of an application of the session's user that changes the vault; the manager    *)
(* may change every entry.                                                             *)
Change(a, id) ==
  /\ k.user # NoUser
  /\ LET u == k.user
         s == [k EXCEPT !.known = @ \cup {a}]
         data == k.unlocked[u].data
     IN  \E new \in UNION {Put(data, a, x) : x \in 1..2} \cup Delete(data, a)
                      \cup ManageDelete(data, id) \cup Grant(data, id, s.known) :
           \E r \in Save(s, u, new) : Took(r) /\ Promise(u, new, r)
  /\ UNCHANGED <<accounts, files, job, tags>>

(* The session's other requests.                                                        *)
Request(a) ==
  /\ k.user # NoUser
  /\ LET s == [k EXCEPT !.known = @ \cup {a}]
     IN  \E r \in Status(s, k.user) \cup Lock(s, k.user) \cup UNION {RecoverLogin(s, k.user, pw) : pw \in Password} :
           Took(r)
  /\ UNCHANGED <<accounts, files, job, tags, truth>>

(* LockAll and ActivateSession (session manager).                                       *)
Control ==
  /\ k.epoch < MaxEpoch
  /\ \E r \in Yes(Settled(Ended)) \cup UNION {ActivateLogin([Ended EXCEPT !.user = u], u) : u \in User} : Took(r)
  /\ UNCHANGED <<accounts, files, job, tags, truth>>

(* A verified login nobody activates within a minute is dropped.                        *)
Expire(u) ==
  /\ k.pending[u] # NoPending
  /\ k' = [k EXCEPT !.pending[u] = NoPending]
  /\ UNCHANGED <<accounts, files, job, tags, truth, load>>

-------------------------------------------------------------------------------
(* save_candidate: a failed save makes the service refuse everything that follows.        *)
SaveCandidate(db, next) ==
  \/ /\ files' = [files EXCEPT !.users = Saved(@, db)]
     /\ accounts' = [accounts EXCEPT !.db = db]
     /\ job' = next
     /\ UNCHANGED load
  \/ /\ load.cuts > 0
     /\ load' = [load EXCEPT !.cuts = @ - 1]
     /\ \E d \in Unfinished(files.users, db, TornUsers) : files' = [files EXCEPT !.users = d]
     /\ accounts' = [accounts EXCEPT !.healthy = FALSE]
     /\ job' = Idle

(* handle_add: the private group is published before the account ...                      *)
HandleAdd(u) ==
  /\ job = Idle
  /\ accounts.groupsHealthy
  /\ accounts.db[u] = Gone
  /\ LET all == accounts.groups \cup {u}
     IN  IF u \in accounts.groups
         THEN job' = [Idle EXCEPT !.step = "add", !.user = u] /\ UNCHANGED <<accounts, files, load>>
         ELSE \/ /\ files' = [files EXCEPT !.groups = Saved(@, all)]
                 /\ accounts' = [accounts EXCEPT !.groups = all]
                 /\ job' = [Idle EXCEPT !.step = "add", !.user = u]
                 /\ UNCHANGED load
              \/ /\ load.faults > 0
                 /\ load' = [load EXCEPT !.faults = @ - 1]
                 /\ \E d \in Unfinished(files.groups, all, TornGroups) : files' = [files EXCEPT !.groups = d]
                 /\ accounts' = [accounts EXCEPT !.groupsHealthy = FALSE]
                 /\ job' = Idle
  /\ UNCHANGED <<k, tags, truth>>

(* ... which has no password yet.                                                         *)
AddAccount ==
  /\ job.step = "add"
  /\ IF accounts.healthy THEN SaveCandidate([accounts.db EXCEPT ![job.user] = NoKey], Idle)
     ELSE job' = Idle /\ UNCHANGED <<accounts, files, load>>
  /\ UNCHANGED <<k, tags, truth>>

(* handle_remove: the account goes, its group and its vault stay.                         *)
HandleRemove(u) ==
  /\ job = Idle
  /\ accounts.healthy
  /\ accounts.db[u] # Gone
  /\ SaveCandidate([accounts.db EXCEPT ![u] = Gone], Idle)
  /\ UNCHANGED <<k, tags, truth>>

(* password::hash, with a fresh salt, and verify.                                          *)
Hash(pw) == [tag |-> tags + 1, pw |-> pw]
Verify(pw, account) == account.pw = pw

(* handle_set_password: connect, then the new wrapper is prepared ...                     *)
HandleSetPassword(u, pw) ==
  /\ job = Idle
  /\ accounts.healthy
  /\ accounts.db[u] # Gone
  /\ tags < load.tags
  /\ tags' = tags + 1
  /\ job' = [step |-> "prepare", user |-> u, old |-> accounts.db[u], new |-> Hash(pw), epoch |-> k.epoch]
  /\ UNCHANGED <<accounts, files, k, truth, load>>

PreparePassword ==
  /\ job.step = "prepare"
  /\ \E r \in PrepareLoginPassword(job.user, job.epoch, job.old.tag, job.new) :
       Took(r) /\ job' = IF r.ok THEN [job EXCEPT !.step = "save"] ELSE Idle
  /\ UNCHANGED <<accounts, files, tags, truth>>

(* ... the account is saved ...                                                          *)
SavePassword ==
  /\ job.step = "save"
  /\ SaveCandidate([accounts.db EXCEPT ![job.user] = job.new], [job EXCEPT !.step = "connect"])
  /\ UNCHANGED <<k, tags, truth>>

(* ... and the login is handed to the keychain.                                           *)
Connect ==
  /\ job.step = "connect"
  /\ job' = [job EXCEPT !.step = "login", !.epoch = k.epoch]
  /\ UNCHANGED <<accounts, files, k, tags, truth, load>>

(* handle_authenticate: connect comes before the password is verified.                     *)
HandleAuthenticate(u, pw) ==
  /\ job = Idle
  /\ accounts.healthy
  /\ Verify(pw, accounts.db[u])
  /\ job' = [Idle EXCEPT !.step = "login", !.user = u, !.new = accounts.db[u], !.epoch = k.epoch]
  /\ UNCHANGED <<accounts, files, k, tags, truth, load>>

LogIn ==
  /\ job.step = "login"
  /\ \E r \in VerifiedLogin(job.user, job.epoch, job.new) : Took(r)
  /\ job' = Idle
  /\ UNCHANGED <<accounts, files, tags, truth>>

(* The machine stops, perhaps after a save that did not finish, and both services start;    *)
(* UserService::load.                                                                   *)
Restart ==
  /\ load.crashes > 0
  /\ k.epoch < MaxEpoch
  /\ load' = [load EXCEPT !.crashes = @ - 1]
  /\ accounts' = [healthy |-> TRUE, db |-> Loaded(files.users), groupsHealthy |-> TRUE, groups |-> Loaded(files.groups)]
  /\ job' = Idle
  /\ k' = Settled(Ended)
  /\ UNCHANGED <<files, tags, truth>>

LoginInit ==
  /\ \E v \in {NoVault, [kind |-> "legacy", keys |-> {[tag |-> -2, pw |-> 1]}, data |-> Nothing, generation |-> 1]} :
       k = [disk |-> [u \in User |-> v], unlocked |-> [u \in User |-> NoVault],
            pending |-> [u \in User |-> NoPending], recoveries |-> [u \in User |-> NoPending],
            known |-> {}, epoch |-> 1, user |-> NoUser]
  /\ accounts = [healthy |-> TRUE, db |-> [u \in User |-> Gone], groupsHealthy |-> TRUE, groups |-> {}]
  /\ files = [users |-> [primary |-> {accounts.db}, temporary |-> None, backup |-> None],
              groups |-> [primary |-> {{}}, temporary |-> None, backup |-> None]]
  /\ job = Idle
  /\ tags = 0
  /\ truth = [u \in User |-> {Nothing}]
  /\ load \in Workload

LoginNext ==
  \/ \E a, b \in load.apps : Change(a, b)
  \/ \E a \in load.apps : Request(a)
  \/ Control
  \/ \E u \in load.users : Expire(u) \/ HandleAdd(u) \/ HandleRemove(u)
  \/ \E u \in load.users, pw \in Password : HandleSetPassword(u, pw) \/ HandleAuthenticate(u, pw)
  \/ AddAccount \/ PreparePassword \/ SavePassword \/ Connect \/ LogIn \/ Restart

LoginSpec == LoginInit /\ [][LoginNext]_loginVars

(* A crash or a failed save keeps the login: for the account in memory and for the one the  *)
(* next start would load, the vault on the disk, if logins protect it, has a wrapper with    *)
(* that very password (user/src/main.rs:221).                                             *)
LoginRecoverable ==
  \A db \in (IF accounts.healthy THEN {accounts.db} ELSE {}) \cup LoadBytes(files.users), u \in User :
    k.disk[u].kind = "login" /\ db[u].pw # Locked => db[u] \in k.disk[u].keys

(* While at most one save of the accounts was cut short, an account with a password opens     *)
(* its vault, the databases can be loaded, and every account loaded has its group             *)
(* (user/src/main.rs:164, 221, storage.rs:48).                                            *)
LoginOpensVault ==
  /\ LoginRecoverable
  /\ \A db \in LoadBytes(files.users), g \in LoadBytes(files.groups) :
       /\ db # TornUsers /\ g # TornGroups
       /\ \A u \in User : db[u] # Gone => u \in g

(* The vault that answers is the vault on the disk, only the session's user has one open,     *)
(* and it holds exactly what the acknowledged requests made of it, or what one that failed    *)
(* would have (keychain/src/storage.rs:99, lib.rs:75, 442).                                *)
SecretsKept ==
  /\ \A u \in User : k.unlocked[u] # NoVault => k.unlocked[u] = k.disk[u] /\ k.user = u
  /\ \A u \in User : k.disk[u].data \in truth[u]
=============================================================================
