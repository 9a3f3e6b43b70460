---------------------------- MODULE PackageService ----------------------------
(* package.service: installing, updating and removing a package whose files    *)
(* are spread over the filesystem.  There is no journal: an update stages every *)
(* file beside its target, renames old files away and new ones in, and undoes   *)
(* the renames when a step fails; the service may also die between any two file *)
(* operations, and nothing repairs the package when it starts again.            *)
(*                                                                              *)
(* One package identifier is followed.  A release is a record: its number, the  *)
(* targets of its payload in manifest order, the key that signed it, whether it *)
(* carries a Linux root filesystem.  A file holds the number of the release it  *)
(* came from, Torn when a write was cut short.                                  *)
EXTENDS Integers, Sequences, FiniteSets, SequencesExt

CONSTANTS
  Releases,      \* the releases a package file may hold
  MaxFuse,       \* file operations of one request, at most
  MaxFaults      \* failing operations or crashes in a behaviour, at most

VARIABLES
  files,         \* path -> contents; a path is a target and a suffix
  index,         \* the release capability.service's package index knows, or None
  bundle,        \* linux.service holds a staged root filesystem
  faults,        \* failures left
  answer         \* of the last request: [op, ok, died, release]; kept: a release was
                 \* installed with success and not removed; crashed: at any time

packageVars == <<files, index, bundle, faults, answer>>

None == 0
Torn == -1
Verification == "verification.bin"
Manifest == "manifest.toml"
Bundle == "bundle manifest"
Targets == UNION {Range(r.layout) : r \in Releases} \cup {Verification, Manifest, Bundle}
Places == {"", ".mochi-new", ".mochi-old", ".mochi-remove"}
Live(t) == <<t, "">>
New(t) == <<t, ".mochi-new">>
Old(t) == <<t, ".mochi-old">>
Gone(t) == <<t, ".mochi-remove">>
Numbered(n) == CHOOSE r \in Releases : r.number = n

(* A request in progress: the files as it leaves them, the fuse that tells      *)
(* which of its operations fails, whether the last operation failed, whether    *)
(* the service died.                                                            *)
Begin(fuse) ==
  [files |-> files, index |-> index, bundle |-> bundle, fuse |-> fuse.at, how |-> fuse.how,
   err |-> FALSE, dead |-> FALSE, staged |-> <<>>, created |-> <<>>]

(* One operation of POSIX: done, or failed the way the fuse says.               *)
Do(s, done, failed) ==
  IF s.dead THEN s
  ELSE IF s.fuse = 1
       THEN [failed EXCEPT !.fuse = 0, !.err = TRUE, !.dead = s.how = "crash"]
       ELSE [done EXCEPT !.fuse = IF s.fuse > 1 THEN s.fuse - 1 ELSE 0]

Failed(s) == [s EXCEPT !.err = TRUE]
Went(s) == [s EXCEPT !.err = FALSE]
Has(s, p) == s.files[p] # None
Read(s) == Do(s, Went(s), s)
Rename(s, p, q) ==
  Do(s, IF Has(s, p) THEN [Went(s) EXCEPT !.files[q] = s.files[p], !.files[p] = None] ELSE Failed(s), s)
Unlink(s, p) ==
  Do(s, IF Has(s, p) THEN [Went(s) EXCEPT !.files[p] = None] ELSE Failed(s), s)

(* write_file: creates the file exclusively; a failure may leave a torn file.   *)
WriteFile(s, p, contents) ==
  Do(s, IF Has(s, p) THEN Failed(s) ELSE [Went(s) EXCEPT !.files[p] = contents],
        IF s.how = "clean" \/ Has(s, p) THEN s ELSE [s EXCEPT !.files[p] = Torn])

(* require_path_absent, require_path_present.                                    *)
RequirePathAbsent(s, p) == IF s.err THEN s ELSE Do(s, IF Has(s, p) THEN Failed(s) ELSE s, s)
RequirePathPresent(s, p) == IF s.err THEN s ELSE Do(s, IF Has(s, p) THEN s ELSE Failed(s), s)

(* What a package directory's manifest and verification record make active: a   *)
(* package is listed only if the record was made for that very manifest.        *)
Listed(fs) ==
  IF fs[Live(Manifest)] > None /\ fs[Live(Verification)] = fs[Live(Manifest)]
  THEN fs[Live(Manifest)] ELSE None

(* notify_package_index_changed: capability.service reads the packages again;   *)
(* the call may fail before it did or after it.                                 *)
NotifyPackageIndexChanged(s) ==
  Do(s, [Went(s) EXCEPT !.index = Listed(s.files)],
        IF s.how = "torn" THEN [s EXCEPT !.index = Listed(s.files)] ELSE s)

(* manifest_physical_targets: what a manifest installs.                          *)
ManifestPhysicalTargets(r) == Range(r.layout) \cup {Bundle}

(* rollback_created_files: the files of a failed installation, last one first.  *)
RollbackCreatedFiles(s) ==
  Failed(FoldLeft(LAMBDA u, p : Unlink(u, p), s, Reverse(s.created)))

(* (A mutant.) The file whose write failed is not removed.                       *)
CreateKeepsTorn(s, t, contents) ==
  LET w == WriteFile(s, Live(t), contents)
  IN  IF s.err THEN s
      ELSE IF w.err THEN RollbackCreatedFiles(w)
      ELSE [w EXCEPT !.created = Append(@, Live(t))]

(* A file of an installation, or everything taken back.                          *)
Create(s, t, contents) ==
  LET w == WriteFile(s, Live(t), contents)
  IN  IF s.err THEN s
      ELSE IF w.err THEN RollbackCreatedFiles(Unlink(w, Live(t)))
      ELSE [w EXCEPT !.created = Append(@, Live(t))]

(* A payload file of an installation: read from the package, checked against    *)
(* the manifest's digest, written.  A failing read returns at once.              *)
CreatePayload(s, t, r, payload) ==
  LET read == Read(s)
  IN  IF s.err \/ read.err THEN [read EXCEPT !.err = TRUE]
      ELSE IF payload # r.number THEN RollbackCreatedFiles(read)
      ELSE Create(read, t, r.number)

(* prepare_linux_bundle and the undoing of the files when it fails.              *)
PrepareLinuxBundle(s, r) ==
  LET p == Do(s, [Went(s) EXCEPT !.bundle = TRUE], s)
  IN  IF s.err \/ ~r.linux THEN s ELSE IF p.err THEN RollbackCreatedFiles(p) ELSE p

(* The index refresh that ends an installation.                                  *)
PublishInstall(s) ==
  LET n == NotifyPackageIndexChanged(s)
  IN  IF s.err THEN s ELSE IF n.err THEN Failed(NotifyPackageIndexChanged(RollbackCreatedFiles(n))) ELSE n

(* The installing half of install_package.                                       *)
InstallFiles(s, r, verified, payload) ==
  LET absent == FoldLeft(LAMBDA u, t : RequirePathAbsent(u, Live(t)), s,
                         r.layout \o <<Bundle, Verification, Manifest>>)
      paid == FoldLeft(LAMBDA u, t : CreatePayload(u, t, r, payload), absent, r.layout)
      recorded == Create(paid, Verification, verified)
      listed == Create(recorded, Manifest, r.number)
  IN  PublishInstall(PrepareLinuxBundle(Create(listed, Bundle, r.number), r))

(* rollback_update: the committed targets get their old files back, the staged  *)
(* ones lose their temporary.                                                   *)
RollbackUpdate(s, committed) ==
  LET back == FoldLeft(LAMBDA u, i : Rename(Unlink(u, Live(s.staged[i])), Old(s.staged[i]), Live(s.staged[i])),
                       s, [i \in 1 .. committed |-> committed + 1 - i])
  IN  Failed(FoldLeft(LAMBDA u, i : Unlink(u, New(s.staged[i])), back,
                      [i \in 1 .. Len(s.staged) - committed |-> committed + i]))

(* stage_update_file: the new contents beside the target.  A failed write keeps *)
(* its temporary: it is not among the staged ones yet.                           *)
StageUpdateFile(s, t, contents) ==
  LET clear == RequirePathAbsent(RequirePathAbsent(RequirePathPresent(s, Live(t)), New(t)), Old(t))
      w == IF clear.err THEN clear ELSE WriteFile(clear, New(t), contents)
  IN  IF s.err THEN s
      ELSE IF w.err THEN RollbackUpdate(w, 0) ELSE [w EXCEPT !.staged = Append(@, t)]

StagePayload(s, t, r, payload) ==
  LET read == Read(s)
  IN  IF s.err \/ read.err THEN [read EXCEPT !.err = TRUE]
      ELSE IF payload # r.number THEN RollbackUpdate(read, 0)
      ELSE StageUpdateFile(read, t, r.number)

(* (A mutant.) The old file is not put back when the new one cannot move in.     *)
CommitFileForgets(s, i) ==
  LET t == s.staged[i]
      away == Rename(s, Live(t), Old(t))
      moved == Rename(away, New(t), Live(t))
  IN  IF s.err THEN s
      ELSE IF away.err THEN RollbackUpdate(away, i - 1)
      ELSE IF moved.err THEN RollbackUpdate(moved, i - 1)
      ELSE moved

(* One target of the commit loop: the old file away, the new one in.             *)
CommitFile(s, i) ==
  LET t == s.staged[i]
      away == Rename(s, Live(t), Old(t))
      moved == Rename(away, New(t), Live(t))
  IN  IF s.err THEN s
      ELSE IF away.err THEN RollbackUpdate(away, i - 1)
      ELSE IF moved.err THEN RollbackUpdate(Rename(moved, Old(t), Live(t)), i - 1)
      ELSE moved

(* The end of an update: the index is refreshed, the backups are dropped.        *)
PublishUpdate(s) ==
  LET n == NotifyPackageIndexChanged(s)
  IN  IF s.err THEN s
      ELSE IF n.err THEN Failed(NotifyPackageIndexChanged(RollbackUpdate(n, Len(n.staged))))
      ELSE Went(FoldLeft(LAMBDA u, t : Unlink(u, Old(t)), n, n.staged))

(* update_package_files.                                                         *)
UpdatePackageFiles(s, r, verified, payload) ==
  LET read == Read(s)
      known == read.files[Live(Manifest)]
      paid == FoldLeft(LAMBDA u, t : StagePayload(u, t, r, payload), read, r.layout)
      staged == StageUpdateFile(StageUpdateFile(StageUpdateFile(paid, Verification, verified),
                                                Manifest, r.number), Bundle, r.number)
  IN  IF read.err \/ known <= None THEN Failed(read)
      ELSE IF ManifestPhysicalTargets(Numbered(known)) # ManifestPhysicalTargets(r) THEN Failed(read)
      ELSE PublishUpdate(FoldLeft(CommitFile, staged, [i \in 1 .. Len(staged.staged) |-> i]))

(* validate_update_owner: whether a package with the same signer is installed.   *)
ValidateUpdateOwner(s, verified) ==
  CASE s.files[Live(Verification)] = None -> "NewInstall"
    [] s.files[Live(Verification)] = Torn -> "refused"
    [] OTHER -> IF Numbered(s.files[Live(Verification)]).signer = Numbered(verified).signer
                THEN "SameSigningKey" ELSE "refused"

(* install_package: r is the release whose index was read, verified the one the *)
(* signature service saw (None: it refused), payload the one the payload bytes   *)
(* are read from: the package file may be replaced in between.                   *)
InstallPackage(s, mutation, r, verified, payload) ==
  LET ready == Read(s)
      owner == ValidateUpdateOwner(ready, verified)
  IN  IF ready.err \/ verified = None THEN Failed(ready)
      ELSE CASE mutation = "install" /\ owner = "NewInstall" -> InstallFiles(ready, r, verified, payload)
             [] mutation = "update" /\ owner = "SameSigningKey" /\ ~r.linux ->
                  UpdatePackageFiles(ready, r, verified, payload)
             [] OTHER -> Failed(ready)

(* rollback_removal.                                                             *)
RollbackRemoval(s) ==
  Failed(FoldLeft(LAMBDA u, t : Rename(u, Gone(t), Live(t)), s, Reverse(s.staged)))

(* One target of a removal: renamed away, or everything put back.                *)
StageRemoval(s, t) ==
  LET clear == RequirePathPresent(RequirePathAbsent(s, Gone(t)), Live(t))
      moved == IF clear.err THEN clear ELSE Rename(clear, Live(t), Gone(t))
  IN  IF s.err THEN s
      ELSE IF moved.err THEN RollbackRemoval(moved) ELSE [moved EXCEPT !.staged = Append(@, t)]

(* remove_package.                                                               *)
RemovePackage(s) ==
  LET read == Read(s)
      known == read.files[Live(Manifest)]
      record == read.files[Live(Verification)]
      staged == FoldLeft(StageRemoval, read,
                         SetToSeq(ManifestPhysicalTargets(Numbered(known)) \cup {Verification, Manifest}))
      n == NotifyPackageIndexChanged(staged)
  IN  IF read.err \/ known <= None \/ Numbered(known).linux \/ record <= None THEN Failed(read)
      ELSE IF staged.err THEN staged
      ELSE IF n.err THEN Failed(NotifyPackageIndexChanged(RollbackRemoval(n)))
      ELSE Went(FoldLeft(LAMBDA u, t : Unlink(u, Gone(t)), n, n.staged))

(* The service's loop: one request at a time, answered when it is done.          *)
Serve(op, program, fuse, r) ==
  \E s \in {program} :
    /\ s.fuse = 0
    /\ files' = s.files
    /\ index' = s.index
    /\ bundle' = s.bundle
    /\ faults' = IF fuse.at > 0 THEN faults - 1 ELSE faults
    /\ answer' = [op |-> op, ok |-> ~s.err, died |-> s.dead, crashed |-> answer.crashed \/ s.dead, release |-> IF s.err THEN None ELSE r,
                   kept |-> s.index # None /\ (answer.kept \/ ~s.err)]

(* Which operation of a request fails and how: none, or one that has no effect, *)
(* half of its effect, or that the service does not survive.                     *)
Fuses == {[at |-> 0, how |-> "clean"]} \cup
  (IF faults > 0 THEN [at : 1 .. MaxFuse, how : {"clean", "torn", "crash"}] ELSE {})

(* What a package file replaced during a request holds: the oldest release.     *)
Oldest == Min({r.number : r \in Releases})

(* verify_when_database_ready: what signature.service says the file is (nothing, the release, *)
(* an older one put in its place), once its database is in step.                             *)
VerifyWhenDatabaseReady(r) == {None, r.number, Oldest}

Install ==
  \E r \in Releases, fuse \in Fuses :
    \E verified \in VerifyWhenDatabaseReady(r), payload \in {r.number, Torn} :
      Serve("install", InstallPackage(Begin(fuse), "install", r, verified, payload), fuse, r.number)

Update ==
  \E r \in Releases, fuse \in Fuses :
    \E verified \in VerifyWhenDatabaseReady(r), payload \in {r.number, Torn} :
      Serve("update", InstallPackage(Begin(fuse), "update", r, verified, payload), fuse, r.number)

Withdraw == \E fuse \in Fuses : Serve("remove", RemovePackage(Begin(fuse)), fuse, None)

PackageInit ==
  /\ files = [p \in Targets \X Places |-> None]
  /\ index = None
  /\ bundle = FALSE
  /\ faults = MaxFaults
  /\ answer = [op |-> "none", ok |-> TRUE, died |-> FALSE, crashed |-> FALSE, release |-> None,
               kept |-> FALSE]

PackageNext == Install \/ Update \/ Withdraw
PackageSpec == PackageInit /\ [][PackageNext]_packageVars

LiveFiles(fs) == [t \in Targets |-> fs[Live(t)]]

(* Of every step: a request that fails takes nothing half-way: when one operation fails in the *)
(* life of the service (package/src/main.rs:405, 421, 1097, 1109), a failed update or removal *)
(* leaves every live file of the package as it found it, a failed installation  *)
(* makes no package active and leaves no torn file, and a request answered with *)
(* success has all of its files in place (or all of them gone) and in the index.*)
RequestsAtomic ==
  /\ ~answer'.died /\ ~answer'.ok /\ answer'.op \in {"update", "remove"} =>
       LiveFiles(files') = LiveFiles(files)
  /\ ~answer'.died /\ ~answer'.ok /\ answer'.op = "install" =>
       /\ Listed(files') = Listed(files)
       /\ \A t \in Targets : files'[Live(t)] = Torn => files[Live(t)] = Torn
  /\ answer'.ok /\ answer'.op \in {"install", "update"} =>
       /\ \A t \in Range(Numbered(answer'.release).layout) : files'[Live(t)] = answer'.release
       /\ index' = Listed(files')
  /\ answer'.ok /\ answer'.op = "remove" => index' = None /\ files'[Live(Manifest)] = None

(* An installed package keeps its contents through every failed or interrupted  *)
(* request until it is removed: each of its files exists whole, in place or under the    *)
(* name it was set aside (package/src/main.rs:468, 1154); and as long as the     *)
(* service has not died, all of them are in place and of the indexed release.   *)
ContentsKept ==
  index # None =>
    /\ answer.kept => \A t \in ManifestPhysicalTargets(Numbered(index)) \cup {Verification, Manifest} :
         \E p \in {Live(t), Old(t), Gone(t)} : files[p] > None
    /\ ~answer.crashed =>
         \A t \in Range(Numbered(index).layout) \cup {Manifest} : files[Live(t)] = index
=============================================================================
