------------------------------- MODULE Filesystem -------------------------------
(***************************************************************************)
(* The filesystem service's namespace (filesystem/src/service.rs): one     *)
(* ext4 volume, its directory entries and link counts, the open            *)
(* descriptions, and what keeps an inode that is open but has no name      *)
(* left: a private entry registered in `orphans` for a file, a record in   *)
(* `removed_directories` for a directory.                                  *)
(*                                                                         *)
(* The service handles one request at a time, so a request is one step.    *)
(* What makes it hard is inside the step: a rename is links and unlinks    *)
(* with hand-written rollback, and any storage call may fail.  A handler   *)
(* is computed on the state w by threading it through its storage calls;   *)
(* w.fuse says which of them fails (0: none), w.ok how the last one ended. *)
(***************************************************************************)
EXTENDS Naturals, FiniteSets, FiniteSetsExt, Functions

CONSTANTS
  Ino,        \* inode numbers, 1 is the volume root; a freed one is reused
  Name,       \* the names clients use
  MaxFaults,  \* bound: requests hit by a storage failure in a behaviour
  MaxFuse,    \* bound: the last storage call of a request that may fail
  MaxLinks,   \* bound: the u16 link count
  Workload    \* scenarios: the volume to start with, the request kinds, and a
              \* bound on the open descriptions handed out

VARIABLES w, faults, load

vars == <<w, faults, load>>

Root == 1

\* Names: a client's, rename's backup (the POSIX service always sends the same
\* request_id) and .mochios-orphan-{node}-{attempt}.
Public(n) == <<0, n>>
Backup == <<1, 0>>
Retention(i, attempt) == <<2, i, attempt>>

Names == {Public(n) : n \in Name}
NoEntries == [n \in {} |-> 0]

With(f, k, v) == [x \in DOMAIN f \cup {k} |-> IF x = k THEN v ELSE f[x]]
Without(f, k) == Restrict(f, DOMAIN f \ {k})

-----------------------------------------------------------------------------
(* The volume (ext4plus)                                                   *)

Dirs(s) == {i \in Ino : s.kind[i] = "dir"}
IsDir(s, i) == s.kind[i] = "dir"
At(s, p, n) == IF n \in DOMAIN s.entry[p] THEN s.entry[p][n] ELSE 0

\* Every storage call burns the fuse; the one that finds it at 1 fails.
Fails(s) == s.fuse = 1
Burn(s) == IF s.fuse = 0 THEN 0 ELSE s.fuse - 1
Failed(s) == [s EXCEPT !.fuse = Burn(s), !.ok = FALSE]

\* Dir::link: the counts are written before the entry is added, so a taken name
\* or a full volume leaves them raised.
Link(s, p, n, i) ==
  LET raised == [s EXCEPT !.links[i] = @ + 1, !.fuse = Burn(s)]
      counted == IF IsDir(s, i) THEN [raised EXCEPT !.links[p] = @ + 1] ELSE raised
  IN  IF Fails(s) \/ n \in DOMAIN s.entry[p] THEN [counted EXCEPT !.ok = FALSE]
      ELSE [counted EXCEPT !.entry[p] = With(@, n, i), !.ok = TRUE]

\* Dir::unlink_retained: a parent's count is the caller's business.
UnlinkRetained(s, p, n, i) ==
  IF Fails(s) THEN Failed(s)
  ELSE [s EXCEPT !.links[i] = IF @ = 0 THEN 0 ELSE @ - 1,
                 !.entry[p] = Without(@, n), !.fuse = Burn(s), !.ok = TRUE]

Reclaimed(s, i) == [s EXCEPT !.kind[i] = "free", !.entry[i] = NoEntries, !.up[i] = 0]

\* Dir::unlink: the inode goes with its last link.
Unlink(s, p, n, i) ==
  LET r == UnlinkRetained(s, p, n, i)
  IN  IF r.ok /\ r.links[i] = 0 THEN Reclaimed(r, i) ELSE r

\* Inode::write of a changed link count.
SetLinks(s, i, count) ==
  IF Fails(s) THEN Failed(s)
  ELSE [s EXCEPT !.links[i] = count, !.fuse = Burn(s), !.ok = TRUE]

\* A count changed in the copy in memory: the next write of that inode stores it.
InMemory(s, i, count) == [s EXCEPT !.links[i] = count]

SetParent(s, i, p) ==
  IF Fails(s) THEN Failed(s)
  ELSE [s EXCEPT !.up[i] = p, !.fuse = Burn(s), !.ok = TRUE]

\* The clock, a read-only volume, a parent's timestamps: a call that changes nothing here.
Touch(s) == IF Fails(s) THEN Failed(s) ELSE [s EXCEPT !.fuse = Burn(s), !.ok = TRUE]

\* A handler that fails keeps what it did; one that succeeds goes on.
Then(s, Go(_)) == IF s.ok THEN Go(s) ELSE s
Error(s) == [s EXCEPT !.ok = FALSE]

\* create_inode, Dir::init and link: an inode whose link failed stays allocated.
FreeIno(s) == {i \in Ino : s.kind[i] = "free"}
NewEntry(s, p, n, kind) ==
  LET i == Min(FreeIno(s))
      made == [s EXCEPT !.kind[i] = kind, !.links[i] = IF kind = "dir" THEN 1 ELSE 0,
                        !.up[i] = IF kind = "dir" THEN p ELSE 0]
  IN  Link(made, p, n, i)

-----------------------------------------------------------------------------
(* Descriptions and what they keep                                         *)

IsOpen(s, i) == \E id \in DOMAIN s.opens : s.opens[id].node = i

\* directory_is_referenced: by a description, or as the `..` of a removed child.
DirectoryIsReferenced(s, i) ==
  IsOpen(s, i) \/ \E child \in DOMAIN s.removed : s.removed[child] = i

\* is_private_entry: only the exact retained link, no other name of the inode.
IsPrivateEntry(s, p, n) ==
  LET i == At(s, p, n)
  IN  i \in DOMAIN s.orphans /\ s.orphans[i] = [parent |-> p, name |-> n]

Visible(s, p, n) == At(s, p, n) # 0 /\ ~IsPrivateEntry(s, p, n)

\* A path starts at the root or at an open directory, ...
Anchors(s) == {Root} \cup {i \in Dirs(s) : IsOpen(s, i)}

\* ... goes down visible names or up `..`, ...
Steps(s, i) ==
  {s.up[i]} \cup {At(s, i, n) : n \in {m \in DOMAIN s.entry[i] : Visible(s, i, m)}}
\* ... and may end in these directories.
Walk(s, start) ==
  LET reach[k \in 0..Cardinality(Ino)] ==
        IF k = 0 THEN start
        ELSE reach[k - 1] \cup {j \in UNION {Steps(s, i) : i \in reach[k - 1]} : IsDir(s, j)}
  IN  reach[Cardinality(Ino)]
Resolvable(s) == Walk(s, Anchors(s))

\* check_missing_directory: nothing is made in a removed directory.
MissingIn(s, p, n) == At(s, p, n) = 0 /\ p \notin DOMAIN s.removed

\* memory_identity_for: the identity of another description of the inode, or a new one.
MemoryIdentityFor(s, i, id) ==
  LET others == {o \in DOMAIN s.opens : s.opens[o].node = i}
  IN  IF others = {} THEN id ELSE s.opens[CHOOSE o \in others : TRUE].memory

\* opens.insert with the next open id.
InsertOpen(s, i) ==
  [s EXCEPT !.opens = With(@, s.next, [node |-> i, memory |-> MemoryIdentityFor(s, i, s.next)]),
            !.next = @ + 1]

\* create_retention_link: the first free private name; a failed link gives the count back.
FreeRetention(s, p, i) ==
  Retention(i, Min({k \in 0..MaxLinks : Retention(i, k) \notin DOMAIN s.entry[p]}))
CreateRetentionLink(s, p, i) ==
  LET r == Link(s, p, FreeRetention(s, p, i), i)
  IN  IF r.ok THEN r ELSE Error(SetLinks(r, i, s.links[i]))

-----------------------------------------------------------------------------
(* Removing a name                                                         *)

\* empty_directory_private_entries: all entries are registered private ones.
OnlyPrivate(s, i) == \A n \in DOMAIN s.entry[i] : IsPrivateEntry(s, i, n)

\* evacuate_directory_private_entries: each pin moves to the volume root.
Evacuate(s, dir) ==
  LET Move(n, acc) ==
        IF ~acc.ok THEN acc
        ELSE LET i == acc.entry[dir][n]
                 name == FreeRetention(acc, Root, i)
                 linked == CreateRetentionLink(acc, Root, i)
                 dropped == Unlink(linked, dir, n, i)
             IN  IF ~linked.ok THEN linked
                 ELSE IF ~dropped.ok THEN Error(Unlink(dropped, Root, name, i))
                 ELSE [dropped EXCEPT !.orphans[i] = [parent |-> Root, name |-> name]]
  IN  FoldSet(Move, [s EXCEPT !.ok = TRUE], DOMAIN s.entry[dir])

\* remove_replaced_directory: counts first, rolled back when the name stays.
RemoveReplacedDirectory(s, p, n, i) ==
  LET retained == DirectoryIsReferenced(s, i)
      fewer == SetLinks(s, p, s.links[p] - 1)
      one == SetLinks(fewer, i, 1)
      gone == IF retained THEN UnlinkRetained(one, p, n, i) ELSE Unlink(one, p, n, i)
  IN  IF ~fewer.ok THEN fewer
      ELSE IF ~one.ok THEN Error(SetLinks(one, p, s.links[p]))
      ELSE IF ~gone.ok
             THEN Error(SetLinks(SetLinks(gone, i, s.links[i]), p, s.links[p]))
      ELSE IF retained THEN [gone EXCEPT !.removed = With(@, i, p)]
      ELSE gone

\* unlink_entry of a directory.
RemoveDirectory(s, p, n, i) ==
  IF ~OnlyPrivate(s, i) THEN Error(s)
  ELSE LET timed == Touch(s)
           empty == Evacuate(timed, i)
       IN  IF ~timed.ok THEN timed
           ELSE Then(empty, LAMBDA t : RemoveReplacedDirectory(t, p, n, i))

\* (A mutant.) The last name of an open inode takes the inode along.
RemoveFileUnpinned(s, p, n, i) ==
  LET timed == Touch(s) IN Then(timed, LAMBDA t : Then(Unlink(t, p, n, i), Touch))

\* unlink_entry of anything else: the last name of an open inode leaves a pin in
\* the volume root, registered before the last fallible write.
RemoveFile(s, p, n, i) ==
  LET timed == Touch(s)
      retain == IsOpen(s, i) /\ s.links[i] = 1 /\ i \notin DOMAIN s.orphans
      name == FreeRetention(s, Root, i)
      linked == IF retain THEN CreateRetentionLink(timed, Root, i) ELSE timed
      gone == Unlink(linked, p, n, i)
      owned == IF retain
                 THEN [gone EXCEPT !.orphans = With(@, i, [parent |-> Root, name |-> name])]
                 ELSE gone
  IN  IF ~timed.ok \/ ~linked.ok THEN linked
      ELSE IF ~gone.ok
             THEN IF retain THEN Error(Unlink(gone, Root, name, i)) ELSE gone
      ELSE Touch(owned)

UnlinkEntry(s, p, n, directory) ==
  LET i == At(s, p, n)
  IN  IF IsDir(s, i) # directory THEN Error(s)
      ELSE IF directory THEN RemoveDirectory(s, p, n, i)
      ELSE RemoveFile(s, p, n, i)

-----------------------------------------------------------------------------
(* Renaming                                                                *)

\* (A mutant.) Only the new parent itself is compared with the source.
AtOrBelowParent(s, ancestor, i) == i = ancestor

\* directory_is_at_or_below: walk `..` from the new parent.
AtOrBelow(s, ancestor, i) ==
  LET above[k \in 0..Cardinality(Ino)] == IF k = 0 THEN i ELSE s.up[above[k - 1]]
  IN  \E k \in 0..Cardinality(Ino) : above[k] = ancestor

\* (A mutant.) A failed rename leaves the destination under the backup name.
RestoreNothing(s, p, n, dst) == Error(s)

\* restore_rename_destination: every failure is ignored.
RestoreDestination(s, p, n, dst) ==
  IF dst = 0 THEN Error(s)
  ELSE LET links == s.links[p]
           back == Link(s, p, n, dst)
           clean == Unlink(back, p, Backup, dst)
       IN  Error(IF ~back.ok THEN back
                 ELSE IF clean.ok /\ IsDir(s, dst) THEN SetLinks(clean, p, links)
                 ELSE clean)

\* stage_rename_destination: the directory to replace, under the backup name.
StageDestination(s, p, n, dst) ==
  IF dst = 0 THEN [s EXCEPT !.ok = TRUE]
  ELSE LET links == s.links[p]
           kept == Link(s, p, Backup, dst)
           gone == Unlink(kept, p, n, dst)
           even == SetLinks(gone, p, links)
       IN  IF ~kept.ok THEN kept
           ELSE IF ~gone.ok THEN Error(SetLinks(Unlink(gone, p, Backup, dst), p, links))
           ELSE IF ~even.ok THEN RestoreDestination(InMemory(even, p, links), p, n, dst)
           ELSE even

\* move_directory, within a parent and across parents.
MoveWithin(s, p, on, nn, src) ==
  LET links == s.links[p]
      linked == Link(s, p, nn, src)
      even == SetLinks(linked, p, links)
      gone == Unlink(even, p, on, src)
  IN  IF ~linked.ok THEN linked
      ELSE IF ~even.ok THEN Error(SetLinks(Unlink(even, p, nn, src), p, links))
      ELSE IF ~gone.ok THEN Error(Unlink(gone, p, nn, src))
      ELSE gone
MoveAcross(s, op, on, np, nn, src) ==
  LET linked == Link(s, np, nn, src)
      turned == SetParent(linked, src, np)
      gone == Unlink(turned, op, on, src)
      fewer == SetLinks(gone, op, s.links[op] - 1)
      Undo(t) == Error(SetLinks(Unlink(t, np, nn, src), np, s.links[np]))
  IN  IF ~linked.ok THEN linked
      ELSE IF ~turned.ok THEN Undo(turned)
      ELSE IF ~gone.ok THEN Undo(SetParent(gone, src, op))
      ELSE IF ~fewer.ok
             THEN Undo(SetParent(Link(InMemory(fewer, op, s.links[op] - 1), op, on, src), src, op))
      ELSE fewer

RenameDirectory(s, op, on, np, nn, src, dst) ==
  LET staged == StageDestination(s, np, nn, dst)
      moved == IF op = np THEN MoveWithin(staged, np, on, nn, src)
               ELSE MoveAcross(staged, op, on, np, nn, src)
      done == IF dst = 0 THEN moved ELSE RemoveReplacedDirectory(moved, np, Backup, dst)
  IN  IF ~staged.ok THEN staged
      ELSE IF ~moved.ok THEN RestoreDestination(moved, np, nn, dst)
      ELSE Then(done, Touch)

RenameFile(s, op, on, np, nn, src, dst) ==
  LET kept == IF dst = 0 THEN [s EXCEPT !.ok = TRUE] ELSE Link(s, np, Backup, dst)
      gone == IF dst = 0 THEN kept ELSE Unlink(kept, np, nn, dst)
      linked == Link(gone, np, nn, src)
      moved == Unlink(linked, op, on, src)
      retain == IsOpen(s, dst) /\ s.links[dst] = 1 /\ dst \notin DOMAIN s.orphans
      settled ==
        IF dst = 0 THEN moved
        ELSE IF retain
               THEN [moved EXCEPT !.orphans = With(@, dst, [parent |-> np, name |-> Backup])]
        ELSE Unlink(moved, np, Backup, dst)
  IN  IF ~kept.ok THEN kept
      ELSE IF ~gone.ok THEN Error(Unlink(gone, np, Backup, dst))
      ELSE IF ~linked.ok THEN RestoreDestination(linked, np, nn, dst)
      ELSE IF ~moved.ok THEN RestoreDestination(Unlink(moved, np, nn, src), np, nn, dst)
      ELSE Then(settled, Touch)

\* rename_at with prepare_rename_times: what is refused, then evacuation, then the move.
Rename(s, op, on, np, nn) ==
  LET src == At(s, op, on)
      dst == At(s, np, nn)
      dir == IsDir(s, src)
      ready == Then(Touch(s), LAMBDA t : IF dir /\ dst # 0 THEN Evacuate(t, dst) ELSE t)
  IN  IF src = dst THEN s
      ELSE IF \/ dst # 0 /\ dir # IsDir(s, dst)
              \/ dir /\ AtOrBelow(s, src, np)
              \/ dir /\ dst # 0 /\ ~OnlyPrivate(s, dst)
             THEN Error(s)
      ELSE Then(ready, LAMBDA t : IF dir THEN RenameDirectory(t, op, on, np, nn, src, dst)
                                  ELSE RenameFile(t, op, on, np, nn, src, dst))

-----------------------------------------------------------------------------
(* Closing                                                                 *)

\* collect_removed_directories: up the chain of removed parents; a failed
\* reclamation keeps the record.
CollectRemoved(s, i) ==
  LET Stays(t, j) == DirectoryIsReferenced(t, j) \/ j \notin DOMAIN t.removed \/ ~t.ok
      Reclaim(t, j) ==
        IF Fails(t) THEN Failed(t)
        ELSE [Reclaimed(t, j) EXCEPT !.removed = Without(@, j), !.fuse = Burn(t)]
      up[k \in 0..Cardinality(Ino)] ==
        IF k = 0 THEN [at |-> i, s |-> s]
        ELSE LET last == up[k - 1]
             IN  IF Stays(last.s, last.at) THEN last
                 ELSE [at |-> last.s.removed[last.at], s |-> Reclaim(last.s, last.at)]
  IN  up[Cardinality(Ino)].s

\* close: a failure to drop the pin keeps the description.
CloseDescription(s, id) ==
  LET i == s.opens[id].node
      last == {o \in DOMAIN s.opens : s.opens[o].node = i} = {id}
      Shut(t) == [t EXCEPT !.opens = Without(@, id)]
      pin == s.orphans[i]
      gone == Unlink(s, pin.parent, pin.name, i)
  IN  IF i \in DOMAIN s.removed THEN CollectRemoved(Shut(s), i)
      ELSE IF ~last \/ i \notin DOMAIN s.orphans THEN Shut(s)
      ELSE Then(gone, LAMBDA t : Shut([t EXCEPT !.orphans = Without(@, i)]))

-----------------------------------------------------------------------------
(* Requests.  A request is served whole; a fault is one storage call of it *)
(* that fails.                                                             *)

Begin(fuse) == [w EXCEPT !.fuse = fuse, !.ok = TRUE]

\* Run is the request, from the volume it finds.  Any of the storage calls it makes
\* when none fails can be the one that does.
Serve(kind, Run(_)) ==
  /\ kind \in load.kinds
  /\ \E calls \in {IF faults > 0 THEN MaxFuse - Run(Begin(MaxFuse)).fuse ELSE 0} :
       \E fuse \in 0..calls : \E r \in {Run(Begin(fuse))} :
         /\ \A i \in Ino : r.links[i] <= MaxLinks
         /\ w' = [r EXCEPT !.fuse = 0, !.ok = TRUE]
         /\ faults' = IF fuse = 0 THEN faults ELSE faults - 1
  /\ UNCHANGED load

\* open_at of what is there, a directory or a FIFO's and a socket's metadata
\* included; `.` and `..` of an open directory lead to directories without a name.
OpenAt ==
  /\ w.next <= load.opens
  /\ \E i \in Resolvable(w) \cup
         {At(w, p, n) : <<p, n>> \in {q \in Resolvable(w) \X Names : Visible(w, q[1], q[2])}} :
       Serve("open", LAMBDA s : InsertOpen(s, i))

\* open_at with CREATE: create_regular_at, then the description.
CreateRegularAt ==
  /\ w.next <= load.opens /\ FreeIno(w) # {}
  /\ \E p \in Resolvable(w), n \in Names :
       /\ MissingIn(w, p, n)
       /\ Serve("create", LAMBDA s : Then(NewEntry(s, p, n, "file"),
                                          LAMBDA t : InsertOpen(t, At(t, p, n))))

\* create_special_at_inner without a description: a name.
CreateSpecialAt ==
  /\ FreeIno(w) # {}
  /\ \E p \in Resolvable(w), n \in Names :
       MissingIn(w, p, n) /\ Serve("create", LAMBDA s : NewEntry(s, p, n, "file"))

SymlinkAt ==
  /\ FreeIno(w) # {}
  /\ \E p \in Resolvable(w), n \in Names :
       MissingIn(w, p, n) /\ Serve("symlink", LAMBDA s : NewEntry(s, p, n, "file"))

MkdirAt ==
  /\ FreeIno(w) # {}
  /\ \E p \in Resolvable(w), n \in Names :
       MissingIn(w, p, n) /\ Serve("mkdir", LAMBDA s : NewEntry(s, p, n, "dir"))

LinkAt ==
  \E p, q \in Resolvable(w), m, n \in Names :
    /\ Visible(w, p, m) /\ ~IsDir(w, At(w, p, m)) /\ MissingIn(w, q, n)
    /\ Serve("link", LAMBDA s : Link(s, q, n, At(s, p, m)))

UnlinkAt ==
  \E p \in Resolvable(w), n \in Names, directory \in BOOLEAN :
    Visible(w, p, n) /\ Serve("unlink", LAMBDA s : UnlinkEntry(s, p, n, directory))

RenameAt ==
  \E p, q \in Resolvable(w), m, n \in Names :
    /\ Visible(w, p, m)
    /\ Visible(w, q, n) \/ MissingIn(w, q, n)
    /\ Serve("rename", LAMBDA s : Rename(s, p, m, q, n))

\* The requests by absolute path, from before anchors: the same work below the root.
CreatePath ==
  /\ FreeIno(w) # {}
  /\ \E p \in Walk(w, {Root}), n \in Names, kind \in {"file", "dir"} :
       MissingIn(w, p, n) /\ Serve("paths", LAMBDA s : NewEntry(s, p, n, kind))

SymlinkPath ==
  /\ FreeIno(w) # {}
  /\ \E p \in Walk(w, {Root}), n \in Names :
       MissingIn(w, p, n) /\ Serve("paths", LAMBDA s : NewEntry(s, p, n, "file"))

UnlinkPath ==
  \E p \in Walk(w, {Root}), n \in Names, directory \in BOOLEAN :
    Visible(w, p, n) /\ Serve("paths", LAMBDA s : UnlinkEntry(s, p, n, directory))

RenamePath ==
  \E p, q \in Walk(w, {Root}), m, n \in Names :
    /\ Visible(w, p, m)
    /\ Visible(w, q, n) \/ MissingIn(w, q, n)
    /\ Serve("paths", LAMBDA s : Rename(s, p, m, q, n))

ProviderClose ==
  \E id \in DOMAIN w.opens :
    Serve("close", LAMBDA s : CloseDescription(s, id))

Init ==
  /\ \E name \in DOMAIN Workload :
       w = Workload[name].start /\ load = [kinds |-> Workload[name].kinds, opens |-> Workload[name].opens]
  /\ faults = MaxFaults

\* The requests of the control endpoint that change names, by anchored path and by
\* absolute path.
NameRequests == MkdirAt \/ CreateSpecialAt \/ UnlinkAt \/ RenameAt \/ LinkAt \/ SymlinkAt
PathRequests == CreatePath \/ SymlinkPath \/ UnlinkPath \/ RenamePath

Next == OpenAt \/ CreateRegularAt \/ ProviderClose \/ NameRequests \/ PathRequests

Spec == Init /\ [][Next]_vars

-----------------------------------------------------------------------------
(* Properties                                                              *)

EntriesOf(s, i) ==
  {<<p, n>> \in UNION {{d} \X DOMAIN s.entry[d] : d \in Dirs(s)} : s.entry[p][n] = i}
Children(s, p) == {n \in DOMAIN s.entry[p] : IsDir(s, s.entry[p][n])}

\* What a link count should be: the names, and for a directory `.` and its children's `..`.
Owed(s, i) ==
  IF ~IsDir(s, i) THEN Cardinality(EntriesOf(s, i))
  ELSE IF i \in DOMAIN s.removed THEN 0
  ELSE 2 + Cardinality(Children(s, i))

HangsFromRoot(s, i) ==
  LET above[k \in 0..Cardinality(Ino)] == IF k = 0 THEN i ELSE s.up[above[k - 1]]
  IN  above[Cardinality(Ino)] = Root

\* A description keeps its inode whatever happens to the names: never freed, and
\* without a public name exactly one thing holds it, which clients cannot see.  A
\* removed directory is held with the `..` a walk from it uses.  Two descriptions
\* share a memory object exactly when they are of one inode.
DescriptionsHold ==
  /\ \A id \in DOMAIN w.opens : w.kind[w.opens[id].node] # "free"
  /\ \A i \in DOMAIN w.orphans :
       /\ IsOpen(w, i) /\ ~IsDir(w, i)
       /\ At(w, w.orphans[i].parent, w.orphans[i].name) = i
  /\ \A i \in DOMAIN w.removed :
       /\ IsDir(w, i) /\ w.entry[i] = NoEntries /\ w.links[i] = 0
       /\ w.up[i] = w.removed[i] /\ IsDir(w, w.up[i])
  /\ \A a, b \in DOMAIN w.opens :
       (w.opens[a].memory = w.opens[b].memory) = (w.opens[a].node = w.opens[b].node)

\* The volume stays a tree: each directory has one name, in the directory its
\* `..` says, and hangs from the root; no entry leads to a freed inode, and no link
\* count is below the names it stands for, so that none is freed too early.
TreeSound ==
  /\ \A p \in Dirs(w) : \A n \in DOMAIN w.entry[p] : w.kind[w.entry[p][n]] # "free"
  /\ \A i \in Ino : w.kind[i] # "free" => w.links[i] >= Owed(w, i)
  /\ \A i \in Resolvable(w) \ {Root} :
       \/ i \in DOMAIN w.removed /\ EntriesOf(w, i) = {}
       \/ /\ \E n \in DOMAIN w.entry[w.up[i]] : EntriesOf(w, i) = {<<w.up[i], n>>}
          /\ HangsFromRoot(w, i)

\* rename is all or nothing: whichever storage call fails, clients see every name
\* as it was or every name as renamed, and see it renamed if it succeeds.  (Asked
\* while the behaviour's budget of failures has one left for the rename.)
Seen(s, dirs) ==
  [q \in {r \in dirs \X Names : Visible(s, r[1], r[2])} |-> At(s, q[1], q[2])]
RenameAtomic ==
  LET dirs == Resolvable(w)
      before == Seen(w, dirs)
      Run(fuse, p, m, q, n) == Rename([w EXCEPT !.fuse = fuse], p, m, q, n)
  IN  faults > 0 => \A p, q \in dirs, m, n \in Names :
        Visible(w, p, m) /\ (Visible(w, q, n) \/ MissingIn(w, q, n)) =>
          LET calls == MaxFuse - Run(MaxFuse, p, m, q, n).fuse
              after == IF At(w, p, m) = At(w, q, n) THEN before
                       ELSE With(Without(before, <<p, m>>), <<q, n>>, At(w, p, m))
          IN  \A fuse \in 0..calls :
                LET r == Run(fuse, p, m, q, n)
                IN  Seen(r, dirs) \in (IF r.ok THEN {after} ELSE {before, after})

\* Without storage failures no count is off: what is removed is reclaimed.
CountsExact == \A i \in Ino : w.kind[i] # "free" => w.links[i] = Owed(w, i)
=============================================================================
