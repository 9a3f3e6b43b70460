-------------------------------- MODULE FileData --------------------------------
(***************************************************************************)
(* The bytes of one regular file in the filesystem service: the inode on   *)
(* disk, the copies of it that every open description caches, positions    *)
(* and status flags, the set-ID bits, and the admission of resizes against *)
(* the kernel's memory mappings of the file (service.rs, data_writes.rs,   *)
(* data_reads.rs, memory_updates.rs, admission_ipc.rs, main.rs).           *)
(*                                                                         *)
(* Several descriptions share the inode; a write goes through one of the   *)
(* cached copies and stores it.  Storage may fail at each call, so a       *)
(* request ends with one of the outcomes below.                            *)
(***************************************************************************)
EXTENDS Naturals, Sequences, FiniteSets, FiniteSetsExt, Functions

CONSTANTS
  Client,     \* holders of resize requests and of handles
  Val,        \* what a byte may hold; 0 is a hole
  MaxLen,     \* bound: the length of the file
  MaxOpens,   \* bound: descriptions opened in a behaviour, at most
  Workload    \* which requests come, by which clients, to how many descriptions opened how

VARIABLES
  disk,       \* [data, setid]: the inode and its blocks
  opens,      \* open id -> [offset, append, inode, memory]
  holders,    \* open id -> clients with a native reference to it
  releases,   \* open ids whose OP_RELEASE is on its way
  mem,        \* [len, quarantined, queue]: the kernel's side of the mappings
  want,       \* client -> the resize it waits to retry
  next,       \* next_open_id
  dirty,      \* whether bytes changed since the mode was last set
  load        \* the workload of this behaviour

vars == <<disk, opens, holders, releases, mem, want, next, dirty, load>>

File == INSTANCE ByteFile WITH
  Id <- 1..MaxOpens,
  bytes <- disk.data,
  position <- [i \in DOMAIN opens |-> opens[i].offset],
  append <- [i \in DOMAIN opens |-> opens[i].append]

NoTicket == 0
Idle == [kind |-> "none", len |-> 0, ticket |-> NoTicket]
Tickets == 1..(2 * Cardinality(Client))
Inodes == [len : 0..MaxLen, setid : BOOLEAN]

With(f, k, v) == [x \in DOMAIN f \cup {k} |-> IF x = k THEN v ELSE f[x]]
Without(f, k) == Restrict(f, DOMAIN f \ {k})

TypeOK ==
  /\ disk.data \in Seq(Val) /\ Len(disk.data) <= MaxLen /\ disk.setid \in BOOLEAN
  /\ \A i \in DOMAIN opens : i < next /\ opens[i].inode \in Inodes
  /\ DOMAIN holders = DOMAIN opens /\ releases \subseteq DOMAIN opens
  /\ \A c \in Client : want[c].ticket \in Tickets \cup {NoTicket}

-----------------------------------------------------------------------------
(* Storage                                                                 *)

\* Inode::read.
OnDisk == [len |-> Len(disk.data), setid |-> disk.setid]

\* (A mutant.) The description's own copy is used as it is.
RefreshNothing(id) == opens[id].inode

\* refresh_provider_file: another description may have changed the inode.
RefreshProviderFile(id) == OnDisk

\* Bytes stored through an inode copy: what the copy does not know is lost.
Stored(inode, at, data) == File!Put(File!Resized(disk.data, inode.len), at, data)
Prefix(data, k) == SubSeq(data, 1, k)

\* (A mutant.) The set-ID bits go only with a complete write.
WrittenInFull(inode, at, data, k) ==
  [data |-> IF k = 0 THEN disk.data ELSE Stored(inode, at, Prefix(data, k)),
   setid |-> disk.setid /\ k < Len(data)]

\* data_writes::write through positioned_io::transfer: the set-ID bits go first, in
\* a write of their own; then k bytes reach the disk, none if that write fails.
Written(inode, at, data, k) ==
  [data |-> IF k = 0 THEN disk.data ELSE Stored(inode, at, Prefix(data, k)),
   setid |-> FALSE]
WriteOutcomes(inode, at, data) ==
  {Written(inode, at, data, k) : k \in 0..Len(data)} \cup {disk}

\* file.truncate in truncate_scoped_inode: the set-ID bits go first when the length
\* changes; a failure may leave the retained tail zeroed.
Cleared(n) == disk.setid /\ n = Len(disk.data)
ResizeFailures(n) ==
  {disk} \cup {[data |-> d, setid |-> Cleared(n)] : d \in {disk.data, File!Zeroed(disk.data, n)}}
Resize(n) == [data |-> File!Resized(disk.data, n), setid |-> Cleared(n)]

\* All copies of the inode follow.
Publish(os, d) ==
  [i \in DOMAIN os |-> [os[i] EXCEPT !.inode = [len |-> Len(d.data), setid |-> d.setid]]]

Stamp(d) == dirty' = (dirty \/ d.data # disk.data)

-----------------------------------------------------------------------------
(* The kernel's admission queue for the mapped file (external)             *)

Queued(q) == {q[k].ticket : k \in DOMAIN q}
FirstOf(q, t) ==
  \E k \in DOMAIN q :
    q[k].ticket = t /\ \A j \in 1..(k - 1) : q[j].memory # q[k].memory
Drop(q, t) == SelectSeq(q, LAMBDA e : e.ticket # t)
ScopeOf(q, t) == {q[k].memory : k \in {j \in DOMAIN q : q[j].ticket = t}}

\* create_provider_memory_admission: a position behind all others.
Fresh(q) == Min(Tickets \ (Queued(q) \cup {want[c].ticket : c \in Client}))
Enqueue(q, identity) == Append(q, [ticket |-> Fresh(q), memory |-> identity])

\* prepare_provider_memory_update_admitted: what the kernel may answer.  A ticket
\* that is not first waits; a first one may find the mapping busy, or fail after
\* it was consumed; a ticket of another object is refused.
KernelPrepare(q, t, identity) ==
  IF identity \notin ScopeOf(q, t) THEN {[status |-> 13, queue |-> q]}
  ELSE {[status |-> 11, queue |-> q], [status |-> 5, queue |-> q]} \cup
       (IF FirstOf(q, t)
          THEN {[status |-> 11, queue |-> Drop(q, t)]} \cup
               (IF mem.quarantined THEN {} ELSE {[status |-> 0, queue |-> Drop(q, t)]})
          ELSE {})

\* (A mutant.) A refused ticket is taken for one that still waits.
AdmissionNeverConsumed(q, t) == FALSE

\* prepare_admitted: never hand back a consumed position, rescope a ticket of
\* another object.
AdmissionConsumed(q, t) == t \notin Queued(q)
PrepareAdmitted(incoming, identity) ==
  LET q0 == IF incoming = NoTicket THEN Enqueue(mem.queue, identity) ELSE mem.queue
      t0 == IF incoming = NoTicket THEN Fresh(mem.queue) ELSE incoming
      Wait(q, t) == [result |-> "wait", ticket |-> t, queue |-> q]
      Answer(r) ==
        IF r.status = 0 THEN [result |-> "ready", ticket |-> NoTicket, queue |-> r.queue]
        ELSE IF r.status = 11 /\ ~AdmissionConsumed(r.queue, t0) THEN Wait(r.queue, t0)
        ELSE IF r.status = 11 \/ (r.status = 13 /\ incoming # NoTicket)
               THEN Wait(Enqueue(r.queue, identity), Fresh(r.queue))
        ELSE [result |-> "error", ticket |-> NoTicket, queue |-> Drop(r.queue, t0)]
  IN  {Answer(r) : r \in KernelPrepare(q0, t0, identity)}

\* prepared.begin(): busy releases the transaction and queues a new position.
Begin(p, identity) ==
  IF p.result # "ready" THEN {p}
  ELSE {p, [p EXCEPT !.result = "error"],
        [result |-> "wait", ticket |-> Fresh(p.queue), queue |-> Enqueue(p.queue, identity)]}

-----------------------------------------------------------------------------
(* Opening and closing                                                     *)

\* memory_identity_for: a description joins the object of the others.
MemoryIdentityFor(id) ==
  IF DOMAIN opens = {} THEN id ELSE opens[CHOOSE i \in DOMAIN opens : TRUE].memory

Insert(os, id, append, d) ==
  With(os, id, [offset |-> 0, append |-> append, memory |-> MemoryIdentityFor(id),
                inode |-> [len |-> Len(d.data), setid |-> d.setid]])

\* publish_native and the reply: creation of the object may fail, the reply may be
\* lost; the server's own reference is closed, so the last reference is the client's.
Publication == {"failed", "lost", "delivered"}
Opened(c, os, append, d, outcome) ==
  /\ next' = next + 1
  /\ opens' = IF outcome = "failed" THEN os ELSE Insert(os, next, append, d)
  /\ holders' = (IF outcome = "failed" THEN holders
                 ELSE With(holders, next, IF outcome = "lost" THEN {} ELSE {c}))
  /\ releases' = IF outcome = "lost" THEN releases \cup {next} ELSE releases

\* A first description is a new memory object, mapped at the length on disk.
Mapped(m, d) == IF DOMAIN opens = {} THEN [m EXCEPT !.len = Len(d.data), !.quarantined = FALSE] ELSE m

\* open_at without TRUNCATE.
OpenAt(c) ==
  /\ next <= load.opens /\ want[c] = Idle
  /\ \E append \in load.append, outcome \in Publication : Opened(c, opens, append, disk, outcome)
  /\ mem' = Mapped(mem, disk)
  /\ UNCHANGED <<disk, want, dirty>>

\* A client drops or duplicates its reference; the last one queues the release.
CloseHandle(c) ==
  \E id \in DOMAIN opens :
    /\ c \in holders[id]
    /\ holders' = [holders EXCEPT ![id] = @ \ {c}]
    /\ releases' = IF holders[id] = {c} THEN releases \cup {id} ELSE releases
    /\ UNCHANGED <<disk, opens, mem, want, next, dirty>>
ShareHandle(c, d) ==
  \E id \in DOMAIN opens :
    /\ c \in holders[id]
    /\ holders' = [holders EXCEPT ![id] = @ \cup {d}]
    /\ UNCHANGED <<disk, opens, releases, mem, want, next, dirty>>

\* handle_provider_request, OP_RELEASE.
ProviderRelease ==
  \E id \in releases :
    /\ opens' = Without(opens, id) /\ holders' = Without(holders, id)
    /\ releases' = releases \ {id}
    /\ UNCHANGED <<disk, mem, want, next, dirty>>

-----------------------------------------------------------------------------
(* Reading and writing                                                     *)

Users(id) == holders[id] # {}
Keep == UNCHANGED <<holders, releases, want, next>>

\* A native write extends the kernel's own view of the length (external).
Extended(d) == mem' = [mem EXCEPT !.len = IF Len(d.data) > @ THEN Len(d.data) ELSE @]

\* provider_write_range: append selects the current end; `end` bounds the range.
ProviderWrite(id, data, end) ==
  LET inode == RefreshProviderFile(id)
      at == IF opens[id].append THEN inode.len ELSE opens[id].offset
      length == IF end - at < Len(data) THEN end - at ELSE Len(data)
  IN  /\ Users(id) /\ data # <<>>
      /\ at < end
      /\ \E d \in WriteOutcomes(inode, at, Prefix(data, length)) :
           /\ disk' = d /\ Extended(d) /\ Stamp(d)
           /\ \E k \in 0..length :
                /\ IF k = 0 THEN d.data = disk.data ELSE d = Written(inode, at, data, k)
                /\ opens' = [opens EXCEPT ![id] =
                     [@ EXCEPT !.offset = IF k = 0 THEN @ ELSE at + k,
                               !.inode = [len |-> Len(d.data), setid |-> d.setid]]]
      /\ Keep

\* provider_write_at and OP_WRITE: the position stays.
ProviderWriteAt(id, at, data) ==
  LET inode == RefreshProviderFile(id)
  IN  /\ Users(id) /\ data # <<>> /\ at + Len(data) <= MaxLen
      /\ \E d \in WriteOutcomes(inode, at, data) :
           /\ disk' = d /\ Extended(d) /\ Stamp(d)
           /\ opens' = [opens EXCEPT ![id].inode = [len |-> Len(d.data), setid |-> d.setid]]
      /\ Keep

\* provider_read, _with_offset and _into by data_reads::read: the access time is
\* committed before the position moves, so a failure moves nothing.
ProviderRead(id, n) ==
  LET inode == RefreshProviderFile(id)
      rest == IF opens[id].offset < inode.len THEN inode.len - opens[id].offset ELSE 0
  IN  /\ Users(id)
      /\ \E ok \in BOOLEAN :
           opens' = [opens EXCEPT ![id] =
             [@ EXCEPT !.inode = inode,
                       !.offset = IF ~ok THEN @ ELSE @ + (IF n < rest THEN n ELSE rest)]]
      /\ Keep /\ UNCHANGED <<disk, mem, dirty>>

\* provider_read_at, OP_READ and the length query: only the copy is refreshed.
ProviderReadAt(id) ==
  /\ Users(id)
  /\ opens' = [opens EXCEPT ![id].inode = RefreshProviderFile(id)]
  /\ Keep /\ UNCHANGED <<disk, mem, dirty>>

\* provider_seek: SEEK_END uses the inode on disk.
ProviderSeek(id, basis, delta) ==
  LET base == CASE basis = "start" -> 0
                [] basis = "current" -> opens[id].offset
                [] basis = "end" -> OnDisk.len
  IN  /\ Users(id) /\ base + delta <= MaxLen
      /\ opens' = [opens EXCEPT ![id].offset = base + delta]
      /\ Keep /\ UNCHANGED <<disk, mem, dirty>>

\* update_flags_handle, set_flags_handle and the provider's description flags.
UpdateFlags(id) ==
  /\ Users(id)
  /\ \E a \in BOOLEAN : opens' = [opens EXCEPT ![id].append = a]
  /\ Keep /\ UNCHANGED <<disk, mem, dirty>>

\* The mode, the owner or the times of the inode: read afresh, stored and copied to
\* every description.  By path and by handle.
Attributes(setid) ==
  LET d == [disk EXCEPT !.setid = setid]
  IN  disk' = d /\ opens' = Publish(opens, d) /\ Keep /\ UNCHANGED mem
ChmodScopedInode(setid) == Attributes(setid) /\ dirty' = FALSE
ChmodAt == \E setid \in BOOLEAN : ChmodScopedInode(setid)
ChmodHandle(id) == Users(id) /\ \E setid \in BOOLEAN : ChmodScopedInode(setid)
ChownScopedInode(clear) == Attributes(disk.setid /\ ~clear) /\ UNCHANGED dirty
ChownAt == \E clear \in BOOLEAN : ChownScopedInode(clear)
ChownHandle(id) == Users(id) /\ \E clear \in BOOLEAN : ChownScopedInode(clear)
SetInodeTimes == Attributes(disk.setid) /\ UNCHANGED dirty
SetTimesAt == SetInodeTimes
SetTimesHandle(id) == Users(id) /\ SetInodeTimes

\* set_attr, by absolute path: the copies of the descriptions stay behind.
SetAttr ==
  \E setid \in BOOLEAN :
    /\ disk' = [disk EXCEPT !.setid = setid] /\ dirty' = FALSE
    /\ Keep /\ UNCHANGED <<opens, mem>>

-----------------------------------------------------------------------------
(* Resizing                                                                *)

\* prepare_memory_update and begin, for the descriptions' memory object if there
\* is one: a request without an admission envelope fails where others wait.
Admission(admitted, incoming) ==
  LET identity == MemoryIdentityFor(next)
      done == [result |-> "ready", ticket |-> NoTicket, queue |-> mem.queue]
  IN  IF DOMAIN opens = {} THEN {done}
      ELSE IF ~admitted
             THEN {[done EXCEPT !.result = "error"]} \cup
                  (IF mem.quarantined \/ mem.queue # <<>> THEN {} ELSE {done})
      ELSE UNION {Begin(p, identity) : p \in PrepareAdmitted(incoming, identity)}

\* close_attached_handles after the reply: the request's own reference to its
\* ticket goes, and with it the position unless the reply carried it on.
Remaining(p, incoming) ==
  IF p.ticket = incoming THEN p.queue ELSE Drop(p.queue, incoming)

\* truncate_scoped_inode after BEGIN: the backing once, every copy, publish; what
\* fails quarantines the mappings.
Succeeds(c, kind, n, q) ==
  LET d == Resize(n)
  IN  /\ disk' = d /\ Stamp(d)
      /\ IF kind = "open"
           THEN \E append \in load.append, outcome \in Publication :
                  Opened(c, Publish(opens, d), append, d, outcome)
           ELSE opens' = Publish(opens, d) /\ UNCHANGED <<holders, releases, next>>
      /\ mem' = [Mapped(mem, d) EXCEPT !.queue = q, !.len = n]
Fails(n, q) ==
  \E d \in ResizeFailures(n) \cup {Resize(n)} :
    /\ disk' = d /\ Stamp(d)
    /\ mem' = [mem EXCEPT !.queue = q, !.quarantined = DOMAIN opens # {}]
    /\ UNCHANGED <<opens, holders, releases, next>>

\* truncate_scoped_inode: nothing is stored before the admission is through.
TruncateScopedInode(c, kind, n, p, q) ==
  IF p.result = "ready" THEN Succeeds(c, kind, n, q) \/ Fails(n, q)
  ELSE mem' = [mem EXCEPT !.queue = q]
       /\ UNCHANGED <<disk, opens, holders, releases, next, dirty>>

\* with_memory_admission: the retry position belongs to this request alone.
Waiting(kind, n, p) ==
  IF p.result = "wait" THEN [kind |-> kind, len |-> n, ticket |-> p.ticket] ELSE Idle

\* truncate_at, truncate_handle and open_at with TRUNCATE, up to
\* reply_admitted_mutation: a client waits on exactly what the reply carried.
Mutation(c, kind, n, admitted, incoming) ==
  \E p \in Admission(admitted, incoming) :
    /\ want' = [want EXCEPT ![c] = Waiting(kind, n, p)]
    /\ TruncateScopedInode(c, kind, n, p, Remaining(p, incoming))

TruncateAt(c) ==
  /\ want[c] = Idle
  /\ \E n \in 0..MaxLen, admitted \in BOOLEAN : Mutation(c, "resize", n, admitted, NoTicket)
TruncateHandle(c) ==
  /\ want[c] = Idle /\ \E id \in DOMAIN opens : c \in holders[id]
  /\ \E n \in 0..MaxLen, admitted \in BOOLEAN : Mutation(c, "resize", n, admitted, NoTicket)
OpenTruncate(c) ==
  /\ want[c] = Idle /\ next <= load.opens
  /\ \E admitted \in BOOLEAN : Mutation(c, "open", 0, admitted, NoTicket)

\* The client retries when its position is first, with its ticket attached.
Retry(c) ==
  /\ want[c] # Idle /\ FirstOf(mem.queue, want[c].ticket)
  /\ want[c].kind = "open" => next <= load.opens
  /\ Mutation(c, want[c].kind, want[c].len, TRUE, want[c].ticket)

-----------------------------------------------------------------------------
Init ==
  /\ disk = [data |-> <<>>, setid |-> FALSE]
  /\ opens = [i \in {} |-> 0] /\ holders = [i \in {} |-> {}] /\ releases = {}
  /\ mem = [len |-> 0, quarantined |-> FALSE, queue |-> <<>>]
  /\ want = [c \in Client |-> Idle] /\ next = 1 /\ dirty = FALSE
  /\ \E name \in DOMAIN Workload : load = Workload[name]

Bytes == UNION {[1..n -> Val \ {0}] : n \in 1..2}
Names == \E c \in load.clients : OpenAt(c) \/ CloseHandle(c)
Sharing == "share" \in load.kinds /\ \E c, d \in load.clients : ShareHandle(c, d)
Modes ==
  /\ "modes" \in load.kinds
  /\ \/ ChmodAt \/ ChownAt \/ SetTimesAt \/ SetAttr
     \/ \E id \in DOMAIN opens : ChmodHandle(id) \/ ChownHandle(id) \/ SetTimesHandle(id)
Resizes ==
  /\ "resize" \in load.kinds
  /\ \E c \in load.clients : TruncateAt(c) \/ TruncateHandle(c) \/ OpenTruncate(c) \/ Retry(c)
Transfers ==
  \E id \in DOMAIN opens :
    \/ /\ "write" \in load.kinds
       /\ \/ \E data \in Bytes, end \in 1..MaxLen : ProviderWrite(id, data, end)
          \/ \E data \in Bytes, at \in 0..MaxLen : ProviderWriteAt(id, at, data)
    \/ /\ "seek" \in load.kinds
       /\ \/ UpdateFlags(id) \/ ProviderReadAt(id)
          \/ \E n \in 1..MaxLen : ProviderRead(id, n)
          \/ \E basis \in {"start", "current", "end"}, delta \in 0..1 :
               ProviderSeek(id, basis, delta)

Next ==
  /\ Names \/ ProviderRelease \/ Sharing \/ Modes \/ Resizes \/ Transfers
  /\ UNCHANGED load

Spec == Init /\ [][Next]_vars

-----------------------------------------------------------------------------
(* Properties                                                              *)

\* Of every step (File!AInit holds at first): many descriptions with cached inodes, partial and failing storage calls: to its
\* users it is one file with positions (data_reads.rs, data_writes.rs, service.rs).
ImplementsByteFile == [File!ANext]_(File!bvars)

\* Data never changes under set-ID bits: they are gone from the disk before the
\* first byte changes, whatever fails afterwards.
SetIdDropped == dirty => ~disk.setid

\* The kernel's mappings have the file's length, or are quarantined; the admission
\* queue holds exactly the positions some client waits on, so that no client
\* waits on a closed position and no leaked one blocks the queue; and a description
\* lives exactly as long as a native reference or its release is outstanding.
AliasesAgree ==
  /\ DOMAIN opens # {} => mem.quarantined \/ mem.len = Len(disk.data)
  /\ Queued(mem.queue) = {want[c].ticket : c \in {b \in Client : want[b] # Idle}}
  /\ Cardinality(Queued(mem.queue)) = Cardinality({c \in Client : want[c] # Idle})
  /\ \A id \in DOMAIN opens : (holders[id] = {}) = (id \in releases)
=============================================================================
