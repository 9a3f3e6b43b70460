----------------------------- MODULE SharedObjects -----------------------------
(***************************************************************************)
(* Shared memory and named semaphores of posix.service: the two name       *)
(* spaces (posix/src/shared_memory.rs, named_semaphore.rs), the open       *)
(* descriptions of shared memory (shared_memory_file.rs) and the provider  *)
(* thread that serves them (shared_memory_provider.rs).  The control       *)
(* thread opens and unlinks names, the provider thread reads, writes,      *)
(* resizes, maps and releases; a description is opened and bound to its    *)
(* native object under the provider's lock.                                *)
(*                                                                         *)
(* refs counts the native references to a backing object that exist: the   *)
(* name's, one per description, and those clients hold.  The kernel frees  *)
(* an object with its last reference.  Closing a reference can fail, and   *)
(* then leaves it.  Bounded requests carry the file-size limit of their    *)
(* client, the others have none; MaxOffset stands for i64::MAX.            *)
(***************************************************************************)
EXTENDS Naturals, FiniteSets, FiniteSetsExt, Functions

CONSTANTS ShmName, SemName,   \* names of the two name spaces
          Limit,              \* the file-size limit bounded requests carry
          MaxOffset,          \* the largest file offset, above Limit
          MaxObjects,         \* bound on backing objects ever created
          MaxDescriptions,    \* bound on descriptions ever opened
          MaxClientRefs       \* bound on the references clients hold to one object

ASSUME SharedAssumption == Limit \in Nat /\ MaxOffset \in Nat

VARIABLES backing,      \* live backing object -> length
          refs,         \* live backing object -> native references to it
          shm,          \* shared-memory name -> backing; the inode is the backing's id
          sem,          \* semaphore name -> backing
          links,        \* shared-memory inode -> Metadata.links
          open,         \* description -> [backing, writable, cursor, append, held]
          lent,         \* backing -> references delegated to clients
          nextObject, nextOpen

sharedVars == <<backing, refs, shm, sem, links, open, lent, nextObject, nextOpen>>

SharedInit ==
    /\ backing = <<>> /\ refs = <<>> /\ shm = <<>> /\ sem = <<>> /\ links = <<>>
    /\ open = <<>> /\ lent = <<>> /\ nextObject = 1 /\ nextOpen = 1

Put(f, x, v) == [y \in DOMAIN f \cup {x} |-> IF y = x THEN v ELSE f[y]]
Drop(f, x) == Restrict(f, DOMAIN f \ {x})

\* The limits a request can carry; u64::MAX is none.
Unlimited == MaxOffset + 2
Bounds == {Limit, Unlimited}

----------------------------------------------------------------------------
\* The kernel's side of a backing object.

Retain(r, b) == [r EXCEPT ![b] = @ + 1]
Close(r, b)  == [r EXCEPT ![b] = @ - 1]

\* Objects live while a reference does.
Settle(r, lengths) ==
    LET alive == {b \in DOMAIN r : r[b] > 0} IN
    /\ refs' = Restrict(r, alive)
    /\ backing' = Restrict(lengths, alive)
    /\ lent' = Restrict([b \in DOMAIN r |-> IF b \in DOMAIN lent THEN lent[b] ELSE 0], alive)

NewBacking == [r |-> Put(refs, nextObject, 1), len |-> Put(backing, nextObject, 0)]

----------------------------------------------------------------------------
\* Shared memory: names.

\* open_internal: the description retains the backing and starts at zero.
Description(b, writable) ==
    [backing |-> b, writable |-> writable, cursor |-> 0, append |-> FALSE, held |-> TRUE]

\* open_description: the description and its native object, which holds it.
OpenDescription(b, writable) == Put(open, nextOpen, Description(b, writable))

DetachSilently(name) == shm' = Drop(shm, name) /\ UNCHANGED links

\* detach: the metadata outlives the name and says so.
Detach(name) == /\ shm' = Drop(shm, name)
                /\ links' = [links EXCEPT ![shm[name]] = 0]

\* open_shared_memory of an existing name, and open_description.  A failed
\* retain or a failed native object leaves only the truncation behind.
OpenExisting ==
    \E name \in DOMAIN shm, writable, truncate, opened \in BOOLEAN :
       LET b == shm[name]
           lengths == IF truncate THEN [backing EXCEPT ![b] = 0] ELSE backing
       IN
       /\ truncate => writable
       /\ nextOpen <= MaxDescriptions
       /\ IF opened
          THEN /\ open' = OpenDescription(b, writable)
               /\ nextOpen' = nextOpen + 1
               /\ Settle(Retain(refs, b), lengths)
          ELSE /\ Settle(refs, lengths)
               /\ UNCHANGED <<open, nextOpen>>
       /\ UNCHANGED <<shm, sem, links, nextObject>>

\* The backing is closed before the fresh name is detached.
Undone(b, made) == /\ links' = Put(links, b, 0)
                   /\ Settle(Close(made.r, b), made.len)
                   /\ UNCHANGED <<shm, open, nextOpen>>

\* open_shared_memory of a new name.  When the description cannot be opened
\* the name goes with its backing, unless closing the backing fails too.
CreateName ==
    \E name \in ShmName \ DOMAIN shm, writable \in BOOLEAN :
       LET b == nextObject
           made == NewBacking
       IN
       /\ nextObject <= MaxObjects /\ nextOpen <= MaxDescriptions
       /\ nextObject' = nextObject + 1
       /\ \/ /\ shm' = Put(shm, name, b)
             /\ links' = Put(links, b, 1)
             /\ open' = OpenDescription(b, writable)
             /\ nextOpen' = nextOpen + 1
             /\ Settle(Retain(made.r, b), made.len)
          \/ Undone(b, made)
          \/ /\ shm' = Put(shm, name, b)
             /\ links' = Put(links, b, 1)
             /\ Settle(made.r, made.len)
             /\ UNCHANGED <<open, nextOpen>>
       /\ UNCHANGED sem

\* What the name owns, once the caller is known and may remove it.
UnlinkTarget(name) == shm[name]

\* OP_SHARED_MEMORY_UNLINK: the reference is closed before the name goes; a
\* failed close keeps the name (and changes nothing).
Unlink ==
    \E name \in DOMAIN shm :
       /\ Settle(Close(refs, UnlinkTarget(name)), backing)
       /\ Detach(name)
       /\ UNCHANGED <<sem, open, nextObject, nextOpen>>

----------------------------------------------------------------------------
\* Shared memory: descriptions.

Held(d) == open[d].held

Resized(b, n) == [backing EXCEPT ![b] = n]

\* resize_bounded: growth past the limit is refused, shrinking never is.
MayResize(d, length, ceiling) ==
    open[d].writable /\ (length <= ceiling \/ length <= backing[open[d].backing])

Truncate ==
    \E d \in DOMAIN open, length \in 0..MaxOffset, ceiling \in Bounds :
       /\ Held(d) /\ MayResize(d, length, ceiling)
       /\ backing' = Resized(open[d].backing, length)
       /\ UNCHANGED <<refs, shm, sem, links, open, lent, nextObject, nextOpen>>

\* write_bounded: where it starts, and the prefix the limit leaves.
WritePosition(d) == IF open[d].append THEN backing[open[d].backing] ELSE open[d].cursor

Permitted(position, n, end) == Min({n, end - position})

\* A write ends at an offset a signed file position can hold.
Fits(end) == end <= MaxOffset

\* The extent grows before the bytes are written; the write may then fail or
\* be short, and the cursor follows what was written.
WriteShared ==
    \E d \in DOMAIN open, n \in 1..2, bound \in Bounds :
       LET b == open[d].backing
           position == WritePosition(d)
           permitted == Permitted(position, n, bound)
           end == position + permitted
       IN
       /\ Held(d) /\ open[d].writable /\ position < bound /\ Fits(end)
       /\ backing' = Resized(b, Max({backing[b], end}))
       /\ \/ UNCHANGED open
          \/ \E written \in 0..permitted :
               open' = [open EXCEPT ![d].cursor = position + written]
       /\ UNCHANGED <<refs, shm, sem, links, lent, nextObject, nextOpen>>

\* write_at has no limit and leaves the cursor.
WriteAt ==
    \E d \in DOMAIN open, offset \in 0..MaxOffset, n \in 1..2 :
       LET b == open[d].backing IN
       /\ Held(d) /\ open[d].writable /\ Fits(offset + n)
       /\ backing' = Resized(b, Max({backing[b], offset + n}))
       /\ UNCHANGED <<refs, shm, sem, links, open, lent, nextObject, nextOpen>>

ReadShared ==
    \E d \in DOMAIN open, n \in 1..2 :
       LET b == open[d].backing
           left == IF open[d].cursor < backing[b] THEN backing[b] - open[d].cursor ELSE 0
       IN
       /\ Held(d)
       /\ open' = [open EXCEPT ![d].cursor = @ + Min({n, left})]
       /\ UNCHANGED <<backing, refs, shm, sem, links, lent, nextObject, nextOpen>>

Seek ==
    \E d \in DOMAIN open, position \in 0..MaxOffset :
       /\ Held(d)
       /\ open' = [open EXCEPT ![d].cursor = position]
       /\ UNCHANGED <<backing, refs, shm, sem, links, lent, nextObject, nextOpen>>

SetFlags ==
    \E d \in DOMAIN open, append \in BOOLEAN :
       /\ Held(d)
       /\ open' = [open EXCEPT ![d].append = append]
       /\ UNCHANGED <<backing, refs, shm, sem, links, lent, nextObject, nextOpen>>

\* Lend another reference to the backing; a lost reply takes it back.
Lend(b) == /\ lent[b] < MaxClientRefs
           /\ refs' = Retain(refs, b)
           /\ lent' = [lent EXCEPT ![b] = @ + 1]

\* mapping: the client gets a reference of its own for its mapping.
Mapping ==
    \E d \in DOMAIN open :
       /\ Held(d) /\ Lend(open[d].backing)
       /\ UNCHANGED <<backing, shm, sem, links, open, nextObject, nextOpen>>

ClientCloses ==
    \/ \E d \in DOMAIN open :
         /\ Held(d)
         /\ open' = [open EXCEPT ![d].held = FALSE]
         /\ UNCHANGED <<backing, refs, lent>>
         /\ UNCHANGED <<shm, sem, links, nextObject, nextOpen>>
    \/ \E b \in DOMAIN lent :
         /\ lent[b] > 0
         /\ refs' = [x \in {x \in DOMAIN refs : Close(refs, b)[x] > 0} |-> Close(refs, b)[x]]
         /\ backing' = Restrict(backing, DOMAIN refs')
         /\ lent' = Restrict([lent EXCEPT ![b] = @ - 1], DOMAIN refs')
         /\ UNCHANGED <<shm, sem, links, open, nextObject, nextOpen>>

\* OP_RELEASE: a failed close leaves the description, and nobody asks again.
Release ==
    \E d \in DOMAIN open :
       /\ ~Held(d)
       /\ Settle(Close(refs, open[d].backing), backing)
       /\ open' = Drop(open, d)
       /\ UNCHANGED <<shm, sem, links, nextObject, nextOpen>>

----------------------------------------------------------------------------
\* Named semaphores.

\* Namespace::open and the duplicate for the client; a created name stays
\* when the duplicate fails.
SemOpen ==
    \/ \E name \in DOMAIN sem :
         /\ Lend(sem[name])
         /\ UNCHANGED <<backing, shm, sem, links, open, nextObject, nextOpen>>
    \/ \E name \in SemName \ DOMAIN sem, delivered \in BOOLEAN :
         /\ nextObject <= MaxObjects
         /\ sem' = Put(sem, name, nextObject)
         /\ nextObject' = nextObject + 1
         /\ refs' = Put(refs, nextObject, IF delivered THEN 2 ELSE 1)
         /\ backing' = Put(backing, nextObject, 0)
         /\ lent' = Put(lent, nextObject, IF delivered THEN 1 ELSE 0)
         /\ UNCHANGED <<shm, links, open, nextOpen>>

\* The name goes first; a failed close would lose the reference.
SemUnlink ==
    \E name \in DOMAIN sem :
       /\ sem' = Drop(sem, name)
       /\ Settle(Close(refs, sem[name]), backing)
       /\ UNCHANGED <<shm, links, open, nextObject, nextOpen>>

SharedNext == \/ OpenExisting \/ CreateName \/ Unlink \/ Truncate \/ WriteShared \/ WriteAt \/ ReadShared
              \/ Seek \/ SetFlags \/ Mapping \/ ClientCloses \/ Release \/ SemOpen \/ SemUnlink

SharedSpec == SharedInit /\ [][SharedNext]_sharedVars

----------------------------------------------------------------------------
Names(b) == Cardinality({n \in DOMAIN shm : shm[n] = b}) + Cardinality({n \in DOMAIN sem : sem[n] = b})
Opens(b) == Cardinality({d \in DOMAIN open : open[d].backing = b})

\* Through failed opens, unlinks and re-creations of a name, and closes in any
\* order, the references to a backing object are exactly those of its name,
\* its descriptions and its clients, so none is freed under its users and none
\* outlives them; two names never share an object; the link count descriptions
\* report is that of the name space; and lengths and cursors stay offsets, as
\* the subtraction from i64::MAX in read supposes.
SharedObjectsOwned ==
    /\ DOMAIN refs = DOMAIN backing
    /\ Range(shm) \cup Range(sem) \cup {open[d].backing : d \in DOMAIN open} \subseteq DOMAIN refs
    /\ \A b \in DOMAIN refs : /\ refs[b] = Names(b) + Opens(b) + lent[b]
                              /\ Names(b) <= 1
                              /\ backing[b] <= MaxOffset
    /\ \A d \in DOMAIN open : open[d].cursor <= MaxOffset
    /\ \A b \in DOMAIN links : links[b] = IF b \in Range(shm) THEN 1 ELSE 0
===============================================================================
