---------------------------- MODULE RecordLockList ----------------------------
(***************************************************************************)
(* posix/src/record_lock.rs as written: the registry is a list sorted by   *)
(* file, owner and start, replaced by splitting every entry, sorting and   *)
(* merging, or trimmed in place; a request names its range by origin,      *)
(* offset and length.  RecordLockService computes with the set of the      *)
(* entries; here the two are compared on every registry a run reaches.     *)
(* And Waits::deadlocks (posix/src/record_lock_wait.rs) as written: a      *)
(* breadth-first search over the owners that wait, with a bounded queue    *)
(* that each of them enters at most once, compared with Deadlocks.         *)
(***************************************************************************)
EXTENDS RecordLockService, SequencesExt

\* Mutant: a zero length is an empty range.
NormalizeZero(base, offset, length) ==
  LET anchor == base + offset
      start == IF length < 0 THEN anchor + length ELSE anchor
      end == IF length < 0 THEN anchor ELSE anchor + length
  IN  CASE base < 0 \/ anchor < 0 -> [status |-> "EINVAL"]
        [] base >= 0 /\ anchor > END - 1 -> [status |-> "EOVERFLOW"]
        [] OTHER ->
             IF start < 0 \/ end <= start THEN [status |-> "EINVAL"]
             ELSE IF end > END THEN [status |-> "EOVERFLOW"]
             ELSE [status |-> "ok", range |-> [start |-> start, end |-> end]]

\* Range::normalize, in i128 arithmetic.
Normalize(base, offset, length) ==
  LET anchor == base + offset
      start == IF length < 0 THEN anchor + length ELSE anchor
      end == IF length < 0 THEN anchor ELSE IF length = 0 THEN END ELSE anchor + length
  IN  CASE base < 0 \/ anchor < 0 -> [status |-> "EINVAL"]
        [] base >= 0 /\ anchor > END - 1 -> [status |-> "EOVERFLOW"]
        [] OTHER ->
             IF start < 0 \/ end <= start THEN [status |-> "EINVAL"]
             ELSE IF end > END THEN [status |-> "EOVERFLOW"]
             ELSE [status |-> "ok", range |-> [start |-> start, end |-> end]]

OffsetLength(range) ==
  <<range.start, IF range.end = END THEN 0 ELSE range.end - range.start>>

Entry(file, owner, kind, range) ==
  [file |-> file, owner |-> owner, kind |-> kind, range |-> range]

Untouched(lock, owner, file, range) ==
  lock.owner # owner \/ lock.file # file \/ ~Overlaps(lock.range, range)

Split(lock, owner, file, range) ==
  IF Untouched(lock, owner, file, range) THEN <<lock>>
  ELSE (IF lock.range.start < range.start
          THEN <<[lock EXCEPT !.range.end = range.start]>> ELSE <<>>)
       \o (IF range.end < lock.range.end
             THEN <<[lock EXCEPT !.range.start = range.end]>> ELSE <<>>)

\* The key (file, owner, start); files and owners are numbers here.
Before(a, b) ==
  \/ a.file < b.file
  \/ a.file = b.file /\ a.owner < b.owner
  \/ a.file = b.file /\ a.owner = b.owner /\ a.range.start < b.range.start

MergeInto(merged, lock) ==
  LET n == Len(merged)
  IN  IF /\ n # 0
         /\ merged[n].file = lock.file /\ merged[n].owner = lock.owner
         /\ merged[n].kind = lock.kind /\ merged[n].range.end >= lock.range.start
        THEN [merged EXCEPT ![n].range.end =
                IF @ >= lock.range.end THEN @ ELSE lock.range.end]
        ELSE Append(merged, lock)

\* kinds is {} for an unlock, {kind} for a set.
ListReplacement(list, owner, file, kinds, range) ==
  LET split == FlattenSeq([i \in 1..Len(list) |-> Split(list[i], owner, file, range)])
      added == {Entry(file, owner, k, range) : k \in kinds}
  IN  FoldLeft(MergeInto, <<>>, SetToSortSeq(ToSet(split) \cup added, Before))

\* Mutant: an entry that starts inside the range is dropped whole.
ListTrimDrop(list, owner, file, range) ==
  LET Trim(lock) ==
        IF Untouched(lock, owner, file, range) THEN lock
        ELSE [lock EXCEPT !.range.end = range.start]
  IN  SelectSeq([i \in 1..Len(list) |-> Trim(list[i])],
                LAMBDA lock : lock.range.start < lock.range.end)

\* retain_mut: drop, shorten from the right or shorten from the left.
ListTrim(list, owner, file, range) ==
  LET Trim(lock) ==
        IF Untouched(lock, owner, file, range) THEN lock
        ELSE IF lock.range.start < range.start
               THEN [lock EXCEPT !.range.end = range.start]
               ELSE [lock EXCEPT !.range.start = range.end]
  IN  SelectSeq([i \in 1..Len(list) |-> Trim(list[i])],
                LAMBDA lock : lock.range.start < lock.range.end)

-----------------------------------------------------------------------------
Listed(locks) == SetToSortSeq(locks, Before)

\* Split, sort and merge compute the maximal runs of bytes and leave the list
\* sorted, and trimming in place gives what the allocating path would, for every
\* request on every registry.  (A request may be pending or not: every registry
\* is met in a state where the loop waits for one.)
ListComputesSet ==
  stage = "receive" => \A owner \in Process, file \in File, range \in ByteRange :
    LET list == Listed(svc.locks)
        kept == Pieces(svc.locks, owner, file, range)
    IN  /\ \A kind \in Kind :
             ListReplacement(list, owner, file, {kind}, range)
               = Listed(Replacement(svc.locks, owner, file, kind, range))
        /\ ListReplacement(list, owner, file, {}, range) = Listed(Coalesce(kept))
        /\ ~PunchesHole(svc.locks, owner, file, range) =>
             /\ ListTrim(list, owner, file, range) = Listed(kept)
             /\ kept = Coalesce(kept)

\* fcntl's meaning of (origin, offset, length): the bytes from the anchor on, or
\* before it, or all that follow; refused exactly when one of them is not a
\* byte offset.
Denoted(base, offset, length) ==
  LET anchor == base + offset
  IN  IF length = 0 THEN {b \in 0..(END - 1) : b >= anchor}
      ELSE IF length > 0 THEN anchor..(anchor + length - 1)
      ELSE (anchor + length)..(anchor - 1)

\* Origins and offsets of a machine whose i64::MAX is END - 1.
Base == 0..(END - 1)
Offset == (-END)..(END - 1)

\* Normalizing keeps exactly the bytes a request denotes, at both ends of the
\* offset domain, and never wraps; and a range reported as offset and length
\* normalizes to itself: "zero length retains growth coverage".  (No state
\* matters: it is evaluated while the registry is empty.)
NormalizeExact ==
  svc.locks = {} /\ stage = "receive" =>
    /\ \A base \in Base, offset, length \in Offset :
         LET n == Normalize(base, offset, length)
             fine == /\ base + offset \in 0..(END - 1)
                     /\ Denoted(base, offset, length) \subseteq 0..(END - 1)
         IN  /\ (n.status = "ok") = fine
             /\ fine => n.range.start..(n.range.end - 1) = Denoted(base, offset, length)
    /\ \A range \in ByteRange :
         LET pair == OffsetLength(range)
         IN  /\ pair[2] <= END - 1
             /\ Normalize(0, pair[1], pair[2]) = [status |-> "ok", range |-> range]

-----------------------------------------------------------------------------
\* A step takes the owner at the head of the queue, marks and appends the
\* waiting owners that block it, and stops once the candidate's owner does.
RECURSIVE Search(_, _, _, _)
Search(s, candidate, queue, seen) ==
  IF queue = <<>> THEN [cycle |-> FALSE, seen |-> seen]
  ELSE LET waits == s.waits \cup {candidate}
           owners == {w.owner : w \in waits}
           blockers == Successors(s.locks, waits, Head(queue))
           fresh == (blockers \cap owners) \ seen
           order == CHOOSE q \in [1..Cardinality(fresh) -> fresh] :
                      \A i, j \in 1..Cardinality(fresh) : i # j => q[i] # q[j]
       IN  IF candidate.owner \in blockers THEN [cycle |-> TRUE, seen |-> seen]
           ELSE Search(s, candidate, Tail(queue) \o order, seen \cup fresh)

SearchFrom(s, candidate) ==
  Search(s, candidate, <<candidate.owner>>, {candidate.owner})

Candidate == [owner : Process, revision : {0}, file : File, kind : Kind,
              range : ByteRange, token : {0}]

\* No cycle of waiting calls ever forms.  The search that is to refuse the call
\* that would close one finds a cycle through the candidate exactly when there is
\* one, and never marks more owners than MAX_WAITERS + 1, the size of its arrays.
CyclesRefused ==
  /\ NoDeadlock
  /\ stage = "receive" => \A c \in Candidate :
       LET found == SearchFrom(svc, c)
       IN  /\ found.cycle = Deadlocks(svc, c)
           /\ ~QueueFull(svc, c.owner) => Cardinality(found.seen) <= MAX_WAITERS + 1

-----------------------------------------------------------------------------
(* Two small instances.  The ranges: two single-threaded processes that      *)
(* split and merge ranges of a four-byte file.  The images: a two-threaded   *)
(* and a single-threaded process, exec, exit, hint pages.  Processes and     *)
(* threads are numbered.                                                     *)

OneOne == [t \in Thread |-> t]
TwoOne == [t \in Thread |-> IF t = 3 THEN 2 ELSE 1]

\* Every way to split and merge.
RangeRequests ==
       [op : {"set"}, file : File, kind : Kind, range : ByteRange]
  \cup [op : {"query"}, file : File, kind : {"read"},
        range : {r \in ByteRange : r.end = r.start + 1}]
  \cup [op : {"unlock"}, file : File, range : ByteRange]

ImageRequests ==
       [op : {"wait"}, file : File, kind : {"write"}, range : ByteRange, late : BOOLEAN]
  \cup [op : {"set"}, file : File, kind : {"write"}, range : ByteRange]
  \cup [op : {"release"}, file : File]
  \cup [op : {"prepare"}, files : {File}]
  \cup [op : {"extend"}, files : {File}, token : {1}]
  \cup [op : {"cancel"}, token : {1}]
  \cup [op : {"policy"}]
  \cup [op : {"interrupt"}, target : {1}]

\* The list of ranges, with its splits and merges in place, computes the set the
\* registry stands for, and normalize accepts exactly the ranges of a file
\* (ListComputesSet and NormalizeExact).
ListExact == ListComputesSet /\ NormalizeExact
=============================================================================
