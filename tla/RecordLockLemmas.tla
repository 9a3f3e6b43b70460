--------------------------- MODULE RecordLockLemmas ---------------------------
(***************************************************************************)
(* The operations of RecordLockService on a service state: types, the      *)
(* invariant every handler keeps, what they take from the registry, what   *)
(* each handler comes to, and which bytes splitting and merging cover.     *)
(***************************************************************************)
EXTENDS RecordLockService, WellFoundedInduction, TLAPS

-----------------------------------------------------------------------------
(* Type correctness.                                                       *)

\* Splitting a lock around a range leaves well-formed locks.
LEMMA PiecesType ==
  ASSUME NEW locks \in SUBSET Lock, NEW owner, NEW file, NEW range \in ByteRange
  PROVE  Pieces(locks, owner, file, range) \in SUBSET Lock
<1> SUFFICES ASSUME NEW l \in Touched(locks, owner, file, range), NEW r \in Remnants(l, range)
             PROVE  r \in Lock
  BY DEF Pieces, Touched
<1>1. l \in Lock
  BY DEF Touched
<1>2. /\ l.range.start \in 0..END /\ l.range.end \in 0..END
      /\ range.start \in 0..END /\ range.end \in 0..END
  BY <1>1 DEF Lock, ByteRange
<1>3. CASE r = [l EXCEPT !.range = [start |-> l.range.start, end |-> range.start]]
  <2>1. [start |-> l.range.start, end |-> range.start] \in ByteRange
    BY <1>1, <1>2, <1>3 DEF Remnants, ByteRange, Lock
  <2> QED BY ZenonT(60), <1>1, <1>3, <2>1 DEF Lock
<1>4. CASE r = [l EXCEPT !.range = [start |-> range.end, end |-> l.range.end]]
  <2>1. [start |-> range.end, end |-> l.range.end] \in ByteRange
    BY ZenonT(60), <1>1, <1>2, <1>4 DEF Remnants, ByteRange, Lock
  <2> QED BY ZenonT(60), <1>1, <1>4, <2>1 DEF Lock
<1> QED BY <1>3, <1>4 DEF Remnants

\* Coalescing and replacing yield locks.
LEMMA ReplacementType ==
  /\ \A locks : Coalesce(locks) \in SUBSET Lock
  /\ \A locks, owner, file, kind, range :
       Replacement(locks, owner, file, kind, range) \in SUBSET Lock
BY DEF Coalesce, Replacement

\* Publishing, pin release and retirement keep the service state well formed.
LEMMA HintType ==
  ASSUME NEW s \in Service, NEW p \in Process, NEW v \in {"none", "clear", "held"}
  PROVE  Hint(s, p, v) \in Service
BY ZenonT(60) DEF Hint, Service

LEMMA PublishType ==
  ASSUME NEW s \in Service, NEW p \in Process
  PROVE  Publish(s, p) \in Service
BY HintType DEF Publish

LEMMA ReleaseUnusedType ==
  ASSUME NEW s \in Service
  PROVE  ReleaseUnused(s) \in Service
BY DEF ReleaseUnused, Service

LEMMA ObserveType ==
  ASSUME NEW s \in Service, NEW seen \in SUBSET Process, image \in [Process -> Image]
  PROVE  Observe(s, seen) \in Service
<1> DEFINE c == CommitObserved(s, seen)
<1>1. c \in Service
  BY Zenon DEF CommitObserved, Service
<1>2. \A p \in Process : Publish(c, p).page[p] \in {"none", "clear", "held"}
  BY SMTT(60), <1>1, PublishType DEF Service
<1> HIDE DEF c
<1>3. [c EXCEPT
         !.page = [p \in Process |-> IF p \in seen THEN Publish(c, p).page[p] ELSE c.page[p]],
         !.waits = {w \in c.waits : w.owner \notin seen},
         !.observed = [p \in Process |-> IF p \in seen THEN image[p] ELSE c.observed[p]]]
        \in Service
  BY ZenonT(60), <1>1, <1>2 DEF Service
<1> QED BY <1>3 DEF Observe, c

LEMMA RefreshType ==
  ASSUME NEW s \in Service, NEW owners \in SUBSET Process, NEW bad, image \in [Process -> Image]
  PROVE  Refresh(s, owners, bad) \in Service
BY ObserveType DEF Refresh

LEMMA ExecOwnersType ==
  ASSUME NEW s \in Service, NEW files
  PROVE  ExecOwners(s, files) \in SUBSET Process
BY DEF ExecOwners, Service, Preparation

LEMMA RetireType ==
  ASSUME NEW s \in Service, NEW gone \in SUBSET Process
  PROVE  Retire(s, gone) \in Service /\ WithdrawPages(Retire(s, gone), gone) \in Service
<1> DEFINE r == [s EXCEPT !.locks = {l \in s.locks : l.owner \notin gone},
                          !.execs = {e \in s.execs : e.owner \notin gone},
                          !.waits = {w \in s.waits : w.owner \notin gone}]
<1>1. r \in Service
  BY Zenon DEF Service
<1> HIDE DEF r
<1>2. \A p \in Process : Publish(r, p).page[p] \in {"none", "clear", "held"}
  BY <1>1, PublishType DEF Service
<1>3. [r EXCEPT !.page = [p \in Process |->
          IF p \in gone THEN Publish(r, p).page[p] ELSE r.page[p]]] \in Service
  BY ZenonT(60), <1>1, <1>2 DEF Service
<1>4. Retire(s, gone) \in Service
  BY <1>3 DEF Retire, r
<1> QED BY <1>4 DEF WithdrawPages, Service

-----------------------------------------------------------------------------
(* The inductive invariant.                                                *)

\* What a service state satisfies between any two operations on it.
SInv(s) ==
  /\ s \in Service
  /\ Exclusive(s.locks)
  /\ \A x \in s.locks \cup s.waits : x.file \in s.files
  /\ \A p \in Process : HasOwner(s.locks, p) => s.page[p] # "clear"
  /\ \A p \in Process : ~Admitted(s, p) =>
       /\ ~HasOwner(s.locks, p) /\ ~HasOwner(s.waits, p) /\ ~HasOwner(s.execs, p)
       /\ s.page[p] = "none"
  /\ \A w \in s.waits : w.revision = s.observed[w.owner] /\ w.token < s.nextWait
  /\ \A v, w \in s.waits : v.token = w.token => v = w

\* A state reached from s without queueing anything.
Descends(s, t) == SInv(t) /\ t.waits \subseteq s.waits /\ t.nextWait = s.nextWait

\* A lock set that may replace s.locks on behalf of p, pinning F.
Storable(s, p, L, F) ==
  /\ L \in SUBSET Lock /\ F \in SUBSET File /\ Exclusive(L)
  /\ \A l \in L : l.file \in s.files \cup F
  /\ \A q \in Process : HasOwner(L, q) => HasOwner(s.locks, q) \/ q = p

\* Part of the locks M.
Within(L, M) ==
  /\ L \in SUBSET Lock /\ Exclusive(L)
  /\ \A a \in L : \E l \in M : l.file = a.file /\ l.owner = a.owner

\* What holds of a grant between its reply and its commit.
GInv(s, g) ==
  /\ Exclusive(g.locks)
  /\ \A l \in g.locks : l.file \in s.files \cup g.pins
  /\ \A p \in Process : HasOwner(g.locks, p) => HasOwner(s.locks, p) \/ p = g.owner
  /\ Admitted(s, g.owner)
  /\ s.page[g.owner] # "clear"

\* How the queued waits relate to the deferred calls.
JInv ==
  /\ WaitHasJob
  /\ \A i, j \in jobs : i.token = j.token => i = j
  /\ \A j \in jobs : j.token < svc.nextWait

IInv ==
  /\ TypeOK
  /\ SInv(svc)
  /\ staged # {} => stage = "commit"
  /\ \A g \in staged : GInv(svc, g)
  /\ JInv

-----------------------------------------------------------------------------
(* Operations on lock sets.                                                *)

\* A coalesced lock starts in a byte that some piece covers.
LEMMA CoalesceWitness ==
  ASSUME NEW P \in SUBSET Lock, NEW a \in Coalesce(P), NEW x \in a.range.start..(a.range.end - 1)
  PROVE  \E l \in P : /\ l.file = a.file /\ l.owner = a.owner /\ l.kind = a.kind
                      /\ l.range.start <= x /\ x < l.range.end
BY DEF Coalesce, Covers

\* Coalescing pieces that exclude each other never creates a conflict.
LEMMA CoalesceExclusive ==
  ASSUME NEW P \in SUBSET Lock, Exclusive(P)
  PROVE  Exclusive(Coalesce(P))
<1> SUFFICES ASSUME NEW a \in Coalesce(P), NEW b \in Coalesce(P),
                    a.file = b.file, a.owner # b.owner,
                    a.kind = "write" \/ b.kind = "write",
                    Overlaps(a.range, b.range)
             PROVE  FALSE
  BY DEF Exclusive
<1>1. a \in Lock /\ b \in Lock
  BY DEF Coalesce
<1>2. /\ a.range.start \in Int /\ a.range.end \in Int /\ a.range.start < a.range.end
      /\ b.range.start \in Int /\ b.range.end \in Int /\ b.range.start < b.range.end
  BY <1>1, EndAssumption DEF Lock, ByteRange
<1>3. PICK x : /\ x \in a.range.start..(a.range.end - 1)
               /\ x \in b.range.start..(b.range.end - 1)
  <2> DEFINE m == IF a.range.start <= b.range.start THEN b.range.start ELSE a.range.start
  <2>1. m \in a.range.start..(a.range.end - 1) /\ m \in b.range.start..(b.range.end - 1)
    BY <1>2 DEF Overlaps
  <2> QED BY <2>1
<1>4. PICK k \in P : /\ k.file = a.file /\ k.owner = a.owner /\ k.kind = a.kind
                     /\ k.range.start <= x /\ x < k.range.end
  BY <1>3, CoalesceWitness
<1>5. PICK l \in P : /\ l.file = b.file /\ l.owner = b.owner /\ l.kind = b.kind
                     /\ l.range.start <= x /\ x < l.range.end
  BY <1>3, CoalesceWitness
<1>6. /\ k.range.start \in Int /\ k.range.end \in Int
      /\ l.range.start \in Int /\ l.range.end \in Int
      /\ x \in Int
  BY <1>2, <1>3, EndAssumption DEF Lock, ByteRange
<1>7. Overlaps(k.range, l.range)
  BY <1>4, <1>5, <1>6 DEF Overlaps
<1> QED BY <1>4, <1>5, <1>7 DEF Exclusive

\* Pieces and coalesced locks belong to an owner and name a file that was there.
LEMMA CoalesceFrom ==
  ASSUME NEW P \in SUBSET Lock, NEW a \in Coalesce(P)
  PROVE  \E l \in P : l.file = a.file /\ l.owner = a.owner
<1>1. a \in Lock /\ a.range.start \in a.range.start..(a.range.end - 1)
  BY EndAssumption DEF Coalesce, Lock, ByteRange
<1> QED BY <1>1, CoalesceWitness

LEMMA PiecesFrom ==
  ASSUME NEW L \in SUBSET Lock, NEW p, NEW f, NEW r \in ByteRange, NEW a \in Pieces(L, p, f, r)
  PROVE  \E l \in L : /\ l.file = a.file /\ l.owner = a.owner /\ l.kind = a.kind
                      /\ l.range.start <= a.range.start /\ a.range.end <= l.range.end
<1>1. CASE a \in L
  BY <1>1, EndAssumption DEF Lock, ByteRange
<1>2. CASE a \notin L
  <2>1. PICK l \in Touched(L, p, f, r) : a \in Remnants(l, r)
    BY <1>2 DEF Pieces
  <2>2. l \in Lock /\ l \in L /\ Overlaps(l.range, r)
    BY DEF Touched
  <2>3. /\ l.range.start \in Int /\ l.range.end \in Int
        /\ r.start \in Int /\ r.end \in Int
        /\ l.range.start < r.end /\ r.start < l.range.end
    BY <2>2, EndAssumption DEF Lock, ByteRange, Overlaps
  <2>4. /\ a.file = l.file /\ a.owner = l.owner /\ a.kind = l.kind
        /\ \/ a.range = [start |-> l.range.start, end |-> r.start]
           \/ a.range = [start |-> r.end, end |-> l.range.end]
    BY ZenonT(60), <2>1, <2>2 DEF Remnants, Lock
  <2> QED BY <2>2, <2>3, <2>4
<1> QED BY <1>1, <1>2

\* Cutting a range out of one owner's locks creates no conflict.
LEMMA PiecesExclusive ==
  ASSUME NEW L \in SUBSET Lock, Exclusive(L), NEW p, NEW f, NEW r \in ByteRange
  PROVE  Exclusive(Pieces(L, p, f, r))
<1> SUFFICES ASSUME NEW a \in Pieces(L, p, f, r), NEW b \in Pieces(L, p, f, r),
                    a.file = b.file, a.owner # b.owner,
                    a.kind = "write" \/ b.kind = "write",
                    Overlaps(a.range, b.range)
             PROVE  FALSE
  BY ZenonT(60) DEF Exclusive
<1>1. PICK k \in L : /\ k.file = a.file /\ k.owner = a.owner /\ k.kind = a.kind
                     /\ k.range.start <= a.range.start /\ a.range.end <= k.range.end
  BY ZenonT(60), PiecesFrom
<1>2. PICK l \in L : /\ l.file = b.file /\ l.owner = b.owner /\ l.kind = b.kind
                     /\ l.range.start <= b.range.start /\ b.range.end <= l.range.end
  BY PiecesFrom
<1>3. a \in Lock /\ b \in Lock
  BY ZenonT(60), PiecesType
<1>4. Overlaps(k.range, l.range)
  <2>1. /\ a.range.start \in Int /\ a.range.end \in Int
        /\ b.range.start \in Int /\ b.range.end \in Int
        /\ k.range.start \in Int /\ k.range.end \in Int
        /\ l.range.start \in Int /\ l.range.end \in Int
    BY <1>3, EndAssumption DEF Lock, ByteRange
  <2> QED BY <1>1, <1>2, <2>1 DEF Overlaps
<1> QED BY ZenonT(60), <1>1, <1>2, <1>4 DEF Exclusive

\* A grant nobody blocks keeps the registry free of conflicts.
LEMMA ReplacementExclusive ==
  ASSUME NEW L \in SUBSET Lock, Exclusive(L), NEW p \in Process, NEW f \in File,
         NEW k \in Kind, NEW r \in ByteRange, Blockers(L, p, f, k, r) = {}
  PROVE  Exclusive(Replacement(L, p, f, k, r))
<1> DEFINE n == [file |-> f, owner |-> p, kind |-> k, range |-> r]
           P == Pieces(L, p, f, r)
<1>1. n \in Lock
  BY ZenonT(60) DEF Lock
<1>2. P \in SUBSET Lock /\ Exclusive(P)
  BY ZenonT(60), PiecesType, PiecesExclusive
<1>3. \A a \in P : (a.file = f /\ a.owner # p /\ (k = "write" \/ a.kind = "write"))
                  => ~Overlaps(r, a.range)
  <2> SUFFICES ASSUME NEW a \in P, a.file = f, a.owner # p, k = "write" \/ a.kind = "write"
               PROVE  ~Overlaps(r, a.range)
    BY ZenonT(60)
  <2>1. PICK l \in L : /\ l.file = a.file /\ l.owner = a.owner /\ l.kind = a.kind
                       /\ l.range.start <= a.range.start /\ a.range.end <= l.range.end
    BY ZenonT(60), PiecesFrom
  <2>2. ~Overlaps(r, l.range)
    BY ZenonT(60), <2>1 DEF Blockers
  <2>3. /\ a.range.start \in Int /\ a.range.end \in Int
        /\ l.range.start \in Int /\ l.range.end \in Int
        /\ r.start \in Int /\ r.end \in Int
    BY <1>2, EndAssumption DEF Lock, ByteRange
  <2> QED BY <2>1, <2>2, <2>3 DEF Overlaps
<1>4. \A a \in P : Overlaps(a.range, r) <=> Overlaps(r, a.range)
  BY ZenonT(60) DEF Overlaps
<1>5. Exclusive(P \cup {n})
  <2> HIDE DEF P
  <2> QED BY <1>1, <1>2, <1>3, <1>4 DEF Exclusive
<1>6. P \cup {n} \in SUBSET Lock
  BY ZenonT(60), <1>1, <1>2
<1> QED BY ZenonT(60), <1>5, <1>6, CoalesceExclusive DEF Replacement

\* ... and only adds locks of the caller on the requested file.
LEMMA ReplacementFrom ==
  ASSUME NEW L \in SUBSET Lock, NEW p \in Process, NEW f \in File,
         NEW k \in Kind, NEW r \in ByteRange, NEW a \in Replacement(L, p, f, k, r)
  PROVE  \/ \E l \in L : l.file = a.file /\ l.owner = a.owner
         \/ a.file = f /\ a.owner = p
<1> DEFINE n == [file |-> f, owner |-> p, kind |-> k, range |-> r]
           P == Pieces(L, p, f, r)
<1>1. P \cup {n} \in SUBSET Lock
  BY PiecesType DEF Lock
<1>2. PICK l \in P \cup {n} : l.file = a.file /\ l.owner = a.owner
  BY ZenonT(60), <1>1, CoalesceFrom DEF Replacement
<1>3. CASE l \in P
  BY <1>2, <1>3, PiecesFrom
<1> QED BY <1>2, <1>3

-----------------------------------------------------------------------------
(* Operations on service states.                                           *)

\* Announcing held locks is always safe.
LEMMA HintInv ==
  ASSUME NEW s, SInv(s), NEW p \in Process
  PROVE  SInv(Hint(s, p, "held"))
<1>1. Hint(s, p, "held") \in Service
  BY HintType DEF SInv
<1>2. CASE s.page[p] = "none"
  BY <1>2 DEF Hint
<1>3. CASE s.page[p] # "none"
  <2> DEFINE h == [s EXCEPT !.page[p] = "held"]
  <2>1. /\ h.locks = s.locks /\ h.waits = s.waits /\ h.files = s.files
        /\ h.execs = s.execs /\ h.observed = s.observed /\ h.nextWait = s.nextWait
        /\ h.registered = s.registered /\ h.exited = s.exited
        /\ \A q \in Process : h.page[q] = IF q = p THEN "held" ELSE s.page[q]
    BY DEF SInv, Service
  <2>2. h \in Service
    BY ZenonT(60), <1>1, <1>3 DEF Hint
  <2> HIDE DEF h
  <2>3. SInv(h)
    BY ZenonT(60), <1>3, <2>1, <2>2 DEF SInv, Admitted
  <2> QED BY ZenonT(60), <1>3, <2>3 DEF Hint, h
<1> QED BY ZenonT(60), <1>2, <1>3

\* Storing new locks of an admitted process and publishing the truth about them.
LEMMA SetInv ==
  ASSUME NEW s, SInv(s), NEW p \in Process, Admitted(s, p), NEW L, NEW F, Storable(s, p, L, F)
  PROVE  Descends(s, Store(s, p, L, F))
<1> USE DEF Storable
<1> DEFINE t == [s EXCEPT !.locks = L, !.files = @ \cup F]
           u == Publish(t, p)
<1>1. /\ t \in Service /\ t.locks = L /\ t.files = s.files \cup F /\ t.waits = s.waits
      /\ t.execs = s.execs /\ t.observed = s.observed /\ t.nextWait = s.nextWait
      /\ t.registered = s.registered /\ t.exited = s.exited /\ t.page = s.page
  BY Zenon DEF SInv, Service
<1>2. u \in Service
  BY ZenonT(60), <1>1, PublishType
<1> HIDE DEF t
<1>3. /\ u.locks = L /\ u.files = s.files \cup F /\ u.waits = s.waits
      /\ u.execs = s.execs /\ u.observed = s.observed /\ u.nextWait = s.nextWait
      /\ u.registered = s.registered /\ u.exited = s.exited
      /\ \A q \in Process : q # p => u.page[q] = s.page[q]
      /\ u.page[p] = "clear" => ~HasOwner(L, p)
  BY ZenonT(60), <1>1 DEF Publish, Hint, Service
<1> HIDE DEF u
<1>4. SInv(u)
  BY <1>2, <1>3 DEF SInv, Admitted, HasOwner
<1>5. Descends(s, u)
  BY ZenonT(60), <1>3, <1>4 DEF Descends
<1> QED BY <1>5 DEF u, t, Store

LEMMA PublishInv ==
  ASSUME NEW s, SInv(s), NEW p \in Process, Admitted(s, p)
  PROVE  Descends(s, Publish(s, p))
<1>1. Store(s, p, s.locks, {}) = Publish(s, p)
  BY ZenonT(60) DEF SInv, Service, Store
<1>2. Storable(s, p, s.locks, {})
  BY DEF SInv, Service, Storable
<1> QED BY ZenonT(60), <1>1, <1>2, SetInv

LEMMA ReleaseUnusedInv ==
  ASSUME NEW s, SInv(s)
  PROVE  /\ Descends(s, ReleaseUnused(s))
         /\ ReleaseUnused(s).locks = s.locks /\ ReleaseUnused(s).observed = s.observed
         /\ \A p : Admitted(ReleaseUnused(s), p) <=> Admitted(s, p)
<1> DEFINE u == ReleaseUnused(s)
<1>1. u \in Service
  BY ReleaseUnusedType DEF SInv
<1>2. /\ u.locks = s.locks /\ u.waits = s.waits
      /\ u.execs = s.execs /\ u.observed = s.observed /\ u.nextWait = s.nextWait
      /\ u.registered = s.registered /\ u.exited = s.exited /\ u.page = s.page
      /\ u.files = {f \in s.files : HasFile(s.locks, f) \/ HasFile(s.waits, f)}
  BY DEF ReleaseUnused, SInv, Service
<1> HIDE DEF u
<1>3. SInv(u)
  BY <1>1, <1>2 DEF SInv, Admitted, HasFile
<1>4. Descends(s, u)
  BY ZenonT(60), <1>2, <1>3 DEF Descends
<1> QED BY <1>2, <1>4 DEF u, Admitted

\* Observing new images only takes away.
LEMMA RefreshInv ==
  ASSUME NEW s, SInv(s), NEW owners \in SUBSET Process, NEW bad, image \in [Process -> Image]
  PROVE  /\ Descends(s, Refresh(s, owners, bad))
         /\ Refresh(s, owners, bad).registered = s.registered
         /\ Refresh(s, owners, bad).observed = [p \in Process |->
              IF p \in {q \in owners : Readable(s, q, bad) /\ image[q] > s.observed[q]}
                THEN image[p] ELSE s.observed[p]]
<1> DEFINE seen == {p \in owners : Readable(s, p, bad) /\ image[p] > s.observed[p]}
           c == CommitObserved(s, seen)
           u == Observe(s, seen)
<1>0. seen \in SUBSET Process
  BY ZenonT(60)
<1>1. u \in Service
  BY ObserveType DEF SInv
<1>2. /\ c.locks \subseteq s.locks /\ c.files = s.files /\ c.waits = s.waits
      /\ c.execs \subseteq s.execs /\ c.observed = s.observed /\ c.nextWait = s.nextWait
      /\ c.registered = s.registered /\ c.exited = s.exited /\ c.page = s.page
      /\ c \in Service
  BY Zenon DEF CommitObserved, SInv, Service
<1> HIDE DEF c, seen
<1>3. /\ u.locks = c.locks /\ u.files = s.files
      /\ u.waits = {w \in s.waits : w.owner \notin seen}
      /\ u.execs = c.execs /\ u.nextWait = s.nextWait
      /\ u.observed = [p \in Process |-> IF p \in seen THEN image[p] ELSE s.observed[p]]
      /\ u.registered = s.registered /\ u.exited = s.exited
  BY ZenonT(60), <1>2 DEF Observe, Service, c
<1>4. ASSUME NEW p \in Process
      PROVE  /\ u.page[p] = "clear" => s.page[p] = "clear" \/ ~HasOwner(c.locks, p)
             /\ s.page[p] = "none" => u.page[p] = "none"
  <2>1. u.page[p] = IF p \in seen THEN Publish(c, p).page[p] ELSE s.page[p]
    BY ZenonT(60), <1>2 DEF Observe, Service, c
  <2>2. Publish(c, p).page[p] = IF s.page[p] = "none" THEN "none"
                                ELSE IF HasOwner(c.locks, p) THEN "held" ELSE "clear"
    BY ZenonT(60), <1>2 DEF Publish, Hint, Service
  <2> HIDE DEF u
  <2> QED BY ZenonT(60), <2>1, <2>2
<1> HIDE DEF u
<1>5. SInv(u)
  <2>1. Exclusive(u.locks)
    BY ZenonT(60), <1>2, <1>3 DEF SInv, Exclusive
  <2>2. \A x \in u.locks \cup u.waits : x.file \in u.files
    BY ZenonT(60), <1>2, <1>3 DEF SInv
  <2>3. \A p \in Process : HasOwner(u.locks, p) => HasOwner(s.locks, p)
    BY ZenonT(60), <1>2, <1>3 DEF HasOwner
  <2>4. ASSUME NEW p \in Process, HasOwner(u.locks, p)
        PROVE  u.page[p] # "clear"
    <3>1. HasOwner(s.locks, p) /\ HasOwner(c.locks, p)
      BY ZenonT(60), <1>3, <2>3, <2>4
    <3> QED BY ZenonT(60), <1>4, <3>1 DEF SInv
  <2>5. \A p \in Process : ~Admitted(u, p) =>
          /\ ~HasOwner(u.locks, p) /\ ~HasOwner(u.waits, p) /\ ~HasOwner(u.execs, p)
          /\ u.page[p] = "none"
    <3> SUFFICES ASSUME NEW p \in Process, ~Admitted(u, p)
                 PROVE  /\ ~HasOwner(u.locks, p) /\ ~HasOwner(u.waits, p)
                        /\ ~HasOwner(u.execs, p) /\ u.page[p] = "none"
      BY ZenonT(60)
    <3>1. ~Admitted(s, p)
      BY ZenonT(60), <1>3 DEF Admitted
    <3>2. /\ ~HasOwner(s.locks, p) /\ ~HasOwner(s.waits, p)
          /\ ~HasOwner(s.execs, p) /\ s.page[p] = "none"
      BY ZenonT(60), <3>1 DEF SInv
    <3>3. ~HasOwner(u.locks, p) /\ ~HasOwner(u.waits, p) /\ ~HasOwner(u.execs, p)
      BY ZenonT(60), <1>2, <1>3, <3>2 DEF HasOwner
    <3> QED BY ZenonT(60), <1>4, <3>2, <3>3
  <2>6. \A w \in u.waits : w.revision = u.observed[w.owner] /\ w.token < u.nextWait
    BY ZenonT(60), <1>3 DEF SInv, Service, Wait
  <2>7. \A v, w \in u.waits : v.token = w.token => v = w
    BY ZenonT(60), <1>3 DEF SInv
  <2> QED BY ZenonT(60), <1>1, <2>1, <2>2, <2>4, <2>5, <2>6, <2>7 DEF SInv
<1>6. Descends(s, u)
  BY ZenonT(60), <1>3, <1>5 DEF Descends
<1> QED BY ZenonT(60), <1>3, <1>6 DEF Refresh, u, seen

\* Retiring processes removes all they own and keeps the rest.
LEMMA RetireInv ==
  ASSUME NEW s, SInv(s), NEW gone \in SUBSET Process
  PROVE  /\ Descends(s, Retire(s, gone))
         /\ Retire(s, gone).registered = s.registered
         /\ Retire(s, gone).exited = s.exited
         /\ \A p \in gone : /\ ~HasOwner(Retire(s, gone).locks, p)
                            /\ ~HasOwner(Retire(s, gone).waits, p)
                            /\ ~HasOwner(Retire(s, gone).execs, p)
<1> DEFINE r == [s EXCEPT !.locks = {l \in s.locks : l.owner \notin gone},
                          !.execs = {e \in s.execs : e.owner \notin gone},
                          !.waits = {w \in s.waits : w.owner \notin gone}]
           u == Retire(s, gone)
<1>1. u \in Service
  BY ZenonT(60), RetireType DEF SInv
<1>2. /\ r.locks = {l \in s.locks : l.owner \notin gone}
      /\ r.execs = {e \in s.execs : e.owner \notin gone}
      /\ r.waits = {w \in s.waits : w.owner \notin gone}
      /\ r.files = s.files /\ r.observed = s.observed /\ r.nextWait = s.nextWait
      /\ r.registered = s.registered /\ r.exited = s.exited /\ r.page = s.page
      /\ r \in Service
  BY ZenonT(60) DEF SInv, Service
<1> HIDE DEF r
<1>3. /\ u.locks = r.locks /\ u.execs = r.execs /\ u.waits = r.waits
      /\ u.files = s.files /\ u.observed = s.observed /\ u.nextWait = s.nextWait
      /\ u.registered = s.registered /\ u.exited = s.exited
  BY Zenon, <1>2 DEF Retire, Service, r
<1>4. ASSUME NEW p \in Process
      PROVE  /\ u.page[p] = "clear" => s.page[p] = "clear" \/ ~HasOwner(r.locks, p)
             /\ s.page[p] = "none" => u.page[p] = "none"
  <2>1. u.page[p] = IF p \in gone THEN Publish(r, p).page[p] ELSE s.page[p]
    BY Zenon, <1>2 DEF Retire, Service, r
  <2>2. Publish(r, p).page[p] = IF s.page[p] = "none" THEN "none"
                                ELSE IF HasOwner(r.locks, p) THEN "held" ELSE "clear"
    BY ZenonT(60), <1>2 DEF Publish, Hint, Service
  <2> HIDE DEF u
  <2> QED BY ZenonT(60), <2>1, <2>2
<1> HIDE DEF u
<1>5. \A p : HasOwner(u.locks, p) => HasOwner(s.locks, p)
  BY ZenonT(60), <1>2, <1>3 DEF HasOwner
<1>6. SInv(u)
  <2>1. Exclusive(u.locks)
    BY ZenonT(60), <1>2, <1>3 DEF SInv, Exclusive
  <2>2. \A x \in u.locks \cup u.waits : x.file \in u.files
    BY ZenonT(60), <1>2, <1>3 DEF SInv
  <2>3. ASSUME NEW p \in Process, HasOwner(u.locks, p)
        PROVE  u.page[p] # "clear"
    BY ZenonT(60), <1>3, <1>4, <1>5, <2>3 DEF SInv
  <2>4. ASSUME NEW p \in Process, ~Admitted(u, p)
        PROVE  /\ ~HasOwner(u.locks, p) /\ ~HasOwner(u.waits, p)
               /\ ~HasOwner(u.execs, p) /\ u.page[p] = "none"
    <3>1. ~Admitted(s, p)
      BY ZenonT(60), <1>3, <2>4 DEF Admitted
    <3>2. /\ ~HasOwner(s.locks, p) /\ ~HasOwner(s.waits, p)
          /\ ~HasOwner(s.execs, p) /\ s.page[p] = "none"
      BY ZenonT(60), <3>1 DEF SInv
    <3>3. ~HasOwner(u.locks, p) /\ ~HasOwner(u.waits, p) /\ ~HasOwner(u.execs, p)
      BY ZenonT(60), <1>2, <1>3, <3>2 DEF HasOwner
    <3> QED BY ZenonT(60), <1>4, <3>2, <3>3
  <2>5. \A w \in u.waits : w.revision = u.observed[w.owner] /\ w.token < u.nextWait
    BY ZenonT(60), <1>2, <1>3 DEF SInv
  <2>6. \A v, w \in u.waits : v.token = w.token => v = w
    BY ZenonT(60), <1>2, <1>3 DEF SInv
  <2> QED BY ZenonT(60), <1>1, <2>1, <2>2, <2>3, <2>4, <2>5, <2>6 DEF SInv
<1>7. \A p \in gone : ~HasOwner(u.locks, p) /\ ~HasOwner(u.waits, p) /\ ~HasOwner(u.execs, p)
  BY ZenonT(60), <1>2, <1>3 DEF HasOwner
<1>8. Descends(s, u)
  BY ZenonT(60), <1>2, <1>3, <1>6 DEF Descends
<1> QED BY ZenonT(60), <1>3, <1>7, <1>8 DEF u

\* Processes that own nothing can lose their page and their admission.
LEMMA WithdrawInv ==
  ASSUME NEW s, SInv(s), NEW gone \in SUBSET Process,
         \A p \in gone : ~HasOwner(s.locks, p) /\ ~HasOwner(s.waits, p) /\ ~HasOwner(s.execs, p),
         NEW E \in SUBSET Process, NEW R \in SUBSET Process,
         \A p \in Process : Admitted(s, p) /\ (p \notin R \/ p \in E) => p \in gone
  PROVE  SInv([WithdrawPages(s, gone) EXCEPT !.exited = E, !.registered = R])
<1> DEFINE u == [WithdrawPages(s, gone) EXCEPT !.exited = E, !.registered = R]
<1>1. /\ u.locks = s.locks /\ u.execs = s.execs /\ u.waits = s.waits
      /\ u.files = s.files /\ u.observed = s.observed /\ u.nextWait = s.nextWait
      /\ u.registered = R /\ u.exited = E
      /\ u.page = [p \in Process |-> IF p \in gone THEN "none" ELSE s.page[p]]
      /\ u \in Service
  BY Zenon DEF WithdrawPages, SInv, Service
<1> HIDE DEF u
<1>2. ASSUME NEW p \in Process, ~Admitted(u, p)
      PROVE  /\ ~HasOwner(u.locks, p) /\ ~HasOwner(u.waits, p)
             /\ ~HasOwner(u.execs, p) /\ u.page[p] = "none"
  <2>1. CASE Admitted(s, p)
    <3>1. p \in gone
      BY ZenonT(60), <1>1, <1>2, <2>1 DEF Admitted
    <3> QED BY ZenonT(60), <1>1, <3>1
  <2>2. CASE ~Admitted(s, p)
    BY ZenonT(60), <1>1, <2>2 DEF SInv
  <2> QED BY ZenonT(60), <2>1, <2>2
<1>3. \A p \in Process : HasOwner(u.locks, p) => u.page[p] # "clear"
  BY ZenonT(60), <1>1 DEF SInv
<1>4. SInv(u)
  BY ZenonT(60), <1>1, <1>2, <1>3 DEF SInv
<1> QED BY SMTT(60), <1>4 DEF u

\* Validation only observes; a validated caller is the current image's thread.
LEMMA ValidatedInv ==
  ASSUME TypeOK, SInv(svc), NEW c, c.thread \in Thread, NEW bad
  PROVE  /\ Descends(svc, Validated(c, bad).svc)
         /\ Validated(c, bad).ok =>
              /\ Validated(c, bad).svc.observed[ProcessOf[c.thread]] = c.image
              /\ image[ProcessOf[c.thread]] <= c.image
<1> DEFINE p == ProcessOf[c.thread]
           r == Refresh(svc, {p}, bad)
<1>1. p \in Process /\ {p} \in SUBSET Process /\ image \in [Process -> Image]
  BY ThreadAssumption DEF TypeOK
<1>a. Descends(svc, r) /\ r.registered = svc.registered
  BY Zenon, <1>1, RefreshInv
<1>b. r.observed = [o \in Process |->
              IF o \in {q \in {p} : Readable(svc, q, bad) /\ image[q] > svc.observed[q]}
                THEN image[o] ELSE svc.observed[o]]
  BY <1>1, RefreshInv
<1>2. /\ Descends(svc, r) /\ r.registered = svc.registered
      /\ r.observed[p] = IF Readable(svc, p, bad) /\ image[p] > svc.observed[p]
                           THEN image[p] ELSE svc.observed[p]
  BY ZenonT(60), <1>1, <1>a, <1>b
<1>3. Descends(svc, svc)
  BY DEF Descends
<1>4. image[p] \in Int /\ svc.observed[p] \in Int
  BY <1>1, LimitAssumption DEF SInv, Service, Image
<1>5. Readable(r, p, bad) => Readable(svc, p, bad)
  BY <1>2 DEF Readable
<1>6. Validated(c, bad) =
        [svc |-> IF c.thread \in threads THEN r ELSE svc,
         ok |-> /\ c.thread \in threads
                /\ Readable(IF c.thread \in threads THEN r ELSE svc, p, bad)
                /\ (IF c.thread \in threads THEN r ELSE svc).observed[p] = c.image]
  BY Zenon DEF Validated
<1> HIDE DEF r
<1>7. CASE c.thread \in threads
  <2>1. /\ Validated(c, bad).svc = r
        /\ Validated(c, bad).ok => Readable(r, p, bad) /\ r.observed[p] = c.image
    BY <1>6, <1>7
  <2>2. Readable(r, p, bad) /\ r.observed[p] = c.image => image[p] <= c.image
    BY <1>2, <1>4, <1>5
  <2> QED BY ZenonT(60), <1>2, <2>1, <2>2
<1>8. CASE c.thread \notin threads
  BY <1>3, <1>6, <1>8
<1> QED BY ZenonT(60), <1>7, <1>8

LEMMA RefreshedForInv ==
  ASSUME TypeOK, NEW v, SInv(v.svc), NEW file, NEW bad, NEW p \in Process
  PROVE  /\ Descends(v.svc, RefreshedFor(v, file, bad).svc)
         /\ RefreshedFor(v, file, bad).ok => v.ok
         /\ image[p] <= v.svc.observed[p]
              => RefreshedFor(v, file, bad).svc.observed[p] = v.svc.observed[p]
<1> DEFINE owners == ExecOwners(v.svc, {file})
           r == Refresh(v.svc, owners, bad)
<1>1. owners \in SUBSET Process /\ image \in [Process -> Image]
  BY ExecOwnersType DEF TypeOK, SInv
<1> HIDE DEF owners
<1>a. Descends(v.svc, r)
  BY Zenon, <1>1, RefreshInv
<1>b. r.observed = [o \in Process |->
              IF o \in {q \in owners : Readable(v.svc, q, bad) /\ image[q] > v.svc.observed[q]}
                THEN image[o] ELSE v.svc.observed[o]]
  BY <1>1, RefreshInv
<1>2. /\ Descends(v.svc, r)
      /\ r.observed[p] = IF p \in owners /\ Readable(v.svc, p, bad) /\ image[p] > v.svc.observed[p]
                           THEN image[p] ELSE v.svc.observed[p]
  BY ZenonT(60), <1>a, <1>b
<1>3. Descends(v.svc, v.svc)
  BY ZenonT(60) DEF Descends
<1>4. image[p] \in Int /\ v.svc.observed[p] \in Int
  <2>1. v.svc.observed \in [Process -> Image]
    BY ZenonT(60) DEF SInv, Service
  <2> QED BY <1>1, <2>1, LimitAssumption DEF Image
<1>5. /\ v.ok => RefreshedFor(v, file, bad).svc = r
      /\ ~v.ok => RefreshedFor(v, file, bad) = v
  BY ZenonT(60) DEF RefreshedFor, owners
<1> HIDE DEF r
<1> QED BY <1>2, <1>3, <1>4, <1>5

LEMMA DescendsTrans ==
  ASSUME NEW r, NEW s, NEW t, Descends(r, s), Descends(s, t)
  PROVE  Descends(r, t)
BY ZenonT(60) DEF Descends

\* A step that queues nothing, grants nothing and drops no deferred call.
LEMMA QuietStep ==
  ASSUME IInv, stage # "commit", TypeOK', Descends(svc, svc'), jobs' = jobs, staged' = staged
  PROVE  IInv'
<1>1. staged = {}
  BY ZenonT(60) DEF IInv
<1>2. JInv'
  BY ZenonT(60) DEF IInv, JInv, WaitHasJob, Descends
<1> QED BY ZenonT(60), <1>1, <1>2 DEF IInv, Descends

LEMMA AnswerStep ==
  ASSUME IInv, stage = "finish", NEW s, Descends(svc, s), Answer(s)
  PROVE  IInv'
<1>1. TypeOK'
  BY ZenonT(60) DEF IInv, Answer, TypeOK, Descends, SInv, Stage
<1> QED BY ZenonT(60), <1>1, QuietStep DEF Answer

\* What every lock handler starts from.
LEMMA HandlerInv ==
  ASSUME IInv, NEW c, c.thread \in Thread, NEW f, NEW bad
  PROVE  /\ Descends(svc, RefreshedFor(Validated(c, bad), f, bad).svc)
         /\ RefreshedFor(Validated(c, bad), f, bad).ok =>
              RefreshedFor(Validated(c, bad), f, bad).svc.observed[ProcessOf[c.thread]] = c.image
<1> DEFINE i == Validated(c, bad)
           p == ProcessOf[c.thread]
<1>1. /\ Descends(svc, i.svc)
      /\ i.ok => i.svc.observed[p] = c.image /\ image[p] <= c.image
      /\ p \in Process
  BY ZenonT(60), ValidatedInv, ThreadAssumption DEF IInv
<1>a. TypeOK /\ SInv(i.svc)
  BY ZenonT(60), <1>1 DEF IInv, Descends
<1> HIDE DEF i, p
<1>2. /\ Descends(i.svc, RefreshedFor(i, f, bad).svc)
      /\ RefreshedFor(i, f, bad).ok => i.ok
      /\ image[p] <= i.svc.observed[p]
           => RefreshedFor(i, f, bad).svc.observed[p] = i.svc.observed[p]
  BY ZenonT(60), <1>1, <1>a, RefreshedForInv
<1>3. /\ Descends(svc, RefreshedFor(i, f, bad).svc)
      /\ RefreshedFor(i, f, bad).ok => RefreshedFor(i, f, bad).svc.observed[p] = c.image
  BY <1>1, <1>2, DescendsTrans
<1> QED BY ZenonT(60), <1>3 DEF i, p

-----------------------------------------------------------------------------
(* Losses.                                                                 *)

\* M is what is left of L once whole (process, file) pairs have been dropped.
Loses(L, M) ==
  \E lost \in SUBSET (Process \X File) : M = {l \in L : <<l.owner, l.file>> \notin lost}

LEMMA LosesNothing ==
  ASSUME NEW L
  PROVE  Loses(L, L)
<1>1. {} \in SUBSET (Process \X File) /\ L = {l \in L : <<l.owner, l.file>> \notin {}}
  OBVIOUS
<1> QED BY Zenon, <1>1 DEF Loses

LEMMA LosesTrans ==
  ASSUME NEW L, NEW M, NEW N, Loses(L, M), Loses(M, N)
  PROVE  Loses(L, N)
<1>1. PICK a \in SUBSET (Process \X File) : M = {l \in L : <<l.owner, l.file>> \notin a}
  BY ZenonT(60) DEF Loses
<1>2. PICK b \in SUBSET (Process \X File) : N = {l \in M : <<l.owner, l.file>> \notin b}
  BY ZenonT(60) DEF Loses
<1>3. N = {l \in L : <<l.owner, l.file>> \notin a \cup b}
  BY ZenonT(60), <1>1, <1>2
<1>4. a \cup b \in SUBSET (Process \X File)
  BY ZenonT(60)
<1> QED BY Zenon, <1>3, <1>4 DEF Loses


\* Observed execs drop the prepared files of their processes.
LEMMA RefreshLoses ==
  ASSUME NEW s \in Service, NEW owners, NEW bad
  PROVE  Loses(s.locks, Refresh(s, owners, bad).locks)
<1> DEFINE seen == {p \in owners : Readable(s, p, bad) /\ image[p] > s.observed[p]}
           lost == {x \in Process \X File :
                      x[1] \in seen /\ \E e \in Completed(s, x[1]) : x[2] \in e.files}
           c == CommitObserved(s, seen)
<1>1. \A l \in s.locks : l.owner \in Process /\ l.file \in File
  BY DEF Service, Lock
<1>2. c.locks = {l \in s.locks : ~(/\ l.owner \in seen
                                   /\ \E e \in Completed(s, l.owner) : l.file \in e.files)}
  BY ZenonT(60) DEF CommitObserved, Service
<1>3. Refresh(s, owners, bad).locks = c.locks
  <2> HIDE DEF c
  <2>1. c \in Service
    <3> HIDE DEF seen
    <3> QED BY Zenon DEF c, CommitObserved, Service
  <2>2. Observe(s, seen).locks = c.locks
    BY ZenonT(60), <2>1 DEF Observe, c, Service
  <2> QED BY ZenonT(60), <2>2 DEF Refresh
<1> HIDE DEF seen, c
<1>4. \A l \in s.locks : <<l.owner, l.file>> \in lost <=>
        l.owner \in seen /\ \E e \in Completed(s, l.owner) : l.file \in e.files
  BY ZenonT(60), <1>1
<1>5. lost \in SUBSET (Process \X File)
  BY ZenonT(60)
<1> HIDE DEF lost
<1>6. c.locks = {l \in s.locks : <<l.owner, l.file>> \notin lost}
  BY ZenonT(60), <1>2, <1>4
<1> QED BY ZenonT(60), <1>3, <1>5, <1>6 DEF Loses

\* An exit drops every file of its process.
LEMMA RetireLoses ==
  ASSUME NEW s \in Service, NEW gone, NEW left
  PROVE  /\ Loses(s.locks, Retire(s, gone).locks)
         /\ WithdrawPages(Retire(s, gone), left).locks = Retire(s, gone).locks
         /\ DOMAIN Retire(s, gone) = DOMAIN s
         /\ DOMAIN WithdrawPages(Retire(s, gone), left) = DOMAIN s
<1> DEFINE lost == {x \in Process \X File : x[1] \in gone}
<1>1. \A l \in s.locks : l.owner \in Process /\ l.file \in File
  BY ZenonT(60) DEF Service, Lock
<1>2. \A l \in s.locks : <<l.owner, l.file>> \in lost <=> l.owner \in gone
  BY ZenonT(60), <1>1
<1>3. Retire(s, gone).locks = {l \in s.locks : l.owner \notin gone}
      /\ DOMAIN Retire(s, gone) = DOMAIN s
  BY ZenonT(60) DEF Retire, Service
<1>4. lost \in SUBSET (Process \X File)
  BY ZenonT(60)
<1> HIDE DEF lost
<1>5. Retire(s, gone).locks = {l \in s.locks : <<l.owner, l.file>> \notin lost}
  BY ZenonT(60), <1>2, <1>3
<1>6. /\ WithdrawPages(Retire(s, gone), left).locks = Retire(s, gone).locks
      /\ DOMAIN WithdrawPages(Retire(s, gone), left) = DOMAIN s
  <2> DEFINE r == Retire(s, gone)
  <2>1. DOMAIN r = DOMAIN s
    BY ZenonT(60), <1>3
  <2> HIDE DEF r
  <2>2. /\ WithdrawPages(r, left).locks = r.locks /\ DOMAIN WithdrawPages(r, left) = DOMAIN s
    BY ZenonT(60), <2>1 DEF WithdrawPages, Service
  <2> QED BY ZenonT(60), <2>2 DEF r
<1> QED BY ZenonT(60), <1>3, <1>4, <1>5, <1>6 DEF Loses

\* Publishing, hints and pins leave the locks alone.
LEMMA PublishLocks ==
  ASSUME NEW s \in Service, NEW p \in Process
  PROVE  Publish(s, p).locks = s.locks
BY DEF Hint, Publish, Service

LEMMA StoreLocks ==
  ASSUME NEW s \in Service, NEW p \in Process, NEW L, NEW F
  PROVE  Store(s, p, L, F).locks = L
BY ZenonT(60) DEF Store, Publish, Hint, Service

LEMMA StoredLocks ==
  ASSUME NEW s \in Service, NEW p \in Process, NEW L, NEW F
  PROVE  ReleaseUnused(Store(s, p, L, F)).locks = L
<1> DEFINE u == Store(s, p, L, F)
<1>1. u.locks = L /\ DOMAIN u = DOMAIN s
  BY ZenonT(60) DEF Store, Publish, Hint, Service
<1> HIDE DEF u
<1>2. ReleaseUnused(u).locks = L
  BY ZenonT(60), <1>1 DEF ReleaseUnused, Service
<1> QED BY ZenonT(60), <1>2 DEF u

-----------------------------------------------------------------------------
\* An open grant is the replacement of an unblocked request in the locks held
\* now: nothing else reaches the registry between the reply and the commit.
Pending(s, g) ==
  \E f \in File, k \in Kind, r \in ByteRange :
    /\ g.locks = Replacement(s.locks, g.owner, f, k, r)
    /\ Blockers(s.locks, g.owner, f, k, r) = {}

GrantsFresh == \A g \in staged : Pending(svc, g)

-----------------------------------------------------------------------------
(* What the handlers come to, once the caller's image and the prepared execs *)
(* have been looked at: v is what that look leaves.                          *)

LockOutcome(c, v) ==
  LET p == ProcessOf[c.thread]
      r == c.request
      s == ReleaseUnused(v.svc)
      Set(locks, pins) == Answer(ReleaseUnused(Store(s, p, locks, pins)))
  IN  \/ Answer(v.svc)
      \/ /\ v.ok /\ Admitted(v.svc, p)
         /\ \/ Answer(s)
            \/ Answer(Publish(s, p))
            \/ Set(ReleaseFile(s.locks, p, r.file), {})
            \/ r.op = "unlock" /\ Set(Pieces(s.locks, p, r.file, r.range), {})
            \/ r.op = "unlock" /\ Set(Coalesce(Pieces(s.locks, p, r.file, r.range)), {})
            \/ /\ r.op = "set" /\ Blockers(s.locks, p, r.file, r.kind, r.range) = {}
               /\ Set(Replacement(s.locks, p, r.file, r.kind, r.range), {r.file})

LEMMA RecordLockCases ==
  ASSUME NEW c, FinishRecordLock(c)
  PROVE  \E bad \in SUBSET Unreadable :
           LockOutcome(c, RefreshedFor(Validated(c, bad), c.request.file, bad))
BY ZenonT(60) DEF FinishRecordLock, Unlocked, LockOutcome

RetryOutcome(j, v) ==
  LET p == ProcessOf[j.thread]
      s == v.svc
      found == MatchingWait(s, p, j.token)
      consumed == [s EXCEPT !.waits = @ \ found]
  IN  \/ svc' = consumed /\ jobs' = jobs \ {j} /\ UNCHANGED <<stage, staged>>
      \/ v.ok /\ svc' = s /\ UNCHANGED <<stage, staged, jobs>>
      \/ \E w \in found :
           /\ BlockersOf(s.locks, w) = {}
           /\ StageGrant(consumed, p, Replacement(s.locks, p, w.file, w.kind, w.range),
                         {}, j.thread, "retry")
           /\ jobs' = jobs \ {j}

\* A retry goes on only while nothing has interrupted the call.
Resumed(j, bad, signalled) ==
  LET i == Validated(j, bad)
  IN  [i EXCEPT !.ok = i.ok /\ epoch[j.thread] = j.epoch /\ ~signalled]

LEMMA RetryCases ==
  ASSUME NEW j, RetryJob(j)
  PROVE  \E bad \in SUBSET Unreadable, signalled \in BOOLEAN :
           RetryOutcome(j, RefreshedFor(Resumed(j, bad, signalled), j.file, bad))
<1> DEFINE p == ProcessOf[j.thread]
<1>1. PICK bad \in SUBSET Unreadable, signalled \in BOOLEAN, oom \in BOOLEAN :
     LET i == Validated(j, bad)
         e == [i EXCEPT !.ok = i.ok /\ epoch[j.thread] = j.epoch /\ ~signalled]
         v == RefreshedFor(e, j.file, bad)
         found == MatchingWait(v.svc, p, j.token)
         consumed == [v.svc EXCEPT !.waits = @ \ found]
     IN  \/ /\ ~v.ok \/ found = {}
            /\ svc' = consumed
            /\ jobs' = jobs \ {j}
            /\ UNCHANGED <<stage, staged>>
         \/ /\ v.ok
            /\ \E w \in found :
               LET prepared == Replacement(v.svc.locks, p, w.file, w.kind, w.range)
               IN  \/ /\ BlockersOf(v.svc.locks, w) # {}
                      /\ svc' = v.svc
                      /\ UNCHANGED <<stage, staged, jobs>>
                   \/ /\ BlockersOf(v.svc.locks, w) = {}
                      /\ oom \/ ~Fits(prepared, p)
                      /\ svc' = consumed
                      /\ jobs' = jobs \ {j}
                      /\ UNCHANGED <<stage, staged>>
                   \/ /\ BlockersOf(v.svc.locks, w) = {}
                      /\ ~oom /\ Fits(prepared, p)
                      /\ StageGrant(consumed, p, prepared, {}, j.thread, "retry")
                      /\ jobs' = jobs \ {j}
  BY ZenonT(60) DEF RetryJob
<1> DEFINE v == RefreshedFor(Resumed(j, bad, signalled), j.file, bad)
           s == v.svc
           found == MatchingWait(s, p, j.token)
           consumed == [s EXCEPT !.waits = @ \ found]
<1>2. \/ svc' = consumed /\ jobs' = jobs \ {j} /\ UNCHANGED <<stage, staged>>
      \/ v.ok /\ svc' = s /\ UNCHANGED <<stage, staged, jobs>>
      \/ \E w \in found :
           /\ BlockersOf(s.locks, w) = {}
           /\ StageGrant(consumed, p, Replacement(s.locks, p, w.file, w.kind, w.range),
                         {}, j.thread, "retry")
           /\ jobs' = jobs \ {j}
  BY Zenon, <1>1 DEF Resumed
<1> QED BY Zenon, <1>2 DEF RetryOutcome

LEMMA ResumedIs ==
  ASSUME NEW j, NEW bad, NEW signalled
  PROVE  Resumed(j, bad, signalled).svc = Validated(j, bad).svc
BY DEF Resumed, Validated

WaitOutcome(c, v) ==
  LET p == ProcessOf[c.thread]
      r == c.request
      s == ReleaseUnused(v.svc)
      w == [owner |-> p, revision |-> s.observed[p], file |-> r.file,
            kind |-> r.kind, range |-> r.range, token |-> s.nextWait]
      j == [thread |-> c.thread, image |-> c.image, epoch |-> c.epoch,
            token |-> w.token, file |-> r.file]
  IN  \/ Answer(v.svc)
      \/ Answer(s)
      \/ /\ v.ok /\ Admitted(v.svc, p) /\ ~QueueFull(s, p) /\ ~Deadlocks(s, w)
         /\ svc' = Enqueue(s, w)
         /\ jobs' = jobs \cup {j}
         /\ call' = {} /\ stage' = "exits"
         /\ UNCHANGED <<epoch, image, alive, threads, staged, todo>>
      \/ /\ Admitted(v.svc, p) /\ BlockersOf(s.locks, w) = {}
         /\ StageGrant(s, p, Replacement(s.locks, p, r.file, r.kind, r.range), {r.file},
                       c.thread, "exits")
         /\ call' = {}
         /\ UNCHANGED <<epoch, image, alive, threads, jobs, todo>>

LEMMA WaitCases ==
  ASSUME NEW c, FinishWait(c)
  PROVE  \E bad \in SUBSET Unreadable :
           WaitOutcome(c, RefreshedFor(Validated(c, bad), c.request.file, bad))
BY ZenonT(60) DEF FinishWait, WaitOutcome

ExecOutcome(c, v) ==
  LET p == ProcessOf[c.thread]
      r == c.request
      s == v.svc
      named == {e \in {x \in s.execs : x.owner = p} : e.token = r.token}
      owned == {f \in r.files : OwnsFile(s.locks, p, f)}
      new == [owner |-> p, revision |-> s.observed[p], token |-> s.nextExec, files |-> owned]
      grown == {[e EXCEPT !.files = @ \cup owned] : e \in named}
  IN  \/ Answer(s)
      \/ /\ v.ok /\ Admitted(s, p)
         /\ \/ /\ r.op = "prepare" /\ ~(s.nextExec > MaxToken)
               /\ Answer([s EXCEPT !.nextExec = @ + 1, !.execs = @ \cup {new}])
            \/ /\ r.op = "extend"
               /\ Answer([s EXCEPT !.execs = (@ \ named) \cup grown])
            \/ Answer([s EXCEPT !.execs = @ \ named])

LEMMA ExecCases ==
  ASSUME NEW c, FinishExec(c)
  PROVE  \E bad \in SUBSET Unreadable : ExecOutcome(c, Validated(c, bad))
<1> DEFINE p == ProcessOf[c.thread]
           r == c.request
<1>1. PICK bad \in SUBSET Unreadable :
     LET v == Validated(c, bad)
         s == v.svc
         mine == {e \in s.execs : e.owner = p}
         named == {e \in mine : e.token = r.token}
         owned == {f \in r.files : OwnsFile(s.locks, p, f)}
     IN  IF ~v.ok \/ ~Admitted(s, p) THEN Answer(s) ELSE
         \/ /\ r.op = "prepare"
            /\ IF \/ mine # {} \/ owned = {}
                  \/ Cardinality(s.execs) >= MAX_PREPARATIONS
                  \/ s.nextExec > MaxToken
                 THEN Answer(s)
                 ELSE Answer([s EXCEPT !.nextExec = @ + 1,
                        !.execs = @ \cup {[owner |-> p, revision |-> s.observed[p],
                                          token |-> s.nextExec, files |-> owned]}])
         \/ /\ r.op = "extend"
            /\ IF \A e \in named : Cardinality(e.files \cup owned) > MAX_LOCKS_PER_PROCESS
                 THEN Answer(s)
                 ELSE Answer([s EXCEPT !.execs = (@ \ named) \cup
                                {[e EXCEPT !.files = @ \cup owned] : e \in named}])
         \/ r.op = "cancel" /\ Answer([s EXCEPT !.execs = @ \ named])
  BY Zenon DEF FinishExec
<1> DEFINE s == Validated(c, bad).svc
           named == {e \in {x \in s.execs : x.owner = p} : e.token = r.token}
           owned == {f \in r.files : OwnsFile(s.locks, p, f)}
           new == [owner |-> p, revision |-> s.observed[p], token |-> s.nextExec, files |-> owned]
           grown == {[e EXCEPT !.files = @ \cup owned] : e \in named}
<1>2. \/ Answer(s)
      \/ /\ Validated(c, bad).ok /\ Admitted(s, p)
         /\ \/ /\ r.op = "prepare" /\ ~(s.nextExec > MaxToken)
               /\ Answer([s EXCEPT !.nextExec = @ + 1, !.execs = @ \cup {new}])
            \/ /\ r.op = "extend"
               /\ Answer([s EXCEPT !.execs = (@ \ named) \cup grown])
            \/ Answer([s EXCEPT !.execs = @ \ named])
  BY SMTT(60), <1>1
<1> QED BY ZenonT(60), <1>2 DEF ExecOutcome

-----------------------------------------------------------------------------
(* Coalescing keeps every byte.                                            *)

\* The runs of bytes that contain a byte and that P covers for a's owner.
Runs(P, a, byte) ==
  {r \in ByteRange : /\ r.start <= byte /\ byte < r.end
                     /\ \A b \in r.start..(r.end - 1) : Covers(P, a, b)}

\* Of the runs around a covered byte one is maximal: one that leaves the fewest
\* bytes out, and < is well founded on the naturals.
LEMMA MaximalRun ==
  ASSUME NEW P, NEW a, NEW byte, NEW q \in Runs(P, a, byte)
  PROVE  \E r \in Runs(P, a, byte) : \A s \in Runs(P, a, byte) :
           (s.start <= r.start /\ r.end <= s.end) => s = r
<1> DEFINE Out(r) == END + r.start - r.end
           Less == {x \in Nat \X Nat : x[1] < x[2]}
           T == {Out(r) : r \in Runs(P, a, byte)}
<1>1. IsWellFoundedOn(Less, Nat)
  BY ZenonT(60), NatLessThanWellFounded DEF OpToRel
<1>2. ASSUME NEW r \in Runs(P, a, byte)
      PROVE  /\ r \in [start : 0..END, end : 0..END] /\ r.start \in 0..END /\ r.end \in 0..END
             /\ Out(r) \in Nat
  BY EndAssumption DEF Runs, ByteRange
<1>3. T \subseteq Nat /\ Out(q) \in T
  BY ZenonT(60), <1>2
<1>4. PICK m \in T : \A y \in T : ~(<<y, m>> \in Less)
  <2> HIDE DEF T, Less, Out
  <2> QED BY ZenonT(60), <1>1, <1>3, WFMin
<1>5. PICK r \in Runs(P, a, byte) : m = Out(r)
  BY <1>4
<1>6. ASSUME NEW s \in Runs(P, a, byte), s.start <= r.start, r.end <= s.end
      PROVE  s = r
  <2>1. Out(s) \in T /\ Out(s) \in Nat /\ Out(r) \in Nat
    BY <1>2
  <2>2. ~(Out(s) < Out(r))
    BY ZenonT(60), <1>4, <1>5, <2>1
  <2>3. s.start = r.start /\ s.end = r.end
    BY <1>2, <1>6, <2>2, EndAssumption
  <2> QED BY <1>2, <2>3
<1> QED BY ZenonT(60), <1>6

\* What covers a byte before the merge covers it after, with the same kind.
LEMMA CoalesceCovers ==
  ASSUME NEW P \in SUBSET Lock, NEW l \in P, NEW byte \in Int,
         l.range.start <= byte, byte < l.range.end
  PROVE  \E c \in Coalesce(P) : /\ c.file = l.file /\ c.owner = l.owner /\ c.kind = l.kind
                                /\ c.range.start <= byte /\ byte < c.range.end
<1>1. /\ l \in Lock /\ l.range \in ByteRange
      /\ l.range.start \in 0..END /\ l.range.end \in 0..END
  BY DEF Lock, ByteRange
<1>2. \A b \in l.range.start..(l.range.end - 1) : Covers(P, l, b)
  BY <1>1, EndAssumption DEF Covers
<1>3. l.range \in Runs(P, l, byte)
  BY ZenonT(60), <1>1, <1>2 DEF Runs
<1>4. PICK r \in Runs(P, l, byte) : \A s \in Runs(P, l, byte) :
        (s.start <= r.start /\ r.end <= s.end) => s = r
  BY ZenonT(60), <1>3, MaximalRun
<1>5. /\ r \in ByteRange /\ r.start \in 0..END /\ r.end \in 0..END
      /\ r.start <= byte /\ byte < r.end
      /\ \A b \in r.start..(r.end - 1) : Covers(P, l, b)
  BY ZenonT(60), <1>4 DEF Runs, ByteRange
<1> DEFINE c == [file |-> l.file, owner |-> l.owner, kind |-> l.kind, range |-> r]
<1>6. c \in Lock /\ \A b : Covers(P, c, b) <=> Covers(P, l, b)
  BY ZenonT(60), <1>1, <1>5 DEF Lock, Covers
<1>7. \A b \in Int : Covers(P, l, b) => b \in 0..(END - 1)
  <2> SUFFICES ASSUME NEW b \in Int, NEW k \in P, k.range.start <= b, b < k.range.end
               PROVE  b \in 0..(END - 1)
    BY ZenonT(60) DEF Covers
  <2>1. k.range.start \in 0..END /\ k.range.end \in 0..END
    BY ZenonT(60) DEF Lock, ByteRange
  <2> QED BY <2>1, EndAssumption
<1>8. ~Covers(P, l, r.start - 1)
  <2> SUFFICES ASSUME Covers(P, l, r.start - 1) PROVE FALSE
    BY ZenonT(60)
  <2> DEFINE s == [start |-> r.start - 1, end |-> r.end]
  <2>1. r.start - 1 \in 0..END
    BY <1>5, <1>7, EndAssumption
  <2>2. s \in ByteRange /\ s.start = r.start - 1 /\ s.end = r.end
    BY <1>5, <2>1, EndAssumption DEF ByteRange
  <2>3. \A b \in (r.start - 1)..(r.end - 1) : Covers(P, l, b)
    BY <1>5, EndAssumption
  <2>4. s \in Runs(P, l, byte)
    BY <1>5, <2>2, <2>3, EndAssumption DEF Runs
  <2>5. s = r
    BY <1>4, <1>5, <2>2, <2>4, EndAssumption
  <2> QED BY <1>5, <2>2, <2>5, EndAssumption
<1>9. ~Covers(P, l, r.end)
  <2> SUFFICES ASSUME Covers(P, l, r.end) PROVE FALSE
    BY ZenonT(60)
  <2> DEFINE s == [start |-> r.start, end |-> r.end + 1]
  <2>1. r.end + 1 \in 0..END
    BY <1>5, <1>7, EndAssumption
  <2>2. s \in ByteRange /\ s.start = r.start /\ s.end = r.end + 1
    BY <1>5, <2>1, EndAssumption DEF ByteRange
  <2>3. \A b \in r.start..(s.end - 1) : Covers(P, l, b)
    BY <1>5, <2>2, EndAssumption
  <2>4. s \in Runs(P, l, byte)
    BY <1>5, <2>2, <2>3, EndAssumption DEF Runs
  <2>5. s = r
    BY <1>4, <1>5, <2>2, <2>4, EndAssumption
  <2> QED BY <1>5, <2>2, <2>5, EndAssumption
<1>10. c \in Coalesce(P)
  BY ZenonT(60), <1>5, <1>6, <1>8, <1>9 DEF Coalesce
<1> QED BY <1>5, <1>10

-----------------------------------------------------------------------------
(* What the operations on lock sets do to the bytes.                       *)

\* Some lock of p covers the byte of the file in the given kind.
CoveredBy(L, f, b, p, k) ==
  \E l \in L : l.file = f /\ l.owner = p /\ l.kind = k /\ l.range.start <= b /\ b < l.range.end

\* Cutting a range out of p's locks on f takes these bytes from p, and nothing else.
LEMMA PiecesCover ==
  ASSUME NEW L \in SUBSET Lock, NEW p, NEW f, NEW r \in ByteRange,
         NEW g, NEW b \in Int, NEW q, NEW k
  PROVE  CoveredBy(Pieces(L, p, f, r), g, b, q, k) <=>
           /\ CoveredBy(L, g, b, q, k)
           /\ ~(g = f /\ q = p /\ r.start <= b /\ b < r.end)
<1> DEFINE P == Pieces(L, p, f, r)
<1>0. r.start \in 0..END /\ r.end \in 0..END /\ r.start < r.end
  BY ZenonT(60) DEF ByteRange
<1>a. ASSUME NEW l \in L PROVE l.range.start \in 0..END /\ l.range.end \in 0..END
  BY ZenonT(60) DEF Lock, ByteRange
<1>1. ASSUME NEW a \in P, a.file = g, a.owner = q, a.kind = k, a.range.start <= b, b < a.range.end
      PROVE  /\ CoveredBy(L, g, b, q, k)
             /\ ~(g = f /\ q = p /\ r.start <= b /\ b < r.end)
  <2>0. a \in Lock
    BY ZenonT(60), <1>1, PiecesType
  <2>1. a.range.start \in 0..END /\ a.range.end \in 0..END
    BY ZenonT(60), <2>0 DEF Lock, ByteRange
  <2>2. PICK l \in L : /\ l.file = a.file /\ l.owner = a.owner /\ l.kind = a.kind
                       /\ l.range.start <= a.range.start /\ a.range.end <= l.range.end
    BY ZenonT(60), <1>1, PiecesFrom
  <2>3. CoveredBy(L, g, b, q, k)
    BY <1>1, <1>a, <2>1, <2>2, EndAssumption DEF CoveredBy
  <2>4. ~(g = f /\ q = p /\ r.start <= b /\ b < r.end)
    <3>1. CASE a \in L \ Touched(L, p, f, r)
      BY <1>0, <1>1, <2>1, <3>1, EndAssumption DEF Touched, Overlaps
    <3>2. CASE a \notin L \ Touched(L, p, f, r)
      <4>1. PICK m \in Touched(L, p, f, r) : a \in Remnants(m, r)
        BY ZenonT(60), <1>1, <3>2 DEF Pieces
      <4>2. m \in L /\ m \in Lock
        BY ZenonT(60) DEF Touched
      <4>3. \/ a.range = [start |-> m.range.start, end |-> r.start]
            \/ a.range = [start |-> r.end, end |-> m.range.end]
        BY ZenonT(60), <4>1, <4>2 DEF Remnants, Lock
      <4> QED BY <1>0, <1>1, <2>1, <4>3, EndAssumption
    <3> QED BY ZenonT(60), <3>1, <3>2
  <2> QED BY ZenonT(60), <2>3, <2>4
<1>2. ASSUME NEW l \in L, l.file = g, l.owner = q, l.kind = k, l.range.start <= b, b < l.range.end,
             ~(g = f /\ q = p /\ r.start <= b /\ b < r.end)
      PROVE  CoveredBy(P, g, b, q, k)
  <2>1. CASE l \notin Touched(L, p, f, r)
    <3>1. l \in P
      BY ZenonT(60), <2>1 DEF Pieces
    <3> QED BY ZenonT(60), <1>2, <3>1 DEF CoveredBy
  <2>2. CASE l \in Touched(L, p, f, r) /\ b < r.start
    <3> DEFINE c == [l EXCEPT !.range = [start |-> l.range.start, end |-> r.start]]
    <3>0. l \in Lock
      BY ZenonT(60)
    <3>1. /\ c.file = l.file /\ c.owner = l.owner /\ c.kind = l.kind
          /\ c.range.start = l.range.start /\ c.range.end = r.start
      BY ZenonT(60), <3>0 DEF Lock
    <3>2. c.range.start < c.range.end
      BY <1>0, <1>2, <1>a, <2>2, <3>1, EndAssumption
    <3>3. c \in Remnants(l, r)
      BY Zenon, <3>2 DEF Remnants
    <3> HIDE DEF c
    <3>4. c \in P
      BY ZenonT(60), <2>2, <3>3 DEF Pieces
    <3> QED BY ZenonT(60), <1>2, <2>2, <3>1, <3>4 DEF CoveredBy
  <2>3. CASE l \in Touched(L, p, f, r) /\ r.end <= b
    <3> DEFINE c == [l EXCEPT !.range = [start |-> r.end, end |-> l.range.end]]
    <3>0. l \in Lock
      BY ZenonT(60)
    <3>1. /\ c.file = l.file /\ c.owner = l.owner /\ c.kind = l.kind
          /\ c.range.start = r.end /\ c.range.end = l.range.end
      BY ZenonT(60), <3>0 DEF Lock
    <3>2. c.range.start < c.range.end
      BY <1>0, <1>2, <1>a, <2>3, <3>1, EndAssumption
    <3>3. c \in Remnants(l, r)
      BY Zenon, <3>2 DEF Remnants
    <3> HIDE DEF c
    <3>4. c \in P
      BY ZenonT(60), <2>3, <3>3 DEF Pieces
    <3> QED BY ZenonT(60), <1>2, <2>3, <3>1, <3>4 DEF CoveredBy
  <2>4. l \in Touched(L, p, f, r) => b < r.start \/ r.end <= b
    BY <1>0, <1>2, EndAssumption DEF Touched
  <2> QED BY ZenonT(60), <2>1, <2>2, <2>3, <2>4
<1> HIDE DEF P
<1>3. CoveredBy(P, g, b, q, k) =>
           /\ CoveredBy(L, g, b, q, k)
           /\ ~(g = f /\ q = p /\ r.start <= b /\ b < r.end)
  BY ZenonT(60), <1>1 DEF CoveredBy
<1>4. CoveredBy(L, g, b, q, k) /\ ~(g = f /\ q = p /\ r.start <= b /\ b < r.end)
        => CoveredBy(P, g, b, q, k)
  <2> SUFFICES ASSUME CoveredBy(L, g, b, q, k), ~(g = f /\ q = p /\ r.start <= b /\ b < r.end)
               PROVE  CoveredBy(P, g, b, q, k)
    BY ZenonT(60)
  <2>1. PICK l \in L : l.file = g /\ l.owner = q /\ l.kind = k /\ l.range.start <= b /\ b < l.range.end
    BY ZenonT(60) DEF CoveredBy
  <2> QED BY ZenonT(60), <1>2, <2>1
<1> QED BY ZenonT(60), <1>3, <1>4 DEF P

\* Merging changes no byte.
LEMMA CoalesceCover ==
  ASSUME NEW P \in SUBSET Lock, NEW g, NEW b \in Int, NEW q, NEW k
  PROVE  CoveredBy(Coalesce(P), g, b, q, k) <=> CoveredBy(P, g, b, q, k)
<1>1. ASSUME NEW c \in Coalesce(P), c.file = g, c.owner = q, c.kind = k,
             c.range.start <= b, b < c.range.end
      PROVE  CoveredBy(P, g, b, q, k)
  <2>1. c.range.start \in 0..END /\ c.range.end \in 0..END
    BY ZenonT(60), <1>1 DEF Coalesce, Lock, ByteRange
  <2>2. b \in c.range.start..(c.range.end - 1)
    BY <1>1, <2>1, EndAssumption
  <2> QED BY ZenonT(60), <1>1, <2>2, CoalesceWitness DEF CoveredBy
<1>2. CoveredBy(P, g, b, q, k) => CoveredBy(Coalesce(P), g, b, q, k)
  BY CoalesceCovers DEF CoveredBy
<1> QED BY ZenonT(60), <1>1, <1>2 DEF CoveredBy

-----------------------------------------------------------------------------
(* The registry is its own merge.                                          *)

\* No two records of one owner, file and kind touch or overlap.
Merged(L) == L \in SUBSET Lock /\ L = Coalesce(L)

\* Two maximal runs that share a byte are the same record.
LEMMA RunsUnique ==
  ASSUME NEW P \in SUBSET Lock, NEW a \in Coalesce(P), NEW c \in Coalesce(P),
         a.file = c.file, a.owner = c.owner, a.kind = c.kind,
         NEW b \in Int, a.range.start <= b, b < a.range.end, c.range.start <= b, b < c.range.end
  PROVE  a = c
<1>1. /\ a \in Lock /\ c \in Lock /\ a.range \in ByteRange /\ c.range \in ByteRange
      /\ a.range.start \in 0..END /\ a.range.end \in 0..END
      /\ c.range.start \in 0..END /\ c.range.end \in 0..END
  BY ZenonT(60) DEF Coalesce, Lock, ByteRange
<1>2. \A x : Covers(P, a, x) <=> Covers(P, c, x)
  BY ZenonT(60) DEF Covers
<1>3. /\ \A x \in a.range.start..(a.range.end - 1) : Covers(P, a, x)
      /\ ~Covers(P, a, a.range.start - 1) /\ ~Covers(P, a, a.range.end)
      /\ \A x \in c.range.start..(c.range.end - 1) : Covers(P, a, x)
      /\ ~Covers(P, a, c.range.start - 1) /\ ~Covers(P, a, c.range.end)
  BY ZenonT(60), <1>2 DEF Coalesce
<1>4. a.range.start = c.range.start
  <2>1. ~(a.range.start < c.range.start)
    <3> SUFFICES ASSUME a.range.start < c.range.start PROVE FALSE
      BY ZenonT(60)
    <3>1. c.range.start - 1 \in a.range.start..(a.range.end - 1)
      BY <1>1, EndAssumption
    <3> QED BY ZenonT(60), <1>3, <3>1
  <2>2. ~(c.range.start < a.range.start)
    <3> SUFFICES ASSUME c.range.start < a.range.start PROVE FALSE
      BY ZenonT(60)
    <3>1. a.range.start - 1 \in c.range.start..(c.range.end - 1)
      BY <1>1, EndAssumption
    <3> QED BY ZenonT(60), <1>3, <3>1
  <2> QED BY <1>1, <2>1, <2>2, EndAssumption
<1>5. a.range.end = c.range.end
  <2>1. ~(a.range.end < c.range.end)
    <3> SUFFICES ASSUME a.range.end < c.range.end PROVE FALSE
      BY ZenonT(60)
    <3>1. a.range.end \in c.range.start..(c.range.end - 1)
      BY <1>1, EndAssumption
    <3> QED BY ZenonT(60), <1>3, <3>1
  <2>2. ~(c.range.end < a.range.end)
    <3> SUFFICES ASSUME c.range.end < a.range.end PROVE FALSE
      BY ZenonT(60)
    <3>1. c.range.end \in a.range.start..(a.range.end - 1)
      BY <1>1, EndAssumption
    <3> QED BY ZenonT(60), <1>3, <3>1
  <2> QED BY <1>1, <2>1, <2>2, EndAssumption
<1>6. a.range = c.range
  BY <1>1, <1>4, <1>5 DEF ByteRange
<1> QED BY <1>1, <1>6 DEF Lock

\* Whether a record is a maximal run depends on the bytes covered for it alone.
LEMMA RunsAlike ==
  ASSUME NEW P, NEW Q, NEW l \in Lock, \A b \in Int : Covers(P, l, b) <=> Covers(Q, l, b)
  PROVE  l \in Coalesce(P) <=> l \in Coalesce(Q)
<1>1. l.range.start \in 0..END /\ l.range.end \in 0..END
  BY ZenonT(60) DEF Lock, ByteRange
<1>2. /\ l.range.start - 1 \in Int /\ l.range.end \in Int
      /\ \A b \in l.range.start..(l.range.end - 1) : b \in Int
  BY <1>1, EndAssumption
<1> QED BY ZenonT(60), <1>2 DEF Coalesce

\* A maximal run covers its first byte.
LEMMA RunStarts ==
  ASSUME NEW P, NEW l \in Coalesce(P)
  PROVE  Covers(P, l, l.range.start) /\ l.range.start \in Int /\ l.range.start < l.range.end
<1>1. /\ l \in Lock /\ l.range.start \in 0..END /\ l.range.end \in 0..END
      /\ l.range.start < l.range.end
  BY ZenonT(60) DEF Coalesce, Lock, ByteRange
<1>2. l.range.start \in l.range.start..(l.range.end - 1)
  BY <1>1, EndAssumption
<1> QED BY <1>1, <1>2, EndAssumption DEF Coalesce

LEMMA MergedCoalesce ==
  ASSUME NEW P \in SUBSET Lock
  PROVE  Merged(Coalesce(P))
<1> DEFINE C == Coalesce(P)
<1>1. C \in SUBSET Lock
  BY ZenonT(60), ReplacementType
<1>2. ASSUME NEW l \in Lock, NEW b \in Int
      PROVE  Covers(C, l, b) <=> Covers(P, l, b)
  <2>1. CoveredBy(C, l.file, b, l.owner, l.kind) <=> CoveredBy(P, l.file, b, l.owner, l.kind)
    BY ZenonT(60), CoalesceCover
  <2> HIDE DEF C
  <2> QED BY ZenonT(60), <2>1 DEF Covers, CoveredBy
<1> HIDE DEF C
<1>3. \A l \in Lock : l \in Coalesce(C) <=> l \in Coalesce(P)
  BY ZenonT(60), <1>2, RunsAlike
<1>4. Coalesce(C) \in SUBSET Lock
  BY ZenonT(60), ReplacementType
<1>5. Coalesce(C) = C
  BY ZenonT(60), <1>1, <1>3, <1>4 DEF C
<1> QED BY ZenonT(60), <1>1, <1>5 DEF Merged, C

\* Dropping whole files of a process leaves the others merged.
LEMMA MergedLoses ==
  ASSUME NEW L, Merged(L), NEW M, Loses(L, M)
  PROVE  Merged(M)
<1>1. PICK lost \in SUBSET (Process \X File) : M = {l \in L : <<l.owner, l.file>> \notin lost}
  BY ZenonT(60) DEF Loses
<1>2. L \in SUBSET Lock /\ M \in SUBSET Lock /\ L = Coalesce(L)
  BY ZenonT(60), <1>1 DEF Merged
<1>3. ASSUME NEW l \in Lock, <<l.owner, l.file>> \notin lost
      PROVE  l \in Coalesce(M) <=> l \in Coalesce(L)
  <2>1. ASSUME NEW b \in Int PROVE Covers(M, l, b) <=> Covers(L, l, b)
    BY Zenon, <1>1, <1>3 DEF Covers
  <2> QED BY ZenonT(60), <2>1, RunsAlike
<1>4. ASSUME NEW l \in Coalesce(M) PROVE <<l.owner, l.file>> \notin lost /\ l \in Lock
  <2>1. Covers(M, l, l.range.start)
    BY ZenonT(60), RunStarts
  <2>2. PICK m \in M : m.file = l.file /\ m.owner = l.owner
    BY ZenonT(60), <2>1 DEF Covers
  <2> QED BY ZenonT(60), <1>1, <2>2 DEF Coalesce
<1>5. ASSUME NEW l PROVE l \in Coalesce(M) <=> l \in M
  <2>1. l \in M => l \in Coalesce(M)
    BY ZenonT(60), <1>1, <1>2, <1>3
  <2>2. l \in Coalesce(M) => l \in M
    <3> SUFFICES ASSUME l \in Coalesce(M) PROVE l \in M
      BY ZenonT(60)
    <3>1. <<l.owner, l.file>> \notin lost /\ l \in Lock
      BY ZenonT(60), <1>4
    <3>2. l \in L
      BY ZenonT(60), <1>2, <1>3, <3>1
    <3> QED BY ZenonT(60), <1>1, <3>1, <3>2
  <2> QED BY ZenonT(60), <2>1, <2>2
<1>6. Coalesce(M) = M
  BY ZenonT(60), <1>5
<1> QED BY ZenonT(60), <1>2, <1>6 DEF Merged

\* Cutting a range out of merged records needs no merge: the code skips it when
\* the list does not grow.
LEMMA MergedPieces ==
  ASSUME NEW L, Merged(L), NEW p \in Process, NEW f \in File, NEW r \in ByteRange
  PROVE  Merged(Pieces(L, p, f, r))
<1> DEFINE P == Pieces(L, p, f, r)
<1>1. L \in SUBSET Lock /\ L = Coalesce(L)
  BY ZenonT(60) DEF Merged
<1>2. P \in SUBSET Lock
  BY ZenonT(60), <1>1, PiecesType
<1>3. r.start \in 0..END /\ r.end \in 0..END /\ r.start < r.end
  BY ZenonT(60) DEF ByteRange
<1>4. ASSUME NEW l \in Lock, NEW b \in Int
      PROVE  Covers(P, l, b) <=> Covers(L, l, b)
                                /\ ~(l.file = f /\ l.owner = p /\ r.start <= b /\ b < r.end)
  <2>1. CoveredBy(P, l.file, b, l.owner, l.kind) <=>
          /\ CoveredBy(L, l.file, b, l.owner, l.kind)
          /\ ~(l.file = f /\ l.owner = p /\ r.start <= b /\ b < r.end)
    BY ZenonT(60), <1>1, PiecesCover
  <2> HIDE DEF P
  <2> QED BY ZenonT(60), <2>1 DEF Covers, CoveredBy
<1>5. ASSUME NEW a \in P PROVE a \in Coalesce(P)
  <2>1. a \in Lock /\ a.range.start \in 0..END /\ a.range.end \in 0..END /\ a.range.start < a.range.end
    BY ZenonT(60), <1>2 DEF Lock, ByteRange
  <2>2. \A b \in a.range.start..(a.range.end - 1) : Covers(P, a, b)
    <3> HIDE DEF P
    <3> QED BY <2>1, EndAssumption DEF Covers
  <2>3. a.range.start - 1 \in Int /\ a.range.end \in Int
    BY <2>1, EndAssumption
  <2>4. ASSUME NEW l \in L
        PROVE  ~Covers(L, l, l.range.start - 1) /\ ~Covers(L, l, l.range.end)
    BY Zenon, <1>1 DEF Coalesce
  <2>5. ~Covers(L, a, a.range.start - 1) \/ (a.file = f /\ a.owner = p /\ a.range.start = r.end)
    <3>1. CASE a \in L
      BY ZenonT(60), <2>4, <3>1
    <3>2. CASE a \notin L
      <4>1. PICK m \in Touched(L, p, f, r) : a \in Remnants(m, r)
        BY ZenonT(60), <3>2 DEF Pieces
      <4>2. m \in L /\ m \in Lock /\ m.owner = p /\ m.file = f
        BY ZenonT(60), <1>1 DEF Touched
      <4>3. /\ a.file = m.file /\ a.owner = m.owner /\ a.kind = m.kind
            /\ \/ a.range = [start |-> m.range.start, end |-> r.start]
               \/ a.range = [start |-> r.end, end |-> m.range.end]
        BY ZenonT(60), <4>1, <4>2 DEF Remnants, Lock
      <4>4. \A x : Covers(L, a, x) <=> Covers(L, m, x)
        BY ZenonT(60), <4>3 DEF Covers
      <4> QED BY <2>4, <4>2, <4>3, <4>4
    <3> QED BY ZenonT(60), <3>1, <3>2
  <2>6. ~Covers(L, a, a.range.end) \/ (a.file = f /\ a.owner = p /\ a.range.end = r.start)
    <3>1. CASE a \in L
      BY ZenonT(60), <2>4, <3>1
    <3>2. CASE a \notin L
      <4>1. PICK m \in Touched(L, p, f, r) : a \in Remnants(m, r)
        BY ZenonT(60), <3>2 DEF Pieces
      <4>2. m \in L /\ m \in Lock /\ m.owner = p /\ m.file = f
        BY ZenonT(60), <1>1 DEF Touched
      <4>3. /\ a.file = m.file /\ a.owner = m.owner /\ a.kind = m.kind
            /\ \/ a.range = [start |-> m.range.start, end |-> r.start]
               \/ a.range = [start |-> r.end, end |-> m.range.end]
        BY ZenonT(60), <4>1, <4>2 DEF Remnants, Lock
      <4>4. \A x : Covers(L, a, x) <=> Covers(L, m, x)
        BY ZenonT(60), <4>3 DEF Covers
      <4> QED BY <2>4, <4>2, <4>3, <4>4
    <3> QED BY ZenonT(60), <3>1, <3>2
  <2>7. ~Covers(P, a, a.range.start - 1)
    <3>1. a.range.start = r.end => r.start <= a.range.start - 1 /\ a.range.start - 1 < r.end
      BY <1>3, EndAssumption
    <3> HIDE DEF P
    <3> QED BY ZenonT(60), <1>4, <2>1, <2>3, <2>5, <3>1
  <2>8. ~Covers(P, a, a.range.end)
    <3>1. a.range.end = r.start => r.start <= a.range.end /\ a.range.end < r.end
      BY <1>3, EndAssumption
    <3> HIDE DEF P
    <3> QED BY ZenonT(60), <1>4, <2>1, <2>3, <2>6, <3>1
  <2> HIDE DEF P
  <2> QED BY ZenonT(60), <2>1, <2>2, <2>7, <2>8 DEF Coalesce
<1> HIDE DEF P
<1>6. ASSUME NEW c \in Coalesce(P) PROVE c \in P
  <2>1. /\ Covers(P, c, c.range.start) /\ c.range.start \in Int /\ c.range.start < c.range.end
    BY ZenonT(60), RunStarts
  <2>2. PICK a \in P : /\ a.file = c.file /\ a.owner = c.owner /\ a.kind = c.kind
                       /\ a.range.start <= c.range.start /\ c.range.start < a.range.end
    BY ZenonT(60), <2>1 DEF Covers
  <2>3. a \in Coalesce(P) /\ c.range.start <= c.range.start
    BY <1>5, <2>1
  <2>4. a = c
    BY ZenonT(60), <1>2, <2>1, <2>2, <2>3, RunsUnique
  <2> QED BY ZenonT(60), <2>4
<1>7. Coalesce(P) = P
  BY ZenonT(60), <1>5, <1>6
<1> QED BY ZenonT(60), <1>2, <1>7 DEF Merged, P

\* What a request does to the records of its caller leaves those of others alone.
LEMMA OthersKept ==
  ASSUME NEW L, Merged(L), NEW p \in Process, NEW f \in File, NEW r \in ByteRange, NEW k \in Kind,
         NEW l, l.owner # p
  PROVE  /\ l \in Pieces(L, p, f, r) <=> l \in L
         /\ l \in Coalesce(Pieces(L, p, f, r)) <=> l \in L
         /\ l \in Replacement(L, p, f, k, r) <=> l \in L
         /\ l \in ReleaseFile(L, p, f) <=> l \in L
<1> DEFINE P == Pieces(L, p, f, r)
           n == [file |-> f, owner |-> p, kind |-> k, range |-> r]
           Q == P \cup {n}
<1>1. L \in SUBSET Lock /\ L = Coalesce(L)
  BY ZenonT(60) DEF Merged
<1>2. P \in SUBSET Lock
  BY ZenonT(60), <1>1, PiecesType
<1>3. ASSUME l \in Lock, NEW b \in Int
      PROVE  (Covers(P, l, b) <=> Covers(L, l, b)) /\ (Covers(Q, l, b) <=> Covers(L, l, b))
  <2>1. CoveredBy(P, l.file, b, l.owner, l.kind) <=> CoveredBy(L, l.file, b, l.owner, l.kind)
    BY ZenonT(60), <1>1, PiecesCover
  <2> HIDE DEF P
  <2>2. Covers(P, l, b) <=> Covers(L, l, b)
    BY ZenonT(60), <2>1 DEF Covers, CoveredBy
  <2>3. n.owner # l.owner
    BY ZenonT(60)
  <2>4. Covers(Q, l, b) <=> Covers(P, l, b)
    <3> HIDE DEF n
    <3> QED BY ZenonT(60), <2>3 DEF Covers
  <2> QED BY ZenonT(60), <2>2, <2>4
<1>4. l \in P <=> l \in L
  <2>1. ASSUME NEW m \in Touched(L, p, f, r), NEW x \in Remnants(m, r) PROVE x.owner = p
    BY ZenonT(60), <1>1 DEF Touched, Remnants, Lock
  <2> QED BY ZenonT(60), <2>1 DEF Pieces, Touched
<1> HIDE DEF P
<1>5. l \in Lock => (l \in Coalesce(P) <=> l \in Coalesce(L))
  BY ZenonT(60), <1>3, RunsAlike
<1>6. l \in Lock => (l \in Coalesce(Q) <=> l \in Coalesce(L))
  <2> HIDE DEF Q
  <2> QED BY ZenonT(60), <1>3, RunsAlike
<1>7. (l \in Coalesce(P) => l \in Lock) /\ (l \in Coalesce(Q) => l \in Lock)
  BY ZenonT(60) DEF Coalesce
<1>8. l \in ReleaseFile(L, p, f) <=> l \in L
  BY ZenonT(60) DEF ReleaseFile
<1>9. (l \in Coalesce(P) <=> l \in L) /\ (l \in Coalesce(Q) <=> l \in L)
  <2> HIDE DEF Q
  <2> QED BY ZenonT(60), <1>1, <1>5, <1>6, <1>7
<1> QED BY ZenonT(60), <1>4, <1>8, <1>9 DEF P, Replacement

=============================================================================
