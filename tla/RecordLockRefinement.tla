------------------------- MODULE RecordLockRefinement -------------------------
(***************************************************************************)
(* RecordLockService implements ByteLocks: ranges that are split, merged,  *)
(* granted in two steps and released lazily behave, byte by byte, as one   *)
(* mode per process. The module ends with the theorems about record locks  *)
(* that the lemmas of this and of the other RecordLock modules lead to.    *)
(***************************************************************************)
EXTENDS RecordLockProofs, RecordLockSettled

-----------------------------------------------------------------------------
(* What a handler has learnt before it decides only takes away whole files. *)

\* What a validated handler starts from is a service state.
LEMMA ValidatedType ==
  ASSUME TypeOK, NEW c, c.thread \in Thread, NEW bad
  PROVE  Validated(c, bad).svc \in Service
BY ZenonT(60), RefreshType, ThreadAssumption DEF Validated, TypeOK

LEMMA RefreshedForType ==
  ASSUME TypeOK, NEW v, v.svc \in Service, NEW file, NEW bad
  PROVE  RefreshedFor(v, file, bad).svc \in Service
BY ZenonT(60), RefreshType, ExecOwnersType DEF RefreshedFor, TypeOK

LEMMA ValidatedLoses ==
  ASSUME TypeOK, NEW c, c.thread \in Thread, NEW bad
  PROVE  Loses(svc.locks, Validated(c, bad).svc.locks) /\ Validated(c, bad).svc \in Service
<1>1. svc \in Service
  BY DEF TypeOK
<1>2. CASE c.thread \in threads
  BY ZenonT(60), <1>1, <1>2, RefreshLoses, ValidatedType DEF Validated
<1>3. CASE c.thread \notin threads
  BY ZenonT(60), <1>1, <1>3, LosesNothing DEF Validated
<1> QED BY ZenonT(60), <1>2, <1>3

LEMMA RefreshedForLoses ==
  ASSUME TypeOK, NEW v, v.svc \in Service, NEW file, NEW bad
  PROVE  /\ Loses(v.svc.locks, RefreshedFor(v, file, bad).svc.locks)
         /\ RefreshedFor(v, file, bad).svc \in Service
<1>1. RefreshedFor(v, file, bad).svc \in Service
  BY RefreshedForType
<1>2. CASE v.ok
  <2>1. RefreshedFor(v, file, bad).svc = Refresh(v.svc, ExecOwners(v.svc, {file}), bad)
    BY <1>2 DEF RefreshedFor
  <2>2. Loses(v.svc.locks, Refresh(v.svc, ExecOwners(v.svc, {file}), bad).locks)
    BY RefreshLoses
  <2> QED BY ZenonT(60), <1>1, <2>1, <2>2
<1>3. CASE ~v.ok
  BY ZenonT(60), <1>1, <1>3, LosesNothing DEF RefreshedFor
<1> QED BY ZenonT(60), <1>2, <1>3

LEMMA HandlerLoses ==
  ASSUME TypeOK, NEW c, c.thread \in Thread, NEW file, NEW bad
  PROVE  LET s == RefreshedFor(Validated(c, bad), file, bad).svc
         IN  s \in Service /\ Loses(svc.locks, s.locks)
<1> DEFINE v == Validated(c, bad)
<1>1. Loses(svc.locks, v.svc.locks) /\ v.svc \in Service
  BY ValidatedLoses
<1> HIDE DEF v
<1>2. /\ Loses(v.svc.locks, RefreshedFor(v, file, bad).svc.locks)
      /\ RefreshedFor(v, file, bad).svc \in Service
  BY ZenonT(60), <1>1, RefreshedForLoses
<1>3. Loses(svc.locks, RefreshedFor(v, file, bad).svc.locks)
  BY ZenonT(60), <1>1, <1>2, LosesTrans
<1> QED BY ZenonT(60), <1>2, <1>3 DEF v

-----------------------------------------------------------------------------
(* What the operations on lock sets do to the modes.                       *)

LEMMA ModeCovered ==
  ASSUME NEW L \in SUBSET Lock, NEW f, NEW b, NEW p
  PROVE  ModeOn(L, f, b, p) = IF CoveredBy(L, f, b, p, "write") THEN "write"
                              ELSE IF CoveredBy(L, f, b, p, "read") THEN "read" ELSE "none"
<1>1. \A l \in L : l.kind \in {"read", "write"}
  BY DEF Lock, Kind
<1> QED BY <1>1 DEF ModeOn, CoveredBy

\* M is L with p's mode on the bytes of r in f changed, and no other mode.
Sets(L, M, p, f, r, mode) ==
  \A g \in File, b \in 0..(END - 1), q \in Process :
    ModeOn(M, g, b, q) = IF g = f /\ q = p /\ r.start <= b /\ b < r.end
                           THEN mode ELSE ModeOn(L, g, b, q)

LEMMA UnlockSets ==
  ASSUME NEW L \in SUBSET Lock, NEW p \in Process, NEW f \in File, NEW r \in ByteRange
  PROVE  /\ Sets(L, Pieces(L, p, f, r), p, f, r, "none")
         /\ Sets(L, Coalesce(Pieces(L, p, f, r)), p, f, r, "none")
<1> DEFINE P == Pieces(L, p, f, r)
           C == Coalesce(P)
<1>1. P \in SUBSET Lock /\ C \in SUBSET Lock
  BY ZenonT(60), PiecesType, ReplacementType
<1>2. ASSUME NEW g \in File, NEW b \in 0..(END - 1), NEW q \in Process
      PROVE  LET m == IF g = f /\ q = p /\ r.start <= b /\ b < r.end
                        THEN "none" ELSE ModeOn(L, g, b, q)
             IN  ModeOn(P, g, b, q) = m /\ ModeOn(C, g, b, q) = m
  <2>0. b \in Int
    BY EndAssumption
  <2> DEFINE in == g = f /\ q = p /\ r.start <= b /\ b < r.end
  <2>1. \A k : CoveredBy(P, g, b, q, k) <=> CoveredBy(L, g, b, q, k) /\ ~in
    BY ZenonT(60), <2>0, PiecesCover
  <2> HIDE DEF P
  <2>2. \A k : CoveredBy(C, g, b, q, k) <=> CoveredBy(P, g, b, q, k)
    BY ZenonT(60), <1>1, <2>0, CoalesceCover
  <2> HIDE DEF C
  <2>3. /\ ModeOn(P, g, b, q) = IF CoveredBy(P, g, b, q, "write") THEN "write"
                              ELSE IF CoveredBy(P, g, b, q, "read") THEN "read" ELSE "none"
        /\ ModeOn(C, g, b, q) = IF CoveredBy(C, g, b, q, "write") THEN "write"
                              ELSE IF CoveredBy(C, g, b, q, "read") THEN "read" ELSE "none"
        /\ ModeOn(L, g, b, q) = IF CoveredBy(L, g, b, q, "write") THEN "write"
                              ELSE IF CoveredBy(L, g, b, q, "read") THEN "read" ELSE "none"
    BY ZenonT(60), <1>1, ModeCovered
  <2> HIDE DEF in
  <2>4. ModeOn(C, g, b, q) = ModeOn(P, g, b, q)
    BY <2>2, <2>3
  <2>5. ModeOn(P, g, b, q) = IF in THEN "none" ELSE ModeOn(L, g, b, q)
    BY ZenonT(60), <2>1, <2>3
  <2> QED BY ZenonT(60), <2>4, <2>5 DEF in
<1> HIDE DEF P, C
<1>3. Sets(L, P, p, f, r, "none")
  BY ZenonT(60), <1>2 DEF Sets
<1>4. Sets(L, C, p, f, r, "none")
  BY ZenonT(60), <1>2 DEF Sets
<1> QED BY ZenonT(60), <1>3, <1>4 DEF P, C

LEMMA GrantSets ==
  ASSUME NEW L \in SUBSET Lock, NEW p \in Process, NEW f \in File, NEW r \in ByteRange,
         NEW k \in Kind
  PROVE  Sets(L, Replacement(L, p, f, k, r), p, f, r, k)
<1> DEFINE n == [file |-> f, owner |-> p, kind |-> k, range |-> r]
           P == Pieces(L, p, f, r)
           Q == P \cup {n}
           C == Coalesce(Q)
<1>1. P \in SUBSET Lock
  BY PiecesType
<1>2. n \in Lock /\ n.file = f /\ n.owner = p /\ n.kind = k /\ n.range = r
  BY DEF Lock
<1> HIDE DEF n
<1>3. Q \in SUBSET Lock
  BY ZenonT(60), <1>1, <1>2
<1>4. C \in SUBSET Lock
  BY ReplacementType
<1>5. ASSUME NEW g \in File, NEW b \in 0..(END - 1), NEW q \in Process
      PROVE  ModeOn(C, g, b, q) = IF g = f /\ q = p /\ r.start <= b /\ b < r.end
                                    THEN k ELSE ModeOn(L, g, b, q)
  <2>0. b \in Int
    BY EndAssumption
  <2> DEFINE in == g = f /\ q = p /\ r.start <= b /\ b < r.end
  <2>1. \A m : CoveredBy(P, g, b, q, m) <=> CoveredBy(L, g, b, q, m) /\ ~in
    BY ZenonT(60), <2>0, PiecesCover
  <2> HIDE DEF P
  <2>2. \A m : CoveredBy(Q, g, b, q, m) <=> CoveredBy(P, g, b, q, m) \/ (in /\ m = k)
    BY <1>2 DEF CoveredBy
  <2> HIDE DEF Q
  <2>3. \A m : CoveredBy(C, g, b, q, m) <=> CoveredBy(Q, g, b, q, m)
    BY ZenonT(60), <1>3, <2>0, CoalesceCover
  <2> HIDE DEF C, in
  <2>4. \A m : CoveredBy(C, g, b, q, m) <=> IF in THEN m = k ELSE CoveredBy(L, g, b, q, m)
    BY ZenonT(60), <2>1, <2>2, <2>3
  <2>5. /\ ModeOn(C, g, b, q) = IF CoveredBy(C, g, b, q, "write") THEN "write"
                              ELSE IF CoveredBy(C, g, b, q, "read") THEN "read" ELSE "none"
        /\ ModeOn(L, g, b, q) = IF CoveredBy(L, g, b, q, "write") THEN "write"
                              ELSE IF CoveredBy(L, g, b, q, "read") THEN "read" ELSE "none"
    BY ZenonT(60), <1>4, ModeCovered
  <2>6. k = "read" \/ k = "write"
    BY DEF Kind
  <2>7. ModeOn(C, g, b, q) = IF in THEN k ELSE ModeOn(L, g, b, q)
    BY ZenonT(60), <2>4, <2>5, <2>6
  <2> QED BY <2>7 DEF in
<1> HIDE DEF C
<1>6. Sets(L, C, p, f, r, k)
  BY ZenonT(60), <1>5 DEF Sets
<1> QED BY <1>6 DEF C, Q, P, n, Replacement

\* A request nobody blocks meets no conflicting mode.
LEMMA Unblocked ==
  ASSUME NEW L \in SUBSET Lock, NEW p \in Process, NEW f \in File, NEW r \in ByteRange,
         NEW k \in Kind, Blockers(L, p, f, k, r) = {},
         NEW b \in r.start..(r.end - 1), NEW q \in Process \ {p}
  PROVE  ~Bytes!Conflict(k, ModeOn(L, f, b, q))
<1>1. r.start \in 0..END /\ r.end \in 0..END
  BY DEF ByteRange
<1>2. ASSUME NEW l \in L, l.file = f, l.owner = q, l.range.start <= b, b < l.range.end
      PROVE  k # "write" /\ l.kind # "write"
  <2>1. l.range.start \in 0..END /\ l.range.end \in 0..END
    BY DEF Lock, ByteRange
  <2>2. Overlaps(r, l.range)
    BY <1>1, <1>2, <2>1, EndAssumption DEF Overlaps
  <2> QED BY ZenonT(60), <1>2, <2>2 DEF Blockers
<1>3. ModeOn(L, f, b, q) = "none" \/ (ModeOn(L, f, b, q) = "read" /\ k # "write")
  BY ZenonT(60), <1>2 DEF ModeOn
<1> QED BY <1>3 DEF Bytes!Conflict

-----------------------------------------------------------------------------
(* Steps of the lock set that are steps of ByteLocks.                      *)

\* Dropping pairs drops their modes.
LEMMA LosesModes ==
  ASSUME NEW L, NEW lost, NEW f, NEW b, NEW p
  PROVE  ModeOn({l \in L : <<l.owner, l.file>> \notin lost}, f, b, p)
           = IF <<p, f>> \in lost THEN "none" ELSE ModeOn(L, f, b, p)
<1> DEFINE M == {l \in L : <<l.owner, l.file>> \notin lost}
           Over(N) == {l \in N : /\ l.file = f /\ l.owner = p
                                 /\ l.range.start <= b /\ b < l.range.end}
<1>1. CASE <<p, f>> \in lost
  <2>1. Over(M) = {}
    BY ZenonT(60), <1>1
  <2> QED BY Zenon, <1>1, <2>1 DEF ModeOn
<1>2. CASE <<p, f>> \notin lost
  <2>1. Over(M) = Over(L)
    BY ZenonT(60), <1>2
  <2> QED BY Zenon, <1>2, <2>1 DEF ModeOn
<1> QED BY ZenonT(60), <1>1, <1>2

LEMMA WithoutIs ==
  ASSUME NEW lost \in SUBSET (Process \X File)
  PROVE  Bytes!Without(lost) = HeldIn({l \in svc.locks : <<l.owner, l.file>> \notin lost})
<1> DEFINE M == {l \in svc.locks : <<l.owner, l.file>> \notin lost}
<1>1. ASSUME NEW f \in File, NEW b \in 0..(END - 1), NEW p \in Process
      PROVE  ModeOn(M, f, b, p) = IF <<p, f>> \in lost THEN "none" ELSE ModeOn(svc.locks, f, b, p)
  BY LosesModes
<1>2. ASSUME NEW f \in File, NEW b \in 0..(END - 1), NEW p \in Process
      PROVE  HeldBytes[f][b][p] = ModeOn(svc.locks, f, b, p)
  BY DEF HeldBytes, HeldIn
<1> HIDE DEF M
<1>3. HeldIn(M) = [f \in File |-> [b \in 0..(END - 1) |-> [p \in Process |->
                    IF <<p, f>> \in lost THEN "none" ELSE HeldBytes[f][b][p]]]]
  BY <1>1, <1>2 DEF HeldIn
<1> QED BY ZenonT(60), <1>3 DEF Bytes!Without, Bytes!Byte, M

LEMMA LoseStep ==
  ASSUME Loses(svc.locks, svc'.locks)
  PROVE  Bytes!Next
<1>1. PICK lost \in SUBSET (Process \X File) :
        svc'.locks = {l \in svc.locks : <<l.owner, l.file>> \notin lost}
  BY DEF Loses
<1>2. HeldBytes' = HeldIn(svc'.locks)
  BY DEF HeldBytes, HeldIn, ModeOn
<1>3. HeldBytes' = Bytes!Without(lost)
  BY ZenonT(60), <1>1, <1>2, WithoutIs
<1> QED BY ZenonT(60), <1>3 DEF Bytes!Next, Bytes!Lose

\* Losses followed by a change of p's mode on a range, against no conflict.
Changes(L, M, p, f, r, mode) ==
  \E N \in SUBSET Lock :
    /\ Loses(L, N) /\ Sets(N, M, p, f, r, mode)
    /\ \A b \in r.start..(r.end - 1), q \in Process \ {p} : ~Bytes!Conflict(mode, ModeOn(N, f, b, q))

LEMMA ChangeStep ==
  ASSUME NEW p \in Process, NEW f \in File, NEW r \in ByteRange, NEW mode \in {"none", "read", "write"},
         Changes(svc.locks, svc'.locks, p, f, r, mode)
  PROVE  Bytes!Next
<1>1. PICK N \in SUBSET Lock :
        /\ Loses(svc.locks, N) /\ Sets(N, svc'.locks, p, f, r, mode)
        /\ \A b \in r.start..(r.end - 1), q \in Process \ {p} :
             ~Bytes!Conflict(mode, ModeOn(N, f, b, q))
  BY DEF Changes
<1>2. PICK lost \in SUBSET (Process \X File) : N = {l \in svc.locks : <<l.owner, l.file>> \notin lost}
  BY ZenonT(60), <1>1 DEF Loses
<1>3. HeldBytes' = HeldIn(svc'.locks)
  BY DEF HeldBytes, HeldIn, ModeOn
<1>4. Bytes!Without(lost) = HeldIn(N)
  BY ZenonT(60), <1>2, WithoutIs
<1>5. /\ r.start \in 0..(END - 1) /\ r.end - 1 \in 0..(END - 1) /\ r.start <= r.end - 1
      /\ r.end \in Int
  BY EndAssumption DEF ByteRange
<1> DEFINE before == HeldIn(N)
<1>6. ASSUME NEW g \in File, NEW b \in 0..(END - 1), NEW q \in Process
      PROVE  before[g][b][q] = ModeOn(N, g, b, q)
  BY DEF HeldIn
<1>7. HeldIn(svc'.locks) =
        [before EXCEPT ![f] =
           [b \in 0..(END - 1) |-> IF b \in r.start..(r.end - 1)
                                     THEN [before[f][b] EXCEPT ![p] = mode]
                                     ELSE before[f][b]]]
  <2> DEFINE after == [before EXCEPT ![f] =
                         [b \in 0..(END - 1) |-> IF b \in r.start..(r.end - 1)
                                                   THEN [before[f][b] EXCEPT ![p] = mode]
                                                   ELSE before[f][b]]]
             row(g, b) == [q \in Process |-> ModeOn(svc'.locks, g, b, q)]
  <2>1. before \in [File -> [0..(END - 1) -> [Process -> {"none", "read", "write"}]]]
    BY DEF HeldIn, ModeOn
  <2>2. ASSUME NEW g \in File, NEW b \in 0..(END - 1), NEW q \in Process
        PROVE  ModeOn(svc'.locks, g, b, q) = IF g = f /\ q = p /\ b \in r.start..(r.end - 1)
                                              THEN mode ELSE before[g][b][q]
    <3>1. b \in r.start..(r.end - 1) <=> r.start <= b /\ b < r.end
      BY <1>5, EndAssumption
    <3> QED BY ZenonT(60), <1>1, <1>6, <3>1 DEF Sets
  <2> HIDE DEF before
  <2>3. ASSUME NEW g \in File, NEW b \in 0..(END - 1)
        PROVE  row(g, b) = IF g = f /\ b \in r.start..(r.end - 1)
                             THEN [before[f][b] EXCEPT ![p] = mode] ELSE before[g][b]
    <3>1. before[g][b] \in [Process -> {"none", "read", "write"}]
      BY Zenon, <2>1
    <3> QED BY <2>2, <3>1
  <2>4. HeldIn(svc'.locks) = [g \in File |-> [b \in 0..(END - 1) |-> row(g, b)]]
    BY DEF HeldIn
  <2> HIDE DEF row
  <2>5. ASSUME NEW g \in File
        PROVE  [b \in 0..(END - 1) |-> row(g, b)] = after[g]
    <3>1. before[g] \in [0..(END - 1) -> [Process -> {"none", "read", "write"}]]
      BY ZenonT(60), <2>1
    <3>2. CASE g = f
      BY ZenonT(60), <2>1, <2>3, <3>2
    <3>3. CASE g # f
      <4>1. after[g] = before[g]
        BY ZenonT(60), <2>1, <3>3
      <4> QED BY Zenon, <2>3, <3>1, <3>3, <4>1
    <3> QED BY ZenonT(60), <3>2, <3>3
  <2> QED BY Zenon, <2>1, <2>4, <2>5
<1>8. \A b \in r.start..(r.end - 1), q \in Process \ {p} : ~Bytes!Conflict(mode, before[f][b][q])
  <2>1. \A b \in r.start..(r.end - 1) : b \in 0..(END - 1)
    BY <1>5, EndAssumption
  <2> HIDE DEF before
  <2> QED BY ZenonT(60), <1>1, <1>6, <2>1
<1> HIDE DEF before
<1>9. Bytes!Change(lost, p, f, r.start, r.end - 1, mode)
  BY ZenonT(60), <1>3, <1>4, <1>7, <1>8 DEF before, Bytes!Change, Bytes!Byte
<1> QED BY Zenon, <1>5, <1>9 DEF Bytes!Next, Bytes!Byte, Bytes!Mode

-----------------------------------------------------------------------------
(* Every step of the service is a step of ByteLocks.                       *)

\* What is shown of every step.
Refines == Bytes!Next /\ GrantsFresh'

LEMMA LosingStep ==
  ASSUME Loses(svc.locks, svc'.locks), staged' = {}
  PROVE  Refines
BY ZenonT(60), LoseStep DEF Refines, GrantsFresh

\* Unlocking and granting, after the losses just learnt of.
LEMMA UnlockChanges ==
  ASSUME NEW L, NEW N \in SUBSET Lock, Loses(L, N),
         NEW p \in Process, NEW f \in File, NEW r \in ByteRange
  PROVE  /\ Changes(L, Pieces(N, p, f, r), p, f, r, "none")
         /\ Changes(L, Coalesce(Pieces(N, p, f, r)), p, f, r, "none")
<1>1. \A m : ~Bytes!Conflict("none", m)
  BY DEF Bytes!Conflict
<1>2. /\ Sets(N, Pieces(N, p, f, r), p, f, r, "none")
      /\ Sets(N, Coalesce(Pieces(N, p, f, r)), p, f, r, "none")
  BY ZenonT(60), UnlockSets
<1> QED BY ZenonT(60), <1>1, <1>2 DEF Changes

LEMMA GrantChanges ==
  ASSUME NEW L, NEW N \in SUBSET Lock, Loses(L, N),
         NEW p \in Process, NEW f \in File, NEW k \in Kind, NEW r \in ByteRange,
         Blockers(N, p, f, k, r) = {}
  PROVE  Changes(L, Replacement(N, p, f, k, r), p, f, r, k)
<1>1. Sets(N, Replacement(N, p, f, k, r), p, f, r, k)
  BY ZenonT(60), GrantSets
<1>2. \A b \in r.start..(r.end - 1), q \in Process \ {p} :
        ~Bytes!Conflict(k, ModeOn(N, f, b, q))
  BY ZenonT(60), Unblocked
<1> QED BY ZenonT(60), <1>1, <1>2 DEF Changes

LEMMA LoopExitsRefines ==
  ASSUME IInv, LoopExits
  PROVE  Refines
<1> DEFINE gone == {p \in svc.registered : p \notin alive}
<1>1. PICK failed \in SUBSET (gone \ svc.exited) :
        svc' = [WithdrawPages(Retire(svc, gone), gone \ failed) EXCEPT !.exited = @ \cup (gone \ failed)]
  BY Zenon DEF LoopExits
<1> DEFINE u == WithdrawPages(Retire(svc, gone), gone \ failed)
<1>2. svc \in Service /\ staged' = {}
  BY ZenonT(60) DEF LoopExits, IInv, TypeOK
<1>3. Loses(svc.locks, u.locks) /\ DOMAIN u = DOMAIN svc
  BY ZenonT(60), <1>2, RetireLoses
<1>4. svc' = [u EXCEPT !.exited = @ \cup (gone \ failed)]
  BY ZenonT(60), <1>1
<1> HIDE DEF u
<1>5. svc'.locks = u.locks
  BY ZenonT(60), <1>2, <1>3, <1>4 DEF Service
<1> QED BY ZenonT(60), <1>2, <1>3, <1>5, LosingStep

LEMMA ReapRefines ==
  ASSUME IInv, NEW p \in Process, Reap(p)
  PROVE  Refines
<1> DEFINE u == WithdrawPages(Retire(svc, {p}), {p})
<1>1. svc \in Service /\ staged' = {}
  BY ZenonT(60) DEF Reap, IInv, TypeOK
<1>2. Loses(svc.locks, u.locks) /\ DOMAIN u = DOMAIN svc
  BY ZenonT(60), <1>1, RetireLoses
<1>3. svc' = [u EXCEPT !.exited = @ \ {p}, !.registered = @ \ {p}]
  BY DEF Reap
<1> HIDE DEF u
<1>4. svc'.locks = u.locks
  BY ZenonT(60), <1>1, <1>2, <1>3 DEF Service
<1> QED BY ZenonT(60), <1>1, <1>2, <1>4, LosingStep

LEMMA LoopExecsRefines ==
  ASSUME IInv, LoopExecs
  PROVE  Refines
<1>1. PICK bad \in SUBSET Unreadable :
        svc' = ReleaseUnused(Refresh(svc, ExecOwners(svc, File), bad))
  BY DEF LoopExecs
<1> DEFINE u == Refresh(svc, ExecOwners(svc, File), bad)
<1>2. svc \in Service /\ staged' = {} /\ image \in [Process -> Image]
  BY DEF LoopExecs, IInv, TypeOK
<1>3. u \in Service
  BY ZenonT(60), <1>2, RefreshType, ExecOwnersType
<1>4. Loses(svc.locks, u.locks)
  BY ZenonT(60), <1>2, RefreshLoses
<1>5. svc' = ReleaseUnused(u)
  BY ZenonT(60), <1>1
<1> HIDE DEF u
<1>6. svc'.locks = u.locks
  BY ZenonT(60), <1>3, <1>5 DEF ReleaseUnused, Service
<1> QED BY ZenonT(60), <1>2, <1>4, <1>6, LosingStep

LEMMA ReceiveRefines ==
  ASSUME IInv, NEW t \in Thread, NEW r \in Request, Receive(t, r)
  PROVE  Refines
<1>1. svc \in Service /\ staged' = {} /\ svc' = Refresh(svc, {ProcessOf[t]}, {})
  BY DEF Receive, IInv, TypeOK
<1>2. Loses(svc.locks, svc'.locks)
  BY ZenonT(60), <1>1, RefreshLoses
<1> QED BY ZenonT(60), <1>1, <1>2, LosingStep

LEMMA EndPassRefines ==
  ASSUME IInv, EndPass
  PROVE  Refines
<1>1. staged' = {} /\ svc'.locks = svc.locks
  BY DEF EndPass, ReleaseUnused, IInv, TypeOK, Service
<1> QED BY ZenonT(60), <1>1, LosesNothing, LosingStep

\* Native steps and wakeups leave the service alone.
LEMMA StutterRefines ==
  ASSUME IInv, GrantsFresh, svc' = svc, staged' = staged
  PROVE  Refines
<1>1. Loses(svc.locks, svc'.locks)
  BY ZenonT(60), LosesNothing
<1>2. GrantsFresh'
  BY DEF GrantsFresh, Pending
<1> QED BY ZenonT(60), <1>1, <1>2, LoseStep DEF Refines

LEMMA CommitGrantRefines ==
  ASSUME IInv, GrantsFresh, CommitGrant
  PROVE  Refines
<1>1. PICK g \in staged :
        /\ svc' = IF g.delivered
                    THEN Store(svc, g.owner, g.locks, g.pins)
                    ELSE Publish(svc, g.owner)
        /\ stage' = g.resume
  BY ZenonT(60) DEF CommitGrant
<1>2. g.owner \in Process /\ svc \in Service /\ svc.locks \in SUBSET Lock /\ staged' = {}
  BY DEF CommitGrant, IInv, TypeOK, Grant, Service
<1>3. PICK f \in File, k \in Kind, r \in ByteRange :
        /\ g.locks = Replacement(svc.locks, g.owner, f, k, r)
        /\ Blockers(svc.locks, g.owner, f, k, r) = {}
  BY ZenonT(60) DEF GrantsFresh, Pending
<1>4. CASE g.delivered
  <2>0. svc' = Store(svc, g.owner, g.locks, g.pins)
    BY ZenonT(60), <1>1, <1>4
  <2>1. svc'.locks = Replacement(svc.locks, g.owner, f, k, r)
    <3>1. Store(svc, g.owner, g.locks, g.pins).locks = g.locks
      BY <1>2, StoreLocks
    <3> QED BY ZenonT(60), <2>0, <3>1, <1>3
  <2>2. Changes(svc.locks, svc'.locks, g.owner, f, r, k)
    BY Zenon, <1>2, <1>3, <2>1, LosesNothing, GrantChanges
  <2>3. k \in {"none", "read", "write"}
    BY ZenonT(60) DEF Kind
  <2>4. Bytes!Next
    BY ZenonT(60), <1>2, <2>2, <2>3, ChangeStep
  <2> QED BY ZenonT(60), <1>2, <2>4 DEF Refines, GrantsFresh
<1>5. CASE ~g.delivered
  <2>1. svc'.locks = svc.locks
    BY ZenonT(60), <1>1, <1>2, <1>5, PublishLocks
  <2> QED BY ZenonT(60), <1>2, <2>1, LosesNothing, LosingStep
<1> QED BY ZenonT(60), <1>4, <1>5

\* F_SETLK, unlocking and close are decided and done in one step.
LEMMA FinishRecordLockRefines ==
  ASSUME IInv, NEW c \in call, FinishRecordLock(c)
  PROVE  Refines
<1> DEFINE p == ProcessOf[c.thread]
           r == c.request
<1>1. /\ c.thread \in Thread /\ p \in Process /\ r \in AnyRequest /\ TypeOK
      /\ r.op \in {"set", "query", "unlock", "release"} /\ staged = {}
  BY ZenonT(60), ThreadAssumption, RequestAssumption DEF IInv, TypeOK, Call, FinishRecordLock
<1>2. /\ r.file \in File
      /\ r.op = "unlock" => r.range \in ByteRange
      /\ r.op = "set" => r.range \in ByteRange /\ r.kind \in Kind
  BY ZenonT(60), <1>1 DEF AnyRequest
<1>3. PICK bad \in SUBSET Unreadable :
        LockOutcome(c, RefreshedFor(Validated(c, bad), r.file, bad))
  BY Zenon, RecordLockCases
<1> DEFINE v == RefreshedFor(Validated(c, bad), r.file, bad)
           s == ReleaseUnused(v.svc)
<1>4. v.svc \in Service /\ Loses(svc.locks, v.svc.locks)
  BY ZenonT(60), <1>1, HandlerLoses
<1>5. \/ svc' = v.svc
      \/ svc' = s
      \/ svc' = Publish(s, p)
      \/ svc' = ReleaseUnused(Store(s, p, ReleaseFile(s.locks, p, r.file), {}))
      \/ /\ r.op = "unlock"
         /\ \/ svc' = ReleaseUnused(Store(s, p, Pieces(s.locks, p, r.file, r.range), {}))
            \/ svc' = ReleaseUnused(Store(s, p, Coalesce(Pieces(s.locks, p, r.file, r.range)), {}))
      \/ /\ r.op = "set" /\ Blockers(s.locks, p, r.file, r.kind, r.range) = {}
         /\ svc' = ReleaseUnused(Store(s, p, Replacement(s.locks, p, r.file, r.kind, r.range), {r.file}))
  BY ZenonT(60), <1>3 DEF LockOutcome, Answer
<1>6. staged' = {}
  BY ZenonT(60), <1>1, <1>3 DEF LockOutcome, Answer
<1> HIDE DEF v, p, r
<1>7. s \in Service /\ s.locks = v.svc.locks
  BY ZenonT(60), <1>4, ReleaseUnusedType DEF ReleaseUnused, Service
<1> HIDE DEF s
<1>8. Loses(svc.locks, s.locks) /\ s.locks \in SUBSET Lock
  BY Zenon, <1>4, <1>7 DEF Service
<1>9. CASE svc' = v.svc \/ svc' = s \/ svc' = Publish(s, p)
  <2>1. svc'.locks = s.locks
    BY ZenonT(60), <1>1, <1>7, <1>9, PublishLocks
  <2> QED BY ZenonT(60), <1>6, <1>8, <2>1, LosingStep
<1>10. CASE svc' = ReleaseUnused(Store(s, p, ReleaseFile(s.locks, p, r.file), {}))
  <2>1. svc'.locks = ReleaseFile(s.locks, p, r.file)
    BY <1>1, <1>7, <1>10, StoredLocks
  <2>2. {<<p, r.file>>} \in SUBSET (Process \X File)
    BY <1>1, <1>2
  <2>3. ReleaseFile(s.locks, p, r.file) = {l \in s.locks : <<l.owner, l.file>> \notin {<<p, r.file>>}}
    BY DEF ReleaseFile
  <2>4. Loses(s.locks, svc'.locks)
    BY ZenonT(60), <2>1, <2>2, <2>3 DEF Loses
  <2>5. Loses(svc.locks, svc'.locks)
    BY ZenonT(60), <1>8, <2>4, LosesTrans
  <2> QED BY ZenonT(60), <1>6, <2>5, LosingStep
<1>11. CASE /\ r.op = "unlock"
            /\ \/ svc' = ReleaseUnused(Store(s, p, Pieces(s.locks, p, r.file, r.range), {}))
               \/ svc' = ReleaseUnused(Store(s, p, Coalesce(Pieces(s.locks, p, r.file, r.range)), {}))
  <2>1. \/ svc'.locks = Pieces(s.locks, p, r.file, r.range)
        \/ svc'.locks = Coalesce(Pieces(s.locks, p, r.file, r.range))
    BY <1>1, <1>7, <1>11, StoredLocks
  <2>2. r.file \in File /\ r.range \in ByteRange
    BY ZenonT(60), <1>2, <1>11
  <2>3. Changes(svc.locks, svc'.locks, p, r.file, r.range, "none")
    BY ZenonT(60), <1>1, <1>8, <2>1, <2>2, UnlockChanges
  <2>4. Bytes!Next
    BY ZenonT(60), <1>1, <2>2, <2>3, ChangeStep
  <2> QED BY ZenonT(60), <1>6, <2>4 DEF Refines, GrantsFresh
<1>12. CASE /\ r.op = "set" /\ Blockers(s.locks, p, r.file, r.kind, r.range) = {}
            /\ svc' = ReleaseUnused(Store(s, p, Replacement(s.locks, p, r.file, r.kind, r.range), {r.file}))
  <2>1. svc'.locks = Replacement(s.locks, p, r.file, r.kind, r.range)
    BY <1>1, <1>7, <1>12, StoredLocks
  <2>2. r.file \in File /\ r.range \in ByteRange /\ r.kind \in Kind
    BY ZenonT(60), <1>2, <1>12
  <2>3. Changes(svc.locks, svc'.locks, p, r.file, r.range, r.kind)
    BY ZenonT(60), <1>1, <1>8, <1>12, <2>1, <2>2, GrantChanges
  <2>4. r.kind \in {"none", "read", "write"}
    BY ZenonT(60), <2>2 DEF Kind
  <2>5. Bytes!Next
    BY ZenonT(60), <1>1, <2>2, <2>3, <2>4, ChangeStep
  <2> QED BY ZenonT(60), <1>6, <2>5 DEF Refines, GrantsFresh
<1> QED BY ZenonT(60), <1>5, <1>9, <1>10, <1>11, <1>12

\* Announcing a grant changes no lock; what it announces is fresh.
LEMMA StageGrantRefines ==
  ASSUME NEW s \in Service, Loses(svc.locks, s.locks), NEW p \in Process,
         NEW f \in File, NEW k \in Kind, NEW r \in ByteRange, Blockers(s.locks, p, f, k, r) = {},
         NEW F, NEW t, NEW resume, StageGrant(s, p, Replacement(s.locks, p, f, k, r), F, t, resume)
  PROVE  Refines
<1> DEFINE L == Replacement(s.locks, p, f, k, r)
<1>1. svc'.locks = s.locks
  <2>1. svc' = Hint(s, p, "held")
    BY ZenonT(60) DEF StageGrant
  <2> QED BY ZenonT(60), <2>1 DEF Hint, Service
<1>2. PICK d \in BOOLEAN :
        staged' = {[owner |-> p, locks |-> L, pins |-> F, delivered |-> d, resume |-> resume]}
  BY ZenonT(60) DEF StageGrant
<1>3. \A g \in staged' : g.owner = p /\ g.locks = L
  BY SMTT(60), <1>2
<1>4. \A g \in staged' : g.locks = Replacement(svc'.locks, g.owner, f, k, r)
                         /\ Blockers(svc'.locks, g.owner, f, k, r) = {}
  BY ZenonT(60), <1>1, <1>3
<1>5. \A g \in staged' : Pending(svc', g)
  BY ZenonT(60), <1>4 DEF Pending
<1>6. GrantsFresh'
  BY ZenonT(60), <1>5 DEF GrantsFresh, Pending
<1>7. Bytes!Next
  BY ZenonT(60), <1>1, LoseStep
<1> QED BY ZenonT(60), <1>6, <1>7 DEF Refines

LEMMA RetryJobRefines ==
  ASSUME IInv, NEW j \in todo, RetryJob(j)
  PROVE  Refines
<1> DEFINE p == ProcessOf[j.thread]
<1>1. j.thread \in Thread /\ p \in Process /\ TypeOK /\ staged = {}
  BY ZenonT(60), ThreadAssumption DEF IInv, TypeOK, Job, RetryJob
<1>2. PICK bad \in SUBSET Unreadable, signalled \in BOOLEAN :
        RetryOutcome(j, RefreshedFor(Resumed(j, bad, signalled), j.file, bad))
  BY Zenon, RetryCases
<1> DEFINE i == Validated(j, bad)
           e == Resumed(j, bad, signalled)
           s == RefreshedFor(e, j.file, bad).svc
           found == MatchingWait(s, p, j.token)
           consumed == [s EXCEPT !.waits = @ \ found]
           L(w) == Replacement(s.locks, p, w.file, w.kind, w.range)
<1>3. \/ svc' = consumed /\ staged' = staged
      \/ svc' = s /\ staged' = staged
      \/ \E w \in found : /\ BlockersOf(s.locks, w) = {}
                          /\ StageGrant(consumed, p, L(w), {}, j.thread, "retry")
  BY Zenon, <1>2 DEF RetryOutcome
<1>4. Loses(svc.locks, s.locks) /\ s \in Service
  <2>1. Loses(svc.locks, i.svc.locks) /\ i.svc \in Service
    BY Zenon, <1>1, ValidatedLoses
  <2>2. e.svc = i.svc
    BY Zenon, ResumedIs
  <2> HIDE DEF i, e
  <2>3. Loses(e.svc.locks, s.locks) /\ s \in Service
    BY ZenonT(60), <1>1, <2>1, <2>2, RefreshedForLoses
  <2> QED BY ZenonT(60), <2>1, <2>2, <2>3, LosesTrans
<1> HIDE DEF s
<1>5. consumed \in Service /\ consumed.locks = s.locks
  BY ZenonT(60), <1>4 DEF Service
<1>6. CASE (svc' = consumed \/ svc' = s) /\ staged' = staged
  <2>1. svc'.locks = s.locks
    BY ZenonT(60), <1>5, <1>6
  <2> QED BY ZenonT(60), <1>1, <1>4, <1>6, <2>1, LosingStep
<1>7. CASE \E w \in found : /\ BlockersOf(s.locks, w) = {}
                             /\ StageGrant(consumed, p, L(w), {}, j.thread, "retry")
  <2>1. PICK w \in found : /\ BlockersOf(s.locks, w) = {}
                           /\ StageGrant(consumed, p, L(w), {}, j.thread, "retry")
    BY ZenonT(60), <1>7
  <2>2. w \in Wait /\ w.owner = p
    BY ZenonT(60), <1>4 DEF MatchingWait, Service
  <2>3. w.file \in File /\ w.kind \in Kind /\ w.range \in ByteRange
    BY ZenonT(60), <2>2 DEF Wait
  <2>4. Blockers(consumed.locks, p, w.file, w.kind, w.range) = {}
    BY ZenonT(60), <1>5, <2>1, <2>2 DEF BlockersOf
  <2>5. StageGrant(consumed, p, Replacement(consumed.locks, p, w.file, w.kind, w.range),
                   {}, j.thread, "retry")
    BY ZenonT(60), <1>5, <2>1
  <2>6. Loses(svc.locks, consumed.locks)
    BY ZenonT(60), <1>4, <1>5
  <2> HIDE DEF consumed
  <2> QED BY Zenon, <1>1, <1>5, <2>3, <2>4, <2>5, <2>6, StageGrantRefines
<1> QED BY Zenon, <1>3, <1>6, <1>7

LEMMA FinishWaitRefines ==
  ASSUME IInv, NEW c \in call, FinishWait(c)
  PROVE  Refines
<1> DEFINE p == ProcessOf[c.thread]
           r == c.request
<1>1. /\ c.thread \in Thread /\ p \in Process /\ r \in AnyRequest /\ r.op = "wait"
      /\ TypeOK /\ staged = {}
  BY ZenonT(60), ThreadAssumption, RequestAssumption DEF IInv, TypeOK, Call, FinishWait
<1>2. r.file \in File /\ r.range \in ByteRange /\ r.kind \in Kind
  BY ZenonT(60), <1>1 DEF AnyRequest
<1>3. PICK bad \in SUBSET Unreadable :
        WaitOutcome(c, RefreshedFor(Validated(c, bad), r.file, bad))
  BY Zenon, WaitCases
<1> DEFINE v == RefreshedFor(Validated(c, bad), r.file, bad)
           s == ReleaseUnused(v.svc)
           w == [owner |-> p, revision |-> s.observed[p], file |-> r.file,
                 kind |-> r.kind, range |-> r.range, token |-> s.nextWait]
           L == Replacement(s.locks, p, r.file, r.kind, r.range)
<1>4. v.svc \in Service /\ Loses(svc.locks, v.svc.locks)
  BY ZenonT(60), <1>1, HandlerLoses
<1>5. \/ (svc' = v.svc \/ svc' = s \/ svc' = Enqueue(s, w)) /\ staged' = staged
      \/ /\ BlockersOf(s.locks, w) = {}
         /\ StageGrant(s, p, L, {r.file}, c.thread, "exits")
  BY ZenonT(60), <1>3 DEF WaitOutcome, Answer
<1> HIDE DEF v
<1>6. s \in Service /\ s.locks = v.svc.locks
  BY ZenonT(60), <1>4, ReleaseUnusedType DEF ReleaseUnused, Service
<1> HIDE DEF s
<1>7. Loses(svc.locks, s.locks)
  BY ZenonT(60), <1>4, <1>6
<1>8. CASE (svc' = v.svc \/ svc' = s \/ svc' = Enqueue(s, w)) /\ staged' = staged
  <2>1. svc'.locks = s.locks
    BY ZenonT(60), <1>6, <1>8 DEF Enqueue, Service
  <2> QED BY ZenonT(60), <1>1, <1>7, <1>8, <2>1, LosingStep
<1>9. CASE /\ BlockersOf(s.locks, w) = {}
           /\ StageGrant(s, p, L, {r.file}, c.thread, "exits")
  <2>1. Blockers(s.locks, p, r.file, r.kind, r.range) = {}
    BY ZenonT(60), <1>9 DEF BlockersOf
  <2>2. StageGrant(s, p, Replacement(s.locks, p, r.file, r.kind, r.range),
                   {r.file}, c.thread, "exits")
    BY ZenonT(60), <1>9
  <2>3. p \in Process /\ r.file \in File /\ r.kind \in Kind /\ r.range \in ByteRange
    BY ZenonT(60), <1>1, <1>2
  <2> HIDE DEF p, r
  <2> QED BY Zenon, <1>6, <1>7, <2>1, <2>2, <2>3, StageGrantRefines
<1> QED BY ZenonT(60), <1>5, <1>8, <1>9

LEMMA FinishExecRefines ==
  ASSUME IInv, NEW c \in call, FinishExec(c)
  PROVE  Refines
<1> DEFINE p == ProcessOf[c.thread]
           r == c.request
<1>1. c.thread \in Thread /\ TypeOK /\ staged = {}
  BY ZenonT(60) DEF IInv, TypeOK, Call, FinishExec
<1>3. PICK bad \in SUBSET Unreadable : ExecOutcome(c, Validated(c, bad))
  BY Zenon, ExecCases
<1> DEFINE s == Validated(c, bad).svc
           named == {e \in {x \in s.execs : x.owner = p} : e.token = r.token}
           owned == {f \in r.files : OwnsFile(s.locks, p, f)}
           new == [owner |-> p, revision |-> s.observed[p], token |-> s.nextExec, files |-> owned]
           grown == {[e EXCEPT !.files = @ \cup owned] : e \in named}
<1>4. \/ Answer(s)
      \/ Answer([s EXCEPT !.nextExec = @ + 1, !.execs = @ \cup {new}])
      \/ Answer([s EXCEPT !.execs = (@ \ named) \cup grown])
      \/ Answer([s EXCEPT !.execs = @ \ named])
  BY ZenonT(60), <1>3 DEF ExecOutcome
<1>5. Loses(svc.locks, s.locks) /\ s \in Service
  BY ZenonT(60), <1>1, ValidatedLoses
<1> HIDE DEF s, named, owned, new, grown
<1>6. svc'.locks = s.locks /\ staged' = {}
  BY Zenon, <1>1, <1>4, <1>5 DEF Answer, Service
<1> QED BY ZenonT(60), <1>5, <1>6, LosingStep

LEMMA FinishInterruptRefines ==
  ASSUME IInv, NEW c \in call, FinishInterrupt(c)
  PROVE  Refines
<1>1. c.thread \in Thread /\ TypeOK /\ staged' = {}
  BY ZenonT(60) DEF IInv, TypeOK, Call, FinishInterrupt
<1>2. PICK bad \in SUBSET Unreadable : svc' = Validated(c, bad).svc
  BY ZenonT(60) DEF FinishInterrupt
<1>3. Loses(svc.locks, svc'.locks)
  BY ZenonT(60), <1>1, <1>2, ValidatedLoses
<1> QED BY ZenonT(60), <1>1, <1>3, LosingStep

LEMMA FinishPolicyRefines ==
  ASSUME IInv, NEW c \in call, FinishPolicy(c)
  PROVE  Refines
<1>1. svc'.locks = svc.locks /\ staged' = {}
  BY DEF FinishPolicy, Answer, IInv, TypeOK, Service
<1> QED BY ZenonT(60), <1>1, LosesNothing, LosingStep

LEMMA NextRefines ==
  ASSUME IInv, GrantsFresh, [Next]_vars
  PROVE  Refines
<1>1. CASE LoopExits BY ZenonT(60), <1>1, LoopExitsRefines
<1>2. CASE LoopExecs BY ZenonT(60), <1>2, LoopExecsRefines
<1>3. CASE \E j \in todo : RetryJob(j) BY ZenonT(60), <1>3, RetryJobRefines
<1>4. CASE CommitGrant BY ZenonT(60), <1>4, CommitGrantRefines
<1>5. CASE EndPass BY ZenonT(60), <1>5, EndPassRefines
<1>6. CASE Wake \/ OtherRequest BY ZenonT(60), <1>6, StutterRefines DEF Wake, OtherRequest
<1>7. CASE \E t \in Thread, r \in Request : Receive(t, r) BY ZenonT(60), <1>7, ReceiveRefines
<1>8. CASE Finish
  BY ZenonT(60), <1>8, FinishRecordLockRefines, FinishWaitRefines, FinishExecRefines,
     FinishInterruptRefines, FinishPolicyRefines DEF Finish
<1>9. CASE \E p \in Process : Reap(p) BY ZenonT(60), <1>9, ReapRefines
<1>10. CASE \E p \in Process : NativeExit(p)
  BY ZenonT(60), <1>10, StutterRefines DEF NativeExit, Service_
<1>11. CASE \E t \in Thread : NativeExec(t) \/ NativeThreadExit(t)
  <2>1. svc' = svc /\ staged' = staged
    BY ZenonT(60), <1>11 DEF NativeExec, NativeThreadExit, Service_
  <2> QED BY ZenonT(60), <2>1, StutterRefines
<1>12. CASE UNCHANGED vars
  BY ZenonT(60), <1>12, StutterRefines DEF vars
<1> QED BY ZenonT(60), <1>1, <1>2, <1>3, <1>4, <1>5, <1>6, <1>7, <1>8, <1>9, <1>10, <1>11, <1>12 DEF Next

LEMMA InitRefines ==
  ASSUME Init
  PROVE  Bytes!Init /\ GrantsFresh
<1>1. svc.locks = {} /\ staged = {}
  BY ZenonT(60) DEF Init
<1>2. ASSUME NEW f, NEW b, NEW p PROVE ModeOn({}, f, b, p) = "none"
  BY ZenonT(60) DEF ModeOn
<1>3. HeldBytes = [f \in File |-> [b \in 0..(END - 1) |-> [p \in Process |-> "none"]]]
  BY ZenonT(60), <1>1, <1>2 DEF HeldBytes, HeldIn
<1> QED BY ZenonT(60), <1>1, <1>3 DEF Bytes!Init, Bytes!Byte, GrantsFresh

-----------------------------------------------------------------------------
(* What every behaviour satisfies beyond the inductive invariant of        *)
(* RecordLockProofs.                                                       *)

\* A grant that has been answered and not yet committed is still the change it
\* was decided to be, whatever processes did in between.
THEOREM GrantsStayFresh == Spec => []GrantsFresh
<1>1. Init => GrantsFresh
  BY InitRefines
<1>2. IInv /\ GrantsFresh /\ [Next]_vars => GrantsFresh'
  BY NextRefines DEF Refines
<1> QED BY <1>1, <1>2, Invariance, PTL DEF Spec

\* The service implements ByteLocks: whatever it splits, merges, defers or
\* learns late, every step changes one process's mode on one range against no
\* conflict, or takes away whole files.
THEOREM ServiceImplementsBytes == Spec => ImplementsByteLocks
<1>1. Init => Bytes!Init
  BY InitRefines
<1>2. IInv /\ GrantsFresh /\ [Next]_vars => [Bytes!Next]_HeldBytes
  BY NextRefines DEF Refines
<1>3. Spec => Bytes!Spec
  BY <1>1, <1>2, Invariance, GrantsStayFresh, PTL DEF Spec, Bytes!Spec
<1> QED BY <1>3 DEF ImplementsByteLocks

-----------------------------------------------------------------------------
(* What the registry keeps, whatever is granted, released or seen.           *)

\* The registry is merged, preparations are those of the image last seen, and
\* the call being handled came from it.
THEOREM SettledAlways == Spec => []Settled
<1>1. Init => Settled
  BY ZenonT(60), InitSettled
<1>2. IInv /\ IInv' /\ GrantsFresh /\ Settled /\ [Next]_vars => Settled'
  BY NextSettled DEF IInv
<1> QED BY <1>1, <1>2, Invariance, GrantsStayFresh, PTL DEF Spec

\* record_locks never holds two records of one owner, file and kind that touch.
THEOREM RecordsMerged == Spec => [](svc.locks = Coalesce(svc.locks))
<1>1. Settled => svc.locks = Coalesce(svc.locks)
  BY DEF Settled, Merged
<1> QED BY <1>1, SettledAlways, PTL

\* Seeing a process's new image releases the prepared files and nothing else,
\* whatever request, retry or loop pass sees it.
THEOREM ExecsRelease == Spec => ExecReleasesPrepared
<1>1. IInv /\ GrantsFresh /\ Settled /\ [Next]_vars => [Exact]_vars
  BY NextExact
<1>2. Spec => [][Exact]_vars
  BY <1>1, Invariance, GrantsStayFresh, SettledAlways, PTL DEF Spec
<1> QED BY <1>2, PTL DEF ExecReleasesPrepared, Exact

\* A call is queued, or left queued, only behind locks that no completed exec
\* of their owner gives up.
THEOREM ConflictsAreFresh == Spec => NoStaleConflict
<1>1. IInv /\ Settled /\ [Next]_vars => [Unstale]_vars
  BY NextUnstale
<1>2. Spec => [][Unstale]_vars
  BY <1>1, Invariance, SettledAlways, PTL DEF Spec
<1> QED BY ZenonT(60), <1>2 DEF NoStaleConflict, Unstale

\* Refusing the calls that would close a cycle when they are queued is enough
\* while every process has one thread: whatever is granted, released, seen or
\* retired later, waiting processes never wait for each other in a circle.
THEOREM NeverDeadlocked == Spec => [](OneThreadPerProcess => NoDeadlock)
<1> DEFINE Free == OneThreadPerProcess => Calm
<1>1. Init => Free
  BY ZenonT(60), InitCalm
<1>2. IInv /\ GrantsFresh /\ Settled /\ Free /\ [Next]_vars => Free'
  BY ZenonT(60), NextCalm DEF OneThreadPerProcess
<1>3. Free => (OneThreadPerProcess => NoDeadlock)
  BY DEF Calm, Acyclic, NoDeadlock
<1> QED BY <1>1, <1>2, <1>3, Invariance, GrantsStayFresh, SettledAlways, PTL DEF Spec
=============================================================================
