--------------------------- MODULE RecordLockSteps ---------------------------
(***************************************************************************)
(* What the operations of RecordLockService do to the registry: seeing a   *)
(* new image releases exactly what was prepared, and the loop, the calls   *)
(* that answer at once and the retries settle.                             *)
(***************************************************************************)
EXTENDS RecordLockLemmas

-----------------------------------------------------------------------------
(* Observing new images.                                                   *)

Mine(X, p) == {x \in X : x.owner = p}

\* A preparation belongs to the image the service last saw of its owner.
Current(s) == \A e \in s.execs : e.revision = s.observed[e.owner]

Unseen(s, t, p) ==
  /\ t.observed[p] = s.observed[p]
  /\ Mine(t.locks, p) = Mine(s.locks, p) /\ Mine(t.execs, p) = Mine(s.execs, p)

\* What the service does when it sees a newer image of p, and nothing else.
Seen(s, t, p, images) ==
  /\ s.observed[p] < images[p] /\ t.observed[p] = images[p]
  /\ Mine(t.execs, p) = {} /\ Mine(t.waits, p) = {}
  /\ Mine(t.locks, p) = {l \in s.locks : l.owner = p /\
                           \A e \in s.execs : e.owner = p => l.file \notin e.files}

\* t is s after newer images of some processes were seen.
Observes(s, t, images) ==
  /\ t \in Service /\ t.waits \subseteq s.waits /\ Loses(s.locks, t.locks)
  /\ \A p \in Process : Unseen(s, t, p) \/ Seen(s, t, p, images)

LEMMA ObservesNothing ==
  ASSUME NEW s \in Service, NEW images
  PROVE  Observes(s, s, images)
<1>1. \A p \in Process : Unseen(s, s, p)
  BY DEF Unseen
<1> QED BY <1>1, LosesNothing DEF Observes

LEMMA ObservesLike ==
  ASSUME NEW s, NEW t, NEW images, Observes(s, t, images), NEW u \in Service,
         u.locks = t.locks, u.execs = t.execs, u.observed = t.observed, u.waits \subseteq t.waits
  PROVE  Observes(s, u, images)
<1>1. ASSUME NEW p \in Process, Unseen(s, t, p) PROVE Unseen(s, u, p)
  BY <1>1 DEF Unseen
<1>2. ASSUME NEW p \in Process, Seen(s, t, p, images) PROVE Seen(s, u, p, images)
  BY <1>2 DEF Seen, Mine
<1> QED BY <1>1, <1>2 DEF Observes

\* Once an image has been seen, seeing more changes nothing for its process.
LEMMA ObservesTrans ==
  ASSUME NEW s \in Service, NEW t, NEW u, NEW images \in [Process -> Image],
         Observes(s, t, images), Observes(t, u, images)
  PROVE  Observes(s, u, images)
<1>1. t \in Service /\ u \in Service /\ u.waits \subseteq s.waits /\ Loses(s.locks, u.locks)
  BY LosesTrans DEF Observes
<1>2. ASSUME NEW p \in Process PROVE Unseen(s, u, p) \/ Seen(s, u, p, images)
  <2>1. /\ Unseen(s, t, p) \/ Seen(s, t, p, images)
        /\ Unseen(t, u, p) \/ Seen(t, u, p, images)
    BY DEF Observes
  <2>2. images[p] \in Int
    BY LimitAssumption DEF Image
  <2>3. CASE Unseen(s, t, p) /\ Unseen(t, u, p)
    BY ZenonT(60), <2>3 DEF Unseen
  <2>4. CASE Unseen(s, t, p) /\ Seen(t, u, p, images)
    <3>1. /\ \A l : l \in t.locks /\ l.owner = p <=> l \in s.locks /\ l.owner = p
          /\ \A e : e \in t.execs /\ e.owner = p <=> e \in s.execs /\ e.owner = p
      BY <2>4 DEF Unseen, Mine
    <3>2. {l \in t.locks : l.owner = p /\ \A e \in t.execs : e.owner = p => l.file \notin e.files}
            = {l \in s.locks : l.owner = p /\ \A e \in s.execs : e.owner = p => l.file \notin e.files}
      BY ZenonT(60), <3>1
    <3> QED BY <2>4, <3>2 DEF Unseen, Seen
  <2>5. CASE Seen(s, t, p, images) /\ Unseen(t, u, p)
    <3>1. Mine(u.waits, p) \subseteq Mine(t.waits, p)
      BY DEF Observes, Mine
    <3> QED BY ZenonT(60), <2>5, <3>1 DEF Unseen, Seen
  <2>6. CASE Seen(s, t, p, images) /\ Seen(t, u, p, images)
    BY <2>2, <2>6 DEF Seen
  <2> QED BY ZenonT(60), <2>1, <2>3, <2>4, <2>5, <2>6
<1> QED BY ZenonT(60), <1>1, <1>2 DEF Observes

LEMMA ObservesCurrent ==
  ASSUME NEW s, NEW t, NEW images, Observes(s, t, images), Current(s)
  PROVE  Current(t)
<1> SUFFICES ASSUME NEW e \in t.execs PROVE e.revision = t.observed[e.owner]
  BY DEF Current
<1>1. e.owner \in Process
  BY DEF Observes, Service, Preparation
<1>2. CASE Unseen(s, t, e.owner)
  <2>1. e \in s.execs
    BY ZenonT(60), <1>2 DEF Unseen, Mine
  <2> QED BY ZenonT(60), <1>2, <2>1 DEF Unseen, Current
<1>3. CASE Seen(s, t, e.owner, images)
  BY <1>3 DEF Seen, Mine
<1> QED BY ZenonT(60), <1>1, <1>2, <1>3 DEF Observes

LEMMA RefreshObserves ==
  ASSUME NEW s \in Service, Current(s), NEW owners \in SUBSET Process, NEW bad,
         image \in [Process -> Image]
  PROVE  Observes(s, Refresh(s, owners, bad), image)
<1> DEFINE seen == {p \in owners : Readable(s, p, bad) /\ image[p] > s.observed[p]}
           c == CommitObserved(s, seen)
           u == Refresh(s, owners, bad)
<1>1. u \in Service /\ Loses(s.locks, u.locks)
  BY ZenonT(60), RefreshType, RefreshLoses
<1>2. /\ c.locks = {l \in s.locks : ~(/\ l.owner \in seen
                                      /\ \E e \in Completed(s, l.owner) : l.file \in e.files)}
      /\ c.execs = {e \in s.execs : ~(e.owner \in seen /\ e \in Completed(s, e.owner))}
      /\ c.waits = s.waits /\ c.observed = s.observed /\ DOMAIN c = DOMAIN s
  BY DEF CommitObserved, Service
<1>3. seen \in SUBSET Process /\ \A p \in seen : image[p] > s.observed[p]
  OBVIOUS
<1> HIDE DEF seen
<1>4. /\ u.locks = c.locks /\ u.execs = c.execs
      /\ u.waits = {w \in s.waits : w.owner \notin seen}
      /\ u.observed = [p \in Process |-> IF p \in seen THEN image[p] ELSE s.observed[p]]
  <2>1. u = Observe(s, seen)
    BY DEF Refresh, seen
  <2> HIDE DEF c, u
  <2> QED BY ZenonT(60), <1>2, <2>1 DEF Observe, c, Service
<1> HIDE DEF c, u
<1>5. \A e \in s.execs : e.owner \in seen => e \in Completed(s, e.owner)
  BY <1>3 DEF Completed, Current
<1>6. \A q : Completed(s, q) = {e \in s.execs : e.owner = q /\ image[q] > e.revision}
  BY DEF Completed
<1>7. ASSUME NEW p \in Process, p \notin seen PROVE Unseen(s, u, p)
  <2>1. /\ \A l \in s.locks : l.owner = p => l \in c.locks
        /\ \A e \in s.execs : e.owner = p => e \in c.execs
        /\ c.locks \subseteq s.locks /\ c.execs \subseteq s.execs
    BY ZenonT(60), <1>2, <1>7
  <2> QED BY ZenonT(60), <1>4, <1>7, <2>1 DEF Unseen, Mine
<1>8. ASSUME NEW p \in seen PROVE Seen(s, u, p, image)
  <2>1. p \in Process /\ s.observed[p] < image[p] /\ u.observed[p] = image[p]
    BY ZenonT(60), <1>3, <1>4, LimitAssumption DEF Service, Image
  <2>2. Mine(u.execs, p) = {} /\ Mine(u.waits, p) = {}
    BY <1>2, <1>4, <1>5 DEF Mine
  <2>3. \A e : e \in Completed(s, p) <=> e \in s.execs /\ e.owner = p
    BY ZenonT(60), <1>5, <1>6
  <2>4. ASSUME NEW l \in s.locks, l.owner = p
        PROVE  l \in c.locks <=> \A e \in s.execs : e.owner = p => l.file \notin e.files
    BY ZenonT(60), <1>2, <2>3, <2>4
  <2>5. Mine(u.locks, p) = {l \in s.locks : l.owner = p /\
                           \A e \in s.execs : e.owner = p => l.file \notin e.files}
    BY ZenonT(60), <1>2, <1>4, <2>4 DEF Mine
  <2> QED BY ZenonT(60), <2>1, <2>2, <2>5 DEF Seen
<1>9. u.waits \subseteq s.waits
  BY ZenonT(60), <1>4
<1>10. Observes(s, u, image)
  BY ZenonT(60), <1>1, <1>7, <1>8, <1>9 DEF Observes
<1> QED BY <1>10 DEF u

LEMMA ValidatedObserves ==
  ASSUME TypeOK, Current(svc), NEW c, c.thread \in Thread, NEW bad
  PROVE  Observes(svc, Validated(c, bad).svc, image)
<1>1. svc \in Service /\ image \in [Process -> Image] /\ {ProcessOf[c.thread]} \in SUBSET Process
  BY ThreadAssumption DEF TypeOK
<1>2. CASE c.thread \in threads
  <2>1. Validated(c, bad).svc = Refresh(svc, {ProcessOf[c.thread]}, bad)
    BY <1>2 DEF Validated
  <2>2. Observes(svc, Refresh(svc, {ProcessOf[c.thread]}, bad), image)
    BY <1>1, RefreshObserves
  <2> QED BY ZenonT(60), <2>1, <2>2
<1>3. CASE c.thread \notin threads
  <2>1. Validated(c, bad).svc = svc
    BY <1>3 DEF Validated
  <2> QED BY ZenonT(60), <1>1, <2>1, ObservesNothing
<1> QED BY ZenonT(60), <1>2, <1>3

LEMMA RefreshedForObserves ==
  ASSUME TypeOK, NEW v, v.svc \in Service, Current(v.svc), NEW file, NEW bad
  PROVE  Observes(v.svc, RefreshedFor(v, file, bad).svc, image)
<1>1. image \in [Process -> Image] /\ ExecOwners(v.svc, {file}) \in SUBSET Process
  BY ExecOwnersType DEF TypeOK
<1>2. CASE v.ok
  <2>1. RefreshedFor(v, file, bad).svc = Refresh(v.svc, ExecOwners(v.svc, {file}), bad)
    BY <1>2 DEF RefreshedFor
  <2>2. Observes(v.svc, Refresh(v.svc, ExecOwners(v.svc, {file}), bad), image)
    BY ZenonT(60), <1>1, RefreshObserves
  <2> QED BY ZenonT(60), <2>1, <2>2
<1>3. CASE ~v.ok
  <2>1. RefreshedFor(v, file, bad).svc = v.svc
    BY <1>3 DEF RefreshedFor
  <2> QED BY <2>1, ObservesNothing
<1> QED BY ZenonT(60), <1>2, <1>3

LEMMA HandlerObserves ==
  ASSUME TypeOK, Current(svc), NEW c, c.thread \in Thread, NEW file, NEW bad
  PROVE  Observes(svc, RefreshedFor(Validated(c, bad), file, bad).svc, image)
<1> DEFINE v == Validated(c, bad)
<1>1. Observes(svc, v.svc, image)
  BY ZenonT(60), ValidatedObserves
<1> HIDE DEF v
<1>2. Current(v.svc) /\ v.svc \in Service
  BY ZenonT(60), <1>1, ObservesCurrent DEF Observes
<1>3. Observes(v.svc, RefreshedFor(v, file, bad).svc, image)
  BY ZenonT(60), <1>2, RefreshedForObserves
<1>4. svc \in Service /\ image \in [Process -> Image]
  BY DEF TypeOK
<1>5. Observes(svc, RefreshedFor(v, file, bad).svc, image)
  BY ZenonT(60), <1>1, <1>3, <1>4, ObservesTrans
<1> QED BY <1>5 DEF v

\* When every preparation over the file could be looked at, none of those left
\* belongs to an image that has been replaced.
LEMMA FreshFor ==
  ASSUME TypeOK, NEW v, SInv(v.svc), Current(v.svc), NEW file, NEW bad, v.ok,
         RefreshedFor(v, file, bad).ok,
         NEW e \in RefreshedFor(v, file, bad).svc.execs, file \in e.files
  PROVE  image[e.owner] <= e.revision
<1> DEFINE owners == ExecOwners(v.svc, {file})
           u == Refresh(v.svc, owners, bad)
           o == e.owner
<1>1. /\ RefreshedFor(v, file, bad).svc = u
      /\ \A q \in owners : Readable(v.svc, q, bad)
  BY ZenonT(60) DEF RefreshedFor
<1>2. v.svc \in Service /\ owners \in SUBSET Process /\ image \in [Process -> Image]
  BY ZenonT(60), ExecOwnersType DEF TypeOK, SInv
<1>3. u.observed = [p \in Process |->
        IF p \in {q \in owners : Readable(v.svc, q, bad) /\ image[q] > v.svc.observed[q]}
          THEN image[p] ELSE v.svc.observed[p]]
  <2> HIDE DEF owners
  <2> QED BY <1>2, RefreshInv
<1>4. Observes(v.svc, u, image)
  <2> HIDE DEF owners
  <2> QED BY ZenonT(60), <1>2, RefreshObserves
<1>5. e \in u.execs
  BY ZenonT(60), <1>1
<1> HIDE DEF u
<1>6. Current(u) /\ u \in Service
  BY ZenonT(60), <1>4, ObservesCurrent DEF Observes
<1>7. o \in Process /\ e.revision = u.observed[o]
  BY ZenonT(60), <1>5, <1>6 DEF Current, Service, Preparation
<1>8. e \in v.svc.execs
  <2>1. Mine(u.execs, o) # {}
    BY ZenonT(60), <1>5 DEF Mine
  <2>2. Unseen(v.svc, u, o)
    BY ZenonT(60), <1>4, <1>7, <2>1 DEF Observes, Seen
  <2>3. e \in Mine(u.execs, o)
    BY ZenonT(60), <1>5 DEF Mine
  <2> HIDE DEF o
  <2> QED BY ZenonT(60), <2>2, <2>3 DEF Unseen, Mine
<1>9. o \in owners
  BY ZenonT(60), <1>8 DEF ExecOwners
<1>10. Readable(v.svc, o, bad)
  BY ZenonT(60), <1>1, <1>9
<1> HIDE DEF owners, o
<1>11. u.observed[o] = IF image[o] > v.svc.observed[o] THEN image[o] ELSE v.svc.observed[o]
  BY ZenonT(60), <1>3, <1>7, <1>9, <1>10
<1>12. image[o] \in Int /\ v.svc.observed[o] \in Int
  <2>1. v.svc.observed \in [Process -> Image]
    BY ZenonT(60), <1>2 DEF Service
  <2> QED BY SMTT(60), <1>2, <1>7, <2>1, LimitAssumption DEF Image
<1>13. image[o] <= e.revision
  BY SMTT(60), <1>7, <1>11, <1>12
<1> QED BY ZenonT(60), <1>13 DEF o

LEMMA ObservesGrows ==
  ASSUME NEW s \in Service, NEW t, NEW images \in [Process -> Image], Observes(s, t, images),
         NEW p \in Process
  PROVE  s.observed[p] <= t.observed[p] /\ (t.observed[p] <= s.observed[p] => Unseen(s, t, p))
<1>1. s.observed \in [Process -> Image] /\ Image \subseteq Int
  BY LimitAssumption DEF Service, Image
<1>2. s.observed[p] \in Int /\ images[p] \in Int
  BY ZenonT(60), <1>1
<1>3. CASE Unseen(s, t, p)
  BY <1>2, <1>3 DEF Unseen
<1>4. CASE Seen(s, t, p, images)
  BY <1>2, <1>4 DEF Seen
<1> QED BY ZenonT(60), <1>3, <1>4 DEF Observes

-----------------------------------------------------------------------------
(* What every step does.                                                   *)

\* Seeing a newer image of a process releases exactly its prepared files.
Releases(s, t) ==
  \A p \in Process : t.observed[p] # s.observed[p] =>
    /\ Mine(t.execs, p) = {} /\ Mine(t.waits, p) = {}
    /\ Mine(t.locks, p) = {l \in s.locks : l.owner = p /\
                             \A e \in s.execs : e.owner = p => l.file \notin e.files}

\* u is t after an operation of process q.
Acts(t, u, q) ==
  /\ u.observed = t.observed
  /\ \A p \in Process \ {q} :
       /\ Mine(u.locks, p) = Mine(t.locks, p) /\ Mine(u.execs, p) = Mine(t.execs, p)
       /\ Mine(u.waits, p) \subseteq Mine(t.waits, p)

LEMMA ActsReleases ==
  ASSUME NEW s, NEW t, NEW images, Observes(s, t, images), NEW q \in Process, NEW u,
         Acts(t, u, q), t.observed[q] = s.observed[q]
  PROVE  Releases(s, u)
<1> SUFFICES ASSUME NEW p \in Process, u.observed[p] # s.observed[p]
             PROVE  /\ Mine(u.execs, p) = {} /\ Mine(u.waits, p) = {}
                    /\ Mine(u.locks, p) = {l \in s.locks : l.owner = p /\
                          \A e \in s.execs : e.owner = p => l.file \notin e.files}
  BY ZenonT(60) DEF Releases
<1>1. p # q /\ t.observed[p] # s.observed[p]
  BY ZenonT(60) DEF Acts
<1>2. Seen(s, t, p, images)
  BY ZenonT(60), <1>1 DEF Observes, Unseen
<1> QED BY ZenonT(60), <1>1, <1>2 DEF Seen, Acts

LEMMA ObservesReleases ==
  ASSUME NEW s, NEW t, NEW images, Observes(s, t, images)
  PROVE  Releases(s, t)
<1> SUFFICES ASSUME NEW p \in Process, t.observed[p] # s.observed[p]
             PROVE  /\ Mine(t.execs, p) = {} /\ Mine(t.waits, p) = {}
                    /\ Mine(t.locks, p) = {l \in s.locks : l.owner = p /\
                          \A e \in s.execs : e.owner = p => l.file \notin e.files}
  BY DEF Releases
<1>1. Seen(s, t, p, images)
  BY ZenonT(60) DEF Observes, Unseen
<1> QED BY ZenonT(60), <1>1 DEF Seen

\* Nothing is queued or granted; locks and queued calls may go.
Shrinks(s, t) == t.waits \subseteq s.waits /\ t.locks \subseteq s.locks

\* Only the locks of p may be new.
Writes(s, t, p) ==
  t.waits \subseteq s.waits /\ \A l \in t.locks : l \in s.locks \/ l.owner = p

\* A call of p is queued that closes no cycle.
Queues(s, t, p) ==
  \E r \in Service, w \in Wait :
    /\ Shrinks(s, r) /\ w.owner = p /\ ~Deadlocks(r, w)
    /\ t.waits = r.waits \cup {w} /\ t.locks = r.locks

\* The service state a step may leave behind, whatever its caller.
Settles ==
  /\ Merged(svc'.locks) /\ Current(svc')
  /\ \A p \in Process : svc.observed[p] <= svc'.observed[p]
  /\ Releases(svc, svc')

\* Who a step may have worked for.
Shape ==
  \/ Shrinks(svc, svc')
  \/ \E c \in call : Writes(svc, svc', ProcessOf[c.thread])
  \/ \E g \in staged : Writes(svc, svc', g.owner)
  \/ \E c \in call : Queues(svc, svc', ProcessOf[c.thread])

Settled ==
  /\ Merged(svc.locks) /\ Current(svc)
  /\ \A c \in call : c.image <= svc.observed[ProcessOf[c.thread]]

LEMMA ObservingStep ==
  ASSUME TypeOK, Settled, Observes(svc, svc', image)
  PROVE  Settles /\ Shape
<1>1. svc \in Service /\ image \in [Process -> Image]
  BY ZenonT(60) DEF TypeOK
<1>2. Merged(svc'.locks)
  BY ZenonT(60), MergedLoses DEF Settled, Observes
<1>3. Current(svc')
  BY ZenonT(60), ObservesCurrent DEF Settled
<1>4. \A p \in Process : svc.observed[p] <= svc'.observed[p]
  BY ZenonT(60), <1>1, ObservesGrows
<1>5. Releases(svc, svc')
  BY ZenonT(60), ObservesReleases
<1>6. Shrinks(svc, svc')
  BY DEF Observes, Shrinks, Loses
<1> QED BY ZenonT(60), <1>2, <1>3, <1>4, <1>5, <1>6 DEF Settles, Shape

LEMMA StillStep ==
  ASSUME TypeOK, Settled, Merged(svc'.locks), svc'.execs \subseteq svc.execs,
         svc'.observed = svc.observed
  PROVE  Settles
<1>1. \A p \in Process : svc.observed[p] <= svc.observed[p]
  BY LimitAssumption DEF TypeOK, Service, Image
<1>2. Current(svc')
  BY ZenonT(60) DEF Settled, Current
<1>3. Releases(svc, svc')
  BY ZenonT(60) DEF Releases
<1> QED BY ZenonT(60), <1>1, <1>2, <1>3 DEF Settles

-----------------------------------------------------------------------------
(* One lemma per action.                                                   *)

LEMMA RetireStill ==
  ASSUME NEW s \in Service, NEW gone, NEW left
  PROVE  LET u == WithdrawPages(Retire(s, gone), left)
         IN  /\ u.locks = {l \in s.locks : l.owner \notin gone}
             /\ u.execs = {e \in s.execs : e.owner \notin gone}
             /\ u.waits = {w \in s.waits : w.owner \notin gone}
             /\ u.observed = s.observed /\ DOMAIN u = DOMAIN s
<1> DEFINE r == Retire(s, gone)
<1>1. /\ r.locks = {l \in s.locks : l.owner \notin gone}
      /\ r.execs = {e \in s.execs : e.owner \notin gone}
      /\ r.waits = {w \in s.waits : w.owner \notin gone}
      /\ r.observed = s.observed /\ DOMAIN r = DOMAIN s
  BY DEF Retire, Service
<1> HIDE DEF r
<1>2. /\ WithdrawPages(r, left).locks = r.locks /\ WithdrawPages(r, left).execs = r.execs
      /\ WithdrawPages(r, left).waits = r.waits /\ WithdrawPages(r, left).observed = r.observed
      /\ DOMAIN WithdrawPages(r, left) = DOMAIN s
  BY ZenonT(60), <1>1 DEF WithdrawPages, Service
<1> QED BY ZenonT(60), <1>1, <1>2 DEF r

LEMMA LoopExitsSettles ==
  ASSUME IInv, Settled, LoopExits
  PROVE  Settles /\ Shape
<1> DEFINE gone == {p \in svc.registered : p \notin alive}
<1>1. PICK failed \in SUBSET (gone \ svc.exited) :
        svc' = [WithdrawPages(Retire(svc, gone), gone \ failed) EXCEPT !.exited = @ \cup (gone \ failed)]
  BY Zenon DEF LoopExits
<1> DEFINE u == WithdrawPages(Retire(svc, gone), gone \ failed)
<1>2. svc \in Service /\ TypeOK
  BY ZenonT(60) DEF IInv, TypeOK
<1>3. Loses(svc.locks, u.locks)
  BY ZenonT(60), <1>2, RetireLoses
<1>4. /\ u.locks \subseteq svc.locks /\ u.execs \subseteq svc.execs /\ u.waits \subseteq svc.waits
      /\ u.observed = svc.observed /\ DOMAIN u = DOMAIN svc
  <2> HIDE DEF gone
  <2> QED BY <1>2, RetireStill
<1>5. svc' = [u EXCEPT !.exited = @ \cup (gone \ failed)]
  BY ZenonT(60), <1>1
<1> HIDE DEF u
<1>6. /\ svc'.locks = u.locks /\ svc'.execs = u.execs /\ svc'.waits = u.waits
      /\ svc'.observed = u.observed
  BY ZenonT(60), <1>2, <1>4, <1>5 DEF Service
<1>7. Merged(svc'.locks)
  BY ZenonT(60), <1>3, <1>6, MergedLoses DEF Settled
<1> QED BY ZenonT(60), <1>2, <1>4, <1>6, <1>7, StillStep DEF Shape, Shrinks

LEMMA ReapSettles ==
  ASSUME IInv, Settled, NEW p \in Process, Reap(p)
  PROVE  Settles /\ Shape
<1> DEFINE u == WithdrawPages(Retire(svc, {p}), {p})
<1>2. svc \in Service /\ TypeOK
  BY ZenonT(60) DEF IInv, TypeOK
<1>3. Loses(svc.locks, u.locks)
  BY ZenonT(60), <1>2, RetireLoses
<1>4. /\ u.locks \subseteq svc.locks /\ u.execs \subseteq svc.execs /\ u.waits \subseteq svc.waits
      /\ u.observed = svc.observed /\ DOMAIN u = DOMAIN svc
  BY <1>2, RetireStill
<1>5. svc' = [u EXCEPT !.exited = @ \ {p}, !.registered = @ \ {p}]
  BY DEF Reap
<1> HIDE DEF u
<1>6. /\ svc'.locks = u.locks /\ svc'.execs = u.execs /\ svc'.waits = u.waits
      /\ svc'.observed = u.observed
  BY ZenonT(60), <1>2, <1>4, <1>5 DEF Service
<1>7. Merged(svc'.locks)
  BY ZenonT(60), <1>3, <1>6, MergedLoses DEF Settled
<1> QED BY ZenonT(60), <1>2, <1>4, <1>6, <1>7, StillStep DEF Shape, Shrinks

\* Unpinning files keeps all the rest.
LEMMA ReleaseUnusedKeeps ==
  ASSUME NEW s \in Service
  PROVE  /\ ReleaseUnused(s) \in Service
         /\ ReleaseUnused(s).locks = s.locks /\ ReleaseUnused(s).execs = s.execs
         /\ ReleaseUnused(s).waits = s.waits /\ ReleaseUnused(s).observed = s.observed
         /\ ReleaseUnused(s).nextWait = s.nextWait
BY ReleaseUnusedType DEF ReleaseUnused, Service

LEMMA LoopExecsSettles ==
  ASSUME IInv, Settled, LoopExecs
  PROVE  Settles /\ Shape
<1>1. PICK bad \in SUBSET Unreadable :
        svc' = ReleaseUnused(Refresh(svc, ExecOwners(svc, File), bad))
  BY ZenonT(60) DEF LoopExecs
<1> DEFINE u == Refresh(svc, ExecOwners(svc, File), bad)
<1>2. svc \in Service /\ TypeOK /\ image \in [Process -> Image] /\ Current(svc)
  BY DEF IInv, TypeOK, Settled
<1>3. Observes(svc, u, image)
  BY ZenonT(60), <1>2, RefreshObserves, ExecOwnersType
<1>4. svc' = ReleaseUnused(u)
  BY ZenonT(60), <1>1
<1> HIDE DEF u
<1>5. u \in Service
  BY ZenonT(60), <1>3 DEF Observes
<1>6. /\ svc' \in Service /\ svc'.locks = u.locks /\ svc'.execs = u.execs
      /\ svc'.waits \subseteq u.waits /\ svc'.observed = u.observed
  BY ZenonT(60), <1>4, <1>5, ReleaseUnusedKeeps
<1>7. Observes(svc, svc', image)
  BY ZenonT(60), <1>3, <1>6, ObservesLike
<1> QED BY ZenonT(60), <1>2, <1>7, ObservingStep

LEMMA ReceiveSettles ==
  ASSUME IInv, Settled, NEW t \in Thread, NEW r \in Request, Receive(t, r)
  PROVE  Settles /\ Shape
<1>1. /\ svc \in Service /\ TypeOK /\ image \in [Process -> Image] /\ Current(svc)
      /\ {ProcessOf[t]} \in SUBSET Process /\ svc' = Refresh(svc, {ProcessOf[t]}, {})
  BY ZenonT(60), ThreadAssumption DEF Receive, IInv, TypeOK, Settled
<1>2. Observes(svc, svc', image)
  BY ZenonT(60), <1>1, RefreshObserves
<1> QED BY ZenonT(60), <1>1, <1>2, ObservingStep

LEMMA StutterSettles ==
  ASSUME IInv, Settled, svc'.locks = svc.locks, svc'.execs = svc.execs,
         svc'.waits = svc.waits, svc'.observed = svc.observed
  PROVE  Settles /\ Shape
<1>1. TypeOK /\ Merged(svc'.locks)
  BY ZenonT(60) DEF IInv, Settled
<1>2. Shape
  BY DEF Shape, Shrinks
<1> QED BY ZenonT(60), <1>1, <1>2, StillStep

LEMMA EndPassSettles ==
  ASSUME IInv, Settled, EndPass
  PROVE  Settles /\ Shape
<1>1. svc \in Service /\ svc' = ReleaseUnused(svc)
  BY ZenonT(60) DEF EndPass, IInv, TypeOK
<1> QED BY ZenonT(60), <1>1, ReleaseUnusedKeeps, StutterSettles

\* Storing locks and publishing touch neither preparations, waits nor images.
LEMMA StoreKeeps ==
  ASSUME NEW s \in Service, NEW p \in Process, NEW h, NEW L, NEW F
  PROVE  /\ Hint(s, p, h).execs = s.execs /\ Hint(s, p, h).waits = s.waits
         /\ Hint(s, p, h).observed = s.observed
         /\ Publish(s, p).execs = s.execs /\ Publish(s, p).waits = s.waits
         /\ Publish(s, p).observed = s.observed
         /\ Store(s, p, L, F).execs = s.execs /\ Store(s, p, L, F).waits = s.waits
         /\ Store(s, p, L, F).observed = s.observed
         /\ ReleaseUnused(Store(s, p, L, F)).execs = s.execs
         /\ ReleaseUnused(Store(s, p, L, F)).waits = s.waits
         /\ ReleaseUnused(Store(s, p, L, F)).observed = s.observed
<1>1. /\ Hint(s, p, h).execs = s.execs /\ Hint(s, p, h).waits = s.waits
      /\ Hint(s, p, h).observed = s.observed
      /\ Publish(s, p).execs = s.execs /\ Publish(s, p).waits = s.waits
      /\ Publish(s, p).observed = s.observed
  BY DEF Hint, Publish, Service
<1> DEFINE u == Store(s, p, L, F)
<1>2. /\ u.execs = s.execs /\ u.waits = s.waits /\ u.observed = s.observed
      /\ DOMAIN u = DOMAIN s
  BY DEF Store, Publish, Hint, Service
<1> HIDE DEF u
<1>3. /\ ReleaseUnused(u).execs = u.execs /\ ReleaseUnused(u).waits = u.waits
      /\ ReleaseUnused(u).observed = u.observed
  BY ZenonT(60), <1>2 DEF ReleaseUnused, Service
<1> QED BY ZenonT(60), <1>1, <1>2, <1>3 DEF u

LEMMA HeldKeeps ==
  ASSUME NEW s \in Service, NEW p \in Process
  PROVE  /\ Hint(s, p, "held") \in Service /\ Hint(s, p, "held").locks = s.locks
         /\ Hint(s, p, "held").execs = s.execs /\ Hint(s, p, "held").waits = s.waits
         /\ Hint(s, p, "held").observed = s.observed
<1>1. Hint(s, p, "held") \in Service
  BY HintType
<1> QED BY ZenonT(60), <1>1 DEF Hint, Service

LEMMA CommitGrantSettles ==
  ASSUME IInv, GrantsFresh, Settled, CommitGrant
  PROVE  Settles /\ Shape
<1>1. PICK g \in staged :
        /\ svc' = IF g.delivered
                    THEN Store(svc, g.owner, g.locks, g.pins)
                    ELSE Publish(svc, g.owner)
        /\ stage' = g.resume
  BY DEF CommitGrant
<1>2. g.owner \in Process /\ svc \in Service /\ Merged(svc.locks) /\ TypeOK
  BY DEF IInv, TypeOK, Grant, Settled
<1>3. PICK f \in File, k \in Kind, r \in ByteRange :
        g.locks = Replacement(svc.locks, g.owner, f, k, r)
  BY ZenonT(60) DEF GrantsFresh, Pending
<1>4. svc'.execs = svc.execs /\ svc'.waits = svc.waits /\ svc'.observed = svc.observed
  BY SMTT(60), <1>1, <1>2, StoreKeeps
<1>5. CASE g.delivered
  <2>1. svc'.locks = Replacement(svc.locks, g.owner, f, k, r)
    BY SMTT(60), <1>1, <1>2, <1>3, <1>5, StoreLocks
  <2>2. Merged(svc'.locks)
    <3>1. Pieces(svc.locks, g.owner, f, r) \in SUBSET Lock
      BY ZenonT(60), <1>2, PiecesType DEF Merged
    <3>2. [file |-> f, owner |-> g.owner, kind |-> k, range |-> r] \in Lock
      BY ZenonT(60), <1>2 DEF Lock
    <3> QED BY ZenonT(60), <2>1, <3>1, <3>2, MergedCoalesce DEF Replacement
  <2>3. ASSUME NEW l \in svc'.locks PROVE l \in svc.locks \/ l.owner = g.owner
    BY <1>2, <2>1, OthersKept
  <2>4. Writes(svc, svc', g.owner)
    BY ZenonT(60), <1>4, <2>3 DEF Writes
  <2> QED BY ZenonT(60), <1>2, <1>4, <2>2, <2>4, StillStep DEF Shape
<1>6. CASE ~g.delivered
  <2>1. svc'.locks = svc.locks
    BY ZenonT(60), <1>1, <1>2, <1>6, PublishLocks
  <2> QED BY ZenonT(60), <1>4, <2>1, StutterSettles
<1> QED BY <1>5, <1>6

\* An accepted call acts for the image the service knows of its process.
LEMMA Accepted ==
  ASSUME IInv, Settled, NEW c \in call, NEW f, NEW bad,
         RefreshedFor(Validated(c, bad), f, bad).ok
  PROVE  RefreshedFor(Validated(c, bad), f, bad).svc.observed[ProcessOf[c.thread]]
           <= svc.observed[ProcessOf[c.thread]]
<1>1. c.thread \in Thread
  BY ZenonT(60) DEF IInv, TypeOK, Call
<1>2. RefreshedFor(Validated(c, bad), f, bad).svc.observed[ProcessOf[c.thread]] = c.image
  BY ZenonT(60), <1>1, HandlerInv
<1> QED BY ZenonT(60), <1>2 DEF Settled

LEMMA ActingStep ==
  ASSUME TypeOK, Settled, NEW s, Observes(svc, s, image), NEW p \in Process,
         s.observed[p] <= svc.observed[p], Acts(s, svc', p), Merged(svc'.locks), Current(svc')
  PROVE  Settles
<1>1. svc \in Service /\ image \in [Process -> Image]
  BY ZenonT(60) DEF TypeOK
<1>2. s.observed[p] = svc.observed[p]
  BY ZenonT(60), <1>1, ObservesGrows DEF Unseen
<1>3. Releases(svc, svc')
  BY ZenonT(60), <1>2, ActsReleases
<1>4. \A q \in Process : svc.observed[q] <= s.observed[q]
  BY ZenonT(60), <1>1, ObservesGrows
<1>5. svc'.observed = s.observed
  BY ZenonT(60) DEF Acts
<1> QED BY ZenonT(60), <1>3, <1>4, <1>5 DEF Settles

\* Storing new locks of the caller after what was just learnt.
LEMMA StoringStep ==
  ASSUME TypeOK, Settled, NEW s, Observes(svc, s, image), NEW c \in call,
         NEW p \in Process, p = ProcessOf[c.thread], s.observed[p] <= svc.observed[p],
         svc'.execs = s.execs, svc'.waits = s.waits, svc'.observed = s.observed,
         Merged(svc'.locks), \A l : l.owner # p => (l \in svc'.locks <=> l \in s.locks)
  PROVE  Settles /\ Shape
<1>1. Acts(s, svc', p)
  BY ZenonT(60) DEF Acts, Mine
<1>2. Current(svc')
  <2>1. Current(s)
    BY ObservesCurrent DEF Settled
  <2> QED BY ZenonT(60), <2>1 DEF Current
<1>3. Writes(svc, svc', p)
  BY ZenonT(60) DEF Writes, Observes, Loses
<1> QED BY ZenonT(60), <1>1, <1>2, <1>3, ActingStep DEF Shape

\* Plain calls are answered at once and touch neither jobs nor grants.
LEMMA RecordLockAnswers ==
  ASSUME NEW c, FinishRecordLock(c)
  PROVE  jobs' = jobs /\ todo' = todo /\ staged' = staged /\ call' = {}
BY ZenonT(60) DEF FinishRecordLock, Answer

LEMMA FinishRecordLockSettles ==
  ASSUME IInv, Settled, NEW c \in call, FinishRecordLock(c)
  PROVE  Settles /\ Shape
<1> DEFINE p == ProcessOf[c.thread]
           r == c.request
<1>1. /\ c.thread \in Thread /\ p \in Process /\ r \in AnyRequest /\ TypeOK /\ Current(svc)
      /\ r.op \in {"set", "query", "unlock", "release"}
  BY ZenonT(60), ThreadAssumption, RequestAssumption DEF IInv, TypeOK, Call, FinishRecordLock, Settled
<1>2. /\ r.file \in File
      /\ r.op = "unlock" => r.range \in ByteRange
      /\ r.op = "set" => r.range \in ByteRange /\ r.kind \in Kind
  BY ZenonT(60), <1>1 DEF AnyRequest
<1>3. PICK bad \in SUBSET Unreadable :
        LockOutcome(c, RefreshedFor(Validated(c, bad), r.file, bad))
  BY Zenon, RecordLockCases
<1> DEFINE v == RefreshedFor(Validated(c, bad), r.file, bad)
           s == ReleaseUnused(v.svc)
<1>4. Observes(svc, v.svc, image) /\ (v.ok => v.svc.observed[p] <= svc.observed[p])
  BY ZenonT(60), <1>1, HandlerObserves, Accepted
<1>5. \/ svc' = v.svc
      \/ svc' = s
      \/ svc' = Publish(s, p)
      \/ v.ok /\ svc' = ReleaseUnused(Store(s, p, ReleaseFile(s.locks, p, r.file), {}))
      \/ /\ r.op = "unlock" /\ v.ok
         /\ \/ svc' = ReleaseUnused(Store(s, p, Pieces(s.locks, p, r.file, r.range), {}))
            \/ svc' = ReleaseUnused(Store(s, p, Coalesce(Pieces(s.locks, p, r.file, r.range)), {}))
      \/ /\ r.op = "set" /\ v.ok
         /\ svc' = ReleaseUnused(Store(s, p, Replacement(s.locks, p, r.file, r.kind, r.range), {r.file}))
  BY ZenonT(60), <1>3 DEF LockOutcome, Answer
<1> HIDE DEF v
<1>6. v.svc \in Service
  BY ZenonT(60), <1>4 DEF Observes
<1>7. /\ s \in Service /\ s.locks = v.svc.locks /\ s.execs = v.svc.execs
      /\ s.waits = v.svc.waits /\ s.observed = v.svc.observed
  BY ZenonT(60), <1>6, ReleaseUnusedKeeps
<1> HIDE DEF s
<1>8. Observes(svc, s, image)
  BY ZenonT(60), <1>4, <1>7, ObservesLike
<1>9. Merged(s.locks)
  BY ZenonT(60), <1>8, MergedLoses DEF Observes, Settled
<1>10. CASE svc' = v.svc \/ svc' = s \/ svc' = Publish(s, p)
  <2>1. /\ svc' \in Service /\ svc'.locks = s.locks /\ svc'.execs = s.execs
        /\ svc'.waits \subseteq s.waits /\ svc'.observed = s.observed
    BY SMTT(60), <1>1, <1>6, <1>7, <1>10, PublishLocks, StoreKeeps, PublishType
  <2>2. Observes(svc, svc', image)
    BY ZenonT(60), <1>8, <2>1, ObservesLike
  <2> QED BY ZenonT(60), <1>1, <2>2, ObservingStep
<1>11. ASSUME v.ok, NEW L, NEW F, svc' = ReleaseUnused(Store(s, p, L, F)), Merged(L),
              \A l : l.owner # p => (l \in L <=> l \in s.locks)
       PROVE  Settles /\ Shape
  <2>1. svc'.locks = L /\ svc'.execs = s.execs /\ svc'.waits = s.waits /\ svc'.observed = s.observed
    BY ZenonT(60), <1>1, <1>7, <1>11, StoredLocks, StoreKeeps
  <2>2. s.observed[p] <= svc.observed[p]
    BY ZenonT(60), <1>4, <1>7, <1>11
  <2> QED BY ZenonT(60), <1>1, <1>8, <1>11, <2>1, <2>2, StoringStep
<1>12. CASE v.ok /\ svc' = ReleaseUnused(Store(s, p, ReleaseFile(s.locks, p, r.file), {}))
  <2> DEFINE L == ReleaseFile(s.locks, p, r.file)
  <2>1. \A l : l.owner # p => (l \in L <=> l \in s.locks)
    BY ZenonT(60) DEF ReleaseFile
  <2>2. {<<p, r.file>>} \in SUBSET (Process \X File)
    BY SMTT(60), <1>1, <1>2
  <2>3. L = {l \in s.locks : <<l.owner, l.file>> \notin {<<p, r.file>>}}
    BY ZenonT(60) DEF ReleaseFile
  <2>4. Merged(L)
    BY ZenonT(60), <1>9, <2>2, <2>3, MergedLoses DEF Loses
  <2> HIDE DEF L
  <2> QED BY ZenonT(60), <1>11, <1>12, <2>1, <2>4 DEF L
<1>13. CASE /\ r.op = "unlock" /\ v.ok
            /\ \/ svc' = ReleaseUnused(Store(s, p, Pieces(s.locks, p, r.file, r.range), {}))
               \/ svc' = ReleaseUnused(Store(s, p, Coalesce(Pieces(s.locks, p, r.file, r.range)), {}))
  <2> DEFINE P == Pieces(s.locks, p, r.file, r.range)
             C == Coalesce(P)
  <2>1. r.file \in File /\ r.range \in ByteRange /\ s.locks \in SUBSET Lock /\ "read" \in Kind
    BY ZenonT(60), <1>2, <1>9, <1>13 DEF Merged, Kind
  <2>2. Merged(P)
    BY ZenonT(60), <1>1, <1>9, <2>1, MergedPieces
  <2>3. Merged(C)
    <3> HIDE DEF P
    <3> QED BY ZenonT(60), <2>2 DEF Merged
  <2>4. \A l : l.owner # p => (l \in P <=> l \in s.locks) /\ (l \in C <=> l \in s.locks)
    BY ZenonT(60), <1>1, <1>9, <2>1, OthersKept
  <2>5. svc' = ReleaseUnused(Store(s, p, P, {})) \/ svc' = ReleaseUnused(Store(s, p, C, {}))
    BY ZenonT(60), <1>13
  <2> HIDE DEF P, C
  <2> QED BY ZenonT(60), <1>11, <1>13, <2>2, <2>3, <2>4, <2>5
<1>14. CASE /\ r.op = "set" /\ v.ok
            /\ svc' = ReleaseUnused(Store(s, p, Replacement(s.locks, p, r.file, r.kind, r.range), {r.file}))
  <2> DEFINE L == Replacement(s.locks, p, r.file, r.kind, r.range)
             n == [file |-> r.file, owner |-> p, kind |-> r.kind, range |-> r.range]
  <2>1. r.file \in File /\ r.range \in ByteRange /\ s.locks \in SUBSET Lock /\ r.kind \in Kind
    BY ZenonT(60), <1>2, <1>9, <1>14 DEF Merged
  <2>2. Merged(L)
    <3>1. Pieces(s.locks, p, r.file, r.range) \in SUBSET Lock
      BY ZenonT(60), <2>1, PiecesType
    <3>2. n \in Lock
      BY ZenonT(60), <1>1, <2>1 DEF Lock
    <3> QED BY ZenonT(60), <3>1, <3>2, MergedCoalesce DEF Replacement
  <2>3. \A l : l.owner # p => (l \in L <=> l \in s.locks)
    BY ZenonT(60), <1>1, <1>9, <2>1, OthersKept
  <2> HIDE DEF L
  <2> QED BY ZenonT(60), <1>11, <1>14, <2>2, <2>3 DEF L
<1> QED BY SMTT(60), <1>5, <1>10, <1>12, <1>13, <1>14

\* What NoStaleConflict says of one step.
Unstale ==
  \A j \in jobs' : (j \notin jobs \/ j \in todo \ todo') =>
    \A w \in svc'.waits : w.token = j.token =>
      \A l \in BlockersOf(svc'.locks, w) : \A e \in svc'.execs :
        (e.owner = l.owner /\ l.file \in e.files) => image[e.owner] <= e.revision

\* A step queues at most the call being answered, admits at most one more, and
\* answers all it was asked.
Books ==
  \/ /\ jobs' \subseteq jobs /\ call' \subseteq call
  \/ /\ jobs' = jobs
     /\ \A c \in call' : /\ \A j \in jobs : j.thread # c.thread
                         /\ c.thread \in Thread
                         /\ c.image <= svc'.observed[ProcessOf[c.thread]]
  \/ /\ call' = {}
     /\ \E c \in call : \E n : jobs' = jobs \cup {n} /\ n.thread = c.thread

\* A new grant serves the caller, or a queued call that it takes out.
Serves ==
  \A g \in staged' : \/ g \in staged
                     \/ /\ svc'.waits \subseteq svc.waits
                        /\ \/ \E c \in call : g.owner = ProcessOf[c.thread]
                           \/ \E w \in svc.waits : w \notin svc'.waits /\ w.owner = g.owner

LEMMA StageGrantOwner ==
  ASSUME NEW s, NEW p, NEW L, NEW F, NEW t, NEW resume, StageGrant(s, p, L, F, t, resume)
  PROVE  svc' = Hint(s, p, "held") /\ \A g \in staged' : g.owner = p
BY SMTT(60) DEF StageGrant

LEMMA RetryJobSettles ==
  ASSUME IInv, Settled, NEW j \in todo, RetryJob(j)
  PROVE  Settles /\ Shape /\ Unstale /\ Serves /\ Books
<1> DEFINE p == ProcessOf[j.thread]
<1>1. j.thread \in Thread /\ p \in Process /\ TypeOK /\ SInv(svc) /\ Current(svc)
      /\ todo' = todo \ {j}
  BY ZenonT(60), ThreadAssumption DEF IInv, TypeOK, Job, RetryJob, Settled
<1>2. PICK bad \in SUBSET Unreadable, signalled \in BOOLEAN :
        RetryOutcome(j, RefreshedFor(Resumed(j, bad, signalled), j.file, bad))
  BY Zenon, RetryCases
<1> DEFINE i == Validated(j, bad)
           e == Resumed(j, bad, signalled)
           v == RefreshedFor(e, j.file, bad)
           s == v.svc
           found == MatchingWait(s, p, j.token)
           consumed == [s EXCEPT !.waits = @ \ found]
           L(w) == Replacement(s.locks, p, w.file, w.kind, w.range)
<1>3. /\ \/ (svc' = consumed \/ svc' = Hint(consumed, p, "held")) /\ jobs' = jobs \ {j}
         \/ v.ok /\ svc' = s /\ jobs' = jobs
      /\ \/ staged' = staged
         \/ found # {} /\ svc' = Hint(consumed, p, "held") /\ \A g \in staged' : g.owner = p
  <2>1. \/ svc' = consumed /\ jobs' = jobs \ {j} /\ staged' = staged
        \/ v.ok /\ svc' = s /\ jobs' = jobs /\ staged' = staged
        \/ \E w \in found : /\ StageGrant(consumed, p, L(w), {}, j.thread, "retry")
                            /\ jobs' = jobs \ {j}
    BY ZenonT(60), <1>2 DEF RetryOutcome
  <2> HIDE DEF consumed, found, v, L
  <2>2. CASE \E w \in found : /\ StageGrant(consumed, p, L(w), {}, j.thread, "retry")
                              /\ jobs' = jobs \ {j}
    BY ZenonT(60), <2>2, StageGrantOwner
  <2> QED BY ZenonT(60), <2>1, <2>2
<1>4. Descends(svc, i.svc) /\ Observes(svc, i.svc, image)
  BY ZenonT(60), <1>1, ValidatedInv, ValidatedObserves
<1>5. e.svc = i.svc
  BY Zenon, ResumedIs
<1> HIDE DEF i, e
<1>6. SInv(e.svc) /\ Current(e.svc) /\ Observes(svc, e.svc, image)
  BY ZenonT(60), <1>1, <1>4, <1>5, ObservesCurrent DEF Descends
<1>7. e.svc \in Service /\ svc \in Service /\ image \in [Process -> Image]
  BY ZenonT(60), <1>1, <1>6 DEF SInv, TypeOK
<1>8. Observes(e.svc, s, image)
  BY ZenonT(60), <1>1, <1>6, <1>7, RefreshedForObserves
<1>9. v.ok => e.ok
  BY ZenonT(60), <1>1, <1>6, RefreshedForInv
<1>10. \A x \in v.svc.execs : v.ok /\ j.file \in x.files => image[x.owner] <= x.revision
  BY ZenonT(60), <1>1, <1>6, <1>9, FreshFor
<1> HIDE DEF v
<1>11. Observes(svc, s, image)
  BY ZenonT(60), <1>6, <1>7, <1>8, ObservesTrans
<1>12. s \in Service
  BY ZenonT(60), <1>11 DEF Observes
<1>13. /\ consumed \in Service /\ consumed.locks = s.locks /\ consumed.execs = s.execs
       /\ consumed.waits \subseteq s.waits /\ consumed.observed = s.observed
  BY ZenonT(60), <1>12 DEF Service
<1>14. /\ svc' \in Service /\ svc'.locks = s.locks /\ svc'.execs = s.execs
       /\ svc'.waits \subseteq s.waits /\ svc'.observed = s.observed
  <2>1. p \in Process
    BY ZenonT(60), <1>1
  <2> HIDE DEF consumed, s, p
  <2>2. CASE svc' = Hint(consumed, p, "held")
    <3>1. /\ svc' \in Service /\ svc'.locks = consumed.locks /\ svc'.execs = consumed.execs
          /\ svc'.waits = consumed.waits /\ svc'.observed = consumed.observed
      BY ZenonT(60), <1>13, <2>1, <2>2, HeldKeeps
    <3> QED BY ZenonT(60), <1>13, <3>1
  <2> QED BY ZenonT(60), <1>3, <1>12, <1>13, <2>2
<1>15. Observes(svc, svc', image)
  BY ZenonT(60), <1>11, <1>14, ObservesLike
<1>16. Unstale
  <2> SUFFICES ASSUME NEW k \in jobs', k \notin jobs \/ k \in todo \ todo',
                      NEW w \in svc'.waits, w.token = k.token,
                      NEW l \in BlockersOf(svc'.locks, w), NEW x \in svc'.execs,
                      x.owner = l.owner, l.file \in x.files
               PROVE  image[x.owner] <= x.revision
    BY DEF Unstale
  <2>1. k = j /\ v.ok /\ jobs' = jobs
    BY ZenonT(60), <1>1, <1>3
  <2>2. w \in svc.waits /\ j \in jobs
    BY ZenonT(60), <1>15, <2>1 DEF Observes
  <2>3. PICK m \in jobs : m.token = w.token /\ m.file = w.file
    BY ZenonT(60), <2>2 DEF IInv, JInv, WaitHasJob
  <2>4. m = j
    BY ZenonT(60), <2>1, <2>2, <2>3 DEF IInv, JInv
  <2>5. l.file = j.file
    BY ZenonT(60), <2>3, <2>4 DEF BlockersOf, Blockers
  <2> QED BY ZenonT(60), <1>10, <1>14, <2>1, <2>5
<1>17. Serves
  <2>1. CASE staged' = staged
    BY <2>1 DEF Serves
  <2>2. CASE found # {} /\ svc' = Hint(consumed, p, "held") /\ \A g \in staged' : g.owner = p
    <3>1. PICK w \in found : TRUE
      BY ZenonT(60), <2>2
    <3>2. w \in s.waits /\ w.owner = p
      BY ZenonT(60) DEF MatchingWait
    <3>3. svc'.waits = s.waits \ found
      <4>1. p \in Process
        BY ZenonT(60), <1>1
      <4>2. consumed.waits = s.waits \ found
        BY ZenonT(60), <1>12 DEF Service
      <4> HIDE DEF consumed, p
      <4> QED BY ZenonT(60), <1>13, <2>2, <4>1, <4>2, HeldKeeps
    <3>4. w \in svc.waits /\ w \notin svc'.waits /\ svc'.waits \subseteq svc.waits
      BY ZenonT(60), <1>11, <1>15, <3>1, <3>2, <3>3 DEF Observes
    <3> QED BY ZenonT(60), <2>2, <3>2, <3>4 DEF Serves
  <2> QED BY ZenonT(60), <1>3, <2>1, <2>2
<1>18. Books
  <2>1. jobs' \subseteq jobs
    BY ZenonT(60), <1>3
  <2>2. call' = call
    BY ZenonT(60) DEF RetryJob
  <2> QED BY ZenonT(60), <2>1, <2>2 DEF Books
<1> QED BY ZenonT(60), <1>1, <1>15, <1>16, <1>17, <1>18, ObservingStep

===============================================================================
