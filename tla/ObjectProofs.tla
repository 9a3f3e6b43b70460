---------------------------- MODULE ObjectProofs ----------------------------
(***************************************************************************)
(* Proofs about two objects of the POSIX service: for any number of        *)
(* inodes, descriptions and waits and any capacity, no wake-up of a FIFO is *)
(* lost and every level published is the channel's; and the references to  *)
(* a shared-memory object or semaphore are those of its name, descriptions *)
(* and clients.                                                            *)
(***************************************************************************)
EXTENDS Fifo, SharedObjects, FiniteSetTheorems, TLAPS

-----------------------------------------------------------------------------
(* FIFOs.                                                                  *)

FifoOpen == [inode : Inode, access : {"read", "write"}, ready : BOOLEAN,
             seen : BOOLEAN, client : BOOLEAN]

FifoJob == [object : Nat, condition : Conditions("read") \cup Conditions("write"),
            client : BOOLEAN, ready : BOOLEAN]

\* Descriptions of a table, each of some channel.
FifoTable(os) == \A o \in DOMAIN os : os[o] \in FifoOpen

\* A wait is about a description that exists, and is latched once its condition
\* holds; what is latched has been signalled.
FifoLatched(os, d, js) ==
  \A j \in DOMAIN js :
    /\ js[j].object \in DOMAIN os
    /\ js[j] \in FifoJob
    /\ WaitReady(os, d, js[j].object, js[j].condition) => js[j].ready

FifoSignalled(js, w) == \A j \in DOMAIN js : js[j].ready => j \in w

FifoLevels(os, d, l) ==
  DOMAIN l = DOMAIN os /\ \A o \in DOMAIN os : l[o] = Signals(Readiness(os, d, o))

\* Bytes are queued only in a channel somebody has open.
FifoHeld(os, d) == \A i \in Inode : d[i] > 0 => \E o \in DOMAIN os : os[o].inode = i

\* The inductive invariant of the FIFO worker.
FifoInv ==
  /\ lastOpen \in Nat /\ lastJob \in Nat
  /\ data \in [Inode -> 0 .. Capacity]
  /\ FifoTable(opens)
  /\ DOMAIN opens \subseteq 1 .. lastOpen
  /\ DOMAIN jobs \subseteq 1 .. lastJob
  /\ FifoLatched(opens, data, jobs)
  /\ FifoSignalled(jobs, woken)
  /\ FifoLevels(opens, data, level)
  /\ FifoHeld(opens, data)

\* Two states of the worker that differ only in the channel of inode i.
FifoElsewhere(os, d, os2, d2, i) ==
  /\ \A o \in DOMAIN os : os[o].inode # i => o \in DOMAIN os2 /\ os2[o] = os[o]
  /\ \A o \in DOMAIN os2 : os2[o].inode # i => o \in DOMAIN os /\ os2[o] = os[o]
  /\ \A k \in Inode \ {i} : d2[k] = d[k]

\* What a description is ready for depends on its own channel only.
LEMMA ReadinessLocal ==
  ASSUME NEW os, NEW d, NEW os2, NEW d2, NEW i, FifoTable(os), FifoTable(os2),
         FifoElsewhere(os, d, os2, d2, i),
         NEW o \in DOMAIN os2, os2[o].inode # i
  PROVE  Readiness(os2, d2, o) = Readiness(os, d, o)
<1>1. o \in DOMAIN os /\ os2[o] = os[o] /\ os[o].inode \in Inode \ {i}
  BY ZenonT(60) DEF FifoElsewhere, FifoTable, FifoOpen
<1>2. ASSUME NEW access PROVE Of(os2, os[o].inode, access) = Of(os, os[o].inode, access)
  BY ZenonT(60), <1>1 DEF Of, FifoElsewhere
<1>3. d2[os[o].inode] = d[os[o].inode]
  BY ZenonT(60), <1>1 DEF FifoElsewhere
<1> QED BY ZenonT(60), <1>1, <1>2, <1>3 DEF Readiness

\* And so does whether a wait on it is over.
LEMMA WaitLocal ==
  ASSUME NEW os, NEW d, NEW os2, NEW d2, NEW i, FifoTable(os), FifoTable(os2),
         FifoElsewhere(os, d, os2, d2, i),
         NEW o \in DOMAIN os2, os2[o].inode # i, NEW c
  PROVE  WaitReady(os2, d2, o, c) = WaitReady(os, d, o, c)
<1>1. o \in DOMAIN os /\ os2[o] = os[o] /\ os[o].inode \in Inode \ {i}
  BY ZenonT(60) DEF FifoElsewhere, FifoTable, FifoOpen
<1>2. d2[os[o].inode] = d[os[o].inode]
  BY ZenonT(60), <1>1 DEF FifoElsewhere
<1>3. Readiness(os2, d2, o) = Readiness(os, d, o)
  BY ReadinessLocal
<1> QED BY ZenonT(60), <1>1, <1>2, <1>3 DEF WaitReady

\* What follows every change of a channel restores the invariant: the levels
\* of its descriptions are published and its waits are pumped.
LEMMA ChangedInv ==
  ASSUME FifoInv, NEW os, NEW d \in [Inode -> 0 .. Capacity], NEW i \in Inode,
         Changed(os, d, i), FifoTable(os), FifoElsewhere(opens, data, os, d, i),
         \A j \in DOMAIN jobs : jobs[j].object \in DOMAIN os,
         \A o \in DOMAIN os \cap DOMAIN opens : os[o].inode = opens[o].inode,
         FifoHeld(os, d), DOMAIN os \subseteq 1 .. lastOpen',
         lastOpen' \in Nat, lastJob' = lastJob
  PROVE  FifoInv'
<1>1. opens' = os /\ data' = d /\ level' = VisitSignals(os, d, i) /\ jobs' = Pump(os, d, jobs, i)
      /\ woken' = woken \cup {j \in DOMAIN jobs' : jobs'[j].ready}
  BY ZenonT(60) DEF Changed
<1>2. FifoTable(opens) /\ FifoLatched(opens, data, jobs) /\ FifoLevels(opens, data, level)
  BY ZenonT(60) DEF FifoInv
<1>3. DOMAIN jobs' = DOMAIN jobs
  BY ZenonT(60), <1>1 DEF Pump
<1>4. FifoLatched(os, d, jobs')
  <2> SUFFICES ASSUME NEW j \in DOMAIN jobs
               PROVE  /\ jobs'[j].object \in DOMAIN os
                      /\ jobs'[j] \in FifoJob
                      /\ WaitReady(os, d, jobs'[j].object, jobs'[j].condition) => jobs'[j].ready
    BY ZenonT(60), <1>3 DEF FifoLatched
  <2>1. CASE os[jobs[j].object].inode = i
    <3>1. jobs'[j] = [jobs[j] EXCEPT !.ready = @ \/ WaitReady(os, d, jobs[j].object, jobs[j].condition)]
      BY ZenonT(60), <1>1, <2>1 DEF Pump
    <3>2. jobs[j] \in FifoJob
      BY ZenonT(60), <1>2 DEF FifoLatched
    <3>3. WaitReady(os, d, jobs[j].object, jobs[j].condition) \in BOOLEAN
      BY ZenonT(60) DEF WaitReady
    <3> DEFINE now == WaitReady(os, d, jobs[j].object, jobs[j].condition)
    <3>4. (jobs[j].ready \/ now) \in BOOLEAN /\ (now => (jobs[j].ready \/ now))
      BY ZenonT(60)
    <3> HIDE DEF now
    <3>5. jobs'[j] \in FifoJob /\ jobs'[j].object = jobs[j].object /\ jobs'[j].condition = jobs[j].condition
          /\ jobs'[j].ready = (jobs[j].ready \/ now)
      BY Zenon, <3>1, <3>2, <3>4 DEF FifoJob, now
    <3> QED BY ZenonT(60), <3>2, <3>4, <3>5 DEF now
  <2>2. CASE os[jobs[j].object].inode # i
    <3>1. jobs'[j] = jobs[j]
      BY ZenonT(60), <1>1, <2>2 DEF Pump
    <3>2. WaitReady(os, d, jobs[j].object, jobs[j].condition)
            = WaitReady(opens, data, jobs[j].object, jobs[j].condition)
      BY <1>2, <2>2, WaitLocal
    <3> QED BY ZenonT(60), <1>2, <3>1, <3>2 DEF FifoLatched
  <2> QED BY ZenonT(60), <2>1, <2>2
<1>5. FifoSignalled(jobs', woken')
  BY ZenonT(60), <1>1 DEF FifoSignalled
<1>6. FifoLevels(os, d, level')
  <2> SUFFICES ASSUME NEW o \in DOMAIN os PROVE level'[o] = Signals(Readiness(os, d, o))
    BY ZenonT(60), <1>1 DEF FifoLevels, VisitSignals
  <2>1. CASE os[o].inode = i \/ o \notin DOMAIN level
    BY ZenonT(60), <1>1, <2>1 DEF VisitSignals
  <2>2. CASE os[o].inode # i /\ o \in DOMAIN level
    <3>1. level'[o] = level[o]
      BY ZenonT(60), <1>1, <2>2 DEF VisitSignals
    <3>2. Readiness(os, d, o) = Readiness(opens, data, o)
      BY <1>2, <2>2, ReadinessLocal
    <3> QED BY ZenonT(60), <1>2, <2>2, <3>1, <3>2 DEF FifoLevels
  <2> QED BY ZenonT(60), <2>1, <2>2
<1> QED BY ZenonT(60), <1>1, <1>3, <1>4, <1>5, <1>6 DEF FifoInv

LEMMA RegisterInv ==
  ASSUME FifoInv, Register
  PROVE  FifoInv'
<1>1. PICK i \in Inode, access \in {"read", "write"}, nonblocking \in BOOLEAN,
           created \in BOOLEAN, delivered \in BOOLEAN :
         /\ lastOpen' = lastOpen + 1 /\ lastJob' = lastJob
         /\ IF created THEN Changed(Joined(i, access, nonblocking, delivered), data, i)
            ELSE UNCHANGED <<opens, data, level, jobs, woken>>
  BY ZenonT(60) DEF Register
<1>2. CASE ~created
  BY <1>1, <1>2 DEF FifoInv
<1>3. CASE created
  <2> DEFINE met == Of(opens, i, Opposite(access)) # {}
             new == [inode |-> i, access |-> access, ready |-> nonblocking \/ met,
                     seen |-> access = "read" /\ met, client |-> delivered]
             os == Joined(i, access, nonblocking, delivered)
  <2>1. new \in FifoOpen
    BY ZenonT(60) DEF FifoOpen
  <2>2. lastOpen + 1 \notin DOMAIN opens
    BY DEF FifoInv
  <2>3. DOMAIN os = DOMAIN opens \cup {lastOpen + 1} /\ os[lastOpen + 1] = new
    BY ZenonT(60) DEF Joined
  <2>4. ASSUME NEW o \in DOMAIN opens
        PROVE  /\ os[o] \in FifoOpen /\ os[o].inode = opens[o].inode
               /\ opens[o].inode # i => os[o] = opens[o]
    <3>1. opens[o] \in FifoOpen
      BY ZenonT(60) DEF FifoInv, FifoTable
    <3>2. CASE opens[o].inode = i /\ opens[o].access # access
      <4>1. os[o] = [opens[o] EXCEPT !.ready = TRUE, !.seen = @ \/ access = "write"]
        BY ZenonT(60), <2>2, <3>2 DEF Joined
      <4> DEFINE seen == opens[o].seen \/ access = "write"
      <4>2. seen \in BOOLEAN
        BY ZenonT(60)
      <4> HIDE DEF seen
      <4>3. os[o] = [opens[o] EXCEPT !.ready = TRUE, !.seen = seen]
        BY ZenonT(60), <4>1 DEF seen
      <4> QED BY ZenonT(60), <3>1, <3>2, <4>2, <4>3 DEF FifoOpen
    <3>3. CASE ~(opens[o].inode = i /\ opens[o].access # access)
      <4>1. os[o] = opens[o]
        BY ZenonT(60), <2>2, <3>3 DEF Joined
      <4> QED BY ZenonT(60), <3>1, <4>1
    <3> QED BY ZenonT(60), <3>2, <3>3
  <2> HIDE DEF os, new
  <2>5. FifoTable(os)
    BY ZenonT(60), <2>1, <2>3, <2>4 DEF FifoTable
  <2>6. FifoElsewhere(opens, data, os, data, i)
    <3>1. new.inode = i
      BY ZenonT(60) DEF new
    <3> QED BY ZenonT(60), <2>3, <2>4, <3>1 DEF FifoElsewhere
  <2>7. FifoHeld(os, data)
    BY ZenonT(60), <2>3, <2>4 DEF FifoHeld, FifoInv
  <2>8. DOMAIN os \subseteq 1 .. lastOpen' /\ lastOpen' \in Nat
    BY <1>1, <2>3 DEF FifoInv
  <2>9. \A j \in DOMAIN jobs : jobs[j].object \in DOMAIN os
    BY ZenonT(60), <2>3 DEF FifoInv, FifoLatched
  <2>10. Changed(os, data, i)
    BY ZenonT(60), <1>1, <1>3 DEF os
  <2> QED BY ZenonT(60), <1>1, <2>4, <2>5, <2>6, <2>7, <2>8, <2>9, <2>10, ChangedInv DEF FifoInv
<1> QED BY ZenonT(60), <1>2, <1>3

LEMMA ReadFifoInv ==
  ASSUME FifoInv, ReadFifo
  PROVE  FifoInv'
<1>1. PICK o \in DOMAIN opens, n \in 1 .. Capacity :
         LET i == opens[o].inode
             count == IF n < data[i] THEN n ELSE data[i]
         IN  /\ data[i] > 0
             /\ Changed(opens, [data EXCEPT ![i] = @ - count], i)
             /\ UNCHANGED <<lastOpen, lastJob>>
  BY ZenonT(60) DEF ReadFifo
<1> DEFINE i == opens[o].inode
           count == IF n < data[i] THEN n ELSE data[i]
           d == [data EXCEPT ![i] = @ - count]
<1>2. i \in Inode
  BY ZenonT(60) DEF FifoInv, FifoTable, FifoOpen
<1>3. d \in [Inode -> 0 .. Capacity]
  <2>1. data \in [Inode -> 0 .. Capacity] /\ data[i] \in 0 .. Capacity
    BY ZenonT(60), <1>2 DEF FifoInv
  <2>2. data[i] - count \in 0 .. Capacity
    BY <2>1, FifoAssumption
  <2> QED BY ZenonT(60), <2>1, <2>2
<1>4. FifoElsewhere(opens, data, opens, d, i)
  BY ZenonT(60), <1>2 DEF FifoElsewhere, FifoInv
<1>5. FifoHeld(opens, d)
  <2> SUFFICES ASSUME NEW x \in Inode, d[x] > 0 PROVE \E y \in DOMAIN opens : opens[y].inode = x
    BY ZenonT(60) DEF FifoHeld
  <2>1. CASE x = i
    BY ZenonT(60), <2>1
  <2>2. CASE x # i
    BY ZenonT(60), <2>2 DEF FifoHeld, FifoInv
  <2> QED BY ZenonT(60), <2>1, <2>2
<1>6. Changed(opens, d, i) /\ UNCHANGED <<lastOpen, lastJob>>
  BY ZenonT(60), <1>1
<1> HIDE DEF d, i, count
<1> QED BY ZenonT(60), <1>2, <1>3, <1>4, <1>5, <1>6, ChangedInv DEF FifoInv, FifoLatched

LEMMA WriteFifoInv ==
  ASSUME FifoInv, WriteFifo
  PROVE  FifoInv'
<1>1. PICK o \in DOMAIN opens, n \in 1 .. (PipeBuf + 1) :
         LET i == opens[o].inode
             available == Capacity - data[i]
         IN  /\ available > 0
             /\ Changed(opens, [data EXCEPT ![i] = @ + (IF n < available THEN n ELSE available)], i)
             /\ UNCHANGED <<lastOpen, lastJob>>
  BY ZenonT(60) DEF WriteFifo
<1> DEFINE i == opens[o].inode
           available == Capacity - data[i]
           d == [data EXCEPT ![i] = @ + (IF n < available THEN n ELSE available)]
<1>2. i \in Inode
  BY ZenonT(60) DEF FifoInv, FifoTable, FifoOpen
<1>3. d \in [Inode -> 0 .. Capacity]
  <2>1. data \in [Inode -> 0 .. Capacity] /\ data[i] \in 0 .. Capacity
    BY ZenonT(60), <1>2 DEF FifoInv
  <2>2. data[i] + (IF n < available THEN n ELSE available) \in 0 .. Capacity
    BY <1>1, <2>1, FifoAssumption
  <2> QED BY ZenonT(60), <2>1, <2>2
<1>4. FifoElsewhere(opens, data, opens, d, i)
  BY ZenonT(60), <1>2 DEF FifoElsewhere, FifoInv
<1>5. FifoHeld(opens, d)
  <2> SUFFICES ASSUME NEW x \in Inode, d[x] > 0 PROVE \E y \in DOMAIN opens : opens[y].inode = x
    BY ZenonT(60) DEF FifoHeld
  <2>1. CASE x = i
    BY ZenonT(60), <2>1
  <2>2. CASE x # i
    BY ZenonT(60), <2>2 DEF FifoHeld, FifoInv
  <2> QED BY ZenonT(60), <2>1, <2>2
<1>6. Changed(opens, d, i) /\ UNCHANGED <<lastOpen, lastJob>>
  BY ZenonT(60), <1>1
<1> HIDE DEF d, i, available
<1> QED BY ZenonT(60), <1>2, <1>3, <1>4, <1>5, <1>6, ChangedInv DEF FifoInv, FifoLatched

\* A wait that is registered is latched at once when its condition holds.
LEMMA RegisterWaitInv ==
  ASSUME FifoInv, RegisterWait
  PROVE  FifoInv'
<1>1. PICK o \in DOMAIN opens : \E condition \in Conditions(opens[o].access), delivered \in BOOLEAN :
         LET job == WaitJob(o, condition, delivered)
         IN  /\ lastJob' = lastJob + 1
             /\ jobs' = [j \in DOMAIN jobs \cup {lastJob'} |-> IF j = lastJob' THEN job ELSE jobs[j]]
             /\ woken' = IF job.ready THEN woken \cup {lastJob'} ELSE woken
             /\ UNCHANGED <<data, opens, level, lastOpen>>
  BY ZenonT(60) DEF RegisterWait
<1>2. PICK condition \in Conditions(opens[o].access), delivered \in BOOLEAN :
         LET job == WaitJob(o, condition, delivered)
         IN  /\ lastJob' = lastJob + 1
             /\ jobs' = [j \in DOMAIN jobs \cup {lastJob'} |-> IF j = lastJob' THEN job ELSE jobs[j]]
             /\ woken' = IF job.ready THEN woken \cup {lastJob'} ELSE woken
             /\ UNCHANGED <<data, opens, level, lastOpen>>
  BY ZenonT(60), <1>1
<1> DEFINE job == WaitJob(o, condition, delivered)
<1>3. lastJob' \notin DOMAIN jobs /\ lastJob' \in Nat /\ DOMAIN jobs' \subseteq 1 .. lastJob'
  BY <1>2 DEF FifoInv
<1>4. job \in FifoJob /\ job.object = o /\ job.condition = condition
      /\ job.ready = WaitReady(opens, data, o, condition)
  <2>1. opens[o].access \in {"read", "write"} /\ o \in Nat
    BY DEF FifoInv, FifoTable, FifoOpen
  <2>2. WaitReady(opens, data, o, condition) \in BOOLEAN
    BY ZenonT(60) DEF WaitReady
  <2> QED BY Zenon, <2>1, <2>2 DEF WaitJob, FifoJob
<1> HIDE DEF job
<1>5. FifoLatched(opens, data, jobs')
  <2> SUFFICES ASSUME NEW j \in DOMAIN jobs'
               PROVE  /\ jobs'[j].object \in DOMAIN opens /\ jobs'[j] \in FifoJob
                      /\ WaitReady(opens, data, jobs'[j].object, jobs'[j].condition) => jobs'[j].ready
    BY ZenonT(60) DEF FifoLatched
  <2>1. CASE j = lastJob'
    BY ZenonT(60), <1>2, <1>4, <2>1 DEF job
  <2>2. CASE j # lastJob'
    <3>1. j \in DOMAIN jobs /\ jobs'[j] = jobs[j]
      BY ZenonT(60), <1>2, <2>2
    <3> QED BY ZenonT(60), <3>1 DEF FifoInv, FifoLatched
  <2> QED BY ZenonT(60), <2>1, <2>2
<1>6. FifoSignalled(jobs', woken')
  <2> SUFFICES ASSUME NEW j \in DOMAIN jobs', jobs'[j].ready PROVE j \in woken'
    BY ZenonT(60) DEF FifoSignalled
  <2>1. CASE j = lastJob'
    BY ZenonT(60), <1>2, <2>1 DEF job
  <2>2. CASE j # lastJob'
    BY ZenonT(60), <1>2, <2>2 DEF FifoInv, FifoSignalled
  <2> QED BY ZenonT(60), <2>1, <2>2
<1> QED BY ZenonT(60), <1>2, <1>3, <1>5, <1>6 DEF FifoInv

\* Who holds a description does not change what it is ready for.
LEMMA CloseDataInv ==
  ASSUME FifoInv, CloseData
  PROVE  FifoInv'
<1>1. PICK o \in DOMAIN opens :
         /\ opens' = [opens EXCEPT ![o].client = FALSE]
         /\ UNCHANGED <<data, jobs, level, woken, lastOpen, lastJob>>
  BY ZenonT(60) DEF CloseData
<1>2. DOMAIN opens' = DOMAIN opens
  BY ZenonT(60), <1>1
<1>3. ASSUME NEW x \in DOMAIN opens
      PROVE  /\ opens'[x] \in FifoOpen /\ opens'[x].inode = opens[x].inode
             /\ opens'[x].access = opens[x].access /\ opens'[x].ready = opens[x].ready
             /\ opens'[x].seen = opens[x].seen
  <2>1. opens[x] \in FifoOpen
    BY ZenonT(60) DEF FifoInv, FifoTable
  <2>2. opens'[x] = IF x = o THEN [opens[x] EXCEPT !.client = FALSE] ELSE opens[x]
    BY ZenonT(60), <1>1
  <2> QED BY ZenonT(60), <2>1, <2>2 DEF FifoOpen
<1>4. ASSUME NEW i, NEW access PROVE Of(opens', i, access) = Of(opens, i, access)
  BY ZenonT(60), <1>2, <1>3 DEF Of
<1>5. ASSUME NEW x \in DOMAIN opens PROVE Readiness(opens', data, x) = Readiness(opens, data, x)
  BY <1>3, <1>4 DEF Readiness
<1>6. ASSUME NEW x \in DOMAIN opens, NEW c
      PROVE  WaitReady(opens', data, x, c) = WaitReady(opens, data, x, c)
  BY ZenonT(60), <1>3, <1>5 DEF WaitReady
<1>7. FifoTable(opens')
  BY ZenonT(60), <1>2, <1>3 DEF FifoTable
<1>8. FifoLatched(opens', data, jobs)
  BY ZenonT(60), <1>2, <1>6 DEF FifoLatched, FifoInv
<1>9. FifoLevels(opens', data, level)
  BY ZenonT(60), <1>2, <1>5 DEF FifoLevels, FifoInv
<1>10. FifoHeld(opens', data)
  BY ZenonT(60), <1>2, <1>3 DEF FifoHeld, FifoInv
<1> QED BY ZenonT(60), <1>1, <1>2, <1>7, <1>8, <1>9, <1>10 DEF FifoInv

LEMMA CloseNotificationInv ==
  ASSUME FifoInv, CloseNotification
  PROVE  FifoInv'
<1>1. PICK j \in DOMAIN jobs :
         /\ jobs' = [jobs EXCEPT ![j].client = FALSE]
         /\ UNCHANGED <<data, opens, level, woken, lastOpen, lastJob>>
  BY ZenonT(60) DEF CloseNotification
<1>2. DOMAIN jobs' = DOMAIN jobs
  BY ZenonT(60), <1>1
<1>3. ASSUME NEW x \in DOMAIN jobs
      PROVE  /\ jobs'[x] \in FifoJob /\ jobs'[x].object = jobs[x].object
             /\ jobs'[x].condition = jobs[x].condition /\ jobs'[x].ready = jobs[x].ready
  <2>1. jobs[x] \in FifoJob
    BY ZenonT(60) DEF FifoInv, FifoLatched
  <2>2. jobs'[x] = IF x = j THEN [jobs[x] EXCEPT !.client = FALSE] ELSE jobs[x]
    BY ZenonT(60), <1>1
  <2> QED BY ZenonT(60), <2>1, <2>2 DEF FifoJob
<1>4. FifoLatched(opens, data, jobs')
  BY ZenonT(60), <1>2, <1>3 DEF FifoLatched, FifoInv
<1>5. FifoSignalled(jobs', woken)
  BY ZenonT(60), <1>2, <1>3 DEF FifoSignalled, FifoInv
<1> QED BY ZenonT(60), <1>1, <1>2, <1>4, <1>5 DEF FifoInv

\* The last description of a channel takes its bytes with it; no wait is left
\* without its description, because a wait holds a lease on it.
LEMMA ReleaseDataInv ==
  ASSUME FifoInv, ReleaseData
  PROVE  FifoInv'
<1>1. PICK o \in DOMAIN opens :
         LET left == Without(opens, o)
         IN  /\ ~Leased(o)
             /\ Changed(left, Closed(left, opens[o].inode), opens[o].inode)
             /\ UNCHANGED <<lastOpen, lastJob>>
  BY ZenonT(60) DEF ReleaseData
<1> DEFINE left == Without(opens, o)
           i == opens[o].inode
           d == Closed(left, i)
<1>2. i \in Inode /\ data \in [Inode -> 0 .. Capacity]
  BY ZenonT(60) DEF FifoInv, FifoTable, FifoOpen
<1>3. DOMAIN left = DOMAIN opens \ {o} /\ \A x \in DOMAIN left : left[x] = opens[x]
  BY ZenonT(60) DEF Without, Restrict
<1> HIDE DEF left
<1>4. d = data \/ d = [data EXCEPT ![i] = 0]
  BY ZenonT(60) DEF Closed
<1>5. d \in [Inode -> 0 .. Capacity] /\ \A x \in Inode \ {i} : d[x] = data[x]
  <2> HIDE DEF d, i
  <2> QED BY <1>2, <1>4, FifoAssumption
<1>6. FifoTable(left) /\ FifoElsewhere(opens, data, left, d, i)
  BY ZenonT(60), <1>3, <1>5 DEF FifoTable, FifoElsewhere, FifoInv
<1>7. FifoHeld(left, d)
  <2> SUFFICES ASSUME NEW x \in Inode, d[x] > 0 PROVE \E y \in DOMAIN left : left[y].inode = x
    BY ZenonT(60) DEF FifoHeld
  <2>1. CASE x = i
    <3>1. SUFFICES ASSUME \A y \in DOMAIN left : left[y].inode # i PROVE FALSE
      BY ZenonT(60), <2>1
    <3>2. d[i] = 0
      BY ZenonT(60), <1>2, <3>1 DEF Closed
    <3> QED BY <2>1, <3>2
  <2>2. CASE x # i
    <3>1. PICK y \in DOMAIN opens : opens[y].inode = x
      BY ZenonT(60), <1>5, <2>2 DEF FifoInv, FifoHeld
    <3> QED BY ZenonT(60), <1>3, <2>2, <3>1
  <2> QED BY ZenonT(60), <2>1, <2>2
<1>8. \A j \in DOMAIN jobs : jobs[j].object \in DOMAIN left
  BY ZenonT(60), <1>1, <1>3 DEF Leased, FifoInv, FifoLatched
<1>9. Changed(left, d, i) /\ UNCHANGED <<lastOpen, lastJob>>
  BY ZenonT(60), <1>1 DEF left
<1> HIDE DEF d, i
<1> QED BY ZenonT(60), <1>2, <1>3, <1>5, <1>6, <1>7, <1>8, <1>9, ChangedInv DEF FifoInv

LEMMA ReleaseJobInv ==
  ASSUME FifoInv, ReleaseJob
  PROVE  FifoInv'
<1>1. PICK j \in DOMAIN jobs :
         /\ jobs' = Without(jobs, j) /\ woken' = woken \ {j}
         /\ UNCHANGED <<data, opens, level, lastOpen, lastJob>>
  BY ZenonT(60) DEF ReleaseJob
<1>2. DOMAIN jobs' = DOMAIN jobs \ {j} /\ \A x \in DOMAIN jobs' : jobs'[x] = jobs[x]
  BY ZenonT(60), <1>1 DEF Without, Restrict
<1>3. FifoLatched(opens, data, jobs') /\ FifoSignalled(jobs', woken')
  BY ZenonT(60), <1>1, <1>2 DEF FifoLatched, FifoSignalled, FifoInv
<1> QED BY ZenonT(60), <1>1, <1>2, <1>3 DEF FifoInv

\* Every behaviour of the FIFO worker keeps the inductive invariant: each table is
\* well formed, a latched wait has been signalled, a wait whose condition holds is
\* latched, every level is current and bytes have an owner.
THEOREM FifoInvariance == FifoSpec => []FifoInv
<1>1. FifoInit => FifoInv
  BY FifoAssumption DEF FifoInit, FifoInv, FifoTable, FifoLatched, FifoSignalled, FifoLevels, FifoHeld
<1>2. FifoInv /\ [FifoNext]_fifoVars => FifoInv'
  <2> SUFFICES ASSUME FifoInv, [FifoNext]_fifoVars PROVE FifoInv'
    BY ZenonT(60)
  <2>1. CASE UNCHANGED fifoVars
    BY ZenonT(60), <2>1 DEF fifoVars, FifoInv
  <2> QED BY ZenonT(60), <2>1, RegisterInv, RegisterWaitInv, ReadFifoInv, WriteFifoInv, CloseDataInv,
             CloseNotificationInv, ReleaseDataInv, ReleaseJobInv DEF FifoNext
<1> QED BY <1>1, <1>2, PTL DEF FifoSpec

\* No wake-up of a FIFO is lost, for every number of inodes, descriptions and
\* waits (visit_signals, pump, register and the lease of fifo_wait.rs).
THEOREM FifoWakesAll == FifoSpec => []FifoWakes
<1>1. FifoInv => FifoWakes
  BY ZenonT(60) DEF FifoInv, FifoWakes, FifoLatched, FifoSignalled, FifoLevels, FifoHeld
<1> QED BY <1>1, FifoInvariance, PTL

-----------------------------------------------------------------------------
(* Shared memory and named semaphores.                                     *)

\* How often a table points at an object.
Count(f, b) == Cardinality({n \in DOMAIN f : f[n] = b})

Finite(f) == IsFiniteSet(DOMAIN f)

LEMMA CountType ==
  ASSUME NEW f, Finite(f), NEW b
  PROVE  /\ IsFiniteSet({n \in DOMAIN f : f[n] = b})
         /\ Count(f, b) \in Nat
         /\ b \in Range(f) <=> Count(f, b) > 0
<1>1. IsFiniteSet({n \in DOMAIN f : f[n] = b})
  BY ZenonT(60), FS_Subset DEF Finite
<1>2. Count(f, b) \in Nat
  BY ZenonT(60), <1>1, FS_CardinalityType DEF Count
<1>3. Count(f, b) = 0 <=> {n \in DOMAIN f : f[n] = b} = {}
  BY ZenonT(60), <1>1, FS_EmptySet DEF Count
<1> QED BY <1>1, <1>2, <1>3 DEF Range

LEMMA CountZero ==
  ASSUME NEW f, Finite(f), NEW b, b \notin Range(f)
  PROVE  Count(f, b) = 0
<1>1. {n \in DOMAIN f : f[n] = b} = {}
  BY ZenonT(60) DEF Range
<1> QED BY ZenonT(60), <1>1, FS_EmptySet DEF Count

LEMMA PutType ==
  ASSUME NEW f, NEW x, NEW v
  PROVE  /\ DOMAIN Put(f, x, v) = DOMAIN f \cup {x}
         /\ Put(f, x, v)[x] = v
         /\ \A y \in DOMAIN f : y # x => Put(f, x, v)[y] = f[y]
  BY ZenonT(60) DEF Put

LEMMA DropType ==
  ASSUME NEW f, NEW x
  PROVE  /\ DOMAIN Drop(f, x) = DOMAIN f \ {x}
         /\ \A y \in DOMAIN f : y # x => Drop(f, x)[y] = f[y]
  BY ZenonT(60) DEF Drop, Restrict

LEMMA PutCount ==
  ASSUME NEW f, Finite(f), NEW x, x \notin DOMAIN f, NEW v, NEW b
  PROVE  /\ Finite(Put(f, x, v))
         /\ Range(Put(f, x, v)) = Range(f) \cup {v}
         /\ Count(Put(f, x, v), b) = Count(f, b) + (IF b = v THEN 1 ELSE 0)
<1> DEFINE g == Put(f, x, v)
           S == {n \in DOMAIN f : f[n] = b}
<1>1. DOMAIN g = DOMAIN f \cup {x} /\ g[x] = v /\ \A y \in DOMAIN f : g[y] = f[y]
  BY ZenonT(60) DEF Put
<1> HIDE DEF g
<1>2. Finite(g)
  BY ZenonT(60), <1>1, FS_AddElement DEF Finite
<1>3. Range(g) = Range(f) \cup {v}
  BY ZenonT(60), <1>1 DEF Range
<1>4. ASSUME b = v PROVE Count(g, b) = Count(f, b) + (IF b = v THEN 1 ELSE 0)
  <2>1. {n \in DOMAIN g : g[n] = b} = S \cup {x}
    BY ZenonT(60), <1>1, <1>4
  <2>2. x \notin S /\ IsFiniteSet(S)
    BY ZenonT(60), CountType
  <2>3. Cardinality(S \cup {x}) = Cardinality(S) + 1
    BY ZenonT(60), <2>2, FS_AddElement
  <2>4. Count(g, b) = Count(f, b) + 1
    BY ZenonT(60), <2>1, <2>3 DEF Count
  <2> QED BY ZenonT(60), <1>4, <2>4
<1>5. ASSUME b # v PROVE Count(g, b) = Count(f, b) + (IF b = v THEN 1 ELSE 0)
  <2>1. {n \in DOMAIN g : g[n] = b} = S
    BY ZenonT(60), <1>1, <1>5
  <2>2. Count(f, b) \in Nat
    BY ZenonT(60), CountType
  <2>3. Count(g, b) = Count(f, b)
    BY ZenonT(60), <2>1 DEF Count
  <2> QED BY <1>5, <2>2, <2>3
<1>6. Count(g, b) = Count(f, b) + (IF b = v THEN 1 ELSE 0)
  BY ZenonT(60), <1>4, <1>5
<1> QED BY ZenonT(60), <1>2, <1>3, <1>6 DEF g

LEMMA DropCount ==
  ASSUME NEW f, Finite(f), NEW x \in DOMAIN f, NEW b
  PROVE  /\ Finite(Drop(f, x))
         /\ Range(Drop(f, x)) \subseteq Range(f)
         /\ Count(Drop(f, x), b) = Count(f, b) - (IF b = f[x] THEN 1 ELSE 0)
<1> DEFINE g == Drop(f, x)
           S == {n \in DOMAIN f : f[n] = b}
<1>1. DOMAIN g = DOMAIN f \ {x} /\ \A y \in DOMAIN g : g[y] = f[y]
  BY ZenonT(60), DropType
<1> HIDE DEF g
<1>2. Finite(g)
  BY ZenonT(60), <1>1, FS_RemoveElement DEF Finite
<1>3. Range(g) \subseteq Range(f)
  BY ZenonT(60), <1>1 DEF Range
<1>4. ASSUME b = f[x] PROVE Count(g, b) = Count(f, b) - (IF b = f[x] THEN 1 ELSE 0)
  <2>1. {n \in DOMAIN g : g[n] = b} = S \ {x}
    BY ZenonT(60), <1>1, <1>4
  <2>2. x \in S /\ IsFiniteSet(S)
    BY ZenonT(60), <1>4, CountType
  <2>3. Cardinality(S \ {x}) = Cardinality(S) - 1
    BY ZenonT(60), <2>2, FS_RemoveElement
  <2> QED BY ZenonT(60), <1>4, <2>1, <2>3 DEF Count
<1>5. ASSUME b # f[x] PROVE Count(g, b) = Count(f, b) - (IF b = f[x] THEN 1 ELSE 0)
  <2>1. {n \in DOMAIN g : g[n] = b} = S
    BY ZenonT(60), <1>1, <1>5
  <2>2. Count(f, b) \in Nat
    BY ZenonT(60), CountType
  <2>3. Count(g, b) = Count(f, b)
    BY ZenonT(60), <2>1 DEF Count
  <2> QED BY <1>5, <2>2, <2>3
<1>6. Count(g, b) = Count(f, b) - (IF b = f[x] THEN 1 ELSE 0)
  BY ZenonT(60), <1>4, <1>5
<1> QED BY ZenonT(60), <1>2, <1>3, <1>6 DEF g

\* The object each description is of.
Backings(os) == [d \in DOMAIN os |-> os[d].backing]

\* The tables f and g of names and h of descriptions account for the references
\* r, with those l lent to clients.
Owned(f, g, h, r, l) ==
  /\ Range(f) \cup Range(g) \cup Range(h) \subseteq DOMAIN r
  /\ DOMAIN l = DOMAIN r
  /\ \A b \in DOMAIN r : /\ l[b] \in Nat
                         /\ r[b] = Count(f, b) + Count(g, b) + Count(h, b) + l[b]
                         /\ Count(f, b) + Count(g, b) <= 1

SharedDescription == [backing : Nat, writable : BOOLEAN, cursor : 0 .. MaxOffset,
                      append : BOOLEAN, held : BOOLEAN]

Lengths(lengths, r) == DOMAIN lengths = DOMAIN r /\ \A b \in DOMAIN r : lengths[b] \in 0 .. MaxOffset

Below(f, n) == \A b \in DOMAIN f : b \in Nat /\ b < n

\* The link count descriptions report is that of the name space.
Linked(ls, f) == \A b \in DOMAIN ls : ls[b] = IF b \in Range(f) THEN 1 ELSE 0

\* The inductive invariant of the two name spaces and the descriptions.
SharedInv ==
  /\ nextObject \in Nat /\ nextOpen \in Nat
  /\ Below(refs, nextObject) /\ Below(links, nextObject) /\ Below(open, nextOpen)
  /\ Finite(shm) /\ Finite(sem) /\ Finite(open)
  /\ Lengths(backing, refs)
  /\ \A d \in DOMAIN open : open[d] \in SharedDescription
  /\ Owned(shm, sem, Backings(open), refs, lent)
  /\ Linked(links, shm)

\* Objects that nothing refers to go, and nothing that goes was referred to.
LEMMA SettleOwned ==
  ASSUME NEW f, NEW g, NEW h, Finite(f), Finite(g), Finite(h), NEW r, NEW lengths, NEW l,
         Settle(r, lengths), Lengths(lengths, r), NEW n, Below(r, n), Owned(f, g, h, r, l),
         \A b \in DOMAIN r : l[b] = IF b \in DOMAIN lent THEN lent[b] ELSE 0
  PROVE  /\ Owned(f, g, h, refs', lent')
         /\ Lengths(backing', refs')
         /\ Below(refs', n)
<1> DEFINE alive == {b \in DOMAIN r : r[b] > 0}
<1>1. /\ refs' = Restrict(r, alive) /\ backing' = Restrict(lengths, alive)
      /\ lent' = Restrict([b \in DOMAIN r |-> IF b \in DOMAIN lent THEN lent[b] ELSE 0], alive)
  BY ZenonT(60) DEF Settle
<1>2. /\ DOMAIN refs' = alive /\ DOMAIN backing' = alive /\ DOMAIN lent' = alive
      /\ \A b \in alive : refs'[b] = r[b] /\ backing'[b] = lengths[b] /\ lent'[b] = l[b]
  BY ZenonT(60), <1>1 DEF Restrict
<1>4. ASSUME NEW b \in Range(f) \cup Range(g) \cup Range(h) PROVE b \in alive
  <2>1. b \in DOMAIN r /\ l[b] \in Nat /\ r[b] = Count(f, b) + Count(g, b) + Count(h, b) + l[b]
    BY ZenonT(60) DEF Owned
  <2>2. Count(f, b) \in Nat /\ (b \in Range(f) => Count(f, b) > 0)
    BY ZenonT(60), CountType
  <2>3. Count(g, b) \in Nat /\ (b \in Range(g) => Count(g, b) > 0)
    BY ZenonT(60), CountType
  <2>4. Count(h, b) \in Nat /\ (b \in Range(h) => Count(h, b) > 0)
    BY ZenonT(60), CountType
  <2> QED BY <2>1, <2>2, <2>3, <2>4
<1>5. Owned(f, g, h, refs', lent')
  BY ZenonT(60), <1>2, <1>4 DEF Owned
<1> QED BY ZenonT(60), <1>2, <1>5 DEF Lengths, Below

\* The two name spaces count alike.
LEMMA OwnedSwap ==
  ASSUME NEW f, NEW g, NEW h, NEW r, NEW l, Finite(f), Finite(g), Finite(h), Owned(f, g, h, r, l)
  PROVE  Owned(g, f, h, r, l)
<1>1. \A b : Count(f, b) \in Nat /\ Count(g, b) \in Nat /\ Count(h, b) \in Nat
  BY ZenonT(60), CountType
<1> QED BY <1>1 DEF Owned

\* Opening a description of a live object.
LEMMA OwnedOpen ==
  ASSUME NEW f, NEW g, NEW h, NEW r, NEW l, Finite(f), Finite(g), Finite(h), Owned(f, g, h, r, l),
         NEW x, x \notin DOMAIN h, NEW b \in DOMAIN r
  PROVE  Owned(f, g, Put(h, x, b), Retain(r, b), l) /\ Finite(Put(h, x, b))
<1> DEFINE k == Put(h, x, b)
<1>1. \A c : Count(f, c) \in Nat /\ Count(g, c) \in Nat /\ Count(h, c) \in Nat
  BY ZenonT(60), CountType
<1>2. \A c : Count(k, c) = Count(h, c) + (IF c = b THEN 1 ELSE 0)
  BY PutCount
<1>3. Finite(k) /\ Range(k) = Range(h) \cup {b}
  BY ZenonT(60), PutCount
<1> HIDE DEF k
<1> DEFINE s == Retain(r, b)
<1>4. DOMAIN s = DOMAIN r /\ \A c \in DOMAIN r : s[c] = IF c = b THEN r[c] + 1 ELSE r[c]
  BY ZenonT(60) DEF Retain
<1> HIDE DEF s
<1>5. Owned(f, g, k, s, l)
  BY <1>1, <1>2, <1>3, <1>4 DEF Owned
<1> QED BY ZenonT(60), <1>3, <1>5 DEF k, s

\* Closing a description.
LEMMA OwnedRelease ==
  ASSUME NEW f, NEW g, NEW h, NEW r, NEW l, Finite(f), Finite(g), Finite(h), Owned(f, g, h, r, l),
         NEW x \in DOMAIN h
  PROVE  Owned(f, g, Drop(h, x), Close(r, h[x]), l) /\ Finite(Drop(h, x))
<1> DEFINE k == Drop(h, x)
           b == h[x]
<1>1. \A c : Count(f, c) \in Nat /\ Count(g, c) \in Nat /\ Count(h, c) \in Nat
  BY ZenonT(60), CountType
<1>2. \A c : Count(k, c) = Count(h, c) - (IF c = b THEN 1 ELSE 0)
  BY ZenonT(60), DropCount
<1>3. Finite(k) /\ Range(k) \subseteq Range(h)
  BY ZenonT(60), DropCount
<1> HIDE DEF k, b
<1> DEFINE s == Close(r, b)
<1>4. DOMAIN s = DOMAIN r /\ \A c \in DOMAIN r : s[c] = IF c = b THEN r[c] - 1 ELSE r[c]
  BY ZenonT(60) DEF Close
<1> HIDE DEF s
<1>5. Owned(f, g, k, s, l)
  BY <1>1, <1>2, <1>3, <1>4 DEF Owned
<1> QED BY ZenonT(60), <1>3, <1>5 DEF k, s, b

\* Unlinking a name.
LEMMA OwnedUnlink ==
  ASSUME NEW f, NEW g, NEW h, NEW r, NEW l, Finite(f), Finite(g), Finite(h), Owned(f, g, h, r, l),
         NEW x \in DOMAIN f
  PROVE  Owned(Drop(f, x), g, h, Close(r, f[x]), l) /\ Finite(Drop(f, x)) /\ f[x] \notin Range(Drop(f, x))
<1> DEFINE k == Drop(f, x)
           b == f[x]
<1>1. \A c : Count(f, c) \in Nat /\ Count(g, c) \in Nat /\ Count(h, c) \in Nat
  BY ZenonT(60), CountType
<1>2. \A c : Count(k, c) = Count(f, c) - (IF c = b THEN 1 ELSE 0)
  BY ZenonT(60), DropCount
<1>3. Finite(k) /\ Range(k) \subseteq Range(f)
  BY ZenonT(60), DropCount
<1>6. b \in DOMAIN r
  BY ZenonT(60) DEF Owned, Range
<1>7. Finite(k) => (b \in Range(k) => Count(k, b) > 0)
  BY ZenonT(60), CountType
<1> HIDE DEF k, b
<1> DEFINE s == Close(r, b)
<1>4. DOMAIN s = DOMAIN r /\ \A c \in DOMAIN r : s[c] = IF c = b THEN r[c] - 1 ELSE r[c]
  BY ZenonT(60) DEF Close
<1> HIDE DEF s
<1>5. Owned(k, g, h, s, l)
  BY <1>1, <1>2, <1>3, <1>4 DEF Owned
<1>8. b \notin Range(k)
  BY <1>1, <1>2, <1>3, <1>6, <1>7 DEF Owned
<1> QED BY ZenonT(60), <1>3, <1>5, <1>8 DEF k, s, b

\* A new object that is named, with n references lent.
LEMMA OwnedCreate ==
  ASSUME NEW f, NEW g, NEW h, NEW r, NEW l, Finite(f), Finite(g), Finite(h), Owned(f, g, h, r, l),
         NEW x, x \notin DOMAIN f, NEW b, b \notin DOMAIN r, NEW n \in Nat, NEW m, m = n + 1
  PROVE  Owned(Put(f, x, b), g, h, Put(r, b, m), Put(l, b, n)) /\ Finite(Put(f, x, b))
<1> DEFINE k == Put(f, x, b)
           s == Put(r, b, m)
           t == Put(l, b, n)
<1>1. \A c : Count(f, c) \in Nat /\ Count(g, c) \in Nat /\ Count(h, c) \in Nat
  BY ZenonT(60), CountType
<1>2. \A c : Count(k, c) = Count(f, c) + (IF c = b THEN 1 ELSE 0)
  BY PutCount
<1>3. Finite(k) /\ Range(k) = Range(f) \cup {b}
  BY ZenonT(60), PutCount
<1>4. DOMAIN s = DOMAIN r \cup {b} /\ s[b] = m /\ \A c \in DOMAIN r : s[c] = r[c]
  BY ZenonT(60) DEF Put
<1>5. DOMAIN t = DOMAIN r \cup {b} /\ t[b] = n /\ \A c \in DOMAIN r : t[c] = l[c]
  BY ZenonT(60) DEF Put, Owned
<1>6. Count(f, b) = 0 /\ Count(g, b) = 0 /\ Count(h, b) = 0
  <2>1. b \notin Range(f) /\ b \notin Range(g) /\ b \notin Range(h)
    BY ZenonT(60) DEF Owned
  <2> QED BY ZenonT(60), <2>1, CountZero
<1> HIDE DEF k, s, t
<1>7. Owned(k, g, h, s, t)
  BY <1>1, <1>2, <1>3, <1>4, <1>5, <1>6 DEF Owned
<1> QED BY ZenonT(60), <1>3, <1>7 DEF k, s, t

\* A new object whose creation is undone.
LEMMA OwnedUndone ==
  ASSUME NEW f, NEW g, NEW h, NEW r, NEW l, Finite(f), Finite(g), Finite(h), Owned(f, g, h, r, l),
         NEW b, b \notin DOMAIN r
  PROVE  Owned(f, g, h, Put(r, b, 0), Put(l, b, 0))
<1> DEFINE s == Put(r, b, 0)
           t == Put(l, b, 0)
<1>1. \A c : Count(f, c) \in Nat /\ Count(g, c) \in Nat /\ Count(h, c) \in Nat
  BY ZenonT(60), CountType
<1>4. DOMAIN s = DOMAIN r \cup {b} /\ s[b] = 0 /\ \A c \in DOMAIN r : s[c] = r[c]
  BY ZenonT(60) DEF Put
<1>5. DOMAIN t = DOMAIN r \cup {b} /\ t[b] = 0 /\ \A c \in DOMAIN r : t[c] = l[c]
  BY ZenonT(60) DEF Put, Owned
<1>6. Count(f, b) = 0 /\ Count(g, b) = 0 /\ Count(h, b) = 0
  <2>1. b \notin Range(f) /\ b \notin Range(g) /\ b \notin Range(h)
    BY ZenonT(60) DEF Owned
  <2> QED BY ZenonT(60), <2>1, CountZero
<1> HIDE DEF s, t
<1>7. Owned(f, g, h, s, t)
  BY <1>1, <1>4, <1>5, <1>6 DEF Owned
<1> QED BY ZenonT(60), <1>7 DEF s, t

\* A reference lent to a client, and one a client gives back.
LEMMA OwnedLend ==
  ASSUME NEW f, NEW g, NEW h, NEW r, NEW l, Finite(f), Finite(g), Finite(h), Owned(f, g, h, r, l),
         NEW b \in DOMAIN r
  PROVE  /\ Owned(f, g, h, Retain(r, b), [l EXCEPT ![b] = @ + 1])
         /\ l[b] > 0 => Owned(f, g, h, Close(r, b), [l EXCEPT ![b] = @ - 1])
<1>1. \A c : Count(f, c) \in Nat /\ Count(g, c) \in Nat /\ Count(h, c) \in Nat
  BY ZenonT(60), CountType
<1>2. Owned(f, g, h, Retain(r, b), [l EXCEPT ![b] = @ + 1])
  BY <1>1 DEF Owned, Retain
<1>3. ASSUME l[b] > 0 PROVE Owned(f, g, h, Close(r, b), [l EXCEPT ![b] = @ - 1])
  BY <1>1, <1>3 DEF Owned, Close
<1> QED BY ZenonT(60), <1>2, <1>3

LEMMA MaxPair == \A a, b \in Nat : Max({a, b}) \in Nat /\ Max({a, b}) = IF a >= b THEN a ELSE b
<1> TAKE a, b \in Nat
<1> DEFINE m == IF a >= b THEN a ELSE b
<1>1. m \in {a, b} /\ \A y \in {a, b} : m >= y
  OBVIOUS
<1>2. \A x \in {a, b} : (\A y \in {a, b} : x >= y) => x = m
  OBVIOUS
<1> HIDE DEF m
<1>3. Max({a, b}) = m
  BY ZenonT(60), <1>1, <1>2 DEF Max
<1> QED BY ZenonT(60), <1>3 DEF m

LEMMA MinPair == \A a, b \in Nat : Min({a, b}) \in Nat /\ Min({a, b}) = IF a <= b THEN a ELSE b
<1> TAKE a, b \in Nat
<1> DEFINE m == IF a <= b THEN a ELSE b
<1>1. m \in {a, b} /\ \A y \in {a, b} : m <= y
  OBVIOUS
<1>2. \A x \in {a, b} : (\A y \in {a, b} : x <= y) => x = m
  OBVIOUS
<1> HIDE DEF m
<1>3. Min({a, b}) = m
  BY ZenonT(60), <1>1, <1>2 DEF Min
<1> QED BY ZenonT(60), <1>3 DEF m

\* What the tables name is a live object.
LEMMA Live ==
  ASSUME SharedInv
  PROVE  /\ \A n \in DOMAIN shm : shm[n] \in DOMAIN refs
         /\ \A n \in DOMAIN sem : sem[n] \in DOMAIN refs
         /\ \A d \in DOMAIN open : open[d].backing \in DOMAIN refs
         /\ Finite(Backings(open)) /\ DOMAIN Backings(open) = DOMAIN open
         /\ nextObject \notin DOMAIN refs /\ nextObject \notin DOMAIN links /\ nextOpen \notin DOMAIN open
<1>1. \A n \in DOMAIN shm : shm[n] \in DOMAIN refs
  BY ZenonT(60) DEF SharedInv, Owned, Range
<1>2. \A n \in DOMAIN sem : sem[n] \in DOMAIN refs
  BY ZenonT(60) DEF SharedInv, Owned, Range
<1>3. DOMAIN Backings(open) = DOMAIN open /\ \A d \in DOMAIN open : Backings(open)[d] = open[d].backing
  BY ZenonT(60) DEF Backings
<1>4. \A d \in DOMAIN open : open[d].backing \in DOMAIN refs
  <2>1. Range(Backings(open)) \subseteq DOMAIN refs
    BY ZenonT(60) DEF SharedInv, Owned
  <2> QED BY ZenonT(60), <1>3, <2>1 DEF Range
<1>5. Finite(Backings(open))
  BY ZenonT(60), <1>3 DEF SharedInv, Finite
<1>6. nextObject \notin DOMAIN refs /\ nextObject \notin DOMAIN links /\ nextOpen \notin DOMAIN open
  BY DEF SharedInv, Below
<1> QED BY ZenonT(60), <1>1, <1>2, <1>3, <1>4, <1>5, <1>6

\* A step that only moves descriptions and resizes objects.
LEMMA FieldsInv ==
  ASSUME SharedInv, UNCHANGED <<refs, shm, sem, links, lent, nextObject, nextOpen>>,
         Lengths(backing', refs), DOMAIN open' = DOMAIN open,
         \A d \in DOMAIN open : open'[d] \in SharedDescription /\ open'[d].backing = open[d].backing
  PROVE  SharedInv'
<1>1. Backings(open)' = Backings(open)
  BY ZenonT(60) DEF Backings
<1>2. Owned(shm, sem, Backings(open), refs, lent)'
  BY ZenonT(60), <1>1 DEF SharedInv, Owned, Count, Range
<1>3. Finite(shm)' /\ Finite(sem)' /\ Finite(open)' /\ Linked(links, shm)'
  BY ZenonT(60) DEF SharedInv, Finite, Linked, Range
<1>4. Below(refs, nextObject)' /\ Below(links, nextObject)' /\ Below(open, nextOpen)' /\ Lengths(backing, refs)'
  BY ZenonT(60) DEF SharedInv, Below, Lengths
<1> QED BY ZenonT(60), <1>2, <1>3, <1>4 DEF SharedInv, SharedDescription

LEMMA ResizedLengths ==
  ASSUME SharedInv, NEW b \in DOMAIN refs, NEW n \in 0 .. MaxOffset
  PROVE  Lengths(Resized(b, n), refs) /\ backing[b] \in 0 .. MaxOffset
  BY ZenonT(60) DEF SharedInv, Lengths, Resized

LEMMA TruncateInv == ASSUME SharedInv, Truncate PROVE SharedInv'
<1>1. PICK d \in DOMAIN open, length \in 0 .. MaxOffset :
        backing' = Resized(open[d].backing, length)
  BY ZenonT(60) DEF Truncate
<1>2. Lengths(backing', refs)
  BY ZenonT(60), <1>1, Live, ResizedLengths
<1>3. UNCHANGED <<refs, shm, sem, links, open, lent, nextObject, nextOpen>>
  BY ZenonT(60) DEF Truncate
<1> QED BY ZenonT(60), <1>2, <1>3, FieldsInv DEF SharedInv

LEMMA WriteAtInv == ASSUME SharedInv, WriteAt PROVE SharedInv'
<1>1. PICK d \in DOMAIN open, offset \in 0 .. MaxOffset, n \in 1 .. 2 :
        /\ Fits(offset + n)
        /\ backing' = Resized(open[d].backing, Max({backing[open[d].backing], offset + n}))
  BY ZenonT(60) DEF WriteAt
<1> DEFINE b == open[d].backing
           m == Max({backing[b], offset + n})
<1>2. b \in DOMAIN refs
  BY ZenonT(60), Live
<1>3. backing[b] \in 0 .. MaxOffset
  BY ZenonT(60), <1>2 DEF SharedInv, Lengths
<1>4. m \in 0 .. MaxOffset
  <2>1. backing[b] \in Nat /\ offset + n \in Nat /\ offset + n <= MaxOffset
    BY <1>1, <1>3, SharedAssumption DEF Fits
  <2> QED BY <1>3, <2>1, MaxPair, SharedAssumption
<1>5. Lengths(backing', refs)
  BY ZenonT(60), <1>1, <1>2, <1>4, ResizedLengths
<1>6. UNCHANGED <<refs, shm, sem, links, open, lent, nextObject, nextOpen>>
  BY ZenonT(60) DEF WriteAt
<1> QED BY ZenonT(60), <1>5, <1>6, FieldsInv DEF SharedInv

\* A description whose fields other than its object change.
LEMMA DescriptionInv ==
  ASSUME SharedInv, UNCHANGED <<refs, shm, sem, links, lent, nextObject, nextOpen>>,
         Lengths(backing', refs), NEW d \in DOMAIN open, NEW e \in SharedDescription,
         e.backing = open[d].backing, open' = [open EXCEPT ![d] = e]
  PROVE  SharedInv'
<1>1. DOMAIN open' = DOMAIN open
  BY ZenonT(60)
<1>2. \A c \in DOMAIN open : open'[c] \in SharedDescription /\ open'[c].backing = open[c].backing
  BY ZenonT(60) DEF SharedInv
<1> QED BY ZenonT(60), <1>1, <1>2, FieldsInv

LEMMA CursorInv ==
  ASSUME SharedInv, UNCHANGED <<refs, shm, sem, links, lent, nextObject, nextOpen>>,
         Lengths(backing', refs), NEW d \in DOMAIN open, NEW c \in 0 .. MaxOffset,
         open' = [open EXCEPT ![d].cursor = c]
  PROVE  SharedInv'
<1> DEFINE e == [open[d] EXCEPT !.cursor = c]
<1>1. open[d] \in SharedDescription
  BY ZenonT(60) DEF SharedInv
<1>2. e \in SharedDescription /\ e.backing = open[d].backing
  BY ZenonT(60), <1>1 DEF SharedDescription
<1>3. open' = [open EXCEPT ![d] = e]
  BY ZenonT(60)
<1> HIDE DEF e
<1> QED BY ZenonT(60), <1>2, <1>3, DescriptionInv

LEMMA SeekInv == ASSUME SharedInv, Seek PROVE SharedInv'
<1>1. PICK d \in DOMAIN open, position \in 0 .. MaxOffset : open' = [open EXCEPT ![d].cursor = position]
  BY ZenonT(60) DEF Seek
<1>2. UNCHANGED <<backing, refs, shm, sem, links, lent, nextObject, nextOpen>>
  BY ZenonT(60) DEF Seek
<1>3. Lengths(backing', refs)
  BY ZenonT(60), <1>2 DEF SharedInv
<1> QED BY ZenonT(60), <1>1, <1>2, <1>3, CursorInv

LEMMA SetFlagsInv == ASSUME SharedInv, SetFlags PROVE SharedInv'
<1>1. PICK d \in DOMAIN open, append \in BOOLEAN : open' = [open EXCEPT ![d].append = append]
  BY ZenonT(60) DEF SetFlags
<1>2. UNCHANGED <<backing, refs, shm, sem, links, lent, nextObject, nextOpen>>
  BY ZenonT(60) DEF SetFlags
<1>3. Lengths(backing', refs)
  BY ZenonT(60), <1>2 DEF SharedInv
<1> DEFINE e == [open[d] EXCEPT !.append = append]
<1>4. open[d] \in SharedDescription
  BY ZenonT(60) DEF SharedInv
<1>5. e \in SharedDescription /\ e.backing = open[d].backing
  BY ZenonT(60), <1>4 DEF SharedDescription
<1>6. open' = [open EXCEPT ![d] = e]
  BY ZenonT(60), <1>1
<1> HIDE DEF e
<1> QED BY ZenonT(60), <1>2, <1>3, <1>5, <1>6, DescriptionInv

LEMMA ReadSharedInv == ASSUME SharedInv, ReadShared PROVE SharedInv'
<1> DEFINE Left(d) == IF open[d].cursor < backing[open[d].backing]
                      THEN backing[open[d].backing] - open[d].cursor ELSE 0
<1>1. PICK d \in DOMAIN open, n \in 1 .. 2 :
        open' = [open EXCEPT ![d].cursor = @ + Min({n, Left(d)})]
  BY ZenonT(60) DEF ReadShared
<1>2. UNCHANGED <<backing, refs, shm, sem, links, lent, nextObject, nextOpen>>
  BY ZenonT(60) DEF ReadShared
<1>3. Lengths(backing', refs)
  BY ZenonT(60), <1>2 DEF SharedInv
<1>4. open[d].cursor \in 0 .. MaxOffset
  BY ZenonT(60) DEF SharedInv, SharedDescription
<1>5. backing[open[d].backing] \in 0 .. MaxOffset
  BY ZenonT(60), Live DEF SharedInv, Lengths
<1>6. Left(d) \in Nat /\ open[d].cursor + Left(d) <= MaxOffset
  BY <1>4, <1>5, SharedAssumption
<1> DEFINE c == open[d].cursor + Min({n, Left(d)})
<1>7. open' = [open EXCEPT ![d].cursor = c]
  BY ZenonT(60), <1>1
<1> HIDE DEF Left
<1>8. Min({n, Left(d)}) \in Nat /\ Min({n, Left(d)}) <= Left(d)
  BY <1>6, MinPair
<1>9. c \in 0 .. MaxOffset
  BY <1>4, <1>6, <1>8, SharedAssumption
<1> HIDE DEF c
<1> QED BY ZenonT(60), <1>2, <1>3, <1>7, <1>9, CursorInv

LEMMA WriteSharedInv == ASSUME SharedInv, WriteShared PROVE SharedInv'
<1> DEFINE B(d) == open[d].backing
           End(d, n, bound) == WritePosition(d) + Permitted(WritePosition(d), n, bound)
<1>1. PICK d \in DOMAIN open, n \in 1 .. 2, bound \in Bounds :
        /\ WritePosition(d) < bound /\ Fits(End(d, n, bound))
        /\ backing' = Resized(B(d), Max({backing[B(d)], End(d, n, bound)}))
        /\ \/ UNCHANGED open
           \/ \E written \in 0 .. Permitted(WritePosition(d), n, bound) :
                open' = [open EXCEPT ![d].cursor = WritePosition(d) + written]
  BY ZenonT(60) DEF WriteShared
<1>2. UNCHANGED <<refs, shm, sem, links, lent, nextObject, nextOpen>>
  BY ZenonT(60) DEF WriteShared
<1>3. B(d) \in DOMAIN refs
  BY ZenonT(60), Live
<1>4. backing[B(d)] \in 0 .. MaxOffset /\ open[d].cursor \in 0 .. MaxOffset
  BY ZenonT(60), <1>3 DEF SharedInv, Lengths, SharedDescription
<1> DEFINE position == WritePosition(d)
           permitted == Permitted(position, n, bound)
<1>5. position \in 0 .. MaxOffset
  BY ZenonT(60), <1>4 DEF WritePosition
<1>6. bound \in Nat
  BY SharedAssumption DEF Bounds, Unlimited
<1>7. bound - position \in Nat
  BY <1>1, <1>5, <1>6, SharedAssumption
<1>8. permitted \in Nat
  BY <1>7, MinPair DEF Permitted
<1>9. position + permitted \in Nat /\ position + permitted <= MaxOffset
  BY <1>1, <1>5, <1>8, SharedAssumption DEF Fits
<1> DEFINE m == Max({backing[B(d)], position + permitted})
<1>10. m \in 0 .. MaxOffset
  <2>1. backing[B(d)] \in Nat
    BY <1>4, SharedAssumption
  <2> QED BY <1>4, <1>9, <2>1, MaxPair, SharedAssumption
<1>11. backing' = Resized(B(d), m)
  BY ZenonT(60), <1>1
<1> HIDE DEF m
<1>12. Lengths(backing', refs)
  BY ZenonT(60), <1>3, <1>10, <1>11, ResizedLengths
<1>13. CASE UNCHANGED open
  BY ZenonT(60), <1>2, <1>12, <1>13, FieldsInv DEF SharedInv
<1>14. ASSUME NEW written \in 0 .. permitted, open' = [open EXCEPT ![d].cursor = position + written]
       PROVE  SharedInv'
  <2>1. position + written \in 0 .. MaxOffset
    BY <1>5, <1>8, <1>9, SharedAssumption
  <2> QED BY ZenonT(60), <1>2, <1>12, <1>14, <2>1, CursorInv
<1> QED BY ZenonT(60), <1>1, <1>13, <1>14

\* The invariant after a step, from what the step leaves.
LEMMA RefoundInv ==
  ASSUME nextObject' \in Nat, nextOpen' \in Nat, Below(refs', nextObject'), Below(links', nextObject'),
         Below(open', nextOpen'), Finite(shm'), Finite(sem'), Finite(open'), Lengths(backing', refs'),
         \A d \in DOMAIN open' : open'[d] \in SharedDescription,
         Owned(shm', sem', Backings(open'), refs', lent'), Linked(links', shm')
  PROVE  SharedInv'
<1>1. /\ Below(refs, nextObject)' <=> Below(refs', nextObject')
      /\ Below(links, nextObject)' <=> Below(links', nextObject')
      /\ Below(open, nextOpen)' <=> Below(open', nextOpen')
  BY ZenonT(60) DEF Below
<1>2. Finite(shm)' /\ Finite(sem)' /\ Finite(open)'
  BY ZenonT(60) DEF Finite
<1>3. Lengths(backing, refs)' /\ Linked(links, shm)'
  BY ZenonT(60) DEF Lengths, Linked, Range
<1>4. Owned(shm, sem, Backings(open), refs, lent)'
  BY ZenonT(60) DEF Owned, Backings, Range, Count
<1>5. \A d \in DOMAIN open' : (open[d] \in SharedDescription)'
  BY ZenonT(60) DEF SharedDescription
<1> QED BY ZenonT(60), <1>1, <1>2, <1>3, <1>4, <1>5 DEF SharedInv, SharedDescription

LEMMA BackingsPut ==
  ASSUME NEW os, NEW x, x \notin DOMAIN os, NEW b, NEW writable
  PROVE  Backings(Put(os, x, Description(b, writable))) = Put(Backings(os), x, b)
  BY ZenonT(60) DEF Backings, Put, Description

LEMMA BackingsDrop ==
  ASSUME NEW os, NEW x \in DOMAIN os
  PROVE  Backings(Drop(os, x)) = Drop(Backings(os), x) /\ Backings(os)[x] = os[x].backing
  BY ZenonT(60) DEF Backings, Drop, Restrict

\* The lengths an open leaves, truncated or not.
LEMMA TruncatedLengths ==
  ASSUME SharedInv, NEW b \in DOMAIN refs, NEW lengths,
         lengths = [backing EXCEPT ![b] = 0] \/ lengths = backing
  PROVE  Lengths(lengths, refs)
  BY SharedAssumption DEF SharedInv, Lengths

LEMMA SettleRefs ==
  ASSUME SharedInv, NEW r, DOMAIN r = DOMAIN refs
  PROVE  /\ \A b \in DOMAIN r : lent[b] = IF b \in DOMAIN lent THEN lent[b] ELSE 0
         /\ Below(r, nextObject)
         /\ \A lengths : Lengths(lengths, refs) => Lengths(lengths, r)
  BY ZenonT(60) DEF SharedInv, Owned, Below, Lengths

LEMMA DescriptionType ==
  ASSUME SharedInv, NEW b \in Nat, NEW writable \in BOOLEAN, NEW os, os = OpenDescription(b, writable)
  PROVE  /\ \A d \in DOMAIN os : os[d] \in SharedDescription
         /\ Below(os, nextOpen + 1) /\ Finite(os)
<1>1. Description(b, writable) \in SharedDescription
  BY SharedAssumption DEF Description, SharedDescription
<1>2. /\ DOMAIN os = DOMAIN open \cup {nextOpen} /\ os[nextOpen] = Description(b, writable)
      /\ \A d \in DOMAIN open : d # nextOpen => os[d] = open[d]
  BY ZenonT(60) DEF OpenDescription, Put
<1>3. \A d \in DOMAIN os : os[d] \in SharedDescription
  BY ZenonT(60), <1>1, <1>2 DEF SharedInv
<1>4. Below(os, nextOpen + 1)
  BY <1>2 DEF SharedInv, Below
<1>5. Finite(os)
  BY <1>2, FS_AddElement DEF SharedInv, Finite
<1> QED BY ZenonT(60), <1>3, <1>4, <1>5

LEMMA OpenExistingInv == ASSUME SharedInv, OpenExisting PROVE SharedInv'
<1>1. PICK name \in DOMAIN shm, writable \in BOOLEAN, truncate \in BOOLEAN, opened \in BOOLEAN :
        LET b == shm[name]
            lengths == IF truncate THEN [backing EXCEPT ![b] = 0] ELSE backing
        IN  IF opened
            THEN /\ open' = OpenDescription(b, writable)
                 /\ nextOpen' = nextOpen + 1
                 /\ Settle(Retain(refs, b), lengths)
            ELSE /\ Settle(refs, lengths)
                 /\ UNCHANGED <<open, nextOpen>>
  BY ZenonT(60) DEF OpenExisting
<1>2. UNCHANGED <<shm, sem, links, nextObject>>
  BY ZenonT(60) DEF OpenExisting
<1> DEFINE b == shm[name]
           lengths == IF truncate THEN [backing EXCEPT ![b] = 0] ELSE backing
           h == Backings(open)
<1>3. b \in DOMAIN refs /\ Finite(h) /\ nextOpen \notin DOMAIN h /\ nextOpen \notin DOMAIN open
  BY ZenonT(60), Live
<1>4. Lengths(lengths, refs)
  BY ZenonT(60), <1>3, TruncatedLengths
<1>5. /\ Finite(shm) /\ Finite(sem) /\ Owned(shm, sem, h, refs, lent)
      /\ Below(links, nextObject) /\ Linked(links, shm) /\ nextObject \in Nat /\ nextOpen \in Nat
  BY ZenonT(60) DEF SharedInv
<1>6. CASE opened
  <2>1. /\ open' = OpenDescription(b, writable) /\ nextOpen' = nextOpen + 1
        /\ Settle(Retain(refs, b), lengths)
    BY ZenonT(60), <1>1, <1>6
  <2> DEFINE r == Retain(refs, b)
             k == Put(h, nextOpen, b)
  <2>2. DOMAIN r = DOMAIN refs
    BY ZenonT(60) DEF Retain
  <2>3. Owned(shm, sem, k, r, lent) /\ Finite(k)
    BY ZenonT(60), <1>3, <1>5, OwnedOpen
  <2>4. Backings(open') = k
    BY ZenonT(60), <1>3, <2>1, BackingsPut DEF OpenDescription
  <2>5. /\ \A c \in DOMAIN r : lent[c] = IF c \in DOMAIN lent THEN lent[c] ELSE 0
        /\ Below(r, nextObject) /\ Lengths(lengths, r)
    BY ZenonT(60), <1>4, <2>2, SettleRefs
  <2>6. Settle(r, lengths)
    BY ZenonT(60), <2>1
  <2> HIDE DEF r, k, lengths, h
  <2>7. Owned(shm, sem, k, refs', lent') /\ Lengths(backing', refs') /\ Below(refs', nextObject)
    BY ZenonT(60), <1>5, <2>3, <2>5, <2>6, SettleOwned
  <2>8. b \in Nat
    BY ZenonT(60), <1>3 DEF SharedInv, Below
  <2> HIDE DEF b
  <2>9. /\ \A d \in DOMAIN open' : open'[d] \in SharedDescription
        /\ Below(open', nextOpen + 1) /\ Finite(open')
    BY ZenonT(60), <2>1, <2>8, DescriptionType
  <2> QED BY <1>2, <1>5, <2>1, <2>4, <2>7, <2>9, RefoundInv
<1>7. CASE ~opened
  <2>1. Settle(refs, lengths) /\ UNCHANGED <<open, nextOpen>>
    BY ZenonT(60), <1>1, <1>7
  <2>2. /\ \A c \in DOMAIN refs : lent[c] = IF c \in DOMAIN lent THEN lent[c] ELSE 0
        /\ Below(refs, nextObject)
    BY ZenonT(60), SettleRefs
  <2> HIDE DEF lengths
  <2>3. Owned(shm, sem, h, refs', lent') /\ Lengths(backing', refs') /\ Below(refs', nextObject)
    BY ZenonT(60), <1>3, <1>4, <1>5, <2>1, <2>2, SettleOwned
  <2>4. Below(open, nextOpen) /\ Finite(open) /\ \A d \in DOMAIN open : open[d] \in SharedDescription
    BY ZenonT(60) DEF SharedInv
  <2> HIDE DEF h
  <2>5. Backings(open') = h
    BY ZenonT(60), <2>1 DEF h
  <2> QED BY ZenonT(60), <1>2, <1>5, <2>1, <2>3, <2>4, <2>5, RefoundInv
<1> QED BY ZenonT(60), <1>6, <1>7

LEMMA DetachLinked ==
  ASSUME SharedInv, NEW name \in DOMAIN shm, Detach(name)
  PROVE  Linked(links', shm') /\ Below(links', nextObject)
<1> DEFINE b == shm[name]
           k == Drop(shm, name)
<1>1. shm' = k /\ links' = [links EXCEPT ![b] = 0]
  BY ZenonT(60) DEF Detach
<1>2. b \notin Range(k)
  BY ZenonT(60), Live, OwnedUnlink DEF SharedInv
<1>3. ASSUME NEW c, c # b PROVE c \in Range(k) <=> c \in Range(shm)
  BY ZenonT(60), <1>3, DropType DEF Range
<1> HIDE DEF k, b
<1>4. Linked(links, shm) /\ Below(links, nextObject)
  BY ZenonT(60) DEF SharedInv
<1>5. Linked(links', k)
  BY ZenonT(60), <1>1, <1>2, <1>3, <1>4 DEF Linked
<1> QED BY ZenonT(60), <1>1, <1>4, <1>5 DEF Below

LEMMA UnlinkInv == ASSUME SharedInv, Unlink PROVE SharedInv'
<1>1. PICK name \in DOMAIN shm : Settle(Close(refs, shm[name]), backing) /\ Detach(name)
  BY ZenonT(60) DEF Unlink, UnlinkTarget
<1>2. UNCHANGED <<sem, open, nextObject, nextOpen>>
  BY ZenonT(60) DEF Unlink
<1> DEFINE r == Close(refs, shm[name])
           h == Backings(open)
           k == Drop(shm, name)
<1>3. Finite(h)
  BY ZenonT(60), Live
<1>4. /\ Finite(shm) /\ Finite(sem) /\ Owned(shm, sem, h, refs, lent) /\ Lengths(backing, refs)
      /\ nextObject \in Nat /\ nextOpen \in Nat /\ Below(open, nextOpen) /\ Finite(open)
      /\ \A d \in DOMAIN open : open[d] \in SharedDescription
  BY ZenonT(60) DEF SharedInv
<1>5. Owned(k, sem, h, r, lent) /\ Finite(k)
  BY ZenonT(60), <1>3, <1>4, OwnedUnlink
<1>6. DOMAIN r = DOMAIN refs
  BY ZenonT(60) DEF Close
<1>7. /\ \A c \in DOMAIN r : lent[c] = IF c \in DOMAIN lent THEN lent[c] ELSE 0
      /\ Below(r, nextObject) /\ Lengths(backing, r)
  BY ZenonT(60), <1>4, <1>6, SettleRefs
<1>8. Settle(r, backing) /\ shm' = k /\ Backings(open') = h
  BY ZenonT(60), <1>1, <1>2 DEF Detach
<1>9. Linked(links', shm') /\ Below(links', nextObject)
  BY ZenonT(60), <1>1, DetachLinked
<1> HIDE DEF r, h, k
<1>10. Owned(k, sem, h, refs', lent') /\ Lengths(backing', refs') /\ Below(refs', nextObject)
  BY ZenonT(60), <1>3, <1>4, <1>5, <1>7, <1>8, SettleOwned
<1> QED BY ZenonT(60), <1>2, <1>4, <1>5, <1>8, <1>9, <1>10, RefoundInv

LEMMA SemUnlinkInv == ASSUME SharedInv, SemUnlink PROVE SharedInv'
<1>1. PICK name \in DOMAIN sem : sem' = Drop(sem, name) /\ Settle(Close(refs, sem[name]), backing)
  BY ZenonT(60) DEF SemUnlink
<1>2. UNCHANGED <<shm, links, open, nextObject, nextOpen>>
  BY ZenonT(60) DEF SemUnlink
<1> DEFINE r == Close(refs, sem[name])
           h == Backings(open)
           k == Drop(sem, name)
<1>3. Finite(h)
  BY ZenonT(60), Live
<1>4. /\ Finite(shm) /\ Finite(sem) /\ Owned(shm, sem, h, refs, lent) /\ Lengths(backing, refs)
      /\ nextObject \in Nat /\ nextOpen \in Nat /\ Below(open, nextOpen) /\ Finite(open)
      /\ \A d \in DOMAIN open : open[d] \in SharedDescription
      /\ Linked(links, shm) /\ Below(links, nextObject)
  BY ZenonT(60) DEF SharedInv
<1>5. Owned(k, shm, h, r, lent) /\ Finite(k)
  BY ZenonT(60), <1>3, <1>4, OwnedSwap, OwnedUnlink
<1>6. DOMAIN r = DOMAIN refs
  BY ZenonT(60) DEF Close
<1>7. /\ \A c \in DOMAIN r : lent[c] = IF c \in DOMAIN lent THEN lent[c] ELSE 0
      /\ Below(r, nextObject) /\ Lengths(backing, r)
  BY ZenonT(60), <1>4, <1>6, SettleRefs
<1>8. Settle(r, backing) /\ sem' = k /\ Backings(open') = h
  BY ZenonT(60), <1>1, <1>2
<1> HIDE DEF r, h, k
<1>9. Owned(shm, k, h, r, lent)
  BY ZenonT(60), <1>3, <1>4, <1>5, OwnedSwap
<1>10. Owned(shm, k, h, refs', lent') /\ Lengths(backing', refs') /\ Below(refs', nextObject)
  BY ZenonT(60), <1>3, <1>4, <1>5, <1>7, <1>8, <1>9, SettleOwned
<1> QED BY ZenonT(60), <1>2, <1>4, <1>5, <1>8, <1>10, RefoundInv

LEMMA ReleaseInv == ASSUME SharedInv, Release PROVE SharedInv'
<1>1. PICK d \in DOMAIN open : Settle(Close(refs, open[d].backing), backing) /\ open' = Drop(open, d)
  BY ZenonT(60) DEF Release
<1>2. UNCHANGED <<shm, sem, links, nextObject, nextOpen>>
  BY ZenonT(60) DEF Release
<1> DEFINE h == Backings(open)
           r == Close(refs, h[d])
           k == Drop(h, d)
<1>3. Finite(h) /\ d \in DOMAIN h
  BY ZenonT(60), Live
<1>4. /\ Finite(shm) /\ Finite(sem) /\ Owned(shm, sem, h, refs, lent) /\ Lengths(backing, refs)
      /\ nextObject \in Nat /\ nextOpen \in Nat /\ Linked(links, shm) /\ Below(links, nextObject)
  BY ZenonT(60) DEF SharedInv
<1>5. Owned(shm, sem, k, r, lent) /\ Finite(k)
  BY ZenonT(60), <1>3, <1>4, OwnedRelease
<1>6. DOMAIN r = DOMAIN refs
  BY ZenonT(60) DEF Close
<1>7. /\ \A c \in DOMAIN r : lent[c] = IF c \in DOMAIN lent THEN lent[c] ELSE 0
      /\ Below(r, nextObject) /\ Lengths(backing, r)
  BY ZenonT(60), <1>4, <1>6, SettleRefs
<1>8. Settle(r, backing) /\ Backings(open') = k
  BY ZenonT(60), <1>1, BackingsDrop
<1>9. /\ DOMAIN open' = DOMAIN open \ {d} /\ \A c \in DOMAIN open' : open'[c] = open[c]
  BY ZenonT(60), <1>1, DropType
<1>10. /\ Below(open', nextOpen) /\ \A c \in DOMAIN open' : open'[c] \in SharedDescription
  BY ZenonT(60), <1>9 DEF SharedInv, Below
<1>11. Finite(open')
  BY ZenonT(60), <1>9, FS_RemoveElement DEF SharedInv, Finite
<1> HIDE DEF r, h, k
<1>12. Owned(shm, sem, k, refs', lent') /\ Lengths(backing', refs') /\ Below(refs', nextObject)
  BY ZenonT(60), <1>4, <1>5, <1>7, <1>8, SettleOwned
<1> QED BY ZenonT(60), <1>2, <1>4, <1>8, <1>10, <1>11, <1>12, RefoundInv

\* What a step that moves references leaves alone.
LEMMA LentInv ==
  ASSUME SharedInv, UNCHANGED <<shm, sem, links, open, nextObject, nextOpen>>,
         Owned(shm, sem, Backings(open), refs', lent'), Lengths(backing', refs'), Below(refs', nextObject)
  PROVE  SharedInv'
<1> DEFINE h == Backings(open)
<1>1. Backings(open') = h
  BY ZenonT(60)
<1>2. Owned(shm, sem, h, refs', lent')
  BY ZenonT(60)
<1> HIDE DEF h
<1>3. /\ nextObject \in Nat /\ nextOpen \in Nat /\ Below(links, nextObject) /\ Below(open, nextOpen)
      /\ Finite(shm) /\ Finite(sem) /\ Finite(open) /\ Linked(links, shm)
      /\ \A d \in DOMAIN open : open[d] \in SharedDescription
  BY ZenonT(60) DEF SharedInv
<1> QED BY ZenonT(60), <1>1, <1>2, <1>3, RefoundInv

LEMMA LendInv ==
  ASSUME SharedInv, NEW b \in DOMAIN refs, Lend(b),
         UNCHANGED <<backing, shm, sem, links, open, nextObject, nextOpen>>
  PROVE  SharedInv'
<1>1. refs' = Retain(refs, b) /\ lent' = [lent EXCEPT ![b] = @ + 1]
  BY ZenonT(60) DEF Lend
<1>2. Owned(shm, sem, Backings(open), refs', lent')
  BY ZenonT(60), <1>1, Live, OwnedLend DEF SharedInv
<1>3. DOMAIN refs' = DOMAIN refs
  BY ZenonT(60), <1>1 DEF Retain
<1>4. Lengths(backing', refs') /\ Below(refs', nextObject)
  BY ZenonT(60), <1>3 DEF SharedInv, Lengths, Below
<1> QED BY ZenonT(60), <1>2, <1>4, LentInv

LEMMA MappingInv == ASSUME SharedInv, Mapping PROVE SharedInv'
<1>1. PICK d \in DOMAIN open : Lend(open[d].backing)
  BY ZenonT(60) DEF Mapping
<1>2. open[d].backing \in DOMAIN refs
  BY ZenonT(60), Live
<1>3. UNCHANGED <<backing, shm, sem, links, open, nextObject, nextOpen>>
  BY ZenonT(60) DEF Mapping
<1> QED BY ZenonT(60), <1>1, <1>2, <1>3, LendInv

\* A client that closes a reference may free the object.
LEMMA ReturnInv ==
  ASSUME SharedInv, NEW b \in DOMAIN lent, lent[b] > 0,
         refs' = [x \in {x \in DOMAIN refs : Close(refs, b)[x] > 0} |-> Close(refs, b)[x]],
         backing' = Restrict(backing, DOMAIN refs'),
         lent' = Restrict([lent EXCEPT ![b] = @ - 1], DOMAIN refs'),
         UNCHANGED <<shm, sem, links, open, nextObject, nextOpen>>
  PROVE  SharedInv'
<1> DEFINE h == Backings(open)
           r == Close(refs, b)
           l == [lent EXCEPT ![b] = @ - 1]
<1>1. Finite(h)
  BY ZenonT(60), Live
<1>2. Finite(shm) /\ Finite(sem) /\ Owned(shm, sem, h, refs, lent) /\ Lengths(backing, refs) /\ Below(refs, nextObject)
  BY ZenonT(60) DEF SharedInv
<1>3. b \in DOMAIN refs
  BY ZenonT(60), <1>2 DEF Owned
<1>4. Owned(shm, sem, h, r, l)
  BY ZenonT(60), <1>1, <1>2, <1>3, OwnedLend
<1>5. DOMAIN r = DOMAIN refs
  BY ZenonT(60) DEF Close
<1>6. DOMAIN l = DOMAIN r
  BY ZenonT(60), <1>4 DEF Owned
<1> HIDE DEF h, r, l
<1> DEFINE alive == {x \in DOMAIN r : r[x] > 0}
<1>7. DOMAIN refs' = alive /\ \A x \in alive : refs'[x] = r[x]
  BY ZenonT(60), <1>5 DEF r
<1>8. /\ DOMAIN lent' = alive /\ \A x \in alive : lent'[x] = l[x]
      /\ DOMAIN backing' = alive /\ \A x \in alive : backing'[x] = backing[x]
  BY ZenonT(60), <1>7, <1>6 DEF Restrict, l
<1>9. ASSUME NEW c \in Range(shm) \cup Range(sem) \cup Range(h) PROVE c \in alive
  <2>1. c \in DOMAIN r /\ l[c] \in Nat /\ r[c] = Count(shm, c) + Count(sem, c) + Count(h, c) + l[c]
    BY ZenonT(60), <1>4 DEF Owned
  <2>2. Count(shm, c) \in Nat /\ (c \in Range(shm) => Count(shm, c) > 0)
    BY ZenonT(60), <1>2, CountType
  <2>3. Count(sem, c) \in Nat /\ (c \in Range(sem) => Count(sem, c) > 0)
    BY ZenonT(60), <1>2, CountType
  <2>4. Count(h, c) \in Nat /\ (c \in Range(h) => Count(h, c) > 0)
    BY ZenonT(60), <1>1, CountType
  <2> QED BY <2>1, <2>2, <2>3, <2>4
<1>10. Owned(shm, sem, h, refs', lent')
  BY ZenonT(60), <1>4, <1>7, <1>8, <1>9 DEF Owned
<1>11. Lengths(backing', refs') /\ Below(refs', nextObject)
  BY ZenonT(60), <1>2, <1>5, <1>7, <1>8 DEF Lengths, Below
<1> QED BY ZenonT(60), <1>10, <1>11, LentInv DEF h

LEMMA ClientClosesInv == ASSUME SharedInv, ClientCloses PROVE SharedInv'
<1>1. ASSUME NEW d \in DOMAIN open, open' = [open EXCEPT ![d].held = FALSE],
             UNCHANGED <<backing, refs, lent>>, UNCHANGED <<shm, sem, links, nextObject, nextOpen>>
      PROVE  SharedInv'
  <2> DEFINE e == [open[d] EXCEPT !.held = FALSE]
  <2>1. open[d] \in SharedDescription
    BY ZenonT(60) DEF SharedInv
  <2>2. e \in SharedDescription /\ e.backing = open[d].backing
    BY ZenonT(60), <2>1 DEF SharedDescription
  <2>3. open' = [open EXCEPT ![d] = e]
    BY ZenonT(60), <1>1
  <2> HIDE DEF e
  <2>4. Lengths(backing', refs)
    BY ZenonT(60), <1>1 DEF SharedInv
  <2> QED BY ZenonT(60), <1>1, <2>2, <2>3, <2>4, DescriptionInv
<1> QED BY ZenonT(60), <1>1, ReturnInv DEF ClientCloses

LEMMA SemOpenInv == ASSUME SharedInv, SemOpen PROVE SharedInv'
<1>1. ASSUME NEW name \in DOMAIN sem, Lend(sem[name]),
             UNCHANGED <<backing, shm, sem, links, open, nextObject, nextOpen>>
      PROVE  SharedInv'
  <2>1. sem[name] \in DOMAIN refs
    BY ZenonT(60), Live
  <2> QED BY ZenonT(60), <1>1, <2>1, LendInv
<1>2. ASSUME NEW name \in SemName \ DOMAIN sem, NEW delivered \in BOOLEAN,
             sem' = Put(sem, name, nextObject), nextObject' = nextObject + 1,
             refs' = Put(refs, nextObject, IF delivered THEN 2 ELSE 1),
             backing' = Put(backing, nextObject, 0),
             lent' = Put(lent, nextObject, IF delivered THEN 1 ELSE 0),
             UNCHANGED <<shm, links, open, nextOpen>>
      PROVE  SharedInv'
  <2> DEFINE h == Backings(open)
             b == nextObject
             n == IF delivered THEN 1 ELSE 0
             m == IF delivered THEN 2 ELSE 1
             k == Put(sem, name, b)
             r == Put(refs, b, m)
             l == Put(lent, b, n)
  <2>1. Finite(h) /\ b \notin DOMAIN refs
    BY ZenonT(60), Live
  <2>2. /\ Finite(shm) /\ Finite(sem) /\ Finite(open) /\ Owned(shm, sem, h, refs, lent) /\ Lengths(backing, refs)
        /\ Below(refs, b) /\ Below(links, b) /\ Below(open, nextOpen) /\ nextObject \in Nat /\ nextOpen \in Nat
        /\ \A d \in DOMAIN open : open[d] \in SharedDescription
        /\ Linked(links, shm)
    BY ZenonT(60) DEF SharedInv
  <2>3. n \in Nat /\ m = n + 1
    OBVIOUS
  <2>4. sem' = k /\ refs' = r /\ lent' = l /\ Backings(open') = h /\ name \notin DOMAIN sem
    BY ZenonT(60), <1>2
  <2> HIDE DEF h, n, m
  <2>5. Owned(k, shm, h, r, l) /\ Finite(k)
    BY <2>1, <2>2, <2>3, <2>4, OwnedSwap, OwnedCreate
  <2> HIDE DEF k
  <2>6. Owned(shm, k, h, r, l)
    BY ZenonT(60), <2>1, <2>2, <2>5, OwnedSwap
  <2>7. Lengths(backing', refs')
    BY <1>2, <2>2, SharedAssumption DEF Lengths, Put
  <2>8. Below(refs', b + 1) /\ Below(links', b + 1)
    BY <1>2, <2>2 DEF Below, Put
  <2>9. nextObject' = b + 1 /\ b + 1 \in Nat
    BY <1>2, <2>2
  <2> HIDE DEF r, l, b
  <2> QED BY ZenonT(60), <1>2, <2>2, <2>4, <2>5, <2>6, <2>7, <2>8, <2>9, RefoundInv
<1> QED BY ZenonT(60), <1>1, <1>2 DEF SemOpen

\* The link count of a name that is new, for a new object.
LEMMA NamedLinked ==
  ASSUME SharedInv, NEW name, name \notin DOMAIN shm
  PROVE  /\ Linked(Put(links, nextObject, 1), Put(shm, name, nextObject))
         /\ Linked(Put(links, nextObject, 0), shm)
         /\ \A n : Below(Put(links, nextObject, n), nextObject + 1)
<1>1. nextObject \notin Range(shm) /\ nextObject \in Nat
  BY ZenonT(60), Live DEF SharedInv, Owned
<1>2. Linked(links, shm) /\ Below(links, nextObject)
  BY ZenonT(60) DEF SharedInv
<1>3. \A c : c \in Range(Put(shm, name, nextObject)) <=> c \in Range(shm) \cup {nextObject}
  BY ZenonT(60), PutCount DEF SharedInv
<1>4. Linked(Put(links, nextObject, 1), Put(shm, name, nextObject))
  BY ZenonT(60), <1>2, <1>3 DEF Linked, Put
<1>5. Linked(Put(links, nextObject, 0), shm)
  BY ZenonT(60), <1>1, <1>2 DEF Linked, Put
<1>6. \A n : Below(Put(links, nextObject, n), nextObject + 1)
  BY <1>1, <1>2 DEF Below, Put
<1> QED BY ZenonT(60), <1>4, <1>5, <1>6

LEMMA CreateNameInv == ASSUME SharedInv, CreateName PROVE SharedInv'
<1> DEFINE b == nextObject
           made == NewBacking
<1>1. PICK name \in ShmName \ DOMAIN shm, writable \in BOOLEAN :
        \/ /\ shm' = Put(shm, name, b) /\ links' = Put(links, b, 1)
           /\ open' = OpenDescription(b, writable) /\ nextOpen' = nextOpen + 1
           /\ Settle(Retain(made.r, b), made.len)
        \/ Undone(b, made)
        \/ /\ shm' = Put(shm, name, b) /\ links' = Put(links, b, 1)
           /\ Settle(made.r, made.len) /\ UNCHANGED <<open, nextOpen>>
  BY ZenonT(60) DEF CreateName
<1>2. nextObject' = b + 1 /\ UNCHANGED sem
  BY ZenonT(60) DEF CreateName
<1> DEFINE h == Backings(open)
           k == Put(shm, name, b)
           r == Put(refs, b, 1)
           l == Put(lent, b, 0)
           len == Put(backing, b, 0)
<1>3. made.r = r /\ made.len = len
  BY ZenonT(60) DEF NewBacking
<1>4. Finite(h) /\ b \notin DOMAIN refs /\ nextOpen \notin DOMAIN h /\ nextOpen \notin DOMAIN open
  BY ZenonT(60), Live
<1>5. /\ Finite(shm) /\ Finite(sem) /\ Finite(open) /\ Owned(shm, sem, h, refs, lent) /\ Lengths(backing, refs)
      /\ Below(refs, b) /\ Below(open, nextOpen) /\ b \in Nat /\ nextOpen \in Nat
      /\ \A d \in DOMAIN open : open[d] \in SharedDescription
  BY ZenonT(60) DEF SharedInv
<1>6. Owned(k, sem, h, r, l) /\ Finite(k)
  BY <1>4, <1>5, OwnedCreate
<1>7. Linked(Put(links, b, 1), k) /\ Linked(Put(links, b, 0), shm) /\ \A n : Below(Put(links, b, n), b + 1)
  BY ZenonT(60), NamedLinked
<1>8. DOMAIN r = DOMAIN refs \cup {b} /\ r[b] = 1 /\ Lengths(len, r) /\ Below(r, b + 1)
  BY <1>5, SharedAssumption DEF Lengths, Below, Put
<1>9. \A c \in DOMAIN r : l[c] = IF c \in DOMAIN lent THEN lent[c] ELSE 0
  BY ZenonT(60), <1>4, <1>5 DEF Owned, Put
<1>10. Owned(shm, sem, h, Put(refs, b, 0), l)
  BY ZenonT(60), <1>4, <1>5, OwnedUndone
<1>11. Close(r, b) = Put(refs, b, 0)
  BY <1>8 DEF Close, Put
<1> HIDE DEF made
<1>12. ASSUME shm' = Put(shm, name, b), links' = Put(links, b, 1),
              open' = OpenDescription(b, writable), nextOpen' = nextOpen + 1,
              Settle(Retain(made.r, b), made.len)
       PROVE  SharedInv'
  <2> DEFINE s == Retain(r, b)
             j == Put(h, nextOpen, b)
  <2>1. Owned(k, sem, j, s, l) /\ Finite(j)
    <3> HIDE DEF h, k, r, l
    <3>1. b \in DOMAIN r
      BY ZenonT(60), <1>8
    <3> QED BY ZenonT(60), <1>4, <1>5, <1>6, <3>1, OwnedOpen
  <2>2. DOMAIN s = DOMAIN r
    BY ZenonT(60) DEF Retain
  <2>3. Backings(open') = j
    BY ZenonT(60), <1>4, <1>12, BackingsPut DEF OpenDescription
  <2>4. /\ \A d \in DOMAIN open' : open'[d] \in SharedDescription
        /\ Below(open', nextOpen + 1) /\ Finite(open')
    BY ZenonT(60), <1>5, <1>12, DescriptionType
  <2>5. Settle(s, len) /\ shm' = k
    BY ZenonT(60), <1>3, <1>12
  <2> HIDE DEF h, k, r, l, len, s, j
  <2>6. Lengths(len, s) /\ Below(s, b + 1) /\ \A c \in DOMAIN s : l[c] = IF c \in DOMAIN lent THEN lent[c] ELSE 0
    BY ZenonT(60), <1>8, <1>9, <2>2 DEF Lengths, Below
  <2>7. Owned(k, sem, j, refs', lent') /\ Lengths(backing', refs') /\ Below(refs', b + 1)
    BY <1>5, <1>6, <2>1, <2>5, <2>6, SettleOwned
  <2> QED BY <1>2, <1>5, <1>6, <1>7, <1>12, <2>3, <2>4, <2>5, <2>7, RefoundInv
<1>13. ASSUME Undone(b, made) PROVE SharedInv'
  <2>1. /\ links' = Put(links, b, 0) /\ Settle(Close(r, b), len)
        /\ UNCHANGED <<shm, open, nextOpen>>
    BY ZenonT(60), <1>3, <1>13 DEF Undone
  <2> DEFINE s == Close(r, b)
  <2>2. DOMAIN s = DOMAIN r
    BY ZenonT(60) DEF Close
  <2>3. Owned(shm, sem, h, s, l)
    BY ZenonT(60), <1>10, <1>11
  <2>4. Backings(open') = h /\ Settle(s, len)
    BY ZenonT(60), <2>1
  <2> HIDE DEF h, k, r, l, len, s
  <2>5. Lengths(len, s) /\ Below(s, b + 1) /\ \A c \in DOMAIN s : l[c] = IF c \in DOMAIN lent THEN lent[c] ELSE 0
    BY ZenonT(60), <1>8, <1>9, <2>2 DEF Lengths, Below
  <2>6. Owned(shm, sem, h, refs', lent') /\ Lengths(backing', refs') /\ Below(refs', b + 1)
    BY ZenonT(60), <1>4, <1>5, <2>3, <2>4, <2>5, SettleOwned
  <2> QED BY <1>2, <1>5, <1>7, <2>1, <2>4, <2>6, RefoundInv
<1>14. ASSUME shm' = Put(shm, name, b), links' = Put(links, b, 1),
              Settle(made.r, made.len), UNCHANGED <<open, nextOpen>>
       PROVE  SharedInv'
  <2>1. Backings(open') = h /\ Settle(r, len) /\ shm' = k
    BY ZenonT(60), <1>3, <1>14
  <2> HIDE DEF h, k, r, l, len
  <2>2. Owned(k, sem, h, refs', lent') /\ Lengths(backing', refs') /\ Below(refs', b + 1)
    BY <1>4, <1>5, <1>6, <1>8, <1>9, <2>1, SettleOwned
  <2> QED BY <1>2, <1>5, <1>6, <1>7, <1>14, <2>1, <2>2, RefoundInv
<1> QED BY ZenonT(60), <1>1, <1>12, <1>13, <1>14

LEMMA SharedInitInv == SharedInit => SharedInv
<1> SUFFICES ASSUME SharedInit PROVE SharedInv
  BY ZenonT(60)
<1>1. DOMAIN <<>> = {} /\ IsFiniteSet({}) /\ Backings(open) = <<>>
  BY FS_EmptySet DEF SharedInit, Backings
<1>2. Finite(<<>>) /\ Range(<<>>) = {}
  BY ZenonT(60), <1>1 DEF Finite, Range
<1>3. Owned(shm, sem, Backings(open), refs, lent)
  BY ZenonT(60), <1>1, <1>2 DEF SharedInit, Owned
<1> QED BY ZenonT(60), <1>1, <1>2, <1>3 DEF SharedInit, SharedInv, Below, Lengths, Linked

\* The bookkeeping of both name spaces, of the descriptions and of the native
\* references holds in every reachable state.
THEOREM SharedInvariance == SharedSpec => []SharedInv
<1>1. ASSUME SharedInv, [SharedNext]_sharedVars PROVE SharedInv'
  <2>1. CASE UNCHANGED sharedVars
    <3>1. /\ UNCHANGED <<refs, shm, sem, links, lent, nextObject, nextOpen>>
          /\ open' = open /\ backing' = backing
      BY ZenonT(60), <2>1 DEF sharedVars
    <3> QED BY ZenonT(60), <1>1, <3>1, FieldsInv DEF SharedInv
  <2> QED BY ZenonT(60), <1>1, <2>1, OpenExistingInv, CreateNameInv, UnlinkInv, TruncateInv, WriteSharedInv,
             WriteAtInv, ReadSharedInv, SeekInv, SetFlagsInv, MappingInv, ClientClosesInv,
             ReleaseInv, SemOpenInv, SemUnlinkInv DEF SharedNext
<1> QED BY <1>1, SharedInitInv, PTL DEF SharedSpec

\* Whatever the order of opens that fail half way, unlinks, re-creations,
\* mappings and closes, the native references to an object are exactly those
\* of its name, its descriptions and its clients.
THEOREM SharedAccounted == SharedSpec => []SharedObjectsOwned
<1>1. ASSUME SharedInv PROVE SharedObjectsOwned
  <2> DEFINE h == Backings(open)
  <2>1. DOMAIN h = DOMAIN open /\ \A d \in DOMAIN open : h[d] = open[d].backing
    BY ZenonT(60) DEF Backings
  <2>2. {open[d].backing : d \in DOMAIN open} = Range(h)
    BY ZenonT(60), <2>1 DEF Range
  <2>3. \A b : Opens(b) = Count(h, b)
    <3> TAKE b
    <3>1. {d \in DOMAIN open : open[d].backing = b} = {d \in DOMAIN h : h[d] = b}
      BY ZenonT(60), <2>1
    <3> QED BY ZenonT(60), <3>1 DEF Opens, Count
  <2>4. \A b : Names(b) = Count(shm, b) + Count(sem, b)
    BY ZenonT(60) DEF Names, Count
  <2>5. Owned(shm, sem, h, refs, lent)
    BY ZenonT(60), <1>1 DEF SharedInv
  <2> HIDE DEF h
  <2>6. \A b \in DOMAIN refs : refs[b] = Names(b) + Opens(b) + lent[b] /\ Names(b) <= 1
    BY ZenonT(60), <2>3, <2>4, <2>5 DEF Owned
  <2>7. Range(shm) \cup Range(sem) \cup {open[d].backing : d \in DOMAIN open} \subseteq DOMAIN refs
    BY ZenonT(60), <2>2, <2>5 DEF Owned
  <2>8. DOMAIN refs = DOMAIN backing /\ \A b \in DOMAIN refs : backing[b] <= MaxOffset
    BY <1>1, SharedAssumption DEF SharedInv, Lengths
  <2>9. \A d \in DOMAIN open : open[d].cursor <= MaxOffset
    BY <1>1, SharedAssumption DEF SharedInv, SharedDescription
  <2>10. \A b \in DOMAIN links : links[b] = IF b \in Range(shm) THEN 1 ELSE 0
    BY ZenonT(60), <1>1 DEF SharedInv, Linked
  <2> QED BY ZenonT(60), <2>6, <2>7, <2>8, <2>9, <2>10 DEF SharedObjectsOwned
<1> QED BY <1>1, SharedInvariance, PTL
=============================================================================
