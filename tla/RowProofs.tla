------------------------------ MODULE RowProofs ------------------------------
(***************************************************************************)
(* What a sample shows of its guests and threads: proofs about Sampling    *)
(* and SamplingMeter, for every number of guests and threads, every order  *)
(* of the host's moves, and any number of refreshes.                       *)
(***************************************************************************)
EXTENDS SamplingProofs, SamplingMeter, SumProofs

USE HostAssumption, SamplingAssumption DEF HostAssumption, SamplingAssumption
-----------------------------------------------------------------------------
(***************************************************************************)
(* The threads array of a domain d.                                        *)
(***************************************************************************)
VcpuRows(d) == {j \in 1..d.nlwp : d.threads[j].type = "ISVCPU"}

\* Every slot belongs to at most one tid, every tid to at most one slot.
Rowed(d) ==
    /\ Len(d.threads) = d.nlwp
    /\ \A j \in 1..d.nlwp : d.threads[j].pid = NoTid => d.threads[j] = ZeroRow
    /\ \A j \in 1..d.nlwp : d.threads[j].type = "ISVCPU" =>
                              d.threads[j].life # 0
    /\ \A j, k \in 1..d.nlwp :
          d.threads[j].pid = d.threads[k].pid =>
              j = k \/ d.threads[j].pid = NoTid
    /\ d.smp_vcpus = Cardinality(VcpuRows(d))

\* n slots are filled, and the rest is zeroed but for one lost thread.
Slots(d, n) ==
    /\ n \in 0..d.nlwp
    /\ \A j \in 1..n : d.threads[j].life # 0
    /\ \A j \in (n + 1)..d.nlwp : d.threads[j].life = 0
    /\ \A j \in (n + 2)..d.nlwp : d.threads[j] = ZeroRow

Slotted(d) == \E n \in 0..d.nlwp : Slots(d, n)

LEMMA RowsTyped ==
    ASSUME NEW d \in Dom, Len(d.threads) = d.nlwp
    PROVE  /\ d.nlwp \in Nat /\ d.smp_vcpus \in Nat /\ d.dexits \in Nat
           /\ d.threads \in Seq(Row)
           /\ \A j \in 1..d.nlwp : d.threads[j] \in Row
<1>1. d.nlwp \in Nat /\ d.threads \in Seq(Row)
      /\ d.smp_vcpus \in Nat /\ d.dexits \in Nat
  BY DEF Dom
<1> QED BY <1>1, ElementOfSeq

\* The fields of the rows that the code writes.
LEMMA WrittenRows ==
    /\ ZeroRow.pid = NoTid /\ ZeroRow.life = 0 /\ ZeroRow.type = "ISDOMAIN"
    /\ ZeroRow.utime = 0 /\ ZeroRow.dutime = 0 /\ ZeroRow.exits = 0
    /\ ZeroRow.dexits = 0
    /\ \A t : /\ LostRow(t).pid = t /\ LostRow(t).life = 0
              /\ LostRow(t).type = "ISTHREAD" /\ LostRow(t).utime = 0
              /\ LostRow(t).dutime = 0 /\ LostRow(t).dexits = 0
    /\ \A t : /\ ThreadRow(t).pid = t /\ ThreadRow(t).life = life[t]
              /\ ThreadRow(t).type = "ISTHREAD"
              /\ ThreadRow(t).utime = work[t]
              /\ ThreadRow(t).dutime = 0 /\ ThreadRow(t).dexits = 0
    /\ \A t : /\ VcpuRow(t).pid = t /\ VcpuRow(t).life = life[t]
              /\ VcpuRow(t).type = "ISVCPU" /\ VcpuRow(t).utime = work[t]
              /\ VcpuRow(t).dutime = 0 /\ VcpuRow(t).dexits = 0
              /\ VcpuRow(t).exits = VcpuStat(t).exits
BY DEF ZeroRow, LostRow, ThreadRow, VcpuRow

\* An array that was just allocated.
LEMMA ZeroRowed ==
    ASSUME NEW d \in Dom, d.threads = [k \in 1..d.nlwp |-> ZeroRow],
           d.smp_vcpus = 0
    PROVE  Rowed(d) /\ \A j \in 1..d.nlwp : d.threads[j] = ZeroRow
<1>1. d.nlwp \in Nat /\ d.threads \in Seq(Row)
  BY DEF Dom
<1>2. Len(d.threads) = d.nlwp /\ \A j \in 1..d.nlwp : d.threads[j] = ZeroRow
  BY <1>1
<1>3. VcpuRows(d) = {}
  BY <1>2, WrittenRows DEF VcpuRows
<1>4. d.smp_vcpus = Cardinality(VcpuRows(d))
  BY <1>3, FS_EmptySet
<1> QED BY <1>2, <1>4, WrittenRows DEF Rowed

\* A free slot s of d gets a row of a thread that has none.
LEMMA SlotRowed ==
    ASSUME NEW d \in Dom, NEW e \in Dom, Rowed(d), NEW s \in 1..d.nlwp,
           NEW row \in Row, row.pid \in Tids,
           row.type = "ISVCPU" => row.life # 0,
           e.nlwp = d.nlwp, Len(e.threads) = d.nlwp,
           \A j \in 1..d.nlwp :
              e.threads[j] = IF j = s THEN row ELSE d.threads[j],
           d.threads[s].life = 0,
           \A j \in 1..d.nlwp : j # s => d.threads[j].pid # row.pid,
           e.smp_vcpus = IF row.type = "ISVCPU" THEN d.smp_vcpus + 1
                                                ELSE d.smp_vcpus
    PROVE  Rowed(e)
<1>1. /\ \A j \in 1..d.nlwp : j # s => e.threads[j] = d.threads[j]
      /\ e.threads[s] = row /\ row.pid # NoTid
  OBVIOUS
<1>2. d.threads[s].type # "ISVCPU"
  BY DEF Rowed
<1>3. s \notin VcpuRows(d) /\ IsFiniteSet(VcpuRows(d))
  <2>1. IsFiniteSet(1..d.nlwp)
    BY SMTT(30), FS_Interval, RowsTyped DEF Rowed
  <2> QED BY <1>2, <2>1, FS_Subset DEF VcpuRows
<1>4. e.smp_vcpus = Cardinality(VcpuRows(e))
  <2>1. CASE row.type = "ISVCPU"
    <3>1. VcpuRows(e) = VcpuRows(d) \cup {s}
      BY <1>1, <2>1 DEF VcpuRows
    <3>2. Cardinality(VcpuRows(e)) = Cardinality(VcpuRows(d)) + 1
      <4> DEFINE V == VcpuRows(d)
      <4>1. IsFiniteSet(V) /\ s \notin V
        BY <1>3
      <4> HIDE DEF V
      <4>2. Cardinality(V \cup {s}) = Cardinality(V) + 1
        BY <4>1, FS_AddElement
      <4> QED BY <3>1, <4>2 DEF V
    <3>3. d.smp_vcpus = Cardinality(VcpuRows(d))
      BY DEF Rowed
    <3> QED BY <2>1, <3>2, <3>3
  <2>2. CASE row.type # "ISVCPU"
    <3>1. VcpuRows(e) = VcpuRows(d)
      BY <1>1, <1>2, <2>2 DEF VcpuRows
    <3> QED BY <2>2, <3>1 DEF Rowed
  <2> QED BY <2>1, <2>2
<1>5. \A j \in 1..e.nlwp :
        /\ e.threads[j].pid = NoTid => e.threads[j] = ZeroRow
        /\ e.threads[j].type = "ISVCPU" => e.threads[j].life # 0
  BY <1>1 DEF Rowed
<1>6. \A j, k \in 1..e.nlwp : e.threads[j].pid = e.threads[k].pid =>
        j = k \/ e.threads[j].pid = NoTid
  BY <1>1 DEF Rowed
<1> QED BY <1>4, <1>5, <1>6 DEF Rowed

\* Refreshing a row keeps whose it is, and a zeroed row against another is zero.
LEMMA RefreshedRow ==
    ASSUME NEW new \in Row, NEW old \in Row
    PROVE  /\ RefreshRow(new, old).pid = new.pid
           /\ RefreshRow(new, old).type = new.type
           /\ RefreshRow(new, old).life = new.life
           /\ RefreshRow(new, old).utime = new.utime
           /\ RefreshRow(new, old).exits = new.exits
           /\ RefreshRow(new, old).vlife = new.vlife
           /\ RefreshRow(new, old).grew = new.grew
           /\ RefreshRow(new, old).dutime =
                Delta(new.utime, old.utime, old.dutime)
           /\ new.type = "ISVCPU" => RefreshRow(new, old).dexits =
                Delta(new.exits, old.exits, old.dexits)
           /\ new = ZeroRow /\ old = ZeroRow => RefreshRow(new, old) = ZeroRow
<1>1. /\ RefreshRow(new, old).pid = new.pid
      /\ RefreshRow(new, old).type = new.type
      /\ RefreshRow(new, old).life = new.life
      /\ RefreshRow(new, old).utime = new.utime
      /\ RefreshRow(new, old).exits = new.exits
      /\ RefreshRow(new, old).vlife = new.vlife
      /\ RefreshRow(new, old).grew = new.grew
  BY DEF RefreshRow, Row
<1>3. RefreshRow(new, old).dutime = Delta(new.utime, old.utime, old.dutime)
  BY DEF RefreshRow, Row
<1>4. new.type = "ISVCPU" => RefreshRow(new, old).dexits =
          Delta(new.exits, old.exits, old.dexits)
  BY DEF RefreshRow, Row
<1>2. RefreshRow(ZeroRow, ZeroRow) = ZeroRow
  <2>1. Delta(0, 0, 0) = 0
    BY DEF Delta
  <2>2. RefreshRow(ZeroRow, ZeroRow) =
            [ZeroRow EXCEPT !.dutime = 0, !.dexits = 0]
    BY <2>1, WrittenRows DEF RefreshRow
  <2>3. \A z \in Row : z.dutime = 0 /\ z.dexits = 0 =>
            [z EXCEPT !.dutime = 0, !.dexits = 0] = z
    BY ZenonT(40) DEF Row
  <2> QED BY <2>2, <2>3, EmptyRowType, WrittenRows
<1> QED BY <1>1, <1>2, <1>3, <1>4

\* e is d after the deltas of its row s were taken against old.
DeltaTaken(d, e, s, old) ==
    /\ e.nlwp = d.nlwp /\ Len(e.threads) = d.nlwp
    /\ e.smp_vcpus = d.smp_vcpus
    /\ \A j \in 1..d.nlwp : e.threads[j] =
          IF j = s THEN RefreshRow(d.threads[s], old) ELSE d.threads[j]

LEMMA DeltaRowed ==
    ASSUME NEW d \in Dom, NEW e \in Dom, Rowed(d), NEW s \in 1..d.nlwp,
           NEW old \in Row, d.threads[s].pid = NoTid => old = ZeroRow,
           DeltaTaken(d, e, s, old)
    PROVE  Rowed(e) /\ \A n \in 0..d.nlwp : Slots(d, n) => Slots(e, n)
<1>1. d.threads[s] \in Row
  BY RowsTyped DEF Rowed
<1>2. \A j \in 1..d.nlwp :
        /\ e.threads[j].pid = d.threads[j].pid
        /\ e.threads[j].type = d.threads[j].type
        /\ e.threads[j].life = d.threads[j].life
  BY <1>1, RefreshedRow DEF DeltaTaken
<1>3. \A j \in 1..d.nlwp : d.threads[j] = ZeroRow => e.threads[j] = ZeroRow
  BY <1>1, RefreshedRow, WrittenRows DEF DeltaTaken
<1>4. VcpuRows(e) = VcpuRows(d) /\ e.nlwp = d.nlwp
  BY <1>2 DEF VcpuRows, DeltaTaken
<1>5. Rowed(e)
  BY <1>2, <1>3, <1>4 DEF Rowed, DeltaTaken
<1>6. d.nlwp \in Nat /\ e.nlwp = d.nlwp
  BY RowsTyped DEF Rowed, DeltaTaken
<1>7. ASSUME NEW n \in 0..d.nlwp, Slots(d, n) PROVE Slots(e, n)
  <2>1. n \in Nat /\ n <= d.nlwp
    BY <1>6
  <2>2. \A j \in 1..n : e.threads[j].life # 0
    BY <1>2, <1>6, <1>7, <2>1 DEF Slots
  <2>3. \A j \in (n + 1)..d.nlwp : e.threads[j].life = 0
    BY <1>2, <1>6, <1>7, <2>1 DEF Slots
  <2>4. \A j \in (n + 2)..d.nlwp : e.threads[j] = ZeroRow
    BY <1>3, <1>6, <1>7, <2>1 DEF Slots
  <2> QED BY <1>6, <2>2, <2>3, <2>4 DEF Slots
<1> QED BY <1>5, <1>7
-----------------------------------------------------------------------------
(***************************************************************************)
(* The threads arrays at every point of a refresh.                         *)
(***************************************************************************)

\* The domains that have their array.
Arrayed == 1..(IF pc \in {"stat", "opentask"} THEN Len(now) - 1 ELSE Len(now))

\* A domain before its array is allocated.
Bare(d) ==
    d.threads = <<>> /\ d.smp_vcpus = 0 /\ d.dexits = 0 /\ d.dutime = 0

\* readdir returns every thread once, and none that has a slot.
TasksLeft ==
    /\ \A i, j \in 1..Len(tasks) : tasks[i] = tasks[j] => i = j
    /\ \A i \in 1..Len(tasks), j \in 1..Building.nlwp :
          Building.threads[j].pid # tasks[i]

SlotInv ==
    /\ \A k \in 1..Len(pre) : Rowed(pre[k])
    /\ \A i \in Arrayed : Rowed(now[i])
    /\ \A i \in Complete : Slotted(now[i])
    /\ pc \in {"stat", "opentask"} => Bare(Building)
    /\ pc = "list" =>
        slot = 1 /\ \A j \in 1..Building.nlwp : Building.threads[j] = ZeroRow
    /\ pc = "tasks" => Slots(Building, slot - 1) /\ TasksLeft

(***************************************************************************)
(* Deltas are zero until the loop gets to them, and the exits of a domain  *)
(* are those of its vCPU rows at every point of the loop.                  *)
(***************************************************************************)
VcpuExits(d) == [j \in 1..d.nlwp |-> IF d.threads[j].type = "ISVCPU"
                                     THEN d.threads[j].dexits ELSE 0]

Summed(d) == d.dexits = SumFunction(VcpuExits(d))

\* The loop has yet to come to domain i, and to its row j.
DomainAhead(i) ==
    \/ pc \notin {"deltas", "idle"}
    \/ pc = "deltas" /\ (i > di \/ (i = di /\ ti = 0))

RowAhead(i, j) ==
    \/ pc \notin {"deltas", "idle"}
    \/ pc = "deltas" /\ (i > di \/ (i = di /\ j >= ti))

FreshInv ==
    /\ \A i \in Arrayed : Summed(now[i])
    /\ \A i \in 1..Len(now) : DomainAhead(i) => now[i].dutime = 0
    /\ \A i \in Arrayed : \A j \in 1..now[i].nlwp :
          RowAhead(i, j) =>
              now[i].threads[j].dutime = 0 /\ now[i].threads[j].dexits = 0

(***************************************************************************)
(* What was read from a thread or process that still runs: no later read   *)
(* of it gives less.                                                       *)
(***************************************************************************)
RowKnown(r) ==
    /\ r.life <= starts
    /\ \A t \in Tids : life[t] = r.life /\ r.life # 0 =>
          r.pid = t /\ r.utime <= work[t]

HeadKnown(d) ==
    /\ d.life <= starts
    /\ \A g \in Guests : gid[g] = d.life /\ d.life # 0 => d.utime <= total[g]

DomKnown(d) ==
    HeadKnown(d) /\ \A j \in 1..Len(d.threads) : RowKnown(d.threads[j])

\* r was read after o.
RowAfter(r, o) ==
    r.life = o.life /\ r.life # 0 => r.pid = o.pid /\ o.utime <= r.utime

HeadAfter(d, o) == d.life = o.life /\ d.life # 0 => o.utime <= d.utime

\* What now holds is known, and was read after all that pre holds.
RowLater(r) ==
    /\ RowKnown(r)
    /\ \A k \in 1..Len(pre) : \A l \in 1..Len(pre[k].threads) :
          RowAfter(r, pre[k].threads[l])

HeadLater(d) == HeadKnown(d) /\ \A k \in 1..Len(pre) : HeadAfter(d, pre[k])

DomLater(d) ==
    HeadLater(d) /\ \A j \in 1..Len(d.threads) : RowLater(d.threads[j])

KnownInv ==
    /\ \A k \in 1..Len(pre) : DomKnown(pre[k])
    /\ \A i \in 1..Len(now) : DomLater(now[i])

(***************************************************************************)
(* What the loop over the domains leaves behind it: every delta is taken   *)
(* against the reading that get_domain_from_id and get_thread_from_pid     *)
(* find in the last sample, and is zero if they find none.                 *)
(***************************************************************************)
Finds(i, j, k, l) ==
    /\ DomainFromId(now[i].id, pre, k)
    /\ ThreadFromPid(now[i].threads[j].pid, pre[k], l)

DomainSettled(i) ==
    /\ \A k \in 1..Len(pre) :
        DomainFromId(now[i].id, pre, k) =>
            now[i].dutime = Delta(now[i].utime, pre[k].utime, pre[k].dutime)
    /\ (\A k \in 1..Len(pre) : ~ DomainFromId(now[i].id, pre, k)) =>
            now[i].dutime = 0

\* The deltas of row r are taken against row o.
Against(r, o) ==
    /\ r.dutime = Delta(r.utime, o.utime, o.dutime)
    /\ r.type = "ISVCPU" => r.dexits = Delta(r.exits, o.exits, o.dexits)

RowSettled(i, j) ==
    /\ \A k \in 1..Len(pre) : \A l \in 1..pre[k].nlwp :
        Finds(i, j, k, l) => Against(now[i].threads[j], pre[k].threads[l])
    /\ (\A k \in 1..Len(pre) : \A l \in 1..pre[k].nlwp : ~ Finds(i, j, k, l))
        => now[i].threads[j].dutime = 0

SettledInv ==
    pc \in {"deltas", "idle"} =>
        \A i \in 1..Len(now) :
            /\ ~ DomainAhead(i) => DomainSettled(i)
            /\ \A j \in 1..now[i].nlwp : ~ RowAhead(i, j) => RowSettled(i, j)

-----------------------------------------------------------------------------
LEMMA SlotInit == Init => SlotInv
<1> SUFFICES ASSUME Init PROVE SlotInv
  OBVIOUS
<1>1. now = <<>> /\ pre = <<>> /\ pc = "idle"
  BY DEF Init, SamplerInit
<1> QED BY <1>1 DEF SlotInv, Arrayed, Complete, Filling

\* The lists stay, and no domain is under construction before or after.
LEMMA LoopSlots ==
    ASSUME SlotInv, now' = now, pre' = pre,
           pc \notin {"stat", "opentask", "list", "tasks"},
           pc' \notin {"stat", "opentask", "list", "tasks"}
    PROVE  SlotInv'
BY DEF SlotInv, Arrayed, Complete, Filling

LEMMA SameSlots ==
    ASSUME SlotInv, UNCHANGED <<now, pre, pc, slot, tasks>>
    PROVE  SlotInv'
BY DEF SlotInv, Arrayed, Complete, Filling, TasksLeft, Building

LEMMA RotateSlots ==
    ASSUME SlotInv, VcpuListFails \/ ReadVcpuList
    PROVE  SlotInv'
<1>1. /\ pc = "idle" /\ pre' = now /\ now' = <<>>
      /\ pc' \in {"idle", "rundir"}
  BY DEF VcpuListFails, ReadVcpuList, Rotate
<1>2. Arrayed = 1..Len(now)
  BY <1>1 DEF Arrayed
<1>3. \A k \in 1..Len(pre') : Rowed(pre'[k])
  BY <1>1, <1>2 DEF SlotInv
<1>4. Arrayed' = {} /\ Complete' = {}
  BY <1>1 DEF Arrayed, Complete, Filling
<1> QED BY <1>1, <1>3, <1>4 DEF SlotInv

LEMMA AddSlots ==
    ASSUME GuestInv, SlotInv, NEW g \in Guests, AddDomain(g)
    PROVE  SlotInv'
<1>1. pc = "files" /\ pc' = "stat" /\ pre' = pre
  BY DEF AddDomain
<1>2. /\ Len(now') = Len(now) + 1 /\ Len(now) \in Nat
      /\ \A i \in 1..Len(now) : now'[i] = now[i]
      /\ now'[Len(now')] = NewDom(pidfile[g], gid[owner[pidfile[g]]])
  BY AddStep DEF GuestInv
<1>3. Bare(Building')
  <2>1. \A p, id : Bare(NewDom(p, id))
    BY DEF Bare, NewDom
  <2> QED BY <1>2, <2>1 DEF Building
<1>4. /\ Arrayed' = 1..Len(now) /\ Complete' = 1..Len(now)
      /\ Arrayed = 1..Len(now) /\ Complete = 1..Len(now)
  BY <1>1, <1>2 DEF Arrayed, Complete, Filling
<1>5. \A i \in 1..Len(now) : Rowed(now'[i]) /\ Slotted(now'[i])
  BY <1>2, <1>4 DEF SlotInv
<1> QED BY <1>1, <1>3, <1>4, <1>5 DEF SlotInv

\* While a domain is under construction, the others are finished.
LEMMA OthersDone ==
    ASSUME GuestInv, SlotInv, Filling
    PROVE  /\ now # <<>> /\ Len(now) \in Nat /\ Len(now) > 0
           /\ Complete = 1..(Len(now) - 1)
           /\ \A i \in 1..(Len(now) - 1) :
                i \in 1..Len(now) /\ Rowed(now[i]) /\ Slotted(now[i])
<1>1. now # <<>> /\ Len(now) \in Nat /\ Len(now) > 0
  BY BuildingType DEF GuestInv, SafeInv, InBounds, Filling
<1>2. Complete = 1..(Len(now) - 1)
  BY DEF Complete
<1>3. \A i \in 1..(Len(now) - 1) : i \in Arrayed /\ i \in 1..Len(now)
  BY <1>1 DEF Arrayed
<1> QED BY <1>1, <1>2, <1>3 DEF SlotInv

LEMMA DropSlots ==
    ASSUME GuestInv, SlotInv, Filling, now' = Pop(now), pre' = pre,
           pc' = "files"
    PROVE  SlotInv'
<1>1. /\ now # <<>> /\ Len(now) \in Nat
      /\ \A i \in 1..(Len(now) - 1) : Rowed(now[i]) /\ Slotted(now[i])
  BY OthersDone
<1>2. /\ Len(now') = Len(now) - 1
      /\ \A i \in 1..Len(now') : now'[i] = now[i]
  BY <1>1, DropStep DEF GuestInv
<1>3. Arrayed' = 1..(Len(now) - 1) /\ Complete' = 1..(Len(now) - 1)
  BY <1>2 DEF Arrayed, Complete, Filling
<1>4. \A i \in 1..(Len(now) - 1) : Rowed(now'[i]) /\ Slotted(now'[i])
  BY <1>1, <1>2
<1> QED BY <1>3, <1>4 DEF SlotInv

\* A step that fills the domain under construction.
LEMMA FillSlots ==
    ASSUME GuestInv, SlotInv, Filling, OthersStay, pre' = pre,
           pc' \in {"opentask", "list", "tasks", "files"},
           pc' = "opentask" => Bare(Building'),
           pc' # "opentask" => Rowed(Building'),
           pc' = "files" => Slotted(Building'),
           pc' = "list" =>
              /\ slot' = 1
              /\ \A j \in 1..Building'.nlwp : Building'.threads[j] = ZeroRow,
           pc' = "tasks" => Slots(Building', slot' - 1) /\ TasksLeft'
    PROVE  SlotInv'
<1>1. /\ Len(now) \in Nat /\ Len(now) > 0 /\ Len(now') = Len(now)
      /\ \A i \in 1..(Len(now) - 1) : Rowed(now[i]) /\ Slotted(now[i])
      /\ \A i \in 1..(Len(now) - 1) : i # Len(now) /\ now'[i] = now[i]
  BY SMTT(30), OthersDone DEF OthersStay
<1>2. now'[Len(now)] = Building'
  BY <1>1 DEF Building
<1>3. /\ Complete' = IF pc' = "files" THEN 1..Len(now) ELSE 1..(Len(now) - 1)
      /\ Arrayed' = IF pc' = "opentask" THEN 1..(Len(now) - 1)
                                        ELSE 1..Len(now)
  BY <1>1 DEF Complete, Arrayed, Filling
<1>4. \A i \in 1..Len(now) : i = Len(now) \/ i \in 1..(Len(now) - 1)
  BY <1>1
<1>5. \A i \in Arrayed' : Rowed(now'[i])
  BY <1>1, <1>2, <1>3, <1>4
<1>6. \A i \in Complete' : Slotted(now'[i])
  BY <1>1, <1>2, <1>3, <1>4
<1> QED BY <1>5, <1>6 DEF SlotInv

\* The directory lists a thread once, and no slot is filled yet.
LEMMA ListSlots ==
    ASSUME GuestInv, SlotInv, ListTasks
    PROVE  SlotInv'
<1> DEFINE T == {t \in Tids : Alive(t) /\ gid[owner[t]] = dir}
           n == Cardinality(T)
<1>1. /\ pc = "list" /\ pc' = "tasks" /\ Filling /\ now' = now /\ pre' = pre
      /\ slot' = slot /\ tasks' \in Listings(T)
  BY DEF ListTasks, tables, Filling
<1>2. /\ now # <<>> /\ OthersStay /\ Building' = Building
      /\ Building \in Dom
  BY <1>1, OthersDone, LastIsBuilding
  DEF OthersStay, Building, GuestInv, SafeInv
<1>3. /\ Rowed(Building) /\ slot = 1
      /\ \A j \in 1..Building.nlwp : Building.threads[j] = ZeroRow
  <2>1. Len(now) \in Arrayed
    BY <1>1, <1>2, LastIsBuilding DEF Arrayed, GuestInv, SafeInv
  <2> QED BY <1>1, <2>1 DEF SlotInv, Building
<1>4. Building.nlwp \in Nat
  BY <1>2 DEF Dom
<1>5. Slots(Building, 0)
  <2>1. \A j \in 1..Building.nlwp : Building.threads[j].life = 0
    BY <1>3, WrittenRows
  <2> QED BY <1>3, <1>4, <2>1 DEF Slots
<1>6. n \in Nat
  BY FS_Subset, FS_CardinalityType
<1>7. /\ tasks' \in [1..n -> T]
      /\ \A i, j \in 1..n : i < j => life[tasks'[i]] < life[tasks'[j]]
  BY <1>1 DEF Listings
<1>8. \A t \in T : t \in Tids /\ life[t] \in Nat
  BY DEF GuestInv, SafeInv, TypeOK, HostTypeOK
<1> HIDE DEF T, n
<1>9. Len(tasks') = n
  BY <1>6, <1>7
<1>10. \A i, j \in 1..n : tasks'[i] = tasks'[j] => i = j
  <2> SUFFICES ASSUME NEW i \in 1..n, NEW j \in 1..n, i # j
               PROVE  tasks'[i] # tasks'[j]
    OBVIOUS
  <2>1. /\ life[tasks'[i]] \in Nat /\ life[tasks'[j]] \in Nat
        /\ i < j \/ j < i
    BY <1>6, <1>7, <1>8
  <2>2. life[tasks'[i]] # life[tasks'[j]]
    BY <1>7, <2>1
  <2> QED BY <2>2
<1>11. \A i \in 1..n, j \in 1..Building.nlwp :
          Building.threads[j].pid # tasks'[i]
  BY <1>3, <1>7, <1>8, WrittenRows
<1>12. TasksLeft'
  BY <1>2, <1>9, <1>10, <1>11 DEF TasksLeft
<1> QED BY <1>1, <1>2, <1>3, <1>5, <1>12, FillSlots

\* An entry is read into the slot that is free for it.
LEMMA TaskSlots ==
    ASSUME GuestInv, SlotInv, SafeInv', ReadVcpu \/ ReadThread \/ LoseThread
    PROVE  SlotInv'
<1> DEFINE t == Head(tasks)
           n == Building.nlwp
<1>0. SafeInv /\ HostInv /\ HostTypeOK /\ tasks \in Seq(Tids)
  BY DEF GuestInv, SafeInv, TypeOK, SamplerTypeOK
<1>1. PICK row \in Row, cpus \in Nat :
        /\ NextTask /\ t \in Tids
        /\ Build([Building EXCEPT !.threads[slot] = row,
                                  !.smp_vcpus = cpus])
        /\ \/ /\ TaskStat(t) /\ slot' = slot + 1
              /\ row = VcpuRow(t) /\ cpus = Building.smp_vcpus + 1
           \/ /\ TaskStat(t) /\ slot' = slot + 1
              /\ row = ThreadRow(t) /\ cpus = Building.smp_vcpus
           \/ /\ slot' = slot
              /\ row = LostRow(t) /\ cpus = Building.smp_vcpus
  BY <1>0, TaskStep
<1>2. /\ OthersStay /\ slot \in 1..n
      /\ Len(Building.threads) = n /\ Len(Building'.threads) = n
      /\ Building'.nlwp = n /\ Building'.smp_vcpus = cpus
      /\ \A j \in 1..n : Building'.threads[j] =
                  IF j = slot THEN row ELSE Building.threads[j]
  BY <1>0, <1>1, SlotStep
<1>3. /\ pc = "tasks" /\ pc' = "tasks" /\ Filling /\ pre' = pre
      /\ tasks # <<>> /\ tasks' = Tail(tasks)
  BY <1>1 DEF NextTask, Filling
<1>4. /\ Building \in Dom /\ n \in Nat /\ Rowed(Building)
      /\ Slots(Building, slot - 1) /\ TasksLeft /\ now # <<>>
  <2>1. now # <<>>
    BY <1>3, OthersDone
  <2>2. Building \in Dom /\ Len(now) \in Arrayed
    BY <1>0, <1>3, <2>1, LastIsBuilding DEF Arrayed, SafeInv
  <2> QED BY <1>3, <2>1, <2>2 DEF SlotInv, Building, Dom
<1>5. Building' \in Dom
  <2>1. now' \in Seq(Dom) /\ Len(now') = Len(now) /\ now # <<>>
    BY <1>2 DEF OthersStay, SafeInv, TypeOK, SamplerTypeOK
  <2>2. Len(now) \in 1..Len(now)
    BY <1>0, <2>1, LastIsBuilding DEF SafeInv
  <2> QED BY <2>1, <2>2 DEF Building
<1>6. /\ row.pid = t
      /\ slot' = slot + 1 => row.life # 0
      /\ slot' = slot => row.life = 0
      /\ row.type = "ISVCPU" => row.life # 0
      /\ cpus = IF row.type = "ISVCPU" THEN Building.smp_vcpus + 1
                                       ELSE Building.smp_vcpus
  <2>1. TaskStat(t) => life[t] # 0
    BY <1>0, <1>1 DEF TaskStat, Alive, HostInv, ThreadsAlive
  <2> QED BY <1>1, <1>2, <2>1, WrittenRows
<1> HIDE DEF t
<1>7. Len(tasks) \in Nat /\ Len(tasks) > 0 /\ t = tasks[1]
  BY <1>0, <1>3 DEF t
<1>8. Building.threads[slot].life = 0
  BY <1>2, <1>4 DEF Slots
<1>9. \A j \in 1..n : Building.threads[j].pid # t
  BY <1>4, <1>7 DEF TasksLeft
<1>10. Rowed(Building')
  BY SMTT(30), <1>1, <1>2, <1>4, <1>5, <1>6, <1>8, <1>9, SlotRowed
<1>11. Slots(Building', slot' - 1)
  <2>1. \A j \in 1..(slot - 1) :
          j \in 1..n /\ j # slot /\ Building'.threads[j].life # 0
    BY <1>2, <1>4 DEF Slots
  <2>2. \A j \in (slot + 1)..n :
          j \in 1..n /\ j # slot /\ Building'.threads[j] = ZeroRow
    BY <1>2, <1>4 DEF Slots
  <2>3. Building'.threads[slot] = row
    BY <1>2
  <2>4. CASE slot' = slot + 1
    <3>1. \A j \in 1..(slot' - 1) : Building'.threads[j].life # 0
      BY <1>2, <1>6, <2>1, <2>3, <2>4
    <3>2. slot' - 1 \in 0..n
      BY <1>2, <1>4, <2>4
    <3>3. \A j \in (slot + 1)..n : Building'.threads[j].life = 0
      BY <2>2, WrittenRows
    <3>4. \A j \in (slot + 2)..n : Building'.threads[j] = ZeroRow
      BY <1>2, <1>4, <2>2
    <3>5. slot' - 1 = slot /\ Building'.nlwp = n
      BY <1>2, <1>4, <2>4
    <3> HIDE DEF n
    <3> QED BY <2>4, <3>1, <3>2, <3>3, <3>4, <3>5 DEF Slots
  <2>5. CASE slot' = slot
    <3>1. \A j \in (slot - 1 + 1)..n : Building'.threads[j].life = 0
      BY <1>2, <1>6, <2>2, <2>3, <2>5, WrittenRows
    <3>2. slot - 1 \in 0..n /\ slot - 1 + 2 = slot + 1
      BY <1>2, <1>4
    <3> QED BY <1>2, <2>1, <2>2, <2>5, <3>1, <3>2 DEF Slots
  <2> QED BY <1>1, <2>4, <2>5
<1>12. TasksLeft'
  <2>1. /\ Len(tasks') = Len(tasks) - 1
        /\ \A i \in 1..Len(tasks') :
              i + 1 \in 1..Len(tasks) /\ tasks'[i] = tasks[i + 1]
    BY <1>0, <1>3
  <2>2. \A i, j \in 1..Len(tasks') : tasks'[i] = tasks'[j] => i = j
    BY <1>4, <2>1 DEF TasksLeft
  <2>3. ASSUME NEW i \in 1..Len(tasks'), NEW j \in 1..n
        PROVE  Building'.threads[j].pid # tasks'[i]
    <3>1. CASE j = slot
      <4>1. tasks'[i] # t
        BY <1>4, <1>7, <2>1 DEF TasksLeft
      <4> QED BY <1>2, <1>6, <3>1, <4>1
    <3>2. CASE j # slot
      BY SMTT(30), <1>2, <1>4, <2>1, <3>2 DEF TasksLeft
    <3> QED BY <3>1, <3>2
  <2> QED BY <1>2, <2>2, <2>3 DEF TasksLeft
<1> QED BY <1>2, <1>3, <1>10, <1>11, <1>12, FillSlots

\* The stat, the opening of the task directory, the end of a domain, and the
\* two ways to fail before that.
LEMMA BuildSlots ==
    ASSUME GuestInv, SlotInv, SafeInv',
           \/ ReadDomainStat \/ DomainStatFails
           \/ OpenTaskDir \/ TaskDirFails \/ EndTasks
    PROVE  SlotInv'
<1>1. /\ pc \in {"stat", "opentask", "tasks"} /\ Filling /\ pre' = pre
      /\ now # <<>> /\ SafeInv
  <2>1. pc \in {"stat", "opentask", "tasks"} /\ Filling /\ pre' = pre
    BY DEF ReadDomainStat, DomainStatFails, OpenTaskDir, TaskDirFails,
           EndTasks, DropDomain, Filling
  <2> QED BY <2>1, OthersDone DEF GuestInv
<1>2. Building \in Dom
  BY <1>1, LastIsBuilding DEF SafeInv
<1>3. CASE ReadDomainStat
  <2>1. /\ OthersStay /\ pc' = "opentask"
        /\ Building'.threads = Building.threads
        /\ Building'.smp_vcpus = Building.smp_vcpus
        /\ Building'.dutime = Building.dutime
        /\ Building'.dexits = Building.dexits
    BY <1>1, <1>3, StatStep DEF ReadDomainStat
  <2>2. Bare(Building)
    BY <1>3 DEF SlotInv, ReadDomainStat
  <2>3. Bare(Building')
    BY <2>1, <2>2 DEF Bare
  <2> QED BY <1>1, <2>1, <2>3, FillSlots
<1>4. CASE DomainStatFails \/ TaskDirFails
  <2>1. now' = Pop(now) /\ pc' = "files"
    BY <1>4 DEF DomainStatFails, TaskDirFails, DropDomain
  <2> QED BY <1>1, <2>1, DropSlots
<1>5. CASE OpenTaskDir
  <2>1. /\ OthersStay /\ pc' = "list" /\ slot' = 1
        /\ Building'.threads = [k \in 1..Building'.nlwp |-> ZeroRow]
        /\ Building'.smp_vcpus = Building.smp_vcpus
    BY <1>1, <1>5, OpenStep DEF OpenTaskDir
  <2>2. Building'.smp_vcpus = 0
    BY <1>5, <2>1 DEF SlotInv, OpenTaskDir, Bare
  <2>3. Building' \in Dom
    <3>1. now' \in Seq(Dom) /\ Len(now') = Len(now)
      BY <2>1 DEF OthersStay, SafeInv, TypeOK, SamplerTypeOK
    <3>2. Len(now) \in 1..Len(now)
      BY <1>1, LastIsBuilding DEF SafeInv
    <3> QED BY <3>1, <3>2 DEF Building
  <2>4. /\ Rowed(Building')
        /\ \A j \in 1..Building'.nlwp : Building'.threads[j] = ZeroRow
    BY <2>1, <2>2, <2>3, ZeroRowed
  <2> QED BY <1>1, <2>1, <2>4, FillSlots
<1>6. CASE EndTasks
  <2>1. pc = "tasks" /\ pc' = "files"
    BY <1>6 DEF EndTasks
  <2>2. CASE now' = Pop(now)
    BY <1>1, <2>1, <2>2, DropSlots
  <2>3. CASE now' # Pop(now)
    <3>1. /\ OthersStay /\ Building'.nlwp = Building.nlwp
          /\ Building'.threads = Building.threads
          /\ Building'.smp_vcpus = Building.smp_vcpus
      BY <1>1, <1>6, <2>3, EndStep
    <3>2. Rowed(Building) /\ Slots(Building, slot - 1)
      <4>1. Len(now) \in Arrayed
        BY <1>1, <2>1, LastIsBuilding DEF Arrayed, SafeInv
      <4> QED BY <2>1, <4>1 DEF SlotInv, Building
    <3>3. Rowed(Building')
      BY <3>1, <3>2 DEF Rowed, VcpuRows
    <3>4. Slots(Building', slot - 1)
      BY <3>1, <3>2 DEF Slots
    <3>5. Slotted(Building')
      BY <3>4 DEF Slotted, Slots
    <3> QED BY <1>1, <2>1, <3>1, <3>3, <3>5, FillSlots
  <2> QED BY <2>2, <2>3
<1> QED BY <1>3, <1>4, <1>5, <1>6

LEMMA DeltaSlots ==
    ASSUME GuestInv, SlotInv, SafeInv', RefreshDomain \/ RefreshThread
    PROVE  SlotInv'
<1>1. /\ pc = "deltas" /\ pc' = "deltas" /\ pre' = pre /\ SafeInv
      /\ now \in Seq(Dom) /\ now' \in Seq(Dom)
  BY DEF RefreshDomain, RefreshThread, AtThread, deltaFrame, GuestInv,
         SafeInv, TypeOK, SamplerTypeOK
<1>2. /\ Arrayed = 1..Len(now) /\ Complete = 1..Len(now)
      /\ Arrayed' = 1..Len(now') /\ Complete' = 1..Len(now')
  BY <1>1 DEF Arrayed, Complete, Filling
<1>3. SUFFICES ASSUME NEW i \in 1..Len(now'), i \in 1..Len(now),
                      Len(now') = Len(now)
               PROVE  Rowed(now'[i]) /\ Slotted(now'[i])
  <2>1. Len(now') = Len(now)
    BY <1>1, DomainDeltaStep, ThreadDeltaStep DEF SameDomains
  <2> QED BY <1>1, <1>2, <2>1 DEF SlotInv
<1>4. /\ Rowed(now[i]) /\ Slotted(now[i])
      /\ now[i] \in Dom /\ now'[i] \in Dom
  <2>1. i \in Arrayed /\ i \in Complete
    BY <1>2, <1>3
  <2>2. now[i] \in Dom /\ now'[i] \in Dom
    BY <1>1, <1>3
  <2> QED BY <2>1, <2>2 DEF SlotInv
<1>5. CASE RefreshDomain
  <2>1. /\ now'[i].threads = now[i].threads /\ now'[i].nlwp = now[i].nlwp
        /\ now'[i].smp_vcpus = now[i].smp_vcpus
    BY <1>1, <1>5, DomainDeltaStep DEF SameDomains
  <2>2. Rowed(now'[i])
    BY <1>4, <2>1 DEF Rowed, VcpuRows
  <2>3. Slotted(now'[i])
    BY <1>4, <2>1 DEF Slotted, Slots
  <2> QED BY <2>2, <2>3
<1>6. CASE RefreshThread
  <2>1. PICK k \in 1..Len(pre) : \E l \in 1..pre[k].nlwp :
          /\ di \in 1..Len(now) /\ ti \in 1..now[di].nlwp
          /\ pre[k].threads[l] \in Row
          /\ ThreadFromPid(now[di].threads[ti].pid, pre[k], l)
          /\ SameDomains(now')
          /\ \A h \in 1..Len(now) : h # di => now'[h] = now[h]
          /\ Len(now'[di].threads) = now[di].nlwp
          /\ \A j \in 1..now[di].nlwp : now'[di].threads[j] =
                IF j = ti
                THEN RefreshRow(now[di].threads[ti], pre[k].threads[l])
                ELSE now[di].threads[j]
    BY <1>1, <1>6, ThreadDeltaStep
  <2>2. PICK l \in 1..pre[k].nlwp :
          /\ di \in 1..Len(now) /\ ti \in 1..now[di].nlwp
          /\ pre[k].threads[l] \in Row
          /\ ThreadFromPid(now[di].threads[ti].pid, pre[k], l)
          /\ SameDomains(now')
          /\ \A h \in 1..Len(now) : h # di => now'[h] = now[h]
          /\ Len(now'[di].threads) = now[di].nlwp
          /\ \A j \in 1..now[di].nlwp : now'[di].threads[j] =
                IF j = ti
                THEN RefreshRow(now[di].threads[ti], pre[k].threads[l])
                ELSE now[di].threads[j]
    BY <2>1
  <2>3. CASE i # di
    BY <1>3, <1>4, <2>2, <2>3
  <2>4. CASE i = di
    <3>1. now[di].threads[ti].pid = NoTid => pre[k].threads[l] = ZeroRow
      <4>1. Rowed(pre[k]) /\ pre[k].threads[l].pid = now[di].threads[ti].pid
        BY <2>2 DEF SlotInv, ThreadFromPid
      <4> QED BY <4>1 DEF Rowed
    <3>2. /\ now'[di].nlwp = now[di].nlwp
          /\ now'[di].smp_vcpus = now[di].smp_vcpus
      BY <2>2 DEF SameDomains
    <3>3. /\ Rowed(now'[di])
          /\ \A n \in 0..now[di].nlwp :
                Slots(now[di], n) => Slots(now'[di], n)
      <4>1. DeltaTaken(now[di], now'[di], ti, pre[k].threads[l])
        BY <2>2, <3>2 DEF DeltaTaken
      <4> QED BY SMTT(30), <1>4, <2>2, <2>4, <3>1, <4>1, DeltaRowed
    <3>4. Slotted(now'[di])
      BY <1>4, <2>4, <3>2, <3>3 DEF Slotted
    <3> QED BY <2>4, <3>3, <3>4
  <2> QED BY <2>3, <2>4
<1> QED BY <1>5, <1>6

LEMMA SlotsKeep ==
    ASSUME GuestInv, SlotInv, SafeInv', [Next]_vars
    PROVE  SlotInv'
<1>1. CASE SamplerNext
  <2>1. RefreshSteps
    BY <1>1 DEF SamplerNext
  <2>2. CASE \/ RunDirFails \/ OpenRunDir \/ CloseRunDir \/ Return
             \/ SkipNewDomain \/ SkipNewThread \/ EndThreads
             \/ \E g \in Guests : SkipPidFile(g)
    <3>1. /\ now' = now /\ pre' = pre
          /\ pc \notin {"stat", "opentask", "list", "tasks"}
          /\ pc' \notin {"stat", "opentask", "list", "tasks"}
      BY <2>2 DEF RunDirFails, OpenRunDir, CloseRunDir, Return,
         SkipNewDomain, SkipNewThread, AtThread, EndThreads, SkipPidFile,
         tables, deltaFrame
    <3> QED BY <3>1, LoopSlots
  <2> QED BY <2>1, <2>2, RotateSlots, AddSlots, BuildSlots, ListSlots,
             TaskSlots, DeltaSlots
          DEF RefreshSteps, DomainSteps, DeltaSteps
<1>2. CASE HostMoves \/ UNCHANGED vars
  <2>1. UNCHANGED <<now, pre, pc, slot, tasks>>
    BY <1>2 DEF HostMoves, vars, samplerVars
  <2> QED BY <2>1, SameSlots
<1> QED BY <1>1, <1>2 DEF Next
-----------------------------------------------------------------------------
(***************************************************************************)
(* Sums of exits.                                                          *)
(***************************************************************************)
LEMMA SumOfRows ==
    ASSUME NEW d \in Dom, Len(d.threads) = d.nlwp
    PROVE  /\ IsFiniteSet(1..d.nlwp)
           /\ SumFunction(VcpuExits(d)) =
                SumFunctionOnSet(VcpuExits(d), 1..d.nlwp)
           /\ \A j \in 1..d.nlwp :
                /\ VcpuExits(d)[j] \in Nat
                /\ VcpuExits(d)[j] = IF d.threads[j].type = "ISVCPU"
                                     THEN d.threads[j].dexits ELSE 0
<1>1. d.nlwp \in Nat /\ \A j \in 1..d.nlwp : d.threads[j].dexits \in Nat
  BY RowsTyped DEF Row
<1>2. IsFiniteSet(1..d.nlwp)
  BY <1>1, FS_Interval
<1> QED BY <1>1, <1>2 DEF VcpuExits, SumFunction

\* The rows of d and e give the same exits.
LEMMA SumKept ==
    ASSUME NEW d, NEW e, Summed(d), e.nlwp = d.nlwp, e.dexits = d.dexits,
           \A j \in 1..d.nlwp :
              (IF e.threads[j].type = "ISVCPU" THEN e.threads[j].dexits ELSE 0)
              = IF d.threads[j].type = "ISVCPU" THEN d.threads[j].dexits ELSE 0
    PROVE  Summed(e)
<1>1. VcpuExits(e) = VcpuExits(d)
  BY DEF VcpuExits
<1> QED BY <1>1 DEF Summed

LEMMA SumOfNone ==
    ASSUME NEW d \in Dom, Len(d.threads) = d.nlwp, d.dexits = 0,
           \A j \in 1..d.nlwp : d.threads[j].dexits = 0
    PROVE  Summed(d)
<1> DEFINE S == 1..d.nlwp
           f == VcpuExits(d)
<1>1. /\ IsFiniteSet(S) /\ \A j \in S : f[j] = 0
      /\ SumFunction(f) = SumFunctionOnSet(f, S)
  BY SumOfRows
<1> HIDE DEF S, f
<1>2. SumFunction(f) = 0
  BY <1>1, SumOfZeros
<1> QED BY <1>2 DEF Summed, f

\* sum_vcpu_stat adds the delta that refresh_delta_vcpu_stat just wrote.
LEMMA SumGrows ==
    ASSUME NEW d \in Dom, NEW e \in Dom, Len(d.threads) = d.nlwp, Summed(d),
           NEW s \in 1..d.nlwp, NEW old \in Row, DeltaTaken(d, e, s, old),
           d.threads[s].dexits = 0,
           e.dexits = IF d.threads[s].type = "ISVCPU"
                      THEN d.dexits + e.threads[s].dexits ELSE d.dexits
    PROVE  Summed(e)
<1> DEFINE S == 1..d.nlwp
           f == VcpuExits(d)
           g == VcpuExits(e)
<1>1. e.nlwp = d.nlwp /\ Len(e.threads) = e.nlwp
  BY DEF DeltaTaken
<1>2. /\ IsFiniteSet(S) /\ s \in S
      /\ SumFunction(f) = SumFunctionOnSet(f, S)
      /\ \A j \in S : f[j] \in Nat
  BY SumOfRows
<1>3. /\ SumFunction(g) = SumFunctionOnSet(g, S)
      /\ \A j \in S : g[j] \in Nat
  BY <1>1, SumOfRows
<1>4. \A j \in S \ {s} : f[j] = g[j]
  <2>1. \A j \in S \ {s} : e.threads[j] = d.threads[j]
    BY DEF DeltaTaken
  <2> QED BY <1>1, <2>1, SumOfRows
<1>5. f[s] = 0
  BY <1>2, SumOfRows
<1>6. e.dexits = d.dexits + g[s]
  <2>1. e.threads[s].type = d.threads[s].type /\ d.threads[s] \in Row
    BY RowsTyped, RefreshedRow DEF DeltaTaken
  <2>2. g[s] = IF e.threads[s].type = "ISVCPU"
               THEN e.threads[s].dexits ELSE 0
    BY <1>1, <1>2, SumOfRows
  <2>3. d.dexits \in Nat
    BY DEF Dom
  <2> QED BY <2>1, <2>2, <2>3
<1> HIDE DEF S, f, g
<1>7. SumFunctionOnSet(f, S) + g[s] = SumFunctionOnSet(g, S) + f[s]
  <2> DEFINE F == SumFunctionOnSet(f, S \ {s})
             G == SumFunctionOnSet(g, S \ {s})
  <2>1. IsFiniteSet(S \ {s})
    BY <1>2, FS_RemoveElement
  <2>2. F = G
    BY <1>4, <2>1, SumSame
  <2>3. \A j \in S \ {s} : f[j] \in Nat
    BY <1>2
  <2>4. F \in Nat
    BY <2>1, <2>3, SumIsNat
  <2>5. SumFunctionOnSet(f, S) = f[s] + F
    BY <1>2, SumRemove
  <2>6. SumFunctionOnSet(g, S) = g[s] + G
    BY <1>2, <1>3, SumRemove
  <2>7. f[s] \in Nat /\ g[s] \in Nat
    BY <1>2, <1>3
  <2> HIDE DEF F, G
  <2> QED BY <2>2, <2>4, <2>5, <2>6, <2>7
<1>8. SumFunctionOnSet(f, S) \in Nat /\ SumFunctionOnSet(g, S) \in Nat
  BY <1>2, <1>3, SumIsNat
<1>9. SumFunction(f) = d.dexits
  BY DEF Summed, f
<1>10. SumFunction(g) = e.dexits
  <2>1. SumFunctionOnSet(f, S) = d.dexits
    BY <1>2, <1>9
  <2>2. d.dexits + g[s] = SumFunctionOnSet(g, S)
    BY <1>5, <1>7, <1>8, <2>1
  <2> QED BY <1>3, <1>6, <2>2
<1> QED BY <1>10 DEF Summed, g
-----------------------------------------------------------------------------
LEMMA FreshInit == Init => FreshInv
<1> SUFFICES ASSUME Init PROVE FreshInv
  OBVIOUS
<1>1. now = <<>> /\ pc = "idle"
  BY DEF Init, SamplerInit
<1> QED BY <1>1 DEF FreshInv, Arrayed

\* No domain is left.
LEMMA EmptyFresh == ASSUME now' = <<>> PROVE FreshInv'
<1>1. Arrayed' = {} /\ 1..Len(now') = {}
  BY DEF Arrayed
<1> QED BY <1>1 DEF FreshInv

\* The list stays, and the loop does not go back.
LEMMA SameFresh ==
    ASSUME FreshInv, now' = now, Arrayed' \subseteq Arrayed,
           \A i \in 1..Len(now) : DomainAhead(i)' => DomainAhead(i),
           \A i \in Arrayed : \A j \in 1..now[i].nlwp :
              RowAhead(i, j)' => RowAhead(i, j)
    PROVE  FreshInv'
<1>1. \A i \in Arrayed' : Summed(now'[i])
  BY DEF FreshInv
<1>2. \A i \in 1..Len(now') : DomainAhead(i)' => now'[i].dutime = 0
  BY DEF FreshInv
<1>3. \A i \in Arrayed' : \A j \in 1..now'[i].nlwp : RowAhead(i, j)' =>
        now'[i].threads[j].dutime = 0 /\ now'[i].threads[j].dexits = 0
  BY DEF FreshInv
<1> QED BY <1>1, <1>2, <1>3 DEF FreshInv

LEMMA ScanFresh ==
    ASSUME GuestInv, FreshInv,
           \/ VcpuListFails \/ ReadVcpuList \/ RunDirFails \/ OpenRunDir
           \/ CloseRunDir \/ ListTasks \/ \E g \in Guests : SkipPidFile(g)
    PROVE  FreshInv'
<1>1. CASE VcpuListFails \/ ReadVcpuList \/ RunDirFails \/ OpenRunDir
  <2>1. now' = <<>>
    BY <1>1 DEF VcpuListFails, ReadVcpuList, RunDirFails, OpenRunDir, Rotate,
                tables, GuestInv, Scan
  <2> QED BY <2>1, EmptyFresh
<1>2. CASE CloseRunDir \/ ListTasks \/ \E g \in Guests : SkipPidFile(g)
  <2>1. /\ now' = now /\ pc \in {"files", "list"}
        /\ pc' \in {"files", "tasks", "deltas"}
    BY <1>2 DEF CloseRunDir, ListTasks, SkipPidFile, tables
  <2>2. Arrayed' = Arrayed
    BY <2>1 DEF Arrayed
  <2>3. /\ \A i : DomainAhead(i)
        /\ \A i, j : RowAhead(i, j)
    BY <2>1 DEF DomainAhead, RowAhead
  <2> QED BY <2>1, <2>2, <2>3, SameFresh
<1> QED BY <1>1, <1>2

\* A domain is appended, without its array.
LEMMA AddFresh ==
    ASSUME GuestInv, FreshInv, NEW g \in Guests, AddDomain(g)
    PROVE  FreshInv'
<1>1. pc = "files" /\ pc' = "stat"
  BY DEF AddDomain
<1>2. /\ Len(now') = Len(now) + 1 /\ Len(now) \in Nat
      /\ \A i \in 1..Len(now) : now'[i] = now[i]
      /\ now'[Len(now')] = NewDom(pidfile[g], gid[owner[pidfile[g]]])
  BY AddStep DEF GuestInv
<1>3. now'[Len(now')].dutime = 0
  <2>1. \A p, id : NewDom(p, id).dutime = 0
    BY DEF NewDom
  <2> QED BY <1>2, <2>1
<1>4. Arrayed' = 1..Len(now) /\ Arrayed = 1..Len(now)
  BY <1>1, <1>2 DEF Arrayed
<1>5. /\ \A i : DomainAhead(i)
      /\ \A i, j : RowAhead(i, j)
  BY <1>1 DEF DomainAhead, RowAhead
<1>6. \A i \in Arrayed' : Summed(now'[i])
  BY <1>2, <1>4 DEF FreshInv
<1>7. \A i \in 1..Len(now') : now'[i].dutime = 0
  <2>1. \A i \in 1..Len(now') : i \in 1..Len(now) \/ i = Len(now')
    BY <1>2
  <2> QED BY <1>2, <1>3, <1>5, <2>1 DEF FreshInv
<1>8. \A i \in Arrayed' : \A j \in 1..now'[i].nlwp :
        now'[i].threads[j].dutime = 0 /\ now'[i].threads[j].dexits = 0
  BY <1>2, <1>4, <1>5 DEF FreshInv
<1> QED BY <1>6, <1>7, <1>8 DEF FreshInv

\* Nothing has a delta while a domain is under construction.
LEMMA OthersFresh ==
    ASSUME GuestInv, SlotInv, FreshInv, Filling
    PROVE  /\ now # <<>> /\ Len(now) \in Nat /\ Len(now) > 0
           /\ Building.dutime = 0
           /\ \A i \in 1..(Len(now) - 1) :
                /\ i \in 1..Len(now) /\ Summed(now[i]) /\ now[i].dutime = 0
                /\ \A j \in 1..now[i].nlwp : now[i].threads[j].dutime = 0
                                          /\ now[i].threads[j].dexits = 0
<1>1. now # <<>> /\ Len(now) \in Nat /\ Len(now) > 0
  BY OthersDone
<1>2. /\ \A i : DomainAhead(i)
      /\ \A i, j : RowAhead(i, j)
  BY DEF DomainAhead, RowAhead, Filling
<1>3. \A i \in 1..(Len(now) - 1) : i \in Arrayed /\ i \in 1..Len(now)
  BY <1>1 DEF Arrayed
<1>4. Building.dutime = 0
  BY <1>1, <1>2 DEF FreshInv, Building
<1> QED BY <1>1, <1>2, <1>3, <1>4 DEF FreshInv

LEMMA DropFresh ==
    ASSUME GuestInv, SlotInv, FreshInv, Filling, now' = Pop(now)
    PROVE  FreshInv'
<1>1. /\ now # <<>> /\ Len(now) \in Nat
      /\ \A i \in 1..(Len(now) - 1) :
            /\ Summed(now[i]) /\ now[i].dutime = 0
            /\ \A j \in 1..now[i].nlwp : now[i].threads[j].dutime = 0
                                      /\ now[i].threads[j].dexits = 0
  BY OthersFresh
<1>2. /\ Len(now') = Len(now) - 1
      /\ \A i \in 1..Len(now') : now'[i] = now[i]
  BY <1>1, DropStep DEF GuestInv
<1>3. \A i \in Arrayed' : i \in 1..Len(now')
  BY <1>1, <1>2 DEF Arrayed
<1>4. \A i \in 1..Len(now') :
        /\ Summed(now'[i]) /\ now'[i].dutime = 0
        /\ \A j \in 1..now'[i].nlwp : now'[i].threads[j].dutime = 0
                                   /\ now'[i].threads[j].dexits = 0
  BY <1>1, <1>2
<1> QED BY <1>3, <1>4 DEF FreshInv

LEMMA FillFresh ==
    ASSUME GuestInv, SlotInv, FreshInv, Filling, OthersStay,
           Building'.dutime = 0,
           \/ pc' = "opentask"
           \/ /\ Summed(Building')
              /\ \A j \in 1..Building'.nlwp :
                    /\ Building'.threads[j].dutime = 0
                    /\ Building'.threads[j].dexits = 0
    PROVE  FreshInv'
<1>1. /\ Len(now) \in Nat /\ Len(now') = Len(now) /\ Len(now) > 0
      /\ \A i \in 1..(Len(now) - 1) :
            /\ Summed(now[i]) /\ now[i].dutime = 0
            /\ \A j \in 1..now[i].nlwp : now[i].threads[j].dutime = 0
                                      /\ now[i].threads[j].dexits = 0
      /\ \A i \in 1..(Len(now) - 1) : i # Len(now) /\ now'[i] = now[i]
  BY OthersFresh DEF OthersStay
<1>2. now'[Len(now)] = Building'
  BY <1>1 DEF Building
<1>3. \A i \in 1..Len(now) : i = Len(now) \/ i \in 1..(Len(now) - 1)
  BY <1>1
<1>4. \A i \in Arrayed' : \/ i \in 1..(Len(now) - 1)
                          \/ i = Len(now) /\ pc' # "opentask"
  BY <1>1, <1>3 DEF Arrayed
<1>5. \A i \in Arrayed' : Summed(now'[i])
  BY <1>1, <1>2, <1>4
<1>6. \A i \in 1..Len(now') : now'[i].dutime = 0
  BY <1>1, <1>2, <1>3
<1>7. \A i \in Arrayed' : \A j \in 1..now'[i].nlwp :
        now'[i].threads[j].dutime = 0 /\ now'[i].threads[j].dexits = 0
  BY SMTT(30), <1>1, <1>2, <1>4
<1> QED BY <1>5, <1>6, <1>7 DEF FreshInv

\* The exits of the domain under construction, once it has its array.
LEMMA BuildingFresh ==
    ASSUME GuestInv, SlotInv, FreshInv, pc \in {"list", "tasks"}
    PROVE  /\ Building \in Dom /\ Rowed(Building) /\ Summed(Building)
           /\ now # <<>>
           /\ \A j \in 1..Building.nlwp : Building.threads[j].dutime = 0
                                       /\ Building.threads[j].dexits = 0
<1>1. Filling /\ SafeInv /\ TypeOK
  BY DEF Filling, GuestInv, SafeInv
<1>2. now # <<>>
  BY <1>1, OthersDone
<1>3. Building \in Dom /\ now[Len(now)] = Building /\ Len(now) \in Arrayed
  BY <1>1, <1>2, LastIsBuilding DEF Arrayed
<1>4. \A i, j : RowAhead(i, j)
  BY DEF RowAhead
<1> QED BY <1>2, <1>3, <1>4 DEF SlotInv, FreshInv

LEMMA BuildFresh ==
    ASSUME GuestInv, SlotInv, FreshInv, SafeInv',
           \/ ReadDomainStat \/ DomainStatFails
           \/ OpenTaskDir \/ TaskDirFails \/ EndTasks
    PROVE  FreshInv'
<1>1. Filling /\ SafeInv /\ TypeOK
  BY DEF ReadDomainStat, DomainStatFails, OpenTaskDir, TaskDirFails,
         EndTasks, Filling, GuestInv, SafeInv
<1>2. now # <<>> /\ Building.dutime = 0
  BY <1>1, OthersFresh
<1>3. CASE ReadDomainStat
  <2>1. /\ OthersStay /\ pc' = "opentask"
        /\ Building'.dutime = Building.dutime
    BY <1>1, <1>3, StatStep DEF ReadDomainStat
  <2> QED BY <1>1, <1>2, <2>1, FillFresh
<1>4. CASE DomainStatFails \/ TaskDirFails
  <2>1. now' = Pop(now)
    BY <1>4 DEF DomainStatFails, TaskDirFails, DropDomain
  <2> QED BY <1>1, <2>1, DropFresh
<1>5. CASE OpenTaskDir
  <2>1. /\ OthersStay /\ pc = "opentask"
        /\ Building'.threads = [k \in 1..Building'.nlwp |-> ZeroRow]
        /\ Building'.smp_vcpus = Building.smp_vcpus
        /\ Building'.dexits = Building.dexits
        /\ Building'.dutime = Building.dutime
    BY <1>1, <1>5, OpenStep DEF OpenTaskDir
  <2>2. Building'.smp_vcpus = 0 /\ Building'.dexits = 0
    BY <2>1 DEF SlotInv, Bare
  <2>3. Building' \in Dom
    <3>1. now' \in Seq(Dom) /\ Len(now') = Len(now)
      BY <2>1 DEF OthersStay, SafeInv, TypeOK, SamplerTypeOK
    <3>2. Len(now) \in 1..Len(now)
      BY <1>1, <1>2, LastIsBuilding
    <3> QED BY <3>1, <3>2 DEF Building
  <2>4. /\ Rowed(Building')
        /\ \A j \in 1..Building'.nlwp : Building'.threads[j] = ZeroRow
    BY <2>1, <2>2, <2>3, ZeroRowed
  <2>5. \A j \in 1..Building'.nlwp : Building'.threads[j].dutime = 0
                                  /\ Building'.threads[j].dexits = 0
    BY <2>4, WrittenRows
  <2>6. Len(Building'.threads) = Building'.nlwp
    BY <2>4 DEF Rowed
  <2>7. Summed(Building')
    BY <2>2, <2>3, <2>5, <2>6, SumOfNone
  <2> QED BY <1>1, <1>2, <2>1, <2>5, <2>7, FillFresh
<1>6. CASE EndTasks
  <2>1. pc \in {"list", "tasks"}
    BY <1>6 DEF EndTasks
  <2>2. CASE now' = Pop(now)
    BY <1>1, <2>2, DropFresh
  <2>3. CASE now' # Pop(now)
    <3>1. /\ OthersStay /\ Building'.nlwp = Building.nlwp
          /\ Building'.threads = Building.threads
          /\ Building'.dexits = Building.dexits
          /\ Building'.dutime = Building.dutime
      BY <1>1, <1>6, <2>3, EndStep
    <3>2. Summed(Building')
      BY <2>1, <3>1, BuildingFresh DEF Summed, VcpuExits
    <3>3. \A j \in 1..Building'.nlwp : Building'.threads[j].dutime = 0
                                    /\ Building'.threads[j].dexits = 0
      BY <2>1, <3>1, BuildingFresh
    <3> QED BY <1>1, <1>2, <3>1, <3>2, <3>3, FillFresh
  <2> QED BY <2>2, <2>3
<1> QED BY <1>3, <1>4, <1>5, <1>6

LEMMA TaskFresh ==
    ASSUME GuestInv, SlotInv, FreshInv, SafeInv',
           ReadVcpu \/ ReadThread \/ LoseThread
    PROVE  FreshInv'
<1> DEFINE t == Head(tasks)
           n == Building.nlwp
<1>0. SafeInv
  BY DEF GuestInv
<1>1. PICK row \in Row, cpus \in Nat :
        /\ NextTask
        /\ Build([Building EXCEPT !.threads[slot] = row,
                                  !.smp_vcpus = cpus])
        /\ row = VcpuRow(t) \/ row = ThreadRow(t) \/ row = LostRow(t)
  BY <1>0, TaskStep
<1>2. /\ OthersStay /\ slot \in 1..n
      /\ Len(Building'.threads) = n
      /\ Building'.nlwp = n
      /\ Building'.dutime = Building.dutime
      /\ Building'.dexits = Building.dexits
      /\ \A j \in 1..n : Building'.threads[j] =
                  IF j = slot THEN row ELSE Building.threads[j]
  BY <1>0, <1>1, SlotStep
<1>3. row.dutime = 0 /\ row.dexits = 0
  BY <1>1, WrittenRows
<1>4. pc \in {"list", "tasks"} /\ Filling
  BY <1>1 DEF NextTask, Filling
<1>5. /\ Summed(Building)
      /\ \A j \in 1..n : Building.threads[j].dutime = 0
                      /\ Building.threads[j].dexits = 0
  BY <1>4, BuildingFresh
<1>6. Building.dutime = 0
  BY <1>4, OthersFresh
<1>7. \A j \in 1..n : Building'.threads[j].dutime = 0
                   /\ Building'.threads[j].dexits = 0
  BY <1>2, <1>3, <1>5
<1>8. Summed(Building')
  <2>1. \A j \in 1..n :
          (IF Building'.threads[j].type = "ISVCPU"
           THEN Building'.threads[j].dexits ELSE 0)
          = IF Building.threads[j].type = "ISVCPU"
            THEN Building.threads[j].dexits ELSE 0
    BY <1>5, <1>7
  <2> HIDE DEF n
  <2> QED BY <1>2, <1>5, <2>1, SumKept DEF n
<1> HIDE DEF n
<1> QED BY <1>2, <1>4, <1>6, <1>7, <1>8, FillFresh DEF n

\* The loop goes on without a delta.
LEMMA LoopFresh ==
    ASSUME GuestInv, FreshInv,
           SkipNewDomain \/ SkipNewThread \/ EndThreads \/ Return
    PROVE  FreshInv'
<1>1. /\ pc = "deltas" /\ pc' \in {"deltas", "idle"} /\ now' = now
      /\ di \in Nat /\ ti \in Nat
  BY DEF SkipNewDomain, SkipNewThread, EndThreads, Return, AtThread,
         GuestInv, SafeInv, TypeOK, SamplerTypeOK
<1>2. Arrayed' = Arrayed
  BY <1>1 DEF Arrayed
<1>3. \/ di' = di /\ ti' = ti + 1 /\ ti > 0
      \/ di' = di + 1 /\ ti' = 0 /\ di \in 1..Len(now)
            /\ (ti = 0 \/ ti > now[di].nlwp)
      \/ pc' = "idle"
  BY <1>1 DEF SkipNewDomain, SkipNewThread, EndThreads, Return, AtThread
<1>4. \A i \in 1..Len(now) : DomainAhead(i)' => DomainAhead(i)
  BY <1>1, <1>3 DEF DomainAhead
<1>5. \A i \in Arrayed : \A j \in 1..now[i].nlwp :
        RowAhead(i, j)' => RowAhead(i, j)
  BY <1>1, <1>2, <1>3 DEF RowAhead, Arrayed
<1> QED BY <1>1, <1>2, <1>4, <1>5, SameFresh

LEMMA DeltaFresh ==
    ASSUME GuestInv, SlotInv, FreshInv, SafeInv',
           RefreshDomain \/ RefreshThread
    PROVE  FreshInv'
<1>1. /\ pc = "deltas" /\ pc' = "deltas" /\ SafeInv
      /\ now \in Seq(Dom) /\ now' \in Seq(Dom) /\ di' = di
      /\ di \in 1..Len(now) /\ ti \in Nat
  BY DEF RefreshDomain, RefreshThread, AtThread, deltaFrame, GuestInv,
         SafeInv, TypeOK, SamplerTypeOK
<1>2. Arrayed = 1..Len(now) /\ Arrayed' = 1..Len(now')
  BY <1>1 DEF Arrayed
<1>3. /\ Len(now') = Len(now)
      /\ \A i \in 1..Len(now) : now'[i].nlwp = now[i].nlwp
      /\ \A i \in 1..Len(now) : i # di => now'[i] = now[i]
  BY <1>1, DomainDeltaStep, ThreadDeltaStep DEF SameDomains
<1>4. \A i \in 1..Len(now) : now[i] \in Dom /\ now'[i] \in Dom
  BY <1>1, <1>3
<1>5. CASE RefreshDomain
  <2>1. /\ now'[di].threads = now[di].threads
        /\ now'[di].dexits = now[di].dexits
        /\ ti = 0 /\ ti' = 1
    BY <1>1, <1>5, DomainDeltaStep DEF RefreshDomain
  <2>2. \A i \in Arrayed' : Summed(now'[i])
    <3>1. \A i \in 1..Len(now) : Summed(now[i])
      BY <1>2 DEF FreshInv
    <3>2. Summed(now'[di])
      BY <1>1, <1>3, <2>1, <3>1 DEF Summed, VcpuExits
    <3> QED BY <1>2, <1>3, <3>1, <3>2
  <2>3. \A i \in 1..Len(now') : DomainAhead(i)' => now'[i].dutime = 0
    <3>1. \A i \in 1..Len(now) :
            DomainAhead(i)' => DomainAhead(i) /\ i # di
      BY <1>1, <2>1 DEF DomainAhead
    <3> QED BY <1>3, <3>1 DEF FreshInv
  <2>4. \A i \in Arrayed' : \A j \in 1..now'[i].nlwp : RowAhead(i, j)' =>
          now'[i].threads[j].dutime = 0 /\ now'[i].threads[j].dexits = 0
    <3>1. \A i \in 1..Len(now) : \A j \in 1..now[i].nlwp :
            RowAhead(i, j)' => RowAhead(i, j)
      BY <1>1, <2>1 DEF RowAhead
    <3>2. \A i \in 1..Len(now) : now'[i].threads = now[i].threads
      BY <1>3, <2>1
    <3> QED BY <1>2, <1>3, <3>1, <3>2 DEF FreshInv
  <2> QED BY <2>2, <2>3, <2>4 DEF FreshInv
<1>6. CASE RefreshThread
  <2>1. PICK k \in 1..Len(pre) : \E l \in 1..pre[k].nlwp :
          /\ ti \in 1..now[di].nlwp /\ pre[k].threads[l] \in Row
          /\ Len(now[di].threads) = now[di].nlwp
          /\ now'[di].dutime = now[di].dutime
          /\ Len(now'[di].threads) = now[di].nlwp
          /\ now'[di].smp_vcpus = now[di].smp_vcpus
          /\ \A j \in 1..now[di].nlwp : now'[di].threads[j] =
                IF j = ti
                THEN RefreshRow(now[di].threads[ti], pre[k].threads[l])
                ELSE now[di].threads[j]
          /\ now'[di].dexits =
                IF now[di].threads[ti].type = "ISVCPU"
                THEN now[di].dexits + now'[di].threads[ti].dexits
                ELSE now[di].dexits
    BY <1>1, <1>6, ThreadDeltaStep DEF SameDomains
  <2>2. PICK l \in 1..pre[k].nlwp :
          /\ ti \in 1..now[di].nlwp /\ pre[k].threads[l] \in Row
          /\ Len(now[di].threads) = now[di].nlwp
          /\ now'[di].dutime = now[di].dutime
          /\ Len(now'[di].threads) = now[di].nlwp
          /\ now'[di].smp_vcpus = now[di].smp_vcpus
          /\ \A j \in 1..now[di].nlwp : now'[di].threads[j] =
                IF j = ti
                THEN RefreshRow(now[di].threads[ti], pre[k].threads[l])
                ELSE now[di].threads[j]
          /\ now'[di].dexits =
                IF now[di].threads[ti].type = "ISVCPU"
                THEN now[di].dexits + now'[di].threads[ti].dexits
                ELSE now[di].dexits
    BY <2>1
  <2>3. ti' = ti + 1
    BY <1>6 DEF RefreshThread
  <2>4. /\ Summed(now[di]) /\ now[di].threads[ti].dexits = 0
    <3>1. RowAhead(di, ti)
      BY <1>1 DEF RowAhead
    <3> QED BY <1>1, <1>2, <2>2, <3>1 DEF FreshInv
  <2>5. DeltaTaken(now[di], now'[di], ti, pre[k].threads[l])
    BY <1>1, <1>3, <2>2 DEF DeltaTaken
  <2>6. Summed(now'[di])
    BY <1>1, <1>4, <2>2, <2>4, <2>5, SumGrows
  <2>7. \A i \in Arrayed' : Summed(now'[i])
    BY <1>2, <1>3, <2>6 DEF FreshInv
  <2>8. \A i \in 1..Len(now') : DomainAhead(i)' => now'[i].dutime = 0
    <3>1. \A i \in 1..Len(now) :
            DomainAhead(i)' => DomainAhead(i) /\ i # di
      BY <1>1, <2>2, <2>3 DEF DomainAhead
    <3> QED BY <1>3, <3>1 DEF FreshInv
  <2>9. \A i \in Arrayed' : \A j \in 1..now'[i].nlwp : RowAhead(i, j)' =>
          now'[i].threads[j].dutime = 0 /\ now'[i].threads[j].dexits = 0
    <3>1. \A i \in 1..Len(now) : \A j \in 1..now[i].nlwp :
            RowAhead(i, j)' => RowAhead(i, j) /\ (i # di \/ j # ti)
      BY <1>1, <2>2, <2>3 DEF RowAhead
    <3>2. \A i \in 1..Len(now) : \A j \in 1..now[i].nlwp :
            i # di \/ j # ti => now'[i].threads[j] = now[i].threads[j]
      BY <1>3, <2>2
    <3> QED BY SMTT(30), <1>2, <1>3, <3>1, <3>2 DEF FreshInv
  <2> QED BY <2>7, <2>8, <2>9 DEF FreshInv
<1> QED BY <1>5, <1>6

LEMMA FreshKeeps ==
    ASSUME GuestInv, SlotInv, FreshInv, SafeInv', [Next]_vars
    PROVE  FreshInv'
<1>1. CASE SamplerNext
  <2>1. RefreshSteps
    BY <1>1 DEF SamplerNext
  <2> QED BY <2>1, ScanFresh, AddFresh, BuildFresh, TaskFresh, LoopFresh,
             DeltaFresh
          DEF RefreshSteps, DomainSteps, DeltaSteps
<1>2. CASE HostMoves \/ UNCHANGED vars
  <2>1. UNCHANGED <<now, pc, di, ti>>
    BY <1>2 DEF HostMoves, vars, samplerVars
  <2> QED BY <2>1 DEF FreshInv, Arrayed, DomainAhead, RowAhead
<1> QED BY <1>1, <1>2 DEF Next

RowsInv == GuestInv /\ SlotInv /\ FreshInv

LEMMA RowsInvInductive ==
    /\ Init => RowsInv
    /\ RowsInv /\ [Next]_vars => RowsInv'
<1>1. Init => RowsInv
  BY GuestInit, SlotInit, FreshInit DEF RowsInv
<1>2. RowsInv /\ [Next]_vars => RowsInv'
  <2> SUFFICES ASSUME RowsInv, [Next]_vars PROVE RowsInv'
    OBVIOUS
  <2>1. GuestInv /\ SlotInv /\ FreshInv /\ GuestInv'
    BY GuestStep DEF RowsInv
  <2>2. SafeInv'
    BY <2>1 DEF GuestInv
  <2> QED BY <2>1, <2>2, SlotsKeep, FreshKeeps DEF RowsInv
<1> QED BY <1>1, <1>2

\* The threads array of every domain that is shown has its nlwp slots: first
\* the threads that were read, no tid twice, then at most one slot of a thread
\* that ended while it was read, then zeroed slots, and smp_vcpus counts the
\* vCPU rows, whatever threads start, end and hand on their tids while the
\* task directory is read (get_child_pid).
THEOREM SlotsFilled == Spec => []ThreadSlots
<1>1. ASSUME RowsInv PROVE ThreadSlots
  <2> SUFFICES ASSUME Shown, NEW i \in 1..Len(now)
               PROVE  LET d == now[i]
                          row == d.threads
                      IN /\ Len(row) = d.nlwp
                         /\ \E n \in 0..d.nlwp :
                              /\ \A j \in 1..n : row[j].life # 0
                              /\ \A j \in (n + 1)..d.nlwp : row[j].life = 0
                              /\ \A j \in (n + 2)..d.nlwp : row[j] = ZeroRow
                         /\ \A j, k \in 1..d.nlwp :
                              row[j].pid = row[k].pid =>
                                  j = k \/ row[j].pid = NoTid
                         /\ d.smp_vcpus = Cardinality({j \in 1..d.nlwp :
                                              row[j].type = "ISVCPU"})
    BY DEF ThreadSlots
  <2>1. i \in Arrayed /\ i \in Complete
    BY DEF Shown, Arrayed, Complete, Filling
  <2>2. Rowed(now[i]) /\ Slotted(now[i])
    BY <1>1, <2>1 DEF RowsInv, SlotInv
  <2> QED BY <2>2 DEF Rowed, Slotted, Slots, VcpuRows
<1> QED BY <1>1, RowsInvInductive, PTL DEF Spec

\* The exits that a domain shows are the sum over its vCPU rows, each counted
\* once: sum_vcpu_stat never runs twice for a row, nor over a row's old delta
\* (refresh_threads, sum_vcpu_stat).
THEOREM ExitsAddUp == Spec => []DomainSum
<1>1. RowsInv => DomainSum
  BY DEF RowsInv, FreshInv, Arrayed, Shown, DomainSum, Summed, VcpuExits
<1> QED BY <1>1, RowsInvInductive, PTL DEF Spec
-----------------------------------------------------------------------------
LEMMA KnownInit == Init => KnownInv
<1> SUFFICES ASSUME Init PROVE KnownInv
  OBVIOUS
<1>1. now = <<>> /\ pre = <<>>
  BY DEF Init, SamplerInit
<1> QED BY <1>1 DEF KnownInv

\* A counter of a thread that goes on does not go back, and neither does the
\* clock that tells its threads from later ones.
LEMMA HostGrows ==
    ASSUME TypeOK, HostMoves
    PROVE  /\ starts \in Nat /\ starts' \in Nat /\ starts <= starts'
           /\ \A t \in Tids :
                \/ life'[t] = life[t] /\ work'[t] >= work[t]
                \/ life'[t] = 0
                \/ life'[t] = starts + 1
           /\ \A g \in Guests :
                \/ gid'[g] = gid[g] /\ total'[g] >= total[g]
                \/ gid'[g] = 0
                \/ gid'[g] = starts + 1
<1>0. /\ starts \in Nat /\ HostTypeOK
      /\ \A t \in Tids : work[t] \in Nat /\ work[t] >= work[t]
      /\ \A g \in Guests : total[g] \in Nat /\ total[g] >= total[g]
  BY DEF TypeOK, HostTypeOK
<1>1. ASSUME NEW h \in Guests, NEW u \in Tids, StartGuest(h, u)
      PROVE  /\ starts' = starts + 1
             /\ \A t \in Tids :
                  \/ life'[t] = life[t] /\ work'[t] >= work[t]
                  \/ life'[t] = starts + 1
             /\ \A g \in Guests :
                  \/ gid'[g] = gid[g] /\ total'[g] >= total[g]
                  \/ gid'[g] = starts + 1
  BY <1>0, <1>1 DEF StartGuest, Born, HostTypeOK
<1>2. ASSUME NEW h \in Guests, NEW u \in Tids, NEW b \in BOOLEAN,
             StartThread(h, u, b)
      PROVE  /\ starts' = starts + 1
             /\ \A t \in Tids :
                  \/ life'[t] = life[t] /\ work'[t] >= work[t]
                  \/ life'[t] = starts + 1
             /\ \A g \in Guests : gid'[g] = gid[g] /\ total'[g] >= total[g]
  BY <1>0, <1>2 DEF StartThread, Born, HostTypeOK
<1>3. ASSUME NEW S, Die(S)
      PROVE  \A t \in Tids : \/ life'[t] = life[t] /\ work'[t] >= work[t]
                             \/ life'[t] = 0
  BY <1>0, <1>3 DEF Die
<1>4. ASSUME NEW u \in Tids, ExitThread(u)
      PROVE  /\ starts' = starts
             /\ \A t \in Tids : \/ life'[t] = life[t] /\ work'[t] >= work[t]
                                \/ life'[t] = 0
             /\ \A g \in Guests : gid'[g] = gid[g] /\ total'[g] >= total[g]
  BY <1>0, <1>3, <1>4 DEF ExitThread
<1>5. ASSUME NEW h \in Guests, ExitGuest(h)
      PROVE  /\ starts' = starts
             /\ \A t \in Tids : \/ life'[t] = life[t] /\ work'[t] >= work[t]
                                \/ life'[t] = 0
             /\ \A g \in Guests : \/ gid'[g] = gid[g] /\ total'[g] >= total[g]
                                  \/ gid'[g] = 0
  <2>1. /\ starts' = starts /\ Die(Threads(h))
        /\ gid' = [gid EXCEPT ![h] = 0]
        /\ total' = [total EXCEPT ![h] = 0]
    BY <1>5 DEF ExitGuest
  <2> QED BY <1>0, <1>3, <2>1 DEF HostTypeOK
<1>6. ASSUME NEW h \in Guests, RemovePidFile(h)
      PROVE  UNCHANGED <<starts, life, work, gid, total>>
  BY <1>6 DEF RemovePidFile
<1>7. ASSUME NEW u \in Tids, Work(u)
      PROVE  /\ starts' = starts /\ life' = life /\ gid' = gid
             /\ \A t \in Tids : work'[t] >= work[t]
             /\ \A g \in Guests : total'[g] >= total[g]
  BY <1>0, <1>7 DEF Work, HostTypeOK
<1> QED BY <1>0, <1>1, <1>2, <1>4, <1>5, <1>6, <1>7
        DEF HostMoves, HostNext, HostMove

LEMMA HostKnown ==
    ASSUME GuestInv, KnownInv, HostMoves
    PROVE  KnownInv'
<1>1. /\ starts \in Nat /\ starts' \in Nat /\ starts <= starts'
      /\ \A t \in Tids :
            \/ life'[t] = life[t] /\ work'[t] >= work[t]
            \/ life'[t] = 0
            \/ life'[t] = starts + 1
      /\ \A g \in Guests :
            \/ gid'[g] = gid[g] /\ total'[g] >= total[g]
            \/ gid'[g] = 0
            \/ gid'[g] = starts + 1
  BY HostGrows DEF GuestInv, SafeInv
<1>2. TypeOK /\ TypeOK'
  BY SafeStep DEF GuestInv, SafeInv, Next
<1>3. /\ \A t \in Tids : work[t] \in Nat /\ work'[t] \in Nat
      /\ \A g \in Guests : total[g] \in Nat /\ total'[g] \in Nat
  BY <1>2 DEF TypeOK, HostTypeOK
<1>4. now' = now /\ pre' = pre
  BY DEF HostMoves, samplerVars
<1>5. ASSUME NEW r \in Row, RowKnown(r)
      PROVE  /\ r.life <= starts'
             /\ \A t \in Tids : life'[t] = r.life /\ r.life # 0 =>
                    r.pid = t /\ r.utime <= work'[t]
  <2>1. r.life \in Nat /\ r.utime \in Nat /\ r.life <= starts
    BY <1>5 DEF RowKnown, Row, Ids
  <2> QED BY <1>1, <1>3, <1>5, <2>1 DEF RowKnown
<1>6. ASSUME NEW d \in Dom, HeadKnown(d)
      PROVE  /\ d.life <= starts'
             /\ \A g \in Guests : gid'[g] = d.life /\ d.life # 0 =>
                    d.utime <= total'[g]
  <2>1. d.life \in Nat /\ d.utime \in Nat /\ d.life <= starts
    BY <1>6 DEF HeadKnown, Dom, Ids
  <2> QED BY <1>1, <1>3, <1>6, <2>1 DEF HeadKnown
<1>7. /\ \A k \in 1..Len(pre) : pre[k] \in Dom
      /\ \A i \in 1..Len(now) : now[i] \in Dom
  <2>1. now \in Seq(Dom) /\ pre \in Seq(Dom)
    BY <1>2 DEF TypeOK, SamplerTypeOK
  <2> QED BY <2>1
<1>8. \A d \in Dom : \A j \in 1..Len(d.threads) : d.threads[j] \in Row
  BY DEF Dom
<1>9. ASSUME NEW k \in 1..Len(pre') PROVE DomKnown(pre[k])'
  <2>1. pre[k] \in Dom /\ HeadKnown(pre[k])
    BY <1>4, <1>7 DEF KnownInv, DomKnown
  <2>2. \A j \in 1..Len(pre[k].threads) :
          pre[k].threads[j] \in Row /\ RowKnown(pre[k].threads[j])
    BY <1>4, <1>7, <1>8 DEF KnownInv, DomKnown
  <2>3. HeadKnown(pre[k])'
    BY <1>4, <1>6, <2>1 DEF HeadKnown
  <2>4. \A j \in 1..Len(pre[k].threads) : RowKnown(pre[k].threads[j])'
    BY <1>4, <1>5, <2>2 DEF RowKnown
  <2> QED BY <1>4, <2>3, <2>4 DEF DomKnown
<1>10. ASSUME NEW i \in 1..Len(now') PROVE DomLater(now[i])'
  <2>1. now[i] \in Dom /\ HeadLater(now[i]) /\ HeadKnown(now[i])
    BY <1>4, <1>7 DEF KnownInv, DomLater, HeadLater
  <2>2. \A j \in 1..Len(now[i].threads) :
          /\ now[i].threads[j] \in Row /\ RowLater(now[i].threads[j])
          /\ RowKnown(now[i].threads[j])
    BY <1>4, <1>7, <1>8 DEF KnownInv, DomLater, RowLater
  <2>3. HeadKnown(now[i])'
    BY <1>4, <1>6, <2>1 DEF HeadKnown
  <2>4. HeadLater(now[i])'
    BY <1>4, <2>1, <2>3 DEF HeadLater
  <2>5. \A j \in 1..Len(now[i].threads) : RowKnown(now[i].threads[j])'
    BY <1>4, <1>5, <2>2 DEF RowKnown
  <2>6. \A j \in 1..Len(now[i].threads) : RowLater(now[i].threads[j])'
    BY <1>4, <2>2, <2>5 DEF RowLater
  <2> QED BY <1>4, <2>4, <2>6 DEF DomLater
<1> QED BY <1>9, <1>10 DEF KnownInv

\* The rows that say nothing.
LEMMA UnreadLater ==
    ASSUME TypeOK, NEW r, r.life = 0
    PROVE  RowLater(r)
<1>1. 0 <= starts
  BY DEF TypeOK, HostTypeOK
<1> QED BY <1>1 DEF RowLater, RowKnown, RowAfter

\* A row that was just read is the latest word on its thread.
LEMMA ReadLater ==
    ASSUME GuestInv, KnownInv, NEW t \in Tids, NEW r,
           r.pid = t, r.life = life[t], r.utime = work[t]
    PROVE  RowLater(r)
<1>1. HostInv /\ TypeOK
  BY DEF GuestInv, SafeInv
<1>2. work[t] \in Nat /\ life[t] <= starts
  BY <1>1 DEF TypeOK, HostTypeOK, HostInv, ThreadsAlive
<1>3. RowKnown(r)
  BY <1>1, <1>2 DEF RowKnown, HostInv, Unique
<1>4. \A k \in 1..Len(pre) : \A l \in 1..Len(pre[k].threads) :
        RowKnown(pre[k].threads[l])
  BY DEF KnownInv, DomKnown
<1>5. \A o : RowKnown(o) => RowAfter(r, o)
  BY DEF RowKnown, RowAfter
<1> QED BY <1>3, <1>4, <1>5 DEF RowLater

\* So is a domain whose stat was just read.
LEMMA StatLater ==
    ASSUME GuestInv, KnownInv, NEW g \in Guests, NEW d,
           d.life = gid[g], d.utime = total[g]
    PROVE  HeadLater(d)
<1>1. HostInv /\ TypeOK
  BY DEF GuestInv, SafeInv
<1>2. total[g] \in Nat /\ gid[g] <= starts
  BY <1>1 DEF TypeOK, HostTypeOK, HostInv, GuestsRun
<1>3. HeadKnown(d)
  BY <1>1, <1>2 DEF HeadKnown, HostInv, Unique
<1>4. \A k \in 1..Len(pre) : HeadKnown(pre[k])
  BY DEF KnownInv, DomKnown
<1>5. \A o : HeadKnown(o) => HeadAfter(d, o)
  BY DEF HeadKnown, HeadAfter
<1> QED BY <1>3, <1>4, <1>5 DEF HeadLater

\* vmtop moves and the host does not.
LEMMA KnownKept ==
    ASSUME KnownInv, UNCHANGED hostVars, pre' = pre,
           \A i \in 1..Len(now') : DomLater(now'[i])
    PROVE  KnownInv'
<1>1. UNCHANGED <<starts, life, work, gid, total>>
  BY DEF hostVars
<1>2. \A k \in 1..Len(pre') : DomKnown(pre[k])'
  BY <1>1 DEF KnownInv, DomKnown, HeadKnown, RowKnown
<1>3. \A i \in 1..Len(now') : DomLater(now[i])'
  BY SMTT(30), <1>1 DEF DomLater, HeadLater, HeadKnown, RowLater, RowKnown
<1> QED BY <1>2, <1>3 DEF KnownInv

LEMMA SameKnown ==
    ASSUME KnownInv, UNCHANGED hostVars, pre' = pre, now' = now
    PROVE  KnownInv'
BY KnownKept DEF KnownInv

LEMMA RotateKnown ==
    ASSUME KnownInv, UNCHANGED hostVars, VcpuListFails \/ ReadVcpuList
    PROVE  KnownInv'
<1>1. pre' = now /\ now' = <<>>
  BY DEF VcpuListFails, ReadVcpuList, Rotate
<1>2. UNCHANGED <<starts, life, work, gid, total>>
  BY DEF hostVars
<1>3. \A i \in 1..Len(now) : DomKnown(now[i])
  BY DEF KnownInv, DomLater, HeadLater, RowLater, DomKnown
<1>4. \A k \in 1..Len(pre') : DomKnown(pre[k])'
  BY SMTT(30), <1>1, <1>2, <1>3 DEF DomKnown, HeadKnown, RowKnown
<1> QED BY <1>1, <1>4 DEF KnownInv

LEMMA AddKnown ==
    ASSUME GuestInv, KnownInv, UNCHANGED hostVars,
           NEW g \in Guests, AddDomain(g)
    PROVE  KnownInv'
<1>1. /\ Len(now') = Len(now) + 1 /\ Len(now) \in Nat /\ pre' = pre
      /\ \A i \in 1..Len(now) : now'[i] = now[i]
      /\ now'[Len(now')] = NewDom(pidfile[g], gid[owner[pidfile[g]]])
  BY AddStep DEF GuestInv, AddDomain
<1>2. 0 <= starts
  BY DEF GuestInv, SafeInv, TypeOK, HostTypeOK
<1>3. \A p, id : DomLater(NewDom(p, id))
  BY <1>2 DEF NewDom, DomLater, HeadLater, HeadKnown, HeadAfter
<1>4. \A i \in 1..Len(now') : i \in 1..Len(now) \/ i = Len(now')
  BY <1>1
<1>5. \A i \in 1..Len(now') : DomLater(now'[i])
  BY <1>1, <1>3, <1>4 DEF KnownInv
<1> QED BY <1>1, <1>5, KnownKept

LEMMA DropKnown ==
    ASSUME GuestInv, SlotInv, KnownInv, UNCHANGED hostVars, Filling,
           now' = Pop(now), pre' = pre
    PROVE  KnownInv'
<1>1. /\ now # <<>> /\ SafeInv
  BY OthersDone DEF GuestInv
<1>2. \A i \in 1..Len(now') : i \in 1..Len(now) /\ now'[i] = now[i]
  BY <1>1, DropStep
<1>3. \A i \in 1..Len(now') : DomLater(now'[i])
  BY <1>2 DEF KnownInv
<1> QED BY <1>3, KnownKept

\* The domain under construction changes, the others do not.
LEMMA FillKnown ==
    ASSUME GuestInv, KnownInv, UNCHANGED hostVars, OthersStay, pre' = pre,
           DomLater(Building')
    PROVE  KnownInv'
<1>1. \A i \in 1..Len(now') : i = Len(now) \/ (i \in 1..Len(now) /\ i # Len(now))
  BY DEF OthersStay
<1>2. now'[Len(now)] = Building'
  BY DEF OthersStay, Building
<1>3. \A i \in 1..Len(now') : DomLater(now'[i])
  BY <1>1, <1>2 DEF KnownInv, OthersStay
<1> QED BY <1>3, KnownKept

LEMMA BuildKnown ==
    ASSUME GuestInv, SlotInv, KnownInv, UNCHANGED hostVars,
           \/ ReadDomainStat \/ DomainStatFails
           \/ OpenTaskDir \/ TaskDirFails \/ EndTasks
    PROVE  KnownInv'
<1>1. Filling /\ SafeInv /\ TypeOK /\ pre' = pre
  BY DEF ReadDomainStat, DomainStatFails, OpenTaskDir, TaskDirFails,
         EndTasks, DropDomain, Filling, GuestInv, SafeInv
<1>2. now # <<>>
  BY <1>1, OthersDone
<1>3. DomLater(Building)
  BY <1>1, <1>2, LastIsBuilding DEF KnownInv
<1>4. CASE ReadDomainStat
  <2>1. /\ OthersStay /\ owner[Building.pid] \in Guests
        /\ Building'.threads = Building.threads
        /\ Building'.life = gid[owner[Building.pid]]
        /\ Building'.utime = total[owner[Building.pid]]
    BY <1>1, <1>4, StatStep
  <2>2. HeadLater(Building')
    <3>1. \A d : d.life = gid[owner[Building.pid]]
                 /\ d.utime = total[owner[Building.pid]] => HeadLater(d)
      BY <2>1, StatLater
    <3> QED BY <2>1, <3>1
  <2>3. \A j \in 1..Len(Building'.threads) : RowLater(Building'.threads[j])
    BY <1>3, <2>1 DEF DomLater
  <2>4. DomLater(Building')
    BY <2>2, <2>3 DEF DomLater
  <2> QED BY <1>1, <2>1, <2>4, FillKnown
<1>5. CASE DomainStatFails \/ TaskDirFails
  <2>1. now' = Pop(now)
    BY <1>5 DEF DomainStatFails, TaskDirFails, DropDomain
  <2> QED BY <1>1, <2>1, DropKnown
<1>6. CASE OpenTaskDir
  <2>1. /\ OthersStay /\ Building'.life = Building.life
        /\ Building'.utime = Building.utime /\ Building.nlwp \in Nat
        /\ Building'.threads = [k \in 1..Building.nlwp |-> ZeroRow]
    BY <1>1, <1>6, OpenStep
  <2>2. HeadLater(Building')
    BY <1>3, <2>1 DEF DomLater, HeadLater, HeadKnown, HeadAfter
  <2>3. \A j \in 1..Len(Building'.threads) : Building'.threads[j] = ZeroRow
    BY <2>1
  <2>4. RowLater(ZeroRow)
    BY <1>1, WrittenRows, UnreadLater
  <2>5. DomLater(Building')
    BY <2>2, <2>3, <2>4 DEF DomLater
  <2> QED BY <1>1, <2>1, <2>5, FillKnown
<1>7. CASE EndTasks
  <2>1. CASE now' = Pop(now)
    BY <1>1, <2>1, DropKnown
  <2>2. CASE now' # Pop(now)
    <3>1. /\ OthersStay /\ Building'.threads = Building.threads
          /\ Building'.life = Building.life
          /\ Building'.utime = Building.utime
      BY <1>1, <1>7, <2>2, EndStep
    <3>2. HeadLater(Building')
      BY <1>3, <3>1 DEF DomLater, HeadLater, HeadKnown, HeadAfter
    <3>3. DomLater(Building')
      BY <1>3, <3>1, <3>2 DEF DomLater
    <3> QED BY <1>1, <3>1, <3>3, FillKnown
  <2> QED BY <2>1, <2>2
<1> QED BY <1>4, <1>5, <1>6, <1>7

LEMMA TaskKnown ==
    ASSUME GuestInv, SlotInv, KnownInv, UNCHANGED hostVars,
           ReadVcpu \/ ReadThread \/ LoseThread
    PROVE  KnownInv'
<1> DEFINE t == Head(tasks)
           n == Building.nlwp
<1>0. SafeInv /\ TypeOK
  BY DEF GuestInv, SafeInv
<1>1. PICK row \in Row, cpus \in Nat :
        /\ NextTask /\ t \in Tids
        /\ Build([Building EXCEPT !.threads[slot] = row,
                                  !.smp_vcpus = cpus])
        /\ row = VcpuRow(t) \/ row = ThreadRow(t) \/ row = LostRow(t)
  BY <1>0, TaskStep
<1>2. /\ OthersStay
      /\ Len(Building.threads) = n /\ Len(Building'.threads) = n
      /\ Building'.life = Building.life /\ Building'.utime = Building.utime
      /\ \A j \in 1..n : Building'.threads[j] =
                  IF j = slot THEN row ELSE Building.threads[j]
  BY <1>0, <1>1, SlotStep
<1>3. Filling /\ pre' = pre
  BY <1>1 DEF NextTask, Filling
<1>4. now # <<>>
  BY <1>3, OthersDone
<1>5. DomLater(Building)
  BY <1>0, <1>4, LastIsBuilding DEF KnownInv
<1>6. RowLater(row)
  <2>1. CASE row = LostRow(t)
    BY <1>0, <2>1, WrittenRows, UnreadLater
  <2>2. CASE row # LostRow(t)
    <3>1. row.pid = t /\ row.life = life[t] /\ row.utime = work[t]
      BY <1>1, <2>2, WrittenRows
    <3> QED BY <1>1, <3>1, ReadLater
  <2> QED BY <2>1, <2>2
<1>7. HeadLater(Building')
  BY <1>2, <1>5 DEF DomLater, HeadLater, HeadKnown, HeadAfter
<1> HIDE DEF n
<1>8. \A j \in 1..Len(Building'.threads) : RowLater(Building'.threads[j])
  BY <1>2, <1>5, <1>6 DEF DomLater
<1>9. DomLater(Building')
  BY <1>7, <1>8 DEF DomLater
<1> QED BY <1>2, <1>3, <1>9, FillKnown

LEMMA DeltaKnown ==
    ASSUME GuestInv, KnownInv, UNCHANGED hostVars,
           RefreshDomain \/ RefreshThread
    PROVE  KnownInv'
<1>1. SafeInv /\ pre' = pre /\ di \in 1..Len(now)
  BY DEF RefreshDomain, RefreshThread, AtThread, deltaFrame, GuestInv
<1>2. /\ SameDomains(now') /\ Len(now') = Len(now)
      /\ \A i \in 1..Len(now) : i # di => now'[i] = now[i]
  BY <1>1, DomainDeltaStep, ThreadDeltaStep DEF SameDomains
<1>3. DomLater(now[di])
  BY <1>1 DEF KnownInv
<1>4. HeadLater(now'[di])
  <2>1. now'[di].life = now[di].life /\ now'[di].utime = now[di].utime
    BY <1>1, <1>2 DEF SameDomains
  <2> QED BY <1>3, <2>1 DEF DomLater, HeadLater, HeadKnown, HeadAfter
<1>5. \A j \in 1..Len(now'[di].threads) : RowLater(now'[di].threads[j])
  <2>1. CASE RefreshDomain
    <3>1. now'[di].threads = now[di].threads
      BY <1>1, <2>1, DomainDeltaStep
    <3> QED BY <1>3, <3>1 DEF DomLater
  <2>2. CASE RefreshThread
    <3>1. PICK old \in Row :
            /\ ti \in 1..now[di].nlwp /\ now[di].threads[ti] \in Row
            /\ Len(now[di].threads) = now[di].nlwp
            /\ Len(now'[di].threads) = now[di].nlwp
            /\ \A j \in 1..now[di].nlwp : now'[di].threads[j] =
                  IF j = ti THEN RefreshRow(now[di].threads[ti], old)
                            ELSE now[di].threads[j]
      BY <1>1, <2>2, ThreadDeltaStep
    <3>2. \A j \in 1..now[di].nlwp :
            /\ now'[di].threads[j].pid = now[di].threads[j].pid
            /\ now'[di].threads[j].life = now[di].threads[j].life
            /\ now'[di].threads[j].utime = now[di].threads[j].utime
      BY SMTT(30), <3>1, RefreshedRow
    <3>3. \A j \in 1..now[di].nlwp : RowLater(now[di].threads[j])
      BY <1>3, <3>1 DEF DomLater
    <3>4. \A r, s : r.pid = s.pid /\ r.life = s.life /\ r.utime = s.utime
                    /\ RowLater(s) => RowLater(r)
      BY DEF RowLater, RowKnown, RowAfter
    <3>5. ASSUME NEW j \in 1..now[di].nlwp
          PROVE  RowLater(now'[di].threads[j])
      <4>1. /\ now'[di].threads[j].pid = now[di].threads[j].pid
            /\ now'[di].threads[j].life = now[di].threads[j].life
            /\ now'[di].threads[j].utime = now[di].threads[j].utime
        BY <3>2
      <4> QED BY <3>3, <3>4, <4>1
    <3>6. Len(now'[di].threads) = now[di].nlwp
      BY <3>1
    <3> QED BY <3>5, <3>6
  <2> QED BY <2>1, <2>2
<1>6. \A i \in 1..Len(now') : DomLater(now'[i])
  <2>1. DomLater(now'[di])
    BY <1>4, <1>5 DEF DomLater
  <2> QED BY <1>2, <2>1 DEF KnownInv
<1> QED BY <1>1, <1>6, KnownKept

LEMMA KnownKeeps ==
    ASSUME GuestInv, SlotInv, KnownInv, [Next]_vars
    PROVE  KnownInv'
<1>1. CASE SamplerNext
  <2>1. RefreshSteps /\ UNCHANGED hostVars
    BY <1>1 DEF SamplerNext
  <2>2. CASE \/ RunDirFails \/ OpenRunDir \/ CloseRunDir \/ ListTasks
             \/ SkipNewDomain \/ SkipNewThread \/ EndThreads \/ Return
             \/ \E g \in Guests : SkipPidFile(g)
    <3>1. now' = now /\ pre' = pre
      BY <2>2 DEF RunDirFails, OpenRunDir, CloseRunDir, ListTasks, tables,
         SkipNewDomain, SkipNewThread, EndThreads, Return, deltaFrame,
         SkipPidFile
    <3> QED BY <2>1, <3>1, SameKnown
  <2> QED BY <2>1, <2>2, RotateKnown, AddKnown, BuildKnown, TaskKnown,
             DeltaKnown
          DEF RefreshSteps, DomainSteps, DeltaSteps
<1>2. CASE UNCHANGED vars
  <2>1. now' = now /\ pre' = pre /\ UNCHANGED hostVars
    BY <1>2 DEF vars, samplerVars
  <2> QED BY <2>1, SameKnown
<1> QED BY <1>1, <1>2, HostKnown DEF Next
-----------------------------------------------------------------------------
\* get_domain_from_id and get_thread_from_pid find at most one.
LEMMA FoundOnce ==
    ASSUME TypeOK
    PROVE  /\ \A id : \A k, m \in 1..Len(pre) :
                DomainFromId(id, pre, k) /\ DomainFromId(id, pre, m) => k = m
           /\ \A p : \A k \in 1..Len(pre) : \A l, m \in 1..pre[k].nlwp :
                /\ ThreadFromPid(p, pre[k], l)
                /\ ThreadFromPid(p, pre[k], m)
                => l = m
<1>1. \A k, m \in 1..Len(pre) :
        k = m \/ k \in 1..(m - 1) \/ m \in 1..(k - 1)
  OBVIOUS
<1>2. \A k \in 1..Len(pre) : pre[k].nlwp \in Nat
  <2>1. pre \in Seq(Dom)
    BY DEF TypeOK, SamplerTypeOK
  <2>2. \A k \in 1..Len(pre) : pre[k] \in Dom
    BY <2>1
  <2> QED BY <2>2 DEF Dom
<1>3. \A k \in 1..Len(pre) : \A l, m \in 1..pre[k].nlwp :
        l = m \/ l \in 1..(m - 1) \/ m \in 1..(l - 1)
  BY <1>2
<1>4. \A id : \A k, m \in 1..Len(pre) :
        DomainFromId(id, pre, k) /\ DomainFromId(id, pre, m) => k = m
  BY <1>1 DEF DomainFromId
<1>5. \A p : \A k \in 1..Len(pre) : \A l, m \in 1..pre[k].nlwp :
        ThreadFromPid(p, pre[k], l) /\ ThreadFromPid(p, pre[k], m) => l = m
  BY <1>3 DEF ThreadFromPid
<1> QED BY <1>4, <1>5

LEMMA SettledInit == Init => SettledInv
<1> SUFFICES ASSUME Init PROVE SettledInv
  OBVIOUS
<1>1. now = <<>>
  BY DEF Init, SamplerInit
<1> QED BY <1>1 DEF SettledInv

\* The loop has not begun, or there is nothing to show.
LEMMA AwaySettled ==
    ASSUME now' = <<>> \/ pc' \notin {"deltas", "idle"}
    PROVE  SettledInv'
<1>1. now' = <<>> => 1..Len(now') = {}
  OBVIOUS
<1> QED BY <1>1 DEF SettledInv

\* A step of the loop settles what it leaves behind.
LEMMA StepSettled ==
    ASSUME SettledInv, pc = "deltas", pc' \in {"deltas", "idle"},
           pre' = pre, Len(now') = Len(now), SameDomains(now'),
           \A i \in 1..Len(now) :
              \/ DomainAhead(i)'
              \/ ~ DomainAhead(i) /\ now'[i].dutime = now[i].dutime
              \/ DomainSettled(i)',
           \A i \in 1..Len(now) : \A j \in 1..now[i].nlwp :
              \/ RowAhead(i, j)'
              \/ /\ ~ RowAhead(i, j)
                 /\ now'[i].threads[j] = now[i].threads[j]
              \/ RowSettled(i, j)'
    PROVE  SettledInv'
<1>1. \A i \in 1..Len(now) :
        /\ now'[i].id = now[i].id /\ now'[i].utime = now[i].utime
        /\ now'[i].nlwp = now[i].nlwp
  BY DEF SameDomains
<1>2. \A i \in 1..Len(now') : ~ DomainAhead(i)' => DomainSettled(i)'
  <2> SUFFICES ASSUME NEW i \in 1..Len(now), ~ DomainAhead(i)',
                      ~ DomainAhead(i), now'[i].dutime = now[i].dutime
               PROVE  DomainSettled(i)'
    OBVIOUS
  <2>1. DomainSettled(i)
    BY DEF SettledInv
  <2> QED BY <1>1, <2>1 DEF DomainSettled
<1>3. \A i \in 1..Len(now') : \A j \in 1..now'[i].nlwp :
        ~ RowAhead(i, j)' => RowSettled(i, j)'
  <2> SUFFICES ASSUME NEW i \in 1..Len(now), NEW j \in 1..now[i].nlwp,
                      ~ RowAhead(i, j)', ~ RowAhead(i, j),
                      now'[i].threads[j] = now[i].threads[j]
               PROVE  RowSettled(i, j)'
    BY <1>1
  <2>1. RowSettled(i, j)
    BY DEF SettledInv
  <2>2. \A k, l : Finds(i, j, k, l)' <=> Finds(i, j, k, l)
    BY <1>1 DEF Finds
  <2> QED BY <2>1, <2>2 DEF RowSettled
<1> QED BY <1>2, <1>3 DEF SettledInv

\* The loop begins: everything is ahead of it.
LEMMA CloseSettled ==
    ASSUME CloseRunDir, TypeOK
    PROVE  SettledInv'
<1>1. now' = now /\ pc' = "deltas" /\ di' = 1 /\ ti' = 0
  BY DEF CloseRunDir, tables
<1>2. /\ \A i \in 1..Len(now) : DomainAhead(i)'
      /\ \A i \in 1..Len(now) : \A j \in 1..now[i].nlwp : RowAhead(i, j)'
  <2>1. \A i \in 1..Len(now) : i > 1 \/ i = 1
    OBVIOUS
  <2>2. \A i \in 1..Len(now) : \A j \in 1..now[i].nlwp : j >= 0
    OBVIOUS
  <2> QED BY <1>1, <2>1, <2>2 DEF DomainAhead, RowAhead
<1> QED BY <1>1, <1>2 DEF SettledInv

\* Nothing to compare with: the deltas stay at zero.
LEMMA SkipSettled ==
    ASSUME RowsInv, SettledInv, SkipNewDomain \/ SkipNewThread
    PROVE  SettledInv'
<1>0. /\ pc = "deltas" /\ pc' = pc /\ pre' = pre /\ now' = now
      /\ di \in 1..Len(now) /\ ti \in Nat /\ TypeOK
      /\ Arrayed = 1..Len(now)
  BY DEF SkipNewDomain, SkipNewThread, AtThread, deltaFrame, RowsInv,
         GuestInv, SafeInv, TypeOK, SamplerTypeOK, Arrayed
<1>1. SameDomains(now')
  BY <1>0 DEF SameDomains
<1>2. CASE SkipNewDomain
  <2>1. /\ ti = 0 /\ ti' = 0 /\ di' = di + 1
        /\ \A k \in 1..Len(pre) : ~ DomainFromId(now[di].id, pre, k)
    BY <1>2 DEF SkipNewDomain, DomainFromId
  <2>2. now[di].dutime = 0
    BY <1>0, <2>1 DEF DomainAhead, RowsInv, FreshInv
  <2>3. \A i : i = di => DomainSettled(i)'
    <3>1. DomainSettled(di)
      BY <2>1, <2>2 DEF DomainSettled
    <3> QED BY <1>0, <3>1 DEF DomainSettled
  <2>4. \A i \in 1..Len(now) : DomainAhead(i) => DomainAhead(i)' \/ i = di
    BY <1>0, <2>1 DEF DomainAhead
  <2>5. \A i \in 1..Len(now) : \A j \in 1..now[i].nlwp :
          RowAhead(i, j) => RowAhead(i, j)' \/ i = di
    <3>1. \A i \in 1..Len(now) : \A j \in 1..now[i].nlwp : j >= 0
      OBVIOUS
    <3> QED BY <1>0, <2>1, <3>1 DEF RowAhead
  <2>6. \A i : \A j \in 1..now[i].nlwp :
          i = di /\ RowAhead(i, j) => RowSettled(i, j)'
    <3> SUFFICES ASSUME NEW i, i = di, NEW j \in 1..now[i].nlwp,
                        RowAhead(i, j)
                 PROVE  RowSettled(i, j)'
      OBVIOUS
    <3>1. now[i].threads[j].dutime = 0
      BY <1>0 DEF RowsInv, FreshInv
    <3>2. \A k \in 1..Len(pre) : \A l : ~ Finds(i, j, k, l)
      BY <2>1 DEF Finds
    <3>3. \A k, l : Finds(i, j, k, l)' <=> Finds(i, j, k, l)
      BY <1>0 DEF Finds
    <3> QED BY <1>0, <3>1, <3>2, <3>3 DEF RowSettled
  <2>7. \A i \in 1..Len(now) :
          \/ DomainAhead(i)'
          \/ ~ DomainAhead(i) /\ now'[i].dutime = now[i].dutime
          \/ DomainSettled(i)'
    BY <1>0, <2>3, <2>4
  <2>8. \A i \in 1..Len(now) : \A j \in 1..now[i].nlwp :
          \/ RowAhead(i, j)'
          \/ ~ RowAhead(i, j) /\ now'[i].threads[j] = now[i].threads[j]
          \/ RowSettled(i, j)'
    BY <1>0, <2>5, <2>6
  <2> QED BY <1>0, <1>1, <2>7, <2>8, StepSettled
<1>3. CASE SkipNewThread
  <2>1. PICK k \in 1..Len(pre) :
          /\ AtThread(k)
          /\ \A l \in 1..pre[k].nlwp :
                pre[k].threads[l].pid # now[di].threads[ti].pid
    BY <1>3 DEF SkipNewThread
  <2>2. /\ ti \in 1..now[di].nlwp /\ ti' = ti + 1 /\ di' = di
        /\ DomainFromId(now[di].id, pre, k)
    BY <1>3, <2>1 DEF AtThread, SkipNewThread
  <2>3. RowSettled(di, ti)
    <3>1. now[di].threads[ti].dutime = 0
      <4>1. RowAhead(di, ti)
        BY <1>0 DEF RowAhead
      <4> QED BY <1>0, <2>2, <4>1 DEF RowsInv, FreshInv
    <3>2. \A m \in 1..Len(pre) : \A l \in 1..pre[m].nlwp :
            ~ Finds(di, ti, m, l)
      BY <1>0, <2>1, <2>2, FoundOnce DEF Finds, ThreadFromPid
    <3> QED BY <3>1, <3>2 DEF RowSettled
  <2>4. RowSettled(di, ti) => \A i, j : i = di /\ j = ti => RowSettled(i, j)'
    <3>1. \A i, j, m, l : Finds(i, j, m, l)' <=> Finds(i, j, m, l)
      BY <1>0 DEF Finds
    <3> QED BY <1>0, <3>1 DEF RowSettled
  <2>5. \A i \in 1..Len(now) : DomainAhead(i) => DomainAhead(i)'
    BY <1>0, <2>2 DEF DomainAhead
  <2>6. \A i \in 1..Len(now) : \A j \in 1..now[i].nlwp :
          RowAhead(i, j) => RowAhead(i, j)' \/ (i = di /\ j = ti)
    BY <1>0, <2>2 DEF RowAhead
  <2>7. \A i \in 1..Len(now) : \A j \in 1..now[i].nlwp :
          RowAhead(i, j) => RowAhead(i, j)' \/ RowSettled(i, j)'
    BY <2>3, <2>4, <2>6
  <2> QED BY <1>0, <1>1, <2>5, <2>7, StepSettled
<1> QED BY <1>2, <1>3

\* The loop goes on to the next domain, or ends.
LEMMA NextSettled ==
    ASSUME RowsInv, SettledInv, EndThreads \/ Return
    PROVE  SettledInv'
<1>0. /\ pc = "deltas" /\ pc' \in {"deltas", "idle"} /\ pre' = pre
      /\ now' = now /\ di \in Nat /\ ti \in Nat
  BY DEF EndThreads, Return, deltaFrame, RowsInv, GuestInv, SafeInv, TypeOK,
         SamplerTypeOK
<1>1. SameDomains(now')
  BY <1>0 DEF SameDomains
<1>2. \A i \in 1..Len(now) : now[i].nlwp \in Nat
  <2>1. now \in Seq(Dom)
    BY DEF RowsInv, GuestInv, SafeInv, TypeOK, SamplerTypeOK
  <2>2. \A i \in 1..Len(now) : now[i] \in Dom
    BY <2>1
  <2> QED BY <2>2 DEF Dom
<1>3. CASE EndThreads
  <2>1. /\ di \in 1..Len(now) /\ ti > now[di].nlwp /\ now[di].nlwp \in Nat
        /\ di' = di + 1 /\ ti' = 0 /\ pc' = pc
    BY <1>2, <1>3 DEF EndThreads
  <2>2. \A i \in 1..Len(now) : DomainAhead(i) => DomainAhead(i)'
    BY <1>0, <2>1 DEF DomainAhead
  <2>3. \A i \in 1..Len(now) : \A j \in 1..now[i].nlwp :
          RowAhead(i, j) => RowAhead(i, j)'
    <3>1. \A i \in 1..Len(now) : \A j \in 1..now[i].nlwp :
            j \in Nat /\ j <= now[i].nlwp
      BY <1>2
    <3> QED BY <1>0, <2>1, <3>1 DEF RowAhead
  <2> QED BY <1>0, <1>1, <2>2, <2>3, StepSettled
<1>4. CASE Return
  <2>1. di > Len(now)
    BY <1>4 DEF Return
  <2>2. \A i \in 1..Len(now) : ~ DomainAhead(i)
    BY <1>0, <2>1 DEF DomainAhead
  <2>3. \A i \in 1..Len(now) : \A j \in 1..now[i].nlwp : ~ RowAhead(i, j)
    BY <1>0, <2>1 DEF RowAhead
  <2> QED BY <1>0, <1>1, <2>2, <2>3, StepSettled
<1> QED BY <1>3, <1>4

\* A delta is taken against what was found.
LEMMA DeltaSettled ==
    ASSUME RowsInv, SettledInv, RefreshDomain \/ RefreshThread
    PROVE  SettledInv'
<1>0. /\ pc = "deltas" /\ pc' = pc /\ pre' = pre /\ di' = di /\ SafeInv
      /\ di \in 1..Len(now) /\ ti \in Nat /\ TypeOK
  BY DEF RefreshDomain, RefreshThread, AtThread, deltaFrame, RowsInv,
         GuestInv, SafeInv, TypeOK, SamplerTypeOK
<1>1. /\ SameDomains(now') /\ Len(now') = Len(now)
      /\ \A i \in 1..Len(now) : i # di => now'[i] = now[i]
  BY <1>0, DomainDeltaStep, ThreadDeltaStep DEF SameDomains
<1>2. \A i \in 1..Len(now) :
        now'[i].id = now[i].id /\ now'[i].utime = now[i].utime
  BY <1>1 DEF SameDomains
<1>3. CASE RefreshDomain
  <2>1. PICK k \in 1..Len(pre) :
          /\ DomainFromId(now[di].id, pre, k)
          /\ now'[di].threads = now[di].threads
          /\ now'[di].dutime =
                Delta(now[di].utime, pre[k].utime, pre[k].dutime)
    BY <1>0, <1>3, DomainDeltaStep
  <2>2. ti = 0 /\ ti' = 1
    BY <1>3 DEF RefreshDomain
  <2>3. \A i : i = di => DomainSettled(i)'
    <3>1. /\ \A m \in 1..Len(pre) : DomainFromId(now[di].id, pre, m) =>
                now'[di].dutime =
                    Delta(now[di].utime, pre[m].utime, pre[m].dutime)
          /\ ~ \A m \in 1..Len(pre) : ~ DomainFromId(now[di].id, pre, m)
      BY <1>0, <2>1, FoundOnce
    <3> QED BY <1>0, <1>2, <3>1 DEF DomainSettled
  <2>4. \A i \in 1..Len(now) : DomainAhead(i) => DomainAhead(i)' \/ i = di
    BY <1>0, <2>2 DEF DomainAhead
  <2>5. \A i \in 1..Len(now) : \A j \in 1..now[i].nlwp :
          RowAhead(i, j) => RowAhead(i, j)'
    BY <1>0, <2>2 DEF RowAhead
  <2>6. \A i \in 1..Len(now) :
          /\ now'[i].threads = now[i].threads
          /\ i # di => now'[i].dutime = now[i].dutime
    BY <1>1, <2>1
  <2>7. \A i \in 1..Len(now) :
          \/ DomainAhead(i)'
          \/ ~ DomainAhead(i) /\ now'[i].dutime = now[i].dutime
          \/ DomainSettled(i)'
    BY <2>3, <2>4, <2>6
  <2>8. \A i \in 1..Len(now) : \A j \in 1..now[i].nlwp :
          \/ RowAhead(i, j)'
          \/ ~ RowAhead(i, j) /\ now'[i].threads[j] = now[i].threads[j]
    BY <2>5, <2>6
  <2> QED BY <1>0, <1>1, <2>7, <2>8, StepSettled
<1>4. CASE RefreshThread
  <2>1. PICK k \in 1..Len(pre) : \E l \in 1..pre[k].nlwp :
          /\ AtThread(k) /\ ti \in 1..now[di].nlwp
          /\ pre[k].threads[l] \in Row /\ now[di].threads[ti] \in Row
          /\ ThreadFromPid(now[di].threads[ti].pid, pre[k], l)
          /\ now'[di].dutime = now[di].dutime
          /\ \A j \in 1..now[di].nlwp : now'[di].threads[j] =
                IF j = ti
                THEN RefreshRow(now[di].threads[ti], pre[k].threads[l])
                ELSE now[di].threads[j]
    BY <1>0, <1>4, ThreadDeltaStep
  <2>2. PICK l \in 1..pre[k].nlwp :
          /\ AtThread(k) /\ ti \in 1..now[di].nlwp
          /\ pre[k].threads[l] \in Row /\ now[di].threads[ti] \in Row
          /\ ThreadFromPid(now[di].threads[ti].pid, pre[k], l)
          /\ now'[di].dutime = now[di].dutime
          /\ \A j \in 1..now[di].nlwp : now'[di].threads[j] =
                IF j = ti
                THEN RefreshRow(now[di].threads[ti], pre[k].threads[l])
                ELSE now[di].threads[j]
    BY <2>1
  <2>3. ti' = ti + 1
    BY <1>4 DEF RefreshThread
  <2>4. /\ now'[di].threads[ti].pid = now[di].threads[ti].pid
        /\ Against(now'[di].threads[ti], pre[k].threads[l])
    BY <2>2, RefreshedRow DEF Against
  <2>5. Finds(di, ti, k, l)
    BY <2>2 DEF Finds, AtThread
  <2>6. \A m \in 1..Len(pre) : \A n \in 1..pre[m].nlwp :
          Finds(di, ti, m, n) => m = k /\ n = l
    BY <1>0, <2>5, FoundOnce DEF Finds
  <2>7. \A i, j : i = di /\ j = ti => RowSettled(i, j)'
    <3>1. \A m, n : \A i, j : i = di /\ j = ti =>
            (Finds(i, j, m, n)' <=> Finds(di, ti, m, n))
      BY <1>0, <1>2, <2>4 DEF Finds
    <3>2. /\ \A m \in 1..Len(pre) : \A n \in 1..pre[m].nlwp :
                Finds(di, ti, m, n) =>
                    Against(now'[di].threads[ti], pre[m].threads[n])
          /\ ~ \A m \in 1..Len(pre) : \A n \in 1..pre[m].nlwp :
                ~ Finds(di, ti, m, n)
      BY <2>4, <2>5, <2>6
    <3> QED BY <1>0, <3>1, <3>2 DEF RowSettled
  <2>8. \A i \in 1..Len(now) : DomainAhead(i) => DomainAhead(i)'
    BY <1>0, <2>2, <2>3 DEF DomainAhead
  <2>9. \A i \in 1..Len(now) : \A j \in 1..now[i].nlwp :
          RowAhead(i, j) => RowAhead(i, j)' \/ (i = di /\ j = ti)
    BY <1>0, <2>2, <2>3 DEF RowAhead
  <2>10. \A i \in 1..Len(now) : \A j \in 1..now[i].nlwp :
          i # di \/ j # ti => now'[i].threads[j] = now[i].threads[j]
    BY <1>1, <2>2
  <2>11. \A i \in 1..Len(now) : now'[i].dutime = now[i].dutime
    BY <1>1, <2>2
  <2>12. \A i \in 1..Len(now) : \A j \in 1..now[i].nlwp :
          \/ RowAhead(i, j)'
          \/ /\ ~ RowAhead(i, j)
             /\ now'[i].threads[j] = now[i].threads[j]
          \/ RowSettled(i, j)'
    BY <2>7, <2>9, <2>10
  <2> QED BY <1>0, <1>1, <2>8, <2>11, <2>12, StepSettled
<1> QED BY <1>3, <1>4

LEMMA SettledKeeps ==
    ASSUME RowsInv, SettledInv, [Next]_vars
    PROVE  SettledInv'
<1>0. TypeOK
  BY DEF RowsInv, GuestInv, SafeInv
<1>1. CASE SamplerNext
  <2>1. RefreshSteps
    BY <1>1 DEF SamplerNext
  <2>2. CASE VcpuListFails \/ ReadVcpuList \/ RunDirFails
    <3>1. now' = <<>>
      BY <2>2 DEF VcpuListFails, ReadVcpuList, RunDirFails, Rotate, tables,
                  RowsInv, GuestInv, Scan
    <3> QED BY <3>1, AwaySettled
  <2>3. CASE OpenRunDir \/ DomainSteps
    <3>1. pc' \notin {"deltas", "idle"}
      BY <2>3 DEF OpenRunDir, DomainSteps, AddDomain, SkipPidFile,
         ReadDomainStat, DomainStatFails, OpenTaskDir, TaskDirFails,
         ListTasks, ReadVcpu, ReadThread, LoseThread, NextTask, EndTasks,
         DropDomain
    <3> QED BY <3>1, AwaySettled
  <2> QED BY <1>0, <2>1, <2>2, <2>3, CloseSettled, SkipSettled, NextSettled,
             DeltaSettled
          DEF RefreshSteps, DeltaSteps
<1>2. CASE HostMoves \/ UNCHANGED vars
  <2>1. UNCHANGED <<pc, now, pre, di, ti>>
    BY <1>2 DEF HostMoves, vars, samplerVars
  <2> QED BY <2>1 DEF SettledInv, DomainAhead, RowAhead, DomainSettled,
                      RowSettled, Finds
<1> QED BY <1>1, <1>2 DEF Next

MeterInv == RowsInv /\ KnownInv /\ SettledInv

LEMMA MeterInvInductive ==
    /\ Init => MeterInv
    /\ MeterInv /\ [Next]_vars => MeterInv'
<1>1. Init => MeterInv
  BY RowsInvInductive, KnownInit, SettledInit DEF MeterInv
<1>2. MeterInv /\ [Next]_vars => MeterInv'
  <2> SUFFICES ASSUME MeterInv, [Next]_vars PROVE MeterInv'
    OBVIOUS
  <2>1. RowsInv /\ KnownInv /\ SettledInv /\ GuestInv /\ SlotInv /\ RowsInv'
    BY RowsInvInductive DEF MeterInv, RowsInv
  <2> QED BY <2>1, KnownKeeps, SettledKeeps DEF MeterInv
<1> QED BY <1>1, <1>2

\* The loop over the domains has nothing more to do.
LoopDone == pc = "idle" \/ (pc = "deltas" /\ di > Len(now))

\* What a sample that is complete says of a domain and of a row, against the
\* last sample.
LEMMA ShownSettled ==
    ASSUME MeterInv, LoopDone
    PROVE  /\ TypeOK
           /\ \A k \in 1..Len(pre) : pre[k] \in Dom /\ Rowed(pre[k])
           /\ \A i \in 1..Len(now) :
                /\ now[i] \in Dom /\ Rowed(now[i]) /\ DomainSettled(i)
                /\ HeadLater(now[i]) /\ now[i].id # 0
                /\ \A j \in 1..now[i].nlwp :
                      RowSettled(i, j) /\ RowLater(now[i].threads[j])
<1>1. TypeOK /\ RowsInv /\ GuestInv /\ SlotInv /\ KnownInv /\ SettledInv
  BY DEF MeterInv, RowsInv, GuestInv, SafeInv
<1>2. Arrayed = 1..Len(now) /\ pc \in {"idle", "deltas"} /\ di \in Nat
  BY <1>1 DEF Arrayed, LoopDone, TypeOK, SamplerTypeOK
<1>3. \A k \in 1..Len(pre) : pre[k] \in Dom /\ Rowed(pre[k])
  BY <1>1 DEF SlotInv, TypeOK, SamplerTypeOK
<1>4. \A i \in 1..Len(now) : now[i] \in Dom /\ Rowed(now[i])
  BY <1>1, <1>2 DEF SlotInv, TypeOK, SamplerTypeOK
<1>5. \A i \in 1..Len(now) :
        /\ DomainSettled(i)
        /\ \A j \in 1..now[i].nlwp : RowSettled(i, j)
  <2>1. \A i \in 1..Len(now) : ~ DomainAhead(i) /\ \A j : ~ RowAhead(i, j)
    BY <1>2 DEF DomainAhead, RowAhead, LoopDone
  <2> QED BY <1>1, <1>2, <2>1 DEF SettledInv
<1>6. \A i \in 1..Len(now) :
        /\ HeadLater(now[i])
        /\ \A j \in 1..now[i].nlwp : RowLater(now[i].threads[j])
  BY <1>1, <1>4 DEF KnownInv, DomLater, Rowed
<1>7. \A i \in 1..Len(now) : now[i].id # 0
  <2>1. scanned.clock \in Nat /\ 0 \notin scanned.ids
    BY <1>1 DEF GuestInv, Scan, TypeOK, SamplerTypeOK, Ids
  <2> QED BY <1>1, <2>1 DEF GuestInv, Recents, Recent
<1> QED BY <1>1, <1>3, <1>4, <1>5, <1>6, <1>7

\* The delta of utime of a process or thread that two samples in a row read is
\* what its counter grew between the two reads, however many guests and
\* threads come and go between them and whatever tids they take over: the
\* last sample is kept whole, a row meets only its own thread, and the
\* counter that was read later is not the smaller one (refresh_domains,
\* refresh_delta_stat, DELTA_FUN).
THEOREM GrowthIsExact == Spec => []UtimeExact
<1>1. ASSUME MeterInv PROVE UtimeExact
  <2> SUFFICES ASSUME Shown, NEW i \in 1..Len(now)
               PROVE
        /\ \A k \in 1..Len(pre) :
            /\ DomainFromId(now[i].id, pre, k)
            /\ now[i].life = now[i].id /\ pre[k].life = pre[k].id
            => now[i].dutime = now[i].utime - pre[k].utime
        /\ \A r \in Rows(now[i]) :
            \A o \in UNION {Rows(pre[k]) : k \in 1..Len(pre)} :
                SameThread(now[i], r, o) => r.dutime = r.utime - o.utime
    BY DEF UtimeExact
  <2>1. /\ now[i] \in Dom /\ Rowed(now[i]) /\ DomainSettled(i)
        /\ HeadLater(now[i]) /\ now[i].id # 0
        /\ \A j \in 1..now[i].nlwp :
              RowSettled(i, j) /\ RowLater(now[i].threads[j])
        /\ \A k \in 1..Len(pre) : pre[k] \in Dom /\ Rowed(pre[k])
    BY <1>1, ShownSettled DEF Shown, LoopDone
  <2>2. ASSUME NEW k \in 1..Len(pre), DomainFromId(now[i].id, pre, k),
               now[i].life = now[i].id, pre[k].life = pre[k].id
        PROVE  now[i].dutime = now[i].utime - pre[k].utime
    <3>1. pre[k].utime <= now[i].utime
      BY <2>1, <2>2 DEF DomainFromId, HeadLater, HeadAfter
    <3>2. now[i].dutime = Delta(now[i].utime, pre[k].utime, pre[k].dutime)
      BY <2>1, <2>2 DEF DomainSettled
    <3>3. now[i].utime \in Nat /\ pre[k].utime \in Nat
      BY <2>1 DEF Dom
    <3> QED BY <3>1, <3>2, <3>3 DEF Delta
  <2>3. ASSUME NEW r \in Rows(now[i]), NEW o, SameThread(now[i], r, o)
        PROVE  r.dutime = r.utime - o.utime
    <3>1. PICK j \in 1..now[i].nlwp : r = now[i].threads[j]
      BY <2>3 DEF Rows
    <3>2. PICK k \in 1..Len(pre) :
            /\ DomainFromId(now[i].id, pre, k)
            /\ o \in Rows(pre[k]) /\ o.life = r.life /\ r.life # 0
      BY <2>3 DEF SameThread, Baseline
    <3>3. PICK l \in 1..pre[k].nlwp : o = pre[k].threads[l]
      BY <3>2 DEF Rows
    <3>4. r \in Row /\ o \in Row
      BY <2>1, <3>1, <3>3, RowsTyped DEF Rowed
    <3>5. r.pid = o.pid /\ o.utime <= r.utime
      BY <2>1, <3>1, <3>2, <3>3 DEF RowLater, RowAfter, Rowed
    <3>6. o.pid # NoTid
      BY <2>1, <3>1, <3>2, <3>5, WrittenRows DEF Rowed
    <3>7. pre[k].nlwp \in Nat
      BY <2>1 DEF Dom
    <3>8. \A m \in 1..(l - 1) : m \in 1..pre[k].nlwp /\ m # l
      BY <3>7
    <3>9. ThreadFromPid(r.pid, pre[k], l)
      BY <2>1, <3>3, <3>5, <3>6, <3>7, <3>8 DEF ThreadFromPid, Rowed
    <3>10. r.dutime = Delta(r.utime, o.utime, o.dutime)
      BY <2>1, <3>1, <3>2, <3>3, <3>9 DEF RowSettled, Finds, Against
    <3>11. r.utime \in Nat /\ o.utime \in Nat
      BY <3>4 DEF Row
    <3> QED BY <3>5, <3>10, <3>11 DEF Delta
  <2> QED BY <2>2, <2>3
<1> QED BY <1>1, MeterInvInductive, PTL DEF Spec
-----------------------------------------------------------------------------
(***************************************************************************)
(* Sampling implements Meter.                                              *)
(***************************************************************************)
DomReading(list, i) ==
    [guest |-> list[i].id, entry |-> Entry(list, i), tid |-> NoTid,
     life |-> list[i].life, count |-> list[i].utime, delta |-> list[i].dutime]

RowReading(list, i, j) ==
    [guest |-> list[i].id, entry |-> Entry(list, i),
     tid |-> list[i].threads[j].pid, life |-> list[i].threads[j].life,
     count |-> list[i].threads[j].utime, delta |-> list[i].threads[j].dutime]

LEMMA ReadingsAre ==
    ASSUME NEW list, NEW x
    PROVE  x \in Readings(list) <=>
              \E i \in 1..Len(list) :
                  \/ x = DomReading(list, i)
                  \/ \E j \in 1..list[i].nlwp :
                        /\ list[i].threads[j].pid # NoTid
                        /\ x = RowReading(list, i, j)
BY DEF Readings, Rows, DomReading, RowReading

\* The first entry of a guest is the one that get_domain_from_id finds.
LEMMA FirstEntry ==
    ASSUME NEW list, Len(list) \in Nat, NEW i \in 1..Len(list)
    PROVE  /\ Entry(list, i) \in Nat
           /\ Entry(list, i) = 1 <=> DomainFromId(list[i].id, list, i)
<1> DEFINE S == {l \in 1..i : list[l].id = list[i].id}
<1>1. i \in S /\ i \in Nat /\ i > 0
  OBVIOUS
<1>2. IsFiniteSet(S)
  <2>1. IsFiniteSet(1..i)
    BY <1>1, FS_Interval
  <2> QED BY <2>1, FS_Subset
<1>3. Entry(list, i) = Cardinality(S)
  BY DEF Entry
<1>4. DomainFromId(list[i].id, list, i) <=> S = {i}
  <2>1. \A l \in 1..i : l = i \/ l \in 1..(i - 1)
    BY <1>1
  <2>2. \A l \in 1..(i - 1) : l \in 1..i /\ l # i
    BY <1>1
  <2> QED BY <1>1, <2>1, <2>2 DEF DomainFromId
<1> HIDE DEF S
<1>5. Cardinality(S) \in Nat
  BY <1>2, FS_CardinalityType
<1>6. S = {i} => Cardinality(S) = 1
  BY FS_Singleton
<1>7. Cardinality(S) = 1 => S = {i}
  <2> SUFFICES ASSUME Cardinality(S) = 1 PROVE S \ {i} = {}
    BY <1>1
  <2>1. IsFiniteSet(S \ {i}) /\ Cardinality(S \ {i}) = Cardinality(S) - 1
    BY <1>1, <1>2, FS_RemoveElement
  <2>2. Cardinality(S \ {i}) = 0
    BY <2>1
  <2> QED BY <2>1, <2>2, FS_EmptySet
<1> QED BY <1>3, <1>4, <1>5, <1>6, <1>7

\* A complete sample is measured against the last one.
LEMMA SampleMeasured ==
    ASSUME MeterInv, LoopDone, NEW r \in Readings(now)
    PROVE  /\ r \in M!Reading
           /\ LET before == {o \in Readings(pre) : o.guest = r.guest
                                /\ o.entry = 1 /\ o.tid = r.tid}
              IN IF before = {} THEN r.delta = 0
                                ELSE \E o \in before : M!Grown(r, o)
<1> DEFINE before == {o \in Readings(pre) : o.guest = r.guest
                         /\ o.entry = 1 /\ o.tid = r.tid}
<1>1. /\ TypeOK
      /\ \A k \in 1..Len(pre) : pre[k] \in Dom /\ Rowed(pre[k])
      /\ \A i \in 1..Len(now) :
            /\ now[i] \in Dom /\ Rowed(now[i]) /\ DomainSettled(i)
            /\ HeadLater(now[i]) /\ now[i].id # 0
            /\ \A j \in 1..now[i].nlwp :
                  RowSettled(i, j) /\ RowLater(now[i].threads[j])
  BY ShownSettled
<1>2. Len(now) \in Nat /\ Len(pre) \in Nat
  BY <1>1 DEF TypeOK, SamplerTypeOK
<1>3. PICK i \in 1..Len(now) :
        \/ r = DomReading(now, i)
        \/ \E j \in 1..now[i].nlwp :
              now[i].threads[j].pid # NoTid /\ r = RowReading(now, i, j)
  BY ReadingsAre
<1>4. /\ Entry(now, i) \in Nat
      /\ \A k \in 1..Len(pre) :
            Entry(pre, k) = 1 <=> DomainFromId(pre[k].id, pre, k)
  BY <1>2, FirstEntry
<1>5. /\ now[i].id \in Nat /\ now[i].life \in Nat /\ now[i].utime \in Nat
      /\ now[i].dutime \in Nat /\ now[i].nlwp \in Nat
  BY <1>1 DEF Dom, Ids
<1>6. CASE r = DomReading(now, i)
  <2>1. /\ r.guest = now[i].id /\ r.tid = NoTid /\ r.life = now[i].life
        /\ r.count = now[i].utime /\ r.delta = now[i].dutime
        /\ r \in M!Reading
    BY <1>4, <1>5, <1>6 DEF DomReading, M!Reading
  <2>2. ASSUME NEW k \in 1..Len(pre), DomainFromId(now[i].id, pre, k)
        PROVE  DomReading(pre, k) \in before
                    /\ M!Grown(r, DomReading(pre, k))
    <3> DEFINE o == DomReading(pre, k)
    <3>1. /\ o.guest = pre[k].id /\ o.entry = Entry(pre, k) /\ o.tid = NoTid
          /\ o.life = pre[k].life /\ o.count = pre[k].utime
          /\ o.delta = pre[k].dutime
      BY DEF DomReading
    <3>2. o \in Readings(pre)
      BY ReadingsAre
    <3>3. pre[k].id = now[i].id /\ Entry(pre, k) = 1
      BY <1>4, <2>2 DEF DomainFromId
    <3>4. now[i].life # 0 /\ now[i].life = pre[k].life =>
            now[i].utime >= pre[k].utime
      <4>1. pre[k].utime \in Nat
        BY <1>1 DEF Dom
      <4> QED BY <1>1, <1>5, <4>1 DEF HeadLater, HeadAfter
    <3>5. now[i].dutime = Delta(now[i].utime, pre[k].utime, pre[k].dutime)
      BY <1>1, <2>2 DEF DomainSettled
    <3> HIDE DEF o
    <3>6. o \in before
      BY <2>1, <3>1, <3>2, <3>3
    <3>7. M!Grown(r, o)
      BY <2>1, <3>1, <3>4, <3>5 DEF M!Grown, Delta
    <3> QED BY <3>6, <3>7 DEF o
  <2>3. ASSUME NEW o \in before
        PROVE  \E k \in 1..Len(pre) : DomainFromId(now[i].id, pre, k)
    <3>1. PICK k \in 1..Len(pre) :
            \/ o = DomReading(pre, k)
            \/ \E j \in 1..pre[k].nlwp : o = RowReading(pre, k, j)
      BY ReadingsAre
    <3>2. o.guest = pre[k].id /\ o.entry = Entry(pre, k)
      BY <3>1 DEF DomReading, RowReading
    <3> QED BY <1>4, <2>1, <3>2
  <2>4. CASE before = {}
    <3>1. \A k \in 1..Len(pre) : ~ DomainFromId(now[i].id, pre, k)
      BY <2>2, <2>4
    <3> QED BY <1>1, <2>1, <2>4, <3>1 DEF DomainSettled
  <2> QED BY <2>1, <2>2, <2>3, <2>4
<1>7. ASSUME NEW j \in 1..now[i].nlwp, now[i].threads[j].pid # NoTid,
             r = RowReading(now, i, j)
      PROVE  /\ r \in M!Reading
             /\ IF before = {} THEN r.delta = 0
                               ELSE \E o \in before : M!Grown(r, o)
  <2> DEFINE row == now[i].threads[j]
  <2>0. /\ row \in Row /\ row.pid \in Tids /\ row.life \in Nat
        /\ row.utime \in Nat /\ row.dutime \in Nat
    <3>1. row \in Row
      BY <1>1, RowsTyped DEF Rowed
    <3> QED BY SMTT(30), <1>7, <3>1 DEF Row, Pids, Ids
  <2>1. /\ r.guest = now[i].id /\ r.tid = row.pid /\ r.life = row.life
        /\ r.count = row.utime /\ r.delta = row.dutime
        /\ r \in M!Reading
    BY <1>4, <1>5, <1>7, <2>0 DEF RowReading, M!Reading
  <2>2. ASSUME NEW k \in 1..Len(pre), NEW l \in 1..pre[k].nlwp,
               Finds(i, j, k, l)
        PROVE  RowReading(pre, k, l) \in before
                    /\ M!Grown(r, RowReading(pre, k, l))
    <3> DEFINE o == RowReading(pre, k, l)
               old == pre[k].threads[l]
    <3>0. /\ DomainFromId(now[i].id, pre, k) /\ old.pid = row.pid
          /\ old \in Row
      BY <1>1, <2>2, RowsTyped DEF Finds, ThreadFromPid, Rowed
    <3>1. /\ o.guest = pre[k].id /\ o.entry = Entry(pre, k)
          /\ o.tid = old.pid /\ o.life = old.life /\ o.count = old.utime
          /\ o.delta = old.dutime
      BY DEF RowReading
    <3>2. o \in Readings(pre)
      BY <1>7, <3>0, ReadingsAre
    <3>3. pre[k].id = now[i].id /\ Entry(pre, k) = 1
      BY <1>4, <3>0 DEF DomainFromId
    <3>4. row.life # 0 /\ row.life = old.life => row.utime >= old.utime
      <4>1. old.utime \in Nat
        BY <3>0 DEF Row
      <4>2. RowAfter(row, old)
        BY <1>1 DEF RowLater, Rowed
      <4> QED BY <2>0, <4>1, <4>2 DEF RowAfter
    <3>5. row.dutime = Delta(row.utime, old.utime, old.dutime)
      BY <1>1, <2>2 DEF RowSettled, Against
    <3> HIDE DEF o, old, row
    <3>6. o \in before
      BY <2>1, <3>0, <3>1, <3>2, <3>3
    <3>7. M!Grown(r, o)
      BY <2>1, <3>1, <3>4, <3>5 DEF M!Grown, Delta
    <3> QED BY <3>6, <3>7 DEF o
  <2>3. ASSUME NEW o \in before
        PROVE  \E k \in 1..Len(pre) : \E l \in 1..pre[k].nlwp :
                  Finds(i, j, k, l)
    <3>1. PICK k \in 1..Len(pre) :
            \/ o = DomReading(pre, k)
            \/ \E l \in 1..pre[k].nlwp : o = RowReading(pre, k, l)
      BY ReadingsAre
    <3>2. o.guest = pre[k].id /\ o.entry = Entry(pre, k)
      BY <3>1 DEF DomReading, RowReading
    <3>3. o.tid # NoTid
      BY <1>7, <2>1
    <3>4. PICK l \in 1..pre[k].nlwp : o = RowReading(pre, k, l)
      BY <3>1, <3>3 DEF DomReading
    <3>5. pre[k].threads[l].pid = row.pid
      BY <2>1, <3>4 DEF RowReading
    <3>6. pre[k].nlwp \in Nat /\ Rowed(pre[k])
      BY <1>1 DEF Dom
    <3>7. \A m \in 1..(l - 1) : m \in 1..pre[k].nlwp /\ m # l
      BY <3>6
    <3>8. ThreadFromPid(row.pid, pre[k], l)
      <4>1. \A m \in 1..pre[k].nlwp :
              pre[k].threads[m].pid = pre[k].threads[l].pid => m = l
        BY <1>7, <3>5, <3>6 DEF Rowed
      <4>2. \A m \in 1..(l - 1) : pre[k].threads[m].pid # row.pid
        BY <3>5, <3>7, <4>1
      <4>3. l <= pre[k].nlwp
        BY <3>6
      <4> QED BY <3>5, <4>2, <4>3 DEF ThreadFromPid
    <3>9. pre[k].id = now[i].id /\ Entry(pre, k) = 1
      BY <2>1, <3>2
    <3>10. DomainFromId(now[i].id, pre, k)
      BY <1>4, <3>9
    <3> QED BY <3>8, <3>10 DEF Finds
  <2>4. CASE before = {}
    <3>1. \A k \in 1..Len(pre) : \A l \in 1..pre[k].nlwp :
            ~ Finds(i, j, k, l)
      BY <2>2, <2>4
    <3> QED BY <1>1, <2>1, <2>4, <3>1 DEF RowSettled
  <2> HIDE DEF row
  <2>5. CASE before # {}
    <3> HIDE DEF before
    <3> QED BY <2>1, <2>2, <2>3, <2>5
  <2> QED BY <2>1, <2>4, <2>5
<1> QED BY <1>3, <1>6, <1>7

LEMMA MeterStep ==
    ASSUME MeterInv, [Next]_vars
    PROVE  M!Sample \/ UNCHANGED Readings(OnScreen)
<1>0. Readings(<<>>) = {}
  <2>1. \A x : x \notin Readings(<<>>)
    BY ReadingsAre
  <2> QED BY <2>1
<1>1. CASE pc' = "idle" /\ now' = <<>>
  <2>1. Readings(OnScreen)' = {}
    BY <1>0, <1>1 DEF OnScreen, Shown
  <2> QED BY <2>1 DEF M!Sample
<1>2. CASE Return
  <2>1. /\ LoopDone /\ OnScreen = pre /\ Readings(OnScreen)' = Readings(now)
    BY <1>2 DEF Return, LoopDone, OnScreen, Shown
  <2>2. Readings(now) \subseteq M!Reading
    BY <2>1, SampleMeasured
  <2>3. \A r \in Readings(now) : M!Measured(r)
    BY <2>1, SampleMeasured DEF M!Measured, M!Before
  <2> QED BY <2>1, <2>2, <2>3 DEF M!Sample
<1>3. CASE OnScreen' = OnScreen
  BY <1>3
<1>4. CASE SamplerNext
  <2>1. RefreshSteps
    BY <1>4 DEF SamplerNext
  <2>2. CASE VcpuListFails \/ RunDirFails
    BY <1>1, <2>2 DEF VcpuListFails, RunDirFails, Rotate, tables, MeterInv,
                      RowsInv, GuestInv, Scan
  <2>3. CASE ReadVcpuList
    <3>1. OnScreen' = OnScreen
      BY <2>3 DEF ReadVcpuList, Rotate, OnScreen, Shown
    <3> QED BY <1>3, <3>1
  <2>4. CASE \/ OpenRunDir \/ CloseRunDir \/ DomainSteps
             \/ SkipNewDomain \/ RefreshDomain \/ SkipNewThread
             \/ RefreshThread \/ EndThreads
    <3>1. pc # "idle" /\ pc' # "idle" /\ pre' = pre
      BY <2>4 DEF OpenRunDir, CloseRunDir, DomainSteps, AddDomain,
         SkipPidFile, ReadDomainStat, DomainStatFails, OpenTaskDir,
         TaskDirFails, ListTasks, ReadVcpu, ReadThread, LoseThread, NextTask,
         EndTasks, DropDomain, SkipNewDomain, RefreshDomain, SkipNewThread,
         RefreshThread, AtThread, EndThreads, deltaFrame, tables
    <3>2. OnScreen' = OnScreen
      BY <3>1 DEF OnScreen, Shown
    <3> QED BY <1>3, <3>2
  <2> QED BY <1>2, <2>1, <2>2, <2>3, <2>4 DEF RefreshSteps, DeltaSteps
<1>5. CASE HostMoves \/ UNCHANGED vars
  <2>1. OnScreen' = OnScreen
    BY <1>5 DEF HostMoves, vars, samplerVars, OnScreen, Shown
  <2> QED BY <1>3, <2>1
<1> QED BY <1>4, <1>5 DEF Next

\* Every refresh, with all its reads, its failures and the host's moves
\* between them, is one step of the meter or shows nothing new: a sample says
\* of every process and thread in it what was read, and against the right
\* reading of the last sample, or zero (refresh_domains and all it calls).
THEOREM SamplingIsMeter == Spec => ImplementsMeter
<1>1. Init => M!Init
  <2> SUFFICES ASSUME Init PROVE Readings(OnScreen) = {}
    BY DEF M!Init
  <2>1. OnScreen = <<>>
    BY DEF Init, SamplerInit, OnScreen, Shown
  <2>2. \A x : x \notin Readings(<<>>)
    BY ReadingsAre
  <2> QED BY <2>1, <2>2
<1>2. MeterInv /\ [Next]_vars => [M!Sample]_(Readings(OnScreen))
  BY MeterStep
<1> QED BY <1>1, <1>2, MeterInvInductive, PTL DEF Spec, ImplementsMeter, M!Spec
-----------------------------------------------------------------------------
(***************************************************************************)
(* No thread is missing.  nlwp was read before the directory was opened,   *)
(* and threads start and end all the while; but the threads that were      *)
(* there at the stat come first in the directory, and are never more than  *)
(* nlwp.                                                                   *)
(***************************************************************************)

\* Thread t of the guest that d shows has to have a row.
Expected(d, t) ==
    /\ Alive(t)
    /\ gid[owner[t]] = d.id /\ d.life = d.id
    /\ leader[owner[t]] = d.pid
    /\ life[t] <= d.since

HasRow(d, t) ==
    \E j \in 1..d.nlwp : d.threads[j].pid = t /\ d.threads[j].life = life[t]

Covered(d) == \A t \in Tids : Expected(d, t) => HasRow(d, t)

\* What has no row yet is still to come, with a slot for it.
ToCome(t) ==
    \E m \in 1..Len(tasks) : tasks[m] = t /\ slot + m - 1 <= Building.nlwp

\* The threads that the domain under construction has to show.
Wanted == {t \in Tids : Expected(Building, t)}

CoverInv ==
    /\ \A i \in 1..Len(now) : now[i].id <= starts /\ now[i].since <= starts
    /\ \A i \in Complete : Covered(now[i])
    /\ pc \in {"opentask", "list"} => Cardinality(Wanted) <= Building.nlwp
    /\ pc \in {"list", "tasks"} => \A h \in Guests :
          gid[h] = Building.id /\ leader[h] = Building.pid => dir = gid[h]
    /\ pc = "tasks" => \A t \in Wanted : HasRow(Building, t) \/ ToCome(t)

LEMMA CoverInit == Init => CoverInv
BY DEF Init, HostInit, SamplerInit, CoverInv, Complete, Filling

\* While the host leaves a thread alone, it keeps its guest.
LEMMA HostOwners ==
    ASSUME TypeOK, HostInv, HostMoves, NEW t \in Tids,
           life'[t] = life[t], life[t] # 0
    PROVE  owner'[t] = owner[t]
<1>0. HostTypeOK /\ owner[t] # NoGuest
  BY DEF TypeOK, HostInv, ThreadsAlive
<1>1. ASSUME NEW g \in Guests, NEW u \in Tids, NEW b \in BOOLEAN, Born(g, u, b)
      PROVE  owner'[t] = owner[t]
  BY <1>0, <1>1 DEF Born, HostTypeOK
<1>2. ASSUME NEW S, Die(S) PROVE owner'[t] = owner[t]
  BY <1>2 DEF Die
<1>3. FALSE \in BOOLEAN
  OBVIOUS
<1>4. ASSUME NEW g \in Guests, RemovePidFile(g) PROVE owner'[t] = owner[t]
  BY <1>4 DEF RemovePidFile
<1>5. ASSUME NEW u \in Tids, Work(u) PROVE owner'[t] = owner[t]
  BY <1>5 DEF Work
<1> QED BY <1>1, <1>2, <1>3, <1>4, <1>5
        DEF HostMoves, HostNext, HostMove, StartGuest, StartThread,
            ExitThread, ExitGuest

\* A thread that a domain has to show after a move of the host was one before.
LEMMA HostExpected ==
    ASSUME TypeOK, HostInv, HostInv', HostMoves, NEW d \in Dom, NEW t \in Tids,
           d.id <= starts, d.since <= starts, d.id # 0,
           owner'[t] # NoGuest, owner'[t] \in Guests,
           gid'[owner'[t]] = d.id, d.life = d.id,
           leader'[owner'[t]] = d.pid, life'[t] <= d.since
    PROVE  Expected(d, t) /\ life'[t] = life[t]
<1>1. /\ starts \in Nat /\ d.id \in Nat /\ d.since \in Nat
      /\ life[t] \in Nat
  BY DEF TypeOK, HostTypeOK, Dom, Ids
<1>2. life'[t] # 0
  BY DEF HostInv, ThreadsAlive
<1>3. life'[t] = life[t]
  <2>1. life'[t] # starts + 1
    BY <1>1
  <2> QED BY <1>2, <2>1, HostGrows
<1>4. owner'[t] = owner[t]
  BY <1>2, <1>3, HostOwners
<1>5. gid'[owner[t]] = gid[owner[t]] /\ leader'[owner[t]] = leader[owner[t]]
  BY <1>1, <1>4, HostIds
<1> QED BY <1>3, <1>4, <1>5 DEF Expected, Alive

LEMMA WantedFinite ==
    /\ IsFiniteSet(Wanted) /\ Cardinality(Wanted) \in Nat
    /\ \A S : S \subseteq Wanted => Cardinality(S) <= Cardinality(Wanted)
<1>1. Wanted \in SUBSET Tids
  BY DEF Wanted
<1>2. IsFiniteSet(Wanted)
  BY <1>1, FS_Subset
<1> QED BY <1>2, FS_Subset, FS_CardinalityType

LEMMA HostCover ==
    ASSUME GuestInv, GuestInv', CoverInv, HostMoves
    PROVE  CoverInv'
<1>1. /\ TypeOK /\ HostInv /\ HostInv' /\ HostTypeOK /\ HostTypeOK'
      /\ now \in Seq(Dom)
  BY DEF GuestInv, SafeInv, TypeOK, SamplerTypeOK
<1>2. UNCHANGED <<pc, now, tasks, slot, dir>>
  BY DEF HostMoves, samplerVars
<1>3. /\ Complete' = Complete /\ Building' = Building
  BY <1>2 DEF Complete, Filling, Building
<1>4. starts \in Nat /\ starts' \in Nat /\ starts <= starts'
  BY <1>1, HostGrows
<1>5. \A i \in 1..Len(now) :
        /\ now[i] \in Dom /\ now[i].id \in Nat /\ now[i].since \in Nat
        /\ now[i].id <= starts /\ now[i].since <= starts
        /\ now[i].id # 0
  <2>1. \A i \in 1..Len(now) : now[i] \in Dom
    BY <1>1
  <2>2. \A d \in Dom : d.id \in Nat /\ d.since \in Nat
    BY DEF Dom, Ids
  <2>3. /\ \A i \in 1..Len(now) : Recent(now[i].id)
        /\ scanned.clock \in Nat /\ \A x \in scanned.ids : 0 < x
    BY <1>1 DEF GuestInv, Recents, Scan, TypeOK, SamplerTypeOK, Ids
  <2>4. \A x \in Nat : Recent(x) => x # 0
    BY <2>3 DEF Recent
  <2> QED BY <2>1, <2>2, <2>3, <2>4 DEF CoverInv
<1>6. ASSUME NEW i \in 1..Len(now), NEW t \in Tids, Expected(now[i], t)'
      PROVE  Expected(now[i], t) /\ life'[t] = life[t]
  <2>1. /\ owner'[t] # NoGuest /\ gid'[owner'[t]] = now[i].id
        /\ now[i].life = now[i].id /\ leader'[owner'[t]] = now[i].pid
        /\ life'[t] <= now[i].since
    BY <1>2, <1>6 DEF Expected, Alive
  <2>2. owner'[t] \in Guests
    BY <1>1, <2>1 DEF HostTypeOK
  <2> QED BY <1>1, <1>5, <2>1, <2>2, HostExpected
<1>7. ASSUME NEW i \in 1..Len(now), NEW t \in Tids, Expected(now[i], t)',
             HasRow(now[i], t)
      PROVE  HasRow(now[i], t)'
  BY <1>2, <1>6, <1>7 DEF HasRow
<1>8. \A i \in 1..Len(now') : now'[i].id <= starts' /\ now'[i].since <= starts'
  BY <1>2, <1>4, <1>5
<1>9. ASSUME NEW i \in Complete PROVE Covered(now[i])'
  <2>1. i \in 1..Len(now)
    BY <1>1 DEF Complete
  <2>2. Covered(now[i])
    BY DEF CoverInv
  <2> QED BY <1>6, <1>7, <2>1, <2>2 DEF Covered
<1>10. ASSUME pc \in {"opentask", "list", "tasks"}
       PROVE  /\ now # <<>> /\ Building \in Dom /\ Len(now) \in 1..Len(now)
              /\ now[Len(now)] = Building
              /\ \A t \in Tids : Expected(Building, t)' =>
                    Expected(Building, t) /\ life'[t] = life[t]
  <2>1. now # <<>>
    BY <1>10 DEF GuestInv, SafeInv, InBounds
  <2>2. /\ Building \in Dom /\ Len(now) \in 1..Len(now)
        /\ now[Len(now)] = Building
    BY <1>1, <2>1, LastIsBuilding
  <2>3. ASSUME NEW t \in Tids, Expected(Building, t)'
        PROVE  Expected(Building, t) /\ life'[t] = life[t]
    <3>1. PICK i \in 1..Len(now) : i = Len(now)
      BY <2>2
    <3>2. Expected(now[i], t)'
      BY <1>2, <2>3, <3>1 DEF Expected, Building
    <3>3. Expected(now[i], t) /\ life'[t] = life[t]
      BY <1>6, <3>2
    <3> QED BY <3>1, <3>3 DEF Building
  <2> QED BY <2>1, <2>2, <2>3
<1>11. ASSUME pc \in {"opentask", "list"}
       PROVE  Cardinality(Wanted') <= Building.nlwp
  <2>1. Wanted' \subseteq Wanted
    BY <1>10, <1>11 DEF Wanted
  <2>2. /\ IsFiniteSet(Wanted') /\ Cardinality(Wanted') \in Nat
        /\ Cardinality(Wanted) \in Nat
        /\ Cardinality(Wanted') <= Cardinality(Wanted)
    BY <2>1, WantedFinite, FS_Subset, FS_CardinalityType
  <2>3. Building.nlwp \in Nat
    BY <1>10, <1>11 DEF Dom
  <2> QED BY <1>11, <2>2, <2>3 DEF CoverInv
<1>12. ASSUME pc \in {"list", "tasks"}, NEW h \in Guests,
              gid'[h] = Building.id, leader'[h] = Building.pid
       PROVE  dir = gid'[h]
  <2>1. Building.id \in Nat /\ Building.id # 0 /\ Building.id <= starts
    BY <1>5, <1>10, <1>12
  <2>2. gid'[h] = gid[h] /\ leader'[h] = leader[h]
    BY <1>1, <1>4, <1>12, <2>1, HostIds
  <2> QED BY <1>12, <2>2 DEF CoverInv
<1>13. ASSUME pc = "tasks", NEW t \in Tids, Expected(Building, t)'
       PROVE  HasRow(Building, t)' \/ ToCome(t)'
  <2>1. Expected(Building, t) /\ life'[t] = life[t]
    BY <1>10, <1>13
  <2>2. HasRow(Building, t) \/ ToCome(t)
    BY <1>13, <2>1 DEF CoverInv, Wanted
  <2> QED BY <1>2, <1>3, <2>1, <2>2 DEF HasRow, ToCome
<1> QED BY <1>2, <1>3, <1>8, <1>9, <1>11, <1>12, <1>13
        DEF CoverInv, Wanted
-----------------------------------------------------------------------------
(***************************************************************************)
(* The steps of vmtop: the host stays as it is meanwhile.                  *)
(***************************************************************************)

\* Nothing is under construction, before and after.
LEMMA LoopCover ==
    ASSUME CoverInv, UNCHANGED hostVars, now' = now,
           pc \in {"idle", "rundir", "files", "deltas"},
           pc' \in {"idle", "rundir", "files", "deltas"}
    PROVE  CoverInv'
BY DEF CoverInv, hostVars, Complete, Filling, Covered, Expected, Alive, HasRow

LEMMA RotateCover ==
    ASSUME VcpuListFails \/ ReadVcpuList
    PROVE  CoverInv'
<1>1. now' = <<>> /\ pc' \in {"idle", "rundir"}
  BY DEF VcpuListFails, ReadVcpuList, Rotate
<1> QED BY <1>1 DEF CoverInv, Complete, Filling

\* Only the last domain is new: the others are covered as before.
LEMMA OthersCovered ==
    ASSUME CoverInv, UNCHANGED hostVars, NEW n \in Nat,
           \A i \in 1..n : i \in Complete /\ i \in 1..Len(now),
           \A i \in 1..n : now'[i] = now[i]
    PROVE  \A i \in 1..n :
              /\ now'[i].id <= starts' /\ now'[i].since <= starts'
              /\ Covered(now[i])'
<1> SUFFICES ASSUME NEW i \in 1..n
             PROVE  /\ now'[i].id <= starts' /\ now'[i].since <= starts'
                    /\ Covered(now[i])'
  OBVIOUS
<1>1. /\ now[i].id <= starts /\ now[i].since <= starts /\ Covered(now[i])
      /\ now'[i] = now[i]
  BY DEF CoverInv
<1>2. Covered(now[i])'
  BY <1>1 DEF Covered, Expected, Alive, HasRow, hostVars
<1> QED BY <1>1, <1>2 DEF hostVars

LEMMA AddCover ==
    ASSUME GuestInv, CoverInv, UNCHANGED hostVars,
           NEW g \in Guests, AddDomain(g)
    PROVE  CoverInv'
<1>1. pc = "files" /\ pc' = "stat"
  BY DEF AddDomain
<1>2. /\ Len(now') = Len(now) + 1 /\ Len(now) \in Nat
      /\ owner[pidfile[g]] \in Guests
      /\ \A i \in 1..Len(now) : now'[i] = now[i]
      /\ now'[Len(now')] = NewDom(pidfile[g], gid[owner[pidfile[g]]])
  BY AddStep DEF GuestInv
<1>3. Complete = 1..Len(now) /\ Complete' = 1..Len(now)
  BY <1>1, <1>2 DEF Complete, Filling
<1>4. \A i \in 1..Len(now) :
        /\ now'[i].id <= starts' /\ now'[i].since <= starts'
        /\ Covered(now[i])'
  BY <1>2, <1>3, OthersCovered
<1>5. now'[Len(now')].id <= starts' /\ now'[Len(now')].since <= starts'
  <2>1. gid[owner[pidfile[g]]] <= starts /\ 0 <= starts
    BY <1>2 DEF GuestInv, SafeInv, TypeOK, HostTypeOK, HostInv, GuestsRun
  <2>2. /\ NewDom(pidfile[g], gid[owner[pidfile[g]]]).id
              = gid[owner[pidfile[g]]]
        /\ NewDom(pidfile[g], gid[owner[pidfile[g]]]).since = 0
    BY DEF NewDom
  <2> QED BY <1>2, <2>1, <2>2 DEF hostVars
<1>6. \A i \in 1..Len(now') : i \in 1..Len(now) \/ i = Len(now')
  BY <1>2
<1> QED BY <1>1, <1>3, <1>4, <1>5, <1>6 DEF CoverInv

LEMMA DropCover ==
    ASSUME GuestInv, SlotInv, CoverInv, UNCHANGED hostVars, Filling,
           now' = Pop(now), pc' = "files"
    PROVE  CoverInv'
<1>1. now # <<>> /\ Len(now) \in Nat /\ Complete = 1..(Len(now) - 1)
  BY OthersDone
<1>2. /\ Len(now') = Len(now) - 1
      /\ \A i \in 1..Len(now') : i \in 1..Len(now) /\ now'[i] = now[i]
  BY <1>1, DropStep DEF GuestInv
<1>3. Len(now') \in Nat /\ Complete' = 1..Len(now')
  BY <1>1, <1>2, OthersDone DEF Complete, Filling
<1>4. \A i \in 1..Len(now') :
        /\ now'[i].id <= starts' /\ now'[i].since <= starts'
        /\ Covered(now[i])'
  <2>1. \A i \in 1..Len(now') : i \in Complete /\ i \in 1..Len(now)
    BY <1>1, <1>2
  <2> QED BY <1>2, <1>3, <2>1, OthersCovered
<1> QED BY <1>3, <1>4 DEF CoverInv

\* A step that fills the domain under construction.
LEMMA FillCover ==
    ASSUME GuestInv, SlotInv, CoverInv, UNCHANGED hostVars, Filling,
           OthersStay, pc' \in {"opentask", "list", "tasks", "files"},
           Building'.id = Building.id, Building'.since <= starts,
           pc' = "files" => Covered(Building)',
           pc' \in {"opentask", "list"} =>
              Cardinality(Wanted') <= Building'.nlwp,
           pc' \in {"list", "tasks"} => \A h \in Guests :
              gid[h] = Building'.id /\ leader[h] = Building'.pid =>
                  dir' = gid[h],
           pc' = "tasks" => \A t \in Wanted' :
              HasRow(Building, t)' \/ ToCome(t)'
    PROVE  CoverInv'
<1>1. /\ now # <<>> /\ Len(now) \in Nat /\ Len(now) > 0
      /\ Complete = 1..(Len(now) - 1) /\ Len(now') = Len(now)
      /\ \A i \in 1..(Len(now) - 1) : i \in 1..Len(now) /\ now'[i] = now[i]
  BY OthersDone DEF OthersStay
<1>2. now'[Len(now)] = Building' /\ now[Len(now)] = Building
  BY <1>1 DEF Building
<1>3. \A i \in 1..(Len(now) - 1) :
        /\ now'[i].id <= starts' /\ now'[i].since <= starts'
        /\ Covered(now[i])'
  <2>1. Len(now) - 1 \in Nat
    BY <1>1
  <2> QED BY <1>1, <2>1, OthersCovered
<1>4. Complete' = IF pc' = "files" THEN 1..Len(now) ELSE 1..(Len(now) - 1)
  BY <1>1 DEF Complete, Filling
<1>5. \A i \in 1..Len(now) : i = Len(now) \/ i \in 1..(Len(now) - 1)
  BY <1>1
<1>6. \A i \in 1..Len(now') : now'[i].id <= starts' /\ now'[i].since <= starts'
  <2>1. now[Len(now)].id <= starts
    BY <1>1 DEF CoverInv
  <2> QED BY <1>1, <1>2, <1>3, <1>5, <2>1 DEF hostVars
<1>7. ASSUME NEW i \in Complete' PROVE Covered(now[i])'
  <2>1. CASE i \in 1..(Len(now) - 1)
    BY <1>3, <2>1
  <2>2. CASE i \notin 1..(Len(now) - 1)
    <3>1. i = Len(now') /\ pc' = "files"
      BY <1>1, <1>4, <1>5, <2>2
    <3>2. Covered(Building)'
      BY <3>1
    <3> QED BY <3>1, <3>2 DEF Building, Covered, Expected, HasRow
  <2> QED BY <2>1, <2>2
<1> QED BY <1>6, <1>7 DEF CoverInv, hostVars

\* The threads of the process that is under construction.
LEMMA WantedThreads ==
    ASSUME GuestInv, NEW t \in Tids,
           owner[t] # NoGuest, leader[owner[t]] = Building.pid
    PROVE  /\ owner[t] \in Guests /\ owner[Building.pid] = owner[t]
           /\ Alive(Building.pid) /\ life[t] # 0 /\ gid[owner[t]] # 0
<1>1. owner[t] \in Guests
  BY DEF GuestInv, SafeInv, TypeOK, HostTypeOK
<1>2. leader[owner[t]] # NoTid /\ Building.pid \in Tids
  BY <1>1 DEF GuestInv, HostInv, ThreadsAlive, SafeInv, TypeOK, HostTypeOK
<1>3. owner[Building.pid] = owner[t]
  BY <1>1, <1>2 DEF GuestInv, HostInv, GuestsRun
<1> QED BY <1>1, <1>2, <1>3 DEF GuestInv, HostInv, ThreadsAlive, GuestsRun, Alive

LEMMA StatCover ==
    ASSUME GuestInv, SlotInv, CoverInv, UNCHANGED hostVars, ReadDomainStat
    PROVE  CoverInv'
<1>1. /\ Filling /\ pc' = "opentask" /\ SafeInv
  BY DEF ReadDomainStat, Filling, GuestInv
<1> DEFINE g == owner[Building.pid]
<1>2. /\ OthersStay /\ g \in Guests /\ Building.pid \in Tids
      /\ Building'.id = Building.id /\ Building'.pid = Building.pid
      /\ Building'.nlwp = Cardinality(Threads(g))
      /\ Building'.since = starts
  BY <1>1, StatStep
<1>3. \A t \in Wanted' : t \in Threads(g)
  <2> SUFFICES ASSUME NEW t \in Tids, Expected(Building, t)'
               PROVE  owner[t] = g
    BY DEF Wanted, Threads
  <2>1. owner[t] # NoGuest /\ leader[owner[t]] = Building.pid
    BY <1>2 DEF Expected, Alive, hostVars
  <2> QED BY <1>2, <2>1, WantedThreads
<1>4. IsFiniteSet(Threads(g)) /\ Wanted' \in SUBSET Threads(g)
  BY <1>3, FS_Subset DEF Threads
<1>5. Cardinality(Wanted') <= Building'.nlwp
  BY <1>2, <1>4, FS_Subset
<1>6. Building'.since <= starts
  BY <1>1, <1>2 DEF SafeInv, TypeOK, HostTypeOK
<1> QED BY <1>1, <1>2, <1>5, <1>6, FillCover

\* The other domains do not matter to what the last one has to show.
LEMMA SameWanted ==
    ASSUME UNCHANGED hostVars,
           Building'.id = Building.id, Building'.pid = Building.pid,
           Building'.life = Building.life, Building'.since = Building.since
    PROVE  /\ Wanted' = Wanted
           /\ \A t \in Tids : Expected(Building, t)' => Expected(Building, t)
BY DEF Wanted, Expected, Alive, hostVars

LEMMA OpenCover ==
    ASSUME GuestInv, SlotInv, CoverInv, UNCHANGED hostVars, OpenTaskDir
    PROVE  CoverInv'
<1>1. /\ Filling /\ pc = "opentask" /\ pc' = "list" /\ SafeInv
      /\ dir' = gid[owner[Building.pid]] /\ now # <<>>
  BY DEF OpenTaskDir, Filling, GuestInv, SafeInv, InBounds
<1>2. /\ OthersStay /\ Building.pid \in Tids
      /\ Building'.id = Building.id /\ Building'.pid = Building.pid
      /\ Building'.life = Building.life /\ Building'.since = Building.since
      /\ Building'.nlwp = Building.nlwp
  BY <1>1, OpenStep
<1>3. Wanted' = Wanted
  BY <1>2, SameWanted
<1>4. Cardinality(Wanted') <= Building'.nlwp
  BY <1>1, <1>2, <1>3 DEF CoverInv
<1>5. ASSUME NEW h \in Guests, leader[h] = Building'.pid PROVE dir' = gid[h]
  <2>1. leader[h] # NoTid /\ leader[h] = Building.pid
    BY <1>2, <1>5
  <2>2. owner[Building.pid] = h
    BY <2>1 DEF GuestInv, HostInv, GuestsRun
  <2> QED BY <1>1, <2>2
<1>6. Building.since <= starts
  BY <1>1, LastIsBuilding DEF CoverInv, SafeInv
<1> QED BY <1>1, <1>2, <1>4, <1>5, <1>6, FillCover
-----------------------------------------------------------------------------

\* Those that were there at the stat come first in the directory.
LEMMA ListCover ==
    ASSUME GuestInv, SlotInv, CoverInv, UNCHANGED hostVars, ListTasks
    PROVE  CoverInv'
<1> DEFINE T == {t \in Tids : Alive(t) /\ gid[owner[t]] = dir}
           n == Cardinality(T)
<1>1. /\ pc = "list" /\ pc' = "tasks" /\ Filling /\ now' = now /\ dir' = dir
      /\ slot' = slot /\ tasks' \in Listings(T)
  BY DEF ListTasks, tables, Filling
<1>2. /\ now # <<>> /\ OthersStay /\ Building' = Building
      /\ Building \in Dom /\ slot = 1 /\ Building.nlwp \in Nat
      /\ Building.since <= starts /\ Building.since \in Nat /\ starts \in Nat
  <2>1. now # <<>> /\ OthersStay /\ Building' = Building /\ slot = 1
    BY <1>1, OthersDone DEF OthersStay, Building, SlotInv
  <2>2. Building \in Dom /\ Building.since <= starts /\ starts \in Nat
    BY <2>1, LastIsBuilding DEF CoverInv, GuestInv, SafeInv, TypeOK, HostTypeOK
  <2> QED BY <2>1, <2>2 DEF Dom, Ids
<1>3. /\ Cardinality(Wanted) <= Building.nlwp
      /\ \A h \in Guests :
            gid[h] = Building.id /\ leader[h] = Building.pid => dir = gid[h]
  BY <1>1 DEF CoverInv
<1>4. Wanted' = Wanted
  BY <1>2, SameWanted
<1>5. IsFiniteSet(T) /\ n \in Nat
  BY FS_Subset, FS_CardinalityType
<1>6. /\ tasks' \in [1..n -> T]
      /\ \A i, j \in 1..n : i < j => life[tasks'[i]] < life[tasks'[j]]
  BY <1>1 DEF Listings
<1>7. \A t \in T : t \in Tids /\ life[t] \in Nat /\ owner[t] # NoGuest
                   /\ owner[t] \in Guests /\ gid[owner[t]] = dir
  BY DEF GuestInv, SafeInv, TypeOK, HostTypeOK, Alive
<1>8. ASSUME NEW t \in Wanted PROVE t \in T /\ life[t] <= Building.since
  BY <1>3, WantedThreads, <1>8 DEF Wanted, Expected, Alive
<1>9. ASSUME NEW t \in Wanted, NEW u \in T, life[u] <= life[t]
      PROVE  u \in Wanted
  <2>1. /\ t \in Tids /\ owner[t] # NoGuest
        /\ gid[owner[t]] = Building.id /\ Building.life = Building.id
        /\ leader[owner[t]] = Building.pid
    BY DEF Wanted, Expected, Alive
  <2>2. owner[t] \in Guests /\ gid[owner[t]] # 0
    BY <2>1, WantedThreads
  <2>3. gid[owner[u]] = gid[owner[t]]
    BY <1>7, <1>8
  <2>4. owner[u] = owner[t]
    BY <1>7, <2>2, <2>3 DEF GuestInv, HostInv, Unique
  <2>5. life[u] <= Building.since
    BY <1>2, <1>7, <1>8, <1>9
  <2>6. u \in Tids /\ owner[u] # NoGuest
    BY <1>7
  <2> QED BY <2>1, <2>4, <2>5, <2>6 DEF Wanted, Expected, Alive
<1> HIDE DEF T, n
<1>10. Len(tasks') = n
  BY <1>5, <1>6
<1>11. tasks' \in Injection(1..n, T)
  <2> SUFFICES ASSUME NEW i \in 1..n, NEW j \in 1..n, i # j
               PROVE  tasks'[i] # tasks'[j]
    BY <1>6 DEF Injection, IsInjective
  <2>1. /\ life[tasks'[i]] \in Nat /\ life[tasks'[j]] \in Nat
        /\ i < j \/ j < i
    BY <1>5, <1>6, <1>7
  <2>2. life[tasks'[i]] # life[tasks'[j]]
    BY <1>6, <2>1
  <2> QED BY <2>2
<1>12. tasks' \in Surjection(1..n, T)
  <2>1. Cardinality(1..n) = n /\ 0 \in Int /\ 1 \in Int
    BY <1>5, FS_Interval
  <2> QED BY <1>5, <1>11, <2>1, FS_Injection DEF n
<1>13. ASSUME NEW t \in Wanted PROVE ToCome(t)'
  <2>1. PICK m \in 1..n : tasks'[m] = t
    BY <1>8, <1>12 DEF Surjection
  <2>2. \A i \in 1..m : i \in 1..n /\ tasks'[i] \in T
                        /\ life[tasks'[i]] <= life[t]
    <3> SUFFICES ASSUME NEW i \in 1..m
                 PROVE  i \in 1..n /\ tasks'[i] \in T
                        /\ life[tasks'[i]] <= life[t]
      OBVIOUS
    <3>1. i \in 1..n /\ (i < m \/ i = m)
      BY <1>5
    <3>2. tasks'[i] \in T /\ life[tasks'[i]] \in Nat /\ life[t] \in Nat
      BY <1>6, <1>7, <1>8, <3>1
    <3>3. life[tasks'[i]] <= life[t]
      BY <1>6, <2>1, <3>1, <3>2
    <3> QED BY <3>1, <3>2, <3>3
  <2>3. \A i \in 1..m : tasks'[i] \in Wanted
    BY <1>9, <2>2
  <2> DEFINE f == [i \in 1..m |-> tasks'[i]]
  <2>4. f \in Injection(1..m, Wanted)
    <3>1. \A i, j \in 1..m : tasks'[i] = tasks'[j] => i = j
      BY <1>11, <2>2 DEF Injection, IsInjective
    <3> QED BY <2>3, <3>1 DEF Injection, IsInjective
  <2> HIDE DEF f
  <2>5. m \in Nat /\ m >= 1 /\ Cardinality(1..m) = m
    <3>1. m \in Int /\ 1 \in Int /\ m >= 1
      BY <1>5
    <3>2. Cardinality(1..m) = IF 1 > m THEN 0 ELSE m - 1 + 1
      BY <3>1, FS_Interval
    <3> QED BY <3>1, <3>2
  <2>6. m <= Cardinality(Wanted) /\ Cardinality(Wanted) \in Nat
    BY <2>4, <2>5, WantedFinite, FS_Injection
  <2>7. slot' + m - 1 <= Building'.nlwp
    BY <1>1, <1>2, <1>3, <2>5, <2>6
  <2> QED BY <1>10, <2>1, <2>7 DEF ToCome
<1> QED BY <1>1, <1>2, <1>3, <1>4, <1>13, FillCover

\* A thread that is there has its stat: it gets the slot that waits for it.
LEMMA TaskCover ==
    ASSUME GuestInv, SlotInv, CoverInv, UNCHANGED hostVars,
           ReadVcpu \/ ReadThread \/ LoseThread
    PROVE  CoverInv'
<1> DEFINE u == Head(tasks)
<1>1. /\ pc = "tasks" /\ pc' = "tasks" /\ Filling /\ SafeInv /\ dir' = dir
      /\ tasks # <<>> /\ tasks' = Tail(tasks) /\ tasks \in Seq(Tids)
      /\ slot <= Building.nlwp
  BY DEF ReadVcpu, ReadThread, LoseThread, NextTask, Filling, GuestInv,
         SafeInv, TypeOK, SamplerTypeOK
<1>2. PICK row \in Row, cpus \in Nat :
        /\ NextTask /\ u \in Tids
        /\ Build([Building EXCEPT !.threads[slot] = row,
                                  !.smp_vcpus = cpus])
        /\ \/ /\ TaskStat(u) /\ slot' = slot + 1 /\ row = VcpuRow(u)
           \/ /\ TaskStat(u) /\ slot' = slot + 1 /\ row = ThreadRow(u)
           \/ /\ LoseThread /\ slot' = slot /\ row = LostRow(u)
  BY <1>1, TaskStep
<1>3. /\ OthersStay /\ slot \in 1..Building.nlwp
      /\ Building'.id = Building.id /\ Building'.pid = Building.pid
      /\ Building'.life = Building.life /\ Building'.since = Building.since
      /\ Building'.nlwp = Building.nlwp
      /\ \A j \in 1..Building.nlwp : Building'.threads[j] =
            IF j = slot THEN row ELSE Building.threads[j]
  BY <1>1, <1>2, SlotStep
<1>4. Wanted' = Wanted /\ life' = life
  BY <1>3, SameWanted DEF hostVars
<1>5. /\ now # <<>> /\ Building \in Dom /\ Building.nlwp \in Nat
      /\ Building.since <= starts
  <2>1. now # <<>>
    BY <1>1, OthersDone
  <2> QED BY <1>1, <2>1, LastIsBuilding DEF CoverInv, SafeInv, Dom
<1>6. Building.threads[slot].life = 0
  BY <1>1, <1>3 DEF SlotInv, Slots
<1>7. /\ Len(tasks) \in Nat /\ Len(tasks) > 0 /\ u = tasks[1]
      /\ Len(tasks') = Len(tasks) - 1
      /\ \A i \in 1..Len(tasks') : tasks'[i] = tasks[i + 1]
  BY <1>1
<1> HIDE DEF u
<1>8. ASSUME NEW t \in Wanted PROVE HasRow(Building, t)' \/ ToCome(t)'
  <2>1. t \in Tids /\ life[t] # 0 /\ TaskStat(t)
    BY WantedThreads DEF Wanted, Expected, Alive, TaskStat
  <2>2. CASE HasRow(Building, t)
    BY <1>3, <1>4, <1>6, <2>1, <2>2 DEF HasRow
  <2>3. CASE ToCome(t)
    <3>1. PICK m \in 1..Len(tasks) :
            tasks[m] = t /\ slot + m - 1 <= Building.nlwp
      BY <2>3 DEF ToCome
    <3>2. CASE m = 1
      <4>1. t = u
        BY <1>7, <3>1, <3>2
      <4>2. ~ LoseThread
        BY <2>1, <4>1 DEF LoseThread, u
      <4>3. row.pid = t /\ row.life = life[t]
        BY <1>2, <4>1, <4>2, WrittenRows
      <4>4. Building'.threads[slot] = row
        BY <1>3
      <4> QED BY <1>3, <1>4, <4>3, <4>4 DEF HasRow
    <3>3. CASE m # 1
      <4>1. m - 1 \in 1..Len(tasks') /\ tasks'[m - 1] = t
        BY <1>7, <3>1, <3>3
      <4>2. slot' + (m - 1) - 1 <= Building'.nlwp
        BY SMTT(30), <1>2, <1>3, <1>5, <1>7, <3>1
      <4> QED BY <4>1, <4>2 DEF ToCome
    <3> QED BY <3>2, <3>3
  <2> QED BY <1>1, <2>2, <2>3 DEF CoverInv
<1>9. \A h \in Guests :
        gid[h] = Building'.id /\ leader[h] = Building'.pid => dir' = gid[h]
  BY <1>1, <1>3 DEF CoverInv
<1> QED BY <1>1, <1>3, <1>4, <1>5, <1>8, <1>9, FillCover

LEMMA EndCover ==
    ASSUME GuestInv, SlotInv, CoverInv, UNCHANGED hostVars, EndTasks
    PROVE  CoverInv'
<1>1. /\ pc = "tasks" /\ pc' = "files" /\ Filling /\ SafeInv
      /\ tasks = <<>> \/ slot > Building.nlwp
  BY DEF EndTasks, Filling, GuestInv
<1>2. CASE now' = Pop(now)
  BY <1>1, <1>2, DropCover
<1>3. CASE now' # Pop(now)
  <2>1. /\ OthersStay /\ now # <<>>
        /\ Building'.id = Building.id /\ Building'.pid = Building.pid
        /\ Building'.life = Building.life /\ Building'.since = Building.since
        /\ Building'.nlwp = Building.nlwp
        /\ Building'.threads = Building.threads
    BY <1>1, <1>3, EndStep DEF OthersStay
  <2>2. Building \in Dom /\ Building.since <= starts
    BY <1>1, <2>1, LastIsBuilding DEF CoverInv, SafeInv
  <2>3. \A t : ~ ToCome(t)
    <3>1. Building.nlwp \in Nat /\ slot \in Nat /\ tasks \in Seq(Tids)
      BY <1>1, <2>2 DEF Dom, SafeInv, TypeOK, SamplerTypeOK
    <3> QED BY <1>1, <3>1 DEF ToCome
  <2>4. ASSUME NEW t \in Tids, Expected(Building, t)'
        PROVE  HasRow(Building, t)'
    <3>1. t \in Wanted
      BY <2>1, <2>4, SameWanted DEF Wanted
    <3>2. HasRow(Building, t)
      BY <1>1, <2>3, <3>1 DEF CoverInv
    <3> QED BY <2>1, <3>2 DEF HasRow, hostVars
  <2>5. Covered(Building)'
    BY <2>4 DEF Covered
  <2> QED BY <1>1, <2>1, <2>2, <2>5, FillCover
<1> QED BY <1>2, <1>3

\* The deltas leave the rows with their threads.
LEMMA DeltaCover ==
    ASSUME GuestInv, SlotInv, CoverInv, UNCHANGED hostVars,
           RefreshDomain \/ RefreshThread
    PROVE  CoverInv'
<1>1. /\ pc = "deltas" /\ pc' = "deltas" /\ SafeInv /\ di \in 1..Len(now)
  BY DEF RefreshDomain, RefreshThread, AtThread, deltaFrame, GuestInv
<1>2. SameDomains(now') /\ \A i \in 1..Len(now) : i # di => now'[i] = now[i]
  BY <1>1, DomainDeltaStep, ThreadDeltaStep
<1>3. ASSUME NEW j \in 1..now[di].nlwp
      PROVE  /\ now'[di].threads[j].pid = now[di].threads[j].pid
             /\ now'[di].threads[j].life = now[di].threads[j].life
  <2>1. CASE RefreshDomain
    BY <1>1, <2>1, DomainDeltaStep
  <2>2. CASE RefreshThread
    <3>1. PICK k \in 1..Len(pre) : \E l \in 1..pre[k].nlwp :
            /\ pre[k].threads[l] \in Row /\ now[di].threads[ti] \in Row
            /\ \A h \in 1..now[di].nlwp : now'[di].threads[h] =
                  IF h = ti
                  THEN RefreshRow(now[di].threads[ti], pre[k].threads[l])
                  ELSE now[di].threads[h]
      BY <1>1, <2>2, ThreadDeltaStep
    <3> QED BY <3>1, RefreshedRow
  <2> QED BY <2>1, <2>2
<1>4. /\ Complete = 1..Len(now) /\ Complete' = 1..Len(now)
      /\ Len(now') = Len(now)
  BY <1>1, <1>2 DEF Complete, Filling, SameDomains
<1>5. ASSUME NEW i \in 1..Len(now)
      PROVE  /\ now'[i].id <= starts' /\ now'[i].since <= starts'
             /\ Covered(now[i])'
  <2>1. /\ now[i].id <= starts /\ now[i].since <= starts /\ Covered(now[i])
    BY <1>4 DEF CoverInv
  <2>2. /\ now'[i].id = now[i].id /\ now'[i].pid = now[i].pid
        /\ now'[i].life = now[i].life /\ now'[i].since = now[i].since
        /\ now'[i].nlwp = now[i].nlwp
    BY <1>2 DEF SameDomains
  <2>3. \A j \in 1..now[i].nlwp :
          /\ now'[i].threads[j].pid = now[i].threads[j].pid
          /\ now'[i].threads[j].life = now[i].threads[j].life
    BY <1>2, <1>3
  <2>4. \A t \in Tids : Expected(now[i], t)' => Expected(now[i], t)
    BY <2>2 DEF Expected, Alive, hostVars
  <2>5. \A t \in Tids : HasRow(now[i], t) => HasRow(now[i], t)'
    BY <2>2, <2>3 DEF HasRow, hostVars
  <2> QED BY <2>1, <2>2, <2>4, <2>5 DEF Covered, hostVars
<1> QED BY <1>1, <1>4, <1>5 DEF CoverInv

LEMMA CoverKeeps ==
    ASSUME GuestInv, SlotInv, CoverInv, GuestInv', [Next]_vars
    PROVE  CoverInv'
<1>1. CASE SamplerNext
  <2>1. RefreshSteps /\ UNCHANGED hostVars
    BY <1>1 DEF SamplerNext
  <2>2. CASE \/ RunDirFails \/ OpenRunDir \/ CloseRunDir \/ Return
             \/ SkipNewDomain \/ SkipNewThread \/ EndThreads
             \/ \E g \in Guests : SkipPidFile(g)
    <3>1. /\ now' = now
          /\ pc \in {"idle", "rundir", "files", "deltas"}
          /\ pc' \in {"idle", "rundir", "files", "deltas"}
      BY <2>2 DEF RunDirFails, OpenRunDir, CloseRunDir, Return,
         SkipNewDomain, SkipNewThread, AtThread, EndThreads, SkipPidFile,
         tables, deltaFrame
    <3> QED BY <2>1, <3>1, LoopCover
  <2>3. CASE DomainStatFails \/ TaskDirFails
    <3>1. now' = Pop(now) /\ pc' = "files" /\ Filling
      BY <2>3 DEF DomainStatFails, TaskDirFails, DropDomain, Filling
    <3> QED BY <2>1, <3>1, DropCover
  <2> QED BY <2>1, <2>2, <2>3, RotateCover, AddCover, StatCover, OpenCover,
             ListCover, TaskCover, EndCover, DeltaCover
          DEF RefreshSteps, DomainSteps, DeltaSteps
<1>2. CASE HostMoves
  BY <1>2, HostCover
<1>3. CASE UNCHANGED vars
  <2>1. UNCHANGED <<owner, life, leader, gid, starts, pc, now, dir, tasks,
                    slot>>
    BY <1>3 DEF vars, hostVars, samplerVars
  <2> QED BY <2>1 DEF CoverInv, Complete, Filling, Covered, Expected, Alive,
                      HasRow, Wanted, Building, ToCome
<1> QED BY <1>1, <1>2, <1>3 DEF Next

\* Every thread that the guest's process had when its stat was read, and that
\* is still there when the sample is shown, has a row of its own: nlwp slots
\* are enough, for any number of threads that start and end meanwhile
\* (get_child_pid).
THEOREM NoThreadIsMissing == Spec => []ThreadsComplete
<1>1. Init => RowsInv /\ CoverInv
  BY RowsInvInductive, CoverInit
<1>2. RowsInv /\ CoverInv /\ [Next]_vars => (RowsInv /\ CoverInv)'
  <2> SUFFICES ASSUME RowsInv, CoverInv, [Next]_vars
               PROVE  RowsInv' /\ CoverInv'
    OBVIOUS
  <2>1. RowsInv'
    BY RowsInvInductive
  <2>2. GuestInv /\ SlotInv /\ GuestInv'
    BY <2>1 DEF RowsInv
  <2> QED BY <2>1, <2>2, CoverKeeps
<1>3. ASSUME CoverInv PROVE ThreadsComplete
  <2> SUFFICES ASSUME Shown, NEW i \in 1..Len(now), NEW t \in Tids,
                      Expected(now[i], t)
               PROVE  \E r \in Rows(now[i]) : r.pid = t /\ r.life = life[t]
    BY DEF ThreadsComplete, Expected
  <2>1. i \in Complete
    BY DEF Shown, Complete, Filling
  <2>2. HasRow(now[i], t)
    BY <1>3, <2>1 DEF CoverInv, Covered
  <2> QED BY <2>2 DEF HasRow, Rows
<1> QED BY <1>1, <1>2, <1>3, PTL DEF Spec
-----------------------------------------------------------------------------
(***************************************************************************)
(* Exits.  A row shows the line of vcpu_stat that was listed for its tid,  *)
(* and the history mark remembers what that read of vcpu_stat saw.  All of *)
(* it holds while vcpu_list has a place for every vCPU: one that did not   *)
(* fit has no line, and shows all of its exits when it gets one.           *)
(***************************************************************************)
\* The host runs no more vCPUs than vcpu_list has places (MAX_VCPU_NUM).
ListFits == Cardinality(VcpuThreads) <= MaxVcpus

\* mark is what vcpu_list holds.
Marked ==
    \A t \in Tids :
        /\ t \in DOMAIN vcpu_list =>
              /\ mark[t].life = vcpu_list[t].life /\ mark[t].life # 0
              /\ mark[t].work = vcpu_list[t].exits
        /\ t \notin DOMAIN vcpu_list => mark[t].life = 0
        /\ mark[t].life <= starts
        /\ mark[t].life = life[t] /\ life[t] # 0 => mark[t].work <= work[t]

\* A row's type is that of the thread it was read from.
RowTypeKnown(r) ==
    /\ r.life <= starts
    /\ \A t \in Tids :
          life[t] = r.life /\ r.life # 0 => (r.type = "ISVCPU" <=> vcpu[t])

\* A row of now shows the line that vcpu_list holds for it.
RowMarked(r) ==
    /\ r.type = "ISVCPU" =>
          /\ r.exits = VcpuStat(r.pid).exits /\ r.vlife = VcpuStat(r.pid).life
          /\ r.grew = IF mark[r.pid].life = r.life THEN mark[r.pid].grew ELSE 0
    /\ RowTypeKnown(r)

\* What a vCPU grew since a row of the last sample was read.
GrewSince(o) ==
    \A t \in Tids :
        /\ mark[t].life = o.life /\ o.life # 0
        /\ o.vlife = o.life \/ o.vlife = 0
        => mark[t].grew = mark[t].work - o.exits /\ o.exits <= mark[t].work

NowMarked ==
    \A i \in 1..Len(now) : \A j \in 1..Len(now[i].threads) :
        RowMarked(now[i].threads[j])

PreGrew ==
    pc # "idle" \/ now # <<>> =>
        \A k \in 1..Len(pre) : \A l \in 1..Len(pre[k].threads) :
            GrewSince(pre[k].threads[l])

ExitInv == Marked /\ NowMarked /\ PreGrew

LEMMA ExitInit == Init => ExitInv
<1> SUFFICES ASSUME Init PROVE ExitInv
  OBVIOUS
<1>1. now = <<>> /\ pre = <<>> /\ pc = "idle" /\ DOMAIN vcpu_list = {}
  BY DEF Init, SamplerInit
<1>2. Marked
  BY <1>1 DEF Init, HostInit, SamplerInit, Marked
<1> QED BY <1>1, <1>2 DEF ExitInv, NowMarked, PreGrew

\* While the host leaves a thread alone, it stays a vCPU or a worker.
LEMMA HostVcpus ==
    ASSUME TypeOK, HostInv, HostMoves, NEW t \in Tids,
           life'[t] = life[t], life[t] # 0
    PROVE  vcpu'[t] = vcpu[t]
<1>0. HostTypeOK /\ owner[t] # NoGuest
  BY DEF TypeOK, HostInv, ThreadsAlive
<1>1. ASSUME NEW g \in Guests, NEW u \in Tids, NEW b \in BOOLEAN, Born(g, u, b)
      PROVE  vcpu'[t] = vcpu[t]
  BY <1>0, <1>1 DEF Born, HostTypeOK
<1>2. ASSUME NEW S, Die(S) PROVE vcpu'[t] = vcpu[t]
  BY <1>0, <1>2 DEF Die
<1>3. FALSE \in BOOLEAN
  OBVIOUS
<1>4. ASSUME NEW g \in Guests, RemovePidFile(g) PROVE vcpu'[t] = vcpu[t]
  BY <1>4 DEF RemovePidFile
<1>5. ASSUME NEW u \in Tids, Work(u) PROVE vcpu'[t] = vcpu[t]
  BY <1>5 DEF Work
<1> QED BY <1>1, <1>2, <1>3, <1>4, <1>5
        DEF HostMoves, HostNext, HostMove, StartGuest, StartThread,
            ExitThread, ExitGuest

LEMMA HostExit ==
    ASSUME GuestInv, ExitInv, HostMoves
    PROVE  ExitInv'
<1>1. /\ TypeOK /\ HostInv /\ HostTypeOK
      /\ UNCHANGED <<pc, now, pre, vcpu_list, mark>>
  BY DEF GuestInv, SafeInv, TypeOK, HostMoves, samplerVars
<1>2. /\ starts \in Nat /\ starts' \in Nat /\ starts <= starts'
      /\ \A t \in Tids :
            \/ life'[t] = life[t] /\ work'[t] >= work[t]
            \/ life'[t] = 0
            \/ life'[t] = starts + 1
  BY <1>1, HostGrows
<1>3. \A t \in Tids : life'[t] = life[t] /\ life[t] # 0 => vcpu'[t] = vcpu[t]
  BY <1>1, HostVcpus
<1>4. Marked'
  <2> SUFFICES ASSUME NEW t \in Tids
               PROVE  /\ mark[t].life <= starts'
                      /\ mark[t].life = life'[t] /\ life'[t] # 0 =>
                            mark[t].work <= work'[t]
    BY <1>1 DEF ExitInv, Marked
  <2>1. /\ mark[t].life \in Nat /\ mark[t].life <= starts
        /\ mark[t].work \in Nat /\ work[t] \in Nat
        /\ mark[t].life = life[t] /\ life[t] # 0 => mark[t].work <= work[t]
    BY SMTT(30), <1>1 DEF ExitInv, Marked, TypeOK, HostTypeOK, SamplerTypeOK,
       Ids
  <2>2. work'[t] \in Int
    <3>1. TypeOK'
      BY SafeStep DEF GuestInv, SafeInv, Next
    <3> QED BY <3>1 DEF TypeOK, HostTypeOK
  <2> QED BY <1>2, <2>1, <2>2
<1>5. \A i \in 1..Len(now) : \A j \in 1..Len(now[i].threads) :
        now[i].threads[j].life \in Nat
  <2>1. now \in Seq(Dom)
    BY <1>1 DEF TypeOK, SamplerTypeOK
  <2>4. \A i \in 1..Len(now) : now[i] \in Dom
    BY <2>1
  <2>2. \A i \in 1..Len(now) : now[i].threads \in Seq(Row)
    BY <2>4 DEF Dom
  <2>3. \A i \in 1..Len(now) : \A j \in 1..Len(now[i].threads) :
          now[i].threads[j] \in Row
    BY <2>2
  <2> QED BY <2>3 DEF Row, Ids
<1>6. ASSUME NEW r, r.life \in Nat, RowTypeKnown(r)
      PROVE  /\ r.life <= starts'
             /\ \A t \in Tids : life'[t] = r.life /\ r.life # 0 =>
                    (r.type = "ISVCPU" <=> vcpu'[t])
  BY <1>2, <1>3, <1>6 DEF RowTypeKnown
<1>7. NowMarked'
  <2> SUFFICES ASSUME NEW i \in 1..Len(now), NEW j \in 1..Len(now[i].threads)
               PROVE  RowMarked(now[i].threads[j])'
    BY <1>1 DEF NowMarked
  <2>1. RowMarked(now[i].threads[j])
    BY DEF ExitInv, NowMarked
  <2>2. RowTypeKnown(now[i].threads[j])'
    BY <1>1, <1>5, <1>6, <2>1 DEF RowMarked, RowTypeKnown
  <2> QED BY <1>1, <2>1, <2>2 DEF RowMarked, VcpuStat
<1>8. PreGrew'
  BY <1>1 DEF ExitInv, PreGrew, GrewSince
<1> QED BY <1>4, <1>7, <1>8 DEF ExitInv

\* vcpu_list has a line for every vCPU.
LEMMA AllListed ==
    ASSUME ListFits, TypeOK
    PROVE  Oldest(MaxVcpus, VcpuThreads) = VcpuThreads
<1> SUFFICES ASSUME NEW t \in VcpuThreads
             PROVE  Cardinality({u \in VcpuThreads : life[u] < life[t]})
                        < MaxVcpus
  BY DEF Oldest
<1> DEFINE older == {u \in VcpuThreads : life[u] < life[t]}
<1>1. t \notin older /\ older \subseteq VcpuThreads
  <2>1. life[t] \in Nat
    BY DEF VcpuThreads, TypeOK, HostTypeOK
  <2> QED BY <2>1
<1> HIDE DEF older
<1>2. IsFiniteSet(VcpuThreads) /\ Cardinality(VcpuThreads) \in Nat
  BY FS_Subset, FS_CardinalityType DEF VcpuThreads
<1>3. /\ IsFiniteSet(VcpuThreads \ {t})
      /\ Cardinality(VcpuThreads \ {t}) = Cardinality(VcpuThreads) - 1
  BY <1>2, FS_RemoveElement
<1>4. Cardinality(older) <= Cardinality(VcpuThreads \ {t})
      /\ Cardinality(older) \in Nat
  <2>1. older \in SUBSET (VcpuThreads \ {t})
    BY <1>1
  <2> QED BY <1>3, <2>1, FS_Subset, FS_CardinalityType
<1>5. Cardinality(older) < MaxVcpus
  BY <1>2, <1>3, <1>4 DEF ListFits
<1> QED BY <1>5 DEF older

\* The next read of vcpu_stat: what a vCPU grew since then is known for every
\* row of the sample that becomes the last one.
LEMMA ListExit ==
    ASSUME ListFits, GuestInv, KnownInv, ExitInv, UNCHANGED hostVars,
           ReadVcpuList
    PROVE  ExitInv'
<1>0. TypeOK /\ HostInv /\ HostTypeOK
  BY DEF GuestInv, SafeInv, TypeOK
<1>1. /\ pc = "idle" /\ pre' = now /\ now' = <<>>
      /\ vcpu_list' = [t \in VcpuThreads |->
                          [exits |-> work[t], life |-> life[t]]]
      /\ mark' = [t \in Tids |->
                     IF t \in VcpuThreads
                     THEN [life |-> life[t], work |-> work[t],
                           grew |-> Grown(t)]
                     ELSE [life |-> 0, work |-> 0, grew |-> 0]]
  BY <1>0, AllListed DEF ReadVcpuList, Rotate
<1>2. \A t \in VcpuThreads : t \in Tids /\ vcpu[t] /\ life[t] # 0
  BY <1>0 DEF VcpuThreads, HostInv, ThreadsAlive
<1>3. \A t \in Tids : life[t] <= starts /\ 0 <= starts /\ work[t] \in Nat
  BY <1>0 DEF HostInv, ThreadsAlive, HostTypeOK
<1>4. /\ DOMAIN vcpu_list' = VcpuThreads
      /\ \A t \in VcpuThreads :
            /\ vcpu_list'[t].life = life[t] /\ vcpu_list'[t].exits = work[t]
            /\ mark'[t].life = life[t] /\ mark'[t].work = work[t]
            /\ mark'[t].grew = Grown(t)
      /\ \A t \in Tids : t \notin VcpuThreads => mark'[t].life = 0
  BY <1>1, <1>2
<1>5. Marked'
  BY <1>2, <1>3, <1>4 DEF Marked, hostVars
<1>6. NowMarked'
  BY <1>1 DEF NowMarked
<1>7. ASSUME NEW o, RowMarked(o), RowKnown(o), NEW t \in Tids,
             mark'[t].life = o.life, o.life # 0,
             o.vlife = o.life \/ o.vlife = 0
      PROVE  mark'[t].grew = mark'[t].work - o.exits /\ o.exits <= mark'[t].work
  <2>1. t \in VcpuThreads /\ life[t] = o.life
    BY <1>4, <1>7
  <2>2. o.pid = t
    BY <1>7, <2>1 DEF RowKnown
  <2>3. o.type = "ISVCPU"
    BY <1>2, <1>7, <2>1 DEF RowMarked, RowTypeKnown
  <2>4. o.exits = VcpuStat(t).exits /\ o.vlife = VcpuStat(t).life
    BY <1>7, <2>2, <2>3 DEF RowMarked
  <2>5. CASE t \in DOMAIN vcpu_list
    <3>1. /\ o.exits = vcpu_list[t].exits /\ o.vlife = vcpu_list[t].life
          /\ mark[t].life = vcpu_list[t].life /\ mark[t].life # 0
          /\ mark[t].work = vcpu_list[t].exits
      BY <2>4, <2>5 DEF VcpuStat, ExitInv, Marked
    <3>2. mark[t].life = life[t] /\ mark[t].work = o.exits
      BY <1>7, <2>1, <3>1
    <3>3. o.exits <= work[t]
      BY <1>2, <2>1, <3>2 DEF ExitInv, Marked
    <3>4. Grown(t) = work[t] - o.exits
      BY <3>2 DEF Grown
    <3> QED BY <1>4, <2>1, <3>3, <3>4
  <2>6. CASE t \notin DOMAIN vcpu_list
    <3>1. o.exits = 0 /\ mark[t].life # life[t]
      BY <1>2, <2>1, <2>4, <2>6 DEF VcpuStat, ExitInv, Marked
    <3>2. Grown(t) = work[t] - 0 /\ o.exits <= work[t]
      BY <1>3, <3>1 DEF Grown
    <3> QED BY <1>4, <2>1, <3>1, <3>2
  <2> QED BY <2>5, <2>6
<1>8. ASSUME NEW k \in 1..Len(now), NEW l \in 1..Len(now[k].threads)
      PROVE  RowMarked(now[k].threads[l]) /\ RowKnown(now[k].threads[l])
  BY DEF ExitInv, NowMarked, KnownInv, DomLater, RowLater
<1>9. PreGrew'
  <2> SUFFICES ASSUME NEW k \in 1..Len(now), NEW l \in 1..Len(now[k].threads)
               PROVE  GrewSince(pre[k].threads[l])'
    BY <1>1 DEF PreGrew
  <2> QED BY <1>1, <1>7, <1>8 DEF GrewSince
<1> QED BY <1>5, <1>6, <1>9 DEF ExitInv

\* The read failed: there is nothing to show, and nothing to compare.
LEMMA FailExit ==
    ASSUME ExitInv, UNCHANGED hostVars, VcpuListFails
    PROVE  ExitInv'
<1>1. pc' = "idle" /\ now' = <<>> /\ UNCHANGED <<vcpu_list, mark>>
  BY DEF VcpuListFails, Rotate
<1>2. Marked'
  BY <1>1 DEF ExitInv, Marked, hostVars
<1> QED BY <1>1, <1>2 DEF ExitInv, NowMarked, PreGrew

\* The rest of the refresh changes no row of the last sample.
LEMMA ExitKept ==
    ASSUME ExitInv, UNCHANGED hostVars, UNCHANGED <<pre, vcpu_list, mark>>,
           pc = "idle" /\ now = <<>> => pc' = "idle" /\ now' = <<>>,
           \A i \in 1..Len(now') : \A j \in 1..Len(now'[i].threads) :
              RowMarked(now'[i].threads[j])
    PROVE  ExitInv'
<1>1. Marked'
  BY DEF ExitInv, Marked, hostVars
<1>2. UNCHANGED <<starts, life, vcpu>>
  BY DEF hostVars
<1>3. NowMarked'
  <2> SUFFICES ASSUME NEW i \in 1..Len(now'),
                      NEW j \in 1..Len(now'[i].threads)
               PROVE  RowMarked(now[i].threads[j])'
    BY DEF NowMarked
  <2>1. RowMarked(now'[i].threads[j])
    OBVIOUS
  <2> QED BY <1>2, <2>1 DEF RowMarked, RowTypeKnown, VcpuStat
<1>4. PreGrew'
  BY DEF ExitInv, PreGrew, GrewSince
<1> QED BY <1>1, <1>3, <1>4 DEF ExitInv

LEMMA SameExit ==
    ASSUME ExitInv, UNCHANGED hostVars, UNCHANGED <<pre, vcpu_list, mark>>,
           pc = "idle" /\ now = <<>> => pc' = "idle" /\ now' = <<>>, now' = now
    PROVE  ExitInv'
BY ExitKept DEF ExitInv, NowMarked

\* The rows that are written.
LEMMA RowsMarked ==
    ASSUME GuestInv
    PROVE  /\ RowMarked(ZeroRow) /\ \A t : RowMarked(LostRow(t))
           /\ \A t \in Tids : vcpu[t] => RowMarked(VcpuRow(t))
           /\ \A t \in Tids : ~ vcpu[t] => RowMarked(ThreadRow(t))
<1>1. 0 <= starts /\ \A t \in Tids : life[t] <= starts
  BY DEF GuestInv, SafeInv, TypeOK, HostTypeOK, HostInv, ThreadsAlive
<1>2. RowMarked(ZeroRow)
  BY <1>1, WrittenRows DEF RowMarked, RowTypeKnown
<1>3. \A t : RowMarked(LostRow(t))
  BY <1>1, WrittenRows DEF RowMarked, RowTypeKnown
<1>4. \A t, u \in Tids : life[u] = life[t] /\ life[t] # 0 => u = t
  BY DEF GuestInv, HostInv, Unique
<1>5. ASSUME NEW t \in Tids, vcpu[t] PROVE RowMarked(VcpuRow(t))
  <2>1. /\ VcpuRow(t).pid = t /\ VcpuRow(t).life = life[t]
        /\ VcpuRow(t).type = "ISVCPU"
        /\ VcpuRow(t).exits = VcpuStat(t).exits
        /\ VcpuRow(t).vlife = VcpuStat(t).life
        /\ VcpuRow(t).grew =
              IF mark[t].life = life[t] THEN mark[t].grew ELSE 0
    BY DEF VcpuRow
  <2>2. RowTypeKnown(VcpuRow(t))
    BY <1>1, <1>4, <1>5, <2>1 DEF RowTypeKnown
  <2> QED BY <2>1, <2>2 DEF RowMarked
<1>6. ASSUME NEW t \in Tids, ~ vcpu[t] PROVE RowMarked(ThreadRow(t))
  <2>1. ThreadRow(t).life = life[t] /\ ThreadRow(t).type = "ISTHREAD"
    BY WrittenRows
  <2>2. RowTypeKnown(ThreadRow(t))
    BY <1>1, <1>4, <1>6, <2>1 DEF RowTypeKnown
  <2> QED BY <2>1, <2>2 DEF RowMarked
<1> QED BY <1>2, <1>3, <1>5, <1>6

LEMMA DropExit ==
    ASSUME GuestInv, SlotInv, ExitInv, UNCHANGED hostVars, Filling,
           UNCHANGED <<pre, vcpu_list, mark>>, now' = Pop(now)
    PROVE  ExitInv'
<1>1. now # <<>> /\ SafeInv /\ pc # "idle"
  BY OthersDone DEF GuestInv, Filling
<1>2. \A i \in 1..Len(now') : i \in 1..Len(now) /\ now'[i] = now[i]
  BY <1>1, DropStep
<1> QED BY <1>1, <1>2, ExitKept DEF ExitInv, NowMarked

\* The domain under construction changes, the others do not.
LEMMA FillExit ==
    ASSUME GuestInv, ExitInv, UNCHANGED hostVars, OthersStay, pc # "idle",
           UNCHANGED <<pre, vcpu_list, mark>>,
           \A j \in 1..Len(Building'.threads) : RowMarked(Building'.threads[j])
    PROVE  ExitInv'
<1>1. \A i \in 1..Len(now') :
        i = Len(now) \/ (i \in 1..Len(now) /\ i # Len(now))
  BY DEF OthersStay
<1>2. now'[Len(now)] = Building'
  BY DEF OthersStay, Building
<1>3. \A i \in 1..Len(now') : \A j \in 1..Len(now'[i].threads) :
        RowMarked(now'[i].threads[j])
  BY <1>1, <1>2 DEF ExitInv, NowMarked, OthersStay
<1> QED BY <1>3, ExitKept

LEMMA AddExit ==
    ASSUME GuestInv, ExitInv, UNCHANGED hostVars,
           NEW g \in Guests, AddDomain(g)
    PROVE  ExitInv'
<1>1. /\ Len(now') = Len(now) + 1 /\ Len(now) \in Nat
      /\ UNCHANGED <<pre, vcpu_list, mark>> /\ pc # "idle"
      /\ \A i \in 1..Len(now) : now'[i] = now[i]
      /\ now'[Len(now')] = NewDom(pidfile[g], gid[owner[pidfile[g]]])
  BY AddStep DEF GuestInv, AddDomain
<1>2. now'[Len(now')].threads = <<>>
  BY <1>1 DEF NewDom
<1>3. \A i \in 1..Len(now') : i \in 1..Len(now) \/ i = Len(now')
  BY <1>1
<1>4. \A i \in 1..Len(now') : \A j \in 1..Len(now'[i].threads) :
        RowMarked(now'[i].threads[j])
  BY <1>1, <1>2, <1>3 DEF ExitInv, NowMarked
<1> QED BY <1>1, <1>4, ExitKept

LEMMA BuildExit ==
    ASSUME GuestInv, SlotInv, ExitInv, UNCHANGED hostVars,
           \/ ReadDomainStat \/ DomainStatFails
           \/ OpenTaskDir \/ TaskDirFails \/ EndTasks
    PROVE  ExitInv'
<1>1. /\ Filling /\ SafeInv /\ TypeOK /\ UNCHANGED <<pre, vcpu_list, mark>>
      /\ pc # "idle"
  BY DEF ReadDomainStat, DomainStatFails, OpenTaskDir, TaskDirFails,
         EndTasks, DropDomain, Filling, GuestInv, SafeInv
<1>2. now # <<>>
  BY <1>1, OthersDone
<1>3. \A j \in 1..Len(Building.threads) : RowMarked(Building.threads[j])
  BY <1>1, <1>2, LastIsBuilding DEF ExitInv, NowMarked, Building
<1>4. CASE ReadDomainStat
  <2>1. OthersStay /\ Building'.threads = Building.threads
    BY <1>1, <1>4, StatStep
  <2> QED BY <1>1, <1>3, <2>1, FillExit
<1>5. CASE DomainStatFails \/ TaskDirFails
  <2>1. now' = Pop(now)
    BY <1>5 DEF DomainStatFails, TaskDirFails, DropDomain
  <2> QED BY <1>1, <2>1, DropExit
<1>6. CASE OpenTaskDir
  <2>1. /\ OthersStay /\ Building.nlwp \in Nat
        /\ Building'.threads = [k \in 1..Building.nlwp |-> ZeroRow]
    BY <1>1, <1>6, OpenStep
  <2>2. \A j \in 1..Len(Building'.threads) : Building'.threads[j] = ZeroRow
    BY <2>1
  <2> QED BY <1>1, <2>1, <2>2, RowsMarked, FillExit
<1>7. CASE EndTasks
  <2>1. CASE now' = Pop(now)
    BY <1>1, <2>1, DropExit
  <2>2. CASE now' # Pop(now)
    <3>1. OthersStay /\ Building'.threads = Building.threads
      BY <1>1, <1>7, <2>2, EndStep
    <3> QED BY <1>1, <1>3, <3>1, FillExit
  <2> QED BY <2>1, <2>2
<1> QED BY <1>4, <1>5, <1>6, <1>7

LEMMA TaskExit ==
    ASSUME GuestInv, SlotInv, ExitInv, UNCHANGED hostVars,
           ReadVcpu \/ ReadThread \/ LoseThread
    PROVE  ExitInv'
<1> DEFINE t == Head(tasks)
           n == Building.nlwp
<1>0. SafeInv /\ TypeOK
  BY DEF GuestInv, SafeInv
<1>1. PICK row \in Row, cpus \in Nat :
        /\ NextTask /\ t \in Tids
        /\ Build([Building EXCEPT !.threads[slot] = row,
                                  !.smp_vcpus = cpus])
        /\ \/ ReadVcpu /\ row = VcpuRow(t)
           \/ ReadThread /\ row = ThreadRow(t)
           \/ row = LostRow(t)
  BY <1>0, TaskStep
<1>2. /\ OthersStay
      /\ Len(Building.threads) = n /\ Len(Building'.threads) = n
      /\ \A j \in 1..n : Building'.threads[j] =
                  IF j = slot THEN row ELSE Building.threads[j]
  BY <1>0, <1>1, SlotStep
<1>3. Filling /\ UNCHANGED <<pre, vcpu_list, mark>> /\ pc # "idle"
  BY <1>1 DEF NextTask, Filling
<1>4. now # <<>>
  BY <1>3, OthersDone
<1>5. \A j \in 1..Len(Building.threads) : RowMarked(Building.threads[j])
  BY <1>0, <1>4, LastIsBuilding DEF ExitInv, NowMarked, Building
<1>6. RowMarked(row)
  <2>1. /\ ReadVcpu => vcpu[t]
        /\ ReadThread => ~ vcpu[t]
    BY DEF ReadVcpu, ReadThread
  <2> QED BY <1>1, <2>1, RowsMarked
<1> HIDE DEF n
<1>7. \A j \in 1..Len(Building'.threads) : RowMarked(Building'.threads[j])
  BY <1>2, <1>5, <1>6
<1> QED BY <1>2, <1>3, <1>7, FillExit

LEMMA DeltaExit ==
    ASSUME GuestInv, ExitInv, UNCHANGED hostVars,
           RefreshDomain \/ RefreshThread
    PROVE  ExitInv'
<1>1. /\ SafeInv /\ UNCHANGED <<pre, vcpu_list, mark>> /\ di \in 1..Len(now)
      /\ pc # "idle"
  BY DEF RefreshDomain, RefreshThread, AtThread, deltaFrame, GuestInv
<1>2. /\ Len(now') = Len(now)
      /\ \A i \in 1..Len(now) : i # di => now'[i] = now[i]
  BY <1>1, DomainDeltaStep, ThreadDeltaStep DEF SameDomains
<1>3. \A j \in 1..Len(now'[di].threads) : RowMarked(now'[di].threads[j])
  <2>1. CASE RefreshDomain
    <3>1. now'[di].threads = now[di].threads
      BY <1>1, <2>1, DomainDeltaStep
    <3> QED BY <1>1, <3>1 DEF ExitInv, NowMarked
  <2>2. CASE RefreshThread
    <3>1. PICK old \in Row :
            /\ ti \in 1..now[di].nlwp /\ now[di].threads[ti] \in Row
            /\ Len(now[di].threads) = now[di].nlwp
            /\ Len(now'[di].threads) = now[di].nlwp
            /\ \A j \in 1..now[di].nlwp : now'[di].threads[j] =
                  IF j = ti THEN RefreshRow(now[di].threads[ti], old)
                            ELSE now[di].threads[j]
      BY <1>1, <2>2, ThreadDeltaStep
    <3>2. \A j \in 1..now[di].nlwp :
            /\ now'[di].threads[j].pid = now[di].threads[j].pid
            /\ now'[di].threads[j].life = now[di].threads[j].life
            /\ now'[di].threads[j].type = now[di].threads[j].type
            /\ now'[di].threads[j].exits = now[di].threads[j].exits
            /\ now'[di].threads[j].vlife = now[di].threads[j].vlife
            /\ now'[di].threads[j].grew = now[di].threads[j].grew
      BY SMTT(30), <3>1, RefreshedRow
    <3>3. \A j \in 1..now[di].nlwp : RowMarked(now[di].threads[j])
      BY <1>1, <3>1 DEF ExitInv, NowMarked
    <3>4. ASSUME NEW r, NEW s, RowMarked(s), r.pid = s.pid, r.life = s.life,
                 r.type = s.type, r.exits = s.exits, r.vlife = s.vlife,
                 r.grew = s.grew
          PROVE  RowMarked(r)
      BY <3>4 DEF RowMarked, RowTypeKnown
    <3>5. \A j \in 1..now[di].nlwp : RowMarked(now'[di].threads[j])
      BY <3>2, <3>3, <3>4
    <3> QED BY <3>1, <3>5
  <2> QED BY <2>1, <2>2
<1>4. \A i \in 1..Len(now') : \A j \in 1..Len(now'[i].threads) :
        RowMarked(now'[i].threads[j])
  BY <1>2, <1>3 DEF ExitInv, NowMarked
<1> QED BY <1>1, <1>4, ExitKept

LEMMA ExitKeeps ==
    ASSUME ListFits, GuestInv, SlotInv, KnownInv, ExitInv, [Next]_vars
    PROVE  ExitInv'
<1>1. CASE SamplerNext
  <2>1. RefreshSteps /\ UNCHANGED hostVars
    BY <1>1 DEF SamplerNext
  <2>2. CASE \/ CloseRunDir \/ ListTasks
             \/ SkipNewDomain \/ SkipNewThread \/ EndThreads
             \/ \E g \in Guests : SkipPidFile(g)
    <3>1. now' = now /\ UNCHANGED <<pre, vcpu_list, mark>> /\ pc # "idle"
      BY <2>2 DEF OpenRunDir, CloseRunDir, ListTasks, tables, SkipNewDomain,
         SkipNewThread, AtThread, EndThreads, deltaFrame, SkipPidFile
    <3> QED BY <2>1, <3>1, SameExit
  <2>3. CASE RunDirFails \/ OpenRunDir \/ Return
    <3>1. now' = now /\ UNCHANGED <<pre, vcpu_list, mark>> /\ pc # "idle"
      BY <2>3 DEF RunDirFails, OpenRunDir, Return, tables, deltaFrame
    <3> QED BY <2>1, <3>1, SameExit
  <2> QED BY <2>1, <2>2, <2>3, FailExit, ListExit, AddExit, BuildExit,
             TaskExit, DeltaExit
          DEF RefreshSteps, DomainSteps, DeltaSteps
<1>2. CASE UNCHANGED vars
  <2>1. /\ UNCHANGED hostVars /\ UNCHANGED <<pre, vcpu_list, mark>>
        /\ pc' = pc /\ now' = now
    BY <1>2 DEF vars, samplerVars
  <2> QED BY <2>1, SameExit
<1> QED BY <1>1, <1>2, HostExit DEF Next

\* The exit delta of a vCPU row is the exits that this very vCPU made between
\* the two latest reads of vcpu_stat, whatever became of its guest, its tid
\* and the other vCPUs meanwhile; provided that vcpu_list has a place for
\* every vCPU of the host (get_vcpu_list, refresh_delta_vcpu_stat, DELTA_FUN).
THEOREM ExitsAreExact == Spec /\ []ListFits => []ExitsExact
<1>1. Init => MeterInv /\ ExitInv
  BY MeterInvInductive, ExitInit
<1>2. MeterInv /\ ExitInv /\ ListFits /\ [Next]_vars => (MeterInv /\ ExitInv)'
  <2> SUFFICES ASSUME MeterInv, ExitInv, ListFits, [Next]_vars
               PROVE  MeterInv' /\ ExitInv'
    OBVIOUS
  <2>1. GuestInv /\ SlotInv /\ KnownInv
    BY DEF MeterInv, RowsInv
  <2> QED BY <2>1, MeterInvInductive, ExitKeeps
<1>3. ASSUME MeterInv, ExitInv PROVE ExitsExact
  <2> SUFFICES ASSUME Shown, NEW i \in 1..Len(now), NEW r \in Rows(now[i]),
                      NEW o, SameThread(now[i], r, o), r.type = "ISVCPU",
                      r.vlife = r.life, o.vlife = o.life \/ o.vlife = 0
               PROVE  r.dexits = r.grew
    BY DEF ExitsExact
  <2>1. /\ now[i] \in Dom /\ Rowed(now[i])
        /\ \A j \in 1..now[i].nlwp :
              RowSettled(i, j) /\ RowLater(now[i].threads[j])
        /\ \A k \in 1..Len(pre) : pre[k] \in Dom /\ Rowed(pre[k])
    BY <1>3, ShownSettled DEF Shown, LoopDone
  <2>2. PICK j \in 1..now[i].nlwp : r = now[i].threads[j]
    BY DEF Rows
  <2>3. PICK k \in 1..Len(pre) :
          /\ DomainFromId(now[i].id, pre, k)
          /\ o \in Rows(pre[k]) /\ o.life = r.life /\ r.life # 0
    BY DEF SameThread, Baseline
  <2>4. PICK l \in 1..pre[k].nlwp : o = pre[k].threads[l]
    BY <2>3 DEF Rows
  <2>5. r \in Row /\ o \in Row
    BY <2>1, <2>2, <2>4, RowsTyped DEF Rowed
  <2>6. r.pid = o.pid
    <3>1. l \in 1..Len(pre[k].threads)
      BY <2>1, <2>4 DEF Rowed
    <3>2. RowLater(r)
      BY <2>1, <2>2
    <3>3. RowAfter(r, o)
      BY <2>4, <3>1, <3>2 DEF RowLater
    <3> QED BY <2>3, <3>3 DEF RowAfter
  <2>7. o.pid # NoTid
    <3>1. o.pid = NoTid => o = ZeroRow
      BY <2>1, <2>4 DEF Rowed
    <3> QED BY <2>3, <3>1, WrittenRows
  <2>8. r.dexits = Delta(r.exits, o.exits, o.dexits)
    <3>1. pre[k].nlwp \in Nat
      BY <2>1 DEF Dom
    <3>2. \A m \in 1..(l - 1) : m \in 1..pre[k].nlwp /\ m # l
      BY <3>1
    <3>3. \A m \in 1..(l - 1) : pre[k].threads[m].pid # o.pid
      BY <2>1, <2>4, <2>7, <3>2 DEF Rowed
    <3>4. l <= pre[k].nlwp
      BY <3>1
    <3>5. ThreadFromPid(r.pid, pre[k], l)
      BY <2>4, <2>6, <3>3, <3>4 DEF ThreadFromPid
    <3>6. Finds(i, j, k, l)
      BY <2>2, <2>3, <3>5 DEF Finds
    <3>7. RowSettled(i, j)
      BY <2>1
    <3>8. Against(r, o)
      BY <2>2, <2>4, <3>6, <3>7 DEF RowSettled
    <3> QED BY <3>8 DEF Against
  <2>9. /\ r.vlife = VcpuStat(r.pid).life /\ r.exits = VcpuStat(r.pid).exits
        /\ r.grew = IF mark[r.pid].life = r.life THEN mark[r.pid].grew ELSE 0
    <3>1. j \in 1..Len(now[i].threads)
      BY <2>1 DEF Rowed
    <3>2. RowMarked(r)
      BY <1>3, <2>2, <3>1 DEF ExitInv, NowMarked
    <3> QED BY <3>2 DEF RowMarked
  <2>10. r.pid \in Tids
    BY <2>5, <2>6, <2>7 DEF Row, Pids
  <2>11. mark[r.pid].life = r.life /\ mark[r.pid].work = r.exits
    <3>1. r.pid \in DOMAIN vcpu_list
      BY <2>3, <2>9 DEF VcpuStat
    <3> QED BY <1>3, <2>9, <2>10, <3>1 DEF VcpuStat, ExitInv, Marked
  <2>12. r.grew = r.exits - o.exits /\ o.exits <= r.exits
    <3>1. GrewSince(o)
      <4>1. now # <<>>
        BY <2>1
      <4> QED BY <1>3, <2>1, <2>4, <4>1 DEF ExitInv, PreGrew, Rowed
    <3> QED BY <2>3, <2>9, <2>10, <2>11, <3>1 DEF GrewSince
  <2>13. r.exits \in Nat /\ o.exits \in Nat
    BY <2>5 DEF Row
  <2> QED BY <2>8, <2>12, <2>13 DEF Delta
<1> QED BY <1>1, <1>2, <1>3, PTL DEF Spec
=============================================================================
