--------------------------- MODULE SamplingProofs ---------------------------
(***************************************************************************)
(* Proofs about Sampling, for every value of its constants.                *)
(***************************************************************************)
EXTENDS Sampling, TLAPS, FiniteSetTheorems, SequenceTheorems

USE HostAssumption, SamplingAssumption DEF HostAssumption, SamplingAssumption
-----------------------------------------------------------------------------
(***************************************************************************)
(* The operators of the model.                                             *)
(***************************************************************************)

\* A delta of counters is a counter (DELTA_FUN never wraps).
LEMMA DeltaType ==
    ASSUME NEW new \in Nat, NEW old \in Nat, NEW oldDelta \in Nat
    PROVE  Delta(new, old, oldDelta) \in Nat
BY DEF Delta

\* The zeroed and the lost slots are rows.
LEMMA EmptyRowType ==
    /\ ZeroRow \in Row
    /\ \A t \in Tids : LostRow(t) \in Row
<1>1. ZeroRow \in Row
  BY DEF ZeroRow, Row, Pids, Ids
<1>2. ASSUME NEW t \in Tids PROVE LostRow(t) \in Row
  BY <1>1 DEF LostRow, Row, Pids
<1> QED BY <1>1, <1>2

\* A slot that is read is a row.
LEMMA ReadRowType ==
    ASSUME TypeOK, NEW t \in Tids
    PROVE  VcpuRow(t) \in Row /\ ThreadRow(t) \in Row
<1>1. VcpuStat(t) \in [exits : Nat, life : Ids]
  BY DEF VcpuStat, TypeOK, SamplerTypeOK, Ids
<1>2. life[t] \in Ids /\ work[t] \in Nat /\ mark[t].grew \in Int
  BY DEF TypeOK, HostTypeOK, SamplerTypeOK, Ids
<1>3. VcpuRow(t) \in Row
  BY <1>1, <1>2 DEF VcpuRow, Row, Pids
<1>4. ThreadRow(t) \in Row
  BY <1>2, EmptyRowType DEF ThreadRow, Row
<1> QED BY <1>3, <1>4

\* Refreshing a row against another gives a row of the same thread.
LEMMA RefreshRowType ==
    ASSUME NEW new \in Row, NEW old \in Row
    PROVE  /\ RefreshRow(new, old) \in Row
           /\ RefreshRow(new, old).pid = new.pid
           /\ RefreshRow(new, old).type = new.type
           /\ RefreshRow(new, old).dexits \in Nat
BY DeltaType DEF RefreshRow, Row

\* Popping a list of domains leaves a list of domains.
LEMMA PopType ==
    ASSUME NEW list \in Seq(Dom)
    PROVE  /\ Pop(list) \in Seq(Dom)
           /\ list # <<>> => Len(Pop(list)) = Len(list) - 1
           /\ list = <<>> => Pop(list) = <<>>
           /\ \A i \in 1..Len(Pop(list)) :
                i \in 1..Len(list) /\ Pop(list)[i] = list[i]
<1>1. CASE list = <<>>
  BY <1>1 DEF Pop
<1>2. CASE list # <<>>
  <2>1. Len(list) \in Nat /\ Len(list) > 0
    BY <1>2
  <2>2. \A i \in 1..(Len(list) - 1) : list[i] \in Dom
    BY <2>1
  <2>3. /\ SubSeq(list, 1, Len(list) - 1) \in Seq(Dom)
        /\ Len(SubSeq(list, 1, Len(list) - 1)) = Len(list) - 1
        /\ \A i \in 1..(Len(list) - 1) :
              SubSeq(list, 1, Len(list) - 1)[i] = list[i]
    <3> DEFINE n == Len(list) - 1
    <3>1. 1 \in Int /\ n \in Int /\ \A i \in 1..n : list[i] \in Dom
      BY <2>1, <2>2
    <3> HIDE DEF n
    <3>2. /\ SubSeq(list, 1, n) \in Seq(Dom)
          /\ Len(SubSeq(list, 1, n)) = IF 1 <= n THEN n - 1 + 1 ELSE 0
          /\ \A i \in 1..(n - 1 + 1) : SubSeq(list, 1, n)[i] = list[1 + i - 1]
      BY <3>1, SubSeqProperties
    <3>3. n \in Nat
      BY <2>1 DEF n
    <3>4. Len(SubSeq(list, 1, n)) = n
      BY <3>2, <3>3
    <3>5. ASSUME NEW i \in 1..n PROVE SubSeq(list, 1, n)[i] = list[i]
      <4>1. i \in 1..(n - 1 + 1) /\ 1 + i - 1 = i
        BY <3>3
      <4> QED BY <3>2, <4>1
    <3> QED BY <3>2, <3>4, <3>5 DEF n
  <2> QED BY <1>2, <2>1, <2>3 DEF Pop
<1> QED BY <1>1, <1>2

\* The domain under construction is the last of now.
LEMMA BuildingType ==
    ASSUME TypeOK, now # <<>>
    PROVE  /\ Len(now) \in Nat /\ Len(now) > 0
           /\ Building \in Dom
BY DEF TypeOK, SamplerTypeOK, Building

\* Build replaces the last domain of now and no other.
LEMMA BuildType ==
    ASSUME TypeOK, now # <<>>, NEW dom \in Dom, Build(dom)
    PROVE  /\ now' \in Seq(Dom)
           /\ Len(now') = Len(now) /\ now' # <<>>
           /\ Building' = dom
           /\ \A i \in 1..Len(now) : i # Len(now) => now'[i] = now[i]
<1>1. Len(now) \in 1..Len(now) /\ now \in Seq(Dom)
  BY BuildingType DEF TypeOK, SamplerTypeOK
<1>2. now' = [now EXCEPT ![Len(now)] = dom]
  BY DEF Build
<1>3. /\ now' \in Seq(Dom)
      /\ Len(now') = Len(now)
      /\ \A j \in 1..Len(now) :
            now'[j] = IF j = Len(now) THEN dom ELSE now[j]
  BY <1>1, <1>2, ExceptSeq
<1>4. now' # <<>>
  BY <1>1, <1>3
<1> QED BY <1>1, <1>3, <1>4 DEF Building
-----------------------------------------------------------------------------
(***************************************************************************)
(* The types and the array bounds are inductive together: an index is in   *)
(* bounds only if the array has its length, and a slot that is written is  *)
(* a row only if its index is in bounds.                                   *)
(***************************************************************************)
SafeInv == TypeOK /\ InBounds

LEMMA SafeInit == Init => SafeInv
<1> SUFFICES ASSUME Init PROVE SafeInv
  OBVIOUS
<1> USE DEF Init, HostInit, SamplerInit
<1>1. HostTypeOK
  BY DEF HostTypeOK
<1>2. SamplerTypeOK
  <2>1. DOMAIN vcpu_list = {} /\ vcpu_list \in [{} -> [exits : Nat, life : Ids]]
    OBVIOUS
  <2> QED BY <2>1 DEF SamplerTypeOK, Pcs, Ids
<1>3. InBounds
  BY DEF InBounds
<1> QED BY <1>1, <1>2, <1>3 DEF SafeInv, TypeOK

\* Threads that end leave the tables of the threads well typed.
LEMMA DieType ==
    ASSUME HostTypeOK, NEW S, Die(S)
    PROVE  /\ owner' \in [Tids -> Guests \cup {NoGuest}]
           /\ life' \in [Tids -> 0..MaxMoves]
           /\ work' \in [Tids -> Nat]
           /\ vcpu' \in [Tids -> BOOLEAN]
<1> USE DEF HostTypeOK, Die
<1>1. owner' \in [Tids -> Guests \cup {NoGuest}]
  OBVIOUS
<1>2. life' \in [Tids -> 0..MaxMoves]
  OBVIOUS
<1>3. work' \in [Tids -> Nat]
  OBVIOUS
<1>4. vcpu' \in [Tids -> BOOLEAN]
  OBVIOUS
<1> QED BY <1>1, <1>2, <1>3, <1>4

\* The host keeps its own types, and vmtop's variables as they are.
LEMMA HostSafe == SafeInv /\ HostMoves => SafeInv'
<1> SUFFICES ASSUME SafeInv, HostMoves PROVE SafeInv'
  OBVIOUS
<1> USE DEF SafeInv, TypeOK
<1>1. HostTypeOK'
  <2>1. /\ moves' \in 0..MaxMoves /\ moves' = moves + 1
        /\ starts + 1 \in 0..moves' /\ starts \in 0..moves'
        /\ starts + 1 \in 0..MaxMoves
    BY DEF HostMoves, HostNext, HostTypeOK
  <2> USE <2>1
  <2>2. ASSUME NEW g \in Guests, NEW t \in Tids, StartGuest(g, t)
        PROVE  HostTypeOK'
    BY <2>2 DEF StartGuest, Born, HostTypeOK
  <2>3. ASSUME NEW g \in Guests, NEW t \in Tids, NEW isVcpu \in BOOLEAN,
               StartThread(g, t, isVcpu)
        PROVE  HostTypeOK'
    BY <2>3 DEF StartThread, Born, HostTypeOK
  <2>4. ASSUME NEW g \in Guests, ExitGuest(g)
        PROVE  HostTypeOK'
    BY <2>4, DieType DEF ExitGuest, HostTypeOK
  <2>5. ASSUME NEW g \in Guests, RemovePidFile(g)
        PROVE  HostTypeOK'
    BY <2>5 DEF RemovePidFile, HostTypeOK
  <2>6. ASSUME NEW t \in Tids, ExitThread(t)
        PROVE  HostTypeOK'
    BY <2>6, DieType DEF ExitThread, HostTypeOK
  <2>7. ASSUME NEW t \in Tids, Work(t)
        PROVE  HostTypeOK'
    <3>1. owner[t] \in Guests
      BY <2>7 DEF Work, HostTypeOK
    <3> QED BY <2>7, <3>1 DEF Work, HostTypeOK
  <2> QED BY <2>2, <2>3, <2>4, <2>5, <2>6, <2>7
          DEF HostMoves, HostNext, HostMove
<1>2. SamplerTypeOK' /\ InBounds'
  BY DEF HostMoves, samplerVars, SamplerTypeOK, InBounds, Building
<1> QED BY <1>1, <1>2

\* The types and bounds that a step of vmtop has to keep.
SamplerSafe == SamplerTypeOK /\ InBounds

\* A refresh begins: now's arrays become pre's, and all are allocated.
LEMMA RotateSafe == SafeInv /\ (VcpuListFails \/ ReadVcpuList) => SamplerSafe'
<1> SUFFICES ASSUME SafeInv, VcpuListFails \/ ReadVcpuList
             PROVE  SamplerSafe'
  OBVIOUS
<1> USE DEF SafeInv, TypeOK, SamplerTypeOK
<1>1. pc = "idle" /\ pre' = now /\ now' = <<>>
  BY DEF VcpuListFails, ReadVcpuList, Rotate
<1>2. InBounds'
  <2>1. \A k \in 1..Len(pre') : Len(pre'[k].threads) = pre'[k].nlwp
    BY <1>1 DEF InBounds
  <2>2. pc' \in {"idle", "rundir"}
    BY <1>1 DEF VcpuListFails, ReadVcpuList
  <2> QED BY <1>1, <2>1, <2>2 DEF InBounds
<1>3. CASE VcpuListFails
  <2>1. SamplerTypeOK'
    BY <1>1, <1>3 DEF VcpuListFails, readVars, loopVars, Ids
  <2> QED BY <1>2, <2>1 DEF SamplerSafe
<1>4. CASE ReadVcpuList
  <2>1. \A t \in Tids : life[t] \in Ids /\ work[t] \in Nat
    BY DEF HostTypeOK, Ids
  <2>2. Oldest(MaxVcpus, VcpuThreads) \subseteq Tids
    BY DEF Oldest, VcpuThreads
  <2>3. /\ DOMAIN vcpu_list' \subseteq Tids
        /\ vcpu_list' \in [DOMAIN vcpu_list' -> [exits : Nat, life : Ids]]
    BY <1>4, <2>1, <2>2 DEF ReadVcpuList
  <2>4. mark' \in [Tids -> [life : Ids, work : Nat, grew : Int]]
    BY SMTT(30), <1>4, <2>1 DEF ReadVcpuList, Grown, Ids
  <2>5. scanned' \in [ids : SUBSET Ids, clock : Ids]
    BY <1>4 DEF ReadVcpuList, Ids
  <2>6. SamplerTypeOK'
    BY <1>1, <1>4, <2>3, <2>4, <2>5
    DEF ReadVcpuList, readVars, loopVars, Pcs
  <2> QED BY <1>2, <2>6 DEF SamplerSafe
<1> QED BY <1>3, <1>4

\* Opening and closing the directory of the pid files touches no domain.
LEMMA RunDirSafe ==
    SafeInv /\ (RunDirFails \/ OpenRunDir \/ CloseRunDir) => SamplerSafe'
<1> SUFFICES ASSUME SafeInv, RunDirFails \/ OpenRunDir \/ CloseRunDir
             PROVE  SamplerSafe'
  OBVIOUS
<1> USE DEF SafeInv, TypeOK, SamplerTypeOK
<1>1. /\ pc \in {"rundir", "files"} /\ pc' \in {"idle", "files", "deltas"}
      /\ now' = now /\ pre' = pre
  BY DEF RunDirFails, OpenRunDir, CloseRunDir, tables
<1>2. InBounds'
  BY <1>1 DEF InBounds
<1>3. scanned' \in [ids : SUBSET Ids, clock : Ids]
  <2>1. CASE OpenRunDir
    <3>1. starts \in Ids /\ \A g \in Guests : gid[g] \in Ids
      BY SMTT(30) DEF HostTypeOK, Ids
    <3> QED BY <2>1, <3>1 DEF OpenRunDir
  <2>2. CASE RunDirFails \/ CloseRunDir
    BY <2>2 DEF RunDirFails, CloseRunDir
  <2> QED BY <2>1, <2>2
<1>4. SamplerTypeOK'
  BY <1>1, <1>3
  DEF RunDirFails, OpenRunDir, CloseRunDir, readVars, loopVars, Pcs
<1> QED BY <1>2, <1>4 DEF SamplerSafe

\* A pid file gives a new domain, at the end of the list, or nothing.
LEMMA PidFileSafe ==
    ASSUME SafeInv, NEW g \in Guests, AddDomain(g) \/ SkipPidFile(g)
    PROVE  SamplerSafe'
<1> USE DEF SafeInv, TypeOK, SamplerTypeOK
<1>1. CASE AddDomain(g)
  <2> DEFINE dom == NewDom(pidfile[g], gid[owner[pidfile[g]]])
  <2>1. pidfile[g] \in Tids /\ owner[pidfile[g]] \in Guests
    BY <1>1 DEF AddDomain, Identified, Alive, HostTypeOK
  <2>2. gid[owner[pidfile[g]]] \in Ids
    BY <2>1 DEF HostTypeOK, Ids
  <2>3. dom \in Dom
    BY <2>1, <2>2 DEF NewDom, Dom, Pids, Ids
  <2>4. now' = Append(now, dom) /\ pc = "files" /\ pc' = "stat" /\ file' = g
    BY <1>1 DEF AddDomain
  <2> HIDE DEF dom
  <2>5. /\ now' \in Seq(Dom) /\ Len(now') = Len(now) + 1 /\ now' # <<>>
        /\ \A i \in 1..Len(now) : now'[i] = now[i]
    BY <2>3, <2>4
  <2>6. InBounds'
    <3>1. pre' = pre
      BY <1>1 DEF AddDomain
    <3>2. \A i \in 1..Len(now') :
              Len(now'[i].threads) = now'[i].nlwp \/ i = Len(now')
      BY <2>4, <2>5 DEF InBounds
    <3> QED BY <2>4, <2>5, <3>1, <3>2 DEF InBounds
  <2>7. SamplerTypeOK'
    BY <1>1, <2>4, <2>5 DEF AddDomain, loopVars, Pcs
  <2> QED BY <2>6, <2>7 DEF SamplerSafe
<1>2. CASE SkipPidFile(g)
  <2>1. pc = "files" /\ pc' = pc /\ now' = now /\ pre' = pre
    BY <1>2 DEF SkipPidFile, tables
  <2>2. InBounds'
    BY <2>1 DEF InBounds
  <2>3. SamplerTypeOK'
    BY <1>2, <2>1 DEF SkipPidFile, loopVars
  <2> QED BY <2>2, <2>3 DEF SamplerSafe
<1> QED BY <1>1, <1>2

\* A domain that fails half-way is dropped, and with it whatever of it is not
\* allocated.
LEMMA DropSafe ==
    SafeInv /\ (DomainStatFails \/ TaskDirFails) => SamplerSafe'
<1> SUFFICES ASSUME SafeInv, DomainStatFails \/ TaskDirFails
             PROVE  SamplerSafe'
  OBVIOUS
<1> USE DEF SafeInv, TypeOK, SamplerTypeOK
<1>1. pc \in {"stat", "opentask"} /\ DropDomain
  BY DEF DomainStatFails, TaskDirFails
<1>2. /\ now' = Pop(now) /\ pc' = "files" /\ pre' = pre /\ now # <<>>
  BY <1>1 DEF DropDomain, InBounds
<1>3. /\ Pop(now) \in Seq(Dom) /\ Len(Pop(now)) = Len(now) - 1
      /\ \A i \in 1..Len(Pop(now)) :
            i \in 1..Len(now) /\ Pop(now)[i] = now[i]
  BY <1>2, PopType
<1>4. Len(now) \in Nat
  OBVIOUS
<1>5. InBounds'
  <2>1. \A i \in 1..Len(now') : Len(now'[i].threads) = now'[i].nlwp
    <3> SUFFICES ASSUME NEW i \in 1..Len(now')
                 PROVE  Len(now'[i].threads) = now'[i].nlwp
      OBVIOUS
    <3>1. i \in 1..Len(now) /\ i # Len(now) /\ now'[i] = now[i]
      BY <1>2, <1>3, <1>4
    <3> QED BY <3>1 DEF InBounds
  <2> QED BY <1>2, <2>1 DEF InBounds
<1>6. SamplerTypeOK'
  BY <1>1, <1>2, <1>3 DEF DropDomain, loopVars, Pcs
<1> QED BY <1>5, <1>6 DEF SamplerSafe

\* Replacing the domain under construction keeps the bounds, if it has its
\* array or is not past opening its task directory.
LEMMA BuildSafe ==
    ASSUME SafeInv, now # <<>>, NEW dom \in Dom, Build(dom), pre' = pre,
           pc' \in {"opentask", "list", "tasks", "files"},
           Len(dom.threads) = dom.nlwp \/ pc' = "opentask",
           file' \in Guests \/ pc' = "files",
           pc' \in {"list", "tasks"} => slot' \in 1..(dom.nlwp + 1)
    PROVE  now' \in Seq(Dom) /\ InBounds'
<1> USE DEF SafeInv
<1>1. /\ now' \in Seq(Dom)
      /\ Len(now') = Len(now) /\ now' # <<>>
      /\ Building' = dom
      /\ \A i \in 1..Len(now) : i # Len(now) => now'[i] = now[i]
  BY BuildType
<1>2. now'[Len(now')] = dom
  BY <1>1 DEF Building
<1>3. \A i \in 1..Len(now') :
        \/ Len(now'[i].threads) = now'[i].nlwp
        \/ i = Len(now') /\ pc' \in {"stat", "opentask"}
  BY <1>1, <1>2 DEF InBounds
<1> QED BY <1>1, <1>3 DEF InBounds

\* The stat fills the domain's counters and says how many threads it has.
LEMMA StatSafe == SafeInv /\ ReadDomainStat => SamplerSafe'
<1> SUFFICES ASSUME SafeInv, ReadDomainStat PROVE SamplerSafe'
  OBVIOUS
<1> DEFINE g == owner[Building.pid]
           dom == [Building EXCEPT !.utime = total[g],
                                   !.nlwp = Cardinality(Threads(g)),
                                   !.life = gid[g], !.since = starts]
<1>1. /\ now # <<>> /\ TypeOK /\ Build(dom) /\ g \in Guests
      /\ pc' = "opentask" /\ pre' = pre /\ file' \in Guests
  BY DEF SafeInv, InBounds, ReadDomainStat, Alive, TypeOK, HostTypeOK, readVars
<1>2. Cardinality(Threads(g)) \in Nat
  BY FS_Subset, FS_CardinalityType DEF Threads
<1>3. total[g] \in Nat /\ gid[g] \in Ids /\ starts \in Ids
  BY <1>1 DEF TypeOK, HostTypeOK, Ids
<1>4. dom \in Dom
  BY <1>1, <1>2, <1>3, BuildingType DEF Dom
<1> HIDE DEF dom, g
<1>5. now' \in Seq(Dom) /\ InBounds'
  BY <1>1, <1>4, BuildSafe
<1>6. SamplerTypeOK'
  BY <1>1, <1>5
  DEF ReadDomainStat, TypeOK, SamplerTypeOK, readVars, loopVars, Pcs
<1> QED BY <1>5, <1>6 DEF SamplerSafe

\* The array gets the length that the stat gave.
LEMMA OpenTaskSafe == SafeInv /\ OpenTaskDir => SamplerSafe'
<1> SUFFICES ASSUME SafeInv, OpenTaskDir PROVE SamplerSafe'
  OBVIOUS
<1> DEFINE rows == [k \in 1..Building.nlwp |-> ZeroRow]
           dom == [Building EXCEPT !.threads = rows]
<1>1. /\ now # <<>> /\ TypeOK /\ Build(dom)
      /\ pc' = "list" /\ pre' = pre /\ file' \in Guests /\ slot' = 1
      /\ owner[Building.pid] \in Guests
  BY DEF SafeInv, InBounds, OpenTaskDir, Alive, TypeOK, HostTypeOK
<1>2. Building \in Dom /\ Building.nlwp \in Nat
  BY <1>1, BuildingType DEF Dom
<1>3. rows \in Seq(Row) /\ Len(rows) = Building.nlwp
  BY <1>2, EmptyRowType
<1>4. dom \in Dom /\ Len(dom.threads) = dom.nlwp /\ dom.nlwp \in Nat
  BY <1>2, <1>3 DEF Dom
<1> HIDE DEF dom, rows
<1>5. now' \in Seq(Dom) /\ InBounds'
  BY <1>1, <1>4, BuildSafe
<1>6. dir' \in Ids /\ slot' \in Nat
  BY <1>1 DEF OpenTaskDir, TypeOK, HostTypeOK, Ids
<1>7. SamplerTypeOK'
  BY <1>1, <1>5, <1>6
  DEF OpenTaskDir, TypeOK, SamplerTypeOK, loopVars, Pcs
<1> QED BY <1>5, <1>7 DEF SamplerSafe

\* What readdir returns is a sequence of thread ids.
LEMMA ListTasksSafe == SafeInv /\ ListTasks => SamplerSafe'
<1> SUFFICES ASSUME SafeInv, ListTasks PROVE SamplerSafe'
  OBVIOUS
<1> USE DEF SafeInv, TypeOK, SamplerTypeOK
<1> DEFINE T == {t \in Tids : Alive(t) /\ gid[owner[t]] = dir}
<1>1. Cardinality(T) \in Nat
  BY FS_Subset, FS_CardinalityType
<1>2. tasks' \in [1..Cardinality(T) -> T]
  BY DEF ListTasks, Listings
<1>3. tasks' \in [1..Cardinality(T) -> Tids]
  BY <1>2
<1> HIDE DEF T
<1>4. tasks' \in Seq(Tids)
  <2>1. tasks' \in UNION {[1..n -> Tids] : n \in Nat}
    BY <1>1, <1>3
  <2> QED BY <2>1, SeqDef, Zenon
<1>5. InBounds'
  BY DEF ListTasks, tables, InBounds, Building
<1>6. SamplerTypeOK'
  BY <1>4 DEF ListTasks, tables, loopVars, Pcs
<1> QED BY <1>5, <1>6 DEF SamplerSafe

\* A slot is written within the array that was allocated for it.
LEMMA SlotSafe ==
    ASSUME SafeInv, NextTask, NEW row \in Row
    PROVE  /\ now # <<>> /\ Building \in Dom
           /\ [Building.threads EXCEPT ![slot] = row] \in Seq(Row)
           /\ Len([Building.threads EXCEPT ![slot] = row]) = Building.nlwp
           /\ slot \in 1..Building.nlwp
<1>1. now # <<>> /\ pc = "tasks" /\ slot <= Building.nlwp
  BY DEF SafeInv, InBounds, NextTask
<1>2. /\ Building \in Dom /\ Building.nlwp \in Nat
      /\ Building.threads \in Seq(Row)
      /\ Len(now) \in 1..Len(now)
  BY <1>1, BuildingType DEF SafeInv, Dom
<1>3. Len(Building.threads) = Building.nlwp
  BY <1>1, <1>2 DEF SafeInv, InBounds, Building
<1>4. slot \in 1..Building.nlwp
  BY <1>1, <1>2 DEF SafeInv, InBounds
<1> QED BY <1>1, <1>2, <1>3, <1>4, ExceptSeq

\* What a read of an entry writes: a row without deltas, and the count of vCPUs.
LEMMA TaskBuilds ==
    ASSUME SafeInv, ReadVcpu \/ ReadThread \/ LoseThread
    PROVE  \E row \in Row, n \in Nat :
              /\ Build([Building EXCEPT !.threads[slot] = row,
                                        !.smp_vcpus = n])
              /\ row.dutime = 0 /\ row.dexits = 0
              /\ slot' \in {slot, slot + 1}
<1> DEFINE t == Head(tasks)
           cpus == Building.smp_vcpus
<1>1. NextTask /\ TypeOK
  BY DEF ReadVcpu, ReadThread, LoseThread, SafeInv
<1>2. t \in Tids
  BY <1>1 DEF NextTask, TypeOK, SamplerTypeOK
<1>3. VcpuRow(t) \in Row /\ ThreadRow(t) \in Row /\ LostRow(t) \in Row
  BY <1>1, <1>2, ReadRowType, EmptyRowType
<1>4. /\ VcpuRow(t).dutime = 0 /\ VcpuRow(t).dexits = 0
      /\ ThreadRow(t).dutime = 0 /\ ThreadRow(t).dexits = 0
      /\ LostRow(t).dutime = 0 /\ LostRow(t).dexits = 0
  BY DEF VcpuRow, ThreadRow, LostRow, ZeroRow
<1>5. Building \in Dom
  BY <1>1, <1>3, SlotSafe
<1>6. cpus \in Nat /\ cpus + 1 \in Nat
  BY <1>5 DEF Dom
<1>7. \A row \in Row : [Building EXCEPT !.threads[slot] = row]
          = [Building EXCEPT !.threads[slot] = row, !.smp_vcpus = cpus]
  BY <1>5 DEF Dom
<1>8. CASE ReadVcpu
  BY <1>3, <1>4, <1>6, <1>8 DEF ReadVcpu
<1>9. CASE ReadThread
  BY <1>3, <1>4, <1>6, <1>7, <1>9 DEF ReadThread
<1>10. CASE LoseThread
  BY <1>3, <1>4, <1>6, <1>7, <1>10 DEF LoseThread
<1> QED BY <1>8, <1>9, <1>10

\* The three ways to read an entry of the task directory.
LEMMA TaskSafe ==
    SafeInv /\ (ReadVcpu \/ ReadThread \/ LoseThread) => SamplerSafe'
<1> SUFFICES ASSUME SafeInv, ReadVcpu \/ ReadThread \/ LoseThread
             PROVE  SamplerSafe'
  OBVIOUS
<1> DEFINE t == Head(tasks)
<1>1. NextTask /\ TypeOK
  BY DEF ReadVcpu, ReadThread, LoseThread, SafeInv
<1>2. /\ t \in Tids /\ tasks' \in Seq(Tids)
      /\ pc = "tasks" /\ pc' = "tasks" /\ pre' = pre /\ file' = file
  BY <1>1 DEF NextTask, TypeOK, SamplerTypeOK
<1>4. PICK row \in Row, n \in Nat :
        /\ Build([Building EXCEPT !.threads[slot] = row, !.smp_vcpus = n])
        /\ slot' \in {slot, slot + 1}
  BY TaskBuilds
<1> DEFINE rows == [Building.threads EXCEPT ![slot] = row]
           dom == [Building EXCEPT !.threads = rows, !.smp_vcpus = n]
<1>5. /\ now # <<>> /\ Building \in Dom /\ slot \in 1..Building.nlwp
      /\ rows \in Seq(Row) /\ Len(rows) = Building.nlwp
  BY <1>1, SlotSafe
<1>6. /\ dom \in Dom /\ Len(dom.threads) = dom.nlwp
      /\ dom.nlwp = Building.nlwp /\ dom.nlwp \in Nat
  BY <1>5 DEF Dom
<1>7. Build(dom)
  BY <1>4
<1>8. slot' \in 1..(dom.nlwp + 1)
  BY <1>4, <1>5, <1>6
<1>9. file' \in Guests
  BY <1>2 DEF SafeInv, InBounds
<1> HIDE DEF dom
<1>10. now' \in Seq(Dom) /\ InBounds'
  BY <1>2, <1>5, <1>6, <1>7, <1>8, <1>9, BuildSafe
<1>11. SamplerTypeOK'
  <2>1. slot' \in Nat
    BY <1>4, <1>5, <1>6
  <2> QED BY <1>1, <1>2, <1>10, <2>1
          DEF NextTask, TypeOK, SamplerTypeOK, loopVars
<1> QED BY <1>10, <1>11 DEF SamplerSafe

\* The finished domain stays with its array, or goes with it.
LEMMA EndTasksSafe == SafeInv /\ EndTasks => SamplerSafe'
<1> SUFFICES ASSUME SafeInv, EndTasks PROVE SamplerSafe'
  OBVIOUS
<1>1. /\ now # <<>> /\ TypeOK /\ file \in Guests
      /\ pc = "tasks" /\ pc' = "files" /\ pre' = pre
      /\ now \in Seq(Dom) /\ Len(now) \in 1..Len(now)
  BY SMTT(30), BuildingType
  DEF SafeInv, InBounds, EndTasks, TypeOK, SamplerTypeOK
<1>2. now' \in Seq(Dom) /\ InBounds'
  <2>1. CASE file \in LongNames
    <3>1. now' = Pop(now)
      BY <2>1 DEF EndTasks
    <3>2. /\ now' \in Seq(Dom)
          /\ \A i \in 1..Len(now') : i \in 1..Len(now) /\ now'[i] = now[i]
      BY <1>1, <3>1, PopType
    <3> QED BY <1>1, <3>2 DEF SafeInv, InBounds
  <2>2. CASE file \notin LongNames
    <3> DEFINE dom == [Building EXCEPT !.vmname = file]
    <3>1. Build(dom)
      BY <2>2 DEF EndTasks
    <3>2. Building \in Dom /\ Len(Building.threads) = Building.nlwp
      BY <1>1, BuildingType DEF SafeInv, InBounds, Building
    <3>3. dom \in Dom /\ Len(dom.threads) = dom.nlwp
      BY <1>1, <3>2 DEF Dom
    <3> HIDE DEF dom
    <3> QED BY <1>1, <3>1, <3>3, BuildSafe
  <2> QED BY <2>1, <2>2
<1>3. SamplerTypeOK'
  BY SMTT(30), <1>1, <1>2
  DEF EndTasks, TypeOK, SamplerTypeOK, loopVars, Pcs, Ids
<1> QED BY <1>2, <1>3 DEF SamplerSafe

\* The loop over the domains and their threads: the steps that compute nothing.
LEMMA LoopSafe ==
    SafeInv /\ (SkipNewDomain \/ SkipNewThread \/ EndThreads \/ Return)
        => SamplerSafe'
<1> SUFFICES ASSUME SafeInv,
                    SkipNewDomain \/ SkipNewThread \/ EndThreads \/ Return
             PROVE  SamplerSafe'
  OBVIOUS
<1> USE DEF SafeInv, TypeOK, SamplerTypeOK
<1>1. pc = "deltas" /\ pc' \in {"deltas", "idle"} /\ now' = now /\ deltaFrame
  BY DEF SkipNewDomain, SkipNewThread, AtThread, EndThreads, Return
<1>2. di' \in Nat /\ ti' \in Nat
  BY DEF SkipNewDomain, SkipNewThread, EndThreads, Return
<1>3. InBounds'
  BY <1>1 DEF InBounds, deltaFrame
<1>4. SamplerTypeOK'
  BY <1>1, <1>2 DEF deltaFrame, readVars, Pcs
<1> QED BY <1>3, <1>4 DEF SamplerSafe

\* A domain's deltas change nothing but its deltas.
LEMMA DeltaStepSafe ==
    ASSUME SafeInv, pc = "deltas", pc' = pc, deltaFrame,
           di \in 1..Len(now), di' \in Nat, ti' \in Nat,
           NEW dom \in Dom, now' = [now EXCEPT ![di] = dom],
           dom.nlwp = now[di].nlwp, Len(dom.threads) = Len(now[di].threads)
    PROVE  SamplerSafe'
<1> USE DEF SafeInv, TypeOK, SamplerTypeOK
<1>1. /\ now' \in Seq(Dom) /\ Len(now') = Len(now)
      /\ \A i \in 1..Len(now) : now'[i] = IF i = di THEN dom ELSE now[i]
  BY SMTT(30), ExceptSeq
<1>2. InBounds'
  BY <1>1 DEF InBounds, deltaFrame
<1>3. SamplerTypeOK'
  BY <1>1 DEF deltaFrame, readVars
<1> QED BY <1>2, <1>3 DEF SamplerSafe

LEMMA RefreshDomainSafe == SafeInv /\ RefreshDomain => SamplerSafe'
<1> SUFFICES ASSUME SafeInv, RefreshDomain PROVE SamplerSafe'
  OBVIOUS
<1>1. /\ pc = "deltas" /\ pc' = pc /\ deltaFrame
      /\ di \in Nat /\ di' \in Nat /\ ti' \in Nat
      /\ now \in Seq(Dom) /\ pre \in Seq(Dom) /\ di \in 1..Len(now)
  BY DEF RefreshDomain, SafeInv, TypeOK, SamplerTypeOK
<1>2. PICK k \in 1..Len(pre) :
        now' = [now EXCEPT ![di].dutime =
                   Delta(now[di].utime, pre[k].utime, pre[k].dutime)]
  BY DEF RefreshDomain
<1> DEFINE dom == [now[di] EXCEPT !.dutime =
                      Delta(now[di].utime, pre[k].utime, pre[k].dutime)]
<1>3. now[di] \in Dom /\ pre[k] \in Dom
  BY <1>1
<1>4. Delta(now[di].utime, pre[k].utime, pre[k].dutime) \in Nat
  BY <1>3, DeltaType DEF Dom
<1>5. dom \in Dom /\ dom.nlwp = now[di].nlwp /\ dom.threads = now[di].threads
  BY <1>3, <1>4 DEF Dom
<1>6. now' = [now EXCEPT ![di] = dom]
  BY <1>2
<1> HIDE DEF dom
<1> QED BY <1>1, <1>5, <1>6, DeltaStepSafe

\* The thread that RefreshThread works on and the one it finds for it are rows
\* of allocated arrays: no index is out of bounds.
LEMMA RefreshThreadRows ==
    ASSUME SafeInv, NEW k \in 1..Len(pre), NEW l \in 1..pre[k].nlwp,
           AtThread(k)
    PROVE  /\ now \in Seq(Dom) /\ di \in 1..Len(now) /\ now[di] \in Dom
           /\ ti \in 1..Len(now[di].threads)
           /\ Len(now[di].threads) = now[di].nlwp
           /\ now[di].threads \in Seq(Row) /\ now[di].threads[ti] \in Row
           /\ pre[k] \in Dom
           /\ l \in 1..Len(pre[k].threads)
           /\ pre[k].threads \in Seq(Row) /\ pre[k].threads[l] \in Row
<1>1. /\ now \in Seq(Dom) /\ pre \in Seq(Dom)
      /\ di \in 1..Len(now) /\ ti \in 1..now[di].nlwp /\ pc = "deltas"
  BY DEF SafeInv, TypeOK, SamplerTypeOK, AtThread
<1>2. now[di] \in Dom /\ pre[k] \in Dom
  BY <1>1
<1>3. now[di].threads \in Seq(Row) /\ pre[k].threads \in Seq(Row)
  BY <1>2 DEF Dom
<1>4. /\ Len(now[di].threads) = now[di].nlwp
      /\ Len(pre[k].threads) = pre[k].nlwp
  BY <1>1 DEF SafeInv, InBounds
<1>5. now[di].threads[ti] \in Row /\ pre[k].threads[l] \in Row
  BY <1>1, <1>3, <1>4, ElementOfSeq
<1> QED BY <1>1, <1>2, <1>3, <1>4, <1>5

LEMMA RefreshThreadSafe == SafeInv /\ RefreshThread => SamplerSafe'
<1> SUFFICES ASSUME SafeInv, RefreshThread PROVE SamplerSafe'
  OBVIOUS
<1>0. PICK k \in 1..Len(pre) : \E l \in 1..pre[k].nlwp :
        /\ AtThread(k)
        /\ now' = [now EXCEPT ![di] =
                      RefreshedDom(now[di], ti, pre[k].threads[l])]
  BY DEF RefreshThread
<1>1. PICK l \in 1..pre[k].nlwp :
        /\ AtThread(k)
        /\ now' = [now EXCEPT ![di] =
                      RefreshedDom(now[di], ti, pre[k].threads[l])]
  BY <1>0
<1> DEFINE row == RefreshRow(now[di].threads[ti], pre[k].threads[l])
           rows == [now[di].threads EXCEPT ![ti] = row]
           sum == IF row.type = "ISVCPU"
                  THEN now[di].dexits + row.dexits ELSE now[di].dexits
           dom == [now[di] EXCEPT !.threads = rows, !.dexits = sum]
<1>2. /\ now \in Seq(Dom) /\ di \in 1..Len(now) /\ now[di] \in Dom
      /\ ti \in 1..Len(now[di].threads)
      /\ now[di].threads \in Seq(Row) /\ now[di].threads[ti] \in Row
      /\ pre[k].threads[l] \in Row
  BY <1>1, RefreshThreadRows
<1>3. row \in Row /\ row.dexits \in Nat
  BY <1>2, RefreshRowType
<1>4. now' = [now EXCEPT ![di] = dom]
  BY <1>1 DEF RefreshedDom
<1> HIDE DEF row
<1>5. rows \in Seq(Row) /\ Len(rows) = Len(now[di].threads)
  BY <1>2, <1>3, ExceptSeq
<1>6. sum \in Nat
  <2>1. now[di].dexits \in Nat
    BY <1>2 DEF Dom
  <2>2. now[di].dexits + row.dexits \in Nat
    BY <1>3, <2>1
  <2> QED BY <2>1, <2>2
<1> HIDE DEF rows, sum
<1>7. dom \in Dom /\ dom.nlwp = now[di].nlwp /\ dom.threads = rows
  BY <1>2, <1>5, <1>6 DEF Dom
<1>8. /\ pc = "deltas" /\ pc' = pc /\ deltaFrame
      /\ di' \in Nat /\ ti' \in Nat
  BY SMTT(30), <1>1, <1>2
  DEF RefreshThread, AtThread, SafeInv, TypeOK, SamplerTypeOK
<1> HIDE DEF dom
<1> QED BY <1>2, <1>4, <1>5, <1>7, <1>8, DeltaStepSafe

\* Every step keeps the types and the bounds.
LEMMA SafeStep == SafeInv /\ [Next]_vars => SafeInv'
<1> SUFFICES ASSUME SafeInv, [Next]_vars PROVE SafeInv'
  OBVIOUS
<1>1. ASSUME SamplerNext PROVE SafeInv'
  <2>1. SamplerSafe'
    BY <1>1, RotateSafe, RunDirSafe, PidFileSafe, DropSafe, StatSafe,
       OpenTaskSafe, ListTasksSafe, TaskSafe, EndTasksSafe, LoopSafe,
       RefreshDomainSafe, RefreshThreadSafe
    DEF SamplerNext, RefreshSteps, DomainSteps, DeltaSteps
  <2>2. HostTypeOK'
    BY <1>1 DEF SamplerNext, hostVars, SafeInv, TypeOK, HostTypeOK
  <2> QED BY <2>1, <2>2 DEF SafeInv, TypeOK, SamplerSafe
<1>2. ASSUME HostMoves PROVE SafeInv'
  BY <1>2, HostSafe
<1>3. ASSUME UNCHANGED vars PROVE SafeInv'
  BY <1>3 DEF vars, hostVars, samplerVars, SafeInv, TypeOK, HostTypeOK,
              SamplerTypeOK, InBounds, Building
<1> QED BY <1>1, <1>2, <1>3 DEF Next

\* The values that the state of vmtop and of its host can take.
THEOREM TypeCorrect == Spec => []TypeOK
<1>1. SafeInv => TypeOK
  BY DEF SafeInv
<1> QED BY <1>1, SafeInit, SafeStep, PTL DEF Spec

\* No loop over threads and no slot that is written leaves its array, however
\* the host moves between the stat, the opening of the task directory and the
\* reads of its entries (get_child_pid, refresh_threads).
THEOREM ArraysInBounds == Spec => []InBounds
<1>1. SafeInv => InBounds
  BY DEF SafeInv
<1> QED BY <1>1, SafeInit, SafeStep, PTL DEF Spec
-----------------------------------------------------------------------------
(***************************************************************************)
(* A delta needs a baseline.  A domain is built with all deltas zero, and  *)
(* only the delta loop writes one, with the domain of pre and the row of   *)
(* it that it is taken against at hand; pre changes only when now is       *)
(* emptied.                                                                *)
(***************************************************************************)
BaseInv == SafeInv /\ DeltaNeedsBaseline

\* Replacing one domain by one whose deltas have their baselines.
LEMMA ReplaceBased ==
    ASSUME BaseInv, NEW n \in 1..Len(now), NEW dom \in Dom,
           now' = [now EXCEPT ![n] = dom], pre' = pre, BasedOn(pre, dom)
    PROVE  DeltaNeedsBaseline'
<1>1. now \in Seq(Dom)
  BY DEF BaseInv, SafeInv, TypeOK, SamplerTypeOK
<1>2. /\ Len(now') = Len(now)
      /\ \A i \in 1..Len(now) : now'[i] = IF i = n THEN dom ELSE now[i]
  BY <1>1, ExceptSeq
<1>3. ASSUME NEW i \in 1..Len(now') PROVE BasedOn(pre', now'[i])
  BY <1>2 DEF BaseInv, DeltaNeedsBaseline
<1> QED BY <1>3 DEF DeltaNeedsBaseline

\* Steps that drop domains, or keep them all.
LEMMA KeepBased ==
    ASSUME BaseInv, pre' = pre,
           \A i \in 1..Len(now') : i \in 1..Len(now) /\ now'[i] = now[i]
    PROVE  DeltaNeedsBaseline'
<1>1. ASSUME NEW i \in 1..Len(now') PROVE BasedOn(pre', now'[i])
  BY DEF BaseInv, DeltaNeedsBaseline
<1> QED BY <1>1 DEF DeltaNeedsBaseline

\* The steps up to the stat, and the ends of the loops.
LEMMA ScanBased ==
    ASSUME BaseInv, RefreshSteps,
           ~ (ReadDomainStat \/ OpenTaskDir \/ ReadVcpu \/ ReadThread
              \/ LoseThread \/ EndTasks \/ RefreshDomain \/ RefreshThread)
    PROVE  DeltaNeedsBaseline'
<1>1. CASE VcpuListFails \/ ReadVcpuList
  <2>1. now' = <<>>
    BY <1>1 DEF VcpuListFails, ReadVcpuList, Rotate
  <2> QED BY <2>1 DEF DeltaNeedsBaseline
<1>2. ASSUME now' = now, pre' = pre PROVE DeltaNeedsBaseline'
  BY <1>2, KeepBased
<1>3. CASE RunDirFails \/ OpenRunDir \/ CloseRunDir
  BY <1>2, <1>3 DEF RunDirFails, OpenRunDir, CloseRunDir, tables
<1>4. CASE ListTasks \/ \E g \in Guests : SkipPidFile(g)
  BY <1>2, <1>4 DEF ListTasks, SkipPidFile, tables
<1>5. CASE SkipNewDomain \/ SkipNewThread \/ EndThreads \/ Return
  BY <1>2, <1>5
  DEF SkipNewDomain, SkipNewThread, EndThreads, Return, deltaFrame
<1>6. ASSUME NEW g \in Guests, AddDomain(g) PROVE DeltaNeedsBaseline'
  <2> DEFINE dom == NewDom(pidfile[g], gid[owner[pidfile[g]]])
  <2>1. now' = Append(now, dom) /\ pre' = pre
    BY <1>6 DEF AddDomain
  <2>2. BasedOn(pre, dom)
    BY DEF BasedOn, NewDom
  <2> HIDE DEF dom
  <2>3. now \in Seq(Dom)
    BY DEF BaseInv, SafeInv, TypeOK, SamplerTypeOK
  <2>4. /\ Len(now') = Len(now) + 1
        /\ now'[Len(now) + 1] = dom
        /\ \A i \in 1..Len(now) : now'[i] = now[i]
    BY <2>1, <2>3
  <2>5. ASSUME NEW i \in 1..Len(now') PROVE BasedOn(pre', now'[i])
    <3>1. i \in 1..Len(now) \/ i = Len(now) + 1
      BY <2>3, <2>4
    <3> QED BY <2>1, <2>2, <2>4, <3>1 DEF BaseInv, DeltaNeedsBaseline
  <2> QED BY <2>5 DEF DeltaNeedsBaseline
<1>7. CASE DomainStatFails \/ TaskDirFails
  <2>1. now' = Pop(now) /\ pre' = pre
    BY <1>7 DEF DomainStatFails, TaskDirFails, DropDomain
  <2>2. now \in Seq(Dom)
    BY DEF BaseInv, SafeInv, TypeOK, SamplerTypeOK
  <2> QED BY <2>1, <2>2, PopType, KeepBased
<1> QED BY <1>1, <1>3, <1>4, <1>5, <1>6, <1>7
        DEF RefreshSteps, DomainSteps, DeltaSteps

\* The steps that fill the domain under construction: they leave its own deltas
\* alone, and the rows they write have none.
LEMMA BuildBased ==
    ASSUME BaseInv, now # <<>>, NEW dom \in Dom, Build(dom), pre' = pre,
           dom.id = Building.id, dom.dutime = Building.dutime,
           dom.dexits = Building.dexits,
           \A j \in 1..Len(dom.threads) :
              \/ dom.threads[j].dutime = 0 /\ dom.threads[j].dexits = 0
              \/ /\ j \in 1..Len(Building.threads)
                 /\ dom.threads[j] = Building.threads[j]
    PROVE  DeltaNeedsBaseline'
<1>1. Len(now) \in 1..Len(now) /\ Building = now[Len(now)]
  BY BuildingType DEF BaseInv, SafeInv, Building
<1>2. BasedOn(pre, Building)
  BY <1>1 DEF BaseInv, DeltaNeedsBaseline
<1>3. BasedOn(pre, dom)
  <2>1. dom.dutime > 0 \/ dom.dexits > 0 =>
            \E k \in 1..Len(pre) : pre[k].id = dom.id
    BY <1>2 DEF BasedOn
  <2>2. ASSUME NEW j \in 1..Len(dom.threads),
               dom.threads[j].dutime > 0 \/ dom.threads[j].dexits > 0
        PROVE  \E k \in 1..Len(pre) : \E l \in 1..Len(pre[k].threads) :
                  /\ pre[k].id = dom.id
                  /\ pre[k].threads[l].pid = dom.threads[j].pid
    <3>1. /\ j \in 1..Len(Building.threads)
          /\ dom.threads[j] = Building.threads[j]
      BY <2>2
    <3> QED BY <1>2, <2>2, <3>1 DEF BasedOn
  <2> QED BY <2>1, <2>2 DEF BasedOn
<1>4. now' = [now EXCEPT ![Len(now)] = dom]
  BY DEF Build
<1> QED BY <1>1, <1>3, <1>4, ReplaceBased

\* The stat, the opening of the task directory, and the end of a domain.
LEMMA DomainBased ==
    ASSUME BaseInv, ReadDomainStat \/ OpenTaskDir \/ EndTasks
    PROVE  DeltaNeedsBaseline'
<1>1. /\ now # <<>> /\ TypeOK /\ pre' = pre /\ Building \in Dom
      /\ file \in Guests
  BY BuildingType
  DEF BaseInv, SafeInv, InBounds, ReadDomainStat, OpenTaskDir, EndTasks
<1>2. CASE ReadDomainStat
  <2> DEFINE g == owner[Building.pid]
             dom == [Building EXCEPT !.utime = total[g],
                                     !.nlwp = Cardinality(Threads(g)),
                                     !.life = gid[g], !.since = starts]
  <2>1. Build(dom) /\ g \in Guests
    BY <1>1, <1>2 DEF ReadDomainStat, Alive, TypeOK, HostTypeOK
  <2>2. Cardinality(Threads(g)) \in Nat
    BY FS_Subset, FS_CardinalityType DEF Threads
  <2>3. total[g] \in Nat /\ gid[g] \in Ids /\ starts \in Ids
    BY <1>1, <2>1 DEF TypeOK, HostTypeOK, Ids
  <2>4. /\ dom \in Dom /\ dom.id = Building.id
        /\ dom.dutime = Building.dutime /\ dom.dexits = Building.dexits
        /\ dom.threads = Building.threads
    BY <1>1, <2>2, <2>3 DEF Dom
  <2> HIDE DEF dom, g
  <2> QED BY <1>1, <2>1, <2>4, BuildBased
<1>3. CASE OpenTaskDir
  <2> DEFINE rows == [k \in 1..Building.nlwp |-> ZeroRow]
             dom == [Building EXCEPT !.threads = rows]
  <2>1. Build(dom)
    BY <1>3 DEF OpenTaskDir
  <2>2. Building.nlwp \in Nat
    BY <1>1 DEF Dom
  <2>3. /\ rows \in Seq(Row)
        /\ \A j \in 1..Len(rows) : rows[j].dutime = 0 /\ rows[j].dexits = 0
    <3>1. rows \in Seq(Row) /\ Len(rows) = Building.nlwp
      BY <2>2, EmptyRowType
    <3> QED BY <3>1 DEF ZeroRow
  <2> HIDE DEF rows
  <2>4. /\ dom \in Dom /\ dom.id = Building.id
        /\ dom.dutime = Building.dutime /\ dom.dexits = Building.dexits
        /\ dom.threads = rows
    BY <1>1, <2>3 DEF Dom
  <2> HIDE DEF dom
  <2> QED BY <1>1, <2>1, <2>3, <2>4, BuildBased
<1>4. CASE EndTasks
  <2>1. CASE file \in LongNames
    <3>1. now' = Pop(now)
      BY <1>4, <2>1 DEF EndTasks
    <3> QED BY <1>1, <3>1, PopType, KeepBased
            DEF TypeOK, SamplerTypeOK
  <2>2. CASE file \notin LongNames
    <3> DEFINE dom == [Building EXCEPT !.vmname = file]
    <3>1. Build(dom)
      BY <1>4, <2>2 DEF EndTasks
    <3>2. /\ dom \in Dom /\ dom.id = Building.id
          /\ dom.dutime = Building.dutime /\ dom.dexits = Building.dexits
          /\ dom.threads = Building.threads
      BY <1>1 DEF Dom
    <3> HIDE DEF dom
    <3> QED BY <1>1, <3>1, <3>2, BuildBased
  <2> QED BY <2>1, <2>2
<1> QED BY <1>2, <1>3, <1>4

\* A slot is written with a row that has no delta.
LEMMA TaskBased ==
    ASSUME BaseInv, ReadVcpu \/ ReadThread \/ LoseThread
    PROVE  DeltaNeedsBaseline'
<1> DEFINE t == Head(tasks)
<1>1. SafeInv /\ TypeOK /\ NextTask
  BY DEF BaseInv, SafeInv, ReadVcpu, ReadThread, LoseThread
<1>2. t \in Tids /\ pre' = pre
  BY <1>1 DEF NextTask, TypeOK, SamplerTypeOK
<1>5. PICK row \in Row, n \in Nat :
        /\ Build([Building EXCEPT !.threads[slot] = row, !.smp_vcpus = n])
        /\ row.dutime = 0 /\ row.dexits = 0
  BY <1>1, TaskBuilds
<1> DEFINE rows == [Building.threads EXCEPT ![slot] = row]
           dom == [Building EXCEPT !.threads = rows, !.smp_vcpus = n]
<1>6. /\ now # <<>> /\ Building \in Dom /\ slot \in 1..Building.nlwp
      /\ rows \in Seq(Row) /\ Len(rows) = Building.nlwp
  BY <1>1, SlotSafe
<1>7. /\ Building.threads \in Seq(Row)
      /\ Len(Building.threads) = Building.nlwp
  BY <1>1, <1>6, BuildingType
  DEF SafeInv, InBounds, Building, NextTask, Dom
<1>8. \A j \in 1..Len(rows) :
        rows[j] = IF j = slot THEN row ELSE Building.threads[j]
  BY <1>6, <1>7, ExceptSeq
<1>9. /\ dom \in Dom /\ dom.id = Building.id
      /\ dom.dutime = Building.dutime /\ dom.dexits = Building.dexits
      /\ dom.threads = rows
  BY <1>6 DEF Dom
<1>10. Build(dom)
  BY <1>5
<1> HIDE DEF dom, rows
<1> QED BY <1>2, <1>5, <1>6, <1>7, <1>8, <1>9, <1>10, BuildBased

\* The delta loop takes a delta only against what it found in pre.
LEMMA RefreshDomainBased ==
    ASSUME BaseInv, RefreshDomain PROVE DeltaNeedsBaseline'
<1>1. /\ now \in Seq(Dom) /\ pre \in Seq(Dom) /\ di \in 1..Len(now)
      /\ pre' = pre
  BY DEF RefreshDomain, deltaFrame, BaseInv, SafeInv, TypeOK, SamplerTypeOK
<1>2. PICK k \in 1..Len(pre) :
        /\ DomainFromId(now[di].id, pre, k)
        /\ now' = [now EXCEPT ![di].dutime =
                      Delta(now[di].utime, pre[k].utime, pre[k].dutime)]
  BY DEF RefreshDomain
<1> DEFINE delta == Delta(now[di].utime, pre[k].utime, pre[k].dutime)
           dom == [now[di] EXCEPT !.dutime = delta]
<1>3. now[di] \in Dom /\ pre[k] \in Dom
  BY <1>1
<1>4. delta \in Nat
  BY <1>3, DeltaType DEF Dom
<1>5. now' = [now EXCEPT ![di] = dom]
  BY <1>2
<1> HIDE DEF delta
<1>6. dom \in Dom /\ dom.id = now[di].id /\ dom.threads = now[di].threads
  BY <1>3, <1>4 DEF Dom
<1> HIDE DEF dom
<1>7. pre[k].id = dom.id
  BY <1>2, <1>6 DEF DomainFromId
<1>8. BasedOn(pre, dom)
  <2>1. BasedOn(pre, now[di])
    BY <1>1 DEF BaseInv, DeltaNeedsBaseline
  <2>2. \E m \in 1..Len(pre) : pre[m].id = dom.id
    BY <1>7
  <2> QED BY <1>6, <2>1, <2>2 DEF BasedOn
<1> QED BY <1>1, <1>5, <1>6, <1>8, ReplaceBased

LEMMA RefreshThreadBased ==
    ASSUME BaseInv, RefreshThread PROVE DeltaNeedsBaseline'
<1>1. PICK k \in 1..Len(pre) : \E l \in 1..pre[k].nlwp :
        /\ AtThread(k)
        /\ ThreadFromPid(now[di].threads[ti].pid, pre[k], l)
        /\ now' = [now EXCEPT ![di] =
                      RefreshedDom(now[di], ti, pre[k].threads[l])]
  BY DEF RefreshThread
<1>2. PICK l \in 1..pre[k].nlwp :
        /\ AtThread(k)
        /\ ThreadFromPid(now[di].threads[ti].pid, pre[k], l)
        /\ now' = [now EXCEPT ![di] =
                      RefreshedDom(now[di], ti, pre[k].threads[l])]
  BY <1>1
<1> DEFINE row == RefreshRow(now[di].threads[ti], pre[k].threads[l])
           rows == [now[di].threads EXCEPT ![ti] = row]
           sum == IF row.type = "ISVCPU"
                  THEN now[di].dexits + row.dexits ELSE now[di].dexits
           dom == [now[di] EXCEPT !.threads = rows, !.dexits = sum]
<1>3. /\ now \in Seq(Dom) /\ di \in 1..Len(now) /\ now[di] \in Dom
      /\ ti \in 1..Len(now[di].threads)
      /\ now[di].threads \in Seq(Row) /\ now[di].threads[ti] \in Row
      /\ l \in 1..Len(pre[k].threads) /\ pre[k].threads[l] \in Row
  BY <1>2, RefreshThreadRows DEF BaseInv
<1>4. /\ row \in Row /\ row.dexits \in Nat
      /\ row.pid = now[di].threads[ti].pid
  BY <1>3, RefreshRowType
<1>5. now' = [now EXCEPT ![di] = dom] /\ pre' = pre
  BY <1>2 DEF RefreshedDom, RefreshThread, deltaFrame
<1> HIDE DEF row
<1>6. /\ rows \in Seq(Row) /\ Len(rows) = Len(now[di].threads)
      /\ \A j \in 1..Len(rows) :
            rows[j] = IF j = ti THEN row ELSE now[di].threads[j]
  BY <1>3, <1>4, ExceptSeq
<1>7. sum \in Nat
  <2>1. now[di].dexits \in Nat
    BY <1>3 DEF Dom
  <2> QED BY <1>4, <2>1
<1> HIDE DEF rows, sum
<1>8. dom \in Dom /\ dom.id = now[di].id /\ dom.threads = rows
  BY <1>3, <1>6, <1>7 DEF Dom
<1> HIDE DEF dom
<1>9. pre[k].id = dom.id /\ pre[k].threads[l].pid = row.pid
  BY <1>2, <1>4, <1>8 DEF AtThread, DomainFromId, ThreadFromPid
<1>10. BasedOn(pre, now[di])
  BY <1>3 DEF BaseInv, DeltaNeedsBaseline
<1>11. BasedOn(pre, dom)
  <2>1. ASSUME NEW j \in 1..Len(dom.threads),
               dom.threads[j].dutime > 0 \/ dom.threads[j].dexits > 0
        PROVE  \E m \in 1..Len(pre) : \E o \in 1..Len(pre[m].threads) :
                  /\ pre[m].id = dom.id
                  /\ pre[m].threads[o].pid = dom.threads[j].pid
    <3>1. CASE j = ti
      BY <1>3, <1>6, <1>8, <1>9, <3>1
    <3>2. CASE j # ti
      <4>1. dom.threads[j] = now[di].threads[j] /\ j \in 1..Len(now[di].threads)
        BY <1>6, <1>8, <3>2
      <4> QED BY <1>8, <1>10, <2>1, <4>1 DEF BasedOn
    <3> QED BY <3>1, <3>2
  <2> QED BY <1>9, <2>1 DEF BasedOn
<1> QED BY <1>3, <1>5, <1>8, <1>11, ReplaceBased

LEMMA BaseStep == BaseInv /\ [Next]_vars => BaseInv'
<1> SUFFICES ASSUME BaseInv, [Next]_vars PROVE BaseInv'
  OBVIOUS
<1>1. SafeInv'
  BY SafeStep DEF BaseInv
<1>2. CASE SamplerNext
  <2>1. RefreshSteps
    BY <1>2 DEF SamplerNext
  <2> QED BY <1>1, <2>1, ScanBased, DomainBased, TaskBased,
             RefreshDomainBased, RefreshThreadBased DEF BaseInv
<1>3. CASE HostMoves \/ UNCHANGED vars
  <2>1. now' = now /\ pre' = pre
    BY <1>3 DEF HostMoves, vars, samplerVars
  <2> QED BY <1>1, <2>1, KeepBased DEF BaseInv
<1> QED BY <1>2, <1>3 DEF Next

\* A guest or thread that the last sample does not have shows no delta in this
\* one: its whole history is never taken for one interval (refresh_domains,
\* refresh_threads).
THEOREM DeltasHaveBaselines == Spec => []DeltaNeedsBaseline
<1>1. Init => BaseInv
  <2>1. Init => DeltaNeedsBaseline
    BY DEF Init, SamplerInit, DeltaNeedsBaseline
  <2> QED BY <2>1, SafeInit DEF BaseInv
<1>2. BaseInv => DeltaNeedsBaseline
  BY DEF BaseInv
<1> QED BY <1>1, <1>2, BaseStep, PTL DEF Spec
-----------------------------------------------------------------------------
(***************************************************************************)
(* Which guests a sample shows, for every option and every behaviour of    *)
(* the host.                                                               *)
(***************************************************************************)

(***************************************************************************)
(* What holds of the host at any time.  A tid is alive or has no owner,    *)
(* and a guest runs or has no leader.  Ids of guests and incarnations of   *)
(* threads are taken from one clock and never twice.                       *)
(***************************************************************************)
ThreadsAlive ==
    \A t \in Tids :
        /\ owner[t] = NoGuest <=> life[t] = 0
        /\ life[t] <= starts
        /\ owner[t] # NoGuest => leader[owner[t]] # NoTid

GuestsRun ==
    \A g \in Guests :
        /\ leader[g] = NoTid <=> gid[g] = 0
        /\ gid[g] <= starts
        /\ leader[g] # NoTid => owner[leader[g]] = g /\ pidfile[g] = leader[g]

Unique ==
    /\ \A t, u \in Tids : life[t] = life[u] /\ life[t] # 0 => t = u
    /\ \A g, h \in Guests : gid[g] = gid[h] /\ gid[g] # 0 => g = h

HostInv == ThreadsAlive /\ GuestsRun /\ Unique
-----------------------------------------------------------------------------
LEMMA HostInvInit == Init => HostInv
BY DEF Init, HostInit, HostInv, ThreadsAlive, GuestsRun, Unique

\* A thread is born: it takes the next number of the clock.
LEMMA BornKeeps ==
    ASSUME HostTypeOK, HostInv, NEW g \in Guests, NEW t \in Tids,
           NEW b \in BOOLEAN, Born(g, t, b)
    PROVE  /\ starts \in Nat /\ starts' = starts + 1
           /\ \A u \in Tids :
                /\ owner'[u] = IF u = t THEN g ELSE owner[u]
                /\ life'[u] = IF u = t THEN starts + 1 ELSE life[u]
                /\ life[u] \in Nat /\ life[u] <= starts
           /\ owner[t] = NoGuest
           /\ \A h \in Guests : leader[h] # NoTid => leader[h] # t
           /\ \A h \in Guests : gid[h] \in Nat /\ gid[h] <= starts
           /\ \A u, v \in Tids : life'[u] = life'[v] /\ life'[u] # 0 => u = v
           /\ \A u \in Tids : owner'[u] = NoGuest <=> life'[u] = 0
           /\ \A u \in Tids : life'[u] <= starts'
<1>1. starts \in Nat /\ starts' = starts + 1 /\ owner[t] = NoGuest
  BY DEF HostTypeOK, Born
<1>2. \A u \in Tids :
        /\ owner'[u] = IF u = t THEN g ELSE owner[u]
        /\ life'[u] = IF u = t THEN starts + 1 ELSE life[u]
        /\ life[u] \in Nat /\ life[u] <= starts
  BY DEF HostTypeOK, Born, HostInv, ThreadsAlive
<1>3. ASSUME NEW h \in Guests, leader[h] # NoTid PROVE leader[h] # t
  <2>1. owner[leader[h]] = h
    BY <1>3 DEF HostInv, GuestsRun
  <2>2. h # NoGuest
    OBVIOUS
  <2> QED BY <1>1, <2>1, <2>2
<1>4. \A h \in Guests : gid[h] \in Nat /\ gid[h] <= starts
  BY DEF HostTypeOK, HostInv, GuestsRun
<1>5. \A u, v \in Tids : life'[u] = life'[v] /\ life'[u] # 0 => u = v
  BY <1>1, <1>2 DEF HostInv, Unique
<1>6. ASSUME NEW u \in Tids PROVE owner'[u] = NoGuest <=> life'[u] = 0
  <2>1. g # NoGuest /\ starts + 1 # 0
    BY <1>1
  <2>2. owner[u] = NoGuest <=> life[u] = 0
    BY DEF HostInv, ThreadsAlive
  <2> QED BY <1>2, <2>1, <2>2
<1>7. \A u \in Tids : life'[u] <= starts'
  BY <1>1, <1>2
<1> QED BY <1>1, <1>2, <1>3, <1>4, <1>5, <1>6, <1>7

LEMMA StartGuestHost ==
    ASSUME HostTypeOK, HostInv, NEW g \in Guests, NEW t \in Tids,
           StartGuest(g, t)
    PROVE  HostInv'
<1>1. /\ Born(g, t, FALSE) /\ leader[g] = NoTid
      /\ leader' = [leader EXCEPT ![g] = t]
      /\ gid' = [gid EXCEPT ![g] = starts + 1]
      /\ pidfile' = [pidfile EXCEPT ![g] = t]
  BY DEF StartGuest
<1>2. \A h \in Guests :
        /\ leader'[h] = IF h = g THEN t ELSE leader[h]
        /\ gid'[h] = IF h = g THEN starts + 1 ELSE gid[h]
        /\ pidfile'[h] = IF h = g THEN t ELSE pidfile[h]
        /\ leader[h] \in Tids \cup {NoTid}
  BY <1>1 DEF HostTypeOK
<1>3. \A u \in Tids : owner[u] \in Guests \cup {NoGuest}
  BY DEF HostTypeOK
<1>0. /\ starts \in Nat /\ starts' = starts + 1
      /\ \A u \in Tids :
            /\ owner'[u] = IF u = t THEN g ELSE owner[u]
            /\ life'[u] = IF u = t THEN starts + 1 ELSE life[u]
            /\ life[u] \in Nat /\ life[u] <= starts
      /\ owner[t] = NoGuest
      /\ \A h \in Guests : leader[h] # NoTid => leader[h] # t
      /\ \A h \in Guests : gid[h] \in Nat /\ gid[h] <= starts
      /\ \A u, v \in Tids : life'[u] = life'[v] /\ life'[u] # 0 => u = v
      /\ \A u \in Tids : owner'[u] = NoGuest <=> life'[u] = 0
      /\ \A u \in Tids : life'[u] <= starts'
  <2>1. FALSE \in BOOLEAN
    OBVIOUS
  <2> QED BY <1>1, <2>1, BornKeeps
<1>4. ThreadsAlive'
  <2> SUFFICES ASSUME NEW u \in Tids, owner'[u] # NoGuest
               PROVE  leader'[owner'[u]] # NoTid
    BY <1>0 DEF ThreadsAlive
  <2>1. CASE u = t
    BY <1>0, <1>2, <2>1
  <2>2. CASE u # t
    <3>1. owner'[u] = owner[u] /\ owner[u] \in Guests
      BY <1>0, <1>3, <2>2
    <3> QED BY <1>2, <3>1 DEF HostInv, ThreadsAlive
  <2> QED BY <2>1, <2>2
<1>5. GuestsRun'
  <2> SUFFICES ASSUME NEW h \in Guests
               PROVE  /\ leader'[h] = NoTid <=> gid'[h] = 0
                      /\ gid'[h] <= starts'
                      /\ leader'[h] # NoTid =>
                            owner'[leader'[h]] = h /\ pidfile'[h] = leader'[h]
    BY DEF GuestsRun
  <2>1. CASE h = g
    BY <1>1, <1>2, <2>1, <1>0
  <2>2. CASE h # g
    <3>1. leader'[h] = leader[h] /\ gid'[h] = gid[h] /\ pidfile'[h] = pidfile[h]
      BY <1>2, <2>2
    <3>2. gid'[h] <= starts'
      BY <1>1, <3>1, <1>0
    <3>3. leader[h] # NoTid => leader[h] # t /\ leader[h] \in Tids
      BY <1>1, <1>2, <1>0
    <3>4. leader[h] # NoTid => owner'[leader[h]] = owner[leader[h]]
      BY <1>1, <3>3, <1>0
    <3> QED BY <3>1, <3>2, <3>4 DEF HostInv, GuestsRun
  <2> QED BY <2>1, <2>2
<1>6. Unique'
  <2>1. \A h, k \in Guests : gid'[h] = gid'[k] /\ gid'[h] # 0 => h = k
    <3>1. \A h \in Guests : gid[h] # starts + 1
      BY <1>1, <1>0
    <3> QED BY <1>2, <3>1 DEF HostInv, Unique
  <2> QED BY <1>1, <2>1, <1>0 DEF Unique
<1> QED BY <1>4, <1>5, <1>6 DEF HostInv

LEMMA StartThreadHost ==
    ASSUME HostTypeOK, HostInv, NEW g \in Guests, NEW t \in Tids,
           NEW b \in BOOLEAN, StartThread(g, t, b)
    PROVE  HostInv'
<1>1. /\ Born(g, t, b) /\ leader[g] # NoTid
      /\ UNCHANGED <<leader, gid, pidfile>>
  BY DEF StartThread
<1>2. \A h \in Guests : leader[h] \in Tids \cup {NoTid}
  BY DEF HostTypeOK
<1>3. ThreadsAlive'
  BY <1>1, BornKeeps DEF HostInv, ThreadsAlive
<1>4. GuestsRun'
  <2> SUFFICES ASSUME NEW h \in Guests
               PROVE  /\ gid[h] <= starts'
                      /\ leader[h] # NoTid => owner'[leader[h]] = h
    BY <1>1 DEF GuestsRun, HostInv
  <2>1. gid[h] <= starts'
    BY <1>1, BornKeeps
  <2>2. leader[h] # NoTid => leader[h] # t /\ leader[h] \in Tids
    BY <1>1, <1>2, BornKeeps
  <2>3. leader[h] # NoTid => owner'[leader[h]] = owner[leader[h]]
    BY <1>1, <2>2, BornKeeps
  <2> QED BY <2>1, <2>3 DEF HostInv, GuestsRun
<1>5. Unique'
  BY <1>1, BornKeeps DEF HostInv, Unique
<1> QED BY <1>3, <1>4, <1>5 DEF HostInv

\* Threads that end leave the others as they are.
LEMMA DieKeeps ==
    ASSUME HostTypeOK, HostInv, NEW S, Die(S), starts' = starts
    PROVE  /\ \A u \in Tids :
                /\ owner'[u] = IF u \in S THEN NoGuest ELSE owner[u]
                /\ life'[u] = IF u \in S THEN 0 ELSE life[u]
                /\ work'[u] = IF u \in S THEN 0 ELSE work[u]
                /\ owner'[u] = NoGuest <=> life'[u] = 0
                /\ life'[u] <= starts'
           /\ \A u, v \in Tids : life'[u] = life'[v] /\ life'[u] # 0 => u = v
<1>1. \A u \in Tids :
        /\ owner'[u] = IF u \in S THEN NoGuest ELSE owner[u]
        /\ life'[u] = IF u \in S THEN 0 ELSE life[u]
        /\ work'[u] = IF u \in S THEN 0 ELSE work[u]
  BY DEF Die
<1>2. starts \in Nat
  BY DEF HostTypeOK
<1>3. \A u \in Tids :
        (owner'[u] = NoGuest <=> life'[u] = 0) /\ life'[u] <= starts'
  BY <1>1, <1>2 DEF HostInv, ThreadsAlive
<1>4. \A u, v \in Tids : life'[u] = life'[v] /\ life'[u] # 0 => u = v
  BY <1>1 DEF HostInv, Unique
<1> QED BY <1>1, <1>3, <1>4

LEMMA ExitHost ==
    ASSUME HostTypeOK, HostInv,
           (\E t \in Tids : ExitThread(t)) \/ (\E g \in Guests : ExitGuest(g))
    PROVE  HostInv'
<1>1. ASSUME NEW t \in Tids, ExitThread(t) PROVE HostInv'
  <2>1. /\ Die({t}) /\ starts' = starts /\ owner[t] # NoGuest
        /\ leader[owner[t]] # t
        /\ UNCHANGED <<leader, gid, pidfile>>
    BY <1>1 DEF ExitThread
  <2>2. ThreadsAlive'
    BY <2>1, DieKeeps DEF HostInv, ThreadsAlive
  <2>3. GuestsRun'
    <3> SUFFICES ASSUME NEW h \in Guests, leader[h] # NoTid
                 PROVE  owner'[leader[h]] = h
      BY <2>1 DEF HostInv, GuestsRun
    <3>1. leader[h] # t /\ leader[h] \in Tids /\ owner[leader[h]] = h
      BY <2>1 DEF HostInv, GuestsRun, HostTypeOK
    <3> QED BY <2>1, <3>1, DieKeeps
  <2>4. Unique'
    BY <2>1, DieKeeps DEF HostInv, Unique
  <2> QED BY <2>2, <2>3, <2>4 DEF HostInv
<1>2. ASSUME NEW g \in Guests, ExitGuest(g) PROVE HostInv'
  <2>1. /\ Die(Threads(g)) /\ starts' = starts
        /\ leader' = [leader EXCEPT ![g] = NoTid]
        /\ gid' = [gid EXCEPT ![g] = 0]
        /\ pidfile' = pidfile
    BY <1>2 DEF ExitGuest
  <2>2. \A h \in Guests :
          /\ leader'[h] = IF h = g THEN NoTid ELSE leader[h]
          /\ gid'[h] = IF h = g THEN 0 ELSE gid[h]
          /\ gid[h] \in Nat /\ leader[h] \in Tids \cup {NoTid}
    BY <2>1 DEF HostTypeOK
  <2>3. \A u \in Tids : /\ owner[u] \in Guests \cup {NoGuest}
                        /\ u \in Threads(g) <=> owner[u] = g
    BY DEF HostTypeOK, Threads
  <2>4. ThreadsAlive'
    BY <2>1, <2>2, <2>3, DieKeeps DEF HostInv, ThreadsAlive
  <2>5. GuestsRun'
    <3> SUFFICES ASSUME NEW h \in Guests
                 PROVE  /\ leader'[h] = NoTid <=> gid'[h] = 0
                        /\ gid'[h] <= starts
                        /\ leader'[h] # NoTid =>
                            owner'[leader'[h]] = h /\ pidfile[h] = leader'[h]
      BY <2>1 DEF GuestsRun
    <3>1. CASE h = g
      BY <2>2, <3>1 DEF HostTypeOK
    <3>2. CASE h # g
      <4>1. leader'[h] = leader[h] /\ gid'[h] = gid[h]
        BY <2>2, <3>2
      <4>2. leader[h] # NoTid => leader[h] \in Tids /\ owner[leader[h]] = h
        BY <2>2 DEF HostInv, GuestsRun
      <4>3. leader[h] # NoTid => owner'[leader[h]] = h
        BY <2>1, <2>3, <3>2, <4>2, DieKeeps
      <4> QED BY <4>1, <4>3 DEF HostInv, GuestsRun
    <3> QED BY <3>1, <3>2
  <2>6. Unique'
    <3>1. \A h, k \in Guests : gid'[h] = gid'[k] /\ gid'[h] # 0 => h = k
      BY <2>2 DEF HostInv, Unique
    <3> QED BY <2>1, <3>1, DieKeeps DEF Unique
  <2> QED BY <2>4, <2>5, <2>6 DEF HostInv
<1> QED BY <1>1, <1>2

LEMMA HostInvStep ==
    ASSUME TypeOK, HostInv, [Next]_vars
    PROVE  HostInv'
<1>1. HostTypeOK
  BY DEF TypeOK
<1>2. ASSUME HostMoves PROVE HostInv'
  <2>1. ASSUME NEW g \in Guests, RemovePidFile(g) PROVE HostInv'
    <3>1. /\ leader[g] = NoTid
          /\ pidfile' = [pidfile EXCEPT ![g] = NoTid]
          /\ UNCHANGED <<starts, owner, life, leader, gid>>
      BY <2>1 DEF RemovePidFile
    <3>2. \A h \in Guests : leader[h] # NoTid => pidfile'[h] = pidfile[h]
      BY <1>1, <3>1 DEF HostTypeOK
    <3> QED BY <3>1, <3>2 DEF HostInv, ThreadsAlive, GuestsRun, Unique
  <2>2. ASSUME NEW t \in Tids, Work(t) PROVE HostInv'
    BY <2>2 DEF Work, HostInv, ThreadsAlive, GuestsRun, Unique
  <2> QED BY <1>1, <1>2, <2>1, <2>2, StartGuestHost, StartThreadHost, ExitHost
          DEF HostMoves, HostNext, HostMove
<1>3. ASSUME UNCHANGED hostVars PROVE HostInv'
  BY <1>3 DEF hostVars, HostInv, ThreadsAlive, GuestsRun, Unique
<1> QED BY <1>2, <1>3 DEF Next, SamplerNext, vars
-----------------------------------------------------------------------------
(***************************************************************************)
(* What the steps of vmtop do to the list of domains, field by field.      *)
(***************************************************************************)

\* All domains but the last are as they were.
OthersStay ==
    /\ now # <<>> /\ Len(now') = Len(now)
    /\ \A i \in 1..Len(now) : i # Len(now) => now'[i] = now[i]

\* The domains are the same ones, in the same order.
SameDomains(list) ==
    /\ Len(list) = Len(now)
    /\ \A i \in 1..Len(now) :
        /\ list[i].id = now[i].id /\ list[i].pid = now[i].pid
        /\ list[i].vmname = now[i].vmname
        /\ list[i].life = now[i].life /\ list[i].since = now[i].since
        /\ list[i].utime = now[i].utime /\ list[i].nlwp = now[i].nlwp
        /\ list[i].smp_vcpus = now[i].smp_vcpus

LEMMA LastIsBuilding ==
    ASSUME TypeOK, now # <<>>
    PROVE  /\ Len(now) \in 1..Len(now) /\ now[Len(now)] = Building
           /\ Building \in Dom /\ \A i \in 1..Len(now) : now[i] \in Dom
BY BuildingType DEF Building, TypeOK, SamplerTypeOK

LEMMA AddStep ==
    ASSUME SafeInv, NEW g \in Guests, AddDomain(g)
    PROVE  /\ pidfile[g] \in Tids /\ owner[pidfile[g]] \in Guests
           /\ Len(now') = Len(now) + 1 /\ Len(now) \in Nat
           /\ now' # <<>>
           /\ \A i \in 1..Len(now) : now'[i] = now[i]
           /\ now'[Len(now')] = NewDom(pidfile[g], gid[owner[pidfile[g]]])
<1> DEFINE dom == NewDom(pidfile[g], gid[owner[pidfile[g]]])
<1>1. pidfile[g] \in Tids /\ owner[pidfile[g]] \in Guests
  BY DEF AddDomain, Identified, Alive, SafeInv, TypeOK, HostTypeOK
<1>2. now' = Append(now, dom)
  BY DEF AddDomain
<1> HIDE DEF dom
<1>3. now \in Seq(Dom)
  BY DEF SafeInv, TypeOK, SamplerTypeOK
<1>4. /\ Len(now') = Len(now) + 1 /\ Len(now) \in Nat /\ now' # <<>>
      /\ \A i \in 1..Len(now) : now'[i] = now[i]
      /\ now'[Len(now')] = dom
  BY <1>2, <1>3
<1> QED BY <1>1, <1>4 DEF dom

LEMMA DropStep ==
    ASSUME SafeInv, now # <<>>, now' = Pop(now)
    PROVE  /\ Len(now) \in Nat /\ Len(now') = Len(now) - 1
           /\ \A i \in 1..Len(now') :
                i \in 1..Len(now) /\ i # Len(now) /\ now'[i] = now[i]
<1>1. /\ Len(now') = Len(now) - 1 /\ Len(now) \in Nat
      /\ \A i \in 1..Len(now') : i \in 1..Len(now) /\ now'[i] = now[i]
  BY PopType DEF SafeInv, TypeOK, SamplerTypeOK
<1> QED BY <1>1

LEMMA StatStep ==
    ASSUME SafeInv, ReadDomainStat
    PROVE  /\ OthersStay /\ owner[Building.pid] \in Guests
           /\ Building.pid \in Tids
           /\ Building'.id = Building.id /\ Building'.pid = Building.pid
           /\ Building'.vmname = Building.vmname
           /\ Building'.dutime = Building.dutime
           /\ Building'.dexits = Building.dexits
           /\ Building'.smp_vcpus = Building.smp_vcpus
           /\ Building'.threads = Building.threads
           /\ Building'.utime = total[owner[Building.pid]]
           /\ Building'.nlwp = Cardinality(Threads(owner[Building.pid]))
           /\ Building'.life = gid[owner[Building.pid]]
           /\ Building'.since = starts
<1> DEFINE g == owner[Building.pid]
           dom == [Building EXCEPT !.utime = total[g],
                                   !.nlwp = Cardinality(Threads(g)),
                                   !.life = gid[g], !.since = starts]
<1>1. /\ now # <<>> /\ TypeOK /\ Build(dom) /\ g \in Guests
      /\ Building.pid \in Tids
  BY DEF SafeInv, InBounds, ReadDomainStat, Alive, TypeOK, HostTypeOK
<1>2. Cardinality(Threads(g)) \in Nat
  BY FS_Subset, FS_CardinalityType DEF Threads
<1>3. total[g] \in Nat /\ gid[g] \in Ids /\ starts \in Ids
  BY <1>1 DEF TypeOK, HostTypeOK, Ids
<1>4. /\ dom \in Dom /\ dom.id = Building.id /\ dom.pid = Building.pid
      /\ dom.vmname = Building.vmname /\ dom.dutime = Building.dutime
      /\ dom.dexits = Building.dexits /\ dom.smp_vcpus = Building.smp_vcpus
      /\ dom.threads = Building.threads /\ dom.utime = total[g]
      /\ dom.nlwp = Cardinality(Threads(g)) /\ dom.life = gid[g]
      /\ dom.since = starts
  BY <1>1, <1>2, <1>3, BuildingType DEF Dom
<1> HIDE DEF dom
<1>5. OthersStay /\ Building' = dom
  BY <1>1, <1>4, BuildType DEF OthersStay
<1> QED BY <1>1, <1>4, <1>5

LEMMA OpenStep ==
    ASSUME SafeInv, OpenTaskDir
    PROVE  /\ OthersStay /\ owner[Building.pid] \in Guests
           /\ Building.pid \in Tids /\ Building.nlwp \in Nat
           /\ Building'.id = Building.id /\ Building'.pid = Building.pid
           /\ Building'.vmname = Building.vmname
           /\ Building'.dutime = Building.dutime
           /\ Building'.dexits = Building.dexits
           /\ Building'.smp_vcpus = Building.smp_vcpus
           /\ Building'.utime = Building.utime
           /\ Building'.nlwp = Building.nlwp
           /\ Building'.life = Building.life
           /\ Building'.since = Building.since
           /\ Building'.threads = [k \in 1..Building.nlwp |-> ZeroRow]
<1> DEFINE rows == [k \in 1..Building.nlwp |-> ZeroRow]
           dom == [Building EXCEPT !.threads = rows]
<1>1. /\ now # <<>> /\ TypeOK /\ Build(dom)
      /\ owner[Building.pid] \in Guests /\ Building.pid \in Tids
  BY DEF SafeInv, InBounds, OpenTaskDir, Alive, TypeOK, HostTypeOK
<1>2. Building \in Dom /\ Building.nlwp \in Nat
  BY <1>1, BuildingType DEF Dom
<1>3. rows \in Seq(Row)
  BY <1>2, EmptyRowType
<1> HIDE DEF rows
<1>4. /\ dom \in Dom /\ dom.id = Building.id /\ dom.pid = Building.pid
      /\ dom.vmname = Building.vmname /\ dom.dutime = Building.dutime
      /\ dom.dexits = Building.dexits /\ dom.smp_vcpus = Building.smp_vcpus
      /\ dom.utime = Building.utime /\ dom.nlwp = Building.nlwp
      /\ dom.life = Building.life /\ dom.since = Building.since
      /\ dom.threads = rows
  BY <1>2, <1>3 DEF Dom
<1> HIDE DEF dom
<1>5. OthersStay /\ Building' = dom
  BY <1>1, <1>4, BuildType DEF OthersStay
<1> QED BY <1>1, <1>2, <1>4, <1>5 DEF rows

\* A slot of the domain under construction is written with one row.
LEMMA SlotStep ==
    ASSUME SafeInv, NextTask, NEW row \in Row, NEW cpus \in Nat,
           Build([Building EXCEPT !.threads[slot] = row,
                                  !.smp_vcpus = cpus])
    PROVE  /\ OthersStay
           /\ slot \in 1..Building.nlwp
           /\ Len(Building.threads) = Building.nlwp
           /\ Len(Building'.threads) = Building.nlwp
           /\ Building'.id = Building.id /\ Building'.pid = Building.pid
           /\ Building'.vmname = Building.vmname
           /\ Building'.dutime = Building.dutime
           /\ Building'.dexits = Building.dexits
           /\ Building'.utime = Building.utime
           /\ Building'.nlwp = Building.nlwp
           /\ Building'.life = Building.life
           /\ Building'.since = Building.since
           /\ Building'.smp_vcpus = cpus
           /\ \A j \in 1..Building.nlwp : Building'.threads[j] =
                  IF j = slot THEN row ELSE Building.threads[j]
<1> DEFINE rows == [Building.threads EXCEPT ![slot] = row]
           dom == [Building EXCEPT !.threads = rows, !.smp_vcpus = cpus]
<1>1. /\ now # <<>> /\ Building \in Dom /\ slot \in 1..Building.nlwp
      /\ rows \in Seq(Row) /\ Len(rows) = Building.nlwp /\ TypeOK
  BY SlotSafe DEF SafeInv
<1>2. /\ Building.threads \in Seq(Row)
      /\ Len(Building.threads) = Building.nlwp
  BY <1>1, BuildingType DEF SafeInv, InBounds, Building, NextTask, Dom
<1>3. \A j \in 1..Building.nlwp :
        rows[j] = IF j = slot THEN row ELSE Building.threads[j]
  BY <1>1, <1>2, ExceptSeq
<1>4. Build(dom)
  OBVIOUS
<1> HIDE DEF rows
<1>5. /\ dom \in Dom /\ dom.id = Building.id /\ dom.pid = Building.pid
      /\ dom.vmname = Building.vmname /\ dom.dutime = Building.dutime
      /\ dom.dexits = Building.dexits /\ dom.utime = Building.utime
      /\ dom.nlwp = Building.nlwp /\ dom.life = Building.life
      /\ dom.since = Building.since /\ dom.smp_vcpus = cpus
      /\ dom.threads = rows
  BY <1>1 DEF Dom
<1> HIDE DEF dom
<1>6. OthersStay /\ Building' = dom
  BY <1>1, <1>4, <1>5, BuildType DEF OthersStay
<1> QED BY <1>1, <1>2, <1>3, <1>5, <1>6

\* What the three ways to read an entry write, and where they go on.
LEMMA TaskStep ==
    ASSUME SafeInv, ReadVcpu \/ ReadThread \/ LoseThread
    PROVE  \E row \in Row, cpus \in Nat :
              /\ NextTask /\ Head(tasks) \in Tids
              /\ Build([Building EXCEPT !.threads[slot] = row,
                                        !.smp_vcpus = cpus])
              /\ \/ /\ ReadVcpu /\ TaskStat(Head(tasks)) /\ slot' = slot + 1
                    /\ row = VcpuRow(Head(tasks))
                    /\ cpus = Building.smp_vcpus + 1
                 \/ /\ ReadThread /\ TaskStat(Head(tasks)) /\ slot' = slot + 1
                    /\ row = ThreadRow(Head(tasks))
                    /\ cpus = Building.smp_vcpus
                 \/ /\ LoseThread /\ slot' = slot
                    /\ row = LostRow(Head(tasks))
                    /\ cpus = Building.smp_vcpus
<1> DEFINE t == Head(tasks)
           cpus == Building.smp_vcpus
<1>1. NextTask /\ TypeOK
  BY DEF ReadVcpu, ReadThread, LoseThread, SafeInv
<1>2. t \in Tids
  BY <1>1 DEF NextTask, TypeOK, SamplerTypeOK
<1>3. VcpuRow(t) \in Row /\ ThreadRow(t) \in Row /\ LostRow(t) \in Row
  BY <1>1, <1>2, ReadRowType, EmptyRowType
<1>4. Building \in Dom
  BY <1>1, <1>3, SlotSafe
<1>5. cpus \in Nat /\ cpus + 1 \in Nat
  BY <1>4 DEF Dom
<1>6. \A row \in Row : [Building EXCEPT !.threads[slot] = row]
          = [Building EXCEPT !.threads[slot] = row, !.smp_vcpus = cpus]
  BY <1>4 DEF Dom
<1>7. CASE ReadVcpu
  <2>1. /\ Build([Building EXCEPT !.threads[slot] = VcpuRow(t),
                                  !.smp_vcpus = cpus + 1])
        /\ TaskStat(t) /\ slot' = slot + 1
    BY <1>7 DEF ReadVcpu
  <2> QED BY <1>1, <1>2, <1>3, <1>5, <1>7, <2>1
<1>8. CASE ReadThread
  <2>1. /\ Build([Building EXCEPT !.threads[slot] = ThreadRow(t)])
        /\ TaskStat(t) /\ slot' = slot + 1
    BY <1>8 DEF ReadThread
  <2> QED BY <1>1, <1>2, <1>3, <1>5, <1>6, <1>8, <2>1
<1>9. CASE LoseThread
  <2>1. /\ Build([Building EXCEPT !.threads[slot] = LostRow(t)])
        /\ slot' = slot
    BY <1>9 DEF LoseThread
  <2> QED BY <1>1, <1>2, <1>3, <1>5, <1>6, <1>9, <2>1
<1> QED BY <1>7, <1>8, <1>9

LEMMA EndStep ==
    ASSUME SafeInv, EndTasks
    PROVE  \/ file \in LongNames /\ now # <<>> /\ now' = Pop(now)
           \/ /\ file \notin LongNames /\ file \in Guests /\ OthersStay
              /\ Building'.id = Building.id /\ Building'.pid = Building.pid
              /\ Building'.vmname = file
              /\ Building'.dutime = Building.dutime
              /\ Building'.dexits = Building.dexits
              /\ Building'.smp_vcpus = Building.smp_vcpus
              /\ Building'.utime = Building.utime
              /\ Building'.nlwp = Building.nlwp
              /\ Building'.life = Building.life
              /\ Building'.since = Building.since
              /\ Building'.threads = Building.threads
<1>1. now # <<>> /\ TypeOK /\ file \in Guests
  BY DEF SafeInv, InBounds, EndTasks
<1>2. CASE file \in LongNames
  BY <1>1, <1>2 DEF EndTasks
<1>3. CASE file \notin LongNames
  <2> DEFINE dom == [Building EXCEPT !.vmname = file]
  <2>1. Build(dom)
    BY <1>3 DEF EndTasks
  <2>2. /\ dom \in Dom /\ dom.id = Building.id /\ dom.pid = Building.pid
        /\ dom.vmname = file /\ dom.dutime = Building.dutime
        /\ dom.dexits = Building.dexits
        /\ dom.smp_vcpus = Building.smp_vcpus
        /\ dom.utime = Building.utime /\ dom.nlwp = Building.nlwp
        /\ dom.life = Building.life /\ dom.since = Building.since
        /\ dom.threads = Building.threads
    BY <1>1, BuildingType DEF Dom
  <2> HIDE DEF dom
  <2>3. OthersStay /\ Building' = dom
    BY <1>1, <2>1, <2>2, BuildType DEF OthersStay
  <2> QED BY <1>1, <1>3, <2>2, <2>3
<1> QED BY <1>2, <1>3

\* The domain whose delta is taken, and the one it is taken against.
LEMMA DomainDeltaStep ==
    ASSUME SafeInv, RefreshDomain
    PROVE  \E k \in 1..Len(pre) :
              /\ pre[k] \in Dom /\ now[di] \in Dom /\ di \in 1..Len(now)
              /\ DomainFromId(now[di].id, pre, k)
              /\ SameDomains(now')
              /\ \A i \in 1..Len(now) : i # di => now'[i] = now[i]
              /\ now'[di].threads = now[di].threads
              /\ now'[di].dexits = now[di].dexits
              /\ now'[di].dutime =
                    Delta(now[di].utime, pre[k].utime, pre[k].dutime)
<1>1. /\ now \in Seq(Dom) /\ pre \in Seq(Dom) /\ di \in 1..Len(now)
  BY DEF RefreshDomain, SafeInv, TypeOK, SamplerTypeOK
<1>2. PICK k \in 1..Len(pre) :
        /\ DomainFromId(now[di].id, pre, k)
        /\ now' = [now EXCEPT ![di].dutime =
                      Delta(now[di].utime, pre[k].utime, pre[k].dutime)]
  BY DEF RefreshDomain
<1> DEFINE delta == Delta(now[di].utime, pre[k].utime, pre[k].dutime)
           dom == [now[di] EXCEPT !.dutime = delta]
<1>3. now[di] \in Dom /\ pre[k] \in Dom
  BY <1>1
<1>4. delta \in Nat
  BY <1>3, DeltaType DEF Dom
<1>5. now' = [now EXCEPT ![di] = dom]
  BY <1>2
<1> HIDE DEF delta
<1>6. /\ dom \in Dom /\ dom.id = now[di].id /\ dom.pid = now[di].pid
      /\ dom.vmname = now[di].vmname /\ dom.life = now[di].life
      /\ dom.since = now[di].since /\ dom.utime = now[di].utime
      /\ dom.nlwp = now[di].nlwp /\ dom.smp_vcpus = now[di].smp_vcpus
      /\ dom.threads = now[di].threads /\ dom.dexits = now[di].dexits
      /\ dom.dutime = delta
  BY <1>3, <1>4 DEF Dom
<1> HIDE DEF dom
<1>7. /\ Len(now') = Len(now)
      /\ \A i \in 1..Len(now) : now'[i] = IF i = di THEN dom ELSE now[i]
  BY <1>1, <1>5, <1>6, ExceptSeq
<1>8. SameDomains(now')
  BY <1>6, <1>7 DEF SameDomains
<1>9. now'[di] = dom /\ \A i \in 1..Len(now) : i # di => now'[i] = now[i]
  BY <1>1, <1>7
<1>10. now'[di].dutime = delta
  BY <1>6, <1>9
<1> QED BY <1>1, <1>2, <1>3, <1>6, <1>8, <1>9, <1>10 DEF delta

\* The row whose deltas are taken, and the one they are taken against.
LEMMA ThreadDeltaStep ==
    ASSUME SafeInv, RefreshThread
    PROVE  \E k \in 1..Len(pre) : \E l \in 1..pre[k].nlwp :
              /\ AtThread(k) /\ pre[k] \in Dom /\ now[di] \in Dom
              /\ di \in 1..Len(now) /\ ti \in 1..now[di].nlwp
              /\ Len(now[di].threads) = now[di].nlwp
              /\ Len(pre[k].threads) = pre[k].nlwp
              /\ pre[k].threads[l] \in Row /\ now[di].threads[ti] \in Row
              /\ ThreadFromPid(now[di].threads[ti].pid, pre[k], l)
              /\ SameDomains(now')
              /\ \A i \in 1..Len(now) : i # di => now'[i] = now[i]
              /\ now'[di].dutime = now[di].dutime
              /\ Len(now'[di].threads) = now[di].nlwp
              /\ \A j \in 1..now[di].nlwp :
                    now'[di].threads[j] =
                        IF j = ti
                        THEN RefreshRow(now[di].threads[ti],
                                        pre[k].threads[l])
                        ELSE now[di].threads[j]
              /\ now'[di].dexits =
                    IF now[di].threads[ti].type = "ISVCPU"
                    THEN now[di].dexits + now'[di].threads[ti].dexits
                    ELSE now[di].dexits
<1>1. PICK k \in 1..Len(pre) : \E l \in 1..pre[k].nlwp :
        /\ AtThread(k)
        /\ ThreadFromPid(now[di].threads[ti].pid, pre[k], l)
        /\ now' = [now EXCEPT ![di] =
                      RefreshedDom(now[di], ti, pre[k].threads[l])]
  BY DEF RefreshThread
<1>2. PICK l \in 1..pre[k].nlwp :
        /\ AtThread(k)
        /\ ThreadFromPid(now[di].threads[ti].pid, pre[k], l)
        /\ now' = [now EXCEPT ![di] =
                      RefreshedDom(now[di], ti, pre[k].threads[l])]
  BY <1>1
<1> DEFINE row == RefreshRow(now[di].threads[ti], pre[k].threads[l])
           rows == [now[di].threads EXCEPT ![ti] = row]
           sum == IF row.type = "ISVCPU"
                  THEN now[di].dexits + row.dexits ELSE now[di].dexits
           dom == [now[di] EXCEPT !.threads = rows, !.dexits = sum]
<1>3. /\ now \in Seq(Dom) /\ di \in 1..Len(now) /\ now[di] \in Dom
      /\ ti \in 1..Len(now[di].threads)
      /\ Len(now[di].threads) = now[di].nlwp
      /\ now[di].threads \in Seq(Row) /\ now[di].threads[ti] \in Row
      /\ pre[k] \in Dom /\ pre[k].threads[l] \in Row
  BY <1>2, RefreshThreadRows
<1>4. row \in Row /\ row.dexits \in Nat /\ row.type = now[di].threads[ti].type
  BY <1>3, RefreshRowType
<1>5. now' = [now EXCEPT ![di] = dom]
  BY <1>2 DEF RefreshedDom
<1> HIDE DEF row
<1>6. /\ rows \in Seq(Row) /\ Len(rows) = Len(now[di].threads)
      /\ \A j \in 1..Len(now[di].threads) :
            rows[j] = IF j = ti THEN row ELSE now[di].threads[j]
  BY <1>3, <1>4, ExceptSeq
<1>7. sum \in Nat
  <2>1. now[di].dexits \in Nat
    BY <1>3 DEF Dom
  <2>2. now[di].dexits + row.dexits \in Nat
    BY <1>4, <2>1
  <2> QED BY <2>1, <2>2
<1> HIDE DEF rows, sum
<1>8. /\ dom \in Dom /\ dom.id = now[di].id /\ dom.pid = now[di].pid
      /\ dom.vmname = now[di].vmname /\ dom.life = now[di].life
      /\ dom.since = now[di].since /\ dom.utime = now[di].utime
      /\ dom.nlwp = now[di].nlwp /\ dom.smp_vcpus = now[di].smp_vcpus
      /\ dom.threads = rows /\ dom.dexits = sum
      /\ dom.dutime = now[di].dutime
  BY <1>3, <1>6, <1>7 DEF Dom
<1> HIDE DEF dom
<1>9. /\ Len(now') = Len(now)
      /\ \A i \in 1..Len(now) : now'[i] = IF i = di THEN dom ELSE now[i]
  BY <1>3, <1>5, <1>8, ExceptSeq
<1>10. SameDomains(now')
  BY <1>8, <1>9 DEF SameDomains
<1>11. now'[di] = dom /\ \A i \in 1..Len(now) : i # di => now'[i] = now[i]
  BY <1>3, <1>9
<1>12. Len(pre[k].threads) = pre[k].nlwp
  BY DEF SafeInv, InBounds
<1>13. /\ rows[ti] = row
       /\ \A j \in 1..now[di].nlwp :
            rows[j] = IF j = ti THEN row ELSE now[di].threads[j]
  BY <1>3, <1>6
<1>14. sum = IF now[di].threads[ti].type = "ISVCPU"
             THEN now[di].dexits + rows[ti].dexits ELSE now[di].dexits
  BY <1>4, <1>13 DEF sum
<1>15. /\ Len(now'[di].threads) = now[di].nlwp
       /\ \A j \in 1..now[di].nlwp : now'[di].threads[j] =
            IF j = ti THEN RefreshRow(now[di].threads[ti], pre[k].threads[l])
                      ELSE now[di].threads[j]
  BY <1>3, <1>6, <1>8, <1>11, <1>13 DEF row
<1>16. now'[di].dexits =
          IF now[di].threads[ti].type = "ISVCPU"
          THEN now[di].dexits + now'[di].threads[ti].dexits
          ELSE now[di].dexits
  BY <1>8, <1>11, <1>14
<1>17. now'[di].dutime = now[di].dutime
  BY <1>8, <1>11
<1>18. ti \in 1..now[di].nlwp
  BY <1>3
<1> QED BY <1>2, <1>3, <1>10, <1>11, <1>12, <1>15, <1>16, <1>17, <1>18
-----------------------------------------------------------------------------
(***************************************************************************)
(* The guests of a sample, at every point of its making.  A running guest  *)
(* that the scan has to find is still among the pid files to come, or is   *)
(* the domain under construction, or is in the list.                       *)
(***************************************************************************)
Filling == pc \in {"stat", "opentask", "list", "tasks"}

\* The finished domains.
Complete == 1..(IF Filling THEN Len(now) - 1 ELSE Len(now))

\* An id of a guest that ran at some time since the pid files were listed.
Recent(x) == x \in scanned.ids \/ x > scanned.clock

\* A guest that the sample has to show.
Target(g) ==
    /\ gid[g] \in scanned.ids
    /\ MonitorId >= 0 => gid[g] = MonitorId
    /\ g \notin LongNames

Scan ==
    /\ scanned.clock <= starts
    /\ \A x \in scanned.ids : 0 < x /\ x <= scanned.clock
    /\ pc = "rundir" => now = <<>> /\ scanned.ids = {}
    /\ pc \in {"idle", "rundir", "deltas"} => names = {}
    /\ pc = "opentask" => Building.nlwp > 0

Recents ==
    /\ \A i \in 1..Len(now) : Recent(now[i].id)
    /\ pc \notin {"idle", "rundir"} =>
        \A g \in Guests : gid[g] # 0 => Recent(gid[g])

Asked ==
    /\ MonitorId >= 0 => \A i \in 1..Len(now) : now[i].id = MonitorId
    /\ \A i \in Complete : now[i].vmname \in Guests \ LongNames

Found ==
    \A g \in Guests : Target(g) =>
        \/ g \in names
        \/ \E i \in Complete : now[i].id = gid[g]
        \/ /\ Filling /\ file = g
           /\ Building.id = gid[g] /\ Building.pid = leader[g]

GuestInv == SafeInv /\ HostInv /\ Scan /\ Recents /\ Asked /\ Found

LEMMA GuestInit == Init => GuestInv
<1> SUFFICES ASSUME Init PROVE GuestInv
  OBVIOUS
<1>1. SafeInv /\ HostInv
  BY SafeInit, HostInvInit
<1>2. Scan /\ Recents
  BY DEF Init, HostInit, SamplerInit, Scan, Recents, Recent
<1>3. Asked
  BY DEF Init, HostInit, SamplerInit, Asked, Complete, Filling
<1>4. Found
  BY DEF Init, HostInit, SamplerInit, Found, Target
<1> QED BY <1>1, <1>2, <1>3, <1>4 DEF GuestInv

\* What vmtop's steps have to keep.
GuestPart == Scan /\ Recents /\ Asked /\ Found

\* A guest that runs has an id, and its pid file leads to it.
LEMMA RunningGuest ==
    ASSUME HostInv, HostTypeOK, NEW g \in Guests, gid[g] # 0
    PROVE  /\ leader[g] \in Tids /\ pidfile[g] = leader[g]
           /\ owner[leader[g]] = g /\ Alive(leader[g])
BY DEF HostInv, GuestsRun, HostTypeOK, Alive

\* A process that runs belongs to a guest that has an id.
LEMMA RunningProcess ==
    ASSUME HostInv, HostTypeOK, NEW p, Alive(p)
    PROVE  owner[p] \in Guests /\ gid[owner[p]] # 0
BY DEF HostInv, ThreadsAlive, GuestsRun, HostTypeOK, Alive

LEMMA OpenRunDirGuest ==
    ASSUME GuestInv, OpenRunDir, UNCHANGED hostVars
    PROVE  GuestPart'
<1>1. /\ now' = <<>> /\ pc' = "files"
      /\ names' = {g \in Guests : pidfile[g] # NoTid}
      /\ scanned' = [ids |-> {gid[g] : g \in Guests} \ {0}, clock |-> starts]
      /\ starts' = starts /\ gid' = gid
  BY DEF OpenRunDir, tables, hostVars, GuestInv, Scan
<1>2. /\ scanned'.ids = {gid[g] : g \in Guests} \ {0}
      /\ scanned'.clock = starts
  BY <1>1
<1>3. \A g \in Guests : gid[g] \in Nat /\ gid[g] <= starts
  BY DEF GuestInv, SafeInv, TypeOK, HostTypeOK, HostInv, GuestsRun
<1>4. starts \in Nat
  BY DEF GuestInv, SafeInv, TypeOK, HostTypeOK
<1>5. Scan'
  <2>1. \A x \in scanned'.ids : 0 < x /\ x <= scanned'.clock
    BY <1>2, <1>3, <1>4
  <2> QED BY <1>1, <1>2, <1>4, <2>1 DEF Scan
<1>6. Recents'
  BY <1>1, <1>2 DEF Recents, Recent
<1>7. Asked'
  BY <1>1 DEF Asked, Complete, Filling
<1>8. Found'
  <2> SUFFICES ASSUME NEW g \in Guests, gid[g] \in scanned'.ids
               PROVE  g \in names'
    BY <1>1 DEF Found, Target
  <2>1. gid[g] # 0
    BY <1>2
  <2>2. pidfile[g] # NoTid
    BY <2>1, RunningGuest DEF GuestInv, SafeInv, TypeOK
  <2> QED BY <1>1, <2>2
<1> QED BY <1>5, <1>6, <1>7, <1>8 DEF GuestPart

LEMMA AddGuest ==
    ASSUME GuestInv, NEW g \in Guests, AddDomain(g), UNCHANGED hostVars
    PROVE  GuestPart'
<1> DEFINE p == pidfile[g]
           id == gid[owner[p]]
<1>1. /\ pc = "files" /\ pc' = "stat" /\ file' = g
      /\ Identified(g) /\ names' = names \ {g} /\ scanned' = scanned
      /\ starts' = starts /\ gid' = gid /\ leader' = leader
  BY DEF AddDomain, hostVars
<1>2. /\ Len(now') = Len(now) + 1 /\ Len(now) \in Nat
      /\ \A i \in 1..Len(now) : now'[i] = now[i]
      /\ now'[Len(now')] = NewDom(p, id)
  BY AddStep DEF GuestInv
<1>3. NewDom(p, id).id = id /\ NewDom(p, id).pid = p
  BY DEF NewDom
<1>4. /\ id # 0 /\ Recent(id) /\ owner[p] \in Guests
      /\ MonitorId >= 0 => id = MonitorId
  <2>1. owner[p] \in Guests /\ id # 0
    BY <1>1, RunningProcess DEF Identified, GuestInv, SafeInv, TypeOK
  <2> QED BY <1>1, <2>1 DEF Identified, GuestInv, Recents
<1>5. ~ Filling /\ Filling' /\ Complete = 1..Len(now) /\ Complete' = 1..Len(now)
  BY <1>1, <1>2 DEF Filling, Complete
<1>6. Building' = NewDom(p, id)
  BY <1>2 DEF Building
<1> HIDE DEF id, p
<1>7. Scan'
  BY <1>1 DEF Scan, GuestInv
<1>8. Recents'
  <2>1. \A i \in 1..Len(now') : Recent(now'[i].id)
    BY <1>2, <1>3, <1>4 DEF GuestInv, Recents
  <2> QED BY <1>1, <2>1 DEF GuestInv, Recents, Recent
<1>9. Asked'
  <2>1. MonitorId >= 0 => \A i \in 1..Len(now') : now'[i].id = MonitorId
    BY <1>2, <1>3, <1>4 DEF GuestInv, Asked
  <2> QED BY <1>2, <1>5, <2>1 DEF GuestInv, Asked
<1>10. Found'
  <2> SUFFICES ASSUME NEW h \in Guests, Target(h)
               PROVE  \/ h \in names'
                      \/ \E i \in Complete' : now'[i].id = gid[h]
                      \/ file' = h /\ Building'.id = gid[h]
                         /\ Building'.pid = leader[h]
    BY <1>1, <1>5 DEF Found, Target
  <2>1. h \in names \/ \E i \in Complete : now[i].id = gid[h]
    BY <1>5 DEF GuestInv, Found
  <2>2. CASE h \in names /\ h = g
    <3>1. gid[g] # 0
      BY <2>2 DEF Target, GuestInv, Scan
    <3>2. p = leader[g] /\ owner[p] = g
      BY <3>1, RunningGuest DEF p, GuestInv, SafeInv, TypeOK
    <3> QED BY <1>1, <1>3, <1>6, <2>2, <3>2 DEF id
  <2> QED BY <1>1, <1>2, <1>5, <2>1, <2>2
<1> QED BY <1>7, <1>8, <1>9, <1>10 DEF GuestPart

LEMMA SkipGuest ==
    ASSUME GuestInv, NEW g \in Guests, SkipPidFile(g), UNCHANGED hostVars
    PROVE  GuestPart'
<1>1. /\ pc = "files" /\ pc' = pc /\ now' = now /\ file' = file
      /\ ~ Identified(g) /\ names' = names \ {g} /\ scanned' = scanned
      /\ starts' = starts /\ gid' = gid /\ leader' = leader
  BY DEF SkipPidFile, hostVars, tables
<1>2. ~ Target(g)
  <2> SUFFICES ASSUME Target(g) PROVE Identified(g)
    BY <1>1
  <2>1. gid[g] # 0
    BY DEF Target, GuestInv, Scan
  <2> QED BY <2>1, RunningGuest
          DEF Target, Identified, GuestInv, SafeInv, TypeOK
<1>3. Scan' /\ Recents'
  BY <1>1 DEF GuestInv, Scan, Recents, Recent
<1>4. Asked'
  BY <1>1 DEF GuestInv, Asked, Complete, Filling
<1>5. Found'
  BY <1>1, <1>2 DEF GuestInv, Found, Target, Complete, Filling
<1> QED BY <1>3, <1>4, <1>5 DEF GuestPart

\* A domain that is dropped was not one that the sample has to show.
LEMMA DropGuest ==
    ASSUME GuestInv, UNCHANGED hostVars, Filling, now # <<>>,
           now' = Pop(now), names' = names, scanned' = scanned, pc' = "files",
           \/ ~ (Alive(Building.pid) /\ Building.nlwp > 0) /\ pc = "opentask"
           \/ ~ Alive(Building.pid)
           \/ file \in LongNames
    PROVE  GuestPart'
<1>1. starts' = starts /\ gid' = gid /\ leader' = leader
  BY DEF hostVars
<1>2. /\ Len(now) \in Nat /\ Len(now') = Len(now) - 1
      /\ \A i \in 1..Len(now') :
            i \in 1..Len(now) /\ i # Len(now) /\ now'[i] = now[i]
  BY DropStep DEF GuestInv
<1>3. ~ Filling' /\ Complete = 1..(Len(now) - 1) /\ Complete' = Complete
  BY <1>2 DEF Filling, Complete
<1>4. Scan'
  BY <1>1 DEF GuestInv, Scan
<1>5. Recents'
  <2>1. \A i \in 1..Len(now') : Recent(now'[i].id)
    BY <1>2 DEF GuestInv, Recents
  <2>2. pc \notin {"idle", "rundir"}
    BY DEF Filling
  <2> QED BY <1>1, <2>1, <2>2 DEF GuestInv, Recents, Recent
<1>6. Asked'
  <2>1. MonitorId >= 0 => \A i \in 1..Len(now') : now'[i].id = MonitorId
    BY <1>2 DEF GuestInv, Asked
  <2>2. \A i \in Complete' : now'[i].vmname \in Guests \ LongNames
    BY <1>2, <1>3 DEF GuestInv, Asked
  <2> QED BY <2>1, <2>2 DEF Asked
<1>7. Found'
  <2> SUFFICES ASSUME NEW g \in Guests, Target(g)
               PROVE  g \in names \/ \E i \in Complete' : now'[i].id = gid[g]
    BY <1>1 DEF Found, Target
  <2>1. gid[g] # 0
    BY DEF Target, GuestInv, Scan
  <2>2. file = g /\ Building.pid = leader[g] => FALSE
    BY <2>1, RunningGuest
    DEF Target, GuestInv, Scan, SafeInv, TypeOK
  <2>3. g \in names \/ \E i \in Complete : now[i].id = gid[g]
    BY <2>2 DEF GuestInv, Found
  <2> QED BY <1>2, <1>3, <2>3
<1> QED BY <1>4, <1>5, <1>6, <1>7 DEF GuestPart

\* A step that fills the domain under construction, or finishes it.
LEMMA FillGuest ==
    ASSUME GuestInv, UNCHANGED hostVars, Filling, OthersStay,
           Building'.id = Building.id, Building'.pid = Building.pid,
           names' = names, scanned' = scanned,
           \/ pc' \in {"stat", "opentask", "list", "tasks"} /\ file' = file
           \/ /\ pc' = "files" /\ file \in Guests \ LongNames
              /\ Building'.vmname = file,
           pc' = "opentask" => Building'.nlwp > 0
    PROVE  GuestPart'
<1>1. starts' = starts /\ gid' = gid /\ leader' = leader
  BY DEF hostVars
<1>2. /\ Len(now) \in 1..Len(now) /\ Len(now') = Len(now)
      /\ now[Len(now)] = Building /\ now'[Len(now)] = Building'
      /\ \A i \in 1..Len(now) : i # Len(now) => now'[i] = now[i]
  BY LastIsBuilding DEF GuestInv, SafeInv, OthersStay, Building
<1>3. /\ Complete = 1..(Len(now) - 1)
      /\ pc' # "files" => Complete' = Complete /\ Filling'
      /\ pc' = "files" => Complete' = 1..Len(now) /\ ~ Filling'
  BY <1>2 DEF Filling, Complete
<1>4. Scan'
  BY <1>1 DEF GuestInv, Scan
<1>5. \A i \in 1..Len(now) : now'[i].id = now[i].id
  BY <1>2
<1>6. Recents'
  <2>1. pc \notin {"idle", "rundir"}
    BY DEF Filling
  <2> QED BY <1>1, <1>2, <1>5, <2>1 DEF GuestInv, Recents, Recent
<1>7. Asked'
  <2>1. MonitorId >= 0 => \A i \in 1..Len(now') : now'[i].id = MonitorId
    BY <1>2, <1>5 DEF GuestInv, Asked
  <2>2. ASSUME NEW i \in Complete' PROVE now'[i].vmname \in Guests \ LongNames
    <3>1. CASE i \in Complete
      BY <1>2, <1>3, <3>1 DEF GuestInv, Asked
    <3>2. CASE i \notin Complete
      <4>1. i = Len(now) /\ pc' = "files"
        BY <1>2, <1>3, <3>2
      <4> QED BY <1>2, <4>1
    <3> QED BY <3>1, <3>2
  <2> QED BY <2>1, <2>2 DEF Asked
<1>8. Found'
  <2> SUFFICES ASSUME NEW g \in Guests, Target(g)
               PROVE  \/ g \in names
                      \/ \E i \in Complete' : now'[i].id = gid[g]
                      \/ /\ Filling' /\ file' = g
                         /\ Building'.id = gid[g] /\ Building'.pid = leader[g]
    BY <1>1 DEF Found, Target
  <2>1. \/ g \in names
        \/ \E i \in Complete : now[i].id = gid[g]
        \/ file = g /\ Building.id = gid[g] /\ Building.pid = leader[g]
    BY DEF GuestInv, Found
  <2>2. CASE \E i \in Complete : now[i].id = gid[g]
    <3>1. Complete \subseteq Complete'
      BY <1>2, <1>3
    <3> QED BY <1>2, <1>3, <2>2, <3>1
  <2>3. CASE file = g /\ Building.id = gid[g] /\ Building.pid = leader[g]
    <3>1. CASE pc' = "files"
      <4>1. Len(now) \in Complete' /\ now'[Len(now)].id = gid[g]
        BY <1>2, <1>3, <2>3, <3>1
      <4> QED BY <4>1
    <3>2. CASE pc' # "files"
      BY <1>3, <2>3, <3>2
    <3> QED BY <3>1, <3>2
  <2> QED BY <2>1, <2>2, <2>3
<1> QED BY <1>4, <1>6, <1>7, <1>8 DEF GuestPart

\* The steps on the domain under construction.
LEMMA BuildGuest ==
    ASSUME GuestInv, UNCHANGED hostVars,
           \/ ReadDomainStat \/ DomainStatFails
           \/ OpenTaskDir \/ TaskDirFails \/ ListTasks
           \/ ReadVcpu \/ ReadThread \/ LoseThread \/ EndTasks
    PROVE  GuestPart'
<1>1. /\ pc \in {"stat", "opentask", "list", "tasks"} /\ Filling
      /\ now # <<>> /\ SafeInv /\ TypeOK /\ Building \in Dom
  <2>1. pc \in {"stat", "opentask", "list", "tasks"}
    BY DEF ReadDomainStat, DomainStatFails, OpenTaskDir, TaskDirFails,
           ListTasks, ReadVcpu, ReadThread, LoseThread, EndTasks, NextTask
  <2> QED BY <2>1, BuildingType DEF GuestInv, SafeInv, InBounds, Filling
<1>2. CASE ReadDomainStat
  <2>1. /\ OthersStay /\ Building.pid \in Tids
        /\ Building'.id = Building.id /\ Building'.pid = Building.pid
        /\ Building'.nlwp = Cardinality(Threads(owner[Building.pid]))
    BY <1>1, <1>2, StatStep
  <2>2. Cardinality(Threads(owner[Building.pid])) > 0
    <3> DEFINE S == Threads(owner[Building.pid])
    <3>1. IsFiniteSet(S) /\ Building.pid \in S
      BY <2>1, FS_Subset DEF Threads
    <3> HIDE DEF S
    <3>2. Cardinality(S) \in Nat /\ Cardinality(S) # 0
      BY <3>1, FS_CardinalityType, FS_EmptySet
    <3> QED BY <3>2 DEF S
  <2>3. /\ pc' = "opentask" /\ file' = file /\ names' = names
        /\ scanned' = scanned
    BY <1>2 DEF ReadDomainStat, readVars
  <2> QED BY <1>1, <2>1, <2>2, <2>3, FillGuest
<1>3. CASE DomainStatFails \/ TaskDirFails
  <2>1. /\ now' = Pop(now) /\ names' = names /\ scanned' = scanned
        /\ pc' = "files"
    BY <1>3 DEF DomainStatFails, TaskDirFails, DropDomain
  <2>2. \/ ~ (Alive(Building.pid) /\ Building.nlwp > 0) /\ pc = "opentask"
        \/ ~ Alive(Building.pid)
    BY <1>3 DEF DomainStatFails, TaskDirFails
  <2> QED BY <1>1, <2>1, <2>2, DropGuest
<1>4. CASE OpenTaskDir
  <2>1. /\ OthersStay /\ Building'.id = Building.id
        /\ Building'.pid = Building.pid
    BY <1>1, <1>4, OpenStep
  <2>2. /\ pc' = "list" /\ file' = file /\ names' = names
        /\ scanned' = scanned
    BY <1>4 DEF OpenTaskDir
  <2> QED BY <1>1, <2>1, <2>2, FillGuest
<1>5. CASE ListTasks
  <2>1. /\ now' = now /\ pc' = "tasks" /\ file' = file /\ names' = names
        /\ scanned' = scanned
    BY <1>5 DEF ListTasks, tables
  <2>2. OthersStay /\ Building' = Building
    BY <1>1, <2>1 DEF OthersStay, Building
  <2> QED BY <1>1, <2>1, <2>2, FillGuest
<1>6. CASE ReadVcpu \/ ReadThread \/ LoseThread
  <2>1. PICK row \in Row, cpus \in Nat :
          /\ NextTask
          /\ Build([Building EXCEPT !.threads[slot] = row,
                                    !.smp_vcpus = cpus])
    BY <1>1, <1>6, TaskStep
  <2>2. /\ OthersStay /\ Building'.id = Building.id
        /\ Building'.pid = Building.pid
    BY <1>1, <2>1, SlotStep
  <2>3. /\ pc' = "tasks" /\ file' = file /\ names' = names
        /\ scanned' = scanned
    BY <1>1, <2>1 DEF NextTask
  <2> QED BY <1>1, <2>2, <2>3, FillGuest
<1>7. CASE EndTasks
  <2>1. names' = names /\ scanned' = scanned /\ pc' = "files"
    BY <1>7 DEF EndTasks
  <2>2. CASE file \in LongNames
    <3>1. now' = Pop(now)
      BY <1>7, <2>2 DEF EndTasks
    <3> QED BY <1>1, <2>1, <2>2, <3>1, DropGuest
  <2>3. CASE file \notin LongNames
    <3>1. /\ OthersStay /\ file \in Guests
          /\ Building'.id = Building.id /\ Building'.pid = Building.pid
          /\ Building'.vmname = file
      BY <1>1, <1>7, <2>3, EndStep
    <3> QED BY <1>1, <2>1, <2>3, <3>1, FillGuest
  <2> QED BY <2>2, <2>3
<1> QED BY <1>2, <1>3, <1>4, <1>5, <1>6, <1>7

\* The loop over the domains adds none, drops none and changes no id.
LEMMA LoopGuest ==
    ASSUME GuestInv, UNCHANGED hostVars, CloseRunDir \/ DeltaSteps
    PROVE  GuestPart'
<1>1. /\ pc \in {"files", "deltas"} /\ pc' \in {"deltas", "idle"}
      /\ names' = names /\ file' = file /\ scanned' = scanned /\ names = {}
  BY DEF CloseRunDir, DeltaSteps, SkipNewDomain, RefreshDomain, AtThread,
         SkipNewThread, RefreshThread, EndThreads, Return, deltaFrame,
         readVars, GuestInv, Scan
<1>2. starts' = starts /\ gid' = gid /\ leader' = leader
  BY DEF hostVars
<1>3. SameDomains(now')
  <2>1. CASE RefreshDomain
    BY <2>1, DomainDeltaStep DEF GuestInv
  <2>2. CASE RefreshThread
    BY <2>2, ThreadDeltaStep DEF GuestInv
  <2>3. CASE ~ RefreshDomain /\ ~ RefreshThread
    <3>1. now' = now
      BY <2>3 DEF CloseRunDir, DeltaSteps, SkipNewDomain, SkipNewThread,
                  EndThreads, Return, tables
    <3> QED BY <3>1 DEF SameDomains
  <2> QED BY <2>1, <2>2, <2>3
<1>4. /\ Len(now') = Len(now)
      /\ \A i \in 1..Len(now) :
            now'[i].id = now[i].id /\ now'[i].vmname = now[i].vmname
  BY <1>3 DEF SameDomains
<1>5. /\ ~ Filling /\ ~ Filling' /\ Complete = 1..Len(now)
      /\ Complete' = 1..Len(now)
  BY <1>1, <1>4 DEF Filling, Complete
<1>6. Scan'
  BY <1>1, <1>2 DEF GuestInv, Scan
<1>7. Recents'
  BY <1>1, <1>2, <1>4 DEF GuestInv, Recents, Recent
<1>8. Asked'
  BY <1>4, <1>5 DEF GuestInv, Asked
<1>9. Found'
  BY <1>1, <1>2, <1>4, <1>5 DEF GuestInv, Found, Target
<1> QED BY <1>6, <1>7, <1>8, <1>9 DEF GuestPart

\* The host gives a guest an id that was never used, or takes it away.
LEMMA HostIds ==
    ASSUME TypeOK, HostInv, HostMoves, NEW g \in Guests
    PROVE  \/ gid'[g] = gid[g] /\ leader'[g] = leader[g]
           \/ gid'[g] = 0
           \/ gid'[g] = starts + 1
<1>1. HostTypeOK
  BY DEF TypeOK
<1>2. ASSUME NEW h \in Guests, NEW t \in Tids, StartGuest(h, t)
      PROVE  \/ gid'[g] = gid[g] /\ leader'[g] = leader[g]
             \/ gid'[g] = starts + 1
  BY <1>1, <1>2 DEF StartGuest, Born, HostTypeOK
<1>3. ASSUME NEW h \in Guests, ExitGuest(h)
      PROVE  \/ gid'[g] = gid[g] /\ leader'[g] = leader[g]
             \/ gid'[g] = 0
  BY <1>1, <1>3 DEF ExitGuest, HostTypeOK
<1>4. ASSUME ~ (\E h \in Guests, t \in Tids : StartGuest(h, t)),
             ~ (\E h \in Guests : ExitGuest(h))
      PROVE  gid'[g] = gid[g] /\ leader'[g] = leader[g]
  BY <1>4 DEF HostMoves, HostNext, HostMove, StartThread, Born,
              RemovePidFile, ExitThread, Work
<1> QED BY <1>1, <1>2, <1>3, <1>4

LEMMA HostGuest ==
    ASSUME GuestInv, HostMoves
    PROVE  GuestPart'
<1>1. /\ pc' = pc /\ now' = now /\ names' = names /\ file' = file
      /\ scanned' = scanned
  BY DEF HostMoves, samplerVars
<1>2. TypeOK /\ HostInv /\ HostTypeOK /\ scanned.clock \in Nat
  BY DEF GuestInv, SafeInv, TypeOK, SamplerTypeOK, Ids
<1>3. starts \in Nat /\ starts' \in {starts, starts + 1}
  <2>1. starts \in Nat
    BY <1>2 DEF HostTypeOK
  <2>2. (\E g \in Guests, t \in Tids :
            StartGuest(g, t) \/ \E b \in BOOLEAN : StartThread(g, t, b))
        => starts' = starts + 1
    BY DEF StartGuest, StartThread, Born
  <2>3. (\E g \in Guests : ExitGuest(g) \/ RemovePidFile(g))
        => starts' = starts
    BY DEF ExitGuest, RemovePidFile
  <2>4. (\E t \in Tids : ExitThread(t) \/ Work(t)) => starts' = starts
    BY DEF ExitThread, Work
  <2> QED BY <2>1, <2>2, <2>3, <2>4 DEF HostMoves, HostNext, HostMove
<1>4. \A g \in Guests :
        \/ gid'[g] = gid[g] /\ leader'[g] = leader[g]
        \/ gid'[g] = 0
        \/ gid'[g] = starts + 1
  BY <1>2, HostIds
<1>5. Filling' = Filling /\ Complete' = Complete /\ Building' = Building
  BY <1>1 DEF Filling, Complete, Building
<1>6. Scan'
  BY <1>1, <1>2, <1>3, <1>5 DEF GuestInv, Scan
<1>7. Recents'
  <2>1. starts + 1 > scanned.clock
    BY <1>2, <1>3 DEF GuestInv, Scan
  <2>2. \A g \in Guests : gid'[g] \in {gid[g], 0, starts + 1}
    BY <1>4
  <2>3. \A x : Recent(x) => Recent(x)'
    BY <1>1 DEF Recent
  <2>4. ASSUME pc \notin {"idle", "rundir"}, NEW g \in Guests, gid'[g] # 0
        PROVE  gid'[g] \in scanned.ids \/ gid'[g] > scanned.clock
    BY <2>1, <2>2, <2>4 DEF GuestInv, Recents, Recent
  <2> QED BY <1>1, <2>4 DEF GuestInv, Recents, Recent
<1>8. Asked'
  BY <1>1, <1>5 DEF GuestInv, Asked
<1>9. Found'
  <2> SUFFICES ASSUME NEW g \in Guests, Target(g)'
               PROVE  \/ g \in names
                      \/ \E i \in Complete : now[i].id = gid'[g]
                      \/ /\ Filling /\ file = g
                         /\ Building.id = gid'[g] /\ Building.pid = leader'[g]
    BY <1>1, <1>5 DEF Found
  <2>1. gid'[g] \in scanned.ids
    BY <1>1 DEF Target
  <2>2. gid'[g] # 0 /\ gid'[g] # starts + 1
    BY <1>2, <1>3, <2>1 DEF GuestInv, Scan
  <2>3. gid'[g] = gid[g] /\ leader'[g] = leader[g]
    BY <1>4, <2>2
  <2>4. Target(g)
    BY <1>1, <2>3 DEF Target
  <2> QED BY <2>3, <2>4 DEF GuestInv, Found
<1> QED BY <1>6, <1>7, <1>8, <1>9 DEF GuestPart

LEMMA GuestStep == GuestInv /\ [Next]_vars => GuestInv'
<1> SUFFICES ASSUME GuestInv, [Next]_vars PROVE GuestInv'
  OBVIOUS
<1>1. SafeInv' /\ HostInv'
  BY SafeStep, HostInvStep DEF GuestInv, SafeInv
<1>2. CASE SamplerNext
  <2>1. RefreshSteps /\ UNCHANGED hostVars
    BY <1>2 DEF SamplerNext
  <2>2. CASE VcpuListFails \/ ReadVcpuList \/ RunDirFails
    <3>1. /\ now' = <<>> /\ names' = {} /\ pc' \in {"idle", "rundir"}
          /\ scanned'.ids = {}
      BY <2>2 DEF VcpuListFails, ReadVcpuList, RunDirFails, Rotate, readVars,
                  tables, GuestInv, Scan
    <3>2. starts \in Nat /\ starts' = starts
      BY <2>1 DEF GuestInv, SafeInv, TypeOK, HostTypeOK, hostVars
    <3>3. scanned' = scanned \/ scanned' = [ids |-> {}, clock |-> 0]
      BY <2>2 DEF VcpuListFails, ReadVcpuList, RunDirFails
    <3>4. scanned'.clock <= starts
      BY <3>2, <3>3 DEF GuestInv, Scan
    <3>5. Scan'
      BY <3>1, <3>2, <3>4 DEF Scan
    <3>6. Recents' /\ Asked' /\ Found'
      BY <3>1 DEF Recents, Asked, Complete, Filling, Found, Target
    <3> QED BY <3>5, <3>6, <1>1 DEF GuestInv
  <2>3. ASSUME GuestPart' PROVE GuestInv'
    BY <1>1, <2>3 DEF GuestPart, GuestInv
  <2>4. CASE OpenRunDir
    BY <2>1, <2>3, <2>4, OpenRunDirGuest
  <2>5. CASE CloseRunDir \/ DeltaSteps
    BY <2>1, <2>3, <2>5, LoopGuest
  <2>6. ASSUME NEW g \in Guests, AddDomain(g) \/ SkipPidFile(g)
        PROVE  GuestInv'
    BY <2>1, <2>3, <2>6, AddGuest, SkipGuest
  <2>7. CASE \/ ReadDomainStat \/ DomainStatFails
             \/ OpenTaskDir \/ TaskDirFails \/ ListTasks
             \/ ReadVcpu \/ ReadThread \/ LoseThread \/ EndTasks
    BY <2>1, <2>3, <2>7, BuildGuest
  <2> QED BY <2>1, <2>2, <2>4, <2>5, <2>6, <2>7
          DEF RefreshSteps, DomainSteps
<1>3. CASE HostMoves
  BY <1>1, <1>3, HostGuest DEF GuestInv, GuestPart
<1>4. CASE UNCHANGED vars
  <2>1. /\ UNCHANGED <<pc, now, names, file, scanned>>
        /\ UNCHANGED <<starts, gid, leader>>
    BY <1>4 DEF vars, samplerVars, hostVars
  <2>2. Scan' /\ Recents'
    BY <2>1 DEF GuestInv, Scan, Recents, Recent, Building
  <2>3. Asked' /\ Found'
    BY <2>1 DEF GuestInv, Asked, Found, Target, Complete, Filling, Building
  <2> QED BY <1>1, <2>2, <2>3 DEF GuestInv
<1> QED BY <1>2, <1>3, <1>4 DEF Next

\* A sample shows only guests that ran at some time since the pid files were
\* listed for it, however the host moves between that listing, the reads of
\* each pid file and the reads of /proc (clear_domains, set_domain).
THEOREM ShownGuestsRan == Spec => []ShownGuestsLive
<1>1. GuestInv => ShownGuestsLive
  BY DEF GuestInv, Recents, Recent, ShownGuestsLive
<1> QED BY <1>1, GuestInit, GuestStep, PTL DEF Spec

\* With -p only the guest of that id is shown, and no domain is shown without
\* a name that fits: set_domain's two late failures undo all it did before
\* (set_domain, pop_domains).
THEOREM NothingElseIsShown == Spec => []OnlyAsked
<1>1. GuestInv => OnlyAsked
  BY DEF GuestInv, Asked, Complete, Filling, Shown, OnlyAsked
<1> QED BY <1>1, GuestInit, GuestStep, PTL DEF Spec

\* No guest is missing from a sample that ran when its pid files were listed
\* and still does, whatever became of the guests listed before it: a domain
\* that fails takes nothing else with it (get_qemu_id, set_domain).
THEOREM NoGuestIsMissing == Spec => []GuestsComplete
<1>1. ASSUME GuestInv PROVE GuestsComplete
  <2> SUFFICES ASSUME Shown, NEW g \in Guests, Target(g)
               PROVE  \E i \in 1..Len(now) : now[i].id = gid[g]
    BY DEF GuestsComplete, Target
  <2>1. names = {} /\ ~ Filling /\ Complete = 1..Len(now)
    BY <1>1 DEF GuestInv, Scan, Shown, Filling, Complete
  <2> QED BY <1>1, <2>1 DEF GuestInv, Found
<1> QED BY <1>1, GuestInit, GuestStep, PTL DEF Spec
=============================================================================
