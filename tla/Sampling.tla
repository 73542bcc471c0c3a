------------------------------ MODULE Sampling ------------------------------
(***************************************************************************)
(* One refresh of vmtop: refresh_domains (domain.c) with get_vcpu_list and *)
(* get_vcpu_stat (vcpu_stat.c) and get_proc_stat (proc.c).                 *)
(*                                                                         *)
(* vmtop is one thread, and the host moves between any two of its reads:   *)
(* every read of a file or directory is an action of its own, what the     *)
(* code does with its own memory until the next read belongs to it.        *)
(***************************************************************************)
EXTENDS Host, Sequences, Functions

CONSTANTS
    MonitorId,  \* option -p: the only id to show, -1 for all
    MaxVcpus,   \* MAX_VCPU_NUM: lines of vcpu_stat that are read
    LongNames   \* guests whose pid file name does not fit vmname

ASSUME SamplingAssumption ==
    /\ MonitorId \in Int
    /\ MaxVcpus \in Nat
    /\ LongNames \subseteq Guests

VARIABLES
    pc,         \* where refresh_domains is; "idle" between two refreshes
    now,        \* scr_cur.domains
    pre,        \* scr_pre.domains
    vcpu_list,  \* vcpu_list.domains: exits of the listed tids
    names,      \* get_qemu_id: pid files readdir has yet to return
    file,       \* get_qemu_id: the pid file of the domain being built
    dir,        \* get_child_pid: id of the process whose directory is open
    tasks,      \* get_child_pid: tids readdir has yet to return
    slot,       \* get_child_pid: i, the slot to be filled (from 1)
    di,         \* refresh_domains: the domain whose deltas are next
    ti,         \* refresh_threads: the thread whose deltas are next, 0: none
    mark,       \* history: the vCPUs at the latest read of vcpu_stat
    scanned     \* history: the guests and the clock at the scan of pid files

readVars == <<names, file, dir, tasks, slot>>
loopVars == <<di, ti>>
tables == <<now, pre>>
samplerVars ==
    <<pc, now, pre, vcpu_list, names, file, dir, tasks, slot, di, ti,
      mark, scanned>>
vars == <<hostVars, samplerVars>>

Ids == 0..MaxMoves
Pids == Tids \cup {NoTid}

(***************************************************************************)
(* struct domain as a thread.  life, vlife and grew are history: whose     *)
(* stat was read, whose vcpu_stat line was copied, and the exits that      *)
(* incarnation really made between the two latest reads of vcpu_stat.      *)
(***************************************************************************)
Row == [type : {"ISDOMAIN", "ISVCPU", "ISTHREAD"}, pid : Pids,
        utime : Nat, dutime : Nat, exits : Nat, dexits : Nat,
        life : Ids, vlife : Ids, grew : Int]

(***************************************************************************)
(* struct domain as a guest.  life (whose stat was read) and since (the    *)
(* clock at that read) are history.                                        *)
(***************************************************************************)
Dom == [id : Ids, pid : Pids, vmname : Guests \cup {NoGuest},
        utime : Nat, dutime : Nat, dexits : Nat,
        nlwp : Nat, smp_vcpus : Nat, threads : Seq(Row),
        life : Ids, since : Ids]

Pcs == {"idle", "rundir", "files", "stat", "opentask", "list", "tasks",
        "deltas"}

SamplerTypeOK ==
    /\ pc \in Pcs
    /\ now \in Seq(Dom)
    /\ pre \in Seq(Dom)
    /\ DOMAIN vcpu_list \subseteq Tids
    /\ vcpu_list \in [DOMAIN vcpu_list -> [exits : Nat, life : Ids]]
    /\ names \in SUBSET Guests
    /\ file \in Guests \cup {NoGuest}
    /\ dir \in Ids
    /\ tasks \in Seq(Tids)
    /\ slot \in Nat
    /\ di \in Nat
    /\ ti \in Nat
    /\ mark \in [Tids -> [life : Ids, work : Nat, grew : Int]]
    /\ scanned \in [ids : SUBSET Ids, clock : Ids]

TypeOK == HostTypeOK /\ SamplerTypeOK
-----------------------------------------------------------------------------
(***************************************************************************)
(* Records.                                                                *)
(***************************************************************************)

\* A slot of the threads array after memset.
ZeroRow ==
    [type |-> "ISDOMAIN", pid |-> NoTid, utime |-> 0, dutime |-> 0,
     exits |-> 0, dexits |-> 0, life |-> 0, vlife |-> 0, grew |-> 0]

\* A slot whose stat file was gone when it was opened.
LostRow(t) == [ZeroRow EXCEPT !.type = "ISTHREAD", !.pid = t]

\* What add_domains appends, with what set_domain reads before the stat.
NewDom(pid, id) ==
    [id |-> id, pid |-> pid, vmname |-> NoGuest, utime |-> 0, dutime |-> 0,
     dexits |-> 0, nlwp |-> 0, smp_vcpus |-> 0, threads |-> <<>>,
     life |-> 0, since |-> 0]

\* pop_domains
Pop(list) == SubSeq(list, 1, Len(list) - 1)

\* get_vcpu_stat leaves the counters at zero for a tid it does not find, and
\* its result is not negative then either.
VcpuStat(t) ==
    IF t \in DOMAIN vcpu_list THEN vcpu_list[t] ELSE [exits |-> 0, life |-> 0]

VcpuRow(t) ==
    [type |-> "ISVCPU", pid |-> t, utime |-> work[t], dutime |-> 0,
     exits |-> VcpuStat(t).exits, dexits |-> 0,
     life |-> life[t], vlife |-> VcpuStat(t).life,
     grew |-> IF mark[t].life = life[t] THEN mark[t].grew ELSE 0]

ThreadRow(t) ==
    [LostRow(t) EXCEPT !.utime = work[t], !.life = life[t]]

\* Mutant: the subtraction without the comparison.
Delta_Unguarded(new, old, oldDelta) == new - old

\* DELTA_FUN: a counter that went backwards repeats the old delta.
Delta(new, old, oldDelta) == IF new >= old THEN new - old ELSE oldDelta

\* Mutant: the first domain, whatever its id.
DomainFromId_First(id, list, k) == k = 1

\* get_domain_from_id(id, list) returns list[k].
DomainFromId(id, list, k) ==
    list[k].id = id /\ \A l \in 1..(k - 1) : list[l].id # id

\* Mutant: the thread in the same slot, whatever its pid.
ThreadFromPid_SameSlot(pid, dom, k) == k = ti /\ k <= dom.nlwp

\* get_thread_from_pid(pid, dom) returns dom.threads[k].
ThreadFromPid(pid, dom, k) ==
    /\ k <= dom.nlwp
    /\ dom.threads[k].pid = pid
    /\ \A l \in 1..(k - 1) : dom.threads[l].pid # pid

\* refresh_delta_stat, and refresh_delta_vcpu_stat for a vCPU.
RefreshRow(new, old) ==
    [new EXCEPT
        !.dutime = Delta(new.utime, old.utime, old.dutime),
        !.dexits = IF new.type = "ISVCPU"
                   THEN Delta(new.exits, old.exits, old.dexits) ELSE @]
-----------------------------------------------------------------------------
SamplerInit ==
    /\ pc = "idle"
    /\ now = <<>> /\ pre = <<>>
    /\ vcpu_list = [t \in {} |-> [exits |-> 0, life |-> 0]]
    /\ names = {} /\ file = NoGuest
    /\ dir = 0 /\ tasks = <<>> /\ slot = 0
    /\ di = 0 /\ ti = 0
    /\ mark = [t \in Tids |-> [life |-> 0, work |-> 0, grew |-> 0]]
    /\ scanned = [ids |-> {}, clock |-> 0]

\* Mutant: an empty sample does not replace the last one.
Rotate_KeepsOld == pre' = (IF now = <<>> THEN pre ELSE now) /\ now' = <<>>

\* Mutant: init_domains(now) is forgotten.
Rotate_KeepsTable == pre' = now /\ now' = now

\* refresh_domains saves the last sample: pre takes over now's array.
Rotate == pre' = now /\ now' = <<>>

(***************************************************************************)
(* get_vcpu_list                                                           *)
(***************************************************************************)
\* debugfs cannot be opened: the refresh ends with an empty sample.
VcpuListFails ==
    /\ pc = "idle"
    /\ Rotate
    /\ scanned' = [ids |-> {}, clock |-> 0]
    /\ UNCHANGED <<pc, vcpu_list, readVars, loopVars, mark>>

\* The exits of t since the read of vcpu_stat that mark remembers.
Grown(t) == work[t] - (IF mark[t].life = life[t] THEN mark[t].work ELSE 0)

ReadVcpuList ==
    /\ pc = "idle"
    /\ Rotate
    /\ vcpu_list' = [t \in Oldest(MaxVcpus, VcpuThreads) |->
                        [exits |-> work[t], life |-> life[t]]]
    /\ mark' = [t \in Tids |->
                   IF t \in VcpuThreads
                   THEN [life |-> life[t], work |-> work[t],
                         grew |-> Grown(t)]
                   ELSE [life |-> 0, work |-> 0, grew |-> 0]]
    /\ scanned' = [ids |-> {}, clock |-> 0]
    /\ pc' = "rundir"
    /\ UNCHANGED <<readVars, loopVars>>

(***************************************************************************)
(* get_qemu_id                                                             *)
(***************************************************************************)
\* /var/run/libvirt/qemu cannot be opened; the loop over now finds nothing.
RunDirFails ==
    /\ pc = "rundir"
    /\ pc' = "idle"
    /\ UNCHANGED <<tables, vcpu_list, readVars, loopVars, mark, scanned>>

OpenRunDir ==
    /\ pc = "rundir"
    /\ names' = {g \in Guests : pidfile[g] # NoTid}
    /\ scanned' = [ids |-> {gid[g] : g \in Guests} \ {0}, clock |-> starts]
    /\ pc' = "files"
    /\ UNCHANGED <<tables, vcpu_list, file, dir, tasks, slot, loopVars, mark>>

\* Mutant: option -p is not looked at.
Identified_Any(g) == Alive(pidfile[g])

\* set_domain reads a pid and finds the id of its cgroup, and wants the id.
Identified(g) ==
    /\ Alive(pidfile[g])
    /\ MonitorId >= 0 => gid[owner[pidfile[g]]] = MonitorId

\* add_domains; set_domain up to the filter.
AddDomain(g) ==
    /\ pc = "files"
    /\ g \in names
    /\ Identified(g)
    /\ now' = Append(now, NewDom(pidfile[g], gid[owner[pidfile[g]]]))
    /\ names' = names \ {g}
    /\ file' = g
    /\ pc' = "stat"
    /\ UNCHANGED <<pre, vcpu_list, dir, tasks, slot, loopVars, mark, scanned>>

\* Mutant: a pid file that is of no use ends the scan.
SkipPidFile_Stops(g) ==
    /\ pc = "files"
    /\ g \in names
    /\ ~ Identified(g)
    /\ names' = {}
    /\ UNCHANGED <<pc, tables, vcpu_list, file, dir, tasks, slot, loopVars,
                   mark, scanned>>

\* Mutant: readdir is not called again after it.
SkipPidFile_Again(g) ==
    /\ pc = "files"
    /\ g \in names
    /\ ~ Identified(g)
    /\ UNCHANGED <<pc, tables, vcpu_list, names, file, dir, tasks, slot,
                   loopVars, mark, scanned>>

\* add_domains; set_domain fails before the stat; pop_domains.
SkipPidFile(g) ==
    /\ pc = "files"
    /\ g \in names
    /\ ~ Identified(g)
    /\ names' = names \ {g}
    /\ UNCHANGED <<pc, tables, vcpu_list, file, dir, tasks, slot, loopVars,
                   mark, scanned>>

\* Mutant: a domain that fails ends the scan.
DropDomain_Stops ==
    /\ now' = Pop(now)
    /\ names' = {}
    /\ file' = NoGuest
    /\ pc' = "files"
    /\ UNCHANGED <<pre, vcpu_list, dir, tasks, slot, loopVars, mark, scanned>>

\* set_domain fails after the domain was appended.
DropDomain ==
    /\ now' = Pop(now)
    /\ file' = NoGuest
    /\ pc' = "files"
    /\ UNCHANGED <<pre, vcpu_list, names, dir, tasks, slot, loopVars, mark,
                   scanned>>

\* The domain being built: the last of now.
Building == now[Len(now)]
Build(dom) == now' = [now EXCEPT ![Len(now)] = dom]

\* get_proc_stat of the guest's process.
ReadDomainStat ==
    /\ pc = "stat"
    /\ Alive(Building.pid)
    /\ LET g == owner[Building.pid]
       IN Build([Building EXCEPT !.utime = total[g],
                                 !.nlwp = Cardinality(Threads(g)),
                                 !.life = gid[g], !.since = starts])
    /\ pc' = "opentask"
    /\ UNCHANGED <<pre, vcpu_list, readVars, loopVars, mark, scanned>>

DomainStatFails == pc = "stat" /\ ~ Alive(Building.pid) /\ DropDomain

(***************************************************************************)
(* get_child_pid                                                           *)
(***************************************************************************)
\* opendir; a zeroed threads array of nlwp slots.
OpenTaskDir ==
    /\ pc = "opentask"
    /\ Alive(Building.pid)
    /\ Building.nlwp > 0
    /\ Build([Building EXCEPT
                  !.threads = [k \in 1..Building.nlwp |-> ZeroRow]])
    /\ dir' = gid[owner[Building.pid]]
    /\ slot' = 1
    /\ pc' = "list"
    /\ UNCHANGED <<pre, vcpu_list, names, file, tasks, loopVars, mark,
                   scanned>>

\* Mutant: the domain is not popped when its task directory cannot be read.
TaskDirFails_NoPop ==
    /\ pc = "opentask"
    /\ ~ (Alive(Building.pid) /\ Building.nlwp > 0)
    /\ file' = NoGuest
    /\ pc' = "files"
    /\ UNCHANGED <<tables, vcpu_list, names, dir, tasks, slot, loopVars, mark,
                   scanned>>

TaskDirFails ==
    /\ pc = "opentask"
    /\ ~ (Alive(Building.pid) /\ Building.nlwp > 0)
    /\ DropDomain

\* The first readdir fetches the entries.  There are none if the process the
\* directory belongs to is gone.
ListTasks ==
    /\ pc = "list"
    /\ tasks' \in Listings({t \in Tids : Alive(t) /\ gid[owner[t]] = dir})
    /\ pc' = "tasks"
    /\ UNCHANGED <<tables, vcpu_list, names, file, dir, slot, loopVars, mark,
                   scanned>>

\* /proc/<pid>/task/<t>/stat exists.
TaskStat(t) == Alive(t) /\ Alive(Building.pid) /\ owner[t] = owner[Building.pid]

\* readdir returns the next entry: the loop wants a free slot for it.
NextTask ==
    /\ pc = "tasks"
    /\ tasks # <<>>
    /\ slot <= Building.nlwp
    /\ tasks' = Tail(tasks)
    /\ UNCHANGED <<pc, pre, vcpu_list, names, file, dir, loopVars, mark,
                   scanned>>

ReadVcpu ==
    /\ NextTask
    /\ LET t == Head(tasks)
       IN /\ TaskStat(t) /\ vcpu[t]
          /\ Build([Building EXCEPT !.threads[slot] = VcpuRow(t),
                                    !.smp_vcpus = @ + 1])
    /\ slot' = slot + 1

\* Mutant: i++ is forgotten.
ReadThread_SameSlot ==
    /\ NextTask
    /\ LET t == Head(tasks)
       IN /\ TaskStat(t) /\ ~ vcpu[t]
          /\ Build([Building EXCEPT !.threads[slot] = ThreadRow(t)])
    /\ UNCHANGED slot

ReadThread ==
    /\ NextTask
    /\ LET t == Head(tasks)
       IN /\ TaskStat(t) /\ ~ vcpu[t]
          /\ Build([Building EXCEPT !.threads[slot] = ThreadRow(t)])
    /\ slot' = slot + 1

\* Mutant: i++ for a thread whose stat is gone, too.
LoseThread_Advances ==
    /\ NextTask
    /\ LET t == Head(tasks)
       IN /\ ~ TaskStat(t)
          /\ Build([Building EXCEPT !.threads[slot] = LostRow(t)])
    /\ slot' = slot + 1

\* The thread ended since readdir fetched it: its slot is the next one's.
LoseThread ==
    /\ NextTask
    /\ LET t == Head(tasks)
       IN /\ ~ TaskStat(t)
          /\ Build([Building EXCEPT !.threads[slot] = LostRow(t)])
    /\ UNCHANGED slot

\* closedir; the rest of set_domain.  A name that is too long drops the domain.
EndTasks ==
    /\ pc = "tasks"
    /\ tasks = <<>> \/ slot > Building.nlwp
    /\ IF file \in LongNames
       THEN now' = Pop(now)
       ELSE Build([Building EXCEPT !.vmname = file])
    /\ file' = NoGuest
    /\ dir' = 0 /\ tasks' = <<>> /\ slot' = 0
    /\ pc' = "files"
    /\ UNCHANGED <<pre, vcpu_list, names, loopVars, mark, scanned>>

\* readdir returns NULL; get_qemu_id returns.
CloseRunDir ==
    /\ pc = "files"
    /\ names = {}
    /\ di' = 1
    /\ ti' = 0
    /\ pc' = "deltas"
    /\ UNCHANGED <<tables, vcpu_list, readVars, mark, scanned>>
-----------------------------------------------------------------------------
(***************************************************************************)
(* The loop of refresh_domains, and refresh_threads within it.             *)
(***************************************************************************)
deltaFrame == UNCHANGED <<pre, vcpu_list, readVars, mark, scanned>>

\* No domain of that id in the last sample: all its deltas stay at zero.
SkipNewDomain ==
    /\ pc = "deltas" /\ di \in 1..Len(now) /\ ti = 0
    /\ \A k \in 1..Len(pre) : pre[k].id # now[di].id
    /\ di' = di + 1
    /\ UNCHANGED <<pc, now, ti>>
    /\ deltaFrame

RefreshDomain ==
    /\ pc = "deltas" /\ di \in 1..Len(now) /\ ti = 0
    /\ \E k \in 1..Len(pre) :
        /\ DomainFromId(now[di].id, pre, k)
        /\ now' = [now EXCEPT ![di].dutime =
                      Delta(now[di].utime, pre[k].utime, pre[k].dutime)]
    /\ ti' = 1
    /\ UNCHANGED <<pc, di>>
    /\ deltaFrame

\* refresh_threads has a next thread, and pre[k] is the domain it looks in.
AtThread(k) ==
    /\ pc = "deltas" /\ di \in 1..Len(now) /\ ti \in 1..now[di].nlwp
    /\ DomainFromId(now[di].id, pre, k)

SkipNewThread ==
    /\ \E k \in 1..Len(pre) :
        /\ AtThread(k)
        /\ \A l \in 1..pre[k].nlwp :
            pre[k].threads[l].pid # now[di].threads[ti].pid
    /\ ti' = ti + 1
    /\ UNCHANGED <<pc, now, di>>
    /\ deltaFrame

\* Mutant: the sum is taken before the delta.
RefreshedDom_SumsFirst(d, j, old) ==
    LET row == RefreshRow(d.threads[j], old)
    IN [d EXCEPT !.threads[j] = row,
                 !.dexits = IF row.type = "ISVCPU"
                            THEN @ + d.threads[j].dexits ELSE @]

\* d once the deltas of its thread j are taken against old; sum_vcpu_stat
\* adds a vCPU's to the domain's.
RefreshedDom(d, j, old) ==
    LET row == RefreshRow(d.threads[j], old)
    IN [d EXCEPT !.threads[j] = row,
                 !.dexits = IF row.type = "ISVCPU" THEN @ + row.dexits ELSE @]

RefreshThread ==
    /\ \E k \in 1..Len(pre) : \E l \in 1..pre[k].nlwp :
        /\ AtThread(k)
        /\ ThreadFromPid(now[di].threads[ti].pid, pre[k], l)
        /\ now' = [now EXCEPT ![di] =
                      RefreshedDom(now[di], ti, pre[k].threads[l])]
    /\ ti' = ti + 1
    /\ UNCHANGED <<pc, di>>
    /\ deltaFrame

EndThreads ==
    /\ pc = "deltas" /\ di \in 1..Len(now) /\ ti > now[di].nlwp
    /\ di' = di + 1
    /\ ti' = 0
    /\ UNCHANGED <<pc, now>>
    /\ deltaFrame

\* refresh_domains returns; main shows now.
Return ==
    /\ pc = "deltas" /\ di > Len(now)
    /\ di' = 0 /\ ti' = 0
    /\ pc' = "idle"
    /\ UNCHANGED now
    /\ deltaFrame
-----------------------------------------------------------------------------
DomainSteps ==
    \/ \E g \in Guests : AddDomain(g) \/ SkipPidFile(g)
    \/ ReadDomainStat \/ DomainStatFails
    \/ OpenTaskDir \/ TaskDirFails \/ ListTasks
    \/ ReadVcpu \/ ReadThread \/ LoseThread \/ EndTasks

DeltaSteps ==
    \/ SkipNewDomain \/ RefreshDomain
    \/ SkipNewThread \/ RefreshThread
    \/ EndThreads \/ Return

RefreshSteps ==
    \/ VcpuListFails \/ ReadVcpuList
    \/ RunDirFails \/ OpenRunDir \/ CloseRunDir
    \/ DomainSteps \/ DeltaSteps

SamplerNext == RefreshSteps /\ UNCHANGED hostVars

HostMoves == HostNext /\ UNCHANGED samplerVars

Init == HostInit /\ SamplerInit

Next == SamplerNext \/ HostMoves

\* vmtop is one thread that never waits within a refresh: none of its system
\* calls blocks on a guest, so it goes on whatever the host does.
Fairness == WF_vars(SamplerNext)

Spec == Init /\ [][Next]_vars /\ Fairness
-----------------------------------------------------------------------------
(***************************************************************************)
(* Properties.  now is shown between two refreshes, and only then.         *)
(***************************************************************************)
Shown == pc = "idle"

\* The rows that domain d shows in thread mode.
Rows(d) == {d.threads[j] : j \in 1..d.nlwp}

\* o is the domain of the last sample that d is compared with.
Baseline(d, o) ==
    \E k \in 1..Len(pre) : DomainFromId(d.id, pre, k) /\ o = pre[k]

\* Row o of the last sample and row r of now were read from one incarnation
\* of one thread of the guest that d and o show.
SameThread(d, r, o) ==
    /\ r.life # 0
    /\ \E old \in {pre[k] : k \in 1..Len(pre)} :
        Baseline(d, old) /\ o \in Rows(old) /\ o.life = r.life

\* The delta of a counter that was read twice from one process or thread is
\* what the counter grew between the two reads: the last sample is kept whole,
\* and rows are matched with their own (refresh_domains, refresh_delta_stat).
UtimeExact ==
    Shown =>
        \A i \in 1..Len(now) :
            /\ \A k \in 1..Len(pre) :
                /\ DomainFromId(now[i].id, pre, k)
                /\ now[i].life = now[i].id /\ pre[k].life = pre[k].id
                => now[i].dutime = now[i].utime - pre[k].utime
            /\ \A r \in Rows(now[i]) :
                \A o \in UNION {Rows(pre[k]) : k \in 1..Len(pre)} :
                    SameThread(now[i], r, o) => r.dutime = r.utime - o.utime

\* A vCPU row's exit delta is the exits that this vCPU made between the two
\* latest reads of vcpu_stat ("get delta value of kvm exit times over time",
\* vcpu_stat.c:153), if the line it shows is its own and so was the one it is
\* compared with, or there was none.
ExitsExact ==
    Shown =>
        \A i \in 1..Len(now) : \A r \in Rows(now[i]) :
            \A o \in UNION {Rows(pre[k]) : k \in 1..Len(pre)} :
                /\ SameThread(now[i], r, o)
                /\ r.type = "ISVCPU"
                /\ r.vlife = r.life /\ o.vlife \in {o.life, 0}
                => r.dexits = r.grew

\* No index leaves an array: every loop over threads runs to nlwp, which is the
\* length of the array that was allocated, whatever became of the guest since
\* its stat was read; a domain without the array is never left in the list.
InBounds ==
    /\ \A k \in 1..Len(pre) : Len(pre[k].threads) = pre[k].nlwp
    /\ \A i \in 1..Len(now) :
        \/ Len(now[i].threads) = now[i].nlwp
        \/ i = Len(now) /\ pc \in {"stat", "opentask"}
    /\ pc \in {"stat", "opentask", "list", "tasks"} =>
        now # <<>> /\ file \in Guests
    /\ pc \in {"list", "tasks"} => slot \in 1..(Building.nlwp + 1)

\* d shows deltas only against domains and rows of list.
BasedOn(list, d) ==
    /\ d.dutime > 0 \/ d.dexits > 0 =>
        \E k \in 1..Len(list) : list[k].id = d.id
    /\ \A j \in 1..Len(d.threads) :
        d.threads[j].dutime > 0 \/ d.threads[j].dexits > 0 =>
            \E k \in 1..Len(list) : \E l \in 1..Len(list[k].threads) :
                /\ list[k].id = d.id
                /\ list[k].threads[l].pid = d.threads[j].pid

\* A row shows a delta only against a row of the same thread id in the same
\* guest's domain of the last sample, a domain only against its id: a guest,
\* a thread, or a sample after a failed one starts from zero (refresh_domains,
\* refresh_threads).
DeltaNeedsBaseline == \A i \in 1..Len(now) : BasedOn(pre, now[i])

\* The exits of a domain are those of its vCPU rows, each counted once
\* (refresh_threads, sum_vcpu_stat).
DomainSum ==
    Shown =>
        \A i \in 1..Len(now) :
            LET d == now[i]
            IN d.dexits = SumFunction([j \in 1..d.nlwp |->
                              IF d.threads[j].type = "ISVCPU"
                              THEN d.threads[j].dexits ELSE 0])

\* The threads array holds, in this order, the threads that were read, no
\* tid twice, at most one slot of a thread that ended while it was read, and
\* zeroed slots; smp_vcpus counts the vCPU rows (get_child_pid).
ThreadSlots ==
    Shown =>
        \A i \in 1..Len(now) :
            LET d == now[i]
                row == d.threads
            IN /\ Len(row) = d.nlwp
               /\ \E n \in 0..d.nlwp :
                    /\ \A j \in 1..n : row[j].life # 0
                    /\ \A j \in (n + 1)..d.nlwp : row[j].life = 0
                    /\ \A j \in (n + 2)..d.nlwp : row[j] = ZeroRow
               /\ \A j, k \in 1..d.nlwp :
                    row[j].pid = row[k].pid => j = k \/ row[j].pid = NoTid
               /\ d.smp_vcpus =
                    Cardinality({j \in 1..d.nlwp : row[j].type = "ISVCPU"})

\* A thread that its guest had when the guest's stat was read, and that is
\* still there, has a row: nlwp slots are enough however many threads end or
\* start while the task directory is read (get_child_pid).  (A guest can also
\* be entered by a stale pid file, under a tid that is a lesser thread's; if
\* that tid is then reused, the entry gets the rows of another guest.)
ThreadsComplete ==
    Shown =>
        \A i \in 1..Len(now) : \A t \in Tids :
            /\ Alive(t)
            /\ gid[owner[t]] = now[i].id /\ now[i].life = now[i].id
            /\ leader[owner[t]] = now[i].pid
            /\ life[t] <= now[i].since
            => \E r \in Rows(now[i]) : r.pid = t /\ r.life = life[t]

\* A guest that ran when the pid files were listed, and still does, is shown,
\* whatever the guests listed before it went through, unless an option or its
\* name keeps it out (get_qemu_id, set_domain).
GuestsComplete ==
    Shown =>
        \A g \in Guests :
            /\ gid[g] \in scanned.ids
            /\ MonitorId >= 0 => gid[g] = MonitorId
            /\ g \notin LongNames
            => \E i \in 1..Len(now) : now[i].id = gid[g]

\* A sample shows only guests that ran at some time since the pid files were
\* listed for it: nothing of an earlier sample, and no pid file whose process
\* is gone (clear_domains, init_domains, set_domain).
ShownGuestsLive ==
    Shown =>
        \A i \in 1..Len(now) :
            now[i].id \in scanned.ids \/ now[i].id > scanned.clock

\* With -p only that guest is shown, and every domain that is shown carries
\* a name that fits (set_domain).
OnlyAsked ==
    Shown =>
        \A i \in 1..Len(now) :
            /\ MonitorId >= 0 => now[i].id = MonitorId
            /\ now[i].vmname \in Guests \ LongNames

\* Thread rows are told from domain rows by "|_" in column DID (doc/FAQ:5-11),
\* which print_domain_field shows for every type but ISDOMAIN.
ThreadRowsMarked ==
    Shown =>
        \A i \in 1..Len(now) : \A r \in Rows(now[i]) : r.type # "ISDOMAIN"

\* Every refresh ends: vmtop gets to show a sample and to read its keys again
\* and again, whatever the host does meanwhile (the loop of main).
RefreshReturns == []<>Shown
=============================================================================
