-------------------------------- MODULE Usage --------------------------------
(***************************************************************************)
(* The columns %CPU, %GUE and %HYP: from the counters that a sample reads, *)
(* through the delta macros (type.h) and the sums over the vCPUs of a      *)
(* domain (vcpu_stat.c), to the clamped percentages (print_domain_field    *)
(* and justify_usage, vmtop.c).                                            *)
(*                                                                         *)
(* One domain whose vCPU threads are read by every sample.  %CPU comes     *)
(* from the utime and stime of /proc, in jiffies, read for the process and *)
(* for each thread at a moment of its own; %GUE and %HYP come from         *)
(* vcpu_stat, in the unit of the clock here, read for all vCPUs at once    *)
(* before that.  All counters are u64.                                     *)
(***************************************************************************)
EXTENDS Integers, FiniteSets, Functions

CONSTANTS
    Vcpus,      \* the vCPU threads of the domain
    Delays,     \* arguments of -d
    Jiffy,      \* ticks of the clock in a jiffy
    ClkTck,     \* sysconf(_SC_CLK_TCK): jiffies in a second
    Works,      \* what a vCPU can do in a tick
    OtherWorks, \* what another thread of the process can do in it
    U64,        \* 2^64
    MaxLives,   \* bound: how often a tid is reused, of all of them
    MaxTicks,   \* bound: ticks
    MaxSamples  \* bound: samples

ASSUME UsageAssumption ==
    /\ IsFiniteSet(Vcpus) /\ Vcpus # {}
    /\ Delays \subseteq Nat
    /\ {Jiffy, ClkTck, U64} \subseteq Nat \ {0}
    /\ Works \subseteq {"idle", "guest", "user", "sys"}
    /\ OtherWorks \subseteq {"idle", "sys"}
    /\ {MaxLives, MaxTicks, MaxSamples} \subseteq Nat

\* No counter wraps, nor do the vCPUs' together (64 bits of nanoseconds are
\* 584 years); a difference may.
ASSUME TimeAssumption == MaxTicks * Cardinality(Vcpus) < U64

VARIABLES
    delay_time,
    ticks,      \* the clock
    life,       \* which thread it is that has the tid
    counter,    \* the time of that thread
    total,      \* the time of the process
    pc,         \* what the sample does next
    vcpu_list,  \* what vcpu_stat showed, and when and of which threads
    rows,       \* scr_pre, and scr_cur once complete: the threads
    dom,        \* the same: the domain
    now,        \* scr_cur: the domain and the threads that were read
    left,       \* the threads that are to be read
    samples,    \* history: how many are complete
    begun, taken\* history: when the latest two read vcpu_stat

vars == <<delay_time, ticks, life, counter, total, pc, vcpu_list, rows, dom,
          now, left, samples, begun, taken>>

\* What the kernel counts of a thread.
Times == [user : Nat, sys : Nat, guest : Nat]

\* In /proc, and in vcpu_stat.
Stat == [utime : Nat, stime : Nat]
VcpuStat == [vcpu_utime : Nat, vcpu_stime : Nat, gtime : Nat]

\* A thread in the table, its deltas of both.  at and was (when its stat was
\* read, now and by the sample before), listed (which thread vcpu_stat showed)
\* and stays (all four reads were of one thread) are history.
Row == [stat : Stat, vcpu : VcpuStat, dstat : Stat, dvcpu : VcpuStat,
        at : Nat, was : Nat, listed : Nat, stays : BOOLEAN]

\* The domain in the table: the stat of its process, and the sums of its vCPUs.
Dom == [stat : Stat, dstat : Stat, sum : VcpuStat]

NoTime == [user |-> 0, sys |-> 0, guest |-> 0]
NoStat == [utime |-> 0, stime |-> 0]
NoVcpuStat == [vcpu_utime |-> 0, vcpu_stime |-> 0, gtime |-> 0]

TypeOK ==
    /\ delay_time \in Delays
    /\ ticks \in 0..MaxTicks
    /\ life \in [Vcpus -> Nat]
    /\ counter \in [Vcpus -> Times]
    /\ total \in [user : Nat, sys : Nat]
    /\ pc \in {"vcpu_list", "domain", "threads"}
    /\ vcpu_list \in [Vcpus -> [vcpu : VcpuStat, listed : Nat]]
    /\ rows \in [Vcpus -> Row]
    /\ dom \in Dom
    /\ now \in [dom : Stat,
                threads : [Vcpus -> [stat : Stat, at : Nat, life : Nat]]]
    /\ left \in SUBSET Vcpus
    /\ samples \in 0..MaxSamples
    /\ begun \in 0..taken /\ taken \in 0..ticks

Init ==
    /\ delay_time \in Delays
    /\ ticks = 0
    /\ life = [t \in Vcpus |-> 0]
    /\ counter = [t \in Vcpus |-> NoTime]
    /\ total = [user |-> 0, sys |-> 0]
    /\ pc = "vcpu_list"
    /\ vcpu_list = [t \in Vcpus |-> [vcpu |-> NoVcpuStat, listed |-> 0]]
    /\ rows = [t \in Vcpus |->
                [stat |-> NoStat, vcpu |-> NoVcpuStat, dstat |-> NoStat,
                 dvcpu |-> NoVcpuStat, at |-> 0, was |-> 0, listed |-> 0,
                 stays |-> FALSE]]
    /\ dom = [stat |-> NoStat, dstat |-> NoStat, sum |-> NoVcpuStat]
    /\ now = [dom |-> NoStat,
              threads |-> [t \in Vcpus |->
                            [stat |-> NoStat, at |-> 0, life |-> 0]]]
    /\ left = {}
    /\ samples = 0 /\ begun = 0 /\ taken = 0
-----------------------------------------------------------------------------
(***************************************************************************)
(* The host.                                                               *)
(***************************************************************************)
\* c after a tick of work w: guest time is part of the user time.
Worked(c, w) ==
    [user |-> c.user + (IF w \in {"guest", "user"} THEN 1 ELSE 0),
     sys |-> c.sys + (IF w = "sys" THEN 1 ELSE 0),
     guest |-> c.guest + (IF w = "guest" THEN 1 ELSE 0)]

\* The tick in which every vCPU does work[t], and a thread of the process that
\* is no vCPU does other.
Tick(work, other) ==
    /\ ticks < MaxTicks /\ samples < MaxSamples
    /\ ticks' = ticks + 1
    /\ counter' = [t \in Vcpus |-> Worked(counter[t], work[t])]
    /\ LET sum(w) == Cardinality({t \in Vcpus : work[t] = w})
                        + (IF other = w THEN 1 ELSE 0)
       IN total' = [user |-> total.user + sum("guest") + sum("user"),
                    sys |-> total.sys + sum("sys")]
    /\ UNCHANGED <<delay_time, life, pc, vcpu_list, rows, dom, now, left,
                   samples, begun, taken>>

\* The vCPU is unplugged, and a new one gets its tid.
Replace(t) ==
    /\ counter[t] # NoTime /\ samples < MaxSamples
    /\ SumFunction(life) < MaxLives
    /\ life' = [life EXCEPT ![t] = @ + 1]
    /\ counter' = [counter EXCEPT ![t] = NoTime]
    /\ UNCHANGED <<delay_time, ticks, total, pc, vcpu_list, rows, dom, now,
                   left, samples, begun, taken>>

\* /proc/<pid>/stat and /proc/<pid>/task/<tid>/stat: whole jiffies.
InJiffies(c) == [utime |-> c.user \div Jiffy, stime |-> c.sys \div Jiffy]

\* A line of vcpu_stat.
InTicks(c) == [vcpu_utime |-> c.user, vcpu_stime |-> c.sys, gtime |-> c.guest]
-----------------------------------------------------------------------------
(***************************************************************************)
(* A sample, read by read (refresh_domains).                               *)
(***************************************************************************)
\* get_vcpu_list: one read, which begins a sample.
GetVcpuList ==
    /\ pc = "vcpu_list" /\ samples < MaxSamples
    /\ pc' = "domain"
    /\ vcpu_list' = [t \in Vcpus |-> [vcpu |-> InTicks(counter[t]),
                                      listed |-> life[t]]]
    /\ begun' = taken /\ taken' = ticks
    /\ UNCHANGED <<delay_time, ticks, life, counter, total, rows, dom, now,
                   left, samples>>

\* get_proc_stat of the domain
SetDomain ==
    /\ pc = "domain"
    /\ pc' = "threads"
    /\ now' = [now EXCEPT !.dom = InJiffies(total)]
    /\ left' = Vcpus
    /\ UNCHANGED <<delay_time, ticks, life, counter, total, vcpu_list, rows,
                   dom, samples, begun, taken>>

\* get_proc_stat of thread t, the next that readdir lists.
GetThread(t) ==
    /\ pc = "threads" /\ t \in left
    /\ left' = left \ {t}
    /\ now' = [now EXCEPT !.threads[t] = [stat |-> InJiffies(counter[t]),
                                          at |-> ticks, life |-> life[t]]]
    /\ UNCHANGED <<delay_time, ticks, life, counter, total, pc, vcpu_list,
                   rows, dom, samples, begun, taken>>

\* Mutant: the subtraction without the comparison.
Delta_Unguarded(new, old, oldDelta) == new - old

\* DELTA_FUN
Delta(new, old, oldDelta) == IF new >= old THEN new - old ELSE oldDelta

\* refresh_delta_stat
DeltaStat(new, old, oldDelta) ==
    [utime |-> Delta(new.utime, old.utime, oldDelta.utime),
     stime |-> Delta(new.stime, old.stime, oldDelta.stime)]

\* refresh_delta_vcpu_stat
DeltaVcpuStat(new, old, oldDelta) ==
    [vcpu_utime |-> Delta(new.vcpu_utime, old.vcpu_utime, oldDelta.vcpu_utime),
     vcpu_stime |-> Delta(new.vcpu_stime, old.vcpu_stime, oldDelta.vcpu_stime),
     gtime |-> Delta(new.gtime, old.gtime, oldDelta.gtime)]

\* SUM_FUN over the deltas d of the vCPUs.
SumOf(d) == SumFunction(d) % U64

\* Mutant: the sums are taken before refresh_threads has made the deltas.
SumVcpuStat_Early(row) ==
    [vcpu_utime |-> SumOf([t \in Vcpus |-> rows[t].dvcpu.vcpu_utime]),
     vcpu_stime |-> SumOf([t \in Vcpus |-> rows[t].dvcpu.vcpu_stime]),
     gtime |-> SumOf([t \in Vcpus |-> rows[t].dvcpu.gtime])]

\* sum_vcpu_stat of every vCPU.
SumVcpuStat(row) ==
    [vcpu_utime |-> SumOf([t \in Vcpus |-> row[t].dvcpu.vcpu_utime]),
     vcpu_stime |-> SumOf([t \in Vcpus |-> row[t].dvcpu.vcpu_stime]),
     gtime |-> SumOf([t \in Vcpus |-> row[t].dvcpu.gtime])]

\* The row of t from what was read of it.  In the first sample there is no row
\* to compare it with, and the deltas stay 0.
NewRow(t) ==
    LET stat == now.threads[t].stat
        vcpu == vcpu_list[t].vcpu
    IN [stat |-> stat, vcpu |-> vcpu,
        dstat |-> IF samples = 0 THEN NoStat
                  ELSE DeltaStat(stat, rows[t].stat, rows[t].dstat),
        dvcpu |-> IF samples = 0 THEN NoVcpuStat
                  ELSE DeltaVcpuStat(vcpu, rows[t].vcpu, rows[t].dvcpu),
        at |-> now.threads[t].at, was |-> rows[t].at,
        listed |-> vcpu_list[t].listed,
        stays |-> samples > 0 /\ now.threads[t].life = rows[t].listed]

\* refresh_delta_stat of the domain, and refresh_threads.
RefreshDeltas ==
    /\ pc = "threads" /\ left = {}
    /\ pc' = "vcpu_list"
    /\ rows' = [t \in Vcpus |-> NewRow(t)]
    /\ dom' = [stat |-> now.dom,
               dstat |-> IF samples = 0 THEN NoStat
                         ELSE DeltaStat(now.dom, dom.stat, dom.dstat),
               sum |-> SumVcpuStat(rows')]
    /\ samples' = samples + 1
    /\ UNCHANGED <<delay_time, ticks, life, counter, total, vcpu_list, now,
                   left, begun, taken>>
-----------------------------------------------------------------------------
(***************************************************************************)
(* A column, in percent without its decimal.                               *)
(***************************************************************************)
\* What a double has besides numbers, for a division by 0.
NaN == -1
Inf == 100 * U64 * (Cardinality(Vcpus) + 1)

\* (double)time * 100 / second / delay_time, where a second has ClkTck jiffies
\* or Jiffy * ClkTck ticks (10^9 nanoseconds).
Percent(time, second) ==
    IF delay_time = 0 THEN IF time = 0 THEN NaN ELSE Inf
    ELSE (time * 100) \div (second * delay_time)

Second == Jiffy * ClkTck

\* justify_usage
JustifyUsage(usage, smp_vcpus) ==
    IF usage >= 100 * smp_vcpus THEN 100 * smp_vcpus ELSE usage

\* Mutant: guest time is not taken off the user time that includes it.
HypTime_WithGuest(d) == (d.vcpu_utime + d.vcpu_stime) % U64

\* case FD_HYP: hyp_time
HypTime(d) == (d.vcpu_utime - d.gtime + d.vcpu_stime) % U64

\* case FD_CPU: cpu_jeffies
CpuTime(d) == (d.utime + d.stime) % U64

Cpu(t) == JustifyUsage(Percent(CpuTime(rows[t].dstat), ClkTck), 1)
Gue(t) == JustifyUsage(Percent(rows[t].dvcpu.gtime, Second), 1)
Hyp(t) == JustifyUsage(Percent(HypTime(rows[t].dvcpu), Second), 1)

DomCpu ==
    JustifyUsage(Percent(CpuTime(dom.dstat), ClkTck), Cardinality(Vcpus))
DomGue == JustifyUsage(Percent(dom.sum.gtime, Second), Cardinality(Vcpus))
DomHyp == JustifyUsage(Percent(HypTime(dom.sum), Second), Cardinality(Vcpus))
-----------------------------------------------------------------------------
Next ==
    \/ \E work \in [Vcpus -> Works], other \in OtherWorks :
        Tick(work, other)
    \/ \E t \in Vcpus : Replace(t)
    \/ GetVcpuList \/ SetDomain
    \/ \E t \in Vcpus : GetThread(t)
    \/ RefreshDeltas

Spec == Init /\ [][Next]_vars
-----------------------------------------------------------------------------
(***************************************************************************)
(* Properties of a complete sample, which is what the screen shows.        *)
(***************************************************************************)
\* A sample is complete, and -d is not 0.
Complete == pc = "vcpu_list" /\ samples > 1 /\ delay_time > 0

\* The latest two samples read vcpu_stat at most delay_time seconds apart.
InTime == taken - begun <= delay_time * Second

\* How many ticks more than delay_time seconds they were apart.
Late == IF InTime THEN 0 ELSE (taken - begun) - delay_time * Second

\* What time n makes of a usage, with what is lost of four counters in whole
\* jiffies and of a usage without decimals.
Inexact(n) == ((n + 2 * (Jiffy - 1)) * 100) \div (Second * delay_time) + 1

\* %HYP is the rest of the %CPU of a thread without its %GUE, though the one
\* is of other counters in other units: they differ by what the thread can
\* have done between the read of vcpu_stat and that of its stat (in the earlier
\* sample for one direction, in the later for the other), by jiffies that are
\* not whole, and by what the sample is late ("%HYP: cpu time in hypervisor",
\* doc/FAQ:26; print_domain_field).
HypIsRest ==
    Complete =>
        \A t \in Vcpus :
            rows[t].stays =>
                /\ Cpu(t) <= Gue(t) + Hyp(t) + Inexact(rows[t].at - taken) + 1
                /\ Gue(t) + Hyp(t)
                        <= Cpu(t) + Inexact((rows[t].was - begun) + Late)

\* The domain shows the time of its vCPUs in the guest and in the hypervisor,
\* none lost and none counted twice, and neither the sums nor the clamp cut it
\* (sum_vcpu_stat).
DomainShowsVcpus ==
    Complete /\ InTime /\ (\A t \in Vcpus : rows[t].stays) =>
        LET hyp == [t \in Vcpus |-> HypTime(rows[t].dvcpu)]
            guest == [t \in Vcpus |-> rows[t].dvcpu.gtime]
        IN /\ DomHyp = Percent(SumFunction(hyp), Second)
           /\ DomGue = Percent(SumFunction(guest), Second)
=============================================================================
