----------------------------- MODULE UsageProofs -----------------------------
(***************************************************************************)
(* The percentages fit each other, for any number of vCPUs, any delay, any *)
(* jiffy and any times of the reads: what the deltas of a sample are, as   *)
(* long as a thread stays, and what the sums and the divisions by the      *)
(* delay make of them.                                                     *)
(***************************************************************************)
EXTENDS Usage, SumProofs

USE UsageAssumption

(***************************************************************************)
(* Arithmetic.                                                             *)
(***************************************************************************)
LEMMA Constants ==
    /\ Jiffy \in Nat \ {0} /\ ClkTck \in Nat \ {0} /\ U64 \in Nat \ {0}
    /\ MaxTicks \in Nat /\ MaxSamples \in Nat
    /\ Second \in Nat \ {0}
BY DEF Second

LEMMA Remainder ==
    ASSUME NEW n \in Nat \ {0}, NEW x \in Int
    PROVE  /\ x % n \in 0..(n - 1)
           /\ 0 <= x /\ x < n => x % n = x
OBVIOUS

\* A sum of u64 that 64 bits hold.
LEMMA Unwrapped == \A x \in Nat : x < U64 => x % U64 = x
BY Constants, Remainder

LEMMA Quotient ==
    ASSUME NEW d \in Nat \ {0}, NEW x \in Nat
    PROVE  /\ x \div d \in Nat
           /\ \E m \in 0..(d - 1) : x = (x \div d) * d + m
<1>1. x \div d \in Nat /\ x % d \in 0..(d - 1) /\ x = (x \div d) * d + (x % d)
  OBVIOUS
<1> QED BY <1>1

\* A product with d that exceeds q products by less than d is of at most q.
LEMMA FewerParts ==
    ASSUME NEW d \in Nat \ {0}, NEW p \in Int, NEW q \in Int,
           p * d < q * d + d
    PROVE  p <= q
<1> SUFFICES ASSUME p >= q + 1 PROVE FALSE
  OBVIOUS
<1>1. PICK e \in Nat : p = (q + 1) + e
  <2>1. p - (q + 1) \in Nat /\ p = (q + 1) + (p - (q + 1))
    OBVIOUS
  <2> QED BY <2>1
<1>2. p * d = q * d + d + e * d /\ e * d >= 0
  BY <1>1
<1> QED BY <1>2

LEMMA PartsAtMost ==
    ASSUME NEW d \in Nat \ {0}, NEW x \in Nat, NEW k \in Nat, x <= k * d
    PROVE  x \div d <= k
<1>1. PICK p \in Nat, i \in 0..(d - 1) : p = x \div d /\ x = p * d + i
  BY SMTT(30), Quotient
<1>2. p * d \in Int /\ k * d \in Int
  OBVIOUS
<1>3. p * d < k * d + d
  BY <1>1, <1>2
<1> QED BY <1>1, <1>3, FewerParts

\* The parts of d in n hundredths, with what is left.
LEMMA Hundredths ==
    ASSUME NEW d \in Nat \ {0}, NEW n \in Nat
    PROVE  /\ (n * 100) \div d \in Nat
           /\ ((n * 100) \div d) * d <= 100 * n
           /\ 100 * n < ((n * 100) \div d) * d + d
<1>1. PICK x \in Nat : x = n * 100 /\ x = 100 * n
  OBVIOUS
<1>2. x \div d \in Nat /\ \E m \in 0..(d - 1) : x = (x \div d) * d + m
  BY Quotient
<1>3. PICK q \in Nat : q = x \div d
  BY <1>2
<1>4. PICK m \in 0..(d - 1) : x = q * d + m
  BY <1>2, <1>3
<1>5. q * d \in Int
  OBVIOUS
<1> QED BY <1>1, <1>3, <1>4, <1>5

\* The usages c, g and h, in parts of d, of the times p = about u + v, u and v:
\* e tells p and u + v apart, and i is what becomes of e.
LEMMA PartsAlike ==
    ASSUME NEW d \in Nat \ {0}, NEW c \in Nat, NEW g \in Nat, NEW h \in Nat,
           NEW i \in Nat, NEW p \in Nat, NEW u \in Nat, NEW v \in Nat,
           NEW e \in Nat,
           c * d <= 100 * p, 100 * p < c * d + d,
           g * d <= 100 * u, 100 * u < g * d + d,
           h * d <= 100 * v, 100 * v < h * d + d,
           100 * e < i * d + d
    PROVE  /\ p <= u + v + e => c <= g + h + i + 2
           /\ u + v <= p + e => g + h <= c + i + 1
           /\ u + v <= d + e => g + h <= 100 + i
<1>1. PICK cd \in Int, gd \in Int, hd \in Int, id \in Int :
        cd = c * d /\ gd = g * d /\ hd = h * d /\ id = i * d
  OBVIOUS
<1>2. /\ (g + h + i + 2) * d = gd + hd + id + 2 * d
      /\ (g + h) * d = gd + hd
      /\ (c + i + 1) * d = cd + id + d
      /\ (100 + i) * d = 100 * d + id
  BY <1>1
<1>3. ASSUME p <= u + v + e PROVE c <= g + h + i + 2
  <2>1. c * d < (g + h + i + 2) * d + d
    BY <1>1, <1>2, <1>3
  <2>2. g + h + i + 2 \in Int
    OBVIOUS
  <2> QED BY <2>1, <2>2, FewerParts
<1>4. ASSUME u + v <= p + e PROVE g + h <= c + i + 1
  <2>1. (g + h) * d < (c + i + 1) * d + d
    BY <1>1, <1>2, <1>4
  <2>2. g + h \in Int /\ c + i + 1 \in Int
    OBVIOUS
  <2> QED BY <2>1, <2>2, FewerParts
<1>5. ASSUME u + v <= d + e PROVE g + h <= 100 + i
  <2>1. (g + h) * d < (100 + i) * d + d
    BY <1>1, <1>2, <1>5
  <2>2. g + h \in Int /\ 100 + i \in Int
    OBVIOUS
  <2> QED BY <2>1, <2>2, FewerParts
<1> QED BY <1>3, <1>4, <1>5
-----------------------------------------------------------------------------
(***************************************************************************)
(* Types.                                                                  *)
(***************************************************************************)
\* The sum of f over the vCPUs.
OverVcpus(f) == SumFunctionOnSet(f, Vcpus)

LEMMA SumOfTyped ==
    ASSUME NEW f, f \in [Vcpus -> Nat]
    PROVE  /\ OverVcpus(f) \in Nat /\ SumOf(f) = OverVcpus(f) % U64
           /\ SumOf(f) \in Nat
<1>1. OverVcpus(f) \in Nat
  BY SumIsNat DEF OverVcpus
<1>2. SumOf(f) = OverVcpus(f) % U64
  BY DEF SumOf, SumFunction, OverVcpus
<1>3. \A x \in Nat : x % U64 \in Nat
  BY Constants, Remainder
<1> QED BY <1>1, <1>2, <1>3

LEMMA SumVcpuStatTyped ==
    ASSUME NEW row \in [Vcpus -> Row]
    PROVE  SumVcpuStat(row) \in VcpuStat
<1>1. \A t \in Vcpus : row[t].dvcpu \in VcpuStat
  BY DEF Row
<1>2. /\ [t \in Vcpus |-> row[t].dvcpu.vcpu_utime] \in [Vcpus -> Nat]
      /\ [t \in Vcpus |-> row[t].dvcpu.vcpu_stime] \in [Vcpus -> Nat]
      /\ [t \in Vcpus |-> row[t].dvcpu.gtime] \in [Vcpus -> Nat]
  BY <1>1 DEF VcpuStat
<1> QED BY <1>2, SumOfTyped DEF SumVcpuStat, VcpuStat

LEMMA DeltasTyped ==
    /\ \A new, old, delta \in Stat : DeltaStat(new, old, delta) \in Stat
    /\ \A new, old, delta \in VcpuStat :
            DeltaVcpuStat(new, old, delta) \in VcpuStat
    /\ NoStat \in Stat /\ NoVcpuStat \in VcpuStat /\ NoTime \in Times
<1>1. \A a, b, c \in Nat : Delta(a, b, c) \in Nat
  BY DEF Delta
<1> QED BY <1>1 DEF DeltaStat, DeltaVcpuStat, Stat, VcpuStat, NoStat,
                    NoVcpuStat, NoTime, Times

\* A counter in whole jiffies.
LEMMA ReadTyped ==
    /\ \A c \in Times : InJiffies(c) \in Stat /\ InTicks(c) \in VcpuStat
    /\ \A c \in [user : Nat, sys : Nat] : InJiffies(c) \in Stat
<1>1. \A x \in Nat : x \div Jiffy \in Nat
  BY Constants, Quotient
<1> QED BY <1>1 DEF InJiffies, InTicks, Times, Stat, VcpuStat

LEMMA TickTyped ==
    ASSUME TypeOK, NEW work \in [Vcpus -> Works], NEW other \in OtherWorks,
           Tick(work, other)
    PROVE  TypeOK'
<1>1. \A w : Cardinality({t \in Vcpus : work[t] = w}) \in Nat
  BY FS_Subset, FS_CardinalityType
<1>2. total' \in [user : Nat, sys : Nat]
  <2> DEFINE sum(w) == Cardinality({t \in Vcpus : work[t] = w})
                            + (IF other = w THEN 1 ELSE 0)
  <2>1. ASSUME NEW w PROVE sum(w) \in Nat
    <3>1. Cardinality({t \in Vcpus : work[t] = w}) \in Nat
      BY <1>1
    <3> QED BY <3>1
  <2>2. total' = [user |-> total.user + sum("guest") + sum("user"),
                  sys |-> total.sys + sum("sys")]
    BY DEF Tick
  <2> HIDE DEF sum
  <2> QED BY <2>1, <2>2 DEF TypeOK
<1>3. counter' \in [Vcpus -> Times]
  BY DEF Tick, TypeOK, Times, Worked
<1>4. ticks' \in 0..MaxTicks /\ taken' \in 0..ticks'
  BY DEF Tick, TypeOK
<1> QED BY <1>2, <1>3, <1>4 DEF Tick, TypeOK

LEMMA ReplaceTyped ==
    ASSUME TypeOK, NEW t \in Vcpus, Replace(t)
    PROVE  TypeOK'
<1>1. counter' \in [Vcpus -> Times] /\ life' \in [Vcpus -> Nat]
  BY DeltasTyped DEF Replace, TypeOK
<1> QED BY <1>1 DEF Replace, TypeOK

LEMMA GetVcpuListTyped == ASSUME TypeOK, GetVcpuList PROVE TypeOK'
<1>1. vcpu_list' \in [Vcpus -> [vcpu : VcpuStat, listed : Nat]]
  BY ReadTyped DEF GetVcpuList, TypeOK
<1>2. begun' \in 0..taken' /\ taken' \in 0..ticks'
  BY DEF GetVcpuList, TypeOK
<1> QED BY <1>1, <1>2 DEF GetVcpuList, TypeOK

LEMMA SetDomainTyped == ASSUME TypeOK, SetDomain PROVE TypeOK'
<1>1. InJiffies(total) \in Stat
  BY ReadTyped DEF TypeOK
<1>2. now' \in [dom : Stat,
                threads : [Vcpus -> [stat : Stat, at : Nat, life : Nat]]]
  BY <1>1 DEF SetDomain, TypeOK
<1> QED BY <1>2 DEF SetDomain, TypeOK

\* What GetThread changes.
LEMMA GetThreadStep ==
    ASSUME TypeOK, NEW t \in Vcpus, GetThread(t)
    PROVE  /\ now' = [dom |-> now.dom,
                      threads |-> [now.threads EXCEPT ![t] =
                                    [stat |-> InJiffies(counter[t]),
                                     at |-> ticks, life |-> life[t]]]]
           /\ now'.threads[t] = [stat |-> InJiffies(counter[t]), at |-> ticks,
                                 life |-> life[t]]
           /\ \A s \in Vcpus \ {t} : now'.threads[s] = now.threads[s]
BY DEF GetThread, TypeOK

LEMMA GetThreadTyped ==
    ASSUME TypeOK, NEW t \in Vcpus, GetThread(t)
    PROVE  TypeOK'
<1>1. InJiffies(counter[t]) \in Stat
  BY ReadTyped DEF TypeOK
<1>2. ticks \in Nat /\ life[t] \in Nat
  BY DEF TypeOK
<1>3. [stat |-> InJiffies(counter[t]), at |-> ticks, life |-> life[t]]
        \in [stat : Stat, at : Nat, life : Nat]
  BY <1>1, <1>2
<1>4. /\ now.dom \in Stat
      /\ now.threads \in [Vcpus -> [stat : Stat, at : Nat, life : Nat]]
  BY DEF TypeOK
<1>5. PICK r \in [stat : Stat, at : Nat, life : Nat] :
        r = [stat |-> InJiffies(counter[t]), at |-> ticks, life |-> life[t]]
  BY <1>3
<1>6. now' = [dom |-> now.dom, threads |-> [now.threads EXCEPT ![t] = r]]
  BY <1>5, GetThreadStep
<1>7. [now.threads EXCEPT ![t] = r]
        \in [Vcpus -> [stat : Stat, at : Nat, life : Nat]]
  BY <1>4
<1>8. now' \in [dom : Stat,
                threads : [Vcpus -> [stat : Stat, at : Nat, life : Nat]]]
  BY <1>4, <1>6, <1>7
<1> QED BY <1>8 DEF GetThread, TypeOK

LEMMA NewRowTyped ==
    ASSUME TypeOK, NEW t \in Vcpus
    PROVE  /\ NewRow(t) \in Row
           /\ NewRow(t).stat = now.threads[t].stat
           /\ NewRow(t).vcpu = vcpu_list[t].vcpu
           /\ NewRow(t).at = now.threads[t].at /\ NewRow(t).was = rows[t].at
           /\ NewRow(t).listed = vcpu_list[t].listed
           /\ NewRow(t).stays
                <=> samples > 0 /\ now.threads[t].life = rows[t].listed
           /\ samples > 0 =>
                /\ NewRow(t).dstat = DeltaStat(now.threads[t].stat,
                                               rows[t].stat, rows[t].dstat)
                /\ NewRow(t).dvcpu = DeltaVcpuStat(vcpu_list[t].vcpu,
                                                   rows[t].vcpu, rows[t].dvcpu)
<1>1. /\ now.threads[t].stat \in Stat /\ now.threads[t].at \in Nat
      /\ vcpu_list[t].vcpu \in VcpuStat /\ vcpu_list[t].listed \in Nat
      /\ rows[t] \in Row /\ samples \in Nat
  BY DEF TypeOK
<1>2. /\ rows[t].stat \in Stat /\ rows[t].dstat \in Stat /\ rows[t].at \in Nat
      /\ rows[t].vcpu \in VcpuStat /\ rows[t].dvcpu \in VcpuStat
  BY <1>1 DEF Row
<1>3. /\ DeltaStat(now.threads[t].stat, rows[t].stat, rows[t].dstat) \in Stat
      /\ DeltaVcpuStat(vcpu_list[t].vcpu, rows[t].vcpu, rows[t].dvcpu)
            \in VcpuStat
  BY <1>1, <1>2, DeltasTyped
<1> DEFINE ds == IF samples = 0 THEN NoStat
                 ELSE DeltaStat(now.threads[t].stat, rows[t].stat,
                                rows[t].dstat)
           dv == IF samples = 0 THEN NoVcpuStat
                 ELSE DeltaVcpuStat(vcpu_list[t].vcpu, rows[t].vcpu,
                                    rows[t].dvcpu)
           st == samples > 0 /\ now.threads[t].life = rows[t].listed
<1>4. ds \in Stat /\ dv \in VcpuStat /\ st \in BOOLEAN
  BY <1>3, DeltasTyped
<1>5. NewRow(t) = [stat |-> now.threads[t].stat, vcpu |-> vcpu_list[t].vcpu,
                   dstat |-> ds, dvcpu |-> dv, at |-> now.threads[t].at,
                   was |-> rows[t].at, listed |-> vcpu_list[t].listed,
                   stays |-> st]
  BY DEF NewRow
<1>6. samples > 0 =>
        /\ ds = DeltaStat(now.threads[t].stat, rows[t].stat, rows[t].dstat)
        /\ dv = DeltaVcpuStat(vcpu_list[t].vcpu, rows[t].vcpu, rows[t].dvcpu)
  BY <1>1
<1>7. st <=> samples > 0 /\ now.threads[t].life = rows[t].listed
  OBVIOUS
<1> HIDE DEF ds, dv, st
<1>8. NewRow(t) \in Row
  BY <1>1, <1>2, <1>4, <1>5 DEF Row
<1>9. NewRow(t).stays = st
  BY <1>5
<1>10. NewRow(t).stays
        <=> samples > 0 /\ now.threads[t].life = rows[t].listed
  BY Zenon, <1>7, <1>9
<1> QED BY <1>5, <1>6, <1>8, <1>10

LEMMA RefreshStep ==
    ASSUME TypeOK, RefreshDeltas
    PROVE  /\ rows' \in [Vcpus -> Row]
           /\ \A t \in Vcpus : rows'[t] = NewRow(t)
           /\ dom' \in Dom /\ dom'.sum = SumVcpuStat(rows')
<1>1. rows' = [t \in Vcpus |-> NewRow(t)]
  BY DEF RefreshDeltas
<1>2. rows' \in [Vcpus -> Row]
  BY <1>1, NewRowTyped
<1>3. now.dom \in Stat /\ dom.stat \in Stat /\ dom.dstat \in Stat
  BY DEF TypeOK, Dom
<1>4. (IF samples = 0 THEN NoStat ELSE DeltaStat(now.dom, dom.stat, dom.dstat))
        \in Stat
  BY <1>3, DeltasTyped
<1>5. dom' = [stat |-> now.dom,
              dstat |-> IF samples = 0 THEN NoStat
                        ELSE DeltaStat(now.dom, dom.stat, dom.dstat),
              sum |-> SumVcpuStat(rows')]
  BY DEF RefreshDeltas
<1> QED BY <1>1, <1>2, <1>3, <1>4, <1>5, SumVcpuStatTyped DEF Dom

\* A sample that is under way is not the last of them.
Underway == pc # "vcpu_list" => samples < MaxSamples

LEMMA RefreshTyped == ASSUME TypeOK, Underway, RefreshDeltas PROVE TypeOK'
<1>1. samples' \in 0..MaxSamples
  BY Constants DEF RefreshDeltas, TypeOK, Underway
<1> QED BY <1>1, RefreshStep DEF RefreshDeltas, TypeOK

LEMMA InitTyped == Init => TypeOK /\ Underway
<1> SUFFICES ASSUME Init PROVE TypeOK /\ Underway
  OBVIOUS
<1>1. rows \in [Vcpus -> Row] /\ dom \in Dom
  BY DeltasTyped DEF Init, Row, Dom
<1>2. /\ life \in [Vcpus -> Nat] /\ counter \in [Vcpus -> Times]
      /\ total \in [user : Nat, sys : Nat]
  BY DeltasTyped DEF Init
<1>3. /\ vcpu_list \in [Vcpus -> [vcpu : VcpuStat, listed : Nat]]
      /\ now \in [dom : Stat,
                  threads : [Vcpus -> [stat : Stat, at : Nat, life : Nat]]]
  BY DeltasTyped DEF Init
<1>4. ticks \in 0..MaxTicks /\ samples \in 0..MaxSamples /\ taken \in 0..ticks
      /\ begun \in 0..taken
  BY Constants DEF Init
<1> QED BY <1>1, <1>2, <1>3, <1>4 DEF Init, TypeOK, Underway

LEMMA TypesKept == TypeOK /\ Underway /\ [Next]_vars => TypeOK' /\ Underway'
<1> SUFFICES ASSUME TypeOK, Underway, [Next]_vars PROVE TypeOK' /\ Underway'
  OBVIOUS
<1>1. CASE UNCHANGED vars
  BY <1>1 DEF vars, TypeOK, Underway
<1>2. TypeOK'
  BY <1>1, TickTyped, ReplaceTyped, GetVcpuListTyped, SetDomainTyped,
     GetThreadTyped, RefreshTyped DEF Next
<1>3. Underway'
  BY <1>1 DEF Next, Underway, Tick, Replace, GetVcpuList, SetDomain,
              GetThread, RefreshDeltas
<1> QED BY <1>2, <1>3

\* Counters, deltas and sums are natural numbers at every step of a sample, and
\* no sample begins before the one before it (DELTA_FUN, SUM_FUN).
THEOREM TypeCorrect == Spec => []TypeOK
<1>1. Init => TypeOK /\ Underway
  BY InitTyped
<1>2. TypeOK /\ Underway /\ [Next]_vars => (TypeOK /\ Underway)'
  BY TypesKept
<1> QED BY <1>1, <1>2, PTL DEF Spec
-----------------------------------------------------------------------------
(***************************************************************************)
(* What the reads of a sample say of a thread.  Its counters in vcpu_stat  *)
(* grow by no more than the time that passes, and guest time is within     *)
(* user time; its stat is what vcpu_stat said and what it did since, in    *)
(* whole jiffies.                                                          *)
(***************************************************************************)
\* The counters c are r and what at most n ticks of one thread added.
Grew(c, r, n) ==
    /\ r.vcpu_utime <= c.vcpu_utime /\ r.vcpu_stime <= c.vcpu_stime
    /\ r.gtime <= c.gtime
    /\ c.gtime - r.gtime <= c.vcpu_utime - r.vcpu_utime
    /\ (c.vcpu_utime - r.vcpu_utime) + (c.vcpu_stime - r.vcpu_stime) <= n

\* The ticks of n jiffies.
TicksOf(n) == n * Jiffy

\* s is the stat of a thread at most n ticks after vcpu_stat showed v.
Near(v, s, n) ==
    /\ v.vcpu_utime <= TicksOf(s.utime) + (Jiffy - 1)
    /\ v.vcpu_stime <= TicksOf(s.stime) + (Jiffy - 1)
    /\ TicksOf(s.utime) + TicksOf(s.stime) <= v.vcpu_utime + v.vcpu_stime + n

NotAbove(s, r) == s.utime <= r.utime /\ s.stime <= r.stime

\* When vcpu_stat was read for the rows.
Since == IF pc = "vcpu_list" THEN taken ELSE begun

RowInv(t) ==
    /\ counter[t].user + counter[t].sys <= ticks
    /\ rows[t].listed <= life[t] /\ Since <= rows[t].at
    /\ rows[t].listed = life[t] =>
        /\ Grew(InTicks(counter[t]), rows[t].vcpu, ticks - Since)
        /\ NotAbove(rows[t].stat, InJiffies(counter[t]))
        /\ Near(rows[t].vcpu, rows[t].stat, rows[t].at - Since)

ListInv(t) ==
    pc # "vcpu_list" =>
        /\ rows[t].listed <= vcpu_list[t].listed
        /\ vcpu_list[t].listed <= life[t]
        /\ vcpu_list[t].listed = life[t] =>
            Grew(InTicks(counter[t]), vcpu_list[t].vcpu, ticks - taken)
        /\ rows[t].listed = vcpu_list[t].listed =>
            Grew(vcpu_list[t].vcpu, rows[t].vcpu, taken - begun)

ReadInv(t) ==
    pc = "threads" /\ t \notin left =>
        LET new == now.threads[t]
        IN /\ vcpu_list[t].listed <= new.life /\ new.life <= life[t]
           /\ taken <= new.at
           /\ new.stat.utime + new.stat.stime <= MaxTicks
           /\ new.life = life[t] => NotAbove(new.stat, InJiffies(counter[t]))
           /\ new.life = vcpu_list[t].listed =>
                Near(vcpu_list[t].vcpu, new.stat, new.at - taken)
           /\ new.life = rows[t].listed =>
                /\ NotAbove(rows[t].stat, new.stat)
                /\ Near(rows[t].vcpu, rows[t].stat, rows[t].at - begun)

\* The deltas v of vcpu_stat and s of the stat, of n ticks, agree up to i in
\* one direction and j in the other.
Agree(v, s, n, i, j) ==
    /\ v.gtime <= v.vcpu_utime /\ v.vcpu_utime + v.vcpu_stime <= n
    /\ s.utime + s.stime <= MaxTicks
    /\ TicksOf(s.utime + s.stime)
            <= v.vcpu_utime + v.vcpu_stime + i + 2 * (Jiffy - 1)
    /\ v.vcpu_utime + v.vcpu_stime
            <= TicksOf(s.utime + s.stime) + j + 2 * (Jiffy - 1)

StayInv(t) ==
    pc = "vcpu_list" /\ rows[t].stays =>
        /\ begun <= rows[t].was
        /\ Agree(rows[t].dvcpu, rows[t].dstat, taken - begun,
                 rows[t].at - taken, rows[t].was - begun)

VcpuInv(t) == RowInv(t) /\ ListInv(t) /\ ReadInv(t) /\ StayInv(t)

IInv ==
    /\ TypeOK /\ Underway
    /\ \A t \in Vcpus : VcpuInv(t)
    /\ dom.sum = SumVcpuStat(rows)

LEMMA Numbers ==
    ASSUME TypeOK, NEW t \in Vcpus
    PROVE  /\ counter[t] \in Times /\ InTicks(counter[t]) \in VcpuStat
           /\ InJiffies(counter[t]) \in Stat /\ life[t] \in Nat
           /\ rows[t].vcpu \in VcpuStat /\ rows[t].stat \in Stat
           /\ rows[t].dvcpu \in VcpuStat /\ rows[t].dstat \in Stat
           /\ rows[t].at \in Nat /\ rows[t].was \in Nat
           /\ rows[t].listed \in Nat
           /\ vcpu_list[t].vcpu \in VcpuStat /\ vcpu_list[t].listed \in Nat
           /\ now.threads[t].stat \in Stat /\ now.threads[t].at \in Nat
           /\ now.threads[t].life \in Nat
           /\ ticks \in Nat /\ ticks <= MaxTicks /\ taken \in Nat
           /\ begun \in Nat /\ taken <= ticks /\ begun <= taken
<1>1. counter[t] \in Times /\ rows[t] \in Row /\ life[t] \in Nat
  BY DEF TypeOK
<1>2. /\ vcpu_list[t] \in [vcpu : VcpuStat, listed : Nat]
      /\ now.threads[t] \in [stat : Stat, at : Nat, life : Nat]
  BY DEF TypeOK
<1>3. /\ ticks \in Nat /\ ticks <= MaxTicks /\ taken \in Nat
      /\ begun \in Nat /\ taken <= ticks /\ begun <= taken
  BY Constants DEF TypeOK
<1> QED BY <1>1, <1>2, <1>3, ReadTyped DEF Row

LEMMA TicksOfTyped ==
    ASSUME NEW x \in Nat, NEW y \in Nat
    PROVE  /\ TicksOf(x) \in Nat
           /\ TicksOf(x + y) = TicksOf(x) + TicksOf(y)
           /\ x <= y => y - x \in Nat /\ TicksOf(y - x) = TicksOf(y) - TicksOf(x)
BY Constants DEF TicksOf

LEMMA InWhole ==
    ASSUME NEW x \in Nat
    PROVE  /\ x \div Jiffy \in Nat /\ x \div Jiffy <= x
           /\ TicksOf(x \div Jiffy) <= x
           /\ x <= TicksOf(x \div Jiffy) + (Jiffy - 1)
           /\ \A y \in Nat : x <= y => x \div Jiffy <= y \div Jiffy
<1>1. PICK d \in Nat \ {0} : d = Jiffy
  BY Constants
<1>2. ASSUME NEW y \in Nat
      PROVE  /\ y \div d \in Nat /\ (y \div d) * d <= y
             /\ y <= (y \div d) * d + (d - 1)
  <2>1. y \div d \in Nat /\ \E m \in 0..(d - 1) : y = (y \div d) * d + m
    BY Quotient
  <2>2. PICK q \in Nat : q = y \div d
    BY <2>1
  <2>3. PICK m \in 0..(d - 1) : y = q * d + m
    BY <2>1, <2>2
  <2>4. q * d \in Int
    OBVIOUS
  <2> QED BY <2>2, <2>3, <2>4
<1>3. ASSUME NEW y \in Nat, x <= y PROVE x \div d <= y \div d
  <2>1. PICK p \in Nat, q \in Nat : p = x \div d /\ q = y \div d
    BY <1>2
  <2>2. p * d < q * d + d
    <3>1. p * d <= x /\ y <= q * d + (d - 1) /\ p * d \in Int /\ q * d \in Int
      BY <1>2, <2>1
    <3> QED BY <1>3, <3>1
  <2> QED BY <2>1, <2>2, FewerParts
<1>4. x \div d <= x
  <2>1. PICK q \in Nat : q = x \div d /\ q * d <= x
    BY <1>2
  <2>2. q * d < x * d + d
    <3>1. PICK e \in Nat : d = e + 1
      <4>1. d - 1 \in Nat /\ d = (d - 1) + 1
        OBVIOUS
      <4> QED BY <4>1
    <3>2. x * d = x * e + x /\ x * e \in Nat
      BY <3>1
    <3> QED BY <2>1, <3>2
  <2> QED BY <2>1, <2>2, FewerParts
<1> QED BY <1>1, <1>2, <1>3, <1>4 DEF TicksOf

LEMMA GrewTick ==
    ASSUME NEW c \in Times, NEW r \in VcpuStat, NEW w, NEW n \in Int,
           NEW m \in Int, m = n + 1, Grew(InTicks(c), r, n)
    PROVE  Grew(InTicks(Worked(c, w)), r, m)
<1> DEFINE u == IF w \in {"guest", "user"} THEN 1 ELSE 0
           s == IF w = "sys" THEN 1 ELSE 0
           g == IF w = "guest" THEN 1 ELSE 0
<1>1. /\ u \in {0, 1} /\ s \in {0, 1} /\ g \in {0, 1}
      /\ g <= u /\ u + s <= 1
  OBVIOUS
<1>2. /\ InTicks(Worked(c, w)).vcpu_utime = c.user + u
      /\ InTicks(Worked(c, w)).vcpu_stime = c.sys + s
      /\ InTicks(Worked(c, w)).gtime = c.guest + g
  BY DEF Worked, InTicks
<1>3. /\ InTicks(c).vcpu_utime = c.user /\ InTicks(c).vcpu_stime = c.sys
      /\ InTicks(c).gtime = c.guest
  BY DEF InTicks
<1> HIDE DEF u, s, g
<1> QED BY <1>1, <1>2, <1>3 DEF Grew, Times, VcpuStat

LEMMA WorkedMore ==
    ASSUME NEW c \in Times, NEW w
    PROVE  /\ c.user <= Worked(c, w).user /\ c.sys <= Worked(c, w).sys
           /\ Worked(c, w).user + Worked(c, w).sys <= c.user + c.sys + 1
           /\ Worked(c, w) \in Times
           /\ NotAbove(InJiffies(c), InJiffies(Worked(c, w)))
<1>1. /\ c.user <= Worked(c, w).user /\ c.sys <= Worked(c, w).sys
      /\ Worked(c, w).user + Worked(c, w).sys <= c.user + c.sys + 1
      /\ Worked(c, w) \in Times
  BY DEF Worked, Times
<1>2. /\ c.user \in Nat /\ c.sys \in Nat /\ Worked(c, w).user \in Nat
      /\ Worked(c, w).sys \in Nat
  BY <1>1 DEF Times
<1>3. NotAbove(InJiffies(c), InJiffies(Worked(c, w)))
  BY <1>1, <1>2, InWhole DEF NotAbove, InJiffies
<1> QED BY <1>1, <1>3

\* What is read of a thread n ticks after vcpu_stat showed v of it.
LEMMA NearNow ==
    ASSUME NEW c \in Times, NEW v \in VcpuStat, NEW n \in Int,
           Grew(InTicks(c), v, n)
    PROVE  Near(v, InJiffies(c), n)
<1>1. PICK u \in Nat, s \in Nat : u = c.user /\ s = c.sys
  BY DEF Times
<1>2. PICK a \in Nat, b \in Nat : a = v.vcpu_utime /\ b = v.vcpu_stime
  BY DEF VcpuStat
<1>3. a <= u /\ b <= s /\ (u - a) + (s - b) <= n
  BY <1>1, <1>2 DEF Grew, InTicks
<1>4. PICK x \in Nat, y \in Nat :
        /\ x = TicksOf(u \div Jiffy) /\ y = TicksOf(s \div Jiffy)
        /\ x <= u /\ y <= s /\ u <= x + (Jiffy - 1) /\ s <= y + (Jiffy - 1)
  BY InWhole, TicksOfTyped
<1>5. a <= x + (Jiffy - 1) /\ b <= y + (Jiffy - 1) /\ x + y <= a + b + n
  BY <1>3, <1>4, Constants
<1> QED BY <1>1, <1>2, <1>4, <1>5 DEF Near, InJiffies

LEMMA InitInv == Init => IInv
<1> SUFFICES ASSUME Init PROVE IInv
  OBVIOUS
<1>1. TypeOK /\ Underway
  BY InitTyped
<1>2. /\ ticks = 0 /\ taken = 0 /\ begun = 0 /\ pc = "vcpu_list" /\ Since = 0
      /\ \A t \in Vcpus :
          /\ counter[t] = NoTime /\ life[t] = 0 /\ rows[t].vcpu = NoVcpuStat
          /\ rows[t].stat = NoStat /\ rows[t].listed = 0 /\ rows[t].at = 0
          /\ rows[t].stays = FALSE /\ rows[t].dvcpu = NoVcpuStat
  BY DEF Init, Since
<1>3. /\ NoTime.user = 0 /\ NoTime.sys = 0
      /\ Grew(InTicks(NoTime), NoVcpuStat, 0)
  BY DEF NoTime, NoVcpuStat, InTicks, Grew
<1>4. NotAbove(NoStat, InJiffies(NoTime))
  <2>1. InJiffies(NoTime).utime \in Nat /\ InJiffies(NoTime).stime \in Nat
    BY ReadTyped, DeltasTyped DEF Stat
  <2> QED BY <2>1 DEF NotAbove, NoStat
<1>5. Near(NoVcpuStat, NoStat, 0)
  <2>1. TicksOf(0) = 0
    BY Constants DEF TicksOf
  <2> QED BY <2>1, Constants DEF Near, NoVcpuStat, NoStat
<1>6. ASSUME NEW t \in Vcpus PROVE VcpuInv(t)
  <2>1. ticks - Since = 0 /\ rows[t].at - Since = 0
    BY <1>2
  <2>2. RowInv(t)
    BY <1>2, <1>3, <1>4, <1>5, <2>1 DEF RowInv
  <2> QED BY <1>2, <2>2 DEF VcpuInv, ListInv, ReadInv, StayInv
<1>7. dom.sum = SumVcpuStat(rows)
  <2> DEFINE none == [t \in Vcpus |-> 0]
  <2>1. /\ [t \in Vcpus |-> rows[t].dvcpu.vcpu_utime] = none
        /\ [t \in Vcpus |-> rows[t].dvcpu.vcpu_stime] = none
        /\ [t \in Vcpus |-> rows[t].dvcpu.gtime] = none
    BY <1>2 DEF NoVcpuStat
  <2>2. SumOf(none) = 0
    <3>1. none \in [Vcpus -> Nat] /\ OverVcpus(none) = 0
      BY SumOfZeros DEF OverVcpus
    <3>2. 0 % U64 = 0
      BY Constants, Remainder
    <3> QED BY <3>1, <3>2, SumOfTyped
  <2>3. dom.sum = [vcpu_utime |-> 0, vcpu_stime |-> 0, gtime |-> 0]
    BY DEF Init, NoVcpuStat
  <2> HIDE DEF none
  <2> QED BY <2>1, <2>2, <2>3 DEF SumVcpuStat
<1> QED BY <1>1, <1>6, <1>7 DEF IInv

LEMMA NotAboveTrans ==
    ASSUME NEW r \in Stat, NEW s \in Stat, NEW x \in Stat,
           NotAbove(r, s), NotAbove(s, x)
    PROVE  NotAbove(r, x)
BY DEF NotAbove, Stat

LEMMA TickInv ==
    ASSUME IInv, NEW work \in [Vcpus -> Works], NEW other \in OtherWorks,
           Tick(work, other), NEW t \in Vcpus
    PROVE  VcpuInv(t)'
<1> DEFINE c == counter[t]
           d == Worked(counter[t], work[t])
<1>1. /\ c \in Times /\ rows[t].vcpu \in VcpuStat /\ rows[t].stat \in Stat
      /\ vcpu_list[t].vcpu \in VcpuStat /\ now.threads[t].stat \in Stat
      /\ ticks \in Nat /\ taken \in Nat /\ begun \in Nat
  BY Numbers DEF IInv
<1>2. RowInv(t) /\ ListInv(t) /\ ReadInv(t) /\ StayInv(t)
  BY DEF IInv, VcpuInv
<1>3. /\ ticks' = ticks + 1 /\ counter'[t] = d
      /\ UNCHANGED <<life, pc, vcpu_list, rows, now, left, begun, taken>>
  BY DEF Tick
<1>4. Since' = Since /\ Since \in Nat
  BY <1>1, <1>3 DEF Since
<1>5. /\ c.user \in Nat /\ c.sys \in Nat /\ d.user \in Nat /\ d.sys \in Nat
      /\ d.user + d.sys <= c.user + c.sys + 1
      /\ NotAbove(InJiffies(c), InJiffies(d))
      /\ InJiffies(c) \in Stat /\ InJiffies(d) \in Stat
  BY <1>1, WorkedMore, ReadTyped DEF Times
<1>6. \A r \in VcpuStat, n \in Nat :
        Grew(InTicks(c), r, ticks - n) => Grew(InTicks(d), r, ticks' - n)
  <2> SUFFICES ASSUME NEW r \in VcpuStat, NEW n \in Nat,
                      Grew(InTicks(c), r, ticks - n)
               PROVE  Grew(InTicks(d), r, ticks' - n)
    OBVIOUS
  <2>1. ticks - n \in Int /\ ticks' - n \in Int /\ ticks' - n = (ticks - n) + 1
    BY <1>1, <1>3
  <2> QED BY <1>1, <2>1, GrewTick
<1>7. \A s \in Stat : NotAbove(s, InJiffies(c)) => NotAbove(s, InJiffies(d))
  BY <1>5, NotAboveTrans
<1> HIDE DEF c, d
<1>8. RowInv(t)'
  <2>1. counter'[t].user + counter'[t].sys <= ticks'
    BY <1>1, <1>2, <1>3, <1>5 DEF RowInv, c
  <2>2. ASSUME rows[t].listed = life[t]
        PROVE  /\ Grew(InTicks(d), rows[t].vcpu, ticks' - Since)
               /\ NotAbove(rows[t].stat, InJiffies(d))
               /\ Near(rows[t].vcpu, rows[t].stat, rows[t].at - Since)
    BY <1>1, <1>2, <1>4, <1>6, <1>7, <2>2 DEF RowInv, c
  <2> QED BY <1>2, <1>3, <1>4, <2>1, <2>2 DEF RowInv
<1>9. ListInv(t)'
  BY <1>1, <1>2, <1>3, <1>6 DEF ListInv, c
<1>10. ReadInv(t)'
  BY <1>1, <1>2, <1>3, <1>7 DEF ReadInv, c
<1>11. StayInv(t)'
  BY <1>2, <1>3 DEF StayInv
<1> QED BY <1>8, <1>9, <1>10, <1>11 DEF VcpuInv

LEMMA ReplaceInv ==
    ASSUME IInv, NEW r \in Vcpus, Replace(r), NEW t \in Vcpus
    PROVE  VcpuInv(t)'
<1>1. /\ life[t] \in Nat /\ rows[t].listed \in Nat /\ ticks \in Nat
      /\ vcpu_list[t].listed \in Nat /\ now.threads[t].life \in Nat
  BY Numbers DEF IInv
<1>2. RowInv(t) /\ ListInv(t) /\ ReadInv(t) /\ StayInv(t)
  BY DEF IInv, VcpuInv
<1>3. /\ UNCHANGED <<ticks, pc, vcpu_list, rows, now, left, begun, taken>>
      /\ t # r => counter'[t] = counter[t] /\ life'[t] = life[t]
      /\ t = r => counter'[t] = NoTime /\ life'[t] = life[t] + 1
  BY DEF Replace, IInv, TypeOK
<1>4. Since' = Since
  BY <1>3 DEF Since
<1>5. StayInv(t)'
  BY <1>2, <1>3 DEF StayInv
<1>6. CASE t = r
  <2>1. counter'[t].user + counter'[t].sys <= ticks'
    BY <1>1, <1>3, <1>6 DEF NoTime
  <2>2. /\ rows[t].listed <= life'[t] /\ rows[t].listed # life'[t]
        /\ pc # "vcpu_list" => /\ vcpu_list[t].listed <= life'[t]
                               /\ vcpu_list[t].listed # life'[t]
        /\ pc = "threads" /\ t \notin left =>
            now.threads[t].life <= life'[t] /\ now.threads[t].life # life'[t]
    BY <1>1, <1>2, <1>3, <1>6 DEF RowInv, ListInv, ReadInv
  <2>3. RowInv(t)'
    BY <1>2, <1>3, <1>4, <2>1, <2>2 DEF RowInv
  <2>4. ListInv(t)'
    BY <1>2, <1>3, <2>2 DEF ListInv
  <2>5. ReadInv(t)'
    BY <1>2, <1>3, <2>2 DEF ReadInv
  <2> QED BY <1>5, <2>3, <2>4, <2>5 DEF VcpuInv
<1>7. CASE t # r
  <2>1. RowInv(t)'
    BY <1>2, <1>3, <1>4, <1>7 DEF RowInv
  <2>2. ListInv(t)'
    BY <1>2, <1>3, <1>7 DEF ListInv
  <2>3. ReadInv(t)'
    BY <1>2, <1>3, <1>7 DEF ReadInv
  <2> QED BY <1>5, <2>1, <2>2, <2>3 DEF VcpuInv
<1> QED BY <1>6, <1>7

LEMMA GetVcpuListInv ==
    ASSUME IInv, GetVcpuList, NEW t \in Vcpus
    PROVE  VcpuInv(t)'
<1>1. /\ InTicks(counter[t]) \in VcpuStat /\ ticks \in Nat /\ taken \in Nat
      /\ life[t] \in Nat
  BY Numbers DEF IInv
<1>2. RowInv(t)
  BY DEF IInv, VcpuInv
<1>3. /\ pc = "vcpu_list" /\ pc' = "domain" /\ begun' = taken /\ taken' = ticks
      /\ vcpu_list'[t].vcpu = InTicks(counter[t])
      /\ vcpu_list'[t].listed = life[t]
      /\ UNCHANGED <<ticks, life, counter, rows, now, left>>
  BY DEF GetVcpuList
<1>4. Since = taken /\ Since' = taken
  BY <1>3 DEF Since
<1>5. RowInv(t)'
  BY <1>2, <1>3, <1>4 DEF RowInv
<1>6. Grew(InTicks(counter[t]), InTicks(counter[t]), ticks - ticks)
  BY <1>1 DEF Grew, VcpuStat
<1>7. ListInv(t)'
  BY <1>1, <1>2, <1>3, <1>4, <1>6 DEF ListInv, RowInv
<1> QED BY <1>3, <1>5, <1>7 DEF VcpuInv, ReadInv, StayInv

LEMMA SetDomainInv ==
    ASSUME IInv, SetDomain, NEW t \in Vcpus
    PROVE  VcpuInv(t)'
<1>1. RowInv(t) /\ ListInv(t)
  BY DEF IInv, VcpuInv
<1>2. /\ pc = "domain" /\ pc' = "threads" /\ left' = Vcpus
      /\ UNCHANGED <<ticks, life, counter, vcpu_list, rows, begun, taken>>
  BY DEF SetDomain
<1>3. Since' = Since
  BY <1>2 DEF Since
<1>4. RowInv(t)'
  BY <1>1, <1>2, <1>3 DEF RowInv
<1>5. ListInv(t)'
  BY <1>1, <1>2 DEF ListInv
<1> QED BY <1>2, <1>4, <1>5 DEF VcpuInv, ReadInv, StayInv

LEMMA GetThreadInv ==
    ASSUME IInv, NEW r \in Vcpus, GetThread(r), NEW t \in Vcpus
    PROVE  VcpuInv(t)'
<1>1. /\ counter[t] \in Times /\ InJiffies(counter[t]) \in Stat
      /\ vcpu_list[t].vcpu \in VcpuStat /\ life[t] \in Nat
      /\ ticks \in Nat /\ taken \in Nat /\ taken <= ticks /\ ticks <= MaxTicks
  BY Numbers DEF IInv
<1>2. RowInv(t) /\ ListInv(t) /\ ReadInv(t)
  BY DEF IInv, VcpuInv
<1>3. /\ pc = "threads" /\ pc' = "threads" /\ left' = left \ {r}
      /\ UNCHANGED <<ticks, life, counter, vcpu_list, rows, begun, taken>>
      /\ t # r => now'.threads[t] = now.threads[t]
      /\ t = r => now'.threads[t] = [stat |-> InJiffies(counter[t]),
                                     at |-> ticks, life |-> life[t]]
  BY GetThreadStep DEF GetThread, IInv
<1>4. Since' = Since /\ Since = begun
  BY <1>3 DEF Since
<1>5. RowInv(t)'
  BY <1>2, <1>3, <1>4 DEF RowInv
<1>6. ListInv(t)'
  BY <1>2, <1>3 DEF ListInv
<1>7. CASE t = r
  <2>1. /\ now'.threads[t].stat = InJiffies(counter[t])
        /\ now'.threads[t].at = ticks /\ now'.threads[t].life = life[t]
    BY <1>3, <1>7
  <2>2. InJiffies(counter[t]).utime + InJiffies(counter[t]).stime <= MaxTicks
    <3>1. counter[t].user \in Nat /\ counter[t].sys \in Nat
      BY <1>1 DEF Times
    <3>2. PICK x \in Nat, y \in Nat :
            /\ x = counter[t].user \div Jiffy /\ y = counter[t].sys \div Jiffy
            /\ x <= counter[t].user /\ y <= counter[t].sys
      BY <3>1, InWhole
    <3>3. counter[t].user + counter[t].sys <= ticks
      BY <1>2 DEF RowInv
    <3>4. x + y <= MaxTicks
      BY <1>1, <3>1, <3>2, <3>3, Constants
    <3> QED BY <3>2, <3>4 DEF InJiffies
  <2>3. NotAbove(InJiffies(counter[t]), InJiffies(counter[t]))
    BY <1>1 DEF NotAbove, Stat
  <2>4. ASSUME life[t] = vcpu_list[t].listed
        PROVE  Near(vcpu_list[t].vcpu, InJiffies(counter[t]), ticks - taken)
    <3>1. Grew(InTicks(counter[t]), vcpu_list[t].vcpu, ticks - taken)
      BY <1>2, <1>3, <2>4 DEF ListInv
    <3>2. ticks - taken \in Int
      BY <1>1
    <3> QED BY <1>1, <3>1, <3>2, NearNow
  <2>5. ASSUME life[t] = rows[t].listed
        PROVE  /\ NotAbove(rows[t].stat, InJiffies(counter[t]))
               /\ Near(rows[t].vcpu, rows[t].stat, rows[t].at - begun)
    BY <1>2, <1>4, <2>5 DEF RowInv
  <2>6. vcpu_list[t].listed <= life[t] /\ life[t] <= life[t]
    BY <1>1, <1>2, <1>3 DEF ListInv
  <2>7. ReadInv(t)'
    BY <1>1, <1>3, <2>1, <2>2, <2>3, <2>4, <2>5, <2>6 DEF ReadInv
  <2> QED BY <1>3, <1>5, <1>6, <2>7 DEF VcpuInv, StayInv
<1>8. CASE t # r
  <2>1. ReadInv(t)'
    BY <1>2, <1>3, <1>8 DEF ReadInv
  <2> QED BY <1>3, <1>5, <1>6, <2>1 DEF VcpuInv, StayInv
<1> QED BY <1>7, <1>8

\* The deltas of a thread from two reads of each kind.
LEMMA DeltasAgree ==
    ASSUME NEW v \in VcpuStat, NEW w \in VcpuStat, NEW s \in Stat,
           NEW r \in Stat, NEW old \in VcpuStat, NEW was \in Stat,
           NEW n \in Nat, NEW i \in Nat, NEW j \in Nat,
           Grew(w, v, n), NotAbove(r, s), Near(v, r, j), Near(w, s, i),
           s.utime + s.stime <= MaxTicks
    PROVE  Agree(DeltaVcpuStat(w, v, old), DeltaStat(s, r, was), n, i, j)
<1>1. PICK vu \in Nat, vs \in Nat, vg \in Nat, wu \in Nat, ws \in Nat, wg \in Nat :
        /\ vu = v.vcpu_utime /\ vs = v.vcpu_stime /\ vg = v.gtime
        /\ wu = w.vcpu_utime /\ ws = w.vcpu_stime /\ wg = w.gtime
  BY DEF VcpuStat
<1>2. PICK su \in Nat, ss \in Nat, ru \in Nat, rs \in Nat :
        su = s.utime /\ ss = s.stime /\ ru = r.utime /\ rs = r.stime
  BY DEF Stat
<1>3. /\ vu <= wu /\ vs <= ws /\ vg <= wg /\ wg - vg <= wu - vu
      /\ (wu - vu) + (ws - vs) <= n
  BY <1>1 DEF Grew
<1>4. ru <= su /\ rs <= ss /\ su + ss <= MaxTicks
  BY <1>2 DEF NotAbove
<1>5. /\ DeltaVcpuStat(w, v, old).vcpu_utime = wu - vu
      /\ DeltaVcpuStat(w, v, old).vcpu_stime = ws - vs
      /\ DeltaVcpuStat(w, v, old).gtime = wg - vg
      /\ DeltaStat(s, r, was).utime = su - ru
      /\ DeltaStat(s, r, was).stime = ss - rs
  BY <1>1, <1>2, <1>3, <1>4 DEF DeltaVcpuStat, DeltaStat, Delta
<1>6. PICK a \in Nat, b \in Nat, c \in Nat, d \in Nat :
        a = TicksOf(su) /\ b = TicksOf(ss) /\ c = TicksOf(ru) /\ d = TicksOf(rs)
  BY TicksOfTyped
<1>7. TicksOf((su - ru) + (ss - rs)) = (a - c) + (b - d)
  <2>1. /\ su - ru \in Nat /\ TicksOf(su - ru) = a - c
        /\ ss - rs \in Nat /\ TicksOf(ss - rs) = b - d
    BY <1>4, <1>6, TicksOfTyped
  <2> QED BY <2>1, TicksOfTyped
<1>8. /\ vu <= c + (Jiffy - 1) /\ vs <= d + (Jiffy - 1) /\ c + d <= vu + vs + j
      /\ wu <= a + (Jiffy - 1) /\ ws <= b + (Jiffy - 1) /\ a + b <= wu + ws + i
  BY <1>1, <1>2, <1>6 DEF Near
<1>9. /\ wg - vg <= wu - vu /\ (wu - vu) + (ws - vs) <= n
      /\ (su - ru) + (ss - rs) <= MaxTicks
      /\ (a - c) + (b - d) <= (wu - vu) + (ws - vs) + i + 2 * (Jiffy - 1)
      /\ (wu - vu) + (ws - vs) <= (a - c) + (b - d) + j + 2 * (Jiffy - 1)
  BY <1>3, <1>4, <1>8, Constants
<1> QED BY <1>5, <1>7, <1>9 DEF Agree

LEMMA RefreshInv ==
    ASSUME IInv, RefreshDeltas, NEW t \in Vcpus
    PROVE  VcpuInv(t)'
<1> DEFINE L == vcpu_list[t]
           N == now.threads[t]
           r == rows[t]
<1>1. /\ L.vcpu \in VcpuStat /\ N.stat \in Stat /\ r.vcpu \in VcpuStat
      /\ r.stat \in Stat /\ r.dvcpu \in VcpuStat /\ r.dstat \in Stat
      /\ L.listed \in Nat /\ N.life \in Nat /\ r.listed \in Nat
      /\ N.at \in Nat /\ r.at \in Nat /\ taken \in Nat /\ begun \in Nat
      /\ begun <= taken /\ life[t] \in Nat
  BY Numbers DEF IInv
<1>2. RowInv(t) /\ ListInv(t) /\ ReadInv(t)
  BY DEF IInv, VcpuInv
<1>3. /\ pc = "threads" /\ pc' = "vcpu_list" /\ left = {}
      /\ UNCHANGED <<ticks, life, counter, begun, taken>>
  BY DEF RefreshDeltas
<1>4. /\ rows'[t].stat = N.stat /\ rows'[t].vcpu = L.vcpu
      /\ rows'[t].at = N.at /\ rows'[t].was = r.at
      /\ rows'[t].listed = L.listed
      /\ rows'[t].stays <=> samples > 0 /\ N.life = r.listed
      /\ samples > 0 =>
            /\ rows'[t].dstat = DeltaStat(N.stat, r.stat, r.dstat)
            /\ rows'[t].dvcpu = DeltaVcpuStat(L.vcpu, r.vcpu, r.dvcpu)
  <2>1. rows'[t] = NewRow(t)
    BY RefreshStep DEF IInv
  <2>2. TypeOK
    BY DEF IInv
  <2> QED BY <2>1, <2>2, NewRowTyped
<1>5. Since = begun /\ Since' = taken
  BY <1>3 DEF Since
<1>6. /\ r.listed <= L.listed /\ L.listed <= N.life /\ N.life <= life[t]
      /\ taken <= N.at /\ begun <= r.at
      /\ N.stat.utime + N.stat.stime <= MaxTicks
      /\ L.listed = life[t] => Grew(InTicks(counter[t]), L.vcpu, ticks - taken)
      /\ r.listed = L.listed => Grew(L.vcpu, r.vcpu, taken - begun)
      /\ N.life = life[t] => NotAbove(N.stat, InJiffies(counter[t]))
      /\ N.life = L.listed => Near(L.vcpu, N.stat, N.at - taken)
      /\ N.life = r.listed => /\ NotAbove(r.stat, N.stat)
                              /\ Near(r.vcpu, r.stat, r.at - begun)
      /\ counter[t].user + counter[t].sys <= ticks
  BY <1>2, <1>3, <1>5 DEF RowInv, ListInv, ReadInv
<1> HIDE DEF L, N, r
<1>7. RowInv(t)'
  <2>1. L.listed = life[t] => N.life = life[t] /\ N.life = L.listed
    BY <1>1, <1>6
  <2>2. L.listed <= life[t]
    BY <1>1, <1>6
  <2> QED BY <1>3, <1>4, <1>5, <1>6, <2>1, <2>2 DEF RowInv
<1>8. ASSUME rows'[t].stays
      PROVE  /\ begun <= rows'[t].was
             /\ Agree(rows'[t].dvcpu, rows'[t].dstat, taken - begun,
                      rows'[t].at - taken, rows'[t].was - begun)
  <2>1. samples > 0 /\ N.life = r.listed /\ N.life = L.listed
    <3>1. samples > 0 /\ N.life = r.listed
      BY Zenon, <1>4, <1>8
    <3> QED BY <1>1, <1>6, <3>1
  <2>2. /\ Grew(L.vcpu, r.vcpu, taken - begun) /\ NotAbove(r.stat, N.stat)
        /\ Near(r.vcpu, r.stat, r.at - begun)
        /\ Near(L.vcpu, N.stat, N.at - taken)
    BY <1>6, <2>1
  <2>3. taken - begun \in Nat /\ r.at - begun \in Nat /\ N.at - taken \in Nat
    BY <1>1, <1>6
  <2>4. Agree(DeltaVcpuStat(L.vcpu, r.vcpu, r.dvcpu),
              DeltaStat(N.stat, r.stat, r.dstat), taken - begun,
              N.at - taken, r.at - begun)
    BY <1>1, <1>6, <2>2, <2>3, DeltasAgree
  <2> QED BY <1>4, <1>6, <2>1, <2>4
<1>9. StayInv(t)'
  BY <1>3, <1>8 DEF StayInv
<1> QED BY <1>3, <1>7, <1>9 DEF VcpuInv, ListInv, ReadInv

LEMMA Inductive == IInv /\ [Next]_vars => IInv'
<1> SUFFICES ASSUME IInv, [Next]_vars PROVE IInv'
  OBVIOUS
<1>1. TypeOK' /\ Underway'
  BY TypesKept DEF IInv
<1>2. ASSUME NEW t \in Vcpus PROVE VcpuInv(t)'
  <2>1. CASE UNCHANGED vars
    <3>1. VcpuInv(t)
      BY DEF IInv
    <3> QED BY <2>1, <3>1 DEF vars, VcpuInv, RowInv, ListInv, ReadInv,
                              StayInv, Since
  <2> QED BY <2>1, TickInv, ReplaceInv, GetVcpuListInv, SetDomainInv,
             GetThreadInv, RefreshInv DEF Next
<1>3. dom'.sum = SumVcpuStat(rows')
  <2>1. CASE dom' = dom /\ rows' = rows
    BY <2>1 DEF IInv
  <2>2. CASE RefreshDeltas
    BY <2>2, RefreshStep DEF IInv
  <2> QED BY <2>1, <2>2 DEF Next, vars, Tick, Replace, GetVcpuList,
                            SetDomain, GetThread
<1> QED BY <1>1, <1>2, <1>3 DEF IInv

LEMMA Holds == Spec => []IInv
BY InitInv, Inductive, PTL DEF Spec
-----------------------------------------------------------------------------
(***************************************************************************)
(* The percentages that are shown.                                         *)
(***************************************************************************)
LEMMA VcpuCount == Cardinality(Vcpus) \in Nat \ {0}
<1>1. Cardinality(Vcpus) \in Nat /\ Cardinality(Vcpus) # 0
  BY FS_CardinalityType, FS_EmptySet
<1> QED BY <1>1

\* The times that fit 64 bits.
LEMMA TicksFit ==
    /\ MaxTicks < U64
    /\ \A x \in Nat : x <= Cardinality(Vcpus) * MaxTicks => x < U64
<1>1. PICK n \in Nat \ {0} : n = Cardinality(Vcpus)
  BY VcpuCount
<1>2. PICK m \in Nat : m = MaxTicks
  BY Constants
<1>3. n * m = m * n /\ m <= n * m
  <2>1. PICK e \in Nat : n = e + 1
    <3>1. n - 1 \in Nat /\ n = (n - 1) + 1
      OBVIOUS
    <3> QED BY <3>1
  <2>2. n * m = e * m + m /\ e * m >= 0
    BY <2>1
  <2> QED BY <2>2
<1>4. m * n < U64 /\ m * n \in Nat
  BY <1>1, <1>2, TimeAssumption
<1> QED BY <1>1, <1>2, <1>3, <1>4, Constants

LEMMA Delay ==
    ASSUME delay_time \in Nat, delay_time > 0
    PROVE  Second * delay_time \in Nat \ {0}
BY Constants

\* A time of at most k delays is at most k hundred percent, and not clamped.
LEMMA NotClamped ==
    ASSUME delay_time \in Nat, delay_time > 0, NEW k \in Nat, NEW time \in Nat,
           time <= k * (Second * delay_time)
    PROVE  JustifyUsage(Percent(time, Second), k) = Percent(time, Second)
<1>1. PICK d \in Nat \ {0} : d = Second * delay_time
  BY Delay
<1>2. Percent(time, Second) = (time * 100) \div d
  BY <1>1 DEF Percent
<1>3. time * 100 \in Nat /\ 100 * k \in Nat /\ time * 100 <= (100 * k) * d
  <2>1. PICK u \in Int : u = k * d
    OBVIOUS
  <2>2. (100 * k) * d = 100 * u
    BY <2>1
  <2>3. time <= u
    BY <1>1, <2>1
  <2> QED BY <2>2, <2>3
<1>4. (time * 100) \div d <= 100 * k /\ (time * 100) \div d \in Nat
  BY <1>3, PartsAtMost, Quotient
<1> QED BY <1>2, <1>3, <1>4 DEF JustifyUsage

\* The usage of a time in ticks, and of one in jiffies, before the clamp.
LEMMA Usages ==
    ASSUME delay_time \in Nat, delay_time > 0, NEW time \in Nat,
           NEW d \in Nat \ {0}, d = Second * delay_time
    PROVE  /\ \E q \in Nat : /\ q = Percent(time, Second)
                             /\ q * d <= 100 * time /\ 100 * time < q * d + d
           /\ \E q \in Nat : /\ q = Percent(time, ClkTck)
                             /\ q * d <= 100 * TicksOf(time)
                             /\ 100 * TicksOf(time) < q * d + d
<1>1. Percent(time, Second) = (time * 100) \div d
  BY DEF Percent
<1>2. PICK e \in Nat \ {0} : e = ClkTck * delay_time
  BY Constants
<1>3. Percent(time, ClkTck) = (time * 100) \div e
  BY <1>2 DEF Percent
<1>4. PICK q \in Nat : /\ q = (time * 100) \div e
                       /\ q * e <= 100 * time /\ 100 * time < q * e + e
  BY Hundredths
<1>5. PICK j \in Nat \ {0} : j = Jiffy
  BY Constants
<1>6. d = j * e
  <2>1. d = (j * ClkTck) * delay_time
    BY <1>5 DEF Second
  <2>2. (j * ClkTck) * delay_time = j * (ClkTck * delay_time)
    BY Constants
  <2> QED BY <1>2, <2>1, <2>2
<1>7. q * d = j * (q * e) /\ 100 * TicksOf(time) = j * (100 * time)
  <2>1. q * (j * e) = j * (q * e)
    OBVIOUS
  <2>2. 100 * (time * j) = j * (100 * time)
    OBVIOUS
  <2> QED BY <1>5, <1>6, <2>1, <2>2 DEF TicksOf
<1>8. q * d <= 100 * TicksOf(time) /\ 100 * TicksOf(time) < q * d + d
  <2>1. PICK x \in Nat, y \in Nat : x = q * e /\ y = 100 * time
    BY <1>4
  <2>2. x <= y /\ y < x + e
    BY <1>4, <2>1
  <2>3. PICK f \in Nat, g \in Nat \ {0} : y = x + f /\ x + e = y + g
    <3>1. y - x \in Nat /\ y = x + (y - x)
      BY <2>2
    <3>2. (x + e) - y \in Nat \ {0} /\ x + e = y + ((x + e) - y)
      BY <2>2
    <3> QED BY <3>1, <3>2
  <2>4. j * y = j * x + j * f /\ j * f >= 0
    BY <2>3
  <2>5. j * x + j * e = j * y + j * g /\ j * g > 0
    <3>1. j * (x + e) = j * (y + g)
      BY <2>3
    <3>2. j * (x + e) = j * x + j * e /\ j * (y + g) = j * y + j * g
      OBVIOUS
    <3> QED BY <3>1, <3>2
  <2>6. j * x \in Int /\ j * y \in Int /\ j * e \in Int
    OBVIOUS
  <2> QED BY <1>6, <1>7, <2>1, <2>4, <2>5, <2>6
<1>9. PICK p \in Nat : /\ p = (time * 100) \div d
                       /\ p * d <= 100 * time /\ 100 * time < p * d + d
  BY Hundredths
<1>10. \E r \in Nat : /\ r = Percent(time, Second)
                      /\ r * d <= 100 * time /\ 100 * time < r * d + d
  BY Zenon, <1>1, <1>9
<1>11. \E r \in Nat : /\ r = Percent(time, ClkTck)
                      /\ r * d <= 100 * TicksOf(time)
                      /\ 100 * TicksOf(time) < r * d + d
  <2>1. q = Percent(time, ClkTck)
    BY <1>3, <1>4
  <2> QED BY Zenon, <1>8, <2>1
<1> QED BY Zenon, <1>10, <1>11

\* The deltas of a thread that stayed.
LEMMA TimeOfOne ==
    ASSUME IInv, Complete, NEW t \in Vcpus, rows[t].stays,
           NEW u, NEW s, NEW g, u = rows[t].dvcpu.vcpu_utime,
           s = rows[t].dvcpu.vcpu_stime, g = rows[t].dvcpu.gtime
    PROVE  /\ u \in Nat /\ s \in Nat /\ g \in Nat /\ g <= u
           /\ u + s <= taken - begun /\ taken - begun <= MaxTicks
           /\ HypTime(rows[t].dvcpu) = u - g + s
<1>1. /\ rows[t].dvcpu \in VcpuStat /\ ticks \in Nat /\ ticks <= MaxTicks
      /\ taken \in Nat /\ begun \in Nat /\ taken <= ticks /\ begun <= taken
  BY Numbers DEF IInv
<1>2. u \in Nat /\ s \in Nat /\ g \in Nat
  BY <1>1 DEF VcpuStat
<1>3. g <= u /\ u + s <= taken - begun
  BY DEF IInv, VcpuInv, StayInv, Agree, Complete
<1>4. taken - begun <= MaxTicks
  BY <1>1, Constants
<1>5. u - g + s \in Nat /\ u - g + s < U64
  BY <1>1, <1>2, <1>3, <1>4, TicksFit, Constants
<1>6. (u - g + s) % U64 = u - g + s
  BY <1>5, Constants, Remainder
<1> QED BY <1>2, <1>3, <1>4, <1>6 DEF HypTime

LEMMA RestOf == ASSUME IInv PROVE HypIsRest
<1> SUFFICES ASSUME Complete, NEW t \in Vcpus, rows[t].stays
             PROVE  /\ Cpu(t) <= Gue(t) + Hyp(t) + Inexact(rows[t].at - taken) + 1
                    /\ Gue(t) + Hyp(t)
                        <= Cpu(t) + Inexact((rows[t].was - begun) + Late)
  BY DEF HypIsRest
<1>1. PICK u, s, g :
        /\ u = rows[t].dvcpu.vcpu_utime /\ s = rows[t].dvcpu.vcpu_stime
        /\ g = rows[t].dvcpu.gtime
  OBVIOUS
<1>2. /\ u \in Nat /\ s \in Nat /\ g \in Nat /\ g <= u
      /\ u + s <= taken - begun /\ HypTime(rows[t].dvcpu) = u - g + s
  BY <1>1, TimeOfOne
<1>3. PICK h \in Nat : h = u - g + s /\ g + h = u + s
  BY <1>2
<1>4. delay_time \in Nat /\ delay_time > 0
  BY DEF IInv, TypeOK, Complete
<1>5. PICK d \in Nat \ {0} : d = Second * delay_time /\ d = delay_time * Second
  <2>1. Second * delay_time = delay_time * Second
    BY <1>4, Constants
  <2> QED BY <1>4, <2>1, Delay
<1>6. /\ taken \in Nat /\ begun \in Nat /\ rows[t].at \in Nat
      /\ rows[t].was \in Nat /\ rows[t].dstat \in Stat
  BY Numbers DEF IInv
<1>7. /\ taken <= rows[t].at /\ begun <= rows[t].was
      /\ Agree(rows[t].dvcpu, rows[t].dstat, taken - begun,
               rows[t].at - taken, rows[t].was - begun)
  BY DEF IInv, VcpuInv, RowInv, StayInv, Since, Complete
<1>8. PICK i \in Nat, j \in Nat, late \in Nat :
        /\ i = rows[t].at - taken /\ j = rows[t].was - begun /\ late = Late
        /\ taken - begun <= d + late
  <2>1. Late \in Nat /\ taken - begun <= d + Late
    BY <1>5, <1>6 DEF Late, InTime
  <2>2. rows[t].at - taken \in Nat /\ rows[t].was - begun \in Nat
    BY <1>6, <1>7
  <2> QED BY <2>1, <2>2
<1>9. PICK p \in Nat :
        /\ CpuTime(rows[t].dstat) = p
        /\ TicksOf(p) \in Nat
        /\ TicksOf(p) <= g + h + i + 2 * (Jiffy - 1)
        /\ g + h <= TicksOf(p) + j + 2 * (Jiffy - 1)
  <2>1. PICK x \in Nat, y \in Nat :
            x = rows[t].dstat.utime /\ y = rows[t].dstat.stime
    BY <1>6 DEF Stat
  <2>2. /\ x + y \in Nat /\ x + y <= MaxTicks
        /\ TicksOf(x + y) <= u + s + i + 2 * (Jiffy - 1)
        /\ u + s <= TicksOf(x + y) + j + 2 * (Jiffy - 1)
    BY <1>1, <1>7, <1>8, <2>1 DEF Agree
  <2>3. CpuTime(rows[t].dstat) = x + y
    <3>1. PICK z \in Nat : z = x + y /\ z < U64
      BY <2>2, TicksFit, Constants
    <3>2. z % U64 = z
      BY Zenon, <3>1, Unwrapped
    <3> QED BY <2>1, <3>1, <3>2 DEF CpuTime
  <2>4. TicksOf(x + y) \in Nat
    BY <2>2, TicksOfTyped
  <2> QED BY <1>3, <2>2, <2>3, <2>4
<1>10. PICK c \in Nat :
        /\ c = Percent(p, ClkTck)
        /\ c * d <= 100 * TicksOf(p) /\ 100 * TicksOf(p) < c * d + d
  BY <1>4, <1>5, Usages
<1>11. PICK gg \in Nat : /\ gg = Percent(g, Second)
                         /\ gg * d <= 100 * g /\ 100 * g < gg * d + d
  BY <1>2, <1>4, <1>5, Usages
<1>12. PICK hh \in Nat : /\ hh = Percent(h, Second)
                         /\ hh * d <= 100 * h /\ 100 * h < hh * d + d
  BY <1>4, <1>5, Usages
<1>13. /\ Cpu(t) = IF c >= 100 THEN 100 ELSE c
       /\ Gue(t) = IF gg >= 100 THEN 100 ELSE gg
       /\ Hyp(t) = IF hh >= 100 THEN 100 ELSE hh
  <2>1. \A n \in Nat : JustifyUsage(n, 1) = IF n >= 100 THEN 100 ELSE n
    BY DEF JustifyUsage
  <2>2. /\ Cpu(t) = JustifyUsage(c, 1) /\ Gue(t) = JustifyUsage(gg, 1)
        /\ Hyp(t) = JustifyUsage(hh, 1)
    BY <1>1, <1>2, <1>3, <1>9, <1>10, <1>11, <1>12 DEF Cpu, Gue, Hyp
  <2> QED BY <2>1, <2>2
<1>14. ASSUME NEW n \in Nat
       PROVE  \E k \in Nat : /\ Inexact(n) = k + 1
                             /\ 100 * (n + 2 * (Jiffy - 1)) < k * d + d
  <2>1. PICK e \in Nat : e = n + 2 * (Jiffy - 1)
    BY Constants
  <2>2. PICK k \in Nat : k = (e * 100) \div d /\ 100 * e < k * d + d
    BY Hundredths
  <2>3. Inexact(n) = k + 1
    BY <1>5, <2>1, <2>2 DEF Inexact
  <2> QED BY <2>1, <2>2, <2>3
<1>15. Cpu(t) <= Gue(t) + Hyp(t) + Inexact(rows[t].at - taken) + 1
  <2>1. PICK k \in Nat : /\ Inexact(i) = k + 1
                         /\ 100 * (i + 2 * (Jiffy - 1)) < k * d + d
    BY <1>14
  <2>2. PICK e \in Nat : e = i + 2 * (Jiffy - 1)
    BY Constants
  <2>3. 100 * e < k * d + d /\ TicksOf(p) <= g + h + e
    BY <1>2, <1>9, <2>1, <2>2, Constants
  <2>4. c <= gg + hh + k + 2
    BY <1>2, <1>9, <1>10, <1>11, <1>12, <2>3, PartsAlike
  <2> QED BY <1>8, <1>13, <2>1, <2>4
<1>16. Gue(t) + Hyp(t) <= Cpu(t) + Inexact((rows[t].was - begun) + Late)
  <2>1. PICK k \in Nat : /\ Inexact(j + late) = k + 1
                         /\ 100 * ((j + late) + 2 * (Jiffy - 1)) < k * d + d
    <3>1. j + late \in Nat
      OBVIOUS
    <3> QED BY <1>14, <3>1
  <2>2. PICK e \in Nat : e = (j + late) + 2 * (Jiffy - 1)
    BY Constants
  <2>3. /\ 100 * e < k * d + d /\ g + h <= TicksOf(p) + e /\ g + h <= d + e
    <3>1. g + h <= d + late
      BY <1>2, <1>3, <1>6, <1>8
    <3> QED BY <1>2, <1>9, <2>1, <2>2, <3>1, Constants
  <2>4. gg + hh <= c + k + 1 /\ gg + hh <= 100 + k
    BY <1>2, <1>9, <1>10, <1>11, <1>12, <2>3, PartsAlike
  <2> QED BY <1>8, <1>13, <2>1, <2>4
<1> QED BY <1>15, <1>16

\* %HYP is the rest of the %CPU of a vCPU without its %GUE, whatever the delay,
\* the jiffy and the times of the reads: guest time is taken off the user time
\* that includes it, no subtraction wraps as long as the thread stays, and the
\* two kinds of counters tell the same time (print_domain_field).
THEOREM HypExact == Spec => []HypIsRest
BY Holds, RestOf, PTL

LEMMA SumsOfVcpus == ASSUME IInv PROVE DomainShowsVcpus
<1> SUFFICES ASSUME Complete, InTime, \A t \in Vcpus : rows[t].stays
             PROVE  /\ DomHyp = Percent(SumFunction([t \in Vcpus |->
                                            HypTime(rows[t].dvcpu)]), Second)
                    /\ DomGue = Percent(SumFunction([t \in Vcpus |->
                                            rows[t].dvcpu.gtime]), Second)
  BY DEF DomainShowsVcpus
<1> DEFINE U == [t \in Vcpus |-> rows[t].dvcpu.vcpu_utime]
           S == [t \in Vcpus |-> rows[t].dvcpu.vcpu_stime]
           G == [t \in Vcpus |-> rows[t].dvcpu.gtime]
           H == [t \in Vcpus |-> HypTime(rows[t].dvcpu)]
           R == [t \in Vcpus |-> U[t] - G[t]]
           n == Cardinality(Vcpus)
           d == Second * delay_time
<1>1. delay_time \in Nat /\ delay_time > 0 /\ d \in Nat \ {0}
  BY Delay DEF IInv, TypeOK, Complete
<1>2. taken - begun <= d /\ taken \in Nat /\ begun \in Nat
  <2>1. delay_time * Second = Second * delay_time
    BY <1>1, Constants
  <2>2. taken \in Nat /\ begun \in Nat
    BY DEF IInv, TypeOK
  <2> QED BY <2>1, <2>2 DEF InTime
<1>3. ASSUME NEW t \in Vcpus
      PROVE  /\ U[t] \in 0..MaxTicks /\ S[t] \in 0..MaxTicks
             /\ G[t] \in 0..MaxTicks /\ H[t] \in 0..MaxTicks
             /\ G[t] \in 0..d /\ H[t] \in 0..d /\ R[t] \in Nat
             /\ U[t] = G[t] + R[t] /\ H[t] = R[t] + S[t]
  <2>1. PICK u, s, g :
            /\ u = rows[t].dvcpu.vcpu_utime /\ s = rows[t].dvcpu.vcpu_stime
            /\ g = rows[t].dvcpu.gtime
    OBVIOUS
  <2>2. /\ u \in Nat /\ s \in Nat /\ g \in Nat /\ g <= u
        /\ u + s <= taken - begun /\ taken - begun <= MaxTicks
        /\ HypTime(rows[t].dvcpu) = u - g + s
    BY <2>1, TimeOfOne
  <2>3. U[t] = u /\ S[t] = s /\ G[t] = g /\ H[t] = u - g + s /\ R[t] = u - g
    BY <2>1, <2>2
  <2> HIDE DEF U, S, G, H, R, d
  <2> QED BY <1>1, <1>2, <2>2, <2>3, Constants
<1>4. dom.sum = [vcpu_utime |-> SumOf(U), vcpu_stime |-> SumOf(S),
                 gtime |-> SumOf(G)]
  BY DEF IInv, SumVcpuStat
<1>5. /\ U \in [Vcpus -> Nat] /\ S \in [Vcpus -> Nat] /\ G \in [Vcpus -> Nat]
      /\ H \in [Vcpus -> Nat] /\ R \in [Vcpus -> Nat]
  <2>1. \A t \in Vcpus : /\ U[t] \in Nat /\ S[t] \in Nat /\ G[t] \in Nat
                         /\ H[t] \in Nat /\ R[t] \in Nat
    BY <1>3, Constants
  <2> QED BY <2>1
<1>6. SumFunction(H) = OverVcpus(H) /\ SumFunction(G) = OverVcpus(G)
  BY DEF SumFunction, OverVcpus
<1> HIDE DEF U, S, G, H, R, d, n
<1>7. /\ OverVcpus(U) = OverVcpus(G) + OverVcpus(R)
      /\ OverVcpus(H) = OverVcpus(R) + OverVcpus(S)
  <2>1. /\ \A t \in Vcpus : /\ U[t] \in Nat /\ S[t] \in Nat /\ G[t] \in Nat
                            /\ H[t] \in Nat /\ R[t] \in Nat
        /\ \A t \in Vcpus : U[t] = G[t] + R[t]
        /\ \A t \in Vcpus : H[t] = R[t] + S[t]
    BY <1>3, <1>5
  <2>2. OverVcpus(U) = OverVcpus(G) + OverVcpus(R)
    BY <2>1, SumAdds DEF OverVcpus
  <2>3. OverVcpus(H) = OverVcpus(R) + OverVcpus(S)
    BY <2>1, SumAdds DEF OverVcpus
  <2> QED BY <2>2, <2>3
<1>8. /\ OverVcpus(U) \in Nat /\ OverVcpus(S) \in Nat /\ OverVcpus(G) \in Nat
      /\ OverVcpus(H) \in Nat /\ OverVcpus(R) \in Nat
  BY <1>5, SumOfTyped
<1>9. ASSUME NEW f \in {U, S, G, H} PROVE OverVcpus(f) < U64
  <2>1. \A t \in Vcpus : f[t] \in 0..MaxTicks
    BY <1>3
  <2>2. OverVcpus(f) <= Cardinality(Vcpus) * MaxTicks
    BY <2>1, Constants, SumBounded DEF OverVcpus
  <2> QED BY <1>8, <2>2, TicksFit
<1>10. ASSUME NEW f \in {G, H}
       PROVE  JustifyUsage(Percent(OverVcpus(f), Second), n)
                    = Percent(OverVcpus(f), Second)
  <2>1. \A t \in Vcpus : f[t] \in 0..d
    BY <1>3
  <2>2. OverVcpus(f) <= n * d
    BY <1>1, <2>1, SumBounded DEF OverVcpus, n
  <2>3. n \in Nat
    BY VcpuCount DEF n
  <2> QED BY <1>1, <1>8, <2>2, <2>3, NotClamped DEF d
<1>11. ASSUME NEW f \in {U, S, G} PROVE SumOf(f) = OverVcpus(f)
  <2>1. SumOf(f) = OverVcpus(f) % U64
    BY <1>5, SumOfTyped
  <2>2. OverVcpus(f) \in Nat /\ OverVcpus(f) < U64
    BY <1>8, <1>9
  <2> QED BY <2>1, <2>2, Constants, Remainder
<1>12. HypTime(dom.sum) = OverVcpus(H)
  <2>1. HypTime(dom.sum) = (OverVcpus(U) - OverVcpus(G) + OverVcpus(S)) % U64
    BY <1>4, <1>11 DEF HypTime
  <2>2. OverVcpus(U) - OverVcpus(G) + OverVcpus(S) = OverVcpus(H)
    BY <1>7, <1>8
  <2>3. OverVcpus(H) % U64 = OverVcpus(H)
    BY <1>8, <1>9, Constants, Remainder
  <2> QED BY <2>1, <2>2, <2>3
<1>13. dom.sum.gtime = OverVcpus(G)
  BY <1>4, <1>11
<1>14. /\ DomHyp = Percent(OverVcpus(H), Second)
       /\ DomGue = Percent(OverVcpus(G), Second)
  BY <1>10, <1>12, <1>13 DEF DomHyp, DomGue, n
<1> QED BY <1>6, <1>14 DEF G, H

\* A domain shows the time of its vCPUs in the guest and in the hypervisor,
\* none lost and none counted twice: however many there are, the sums do not
\* wrap, and the clamp cuts nothing as long as the sample is not late
\* (sum_vcpu_stat, justify_usage).
THEOREM DomainExact == Spec => []DomainShowsVcpus
BY Holds, SumsOfVcpus, PTL
=============================================================================
