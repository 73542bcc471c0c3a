--------------------------- MODULE BandwidthProofs ---------------------------
(***************************************************************************)
(* The averages and the totals of module Bandwidth, for every number of    *)
(* domains, nodes and rounds and all readings.                             *)
(***************************************************************************)
EXTENDS Bandwidth, SumProofs, TLAPS

\* The sums and counts that AverageExact speaks of have their types.
Typed ==
    /\ pc \in {"idle", "sampled", "vms", "host", "average"}
    /\ domains \in Seq(Dom)
    /\ node_num \in 0..MaxNodeNum
    /\ sample_times_vms \in [1..Len(domains) -> Nat]
    /\ i \in Nat \ {0}

\* While the rounds go on, the sums that the code keeps are the sums of the
\* complete samples, and so is their number.
Summing ==
    pc # "idle" =>
        \A k \in 1..Len(domains) :
            /\ ~ domains[k].bandwidth_updated_succ
            /\ sample_times_vms[k] = domains[k].series.full
            /\ ~ domains[k].series.partial =>
                domains[k].ctl_bandwidth = domains[k].series.sum

\* Nothing was sampled before get_numa_num.
Untouched ==
    pc = "sampled" =>
        \A k \in 1..Len(domains) : domains[k] = NewDom(domains[k].domain_id)

IInv == Typed /\ Summing /\ Untouched /\ AverageExact
-----------------------------------------------------------------------------
\* The sums stay sums: get_mon_MB adds natural numbers.
LEMMA AddedType ==
    ASSUME BandwidthAssumption, node_num \in 0..MaxNodeNum,
           NEW bw \in [ArrayNodes -> Nat], NEW read \in Reads
    PROVE  Added(bw, read) \in [ArrayNodes -> Nat]
<1>1. ASSUME NEW n \in Nodes, \A m \in 0..n : read[m] # NoReading
      PROVE  read[n] \in Nat
  <2>1. n \in 0..n
    BY DEF Nodes
  <2>2. read[n] \in Readings
    BY <1>1, <2>1 DEF Reads
  <2> QED BY <2>2 DEF BandwidthAssumption
<1>2. \A n \in ArrayNodes :
        (IF n \in Nodes /\ \A m \in 0..n : read[m] # NoReading
         THEN bw[n] + read[n] ELSE bw[n]) \in Nat
  BY <1>1
<1> QED BY <1>2 DEF Added

LEMMA RecordedType ==
    ASSUME BandwidthAssumption, node_num \in 0..MaxNodeNum,
           NEW s \in Series, NEW read \in Reads
    PROVE  Recorded(s, read) \in Series
<1>1. s.sum \in [ArrayNodes -> Nat] /\ s.full \in Nat
  BY DEF Series
<1>2. CASE Full(read)
  <2> DEFINE sum == [n \in ArrayNodes |->
                        IF n \in Nodes THEN s.sum[n] + read[n] ELSE s.sum[n]]
  <2>1. \A n \in Nodes : read[n] \in Nat
    BY <1>2 DEF Full, Reads, BandwidthAssumption
  <2>2. sum \in [ArrayNodes -> Nat]
    BY <1>1, <2>1
  <2>3. Recorded(s, read) = [s EXCEPT !.full = s.full + 1, !.sum = sum]
    BY <1>2 DEF Recorded
  <2>4. s.full + 1 \in Nat
    BY <1>1
  <2> HIDE DEF sum
  <2>5. PICK m \in Nat, f \in [ArrayNodes -> Nat] : m = s.full + 1 /\ f = sum
    BY <2>2, <2>4
  <2>6. Recorded(s, read) = [s EXCEPT !.full = m, !.sum = f]
    BY <2>3, <2>5
  <2> QED BY <2>6 DEF Series
<1>3. CASE ~ Full(read)
  <2>1. PICK p \in BOOLEAN : p = (s.partial \/ read[0] # NoReading)
    OBVIOUS
  <2>2. Recorded(s, read) = [s EXCEPT !.partial = p]
    BY <1>3, <2>1 DEF Recorded
  <2> QED BY <2>2 DEF Series
<1> QED BY <1>2, <1>3

\* A complete sample is added as it is recorded, and one that fails at the
\* first node leaves the sums alone.
LEMMA AddedIsRecorded ==
    ASSUME BandwidthAssumption, node_num \in 0..MaxNodeNum,
           NEW s \in Series, NEW read \in Reads,
           ~ Recorded(s, read).partial
    PROVE  /\ Added(s.sum, read) = Recorded(s, read).sum
           /\ ~ s.partial
<1>1. s.sum \in [ArrayNodes -> Nat]
  BY DEF Series
<1>2. CASE Full(read)
  <2>1. \A n \in Nodes : \A m \in 0..n : read[m] # NoReading
    BY <1>2 DEF Full, Nodes
  <2>2. Added(s.sum, read) =
            [n \in ArrayNodes |->
                IF n \in Nodes THEN s.sum[n] + read[n] ELSE s.sum[n]]
    BY <2>1 DEF Added
  <2>3. /\ Recorded(s, read).sum =
            [n \in ArrayNodes |->
                IF n \in Nodes THEN s.sum[n] + read[n] ELSE s.sum[n]]
        /\ Recorded(s, read).partial = s.partial
    BY <1>2 DEF Recorded, Series
  <2> QED BY <2>2, <2>3
<1>3. CASE ~ Full(read)
  <2>1. /\ Recorded(s, read).sum = s.sum
        /\ Recorded(s, read).partial = (s.partial \/ read[0] # NoReading)
    BY <1>3 DEF Recorded, Series
  <2>2. read[0] = NoReading /\ ~ s.partial
    BY <2>1
  <2>3. \A n \in Nodes : 0 \in 0..n
    BY DEF Nodes
  <2>4. Added(s.sum, read) = [n \in ArrayNodes |-> s.sum[n]]
    BY <2>2, <2>3 DEF Added
  <2> QED BY <1>1, <2>1, <2>2, <2>4
<1> QED BY <1>2, <1>3

\* Exactly the complete samples are counted.
LEMMA RecordedCount ==
    ASSUME NEW s \in Series, NEW read
    PROVE  Recorded(s, read).full = IF Full(read) THEN s.full + 1 ELSE s.full
BY DEF Recorded, Series
-----------------------------------------------------------------------------
\* The zeroed structures have their types.
LEMMA NewDomType ==
    ASSUME BandwidthAssumption, NEW id \in Ids
    PROVE  NewDom(id) \in Dom
<1>1. Zeros \in [ArrayNodes -> Nat]
  BY DEF Zeros
<1> QED BY <1>1 DEF NewDom, Dom, NoSeries, Series

LEMMA InitIInv == BandwidthAssumption /\ Init => IInv
<1> SUFFICES ASSUME BandwidthAssumption, Init PROVE IInv
  OBVIOUS
<1>1. Len(domains) = 0
  BY DEF Init
<1>2. Typed
  <2>1. 1..0 = {}
    OBVIOUS
  <2>2. sample_times_vms \in [1..0 -> Nat]
    BY <2>1 DEF Init
  <2> QED BY <1>1, <2>2 DEF Typed, Init, BandwidthAssumption
<1>3. Summing /\ Untouched /\ AverageExact
  BY <1>1 DEF Summing, Untouched, AverageExact, Init
<1> QED BY <1>2, <1>3 DEF IInv

\* refresh_domains starts from zeroed domains.
LEMMA RefreshKeepsIInv ==
    ASSUME BandwidthAssumption, IInv, RefreshDomains
    PROVE  IInv'
<1>1. PICK num \in 0..MaxDoms : \E ids \in [1..num -> Ids] :
        /\ domains' = [k \in 1..num |-> NewDom(ids[k])]
        /\ sample_times_vms' = [k \in 1..num |-> 0]
  BY DEF RefreshDomains
<1>2. PICK ids \in [1..num -> Ids] :
        /\ domains' = [k \in 1..num |-> NewDom(ids[k])]
        /\ sample_times_vms' = [k \in 1..num |-> 0]
  BY <1>1
<1>3. num \in Nat
  BY DEF BandwidthAssumption
<1>4. \A k \in 1..num : NewDom(ids[k]) \in Dom
  BY <1>2, NewDomType
<1>5. domains' \in Seq(Dom) /\ Len(domains') = num
  BY <1>2, <1>3, <1>4
<1>6. \A k \in 1..num : domains'[k] = NewDom(ids[k])
  BY <1>2
<1>7. Typed'
  BY <1>2, <1>5 DEF Typed, RefreshDomains, IInv
<1>8. Summing'
  <2>1. \A k \in 1..num :
            /\ ~ domains'[k].bandwidth_updated_succ
            /\ sample_times_vms'[k] = domains'[k].series.full
            /\ domains'[k].ctl_bandwidth = domains'[k].series.sum
    BY <1>2, <1>6 DEF NewDom, NoSeries
  <2> QED BY <1>5, <2>1 DEF Summing
<1>9. Untouched'
  <2>1. \A id : NewDom(id).domain_id = id
    BY DEF NewDom
  <2>2. \A k \in 1..num : domains'[k] = NewDom(domains'[k].domain_id)
    BY <1>6, <2>1
  <2> QED BY <1>5, <2>2 DEF Untouched
<1>10. AverageExact'
  BY DEF AverageExact, Shown, RefreshDomains
<1> QED BY <1>7, <1>8, <1>9, <1>10 DEF IInv

\* A frame for which nothing was sampled shows zeros.
LEMMA SkippedKeepsIInv ==
    ASSUME BandwidthAssumption, IInv, NoResctrl \/ NumaFails
    PROVE  IInv'
<1>1. /\ pc = "sampled" /\ pc' = "idle"
      /\ domains' = domains
      /\ UNCHANGED <<sample_times_vms, i>>
      /\ node_num' \in {node_num, 0}
  BY DEF NoResctrl, NumaFails
<1>2. Typed'
  BY <1>1 DEF Typed, IInv, BandwidthAssumption
<1>3. Summing' /\ Untouched'
  BY <1>1 DEF Summing, Untouched
<1>4. AverageExact'
  <2> SUFFICES ASSUME NEW k \in 1..Len(domains), NEW n \in Nodes'
               PROVE  /\ ~ domains[k].bandwidth_updated_succ
                      /\ domains[k].series.full = 0
    BY <1>1 DEF AverageExact, IsAverage, NodeField
  <2>1. domains[k] = NewDom(domains[k].domain_id)
    BY <1>1 DEF IInv, Untouched
  <2> QED BY <2>1 DEF NewDom, NoSeries
<1> QED BY <1>2, <1>3, <1>4 DEF IInv

\* Steps that leave the domains and their counts alone.
LEMMA IdleStepKeepsIInv ==
    ASSUME BandwidthAssumption, IInv, GetNumaNum \/ NoGroup \/ EndVms \/ SampleHost
    PROVE  IInv'
<1>1. /\ UNCHANGED <<domains, sample_times_vms>>
      /\ pc # "idle"
      /\ pc' \in {"vms", "host", "average"}
      /\ node_num' \in 0..MaxNodeNum
      /\ i' \in {i, i + 1, 1}
  BY DEF GetNumaNum, NoGroup, NextVm, EndVms, SampleHost, IInv, Typed,
         BandwidthAssumption
<1>2. Typed'
  BY <1>1 DEF Typed, IInv
<1>3. Summing' /\ Untouched' /\ AverageExact'
  BY <1>1 DEF Summing, Untouched, AverageExact, Shown, IInv
<1> QED BY <1>2, <1>3 DEF IInv

\* A sample is added and counted as it is recorded.
LEMMA SampleVmKeepsIInv ==
    ASSUME BandwidthAssumption, IInv, SampleVm
    PROVE  IInv'
<1>1. /\ pc = "vms" /\ pc' = "vms" /\ i' = i + 1
      /\ i \in 1..Len(domains)
      /\ node_num' = node_num
  BY DEF SampleVm, NextVm, IInv, Typed
<1>2. PICK group \in CtlGroups(domains[i].domain_id), read \in Reads :
        /\ domains' = [domains EXCEPT ![i] = Sampled(@, group, read)]
        /\ sample_times_vms' =
            [sample_times_vms EXCEPT ![i] = IF Full(read) THEN @ + 1 ELSE @]
  BY DEF SampleVm
<1> DEFINE d == domains[i]
           e == Sampled(d, group, read)
<1>3. /\ domains \in Seq(Dom) /\ d \in Dom
      /\ sample_times_vms \in [1..Len(domains) -> Nat]
      /\ node_num \in 0..MaxNodeNum
  BY <1>1 DEF IInv, Typed
<1>4. d.series \in Series /\ d.ctl_bandwidth \in [ArrayNodes -> Nat]
  BY <1>3 DEF Dom
<1>5. group \in Ids
  BY DEF CtlGroups
<1>6. /\ e.series = Recorded(d.series, read)
      /\ e.ctl_bandwidth = Added(d.ctl_bandwidth, read)
      /\ e.bandwidth_updated_succ = d.bandwidth_updated_succ
      /\ e \in Dom
  <2>1. /\ Added(d.ctl_bandwidth, read) \in [ArrayNodes -> Nat]
        /\ Recorded(d.series, read) \in Series
    BY <1>3, <1>4, AddedType, RecordedType
  <2> QED BY <1>3, <1>5, <2>1 DEF Sampled, Dom
<1>7. /\ Len(domains') = Len(domains)
      /\ domains' \in Seq(Dom)
      /\ domains'[i] = e
      /\ \A k \in 1..Len(domains) : k # i => domains'[k] = domains[k]
  BY <1>1, <1>2, <1>3, <1>6
<1>8. /\ sample_times_vms' \in [1..Len(domains) -> Nat]
      /\ sample_times_vms'[i] =
            IF Full(read) THEN sample_times_vms[i] + 1 ELSE sample_times_vms[i]
      /\ \A k \in 1..Len(domains) :
            k # i => sample_times_vms'[k] = sample_times_vms[k]
  BY <1>1, <1>2, <1>3
<1>9. Typed'
  BY <1>1, <1>3, <1>7, <1>8 DEF Typed
<1>10. Summing'
  <2>1. \A k \in 1..Len(domains) :
            /\ ~ domains[k].bandwidth_updated_succ
            /\ sample_times_vms[k] = domains[k].series.full
            /\ ~ domains[k].series.partial =>
                domains[k].ctl_bandwidth = domains[k].series.sum
    BY <1>1 DEF IInv, Summing
  <2>2. sample_times_vms'[i] = e.series.full
    BY <1>1, <1>4, <1>6, <1>8, <2>1, RecordedCount
  <2>3. ASSUME ~ e.series.partial
        PROVE  e.ctl_bandwidth = e.series.sum
    <3>1. Added(d.series.sum, read) = e.series.sum /\ ~ d.series.partial
      BY <1>3, <1>4, <1>6, <2>3, AddedIsRecorded
    <3> QED BY <1>1, <1>6, <2>1, <3>1
  <2>4. ~ e.bandwidth_updated_succ
    BY <1>1, <1>6, <2>1
  <2> QED BY <1>7, <1>8, <2>1, <2>2, <2>3, <2>4 DEF Summing
<1>11. Untouched' /\ AverageExact'
  BY <1>1 DEF Untouched, AverageExact, Shown
<1> QED BY <1>9, <1>10, <1>11 DEF IInv

\* The division turns sums of complete samples into their averages.
LEMMA CalculateKeepsIInv ==
    ASSUME BandwidthAssumption, IInv, CalculateAllBandwidth
    PROVE  IInv'
<1>1. /\ pc = "average" /\ pc' = "idle"
      /\ domains' = [k \in 1..Len(domains) |-> Averaged(k)]
      /\ UNCHANGED <<node_num, sample_times_vms, i>>
  BY DEF CalculateAllBandwidth
<1>2. /\ domains \in Seq(Dom)
      /\ sample_times_vms \in [1..Len(domains) -> Nat]
      /\ node_num \in 0..MaxNodeNum
  BY DEF IInv, Typed
<1>3. \A k \in 1..Len(domains) : Averaged(k) \in Dom
  <2> SUFFICES ASSUME NEW k \in 1..Len(domains) PROVE Averaged(k) \in Dom
    OBVIOUS
  <2>1. domains[k] \in Dom /\ sample_times_vms[k] \in Nat
    BY <1>2
  <2>2. CASE sample_times_vms[k] = 0
    BY <2>1, <2>2 DEF Averaged
  <2>3. CASE sample_times_vms[k] # 0
    <3> DEFINE cb == domains[k].ctl_bandwidth
               avg == [n \in ArrayNodes |->
                  IF n \in Nodes THEN cb[n] \div sample_times_vms[k] ELSE cb[n]]
    <3>1. cb \in [ArrayNodes -> Nat]
      BY <2>1 DEF Dom
    <3>2. sample_times_vms[k] \in Nat \ {0}
      BY <2>1, <2>3
    <3>3. \A a \in Nat, b \in Nat \ {0} : a \div b \in Nat
      OBVIOUS
    <3>4. avg \in [ArrayNodes -> Nat]
      BY <3>1, <3>2, <3>3
    <3>5. Averaged(k) = [domains[k] EXCEPT !.bandwidth_updated_succ = TRUE,
                                           !.ctl_bandwidth = avg]
      BY <2>3 DEF Averaged
    <3> QED BY <2>1, <3>4, <3>5 DEF Dom
  <2> QED BY <2>2, <2>3
<1>4. Len(domains) \in Nat
  BY <1>2
<1>5. /\ domains' \in Seq(Dom) /\ Len(domains') = Len(domains)
      /\ \A k \in 1..Len(domains) : domains'[k] = Averaged(k)
  BY <1>1, <1>3, <1>4
<1>6. Typed'
  BY <1>1, <1>2, <1>5 DEF Typed, IInv
<1>7. Summing' /\ Untouched'
  BY <1>1 DEF Summing, Untouched
<1>8. AverageExact'
  <2> SUFFICES ASSUME NEW k \in 1..Len(domains),
                      ~ Averaged(k).series.partial,
                      NEW n \in Nodes
               PROVE  NodeField(Averaged(k), n) =
                        IF Averaged(k).series.full = 0 THEN 0
                        ELSE Averaged(k).series.sum[n]
                                \div Averaged(k).series.full
    BY <1>1, <1>5 DEF AverageExact, IsAverage, Nodes
  <2>1. domains[k] \in Dom
    BY <1>2
  <2>2. /\ ~ domains[k].bandwidth_updated_succ
        /\ sample_times_vms[k] = domains[k].series.full
        /\ ~ domains[k].series.partial =>
            domains[k].ctl_bandwidth = domains[k].series.sum
    BY <1>1 DEF IInv, Summing
  <2>3. CASE sample_times_vms[k] = 0
    BY <2>2, <2>3 DEF Averaged, NodeField
  <2>4. CASE sample_times_vms[k] # 0
    <3>1. /\ Averaged(k).series = domains[k].series
          /\ Averaged(k).bandwidth_updated_succ
          /\ Averaged(k).ctl_bandwidth = [m \in ArrayNodes |->
                IF m \in Nodes
                THEN domains[k].ctl_bandwidth[m] \div sample_times_vms[k]
                ELSE domains[k].ctl_bandwidth[m]]
      BY <2>1, <2>4 DEF Averaged, Dom
    <3>2. n \in ArrayNodes
      BY <1>2 DEF Nodes, ArrayNodes, BandwidthAssumption
    <3> QED BY <2>2, <2>4, <3>1, <3>2 DEF NodeField
  <2> QED BY <2>3, <2>4
<1> QED BY <1>6, <1>7, <1>8 DEF IInv

LEMMA NextIInv == BandwidthAssumption /\ IInv /\ [Next]_vars => IInv'
<1> SUFFICES ASSUME BandwidthAssumption, IInv, [Next]_vars PROVE IInv'
  OBVIOUS
<1>1. CASE RefreshDomains
  BY <1>1, RefreshKeepsIInv
<1>2. CASE NoResctrl \/ NumaFails
  BY <1>2, SkippedKeepsIInv
<1>3. CASE GetNumaNum \/ NoGroup \/ EndVms \/ SampleHost
  BY <1>3, IdleStepKeepsIInv
<1>4. CASE SampleVm
  BY <1>4, SampleVmKeepsIInv
<1>5. CASE CalculateAllBandwidth
  BY <1>5, CalculateKeepsIInv
<1>6. CASE UNCHANGED vars
  BY <1>6 DEF vars, IInv, Typed, Summing, Untouched, AverageExact, Shown,
              IsAverage, Nodes
<1> QED BY <1>1, <1>2, <1>3, <1>4, <1>5, <1>6 DEF Next

\* For any domains, nodes, rounds and readings, and whichever samples fail: a
\* domain none of whose samples stopped half way shows the average of its
\* complete samples, or zero (refresh_domains_bandwidth).
THEOREM AveragesExact == Spec => []AverageExact
<1>1. Init => IInv
  BY InitIInv, BandwidthAssumption
<1>2. IInv /\ [Next]_vars => IInv'
  BY NextIInv, BandwidthAssumption
<1>3. IInv => AverageExact
  BY DEF IInv
<1> QED BY <1>1, <1>2, <1>3, PTL DEF Spec
-----------------------------------------------------------------------------
(***************************************************************************)
(* The totals of the summary lines, which rest on how often the root and   *)
(* the domains were sampled and on where their sums can have grown.        *)
(***************************************************************************)

\* The rest of the types: a domain is sampled at most once in a round.
Bounded ==
    /\ Len(domains) <= MaxDoms
    /\ bandwidth \in [ArrayNodes -> Nat]
    /\ sample_times_host \in 0..Rounds
    /\ r \in 1..(Rounds + 1)
    /\ i <= MaxDoms + 1
    /\ root \in Series
    /\ \A k \in 1..Len(domains) : sample_times_vms[k] <= Rounds
    /\ pc \in {"sampled", "vms", "host"} =>
        /\ r <= Rounds
        /\ sample_times_host < r
        /\ \A k \in 1..Len(domains) :
            sample_times_vms[k] <= IF k < i THEN r ELSE r - 1
    /\ pc = "sampled" => i = 1

\* What the root's sums are made of, and that nothing was added for a node
\* that does not exist.
Totals ==
    pc # "idle" =>
        /\ sample_times_host = root.full
        /\ ~ root.partial => bandwidth = root.sum
        /\ root.full = 0 => root.sum = Zeros
        /\ \A n \in ArrayNodes \ Nodes :
            /\ bandwidth[n] = 0 /\ root.sum[n] = 0
            /\ \A k \in 1..Len(domains) : domains[k].ctl_bandwidth[n] = 0
        /\ pc = "sampled" => bandwidth = Zeros /\ root = NoSeries

TInv == IInv /\ Bounded /\ Totals /\ HostCoversGuests /\ SummaryAddsUp
-----------------------------------------------------------------------------
\* What the rows of a column add up to.
LEMMA VmsOnNodeType ==
    ASSUME NEW doms \in Seq(Dom), NEW n \in ArrayNodes
    PROVE  VmsOnNode(doms, n) \in Nat
<1> DEFINE f == [k \in 1..Len(doms) |-> NodeField(doms[k], n)]
<1>1. IsFiniteSet(1..Len(doms))
  BY FS_Interval
<1>2. \A k \in 1..Len(doms) : f[k] \in Nat
  <2>1. ASSUME NEW d \in Dom PROVE NodeField(d, n) \in Nat
    BY DEF NodeField, Dom
  <2> QED BY <2>1
<1>3. VmsOnNode(doms, n) = SumFunctionOnSet(f, 1..Len(doms))
  BY DEF VmsOnNode, SumFunction
<1> HIDE DEF f
<1> QED BY <1>1, <1>2, <1>3, SumIsNat

LEMMA VmsOnNodeZero ==
    ASSUME NEW doms \in Seq(Dom), NEW n,
           \A k \in 1..Len(doms) : NodeField(doms[k], n) = 0
    PROVE  VmsOnNode(doms, n) = 0
<1> DEFINE f == [k \in 1..Len(doms) |-> NodeField(doms[k], n)]
<1>1. IsFiniteSet(1..Len(doms))
  BY FS_Interval
<1>2. \A k \in 1..Len(doms) : f[k] = 0
  OBVIOUS
<1>3. VmsOnNode(doms, n) = SumFunctionOnSet(f, 1..Len(doms))
  BY DEF VmsOnNode, SumFunction
<1> HIDE DEF f
<1> QED BY <1>1, <1>2, <1>3, SumOfZeros

\* The repair of the total never applies: the sum of the rows is in it.
LEMMA HostTotalIsSum ==
    ASSUME BandwidthAssumption, NEW own \in Nat, NEW vms \in Nat
    PROVE  HostTotal(own, vms) = own + vms
<1>1. vms % UintSize \in 0..vms
  <2>1. UintSize \in Nat \ {0}
    BY DEF BandwidthAssumption
  <2>2. \A a \in Nat, b \in Nat \ {0} : a % b <= a /\ a % b \in Nat
    OBVIOUS
  <2> QED BY <2>1, <2>2
<1> QED BY <1>1 DEF HostTotal

\* A sample adds to the nodes that exist only, and a complete one is counted.
LEMMA RecordedTotals ==
    ASSUME BandwidthAssumption, node_num \in 0..MaxNodeNum,
           NEW s \in Series, NEW read \in Reads,
           s.full = 0 => s.sum = Zeros
    PROVE  /\ Recorded(s, read).full = 0 => Recorded(s, read).sum = Zeros
           /\ \A n \in ArrayNodes \ Nodes : Recorded(s, read).sum[n] = s.sum[n]
<1>1. CASE Full(read)
  <2>1. /\ Recorded(s, read).sum = [n \in ArrayNodes |->
                IF n \in Nodes THEN s.sum[n] + read[n] ELSE s.sum[n]]
        /\ Recorded(s, read).full = s.full + 1
    BY <1>1 DEF Recorded, Series
  <2>2. s.full \in Nat
    BY DEF Series
  <2> QED BY <2>1, <2>2
<1>2. CASE ~ Full(read)
  BY <1>2 DEF Recorded, Series
<1> QED BY <1>1, <1>2

LEMMA AddedOutside ==
    ASSUME NEW bw, NEW read, NEW n \in ArrayNodes \ Nodes
    PROVE  Added(bw, read)[n] = bw[n]
BY DEF Added
-----------------------------------------------------------------------------
LEMMA InitTInv == BandwidthAssumption /\ Init => TInv
<1> SUFFICES ASSUME BandwidthAssumption, Init PROVE TInv
  OBVIOUS
<1>1. IInv
  BY InitIInv
<1>2. Zeros \in [ArrayNodes -> Nat] /\ NoSeries \in Series
  BY DEF Zeros, NoSeries, Series
<1>3. Bounded
  BY <1>2 DEF Init, Bounded, BandwidthAssumption
<1>4. Totals
  BY DEF Init, Totals
<1>5. \A n : VmsOnNode(domains, n) = 0
  <2>1. domains \in Seq(Dom) /\ Len(domains) = 0
    BY DEF Init
  <2>2. \A n : \A k \in 1..Len(domains) : NodeField(domains[k], n) = 0
    BY <2>1
  <2> HIDE DEF NodeField
  <2> QED BY <2>1, <2>2, VmsOnNodeZero
<1>6. HostCoversGuests
  BY <1>5 DEF Init, HostCoversGuests, Nodes
<1>7. SummaryAddsUp
  BY <1>5 DEF Init, SummaryAddsUp, Zeros, NoSeries
<1> QED BY <1>1, <1>3, <1>4, <1>6, <1>7 DEF TInv

LEMMA RefreshKeepsTotals ==
    ASSUME BandwidthAssumption, TInv, RefreshDomains
    PROVE  TInv'
<1>1. IInv'
  BY RefreshKeepsIInv DEF TInv
<1>2. PICK num \in 0..MaxDoms : \E ids \in [1..num -> Ids] :
        /\ domains' = [k \in 1..num |-> NewDom(ids[k])]
        /\ sample_times_vms' = [k \in 1..num |-> 0]
  BY DEF RefreshDomains
<1>3. PICK ids \in [1..num -> Ids] :
        /\ domains' = [k \in 1..num |-> NewDom(ids[k])]
        /\ sample_times_vms' = [k \in 1..num |-> 0]
  BY <1>2
<1>4. num \in Nat /\ num <= MaxDoms /\ MaxDoms \in Nat /\ Rounds \in Nat \ {0}
  BY DEF BandwidthAssumption
<1>5. Len(domains') = num
  <2>1. \A k \in 1..num : NewDom(ids[k]) \in Dom
    BY <1>3, NewDomType
  <2>2. domains' \in Seq(Dom) /\ Len(domains') = num
    BY <1>3, <1>4, <2>1
  <2> QED BY <2>2
<1>6. Zeros \in [ArrayNodes -> Nat] /\ NoSeries \in Series
  BY DEF Zeros, NoSeries, Series
<1>7. /\ pc' = "sampled" /\ r' = 1 /\ i' = 1 /\ bandwidth' = Zeros
      /\ sample_times_host' = 0 /\ root' = NoSeries /\ node_num' = node_num
  BY DEF RefreshDomains
<1>8. \A k \in 1..num : domains'[k] = NewDom(ids[k]) /\ sample_times_vms'[k] = 0
  BY <1>3
<1>9. Bounded'
  BY <1>4, <1>5, <1>6, <1>7, <1>8 DEF Bounded
<1>10. Totals'
  <2>1. NoSeries.full = 0 /\ NoSeries.sum = Zeros
    BY DEF NoSeries
  <2>2. \A n \in ArrayNodes : Zeros[n] = 0
    BY DEF Zeros
  <2>3. \A k \in 1..num : domains'[k].ctl_bandwidth = Zeros
    <3>1. \A id : NewDom(id).ctl_bandwidth = Zeros
      BY DEF NewDom
    <3> QED BY <1>8, <3>1
  <2>4. ArrayNodes' = ArrayNodes
    BY DEF ArrayNodes
  <2> QED BY <1>5, <1>7, <2>1, <2>2, <2>3 DEF Totals
<1>11. HostCoversGuests' /\ SummaryAddsUp'
  BY <1>7 DEF HostCoversGuests, SummaryAddsUp, Shown
<1> QED BY <1>1, <1>9, <1>10, <1>11 DEF TInv

\* Without resctrl or NUMA nodes the frame shows zeros.
LEMMA SkippedKeepsTotals ==
    ASSUME BandwidthAssumption, TInv, NoResctrl \/ NumaFails
    PROVE  TInv'
<1>1. IInv'
  BY SkippedKeepsIInv DEF TInv
<1>2. /\ pc = "sampled" /\ pc' = "idle"
      /\ UNCHANGED <<domains, sample_times_vms, bandwidth, root,
                     sample_times_host, r, i>>
  BY DEF NoResctrl, NumaFails
<1>3. Bounded'
  BY <1>2 DEF Bounded, TInv
<1>4. Totals'
  BY <1>2 DEF Totals
<1>5. /\ domains \in Seq(Dom)
      /\ \A k \in 1..Len(domains) : ~ domains[k].bandwidth_updated_succ
      /\ bandwidth = Zeros /\ root = NoSeries
      /\ node_num' \in 0..MaxNodeNum
  BY <1>1, <1>2 DEF TInv, IInv, Typed, Summing, Totals
<1>6. \A n : VmsOnNode(domains, n) = 0
  BY <1>5, VmsOnNodeZero DEF NodeField
<1>7. \A n \in ArrayNodes : bandwidth[n] = 0
  BY <1>5 DEF Zeros
<1>8. HostCoversGuests'
  <2>1. Nodes' \subseteq ArrayNodes
    <3>1. \A m \in Nat : \A k \in 0..m : 0..(k - 1) \subseteq 0..(m - 1)
      OBVIOUS
    <3>2. MaxNodeNum \in Nat
      BY DEF BandwidthAssumption
    <3> QED BY <1>5, <3>1, <3>2 DEF Nodes, ArrayNodes
  <2>2. \A n : VmsOnNode(domains, n)' = VmsOnNode(domains, n)
    BY <1>2 DEF VmsOnNode, NodeField
  <2> QED BY <1>2, <1>6, <1>7, <2>1, <2>2 DEF HostCoversGuests
<1>9. SummaryAddsUp'
  <2>1. root.full = 0
    BY <1>5 DEF NoSeries
  <2>2. \A n : VmsOnNode(domains, n)' = VmsOnNode(domains, n)
    BY <1>2 DEF VmsOnNode, NodeField
  <2> QED BY <1>2, <1>6, <1>7, <2>1, <2>2 DEF SummaryAddsUp
<1> QED BY <1>1, <1>3, <1>4, <1>8, <1>9 DEF TInv

\* Before the first sample every sum is zero, for whichever nodes.
LEMMA GetNumaNumKeepsTotals ==
    ASSUME BandwidthAssumption, TInv, GetNumaNum
    PROVE  TInv'
<1>1. IInv'
  BY IdleStepKeepsIInv DEF TInv
<1>2. /\ pc = "sampled" /\ pc' = "vms"
      /\ UNCHANGED <<domains, sample_times_vms, bandwidth, root,
                     sample_times_host, r, i>>
  BY DEF GetNumaNum
<1>3. Bounded'
  BY <1>2 DEF Bounded, TInv
<1>4. \A k \in 1..Len(domains) : domains[k].ctl_bandwidth = Zeros
  <2>1. \A id : NewDom(id).ctl_bandwidth = Zeros
    BY DEF NewDom
  <2>2. \A k \in 1..Len(domains) : domains[k] = NewDom(domains[k].domain_id)
    BY <1>2 DEF TInv, IInv, Untouched
  <2> QED BY <2>1, <2>2
<1>5. Totals'
  BY <1>2, <1>4 DEF Totals, TInv, NoSeries, Zeros
<1>6. HostCoversGuests' /\ SummaryAddsUp'
  BY <1>2 DEF HostCoversGuests, SummaryAddsUp, Shown
<1> QED BY <1>1, <1>3, <1>5, <1>6 DEF TInv

\* A domain without a control group, and the end of the domains of a round.
LEMMA NoSampleKeepsTotals ==
    ASSUME BandwidthAssumption, TInv, NoGroup \/ EndVms
    PROVE  TInv'
<1>1. IInv'
  BY IdleStepKeepsIInv DEF TInv
<1>2. /\ pc = "vms" /\ pc' \in {"vms", "host"}
      /\ UNCHANGED <<domains, sample_times_vms, bandwidth, root, node_num,
                     sample_times_host, r>>
      /\ i' = i \/ (i <= Len(domains) /\ i' = i + 1)
  BY DEF NoGroup, NextVm, EndVms
<1>3. /\ Len(domains) \in Nat /\ i \in Nat \ {0} /\ r \in Nat
      /\ \A k \in 1..Len(domains) : sample_times_vms[k] \in Nat
      /\ MaxDoms \in Nat
  BY DEF TInv, IInv, Typed, Bounded, BandwidthAssumption
<1>4. Bounded'
  BY <1>2, <1>3 DEF Bounded, TInv
<1>5. Totals' /\ HostCoversGuests' /\ SummaryAddsUp'
  BY <1>2 DEF Totals, TInv, HostCoversGuests, SummaryAddsUp, Shown, Nodes
<1> QED BY <1>1, <1>4, <1>5 DEF TInv

LEMMA SampleVmKeepsTotals ==
    ASSUME BandwidthAssumption, TInv, SampleVm
    PROVE  TInv'
<1>1. IInv'
  BY SampleVmKeepsIInv DEF TInv
<1>2. /\ pc = "vms" /\ pc' = "vms" /\ i' = i + 1
      /\ UNCHANGED <<node_num, bandwidth, sample_times_host, r, root>>
      /\ i \in 1..Len(domains)
  BY DEF SampleVm, NextVm, TInv, IInv, Typed
<1>3. PICK group \in CtlGroups(domains[i].domain_id), read \in Reads :
        /\ domains' = [domains EXCEPT ![i] = Sampled(@, group, read)]
        /\ sample_times_vms' =
            [sample_times_vms EXCEPT ![i] = IF Full(read) THEN @ + 1 ELSE @]
  BY DEF SampleVm
<1>4. /\ domains \in Seq(Dom)
      /\ sample_times_vms \in [1..Len(domains) -> Nat]
      /\ r \in Nat \ {0} /\ r <= Rounds /\ Rounds \in Nat /\ MaxDoms \in Nat
      /\ Len(domains) <= MaxDoms
  BY <1>2 DEF TInv, IInv, Typed, Bounded, BandwidthAssumption
<1>5. Len(domains') = Len(domains)
  <2>1. DOMAIN domains' = DOMAIN domains
    BY <1>3
  <2>2. domains' \in Seq(Dom)
    BY <1>1 DEF IInv, Typed
  <2> QED BY <1>4, <2>1, <2>2
<1>6. Bounded'
  <2>1. \A k \in 1..Len(domains) :
            sample_times_vms[k] <= IF k < i THEN r ELSE r - 1
    BY <1>2 DEF TInv, Bounded
  <2>2. \A k \in 1..Len(domains) :
            sample_times_vms'[k] <= IF k < i + 1 THEN r ELSE r - 1
    <3> SUFFICES ASSUME NEW k \in 1..Len(domains)
                 PROVE  sample_times_vms'[k] <= IF k < i + 1 THEN r ELSE r - 1
      OBVIOUS
    <3>1. CASE k = i
      <4>1. sample_times_vms[i] <= r - 1
        BY <1>2, <2>1
      <4>2. sample_times_vms'[i] <= sample_times_vms[i] + 1
        BY <1>2, <1>3, <1>4
      <4>3. sample_times_vms[i] \in Nat /\ sample_times_vms'[i] \in Nat
        BY <1>1, <1>2, <1>4, <1>5 DEF IInv, Typed
      <4> QED BY <1>2, <1>4, <3>1, <4>1, <4>2, <4>3
    <3>2. CASE k # i
      <4>1. sample_times_vms'[k] = sample_times_vms[k]
        BY <1>3, <1>4, <3>2
      <4> QED BY <1>2, <1>4, <2>1, <3>2, <4>1
    <3> QED BY <3>1, <3>2
  <2>3. \A k \in 1..Len(domains) : sample_times_vms'[k] <= Rounds
    <3>1. \A k \in 1..Len(domains) : sample_times_vms'[k] \in Nat
      BY <1>1, <1>5 DEF IInv, Typed
    <3> QED BY <1>2, <1>4, <2>2, <3>1
  <2> QED BY <1>2, <1>4, <1>5, <2>2, <2>3 DEF Bounded, TInv
<1>7. Totals'
  <2>1. \A n \in ArrayNodes \ Nodes : \A k \in 1..Len(domains) :
            domains'[k].ctl_bandwidth[n] = domains[k].ctl_bandwidth[n]
    <3> SUFFICES ASSUME NEW n \in ArrayNodes \ Nodes,
                        NEW k \in 1..Len(domains)
                 PROVE  domains'[k].ctl_bandwidth[n] =
                            domains[k].ctl_bandwidth[n]
      OBVIOUS
    <3>1. CASE k = i
      <4>1. domains'[i] = Sampled(domains[i], group, read) /\ domains[i] \in Dom
        BY <1>2, <1>3, <1>4
      <4>2. domains'[i].ctl_bandwidth = Added(domains[i].ctl_bandwidth, read)
        BY <4>1 DEF Sampled, Dom
      <4> QED BY <3>1, <4>2, AddedOutside
    <3>2. CASE k # i
      BY <1>3, <1>4, <3>2
    <3> QED BY <3>1, <3>2
  <2> QED BY <1>2, <1>5, <2>1 DEF Totals, TInv, Nodes
<1>8. HostCoversGuests' /\ SummaryAddsUp'
  BY <1>2 DEF HostCoversGuests, SummaryAddsUp, Shown
<1> QED BY <1>1, <1>6, <1>7, <1>8 DEF TInv

LEMMA SampleHostKeepsTotals ==
    ASSUME BandwidthAssumption, TInv, SampleHost
    PROVE  TInv'
<1>1. IInv'
  BY IdleStepKeepsIInv DEF TInv
<1>2. /\ pc = "host" /\ r' = r + 1 /\ i' = 1
      /\ pc' = IF r = Rounds THEN "average" ELSE "vms"
      /\ UNCHANGED <<domains, node_num, sample_times_vms>>
  BY DEF SampleHost
<1>3. PICK read \in Reads :
        /\ bandwidth' = Added(bandwidth, read)
        /\ root' = Recorded(root, read)
        /\ sample_times_host' =
            IF Full(read) THEN sample_times_host + 1 ELSE sample_times_host
  BY DEF SampleHost
<1>4. /\ node_num \in 0..MaxNodeNum
      /\ bandwidth \in [ArrayNodes -> Nat] /\ root \in Series
      /\ r \in Nat \ {0} /\ r <= Rounds
      /\ sample_times_host \in Nat /\ sample_times_host < r
      /\ Rounds \in Nat \ {0} /\ MaxDoms \in Nat
      /\ \A k \in 1..Len(domains) :
            sample_times_vms[k] \in Nat /\ sample_times_vms[k] <= Rounds
  <2>1. Typed /\ Bounded
    BY DEF TInv, IInv
  <2>2. \A k \in 1..Len(domains) :
            sample_times_vms[k] \in Nat /\ sample_times_vms[k] <= Rounds
    BY <2>1 DEF Typed, Bounded
  <2> QED BY <1>2, <2>1, <2>2 DEF Typed, Bounded, BandwidthAssumption
<1>5. bandwidth' \in [ArrayNodes -> Nat] /\ root' \in Series
  BY <1>3, <1>4, AddedType, RecordedType
<1>6. Bounded'
  <2>1. \A k \in 1..Len(domains) : sample_times_vms[k] <= r
    BY <1>2, <1>4 DEF TInv, Bounded
  <2>2. sample_times_host' \in 0..Rounds /\ sample_times_host' < r'
    BY <1>2, <1>3, <1>4
  <2>3. r' \in 1..(Rounds + 1) /\ i' <= MaxDoms + 1 /\ (pc' = "vms" => r' <= Rounds)
    BY <1>2, <1>4
  <2>4. r' - 1 = r /\ pc' \in {"average", "vms"}
    BY <1>2, <1>4
  <2>5. Len(domains) <= MaxDoms
    BY DEF TInv, Bounded
  <2>6. \A k \in 1..Len(domains) :
            sample_times_vms[k] <= IF k < i' THEN r' ELSE r' - 1
    BY <1>2, <2>1, <2>4
  <2> QED BY <1>2, <1>4, <1>5, <2>2, <2>3, <2>4, <2>5, <2>6 DEF Bounded
<1>7. Totals'
  <2>1. /\ sample_times_host = root.full
        /\ ~ root.partial => bandwidth = root.sum
        /\ root.full = 0 => root.sum = Zeros
        /\ \A n \in ArrayNodes \ Nodes :
            /\ bandwidth[n] = 0 /\ root.sum[n] = 0
            /\ \A k \in 1..Len(domains) : domains[k].ctl_bandwidth[n] = 0
    BY <1>2 DEF TInv, Totals
  <2>2. sample_times_host' = root'.full
    BY <1>3, <1>4, <2>1, RecordedCount
  <2>3. ~ root'.partial => bandwidth' = root'.sum
    BY <1>3, <1>4, <2>1, AddedIsRecorded
  <2>4. /\ root'.full = 0 => root'.sum = Zeros
        /\ \A n \in ArrayNodes \ Nodes : root'.sum[n] = root.sum[n]
    BY <1>3, <1>4, <2>1, RecordedTotals
  <2>5. \A n \in ArrayNodes \ Nodes : bandwidth'[n] = bandwidth[n]
    BY <1>3, AddedOutside
  <2>6. pc' # "sampled"
    BY <1>2
  <2> QED BY <1>2, <2>1, <2>2, <2>3, <2>4, <2>5, <2>6 DEF Totals, Nodes
<1>8. HostCoversGuests' /\ SummaryAddsUp'
  BY <1>2 DEF HostCoversGuests, SummaryAddsUp, Shown
<1> QED BY <1>1, <1>6, <1>7, <1>8 DEF TInv

\* The division and the totals.
LEMMA CalculateKeepsTotals ==
    ASSUME BandwidthAssumption, TInv, CalculateAllBandwidth
    PROVE  TInv'
<1>1. IInv'
  BY CalculateKeepsIInv DEF TInv
<1>2. /\ pc = "average" /\ pc' = "idle"
      /\ domains' = [k \in 1..Len(domains) |-> Averaged(k)]
      /\ bandwidth' = [n \in ArrayNodes |->
            IF n \in Nodes
            THEN HostTotal(RootAverage(n), VmsOnNode(domains', n))
            ELSE bandwidth[n]]
      /\ UNCHANGED <<node_num, sample_times_vms, sample_times_host, r, i, root>>
  BY DEF CalculateAllBandwidth
<1>3. /\ domains \in Seq(Dom) /\ domains' \in Seq(Dom)
      /\ sample_times_vms \in [1..Len(domains) -> Nat]
      /\ node_num \in 0..MaxNodeNum
      /\ sample_times_vms \in [1..Len(domains') -> Nat]
  BY <1>1, <1>2 DEF TInv, IInv, Typed
<1>4. /\ bandwidth \in [ArrayNodes -> Nat]
      /\ root \in Series /\ sample_times_host \in Nat
  BY DEF TInv, Bounded, BandwidthAssumption
<1>5. Len(domains') = Len(domains)
  BY <1>2, <1>3
<1>6. /\ sample_times_host = root.full
      /\ ~ root.partial => bandwidth = root.sum
      /\ root.full = 0 => root.sum = Zeros
      /\ \A n \in ArrayNodes \ Nodes :
            /\ bandwidth[n] = 0 /\ root.sum[n] = 0
            /\ \A k \in 1..Len(domains) : domains[k].ctl_bandwidth[n] = 0
  BY <1>2 DEF TInv, Totals
<1>7. Nodes \subseteq ArrayNodes
  <2>1. MaxNodeNum \in Nat
    BY DEF BandwidthAssumption
  <2> QED BY <1>3, <2>1 DEF Nodes, ArrayNodes
<1>8. \A n \in ArrayNodes : VmsOnNode(domains', n) \in Nat
  BY <1>3, VmsOnNodeType
<1>9. \A n \in ArrayNodes : RootAverage(n) \in Nat
  <2>1. \A a \in Nat, b \in Nat : b > 0 => a \div b \in Nat
    OBVIOUS
  <2>2. \A n \in ArrayNodes : bandwidth[n] \in Nat
    BY <1>4
  <2> QED BY <1>4, <2>1, <2>2 DEF RootAverage
<1>10. \A n \in Nodes :
            bandwidth'[n] = RootAverage(n) + VmsOnNode(domains', n)
  BY <1>2, <1>7, <1>8, <1>9, HostTotalIsSum
<1>11. \A n \in ArrayNodes \ Nodes :
            bandwidth'[n] = 0 /\ VmsOnNode(domains', n) = 0
  <2> SUFFICES ASSUME NEW n \in ArrayNodes \ Nodes
               PROVE  bandwidth'[n] = 0 /\ VmsOnNode(domains', n) = 0
    OBVIOUS
  <2>1. bandwidth'[n] = 0
    BY <1>2, <1>6
  <2>2. ASSUME NEW k \in 1..Len(domains')
        PROVE  NodeField(domains'[k], n) = 0
    <3>1. domains'[k] = Averaged(k) /\ domains[k].ctl_bandwidth[n] = 0
      BY <1>2, <1>5, <1>6
    <3>2. domains[k] \in Dom
      BY <1>3, <1>5
    <3>3. Averaged(k).ctl_bandwidth[n] = domains[k].ctl_bandwidth[n]
      BY <3>2 DEF Averaged, Dom
    <3> QED BY <3>1, <3>3 DEF NodeField
  <2>3. VmsOnNode(domains', n) = 0
    BY <1>3, <2>2, VmsOnNodeZero
  <2> QED BY <2>1, <2>3
<1>12. Bounded'
  <2>1. \A n \in ArrayNodes : bandwidth'[n] \in Nat
    BY <1>8, <1>9, <1>10, <1>11
  <2>2. bandwidth' \in [ArrayNodes -> Nat]
    BY <1>2, <2>1
  <2> QED BY <1>2, <1>5, <2>2 DEF Bounded, TInv
<1>13. Totals'
  BY <1>2 DEF Totals
<1>14. HostCoversGuests'
  <2>1. \A n \in Nodes : bandwidth'[n] >= VmsOnNode(domains', n)
    BY <1>7, <1>8, <1>9, <1>10
  <2>2. \A n : VmsOnNode(domains, n)' = VmsOnNode(domains', n)
    BY DEF VmsOnNode, NodeField
  <2> QED BY <1>2, <2>1, <2>2 DEF HostCoversGuests, Nodes
<1>15. SummaryAddsUp'
  <2> SUFFICES ASSUME ~ root.partial, NEW n \in ArrayNodes
               PROVE  bandwidth'[n] = VmsOnNode(domains', n) +
                        IF root.full = 0 THEN 0
                        ELSE root.sum[n] \div root.full
    <3>1. \A n : VmsOnNode(domains, n)' = VmsOnNode(domains', n)
      BY DEF VmsOnNode, NodeField
    <3> QED BY <1>2, <3>1 DEF SummaryAddsUp, ArrayNodes
  <2>1. root.full \in Nat
    BY <1>4 DEF Series
  <2>2. \A b \in Nat : b > 0 => 0 \div b = 0
    OBVIOUS
  <2>3. Zeros[n] = 0
    BY DEF Zeros
  <2>4. CASE n \in Nodes
    <3>1. RootAverage(n) = IF root.full = 0 THEN 0
                           ELSE root.sum[n] \div root.full
      BY <1>6, <2>1, <2>3 DEF RootAverage
    <3>2. RootAverage(n) \in Nat /\ VmsOnNode(domains', n) \in Nat
      BY <1>8, <1>9
    <3>3. bandwidth'[n] = VmsOnNode(domains', n) + RootAverage(n)
      BY <1>10, <2>4, <3>2
    <3> QED BY <3>1, <3>3
  <2>5. CASE n \notin Nodes
    BY <1>6, <1>11, <2>1, <2>2, <2>5
  <2> QED BY <2>4, <2>5
<1> QED BY <1>1, <1>12, <1>13, <1>14, <1>15 DEF TInv

LEMMA NextTInv == BandwidthAssumption /\ TInv /\ [Next]_vars => TInv'
<1> SUFFICES ASSUME BandwidthAssumption, TInv, [Next]_vars PROVE TInv'
  OBVIOUS
<1>1. CASE RefreshDomains
  BY <1>1, RefreshKeepsTotals
<1>2. CASE NoResctrl \/ NumaFails
  BY <1>2, SkippedKeepsTotals
<1>3. CASE GetNumaNum
  BY <1>3, GetNumaNumKeepsTotals
<1>4. CASE NoGroup \/ EndVms
  BY <1>4, NoSampleKeepsTotals
<1>5. CASE SampleVm
  BY <1>5, SampleVmKeepsTotals
<1>6. CASE SampleHost
  BY <1>6, SampleHostKeepsTotals
<1>7. CASE CalculateAllBandwidth
  BY <1>7, CalculateKeepsTotals
<1>8. CASE UNCHANGED vars
  <2>1. IInv'
    BY NextIInv DEF TInv
  <2>2. Bounded' /\ Totals'
    BY <1>8 DEF vars, TInv, Bounded, Totals, Nodes
  <2>3. HostCoversGuests' /\ SummaryAddsUp'
    BY <1>8 DEF vars, TInv, HostCoversGuests, SummaryAddsUp, Shown, Nodes,
                VmsOnNode, NodeField
  <2> QED BY <2>1, <2>2, <2>3 DEF TInv
<1> QED BY <1>1, <1>2, <1>3, <1>4, <1>5, <1>6, <1>7, <1>8 DEF Next

LEMMA TotalsInductive == Spec => []TInv
<1>1. Init => TInv
  BY InitTInv, BandwidthAssumption
<1>2. TInv /\ [Next]_vars => TInv'
  BY NextTInv, BandwidthAssumption
<1> QED BY <1>1, <1>2, PTL DEF Spec

\* Every variable keeps its type; in particular a domain and the root are
\* sampled at most once in a round, so that no count passes
\* SAMPLE_TIMES_OUTER (refresh_domains_bandwidth).
THEOREM TypeCorrect == Spec => []TypeOK
<1>1. TInv => TypeOK
  <2> SUFFICES ASSUME TInv PROVE TypeOK
    OBVIOUS
  <2>1. Typed /\ Bounded
    BY DEF TInv, IInv
  <2>2. i \in 1..(MaxDoms + 1)
    BY <2>1, BandwidthAssumption DEF Typed, Bounded, BandwidthAssumption
  <2>3. sample_times_vms \in [1..Len(domains) -> 0..Rounds]
    <3>1. \A k \in 1..Len(domains) : sample_times_vms[k] \in 0..Rounds
      BY <2>1, BandwidthAssumption DEF Typed, Bounded, BandwidthAssumption
    <3> QED BY <2>1, <3>1 DEF Typed
  <2> QED BY <2>1, <2>2, <2>3 DEF Typed, Bounded, TypeOK
<1> QED BY <1>1, TotalsInductive, PTL

\* Whichever samples fail, and however large the bandwidths are: the summary
\* line of a node is not below the sum of the rows of its column
\* (calculate_all_bandwidth).
THEOREM HostCovers == Spec => []HostCoversGuests
<1>1. TInv => HostCoversGuests
  BY DEF TInv
<1> QED BY <1>1, TotalsInductive, PTL

\* The summary line of a node is the root's average plus every row once, for
\* any samples none of which stopped half way at the root
\* (calculate_all_bandwidth).
THEOREM TotalsAddUp == Spec => []SummaryAddsUp
<1>1. TInv => SummaryAddsUp
  BY DEF TInv
<1> QED BY <1>1, TotalsInductive, PTL
=============================================================================
