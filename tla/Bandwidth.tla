------------------------------ MODULE Bandwidth ------------------------------
(***************************************************************************)
(* Memory bandwidth per NUMA node: refresh_domains_bandwidth and           *)
(* calculate_all_bandwidth (domain.c) with resctrl.c.                      *)
(*                                                                         *)
(* One refresh takes Rounds rounds; a round samples the control group of   *)
(* every domain and then the root's.  A sample is one get_mon_MB: a        *)
(* reading of every node, any of which may be missing.  (It reads twice    *)
(* and throws the first reading away: its inner average is one reading.)   *)
(* Control groups come and go and readings are arbitrary, so that an       *)
(* action picks what it reads and nothing of resctrl is remembered.        *)
(***************************************************************************)
EXTENDS Integers, Sequences, Functions

CONSTANTS
    Ids,        \* libvirt ids
    Prefixes,   \* pairs of ids: the digits of the first begin the second
    MaxNodeNum, \* MAX_NODE_NUM
    Rounds,     \* SAMPLE_TIMES_OUTER
    Readings,   \* what a node's file may hold
    UintSize,   \* 2^32: one more than the largest unsigned int
    MaxDoms     \* bound: domains in a sample; below MAX_VM_TASKS_NUM

NoReading == -1

ASSUME BandwidthAssumption ==
    /\ Prefixes \subseteq Ids \X Ids
    /\ \A id \in Ids : <<id, id>> \in Prefixes
    /\ MaxNodeNum \in Nat \ {0}
    /\ Rounds \in Nat \ {0}
    /\ Readings \subseteq Nat
    /\ UintSize \in Nat \ {0}
    /\ MaxDoms \in Nat

VARIABLES
    pc,                 \* where the refresh is; "idle": the frame is shown
    domains,            \* scr_cur.domains
    node_num,           \* scr_cur.node_num, kept from refresh to refresh
    bandwidth,          \* scr_cur.bandwidth
    sample_times_vms,   \* successful samples of each domain
    sample_times_host,  \* successful samples of the root
    r,                  \* the round, from 1
    i,                  \* the domain whose sample is next, from 1
    root                \* history: the samples of the root

vars == <<pc, domains, node_num, bandwidth, sample_times_vms,
          sample_times_host, r, i, root>>

ArrayNodes == 0..(MaxNodeNum - 1)
Nodes == 0..(node_num - 1)
Zeros == [n \in ArrayNodes |-> 0]

(***************************************************************************)
(* History of a series of samples: the number and the sums of the ones     *)
(* that had a reading of every node, and whether one stopped short after   *)
(* some nodes.                                                             *)
(***************************************************************************)
Series == [full : Nat, sum : [ArrayNodes -> Nat], partial : BOOLEAN]
NoSeries == [full |-> 0, sum |-> Zeros, partial |-> FALSE]

(***************************************************************************)
(* struct domain, its part about bandwidth.  series and from, the groups   *)
(* whose samples were counted for it, are history.                         *)
(***************************************************************************)
Dom == [domain_id : Ids, ctl_bandwidth : [ArrayNodes -> Nat],
        bandwidth_updated_succ : BOOLEAN, series : Series, from : SUBSET Ids]

NewDom(id) ==
    [domain_id |-> id, ctl_bandwidth |-> Zeros,
     bandwidth_updated_succ |-> FALSE, series |-> NoSeries, from |-> {}]

TypeOK ==
    /\ pc \in {"idle", "sampled", "vms", "host", "average"}
    /\ domains \in Seq(Dom) /\ Len(domains) <= MaxDoms
    /\ node_num \in 0..MaxNodeNum
    /\ bandwidth \in [ArrayNodes -> Nat]
    /\ sample_times_vms \in [1..Len(domains) -> 0..Rounds]
    /\ sample_times_host \in 0..Rounds
    /\ r \in 1..(Rounds + 1)
    /\ i \in 1..(MaxDoms + 1)
    /\ root \in Series

Init ==
    /\ pc = "idle"
    /\ domains = <<>> /\ sample_times_vms = <<>>
    /\ node_num = 0
    /\ bandwidth = Zeros
    /\ sample_times_host = 0
    /\ r = 1 /\ i = 1
    /\ root = NoSeries
-----------------------------------------------------------------------------
(***************************************************************************)
(* get_mon_MB                                                              *)
(***************************************************************************)
\* A file that cannot be opened fails the call before anything is added, as
\* a missing reading of node 0 does.
Reads == [Nodes -> Readings \cup {NoReading}]

Full(read) == \A n \in Nodes : read[n] # NoReading

\* bw, the caller's sums, with the nodes before the first without a reading.
Added(bw, read) ==
    [n \in ArrayNodes |->
        IF n \in Nodes /\ \A m \in 0..n : read[m] # NoReading
        THEN bw[n] + read[n] ELSE bw[n]]

Recorded(series, read) ==
    IF Full(read)
    THEN [series EXCEPT !.full = @ + 1,
                        !.sum = [n \in ArrayNodes |->
                            IF n \in Nodes THEN @[n] + read[n] ELSE @[n]]]
    ELSE [series EXCEPT !.partial = @ \/ read[0] # NoReading]
-----------------------------------------------------------------------------
\* refresh_domains: new, zeroed domains, and bandwidth zeroed with them.
RefreshDomains ==
    /\ pc = "idle"
    /\ \E num \in 0..MaxDoms : \E ids \in [1..num -> Ids] :
        /\ domains' = [k \in 1..num |-> NewDom(ids[k])]
        /\ sample_times_vms' = [k \in 1..num |-> 0]
    /\ bandwidth' = Zeros
    /\ sample_times_host' = 0
    /\ r' = 1 /\ i' = 1
    /\ root' = NoSeries
    /\ pc' = "sampled"
    /\ UNCHANGED node_num

\* No option -G, or no resctrl.
NoResctrl ==
    /\ pc = "sampled"
    /\ pc' = "idle"
    /\ UNCHANGED <<domains, node_num, bandwidth, sample_times_vms,
                   sample_times_host, r, i, root>>

\* get_numa_num fails: node_num is kept if the directory cannot be opened,
\* and 0 if it has no node.
NumaFails ==
    /\ pc = "sampled"
    /\ node_num' \in {node_num, 0}
    /\ pc' = "idle"
    /\ UNCHANGED <<domains, bandwidth, sample_times_vms, sample_times_host,
                   r, i, root>>

GetNumaNum ==
    /\ pc = "sampled"
    /\ node_num' \in 1..MaxNodeNum
    /\ pc' = "vms"
    /\ UNCHANGED <<domains, bandwidth, sample_times_vms, sample_times_host,
                   r, i, root>>

\* get_vm_ctl_path: the first group whose name begins with qemu-<id>, in the
\* order of the file system.
CtlGroups(id) == {group \in Ids : <<id, group>> \in Prefixes}

NextVm ==
    /\ pc = "vms"
    /\ i <= Len(domains)
    /\ i' = i + 1
    /\ UNCHANGED <<pc, node_num, bandwidth, sample_times_host, r, root>>

NoGroup == NextVm /\ UNCHANGED <<domains, sample_times_vms>>

\* domain d after a get_mon_MB on its behalf.
Sampled(d, group, read) ==
    [d EXCEPT !.ctl_bandwidth = Added(@, read),
              !.series = Recorded(@, read),
              !.from = IF Full(read) THEN @ \cup {group} ELSE @]

\* Mutant: the sample counts although it failed.
SampleVm_CountsAll ==
    /\ NextVm
    /\ \E group \in CtlGroups(domains[i].domain_id) : \E read \in Reads :
        /\ domains' = [domains EXCEPT ![i] = Sampled(@, group, read)]
        /\ sample_times_vms' = [sample_times_vms EXCEPT ![i] = @ + 1]

SampleVm ==
    /\ NextVm
    /\ \E group \in CtlGroups(domains[i].domain_id) : \E read \in Reads :
        /\ domains' = [domains EXCEPT ![i] = Sampled(@, group, read)]
        /\ sample_times_vms' =
            [sample_times_vms EXCEPT ![i] = IF Full(read) THEN @ + 1 ELSE @]

EndVms ==
    /\ pc = "vms"
    /\ i > Len(domains)
    /\ pc' = "host"
    /\ UNCHANGED <<domains, node_num, bandwidth, sample_times_vms,
                   sample_times_host, r, i, root>>

\* Mutant: one round too many.
SampleHost_ExtraRound ==
    /\ pc = "host"
    /\ \E read \in Reads :
        /\ bandwidth' = Added(bandwidth, read)
        /\ root' = Recorded(root, read)
        /\ sample_times_host' =
            IF Full(read) THEN sample_times_host + 1 ELSE sample_times_host
    /\ r' = r + 1
    /\ i' = 1
    /\ pc' = IF r > Rounds THEN "average" ELSE "vms"
    /\ UNCHANGED <<domains, node_num, sample_times_vms>>

\* get_root_mon_bandwidth, and the end of the round.
SampleHost ==
    /\ pc = "host"
    /\ \E read \in Reads :
        /\ bandwidth' = Added(bandwidth, read)
        /\ root' = Recorded(root, read)
        /\ sample_times_host' =
            IF Full(read) THEN sample_times_host + 1 ELSE sample_times_host
    /\ r' = r + 1
    /\ i' = 1
    /\ pc' = IF r = Rounds THEN "average" ELSE "vms"
    /\ UNCHANGED <<domains, node_num, sample_times_vms>>

(***************************************************************************)
(* calculate_all_bandwidth                                                 *)
(***************************************************************************)
Averaged(k) ==
    IF sample_times_vms[k] = 0 THEN domains[k]
    ELSE [domains[k] EXCEPT
            !.bandwidth_updated_succ = TRUE,
            !.ctl_bandwidth = [n \in ArrayNodes |->
                IF n \in Nodes THEN @[n] \div sample_times_vms[k] ELSE @[n]]]

\* Column n of domain d (print_domain_field).
NodeField(d, n) ==
    IF d.bandwidth_updated_succ THEN d.ctl_bandwidth[n] ELSE 0

VmsOnNode(doms, n) ==
    SumFunction([k \in 1..Len(doms) |-> NodeField(doms[k], n)])

\* Mutant: the domains are not added, and the repair alone is relied upon.
HostTotal_Repaired(own, vms) ==
    IF own < vms % UintSize THEN vms % UintSize ELSE own

\* The loop over the domains adds them to the host's bandwidth; the repair
\* compares with their sum as an unsigned int.
HostTotal(own, vms) ==
    IF own + vms < vms % UintSize THEN vms % UintSize ELSE own + vms

\* Mutant: the sums of the root are not divided.
RootAverage_Sum(n) == bandwidth[n]

RootAverage(n) ==
    IF sample_times_host > 0 THEN bandwidth[n] \div sample_times_host
    ELSE bandwidth[n]

CalculateAllBandwidth ==
    /\ pc = "average"
    /\ domains' = [k \in 1..Len(domains) |-> Averaged(k)]
    /\ bandwidth' = [n \in ArrayNodes |->
            IF n \in Nodes
            THEN HostTotal(RootAverage(n), VmsOnNode(domains', n))
            ELSE bandwidth[n]]
    /\ pc' = "idle"
    /\ UNCHANGED <<node_num, sample_times_vms, sample_times_host, r, i, root>>
-----------------------------------------------------------------------------
Next ==
    \/ RefreshDomains \/ NoResctrl
    \/ NumaFails \/ GetNumaNum
    \/ NoGroup \/ SampleVm \/ EndVms
    \/ SampleHost \/ CalculateAllBandwidth

Spec == Init /\ [][Next]_vars
-----------------------------------------------------------------------------
Shown == pc = "idle"

\* A domain's bandwidth is the average of its complete samples.
IsAverage(d) ==
    \A n \in Nodes :
        NodeField(d, n) =
            IF d.series.full = 0 THEN 0
            ELSE d.series.sum[n] \div d.series.full

\* A domain shows, on every node, the average of its samples, and nothing if
\* all of them failed, provided that no sample stopped half way through the
\* nodes (refresh_domains_bandwidth, get_mon_MB).
AverageExact ==
    Shown =>
        \A k \in 1..Len(domains) :
            ~ domains[k].series.partial => IsAverage(domains[k])

\* refresh_domains_bandwidth is to "calculate the average value"
\* (domain.c:377), without a proviso.
AverageAlways ==
    Shown => \A k \in 1..Len(domains) : IsAverage(domains[k])

\* The summary line of a node is not below what the rows of its column add up
\* to, whichever samples failed, and wherever their sum leaves the range of an
\* unsigned int (calculate_all_bandwidth).
HostCoversGuests ==
    Shown => \A n \in Nodes : bandwidth[n] >= VmsOnNode(domains, n)

\* The summary line of a node is the root's average and what the rows show,
\* each row once, provided that no sample of the root stopped half way
\* (calculate_all_bandwidth): the bandwidth of a domain that could not be
\* sampled is in neither, and nothing is kept from the refresh before.
SummaryAddsUp ==
    Shown /\ ~ root.partial =>
        \A n \in ArrayNodes :
            bandwidth[n] =
                VmsOnNode(domains, n) +
                IF root.full = 0 THEN 0 ELSE root.sum[n] \div root.full

\* The bandwidth of a domain is that of "qemu-${domain_id}-${vmname}-xxx"
\* (resctrl.c:183-186), its own control group.
OwnGroup ==
    \A k \in 1..Len(domains) : domains[k].from \subseteq {domains[k].domain_id}
=============================================================================
