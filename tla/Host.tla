-------------------------------- MODULE Host --------------------------------
(***************************************************************************)
(* The host that vmtop observes.  Nothing of it is vmtop's code: it is     *)
(* what the code reads through /var/run/libvirt/qemu, /proc and debugfs,   *)
(* and it moves between any two reads.                                     *)
(*                                                                         *)
(* A guest is named by its pid file.  A running guest is one qemu process: *)
(* a leader thread (its tid is the pid) and further threads, of which the  *)
(* vCPU threads are the ones whose comm contains "CPU".  Thread ids are    *)
(* reused; libvirt ids are not.  An exited guest may leave its pid file    *)
(* behind until libvirt removes it.                                        *)
(*                                                                         *)
(* Guest execution is abstracted to units of work: one unit is one clock   *)
(* tick of utime and one KVM exit of the thread that does it.              *)
(***************************************************************************)
EXTENDS Integers, FiniteSets

CONSTANTS
    Guests,     \* the names of the pid files: guest domains
    Tids,       \* the thread ids the kernel hands out
    NoGuest,    \* no guest
    NoTid,      \* the pid field of a zeroed struct domain: 0
    MaxMoves    \* bound: moves of the host in one behaviour

ASSUME HostAssumption ==
    /\ IsFiniteSet(Tids)
    /\ NoTid \notin Tids
    /\ NoGuest \notin Guests
    /\ MaxMoves \in Nat

VARIABLES
    moves,      \* moves of the host so far, at most MaxMoves
    starts,     \* thread starts so far: the clock that orders incarnations
    owner,      \* owner[t]: the guest whose process thread t belongs to
    life,       \* life[t]: which incarnation of the tid is alive, 0 for none
    work,       \* work[t]: the counters of thread t
    vcpu,       \* vcpu[t]: thread t is a vCPU thread
    leader,     \* leader[g]: the pid of g's process
    gid,        \* gid[g]: the libvirt id of the running g, 0 when it is off
    total,      \* total[g]: counter of g's process, exited threads included
    pidfile     \* pidfile[g]: the pid that g's pid file holds

hostVars ==
    <<moves, starts, owner, life, work, vcpu, leader, gid, total, pidfile>>

HostTypeOK ==
    /\ moves \in 0..MaxMoves
    /\ starts \in 0..moves
    /\ owner \in [Tids -> Guests \cup {NoGuest}]
    /\ life \in [Tids -> 0..MaxMoves]
    /\ work \in [Tids -> Nat]
    /\ vcpu \in [Tids -> BOOLEAN]
    /\ leader \in [Guests -> Tids \cup {NoTid}]
    /\ gid \in [Guests -> 0..MaxMoves]
    /\ total \in [Guests -> Nat]
    /\ pidfile \in [Guests -> Tids \cup {NoTid}]

HostInit ==
    /\ moves = 0
    /\ starts = 0
    /\ owner = [t \in Tids |-> NoGuest]
    /\ life = [t \in Tids |-> 0]
    /\ work = [t \in Tids |-> 0]
    /\ vcpu = [t \in Tids |-> FALSE]
    /\ leader = [g \in Guests |-> NoTid]
    /\ gid = [g \in Guests |-> 0]
    /\ total = [g \in Guests |-> 0]
    /\ pidfile = [g \in Guests |-> NoTid]
-----------------------------------------------------------------------------
(***************************************************************************)
(* What the kernel answers to a reader.                                    *)
(***************************************************************************)

\* /proc/<t> exists.
Alive(t) == t \in Tids /\ owner[t] # NoGuest

\* The threads of g's process, the leader included.
Threads(g) == {t \in Tids : owner[t] = g}

\* The lines of /sys/kernel/debug/kvm/vcpu_stat, in the order of creation.
VcpuThreads == {t \in Tids : owner[t] # NoGuest /\ vcpu[t]}

\* The n oldest threads of S.
Oldest(n, S) == {t \in S : Cardinality({u \in S : life[u] < life[t]}) < n}

\* The entries of a task directory, in the order readdir returns them: the
\* kernel walks the thread group in the order of creation.
Listings(S) ==
    {s \in [1..Cardinality(S) -> S] :
        \A i, j \in 1..Cardinality(S) : i < j => life[s[i]] < life[s[j]]}
-----------------------------------------------------------------------------
\* A new thread of g takes a free tid.
Born(g, t, isVcpu) ==
    /\ owner[t] = NoGuest
    /\ starts' = starts + 1
    /\ owner' = [owner EXCEPT ![t] = g]
    /\ life' = [life EXCEPT ![t] = starts + 1]
    /\ vcpu' = [vcpu EXCEPT ![t] = isVcpu]

\* libvirt starts g under an id that it never used before and writes its pid
\* file, over the one of an earlier run if that is still there.
StartGuest(g, t) ==
    /\ leader[g] = NoTid
    /\ Born(g, t, FALSE)
    /\ leader' = [leader EXCEPT ![g] = t]
    /\ gid' = [gid EXCEPT ![g] = starts + 1]
    /\ total' = [total EXCEPT ![g] = 0]
    /\ pidfile' = [pidfile EXCEPT ![g] = t]
    /\ UNCHANGED work

\* qemu creates a worker, or a vCPU is plugged.
StartThread(g, t, isVcpu) ==
    /\ leader[g] # NoTid
    /\ Born(g, t, isVcpu)
    /\ UNCHANGED <<work, leader, gid, total, pidfile>>

\* The threads of S are gone, and their counters with them.
Die(S) ==
    /\ owner' = [t \in Tids |-> IF t \in S THEN NoGuest ELSE owner[t]]
    /\ life' = [t \in Tids |-> IF t \in S THEN 0 ELSE life[t]]
    /\ work' = [t \in Tids |-> IF t \in S THEN 0 ELSE work[t]]
    /\ vcpu' = [t \in Tids |-> IF t \in S THEN FALSE ELSE vcpu[t]]

\* A worker ends, or a vCPU is unplugged.
ExitThread(t) ==
    /\ owner[t] # NoGuest
    /\ leader[owner[t]] # t
    /\ Die({t})
    /\ UNCHANGED <<starts, leader, gid, total, pidfile>>

\* g's process ends.  Its pid file stays for now.
ExitGuest(g) ==
    /\ leader[g] # NoTid
    /\ Die(Threads(g))
    /\ leader' = [leader EXCEPT ![g] = NoTid]
    /\ gid' = [gid EXCEPT ![g] = 0]
    /\ total' = [total EXCEPT ![g] = 0]
    /\ UNCHANGED <<starts, pidfile>>

\* libvirt removes the pid file of a guest that is off.
RemovePidFile(g) ==
    /\ leader[g] = NoTid
    /\ pidfile[g] # NoTid
    /\ pidfile' = [pidfile EXCEPT ![g] = NoTid]
    /\ UNCHANGED <<starts, owner, life, work, vcpu, leader, gid, total>>

\* Thread t does one unit of work.
Work(t) ==
    /\ owner[t] # NoGuest
    /\ work' = [work EXCEPT ![t] = @ + 1]
    /\ total' = [total EXCEPT ![owner[t]] = @ + 1]
    /\ UNCHANGED <<starts, owner, life, vcpu, leader, gid, pidfile>>

HostMove ==
    \/ \E g \in Guests, t \in Tids :
        \/ StartGuest(g, t)
        \/ \E isVcpu \in BOOLEAN : StartThread(g, t, isVcpu)
    \/ \E g \in Guests : ExitGuest(g) \/ RemovePidFile(g)
    \/ \E t \in Tids : ExitThread(t) \/ Work(t)

HostNext ==
    /\ moves < MaxMoves
    /\ moves' = moves + 1
    /\ HostMove
=============================================================================
