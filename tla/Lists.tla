-------------------------------- MODULE Lists --------------------------------
(***************************************************************************)
(* Who owns which block of memory and which directory stream in the domain *)
(* lists (domain.c): scr_cur and scr_pre hand their arrays on from refresh *)
(* to refresh, a list grows into a new block for every domain, a domain    *)
(* that fails is popped.  Every malloc and every read may fail.            *)
(*                                                                         *)
(* What the domains hold besides their threads pointer is in Sampling.     *)
(***************************************************************************)
EXTENDS Integers, Sequences, FiniteSets, FiniteSetsExt

CONSTANTS
    Blocks,     \* addresses that malloc may return
    NULL,
    MaxFiles,   \* bound: pid files in the directory
    MaxLost     \* bound: streams that are lost

ASSUME ListsAssumption ==
    /\ NULL \notin Blocks
    /\ {MaxFiles, MaxLost} \subseteq Nat

VARIABLES
    pc,         \* where refresh_domains is
    heap,       \* which blocks are allocated
    cell,       \* what is in a block of domains: their threads pointers
    now, pre,   \* scr_cur and scr_pre: domains and num
    files,      \* get_qemu_id: pid files that readdir has yet to return
    rundir,     \* the stream of get_qemu_id is open
    taskdirs,   \* how many streams of get_child_pid are open
    lost,       \* history: threads arrays of domains that were popped
    lostdirs,   \* history: streams that were returned from without closedir
    fault       \* history: a block was freed that was not allocated

heapVars == <<heap, cell, lost, fault>>
dirVars == <<rundir, taskdirs, lostdirs>>
vars == <<pc, heapVars, now, pre, files, dirVars>>

Pointers == Blocks \cup {NULL}

DomainList == [domains : Pointers, num : Nat]

TypeOK ==
    /\ pc \in {"idle", "vcpus", "files", "domain", "tasks", "deltas"}
    /\ heap \subseteq Blocks
    /\ cell \in [Blocks -> Seq(Pointers)]
    /\ now \in DomainList /\ pre \in DomainList
    /\ files \in 0..MaxFiles
    /\ rundir \in BOOLEAN /\ taskdirs \in Nat /\ lostdirs \in 0..MaxLost
    /\ lost \subseteq Blocks
    /\ fault \in BOOLEAN

Empty == [domains |-> NULL, num |-> 0]

Init ==
    /\ pc = "idle"
    /\ heap = {} /\ cell = [b \in Blocks |-> <<>>]
    /\ now = Empty /\ pre = Empty
    /\ files = 0
    /\ rundir = FALSE /\ taskdirs = 0
    /\ lost = {} /\ lostdirs = 0 /\ fault = FALSE
-----------------------------------------------------------------------------
(***************************************************************************)
(* domain list operations                                                  *)
(***************************************************************************)
\* The threads pointers of the domains of a list.
Threads(list) ==
    IF list.domains = NULL THEN <<>> ELSE SubSeq(cell[list.domains], 1, list.num)

ThreadsOf(list) ==
    {Threads(list)[i] : i \in 1..Len(Threads(list))} \ {NULL}

\* The blocks of s are freed; what was in them is gone.
Freed(s) ==
    /\ heap' = heap \ s
    /\ cell' = [b \in Blocks |-> IF b \in s THEN <<>> ELSE cell[b]]
    /\ fault' = (fault \/ ~ s \subseteq heap)

\* clear_domains
Clear(list) == Freed(({list.domains} \ {NULL}) \cup ThreadsOf(list))

\* Mutant: both lists keep the array.
HandOver_Shared == pre' = now /\ UNCHANGED now

\* Mutant: nothing is handed over from an empty list.
HandOver_IfAny ==
    /\ pre' = IF now = Empty THEN pre ELSE now
    /\ now' = Empty

\* pre takes over the array, init_domains(now).
HandOver == pre' = now /\ now' = Empty

\* refresh_domains up to get_vcpu_list.
Rotate ==
    /\ pc = "idle"
    /\ Clear(pre)
    /\ HandOver
    /\ pc' = "vcpus"
    /\ UNCHANGED <<lost, files, dirVars>>

\* get_vcpu_list or the opendir of get_qemu_id fails.
NothingRead ==
    /\ pc = "vcpus"
    /\ pc' = "idle"
    /\ UNCHANGED <<heapVars, now, pre, files, dirVars>>

OpenRunDir ==
    /\ pc = "vcpus"
    /\ rundir' = TRUE
    /\ files' \in 0..MaxFiles
    /\ pc' = "files"
    /\ UNCHANGED <<heapVars, now, pre, taskdirs, lostdirs>>

\* Mutant: the old array is kept.
AddDomains_KeepsOld(b) ==
    /\ heap' = heap \cup {b}
    /\ cell' = [cell EXCEPT ![b] = Append(Threads(now), NULL)]
    /\ now' = [domains |-> b, num |-> now.num + 1]
    /\ fault' = fault

\* add_domains gets block b.
AddDomains(b) ==
    /\ heap' = (heap \ {now.domains}) \cup {b}
    /\ fault' = (fault \/ now.domains \notin heap \cup {NULL})
    /\ cell' = [c \in Blocks |->
                  IF c = b THEN Append(Threads(now), NULL)
                  ELSE IF c = now.domains THEN <<>> ELSE cell[c]]
    /\ now' = [domains |-> b, num |-> now.num + 1]

NextFile ==
    /\ pc = "files" /\ files > 0
    /\ files' = files - 1
    /\ pc' = "domain"
    /\ \E b \in Blocks \ heap : AddDomains(b)
    /\ UNCHANGED <<pre, lost, dirVars>>

\* Mutant: the list is popped then, too.
NoMemory_Pops ==
    /\ pc = "files" /\ files > 0
    /\ files' = 0
    /\ rundir' = FALSE
    /\ now' = [now EXCEPT !.num = @ - 1]
    /\ pc' = "deltas"
    /\ UNCHANGED <<heapVars, pre, taskdirs, lostdirs>>

\* add_domains returns NULL: get_qemu_id returns with the domains so far.
NoMemory ==
    /\ pc = "files" /\ files > 0
    /\ files' = 0
    /\ rundir' = FALSE
    /\ pc' = "deltas"
    /\ UNCHANGED <<heapVars, now, pre, taskdirs, lostdirs>>

\* pop_domains
Pop ==
    /\ now' = [now EXCEPT !.num = @ - 1]
    /\ pc' = "files"

\* set_domain fails before get_child_pid, or opendir fails in it.
SetDomainFails ==
    /\ pc = "domain"
    /\ Pop
    /\ UNCHANGED <<heapVars, pre, files, dirVars>>

\* get_child_pid returns without closedir when there are no threads (a zombie).
NoThreads ==
    /\ pc = "domain"
    /\ lostdirs < MaxLost
    /\ taskdirs' = taskdirs + 1
    /\ lostdirs' = lostdirs + 1
    /\ Pop
    /\ UNCHANGED <<heapVars, pre, files, rundir>>

\* malloc fails in get_child_pid, which closes its stream.
ThreadsFail ==
    /\ pc = "domain"
    /\ Pop
    /\ UNCHANGED <<heapVars, pre, files, dirVars>>

\* get_child_pid gets block b for the threads of the last domain.
OpenTaskDir ==
    /\ pc = "domain"
    /\ \E b \in Blocks \ heap :
        /\ heap' = heap \cup {b}
        /\ cell' = [cell EXCEPT ![now.domains][now.num] = b]
    /\ taskdirs' = taskdirs + 1
    /\ pc' = "tasks"
    /\ UNCHANGED <<lost, fault, now, pre, files, rundir, lostdirs>>

\* closedir; the name fits.
EndTasks ==
    /\ pc = "tasks"
    /\ taskdirs' = taskdirs - 1
    /\ pc' = "files"
    /\ UNCHANGED <<heapVars, now, pre, files, rundir, lostdirs>>

\* closedir; set_domain finds that the name does not fit.
NameTooLong ==
    /\ pc = "tasks"
    /\ taskdirs' = taskdirs - 1
    /\ lost' = lost \cup {cell[now.domains][now.num]}
    /\ Pop
    /\ UNCHANGED <<heap, cell, fault, pre, files, rundir, lostdirs>>

CloseRunDir ==
    /\ pc = "files" /\ files = 0
    /\ rundir' = FALSE
    /\ pc' = "deltas"
    /\ UNCHANGED <<heapVars, now, pre, files, taskdirs, lostdirs>>

\* The loop of refresh_domains goes through the domains and threads of both
\* lists; main shows now.
Deltas ==
    /\ pc = "deltas"
    /\ pc' = "idle"
    /\ UNCHANGED <<heapVars, now, pre, files, dirVars>>
-----------------------------------------------------------------------------
Next ==
    \/ Rotate \/ NothingRead \/ OpenRunDir
    \/ NextFile \/ NoMemory
    \/ SetDomainFails \/ NoThreads \/ ThreadsFail \/ OpenTaskDir
    \/ EndTasks \/ NameTooLong
    \/ CloseRunDir \/ Deltas

Spec == Init /\ [][Next]_vars
-----------------------------------------------------------------------------
(***************************************************************************)
(* Properties.                                                             *)
(***************************************************************************)
\* What can be reached from a list.
Reach(list) == ({list.domains} \ {NULL}) \cup ThreadsOf(list)

\* Every pointer that the loops follow leads to an allocated block, none of
\* them to the same one as another, and no index leaves its array: whichever
\* reads and mallocs failed before, in this refresh or the last (clear_domains,
\* add_domains, refresh_threads).
Owned ==
    /\ Reach(now) \cap Reach(pre) = {}
    /\ \A list \in {now, pre} :
         /\ Reach(list) \subseteq heap
         /\ list.domains = NULL => list.num = 0
         /\ list.domains # NULL => list.num <= Len(cell[list.domains])
         /\ list.domains \notin ThreadsOf(list)
         /\ \A i, j \in 1..Len(Threads(list)) :
             Threads(list)[i] = Threads(list)[j] =>
                 i = j \/ Threads(list)[i] = NULL

\* No block is freed that is not allocated: none twice (clear_domains frees the
\* threads and the array of the list before the last, add_domains the array
\* that it copied).
FreesOnce == ~ fault

\* Nothing else is left behind than the threads array of a domain whose name
\* was too long and the stream of one without threads: what is allocated can
\* be reached from one of the lists or is one of those, and is never freed.
Accounted ==
    /\ heap = Reach(now) \cup Reach(pre) \cup lost
    /\ lost \cap (Reach(now) \cup Reach(pre)) = {}
    /\ taskdirs = lostdirs + (IF pc = "tasks" THEN 1 ELSE 0)
    /\ rundir <=> pc \in {"files", "domain", "tasks"}
=============================================================================
