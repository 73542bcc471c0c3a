-------------------------------- MODULE Meter --------------------------------
(***************************************************************************)
(* What a sample promises, without how it is taken: a meter that shows, at *)
(* one moment, a reading of every thread and process it found, with what   *)
(* its counter grew since the readings that were shown before.  vmtop      *)
(* gets there in many reads, from two tables, between which the host moves *)
(* (module Sampling); SamplingMeter shows that it implements this.         *)
(***************************************************************************)
EXTENDS Naturals

CONSTANTS
    Tids,
    NoTid       \* instead of a tid, for the process of a guest

VARIABLE shown

\* life tells the threads that had one tid from each other, and is 0 for one
\* that was gone before it was read.  A guest that is entered in the table more
\* than once (two pid files may name its process) has entries from 1 on.
Reading == [guest : Nat, entry : Nat, tid : Tids \cup {NoTid}, life : Nat,
            count : Nat, delta : Nat]

\* The readings that r is compared with, of the first entry of its guest.
Before(r) ==
    {o \in shown : o.guest = r.guest /\ o.entry = 1 /\ o.tid = r.tid}

\* r shows the growth since o.  The counter of one thread does not go
\* backwards; that of another one may, and then the old growth is repeated.
Grown(r, o) ==
    /\ r.life # 0 /\ r.life = o.life => r.count >= o.count
    /\ r.delta = IF r.count >= o.count THEN r.count - o.count ELSE o.delta

\* What is met for the first time starts from zero.
Measured(r) ==
    IF Before(r) = {} THEN r.delta = 0 ELSE \E o \in Before(r) : Grown(r, o)

Sample ==
    /\ shown' \subseteq Reading
    /\ \A r \in shown' : Measured(r)

Init == shown = {}

Spec == Init /\ [][Sample]_shown
=============================================================================
