---------------------------- MODULE SamplingMeter ----------------------------
(***************************************************************************)
(* Sampling implements Meter: a whole refresh, with all its reads and      *)
(* failures, is one step of the meter, and nothing of a refresh that is    *)
(* under way can be seen.                                                  *)
(***************************************************************************)
EXTENDS Sampling

\* How many of the domains of list up to the i-th have its id.
Entry(list, i) == Cardinality({l \in 1..i : list[l].id = list[i].id})

\* The readings that show a list; the slots that were never filled show none.
Readings(list) ==
    UNION {
        LET d == list[i]
            reading(tid, it) ==
                [guest |-> d.id, entry |-> Entry(list, i), tid |-> tid,
                 life |-> it.life, count |-> it.utime, delta |-> it.dutime]
        IN {reading(NoTid, d)}
           \cup {reading(r.pid, r) : r \in {s \in Rows(d) : s.pid # NoTid}}
        : i \in 1..Len(list)}

\* While a refresh is under way the screen shows the last sample.
OnScreen == IF Shown THEN now ELSE pre

M == INSTANCE Meter WITH shown <- Readings(OnScreen)

\* Every step of a refresh is a step of the meter or cannot be seen.  Meter
\* states it for the counters of /proc (refresh_domains and all it calls).
ImplementsMeter == M!Spec
=============================================================================
