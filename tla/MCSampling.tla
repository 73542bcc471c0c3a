----------------------------- MODULE MCSampling -----------------------------
(***************************************************************************)
(* Sampling, and the meter that it implements, for TLC.                    *)
(***************************************************************************)
EXTENDS SamplingMeter, TLC

\* No option -p.
AllDomains == -1

\* Thread ids, and guests that the model treats alike, are interchangeable.
TidSymmetry == Permutations(Tids)
HostSymmetry == Permutations(Tids) \cup Permutations(Guests)
=============================================================================
