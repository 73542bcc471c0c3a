------------------------------- MODULE MCUsage -------------------------------
(***************************************************************************)
(* Usage for TLC: two vCPUs, which are interchangeable, and jiffies of two *)
(* ticks.                                                                  *)
(***************************************************************************)
EXTENDS Usage, TLC

VcpuSymmetry == Permutations(Vcpus)
=============================================================================
