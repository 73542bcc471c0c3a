------------------------------- MODULE MCLists -------------------------------
(***************************************************************************)
(* Lists for TLC: the blocks are interchangeable.                          *)
(***************************************************************************)
EXTENDS Lists, TLC

BlockSymmetry == Permutations(Blocks)
=============================================================================
