----------------------------- MODULE MCPageStack -----------------------------
(* A stack of three pages, two documents, two positions and two inputs.      *)
EXTENDS PageStack, TLC

Symmetry == Permutations(Blocks)
=============================================================================
