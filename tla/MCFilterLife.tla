---------------------------- MODULE MCFilterLife ----------------------------
(***************************************************************************)
(* The instance of FilterLife for TLC: two filters may be over one tree,   *)
(* or over one each, and a third made after one is gone.                   *)
(***************************************************************************)
EXTENDS FilterLife, TLC

\* The trees may be exchanged, and so may the filters.
MCSymmetry == Permutations(Tree) \cup Permutations(Filter)
=============================================================================
