------------------------- MODULE MCHierarchContexts -------------------------
(***************************************************************************)
(* The instance of HierarchContexts for TLC: every context may be          *)
(* registered, and its entry may move to a place that is free or one that  *)
(* another entry leaves.                                                   *)
(***************************************************************************)
EXTENDS HierarchContexts

\* A creation ends, though its loop draws identifiers until one is free.
CreationEnds == (drawing # "none") ~> (drawing = "none" \/ fault # "none")
=============================================================================
