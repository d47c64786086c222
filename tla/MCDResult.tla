------------------------------ MODULE MCDResult ------------------------------
(***************************************************************************)
(* Instances of DResult for TLC, and the properties it is checked for.     *)
(***************************************************************************)
EXTENDS DResult, MCDFilter

\* Once begun, an iteration comes to an end: it is not kept alive by the nodes that
\* are appended to the table it walks (DResult::next).
IterationEnds == HasNext ~> (fault # 0 \/ ~HasNext)
=============================================================================
