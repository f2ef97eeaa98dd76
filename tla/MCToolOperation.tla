--------------------------- MODULE MCToolOperation ---------------------------
(***************************************************************************)
(* ToolOperation on small instances.  The clients may be permuted.         *)
(***************************************************************************)
EXTENDS ToolOperation, TLC

CONSTANTS c1, c2

Symmetry == Permutations(Askers)
=============================================================================
