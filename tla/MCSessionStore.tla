--------------------------- MODULE MCSessionStore ---------------------------
(***************************************************************************)
(* SessionStore on small instances.  Callers and sessions may be permuted. *)
(***************************************************************************)
EXTENDS SessionStore, TLC

CONSTANTS c1, c2, s1, s2

Symmetry == Permutations(Callers) \cup Permutations(Sessions)
=============================================================================
