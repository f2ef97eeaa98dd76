--------------------------- MODULE MCRunLifecycle ---------------------------
(***************************************************************************)
(* RunLifecycle on small instances.  Submissions and decisions may be      *)
(* permuted: no definition tells one from another.                         *)
(***************************************************************************)
EXTENDS RunLifecycle

CONSTANTS r1, r2, c1, c2, c3, d1, d2

Symmetry == Permutations(Clients) \cup Permutations(Decisions)
SymmetryRuns == Symmetry \cup Permutations(Runs)

NoCrash == {}
SomeCrashes == {"model", "applying", "saveapplied", "execute", "wrapup"}
=============================================================================
