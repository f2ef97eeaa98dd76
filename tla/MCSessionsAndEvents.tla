------------------------- MODULE MCSessionsAndEvents -------------------------
(***************************************************************************)
(* Two parts that share no state, checked side by side: a behaviour picks  *)
(* one of them and the other rests in its initial state.                   *)
(***************************************************************************)
EXTENDS SessionStore, EventStream, TLC

CONSTANTS a, b

VARIABLE chosen   \* the part whose behaviours these are

PairInit ==
    /\ chosen \in {"sessions", "events"}
    /\ Init /\ StreamInit

PairNext ==
    /\ UNCHANGED chosen
    /\ \/ chosen = "sessions" /\ UNCHANGED streamVars /\ Next
       \/ chosen = "events" /\ UNCHANGED vars /\ StreamNext

PairSpec == PairInit /\ [][PairNext]_<<chosen, vars, streamVars>>

\* The callers of the store and the messages have the same two names, so that one
\* permutation serves both.
Symmetry == Permutations({a, b})
=============================================================================
