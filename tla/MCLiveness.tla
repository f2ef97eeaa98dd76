----------------------------- MODULE MCLiveness -----------------------------
(***************************************************************************)
(* What must eventually happen to a run and to a task.  The two parts are  *)
(* checked side by side: a behaviour picks one of them, and in the other   *)
(* no run is ever started, so that its fairness demands nothing.           *)
(***************************************************************************)
EXTENDS MCRunLifecycle, AsyncInjection

CONSTANTS u1, u2, t1

VARIABLE chosen   \* the part whose behaviours these are

LiveInit ==
    /\ chosen \in {"run", "task"}
    /\ Init /\ TaskInit
    /\ chosen # "run" => \A r \in Runs : kind[r] = "reply"

LiveNext ==
    /\ UNCHANGED chosen
    /\ \/ chosen = "run" /\ UNCHANGED taskVars /\ Next
       \/ chosen = "task" /\ UNCHANGED vars /\ TaskNext

LiveSpec ==
    /\ LiveInit /\ [][LiveNext]_<<chosen, vars, taskVars>>
    /\ Fairness /\ TaskFairness
=============================================================================
