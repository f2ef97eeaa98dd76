---------------------------- MODULE MCRunScenarios ---------------------------
(***************************************************************************)
(* RunLifecycle in two scenarios: one run with layers of confirmations and *)
(* everything the constants allow, and two runs side by side, one          *)
(* finalizing and reclaiming while the other settles, with one submission  *)
(* and one decision between them.                                          *)
(***************************************************************************)
EXTENDS MCRunLifecycle

\* One run is started and nothing depends on the kind of the others.
Alone == \E r \in Runs : \A q \in Runs \ {r} : pc[q] = "none" /\ kind[q] = "reply"

\* The kind "tail" is for retries, which belong to the first scenario.
Pair ==
    /\ \A r \in Runs : kind[r] # "tail"
    /\ Cardinality({c \in Clients : reply[c] # "idle"}) <= 1
    /\ Cardinality({d \in Decisions : owner[d] # None}) <= 1
    /\ signals <= 1

ScenarioInit == Init /\ (Alone \/ Pair)
ScenarioSpec == ScenarioInit /\ [][Next]_vars

\* Every step stays in a scenario.
Scenario == Alone' \/ Pair'
=============================================================================
