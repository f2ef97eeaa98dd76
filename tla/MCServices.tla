----------------------------- MODULE MCServices -----------------------------
(***************************************************************************)
(* Four parts that share no state, checked side by side: a behaviour picks *)
(* one of them and the others rest in their initial states.                *)
(***************************************************************************)
EXTENDS AsyncInjection, PluginHosting, ConfirmationRelay, DataMigration

CONSTANTS a, b

VARIABLE busy   \* the part whose behaviours these are

ServicesInit ==
    /\ busy \in {"tasks", "plugins", "relay", "migration"}
    /\ TaskInit /\ HostInit /\ RelayInit /\ MigInit
    /\ busy # "plugins" => ~enabled
    /\ busy # "migration" => Version = Target

\* Every part but the tasks may come to its end; a session always has a step, if only to rest.
ServicesNext ==
    /\ UNCHANGED busy
    /\ \/ /\ busy = "tasks"
          /\ UNCHANGED <<hostVars, relayVars, migVars>>
          /\ TaskNext
       \/ /\ busy = "plugins"
          /\ UNCHANGED <<taskVars, relayVars, migVars>>
          /\ [HostNext]_hostVars
       \/ /\ busy = "relay"
          /\ UNCHANGED <<taskVars, hostVars, migVars>>
          /\ [RelayNext]_relayVars
       \/ /\ busy = "migration"
          /\ UNCHANGED <<taskVars, hostVars, relayVars>>
          /\ [MigNext]_migVars

ServicesSpec ==
    ServicesInit /\ [][ServicesNext]_<<busy, taskVars, hostVars, relayVars, migVars>>

\* The runs, the requests of the plugins and the calls that relay have the same two names,
\* so that one permutation serves all.
Symmetry == Permutations({a, b})
=============================================================================
