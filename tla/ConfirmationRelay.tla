-------------------------- MODULE ConfirmationRelay -------------------------
(***************************************************************************)
(* The relay of confirmations (agent-runtime-system:                       *)
(* tool_confirmation_bridge.go, tool_confirmation_outcome.go and what      *)
(* confirmation.go does to the ledger).  A running tool asks the host to   *)
(* show a decision that another run waits for; the relay projects it on    *)
(* the part of the tool call and polls two tables, each under the lock for *)
(* itself: the ledger of pending decisions and the outcomes of settled     *)
(* ones.                                                                   *)
(***************************************************************************)
EXTENDS Naturals, FiniteSets

CONSTANTS
    Decisions,      \* the decisions runs wait for
    ToolCalls,      \* the calls of tools that relay them, one at a time each
    OutcomeLimit    \* confirmationOutcomeLimit

ASSUME RelayAssumption == OutcomeLimit \in Nat \ {0}

VARIABLES
    ledger,         \* the decisions in the confirmationLedger of some run
    fate,           \* what became of a decision
    outcomes,       \* confirmationOutcomes: the verdict of a decision, or "none"
    part,           \* the state of the part of a call
    relay,          \* where the relay of a call is
    wanted,         \* the decision it relays
    answer,         \* the outcome it holds
    gone,           \* the calls whose run record is reclaimed
    handed,         \* history: the calls a verdict was returned to
    passed,         \* history: calls for which the verdict came between their two looks
    evicted,        \* history: decisions whose verdict was evicted
    unsaved         \* history: calls whose projection could not be saved

relayTables == <<ledger, fate, outcomes, evicted>>
relayCalls == <<part, relay, wanted, answer, gone, handed, unsaved>>
relayVars == <<relayTables, relayCalls, passed>>

Verdicts == {"approved", "rejected", "failed"}
Answers == Verdicts \cup {"expired"}
RelaySteps == {"idle", "take", "check", "project", "await", "recheck", "clear"}
NoDecision == "none"

ASSUME NoDecisionAssumption == NoDecision \notin Decisions

RelayInit ==
    /\ ledger = {}
    /\ fate = [d \in Decisions |-> "unknown"]
    /\ outcomes = [d \in Decisions |-> "none"]
    /\ part = [c \in ToolCalls |-> "running"]
    /\ relay = [c \in ToolCalls |-> "idle"]
    /\ wanted = [c \in ToolCalls |-> NoDecision]
    /\ answer = [c \in ToolCalls |-> "none"]
    /\ handed = [d \in Decisions |-> {}]
    /\ gone = {} /\ passed = {} /\ evicted = {} /\ unsaved = {}

-----------------------------------------------------------------------------
(***************************************************************************)
(* The runs that wait for a decision.                                      *)
(***************************************************************************)

\* registerToolConfirmation, before anybody can see the decision.
AskUser(d) ==
    /\ fate[d] = "unknown"
    /\ fate' = [fate EXCEPT ![d] = "pending"]
    /\ ledger' = ledger \cup {d}
    /\ UNCHANGED <<outcomes, evicted, relayCalls, passed>>

\* The relays that have looked for the verdict of d and not yet at the ledger.
Between(d) == {c \in ToolCalls : wanted[c] = d /\ relay[c] \in {"check", "recheck"}}

\* recordConfirmationOutcome: the table never grows over its limit, what goes is the first
\* key of a map iteration.  The decision stays in the ledger until deregister.
RecordOutcome(d, v) ==
    /\ d \in ledger
    /\ fate[d] = "pending"
    /\ fate' = [fate EXCEPT ![d] = v]
    /\ LET full == {e \in Decisions : outcomes[e] # "none"} IN
       IF Cardinality(full) >= OutcomeLimit
       THEN \E e \in full : /\ outcomes' = [outcomes EXCEPT ![e] = "none", ![d] = v]
                            /\ evicted' = evicted \cup {e}
       ELSE outcomes' = [outcomes EXCEPT ![d] = v] /\ UNCHANGED evicted
    /\ passed' = passed \cup Between(d)
    /\ UNCHANGED <<ledger, relayCalls>>

\* recordConfirmationFailure: the verdict could not be applied.  The limit is not looked
\* at, and the decision stays in the ledger until its run has ended.
RecordFailure(d) ==
    /\ d \in ledger
    /\ fate[d] = "pending"
    /\ fate' = [fate EXCEPT ![d] = "failed"]
    /\ outcomes' = [outcomes EXCEPT ![d] = "failed"]
    /\ passed' = passed \cup Between(d)
    /\ UNCHANGED <<ledger, evicted, relayCalls>>

\* deregisterToolConfirmation, the next critical section of the same goroutine.
Deregister(d) ==
    /\ d \in ledger
    /\ fate[d] \in {"approved", "rejected"}
    /\ ledger' = ledger \ {d}
    /\ UNCHANGED <<fate, outcomes, evicted, relayCalls, passed>>

\* finalizeRun and discardToolConfirmations clear what the ledger of a run still holds.
ClearLedger(D) ==
    /\ D # {}
    /\ \A d \in D : fate[d] \in {"pending", "failed"}
    /\ ledger' = ledger \ D
    /\ fate' = [d \in Decisions |-> IF d \in D /\ fate[d] = "pending" THEN "closed" ELSE fate[d]]
    /\ UNCHANGED <<outcomes, evicted, relayCalls, passed>>

-----------------------------------------------------------------------------
(***************************************************************************)
(* RelayToolConfirmation.                                                  *)
(***************************************************************************)
StepTo(c, p) == relay' = [relay EXCEPT ![c] = p]

\* The calling run is over and its record reclaimed; a tool in the background goes on.
RecordGone(c) ==
    /\ c \notin gone
    /\ gone' = gone \cup {c}
    /\ UNCHANGED <<relayTables, part, relay, wanted, answer, handed, unsaved, passed>>

\* It returns.
HandBack(c, s) ==
    /\ StepTo(c, "idle")
    /\ wanted' = [wanted EXCEPT ![c] = NoDecision]
    /\ answer' = [answer EXCEPT ![c] = "none"]
    /\ handed' = IF s \in Verdicts THEN [handed EXCEPT ![wanted[c]] = @ \cup {c}] ELSE handed

\* A tool knows a decision after it became visible; it may ask long after.
RequestRelay(c, d) ==
    /\ relay[c] = "idle"
    /\ part[c] = "running"
    /\ fate[d] # "unknown"
    /\ wanted' = [wanted EXCEPT ![c] = d]
    /\ StepTo(c, "take")
    /\ UNCHANGED <<relayTables, part, answer, gone, handed, unsaved, passed>>

\* takeConfirmationOutcome: an outcome is taken by one relay only.
\* Mutant: it is read and stays.
TakenKept(d) == outcomes
Taken(d) == [outcomes EXCEPT ![d] = "none"]

\* A decision that is settled already needs no projection.
TakeFirst(c) ==
    /\ relay[c] = "take"
    /\ IF outcomes[wanted[c]] = "none"
       THEN StepTo(c, "check") /\ UNCHANGED <<outcomes, wanted, answer, handed>>
       ELSE /\ outcomes' = Taken(wanted[c])
            /\ HandBack(c, outcomes[wanted[c]])
    /\ UNCHANGED <<ledger, fate, evicted, part, gone, unsaved, passed>>

CheckFirst(c) ==
    /\ relay[c] = "check"
    /\ IF wanted[c] \in ledger
       THEN StepTo(c, "project") /\ UNCHANGED <<wanted, answer, handed>>
       ELSE HandBack(c, "expired")
    /\ passed' = passed \ {c}
    /\ UNCHANGED <<relayTables, part, gone, unsaved>>

\* projectToolConfirmation: the part shows the decision, whatever it showed before.  When
\* the session cannot be saved the relay fails and the part stays; without a record it
\* fails at once.
Project(c) ==
    /\ relay[c] = "project"
    /\ IF c \in gone THEN HandBack(c, "none") /\ UNCHANGED <<part, unsaved>>
       ELSE /\ part' = [part EXCEPT ![c] = "needs_confirmation"]
            /\ \/ StepTo(c, "await") /\ UNCHANGED <<wanted, answer, handed, unsaved>>
               \/ HandBack(c, "none") /\ unsaved' = unsaved \cup {c}
    /\ UNCHANGED <<relayTables, gone, passed>>

\* awaitToolConfirmation: every tick looks at the outcomes and then, in another critical
\* section, at the ledger.  A verdict that is recorded between the two is passed over when
\* its decision has left the ledger by then, and stays in the table.
Poll(c) ==
    /\ relay[c] = "await"
    /\ IF outcomes[wanted[c]] = "none" THEN StepTo(c, "recheck") /\ UNCHANGED <<outcomes, answer>>
       ELSE /\ outcomes' = Taken(wanted[c])
            /\ answer' = [answer EXCEPT ![c] = outcomes[wanted[c]]]
            /\ StepTo(c, "clear")
    /\ UNCHANGED <<ledger, fate, evicted, part, wanted, gone, handed, unsaved, passed>>

\* Mutant: the relay does not return when its decision has gone.
KeepPolling(c) ==
    /\ relay[c] = "recheck"
    /\ StepTo(c, "await")
    /\ answer' = IF wanted[c] \in ledger THEN answer ELSE [answer EXCEPT ![c] = "expired"]
    /\ passed' = passed \ {c}
    /\ UNCHANGED <<relayTables, part, wanted, gone, handed, unsaved>>

PollLedger(c) ==
    /\ relay[c] = "recheck"
    /\ IF wanted[c] \in ledger THEN StepTo(c, "await") /\ UNCHANGED answer
       ELSE StepTo(c, "clear") /\ answer' = [answer EXCEPT ![c] = "expired"]
    /\ passed' = passed \ {c}
    /\ UNCHANGED <<relayTables, part, wanted, gone, handed, unsaved>>

\* The context of the execution ends.
\* Mutant: the relay returns its error at once.
ReturnAtOnce(c) ==
    /\ relay[c] = "await"
    /\ HandBack(c, "none")
    /\ UNCHANGED <<relayTables, part, gone, unsaved, passed>>

StopWaiting(c) ==
    /\ relay[c] = "await"
    /\ StepTo(c, "clear")
    /\ UNCHANGED <<relayTables, part, wanted, answer, gone, handed, unsaved, passed>>

\* clearToolConfirmationProjection: the part of a run that is still there runs again, also
\* that of a tool that finished meanwhile, for the end of a process does not end its relay.
\* Whether the session could be saved is not looked at.
ClearProjection(c) ==
    /\ relay[c] = "clear"
    /\ part' = IF c \in gone THEN part ELSE [part EXCEPT ![c] = "running"]
    /\ HandBack(c, answer[c])
    /\ UNCHANGED <<relayTables, gone, unsaved, passed>>

\* The tool ends, and its part shows the result.
FinishCall(c) ==
    /\ part[c] # "finished"
    /\ part' = [part EXCEPT ![c] = "finished"]
    /\ UNCHANGED <<relayTables, relay, wanted, answer, gone, handed, unsaved, passed>>

-----------------------------------------------------------------------------
RelayNext ==
    \/ \E d \in Decisions :
         \/ AskUser(d) \/ RecordFailure(d) \/ Deregister(d)
         \/ \E v \in {"approved", "rejected"} : RecordOutcome(d, v)
    \/ \E D \in SUBSET ledger : ClearLedger(D)
    \/ \E c \in ToolCalls :
         \/ \E d \in Decisions : RequestRelay(c, d)
         \/ TakeFirst(c) \/ CheckFirst(c) \/ Project(c) \/ Poll(c) \/ PollLedger(c)
         \/ StopWaiting(c) \/ ClearProjection(c) \/ FinishCall(c) \/ RecordGone(c)

RelaySpec == RelayInit /\ [][RelayNext]_relayVars

-----------------------------------------------------------------------------
(***************************************************************************)
(* Properties.                                                             *)
(***************************************************************************)

\* The types of the variables; a relay that is under way has its decision, and an answer
\* ends its wait.
RelayTypeOK ==
    /\ ledger \subseteq Decisions
    /\ fate \in [Decisions -> Verdicts \cup {"unknown", "pending", "closed"}]
    /\ outcomes \in [Decisions -> Verdicts \cup {"none"}]
    /\ part \in [ToolCalls -> {"running", "needs_confirmation", "finished"}]
    /\ relay \in [ToolCalls -> RelaySteps]
    /\ wanted \in [ToolCalls -> Decisions \cup {NoDecision}]
    /\ answer \in [ToolCalls -> Answers \cup {"none"}]
    /\ handed \in [Decisions -> SUBSET ToolCalls]
    /\ evicted \subseteq Decisions
    /\ gone \subseteq ToolCalls /\ unsaved \subseteq ToolCalls /\ passed \subseteq ToolCalls
    /\ \A c \in ToolCalls : /\ relay[c] = "idle" <=> wanted[c] = NoDecision
                            /\ answer[c] # "none" => relay[c] = "clear"

\* Where the verdict of a decision is: in the table, in the hand of a relay, or returned
\* to a tool.
Holders(d) ==
    handed[d] \cup {c \in ToolCalls : wanted[c] = d /\ answer[c] \in Verdicts}

\* The relays about to be told that their decision has gone.
Expiring(d) == {c \in Between(d) : d \notin ledger}

\* No verdict gets lost or doubled on its way: it is in the table, or evicted, or with
\* exactly one relay that holds or returned it, and it is the verdict that was given.  A
\* relay is told that its decision has gone only if that was closed without a verdict, or
\* another relay has the verdict, or it was evicted; the one exception is a verdict that
\* came between the two looks of the relay, which VerdictReachesRelay is about
\* (recordConfirmationOutcome before deregisterToolConfirmation, takeConfirmationOutcome).
VerdictConserved ==
    \A d \in Decisions :
        /\ outcomes[d] \in {"none", fate[d]}
        /\ \A c \in Holders(d) \ handed[d] : answer[c] = fate[d]
        /\ fate[d] \in Verdicts =>
             (IF outcomes[d] # "none" THEN 1 ELSE 0) + (IF d \in evicted THEN 1 ELSE 0)
               + Cardinality(Holders(d)) = 1
        /\ Expiring(d) \subseteq passed \/ fate[d] = "closed" \/ d \in evicted \/ Holders(d) # {}

\* What the comments in tool_confirmation_outcome.go promise: once a decision has left the
\* ledger its verdict can be taken, so no relay that waits for it is told that it expired.
VerdictReachesRelay ==
    \A d \in Decisions : Expiring(d) # {} => fate[d] = "closed" \/ Holders(d) # {}

\* A part shows a decision of somebody else only while its relay is under way, or when
\* the projection could not be saved, or the record of its run has gone (the relay clears
\* it on every way out of the wait).
ProjectionCleared ==
    \A c \in ToolCalls : part[c] = "needs_confirmation" =>
        relay[c] \in {"await", "recheck", "clear"} \/ c \in unsaved \cup gone
=============================================================================
