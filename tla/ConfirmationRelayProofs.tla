----------------------- MODULE ConfirmationRelayProofs ----------------------
(***************************************************************************)
(* Proofs about ConfirmationRelay, for every set of decisions and of calls *)
(* and every limit of the table.                                           *)
(***************************************************************************)
EXTENDS ConfirmationRelay, FiniteSetTheorems, TLAPS

-----------------------------------------------------------------------------
(***************************************************************************)
(* The inductive invariant.                                                *)
(***************************************************************************)

\* A relay that waits for d has it, and it is one that was asked.
WantedOK ==
    /\ \A c \in ToolCalls : wanted[c] # NoDecision => fate[wanted[c]] # "unknown"
    /\ \A c \in ToolCalls : relay[c] \in {"idle", "take", "check", "project"} => answer[c] = "none"

\* The verdict of d is in exactly one place, if there is one.
VerdictIn(d) ==
    /\ outcomes[d] \in {"none", fate[d]}
    /\ \A c \in Holders(d) \ handed[d] : answer[c] = fate[d]
    /\ fate[d] \notin Verdicts => outcomes[d] = "none" /\ d \notin evicted /\ Holders(d) = {}
    /\ fate[d] \in Verdicts =>
         \/ outcomes[d] # "none" /\ d \notin evicted /\ Holders(d) = {}
         \/ outcomes[d] = "none" /\ d \in evicted /\ Holders(d) = {}
         \/ outcomes[d] = "none" /\ d \notin evicted /\ \E c \in ToolCalls : Holders(d) = {c}

\* A decision leaves the ledger settled or closed, and a relay between its two looks that
\* could still have taken the verdict had it looked later is noted in passed.
LooksOK ==
    /\ \A d \in Decisions \ ledger : fate[d] # "pending"
    /\ \A d \in Decisions : outcomes[d] # "none" => Between(d) \subseteq passed

RelayInv ==
    /\ RelayTypeOK
    /\ WantedOK
    /\ LooksOK
    /\ \A d \in Decisions : VerdictIn(d)
    /\ ProjectionCleared

-----------------------------------------------------------------------------
(***************************************************************************)
(* Types.                                                                  *)
(***************************************************************************)
LEMMA RelayTypesInit == RelayInit => RelayTypeOK /\ WantedOK
  BY NoDecisionAssumption DEF RelayInit, RelayTypeOK, WantedOK, Verdicts, Answers, RelaySteps

LEMMA RelayTypesStep ==
  ASSUME RelayTypeOK, WantedOK, [RelayNext]_relayVars
  PROVE  RelayTypeOK' /\ WantedOK'
  <1> USE NoDecisionAssumption DEF RelayTypeOK, WantedOK, Verdicts, Answers, RelaySteps
  <1>1. ASSUME NEW d \in Decisions, AskUser(d) \/ RecordFailure(d) \/ Deregister(d)
        PROVE  RelayTypeOK' /\ WantedOK'
    BY <1>1 DEF AskUser, RecordFailure, Deregister, Between, relayCalls
  <1>2. ASSUME NEW d \in Decisions, NEW v \in {"approved", "rejected"}, RecordOutcome(d, v)
        PROVE  RelayTypeOK' /\ WantedOK'
    BY <1>2 DEF RecordOutcome, Between, relayCalls
  <1>3. ASSUME NEW D \in SUBSET ledger, ClearLedger(D) PROVE RelayTypeOK' /\ WantedOK'
    BY <1>3 DEF ClearLedger, relayCalls
  <1>4. ASSUME NEW c \in ToolCalls, NEW d \in Decisions, RequestRelay(c, d)
        PROVE  RelayTypeOK' /\ WantedOK'
    BY <1>4 DEF RequestRelay, StepTo, relayTables
  <1>5. ASSUME NEW c \in ToolCalls, TakeFirst(c) PROVE RelayTypeOK' /\ WantedOK'
    BY <1>5 DEF TakeFirst, Taken, StepTo, HandBack
  <1>6. ASSUME NEW c \in ToolCalls, CheckFirst(c) PROVE RelayTypeOK' /\ WantedOK'
    BY <1>6 DEF CheckFirst, StepTo, HandBack, relayTables
  <1>7. ASSUME NEW c \in ToolCalls, Project(c) PROVE RelayTypeOK' /\ WantedOK'
    BY <1>7 DEF Project, StepTo, HandBack, relayTables
  <1>8. ASSUME NEW c \in ToolCalls, Poll(c) \/ PollLedger(c) \/ StopWaiting(c)
        PROVE  RelayTypeOK' /\ WantedOK'
    BY <1>8 DEF Poll, PollLedger, StopWaiting, Taken, StepTo, relayTables
  <1>9. ASSUME NEW c \in ToolCalls, ClearProjection(c) \/ FinishCall(c) \/ RecordGone(c)
        PROVE  RelayTypeOK' /\ WantedOK'
    BY <1>9 DEF ClearProjection, FinishCall, RecordGone, StepTo, HandBack, relayTables
  <1>10. CASE UNCHANGED relayVars
    BY <1>10 DEF relayVars, relayTables, relayCalls
  <1>. QED
    BY <1>1, <1>2, <1>3, <1>4, <1>5, <1>6, <1>7, <1>8, <1>9, <1>10 DEF RelayNext

-----------------------------------------------------------------------------
(***************************************************************************)
(* Verdicts.                                                               *)
(***************************************************************************)
LEMMA VerdictsInit == RelayInit => \A d \in Decisions : VerdictIn(d)
  BY DEF RelayInit, VerdictIn, Holders, Verdicts

\* The runs give a verdict once, to the table.
LEMMA VerdictsOfRuns ==
  ASSUME RelayInv,
         \/ \E d \in Decisions : \/ AskUser(d) \/ RecordFailure(d) \/ Deregister(d)
                                 \/ \E v \in {"approved", "rejected"} : RecordOutcome(d, v)
         \/ \E D \in SUBSET ledger : ClearLedger(D)
  PROVE  \A d \in Decisions : VerdictIn(d)'
  <1>1. \A e \in Decisions : Holders(e)' = Holders(e) /\ (handed[e])' = handed[e]
    BY DEF AskUser, RecordFailure, Deregister, RecordOutcome, ClearLedger, Holders, relayCalls
  <1>2. UNCHANGED answer
    BY DEF AskUser, RecordFailure, Deregister, RecordOutcome, ClearLedger, relayCalls
  <1> SUFFICES ASSUME NEW e \in Decisions PROVE VerdictIn(e)'
    OBVIOUS
  <1>3. VerdictIn(e)
    BY DEF RelayInv
  <1> USE <1>1, <1>2, <1>3 DEF VerdictIn, Verdicts, RelayInv, RelayTypeOK
  <1>4. ASSUME NEW d \in Decisions, AskUser(d) \/ RecordFailure(d) \/ Deregister(d)
        PROVE  VerdictIn(e)'
    BY <1>4 DEF AskUser, RecordFailure, Deregister
  <1>5. ASSUME NEW d \in Decisions, NEW v \in {"approved", "rejected"}, RecordOutcome(d, v)
        PROVE  VerdictIn(e)'
    <2>1. VerdictIn(d)
      BY DEF RelayInv
    <2>. DEFINE full == {x \in Decisions : outcomes[x] # "none"}
    <2>2. CASE Cardinality(full) >= OutcomeLimit
      <3>1. PICK x \in full : /\ outcomes' = [outcomes EXCEPT ![x] = "none", ![d] = v]
                              /\ evicted' = evicted \cup {x}
        BY <1>5, <2>2 DEF RecordOutcome
      <3>2. x # d
        BY <1>5, <2>1 DEF RecordOutcome
      <3>3. fate' = [fate EXCEPT ![d] = v] /\ fate[d] = "pending"
        BY <1>5 DEF RecordOutcome
      <3>4. CASE e = d
        BY <2>1, <3>1, <3>2, <3>3, <3>4
      <3>5. CASE e = x
        BY <3>1, <3>2, <3>3, <3>5
      <3>6. CASE e # d /\ e # x
        BY <3>1, <3>3, <3>6
      <3>. QED
        BY <3>4, <3>5, <3>6
    <2>3. CASE ~(Cardinality(full) >= OutcomeLimit)
      BY <1>5, <2>1, <2>3 DEF RecordOutcome
    <2>. QED
      BY <2>2, <2>3
  <1>6. ASSUME NEW D \in SUBSET ledger, ClearLedger(D) PROVE VerdictIn(e)'
    BY <1>6 DEF ClearLedger
  <1>. QED
    BY <1>4, <1>5, <1>6

\* A relay takes it out of the table and returns what it took.
LEMMA VerdictsOfRelays ==
  ASSUME RelayInv, NEW c \in ToolCalls,
         \/ \E d \in Decisions : RequestRelay(c, d)
         \/ TakeFirst(c) \/ CheckFirst(c) \/ Project(c) \/ Poll(c) \/ PollLedger(c)
         \/ StopWaiting(c) \/ ClearProjection(c) \/ FinishCall(c) \/ RecordGone(c)
  PROVE  \A d \in Decisions : VerdictIn(d)'
  <1> SUFFICES ASSUME NEW e \in Decisions PROVE VerdictIn(e)'
    OBVIOUS
  <1>1. VerdictIn(e)
    BY DEF RelayInv
  <1>2. RelayTypeOK /\ WantedOK
    BY DEF RelayInv
  <1>3. CASE \/ \E d \in Decisions : RequestRelay(c, d)
             \/ CheckFirst(c) \/ Project(c) \/ PollLedger(c) \/ StopWaiting(c) \/ FinishCall(c) \/ RecordGone(c)
    <2>1. UNCHANGED <<fate, outcomes, evicted>>
      BY <1>3 DEF RequestRelay, CheckFirst, Project, PollLedger, StopWaiting, FinishCall,
         RecordGone, relayTables
    <2>2. handed'[e] = handed[e]
      BY <1>3, <1>2 DEF RequestRelay, CheckFirst, Project, PollLedger, StopWaiting, FinishCall,
                        RecordGone, HandBack, Verdicts
    <2>3. \A b \in ToolCalls :
            (wanted'[b] = e /\ answer'[b] \in Verdicts) <=> (wanted[b] = e /\ answer[b] \in Verdicts)
      <3>1. CASE \E d \in Decisions : RequestRelay(c, d)
        BY <3>1, <1>2 DEF RequestRelay, RelayTypeOK, WantedOK, Verdicts
      <3>2. CASE CheckFirst(c) \/ Project(c)
        BY <3>2, <1>2, NoDecisionAssumption
           DEF CheckFirst, Project, HandBack, StepTo, RelayTypeOK, WantedOK, Verdicts
      <3>3. CASE PollLedger(c)
        <4>1. answer[c] = "none"
          BY <3>3, <1>2 DEF PollLedger, RelayTypeOK
        <4>. QED
          BY <3>3, <4>1, <1>2 DEF PollLedger, RelayTypeOK, Verdicts
      <3>4. CASE StopWaiting(c) \/ FinishCall(c) \/ RecordGone(c)
        BY <3>4 DEF StopWaiting, FinishCall, RecordGone
      <3>. QED
        BY <1>3, <3>1, <3>2, <3>3, <3>4
    <2>4. Holders(e)' = Holders(e)
      BY <2>2, <2>3 DEF Holders
    <2>5. \A b \in ToolCalls : wanted[b] = e /\ answer[b] \in Verdicts => answer'[b] = answer[b]
      <3>1. CASE CheckFirst(c) \/ Project(c)
        BY <3>1, <1>2 DEF CheckFirst, Project, HandBack, StepTo, RelayTypeOK, WantedOK, Verdicts
      <3>2. CASE PollLedger(c)
        BY <3>2, <1>2 DEF PollLedger, RelayTypeOK, Verdicts
      <3>. QED
        BY <1>3, <3>1, <3>2 DEF RequestRelay, StopWaiting, FinishCall, RecordGone
    <2>. QED
      BY <1>1, <2>1, <2>2, <2>4, <2>5 DEF VerdictIn, Holders
  <1>4. CASE TakeFirst(c)
    <2>. DEFINE d == wanted[c]
    <2>1. d \in Decisions /\ answer[c] = "none"
      BY <1>4, <1>2 DEF TakeFirst, RelayTypeOK, WantedOK
    <2>2. CASE outcomes[d] = "none"
      BY <1>4, <2>2, <1>1 DEF TakeFirst, VerdictIn, Holders
    <2>3. CASE outcomes[d] # "none"
      <3>1. /\ outcomes' = [outcomes EXCEPT ![d] = "none"]
            /\ wanted' = [wanted EXCEPT ![c] = NoDecision]
            /\ answer' = [answer EXCEPT ![c] = "none"]
            /\ handed' = [handed EXCEPT ![d] = @ \cup {c}]
            /\ UNCHANGED <<fate, evicted>>
        BY <1>4, <2>3, <2>1, <1>2 DEF TakeFirst, Taken, HandBack, RelayTypeOK
      <3>2. CASE e = d
        <4>1. Holders(e) = {} /\ fate[e] \in Verdicts /\ e \notin evicted
          BY <2>3, <3>2, <1>1 DEF VerdictIn
        <4>2. Holders(e)' = {c} /\ handed'[e] = {c}
          BY <3>1, <3>2, <4>1, <2>1, <1>2, NoDecisionAssumption DEF Holders, RelayTypeOK
        <4>. QED
          BY <3>1, <3>2, <4>1, <4>2, <2>1, <1>2 DEF VerdictIn, RelayTypeOK
      <3>3. CASE e # d
        <4>1. handed'[e] = handed[e] /\ outcomes'[e] = outcomes[e]
          BY <3>1, <3>3, <1>2 DEF RelayTypeOK
        <4>2. Holders(e)' = Holders(e)
          BY <3>1, <3>3, <4>1, <2>1, <1>2, NoDecisionAssumption DEF Holders, RelayTypeOK, Verdicts
        <4>3. \A b \in ToolCalls : answer'[b] = answer[b]
          BY <3>1, <2>1, <1>2 DEF RelayTypeOK
        <4>. QED
          BY <1>1, <3>1, <4>1, <4>2, <4>3, <1>2 DEF VerdictIn, Holders, RelayTypeOK
      <3>. QED
        BY <3>2, <3>3
    <2>. QED
      BY <2>2, <2>3
  <1>5. CASE Poll(c)
    <2>. DEFINE d == wanted[c]
    <2>1. d \in Decisions /\ answer[c] = "none"
      BY <1>5, <1>2 DEF Poll, RelayTypeOK
    <2>2. CASE outcomes[d] = "none"
      BY <1>5, <2>2, <1>1 DEF Poll, VerdictIn, Holders
    <2>3. CASE outcomes[d] # "none"
      <3>1. /\ outcomes' = [outcomes EXCEPT ![d] = "none"]
            /\ answer' = [answer EXCEPT ![c] = outcomes[d]]
            /\ UNCHANGED <<fate, evicted, wanted, handed>>
        BY <1>5, <2>3 DEF Poll, Taken
      <3>2. CASE e = d
        <4>1. Holders(e) = {} /\ fate[e] \in Verdicts /\ e \notin evicted /\ outcomes[e] = fate[e]
          BY <2>3, <3>2, <1>1 DEF VerdictIn
        <4>2. Holders(e)' = {c}
          BY <3>1, <3>2, <4>1, <2>1, <1>2 DEF Holders, RelayTypeOK
        <4>. QED
          BY <3>1, <3>2, <4>1, <4>2, <1>2 DEF VerdictIn, RelayTypeOK
      <3>3. CASE e # d
        <4>1. outcomes'[e] = outcomes[e]
          BY <3>1, <3>3, <1>2 DEF RelayTypeOK
        <4>2. Holders(e)' = Holders(e) /\ \A b \in Holders(e) \ handed[e] : answer'[b] = answer[b]
          BY <3>1, <3>3, <1>2 DEF Holders, RelayTypeOK
        <4>. QED
          BY <1>1, <3>1, <4>1, <4>2 DEF VerdictIn
      <3>. QED
        BY <3>2, <3>3
    <2>. QED
      BY <2>2, <2>3
  <1>6. CASE ClearProjection(c)
    <2>. DEFINE d == wanted[c]
    <2>1. /\ wanted' = [wanted EXCEPT ![c] = NoDecision]
          /\ answer' = [answer EXCEPT ![c] = "none"]
          /\ handed' = IF answer[c] \in Verdicts THEN [handed EXCEPT ![d] = @ \cup {c}] ELSE handed
          /\ UNCHANGED <<fate, outcomes, evicted>>
      BY <1>6 DEF ClearProjection, HandBack, relayTables
    <2>2. Holders(e)' = Holders(e)
      BY <2>1, <1>2, NoDecisionAssumption DEF Holders, RelayTypeOK, Verdicts
    <2>3. \A b \in Holders(e) \ handed'[e] : b \notin handed[e] /\ answer'[b] = answer[b]
      BY <2>1, <1>2 DEF Holders, RelayTypeOK, Verdicts
    <2>. QED
      BY <1>1, <2>1, <2>2, <2>3 DEF VerdictIn
  <1>. QED
    BY <1>3, <1>4, <1>5, <1>6

-----------------------------------------------------------------------------
(***************************************************************************)
(* The two looks of a relay.                                               *)
(***************************************************************************)
LEMMA LooksStep ==
  ASSUME RelayInv, [RelayNext]_relayVars
  PROVE  LooksOK'
  <1> USE DEF RelayInv, RelayTypeOK, LooksOK, Between
  <1>1. ASSUME NEW d \in Decisions, AskUser(d) \/ RecordFailure(d) \/ Deregister(d) PROVE LooksOK'
    BY <1>1 DEF AskUser, RecordFailure, Deregister, relayCalls
  <1>2. ASSUME NEW d \in Decisions, NEW v \in {"approved", "rejected"}, RecordOutcome(d, v)
        PROVE  LooksOK'
    BY <1>2 DEF RecordOutcome, relayCalls
  <1>3. ASSUME NEW D \in SUBSET ledger, ClearLedger(D) PROVE LooksOK'
    BY <1>3 DEF ClearLedger, relayCalls
  <1>4. ASSUME NEW c \in ToolCalls, \E d \in Decisions : RequestRelay(c, d) PROVE LooksOK'
    BY <1>4 DEF RequestRelay, StepTo, relayTables
  <1>5. ASSUME NEW c \in ToolCalls, TakeFirst(c) \/ Poll(c) PROVE LooksOK'
    BY <1>5 DEF TakeFirst, Poll, Taken, StepTo, HandBack
  <1>6. ASSUME NEW c \in ToolCalls, CheckFirst(c) \/ PollLedger(c) PROVE LooksOK'
    BY <1>6 DEF CheckFirst, PollLedger, StepTo, HandBack, relayTables
  <1>7. ASSUME NEW c \in ToolCalls, Project(c) \/ StopWaiting(c) \/ ClearProjection(c)
        PROVE  LooksOK'
    BY <1>7 DEF Project, StopWaiting, ClearProjection, StepTo, HandBack, relayTables
  <1>8. ASSUME NEW c \in ToolCalls, FinishCall(c) \/ RecordGone(c) PROVE LooksOK'
    BY <1>8 DEF FinishCall, RecordGone, relayTables
  <1>9. CASE UNCHANGED relayVars
    BY <1>9 DEF relayVars, relayTables, relayCalls
  <1>. QED
    BY <1>1, <1>2, <1>3, <1>4, <1>5, <1>6, <1>7, <1>8, <1>9 DEF RelayNext

-----------------------------------------------------------------------------
(***************************************************************************)
(* Projections.                                                            *)
(***************************************************************************)
LEMMA ProjectionStep ==
  ASSUME RelayTypeOK, ProjectionCleared, [RelayNext]_relayVars
  PROVE  ProjectionCleared'
  <1> USE DEF ProjectionCleared, RelayTypeOK, RelaySteps
  <1>1. CASE UNCHANGED relayCalls
    BY <1>1 DEF relayCalls
  <1>2. ASSUME NEW c \in ToolCalls, \E d \in Decisions : RequestRelay(c, d) PROVE ProjectionCleared'
    BY <1>2 DEF RequestRelay, StepTo
  <1>3. ASSUME NEW c \in ToolCalls, TakeFirst(c) \/ CheckFirst(c) PROVE ProjectionCleared'
    BY <1>3 DEF TakeFirst, CheckFirst, StepTo, HandBack
  <1>4. ASSUME NEW c \in ToolCalls, Project(c) PROVE ProjectionCleared'
    BY <1>4 DEF Project, StepTo, HandBack
  <1>5. ASSUME NEW c \in ToolCalls, Poll(c) \/ PollLedger(c) \/ StopWaiting(c) PROVE ProjectionCleared'
    BY <1>5 DEF Poll, PollLedger, StopWaiting, StepTo
  <1>6. ASSUME NEW c \in ToolCalls, ClearProjection(c) \/ FinishCall(c) \/ RecordGone(c)
        PROVE  ProjectionCleared'
    BY <1>6 DEF ClearProjection, FinishCall, RecordGone, StepTo, HandBack
  <1>. QED
    BY <1>1, <1>2, <1>3, <1>4, <1>5, <1>6
       DEF RelayNext, relayVars, AskUser, RecordFailure, Deregister, RecordOutcome, ClearLedger

-----------------------------------------------------------------------------
LEMMA RelayInvInit == RelayInit => RelayInv
  BY RelayTypesInit, VerdictsInit DEF RelayInv, RelayInit, ProjectionCleared, LooksOK

LEMMA RelayInvStep == RelayInv /\ [RelayNext]_relayVars => RelayInv'
  <1> SUFFICES ASSUME RelayInv, [RelayNext]_relayVars PROVE RelayInv'
    OBVIOUS
  <1>1. RelayTypeOK' /\ WantedOK'
    BY RelayTypesStep DEF RelayInv
  <1>2. ProjectionCleared' /\ LooksOK'
    BY ProjectionStep, LooksStep DEF RelayInv
  <1>3. \A d \in Decisions : VerdictIn(d)'
    <2>1. CASE UNCHANGED relayVars
      BY <2>1 DEF RelayInv, VerdictIn, Holders, relayVars, relayTables, relayCalls
    <2>. QED
      BY <2>1, VerdictsOfRuns, VerdictsOfRelays DEF RelayNext
  <1>. QED
    BY <1>1, <1>2, <1>3 DEF RelayInv

LEMMA RelayInvariant == RelaySpec => []RelayInv
  BY RelayInvInit, RelayInvStep, PTL DEF RelaySpec

-----------------------------------------------------------------------------
\* The variables keep their types, and an answer ends the wait of a relay.
THEOREM RelayTypes == RelaySpec => []RelayTypeOK
  <1>1. RelayInv => RelayTypeOK
    BY DEF RelayInv
  <1>. QED
    BY <1>1, RelayInvariant, PTL

\* A verdict is in the table, or evicted, or with exactly one relay, whatever the limit of
\* the table and however many relays poll for it, and a relay between whose looks it did
\* not come is not told that its decision has gone while the verdict is in the table
\* (tool_confirmation_outcome.go).
THEOREM RelayConservesVerdicts == RelaySpec => []VerdictConserved
  <1>1. RelayInv => VerdictConserved
    <2> SUFFICES ASSUME RelayInv, NEW d \in Decisions
                 PROVE  /\ outcomes[d] \in {"none", fate[d]}
                        /\ \A c \in Holders(d) \ handed[d] : answer[c] = fate[d]
                        /\ fate[d] \in Verdicts =>
                             (IF outcomes[d] # "none" THEN 1 ELSE 0)
                               + (IF d \in evicted THEN 1 ELSE 0) + Cardinality(Holders(d)) = 1
                        /\ \/ Expiring(d) \subseteq passed \/ fate[d] = "closed"
                           \/ d \in evicted \/ Holders(d) # {}
      BY DEF VerdictConserved
    <2>1. VerdictIn(d)
      BY DEF RelayInv
    <2>2. Cardinality({}) = 0 /\ \A c \in ToolCalls : Cardinality({c}) = 1
      BY FS_EmptySet, FS_Singleton
    <2>3. /\ outcomes[d] \in {"none", fate[d]}
          /\ \A c \in Holders(d) \ handed[d] : answer[c] = fate[d]
          /\ fate[d] \in Verdicts =>
               (IF outcomes[d] # "none" THEN 1 ELSE 0) + (IF d \in evicted THEN 1 ELSE 0)
                 + Cardinality(Holders(d)) = 1
      BY <2>1, <2>2 DEF VerdictIn
    <2>4. ASSUME NEW c \in Expiring(d), c \notin passed, fate[d] # "closed"
          PROVE  d \in evicted \/ Holders(d) # {}
      <3>1. c \in Between(d) /\ d \notin ledger
        BY DEF Expiring
      <3>2. outcomes[d] = "none" /\ fate[d] \in Verdicts
        BY <3>1, <2>4, NoDecisionAssumption
           DEF RelayInv, RelayTypeOK, WantedOK, LooksOK, Between
      <3>. QED
        BY <2>1, <3>2 DEF VerdictIn
    <2>. QED
      BY <2>3, <2>4
  <1>. QED
    BY <1>1, RelayInvariant, PTL

\* The decision a relay shows on a part goes when the relay ends, on every way out of its
\* wait (tool_confirmation_bridge.go: RelayToolConfirmation).
THEOREM RelayClearsProjection == RelaySpec => []ProjectionCleared
  <1>1. RelayInv => ProjectionCleared
    BY DEF RelayInv
  <1>. QED
    BY <1>1, RelayInvariant, PTL
=============================================================================
