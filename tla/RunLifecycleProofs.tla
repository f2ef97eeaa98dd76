------------------------- MODULE RunLifecycleProofs -------------------------
(***************************************************************************)
(* Proofs about RunLifecycle, for any runs, submitters and decisions, any  *)
(* inbox capacity and any set of crash points.                             *)
(***************************************************************************)
EXTENDS RunLifecycle, FiniteSetTheorems, TLAPS

\* What the goroutine holds while it applies a confirmation.
Applying == {"applying", "deregister", "record", "saveapplied"}
HandOK ==
    \A r \in Runs : pc[r] \in Applying => hand[r] \in Clients /\ ask[hand[r]] \in Decisions

Typed == TypeOK /\ HandOK

LEMMA EventFacts ==
    /\ Stop \in Event /\ Ready \in Event
    /\ \A c \in Clients : Submission(c) \in Event
    /\ \A e \in Event : e.kind = "confirm" => e.by \in Clients
BY DEF Stop, Ready, Submission, Event

\* The goroutine is somewhere where it holds no submission.
Elsewhere(r) ==
    /\ \E p \in Positions \ Applying : pc' = [pc EXCEPT ![r] = p]
    /\ ControlTypes'

LEMMA Moves ==
    ASSUME ControlTypes, NEW r \in Runs, NEW from \in Positions,
           NEW to \in Positions \ Applying, Moving(r, from, to)
    PROVE  Elsewhere(r)
BY DEF ControlTypes, Moving, Goto, ending, Elsewhere

LEMMA Ends ==
    ASSUME ControlTypes, NEW r \in Runs, NEW from \in Positions, NEW s \in Terminal,
           Ending(r, from, s)
    PROVE  Elsewhere(r)
BY DEF ControlTypes, Ending, Goto, Elsewhere, Positions, Settling, Applying, Terminal

LEMMA SaveFails ==
    ASSUME ControlTypes, NEW r \in Runs, NEW from \in Positions, SaveFailed(r, from)
    PROVE  Elsewhere(r)
<1>1. CASE Moving(r, from, "retry")
  BY <1>1, Moves DEF Positions, Working, Applying
<1>2. CASE Ending(r, from, "failed")
  BY <1>2, Ends DEF Terminal
<1> QED BY <1>1, <1>2 DEF SaveFailed

LEMMA BatchFails ==
    ASSUME ControlTypes, NEW r \in Runs, NEW from \in Positions, BatchFailed(r, from)
    PROVE  Elsewhere(r)
<1>1. CASE Ending(r, from, "cancelled")
  BY <1>1, Ends DEF Terminal
<1>2. CASE SaveFailed(r, from)
  BY <1>2, SaveFails
<1> QED BY <1>1, <1>2 DEF BatchFailed

LEMMA Aborts ==
    ASSUME TypeOK, NEW r \in Runs, NEW from \in Positions, Abort(r, from)
    PROVE  /\ Elsewhere(r)
           /\ stop' \in [Runs -> BOOLEAN] /\ deferred' \in [Runs -> Seq(Event)]
           /\ after' \in [Runs -> {"loop", "abort"}]
<1>1. Moving(r, from, "drain")
  BY DEF Abort
<1>2. Elsewhere(r)
  BY <1>1, Moves DEF Positions, Working, Applying, TypeOK
<1> QED BY <1>2 DEF Abort, TypeOK, QueueTypes

\* A step of the goroutine that changes its position and its ending only.
LEMMA DataKept ==
    ASSUME Typed, NEW r \in Runs, Elsewhere(r), UNCHANGED data
    PROVE  Typed'
<1> USE DEF data, identity, locals, layer, trying, books, clients
<1>1. RecordTypes' /\ QueueTypes' /\ BatchTypes' /\ BookTypes'
  BY DEF Typed, TypeOK, RecordTypes, QueueTypes, BatchTypes, BookTypes
<1>2. HandOK'
  BY DEF Typed, TypeOK, HandOK, Elsewhere, ControlTypes
<1> QED BY <1>1, <1>2 DEF Typed, TypeOK, Elsewhere

LEMMA TypedInit == Init => Typed
<1> SUFFICES ASSUME Init PROVE Typed
  OBVIOUS
<1>1. ControlTypes
  BY DEF Init, ControlTypes, Positions
<1>2. RecordTypes /\ QueueTypes
  BY BoundsAssumption DEF Init, RecordTypes, QueueTypes
<1>3. BatchTypes /\ BookTypes
  BY DEF Init, BatchTypes, BookTypes
<1>4. HandOK
  BY DEF Init, HandOK, Applying
<1> QED BY <1>1, <1>2, <1>3, <1>4 DEF Typed, TypeOK

LEMMA StartingTyped ==
    ASSUME Typed, NEW r \in Runs, Starting(r)
    PROVE  Typed'
<1> USE DEF Positions, Working, Settling, Applying
<1>1. CASE StartRun(r)
  <2>1. Elsewhere(r)
    BY <1>1, Moves DEF StartRun, Typed, TypeOK
  <2> QED BY <1>1, <2>1 DEF StartRun, Typed, TypeOK, RecordTypes, QueueTypes, BatchTypes,
        BookTypes, HandOK, Elsewhere, ControlTypes, Active,
        locals, layer, trying, books, clients
<1>2. CASE MarkRunning(r)
  <2>1. Elsewhere(r)
    BY <1>2, Moves DEF MarkRunning, Typed, TypeOK
  <2> QED BY <1>2, <2>1 DEF MarkRunning, Typed, TypeOK, RecordTypes, QueueTypes, BatchTypes,
        BookTypes, HandOK, Elsewhere, ControlTypes, Active, identity,
        locals, layer, trying, books, clients
<1>3. CASE Loaded(r)
  <2>1. Elsewhere(r)
    BY <1>3, Moves DEF Loaded, Typed, TypeOK
  <2> QED BY <1>3, <2>1, DataKept DEF Loaded
<1>4. CASE LoadFailed(r)
  <2>1. Elsewhere(r)
    BY <1>4 DEF LoadFailed, Goto, Elsewhere, Typed, TypeOK, ControlTypes, Terminal
  <2> QED BY <1>4, <2>1 DEF LoadFailed, Typed, TypeOK, RecordTypes, QueueTypes, BatchTypes,
        BookTypes, HandOK, Elsewhere, ControlTypes, identity,
        locals, layer, trying, books, clients
<1>5. CASE Compact(r)
  <2>1. Elsewhere(r)
    <3>1. CASE Ending(r, "compact", "completed") \/ Ending(r, "compact", "cancelled")
      BY <3>1, Ends DEF Terminal, Typed, TypeOK
    <3>2. CASE Goto(r, "compact", "claimbare")
      BY <1>5, <3>2, Ends DEF Compact, Goto, Ending, Elsewhere, Typed, TypeOK, ControlTypes, Terminal
    <3> QED BY <1>5, <3>1, <3>2 DEF Compact
  <2> QED BY <1>5, <2>1, DataKept DEF Compact
<1> QED BY <1>1, <1>2, <1>3, <1>4, <1>5 DEF Starting

LEMMA DrainingTyped ==
    ASSUME Typed, NEW r \in Runs, Draining(r)
    PROVE  Typed'
<1> USE DEF Positions, Working, Settling, Applying
<1> USE DEF identity, layer, trying, books
<1>1. CASE DrainTake(r)
  <2>1. Tail(inbox[r]) \in Seq(Event) /\ Head(inbox[r]) \in Event
    BY <1>1 DEF DrainTake, Typed, TypeOK, QueueTypes
  <2>2. ControlTypes' /\ RecordTypes' /\ BatchTypes' /\ HandOK'
    BY <1>1 DEF DrainTake, Typed, TypeOK, ControlTypes, RecordTypes, BatchTypes, HandOK, ending
  <2>3. Append(deferred[r], Head(inbox[r])) \in Seq(Event)
    BY <2>1 DEF Typed, TypeOK, QueueTypes
  <2>4. /\ inbox' = [inbox EXCEPT ![r] = Tail(inbox[r])] /\ UNCHANGED <<after, signals>>
        /\ \/ deferred' = deferred
           \/ deferred' = [deferred EXCEPT ![r] = Append(deferred[r], Head(inbox[r]))]
        /\ stop' = stop \/ stop' = [stop EXCEPT ![r] = TRUE]
    BY <1>1 DEF DrainTake, Defer
  <2>5. QueueTypes'
    BY <2>1, <2>3, <2>4 DEF Typed, TypeOK, QueueTypes
  <2>6. BookTypes'
    BY <1>1 DEF DrainTake, Defer, Told, Typed, TypeOK, BookTypes
  <2> QED BY <2>2, <2>5, <2>6 DEF Typed, TypeOK
<1>2. CASE DrainEmpty(r)
  <2>1. Elsewhere(r)
    BY <1>2, Moves DEF DrainEmpty, Typed, TypeOK
  <2> QED BY <1>2, <2>1, DataKept DEF DrainEmpty
<1>3. CASE Requeue(r)
  <2>1. Tail(deferred[r]) \in Seq(Event) /\ Head(deferred[r]) \in Event
    BY <1>3 DEF Requeue, Typed, TypeOK, QueueTypes
  <2>2. QueueTypes'
    BY <1>3, <2>1 DEF Requeue, Enqueue, Typed, TypeOK, QueueTypes
  <2> QED BY <1>3, <2>2 DEF Requeue, Typed, TypeOK, ControlTypes, RecordTypes, BatchTypes,
        BookTypes, HandOK, ending, clients
<1>4. CASE Drained(r)
  <2>1. Elsewhere(r)
    <3>1. CASE Ending(r, "requeue", "cancelled")
      BY <3>1, Ends DEF Terminal, Typed, TypeOK
    <3>2. CASE Moving(r, "requeue", "flush")
      BY <3>2, Moves DEF Typed, TypeOK
    <3>3. CASE BatchFailed(r, "requeue")
      BY <3>3, BatchFails DEF Typed, TypeOK
    <3> QED BY <1>4, <3>1, <3>2, <3>3 DEF Drained
  <2> QED BY <1>4, <2>1 DEF Drained, Typed, TypeOK, RecordTypes, QueueTypes, BatchTypes,
        BookTypes, HandOK, Elsewhere, ControlTypes, clients
<1> QED BY <1>1, <1>2, <1>3, <1>4 DEF Draining

LEMMA ConversingTyped ==
    ASSUME Typed, NEW r \in Runs, Conversing(r)
    PROVE  Typed'
<1> USE DEF Positions, Working, Settling, Applying
<1> USE DEF identity, clients
<1>1. CASE Flush(r)
  <2>1. Elsewhere(r)
    BY <1>1, Moves, SaveFails DEF Flush, Typed, TypeOK
  <2> QED BY <1>1, <2>1, DataKept DEF Flush
<1>2. CASE ModelReturns(r)
  <2>1. Elsewhere(r)
    <3>1. CASE Ending(r, "model", "cancelled") \/ Ending(r, "model", "failed")
      BY <3>1, Ends DEF Terminal, Typed, TypeOK
    <3>2. CASE Moving(r, "model", "reply")
      BY <3>2, Moves DEF Typed, TypeOK
    <3> QED BY <1>2, <3>1, <3>2 DEF ModelReturns
  <2> QED BY <1>2, <2>1, DataKept DEF ModelReturns
<1>3. CASE SaveReply(r)
  <2>1. Elsewhere(r)
    BY <1>3, Moves, SaveFails DEF SaveReply, Typed, TypeOK
  <2>2. persisted' \in [Runs -> BOOLEAN]
    BY <1>3 DEF SaveReply, Typed, TypeOK, RecordTypes
  <2> QED BY <1>3, <2>1, <2>2 DEF SaveReply, Typed, TypeOK, RecordTypes, QueueTypes,
        BatchTypes, BookTypes, HandOK, Elsewhere, ControlTypes, locals, layer, books
<1>4. CASE LastFlush(r)
  <2>1. Elsewhere(r)
    <3>1. CASE Ending(r, "lastflush", "completed")
      BY <3>1, Ends DEF Terminal, Typed, TypeOK
    <3>2. CASE Moving(r, "lastflush", "drain")
      BY <3>2, Moves DEF Typed, TypeOK
    <3>3. CASE SaveFailed(r, "lastflush")
      BY <3>3, SaveFails DEF Typed, TypeOK
    <3> QED BY <1>4, <3>1, <3>2, <3>3 DEF LastFlush
  <2> QED BY <1>4, <2>1, DataKept DEF LastFlush
<1>5. CASE PreparePlan(r)
  <2>1. Elsewhere(r)
    BY <1>5, Moves DEF PreparePlan, Typed, TypeOK
  <2> QED BY <1>5, <2>1 DEF PreparePlan, Register, Typed, TypeOK, RecordTypes, QueueTypes,
        BatchTypes, BookTypes, HandOK, Elsewhere, ControlTypes, locals, trying
<1>6. CASE AnnouncePlan(r)
  <2>1. Elsewhere(r)
    BY <1>6, Moves DEF AnnouncePlan, Typed, TypeOK
  <2> QED BY <1>6, <2>1 DEF AnnouncePlan, Typed, TypeOK, RecordTypes, QueueTypes,
        BatchTypes, BookTypes, HandOK, Elsewhere, ControlTypes, locals, layer, trying
<1>7. CASE Prepared(r)
  <2>1. Elsewhere(r)
    <3>1. CASE Moving(r, "prepare", IF plans[r] = {} THEN "execute" ELSE "await")
      BY <3>1, Moves DEF Typed, TypeOK
    <3>2. CASE BatchFailed(r, "prepare")
      BY <3>2, BatchFails DEF Typed, TypeOK
    <3> QED BY <1>7, <3>1, <3>2 DEF Prepared
  <2> QED BY <1>7, <2>1 DEF Prepared, Typed, TypeOK, RecordTypes, QueueTypes,
        BatchTypes, BookTypes, HandOK, Elsewhere, ControlTypes, locals, layer, books
<1>8. CASE Execute(r)
  <2>1. Elsewhere(r)
    BY <1>8, Moves, BatchFails DEF Execute, Typed, TypeOK
  <2> QED BY <1>8, <2>1, DataKept DEF Execute
<1>9. CASE EndBatch(r)
  <2>1. Elsewhere(r)
    <3>1. CASE Ending(r, "endbatch", "cancelled")
      BY <3>1, Ends DEF Terminal, Typed, TypeOK
    <3>2. CASE Moving(r, "endbatch", "drain") \/ SaveFailed(r, "endbatch")
      BY <3>2, Moves, SaveFails DEF Typed, TypeOK
    <3> QED BY <1>9, <3>1, <3>2 DEF EndBatch
  <2> QED BY <1>9, <2>1, DataKept DEF EndBatch
<1>10. CASE Retry(r)
  <2>1. Elsewhere(r)
    <3>1. CASE Moving(r, "retry", "drain")
      BY <3>1, Moves DEF Typed, TypeOK
    <3>2. CASE Ending(r, "retry", "failed")
      BY <3>2, Ends DEF Terminal, Typed, TypeOK
    <3> QED BY <1>10, <3>1, <3>2 DEF Retry
  <2>2. attempts' \in [Runs -> 0..MaxRetries]
    BY <1>10, BoundsAssumption DEF Retry, MayRetry, Typed, TypeOK, RecordTypes
  <2>3. /\ ledger' \in [Runs -> SUBSET Decisions] /\ plans' \in [Runs -> SUBSET Decisions]
        /\ dropped' \subseteq Decisions
    BY <1>10 DEF Retry, Typed, TypeOK, RecordTypes, BatchTypes, BookTypes
  <2> QED BY <1>10, <2>1, <2>2, <2>3 DEF Retry, Typed, TypeOK, RecordTypes, QueueTypes,
        BatchTypes, BookTypes, HandOK, Elsewhere, ControlTypes, locals
<1> QED
  BY <1>1, <1>2, <1>3, <1>4, <1>5, <1>6, <1>7, <1>8, <1>9, <1>10 DEF Conversing

LEMMA ConfirmingTyped ==
    ASSUME Typed, NEW r \in Runs, Confirming(r)
    PROVE  Typed'
<1> USE DEF Positions, Working, Settling, Applying
<1> USE DEF identity, trying
<1>1. CASE EnterWait(r)
  <2>1. Elsewhere(r)
    <3>1. CASE Moving(r, "await", "wait")
      BY <3>1, Moves DEF Typed, TypeOK
    <3>2. CASE BatchFailed(r, "await")
      BY <3>2, BatchFails DEF Typed, TypeOK
    <3> QED BY <1>1, <3>1, <3>2 DEF EnterWait
  <2>2. status' \in [Runs -> {"none"} \cup Active \cup Terminal]
    BY <1>1 DEF EnterWait, Typed, TypeOK, RecordTypes, Active
  <2> QED BY <1>1, <2>1, <2>2 DEF EnterWait, Typed, TypeOK, RecordTypes, QueueTypes,
        BatchTypes, BookTypes, HandOK, Elsewhere, ControlTypes, locals, layer, books, clients
<1>2. CASE WaitTakesSignal(r)
  <2>1. Tail(inbox[r]) \in Seq(Event)
    BY <1>2 DEF WaitTakesSignal, Typed, TypeOK, QueueTypes
  <2>2. CASE UNCHANGED <<pc, ending, locals>>
    BY <1>2, <2>1, <2>2 DEF WaitTakesSignal, Typed, TypeOK, ControlTypes, RecordTypes,
        QueueTypes, BatchTypes, BookTypes, HandOK, ending, locals, layer, books, clients
  <2>3. CASE Abort(r, "wait")
    <3>1. /\ Elsewhere(r)
          /\ stop' \in [Runs -> BOOLEAN] /\ deferred' \in [Runs -> Seq(Event)]
          /\ after' \in [Runs -> {"loop", "abort"}]
      BY <2>3, Aborts DEF Typed
    <3> QED BY <1>2, <2>1, <3>1 DEF WaitTakesSignal, Typed, TypeOK, ControlTypes, RecordTypes,
          QueueTypes, BatchTypes, BookTypes, HandOK, Elsewhere, layer, books, clients
  <2> QED BY <1>2, <2>2, <2>3 DEF WaitTakesSignal
<1>3. CASE WaitTakesSubmission(r)
  <2> DEFINE e == Head(inbox[r])
  <2>1. /\ Tail(inbox[r]) \in Seq(Event)
        /\ e.by \in Clients
    BY <1>3, EventFacts DEF WaitTakesSubmission, Typed, TypeOK, QueueTypes
  <2>2. CASE Acceptable(r, ask[e.by])
    <3>1. /\ hand' = [hand EXCEPT ![r] = e.by]
          /\ Moving(r, "wait", "applying")
          /\ UNCHANGED <<reply, locals>>
      BY <1>3, <2>2 DEF WaitTakesSubmission
    <3>2. ControlTypes' /\ pc' = [pc EXCEPT ![r] = "applying"]
      BY <3>1 DEF Moving, Goto, ending, Typed, TypeOK, ControlTypes
    <3>3. ask[e.by] \in Decisions
      BY <2>2 DEF Acceptable, Typed, TypeOK, BatchTypes
    <3>4. HandOK'
      BY <1>3, <2>1, <3>1, <3>2, <3>3
      DEF WaitTakesSubmission, Typed, TypeOK, ControlTypes, BatchTypes, HandOK
    <3> QED BY <1>3, <2>1, <3>1, <3>2, <3>4 DEF WaitTakesSubmission, Typed, TypeOK,
          RecordTypes, QueueTypes, BatchTypes, BookTypes, locals, layer, books
  <2>3. CASE ~Acceptable(r, ask[e.by])
    <3>1. reply' = Told(e.by, "rejected") /\ Abort(r, "wait") /\ UNCHANGED hand
      BY <1>3, <2>3 DEF WaitTakesSubmission
    <3>2. /\ Elsewhere(r)
          /\ stop' \in [Runs -> BOOLEAN] /\ deferred' \in [Runs -> Seq(Event)]
          /\ after' \in [Runs -> {"loop", "abort"}]
      BY <3>1, Aborts DEF Typed
    <3> QED BY <1>3, <2>1, <3>1, <3>2 DEF WaitTakesSubmission, Told, Typed, TypeOK,
          ControlTypes, RecordTypes, QueueTypes, BatchTypes, BookTypes, HandOK, Elsewhere,
          layer, books
  <2> QED BY <2>2, <2>3
<1>4. CASE WaitCancelled(r)
  <2>1. /\ Elsewhere(r)
        /\ stop' \in [Runs -> BOOLEAN] /\ deferred' \in [Runs -> Seq(Event)]
        /\ after' \in [Runs -> {"loop", "abort"}]
    BY <1>4, Aborts DEF WaitCancelled, Typed
  <2>2. ControlTypes' /\ HandOK'
    BY <1>4, <2>1 DEF WaitCancelled, Typed, TypeOK, ControlTypes, HandOK, Elsewhere, clients
  <2>3. RecordTypes' /\ BatchTypes' /\ BookTypes'
    BY <1>4, <2>1 DEF WaitCancelled, Typed, TypeOK, RecordTypes, BatchTypes, BookTypes, Elsewhere,
        layer, books, clients
  <2>4. QueueTypes'
    BY <1>4, <2>1 DEF WaitCancelled, Typed, TypeOK, QueueTypes, Elsewhere
  <2> QED BY <2>2, <2>3, <2>4 DEF Typed, TypeOK
<1>5. CASE ApplyConfirmation(r)
  <2>1. ControlTypes' /\ HandOK'
    BY <1>5 DEF ApplyConfirmation, Moving, Goto, ending, clients, Typed, TypeOK, ControlTypes,
        HandOK
  <2> QED BY <1>5, <2>1 DEF ApplyConfirmation, Typed, TypeOK, RecordTypes, QueueTypes,
        BatchTypes, BookTypes, locals, layer, clients
<1>6. CASE ApplyFailed(r)
  <2>1. /\ Elsewhere(r)
        /\ stop' \in [Runs -> BOOLEAN] /\ deferred' \in [Runs -> Seq(Event)]
        /\ after' \in [Runs -> {"loop", "abort"}]
    BY <1>6, Aborts DEF ApplyFailed, Typed
  <2> QED BY <1>6, <2>1 DEF ApplyFailed, Receipt, Told, Typed, TypeOK, ControlTypes,
        RecordTypes, QueueTypes, BatchTypes, BookTypes, HandOK, Elsewhere, layer, books
<1>7. CASE Deregister(r)
  <2>1. ControlTypes' /\ HandOK'
    BY <1>7 DEF Deregister, Moving, Goto, ending, clients, Typed, TypeOK, ControlTypes, HandOK
  <2>2. ask[hand[r]] \in Decisions
    BY <1>7 DEF Deregister, Moving, Goto, Typed, HandOK
  <2> QED BY <1>7, <2>1, <2>2 DEF Deregister, Typed, TypeOK, RecordTypes, QueueTypes,
        BatchTypes, BookTypes, locals, books, clients
<1>8. CASE RecordApplied(r)
  <2>1. ControlTypes' /\ HandOK'
    BY <1>8 DEF RecordApplied, Moving, Goto, ending, clients, Typed, TypeOK, ControlTypes,
        HandOK
  <2>2. /\ owner' \in [Decisions -> Runs \cup {None}]
        /\ ledger' \in [Runs -> SUBSET Decisions] /\ following' \in [Runs -> SUBSET Decisions]
    BY <1>8 DEF RecordApplied, Register, Typed, TypeOK, RecordTypes, BatchTypes, BookTypes
  <2> QED BY <1>8, <2>1, <2>2 DEF RecordApplied, Typed, TypeOK, RecordTypes, QueueTypes,
        BatchTypes, BookTypes, locals, clients
<1>9. CASE SaveApplied(r)
  <2>1. /\ Elsewhere(r)
        /\ stop' \in [Runs -> BOOLEAN] /\ deferred' \in [Runs -> Seq(Event)]
        /\ after' \in [Runs -> {"loop", "abort"}]
    <3>1. CASE Moving(r, "saveapplied", "wait") /\ UNCHANGED locals
      BY <3>1, Moves DEF Typed, TypeOK, QueueTypes, locals
    <3>2. CASE Abort(r, "saveapplied")
      BY <3>2, Aborts DEF Typed
    <3> QED BY <1>9, <3>1, <3>2 DEF SaveApplied
  <2>2. /\ reply' \in [Clients -> {"idle", "waiting", "ok", "rejected", "gaveup"}]
        /\ hand' = [hand EXCEPT ![r] = None]
    BY <1>9 DEF SaveApplied, Receipt, Told, Typed, TypeOK, BatchTypes, BookTypes
  <2>3. visible' \subseteq Decisions
    BY <1>9 DEF SaveApplied, Typed, TypeOK, BatchTypes, BookTypes
  <2> QED BY <1>9, <2>1, <2>2, <2>3 DEF SaveApplied, Typed, TypeOK,
        ControlTypes, RecordTypes, QueueTypes, BatchTypes, BookTypes, HandOK, Elsewhere, layer
<1>10. CASE LayerResolved(r)
  <2>1. Elsewhere(r)
    BY <1>10, Moves DEF LayerResolved, Typed, TypeOK
  <2>2. status' \in [Runs -> {"none"} \cup Active \cup Terminal]
    BY <1>10 DEF LayerResolved, Typed, TypeOK, RecordTypes, Active
  <2> QED BY <1>10, <2>1, <2>2 DEF LayerResolved, Typed, TypeOK, ControlTypes, RecordTypes,
        QueueTypes, BatchTypes, BookTypes, HandOK, Elsewhere, locals, books, clients
<1>11. CASE SaveResolved(r)
  <2>1. Elsewhere(r)
    <3>1. CASE Moving(r, "resolved", IF plans[r] = {} THEN "execute" ELSE "await")
      BY <3>1, Moves DEF Typed, TypeOK
    <3>2. CASE BatchFailed(r, "resolved")
      BY <3>2, BatchFails DEF Typed, TypeOK
    <3> QED BY <1>11, <3>1, <3>2 DEF SaveResolved
  <2> QED BY <1>11, <2>1, DataKept DEF SaveResolved
<1> QED
  BY <1>1, <1>2, <1>3, <1>4, <1>5, <1>6, <1>7, <1>8, <1>9, <1>10, <1>11 DEF Confirming

LEMMA ClosingTyped ==
    ASSUME Typed, NEW r \in Runs, Closing(r)
    PROVE  Typed'
<1> USE DEF Positions, Working, Settling, Applying
<1>1. CASE Claim(r)
  <2>1. Elsewhere(r)
    <3>1. CASE Unsettled(r)
      <4>1. /\ pc[r] \in {"claim", "claimbare"}
            /\ Moving(r, pc[r], IF pc[r] = "claim" THEN "wrapup" ELSE "publish")
        BY <1>1, <3>1 DEF Claim
      <4> QED BY <4>1, Moves DEF Typed, TypeOK
    <3>2. CASE ~Unsettled(r)
      BY <1>1, <3>2, Moves DEF Claim, Typed, TypeOK
    <3> QED BY <3>1, <3>2
  <2>2. status' \in [Runs -> {"none"} \cup Active \cup Terminal]
    BY <1>1 DEF Claim, Typed, TypeOK, ControlTypes, RecordTypes
  <2> QED BY <1>1, <2>1, <2>2 DEF Claim, Typed, TypeOK, ControlTypes, RecordTypes, QueueTypes,
        BatchTypes, BookTypes, HandOK, Elsewhere, identity, locals, layer, trying, books,
        clients
<1>2. CASE WrapUp(r)
  <2>1. Elsewhere(r)
    BY <1>2, Moves DEF WrapUp, Typed, TypeOK
  <2> QED BY <1>2, <2>1, DataKept DEF WrapUp
<1>3. CASE Publish(r)
  <2> DEFINE v == IF r \in registered THEN status[r] ELSE "none"
  <2>1. Append(events[r], v) \in Seq({"none"} \cup Active \cup Terminal)
    BY DEF Typed, TypeOK, ControlTypes, RecordTypes
  <2>2. Elsewhere(r)
    BY <1>3, <2>1 DEF Publish, Goto, Elsewhere, Typed, TypeOK, ControlTypes
  <2> QED BY <1>3, <2>2 DEF Publish, Typed, TypeOK, ControlTypes, RecordTypes, QueueTypes,
        BatchTypes, BookTypes, HandOK, Elsewhere, identity, locals, layer, trying, books,
        clients
<1>4. CASE FinalizeRun(r)
  <2>1. Elsewhere(r)
    BY <1>4 DEF FinalizeRun, Elsewhere, Typed, TypeOK, ControlTypes, Terminal
  <2>2. registered' \subseteq Runs
    BY <1>4 DEF FinalizeRun, Typed, TypeOK, RecordTypes
  <2>3. reply' \in [Clients -> {"idle", "waiting", "ok", "rejected", "gaveup"}]
    BY <1>4 DEF FinalizeRun, ClearConfirmations, Typed, TypeOK, BookTypes
  <2> QED BY <1>4, <2>1, <2>2, <2>3 DEF FinalizeRun, ClearConfirmations, Typed, TypeOK,
        ControlTypes, RecordTypes, QueueTypes, BatchTypes, BookTypes, HandOK, Elsewhere,
        locals, trying, books
<1> QED BY <1>1, <1>2, <1>3, <1>4 DEF Closing

LEMMA PanicTyped ==
    ASSUME Typed, NEW r \in Runs, Panic(r)
    PROVE  Typed'
<1> USE DEF Positions, Working, Settling, Applying
<1>1. Elsewhere(r)
  <2>1. CASE Ending(r, pc[r], "failed")
    BY <2>1, Ends DEF Typed, TypeOK, ControlTypes, Terminal
  <2>2. CASE pc[r] = "wrapup"
    BY <2>2 DEF Panic, Goto, Elsewhere, Typed, TypeOK, ControlTypes
  <2> QED BY <2>1, <2>2 DEF Panic
<1>2. /\ deferred' \in [Runs -> Seq(Event)] /\ stop' \in [Runs -> BOOLEAN]
      /\ after' \in [Runs -> {"loop", "abort"}] /\ hand' \in [Runs -> Clients \cup {None}]
  BY DEF Panic, Typed, TypeOK, QueueTypes, BatchTypes
<1> QED BY <1>1, <1>2 DEF Panic, Typed, TypeOK, ControlTypes, RecordTypes, QueueTypes,
      BatchTypes, BookTypes, HandOK, Elsewhere, identity, layer, trying, books, clients

LEMMA Enqueues ==
    ASSUME QueueTypes, NEW r \in Runs, NEW e \in Event, Enqueue(r, e)
    PROVE  inbox' \in [Runs -> Seq(Event)]
BY DEF QueueTypes, Enqueue

LEMMA EnvironmentTyped ==
    ASSUME Typed, Environment
    PROVE  Typed'
<1> USE DEF identity, ending, locals, layer, trying, books, clients
<1>1. ASSUME NEW r \in Runs, CancelRun(r) \/ NotifyAsyncReady(r) PROVE Typed'
  <2>1. inbox' \in [Runs -> Seq(Event)]
    BY <1>1, Enqueues, EventFacts DEF CancelRun, NotifyAsyncReady, Typed, TypeOK
  <2>2. signals' \in 0..MaxSignals
    BY <1>1, BoundsAssumption DEF CancelRun, NotifyAsyncReady, Typed, TypeOK, QueueTypes
  <2>3. cancelled' \in [Runs -> BOOLEAN]
    BY <1>1 DEF CancelRun, NotifyAsyncReady, Typed, TypeOK, RecordTypes
  <2> QED BY <1>1, <2>1, <2>2, <2>3 DEF CancelRun, NotifyAsyncReady, Typed, TypeOK,
        ControlTypes, RecordTypes, QueueTypes, BatchTypes, BookTypes, HandOK
<1>2. ASSUME NEW c \in Clients, NEW d \in Decisions, SubmitToolConfirmation(c, d)
      PROVE Typed'
  <2>1. inbox' \in [Runs -> Seq(Event)]
    BY <1>2, Enqueues, EventFacts DEF SubmitToolConfirmation, Typed, TypeOK, RecordTypes,
        QueueTypes
  <2>2. /\ ask' = [ask EXCEPT ![c] = d]
        /\ reply' \in [Clients -> {"idle", "waiting", "ok", "rejected", "gaveup"}]
    BY <1>2 DEF SubmitToolConfirmation, Typed, TypeOK, BookTypes
  <2>3. HandOK'
    BY <1>2, <2>2 DEF SubmitToolConfirmation, Typed, TypeOK, BookTypes, HandOK
  <2> QED BY <1>2, <2>1, <2>2, <2>3 DEF SubmitToolConfirmation, Typed, TypeOK,
        ControlTypes, RecordTypes, QueueTypes, BatchTypes, BookTypes
<1>3. ASSUME NEW c \in Clients, SubmitterLeaves(c) PROVE Typed'
  BY <1>3 DEF SubmitterLeaves, Typed, TypeOK, ControlTypes, RecordTypes, QueueTypes,
      BatchTypes, BookTypes, HandOK
<1> QED BY <1>1, <1>2, <1>3 DEF Environment

LEMMA TypedStep == Typed /\ [Next]_vars => Typed'
<1> SUFFICES ASSUME Typed, [Next]_vars PROVE Typed'
  OBVIOUS
<1>1. ASSUME NEW r \in Runs, RunStep(r) PROVE Typed'
  BY <1>1, StartingTyped, DrainingTyped, ConversingTyped, ConfirmingTyped, ClosingTyped
  DEF RunStep
<1>2. ASSUME NEW r \in Runs, Panic(r) PROVE Typed'
  BY <1>2, PanicTyped
<1>3. CASE Environment
  BY <1>3, EnvironmentTyped
<1>4. CASE UNCHANGED vars
  BY <1>4 DEF vars, data, identity, ending, locals, layer, trying, books, clients, Typed,
      TypeOK, ControlTypes, RecordTypes, QueueTypes, BatchTypes, BookTypes, HandOK
<1> QED BY <1>1, <1>2, <1>3, <1>4 DEF Next

\* Every variable keeps its type, and the submission that is being applied is one
\* somebody made for a decision (waitForConfirmations never applies an empty hand).
THEOREM Typing == Spec => []TypeOK
<1>1. Typed => TypeOK
  BY DEF Typed
<1> QED BY <1>1, TypedInit, TypedStep, PTL DEF Spec
-----------------------------------------------------------------------------
(* Where a run stands in its life, by the position of its goroutine. *)

Settled(r) == status[r] \in Terminal /\ events[r] = <<status[r]>>

Life(r) ==
    /\ pc[r] = "none" => status[r] = "none" /\ events[r] = <<>>
    /\ pc[r] \in {"created", "load", "compact", "claimbare"} \cup Working =>
          status[r] \in Active /\ events[r] = <<>>
    /\ pc[r] \in {"claim", "claimbare"} => intent[r] \in Terminal
    /\ pc[r] = "claim" => Settled(r) \/ (status[r] \in Active /\ events[r] = <<>>)
    /\ pc[r] \in {"wrapup", "publish"} => status[r] \in Terminal /\ events[r] = <<>>
    /\ pc[r] \in {"finalize", "done"} => Settled(r)
    /\ pc[r] \notin {"none", "done"} => r \in registered

\* The strengthening of TerminalEventOnce that every step preserves.
LifeOK == \A r \in Runs : Life(r)

LEMMA StartingLife ==
    ASSUME Typed, LifeOK, NEW r \in Runs, Starting(r)
    PROVE  LifeOK'
<1> USE DEF Typed, TypeOK, ControlTypes, RecordTypes, LifeOK, Life, Settled,
            Working, Active, Terminal, Goto, Moving, Ending,
            identity, ending, locals, layer, trying, books, clients, data
<1>1. CASE StartRun(r) BY <1>1 DEF StartRun
<1>2. CASE MarkRunning(r) BY <1>2 DEF MarkRunning
<1>3. CASE Loaded(r) BY <1>3 DEF Loaded
<1>4. CASE LoadFailed(r) BY <1>4 DEF LoadFailed
<1>5. CASE Compact(r) BY <1>5 DEF Compact
<1> QED BY <1>1, <1>2, <1>3, <1>4, <1>5 DEF Starting

LEMMA DrainingLife ==
    ASSUME Typed, LifeOK, NEW r \in Runs, Draining(r)
    PROVE  LifeOK'
<1> USE DEF Typed, TypeOK, ControlTypes, RecordTypes, LifeOK, Life, Settled,
            Working, Active, Terminal, Goto, Moving, Ending,
            identity, ending, locals, layer, trying, books, clients, data
<1>1. CASE DrainTake(r) BY <1>1 DEF DrainTake, Told, Defer
<1>2. CASE DrainEmpty(r) BY <1>2 DEF DrainEmpty
<1>3. CASE Requeue(r) BY <1>3 DEF Requeue, Enqueue, HasRoom
<1>4. CASE Drained(r) BY <1>4 DEF Drained, BatchFailed, SaveFailed, Retryable
<1> QED BY <1>1, <1>2, <1>3, <1>4 DEF Draining

LEMMA ConversingLife ==
    ASSUME Typed, LifeOK, NEW r \in Runs, Conversing(r)
    PROVE  LifeOK'
<1> USE DEF Typed, TypeOK, ControlTypes, RecordTypes, LifeOK, Life, Settled,
            Working, Active, Terminal, Goto, Moving, Ending,
            identity, ending, locals, layer, trying, books, clients, data
<1>1. CASE Flush(r) BY <1>1 DEF Flush, SaveFailed, Retryable
<1>2. CASE ModelReturns(r) BY <1>2 DEF ModelReturns
<1>3. CASE SaveReply(r)
  <2>1. \/ \E to \in {"prepare", "lastflush", "retry"} : Moving(r, "reply", to)
        \/ Ending(r, "reply", "failed")
    BY <1>3 DEF SaveReply, SaveFailed
  <2> QED BY <1>3, <2>1 DEF SaveReply
<1>4. CASE LastFlush(r) BY <1>4 DEF LastFlush, SaveFailed, Retryable
<1>5. CASE PreparePlan(r) BY <1>5 DEF PreparePlan, Register, Fresh
<1>6. CASE AnnouncePlan(r) BY <1>6 DEF AnnouncePlan
<1>7. CASE Prepared(r) BY <1>7 DEF Prepared, BatchFailed, SaveFailed, Retryable
<1>8. CASE Execute(r) BY <1>8 DEF Execute, BatchFailed, SaveFailed, Retryable
<1>9. CASE EndBatch(r) BY <1>9 DEF EndBatch, SaveFailed, Retryable
<1>10. CASE Retry(r) BY <1>10 DEF Retry, MayRetry
<1> QED BY <1>1, <1>2, <1>3, <1>4, <1>5, <1>6, <1>7, <1>8, <1>9, <1>10 DEF Conversing

LEMMA ConfirmingLife ==
    ASSUME Typed, LifeOK, NEW r \in Runs, Confirming(r)
    PROVE  LifeOK'
<1> USE DEF Typed, TypeOK, ControlTypes, RecordTypes, LifeOK, Life, Settled,
            Working, Active, Terminal, Goto, Moving, Ending,
            identity, ending, locals, layer, trying, books, clients, data
<1>1. CASE EnterWait(r) BY <1>1 DEF EnterWait, BatchFailed, SaveFailed, Retryable
<1>2. CASE WaitTakesSignal(r) BY <1>2 DEF WaitTakesSignal, Abort, Waiting
<1>3. CASE WaitTakesSubmission(r) BY <1>3 DEF WaitTakesSubmission, Abort, Told, Waiting, Acceptable
<1>4. CASE WaitCancelled(r) BY <1>4 DEF WaitCancelled, Abort, Waiting
<1>5. CASE ApplyConfirmation(r) BY <1>5 DEF ApplyConfirmation
<1>6. CASE ApplyFailed(r) BY <1>6 DEF ApplyFailed, Abort, Receipt, Told
<1>7. CASE Deregister(r) BY <1>7 DEF Deregister
<1>8. CASE RecordApplied(r) BY <1>8 DEF RecordApplied, Register, Fresh
<1>9. CASE SaveApplied(r) BY <1>9 DEF SaveApplied, Abort, Receipt, Told
<1>10. CASE LayerResolved(r) BY <1>10 DEF LayerResolved
<1>11. CASE SaveResolved(r) BY <1>11 DEF SaveResolved, BatchFailed, SaveFailed, Retryable
<1> QED BY <1>1, <1>2, <1>3, <1>4, <1>5, <1>6, <1>7, <1>8, <1>9, <1>10, <1>11 DEF Confirming

LEMMA ClosingLife ==
    ASSUME Typed, LifeOK, NEW r \in Runs, Closing(r)
    PROVE  LifeOK'
<1> USE DEF Typed, TypeOK, ControlTypes, RecordTypes, LifeOK, Life, Settled,
            Working, Active, Terminal, Goto, Moving, Ending,
            identity, ending, locals, layer, trying, books, clients, data
<1>1. CASE Claim(r) BY <1>1 DEF Claim, Unsettled
<1>2. CASE WrapUp(r) BY <1>2 DEF WrapUp
<1>3. CASE Publish(r)
  <2>1. status[r] \in Terminal /\ events[r] = <<>> /\ r \in registered
    BY <1>3 DEF Publish
  <2>2. events' = [events EXCEPT ![r] = <<status[r]>>]
    BY <1>3, <2>1 DEF Publish
  <2> QED BY <1>3, <2>1, <2>2 DEF Publish
<1>4. CASE FinalizeRun(r) BY <1>4 DEF FinalizeRun, Expired, ClearConfirmations, Queued
<1> QED BY <1>1, <1>2, <1>3, <1>4 DEF Closing

LEMMA PanicLife ==
    ASSUME Typed, LifeOK, NEW r \in Runs, Panic(r)
    PROVE  LifeOK'
<1> USE DEF Typed, TypeOK, ControlTypes, RecordTypes, LifeOK, Life, Settled, Working,
            Active, Terminal, identity
<1>1. CASE pc[r] = "wrapup"
  BY <1>1 DEF Panic, Goto
<1>2. CASE pc[r] # "wrapup"
  <2>1. pc[r] \in Working
    BY <1>2, CrashAssumption DEF Panic
  <2>2. Ending(r, pc[r], "failed") /\ UNCHANGED <<identity, status>>
    BY <1>2 DEF Panic
  <2> QED BY <2>1, <2>2 DEF Ending, Goto
<1> QED BY <1>1, <1>2

LEMMA EnvironmentLife ==
    ASSUME LifeOK, Environment
    PROVE  LifeOK'
BY DEF Environment, CancelRun, NotifyAsyncReady, SubmitToolConfirmation, SubmitterLeaves,
    LifeOK, Life, Settled, identity, ending

LEMMA LifeStep == Typed /\ LifeOK /\ [Next]_vars => LifeOK'
<1> SUFFICES ASSUME Typed, LifeOK, [Next]_vars PROVE LifeOK'
  OBVIOUS
<1>1. ASSUME NEW r \in Runs, RunStep(r) PROVE LifeOK'
  BY <1>1, StartingLife, DrainingLife, ConversingLife, ConfirmingLife, ClosingLife
  DEF RunStep
<1>2. ASSUME NEW r \in Runs, Panic(r) PROVE LifeOK'
  BY <1>2, PanicLife
<1>3. CASE Environment
  BY <1>3, EnvironmentLife
<1>4. CASE UNCHANGED vars
  BY <1>4 DEF vars, data, identity, ending, LifeOK, Life, Settled
<1> QED BY <1>1, <1>2, <1>3, <1>4 DEF Next

LEMMA LifeInit == Init => LifeOK
BY DEF Init, LifeOK, Life, Working

\* A run publishes one terminal event at most, with the status it was settled with,
\* and has published it once it is done: for any number of runs that finalize and
\* reclaim each other's records, and wherever a panic hits.
THEOREM OneTerminalEvent == Spec => []TerminalEventOnce
<1>1. Typed /\ LifeOK => TerminalEventOnce
  <2> SUFFICES ASSUME Typed, LifeOK, NEW r \in Runs
               PROVE  /\ events[r] # <<>> => events[r] = <<status[r]>> /\ status[r] \in Terminal
                      /\ pc[r] = "done" => events[r] # <<>>
    BY DEF TerminalEventOnce
  <2>1. pc[r] \in Positions /\ Life(r)
    BY DEF Typed, TypeOK, ControlTypes, LifeOK
  <2> QED BY <2>1 DEF Life, Settled, Positions, Settling
<1> QED BY <1>1, TypedInit, TypedStep, LifeInit, LifeStep, PTL DEF Spec

-----------------------------------------------------------------------------
(* The books of a run that has not started or is done are closed. *)

Closed(r) == ledger[r] = {} /\ inbox[r] = <<>>

ClosedOK == \A r \in Runs : pc[r] \in {"none", "done"} => Closed(r)

\* What a step of the goroutine of r leaves alone: the position, the ledger and the
\* inbox of every other run.
OnlyOwn(r) ==
    \A q \in Runs \ {r} : pc'[q] = pc[q] /\ ledger'[q] = ledger[q] /\ inbox'[q] = inbox[q]

LEMMA StartingOwn ==
    ASSUME Typed, NEW r \in Runs, Starting(r)
    PROVE  OnlyOwn(r) /\ pc'[r] \notin {"none", "done"}
<1> USE DEF Typed, TypeOK, ControlTypes, RecordTypes, QueueTypes, OnlyOwn, Goto, Moving, Ending,
            ending, locals, layer, trying, data
<1>1. CASE StartRun(r) BY <1>1 DEF StartRun
<1>2. CASE MarkRunning(r) BY <1>2 DEF MarkRunning
<1>3. CASE Loaded(r) BY <1>3 DEF Loaded
<1>4. CASE LoadFailed(r) BY <1>4 DEF LoadFailed
<1>5. CASE Compact(r) BY <1>5 DEF Compact
<1> QED BY <1>1, <1>2, <1>3, <1>4, <1>5 DEF Starting

LEMMA DrainingOwn ==
    ASSUME Typed, NEW r \in Runs, Draining(r)
    PROVE  OnlyOwn(r) /\ pc'[r] \notin {"none", "done"}
<1> USE DEF Typed, TypeOK, ControlTypes, RecordTypes, QueueTypes, OnlyOwn, Goto, Moving, Ending,
            ending, locals, layer, trying, data
<1>1. CASE DrainTake(r) BY <1>1 DEF DrainTake, Told, Defer
<1>2. CASE DrainEmpty(r) BY <1>2 DEF DrainEmpty
<1>3. CASE Requeue(r) BY <1>3 DEF Requeue, Enqueue, HasRoom
<1>4. CASE Drained(r) BY <1>4 DEF Drained, BatchFailed, SaveFailed, Retryable
<1> QED BY <1>1, <1>2, <1>3, <1>4 DEF Draining

LEMMA ConversingOwn ==
    ASSUME Typed, NEW r \in Runs, Conversing(r)
    PROVE  OnlyOwn(r) /\ pc'[r] \notin {"none", "done"}
<1> USE DEF Typed, TypeOK, ControlTypes, RecordTypes, QueueTypes, OnlyOwn, Goto, Moving, Ending,
            ending, locals, layer, trying, data
<1>1. CASE Flush(r) BY <1>1 DEF Flush, SaveFailed, Retryable
<1>2. CASE ModelReturns(r) BY <1>2 DEF ModelReturns
<1>3. CASE SaveReply(r) BY <1>3 DEF SaveReply, SaveFailed, Retryable
<1>4. CASE LastFlush(r) BY <1>4 DEF LastFlush, SaveFailed, Retryable
<1>5. CASE PreparePlan(r) BY <1>5 DEF PreparePlan, Register, Fresh
<1>6. CASE AnnouncePlan(r) BY <1>6 DEF AnnouncePlan
<1>7. CASE Prepared(r) BY <1>7 DEF Prepared, BatchFailed, SaveFailed, Retryable
<1>8. CASE Execute(r) BY <1>8 DEF Execute, BatchFailed, SaveFailed, Retryable
<1>9. CASE EndBatch(r) BY <1>9 DEF EndBatch, SaveFailed, Retryable
<1>10. CASE Retry(r) BY <1>10 DEF Retry, MayRetry
<1> QED BY <1>1, <1>2, <1>3, <1>4, <1>5, <1>6, <1>7, <1>8, <1>9, <1>10 DEF Conversing

LEMMA ConfirmingOwn ==
    ASSUME Typed, NEW r \in Runs, Confirming(r)
    PROVE  OnlyOwn(r) /\ pc'[r] \notin {"none", "done"}
<1> USE DEF Typed, TypeOK, ControlTypes, RecordTypes, QueueTypes, OnlyOwn, Goto, Moving, Ending,
            ending, locals, layer, trying, data
<1>1. CASE EnterWait(r) BY <1>1 DEF EnterWait, BatchFailed, SaveFailed, Retryable
<1>2. CASE WaitTakesSignal(r) BY <1>2 DEF WaitTakesSignal, Abort, Waiting
<1>3. CASE WaitTakesSubmission(r) BY <1>3 DEF WaitTakesSubmission, Abort, Told, Waiting, Acceptable
<1>4. CASE WaitCancelled(r) BY <1>4 DEF WaitCancelled, Abort, Waiting
<1>5. CASE ApplyConfirmation(r) BY <1>5 DEF ApplyConfirmation
<1>6. CASE ApplyFailed(r) BY <1>6 DEF ApplyFailed, Abort, Receipt, Told
<1>7. CASE Deregister(r) BY <1>7 DEF Deregister
<1>8. CASE RecordApplied(r) BY <1>8 DEF RecordApplied, Register, Fresh
<1>9. CASE SaveApplied(r) BY <1>9 DEF SaveApplied, Abort, Receipt, Told
<1>10. CASE LayerResolved(r) BY <1>10 DEF LayerResolved
<1>11. CASE SaveResolved(r) BY <1>11 DEF SaveResolved, BatchFailed, SaveFailed, Retryable
<1> QED BY <1>1, <1>2, <1>3, <1>4, <1>5, <1>6, <1>7, <1>8, <1>9, <1>10, <1>11 DEF Confirming

LEMMA ClosingOwn ==
    ASSUME Typed, NEW r \in Runs, Closing(r)
    PROVE  OnlyOwn(r) /\ pc'[r] # "none" /\ (pc'[r] = "done" => ledger'[r] = {} /\ inbox'[r] = <<>>)
<1> USE DEF Typed, TypeOK, ControlTypes, RecordTypes, QueueTypes, OnlyOwn, Goto, Moving, Ending,
            ending, locals, layer, trying, data
<1>1. CASE Claim(r) BY <1>1 DEF Claim, Unsettled
<1>2. CASE WrapUp(r) BY <1>2 DEF WrapUp
<1>3. CASE Publish(r) BY <1>3 DEF Publish
<1>4. CASE FinalizeRun(r) BY <1>4 DEF FinalizeRun, Expired, ClearConfirmations, Queued
<1> QED BY <1>1, <1>2, <1>3, <1>4 DEF Closing

LEMMA PanicOwn ==
    ASSUME Typed, NEW r \in Runs, Panic(r)
    PROVE  OnlyOwn(r) /\ pc'[r] \notin {"none", "done"}
BY DEF Panic, OnlyOwn, Goto, Ending, Typed, TypeOK, ControlTypes

LEMMA EnvironmentClosed ==
    ASSUME Typed, LifeOK, ClosedOK, Environment
    PROVE  ClosedOK'
<1> USE DEF Typed, TypeOK, ControlTypes, QueueTypes, ClosedOK, Closed, ending
<1>1. ASSUME NEW r \in Runs, CancelRun(r) \/ NotifyAsyncReady(r) PROVE ClosedOK'
  \* The status guard keeps signals out of runs that are settled.
  <2>1. pc[r] \notin {"none", "done"}
    BY <1>1 DEF CancelRun, NotifyAsyncReady, LifeOK, Life, Settled, Active, Terminal
  <2> QED BY <1>1, <2>1 DEF CancelRun, NotifyAsyncReady, Enqueue
<1>2. ASSUME NEW c \in Clients, NEW d \in Decisions, SubmitToolConfirmation(c, d)
      PROVE  ClosedOK'
  \* The ledger guard keeps submissions out.
  BY <1>2 DEF SubmitToolConfirmation, Enqueue
<1>3. ASSUME NEW c \in Clients, SubmitterLeaves(c) PROVE ClosedOK'
  BY <1>3 DEF SubmitterLeaves
<1> QED BY <1>1, <1>2, <1>3 DEF Environment

LEMMA ClosedStep == Typed /\ LifeOK /\ ClosedOK /\ [Next]_vars => ClosedOK'
<1> SUFFICES ASSUME Typed, LifeOK, ClosedOK, [Next]_vars PROVE ClosedOK'
  OBVIOUS
<1>1. ASSUME NEW r \in Runs, RunStep(r) \/ Panic(r) PROVE ClosedOK'
  <2>1. /\ OnlyOwn(r)
        /\ pc'[r] # "none"
        /\ pc'[r] = "done" => ledger'[r] = {} /\ inbox'[r] = <<>>
    BY <1>1, StartingOwn, DrainingOwn, ConversingOwn, ConfirmingOwn, ClosingOwn, PanicOwn
    DEF RunStep
  <2> QED BY <2>1 DEF OnlyOwn, ClosedOK, Closed
<1>2. CASE Environment
  BY <1>2, EnvironmentClosed
<1>3. CASE UNCHANGED vars
  BY <1>3 DEF vars, data, ClosedOK, Closed
<1> QED BY <1>1, <1>2, <1>3 DEF Next

\* Nothing can be routed to a run that is done and nothing is left in its inbox,
\* whatever was submitted, signalled or cancelled while it closed its books.
THEOREM BooksClosed == Spec => []DoneIsClosed
<1>1. Init => ClosedOK
  BY DEF Init, ClosedOK, Closed
<1>2. ClosedOK => DoneIsClosed
  BY DEF ClosedOK, Closed, DoneIsClosed
<1> QED BY <1>1, <1>2, TypedInit, TypedStep, LifeInit, LifeStep, ClosedStep, PTL DEF Spec

-----------------------------------------------------------------------------
(* Queues of submissions. *)

\* A submission is queued once.
Once(s) == \A i, j \in DOMAIN s : s[i].kind = "confirm" /\ s[i] = s[j] => i = j

LEMMA QueuedIs ==
    ASSUME NEW s \in Seq(Event), NEW c
    PROVE  c \in Queued(s) <=> \E i \in 1..Len(s) : s[i].kind = "confirm" /\ s[i].by = c
BY DEF Queued, ToSet

LEMMA QueuedNothing == Queued(<<>>) = {} /\ Once(<<>>)
BY DEF Queued, ToSet, Once

LEMMA QueuedTail ==
    ASSUME NEW s \in Seq(Event), s # <<>>, Once(s)
    PROVE  /\ Once(Tail(s))
           /\ Queued(Tail(s)) \subseteq Queued(s)
           /\ Head(s).kind = "confirm" =>
                Head(s).by \in Queued(s) /\ Head(s).by \notin Queued(Tail(s))
           /\ Head(s).kind # "confirm" => Queued(s) = Queued(Tail(s))
           /\ Queued(s) \subseteq Queued(Tail(s)) \cup {Head(s).by}
<1>1. /\ Tail(s) \in Seq(Event) /\ Len(Tail(s)) = Len(s) - 1 /\ Len(s) \in Nat \ {0}
      /\ \A i \in 1..Len(Tail(s)) : Tail(s)[i] = s[i + 1] /\ i + 1 \in 1..Len(s)
      /\ Head(s) = s[1] /\ 1 \in 1..Len(s)
      /\ \A i \in 2..Len(s) : i - 1 \in 1..Len(Tail(s)) /\ Tail(s)[i - 1] = s[i]
  OBVIOUS
<1>2. Once(Tail(s))
  <2> SUFFICES ASSUME NEW i \in 1..Len(Tail(s)), NEW j \in 1..Len(Tail(s)),
                      Tail(s)[i].kind = "confirm", Tail(s)[i] = Tail(s)[j]
               PROVE  i = j
    BY <1>1 DEF Once
  <2> QED BY <1>1 DEF Once
<1>3. Queued(Tail(s)) \subseteq Queued(s)
  <2> SUFFICES ASSUME NEW c, c \in Queued(Tail(s)) PROVE c \in Queued(s)
    OBVIOUS
  <2>1. PICK i \in 1..Len(Tail(s)) : Tail(s)[i].kind = "confirm" /\ Tail(s)[i].by = c
    BY <1>1, QueuedIs
  <2> QED BY <1>1, <2>1, QueuedIs
<1>4. ASSUME Head(s).kind = "confirm"
      PROVE  Head(s).by \in Queued(s) /\ Head(s).by \notin Queued(Tail(s))
  <2>1. Head(s).by \in Queued(s)
    BY <1>1, <1>4, QueuedIs
  <2>2. ASSUME Head(s).by \in Queued(Tail(s)) PROVE FALSE
    <3>1. PICK i \in 1..Len(Tail(s)) : Tail(s)[i].kind = "confirm" /\ Tail(s)[i].by = s[1].by
      BY <1>1, <2>2, QueuedIs
    <3>2. s[i + 1] = s[1]
      BY <1>1, <1>4, <3>1 DEF Event
    <3> QED BY <1>1, <1>4, <3>2 DEF Once
  <2> QED BY <2>1, <2>2
<1>5. ASSUME NEW c, c \in Queued(s)
      PROVE  c \in Queued(Tail(s)) \/ (c = Head(s).by /\ Head(s).kind = "confirm")
  <2>1. PICK i \in 1..Len(s) : s[i].kind = "confirm" /\ s[i].by = c
    BY <1>5, QueuedIs
  <2>2. CASE i = 1
    BY <1>1, <2>1, <2>2
  <2>3. CASE i # 1
    <3>1. i - 1 \in 1..Len(Tail(s)) /\ Tail(s)[i - 1] = s[i]
      BY <1>1, <2>3
    <3>2. \A w \in Seq(Event) : \A k \in 1..Len(w) :
            w[k].kind = "confirm" /\ w[k].by = c => c \in Queued(w)
      BY QueuedIs
    <3> QED BY <1>1, <2>1, <3>1, <3>2
  <2> QED BY <2>2, <2>3
<1> QED BY <1>2, <1>3, <1>4, <1>5

LEMMA QueuedAppend ==
    ASSUME NEW s \in Seq(Event), NEW e \in Event, Once(s),
           e.kind = "confirm" => e.by \notin Queued(s)
    PROVE  /\ Once(Append(s, e))
           /\ Queued(Append(s, e)) = Queued(s) \cup (IF e.kind = "confirm" THEN {e.by} ELSE {})
<1> DEFINE t == Append(s, e)
<1>1. /\ t \in Seq(Event) /\ Len(t) = Len(s) + 1 /\ Len(s) \in Nat
      /\ \A i \in 1..Len(s) : t[i] = s[i] /\ i \in 1..Len(t)
      /\ t[Len(t)] = e /\ Len(t) \in 1..Len(t)
      /\ \A i \in 1..Len(t) : i # Len(t) => i \in 1..Len(s)
  OBVIOUS
<1> HIDE DEF t
<1>2. Once(t)
  <2> SUFFICES ASSUME NEW i \in 1..Len(t), NEW j \in 1..Len(t), t[i].kind = "confirm", t[i] = t[j],
                      i # j
               PROVE  FALSE
    BY <1>1 DEF Once
  <2>1. CASE i # Len(t) /\ j # Len(t)
    BY <1>1, <2>1 DEF Once
  <2>2. CASE i = Len(t) \/ j = Len(t)
    BY <1>1, <2>2, QueuedIs
  <2> QED BY <2>1, <2>2
<1>3. ASSUME NEW c
      PROVE  c \in Queued(t) <=> c \in Queued(s) \/ (e.kind = "confirm" /\ c = e.by)
  <2>1. c \in Queued(t) <=> \E i \in 1..Len(t) : t[i].kind = "confirm" /\ t[i].by = c
    BY <1>1, QueuedIs
  <2>2. c \in Queued(s) <=> \E i \in 1..Len(s) : s[i].kind = "confirm" /\ s[i].by = c
    BY QueuedIs
  <2> QED BY <1>1, <2>1, <2>2
<1> QED BY <1>2, <1>3 DEF t

-----------------------------------------------------------------------------
(* Every submission sits in one place. *)

LEMMA QueuedClients ==
    ASSUME NEW s \in Seq(Event)
    PROVE  Queued(s) \subseteq Clients
<1> SUFFICES ASSUME NEW c, c \in Queued(s) PROVE c \in Clients
  OBVIOUS
<1>1. PICK i \in 1..Len(s) : s[i].kind = "confirm" /\ s[i].by = c
  BY QueuedIs
<1> QED BY <1>1, EventFacts

\* The places of one run hold different submissions.
Apart(r) ==
    /\ Queued(inbox[r]) \cap Queued(deferred[r]) = {}
    /\ hand[r] \notin Queued(inbox[r]) \cup Queued(deferred[r])
    /\ Once(inbox[r]) /\ Once(deferred[r])

Unanswered(r) == \A c \in HeldBy(r) : reply[c] \in {"waiting", "gaveup"}

LEMMA HeldIs ==
    ASSUME NEW r \in Runs
    PROVE  /\ HeldBy(r) = Queued(inbox[r]) \cup Queued(deferred[r]) \cup ({hand[r]} \ {None})
           /\ HeldBy(r)' = (Queued(inbox[r]) \cup Queued(deferred[r]) \cup ({hand[r]} \ {None}))'
BY DEF HeldBy, Places

LEMMA HeldOnceIs ==
    /\ HeldOnce <=> /\ \A r, q \in Runs : r # q => HeldBy(r) \cap HeldBy(q) = {}
                    /\ \A r \in Runs : Apart(r) /\ Unanswered(r)
    /\ HeldOnce' <=> /\ \A r, q \in Runs : r # q => HeldBy(r)' \cap HeldBy(q)' = {}
                     /\ \A r \in Runs : Apart(r)' /\ Unanswered(r)'
BY DEF HeldOnce, Apart, Unanswered, Places, Once

LEMMA HeldClients ==
    ASSUME Typed, NEW r \in Runs
    PROVE  HeldBy(r) \subseteq Clients
BY HeldIs, QueuedClients DEF Typed, TypeOK, QueueTypes, BatchTypes

\* A step that touches the places of one run, and takes submissions out of them only.
LEMMA HeldFrame ==
    ASSUME Typed, HeldOnce, NEW r \in Runs,
           \A q \in Runs \ {r} :
               inbox'[q] = inbox[q] /\ deferred'[q] = deferred[q] /\ hand'[q] = hand[q],
           Apart(r)',
           HeldBy(r)' \subseteq HeldBy(r),
           \A c \in Clients : reply'[c] = reply[c] \/ c \in HeldBy(r) \ HeldBy(r)'
    PROVE  HeldOnce'
<1>1. \A q \in Runs \ {r} : HeldBy(q)' = HeldBy(q) /\ Apart(q)'
  BY HeldIs, HeldOnceIs DEF Apart
<1>2. \A p, q \in Runs : p # q => HeldBy(p)' \cap HeldBy(q)' = {}
  BY <1>1, HeldOnceIs
<1>3. ASSUME NEW q \in Runs PROVE Unanswered(q)'
  <2> SUFFICES ASSUME NEW c \in HeldBy(q)' PROVE reply'[c] \in {"waiting", "gaveup"}
    BY DEF Unanswered
  <2>1. c \in HeldBy(q) /\ c \in Clients
    BY <1>1, HeldClients
  <2>2. reply'[c] = reply[c]
    BY <1>1, <2>1, HeldOnceIs
  <2> QED BY <2>1, <2>2, HeldOnceIs DEF Unanswered
<1> QED BY <1>1, <1>2, <1>3, HeldOnceIs

LEMMA HeldSame ==
    ASSUME HeldOnce, UNCHANGED <<inbox, deferred, hand, reply>>
    PROVE  HeldOnce'
<1>1. \A r \in Runs : HeldBy(r)' = HeldBy(r) /\ (Apart(r)' <=> Apart(r))
  BY HeldIs DEF Apart
<1> QED BY <1>1, HeldOnceIs DEF Unanswered

LEMMA DrainTakeHeld ==
    ASSUME Typed, HeldOnce, NEW r \in Runs, DrainTake(r)
    PROVE  HeldOnce'
<1> DEFINE e == Head(inbox[r])
<1>1. /\ inbox[r] \in Seq(Event) /\ inbox[r] # <<>> /\ deferred[r] \in Seq(Event)
      /\ e \in Event
      /\ inbox \in [Runs -> Seq(Event)] /\ deferred \in [Runs -> Seq(Event)]
      /\ reply \in [Clients -> {"idle", "waiting", "ok", "rejected", "gaveup"}]
  BY DEF DrainTake, Typed, TypeOK, QueueTypes, BookTypes
<1>2. /\ inbox' = [inbox EXCEPT ![r] = Tail(inbox[r])] /\ UNCHANGED hand
      /\ \/ e.kind # "confirm" /\ UNCHANGED <<deferred, reply>>
         \/ /\ e.kind = "confirm" /\ UNCHANGED reply
            /\ deferred' = [deferred EXCEPT ![r] = Append(deferred[r], e)]
         \/ /\ e.kind = "confirm" /\ UNCHANGED deferred
            /\ reply' = Told(e.by, "rejected")
  BY DEF DrainTake, Defer
<1> HIDE DEF e
<1>3. Apart(r) /\ Unanswered(r)
  BY HeldOnceIs
<1>4. /\ Once(Tail(inbox[r])) /\ Queued(Tail(inbox[r])) \subseteq Queued(inbox[r])
      /\ e.kind = "confirm" => e.by \in Queued(inbox[r]) /\ e.by \notin Queued(Tail(inbox[r]))
  BY <1>1, <1>3, QueuedTail DEF Apart, e
<1>5. CASE e.kind # "confirm" /\ UNCHANGED <<deferred, reply>>
  <2>1. Apart(r)' /\ HeldBy(r)' \subseteq HeldBy(r)
    BY <1>1, <1>2, <1>3, <1>4, <1>5, HeldIs DEF Apart
  <2> QED BY <1>1, <1>2, <1>5, <2>1, HeldFrame
<1>6. CASE /\ e.kind = "confirm" /\ UNCHANGED reply
           /\ deferred' = [deferred EXCEPT ![r] = Append(deferred[r], e)]
  <2>1. /\ Once(Append(deferred[r], e))
        /\ Queued(Append(deferred[r], e)) = Queued(deferred[r]) \cup {e.by}
    BY <1>1, <1>3, <1>4, <1>6, QueuedAppend DEF Apart
  <2>2. Apart(r)' /\ HeldBy(r)' \subseteq HeldBy(r)
    BY <1>1, <1>2, <1>3, <1>4, <1>6, <2>1, HeldIs DEF Apart
  <2> QED BY <1>1, <1>2, <1>6, <2>2, HeldFrame
<1>7. CASE e.kind = "confirm" /\ UNCHANGED deferred /\ reply' = Told(e.by, "rejected")
  <2>1. Apart(r)' /\ HeldBy(r)' \subseteq HeldBy(r)
    BY <1>1, <1>2, <1>3, <1>4, <1>7, HeldIs DEF Apart
  <2>2. e.by \in HeldBy(r) \ HeldBy(r)'
    BY <1>1, <1>2, <1>3, <1>4, <1>7, HeldIs, EventFacts, NoneAssumption DEF Apart
  <2>3. \A c \in Clients : reply'[c] = reply[c] \/ c = e.by
    BY <1>1, <1>7 DEF Told
  <2> QED BY <1>1, <1>2, <1>7, <2>1, <2>2, <2>3, HeldFrame
<1> QED BY <1>2, <1>5, <1>6, <1>7

\* An event goes into the inbox of a run, or is dropped.
LEMMA Enqueued ==
    ASSUME Typed, NEW r \in Runs, NEW e \in Event, Enqueue(r, e), Once(inbox[r]),
           e.kind = "confirm" => e.by \notin Queued(inbox[r])
    PROVE  /\ inbox' \in [Runs -> Seq(Event)]
           /\ \A q \in Runs \ {r} : inbox'[q] = inbox[q]
           /\ Once(inbox'[r])
           /\ Queued(inbox'[r]) =
                Queued(inbox[r]) \cup (IF e.kind = "confirm" /\ HasRoom(r) THEN {e.by} ELSE {})
           /\ Len(inbox'[r]) = Len(inbox[r]) + (IF HasRoom(r) THEN 1 ELSE 0)
<1>1. inbox \in [Runs -> Seq(Event)] /\ inbox[r] \in Seq(Event)
  BY DEF Typed, TypeOK, QueueTypes
<1>2. CASE HasRoom(r)
  <2>1. inbox' = [inbox EXCEPT ![r] = Append(inbox[r], e)]
    BY <1>2 DEF Enqueue
  <2>2. /\ Once(Append(inbox[r], e)) /\ Append(inbox[r], e) \in Seq(Event)
        /\ Queued(Append(inbox[r], e)) = Queued(inbox[r]) \cup (IF e.kind = "confirm" THEN {e.by} ELSE {})
        /\ Len(Append(inbox[r], e)) = Len(inbox[r]) + 1
    BY <1>1, QueuedAppend
  <2> QED BY <1>1, <1>2, <2>1, <2>2
<1>3. CASE ~HasRoom(r)
  BY <1>1, <1>3 DEF Enqueue
<1> QED BY <1>2, <1>3

LEMMA RequeueHeld ==
    ASSUME Typed, HeldOnce, NEW r \in Runs, Requeue(r)
    PROVE  HeldOnce'
<1> DEFINE e == Head(deferred[r])
<1>1. /\ deferred[r] \in Seq(Event) /\ deferred[r] # <<>> /\ e \in Event
      /\ inbox \in [Runs -> Seq(Event)] /\ deferred \in [Runs -> Seq(Event)]
  BY DEF Requeue, Typed, TypeOK, QueueTypes
<1>2. /\ deferred' = [deferred EXCEPT ![r] = Tail(deferred[r])] /\ UNCHANGED <<hand, reply>>
      /\ Enqueue(r, e)
  BY DEF Requeue, clients
<1> HIDE DEF e
<1>3. Apart(r)
  BY HeldOnceIs
<1>4. /\ Once(Tail(deferred[r])) /\ Queued(Tail(deferred[r])) \subseteq Queued(deferred[r])
      /\ e.kind = "confirm" => e.by \in Queued(deferred[r]) /\ e.by \notin Queued(Tail(deferred[r]))
  BY <1>1, <1>3, QueuedTail DEF Apart, e
<1>5. /\ \A q \in Runs \ {r} : inbox'[q] = inbox[q]
      /\ Once(inbox'[r])
      /\ Queued(inbox'[r]) \subseteq Queued(inbox[r]) \cup (IF e.kind = "confirm" THEN {e.by} ELSE {})
  <2>1. Once(inbox[r]) /\ (e.kind = "confirm" => e.by \notin Queued(inbox[r]))
    BY <1>3, <1>4 DEF Apart
  <2> QED BY <1>1, <1>2, <2>1, Enqueued
<1>6. Apart(r)' /\ HeldBy(r)' \subseteq HeldBy(r)
  BY <1>1, <1>2, <1>3, <1>4, <1>5, HeldIs DEF Apart
<1> QED BY <1>1, <1>2, <1>5, <1>6, HeldFrame

LEMMA WaitTakesHeld ==
    ASSUME Typed, HeldOnce, NEW r \in Runs, WaitTakesSignal(r) \/ WaitTakesSubmission(r)
    PROVE  HeldOnce'
<1> DEFINE e == Head(inbox[r])
<1>1. /\ inbox[r] \in Seq(Event) /\ inbox[r] # <<>> /\ deferred[r] \in Seq(Event)
      /\ e \in Event
      /\ inbox \in [Runs -> Seq(Event)] /\ hand \in [Runs -> Clients \cup {None}]
      /\ reply \in [Clients -> {"idle", "waiting", "ok", "rejected", "gaveup"}]
  BY DEF WaitTakesSignal, WaitTakesSubmission, Typed, TypeOK, QueueTypes, BatchTypes, BookTypes
<1>2. /\ inbox' = [inbox EXCEPT ![r] = Tail(inbox[r])] /\ UNCHANGED deferred
      /\ \/ UNCHANGED <<hand, reply>>
         \/ /\ e.kind = "confirm" /\ UNCHANGED reply
            /\ hand' = [hand EXCEPT ![r] = e.by]
         \/ /\ e.kind = "confirm" /\ UNCHANGED hand
            /\ reply' = Told(e.by, "rejected")
  BY DEF WaitTakesSignal, WaitTakesSubmission, Abort, locals, clients
<1> HIDE DEF e
<1>3. Apart(r) /\ Unanswered(r)
  BY HeldOnceIs
<1>4. /\ Once(Tail(inbox[r])) /\ Queued(Tail(inbox[r])) \subseteq Queued(inbox[r])
      /\ e.kind = "confirm" => /\ e.by \in Queued(inbox[r]) /\ e.by \notin Queued(Tail(inbox[r]))
                               /\ e.by \in Clients
  BY <1>1, <1>3, QueuedTail, EventFacts DEF Apart, e
<1>5. CASE UNCHANGED <<hand, reply>>
  <2>1. Apart(r)' /\ HeldBy(r)' \subseteq HeldBy(r)
    BY <1>1, <1>2, <1>3, <1>4, <1>5, HeldIs DEF Apart
  <2> QED BY <1>1, <1>2, <1>5, <2>1, HeldFrame
<1>6. CASE e.kind = "confirm" /\ UNCHANGED reply /\ hand' = [hand EXCEPT ![r] = e.by]
  <2>1. Apart(r)' /\ HeldBy(r)' \subseteq HeldBy(r)
    BY <1>1, <1>2, <1>3, <1>4, <1>6, HeldIs DEF Apart
  <2> QED BY <1>1, <1>2, <1>6, <2>1, HeldFrame
<1>7. CASE e.kind = "confirm" /\ UNCHANGED hand /\ reply' = Told(e.by, "rejected")
  <2>1. Apart(r)' /\ HeldBy(r)' \subseteq HeldBy(r)
    BY <1>1, <1>2, <1>3, <1>4, <1>7, HeldIs DEF Apart
  <2>2. e.by \in HeldBy(r) \ HeldBy(r)'
    BY <1>1, <1>2, <1>3, <1>4, <1>7, HeldIs DEF Apart
  <2>3. \A c \in Clients : reply'[c] = reply[c] \/ c = e.by
    BY <1>1, <1>7 DEF Told
  <2> QED BY <1>1, <1>2, <1>7, <2>1, <2>2, <2>3, HeldFrame
<1> QED BY <1>2, <1>5, <1>6, <1>7

\* The submission in hand gets its receipt.
LEMMA ReceiptHeld ==
    ASSUME Typed, HeldOnce, NEW r \in Runs, pc[r] \in Applying, ApplyFailed(r) \/ SaveApplied(r)
    PROVE  HeldOnce'
<1>1. /\ UNCHANGED <<inbox, deferred>>
      /\ \E answer \in {"ok", "rejected"} : Receipt(r, answer)
  BY DEF ApplyFailed, SaveApplied, Abort, locals
<1>2. /\ hand' = [hand EXCEPT ![r] = None] /\ hand \in [Runs -> Clients \cup {None}]
      /\ \A c \in Clients : reply'[c] = reply[c] \/ c = hand[r]
  BY <1>1 DEF Receipt, Told, Typed, TypeOK, BatchTypes, BookTypes
<1>3. Apart(r) /\ hand[r] \in Clients /\ None \notin Clients
  BY HeldOnceIs, NoneAssumption DEF Typed, HandOK
<1>4. Queued(inbox[r]) \subseteq Clients /\ Queued(deferred[r]) \subseteq Clients
  BY QueuedClients DEF Typed, TypeOK, QueueTypes
<1>5. Apart(r)' /\ HeldBy(r)' \subseteq HeldBy(r) /\ hand[r] \in HeldBy(r) \ HeldBy(r)'
  BY <1>1, <1>2, <1>3, <1>4, HeldIs DEF Apart
<1> QED BY <1>1, <1>2, <1>5, HeldFrame

LEMMA FinalizeHeld ==
    ASSUME Typed, HeldOnce, NEW r \in Runs, FinalizeRun(r)
    PROVE  HeldOnce'
<1>1. /\ inbox' = [inbox EXCEPT ![r] = <<>>] /\ inbox \in [Runs -> Seq(Event)]
      /\ UNCHANGED <<deferred, hand>>
      /\ \A c \in Clients : reply'[c] = reply[c] \/ c \in Queued(inbox[r])
  BY DEF FinalizeRun, ClearConfirmations, locals, Typed, TypeOK, QueueTypes
<1>2. Apart(r) /\ inbox'[r] = <<>>
  BY <1>1, HeldOnceIs
<1>3. hand[r] \notin Queued(inbox[r]) /\ Queued(inbox[r]) \cap Queued(deferred[r]) = {}
  BY <1>2 DEF Apart
<1>4. Apart(r)' /\ HeldBy(r)' \subseteq HeldBy(r) /\ Queued(inbox[r]) \subseteq HeldBy(r) \ HeldBy(r)'
  BY <1>1, <1>2, <1>3, HeldIs, QueuedNothing DEF Apart
<1> QED BY <1>1, <1>4, HeldFrame

LEMMA PanicHeld ==
    ASSUME Typed, HeldOnce, NEW r \in Runs, Panic(r)
    PROVE  HeldOnce'
<1>1. /\ hand' = [hand EXCEPT ![r] = None] /\ hand \in [Runs -> Clients \cup {None}]
      /\ deferred' = [deferred EXCEPT ![r] = <<>>] /\ deferred \in [Runs -> Seq(Event)]
      /\ UNCHANGED <<inbox, reply>>
  BY DEF Panic, clients, Typed, TypeOK, QueueTypes, BatchTypes
<1>2. Apart(r) /\ None \notin Queued(inbox[r])
  BY HeldOnceIs, QueuedClients, NoneAssumption DEF Typed, TypeOK, QueueTypes
<1>3. Apart(r)' /\ HeldBy(r)' \subseteq HeldBy(r)
  BY <1>1, <1>2, HeldIs, QueuedNothing DEF Apart
<1> QED BY <1>1, <1>3, HeldFrame

\* A signal holds no submission.
LEMMA SignalHeld ==
    ASSUME Typed, HeldOnce, NEW r \in Runs, CancelRun(r) \/ NotifyAsyncReady(r)
    PROVE  HeldOnce'
<1>1. PICK e \in {Stop, Ready} : Enqueue(r, e)
  BY DEF CancelRun, NotifyAsyncReady
<1>2. e \in Event /\ e.kind # "confirm"
  BY EventFacts DEF Stop, Ready
<1>3. UNCHANGED <<deferred, hand, reply>>
  BY DEF CancelRun, NotifyAsyncReady, locals, clients
<1>4. Apart(r)
  BY HeldOnceIs
<1>5. /\ \A q \in Runs \ {r} : inbox'[q] = inbox[q]
      /\ Once(inbox'[r]) /\ Queued(inbox'[r]) = Queued(inbox[r])
  BY <1>1, <1>2, <1>4, Enqueued DEF Apart
<1>6. Apart(r)' /\ HeldBy(r)' \subseteq HeldBy(r)
  BY <1>3, <1>4, <1>5, HeldIs DEF Apart
<1> QED BY <1>3, <1>5, <1>6, HeldFrame

\* A submission comes in: nobody held it before.
LEMMA SubmitHeld ==
    ASSUME Typed, HeldOnce, NEW c \in Clients, NEW d \in Decisions, SubmitToolConfirmation(c, d)
    PROVE  HeldOnce'
<1>1. /\ reply[c] = "idle" /\ UNCHANGED <<deferred, hand>>
      /\ reply \in [Clients -> {"idle", "waiting", "ok", "rejected", "gaveup"}]
      /\ \A b \in Clients \ {c} : reply'[b] = reply[b]
  BY DEF SubmitToolConfirmation, locals, Typed, TypeOK, BookTypes
<1>2. \A q \in Runs : c \notin HeldBy(q)
  BY <1>1, HeldOnceIs DEF Unanswered
<1>3. CASE UNCHANGED inbox
  <2>1. \A q \in Runs : HeldBy(q)' = HeldBy(q) /\ (Apart(q)' <=> Apart(q))
    BY <1>1, <1>3, HeldIs DEF Apart
  <2>2. \A q \in Runs : Unanswered(q)'
    BY <1>1, <1>2, <2>1, HeldOnceIs, HeldClients DEF Unanswered
  <2> QED BY <2>1, <2>2, HeldOnceIs
<1>4. CASE \E r \in registered : /\ reply' = [reply EXCEPT ![c] = IF HasRoom(r) THEN "waiting" ELSE "rejected"]
                                 /\ Enqueue(r, Submission(c))
  <2>1. PICK r \in registered : /\ reply' = [reply EXCEPT ![c] = IF HasRoom(r) THEN "waiting" ELSE "rejected"]
                                /\ Enqueue(r, Submission(c))
    BY <1>4
  <2> DEFINE e == Submission(c)
  <2>2. r \in Runs /\ e \in Event /\ e.kind = "confirm" /\ e.by = c
    BY <2>1, EventFacts DEF Submission, Typed, TypeOK, RecordTypes
  <2>3. Apart(r) /\ c \notin HeldBy(r)
    BY <1>2, <2>2, HeldOnceIs
  <2>4. /\ \A q \in Runs \ {r} : inbox'[q] = inbox[q]
        /\ Once(inbox'[r])
        /\ Queued(inbox'[r]) \subseteq Queued(inbox[r]) \cup (IF HasRoom(r) THEN {c} ELSE {})
    <3>1. Once(inbox[r]) /\ e.by \notin Queued(inbox[r])
      BY <2>2, <2>3, HeldIs DEF Apart
    <3> HIDE DEF e
    <3> QED BY <2>1, <2>2, <3>1, Enqueued DEF e
  <2>5. c # None
    BY NoneAssumption
  <2>6. Apart(r)' /\ HeldBy(r)' \subseteq HeldBy(r) \cup (IF HasRoom(r) THEN {c} ELSE {})
    BY <1>1, <2>2, <2>3, <2>4, <2>5, HeldIs DEF Apart
  <2>7. ASSUME NEW q \in Runs \ {r} PROVE HeldBy(q)' = HeldBy(q) /\ Apart(q)'
    <3>1. inbox'[q] = inbox[q] /\ deferred'[q] = deferred[q] /\ hand'[q] = hand[q]
      BY <1>1, <2>4
    <3>2. Apart(q)
      BY HeldOnceIs
    <3> QED BY <3>1, <3>2, HeldIs DEF Apart
  <2>8. \A p, q \in Runs : p # q => HeldBy(p)' \cap HeldBy(q)' = {}
    BY <1>2, <2>2, <2>6, <2>7, HeldOnceIs
  <2>9. ASSUME NEW q \in Runs, NEW b \in HeldBy(q)' PROVE reply'[b] \in {"waiting", "gaveup"}
    <3>1. CASE b = c
      BY <1>1, <1>2, <2>1, <2>2, <2>6, <2>7, <2>9, <3>1
    <3>2. CASE b # c
      <4>1. b \in HeldBy(q) /\ b \in Clients
        BY <2>2, <2>6, <2>7, <2>9, <3>2, HeldClients
      <4> QED BY <1>1, <3>2, <4>1, HeldOnceIs DEF Unanswered
    <3> QED BY <3>1, <3>2
  <2> QED BY <2>6, <2>7, <2>8, <2>9, HeldOnceIs DEF Unanswered
<1> QED BY <1>3, <1>4 DEF SubmitToolConfirmation

LEMMA LeaveHeld ==
    ASSUME Typed, HeldOnce, NEW c \in Clients, SubmitterLeaves(c)
    PROVE  HeldOnce'
<1>1. /\ reply' = [reply EXCEPT ![c] = "gaveup"] /\ UNCHANGED <<inbox, deferred, hand>>
      /\ reply \in [Clients -> {"idle", "waiting", "ok", "rejected", "gaveup"}]
  BY DEF SubmitterLeaves, locals, Typed, TypeOK, BookTypes
<1>2. \A q \in Runs : HeldBy(q)' = HeldBy(q) /\ (Apart(q)' <=> Apart(q))
  BY <1>1, HeldIs DEF Apart
<1>3. \A q \in Runs : Unanswered(q)'
  BY <1>1, <1>2, HeldOnceIs, HeldClients DEF Unanswered
<1> QED BY <1>2, <1>3, HeldOnceIs

LEMMA HeldStep == Typed /\ HeldOnce /\ [Next]_vars => HeldOnce'
<1> SUFFICES ASSUME Typed, HeldOnce, [Next]_vars PROVE HeldOnce'
  OBVIOUS
<1> USE DEF data, locals, clients
<1>1. ASSUME NEW r \in Runs, Starting(r) PROVE HeldOnce'
  BY <1>1, HeldSame DEF Starting, StartRun, MarkRunning, Loaded, LoadFailed, Compact
<1>2. ASSUME NEW r \in Runs, Draining(r) PROVE HeldOnce'
  <2>1. CASE DrainEmpty(r) \/ Drained(r)
    BY <2>1, HeldSame DEF DrainEmpty, Drained
  <2> QED BY <1>2, <2>1, DrainTakeHeld, RequeueHeld DEF Draining
<1>3. ASSUME NEW r \in Runs, Conversing(r) PROVE HeldOnce'
  BY <1>3, HeldSame DEF Conversing, Flush, ModelReturns, SaveReply, LastFlush, PreparePlan,
      AnnouncePlan, Prepared, Execute, EndBatch, Retry
<1>4. ASSUME NEW r \in Runs, Confirming(r) PROVE HeldOnce'
  <2>1. CASE EnterWait(r) \/ WaitCancelled(r) \/ ApplyConfirmation(r) \/ Deregister(r)
             \/ RecordApplied(r) \/ LayerResolved(r) \/ SaveResolved(r)
    BY <2>1, HeldSame DEF EnterWait, WaitCancelled, Abort, ApplyConfirmation, Deregister, RecordApplied,
        LayerResolved, SaveResolved
  <2>2. CASE ApplyFailed(r) \/ SaveApplied(r)
    <3>1. pc[r] \in Applying
      BY <2>2 DEF ApplyFailed, SaveApplied, Abort, Moving, Goto, Applying
    <3> QED BY <2>2, <3>1, ReceiptHeld
  <2> QED BY <1>4, <2>1, <2>2, WaitTakesHeld DEF Confirming
<1>5. ASSUME NEW r \in Runs, Closing(r) PROVE HeldOnce'
  <2>1. CASE Claim(r) \/ WrapUp(r) \/ Publish(r)
    BY <2>1, HeldSame DEF Claim, WrapUp, Publish
  <2> QED BY <1>5, <2>1, FinalizeHeld DEF Closing
<1>6. CASE Environment
  BY <1>6, SignalHeld, SubmitHeld, LeaveHeld DEF Environment
<1>7. CASE UNCHANGED vars
  BY <1>7, HeldSame DEF vars
<1> QED BY <1>1, <1>2, <1>3, <1>4, <1>5, <1>6, <1>7, PanicHeld DEF Next, RunStep

LEMMA HeldInit == Init => HeldOnce
<1> SUFFICES ASSUME Init PROVE HeldOnce
  OBVIOUS
<1>1. \A r \in Runs : HeldBy(r) = {} /\ Apart(r)
  BY HeldIs, QueuedNothing DEF Init, Apart
<1> QED BY <1>1, HeldOnceIs DEF Unanswered

\* However submissions are queued, put aside, put back, applied and turned away, each
\* one sits in one place at most and has not had its receipt: no receipt channel gets a
\* second value (drainRunInbox, waitForConfirmations, clearConfirmationsLocked).
THEOREM OneReceipt == Spec => []HeldOnce
BY HeldInit, TypedInit, TypedStep, HeldStep, PTL DEF Spec

-----------------------------------------------------------------------------
(* Where a decision can be found. *)

\* The strengthening of VisibleRoutable: it holds of a decision from the moment it is
\* issued, which is before anybody sees it; a run that has not started has issued none;
\* and a decision leaves the ledger only after its outcome is recorded.
RoutableOK ==
    /\ \A d \in Decisions : \A r \in Runs :
          owner[d] = r /\ status[r] \in Active =>
              d \in ledger[r] \/ applied[d] # None \/ d \in dropped
    /\ \A r \in Runs : pc[r] = "none" => \A d \in Decisions : owner[d] # r
    /\ \A r \in Runs : pc[r] = "deregister" => applied[ask[hand[r]]] # None

\* A step that issues, applies and gives up no decision and closes no ledger.
LEMMA RoutableFrame ==
    ASSUME Typed, RoutableOK, UNCHANGED <<ledger, books>>,
           \A r \in Runs : status'[r] \in Active => status[r] \in Active \/ pc[r] = "none",
           \A r \in Runs : pc'[r] = "none" => pc[r] = "none",
           \A r \in Runs : pc'[r] = "deregister" =>
               pc[r] = "deregister" /\ ask'[hand'[r]] = ask[hand[r]]
    PROVE  RoutableOK'
BY DEF RoutableOK, books

LEMMA StartingRoutable ==
    ASSUME Typed, LifeOK, RoutableOK, NEW r \in Runs, Starting(r)
    PROVE  RoutableOK'
<1>1. /\ UNCHANGED <<ledger, books, hand, ask>>
      /\ \E p \in {"created", "load", "compact", "drain", "claim", "claimbare"} :
            pc' = [pc EXCEPT ![r] = p]
  BY DEF Starting, StartRun, MarkRunning, Loaded, LoadFailed, Compact, Moving, Ending, Goto, data,
         clients
<1>2. \A q \in Runs : status'[q] \in Active => status[q] \in Active \/ pc[q] = "none"
  <2>1. CASE StartRun(r)
    BY <2>1 DEF StartRun, Moving, Goto, Typed, TypeOK, RecordTypes
  <2>2. CASE MarkRunning(r)
    <3>1. status[r] \in Active
      BY <2>2 DEF MarkRunning, Moving, Goto, LifeOK, Life
    <3> QED BY <2>2, <3>1 DEF MarkRunning, Typed, TypeOK, RecordTypes
  <2>3. CASE Loaded(r) \/ LoadFailed(r) \/ Compact(r)
    BY <2>3 DEF Loaded, LoadFailed, Compact, data
  <2> QED BY <2>1, <2>2, <2>3 DEF Starting
<1> QED BY <1>1, <1>2, RoutableFrame DEF Typed, TypeOK, ControlTypes

LEMMA DrainingRoutable ==
    ASSUME Typed, RoutableOK, NEW r \in Runs, Draining(r)
    PROVE  RoutableOK'
<1>1. UNCHANGED <<ledger, books, hand, ask, status>>
  BY DEF Draining, DrainTake, DrainEmpty, Requeue, Drained, data, clients
<1>2. \A q \in Runs : pc'[q] = pc[q] \/ pc'[q] \notin {"none", "deregister"}
  BY DEF Draining, DrainTake, DrainEmpty, Requeue, Drained, BatchFailed, SaveFailed, Moving, Ending,
         Goto, Typed, TypeOK, ControlTypes
<1> QED BY <1>1, <1>2, RoutableFrame

LEMMA ConversingRoutable ==
    ASSUME Typed, LifeOK, RoutableOK, NEW r \in Runs, Conversing(r)
    PROVE  RoutableOK'
<1>1. /\ UNCHANGED <<hand, ask, status, applied>>
      /\ \A q \in Runs : pc'[q] = pc[q] \/ pc'[q] \notin {"none", "deregister"}
      /\ pc[r] # "none"
  <2>1. pc[r] \in {"flush", "model", "reply", "lastflush", "prepare", "announce", "execute",
                   "endbatch", "retry"}
    BY DEF Conversing, Flush, ModelReturns, SaveReply, LastFlush, PreparePlan, AnnouncePlan, Prepared,
           Execute, EndBatch, Retry, BatchFailed, SaveFailed, Moving, Ending, Goto
  <2>2. \E p \in Positions \ {"none", "deregister"} : pc' = [pc EXCEPT ![r] = p]
    BY DEF Conversing, Flush, ModelReturns, SaveReply, LastFlush, PreparePlan, AnnouncePlan, Prepared,
           Execute, EndBatch, Retry, BatchFailed, SaveFailed, Moving, Ending, Goto,
           Positions, Working, Settling
  <2>3. UNCHANGED <<hand, ask, status, applied>>
    BY DEF Conversing, Flush, ModelReturns, SaveReply, LastFlush, PreparePlan, AnnouncePlan, Prepared,
           Execute, EndBatch, Retry, data, clients, books
  <2> QED BY <2>1, <2>2, <2>3 DEF Typed, TypeOK, ControlTypes
<1>2. CASE UNCHANGED <<ledger, books>>
  BY <1>1, <1>2, RoutableFrame
<1>3. CASE PreparePlan(r)
  <2>1. PICK d \in Decisions : Register(r, d)
    BY <1>3 DEF PreparePlan
  <2>2. /\ owner' = [owner EXCEPT ![d] = r] /\ ledger' = [ledger EXCEPT ![r] = ledger[r] \cup {d}]
        /\ UNCHANGED <<applied, dropped>>
    BY <1>3, <2>1 DEF Register, PreparePlan
  <2> QED BY <1>1, <2>2 DEF RoutableOK, Typed, TypeOK, RecordTypes, BookTypes
<1>4. CASE AnnouncePlan(r)
  BY <1>1, <1>4 DEF AnnouncePlan, RoutableOK
<1>5. CASE Retry(r)
  <2>1. CASE UNCHANGED <<ledger, dropped>>
    BY <1>1, <1>5, <2>1 DEF Retry, RoutableOK
  <2>2. CASE /\ dropped' = dropped \cup ledger[r]
             /\ ledger' = [ledger EXCEPT ![r] = {}]
    BY <1>1, <1>5, <2>2 DEF Retry, RoutableOK, Typed, TypeOK, RecordTypes
  <2> QED BY <1>5, <2>1, <2>2 DEF Retry
<1> QED BY <1>2, <1>3, <1>4, <1>5
      DEF Conversing, Flush, ModelReturns, SaveReply, LastFlush, Prepared, Execute, EndBatch, data

LEMMA ConfirmingRoutable ==
    ASSUME Typed, LifeOK, RoutableOK, NEW r \in Runs, Confirming(r)
    PROVE  RoutableOK'
<1>1. /\ pc[r] \in {"await", "resolved", "wait", "applying", "deregister", "record", "saveapplied"}
      /\ \E p \in Positions \ {"none"} : pc' = [pc EXCEPT ![r] = p]
  BY DEF Confirming, EnterWait, WaitTakesSignal, WaitTakesSubmission, WaitCancelled, Waiting,
         ApplyConfirmation, ApplyFailed, Deregister, RecordApplied, SaveApplied, LayerResolved,
         SaveResolved, Abort, BatchFailed, SaveFailed, Moving, Ending, Goto,
         Positions, Working, Settling, Typed, TypeOK, ControlTypes
<1>2. /\ status[r] \in Active /\ pc[r] # "none"
      /\ \A q \in Runs : q # r => pc'[q] = pc[q]
      /\ pc'[r] # "none"
  BY <1>1 DEF LifeOK, Life, Working, Typed, TypeOK, ControlTypes
<1>3. UNCHANGED ask
  BY DEF Confirming, EnterWait, WaitTakesSignal, WaitTakesSubmission, WaitCancelled,
         ApplyConfirmation, ApplyFailed, Deregister, RecordApplied, SaveApplied, LayerResolved,
         SaveResolved, data, clients
<1>4. \A q \in Runs : status'[q] \in Active => status[q] \in Active
  <2>1. \A q \in Runs : q # r => status'[q] = status[q]
    BY DEF Confirming, EnterWait, WaitTakesSignal, WaitTakesSubmission, WaitCancelled,
           ApplyConfirmation, ApplyFailed, Deregister, RecordApplied, SaveApplied, LayerResolved,
           SaveResolved, data, Typed, TypeOK, RecordTypes
  <2> QED BY <1>2, <2>1
<1>5. CASE ApplyConfirmation(r)
  <2>1. /\ applied' = [applied EXCEPT ![ask[hand[r]]] = hand[r]]
        /\ UNCHANGED <<ledger, owner, dropped, hand, status>>
        /\ pc[r] = "applying" /\ pc' = [pc EXCEPT ![r] = "deregister"]
    BY <1>5 DEF ApplyConfirmation, Moving, Goto
  <2>2. hand[r] # None /\ ask[hand[r]] \in Decisions
    BY <2>1, NoneAssumption DEF Typed, HandOK, Applying
  <2> QED BY <1>3, <2>1, <2>2 DEF RoutableOK, Typed, TypeOK, ControlTypes, BookTypes
<1>6. CASE Deregister(r)
  <2>1. /\ ledger' = [ledger EXCEPT ![r] = ledger[r] \ {ask[hand[r]]}]
        /\ UNCHANGED <<books, hand, status>>
        /\ pc[r] = "deregister" /\ pc' = [pc EXCEPT ![r] = "record"]
    BY <1>6 DEF Deregister, Moving, Goto
  <2>2. applied[ask[hand[r]]] # None
    BY <2>1 DEF RoutableOK
  <2> QED BY <1>3, <2>1, <2>2 DEF RoutableOK, books, Typed, TypeOK, ControlTypes, RecordTypes
<1>7. CASE RecordApplied(r)
  <2>1. /\ UNCHANGED <<hand, status, applied, dropped>>
        /\ pc' = [pc EXCEPT ![r] = "saveapplied"]
    BY <1>7 DEF RecordApplied, Moving, Goto
  <2>2. CASE UNCHANGED <<owner, ledger>>
    BY <1>2, <1>3, <2>1, <2>2 DEF RoutableOK, Typed, TypeOK, ControlTypes
  <2>3. CASE \E d \in Decisions : Register(r, d)
    <3>1. PICK d \in Decisions : Register(r, d)
      BY <2>3
    <3>2. owner' = [owner EXCEPT ![d] = r] /\ ledger' = [ledger EXCEPT ![r] = ledger[r] \cup {d}]
      BY <3>1 DEF Register
    <3> QED BY <1>2, <1>3, <2>1, <3>2
        DEF RoutableOK, Typed, TypeOK, ControlTypes, RecordTypes, BookTypes
  <2> QED BY <1>7, <2>2, <2>3 DEF RecordApplied
<1>8. CASE EnterWait(r) \/ WaitTakesSignal(r) \/ WaitTakesSubmission(r) \/ WaitCancelled(r)
           \/ ApplyFailed(r) \/ SaveApplied(r) \/ LayerResolved(r) \/ SaveResolved(r)
  <2>1. UNCHANGED <<ledger, owner, dropped, applied>>
    BY <1>8 DEF EnterWait, WaitTakesSignal, WaitTakesSubmission, WaitCancelled, ApplyFailed,
                SaveApplied, LayerResolved, SaveResolved, data, books
  <2>2. pc'[r] # "deregister" /\ (\A q \in Runs : q # r => hand'[q] = hand[q])
    <3>1. pc'[r] # "deregister"
      BY <1>8 DEF EnterWait, WaitTakesSignal, WaitTakesSubmission, WaitCancelled, Waiting, ApplyFailed,
                  SaveApplied, LayerResolved, SaveResolved, Abort, BatchFailed, SaveFailed, Moving,
                  Ending, Goto, Typed, TypeOK, ControlTypes
    <3>2. \A q \in Runs : q # r => hand'[q] = hand[q]
      BY <1>8 DEF EnterWait, WaitTakesSignal, WaitTakesSubmission, WaitCancelled, ApplyFailed,
                  SaveApplied, LayerResolved, SaveResolved, Receipt, data, Typed, TypeOK, BatchTypes
    <3> QED BY <3>1, <3>2
  <2> QED BY <1>2, <1>3, <1>4, <2>1, <2>2 DEF RoutableOK
<1> QED BY <1>5, <1>6, <1>7, <1>8 DEF Confirming

LEMMA ClosingRoutable ==
    ASSUME Typed, LifeOK, RoutableOK, NEW r \in Runs, Closing(r)
    PROVE  RoutableOK'
<1>1. CASE Claim(r) \/ WrapUp(r) \/ Publish(r)
  <2>1. /\ UNCHANGED <<ledger, books, hand, ask>>
        /\ \E p \in {"wrapup", "publish", "finalize"} : pc' = [pc EXCEPT ![r] = p]
    BY <1>1 DEF Claim, WrapUp, Publish, Moving, Goto, data, clients
  <2>2. \A q \in Runs : status'[q] \in Active => status[q] \in Active
    BY <1>1 DEF Claim, WrapUp, Publish, Unsettled, data, Typed, TypeOK, RecordTypes
  <2> QED BY <2>1, <2>2, RoutableFrame DEF Typed, TypeOK, ControlTypes
<1>2. CASE FinalizeRun(r)
  <2>1. /\ ledger' = [ledger EXCEPT ![r] = {}]
        /\ UNCHANGED <<books, hand, ask, status>>
        /\ pc[r] = "finalize"
        /\ \E p \in {"claim", "done"} : pc' = [pc EXCEPT ![r] = p]
    BY <1>2 DEF FinalizeRun, ClearConfirmations
  <2>2. status[r] \notin Active
    BY <2>1 DEF LifeOK, Life, Settled, Terminal, Active
  <2> QED BY <2>1, <2>2 DEF RoutableOK, books, Typed, TypeOK, ControlTypes, RecordTypes
<1> QED BY <1>1, <1>2 DEF Closing

LEMMA EnvironmentRoutable ==
    ASSUME Typed, HeldOnce, RoutableOK, Environment
    PROVE  RoutableOK'
<1>1. UNCHANGED <<ledger, books, hand, status, pc>>
  BY DEF Environment, CancelRun, NotifyAsyncReady, SubmitToolConfirmation, SubmitterLeaves, layer
<1>2. ASSUME NEW r \in Runs, pc[r] = "deregister" PROVE ask'[hand[r]] = ask[hand[r]]
  <2>1. hand[r] \in Clients /\ hand[r] # None
    BY <1>2, NoneAssumption DEF Typed, HandOK, Applying
  <2>2. reply[hand[r]] # "idle"
    BY <2>1, HeldIs, HeldOnceIs DEF Unanswered
  <2>3. ASSUME NEW c \in Clients, NEW d \in Decisions, SubmitToolConfirmation(c, d)
        PROVE  ask'[hand[r]] = ask[hand[r]]
    BY <2>1, <2>2, <2>3 DEF SubmitToolConfirmation, Typed, TypeOK, BookTypes
  <2> QED BY <2>3 DEF Environment, CancelRun, NotifyAsyncReady, SubmitterLeaves, clients
<1> QED BY <1>1, <1>2, RoutableFrame

LEMMA RoutableStep ==
    Typed /\ LifeOK /\ HeldOnce /\ RoutableOK /\ [Next]_vars => RoutableOK'
<1> SUFFICES ASSUME Typed, LifeOK, HeldOnce, RoutableOK, [Next]_vars PROVE RoutableOK'
  OBVIOUS
<1>1. ASSUME NEW r \in Runs, RunStep(r) PROVE RoutableOK'
  BY <1>1, StartingRoutable, DrainingRoutable, ConversingRoutable, ConfirmingRoutable,
     ClosingRoutable DEF RunStep
<1>2. ASSUME NEW r \in Runs, Panic(r) PROVE RoutableOK'
  <2>1. /\ UNCHANGED <<ledger, books, status>>
        /\ hand' = [hand EXCEPT ![r] = None] /\ UNCHANGED ask
        /\ \E p \in {"claim", "publish"} : pc' = [pc EXCEPT ![r] = p]
    BY <1>2 DEF Panic, Goto, Ending, clients
  <2> QED BY <2>1, RoutableFrame DEF Typed, TypeOK, ControlTypes, BatchTypes
<1>3. CASE Environment
  BY <1>3, EnvironmentRoutable
<1>4. CASE UNCHANGED vars
  BY <1>4, RoutableFrame DEF vars, data, clients
<1> QED BY <1>1, <1>2, <1>3, <1>4 DEF Next

\* A decision that was issued, whether a client has seen it yet or not, can be routed to
\* its run as long as the run is active, or has an outcome that is already recorded, or
\* was given up with its batch.
THEOREM Routable == Spec => []VisibleRoutable
<1>1. Init => RoutableOK
  BY NoneAssumption DEF Init, RoutableOK
<1>2. Typed /\ RoutableOK => VisibleRoutable
  BY DEF Typed, TypeOK, BookTypes, RoutableOK, VisibleRoutable
<1> QED BY <1>1, <1>2, HeldInit, TypedInit, TypedStep, LifeInit, LifeStep, HeldStep, RoutableStep, PTL
    DEF Spec

-----------------------------------------------------------------------------
(* Nobody waits in vain, as long as the inboxes have room. *)

\* Submissions are put aside while the inbox is drained only, and held in hand while
\* they are applied only.
AsideOK ==
    \A r \in Runs : /\ deferred[r] # <<>> => pc[r] \in {"drain", "requeue"}
                    /\ hand[r] # None => pc[r] \in Applying

\* No inbox has ever had more to take than what was sent.
Sent == {c \in Clients : reply[c] # "idle"}
RoomOK ==
    \A r \in Runs : Len(inbox[r]) + Len(deferred[r]) <= signals + Cardinality(Sent)

StrandedInv == AsideOK /\ RoomOK /\ NoneStranded

LEMMA AsideStep == Typed /\ AsideOK /\ [Next]_vars => AsideOK'
<1> SUFFICES ASSUME Typed, AsideOK, [Next]_vars PROVE AsideOK'
  OBVIOUS
<1>1. /\ pc \in [Runs -> Positions] /\ hand \in [Runs -> Clients \cup {None}]
      /\ deferred \in [Runs -> Seq(Event)]
  BY DEF Typed, TypeOK, ControlTypes, QueueTypes, BatchTypes
<1> USE DEF AsideOK, Moving, Goto, Ending, Applying, data, locals, layer, clients, identity, trying, books
<1>2. ASSUME NEW r \in Runs, Starting(r) PROVE AsideOK'
  BY <1>1, <1>2 DEF Starting, StartRun, MarkRunning, Loaded, LoadFailed, Compact
<1>3. ASSUME NEW r \in Runs, Draining(r) PROVE AsideOK'
  <2>1. CASE DrainTake(r) \/ DrainEmpty(r) \/ Requeue(r)
    BY <1>1, <2>1 DEF DrainTake, Defer, DrainEmpty, Requeue
  <2>2. CASE Drained(r)
    BY <1>1, <2>2 DEF Drained, BatchFailed, SaveFailed
  <2> QED BY <1>3, <2>1, <2>2 DEF Draining
<1>4. ASSUME NEW r \in Runs, Conversing(r) PROVE AsideOK'
  <2>1. UNCHANGED <<deferred, hand>>
    BY <1>4 DEF Conversing, Flush, ModelReturns, SaveReply, LastFlush, PreparePlan, AnnouncePlan,
       Prepared, Execute, EndBatch, Retry
  <2>2. /\ pc[r] \notin {"drain", "requeue"} \cup Applying
        /\ \E p \in Positions : pc' = [pc EXCEPT ![r] = p]
    BY <1>4 DEF Conversing, Flush, ModelReturns, SaveReply, LastFlush, PreparePlan, AnnouncePlan,
       Prepared, Execute, EndBatch, Retry, BatchFailed, SaveFailed, Positions, Working, Settling
  <2> QED BY <1>1, <2>1, <2>2
<1>5. ASSUME NEW r \in Runs, Confirming(r) PROVE AsideOK'
  <2>1. CASE EnterWait(r) \/ SaveResolved(r)
    BY <1>1, <2>1 DEF EnterWait, SaveResolved, BatchFailed, SaveFailed
  <2>2. CASE WaitTakesSignal(r) \/ WaitTakesSubmission(r) \/ WaitCancelled(r)
    BY <1>1, <2>2 DEF WaitTakesSignal, WaitTakesSubmission, WaitCancelled, Waiting, Abort
  <2>3. CASE ApplyConfirmation(r) \/ Deregister(r) \/ RecordApplied(r) \/ LayerResolved(r)
    BY <1>1, <2>3 DEF ApplyConfirmation, Deregister, RecordApplied, LayerResolved
  <2>4. CASE ApplyFailed(r) \/ SaveApplied(r)
    BY <1>1, <2>4 DEF ApplyFailed, SaveApplied, Abort, Receipt
  <2> QED BY <1>5, <2>1, <2>2, <2>3, <2>4 DEF Confirming
<1>6. ASSUME NEW r \in Runs, Closing(r) PROVE AsideOK'
  BY <1>1, <1>6 DEF Closing, Claim, WrapUp, Publish, FinalizeRun
<1>7. ASSUME NEW r \in Runs, Panic(r) PROVE AsideOK'
  BY <1>1, <1>7 DEF Panic
<1>8. CASE Environment
  BY <1>8 DEF Environment, CancelRun, NotifyAsyncReady, SubmitToolConfirmation, SubmitterLeaves
<1>9. CASE UNCHANGED vars
  BY <1>9 DEF vars
<1> QED BY <1>2, <1>3, <1>4, <1>5, <1>6, <1>7, <1>8, <1>9 DEF Next, RunStep

\* Answers do not bring a submission back.
Answers(r) ==
    /\ UNCHANGED <<signals, ask>>
    /\ \A c \in Clients : reply'[c] = reply[c] \/ (reply[c] = "waiting" /\ reply'[c] # "idle")
    /\ \A q \in Runs \ {r} :
           inbox'[q] = inbox[q] /\ deferred'[q] = deferred[q] /\ hand'[q] = hand[q]

LEMMA AnswersSent ==
    ASSUME NEW r \in Runs, Answers(r)
    PROVE  Sent' = Sent
BY DEF Answers, Sent

\* Every event finds room, for no more of them are sent than an inbox holds, and the
\* goroutine does not panic while it has submissions aside or in hand.
Roomy ==
    /\ CrashPoints \cap ({"drain", "requeue"} \cup Applying) = {}
    /\ IsFiniteSet(Clients)
    /\ MaxSignals + Cardinality(Clients) <= InboxCap

LEMMA SentCounts ==
    ASSUME Typed, IsFiniteSet(Clients)
    PROVE  /\ IsFiniteSet(Sent)
           /\ Cardinality(Sent) \in Nat /\ Cardinality(Clients) \in Nat
           /\ Cardinality(Sent) <= Cardinality(Clients)
           /\ signals \in Nat /\ signals <= MaxSignals /\ MaxSignals \in Nat
<1>1. Sent \subseteq Clients
  BY DEF Sent
<1>2. signals \in 0..MaxSignals
  BY DEF Typed, TypeOK, QueueTypes
<1> QED BY <1>1, <1>2, FS_Subset, FS_CardinalityType, BoundsAssumption

LEMMA Lengths ==
    ASSUME Typed, NEW r \in Runs
    PROVE  Len(inbox[r]) \in Nat /\ Len(deferred[r]) \in Nat
BY DEF Typed, TypeOK, QueueTypes

\* A step that answers some of the submissions one run holds, and keeps the others.
LEMMA Serves ==
    ASSUME Roomy, Typed, StrandedInv, NEW r \in Runs, Answers(r),
           Len(inbox'[r]) + Len(deferred'[r]) <= Len(inbox[r]) + Len(deferred[r]),
           Len(inbox'[r]) + Len(deferred'[r]) \in Nat,
           \A c \in HeldBy(r) : c \in HeldBy(r)' \/ reply'[c] # "waiting"
    PROVE  RoomOK' /\ NoneStranded'
<1>1. Sent' = Sent /\ signals' = signals
  BY AnswersSent DEF Answers
<1>2. ASSUME NEW q \in Runs
      PROVE  (Len(inbox[q]) + Len(deferred[q]) <= signals + Cardinality(Sent))'
  <2> DEFINE n == signals + Cardinality(Sent)
             old == Len(inbox[q]) + Len(deferred[q])
             new == Len(inbox'[q]) + Len(deferred'[q])
  <2>1. old <= n /\ old \in Nat /\ n \in Nat
    <3>1. old <= n
      BY DEF StrandedInv, RoomOK
    <3>2. Len(inbox[q]) \in Nat /\ Len(deferred[q]) \in Nat
      BY Lengths
    <3>3. signals \in Nat /\ Cardinality(Sent) \in Nat
      BY SentCounts DEF Roomy
    <3> DEFINE a == Len(inbox[q])  b == Len(deferred[q])  k == Cardinality(Sent)
    <3>4. old = a + b /\ n = signals + k /\ {a, b, k, signals} \subseteq Nat
      BY <3>2, <3>3
    <3> HIDE DEF a, b, k, old, n
    <3> QED BY <3>1, <3>4
  <2>2. new <= old /\ new \in Nat
    <3>1. CASE q = r
      BY <3>1
    <3>2. CASE q # r
      <4>1. inbox'[q] = inbox[q] /\ deferred'[q] = deferred[q]
        BY <3>2 DEF Answers
      <4>2. new = old
        BY <4>1
      <4> HIDE DEF n, old, new
      <4> QED BY <2>1, <4>2
    <3> QED BY <3>1, <3>2
  <2>3. new <= n
    <3> HIDE DEF n, old, new
    <3> QED BY <2>1, <2>2
  <2> QED BY <1>1, <2>3
<1>3. ASSUME NEW c \in Clients, reply'[c] = "waiting"
      PROVE  \E q \in Runs : c \in HeldBy(q)'
  <2>1. reply[c] = "waiting"
    BY <1>3 DEF Answers
  <2>2. PICK q \in Runs : c \in HeldBy(q)
    BY <2>1 DEF StrandedInv, NoneStranded
  <2>3. CASE q = r
    BY <1>3, <2>2, <2>3
  <2>4. CASE q # r
    <3>1. HeldBy(q)' = HeldBy(q)
      BY <2>4, HeldIs DEF Answers
    <3> QED BY <2>2, <3>1
  <2> QED BY <2>3, <2>4
<1> QED BY <1>2, <1>3 DEF RoomOK, NoneStranded

LEMMA ServesNobody ==
    ASSUME Roomy, Typed, StrandedInv, UNCHANGED <<inbox, deferred, hand, ask, reply, signals>>
    PROVE  RoomOK' /\ NoneStranded'
<1>1. Sent' = Sent
  BY DEF Sent
<1>2. \A q \in Runs : HeldBy(q)' = HeldBy(q)
  BY HeldIs
<1> QED BY <1>1, <1>2 DEF StrandedInv, RoomOK, NoneStranded

LEMMA DrainTakeServes ==
    ASSUME Roomy, Typed, HeldOnce, StrandedInv, NEW r \in Runs, DrainTake(r)
    PROVE  RoomOK' /\ NoneStranded'
<1> DEFINE e == Head(inbox[r])
<1>1. /\ inbox[r] \in Seq(Event) /\ inbox[r] # <<>> /\ deferred[r] \in Seq(Event)
      /\ e \in Event
      /\ inbox \in [Runs -> Seq(Event)] /\ deferred \in [Runs -> Seq(Event)]
      /\ reply \in [Clients -> {"idle", "waiting", "ok", "rejected", "gaveup"}]
  BY DEF DrainTake, Typed, TypeOK, QueueTypes, BookTypes
<1>2. /\ inbox' = [inbox EXCEPT ![r] = Tail(inbox[r])] /\ UNCHANGED <<hand, signals, ask>>
      /\ \/ e.kind # "confirm" /\ UNCHANGED <<deferred, reply>>
         \/ /\ e.kind = "confirm" /\ UNCHANGED reply
            /\ deferred' = [deferred EXCEPT ![r] = Append(deferred[r], e)]
         \/ /\ e.kind = "confirm" /\ UNCHANGED deferred
            /\ reply' = Told(e.by, "rejected")
  BY DEF DrainTake, Defer
<1>3. Len(Tail(inbox[r])) = Len(inbox[r]) - 1 /\ Len(inbox[r]) \in Nat \ {0} /\ Len(deferred[r]) \in Nat
  BY <1>1
<1>4. Len(Append(deferred[r], e)) = Len(deferred[r]) + 1
  BY <1>1
<1> HIDE DEF e
<1>5. Apart(r)
  BY HeldOnceIs
<1>6. /\ Queued(inbox[r]) \subseteq Queued(Tail(inbox[r])) \cup {e.by}
      /\ e.kind # "confirm" => Queued(inbox[r]) = Queued(Tail(inbox[r]))
      /\ e.kind = "confirm" => e.by \in Queued(inbox[r])
  BY <1>1, <1>5, QueuedTail DEF Apart, e
<1>7. /\ Answers(r)
      /\ Len(inbox'[r]) + Len(deferred'[r]) <= Len(inbox[r]) + Len(deferred[r])
      /\ Len(inbox'[r]) + Len(deferred'[r]) \in Nat
  <2>1. Answers(r)
    BY <1>1, <1>2 DEF Answers, Told
  <2>2. Len(inbox'[r]) = Len(inbox[r]) - 1 /\ Len(deferred'[r]) \in {Len(deferred[r]), Len(deferred[r]) + 1}
    BY <1>1, <1>2, <1>3, <1>4
  <2> DEFINE i == Len(inbox[r])  j == Len(deferred[r])  k == Len(inbox'[r])  l == Len(deferred'[r])
  <2>3. i \in Nat \ {0} /\ j \in Nat /\ k = i - 1 /\ l \in {j, j + 1}
    BY <1>3, <2>2
  <2>4. k + l <= i + j /\ k + l \in Nat
    <3> HIDE DEF i, j, k, l
    <3> QED BY <2>3
  <2> QED BY <2>1, <2>4
<1>8. \A c \in HeldBy(r) : c \in HeldBy(r)' \/ reply'[c] # "waiting"
  <2>1. CASE e.kind # "confirm" /\ UNCHANGED <<deferred, reply>>
    BY <1>1, <1>2, <1>6, <2>1, HeldIs
  <2>2. CASE /\ e.kind = "confirm" /\ UNCHANGED reply
             /\ deferred' = [deferred EXCEPT ![r] = Append(deferred[r], e)]
    <3>1. Queued(Append(deferred[r], e)) = Queued(deferred[r]) \cup {e.by}
      BY <1>1, <1>5, <1>6, <2>2, QueuedAppend DEF Apart
    <3> QED BY <1>1, <1>2, <1>6, <2>2, <3>1, HeldIs
  <2>3. CASE e.kind = "confirm" /\ UNCHANGED deferred /\ reply' = Told(e.by, "rejected")
    <3>1. reply'[e.by] # "waiting"
      BY <1>1, <2>3, EventFacts DEF Told
    <3> QED BY <1>1, <1>2, <1>6, <2>3, <3>1, HeldIs
  <2> QED BY <1>2, <2>1, <2>2, <2>3
<1> QED BY <1>7, <1>8, Serves

\* What was put aside finds room again.
LEMMA RequeueServes ==
    ASSUME Roomy, Typed, HeldOnce, StrandedInv, NEW r \in Runs, Requeue(r)
    PROVE  RoomOK' /\ NoneStranded'
<1> DEFINE e == Head(deferred[r])
<1>1. /\ inbox[r] \in Seq(Event) /\ deferred[r] # <<>> /\ deferred[r] \in Seq(Event)
      /\ e \in Event
      /\ inbox \in [Runs -> Seq(Event)] /\ deferred \in [Runs -> Seq(Event)]
  BY DEF Requeue, Typed, TypeOK, QueueTypes
<1>2. /\ deferred' = [deferred EXCEPT ![r] = Tail(deferred[r])]
      /\ UNCHANGED <<hand, signals, ask, reply>>
      /\ Enqueue(r, e)
  BY DEF Requeue, clients
<1>3. /\ Len(Tail(deferred[r])) = Len(deferred[r]) - 1 /\ Len(deferred[r]) \in Nat \ {0}
      /\ Len(inbox[r]) \in Nat
  BY <1>1
<1> HIDE DEF e
<1>4. Apart(r)
  BY HeldOnceIs
<1>5. /\ Queued(deferred[r]) \subseteq Queued(Tail(deferred[r])) \cup {e.by}
      /\ e.kind # "confirm" => Queued(deferred[r]) = Queued(Tail(deferred[r]))
      /\ e.kind = "confirm" => e.by \in Queued(deferred[r])
  BY <1>1, <1>4, QueuedTail DEF Apart, e
<1>6. HasRoom(r)
  <2>1. Len(inbox[r]) + Len(deferred[r]) <= signals + Cardinality(Sent)
    BY DEF StrandedInv, RoomOK
  <2>2. /\ Cardinality(Sent) \in Nat /\ Cardinality(Clients) \in Nat
        /\ Cardinality(Sent) <= Cardinality(Clients)
        /\ signals \in Nat /\ signals <= MaxSignals /\ MaxSignals \in Nat
        /\ MaxSignals + Cardinality(Clients) <= InboxCap /\ InboxCap \in Nat
    BY SentCounts, BoundsAssumption DEF Roomy
  <2> DEFINE i == Len(inbox[r])  j == Len(deferred[r])  k == Cardinality(Sent)  n == Cardinality(Clients)
  <2>3. /\ i \in Nat /\ j \in Nat \ {0} /\ i + j <= signals + k
        /\ k \in Nat /\ n \in Nat /\ k <= n /\ MaxSignals + n <= InboxCap
    BY <1>3, <2>1, <2>2
  <2>4. i < InboxCap
    <3> HIDE DEF i, j, k, n
    <3> QED BY <2>2, <2>3
  <2> QED BY <2>4 DEF HasRoom
<1>7. /\ \A q \in Runs \ {r} : inbox'[q] = inbox[q]
      /\ Queued(inbox'[r]) = Queued(inbox[r]) \cup (IF e.kind = "confirm" THEN {e.by} ELSE {})
      /\ Len(inbox'[r]) = Len(inbox[r]) + 1
  <2>1. Once(inbox[r]) /\ (e.kind = "confirm" => e.by \notin Queued(inbox[r]))
    BY <1>4, <1>5 DEF Apart
  <2> QED BY <1>1, <1>2, <1>6, <2>1, Enqueued
<1>8. /\ Answers(r)
      /\ Len(inbox'[r]) + Len(deferred'[r]) <= Len(inbox[r]) + Len(deferred[r])
      /\ Len(inbox'[r]) + Len(deferred'[r]) \in Nat
  <2>1. Answers(r)
    BY <1>1, <1>2, <1>7 DEF Answers
  <2>2. Len(deferred'[r]) = Len(deferred[r]) - 1
    BY <1>1, <1>2, <1>3
  <2> DEFINE i == Len(inbox[r])  j == Len(deferred[r])  k == Len(inbox'[r])  l == Len(deferred'[r])
  <2>3. i \in Nat /\ j \in Nat \ {0} /\ k = i + 1 /\ l = j - 1
    BY <1>3, <1>7, <2>2
  <2>4. k + l <= i + j /\ k + l \in Nat
    <3> HIDE DEF i, j, k, l
    <3> QED BY <2>3
  <2> QED BY <2>1, <2>4
<1>9. \A c \in HeldBy(r) : c \in HeldBy(r)'
  BY <1>1, <1>2, <1>5, <1>7, HeldIs
<1> QED BY <1>8, <1>9, Serves

LEMMA WaitTakesServes ==
    ASSUME Roomy, Typed, HeldOnce, StrandedInv, NEW r \in Runs,
           WaitTakesSignal(r) \/ WaitTakesSubmission(r)
    PROVE  RoomOK' /\ NoneStranded'
<1> DEFINE e == Head(inbox[r])
<1>1. /\ inbox[r] \in Seq(Event) /\ inbox[r] # <<>> /\ e \in Event
      /\ inbox \in [Runs -> Seq(Event)] /\ hand \in [Runs -> Clients \cup {None}]
      /\ reply \in [Clients -> {"idle", "waiting", "ok", "rejected", "gaveup"}]
  BY DEF WaitTakesSignal, WaitTakesSubmission, Typed, TypeOK, QueueTypes, BatchTypes, BookTypes
<1>2. /\ inbox' = [inbox EXCEPT ![r] = Tail(inbox[r])] /\ UNCHANGED <<deferred, signals, ask>>
      /\ \/ e.kind # "confirm" /\ UNCHANGED <<hand, reply>>
         \/ /\ e.kind = "confirm" /\ UNCHANGED reply
            /\ hand' = [hand EXCEPT ![r] = e.by]
         \/ /\ e.kind = "confirm" /\ UNCHANGED hand
            /\ reply' = Told(e.by, "rejected")
  BY DEF WaitTakesSignal, WaitTakesSubmission, Abort, locals, clients
<1>3. pc[r] = "wait"
  BY DEF WaitTakesSignal, WaitTakesSubmission, Waiting
<1>4. hand[r] = None
  BY <1>3 DEF StrandedInv, AsideOK, Applying
<1>5. Len(Tail(inbox[r])) = Len(inbox[r]) - 1 /\ Len(inbox[r]) \in Nat \ {0}
  BY <1>1
<1> HIDE DEF e
<1>6. Apart(r)
  BY HeldOnceIs
<1>7. /\ Queued(inbox[r]) \subseteq Queued(Tail(inbox[r])) \cup {e.by}
      /\ e.kind # "confirm" => Queued(inbox[r]) = Queued(Tail(inbox[r]))
  BY <1>1, <1>6, QueuedTail DEF Apart, e
<1>8. /\ Answers(r)
      /\ Len(inbox'[r]) + Len(deferred'[r]) <= Len(inbox[r]) + Len(deferred[r])
      /\ Len(inbox'[r]) + Len(deferred'[r]) \in Nat
  <2>1. Answers(r)
    BY <1>1, <1>2 DEF Answers, Told
  <2> DEFINE i == Len(inbox[r])  j == Len(deferred[r])  k == Len(inbox'[r])  l == Len(deferred'[r])
  <2>2. i \in Nat \ {0} /\ j \in Nat /\ k = i - 1 /\ l = j
    BY <1>1, <1>2, <1>5, Lengths
  <2>3. k + l <= i + j /\ k + l \in Nat
    <3> HIDE DEF i, j, k, l
    <3> QED BY <2>2
  <2> QED BY <2>1, <2>3
<1>9. \A c \in HeldBy(r) : c \in HeldBy(r)' \/ reply'[c] # "waiting"
  <2>1. CASE e.kind # "confirm" /\ UNCHANGED <<hand, reply>>
    BY <1>1, <1>2, <1>7, <2>1, HeldIs
  <2>2. CASE e.kind = "confirm" /\ UNCHANGED reply /\ hand' = [hand EXCEPT ![r] = e.by]
    <3>1. e.by # None
      BY <1>1, <2>2, EventFacts, NoneAssumption
    <3> QED BY <1>1, <1>2, <1>4, <1>7, <2>2, <3>1, HeldIs
  <2>3. CASE e.kind = "confirm" /\ UNCHANGED hand /\ reply' = Told(e.by, "rejected")
    <3>1. reply'[e.by] # "waiting"
      BY <1>1, <2>3, EventFacts DEF Told
    <3> QED BY <1>1, <1>2, <1>7, <2>3, <3>1, HeldIs
  <2> QED BY <1>2, <2>1, <2>2, <2>3
<1> QED BY <1>8, <1>9, Serves

LEMMA ReceiptServes ==
    ASSUME Roomy, Typed, StrandedInv, NEW r \in Runs, pc[r] \in Applying,
           ApplyFailed(r) \/ SaveApplied(r)
    PROVE  RoomOK' /\ NoneStranded'
<1>1. /\ UNCHANGED <<inbox, deferred, signals, ask>>
      /\ \E answer \in {"ok", "rejected"} : Receipt(r, answer)
  BY DEF ApplyFailed, SaveApplied, Abort, locals
<1>2. /\ hand' = [hand EXCEPT ![r] = None] /\ hand \in [Runs -> Clients \cup {None}]
      /\ \A c \in Clients : reply'[c] = reply[c] \/ (reply[c] = "waiting" /\ reply'[c] # "idle")
      /\ hand[r] \in Clients => reply'[hand[r]] # "waiting"
  BY <1>1 DEF Receipt, Told, Typed, TypeOK, BatchTypes, BookTypes
<1>3. hand[r] \in Clients
  BY DEF Typed, HandOK
<1>4. Answers(r)
  BY <1>1, <1>2 DEF Answers
<1>5. \A c \in HeldBy(r) : c \in HeldBy(r)' \/ reply'[c] # "waiting"
  BY <1>1, <1>2, <1>3, HeldIs
<1>6. /\ Len(inbox'[r]) + Len(deferred'[r]) <= Len(inbox[r]) + Len(deferred[r])
      /\ Len(inbox'[r]) + Len(deferred'[r]) \in Nat
  <2> DEFINE i == Len(inbox[r])  j == Len(deferred[r])  k == Len(inbox'[r])  l == Len(deferred'[r])
  <2>1. i \in Nat /\ j \in Nat /\ k = i /\ l = j
    BY <1>1, Lengths
  <2>2. k + l <= i + j /\ k + l \in Nat
    <3> HIDE DEF i, j, k, l
    <3> QED BY <2>1
  <2> QED BY <2>2
<1> QED BY <1>4, <1>5, <1>6, Serves

LEMMA FinalizeServes ==
    ASSUME Roomy, Typed, StrandedInv, NEW r \in Runs, FinalizeRun(r)
    PROVE  RoomOK' /\ NoneStranded'
<1>1. /\ inbox' = [inbox EXCEPT ![r] = <<>>] /\ inbox \in [Runs -> Seq(Event)]
      /\ UNCHANGED <<deferred, hand, signals, ask>>
      /\ reply' = [c \in Clients |->
                     IF c \in Queued(inbox[r]) /\ reply[c] = "waiting" THEN "rejected" ELSE reply[c]]
  BY DEF FinalizeRun, ClearConfirmations, locals, Typed, TypeOK, QueueTypes
<1>2. Answers(r) /\ \A c \in Queued(inbox[r]) : reply'[c] # "waiting"
  <2>1. Queued(inbox[r]) \subseteq Clients
    BY <1>1, QueuedClients
  <2> QED BY <1>1, <2>1 DEF Answers
<1>3. \A c \in HeldBy(r) : c \in HeldBy(r)' \/ reply'[c] # "waiting"
  BY <1>1, <1>2, HeldIs
<1>4. /\ Len(inbox'[r]) + Len(deferred'[r]) <= Len(inbox[r]) + Len(deferred[r])
      /\ Len(inbox'[r]) + Len(deferred'[r]) \in Nat
  <2> DEFINE i == Len(inbox[r])  j == Len(deferred[r])  k == Len(inbox'[r])  l == Len(deferred'[r])
  <2>1. i \in Nat /\ j \in Nat /\ k = 0 /\ l = j
    BY <1>1, Lengths
  <2>2. k + l <= i + j /\ k + l \in Nat
    <3> HIDE DEF i, j, k, l
    <3> QED BY <2>1
  <2> QED BY <2>2
<1> QED BY <1>2, <1>3, <1>4, Serves

\* One more event is sent, and goes to one inbox at most.
LEMMA RoomGrows ==
    ASSUME Roomy, Typed, StrandedInv, NEW r \in Runs, UNCHANGED deferred,
           \A q \in Runs \ {r} : inbox'[q] = inbox[q],
           Len(inbox'[r]) \in {Len(inbox[r]), Len(inbox[r]) + 1},
           signals' + Cardinality(Sent') = signals + Cardinality(Sent) + 1
    PROVE  RoomOK'
<1> SUFFICES ASSUME NEW q \in Runs
             PROVE  (Len(inbox[q]) + Len(deferred[q]) <= signals + Cardinality(Sent))'
  BY DEF RoomOK
<1> DEFINE n == signals + Cardinality(Sent)   m == signals' + Cardinality(Sent')
           i == Len(inbox[q])  j == Len(deferred[q])  k == Len(inbox'[q])
<1>1. n \in Nat /\ m = n + 1
  <2>1. signals \in Nat /\ Cardinality(Sent) \in Nat
    BY SentCounts DEF Roomy
  <2> QED BY <2>1
<1>2. i \in Nat /\ j \in Nat /\ k \in {i, i + 1}
  BY Lengths
<1>3. i + j <= n
  BY DEF StrandedInv, RoomOK
<1>4. k + j <= m
  <2> HIDE DEF n, m, i, j, k
  <2> QED BY <1>1, <1>2, <1>3
<1> QED BY <1>4

LEMMA SignalServes ==
    ASSUME Roomy, Typed, HeldOnce, StrandedInv, NEW r \in Runs, CancelRun(r) \/ NotifyAsyncReady(r)
    PROVE  RoomOK' /\ NoneStranded'
<1>1. PICK e \in {Stop, Ready} : Enqueue(r, e)
  BY DEF CancelRun, NotifyAsyncReady
<1>2. e \in Event /\ e.kind # "confirm"
  BY EventFacts DEF Stop, Ready
<1>3. UNCHANGED <<deferred, hand, reply>> /\ signals' = signals + 1
  BY DEF CancelRun, NotifyAsyncReady, locals, clients
<1>4. /\ \A q \in Runs \ {r} : inbox'[q] = inbox[q]
      /\ Queued(inbox'[r]) = Queued(inbox[r])
      /\ Len(inbox'[r]) = Len(inbox[r]) + (IF HasRoom(r) THEN 1 ELSE 0)
  <2>1. Apart(r)
    BY HeldOnceIs
  <2> QED BY <1>1, <1>2, <2>1, Enqueued DEF Apart
<1>5. RoomOK'
  <2>1. Len(inbox'[r]) \in {Len(inbox[r]), Len(inbox[r]) + 1}
    <3> DEFINE i == Len(inbox[r])  k == Len(inbox'[r])
    <3>1. k = i + (IF HasRoom(r) THEN 1 ELSE 0) /\ i \in Nat
      BY <1>4, Lengths
    <3>2. k \in {i, i + 1}
      <4> HIDE DEF i, k
      <4> QED BY <3>1
    <3> QED BY <3>2
  <2>2. signals' + Cardinality(Sent') = signals + Cardinality(Sent) + 1
    <3>1. Sent' = Sent
      BY <1>3 DEF Sent
    <3>2. signals \in Nat /\ Cardinality(Sent) \in Nat
      BY SentCounts DEF Roomy
    <3> DEFINE k == Cardinality(Sent)
    <3>3. Cardinality(Sent') = k /\ k \in Nat /\ signals \in Nat /\ signals' = signals + 1
      BY <1>3, <3>1, <3>2
    <3> HIDE DEF k
    <3>4. signals' + k = signals + k + 1
      BY <3>3
    <3> QED BY <3>3, <3>4 DEF k
  <2> QED BY <1>3, <1>4, <2>1, <2>2, RoomGrows
<1>6. \A q \in Runs : HeldBy(q)' = HeldBy(q)
  BY <1>3, <1>4, HeldIs
<1> QED BY <1>3, <1>5, <1>6 DEF StrandedInv, NoneStranded

LEMMA SubmitServes ==
    ASSUME Roomy, Typed, HeldOnce, StrandedInv, NEW c \in Clients, NEW d \in Decisions,
           SubmitToolConfirmation(c, d)
    PROVE  RoomOK' /\ NoneStranded'
<1>1. /\ reply[c] = "idle" /\ UNCHANGED <<deferred, hand, signals>>
      /\ reply \in [Clients -> {"idle", "waiting", "ok", "rejected", "gaveup"}]
      /\ \A b \in Clients \ {c} : reply'[b] = reply[b]
      /\ reply'[c] # "idle"
  BY DEF SubmitToolConfirmation, locals, Typed, TypeOK, BookTypes
<1>2. signals' + Cardinality(Sent') = signals + Cardinality(Sent) + 1
  <2>1. Sent' = Sent \cup {c} /\ c \notin Sent
    BY <1>1 DEF Sent
  <2>2. Cardinality(Sent') = Cardinality(Sent) + 1
    BY <2>1, SentCounts, FS_AddElement DEF Roomy
  <2> DEFINE k == Cardinality(Sent)  l == Cardinality(Sent')
  <2>3. signals \in Nat /\ k \in Nat /\ l = k + 1
    BY <2>2, SentCounts DEF Roomy
  <2>4. signals + l = signals + k + 1
    <3> HIDE DEF k, l
    <3> QED BY <2>3
  <2> QED BY <1>1, <2>4
<1>3. CASE UNCHANGED inbox /\ reply' = [reply EXCEPT ![c] = "rejected"]
  <2>1. RoomOK'
    <3> SUFFICES ASSUME NEW q \in Runs
                 PROVE  Len(inbox'[q]) + Len(deferred'[q]) <= signals' + Cardinality(Sent')
      BY DEF RoomOK
    <3> QED BY <1>1, <1>2, <1>3, RoomGrows DEF RoomOK
  <2>2. \A q \in Runs : HeldBy(q)' = HeldBy(q)
    BY <1>1, <1>3, HeldIs
  <2>3. \A b \in Clients : reply'[b] = "waiting" => reply[b] = "waiting"
    BY <1>1, <1>3
  <2> QED BY <2>1, <2>2, <2>3 DEF StrandedInv, NoneStranded
<1>4. ASSUME NEW r \in registered,
             reply' = [reply EXCEPT ![c] = IF HasRoom(r) THEN "waiting" ELSE "rejected"],
             Enqueue(r, Submission(c))
      PROVE  /\ r \in Runs
             /\ \A q \in Runs \ {r} : inbox'[q] = inbox[q]
             /\ Len(inbox'[r]) \in {Len(inbox[r]), Len(inbox[r]) + 1}
             /\ Queued(inbox[r]) \subseteq Queued(inbox'[r])
             /\ reply'[c] = "waiting" => c \in Queued(inbox'[r])
  <2> DEFINE e == Submission(c)
  <2>1. r \in Runs /\ e \in Event /\ e.kind = "confirm" /\ e.by = c
    BY EventFacts DEF Submission, Typed, TypeOK, RecordTypes
  <2>2. Once(inbox[r]) /\ e.by \notin Queued(inbox[r])
    BY <1>1, <2>1, HeldIs, HeldOnceIs DEF Apart, Unanswered
  <2> HIDE DEF e
  <2>3. /\ \A q \in Runs \ {r} : inbox'[q] = inbox[q]
        /\ Queued(inbox'[r]) = Queued(inbox[r]) \cup (IF HasRoom(r) THEN {c} ELSE {})
        /\ Len(inbox'[r]) = Len(inbox[r]) + (IF HasRoom(r) THEN 1 ELSE 0)
    BY <1>4, <2>1, <2>2, Enqueued DEF e
  <2> DEFINE i == Len(inbox[r])  k == Len(inbox'[r])
  <2>4. k = i + (IF HasRoom(r) THEN 1 ELSE 0) /\ i \in Nat
    BY <2>1, <2>3, Lengths
  <2>5. k \in {i, i + 1}
    <3> HIDE DEF i, k
    <3> QED BY <2>4
  <2>6. reply'[c] = "waiting" => c \in Queued(inbox'[r])
    BY <1>1, <1>4, <2>3
  <2> QED BY <2>1, <2>3, <2>5, <2>6
<1>5. ASSUME NEW r \in registered,
             reply' = [reply EXCEPT ![c] = IF HasRoom(r) THEN "waiting" ELSE "rejected"],
             Enqueue(r, Submission(c))
      PROVE  RoomOK' /\ NoneStranded'
  <2>1. /\ r \in Runs
        /\ \A q \in Runs \ {r} : inbox'[q] = inbox[q]
        /\ Len(inbox'[r]) \in {Len(inbox[r]), Len(inbox[r]) + 1}
        /\ Queued(inbox[r]) \subseteq Queued(inbox'[r])
        /\ reply'[c] = "waiting" => c \in Queued(inbox'[r])
    BY <1>4, <1>5
  <2>2. RoomOK'
    BY <1>1, <1>2, <2>1, RoomGrows
  <2>3. \A q \in Runs : HeldBy(q) \subseteq HeldBy(q)'
    BY <1>1, <2>1, HeldIs
  <2>4. reply'[c] = "waiting" => c \in HeldBy(r)'
    BY <2>1, HeldIs
  <2> QED BY <1>1, <2>1, <2>2, <2>3, <2>4 DEF StrandedInv, NoneStranded
<1> QED BY <1>3, <1>5 DEF SubmitToolConfirmation

LEMMA LeaveServes ==
    ASSUME Roomy, Typed, StrandedInv, NEW c \in Clients, SubmitterLeaves(c)
    PROVE  RoomOK' /\ NoneStranded'
<1>1. /\ reply' = [reply EXCEPT ![c] = "gaveup"] /\ reply[c] = "waiting"
      /\ UNCHANGED <<inbox, deferred, hand, signals>>
  BY DEF SubmitterLeaves, locals
<1>2. Sent' = Sent /\ \A q \in Runs : HeldBy(q)' = HeldBy(q)
  BY <1>1, HeldIs DEF Sent, Typed, TypeOK, BookTypes
<1> QED BY <1>1, <1>2 DEF StrandedInv, RoomOK, NoneStranded, Typed, TypeOK, BookTypes

LEMMA StrandedStep ==
    ASSUME Roomy, Typed, HeldOnce, StrandedInv, [Next]_vars
    PROVE  StrandedInv'
<1> USE DEF data, locals, clients
<1>1. ASSUME NEW r \in Runs, Starting(r) PROVE RoomOK' /\ NoneStranded'
  BY <1>1, ServesNobody DEF Starting, StartRun, MarkRunning, Loaded, LoadFailed, Compact
<1>2. ASSUME NEW r \in Runs, Draining(r) PROVE RoomOK' /\ NoneStranded'
  <2>1. CASE DrainEmpty(r) \/ Drained(r)
    BY <2>1, ServesNobody DEF DrainEmpty, Drained
  <2> QED BY <1>2, <2>1, DrainTakeServes, RequeueServes DEF Draining
<1>3. ASSUME NEW r \in Runs, Conversing(r) PROVE RoomOK' /\ NoneStranded'
  BY <1>3, ServesNobody DEF Conversing, Flush, ModelReturns, SaveReply, LastFlush, PreparePlan,
      AnnouncePlan, Prepared, Execute, EndBatch, Retry
<1>4. ASSUME NEW r \in Runs, Confirming(r) PROVE RoomOK' /\ NoneStranded'
  <2>1. CASE EnterWait(r) \/ WaitCancelled(r) \/ ApplyConfirmation(r) \/ Deregister(r)
             \/ RecordApplied(r) \/ LayerResolved(r) \/ SaveResolved(r)
    BY <2>1, ServesNobody DEF EnterWait, WaitCancelled, Abort, ApplyConfirmation, Deregister,
        RecordApplied, LayerResolved, SaveResolved
  <2>2. CASE ApplyFailed(r) \/ SaveApplied(r)
    <3>1. pc[r] \in Applying
      BY <2>2 DEF ApplyFailed, SaveApplied, Abort, Moving, Goto, Applying
    <3> QED BY <2>2, <3>1, ReceiptServes
  <2> QED BY <1>4, <2>1, <2>2, WaitTakesServes DEF Confirming
<1>5. ASSUME NEW r \in Runs, Closing(r) PROVE RoomOK' /\ NoneStranded'
  <2>1. CASE Claim(r) \/ WrapUp(r) \/ Publish(r)
    BY <2>1, ServesNobody DEF Claim, WrapUp, Publish
  <2> QED BY <1>5, <2>1, FinalizeServes DEF Closing
<1>6. ASSUME NEW r \in Runs, Panic(r) PROVE RoomOK' /\ NoneStranded'
  <2>1. deferred[r] = <<>> /\ hand[r] = None
    BY <1>6 DEF Panic, Roomy, StrandedInv, AsideOK
  <2>2. UNCHANGED <<deferred, hand>>
    BY <1>6, <2>1 DEF Panic, Typed, TypeOK, QueueTypes, BatchTypes
  <2> QED BY <1>6, <2>2, ServesNobody DEF Panic
<1>7. ASSUME Environment PROVE RoomOK' /\ NoneStranded'
  BY <1>7, SignalServes, SubmitServes, LeaveServes DEF Environment
<1>8. ASSUME UNCHANGED vars PROVE RoomOK' /\ NoneStranded'
  BY <1>8, ServesNobody DEF vars
<1>9. AsideOK'
  BY AsideStep DEF StrandedInv
<1> QED BY <1>1, <1>2, <1>3, <1>4, <1>5, <1>6, <1>7, <1>8, <1>9 DEF Next, RunStep, StrandedInv

LEMMA StrandedInit ==
    ASSUME Roomy, Init
    PROVE  StrandedInv
<1>1. Sent = {}
  BY DEF Init, Sent
<1>2. signals = 0 /\ Cardinality(Sent) = 0 /\ \A r \in Runs : inbox[r] = <<>> /\ deferred[r] = <<>>
  BY <1>1, FS_EmptySet DEF Init
<1>3. Len(<<>>) + Len(<<>>) <= 0 + 0
  <2>1. Len(<<>>) = 0
    OBVIOUS
  <2> QED BY <2>1
<1>4. RoomOK
  BY <1>2, <1>3 DEF RoomOK
<1> QED BY <1>4 DEF Init, StrandedInv, AsideOK, NoneStranded

\* A submitter that waits for its receipt can still get one, as long as an inbox
\* holds all that is sent and no goroutine panics while submissions are aside or in
\* hand: for any runs, decisions and retries, and panics anywhere else.
THEOREM NobodyStranded ==
    ASSUME Roomy
    PROVE  Spec => []NoneStranded
<1>1. Init => StrandedInv
  BY StrandedInit
<1>2. Typed /\ HeldOnce /\ StrandedInv /\ [Next]_vars => StrandedInv'
  BY StrandedStep
<1>3. StrandedInv => NoneStranded
  BY DEF StrandedInv
<1> QED BY <1>1, <1>2, <1>3, TypedInit, TypedStep, HeldInit, HeldStep, PTL DEF Spec

-----------------------------------------------------------------------------
(* Where a decision stands, from the day it is issued. *)

\* A decision that anybody knows of was issued by one run, whose ledger is the only one it
\* can be in; it stays there without an outcome until it is applied, by the submission in
\* hand, except in the ledger of a run that is being closed.
Issued == {d \in Decisions : owner[d] # None}
BooksOf(r) ==
    /\ plans[r] \cup following[r] \subseteq Issued
    /\ \A d \in ledger[r] :
          /\ owner[d] = r
          /\ \/ applied[d] = None
             \/ pc[r] = "deregister" /\ ask[hand[r]] = d
             \/ pc[r] \in Settling
    /\ pc[r] = "applying" => ask[hand[r]] \in ledger[r]
    /\ pc[r] \in Applying \ {"applying"} => applied[ask[hand[r]]] = hand[r]
BooksOK ==
    /\ visible \subseteq Issued
    /\ \A d \in Decisions : applied[d] # None => owner[d] # None
    /\ \A r \in Runs : BooksOf(r)

\* The goroutine of a run stays where it is, or goes where nothing is asked of it.
Calm(r) ==
    \/ pc'[r] = pc[r] /\ (pc[r] \in Applying => hand'[r] = hand[r] /\ ask'[hand[r]] = ask[hand[r]])
    \/ pc'[r] \in Settling
    \/ pc[r] \notin Settling \cup {"deregister"} /\ pc'[r] \notin Applying
    \/ ledger'[r] = {} /\ pc'[r] \notin Applying

\* A step that issues and applies nothing.
LEMMA BooksFrame ==
    ASSUME Typed, BooksOK, UNCHANGED <<owner, applied>>, visible' \subseteq Issued,
           \A r \in Runs : /\ Calm(r) /\ ledger'[r] \subseteq ledger[r]
                           /\ plans'[r] \cup following'[r] \subseteq plans[r] \cup following[r]
                           /\ pc[r] = "applying" /\ pc'[r] = "applying" => ledger'[r] = ledger[r]
    PROVE  BooksOK'
<1>1. Issued' = Issued
  BY DEF Issued
<1>2. ASSUME NEW r \in Runs PROVE BooksOf(r)'
  <2>1. BooksOf(r) /\ Calm(r)
    BY DEF BooksOK
  <2>2. (plans[r] \cup following[r] \subseteq Issued)'
    BY <1>1, <2>1 DEF BooksOf
  <2>3. ASSUME NEW d \in ledger'[r]
        PROVE  /\ owner'[d] = r
               /\ applied'[d] = None \/ (pc'[r] = "deregister" /\ ask'[hand'[r]] = d) \/ pc'[r] \in Settling
    BY <2>1 DEF BooksOf, Calm, Applying
  <2>4. pc'[r] = "applying" => ask'[hand'[r]] \in ledger'[r]
    BY <2>1 DEF BooksOf, Calm, Applying, Settling
  <2>5. pc'[r] \in Applying \ {"applying"} => applied'[ask'[hand'[r]]] = hand'[r]
    BY <2>1 DEF BooksOf, Calm, Applying, Settling
  <2> QED BY <2>2, <2>3, <2>4, <2>5 DEF BooksOf
<1> QED BY <1>1, <1>2 DEF BooksOK

\* A run that is active issues a decision.
LEMMA BooksIssue ==
    ASSUME Typed, BooksOK, NEW r \in Runs, NEW d \in Decisions, Register(r, d),
           UNCHANGED <<visible, applied, hand, ask, confirmed>>,
           \/ plans' = [plans EXCEPT ![r] = plans[r] \cup {d}] /\ UNCHANGED following
           \/ following' = [following EXCEPT ![r] = following[r] \cup {d}] /\ UNCHANGED plans,
           \/ pc' = [pc EXCEPT ![r] = "announce"] /\ pc[r] = "prepare"
           \/ pc' = [pc EXCEPT ![r] = "saveapplied"] /\ pc[r] = "record"
    PROVE  BooksOK'
<1>0. /\ owner' = [owner EXCEPT ![d] = r] /\ ledger' = [ledger EXCEPT ![r] = ledger[r] \cup {d}]
      /\ owner[d] = None /\ r # None
      /\ owner \in [Decisions -> Runs \cup {None}] /\ ledger \in [Runs -> SUBSET Decisions]
      /\ plans \in [Runs -> SUBSET Decisions] /\ following \in [Runs -> SUBSET Decisions]
      /\ pc \in [Runs -> Positions]
  BY NoneAssumption DEF Register, Fresh, Typed, TypeOK, ControlTypes, RecordTypes, BatchTypes, BookTypes
<1>1. Issued \subseteq Issued' /\ d \in Issued' /\ d \notin Issued
  BY <1>0 DEF Issued
<1>2. applied[d] = None
  BY <1>0 DEF BooksOK
<1>3. ASSUME NEW q \in Runs PROVE BooksOf(q)'
  <2>0. BooksOf(q)
    BY DEF BooksOK
  <2>1. (plans[q] \cup following[q] \subseteq Issued)'
    BY <1>0, <1>1, <2>0 DEF BooksOf
  <2>2. CASE q # r
    <3>1. pc'[q] = pc[q] /\ ledger'[q] = ledger[q] /\ d \notin ledger[q]
      BY <1>0, <2>0, <2>2, NoneAssumption DEF BooksOf
    <3>2. \A b \in ledger[q] : owner'[b] = owner[b]
      <4> SUFFICES ASSUME NEW b \in ledger[q] PROVE owner'[b] = owner[b]
        OBVIOUS
      <4>1. b \in Decisions /\ b # d
        BY <1>0, <3>1
      <4> QED BY <1>0, <4>1
    <3>3. \A b \in ledger'[q] :
              /\ owner'[b] = q
              /\ applied'[b] = None \/ (pc'[q] = "deregister" /\ ask'[hand'[q]] = b) \/ pc'[q] \in Settling
      BY <2>0, <3>1, <3>2 DEF BooksOf
    <3>4. /\ pc'[q] = "applying" => ask'[hand'[q]] \in ledger'[q]
          /\ pc'[q] \in Applying \ {"applying"} => applied'[ask'[hand'[q]]] = hand'[q]
      BY <2>0, <3>1 DEF BooksOf
    <3> QED BY <2>1, <3>3, <3>4 DEF BooksOf
  <2>3. CASE q = r
    <3>1. pc'[r] \in {"announce", "saveapplied"} /\ (pc'[r] = "saveapplied" => pc[r] = "record")
          /\ pc[r] \in {"prepare", "record"}
      BY <1>0
    <3>2. applied'[ask'[hand'[r]]] = hand'[r] \/ pc'[r] = "announce"
      BY <2>0, <2>3, <3>1 DEF BooksOf, Applying
    <3>3. \A b \in ledger'[r] : owner'[b] = r /\ applied'[b] = None
      BY <1>0, <1>2, <2>0, <2>3, <3>1 DEF BooksOf, Settling
    <3> QED BY <2>1, <2>3, <3>1, <3>2, <3>3 DEF BooksOf, Applying
  <2> QED BY <2>2, <2>3
<1> QED BY <1>1, <1>3, <1>0 DEF BooksOK

\* A submission in hand was made.
LEMMA HandAsked ==
    ASSUME Typed, HeldOnce, NEW r \in Runs, pc[r] \in Applying
    PROVE  /\ hand[r] \in Clients /\ hand[r] # None /\ ask[hand[r]] \in Decisions
           /\ reply[hand[r]] \in {"waiting", "gaveup"}
<1>1. hand[r] \in Clients /\ hand[r] # None /\ ask[hand[r]] \in Decisions
  BY NoneAssumption DEF Typed, HandOK
<1>2. hand[r] \in HeldBy(r)
  BY <1>1, HeldIs
<1> QED BY <1>1, <1>2, HeldOnceIs DEF Unanswered

-----------------------------------------------------------------------------
LEMMA SeenIssued ==
    ASSUME BooksOK, NEW r \in Runs
    PROVE  visible \cup plans[r] \cup following[r] \subseteq Issued
BY DEF BooksOK, BooksOf

LEMMA StartingBooks ==
    ASSUME Typed, LifeOK, BooksOK, NEW r \in Runs, Starting(r)
    PROVE  BooksOK'
<1>1. /\ UNCHANGED <<ledger, books, layer, hand, ask>> /\ pc[r] \notin Settling \cup Applying
      /\ \E p \in {"created", "load", "compact", "drain", "claim", "claimbare"} :
            pc' = [pc EXCEPT ![r] = p]
  BY DEF Starting, StartRun, MarkRunning, Loaded, LoadFailed, Compact, Moving, Ending, Goto, data,
         clients, Settling, Applying
<1>2. \A q \in Runs : Calm(q)
  BY <1>1 DEF Calm, Applying, Settling, Typed, TypeOK, ControlTypes
<1> QED BY <1>1, <1>2, BooksFrame DEF books, layer, BooksOK, Applying, Typed, TypeOK, ControlTypes

LEMMA DrainingBooks ==
    ASSUME Typed, BooksOK, NEW r \in Runs, Draining(r)
    PROVE  BooksOK'
<1>1. UNCHANGED <<ledger, books, layer, hand, ask>> /\ pc[r] \in {"drain", "requeue"}
  BY DEF Draining, DrainTake, DrainEmpty, Requeue, Drained, data, clients, BatchFailed, SaveFailed,
         Moving, Ending, Goto
<1>2. \E p \in {"drain", "requeue", "flush", "retry", "claim"} : pc' = [pc EXCEPT ![r] = p]
  BY <1>1 DEF Draining, DrainTake, DrainEmpty, Requeue, Drained, BatchFailed, SaveFailed, Moving, Ending,
         Goto, Typed, TypeOK, ControlTypes
<1>3. \A q \in Runs : Calm(q)
  BY <1>1, <1>2 DEF Calm, Applying, Settling, Typed, TypeOK, ControlTypes
<1> QED BY <1>1, <1>3, BooksFrame DEF books, layer, BooksOK

LEMMA ConversingBooks ==
    ASSUME Typed, LifeOK, BooksOK, NEW r \in Runs, Conversing(r)
    PROVE  BooksOK'
<1>1. /\ UNCHANGED <<hand, ask, applied>>
      /\ pc[r] \in Working \ Applying
      /\ \E p \in (Positions \ Applying) : pc' = [pc EXCEPT ![r] = p]
  <2>1. UNCHANGED <<hand, ask, applied>>
    BY DEF Conversing, Flush, ModelReturns, SaveReply, LastFlush, PreparePlan, AnnouncePlan, Prepared,
           Execute, EndBatch, Retry, data, clients, books
  <2>2. pc[r] \in {"flush", "model", "reply", "lastflush", "prepare", "announce", "execute",
                   "endbatch", "retry"}
    BY DEF Conversing, Flush, ModelReturns, SaveReply, LastFlush, PreparePlan, AnnouncePlan, Prepared,
           Execute, EndBatch, Retry, BatchFailed, SaveFailed, Moving, Ending, Goto
  <2>3. \E p \in {"drain", "model", "reply", "prepare", "lastflush", "announce", "execute", "await",
                  "endbatch", "retry", "claim"} : pc' = [pc EXCEPT ![r] = p]
    BY DEF Conversing, Flush, ModelReturns, SaveReply, LastFlush, PreparePlan, AnnouncePlan, Prepared,
           Execute, EndBatch, Retry, BatchFailed, SaveFailed, Moving, Ending, Goto
  <2> QED BY <2>1, <2>2, <2>3 DEF Positions, Working, Applying, Settling
<1>2. \A q \in Runs : Calm(q)
  BY <1>1 DEF Calm, Applying, Settling, Working, Typed, TypeOK, ControlTypes
<1>3. \A q \in Runs : pc'[q] = "applying" => q # r /\ pc[q] = "applying"
  BY <1>1 DEF Applying, Typed, TypeOK, ControlTypes
<1>4. CASE UNCHANGED <<ledger, layer, owner>> /\ visible' \subseteq visible \cup plans[r]
  BY <1>1, <1>2, <1>4, BooksFrame, SeenIssued DEF layer
<1>5. CASE PreparePlan(r)
  <2>1. PICK d \in Decisions : Register(r, d) /\ plans' = [plans EXCEPT ![r] = plans[r] \cup {d}]
    BY <1>5 DEF PreparePlan
  <2>2. /\ UNCHANGED <<visible, applied, hand, ask, confirmed, following>>
        /\ pc' = [pc EXCEPT ![r] = "announce"] /\ pc[r] = "prepare"
    BY <1>5 DEF PreparePlan, Moving, Goto, clients
  <2> QED BY <2>1, <2>2, BooksIssue
<1>6. CASE Retry(r)
  <2>1. /\ UNCHANGED <<owner, visible, following>>
        /\ \A q \in Runs : /\ ledger'[q] \subseteq ledger[q] /\ plans'[q] \subseteq plans[q]
                           /\ q # r => ledger'[q] = ledger[q]
    BY <1>6 DEF Retry, Typed, TypeOK, RecordTypes, BatchTypes
  <2>2. visible' \subseteq Issued
    BY <2>1 DEF BooksOK
  <2> QED BY <1>1, <1>2, <1>3, <2>1, <2>2, BooksFrame
<1> QED BY <1>4, <1>5, <1>6
      DEF Conversing, Flush, ModelReturns, SaveReply, LastFlush, AnnouncePlan, Prepared, Execute, EndBatch,
          data, books

LEMMA PanicBooks ==
    ASSUME Typed, BooksOK, NEW r \in Runs, Panic(r)
    PROVE  BooksOK'
<1>1. /\ UNCHANGED <<ledger, books, layer, ask>>
      /\ hand' = [hand EXCEPT ![r] = None]
      /\ \E p \in {"claim", "publish"} : pc' = [pc EXCEPT ![r] = p]
  BY DEF Panic, Goto, Ending, clients
<1>2. \A q \in Runs : Calm(q)
  BY <1>1 DEF Calm, Applying, Settling, Typed, TypeOK, ControlTypes, BatchTypes
<1> QED BY <1>1, <1>2, BooksFrame DEF books, layer, BooksOK

LEMMA ClosingBooks ==
    ASSUME Typed, BooksOK, NEW r \in Runs, Closing(r)
    PROVE  BooksOK'
<1>1. CASE Claim(r) \/ WrapUp(r) \/ Publish(r)
  <2>1. /\ UNCHANGED <<ledger, books, layer, hand, ask>>
        /\ \E p \in {"wrapup", "publish", "finalize"} : pc' = [pc EXCEPT ![r] = p]
    BY <1>1 DEF Claim, WrapUp, Publish, Moving, Goto, data, clients
  <2>2. \A q \in Runs : Calm(q)
    BY <2>1 DEF Calm, Applying, Settling, Typed, TypeOK, ControlTypes
  <2> QED BY <2>1, <2>2, BooksFrame DEF books, layer, BooksOK
<1>2. CASE FinalizeRun(r)
  <2>1. /\ ledger' = [ledger EXCEPT ![r] = {}]
        /\ plans' = [plans EXCEPT ![r] = {}] /\ following' = [following EXCEPT ![r] = {}]
        /\ UNCHANGED <<books, hand, ask>>
        /\ \E p \in {"claim", "done"} : pc' = [pc EXCEPT ![r] = p]
    BY <1>2 DEF FinalizeRun, ClearConfirmations
  <2>2. \A q \in Runs : Calm(q)
    BY <2>1 DEF Calm, Applying, Settling, Typed, TypeOK, ControlTypes, RecordTypes
  <2>3. \A q \in Runs : /\ ledger'[q] \subseteq ledger[q]
                        /\ plans'[q] \cup following'[q] \subseteq plans[q] \cup following[q]
                        /\ pc[q] = "applying" /\ pc'[q] = "applying" => ledger'[q] = ledger[q]
    BY <2>1 DEF Typed, TypeOK, ControlTypes, RecordTypes, BatchTypes
  <2> QED BY <2>1, <2>2, <2>3, BooksFrame DEF books, BooksOK
<1> QED BY <1>1, <1>2 DEF Closing

LEMMA EnvironmentBooks ==
    ASSUME Typed, HeldOnce, BooksOK, Environment
    PROVE  BooksOK'
<1>1. UNCHANGED <<ledger, books, layer, hand, pc>>
  BY DEF Environment, CancelRun, NotifyAsyncReady, SubmitToolConfirmation, SubmitterLeaves, layer
<1>2. ASSUME NEW r \in Runs, pc[r] \in Applying PROVE ask'[hand[r]] = ask[hand[r]]
  <2>1. hand[r] \in Clients /\ reply[hand[r]] # "idle"
    BY <1>2, HandAsked
  <2>2. ASSUME NEW c \in Clients, NEW d \in Decisions, SubmitToolConfirmation(c, d)
        PROVE  ask'[hand[r]] = ask[hand[r]]
    BY <2>1, <2>2 DEF SubmitToolConfirmation, Typed, TypeOK, BookTypes
  <2> QED BY <2>2 DEF Environment, CancelRun, NotifyAsyncReady, SubmitterLeaves, clients
<1>3. \A r \in Runs : Calm(r)
  BY <1>1, <1>2 DEF Calm
<1> QED BY <1>1, <1>3, BooksFrame DEF books, layer, BooksOK

-----------------------------------------------------------------------------
LEMMA ConfirmingBooks ==
    ASSUME Typed, HeldOnce, BooksOK, NEW r \in Runs, Confirming(r)
    PROVE  BooksOK'
<1>0. /\ pc \in [Runs -> Positions] /\ hand \in [Runs -> Clients \cup {None}]
      /\ ledger \in [Runs -> SUBSET Decisions] /\ plans \in [Runs -> SUBSET Decisions]
      /\ following \in [Runs -> SUBSET Decisions]
      /\ applied \in [Decisions -> Clients \cup {None}]
  BY DEF Typed, TypeOK, ControlTypes, RecordTypes, BatchTypes, BookTypes
<1>1. UNCHANGED ask
  BY DEF Confirming, EnterWait, WaitTakesSignal, WaitTakesSubmission, WaitCancelled,
         ApplyConfirmation, ApplyFailed, Deregister, RecordApplied, SaveApplied, LayerResolved,
         SaveResolved, data, clients
<1>2. CASE EnterWait(r) \/ WaitTakesSignal(r) \/ WaitCancelled(r) \/ ApplyFailed(r) \/ SaveApplied(r)
           \/ LayerResolved(r) \/ SaveResolved(r)
  <2>1. /\ UNCHANGED <<ledger, owner, applied>> /\ visible' \subseteq visible \cup following[r]
        /\ \A q \in Runs \ {r} : hand'[q] = hand[q]
        /\ \A q \in Runs : plans'[q] \cup following'[q] \subseteq plans[q] \cup following[q]
    <3>1. UNCHANGED <<ledger, owner, applied>> /\ visible' \subseteq visible \cup following[r]
      BY <1>2 DEF EnterWait, WaitTakesSignal, WaitCancelled, ApplyFailed, SaveApplied, LayerResolved,
                  SaveResolved, data, books
    <3>2. \A q \in Runs \ {r} : hand'[q] = hand[q]
      BY <1>0, <1>2 DEF EnterWait, WaitTakesSignal, WaitCancelled, ApplyFailed, SaveApplied,
                  LayerResolved, SaveResolved, Receipt, data
    <3>3. \A q \in Runs : plans'[q] \cup following'[q] \subseteq plans[q] \cup following[q]
      BY <1>0, <1>2 DEF EnterWait, WaitTakesSignal, WaitCancelled, ApplyFailed, SaveApplied,
                  LayerResolved, SaveResolved, layer, data
    <3> QED BY <3>1, <3>2, <3>3
  <2>2. /\ pc[r] \in {"await", "wait", "applying", "saveapplied", "resolved"}
        /\ \/ UNCHANGED pc /\ pc[r] = "wait"
           \/ \E p \in {"wait", "drain", "retry", "claim", "resolved", "await", "execute"} :
                 pc' = [pc EXCEPT ![r] = p]
    BY <1>2 DEF EnterWait, WaitTakesSignal, WaitCancelled, Waiting, ApplyFailed, SaveApplied,
                LayerResolved, SaveResolved, Abort, BatchFailed, SaveFailed, Moving, Ending, Goto
  <2>3. \A q \in Runs : Calm(q)
    BY <1>0, <1>1, <2>1, <2>2 DEF Calm, Applying, Settling
  <2> QED BY <2>1, <2>3, BooksFrame, SeenIssued
<1>3. CASE WaitTakesSubmission(r)
  <2>1. UNCHANGED <<ledger, books, layer>> /\ pc[r] = "wait"
    BY <1>3 DEF WaitTakesSubmission, Waiting
  <2> DEFINE e == Head(inbox[r])
  <2>2. CASE /\ pc' = [pc EXCEPT ![r] = "drain"] /\ UNCHANGED hand
    <3>1. \A q \in Runs : Calm(q)
      BY <1>0, <1>1, <2>1, <2>2 DEF Calm, Applying, Settling
    <3> QED BY <2>1, <3>1, BooksFrame DEF books, layer, BooksOK
  <2>3. CASE /\ Acceptable(r, ask[e.by]) /\ hand' = [hand EXCEPT ![r] = e.by]
             /\ pc' = [pc EXCEPT ![r] = "applying"]
    <3>1. ask[e.by] \in ledger[r]
      BY <2>3 DEF Acceptable
    <3>2. hand'[r] = e.by /\ pc'[r] = "applying"
          /\ \A q \in Runs \ {r} : hand'[q] = hand[q] /\ pc'[q] = pc[q]
      BY <1>0, <2>3
    <3>3. ASSUME NEW q \in Runs PROVE BooksOf(q)'
      <4>1. BooksOf(q)
        BY DEF BooksOK
      <4>2. (plans[q] \cup following[q] \subseteq Issued)'
        BY <2>1, <4>1 DEF BooksOf, Issued, books, layer
      <4>3. CASE q = r
        <5>1. \A d \in ledger[r] : owner[d] = r /\ applied[d] = None
          BY <2>1, <4>1, <4>3 DEF BooksOf, Settling
        <5> QED BY <1>1, <2>1, <3>1, <3>2, <4>2, <4>3, <5>1 DEF BooksOf, books, Applying
      <4>4. CASE q # r
        BY <1>1, <2>1, <3>2, <4>1, <4>2, <4>4 DEF BooksOf, books
      <4> QED BY <4>3, <4>4
    <3> QED BY <2>1, <3>3 DEF BooksOK, Issued, books
  <2> QED BY <1>3, <2>2, <2>3 DEF WaitTakesSubmission, Abort, Moving, Goto
<1>4. CASE ApplyConfirmation(r)
  <2> DEFINE d == ask[hand[r]]
  <2>1. /\ applied' = [applied EXCEPT ![d] = hand[r]] /\ UNCHANGED <<owner, visible, ledger, layer, hand>>
        /\ pc[r] = "applying" /\ pc' = [pc EXCEPT ![r] = "deregister"]
    BY <1>4 DEF ApplyConfirmation, Moving, Goto
  <2>2. hand[r] \in Clients /\ hand[r] # None /\ d \in Decisions
    BY <2>1, HandAsked DEF Applying
  <2>3. d \in ledger[r] /\ owner[d] = r /\ applied[d] = None
    BY <2>1 DEF BooksOK, BooksOf, Settling
  <2> HIDE DEF d
  <2>4. applied'[d] = hand[r] /\ \A b \in Decisions \ {d} : applied'[b] = applied[b]
    BY <1>0, <2>1, <2>2
  <2>5. ASSUME NEW q \in Runs PROVE BooksOf(q)'
    <3>1. BooksOf(q)
      BY DEF BooksOK
    <3>2. (plans[q] \cup following[q] \subseteq Issued)'
      BY <2>1, <3>1 DEF BooksOf, Issued, layer
    <3>3. CASE q = r
      <4>1. \A b \in ledger[r] : owner[b] = r /\ (applied'[b] = None \/ b = d)
        BY <1>0, <2>1, <2>4, <3>1, <3>3 DEF BooksOf, Settling
      <4>2. pc'[r] = "deregister" /\ ask'[hand'[r]] = d
        BY <1>0, <1>1, <2>1 DEF d
      <4> QED BY <2>1, <2>4, <3>2, <3>3, <4>1, <4>2 DEF BooksOf
    <3>4. CASE q # r
      <4>1. d \notin ledger[q] /\ pc'[q] = pc[q]
        BY <1>0, <2>1, <2>3, <3>1, <3>4 DEF BooksOf
      <4>2. \A b \in ledger[q] : applied'[b] = applied[b]
        BY <1>0, <2>4, <4>1
      <4>3. pc[q] \in Applying \ {"applying"} => ask[hand[q]] # d /\ ask[hand[q]] \in Decisions
        <5> SUFFICES ASSUME pc[q] \in Applying \ {"applying"}
                     PROVE  ask[hand[q]] # d /\ ask[hand[q]] \in Decisions
          OBVIOUS
        <5>1. hand[q] # None /\ ask[hand[q]] \in Decisions
          BY HandAsked
        <5>2. applied[ask[hand[q]]] = hand[q]
          BY <3>1 DEF BooksOf
        <5> QED BY <2>3, <5>1, <5>2
      <4> QED BY <1>1, <2>1, <2>4, <3>1, <3>2, <4>1, <4>2, <4>3 DEF BooksOf
    <3> QED BY <3>3, <3>4
  <2>6. \A b \in Decisions : applied'[b] # None => owner'[b] # None
    BY <2>1, <2>3, <2>4, NoneAssumption DEF BooksOK
  <2> QED BY <2>1, <2>5, <2>6 DEF BooksOK, Issued
<1>5. CASE Deregister(r)
  <2>1. /\ ledger' = [ledger EXCEPT ![r] = ledger[r] \ {ask[hand[r]]}]
        /\ UNCHANGED <<books, plans, following, hand>>
        /\ pc[r] = "deregister" /\ pc' = [pc EXCEPT ![r] = "record"]
    BY <1>5 DEF Deregister, Moving, Goto
  <2>2. ASSUME NEW q \in Runs PROVE BooksOf(q)'
    <3>1. BooksOf(q)
      BY DEF BooksOK
    <3>2. (plans[q] \cup following[q] \subseteq Issued)'
      BY <2>1, <3>1 DEF BooksOf, Issued, books
    <3>3. CASE q = r
      <4>1. /\ pc'[r] = "record" /\ applied'[ask'[hand'[r]]] = hand'[r]
        BY <1>0, <1>1, <2>1, <3>1, <3>3 DEF BooksOf, books, Applying
      <4>2. \A b \in ledger'[r] : owner'[b] = r /\ applied'[b] = None
        BY <1>0, <2>1, <3>1, <3>3 DEF BooksOf, books, Settling
      <4> QED BY <3>2, <3>3, <4>1, <4>2 DEF BooksOf
    <3>4. CASE q # r
      <4>1. ledger'[q] = ledger[q] /\ pc'[q] = pc[q]
        BY <1>0, <2>1, <3>4
      <4> QED BY <1>1, <2>1, <3>1, <3>2, <4>1 DEF BooksOf, books
    <3> QED BY <3>3, <3>4
  <2> QED BY <2>1, <2>2 DEF BooksOK, Issued, books
<1>6. CASE RecordApplied(r)
  <2>1. /\ UNCHANGED <<plans, confirmed, hand, visible, applied>>
        /\ pc[r] = "record" /\ pc' = [pc EXCEPT ![r] = "saveapplied"]
    BY <1>6 DEF RecordApplied, Moving, Goto
  <2>2. CASE UNCHANGED <<owner, ledger, following>>
    <3>1. ASSUME NEW q \in Runs PROVE BooksOf(q)'
      <4>1. BooksOf(q)
        BY DEF BooksOK
      <4>2. pc'[q] = IF q = r THEN "saveapplied" ELSE pc[q]
        BY <1>0, <2>1
      <4>3. (plans[q] \cup following[q] \subseteq Issued)'
        BY <2>1, <2>2, <4>1 DEF BooksOf, Issued
      <4>4. \A d \in ledger[q] : pc[q] # pc'[q] => applied[d] = None
        BY <2>1, <4>1, <4>2 DEF BooksOf, Settling
      <4> QED BY <1>1, <2>1, <2>2, <4>1, <4>2, <4>3, <4>4 DEF BooksOf, Applying
    <3> QED BY <2>1, <2>2, <3>1 DEF BooksOK, Issued
  <2>3. CASE \E d \in Decisions : /\ Register(r, d)
                                  /\ following' = [following EXCEPT ![r] = following[r] \cup {d}]
    BY <1>1, <2>1, <2>3, BooksIssue
  <2> QED BY <1>6, <2>2, <2>3 DEF RecordApplied
<1> QED BY <1>2, <1>3, <1>4, <1>5, <1>6 DEF Confirming

LEMMA BooksStep ==
    Typed /\ LifeOK /\ HeldOnce /\ BooksOK /\ [Next]_vars => BooksOK'
<1> SUFFICES ASSUME Typed, LifeOK, HeldOnce, BooksOK, [Next]_vars PROVE BooksOK'
  OBVIOUS
<1>1. ASSUME NEW r \in Runs, RunStep(r) PROVE BooksOK'
  BY <1>1, StartingBooks, DrainingBooks, ConversingBooks, ConfirmingBooks, ClosingBooks DEF RunStep
<1>2. ASSUME NEW r \in Runs, Panic(r) PROVE BooksOK'
  BY <1>2, PanicBooks
<1>3. CASE Environment
  BY <1>3, EnvironmentBooks
<1>4. CASE UNCHANGED vars
  BY <1>4 DEF vars, data, books, layer, clients, BooksOK, BooksOf, Issued
<1> QED BY <1>1, <1>2, <1>3, <1>4 DEF Next

LEMMA BooksInit == Init => BooksOK
BY DEF Init, BooksOK, BooksOf, Issued, Applying

-----------------------------------------------------------------------------
(* The run implements its contract. *)

\* A step is one of the contract's, or none of its business.
Kept == UNCHANGED Contract!cvars
Promised == Contract!Next \/ Kept

LEMMA KeptBy ==
    ASSUME UNCHANGED <<events, owner, applied, ask, reply>>,
           \A q \in Runs : Outcome(q)' = Outcome(q)
    PROVE  Kept
BY DEF Kept, Contract!cvars

\* Where a status is set, it says "active" as before, or a run begins or settles.
LEMMA StatusKept ==
    ASSUME UNCHANGED <<events, owner, applied, ask, reply, status>>
    PROVE  Kept
BY KeptBy DEF Outcome

LEMMA ActiveKept ==
    ASSUME Typed, NEW r \in Runs, NEW s \in Active, status[r] \in Active,
           status' = [status EXCEPT ![r] = s] \/ UNCHANGED status,
           UNCHANGED <<events, owner, applied, ask, reply>>
    PROVE  Kept
<1>1. \A q \in Runs : Outcome(q)' = Outcome(q)
  BY DEF Outcome, Typed, TypeOK, RecordTypes
<1> QED BY <1>1, KeptBy

\* A submission that is turned away.
LEMMA TurnedAway ==
    ASSUME Typed, NEW c \in Clients, reply' = Told(c, "rejected"),
           UNCHANGED <<events, owner, applied, ask, status>>
    PROVE  Promised
<1>0. reply \in [Clients -> {"idle", "waiting", "ok", "rejected", "gaveup"}]
  BY DEF Typed, TypeOK, BookTypes
<1>1. CASE reply[c] = "waiting"
  <2>1. reply' = [k \in Clients |-> IF k \in {c} THEN "rejected" ELSE reply[k]]
    BY <1>0, <1>1 DEF Told
  <2>2. UNCHANGED <<[q \in Runs |-> Outcome(q)], events, owner, applied, ask>>
    BY DEF Outcome
  <2>3. Contract!Reject({c})
    BY <1>1, <2>1, <2>2 DEF Contract!Reject
  <2> QED BY <2>3 DEF Promised, Contract!Next
<1>2. CASE reply[c] # "waiting"
  <2>1. reply' = reply
    BY <1>0, <1>2 DEF Told
  <2> QED BY <2>1, StatusKept DEF Promised
<1> QED BY <1>1, <1>2

\* A decision that is issued.
LEMMA Issues ==
    ASSUME Typed, NEW r \in Runs, NEW d \in Decisions, Register(r, d), status[r] \in Active,
           UNCHANGED <<events, applied, ask, reply, status>>
    PROVE  Promised
<1>1. UNCHANGED <<[q \in Runs |-> Outcome(q)], events, applied, ask, reply>>
  BY DEF Outcome
<1>2. [q \in Runs |-> Outcome(q)][r] = "active"
  BY DEF Outcome
<1>3. Contract!Issue(r, d)
  BY <1>1, <1>2 DEF Contract!Issue, Register, Fresh
<1> QED BY <1>3 DEF Promised, Contract!Next

-----------------------------------------------------------------------------
LEMMA StartingKeeps ==
    ASSUME Typed, LifeOK, NEW r \in Runs, Starting(r)
    PROVE  Promised
<1>1. CASE StartRun(r)
  <2>1. /\ UNCHANGED <<events, owner, applied, ask, reply>>
        /\ status' = [status EXCEPT ![r] = "created"] /\ status[r] = "none"
    BY <1>1 DEF StartRun, Moving, Goto, ending, books, clients, LifeOK, Life
  <2> DEFINE o == [q \in Runs |-> Outcome(q)]
  <2>2. o[r] = "none" /\ o' = [o EXCEPT ![r] = "active"]
    BY <2>1 DEF Outcome, Active, Typed, TypeOK, RecordTypes
  <2>3. Contract!Begin(r)
    BY <2>1, <2>2 DEF Contract!Begin
  <2> QED BY <2>3 DEF Promised, Contract!Next
<1>2. CASE MarkRunning(r)
  <2>1. status[r] \in Active /\ "running" \in Active
    BY <1>2 DEF MarkRunning, Moving, Goto, LifeOK, Life, Active
  <2> QED BY <1>2, <2>1, ActiveKept DEF MarkRunning, Moving, ending, books, clients, Promised
<1>3. CASE Loaded(r) \/ LoadFailed(r) \/ Compact(r)
  BY <1>3, StatusKept DEF Loaded, LoadFailed, Compact, Moving, Ending, Goto, ending, data, books, clients, Promised
<1> QED BY <1>1, <1>2, <1>3 DEF Starting

LEMMA DrainingKeeps ==
    ASSUME Typed, NEW r \in Runs, Draining(r)
    PROVE  Promised
<1>1. UNCHANGED <<events, owner, applied, ask, status>>
  BY DEF Draining, DrainTake, DrainEmpty, Requeue, Drained, BatchFailed, SaveFailed, Moving, Ending,
         ending, data, books, clients
<1>2. CASE UNCHANGED reply
  BY <1>1, <1>2, StatusKept DEF Promised
<1>3. CASE DrainTake(r)
  <2>1. inbox[r] \in Seq(Event) /\ inbox[r] # <<>>
    BY <1>3 DEF DrainTake, Typed, TypeOK, QueueTypes
  <2>2. Head(inbox[r]) \in Event
    BY <2>1
  <2>3. \/ UNCHANGED reply
        \/ Head(inbox[r]).kind = "confirm" /\ reply' = Told(Head(inbox[r]).by, "rejected")
    BY <1>3 DEF DrainTake, Defer
  <2> QED BY <1>1, <1>2, <2>2, <2>3, EventFacts, TurnedAway
<1> QED BY <1>2, <1>3 DEF Draining, DrainEmpty, Requeue, Drained, data, clients

LEMMA ConversingKeeps ==
    ASSUME Typed, LifeOK, NEW r \in Runs, Conversing(r)
    PROVE  Promised
<1>1. UNCHANGED <<events, applied, ask, reply, status>>
  BY DEF Conversing, Flush, ModelReturns, SaveReply, LastFlush, PreparePlan, AnnouncePlan, Prepared,
         Execute, EndBatch, Retry, BatchFailed, SaveFailed, Moving, Ending, ending, data, books, clients
<1>2. CASE UNCHANGED owner
  BY <1>1, <1>2, StatusKept DEF Promised
<1>3. CASE PreparePlan(r)
  <2>1. status[r] \in Active
    BY <1>3 DEF PreparePlan, Moving, Goto, LifeOK, Life, Working
  <2> QED BY <1>1, <1>3, <2>1, Issues DEF PreparePlan
<1> QED BY <1>2, <1>3 DEF Conversing, Flush, ModelReturns, SaveReply, LastFlush, AnnouncePlan, Prepared,
                          Execute, EndBatch, Retry, data, books

LEMMA ConfirmingKeeps ==
    ASSUME Typed, LifeOK, HeldOnce, BooksOK, NEW r \in Runs, Confirming(r)
    PROVE  Promised
<1>0. /\ reply \in [Clients -> {"idle", "waiting", "ok", "rejected", "gaveup"}]
      /\ applied \in [Decisions -> Clients \cup {None}]
  BY DEF Typed, TypeOK, BookTypes
<1>1. UNCHANGED <<events, ask>>
  BY DEF Confirming, EnterWait, WaitTakesSignal, WaitTakesSubmission, WaitCancelled,
         ApplyConfirmation, ApplyFailed, Deregister, RecordApplied, SaveApplied, LayerResolved,
         SaveResolved, BatchFailed, SaveFailed, Abort, Moving, Ending, ending, data, clients
<1>2. status[r] \in Active
  BY DEF Confirming, EnterWait, WaitTakesSignal, WaitTakesSubmission, WaitCancelled, Waiting,
         ApplyConfirmation, ApplyFailed, Deregister, RecordApplied, SaveApplied, LayerResolved,
         SaveResolved, BatchFailed, SaveFailed, Abort, Moving, Ending, Goto, LifeOK, Life, Working
<1>3. CASE EnterWait(r) \/ LayerResolved(r)
  <2>1. "waiting" \in Active /\ "running" \in Active
    BY DEF Active
  <2>2. CASE EnterWait(r)
    BY <1>1, <1>2, <2>1, <2>2, ActiveKept DEF EnterWait, books, clients, Promised
  <2>3. CASE LayerResolved(r)
    <3>1. /\ status' = [status EXCEPT ![r] = "running"] \/ UNCHANGED status
          /\ UNCHANGED <<owner, applied, reply>>
      BY <2>3 DEF LayerResolved, books, clients, Typed, TypeOK, RecordTypes
    <3> QED BY <1>1, <1>2, <2>1, <3>1, ActiveKept DEF Promised
  <2> QED BY <1>3, <2>2, <2>3
<1>4. CASE WaitTakesSignal(r) \/ WaitCancelled(r) \/ Deregister(r) \/ SaveResolved(r)
  BY <1>1, <1>4, StatusKept
  DEF WaitTakesSignal, WaitCancelled, Deregister, SaveResolved, data, books, clients, Promised
<1>5. CASE WaitTakesSubmission(r)
  <2>1. inbox[r] \in Seq(Event) /\ inbox[r] # <<>>
    BY <1>5 DEF WaitTakesSubmission, Typed, TypeOK, QueueTypes
  <2>2. Head(inbox[r]) \in Event
    BY <2>1
  <2>3. /\ UNCHANGED <<owner, applied, status>>
        /\ \/ UNCHANGED reply
           \/ Head(inbox[r]).kind = "confirm" /\ reply' = Told(Head(inbox[r]).by, "rejected")
    BY <1>5 DEF WaitTakesSubmission, books
  <2> QED BY <1>1, <2>2, <2>3, EventFacts, TurnedAway, StatusKept DEF Promised
<1>6. CASE ApplyConfirmation(r)
  <2> DEFINE c == hand[r]  d == ask[c]  o == [q \in Runs |-> Outcome(q)]
  <2>1. /\ applied' = [applied EXCEPT ![d] = c] /\ UNCHANGED <<owner, reply, status>>
        /\ pc[r] = "applying"
    BY <1>6 DEF ApplyConfirmation, Moving, Goto, clients
  <2>2. c \in Clients /\ d \in Decisions /\ reply[c] \in {"waiting", "gaveup"}
    BY <2>1, HandAsked DEF Applying
  <2>3. d \in ledger[r] /\ owner[d] = r /\ applied[d] = None
    BY <2>1 DEF BooksOK, BooksOf, Settling
  <2>4. o[r] = "active" /\ o' = o
    BY <1>2, <2>1 DEF Outcome
  <2> HIDE DEF c, o
  <2>5. Contract!Apply(c, d)
    BY <1>1, <2>1, <2>2, <2>3, <2>4 DEF Contract!Apply, o
  <2> HIDE DEF d
  <2> QED BY <2>2, <2>5 DEF Promised, Contract!Next
<1>7. CASE ApplyFailed(r)
  <2>1. hand[r] \in Clients
    BY <1>7, HandAsked DEF ApplyFailed, Abort, Moving, Goto, Applying
  <2> QED BY <1>1, <1>7, <2>1, TurnedAway DEF ApplyFailed, Receipt, books
<1>8. CASE RecordApplied(r)
  <2>1. UNCHANGED <<applied, reply, status>>
    BY <1>8 DEF RecordApplied, clients
  <2>2. CASE UNCHANGED owner
    BY <1>1, <2>1, <2>2, StatusKept DEF Promised
  <2>3. CASE \E d \in Decisions : Register(r, d)
    BY <1>1, <1>2, <2>1, <2>3, Issues
  <2> QED BY <1>8, <2>2, <2>3 DEF RecordApplied
<1>9. CASE SaveApplied(r)
  <2> DEFINE c == hand[r]
  <2>1. UNCHANGED <<owner, applied, status>> /\ pc[r] = "saveapplied"
    BY <1>9 DEF SaveApplied, Abort, Moving, Goto
  <2>2. c \in Clients /\ ask[c] \in Decisions /\ reply[c] \in {"waiting", "gaveup"}
    BY <2>1, HandAsked DEF Applying
  <2>3. applied[ask[c]] = c
    BY <2>1 DEF BooksOK, BooksOf, Applying
  <2>4. CASE reply' = Told(c, "rejected")
    BY <1>1, <2>1, <2>2, <2>4, TurnedAway
  <2>5. CASE reply' = Told(c, "ok")
    <3>1. CASE reply[c] = "waiting"
      <4>1. reply' = [reply EXCEPT ![c] = "ok"]
        BY <1>0, <2>2, <2>5, <3>1 DEF Told
      <4>2. UNCHANGED [q \in Runs |-> Outcome(q)]
        BY <2>1 DEF Outcome
      <4> HIDE DEF c
      <4>3. Contract!Confirm(c)
        BY <1>1, <2>1, <2>2, <2>3, <3>1, <4>1, <4>2 DEF Contract!Confirm
      <4> QED BY <2>2, <4>3 DEF Promised, Contract!Next
    <3>2. CASE reply[c] # "waiting"
      <4>1. reply' = reply
        BY <1>0, <2>2, <2>5, <3>2 DEF Told
      <4> QED BY <1>1, <2>1, <4>1, StatusKept DEF Promised
    <3> QED BY <3>1, <3>2
  <2> QED BY <1>9, <2>4, <2>5 DEF SaveApplied, Receipt
<1> QED BY <1>3, <1>4, <1>5, <1>6, <1>7, <1>8, <1>9 DEF Confirming

LEMMA ClosingKeeps ==
    ASSUME Typed, LifeOK, NEW r \in Runs, Closing(r)
    PROVE  Promised
<1> DEFINE o == [q \in Runs |-> Outcome(q)]
<1>0. status \in [Runs -> {"none"} \cup Active \cup Terminal]
      /\ reply \in [Clients -> {"idle", "waiting", "ok", "rejected", "gaveup"}]
  BY DEF Typed, TypeOK, RecordTypes, BookTypes
<1>1. CASE Claim(r)
  <2>1. UNCHANGED <<events, owner, applied, ask, reply>>
    BY <1>1 DEF Claim, Moving, ending, books, clients
  <2>2. CASE UNCHANGED status
    BY <2>1, <2>2, StatusKept DEF Promised
  <2>3. CASE /\ status[r] \in Active /\ pc[r] \in {"claim", "claimbare"}
             /\ status' = [status EXCEPT ![r] = intent[r]]
    <3>1. intent[r] \in Terminal
      BY <2>3 DEF LifeOK, Life
    <3>2. o[r] = "active" /\ o' = [o EXCEPT ![r] = intent[r]]
      <4>1. \A q \in Runs : Outcome(q)' = IF q = r THEN intent[r] ELSE Outcome(q)
        BY <1>0, <2>3, <3>1 DEF Outcome, Active, Terminal
      <4>2. Outcome(r) = "active"
        BY <2>3 DEF Outcome
      <4> QED BY <4>1, <4>2
    <3> HIDE DEF o
    <3>3. Contract!Settle(r)
      BY <2>1, <3>1, <3>2 DEF Contract!Settle, Contract!Terminal, Terminal, o
    <3> QED BY <3>3 DEF Promised, Contract!Next
  <2> QED BY <1>1, <2>2, <2>3 DEF Claim, Unsettled
<1>2. CASE WrapUp(r)
  BY <1>2, StatusKept DEF WrapUp, Moving, ending, data, books, clients, Promised
<1>3. CASE Publish(r)
  <2>1. /\ status[r] \in Terminal /\ events[r] = <<>> /\ r \in registered
        /\ UNCHANGED <<status, owner, applied, ask, reply>>
    BY <1>3 DEF Publish, Goto, LifeOK, Life, books, clients
  <2>2. events' = [events EXCEPT ![r] = <<status[r]>>]
    BY <1>3, <2>1 DEF Publish
  <2>3. o[r] = status[r] /\ o' = o
    BY <2>1 DEF Outcome, Active, Terminal
  <2> HIDE DEF o
  <2>4. Contract!Announce(r)
    BY <2>1, <2>2, <2>3 DEF Contract!Announce, Contract!Terminal, Terminal, o
  <2> QED BY <2>4 DEF Promised, Contract!Next
<1>4. CASE FinalizeRun(r)
  <2> DEFINE C == {c \in Clients : c \in Queued(inbox[r]) /\ reply[c] = "waiting"}
  <2>1. UNCHANGED <<status, events, owner, applied, ask>>
    BY <1>4 DEF FinalizeRun, books
  <2>2. reply' = [c \in Clients |-> IF c \in C THEN "rejected" ELSE reply[c]]
    BY <1>4 DEF FinalizeRun, ClearConfirmations
  <2>3. \A c \in C : reply[c] = "waiting"
    OBVIOUS
  <2>4. C \in SUBSET Clients /\ o' = o
    BY <2>1 DEF Outcome
  <2> HIDE DEF C
  <2>5. Contract!Reject(C)
    BY <2>1, <2>2, <2>3, <2>4 DEF Contract!Reject
  <2> QED BY <2>4, <2>5 DEF Promised, Contract!Next
<1> QED BY <1>1, <1>2, <1>3, <1>4 DEF Closing

LEMMA EnvironmentKeeps ==
    ASSUME Typed, BooksOK, Environment
    PROVE  Promised
<1>0. reply \in [Clients -> {"idle", "waiting", "ok", "rejected", "gaveup"}]
  BY DEF Typed, TypeOK, BookTypes
<1>1. UNCHANGED <<events, owner, applied, status>>
  BY DEF Environment, CancelRun, NotifyAsyncReady, SubmitToolConfirmation, SubmitterLeaves, ending, books
<1>2. UNCHANGED [q \in Runs |-> Outcome(q)]
  BY <1>1 DEF Outcome
<1>3. CASE UNCHANGED <<ask, reply>>
  BY <1>1, <1>3, StatusKept DEF Promised
<1>4. ASSUME NEW c \in Clients, NEW d \in Decisions, SubmitToolConfirmation(c, d)
      PROVE  Promised
  <2>1. owner[d] # None
    BY <1>4 DEF SubmitToolConfirmation, BooksOK, Issued
  <2>2. /\ reply[c] = "idle" /\ ask' = [ask EXCEPT ![c] = d]
        /\ \E a \in {"waiting", "rejected"} : reply' = [reply EXCEPT ![c] = a]
    BY <1>4 DEF SubmitToolConfirmation
  <2>3. Contract!Ask(c, d)
    BY <1>1, <1>2, <2>1, <2>2 DEF Contract!Ask
  <2> QED BY <2>3 DEF Promised, Contract!Next
<1>5. ASSUME NEW c \in Clients, SubmitterLeaves(c) PROVE Promised
  <2>1. Contract!GiveUp(c)
    BY <1>1, <1>2, <1>5 DEF Contract!GiveUp, SubmitterLeaves
  <2> QED BY <2>1 DEF Promised, Contract!Next
<1> QED BY <1>3, <1>4, <1>5 DEF Environment, CancelRun, NotifyAsyncReady, clients

LEMMA ContractStep ==
    Typed /\ LifeOK /\ HeldOnce /\ BooksOK /\ [Next]_vars => [Contract!Next]_(Contract!cvars)
<1> SUFFICES ASSUME Typed, LifeOK, HeldOnce, BooksOK, [Next]_vars PROVE Promised
  BY DEF Promised, Kept
<1>1. ASSUME NEW r \in Runs, RunStep(r) PROVE Promised
  BY <1>1, StartingKeeps, DrainingKeeps, ConversingKeeps, ConfirmingKeeps, ClosingKeeps DEF RunStep
<1>2. ASSUME NEW r \in Runs, Panic(r) PROVE Promised
  BY <1>2, StatusKept DEF Panic, Ending, books, clients, Promised
<1>3. CASE Environment
  BY <1>3, EnvironmentKeeps
<1>4. CASE UNCHANGED vars
  BY <1>4, StatusKept DEF vars, data, ending, books, clients, Promised
<1> QED BY <1>1, <1>2, <1>3, <1>4 DEF Next

LEMMA ContractInit == Init => Contract!Init
BY DEF Init, Contract!Init, Outcome, Active

\* Queues, ledgers, goroutines and locks hidden, every behaviour of the runs is one that
\* RunContract allows: a run settles once and announces that once, and a submitter is told
\* "ok" only when its own submission was applied, once, to a decision of an active run
\* (SubmitToolConfirmation, waitForConfirmations, settleRunTerminal, finalizeRun).
THEOREM ImplementsContract == Spec => KeepsContract
BY ContractInit, ContractStep, TypedInit, TypedStep, LifeInit, LifeStep, HeldInit, HeldStep, BooksInit,
   BooksStep, PTL DEF Spec, KeepsContract, Contract!Spec
=============================================================================
