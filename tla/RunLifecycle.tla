---------------------------- MODULE RunLifecycle ----------------------------
(***************************************************************************)
(* One run of the agent runtime, from StartRun to its last event, and the  *)
(* tool confirmations that are submitted to it meanwhile.                  *)
(*                                                                         *)
(* A run is driven by one goroutine.  Everybody else only writes into its  *)
(* bounded inbox and never waits for room: CancelRun (which also cancels   *)
(* the run's context), notifyAsyncToolReady, and SubmitToolConfirmation,   *)
(* which routes a decision through the confirmation ledgers of the         *)
(* registered runs and then waits for a receipt.  The goroutine reads the  *)
(* inbox at two safe points only: at the top of its loop (drainRunInbox)   *)
(* and while it waits for confirmations (waitForConfirmations).            *)
(*                                                                         *)
(* pc[r] is the goroutine's position.  Saving, loading, model calls and    *)
(* tool calls are calls whose results are chosen nondeterministically.     *)
(***************************************************************************)
EXTENDS Naturals, Sequences, FiniteSets, SequencesExt

CONSTANTS
    Runs,        \* the runs that may be started
    Clients,     \* calls of SubmitToolConfirmation, each made at most once
    Decisions,   \* identifiers a permission decision may get, never reused
    None,
    InboxCap,    \* runInboxCapacity: 64 in the source
    MaxRetries,  \* maxSessionTailRunRetries: 3 in the source
    MaxSignals,  \* bound on the stop and async-ready events that are sent
    CrashPoints  \* where the goroutine may panic unexpectedly

ASSUME NoneAssumption == None \notin Runs \cup Clients \cup Decisions
ASSUME BoundsAssumption ==
    /\ InboxCap \in Nat \ {0}
    /\ MaxRetries \in Nat
    /\ MaxSignals \in Nat

Terminal == {"completed", "failed", "cancelled"}
Active == {"created", "running", "waiting"}
Kinds == {"reply", "tail", "compact"}

\* Positions of continueRun before the run settles: a panic here is recovered.
Working == {"drain", "requeue", "flush", "model", "reply", "lastflush",
            "prepare", "announce", "await", "wait", "applying", "deregister",
            "record", "saveapplied", "resolved", "execute", "endbatch", "retry"}
Settling == {"claimbare", "claim", "wrapup", "publish", "finalize"}
Positions == {"none", "created", "load", "compact", "done"} \cup Working \cup Settling

\* Calls out of the process: they return when they like, or when cancelled.
Outside == {"model", "execute", "compact"}

ASSUME CrashAssumption == CrashPoints \subseteq Working \cup {"wrapup"}

Event == [kind : {"stop", "ready"}, by : {None}] \cup [kind : {"confirm"}, by : Clients]
Stop == [kind |-> "stop", by |-> None]
Ready == [kind |-> "ready", by |-> None]
Submission(c) == [kind |-> "confirm", by |-> c]

VARIABLES
    registered,  \* s.runs: the run records the system still knows
    kind,        \* [Runs -> how the run was started; "tail" may retry]
    pc,          \* [Runs -> Positions]
    status,      \* [Runs -> record.state.Status]
    cancelled,   \* [Runs -> whether the run's context is cancelled]
    inbox,       \* [Runs -> the events queued for the goroutine]
    ledger,      \* [Runs -> record.confirmationLedger]
    intent,      \* [Runs -> the terminal status being settled]
    panicking,   \* [Runs -> a panic is unwinding out of the wrap-up]
    events,      \* [Runs -> the terminal events published]
    stop,        \* [Runs -> drainRunInbox has met a stop event]
    after,       \* [Runs -> where drainRunInbox was called from]
    deferred,    \* [Runs -> the submissions drainRunInbox has put aside]
    plans,       \* [Runs -> the decisions the current layer waits for]
    confirmed,   \* [Runs -> those of them already applied]
    following,   \* [Runs -> decisions of the next layer]
    hand,        \* [Runs -> the submission being applied]
    attempts,    \* [Runs -> retries made so far]
    persisted,   \* [Runs -> record.persistedAssistantOutput]
    owner,       \* [Decisions -> the run it was issued to]
    visible,     \* decisions published or saved, so known to clients
    dropped,     \* decisions given up by resetSessionTailRun
    applied,     \* [Decisions -> the submission recorded as its outcome]
    ask,         \* [Clients -> the decision submitted]
    reply,       \* [Clients -> where the submission stands]
    signals      \* stop and async-ready events sent so far

locals == <<stop, after, deferred>>
layer == <<plans, confirmed, following>>
trying == <<attempts, persisted>>
ending == <<intent, panicking, events>>
identity == <<registered, kind>>
books == <<owner, visible, dropped, applied>>
clients == <<ask, reply>>
data == <<identity, status, cancelled, inbox, ledger, locals, layer, hand, trying,
          books, clients, signals>>
vars == <<pc, ending, data>>

-----------------------------------------------------------------------------
ControlTypes ==
    /\ pc \in [Runs -> Positions]
    /\ intent \in [Runs -> {"none"} \cup Terminal]
    /\ panicking \in [Runs -> BOOLEAN]
    /\ events \in [Runs -> Seq({"none"} \cup Active \cup Terminal)]

RecordTypes ==
    /\ registered \subseteq Runs
    /\ kind \in [Runs -> Kinds]
    /\ status \in [Runs -> {"none"} \cup Active \cup Terminal]
    /\ cancelled \in [Runs -> BOOLEAN]
    /\ ledger \in [Runs -> SUBSET Decisions]
    /\ attempts \in [Runs -> 0..MaxRetries]
    /\ persisted \in [Runs -> BOOLEAN]

QueueTypes ==
    /\ inbox \in [Runs -> Seq(Event)]
    /\ deferred \in [Runs -> Seq(Event)]
    /\ stop \in [Runs -> BOOLEAN]
    /\ after \in [Runs -> {"loop", "abort"}]
    /\ signals \in 0..MaxSignals

BatchTypes ==
    /\ plans \in [Runs -> SUBSET Decisions]
    /\ confirmed \in [Runs -> SUBSET Decisions]
    /\ following \in [Runs -> SUBSET Decisions]
    /\ hand \in [Runs -> Clients \cup {None}]

BookTypes ==
    /\ owner \in [Decisions -> Runs \cup {None}]
    /\ visible \subseteq Decisions
    /\ dropped \subseteq Decisions
    /\ applied \in [Decisions -> Clients \cup {None}]
    /\ ask \in [Clients -> Decisions \cup {None}]
    /\ reply \in [Clients -> {"idle", "waiting", "ok", "rejected", "gaveup"}]

TypeOK == ControlTypes /\ RecordTypes /\ QueueTypes /\ BatchTypes /\ BookTypes

Init ==
    /\ registered = {}
    /\ kind \in [Runs -> Kinds]
    /\ pc = [r \in Runs |-> "none"]
    /\ status = [r \in Runs |-> "none"]
    /\ cancelled = [r \in Runs |-> FALSE]
    /\ inbox = [r \in Runs |-> <<>>]
    /\ ledger = [r \in Runs |-> {}]
    /\ intent = [r \in Runs |-> "none"]
    /\ panicking = [r \in Runs |-> FALSE]
    /\ events = [r \in Runs |-> <<>>]
    /\ stop = [r \in Runs |-> FALSE]
    /\ after = [r \in Runs |-> "loop"]
    /\ deferred = [r \in Runs |-> <<>>]
    /\ plans = [r \in Runs |-> {}]
    /\ confirmed = [r \in Runs |-> {}]
    /\ following = [r \in Runs |-> {}]
    /\ hand = [r \in Runs |-> None]
    /\ attempts = [r \in Runs |-> 0]
    /\ persisted = [r \in Runs |-> FALSE]
    /\ owner = [d \in Decisions |-> None]
    /\ visible = {}
    /\ dropped = {}
    /\ applied = [d \in Decisions |-> None]
    /\ ask = [c \in Clients |-> None]
    /\ reply = [c \in Clients |-> "idle"]
    /\ signals = 0

-----------------------------------------------------------------------------
\* The goroutine moves from one position to another.
Goto(r, from, to) == pc[r] = from /\ pc' = [pc EXCEPT ![r] = to]

\* The receipt channel holds one value; a submitter that left never reads it.
Told(c, answer) == [reply EXCEPT ![c] = IF @ = "waiting" THEN answer ELSE @]

\* Head for settleRunTerminal with the status s.
Ending(r, from, s) ==
    /\ Goto(r, from, "claim")
    /\ intent' = [intent EXCEPT ![r] = s]
    /\ UNCHANGED <<panicking, events>>

Moving(r, from, to) == Goto(r, from, to) /\ UNCHANGED ending

\* A storage conflict restarts a run that answers "from the session's tail"
\* and has no reply of its own in storage yet; every other error fails it.
Retryable(r) == kind[r] = "tail" /\ ~persisted[r]
SaveFailed(r, from) ==
    \/ Retryable(r) /\ Moving(r, from, "retry")
    \/ Ending(r, from, "failed")

\* handleToolIntents returned an error: a cancelled run counts as cancelled.
BatchFailed(r, from) ==
    IF cancelled[r] THEN Ending(r, from, "cancelled") ELSE SaveFailed(r, from)

\* waitForConfirmations gives up: it drains the inbox before it returns.
Abort(r, from) ==
    /\ Moving(r, from, "drain")
    /\ after' = [after EXCEPT ![r] = "abort"]
    /\ UNCHANGED <<stop, deferred>>

\* Identifiers are random: a new decision was never issued before.
Fresh(d) == owner[d] = None

RegisterOwnerOnly(r, d) ==        \* mutant of Register: the ledger is forgotten
    Fresh(d) /\ owner' = [owner EXCEPT ![d] = r] /\ UNCHANGED ledger

Register(r, d) ==
    /\ Fresh(d)
    /\ owner' = [owner EXCEPT ![d] = r]
    /\ ledger' = [ledger EXCEPT ![r] = @ \cup {d}]

HasRoom(r) == Len(inbox[r]) < InboxCap
Enqueue(r, e) == inbox' = [inbox EXCEPT ![r] = IF HasRoom(r) THEN Append(@, e) ELSE @]

-----------------------------------------------------------------------------
(* Starting a run. *)

StartRun(r) ==
    /\ Moving(r, "none", "created")
    /\ registered' = registered \cup {r}
    /\ status' = [status EXCEPT ![r] = "created"]
    /\ UNCHANGED <<kind, cancelled, inbox, ledger, locals, layer, hand, trying,
                   books, clients, signals>>

MarkRunning(r) ==
    /\ Moving(r, "created", "load")
    /\ status' = [status EXCEPT ![r] = "running"]
    /\ UNCHANGED <<identity, cancelled, inbox, ledger, locals, layer, hand, trying,
                   books, clients, signals>>

\* The session is loaded, the run's first write accepted: spawn the goroutine.
Loaded(r) ==
    /\ Moving(r, "load", IF kind[r] = "compact" THEN "compact" ELSE "drain")
    /\ UNCHANGED data

LoadFailed(r) ==
    /\ Goto(r, "load", "claimbare")
    /\ cancelled' = [cancelled EXCEPT ![r] = TRUE]
    /\ intent' = [intent EXCEPT ![r] = "failed"]
    /\ UNCHANGED <<identity, status, inbox, ledger, panicking, events, locals, layer,
                   hand, trying, books, clients, signals>>

\* continueCompactRun reads no inbox: the summary is made, or fails, or is cancelled.
Compact(r) ==
    /\ \/ Ending(r, "compact", "completed")
       \/ cancelled[r] /\ Ending(r, "compact", "cancelled")
       \/ /\ Goto(r, "compact", "claimbare")
          /\ intent' = [intent EXCEPT ![r] = "failed"]
          /\ UNCHANGED <<panicking, events>>
    /\ UNCHANGED data

-----------------------------------------------------------------------------
(* The outside: cancelling, async results, submitters. *)

CancelRun(r) ==
    /\ signals < MaxSignals
    /\ r \in registered /\ status[r] \in Active
    /\ cancelled' = [cancelled EXCEPT ![r] = TRUE]
    /\ Enqueue(r, Stop)
    /\ signals' = signals + 1
    /\ UNCHANGED <<identity, pc, status, ledger, ending, locals, layer, hand, trying,
                   books, clients>>

NotifyAsyncReady(r) ==
    /\ signals < MaxSignals
    /\ r \in registered /\ status[r] \in Active
    /\ Enqueue(r, Ready)
    /\ signals' = signals + 1
    /\ UNCHANGED <<identity, pc, status, cancelled, ledger, ending, locals, layer,
                   hand, trying, books, clients>>

\* Routing and enqueueing are one critical section of s.mu.
SubmitToolConfirmation(c, d) ==
    /\ reply[c] = "idle" /\ d \in visible
    /\ ask' = [ask EXCEPT ![c] = d]
    /\ LET holders == {r \in registered : d \in ledger[r]}
       IN \/ /\ holders = {}
             /\ reply' = [reply EXCEPT ![c] = "rejected"]
             /\ UNCHANGED inbox
          \/ \E r \in holders :
                /\ reply' = [reply EXCEPT ![c] = IF HasRoom(r) THEN "waiting" ELSE "rejected"]
                /\ Enqueue(r, Submission(c))
    /\ UNCHANGED <<identity, pc, status, cancelled, ledger, ending, locals, layer,
                   hand, trying, books, signals>>

\* The submitter's own context ends; its submission stays where it is.
SubmitterLeaves(c) ==
    /\ reply[c] = "waiting"
    /\ reply' = [reply EXCEPT ![c] = "gaveup"]
    /\ UNCHANGED <<identity, pc, status, cancelled, inbox, ledger, ending, locals, layer,
                   hand, trying, books, ask, signals>>

-----------------------------------------------------------------------------
(* drainRunInbox. *)

DeferAndReject(r, e) ==           \* mutant of Defer: a missing "continue"
    /\ deferred' = [deferred EXCEPT ![r] = Append(@, e)]
    /\ reply' = Told(e.by, "rejected")

Defer(r, e) ==
    /\ deferred' = [deferred EXCEPT ![r] = Append(@, e)]
    /\ UNCHANGED reply

DrainTake(r) ==
    /\ pc[r] = "drain" /\ inbox[r] # <<>>
    /\ inbox' = [inbox EXCEPT ![r] = Tail(@)]
    /\ LET e == Head(inbox[r]) IN
       \/ /\ e.kind = "stop"
          /\ stop' = [stop EXCEPT ![r] = TRUE]
          /\ UNCHANGED <<deferred, reply>>
       \/ e.kind = "ready" /\ UNCHANGED <<stop, deferred, reply>>
       \/ /\ e.kind = "confirm" /\ ask[e.by] \in ledger[r]
          /\ Defer(r, e)
          /\ UNCHANGED stop
       \/ /\ e.kind = "confirm" /\ ask[e.by] \notin ledger[r]
          /\ reply' = Told(e.by, "rejected")
          /\ UNCHANGED <<stop, deferred>>
    /\ UNCHANGED <<identity, pc, status, cancelled, ledger, ending, after, layer, hand,
                   trying, books, ask, signals>>

DrainEmpty(r) ==
    /\ Moving(r, "drain", "requeue") /\ inbox[r] = <<>>
    /\ UNCHANGED data

\* Put the deferred submissions back, one at a time, dropping what finds no room.
Requeue(r) ==
    /\ pc[r] = "requeue" /\ deferred[r] # <<>>
    /\ Enqueue(r, Head(deferred[r]))
    /\ deferred' = [deferred EXCEPT ![r] = Tail(@)]
    /\ UNCHANGED <<identity, pc, status, cancelled, ledger, ending, stop, after, layer,
                   hand, trying, books, clients, signals>>

Drained(r) ==
    /\ deferred[r] = <<>>
    /\ \/ /\ after[r] = "loop"
          /\ IF stop[r] \/ cancelled[r] THEN Ending(r, "requeue", "cancelled")
                                       ELSE Moving(r, "requeue", "flush")
       \/ after[r] = "abort" /\ BatchFailed(r, "requeue")
    /\ stop' = [stop EXCEPT ![r] = FALSE]
    /\ after' = [after EXCEPT ![r] = "loop"]
    /\ UNCHANGED <<identity, status, cancelled, inbox, ledger, deferred, layer, hand,
                   trying, books, clients, signals>>

-----------------------------------------------------------------------------
(* runConversation: one turn of the loop up to the tool intents. *)

\* flushAsyncToolResults: nothing to add, results added (another turn), or an error.
Flush(r) ==
    /\ \/ Moving(r, "flush", "model")
       \/ Moving(r, "flush", "drain")
       \/ SaveFailed(r, "flush")           \* or buildRoleContext fails
    /\ UNCHANGED data

ModelReturns(r) ==
    /\ IF cancelled[r]
       THEN Ending(r, "model", "cancelled")
       ELSE Moving(r, "model", "reply") \/ Ending(r, "model", "failed")
    /\ UNCHANGED data

\* A reply without tool intents always writes the assistant message; one with
\* intents does when it has content of its own.
SaveReply(r) ==
    /\ \/ /\ Moving(r, "reply", "prepare")
          /\ \E wrote \in BOOLEAN :
                persisted' = [persisted EXCEPT ![r] = @ \/ wrote]
       \/ /\ Moving(r, "reply", "lastflush")
          /\ persisted' = [persisted EXCEPT ![r] = TRUE]
       \/ SaveFailed(r, "reply") /\ UNCHANGED persisted
    /\ UNCHANGED <<identity, status, cancelled, inbox, ledger, locals, layer, hand,
                   attempts, books, clients, signals>>

LastFlush(r) ==
    /\ \/ Ending(r, "lastflush", "completed")
       \/ Moving(r, "lastflush", "drain")
       \/ SaveFailed(r, "lastflush")
    /\ UNCHANGED data

-----------------------------------------------------------------------------
(* handleToolIntents: prepare the batch. *)

\* The decision enters the ledger before anything makes it visible.
PreparePlan(r) ==
    /\ Moving(r, "prepare", "announce")
    /\ \E d \in Decisions :
          /\ Register(r, d)
          /\ plans' = [plans EXCEPT ![r] = @ \cup {d}]
    /\ UNCHANGED <<identity, status, cancelled, inbox, locals, confirmed, following,
                   hand, trying, visible, dropped, applied, clients, signals>>

AnnouncePlan(r) ==
    /\ Moving(r, "announce", "prepare")
    /\ visible' = visible \cup plans[r]
    /\ UNCHANGED <<identity, status, cancelled, inbox, ledger, locals, layer, hand,
                   trying, owner, dropped, applied, clients, signals>>

Prepared(r) ==
    /\ \/ /\ Moving(r, "prepare", IF plans[r] = {} THEN "execute" ELSE "await")
          /\ persisted' = [persisted EXCEPT ![r] = TRUE]
       \/ BatchFailed(r, "prepare") /\ UNCHANGED persisted
    /\ UNCHANGED <<identity, status, cancelled, inbox, ledger, locals, layer, hand,
                   attempts, books, clients, signals>>

-----------------------------------------------------------------------------
(* resolvePendingToolConfirmations and waitForConfirmations. *)

EnterWait(r) ==
    /\ \/ /\ Moving(r, "await", "wait")
          /\ status' = [status EXCEPT ![r] = "waiting"]
       \/ BatchFailed(r, "await") /\ UNCHANGED status
    /\ UNCHANGED <<identity, cancelled, inbox, ledger, locals, layer, hand, trying,
                   books, clients, signals>>

Waiting(r) == pc[r] = "wait" /\ confirmed[r] # plans[r]

\* Only a decision of this layer, not applied yet and still in the ledger, is taken.
Acceptable(r, d) == d \in (plans[r] \ confirmed[r]) \cap ledger[r]

WaitTakesSignal(r) ==
    /\ Waiting(r) /\ inbox[r] # <<>>
    /\ inbox' = [inbox EXCEPT ![r] = Tail(@)]
    /\ \/ /\ Head(inbox[r]).kind \in {"stop", "ready"}
          /\ UNCHANGED <<pc, ending, locals>>
       \/ /\ Head(inbox[r]).kind = "ready"   \* flushing the results failed
          /\ Abort(r, "wait")
    /\ UNCHANGED <<identity, status, cancelled, ledger, layer, hand, trying, books,
                   clients, signals>>

WaitTakesSubmission(r) ==
    /\ Waiting(r) /\ inbox[r] # <<>>
    /\ inbox' = [inbox EXCEPT ![r] = Tail(@)]
    /\ LET e == Head(inbox[r]) IN
       /\ e.kind = "confirm"
       /\ IF Acceptable(r, ask[e.by])
          THEN /\ hand' = [hand EXCEPT ![r] = e.by]
               /\ Moving(r, "wait", "applying")
               /\ UNCHANGED <<reply, locals>>
          ELSE /\ reply' = Told(e.by, "rejected")
               /\ Abort(r, "wait")
               /\ UNCHANGED hand
    /\ UNCHANGED <<identity, status, cancelled, ledger, layer, trying, books, ask,
                   signals>>

WaitStopped(r) ==                 \* mutant of WaitCancelled: it trusts the stop event
    /\ Waiting(r) /\ inbox[r] # <<>> /\ Head(inbox[r]) = Stop
    /\ Abort(r, "wait")
    /\ UNCHANGED <<identity, status, cancelled, inbox, ledger, layer, hand, trying,
                   books, clients, signals>>

WaitCancelled(r) ==
    /\ Waiting(r) /\ cancelled[r]
    /\ Abort(r, "wait")
    /\ UNCHANGED <<identity, status, cancelled, inbox, ledger, layer, hand, trying,
                   books, clients, signals>>

\* Give the submission in hand its receipt.
Receipt(r, answer) ==
    /\ reply' = Told(hand[r], answer)
    /\ hand' = [hand EXCEPT ![r] = None]

\* ApplyConfirmation, then recordConfirmationOutcome before the ledger forgets.
ApplyConfirmation(r) ==
    /\ Moving(r, "applying", "deregister")
    /\ applied' = [applied EXCEPT ![ask[hand[r]]] = hand[r]]
    /\ UNCHANGED <<identity, status, cancelled, inbox, ledger, locals, layer, hand,
                   trying, owner, visible, dropped, clients, signals>>

ApplyFailed(r) ==
    /\ Abort(r, "applying")
    /\ Receipt(r, "rejected")
    /\ UNCHANGED <<identity, status, cancelled, inbox, ledger, layer, trying, books,
                   ask, signals>>

Deregister(r) ==
    /\ Moving(r, "deregister", "record")
    /\ ledger' = [ledger EXCEPT ![r] = @ \ {ask[hand[r]]}]
    /\ confirmed' = [confirmed EXCEPT ![r] = @ \cup {ask[hand[r]]}]
    /\ UNCHANGED <<identity, status, cancelled, inbox, locals, plans, following, hand,
                   trying, books, clients, signals>>

\* Applying a confirmation may ask for another one: it is registered first.
RecordApplied(r) ==
    /\ Moving(r, "record", "saveapplied")
    /\ \/ \E d \in Decisions :
             /\ Register(r, d)
             /\ following' = [following EXCEPT ![r] = @ \cup {d}]
       \/ UNCHANGED <<owner, ledger, following>>
    /\ UNCHANGED <<identity, status, cancelled, inbox, locals, plans, confirmed, hand,
                   trying, visible, dropped, applied, clients, signals>>

SaveApplied(r) ==
    /\ \/ /\ Moving(r, "saveapplied", "wait")
          /\ Receipt(r, "ok")
          /\ visible' = visible \cup following[r]
          /\ UNCHANGED locals
       \/ /\ Abort(r, "saveapplied")
          /\ Receipt(r, "rejected")
          /\ UNCHANGED visible
    /\ UNCHANGED <<identity, status, cancelled, inbox, ledger, layer, trying, owner,
                   dropped, applied, ask, signals>>

\* The layer is resolved; the next layer, if any, keeps the run waiting.
LayerResolved(r) ==
    /\ Moving(r, "wait", "resolved") /\ confirmed[r] = plans[r]
    /\ status' = [status EXCEPT ![r] = IF following[r] = {} THEN "running" ELSE @]
    /\ plans' = [plans EXCEPT ![r] = following[r]]
    /\ confirmed' = [confirmed EXCEPT ![r] = {}]
    /\ following' = [following EXCEPT ![r] = {}]
    /\ UNCHANGED <<identity, cancelled, inbox, ledger, locals, hand, trying, books,
                   clients, signals>>

SaveResolved(r) ==
    /\ \/ Moving(r, "resolved", IF plans[r] = {} THEN "execute" ELSE "await")
       \/ BatchFailed(r, "resolved")
    /\ UNCHANGED data

-----------------------------------------------------------------------------
(* Executing the batch, and trying again from the session's tail. *)

\* acceptAsyncToolEntries and executeReadyTools, which waits for every tool.
Execute(r) ==
    /\ Moving(r, "execute", "endbatch") \/ BatchFailed(r, "execute")
    /\ UNCHANGED data

EndBatch(r) ==
    /\ IF cancelled[r]
       THEN Ending(r, "endbatch", "cancelled")
       ELSE Moving(r, "endbatch", "drain") \/ SaveFailed(r, "endbatch")
    /\ UNCHANGED data

OneTooMany(r) == attempts[r] <= MaxRetries      \* mutant of MayRetry
MayRetry(r) == attempts[r] < MaxRetries

\* resetSessionTailRun: forget the undecided batch and start from the new tail.
Retry(r) ==
    /\ \/ /\ MayRetry(r)
          /\ Moving(r, "retry", "drain")
          /\ attempts' = [attempts EXCEPT ![r] = @ + 1]
          /\ dropped' = dropped \cup ledger[r]
          /\ ledger' = [ledger EXCEPT ![r] = {}]
          /\ plans' = [plans EXCEPT ![r] = {}]
       \/ /\ Ending(r, "retry", "failed")     \* out of attempts, or the reload failed
          /\ UNCHANGED <<attempts, dropped, ledger, plans>>
    /\ UNCHANGED <<identity, status, cancelled, inbox, locals, confirmed, following,
                   hand, persisted, owner, visible, applied, clients, signals>>

-----------------------------------------------------------------------------
(* settleRunTerminal and finalizeRun. *)

AlwaysUnsettled(r) == TRUE        \* mutant of Unsettled: no gate
Unsettled(r) == status[r] \in Active

\* Whoever finds the run active settles it; a later claim is absorbed.
Claim(r) ==
    /\ \/ /\ Unsettled(r)
          /\ pc[r] \in {"claim", "claimbare"}
          /\ Moving(r, pc[r], IF pc[r] = "claim" THEN "wrapup" ELSE "publish")
          /\ status' = [status EXCEPT ![r] = intent[r]]
       \/ /\ ~Unsettled(r)
          /\ Moving(r, "claim", "finalize")
          /\ UNCHANGED status
    /\ UNCHANGED <<identity, cancelled, inbox, ledger, locals, layer, hand, trying,
                   books, clients, signals>>

\* The closing save may fail: the settled status stands.
WrapUp(r) ==
    /\ Moving(r, "wrapup", "publish")
    /\ UNCHANGED data

\* The event is named after the intent and carries the state found in s.runs.
Publish(r) ==
    /\ Goto(r, "publish", "finalize")
    /\ events' = [events EXCEPT ![r] =
                    Append(@, IF r \in registered THEN status[r] ELSE "none")]
    /\ UNCHANGED <<identity, status, cancelled, inbox, ledger, intent, panicking, locals,
                   layer, hand, trying, books, clients, signals>>

Queued(s) == {e.by : e \in {f \in ToSet(s) : f.kind = "confirm"}}

ExpiredEarly(r) ==                \* mutant of Expired: terminalAt is not looked at
    {q \in registered \ {r} : status[q] \in Terminal}

\* Records that have been terminal for terminalRunRetention; time is not modelled.
Expired(r) == {q \in registered \ {r} : pc[q] = "done"}

ClearInboxOnly(r) ==              \* mutant of ClearConfirmations: the ledger stays open
    /\ UNCHANGED ledger
    /\ inbox' = [inbox EXCEPT ![r] = <<>>]
    /\ reply' = [c \in Clients |->
                    IF c \in Queued(inbox[r]) /\ reply[c] = "waiting" THEN "rejected"
                                                                      ELSE reply[c]]

ClearSilently(r) ==               \* mutant of ClearConfirmations: nobody is told
    /\ ledger' = [ledger EXCEPT ![r] = {}]
    /\ inbox' = [inbox EXCEPT ![r] = <<>>]
    /\ UNCHANGED reply

\* clearConfirmationsLocked: forget the ledger, turn away what is queued.
ClearConfirmations(r) ==
    /\ ledger' = [ledger EXCEPT ![r] = {}]
    /\ inbox' = [inbox EXCEPT ![r] = <<>>]
    /\ reply' = [c \in Clients |->
                    IF c \in Queued(inbox[r]) /\ reply[c] = "waiting" THEN "rejected"
                                                                      ELSE reply[c]]

\* Close the books and drop expired records.
FinalizeRun(r) ==
    /\ pc[r] = "finalize"
    /\ ClearConfirmations(r)
    /\ \E gone \in SUBSET Expired(r) : registered' = registered \ gone
    /\ pc' = [pc EXCEPT ![r] = IF panicking[r] THEN "claim" ELSE "done"]
    /\ intent' = [intent EXCEPT ![r] = IF panicking[r] THEN "failed" ELSE @]
    /\ panicking' = [panicking EXCEPT ![r] = FALSE]
    /\ plans' = [plans EXCEPT ![r] = {}]
    /\ confirmed' = [confirmed EXCEPT ![r] = {}]
    /\ following' = [following EXCEPT ![r] = {}]
    /\ UNCHANGED <<kind, status, cancelled, events, locals, hand, trying, books, ask,
                   signals>>

\* A panic of the goroutine: recovered by continueRun, which fails the run.  Out
\* of the wrap-up the deferred publication and finalizeRun run first.
Panic(r) ==
    /\ kind[r] # "compact" /\ pc[r] \in CrashPoints
    /\ IF pc[r] = "wrapup"
       THEN /\ Goto(r, "wrapup", "publish")
            /\ panicking' = [panicking EXCEPT ![r] = TRUE]
            /\ UNCHANGED <<intent, events>>
       ELSE Ending(r, pc[r], "failed")
    /\ hand' = [hand EXCEPT ![r] = None]
    /\ deferred' = [deferred EXCEPT ![r] = <<>>]
    /\ stop' = [stop EXCEPT ![r] = FALSE]
    /\ after' = [after EXCEPT ![r] = "loop"]
    /\ UNCHANGED <<identity, status, cancelled, inbox, ledger, layer, trying, books,
                   clients, signals>>

-----------------------------------------------------------------------------
Starting(r) == StartRun(r) \/ MarkRunning(r) \/ Loaded(r) \/ LoadFailed(r) \/ Compact(r)

Draining(r) == DrainTake(r) \/ DrainEmpty(r) \/ Requeue(r) \/ Drained(r)

Conversing(r) ==
    Flush(r) \/ ModelReturns(r) \/ SaveReply(r) \/ LastFlush(r) \/ PreparePlan(r)
        \/ AnnouncePlan(r) \/ Prepared(r) \/ Execute(r) \/ EndBatch(r) \/ Retry(r)

Confirming(r) ==
    EnterWait(r) \/ WaitTakesSignal(r) \/ WaitTakesSubmission(r) \/ WaitCancelled(r)
        \/ ApplyConfirmation(r) \/ ApplyFailed(r) \/ Deregister(r) \/ RecordApplied(r)
        \/ SaveApplied(r) \/ LayerResolved(r) \/ SaveResolved(r)

Closing(r) == Claim(r) \/ WrapUp(r) \/ Publish(r) \/ FinalizeRun(r)

RunStep(r) ==
    Starting(r) \/ Draining(r) \/ Conversing(r) \/ Confirming(r) \/ Closing(r)

Environment ==
    \/ \E r \in Runs : CancelRun(r) \/ NotifyAsyncReady(r)
    \/ \E c \in Clients, d \in Decisions : SubmitToolConfirmation(c, d)
    \/ \E c \in Clients : SubmitterLeaves(c)

\* The system may rest only so: every run is done or waits for its user.
Resting == \A r \in Runs : pc[r] = "done" \/ (Waiting(r) /\ inbox[r] = <<>>)

Next ==
    \/ \E r \in Runs : RunStep(r) \/ Panic(r)
    \/ Environment
    \/ Resting /\ UNCHANGED vars

Spec == Init /\ [][Next]_vars

\* Go keeps running a goroutine that can run, but a call out of the process need
\* only come back once the run's context is cancelled.  Nobody has to start a run.
Prompt(r) ==
    /\ pc[r] # "none"
    /\ pc[r] \in Outside => cancelled[r]
    /\ RunStep(r)
Fairness == \A r \in Runs : WF_vars(Prompt(r))
FairSpec == Spec /\ Fairness

-----------------------------------------------------------------------------
(* Properties. *)

\* A run that is done has published exactly one terminal event, no run publishes a
\* second one, and the event carries the status the run was settled with: even if
\* the wrap-up panics, and even while finished records are being reclaimed
\* (settleRunTerminal, finalizeRun, reclaimTerminalRunsLocked).
TerminalEventOnce ==
    \A r \in Runs :
        /\ events[r] # <<>> => events[r] = <<status[r]>> /\ status[r] \in Terminal
        /\ pc[r] = "done" => events[r] # <<>>

\* Visible means routable: while its run is active, a decision a client has seen can
\* be found in the run's ledger, unless its outcome is already recorded or the run
\* gave the batch up (registerToolConfirmation before publish and save,
\* recordConfirmationOutcome before deregisterToolConfirmation).
VisibleRoutable ==
    \A d \in visible : \A r \in Runs :
        owner[d] = r /\ status[r] \in Active =>
            d \in ledger[r] \/ applied[d] # None \/ d \in dropped

Places(r) == {inbox[r], deferred[r]}
HeldBy(r) == (UNION {Queued(s) : s \in Places(r)}) \cup ({hand[r]} \ {None})

\* Every submission sits in one place only, once: the receipt channel has room for
\* one value, so a second receipt would block the run's goroutine for good
\* (drainRunInbox, waitForConfirmations, clearConfirmationsLocked).
HeldOnce ==
    /\ \A r, q \in Runs : r # q => HeldBy(r) \cap HeldBy(q) = {}
    /\ \A r \in Runs :
          /\ Queued(inbox[r]) \cap Queued(deferred[r]) = {}
          /\ hand[r] \notin Queued(inbox[r]) \cup Queued(deferred[r])
          /\ \A s \in Places(r) : \A i, j \in DOMAIN s :
                s[i].kind = "confirm" /\ s[i] = s[j] => i = j
          /\ \A c \in HeldBy(r) : reply[c] \in {"waiting", "gaveup"}

\* Once a run is done nothing can be routed to it and nothing is left in its inbox:
\* the routing and the closing of the books exclude each other
\* (SubmitToolConfirmation, clearConfirmationsLocked, both under s.mu).
DoneIsClosed ==
    \A r \in Runs : pc[r] = "done" => ledger[r] = {} /\ inbox[r] = <<>>

\* A submitter still waiting for its receipt can still get one: its submission is
\* in the hands of some run.  The comments on SubmitToolConfirmation promise this
\* without condition; it takes an inbox that is never full and no panic.
NoneStranded ==
    \A c \in Clients : reply[c] = "waiting" => \E r \in Runs : c \in HeldBy(r)

\* A cancelled run settles and finishes, whatever it was doing.
CancelFinishes ==
    \A r \in Runs : (cancelled[r] /\ pc[r] # "none") ~> pc[r] = "done"

\* If model calls and tools come back, a submitter is answered or leaves.
OutsideReturns ==
    \A r \in Runs : WF_vars(pc[r] \in Outside /\ RunStep(r))
SubmitterAnswered ==
    OutsideReturns => \A c \in Clients : reply[c] = "waiting" ~> reply[c] # "waiting"

\* The run's promise, with the queue, the ledger and the goroutine hidden.
Outcome(r) ==
    IF status[r] \in Active THEN "active" ELSE status[r]

Contract == INSTANCE RunContract WITH
    outcome <- [r \in Runs |-> Outcome(r)], announced <- events

KeepsContract == Contract!Spec
=============================================================================
