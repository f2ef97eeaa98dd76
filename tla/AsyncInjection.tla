--------------------------- MODULE AsyncInjection ---------------------------
(***************************************************************************)
(* Async tool tasks of one session: how a task is accepted by a run, is    *)
(* executed in the background, and how its result gets into the session.   *)
(*                                                                         *)
(* A task lives in three places: the registry in memory (s.asyncTasks), the *)
(* session file, and the copy of the session each run works on.  Only runs *)
(* write the session.  A run that finds a ready result claims it in the     *)
(* file, saves the result message together with the completion mark, and    *)
(* forgets the task in the registry.  A result that becomes ready wakes the *)
(* active runs of the session, or starts a run of its own.  After a restart *)
(* the session file is all there is.                                        *)
(*                                                                         *)
(* runPc[r] is the place of run r; a save may fail before it writes (by an  *)
(* error, or because the run's context is cancelled) or after it has.       *)
(***************************************************************************)
EXTENDS Naturals, Sequences, FiniteSets, TLC

CONSTANTS
    SessionRuns,  \* the runs of this session, each started at most once
    UserRuns,     \* those a user may start; the others are kept for continuations
    Tasks, NoOne,
    MaxFailures,  \* bound on failures of the storage and the model
    MaxCancels,   \* bound on cancellations
    MaxCrashes    \* bound on restarts of the process

ASSUME TaskAssumption == NoOne \notin SessionRuns \cup Tasks /\ SessionRuns \cap Tasks = {}
ASSUME UserAssumption == UserRuns \subseteq SessionRuns
ASSUME TaskBounds ==
    MaxFailures \in Nat /\ MaxCancels \in Nat /\ MaxCrashes \in Nat

\* "ready" is a real result, "lost" the failure written for a task whose process died.
Statuses == {"absent", "pending", "running", "ready", "lost", "completed"}
Record == [status : Statuses, claim : SessionRuns \cup {NoOne}]
Entry(s) == [status |-> s, claim |-> NoOne]
Nothing == [t \in Tasks |-> Entry("absent")]

Handling == {"inject", "reclaim", "release", "retract", "accept"}
Flushing == {"read", "resync", "merge", "claim", "inject", "reclaim", "release",
             "retract"}
\* The run is active and asyncToolTaskMatchesRun can recognise its session.
Bound == {"first", "compact", "top", "model", "batch", "wait", "work", "accept",
          "cleanup", "reload", "resume", "settle"} \cup Flushing
RunPlaces == {"none", "load", "recover", "wrapup", "close", "done"} \cup Bound

VARIABLES
    up,          \* the process is running
    runPc,       \* [SessionRuns -> RunPlaces]
    ctxCancelled, \* [SessionRuns -> the run's context is cancelled]
    copy,        \* [SessionRuns -> record.session.AsyncToolTasks]
    view,        \* [SessionRuns -> the session file as just read]
    flushAfter,  \* [SessionRuns -> from where the results are flushed]
    todo,        \* [SessionRuns -> the ready results left to inject]
    taken,       \* [SessionRuns -> the task being injected or accepted]
    flushed,     \* [SessionRuns -> the flush in progress has injected something]
    woken,       \* [SessionRuns -> an async-ready event is in the inbox]
    registry,    \* [Tasks -> status in s.asyncTasks]
    exec,        \* [Tasks -> the place of the goroutine that executes it]
    continuing,  \* s.asyncContinuations: the task or run that holds the key
    stored,      \* [Tasks -> the task in the session file]
    messages,    \* [Tasks -> the result messages in the session file]
    born,        \* [Tasks -> restarts seen before the task was accepted]
    failures, cancels, crashes

control == <<ctxCancelled, flushAfter, todo, taken, flushed, woken>>
background == <<registry, exec, continuing>>
session == <<stored, messages>>
budget == <<failures, cancels, crashes>>
taskVars == <<up, runPc, control, copy, view, background, session, born, budget>>

PlaceTypes ==
    /\ runPc \in [SessionRuns -> RunPlaces]
    /\ taken \in [SessionRuns -> Tasks \cup {NoOne}]
    /\ \A r \in SessionRuns : taken[r] # NoOne <=> runPc[r] \in Handling
LocalTypes ==
    /\ up \in BOOLEAN
    /\ ctxCancelled \in [SessionRuns -> BOOLEAN]
    /\ flushAfter \in [SessionRuns -> {"turn", "last", "wait", "compact"}]
    /\ todo \in [SessionRuns -> SUBSET Tasks]
    /\ flushed \in [SessionRuns -> BOOLEAN]
    /\ woken \in [SessionRuns -> BOOLEAN]
CopyTypes ==
    /\ copy \in [SessionRuns -> [Tasks -> Record]]
    /\ view \in [SessionRuns -> [Tasks -> Record]]
FileTypes ==
    /\ stored \in [Tasks -> Record]
    /\ messages \in [Tasks -> Seq({"ready", "lost"})]
    /\ born \in [Tasks -> 0..MaxCrashes]
TaskTypes ==
    /\ registry \in [Tasks -> {"absent", "pending", "running", "ready"}]
    /\ exec \in [Tasks -> {"none", "accepted", "start", "running", "notify",
                           "continue", "done"}]
    /\ continuing \in SessionRuns \cup Tasks \cup {NoOne}
BudgetTypes ==
    /\ failures \in 0..MaxFailures
    /\ cancels \in 0..MaxCancels
    /\ crashes \in 0..MaxCrashes
TaskTypeOK ==
    /\ PlaceTypes /\ LocalTypes /\ CopyTypes
    /\ FileTypes /\ TaskTypes /\ BudgetTypes

TaskInit ==
    /\ up = TRUE
    /\ runPc = [r \in SessionRuns |-> "none"]
    /\ ctxCancelled = [r \in SessionRuns |-> FALSE]
    /\ copy = [r \in SessionRuns |-> Nothing]
    /\ view = [r \in SessionRuns |-> Nothing]
    /\ flushAfter = [r \in SessionRuns |-> "turn"]
    /\ todo = [r \in SessionRuns |-> {}]
    /\ taken = [r \in SessionRuns |-> NoOne]
    /\ flushed = [r \in SessionRuns |-> FALSE]
    /\ woken = [r \in SessionRuns |-> FALSE]
    /\ registry = [t \in Tasks |-> "absent"]
    /\ exec = [t \in Tasks |-> "none"]
    /\ continuing = NoOne
    /\ stored = Nothing
    /\ messages = [t \in Tasks |-> <<>>]
    /\ born = [t \in Tasks |-> 0]
    /\ failures = 0 /\ cancels = 0 /\ crashes = 0

-----------------------------------------------------------------------------
(* Copies of a task. *)

MergeIncoming(cur, inc) ==        \* mutant of Merge: the newcomer always wins
    IF inc.status = "absent" THEN cur ELSE inc

\* MergeAsyncToolTask: completion stays, and a claim stays on what is not completed,
\* unless the newcomer has a claim of its own.
Merge(cur, inc) ==
    IF inc.status = "absent" \/ (cur.status = "completed" /\ inc.status # "completed") THEN cur
    ELSE IF cur.claim # NoOne /\ inc.claim = NoOne /\ inc.status # "completed"
         THEN [inc EXCEPT !.claim = cur.claim] ELSE inc

MergeAll(cur, inc) == [t \in Tasks |-> Merge(cur[t], inc[t])]
Runtime == [t \in Tasks |-> Entry(registry[t])]

RecoveredBlindly(tasks) ==        \* mutant of Recovered: the registry is not asked
    [t \in Tasks |-> IF tasks[t].status \in {"pending", "running"}
                     THEN [tasks[t] EXCEPT !.status = "lost"] ELSE tasks[t]]

\* recoverAsyncToolTasks: unfinished, and unknown to this process, means lost.
Recovered(tasks) ==
    [t \in Tasks |->
        IF tasks[t].status = "absent" THEN tasks[t]
        ELSE IF registry[t] # "absent" THEN Merge(tasks[t], Entry(registry[t]))
        ELSE IF tasks[t].status \in {"pending", "running"}
             THEN [tasks[t] EXCEPT !.status = "lost"] ELSE tasks[t]]

\* readyAsyncToolTasks
IsReady(task) == task.status \in {"ready", "lost"} /\ task.claim = NoOne
Claimable(task) == task.status \notin {"absent", "completed"} /\ task.claim = NoOne
MarkForgotten(tasks, t) == tasks  \* mutant of Completed
Completed(tasks, t) == [tasks EXCEPT ![t].status = "completed"]

-----------------------------------------------------------------------------
ToPlace(r, from, to) == up /\ runPc[r] = from /\ runPc' = [runPc EXCEPT ![r] = to]

Failing == failures < MaxFailures /\ failures' = failures + 1 /\ UNCHANGED <<cancels, crashes>>

\* A save may be refused before anything is written, by an error or by the
\* context; a conflict lets a run that answers the session's tail load again.
Refused(r, from) ==
    \/ ctxCancelled[r] /\ ToPlace(r, from, "settle") /\ UNCHANGED budget
    \/ Failing /\ \E to \in {"settle", "reload"} : ToPlace(r, from, to)

\* saveRunSession: the file takes the merged tasks; replacing the index may still fail.
Save(r, from, to, tasks) ==
    \/ /\ ~ctxCancelled[r] /\ ToPlace(r, from, to)
       /\ stored' = MergeAll(stored, tasks)
       /\ UNCHANGED budget
    \/ /\ ~ctxCancelled[r] /\ ToPlace(r, from, "settle")
       /\ stored' = MergeAll(stored, tasks)
       /\ Failing
    \/ Refused(r, from) /\ UNCHANGED stored

StartFlush(r, from, where) ==
    /\ ToPlace(r, from, "read")
    /\ flushAfter' = [flushAfter EXCEPT ![r] = where]
    /\ flushed' = [flushed EXCEPT ![r] = FALSE]

Returned(r) == continuing' = IF continuing = r THEN NoOne ELSE continuing

-----------------------------------------------------------------------------
(* Starting a run: startRun, and resetSessionTailRun for a run that starts over. *)

BeginRun(r) ==
    /\ r \in UserRuns
    /\ ToPlace(r, "none", "load")
    /\ UNCHANGED <<up, control, copy, view, background, session, born, budget>>

Load(r) ==
    /\ \/ /\ \/ ToPlace(r, "load", "recover")
             \/ ~ctxCancelled[r] /\ ToPlace(r, "reload", "resume")
          /\ view' = [view EXCEPT ![r] = stored]
          /\ UNCHANGED budget
       \/ /\ ToPlace(r, "load", "close") \/ ToPlace(r, "reload", "settle")
          /\ Failing
          /\ UNCHANGED view
       \/ /\ ctxCancelled[r] /\ ToPlace(r, "reload", "settle")
          /\ UNCHANGED <<view, budget>>
    /\ UNCHANGED <<up, control, copy, background, session, born>>

Recover(r) ==
    /\ ToPlace(r, "recover", "first") \/ ToPlace(r, "resume", "top")
    /\ copy' = [copy EXCEPT ![r] = Recovered(view[r])]
    /\ view' = [view EXCEPT ![r] = Nothing]
    /\ UNCHANGED <<up, control, background, session, born, budget>>

\* The first save uses the caller's context.  A compact run does without it.
FirstSave(r) ==
    /\ \/ /\ ToPlace(r, "first", "top")
          /\ stored' = MergeAll(stored, copy[r])
          /\ Returned(r) /\ UNCHANGED budget
       \/ /\ continuing # r /\ ToPlace(r, "first", "compact")
          /\ UNCHANGED <<stored, continuing, budget>>
       \/ /\ ToPlace(r, "first", "close")
          /\ stored' \in {stored, MergeAll(stored, copy[r])}
          /\ Failing /\ UNCHANGED continuing
    /\ UNCHANGED <<up, control, copy, view, registry, exec, messages, born>>

-----------------------------------------------------------------------------
(* flushReadyAsyncToolResults. *)

\* A session that cannot be read is left out of the merge.
ReadSession(r) ==
    /\ ToPlace(r, "read", "resync")
    /\ \/ /\ ~ctxCancelled[r] /\ view' = [view EXCEPT ![r] = stored] /\ UNCHANGED budget
       \/ ctxCancelled[r] /\ UNCHANGED <<view, budget>>
       \/ Failing /\ UNCHANGED view
    /\ UNCHANGED <<up, control, copy, background, session, born>>

Resync(r) ==
    /\ ToPlace(r, "resync", "merge")
    /\ copy' = [copy EXCEPT ![r] = MergeAll(@, Recovered(view[r]))]
    /\ view' = [view EXCEPT ![r] = Nothing]
    /\ UNCHANGED <<up, control, background, session, born, budget>>

MergeFileOnly(r) ==               \* mutant of MergeRuntime: the registry is forgotten
    /\ ToPlace(r, "merge", "claim")
    /\ todo' = [todo EXCEPT ![r] = {t \in Tasks : IsReady(stored[t])}]
    /\ UNCHANGED <<up, ctxCancelled, flushAfter, taken, flushed, woken, copy, view, background,
                   session, born, budget>>

MergeRuntime(r) ==
    /\ ToPlace(r, "merge", "claim")
    /\ copy' = [copy EXCEPT ![r] = MergeAll(@, Runtime)]
    /\ todo' = [todo EXCEPT ![r] = {t \in Tasks : IsReady(copy'[r][t])}]
    /\ UNCHANGED <<up, ctxCancelled, flushAfter, taken, flushed, woken, view, background,
                   session, born, budget>>

\* ClaimAsyncToolResult: atomic in the file; a claim that fails to report fails the run.
ClaimResult(r, t) ==
    /\ t \in todo[r]
    /\ \/ /\ ~ctxCancelled[r] /\ Claimable(stored[t])
          /\ stored' = [stored EXCEPT ![t].claim = r]
          /\ \/ /\ ToPlace(r, "claim", "inject")
                /\ taken' = [taken EXCEPT ![r] = t]
                /\ UNCHANGED <<todo, budget>>
             \/ /\ ToPlace(r, "claim", "settle")
                /\ todo' = [todo EXCEPT ![r] = {}]
                /\ Failing /\ UNCHANGED taken
       \/ /\ ~ctxCancelled[r] /\ ~Claimable(stored[t])
          /\ up /\ runPc[r] = "claim"
          /\ todo' = [todo EXCEPT ![r] = @ \ {t}]
          /\ UNCHANGED <<runPc, taken, stored, budget>>
       \/ /\ ToPlace(r, "claim", "settle")
          /\ todo' = [todo EXCEPT ![r] = {}]
          /\ (ctxCancelled[r] /\ UNCHANGED budget) \/ Failing
          /\ UNCHANGED <<taken, stored>>
    /\ UNCHANGED <<up, ctxCancelled, flushAfter, flushed, woken, copy, view, background,
                   messages, born>>

\* The message and the completion mark are saved together.  When the save fails
\* the run's copy is as it was.
Inject(r) ==
    LET t == taken[r]
        written == /\ stored' = MergeAll(stored, Completed(copy[r], t))
                   /\ messages' = [messages EXCEPT ![t] = Append(@, copy[r][t].status)]
    IN  /\ \/ /\ ~ctxCancelled[r] /\ ToPlace(r, "inject", "reclaim") /\ written
              /\ copy' = [copy EXCEPT ![r] = Completed(@, t)]
              /\ UNCHANGED budget
           \/ /\ ~ctxCancelled[r] /\ ToPlace(r, "inject", "release") /\ written
              /\ Failing /\ UNCHANGED copy
           \/ /\ \/ ctxCancelled[r] /\ ToPlace(r, "inject", "release") /\ UNCHANGED budget
                 \/ Failing /\ \E to \in {"release", "retract"} : ToPlace(r, "inject", to)
              /\ UNCHANGED <<copy, session>>
        /\ UNCHANGED <<up, control, view, background, born>>

ReclaimKeeps(r) ==                \* mutant of Reclaim: the task stays in hand
    /\ ToPlace(r, "reclaim", "claim")
    /\ registry' = [registry EXCEPT ![taken[r]] = "absent"]
    /\ todo' = [todo EXCEPT ![r] = @ \ {taken[r]}]
    /\ flushed' = [flushed EXCEPT ![r] = TRUE]
    /\ UNCHANGED <<up, ctxCancelled, flushAfter, taken, woken, copy, view, exec, continuing,
                   session, born, budget>>

\* reclaimAsyncToolTask
Reclaim(r) ==
    /\ ToPlace(r, "reclaim", "claim")
    /\ registry' = [registry EXCEPT ![taken[r]] = "absent"]
    /\ todo' = [todo EXCEPT ![r] = @ \ {taken[r]}]
    /\ taken' = [taken EXCEPT ![r] = NoOne]
    /\ flushed' = [flushed EXCEPT ![r] = TRUE]
    /\ UNCHANGED <<up, ctxCancelled, flushAfter, woken, copy, view, exec, continuing, session,
                   born, budget>>

\* ReleaseAsyncToolResultClaim, with the run's context; its failure is only logged.
Release(r) ==
    LET t == taken[r] IN
    /\ ToPlace(r, "release", "settle") \/ ToPlace(r, "retract", "reload")
    /\ \/ /\ ~ctxCancelled[r]
          /\ stored' = IF stored[t].status # "completed" /\ stored[t].claim = r
                       THEN [stored EXCEPT ![t].claim = NoOne] ELSE stored
          /\ UNCHANGED budget
       \/ ctxCancelled[r] /\ UNCHANGED <<stored, budget>>
       \/ Failing /\ UNCHANGED stored
    /\ todo' = [todo EXCEPT ![r] = {}]
    /\ taken' = [taken EXCEPT ![r] = NoOne]
    /\ UNCHANGED <<up, ctxCancelled, flushAfter, flushed, woken, copy, view, background,
                   messages, born>>

Flushed(r) ==
    /\ todo[r] = {}
    /\ ToPlace(r, "claim", CASE flushAfter[r] = "wait" -> "wait"
                          [] flushAfter[r] # "wait" /\ flushed[r] -> "top"
                          [] flushAfter[r] = "turn" /\ ~flushed[r] -> "model"
                          [] OTHER -> "settle")
    /\ flushAfter' = [flushAfter EXCEPT ![r] = "turn"]
    /\ flushed' = [flushed EXCEPT ![r] = FALSE]
    /\ UNCHANGED <<up, ctxCancelled, todo, taken, woken, copy, view, background, session,
                   born, budget>>

-----------------------------------------------------------------------------
(* runConversation and the tool batch, as far as they touch the tasks. *)

\* drainRunInbox at the top of the loop.
Top(r) ==
    /\ woken' = [woken EXCEPT ![r] = FALSE]
    /\ IF ctxCancelled[r]
       THEN ToPlace(r, "top", "settle") /\ UNCHANGED <<flushAfter, flushed>>
       ELSE StartFlush(r, "top", "turn")
    /\ UNCHANGED <<up, ctxCancelled, todo, taken, copy, view, background, session, born, budget>>

\* The model's reply is saved; without tool intents comes the last flush.
Model(r) ==
    /\ \/ Save(r, "model", "batch", copy[r]) /\ UNCHANGED <<flushAfter, flushed>>
       \/ /\ ~ctxCancelled[r] /\ StartFlush(r, "model", "last")
          /\ stored' = MergeAll(stored, copy[r])
          /\ UNCHANGED budget
    /\ UNCHANGED <<up, ctxCancelled, todo, taken, woken, copy, view, background, messages, born>>

\* A batch asks for confirmations first, or has none to ask for.
Batch(r) ==
    /\ \/ Save(r, "batch", "wait", copy[r])
       \/ ToPlace(r, "batch", "work") /\ UNCHANGED <<stored, budget>>
    /\ UNCHANGED <<up, control, copy, view, background, messages, born>>

\* waitForConfirmations: a ready result is injected on the spot.
Wait(r) ==
    /\ \/ /\ woken[r] /\ StartFlush(r, "wait", "wait")
          /\ woken' = [woken EXCEPT ![r] = FALSE]
       \/ /\ ctxCancelled[r] /\ ToPlace(r, "wait", "cleanup")
          /\ UNCHANGED <<flushAfter, flushed, woken>>
    /\ UNCHANGED <<up, ctxCancelled, todo, taken, copy, view, background, session, born, budget>>

\* A decision is applied and saved: the last one of the batch, or one of several.
WaitOver(r) ==
    /\ \E to \in {"wait", "work"} : Save(r, "wait", to, copy[r])
    /\ UNCHANGED <<up, control, copy, view, background, messages, born>>

\* A submission the wait has no use for (unknown, sent twice, not pending any more, or
\* one the tools do not accept) ends the wait with an error.
BreakOff(r) ==
    /\ ToPlace(r, "wait", "cleanup")
    /\ UNCHANGED <<up, control, copy, view, background, session, born, budget>>

\* The cleanup drains the inbox, wake-ups as well, and the run fails.  (After a failed
\* save or flush of the wait it drains too; no step reads the wake-up after these.)
Cleanup(r) ==
    /\ ToPlace(r, "cleanup", "settle")
    /\ woken' = [woken EXCEPT ![r] = FALSE]
    /\ UNCHANGED <<up, ctxCancelled, flushAfter, todo, taken, flushed, copy, view, background,
                   session, born, budget>>

\* acceptAsyncToolTask: registered before it is saved.
Accept(r, t) ==
    /\ exec[t] = "none"
    /\ ToPlace(r, "work", "accept")
    /\ exec' = [exec EXCEPT ![t] = "accepted"]
    /\ registry' = [registry EXCEPT ![t] = "pending"]
    /\ copy' = [copy EXCEPT ![r][t] = Entry("pending")]
    /\ taken' = [taken EXCEPT ![r] = t]
    /\ born' = [born EXCEPT ![t] = crashes]
    /\ UNCHANGED <<up, ctxCancelled, flushAfter, todo, flushed, woken, view, continuing, session,
                   budget>>

\* Only a task that was saved is executed.
AcceptSaved(r) ==
    /\ Save(r, "accept", "work", copy[r])
    /\ exec' = [exec EXCEPT ![taken[r]] = IF runPc'[r] = "work" THEN "start" ELSE @]
    /\ taken' = [taken EXCEPT ![r] = NoOne]
    /\ UNCHANGED <<up, ctxCancelled, flushAfter, todo, flushed, woken, copy, view, registry,
                   continuing, messages, born>>

LeaveBatch(r) ==
    /\ Save(r, "work", "top", copy[r])
    /\ UNCHANGED <<up, control, copy, view, background, messages, born>>

\* continueCompactRun never looks at its inbox; if it fails nothing is saved.
CompactHistory(r) ==
    /\ \/ /\ ToPlace(r, "compact", "settle")
          /\ flushAfter' = [flushAfter EXCEPT ![r] = IF ctxCancelled[r] THEN @ ELSE "compact"]
          /\ UNCHANGED budget
       \/ ToPlace(r, "compact", "close") /\ Failing /\ UNCHANGED flushAfter
    /\ Returned(r)
    /\ UNCHANGED <<up, ctxCancelled, todo, taken, flushed, woken, copy, view, registry, exec,
                   session, born>>

-----------------------------------------------------------------------------
(* The end of a run: settleRunTerminal, the closing save, finalizeRun. *)

Settle(r) ==
    /\ ToPlace(r, "settle", "wrapup")
    /\ flushAfter' = [flushAfter EXCEPT ![r] = IF @ = "compact" THEN @ ELSE "turn"]
    /\ flushed' = [flushed EXCEPT ![r] = FALSE]
    /\ UNCHANGED <<up, ctxCancelled, todo, taken, woken, copy, view, background, session,
                   born, budget>>

\* The closing save ignores the run's context, but for a compact run.
WrapUpRun(r) ==
    /\ ToPlace(r, "wrapup", "close")
    /\ \/ stored' = MergeAll(stored, copy[r]) /\ UNCHANGED budget
       \/ ctxCancelled[r] /\ flushAfter[r] = "compact" /\ UNCHANGED <<stored, budget>>
       \/ UNCHANGED stored /\ Failing
    /\ UNCHANGED <<up, control, copy, view, background, messages, born>>

\* What is left in the inbox is dropped: wake-ups as well.
Close(r) ==
    /\ ToPlace(r, "close", "done")
    /\ woken' = [woken EXCEPT ![r] = FALSE]
    /\ ctxCancelled' = [ctxCancelled EXCEPT ![r] = FALSE]    \* of no use any more
    /\ flushAfter' = [flushAfter EXCEPT ![r] = "turn"]
    /\ copy' = [copy EXCEPT ![r] = Nothing]
    /\ Returned(r)
    /\ UNCHANGED <<up, todo, taken, flushed, view, registry, exec, session, born, budget>>

CancelContext(r) ==
    /\ up /\ cancels < MaxCancels
    /\ runPc[r] \in Bound \cup {"load", "recover"} /\ ~ctxCancelled[r]
    /\ ctxCancelled' = [ctxCancelled EXCEPT ![r] = TRUE]
    /\ cancels' = cancels + 1
    /\ UNCHANGED <<up, runPc, flushAfter, todo, taken, flushed, woken, copy, view, background,
                   session, born, failures, crashes>>

-----------------------------------------------------------------------------
(* The goroutine that executes a task, and the run it may start. *)

ExecStart(t) ==
    /\ up /\ exec[t] = "start"
    /\ exec' = [exec EXCEPT ![t] = "running"]
    /\ registry' = [registry EXCEPT ![t] = "running"]
    /\ UNCHANGED <<up, runPc, control, copy, view, continuing, session, born, budget>>

ExecFinish(t) ==
    /\ up /\ exec[t] = "running"
    /\ exec' = [exec EXCEPT ![t] = "notify"]
    /\ registry' = [registry EXCEPT ![t] = "ready"]
    /\ UNCHANGED <<up, runPc, control, copy, view, continuing, session, born, budget>>

Present == {r \in SessionRuns : runPc[r] \in Bound}

\* notifyAsyncToolReady: one critical section.  One wake-up stands for any number of
\* them; the inbox has room for one, as with less than 64 submissions queued in it.
Notify(t) ==
    /\ up /\ exec[t] = "notify"
    /\ woken' = [r \in SessionRuns |-> woken[r] \/ r \in Present]
    /\ IF Present = {} /\ continuing = NoOne
       THEN /\ continuing' = t
            /\ exec' = [exec EXCEPT ![t] = "continue"]
       ELSE /\ exec' = [exec EXCEPT ![t] = "done"]
            /\ UNCHANGED continuing
    /\ UNCHANGED <<up, runPc, ctxCancelled, flushAfter, todo, taken, flushed, copy, view, registry,
                   session, born, budget>>

\* continueAfterAsyncToolReady: no run if there is one by now.
Continue(t) ==
    /\ up /\ exec[t] = "continue"
    /\ exec' = [exec EXCEPT ![t] = "done"]
    /\ \/ /\ Present # {}
          /\ continuing' = NoOne
          /\ UNCHANGED runPc
       \/ /\ Present = {}
          /\ \E r \in SessionRuns :
                ToPlace(r, "none", "load") /\ continuing' = r
    /\ UNCHANGED <<up, control, copy, view, registry, session, born, budget>>

-----------------------------------------------------------------------------
(* The process ends, and starts again. *)

Crash ==
    /\ up /\ crashes < MaxCrashes
    /\ up' = FALSE
    /\ crashes' = crashes + 1
    /\ runPc' = [r \in SessionRuns |-> IF runPc[r] = "none" THEN "none" ELSE "done"]
    /\ exec' = [t \in Tasks |-> IF exec[t] = "none" THEN "none" ELSE "done"]
    /\ registry' = [t \in Tasks |-> "absent"]
    /\ continuing' = NoOne
    /\ ctxCancelled' = [r \in SessionRuns |-> FALSE]
    /\ flushAfter' = [r \in SessionRuns |-> "turn"]
    /\ todo' = [r \in SessionRuns |-> {}]
    /\ taken' = [r \in SessionRuns |-> NoOne]
    /\ flushed' = [r \in SessionRuns |-> FALSE]
    /\ woken' = [r \in SessionRuns |-> FALSE]
    /\ copy' = [r \in SessionRuns |-> Nothing]
    /\ view' = [r \in SessionRuns |-> Nothing]
    /\ UNCHANGED <<session, born, failures, cancels>>

\* recoverSessionAsyncToolTasks: claims are stale, and what is ready is injected,
\* unless its message is there already.
Restart ==
    LET ready == {t \in Tasks : Recovered(stored)[t].status \in {"ready", "lost"}}
        written ==
            /\ stored' = [t \in Tasks |-> IF t \in ready THEN Entry("completed")
                                                         ELSE Recovered(stored)[t]]
            /\ messages' = [t \in Tasks |->
                    IF t \in ready /\ messages[t] = <<>>
                    THEN <<Recovered(stored)[t].status>> ELSE messages[t]]
    IN  /\ ~up /\ up' = TRUE
        /\ \/ written /\ UNCHANGED budget
           \/ written /\ Failing
           \/ UNCHANGED session /\ Failing      \* logged, and skipped
        /\ UNCHANGED <<runPc, control, copy, view, background, born>>

-----------------------------------------------------------------------------
FlushStep(r) ==
    ReadSession(r) \/ Resync(r) \/ MergeRuntime(r) \/ (\E t \in Tasks : ClaimResult(r, t))
        \/ Inject(r) \/ Reclaim(r) \/ Release(r) \/ Flushed(r)

TurnStep(r) ==
    Top(r) \/ Model(r) \/ Batch(r) \/ Wait(r) \/ Cleanup(r)
        \/ (\E t \in Tasks : Accept(r, t)) \/ AcceptSaved(r) \/ LeaveBatch(r) \/ CompactHistory(r)

OwnStep(r) ==
    \/ Load(r) \/ Recover(r) \/ FirstSave(r)
    \/ FlushStep(r) \/ TurnStep(r)
    \/ Settle(r) \/ WrapUpRun(r) \/ Close(r)

TaskStep(t) == ExecStart(t) \/ ExecFinish(t) \/ Notify(t) \/ Continue(t)

TasksResting == up /\ \A r \in SessionRuns : runPc[r] \in {"none", "wait", "done"}

TaskNext ==
    \/ \E r \in SessionRuns :
         OwnStep(r) \/ BeginRun(r) \/ WaitOver(r) \/ BreakOff(r) \/ CancelContext(r)
    \/ \E t \in Tasks : TaskStep(t)
    \/ Crash \/ Restart
    \/ TasksResting /\ UNCHANGED taskVars

TaskSpec == TaskInit /\ [][TaskNext]_taskVars

\* Go runs what can run; models and tools come back.  Nobody has to start a run,
\* to cancel it or to confirm anything.
TaskFairness ==
    /\ \A r \in SessionRuns : WF_taskVars(OwnStep(r))
    /\ \A t \in Tasks : WF_taskVars(TaskStep(t))
TaskFairSpec == TaskSpec /\ TaskFairness

-----------------------------------------------------------------------------
(* Properties. *)

\* A result gets into the session once: one message, written exactly when the task is
\* marked completed, whichever runs compete for it, whatever save fails before or
\* after it has written, and across restarts (ClaimAsyncToolResult,
\* flushReadyAsyncToolResults, MergeAsyncToolTask, recoverSessionAsyncToolTasks).
InjectedOnce ==
    \A t \in Tasks :
        /\ Len(messages[t]) <= 1
        /\ stored[t].status = "completed" <=> messages[t] # <<>>

\* A task is reported as lost only if its process really ended, although
\* every load takes an unfinished task the registry does not know for lost, and the
\* registry forgets tasks (recoverAsyncToolTasks, reclaimAsyncToolTask).
NoFalseLoss ==
    \A t \in Tasks :
        "lost" \in {messages[t][i] : i \in DOMAIN messages[t]} \cup {stored[t].status} =>
            born[t] < crashes

\* A claim in the session file belongs to a run that is not over yet: otherwise no
\* run can inject the result before the next restart.
ClaimNotOrphaned ==
    \A t \in Tasks : stored[t].claim # NoOne => runPc[stored[t].claim] # "done"

\* A result that is ready while a run still has a look at the results ahead of it is
\* injected (flushReadyAsyncToolResults at every turn, the wake-up while it waits), unless
\* that run breaks off its wait: then the wake-up is drained, and nobody goes on for it.
LooksAgain == {"top", "read", "resync", "merge", "model", "batch", "wait", "work", "accept"}
ReadyIsInjected ==
    \A r \in SessionRuns, t \in Tasks :
        (registry[t] = "ready" /\ runPc[r] \in LooksAgain) ~>
            (stored[t].status = "completed" \/ runPc[r] = "cleanup")

\* Every result gets into the session: by the run that owns it or by a run started for
\* it, as the comment on executeAsyncToolTask says; at least where no wait is broken off.
ResultInjected ==
    [](\A r \in SessionRuns : runPc[r] # "cleanup") =>
        \A t \in Tasks : registry[t] = "ready" ~> stored[t].status = "completed"
=============================================================================
