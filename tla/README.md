# A verification development for eucli-box

TLA+ models of the parts of eucli-box whose correctness depends on concurrency,
ordering, failure and restart, the TLC configurations that check them, and the
proofs TLAPS checks. Paths are relative to the repository root, which is
`src/` here; `ar/` stands for `src/src/agent-runtime-system/`, `ds/` for
`src/src/data-storage-system/`, `tc/` for `src/src/tool-calling-system/`, `sp/` for
`src/src/system-plugin-system/`, `dm/` for `src/src/data-migration-system/` and
`release/` for `src/pkg/release/`.

## The system and its parts

| part | state it keeps | operations | what is hard | what makes it correct |
|---|---|---|---|---|
| run lifecycle (`ar/run.go`, `run_queue.go`, `confirmation.go`, `tool_batch.go`) | run records: status, context, inbox, confirmation ledger, message copies | StartRun, CancelRun, SubmitToolConfirmation, the goroutine of a run | one goroutine per run against cancellers, submitters, finished tools; bounded inbox; panics; retries after conflicts | one terminal event per run, each submission answered, applied at most once, books closed at the end, cancelled runs end |
| async tool results (`ar/async_tool.go`, `ds/async_tool_claim.go`) | task registry in memory, task and claim in the session file, a copy per run | accept, execute, notify, claim, inject, release, continue, recover | several runs of one session, failed saves, restart, lost wake-ups | each result becomes one message, none is lost |
| confirmation relay (`ar/tool_confirmation_bridge.go`, `tool_confirmation_outcome.go`) | projected plans, bounded table of outcomes | Relay, await, record, take | the asking process and the run end independently | an answer reaches the asker; unread outcomes survive |
| event subscribers (`ar/events.go`) | a queue per subscriber | Subscribe, publish | slow readers, merged deltas, unsubscribing | order and content of the stream |
| session store (`ds/session_*.go`) | data file, message file, index per scope, versions, locks | save, mutate, remove, list, rebuild | three renames, failure or crash between them, concurrent rebuild | versions grow, index agrees with data, no event without data |
| file transactions (`ds/file_transaction.go`) | staged files | stage, commit, discard | partial commit | all or nothing |
| tool operations (`src/src/tool-calling-system/operation.go`, `activity.go`) | operation records, per-tool counters of running calls | install, update, uninstall, cancel, recover, call | updates against calls, restart in the middle | no call during an update, operations end |
| tool execution and warm-up | processes, warm-up schedule | execute, warm | processes that hang or die | one result per call |
| tool control (`src/pkg/toolcontrol`) | one connection per tool process | handshake, watch, serve, close | watchdog against late answers | closed once, every request answered or failed |
| system plugins (`src/src/system-plugin-system`) | resident sessions, activity, operations | start, call, restart, stop | restart against calls and shutdown | one session per plugin, no call on a dead one |
| data migration (`src/src/data-migration-system`) | status file, backup, progress of the steps | prepare, run, complete, recover | crash between any two writes | old data or migrated data, never a mixture |
| network requests, request records | pending requests, a bounded queue | do, record | timeouts, drops | one outcome per request |
| gateway, access, model providers, permissions, placeholders, role prompts, AI assistance, release sources and packages, start-up | settings and stored documents | request/response | conversions, formats | not concurrency: left to tests |

How they meet: the gateway calls the systems; `StartRun` loads a session from
the store, spawns the run's goroutine and returns; the goroutine calls the model
provider and the tool system and saves through the store; anything else that
wants something of a run puts an event into its inbox. The runtime publishes
events, the store publishes change events; the gateway streams both. A tool that runs
may ask its host to show a decision of another run (the relay), which polls what that
run's goroutine records. An operation on a tool or a plugin closes the gate its calls go
through. The migration comes before all of this: `main` prepares and runs it, starts the
parts, and completes it, or recovers when one of them does not start.

## Modules

* `RunContract` - the abstract specification: what a run owes its observers and
  the people who confirm its tools. It has no queue, ledger or goroutine.
* `RunLifecycle` - the runtime's run, one action per step of the goroutine
  between two points where others can interfere, and one per external call.
* `MCRunLifecycle`, `MCRunScenarios` - the instances TLC checks; the latter holds two
  scenarios, one run with everything and two runs side by side.
* `RunLifecycleProofs` - the theorems about `RunLifecycle`, and the proof that it implements
  `RunContract`.
* `AsyncInjection` - the async tool tasks of one session: accepting, executing,
  claiming and injecting results, continuation runs, restart and recovery. It has
  a run of its own, coarser than that of `RunLifecycle`: only the steps that touch
  the tasks, and the saves between them.
* `MCAsyncInjection` - its instances for the two runs that expect a violation.
* `AsyncInjectionProofs` - the theorems about `AsyncInjection`.
* `SessionLedger` - the abstract specification of the session store: a table of
  sessions that changes one session at a time and announces what is in it.
* `SessionStore` - the sessions of one scope: the data file and the directory of
  each, the index, the recycle bin, the locks, and every rename as a step.
* `MCSessionStore` - its instance for the run that expects a violation.
* `SessionStoreProofs` - the invariants of `SessionStore`, proved, and the proof that it
  implements `SessionLedger`.
* `ToolOperation` - installing, updating and importing one tool against its calls, with
  the gate, the phases, the record, cancellation, restart and recovery.
* `MCToolOperation` - its instances; `ToolOperationProofs` - its theorems.
* `PluginHosting` - the resident process of one plugin and everybody who starts and stops
  it; `PluginHostingProofs` - its theorems.
* `ConfirmationRelay` - the table of outcomes and the calls of tools that wait for them;
  `ConfirmationRelayProofs` - its theorems.
* `DataMigration` - one migration of the data directory, across starts of the program;
  `DataMigrationProofs` - its theorems.
* `EventStream` - the events of assistant messages and the queues of subscribers;
  `EventStreamProofs` - its theorems.
* `MCLiveness`, `MCSessionsAndEvents`, `MCServices` - components that share no state, checked
  side by side: `RunLifecycle` and `AsyncInjection` under both fairnesses; `SessionStore` and
  `EventStream`; `AsyncInjection`, `PluginHosting`, `ConfirmationRelay` and `DataMigration`. A
  behaviour picks one of them and the others rest in their initial states, so the states add up
  and do not multiply. For this the modules that meet have no name in common.

The groups do not share variables. A run meets the store through its saves,
which in `RunLifecycle` and `AsyncInjection` succeed or fail, before or after they
have written; that the store behaves like this, and that a save that reports
success is kept, is what `SessionStore` shows. `ConfirmationRelay` takes from
`RunLifecycle` the order in which a run registers, records and deregisters a decision and
clears what is left, and leaves the rest of the run open.

### RunLifecycle and the code

`pc[r]` is the place of run `r`'s goroutine: `created` and `load` are `startRun`;
`drain`/`requeue` are `drainRunInbox`; `flush`, `model`, `reply`, `lastflush`,
`endbatch` are `runConversation`; `prepare`, `announce`, `execute` are
`handleToolIntents`; `await`, `wait`, `applying`, `deregister`, `record`,
`saveapplied`, `resolved` are `resolvePendingToolConfirmations` and
`waitForConfirmations`; `retry` is `resetSessionTailRun`; `claim`, `wrapup`,
`publish` are `settleRunTerminal`; `finalize` is `finalizeRun`.

Critical sections of `s.mu` are single actions. Where the code takes the lock
several times, or makes a call in between, the model has several actions. In
particular the inbox is drained one event at a time, deferred submissions are put
back one at a time, and `ApplyConfirmation` -> deregister -> record -> save are
four steps, because submitters, cancellers and finished tools run between them.

| variable | in the code |
|---|---|
| `registered` | the keys of `s.runs` |
| `status` | `record.state.Status` |
| `cancelled` | the run's context is cancelled |
| `inbox`, `deferred`, `stop` | `record.inbox`, the locals of `drainRunInbox` |
| `ledger` | `record.confirmationLedger` |
| `plans`, `confirmed`, `following` | the entries waiting, applied, and asking again in `resolvePendingToolConfirmations` |
| `hand` | the request being applied, whose receipt is still owed |
| `attempts`, `persisted` | the loop counter of `continueRun`, `persistedAssistantOutput` |
| `intent`, `panicking`, `events` | the intent given to `settleRunTerminal`, a panic unwinding out of it, what was published |
| `owner`, `visible`, `dropped`, `applied` | history: to whom a decision was issued, whether anyone could have seen it, whether the batch was given up, whose submission was applied |
| `ask`, `reply` | a submitter's call: what it submitted and what it got |

Abstractions. A save, a load, a flush, a model call or a tool call either
succeeds or fails, nondeterministically; the branch slot conflict that makes a
failure retryable is one of these choices. Message contents, usage counters and
metadata are left out. `executeReadyTools` is one step, since it waits for all of
its goroutines. Time is left out: any finished record may expire. A decision's
identifier is random in the code, so each is issued once. A panic may strike at
the places in `CrashPoints`. `CancelRun` and the async wake-up draw on a common
budget `MaxSignals`.

### AsyncInjection and the code

A task lives in the registry (`s.asyncTasks`), in the session file, and in the
copy of the session each run works on; the three are brought together by
`MergeAsyncToolTask`. The steps of a flush (`flushReadyAsyncToolResults`) are
separate because other runs and executing goroutines act between them:

| positions of `runPc[r]` | in the code |
|---|---|
| `load`, `recover`, `first` | `startRun`: read the session, compare it with the registry, first save |
| `reload`, `resume` | `resetSessionTailRun` |
| `read`, `resync`, `merge` | the session is read, recovered and merged, then the registry is merged |
| `claim` | `ClaimAsyncToolResult` for each ready result |
| `inject`, `reclaim`, `release`, `retract` | the save, then forgetting the task, or the rollback and `releaseAsyncToolResultClaim` (`retract` when the run starts over) |
| `top`, `model`, `batch`, `wait`, `work`, `accept` | `runConversation`, `handleToolIntents`, `waitForConfirmations`, `acceptAsyncToolEntries` |
| `cleanup` | the cleanup of `waitForConfirmations` (`ar/confirmation.go:161-166`), which drains the inbox |
| `compact`, `settle`, `wrapup`, `close` | `continueCompactRun`, `settleRunTerminal`, the closing save, `finalizeRun` |

`exec[t]` is the goroutine of `executeAsyncToolTask` (`notify`, `continue` are
`notifyAsyncToolReady` and `continueAfterAsyncToolReady`), `continuing` the entry
of `s.asyncContinuations`, `woken[r]` a wake-up in the inbox. A wait ends when its decisions are
applied and saved (`WaitOver`), by a cancellation, by a failed save or flush, or by a
submission it has no use for (`BreakOff`: unknown, sent twice, not pending, or not accepted by
the tools, `ar/confirmation.go:188-227`); on every way out but the first the cleanup drains the
inbox, the wake-up included. (After a failed save or flush the run is past its last look at the
wake-up anyway, so the model drains it in `Cleanup` only where the wait itself ends the run.)
One wake-up stands for any number; the inbox is taken to have room for it, as it has unless 64
submissions are queued. A save may fail before it
writes, after it has written, or because the run's context is cancelled (the JSON
store checks it); the first save and the closing save use other contexts, as in
the code. `born` and `messages` are history for the properties: the restarts seen
before a task was accepted, and the result messages in the file. A crash empties
everything but the file; `Restart` is `recoverPersistedAsyncToolTasks`. A result
is `ready` whether the tool succeeded or failed; `lost` is the failure written for
a task whose process ended.

### SessionStore and the code

`pc[c]` is the place of caller `c` in its call; `op[c]` is one of `save`
(`SaveSession`), `merge` (`SaveSessionMessages`), `mutate` (`mutateSession`, under
every change of a title, a branch, a claim and so on), `delete` (`removeSession`) and
`list` (`listSessions`).

| positions of `pc[c]` | in the code |
|---|---|
| `lock` | `lock.writers.Lock()` |
| `read` | `readSessionLocked` in `mutateSession`, `readSessionIfExistsLocked` in `SaveSessionMessages` |
| `index`, `scan`, `heal` | `readScopeIndexForWriteLocked`: the index, or `scanScopeSummaries` and `writeScopeIndexLocked` when it is not to be believed |
| `prepare` | `commitSessionLocked` up to the temporary files |
| `dirty`, `data`, `final` | its three renames, under `lock.mu` |
| `publish` | `publishSessionChange` and the return |
| `locate`, `dirty`, `move` | `removeSession` with `prepareRecycleRelocation` and its two renames |
| `metadata`, `unlist` | `writeRecycleMetadata`, and the index without the session |
| `undo`, `putback`, `restore` | `rollbackSessionDelete` |
| `list`, `readdir` | `listSessions` before it has to take the writers' lock |

| variable | in the code |
|---|---|
| `data`, `folder` | the data file and the directory of each session |
| `index` | the index document; missing, unreadable, invalid and dirty are one value, `Untrusted` |
| `bin` | entries of the recycle bin; `recorded` is the presence of their metadata |
| `writers` | `scopeLock.writers` |
| `doc`, `item` | the local index document (`current`, `document`), the session to be written |
| `cancelled` | calls whose context is cancelled |
| `events`, `life`, `answered`, `replaced` | history: what was published, how often a session was moved to the bin, which calls were told of success, which writes a save of the whole session replaced |

The content of a session is the set of calls that have changed it (`marks`): a merge
and a mutation add theirs to what they read, a save of the whole session brings only
its own. The summary of a session is a function of the stored session and identified
with it. `lock.mu` needs no variable: its holders are those in `Replacing`. The
scope's directory exists; registering a new scope in the catalogue is left out.
Loading a session changes nothing and is no action. Every operation that is handed
the context fails if the context is cancelled; the renames are not handed it. A
restart keeps the renames in their order; only the index, the one file written
without a sync, may be lost or be as `Initialize` rebuilds it. The queues of the subscribers to
these changes are left out; `events` is what they are all given.

### ToolOperation and the code

A request `c` (`at[c]`) is `ToolInstallState`, `startToolOperation`,
`ImportToolPackage` or `CancelToolOperation`; an operation `o` (`toolPc[o]`) is the goroutine
it starts.

| positions | in the code |
|---|---|
| `at`: `pending`, `confirm`, `restore`, `forget` | `recoverPendingOperation`: after a look at the activity (`tc/operation.go:564`, the second one of a request that has looked before) the record is read, the version in use is looked at, put back, the work directory and the record removed |
| `at`: `version`, `begin` | `currentToolVersion` and the candidate, then `beginUpdate` |
| `at`: `cancel`, `wait` | `CancelToolOperation` after it has looked at the phase, and in `waitDone` |
| `toolPc`: `begin`, `download`, `prepare`, `probe`, `migration`, `switch`, `refresh` | the phases of `runToolOperationAsync`, `runToolImportAsync` and `advanceToolOperation`; `to_...` is before `setPhase` |
| `toolPc`: `restore`, `remove`, `release`, `signal` | `restoreVersion`, the removal of the record, the deferred `endUpdate` and `finishUpdate` |

`current`, `versions`, `toolData`, `record` and `work` are files: `current.json`, the
version directories, the data of the tool, `operation.json` and the work directories.
`gate`, `phase`, `done`, `active` and `opCancelled` are the fields of `toolActivity`.
A write of a file happens as a whole or not at all, as `writeJSONAtomic` does it.
Of a package only its version is kept, and of the tool's data the version it was
migrated to; a migration that fails may have happened, since the data is the
tool's own. `outcome`, `activated`, `settled` and `orderly` are history; `orderly` says that
requests have acted one after the other and that no removal of a record or restoring of
a version has failed, and is what the last three properties assume: without it the
code does not keep them (see `tool_refused` below).

### PluginHosting and the code

An actor `a` is a request or the watcher of a session; `place[a]` is where it is and
`kind[a]` what it does.

| places | in the code |
|---|---|
| `look`, `start`, `register`, `yield` | `ensureResidentSession`: the table is looked at, the process started without the lock, the table looked at again, the process that came second stopped |
| `take`, `tell`, `await` | `stopResidentSession` and `session.stop` |
| `gate`, `invoke`, `release` | `acquireServing`, `invokeCapability`, `releaseServing` |
| `lock`, `save`, `drain`, `unlock` | `EnablePlugin` and `DisablePlugin` |
| `drain`, `program`, `end`, `restore` | `beginUpdate`, the operation, `endUpdate`, `restorePluginLifecycle` |
| `watch`, `delay`, `discover`, `check` | `watchResident` and `restartResident` |

`fact[a]` is the record the actor discovered, with which it may act later. `crossed` is
history: it becomes true when the switch is turned off or an operation begins while another
actor is at a place from which it may go on with what it discovered before, and nothing in the
code keeps it back; then a process may be started after `DisablePlugin` or `beginUpdate` has
stopped it, and run on until the next stop. `OffWhenDisabled`, `StoppedWhileReplaced` and
`RunsCurrent` exclude these histories, and some more: `Crosses` goes by the place alone, so
that an actor counts which will look again, or whose discovery would not matter. What they
say of the stale readers themselves is nothing. The phases of an operation are those of
`ToolOperation` and one step here.

### ConfirmationRelay and the code

`relay[c]` is the place in `RelayToolConfirmation`: `take` and `check` before the
projection, `project`, then `await` and `recheck`, the two looks of a tick of
`awaitToolConfirmation`, and `clear`. `ledger` unites the ledgers of all runs, `outcomes` is
`s.confirmationOutcomes`, `part[c]` the state of the part of the tool call, `gone` the calls
whose run has ended and whose record is reclaimed, so that projecting and clearing find nothing
to write to. `fate`, `handed`, `passed`, `evicted` and `unsaved` are history; `passed` are the
relays for which the verdict was recorded between their two looks. What becomes of a verdict is
said by two properties. `VerdictConserved` says where it may be, and that only a relay in `passed`
is told wrongly that its decision has expired. `VerdictReachesRelay` is what the comments
promise, that no relay is (`ar/tool_confirmation_outcome.go:9-10`, `:16-17`,
`ar/confirmation.go:218-220`), and the code does not keep it (`relay_expired` below). One
more thing the model shows and no property forbids: a relay outlives the process that asked, so
its projection or clearing may overwrite a part that shows a result already.

### DataMigration and the code

`at` is where the program is: `backup`, `enlist` in `Prepare`, `step` in `Run`,
`restore`, `delete`, `clean` in `recoverUnfinishedMigration` and `tryRecover`, `starting`
while the parts start, `complete` and `tidy` in `Complete`. `levels[f]` is the level of
a file, the version fact being one of the files; `copies`, `manifest` and `record` are
the backup and `process.json`. A step raises the files of its scope one by one, and then
the version fact. `processing` is `s.process != nil`, `resume` whether `main` goes on after
the recovery. Two more things the model shows: a crash between the write of the
completed status and the removal of the process record undoes a completed migration at the
next start, and whatever was written since the parts started with it (the model has no
writes of users, so this is no property); and `tryRecover` reports that the scene is
kept when only the removal of the backup has failed.

### EventStream and the code

A text is a version and a length: chunks lengthen it, a rollback of a failed attempt or a
final answer that differs starts a new version. `baseline` is `s.publishedMessages`, `queue` the
pending events of a subscriber, `carried` the one its goroutine holds, `channel` the channel
`out`. `screen` is what a client makes of the events; it is outside the repository, and modelled
from what the events mean (a difference is appended, an event with `reset` or a whole message
replaces).

A message has two publishers. Its run publishes differences and, in several places, the whole
message; the relay of a confirmation publishes the whole from a goroutine of its own
(`ar/tool_confirmation_bridge.go:60-64`, `:75-79`). Each makes its event and moves the baseline
(`event`, `stage` "made"), copies the subscribers, and serves them one by one ("send"), and these
steps interleave with those of the other. `locked` are the publishers that hold `sessionMu`
meanwhile: the relay always, the run where it writes the result of a tool
(`ar/tool_batch.go:86-95`) or an applied confirmation (`ar/confirmation.go:289-298`), and not
with stream differences, changed parts and its other updates (`ar/model.go:102`, `:236`, `:257`,
`ar/tool_batch.go:64`, `:84`, `:134`). `overlapped` is history: the messages two publications of
which have overlapped, one of them without the lock, and which have not been replaced since
while nothing else was under way.

## Runs

| run | configuration | shows |
|---|---|---|
| `lifecycle` | `Alone`: 1 run, 3 submitters, 2 decisions, inbox 2, 1 retry, 2 signals; `Pair`: 2 runs, 1 submission, 1 decision, 1 signal; panics at 5 places in both; an `ACTION_CONSTRAINT` keeps each step in a scenario | `TypeOK`, `TerminalEventOnce`, `VisibleRoutable`, `HeldOnce`, `DoneIsClosed`, and `KeepsContract`: the run implements `RunContract` |
| `liveness`: runs | 1 run, 2 submitters, inbox 3, no panic, fair | `NoneStranded`, `CancelFinishes`, `SubmitterAnswered` |
| `liveness`: tasks | 2 runs, 1 task, no failures, cancellations or restarts, waits may be broken off, fair | `ClaimNotOrphaned`, `ReadyIsInjected` |
| `services`: tasks | 2 runs, 1 task, 1 failure, 1 cancellation, 1 restart | `TaskTypeOK`, `InjectedOnce`, `NoFalseLoss` |
| `services`: plugins | 2 requests at a time, 3 altogether, 2 processes, 1 exit | `HostTypeOK`, `NoLostProcess`, `CallsOutsideUpdates`, `OffWhenDisabled`, `StoppedWhileReplaced`, `RunsCurrent` |
| `services`: relay | 2 calls, 2 decisions, a table for 1 outcome | `RelayTypeOK`, `VerdictConserved`, `ProjectionCleared` |
| `services`: migration | 3 files, 2 steps, any crash and failure | `MigTypeOK`, `Recoverable`, `NoMixedData` |
| `sessions_events`: sessions | 2 callers, 2 sessions, 3 calls, 2 failures, 1 cancellation, 1 restart | `TypeOK`, `IndexAgrees`, `AckedKept`, `EventsInOrder`, `BinRecorded`, and `KeepsLedger`: the store implements `SessionLedger` |
| `sessions_events`: events | 2 messages, 2 publishers of each, 3 events, texts of up to 2 pieces, 1 subscriber, a channel for 1 | `StreamTypeOK`, `InSync` |
| `tool` | 2 clients, 2 versions, 2 installations, 1 call, 1 failed write, 1 restart | `ToolTypeOK`, `Exclusive`, `MigratedFirst`, `SignalledWhenOver`, `AllOrNothing`, `CompletedKept` |
| `async_orphan` | 1 run, 1 task, 1 cancellation | `ClaimNotOrphaned` is violated (below) |
| `async_lost` | 1 user run and a run for a continuation, 1 task, fair | `ResultInjected` is violated (below) |
| `store_delete` | 1 caller, 1 session, 2 calls, 1 cancellation | `DeleteUndone` is violated (below) |
| `tool_refused` | 2 clients that update, no failure, no restart | `RefusedChangesNothing` is violated (below) |
| `migration_undone` | 3 files, 2 steps | `Unmixed` is violated (below) |
| `relay_expired` | 1 call, 1 decision | `VerdictReachesRelay` is violated (below) |
| `stream_crossed` | 1 message, 2 publishers, 3 events, 1 subscriber | `AlwaysInSync` is violated (below) |

Why the bounds are enough. Three submitters and two decisions give two
submissions for one decision, a late one for a decision already applied, and a
second layer of confirmations. An inbox of 2 (64 in the code) is full with two
events, so every enqueue meets a full inbox; 3 is room for everything the
liveness instance sends. One retry shows what a retry leaves behind and that the
bound on retries holds. Runs meet only through the routing of submissions and the
reclaiming of records: the scenario `Pair` covers that. Submitters, decisions and runs are
interchangeable, hence the symmetry sets (never used with liveness). Tasks of a session share only the list they are
saved in, and the merge works on each by itself, so one task with two runs
competing for it, and one failure, cancellation and restart at any point, is where
results could be duplicated; the theorems hold for any number of each.

In the store, three calls are a session that exists and two calls that race for it,
or a save, a deletion and a save again. Two sessions are needed for an index in which
one entry is stale and the other is not; two failures for a step that fails and its
undoing that fails too. The writers' lock admits one change at a time, so a third
caller would only wait; again the theorems have no bound. Deadlock is not checked
there: the budgets end, and then there is nothing left to do. Nor is it in `tool` and in the
runs of one component that expect a violation of safety, for the same reason.

Two clients and two operations of a tool are a request that acts on what it read before
the other one's operation, and an operation accepted before the one before it has
signalled its end; one failed write and one restart at any point meet every phase.
The run installs, which is the kind that may start without a version; an update
differs in what it asks of the versions, and an import in where its package comes from:
the theorems cover all of them. Two processes of a
plugin are one that is replaced and one that replaces it, and three requests reach every
crossing of two of them with a third. A table for one outcome is full with one decision
settled (256 in the code); two files besides the version fact may be restored in different
orders, and two steps leave data between the versions. In `services` deadlock is checked: the
tasks come to rest or go on, and the other three are given a step that changes nothing.

For the events, two events of the run and one of the relay are the overlap of two publications
and a difference that builds on what it leaves; three events also fill the channel, the
goroutine's hand and the queue, so that two may merge there. Two messages keep a queue from
merging across another event. `MaxRewrites` is 0 in that run, for a text that starts over is an
event with `reset`, which shortening a text brings about as well; `stream_crossed` has 1. What an
event of another kind (reasoning, changed parts, tool output) is to a queue and to a text, an
event of the other message is.

Fairness. `FairSpec` lets every goroutine that has started and can take a step
take one eventually; Go's scheduler does that. A model call, a tool batch and a
compaction are outside services: they are only assumed to come back once the
run's context is cancelled, as the code passes it to them. Nobody is assumed to
start a run, to cancel it, or to confirm anything. `SubmitterAnswered` has the
additional antecedent that outside calls return, and says so. "Eventually" covers
a panic-free run: `CrashPoints` is empty there. In `AsyncInjection` the fair steps
are those of a run's goroutine and of a task's goroutine; starting, confirming
(`WaitOver`), breaking off a wait (`BreakOff`), cancelling and crashing are not. `MCLiveness` is
fair to both components; the one that rests has no step that can be taken, so that its fairness
asks for nothing.

### Where the code disagrees with its comments

`async_orphan`: a run that is cancelled after it has claimed a result and before
it has saved it cannot save, and cannot give the claim back either, because
`releaseAsyncToolResultClaim` (`ar/async_tool.go:487-494`) hands the cancelled
context to the store and only logs the error. The claim of a finished run then keeps
every other run from injecting the result until the process restarts, although the
comments at `ar/async_tool.go:428` and `ds/async_tool_claim.go:44-45` say that the
claim is given back and no result is lost.

`async_lost`: a result that becomes ready after the last flush of a run
(`ar/run.go:329`) and before the run is settled wakes that run and starts no
continuation (`ar/async_tool.go:284-306`); the run does not read its inbox again.
Nobody injects the result until somebody starts a run in this session, although the
comment at `ar/async_tool.go:86-88` says that the owning run or a new one does. The same comes
of a wait for confirmations that is broken off, by a decision sent twice for instance: its
cleanup drains the inbox, wake-up included (`ar/confirmation.go:161-166`), and the run
fails. `ResultInjected` leaves that way out, to show that it takes no error to lose the result;
`ReadyIsInjected` says that while a run still looks at the results it is the only way.

`store_delete`: when the record of a deletion cannot be written,
`rollbackSessionDelete` first prepares the restored index with the context of the
deletion (`ds/session_store.go:870-873`) and returns if that fails, before it moves the
directory back. If the record failed because the context was cancelled, so does this.
The session stays in the recycle bin without a record, neither listed nor among the
deleted ones (`ds/index.go:144-147`), although the comment at
`ds/session_store.go:861` says that the directory is moved back. `BinRecorded` says
what does hold: such an entry has a cancellation, a restart or two failures behind it.

`tool_refused`: `startToolOperation` reads the version in use (`tc/operation.go:238`) and
then asks for the newest release, and only afterwards begins the operation. Another
update may be accepted and completed in between. The later one then starts with the
older version as its base; `Activate` refuses the switch, as its comment promises
(`release/program_store.go:115`), and the handler of the error restores the base
(`tc/operation.go:394-395`), which takes back the update that was completed, although
`tc/operation.go:391` says that an operation switches or is undone as a whole.

`migration_undone`: `Complete` deletes the process record, then removes the backup
(`dm/execute.go:336-345`). When that fails it returns with `s.process` set, so the recovery
deferred in `cmd/eucli-box/main.go:107-112` restores from a backup that is no longer whole:
some files go back, others stay migrated, and without a process record the next
start takes them for what the version fact says. The comments at `dm/execute.go:255` and
`:305` promise the data from before the migration, or the whole scene kept.
`NoMixedData` says what does hold: this is the only way to mixed data.

`relay_expired`: a relay looks for the outcome of a decision and then, in another critical
section, for the decision in the ledgers (`ar/tool_confirmation_bridge.go:27-32`, `:91-96`). A
run that records the outcome and deregisters the decision between the two looks leaves the relay
with neither: the tool is told "expired" although the user has decided, and the verdict stays in
the table, where nobody comes for it. The comments at `ar/tool_confirmation_outcome.go:9-10` and
`:16-17` promise that the verdict can be taken once the decision has left the ledger, and the one
at `ar/confirmation.go:218-220` gives that as the reason for the order. The order is right; it
is the relay that looks in the wrong one. `VerdictConserved` says what does hold: no verdict is
doubled or goes elsewhere, and without a verdict between its looks no relay is told "expired"
wrongly, unless the verdict was evicted. That the eviction takes the first key of a map
iteration, although `ar/tool_confirmation_outcome.go:12-13` and `:69` speak of the oldest one,
which nobody came for, is a second way to lose a verdict; a verdict evicted unread counts as
lost in `VerdictReachesRelay` too.

`stream_crossed`: an event moves the baseline of its message under `publishedMu` and is
delivered afterwards (`ar/events.go:214-215`, `:283-339`). The relay of a confirmation publishes
the whole message of the calling run under `sessionMu`; the stream differences and part updates
of that run do not take it. If the whole message is made before a difference and delivered after
it, it overwrites the newer text, and later differences build on a text the subscriber
does not show; if it is made after and delivered before, the difference is appended twice. The
comments at `ar/events.go:218-219` (the same change is sent once only), `ar/run_queue.go:10-11`
(the goroutine of a run is the only writer of its session) and `ar/system.go:111-113`
(`sessionMu` keeps the writers apart) say otherwise. `InSync` says what does hold: without such
an overlap, and again after the next replacement that nothing overlaps, the subscriber shows
what was published last.

Two more disagreements are seen in the models and have no run of their own.
`drainRunInbox` takes a submission out of the inbox, defers it, and puts it back with
`enqueueRunEvent` whose result it drops (`ar/run_queue.go:80-82`): if the inbox has filled
up in between, the submission is lost and no receipt is written, although the
comments at `ar/run_queue.go:53-56` and `ar/confirmation.go:15-17` promise one. With an
inbox of 2 `NoneStranded` fails for this reason; the run `liveness` has room for
everything. A panic while a submission is in the goroutine's hands has the same
effect, which is why `NoneStranded` is stated for runs without panics. And the next
version of a session comes from the index (`ds/session_store.go:188-195`), which has
forgotten a deleted session: if it is saved once more its version is 1 again, although
`src/pkg/types/runtime.go:214` and `ds/session_store.go:106` promise that versions
strictly grow. `EventsInOrder` says what does hold: they grow until the session is deleted.

## Proofs

`RunLifecycleProofs` proves for any sets of runs, submitters and decisions and any
bounds satisfying the `ASSUME`s of `RunLifecycle`:

* `Typing`: `Spec => []TypeOK`. The inductive invariant is `Typed`: `TypeOK` and
  `HandOK` (the goroutine holds a submission exactly at the places where the code
  has one, and it is a submission of an existing decision), without which the
  steps that apply a submission would not keep their types.
* `OneTerminalEvent`: `Spec => []TerminalEventOnce`. `LifeOK` relates the place of
  the goroutine, the status, the intent, the published events and the registration
  of the record: a run that has claimed its end and not published yet is still
  registered, because only `done` records expire.
* `BooksClosed`: `Spec => []DoneIsClosed`. `ClosedOK` says that a finished run has
  an empty ledger and inbox; the lemmas named `...Own` show that a step of one run
  leaves the ledger and inbox of every other run alone, and a submission can only
  be enqueued where the ledger is not empty.
* `OneReceipt`: `Spec => []HeldOnce`. Given the types it is inductive as it stands; the work
  is in the lemmas about what a queue holds after `Append` and `Tail` (`QueuedAppend`,
  `QueuedTail`) and in `HeldFrame`: a step touches the places of one run and only takes
  submissions out of them, answering no other.
* `Routable`: `Spec => []VisibleRoutable`. `RoutableOK` says it of a decision from the moment
  it is issued, before anybody can see it, and adds that a goroutine about to take a decision
  out of the ledger has recorded its outcome.
* `NobodyStranded`: `Roomy => (Spec => []NoneStranded)`. Without a condition it is false (see
  the end of "Where the code disagrees"). `Roomy` excludes its two causes and nothing
  else: no panic strikes while a submission is in the goroutine's hands (`CrashPoints` has no
  place of draining, requeueing or applying), and the submitters and the signals together fit
  into an inbox, which has 64 places in the code. `StrandedInv` counts: what is in an inbox or
  put aside is at most the signals and the submitters that have sent (`RoomOK`).
* `ImplementsContract`: `Spec => KeepsContract`. The mapping is `outcome <- Outcome` (every
  active status is "active") and `announced <- events`. `StartRun`, the `Claim` that finds the
  run active and `Publish` are `Begin`, `Settle` and `Announce`; registering a decision is
  `Issue`, wherever it happens; receipts are `Confirm` and `Reject`; `FinalizeRun` rejects a set
  of submitters at once; everything else stutters. `Apply` needs `BooksOK`: a decision was
  issued by the run in whose ledger it is and has no outcome there, except between its
  recording and its removal or while the run is being closed, and what is visible or planned
  was issued. A submission in hand is still unanswered by `HeldOnce`.

`AsyncInjectionProofs` proves for any runs, tasks and budgets of failures,
cancellations and restarts:

* `Typing`: `TaskSpec => []TaskTypeOK`;
* `Once`: `TaskSpec => []InjectedOnce`;
* `LostOnlyByRestart`: `TaskSpec => []NoFalseLoss`;
* `ClaimsHaveOwners`: `TaskSpec => [](Undisturbed /\ up => ClaimNotOrphaned)`.

The first three follow from one inductive invariant, `IInv`. `InjectedOnce` alone is not
inductive: it needs that no copy of a run has a task completed that the file has not
(`CopiesOK`), that at most one run is between claiming a result and saving or
releasing it and that the file shows it as claimed (`BusyOK`), and that what a flush
still has to do is ready in the run's copy (`HeldOK`). `NoFalseLoss` needs `EpochOK`:
in the process that accepted a task the registry forgets it only when the file has it
completed, so a run that still takes it for lost is behind the file, and merging
its copy keeps the completion.

`ClaimNotOrphaned` is false after a cancellation or a failed save (`async_orphan`).
`ClaimsHaveOwners` shows that these are the only causes: in a process that is up, whatever
restarts lie behind it, a claim in the file belongs to a run at work as long as no run was
cancelled and no save failed (`Undisturbed`). Its invariant, `ClaimsOK`, follows a claim through
the copies: one that a run's copy repeats is the one in the file, or the file has the task
completed, so that a merge never brings an old one back (`CarriedOK`); a run claims only what
was unclaimed when it looked (`UnclaimedOK`). While the program is down a claim may be left
without its run, and with the registry empty (`ForgottenOK`) the recovery clears it.

`SessionStoreProofs` proves for any callers, sessions and budgets of calls, failures,
cancellations and restarts:

* `Typing`: `Spec => []TypeOK`, and with it that the lock has one holder;
* `IndexNeverStale`: `Spec => []IndexAgrees`;
* `NoUpdateLost`: `Spec => []AckedKept`;
* `Ordered`: `Spec => []EventsInOrder`;
* `BinAccounted`: `Spec => []BinRecorded`.

Again there is one inductive invariant, `IInv` (`Inductive`). `IndexAgrees` needs to
know what the holder of the lock will write into the index: `DocAgrees` says that what
it read is what the files say but for its own change, and that the index is dirty from
the first rename until the change is over. `AckedKept` needs `Carried` (a merge carries
what was there) and `Held` (a deletion puts back what it moved), which needs `Fresh`
and `Numbered` (an entry of the bin belongs to one call). `EventsInOrder` needs
`EventsBounded` and `Ahead`: no event is ahead of the data, and a write that is still
to be announced is ahead of every event. `BinRecorded` needs `Blamed`: a deletion is
undone only after a cancellation or a failure. `Placed` ties the place of a caller to
its operation.

`SessionStoreProofs` also proves `ImplementsLedger`: `Spec => KeepsLedger`. The mapping
is `table <- data`, `told <- Told` (the events without their history part) and
`open <- Open`, the change of the holder of the lock: a write from the rename of the
data file to its announcement, a removal from the move to the bin to its record or its
undoing. Four actions map to steps that change the table or the events (`WriteData`,
`Publish`, `Move`, `PutBack`); a failure, a final record and a restart close what is
open; everything else stutters.

`ToolOperationProofs` proves for any clients, versions, kinds of requests and budgets
`ToolTypes`, `ToolExclusive`, `ToolMigratedFirst`, `ToolAllOrNothing`, `ToolCompletedKept`,
`ToolSignalledWhenOver` and `ToolRefusedLeaves`, what is left of `RefusedChangesNothing`: it
holds as long as the requests are orderly. The inductive invariant adds to the properties where the
gate, the record, the history variables and the place of the goroutine belong together: an
operation between `begin` and `release` holds the gate; before the switch the version in
use is its base while requests are orderly; its target is prepared and migrated before it
is activated; a record that says "running" belongs to an operation at work or to one that
a restart ended, and its base is a version whose data is there.

`PluginHostingProofs` proves `HostKeepsTypes`, `HostLosesNoProcess` and `HostDrainsCalls`.
The counter of calls is the number of counted requests (with the lemmas about cardinality
this needs), and every process has one owner: a registered one its watcher, one that is
being started or stopped the actor that does it. It also proves `HostOffWhenDisabled`,
`HostStoppedWhileReplaced` and `HostRunsCurrent`, as long as no request acted on an older
discovery (`crossed`), as the properties say. `Locked` gives the transition lock one holder;
`OffOK`, `ShutOK` and `CurrentOK` say for each place of a request what it has already done
to the switch, the process and the program, and that a request which crossed another one has
said so.

`EventStreamProofs` proves `StreamTypes` and `StreamInSync`, for any messages and subscribers.
What a consumer shows is a fold over the events in its channel, in its goroutine's hand,
in its queue and on the publisher's way. `TraceOfFold` relates the fold to the texts shown
one after the other; it rests on the least-number principle (`NatMin`, from the well-foundedness
of `<`), which gives induction over the numbers as a lemma about sets (`Induction`), without
an operator parameter. Then `ShowsLast` and `ShowsFirst` say what one event more, at either
end, changes, `MergedFacts` that a merged difference is read like its two parts, and
`PutShows` that `enqueue`, merging or not, only applies its event. The invariant, `FlowInv`,
says what a publication under way looks like (`EmitOK`); that a message which is not in
`overlapped` has one publisher at work at most, whose event ends in the text published last
(`AloneOK`); that nothing is on the way to who does not subscribe (`QuietOK`); that no waiting
event ends in the unknown (`KnownOK`); and, stronger than the property, what a subscriber will
show whichever publisher is the one at work (`ReachedOK`).

`ConfirmationRelayProofs` proves
`RelayTypes`, `RelayConservesVerdicts` and `RelayClearsProjection`; a verdict has one
holder because taking it empties the table, and a relay between its two looks that finds its
decision gone was there when the verdict was recorded (`LooksOK`). `DataMigrationProofs` proves
`MigrationTypes`, `MigrationRecoverable` and `MigrationNeverMixed`; the invariant says for
each place of the program what the files are: within one step of the version fact, whole in
the backup, or back where they were.

The assumptions are those the modules name (`NoneAssumption`, `BoundsAssumption`,
`CrashAssumption`, `TaskAssumption`, `UserAssumption`, `TaskBounds`, `StoreAssumption`,
`ToolAssumption`, `HostAssumption`, `RelayAssumption`, `NoDecisionAssumption`,
`MigrationAssumption`, `StreamAssumption`): `None` and `NoOne` are in none of the sets, the sets that share variables are
disjoint, the bounds are natural numbers, panics strike only where the code can panic,
there is a session, requests and messages are finitely many, the table of outcomes has
room for one, and the version fact is one of the files.

Every invariant and both refinements that the passing runs check are stated by a theorem.
Before it was proved, each strengthened invariant was an invariant of a TLC run of its own.
Only model-checked: the liveness properties `CancelFinishes`, `SubmitterAnswered` and
`ReadyIsInjected`, since the prover does not handle fairness, and the seven violations.

## Not modelled

The map covers a few percent of the implementation. Most of what it does not cover is of
kinds a model would say nothing about: programs of their own (the bundled tools under
`tools/`, the plugins under `system-plugins/`, the development tools under `.dev-tools`,
together the larger part of the lines); conversions between the formats of model
providers; the HTTP layer of the gateway, which decodes a request and calls a system;
documents that are read and written one at a time (roles, providers, workspaces, prompts,
stickers, orders, settings); archive formats, digests and version rules; discovery
and validation of manifests; texts and placeholders. They carry no state that several actors
change, or are input and output the models treat as a choice. Within the modelled
components, message content, usage counters, attachments, favourites, desks, progress and
the lists over all tools or plugins are left out: no control depends on them.

Left out for other reasons: the watchdog of the control connection
(`src/pkg/toolcontrol`), the idle timeouts of network requests and the backoff between
model calls depend on real time; the queue of request records drops by design when it is
full; `DeliverToolMessage` (`ar/tool_message.go`) waits for the events of a run it has started
or resumes, and a confirmation the run asked for between the two waits reaches it in no
event: this hazard is listed and has no model. The parallel goroutines of one
batch of tools are one step of `RunLifecycle`, for the batch waits for all of them.

## Plan

1. `DeliverToolMessage` composed from a run, its events and the relay, with the liveness of
   the tool that waits.
2. `FileTransaction`: several documents committed together, with its rollback.
3. Theorems about what is left of the promise that a deletion is undone, beyond `BinRecorded`.
