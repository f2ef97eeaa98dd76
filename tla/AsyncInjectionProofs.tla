------------------------ MODULE AsyncInjectionProofs ------------------------
(***************************************************************************)
(* That every result gets into the session at most once, and that no task  *)
(* is reported lost while its process lives, for any runs and tasks and    *)
(* any number of failures, cancellations and restarts; and that as long as *)
(* nothing has failed and nobody was cancelled every claim has an owner.   *)
(***************************************************************************)
EXTENDS AsyncInjection, TLAPS

-----------------------------------------------------------------------------
(* The inductive invariant. *)

Injecting == {"claim", "inject", "reclaim", "release", "retract"}

\* What a flush has left to do is ready in the run's copy.
Left(r) == IF runPc[r] = "reclaim" THEN todo[r] \ {taken[r]} ELSE todo[r]
Held(r) ==
    /\ todo[r] # {} => runPc[r] \in Injecting
    /\ runPc[r] \in {"inject", "reclaim", "release", "retract"} => taken[r] \in todo[r]
    /\ \A t \in Left(r) : copy[r][t].status \in {"ready", "lost"}
    /\ runPc[r] = "accept" => exec[taken[r]] # "none"
HeldOK == \A r \in SessionRuns : Held(r)

\* Nobody works while the process is down.
DownOK == ~up => \A r \in SessionRuns : runPc[r] \in {"none", "done"}

\* No copy is ahead of the file.
CopiesOK ==
    \A r \in SessionRuns, t \in Tasks :
        copy[r][t].status = "completed" \/ view[r][t].status = "completed" =>
            stored[t].status = "completed"

\* At most one run handles a result, and the file says that it is taken.
Taking(r, t) == runPc[r] \in {"inject", "release", "retract"} /\ taken[r] = t
BusyOK ==
    /\ \A r \in SessionRuns, t \in Tasks :
        /\ Taking(r, t) => stored[t].claim # NoOne \/ stored[t].status = "completed"
        /\ Taking(r, t) /\ runPc[r] = "inject" => stored[t].status # "completed"
        /\ runPc[r] = "reclaim" /\ taken[r] = t => stored[t].status = "completed"
    /\ \A r, q \in SessionRuns, t \in Tasks : Taking(r, t) /\ Taking(q, t) => r = q

\* Before it is accepted a task is nowhere.
NowhereOK ==
    \A t \in Tasks : exec[t] = "none" =>
        /\ stored[t].status = "absent" /\ registry[t] = "absent" /\ messages[t] = <<>>
        /\ \A r \in SessionRuns : copy[r][t].status = "absent" /\ view[r][t].status = "absent"

\* The registry forgets a task of this process only when the file has it completed;
\* whatever takes it for lost then is behind the file.
EpochOK ==
    \A t \in Tasks :
        /\ born[t] <= crashes
        /\ ~up /\ exec[t] # "none" => born[t] < crashes
        /\ born[t] = crashes =>
            /\ stored[t].status # "lost"
            /\ \A i \in DOMAIN messages[t] : messages[t][i] # "lost"
            /\ exec[t] # "none" /\ registry[t] = "absent" => stored[t].status = "completed"
            /\ \A r \in SessionRuns :
                  /\ view[r][t].status # "lost"
                  /\ copy[r][t].status = "lost" => stored[t].status = "completed"

IInv ==
    /\ TaskTypeOK /\ HeldOK /\ DownOK
    /\ InjectedOnce /\ CopiesOK /\ BusyOK
    /\ NowhereOK /\ EpochOK
Later == /\ HeldOK /\ DownOK /\ InjectedOnce /\ CopiesOK
         /\ BusyOK /\ NowhereOK /\ EpochOK

-----------------------------------------------------------------------------
(* What the operations on copies of a task give. *)

LEMMA MergeFacts ==
    ASSUME NEW a \in Record, NEW b \in Record
    PROVE  /\ Merge(a, b) \in Record
           /\ Merge(a, b).status \in {a.status, b.status}
           /\ Merge(a, b).status = "completed" <=>
                  a.status = "completed" \/ b.status = "completed"
           /\ a.status = "completed" /\ b.status # "completed" => Merge(a, b) = a
           /\ a.claim # NoOne /\ Merge(a, b).status # "completed" => Merge(a, b).claim # NoOne
<1>1. Merge(a, b) \in {a, b, [b EXCEPT !.claim = a.claim]}
  BY DEF Merge
<1>2. Merge(a, b) \in Record
  BY <1>1 DEF Record
<1>3. CASE b.status = "absent" \/ (a.status = "completed" /\ b.status # "completed")
  <2>1. Merge(a, b) = a
    BY <1>3 DEF Merge
  <2> QED BY <1>2, <1>3, <2>1
<1>4. CASE /\ b.status # "absent" /\ ~(a.status = "completed" /\ b.status # "completed")
           /\ a.claim # NoOne /\ b.claim = NoOne /\ b.status # "completed"
  <2>1. Merge(a, b) = [b EXCEPT !.claim = a.claim]
    BY <1>4 DEF Merge
  <2> QED BY <1>2, <1>4, <2>1 DEF Record
<1>5. CASE /\ b.status # "absent" /\ ~(a.status = "completed" /\ b.status # "completed")
           /\ ~(a.claim # NoOne /\ b.claim = NoOne /\ b.status # "completed")
  <2>1. Merge(a, b) = b
    BY <1>5 DEF Merge
  <2> QED BY <1>2, <1>5, <2>1
<1> QED BY <1>3, <1>4, <1>5

LEMMA NothingFacts ==
    /\ Nothing \in [Tasks -> Record]
    /\ \A t \in Tasks : Nothing[t].status = "absent"
BY DEF Nothing, Entry, Record, Statuses

LEMMA RuntimeFacts ==
    ASSUME registry \in [Tasks -> {"absent", "pending", "running", "ready"}]
    PROVE  /\ Runtime \in [Tasks -> Record]
           /\ \A t \in Tasks : Runtime[t].status = registry[t]
BY DEF Runtime, Entry, Record, Statuses

LEMMA MergeAllFacts ==
    ASSUME NEW f \in [Tasks -> Record], NEW g \in [Tasks -> Record]
    PROVE  /\ MergeAll(f, g) \in [Tasks -> Record]
           /\ \A t \in Tasks :
                 /\ MergeAll(f, g)[t].status \in {f[t].status, g[t].status}
                 /\ MergeAll(f, g)[t].status = "completed" <=>
                        f[t].status = "completed" \/ g[t].status = "completed"
                 /\ f[t].claim # NoOne /\ MergeAll(f, g)[t].status # "completed" =>
                        MergeAll(f, g)[t].claim # NoOne
<1>1. \A t \in Tasks : f[t] \in Record /\ g[t] \in Record /\ MergeAll(f, g)[t] = Merge(f[t], g[t])
  BY DEF MergeAll
<1> QED BY <1>1, MergeFacts DEF MergeAll

LEMMA RecoveredFacts ==
    ASSUME NEW f \in [Tasks -> Record],
           registry \in [Tasks -> {"absent", "pending", "running", "ready"}]
    PROVE  /\ Recovered(f) \in [Tasks -> Record]
           /\ \A t \in Tasks :
                 /\ f[t].status = "absent" => Recovered(f)[t].status = "absent"
                 /\ Recovered(f)[t].status = "completed" <=> f[t].status = "completed"
                 /\ Recovered(f)[t].status = "lost" =>
                        \/ f[t].status = "lost"
                        \/ f[t].status # "absent" /\ registry[t] = "absent"
<1> SUFFICES ASSUME NEW t \in Tasks
             PROVE  /\ Recovered(f)[t] \in Record
                    /\ f[t].status = "absent" => Recovered(f)[t].status = "absent"
                    /\ Recovered(f)[t].status = "completed" <=> f[t].status = "completed"
                    /\ Recovered(f)[t].status = "lost" =>
                           \/ f[t].status = "lost"
                           \/ f[t].status # "absent" /\ registry[t] = "absent"
  BY DEF Recovered
<1>1. f[t] \in Record /\ Entry(registry[t]) \in Record /\ Entry(registry[t]).status = registry[t]
  BY DEF Entry, Record, Statuses
<1>2. /\ Merge(f[t], Entry(registry[t])) \in Record
      /\ Merge(f[t], Entry(registry[t])).status \in {f[t].status, registry[t]}
      /\ Merge(f[t], Entry(registry[t])).status = "completed" <=>
             f[t].status = "completed" \/ registry[t] = "completed"
  BY <1>1, MergeFacts
<1> QED BY <1>1, <1>2 DEF Recovered, Record, Statuses

-----------------------------------------------------------------------------
(* Types. *)

LEMMA TypedInit == TaskInit => TaskTypeOK
<1> SUFFICES ASSUME TaskInit PROVE TaskTypeOK
  OBVIOUS
<1>1. PlaceTypes
  BY TaskAssumption DEF TaskInit, PlaceTypes, RunPlaces, Handling
<1>2. LocalTypes
  BY DEF TaskInit, LocalTypes
<1>3. CopyTypes /\ FileTypes
  BY NothingFacts, TaskBounds DEF TaskInit, CopyTypes, FileTypes
<1>4. TaskTypes /\ BudgetTypes
  BY TaskBounds DEF TaskInit, TaskTypes, BudgetTypes
<1> QED BY <1>1, <1>2, <1>3, <1>4 DEF TaskTypeOK

\* Positions where a run has no task in hand, and those outside a flush.
Places == RunPlaces \ Handling
Aside == Places \ {"claim"}

LEMMA FailingFacts ==
    ASSUME BudgetTypes, Failing \/ UNCHANGED budget
    PROVE  BudgetTypes' /\ UNCHANGED <<cancels, crashes>>
BY TaskBounds DEF BudgetTypes, Failing, budget

LEMMA CompletedFacts ==
    ASSUME NEW f \in [Tasks -> Record], NEW t \in Tasks
    PROVE  /\ Completed(f, t) \in [Tasks -> Record]
           /\ Completed(f, t)[t].status = "completed"
           /\ \A k \in Tasks \ {t} : Completed(f, t)[k] = f[k]
<1>1. f[t] \in Record /\ [f[t] EXCEPT !.status = "completed"] \in Record
  BY DEF Record, Statuses
<1>2. Completed(f, t) = [f EXCEPT ![t] = [f[t] EXCEPT !.status = "completed"]]
  BY DEF Completed
<1> QED BY <1>1, <1>2 DEF Record

\* Run r moves, with nothing in hand afterwards.
Moved(r) == up /\ \E p \in Places : runPc' = [runPc EXCEPT ![r] = p]

LEMMA Moves ==
    ASSUME PlaceTypes, NEW r \in SessionRuns, Moved(r),
           taken' = [taken EXCEPT ![r] = NoOne] \/ (runPc[r] \in Places /\ UNCHANGED taken)
    PROVE  PlaceTypes'
BY DEF PlaceTypes, Moved, Places

\* What a save does, wherever it is in the run.
LEMMA SaveFacts ==
    ASSUME PlaceTypes, CopyTypes, FileTypes, BudgetTypes,
           NEW r \in SessionRuns, NEW from, NEW to \in Aside, Save(r, from, to, copy[r])
    PROVE  /\ up /\ runPc[r] = from /\ \E p \in Aside : runPc' = [runPc EXCEPT ![r] = p]
           /\ stored' = stored \/ stored' = MergeAll(stored, copy[r])
           /\ BudgetTypes' /\ UNCHANGED crashes
<1>1. "settle" \in Aside /\ "reload" \in Aside
  BY DEF Aside, Places, RunPlaces, Bound, Handling
<1>2. up /\ runPc[r] = from /\ \E p \in Aside : runPc' = [runPc EXCEPT ![r] = p]
  BY <1>1 DEF Save, Refused, ToPlace
<1>3. stored' = stored \/ stored' = MergeAll(stored, copy[r])
  BY DEF Save
<1>4. Failing \/ UNCHANGED budget
  BY DEF Save, Refused
<1> QED BY <1>2, <1>3, <1>4, FailingFacts

\* Outside a flush a run moves, and at most saves its copy.
Idle(r) ==
    /\ up /\ runPc[r] \in Aside /\ \E p \in Aside : runPc' = [runPc EXCEPT ![r] = p]
    /\ stored' = stored \/ stored' = MergeAll(stored, copy[r])
    /\ UNCHANGED <<up, taken, todo, copy, view, registry, exec, messages, born, crashes>>
    /\ LocalTypes' /\ BudgetTypes'
    /\ continuing' = continuing \/ continuing' = NoOne

LEMMA IdleTyped ==
    ASSUME TaskTypeOK, NEW r \in SessionRuns, Idle(r)
    PROVE  TaskTypeOK'
<1>1. MergeAll(stored, copy[r]) \in [Tasks -> Record]
  BY MergeAllFacts DEF TaskTypeOK, CopyTypes, FileTypes
<1>2. PlaceTypes'
  BY Moves DEF Idle, Moved, Aside, TaskTypeOK
<1>3. CopyTypes' /\ FileTypes' /\ TaskTypes'
  BY <1>1 DEF Idle, TaskTypeOK, CopyTypes, FileTypes, TaskTypes
<1> QED BY <1>2, <1>3 DEF Idle, TaskTypeOK

LEMMA Idling ==
    ASSUME TaskTypeOK, NEW r \in SessionRuns,
           \/ BeginRun(r) \/ FirstSave(r) \/ Top(r) \/ Model(r) \/ Batch(r) \/ Wait(r)
           \/ WaitOver(r) \/ BreakOff(r) \/ Cleanup(r) \/ LeaveBatch(r) \/ CompactHistory(r) \/ Settle(r)
           \/ WrapUpRun(r)
    PROVE  Idle(r)
<1> USE DEF control, background, session, TaskTypeOK, LocalTypes
<1>0. /\ {"none", "load", "first", "top", "compact", "close", "read", "settle", "model",
          "batch", "wait", "work", "cleanup", "reload", "wrapup", "done"} \subseteq Aside
      /\ UNCHANGED budget => BudgetTypes' /\ UNCHANGED crashes
      /\ Failing => BudgetTypes' /\ UNCHANGED crashes
  BY FailingFacts DEF Aside, Places, RunPlaces, Bound, Flushing, Handling
<1>1. CASE BeginRun(r)
  BY <1>0, <1>1 DEF BeginRun, ToPlace, Idle
<1>2. CASE FirstSave(r)
  BY <1>0, <1>2 DEF FirstSave, Returned, ToPlace, Idle
<1>3. CASE Top(r)
  BY <1>0, <1>3 DEF Top, StartFlush, ToPlace, Idle
<1>4. CASE Model(r)
  <2>1. CASE Save(r, "model", "batch", copy[r]) /\ UNCHANGED <<flushAfter, flushed>>
    BY <1>0, <1>4, <2>1, SaveFacts DEF Model, Idle
  <2>2. CASE StartFlush(r, "model", "last")
    BY <1>0, <1>4, <2>2 DEF Model, StartFlush, Save, Refused, ToPlace, Idle
  <2> QED BY <1>4, <2>1, <2>2 DEF Model
<1>5. CASE Batch(r)
  <2>1. CASE Save(r, "batch", "wait", copy[r])
    BY <1>0, <1>5, <2>1, SaveFacts DEF Batch, Idle
  <2>2. CASE ToPlace(r, "batch", "work") /\ UNCHANGED <<stored, budget>>
    BY <1>0, <1>5, <2>2 DEF Batch, ToPlace, Idle
  <2> QED BY <1>5, <2>1, <2>2 DEF Batch
<1>6. CASE Wait(r) \/ BreakOff(r) \/ Cleanup(r)
  BY <1>0, <1>6 DEF Wait, BreakOff, Cleanup, StartFlush, ToPlace, Idle
<1>7. CASE WaitOver(r) \/ LeaveBatch(r)
  <2>1. PICK from \in Aside, to \in Aside : Save(r, from, to, copy[r])
    BY <1>0, <1>7 DEF WaitOver, LeaveBatch
  <2> QED BY <1>0, <1>7, <2>1, SaveFacts DEF WaitOver, LeaveBatch, Idle
<1>8. CASE CompactHistory(r)
  BY <1>0, <1>8 DEF CompactHistory, Returned, ToPlace, Idle
<1>9. CASE Settle(r)
  BY <1>0, <1>9 DEF Settle, ToPlace, Idle
<1>10. CASE WrapUpRun(r)
  BY <1>0, <1>10 DEF WrapUpRun, ToPlace, Idle
<1> QED BY <1>1, <1>2, <1>3, <1>4, <1>5, <1>6, <1>7, <1>8, <1>9, <1>10

LEMMA LoadingTyped ==
    ASSUME TaskTypeOK, NEW r \in SessionRuns, Load(r) \/ Recover(r) \/ ReadSession(r) \/ Resync(r)
    PROVE  TaskTypeOK' /\ Moved(r) /\ runPc[r] \in Aside
<1> USE DEF control, background, session, TaskTypeOK
<1>0. {"load", "recover", "reload", "resume", "close", "settle", "first", "top", "read",
       "resync", "merge"} \subseteq Aside
  BY DEF Aside, Places, RunPlaces, Bound, Flushing, Handling
<1>1. runPc[r] \in Aside /\ Moved(r) /\ UNCHANGED taken
  BY <1>0 DEF Load, Recover, ReadSession, Resync, ToPlace, Moved, Aside
<1>2. PlaceTypes'
  BY <1>1, Moves DEF Aside
<1>3. LocalTypes' /\ FileTypes' /\ TaskTypes'
  BY DEF Load, Recover, ReadSession, Resync, LocalTypes, FileTypes, TaskTypes
<1>4. BudgetTypes'
  <2>1. Failing \/ UNCHANGED budget
    BY DEF Load, Recover, ReadSession, Resync, budget
  <2> QED BY <2>1, FailingFacts
<1>5. Recovered(view[r]) \in [Tasks -> Record]
  <2>1. view[r] \in [Tasks -> Record]
    BY DEF CopyTypes
  <2> QED BY <2>1, RecoveredFacts DEF TaskTypes
<1>6. MergeAll(copy[r], Recovered(view[r])) \in [Tasks -> Record]
  BY <1>5, MergeAllFacts DEF CopyTypes
<1>7. CopyTypes'
  BY <1>5, <1>6, NothingFacts DEF Load, Recover, ReadSession, Resync, CopyTypes, FileTypes
<1> QED BY <1>1, <1>2, <1>3, <1>4, <1>7

LEMMA MergingTyped ==
    ASSUME TaskTypeOK, NEW r \in SessionRuns, MergeRuntime(r)
    PROVE  TaskTypeOK'
<1> USE DEF control, background, session, TaskTypeOK
<1>1. runPc[r] \in Places /\ Moved(r) /\ UNCHANGED taken
  BY DEF MergeRuntime, ToPlace, Moved, Places, RunPlaces, Bound, Flushing, Handling
<1>2. PlaceTypes'
  BY <1>1, Moves
<1>3. MergeAll(copy[r], Runtime) \in [Tasks -> Record]
  BY MergeAllFacts, RuntimeFacts DEF CopyTypes, TaskTypes
<1> QED BY <1>2, <1>3 DEF MergeRuntime, LocalTypes, FileTypes, TaskTypes, CopyTypes, BudgetTypes, budget

LEMMA ClaimTyped ==
    ASSUME TaskTypeOK, NEW r \in SessionRuns, NEW t \in Tasks, ClaimResult(r, t)
    PROVE  TaskTypeOK'
<1> USE DEF control, background, session, TaskTypeOK
<1>1. Failing \/ UNCHANGED budget
  BY DEF ClaimResult
<1>2. BudgetTypes'
  BY <1>1, FailingFacts
<1>3. CopyTypes' /\ LocalTypes' /\ TaskTypes'
  BY DEF ClaimResult, CopyTypes, LocalTypes, TaskTypes
<1>4. FileTypes'
  <2>1. [stored EXCEPT ![t].claim = r] \in [Tasks -> Record]
    BY DEF FileTypes, Record
  <2> QED BY <2>1 DEF ClaimResult, FileTypes
<1>5. PlaceTypes'
  BY TaskAssumption DEF ClaimResult, ToPlace, PlaceTypes, RunPlaces, Bound, Flushing, Handling
<1> QED BY <1>2, <1>3, <1>4, <1>5

LEMMA InjectTyped ==
    ASSUME TaskTypeOK, HeldOK, NEW r \in SessionRuns, Inject(r)
    PROVE  TaskTypeOK'
<1> USE DEF control, background, session, TaskTypeOK
<1>1. runPc[r] = "inject" /\ taken[r] \in Tasks /\ copy[r][taken[r]].status \in {"ready", "lost"}
  BY DEF Inject, ToPlace, HeldOK, Held, Left, PlaceTypes, LocalTypes, Handling
<1>2. Failing \/ UNCHANGED budget
  BY DEF Inject
<1>3. BudgetTypes'
  BY <1>2, FailingFacts
<1>4. Completed(copy[r], taken[r]) \in [Tasks -> Record]
  BY <1>1, CompletedFacts DEF CopyTypes
<1>5. MergeAll(stored, Completed(copy[r], taken[r])) \in [Tasks -> Record]
  BY <1>4, MergeAllFacts DEF FileTypes
<1>6. [messages EXCEPT ![taken[r]] = Append(@, copy[r][taken[r]].status)]
          \in [Tasks -> Seq({"ready", "lost"})]
  BY <1>1 DEF FileTypes
<1>7. FileTypes'
  BY <1>5, <1>6 DEF Inject, FileTypes
<1>8. CopyTypes' /\ LocalTypes' /\ TaskTypes'
  BY <1>4 DEF Inject, CopyTypes, LocalTypes, TaskTypes
<1>9. PlaceTypes'
  <2>1. \E p \in {"reclaim", "release", "retract"} : ToPlace(r, "inject", p)
    BY DEF Inject
  <2> QED BY <1>1, <2>1 DEF Inject, ToPlace, PlaceTypes, RunPlaces, Bound, Flushing, Handling
<1> QED BY <1>3, <1>7, <1>8, <1>9

LEMMA ReturningTyped ==
    ASSUME TaskTypeOK, NEW r \in SessionRuns, Reclaim(r) \/ Release(r)
    PROVE  TaskTypeOK' /\ Moved(r) /\ taken[r] \in Tasks
<1> USE DEF control, background, session, TaskTypeOK
<1>1. taken[r] \in Tasks
  BY DEF Reclaim, Release, ToPlace, PlaceTypes, Handling
<1>2. Moved(r) /\ taken' = [taken EXCEPT ![r] = NoOne]
  BY DEF Reclaim, Release, ToPlace, Moved, Places, RunPlaces, Bound, Flushing, Handling
<1>3. PlaceTypes'
  BY <1>2, Moves
<1>4. Failing \/ UNCHANGED budget
  BY DEF Reclaim, Release
<1>5. BudgetTypes'
  BY <1>4, FailingFacts
<1>6. FileTypes'
  <2>1. [stored EXCEPT ![taken[r]].claim = NoOne] \in [Tasks -> Record]
    BY <1>1 DEF FileTypes, Record
  <2> QED BY <2>1 DEF Reclaim, Release, FileTypes
<1>7. CopyTypes' /\ LocalTypes' /\ TaskTypes'
  <2>1. TaskTypes'
    BY <1>1 DEF Reclaim, Release, TaskTypes
  <2>2. todo' \in [SessionRuns -> SUBSET Tasks]
    BY DEF Reclaim, Release, LocalTypes
  <2> QED BY <2>1, <2>2 DEF Reclaim, Release, CopyTypes, LocalTypes
<1> QED BY <1>1, <1>2, <1>3, <1>5, <1>6, <1>7

LEMMA FlushedTyped ==
    ASSUME TaskTypeOK, NEW r \in SessionRuns, Flushed(r)
    PROVE  TaskTypeOK' /\ Moved(r) /\ runPc[r] = "claim" /\ runPc'[r] \in Aside
<1> USE DEF control, background, session, TaskTypeOK
<1>1. \E p \in {"wait", "top", "model", "settle"} : ToPlace(r, "claim", p)
  BY DEF Flushed
<1>2. Moved(r) /\ runPc[r] = "claim" /\ runPc'[r] \in Aside
  BY <1>1 DEF ToPlace, Moved, Aside, Places, RunPlaces, Bound, Flushing, Handling, PlaceTypes
<1>3. PlaceTypes'
  BY <1>2, Moves DEF Flushed, Places, RunPlaces, Bound, Flushing, Handling
<1> QED BY <1>2, <1>3 DEF Flushed, CopyTypes, LocalTypes, TaskTypes, FileTypes, BudgetTypes, budget

LEMMA AcceptTyped ==
    ASSUME TaskTypeOK, NEW r \in SessionRuns, NEW t \in Tasks, Accept(r, t)
    PROVE  TaskTypeOK'
<1> USE DEF control, background, session, TaskTypeOK
<1>1. [copy[r] EXCEPT ![t] = Entry("pending")] \in [Tasks -> Record]
  BY DEF CopyTypes, Entry, Record, Statuses
<1>2. CopyTypes'
  BY <1>1 DEF Accept, CopyTypes
<1>3. PlaceTypes'
  BY TaskAssumption DEF Accept, ToPlace, PlaceTypes, RunPlaces, Bound, Flushing, Handling
<1>4. FileTypes'
  BY TaskBounds DEF Accept, FileTypes, BudgetTypes
<1>5. LocalTypes' /\ TaskTypes' /\ BudgetTypes'
  BY DEF Accept, LocalTypes, TaskTypes, BudgetTypes, budget
<1> QED BY <1>2, <1>3, <1>4, <1>5

LEMMA AcceptSavedTyped ==
    ASSUME TaskTypeOK, NEW r \in SessionRuns, AcceptSaved(r)
    PROVE  /\ TaskTypeOK' /\ runPc[r] = "accept" /\ UNCHANGED crashes /\ taken[r] \in Tasks
           /\ up /\ \E p \in Aside : runPc' = [runPc EXCEPT ![r] = p]
           /\ stored' = stored \/ stored' = MergeAll(stored, copy[r])
<1> USE DEF control, background, session, TaskTypeOK
<1>0. "work" \in Aside
  BY DEF Aside, Places, RunPlaces, Bound, Flushing, Handling
<1>1. /\ up /\ runPc[r] = "accept" /\ \E p \in Aside : runPc' = [runPc EXCEPT ![r] = p]
      /\ stored' = stored \/ stored' = MergeAll(stored, copy[r])
      /\ BudgetTypes' /\ UNCHANGED crashes
  BY <1>0, SaveFacts DEF AcceptSaved
<1>2. taken[r] \in Tasks
  BY <1>1 DEF PlaceTypes, Handling
<1>3. PlaceTypes'
  BY <1>1, Moves DEF AcceptSaved, Moved, Aside
<1>4. MergeAll(stored, copy[r]) \in [Tasks -> Record]
  BY MergeAllFacts DEF CopyTypes, FileTypes
<1>5. CopyTypes' /\ FileTypes' /\ LocalTypes'
  BY <1>1, <1>4 DEF AcceptSaved, CopyTypes, FileTypes, LocalTypes
<1>6. TaskTypes'
  <2>1. \E e \in {"start", exec[taken[r]]} : exec' = [exec EXCEPT ![taken[r]] = e]
    BY DEF AcceptSaved
  <2> QED BY <1>2, <2>1 DEF AcceptSaved, TaskTypes
<1> QED BY <1>1, <1>2, <1>3, <1>5, <1>6

LEMMA ClosingTyped ==
    ASSUME TaskTypeOK, NEW r \in SessionRuns, Close(r) \/ CancelContext(r)
    PROVE  TaskTypeOK'
<1> USE DEF control, background, session, TaskTypeOK
<1>1. CASE Close(r)
  <2>1. runPc[r] \in Places /\ Moved(r) /\ UNCHANGED taken
    BY <1>1 DEF Close, ToPlace, Moved, Places, RunPlaces, Bound, Flushing, Handling
  <2>2. PlaceTypes'
    BY <2>1, Moves
  <2> QED BY <1>1, <2>2, NothingFacts DEF Close, Returned, CopyTypes, LocalTypes, TaskTypes,
        FileTypes, BudgetTypes, budget
<1>2. CASE CancelContext(r)
  <2>1. BudgetTypes'
    BY <1>2, TaskBounds DEF CancelContext, BudgetTypes
  <2> QED BY <1>2, <2>1 DEF CancelContext, PlaceTypes, CopyTypes, LocalTypes, TaskTypes, FileTypes
<1> QED BY <1>1, <1>2

LEMMA TaskTyped ==
    ASSUME TaskTypeOK, NEW t \in Tasks, TaskStep(t)
    PROVE  TaskTypeOK'
<1> USE DEF control, background, session, TaskTypeOK
<1>1. CopyTypes' /\ FileTypes' /\ BudgetTypes'
  BY DEF TaskStep, ExecStart, ExecFinish, Notify, Continue, CopyTypes, FileTypes, BudgetTypes, budget
<1>2. LocalTypes'
  BY DEF TaskStep, ExecStart, ExecFinish, Notify, Continue, LocalTypes
<1>3. TaskTypes'
  BY DEF TaskStep, ExecStart, ExecFinish, Notify, Continue, TaskTypes
<1>4. PlaceTypes'
  <2>1. CASE UNCHANGED <<runPc, taken>>
    BY <2>1 DEF PlaceTypes
  <2>2. ASSUME NEW r \in SessionRuns, ToPlace(r, "none", "load"), UNCHANGED taken PROVE PlaceTypes'
    BY <2>2, Moves DEF ToPlace, Moved, Places, RunPlaces, Bound, Flushing, Handling
  <2> QED BY <2>1, <2>2 DEF TaskStep, ExecStart, ExecFinish, Notify, Continue
<1> QED BY <1>1, <1>2, <1>3, <1>4

LEMMA ProcessTyped ==
    ASSUME TaskTypeOK, Crash \/ Restart
    PROVE  TaskTypeOK'
<1> USE DEF control, background, session, TaskTypeOK
<1>1. CASE Crash
  <2>1. PlaceTypes'
    BY <1>1 DEF Crash, PlaceTypes, RunPlaces, Bound, Handling, Flushing
  <2>2. CopyTypes' /\ LocalTypes'
    BY <1>1, NothingFacts DEF Crash, CopyTypes, LocalTypes
  <2>3. TaskTypes' /\ FileTypes' /\ BudgetTypes'
    BY <1>1, TaskBounds DEF Crash, TaskTypes, FileTypes, BudgetTypes
  <2> QED BY <2>1, <2>2, <2>3
<1>2. CASE Restart
  <2>1. Recovered(stored) \in [Tasks -> Record]
    BY RecoveredFacts DEF FileTypes, TaskTypes
  <2>2. Entry("completed") \in Record
    BY DEF Entry, Record, Statuses
  <2>3. \A s \in {"ready", "lost"} : <<s>> \in Seq({"ready", "lost"})
    OBVIOUS
  <2>4. stored' \in [Tasks -> Record]
    BY <1>2, <2>1, <2>2 DEF Restart, FileTypes
  <2>5. messages' \in [Tasks -> Seq({"ready", "lost"})]
    <3>1. ASSUME NEW ready \in SUBSET Tasks,
                 \A t \in ready : Recovered(stored)[t].status \in {"ready", "lost"}
          PROVE  [t \in Tasks |-> IF t \in ready /\ messages[t] = <<>>
                                  THEN <<Recovered(stored)[t].status>> ELSE messages[t]]
                     \in [Tasks -> Seq({"ready", "lost"})]
      BY <2>3, <3>1 DEF FileTypes
    <3> QED BY <1>2, <3>1 DEF Restart, FileTypes
  <2>6. FileTypes'
    BY <1>2, <2>4, <2>5 DEF Restart, FileTypes
  <2>7. Failing \/ UNCHANGED budget
    BY <1>2 DEF Restart
  <2> QED BY <1>2, <2>6, <2>7, FailingFacts DEF Restart, PlaceTypes, CopyTypes, LocalTypes, TaskTypes
<1> QED BY <1>1, <1>2

-----------------------------------------------------------------------------
(* The invariant. *)

LEMMA LaterInit == TaskInit => Later
<1> SUFFICES ASSUME TaskInit PROVE Later
  OBVIOUS
<1>1. HeldOK /\ DownOK /\ BusyOK
  BY DEF TaskInit, HeldOK, Held, Left, DownOK, BusyOK, Taking
<1>2. InjectedOnce /\ CopiesOK /\ NowhereOK /\ EpochOK
  BY NothingFacts DEF TaskInit, InjectedOnce, CopiesOK, NowhereOK, EpochOK
<1> QED BY <1>1, <1>2 DEF Later

\* Saving a copy adds nothing to the file that a property would mind.
Saved(r) == stored' = stored \/ stored' = MergeAll(stored, copy[r])

LEMMA SavedFacts ==
    ASSUME TaskTypeOK, CopiesOK, EpochOK, NEW r \in SessionRuns, Saved(r)
    PROVE  \A t \in Tasks :
              /\ stored'[t].status = "completed" <=> stored[t].status = "completed"
              /\ stored[t].claim # NoOne =>
                    stored'[t].claim # NoOne \/ stored'[t].status = "completed"
              /\ stored[t].status = "absent" /\ copy[r][t].status = "absent" =>
                    stored'[t].status = "absent"
              /\ born[t] = crashes => stored'[t].status # "lost"
<1>1. CASE stored' = stored
  BY <1>1 DEF EpochOK
<1>2. CASE stored' = MergeAll(stored, copy[r])
  <2>1. stored \in [Tasks -> Record] /\ copy[r] \in [Tasks -> Record]
    BY DEF TaskTypeOK, FileTypes, CopyTypes
  <2>2. \A t \in Tasks :
          /\ stored'[t].status \in {stored[t].status, copy[r][t].status}
          /\ stored'[t].status = "completed" <=>
                stored[t].status = "completed" \/ copy[r][t].status = "completed"
          /\ stored[t].claim # NoOne /\ stored'[t].status # "completed" => stored'[t].claim # NoOne
    BY <1>2, <2>1, MergeAllFacts
  <2> QED BY <2>2 DEF CopiesOK, EpochOK
<1> QED BY <1>1, <1>2 DEF Saved

LEMMA SavedKeeps ==
    ASSUME IInv, NEW r \in SessionRuns, Saved(r),
           UNCHANGED <<up, copy, view, registry, messages, born, crashes>>,
           \A t \in Tasks : exec'[t] = "none" <=> exec[t] = "none"
    PROVE  InjectedOnce' /\ CopiesOK' /\ NowhereOK' /\ EpochOK'
<1> USE DEF IInv
<1>1. \A t \in Tasks :
         /\ stored'[t].status = "completed" <=> stored[t].status = "completed"
         /\ stored[t].status = "absent" /\ copy[r][t].status = "absent" =>
               stored'[t].status = "absent"
         /\ born[t] = crashes => stored'[t].status # "lost"
  BY SavedFacts
<1>2. InjectedOnce'
  BY <1>1 DEF InjectedOnce
<1>3. CopiesOK'
  BY <1>1 DEF CopiesOK
<1>4. NowhereOK'
  BY <1>1 DEF NowhereOK
<1>5. EpochOK'
  BY <1>1 DEF EpochOK
<1> QED BY <1>2, <1>3, <1>4, <1>5

LEMMA IdleKeeps ==
    ASSUME IInv, NEW r \in SessionRuns, Idle(r)
    PROVE  Later'
<1> USE DEF IInv
<1>1. InjectedOnce' /\ CopiesOK' /\ NowhereOK' /\ EpochOK'
  BY SavedKeeps DEF Idle, Saved
<1>2. runPc[r] \notin {"claim"} \cup Handling /\ runPc'[r] \notin {"claim"} \cup Handling
  BY DEF Idle, Aside, Places, TaskTypeOK, PlaceTypes
<1>3. \A q \in SessionRuns : q # r => runPc'[q] = runPc[q]
  BY DEF Idle, TaskTypeOK, PlaceTypes
<1>4. HeldOK'
  BY <1>2, <1>3 DEF HeldOK, Held, Left, Injecting, Handling, Idle
<1>5. DownOK'
  BY DEF Idle, DownOK
<1>6. BusyOK'
  <2>1. \A t \in Tasks :
          /\ stored'[t].status = "completed" <=> stored[t].status = "completed"
          /\ stored[t].claim # NoOne => stored'[t].claim # NoOne \/ stored'[t].status = "completed"
    BY SavedFacts DEF Idle, Saved
  <2>2. \A q \in SessionRuns, t \in Tasks : Taking(q, t)' <=> Taking(q, t)
    BY <1>2, <1>3 DEF Taking, Handling, Idle
  <2> QED BY <1>2, <1>3, <2>1, <2>2 DEF BusyOK, Handling, Idle
<1> QED BY <1>1, <1>4, <1>5, <1>6 DEF Later

\* A step of a run from and to a place outside a flush that leaves its results alone.
LEMMA MovedFree ==
    ASSUME IInv, NEW r \in SessionRuns, runPc[r] \in Aside, Moved(r), UNCHANGED <<up, taken, stored, todo, exec>>,
           \A q \in SessionRuns : q # r => copy'[q] = copy[q],
           todo[r] = {} 
    PROVE  HeldOK' /\ DownOK' /\ BusyOK'
<1> USE DEF IInv
<1>1. runPc[r] \notin {"claim"} \cup Handling /\ runPc'[r] \notin Handling
  BY DEF Moved, Aside, Places, TaskTypeOK, PlaceTypes
<1>2. \A q \in SessionRuns : q # r => runPc'[q] = runPc[q]
  BY DEF Moved, TaskTypeOK, PlaceTypes
<1>3. HeldOK'
  BY <1>1, <1>2 DEF HeldOK, Held, Left, Injecting, Handling
<1>4. DownOK'
  BY DEF Moved, DownOK
<1>5. BusyOK'
  BY <1>1, <1>2 DEF BusyOK, Taking, Handling
<1> QED BY <1>3, <1>4, <1>5

LEMMA LoadingKeeps ==
    ASSUME IInv, NEW r \in SessionRuns, Load(r) \/ Recover(r) \/ ReadSession(r) \/ Resync(r)
    PROVE  Later'
<1> USE DEF IInv, control, background, session
<1>1. Moved(r) /\ runPc[r] \in Aside
  BY LoadingTyped
<1>2. todo[r] = {}
  BY <1>1 DEF HeldOK, Held, Injecting, Aside, Places, Handling
<1>3. HeldOK' /\ DownOK' /\ BusyOK'
  <2>1. UNCHANGED <<up, taken, stored, todo, exec>> /\ \A q \in SessionRuns : q # r => copy'[q] = copy[q]
    BY DEF Load, Recover, ReadSession, Resync, TaskTypeOK, CopyTypes
  <2> QED BY <1>1, <1>2, <2>1, MovedFree
<1>4. UNCHANGED <<up, registry, exec, stored, messages, born, crashes>>
  BY DEF Load, Recover, ReadSession, Resync, Failing, budget
<1>5. InjectedOnce'
  BY <1>4 DEF InjectedOnce
<1>6. Recovered(view[r]) \in [Tasks -> Record] /\ copy[r] \in [Tasks -> Record]
  BY RecoveredFacts DEF TaskTypeOK, CopyTypes, TaskTypes
<1>7. \A t \in Tasks :
         /\ view[r][t].status = "absent" => Recovered(view[r])[t].status = "absent"
         /\ Recovered(view[r])[t].status = "completed" <=> view[r][t].status = "completed"
         /\ Recovered(view[r])[t].status = "lost" =>
               \/ view[r][t].status = "lost"
               \/ view[r][t].status # "absent" /\ registry[t] = "absent"
  BY RecoveredFacts DEF TaskTypeOK, CopyTypes, TaskTypes
<1>8. \A t \in Tasks :
         /\ MergeAll(copy[r], Recovered(view[r]))[t].status
               \in {copy[r][t].status, Recovered(view[r])[t].status}
  BY <1>6, MergeAllFacts
<1>9. \/ copy' = copy
      \/ copy' = [copy EXCEPT ![r] = Recovered(view[r])]
      \/ copy' = [copy EXCEPT ![r] = MergeAll(copy[r], Recovered(view[r]))]
  BY DEF Load, Recover, ReadSession, Resync
<1>10. view' = view \/ view' = [view EXCEPT ![r] = stored] \/ view' = [view EXCEPT ![r] = Nothing]
  BY DEF Load, Recover, ReadSession, Resync
<1>11. \A q \in SessionRuns, t \in Tasks :
         \/ view'[q][t].status = view[q][t].status
         \/ view'[q][t].status = stored[t].status
         \/ view'[q][t].status = "absent"
  BY <1>10, NothingFacts DEF TaskTypeOK, CopyTypes
<1>12. \A q \in SessionRuns, t \in Tasks :
         \/ copy'[q][t].status = copy[q][t].status
         \/ q = r /\ copy'[q][t].status = Recovered(view[r])[t].status
  BY <1>8, <1>9 DEF TaskTypeOK, CopyTypes
<1>13. CopiesOK'
  BY <1>4, <1>7, <1>11, <1>12 DEF CopiesOK
<1>14. NowhereOK'
  BY <1>4, <1>7, <1>11, <1>12 DEF NowhereOK
<1>15. EpochOK'
  <2> SUFFICES ASSUME NEW t \in Tasks, born[t] = crashes, NEW q \in SessionRuns
               PROVE  /\ view'[q][t].status # "lost"
                      /\ copy'[q][t].status = "lost" => stored[t].status = "completed"
    BY <1>4 DEF EpochOK
  <2>1. view'[q][t].status # "lost"
    BY <1>11 DEF EpochOK
  <2>2. Recovered(view[r])[t].status = "lost" => stored[t].status = "completed"
    BY <1>7 DEF EpochOK, NowhereOK
  <2> QED BY <2>1, <2>2, <1>12 DEF EpochOK
<1> QED BY <1>3, <1>5, <1>13, <1>14, <1>15 DEF Later

LEMMA MergingKeeps ==
    ASSUME IInv, NEW r \in SessionRuns, MergeRuntime(r)
    PROVE  Later'
<1> USE DEF IInv, control, background, session, budget
<1>1. /\ up /\ runPc[r] = "merge" /\ runPc' = [runPc EXCEPT ![r] = "claim"]
      /\ copy' = [copy EXCEPT ![r] = MergeAll(copy[r], Runtime)]
      /\ todo' = [todo EXCEPT ![r] = {t \in Tasks : IsReady(copy'[r][t])}]
      /\ UNCHANGED <<up, taken, view, stored, messages, registry, exec, born, crashes>>
  BY DEF MergeRuntime, ToPlace
<1>2. \A t \in Tasks :
         /\ MergeAll(copy[r], Runtime)[t].status \in {copy[r][t].status, registry[t]}
         /\ MergeAll(copy[r], Runtime)[t].status = "completed" <=> copy[r][t].status = "completed"
  <2>1. copy[r] \in [Tasks -> Record]
    BY DEF TaskTypeOK, CopyTypes
  <2> QED BY <2>1, MergeAllFacts, RuntimeFacts DEF TaskTypeOK, TaskTypes
<1>3. \A q \in SessionRuns, t \in Tasks :
         \/ copy'[q][t] = copy[q][t] /\ q # r
         \/ /\ q = r /\ copy'[q][t].status \in {copy[r][t].status, registry[t]}
            /\ copy'[q][t].status = "completed" <=> copy[q][t].status = "completed"
  BY <1>1, <1>2 DEF TaskTypeOK, CopyTypes
<1>4. HeldOK'
  <2>1. \A q \in SessionRuns : q # r =>
           runPc'[q] = runPc[q] /\ copy'[q] = copy[q] /\ todo'[q] = todo[q] /\ taken'[q] = taken[q]
    BY <1>1 DEF TaskTypeOK, CopyTypes, LocalTypes, PlaceTypes
  <2>2. runPc'[r] = "claim" /\ todo'[r] = {t \in Tasks : IsReady(copy'[r][t])}
    BY <1>1 DEF TaskTypeOK, LocalTypes, PlaceTypes
  <2> QED BY <1>1, <2>1, <2>2 DEF HeldOK, Held, Left, Injecting, IsReady
<1>5. BusyOK' /\ DownOK' /\ InjectedOnce'
  BY <1>1 DEF BusyOK, DownOK, InjectedOnce, Taking, TaskTypeOK, PlaceTypes
<1>6. CopiesOK'
  BY <1>1, <1>3 DEF CopiesOK
<1>7. NowhereOK'
  BY <1>1, <1>3 DEF NowhereOK
<1>8. EpochOK'
  BY <1>1, <1>3 DEF EpochOK, TaskTypeOK, TaskTypes
<1> QED BY <1>4, <1>5, <1>6, <1>7, <1>8 DEF Later

LEMMA ClaimKeeps ==
    ASSUME IInv, NEW r \in SessionRuns, NEW t \in Tasks, ClaimResult(r, t)
    PROVE  Later'
<1> USE DEF IInv, control, background, session, budget
<1>1. /\ up /\ runPc[r] = "claim" /\ t \in todo[r]
      /\ UNCHANGED <<up, copy, view, messages, registry, exec, born, crashes>>
  BY DEF ClaimResult, ToPlace, Failing
<1>2. \/ stored' = stored
      \/ Claimable(stored[t]) /\ stored' = [stored EXCEPT ![t].claim = r]
  BY DEF ClaimResult
<1>3. \A k \in Tasks :
         /\ stored'[k].status = stored[k].status
         /\ stored[k].claim # NoOne => stored'[k].claim # NoOne
  BY <1>2, TaskAssumption DEF TaskTypeOK, FileTypes, Record
<1>4. InjectedOnce' /\ CopiesOK' /\ NowhereOK'
  BY <1>1, <1>3 DEF InjectedOnce, CopiesOK, NowhereOK
<1>5. EpochOK'
  BY <1>1, <1>3 DEF EpochOK
<1>6. DownOK'
  BY <1>1 DEF DownOK
<1>7. \/ /\ runPc' = [runPc EXCEPT ![r] = "inject"] /\ taken' = [taken EXCEPT ![r] = t]
         /\ UNCHANGED todo
         /\ Claimable(stored[t]) /\ stored' = [stored EXCEPT ![t].claim = r]
      \/ /\ runPc' = [runPc EXCEPT ![r] = "settle"] /\ UNCHANGED taken
         /\ todo' = [todo EXCEPT ![r] = {}]
      \/ UNCHANGED <<runPc, taken>> /\ todo' = [todo EXCEPT ![r] = todo[r] \ {t}]
  BY DEF ClaimResult, ToPlace
<1>8. HeldOK'
  BY <1>1, <1>7 DEF HeldOK, Held, Left, Injecting, TaskTypeOK, PlaceTypes, LocalTypes
<1>9. BusyOK'
  <2>1. CASE /\ runPc' = [runPc EXCEPT ![r] = "inject"] /\ taken' = [taken EXCEPT ![r] = t]
             /\ Claimable(stored[t]) /\ stored' = [stored EXCEPT ![t].claim = r]
    <3>1. stored[t].claim = NoOne /\ stored[t].status # "completed" /\ stored'[t].claim # NoOne
      BY <2>1, TaskAssumption DEF Claimable, TaskTypeOK, FileTypes, Record
    <3>2. \A q \in SessionRuns : q # r => runPc'[q] = runPc[q] /\ taken'[q] = taken[q]
      BY <2>1 DEF TaskTypeOK, PlaceTypes
    <3>3. runPc'[r] = "inject" /\ taken'[r] = t
      BY <2>1 DEF TaskTypeOK, PlaceTypes
    <3> QED BY <1>3, <3>1, <3>2, <3>3 DEF BusyOK, Taking
  <2>2. CASE runPc' = [runPc EXCEPT ![r] = "settle"] /\ UNCHANGED taken
    BY <1>1, <1>3, <2>2 DEF BusyOK, Taking, TaskTypeOK, PlaceTypes
  <2>3. CASE UNCHANGED <<runPc, taken>>
    BY <1>3, <2>3 DEF BusyOK, Taking
  <2> QED BY <1>7, <2>1, <2>2, <2>3
<1> QED BY <1>4, <1>5, <1>6, <1>8, <1>9 DEF Later

LEMMA InjectKeeps ==
    ASSUME IInv, NEW r \in SessionRuns, Inject(r)
    PROVE  Later'
<1> USE DEF IInv, control, background, session, budget
<1> DEFINE t == taken[r]
<1>1. /\ up /\ runPc[r] = "inject" /\ t \in Tasks /\ t \in todo[r]
      /\ copy[r][t].status \in {"ready", "lost"}
      /\ stored[t].status # "completed" /\ messages[t] = <<>>
      /\ UNCHANGED <<up, taken, todo, view, registry, exec, born, crashes>>
  BY DEF Inject, ToPlace, Failing, HeldOK, Held, Left, TaskTypeOK, PlaceTypes, LocalTypes, Handling, BusyOK,
     Taking, InjectedOnce
<1>2. /\ stored \in [Tasks -> Record] /\ copy[r] \in [Tasks -> Record]
      /\ Completed(copy[r], t) \in [Tasks -> Record]
      /\ Completed(copy[r], t)[t].status = "completed"
      /\ \A k \in Tasks \ {t} : Completed(copy[r], t)[k] = copy[r][k]
  <2>1. stored \in [Tasks -> Record] /\ copy[r] \in [Tasks -> Record]
    BY DEF TaskTypeOK, FileTypes, CopyTypes
  <2> QED BY <1>1, <2>1, CompletedFacts
<1>3. \/ /\ stored' = MergeAll(stored, Completed(copy[r], t))
         /\ messages' = [messages EXCEPT ![t] = Append(messages[t], copy[r][t].status)]
         /\ copy' = copy \/ copy' = [copy EXCEPT ![r] = Completed(copy[r], t)]
      \/ UNCHANGED <<stored, messages, copy>>
  BY DEF Inject
<1>4. \E p \in {"reclaim", "release", "retract"} :
         /\ runPc' = [runPc EXCEPT ![r] = p]
         /\ p = "reclaim" => stored' = MergeAll(stored, Completed(copy[r], t))
         /\ p = "retract" => stored' = stored
  BY DEF Inject, ToPlace
<1>5. \A k \in Tasks :
         \/ stored'[k] = stored[k] /\ stored' = stored
         \/ /\ stored'[k].status = "completed" <=> k = t \/ stored[k].status = "completed"
            /\ stored'[k].status \in {stored[k].status, copy[r][k].status, "completed"}
            /\ stored[k].claim # NoOne =>
                  stored'[k].claim # NoOne \/ stored'[k].status = "completed"
  <2>1. CASE stored' = stored
    BY <2>1
  <2>2. CASE stored' = MergeAll(stored, Completed(copy[r], t))
    <3>1. \A k \in Tasks :
            /\ stored'[k].status \in {stored[k].status, Completed(copy[r], t)[k].status}
            /\ stored'[k].status = "completed" <=>
                   stored[k].status = "completed" \/ Completed(copy[r], t)[k].status = "completed"
            /\ stored[k].claim # NoOne /\ stored'[k].status # "completed" => stored'[k].claim # NoOne
      BY <1>2, <2>2, MergeAllFacts
    <3> QED BY <1>2, <3>1 DEF CopiesOK
  <2> QED BY <1>3, <2>1, <2>2
<1>6. \A k \in Tasks :
         \/ messages'[k] = messages[k] /\ (k # t \/ stored' = stored)
         \/ k = t /\ messages'[k] = <<copy[r][t].status>> /\ stored'[t].status = "completed"
  <2>1. CASE UNCHANGED <<stored, messages>>
    BY <2>1
  <2>2. CASE /\ stored' = MergeAll(stored, Completed(copy[r], t))
             /\ messages' = [messages EXCEPT ![t] = Append(messages[t], copy[r][t].status)]
    <3>1. stored'[t].status = "completed"
      BY <1>1, <1>2, <2>2, MergeAllFacts
    <3>2. Append(messages[t], copy[r][t].status) = <<copy[r][t].status>>
      BY <1>1
    <3> QED BY <1>1, <2>2, <3>1, <3>2 DEF TaskTypeOK, FileTypes
  <2> QED BY <1>3, <2>1, <2>2
<1>7. \A q \in SessionRuns, k \in Tasks :
         \/ copy'[q][k] = copy[q][k]
         \/ /\ q = r /\ k = t /\ copy'[q][k].status = "completed"
            /\ stored'[k].status = "completed" /\ copy[q][k].status \in {"ready", "lost"}
  <2>1. CASE copy' = copy
    BY <2>1
  <2>2. CASE /\ stored' = MergeAll(stored, Completed(copy[r], t))
             /\ copy' = [copy EXCEPT ![r] = Completed(copy[r], t)]
    <3>1. stored'[t].status = "completed"
      BY <1>1, <1>2, <2>2, MergeAllFacts
    <3> QED BY <1>1, <1>2, <2>2, <3>1 DEF TaskTypeOK, CopyTypes
  <2> QED BY <1>3, <2>1, <2>2
<1>8. InjectedOnce'
  <2> SUFFICES ASSUME NEW k \in Tasks
               PROVE  Len(messages'[k]) <= 1 /\ (stored'[k].status = "completed" <=> messages'[k] # <<>>)
    BY DEF InjectedOnce
  <2>1. CASE messages'[k] = messages[k] /\ (k # t \/ stored' = stored)
    BY <1>5, <2>1 DEF InjectedOnce
  <2>2. CASE k = t /\ messages'[k] = <<copy[r][t].status>> /\ stored'[t].status = "completed"
    BY <2>2
  <2> QED BY <1>6, <2>1, <2>2
<1>9. CopiesOK'
  BY <1>1, <1>5, <1>7 DEF CopiesOK
<1>10. NowhereOK'
  BY <1>1, <1>5, <1>6, <1>7 DEF NowhereOK
<1>11. EpochOK'
  <2>1. \A k \in Tasks : born[k] = crashes => stored'[k].status # "lost"
    BY <1>1, <1>5 DEF EpochOK
  <2>2. \A k \in Tasks : born[k] = crashes => \A i \in DOMAIN messages'[k] : messages'[k][i] # "lost"
    <3> SUFFICES ASSUME NEW k \in Tasks, born[k] = crashes, NEW i \in DOMAIN messages'[k]
                 PROVE  messages'[k][i] # "lost"
      OBVIOUS
    <3>1. CASE messages'[k] = messages[k]
      BY <3>1 DEF EpochOK
    <3>2. CASE k = t /\ messages'[k] = <<copy[r][t].status>>
      <4>1. copy[r][t].status = "ready"
        BY <1>1, <3>2 DEF EpochOK
      <4> QED BY <3>2, <4>1
    <3> QED BY <1>6, <3>1, <3>2
  <2> QED BY <1>1, <1>5, <1>7, <2>1, <2>2 DEF EpochOK
<1>12. DownOK'
  BY <1>1 DEF DownOK
<1>13. HeldOK'
  <2>1. \A q \in SessionRuns : q # r => runPc'[q] = runPc[q] /\ copy'[q] = copy[q]
    BY <1>3, <1>4 DEF TaskTypeOK, PlaceTypes, CopyTypes
  <2>2. runPc'[r] \in {"reclaim", "release", "retract"}
    BY <1>4 DEF TaskTypeOK, PlaceTypes
  <2>3. copy'[r] = copy[r] \/ runPc'[r] = "reclaim"
    BY <1>3 DEF Inject, ToPlace, TaskTypeOK, PlaceTypes
  <2>4. \A k \in Tasks \ {t} : copy'[r][k] = copy[r][k]
    BY <1>7
  <2>5. Held(r)'
    BY <1>1, <2>2, <2>3, <2>4 DEF HeldOK, Held, Left, Injecting, TaskTypeOK, LocalTypes
  <2> QED BY <1>1, <2>1, <2>5 DEF HeldOK, Held, Left
<1>14. BusyOK'
  <2>1. \A q \in SessionRuns : q # r => runPc'[q] = runPc[q]
    BY <1>4 DEF TaskTypeOK, PlaceTypes
  <2>2. runPc'[r] \in {"reclaim", "release", "retract"}
    BY <1>4 DEF TaskTypeOK, PlaceTypes
  <2>3. runPc'[r] = "reclaim" => stored'[t].status = "completed"
    BY <1>1, <1>2, <1>4, MergeAllFacts DEF TaskTypeOK, PlaceTypes
  <2>4. \A q \in SessionRuns, k \in Tasks : Taking(q, k)' => Taking(q, k)
    BY <1>1, <2>1, <2>2 DEF Taking
  <2>5. \A q \in SessionRuns, k \in Tasks : Taking(q, k) =>
           stored'[k].claim # NoOne \/ stored'[k].status = "completed"
    BY <1>5 DEF BusyOK
  <2>6. \A q \in SessionRuns, k \in Tasks :
           Taking(q, k)' /\ runPc'[q] = "inject" => stored'[k].status # "completed"
    BY <1>1, <1>5, <2>1, <2>2 DEF BusyOK, Taking
  <2>7. \A q \in SessionRuns, k \in Tasks :
           runPc'[q] = "reclaim" /\ taken'[q] = k => stored'[k].status = "completed"
    BY <1>1, <1>5, <2>1, <2>3 DEF BusyOK
  <2>8. \A q, p \in SessionRuns, k \in Tasks : Taking(q, k)' /\ Taking(p, k)' => q = p
    BY <2>4 DEF BusyOK
  <2> QED BY <2>4, <2>5, <2>6, <2>7, <2>8 DEF BusyOK
<1> QED BY <1>8, <1>9, <1>10, <1>11, <1>12, <1>13, <1>14 DEF Later

LEMMA ReturningKeeps ==
    ASSUME IInv, NEW r \in SessionRuns, Reclaim(r) \/ Release(r)
    PROVE  Later'
<1> USE DEF IInv, control, background, session, budget
<1>1. Moved(r) /\ taken[r] \in Tasks
  BY ReturningTyped
<1>2. /\ up /\ taken' = [taken EXCEPT ![r] = NoOne]
      /\ UNCHANGED <<up, copy, view, messages, exec, born, crashes>>
  BY DEF Reclaim, Release, ToPlace, Failing
<1>3. /\ \A q \in SessionRuns : q # r => runPc'[q] = runPc[q] /\ taken'[q] = taken[q] /\ todo'[q] = todo[q]
      /\ taken'[r] = NoOne /\ runPc'[r] \in {"claim", "settle", "reload"}
  BY <1>1 DEF Reclaim, Release, ToPlace, TaskTypeOK, PlaceTypes, LocalTypes
<1>4. DownOK'
  BY <1>2 DEF DownOK
<1>5. CASE Reclaim(r)
  <2>1. /\ runPc[r] = "reclaim" /\ registry' = [registry EXCEPT ![taken[r]] = "absent"]
        /\ todo' = [todo EXCEPT ![r] = todo[r] \ {taken[r]}] /\ stored' = stored
        /\ runPc'[r] = "claim"
    BY <1>5 DEF Reclaim, ToPlace, TaskTypeOK, PlaceTypes
  <2>2. HeldOK'
    BY <1>2, <1>3, <2>1 DEF HeldOK, Held, Left, Injecting, TaskTypeOK, LocalTypes
  <2>3. BusyOK'
    BY <1>2, <1>3, <2>1 DEF BusyOK, Taking
  <2>4. InjectedOnce' /\ CopiesOK'
    BY <1>2, <2>1 DEF InjectedOnce, CopiesOK
  <2>5. stored[taken[r]].status = "completed"
    BY <1>1, <2>1 DEF BusyOK
  <2>6. NowhereOK' /\ EpochOK'
    BY <1>2, <2>1, <2>5 DEF NowhereOK, EpochOK, TaskTypeOK, TaskTypes
  <2> QED BY <1>4, <2>2, <2>3, <2>4, <2>6 DEF Later
<1>6. CASE Release(r)
  <2>1. /\ runPc[r] \in {"release", "retract"} /\ todo' = [todo EXCEPT ![r] = {}]
        /\ runPc'[r] \in {"settle", "reload"} /\ registry' = registry
    BY <1>6 DEF Release, ToPlace, TaskTypeOK, PlaceTypes
  <2>2. stored' = stored \/ stored' = [stored EXCEPT ![taken[r]].claim = NoOne]
    BY <1>6 DEF Release
  <2>3. \A t \in Tasks :
          /\ stored'[t].status = stored[t].status
          /\ t # taken[r] => stored'[t] = stored[t]
    BY <1>1, <2>2 DEF TaskTypeOK, FileTypes, Record
  <2>4. HeldOK'
    BY <1>2, <1>3, <2>1 DEF HeldOK, Held, Left, Injecting, TaskTypeOK, LocalTypes
  <2>5. BusyOK'
    <3>1. \A q \in SessionRuns, t \in Tasks : Taking(q, t)' => Taking(q, t) /\ q # r
      BY <1>1, <1>3, <2>1 DEF Taking
    <3>2. \A q \in SessionRuns, t \in Tasks : Taking(q, t)' => t # taken[r]
      BY <1>1, <2>1, <3>1 DEF BusyOK, Taking
    <3>3. \A q \in SessionRuns, t \in Tasks : Taking(q, t)' =>
             /\ stored'[t].claim # NoOne \/ stored'[t].status = "completed"
             /\ runPc'[q] = "inject" => stored'[t].status # "completed"
      <4> SUFFICES ASSUME NEW q \in SessionRuns, NEW t \in Tasks, Taking(q, t)'
                   PROVE  /\ stored'[t].claim # NoOne \/ stored'[t].status = "completed"
                          /\ runPc'[q] = "inject" => stored'[t].status # "completed"
        OBVIOUS
      <4>1. t # taken[r] /\ Taking(q, t) /\ q # r
        BY <3>1, <3>2
      <4>2. runPc'[q] = runPc[q] /\ stored'[t] = stored[t]
        BY <1>3, <2>3, <4>1
      <4> QED BY <4>1, <4>2 DEF BusyOK
    <3>4. \A q \in SessionRuns, t \in Tasks :
             runPc'[q] = "reclaim" /\ taken'[q] = t => stored'[t].status = "completed"
      BY <1>3, <2>1, <2>3 DEF BusyOK
    <3>5. \A q, p \in SessionRuns, t \in Tasks : Taking(q, t)' /\ Taking(p, t)' => q = p
      BY <3>1 DEF BusyOK
    <3> QED BY <3>3, <3>4, <3>5 DEF BusyOK
  <2>6. InjectedOnce' /\ CopiesOK'
    BY <1>2, <2>3 DEF InjectedOnce, CopiesOK
  <2>7. NowhereOK' /\ EpochOK'
    BY <1>2, <2>1, <2>3 DEF NowhereOK, EpochOK
  <2> QED BY <1>4, <2>4, <2>5, <2>6, <2>7 DEF Later
<1> QED BY <1>5, <1>6

LEMMA FlushedKeeps ==
    ASSUME IInv, NEW r \in SessionRuns, Flushed(r)
    PROVE  Later'
<1> USE DEF IInv, control, background, session, budget
<1>1. /\ Moved(r) /\ runPc[r] = "claim" /\ runPc'[r] \in Aside /\ todo[r] = {}
      /\ UNCHANGED <<up, todo, taken, copy, view, stored, messages, registry, exec, born, crashes>>
  BY FlushedTyped DEF Flushed
<1>2. /\ runPc'[r] \notin {"claim"} \cup Handling
      /\ \A q \in SessionRuns : q # r => runPc'[q] = runPc[q]
  BY <1>1 DEF Moved, Aside, Places, TaskTypeOK, PlaceTypes
<1>3. HeldOK'
  BY <1>1, <1>2 DEF HeldOK, Held, Left, Injecting, Handling
<1>4. BusyOK'
  BY <1>1, <1>2 DEF BusyOK, Taking, Handling
<1>5. DownOK' /\ InjectedOnce' /\ CopiesOK' /\ NowhereOK' /\ EpochOK'
  BY <1>1 DEF Moved, DownOK, InjectedOnce, CopiesOK, NowhereOK, EpochOK
<1> QED BY <1>3, <1>4, <1>5 DEF Later

LEMMA AcceptKeeps ==
    ASSUME IInv, NEW r \in SessionRuns, NEW t \in Tasks, Accept(r, t)
    PROVE  Later'
<1> USE DEF IInv, control, background, session, budget
<1>1. /\ up /\ runPc[r] = "work" /\ runPc' = [runPc EXCEPT ![r] = "accept"] /\ exec[t] = "none"
      /\ exec' = [exec EXCEPT ![t] = "accepted"]
      /\ registry' = [registry EXCEPT ![t] = "pending"]
      /\ copy' = [copy EXCEPT ![r][t] = Entry("pending")]
      /\ taken' = [taken EXCEPT ![r] = t]
      /\ born' = [born EXCEPT ![t] = crashes]
      /\ UNCHANGED <<up, todo, view, stored, messages, crashes>>
  BY DEF Accept, ToPlace
<1>2. /\ \A q \in SessionRuns : q # r => runPc'[q] = runPc[q] /\ taken'[q] = taken[q] /\ copy'[q] = copy[q]
      /\ runPc'[r] = "accept" /\ taken'[r] = t
      /\ \A k \in Tasks : k # t => copy'[r][k] = copy[r][k]
      /\ copy'[r][t].status = "pending"
  BY <1>1 DEF TaskTypeOK, PlaceTypes, CopyTypes, Entry
<1>3. /\ \A k \in Tasks : k # t =>
            exec'[k] = exec[k] /\ registry'[k] = registry[k] /\ born'[k] = born[k]
      /\ exec'[t] = "accepted" /\ registry'[t] = "pending" /\ born'[t] = crashes
  BY <1>1 DEF TaskTypeOK, TaskTypes, FileTypes
<1>4. HeldOK'
  <2>1. \A q \in SessionRuns : q # r => Held(q)'
    BY <1>1, <1>2, <1>3 DEF HeldOK, Held, Left, TaskTypeOK, PlaceTypes, Handling
  <2>2. Held(r)'
    BY <1>1, <1>2, <1>3 DEF HeldOK, Held, Left, Injecting
  <2> QED BY <2>1, <2>2 DEF HeldOK
<1>5. BusyOK' /\ DownOK' /\ InjectedOnce'
  BY <1>1, <1>2 DEF BusyOK, Taking, DownOK, InjectedOnce
<1>6. CopiesOK'
  BY <1>1, <1>2 DEF CopiesOK
<1>7. NowhereOK'
  BY <1>1, <1>2, <1>3 DEF NowhereOK
<1>8. EpochOK'
  <2> SUFFICES ASSUME NEW k \in Tasks
               PROVE  /\ born'[k] <= crashes
                      /\ born'[k] = crashes =>
                          /\ stored[k].status # "lost"
                          /\ \A i \in DOMAIN messages[k] : messages[k][i] # "lost"
                          /\ exec'[k] # "none" /\ registry'[k] = "absent" =>
                                 stored[k].status = "completed"
                          /\ \A q \in SessionRuns :
                                /\ view[q][k].status # "lost"
                                /\ copy'[q][k].status = "lost" => stored[k].status = "completed"
    BY <1>1 DEF EpochOK
  <2>1. CASE k = t
    <3>1. stored[t].status = "absent" /\ messages[t] = <<>>
      BY <1>1 DEF NowhereOK
    <3>2. \A q \in SessionRuns : view[q][t].status = "absent" /\ copy'[q][t].status \in {"absent", "pending"}
      BY <1>1, <1>2 DEF NowhereOK
    <3> QED BY <1>3, <2>1, <3>1, <3>2 DEF TaskTypeOK, BudgetTypes
  <2>2. CASE k # t
    BY <1>2, <1>3, <2>2 DEF EpochOK
  <2> QED BY <2>1, <2>2
<1> QED BY <1>4, <1>5, <1>6, <1>7, <1>8 DEF Later

LEMMA AcceptSavedKeeps ==
    ASSUME IInv, NEW r \in SessionRuns, AcceptSaved(r)
    PROVE  Later'
<1> USE DEF IInv, control, background, session, budget
<1>1. /\ up /\ runPc[r] = "accept" /\ taken[r] \in Tasks /\ Saved(r)
      /\ \E p \in Aside : runPc' = [runPc EXCEPT ![r] = p]
      /\ taken' = [taken EXCEPT ![r] = NoOne]
      /\ UNCHANGED <<up, todo, copy, view, registry, messages, born, crashes>>
  BY AcceptSavedTyped DEF AcceptSaved, Saved
<1>2. exec[taken[r]] # "none"
  BY <1>1 DEF HeldOK, Held
<1>3. \A t \in Tasks : exec'[t] = "none" <=> exec[t] = "none"
  BY <1>1, <1>2 DEF AcceptSaved, TaskTypeOK, TaskTypes
<1>4. InjectedOnce' /\ CopiesOK' /\ NowhereOK' /\ EpochOK'
  BY <1>1, <1>3, SavedKeeps
<1>5. /\ runPc'[r] \notin {"claim"} \cup Handling /\ taken'[r] = NoOne
      /\ \A q \in SessionRuns : q # r => runPc'[q] = runPc[q] /\ taken'[q] = taken[q]
  BY <1>1 DEF Aside, Places, TaskTypeOK, PlaceTypes
<1>6. \A t \in Tasks :
         /\ stored'[t].status = "completed" <=> stored[t].status = "completed"
         /\ stored[t].claim # NoOne => stored'[t].claim # NoOne \/ stored'[t].status = "completed"
  BY <1>1, SavedFacts
<1>7. HeldOK'
  <2>1. \A q \in SessionRuns : q # r => Held(q)'
    BY <1>1, <1>3, <1>5 DEF HeldOK, Held, Left, TaskTypeOK, PlaceTypes, Handling
  <2>2. Held(r)'
    BY <1>1, <1>5 DEF HeldOK, Held, Left, Injecting, Handling
  <2> QED BY <2>1, <2>2 DEF HeldOK
<1>8. BusyOK'
  <2>1. \A q \in SessionRuns, t \in Tasks : Taking(q, t)' => Taking(q, t)
    BY <1>1, <1>5 DEF Taking, Handling
  <2> QED BY <1>5, <1>6, <2>1 DEF BusyOK, Handling
<1>9. DownOK'
  BY <1>1 DEF DownOK
<1> QED BY <1>4, <1>7, <1>8, <1>9 DEF Later

LEMMA ClosingKeeps ==
    ASSUME IInv, NEW r \in SessionRuns, Close(r) \/ CancelContext(r)
    PROVE  Later'
<1> USE DEF IInv, control, background, session, budget
<1>1. CASE Close(r)
  <2>1. /\ runPc[r] \in Aside /\ Moved(r)
        /\ UNCHANGED <<up, todo, taken, view, stored, messages, registry, exec, born, crashes>>
        /\ copy' = [copy EXCEPT ![r] = Nothing]
    BY <1>1 DEF Close, ToPlace, Moved, Aside, Places, RunPlaces, Bound, Flushing, Handling
  <2>2. todo[r] = {}
    BY <2>1 DEF HeldOK, Held, Injecting, Aside, Places, Handling
  <2>3. \A q \in SessionRuns : q # r => copy'[q] = copy[q]
    BY <2>1 DEF TaskTypeOK, CopyTypes
  <2>4. HeldOK' /\ DownOK' /\ BusyOK'
    BY <2>1, <2>2, <2>3, MovedFree
  <2>5. \A q \in SessionRuns, t \in Tasks : copy'[q][t] = copy[q][t] \/ copy'[q][t].status = "absent"
    BY <2>1, NothingFacts DEF TaskTypeOK, CopyTypes
  <2>6. InjectedOnce' /\ CopiesOK' /\ NowhereOK' /\ EpochOK'
    BY <2>1, <2>5 DEF InjectedOnce, CopiesOK, NowhereOK, EpochOK
  <2> QED BY <2>4, <2>6 DEF Later
<1>2. CASE CancelContext(r)
  BY <1>2 DEF CancelContext, Later, HeldOK, Held, Left, DownOK, BusyOK, Taking, InjectedOnce, CopiesOK,
     NowhereOK, EpochOK
<1> QED BY <1>1, <1>2

LEMMA TaskKeeps ==
    ASSUME IInv, NEW t \in Tasks, TaskStep(t)
    PROVE  Later'
<1> USE DEF IInv, control, background, session, budget
<1>1. /\ up /\ UNCHANGED <<up, todo, taken, copy, view, stored, messages, born, crashes>>
      /\ \A k \in Tasks : exec'[k] = "none" <=> exec[k] = "none"
      /\ \A k \in Tasks : registry'[k] = registry[k] \/ (registry'[k] # "absent" /\ exec[k] # "none")
  BY DEF TaskStep, ExecStart, ExecFinish, Notify, Continue, TaskTypeOK, TaskTypes
<1>2. runPc' = runPc \/ \E r \in SessionRuns : runPc[r] = "none" /\ runPc' = [runPc EXCEPT ![r] = "load"]
  BY DEF TaskStep, ExecStart, ExecFinish, Notify, Continue, ToPlace
<1>3. \A r \in SessionRuns : runPc'[r] = runPc[r] \/ (runPc[r] = "none" /\ runPc'[r] = "load")
  BY <1>2 DEF TaskTypeOK, PlaceTypes
<1>4. HeldOK'
  BY <1>1, <1>3 DEF HeldOK, Held, Left, Injecting, TaskTypeOK, PlaceTypes, Handling
<1>5. BusyOK'
  BY <1>1, <1>3 DEF BusyOK, Taking
<1>6. DownOK' /\ InjectedOnce' /\ CopiesOK'
  BY <1>1 DEF DownOK, InjectedOnce, CopiesOK
<1>7. NowhereOK' /\ EpochOK'
  BY <1>1 DEF NowhereOK, EpochOK
<1> QED BY <1>4, <1>5, <1>6, <1>7 DEF Later

LEMMA ProcessKeeps ==
    ASSUME IInv, Crash \/ Restart
    PROVE  Later'
<1> USE DEF IInv, control, background, session, budget
<1>1. CASE Crash
  <2>1. HeldOK' /\ DownOK' /\ BusyOK'
    BY <1>1 DEF Crash, HeldOK, Held, Left, Injecting, DownOK, BusyOK, Taking
  <2>2. InjectedOnce' /\ CopiesOK'
    BY <1>1, NothingFacts DEF Crash, InjectedOnce, CopiesOK
  <2>3. NowhereOK'
    BY <1>1, NothingFacts DEF Crash, NowhereOK
  <2>4. EpochOK'
    BY <1>1 DEF Crash, EpochOK, TaskTypeOK, FileTypes, BudgetTypes
  <2> QED BY <2>1, <2>2, <2>3, <2>4 DEF Later
<1>2. CASE Restart
  <2>1. /\ ~up /\ up'
        /\ UNCHANGED <<runPc, taken, todo, copy, view, registry, exec, born, crashes>>
    BY <1>2 DEF Restart, Failing
  <2>2. HeldOK' /\ DownOK' /\ BusyOK'
    BY <2>1 DEF HeldOK, Held, Left, DownOK, BusyOK, Taking
  <2>3. \A t \in Tasks :
          /\ Recovered(stored)[t].status = "completed" <=> stored[t].status = "completed"
          /\ stored[t].status = "absent" => Recovered(stored)[t].status = "absent"
    BY RecoveredFacts DEF TaskTypeOK, FileTypes, TaskTypes
  <2>4. \A t \in Tasks :
          \/ stored'[t] = stored[t] /\ messages'[t] = messages[t]
          \/ /\ Recovered(stored)[t].status \in {"ready", "lost"}
             /\ stored'[t].status = "completed"
             /\ \/ messages[t] # <<>> /\ messages'[t] = messages[t]
                \/ messages'[t] = <<Recovered(stored)[t].status>>
          \/ /\ Recovered(stored)[t].status \notin {"ready", "lost"}
             /\ stored'[t].status = Recovered(stored)[t].status /\ messages'[t] = messages[t]
    BY <1>2 DEF Restart, Entry
  <2>5. InjectedOnce'
    <3> SUFFICES ASSUME NEW t \in Tasks
                 PROVE  Len(messages'[t]) <= 1 /\ (stored'[t].status = "completed" <=> messages'[t] # <<>>)
      BY DEF InjectedOnce
    <3>1. Len(messages[t]) <= 1 /\ (stored[t].status = "completed" <=> messages[t] # <<>>)
      BY DEF InjectedOnce
    <3>2. \A s \in {"ready", "lost"} : Len(<<s>>) <= 1 /\ <<s>> # <<>>
      OBVIOUS
    <3> QED BY <2>3, <2>4, <3>1, <3>2
  <2>6. CopiesOK'
    BY <2>1, <2>3, <2>4 DEF CopiesOK
  <2>7. NowhereOK'
    BY <2>1, <2>3, <2>4 DEF NowhereOK
  <2>8. EpochOK'
    <3>1. \A t \in Tasks : born[t] = crashes =>
             exec[t] = "none" /\ stored'[t].status = "absent" /\ messages'[t] = <<>>
      <4>1. \A t \in Tasks : born[t] = crashes => exec[t] = "none"
        BY <2>1 DEF EpochOK, TaskTypeOK, FileTypes, BudgetTypes
      <4> QED BY <2>3, <2>4, <4>1 DEF NowhereOK
    <3> QED BY <2>1, <3>1 DEF EpochOK, NowhereOK
  <2> QED BY <2>2, <2>5, <2>6, <2>7, <2>8 DEF Later
<1> QED BY <1>1, <1>2

-----------------------------------------------------------------------------
(* The theorems. *)

LEMMA InitIInv == TaskInit => IInv
BY TypedInit, LaterInit DEF Later, IInv

LEMMA NextIInv == IInv /\ [TaskNext]_taskVars => IInv'
<1> SUFFICES ASSUME IInv, [TaskNext]_taskVars PROVE TaskTypeOK' /\ Later'
  BY DEF IInv, Later
<1> USE DEF IInv
<1>1. ASSUME NEW r \in SessionRuns, \/ OwnStep(r) \/ BeginRun(r) \/ WaitOver(r)
                                    \/ BreakOff(r) \/ CancelContext(r)
      PROVE  TaskTypeOK' /\ Later'
  <2>1. CASE Load(r) \/ Recover(r) \/ ReadSession(r) \/ Resync(r)
    BY <2>1, LoadingTyped, LoadingKeeps
  <2>2. CASE MergeRuntime(r)
    BY <2>2, MergingTyped, MergingKeeps
  <2>3. ASSUME NEW t \in Tasks, ClaimResult(r, t) PROVE TaskTypeOK' /\ Later'
    BY <2>3, ClaimTyped, ClaimKeeps
  <2>4. CASE Inject(r)
    BY <2>4, InjectTyped, InjectKeeps
  <2>5. CASE Reclaim(r) \/ Release(r)
    BY <2>5, ReturningTyped, ReturningKeeps
  <2>6. CASE Flushed(r)
    BY <2>6, FlushedTyped, FlushedKeeps
  <2>7. CASE \/ BeginRun(r) \/ FirstSave(r) \/ Top(r) \/ Model(r) \/ Batch(r) \/ Wait(r)
             \/ WaitOver(r) \/ BreakOff(r) \/ Cleanup(r) \/ LeaveBatch(r) \/ CompactHistory(r) \/ Settle(r)
             \/ WrapUpRun(r)
    BY <2>7, Idling, IdleTyped, IdleKeeps
  <2>8. ASSUME NEW t \in Tasks, Accept(r, t) PROVE TaskTypeOK' /\ Later'
    BY <2>8, AcceptTyped, AcceptKeeps
  <2>9. CASE AcceptSaved(r)
    BY <2>9, AcceptSavedTyped, AcceptSavedKeeps
  <2>10. CASE Close(r) \/ CancelContext(r)
    BY <2>10, ClosingTyped, ClosingKeeps
  <2> QED BY <1>1, <2>1, <2>2, <2>3, <2>4, <2>5, <2>6, <2>7, <2>8, <2>9, <2>10
        DEF OwnStep, FlushStep, TurnStep
<1>2. ASSUME NEW t \in Tasks, TaskStep(t) PROVE TaskTypeOK' /\ Later'
  BY <1>2, TaskTyped, TaskKeeps
<1>3. CASE Crash \/ Restart
  BY <1>3, ProcessTyped, ProcessKeeps
<1>4. CASE UNCHANGED taskVars
  BY <1>4 DEF taskVars, control, background, session, budget, TaskTypeOK, PlaceTypes, LocalTypes,
     CopyTypes, FileTypes, TaskTypes, BudgetTypes, Later, HeldOK, Held, Left, DownOK,
     InjectedOnce, CopiesOK, BusyOK, Taking, NowhereOK, EpochOK
<1> QED BY <1>1, <1>2, <1>3, <1>4 DEF TaskNext

\* IInv holds in every state of every execution.
THEOREM Inductive == TaskSpec => []IInv
<1>1. TaskInit => IInv
  BY InitIInv
<1>2. IInv /\ [TaskNext]_taskVars => IInv'
  BY NextIInv
<1> QED BY <1>1, <1>2, PTL DEF TaskSpec

\* Every variable keeps its type, and a run has a task in hand exactly while it injects,
\* gives back or accepts it.
THEOREM Typing == TaskSpec => []TaskTypeOK
<1>1. IInv => TaskTypeOK
  BY DEF IInv
<1> QED BY <1>1, Inductive, PTL

\* A result gets into the session at most once, and exactly when it is marked completed.
THEOREM Once == TaskSpec => []InjectedOnce
<1>1. IInv => InjectedOnce
  BY DEF IInv
<1> QED BY <1>1, Inductive, PTL

\* A task is reported lost only after a restart of its process.
THEOREM LostOnlyByRestart == TaskSpec => []NoFalseLoss
<1>1. IInv => NoFalseLoss
  <2> SUFFICES ASSUME IInv, NEW t \in Tasks, ~(born[t] < crashes)
               PROVE  "lost" \notin {messages[t][i] : i \in DOMAIN messages[t]} \cup {stored[t].status}
    BY DEF NoFalseLoss
  <2>1. born[t] = crashes
    BY DEF IInv, EpochOK, TaskTypeOK, FileTypes, BudgetTypes
  <2> QED BY <2>1 DEF IInv, EpochOK
<1> QED BY <1>1, Inductive, PTL

-----------------------------------------------------------------------------
(***************************************************************************)
(* Claims while nothing has failed and nobody was cancelled.               *)
(***************************************************************************)

Undisturbed == failures = 0 /\ cancels = 0

\* A run only gets here by a failure, a conflict or a cancellation.
Aborted == {"release", "retract", "reload", "resume"}
StraightOK == \A r \in SessionRuns : ~ctxCancelled[r] /\ runPc[r] \notin Aborted

\* A claim that a copy repeats is the one in the file, or the file has moved on.
Carried(task, entry) ==
    task.claim # NoOne =>
        task.status # "completed" /\ (entry.claim = task.claim \/ entry.status = "completed")
CarriedOK ==
    \A r \in SessionRuns, t \in Tasks :
        Carried(copy[r][t], stored[t]) /\ Carried(view[r][t], stored[t])

\* What a run has left to inject nobody had claimed when it looked.
UnclaimedOK == \A r \in SessionRuns : \A t \in Left(r) : copy[r][t].claim = NoOne

\* A claim is given up by completing the task, and until then its run is injecting it.
Owned(t) ==
    stored[t].claim # NoOne =>
        /\ stored[t].status \notin {"absent", "completed"}
        /\ up => stored[t].claim \in SessionRuns /\ runPc[stored[t].claim] = "inject"
                     /\ taken[stored[t].claim] = t
OwnedOK == \A t \in Tasks : Owned(t)

\* The registry does not survive the process.
ForgottenOK == ~up => \A t \in Tasks : registry[t] = "absent"

ClaimsOK == ForgottenOK /\ StraightOK /\ CarriedOK /\ UnclaimedOK /\ OwnedOK

\* From entry to later in the file: completion stays, and a claim stays until then.
Kept(entry, later) ==
    /\ entry.status = "completed" => later.status = "completed"
    /\ later.claim = entry.claim \/ later.status = "completed"
Unmarked(entry) == entry.claim # NoOne => entry.status \notin {"absent", "completed"}
Keeps(entry, later) ==
    /\ Kept(entry, later) /\ Unmarked(later)
    /\ later.claim # NoOne => later.claim = entry.claim

LEMMA KeptCarried ==
    ASSUME NEW task, NEW entry, NEW later, Carried(task, entry), Kept(entry, later)
    PROVE  Carried(task, later)
BY DEF Carried, Kept

\* Merging what a copy carries keeps a claim of the file.
LEMMA MergeKeeps ==
    ASSUME NEW a \in Record, NEW b \in Record, Carried(b, a), Unmarked(a)
    PROVE  Keeps(a, Merge(a, b))
<1> USE DEF Keeps, Kept, Unmarked, Carried
<1>1. CASE b.status = "absent" \/ (a.status = "completed" /\ b.status # "completed")
  <2>1. Merge(a, b) = a
    BY <1>1 DEF Merge
  <2> QED BY <1>1, <2>1
<1>2. CASE /\ b.status # "absent" /\ ~(a.status = "completed" /\ b.status # "completed")
           /\ a.claim # NoOne /\ b.claim = NoOne /\ b.status # "completed"
  <2>1. Merge(a, b) = [b EXCEPT !.claim = a.claim]
    BY <1>2 DEF Merge
  <2> QED BY <1>2, <2>1 DEF Record
<1>3. CASE /\ b.status # "absent" /\ ~(a.status = "completed" /\ b.status # "completed")
           /\ ~(a.claim # NoOne /\ b.claim = NoOne /\ b.status # "completed")
  <2>1. Merge(a, b) = b
    BY <1>3 DEF Merge
  <2> QED BY <1>3, <2>1
<1> QED BY <1>1, <1>2, <1>3

LEMMA MergeCarried ==
    ASSUME NEW a \in Record, NEW b \in Record, NEW entry, Carried(a, entry), Carried(b, entry)
    PROVE  Carried(Merge(a, b), entry)
<1>1. CASE Merge(a, b) \in {a, b}
  BY <1>1
<1>2. CASE b.status # "completed" /\ Merge(a, b) = [b EXCEPT !.claim = a.claim]
  BY <1>2 DEF Carried, Record
<1> QED BY <1>1, <1>2 DEF Merge

LEMMA EntryCarried == \A s, entry : Carried(Entry(s), entry)
BY DEF Carried, Entry

LEMMA RecoveredCarried ==
    ASSUME registry \in [Tasks -> {"absent", "pending", "running", "ready"}],
           NEW f \in [Tasks -> Record], NEW t \in Tasks, NEW entry, Carried(f[t], entry)
    PROVE  Carried(Recovered(f)[t], entry)
<1>1. f[t] \in Record /\ Entry(registry[t]) \in Record
  BY DEF Entry, Record, Statuses
<1>2. Carried(Merge(f[t], Entry(registry[t])), entry)
  BY <1>1, MergeCarried, EntryCarried
<1>3. Carried([f[t] EXCEPT !.status = "lost"], entry)
  BY <1>1 DEF Carried, Record
<1> QED BY <1>2, <1>3 DEF Recovered

-----------------------------------------------------------------------------
(* Steps that leave the claims alone, or only save a copy. *)

\* Run r saves its copy, if anything.
LEMMA SavedKept ==
    ASSUME TaskTypeOK, CarriedOK, OwnedOK, NEW r \in SessionRuns, Saved(r)
    PROVE  \A t \in Tasks : Keeps(stored[t], stored'[t])
<1> SUFFICES ASSUME NEW t \in Tasks PROVE Keeps(stored[t], stored'[t])
  OBVIOUS
<1>1. Unmarked(stored[t]) /\ Carried(copy[r][t], stored[t])
  BY DEF OwnedOK, Owned, Unmarked, CarriedOK
<1>2. stored[t] \in Record /\ copy[r][t] \in Record
  BY DEF TaskTypeOK, CopyTypes, FileTypes
<1>3. Keeps(stored[t], Merge(stored[t], copy[r][t]))
  BY <1>1, <1>2, MergeKeeps
<1>4. Keeps(stored[t], stored[t])
  BY <1>1 DEF Keeps, Kept
<1> QED BY <1>3, <1>4 DEF Saved, MergeAll

\* The rest follows when the copies are as they were and nobody who injects moves.
LEMMA KeptClaims ==
    ASSUME ClaimsOK, \A t \in Tasks : Keeps(stored[t], stored'[t]),
           UNCHANGED <<copy, view>>, up' => up,
           \A r \in SessionRuns : runPc[r] = "inject" => runPc'[r] = "inject" /\ taken'[r] = taken[r]
    PROVE  CarriedOK' /\ OwnedOK'
<1>1. CarriedOK'
  <2> SUFFICES ASSUME NEW r \in SessionRuns, NEW t \in Tasks
               PROVE  Carried(copy[r][t], stored'[t]) /\ Carried(view[r][t], stored'[t])
    BY DEF CarriedOK
  <2>1. Carried(copy[r][t], stored[t]) /\ Carried(view[r][t], stored[t])
    BY DEF ClaimsOK, CarriedOK
  <2>2. Kept(stored[t], stored'[t])
    BY DEF Keeps
  <2> QED BY <2>1, <2>2, KeptCarried
<1>2. OwnedOK'
  <2> SUFFICES ASSUME NEW t \in Tasks, stored'[t].claim # NoOne
               PROVE  /\ stored'[t].status \notin {"absent", "completed"}
                      /\ up' => /\ stored'[t].claim \in SessionRuns /\ runPc'[stored'[t].claim] = "inject"
                                /\ taken'[stored'[t].claim] = t
    BY DEF OwnedOK, Owned
  <2>1. stored'[t].claim = stored[t].claim /\ stored'[t].status \notin {"absent", "completed"}
    BY DEF Keeps, Unmarked
  <2>2. up => /\ stored[t].claim \in SessionRuns /\ runPc[stored[t].claim] = "inject"
              /\ taken[stored[t].claim] = t
    BY <2>1 DEF ClaimsOK, OwnedOK, Owned
  <2> QED BY <2>1, <2>2
<1> QED BY <1>1, <1>2

\* Every step of a run or a task spends a failure or nothing.
LEMMA Spending ==
    ASSUME NEW r \in SessionRuns, OwnStep(r) \/ BeginRun(r) \/ WaitOver(r) \/ BreakOff(r)
    PROVE  Failing \/ UNCHANGED budget
<1>0. ASSUME NEW from, NEW to, Save(r, from, to, copy[r]) PROVE Failing \/ UNCHANGED budget
  BY <1>0 DEF Save, Refused
<1>1. CASE FlushStep(r)
  BY <1>1 DEF FlushStep, ReadSession, Resync, MergeRuntime, ClaimResult, Inject, Reclaim, Release,
     Flushed
<1>2. CASE TurnStep(r)
  <2> QED BY <1>0, <1>2 DEF TurnStep, Top, Model, Batch, Wait, Cleanup, Accept, AcceptSaved,
          LeaveBatch, CompactHistory
<1>3. CASE Load(r) \/ Recover(r) \/ FirstSave(r) \/ Settle(r) \/ WrapUpRun(r) \/ Close(r)
  BY <1>3 DEF Load, Recover, FirstSave, Settle, WrapUpRun, Close
<1>4. CASE BeginRun(r) \/ WaitOver(r) \/ BreakOff(r)
  BY <1>0, <1>4 DEF BeginRun, WaitOver, BreakOff
<1> QED BY <1>1, <1>2, <1>3, <1>4 DEF OwnStep

\* Nothing fails in a step that leaves the runs undisturbed.
LEMMA Calm ==
    ASSUME TaskTypeOK, [TaskNext]_taskVars, Undisturbed'
    PROVE  Undisturbed /\ ~Failing /\ \A r \in SessionRuns : ~CancelContext(r)
<1>1. failures \in Nat /\ cancels \in Nat
  BY TaskBounds DEF TaskTypeOK, BudgetTypes
<1>2. \/ Failing \/ UNCHANGED budget \/ \E r \in SessionRuns : CancelContext(r)
      \/ Crash
  <2>1. ASSUME NEW t \in Tasks, TaskStep(t) PROVE UNCHANGED budget
    BY <2>1 DEF TaskStep, ExecStart, ExecFinish, Notify, Continue
  <2>2. CASE Restart
    BY <2>2 DEF Restart
  <2>3. CASE UNCHANGED taskVars
    BY <2>3 DEF taskVars
  <2> QED BY <2>1, <2>2, <2>3, Spending DEF TaskNext, taskVars
<1>3. ~Failing /\ \A r \in SessionRuns : ~CancelContext(r)
  BY <1>1 DEF Undisturbed, Failing, CancelContext
<1>4. UNCHANGED <<failures, cancels>>
  BY <1>2, <1>3 DEF budget, Crash
<1> QED BY <1>3, <1>4 DEF Undisturbed

-----------------------------------------------------------------------------
(* The steps of a run. *)

\* Where a run goes when nothing goes wrong.
Ahead == {"load", "recover", "wrapup", "close", "done", "first", "compact", "top", "model", "batch",
          "wait", "work", "accept", "cleanup", "settle", "read", "resync", "merge", "claim", "inject", "reclaim"}
Onward(r) ==
    /\ UNCHANGED ctxCancelled
    /\ \E p \in Ahead : runPc' = [runPc EXCEPT ![r] = p]

LEMMA RunStraight ==
    ASSUME TaskTypeOK, StraightOK, ~Failing,
           NEW r \in SessionRuns, OwnStep(r) \/ BeginRun(r) \/ WaitOver(r) \/ BreakOff(r)
    PROVE  StraightOK'
<1> USE DEF control
<1>0. /\ runPc \in [SessionRuns -> RunPlaces] /\ ctxCancelled \in [SessionRuns -> BOOLEAN]
      /\ ~ctxCancelled[r] /\ runPc[r] \notin {"release", "retract", "reload", "resume"}
  BY DEF TaskTypeOK, PlaceTypes, LocalTypes, StraightOK, Aborted
<1>1. ASSUME NEW from, NEW to \in Ahead, ToPlace(r, from, to), UNCHANGED ctxCancelled
      PROVE  Onward(r)
  BY <1>1 DEF ToPlace, Onward
<1>2. ASSUME NEW from, NEW to \in Ahead, Save(r, from, to, copy[r]), UNCHANGED ctxCancelled
      PROVE  Onward(r)
  BY <1>0, <1>2 DEF Save, Refused, ToPlace, Onward
<1>3. ASSUME Onward(r) PROVE StraightOK'
  BY <1>0, <1>3 DEF Onward, StraightOK, Ahead, Aborted
<1>4. CASE FlushStep(r)
  <2>1. CASE ReadSession(r) \/ Resync(r) \/ MergeRuntime(r)
    BY <1>1, <1>3, <2>1 DEF ReadSession, Resync, MergeRuntime, Ahead
  <2>2. ASSUME NEW t \in Tasks, ClaimResult(r, t) PROVE UNCHANGED <<runPc, ctxCancelled>> \/ Onward(r)
    <3>1. ToPlace(r, "claim", "inject") \/ UNCHANGED runPc
      BY <1>0, <2>2 DEF ClaimResult
    <3> QED BY <1>1, <2>2, <3>1 DEF ClaimResult, Ahead
  <2>3. CASE Inject(r)
    BY <1>0, <1>1, <1>3, <2>3 DEF Inject, Ahead
  <2>4. CASE Reclaim(r)
    BY <1>1, <1>3, <2>4 DEF Reclaim, Ahead
  <2>5. ~Release(r)
    BY <1>0 DEF Release, ToPlace
  <2>6. CASE Flushed(r)
    <3>1. \E p \in {"wait", "top", "model", "settle"} : ToPlace(r, "claim", p)
      BY <2>6 DEF Flushed
    <3>2. UNCHANGED ctxCancelled
      BY <2>6 DEF Flushed
    <3> QED BY <1>1, <1>3, <3>1, <3>2 DEF Ahead
  <2>7. UNCHANGED <<runPc, ctxCancelled>> => StraightOK'
    BY DEF StraightOK
  <2> QED BY <1>3, <1>4, <2>1, <2>2, <2>3, <2>4, <2>5, <2>6, <2>7 DEF FlushStep
<1>5. CASE TurnStep(r)
  <2>1. CASE Top(r) \/ Wait(r) \/ Cleanup(r) \/ CompactHistory(r) \/ (\E t \in Tasks : Accept(r, t))
    BY <1>0, <1>1, <1>3, <2>1 DEF Top, Wait, Cleanup, CompactHistory, Accept, StartFlush, Ahead
  <2>2. CASE Model(r) \/ Batch(r) \/ AcceptSaved(r) \/ LeaveBatch(r)
    BY <1>1, <1>3, <1>2, <2>2 DEF Model, Batch, AcceptSaved, LeaveBatch, StartFlush, Ahead
  <2> QED BY <1>3, <1>5, <2>1, <2>2 DEF TurnStep
<1>6. CASE \/ BeginRun(r) \/ WaitOver(r) \/ BreakOff(r) \/ Load(r)
           \/ Recover(r) \/ FirstSave(r) \/ Settle(r) \/ WrapUpRun(r)
  <2>1. CASE Load(r)
    <3>1. ToPlace(r, "load", "recover")
      BY <1>0, <2>1 DEF Load, ToPlace
    <3> QED BY <1>1, <1>3, <2>1, <3>1 DEF Load, Ahead
  <2>2. CASE Recover(r)
    <3>1. ToPlace(r, "recover", "first")
      BY <1>0, <2>2 DEF Recover, ToPlace
    <3> QED BY <1>1, <1>3, <2>2, <3>1 DEF Recover, Ahead
  <2>3. CASE BeginRun(r) \/ BreakOff(r) \/ FirstSave(r) \/ Settle(r) \/ WrapUpRun(r)
    BY <1>1, <1>3, <2>3 DEF BeginRun, BreakOff, FirstSave, Settle, WrapUpRun, Ahead
  <2>4. CASE WaitOver(r)
    <3>1. {"wait", "work"} \subseteq Ahead /\ UNCHANGED ctxCancelled
      BY <2>4 DEF WaitOver, Ahead
    <3> QED BY <1>2, <1>3, <2>4, <3>1 DEF WaitOver
  <2> QED BY <1>3, <1>6, <2>1, <2>2, <2>3, <2>4
<1>7. CASE Close(r)
  BY <1>0, <1>7 DEF Close, ToPlace, StraightOK, Aborted
<1> QED BY <1>4, <1>5, <1>6, <1>7 DEF OwnStep

\* Outside a flush: a run saves its copy, if anything.
LEMMA IdleClaims ==
    ASSUME IInv, ClaimsOK, NEW r \in SessionRuns, Idle(r)
    PROVE  CarriedOK' /\ UnclaimedOK' /\ OwnedOK'
<1>1. \A t \in Tasks : Keeps(stored[t], stored'[t])
  BY SavedKept DEF Idle, Saved, IInv, ClaimsOK
<1>2. /\ runPc[r] \notin Handling
      /\ \A q \in SessionRuns \ {r} : runPc'[q] = runPc[q]
      /\ runPc'[r] \in Aside
  BY DEF Idle, Aside, Places, IInv, TaskTypeOK, PlaceTypes
<1>3. \A q \in SessionRuns : runPc[q] = "inject" => runPc'[q] = "inject" /\ taken'[q] = taken[q]
  BY <1>2 DEF Idle, Handling
<1>4. CarriedOK' /\ OwnedOK'
  BY <1>1, <1>3, KeptClaims DEF Idle
<1>5. UnclaimedOK'
  <2>1. \A q \in SessionRuns : Left(q)' = Left(q)
    BY <1>2 DEF Idle, Left, Aside, Places, Handling
  <2> QED BY <2>1 DEF Idle, UnclaimedOK, ClaimsOK
<1> QED BY <1>4, <1>5

LEMMA AcceptSavedClaims ==
    ASSUME IInv, ClaimsOK, NEW r \in SessionRuns, AcceptSaved(r)
    PROVE  CarriedOK' /\ UnclaimedOK' /\ OwnedOK'
<1>0. /\ runPc[r] = "accept" /\ up /\ \E p \in Aside : runPc' = [runPc EXCEPT ![r] = p]
      /\ Saved(r) /\ UNCHANGED <<up, todo, copy, view>> /\ taken' = [taken EXCEPT ![r] = NoOne]
  BY AcceptSavedTyped DEF IInv, AcceptSaved, Saved
<1>1. \A t \in Tasks : Keeps(stored[t], stored'[t])
  BY <1>0, SavedKept DEF IInv, ClaimsOK
<1>2. (\A q \in SessionRuns \ {r} : runPc'[q] = runPc[q] /\ taken'[q] = taken[q]) /\ runPc'[r] \in Aside
  BY <1>0 DEF IInv, TaskTypeOK, PlaceTypes
<1>3. \A q \in SessionRuns : runPc[q] = "inject" => runPc'[q] = "inject" /\ taken'[q] = taken[q]
  BY <1>0, <1>2
<1>4. CarriedOK' /\ OwnedOK'
  BY <1>0, <1>1, <1>3, KeptClaims
<1>5. UnclaimedOK'
  <2>1. \A q \in SessionRuns : Left(q)' = Left(q)
    BY <1>0, <1>2 DEF Left, Aside, Places, Handling
  <2> QED BY <1>0, <2>1 DEF UnclaimedOK, ClaimsOK
<1> QED BY <1>4, <1>5

\* The file is read into the run's view, and the view into its copy.
LEMMA LoadingClaims ==
    ASSUME IInv, ClaimsOK, NEW r \in SessionRuns, Load(r) \/ Recover(r) \/ ReadSession(r) \/ Resync(r)
    PROVE  CarriedOK' /\ UnclaimedOK' /\ OwnedOK'
<1> USE DEF control, background, session
<1>0. /\ UNCHANGED <<up, taken, todo, stored>>
      /\ \A q \in SessionRuns \ {r} : runPc'[q] = runPc[q] /\ copy'[q] = copy[q] /\ view'[q] = view[q]
      /\ runPc[r] \in Aside /\ runPc'[r] \in Places
  BY LoadingTyped DEF Load, Recover, ReadSession, Resync, Moved, IInv, TaskTypeOK, PlaceTypes, CopyTypes
<1>1. /\ view[r] \in [Tasks -> Record] /\ copy[r] \in [Tasks -> Record]
      /\ Recovered(view[r]) \in [Tasks -> Record]
  BY RecoveredFacts DEF IInv, TaskTypeOK, CopyTypes, TaskTypes
<1>2. \A t \in Tasks : /\ Carried(view[r][t], stored[t]) /\ Carried(copy[r][t], stored[t])
                       /\ Unmarked(stored[t])
  BY DEF ClaimsOK, CarriedOK, OwnedOK, Owned, Unmarked
<1>3. \A t \in Tasks : Carried(Recovered(view[r])[t], stored[t])
  BY <1>1, <1>2, RecoveredCarried DEF IInv, TaskTypeOK, TaskTypes
<1>4. \A t \in Tasks : Carried(MergeAll(copy[r], Recovered(view[r]))[t], stored[t])
  <2> SUFFICES ASSUME NEW t \in Tasks
               PROVE  Carried(Merge(copy[r][t], Recovered(view[r])[t]), stored[t])
    BY DEF MergeAll
  <2>1. copy[r][t] \in Record /\ Recovered(view[r])[t] \in Record
    BY <1>1
  <2> QED BY <1>2, <1>3, <2>1, MergeCarried
<1>5. \A t \in Tasks : Carried(Nothing[t], stored[t]) /\ Carried(stored[t], stored[t])
  BY <1>2, EntryCarried DEF Nothing, Carried, Unmarked
<1>6. /\ view'[r] \in {view[r], stored, Nothing}
      /\ copy'[r] \in {copy[r], Recovered(view[r]), MergeAll(copy[r], Recovered(view[r]))}
  BY DEF Load, Recover, ReadSession, Resync, IInv, TaskTypeOK, CopyTypes
<1>7. CarriedOK'
  <2> SUFFICES ASSUME NEW q \in SessionRuns, NEW t \in Tasks
               PROVE  Carried(copy'[q][t], stored[t]) /\ Carried(view'[q][t], stored[t])
    BY <1>0 DEF CarriedOK
  <2>1. CASE q = r
    BY <1>2, <1>3, <1>4, <1>5, <1>6, <2>1
  <2>2. CASE q # r
    BY <1>0, <2>2 DEF ClaimsOK, CarriedOK
  <2> QED BY <2>1, <2>2
<1>8. OwnedOK'
  BY <1>0 DEF ClaimsOK, OwnedOK, Owned, Aside, Places, Handling
<1>9. UnclaimedOK'
  <2>1. todo[r] = {}
    BY <1>0 DEF IInv, HeldOK, Held, Injecting, Aside, Places, Handling
  <2>2. Left(r)' = {} /\ \A q \in SessionRuns \ {r} : Left(q)' = Left(q)
    BY <1>0, <2>1 DEF Left
  <2> QED BY <1>0, <2>2 DEF UnclaimedOK, ClaimsOK
<1> QED BY <1>7, <1>8, <1>9

-----------------------------------------------------------------------------
(* The flush, and what is accepted. *)

LEMMA MergingClaims ==
    ASSUME IInv, ClaimsOK, NEW r \in SessionRuns, MergeRuntime(r)
    PROVE  CarriedOK' /\ UnclaimedOK' /\ OwnedOK'
<1> USE DEF background, session
<1>0. /\ up /\ runPc[r] = "merge" /\ runPc' = [runPc EXCEPT ![r] = "claim"]
      /\ copy' = [copy EXCEPT ![r] = MergeAll(copy[r], Runtime)]
      /\ todo' = [todo EXCEPT ![r] = {t \in Tasks : IsReady(copy'[r][t])}]
      /\ UNCHANGED <<up, taken, view, stored>>
      /\ runPc \in [SessionRuns -> RunPlaces] /\ copy \in [SessionRuns -> [Tasks -> Record]]
      /\ todo \in [SessionRuns -> SUBSET Tasks]
  BY DEF MergeRuntime, ToPlace, IInv, TaskTypeOK, PlaceTypes, CopyTypes, LocalTypes
<1>1. CarriedOK'
  <2> SUFFICES ASSUME NEW q \in SessionRuns, NEW t \in Tasks PROVE Carried(copy'[q][t], stored[t])
    BY <1>0 DEF CarriedOK, ClaimsOK
  <2>1. Carried(copy[q][t], stored[t])
    BY DEF ClaimsOK, CarriedOK
  <2>2. CASE q = r
    <3>1. copy[r][t] \in Record /\ Runtime[t] \in Record /\ Carried(Runtime[t], stored[t])
      BY <1>0, RuntimeFacts, EntryCarried DEF IInv, TaskTypeOK, TaskTypes, Runtime
    <3>2. Carried(Merge(copy[r][t], Runtime[t]), stored[t])
      BY <2>1, <2>2, <3>1, MergeCarried
    <3>3. copy'[r][t] = Merge(copy[r][t], Runtime[t])
      BY <1>0 DEF MergeAll
    <3> QED BY <2>2, <3>2, <3>3
  <2>3. CASE q # r
    BY <1>0, <2>1, <2>3
  <2> QED BY <2>2, <2>3
<1>2. UnclaimedOK'
  <2>1. \A t \in Left(r)' : copy'[r][t].claim = NoOne
    BY <1>0 DEF Left, IsReady
  <2>2. \A q \in SessionRuns \ {r} : Left(q)' = Left(q) /\ copy'[q] = copy[q]
    BY <1>0 DEF Left
  <2> QED BY <2>1, <2>2 DEF UnclaimedOK, ClaimsOK
<1>3. OwnedOK'
  BY <1>0 DEF ClaimsOK, OwnedOK, Owned
<1> QED BY <1>1, <1>2, <1>3

LEMMA ClaimClaims ==
    ASSUME IInv, ClaimsOK, ~Failing, NEW r \in SessionRuns, NEW t \in Tasks, ClaimResult(r, t)
    PROVE  CarriedOK' /\ UnclaimedOK' /\ OwnedOK'
<1>0. /\ runPc \in [SessionRuns -> RunPlaces] /\ todo \in [SessionRuns -> SUBSET Tasks]
      /\ taken \in [SessionRuns -> Tasks \cup {NoOne}] /\ stored \in [Tasks -> Record] /\ ~ctxCancelled[r]
      /\ UNCHANGED <<up, copy, view>> /\ runPc[r] = "claim"
  BY DEF IInv, TaskTypeOK, PlaceTypes, LocalTypes, FileTypes, ClaimsOK, StraightOK, ClaimResult, ToPlace
<1>1. CASE /\ Claimable(stored[t]) /\ stored' = [stored EXCEPT ![t].claim = r]
           /\ ToPlace(r, "claim", "inject") /\ taken' = [taken EXCEPT ![r] = t] /\ UNCHANGED todo
  <2>1. /\ runPc' = [runPc EXCEPT ![r] = "inject"]
        /\ stored'[t].claim = r /\ stored'[t].status = stored[t].status
        /\ \A k \in Tasks \ {t} : stored'[k] = stored[k]
        /\ stored[t].claim = NoOne /\ stored[t].status \notin {"absent", "completed"}
    BY <1>0, <1>1 DEF ToPlace, Record, Claimable
  <2>2. CarriedOK'
    <3>1. ASSUME NEW task, NEW k \in Tasks, Carried(task, stored[k]) PROVE Carried(task, stored'[k])
      BY <2>1, <3>1 DEF Carried
    <3> QED BY <1>0, <3>1 DEF CarriedOK, ClaimsOK
  <2>3. UnclaimedOK'
    <3>1. \A q \in SessionRuns : Left(q)' = Left(q)
      BY <1>0, <1>1, <2>1 DEF Left
    <3> QED BY <1>0, <3>1 DEF UnclaimedOK, ClaimsOK
  <2>4. OwnedOK'
    <3>1. Owned(t)'
      BY <1>0, <1>1, <2>1 DEF Owned
    <3>2. \A k \in Tasks \ {t} : Owned(k)'
      BY <1>0, <1>1, <2>1 DEF Owned, OwnedOK, ClaimsOK
    <3> QED BY <3>1, <3>2 DEF OwnedOK
  <2> QED BY <2>2, <2>3, <2>4
<1>2. CASE UNCHANGED <<runPc, taken, stored>> /\ todo' = [todo EXCEPT ![r] = @ \ {t}]
  <2>1. CarriedOK' /\ OwnedOK'
    BY <1>0, <1>2 DEF CarriedOK, OwnedOK, Owned, ClaimsOK
  <2>2. \A q \in SessionRuns : Left(q)' \subseteq Left(q)
    BY <1>0, <1>2 DEF Left
  <2> QED BY <1>0, <2>1, <2>2 DEF UnclaimedOK, ClaimsOK
<1> QED BY <1>0, <1>1, <1>2 DEF ClaimResult

LEMMA InjectClaims ==
    ASSUME IInv, ClaimsOK, ~Failing, NEW r \in SessionRuns, Inject(r)
    PROVE  CarriedOK' /\ UnclaimedOK' /\ OwnedOK'
<1> DEFINE t == taken[r]
           done == Completed(copy[r], t)
<1>0. /\ runPc \in [SessionRuns -> RunPlaces] /\ todo \in [SessionRuns -> SUBSET Tasks] /\ stored \in [Tasks -> Record]
      /\ copy \in [SessionRuns -> [Tasks -> Record]] /\ ~ctxCancelled[r]
  BY DEF IInv, TaskTypeOK, PlaceTypes, LocalTypes, FileTypes, CopyTypes, ClaimsOK, StraightOK
<1>1. /\ runPc[r] = "inject" /\ runPc' = [runPc EXCEPT ![r] = "reclaim"]
      /\ stored' = MergeAll(stored, done) /\ copy' = [copy EXCEPT ![r] = done]
      /\ UNCHANGED <<up, view, taken, todo>>
  BY <1>0 DEF Inject, ToPlace, control
<1>2. t \in Left(r) /\ t \in Tasks
  BY <1>0, <1>1 DEF IInv, HeldOK, Held, Left
<1>3. copy[r][t].claim = NoOne
  BY <1>2 DEF ClaimsOK, UnclaimedOK
<1>4. /\ done \in [Tasks -> Record] /\ done[t].status = "completed" /\ done[t].claim = NoOne
      /\ \A k \in Tasks \ {t} : done[k] = copy[r][k]
  <2>1. done[t].claim = copy[r][t].claim
    BY <1>0, <1>2 DEF Completed, Record
  <2>2. copy[r] \in [Tasks -> Record]
    BY <1>0
  <2> QED BY <1>2, <1>3, <2>1, <2>2, CompletedFacts
<1>5. \A k \in Tasks : Carried(done[k], stored[k])
  BY <1>4 DEF Carried, ClaimsOK, CarriedOK
<1>6. \A k \in Tasks : Keeps(stored[k], stored'[k])
  <2> SUFFICES ASSUME NEW k \in Tasks PROVE Keeps(stored[k], Merge(stored[k], done[k]))
    BY <1>1 DEF MergeAll
  <2>1. Unmarked(stored[k]) /\ stored[k] \in Record /\ done[k] \in Record
    BY <1>0, <1>4 DEF ClaimsOK, OwnedOK, Owned, Unmarked
  <2> QED BY <1>5, <2>1, MergeKeeps
<1>7. stored'[t].status = "completed"
  BY <1>0, <1>1, <1>2, <1>4, MergeAllFacts
<1> HIDE DEF done
<1>8. CarriedOK'
  <2> SUFFICES ASSUME NEW q \in SessionRuns, NEW k \in Tasks
               PROVE  Carried(copy'[q][k], stored'[k]) /\ Carried(view[q][k], stored'[k])
    BY <1>1 DEF CarriedOK
  <2>1. Carried(copy'[q][k], stored[k])
    BY <1>0, <1>1, <1>5 DEF ClaimsOK, CarriedOK
  <2>2. Carried(view[q][k], stored[k]) /\ Kept(stored[k], stored'[k])
    BY <1>6 DEF Keeps, ClaimsOK, CarriedOK
  <2> QED BY <2>1, <2>2, KeptCarried
<1>9. UnclaimedOK'
  <2>1. Left(r)' = Left(r) \ {t} /\ \A q \in SessionRuns \ {r} : Left(q)' = Left(q) /\ copy'[q] = copy[q]
    BY <1>0, <1>1 DEF Left
  <2>2. \A k \in Tasks \ {t} : copy'[r][k] = copy[r][k]
    BY <1>0, <1>1, <1>4
  <2>3. Left(r) \subseteq Tasks
    BY <1>0 DEF Left
  <2> QED BY <2>1, <2>2, <2>3 DEF UnclaimedOK, ClaimsOK
<1>10. OwnedOK'
  <2> SUFFICES ASSUME NEW k \in Tasks, stored'[k].claim # NoOne
               PROVE  /\ stored'[k].status \notin {"absent", "completed"}
                      /\ up => /\ stored'[k].claim \in SessionRuns /\ runPc'[stored'[k].claim] = "inject"
                               /\ taken[stored'[k].claim] = k
    BY <1>1 DEF OwnedOK, Owned
  <2>1. stored'[k].status \notin {"absent", "completed"} /\ stored'[k].claim = stored[k].claim
    BY <1>6 DEF Keeps, Unmarked
  <2>2. k # t
    BY <1>7, <2>1
  <2>3. up => /\ stored[k].claim \in SessionRuns /\ runPc[stored[k].claim] = "inject"
              /\ taken[stored[k].claim] = k
    BY <2>1 DEF ClaimsOK, OwnedOK, Owned
  <2> QED BY <1>0, <1>1, <2>1, <2>2, <2>3
<1> QED BY <1>8, <1>9, <1>10

\* What is left over needs no look at the claims.
LEMMA LeavingClaims ==
    ASSUME IInv, ClaimsOK, NEW r \in SessionRuns, Reclaim(r) \/ Flushed(r) \/ Close(r)
    PROVE  CarriedOK' /\ UnclaimedOK' /\ OwnedOK'
<1> USE DEF control, background, session
<1>0. /\ runPc \in [SessionRuns -> RunPlaces] /\ todo \in [SessionRuns -> SUBSET Tasks]
      /\ taken \in [SessionRuns -> Tasks \cup {NoOne}] /\ copy \in [SessionRuns -> [Tasks -> Record]]
      /\ UNCHANGED <<up, view, stored>>
  BY DEF IInv, TaskTypeOK, PlaceTypes, LocalTypes, CopyTypes, Reclaim, Flushed, Close
<1>1. /\ runPc[r] # "inject"
      /\ \A q \in SessionRuns \ {r} : runPc'[q] = runPc[q] /\ taken'[q] = taken[q] /\ todo'[q] = todo[q]
                               /\ copy'[q] = copy[q]
  BY <1>0 DEF Reclaim, Flushed, Close, ToPlace
<1>2. OwnedOK'
  BY <1>0, <1>1 DEF OwnedOK, Owned, ClaimsOK
<1>3. copy'[r] \in {copy[r], Nothing}
  BY <1>0 DEF Reclaim, Flushed, Close
<1>4. CarriedOK'
  BY <1>0, <1>1, <1>3, EntryCarried DEF CarriedOK, ClaimsOK, Nothing
<1>5. /\ Left(r)' \subseteq Left(r) /\ (Left(r)' # {} => copy'[r] = copy[r])
      /\ \A q \in SessionRuns \ {r} : Left(q)' = Left(q)
  <2>1. \A q \in SessionRuns \ {r} : Left(q)' = Left(q)
    BY <1>1 DEF Left
  <2>2. CASE Reclaim(r)
    BY <1>0, <2>1, <2>2 DEF Reclaim, ToPlace, Left
  <2>3. CASE Flushed(r)
    <3>1. todo'[r] = {} /\ Left(r)' = {}
      BY <2>3 DEF Flushed, Left
    <3> QED BY <2>1, <3>1
  <2>4. CASE Close(r)
    <3>1. todo[r] = {} /\ UNCHANGED todo
      BY <2>4 DEF Close, ToPlace, IInv, HeldOK, Held, Injecting
    <3>2. Left(r)' = {}
      BY <3>1 DEF Left
    <3> QED BY <2>1, <3>2
  <2> QED BY <2>2, <2>3, <2>4
<1>6. UnclaimedOK'
  BY <1>1, <1>5 DEF UnclaimedOK, ClaimsOK
<1> QED BY <1>2, <1>4, <1>6

LEMMA AcceptClaims ==
    ASSUME IInv, ClaimsOK, NEW r \in SessionRuns, NEW t \in Tasks, Accept(r, t)
    PROVE  CarriedOK' /\ UnclaimedOK' /\ OwnedOK'
<1> USE DEF session
<1>0. /\ runPc \in [SessionRuns -> RunPlaces] /\ taken \in [SessionRuns -> Tasks \cup {NoOne}]
      /\ copy \in [SessionRuns -> [Tasks -> Record]] /\ UNCHANGED <<up, view, stored, todo>>
      /\ runPc[r] = "work" /\ runPc' = [runPc EXCEPT ![r] = "accept"] /\ taken' = [taken EXCEPT ![r] = t]
      /\ copy' = [copy EXCEPT ![r][t] = Entry("pending")]
  BY DEF IInv, TaskTypeOK, PlaceTypes, CopyTypes, Accept, ToPlace
<1>1. OwnedOK'
  BY <1>0 DEF OwnedOK, Owned, ClaimsOK
<1>2. CarriedOK'
  <2> SUFFICES ASSUME NEW q \in SessionRuns, NEW k \in Tasks PROVE Carried(copy'[q][k], stored[k])
    BY <1>0 DEF CarriedOK, ClaimsOK
  <2>1. copy'[q][k] = copy[q][k] \/ copy'[q][k] = Entry("pending")
    BY <1>0
  <2> QED BY <2>1, EntryCarried DEF CarriedOK, ClaimsOK
<1>3. UnclaimedOK'
  <2>1. todo[r] = {}
    BY <1>0 DEF IInv, HeldOK, Held, Injecting
  <2>2. Left(r)' = {}
    BY <1>0, <2>1 DEF Left
  <2>3. \A q \in SessionRuns \ {r} : Left(q)' = Left(q) /\ copy'[q] = copy[q]
    BY <1>0 DEF Left
  <2> QED BY <2>2, <2>3 DEF UnclaimedOK, ClaimsOK
<1> QED BY <1>1, <1>2, <1>3

-----------------------------------------------------------------------------
(* The tasks, and the process. *)

LEMMA TaskClaims ==
    ASSUME IInv, ClaimsOK, NEW t \in Tasks, TaskStep(t)
    PROVE  ClaimsOK'
<1> USE DEF control, session
<1>1. up /\ UNCHANGED <<up, ctxCancelled, todo, taken, copy, view, stored>>
  BY DEF TaskStep, ExecStart, ExecFinish, Notify, Continue
<1>2. runPc' = runPc \/ \E r \in SessionRuns : runPc[r] = "none" /\ runPc' = [runPc EXCEPT ![r] = "load"]
  BY DEF TaskStep, ExecStart, ExecFinish, Notify, Continue, ToPlace
<1>3. \A r \in SessionRuns : runPc'[r] = runPc[r] \/ (runPc[r] = "none" /\ runPc'[r] = "load")
  BY <1>2 DEF IInv, TaskTypeOK, PlaceTypes
<1>4. StraightOK' /\ CarriedOK' /\ ForgottenOK'
  BY <1>1, <1>3 DEF ClaimsOK, StraightOK, Aborted, CarriedOK, ForgottenOK
<1>5. UnclaimedOK'
  <2>1. \A r \in SessionRuns : Left(r)' = Left(r)
    BY <1>1, <1>3 DEF Left
  <2> QED BY <1>1, <2>1 DEF UnclaimedOK, ClaimsOK
<1>6. OwnedOK'
  BY <1>1, <1>3 DEF OwnedOK, Owned, ClaimsOK
<1> QED BY <1>4, <1>5, <1>6 DEF ClaimsOK

LEMMA ProcessClaims ==
    ASSUME IInv, ClaimsOK, ~Failing, Crash \/ Restart
    PROVE  ClaimsOK'
<1> USE DEF control, session, background
<1>1. CASE Crash
  <2>1. StraightOK' /\ ForgottenOK'
    BY <1>1 DEF Crash, StraightOK, Aborted, ForgottenOK
  <2>2. CarriedOK'
    BY <1>1, EntryCarried DEF Crash, CarriedOK, Nothing
  <2>3. UnclaimedOK'
    BY <1>1 DEF Crash, UnclaimedOK, Left
  <2>4. OwnedOK'
    BY <1>1 DEF Crash, OwnedOK, Owned, ClaimsOK
  <2> QED BY <2>1, <2>2, <2>3, <2>4 DEF ClaimsOK
<1>2. CASE Restart
  <2>1. ~up /\ up' /\ UNCHANGED <<runPc, ctxCancelled, taken, todo, copy, view, registry>>
    BY <1>2 DEF Restart
  <2>2. \A t \in Tasks : registry[t] = "absent"
    BY <2>1 DEF ClaimsOK, ForgottenOK
  \* What is not injected now was injected before, or was never saved.
  <2>3. \A t \in Tasks :
          \/ stored'[t] = Entry("completed")
          \/ stored'[t] = stored[t] /\ stored[t].claim = NoOne
    <3> SUFFICES ASSUME NEW t \in Tasks, stored'[t] # Entry("completed")
                 PROVE  stored'[t] = stored[t] /\ stored[t].claim = NoOne
      OBVIOUS
    <3>1. Recovered(stored)[t].status \notin {"ready", "lost"} /\ stored'[t] = Recovered(stored)[t]
      BY <1>2 DEF Restart
    <3>2. stored[t] \in Record
      BY DEF IInv, TaskTypeOK, FileTypes
    <3>3. Recovered(stored)[t] = IF stored[t].status \in {"pending", "running"}
                                 THEN [stored[t] EXCEPT !.status = "lost"] ELSE stored[t]
      BY <2>2 DEF Recovered
    <3>4. stored[t].status \in {"absent", "completed"} /\ Recovered(stored)[t] = stored[t]
      BY <3>1, <3>2, <3>3 DEF Record, Statuses
    <3> QED BY <3>1, <3>4 DEF ClaimsOK, OwnedOK, Owned
  <2>4. \A t \in Tasks : Kept(stored[t], stored'[t]) /\ stored'[t].claim = NoOne
    BY <2>3 DEF Kept, Entry
  <2>5. StraightOK' /\ ForgottenOK' /\ OwnedOK'
    BY <2>1, <2>4 DEF ClaimsOK, StraightOK, ForgottenOK, OwnedOK, Owned
  <2>6. CarriedOK'
    <3> SUFFICES ASSUME NEW r \in SessionRuns, NEW t \in Tasks
                 PROVE  Carried(copy[r][t], stored'[t]) /\ Carried(view[r][t], stored'[t])
      BY <2>1 DEF CarriedOK
    <3>1. Carried(copy[r][t], stored[t]) /\ Carried(view[r][t], stored[t])
      BY DEF ClaimsOK, CarriedOK
    <3> QED BY <2>4, <3>1, KeptCarried
  <2>7. UnclaimedOK'
    BY <2>1 DEF ClaimsOK, UnclaimedOK, Left
  <2> QED BY <2>5, <2>6, <2>7 DEF ClaimsOK
<1> QED BY <1>1, <1>2

\* ClaimsOK holds for as long as nothing fails and nobody is cancelled.
ClaimsInv == Undisturbed => ClaimsOK

LEMMA ClaimsInit == TaskInit => ClaimsInv
<1> SUFFICES ASSUME TaskInit PROVE ClaimsOK
  BY DEF ClaimsInv
<1>1. ForgottenOK /\ StraightOK /\ UnclaimedOK
  BY DEF TaskInit, ForgottenOK, StraightOK, Aborted, UnclaimedOK, Left
<1>2. CarriedOK /\ OwnedOK
  BY EntryCarried DEF TaskInit, CarriedOK, OwnedOK, Owned, Nothing, Entry
<1> QED BY <1>1, <1>2 DEF ClaimsOK

LEMMA ClaimsStep == IInv /\ ClaimsInv /\ [TaskNext]_taskVars => ClaimsInv'
<1> SUFFICES ASSUME IInv, ClaimsInv, [TaskNext]_taskVars, Undisturbed' PROVE ClaimsOK'
  BY DEF ClaimsInv
<1>0. TaskTypeOK /\ ClaimsOK /\ ~Failing /\ \A r \in SessionRuns : ~CancelContext(r)
  BY Calm DEF IInv, ClaimsInv
<1>1. ASSUME NEW r \in SessionRuns, OwnStep(r) \/ BeginRun(r) \/ WaitOver(r) \/ BreakOff(r)
      PROVE  ClaimsOK'
  <2>1. StraightOK'
    BY <1>0, <1>1, RunStraight DEF ClaimsOK
  <2>2. ForgottenOK'
    <3>1. ASSUME NEW from, NEW to, Save(r, from, to, copy[r]) PROVE up
      BY <3>1 DEF Save, Refused, ToPlace
    <3>2. up
      BY <1>1, <3>1 DEF ToPlace, OwnStep, FlushStep, TurnStep, BeginRun, WaitOver, BreakOff, Load, Recover,
         FirstSave, ReadSession, Resync, MergeRuntime, ClaimResult, Inject, Reclaim, Release,
         Flushed, Top, StartFlush, Model, Batch, Wait, Cleanup, Accept, AcceptSaved, LeaveBatch,
         CompactHistory, Settle, WrapUpRun, Close
    <3>3. UNCHANGED up
      BY <1>1 DEF OwnStep, FlushStep, TurnStep, BeginRun, WaitOver, BreakOff, Load, Recover,
         FirstSave, ReadSession, Resync, MergeRuntime, ClaimResult, Inject, Reclaim, Release,
         Flushed, Top, Model, Batch, Wait, Cleanup, Accept, AcceptSaved, LeaveBatch, CompactHistory,
         Settle, WrapUpRun, Close
    <3> QED BY <3>2, <3>3 DEF ForgottenOK
  <2>3. CarriedOK' /\ UnclaimedOK' /\ OwnedOK'
    <3>1. ~Release(r)
      BY <1>0 DEF Release, ToPlace, ClaimsOK, StraightOK, Aborted
    <3>2. CASE Load(r) \/ Recover(r) \/ ReadSession(r) \/ Resync(r)
      BY <1>0, <3>2, LoadingClaims
    <3>3. CASE MergeRuntime(r) \/ Inject(r)
      BY <1>0, <3>3, MergingClaims, InjectClaims
    <3>4. ASSUME NEW t \in Tasks, ClaimResult(r, t) PROVE CarriedOK' /\ UnclaimedOK' /\ OwnedOK'
      BY <1>0, <3>4, ClaimClaims
    <3>5. CASE Reclaim(r) \/ Flushed(r) \/ Close(r)
      BY <1>0, <3>5, LeavingClaims
    <3>6. CASE \/ BeginRun(r) \/ FirstSave(r) \/ Top(r) \/ Model(r) \/ Batch(r) \/ Wait(r)
               \/ WaitOver(r) \/ BreakOff(r) \/ Cleanup(r) \/ LeaveBatch(r) \/ CompactHistory(r) \/ Settle(r)
               \/ WrapUpRun(r)
      BY <1>0, <3>6, Idling, IdleClaims
    <3>7. ASSUME NEW t \in Tasks, Accept(r, t) PROVE CarriedOK' /\ UnclaimedOK' /\ OwnedOK'
      BY <1>0, <3>7, AcceptClaims
    <3>8. CASE AcceptSaved(r)
      BY <1>0, <3>8, AcceptSavedClaims
    <3> QED BY <1>1, <3>1, <3>2, <3>3, <3>4, <3>5, <3>6, <3>7, <3>8
          DEF OwnStep, FlushStep, TurnStep
  <2> QED BY <2>1, <2>2, <2>3 DEF ClaimsOK
<1>2. ASSUME NEW t \in Tasks, TaskStep(t) PROVE ClaimsOK'
  BY <1>0, <1>2, TaskClaims
<1>3. CASE Crash \/ Restart
  BY <1>0, <1>3, ProcessClaims
<1>4. CASE UNCHANGED taskVars
  BY <1>0, <1>4 DEF taskVars, control, background, session, ClaimsOK, ForgottenOK, StraightOK, CarriedOK,
     UnclaimedOK, Left, OwnedOK, Owned
<1> QED BY <1>0, <1>1, <1>2, <1>3, <1>4 DEF TaskNext

\* While the process is up, and as long as nothing has failed and nobody was cancelled, a
\* claim in the file belongs to a run that is still there, injecting the result; restarts do no
\* harm.  (One cancellation is enough to leave an orphan, and the run async_orphan shows it.)
THEOREM ClaimsHaveOwners == TaskSpec => [](Undisturbed /\ up => ClaimNotOrphaned)
<1>1. TaskInit => ClaimsInv
  BY ClaimsInit
<1>2. IInv /\ ClaimsInv /\ [TaskNext]_taskVars => ClaimsInv'
  BY ClaimsStep
<1>3. ClaimsInv => (Undisturbed /\ up => ClaimNotOrphaned)
  BY DEF ClaimsInv, ClaimsOK, OwnedOK, Owned, ClaimNotOrphaned
<1> QED BY <1>1, <1>2, <1>3, Inductive, PTL DEF TaskSpec
=============================================================================
