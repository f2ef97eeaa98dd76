------------------------- MODULE SessionStoreProofs -------------------------
(***************************************************************************)
(* Theorems about SessionStore, for any callers, sessions and bounds.      *)
(***************************************************************************)
EXTENDS SessionStore, SequenceTheorems, TLAPS

(***************************************************************************)
(* The inductive invariant.                                                *)
(***************************************************************************)

\* What the place of a caller says of its operation.
Committing == {"prepare", "data", "final", "publish"}
Deleting == {"locate", "move", "metadata", "undo", "putback", "restore", "unlist"}
PlacedAt(c) ==
    /\ pc[c] # "idle" => num[c] \in 1 .. calls
    /\ pc[c] \in {"read", "index", "dirty"} => op[c] # "list"
    /\ pc[c] = "read" => op[c] \in Merging
    /\ pc[c] \in Committing => op[c] \in Writing
    /\ pc[c] \in Deleting => op[c] = "delete"
    /\ op[c] # "list" => on[c] \in Sessions
Placed == \A c \in Callers: PlacedAt(c)

\* Calls in progress have numbers of their own.
Numbered ==
    \A c, d \in Callers:
        pc[c] # "idle" /\ pc[d] # "idle" /\ num[c] = num[d] => c = d

\* An entry of the recycle bin has the number of a call that has moved a session.
Moved == {"metadata", "undo", "putback", "restore", "unlist"}
FreshAt(c) == \A r \in bin: pc[c] # "idle" /\ r.call = num[c] => pc[c] \in Moved
Fresh ==
    /\ \A c \in Callers: FreshAt(c)
    /\ \A r \in bin: r.call \in 1 .. calls

HasFolder == \A s \in Sessions: data[s] # Nothing => folder[s]

\* What the holder of the lock read is what the files say, but for its own change;
\* the index is not to be believed before the change is over.
DocAgreesAt(c) ==
    /\ pc[c] \in {"heal", "prepare", "locate", "dirty", "data", "move", "restore"}
        => doc[c] = data
    /\ pc[c] = "final" => data = [doc[c] EXCEPT ![on[c]] = item[c]]
    /\ pc[c] \in {"metadata", "undo", "putback", "unlist"} =>
        data = [doc[c] EXCEPT ![on[c]] = Nothing]
    /\ pc[c] \in {"metadata", "undo", "putback"} => item[c] = doc[c][on[c]]
    /\ pc[c] \in {"data", "final", "move"} \cup Moved => ~index.ok
DocAgrees == \A c \in Callers: DocAgreesAt(c)

\* A write carries the mark of its call, and what was there if it merges, and the
\* version that follows, for a session that has a directory by then.
Carrying == {"index", "scan", "heal", "prepare", "dirty", "data"}
CarriedAt(c) ==
    op[c] \in Writing =>
        /\ pc[c] \in Carrying /\ op[c] = "save" => item[c].marks = {num[c]}
        /\ pc[c] \in Carrying /\ op[c] \in Merging =>
                item[c].marks = {num[c]} \cup data[on[c]].marks
        /\ pc[c] \in {"dirty", "data"} =>
                folder[on[c]] /\ item[c].version = data[on[c]].version + 1
        /\ pc[c] \in {"final", "publish"} =>
                num[c] \in item[c].marks /\ data[on[c]] = item[c]
Carried == \A c \in Callers: CarriedAt(c)

\* An entry of the bin that a deletion may still put back is what it carries.
HeldAt(c) ==
    pc[c] \in {"metadata", "undo", "putback"} =>
        \A r \in bin: r.call = num[c] => r.item = item[c]
Held == \A c \in Callers: HeldAt(c)

\* No event is ahead of the data.
EventsBounded ==
    \A i \in DOMAIN events:
        LET s == events[i].session IN
        /\ events[i].life \leq life[s]
        /\ events[i].life = life[s] => events[i].version \leq data[s].version

\* A write that is still to be announced is ahead of every event.
AheadAt(c) ==
    pc[c] \in {"final", "publish"} =>
        \A i \in DOMAIN events:
            events[i].session = on[c] /\ events[i].life = life[on[c]]
            => events[i].version < data[on[c]].version
Ahead == \A c \in Callers: AheadAt(c)

\* Why a deletion is being undone.
BlamedAt(c) == pc[c] \in {"undo", "putback"} => num[c] \in cancelled \/ faults > 0
Blamed == \A c \in Callers: BlamedAt(c)

IInv ==
    /\ TypeOK /\ Placed /\ Numbered /\ Fresh /\ HasFolder /\ IndexAgrees /\ DocAgrees
    /\ Carried /\ Held /\ AckedKept /\ EventsBounded /\ Ahead /\ EventsInOrder
    /\ Blamed /\ BinRecorded

-----------------------------------------------------------------------------
(***************************************************************************)
(* What a step of one caller may change.                                   *)
(***************************************************************************)
Act(c) == Call(c) \/ Step(c) \/ Cancel(c)

\* A step of one caller leaves the others where they are, and while another holds
\* the lock, the files and what is told of them too.
LEMMA Others ==
    ASSUME TypeOK, NEW c \in Callers, NEW d \in Callers, c # d, Act(c)
    PROVE  /\ pc'[d] = pc[d] /\ op'[d] = op[d] /\ on'[d] = on[d] /\ num'[d] = num[d]
           /\ doc'[d] = doc[d] /\ item'[d] = item[d]
           /\ pc[d] \in Holding => UNCHANGED <<disk, history>>
<1> USE DEF TypeOK, CallTypes, LockHeld, Holding, vars, disk, locals, budgets, history
<1>1. CASE Call(c)
  BY <1>1 DEF Call, At
<1>2. CASE Lock(c)
  BY <1>2 DEF Lock, At
<1>3. CASE ReadSession(c)
  BY <1>3 DEF ReadSession, At, Works, Goto
<1>4. CASE Refuse(c)
  BY <1>4 DEF Refuse, At, Fails, Faulty, GiveUp, Return
<1>5. CASE ReadIndex(c)
  BY <1>5 DEF ReadIndex, At, Works, Goto
<1>6. CASE DistrustIndex(c)
  BY <1>6 DEF DistrustIndex, At, Fails, Faulty, Goto
<1>7. CASE Scan(c)
  BY <1>7 DEF Scan, At, Goto
<1>8. CASE ScanFails(c)
  BY <1>8 DEF ScanFails, At, Fails, Faulty, GiveUp, Return
<1>9. CASE Heal(c)
  BY <1>9 DEF Heal, At, Works, Goto
<1>10. CASE HealForList(c)
  BY <1>10 DEF HealForList, At, Works, Return
<1>11. CASE HealFails(c)
  BY <1>11 DEF HealFails, At, Fails, Faulty, GiveUp, Return
<1>12. CASE Prepare(c)
  BY <1>12 DEF Prepare, At, Works, Goto
<1>13. CASE PrepareFails(c)
  BY <1>13 DEF PrepareFails, At, Fails, Faulty, Return
<1>14. CASE MarkDirty(c)
  BY <1>14 DEF MarkDirty, At, Goto
<1>15. CASE WriteData(c)
  BY <1>15 DEF WriteData, At, Goto
<1>16. CASE WriteIndex(c)
  BY <1>16 DEF WriteIndex, At, Goto
<1>17. CASE RenameFails(c)
  BY <1>17 DEF RenameFails, Faulty, GiveUp, Return
<1>18. CASE Publish(c)
  BY <1>18 DEF Publish, At, Return
<1>19. CASE Locate(c)
  BY <1>19 DEF Locate, At, Works, Goto
<1>20. CASE LocateFails(c)
  BY <1>20 DEF LocateFails, At, Fails, Faulty, GiveUp, Return
<1>21. CASE Move(c)
  BY <1>21 DEF Move, At, Goto
<1>22. CASE WriteMetadata(c)
  BY <1>22 DEF WriteMetadata, At, Works, Goto
<1>23. CASE MetadataFails(c)
  BY <1>23 DEF MetadataFails, At, Fails, Faulty, Goto
<1>24. CASE Undo(c)
  BY <1>24 DEF Undo, At, Works, Goto
<1>25. CASE UndoFails(c)
  BY <1>25 DEF UndoFails, At, Fails, Faulty, GiveUp, Return
<1>26. CASE PutBack(c)
  BY <1>26 DEF PutBack, At, Goto
<1>27. CASE Restore(c)
  BY <1>27 DEF Restore, At, Return
<1>28. CASE Unlist(c)
  BY <1>28 DEF Unlist, At, Works, Return
<1>29. CASE UnlistFails(c)
  BY <1>29 DEF UnlistFails, At, Fails, Faulty, GiveUp, Return
<1>30. CASE List(c)
  BY <1>30 DEF List, At, Works, Fails, Faulty, Goto
<1>31. CASE ReadDir(c)
  BY <1>31 DEF ReadDir, At, Faulty, GiveUp, Return, Goto
<1>32. CASE Cancel(c)
  BY <1>32 DEF Cancel, At
<1> QED
  BY <1>1, <1>2, <1>3, <1>4, <1>5, <1>6, <1>7, <1>8, <1>9, <1>10, <1>11, <1>12, <1>13,
      <1>14, <1>15, <1>16, <1>17, <1>18, <1>19, <1>20, <1>21, <1>22, <1>23, <1>24, <1>25,
      <1>26, <1>27, <1>28, <1>29, <1>30, <1>31, <1>32 DEF Act, Step, Rebuild, Commit,
      Delete

\* The steps after which a caller holds the lock.
LEMMA Advances ==
    ASSUME TypeOK, NEW c \in Callers, Act(c), pc'[c] \in Holding
    PROVE  \/ Lock(c) \/ ReadSession(c) \/ ReadIndex(c) \/ DistrustIndex(c) \/ Scan(c) \/
               Heal(c) \/ Prepare(c) \/ MarkDirty(c)
           \/ WriteData(c) \/ WriteIndex(c) \/ Locate(c) \/ Move(c) \/ WriteMetadata(c) \/
               MetadataFails(c) \/ Undo(c) \/ PutBack(c) \/ Cancel(c)
<1> USE DEF TypeOK, CallTypes, Holding
<1>1. CASE Call(c)
  BY <1>1 DEF Call, At
<1>2. CASE Refuse(c)
  BY <1>2 DEF Refuse, At, Fails, Faulty, GiveUp, Return
<1>3. CASE ScanFails(c)
  BY <1>3 DEF ScanFails, At, Fails, Faulty, GiveUp, Return
<1>4. CASE HealForList(c)
  BY <1>4 DEF HealForList, At, Works, Return
<1>5. CASE HealFails(c)
  BY <1>5 DEF HealFails, At, Fails, Faulty, GiveUp, Return
<1>6. CASE PrepareFails(c)
  BY <1>6 DEF PrepareFails, At, Fails, Faulty, Return
<1>7. CASE RenameFails(c)
  BY <1>7 DEF RenameFails, Faulty, GiveUp, Return
<1>8. CASE Publish(c)
  BY <1>8 DEF Publish, At, Return
<1>9. CASE LocateFails(c)
  BY <1>9 DEF LocateFails, At, Fails, Faulty, GiveUp, Return
<1>10. CASE UndoFails(c)
  BY <1>10 DEF UndoFails, At, Fails, Faulty, GiveUp, Return
<1>11. CASE Restore(c)
  BY <1>11 DEF Restore, At, Return
<1>12. CASE Unlist(c)
  BY <1>12 DEF Unlist, At, Works, Return
<1>13. CASE UnlistFails(c)
  BY <1>13 DEF UnlistFails, At, Fails, Faulty, GiveUp, Return
<1>14. CASE List(c)
  BY <1>14 DEF List, At, Works, Fails, Faulty, Goto
<1>15. CASE ReadDir(c)
  BY <1>15 DEF ReadDir, At, Faulty, GiveUp, Return, Goto
<1> QED
  BY <1>1, <1>2, <1>3, <1>4, <1>5, <1>6, <1>7, <1>8, <1>9, <1>10, <1>11, <1>12, <1>13,
      <1>14, <1>15 DEF Act, Step, Rebuild, Commit, Delete

\* The steps that change the files or the history.
LEMMA Effects ==
    ASSUME NEW c \in Callers, Act(c)
    PROVE  \/ UNCHANGED <<disk, history>>
           \/ Heal(c) \/ HealForList(c) \/ Prepare(c) \/ PrepareFails(c) \/ MarkDirty(c) \/
               WriteData(c) \/ WriteIndex(c)
           \/ Publish(c) \/ Move(c) \/ WriteMetadata(c) \/ PutBack(c) \/ Restore(c) \/
               Unlist(c)
<1> USE DEF disk, history
<1>1. CASE Call(c)
  BY <1>1 DEF Call, At
<1>2. CASE Lock(c)
  BY <1>2 DEF Lock, At
<1>3. CASE ReadSession(c)
  BY <1>3 DEF ReadSession, At, Works, Goto
<1>4. CASE Refuse(c)
  BY <1>4 DEF Refuse, At, Fails, Faulty, GiveUp, Return
<1>5. CASE ReadIndex(c)
  BY <1>5 DEF ReadIndex, At, Works, Goto
<1>6. CASE DistrustIndex(c)
  BY <1>6 DEF DistrustIndex, At, Fails, Faulty, Goto
<1>7. CASE Scan(c)
  BY <1>7 DEF Scan, At, Goto
<1>8. CASE ScanFails(c)
  BY <1>8 DEF ScanFails, At, Fails, Faulty, GiveUp, Return
<1>9. CASE HealFails(c)
  BY <1>9 DEF HealFails, At, Fails, Faulty, GiveUp, Return
<1>10. CASE RenameFails(c)
  BY <1>10 DEF RenameFails, Faulty, GiveUp, Return
<1>11. CASE Locate(c)
  BY <1>11 DEF Locate, At, Works, Goto
<1>12. CASE LocateFails(c)
  BY <1>12 DEF LocateFails, At, Fails, Faulty, GiveUp, Return
<1>13. CASE MetadataFails(c)
  BY <1>13 DEF MetadataFails, At, Fails, Faulty, Goto
<1>14. CASE Undo(c)
  BY <1>14 DEF Undo, At, Works, Goto
<1>15. CASE UndoFails(c)
  BY <1>15 DEF UndoFails, At, Fails, Faulty, GiveUp, Return
<1>16. CASE UnlistFails(c)
  BY <1>16 DEF UnlistFails, At, Fails, Faulty, GiveUp, Return
<1>17. CASE List(c)
  BY <1>17 DEF List, At, Works, Fails, Faulty, Goto
<1>18. CASE ReadDir(c)
  BY <1>18 DEF ReadDir, At, Faulty, GiveUp, Return, Goto
<1>19. CASE Cancel(c)
  BY <1>19 DEF Cancel, At
<1> QED
  BY <1>1, <1>2, <1>3, <1>4, <1>5, <1>6, <1>7, <1>8, <1>9, <1>10, <1>11, <1>12, <1>13,
      <1>14, <1>15, <1>16, <1>17, <1>18, <1>19 DEF Act, Step, Rebuild, Commit, Delete

\* A step keeps the types of the files.
LEMMA FileTypesKept ==
    ASSUME TypeOK, Placed, NEW c \in Callers, Act(c)
    PROVE  FileTypes'
<1>0. CASE UNCHANGED <<disk, history>>
  BY <1>0 DEF TypeOK, FileTypes, disk
<1> USE DEF TypeOK, FileTypes, CallTypes, Calls, Items, Nothing, Entries, Empty, Trusted,
    Untrusted, disk, Placed, PlacedAt, Committing, Deleting
<1>1. CASE Heal(c)
  BY <1>1 DEF Heal, At, Works, Goto
<1>2. CASE HealForList(c)
  BY <1>2 DEF HealForList, At, Works, Return
<1>3. CASE Prepare(c)
  BY <1>3 DEF Prepare, At, Works, Goto
<1>4. CASE PrepareFails(c)
  BY <1>4 DEF PrepareFails, At, Fails, Faulty, Return
<1>5. CASE MarkDirty(c)
  BY <1>5 DEF MarkDirty, At, Goto
<1>6. CASE WriteData(c)
  BY <1>6 DEF WriteData, At, Goto
<1>7. CASE WriteIndex(c)
  BY <1>7 DEF WriteIndex, At, Goto
<1>8. CASE Publish(c)
  BY <1>8 DEF Publish, At, Return
<1>9. CASE Move(c)
  <2>1. num[c] \in Calls /\ on[c] \in Sessions /\ data[on[c]] \in Items
    BY <1>9, StoreAssumption DEF Move, At, CountTypes
  <2>2. Record(c, FALSE) \in [call: Calls, session: Sessions, item: Items, recorded: BOOLEAN]
    BY <2>1 DEF Record
  <2> QED
    BY <1>9, <2>2 DEF Move
<1>10. CASE WriteMetadata(c)
  <2>1. \A r \in Mine(c): [r EXCEPT !.recorded = TRUE]
                \in [call: Calls, session: Sessions, item: Items, recorded: BOOLEAN]
    BY DEF Mine
  <2> DEFINE R == [call: Calls, session: Sessions, item: Items, recorded: BOOLEAN]
  <2>2. \A r \in Mine(c): [r EXCEPT !.recorded = TRUE] \in R
    BY <2>1
  <2>3. bin \subseteq R
    OBVIOUS
  <2> HIDE DEF R
  <2>4. bin' \subseteq R
    BY <1>10, <2>2, <2>3 DEF WriteMetadata
  <2> USE DEF R
  <2> QED
    BY <1>10, <2>4 DEF WriteMetadata
<1>11. CASE PutBack(c)
  BY <1>11 DEF PutBack, At, Goto
<1>12. CASE Restore(c)
  BY <1>12 DEF Restore, At, Return
<1>13. CASE Unlist(c)
  BY <1>13 DEF Unlist, At, Works, Return
<1> QED
  BY Effects, <1>0, <1>1, <1>2, <1>3, <1>4, <1>5, <1>6, <1>7, <1>8, <1>9, <1>10, <1>11,
      <1>12, <1>13

\* Returning keeps the types of the locals.
LEMMA ReturnTypes ==
    ASSUME TypeOK, NEW c \in Callers, Return(c)
    PROVE  CallTypes'
<1> USE DEF TypeOK, CallTypes
<1>1. pc' \in [Callers -> Positions] /\ op' \in [Callers -> Ops]
  BY DEF Return, Positions, Ops
<1>2. on' \in [Callers -> Sessions \cup {None}]
  BY DEF Return
<1>3. 0 \in 0 .. MaxCalls
  BY StoreAssumption
<1>4. num' \in [Callers -> 0 .. MaxCalls]
  BY <1>3 DEF Return
<1>5. Nothing \in Items /\ Empty \in Entries
  BY DEF Nothing, Items, Empty, Entries
<1>6. doc' \in [Callers -> Entries] /\ item' \in [Callers -> Items]
  BY <1>5 DEF Return
<1> QED
  BY <1>1, <1>2, <1>4, <1>6

\* So does a step to another place that types what it reads.
LEMMA GotoTypes ==
    ASSUME TypeOK, NEW c \in Callers, NEW p \in Positions, Goto(c, p),
           doc' \in [Callers -> Entries], item' \in [Callers -> Items]
    PROVE  CallTypes'
BY DEF TypeOK, CallTypes, Goto

\* A step keeps the types of the calls.
LEMMA CallTypesKept ==
    ASSUME TypeOK, Placed, NEW c \in Callers, Act(c)
    PROVE  CallTypes'
<1> USE DEF TypeOK, FileTypes, CallTypes, CountTypes
<1>1. CASE Call(c)
  <2>1. calls + 1 \in 0 .. MaxCalls
    BY <1>1, StoreAssumption DEF Call
  <2>2. num' \in [Callers -> 0 .. MaxCalls] /\ doc' = doc /\ item' = item
    BY <1>1, <2>1 DEF Call
  <2>3. /\ pc' \in [Callers -> Positions] /\ op' \in [Callers -> Ops]
        /\ on' \in [Callers -> Sessions \cup {None}]
    BY <1>1 DEF Call, Positions, Ops, Writing, Merging
  <2> QED
    BY <2>2, <2>3
<1>2. CASE Lock(c)
  <2>1. num[c] \in Calls
    BY <1>2, StoreAssumption DEF Lock, At, Placed, PlacedAt, Calls
  <2>2. [version |-> 0, marks |-> {num[c]}] \in Items
    BY <2>1 DEF Items
  <2> QED
    BY <1>2, <2>2 DEF Lock, Positions, Holding
<1>3. CASE ReadSession(c)
  <2>1. num[c] \in Calls /\ on[c] \in Sessions
    BY <1>3, StoreAssumption DEF ReadSession, At, Placed, PlacedAt, Calls
  <2>2. [version |-> 0, marks |-> {num[c]} \cup data[on[c]].marks] \in Items
    BY <2>1 DEF Items, Entries
  <2> QED
    BY <1>3, <2>2 DEF ReadSession, Goto, Positions, Holding
<1>4. CASE Refuse(c)
  BY <1>4, ReturnTypes DEF Refuse, GiveUp
<1>5. CASE ReadIndex(c)
  BY <1>5 DEF ReadIndex, At, Works, Goto, Positions, Holding, locals
<1>6. CASE DistrustIndex(c)
  BY <1>6 DEF DistrustIndex, At, Fails, Faulty, Goto, Positions, Holding, Empty, Entries,
      Nothing, Items, locals
<1>7. CASE Scan(c)
  BY <1>7 DEF Scan, At, Goto, Positions, Holding, locals
<1>8. CASE ScanFails(c)
  BY <1>8, ReturnTypes DEF ScanFails, GiveUp
<1>9. CASE Heal(c)
  BY <1>9 DEF Heal, At, Works, Goto, Positions, Holding, locals
<1>10. CASE HealForList(c)
  BY <1>10, ReturnTypes DEF HealForList, GiveUp
<1>11. CASE HealFails(c)
  BY <1>11, ReturnTypes DEF HealFails, GiveUp
<1>12. CASE Prepare(c)
  <2>1. on[c] \in Sessions
    BY <1>12 DEF Prepare, At, Placed, PlacedAt, Committing, Writing, Merging
  <2>2. doc[c][on[c]].version \in Nat /\ item[c].marks \subseteq Calls
    BY <2>1 DEF Items, Entries
  <2>3. [version |-> doc[c][on[c]].version + 1, marks |-> item[c].marks] \in Items
    BY <2>2 DEF Items
  <2> QED
    BY <1>12, <2>3 DEF Prepare, Goto, Positions, Holding
<1>13. CASE PrepareFails(c)
  BY <1>13, ReturnTypes DEF PrepareFails, GiveUp
<1>14. CASE MarkDirty(c)
  BY <1>14 DEF MarkDirty, At, Goto, Positions, Holding, locals
<1>15. CASE WriteData(c)
  BY <1>15 DEF WriteData, At, Goto, Positions, Holding, locals
<1>16. CASE WriteIndex(c)
  BY <1>16 DEF WriteIndex, At, Goto, Positions, Holding, locals
<1>17. CASE RenameFails(c)
  BY <1>17, ReturnTypes DEF RenameFails, GiveUp
<1>18. CASE Publish(c)
  BY <1>18, ReturnTypes DEF Publish, GiveUp
<1>19. CASE Locate(c)
  BY <1>19 DEF Locate, At, Works, Goto, Positions, Holding, locals
<1>20. CASE LocateFails(c)
  BY <1>20, ReturnTypes DEF LocateFails, GiveUp
<1>21. CASE Move(c)
  <2>1. data[on[c]] \in Items
    BY <1>21 DEF Move, At, Placed, PlacedAt, Deleting, Entries
  <2> QED
    BY <1>21, <2>1 DEF Move, Goto, Positions, Holding
<1>22. CASE WriteMetadata(c)
  BY <1>22 DEF WriteMetadata, At, Works, Goto, Positions, Holding, locals
<1>23. CASE MetadataFails(c)
  BY <1>23 DEF MetadataFails, At, Fails, Faulty, Goto, Positions, Holding, locals
<1>24. CASE Undo(c)
  BY <1>24 DEF Undo, At, Works, Goto, Positions, Holding, locals
<1>25. CASE UndoFails(c)
  BY <1>25, ReturnTypes DEF UndoFails, GiveUp
<1>26. CASE PutBack(c)
  BY <1>26 DEF PutBack, At, Goto, Positions, Holding, locals
<1>27. CASE Restore(c)
  BY <1>27, ReturnTypes DEF Restore, GiveUp
<1>28. CASE Unlist(c)
  BY <1>28, ReturnTypes DEF Unlist, GiveUp
<1>29. CASE UnlistFails(c)
  BY <1>29, ReturnTypes DEF UnlistFails, GiveUp
<1>30. CASE List(c)
  BY <1>30 DEF List, At, Works, Fails, Faulty, Goto, Positions, Holding, locals
<1>31. CASE ReadDir(c)
  <2>1. CASE GiveUp(c)
    BY <2>1, ReturnTypes DEF GiveUp
  <2>2. CASE Goto(c, "lock") /\ UNCHANGED <<doc, item>>
    BY <2>2 DEF Goto, Positions
  <2> QED
    BY <1>31, <2>1, <2>2 DEF ReadDir
<1>32. CASE Cancel(c)
  BY <1>32 DEF Cancel, At, Positions, Holding, locals
<1> QED
  BY <1>1, <1>2, <1>3, <1>4, <1>5, <1>6, <1>7, <1>8, <1>9, <1>10, <1>11, <1>12, <1>13,
      <1>14, <1>15, <1>16, <1>17, <1>18, <1>19, <1>20, <1>21, <1>22, <1>23, <1>24, <1>25,
      <1>26, <1>27, <1>28, <1>29, <1>30, <1>31, <1>32 DEF Act, Step, Rebuild, Commit,
      Delete

\* The lock is held by whoever is between taking and freeing it.
LEMMA LockHeldKept ==
    ASSUME TypeOK, NEW c \in Callers, Act(c)
    PROVE  LockHeld'
<1> USE DEF TypeOK, CallTypes, LockHeld, Holding, Positions
<1>1. CASE Call(c)
  BY <1>1, StoreAssumption DEF Call, At
<1>2. CASE Lock(c)
  BY <1>2, StoreAssumption DEF Lock, At
<1>3. CASE ReadSession(c)
  BY <1>3, StoreAssumption DEF ReadSession, At, Works, Goto
<1>4. CASE Refuse(c)
  BY <1>4, StoreAssumption DEF Refuse, At, Fails, Faulty, GiveUp, Return
<1>5. CASE ReadIndex(c)
  BY <1>5, StoreAssumption DEF ReadIndex, At, Works, Goto
<1>6. CASE DistrustIndex(c)
  BY <1>6, StoreAssumption DEF DistrustIndex, At, Fails, Faulty, Goto
<1>7. CASE Scan(c)
  BY <1>7, StoreAssumption DEF Scan, At, Goto
<1>8. CASE ScanFails(c)
  BY <1>8, StoreAssumption DEF ScanFails, At, Fails, Faulty, GiveUp, Return
<1>9. CASE Heal(c)
  BY <1>9, StoreAssumption DEF Heal, At, Works, Goto
<1>10. CASE HealForList(c)
  BY <1>10, StoreAssumption DEF HealForList, At, Works, Return
<1>11. CASE HealFails(c)
  BY <1>11, StoreAssumption DEF HealFails, At, Fails, Faulty, GiveUp, Return
<1>12. CASE Prepare(c)
  BY <1>12, StoreAssumption DEF Prepare, At, Works, Goto
<1>13. CASE PrepareFails(c)
  BY <1>13, StoreAssumption DEF PrepareFails, At, Fails, Faulty, Return
<1>14. CASE MarkDirty(c)
  BY <1>14, StoreAssumption DEF MarkDirty, At, Goto
<1>15. CASE WriteData(c)
  BY <1>15, StoreAssumption DEF WriteData, At, Goto
<1>16. CASE WriteIndex(c)
  BY <1>16, StoreAssumption DEF WriteIndex, At, Goto
<1>17. CASE RenameFails(c)
  BY <1>17, StoreAssumption DEF RenameFails, Faulty, GiveUp, Return
<1>18. CASE Publish(c)
  BY <1>18, StoreAssumption DEF Publish, At, Return
<1>19. CASE Locate(c)
  BY <1>19, StoreAssumption DEF Locate, At, Works, Goto
<1>20. CASE LocateFails(c)
  BY <1>20, StoreAssumption DEF LocateFails, At, Fails, Faulty, GiveUp, Return
<1>21. CASE Move(c)
  BY <1>21, StoreAssumption DEF Move, At, Goto
<1>22. CASE WriteMetadata(c)
  BY <1>22, StoreAssumption DEF WriteMetadata, At, Works, Goto
<1>23. CASE MetadataFails(c)
  BY <1>23, StoreAssumption DEF MetadataFails, At, Fails, Faulty, Goto
<1>24. CASE Undo(c)
  BY <1>24, StoreAssumption DEF Undo, At, Works, Goto
<1>25. CASE UndoFails(c)
  BY <1>25, StoreAssumption DEF UndoFails, At, Fails, Faulty, GiveUp, Return
<1>26. CASE PutBack(c)
  BY <1>26, StoreAssumption DEF PutBack, At, Goto
<1>27. CASE Restore(c)
  BY <1>27, StoreAssumption DEF Restore, At, Return
<1>28. CASE Unlist(c)
  BY <1>28, StoreAssumption DEF Unlist, At, Works, Return
<1>29. CASE UnlistFails(c)
  BY <1>29, StoreAssumption DEF UnlistFails, At, Fails, Faulty, GiveUp, Return
<1>30. CASE List(c)
  BY <1>30, StoreAssumption DEF List, At, Works, Fails, Faulty, Goto
<1>31. CASE ReadDir(c)
  BY <1>31, StoreAssumption DEF ReadDir, At, Faulty, GiveUp, Return, Goto
<1>32. CASE Cancel(c)
  BY <1>32, StoreAssumption DEF Cancel, At
<1> QED
  BY <1>1, <1>2, <1>3, <1>4, <1>5, <1>6, <1>7, <1>8, <1>9, <1>10, <1>11, <1>12, <1>13,
      <1>14, <1>15, <1>16, <1>17, <1>18, <1>19, <1>20, <1>21, <1>22, <1>23, <1>24, <1>25,
      <1>26, <1>27, <1>28, <1>29, <1>30, <1>31, <1>32 DEF Act, Step, Rebuild, Commit,
      Delete

\* What a step does to the counters, and to the number of the call.
LEMMA Budgets ==
    ASSUME TypeOK, NEW c \in Callers, Act(c)
    PROVE  /\ crashes' = crashes
           /\ calls' = calls \/ (calls < MaxCalls /\ calls' = calls + 1)
           /\ cancelled' = cancelled \/ (cancelled' = cancelled \cup {num[c]} /\ pc[c] #
               "idle")
           /\ \/ pc'[c] = "idle"
              \/ pc[c] # "idle" /\ num'[c] = num[c]
              \/ num'[c] = calls + 1
<1> USE DEF TypeOK, CallTypes, budgets, locals
<1>1. CASE Call(c)
  BY <1>1 DEF Call, At
<1>2. CASE Lock(c)
  BY <1>2 DEF Lock, At
<1>3. CASE ReadSession(c)
  BY <1>3 DEF ReadSession, At, Works, Goto
<1>4. CASE Refuse(c)
  BY <1>4 DEF Refuse, At, Fails, Faulty, GiveUp, Return
<1>5. CASE ReadIndex(c)
  BY <1>5 DEF ReadIndex, At, Works, Goto
<1>6. CASE DistrustIndex(c)
  BY <1>6 DEF DistrustIndex, At, Fails, Faulty, Goto
<1>7. CASE Scan(c)
  BY <1>7 DEF Scan, At, Goto
<1>8. CASE ScanFails(c)
  BY <1>8 DEF ScanFails, At, Fails, Faulty, GiveUp, Return
<1>9. CASE Heal(c)
  BY <1>9 DEF Heal, At, Works, Goto
<1>10. CASE HealForList(c)
  BY <1>10 DEF HealForList, At, Works, Return
<1>11. CASE HealFails(c)
  BY <1>11 DEF HealFails, At, Fails, Faulty, GiveUp, Return
<1>12. CASE Prepare(c)
  BY <1>12 DEF Prepare, At, Works, Goto
<1>13. CASE PrepareFails(c)
  BY <1>13 DEF PrepareFails, At, Fails, Faulty, Return
<1>14. CASE MarkDirty(c)
  BY <1>14 DEF MarkDirty, At, Goto
<1>15. CASE WriteData(c)
  BY <1>15 DEF WriteData, At, Goto
<1>16. CASE WriteIndex(c)
  BY <1>16 DEF WriteIndex, At, Goto
<1>17. CASE RenameFails(c)
  BY <1>17 DEF RenameFails, Faulty, GiveUp, Return
<1>18. CASE Publish(c)
  BY <1>18 DEF Publish, At, Return
<1>19. CASE Locate(c)
  BY <1>19 DEF Locate, At, Works, Goto
<1>20. CASE LocateFails(c)
  BY <1>20 DEF LocateFails, At, Fails, Faulty, GiveUp, Return
<1>21. CASE Move(c)
  BY <1>21 DEF Move, At, Goto
<1>22. CASE WriteMetadata(c)
  BY <1>22 DEF WriteMetadata, At, Works, Goto
<1>23. CASE MetadataFails(c)
  BY <1>23 DEF MetadataFails, At, Fails, Faulty, Goto
<1>24. CASE Undo(c)
  BY <1>24 DEF Undo, At, Works, Goto
<1>25. CASE UndoFails(c)
  BY <1>25 DEF UndoFails, At, Fails, Faulty, GiveUp, Return
<1>26. CASE PutBack(c)
  BY <1>26 DEF PutBack, At, Goto
<1>27. CASE Restore(c)
  BY <1>27 DEF Restore, At, Return
<1>28. CASE Unlist(c)
  BY <1>28 DEF Unlist, At, Works, Return
<1>29. CASE UnlistFails(c)
  BY <1>29 DEF UnlistFails, At, Fails, Faulty, GiveUp, Return
<1>30. CASE List(c)
  BY <1>30 DEF List, At, Works, Fails, Faulty, Goto
<1>31. CASE ReadDir(c)
  BY <1>31 DEF ReadDir, At, Faulty, GiveUp, Return, Goto
<1>32. CASE Cancel(c)
  BY <1>32 DEF Cancel, At
<1> QED
  BY <1>1, <1>2, <1>3, <1>4, <1>5, <1>6, <1>7, <1>8, <1>9, <1>10, <1>11, <1>12, <1>13,
      <1>14, <1>15, <1>16, <1>17, <1>18, <1>19, <1>20, <1>21, <1>22, <1>23, <1>24, <1>25,
      <1>26, <1>27, <1>28, <1>29, <1>30, <1>31, <1>32 DEF Act, Step, Rebuild, Commit,
      Delete

\* The counters stay within their bounds, and only grow.
LEMMA CountTypesKept ==
    ASSUME TypeOK, Placed, NEW c \in Callers, Act(c)
    PROVE  /\ CountTypes'
           /\ cancelled \subseteq cancelled'
           /\ calls' \in {calls, calls + 1}
           /\ faults' \in {faults, faults + 1}
           /\ crashes' = crashes
<1>0. calls \in Nat /\ faults \in Nat /\ MaxCalls \in Nat /\ MaxFaults \in Nat
  BY StoreAssumption DEF TypeOK, CountTypes
<1>1. /\ calls' = calls \/ (calls < MaxCalls /\ calls' = calls + 1)
      /\ crashes' = crashes
      /\ cancelled' = cancelled \/ (cancelled' = cancelled \cup {num[c]} /\ pc[c] # "idle")
  BY Budgets
<1>3. faults' = faults \/ (faults < MaxFaults /\ faults' = faults + 1)
  BY DEF Act, Step, Rebuild, Commit, Delete, Goto, Return, GiveUp, budgets, Works, Fails,
      Faulty, At, Call, Lock, ReadSession, Refuse, ReadIndex, DistrustIndex, Scan,
      ScanFails, Heal, HealForList, HealFails, Prepare, PrepareFails, MarkDirty,
      WriteData, WriteIndex, RenameFails, Publish, Locate, LocateFails, Move,
      WriteMetadata, MetadataFails, Undo, UndoFails, PutBack, Restore, Unlist,
      UnlistFails, List, ReadDir, Cancel
<1>4. pc[c] # "idle" => num[c] \in Calls
  BY <1>0 DEF TypeOK, CountTypes, Placed, PlacedAt, Calls
<1> QED
  BY <1>0, <1>1, <1>3, <1>4 DEF TypeOK, CountTypes

\* What is published is typed.
LEMMA PublishTypes ==
    ASSUME TypeOK, Placed, NEW c \in Callers, Publish(c)
    PROVE  HistoryTypes'
<1>1. on[c] \in Sessions /\ num[c] \in 1 .. calls
  BY DEF Publish, At, Writing, Merging, Placed, PlacedAt, Committing
<1>2. num[c] \in Calls
  BY <1>1, StoreAssumption DEF TypeOK, CountTypes, Calls
<1>3. item[c].version \in Nat /\ life[on[c]] \in Nat
  BY <1>1 DEF TypeOK, CallTypes, HistoryTypes, Items
<1> DEFINE e == [session |-> on[c], version |-> item[c].version, life |-> life[on[c]]]
<1>4. e \in [session: Sessions, version: Nat, life: Nat]
  BY <1>1, <1>3
<1>5. /\ events' = Append(events, e) /\ life' = life /\ replaced' = replaced
      /\ answered' = answered \cup {num[c]}
  BY DEF Publish
<1> HIDE DEF e
<1> QED
  BY <1>2, <1>4, <1>5 DEF TypeOK, HistoryTypes

\* A step keeps the types of the history.
LEMMA HistoryTypesKept ==
    ASSUME TypeOK, Placed, NEW c \in Callers, Act(c)
    PROVE  HistoryTypes'
<1> USE DEF TypeOK, FileTypes, CallTypes, HistoryTypes, history, disk, Items, Entries, Calls,
        Placed, PlacedAt, Committing, Deleting
<1>1. CASE UNCHANGED history
  BY <1>1
<1>2. CASE WriteData(c)
  BY <1>2 DEF WriteData, At
<1>3. CASE Publish(c)
  BY <1>3, PublishTypes
<1>4. CASE Move(c)
  BY <1>4 DEF Move, At
<1> QED
  BY <1>1, <1>2, <1>3, <1>4, Effects DEF Heal, HealForList, Prepare, PrepareFails,
     MarkDirty, WriteIndex, WriteMetadata, PutBack, Restore, Unlist

\* The place a step leads to fits the operation.
LEMMA PlacedOwn ==
    ASSUME TypeOK, Placed, NEW c \in Callers, Act(c)
    PROVE  PlacedAt(c)'
<1> USE DEF locals, budgets, TypeOK, CallTypes, CountTypes, Merging, Writing, Placed,
        PlacedAt, Committing, Deleting, Ops
<1>1. CASE Call(c)
  <2>1. calls' = calls + 1 /\ num'[c] = calls' /\ calls \in Nat
    BY <1>1, StoreAssumption DEF Call
  <2>2. num'[c] \in 1 .. calls'
    BY <2>1
  <2>3. pc'[c] \in {"lock", "list"} /\ (op'[c] # "list" => on'[c] \in Sessions)
    BY <1>1 DEF Call
  <2> QED
    BY <2>2, <2>3
<1>2. CASE Lock(c)
  BY <1>2 DEF Lock, At
<1>3. CASE ReadSession(c)
  BY <1>3 DEF ReadSession, At, Works, Goto
<1>4. CASE Refuse(c)
  BY <1>4 DEF Refuse, At, Fails, Faulty, GiveUp, Return
<1>5. CASE ReadIndex(c)
  BY <1>5 DEF ReadIndex, At, Works, Goto
<1>6. CASE DistrustIndex(c)
  BY <1>6 DEF DistrustIndex, At, Fails, Faulty, Goto
<1>7. CASE Scan(c)
  BY <1>7 DEF Scan, At, Goto
<1>8. CASE ScanFails(c)
  BY <1>8 DEF ScanFails, At, Fails, Faulty, GiveUp, Return
<1>9. CASE Heal(c)
  BY <1>9 DEF Heal, At, Works, Goto
<1>10. CASE HealForList(c)
  BY <1>10 DEF HealForList, At, Works, Return
<1>11. CASE HealFails(c)
  BY <1>11 DEF HealFails, At, Fails, Faulty, GiveUp, Return
<1>12. CASE Prepare(c)
  BY <1>12 DEF Prepare, At, Works, Goto
<1>13. CASE PrepareFails(c)
  BY <1>13 DEF PrepareFails, At, Fails, Faulty, Return
<1>14. CASE MarkDirty(c)
  BY <1>14 DEF MarkDirty, At, Goto
<1>15. CASE WriteData(c)
  BY <1>15 DEF WriteData, At, Goto
<1>16. CASE WriteIndex(c)
  BY <1>16 DEF WriteIndex, At, Goto
<1>17. CASE RenameFails(c)
  BY <1>17 DEF RenameFails, Faulty, GiveUp, Return
<1>18. CASE Publish(c)
  BY <1>18 DEF Publish, At, Return
<1>19. CASE Locate(c)
  BY <1>19 DEF Locate, At, Works, Goto
<1>20. CASE LocateFails(c)
  BY <1>20 DEF LocateFails, At, Fails, Faulty, GiveUp, Return
<1>21. CASE Move(c)
  BY <1>21 DEF Move, At, Goto
<1>22. CASE WriteMetadata(c)
  BY <1>22 DEF WriteMetadata, At, Works, Goto
<1>23. CASE MetadataFails(c)
  BY <1>23 DEF MetadataFails, At, Fails, Faulty, Goto
<1>24. CASE Undo(c)
  BY <1>24 DEF Undo, At, Works, Goto
<1>25. CASE UndoFails(c)
  BY <1>25 DEF UndoFails, At, Fails, Faulty, GiveUp, Return
<1>26. CASE PutBack(c)
  BY <1>26 DEF PutBack, At, Goto
<1>27. CASE Restore(c)
  BY <1>27 DEF Restore, At, Return
<1>28. CASE Unlist(c)
  BY <1>28 DEF Unlist, At, Works, Return
<1>29. CASE UnlistFails(c)
  BY <1>29 DEF UnlistFails, At, Fails, Faulty, GiveUp, Return
<1>30. CASE List(c)
  BY <1>30 DEF List, At, Works, Fails, Faulty, Goto
<1>31. CASE ReadDir(c)
  BY <1>31 DEF ReadDir, At, Faulty, GiveUp, Return, Goto
<1>32. CASE Cancel(c)
  BY <1>32 DEF Cancel, At
<1> QED
  BY <1>1, <1>2, <1>3, <1>4, <1>5, <1>6, <1>7, <1>8, <1>9, <1>10, <1>11, <1>12, <1>13,
      <1>14, <1>15, <1>16, <1>17, <1>18, <1>19, <1>20, <1>21, <1>22, <1>23, <1>24, <1>25,
      <1>26, <1>27, <1>28, <1>29, <1>30, <1>31, <1>32 DEF Act, Step, Rebuild, Commit,
      Delete

\* The number of a call gets into the bin only when it moves a session.
LEMMA FreshOwn ==
    ASSUME TypeOK, Placed, Fresh, NEW c \in Callers, Act(c)
    PROVE  FreshAt(c)'
<1> USE DEF disk, locals, TypeOK, FileTypes, CallTypes, Fresh, FreshAt, Moved, Mine
<1>1. CASE Call(c)
  BY <1>1, StoreAssumption DEF Call, At, CountTypes
<1>2. CASE Lock(c)
  BY <1>2 DEF Lock, At
<1>3. CASE ReadSession(c)
  BY <1>3 DEF ReadSession, At, Works, Goto
<1>4. CASE Refuse(c)
  BY <1>4 DEF Refuse, At, Fails, Faulty, GiveUp, Return
<1>5. CASE ReadIndex(c)
  BY <1>5 DEF ReadIndex, At, Works, Goto
<1>6. CASE DistrustIndex(c)
  BY <1>6 DEF DistrustIndex, At, Fails, Faulty, Goto
<1>7. CASE Scan(c)
  BY <1>7 DEF Scan, At, Goto
<1>8. CASE ScanFails(c)
  BY <1>8 DEF ScanFails, At, Fails, Faulty, GiveUp, Return
<1>9. CASE Heal(c)
  BY <1>9 DEF Heal, At, Works, Goto
<1>10. CASE HealForList(c)
  BY <1>10 DEF HealForList, At, Works, Return
<1>11. CASE HealFails(c)
  BY <1>11 DEF HealFails, At, Fails, Faulty, GiveUp, Return
<1>12. CASE Prepare(c)
  BY <1>12 DEF Prepare, At, Works, Goto
<1>13. CASE PrepareFails(c)
  BY <1>13 DEF PrepareFails, At, Fails, Faulty, Return
<1>14. CASE MarkDirty(c)
  BY <1>14 DEF MarkDirty, At, Goto
<1>15. CASE WriteData(c)
  BY <1>15 DEF WriteData, At, Goto
<1>16. CASE WriteIndex(c)
  BY <1>16 DEF WriteIndex, At, Goto
<1>17. CASE RenameFails(c)
  BY <1>17 DEF RenameFails, Faulty, GiveUp, Return
<1>18. CASE Publish(c)
  BY <1>18 DEF Publish, At, Return
<1>19. CASE Locate(c)
  BY <1>19 DEF Locate, At, Works, Goto
<1>20. CASE LocateFails(c)
  BY <1>20 DEF LocateFails, At, Fails, Faulty, GiveUp, Return
<1>21. CASE Move(c)
  BY <1>21 DEF Move, At, Goto
<1>22. CASE WriteMetadata(c)
  BY <1>22 DEF WriteMetadata, At, Works, Goto
<1>23. CASE MetadataFails(c)
  BY <1>23 DEF MetadataFails, At, Fails, Faulty, Goto
<1>24. CASE Undo(c)
  BY <1>24 DEF Undo, At, Works, Goto
<1>25. CASE UndoFails(c)
  BY <1>25 DEF UndoFails, At, Fails, Faulty, GiveUp, Return
<1>26. CASE PutBack(c)
  BY <1>26 DEF PutBack, At, Goto
<1>27. CASE Restore(c)
  BY <1>27 DEF Restore, At, Return
<1>28. CASE Unlist(c)
  BY <1>28 DEF Unlist, At, Works, Return
<1>29. CASE UnlistFails(c)
  BY <1>29 DEF UnlistFails, At, Fails, Faulty, GiveUp, Return
<1>30. CASE List(c)
  BY <1>30 DEF List, At, Works, Fails, Faulty, Goto
<1>31. CASE ReadDir(c)
  <2>1. CASE GiveUp(c)
    BY <2>1 DEF GiveUp, Return
  <2>2. CASE Goto(c, "lock") /\ UNCHANGED disk
    BY <1>31, <2>2 DEF ReadDir, At, Goto
  <2> QED
    BY <1>31, <2>1, <2>2 DEF ReadDir
<1>32. CASE Cancel(c)
  BY <1>32 DEF Cancel, At
<1> QED
  BY <1>1, <1>2, <1>3, <1>4, <1>5, <1>6, <1>7, <1>8, <1>9, <1>10, <1>11, <1>12, <1>13,
      <1>14, <1>15, <1>16, <1>17, <1>18, <1>19, <1>20, <1>21, <1>22, <1>23, <1>24, <1>25,
      <1>26, <1>27, <1>28, <1>29, <1>30, <1>31, <1>32 DEF Act, Step, Rebuild, Commit,
      Delete

\* The holder goes on knowing what the files say.
LEMMA DocOwn ==
    ASSUME TypeOK, Placed, HasFolder, IndexAgrees, DocAgrees, NEW c \in Callers, Act(c),
        pc'[c] \in Holding
    PROVE  DocAgreesAt(c)'
<1> USE DEF disk, locals, TypeOK, FileTypes, CallTypes, Entries, Empty, Nothing, Trusted,
        Untrusted, Merging, Writing, Placed, PlacedAt, Committing, Deleting, Moved,
        HasFolder, IndexAgrees, DocAgrees, DocAgreesAt
<1>1. CASE Lock(c)
  BY <1>1 DEF Lock, At
<1>2. CASE ReadSession(c)
  BY <1>2 DEF ReadSession, At, Works, Goto
<1>3. CASE ReadIndex(c)
  BY <1>3 DEF ReadIndex, At, Works, Goto
<1>4. CASE DistrustIndex(c)
  BY <1>4 DEF DistrustIndex, At, Fails, Faulty, Goto
<1>5. CASE Scan(c)
  BY <1>5 DEF Scan, At, Goto
<1>6. CASE Heal(c)
  BY <1>6 DEF Heal, At, Works, Goto
<1>7. CASE Prepare(c)
  BY <1>7 DEF Prepare, At, Works, Goto
<1>8. CASE MarkDirty(c)
  BY <1>8 DEF MarkDirty, At, Goto
<1>9. CASE WriteData(c)
  BY <1>9 DEF WriteData, At, Goto
<1>10. CASE WriteIndex(c)
  BY <1>10 DEF WriteIndex, At, Goto
<1>11. CASE Locate(c)
  BY <1>11 DEF Locate, At, Works, Goto
<1>12. CASE Move(c)
  BY <1>12 DEF Move, At, Goto
<1>13. CASE WriteMetadata(c)
  BY <1>13 DEF WriteMetadata, At, Works, Goto
<1>14. CASE MetadataFails(c)
  BY <1>14 DEF MetadataFails, At, Fails, Faulty, Goto
<1>15. CASE Undo(c)
  BY <1>15 DEF Undo, At, Works, Goto
<1>16. CASE PutBack(c)
  BY <1>16 DEF PutBack, At, Goto
<1>17. CASE Cancel(c)
  BY <1>17 DEF Cancel, At
<1> QED
  BY Advances, <1>1, <1>2, <1>3, <1>4, <1>5, <1>6, <1>7, <1>8, <1>9, <1>10, <1>11, <1>12,
      <1>13, <1>14, <1>15, <1>16, <1>17

\* The holder goes on carrying its mark, what was there, and the next version.
LEMMA CarriedOwn ==
    ASSUME TypeOK, Placed, DocAgrees, Carried, NEW c \in Callers, Act(c), pc'[c] \in Holding
    PROVE  CarriedAt(c)'
<1> USE DEF disk, locals, TypeOK, FileTypes, CallTypes, Entries, Items, Merging, Writing,
        Placed, PlacedAt, Committing, Deleting, DocAgrees, DocAgreesAt, Carried,
        CarriedAt, Carrying
<1>1. CASE Lock(c)
  BY <1>1 DEF Lock, At
<1>2. CASE ReadSession(c)
  BY <1>2 DEF ReadSession, At, Works, Goto
<1>3. CASE ReadIndex(c)
  BY <1>3 DEF ReadIndex, At, Works, Goto
<1>4. CASE DistrustIndex(c)
  BY <1>4 DEF DistrustIndex, At, Fails, Faulty, Goto
<1>5. CASE Scan(c)
  BY <1>5 DEF Scan, At, Goto
<1>6. CASE Heal(c)
  BY <1>6 DEF Heal, At, Works, Goto
<1>7. CASE Prepare(c)
  BY <1>7 DEF Prepare, At, Works, Goto
<1>8. CASE MarkDirty(c)
  BY <1>8 DEF MarkDirty, At, Goto
<1>9. CASE WriteData(c)
  BY <1>9 DEF WriteData, At, Goto
<1>10. CASE WriteIndex(c)
  BY <1>10 DEF WriteIndex, At, Goto
<1>11. CASE Locate(c)
  BY <1>11 DEF Locate, At, Works, Goto
<1>12. CASE Move(c)
  BY <1>12 DEF Move, At, Goto
<1>13. CASE WriteMetadata(c)
  BY <1>13 DEF WriteMetadata, At, Works, Goto
<1>14. CASE MetadataFails(c)
  BY <1>14 DEF MetadataFails, At, Fails, Faulty, Goto
<1>15. CASE Undo(c)
  BY <1>15 DEF Undo, At, Works, Goto
<1>16. CASE PutBack(c)
  BY <1>16 DEF PutBack, At, Goto
<1>17. CASE Cancel(c)
  BY <1>17 DEF Cancel, At
<1> QED
  BY Advances, <1>1, <1>2, <1>3, <1>4, <1>5, <1>6, <1>7, <1>8, <1>9, <1>10, <1>11, <1>12,
      <1>13, <1>14, <1>15, <1>16, <1>17

\* A deletion carries what it moved.
LEMMA HeldOwn ==
    ASSUME TypeOK, Placed, Fresh, Held, NEW c \in Callers, Act(c), pc'[c] \in Holding
    PROVE  HeldAt(c)'
<1> USE DEF disk, locals, TypeOK, FileTypes, CallTypes, Placed, PlacedAt, Deleting, Fresh,
        FreshAt, Held, HeldAt, Moved, Mine, Record
<1>1. CASE Lock(c)
  BY <1>1 DEF Lock, At
<1>2. CASE ReadSession(c)
  BY <1>2 DEF ReadSession, At, Works, Goto
<1>3. CASE ReadIndex(c)
  BY <1>3 DEF ReadIndex, At, Works, Goto
<1>4. CASE DistrustIndex(c)
  BY <1>4 DEF DistrustIndex, At, Fails, Faulty, Goto
<1>5. CASE Scan(c)
  BY <1>5 DEF Scan, At, Goto
<1>6. CASE Heal(c)
  BY <1>6 DEF Heal, At, Works, Goto
<1>7. CASE Prepare(c)
  BY <1>7 DEF Prepare, At, Works, Goto
<1>8. CASE MarkDirty(c)
  BY <1>8 DEF MarkDirty, At, Goto
<1>9. CASE WriteData(c)
  BY <1>9 DEF WriteData, At, Goto
<1>10. CASE WriteIndex(c)
  BY <1>10 DEF WriteIndex, At, Goto
<1>11. CASE Locate(c)
  BY <1>11 DEF Locate, At, Works, Goto
<1>12. CASE Move(c)
  <2>1. \A r \in bin: r.call # num[c]
    BY <1>12 DEF Move, At
  <2>2. bin' = bin \cup {Record(c, FALSE)} /\ item'[c] = data[on[c]] /\ num' = num
    BY <1>12 DEF Move, Goto
  <2>3. Record(c, FALSE).item = data[on[c]]
    OBVIOUS
  <2> QED
    BY <2>1, <2>2, <2>3
<1>13. CASE WriteMetadata(c)
  BY <1>13 DEF WriteMetadata, At, Works, Goto
<1>14. CASE MetadataFails(c)
  BY <1>14 DEF MetadataFails, At, Fails, Faulty, Goto
<1>15. CASE Undo(c)
  BY <1>15 DEF Undo, At, Works, Goto
<1>16. CASE PutBack(c)
  BY <1>16 DEF PutBack, At, Goto
<1>17. CASE Cancel(c)
  BY <1>17 DEF Cancel, At
<1> QED
  BY Advances, <1>1, <1>2, <1>3, <1>4, <1>5, <1>6, <1>7, <1>8, <1>9, <1>10, <1>11, <1>12,
      <1>13, <1>14, <1>15, <1>16, <1>17

\* An event in the history is an event.
LEMMA EventTypes ==
    ASSUME TypeOK, NEW i \in DOMAIN events
    PROVE  events[i] \in [session: Sessions, version: Nat, life: Nat]
<1> DEFINE E == [session: Sessions, version: Nat, life: Nat]
<1>1. events \in Seq(E)
  BY DEF TypeOK, HistoryTypes
<1>2. SUFFICES events[i] \in E
  OBVIOUS
<1> HIDE DEF E
<1> QED
  BY <1>1

\* A data file holds a version and marks.
LEMMA DataTypes ==
    ASSUME TypeOK, NEW s \in Sessions
    PROVE  data[s] \in Items /\ data[s].version \in Nat /\ data[s].marks \subseteq Calls
BY DEF TypeOK, FileTypes, Entries, Items

\* A write is ahead of every event: it is one version above what was there.
LEMMA AheadWrites ==
    ASSUME TypeOK, Placed, Carried, EventsBounded, NEW c \in Callers, WriteData(c)
    PROVE  AheadAt(c)'
<1>1. op[c] \in Writing /\ pc[c] = "data" /\ on[c] \in Sessions
  BY DEF WriteData, At, Placed, PlacedAt, Committing, Writing, Merging
<1>2. item[c].version = data[on[c]].version + 1
  BY <1>1 DEF Carried, CarriedAt
<1>3. /\ data'[on[c]] = item[c] /\ on' = on
      /\ events' = events /\ life' = life
  BY <1>1 DEF WriteData, Goto, TypeOK, FileTypes, Entries
<1>4. ASSUME NEW i \in DOMAIN events, events[i].session = on[c], events[i].life = life[on[c]]
      PROVE  events[i].version < item[c].version
  <2>1. events[i].version \leq data[on[c]].version
    BY <1>4 DEF EventsBounded
  <2>2. events[i].version \in Nat /\ data[on[c]].version \in Nat
    BY <1>1, EventTypes, DataTypes
  <2> QED
    BY <2>1, <2>2, <1>2
<1> QED
  BY <1>3, <1>4 DEF AheadAt

\* What is written is ahead of every event.
LEMMA AheadOwn ==
    ASSUME TypeOK, Placed, Carried, EventsBounded, Ahead, NEW c \in Callers, Act(c),
        pc'[c] \in Holding
    PROVE  AheadAt(c)'
<1> USE DEF disk, locals, history, TypeOK, CallTypes, Ahead, AheadAt
<1>1. CASE Lock(c)
  BY <1>1 DEF Lock, At
<1>2. CASE ReadSession(c)
  BY <1>2 DEF ReadSession, At, Works, Goto
<1>3. CASE ReadIndex(c)
  BY <1>3 DEF ReadIndex, At, Works, Goto
<1>4. CASE DistrustIndex(c)
  BY <1>4 DEF DistrustIndex, At, Fails, Faulty, Goto
<1>5. CASE Scan(c)
  BY <1>5 DEF Scan, At, Goto
<1>6. CASE Heal(c)
  BY <1>6 DEF Heal, At, Works, Goto
<1>7. CASE Prepare(c)
  BY <1>7 DEF Prepare, At, Works, Goto
<1>8. CASE MarkDirty(c)
  BY <1>8 DEF MarkDirty, At, Goto
<1>9. CASE WriteData(c)
  BY <1>9, AheadWrites DEF WriteData, At, Goto
<1>10. CASE WriteIndex(c)
  BY <1>10 DEF WriteIndex, At, Goto
<1>11. CASE Locate(c)
  BY <1>11 DEF Locate, At, Works, Goto
<1>12. CASE Move(c)
  BY <1>12 DEF Move, At, Goto
<1>13. CASE WriteMetadata(c)
  BY <1>13 DEF WriteMetadata, At, Works, Goto
<1>14. CASE MetadataFails(c)
  BY <1>14 DEF MetadataFails, At, Fails, Faulty, Goto
<1>15. CASE Undo(c)
  BY <1>15 DEF Undo, At, Works, Goto
<1>16. CASE PutBack(c)
  BY <1>16 DEF PutBack, At, Goto
<1>17. CASE Cancel(c)
  BY <1>17 DEF Cancel, At
<1> QED
  BY Advances, <1>1, <1>2, <1>3, <1>4, <1>5, <1>6, <1>7, <1>8, <1>9, <1>10, <1>11, <1>12,
      <1>13, <1>14, <1>15, <1>16, <1>17

\* A deletion is undone because something failed.
LEMMA BlamedOwn ==
    ASSUME TypeOK, Placed, Blamed, NEW c \in Callers, Act(c), pc'[c] \in Holding
    PROVE  BlamedAt(c)'
<1> USE DEF locals, budgets, TypeOK, CallTypes, Blamed, BlamedAt, CountTypes
<1>1. CASE Lock(c)
  BY <1>1 DEF Lock, At
<1>2. CASE ReadSession(c)
  BY <1>2 DEF ReadSession, At, Works, Goto
<1>3. CASE ReadIndex(c)
  BY <1>3 DEF ReadIndex, At, Works, Goto
<1>4. CASE DistrustIndex(c)
  BY <1>4 DEF DistrustIndex, At, Fails, Faulty, Goto
<1>5. CASE Scan(c)
  BY <1>5 DEF Scan, At, Goto
<1>6. CASE Heal(c)
  BY <1>6 DEF Heal, At, Works, Goto
<1>7. CASE Prepare(c)
  BY <1>7 DEF Prepare, At, Works, Goto
<1>8. CASE MarkDirty(c)
  BY <1>8 DEF MarkDirty, At, Goto
<1>9. CASE WriteData(c)
  BY <1>9 DEF WriteData, At, Goto
<1>10. CASE WriteIndex(c)
  BY <1>10 DEF WriteIndex, At, Goto
<1>11. CASE Locate(c)
  BY <1>11 DEF Locate, At, Works, Goto
<1>12. CASE Move(c)
  BY <1>12 DEF Move, At, Goto
<1>13. CASE WriteMetadata(c)
  BY <1>13 DEF WriteMetadata, At, Works, Goto
<1>14. CASE MetadataFails(c)
  BY <1>14, StoreAssumption DEF MetadataFails, At, Fails, Faulty, Goto
<1>15. CASE Undo(c)
  BY <1>15 DEF Undo, At, Works, Goto
<1>16. CASE PutBack(c)
  BY <1>16 DEF PutBack, At, Goto
<1>17. CASE Cancel(c)
  BY <1>17 DEF Cancel, At
<1> QED
  BY Advances, <1>1, <1>2, <1>3, <1>4, <1>5, <1>6, <1>7, <1>8, <1>9, <1>10, <1>11, <1>12,
      <1>13, <1>14, <1>15, <1>16, <1>17

-----------------------------------------------------------------------------
(***************************************************************************)
(* A step keeps the parts of the invariant about the callers.              *)
(***************************************************************************)

\* Every caller stays where its operation may be.
LEMMA PlacedKept ==
    ASSUME TypeOK, Placed, NEW c \in Callers, Act(c)
    PROVE  Placed'
<1>1. PlacedAt(c)'
  BY PlacedOwn
<1>2. calls' \in Nat /\ calls \in Nat /\ calls' \geq calls
  BY CountTypesKept, StoreAssumption DEF TypeOK, CountTypes
<1>3. ASSUME NEW d \in Callers, d # c
      PROVE  PlacedAt(d)'
  BY <1>2, <1>3, Others DEF Placed, PlacedAt
<1> QED
  BY <1>1, <1>3 DEF Placed

\* A new call gets a number of its own.
LEMMA NumberedKept ==
    ASSUME TypeOK, Placed, Numbered, NEW c \in Callers, Act(c)
    PROVE  Numbered'
<1>1. \/ pc'[c] = "idle"
      \/ pc[c] # "idle" /\ num'[c] = num[c]
      \/ num'[c] = calls + 1
  BY Budgets
<1>2. ASSUME NEW d \in Callers, d # c, pc'[d] # "idle", pc'[c] # "idle"
      PROVE  num'[d] # num'[c]
  <2>1. pc[d] # "idle" /\ num'[d] = num[d] /\ num[d] \in 1 .. calls
    BY <1>2, Others DEF Placed, PlacedAt
  <2>2. calls \in Nat
    BY StoreAssumption DEF TypeOK, CountTypes
  <2> QED
    BY <1>1, <1>2, <2>1, <2>2 DEF Numbered
<1>3. ASSUME NEW d \in Callers, NEW e \in Callers, d # c, e # c,
             pc'[d] # "idle", pc'[e] # "idle", num'[d] = num'[e]
      PROVE  d = e
  BY <1>3, Others DEF Numbered
<1> QED
  BY <1>2, <1>3 DEF Numbered

\* A new entry of the bin has the number of the call that moves.
LEMMA BinCalls ==
    ASSUME TypeOK, Placed, NEW c \in Callers, Act(c), NEW r \in bin'
    PROVE  (\E q \in bin: q.call = r.call) \/ (r.call = num[c] /\ Move(c))
<1>1. CASE Move(c)
  BY <1>1 DEF Move, Record
<1>2. CASE WriteMetadata(c)
  <2>1. \A q \in Mine(c): [q EXCEPT !.recorded = TRUE].call = q.call /\ q \in bin
    BY DEF Mine, TypeOK, FileTypes
  <2> QED
    BY <1>2, <2>1 DEF WriteMetadata
<1>3. CASE PutBack(c)
  BY <1>3 DEF PutBack, Mine
<1>4. CASE bin' = bin
  BY <1>4
<1> QED
  BY <1>1, <1>2, <1>3, <1>4, Effects DEF disk, Heal, HealForList, Prepare, PrepareFails,
     MarkDirty, WriteData, WriteIndex, Publish, Restore, Unlist

\* Entries of the bin keep to the numbers of the calls that moved them.
LEMMA FreshKept ==
    ASSUME TypeOK, Placed, Numbered, Fresh, NEW c \in Callers, Act(c)
    PROVE  Fresh'
<1>1. FreshAt(c)'
  BY FreshOwn
<1>2. Move(c) => pc[c] = "move" /\ num[c] \in 1 .. calls
  BY DEF Move, At, Placed, PlacedAt
<1>3. ASSUME NEW d \in Callers, d # c
      PROVE  FreshAt(d)'
  BY <1>2, <1>3, Others, BinCalls DEF Fresh, FreshAt, Numbered
<1>4. 1 .. calls \subseteq 1 .. calls'
  BY CountTypesKept, StoreAssumption DEF TypeOK, CountTypes
<1>5. \A r \in bin': r.call \in 1 .. calls'
  BY <1>2, <1>4, BinCalls DEF Fresh
<1> QED
  BY <1>1, <1>3, <1>5 DEF Fresh

\* What the holder read stays what the files say, but for its own change.
LEMMA DocsKept ==
    ASSUME TypeOK, TypeOK', Placed, HasFolder, IndexAgrees, DocAgrees,
           NEW c \in Callers, Act(c)
    PROVE  DocAgrees'
<1>1. DocAgreesAt(c)'
  <2>1. CASE pc'[c] \in Holding
    BY <2>1, DocOwn
  <2>2. CASE pc'[c] \notin Holding
    BY <2>2 DEF DocAgreesAt, Holding, Moved
  <2> QED
    BY <2>1, <2>2
<1>2. ASSUME NEW d \in Callers, d # c
      PROVE  DocAgreesAt(d)'
  BY <1>2, Others DEF DocAgrees, DocAgreesAt, Holding, Moved, disk
<1> QED
  BY <1>1, <1>2 DEF DocAgrees

\* What a write carries stays as it should be.
LEMMA CarriedKept ==
    ASSUME TypeOK, TypeOK', Placed, DocAgrees, Carried, NEW c \in Callers, Act(c)
    PROVE  Carried'
<1>1. CarriedAt(c)'
  <2>1. CASE pc'[c] \in Holding
    BY <2>1, CarriedOwn
  <2>2. CASE pc'[c] \notin Holding
    BY <2>2 DEF CarriedAt, Holding, Carrying
  <2> QED
    BY <2>1, <2>2
<1>2. ASSUME NEW d \in Callers, d # c
      PROVE  CarriedAt(d)'
  BY <1>2, Others DEF Carried, CarriedAt, Carrying, Holding, disk
<1> QED
  BY <1>1, <1>2 DEF Carried

\* What a deletion carries stays what it moved.
LEMMA HeldKept ==
    ASSUME TypeOK, Placed, Fresh, Held, NEW c \in Callers, Act(c)
    PROVE  Held'
<1>1. HeldAt(c)'
  <2>1. CASE pc'[c] \in Holding
    BY <2>1, HeldOwn
  <2>2. CASE pc'[c] \notin Holding
    BY <2>2 DEF HeldAt, Holding
  <2> QED
    BY <2>1, <2>2
<1>2. ASSUME NEW d \in Callers, d # c
      PROVE  HeldAt(d)'
  BY <1>2, Others DEF Held, HeldAt, Holding, disk
<1> QED
  BY <1>1, <1>2 DEF Held

\* A write that is still to be announced stays ahead of every event.
LEMMA AheadKept ==
    ASSUME TypeOK, Placed, Carried, EventsBounded, Ahead, NEW c \in Callers, Act(c)
    PROVE  Ahead'
<1>1. AheadAt(c)'
  <2>1. CASE pc'[c] \in Holding
    BY <2>1, AheadOwn
  <2>2. CASE pc'[c] \notin Holding
    BY <2>2 DEF AheadAt, Holding
  <2> QED
    BY <2>1, <2>2
<1>2. ASSUME NEW d \in Callers, d # c
      PROVE  AheadAt(d)'
  BY <1>2, Others DEF Ahead, AheadAt, Holding, disk, history
<1> QED
  BY <1>1, <1>2 DEF Ahead

\* A deletion that is being undone keeps its reason.
LEMMA BlamedKept ==
    ASSUME TypeOK, Placed, Blamed, NEW c \in Callers, Act(c)
    PROVE  Blamed'
<1>1. /\ cancelled \subseteq cancelled' /\ faults' \in {faults, faults + 1}
      /\ faults \in Nat
  BY CountTypesKept, StoreAssumption DEF TypeOK, CountTypes
<1>2. BlamedAt(c)'
  <2>1. CASE pc'[c] \in Holding
    BY <2>1, BlamedOwn
  <2>2. CASE pc'[c] \notin Holding
    BY <2>2 DEF BlamedAt, Holding
  <2> QED
    BY <2>1, <2>2
<1>3. ASSUME NEW d \in Callers, d # c
      PROVE  BlamedAt(d)'
  BY <1>1, <1>3, Others DEF Blamed, BlamedAt
<1> QED
  BY <1>1, <1>2, <1>3 DEF Blamed

-----------------------------------------------------------------------------
(***************************************************************************)
(* A step keeps the files in order.                                        *)
(***************************************************************************)

\* A preparation that fails may leave a directory behind; it takes none away.
LEMMA FoldersStay ==
    ASSUME TypeOK, NEW c \in Callers, PrepareFails(c), NEW s \in Sessions, folder[s]
    PROVE  folder'[s]
<1>1. DOMAIN folder = Sessions
  BY DEF TypeOK, FileTypes
<1>2. folder' = folder \/ folder' = [folder EXCEPT ![on[c]] = TRUE]
  BY DEF PrepareFails
<1>3. CASE s = on[c]
  BY <1>1, <1>2, <1>3
<1>4. CASE s # on[c]
  BY <1>1, <1>2, <1>4
<1> QED
  BY <1>3, <1>4

\* A session has a directory, and an index that is believed is right, after any step.
LEMMA FilesKept ==
    ASSUME TypeOK, Placed, HasFolder, IndexAgrees, DocAgrees, Carried,
           NEW c \in Callers, Act(c)
    PROVE  HasFolder' /\ IndexAgrees'
<1>0. CASE UNCHANGED <<disk, history>>
  BY <1>0 DEF disk, HasFolder, IndexAgrees
<1> USE DEF TypeOK, FileTypes, CallTypes, Calls, Items, Nothing, Entries, Empty, Trusted,
    Untrusted, disk, Placed, PlacedAt, Committing, Deleting, Moved, HasFolder,
    IndexAgrees, DocAgrees, DocAgreesAt, Carried, CarriedAt, Carrying, Writing, Merging
<1>1. CASE Heal(c)
  BY <1>1 DEF Heal, At, Works, Goto
<1>2. CASE HealForList(c)
  BY <1>2 DEF HealForList, At, Works, Return
<1>3. CASE Prepare(c)
  BY <1>3 DEF Prepare, At, Works, Goto
<1>4. CASE PrepareFails(c)
  <2>1. UNCHANGED <<data, index>>
    BY <1>4 DEF PrepareFails
  <2>2. \A s \in Sessions: folder[s] => folder'[s]
    BY <1>4, FoldersStay
  <2>3. HasFolder'
    BY <2>1, <2>2
  <2> QED
    BY <2>1, <2>3
<1>5. CASE MarkDirty(c)
  BY <1>5 DEF MarkDirty, At, Goto
<1>6. CASE WriteData(c)
  <2>1. /\ on[c] \in Sessions /\ op[c] \in Writing /\ pc[c] = "data"
        /\ folder[on[c]] /\ ~index.ok
    BY <1>6 DEF WriteData, At
  <2>2. data' = [data EXCEPT ![on[c]] = item[c]] /\ UNCHANGED <<folder, index>>
    BY <1>6 DEF WriteData
  <2> QED
    BY <2>1, <2>2
<1>7. CASE WriteIndex(c)
  BY <1>7 DEF WriteIndex, At, Goto
<1>8. CASE Publish(c)
  BY <1>8 DEF Publish, At, Return
<1>9. CASE Move(c)
  BY <1>9 DEF Move, At, Goto
<1>10. CASE WriteMetadata(c)
  BY <1>10 DEF WriteMetadata, At, Works, Goto
<1>11. CASE PutBack(c)
  BY <1>11 DEF PutBack, At, Goto
<1>12. CASE Restore(c)
  BY <1>12 DEF Restore, At, Return
<1>13. CASE Unlist(c)
  BY <1>13 DEF Unlist, At, Works, Return
<1> QED
  BY Effects, <1>0, <1>1, <1>2, <1>3, <1>4, <1>5, <1>6, <1>7, <1>8, <1>9, <1>10, <1>11,
      <1>12, <1>13

-----------------------------------------------------------------------------
(***************************************************************************)
(* No acknowledged write is lost.                                          *)
(***************************************************************************)
InKept(m) ==
    \/ \E s \in Sessions: m \in data[s].marks
    \/ \E r \in bin: m \in r.item.marks
    \/ m \in replaced

\* Nothing is overwritten by putting a session back.
LEMMA Emptied ==
    ASSUME TypeOK, Placed, DocAgrees, NEW c \in Callers, PutBack(c)
    PROVE  on[c] \in Sessions /\ data[on[c]] = Nothing
<1>1. pc[c] = "putback" /\ on[c] \in Sessions
  BY DEF PutBack, At, Placed, PlacedAt, Deleting
<1>2. data = [doc[c] EXCEPT ![on[c]] = Nothing]
  BY <1>1 DEF DocAgrees, DocAgreesAt
<1> QED
  BY <1>1, <1>2 DEF TypeOK, CallTypes, Entries

\* What is in the files, in the bin or replaced stays in one of them.
LEMMA KeptKept ==
    ASSUME TypeOK, Placed, DocAgrees, Carried, Held, NEW c \in Callers, Act(c)
    PROVE  \A m: InKept(m) => InKept(m)'
<1> SUFFICES ASSUME NEW m, InKept(m)
             PROVE  InKept(m)'
  OBVIOUS
<1>1. CASE UNCHANGED <<data, bin, replaced>>
  BY <1>1 DEF InKept
<1>2. CASE WriteData(c)
  <2>1. on[c] \in Sessions /\ op[c] \in Writing
    BY <1>2 DEF WriteData, At, Placed, PlacedAt, Committing, Writing, Merging
  <2>2. /\ data' = [data EXCEPT ![on[c]] = item[c]] /\ bin' = bin
        /\ replaced \subseteq replaced'
        /\ op[c] = "save" => replaced' = replaced \cup data[on[c]].marks
    BY <1>2 DEF WriteData
  <2>3. op[c] \in Merging => data[on[c]].marks \subseteq item[c].marks
    BY <1>2, <2>1 DEF WriteData, At, Carried, CarriedAt, Carrying
  <2>4. data \in Entries
    BY DEF TypeOK, FileTypes
  <2>5. data'[on[c]] = item[c] /\ \A s \in Sessions \ {on[c]}: data'[s] = data[s]
    BY <2>1, <2>2, <2>4 DEF Entries
  <2>6. CASE \E s \in Sessions: m \in data[s].marks
    <3>1. PICK s \in Sessions: m \in data[s].marks
      BY <2>6
    <3>2. CASE s # on[c]
      BY <2>5, <3>1, <3>2 DEF InKept
    <3>3. CASE s = on[c] /\ op[c] = "save"
      BY <2>2, <3>1, <3>3 DEF InKept
    <3>4. CASE s = on[c] /\ op[c] \in Merging
      BY <2>1, <2>3, <2>5, <3>1, <3>4 DEF InKept
    <3> QED
      BY <2>1, <3>2, <3>3, <3>4 DEF Writing
  <2> QED
    BY <2>2, <2>6 DEF InKept
<1>3. CASE Move(c)
  <2>1. on[c] \in Sessions /\ data \in Entries
    BY <1>3 DEF Move, At, Placed, PlacedAt, Deleting, TypeOK, FileTypes
  <2>2. /\ \A s \in Sessions \ {on[c]}: data'[s] = data[s]
        /\ bin' = bin \cup {Record(c, FALSE)} /\ replaced' = replaced
    BY <1>3, <2>1 DEF Move, Entries
  <2>3. Record(c, FALSE).item = data[on[c]]
    BY DEF Record
  <2>4. CASE \E s \in Sessions: m \in data[s].marks
    <3>1. PICK s \in Sessions: m \in data[s].marks
      BY <2>4
    <3>2. CASE s # on[c]
      BY <2>2, <3>1, <3>2 DEF InKept
    <3>3. CASE s = on[c]
      <4>1. Record(c, FALSE) \in bin' /\ m \in Record(c, FALSE).item.marks
        BY <2>2, <2>3, <3>1, <3>3
      <4> QED
        BY <4>1 DEF InKept
    <3> QED
      BY <3>2, <3>3
  <2> QED
    BY <2>2, <2>4 DEF InKept
<1>4. CASE WriteMetadata(c)
  <2>1. \A r \in Mine(c): [r EXCEPT !.recorded = TRUE].item = r.item
    BY DEF Mine, TypeOK, FileTypes
  <2>2. /\ bin' = (bin \ Mine(c)) \cup {[r EXCEPT !.recorded = TRUE]: r \in Mine(c)}
        /\ UNCHANGED <<data, replaced>>
    BY <1>4 DEF WriteMetadata, history
  <2>3. ASSUME NEW r \in bin, m \in r.item.marks
        PROVE  \E q \in bin': m \in q.item.marks
    <3>1. CASE r \in Mine(c)
      <4>1. [r EXCEPT !.recorded = TRUE] \in bin'
        BY <2>2, <3>1
      <4> QED
        BY <2>1, <2>3, <3>1, <4>1
    <3>2. CASE r \notin Mine(c)
      BY <2>2, <2>3, <3>2
    <3> QED
      BY <3>1, <3>2
  <2> QED
    BY <2>2, <2>3 DEF InKept
<1>5. CASE PutBack(c)
  <2>1. on[c] \in Sessions /\ data[on[c]].marks = {}
    BY <1>5, Emptied DEF Nothing
  <2>2. /\ data'[on[c]] = item[c] /\ \A s \in Sessions \ {on[c]}: data'[s] = data[s]
        /\ bin' = bin \ Mine(c) /\ replaced' = replaced
    BY <1>5, <2>1 DEF PutBack, history, TypeOK, FileTypes, Entries
  <2>3. \A r \in Mine(c): r.item = item[c]
    BY <1>5 DEF PutBack, At, Mine, Held, HeldAt
  <2>4. ASSUME NEW r \in bin, m \in r.item.marks
        PROVE  InKept(m)'
    BY <2>1, <2>2, <2>3, <2>4 DEF InKept
  <2>5. ASSUME NEW s \in Sessions, m \in data[s].marks
        PROVE  InKept(m)'
    BY <2>1, <2>2, <2>5 DEF InKept
  <2> QED
    BY <2>2, <2>4, <2>5 DEF InKept
<1> QED
  BY <1>1, <1>2, <1>3, <1>4, <1>5, Effects DEF disk, history, Heal, HealForList, Prepare,
     PrepareFails, MarkDirty, WriteIndex, Publish, Restore, Unlist

\* A write that is answered is in its data file.
LEMMA AckedKeptKept ==
    ASSUME TypeOK, Placed, DocAgrees, Carried, Held, AckedKept, NEW c \in Callers, Act(c)
    PROVE  AckedKept'
<1>1. /\ \A m: m \in UNION {data[s].marks: s \in Sessions}
                <=> \E s \in Sessions: m \in data[s].marks
      /\ \A m: m \in UNION {data'[s].marks: s \in Sessions}
                <=> \E s \in Sessions: m \in data'[s].marks
  OBVIOUS
<1>2. /\ \A m: m \in UNION {r.item.marks: r \in bin} <=> \E r \in bin: m \in r.item.marks
      /\ \A m: m \in UNION {r.item.marks: r \in bin'} <=> \E r \in bin': m \in r.item.marks
  OBVIOUS
<1>3. \A m \in answered: InKept(m)
  <2> DEFINE A == UNION {data[s].marks: s \in Sessions}
             B == UNION {r.item.marks: r \in bin}
  <2>1. answered \subseteq A \cup B \cup replaced
    BY DEF AckedKept
  <2>2. (\A m \in A: InKept(m)) /\ (\A m \in B: InKept(m)) /\ \A m \in replaced: InKept(m)
    BY <1>1, <1>2 DEF InKept
  <2> HIDE DEF A, B
  <2> QED
    BY <2>1, <2>2
<1>4. \A m \in answered: InKept(m)'
  BY <1>3, KeptKept
<1>5. SUFFICES \A m \in answered': InKept(m)'
  <2> DEFINE A == UNION {data'[s].marks: s \in Sessions}
             B == UNION {r.item.marks: r \in bin'}
  <2>1. \A m: InKept(m)' => m \in A \/ m \in B \/ m \in replaced'
    BY <1>1, <1>2 DEF InKept
  <2>2. (answered' \subseteq A \cup B \cup replaced') => AckedKept'
    BY DEF AckedKept
  <2> HIDE DEF A, B
  <2> QED
    BY <2>1, <2>2
<1>6. CASE answered' = answered
  BY <1>4, <1>6
<1>7. CASE Publish(c)
  <2>1. on[c] \in Sessions /\ op[c] \in Writing /\ pc[c] = "publish"
    BY <1>7 DEF Publish, At, Placed, PlacedAt, Committing, Writing, Merging
  <2>2. num[c] \in data[on[c]].marks
    BY <2>1 DEF Carried, CarriedAt
  <2>3. ASSUME NEW m, m = num[c]
        PROVE  InKept(m)'
    <3>1. InKept(m)
      BY <2>1, <2>2, <2>3 DEF InKept
    <3> QED
      BY <3>1, KeptKept
  <2>4. answered' = answered \cup {num[c]}
    BY <1>7 DEF Publish
  <2> QED
    BY <1>4, <2>3, <2>4
<1> QED
  BY <1>6, <1>7, Effects DEF history, Heal, HealForList, Prepare, PrepareFails,
     MarkDirty, WriteData, WriteIndex, Move, WriteMetadata, PutBack, Restore, Unlist

-----------------------------------------------------------------------------
(***************************************************************************)
(* Events come in the order of the versions.                               *)
(***************************************************************************)

\* The steps that change no session and publish nothing.
LEMMA Quiet ==
    ASSUME NEW c \in Callers, Act(c), ~WriteData(c), ~Publish(c), ~Move(c), ~PutBack(c)
    PROVE  UNCHANGED <<data, events, life>>
BY Effects DEF disk, history, Heal, HealForList, Prepare, PrepareFails, MarkDirty,
   WriteIndex, WriteMetadata, Restore, Unlist

\* An event is an old one or the one that is published, which is the last.
LEMMA Appended ==
    ASSUME TypeOK, NEW c \in Callers, Publish(c), NEW i \in DOMAIN events'
    PROVE  \/ i \in DOMAIN events /\ events'[i] = events[i]
           \/ /\ \A j \in DOMAIN events: j < i
              /\ events'[i] = [session |-> on[c], version |-> item[c].version,
                               life |-> life[on[c]]]
<1> DEFINE e == [session |-> on[c], version |-> item[c].version, life |-> life[on[c]]]
           E == [session: Sessions, version: Nat, life: Nat]
<1>1. events' = Append(events, e) /\ events \in Seq(E)
  BY DEF Publish, TypeOK, HistoryTypes
<1> HIDE DEF e, E
<1>2. /\ DOMAIN events' = 1 .. Len(events) + 1 /\ DOMAIN events = 1 .. Len(events)
      /\ Len(events) \in Nat
  BY <1>1
<1>3. i \in DOMAIN events => events'[i] = events[i]
  BY <1>1, <1>2
<1>4. i \notin DOMAIN events => i = Len(events) + 1 /\ events'[i] = e
  BY <1>1, <1>2
<1>5. i = Len(events) + 1 => \A j \in DOMAIN events: j < i
  BY <1>2
<1> QED
  BY <1>3, <1>4, <1>5 DEF e

\* Nothing comes after what is published last.
LEMMA NoLaterThanNew ==
    ASSUME TypeOK, NEW c \in Callers, Publish(c), NEW i \in DOMAIN events',
           NEW j \in DOMAIN events', i < j
    PROVE  i \in DOMAIN events /\ events'[i] = events[i]
<1> DEFINE e == [session |-> on[c], version |-> item[c].version, life |-> life[on[c]]]
           E == [session: Sessions, version: Nat, life: Nat]
<1>1. events' = Append(events, e) /\ events \in Seq(E)
  BY DEF Publish, TypeOK, HistoryTypes
<1> HIDE DEF e, E
<1> QED
  BY <1>1

\* No event gets ahead of the data.
LEMMA EventsBoundedKept ==
    ASSUME TypeOK, Placed, DocAgrees, Carried, EventsBounded, NEW c \in Callers, Act(c)
    PROVE  EventsBounded'
<1>0. \A i \in DOMAIN events:
        /\ events[i].session \in Sessions /\ events[i].version \in Nat /\ events[i].life
            \in Nat
        /\ events[i].life \leq life[events[i].session]
        /\ events[i].life = life[events[i].session]
            => events[i].version \leq data[events[i].session].version
  BY EventTypes DEF EventsBounded
<1>1. CASE UNCHANGED <<data, events, life>>
  BY <1>1 DEF EventsBounded
<1>2. CASE WriteData(c)
  <2>1. on[c] \in Sessions /\ item[c].version = data[on[c]].version + 1
    BY <1>2 DEF WriteData, At, Placed, PlacedAt, Committing, Writing, Merging, Carried,
       CarriedAt
  <2>2. /\ data'[on[c]] = item[c] /\ \A s \in Sessions \ {on[c]}: data'[s] = data[s]
        /\ UNCHANGED <<events, life>>
    BY <1>2, <2>1 DEF WriteData, TypeOK, FileTypes, Entries
  <2>3. data[on[c]].version \in Nat
    BY <2>1, DataTypes
  <2>4. ASSUME NEW i \in DOMAIN events, events[i].life = life[events[i].session]
        PROVE  events[i].version \leq data'[events[i].session].version
    BY <1>0, <2>1, <2>2, <2>3, <2>4
  <2> QED
    BY <1>0, <2>2, <2>4 DEF EventsBounded
<1>3. CASE Publish(c)
  <2>1. on[c] \in Sessions /\ data[on[c]] = item[c]
    BY <1>3 DEF Publish, At, Placed, PlacedAt, Committing, Writing, Merging, Carried,
       CarriedAt
  <2>2. UNCHANGED <<data, life>>
    BY <1>3 DEF Publish, disk
  <2>3. life[on[c]] \in Nat /\ item[c].version \in Nat
    BY <2>1, DataTypes DEF TypeOK, HistoryTypes
  <2>4. ASSUME NEW i \in DOMAIN events'
        PROVE  /\ events'[i].life \leq life[events'[i].session]
               /\ events'[i].life = life[events'[i].session]
                    => events'[i].version \leq data[events'[i].session].version
    <3>1. CASE i \in DOMAIN events /\ events'[i] = events[i]
      BY <1>0, <3>1
    <3>2. CASE events'[i] = [session |-> on[c], version |-> item[c].version,
                             life |-> life[on[c]]]
      BY <2>1, <2>3, <3>2
    <3> QED
      BY <1>3, <3>1, <3>2, Appended
  <2> QED
    BY <2>2, <2>4 DEF EventsBounded
<1>4. CASE Move(c)
  <2>1. on[c] \in Sessions
    BY <1>4 DEF Move, At, Placed, PlacedAt, Deleting
  <2>2. /\ \A s \in Sessions \ {on[c]}: data'[s] = data[s] /\ life'[s] = life[s]
        /\ life'[on[c]] = life[on[c]] + 1 /\ life[on[c]] \in Nat /\ events' = events
    BY <1>4, <2>1 DEF Move, TypeOK, FileTypes, HistoryTypes, Entries
  <2>3. ASSUME NEW i \in DOMAIN events
        PROVE  /\ events[i].life \leq life'[events[i].session]
               /\ events[i].life = life'[events[i].session]
                    => events[i].version \leq data'[events[i].session].version
    BY <1>0, <2>1, <2>2
  <2> QED
    BY <2>2, <2>3 DEF EventsBounded
<1>5. CASE PutBack(c)
  <2>1. on[c] \in Sessions /\ data[on[c]].version = 0
    BY <1>5, Emptied DEF Nothing
  <2>2. /\ data'[on[c]] = item[c] /\ \A s \in Sessions \ {on[c]}: data'[s] = data[s]
        /\ UNCHANGED <<events, life>> /\ item[c].version \in Nat
    BY <1>5, <2>1 DEF PutBack, history, TypeOK, FileTypes, CallTypes, Entries, Items
  <2>3. ASSUME NEW i \in DOMAIN events, events[i].life = life[events[i].session]
        PROVE  events[i].version \leq data'[events[i].session].version
    BY <1>0, <2>1, <2>2, <2>3
  <2> QED
    BY <1>0, <2>2, <2>3 DEF EventsBounded
<1> QED
  BY <1>1, <1>2, <1>3, <1>4, <1>5, Quiet

\* What is published has a greater version than what was published before.
LEMMA EventsInOrderKept ==
    ASSUME TypeOK, Placed, Carried, Ahead, EventsInOrder, NEW c \in Callers, Act(c)
    PROVE  EventsInOrder'
<1>1. CASE events' = events
  BY <1>1 DEF EventsInOrder
<1>2. CASE Publish(c)
  <2>1. pc[c] = "publish" /\ data[on[c]] = item[c]
    BY <1>2 DEF Publish, At, Placed, PlacedAt, Committing, Carried, CarriedAt
  <2>2. ASSUME NEW i \in DOMAIN events', NEW j \in DOMAIN events', i < j,
               events'[i].session = events'[j].session, events'[i].life = events'[j].life
        PROVE  events'[i].version < events'[j].version
    <3>1. i \in DOMAIN events /\ events'[i] = events[i]
      BY <1>2, <2>2, NoLaterThanNew
    <3>2. CASE j \in DOMAIN events /\ events'[j] = events[j]
      BY <2>2, <3>1, <3>2 DEF EventsInOrder
    <3>3. CASE events'[j] = [session |-> on[c], version |-> item[c].version,
                             life |-> life[on[c]]]
      <4>1. events[i].session = on[c] /\ events[i].life = life[on[c]]
        BY <2>2, <3>1, <3>3
      <4>2. events[i].version < data[on[c]].version
        BY <2>1, <3>1, <4>1 DEF Ahead, AheadAt
      <4> QED
        BY <2>1, <3>1, <3>3, <4>2
    <3> QED
      BY <1>2, <3>2, <3>3, Appended
  <2> QED
    BY <2>2 DEF EventsInOrder
<1> QED
  BY <1>1, <1>2, Effects DEF history, Heal, HealForList, Prepare, PrepareFails, MarkDirty,
     WriteData, WriteIndex, Move, WriteMetadata, PutBack, Restore, Unlist

-----------------------------------------------------------------------------
(***************************************************************************)
(* What is in the recycle bin is accounted for.                            *)
(***************************************************************************)

\* The steps of a deletion that has an entry in its hands.
LEMMA Movers ==
    ASSUME NEW c \in Callers, Act(c), pc[c] \in {"metadata", "undo", "putback"}
    PROVE  \/ WriteMetadata(c) \/ MetadataFails(c) \/ Undo(c) \/ UndoFails(c) \/ PutBack(c)
           \/ RenameFails(c) \/ Cancel(c)
<1>1. CASE Call(c)
  BY <1>1 DEF Call, At
<1>2. CASE Lock(c)
  BY <1>2 DEF Lock, At
<1>3. CASE ReadSession(c)
  BY <1>3 DEF ReadSession, At, Works, Goto
<1>4. CASE Refuse(c)
  BY <1>4 DEF Refuse, At, Fails, Faulty, GiveUp, Return
<1>5. CASE ReadIndex(c)
  BY <1>5 DEF ReadIndex, At, Works, Goto
<1>6. CASE DistrustIndex(c)
  BY <1>6 DEF DistrustIndex, At, Fails, Faulty, Goto
<1>7. CASE Scan(c)
  BY <1>7 DEF Scan, At, Goto
<1>8. CASE ScanFails(c)
  BY <1>8 DEF ScanFails, At, Fails, Faulty, GiveUp, Return
<1>9. CASE Heal(c)
  BY <1>9 DEF Heal, At, Works, Goto
<1>10. CASE HealForList(c)
  BY <1>10 DEF HealForList, At, Works, Return
<1>11. CASE HealFails(c)
  BY <1>11 DEF HealFails, At, Fails, Faulty, GiveUp, Return
<1>12. CASE Prepare(c)
  BY <1>12 DEF Prepare, At, Works, Goto
<1>13. CASE PrepareFails(c)
  BY <1>13 DEF PrepareFails, At, Fails, Faulty, Return
<1>14. CASE MarkDirty(c)
  BY <1>14 DEF MarkDirty, At, Goto
<1>15. CASE WriteData(c)
  BY <1>15 DEF WriteData, At, Goto
<1>16. CASE WriteIndex(c)
  BY <1>16 DEF WriteIndex, At, Goto
<1>17. CASE Publish(c)
  BY <1>17 DEF Publish, At, Return
<1>18. CASE Locate(c)
  BY <1>18 DEF Locate, At, Works, Goto
<1>19. CASE LocateFails(c)
  BY <1>19 DEF LocateFails, At, Fails, Faulty, GiveUp, Return
<1>20. CASE Move(c)
  BY <1>20 DEF Move, At, Goto
<1>21. CASE Restore(c)
  BY <1>21 DEF Restore, At, Return
<1>22. CASE Unlist(c)
  BY <1>22 DEF Unlist, At, Works, Return
<1>23. CASE UnlistFails(c)
  BY <1>23 DEF UnlistFails, At, Fails, Faulty, GiveUp, Return
<1>24. CASE List(c)
  BY <1>24 DEF List, At, Works, Fails, Faulty, Goto
<1>25. CASE ReadDir(c)
  BY <1>25 DEF ReadDir, At, Faulty, GiveUp, Return, Goto
<1> QED
  BY <1>1, <1>2, <1>3, <1>4, <1>5, <1>6, <1>7, <1>8, <1>9, <1>10, <1>11, <1>12, <1>13,
      <1>14, <1>15, <1>16, <1>17, <1>18, <1>19, <1>20, <1>21, <1>22, <1>23, <1>24, <1>25
      DEF Act, Step, Rebuild, Commit, Delete

\* The deletion that has the entry in its hands goes on, or is to blame.
LEMMA MovedOn ==
    ASSUME TypeOK, Blamed, NEW c \in Callers, Act(c), NEW r \in bin, r \in bin',
           ~r.recorded, pc[c] \in {"metadata", "undo", "putback"}, num[c] = r.call
    PROVE  BeingMoved(r)' \/ r.call \in cancelled' \/ faults' > 1
<1> USE DEF TypeOK, CallTypes, CountTypes
<1>0. faults \in Nat
  BY StoreAssumption
<1>1. CASE WriteMetadata(c)
  <2>1. r \in Mine(c) /\ \A q \in Mine(c): [q EXCEPT !.recorded = TRUE].recorded = TRUE
    BY DEF Mine, FileTypes
  <2> QED
    BY <1>1, <2>1 DEF WriteMetadata
<1>2. CASE MetadataFails(c)
  BY <1>2 DEF MetadataFails, Goto, BeingMoved
<1>3. CASE Undo(c)
  BY <1>3 DEF Undo, Goto, BeingMoved
<1>4. CASE UndoFails(c)
  <2>1. UNCHANGED cancelled /\ (num[c] \in cancelled \/ faults' = faults + 1)
    BY <1>4 DEF UndoFails, Fails, Faulty, GiveUp, Return, budgets
  <2>2. num[c] \in cancelled \/ faults > 0
    BY <1>4 DEF UndoFails, At, Blamed, BlamedAt
  <2> QED
    BY <1>0, <2>1, <2>2
<1>5. CASE PutBack(c)
  BY <1>5 DEF PutBack, Mine
<1>6. CASE RenameFails(c)
  <2>1. UNCHANGED cancelled /\ faults' = faults + 1 /\ pc[c] = "putback"
    BY <1>6 DEF RenameFails, Faulty, GiveUp, Return, budgets
  <2>2. num[c] \in cancelled \/ faults > 0
    BY <2>1 DEF Blamed, BlamedAt
  <2> QED
    BY <1>0, <2>1, <2>2
<1>7. CASE Cancel(c)
  BY <1>7 DEF Cancel, locals, BeingMoved
<1> QED
  BY <1>1, <1>2, <1>3, <1>4, <1>5, <1>6, <1>7, Movers

\* An entry is old, or old and recorded now, or just moved.
LEMMA Entered ==
    ASSUME TypeOK, NEW c \in Callers, Act(c), NEW r \in bin'
    PROVE  r \in bin \/ r.recorded \/ (Move(c) /\ r = Record(c, FALSE))
<1>1. CASE Move(c)
  BY <1>1 DEF Move
<1>2. CASE WriteMetadata(c)
  <2>1. \A q \in Mine(c): [q EXCEPT !.recorded = TRUE].recorded = TRUE
    BY DEF Mine, TypeOK, FileTypes
  <2> QED
    BY <1>2, <2>1 DEF WriteMetadata
<1>3. CASE PutBack(c)
  BY <1>3 DEF PutBack
<1>4. CASE bin' = bin
  BY <1>4
<1> QED
  BY <1>1, <1>2, <1>3, <1>4, Effects DEF disk, Heal, HealForList, Prepare, PrepareFails,
     MarkDirty, WriteData, WriteIndex, Publish, Restore, Unlist

\* An entry of the bin stays accounted for.
LEMMA BinRecordedKept ==
    ASSUME TypeOK, Placed, Blamed, BinRecorded, NEW c \in Callers, Act(c)
    PROVE  BinRecorded'
<1>1. /\ crashes' = crashes /\ cancelled \subseteq cancelled'
      /\ faults' \in {faults, faults + 1} /\ faults \in Nat
  BY CountTypesKept, StoreAssumption DEF TypeOK, CountTypes
<1>2. SUFFICES ASSUME NEW r \in bin', ~r.recorded
               PROVE  BeingMoved(r)' \/ crashes' > 0 \/ r.call \in cancelled' \/ faults' > 1
  BY DEF BinRecorded
<1>3. CASE Move(c) /\ r = Record(c, FALSE)
  BY <1>3 DEF Move, Goto, Record, BeingMoved, TypeOK, CallTypes
<1>4. CASE r \in bin /\ BeingMoved(r)
  <2>1. PICK d \in Callers: pc[d] \in {"metadata", "undo", "putback"} /\ num[d] = r.call
    BY <1>4 DEF BeingMoved
  <2>2. CASE d = c
    BY <1>2, <1>4, <2>1, <2>2, MovedOn
  <2>3. CASE d # c
    BY <2>1, <2>3, Others DEF BeingMoved
  <2> QED
    BY <2>2, <2>3
<1>5. CASE r \in bin /\ ~BeingMoved(r)
  BY <1>1, <1>2, <1>5 DEF BinRecorded
<1> QED
  BY <1>2, <1>3, <1>4, <1>5, Entered

-----------------------------------------------------------------------------
(***************************************************************************)
(* The whole invariant.                                                    *)
(***************************************************************************)

\* The initial state satisfies the invariant.
LEMMA Initially == Init => IInv
<1> SUFFICES ASSUME Init
             PROVE  IInv
  OBVIOUS
<1> USE DEF Init
<1>1. Nothing \in Items /\ Empty \in Entries /\ \A s \in Sessions: data[s] = Nothing
  BY DEF Nothing, Items, Empty, Entries
<1>2. FileTypes
  BY <1>1 DEF FileTypes, Untrusted
<1>3. CallTypes
  BY <1>1, StoreAssumption DEF CallTypes, Positions, Ops
<1>4. CountTypes /\ HistoryTypes
  BY StoreAssumption DEF CountTypes, HistoryTypes
<1>5. LockHeld
  BY StoreAssumption DEF LockHeld, Holding
<1>6. Placed /\ Numbered /\ Fresh
  BY DEF Placed, PlacedAt, Committing, Deleting, Numbered, Fresh, FreshAt
<1>7. HasFolder /\ IndexAgrees /\ DocAgrees
  BY <1>1 DEF HasFolder, IndexAgrees, Untrusted, DocAgrees, DocAgreesAt, Moved
<1>8. Carried /\ Held /\ Ahead /\ Blamed
  BY DEF Carried, CarriedAt, Carrying, Writing, Merging, Held, HeldAt, Ahead, AheadAt,
     Blamed, BlamedAt
<1>9. AckedKept /\ EventsBounded /\ EventsInOrder /\ BinRecorded
  BY DEF AckedKept, EventsBounded, EventsInOrder, BinRecorded
<1> QED
  BY <1>2, <1>3, <1>4, <1>5, <1>6, <1>7, <1>8, <1>9 DEF IInv, TypeOK

\* Every step of a caller keeps it,
LEMMA StepKeeps ==
    ASSUME IInv, NEW c \in Callers, Act(c)
    PROVE  IInv'
<1> USE DEF IInv
<1>1. TypeOK'
  BY FileTypesKept, CallTypesKept, LockHeldKept, CountTypesKept, HistoryTypesKept DEF TypeOK
<1>2. Placed' /\ Numbered' /\ Fresh'
  BY PlacedKept, NumberedKept, FreshKept
<1>3. HasFolder' /\ IndexAgrees' /\ DocAgrees'
  BY <1>1, FilesKept, DocsKept
<1>4. Carried' /\ Held' /\ Ahead' /\ Blamed'
  BY <1>1, CarriedKept, HeldKept, AheadKept, BlamedKept
<1>5. AckedKept' /\ EventsBounded' /\ EventsInOrder' /\ BinRecorded'
  BY AckedKeptKept, EventsBoundedKept, EventsInOrderKept, BinRecordedKept
<1> QED
  BY <1>1, <1>2, <1>3, <1>4, <1>5

\* a restart keeps it,
LEMMA RestartKeeps ==
    ASSUME IInv, Restart
    PROVE  IInv'
<1> USE DEF IInv, Restart
<1>0. UNCHANGED <<data, folder, bin, faults, calls, cancelled, events, life, answered,
    replaced>>
  BY DEF history
<1>1. Nothing \in Items /\ Empty \in Entries
  BY DEF Nothing, Items, Empty, Entries
<1>2. FileTypes'
  <2>1. data \in Entries /\ index \in [ok: BOOLEAN, entries: Entries]
    BY DEF TypeOK, FileTypes
  <2> HIDE DEF IInv
  <2>5. index' \in [ok: BOOLEAN, entries: Entries]
    <3>1. CASE index' = Trusted(data)
      BY <2>1, <3>1 DEF Trusted
    <3>2. CASE index' = index
      BY <2>1, <3>2
    <3>3. CASE index' = Untrusted
      BY <1>1, <3>3 DEF Untrusted
    <3> QED
      BY <3>1, <3>2, <3>3
  <2> QED
    BY <1>0, <2>5 DEF IInv, TypeOK, FileTypes
<1>3. CallTypes'
  BY <1>1, StoreAssumption DEF CallTypes, Positions, Ops
<1>4. CountTypes' /\ HistoryTypes' /\ crashes' > 0
  BY <1>0, StoreAssumption DEF TypeOK, CountTypes, HistoryTypes
<1>5. LockHeld'
  BY StoreAssumption DEF LockHeld, Holding
<1>6. Placed' /\ Numbered' /\ Fresh'
  BY <1>0 DEF Placed, PlacedAt, Committing, Deleting, Numbered, Fresh, FreshAt
<1>7. HasFolder' /\ DocAgrees'
  BY <1>0 DEF HasFolder, DocAgrees, DocAgreesAt, Moved
<1>8. IndexAgrees'
  BY <1>0 DEF IndexAgrees, Trusted, Untrusted
<1>9. Carried' /\ Held' /\ Ahead' /\ Blamed'
  BY DEF Carried, CarriedAt, Carrying, Writing, Merging, Held, HeldAt, Ahead, AheadAt,
     Blamed, BlamedAt
<1>10. AckedKept' /\ EventsBounded' /\ EventsInOrder'
  BY <1>0 DEF AckedKept, EventsBounded, EventsInOrder
<1>11. BinRecorded'
  BY <1>4 DEF BinRecorded
<1> QED
  BY <1>2, <1>3, <1>4, <1>5, <1>6, <1>7, <1>8, <1>9, <1>10, <1>11 DEF TypeOK

\* and so does a stuttering step.
LEMMA StutterKeeps ==
    ASSUME IInv, UNCHANGED vars
    PROVE  IInv'
<1> USE DEF IInv, vars, disk, locals, budgets, history
<1>1. TypeOK'
  BY DEF TypeOK, FileTypes, CallTypes, CountTypes, HistoryTypes, LockHeld
<1>2. Placed' /\ Numbered' /\ Fresh' /\ HasFolder' /\ IndexAgrees' /\ DocAgrees'
  BY DEF Placed, PlacedAt, Numbered, Fresh, FreshAt, HasFolder, IndexAgrees, DocAgrees,
     DocAgreesAt
<1>3. Carried' /\ Held' /\ Ahead' /\ Blamed'
  BY DEF Carried, CarriedAt, Held, HeldAt, Ahead, AheadAt, Blamed, BlamedAt
<1>4. AckedKept' /\ EventsBounded' /\ EventsInOrder'
  BY DEF AckedKept, EventsBounded, EventsInOrder
<1>5. BinRecorded'
  BY DEF BinRecorded, BeingMoved
<1> QED
  BY <1>1, <1>2, <1>3, <1>4, <1>5

\* The invariant holds in every state of every behaviour of the store.
THEOREM Inductive == Spec => []IInv
<1>1. ASSUME IInv, [Next]_vars
      PROVE  IInv'
  <2>1. CASE \E c \in Callers: Act(c)
    BY <1>1, <2>1, StepKeeps
  <2>2. CASE Restart
    BY <1>1, <2>2, RestartKeeps
  <2>3. CASE UNCHANGED vars
    BY <1>1, <2>3, StutterKeeps
  <2> QED
    BY <1>1, <2>1, <2>2, <2>3 DEF Next, Act
<1> QED
  BY Initially, <1>1, PTL DEF Spec

\* Every variable keeps its type, and the holder of the writers' lock is whoever is
\* between taking and freeing it.
THEOREM Typing == Spec => []TypeOK
<1>1. IInv => TypeOK
  BY DEF IInv
<1> QED
  BY Inductive, <1>1, PTL

\* An index that is believed says what the data files say: after any failure, race or
\* restart, for any number of callers and sessions.
THEOREM IndexNeverStale == Spec => []IndexAgrees
<1>1. IInv => IndexAgrees
  BY DEF IInv
<1> QED
  BY Inductive, <1>1, PTL

\* A write that was answered with success is never lost.
THEOREM NoUpdateLost == Spec => []AckedKept
<1>1. IInv => AckedKept
  BY DEF IInv
<1> QED
  BY Inductive, <1>1, PTL

\* The versions announced of a session grow as long as it is not deleted.
THEOREM Ordered == Spec => []EventsInOrder
<1>1. IInv => EventsInOrder
  BY DEF IInv
<1> QED
  BY Inductive, <1>1, PTL

\* An entry of the recycle bin without its record has a restart, a cancelled deletion or
\* two failures behind it.
THEOREM BinAccounted == Spec => []BinRecorded
<1>1. IInv => BinRecorded
  BY DEF IInv
<1> QED
  BY Inductive, <1>1, PTL

-----------------------------------------------------------------------------
(***************************************************************************)
(* SessionStore implements SessionLedger: to whoever looks at the sessions *)
(* and at the events, the files, the index, the locks and all the ways to  *)
(* fail amount to a table.                                                 *)
(***************************************************************************)

\* The places where a change is begun and not over.
Marked == {"final", "publish", "metadata", "undo", "putback"}

OpenOf(c) ==
    IF pc[c] \in {"final", "publish"}
    THEN [kind |-> "write", session |-> on[c], item |-> item[c]]
    ELSE [kind |-> "remove", session |-> on[c], item |-> item[c]]

Closed == [kind |-> "none"]

\* What is open is the holder's change.
LEMMA Opened ==
    ASSUME TypeOK, NEW c \in Callers, pc[c] \in Marked
    PROVE  Open = OpenOf(c)
<1>1. writers = c /\ c # None
  BY StoreAssumption DEF TypeOK, LockHeld, Holding, Marked
<1> QED
  BY <1>1 DEF Open, OpenOf, Marked

\* The same after a step.
LEMMA OpenedNext ==
    ASSUME TypeOK', NEW c \in Callers, pc'[c] \in Marked
    PROVE  Open' = OpenOf(c)'
<1>1. writers' = c /\ c # None
  BY StoreAssumption DEF TypeOK, LockHeld, Holding, Marked
<1> QED
  BY <1>1 DEF Open, OpenOf, Marked

\* Nothing is open while the holder is elsewhere.
LEMMA NotOpened ==
    ASSUME TypeOK, NEW c \in Callers, writers \in {c, None}, pc[c] \notin Marked
    PROVE  Open = Closed
BY DEF Open, Closed, Marked

\* The same after a step.
LEMMA NotOpenedNext ==
    ASSUME TypeOK', NEW c \in Callers, writers' \in {c, None}, pc'[c] \notin Marked
    PROVE  Open' = Closed
BY DEF Open, Closed, Marked

\* Where the caller holds the lock before or after its step, no other caller does.
LEMMA Alone ==
    ASSUME TypeOK, TypeOK', NEW c \in Callers, Act(c),
           pc[c] \in Holding \/ writers \in {c, None}
    PROVE  writers \in {c, None} /\ writers' \in {c, None}
<1>1. writers \in {c, None}
  BY DEF TypeOK, LockHeld
<1>2. ASSUME NEW d \in Callers, writers' = d, d # c
      PROVE  FALSE
  <2>1. pc'[d] \in Holding
    BY <1>2 DEF TypeOK, LockHeld
  <2>2. pc[d] \in Holding
    BY <1>2, <2>1, Others
  <2> QED
    BY <1>1, <1>2, <2>2, StoreAssumption DEF TypeOK, LockHeld
<1> QED
  BY <1>1, <1>2 DEF TypeOK, LockHeld

\* A step outside the marked places opens and closes nothing.
LEMMA Untouched ==
    ASSUME TypeOK, TypeOK', NEW c \in Callers, Act(c), pc[c] \notin Marked, pc'[c] \notin Marked
    PROVE  Open' = Open
<1>1. CASE writers \in {c, None}
  BY <1>1, Alone, NotOpened, NotOpenedNext
<1>2. CASE writers \notin {c, None}
  <2>1. PICK d \in Callers: d = writers /\ d # c /\ pc[d] \in Holding
    BY <1>2 DEF TypeOK, LockHeld
  <2>2. /\ pc'[d] = pc[d] /\ on'[d] = on[d] /\ item'[d] = item[d]
    BY <2>1, Others
  <2>3. writers' = d
    BY <2>1, <2>2 DEF TypeOK, LockHeld
  <2> QED
    BY <2>1, <2>2, <2>3 DEF Open
<1> QED
  BY <1>1, <1>2

\* The steps from or to the marked places.
LEMMA Marking ==
    ASSUME TypeOK, NEW c \in Callers, Act(c), pc[c] \in Marked \/ pc'[c] \in Marked
    PROVE  \/ WriteData(c) \/ WriteIndex(c) \/ RenameFails(c) \/ Publish(c) \/ Move(c)
           \/ WriteMetadata(c) \/ MetadataFails(c) \/ Undo(c) \/ UndoFails(c)
           \/ PutBack(c) \/ Cancel(c)
<1> USE DEF TypeOK, CallTypes, Marked
<1>1. CASE Call(c)
  BY <1>1 DEF Call, At
<1>2. CASE Lock(c)
  BY <1>2 DEF Lock, At
<1>3. CASE ReadSession(c)
  BY <1>3 DEF ReadSession, At, Works, Goto
<1>4. CASE Refuse(c)
  BY <1>4 DEF Refuse, At, Fails, Faulty, GiveUp, Return
<1>5. CASE ReadIndex(c)
  BY <1>5 DEF ReadIndex, At, Works, Goto
<1>6. CASE DistrustIndex(c)
  BY <1>6 DEF DistrustIndex, At, Fails, Faulty, Goto
<1>7. CASE Scan(c)
  BY <1>7 DEF Scan, At, Goto
<1>8. CASE ScanFails(c)
  BY <1>8 DEF ScanFails, At, Fails, Faulty, GiveUp, Return
<1>9. CASE Heal(c)
  BY <1>9 DEF Heal, At, Works, Goto
<1>10. CASE HealForList(c)
  BY <1>10 DEF HealForList, At, Works, Return
<1>11. CASE HealFails(c)
  BY <1>11 DEF HealFails, At, Fails, Faulty, GiveUp, Return
<1>12. CASE Prepare(c)
  BY <1>12 DEF Prepare, At, Works, Goto
<1>13. CASE PrepareFails(c)
  BY <1>13 DEF PrepareFails, At, Fails, Faulty, Return
<1>14. CASE MarkDirty(c)
  BY <1>14 DEF MarkDirty, At, Goto
<1>15. CASE Locate(c)
  BY <1>15 DEF Locate, At, Works, Goto
<1>16. CASE LocateFails(c)
  BY <1>16 DEF LocateFails, At, Fails, Faulty, GiveUp, Return
<1>17. CASE Restore(c)
  BY <1>17 DEF Restore, At, Return
<1>18. CASE Unlist(c)
  BY <1>18 DEF Unlist, At, Works, Return
<1>19. CASE UnlistFails(c)
  BY <1>19 DEF UnlistFails, At, Fails, Faulty, GiveUp, Return
<1>20. CASE List(c)
  BY <1>20 DEF List, At, Works, Fails, Faulty, Goto
<1>21. CASE ReadDir(c)
  BY <1>21 DEF ReadDir, At, Faulty, GiveUp, Return, Goto
<1> QED
  BY <1>1, <1>2, <1>3, <1>4, <1>5, <1>6, <1>7, <1>8, <1>9, <1>10, <1>11, <1>12, <1>13,
      <1>14, <1>15, <1>16, <1>17, <1>18, <1>19, <1>20, <1>21 DEF Act, Step, Rebuild,
      Commit, Delete

\* The steps that change the sessions or the events touch a marked place.
LEMMA Elsewhere ==
    ASSUME TypeOK, NEW c \in Callers, pc[c] \notin Marked, pc'[c] \notin Marked
    PROVE  ~WriteData(c) /\ ~Publish(c) /\ ~Move(c) /\ ~PutBack(c)
BY DEF TypeOK, CallTypes, Marked, WriteData, Publish, Move, PutBack, At, Goto

\* What subscribers have been told grows by what is published.
LEMMA ToldMore ==
    ASSUME TypeOK, TypeOK', NEW c \in Callers, Publish(c)
    PROVE  Told' = Append(Told, [session |-> on[c], version |-> item[c].version])
<1> DEFINE E == [session: Sessions, version: Nat, life: Nat]
           T == [session: Sessions, version: Nat]
           e == [session |-> on[c], version |-> item[c].version, life |-> life[on[c]]]
           t == [session |-> on[c], version |-> item[c].version]
           n == Len(events)
<1>1. events \in Seq(E) /\ events' \in Seq(E) /\ events' = Append(events, e)
  BY DEF Publish, TypeOK, HistoryTypes
<1>2. /\ n \in Nat /\ DOMAIN events = 1 .. n /\ DOMAIN events' = 1 .. n + 1
      /\ \A i \in 1 .. n: events'[i] = events[i]
      /\ events'[n + 1] = e /\ Len(events') = n + 1
  <2> HIDE DEF E, e
  <2> QED
    BY <1>1
<1>3. \A i \in 1 .. n + 1: events'[i] \in E
  <2> HIDE DEF E, e
  <2> QED
    BY <1>1, <1>2
<1>4. e.session = t.session /\ e.version = t.version /\ t \in T
  <2>1. e \in E
    BY <1>2, <1>3
  <2> QED
    BY <2>1
<1>5. /\ Told \in Seq(T) /\ Len(Told) = n
      /\ \A i \in 1 .. n: Told[i] = [session |-> events[i].session, version |-> events[i].version]
  <2>1. \A i \in 1 .. n: [session |-> events[i].session, version |-> events[i].version] \in T
    BY <1>2, <1>3
  <2>2. Told = [i \in 1 .. n |-> [session |-> events[i].session, version |-> events[i].version]]
    BY <1>2 DEF Told
  <2> HIDE DEF T, n
  <2> QED
    BY <1>2, <2>1, <2>2
<1>6. /\ Told' \in Seq(T) /\ Len(Told') = n + 1
      /\ \A i \in 1 .. n + 1:
            Told'[i] = [session |-> events'[i].session, version |-> events'[i].version]
  <2>1. \A i \in 1 .. n + 1:
            [session |-> events'[i].session, version |-> events'[i].version] \in T
    BY <1>2, <1>3
  <2>2. Told' = [i \in 1 .. n + 1 |->
                    [session |-> events'[i].session, version |-> events'[i].version]]
    BY <1>2 DEF Told
  <2> HIDE DEF T, n
  <2> QED
    BY <1>2, <2>1, <2>2
<1>7. /\ Append(Told, t) \in Seq(T) /\ Len(Append(Told, t)) = n + 1
      /\ \A i \in 1 .. n: Append(Told, t)[i] = Told[i]
      /\ Append(Told, t)[n + 1] = t
  <2> HIDE DEF T, t, n
  <2> QED
    BY <1>2, <1>4, <1>5
<1>8. \A i \in 1 .. n + 1: Told'[i] = Append(Told, t)[i]
  <2>1. \A i \in 1 .. n: Told'[i] = Told[i]
    BY <1>2, <1>5, <1>6
  <2>2. Told'[n + 1] = t
    BY <1>2, <1>6
  <2> HIDE DEF t, n
  <2> QED
    BY <1>2, <1>7, <2>1, <2>2
<1> HIDE DEF T, t, n
<1>9. Told' = Append(Told, t)
  BY <1>6, <1>7, <1>8, SeqEqual
<1> QED
  BY <1>9 DEF t

-----------------------------------------------------------------------------
(***************************************************************************)
(* Every step of a caller is a step of the table, or leaves it alone.      *)
(***************************************************************************)
Ignored == UNCHANGED <<data, Told, Open>>

\* A marked place is left and nothing else happens.
LEMMA Closes ==
    ASSUME TypeOK, TypeOK', NEW c \in Callers, Act(c), pc[c] \in Marked, pc'[c] \notin Marked,
           UNCHANGED <<data, events>>
    PROVE  Ledger!Close
<1>1. Open = OpenOf(c) /\ Open # Closed
  BY Opened DEF OpenOf, Closed
<1>2. Open' = Closed
  BY Alone, NotOpenedNext DEF Marked, Holding
<1>3. UNCHANGED <<data, Told>>
  BY DEF Told
<1> QED
  BY <1>1, <1>2, <1>3 DEF Ledger!Close, Ledger!Closed, Closed

\* One marked place to another, for the same change.
LEMMA StaysOpen ==
    ASSUME TypeOK, TypeOK', NEW c \in Callers, pc[c] \in Marked, pc'[c] \in Marked,
           pc[c] \in {"final", "publish"} <=> pc'[c] \in {"final", "publish"},
           UNCHANGED <<data, events, on, item>>
    PROVE  Ignored
<1>1. Open = OpenOf(c) /\ Open' = OpenOf(c)'
  BY Opened, OpenedNext
<1>2. OpenOf(c)' = OpenOf(c)
  BY DEF OpenOf
<1> QED
  BY <1>1, <1>2 DEF Ignored, Told

\* Renaming the data file is the write of the table.
LEMMA Writes ==
    ASSUME IInv, IInv', NEW c \in Callers, Act(c), WriteData(c)
    PROVE  \E s \in Sessions: Ledger!Write(s)
<1>1. /\ on[c] \in Sessions /\ op[c] \in Writing /\ num[c] \in Calls /\ pc[c] = "data"
  BY StoreAssumption DEF WriteData, At, IInv, Placed, PlacedAt, Committing, Writing, Merging,
     TypeOK, CountTypes, Calls
<1>2. /\ item[c].version = data[on[c]].version + 1 /\ item[c] \in Items
      /\ op[c] = "save" => item[c].marks = {num[c]}
      /\ op[c] \in Merging => item[c].marks = {num[c]} \cup data[on[c]].marks
  BY <1>1 DEF IInv, Carried, CarriedAt, Carrying, TypeOK, CallTypes
<1>3. PICK m \in {{}, data[on[c]].marks}: item[c].marks = m \cup {num[c]}
  BY <1>1, <1>2 DEF Writing
<1>4. item[c] = Ledger!Written(on[c], num[c], m)
  BY <1>2, <1>3 DEF Ledger!Written, Items
<1>5. Open = Closed
  BY <1>1, Alone, NotOpened DEF IInv, Holding, Marked
<1>6. /\ pc'[c] = "final" /\ on' = on /\ item' = item /\ events' = events
      /\ data' = [data EXCEPT ![on[c]] = item[c]]
  BY DEF WriteData, Goto, IInv, TypeOK, CallTypes
<1>7. Open' = [kind |-> "write", session |-> on[c], item |-> item[c]]
  BY <1>6, OpenedNext DEF IInv, OpenOf, Marked
<1>8. Told' = Told
  BY <1>6 DEF Told
<1>9. Ledger!Write(on[c])
  BY <1>1, <1>3, <1>4, <1>5, <1>6, <1>7, <1>8 DEF Ledger!Write, Ledger!Closed, Closed
<1> QED
  BY <1>1, <1>9

\* Publishing announces it.
LEMMA Announces ==
    ASSUME IInv, IInv', NEW c \in Callers, Act(c), Publish(c)
    PROVE  Ledger!Announce
<1>1. pc[c] = "publish" /\ pc'[c] = "idle" /\ UNCHANGED data
  BY DEF Publish, At, Return, disk, IInv, TypeOK, CallTypes
<1>2. Open = [kind |-> "write", session |-> on[c], item |-> item[c]]
  BY <1>1, Opened DEF IInv, OpenOf, Marked
<1>3. Open' = Closed
  BY <1>1, Alone, NotOpenedNext DEF IInv, Marked, Holding
<1>4. Told' = Append(Told, [session |-> on[c], version |-> item[c].version])
  BY ToldMore DEF IInv
<1> QED
  BY <1>1, <1>2, <1>3, <1>4 DEF Ledger!Announce, Ledger!Closed, Closed

\* Moving the directory to the bin is the removal.
LEMMA Removes ==
    ASSUME IInv, IInv', NEW c \in Callers, Act(c), Move(c)
    PROVE  \E s \in Sessions: Ledger!Remove(s)
<1>1. pc[c] = "move" /\ on[c] \in Sessions
  BY DEF Move, At, IInv, Placed, PlacedAt, Deleting
<1>2. /\ pc'[c] = "metadata" /\ on' = on /\ item'[c] = data[on[c]] /\ events' = events
      /\ data' = [data EXCEPT ![on[c]] = Nothing]
  BY DEF Move, Goto, IInv, TypeOK, CallTypes
<1>3. Open = Closed
  BY <1>1, Alone, NotOpened DEF IInv, Holding, Marked
<1>4. Open' = [kind |-> "remove", session |-> on[c], item |-> data[on[c]]]
  BY <1>2, OpenedNext DEF IInv, OpenOf, Marked
<1>5. Told' = Told
  BY <1>2 DEF Told
<1>6. Ledger!Remove(on[c])
  BY <1>2, <1>3, <1>4, <1>5 DEF Ledger!Remove, Ledger!Closed, Ledger!Nothing, Closed, Nothing
<1> QED
  BY <1>1, <1>6

\* Moving it back is its undoing.
LEMMA PutsBack ==
    ASSUME IInv, IInv', NEW c \in Callers, Act(c), PutBack(c)
    PROVE  Ledger!PutBack
<1>1. pc[c] = "putback" /\ pc'[c] = "restore" /\ events' = events
      /\ data' = [data EXCEPT ![on[c]] = item[c]]
  BY DEF PutBack, At, Goto, history, IInv, TypeOK, CallTypes
<1>2. Open = [kind |-> "remove", session |-> on[c], item |-> item[c]]
  BY <1>1, Opened DEF IInv, OpenOf, Marked
<1>3. Open' = Closed
  BY <1>1, Alone, NotOpenedNext DEF IInv, Marked, Holding
<1>4. Told' = Told
  BY <1>1 DEF Told
<1> QED
  BY <1>1, <1>2, <1>3, <1>4 DEF Ledger!PutBack, Ledger!Closed, Closed

\* Every step of a caller is a step of the table or nothing to it,
LEMMA ActRefines ==
    ASSUME IInv, IInv', NEW c \in Callers, Act(c)
    PROVE  Ledger!LedgerNext \/ Ignored
<1> USE DEF IInv
<1>1. CASE pc[c] \notin Marked /\ pc'[c] \notin Marked
  <2>1. Open' = Open
    BY <1>1, Untouched
  <2>2. UNCHANGED <<data, events>>
    BY <1>1, Quiet, Elsewhere
  <2> QED
    BY <2>1, <2>2 DEF Ignored, Told
<1>2. CASE WriteData(c)
  BY <1>2, Writes DEF Ledger!LedgerNext
<1>3. CASE Publish(c)
  BY <1>3, Announces DEF Ledger!LedgerNext
<1>4. CASE Move(c)
  BY <1>4, Removes DEF Ledger!LedgerNext
<1>5. CASE PutBack(c)
  BY <1>5, PutsBack DEF Ledger!LedgerNext
<1>6. CASE /\ pc[c] \in Marked \/ pc'[c] \in Marked
           /\ ~WriteData(c) /\ ~Publish(c) /\ ~Move(c) /\ ~PutBack(c)
  <2>0. UNCHANGED <<data, events>>
    BY <1>6, Quiet
  <2>1. CASE WriteIndex(c)
    <3>1. pc[c] = "final" /\ pc'[c] = "publish" /\ UNCHANGED <<on, item>>
      BY <2>1 DEF WriteIndex, At, Goto, TypeOK, CallTypes
    <3> QED
      BY <2>0, <3>1, StaysOpen DEF Marked
  <2>2. CASE MetadataFails(c)
    <3>1. pc[c] = "metadata" /\ pc'[c] = "undo" /\ UNCHANGED <<on, item>>
      BY <2>2 DEF MetadataFails, At, Goto, TypeOK, CallTypes
    <3> QED
      BY <2>0, <3>1, StaysOpen DEF Marked
  <2>3. CASE Undo(c)
    <3>1. pc[c] = "undo" /\ pc'[c] = "putback" /\ UNCHANGED <<on, item>>
      BY <2>3 DEF Undo, At, Goto, TypeOK, CallTypes
    <3> QED
      BY <2>0, <3>1, StaysOpen DEF Marked
  <2>4. CASE Cancel(c)
    <3>1. UNCHANGED <<pc, on, item>>
      BY <2>4 DEF Cancel, locals
    <3> QED
      BY <1>6, <2>0, <3>1, StaysOpen
  <2>5. CASE RenameFails(c) \/ WriteMetadata(c) \/ UndoFails(c)
    <3>1. pc'[c] \notin Marked
      BY <2>5 DEF RenameFails, WriteMetadata, UndoFails, GiveUp, Return, Goto, Marked, TypeOK,
         CallTypes
    <3> QED
      BY <1>6, <2>0, <3>1, Closes DEF Ledger!LedgerNext
  <2> QED
    BY <1>6, <2>1, <2>2, <2>3, <2>4, <2>5, Marking
<1> QED
  BY <1>1, <1>2, <1>3, <1>4, <1>5, <1>6

\* and a restart closes what is open.
LEMMA RestartRefines ==
    ASSUME IInv, Restart
    PROVE  Ledger!Close \/ Ignored
<1>1. UNCHANGED <<data, Told>>
  BY DEF Restart, history, Told
<1>2. Open' = Closed
  BY DEF Restart, Open, Closed
<1> QED
  BY <1>1, <1>2 DEF Ledger!Close, Ledger!Closed, Closed, Ignored

\* To whoever looks at the sessions and the events, the store is a table that changes
\* one session at a time and announces only what is in it, whatever fails, is cancelled
\* or restarted.
THEOREM ImplementsLedger == Spec => KeepsLedger
<1>1. Init => Ledger!LedgerInit
  <2>1. Init => Open = Closed
    BY DEF Init, Open, Closed
  <2>2. Init => Told = <<>>
    BY DEF Init, Told
  <2> QED
    BY <2>1, <2>2 DEF Init, Ledger!LedgerInit, Ledger!Nothing, Ledger!Closed, Closed, Empty,
       Nothing
<1>2. IInv /\ IInv' /\ [Next]_vars => [Ledger!LedgerNext]_(Ledger!ledgerVars)
  <2> SUFFICES ASSUME IInv, IInv', [Next]_vars
               PROVE  Ledger!LedgerNext \/ Ignored
    BY DEF Ignored, Ledger!ledgerVars
  <2>1. CASE \E c \in Callers: Act(c)
    BY <2>1, ActRefines
  <2>2. CASE Restart
    BY <2>2, RestartRefines DEF Ledger!LedgerNext
  <2>3. CASE UNCHANGED vars
    BY <2>3 DEF vars, disk, locals, history, Ignored, Told, Open
  <2> QED
    BY <2>1, <2>2, <2>3 DEF Next, Act
<1> QED
  BY <1>1, <1>2, Inductive, PTL DEF Spec, KeepsLedger, Ledger!LedgerSpec
=============================================================================
