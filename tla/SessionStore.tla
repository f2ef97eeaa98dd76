---------------------------- MODULE SessionStore ----------------------------
(***************************************************************************)
(* The session store of one scope (data-storage-system/session_store.go,   *)
(* session_index.go, session_lock.go, recycle.go): saves, deletions and    *)
(* lists of several callers over the data file of every session, the index *)
(* of the scope and the recycle bin.  Each rename is a step; any step may  *)
(* fail, a caller's context may be cancelled, and the process may end      *)
(* between any two steps.                                                  *)
(***************************************************************************)
EXTENDS Naturals, Sequences, FiniteSets

CONSTANTS
    Callers,        \* concurrent users of the scope
    Sessions,       \* the sessions of the scope
    None,           \* nobody, no session
    MaxCalls,       \* bound: calls made
    MaxFaults,      \* bound: file operations that fail
    MaxCancels,     \* bound: calls whose context is cancelled
    MaxCrashes      \* bound: times the process ends and starts again

ASSUME StoreAssumption ==
    /\ None \notin Callers
    /\ Sessions # {}
    /\ {MaxCalls, MaxFaults, MaxCancels, MaxCrashes} \subseteq Nat

VARIABLES
    data,           \* the data file of a session, or Nothing
    folder,         \* does the session have a directory?
    index,          \* the index of the scope
    bin,            \* what was moved to the recycle bin
    writers,        \* who holds the writers' lock
    pc,             \* the place of a caller in its call
    op, on, num,    \* its operation, the session or None, the number of the call
    doc,            \* the index it read, or rebuilt
    item,           \* what it is going to write
    calls, faults, cancelled, crashes,
    events,         \* history: the change events published
    life,           \* history: how often a session was moved to the bin
    answered,       \* history: writes whose caller was told of success
    replaced        \* history: writes dropped by a save of the whole session

disk == <<data, folder, index, bin>>
locals == <<op, on, num, doc, item>>
budgets == <<calls, cancelled, crashes>>
history == <<events, life, answered, replaced>>
vars == <<disk, writers, pc, locals, faults, budgets, history>>

(***************************************************************************)
(* A data file holds a version and what the calls so far left in it.  The  *)
(* summary of a session in the index is a function of the stored session;  *)
(* it is identified with it.                                               *)
(***************************************************************************)
Calls == 1 .. MaxCalls
Items == [version: Nat, marks: SUBSET Calls]
Nothing == [version |-> 0, marks |-> {}]
Entries == [Sessions -> Items]
Empty == [s \in Sessions |-> Nothing]

\* An index that may be believed; a missing, unreadable or dirty one.
Trusted(entries) == [ok |-> TRUE, entries |-> entries]
Untrusted == [ok |-> FALSE, entries |-> Empty]

Ops == {"save", "merge", "mutate", "delete", "list"}
Merging == {"merge", "mutate"}
Writing == {"save"} \cup Merging

\* Between taking and releasing the lock that keeps readers out of the files.
Replacing(c) == pc[c] \in {"data", "final", "move", "restore"}
Holding == {"read", "index", "scan", "heal", "prepare", "dirty", "data", "final",
            "publish", "locate", "move", "metadata", "undo", "putback", "restore",
            "unlist"}
Positions == Holding \cup {"idle", "lock", "list", "readdir"}

Init ==
    /\ data = Empty
    /\ folder = [s \in Sessions |-> FALSE]
    /\ index = Untrusted
    /\ bin = {}
    /\ writers = None
    /\ pc = [c \in Callers |-> "idle"]
    /\ op = [c \in Callers |-> "list"]
    /\ on = [c \in Callers |-> None]
    /\ num = [c \in Callers |-> 0]
    /\ doc = [c \in Callers |-> Empty]
    /\ item = [c \in Callers |-> Nothing]
    /\ calls = 0 /\ faults = 0 /\ crashes = 0
    /\ cancelled = {}
    /\ events = <<>>
    /\ life = [s \in Sessions |-> 0]
    /\ answered = {} /\ replaced = {}

(***************************************************************************)
(* Steps of a call.  A step that is given the context fails when the call  *)
(* was cancelled; a rename does not look at it.  Either may fail by itself. *)
(***************************************************************************)
Faulty == faults < MaxFaults /\ faults' = faults + 1

Works(c) == num[c] \notin cancelled /\ UNCHANGED faults

Fails(c) ==
    \/ num[c] \in cancelled /\ UNCHANGED faults
    \/ Faulty

At(c, p) == pc[c] = p

Goto(c, p) ==
    /\ pc' = [pc EXCEPT ![c] = p]
    /\ UNCHANGED <<writers, op, on, num, budgets>>

\* The call returns, with or without an error; a deferred unlock frees the lock.
Return(c) ==
    /\ pc' = [pc EXCEPT ![c] = "idle"]
    /\ writers' = IF writers = c THEN None ELSE writers
    /\ op' = [op EXCEPT ![c] = "list"]
    /\ on' = [on EXCEPT ![c] = None]
    /\ num' = [num EXCEPT ![c] = 0]
    /\ doc' = [doc EXCEPT ![c] = Empty]
    /\ item' = [item EXCEPT ![c] = Nothing]
    /\ UNCHANGED budgets

\* Return, having changed nothing more.
GiveUp(c) == Return(c) /\ UNCHANGED <<disk, history>>

Call(c) ==
    /\ At(c, "idle")
    /\ calls < MaxCalls
    /\ calls' = calls + 1
    /\ num' = [num EXCEPT ![c] = calls + 1]
    /\ \/ \E o \in Writing \cup {"delete"}, s \in Sessions:
            /\ op' = [op EXCEPT ![c] = o]
            /\ on' = [on EXCEPT ![c] = s]
            /\ pc' = [pc EXCEPT ![c] = "lock"]
       \/ /\ pc' = [pc EXCEPT ![c] = "list"]
          /\ UNCHANGED <<op, on>>
    /\ UNCHANGED <<disk, writers, doc, item, faults, cancelled, crashes, history>>

LockBlindly(c) ==  \* mutant of Lock
    /\ At(c, "lock")
    /\ writers' = c
    /\ pc' = [pc EXCEPT ![c] = IF op[c] \in Merging THEN "read"
                                 ELSE IF op[c] = "list" THEN "scan" ELSE "index"]
    /\ item' = [item EXCEPT ![c] = [version |-> 0, marks |-> {num[c]}]]
    /\ UNCHANGED <<disk, op, on, num, doc, faults, budgets, history>>

\* lock.writers.Lock(); the list rebuilds the index at once (rebuildScopeIndex).
Lock(c) ==
    /\ At(c, "lock")
    /\ writers = None
    /\ writers' = c
    /\ pc' = [pc EXCEPT ![c] = IF op[c] \in Merging THEN "read"
                                 ELSE IF op[c] = "list" THEN "scan" ELSE "index"]
    /\ item' = [item EXCEPT ![c] = [version |-> 0, marks |-> {num[c]}]]
    /\ UNCHANGED <<disk, op, on, num, doc, faults, budgets, history>>

ReadOwnCopy(c) ==  \* mutant of ReadSession
    /\ At(c, "read")
    /\ Works(c)
    /\ op[c] = "mutate" => data[on[c]] # Nothing
    /\ Goto(c, "index")
    /\ UNCHANGED <<disk, doc, item, history>>

\* mutateSession and SaveSessionMessages read the session they are to change.
\* A mutation needs one to be there.
ReadSession(c) ==
    /\ At(c, "read")
    /\ Works(c)
    /\ op[c] = "mutate" => data[on[c]] # Nothing
    /\ item' = [item EXCEPT ![c] = [version |-> 0, marks |-> {num[c]} \cup data[on[c]].marks]]
    /\ Goto(c, "index")
    /\ UNCHANGED <<disk, doc, history>>

\* The read failed, the conditions of the write are not met, or there is
\* nothing to change.
Refuse(c) ==
    /\ At(c, "read")
    /\ Fails(c) \/ UNCHANGED faults
    /\ GiveUp(c)

\* readScopeIndexForWriteLocked: an index that cannot be believed is rebuilt,
\* unless there is no session at all.
ReadIndex(c) ==
    /\ At(c, "index")
    /\ index.ok
    /\ Works(c)
    /\ doc' = [doc EXCEPT ![c] = index.entries]
    /\ Goto(c, IF op[c] = "delete" THEN "locate" ELSE "prepare")
    /\ UNCHANGED <<disk, item, history>>

DistrustIndex(c) ==
    /\ At(c, "index")
    /\ (~index.ok /\ UNCHANGED faults) \/ Fails(c)
    /\ doc' = [doc EXCEPT ![c] = Empty]
    /\ Goto(c, IF \E s \in Sessions: folder[s] THEN "scan"
               ELSE IF op[c] = "delete" THEN "locate" ELSE "prepare")
    /\ UNCHANGED <<disk, item, history>>

\* scanScopeSummaries: every data file is read, under the writers' lock. The
\* context is looked at before every entry of the scope's directory.
Scan(c) ==
    /\ At(c, "scan")
    /\ num[c] \notin cancelled \/ \A s \in Sessions: ~folder[s]
    /\ doc' = [doc EXCEPT ![c] = data]
    /\ Goto(c, "heal")
    /\ UNCHANGED <<disk, item, faults, history>>

ScanFails(c) ==
    /\ At(c, "scan")
    /\ Fails(c)
    /\ GiveUp(c)

\* writeScopeIndexLocked.  A list is content with what it scanned.
Heal(c) ==
    /\ At(c, "heal")
    /\ op[c] # "list"
    /\ Works(c)
    /\ index' = Trusted(doc[c])
    /\ Goto(c, IF op[c] = "delete" THEN "locate" ELSE "prepare")
    /\ UNCHANGED <<data, folder, bin, doc, item, history>>

HealForList(c) ==
    /\ At(c, "heal")
    /\ op[c] = "list"
    /\ Works(c)
    /\ index' = Trusted(doc[c])
    /\ Return(c)
    /\ UNCHANGED <<data, folder, bin, history>>

HealFails(c) ==
    /\ At(c, "heal")
    /\ Fails(c)
    /\ GiveUp(c)

(***************************************************************************)
(* commitSessionLocked.                                                    *)
(***************************************************************************)
PrepareSameVersion(c) ==  \* mutant of Prepare
    /\ At(c, "prepare")
    /\ Works(c)
    /\ folder' = [folder EXCEPT ![on[c]] = TRUE]
    /\ item' = [item EXCEPT ![c] =
                    [version |-> IF doc[c][on[c]] = Nothing THEN 1 ELSE doc[c][on[c]].version,
                     marks |-> item[c].marks]]
    /\ Goto(c, "dirty")
    /\ UNCHANGED <<data, index, bin, doc, history>>

\* The session's directory, then the three files under temporary names.
Prepare(c) ==
    /\ At(c, "prepare")
    /\ Works(c)
    /\ folder' = [folder EXCEPT ![on[c]] = TRUE]
    /\ item' = [item EXCEPT ![c] = [version |-> doc[c][on[c]].version + 1,
                                    marks |-> item[c].marks]]
    /\ Goto(c, "dirty")
    /\ UNCHANGED <<data, index, bin, doc, history>>

PrepareFails(c) ==
    /\ At(c, "prepare")
    /\ \/ Fails(c) /\ folder' = [folder EXCEPT ![on[c]] = TRUE]
       \/ Faulty /\ UNCHANGED folder
    /\ Return(c)
    /\ UNCHANGED <<data, index, bin, history>>

MarkNothing(c) ==  \* mutant of MarkDirty
    /\ At(c, "dirty")
    /\ Goto(c, IF op[c] = "delete" THEN "move" ELSE "data")
    /\ UNCHANGED <<disk, doc, item, faults, history>>

\* Also the first rename of a deletion.
MarkDirty(c) ==
    /\ At(c, "dirty")
    /\ index' = Untrusted
    /\ Goto(c, IF op[c] = "delete" THEN "move" ELSE "data")
    /\ UNCHANGED <<data, folder, bin, doc, item, faults, history>>

WriteData(c) ==
    /\ At(c, "data")
    /\ data' = [data EXCEPT ![on[c]] = item[c]]
    /\ replaced' = IF op[c] = "save" THEN replaced \cup data[on[c]].marks ELSE replaced
    /\ Goto(c, "final")
    /\ UNCHANGED <<folder, index, bin, doc, item, faults, events, life, answered>>

WriteIndex(c) ==
    /\ At(c, "final")
    /\ index' = Trusted([doc[c] EXCEPT ![on[c]] = item[c]])
    /\ Goto(c, "publish")
    /\ UNCHANGED <<data, folder, bin, doc, item, faults, history>>

RenameFails(c) ==
    /\ pc[c] \in {"dirty", "data", "final", "move", "putback", "restore"}
    /\ Faulty
    /\ GiveUp(c)

PublishPrevious(c) ==  \* mutant of Publish
    /\ At(c, "publish")
    /\ events' = Append(events, [session |-> on[c], version |-> doc[c][on[c]].version,
                                 life |-> life[on[c]]])
    /\ answered' = answered \cup {num[c]}
    /\ Return(c)
    /\ UNCHANGED <<disk, faults, life, replaced>>

Publish(c) ==
    /\ At(c, "publish")
    /\ events' = Append(events, [session |-> on[c], version |-> item[c].version,
                                 life |-> life[on[c]]])
    /\ answered' = answered \cup {num[c]}
    /\ Return(c)
    /\ UNCHANGED <<disk, faults, life, replaced>>

(***************************************************************************)
(* removeSession and rollbackSessionDelete.                                *)
(***************************************************************************)
Record(c, done) == [call |-> num[c], session |-> on[c], item |-> data[on[c]],
                    recorded |-> done]

Locate(c) ==
    /\ At(c, "locate")
    /\ Works(c)
    /\ folder[on[c]]
    /\ Goto(c, "dirty")
    /\ UNCHANGED <<disk, doc, item, history>>

LocateFails(c) ==
    /\ At(c, "locate")
    /\ Fails(c) \/ (~folder[on[c]] /\ UNCHANGED faults)
    /\ GiveUp(c)

\* The directory is renamed into the recycle bin; item keeps what it held.
Move(c) ==
    /\ At(c, "move")
    /\ data' = [data EXCEPT ![on[c]] = Nothing]
    /\ folder' = [folder EXCEPT ![on[c]] = FALSE]
    /\ bin' = bin \cup {Record(c, FALSE)}
    /\ item' = [item EXCEPT ![c] = data[on[c]]]
    /\ life' = [life EXCEPT ![on[c]] = @ + 1]
    /\ Goto(c, "metadata")
    /\ UNCHANGED <<index, doc, faults, events, answered, replaced>>

Mine(c) == {r \in bin: r.call = num[c]}

\* writeRecycleMetadata: the record that makes the entry a deleted session.
WriteMetadata(c) ==
    /\ At(c, "metadata")
    /\ Works(c)
    /\ bin' = (bin \ Mine(c)) \cup {[r EXCEPT !.recorded = TRUE]: r \in Mine(c)}
    /\ Goto(c, "unlist")
    /\ UNCHANGED <<data, folder, index, doc, item, history>>

MetadataGivesUp(c) ==  \* mutant of MetadataFails
    /\ At(c, "metadata")
    /\ Fails(c)
    /\ GiveUp(c)

MetadataFails(c) ==
    /\ At(c, "metadata")
    /\ Fails(c)
    /\ Goto(c, "undo")
    /\ UNCHANGED <<disk, doc, item, history>>

\* The restored index is prepared before anything is moved back.
Undo(c) ==
    /\ At(c, "undo")
    /\ Works(c)
    /\ Goto(c, "putback")
    /\ UNCHANGED <<disk, doc, item, history>>

UndoFails(c) ==
    /\ At(c, "undo")
    /\ Fails(c)
    /\ GiveUp(c)

PutBack(c) ==
    /\ At(c, "putback")
    /\ data' = [data EXCEPT ![on[c]] = item[c]]
    /\ folder' = [folder EXCEPT ![on[c]] = TRUE]
    /\ bin' = bin \ Mine(c)
    /\ Goto(c, "restore")
    /\ UNCHANGED <<index, doc, item, faults, history>>

Restore(c) ==
    /\ At(c, "restore")
    /\ index' = Trusted(doc[c])
    /\ Return(c)
    /\ UNCHANGED <<data, folder, bin, faults, history>>

Unlist(c) ==
    /\ At(c, "unlist")
    /\ Works(c)
    /\ index' = Trusted([doc[c] EXCEPT ![on[c]] = Nothing])
    /\ Return(c)
    /\ UNCHANGED <<data, folder, bin, history>>

UnlistFails(c) ==
    /\ At(c, "unlist")
    /\ Fails(c)
    /\ GiveUp(c)

(***************************************************************************)
(* listSessions: the index is read without the writers' lock; when it is   *)
(* not to be believed, or lists a session without a directory, it is       *)
(* rebuilt under the lock.                                                 *)
(***************************************************************************)
List(c) ==
    /\ At(c, "list")
    /\ \A d \in Callers: ~Replacing(d)
    /\ \/ /\ index.ok /\ Works(c)
          /\ doc' = [doc EXCEPT ![c] = index.entries]
          /\ Goto(c, "readdir")
       \/ /\ (~index.ok /\ UNCHANGED faults) \/ Fails(c)
          /\ Goto(c, "lock")
          /\ UNCHANGED doc
    /\ UNCHANGED <<disk, item, history>>

ReadDir(c) ==
    /\ At(c, "readdir")
    /\ \/ /\ \E s \in Sessions: doc[c][s] # Nothing /\ ~folder[s]
          /\ Goto(c, "lock")
          /\ UNCHANGED <<disk, doc, item, faults, history>>
       \/ /\ Faulty \/ ((\A s \in Sessions: doc[c][s] # Nothing => folder[s]) /\ UNCHANGED faults)
          /\ GiveUp(c)

(***************************************************************************)
(* The environment.                                                        *)
(***************************************************************************)
Cancel(c) ==
    /\ ~At(c, "idle")
    /\ num[c] \notin cancelled
    /\ Cardinality(cancelled) < MaxCancels
    /\ cancelled' = cancelled \cup {num[c]}
    /\ UNCHANGED <<disk, writers, pc, locals, faults, calls, crashes, history>>

\* The process ends and starts again.  The index is the one file that is not
\* synced, so what was written last may not be there.  Initialize rebuilds it,
\* and goes on if that fails.
Restart ==
    /\ crashes < MaxCrashes
    /\ crashes' = crashes + 1
    /\ index' \in {Trusted(data), index, Untrusted}
    /\ writers' = None
    /\ pc' = [c \in Callers |-> "idle"]
    /\ op' = [c \in Callers |-> "list"]
    /\ on' = [c \in Callers |-> None]
    /\ num' = [c \in Callers |-> 0]
    /\ doc' = [c \in Callers |-> Empty]
    /\ item' = [c \in Callers |-> Nothing]
    /\ UNCHANGED <<data, folder, bin, faults, calls, cancelled, history>>

Commit(c) ==
    Prepare(c) \/ PrepareFails(c) \/ MarkDirty(c) \/ WriteData(c) \/ WriteIndex(c)
    \/ RenameFails(c) \/ Publish(c)

Delete(c) ==
    \/ Locate(c) \/ LocateFails(c) \/ Move(c) \/ WriteMetadata(c) \/ MetadataFails(c)
    \/ Undo(c) \/ UndoFails(c) \/ PutBack(c) \/ Restore(c) \/ Unlist(c) \/ UnlistFails(c)

Rebuild(c) ==
    Scan(c) \/ ScanFails(c) \/ Heal(c) \/ HealForList(c) \/ HealFails(c)

Step(c) ==
    \/ Lock(c) \/ ReadSession(c) \/ Refuse(c) \/ ReadIndex(c) \/ DistrustIndex(c)
    \/ Rebuild(c) \/ Commit(c) \/ Delete(c) \/ List(c) \/ ReadDir(c)

Next ==
    \/ \E c \in Callers: Call(c) \/ Step(c) \/ Cancel(c)
    \/ Restart

Spec == Init /\ [][Next]_vars

(***************************************************************************)
(* Properties.                                                             *)
(***************************************************************************)
FileTypes ==
    /\ data \in Entries
    /\ folder \in [Sessions -> BOOLEAN]
    /\ index \in [ok: BOOLEAN, entries: Entries]
    /\ bin \subseteq [call: Calls, session: Sessions, item: Items, recorded: BOOLEAN]

CallTypes ==
    /\ pc \in [Callers -> Positions]
    /\ op \in [Callers -> Ops]
    /\ on \in [Callers -> Sessions \cup {None}]
    /\ num \in [Callers -> 0 .. MaxCalls]
    /\ doc \in [Callers -> Entries]
    /\ item \in [Callers -> Items]

CountTypes ==
    /\ calls \in 0 .. MaxCalls
    /\ faults \in 0 .. MaxFaults
    /\ cancelled \subseteq Calls
    /\ crashes \in 0 .. MaxCrashes

HistoryTypes ==
    /\ events \in Seq([session: Sessions, version: Nat, life: Nat])
    /\ life \in [Sessions -> Nat]
    /\ answered \subseteq Calls /\ replaced \subseteq Calls

\* Whoever is between taking and freeing the lock is its holder.
LockHeld ==
    /\ writers \in Callers \cup {None}
    /\ \A c \in Callers: pc[c] \in Holding <=> writers = c

TypeOK == FileTypes /\ CallTypes /\ CountTypes /\ HistoryTypes /\ LockHeld

\* An index that a list or a save will believe says exactly what the data files
\* say, at every moment: whatever was interrupted, failed or raced, a stale index
\* is never mistaken for a good one.
IndexAgrees == index.ok => index.entries = data

\* A write whose caller was told of success is in the data file, or went to the
\* recycle bin with its session, or was replaced by a save of the whole session:
\* no update is lost to another caller, a failed deletion, or a crash.
AckedKept ==
    answered \subseteq (UNION {data[s].marks: s \in Sessions})
                     \cup (UNION {r.item.marks: r \in bin}) \cup replaced

\* The versions a subscriber sees of a session grow, until the session is deleted.
EventsInOrder ==
    \A i, j \in DOMAIN events:
        /\ i < j
        /\ events[i].session = events[j].session
        /\ events[i].life = events[j].life
        => events[i].version < events[j].version

\* The entry is in the hands of a deletion that is not over.
BeingMoved(r) ==
    \E c \in Callers: pc[c] \in {"metadata", "undo", "putback"} /\ num[c] = r.call

\* What is in the recycle bin is recorded there, or a deletion is at work on it;
\* otherwise the process ended, the deletion was cancelled, or putting the session
\* back failed as well.
BinRecorded ==
    \A r \in bin:
        r.recorded \/ BeingMoved(r) \/ crashes > 0 \/ r.call \in cancelled \/ faults > 1

\* The comment on rollbackSessionDelete: when the record cannot be written, the
\* directory is moved back.
DeleteUndone == \A r \in bin: r.recorded \/ BeingMoved(r)

\* The change the holder of the lock has begun, for SessionLedger.
Open ==
    IF writers = None THEN [kind |-> "none"]
    ELSE IF pc[writers] \in {"final", "publish"}
         THEN [kind |-> "write", session |-> on[writers], item |-> item[writers]]
    ELSE IF pc[writers] \in {"metadata", "undo", "putback"}
         THEN [kind |-> "remove", session |-> on[writers], item |-> item[writers]]
    ELSE [kind |-> "none"]

Told == [i \in DOMAIN events |->
            [session |-> events[i].session, version |-> events[i].version]]

Ledger == INSTANCE SessionLedger WITH table <- data, told <- Told, open <- Open

\* The files, the index, the locks and all the ways to fail amount to a table that
\* changes one session at a time, and announces only what is in it.
KeepsLedger == Ledger!LedgerSpec
=============================================================================
