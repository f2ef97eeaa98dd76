---------------------------- MODULE ToolOperation ---------------------------
(***************************************************************************)
(* Installing and updating one tool (tool-calling-system/operation.go,     *)
(* import.go, activity.go over pkg/release/program_store.go and            *)
(* operation.go).  A request accepts an operation and closes the gate of   *)
(* the tool; a goroutine takes the operation through its phases and leaves *)
(* a record of the phase it is in; whoever asks later finishes what a      *)
(* restart of the process interrupted.  Calls of the tool hold the gate    *)
(* open, cancellations arrive at any time, and any write may fail.         *)
(***************************************************************************)
EXTENDS Naturals, FiniteSets

CONSTANTS
    Askers,         \* concurrent requests about the tool
    OpKinds,        \* what they ask for
    MaxVersion,     \* bound: versions that are published
    MaxOps,         \* bound: operations accepted
    MaxActive,      \* bound: calls of the tool at a time
    MaxFailedWrites, \* bound: writes and removals of files that fail
    MaxRestarts     \* bound: times the process ends and starts again

ASSUME ToolAssumption ==
    /\ OpKinds \subseteq {"query", "install", "update", "import"}
    /\ {MaxVersion, MaxOps, MaxActive, MaxFailedWrites, MaxRestarts} \subseteq Nat

VARIABLES
    current,        \* current.json: the version in use, or NoVersion
    versions,       \* versions/<v>: the version directories that are complete
    toolData,       \* the version the tool's own data was migrated to
    record,         \* operation.json
    work,           \* work/<operation>: the work directories that exist
    gate,           \* updating and operationID of the activity: an operation, or NoOp
    phase,          \* phase of the activity
    done,           \* the done channel of the activity, named for its operation
    closed,         \* the done channel that was closed last
    active,         \* activeRequests of the activity
    opCancelled,    \* was the context of the running operation cancelled?
    toolPc,         \* the place of an operation in its goroutine
    job,            \* what it was accepted for
    at, seen, want, \* the place of a client, the record it read, what it asks for
    ops, failedWrites, restarts,
    outcome,        \* history: how a running operation is going to end
    activated,      \* history: running operations that switched the version in use
    settled,        \* history: the version in use belongs to no unfinished operation
    orderly         \* history: see BeginUpdate, RemoveRecord and RestoreVersion

toolDisk == <<current, versions, toolData, record, work>>
activity == <<gate, phase, done, closed, active, opCancelled>>
requests == <<at, seen, want>>
toolHistory == <<outcome, activated, settled, orderly>>
toolVars == <<toolDisk, activity, toolPc, job, requests, ops, failedWrites, restarts, toolHistory>>

Versions == 1 .. MaxVersion
NoVersion == 0
OpIds == 1 .. MaxOps
NoOp == 0

\* The phases of a goroutine; Cancellable are those before the switch, and the probe.
Phases == {"download", "prepare", "probe", "migration", "switch", "refresh"}
Cancellable == {"candidate", "download", "prepare", "probe", "migration"}
PreSwitch == Cancellable \ {"probe"}

\* A goroutine is about to enter a phase, or in it, or has left them all.
Entering == [prepare |-> "to_prepare", probe |-> "to_probe", migration |-> "to_migration",
             switch |-> "to_switch", refresh |-> "to_refresh"]
AtWork == Phases \cup {"to_prepare", "to_probe", "to_migration", "to_switch", "to_refresh",
                        "begin", "restore", "remove", "release"}
OpPlaces == AtWork \cup {"signal", "over"}

Jobs == [kind : OpKinds \cup {"query"}, base : Versions \cup {NoVersion},
         target : Versions \cup {NoVersion}]
NoJob == [kind |-> "query", base |-> NoVersion, target |-> NoVersion]

Records == [op : OpIds \cup {NoOp}, phase : Phases \cup {"restore", "none"},
            result : {"running", "failed", "cancelled", "none"},
            base : Versions \cup {NoVersion}]
NoRecord == [op |-> NoOp, phase |-> "none", result |-> "none", base |-> NoVersion]
RecordOf(o, p, r) == [op |-> o, phase |-> p, result |-> r, base |-> job[o].base]

\* Where a request acts on what it read before: an operation accepted meanwhile is
\* one it does not know of.
Asking == {"pending", "forget", "confirm", "restore", "version", "begin"}
Stations == Asking \cup {"idle", "cancel", "wait"}

ToolInit ==
    /\ current \in Versions \cup {NoVersion}
    /\ versions = IF current = NoVersion THEN {} ELSE {current}
    /\ toolData = current
    /\ record = NoRecord
    /\ work = {}
    /\ gate = NoOp
    /\ phase = "none"
    /\ done = NoOp
    /\ closed = NoOp
    /\ active = 0
    /\ opCancelled = FALSE
    /\ toolPc = [o \in OpIds |-> "over"]
    /\ job = [o \in OpIds |-> NoJob]
    /\ at = [c \in Askers |-> "idle"]
    /\ seen = [c \in Askers |-> NoRecord]
    /\ want = [c \in Askers |-> NoJob]
    /\ ops = 0
    /\ failedWrites = 0
    /\ restarts = 0
    /\ outcome = [o \in OpIds |-> "none"]
    /\ activated = {}
    /\ settled = TRUE
    /\ orderly = TRUE

-----------------------------------------------------------------------------
(***************************************************************************)
(* Calls of the tool.                                                      *)
(***************************************************************************)

\* A call starts; it is refused while an update holds the gate.
\* Mutant: the gate is not looked at.
AcquireAnyway ==
    /\ active < MaxActive
    /\ active' = active + 1
    /\ UNCHANGED <<toolDisk, gate, phase, done, closed, opCancelled, toolPc, job, requests, ops,
                   failedWrites, restarts, toolHistory>>

Acquire ==
    /\ gate = NoOp
    /\ active < MaxActive
    /\ active' = active + 1
    /\ UNCHANGED <<toolDisk, gate, phase, done, closed, opCancelled, toolPc, job, requests, ops,
                   failedWrites, restarts, toolHistory>>

\* It ends, whatever the way.
\* Mutant: a call that is not running is released as well.
ReleaseAnyway ==
    /\ active' = active - 1
    /\ UNCHANGED <<toolDisk, gate, phase, done, closed, opCancelled, toolPc, job, requests, ops,
                   failedWrites, restarts, toolHistory>>

ReleaseCall ==
    /\ active > 0
    /\ active' = active - 1
    /\ UNCHANGED <<toolDisk, gate, phase, done, closed, opCancelled, toolPc, job, requests, ops,
                   failedWrites, restarts, toolHistory>>

-----------------------------------------------------------------------------
(***************************************************************************)
(* A request.  A write that fails leaves the file as it was.               *)
(***************************************************************************)
Write(r) ==
    \/ record' = r /\ UNCHANGED failedWrites
    \/ failedWrites < MaxFailedWrites /\ failedWrites' = failedWrites + 1 /\ UNCHANGED record

Go(c, place) == at' = [at EXCEPT ![c] = place]

\* The request is answered, and what it knew is gone.
Reply(c) ==
    /\ Go(c, "idle")
    /\ seen' = [seen EXCEPT ![c] = NoRecord]
    /\ want' = [want EXCEPT ![c] = NoJob]

\* Or it goes on from here.
GoOn(c, place) == Go(c, place) /\ UNCHANGED <<seen, want>>

NobodyElse(c) == \A d \in Askers \ {c} : at[d] \notin Asking

\* What follows the recovery: an installation goes on, a question is answered.
AfterRecovery(c) == IF want[c].kind = "query" THEN Reply(c) ELSE GoOn(c, "version")

\* ToolInstallState, startToolOperation and ImportToolPackage: nothing is recovered
\* while an operation runs.
\* Mutant: the gate is not looked at.
QuietAnyway == TRUE
Quiet == gate = NoOp

Ask(c, kind) ==
    /\ at[c] = "idle"
    /\ Quiet
    /\ Go(c, "pending")
    /\ want' = [want EXCEPT ![c] = [NoJob EXCEPT !.kind = kind]]
    /\ UNCHANGED <<toolDisk, activity, toolPc, job, seen, ops, failedWrites, restarts, toolHistory>>

\* recoverPendingOperation looks at the gate once more, and recovers nothing if an operation
\* has come; or it reads the record and acts on it in later steps.
Pending(c) ==
    /\ at[c] = "pending"
    /\ \/ /\ gate # NoOp \/ record.result # "running"
          /\ AfterRecovery(c)
       \/ /\ record.result = "running"
          /\ seen' = [seen EXCEPT ![c] = record]
          /\ Go(c, IF record.phase \in PreSwitch THEN "forget" ELSE "confirm")
          /\ UNCHANGED want
    /\ UNCHANGED <<toolDisk, activity, toolPc, job, ops, failedWrites, restarts, toolHistory>>

\* After the switch: which version is in use?  If none can be read the record says so.
Confirm(c) ==
    /\ at[c] = "confirm"
    /\ \/ /\ current = NoVersion
          /\ Write([seen[c] EXCEPT !.phase = "restore", !.result = "failed"])
          /\ Reply(c)
       \/ /\ current # NoVersion
          /\ GoOn(c, IF seen[c].base \in {NoVersion, current} THEN "forget" ELSE "restore")
          /\ UNCHANGED <<record, failedWrites>>
    /\ UNCHANGED <<current, versions, toolData, work, activity, toolPc, job, ops, restarts,
                   toolHistory>>

\* The version from before the interrupted operation is put back.  History: another
\* request that is under way may have read the version it replaces.
RestoreInterrupted(c) ==
    /\ at[c] = "restore"
    /\ \/ /\ current' = seen[c].base
          /\ settled' = TRUE
          /\ orderly' = (orderly /\ NobodyElse(c))
          /\ GoOn(c, "forget")
          /\ UNCHANGED <<record, failedWrites>>
       \/ /\ failedWrites < MaxFailedWrites
          /\ failedWrites' = failedWrites + 1
          /\ record' = [seen[c] EXCEPT !.phase = "restore", !.result = "failed"]
          /\ Reply(c)
          /\ UNCHANGED <<current, settled, orderly>>
    /\ UNCHANGED <<versions, toolData, work, activity, toolPc, job, ops, restarts, outcome,
                   activated>>

\* The work directory of the interrupted operation goes, and its record.
Forget(c) ==
    /\ at[c] = "forget"
    /\ work' = work \ {seen[c].op}
    /\ Write(NoRecord)
    /\ AfterRecovery(c)
    /\ UNCHANGED <<current, versions, toolData, activity, toolPc, job, ops, restarts, toolHistory>>

\* The version to start from and the version to install: the newest one published, which
\* an update needs to be newer, or the one of an imported package.
ReadVersion(c, v) ==
    /\ at[c] = "version"
    /\ want[c].kind = "import" \/ v = MaxVersion
    /\ IF want[c].kind = "update" /\ (current = NoVersion \/ v <= current) THEN Reply(c)
       ELSE /\ want' = [want EXCEPT ![c] = [@ EXCEPT !.base = current, !.target = v]]
            /\ Go(c, "begin")
            /\ UNCHANGED seen
    /\ UNCHANGED <<toolDisk, activity, toolPc, job, ops, failedWrites, restarts, toolHistory>>

\* beginUpdate refuses while the tool is in use or being updated.
RefuseUpdate(c) ==
    /\ at[c] = "begin"
    /\ gate # NoOp \/ active > 0
    /\ Reply(c)
    /\ UNCHANGED <<toolDisk, activity, toolPc, job, ops, failedWrites, restarts, toolHistory>>

\* beginUpdate closes the gate, makes a new done channel, and the goroutine starts.
\* History: a request that is under way will act on what it read before this operation,
\* and the operation before may not have signalled its end yet.
BeginUpdate(c) ==
    LET o == ops + 1 IN
    /\ at[c] = "begin"
    /\ gate = NoOp
    /\ active = 0
    /\ o \in OpIds
    /\ ops' = o
    /\ gate' = o
    /\ phase' = "candidate"
    /\ done' = o
    /\ job' = [job EXCEPT ![o] = want[c]]
    /\ toolPc' = [toolPc EXCEPT ![o] = "begin"]
    /\ outcome' = [outcome EXCEPT ![o] = "running"]
    /\ orderly' = (orderly /\ done = NoOp /\ NobodyElse(c))
    /\ Reply(c)
    /\ UNCHANGED <<toolDisk, closed, active, opCancelled, failedWrites, restarts, activated,
                   settled>>

\* CancelToolOperation looks at the phase, and later takes the cancel function of
\* whatever operation then runs.
CancelCall(c) ==
    /\ at[c] = "idle"
    /\ gate # NoOp
    /\ phase \in Cancellable
    /\ Go(c, "cancel")
    /\ UNCHANGED <<toolDisk, activity, toolPc, job, seen, want, ops, failedWrites, restarts,
                   toolHistory>>

\* Its answer is that of ToolInstallState.
Answer(c) == Go(c, IF gate = NoOp THEN "pending" ELSE "idle")

CancelToolOperation(c) ==
    /\ at[c] = "cancel"
    /\ IF gate = NoOp THEN Answer(c) /\ UNCHANGED opCancelled
       ELSE Go(c, "wait") /\ opCancelled' = TRUE
    /\ UNCHANGED <<toolDisk, gate, phase, done, closed, active, toolPc, job, seen, want, ops,
                   failedWrites, restarts, toolHistory>>

\* waitDone returns when the done channel is closed, and after ten seconds.
Waited(c) ==
    /\ at[c] = "wait"
    /\ Answer(c)
    /\ UNCHANGED <<toolDisk, activity, toolPc, job, seen, want, ops, failedWrites, restarts,
                   toolHistory>>

-----------------------------------------------------------------------------
(***************************************************************************)
(* The goroutine of an operation: runToolOperationAsync,                   *)
(* runToolImportAsync and advanceToolOperation.                            *)
(***************************************************************************)
OpAt(o, place) == toolPc[o] = place
MoveOp(o, place) == toolPc' = [toolPc EXCEPT ![o] = place]

\* setPhase: the phase is shown, then recorded; whether that was written is not looked at.
SetPhase(o, p) ==
    /\ phase' = p
    /\ Write(RecordOf(o, p, "running"))
    /\ MoveOp(o, p)
    /\ UNCHANGED <<current, versions, toolData, gate, done, closed, active, opCancelled, job,
                   requests, ops, restarts, toolHistory>>

\* Work directories of earlier operations go, and the first phase begins; the package of
\* an import is there already.
Begin(o) ==
    /\ OpAt(o, "begin")
    /\ work' = {}
    /\ SetPhase(o, IF job[o].kind = "import" THEN "prepare" ELSE "download")

Enter(o, p) == OpAt(o, Entering[p]) /\ SetPhase(o, p) /\ UNCHANGED work

\* finishOperation and finishOperationCancelled: the record keeps how it ended.
Finish(o, p, result) ==
    /\ Write(RecordOf(o, p, result))
    /\ outcome' = [outcome EXCEPT ![o] = result]
    /\ MoveOp(o, "release")

\* Work that failed, or that failed or ended after its context was cancelled.
GiveUpPhase(o, p) == Finish(o, p, IF opCancelled THEN "cancelled" ELSE "failed")

\* Mutant: the data is not migrated.
SkipMigration(o, p) ==
    MoveOp(o, Entering[CASE p = "download" -> "prepare" [] p = "prepare" -> "probe"
                       [] p \in {"probe", "migration"} -> "switch" [] OTHER -> "refresh"])
GoOnTo(o, p) ==
    MoveOp(o, Entering[CASE p = "download" -> "prepare" [] p = "prepare" -> "probe"
                       [] p = "probe" -> "migration" [] p = "migration" -> "switch"
                       [] OTHER -> "refresh"])

\* The package is downloaded and unpacked below the work directory.
Download(o) ==
    /\ OpAt(o, "download")
    /\ work' = work \cup {o}
    /\ \/ GiveUpPhase(o, "download")
       \/ /\ ~opCancelled
          /\ GoOnTo(o, "download")
          /\ UNCHANGED <<record, failedWrites, outcome>>
    /\ UNCHANGED <<current, versions, toolData, activity, job, requests, ops, restarts, activated,
                   settled, orderly>>

\* PrepareVersion: an existing directory of the version is used again; otherwise the
\* package is copied, which needs the unpacked package to be still there.
PrepareVersion(o) ==
    /\ OpAt(o, "prepare")
    /\ \/ /\ job[o].kind = "import" \/ o \in work \/ job[o].target \in versions
          /\ versions' = versions \cup {job[o].target}
       \/ UNCHANGED versions
    /\ \/ GiveUpPhase(o, "prepare")
       \/ /\ ~opCancelled
          /\ job[o].target \in versions'
          /\ GoOnTo(o, "prepare")
          /\ UNCHANGED <<record, failedWrites, outcome>>
    /\ UNCHANGED <<current, toolData, work, activity, job, requests, ops, restarts, activated,
                   settled, orderly>>

\* probeTool runs the new version once, on a directory of its own below the work directory.
Probe(o) ==
    /\ OpAt(o, "probe")
    /\ work' = work \cup {o}
    /\ \/ GiveUpPhase(o, "probe")
       \/ GoOnTo(o, "probe") /\ UNCHANGED <<record, failedWrites, outcome>>
    /\ UNCHANGED <<current, versions, toolData, activity, job, requests, ops, restarts, activated,
                   settled, orderly>>

\* migrateToolData lets the new version migrate the tool's data in place; data of a later
\* version is left alone.  A migration that is cut off may have finished all the same.
Migrated(v) == IF v > toolData THEN v ELSE toolData

Migrate(o) ==
    /\ OpAt(o, "migration")
    /\ \/ /\ GiveUpPhase(o, "migration")
          /\ toolData' \in {toolData, Migrated(job[o].target)}
       \/ /\ toolData' = Migrated(job[o].target)
          /\ GoOnTo(o, "migration")
          /\ UNCHANGED <<record, failedWrites, outcome>>
    /\ UNCHANGED <<current, versions, work, activity, job, requests, ops, restarts, activated,
                   settled, orderly>>

\* Activate refuses when the version in use is not the one the operation started from,
\* and switches by one write of current.json; no cancellation reaches it.
MayActivate(o) == job[o].base \in {NoVersion, current} \/ current = NoVersion

Activate(o) ==
    /\ OpAt(o, "switch")
    /\ \/ /\ MayActivate(o)
          /\ current' = job[o].target
          /\ activated' = activated \cup {o}
          /\ settled' = FALSE
          /\ GoOnTo(o, "switch")
          /\ UNCHANGED failedWrites
       \/ /\ ~MayActivate(o)
          /\ MoveOp(o, "restore")
          /\ UNCHANGED <<current, activated, settled, failedWrites>>
       \/ /\ failedWrites < MaxFailedWrites
          /\ failedWrites' = failedWrites + 1
          /\ MoveOp(o, "restore")
          /\ UNCHANGED <<current, activated, settled>>
    /\ UNCHANGED <<versions, toolData, record, work, activity, job, requests, ops, restarts,
                   outcome, orderly>>

\* buildInstallState reads the new state; when it cannot, the old version comes back.
Refresh(o) ==
    /\ OpAt(o, "refresh")
    /\ \/ MoveOp(o, "remove") /\ UNCHANGED failedWrites
       \/ /\ failedWrites < MaxFailedWrites
          /\ failedWrites' = failedWrites + 1
          /\ MoveOp(o, "restore")
    /\ UNCHANGED <<toolDisk, activity, job, requests, ops, restarts, toolHistory>>

\* restoreVersion: nothing is restored when nothing was installed.  The record is kept
\* after a refused switch and removed after a refresh that failed.  History: a version
\* that could not be put back is nobody's.
\* Mutant: nothing is put back.
KeepNew(o) == current
Former(o) == IF job[o].base = NoVersion THEN current ELSE job[o].base

RestoreVersion(o) ==
    LET place == IF o \in activated THEN "restore" ELSE "switch" IN
    /\ OpAt(o, "restore")
    /\ \/ /\ current' = Former(o)
          /\ settled' = (settled \/ job[o].base # NoVersion)
          /\ Write(RecordOf(o, place, "failed"))
          /\ MoveOp(o, IF o \in activated THEN "remove" ELSE "release")
          /\ UNCHANGED orderly
       \/ /\ job[o].base # NoVersion
          /\ failedWrites < MaxFailedWrites
          /\ failedWrites' = failedWrites + 1
          /\ record' = RecordOf(o, place, "failed")
          /\ orderly' = FALSE
          /\ MoveOp(o, "release")
          /\ UNCHANGED <<current, settled>>
    /\ outcome' = [outcome EXCEPT ![o] = "failed"]
    /\ UNCHANGED <<versions, toolData, work, activity, job, requests, ops, restarts, activated>>

\* The record goes.  History: this completes the operation; if the record cannot be
\* removed, the next question takes the operation for an interrupted one.
RemoveRecord(o) ==
    /\ OpAt(o, "remove")
    /\ Write(NoRecord)
    /\ orderly' = (orderly /\ record' = NoRecord)
    /\ outcome' = [outcome EXCEPT ![o] = IF @ = "running" THEN "done" ELSE @]
    /\ settled' = TRUE
    /\ MoveOp(o, "release")
    /\ UNCHANGED <<current, versions, toolData, work, activity, job, requests, ops, restarts,
                   activated>>

\* The deferred calls: the work directory goes, and endUpdate opens the gate and drops
\* the cancel function.
\* Mutant: the done channel is closed first.
EndUpdateSignals(o) ==
    /\ OpAt(o, "release")
    /\ work' = work \ {o}
    /\ gate' = NoOp
    /\ phase' = "none"
    /\ opCancelled' = FALSE
    /\ closed' = done
    /\ done' = NoOp
    /\ MoveOp(o, "signal")
    /\ UNCHANGED <<current, versions, toolData, record, active, job, requests, ops, failedWrites,
                   restarts, toolHistory>>

EndUpdate(o) ==
    /\ OpAt(o, "release")
    /\ work' = work \ {o}
    /\ gate' = NoOp
    /\ phase' = "none"
    /\ opCancelled' = FALSE
    /\ MoveOp(o, "signal")
    /\ UNCHANGED <<current, versions, toolData, record, done, closed, active, job, requests, ops,
                   failedWrites, restarts, toolHistory>>

\* finishUpdate closes whatever done channel the activity then has.
FinishUpdate(o) ==
    /\ OpAt(o, "signal")
    /\ closed' = IF done = NoOp THEN closed ELSE done
    /\ done' = NoOp
    /\ MoveOp(o, "over")
    /\ job' = [job EXCEPT ![o] = NoJob]
    /\ outcome' = [outcome EXCEPT ![o] = "none"]
    /\ activated' = activated \ {o}
    /\ UNCHANGED <<toolDisk, gate, phase, active, opCancelled, requests, ops, failedWrites,
                   restarts, settled, orderly>>

\* The process ends and starts again: only the files are left.
ToolCrash ==
    /\ restarts < MaxRestarts
    /\ restarts' = restarts + 1
    /\ gate' = NoOp
    /\ phase' = "none"
    /\ done' = NoOp
    /\ active' = 0
    /\ opCancelled' = FALSE
    /\ toolPc' = [o \in OpIds |-> "over"]
    /\ job' = [o \in OpIds |-> NoJob]
    /\ at' = [c \in Askers |-> "idle"]
    /\ seen' = [c \in Askers |-> NoRecord]
    /\ want' = [c \in Askers |-> NoJob]
    /\ outcome' = [o \in OpIds |-> "none"]
    /\ activated' = {}
    /\ UNCHANGED <<toolDisk, closed, ops, failedWrites, settled, orderly>>

-----------------------------------------------------------------------------
OpStep(o) ==
    \/ Begin(o) \/ Download(o) \/ PrepareVersion(o) \/ Probe(o) \/ Migrate(o) \/ Activate(o)
    \/ Refresh(o) \/ RestoreVersion(o) \/ RemoveRecord(o) \/ EndUpdate(o) \/ FinishUpdate(o)
    \/ \E p \in Phases \ {"download"} : Enter(o, p)

Request(c) ==
    \/ \E kind \in OpKinds : Ask(c, kind)
    \/ \E v \in Versions : ReadVersion(c, v)
    \/ Pending(c) \/ Confirm(c) \/ RestoreInterrupted(c) \/ Forget(c)
    \/ RefuseUpdate(c) \/ BeginUpdate(c)
    \/ CancelCall(c) \/ CancelToolOperation(c) \/ Waited(c)

ToolNext ==
    \/ Acquire \/ ReleaseCall \/ ToolCrash
    \/ \E o \in OpIds : OpStep(o)
    \/ \E c \in Askers : Request(c)

ToolSpec == ToolInit /\ [][ToolNext]_toolVars

-----------------------------------------------------------------------------
(***************************************************************************)
(* Properties.                                                             *)
(***************************************************************************)

\* The types of the variables.
DiskTypes ==
    /\ current \in Versions \cup {NoVersion}
    /\ versions \subseteq Versions \cup {NoVersion}
    /\ toolData \in Versions \cup {NoVersion}
    /\ record \in Records
    /\ work \subseteq OpIds
ActivityTypes ==
    /\ gate \in OpIds \cup {NoOp}
    /\ phase \in Cancellable \cup Phases \cup {"none"}
    /\ done \in OpIds \cup {NoOp}
    /\ closed \in OpIds \cup {NoOp}
    /\ active \in 0 .. MaxActive
    /\ opCancelled \in BOOLEAN
GoroutineTypes ==
    /\ toolPc \in [OpIds -> OpPlaces]
    /\ job \in [OpIds -> Jobs]
    /\ outcome \in [OpIds -> {"none", "running", "done", "failed", "cancelled"}]
    /\ activated \subseteq OpIds
RequestTypes ==
    /\ at \in [Askers -> Stations]
    /\ seen \in [Askers -> Records]
    /\ want \in [Askers -> Jobs]
ToolCountTypes ==
    /\ ops \in OpIds \cup {0}
    /\ failedWrites \in 0 .. MaxFailedWrites
    /\ restarts \in 0 .. MaxRestarts
    /\ settled \in BOOLEAN
    /\ orderly \in BOOLEAN
ToolTypeOK == DiskTypes /\ ActivityTypes /\ GoroutineTypes /\ RequestTypes /\ ToolCountTypes

\* The program of a tool is replaced by one operation at a time and never under a
\* running call (acquire, beginUpdate and endUpdate of activity.go).
Exclusive ==
    /\ \A o \in OpIds : toolPc[o] \in AtWork => gate = o
    /\ gate # NoOp => active = 0

\* No version is in use before the tool's data was migrated to it, whatever is undone,
\* cancelled or interrupted (advanceToolOperation migrates before it switches).
MigratedFirst == current <= toolData /\ (current # NoVersion => current \in versions)

\* The version an operation leaves behind when it opens the gate: the new one if it is
\* done, and otherwise the one it started from.
AllOrNothing ==
    orderly => \A o \in OpIds : toolPc[o] = "release" =>
        current = IF outcome[o] = "done" THEN job[o].target
                  ELSE IF job[o].base = NoVersion /\ o \in activated THEN job[o].target
                  ELSE job[o].base

\* While requests act one after the other, a version that belongs to no unfinished
\* operation is only replaced by an operation that switches: no recovery and no undoing
\* takes back what was completed (recoverPendingOperation, restoreVersion).
Switched == \E o \in OpIds : o \in activated' \ activated
KeptUntilSwitch == settled /\ orderly' /\ current' # current => Switched
CompletedKept == [][KeptUntilSwitch]_toolVars

\* An operation whose switch was refused leaves the version in use alone (Activate:
\* the previous version must still be the current one, "to keep concurrent switches out").
RefusedLeaves ==
    \A o \in OpIds \ activated :
        toolPc[o] = "restore" /\ toolPc'[o] # toolPc[o] => current' = current
RefusedChangesNothing == [][RefusedLeaves]_toolVars

\* While one operation is accepted after the other is over, a done channel is closed when
\* all of its operation is over (finishUpdate).
SignalledWhenOver == orderly /\ closed # NoOp => toolPc[closed] = "over"
=============================================================================
