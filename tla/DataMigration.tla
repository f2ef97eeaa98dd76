---------------------------- MODULE DataMigration ---------------------------
(***************************************************************************)
(* The migration of the data at the start of the program                   *)
(* (data-migration-system: execute.go, backup.go, process.go, and its use  *)
(* in cmd/eucli-box/main.go).  One process holds the lock of the data      *)
(* directory; it may die between any two writes, and every write may fail. *)
(* The data are files of a level each, the version fact is one of them.    *)
(***************************************************************************)
EXTENDS Naturals

CONSTANTS
    Files,          \* the files in the scope of the registered steps
    VersionFile,    \* the version fact, one of them
    Target          \* the data version of the program; level k - 1 to k is a step

ASSUME MigrationAssumption == Target \in Nat /\ VersionFile \in Files

VARIABLES
    levels,         \* the level of every file
    copies,         \* the files of the backup of the last run, Gone if not there
    manifest,       \* whether the manifest of that backup is there
    record,         \* whether process.json is there
    at,             \* where the program is, "down" if it does not run
    processing,     \* whether the session in memory holds a process record
    resume,         \* whether the program goes on after it has recovered
    before,         \* history: the data the last migration began with
    damaged         \* history: a backup was damaged by its failed removal, see TidyFails

migDisk == <<levels, copies, manifest, record>>
migVars == <<migDisk, at, processing, resume, before, damaged>>

Levels == 0 .. Target
Gone == Target + 1     \* no level

MigPlaces == {"down", "backup", "enlist", "step", "restore", "delete", "clean", "starting",
              "complete", "tidy", "serving"}
Version == levels[VersionFile]

MigInit ==
    /\ \E v \in Levels : levels = [f \in Files |-> v]
    /\ before = levels
    /\ copies = [f \in Files |-> Gone]
    /\ manifest = FALSE
    /\ record = FALSE
    /\ at = "down"
    /\ processing = FALSE
    /\ resume = FALSE
    /\ damaged = FALSE

Go(p) == at' = p

-----------------------------------------------------------------------------
(***************************************************************************)
(* Prepare.                                                                *)
(***************************************************************************)

\* A process record on the disk comes before everything else.
Boot ==
    /\ at = "down"
    /\ \/ /\ record
          /\ Go("restore")
          /\ resume' = TRUE
          /\ UNCHANGED <<copies, manifest>>
       \/ /\ ~record /\ Version = Target
          /\ Go("starting")
          /\ UNCHANGED <<copies, manifest, resume>>
       \/ /\ ~record /\ Version < Target
          /\ Go("backup")
          /\ copies' = [f \in Files |-> Gone]
          /\ manifest' = FALSE
          /\ UNCHANGED resume
    /\ UNCHANGED <<levels, record, processing, before, damaged>>

\* establishBackup: the files one by one, then the manifest.
CopyFile(f) ==
    /\ at = "backup"
    /\ copies[f] = Gone
    /\ copies' = [copies EXCEPT ![f] = levels[f]]
    /\ UNCHANGED <<levels, manifest, record, at, processing, resume, before, damaged>>

WriteManifest ==
    /\ at = "backup"
    /\ \A f \in Files : copies[f] = levels[f]
    /\ manifest' = TRUE
    /\ Go("enlist")
    /\ UNCHANGED <<levels, copies, record, processing, resume, before, damaged>>

\* writeProcessRecord, when the backup has been verified.
WriteRecord ==
    /\ at = "enlist"
    /\ record' = TRUE
    /\ processing' = TRUE
    /\ before' = levels
    /\ Go("step")
    /\ UNCHANGED <<levels, copies, manifest, resume, damaged>>

-----------------------------------------------------------------------------
(***************************************************************************)
(* Run: the chain of steps, the next one from the version that was         *)
(* reached.  The record that a step is verified changes nothing for a      *)
(* recovery, which always goes back to the beginning.                      *)
(***************************************************************************)

\* Mutant: the chain has one step too many.
MoreByOne == Version <= Target
MoreSteps == Version < Target

\* Apply changes the files of the scope in some order.
ApplyTo(f) ==
    /\ at = "step"
    /\ MoreSteps
    /\ f # VersionFile
    /\ levels' = [levels EXCEPT ![f] = Version + 1]
    /\ UNCHANGED <<copies, manifest, record, at, processing, resume, before, damaged>>

\* Verify, and then the version fact.
StepVerified ==
    /\ at = "step"
    /\ MoreSteps
    /\ \A f \in Files \ {VersionFile} : levels[f] = Version + 1
    /\ levels' = [levels EXCEPT ![VersionFile] = @ + 1]
    /\ UNCHANGED <<copies, manifest, record, at, processing, resume, before, damaged>>

\* A check, a change or a write of a step fails: autoRecover.
\* Mutant: the program starts with what the step left.
StepAbandoned ==
    /\ at = "step"
    /\ Go("starting")
    /\ UNCHANGED <<migDisk, processing, resume, before, damaged>>

StepFails ==
    /\ at = "step"
    /\ Go("restore")
    /\ resume' = TRUE
    /\ UNCHANGED <<migDisk, processing, before, damaged>>

StepsDone ==
    /\ at = "step"
    /\ ~MoreSteps
    /\ Go("starting")
    /\ UNCHANGED <<migDisk, processing, resume, before, damaged>>

-----------------------------------------------------------------------------
(***************************************************************************)
(* restoreFromBackup and what follows it, for an unfinished migration of   *)
(* an earlier start, a step that failed and a start that failed.           *)
(***************************************************************************)
RestoreFile(f) ==
    /\ at = "restore"
    /\ manifest
    /\ copies[f] # Gone
    /\ levels' = [levels EXCEPT ![f] = copies[f]]
    /\ UNCHANGED <<copies, manifest, record, at, processing, resume, before, damaged>>

RestoreVerified ==
    /\ at = "restore"
    /\ manifest
    /\ \A f \in Files : levels[f] = copies[f]
    /\ Go("delete")
    /\ UNCHANGED <<migDisk, processing, resume, before, damaged>>

\* deleteProcessRecord, after a recovery or in Complete.
\* Mutant: the record stays until the backup has gone.
DeleteLater ==
    /\ \/ at = "delete" /\ Go("clean")
       \/ at = "complete" /\ Go("tidy")
    /\ UNCHANGED <<migDisk, processing, resume, before, damaged>>

DeleteRecord ==
    /\ \/ at = "delete" /\ Go("clean")
       \/ at = "complete" /\ Go("tidy")
    /\ record' = FALSE
    /\ UNCHANGED <<levels, copies, manifest, processing, resume, before, damaged>>

\* removeBackupRun, entry by entry.
RemoveEntry ==
    /\ at \in {"clean", "tidy"}
    /\ \/ \E f \in Files : /\ copies[f] # Gone
                           /\ copies' = [copies EXCEPT ![f] = Gone]
                           /\ UNCHANGED manifest
       \/ manifest /\ manifest' = FALSE /\ UNCHANGED copies
    /\ UNCHANGED <<levels, record, at, processing, resume, before, damaged>>

\* The program serves the migrated data, or goes on with the restored ones.  A recovery
\* because the start failed ends with the program.
Removed ==
    /\ ~manifest /\ \A f \in Files : copies[f] = Gone
    /\ \/ at = "tidy" /\ Go("serving")
       \/ at = "clean" /\ Go(IF resume THEN "starting" ELSE "down")
    /\ processing' = FALSE
    /\ resume' = FALSE
    /\ UNCHANGED <<migDisk, before, damaged>>

\* A recovery fails: the program ends, and what is on the disk stays.
RecoveryFails ==
    /\ at \in {"restore", "delete", "clean"}
    /\ Go("down")
    /\ processing' = FALSE
    /\ resume' = FALSE
    /\ UNCHANGED <<migDisk, before, damaged>>

\* Complete cannot remove the backup: the session still holds the process record that was
\* deleted, and the recovery at the end of main restores what is left of the backup.
TidyFails ==
    /\ at = "tidy"
    /\ Go("restore")
    /\ damaged' = TRUE
    /\ UNCHANGED <<migDisk, processing, resume, before>>

-----------------------------------------------------------------------------
(***************************************************************************)
(* The start of the program, Complete, and its end.                        *)
(***************************************************************************)

\* All parts have started: Complete looks at the version and writes the status.
Started ==
    /\ at = "starting"
    /\ Go(IF processing THEN "complete" ELSE "serving")
    /\ processing => Version = Target
    /\ UNCHANGED <<migDisk, processing, resume, before, damaged>>

\* A part does not start, or Complete fails before the record is deleted: Recover.
StartFails ==
    /\ at \in {"starting", "complete"}
    /\ Go(IF processing THEN "restore" ELSE "down")
    /\ resume' = FALSE
    /\ UNCHANGED <<migDisk, processing, before, damaged>>

\* The program dies, or ends without touching the data.
Die ==
    /\ at # "down"
    /\ Go("down")
    /\ processing' = FALSE
    /\ resume' = FALSE
    /\ UNCHANGED <<migDisk, before, damaged>>

-----------------------------------------------------------------------------
MigNext ==
    \/ Boot \/ WriteManifest \/ WriteRecord
    \/ \E f \in Files : CopyFile(f) \/ ApplyTo(f) \/ RestoreFile(f)
    \/ StepVerified \/ StepFails \/ StepsDone
    \/ RestoreVerified \/ DeleteRecord \/ RemoveEntry \/ Removed \/ RecoveryFails \/ TidyFails
    \/ Started \/ StartFails \/ Die

MigSpec == MigInit /\ [][MigNext]_migVars

-----------------------------------------------------------------------------
(***************************************************************************)
(* Properties.                                                             *)
(***************************************************************************)

\* The types of the variables; no file is beyond the target.
MigTypeOK ==
    /\ levels \in [Files -> Levels]
    /\ copies \in [Files -> Levels \cup {Gone}]
    /\ manifest \in BOOLEAN
    /\ record \in BOOLEAN
    /\ at \in MigPlaces
    /\ processing \in BOOLEAN
    /\ resume \in BOOLEAN
    /\ before \in [Files -> Levels]
    /\ damaged \in BOOLEAN

\* A process record on the disk promises a recovery: its backup is whole and holds the
\* data as they were before the migration (Prepare writes it last, a recovery and
\* Complete delete it first).
Recoverable == record => manifest /\ copies = before

\* Whenever the program runs on the data they are of one version, the one the version
\* fact names.  This is what the comments on Recover and failRecovery promise for a
\* migration that did not come to its end: the data are as they were, or a recovery that
\* failed has kept everything it needs.
Unmixed == at \in {"starting", "complete", "serving"} => \A f \in Files : levels[f] = Version

\* A migration that died or failed half-way is undone before the program runs on the
\* data, unless it was the removal of a backup in Complete that failed (TidyFails).
NoMixedData == ~damaged => Unmixed
=============================================================================
