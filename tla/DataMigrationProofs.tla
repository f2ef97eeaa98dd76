-------------------------- MODULE DataMigrationProofs -------------------------
(***************************************************************************)
(* Proofs about DataMigration, for every set of files and every target.    *)
(***************************************************************************)
EXTENDS DataMigration, TLAPS

Uniform(d) == \A f \in Files : d[f] = d[VersionFile]

-----------------------------------------------------------------------------
(***************************************************************************)
(* The inductive invariant.                                                *)
(***************************************************************************)

\* Where the program is says whether the record is on the disk and in the session.
Enlisted ==
    /\ at \in {"backup", "enlist", "clean", "tidy", "serving"} => ~record
    /\ at = "step" => record /\ processing
    /\ at \in {"complete", "tidy"} => processing
    /\ at = "complete" => record
    /\ at = "starting" => (processing <=> record)
    /\ at = "down" => ~processing

\* What a backup under way and a finished one hold.
Backed ==
    /\ Recoverable
    /\ at = "enlist" => manifest /\ copies = levels

\* While no backup was damaged the data are uniform where no record promises to restore
\* them, and what the backup restores is uniform.
Whole ==
    /\ ~record => Uniform(levels)
    /\ record => Uniform(before)
    /\ at \in {"starting", "complete"} => Uniform(levels)
    /\ at = "step" => \A f \in Files : levels[f] \in {Version, Version + 1}
    /\ at = "restore" => record
    /\ at = "delete" => record /\ Uniform(levels)

MigInv == MigTypeOK /\ Enlisted /\ Backed /\ (~damaged => Whole)

-----------------------------------------------------------------------------
LEMMA MigTypesInit == MigInit => MigTypeOK
  BY MigrationAssumption DEF MigInit, MigTypeOK, Levels, Gone, MigPlaces

LEMMA MigTypesStep == MigTypeOK /\ [MigNext]_migVars => MigTypeOK'
  <1> SUFFICES ASSUME MigTypeOK, [MigNext]_migVars PROVE MigTypeOK'
    OBVIOUS
  <1> USE MigrationAssumption DEF MigTypeOK, Levels, Gone, MigPlaces, Go, Version
  <1>1. CASE Boot
    BY <1>1 DEF Boot
  <1>2. ASSUME NEW f \in Files, CopyFile(f) PROVE MigTypeOK'
    BY <1>2 DEF CopyFile
  <1>3. ASSUME NEW f \in Files, ApplyTo(f) PROVE MigTypeOK'
    BY <1>3 DEF ApplyTo, MoreSteps
  <1>4. ASSUME NEW f \in Files, RestoreFile(f) PROVE MigTypeOK'
    BY <1>4 DEF RestoreFile
  <1>5. CASE StepVerified
    BY <1>5 DEF StepVerified, MoreSteps
  <1>6. CASE WriteManifest \/ WriteRecord \/ StepFails \/ StepsDone
    BY <1>6 DEF WriteManifest, WriteRecord, StepFails, StepsDone, migDisk
  <1>7. CASE RestoreVerified \/ DeleteRecord \/ RecoveryFails \/ TidyFails
    BY <1>7 DEF RestoreVerified, DeleteRecord, RecoveryFails, TidyFails, migDisk
  <1>8. CASE RemoveEntry
    BY <1>8 DEF RemoveEntry
  <1>9. CASE Removed \/ Started \/ StartFails \/ Die
    BY <1>9 DEF Removed, Started, StartFails, Die, migDisk
  <1>10. CASE UNCHANGED migVars
    BY <1>10 DEF migVars, migDisk
  <1>. QED
    BY <1>1, <1>2, <1>3, <1>4, <1>5, <1>6, <1>7, <1>8, <1>9, <1>10 DEF MigNext

-----------------------------------------------------------------------------
LEMMA MigInvInit == MigInit => MigInv
  <1> SUFFICES ASSUME MigInit PROVE MigInv
    OBVIOUS
  <1>1. MigTypeOK
    BY MigTypesInit
  <1>2. Enlisted /\ Backed
    BY DEF MigInit, Enlisted, Backed, Recoverable
  <1>3. Whole
    BY MigrationAssumption DEF MigInit, Whole, Uniform
  <1>. QED
    BY <1>1, <1>2, <1>3 DEF MigInv

\* The first actions of a start: the backup is made before the record is written.
LEMMA MigBeginning ==
  ASSUME MigInv, MigTypeOK',
         Boot \/ (\E f \in Files : CopyFile(f)) \/ WriteManifest \/ WriteRecord
  PROVE  MigInv'
  <1> USE MigrationAssumption DEF MigInv, Enlisted, Backed, Recoverable, Whole, Go
  <1>1. CASE Boot
    BY <1>1 DEF Boot, MigTypeOK, Uniform, Version
  <1>2. ASSUME NEW f \in Files, CopyFile(f) PROVE MigInv'
    BY <1>2 DEF CopyFile, MigTypeOK, Uniform, Version
  <1>3. CASE WriteManifest
    <2>1. copies = levels
      BY <1>3 DEF WriteManifest, MigTypeOK
    <2>. QED
      BY <1>3, <2>1 DEF WriteManifest, Uniform, Version
  <1>4. CASE WriteRecord
    <2>1. Backed' /\ Enlisted'
      BY <1>4 DEF WriteRecord
    <2>2. ~damaged' => Whole'
      BY <1>4 DEF WriteRecord, Uniform, Version
    <2>. QED
      BY <2>1, <2>2
  <1>. QED
    BY <1>1, <1>2, <1>3, <1>4

\* The steps: a file is at the version that was reached, or one further.
LEMMA MigChain ==
  ASSUME MigInv, MigTypeOK',
         (\E f \in Files : ApplyTo(f)) \/ StepVerified \/ StepFails \/ StepsDone
  PROVE  MigInv'
  <1> USE MigrationAssumption DEF MigInv, Enlisted, Backed, Recoverable, Whole, Go, Version
  <1>1. ASSUME NEW f \in Files, ApplyTo(f) PROVE MigInv'
    BY <1>1 DEF ApplyTo, MigTypeOK
  <1>2. CASE StepVerified
    <2>1. Backed' /\ Enlisted'
      BY <1>2 DEF StepVerified
    <2>2. \A f \in Files : levels'[f] = levels'[VersionFile]
      BY <1>2 DEF StepVerified, MigTypeOK, Levels
    <2>3. ~damaged' => Whole'
      BY <1>2, <2>2 DEF StepVerified, Uniform
    <2>. QED
      BY <2>1, <2>3
  <1>3. CASE StepFails
    BY <1>3 DEF StepFails, migDisk, Uniform
  <1>4. CASE StepsDone
    <2>1. ~damaged => Uniform(levels)
      BY <1>4 DEF StepsDone, MoreSteps, MigTypeOK, Levels, Uniform
    <2>. QED
      BY <1>4, <2>1 DEF StepsDone, migDisk, Uniform
  <1>. QED
    BY <1>1, <1>2, <1>3, <1>4

\* A recovery: the record goes when the data are restored, and the backup after it.
LEMMA MigRecovery ==
  ASSUME MigInv, MigTypeOK',
         (\E f \in Files : RestoreFile(f)) \/ RestoreVerified \/ DeleteRecord \/ RemoveEntry
         \/ Removed \/ RecoveryFails \/ TidyFails
  PROVE  MigInv'
  <1> USE MigrationAssumption DEF MigInv, Enlisted, Backed, Recoverable, Whole, Go, Version
  <1>1. ASSUME NEW f \in Files, RestoreFile(f) PROVE MigInv'
    BY <1>1 DEF RestoreFile, Uniform
  <1>2. CASE RestoreVerified
    <2>1. ~damaged => Uniform(levels)
      BY <1>2 DEF RestoreVerified, Uniform
    <2>. QED
      BY <1>2, <2>1 DEF RestoreVerified, migDisk, Uniform
  <1>3. CASE DeleteRecord
    BY <1>3 DEF DeleteRecord, Uniform
  <1>4. CASE RemoveEntry
    BY <1>4 DEF RemoveEntry, Uniform
  <1>5. CASE Removed
    BY <1>5 DEF Removed, migDisk, Uniform
  <1>6. CASE RecoveryFails
    BY <1>6 DEF RecoveryFails, migDisk, Uniform
  <1>7. CASE TidyFails
    BY <1>7 DEF TidyFails, migDisk, Uniform
  <1>. QED
    BY <1>1, <1>2, <1>3, <1>4, <1>5, <1>6, <1>7

LEMMA MigRunning ==
  ASSUME MigInv, MigTypeOK', Started \/ StartFails \/ Die \/ UNCHANGED migVars
  PROVE  MigInv'
  <1> USE DEF MigInv, Enlisted, Backed, Recoverable, Whole, Uniform, Go, Version, migDisk
  <1>1. CASE Started
    BY <1>1 DEF Started
  <1>2. CASE StartFails
    BY <1>2 DEF StartFails
  <1>3. CASE Die
    BY <1>3 DEF Die
  <1>4. CASE UNCHANGED migVars
    BY <1>4 DEF migVars, MigTypeOK
  <1>. QED
    BY <1>1, <1>2, <1>3, <1>4

LEMMA MigInvStep == MigInv /\ [MigNext]_migVars => MigInv'
  <1> SUFFICES ASSUME MigInv, [MigNext]_migVars PROVE MigInv'
    OBVIOUS
  <1>1. MigTypeOK'
    BY MigTypesStep DEF MigInv
  <1>. QED
    BY <1>1, MigBeginning, MigChain, MigRecovery, MigRunning DEF MigNext

LEMMA MigInvariant == MigSpec => []MigInv
  BY MigInvInit, MigInvStep, PTL DEF MigSpec

-----------------------------------------------------------------------------
\* The variables keep their types, and no file gets beyond the target: the chain of steps
\* ends where the program wants it to.
THEOREM MigrationTypes == MigSpec => []MigTypeOK
  <1>1. MigInv => MigTypeOK
    BY DEF MigInv
  <1>. QED
    BY <1>1, MigInvariant, PTL

\* Wherever the program dies, a process record it leaves has its whole backup beside it,
\* with the data the migration began with (execute.go: Prepare, tryRecover, Complete).
THEOREM MigrationRecoverable == MigSpec => []Recoverable
  <1>1. MigInv => Recoverable
    BY DEF MigInv, Backed
  <1>. QED
    BY <1>1, MigInvariant, PTL

\* The program never runs on data of two versions, whatever step failed or died and
\* however often, as long as Complete could remove the backup (execute.go, main.go).
THEOREM MigrationNeverMixed == MigSpec => []NoMixedData
  <1>1. MigInv => NoMixedData
    BY DEF MigInv, Whole, Enlisted, Uniform, NoMixedData, Unmixed, Version
  <1>. QED
    BY <1>1, MigInvariant, PTL
=============================================================================
