------------------------ MODULE ToolOperationProofs ------------------------
(***************************************************************************)
(* That the program of a tool is replaced by one operation at a time and   *)
(* never ahead of its data, that an operation leaves the old version or    *)
(* the new one, and that nobody takes back what was completed, for any     *)
(* clients, versions, operations and any number of failures and restarts.  *)
(***************************************************************************)
EXTENDS ToolOperation, TLAPS

-----------------------------------------------------------------------------
(* The inductive invariant. *)

Numbers == Versions \cup {NoVersion}
Prepared == {"to_probe", "probe", "to_migration", "migration", "to_switch", "switch"}
Ready == {"to_switch", "switch"}

\* A version to go back to is one that was in use: its data and its program are there.
Usable(v) == v <= toolData /\ (v # NoVersion => v \in versions)
UsableOK ==
    /\ Usable(current)
    /\ Usable(record.base)
    /\ \A c \in Askers : Usable(seen[c].base) /\ Usable(want[c].base)
    /\ \A o \in OpIds : Usable(job[o].base)

\* What an operation has done where it stands.
TargetOK ==
    \A o \in OpIds :
        /\ toolPc[o] \in Prepared => job[o].target \in versions
        /\ toolPc[o] \in Ready => job[o].target <= toolData

\* Operations are numbered in the order they were accepted.
NumberedOK ==
    /\ \A o \in OpIds : o > ops => toolPc[o] = "over"
    /\ done <= ops
    /\ closed <= ops

Safe == ToolTypeOK /\ Exclusive /\ UsableOK /\ TargetOK /\ NumberedOK

-----------------------------------------------------------------------------
(* Types. *)

USE DEF Versions, NoVersion, OpIds, NoOp

LEMMA PlaceFacts ==
    /\ \A p \in Phases \ {"download"} : Entering[p] \in AtWork
    /\ Phases \subseteq AtWork
    /\ AtWork \subseteq OpPlaces
BY DEF Entering, Phases, AtWork, OpPlaces

LEMMA NoFacts == NoJob \in Jobs /\ NoRecord \in Records
BY DEF NoJob, Jobs, NoRecord, Records

LEMMA RecordFacts ==
    /\ \A r \in Records : r.base \in Numbers
    /\ \A j \in Jobs : j.base \in Numbers /\ j.target \in Numbers
BY DEF Records, Jobs, Numbers

LEMMA EntryFacts ==
    ASSUME ToolTypeOK, NEW o \in OpIds, NEW p \in Phases \cup {"restore"},
           NEW r \in {"running", "failed", "cancelled"}
    PROVE  RecordOf(o, p, r) \in Records
BY DEF ToolTypeOK, GoroutineTypes, RecordOf, Records, Jobs

LEMMA FailedFacts ==
    ASSUME NEW r \in Records
    PROVE  [r EXCEPT !.phase = "restore", !.result = "failed"] \in Records
BY DEF Records

LEMMA WriteFacts ==
    ASSUME NEW r, Write(r), ToolTypeOK
    PROVE  record' \in {record, r} /\ failedWrites' \in 0 .. MaxFailedWrites
BY ToolAssumption DEF Write, ToolTypeOK, ToolCountTypes

LEMMA Bounds ==
    /\ MaxVersion \in Nat /\ MaxOps \in Nat /\ MaxActive \in Nat
    /\ MaxFailedWrites \in Nat /\ MaxRestarts \in Nat
BY ToolAssumption

LEMMA TypeInit == ToolInit => ToolTypeOK
<1>1. ASSUME ToolInit PROVE ToolTypeOK
  <2>1. DiskTypes
    BY <1>1, Bounds, NoFacts DEF ToolInit, DiskTypes
  <2>2. ActivityTypes
    <3>1. active \in 0 .. MaxActive
      BY <1>1, Bounds DEF ToolInit
    <3> QED BY <1>1, <3>1 DEF ToolInit, ActivityTypes
  <2>3. GoroutineTypes
    BY <1>1, Bounds, NoFacts, PlaceFacts DEF ToolInit, GoroutineTypes, OpPlaces
  <2>4. RequestTypes
    BY <1>1, Bounds, NoFacts DEF ToolInit, RequestTypes, Stations
  <2>5. ToolCountTypes
    BY <1>1, Bounds, NoFacts DEF ToolInit, ToolCountTypes
  <2> QED BY <2>1, <2>2, <2>3, <2>4, <2>5 DEF ToolTypeOK
<1> QED BY <1>1

LEMMA TypeGate ==
    ASSUME ToolTypeOK, Acquire \/ ReleaseCall \/ ToolCrash
    PROVE  ToolTypeOK'
<1>1. ASSUME Acquire PROVE ToolTypeOK'
  <2>1. DiskTypes'
    BY <1>1, Bounds DEF Acquire, ToolTypeOK, toolDisk, requests, toolHistory, DiskTypes
  <2>2. ActivityTypes'
    BY <1>1, Bounds DEF Acquire, ToolTypeOK, toolDisk, requests, toolHistory, ActivityTypes
  <2>3. GoroutineTypes'
    BY <1>1, Bounds DEF Acquire, ToolTypeOK, toolDisk, requests, toolHistory, GoroutineTypes
  <2>4. RequestTypes'
    BY <1>1, Bounds DEF Acquire, ToolTypeOK, toolDisk, requests, toolHistory, RequestTypes
  <2>5. ToolCountTypes'
    BY <1>1, Bounds DEF Acquire, ToolTypeOK, toolDisk, requests, toolHistory, ToolCountTypes
  <2> QED BY <2>1, <2>2, <2>3, <2>4, <2>5 DEF ToolTypeOK
<1>2. ASSUME ReleaseCall PROVE ToolTypeOK'
  <2>1. DiskTypes'
    BY <1>2, Bounds DEF ReleaseCall, ToolTypeOK, toolDisk, requests, toolHistory, DiskTypes
  <2>2. ActivityTypes'
    BY <1>2, Bounds DEF ReleaseCall, ToolTypeOK, toolDisk, requests, toolHistory, ActivityTypes
  <2>3. GoroutineTypes'
    BY <1>2, Bounds DEF ReleaseCall, ToolTypeOK, toolDisk, requests, toolHistory, GoroutineTypes
  <2>4. RequestTypes'
    BY <1>2, Bounds DEF ReleaseCall, ToolTypeOK, toolDisk, requests, toolHistory, RequestTypes
  <2>5. ToolCountTypes'
    BY <1>2, Bounds DEF ReleaseCall, ToolTypeOK, toolDisk, requests, toolHistory, ToolCountTypes
  <2> QED BY <2>1, <2>2, <2>3, <2>4, <2>5 DEF ToolTypeOK
<1>3. ASSUME ToolCrash PROVE ToolTypeOK'
  <2>1. DiskTypes'
    BY <1>3, Bounds, NoFacts DEF ToolCrash, ToolTypeOK, toolDisk, DiskTypes
  <2>2. ActivityTypes'
    <3>1. gate' \in OpIds \cup {NoOp} /\ done' \in OpIds \cup {NoOp} /\ closed' \in OpIds \cup {NoOp}
      BY <1>3 DEF ToolCrash, ToolTypeOK, ActivityTypes
    <3>2. phase' \in Cancellable \cup Phases \cup {"none"} /\ opCancelled' \in BOOLEAN
      BY <1>3 DEF ToolCrash, ToolTypeOK, ActivityTypes
    <3>3. active' \in 0 .. MaxActive
      BY <1>3, Bounds DEF ToolCrash
    <3> QED BY <3>1, <3>2, <3>3 DEF ActivityTypes
  <2>3. GoroutineTypes'
    BY <1>3, Bounds, NoFacts DEF ToolCrash, ToolTypeOK, toolDisk, GoroutineTypes, OpPlaces
  <2>4. RequestTypes'
    BY <1>3, Bounds, NoFacts DEF ToolCrash, ToolTypeOK, toolDisk, RequestTypes, Stations
  <2>5. ToolCountTypes'
    BY <1>3, Bounds, NoFacts DEF ToolCrash, ToolTypeOK, toolDisk, ToolCountTypes
  <2> QED BY <2>1, <2>2, <2>3, <2>4, <2>5 DEF ToolTypeOK
<1> QED BY <1>1, <1>2, <1>3

LEMMA TypeRequest ==
    ASSUME ToolTypeOK, NEW c \in Askers, Request(c)
    PROVE  ToolTypeOK'
<1> USE DEF ToolTypeOK, toolDisk, activity, toolHistory
<1>0. \A k \in OpKinds : [NoJob EXCEPT !.kind = k] \in Jobs
  BY DEF NoJob, Jobs
<1>1. \A p \in Stations, f \in [Askers -> Stations] : [f EXCEPT ![c] = p] \in [Askers -> Stations]
  OBVIOUS
<1>2. Reply(c) => RequestTypes'
  BY NoFacts DEF RequestTypes, Reply, Go, Stations
<1>3. \A p \in Stations : GoOn(c, p) => RequestTypes'
  BY DEF RequestTypes, GoOn, Go
<1>4. AfterRecovery(c) => RequestTypes'
  BY <1>2, <1>3 DEF AfterRecovery, Stations, Asking
<1>5. Answer(c) => at' \in [Askers -> Stations]
  BY DEF RequestTypes, Answer, Go, Stations, Asking
<1>6. ASSUME NEW kind \in OpKinds, Ask(c, kind) PROVE ToolTypeOK'
  <2>1. DiskTypes'
    BY <1>6 DEF Ask, DiskTypes
  <2>2. ActivityTypes'
    BY <1>6 DEF Ask, ActivityTypes
  <2>3. GoroutineTypes'
    BY <1>6 DEF Ask, GoroutineTypes
  <2>4. RequestTypes'
    BY <1>6, <1>0 DEF Ask, RequestTypes, Stations, Asking, Go
  <2>5. ToolCountTypes'
    BY <1>6 DEF Ask, ToolCountTypes
  <2> QED BY <2>1, <2>2, <2>3, <2>4, <2>5 DEF ToolTypeOK
<1>7. ASSUME Pending(c) PROVE ToolTypeOK'
  <2>1. DiskTypes'
    BY <1>7 DEF Pending, DiskTypes
  <2>2. ActivityTypes'
    BY <1>7 DEF Pending, ActivityTypes
  <2>3. GoroutineTypes'
    BY <1>7 DEF Pending, GoroutineTypes
  <2>4. RequestTypes'
    BY <1>7, <1>4 DEF Pending, RequestTypes, Stations, Asking, Go, DiskTypes
  <2>5. ToolCountTypes'
    BY <1>7 DEF Pending, ToolCountTypes
  <2> QED BY <2>1, <2>2, <2>3, <2>4, <2>5 DEF ToolTypeOK
<1>8. ASSUME Confirm(c) PROVE ToolTypeOK'
  <2>1. DiskTypes'
    BY <1>8, WriteFacts, FailedFacts DEF Confirm, DiskTypes, RequestTypes
  <2>2. ActivityTypes'
    BY <1>8 DEF Confirm, ActivityTypes
  <2>3. GoroutineTypes'
    BY <1>8 DEF Confirm, GoroutineTypes
  <2>4. RequestTypes'
    BY <1>8, <1>2, <1>3 DEF Confirm, RequestTypes, Stations, Asking
  <2>5. ToolCountTypes'
    BY <1>8, WriteFacts DEF Confirm, ToolCountTypes
  <2> QED BY <2>1, <2>2, <2>3, <2>4, <2>5 DEF ToolTypeOK
<1>9. ASSUME RestoreInterrupted(c) PROVE ToolTypeOK'
  <2>1. DiskTypes'
    BY <1>9, FailedFacts, RecordFacts DEF RestoreInterrupted, DiskTypes, RequestTypes, Numbers
  <2>2. ActivityTypes'
    BY <1>9 DEF RestoreInterrupted, ActivityTypes
  <2>3. GoroutineTypes'
    BY <1>9 DEF RestoreInterrupted, GoroutineTypes
  <2>4. RequestTypes'
    BY <1>9, <1>2, <1>3 DEF RestoreInterrupted, RequestTypes, Stations, Asking
  <2>5. ToolCountTypes'
    <3>1. ops' \in OpIds \cup {0} /\ restarts' \in 0 .. MaxRestarts /\ settled' \in BOOLEAN
      BY <1>9 DEF RestoreInterrupted, ToolCountTypes
    <3>2. failedWrites' \in 0 .. MaxFailedWrites
      BY <1>9, Bounds DEF RestoreInterrupted, ToolCountTypes
    <3>3. orderly' \in BOOLEAN
      BY <1>9 DEF RestoreInterrupted, ToolCountTypes
    <3> QED BY <3>1, <3>2, <3>3 DEF ToolCountTypes
  <2> QED BY <2>1, <2>2, <2>3, <2>4, <2>5 DEF ToolTypeOK
<1>10. ASSUME Forget(c) PROVE ToolTypeOK'
  <2>1. DiskTypes'
    BY <1>10, WriteFacts, NoFacts DEF Forget, DiskTypes
  <2>2. ActivityTypes'
    BY <1>10 DEF Forget, ActivityTypes
  <2>3. GoroutineTypes'
    BY <1>10 DEF Forget, GoroutineTypes
  <2>4. RequestTypes'
    BY <1>10, <1>4 DEF Forget, RequestTypes
  <2>5. ToolCountTypes'
    BY <1>10, WriteFacts DEF Forget, ToolCountTypes
  <2> QED BY <2>1, <2>2, <2>3, <2>4, <2>5 DEF ToolTypeOK
<1>11. ASSUME NEW v \in Versions, ReadVersion(c, v) PROVE ToolTypeOK'
  <2>1. DiskTypes'
    BY <1>11 DEF ReadVersion, DiskTypes
  <2>2. ActivityTypes'
    BY <1>11 DEF ReadVersion, ActivityTypes
  <2>3. GoroutineTypes'
    BY <1>11 DEF ReadVersion, GoroutineTypes
  <2>4. RequestTypes'
    <3>1. [want[c] EXCEPT !.base = current, !.target = v] \in Jobs
      BY <1>11 DEF RequestTypes, DiskTypes, Jobs
    <3> QED BY <1>11, <1>2, <3>1 DEF ReadVersion, RequestTypes, Stations, Asking, Go
  <2>5. ToolCountTypes'
    BY <1>11 DEF ReadVersion, ToolCountTypes
  <2> QED BY <2>1, <2>2, <2>3, <2>4, <2>5 DEF ToolTypeOK
<1>12. ASSUME RefuseUpdate(c) PROVE ToolTypeOK'
  <2>1. DiskTypes'
    BY <1>12 DEF RefuseUpdate, DiskTypes
  <2>2. ActivityTypes'
    BY <1>12 DEF RefuseUpdate, ActivityTypes
  <2>3. GoroutineTypes'
    BY <1>12 DEF RefuseUpdate, GoroutineTypes
  <2>4. RequestTypes'
    BY <1>12, <1>2 DEF RefuseUpdate, RequestTypes
  <2>5. ToolCountTypes'
    BY <1>12 DEF RefuseUpdate, ToolCountTypes
  <2> QED BY <2>1, <2>2, <2>3, <2>4, <2>5 DEF ToolTypeOK
<1>13. ASSUME BeginUpdate(c) PROVE ToolTypeOK'
  <2>1. DiskTypes'
    BY <1>13 DEF BeginUpdate, DiskTypes
  <2>2. ActivityTypes'
    BY <1>13 DEF BeginUpdate, ActivityTypes, Cancellable
  <2>3. GoroutineTypes'
    BY <1>13 DEF BeginUpdate, GoroutineTypes, OpPlaces, AtWork, RequestTypes
  <2>4. RequestTypes'
    BY <1>13, <1>2 DEF BeginUpdate, RequestTypes
  <2>5. ToolCountTypes'
    BY <1>13 DEF BeginUpdate, ToolCountTypes
  <2> QED BY <2>1, <2>2, <2>3, <2>4, <2>5 DEF ToolTypeOK
<1>14. ASSUME CancelCall(c) \/ CancelToolOperation(c) \/ Waited(c) PROVE ToolTypeOK'
  <2>1. DiskTypes'
    BY <1>14 DEF CancelCall, CancelToolOperation, Waited, DiskTypes
  <2>2. ActivityTypes'
    BY <1>14 DEF CancelCall, CancelToolOperation, Waited, ActivityTypes
  <2>3. GoroutineTypes'
    BY <1>14 DEF CancelCall, CancelToolOperation, Waited, GoroutineTypes
  <2>4. RequestTypes'
    BY <1>14, <1>5 DEF CancelCall, CancelToolOperation, Waited, RequestTypes, Stations, Asking, Go
  <2>5. ToolCountTypes'
    BY <1>14 DEF CancelCall, CancelToolOperation, Waited, ToolCountTypes
  <2> QED BY <2>1, <2>2, <2>3, <2>4, <2>5 DEF ToolTypeOK
<1> QED BY <1>6, <1>7, <1>8, <1>9, <1>10, <1>11, <1>12, <1>13, <1>14 DEF Request

LEMMA TypeStep ==
    ASSUME ToolTypeOK, NEW o \in OpIds, OpStep(o)
    PROVE  ToolTypeOK'
<1> USE DEF ToolTypeOK, activity, requests, toolDisk, toolHistory, OpAt
<1>1. \A p \in OpPlaces : MoveOp(o, p) => toolPc' \in [OpIds -> OpPlaces]
  BY DEF GoroutineTypes, MoveOp
<1>2. \A p \in Phases : GoOnTo(o, p) => toolPc' \in [OpIds -> OpPlaces]
  BY <1>1, PlaceFacts DEF GoOnTo, Phases
<1>3. ASSUME NEW p \in Phases, GiveUpPhase(o, p)
      PROVE  /\ toolPc' \in [OpIds -> OpPlaces]
             /\ record' \in Records
             /\ failedWrites' \in 0 .. MaxFailedWrites
             /\ outcome' \in [OpIds -> {"none", "running", "done", "failed", "cancelled"}]
  <2> DEFINE r == IF opCancelled THEN "cancelled" ELSE "failed"
  <2>1. Finish(o, p, r)
    BY <1>3 DEF GiveUpPhase
  <2>2. record' \in Records /\ failedWrites' \in 0 .. MaxFailedWrites
    BY <2>1, EntryFacts, WriteFacts DEF Finish, DiskTypes
  <2>3. toolPc' \in [OpIds -> OpPlaces]
    BY <2>1, <1>1 DEF Finish, OpPlaces, AtWork
  <2>4. outcome' \in [OpIds -> {"none", "running", "done", "failed", "cancelled"}]
    BY <2>1 DEF Finish, GoroutineTypes
  <2> QED BY <2>2, <2>3, <2>4
<1>4. ASSUME NEW p \in Phases, SetPhase(o, p), work' \in {work, {}} PROVE ToolTypeOK'
  <2>1. DiskTypes'
    BY <1>4, EntryFacts, WriteFacts DEF SetPhase, DiskTypes
  <2>2. ActivityTypes'
    BY <1>4 DEF SetPhase, ActivityTypes
  <2>3. GoroutineTypes'
    BY <1>4, <1>1, PlaceFacts DEF SetPhase, GoroutineTypes
  <2>4. RequestTypes'
    BY <1>4 DEF SetPhase, RequestTypes
  <2>5. ToolCountTypes'
    BY <1>4, WriteFacts DEF SetPhase, ToolCountTypes
  <2> QED BY <2>1, <2>2, <2>3, <2>4, <2>5 DEF ToolTypeOK
<1>5. ASSUME Begin(o) \/ \E p \in Phases \ {"download"} : Enter(o, p) PROVE ToolTypeOK'
  BY <1>4, <1>5 DEF Begin, Enter, Phases
<1>6. ASSUME Download(o) PROVE ToolTypeOK'
  <2>1. DiskTypes'
    BY <1>6, <1>2, <1>3 DEF Download, DiskTypes, Phases
  <2>2. ActivityTypes'
    BY <1>6 DEF Download, ActivityTypes
  <2>3. GoroutineTypes'
    BY <1>6, <1>2, <1>3 DEF Download, GoroutineTypes, Phases
  <2>4. RequestTypes'
    BY <1>6 DEF Download, RequestTypes
  <2>5. ToolCountTypes'
    BY <1>6, <1>2, <1>3 DEF Download, ToolCountTypes, Phases
  <2> QED BY <2>1, <2>2, <2>3, <2>4, <2>5 DEF ToolTypeOK
<1>7. ASSUME PrepareVersion(o) PROVE ToolTypeOK'
  <2>1. DiskTypes'
    <3>1. job[o].target \in Numbers
      BY RecordFacts DEF GoroutineTypes
    <3>2. versions' \subseteq Numbers
      BY <1>7, <3>1 DEF PrepareVersion, DiskTypes, Numbers
    <3>3. record' \in Records
      BY <1>7, <1>3 DEF PrepareVersion, DiskTypes, Phases
    <3> QED BY <1>7, <3>2, <3>3 DEF PrepareVersion, DiskTypes, Numbers
  <2>2. ActivityTypes'
    BY <1>7 DEF PrepareVersion, ActivityTypes
  <2>3. GoroutineTypes'
    BY <1>7, <1>2, <1>3 DEF PrepareVersion, GoroutineTypes, Phases
  <2>4. RequestTypes'
    BY <1>7 DEF PrepareVersion, RequestTypes
  <2>5. ToolCountTypes'
    BY <1>7, <1>2, <1>3 DEF PrepareVersion, ToolCountTypes, Phases
  <2> QED BY <2>1, <2>2, <2>3, <2>4, <2>5 DEF ToolTypeOK
<1>8. ASSUME Probe(o) PROVE ToolTypeOK'
  <2>1. DiskTypes'
    BY <1>8, <1>2, <1>3 DEF Probe, DiskTypes, Phases
  <2>2. ActivityTypes'
    BY <1>8 DEF Probe, ActivityTypes
  <2>3. GoroutineTypes'
    BY <1>8, <1>2, <1>3 DEF Probe, GoroutineTypes, Phases
  <2>4. RequestTypes'
    BY <1>8 DEF Probe, RequestTypes
  <2>5. ToolCountTypes'
    BY <1>8, <1>2, <1>3 DEF Probe, ToolCountTypes, Phases
  <2> QED BY <2>1, <2>2, <2>3, <2>4, <2>5 DEF ToolTypeOK
<1>9. ASSUME Migrate(o) PROVE ToolTypeOK'
  <2>1. DiskTypes'
    BY <1>9, <1>2, <1>3, RecordFacts DEF Migrate, Migrated, DiskTypes, Phases, GoroutineTypes, Numbers
  <2>2. ActivityTypes'
    BY <1>9 DEF Migrate, Migrated, ActivityTypes
  <2>3. GoroutineTypes'
    BY <1>9, <1>2, <1>3 DEF Migrate, Migrated, GoroutineTypes, Phases
  <2>4. RequestTypes'
    BY <1>9 DEF Migrate, Migrated, RequestTypes
  <2>5. ToolCountTypes'
    BY <1>9, <1>2, <1>3 DEF Migrate, Migrated, ToolCountTypes, Phases
  <2> QED BY <2>1, <2>2, <2>3, <2>4, <2>5 DEF ToolTypeOK
<1>10. ASSUME Activate(o) PROVE ToolTypeOK'
  <2>1. DiskTypes'
    BY <1>10, RecordFacts DEF Activate, DiskTypes, GoroutineTypes, Numbers
  <2>2. ActivityTypes'
    BY <1>10 DEF Activate, ActivityTypes
  <2>3. GoroutineTypes'
    BY <1>10, <1>1, <1>2 DEF Activate, GoroutineTypes, Phases, OpPlaces, AtWork
  <2>4. RequestTypes'
    BY <1>10 DEF Activate, RequestTypes
  <2>5. ToolCountTypes'
    <3>1. ops' \in OpIds \cup {0} /\ restarts' \in 0 .. MaxRestarts
      BY <1>10 DEF Activate, ToolCountTypes
    <3>2. failedWrites' \in 0 .. MaxFailedWrites
      BY <1>10, Bounds DEF Activate, ToolCountTypes
    <3>3. settled' \in BOOLEAN /\ orderly' \in BOOLEAN
      BY <1>10 DEF Activate, ToolCountTypes
    <3> QED BY <3>1, <3>2, <3>3 DEF ToolCountTypes
  <2> QED BY <2>1, <2>2, <2>3, <2>4, <2>5 DEF ToolTypeOK
<1>11. ASSUME Refresh(o) PROVE ToolTypeOK'
  <2>1. DiskTypes'
    BY <1>11 DEF Refresh, DiskTypes
  <2>2. ActivityTypes'
    BY <1>11 DEF Refresh, ActivityTypes
  <2>3. GoroutineTypes'
    BY <1>11, <1>1 DEF Refresh, GoroutineTypes, OpPlaces, AtWork
  <2>4. RequestTypes'
    BY <1>11 DEF Refresh, RequestTypes
  <2>5. ToolCountTypes'
    BY <1>11, Bounds DEF Refresh, ToolCountTypes
  <2> QED BY <2>1, <2>2, <2>3, <2>4, <2>5 DEF ToolTypeOK
<1>12. ASSUME RestoreVersion(o) PROVE ToolTypeOK'
  <2>1. DiskTypes'
    <3>1. job[o].base \in Numbers
      BY RecordFacts DEF GoroutineTypes
    <3>2. current' \in Numbers
      BY <1>12, <3>1 DEF RestoreVersion, Former, DiskTypes, Numbers
    <3>3. record' \in Records
      BY <1>12, EntryFacts, WriteFacts DEF RestoreVersion, DiskTypes, Phases
    <3> QED BY <1>12, <3>2, <3>3 DEF RestoreVersion, DiskTypes, Numbers
  <2>2. ActivityTypes'
    BY <1>12 DEF RestoreVersion, Former, ActivityTypes
  <2>3. GoroutineTypes'
    BY <1>12, <1>1 DEF RestoreVersion, Former, GoroutineTypes, OpPlaces, AtWork
  <2>4. RequestTypes'
    BY <1>12 DEF RestoreVersion, Former, RequestTypes
  <2>5. ToolCountTypes'
    <3>1. ops' \in OpIds \cup {0} /\ restarts' \in 0 .. MaxRestarts
      BY <1>12 DEF RestoreVersion, ToolCountTypes
    <3>2. failedWrites' \in 0 .. MaxFailedWrites
      <4>1. \/ failedWrites < MaxFailedWrites /\ failedWrites' = failedWrites + 1
            \/ Write(RecordOf(o, IF o \in activated THEN "restore" ELSE "switch", "failed"))
        BY <1>12 DEF RestoreVersion
      <4> QED BY <4>1, Bounds, WriteFacts DEF ToolCountTypes
    <3>3. settled' \in BOOLEAN /\ orderly' \in BOOLEAN
      BY <1>12 DEF RestoreVersion, ToolCountTypes
    <3> QED BY <3>1, <3>2, <3>3 DEF ToolCountTypes
  <2> QED BY <2>1, <2>2, <2>3, <2>4, <2>5 DEF ToolTypeOK
<1>13. ASSUME RemoveRecord(o) PROVE ToolTypeOK'
  <2>1. DiskTypes'
    BY <1>13, NoFacts, WriteFacts DEF RemoveRecord, DiskTypes
  <2>2. ActivityTypes'
    BY <1>13 DEF RemoveRecord, ActivityTypes
  <2>3. GoroutineTypes'
    BY <1>13, <1>1 DEF RemoveRecord, GoroutineTypes, OpPlaces, AtWork
  <2>4. RequestTypes'
    BY <1>13 DEF RemoveRecord, RequestTypes
  <2>5. ToolCountTypes'
    BY <1>13, WriteFacts DEF RemoveRecord, ToolCountTypes
  <2> QED BY <2>1, <2>2, <2>3, <2>4, <2>5 DEF ToolTypeOK
<1>14. ASSUME EndUpdate(o) PROVE ToolTypeOK'
  <2>1. DiskTypes'
    BY <1>14 DEF EndUpdate, DiskTypes
  <2>2. ActivityTypes'
    BY <1>14 DEF EndUpdate, ActivityTypes
  <2>3. GoroutineTypes'
    BY <1>14, <1>1 DEF EndUpdate, GoroutineTypes, OpPlaces
  <2>4. RequestTypes'
    BY <1>14 DEF EndUpdate, RequestTypes
  <2>5. ToolCountTypes'
    BY <1>14 DEF EndUpdate, ToolCountTypes
  <2> QED BY <2>1, <2>2, <2>3, <2>4, <2>5 DEF ToolTypeOK
<1>15. ASSUME FinishUpdate(o) PROVE ToolTypeOK'
  <2>1. DiskTypes'
    BY <1>15, NoFacts DEF FinishUpdate, DiskTypes
  <2>2. ActivityTypes'
    BY <1>15, NoFacts DEF FinishUpdate, ActivityTypes
  <2>3. GoroutineTypes'
    BY <1>15, NoFacts, <1>1 DEF FinishUpdate, GoroutineTypes, OpPlaces
  <2>4. RequestTypes'
    BY <1>15, NoFacts DEF FinishUpdate, RequestTypes
  <2>5. ToolCountTypes'
    BY <1>15, NoFacts DEF FinishUpdate, ToolCountTypes
  <2> QED BY <2>1, <2>2, <2>3, <2>4, <2>5 DEF ToolTypeOK
<1> QED BY <1>5, <1>6, <1>7, <1>8, <1>9, <1>10, <1>11, <1>12, <1>13, <1>14, <1>15 DEF OpStep

LEMMA TypeNext == ToolTypeOK /\ [ToolNext]_toolVars => ToolTypeOK'
<1>1. ASSUME ToolTypeOK, UNCHANGED toolVars PROVE ToolTypeOK'
  BY <1>1 DEF ToolTypeOK, DiskTypes, ActivityTypes, GoroutineTypes, RequestTypes, ToolCountTypes,
              toolVars, toolDisk, activity, requests, toolHistory
<1> QED BY <1>1, TypeGate, TypeRequest, TypeStep DEF ToolNext

-----------------------------------------------------------------------------
(* What a step of an operation and a step of a request can change. *)

FrameEffect(o) ==
    /\ toolPc[o] \in AtWork \cup {"signal"}
    /\ UNCHANGED <<requests, active, ops>>
    /\ \A p \in OpIds \ {o} : /\ toolPc'[p] = toolPc[p]
                              /\ job'[p] = job[p]
                              /\ outcome'[p] = outcome[p]
                              /\ p \in activated' <=> p \in activated
FileEffect(o) ==
    /\ versions \subseteq versions'
    /\ toolData <= toolData'
    /\ \/ current' \in {current, job[o].base}
       \/ toolPc[o] = "switch" /\ current' = job[o].target
    /\ \/ record' \in {record, NoRecord}
       \/ record'.base = job[o].base
GateEffect(o) ==
    /\ job'[o] \in {job[o], NoJob}
    /\ toolPc'[o] \in AtWork => job'[o] = job[o] /\ gate' = gate /\ toolPc[o] \in AtWork
    /\ gate' \in {gate, NoOp}
    /\ done' \in {done, NoOp}
    /\ closed' \in {closed, done}
PlaceEffect(o) ==
    /\ toolPc'[o] \in Prepared => toolPc[o] \in Prepared \/ job[o].target \in versions'
    /\ toolPc'[o] \in Ready => toolPc[o] \in Ready \/ job[o].target <= toolData'
StepEffect(o) == FrameEffect(o) /\ FileEffect(o) /\ GateEffect(o) /\ PlaceEffect(o)

LEMMA StepEffects ==
    ASSUME ToolTypeOK, NEW o \in OpIds, OpStep(o)
    PROVE  StepEffect(o)
<1> USE DEF ToolTypeOK, activity, requests, toolDisk, toolHistory, OpAt, MoveOp
<1>0. toolPc \in [OpIds -> OpPlaces] /\ outcome \in [OpIds -> {"none", "running", "done", "failed", "cancelled"}]
  BY DEF GoroutineTypes
<1>1. toolData \in Nat /\ job \in [OpIds -> Jobs] /\ job[o].target \in Nat
  BY Bounds, RecordFacts DEF DiskTypes, GoroutineTypes, Numbers
<1>2. \A p, r : RecordOf(o, p, r).base = job[o].base
  BY DEF RecordOf
<1>3. ASSUME NEW p \in Phases, SetPhase(o, p), toolPc[o] \in AtWork, work' \in {work, {}},
             p \in Ready => toolPc[o] \in Ready,
             p \in Prepared => toolPc[o] \in Prepared
      PROVE  StepEffect(o)
  BY <1>0, <1>1, <1>2, <1>3, PlaceFacts
     DEF SetPhase, Write, StepEffect, FrameEffect, FileEffect, GateEffect, PlaceEffect
<1>4. ASSUME Begin(o) PROVE StepEffect(o)
  BY <1>3, <1>4 DEF Begin, Phases, AtWork, Prepared, Ready
<1>5. ASSUME NEW p \in Phases \ {"download"}, Enter(o, p) PROVE StepEffect(o)
  BY <1>3, <1>5 DEF Enter, Entering, Phases, AtWork, Prepared, Ready
<1>6. ASSUME Download(o) PROVE StepEffect(o)
  <2>1. FrameEffect(o)
    BY <1>0, <1>1, <1>2, <1>6 DEF Download, GiveUpPhase, Finish, Write, GoOnTo, Entering, FrameEffect, AtWork, Phases
  <2>2. FileEffect(o)
    BY <1>0, <1>1, <1>2, <1>6 DEF Download, GiveUpPhase, Finish, Write, GoOnTo, Entering, FileEffect
  <2>3. GateEffect(o)
    BY <1>0, <1>1, <1>2, <1>6 DEF Download, GiveUpPhase, Finish, Write, GoOnTo, Entering, GateEffect, AtWork, Phases
  <2>4. PlaceEffect(o)
    BY <1>0, <1>1, <1>2, <1>6 DEF Download, GiveUpPhase, Finish, Write, GoOnTo, Entering, PlaceEffect, Prepared, Ready
  <2> QED BY <2>1, <2>2, <2>3, <2>4 DEF StepEffect
<1>7. ASSUME PrepareVersion(o) PROVE StepEffect(o)
  <2>1. FrameEffect(o)
    BY <1>0, <1>1, <1>2, <1>7 DEF PrepareVersion, GiveUpPhase, Finish, Write, GoOnTo, Entering, FrameEffect, AtWork, Phases
  <2>2. FileEffect(o)
    BY <1>0, <1>1, <1>2, <1>7 DEF PrepareVersion, GiveUpPhase, Finish, Write, GoOnTo, Entering, FileEffect
  <2>3. GateEffect(o)
    BY <1>0, <1>1, <1>2, <1>7 DEF PrepareVersion, GiveUpPhase, Finish, Write, GoOnTo, Entering, GateEffect, AtWork, Phases
  <2>4. PlaceEffect(o)
    BY <1>0, <1>1, <1>2, <1>7 DEF PrepareVersion, GiveUpPhase, Finish, Write, GoOnTo, Entering, PlaceEffect, Prepared, Ready
  <2> QED BY <2>1, <2>2, <2>3, <2>4 DEF StepEffect
<1>8. ASSUME Probe(o) PROVE StepEffect(o)
  <2>1. FrameEffect(o)
    BY <1>0, <1>1, <1>2, <1>8 DEF Probe, GiveUpPhase, Finish, Write, GoOnTo, Entering, FrameEffect, AtWork, Phases
  <2>2. FileEffect(o)
    BY <1>0, <1>1, <1>2, <1>8 DEF Probe, GiveUpPhase, Finish, Write, GoOnTo, Entering, FileEffect
  <2>3. GateEffect(o)
    BY <1>0, <1>1, <1>2, <1>8 DEF Probe, GiveUpPhase, Finish, Write, GoOnTo, Entering, GateEffect, AtWork, Phases
  <2>4. PlaceEffect(o)
    BY <1>0, <1>1, <1>2, <1>8 DEF Probe, GiveUpPhase, Finish, Write, GoOnTo, Entering, PlaceEffect, Prepared, Ready
  <2> QED BY <2>1, <2>2, <2>3, <2>4 DEF StepEffect
<1>9. ASSUME Migrate(o) PROVE StepEffect(o)
  <2>1. FrameEffect(o)
    BY <1>0, <1>1, <1>2, <1>9 DEF Migrate, Migrated, GiveUpPhase, Finish, Write, GoOnTo, Entering, FrameEffect, AtWork, Phases
  <2>2. FileEffect(o)
    BY <1>0, <1>1, <1>2, <1>9 DEF Migrate, Migrated, GiveUpPhase, Finish, Write, GoOnTo, Entering, FileEffect
  <2>3. GateEffect(o)
    BY <1>0, <1>1, <1>2, <1>9 DEF Migrate, Migrated, GiveUpPhase, Finish, Write, GoOnTo, Entering, GateEffect, AtWork, Phases
  <2>4. PlaceEffect(o)
    <3>1. CASE GiveUpPhase(o, "migration")
      BY <1>0, <3>1 DEF GiveUpPhase, Finish, PlaceEffect, Prepared, Ready
    <3>2. CASE ~GiveUpPhase(o, "migration")
      <4>1. toolPc[o] = "migration" /\ toolData' = Migrated(job[o].target)
        BY <1>9, <3>2 DEF Migrate
      <4>2. job[o].target <= toolData'
        BY <1>1, <4>1 DEF Migrated
      <4> QED BY <4>1, <4>2 DEF PlaceEffect, Prepared
    <3> QED BY <3>1, <3>2
  <2> QED BY <2>1, <2>2, <2>3, <2>4 DEF StepEffect
<1>10. ASSUME Activate(o) PROVE StepEffect(o)
  <2>1. FrameEffect(o)
    BY <1>0, <1>1, <1>2, <1>10 DEF Activate, GoOnTo, Entering, FrameEffect, AtWork, Phases
  <2>2. FileEffect(o)
    BY <1>0, <1>1, <1>2, <1>10 DEF Activate, GoOnTo, Entering, FileEffect
  <2>3. GateEffect(o)
    BY <1>0, <1>1, <1>2, <1>10 DEF Activate, GoOnTo, Entering, GateEffect, AtWork, Phases
  <2>4. PlaceEffect(o)
    BY <1>0, <1>1, <1>2, <1>10 DEF Activate, GoOnTo, Entering, PlaceEffect, Prepared, Ready
  <2> QED BY <2>1, <2>2, <2>3, <2>4 DEF StepEffect
<1>11. ASSUME Refresh(o) PROVE StepEffect(o)
  <2>1. FrameEffect(o)
    BY <1>0, <1>1, <1>2, <1>11 DEF Refresh, FrameEffect, AtWork, Phases
  <2>2. FileEffect(o)
    BY <1>0, <1>1, <1>2, <1>11 DEF Refresh, FileEffect
  <2>3. GateEffect(o)
    BY <1>0, <1>1, <1>2, <1>11 DEF Refresh, GateEffect, AtWork, Phases
  <2>4. PlaceEffect(o)
    BY <1>0, <1>1, <1>2, <1>11 DEF Refresh, PlaceEffect, Prepared, Ready
  <2> QED BY <2>1, <2>2, <2>3, <2>4 DEF StepEffect
<1>12. ASSUME RestoreVersion(o) PROVE StepEffect(o)
  <2>1. FrameEffect(o)
    BY <1>0, <1>1, <1>2, <1>12 DEF RestoreVersion, Former, Write, FrameEffect, AtWork, Phases
  <2>2. FileEffect(o)
    BY <1>0, <1>1, <1>2, <1>12 DEF RestoreVersion, Former, Write, FileEffect
  <2>3. GateEffect(o)
    BY <1>0, <1>1, <1>2, <1>12 DEF RestoreVersion, Former, Write, GateEffect, AtWork, Phases
  <2>4. PlaceEffect(o)
    BY <1>0, <1>1, <1>2, <1>12 DEF RestoreVersion, Former, Write, PlaceEffect, Prepared, Ready
  <2> QED BY <2>1, <2>2, <2>3, <2>4 DEF StepEffect
<1>13. ASSUME RemoveRecord(o) PROVE StepEffect(o)
  <2>1. FrameEffect(o)
    BY <1>0, <1>1, <1>2, <1>13 DEF RemoveRecord, Write, FrameEffect, AtWork, Phases
  <2>2. FileEffect(o)
    BY <1>0, <1>1, <1>2, <1>13 DEF RemoveRecord, Write, FileEffect
  <2>3. GateEffect(o)
    BY <1>0, <1>1, <1>2, <1>13 DEF RemoveRecord, Write, GateEffect, AtWork, Phases
  <2>4. PlaceEffect(o)
    BY <1>0, <1>1, <1>2, <1>13 DEF RemoveRecord, Write, PlaceEffect, Prepared, Ready
  <2> QED BY <2>1, <2>2, <2>3, <2>4 DEF StepEffect
<1>14. ASSUME EndUpdate(o) PROVE StepEffect(o)
  <2>1. FrameEffect(o)
    BY <1>0, <1>1, <1>2, <1>14 DEF EndUpdate, FrameEffect, AtWork, Phases
  <2>2. FileEffect(o)
    BY <1>0, <1>1, <1>2, <1>14 DEF EndUpdate, FileEffect
  <2>3. GateEffect(o)
    BY <1>0, <1>1, <1>2, <1>14 DEF EndUpdate, GateEffect, AtWork, Phases
  <2>4. PlaceEffect(o)
    BY <1>0, <1>1, <1>2, <1>14 DEF EndUpdate, PlaceEffect, Prepared, Ready
  <2> QED BY <2>1, <2>2, <2>3, <2>4 DEF StepEffect
<1>15. ASSUME FinishUpdate(o) PROVE StepEffect(o)
  <2>1. FrameEffect(o)
    BY <1>0, <1>1, <1>2, <1>15 DEF FinishUpdate, FrameEffect, AtWork, Phases
  <2>2. FileEffect(o)
    BY <1>0, <1>1, <1>2, <1>15 DEF FinishUpdate, FileEffect
  <2>3. GateEffect(o)
    BY <1>0, <1>1, <1>2, <1>15 DEF FinishUpdate, GateEffect, AtWork, Phases
  <2>4. PlaceEffect(o)
    BY <1>0, <1>1, <1>2, <1>15 DEF FinishUpdate, PlaceEffect, Prepared, Ready
  <2> QED BY <2>1, <2>2, <2>3, <2>4 DEF StepEffect
<1> QED BY <1>4, <1>5, <1>6, <1>7, <1>8, <1>9, <1>10, <1>11, <1>12, <1>13, <1>14, <1>15 DEF OpStep

RequestEffect(c) ==
    /\ UNCHANGED <<versions, toolData, active, closed, activated>>
    /\ \A d \in Askers \ {c} : at'[d] = at[d] /\ seen'[d] = seen[d] /\ want'[d] = want[d]
    /\ seen'[c] \in {seen[c], record, NoRecord}
    /\ want'[c].base \in {want[c].base, current, NoVersion}
    /\ \/ current' = current
       \/ at[c] = "restore" /\ current' = seen[c].base
    /\ \/ record' \in {record, NoRecord}
       \/ record'.base = seen[c].base
    /\ \/ UNCHANGED <<gate, done, toolPc, job, outcome, ops>>
       \/ BeginUpdate(c)

LEMMA RequestEffects ==
    ASSUME ToolTypeOK, NEW c \in Askers, Request(c)
    PROVE  RequestEffect(c)
<1> USE DEF ToolTypeOK, activity, requests, toolDisk, toolHistory, Go, GoOn, Reply
<1>0. /\ at \in [Askers -> Stations] /\ seen \in [Askers -> Records]
      /\ want \in [Askers -> Jobs]
  BY DEF RequestTypes
<1>1. NoJob.base = NoVersion
  BY DEF NoJob
<1>2. ASSUME NEW kind \in OpKinds, Ask(c, kind) PROVE RequestEffect(c)
  BY <1>0, <1>2 DEF Ask, RequestEffect, NoJob
<1>3. ASSUME Pending(c) PROVE RequestEffect(c)
  BY <1>0, <1>1, <1>3 DEF Pending, AfterRecovery, RequestEffect
<1>4. ASSUME Confirm(c) PROVE RequestEffect(c)
  <2>1. [seen[c] EXCEPT !.phase = "restore", !.result = "failed"].base = seen[c].base
    BY <1>0 DEF Records
  <2> QED BY <1>0, <1>1, <1>4, <2>1 DEF Confirm, Write, RequestEffect
<1>5. ASSUME RestoreInterrupted(c) PROVE RequestEffect(c)
  <2>1. [seen[c] EXCEPT !.phase = "restore", !.result = "failed"].base = seen[c].base
    BY <1>0 DEF Records
  <2> QED BY <1>0, <1>1, <1>5, <2>1 DEF RestoreInterrupted, RequestEffect
<1>6. ASSUME Forget(c) PROVE RequestEffect(c)
  BY <1>0, <1>1, <1>6 DEF Forget, AfterRecovery, Write, RequestEffect
<1>7. ASSUME NEW v \in Versions, ReadVersion(c, v) PROVE RequestEffect(c)
  <2>1. /\ UNCHANGED <<versions, toolData, active, closed, activated, current, record>>
        /\ UNCHANGED <<gate, done, toolPc, job, outcome, ops>>
    BY <1>7 DEF ReadVersion
  <2>2. seen'[c] \in {seen[c], NoRecord} /\ want'[c].base \in {current, NoVersion}
    BY <1>0, <1>1, <1>7 DEF ReadVersion, Jobs
  <2>3. \A d \in Askers \ {c} : at'[d] = at[d] /\ seen'[d] = seen[d] /\ want'[d] = want[d]
    BY <1>0, <1>7 DEF ReadVersion
  <2> QED BY <2>1, <2>2, <2>3 DEF RequestEffect
<1>8. ASSUME RefuseUpdate(c) PROVE RequestEffect(c)
  BY <1>0, <1>1, <1>8 DEF RefuseUpdate, RequestEffect
<1>9. ASSUME BeginUpdate(c) PROVE RequestEffect(c)
  BY <1>0, <1>1, <1>9 DEF BeginUpdate, RequestEffect
<1>10. ASSUME CancelCall(c) \/ CancelToolOperation(c) \/ Waited(c) PROVE RequestEffect(c)
  BY <1>0, <1>10 DEF CancelCall, CancelToolOperation, Waited, Answer, RequestEffect
<1> QED BY <1>2, <1>3, <1>4, <1>5, <1>6, <1>7, <1>8, <1>9, <1>10 DEF Request

-----------------------------------------------------------------------------
(* One operation at a time, on data that was migrated. *)

LEMMA SafeInit == ToolInit => Safe
<1>1. ASSUME ToolInit PROVE Safe
  <2>1. ToolTypeOK
    BY <1>1, TypeInit
  <2>2. current \in Nat /\ NoRecord.base = NoVersion /\ NoJob.base = NoVersion
    BY <1>1, Bounds DEF ToolInit, NoRecord, NoJob
  <2>3. Exclusive
    BY <1>1 DEF ToolInit, Exclusive, AtWork, Phases
  <2>4. UsableOK
    BY <1>1, <2>2 DEF ToolInit, UsableOK, Usable
  <2>5. TargetOK /\ NumberedOK
    BY <1>1 DEF ToolInit, TargetOK, NumberedOK, Prepared, Ready
  <2> QED BY <2>1, <2>3, <2>4, <2>5 DEF Safe
<1> QED BY <1>1

LEMMA DataTypes ==
    ASSUME ToolTypeOK
    PROVE  /\ current \in Nat /\ toolData \in Nat /\ record.base \in Nat
           /\ \A c \in Askers : seen[c].base \in Nat /\ want[c].base \in Nat
           /\ \A o \in OpIds : job[o].base \in Nat /\ job[o].target \in Nat
           /\ gate \in Nat /\ done \in Nat /\ closed \in Nat /\ ops \in Nat
<1>1. Numbers \subseteq Nat /\ OpIds \subseteq Nat
  BY Bounds DEF Numbers
<1> QED BY <1>1, RecordFacts
        DEF ToolTypeOK, DiskTypes, GoroutineTypes, RequestTypes, ActivityTypes, ToolCountTypes, Numbers

\* What was usable stays usable: versions are not removed and data is not migrated back.
LEMMA UsableStays ==
    ASSUME ToolTypeOK, ToolTypeOK', versions \subseteq versions', toolData <= toolData', NEW v \in Nat, Usable(v)
    PROVE  v <= toolData' /\ (v # NoVersion => v \in versions')
<1>1. toolData \in Nat /\ toolData' \in Nat
  BY Bounds DEF ToolTypeOK, DiskTypes
<1> QED BY <1>1 DEF Usable

LEMMA SafeStep ==
    ASSUME Safe, NEW o \in OpIds, OpStep(o)
    PROVE  Safe'
<1>1. ToolTypeOK /\ ToolTypeOK'
  BY TypeStep DEF Safe
<1>2. StepEffect(o)
  BY <1>1, StepEffects
<1>3. /\ Exclusive /\ UsableOK /\ TargetOK /\ NumberedOK
      /\ FrameEffect(o) /\ FileEffect(o) /\ GateEffect(o) /\ PlaceEffect(o)
  BY <1>2 DEF Safe, StepEffect
<1>4. Exclusive'
  <2>1. ASSUME NEW p \in OpIds, toolPc'[p] \in AtWork PROVE gate' = p
    <3>1. CASE p = o
      BY <1>3, <2>1, <3>1 DEF GateEffect, Exclusive
    <3>2. CASE p # o
      <4>1. toolPc[p] \in AtWork /\ gate = p
        BY <1>3, <2>1, <3>2 DEF FrameEffect, Exclusive
      <4>2. toolPc[o] = "signal"
        BY <1>3, <4>1, <3>2 DEF FrameEffect, Exclusive
      <4>3. UNCHANGED gate
        BY <4>2 DEF OpStep, Begin, SetPhase, Download, PrepareVersion, Probe, Migrate, Activate, Refresh,
                    RestoreVersion, RemoveRecord, EndUpdate, FinishUpdate, Enter, Entering, OpAt, Phases
      <4> QED BY <4>1, <4>3
    <3> QED BY <3>1, <3>2
  <2>2. gate' # NoOp => active' = 0
    BY <1>3 DEF FrameEffect, GateEffect, Exclusive
  <2> QED BY <2>1, <2>2 DEF Exclusive
<1>5. UsableOK'
  <2> DEFINE Still(v) == v <= toolData' /\ (v # NoVersion => v \in versions')
  <2>1. \A v \in Nat : Usable(v) => Still(v)
    BY <1>1, <1>3, UsableStays DEF FileEffect
  <2>2. Still(NoVersion) /\ NoRecord.base = NoVersion /\ NoJob.base = NoVersion
    <3>1. 0 <= toolData /\ 0 \in Nat
      BY <1>1, DataTypes
    <3> QED BY <2>1, <3>1 DEF Usable, NoRecord, NoJob
  <2> HIDE DEF Still
  <2>3. /\ current \in Nat /\ Usable(current) /\ record.base \in Nat /\ Usable(record.base)
        /\ job[o].base \in Nat /\ Usable(job[o].base) /\ job[o].target \in Nat
    BY <1>1, <1>3, DataTypes DEF UsableOK
  <2>4. Still(current')
    <3>1. toolPc[o] = "switch" => Usable(job[o].target)
      BY <1>3 DEF TargetOK, Usable, Prepared, Ready
    <3> QED BY <1>3, <2>1, <2>3, <3>1 DEF FileEffect
  <2>5. Still(record'.base)
    BY <1>3, <2>1, <2>2, <2>3 DEF FileEffect
  <2>6. \A c \in Askers : Still(seen'[c].base) /\ Still(want'[c].base)
    <3>1. \A c \in Askers : /\ seen[c].base \in Nat /\ want[c].base \in Nat
                            /\ Usable(seen[c].base) /\ Usable(want[c].base)
      BY <1>1, <1>3, DataTypes DEF UsableOK
    <3>2. seen' = seen /\ want' = want
      BY <1>3 DEF FrameEffect, requests
    <3> QED BY <2>1, <3>1, <3>2
  <2>7. \A p \in OpIds : Still(job'[p].base)
    <3>1. \A p \in OpIds : job[p].base \in Nat /\ Usable(job[p].base)
      BY <1>1, <1>3, DataTypes DEF UsableOK
    <3>2. \A p \in OpIds : job'[p] \in {job[p], NoJob}
      BY <1>3 DEF FrameEffect, GateEffect
    <3> QED BY <2>1, <2>2, <3>1, <3>2
  <2> QED BY <2>4, <2>5, <2>6, <2>7 DEF UsableOK, Usable, Still
<1>6. TargetOK'
  <2> SUFFICES ASSUME NEW p \in OpIds
               PROVE  /\ toolPc'[p] \in Prepared => job'[p].target \in versions'
                      /\ toolPc'[p] \in Ready => job'[p].target <= toolData'
    BY DEF TargetOK
  <2>3. toolData \in Nat /\ toolData' \in Nat /\ job[o].target \in Nat /\ job[p].target \in Nat
    <3>1. toolData' \in Nat
      BY <1>1, Bounds DEF ToolTypeOK, DiskTypes
    <3> QED BY <1>1, <3>1, DataTypes
  <2>1. CASE p = o
    <3>1. toolPc'[o] \in Prepared \cup Ready => job'[o] = job[o]
      BY <1>3 DEF GateEffect, Prepared, Ready, AtWork, Phases
    <3>2. toolPc'[o] \in Prepared => job[o].target \in versions'
      BY <1>3 DEF PlaceEffect, TargetOK, FileEffect
    <3>3. toolPc'[o] \in Ready => job[o].target <= toolData'
      BY <1>3, <2>3 DEF PlaceEffect, TargetOK, FileEffect
    <3> QED BY <2>1, <3>1, <3>2, <3>3
  <2>2. CASE p # o
    <3>1. toolPc'[p] = toolPc[p] /\ job'[p] = job[p]
      BY <1>3, <2>2 DEF FrameEffect
    <3> QED BY <1>3, <2>3, <3>1 DEF TargetOK, FileEffect
  <2> QED BY <2>1, <2>2
<1>7. NumberedOK'
  <2>1. ops' = ops /\ done' <= ops /\ closed' <= ops
    BY <1>1, <1>3, DataTypes DEF FrameEffect, GateEffect, NumberedOK
  <2>2. \A p \in OpIds : p > ops => toolPc'[p] = "over"
    <3>1. ~(o > ops)
      BY <1>3 DEF FrameEffect, NumberedOK, AtWork, Phases
    <3> QED BY <1>3, <3>1 DEF FrameEffect, NumberedOK
  <2> QED BY <2>1, <2>2 DEF NumberedOK
<1> QED BY <1>1, <1>4, <1>5, <1>6, <1>7 DEF Safe

LEMMA SafeRequest ==
    ASSUME Safe, NEW c \in Askers, Request(c)
    PROVE  Safe'
<1>1. ToolTypeOK /\ ToolTypeOK'
  BY TypeRequest DEF Safe
<1>2. RequestEffect(c) /\ Exclusive /\ UsableOK /\ TargetOK /\ NumberedOK
  BY <1>1, RequestEffects DEF Safe
<1>3. ASSUME BeginUpdate(c)
      PROVE  /\ ops' = ops + 1 /\ ops' \in OpIds /\ gate = NoOp /\ active = 0 /\ gate' = ops'
             /\ done' = ops'
             /\ toolPc' = [toolPc EXCEPT ![ops'] = "begin"]
             /\ job' = [job EXCEPT ![ops'] = want[c]]
  BY <1>3 DEF BeginUpdate
<1>4. Exclusive'
  <2>1. CASE BeginUpdate(c)
    <3>1. \A p \in OpIds : toolPc'[p] \in AtWork => p = ops'
      BY <1>1, <1>2, <1>3, <2>1 DEF Exclusive, ToolTypeOK, GoroutineTypes
    <3> QED BY <1>2, <1>3, <2>1, <3>1 DEF Exclusive, RequestEffect
  <2>2. CASE ~BeginUpdate(c)
    BY <1>2, <2>2 DEF RequestEffect, Exclusive
  <2> QED BY <2>1, <2>2
<1>5. UsableOK'
  <2>1. toolData' = toolData /\ versions' = versions
    BY <1>2 DEF RequestEffect
  <2>2. NoRecord.base = NoVersion /\ NoJob.base = NoVersion /\ Usable(NoVersion)
    BY <1>1, DataTypes DEF NoRecord, NoJob, Usable
  <2>3. /\ Usable(current) /\ Usable(record.base)
        /\ \A d \in Askers : Usable(seen[d].base) /\ Usable(want[d].base)
        /\ \A p \in OpIds : Usable(job[p].base)
    BY <1>2 DEF UsableOK
  <2>4. Usable(current') /\ Usable(record'.base)
    BY <1>2, <2>2, <2>3 DEF RequestEffect
  <2>5. \A d \in Askers : Usable(seen'[d].base) /\ Usable(want'[d].base)
    BY <1>2, <2>2, <2>3 DEF RequestEffect
  <2>6. \A p \in OpIds : Usable(job'[p].base)
    <3>1. CASE BeginUpdate(c)
      BY <1>1, <1>3, <2>3, <3>1 DEF ToolTypeOK, GoroutineTypes
    <3>2. CASE ~BeginUpdate(c)
      BY <1>2, <2>3, <3>2 DEF RequestEffect
    <3> QED BY <3>1, <3>2
  <2> QED BY <2>1, <2>4, <2>5, <2>6 DEF UsableOK, Usable
<1>6. TargetOK'
  <2>1. CASE BeginUpdate(c)
    BY <1>1, <1>2, <1>3, <2>1 DEF RequestEffect, TargetOK, ToolTypeOK, GoroutineTypes, Prepared, Ready
  <2>2. CASE ~BeginUpdate(c)
    BY <1>2, <2>2 DEF RequestEffect, TargetOK
  <2> QED BY <2>1, <2>2
<1>7. NumberedOK'
  <2>1. CASE BeginUpdate(c)
    <3>1. \A p \in OpIds : p > ops' => p > ops /\ p # ops'
      BY <1>1, <1>3, <2>1, DataTypes
    <3>2. \A p \in OpIds : p > ops' => toolPc'[p] = "over"
      BY <1>1, <1>2, <1>3, <2>1, <3>1 DEF NumberedOK, ToolTypeOK, GoroutineTypes
    <3>3. done' <= ops' /\ closed' <= ops'
      BY <1>1, <1>2, <1>3, <2>1, DataTypes DEF RequestEffect, NumberedOK
    <3> QED BY <3>2, <3>3 DEF NumberedOK
  <2>2. CASE ~BeginUpdate(c)
    BY <1>2, <2>2 DEF RequestEffect, NumberedOK
  <2> QED BY <2>1, <2>2
<1> QED BY <1>1, <1>4, <1>5, <1>6, <1>7 DEF Safe

LEMMA SafeGate ==
    ASSUME Safe, Acquire \/ ReleaseCall \/ ToolCrash
    PROVE  Safe'
<1>1. ToolTypeOK /\ ToolTypeOK' /\ Exclusive /\ UsableOK /\ TargetOK /\ NumberedOK
  BY TypeGate DEF Safe
<1>2. ASSUME Acquire \/ ReleaseCall PROVE Safe'
  <2>1. /\ UNCHANGED <<current, versions, toolData, record, gate, done, closed, toolPc, job>>
        /\ UNCHANGED <<seen, want, ops>>
    BY <1>2 DEF Acquire, ReleaseCall, toolDisk, requests
  <2>2. Exclusive'
    BY <1>1, <1>2, <2>1 DEF Exclusive, Acquire, ReleaseCall, ToolTypeOK, ActivityTypes
  <2> QED BY <1>1, <2>1, <2>2 DEF Safe, UsableOK, Usable, TargetOK, NumberedOK
<1>3. ASSUME ToolCrash PROVE Safe'
  <2>1. Exclusive'
    BY <1>3 DEF ToolCrash, Exclusive, AtWork, Phases
  <2>2. UsableOK'
    <3>1. NoRecord.base = NoVersion /\ NoJob.base = NoVersion /\ 0 <= toolData
      BY <1>1, DataTypes DEF NoRecord, NoJob
    <3> QED BY <1>1, <1>3, <3>1 DEF ToolCrash, UsableOK, Usable, toolDisk
  <2>3. TargetOK' /\ NumberedOK'
    BY <1>1, <1>3, DataTypes DEF ToolCrash, TargetOK, NumberedOK, Prepared, Ready
  <2> QED BY <1>1, <2>1, <2>2, <2>3 DEF Safe
<1> QED BY <1>2, <1>3

LEMMA SafeNext == Safe /\ [ToolNext]_toolVars => Safe'
<1>1. ASSUME Safe, UNCHANGED toolVars PROVE Safe'
  <2>1. ToolTypeOK'
    BY <1>1, TypeNext DEF Safe
  <2> QED BY <1>1, <2>1 DEF Safe, Exclusive, UsableOK, Usable, TargetOK, NumberedOK,
                            toolVars, toolDisk, activity, requests, toolHistory
<1> QED BY <1>1, SafeGate, SafeRequest, SafeStep DEF ToolNext

\* The variables have their types.
THEOREM ToolTypes == ToolSpec => []ToolTypeOK
<1>1. ToolInit => ToolTypeOK
  BY TypeInit
<1>2. ToolTypeOK /\ [ToolNext]_toolVars => ToolTypeOK'
  BY TypeNext
<1> QED BY <1>1, <1>2, PTL DEF ToolSpec

\* One operation at a time replaces the program of the tool, never under a running call.
THEOREM ToolExclusive == ToolSpec => []Exclusive
<1>1. Safe => Exclusive
  BY DEF Safe
<1> QED BY SafeInit, SafeNext, <1>1, PTL DEF ToolSpec

\* No version is in use before the data was migrated to it, and its program is complete.
THEOREM ToolMigratedFirst == ToolSpec => []MigratedFirst
<1>1. Safe => MigratedFirst
  BY DEF Safe, UsableOK, Usable, MigratedFirst
<1> QED BY SafeInit, SafeNext, <1>1, PTL DEF ToolSpec

-----------------------------------------------------------------------------
(* What requests that act one after the other may rely on. *)

Early == {"begin", "download", "to_prepare", "prepare", "to_probe", "probe",
          "to_migration", "migration", "to_switch", "switch"}

\* Whether an operation has switched, and how it is going to end, where it stands.
Stage(o) ==
    /\ toolPc[o] \in Early => o \notin activated /\ outcome[o] = "running"
    /\ toolPc[o] \in {"to_refresh", "refresh"} => o \in activated /\ outcome[o] = "running"
    /\ toolPc[o] = "restore" => outcome[o] = "running"
    /\ toolPc[o] = "remove" => o \in activated /\ outcome[o] \in {"running", "failed"}
    /\ toolPc[o] = "release" => \/ outcome[o] = "done" /\ o \in activated
                                \/ outcome[o] = "cancelled" /\ o \notin activated
                                \/ outcome[o] = "failed"
    /\ toolPc[o] = "over" => o \notin activated
StageOK == \A o \in OpIds : Stage(o)

\* The version in use while an operation works: it has switched and was not undone, or
\* it is the one it started from.
Undone(o) == outcome[o] = "failed" /\ job[o].base # NoVersion
VersionOf(o) == IF o \in activated /\ ~Undone(o) THEN job[o].target ELSE job[o].base

\* The record asks for nothing to be restored when v is the version to keep.
Known(r, v) == r.result # "running" \/ r.phase \in PreSwitch \/ r.base \in {NoVersion, v}

OperationOK(o) ==
    /\ toolPc[o] \in AtWork =>
         /\ current = VersionOf(o)
         /\ Known(record, job[o].base)
         /\ o \in activated /\ outcome[o] = "running" => ~settled
    /\ toolPc[o] \in AtWork \cup {"signal"} => done = o

ClientOK(c) ==
    /\ at[c] \in Asking => gate = NoOp
    /\ at[c] = "begin" => want[c].base = current
    /\ at[c] \in {"version", "begin"} => Known(record, current)
    /\ at[c] \in {"confirm", "restore"} => seen[c].base \in {NoVersion, current} \/ ~settled
    /\ at[c] \in {"confirm", "restore", "forget"} => record.result # "running" \/ record = seen[c]
    /\ at[c] = "restore" => seen[c].base # NoVersion
    /\ at[c] = "forget" => seen[c].phase \in PreSwitch \/ seen[c].base \in {NoVersion, current}

SettledOK == settled => Known(record, current)

Orderly ==
    /\ Safe
    /\ StageOK
    /\ orderly => /\ SettledOK
                  /\ SignalledWhenOver
                  /\ \A o \in OpIds : OperationOK(o)
                  /\ \A c \in Askers : ClientOK(c)

LEMMA OrderlyInit == ToolInit => Orderly
<1>1. ASSUME ToolInit PROVE Orderly
  <2>1. Safe
    BY <1>1, SafeInit
  <2>2. StageOK
    BY <1>1 DEF ToolInit, StageOK, Stage, Early
  <2>3. SettledOK
    BY <1>1 DEF ToolInit, SettledOK, Known, NoRecord
  <2>4. SignalledWhenOver
    BY <1>1 DEF ToolInit, SignalledWhenOver
  <2>5. \A o \in OpIds : OperationOK(o)
    BY <1>1 DEF ToolInit, OperationOK, AtWork, Phases
  <2>6. \A c \in Askers : ClientOK(c)
    BY <1>1 DEF ToolInit, ClientOK
  <2> QED BY <2>1, <2>2, <2>3, <2>4, <2>5, <2>6 DEF Orderly
<1> QED BY <1>1

\* Stages of the operation that takes a step.
LEMMA StageStep ==
    ASSUME ToolTypeOK, NEW o \in OpIds, Stage(o), OpStep(o)
    PROVE  Stage(o)'
<1> USE DEF ToolTypeOK, toolHistory, OpAt, MoveOp
<1>0. toolPc \in [OpIds -> OpPlaces] /\ outcome \in [OpIds -> {"none", "running", "done", "failed", "cancelled"}]
  BY DEF GoroutineTypes
<1>1. ASSUME NEW p \in Phases, GiveUpPhase(o, p), toolPc[o] \in Early, UNCHANGED activated PROVE Stage(o)'
  BY <1>0, <1>1 DEF GiveUpPhase, Finish, Stage, Early
<1>2. ASSUME NEW p \in Phases \ {"switch", "refresh"}, GoOnTo(o, p), toolPc[o] \in Early,
             UNCHANGED <<activated, outcome>>
      PROVE  Stage(o)'
  BY <1>0, <1>2 DEF GoOnTo, Entering, Stage, Early, Phases
<1>3. ASSUME Begin(o) PROVE Stage(o)'
  BY <1>0, <1>3 DEF Begin, SetPhase, Stage, Early
<1>4. ASSUME NEW p \in Phases \ {"download"}, Enter(o, p) PROVE Stage(o)'
  BY <1>0, <1>4 DEF Enter, Entering, SetPhase, Stage, Early, Phases
<1>5. ASSUME Download(o) \/ PrepareVersion(o) \/ Probe(o) \/ Migrate(o) PROVE Stage(o)'
  <2>1. toolPc[o] \in Early /\ UNCHANGED activated
    BY <1>5 DEF Download, PrepareVersion, Probe, Migrate, Early
  <2>2. \/ \E p \in Phases : GiveUpPhase(o, p)
        \/ UNCHANGED outcome /\ \E p \in Phases \ {"switch", "refresh"} : GoOnTo(o, p)
    BY <1>5 DEF Download, PrepareVersion, Probe, Migrate, Phases
  <2> QED BY <1>1, <1>2, <2>1, <2>2
<1>6. ASSUME Activate(o) PROVE Stage(o)'
  BY <1>0, <1>6 DEF Activate, GoOnTo, Entering, Stage, Early
<1>7. ASSUME Refresh(o) PROVE Stage(o)'
  BY <1>0, <1>7 DEF Refresh, Stage, Early
<1>8. ASSUME RestoreVersion(o) PROVE Stage(o)'
  BY <1>0, <1>8 DEF RestoreVersion, Stage, Early
<1>9. ASSUME RemoveRecord(o) PROVE Stage(o)'
  <2>1. /\ outcome' = [outcome EXCEPT ![o] = IF @ = "running" THEN "done" ELSE @]
        /\ toolPc[o] = "remove" /\ toolPc' = [toolPc EXCEPT ![o] = "release"]
        /\ activated' = activated
    BY <1>9 DEF RemoveRecord
  <2>2. o \in activated /\ outcome[o] \in {"running", "failed"}
    BY <2>1 DEF Stage
  <2>3. toolPc'[o] = "release" /\ outcome'[o] \in {"done", "failed"}
    BY <1>0, <2>1, <2>2
  <2> QED BY <2>1, <2>2, <2>3 DEF Stage, Early
<1>10. ASSUME EndUpdate(o) \/ FinishUpdate(o) PROVE Stage(o)'
  BY <1>0, <1>10 DEF EndUpdate, FinishUpdate, Stage, Early
<1> QED BY <1>3, <1>4, <1>5, <1>6, <1>7, <1>8, <1>9, <1>10 DEF OpStep

\* What a step of a working operation does to the version in use.
Own(o) ==
    /\ orderly
    /\ toolPc'[o] \in AtWork => current' = VersionOf(o)'
    /\ toolPc'[o] \in AtWork /\ o \in activated' /\ outcome'[o] = "running" => ~settled'
    /\ settled' => \/ UNCHANGED <<settled, record, current>>
                   \/ current' = job[o].base
                   \/ record' = NoRecord
    /\ settled /\ current' # current => o \in activated' \ activated
    /\ UNCHANGED <<done, closed>>

LEMMA OwnStep ==
    ASSUME ToolTypeOK, NEW o \in OpIds, Stage(o), OperationOK(o), OpStep(o), toolPc[o] \in AtWork, orderly'
    PROVE  Own(o)
<1> USE DEF ToolTypeOK, toolDisk, activity, toolHistory, OpAt, MoveOp
<1>0. toolPc \in [OpIds -> OpPlaces] /\ outcome \in [OpIds -> {"none", "running", "done", "failed", "cancelled"}]
  BY DEF GoroutineTypes
<1>1. ASSUME UNCHANGED <<current, activated, settled, orderly, done, closed, job>>,
             toolPc[o] \in Early,
             toolPc'[o] \in AtWork => outcome'[o] \in {"running", "failed", "cancelled"}
      PROVE  Own(o)
  BY <1>1 DEF Own, VersionOf, Undone, OperationOK, Stage
<1>2. ASSUME NEW p \in Phases, GiveUpPhase(o, p) PROVE outcome'[o] \in {"running", "failed", "cancelled"}
  BY <1>0, <1>2 DEF GiveUpPhase, Finish
<1>3. ASSUME UNCHANGED <<current, activated, outcome, settled, orderly, done, closed, job>>,
             toolPc[o] \in {"to_refresh", "refresh"}
      PROVE  Own(o)
  BY <1>3 DEF Own, VersionOf, Undone, OperationOK, Stage, AtWork
<1>4. ASSUME Begin(o) PROVE Own(o)
  BY <1>1, <1>4 DEF Begin, SetPhase, Stage, Early
<1>5. ASSUME NEW p \in Phases \ {"download"}, Enter(o, p) PROVE Own(o)
  <2>1. UNCHANGED <<current, activated, outcome, settled, orderly, done, closed, job>>
    BY <1>5 DEF Enter, SetPhase
  <2>2. toolPc[o] \in Early \/ toolPc[o] = "to_refresh"
    BY <1>5 DEF Enter, Entering, Early, Phases
  <2>3. CASE toolPc[o] \in Early
    BY <1>1, <2>1, <2>3 DEF Stage
  <2> QED BY <1>3, <2>1, <2>2, <2>3
<1>6. ASSUME Download(o) \/ PrepareVersion(o) \/ Probe(o) \/ Migrate(o) PROVE Own(o)
  <2>1. UNCHANGED <<current, activated, settled, orderly, done, closed, job>> /\ toolPc[o] \in Early
    BY <1>6 DEF Download, PrepareVersion, Probe, Migrate, Early
  <2>2. outcome' = outcome \/ \E p \in Phases : GiveUpPhase(o, p)
    BY <1>6 DEF Download, PrepareVersion, Probe, Migrate, Phases
  <2> QED BY <1>1, <1>2, <2>1, <2>2 DEF Stage
<1>7. ASSUME Activate(o) PROVE Own(o)
  BY <1>0, <1>7 DEF Activate, GoOnTo, Own, VersionOf, Undone, OperationOK, Stage, Early
<1>8. ASSUME Refresh(o) PROVE Own(o)
  BY <1>3, <1>8 DEF Refresh
<1>9. ASSUME RestoreVersion(o) PROVE Own(o)
  BY <1>0, <1>9 DEF RestoreVersion, Former, Own, VersionOf, Undone, OperationOK, Stage
<1>10. ASSUME RemoveRecord(o) PROVE Own(o)
  BY <1>0, <1>10 DEF RemoveRecord, Own, VersionOf, Undone, OperationOK, Stage
<1>11. ASSUME EndUpdate(o) PROVE Own(o)
  BY <1>0, <1>11 DEF EndUpdate, Own, AtWork, Phases
<1>12. ~FinishUpdate(o)
  BY DEF FinishUpdate, AtWork, Phases
<1> QED BY <1>4, <1>5, <1>6, <1>7, <1>8, <1>9, <1>10, <1>11, <1>12 DEF OpStep

LEMMA OrderlyStep ==
    ASSUME Orderly, NEW o \in OpIds, OpStep(o)
    PROVE  Orderly' /\ KeptUntilSwitch
<1>1. Safe /\ Safe' /\ ToolTypeOK /\ ToolTypeOK' /\ Exclusive /\ NumberedOK /\ StageOK
  BY SafeStep DEF Orderly, Safe
<1>2. FrameEffect(o) /\ FileEffect(o) /\ GateEffect(o)
  BY <1>1, StepEffects DEF StepEffect
<1>3. StageOK'
  <2>1. Stage(o)'
    BY <1>1, StageStep DEF StageOK
  <2>2. \A p \in OpIds \ {o} : Stage(p)'
    BY <1>1, <1>2 DEF FrameEffect, StageOK, Stage
  <2> QED BY <2>1, <2>2 DEF StageOK
<1>4. ASSUME orderly', toolPc[o] \in AtWork
      PROVE  /\ KeptUntilSwitch
             /\ SettledOK' /\ SignalledWhenOver'
             /\ \A p \in OpIds : OperationOK(p)'
             /\ \A c \in Askers : ClientOK(c)'
  <2>1. orderly
    BY <1>4 DEF OpStep, Begin, SetPhase, Download, PrepareVersion, Probe, Migrate, Activate, Refresh,
                RestoreVersion, RemoveRecord, EndUpdate, FinishUpdate, Enter, toolHistory
  <2>2. /\ SettledOK /\ SignalledWhenOver
        /\ \A p \in OpIds : OperationOK(p)
        /\ \A c \in Askers : ClientOK(c)
    BY <2>1 DEF Orderly
  <2>3. Own(o)
    BY <1>1, <1>4, <2>2, OwnStep DEF StageOK
  <2>4. gate = o /\ gate # NoOp /\ (\A p \in OpIds \ {o} : toolPc'[p] \notin AtWork)
    BY <1>1, <1>2, <1>4 DEF Exclusive, FrameEffect
  <2>5. Known(record', job[o].base)
    BY <1>2, <1>4, <2>2 DEF FileEffect, OperationOK, Known, NoRecord
  <2>6. SettledOK'
    <3>1. CASE UNCHANGED <<settled, record, current>>
      BY <2>2, <3>1 DEF SettledOK, Known
    <3>2. CASE current' = job[o].base
      BY <2>5, <3>2 DEF SettledOK, Known
    <3>3. CASE record' = NoRecord
      BY <3>3 DEF SettledOK, Known, NoRecord
    <3> QED BY <2>3, <3>1, <3>2, <3>3 DEF Own, SettledOK
  <2>7. SignalledWhenOver'
    <3>1. toolPc[o] # "over" /\ closed' = closed
      BY <1>4, <2>3 DEF Own, AtWork, Phases
    <3>2. closed # NoOp => closed \in OpIds
      BY <1>1 DEF ToolTypeOK, ActivityTypes
    <3> QED BY <1>2, <2>1, <2>2, <3>1, <3>2 DEF SignalledWhenOver, FrameEffect
  <2>8. \A p \in OpIds : OperationOK(p)'
    <3>1. OperationOK(o)'
      BY <1>2, <1>4, <2>2, <2>3, <2>5 DEF OperationOK, Own, GateEffect
    <3>2. ASSUME NEW p \in OpIds \ {o} PROVE OperationOK(p)'
      BY <1>2, <2>2, <2>3, <2>4, <3>2 DEF OperationOK, Own, FrameEffect
    <3> QED BY <3>1, <3>2
  <2>9. \A c \in Askers : ClientOK(c)'
    <3>1. \A c \in Askers : at'[c] \notin Asking
      BY <1>2, <2>2, <2>4 DEF ClientOK, FrameEffect, requests
    <3> QED BY <3>1 DEF ClientOK, Asking
  <2>10. KeptUntilSwitch
    BY <2>3 DEF Own, KeptUntilSwitch, Switched
  <2> QED BY <2>6, <2>7, <2>8, <2>9, <2>10
<1>5. ASSUME orderly', toolPc[o] = "signal"
      PROVE  /\ KeptUntilSwitch
             /\ SettledOK' /\ SignalledWhenOver'
             /\ \A p \in OpIds : OperationOK(p)'
             /\ \A c \in Askers : ClientOK(c)'
  <2>1. FinishUpdate(o)
    <3>1. \A p \in Phases \ {"download"} : ~Enter(o, p)
      BY <1>5 DEF Enter, Entering, Phases, OpAt
    <3>2. ~Begin(o) /\ ~Download(o) /\ ~PrepareVersion(o) /\ ~Probe(o) /\ ~Migrate(o)
      BY <1>5 DEF Begin, Download, PrepareVersion, Probe, Migrate, OpAt
    <3>3. ~Activate(o) /\ ~Refresh(o) /\ ~RestoreVersion(o) /\ ~RemoveRecord(o) /\ ~EndUpdate(o)
      BY <1>5 DEF Activate, Refresh, RestoreVersion, RemoveRecord, EndUpdate, OpAt
    <3> QED BY <3>1, <3>2, <3>3 DEF OpStep
  <2>2. UNCHANGED <<current, record, settled, orderly, gate, requests>>
    BY <2>1 DEF FinishUpdate, toolDisk
  <2>3. /\ SettledOK /\ SignalledWhenOver
        /\ \A p \in OpIds : OperationOK(p)
        /\ \A c \in Askers : ClientOK(c)
    BY <1>5, <2>2 DEF Orderly
  <2>4. done = o /\ closed' = o /\ toolPc' = [toolPc EXCEPT ![o] = "over"]
    BY <1>5, <2>1, <2>3 DEF OperationOK, FinishUpdate, MoveOp
  <2>5. \A p \in OpIds : OperationOK(p)'
    <3>1. toolPc' \in [OpIds -> OpPlaces] /\ toolPc'[o] = "over"
      BY <1>1, <2>4 DEF ToolTypeOK, GoroutineTypes
    <3>2. OperationOK(o)'
      BY <3>1 DEF OperationOK, AtWork, Phases
    <3>3. ASSUME NEW p \in OpIds \ {o} PROVE OperationOK(p)'
      <4>1. toolPc[p] \notin AtWork \cup {"signal"}
        BY <2>3, <2>4, <3>3 DEF OperationOK
      <4> QED BY <1>2, <3>3, <4>1 DEF OperationOK, FrameEffect
    <3> QED BY <3>2, <3>3
  <2>6. SettledOK' /\ KeptUntilSwitch
    BY <2>2, <2>3 DEF SettledOK, KeptUntilSwitch
  <2>7. SignalledWhenOver'
    BY <1>1, <2>4 DEF SignalledWhenOver, ToolTypeOK, GoroutineTypes
  <2>8. \A c \in Askers : ClientOK(c)'
    BY <2>2, <2>3 DEF ClientOK, requests
  <2> QED BY <2>5, <2>6, <2>7, <2>8
<1>6. toolPc[o] \in AtWork \/ toolPc[o] = "signal"
  BY <1>2 DEF FrameEffect
<1> QED BY <1>1, <1>3, <1>4, <1>5, <1>6 DEF Orderly, KeptUntilSwitch

LEMMA OrderlyRequest ==
    ASSUME Orderly, NEW c \in Askers, Request(c)
    PROVE  Orderly' /\ KeptUntilSwitch
<1> USE DEF Go, GoOn, Reply
<1>1. Safe /\ Safe' /\ ToolTypeOK /\ ToolTypeOK' /\ Exclusive /\ NumberedOK /\ StageOK
  BY SafeRequest DEF Orderly, Safe
<1>2. RequestEffect(c)
  BY <1>1, RequestEffects
<1>3. ASSUME BeginUpdate(c)
      PROVE  /\ ops' = ops + 1 /\ ops' \in OpIds /\ gate = NoOp /\ gate' = ops' /\ done' = ops'
             /\ toolPc' = [toolPc EXCEPT ![ops'] = "begin"]
             /\ job' = [job EXCEPT ![ops'] = want[c]]
             /\ outcome' = [outcome EXCEPT ![ops'] = "running"]
             /\ UNCHANGED <<current, record, settled, closed, activated>>
             /\ at[c] = "begin" /\ toolPc[ops'] = "over"
             /\ \A p \in OpIds : toolPc[p] \notin AtWork
  <2>1. ops' = ops + 1 /\ ops' \in OpIds /\ gate = NoOp
    BY <1>3 DEF BeginUpdate
  <2>2. ops' > ops
    BY <1>1, <2>1, DataTypes
  <2> QED BY <1>1, <1>3, <2>1, <2>2 DEF BeginUpdate, toolDisk, NumberedOK, Exclusive
<1>4. StageOK'
  <2>1. CASE BeginUpdate(c)
    <3>1. PICK n \in OpIds : n = ops'
      BY <1>3, <2>1
    <3>2. /\ toolPc' = [toolPc EXCEPT ![n] = "begin"] /\ outcome' = [outcome EXCEPT ![n] = "running"]
          /\ activated' = activated /\ toolPc[n] = "over"
      BY <1>3, <2>1, <3>1
    <3>3. toolPc \in [OpIds -> OpPlaces]
          /\ outcome \in [OpIds -> {"none", "running", "done", "failed", "cancelled"}]
      BY <1>1 DEF ToolTypeOK, GoroutineTypes
    <3>4. Stage(n)'
      BY <1>1, <3>2, <3>3 DEF StageOK, Stage, Early
    <3>5. ASSUME NEW p \in OpIds, p # n PROVE Stage(p)'
      BY <1>1, <3>2, <3>3, <3>5 DEF StageOK, Stage
    <3> QED BY <3>4, <3>5 DEF StageOK
  <2>2. CASE ~BeginUpdate(c)
    BY <1>1, <1>2, <2>2 DEF RequestEffect, StageOK, Stage
  <2> QED BY <2>1, <2>2
<1>5. ASSUME orderly'
      PROVE  /\ KeptUntilSwitch
             /\ SettledOK' /\ SignalledWhenOver'
             /\ \A p \in OpIds : OperationOK(p)'
             /\ \A d \in Askers : ClientOK(d)'
  <2>1. orderly
    BY <1>5 DEF Request, Ask, Pending, Confirm, RestoreInterrupted, Forget, ReadVersion, RefuseUpdate, BeginUpdate,
                CancelCall, CancelToolOperation, Waited, toolHistory
  <2>2. /\ SettledOK /\ SignalledWhenOver
        /\ \A p \in OpIds : OperationOK(p)
        /\ \A d \in Askers : ClientOK(d)
    BY <2>1 DEF Orderly
  <2>3. at[c] \in Asking => gate = NoOp /\ \A p \in OpIds : toolPc[p] \notin AtWork
    BY <1>1, <2>2 DEF ClientOK, Exclusive
  <2>4. CASE BeginUpdate(c)
    <3>1. want[c].base = current /\ Known(record, current) /\ done = NoOp
          /\ \A d \in Askers \ {c} : at[d] \notin Asking
      BY <1>5, <2>2, <2>4 DEF BeginUpdate, ClientOK, NobodyElse
    <3>2. toolPc \in [OpIds -> OpPlaces] /\ job \in [OpIds -> Jobs] /\ at \in [Askers -> Stations]
          /\ outcome \in [OpIds -> {"none", "running", "done", "failed", "cancelled"}]
      BY <1>1 DEF ToolTypeOK, GoroutineTypes, RequestTypes
    <3>7. PICK n \in OpIds : n = ops'
      BY <1>3, <2>4
    <3>3. OperationOK(n)'
      <4>1. n \notin activated
        BY <1>1, <1>3, <2>4, <3>7 DEF StageOK, Stage
      <4>2. job'[n] = want[c]
        BY <1>3, <2>4, <3>2, <3>7
      <4> QED BY <1>3, <2>4, <3>1, <3>7, <4>1, <4>2 DEF OperationOK, VersionOf
    <3>4. ASSUME NEW p \in OpIds, p # n PROVE OperationOK(p)'
      <4>1. toolPc'[p] = toolPc[p] /\ toolPc[p] \notin AtWork \cup {"signal"}
        BY <1>3, <2>2, <2>4, <3>1, <3>2, <3>4, <3>7 DEF OperationOK
      <4> QED BY <4>1 DEF OperationOK
    <3>5. \A d \in Askers : at'[d] \notin Asking
      BY <2>4, <3>1, <3>2 DEF BeginUpdate, Asking
    <3>6. SignalledWhenOver'
      <4>1. closed # ops'
        BY <1>1, <1>3, <2>4, DataTypes DEF NumberedOK
      <4> QED BY <1>1, <1>3, <2>1, <2>2, <2>4, <3>2, <4>1
              DEF SignalledWhenOver, ToolTypeOK, ActivityTypes
    <3>8. SettledOK' /\ KeptUntilSwitch
      BY <1>3, <2>2, <2>4 DEF SettledOK, KeptUntilSwitch
    <3>9. \A d \in Askers : ClientOK(d)'
      BY <3>5 DEF ClientOK, Asking
    <3> QED BY <3>3, <3>4, <3>6, <3>8, <3>9
  <2>5. CASE RestoreInterrupted(c)
    <3>1. at[c] = "restore" /\ gate = NoOp /\ \A p \in OpIds : toolPc[p] \notin AtWork
      BY <2>3, <2>5 DEF RestoreInterrupted, Asking
    <3>2. UNCHANGED <<gate, done, closed, toolPc, job, outcome, activated>>
      BY <2>5 DEF RestoreInterrupted, activity
    <3>3. \A p \in OpIds : OperationOK(p)'
      BY <2>2, <3>1, <3>2 DEF OperationOK
    <3>4. SignalledWhenOver'
      BY <2>1, <2>2, <3>2 DEF SignalledWhenOver
    <3>5. at \in [Askers -> Stations] /\ seen \in [Askers -> Records]
      BY <1>1 DEF ToolTypeOK, RequestTypes
    <3>6. CASE /\ current' = seen[c].base
               /\ \A d \in Askers \ {c} : at[d] \notin Asking
               /\ UNCHANGED <<record, seen>>
               /\ at' = [at EXCEPT ![c] = "forget"]
      <4>1. SettledOK'
        BY <2>2, <3>1, <3>6 DEF SettledOK, Known, ClientOK
      <4>2. ClientOK(c)'
        BY <2>2, <3>1, <3>2, <3>5, <3>6 DEF ClientOK
      <4>3. ASSUME NEW d \in Askers, d # c PROVE ClientOK(d)'
        BY <3>5, <3>6, <4>3 DEF ClientOK, Asking
      <4>4. KeptUntilSwitch
        BY <2>2, <3>1, <3>6 DEF ClientOK, KeptUntilSwitch
      <4> QED BY <3>3, <3>4, <4>1, <4>2, <4>3, <4>4
    <3>7. CASE /\ UNCHANGED <<current, settled>>
               /\ record'.result = "failed"
               /\ at' = [at EXCEPT ![c] = "idle"]
      <4>1. SettledOK'
        BY <3>7 DEF SettledOK, Known
      <4>2. ClientOK(c)'
        BY <3>5, <3>7 DEF ClientOK, Asking
      <4>3. ASSUME NEW d \in Askers, d # c PROVE ClientOK(d)'
        <5>1. at'[d] = at[d] /\ seen'[d] = seen[d] /\ want'[d] = want[d]
          BY <1>2, <4>3 DEF RequestEffect
        <5> QED BY <2>2, <3>2, <3>7, <5>1 DEF ClientOK, Known
      <4> QED BY <3>3, <3>4, <3>7, <4>1, <4>2, <4>3 DEF KeptUntilSwitch
    <3>8. [seen[c] EXCEPT !.phase = "restore", !.result = "failed"].result = "failed"
      BY <3>5 DEF Records
    <3> QED BY <1>5, <2>5, <3>6, <3>7, <3>8 DEF RestoreInterrupted, NobodyElse
  <2>6. CASE ~BeginUpdate(c) /\ ~RestoreInterrupted(c)
    <3>1. UNCHANGED <<current, settled, gate, done, closed, toolPc, job, outcome, activated>>
      BY <2>6 DEF Request, Ask, Pending, Confirm, Forget, ReadVersion, RefuseUpdate, CancelCall,
                  CancelToolOperation, Waited, toolHistory, activity, toolDisk
    <3>2. record' = record \/ (record'.result # "running" /\ at[c] \in Asking)
      <4>1. [seen[c] EXCEPT !.phase = "restore", !.result = "failed"].result = "failed"
        BY <1>1 DEF ToolTypeOK, RequestTypes, Records
      <4>2. Confirm(c) \/ Forget(c) \/ record' = record
        BY <2>6 DEF Request, Ask, Pending, ReadVersion, RefuseUpdate, CancelCall, CancelToolOperation, Waited, toolDisk
      <4>3. ASSUME Confirm(c) PROVE record' = record \/ record'.result # "running"
        BY <4>1, <4>3 DEF Confirm, Write
      <4>4. ASSUME Forget(c) PROVE record' = record \/ record'.result # "running"
        BY <4>4 DEF Forget, Write, NoRecord
      <4>5. Confirm(c) \/ Forget(c) => at[c] \in Asking
        BY DEF Confirm, Forget, Asking
      <4> QED BY <4>2, <4>3, <4>4, <4>5
    <3>3. SettledOK' /\ KeptUntilSwitch
      BY <2>2, <3>1, <3>2 DEF SettledOK, Known, KeptUntilSwitch
    <3>4. SignalledWhenOver'
      BY <2>1, <2>2, <3>1 DEF SignalledWhenOver
    <3>5. \A p \in OpIds : OperationOK(p)'
      BY <2>2, <2>3, <3>1, <3>2 DEF OperationOK, VersionOf, Undone
    <3>6. ASSUME NEW d \in Askers \ {c} PROVE ClientOK(d)'
      <4>1. at'[d] = at[d] /\ seen'[d] = seen[d] /\ want'[d] = want[d]
        BY <1>2 DEF RequestEffect
      <4> QED BY <2>2, <3>1, <3>2, <4>1 DEF ClientOK, Known
    <3>7. ClientOK(c)'
      <4>1. at \in [Askers -> Stations] /\ seen \in [Askers -> Records]
            /\ want \in [Askers -> Jobs]
        BY <1>1 DEF ToolTypeOK, RequestTypes
      <4>2. ASSUME NEW kind \in OpKinds, Ask(c, kind) PROVE ClientOK(c)'
        BY <4>1, <4>2 DEF Ask, Quiet, ClientOK, activity, Asking
      <4>3. CASE Pending(c)
        BY <2>2, <2>3, <3>1, <4>1, <4>3
           DEF Pending, AfterRecovery, ClientOK, SettledOK, Known, Asking, toolDisk
      <4>4. CASE Confirm(c)
        BY <2>2, <3>1, <4>1, <4>4 DEF Confirm, ClientOK, Asking
      <4>5. CASE Forget(c)
        BY <2>2, <3>1, <4>1, <4>5 DEF Forget, AfterRecovery, Write, NoRecord, ClientOK, Known, Asking
      <4>6. ASSUME NEW v \in Versions, ReadVersion(c, v) PROVE ClientOK(c)'
        <5>1. UNCHANGED <<record, current, gate>> /\ gate = NoOp /\ Known(record, current)
          BY <2>2, <2>3, <4>6 DEF ReadVersion, toolDisk, activity, ClientOK, Asking
        <5>2. \/ at' = [at EXCEPT ![c] = "idle"]
              \/ /\ at' = [at EXCEPT ![c] = "begin"]
                 /\ want' = [want EXCEPT ![c] = [@ EXCEPT !.base = current, !.target = v]]
          BY <4>6 DEF ReadVersion
        <5>3. at'[c] = "idle" \/ (at'[c] = "begin" /\ want'[c].base = current)
          <6>1. [want[c] EXCEPT !.base = current, !.target = v].base = current
            BY <4>1 DEF Jobs
          <6>2. CASE at' = [at EXCEPT ![c] = "idle"]
            BY <4>1, <6>2
          <6>3. CASE /\ at' = [at EXCEPT ![c] = "begin"]
                     /\ want' = [want EXCEPT ![c] = [@ EXCEPT !.base = current, !.target = v]]
            <7>1. at'[c] = "begin"
              BY <4>1, <6>3
            <7>2. want'[c] = [want[c] EXCEPT !.base = current, !.target = v]
              BY <4>1, <6>3
            <7> QED BY <6>1, <7>1, <7>2
          <6> QED BY <5>2, <6>2, <6>3
        <5> QED BY <5>1, <5>3 DEF ClientOK, Asking
      <4>7. CASE RefuseUpdate(c)
        BY <4>1, <4>7 DEF RefuseUpdate, ClientOK, Asking
      <4>8. CASE CancelCall(c) \/ CancelToolOperation(c) \/ Waited(c)
        BY <3>1, <4>1, <4>8 DEF CancelCall, CancelToolOperation, Waited, Answer, ClientOK, Asking
      <4> QED BY <2>6, <4>2, <4>3, <4>4, <4>5, <4>6, <4>7, <4>8 DEF Request
    <3> QED BY <3>3, <3>4, <3>5, <3>6, <3>7
  <2> QED BY <2>4, <2>5, <2>6
<1> QED BY <1>1, <1>4, <1>5 DEF Orderly, KeptUntilSwitch

LEMMA OrderlyGate ==
    ASSUME Orderly, Acquire \/ ReleaseCall \/ ToolCrash
    PROVE  Orderly' /\ KeptUntilSwitch
<1>1. Safe' /\ UNCHANGED <<current, record, settled, orderly, closed>>
  BY SafeGate DEF Orderly, Acquire, ReleaseCall, ToolCrash, toolDisk, toolHistory
<1>2. CASE Acquire \/ ReleaseCall
  <2>1. UNCHANGED <<gate, done, toolPc, job, requests, toolHistory>>
    BY <1>2 DEF Acquire, ReleaseCall
  <2> QED BY <1>1, <2>1
          DEF Orderly, StageOK, Stage, SettledOK, SignalledWhenOver, OperationOK, VersionOf,
              Undone, ClientOK, KeptUntilSwitch, requests, toolHistory
<1>3. CASE ToolCrash
  <2>1. StageOK'
    BY <1>3 DEF ToolCrash, StageOK, Stage, Early
  <2>2. \A o \in OpIds : OperationOK(o)'
    BY <1>3 DEF ToolCrash, OperationOK, AtWork, Phases
  <2>3. \A c \in Askers : ClientOK(c)'
    BY <1>3 DEF ToolCrash, ClientOK, Asking
  <2>4. SignalledWhenOver'
    <3>1. closed \in OpIds \cup {NoOp}
      BY DEF Orderly, Safe, ToolTypeOK, ActivityTypes
    <3> QED BY <1>1, <1>3, <3>1 DEF ToolCrash, Orderly, SignalledWhenOver
  <2>5. KeptUntilSwitch /\ (orderly' => SettledOK')
    BY <1>1 DEF KeptUntilSwitch, Orderly, SettledOK
  <2> QED BY <1>1, <2>1, <2>2, <2>3, <2>4, <2>5 DEF Orderly
<1> QED BY <1>2, <1>3

LEMMA OrderlyNext == Orderly /\ [ToolNext]_toolVars => Orderly' /\ KeptUntilSwitch
<1>1. ASSUME Orderly, UNCHANGED toolVars PROVE Orderly' /\ KeptUntilSwitch
  <2>1. Safe'
    BY <1>1, SafeNext DEF Orderly
  <2> QED BY <1>1, <2>1
          DEF Orderly, StageOK, Stage, SettledOK, SignalledWhenOver, OperationOK, VersionOf,
              Undone, ClientOK, KeptUntilSwitch, toolVars, toolDisk, activity, requests, toolHistory
<1> QED BY <1>1, OrderlyGate, OrderlyRequest, OrderlyStep DEF ToolNext

\* An operation that opens the gate leaves the old version or the new one, as it says.
THEOREM ToolAllOrNothing == ToolSpec => []AllOrNothing
<1>1. Orderly => AllOrNothing
  <2>1. ASSUME Orderly, orderly, NEW o \in OpIds, toolPc[o] = "release"
        PROVE  current = IF outcome[o] = "done" THEN job[o].target
                         ELSE IF job[o].base = NoVersion /\ o \in activated THEN job[o].target
                         ELSE job[o].base
    BY <2>1 DEF Orderly, OperationOK, StageOK, Stage, VersionOf, Undone, AtWork
  <2> QED BY <2>1 DEF AllOrNothing
<1> QED BY OrderlyInit, OrderlyNext, <1>1, PTL DEF ToolSpec

\* Nobody takes back what was completed.
THEOREM ToolCompletedKept == ToolSpec => CompletedKept
<1>1. Orderly /\ [ToolNext]_toolVars => [KeptUntilSwitch]_toolVars
  BY OrderlyNext
<1> QED BY OrderlyInit, OrderlyNext, <1>1, PTL DEF ToolSpec, CompletedKept

\* A done channel is closed when all of its operation is over.
THEOREM ToolSignalledWhenOver == ToolSpec => []SignalledWhenOver
<1>1. Orderly => SignalledWhenOver
  BY DEF Orderly, SignalledWhenOver
<1> QED BY OrderlyInit, OrderlyNext, <1>1, PTL DEF ToolSpec
\* What RefusedChangesNothing promises holds as long as requests act one after the other:
\* an operation that has not switched started from the version in use, and to put that
\* back changes nothing (restoreVersion; the run tool_refused shows two that crossed).
THEOREM ToolRefusedLeaves == ToolSpec => [][orderly => RefusedLeaves]_toolVars
<1>1. ASSUME Orderly, ToolNext, orderly, NEW o \in OpIds \ activated,
             toolPc[o] = "restore", toolPc'[o] # toolPc[o]
      PROVE  current' = current
  <2>0. ToolTypeOK
    BY <1>1 DEF Orderly, Safe
  <2>1. CASE Acquire \/ ReleaseCall \/ ToolCrash
    BY <1>1, <2>1 DEF Acquire, ReleaseCall, ToolCrash, toolDisk
  <2>2. ASSUME NEW p \in OpIds, OpStep(p) PROVE current' = current
    <3>1. p = o
      BY <1>1, <2>0, <2>2, StepEffects DEF StepEffect, FrameEffect
    <3>2. current = job[o].base
      BY <1>1 DEF Orderly, OperationOK, VersionOf, AtWork
    <3> QED BY <1>1, <2>0, <2>2, <3>1, <3>2, StepEffects DEF StepEffect, FileEffect
  <2>3. ASSUME NEW c \in Askers, Request(c) PROVE current' = current
    <3>1. BeginUpdate(c)
      BY <1>1, <2>0, <2>3, RequestEffects DEF RequestEffect
    <3> QED BY <3>1 DEF BeginUpdate, toolDisk
  <2> QED BY <1>1, <2>1, <2>2, <2>3 DEF ToolNext
<1>2. ASSUME Orderly, [ToolNext]_toolVars PROVE [orderly => RefusedLeaves]_toolVars
  BY <1>1, <1>2 DEF RefusedLeaves
<1> QED BY OrderlyInit, OrderlyNext, <1>2, PTL DEF ToolSpec
=============================================================================
