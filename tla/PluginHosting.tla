---------------------------- MODULE PluginHosting ---------------------------
(***************************************************************************)
(* The process of a resident system plugin (system-plugin-system:          *)
(* hosting.go, activity.go, lifecycle_switch.go, serving.go, session.go    *)
(* and the lifecycle part of operation.go).  Calls, the enabling switch,   *)
(* an operation that replaced the program and the watcher of a process     *)
(* that exited may all start the process; the switch, an operation and the *)
(* shutdown stop it.  Nobody of them holds a lock while the process starts *)
(* or stops.                                                               *)
(***************************************************************************)
EXTENDS Naturals, FiniteSets

CONSTANTS
    Requests,       \* concurrent calls, switches, operations and the shutdown
    MaxSessions,    \* bound: processes started
    MaxProgram,     \* bound: versions of the program
    MaxRequests,    \* bound: requests made
    MaxExits        \* bound: processes that exit on their own or are found hanging

ASSUME HostAssumption ==
    /\ {MaxSessions, MaxProgram, MaxRequests, MaxExits} \subseteq Nat
    /\ IsFiniteSet(Requests)
    /\ Requests \cap (1 .. MaxSessions) = {}
    /\ 0 \notin Requests

VARIABLES
    enabled,        \* the switch, in the plugin's state file
    program,        \* the version of the program in use
    resident,       \* residents[pluginID]: a session, or Nobody
    process,        \* the process of a session: "new", "running" or "exited"
    release,        \* the version of the program a session runs
    stopping,       \* sessions the host has told to stop
    killed,         \* sessions the host has killed
    updating,       \* updating of the activity
    activeRequests, \* calls the activity counts
    lifecycle,      \* lifecycleMu: who enables or disables the plugin, or Nobody
    shuttingDown,
    place, kind,    \* where a request or the watcher of a session is, and what it does
    fact,           \* the record it discovered
    mine, theirs,   \* the session it starts or stops, and the one it uses
    exits,
    requests,       \* how many there were
    crossed         \* history: see Crosses

hostDisk == <<enabled, program>>
hostSessions == <<resident, process, release, stopping, killed, exits>>
hostGate == <<updating, activeRequests, lifecycle, shuttingDown>>
hostActors == <<place, kind, fact, mine, theirs>>
hostHistory == <<requests, crossed>>
hostVars == <<hostDisk, hostSessions, hostGate, hostActors, hostHistory>>

PluginSessions == 1 .. MaxSessions
Nobody == 0
Actors == Requests \cup PluginSessions
Programs == 1 .. MaxProgram
Uses == {"none", "call", "enable", "disable", "update", "shutdown", "watch"}

\* Where an actor has discovered the plugin and may still start a session, and the
\* places before and after.
Starts == {"look", "start", "register", "yield"}
Halts == {"take", "tell", "await"}
Steps == Starts \cup Halts \cup {"idle", "gate", "invoke", "release", "lock", "save", "drain",
             "program", "end", "restore", "unlock", "watch", "delay", "discover", "check"}

Unknown == [on |-> FALSE, version |-> 1]
Discovered == [on |-> enabled, version |-> program]

HostInit ==
    /\ enabled \in BOOLEAN
    /\ program = 1
    /\ resident = Nobody
    /\ process = [i \in PluginSessions |-> "new"]
    /\ release = [i \in PluginSessions |-> 1]
    /\ stopping = {}
    /\ killed = {}
    /\ updating = FALSE
    /\ activeRequests = 0
    /\ lifecycle = Nobody
    /\ shuttingDown = FALSE
    /\ place = [a \in Actors |-> "idle"]
    /\ kind = [a \in Actors |-> "none"]
    /\ fact = [a \in Actors |-> Unknown]
    /\ mine = [a \in Actors |-> Nobody]
    /\ theirs = [a \in Actors |-> Nobody]
    /\ exits = 0
    /\ requests = 0
    /\ crossed = FALSE

To(a, p) == place' = [place EXCEPT ![a] = p]

\* The goroutine of an actor ends, and what it knew is gone.
Leave(a) ==
    /\ To(a, "idle")
    /\ kind' = [kind EXCEPT ![a] = "none"]
    /\ fact' = [fact EXCEPT ![a] = Unknown]
    /\ mine' = [mine EXCEPT ![a] = Nobody]
    /\ theirs' = [theirs EXCEPT ![a] = Nobody]

Become(a, k, p) ==
    /\ place[a] = "idle"
    /\ requests < MaxRequests
    /\ requests' = requests + 1
    /\ kind' = [kind EXCEPT ![a] = k]
    /\ To(a, p)

\* A call that is counted by the activity.
Counted(a) == kind[a] = "call" /\ place[a] \in Starts \cup {"invoke", "release"}

\* History: when the switch is turned off or an operation begins, an actor is at a place
\* where it may go on with what it discovered, or found not to be updating, before, and
\* nothing in the code keeps it back.  Taken broadly: any actor there counts, also one that
\* will look again or has discovered nothing that matters.
Crosses(a) ==
    \E b \in Actors \ {a} :
        /\ ~Counted(b)
        /\ \/ place[b] \in Starts \cup {"gate", "check", "restore", "end"}
           \/ kind[b] = "enable" /\ place[b] \in {"lock", "save"}

-----------------------------------------------------------------------------
(***************************************************************************)
(* ensureResidentSession, for whoever wants the plugin to run.             *)
(***************************************************************************)

\* What its callers do after it: a call is made, the switch is given back, an operation
\* and a watcher are over.
Proceed(a) ==
    CASE kind[a] = "call" -> To(a, "invoke") /\ UNCHANGED <<kind, fact>>
      [] kind[a] = "enable" -> To(a, "unlock") /\ UNCHANGED <<kind, fact>>
      [] OTHER -> /\ To(a, "idle")
                  /\ kind' = [kind EXCEPT ![a] = "none"]
                  /\ fact' = [fact EXCEPT ![a] = Unknown]

Use(a, i) ==
    /\ theirs' = [theirs EXCEPT ![a] = IF kind[a] = "call" THEN i ELSE Nobody]
    /\ mine' = [mine EXCEPT ![a] = Nobody]

\* The table is looked at, and the lock is given back.
Look(a) ==
    /\ place[a] = "look"
    /\ IF resident = Nobody THEN To(a, "start") /\ UNCHANGED <<kind, fact, mine, theirs>>
       ELSE Use(a, resident) /\ Proceed(a)
    /\ UNCHANGED <<hostDisk, hostSessions, hostGate, hostHistory>>

\* The data is migrated, the process started and asked for its capabilities; any of it
\* may fail, and a call that failed is released.
StartSession(a) ==
    /\ place[a] = "start"
    /\ \/ \E i \in PluginSessions :
            /\ process[i] = "new"
            /\ \A j \in PluginSessions : j < i => process[j] # "new"
            /\ process' = [process EXCEPT ![i] = "running"]
            /\ release' = [release EXCEPT ![i] = fact[a].version]
            /\ mine' = [mine EXCEPT ![a] = i]
            /\ To(a, "register")
            /\ UNCHANGED <<kind, fact, theirs>>
       \/ /\ IF kind[a] = "call" THEN To(a, "release") /\ UNCHANGED <<kind, fact>> ELSE Proceed(a)
          /\ UNCHANGED <<process, release, mine, theirs>>
    /\ UNCHANGED <<hostDisk, resident, stopping, killed, exits, hostGate, hostHistory>>

\* The table is looked at again; a session somebody else registered wins, and otherwise
\* this one gets a watcher.
\* Mutant: it is registered whatever the table says.
RegisterOver(a) ==
    /\ place[a] = "register"
    /\ resident' = mine[a]
    /\ theirs' = [theirs EXCEPT ![a] = IF kind[a] = "call" THEN mine[a] ELSE Nobody]
    /\ mine' = [mine EXCEPT ![a] = Nobody]
    /\ LET w == mine[a]
           next == CASE kind[a] = "call" -> "invoke"
                   [] kind[a] = "enable" -> "unlock"
                   [] OTHER -> "idle"
       IN  /\ place' = [place EXCEPT ![a] = next, ![w] = "watch"]
           /\ kind' = [kind EXCEPT ![w] = "watch", ![a] = IF next = "idle" THEN "none" ELSE @]
           /\ fact' = [fact EXCEPT ![a] = IF next = "idle" THEN Unknown ELSE @]
    /\ UNCHANGED <<hostDisk, process, release, stopping, killed, exits, hostGate, hostHistory>>

RegisterSession(a) ==
    LET w == mine[a]
        next == CASE kind[a] = "call" -> "invoke"
                   [] kind[a] = "enable" -> "unlock"
                   [] OTHER -> "idle"
    IN
    /\ place[a] = "register"
    /\ IF resident = Nobody
       THEN /\ resident' = w
            /\ Use(a, w)
            /\ place' = [place EXCEPT ![a] = next, ![w] = "watch"]
            /\ kind' = [kind EXCEPT ![w] = "watch", ![a] = IF next = "idle" THEN "none" ELSE @]
            /\ fact' = [fact EXCEPT ![a] = IF next = "idle" THEN Unknown ELSE @]
            /\ UNCHANGED stopping
       ELSE /\ stopping' = stopping \cup {w}
            /\ theirs' = [theirs EXCEPT ![a] = resident]
            /\ To(a, "yield")
            /\ UNCHANGED <<resident, kind, fact, mine>>
    /\ UNCHANGED <<hostDisk, process, release, killed, exits, hostGate, hostHistory>>

\* stop with a context that never ends: it returns when the process is gone.
Yield(a) ==
    /\ place[a] = "yield"
    /\ \/ /\ process[mine[a]] = "exited"
          /\ Use(a, theirs[a])
          /\ Proceed(a)
          /\ UNCHANGED killed
       \/ /\ killed' = killed \cup {mine[a]}
          /\ UNCHANGED hostActors
    /\ UNCHANGED <<hostDisk, resident, process, release, stopping, exits, hostGate, hostHistory>>

-----------------------------------------------------------------------------
(***************************************************************************)
(* stopResidentSession, for the switch, an operation and the shutdown.     *)
(***************************************************************************)

\* What its callers do after it.
Halted(a) ==
    CASE kind[a] = "disable" -> To(a, "unlock") /\ UNCHANGED <<kind, fact>>
      [] kind[a] = "update" -> /\ \/ To(a, "program") \/ To(a, "end")
                               /\ UNCHANGED <<kind, fact>>
      [] OTHER -> /\ To(a, "idle")
                  /\ kind' = [kind EXCEPT ![a] = "none"]
                  /\ fact' = [fact EXCEPT ![a] = Unknown]

\* History: the switch stops the process although a counted call goes on.
Take(a) ==
    /\ place[a] = "take"
    /\ resident' = Nobody
    /\ IF resident = Nobody THEN Halted(a) /\ UNCHANGED mine
       ELSE /\ mine' = [mine EXCEPT ![a] = resident]
            /\ To(a, "tell")
            /\ UNCHANGED <<kind, fact>>
    /\ crossed' = (crossed \/ (kind[a] = "disable" /\ activeRequests > 0))
    /\ UNCHANGED <<requests, hostDisk, process, release, stopping, killed, exits, hostGate, theirs>>

Tell(a) ==
    /\ place[a] = "tell"
    /\ stopping' = stopping \cup {mine[a]}
    /\ To(a, "await")
    /\ UNCHANGED <<hostDisk, resident, process, release, killed, exits, hostGate, kind, fact,
                   mine, theirs, hostHistory>>

\* It returns when the process is gone, or when its context has ended and the process is
\* killed.
Await(a) ==
    /\ place[a] = "await"
    /\ \/ process[mine[a]] = "exited" /\ UNCHANGED killed
       \/ killed' = killed \cup {mine[a]}
    /\ mine' = [mine EXCEPT ![a] = Nobody]
    /\ Halted(a)
    /\ UNCHANGED <<hostDisk, resident, process, release, stopping, exits, hostGate, theirs,
                   hostHistory>>

-----------------------------------------------------------------------------
(***************************************************************************)
(* A call: discover, acquireServing, invokeCapability, releaseServing.     *)
(***************************************************************************)
CallPlugin(r) ==
    /\ Become(r, "call", "gate")
    /\ fact' = [fact EXCEPT ![r] = Discovered]
    /\ UNCHANGED <<hostDisk, hostSessions, hostGate, mine, theirs, crossed>>

\* Mutant: the gate of the activity is not looked at.
AcquireBlindly(r) ==
    /\ place[r] = "gate"
    /\ IF ~fact[r].on THEN Leave(r) /\ UNCHANGED activeRequests
       ELSE /\ activeRequests' = activeRequests + 1
            /\ To(r, "look")
            /\ UNCHANGED <<kind, fact, mine, theirs>>
    /\ UNCHANGED <<hostDisk, hostSessions, updating, lifecycle, shuttingDown, hostHistory>>

AcquireServing(r) ==
    /\ place[r] = "gate"
    /\ IF ~fact[r].on \/ updating THEN Leave(r) /\ UNCHANGED activeRequests
       ELSE /\ activeRequests' = activeRequests + 1
            /\ To(r, "look")
            /\ UNCHANGED <<kind, fact, mine, theirs>>
    /\ UNCHANGED <<hostDisk, hostSessions, updating, lifecycle, shuttingDown, hostHistory>>

\* invoke: an answer or a cancellation leaves the session alone, a timeout or a broken
\* channel kills it.
Invoke(r) ==
    /\ place[r] = "invoke"
    /\ \/ process[theirs[r]] = "running" /\ UNCHANGED <<killed, exits>>
       \/ process[theirs[r]] = "exited" /\ killed' = killed \cup {theirs[r]} /\ UNCHANGED exits
       \/ /\ exits < MaxExits
          /\ exits' = exits + 1
          /\ killed' = killed \cup {theirs[r]}
    /\ To(r, "release")
    /\ UNCHANGED <<hostDisk, resident, process, release, stopping, hostGate, kind, fact, mine,
                   theirs, hostHistory>>

\* Mutant: the call stays counted.
ReleaseNothing(r) ==
    /\ place[r] = "release"
    /\ Leave(r)
    /\ UNCHANGED <<hostDisk, hostSessions, hostGate, hostHistory>>

ReleaseServing(r) ==
    /\ place[r] = "release"
    /\ activeRequests' = IF activeRequests > 0 THEN activeRequests - 1 ELSE 0
    /\ Leave(r)
    /\ UNCHANGED <<hostDisk, hostSessions, updating, lifecycle, shuttingDown, hostHistory>>

-----------------------------------------------------------------------------
(***************************************************************************)
(* The switch: EnablePlugin and DisablePlugin.                             *)
(***************************************************************************)

\* Neither begins during an operation; that is looked at once.
\* Mutant: that is not looked at.
SwitchAnyway(r, k) ==
    /\ Become(r, k, "lock")
    /\ UNCHANGED <<hostDisk, hostSessions, hostGate, fact, mine, theirs, crossed>>

Switch(r, k) ==
    /\ ~updating
    /\ Become(r, k, "lock")
    /\ UNCHANGED <<hostDisk, hostSessions, hostGate, fact, mine, theirs, crossed>>

TryLock(r) ==
    /\ place[r] = "lock"
    /\ IF lifecycle # Nobody THEN Leave(r) /\ UNCHANGED lifecycle
       ELSE /\ lifecycle' = r
            /\ To(r, "save")
            /\ UNCHANGED <<kind, fact, mine, theirs>>
    /\ UNCHANGED <<hostDisk, hostSessions, updating, activeRequests, shuttingDown, hostHistory>>

SaveFails(r) ==
    /\ place[r] = "save"
    /\ To(r, "unlock")
    /\ UNCHANGED <<hostDisk, hostSessions, hostGate, kind, fact, mine, theirs, hostHistory>>

SaveState(r) ==
    /\ place[r] = "save"
    /\ enabled' = (kind[r] = "enable")
    /\ To(r, IF kind[r] = "enable" THEN "restore" ELSE "drain")
    /\ crossed' = (crossed \/ (kind[r] = "disable" /\ Crosses(r)))
    /\ UNCHANGED <<requests, program, hostSessions, hostGate, kind, fact, mine, theirs>>

Unlock(r) ==
    /\ place[r] = "unlock"
    /\ lifecycle' = Nobody
    /\ Leave(r)
    /\ UNCHANGED <<hostDisk, hostSessions, updating, activeRequests, shuttingDown, hostHistory>>

-----------------------------------------------------------------------------
(***************************************************************************)
(* An operation on the program: beginUpdate, runPluginOperationAsync and   *)
(* restorePluginLifecycle.                                                 *)
(***************************************************************************)
BeginUpdate(r) ==
    /\ ~updating
    /\ Become(r, "update", "drain")
    /\ updating' = TRUE
    /\ crossed' = (crossed \/ Crosses(r))
    /\ UNCHANGED <<hostDisk, hostSessions, activeRequests, lifecycle, shuttingDown, fact, mine,
                   theirs>>

\* waitForIdle of the switch and the wait of beginUpdate: for the calls that are counted,
\* and not for ever.  An operation that waited in vain gives up, the switch goes on.
Drain(r) ==
    /\ place[r] = "drain"
    /\ \/ /\ activeRequests = 0 \/ kind[r] = "disable"
          /\ To(r, "take")
          /\ UNCHANGED <<updating, kind, fact, mine, theirs>>
       \/ /\ kind[r] = "update"
          /\ updating' = FALSE
          /\ Leave(r)
    /\ UNCHANGED <<hostDisk, hostSessions, activeRequests, lifecycle, shuttingDown, hostHistory>>

\* The program is replaced, or the operation failed or was cancelled.
Replace(r) ==
    /\ place[r] = "program"
    /\ \/ program < MaxProgram /\ program' = program + 1
       \/ UNCHANGED program
    /\ To(r, "end")
    /\ crossed' = (crossed \/ Crosses(r))
    /\ UNCHANGED <<requests, enabled, hostSessions, hostGate, kind, fact, mine, theirs>>

\* endUpdate opens the gate before the lifecycle is restored.
EndPluginUpdate(r) ==
    /\ place[r] = "end"
    /\ updating' = FALSE
    /\ To(r, "restore")
    /\ UNCHANGED <<hostDisk, hostSessions, activeRequests, lifecycle, shuttingDown, kind, fact,
                   mine, theirs, hostHistory>>

\* restorePluginLifecycle discovers the plugin anew.
\* Mutant: it starts a plugin that is off.
RestoreAlways(a) ==
    /\ place[a] = "restore"
    /\ fact' = [fact EXCEPT ![a] = Discovered]
    /\ To(a, "look")
    /\ UNCHANGED <<hostDisk, hostSessions, hostGate, kind, mine, theirs, hostHistory>>

\* Mutant: it starts the version there was before the operation.
RestoreStale(a) ==
    /\ place[a] = "restore"
    /\ IF enabled THEN To(a, "look") /\ UNCHANGED <<kind, fact>> ELSE Proceed(a)
    /\ UNCHANGED <<hostDisk, hostSessions, hostGate, mine, theirs, hostHistory>>

RestoreLifecycle(a) ==
    /\ place[a] = "restore"
    /\ \/ /\ enabled
          /\ fact' = [fact EXCEPT ![a] = Discovered]
          /\ To(a, "look")
          /\ UNCHANGED kind
       \/ /\ ~enabled
          /\ Proceed(a)
    /\ UNCHANGED <<hostDisk, hostSessions, hostGate, mine, theirs, hostHistory>>

-----------------------------------------------------------------------------
(***************************************************************************)
(* The process, its watcher, and the shutdown.                             *)
(***************************************************************************)
Exit(i) ==
    /\ process[i] = "running"
    /\ \/ i \in stopping \cup killed /\ UNCHANGED exits
       \/ exits < MaxExits /\ exits' = exits + 1
    /\ process' = [process EXCEPT ![i] = "exited"]
    /\ UNCHANGED <<hostDisk, resident, release, stopping, killed, hostGate, hostActors,
                   hostHistory>>

\* watchResident: a session the host stopped is not replaced.
Watch(i) ==
    /\ place[i] = "watch"
    /\ process[i] = "exited"
    /\ resident' = IF resident = i THEN Nobody ELSE resident
    /\ IF i \in stopping \/ shuttingDown THEN Leave(i)
       ELSE To(i, "delay") /\ UNCHANGED <<kind, fact, mine, theirs>>
    /\ UNCHANGED <<hostDisk, process, release, stopping, killed, exits, hostGate, hostHistory>>

Delay(i) ==
    /\ place[i] = "delay"
    /\ IF shuttingDown THEN Leave(i)
       ELSE To(i, "discover") /\ UNCHANGED <<kind, fact, mine, theirs>>
    /\ UNCHANGED <<hostDisk, hostSessions, hostGate, hostHistory>>

\* restartResident: the plugin is discovered, and then the activity is looked at.
Discover(i) ==
    /\ place[i] = "discover"
    /\ IF ~enabled THEN Leave(i)
       ELSE /\ fact' = [fact EXCEPT ![i] = Discovered]
            /\ To(i, "check")
            /\ UNCHANGED <<kind, mine, theirs>>
    /\ UNCHANGED <<hostDisk, hostSessions, hostGate, hostHistory>>

CheckIdle(i) ==
    /\ place[i] = "check"
    /\ IF updating THEN Leave(i)
       ELSE To(i, "look") /\ UNCHANGED <<kind, fact, mine, theirs>>
    /\ UNCHANGED <<hostDisk, hostSessions, hostGate, hostHistory>>

Shutdown(r) ==
    /\ ~shuttingDown
    /\ Become(r, "shutdown", "take")
    /\ shuttingDown' = TRUE
    /\ UNCHANGED <<hostDisk, hostSessions, updating, activeRequests, lifecycle, fact, mine, theirs,
                   crossed>>

-----------------------------------------------------------------------------
Ensure(a) == Look(a) \/ StartSession(a) \/ RegisterSession(a) \/ Yield(a)
Halt(a) == Take(a) \/ Tell(a) \/ Await(a)

HostNext ==
    \/ \E a \in Actors : Ensure(a)
    \/ \E r \in Requests :
         \/ Halt(r)
         \/ CallPlugin(r) \/ AcquireServing(r) \/ Invoke(r) \/ ReleaseServing(r)
         \/ \E k \in {"enable", "disable"} : Switch(r, k)
         \/ TryLock(r) \/ SaveState(r) \/ SaveFails(r) \/ Unlock(r)
         \/ BeginUpdate(r) \/ Drain(r) \/ Replace(r) \/ EndPluginUpdate(r)
         \/ RestoreLifecycle(r) \/ Shutdown(r)
    \/ \E i \in PluginSessions : Exit(i) \/ Watch(i) \/ Delay(i) \/ Discover(i) \/ CheckIdle(i)

HostSpec == HostInit /\ [][HostNext]_hostVars

-----------------------------------------------------------------------------
(***************************************************************************)
(* Properties.                                                             *)
(***************************************************************************)

\* The types of the variables.
HostTypeOK ==
    /\ enabled \in BOOLEAN
    /\ program \in Programs \cup {1}
    /\ resident \in PluginSessions \cup {Nobody}
    /\ process \in [PluginSessions -> {"new", "running", "exited"}]
    /\ release \in [PluginSessions -> Programs \cup {1}]
    /\ stopping \subseteq PluginSessions
    /\ killed \subseteq PluginSessions
    /\ updating \in BOOLEAN
    /\ activeRequests \in 0 .. Cardinality(Requests)
    /\ lifecycle \in Requests \cup {Nobody}
    /\ shuttingDown \in BOOLEAN
    /\ place \in [Actors -> Steps]
    /\ kind \in [Actors -> Uses]
    /\ fact \in [Actors -> [on : BOOLEAN, version : Programs \cup {1}]]
    /\ mine \in [Actors -> PluginSessions \cup {Nobody}]
    /\ theirs \in [Actors -> PluginSessions \cup {Nobody}]
    /\ exits \in 0 .. MaxExits
    /\ requests \in 0 .. MaxRequests
    /\ crossed \in BOOLEAN

\* No process is lost: one that runs and was not told to stop is in the table, with a
\* watcher that will notice its end, or in the hands of somebody who registers or stops
\* it (ensureResidentSession looks twice, stopResidentSession takes before it stops).
NoLostProcess ==
    \A i \in PluginSessions \ (stopping \cup killed) : process[i] = "running" =>
        \/ resident = i /\ place[i] = "watch"
        \/ \E a \in Actors : mine[a] = i /\ place[a] \in {"register", "tell"}

\* The program is not replaced under a call (acquire and beginUpdate).
CallsOutsideUpdates ==
    \A r \in Requests : kind[r] = "update" /\ place[r] \in {"take", "tell", "await", "program"} =>
        updating /\ activeRequests = 0 /\ ~\E b \in Requests : Counted(b)

\* A plugin that was switched off has no resident process, unless somebody acted on what
\* it discovered before (DisablePlugin saves first, then waits, then stops).
OffWhenDisabled == ~crossed /\ ~enabled /\ lifecycle = Nobody => resident = Nobody

\* While the program is replaced no process of it is in the table, with the same exception
\* (restartResident and the switch look at the activity, endUpdate comes before the restore).
StoppedWhileReplaced ==
    ~crossed => \A r \in Requests : place[r] = "program" => resident = Nobody

\* The resident process runs the version in use, with the same exception.
RunsCurrent == ~crossed /\ resident # Nobody => release[resident] = program
=============================================================================
