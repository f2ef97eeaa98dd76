------------------------- MODULE PluginHostingProofs ------------------------
(***************************************************************************)
(* Proofs about PluginHosting, for every number of requests, of processes  *)
(* and of versions.                                                        *)
(***************************************************************************)
EXTENDS PluginHosting, FiniteSetTheorems, TLAPS

-----------------------------------------------------------------------------
(***************************************************************************)
(* The inductive invariant.                                                *)
(***************************************************************************)

Facts == [on : BOOLEAN, version : Programs \cup {1}]

\* The types; what bounds the counted calls is CountOK.
HostTypes ==
    /\ enabled \in BOOLEAN
    /\ program \in Programs \cup {1}
    /\ resident \in PluginSessions \cup {Nobody}
    /\ process \in [PluginSessions -> {"new", "running", "exited"}]
    /\ release \in [PluginSessions -> Programs \cup {1}]
    /\ stopping \subseteq PluginSessions
    /\ killed \subseteq PluginSessions
    /\ updating \in BOOLEAN
    /\ activeRequests \in Nat
    /\ lifecycle \in Requests \cup {Nobody}
    /\ shuttingDown \in BOOLEAN
    /\ place \in [Actors -> Steps]
    /\ kind \in [Actors -> Uses]
    /\ fact \in [Actors -> Facts]
    /\ mine \in [Actors -> PluginSessions \cup {Nobody}]
    /\ theirs \in [Actors -> PluginSessions \cup {Nobody}]
    /\ exits \in 0 .. MaxExits
    /\ requests \in 0 .. MaxRequests
    /\ crossed \in BOOLEAN

\* Where an actor of each kind can be, and what it holds there.
AtHome(a) ==
    /\ kind[a] = "none" => place[a] = "idle"
    /\ kind[a] = "call" => place[a] \in Starts \cup {"gate", "invoke", "release"}
    /\ kind[a] = "enable" => place[a] \in Starts \cup {"lock", "save", "restore", "unlock"}
    /\ kind[a] = "disable" => place[a] \in Halts \cup {"lock", "save", "drain", "unlock"}
    /\ kind[a] = "update" =>
         place[a] \in Starts \cup Halts \cup {"drain", "program", "end", "restore"}
    /\ kind[a] = "shutdown" => place[a] \in Halts
    /\ kind[a] = "watch" => place[a] \in Starts \cup {"watch", "delay", "discover", "check"}
    /\ a \in PluginSessions => kind[a] \in {"none", "watch"}
    /\ a \in Requests => kind[a] # "watch"
    /\ place[a] \in {"register", "yield", "tell", "await"} => mine[a] # Nobody
    /\ place[a] \in {"yield", "invoke"} => theirs[a] # Nobody

\* A session is started once, and registered by the one that started it.
Unregistered ==
    /\ \A i \in PluginSessions : process[i] = "new" => place[i] = "idle" /\ resident # i
    /\ \A a \in Actors : place[a] = "register" =>
         mine[a] # resident /\ process[mine[a]] # "new" /\ place[mine[a]] = "idle"
    /\ \A a, b \in Actors :
         place[a] = "register" /\ place[b] = "register" /\ mine[a] = mine[b] => a = b

\* An operation under way has closed the gate, and it is the only one.
Replacing(r) == kind[r] = "update" /\ place[r] \in Halts \cup {"program", "end"}
Operating(r) == Replacing(r) \/ (kind[r] = "update" /\ place[r] = "drain")

GateOK ==
    /\ \A r \in Requests : Operating(r) => updating
    /\ \A r, q \in Requests : Operating(r) /\ Operating(q) => r = q
    /\ \A r \in Requests : Replacing(r) => activeRequests = 0

Callers == {r \in Requests : Counted(r)}
CountOK == activeRequests = Cardinality(Callers)

Control == HostTypes /\ (\A a \in Actors : AtHome(a)) /\ Unregistered

HostInv == Control /\ CountOK /\ GateOK /\ NoLostProcess

-----------------------------------------------------------------------------
LEMMA SessionsApart ==
  /\ PluginSessions \subseteq Actors /\ Requests \subseteq Actors
  /\ PluginSessions \cap Requests = {}
  /\ Nobody \notin PluginSessions /\ Nobody \notin Requests
  BY HostAssumption DEF PluginSessions, Actors, Nobody

LEMMA FactsKnown ==
  /\ Unknown \in Facts
  /\ HostTypes => Discovered \in Facts
  BY DEF Unknown, Discovered, Facts, HostTypes

LEMMA ControlInit == HostInit => Control
  <1> SUFFICES ASSUME HostInit PROVE Control
    OBVIOUS
  <1>1. HostTypes
    <2>1. MaxExits \in Nat /\ MaxRequests \in Nat
      BY HostAssumption
    <2>2. fact \in [Actors -> Facts]
      BY FactsKnown DEF HostInit
    <2>3. place \in [Actors -> Steps] /\ kind \in [Actors -> Uses]
      BY DEF HostInit, Steps, Uses
    <2>4. exits \in 0 .. MaxExits /\ requests \in 0 .. MaxRequests /\ activeRequests \in Nat
      BY <2>1 DEF HostInit
    <2>5. /\ process \in [PluginSessions -> {"new", "running", "exited"}]
          /\ release \in [PluginSessions -> Programs \cup {1}]
          /\ mine \in [Actors -> PluginSessions \cup {Nobody}]
          /\ theirs \in [Actors -> PluginSessions \cup {Nobody}]
      BY DEF HostInit
    <2>6. /\ enabled \in BOOLEAN /\ updating \in BOOLEAN /\ shuttingDown \in BOOLEAN
          /\ crossed \in BOOLEAN
          /\ program \in Programs \cup {1}
          /\ resident \in PluginSessions \cup {Nobody} /\ lifecycle \in Requests \cup {Nobody}
          /\ stopping \subseteq PluginSessions /\ killed \subseteq PluginSessions
      BY DEF HostInit
    <2>. QED
      BY <2>2, <2>3, <2>4, <2>5, <2>6 DEF HostTypes
  <1>2. \A a \in Actors : AtHome(a)
    BY DEF HostInit, AtHome
  <1>3. Unregistered
    BY SessionsApart DEF HostInit, Unregistered
  <1>. QED
    BY <1>1, <1>2, <1>3 DEF Control

\* A step that moves one actor, to a place where it registers nothing.
Moves(a) ==
    /\ \A b \in Actors \ {a} : place'[b] = place[b] /\ kind'[b] = kind[b] /\ mine'[b] = mine[b]
                               /\ theirs'[b] = theirs[b]
    /\ place'[a] # "register"
    /\ UNCHANGED process

LEMMA ControlMoves ==
  ASSUME Control, HostTypes', NEW a \in Actors, Moves(a), AtHome(a)', resident' \in {resident, Nobody},
         a \in PluginSessions => place[a] # "idle"
  PROVE  Control'
  <1>1. ASSUME NEW b \in Actors PROVE AtHome(b)'
    <2>1. CASE b = a
      BY <2>1
    <2>2. CASE b # a
      <3>1. AtHome(b)
        BY DEF Control
      <3>. QED
        BY <2>2, <3>1 DEF Moves, AtHome
    <2>. QED
      BY <2>1, <2>2
  <1>2. \A i \in PluginSessions : process'[i] = "new" => place'[i] = "idle" /\ resident' # i
    BY SessionsApart DEF Control, Moves, Unregistered
  <1>3. \A b \in Actors : place'[b] = "register" => b # a /\ place[b] = "register"
    BY DEF Moves
  <1>4. \A b \in Actors : place[b] = "register" => mine[b] \in PluginSessions
    BY DEF Control, AtHome, HostTypes
  <1>5. \A b \in Actors : place'[b] = "register" =>
          mine'[b] # resident' /\ process'[mine'[b]] # "new" /\ place'[mine'[b]] = "idle"
    <2> SUFFICES ASSUME NEW b \in Actors, place'[b] = "register"
                 PROVE  mine'[b] # resident' /\ process'[mine'[b]] # "new" /\ place'[mine'[b]] = "idle"
      OBVIOUS
    <2>1. b # a /\ place[b] = "register" /\ mine'[b] = mine[b] /\ mine[b] \in PluginSessions
      BY <1>3, <1>4 DEF Moves
    <2>2. mine[b] # resident /\ process[mine[b]] # "new" /\ place[mine[b]] = "idle"
      BY <2>1 DEF Control, Unregistered
    <2>3. mine[b] # a /\ mine[b] # Nobody
      BY <2>1, <2>2, SessionsApart
    <2>. QED
      BY <2>1, <2>2, <2>3, SessionsApart DEF Moves
  <1>6. \A b, e \in Actors :
          place'[b] = "register" /\ place'[e] = "register" /\ mine'[b] = mine'[e] => b = e
    BY <1>3 DEF Control, Moves, Unregistered
  <1>. QED
    BY <1>1, <1>2, <1>5, <1>6 DEF Control, Unregistered

-----------------------------------------------------------------------------
(***************************************************************************)
(* What an actor does, one action after another.                           *)
(***************************************************************************)

\* It may start a session, or wait for one of its own to end.
LEMMA EnsureControl ==
  ASSUME Control, NEW a \in Actors, Look(a) \/ StartSession(a) \/ RegisterSession(a) \/ Yield(a)
  PROVE  Control'
  <1>. USE SessionsApart
  <1>1. HostTypes /\ AtHome(a)
    BY DEF Control
  <1>2. a \in PluginSessions => place[a] # "idle"
    BY DEF Look, StartSession, RegisterSession, Yield
  <1>3. CASE Look(a)
    <2>1. HostTypes'
      BY <1>1, <1>3, FactsKnown
         DEF Look, Use, Proceed, To, HostTypes, Steps, Starts, Halts, Uses, hostDisk, hostSessions, hostGate, hostHistory
    <2>2. Moves(a) /\ AtHome(a)' /\ resident' = resident
      BY <1>1, <1>3
         DEF Look, Use, Proceed, To, HostTypes, Starts, Halts, hostDisk, hostSessions, hostGate, hostHistory, Moves, AtHome
    <2>. QED
      BY <1>2, <2>1, <2>2, ControlMoves
  <1>4. CASE Yield(a)
    <2>1. HostTypes'
      BY <1>1, <1>4, FactsKnown
         DEF Yield, Use, Proceed, To, HostTypes, Steps, Starts, Halts, Uses, hostDisk, hostGate, hostHistory, hostActors, AtHome
    <2>2. Moves(a) /\ AtHome(a)' /\ resident' = resident
      BY <1>1, <1>4
         DEF Yield, Use, Proceed, To, HostTypes, Starts, Halts, hostDisk, hostGate, hostHistory, hostActors, Moves, AtHome
    <2>. QED
      BY <1>2, <2>1, <2>2, ControlMoves
  <1>5. CASE StartSession(a) /\ process' # process
    <2>1. PICK i \in PluginSessions :
            /\ process[i] = "new"
            /\ process' = [process EXCEPT ![i] = "running"]
            /\ release' = [release EXCEPT ![i] = fact[a].version]
            /\ mine' = [mine EXCEPT ![a] = i]
            /\ place' = [place EXCEPT ![a] = "register"]
            /\ UNCHANGED <<kind, fact, theirs, resident>>
      BY <1>5 DEF StartSession, To
    <2>2. HostTypes'
      BY <1>1, <1>5, <2>1 DEF StartSession, HostTypes, Steps, Starts, Halts, Facts, hostDisk, hostGate, hostHistory
    <2>3. \A b \in Actors : AtHome(b)'
      BY <1>1, <1>5, <2>1 DEF Control, StartSession, HostTypes, AtHome, Starts, Halts, hostDisk
    <2>4. Unregistered'
      <3>1. /\ \A j \in PluginSessions : process[j] = "new" => place[j] = "idle" /\ resident # j
            /\ \A b \in Actors : place[b] = "register" =>
                 mine[b] # resident /\ process[mine[b]] # "new" /\ place[mine[b]] = "idle"
        BY DEF Control, Unregistered
      <3>2. a # i /\ resident # i /\ place[i] = "idle" /\ place[a] = "start"
        BY <1>2, <1>5, <2>1, <3>1 DEF StartSession
      <3>3. \A b \in Actors \ {a} : place'[b] = place[b] /\ mine'[b] = mine[b]
        BY <1>1, <2>1 DEF HostTypes
      <3>4. place'[a] = "register" /\ mine'[a] = i
        BY <1>1, <2>1 DEF HostTypes
      <3>5. \A j \in PluginSessions : process'[j] = IF j = i THEN "running" ELSE process[j]
        BY <1>1, <2>1 DEF HostTypes
      <3>6. \A b \in Actors : place[b] = "register" => mine[b] \in PluginSessions /\ mine[b] # i
        BY <2>1, <3>1 DEF Control, AtHome, HostTypes
      <3>7. \A b \in Actors : place'[b] = "register" =>
              mine'[b] # resident' /\ process'[mine'[b]] # "new" /\ place'[mine'[b]] = "idle"
        <4> SUFFICES ASSUME NEW b \in Actors, place'[b] = "register"
                     PROVE  mine'[b] # resident' /\ process'[mine'[b]] # "new" /\ place'[mine'[b]] = "idle"
          OBVIOUS
        <4>1. CASE b = a
          BY <2>1, <3>2, <3>3, <3>4, <3>5, <4>1
        <4>2. CASE b # a
          <5>1. place[b] = "register" /\ mine'[b] = mine[b]
            BY <3>3, <4>2
          <5>2. mine[b] # a
            BY <3>1, <3>2, <5>1
          <5>. QED
            BY <2>1, <3>1, <3>3, <3>5, <3>6, <5>1, <5>2
        <4>. QED
          BY <4>1, <4>2
      <3>8. \A j \in PluginSessions : process'[j] = "new" => place'[j] = "idle" /\ resident' # j
        BY <2>1, <3>1, <3>2, <3>3, <3>5
      <3>9. \A b, e \in Actors :
              place'[b] = "register" /\ place'[e] = "register" /\ mine'[b] = mine'[e] => b = e
        BY <3>3, <3>4, <3>6 DEF Control, Unregistered
      <3>. QED
        BY <3>7, <3>8, <3>9 DEF Unregistered
    <2>. QED
      BY <2>2, <2>3, <2>4 DEF Control
  <1>6. CASE StartSession(a) /\ process' = process
    <2>1. HostTypes'
      BY <1>1, <1>6, FactsKnown
         DEF StartSession, Proceed, To, HostTypes, Steps, Starts, Halts, Uses, hostDisk, hostGate, hostHistory
    <2>2. Moves(a) /\ AtHome(a)' /\ resident' = resident
      BY <1>1, <1>6
         DEF StartSession, Proceed, To, HostTypes, Starts, Halts, hostDisk, hostGate, hostHistory, Moves, AtHome
    <2>. QED
      BY <1>2, <2>1, <2>2, ControlMoves
  <1>7. CASE RegisterSession(a) /\ resident # Nobody
    <2>1. HostTypes'
      BY <1>1, <1>7 DEF RegisterSession, To, HostTypes, Steps, Starts, Halts, AtHome, hostDisk, hostGate, hostHistory
    <2>2. Moves(a) /\ AtHome(a)' /\ resident' = resident
      BY <1>1, <1>7 DEF RegisterSession, To, HostTypes, Starts, Halts, AtHome, Moves
    <2>. QED
      BY <1>2, <2>1, <2>2, ControlMoves
  <1>8. CASE RegisterSession(a) /\ resident = Nobody
    <2>. DEFINE w == mine[a]
                next == CASE kind[a] = "call" -> "invoke" [] kind[a] = "enable" -> "unlock" [] OTHER -> "idle"
    <2>1. /\ resident' = w
          /\ Use(a, w)
          /\ place' = [place EXCEPT ![a] = next, ![w] = "watch"]
          /\ kind' = [kind EXCEPT ![w] = "watch", ![a] = IF next = "idle" THEN "none" ELSE @]
          /\ fact' = [fact EXCEPT ![a] = IF next = "idle" THEN Unknown ELSE @]
          /\ UNCHANGED <<stopping, hostDisk, process, release, killed, exits, hostGate, hostHistory>>
      BY <1>8 DEF RegisterSession
    <2>2. place[a] = "register" /\ w \in PluginSessions /\ place[w] = "idle" /\ process[w] # "new" /\ w # a
      BY <1>1, <1>8 DEF RegisterSession, AtHome, HostTypes, Control, Unregistered
    <2>3. HostTypes'
      BY <1>1, <2>1, <2>2, FactsKnown
         DEF Use, HostTypes, Steps, Starts, Halts, Uses, hostDisk, hostGate, hostHistory
    <2>4. ASSUME NEW b \in Actors PROVE AtHome(b)'
      <3>1. AtHome(b)
        BY DEF Control
      <3>. QED
        BY <1>1, <2>1, <2>2, <3>1 DEF Use, HostTypes, AtHome, Starts, Halts
    <2>5. Unregistered'
      BY <1>1, <2>1, <2>2 DEF Control, Unregistered, HostTypes, Use, AtHome
    <2>. QED
      BY <2>3, <2>4, <2>5 DEF Control
  <1>. QED
    BY <1>3, <1>4, <1>5, <1>6, <1>7, <1>8

LEMMA HaltControl ==
  ASSUME Control, NEW a \in Actors, Take(a) \/ Tell(a) \/ Await(a)
  PROVE  Control'
  <1>. USE SessionsApart
  <1>1. HostTypes /\ AtHome(a)
    BY DEF Control
  <1>2. a \in PluginSessions => place[a] # "idle"
    BY DEF Take, Tell, Await
  <1>3. CASE Take(a)
    <2>1. HostTypes'
      BY <1>1, <1>3, FactsKnown
         DEF Take, Halted, To, HostTypes, Steps, Starts, Halts, Uses, hostDisk, hostGate
    <2>2. Moves(a) /\ AtHome(a)' /\ resident' \in {resident, Nobody}
      BY <1>1, <1>3 DEF Take, Halted, To, HostTypes, Starts, Halts, Moves, AtHome
    <2>. QED
      BY <1>2, <2>1, <2>2, ControlMoves
  <1>4. CASE Tell(a)
    <2>1. HostTypes'
      BY <1>1, <1>4
         DEF Tell, To, HostTypes, Steps, Starts, Halts, AtHome, hostDisk, hostGate, hostHistory
    <2>2. Moves(a) /\ AtHome(a)' /\ resident' = resident
      BY <1>1, <1>4 DEF Tell, To, HostTypes, Starts, Halts, Moves, AtHome
    <2>. QED
      BY <1>2, <2>1, <2>2, ControlMoves
  <1>5. CASE Await(a)
    <2>1. HostTypes'
      BY <1>1, <1>5, FactsKnown
         DEF Await, Halted, To, HostTypes, Steps, Starts, Halts, Uses, AtHome, hostDisk, hostGate, hostHistory
    <2>2. Moves(a) /\ AtHome(a)' /\ resident' = resident
      BY <1>1, <1>5 DEF Await, Halted, To, HostTypes, Starts, Halts, Moves, AtHome
    <2>. QED
      BY <1>2, <2>1, <2>2, ControlMoves
  <1>. QED
    BY <1>3, <1>4, <1>5

\* The calls.
CallStep(r) == CallPlugin(r) \/ AcquireServing(r) \/ Invoke(r) \/ ReleaseServing(r)

LEMMA CallControl ==
  ASSUME Control, NEW r \in Requests, CallStep(r)
  PROVE  Control'
  <1>. USE SessionsApart
  <1>1. HostTypes /\ AtHome(r)
    BY DEF Control
  <1>2. MaxRequests \in Nat /\ MaxExits \in Nat
    BY HostAssumption
  <1>3. HostTypes'
    <2>1. CASE CallPlugin(r)
      BY <1>1, <1>2, <2>1, FactsKnown
         DEF CallPlugin, Become, To, HostTypes, Steps, Uses, hostDisk, hostSessions, hostGate
    <2>2. CASE AcquireServing(r)
      BY <1>1, <2>2, FactsKnown
         DEF AcquireServing, Leave, To, HostTypes, Steps, Starts, Uses, hostDisk, hostSessions, hostHistory
    <2>3. CASE Invoke(r)
      BY <1>1, <1>2, <2>3
         DEF Invoke, To, HostTypes, Steps, AtHome, hostDisk, hostGate, hostHistory
    <2>4. CASE ReleaseServing(r)
      BY <1>1, <2>4, FactsKnown
         DEF ReleaseServing, Leave, To, HostTypes, Steps, Uses, hostDisk, hostSessions, hostHistory
    <2>. QED
      BY <2>1, <2>2, <2>3, <2>4 DEF CallStep
  <1>4. Moves(r) /\ AtHome(r)' /\ resident' = resident
    BY <1>1 DEF CallStep, CallPlugin, AcquireServing, Invoke, ReleaseServing, Become, Leave, To, HostTypes,
                Starts, Halts, Moves, AtHome, hostSessions
  <1>. QED
    BY <1>3, <1>4, ControlMoves

\* The switch.
SwitchStep(r) ==
    (\E k \in {"enable", "disable"} : Switch(r, k)) \/ TryLock(r) \/ SaveState(r) \/ SaveFails(r)
    \/ Unlock(r)

LEMMA SwitchControl ==
  ASSUME Control, NEW r \in Requests, SwitchStep(r)
  PROVE  Control'
  <1>. USE SessionsApart
  <1>1. HostTypes /\ AtHome(r)
    BY DEF Control
  <1>2. MaxRequests \in Nat
    BY HostAssumption
  <1>3. HostTypes'
    <2>1. ASSUME NEW k \in {"enable", "disable"}, Switch(r, k) PROVE HostTypes'
      BY <1>1, <1>2, <2>1
         DEF Switch, Become, To, HostTypes, Steps, Uses, hostDisk, hostSessions, hostGate
    <2>2. CASE TryLock(r)
      BY <1>1, <2>2, FactsKnown
         DEF TryLock, Leave, To, HostTypes, Steps, Uses, hostDisk, hostSessions, hostHistory
    <2>3. CASE SaveState(r) \/ SaveFails(r)
      BY <1>1, <2>3
         DEF SaveState, SaveFails, To, HostTypes, Steps, hostDisk, hostSessions, hostGate, hostHistory
    <2>4. CASE Unlock(r)
      BY <1>1, <2>4, FactsKnown
         DEF Unlock, Leave, To, HostTypes, Steps, Uses, hostDisk, hostSessions, hostHistory
    <2>. QED
      BY <2>1, <2>2, <2>3, <2>4 DEF SwitchStep
  <1>4. Moves(r) /\ AtHome(r)' /\ resident' = resident
    <2>1. ASSUME NEW k \in {"enable", "disable"}, Switch(r, k)
          PROVE  Moves(r) /\ AtHome(r)' /\ resident' = resident
      BY <1>1, <2>1 DEF Switch, Become, To, HostTypes, Starts, Halts, Moves, AtHome, hostSessions
    <2>2. CASE TryLock(r) \/ Unlock(r)
      BY <1>1, <2>2
         DEF TryLock, Unlock, Leave, To, HostTypes, Starts, Halts, Moves, AtHome, hostSessions
    <2>3. CASE SaveState(r) \/ SaveFails(r)
      BY <1>1, <2>3
         DEF SaveState, SaveFails, To, HostTypes, Starts, Halts, Moves, AtHome, hostSessions
    <2>. QED
      BY <2>1, <2>2, <2>3 DEF SwitchStep
  <1>. QED
    BY <1>3, <1>4, ControlMoves

\* An operation, and the shutdown.
UpdateStep(r) ==
    BeginUpdate(r) \/ Drain(r) \/ Replace(r) \/ EndPluginUpdate(r) \/ RestoreLifecycle(r)
    \/ Shutdown(r)

LEMMA UpdateControl ==
  ASSUME Control, NEW r \in Requests, UpdateStep(r)
  PROVE  Control'
  <1>. USE SessionsApart
  <1>1. HostTypes /\ AtHome(r)
    BY DEF Control
  <1>2. MaxRequests \in Nat /\ MaxProgram \in Nat
    BY HostAssumption
  <1>3. HostTypes'
    <2>1. CASE BeginUpdate(r)
      BY <1>1, <1>2, <2>1
         DEF BeginUpdate, Become, To, HostTypes, Steps, Halts, Uses, hostDisk, hostSessions, Crosses
    <2>2. CASE Drain(r) /\ place'[r] = "idle"
      <3>1. Leave(r) /\ updating' = FALSE
        BY <1>1, <2>2 DEF Drain, To, HostTypes
      <3>. QED
        BY <1>1, <2>2, <3>1, FactsKnown
           DEF Drain, Leave, To, HostTypes, Steps, Uses, hostDisk, hostSessions, hostHistory
    <2>6. CASE Drain(r) /\ place'[r] # "idle"
      BY <1>1, <2>6
         DEF Drain, Leave, To, HostTypes, Steps, Halts, hostDisk, hostSessions, hostHistory
    <2>7. CASE Shutdown(r)
      BY <1>1, <1>2, <2>7
         DEF Shutdown, Become, To, HostTypes, Steps, Halts, Uses, hostDisk, hostSessions
    <2>3. CASE Replace(r)
      BY <1>1, <1>2, <2>3
         DEF Replace, To, HostTypes, Programs, Steps, hostSessions, hostGate
    <2>4. CASE EndPluginUpdate(r)
      BY <1>1, <2>4
         DEF EndPluginUpdate, To, HostTypes, Steps, hostDisk, hostSessions, hostHistory
    <2>5. CASE RestoreLifecycle(r)
      BY <1>1, <2>5, FactsKnown
         DEF RestoreLifecycle, Proceed, To, HostTypes, Steps, Starts, Uses, hostDisk, hostSessions,
             hostGate, hostHistory
    <2>. QED
      BY <2>1, <2>2, <2>3, <2>4, <2>5, <2>6, <2>7 DEF UpdateStep
  <1>4. Moves(r) /\ AtHome(r)' /\ resident' = resident
    <2>1. CASE BeginUpdate(r) \/ Shutdown(r)
      BY <1>1, <2>1
         DEF BeginUpdate, Shutdown, Become, To, HostTypes, Starts, Halts, Moves, AtHome, hostSessions
    <2>2. CASE Drain(r)
      BY <1>1, <2>2 DEF Drain, Leave, To, HostTypes, Starts, Halts, Moves, AtHome, hostSessions
    <2>3. CASE Replace(r) \/ EndPluginUpdate(r)
      BY <1>1, <2>3
         DEF Replace, EndPluginUpdate, To, HostTypes, Starts, Halts, Moves, AtHome, hostSessions
    <2>4. CASE RestoreLifecycle(r)
      BY <1>1, <2>4
         DEF RestoreLifecycle, Proceed, To, HostTypes, Starts, Halts, Moves, AtHome, hostSessions
    <2>. QED
      BY <2>1, <2>2, <2>3, <2>4 DEF UpdateStep
  <1>. QED
    BY <1>3, <1>4, ControlMoves

\* A process and its watcher.
WatchStep(i) == Watch(i) \/ Delay(i) \/ Discover(i) \/ CheckIdle(i)

LEMMA WatchControl ==
  ASSUME Control, NEW i \in PluginSessions, WatchStep(i)
  PROVE  Control'
  <1>. USE SessionsApart
  <1>1. HostTypes /\ AtHome(i)
    BY DEF Control
  <1>2. place[i] # "idle"
    BY DEF WatchStep, Watch, Delay, Discover, CheckIdle
  <1>3. HostTypes'
    BY <1>1, FactsKnown
       DEF WatchStep, Watch, Delay, Discover, CheckIdle, Leave, To, HostTypes, Steps, Starts, Uses,
           hostDisk, hostSessions, hostGate, hostHistory
  <1>4. Moves(i) /\ AtHome(i)' /\ resident' \in {resident, Nobody}
    BY <1>1 DEF WatchStep, Watch, Delay, Discover, CheckIdle, Leave, To, HostTypes, Starts, Halts,
                Moves, AtHome, hostSessions
  <1>. QED
    BY <1>2, <1>3, <1>4, ControlMoves

LEMMA ExitControl ==
  ASSUME Control, NEW i \in PluginSessions, Exit(i)
  PROVE  Control'
  <1>. USE SessionsApart
  <1>1. HostTypes
    BY DEF Control
  <1>2. MaxExits \in Nat
    BY HostAssumption
  <1>3. HostTypes'
    BY <1>1, <1>2 DEF Exit, HostTypes, hostDisk, hostGate, hostActors, hostHistory
  <1>4. (\A a \in Actors : AtHome(a)) => (\A a \in Actors : AtHome(a))'
    BY DEF Exit, hostActors, AtHome
  <1>5. Unregistered'
    BY <1>1 DEF Control, Unregistered, Exit, hostActors, HostTypes, AtHome
  <1>. QED
    BY <1>3, <1>4, <1>5 DEF Control

LEMMA ControlStep ==
  ASSUME Control, [HostNext]_hostVars
  PROVE  Control'
  <1>1. CASE UNCHANGED hostVars
    BY <1>1 DEF Control, HostTypes, AtHome, Unregistered, hostVars, hostDisk, hostSessions, hostGate,
                hostActors, hostHistory
  <1>. QED
    BY <1>1, EnsureControl, HaltControl, CallControl, SwitchControl, UpdateControl, WatchControl,
       ExitControl, SessionsApart
       DEF HostNext, Ensure, Halt, CallStep, SwitchStep, UpdateStep, WatchStep

-----------------------------------------------------------------------------
(***************************************************************************)
(* The counted calls.                                                      *)
(***************************************************************************)
LEMMA CallersFinite ==
  /\ IsFiniteSet(Callers)
  /\ Cardinality(Callers) \in Nat
  /\ Cardinality(Callers) <= Cardinality(Requests)
  <1>1. IsFiniteSet(Requests) /\ Callers \subseteq Requests
    BY HostAssumption DEF Callers
  <1>. QED
    BY <1>1, FS_Subset, FS_CardinalityType

\* Who is counted changes where a call is let in and where it is released.
LEMMA CountStep ==
  ASSUME Control, CountOK, [HostNext]_hostVars
  PROVE  CountOK'
  <1>. USE SessionsApart
  <1>1. HostTypes /\ \A a \in Actors : AtHome(a)
    BY DEF Control
  <1>2. ASSUME UNCHANGED activeRequests, \A r \in Requests : Counted(r)' <=> Counted(r)
        PROVE  CountOK'
    BY <1>2 DEF CountOK, Callers
  <1>3. ASSUME NEW a \in Actors, Look(a) \/ StartSession(a) \/ Yield(a) PROVE CountOK'
    <2>1. UNCHANGED activeRequests
      BY <1>3 DEF Look, StartSession, Yield, hostGate
    <2>2. Counted(a)' <=> Counted(a)
      BY <1>1, <1>3
         DEF Look, StartSession, Yield, Proceed, To, Counted, Starts, HostTypes, hostActors
    <2>3. \A r \in Requests \ {a} : Counted(r)' <=> Counted(r)
      BY <1>1, <1>3 DEF Look, StartSession, Yield, Proceed, To, Counted, HostTypes, hostActors
    <2>. QED
      BY <1>2, <2>1, <2>2, <2>3
  <1>4. ASSUME NEW a \in Actors, RegisterSession(a) PROVE CountOK'
    <2>1. UNCHANGED activeRequests
      BY <1>4 DEF RegisterSession, hostGate
    <2>2. mine[a] \in PluginSessions
      BY <1>1, <1>4 DEF RegisterSession, AtHome, HostTypes
    <2>3. \A r \in Requests : Counted(r)' <=> Counted(r)
      BY <1>1, <1>4, <2>2 DEF RegisterSession, To, Counted, Starts, HostTypes
    <2>. QED
      BY <1>2, <2>1, <2>3
  <1>5. ASSUME NEW r \in Requests, Halt(r) \/ SwitchStep(r) \/ UpdateStep(r) PROVE CountOK'
    <2>1. UNCHANGED activeRequests
      BY <1>5 DEF Halt, Take, Tell, Await, SwitchStep, Switch, TryLock, SaveState, SaveFails, Unlock,
                  UpdateStep, BeginUpdate, Drain, Replace, EndPluginUpdate, RestoreLifecycle, Shutdown,
                  hostGate
    <2>2. ~Counted(r)
      BY <1>1, <1>5
         DEF AtHome, Halt, Take, Tell, Await, SwitchStep, Switch, TryLock, SaveState, SaveFails, Unlock,
             UpdateStep, BeginUpdate, Drain, Replace, EndPluginUpdate, RestoreLifecycle, Shutdown,
             Become, Counted, Starts
    <2>3. CASE Halt(r)
      BY <1>1, <1>2, <2>1, <2>2, <2>3 DEF Halt, Take, Tell, Await, Halted, To, Counted, HostTypes, AtHome
    <2>4. CASE SwitchStep(r)
      BY <1>1, <1>2, <2>1, <2>2, <2>4
         DEF SwitchStep, Switch, TryLock, SaveState, SaveFails, Unlock, Become, Leave, To, Counted,
             HostTypes, AtHome, Starts
    <2>5. CASE UpdateStep(r)
      BY <1>1, <1>2, <2>1, <2>2, <2>5
         DEF UpdateStep, BeginUpdate, Drain, Replace, EndPluginUpdate, RestoreLifecycle, Shutdown,
             Proceed, Become, Leave, To, Counted, HostTypes, AtHome, Starts
    <2>. QED
      BY <1>5, <2>3, <2>4, <2>5
  <1>6. ASSUME NEW r \in Requests, CallStep(r) PROVE CountOK'
    <2>1. CASE CallPlugin(r) \/ Invoke(r) \/ (AcquireServing(r) /\ activeRequests' = activeRequests)
      <3>1. UNCHANGED activeRequests
        BY <2>1 DEF CallPlugin, Invoke, hostGate
      <3>2. \A q \in Requests : Counted(q)' <=> Counted(q)
        BY <1>1, <2>1
           DEF CallPlugin, Invoke, AcquireServing, Become, Leave, To, Counted, Starts, HostTypes, AtHome
      <3>. QED
        BY <1>2, <3>1, <3>2
    <2>2. CASE AcquireServing(r) /\ activeRequests' # activeRequests
      <3>1. /\ activeRequests' = activeRequests + 1
            /\ place' = [place EXCEPT ![r] = "look"]
            /\ UNCHANGED kind
            /\ kind[r] = "call" /\ place[r] = "gate"
        BY <1>1, <2>2 DEF AcquireServing, To, AtHome, Starts, Halts, Uses, HostTypes
      <3>2. Callers' = Callers \cup {r} /\ r \notin Callers
        BY <1>1, <3>1 DEF Callers, Counted, Starts, HostTypes
      <3>. QED
        BY <3>1, <3>2, CallersFinite, FS_AddElement DEF CountOK
    <2>3. CASE ReleaseServing(r)
      <3>1. /\ place' = [place EXCEPT ![r] = "idle"]
            /\ kind' = [kind EXCEPT ![r] = "none"]
            /\ kind[r] = "call" /\ place[r] = "release"
        BY <1>1, <2>3 DEF ReleaseServing, Leave, To, AtHome, Starts, Halts, Uses, HostTypes
      <3>2. Callers' = Callers \ {r} /\ r \in Callers
        BY <1>1, <3>1 DEF Callers, Counted, Starts, HostTypes
      <3>3. Cardinality(Callers') = Cardinality(Callers) - 1
        BY <3>2, CallersFinite, FS_RemoveElement
      <3>4. Cardinality(Callers) > 0
        BY <3>2, CallersFinite, FS_EmptySet
      <3>. QED
        BY <2>3, <3>3, <3>4 DEF ReleaseServing, CountOK
    <2>. QED
      BY <1>6, <2>1, <2>2, <2>3 DEF CallStep
  <1>7. ASSUME NEW i \in PluginSessions, WatchStep(i) \/ Exit(i) PROVE CountOK'
    <2>1. UNCHANGED activeRequests
      BY <1>7 DEF WatchStep, Watch, Delay, Discover, CheckIdle, Exit, hostGate
    <2>2. \A r \in Requests : place'[r] = place[r] /\ kind'[r] = kind[r]
      BY <1>1, <1>7
         DEF WatchStep, Watch, Delay, Discover, CheckIdle, Exit, Leave, To, HostTypes, hostActors
    <2>. QED
      BY <1>2, <2>1, <2>2 DEF Counted
  <1>8. CASE UNCHANGED hostVars
    BY <1>2, <1>8 DEF hostVars, hostGate, hostActors, Counted
  <1>. QED
    BY <1>3, <1>4, <1>5, <1>6, <1>7, <1>8
       DEF HostNext, Ensure, CallStep, SwitchStep, UpdateStep, WatchStep

-----------------------------------------------------------------------------
(***************************************************************************)
(* The gate.                                                               *)
(***************************************************************************)

\* A step in which no operation begins, goes on or ends, and no call is let in.
LEMMA GateFrame ==
  ASSUME GateOK, UNCHANGED updating, activeRequests' = activeRequests \/ ~updating,
         \A r \in Requests : (Operating(r)' <=> Operating(r)) /\ (Replacing(r)' <=> Replacing(r))
  PROVE  GateOK'
  BY DEF GateOK, Operating, Replacing

LEMMA GateStep ==
  ASSUME Control, CountOK, GateOK, [HostNext]_hostVars
  PROVE  GateOK'
  <1>. USE SessionsApart
  <1>1. HostTypes /\ \A a \in Actors : AtHome(a)
    BY DEF Control
  <1>2. ASSUME NEW a \in Actors, Ensure(a) PROVE GateOK'
    <2>1. UNCHANGED <<updating, activeRequests>>
      BY <1>2 DEF Ensure, Look, StartSession, RegisterSession, Yield, hostGate
    <2>2. CASE Look(a) \/ StartSession(a) \/ Yield(a)
      <3>1. ~Operating(a) /\ ~Operating(a)'
        BY <1>1, <2>2
           DEF Look, StartSession, Yield, Proceed, To, HostTypes, Operating, Replacing, Halts, hostActors
      <3>2. \A r \in Requests \ {a} : place'[r] = place[r] /\ kind'[r] = kind[r]
        BY <1>1, <2>2 DEF Look, StartSession, Yield, Proceed, To, HostTypes, hostActors
      <3>. QED
        BY <2>1, <3>1, <3>2, GateFrame DEF Operating, Replacing
    <2>3. CASE RegisterSession(a)
      <3>1. mine[a] \in PluginSessions
        BY <1>1, <2>3 DEF RegisterSession, AtHome, HostTypes
      <3>2. ~Operating(a) /\ ~Operating(a)'
        BY <1>1, <2>3, <3>1
           DEF RegisterSession, To, HostTypes, Operating, Replacing, Halts
      <3>3. \A r \in Requests \ {a} : place'[r] = place[r] /\ kind'[r] = kind[r]
        BY <1>1, <2>3, <3>1 DEF RegisterSession, To, HostTypes
      <3>. QED
        BY <2>1, <3>2, <3>3, GateFrame DEF Operating, Replacing
    <2>. QED
      BY <1>2, <2>2, <2>3 DEF Ensure
  <1>3. ASSUME NEW r \in Requests, Halt(r) PROVE GateOK'
    <2>1. UNCHANGED <<updating, activeRequests>>
      BY <1>3 DEF Halt, Take, Tell, Await, hostGate
    <2>2. Operating(r)' <=> Operating(r)
      BY <1>1, <1>3 DEF Halt, Take, Tell, Await, Halted, To, HostTypes, Operating, Replacing, Halts
    <2>3. Replacing(r)' <=> Replacing(r)
      BY <1>1, <1>3 DEF Halt, Take, Tell, Await, Halted, To, HostTypes, Operating, Replacing, Halts
    <2>4. \A q \in Requests \ {r} : place'[q] = place[q] /\ kind'[q] = kind[q]
      BY <1>1, <1>3 DEF Halt, Take, Tell, Await, Halted, To, HostTypes
    <2>. QED
      BY <2>1, <2>2, <2>3, <2>4, GateFrame DEF Operating, Replacing
  <1>4. ASSUME NEW r \in Requests, CallStep(r) PROVE GateOK'
    <2>1. UNCHANGED updating /\ (activeRequests' = activeRequests \/ ~updating \/ ReleaseServing(r))
      BY <1>4 DEF CallStep, CallPlugin, AcquireServing, Invoke, ReleaseServing, hostGate
    <2>2. ~Operating(r) /\ ~Operating(r)'
      BY <1>1, <1>4
         DEF CallStep, CallPlugin, AcquireServing, Invoke, ReleaseServing, Become, Leave, To, HostTypes,
             AtHome, Operating, Replacing, Halts
    <2>3. \A q \in Requests \ {r} : place'[q] = place[q] /\ kind'[q] = kind[q]
      BY <1>1, <1>4
         DEF CallStep, CallPlugin, AcquireServing, Invoke, ReleaseServing, Become, Leave, To, HostTypes
    <2>4. ReleaseServing(r) /\ activeRequests = 0 => activeRequests' = 0
      BY DEF ReleaseServing
    <2>. QED
      BY <2>1, <2>2, <2>3, <2>4 DEF GateOK, Operating, Replacing
  <1>5. ASSUME NEW r \in Requests, SwitchStep(r) PROVE GateOK'
    <2>1. UNCHANGED <<updating, activeRequests>>
      BY <1>5 DEF SwitchStep, Switch, TryLock, SaveState, SaveFails, Unlock, hostGate
    <2>2. ~Operating(r)
      BY <1>1, <1>5
         DEF SwitchStep, Switch, TryLock, SaveState, SaveFails, Unlock, Become, AtHome, Operating,
             Replacing, Halts
    <2>4. ~Operating(r)'
      <3>1. CASE \E k \in {"enable", "disable"} : Switch(r, k)
        BY <1>1, <3>1 DEF Switch, Become, To, HostTypes, Operating, Replacing
      <3>2. CASE TryLock(r) \/ Unlock(r)
        BY <1>1, <3>2 DEF TryLock, Unlock, Leave, To, HostTypes, Operating, Replacing, Halts
      <3>3. CASE SaveState(r) \/ SaveFails(r)
        BY <1>1, <2>2, <3>3 DEF SaveState, SaveFails, To, HostTypes, AtHome, Operating, Replacing, Halts, Starts
      <3>. QED
        BY <1>5, <3>1, <3>2, <3>3 DEF SwitchStep
    <2>3. \A q \in Requests \ {r} : place'[q] = place[q] /\ kind'[q] = kind[q]
      BY <1>1, <1>5
         DEF SwitchStep, Switch, TryLock, SaveState, SaveFails, Unlock, Become, Leave, To, HostTypes
    <2>. QED
      BY <2>1, <2>2, <2>3, <2>4, GateFrame DEF Operating, Replacing
  <1>6. ASSUME NEW r \in Requests, UpdateStep(r) PROVE GateOK'
    <2>1. \A q \in Requests \ {r} : place'[q] = place[q] /\ kind'[q] = kind[q]
      BY <1>1, <1>6
         DEF UpdateStep, BeginUpdate, Drain, Replace, EndPluginUpdate, RestoreLifecycle, Shutdown,
             Proceed, Become, Leave, To, HostTypes
    <2>2. UNCHANGED activeRequests
      BY <1>6 DEF UpdateStep, BeginUpdate, Drain, Replace, EndPluginUpdate, RestoreLifecycle, Shutdown,
                  hostGate
    <2>3. CASE BeginUpdate(r)
      <3>1. ~updating /\ updating' /\ kind'[r] = "update" /\ place'[r] = "drain"
        BY <1>1, <2>3 DEF BeginUpdate, Become, To, HostTypes
      <3>. QED
        BY <2>1, <2>2, <3>1 DEF GateOK, Operating, Replacing, Halts
    <2>4. CASE Drain(r) /\ kind[r] = "update"
      <3>1. place[r] = "drain"
        BY <2>4 DEF Drain
      <3>2. CASE activeRequests = 0 /\ place' = [place EXCEPT ![r] = "take"] /\ UNCHANGED <<kind, updating>>
        BY <1>1, <2>1, <2>2, <2>4, <3>1, <3>2 DEF GateOK, Operating, Replacing, Halts, HostTypes
      <3>3. CASE updating' = FALSE /\ Leave(r)
        BY <1>1, <2>1, <2>2, <2>4, <3>1, <3>3
           DEF GateOK, Operating, Replacing, Halts, HostTypes, Leave, To
      <3>. QED
        BY <2>4, <3>2, <3>3 DEF Drain, To
    <2>5. CASE EndPluginUpdate(r)
      <3>1. kind[r] = "update"
        BY <1>1, <2>5 DEF EndPluginUpdate, AtHome, Starts, Halts, Uses, HostTypes
      <3>. QED
        BY <1>1, <2>1, <2>2, <2>5, <3>1
           DEF EndPluginUpdate, GateOK, Operating, Replacing, Halts, HostTypes, To
    <2>6. CASE Replace(r)
      <3>1. Operating(r)' <=> Operating(r)
        BY <1>1, <2>6 DEF Replace, To, HostTypes, Operating, Replacing
      <3>2. Replacing(r)' <=> Replacing(r)
        BY <1>1, <2>6 DEF Replace, To, HostTypes, Replacing
      <3>3. UNCHANGED updating
        BY <2>6 DEF Replace, hostGate
      <3>. QED
        BY <2>1, <2>2, <3>1, <3>2, <3>3, GateFrame DEF Operating, Replacing
    <2>7. CASE (Drain(r) /\ kind[r] # "update") \/ RestoreLifecycle(r) \/ Shutdown(r)
      <3>1. UNCHANGED updating
        BY <2>7 DEF Drain, RestoreLifecycle, Shutdown, hostGate
      <3>2. ~Operating(r) /\ ~Operating(r)'
        BY <1>1, <2>7
           DEF Drain, RestoreLifecycle, Shutdown, Proceed, Become, Leave, To, HostTypes, AtHome,
               Operating, Replacing, Halts
      <3>. QED
        BY <2>1, <2>2, <3>1, <3>2, GateFrame DEF Operating, Replacing
    <2>. QED
      BY <1>6, <2>3, <2>4, <2>5, <2>6, <2>7 DEF UpdateStep
  <1>7. ASSUME NEW i \in PluginSessions, WatchStep(i) \/ Exit(i) PROVE GateOK'
    <2>1. UNCHANGED <<updating, activeRequests>>
      BY <1>7 DEF WatchStep, Watch, Delay, Discover, CheckIdle, Exit, hostGate
    <2>2. \A r \in Requests : place'[r] = place[r] /\ kind'[r] = kind[r]
      BY <1>1, <1>7
         DEF WatchStep, Watch, Delay, Discover, CheckIdle, Exit, Leave, To, HostTypes, hostActors
    <2>. QED
      BY <2>1, <2>2, GateFrame DEF Operating, Replacing
  <1>8. CASE UNCHANGED hostVars
    BY <1>8, GateFrame DEF hostVars, hostGate, hostActors, Operating, Replacing
  <1>. QED
    BY <1>2, <1>3, <1>4, <1>5, <1>6, <1>7, <1>8
       DEF HostNext, CallStep, SwitchStep, UpdateStep, WatchStep

-----------------------------------------------------------------------------
(***************************************************************************)
(* The processes.                                                          *)
(***************************************************************************)

\* A step that leaves the table and the sessions in somebody's hands alone.
LEMMA KeepsProcesses ==
  ASSUME Control, NoLostProcess, NEW a \in Actors, Moves(a),
         place[a] \notin {"register", "tell", "watch"},
         UNCHANGED resident, stopping \subseteq stopping', killed \subseteq killed'
  PROVE  NoLostProcess'
  <1> SUFFICES ASSUME NEW i \in PluginSessions \ (stopping \cup killed)', process'[i] = "running"
               PROVE  \/ resident' = i /\ place'[i] = "watch"
                      \/ \E b \in Actors : mine'[b] = i /\ place'[b] \in {"register", "tell"}
    BY DEF NoLostProcess
  <1>1. \/ resident = i /\ place[i] = "watch"
        \/ \E b \in Actors : mine[b] = i /\ place[b] \in {"register", "tell"}
    BY DEF NoLostProcess, Moves
  <1>. QED
    BY <1>1, SessionsApart DEF Moves

LEMMA ProcessStep ==
  ASSUME Control, NoLostProcess, [HostNext]_hostVars
  PROVE  NoLostProcess'
  <1>. USE SessionsApart
  <1>1. HostTypes /\ \A a \in Actors : AtHome(a)
    BY DEF Control
  <1>2. ASSUME NEW a \in Actors, Ensure(a) PROVE NoLostProcess'
    <2>1. CASE Look(a) \/ Yield(a) \/ (StartSession(a) /\ process' = process)
      <3>1. Moves(a)
        BY <1>1, <2>1
           DEF Look, Yield, StartSession, Use, Proceed, To, HostTypes, Moves, hostSessions, hostActors
      <3>2. /\ place[a] \notin {"register", "tell", "watch"}
            /\ UNCHANGED resident /\ stopping \subseteq stopping' /\ killed \subseteq killed'
        BY <2>1 DEF Look, Yield, StartSession, hostSessions
      <3>. QED
        BY <3>1, <3>2, KeepsProcesses
    <2>2. CASE StartSession(a) /\ process' # process
      <3>1. PICK i \in PluginSessions :
              /\ process' = [process EXCEPT ![i] = "running"]
              /\ mine' = [mine EXCEPT ![a] = i]
              /\ place' = [place EXCEPT ![a] = "register"]
              /\ place[a] = "start"
              /\ UNCHANGED <<resident, stopping, killed>>
        BY <2>2 DEF StartSession, To
      <3>. QED
        BY <1>1, <3>1 DEF NoLostProcess, HostTypes
    <2>3. CASE RegisterSession(a)
      <3>. DEFINE w == mine[a]
      <3>1. place[a] = "register" /\ w \in PluginSessions /\ place[w] = "idle" /\ w # a
        BY <1>1, <2>3 DEF RegisterSession, Control, Unregistered, AtHome, HostTypes
      <3>2. CASE resident = Nobody
        <4>1. /\ resident' = w
              /\ mine' = [mine EXCEPT ![a] = Nobody]
              /\ place'[w] = "watch"
              /\ \A b \in Actors \ {a, w} : place'[b] = place[b]
              /\ UNCHANGED <<stopping, killed, process>>
          BY <1>1, <2>3, <3>1, <3>2 DEF RegisterSession, Use, HostTypes
        <4>. QED
          BY <1>1, <3>1, <3>2, <4>1 DEF NoLostProcess, HostTypes
      <3>3. CASE resident # Nobody
        <4>1. /\ stopping' = stopping \cup {w}
              /\ place' = [place EXCEPT ![a] = "yield"]
              /\ UNCHANGED <<resident, mine, killed, process>>
          BY <2>3, <3>3 DEF RegisterSession, To
        <4>. QED
          BY <1>1, <3>1, <4>1 DEF NoLostProcess, HostTypes
      <3>. QED
        BY <3>2, <3>3
    <2>. QED
      BY <1>2, <2>1, <2>2, <2>3 DEF Ensure
  <1>3. ASSUME NEW r \in Requests, Halt(r) PROVE NoLostProcess'
    <2>1. CASE Take(r)
      <3>1. /\ resident' = Nobody
            /\ place[r] = "take"
            /\ \A b \in Actors \ {r} : place'[b] = place[b] /\ mine'[b] = mine[b]
            /\ resident # Nobody => mine'[r] = resident /\ place'[r] = "tell"
            /\ UNCHANGED <<stopping, killed, process>>
        BY <1>1, <2>1 DEF Take, Halted, To, HostTypes
      <3>. QED
        BY <1>1, <3>1 DEF NoLostProcess, HostTypes
    <2>2. CASE Tell(r)
      <3>1. /\ stopping' = stopping \cup {mine[r]}
            /\ place' = [place EXCEPT ![r] = "await"]
            /\ place[r] = "tell"
            /\ UNCHANGED <<resident, mine, killed, process>>
        BY <2>2 DEF Tell, To
      <3>. QED
        BY <1>1, <3>1 DEF NoLostProcess, HostTypes
    <2>3. CASE Await(r)
      <3>1. Moves(r)
        BY <1>1, <2>3 DEF Await, Halted, To, HostTypes, Moves
      <3>2. /\ place[r] \notin {"register", "tell", "watch"}
            /\ UNCHANGED resident /\ stopping \subseteq stopping' /\ killed \subseteq killed'
        BY <2>3 DEF Await
      <3>. QED
        BY <3>1, <3>2, KeepsProcesses
    <2>. QED
      BY <1>3, <2>1, <2>2, <2>3 DEF Halt
  <1>4. ASSUME NEW r \in Requests, CallStep(r) PROVE NoLostProcess'
    <2>1. Moves(r)
      BY <1>1, <1>4
         DEF CallStep, CallPlugin, AcquireServing, Invoke, ReleaseServing, Become, Leave, To, HostTypes, Moves,
             hostSessions
    <2>2. /\ place[r] \notin {"register", "tell", "watch"}
          /\ UNCHANGED resident /\ stopping \subseteq stopping' /\ killed \subseteq killed'
      BY <1>4 DEF CallStep, CallPlugin, AcquireServing, Invoke, ReleaseServing, Become, hostSessions
    <2>. QED
      BY <2>1, <2>2, KeepsProcesses
  <1>5. ASSUME NEW r \in Requests, SwitchStep(r) PROVE NoLostProcess'
    <2>1. Moves(r)
      BY <1>1, <1>5
         DEF SwitchStep, Switch, TryLock, SaveState, SaveFails, Unlock, Become, Leave, To, HostTypes,
             Moves, hostSessions
    <2>2. /\ place[r] \notin {"register", "tell", "watch"}
          /\ UNCHANGED <<resident, stopping, killed>>
      BY <1>5 DEF SwitchStep, Switch, TryLock, SaveState, SaveFails, Unlock, Become, hostSessions
    <2>. QED
      BY <2>1, <2>2, KeepsProcesses
  <1>6. ASSUME NEW r \in Requests, UpdateStep(r) PROVE NoLostProcess'
    <2>1. Moves(r)
      BY <1>1, <1>6
         DEF UpdateStep, BeginUpdate, Drain, Replace, EndPluginUpdate, RestoreLifecycle, Shutdown,
             Proceed, Become, Leave, To, HostTypes, Moves, hostSessions
    <2>2. /\ place[r] \notin {"register", "tell", "watch"}
          /\ UNCHANGED <<resident, stopping, killed>>
      BY <1>6 DEF UpdateStep, BeginUpdate, Drain, Replace, EndPluginUpdate, RestoreLifecycle, Shutdown,
                  Become, hostSessions
    <2>. QED
      BY <2>1, <2>2, KeepsProcesses
  <1>7. ASSUME NEW i \in PluginSessions, WatchStep(i) PROVE NoLostProcess'
    <2>1. CASE Watch(i)
      <3>1. /\ process[i] = "exited" /\ place[i] = "watch"
            /\ resident' = IF resident = i THEN Nobody ELSE resident
            /\ \A b \in Actors \ {i} : place'[b] = place[b] /\ mine'[b] = mine[b]
            /\ UNCHANGED <<stopping, killed, process>>
        BY <1>1, <2>1 DEF Watch, Leave, To, HostTypes
      <3>. QED
        BY <1>1, <3>1 DEF NoLostProcess, HostTypes
    <2>2. CASE Delay(i) \/ Discover(i) \/ CheckIdle(i)
      <3>1. Moves(i)
        BY <1>1, <2>2 DEF Delay, Discover, CheckIdle, Leave, To, HostTypes, Moves, hostSessions
      <3>2. /\ place[i] \notin {"register", "tell", "watch"}
            /\ UNCHANGED <<resident, stopping, killed>>
        BY <2>2 DEF Delay, Discover, CheckIdle, hostSessions
      <3>. QED
        BY <3>1, <3>2, KeepsProcesses
    <2>. QED
      BY <1>7, <2>1, <2>2 DEF WatchStep
  <1>8. ASSUME NEW i \in PluginSessions, Exit(i) PROVE NoLostProcess'
    BY <1>1, <1>8 DEF Exit, hostActors, NoLostProcess, HostTypes
  <1>9. CASE UNCHANGED hostVars
    BY <1>9 DEF hostVars, hostSessions, hostActors, NoLostProcess
  <1>. QED
    BY <1>2, <1>3, <1>4, <1>5, <1>6, <1>7, <1>8, <1>9
       DEF HostNext, CallStep, SwitchStep, UpdateStep, WatchStep

-----------------------------------------------------------------------------
LEMMA HostInvInit == HostInit => HostInv
  <1> SUFFICES ASSUME HostInit PROVE HostInv
    OBVIOUS
  <1>1. Callers = {}
    BY SessionsApart DEF HostInit, Callers, Counted
  <1>2. CountOK
    BY <1>1, FS_EmptySet DEF HostInit, CountOK
  <1>3. GateOK /\ NoLostProcess
    BY SessionsApart DEF HostInit, GateOK, Operating, Replacing, NoLostProcess
  <1>. QED
    BY <1>2, <1>3, ControlInit DEF HostInv

LEMMA HostInvariant == HostSpec => []HostInv
  <1>1. HostInv /\ [HostNext]_hostVars => HostInv'
    BY ControlStep, CountStep, GateStep, ProcessStep DEF HostInv
  <1>. QED
    BY <1>1, HostInvInit, PTL DEF HostSpec

-----------------------------------------------------------------------------
\* The variables keep their types, and never more calls are counted than there are
\* (activity.go: acquire and release are paired on every way out).
THEOREM HostKeepsTypes == HostSpec => []HostTypeOK
  <1>1. HostInv => HostTypeOK
    <2> SUFFICES ASSUME HostInv PROVE HostTypeOK
      OBVIOUS
    <2>1. activeRequests \in 0 .. Cardinality(Requests)
      BY CallersFinite, FS_CardinalityType, HostAssumption DEF HostInv, CountOK
    <2>. QED
      BY <2>1 DEF HostInv, Control, HostTypes, HostTypeOK, Facts
  <1>. QED
    BY <1>1, HostInvariant, PTL

\* However many actors start and stop the process of a plugin, none is lost (hosting.go).
THEOREM HostLosesNoProcess == HostSpec => []NoLostProcess
  <1>1. HostInv => NoLostProcess
    BY DEF HostInv
  <1>. QED
    BY <1>1, HostInvariant, PTL

\* While an operation replaces the program no call is under way (activity.go: beginUpdate).
THEOREM HostDrainsCalls == HostSpec => []CallsOutsideUpdates
  <1>1. HostInv => CallsOutsideUpdates
    <2> SUFFICES ASSUME HostInv, NEW r \in Requests, kind[r] = "update",
                        place[r] \in {"take", "tell", "await", "program"}
                 PROVE  updating /\ activeRequests = 0 /\ ~\E b \in Requests : Counted(b)
      BY DEF CallsOutsideUpdates
    <2>1. updating /\ activeRequests = 0
      BY DEF HostInv, GateOK, Operating, Replacing, Halts
    <2>2. Callers = {}
      BY <2>1, CallersFinite, FS_EmptySet DEF HostInv, CountOK
    <2>. QED
      BY <2>1, <2>2 DEF Callers
  <1>. QED
    BY <1>1, HostInvariant, PTL

-----------------------------------------------------------------------------
(***************************************************************************)
(* What the switch and the operations leave behind.                        *)
(***************************************************************************)

\* Whoever works the switch holds the lock of the lifecycle.
Locked ==
    \A a \in Actors : kind[a] \in {"enable", "disable"} /\ place[a] # "lock" => lifecycle = a

\* The switch is off: only calls that were counted before may still start the process,
\* and they are over when the switch takes the process away.
Disabling(r) == kind[r] = "disable" /\ place[r] \in {"drain", "take"}
OffOK ==
    ~crossed /\ ~enabled =>
      /\ \A a \in Actors : /\ place[a] \in Starts => kind[a] = "call"
                           /\ place[a] # "check"
                           /\ place[a] = "gate" => ~fact[a].on
      /\ \/ \E r \in Requests : Disabling(r)
         \/ resident = Nobody /\ \A a \in Actors : place[a] \notin Starts

\* The gate is closed: only calls that were counted before may still start the process,
\* and they are over when the operation takes the process away.
Emptied(r) == kind[r] = "update" /\ place[r] \in {"tell", "await", "program"}
ShutOK ==
    ~crossed /\ updating =>
      /\ \A a \in Actors : /\ place[a] \in Starts => kind[a] = "call"
                           /\ place[a] # "restore"
                           /\ kind[a] = "enable" => place[a] \notin {"lock", "save"}
      /\ (\E r \in Requests : Emptied(r)) => resident = Nobody

\* What an actor has discovered, and what it has started, is the version in use.
CurrentOK ==
    ~crossed =>
      /\ resident # Nobody => release[resident] = program
      /\ \A a \in Actors : /\ place[a] = "register" => release[mine[a]] = program
                           /\ place[a] \in {"gate", "check", "look", "start"} =>
                                fact[a].version = program

SettledInv == Locked /\ OffOK /\ ShutOK /\ CurrentOK

\* A step of one actor that puts nothing in the table.
Alone(a) ==
    /\ \A b \in Actors \ {a} : /\ place'[b] = place[b] /\ kind'[b] = kind[b]
                               /\ fact'[b] = fact[b] /\ mine'[b] = mine[b]
    /\ resident' \in {resident, Nobody}

LEMMA EnsureAlone ==
  ASSUME Control, NEW a \in Actors, Look(a) \/ StartSession(a) \/ Yield(a)
  PROVE  Alone(a)
  <1>1. HostTypes
    BY DEF Control
  <1>. QED
    BY <1>1 DEF Look, StartSession, Yield, Use, Proceed, To, HostTypes, Alone, hostSessions, hostActors

LEMMA RequestAlone ==
  ASSUME Control, NEW r \in Requests, Halt(r) \/ CallStep(r) \/ SwitchStep(r) \/ UpdateStep(r)
  PROVE  Alone(r)
  <1>. USE SessionsApart
  <1>1. HostTypes
    BY DEF Control
  <1>2. CASE Halt(r)
    BY <1>1, <1>2 DEF Halt, Take, Tell, Await, Halted, To, HostTypes, Alone
  <1>3. CASE CallStep(r)
    BY <1>1, <1>3
       DEF CallStep, CallPlugin, AcquireServing, Invoke, ReleaseServing, Become, Leave, To, HostTypes, Alone,
           hostSessions
  <1>4. CASE SwitchStep(r)
    BY <1>1, <1>4
       DEF SwitchStep, Switch, TryLock, SaveState, SaveFails, Unlock, Become, Leave, To, HostTypes,
           Alone, hostSessions
  <1>5. CASE UpdateStep(r)
    BY <1>1, <1>5
       DEF UpdateStep, BeginUpdate, Drain, Replace, EndPluginUpdate, RestoreLifecycle, Shutdown,
           Proceed, Become, Leave, To, HostTypes, Alone, hostSessions
  <1>. QED
    BY <1>2, <1>3, <1>4, <1>5

LEMMA WatchAlone ==
  ASSUME Control, NEW i \in PluginSessions, WatchStep(i) \/ Exit(i)
  PROVE  Alone(i)
  <1>1. HostTypes
    BY DEF Control
  <1>. QED
    BY <1>1, SessionsApart
       DEF WatchStep, Watch, Delay, Discover, CheckIdle, Exit, Leave, To, HostTypes, Alone, hostSessions,
           hostActors

\* What registering a session does.
LEMMA RegisterFacts ==
  ASSUME Control, NEW a \in Actors, RegisterSession(a)
  PROVE  /\ place[a] = "register" /\ mine[a] \in PluginSessions /\ mine[a] # a
         /\ kind'[a] \in {kind[a], "none"}
         /\ UNCHANGED <<hostDisk, release, hostGate, hostHistory>>
         /\ \/ /\ Alone(a) /\ resident' = resident
               /\ place'[a] = "yield" /\ kind'[a] = kind[a]
            \/ /\ place'[a] \in {"invoke", "unlock", "idle"}
               /\ resident = Nobody /\ resident' = mine[a]
               /\ place'[mine[a]] = "watch" /\ kind'[mine[a]] = "watch"
               /\ \A b \in Actors \ {a, mine[a]} : /\ place'[b] = place[b] /\ kind'[b] = kind[b]
                                                   /\ fact'[b] = fact[b] /\ mine'[b] = mine[b]
  <1>. USE SessionsApart
  <1>1. HostTypes /\ AtHome(a) /\ place[a] = "register"
    BY DEF Control, RegisterSession
  <1>2. mine[a] \in PluginSessions /\ mine[a] # a
    BY <1>1 DEF Control, Unregistered, AtHome, HostTypes
  <1>. DEFINE w == mine[a]
              next == CASE kind[a] = "call" -> "invoke" [] kind[a] = "enable" -> "unlock" [] OTHER -> "idle"
  <1>3. next \in {"invoke", "unlock", "idle"}
    OBVIOUS
  <1>4. UNCHANGED <<hostDisk, release, hostGate, hostHistory>>
    BY DEF RegisterSession
  <1>5. CASE resident = Nobody
    <2>1. /\ resident' = w /\ mine' = [mine EXCEPT ![a] = Nobody]
          /\ place' = [place EXCEPT ![a] = next, ![w] = "watch"]
          /\ kind' = [kind EXCEPT ![w] = "watch", ![a] = IF next = "idle" THEN "none" ELSE @]
          /\ fact' = [fact EXCEPT ![a] = IF next = "idle" THEN Unknown ELSE @]
      BY <1>5 DEF RegisterSession, Use
    <2>. HIDE DEF next
    <2>. QED
      BY <1>1, <1>2, <1>3, <1>4, <1>5, <2>1 DEF HostTypes
  <1>6. CASE resident # Nobody
    <2>1. UNCHANGED <<resident, kind, fact, mine>> /\ place' = [place EXCEPT ![a] = "yield"]
      BY <1>6 DEF RegisterSession, To
    <2>. QED
      BY <1>1, <1>2, <1>4, <2>1 DEF HostTypes, Alone
  <1>. QED
    BY <1>5, <1>6

-----------------------------------------------------------------------------
(* The lock of the lifecycle. *)

LEMMA LockFrame ==
  ASSUME Locked, NEW a \in Actors, UNCHANGED lifecycle,
         \A b \in Actors \ {a} : place'[b] = place[b] /\ kind'[b] = kind[b],
         kind'[a] \in {"enable", "disable"} /\ place'[a] # "lock" =>
           kind[a] \in {"enable", "disable"} /\ place[a] # "lock"
  PROVE  Locked'
  BY DEF Locked

LEMMA LockStep ==
  ASSUME Control, Locked, [HostNext]_hostVars
  PROVE  Locked'
  <1>. USE SessionsApart
  <1>1. HostTypes /\ \A a \in Actors : AtHome(a)
    BY DEF Control
  <1>2. ASSUME NEW a \in Actors, Look(a) \/ StartSession(a) \/ Yield(a) PROVE Locked'
    <2>1. kind'[a] \in {kind[a], "none"} /\ place[a] # "lock" /\ UNCHANGED lifecycle
      BY <1>1, <1>2 DEF Look, StartSession, Yield, Proceed, To, HostTypes, hostGate, hostActors
    <2>. QED
      BY <1>2, <2>1, EnsureAlone, LockFrame DEF Alone
  <1>3. ASSUME NEW a \in Actors, RegisterSession(a) PROVE Locked'
    BY <1>3, RegisterFacts DEF Locked, hostGate, Alone
  <1>4. ASSUME NEW r \in Requests, Halt(r) PROVE Locked'
    <2>1. kind'[r] \in {kind[r], "none"} /\ place[r] # "lock" /\ UNCHANGED lifecycle
      BY <1>1, <1>4 DEF Halt, Take, Tell, Await, Halted, To, HostTypes, hostGate
    <2>. QED
      BY <1>4, <2>1, RequestAlone, LockFrame DEF Alone
  <1>5. ASSUME NEW r \in Requests, CallStep(r) PROVE Locked'
    <2>1. kind'[r] \in {"call", "none"} /\ UNCHANGED lifecycle
      BY <1>1, <1>5
         DEF CallStep, CallPlugin, AcquireServing, Invoke, ReleaseServing, Become, Leave, To, HostTypes,
             AtHome, Starts, Halts, Uses, hostGate
    <2>. QED
      BY <1>5, <2>1, RequestAlone, LockFrame DEF Alone
  <1>6. ASSUME NEW r \in Requests, SwitchStep(r) PROVE Locked'
    <2>1. Alone(r)
      BY <1>6, RequestAlone
    <2>2. CASE \E k \in {"enable", "disable"} : Switch(r, k)
      <3>1. place'[r] = "lock" /\ UNCHANGED lifecycle
        BY <1>1, <2>2 DEF Switch, Become, To, HostTypes, hostGate
      <3>. QED
        BY <2>1, <3>1, LockFrame DEF Alone
    <2>3. CASE TryLock(r)
      <3>1. CASE lifecycle # Nobody
        <4>1. kind'[r] = "none" /\ UNCHANGED lifecycle
          BY <1>1, <2>3, <3>1 DEF TryLock, Leave, HostTypes
        <4>. QED
          BY <2>1, <4>1, LockFrame DEF Alone
      <3>2. CASE lifecycle = Nobody
        <4>1. lifecycle' = r
          BY <2>3, <3>2 DEF TryLock
        <4>. QED
          BY <2>1, <3>2, <4>1 DEF Locked, Alone, Actors
      <3>. QED
        BY <3>1, <3>2
    <2>4. CASE SaveState(r) \/ SaveFails(r)
      <3>1. kind'[r] = kind[r] /\ place[r] = "save" /\ UNCHANGED lifecycle
        BY <2>4 DEF SaveState, SaveFails, hostGate
      <3>. QED
        BY <2>1, <3>1, LockFrame DEF Alone
    <2>5. CASE Unlock(r)
      <3>1. place[r] = "unlock" /\ lifecycle' = Nobody /\ kind'[r] = "none"
        BY <1>1, <2>5 DEF Unlock, Leave, HostTypes
      <3>2. lifecycle = r
        BY <1>1, <3>1 DEF Locked, AtHome, Starts, Halts, HostTypes, Uses
      <3>. QED
        BY <2>1, <3>1, <3>2 DEF Locked, Alone
    <2>. QED
      BY <1>6, <2>2, <2>3, <2>4, <2>5 DEF SwitchStep
  <1>7. ASSUME NEW r \in Requests, UpdateStep(r) PROVE Locked'
    <2>1. UNCHANGED lifecycle
      BY <1>7 DEF UpdateStep, BeginUpdate, Drain, Replace, EndPluginUpdate, RestoreLifecycle, Shutdown,
                  hostGate
    <2>2. \/ kind'[r] \in {"update", "shutdown", "none"}
          \/ kind'[r] = kind[r] /\ place[r] # "lock"
      BY <1>1, <1>7
         DEF UpdateStep, BeginUpdate, Drain, Replace, EndPluginUpdate, RestoreLifecycle, Shutdown,
             Proceed, Become, Leave, To, HostTypes
    <2>. QED
      BY <1>7, <2>1, <2>2, RequestAlone, LockFrame DEF Alone
  <1>8. ASSUME NEW i \in PluginSessions, WatchStep(i) \/ Exit(i) PROVE Locked'
    <2>1. UNCHANGED lifecycle /\ kind'[i] \in {kind[i], "none"}
      BY <1>1, <1>8 DEF WatchStep, Watch, Delay, Discover, CheckIdle, Exit, Leave, HostTypes, hostGate,
                        hostActors
    <2>2. kind[i] \in {"none", "watch"}
      BY <1>1 DEF AtHome
    <2>. QED
      BY <1>8, <2>1, <2>2, WatchAlone, LockFrame DEF Alone
  <1>9. CASE UNCHANGED hostVars
    BY <1>9 DEF hostVars, hostGate, hostActors, Locked
  <1>. QED
    BY <1>2, <1>3, <1>4, <1>5, <1>6, <1>7, <1>8, <1>9
       DEF HostNext, Ensure, Halt, CallStep, SwitchStep, UpdateStep, WatchStep

-----------------------------------------------------------------------------
(* The switch is off. *)

LEMMA CrossedStays == [HostNext]_hostVars => (crossed => crossed')
  <1> SUFFICES ASSUME [HostNext]_hostVars, crossed PROVE crossed'
    OBVIOUS
  <1>1. ASSUME NEW a \in Actors, Ensure(a) PROVE crossed'
    BY <1>1 DEF Ensure, Look, StartSession, RegisterSession, Yield, hostHistory
  <1>2. ASSUME NEW r \in Requests, Halt(r) \/ CallStep(r) PROVE crossed'
    BY <1>2
       DEF Halt, Take, Tell, Await, CallStep, CallPlugin, AcquireServing, Invoke, ReleaseServing, hostHistory
  <1>3. ASSUME NEW r \in Requests, SwitchStep(r) PROVE crossed'
    BY <1>3 DEF SwitchStep, Switch, TryLock, SaveState, SaveFails, Unlock, hostHistory
  <1>4. ASSUME NEW r \in Requests, UpdateStep(r) PROVE crossed'
    <2>1. CASE BeginUpdate(r) \/ Replace(r)
      BY <2>1 DEF BeginUpdate, Replace
    <2>2. CASE Drain(r) \/ EndPluginUpdate(r) \/ RestoreLifecycle(r) \/ Shutdown(r)
      BY <2>2 DEF Drain, EndPluginUpdate, RestoreLifecycle, Shutdown, hostHistory
    <2>. QED
      BY <1>4, <2>1, <2>2 DEF UpdateStep
  <1>5. ASSUME NEW i \in PluginSessions, WatchStep(i) \/ Exit(i) PROVE crossed'
    BY <1>5 DEF WatchStep, Watch, Delay, Discover, CheckIdle, Exit, hostHistory
  <1>6. CASE UNCHANGED hostVars
    BY <1>6 DEF hostVars, hostHistory
  <1>. QED
    BY <1>1, <1>2, <1>3, <1>4, <1>5, <1>6 DEF HostNext, CallStep, SwitchStep, UpdateStep, WatchStep

\* While calls are not counted none of them starts the process.
LEMMA NoneCounted ==
  ASSUME Control, CountOK, activeRequests = 0, NEW a \in Actors, kind[a] = "call"
  PROVE  place[a] \notin Starts
  <1>1. Callers = {}
    BY CallersFinite, FS_EmptySet DEF CountOK
  <1>2. a \in Requests
    BY DEF Control, AtHome, Actors
  <1>. QED
    BY <1>1, <1>2 DEF Callers, Counted

\* What one actor finds and leaves when the switch is off.
OffQuiet(a) ==
    /\ place[a] \in Starts => kind[a] = "call"
    /\ place[a] # "check"
    /\ place[a] = "gate" => ~fact[a].on
Silent == resident = Nobody /\ \A a \in Actors : place[a] \notin Starts
Off == (\A a \in Actors : OffQuiet(a)) /\ ((\E r \in Requests : Disabling(r)) \/ Silent)

LEMMA OffOKIs == OffOK <=> (~crossed /\ ~enabled => Off)
  BY DEF OffOK, Off, OffQuiet, Silent

LEMMA OffFrame ==
  ASSUME Off, NEW a \in Actors, Alone(a), OffQuiet(a)',
         place'[a] \in Starts => place[a] \in Starts,
         Disabling(a) => Disabling(a)'
  PROVE  Off'
  <1>1. \A b \in Actors : OffQuiet(b)'
    BY DEF Off, OffQuiet, Alone
  <1>2. CASE \E r \in Requests : Disabling(r)
    BY <1>1, <1>2, SessionsApart DEF Off, Disabling, Alone
  <1>3. CASE Silent
    BY <1>1, <1>3 DEF Off, Silent, Alone
  <1>. QED
    BY <1>2, <1>3 DEF Off

LEMMA OffTake ==
  ASSUME Control, CountOK, Off, NEW r \in Requests, Take(r), ~crossed'
  PROVE  Off'
  <1>. USE SessionsApart
  <1>1. HostTypes /\ Alone(r)
    BY RequestAlone DEF Control, Halt
  <1>2. /\ place[r] = "take" /\ resident' = Nobody
        /\ place'[r] \in {"unlock", "program", "end", "idle", "tell"}
    BY <1>1 DEF Take, Halted, To, HostTypes
  <1>3. OffQuiet(r)' /\ place'[r] \notin Starts
    BY <1>2 DEF OffQuiet, Starts
  <1>4. CASE kind[r] = "disable"
    <2>1. activeRequests = 0
      <3>1. crossed' = (crossed \/ (kind[r] = "disable" /\ activeRequests > 0))
        BY DEF Take
      <3>2. ~(activeRequests > 0)
        BY <1>4, <3>1
      <3>. QED
        BY <1>1, <3>2 DEF HostTypes
    <2>2. \A a \in Actors : place[a] \notin Starts
      BY <2>1, NoneCounted DEF Off, OffQuiet
    <2>3. Silent'
      BY <1>1, <1>2, <1>3, <2>2 DEF Silent, Alone
    <2>4. \A a \in Actors : OffQuiet(a)'
      BY <1>1, <1>3 DEF Off, OffQuiet, Alone
    <2>. QED
      BY <2>3, <2>4 DEF Off
  <1>5. CASE kind[r] # "disable"
    BY <1>1, <1>3, <1>5, OffFrame DEF Disabling
  <1>. QED
    BY <1>4, <1>5

LEMMA OffStep ==
  ASSUME Control, CountOK, OffOK, [HostNext]_hostVars
  PROVE  OffOK'
  <1>. USE SessionsApart
  <1> SUFFICES ASSUME ~crossed', ~enabled' PROVE Off'
    BY OffOKIs DEF OffOK, Off, OffQuiet, Silent
  <1>1. HostTypes /\ \A a \in Actors : AtHome(a)
    BY DEF Control
  <1>2. ASSUME NEW r \in Requests, SaveState(r) PROVE Off'
    <2>1. /\ kind[r] = "disable" /\ kind'[r] = "disable" /\ place'[r] = "drain"
          /\ ~Crosses(r)
      BY <1>1, <1>2 DEF SaveState, To, HostTypes, AtHome, Starts, Halts, Uses
    <2>2. Alone(r)
      BY <1>2, RequestAlone DEF SwitchStep
    <2>3. ASSUME NEW b \in Actors PROVE OffQuiet(b)'
      <3>1. CASE b = r
        BY <2>1, <3>1 DEF OffQuiet, Starts
      <3>2. CASE b # r
        <4>1. \/ kind[b] = "call" /\ place[b] \in Starts \cup {"invoke", "release"}
              \/ place[b] \notin Starts \cup {"gate", "check"}
          BY <2>1, <3>2 DEF Crosses, Counted
        <4>. QED
          BY <2>2, <3>2, <4>1 DEF OffQuiet, Alone, Starts
      <3>. QED
        BY <3>1, <3>2
    <2>. QED
      BY <2>1, <2>3 DEF Off, Disabling
  <1>3. ASSUME UNCHANGED enabled PROVE Off
    BY <1>3, CrossedStays, OffOKIs
  <1>4. ASSUME NEW a \in Actors, Look(a) \/ StartSession(a) \/ Yield(a) PROVE Off'
    <2>1. Off
      BY <1>3, <1>4 DEF Look, StartSession, Yield, hostDisk, hostHistory
    <2>2. place[a] \in Starts /\ kind[a] = "call"
      BY <1>4, <2>1 DEF Look, StartSession, Yield, Starts, Off, OffQuiet
    <2>3. /\ kind'[a] = "call"
          /\ place'[a] \in {"invoke", "start", "register", "release", "yield"}
      BY <1>1, <1>4, <2>2 DEF Look, StartSession, Yield, Proceed, To, HostTypes, hostActors
    <2>. QED
      BY <1>4, <2>1, <2>2, <2>3, EnsureAlone, OffFrame DEF OffQuiet, Disabling
  <1>5. ASSUME NEW a \in Actors, RegisterSession(a) PROVE Off'
    <2>1. Off
      BY <1>3, <1>5, RegisterFacts DEF hostDisk, hostHistory
    <2>2. place[a] = "register" /\ kind[a] = "call"
      BY <1>5, <2>1, RegisterFacts DEF Off, OffQuiet, Starts
    <2>3. PICK r \in Requests : Disabling(r)
      BY <2>1, <2>2 DEF Off, Silent, Starts
    <2>4. CASE Alone(a) /\ place'[a] = "yield" /\ kind'[a] = kind[a]
      BY <2>1, <2>2, <2>4, OffFrame DEF OffQuiet, Disabling, Starts
    <2>5. CASE /\ place'[a] \in {"invoke", "unlock", "idle"}
               /\ place'[mine[a]] = "watch"
               /\ \A b \in Actors \ {a, mine[a]} :
                    place'[b] = place[b] /\ kind'[b] = kind[b] /\ fact'[b] = fact[b]
      <3>1. r # a /\ r # mine[a]
        BY <1>5, <2>2, <2>3, RegisterFacts DEF Disabling
      <3>2. Disabling(r)'
        BY <2>3, <2>5, <3>1 DEF Disabling
      <3>3. \A b \in Actors : OffQuiet(b)'
        BY <2>1, <2>5 DEF Off, OffQuiet, Starts
      <3>. QED
        BY <3>2, <3>3 DEF Off
    <2>. QED
      BY <1>5, <2>4, <2>5, RegisterFacts
  <1>6. ASSUME NEW r \in Requests, Halt(r) PROVE Off'
    <2>1. CASE Take(r)
      <3>1. Off
        BY <1>3, <2>1 DEF Take, hostDisk
      <3>. QED
        BY <2>1, <3>1, OffTake
    <2>2. CASE Tell(r) \/ Await(r)
      <3>1. Off
        BY <1>3, <2>2 DEF Tell, Await, hostDisk, hostHistory
      <3>2. place[r] \in {"tell", "await"}
        BY <2>2 DEF Tell, Await
      <3>3. place'[r] \in {"await", "unlock", "program", "end", "idle"}
        BY <1>1, <2>2 DEF Tell, Await, Halted, To, HostTypes
      <3>. QED
        BY <1>6, <3>1, <3>2, <3>3, RequestAlone, OffFrame DEF OffQuiet, Disabling, Starts
    <2>. QED
      BY <1>6, <2>1, <2>2 DEF Halt
  <1>7. ASSUME NEW r \in Requests, CallStep(r) PROVE Off'
    <2>1. UNCHANGED <<enabled, crossed>>
      BY <1>7 DEF CallStep, CallPlugin, AcquireServing, Invoke, ReleaseServing, hostDisk, hostHistory
    <2>2. Off /\ ~enabled
      BY <1>3, <2>1
    <2>3. kind[r] \in {"none", "call"}
      BY <1>1, <1>7
         DEF CallStep, CallPlugin, AcquireServing, Invoke, ReleaseServing, Become, HostTypes, AtHome, Starts,
             Halts, Uses
    <2>4. place'[r] \in {"gate", "idle", "release"} /\ (place'[r] = "gate" => ~fact'[r].on)
      <3>1. CASE CallPlugin(r)
        BY <1>1, <2>2, <3>1 DEF CallPlugin, Become, To, HostTypes, Discovered
      <3>2. CASE AcquireServing(r)
        BY <1>1, <2>2, <3>2 DEF AcquireServing, Leave, To, HostTypes, Off, OffQuiet
      <3>3. CASE Invoke(r) \/ ReleaseServing(r)
        BY <1>1, <3>3 DEF Invoke, ReleaseServing, Leave, To, HostTypes
      <3>. QED
        BY <1>7, <3>1, <3>2, <3>3 DEF CallStep
    <2>. QED
      BY <1>7, <2>2, <2>3, <2>4, RequestAlone, OffFrame DEF OffQuiet, Disabling, Starts
  <1>8. ASSUME NEW r \in Requests, SwitchStep(r), ~SaveState(r) PROVE Off'
    <2>1. Off
      BY <1>3, <1>8
         DEF SwitchStep, Switch, TryLock, SaveFails, Unlock, Become, hostDisk, hostHistory
    <2>2. /\ place'[r] \in {"lock", "save", "unlock", "idle"}
          /\ place[r] \in {"idle", "lock", "save", "unlock"}
      BY <1>1, <1>8
         DEF SwitchStep, Switch, TryLock, SaveFails, Unlock, Become, Leave, To, HostTypes
    <2>. QED
      BY <1>8, <2>1, <2>2, RequestAlone, OffFrame DEF OffQuiet, Disabling, Starts
  <1>9. ASSUME NEW r \in Requests, UpdateStep(r) PROVE Off'
    <2>1. UNCHANGED enabled
      BY <1>9
         DEF UpdateStep, BeginUpdate, Drain, Replace, EndPluginUpdate, RestoreLifecycle, Shutdown,
             hostDisk
    <2>2. Off /\ ~enabled
      BY <1>3, <2>1
    <2>3. place'[r] \in {"drain", "take", "idle", "end", "restore", "unlock", "invoke"}
      BY <1>1, <1>9, <2>2
         DEF UpdateStep, BeginUpdate, Drain, Replace, EndPluginUpdate, RestoreLifecycle, Shutdown,
             Proceed, Become, Leave, To, HostTypes
    <2>4. Disabling(r) => Disabling(r)'
      BY <1>1, <1>9
         DEF UpdateStep, BeginUpdate, Drain, Replace, EndPluginUpdate, RestoreLifecycle, Shutdown,
             Become, To, HostTypes, Disabling
    <2>. QED
      BY <1>9, <2>2, <2>3, <2>4, RequestAlone, OffFrame DEF OffQuiet, Starts
  <1>10. ASSUME NEW i \in PluginSessions, WatchStep(i) \/ Exit(i) PROVE Off'
    <2>1. UNCHANGED <<enabled, crossed>>
      BY <1>10 DEF WatchStep, Watch, Delay, Discover, CheckIdle, Exit, hostDisk, hostHistory
    <2>2. Off /\ ~enabled
      BY <1>3, <2>1
    <2>3. ~Disabling(i)
      BY <1>1 DEF AtHome, Disabling
    <2>4. CASE Exit(i)
      BY <1>10, <2>2, <2>3, <2>4, WatchAlone, OffFrame DEF Exit, hostActors, Off, OffQuiet
    <2>5. CASE WatchStep(i)
      <3>1. place'[i] \in {"idle", "delay", "discover"}
        BY <1>1, <2>2, <2>5
           DEF WatchStep, Watch, Delay, Discover, CheckIdle, Leave, To, HostTypes, Off, OffQuiet
      <3>. QED
        BY <1>10, <2>2, <2>3, <3>1, WatchAlone, OffFrame DEF OffQuiet, Starts
    <2>. QED
      BY <1>10, <2>4, <2>5
  <1>11. CASE UNCHANGED hostVars
    <2>1. Off
      BY <1>3, <1>11 DEF hostVars, hostDisk, hostHistory
    <2>. QED
      BY <1>11, <2>1 DEF hostVars, hostActors, hostSessions, Off, OffQuiet, Silent, Disabling
  <1>. QED
    BY <1>2, <1>4, <1>5, <1>6, <1>7, <1>8, <1>9, <1>10, <1>11
       DEF HostNext, Ensure, Halt, CallStep, SwitchStep, UpdateStep, WatchStep

-----------------------------------------------------------------------------
(* The gate is closed. *)

\* What one actor finds and leaves when the gate is closed.
ShutQuiet(a) ==
    /\ place[a] \in Starts => kind[a] = "call"
    /\ place[a] # "restore"
    /\ kind[a] = "enable" => place[a] \notin {"lock", "save"}
Shut == (\A a \in Actors : ShutQuiet(a)) /\ ((\E r \in Requests : Emptied(r)) => resident = Nobody)

LEMMA ShutOKIs == ShutOK <=> (~crossed /\ updating => Shut)
  BY DEF ShutOK, Shut, ShutQuiet

LEMMA ShutFrame ==
  ASSUME Shut, NEW a \in Actors, Alone(a), ShutQuiet(a)', Emptied(a)' => Emptied(a) \/ resident' = Nobody
  PROVE  Shut'
  <1>1. \A b \in Actors : ShutQuiet(b)'
    BY DEF Shut, ShutQuiet, Alone
  <1>2. ASSUME NEW r \in Requests, Emptied(r)' PROVE resident' = Nobody
    BY <1>2, SessionsApart DEF Shut, Emptied, Alone
  <1>. QED
    BY <1>1, <1>2 DEF Shut

LEMMA ShutStep ==
  ASSUME Control, CountOK, GateOK, ShutOK, [HostNext]_hostVars
  PROVE  ShutOK'
  <1>. USE SessionsApart
  <1> SUFFICES ASSUME ~crossed', updating' PROVE Shut'
    BY ShutOKIs DEF ShutOK, Shut, ShutQuiet, Emptied
  <1>1. HostTypes /\ \A a \in Actors : AtHome(a)
    BY DEF Control
  <1>2. ASSUME NEW r \in Requests, BeginUpdate(r) PROVE Shut'
    <2>1. ~updating /\ ~Crosses(r) /\ kind'[r] = "update" /\ place'[r] = "drain"
      BY <1>1, <1>2 DEF BeginUpdate, Become, To, HostTypes
    <2>2. Alone(r)
      BY <1>2, RequestAlone DEF UpdateStep
    <2>3. ASSUME NEW b \in Actors PROVE ShutQuiet(b)'
      <3>1. CASE b = r
        BY <2>1, <3>1 DEF ShutQuiet, Starts
      <3>2. CASE b # r
        <4>1. \/ kind[b] = "call" /\ place[b] \in Starts \cup {"invoke", "release"}
              \/ /\ place[b] \notin Starts \cup {"restore"}
                 /\ ~(kind[b] = "enable" /\ place[b] \in {"lock", "save"})
          BY <2>1, <3>2 DEF Crosses, Counted
        <4>. QED
          BY <2>2, <3>2, <4>1 DEF ShutQuiet, Alone, Starts
      <3>. QED
        BY <3>1, <3>2
    <2>4. ASSUME NEW q \in Requests PROVE ~Emptied(q)'
      <3>1. ~Operating(q)
        BY <2>1 DEF GateOK
      <3>. QED
        BY <2>1, <2>2, <3>1 DEF Alone, Emptied, Operating, Replacing, Halts
    <2>. QED
      BY <2>3, <2>4 DEF Shut
  <1>3. ASSUME updating' => updating PROVE Shut /\ updating
    BY <1>3, CrossedStays, ShutOKIs
  <1>4. ASSUME NEW a \in Actors, Look(a) \/ StartSession(a) \/ Yield(a) PROVE Shut'
    <2>1. Shut
      BY <1>3, <1>4 DEF Look, StartSession, Yield, hostGate
    <2>2. place[a] \in Starts /\ kind[a] = "call"
      BY <1>4, <2>1 DEF Look, StartSession, Yield, Starts, Shut, ShutQuiet
    <2>3. /\ kind'[a] = "call"
          /\ place'[a] \in {"invoke", "start", "register", "release", "yield"}
      BY <1>1, <1>4, <2>2 DEF Look, StartSession, Yield, Proceed, To, HostTypes, hostActors
    <2>. QED
      BY <1>4, <2>1, <2>2, <2>3, EnsureAlone, ShutFrame DEF ShutQuiet, Emptied
  <1>5. ASSUME NEW a \in Actors, RegisterSession(a) PROVE Shut'
    <2>1. Shut
      BY <1>3, <1>5, RegisterFacts DEF hostGate
    <2>2. place[a] = "register" /\ kind[a] = "call"
      BY <1>5, <2>1, RegisterFacts DEF Shut, ShutQuiet, Starts
    <2>3. activeRequests # 0
      BY <2>2, NoneCounted DEF Starts
    <2>4. \A r \in Requests : ~Emptied(r)
      BY <2>3 DEF GateOK, Replacing, Emptied, Halts
    <2>5. CASE Alone(a) /\ place'[a] = "yield" /\ kind'[a] = kind[a]
      BY <2>1, <2>2, <2>5, ShutFrame DEF ShutQuiet, Emptied, Starts
    <2>6. CASE /\ place'[a] \in {"invoke", "unlock", "idle"}
               /\ place'[mine[a]] = "watch" /\ kind'[mine[a]] = "watch"
               /\ \A b \in Actors \ {a, mine[a]} :
                    place'[b] = place[b] /\ kind'[b] = kind[b] /\ fact'[b] = fact[b]
      <3>1. \A b \in Actors : ShutQuiet(b)'
        BY <2>1, <2>6 DEF Shut, ShutQuiet, Starts
      <3>2. \A r \in Requests : ~Emptied(r)'
        BY <2>4, <2>6 DEF Emptied
      <3>. QED
        BY <3>1, <3>2 DEF Shut
    <2>. QED
      BY <1>5, <2>5, <2>6, RegisterFacts
  <1>6. ASSUME NEW r \in Requests, Halt(r) PROVE Shut'
    <2>1. Shut
      BY <1>3, <1>6 DEF Halt, Take, Tell, Await, hostGate
    <2>2. place'[r] \in {"tell", "await", "unlock", "program", "end", "idle"}
      BY <1>1, <1>6 DEF Halt, Take, Tell, Await, Halted, To, HostTypes
    <2>3. CASE Take(r)
      <3>1. resident' = Nobody
        BY <2>3 DEF Take
      <3>. QED
        BY <1>6, <2>1, <2>2, <3>1, RequestAlone, ShutFrame DEF ShutQuiet, Starts
    <2>4. CASE Tell(r) \/ Await(r)
      <3>1. place[r] \in {"tell", "await"} /\ kind'[r] \in {kind[r], "none"}
        BY <1>1, <2>4 DEF Tell, Await, Halted, HostTypes
      <3>. QED
        BY <1>6, <2>1, <2>2, <3>1, RequestAlone, ShutFrame DEF ShutQuiet, Emptied, Starts
    <2>. QED
      BY <1>6, <2>3, <2>4 DEF Halt
  <1>7. ASSUME NEW r \in Requests, CallStep(r) PROVE Shut'
    <2>1. UNCHANGED updating
      BY <1>7 DEF CallStep, CallPlugin, AcquireServing, Invoke, ReleaseServing, hostGate
    <2>2. Shut /\ updating
      BY <1>3, <2>1
    <2>3. place'[r] \in {"gate", "idle", "release"} /\ kind'[r] \in {"call", "none"}
      BY <1>1, <1>7, <2>2
         DEF CallStep, CallPlugin, AcquireServing, Invoke, ReleaseServing, Become, Leave, To, HostTypes,
             AtHome, Starts, Halts, Uses
    <2>. QED
      BY <1>7, <2>2, <2>3, RequestAlone, ShutFrame DEF ShutQuiet, Emptied, Starts
  <1>8. ASSUME NEW r \in Requests, SwitchStep(r) PROVE Shut'
    <2>1. UNCHANGED updating
      BY <1>8 DEF SwitchStep, Switch, TryLock, SaveState, SaveFails, Unlock, hostGate
    <2>2. Shut /\ updating
      BY <1>3, <2>1
    <2>3. /\ place'[r] \in {"save", "unlock", "drain", "idle"}
          /\ kind'[r] \in {kind[r], "none"}
          /\ kind[r] = "enable" => place'[r] # "save"
      <3>1. kind[r] = "enable" => place[r] \notin {"lock", "save"}
        BY <2>2 DEF Shut, ShutQuiet
      <3>2. ~\E k \in {"enable", "disable"} : Switch(r, k)
        BY <2>2 DEF Switch
      <3>3. CASE TryLock(r)
        BY <1>1, <3>1, <3>3 DEF TryLock, Leave, To, HostTypes
      <3>4. CASE SaveState(r) \/ SaveFails(r)
        BY <1>1, <3>1, <3>4 DEF SaveState, SaveFails, To, HostTypes
      <3>5. CASE Unlock(r)
        BY <1>1, <3>5 DEF Unlock, Leave, To, HostTypes
      <3>. QED
        BY <1>8, <3>2, <3>3, <3>4, <3>5 DEF SwitchStep
    <2>. QED
      BY <1>8, <2>2, <2>3, RequestAlone, ShutFrame DEF ShutQuiet, Emptied, Starts
  <1>9. ASSUME NEW r \in Requests, UpdateStep(r), ~BeginUpdate(r) PROVE Shut'
    <2>1. ~EndPluginUpdate(r)
      BY DEF EndPluginUpdate
    <2>2. updating' => updating
      BY <1>9, <2>1 DEF UpdateStep, Drain, Replace, RestoreLifecycle, Shutdown, hostGate
    <2>3. Shut /\ updating
      BY <1>3, <2>2
    <2>4. ~RestoreLifecycle(r)
      BY <2>3 DEF Shut, ShutQuiet, RestoreLifecycle
    <2>5. place'[r] \in {"take", "idle", "end"} /\ kind'[r] \in {kind[r], "none", "shutdown"}
      BY <1>1, <1>9, <2>1, <2>4
         DEF UpdateStep, Drain, Replace, Shutdown, Become, Leave, To, HostTypes
    <2>. QED
      BY <1>9, <2>3, <2>5, RequestAlone, ShutFrame DEF ShutQuiet, Emptied, Starts
  <1>10. ASSUME NEW i \in PluginSessions, WatchStep(i) \/ Exit(i) PROVE Shut'
    <2>1. UNCHANGED updating
      BY <1>10 DEF WatchStep, Watch, Delay, Discover, CheckIdle, Exit, hostGate
    <2>2. Shut /\ updating
      BY <1>3, <2>1
    <2>3. kind[i] \in {"none", "watch"} /\ kind'[i] \in {kind[i], "none"}
      BY <1>1, <1>10
         DEF AtHome, WatchStep, Watch, Delay, Discover, CheckIdle, Exit, Leave, HostTypes, hostActors
    <2>4. CASE Exit(i)
      BY <1>10, <2>2, <2>3, <2>4, WatchAlone, ShutFrame DEF Exit, hostActors, Shut, ShutQuiet, Emptied
    <2>5. CASE WatchStep(i)
      <3>1. place'[i] \in {"idle", "delay", "discover", "check"}
        BY <1>1, <2>2, <2>5
           DEF WatchStep, Watch, Delay, Discover, CheckIdle, Leave, To, HostTypes
      <3>. QED
        BY <1>10, <2>2, <2>3, <3>1, WatchAlone, ShutFrame DEF ShutQuiet, Emptied, Starts
    <2>. QED
      BY <1>10, <2>4, <2>5
  <1>11. CASE UNCHANGED hostVars
    <2>1. Shut
      BY <1>3, <1>11 DEF hostVars, hostGate
    <2>. QED
      BY <1>11, <2>1 DEF hostVars, hostActors, hostSessions, Shut, ShutQuiet, Emptied
  <1>. QED
    BY <1>2, <1>4, <1>5, <1>6, <1>7, <1>8, <1>9, <1>10, <1>11
       DEF HostNext, Ensure, Halt, CallStep, SwitchStep, UpdateStep, WatchStep

-----------------------------------------------------------------------------
(* The version in use. *)

UpToDate(a) ==
    /\ place[a] = "register" => release[mine[a]] = program
    /\ place[a] \in {"gate", "check", "look", "start"} => fact[a].version = program
Current == (resident # Nobody => release[resident] = program) /\ \A a \in Actors : UpToDate(a)

LEMMA CurrentOKIs == CurrentOK <=> (~crossed => Current)
  BY DEF CurrentOK, Current, UpToDate

LEMMA CurrentFrame ==
  ASSUME Current, NEW a \in Actors, Alone(a), UNCHANGED <<release, program>>, UpToDate(a)'
  PROVE  Current'
  <1>1. \A b \in Actors : UpToDate(b)'
    BY DEF Current, UpToDate, Alone
  <1>. QED
    BY <1>1 DEF Current, Alone

LEMMA CurrentStep ==
  ASSUME Control, CountOK, GateOK, ShutOK, CurrentOK, [HostNext]_hostVars
  PROVE  CurrentOK'
  <1>. USE SessionsApart
  <1> SUFFICES ASSUME ~crossed' PROVE Current'
    BY CurrentOKIs DEF CurrentOK, Current, UpToDate
  <1>1. HostTypes /\ \A a \in Actors : AtHome(a)
    BY DEF Control
  <1>2. ~crossed /\ Current
    BY CrossedStays, CurrentOKIs
  <1>3. ASSUME NEW r \in Requests, Replace(r) PROVE Current'
    <2>1. /\ place[r] = "program" /\ place'[r] = "end" /\ UNCHANGED resident
          /\ crossed' = (crossed \/ Crosses(r))
      BY <1>1, <1>3 DEF Replace, To, HostTypes, hostSessions
    <2>2. kind[r] = "update"
      BY <1>1, <2>1 DEF AtHome, Starts, Halts, HostTypes, Uses
    <2>3. Replacing(r) /\ Operating(r) /\ Emptied(r)
      BY <2>1, <2>2 DEF Replacing, Operating, Emptied
    <2>4. updating /\ activeRequests = 0
      BY <2>3 DEF GateOK
    <2>5. resident = Nobody
      BY <1>2, <2>3, <2>4, ShutOKIs DEF Shut
    <2>6. ~Crosses(r)
      BY <2>1
    <2>7. Alone(r)
      BY <1>3, RequestAlone DEF UpdateStep
    <2>8. ASSUME NEW b \in Actors \ {r}
          PROVE  place[b] \notin Starts \cup {"gate", "check"}
      <3>1. CASE Counted(b)
        BY <2>4, <3>1, NoneCounted DEF Counted, Starts
      <3>2. CASE ~Counted(b)
        BY <2>6, <3>2 DEF Crosses
      <3>. QED
        BY <3>1, <3>2
    <2>9. \A b \in Actors : UpToDate(b)'
      BY <2>1, <2>7, <2>8 DEF UpToDate, Alone, Starts
    <2>. QED
      BY <2>1, <2>5, <2>9 DEF Current
  <1>4. ASSUME NEW a \in Actors, Look(a) \/ Yield(a) \/ (StartSession(a) /\ process' = process)
        PROVE  Current'
    <2>1. UNCHANGED <<program, release>>
      BY <1>1, <1>4 DEF Look, StartSession, Yield, hostDisk, hostSessions, HostTypes
    <2>2. Alone(a)
      BY <1>4, EnsureAlone
    <2>3. UpToDate(a)'
      BY <1>1, <1>2, <1>4
         DEF Look, StartSession, Yield, Use, Proceed, To, HostTypes, hostActors, hostDisk, Current, UpToDate
    <2>. QED
      BY <1>2, <2>1, <2>2, <2>3, CurrentFrame
  <1>5. ASSUME NEW a \in Actors, StartSession(a), process' # process PROVE Current'
    <2>1. PICK i \in PluginSessions :
            /\ process[i] = "new"
            /\ release' = [release EXCEPT ![i] = fact[a].version]
            /\ mine' = [mine EXCEPT ![a] = i]
            /\ place' = [place EXCEPT ![a] = "register"]
            /\ place[a] = "start"
            /\ UNCHANGED <<fact, resident, program>>
      BY <1>5 DEF StartSession, To, hostDisk
    <2>2. release'[i] = program /\ \A j \in PluginSessions \ {i} : release'[j] = release[j]
      BY <1>1, <1>2, <2>1 DEF Current, UpToDate, HostTypes
    <2>3. /\ resident # i
          /\ \A b \in Actors : place[b] = "register" => mine[b] \in PluginSessions \ {i}
      BY <1>1, <2>1 DEF Control, Unregistered, AtHome, HostTypes
    <2>4. resident' # Nobody => release'[resident'] = program'
      BY <1>1, <1>2, <2>1, <2>2, <2>3 DEF Current, HostTypes
    <2>5. ASSUME NEW b \in Actors PROVE UpToDate(b)'
      <3>1. CASE b = a
        BY <1>1, <2>1, <2>2, <3>1 DEF UpToDate, HostTypes
      <3>2. CASE b # a
        <4>1. place'[b] = place[b] /\ mine'[b] = mine[b] /\ fact'[b] = fact[b] /\ UpToDate(b)
          BY <1>1, <1>2, <2>1, <3>2 DEF Current, HostTypes
        <4>. QED
          BY <2>1, <2>2, <2>3, <4>1 DEF UpToDate
      <3>. QED
        BY <3>1, <3>2
    <2>. QED
      BY <2>4, <2>5 DEF Current
  <1>6. ASSUME NEW a \in Actors, RegisterSession(a) PROVE Current'
    <2>1. UNCHANGED <<program, release>> /\ place[a] = "register" /\ mine[a] \in PluginSessions
      BY <1>6, RegisterFacts DEF hostDisk
    <2>2. CASE Alone(a) /\ place'[a] = "yield"
      BY <1>2, <2>1, <2>2, CurrentFrame DEF UpToDate
    <2>3. CASE /\ place'[a] \in {"invoke", "unlock", "idle"}
               /\ resident' = mine[a] /\ place'[mine[a]] = "watch"
               /\ \A b \in Actors \ {a, mine[a]} :
                    place'[b] = place[b] /\ fact'[b] = fact[b] /\ mine'[b] = mine[b]
      <3>1. \A b \in Actors : UpToDate(b)'
        BY <1>2, <2>1, <2>3 DEF Current, UpToDate
      <3>2. release'[resident'] = program'
        BY <1>2, <2>1, <2>3 DEF Current, UpToDate
      <3>. QED
        BY <3>1, <3>2 DEF Current
    <2>. QED
      BY <1>6, <2>2, <2>3, RegisterFacts
  <1>7. ASSUME NEW r \in Requests, Halt(r) PROVE Current'
    <2>1. UNCHANGED <<program, release>>
      BY <1>7 DEF Halt, Take, Tell, Await, hostDisk
    <2>2. place'[r] \in {"tell", "await", "unlock", "program", "end", "idle"}
      BY <1>1, <1>7 DEF Halt, Take, Tell, Await, Halted, To, HostTypes
    <2>. QED
      BY <1>2, <1>7, <2>1, <2>2, RequestAlone, CurrentFrame DEF UpToDate
  <1>8. ASSUME NEW r \in Requests, CallStep(r) PROVE Current'
    <2>1. UNCHANGED <<program, release>>
      BY <1>8 DEF CallStep, CallPlugin, AcquireServing, Invoke, ReleaseServing, hostDisk, hostSessions
    <2>2. UpToDate(r)'
      <3>1. CASE CallPlugin(r)
        BY <1>1, <2>1, <3>1 DEF CallPlugin, Become, To, HostTypes, Discovered, UpToDate
      <3>2. CASE AcquireServing(r)
        BY <1>1, <1>2, <2>1, <3>2 DEF AcquireServing, Leave, To, HostTypes, Current, UpToDate
      <3>3. CASE Invoke(r) \/ ReleaseServing(r)
        BY <1>1, <3>3 DEF Invoke, ReleaseServing, Leave, To, HostTypes, UpToDate
      <3>. QED
        BY <1>8, <3>1, <3>2, <3>3 DEF CallStep
    <2>. QED
      BY <1>2, <1>8, <2>1, <2>2, RequestAlone, CurrentFrame
  <1>9. ASSUME NEW r \in Requests, SwitchStep(r) PROVE Current'
    <2>1. UNCHANGED <<program, release>>
      BY <1>9 DEF SwitchStep, Switch, TryLock, SaveState, SaveFails, Unlock, hostDisk, hostSessions
    <2>2. place'[r] \in {"lock", "save", "unlock", "restore", "drain", "idle"}
      BY <1>1, <1>9
         DEF SwitchStep, Switch, TryLock, SaveState, SaveFails, Unlock, Become, Leave, To, HostTypes
    <2>. QED
      BY <1>2, <1>9, <2>1, <2>2, RequestAlone, CurrentFrame DEF UpToDate
  <1>10. ASSUME NEW r \in Requests, UpdateStep(r), ~Replace(r) PROVE Current'
    <2>1. UNCHANGED <<program, release>>
      BY <1>10
         DEF UpdateStep, BeginUpdate, Drain, EndPluginUpdate, RestoreLifecycle, Shutdown, hostDisk,
             hostSessions
    <2>2. UpToDate(r)'
      <3>1. CASE RestoreLifecycle(r)
        BY <1>1, <2>1, <3>1 DEF RestoreLifecycle, Proceed, To, HostTypes, Discovered, UpToDate
      <3>2. CASE BeginUpdate(r) \/ Drain(r) \/ EndPluginUpdate(r) \/ Shutdown(r)
        <4>1. place'[r] \in {"drain", "take", "restore", "idle"}
          BY <1>1, <3>2 DEF BeginUpdate, Drain, EndPluginUpdate, Shutdown, Become, Leave, To, HostTypes
        <4>. QED
          BY <4>1 DEF UpToDate
      <3>. QED
        BY <1>10, <3>1, <3>2 DEF UpdateStep
    <2>. QED
      BY <1>2, <1>10, <2>1, <2>2, RequestAlone, CurrentFrame
  <1>11. ASSUME NEW i \in PluginSessions, WatchStep(i) \/ Exit(i) PROVE Current'
    <2>1. UNCHANGED <<program, release>>
      BY <1>11 DEF WatchStep, Watch, Delay, Discover, CheckIdle, Exit, hostDisk, hostSessions
    <2>2. UpToDate(i)'
      BY <1>1, <1>2, <1>11, <2>1
         DEF WatchStep, Watch, Delay, Discover, CheckIdle, Exit, Leave, To, HostTypes, hostActors,
             Discovered, Current, UpToDate
    <2>. QED
      BY <1>2, <1>11, <2>1, <2>2, WatchAlone, CurrentFrame
  <1>12. CASE UNCHANGED hostVars
    BY <1>2, <1>12 DEF hostVars, hostActors, hostSessions, hostDisk, Current, UpToDate
  <1>. QED
    BY <1>3, <1>4, <1>5, <1>6, <1>7, <1>8, <1>9, <1>10, <1>11, <1>12
       DEF HostNext, Ensure, Halt, CallStep, SwitchStep, UpdateStep, WatchStep

-----------------------------------------------------------------------------
LEMMA SettledInit == HostInit => SettledInv
  <1> SUFFICES ASSUME HostInit PROVE SettledInv
    OBVIOUS
  <1>1. Locked /\ ShutOK
    BY SessionsApart DEF HostInit, Locked, ShutOK, Starts, Emptied
  <1>2. OffOK
    BY SessionsApart DEF HostInit, OffOK, Starts
  <1>3. CurrentOK
    BY DEF HostInit, CurrentOK
  <1>. QED
    BY <1>1, <1>2, <1>3 DEF SettledInv

LEMMA SettledInvariant == HostSpec => [](HostInv /\ SettledInv)
  <1>1. HostInv /\ SettledInv /\ [HostNext]_hostVars => SettledInv'
    BY LockStep, OffStep, ShutStep, CurrentStep DEF HostInv, SettledInv
  <1>. QED
    BY <1>1, SettledInit, HostInvariant, PTL DEF HostSpec

\* A plugin that was switched off has no resident process, if nobody acted on what it
\* had discovered before: the switch saves first, waits for the counted calls, and
\* takes the process away last (lifecycle_switch.go: DisablePlugin).
THEOREM HostOffWhenDisabled == HostSpec => []OffWhenDisabled
  <1>1. Locked /\ OffOK => OffWhenDisabled
    <2> SUFFICES ASSUME Locked, OffOK, ~crossed, ~enabled, lifecycle = Nobody PROVE resident = Nobody
      BY DEF OffWhenDisabled
    <2>1. ASSUME NEW r \in Requests PROVE ~Disabling(r)
      BY SessionsApart DEF Locked, Disabling
    <2>. QED
      BY <2>1 DEF OffOK
  <1>. QED
    BY <1>1, SettledInvariant, PTL DEF SettledInv

\* While the program is replaced the table holds no process of it, with the same
\* exception (operation.go: runPluginOperationAsync, activity.go: beginUpdate).
THEOREM HostStoppedWhileReplaced == HostSpec => []StoppedWhileReplaced
  <1>1. HostInv /\ ShutOK => StoppedWhileReplaced
    <2> SUFFICES ASSUME HostInv, ShutOK, ~crossed, NEW r \in Requests, place[r] = "program"
                 PROVE  resident = Nobody
      BY DEF StoppedWhileReplaced
    <2>1. kind[r] = "update"
      BY SessionsApart DEF HostInv, Control, AtHome, Starts, Halts, HostTypes, Uses
    <2>2. updating /\ Emptied(r)
      BY <2>1 DEF HostInv, GateOK, Operating, Replacing, Emptied
    <2>. QED
      BY <2>2 DEF ShutOK
  <1>. QED
    BY <1>1, SettledInvariant, PTL DEF SettledInv

\* The resident process runs the version of the program in use, with the same exception
\* (operation.go: restorePluginLifecycle discovers the plugin anew).
THEOREM HostRunsCurrent == HostSpec => []RunsCurrent
  <1>1. CurrentOK => RunsCurrent
    BY DEF CurrentOK, RunsCurrent
  <1>. QED
    BY <1>1, SettledInvariant, PTL DEF SettledInv
=============================================================================
