\* Tasks: two runs, started by the user or as continuations, one task; one failure, one
\* cancellation, one restart.
\* Plugins: two requests at a time, three altogether, two processes, one of them exits.
\* Relay: two calls and two decisions, a table for one outcome.
\* Migration: three files and a chain of two steps.
CONSTANTS
    a = a  b = b
    NoOne = NoOne
    SessionRuns = {a, b}
    UserRuns = {a, b}
    Tasks = {t1}
    MaxFailures = 1
    MaxCancels = 1
    MaxCrashes = 1
    Requests = {a, b}
    MaxSessions = 2
    MaxProgram = 2
    MaxRequests = 3
    MaxExits = 1
    Decisions = {d1, d2}
    ToolCalls = {a, b}
    OutcomeLimit = 1
    Files = {f1, f2, v}
    VersionFile = v
    Target = 2
SPECIFICATION ServicesSpec
SYMMETRY Symmetry
INVARIANTS
    TaskTypeOK
    InjectedOnce
    NoFalseLoss
    HostTypeOK
    NoLostProcess
    CallsOutsideUpdates
    OffWhenDisabled
    StoppedWhileReplaced
    RunsCurrent
    RelayTypeOK
    VerdictConserved
    ProjectionCleared
    MigTypeOK
    Recoverable
    NoMixedData
