\* Three submitters, two decisions, an inbox that can overflow, and panics at the calls
\* out of the run's goroutine.
CONSTANTS
    r1 = r1  r2 = r2  c1 = c1  c2 = c2  c3 = c3  d1 = d1  d2 = d2
    None = None
    Runs = {r1, r2}
    Clients = {c1, c2, c3}
    Decisions = {d1, d2}
    InboxCap = 2
    MaxRetries = 1
    MaxSignals = 2
    CrashPoints <- SomeCrashes
SPECIFICATION ScenarioSpec
ACTION_CONSTRAINT Scenario
SYMMETRY SymmetryRuns
INVARIANTS
    TypeOK
    TerminalEventOnce
    VisibleRoutable
    HeldOnce
    DoneIsClosed
PROPERTY
    KeepsContract
