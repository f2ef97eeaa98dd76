\* Two clients, two operations, a call of the tool; one failed write, one restart.
CONSTANTS
    c1 = c1  c2 = c2
    Askers = {c1, c2}
    OpKinds = {"query", "install"}
    MaxVersion = 2
    MaxOps = 2
    MaxActive = 1
    MaxFailedWrites = 1
    MaxRestarts = 1
SPECIFICATION ToolSpec
SYMMETRY Symmetry
CHECK_DEADLOCK FALSE
INVARIANTS
    ToolTypeOK
    Exclusive
    MigratedFirst
    SignalledWhenOver
    AllOrNothing
PROPERTY
    CompletedKept
