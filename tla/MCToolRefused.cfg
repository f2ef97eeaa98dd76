\* Two clients update the tool; nothing fails and nothing is restarted.
CONSTANTS
    c1 = c1  c2 = c2
    Askers = {c1, c2}
    OpKinds = {"query", "update"}
    MaxVersion = 2
    MaxOps = 2
    MaxActive = 1
    MaxFailedWrites = 0
    MaxRestarts = 0
SPECIFICATION ToolSpec
SYMMETRY Symmetry
CHECK_DEADLOCK FALSE
PROPERTY
    RefusedChangesNothing
