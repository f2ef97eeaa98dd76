\* Sessions: two callers, two sessions, three calls; two failures, one cancellation, one
\* restart.
\* Events: two messages with three events, one subscriber with a channel for one event.
CONSTANTS
    a = a  b = b
    None = None
    Callers = {a, b}
    Sessions = {s1, s2}
    MaxCalls = 3
    MaxFaults = 2
    MaxCancels = 1
    MaxCrashes = 1
    Messages = {a, b}
    Subscribers = {s1}
    OutLimit = 1
    MaxLength = 2
    MaxRewrites = 0
    MaxEvents = 3
SPECIFICATION PairSpec
SYMMETRY Symmetry
CHECK_DEADLOCK FALSE
INVARIANTS
    TypeOK
    IndexAgrees
    AckedKept
    EventsInOrder
    BinRecorded
    StreamTypeOK
    InSync
PROPERTY
    KeepsLedger
