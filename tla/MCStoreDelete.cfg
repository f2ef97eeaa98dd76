\* One caller, one session; a deletion whose context is cancelled on the way. No file
\* operation fails and the process does not end.
CONSTANTS
    c1 = c1  c2 = c2  s1 = s1  s2 = s2
    None = None
    Callers = {c1}
    Sessions = {s1}
    MaxCalls = 2
    MaxFaults = 0
    MaxCancels = 1
    MaxCrashes = 0
SPECIFICATION Spec
INVARIANT DeleteUndone
CHECK_DEADLOCK FALSE
