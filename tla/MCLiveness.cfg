\* Runs: one run whose inbox never overflows and whose goroutine never panics.
\* Tasks: nothing fails, nobody cancels, the process stays up: two runs, one task.
CONSTANTS
    r1 = r1  r2 = r2  c1 = c1  c2 = c2  c3 = c3  d1 = d1  d2 = d2
    None = None
    Runs = {r1}
    Clients = {c1, c2}
    Decisions = {d1, d2}
    InboxCap = 3
    MaxRetries = 1
    MaxSignals = 1
    CrashPoints <- NoCrash
    u1 = u1  u2 = u2  t1 = t1
    NoOne = NoOne
    SessionRuns = {u1, u2}
    UserRuns = {u1, u2}
    Tasks = {t1}
    MaxFailures = 0
    MaxCancels = 0
    MaxCrashes = 0
SPECIFICATION LiveSpec
INVARIANTS
    NoneStranded
    ClaimNotOrphaned
PROPERTIES
    CancelFinishes
    SubmitterAnswered
    ReadyIsInjected
