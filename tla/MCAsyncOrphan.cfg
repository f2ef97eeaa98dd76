\* Nothing fails; one run is cancelled.
CONSTANTS
    u1 = u1  u2 = u2  k1 = k1  t1 = t1
    NoOne = NoOne
    SessionRuns = {u1}
    UserRuns = {u1}
    Tasks = {t1}
    MaxFailures = 0
    MaxCancels = 1
    MaxCrashes = 0
SPECIFICATION TaskSpec
INVARIANTS
    ClaimNotOrphaned
