\* Nothing fails; a run is kept for the continuation of the only task.
CONSTANTS
    u1 = u1  u2 = u2  k1 = k1  t1 = t1
    NoOne = NoOne
    SessionRuns = {u1, k1}
    UserRuns = {u1}
    Tasks = {t1}
    MaxFailures = 0
    MaxCancels = 0
    MaxCrashes = 0
SPECIFICATION TaskFairSpec
PROPERTIES
    ResultInjected
