\* Three files and a chain of two steps.
CONSTANTS
    Files = {f1, f2, v}
    VersionFile = v
    Target = 2
SPECIFICATION MigSpec
CHECK_DEADLOCK FALSE
INVARIANT Unmixed
