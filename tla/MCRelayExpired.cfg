\* One call and the decision it relays; no other outcome competes for the table.
CONSTANTS
    Decisions = {d1}
    ToolCalls = {c1}
    OutcomeLimit = 1
SPECIFICATION RelaySpec
INVARIANT VerdictReachesRelay
CHECK_DEADLOCK FALSE
