\* One message, which its run and a relay publish, and one subscriber.
CONSTANTS
    Messages = {m1}
    Subscribers = {s1}
    OutLimit = 1
    MaxLength = 2
    MaxRewrites = 1
    MaxEvents = 3
SPECIFICATION StreamSpec
INVARIANT AlwaysInSync
CHECK_DEADLOCK FALSE
