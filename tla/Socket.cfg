CONSTANTS
    Subscriber = {s1, s2}
    MaxListChanges = 2
    MaxCasts = 1
SPECIFICATION SocketSpec
INVARIANT NothingMissed
PROPERTY ImplementsLatestValue
CHECK_DEADLOCK FALSE
