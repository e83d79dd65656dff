SPECIFICATION FairSpec
CONSTANTS
    Http = {h1, h2}
    Rtsp = {r1, r2}
    Host = {pump}
    Hazards = {"disconnect", "launch_timeout", "bare_play", "stream_fails", "slow_drain", "shutdown"}
    MaxSessions = 2
INVARIANTS
    TypeOK
    OneOwner
    WatchedByItsOwn
    NothingOfOthers
    NoRunawayStreams
PROPERTIES
    ImplementsLifecycle
    StoppedSessionLeaves
    HandlersReturn
CHECK_DEADLOCK FALSE
