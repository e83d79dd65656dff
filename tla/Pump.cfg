SPECIFICATION FairPumpSpec
CONSTANTS
    Http = {h1}
    Rtsp = {r1}
    Host = {pump, serve}
    Pump = pump
    Serve = serve
    Hazards = {"stream_fails", "slow_drain", "shutdown"}
    MaxSessions = 1
INVARIANTS
    PumpTypeOK
    DevicesReleased
    NeverWedged
PROPERTIES
    PumpComesRoundOnceStarted
    ServeExits
CHECK_DEADLOCK FALSE
