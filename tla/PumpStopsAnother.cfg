SPECIFICATION PumpSpec
CONSTANTS
    Http = {h1}
    Rtsp = {r1}
    Host = {pump, serve}
    Pump = pump
    Serve = serve
    Hazards = {"shutdown"}
    MaxSessions = 2
PROPERTY PumpStopsItsOwn
CHECK_DEADLOCK FALSE
