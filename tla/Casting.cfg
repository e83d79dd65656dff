CONSTANTS
    Daemon = {d1, d2}
    UI = ui
    Nobody = nobody
    Hazards <- AnyFault
SPECIFICATION CastingSpec
INVARIANTS
    OneCaster
    SpeakerIsFree
    ForeignConfigReturns
PROPERTY ToldDaemonEnds
CHECK_DEADLOCK FALSE
