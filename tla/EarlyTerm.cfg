CONSTANTS
    Daemon = {d1, d2}
    UI = ui
    Nobody = nobody
    Hazards <- EarlyTerm
SPECIFICATION CastingSpec
PROPERTY SigtermReleases
CHECK_DEADLOCK FALSE
