SPECIFICATION FairSpec
CONSTANTS
    Attempt = {a1, a2}
    Machine = {m1}
    Id = {i1}
    Hazards = {"disconnect", "expiry", "save_fails", "torn_write"}
    MaxCrashes = 1
    Typo = typo
    NoOne = noone
INVARIANTS
    ListsCurrent
    DiskCurrent
PROPERTIES
    PinMovesHandshake
    SubmitReturns
CHECK_DEADLOCK FALSE
