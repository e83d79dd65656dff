CONSTANTS
    Client = {c1}
    Fingerprint = {f1, f2, f3, f4, f5}
    Presses <- Arrows
    Places = 1
    Radix = 2
    MAIN_ROW_COUNT = 6
    MaxChanges = 0
    MaxStops = 0
SPECIFICATION ConsoleSpec
INVARIANT RowsEndAboveHints
CHECK_DEADLOCK FALSE
