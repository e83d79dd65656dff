CONSTANTS
    Client = {c1}
    Fingerprint = {f1, f2}
    Presses <- Buttons
    Places = 2
    Radix = 2
    MAIN_ROW_COUNT = 3
    MaxChanges = 1
    MaxStops = 1
SPECIFICATION ConsoleSpec
INVARIANTS
    AnswerIsForThisScreen
    DisplayGivenBack
PROPERTIES
    ConsoleCatchesUp
CHECK_DEADLOCK FALSE
