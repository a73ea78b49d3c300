SPECIFICATION WorklistSpec
CONSTANTS
    Funcs = {f1, f2, f3}
    CalleeMaps <- MCCalleeMaps
INVARIANTS
    WorklistInv
    ClosureCorrect
PROPERTY
    Terminates
CHECK_DEADLOCK FALSE
