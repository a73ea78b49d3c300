SPECIFICATION Spec
CONSTANTS
    Funcs <- MCFuncs
    NoFunc <- MCNoFunc
    Externals <- MCExternals
    Graphs <- MCGraphs
INVARIANTS
    ChainInv
    ChainIsShortest
    NilMeansUnreachable
PROPERTY
    Terminates
CHECK_DEADLOCK FALSE
