SPECIFICATION Spec
CONSTANTS
    FQN <- MCFQN
    Path <- MCPath
    Line <- MCLine
    Name <- MCName
    Graphs <- MCGraphs
    Maps <- MCMaps
INVARIANTS
    CallsInv
    HopOrderCloses
CHECK_DEADLOCK FALSE
