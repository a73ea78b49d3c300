SPECIFICATION Spec
CONSTANTS
    FQN <- MCFQN
    Path <- MCPath
    Line <- MCLine
    Name <- MCName
    Graphs <- MCGraphs
    Policies <- MCPolicies
INVARIANTS
    IInv
    EveryViolatorCovered
    RecursiveGroupTogether
PROPERTY
    Refinement
CHECK_DEADLOCK FALSE
