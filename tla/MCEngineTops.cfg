SPECIFICATION Spec
CONSTANTS
    FQN <- MCFQN
    Path <- MCPath
    Line <- MCLine
    Name <- MCName
    Graphs <- Tops
    Policies <- MCPolicies
INVARIANT
    ModuleScopeWithinFile
CHECK_DEADLOCK FALSE
