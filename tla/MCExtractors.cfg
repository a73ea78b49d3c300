SPECIFICATION Spec
CONSTANTS
    Programs <- MCPrograms
INVARIANTS
    GraphInv
    DefinitionsAddUp
    ImportedCallsReach
    ReceiversTyped
    LastTypeStands
    DirectivesCover
PROPERTY
    SecondPassOnlyReads
CHECK_DEADLOCK FALSE
