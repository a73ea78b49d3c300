SPECIFICATION Spec
CONSTANTS
    Files <- MCFiles
    Contents <- MCContents
    Findings <- MCFindings
    Respelled = {2}
    RequestIds = {"hover"}
    MaxClientSteps = 4
INVARIANTS
    TypeOK
    FindingsShown
    SavedFileFresh
    AnsweredInOrder
    StopsWhenTold
PROPERTY
    EveryRequestAnswered
    NoOrphan
CHECK_DEADLOCK FALSE
