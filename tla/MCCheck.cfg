SPECIFICATION JobSpec
CONSTANTS
    Id <- MCId
    GoodId <- MCGoodId
    Inputs <- MCInputs
    Jobs <- MCJobs
    MaxRivals = 1
INVARIANTS
    TypeOK
    UniqueIds
    AllOrNothing
    ExitTells
    ReportReadable
    RulesResolve
    EditorAgrees
    JobInv
    CommentTells
CHECK_DEADLOCK FALSE
