SPECIFICATION Spec
CONSTANTS
    Files <- MCFiles
    Contents <- MCContents
    Findings <- MCFindings
    Respelled = {}
    RequestIds = {"hover"}
    MaxClientSteps = 4
INVARIANTS
    ReportFresh
CHECK_DEADLOCK FALSE
