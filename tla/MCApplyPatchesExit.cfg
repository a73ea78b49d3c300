SPECIFICATION Spec
CONSTANTS
    Files <- MCFiles
    Texts <- MCTexts
    EditTexts <- MCEditTexts
    Findings <- MCFindings
    NoPatch <- MCNoPatch
    Snapshot <- MCSnapshot
    Cuts <- MCCuts
    MaxEdits = 0
    Tokens <- MCTokens
    NL = "NL"
    Source <- MCSource
    Reports <- MCReports
    NoCall <- MCNoCall
    NoWrap = 9
    Wildcards = {"r.*"}
INVARIANT
    ZeroMeansAllApplied
CHECK_DEADLOCK FALSE
