SPECIFICATION ProgramFairSpec
CONSTANTS
    NumDomains = 3
    Limit = 0
    ProbeList <- OneProbe
    Verdict <- VerdictTable
    normal <- Spellings
    Comment <- Comments
    CommandLines <- Lines
PROPERTY EveryScanEnds
CHECK_DEADLOCK FALSE
