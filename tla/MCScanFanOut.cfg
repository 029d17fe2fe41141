SPECIFICATION ProgramFairSpec
CONSTANTS
    NumDomains = 3
    Limit = 2
    ProbeList <- OneProbe
    Verdict <- VerdictTable
    normal <- Spellings
    Comment <- Comments
    CommandLines <- Lines
INVARIANTS AtMostLimit InputIsMerged StatsAddUp
PROPERTIES ImplementsFanOut EveryScanEnds
