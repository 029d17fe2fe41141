SPECIFICATION OneFlakySpec
CONSTANTS
    NumDomains = 2
    Limit = 2
    ProbeList <- TwoProbes
    Verdict <- VerdictTable
INVARIANTS TypeOK EveryReportIsWhole FailureDoesNotSpread SilenceIsNoEvidence RowsLineUp
