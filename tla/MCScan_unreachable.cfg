SPECIFICATION NothingAnswersSpec
CONSTANTS
    NumDomains = 1
    Limit = 8
    ProbeList <- CLIProbes
    Verdict <- VerdictTable
INVARIANT UnreachableIsNotSuccess
