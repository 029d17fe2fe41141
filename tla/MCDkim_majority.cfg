SPECIFICATION Spec
CONSTANTS
    s1 = s1
    s2 = s2
    s3 = s3
    google = google
    Base <- ThreeBase
    Rules <- NoRules
    Provider = {google}
    Concurrency = 2
    Zones <- Wildcards
INVARIANT AbsentNeedsMostAnswers
