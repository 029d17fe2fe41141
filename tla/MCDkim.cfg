SPECIFICATION FairSpec
CONSTANTS
    s1 = s1
    s2 = s2
    s3 = s3
    google = google
    Base <- TwoBase
    Rules <- OneRule
    Provider = {google}
    Concurrency = 2
    Zones <- AllZones
INVARIANTS TypeOK PresentIffLiveKey EverySelectorIsTried AbsentWasHeard
PROPERTIES ImplementsFanOut ProbeEnds
