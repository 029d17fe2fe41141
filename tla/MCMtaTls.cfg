SPECIFICATION FairSpec
CONSTANTS
    h1 = h1
    h2 = h2
    c1 = c1
    c2 = c2
    issuer = issuer
    Certificate = {c1, c2, issuer}
    chainOf <- Chains
    NoHost = NoHost
    Host = {h1, h2}
    RawHost <- Spellings
    normal <- Normal
    MXAnswers <- AllAnswers
    TLSAAnswers <- NoneOrSome
    MaxMX = 3
    Concurrency = 2
INVARIANTS TypeOK EachHostByItsOwnCertificate TimeoutInventsNothing ConnectsOncePerMX OutcomeAsTabulated
PROPERTIES SessionsImplementFanOut LookupsImplementFanOut ProbeEnds
