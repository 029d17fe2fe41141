SPECIFICATION Spec
CONSTANTS
    NumServers = 2
    Timeout = 4
    ProviderTimeout = 4
    Budget = 8
    Delay = {1, 3}
    Starts = {0, 6}
    Zones <- Sections
    HeadTimeout = 3
    MaxRequests = 3
    schemeOf <- SchemeOf
    Elsewhere = {"login"}
    decimal <- Decimal
    WebDelay = {1, 2}
    Webs <- Sites
INVARIANT NullMxIsTold
