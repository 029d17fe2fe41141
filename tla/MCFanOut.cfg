SPECIFICATION FairSpec
CONSTANTS
    t1 = t1
    t2 = t2
    t3 = t3
    v1 = v1
    v2 = v2
    NoValue = NoValue
    Task = {t1, t2, t3}
    Value = {v1, v2}
    Limit = 2
INVARIANTS TypeOK AtMostLimit GatherComplete
PROPERTIES SlotsAreFinal Gathers
CHECK_DEADLOCK FALSE
