CONSTANTS
    Requests = {q1, q2, q3}
    Undefined = Undefined
    Timeout = 1
    FailureTtl = 5
    FailureThreshold = 3
SPECIFICATION FairSpec
INVARIANT TypeOK
PROPERTIES
    RefusedOnlyAfterFailures
    RefusalsEnd
    EveryReadEnds
