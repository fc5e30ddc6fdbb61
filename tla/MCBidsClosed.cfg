CONSTANTS
    r1 = r1
    r2 = r2
    r3 = r3
    Requests <- MCRequests
    Price <- MCPrice
    Retries <- MCRetries
    Free = Free
    NoUser = NoUser
    Ttl = 2
    Delay = 1
    Timeout = 1
    ItemTtl = 2
    MayOverrun = FALSE
SPECIFICATION Spec
PROPERTY NoBidAfterEnd
