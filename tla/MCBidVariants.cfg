CONSTANTS
    r1 = r1
    r2 = r2
    r3 = r3
    c1 = c1
    c2 = c2
    Requests <- MCRequests
    Price <- MCPrice
    Connections <- MCConnections
    Conn <- MCConn
    Free = Free
    NoUser = NoUser
    Ttl = 2
    RetryCount = 1
    MayOverlap = FALSE
    MayOverrun = FALSE
SPECIFICATION FairSpec
INVARIANTS
    TypeOK
    NothingLost
    AnsweredStands
    MutualExclusion
PROPERTIES
    RefinesAuction
    RefinesLease
    LeftLockFreed
CHECK_DEADLOCK FALSE
