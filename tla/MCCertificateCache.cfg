CONSTANTS
    ann = ann
    bob = bob
    c1 = c1
    c2 = c2
    Requests = {r1, r2, r3}
    Users <- MCUsers
    Admins <- MCAdmins
    All = All
    Certs <- MCCerts
    Owner <- MCOwner
    Nil = Nil
    Clearable <- MCClearable
    MayFail = TRUE
    BucketMayGoFirst = TRUE
SPECIFICATION Spec
SYMMETRY Symmetry
INVARIANTS
    TypeOK
    TtlOnTheWay
    QuietDeleteHolds
PROPERTIES
    OwnOnly
    NeverComesBack
    RefinesView
CHECK_DEADLOCK FALSE
