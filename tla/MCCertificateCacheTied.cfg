CONSTANTS
    ann = ann
    bob = bob
    c1 = c1
    c2 = c2
    Requests = {r1, r2}
    Users <- MCUsers
    Admins <- MCAdmins
    All = All
    Certs <- MCCerts
    Owner <- MCOwner
    Nil = Nil
    Clearable <- MCClearable
    MayFail = FALSE
    BucketMayGoFirst = FALSE
SPECIFICATION Spec
INVARIANT TiedToBucket
CHECK_DEADLOCK FALSE
