CONSTANTS
    Users = {1, 2}
    Clients = {c1}
    Requests = {q1, q2}
    NoToken = NoToken
    Start = 3
    Life = 1
    MaxTime = 5
    MaxSessions = 2
    SameSecond = FALSE
SPECIFICATION Spec
INVARIANT OwnSession
CHECK_DEADLOCK FALSE
