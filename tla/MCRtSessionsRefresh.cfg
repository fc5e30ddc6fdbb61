CONSTANTS
    Users = {1, 2}
    Clients = {c1}
    Requests = {q1, q2}
    NoToken = NoToken
    Start = 3
    Life = 3
    MaxTime = 4
    MaxSessions = 2
    SameSecond = FALSE
SPECIFICATION Spec
PROPERTY RefreshNeedsSession
CHECK_DEADLOCK FALSE
