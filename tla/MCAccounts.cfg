CONSTANTS
    a = a
    b = b
    t1 = t1
    t2 = t2
    r1 = r1
    r2 = r2
    s1 = s1
    s2 = s2
    Emails <- MCEmails
    Tokens <- MCTokens
    NoToken = NoToken
    Requests <- MCRequests
    Sids <- MCSids
    NoSid = NoSid
    NoSession = NoSession
    Anonymous = Anonymous
    MayFailTwice = FALSE

SPECIFICATION FairSpec

INVARIANTS
    TypeOK
    MailedLinkWorks
    LoginNeedsConfirmation
    EndedStaysOut

PROPERTIES
    SessionKeepsUser
    RefinesSessions
    LinkConfirms
