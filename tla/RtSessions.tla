----------------------------- MODULE RtSessions -----------------------------
(***************************************************************************)
(* The refresh-token sessions of auth-jwt: login, refresh, logout and the  *)
(* cron job of AuthJwtController over the RTSession table.                 *)
(*                                                                         *)
(* A request runs between two awaits in one step; each query of the        *)
(* database is a step, and other requests run in between.  Browsers hold   *)
(* the token pair in cookies that are set and cleared together with the    *)
(* same lifetime, so one value stands for both.                            *)
(*                                                                         *)
(* Prisma sends each create, update and delete as one SQL statement, whose *)
(* where-clause PostgreSQL evaluates on the row it has locked, so that a   *)
(* query takes effect or throws in one step.                               *)
(*                                                                         *)
(* A JWT is determined by its payload and the second it was signed in: a   *)
(* token is its subject and its iat.                                       *)
(***************************************************************************)
EXTENDS Naturals, FiniteSets

CONSTANTS
    Users,         \* ids of the confirmed users
    Clients,       \* browsers, each with its cookies
    Requests,      \* slots for requests in flight
    NoToken,       \* no cookie
    Start,         \* the second the model starts in; far above any user id
    Life,          \* 60 * EXPIRES_IN_RT_MINUTES
    MaxTime,       \* bound: the clock stops here
    MaxSessions,   \* bound: at most this many rows are ever created
    SameSecond     \* may one user be signed two tokens in one second?

ASSUME RtSessionsAssumption ==
    /\ Users \subseteq Nat
    /\ Start \in Nat /\ MaxTime \in Nat /\ Start <= MaxTime
    /\ \A u \in Users : u < Start
    /\ Life \in Nat \ {0}
    /\ MaxSessions \in Nat
    /\ NoToken \notin [sub : Users, iat : Nat]
    /\ SameSecond \in BOOLEAN

VARIABLES
    now,           \* Date.now() in seconds
    sessions,      \* the rows of RTSession
    nextId,        \* their autoincrement
    jar,           \* the token pair in each client's cookies
    req,           \* the request in each slot
    lost,          \* clients that missed an answer since their cookies were last set
    retired        \* the tokens that have left RTSession (lost and retired are
                   \* history: no request reads them)

vars == <<now, sessions, nextId, jar, req, lost, retired>>

Token == [sub : Users, iat : Nat]
MaybeToken == Token \cup {NoToken}
Exp(t) == t.iat + Life

Row == [id : Nat, rt : Token, exp : Nat, userId : Users]

\* Where a request can be: before one of its awaits, or answered with success
\* ("ok") but not yet received.  A request in "sign" has passed its checks.
Steps == {"guard", "sign", "find", "update", "create", "delete", "ok"}
Request == [kind : {"login", "refresh", "logout"}, at : Steps, client : Clients,
            user : Users, rt : MaybeToken, new : MaybeToken]
Idle == [at |-> "idle"]

InFlight(q) == req[q].at # "idle"

Init ==
    /\ now = Start
    /\ sessions = {}
    /\ nextId = 1
    /\ jar = [c \in Clients |-> NoToken]
    /\ req = [q \in Requests |-> Idle]
    /\ lost = {}
    /\ retired = {}

-----------------------------------------------------------------------------
\* An await of request q: it goes on at the step `at`.
Goto(q, at) == req' = [req EXCEPT ![q].at = at]

\* q is answered with an exception, which leaves cookies as they are.
Throw(q) == req' = [req EXCEPT ![q] = Idle]

Send(q, kind, at, c, u) ==
    /\ ~InFlight(q)
    /\ req' = [req EXCEPT ![q] = [kind |-> kind, at |-> at, client |-> c, user |-> u,
                                  rt |-> jar[c], new |-> NoToken]]
    /\ UNCHANGED <<now, sessions, nextId, jar, lost, retired>>

\* loginLocalJwt with a confirmed user's email and password; whatever refresh
\* token is in the cookies comes along.  (A wrong email or password is
\* answered 401 and changes nothing.)
Login(q, c, u) == Send(q, "login", "sign", c, u)

Refresh(q, c) == jar[c] # NoToken /\ Send(q, "refresh", "guard", c, jar[c].sub)

\* AtGuard checks the access token's signature and exp and nothing else.
Logout(q, c) ==
    /\ jar[c] # NoToken /\ now < Exp(jar[c])
    /\ Send(q, "logout", "delete", c, jar[c].sub)

\* findRtSessionByRt(rt, exp)
FindRtSession(rt, exp) == {s \in sessions : s.rt = rt /\ s.exp >= exp}

\* RtGuard: passport checks exp, then validateRefreshToken the session.
RtGuard(q) ==
    /\ req[q].at = "guard"
    /\ IF now < Exp(req[q].rt) /\ FindRtSession(req[q].rt, Exp(req[q].rt)) # {}
       THEN Goto(q, "sign")
       ELSE Throw(q)
    /\ UNCHANGED <<now, sessions, nextId, jar, lost, retired>>

\* The tokens of the table, and those on their way into it.
Stored == {s.rt : s \in sessions}
Pending == {req[q].new : q \in {r \in Requests : InFlight(r)}} \ {NoToken}

\* Without SameSecond a user is signed one token in a second at most.
MaySign(t) == SameSecond \/ t \notin Stored \cup Pending \cup retired

\* generateJwtTokens
Sign(q) ==
    LET new == [sub |-> req[q].user, iat |-> now]
    IN  /\ req[q].at = "sign"
        /\ MaySign(new)
        /\ req' = [req EXCEPT ![q].new = new,
                              ![q].at = IF req[q].rt # NoToken THEN "find" ELSE "create"]
        /\ UNCHANGED <<now, sessions, nextId, jar, lost, retired>>

\* refreshTokens passes the user id where findRtSessionByRt takes an
\* expiration time, so that an expired session is found too.
Find(q) ==
    /\ req[q].at = "find"
    /\ Goto(q, IF FindRtSession(req[q].rt, req[q].user) # {} THEN "update" ELSE "create")
    /\ UNCHANGED <<now, sessions, nextId, jar, lost, retired>>

\* Mutants: the expiration date is left as it is; the user's rows are
\* updated, whatever their token.
Renamed(s, q) == IF s.rt = req[q].rt THEN [s EXCEPT !.rt = req[q].new] ELSE s
RenewedOfUser(s, q) ==
    IF s.userId = req[q].user
    THEN [s EXCEPT !.rt = req[q].new, !.exp = Exp(req[q].new)]
    ELSE s

\* A row after updateRtSessionByRt.
Renewed(s, q) ==
    IF s.rt = req[q].rt
    THEN [s EXCEPT !.rt = req[q].new, !.exp = Exp(req[q].new)]
    ELSE s

\* A mutant: an update that meets no row is not an error.
UpdateUnchecked(q) ==
    /\ req[q].at = "update"
    /\ sessions' = {Renewed(s, q) : s \in sessions}
    /\ retired' = retired \cup (Stored \cap {req[q].rt})
    /\ Goto(q, "ok")
    /\ UNCHANGED <<now, nextId, jar, lost>>

\* updateRtSessionByRt: no row with oldRt is a P2025 (404), another row with
\* newRt a P2002 (409).
Update(q) ==
    /\ req[q].at = "update"
    /\ IF /\ req[q].rt \in Stored
          /\ req[q].new \notin Stored \ {req[q].rt}
       THEN /\ sessions' = {Renewed(s, q) : s \in sessions}
            /\ retired' = retired \cup ({req[q].rt} \ {req[q].new})
            /\ Goto(q, "ok")
       ELSE Throw(q) /\ UNCHANGED <<sessions, retired>>
    /\ UNCHANGED <<now, nextId, jar, lost>>

\* A mutant: the row is created with the token of the request's cookie.
NewRowOfCookie(q) ==
    [id |-> nextId, rt |-> req[q].rt, exp |-> Exp(req[q].new), userId |-> req[q].user]

\* The RTSessionEntity of createRtSession.
NewRow(q) ==
    [id |-> nextId, rt |-> req[q].new, exp |-> Exp(req[q].new), userId |-> req[q].user]

\* createRtSession: a row with the same rt is a P2002 (409).
Create(q) ==
    /\ req[q].at = "create"
    /\ nextId <= MaxSessions
    /\ IF req[q].new \in Stored
       THEN Throw(q) /\ UNCHANGED <<sessions, nextId>>
       ELSE /\ sessions' = sessions \cup {NewRow(q)}
            /\ nextId' = nextId + 1
            /\ Goto(q, "ok")
    /\ UNCHANGED <<now, jar, lost, retired>>

\* deleteRtSessionByRt: no such row is a P2025 (404), and the cookies stay.
Delete(q) ==
    /\ req[q].at = "delete"
    /\ IF req[q].rt \in Stored
       THEN /\ sessions' = {s \in sessions : s.rt # req[q].rt}
            /\ retired' = retired \cup {req[q].rt}
            /\ Goto(q, "ok")
       ELSE Throw(q) /\ UNCHANGED <<sessions, retired>>
    /\ UNCHANGED <<now, nextId, jar, lost>>

\* The answer reaches the browser: addCookies, or logoutFromSystemAsJwt.
Receive(q) ==
    /\ req[q].at = "ok"
    /\ jar' = [jar EXCEPT ![req[q].client] = req[q].new]
    /\ req' = [req EXCEPT ![q] = Idle]
    /\ lost' = lost \ {req[q].client}
    /\ UNCHANGED <<now, sessions, nextId, retired>>

\* The answer is lost on the way.
Lose(q) ==
    /\ req[q].at = "ok"
    /\ Throw(q)
    /\ lost' = lost \cup {req[q].client}
    /\ UNCHANGED <<now, sessions, nextId, jar, retired>>

\* The cookies' own expiration time, some time after that of the token.
CookieExpires(c) ==
    /\ jar[c] # NoToken /\ Exp(jar[c]) <= now
    /\ jar' = [jar EXCEPT ![c] = NoToken]
    /\ UNCHANGED <<now, sessions, nextId, req, lost, retired>>

\* A mutant: lte.
ExpiredNow(s) == s.exp <= now

\* rtExpDate lt new Date()
Expired(s) == s.exp < now

\* clearExpiredRtSessions, every five minutes.
Cron ==
    /\ sessions' = {s \in sessions : ~ Expired(s)}
    /\ retired' = retired \cup {s.rt : s \in {t \in sessions : Expired(t)}}
    /\ UNCHANGED <<now, nextId, jar, req, lost>>

Tick == now < MaxTime /\ now' = now + 1 /\ UNCHANGED <<sessions, nextId, jar, req, lost, retired>>

Serve(q) == RtGuard(q) \/ Sign(q) \/ Find(q) \/ Update(q) \/ Create(q) \/ Delete(q)

Next ==
    \/ Tick
    \/ Cron
    \/ \E c \in Clients : CookieExpires(c)
    \/ \E q \in Requests :
         \/ \E c \in Clients : \/ Refresh(q, c) \/ Logout(q, c)
                               \/ \E u \in Users : Login(q, c, u)
         \/ Serve(q) \/ Receive(q) \/ Lose(q)

Spec == Init /\ [][Next]_vars

-----------------------------------------------------------------------------
\* Rows, cookies and requests hold tokens of known users where the code
\* takes them to: createRtSession never stores a row without a token.
TypeOK ==
    /\ now \in Start..MaxTime
    /\ sessions \subseteq Row
    /\ nextId \in Nat
    /\ jar \in [Clients -> MaybeToken]
    /\ req \in [Requests -> Request \cup {Idle}]
    /\ lost \subseteq Clients
    /\ retired \subseteq Token

\* The row of a token is unique, as the where-clauses of the repository take
\* for granted, and its rtExpDate is the exp the token carries: AuthJwtService
\* writes both, at two places, from two copies of the token.
RowsConsistent ==
    /\ \A s \in sessions : s.exp = Exp(s.rt) /\ s.id < nextId
    /\ \A s, t \in sessions : s.id = t.id \/ s.rt = t.rt => s = t

\* A session is only ever prolonged (the comment in refreshTokens), although
\* the tokens of several requests for one session can be signed and written
\* in different orders.
OnlyProlonged ==
    [][\A s \in sessions, t \in sessions' : s.id = t.id => s.exp <= t.exp]_vars

\* A token that has been replaced, logged out or cleared is never accepted
\* again: however a refresh, a login and a logout of one client overlap, no
\* request that had read the old state brings it back.
RetiredStaysOut == Stored \cap retired = {}

\* A browser that has got every answer, with none on the way, never holds an
\* unexpired refresh token without its session: overlapping refreshes of one
\* token do not log their user out.
CookieHasSession ==
    \A c \in Clients :
        \/ jar[c] = NoToken
        \/ now >= Exp(jar[c])
        \/ c \in lost
        \/ \E q \in Requests : InFlight(q) /\ req[q].client = c
        \/ jar[c] \in Stored

\* Together with the dates, the keys and the cron job: the table is a book of
\* sessions in which each token serves once.
Book == INSTANCE SessionBook WITH clock <- now, open <- sessions, spent <- retired

RefinesBook == Book!BookSpec

\* Does not hold: the token of a user's session is a token of that user.
OwnSession == \A s \in sessions : s.userId = s.rt.sub

\* Does not hold: a refresh succeeds only while the session of its refresh
\* token exists, the prerequisite RtStrategy names.
RefreshNeedsSession ==
    [][\A q \in Requests :
          InFlight(q) /\ req[q].kind = "refresh" /\ req[q].at # "ok" /\ req'[q].at = "ok"
              => req[q].rt \in Stored]_vars
=============================================================================
