-------------------------- MODULE RtSessionsProofs --------------------------
(***************************************************************************)
(* Theorems about RtSessions, for any sets of users, clients and requests  *)
(* and any lifetime.                                                       *)
(***************************************************************************)
EXTENDS RtSessions, TLAPS

\* What a request holds at each of its awaits, and when it was signed.
Carries(r) ==
    /\ r.at \in {"guard", "find", "update", "delete"} => r.rt \in Token
    /\ r.at \in {"find", "update", "create"} => r.new \in Token
    /\ r.rt \in Token => r.rt.iat <= now
    /\ r.new \in Token => r.new.iat <= now
    /\ r.rt \in Token /\ r.new \in Token => r.rt.iat <= r.new.iat

Carried ==
    /\ \A q \in Requests : InFlight(q) => Carries(req[q])
    /\ \A c \in Clients : jar[c] \in Token => jar[c].iat <= now

TypeInv == TypeOK /\ Carried

\* A request in flight is a record with all its fields.
LEMMA InFlightRequest ==
    ASSUME TypeOK, NEW q \in Requests, InFlight(q)
    PROVE  req[q] \in Request
BY DEF TypeOK, InFlight, Idle

\* A request that is somewhere is in flight.
LEMMA AtStep ==
    ASSUME TypeOK, NEW q \in Requests, req[q].at \in Steps
    PROVE  InFlight(q) /\ req[q] \in Request
BY DEF TypeOK, InFlight, Idle, Steps, Request

\* Moving on changes one field of one request.
LEMMA GotoTypes ==
    ASSUME TypeOK, NEW q \in Requests, InFlight(q), NEW at \in Steps, Goto(q, at)
    PROVE  /\ req' \in [Requests -> Request \cup {Idle}]
           /\ req'[q] = [req[q] EXCEPT !.at = at]
           /\ \A r \in Requests \ {q} : req'[r] = req[r]
<1>1. req[q] \in Request
  BY InFlightRequest
<1>2. [req[q] EXCEPT !.at = at] \in Request
  BY <1>1 DEF Request
<1>. QED
  BY <1>2 DEF TypeOK, Goto

\* Throwing frees one slot.
LEMMA ThrowTypes ==
    ASSUME TypeOK, NEW q \in Requests, Throw(q)
    PROVE  /\ req' \in [Requests -> Request \cup {Idle}]
           /\ req'[q] = Idle
           /\ \A r \in Requests \ {q} : req'[r] = req[r]
BY DEF TypeOK, Throw

\* The same for the request's own record, field by field.
LEMMA GotoKeeps ==
    ASSUME TypeOK, NEW q \in Requests, InFlight(q), NEW at \in Steps, Goto(q, at)
    PROVE  /\ req'[q].at = at
           /\ req'[q].rt = req[q].rt
           /\ req'[q].new = req[q].new
           /\ req'[q].user = req[q].user
           /\ req'[q].client = req[q].client
<1>1. req[q] \in Request
  BY InFlightRequest
<1>2. req'[q] = [req[q] EXCEPT !.at = at]
  BY GotoTypes
<1>. QED
  BY <1>1, <1>2 DEF Request

\* At first there is no request and no token.
LEMMA TypeInvInit == Init => TypeInv
  BY RtSessionsAssumption
     DEF Init, TypeInv, TypeOK, Carried, InFlight, Idle, MaybeToken, Row, Request, Token

\* A step that moves request q to the await `at` and leaves the other requests.
LEMMA GotoCarried ==
    ASSUME TypeInv, NEW q \in Requests, InFlight(q), NEW at \in Steps, Goto(q, at),
           now' = now, jar' = jar, Carries([req[q] EXCEPT !.at = at])
    PROVE  Carried'
<1>1. req'[q] = [req[q] EXCEPT !.at = at]
  BY GotoTypes DEF TypeInv
<1>2. \A r \in Requests \ {q} : req'[r] = req[r]
  BY GotoTypes DEF TypeInv
<1>. QED
  BY <1>1, <1>2 DEF TypeInv, Carried, Carries, InFlight

\* Throwing leaves nothing to be carried by q.
LEMMA ThrowCarried ==
    ASSUME TypeInv, NEW q \in Requests, Throw(q), now' = now,
           \A c \in Clients : jar'[c] \in Token => jar'[c].iat <= now
    PROVE  Carried'
<1>1. req'[q] = Idle /\ \A r \in Requests \ {q} : req'[r] = req[r]
  BY ThrowTypes DEF TypeInv
<1>. QED
  BY <1>1 DEF TypeInv, Carried, Carries, InFlight, Idle

\* A new request carries the tokens of its browser.
LEMMA SendStep ==
    ASSUME TypeInv, NEW q \in Requests, NEW c \in Clients, NEW u \in Users,
           NEW kind \in {"login", "refresh", "logout"}, NEW at \in {"guard", "sign", "delete"},
           at # "sign" => jar[c] # NoToken, Send(q, kind, at, c, u)
    PROVE  TypeInv'
<1> DEFINE new == [kind |-> kind, at |-> at, client |-> c, user |-> u,
                   rt |-> jar[c], new |-> NoToken]
<1>1. new \in Request
  BY DEF TypeInv, TypeOK, Request, Steps, MaybeToken
<1>2. req' = [req EXCEPT ![q] = new] /\ UNCHANGED <<now, sessions, nextId, jar, lost, retired>>
  BY DEF Send
<1>3. TypeOK'
  BY <1>1, <1>2 DEF TypeInv, TypeOK
<1>4. Carries(new)
  BY RtSessionsAssumption DEF TypeInv, TypeOK, Carried, Carries, MaybeToken, Token
<1>5. Carried'
  BY <1>2, <1>4 DEF TypeInv, TypeOK, Carried, Carries, InFlight
<1>. QED
  BY <1>3, <1>5 DEF TypeInv

\* The token signed is of this second, hence not older than the cookie's.
LEMMA SignStep ==
    ASSUME TypeInv, NEW q \in Requests, Sign(q)
    PROVE  TypeInv'
<1> DEFINE new == [sub |-> req[q].user, iat |-> now]
           at == IF req[q].rt # NoToken THEN "find" ELSE "create"
           signed == [req[q] EXCEPT !.new = new, !.at = at]
<1>1. InFlight(q) /\ req[q] \in Request
  BY AtStep DEF TypeInv, Sign, Steps
<1>2. new \in Token
  BY <1>1, RtSessionsAssumption DEF TypeInv, TypeOK, Request, Token
<1>3. at \in Steps
  BY DEF Steps
<1>4. signed \in Request /\ signed.rt = req[q].rt /\ signed.new = new /\ signed.at = at
  <2> HIDE DEF new, at
  <2>. QED  BY <1>1, <1>2, <1>3 DEF Request, MaybeToken
<1>5. req' = [req EXCEPT ![q] = signed] /\ UNCHANGED <<now, sessions, nextId, jar, lost, retired>>
  <2> HIDE DEF at
  <2>. QED  BY DEF Sign, at, TypeInv, TypeOK
<1>6. Carries(signed)
  <2>1. req[q].rt # NoToken => req[q].rt \in Token
    BY <1>1 DEF Request, MaybeToken
  <2>2. req[q].rt \in Token => req[q].rt.iat <= now
    BY <1>1 DEF TypeInv, Carried, Carries
  <2>3. signed.at = "find" => req[q].rt # NoToken
    BY <1>4
  <2>4. signed.at \in {"find", "create"}
    BY <1>4
  <2>5. now \in Nat
    BY RtSessionsAssumption DEF TypeInv, TypeOK
  <2> HIDE DEF signed, at
  <2>. QED
    BY <1>2, <1>4, <2>1, <2>2, <2>3, <2>4, <2>5 DEF Carries
<1>7. TypeOK'
  <2> HIDE DEF signed
  <2>. QED  BY <1>4, <1>5 DEF TypeInv, TypeOK
<1>8. Carried'
  <2> HIDE DEF signed
  <2>. QED  BY <1>5, <1>6 DEF TypeInv, TypeOK, Carried, Carries, InFlight
<1>. QED
  BY <1>7, <1>8 DEF TypeInv

\* The steps of a request that only move it on or throw.
LEMMA MoveStep ==
    ASSUME TypeInv, NEW q \in Requests,
           RtGuard(q) \/ Find(q) \/ Lose(q)
    PROVE  TypeInv'
<1>1. InFlight(q) /\ req[q] \in Request
  BY AtStep DEF TypeInv, RtGuard, Find, Lose, Steps
<1>2. ASSUME NEW at \in {"sign", "update", "create"}, Goto(q, at),
             req[q].at \in {"guard", "find"},
             at # "sign" => req[q].at = "find",
             UNCHANGED <<now, sessions, nextId, jar, lost, retired>>
      PROVE  TypeInv'
  <2>1. at \in Steps
    BY DEF Steps
  <2>2. Carries([req[q] EXCEPT !.at = at])
    BY <1>1, <1>2 DEF TypeInv, Carried, Carries, Request
  <2>3. Carried'
    BY <1>1, <1>2, <2>1, <2>2, GotoCarried
  <2>4. TypeOK'
    BY <1>1, <1>2, <2>1, GotoTypes DEF TypeInv, TypeOK
  <2>. QED
    BY <2>3, <2>4 DEF TypeInv
<1>3. ASSUME Throw(q), UNCHANGED <<now, sessions, nextId, jar, retired>>,
             lost' \subseteq Clients
      PROVE  TypeInv'
  <2>1. Carried'
    BY <1>3, ThrowCarried DEF TypeInv, Carried
  <2>2. TypeOK'
    BY <1>3, ThrowTypes DEF TypeInv, TypeOK
  <2>. QED
    BY <2>1, <2>2 DEF TypeInv
<1>4. CASE RtGuard(q)
  BY <1>2, <1>3, <1>4 DEF RtGuard, TypeInv, TypeOK
<1>5. CASE Find(q)
  BY <1>2, <1>5 DEF Find
<1>6. CASE Lose(q)
  BY <1>1, <1>3, <1>6 DEF Lose, TypeInv, TypeOK, Request
<1>. QED
  BY <1>4, <1>5, <1>6

\* The steps of a request that write the table.
LEMMA WriteStep ==
    ASSUME TypeInv, NEW q \in Requests, Update(q) \/ Create(q) \/ Delete(q)
    PROVE  TypeInv'
<1>1. InFlight(q) /\ req[q] \in Request
  BY AtStep DEF TypeInv, Update, Create, Delete, Steps
<1>2. ASSUME Goto(q, "ok"), UNCHANGED <<now, jar>>
      PROVE  Carried' /\ req' \in [Requests -> Request \cup {Idle}]
  <2>1. "ok" \in Steps
    BY DEF Steps
  <2>2. Carries([req[q] EXCEPT !.at = "ok"])
    BY <1>1 DEF TypeInv, Carried, Carries, Request
  <2>. QED
    BY <1>1, <1>2, <2>1, <2>2, GotoCarried, GotoTypes DEF TypeInv
<1>3. ASSUME Throw(q), UNCHANGED <<now, jar>>
      PROVE  Carried' /\ req' \in [Requests -> Request \cup {Idle}]
  BY <1>3, ThrowCarried, ThrowTypes DEF TypeInv, Carried
<1>4. Carried' /\ req' \in [Requests -> Request \cup {Idle}]
  BY <1>2, <1>3 DEF Update, Create, Delete
<1>5. CASE Update(q)
  <2>1. req[q].new \in Token /\ req[q].rt \in Token
    BY <1>1, <1>5 DEF TypeInv, Carried, Carries, Update
  <2>2. ASSUME NEW s \in Row  PROVE Renewed(s, q) \in Row
    <3>1. Exp(req[q].new) \in Nat
      BY <2>1, RtSessionsAssumption DEF Token, Exp
    <3>. QED
      BY <2>1, <3>1 DEF Renewed, Row
  <2>3. sessions' \subseteq Row /\ retired' \subseteq Token
    BY <1>5, <2>1, <2>2 DEF Update, TypeInv, TypeOK
  <2>. QED
    BY <1>4, <1>5, <2>3 DEF Update, TypeInv, TypeOK
<1>6. CASE Create(q)
  <2>1. req[q].new \in Token
    BY <1>1, <1>6 DEF TypeInv, Carried, Carries, Create
  <2>2. NewRow(q) \in Row
    BY <1>1, <2>1, RtSessionsAssumption DEF NewRow, Row, Request, Token, Exp, TypeInv, TypeOK
  <2>3. sessions' \subseteq Row /\ nextId' \in Nat
    BY <1>6, <2>2 DEF Create, TypeInv, TypeOK
  <2>. QED
    BY <1>4, <1>6, <2>3 DEF Create, TypeInv, TypeOK
<1>7. CASE Delete(q)
  <2>1. req[q].rt \in Token
    BY <1>1, <1>7 DEF TypeInv, Carried, Carries, Delete
  <2>2. sessions' \subseteq Row /\ retired' \subseteq Token
    BY <1>7, <2>1 DEF Delete, TypeInv, TypeOK
  <2>. QED
    BY <1>4, <1>7, <2>2 DEF Delete, TypeInv, TypeOK
<1>. QED
  BY <1>5, <1>6, <1>7

\* The browser gets the token the request has signed, or none.
LEMMA ReceiveStep ==
    ASSUME TypeInv, NEW q \in Requests, Receive(q)
    PROVE  TypeInv'
<1>1. InFlight(q) /\ req[q] \in Request
  BY AtStep DEF TypeInv, Receive, Steps
<1>2. Throw(q) /\ UNCHANGED <<now, sessions, nextId, retired>>
  BY DEF Receive, Throw
<1>3. jar' \in [Clients -> MaybeToken]
  BY <1>1 DEF Receive, Request, TypeInv, TypeOK
<1>4. \A c \in Clients : jar'[c] \in Token => jar'[c].iat <= now
  BY <1>1 DEF Receive, Request, TypeInv, TypeOK, Carried, Carries
<1>5. Carried'
  BY <1>2, <1>4, ThrowCarried
<1>6. TypeOK'
  BY <1>2, <1>3, ThrowTypes DEF Receive, TypeInv, TypeOK
<1>. QED
  BY <1>5, <1>6 DEF TypeInv

\* Every step, one action at a time.
LEMMA TypeInvStep == TypeInv /\ [Next]_vars => TypeInv'
<1> SUFFICES ASSUME TypeInv, [Next]_vars  PROVE TypeInv'
  OBVIOUS
<1>1. CASE Tick
  <2>1. TypeOK'
    BY <1>1, RtSessionsAssumption DEF Tick, TypeInv, TypeOK
  <2>2. \A t \in Token : t.iat \in Nat
    BY DEF Token
  <2>3. now \in Nat /\ now' = now + 1
    BY <1>1, RtSessionsAssumption DEF Tick, TypeInv, TypeOK
  <2>4. \A t \in Token : t.iat <= now => t.iat <= now'
    BY <2>2, <2>3
  <2>5. Carried'
    BY <1>1, <2>4 DEF Tick, TypeInv, Carried, Carries, InFlight
  <2>. QED
    BY <2>1, <2>5 DEF TypeInv
<1>2. CASE Cron
  <2>1. \A s \in sessions : s.rt \in Token
    BY DEF TypeInv, TypeOK, Row
  <2>. QED
    BY <1>2, <2>1 DEF Cron, TypeInv, TypeOK, Carried, Carries, InFlight
<1>3. ASSUME NEW c \in Clients, CookieExpires(c)  PROVE TypeInv'
  <2>1. jar'[c] = NoToken /\ NoToken \notin Token
    BY <1>3, RtSessionsAssumption DEF CookieExpires, TypeInv, TypeOK, Token
  <2>. QED
    BY <1>3, <2>1 DEF CookieExpires, TypeInv, TypeOK, Carried, Carries, InFlight, MaybeToken
<1>4. ASSUME NEW q \in Requests, NEW c \in Clients, Refresh(q, c)  PROVE TypeInv'
  <2>1. jar[c].sub \in Users
    BY <1>4 DEF Refresh, TypeInv, TypeOK, MaybeToken, Token
  <2>. QED
    BY <1>4, <2>1, SendStep DEF Refresh
<1>5. ASSUME NEW q \in Requests, NEW c \in Clients, Logout(q, c)  PROVE TypeInv'
  <2>1. jar[c].sub \in Users
    BY <1>5 DEF Logout, TypeInv, TypeOK, MaybeToken, Token
  <2>. QED
    BY <1>5, <2>1, SendStep DEF Logout
<1>6. ASSUME NEW q \in Requests, NEW c \in Clients, NEW u \in Users, Login(q, c, u)
      PROVE  TypeInv'
  BY <1>6, SendStep DEF Login
<1>7. ASSUME NEW q \in Requests, Serve(q) \/ Receive(q) \/ Lose(q)  PROVE TypeInv'
  BY <1>7, MoveStep, SignStep, WriteStep, ReceiveStep DEF Serve
<1>8. CASE UNCHANGED vars
  BY <1>8 DEF vars, TypeInv, TypeOK, Carried, Carries, InFlight
<1>. QED
  BY <1>1, <1>2, <1>3, <1>4, <1>5, <1>6, <1>7, <1>8 DEF Next

\* Variables stay in their sets, and a request carries at each await the
\* tokens the next query needs.
THEOREM RtSessionsTyping == Spec => []TypeOK
<1>1. Spec => []TypeInv
  BY TypeInvInit, TypeInvStep, PTL DEF Spec
<1>. QED
  BY <1>1, PTL DEF TypeInv

-----------------------------------------------------------------------------
RowsInv == TypeInv /\ RowsConsistent

\* Outside the three writes and the cron job the table is left alone.
LEMMA TableKept ==
    ASSUME [Next]_vars, ~ Cron,
           \A q \in Requests : ~ Update(q) /\ ~ Create(q) /\ ~ Delete(q)
    PROVE  UNCHANGED <<sessions, nextId, retired>>
BY DEF Next, vars, Tick, CookieExpires, Refresh, Logout, Login, Send, Serve, RtGuard,
       Sign, Find, Receive, Lose

\* What an update does to a row.
LEMMA RenewedRow ==
    ASSUME NEW s \in Row, NEW q \in Requests
    PROVE  /\ Renewed(s, q).id = s.id
           /\ s.rt = req[q].rt =>
                Renewed(s, q).rt = req[q].new /\ Renewed(s, q).exp = Exp(req[q].new)
           /\ s.rt # req[q].rt => Renewed(s, q) = s
BY DEF Renewed, Row

\* An update renames one row, to a token no other row has, so that ids and
\* tokens stay keys; a new row takes an unused id and an unused token.
LEMMA RowsConsistentStep ==
    ASSUME RowsInv, [Next]_vars
    PROVE  RowsConsistent'
<1> USE DEF RowsInv
<1>0. sessions \subseteq Row /\ nextId \in Nat
  BY DEF TypeInv, TypeOK
<1>1. ASSUME sessions' \subseteq sessions, nextId' = nextId
      PROVE  RowsConsistent'
  BY <1>1 DEF RowsConsistent, Exp
<1>2. ASSUME NEW q \in Requests, Update(q)
      PROVE  RowsConsistent'
  <2>1. CASE sessions' = sessions
    BY <1>1, <1>2, <2>1 DEF Update
  <2>2. CASE /\ req[q].new \notin Stored \ {req[q].rt}
             /\ sessions' = {Renewed(s, q) : s \in sessions}
    <3>1. \A s \in sessions : Renewed(s, q).exp = Exp(Renewed(s, q).rt)
                              /\ Renewed(s, q).id < nextId
      BY <1>0, RenewedRow DEF RowsConsistent
    <3>2. ASSUME NEW s \in sessions, NEW t \in sessions,
                 Renewed(s, q).id = Renewed(t, q).id \/ Renewed(s, q).rt = Renewed(t, q).rt
          PROVE  s = t
      <4>1. s \in Row /\ t \in Row
        BY <1>0
      <4>2. \/ s.id = t.id
            \/ s.rt = t.rt
            \/ s.rt = req[q].rt /\ t.rt = req[q].new
            \/ t.rt = req[q].rt /\ s.rt = req[q].new
        BY <3>2, <4>1, RenewedRow
      <4>3. s.rt \in Stored /\ t.rt \in Stored
        BY DEF Stored
      <4>. QED
        BY <2>2, <4>2, <4>3 DEF RowsConsistent
    <3>. QED
      BY <1>2, <2>2, <3>1, <3>2 DEF Update, RowsConsistent, Exp
  <2>. QED
    BY <1>2, <2>1, <2>2 DEF Update
<1>3. ASSUME NEW q \in Requests, Create(q)
      PROVE  RowsConsistent'
  <2>1. CASE sessions' = sessions /\ nextId' = nextId
    BY <1>1, <2>1
  <2>2. CASE /\ req[q].new \notin Stored
             /\ sessions' = sessions \cup {NewRow(q)}
             /\ nextId' = nextId + 1
    <3>1. /\ NewRow(q).id = nextId /\ NewRow(q).rt = req[q].new
          /\ NewRow(q).exp = Exp(req[q].new)
      BY DEF NewRow
    <3>2. \A s \in sessions : s.id \in Nat /\ s.id < nextId /\ s.rt # req[q].new
      BY <1>0, <2>2 DEF RowsConsistent, Row, Stored
    <3>. QED
      BY <1>0, <2>2, <3>1, <3>2 DEF RowsConsistent, Exp
  <2>. QED
    BY <1>3, <2>1, <2>2 DEF Create
<1>4. ASSUME NEW q \in Requests, Delete(q)
      PROVE  RowsConsistent'
  BY <1>1, <1>4 DEF Delete
<1>5. CASE Cron
  BY <1>1, <1>5 DEF Cron
<1>. QED
  BY <1>1, <1>2, <1>3, <1>4, <1>5, TableKept

\* The rows stay consistent.
LEMMA RowsInvariant == Spec => []RowsInv
<1>1. Init => RowsInv
  BY TypeInvInit DEF RowsInv, Init, RowsConsistent
<1>2. RowsInv /\ [Next]_vars => RowsInv'
  BY TypeInvStep, RowsConsistentStep DEF RowsInv
<1>. QED
  BY <1>1, <1>2, PTL DEF Spec

\* Ids and refresh tokens are keys of RTSession, and rtExpDate is the exp of
\* the row's token, in every state of any number of overlapping requests.
THEOREM RtSessionsRows == Spec => []RowsConsistent
  BY RowsInvariant, PTL DEF RowsInv

\* An update replaces a token by one that was signed later: the request that
\* signed it held the old one already.
LEMMA ProlongedStep ==
    ASSUME RowsInv, [Next]_vars,
           NEW s \in sessions, NEW t \in sessions', s.id = t.id
    PROVE  s.exp <= t.exp
<1> USE DEF RowsInv
<1>0. /\ sessions \subseteq Row /\ nextId \in Nat /\ s.exp \in Nat
      /\ \A u \in sessions : u.id = s.id => u = s
  BY DEF TypeInv, TypeOK, Row, RowsConsistent
<1>1. ASSUME sessions' \subseteq sessions  PROVE s.exp <= t.exp
  BY <1>0, <1>1
<1>2. ASSUME NEW q \in Requests, Update(q), sessions' = {Renewed(u, q) : u \in sessions}
      PROVE  s.exp <= t.exp
  <2>1. PICK u \in sessions : t = Renewed(u, q)
    BY <1>2
  <2>2. t = Renewed(s, q)
    BY <1>0, <2>1, RenewedRow
  <2>3. CASE s.rt # req[q].rt
    BY <1>0, <2>2, <2>3, RenewedRow
  <2>4. CASE s.rt = req[q].rt
    <3>1. /\ req[q].rt \in Token /\ req[q].new \in Token
          /\ req[q].rt.iat <= req[q].new.iat
      BY <1>2, AtStep DEF TypeInv, Carried, Carries, Update, Steps
    <3>2. s.exp = Exp(req[q].rt)
      BY <2>4 DEF RowsConsistent
    <3>3. t.exp = Exp(req[q].new)
      BY <1>0, <2>2, <2>4, RenewedRow
    <3>. QED
      BY <3>1, <3>2, <3>3, RtSessionsAssumption DEF Exp, Token
  <2>. QED
    BY <2>3, <2>4
<1>3. ASSUME NEW q \in Requests, Create(q), sessions' = sessions \cup {NewRow(q)}
      PROVE  s.exp <= t.exp
  BY <1>0, <1>3 DEF NewRow, RowsConsistent, Row
<1>. QED
  BY <1>1, <1>2, <1>3, TableKept DEF Cron, Update, Create, Delete

\* No write of any request moves the date of a session back.
THEOREM RtSessionsProlonged == Spec => OnlyProlonged
<1>1. RowsInv /\ [Next]_vars =>
        [\A s \in sessions, t \in sessions' : s.id = t.id => s.exp <= t.exp]_vars
  BY ProlongedStep
<1>. QED
  BY <1>1, RowsInvariant, PTL DEF Spec, OnlyProlonged

-----------------------------------------------------------------------------
\* Without two tokens of one user in a second, the token a request has signed
\* and not yet stored is nobody else's and has never been in the table.
Fresh(q) ==
    req[q].at \in {"find", "update", "create"} =>
        /\ req[q].new \notin Stored \cup retired
        /\ \A r \in Requests \ {q} : InFlight(r) => req[r].new # req[q].new

RetiredInv == RetiredStaysOut /\ \A q \in Requests : Fresh(q)

FreshInv == RowsInv /\ RetiredInv

Pends(q) == req[q].at \in {"find", "update", "create"}

\* A request that pends has signed a token.
LEMMA PendsToken ==
    ASSUME TypeInv, NEW q \in Requests, Pends(q)
    PROVE  InFlight(q) /\ req[q].new \in Token /\ req[q].new # NoToken
BY AtStep, RtSessionsAssumption DEF TypeInv, Carried, Carries, Pends, Steps, Token

\* A step of q that signs nothing and whose effect on the table keeps the
\* tokens of the other pending requests out of it.
LEMMA FreshKept ==
    ASSUME FreshInv, NEW q \in Requests,
           \A r \in Requests \ {q} : req'[r] = req[r],
           \/ req'[q].new = req[q].new /\ InFlight(q)
           \/ req'[q].at = "idle"
           \/ req'[q].new = NoToken,
           Pends(q)' => Pends(q) /\ req'[q].new = req[q].new
                        /\ (Stored \cup retired)' = Stored \cup retired,
           \A r \in Requests \ {q} : Pends(r) => req[r].new \notin (Stored \cup retired)'
    PROVE  \A r \in Requests : Fresh(r)'
<1> SUFFICES ASSUME NEW r \in Requests, Pends(r)'
             PROVE  /\ req'[r].new \notin (Stored \cup retired)'
                    /\ \A x \in Requests \ {r} : InFlight(x)' => req'[x].new # req'[r].new
  BY DEF Fresh, Pends
<1>1. Pends(r) /\ req'[r].new = req[r].new
  BY DEF Pends
<1>2. /\ req[r].new \notin Stored \cup retired
      /\ \A x \in Requests \ {r} : InFlight(x) => req[x].new # req[r].new
      /\ req[r].new # NoToken
  BY <1>1, PendsToken DEF FreshInv, RetiredInv, RowsInv, Fresh, Pends
<1>3. req'[r].new \notin (Stored \cup retired)'
  BY <1>1, <1>2
<1>4. ASSUME NEW x \in Requests \ {r}, InFlight(x)'
      PROVE  req'[x].new # req'[r].new
  BY <1>1, <1>2, <1>4 DEF InFlight
<1>. QED
  BY <1>3, <1>4

\* A new token is unlike any other.
LEMMA SignFresh ==
    ASSUME ~SameSecond, FreshInv, NEW q \in Requests, Sign(q)
    PROVE  RetiredInv'
<1> DEFINE new == [sub |-> req[q].user, iat |-> now]
<1>1. InFlight(q) /\ req[q] \in Request
  BY AtStep DEF FreshInv, RowsInv, TypeInv, Sign, Steps
<1>2. /\ req'[q].new = new
      /\ \A r \in Requests \ {q} : req'[r] = req[r]
      /\ UNCHANGED <<sessions, retired>>
  BY <1>1 DEF Sign, Request, FreshInv, RowsInv, TypeInv, TypeOK
<1>3. new \notin Stored \cup Pending \cup retired
  BY DEF Sign, MaySign
<1>4. new # NoToken
  BY <1>1, RtSessionsAssumption DEF FreshInv, RowsInv, TypeInv, TypeOK, Request
<1> HIDE DEF new
<1>5. \A r \in Requests : InFlight(r) => req[r].new # new
  BY <1>3, <1>4 DEF Pending
<1>6. ASSUME NEW r \in Requests \ {q}, Pends(r)'
      PROVE  Fresh(r)'
  BY <1>2, <1>5, <1>6, PendsToken
     DEF FreshInv, RowsInv, RetiredInv, Fresh, Pends, Stored, InFlight
<1>7. Fresh(q)'
  BY <1>2, <1>3, <1>5 DEF Fresh, Stored, InFlight
<1>8. \A r \in Requests : Fresh(r)'
  BY <1>6, <1>7 DEF Fresh, Pends
<1>. QED
  BY <1>2, <1>8 DEF FreshInv, RetiredInv, RetiredStaysOut, Stored

\* An update takes out the token of the cookie and brings in a fresh one.
LEMMA UpdateFresh ==
    ASSUME FreshInv, NEW q \in Requests, Update(q)
    PROVE  RetiredInv'
<1>1. InFlight(q) /\ req[q] \in Request /\ Pends(q)
  BY AtStep DEF FreshInv, RowsInv, TypeInv, Update, Steps, Pends
<1>2. /\ req[q].new \notin Stored \cup retired
      /\ \A r \in Requests \ {q} : InFlight(r) => req[r].new # req[q].new
  BY <1>1 DEF FreshInv, RetiredInv, Fresh, Pends
<1>3. CASE req[q].rt \in Stored /\ sessions' = {Renewed(s, q) : s \in sessions}
           /\ retired' = retired \cup ({req[q].rt} \ {req[q].new}) /\ Goto(q, "ok")
  <2>1. Stored' = (Stored \ {req[q].rt}) \cup {req[q].new}
    <3>1. sessions \subseteq Row
      BY DEF FreshInv, RowsInv, TypeInv, TypeOK
    <3>2. \A s \in sessions : Renewed(s, q).rt =
                                IF s.rt = req[q].rt THEN req[q].new ELSE s.rt
      BY <3>1, RenewedRow
    <3>3. PICK s \in sessions : s.rt = req[q].rt
      BY <1>3 DEF Stored
    <3>4. Stored' = {Renewed(u, q).rt : u \in sessions}
      BY <1>3 DEF Stored
    <3>. QED
      BY <3>2, <3>3, <3>4 DEF Stored
  <2>2. RetiredStaysOut'
    BY <1>2, <1>3, <2>1 DEF FreshInv, RetiredInv, RetiredStaysOut
  <2>3. /\ req'[q].at = "ok" /\ req'[q].new = req[q].new
        /\ \A r \in Requests \ {q} : req'[r] = req[r]
    BY <1>1, <1>3, GotoKeeps, GotoTypes DEF FreshInv, RowsInv, TypeInv, Steps
  <2>4. ASSUME NEW r \in Requests \ {q}, Pends(r)
        PROVE  req[r].new \notin (Stored \cup retired)'
    <3>1. InFlight(r) /\ req[r].new \notin Stored \cup retired
      BY <2>4, PendsToken DEF FreshInv, RowsInv, RetiredInv, Fresh, Pends
    <3>. QED
      BY <1>2, <1>3, <2>1, <3>1
  <2>. QED
    BY <1>1, <2>2, <2>3, <2>4, FreshKept DEF RetiredInv, Pends
<1>4. CASE Throw(q) /\ UNCHANGED <<sessions, retired>>
  <2>1. req'[q] = Idle /\ \A r \in Requests \ {q} : req'[r] = req[r]
    BY <1>4, ThrowTypes DEF FreshInv, RowsInv, TypeInv
  <2>2. \A r \in Requests : Fresh(r)'
    BY <1>4, <2>1 DEF FreshInv, RetiredInv, Fresh, Stored, InFlight, Idle
  <2>. QED
    BY <1>4, <2>2 DEF FreshInv, RetiredInv, RetiredStaysOut, Stored
<1>. QED
  BY <1>3, <1>4 DEF Update

\* A step that writes nothing new into the table, seen from the requests: at
\* most q moves on, without signing.
LEMMA MovedFresh ==
    ASSUME FreshInv, NEW q \in Requests,
           \A r \in Requests \ {q} : req'[r] = req[r],
           \/ req'[q].new = req[q].new /\ InFlight(q) /\ (Pends(q)' => Pends(q))
           \/ req'[q].at = "idle"
           \/ req'[q].new = NoToken /\ ~Pends(q)',
           UNCHANGED <<sessions, retired>>
    PROVE  RetiredInv'
<1>1. (Stored \cup retired)' = Stored \cup retired
  BY DEF Stored
<1>2. Pends(q)' => Pends(q) /\ req'[q].new = req[q].new
  BY DEF Pends
<1>3. \A r \in Requests \ {q} : Pends(r) => req[r].new \notin (Stored \cup retired)'
  BY <1>1 DEF FreshInv, RetiredInv, Fresh, Pends
<1>4. \A r \in Requests : Fresh(r)'
  BY <1>1, <1>2, <1>3, FreshKept
<1>. QED
  BY <1>4 DEF FreshInv, RetiredInv, RetiredStaysOut, Stored

\* A new row brings in a fresh token.
LEMMA CreateFresh ==
    ASSUME FreshInv, NEW q \in Requests, Create(q)
    PROVE  RetiredInv'
<1>1. InFlight(q) /\ req[q] \in Request /\ Pends(q)
  BY AtStep DEF FreshInv, RowsInv, TypeInv, Create, Steps, Pends
<1>2. /\ req[q].new \notin Stored \cup retired
      /\ \A r \in Requests \ {q} : InFlight(r) => req[r].new # req[q].new
  BY <1>1 DEF FreshInv, RetiredInv, Fresh, Pends
<1>3. sessions' = sessions \cup {NewRow(q)} /\ retired' = retired /\ Goto(q, "ok")
  BY <1>2 DEF Create
<1>4. Stored' = Stored \cup {req[q].new}
  <2>1. NewRow(q).rt = req[q].new
    BY DEF NewRow
  <2>. QED
    BY <1>3, <2>1 DEF Stored
<1>5. /\ req'[q].at = "ok" /\ req'[q].new = req[q].new
      /\ \A r \in Requests \ {q} : req'[r] = req[r]
  BY <1>1, <1>3, GotoKeeps, GotoTypes DEF FreshInv, RowsInv, TypeInv, Steps
<1>6. ASSUME NEW r \in Requests \ {q}, Pends(r)
      PROVE  req[r].new \notin (Stored \cup retired)'
  <2>1. InFlight(r) /\ req[r].new \notin Stored \cup retired
    BY <1>6, PendsToken DEF FreshInv, RowsInv, RetiredInv, Fresh, Pends
  <2>. QED
    BY <1>2, <1>3, <1>4, <2>1
<1>7. \A r \in Requests : Fresh(r)'
  BY <1>1, <1>5, <1>6, FreshKept DEF Pends
<1>. QED
  BY <1>2, <1>3, <1>4, <1>7 DEF FreshInv, RetiredInv, RetiredStaysOut

\* Tokens that leave the table become retired, and only they.
LEMMA DeletedFresh ==
    ASSUME FreshInv, NEW gone \in SUBSET sessions,
           sessions' = sessions \ gone,
           retired' = retired \cup {s.rt : s \in gone}
    PROVE  RetiredStaysOut' /\ (Stored \cup retired)' = Stored \cup retired
<1>1. Stored' = Stored \ {s.rt : s \in gone}
  BY DEF FreshInv, RowsInv, RowsConsistent, Stored
<1>2. {s.rt : s \in gone} \subseteq Stored
  BY DEF Stored
<1>. QED
  BY <1>1, <1>2 DEF FreshInv, RetiredInv, RetiredStaysOut

\* A logout retires the token of the cookie.
LEMMA DeleteFresh ==
    ASSUME FreshInv, NEW q \in Requests, Delete(q)
    PROVE  RetiredInv'
<1>1. InFlight(q)
  BY AtStep DEF FreshInv, RowsInv, TypeInv, Delete, Steps
<1>2. CASE /\ req[q].rt \in Stored
           /\ sessions' = {s \in sessions : s.rt # req[q].rt}
           /\ retired' = retired \cup {req[q].rt}
           /\ Goto(q, "ok")
  <2> DEFINE gone == {s \in sessions : s.rt = req[q].rt}
  <2>1. gone \in SUBSET sessions /\ sessions' = sessions \ gone
        /\ {s.rt : s \in gone} = {req[q].rt}
    BY <1>2 DEF Stored
  <2>2. RetiredStaysOut' /\ (Stored \cup retired)' = Stored \cup retired
    <3> HIDE DEF gone
    <3>. QED  BY <1>2, <2>1, DeletedFresh
  <2>3. /\ req'[q].at = "ok" /\ req'[q].new = req[q].new
        /\ \A r \in Requests \ {q} : req'[r] = req[r]
    BY <1>1, <1>2, GotoKeeps, GotoTypes DEF FreshInv, RowsInv, TypeInv, Steps
  <2>4. \A r \in Requests \ {q} : Pends(r) => req[r].new \notin (Stored \cup retired)'
    BY <2>2 DEF FreshInv, RetiredInv, Fresh, Pends
  <2>. QED
    BY <1>1, <2>2, <2>3, <2>4, FreshKept DEF RetiredInv, Pends
<1>3. CASE Throw(q) /\ UNCHANGED <<sessions, retired>>
  BY <1>3, ThrowTypes, MovedFresh DEF FreshInv, RowsInv, TypeInv, Idle
<1>. QED
  BY <1>2, <1>3 DEF Delete

\* Every step; the assumption is used by Sign alone.
LEMMA RetiredStep ==
    ASSUME ~SameSecond, FreshInv, [Next]_vars
    PROVE  RetiredInv'
<1>1. CASE Cron
  <2> DEFINE gone == {s \in sessions : Expired(s)}
  <2>1. /\ gone \in SUBSET sessions /\ sessions' = sessions \ gone
        /\ retired' = retired \cup {s.rt : s \in gone} /\ req' = req
    BY <1>1 DEF Cron
  <2>2. RetiredStaysOut' /\ (Stored \cup retired)' = Stored \cup retired
    <3> HIDE DEF gone
    <3>. QED  BY <2>1, DeletedFresh
  <2>. QED
    BY <2>1, <2>2 DEF FreshInv, RetiredInv, Fresh, InFlight
<1>2. ASSUME UNCHANGED <<sessions, retired, req>>  PROVE RetiredInv'
  BY <1>2 DEF FreshInv, RetiredInv, RetiredStaysOut, Fresh, Stored, InFlight
<1>3. ASSUME NEW q \in Requests, NEW c \in Clients, NEW u \in Users,
             NEW kind \in {"login", "refresh", "logout"},
             NEW at \in {"guard", "sign", "delete"}, Send(q, kind, at, c, u)
      PROVE  RetiredInv'
  <2>1. /\ req'[q].at = at /\ req'[q].new = NoToken
        /\ \A r \in Requests \ {q} : req'[r] = req[r]
        /\ UNCHANGED <<sessions, retired>>
    BY <1>3 DEF Send, FreshInv, RowsInv, TypeInv, TypeOK
  <2>. QED
    BY <2>1, MovedFresh DEF Pends
<1>4. ASSUME NEW q \in Requests, NEW c \in Clients, Refresh(q, c) \/ Logout(q, c)
      PROVE  RetiredInv'
  <2>1. jar[c].sub \in Users
    BY <1>4 DEF Refresh, Logout, FreshInv, RowsInv, TypeInv, TypeOK, MaybeToken, Token
  <2>. QED
    BY <1>3, <1>4, <2>1 DEF Refresh, Logout
<1>5. ASSUME NEW q \in Requests, NEW c \in Clients, NEW u \in Users, Login(q, c, u)
      PROVE  RetiredInv'
  BY <1>3, <1>5 DEF Login
<1>6. ASSUME NEW q \in Requests, RtGuard(q) \/ Find(q) \/ Receive(q) \/ Lose(q)
      PROVE  RetiredInv'
  <2>1. InFlight(q) /\ UNCHANGED <<sessions, retired>>
    BY <1>6, AtStep DEF FreshInv, RowsInv, TypeInv, RtGuard, Find, Receive, Lose, Steps
  <2>2. CASE Throw(q)
    BY <2>1, <2>2, ThrowTypes, MovedFresh DEF FreshInv, RowsInv, TypeInv, Idle
  <2>3. ASSUME NEW at \in {"sign", "update", "create"}, Goto(q, at),
               at # "sign" => Pends(q)
        PROVE  RetiredInv'
    <3>1. at \in Steps
      BY DEF Steps
    <3>2. /\ req'[q].at = at /\ req'[q].new = req[q].new
          /\ \A r \in Requests \ {q} : req'[r] = req[r]
      BY <2>1, <2>3, <3>1, GotoKeeps, GotoTypes DEF FreshInv, RowsInv, TypeInv
    <3>. QED
      BY <2>1, <2>3, <3>2, MovedFresh DEF Pends
  <2>. QED
    BY <1>6, <2>2, <2>3 DEF RtGuard, Find, Receive, Lose, Throw, Pends
<1>. QED
  BY <1>1, <1>2, <1>4, <1>5, <1>6, SignFresh, UpdateFresh, CreateFresh, DeleteFresh
     DEF Next, Serve, Tick, CookieExpires, vars

\* Rows stay consistent, tokens that pend fresh, and retired ones out.
LEMMA FreshInvariant ==
    ASSUME ~SameSecond
    PROVE  Spec => []FreshInv
<1>1. Init => FreshInv
  <2>1. Init => RowsInv
    BY TypeInvInit DEF RowsInv, Init, RowsConsistent
  <2>. QED
    BY <2>1 DEF Init, FreshInv, RetiredInv, RetiredStaysOut, Fresh, Stored, Idle
<1>2. FreshInv /\ [Next]_vars => FreshInv'
  BY TypeInvStep, RowsConsistentStep, RetiredStep DEF FreshInv, RowsInv
<1>. QED
  BY <1>1, <1>2, PTL DEF Spec

\* A refresh token that has been replaced, logged out or cleared never comes
\* back into the table, however requests overlap, provided that no user is
\* signed two tokens in one second.
THEOREM RtSessionsRetired ==
    ASSUME ~SameSecond
    PROVE  Spec => []RetiredStaysOut
BY FreshInvariant, PTL DEF FreshInv, RetiredInv

-----------------------------------------------------------------------------
\* A token that pends can be entered in the book.
LEMMA PendingEntered ==
    ASSUME FreshInv, NEW q \in Requests, Pends(q), NEW s,
           s.rt = req[q].new, s.exp = Exp(req[q].new)
    PROVE  Book!Entered(s)
BY DEF FreshInv, RetiredInv, Fresh, Pends, Stored, Exp, Book!Entered

\* updateRtSessionByRt renames the session of the cookie's token, and only it.
LEMMA UpdateProlongs ==
    ASSUME FreshInv, NEW q \in Requests, Update(q),
           ~ UNCHANGED <<now, sessions, retired>>
    PROVE  \E s \in sessions, t \in sessions' : Book!Prolong(s, t)
<1>1. /\ req[q].rt \in Stored
      /\ sessions' = {Renewed(s, q) : s \in sessions}
      /\ retired' = retired \cup ({req[q].rt} \ {req[q].new})
      /\ now' = now
  BY DEF Update
<1>2. /\ Pends(q) /\ InFlight(q) /\ req[q].at = "update"
      /\ req[q].rt \in Token /\ req[q].new \in Token
      /\ req[q].rt.iat <= req[q].new.iat
  BY AtStep DEF FreshInv, RowsInv, TypeInv, Carried, Carries, Update, Pends, Steps
<1>3. PICK s \in sessions : s.rt = req[q].rt
  BY <1>1 DEF Stored
<1>4. /\ sessions \subseteq Row /\ s.exp = Exp(req[q].rt)
      /\ \A o \in sessions : o.rt = req[q].rt => o = s
  BY <1>3 DEF FreshInv, RowsInv, RowsConsistent, TypeInv, TypeOK
<1> DEFINE t == Renewed(s, q)
<1>5. t.id = s.id /\ t.userId = s.userId /\ t.rt = req[q].new /\ t.exp = Exp(req[q].new)
  BY <1>3, <1>4 DEF Renewed, Row
<1>6. \A o \in sessions \ {s} : Renewed(o, q) = o
  BY <1>4 DEF Renewed
<1>7. sessions' = (sessions \ {s}) \cup {t} /\ t \in sessions'
  BY <1>1, <1>6
<1>8. Book!Entered(t)
  BY <1>2, <1>5, PendingEntered
<1>9. s.exp <= t.exp
  BY <1>2, <1>4, <1>5, RtSessionsAssumption DEF Exp, Token
<1>10. retired' = retired \cup {s.rt}
  <2>1. req[q].new \notin Stored
    BY <1>2 DEF FreshInv, RetiredInv, Fresh, Pends
  <2>. QED
    BY <1>1, <1>3, <2>1
<1>11. Book!Prolong(s, t)
  <2> HIDE DEF t
  <2>. QED
    BY <1>1, <1>5, <1>7, <1>8, <1>9, <1>10 DEF Book!Prolong
<1>. QED
  BY <1>7, <1>11

\* createRtSession opens a session.
LEMMA CreateOpens ==
    ASSUME FreshInv, NEW q \in Requests, Create(q),
           ~ UNCHANGED <<now, sessions, retired>>
    PROVE  \E s \in sessions' : Book!Open(s)
<1>1. /\ sessions' = sessions \cup {NewRow(q)}
      /\ UNCHANGED <<now, retired>>
  BY DEF Create
<1>2. Pends(q)
  BY DEF Create, Pends
<1>3. /\ NewRow(q).id = nextId /\ NewRow(q).rt = req[q].new
      /\ NewRow(q).exp = Exp(req[q].new)
  BY DEF NewRow
<1>4. Book!Entered(NewRow(q))
  BY <1>2, <1>3, PendingEntered
<1>5. \A o \in sessions : o.id # nextId
  BY DEF FreshInv, RowsInv, RowsConsistent, TypeInv, TypeOK, Row
<1>6. Book!Open(NewRow(q))
  BY <1>1, <1>3, <1>4, <1>5 DEF Book!Open
<1>. QED
  BY <1>1, <1>6

\* deleteRtSessionByRt closes one.
LEMMA DeleteCloses ==
    ASSUME FreshInv, NEW q \in Requests, Delete(q),
           ~ UNCHANGED <<now, sessions, retired>>
    PROVE  \E s \in sessions : Book!Close(s)
<1>1. /\ req[q].rt \in Stored
      /\ sessions' = {s \in sessions : s.rt # req[q].rt}
      /\ retired' = retired \cup {req[q].rt}
      /\ now' = now
  BY DEF Delete
<1>2. PICK s \in sessions : s.rt = req[q].rt
  BY <1>1 DEF Stored
<1>3. \A o \in sessions : o.rt = s.rt => o = s
  BY DEF FreshInv, RowsInv, RowsConsistent
<1>4. sessions' = sessions \ {s}
  BY <1>1, <1>2, <1>3
<1>. QED
  BY <1>1, <1>2, <1>4 DEF Book!Close

\* Every step of the requests, the clock and the cron job is a step of the
\* book, or leaves it alone.
LEMMA StepsBook ==
    ASSUME FreshInv, [Next]_vars
    PROVE  [Book!BookNext]_<<now, sessions, retired>>
<1>1. CASE Tick
  BY <1>1 DEF Tick, Book!Pass, Book!BookNext
<1>2. CASE Cron
  <2> DEFINE over == {s \in sessions : s.exp < now}
  <2>1. sessions' = sessions \ over /\ retired' = retired \cup {s.rt : s \in over} /\ now' = now
    BY <1>2 DEF Cron, Expired
  <2>. QED
    BY <2>1 DEF Book!Clear, Book!BookNext
<1>3. ASSUME NEW q \in Requests, Update(q)  PROVE [Book!BookNext]_<<now, sessions, retired>>
  BY <1>3, UpdateProlongs DEF Book!BookNext
<1>4. ASSUME NEW q \in Requests, Create(q)  PROVE [Book!BookNext]_<<now, sessions, retired>>
  BY <1>4, CreateOpens DEF Book!BookNext
<1>5. ASSUME NEW q \in Requests, Delete(q)  PROVE [Book!BookNext]_<<now, sessions, retired>>
  BY <1>5, DeleteCloses DEF Book!BookNext
<1>6. CASE UNCHANGED <<now, sessions, retired>>
  BY <1>6
<1>. QED
  BY <1>1, <1>2, <1>3, <1>4, <1>5, <1>6
     DEF Next, vars, CookieExpires, Refresh, Logout, Login, Send, Serve, RtGuard,
         Sign, Find, Receive, Lose

\* However logins, refreshes, logouts and the cron job overlap, the table is a
\* book of sessions in which a token serves once, provided that no user is
\* signed two tokens in one second.
THEOREM RtSessionsRefineBook ==
    ASSUME ~SameSecond
    PROVE  Spec => RefinesBook
<1>1. Init => Book!BookInit
  BY DEF Init, Book!BookInit
<1>2. FreshInv /\ [Next]_vars => [Book!BookNext]_<<now, sessions, retired>>
  BY StepsBook
<1>. QED
  BY <1>1, <1>2, FreshInvariant, PTL DEF Spec, RefinesBook, Book!BookSpec, Book!bookVars

-----------------------------------------------------------------------------
\* Tokens that a browser or a request has from an answer or a cookie have been
\* in the table, and no request has a new token before it signs one.
Known ==
    /\ \A c \in Clients : jar[c] \in Token => jar[c] \in Stored \cup retired
    /\ \A q \in Requests : InFlight(q) =>
         /\ req[q].rt \in Token => req[q].rt \in Stored \cup retired
         /\ req[q].at = "ok" /\ req[q].new \in Token => req[q].new \in Stored \cup retired
         /\ req[q].at \in {"guard", "sign", "delete"} => req[q].new = NoToken

\* Has q a token that its browser has not got yet?
Brings(q) == InFlight(q) /\ req[q].new \in Token

\* Nobody else has it.
Undelivered ==
    \A q \in Requests : Brings(q) =>
        /\ \A c \in Clients : jar[c] # req[q].new
        /\ \A r \in Requests : InFlight(r) => req[r].rt # req[q].new
        /\ \A r \in Requests \ {q} : InFlight(r) => req[r].new # req[q].new

\* The token of a browser is carried by its own requests only.
OneBrowser ==
    \A c \in Clients : jar[c] \in Token =>
        /\ \A d \in Clients : jar[d] = jar[c] => d = c
        /\ \A q \in Requests : InFlight(q) /\ req[q].rt = jar[c] => req[q].client = c

\* What an answer brings has a session.
AnswersHold ==
    \A q \in Requests :
        Brings(q) /\ req[q].at = "ok" /\ now < Exp(req[q].new) => req[q].new \in Stored

\* A browser whose session is gone has been sent something newer.
Superseded(c) ==
    c \in lost \/ \E q \in Requests : req[q].at = "ok" /\ req[q].client = c

CookiesHold ==
    \A c \in Clients :
        jar[c] \in Token /\ now < Exp(jar[c]) => jar[c] \in Stored \/ Superseded(c)

CookieInv == Known /\ Undelivered /\ OneBrowser /\ AnswersHold /\ CookiesHold

CookieFull == FreshInv /\ CookieInv

\* A new request carries what its browser has.
LEMMA SendCookie ==
    ASSUME CookieFull, NEW q \in Requests, NEW c \in Clients, NEW u \in Users,
           NEW kind \in {"login", "refresh", "logout"},
           NEW at \in {"guard", "sign", "delete"}, Send(q, kind, at, c, u)
    PROVE  CookieInv'
<1>1. /\ req'[q].at = at /\ req'[q].new = NoToken
      /\ req'[q].rt = jar[c] /\ req'[q].client = c
      /\ \A r \in Requests \ {q} : req'[r] = req[r]
      /\ ~ InFlight(q)
      /\ UNCHANGED <<now, sessions, jar, lost, retired>>
  BY DEF Send, CookieFull, FreshInv, RowsInv, TypeInv, TypeOK
<1>2. NoToken \notin Token
  BY RtSessionsAssumption DEF Token
<1>3. \A r \in Requests : Brings(r)' => r # q /\ Brings(r)
  BY <1>1, <1>2 DEF Brings, InFlight
<1>4. Known'
  BY <1>1 DEF CookieFull, CookieInv, Known, InFlight, Stored
<1>5. Undelivered'
  BY <1>1, <1>2, <1>3 DEF CookieFull, CookieInv, Undelivered, Brings, InFlight
<1>6. OneBrowser'
  BY <1>1 DEF CookieFull, CookieInv, OneBrowser, InFlight
<1>7. AnswersHold'
  BY <1>1, <1>3 DEF CookieFull, CookieInv, AnswersHold, Stored
<1>8. CookiesHold'
  BY <1>1 DEF CookieFull, CookieInv, CookiesHold, Superseded, InFlight, Stored
<1>. QED
  BY <1>4, <1>5, <1>6, <1>7, <1>8 DEF CookieInv

\* A request that ends leaves no less behind, if its browser counts as having
\* missed the answer it was sent.
LEMMA ThrowCookie ==
    ASSUME CookieFull, NEW q \in Requests, Throw(q),
           UNCHANGED <<now, sessions, jar, retired>>,
           lost \subseteq lost',
           req[q].at = "ok" => req[q].client \in lost'
    PROVE  CookieInv'
<1>1. req'[q] = Idle /\ \A r \in Requests \ {q} : req'[r] = req[r]
  BY ThrowTypes DEF CookieFull, FreshInv, RowsInv, TypeInv
<1>2. \A r \in Requests : InFlight(r)' => r # q /\ InFlight(r)
  BY <1>1 DEF InFlight, Idle
<1>3. \A r \in Requests : Brings(r)' => r # q /\ Brings(r)
  BY <1>1, <1>2 DEF Brings
<1>4. Known'
  BY <1>1, <1>2 DEF CookieFull, CookieInv, Known, Stored
<1>5. Undelivered'
  BY <1>1, <1>2, <1>3 DEF CookieFull, CookieInv, Undelivered
<1>6. OneBrowser'
  BY <1>1, <1>2 DEF CookieFull, CookieInv, OneBrowser
<1>7. AnswersHold'
  BY <1>1, <1>3 DEF CookieFull, CookieInv, AnswersHold, Stored
<1>8. \A c \in Clients : Superseded(c) => Superseded(c)'
  BY <1>1 DEF Superseded
<1>9. CookiesHold'
  BY <1>8 DEF CookieFull, CookieInv, CookiesHold, Stored
<1>. QED
  BY <1>4, <1>5, <1>6, <1>7, <1>9 DEF CookieInv

\* A request that goes on without signing or writing.
LEMMA MoveCookie ==
    ASSUME CookieFull, NEW q \in Requests, NEW at \in {"sign", "update", "create"},
           Goto(q, at), req[q].at = IF at = "sign" THEN "guard" ELSE "find",
           UNCHANGED <<now, sessions, jar, lost, retired>>
    PROVE  CookieInv'
<1>1. InFlight(q) /\ at \in Steps
  BY AtStep DEF CookieFull, FreshInv, RowsInv, TypeInv, Steps
<1>2. /\ req'[q].at = at /\ req'[q].new = req[q].new
      /\ req'[q].rt = req[q].rt /\ req'[q].client = req[q].client
      /\ \A r \in Requests \ {q} : req'[r] = req[r]
  BY <1>1, GotoKeeps, GotoTypes DEF CookieFull, FreshInv, RowsInv, TypeInv
<1>3. \A r \in Requests : /\ InFlight(r)' <=> InFlight(r)
                          /\ Brings(r)' <=> Brings(r)
                          /\ req'[r].rt = req[r].rt /\ req'[r].new = req[r].new
                          /\ req'[r].client = req[r].client
                          /\ req'[r].at = "ok" <=> req[r].at = "ok"
                          /\ req'[r].at \in {"guard", "sign", "delete"} =>
                                 req[r].at \in {"guard", "sign", "delete"}
  BY <1>1, <1>2 DEF InFlight, Brings
<1>4. Known'
  BY <1>3 DEF CookieFull, CookieInv, Known, Stored
<1>5. Undelivered'
  BY <1>3 DEF CookieFull, CookieInv, Undelivered
<1>6. OneBrowser'
  BY <1>3 DEF CookieFull, CookieInv, OneBrowser
<1>7. AnswersHold'
  BY <1>3 DEF CookieFull, CookieInv, AnswersHold, Stored
<1>8. CookiesHold'
  BY <1>3 DEF CookieFull, CookieInv, CookiesHold, Superseded, Stored
<1>. QED
  BY <1>4, <1>5, <1>6, <1>7, <1>8 DEF CookieInv

\* A token just signed is in no cookie and in no other request.
LEMMA SignCookie ==
    ASSUME ~SameSecond, CookieFull, NEW q \in Requests, Sign(q)
    PROVE  CookieInv'
<1> DEFINE new == [sub |-> req[q].user, iat |-> now]
<1>1. InFlight(q) /\ req[q] \in Request
  BY AtStep DEF CookieFull, FreshInv, RowsInv, TypeInv, Sign, Steps
<1>2. /\ req'[q].new = new /\ req'[q].at \in {"find", "create"}
      /\ req'[q].rt = req[q].rt /\ req'[q].client = req[q].client
      /\ \A r \in Requests \ {q} : req'[r] = req[r]
      /\ UNCHANGED <<now, sessions, jar, lost, retired>>
  BY <1>1 DEF Sign, Request, CookieFull, FreshInv, RowsInv, TypeInv, TypeOK
<1>3. new \notin Stored \cup Pending \cup retired
  BY DEF Sign, MaySign
<1>4. new \in Token /\ NoToken \notin Token
  BY <1>1, RtSessionsAssumption DEF CookieFull, FreshInv, RowsInv, TypeInv, TypeOK, Request, Token
<1> HIDE DEF new
<1>5. \A r \in Requests : InFlight(r) => req[r].new # new /\ req[r].rt # new
  BY <1>3, <1>4 DEF Pending, CookieFull, CookieInv, Known
<1>6. \A c \in Clients : jar[c] # new
  BY <1>3, <1>4 DEF CookieFull, CookieInv, Known
<1>7. \A r \in Requests : /\ InFlight(r)' <=> InFlight(r)
                          /\ req'[r].rt = req[r].rt
                          /\ req'[r].client = req[r].client
                          /\ r # q => req'[r].new = req[r].new
                          /\ r # q => (Brings(r)' <=> Brings(r))
                          /\ req'[r].at = "ok" <=> req[r].at = "ok"
  BY <1>1, <1>2 DEF InFlight, Brings, Sign
<1>8. Known'
  BY <1>2, <1>7 DEF CookieFull, CookieInv, Known, Stored
<1>9. Undelivered'
  <2>1. ASSUME NEW r \in Requests, Brings(r)'
        PROVE  /\ \A c \in Clients : jar[c] # req'[r].new
               /\ \A p \in Requests : InFlight(p) => req[p].rt # req'[r].new
               /\ \A p \in Requests \ {r} : InFlight(p) => req'[p].new # req'[r].new
    <3>1. CASE r = q
      BY <1>2, <1>5, <1>6, <3>1
    <3>2. CASE r # q
      <4>1. Brings(r) /\ InFlight(r) /\ req'[r].new = req[r].new
        BY <1>7, <2>1, <3>2 DEF Brings
      <4>2. req'[q].new # req[r].new
        BY <1>2, <1>5, <4>1
      <4>. QED
        BY <1>7, <3>2, <4>1, <4>2 DEF CookieFull, CookieInv, Undelivered
    <3>. QED
      BY <3>1, <3>2
  <2>. QED
    BY <1>2, <1>7, <2>1 DEF Undelivered
<1>10. OneBrowser'
  BY <1>2, <1>7 DEF CookieFull, CookieInv, OneBrowser
<1>11. AnswersHold'
  BY <1>2, <1>7 DEF CookieFull, CookieInv, AnswersHold, Stored
<1>12. CookiesHold'
  BY <1>2, <1>7 DEF CookieFull, CookieInv, CookiesHold, Superseded, Stored
<1>. QED
  BY <1>8, <1>9, <1>10, <1>11, <1>12 DEF CookieInv

\* What a successful write does to the tokens of the table.
LEMMA WriteTable ==
    ASSUME CookieFull, NEW q \in Requests, Update(q) \/ Create(q) \/ Delete(q)
    PROVE  \/ Throw(q) /\ UNCHANGED <<sessions, retired>>
           \/ /\ Goto(q, "ok")
              /\ Stored \ {req[q].rt} \subseteq Stored'
              /\ Stored \cup retired \subseteq (Stored \cup retired)'
              /\ req[q].new \in Token => req[q].new \in Stored'
<1>1. CASE /\ Update(q) /\ req[q].rt \in Stored
           /\ req[q].new \notin Stored \ {req[q].rt}
  <2>1. /\ req[q].rt \in Stored
        /\ sessions' = {Renewed(s, q) : s \in sessions}
        /\ retired' = retired \cup ({req[q].rt} \ {req[q].new})
        /\ Goto(q, "ok")
    BY <1>1 DEF Update
  <2>2. sessions \subseteq Row
    BY DEF CookieFull, FreshInv, RowsInv, TypeInv, TypeOK
  <2>3. \A s \in sessions : Renewed(s, q).rt =
                              IF s.rt = req[q].rt THEN req[q].new ELSE s.rt
    BY <2>2, RenewedRow
  <2>4. PICK s \in sessions : s.rt = req[q].rt
    BY <2>1 DEF Stored
  <2>5. Stored' = {Renewed(u, q).rt : u \in sessions}
    BY <2>1 DEF Stored
  <2>6. Stored' = (Stored \ {req[q].rt}) \cup {req[q].new}
    BY <2>3, <2>4, <2>5 DEF Stored
  <2>. QED
    BY <2>1, <2>6
<1>2. CASE Create(q) /\ req[q].new \notin Stored
  <2>1. sessions' = sessions \cup {NewRow(q)} /\ retired' = retired /\ Goto(q, "ok")
    BY <1>2 DEF Create
  <2>2. NewRow(q).rt = req[q].new
    BY DEF NewRow
  <2>3. Stored' = Stored \cup {req[q].new}
    BY <2>1, <2>2 DEF Stored
  <2>. QED
    BY <2>1, <2>3
<1>3. CASE Delete(q) /\ req[q].rt \in Stored
  <2>1. /\ sessions' = {s \in sessions : s.rt # req[q].rt}
        /\ retired' = retired \cup {req[q].rt}
        /\ Goto(q, "ok") /\ req[q].at = "delete"
    BY <1>3 DEF Delete
  <2>2. Stored' = Stored \ {req[q].rt}
    BY <2>1 DEF Stored
  <2>3. req[q].new \notin Token
    BY <2>1, RtSessionsAssumption DEF CookieFull, CookieInv, Known, InFlight, Token
  <2>. QED
    BY <2>1, <2>2, <2>3
<1>. QED
  BY <1>1, <1>2, <1>3 DEF Update, Create, Delete

\* A write takes away the session of its own browser's token at most, and that
\* browser has an answer coming.
LEMMA WriteCookie ==
    ASSUME CookieFull, NEW q \in Requests, Update(q) \/ Create(q) \/ Delete(q)
    PROVE  CookieInv'
<1>1. InFlight(q) /\ req[q].at # "ok" /\ UNCHANGED <<now, jar, lost>>
  BY AtStep DEF CookieFull, FreshInv, RowsInv, TypeInv, Update, Create, Delete, Steps
<1>2. CASE Throw(q) /\ UNCHANGED <<sessions, retired>>
  BY <1>1, <1>2, ThrowCookie
<1>3. CASE /\ Goto(q, "ok")
           /\ Stored \ {req[q].rt} \subseteq Stored'
           /\ Stored \cup retired \subseteq (Stored \cup retired)'
           /\ req[q].new \in Token => req[q].new \in Stored'
  <2>1. /\ req'[q].at = "ok" /\ req'[q].new = req[q].new
        /\ req'[q].rt = req[q].rt /\ req'[q].client = req[q].client
        /\ \A r \in Requests \ {q} : req'[r] = req[r]
    BY <1>1, <1>3, GotoKeeps, GotoTypes DEF CookieFull, FreshInv, RowsInv, TypeInv, Steps
  <2>2. \A r \in Requests : /\ InFlight(r)' <=> InFlight(r)
                            /\ Brings(r)' <=> Brings(r)
                            /\ req'[r].rt = req[r].rt /\ req'[r].new = req[r].new
                            /\ req'[r].client = req[r].client
                            /\ r # q => req'[r].at = req[r].at
    BY <1>1, <2>1 DEF InFlight, Brings
  <2>3. Known'
    BY <1>1, <1>3, <2>1, <2>2 DEF CookieFull, CookieInv, Known
  <2>4. Undelivered'
    BY <1>1, <2>2 DEF CookieFull, CookieInv, Undelivered
  <2>5. OneBrowser'
    BY <1>1, <2>2 DEF CookieFull, CookieInv, OneBrowser
  <2>6. AnswersHold'
    <3>1. ASSUME NEW r \in Requests \ {q}, Brings(r), req[r].at = "ok", now < Exp(req[r].new)
          PROVE  req[r].new \in Stored'
      BY <1>1, <1>3, <3>1 DEF CookieFull, CookieInv, AnswersHold, Undelivered
    <3>. QED
      BY <1>1, <1>3, <2>2, <3>1 DEF AnswersHold, Brings
  <2>7. ASSUME NEW c \in Clients, jar[c] \in Token, now < Exp(jar[c])
        PROVE  jar[c] \in Stored' \/ Superseded(c)'
    <3>1. CASE jar[c] = req[q].rt
      BY <1>1, <2>1, <2>7, <3>1 DEF CookieFull, CookieInv, OneBrowser, Superseded
    <3>2. CASE jar[c] # req[q].rt
      BY <1>1, <1>3, <2>1, <2>2, <2>7, <3>2 DEF CookieFull, CookieInv, CookiesHold, Superseded
    <3>. QED
      BY <3>1, <3>2
  <2>8. CookiesHold'
    BY <1>1, <2>7 DEF CookiesHold
  <2>. QED
    BY <2>3, <2>4, <2>5, <2>6, <2>8 DEF CookieInv
<1>. QED
  BY <1>2, <1>3, WriteTable

\* An answer that arrives brings a token that is in the table, and nobody
\* else's.
LEMMA ReceiveCookie ==
    ASSUME CookieFull, NEW q \in Requests, Receive(q)
    PROVE  CookieInv'
<1> DEFINE b == req[q].client
           new == req[q].new
<1>1. InFlight(q) /\ req[q] \in Request /\ req[q].at = "ok"
  BY AtStep DEF CookieFull, FreshInv, RowsInv, TypeInv, Receive, Steps
<1>2. /\ b \in Clients /\ jar'[b] = new
      /\ \A c \in Clients \ {b} : jar'[c] = jar[c]
  BY <1>1 DEF Receive, Request, CookieFull, FreshInv, RowsInv, TypeInv, TypeOK
<1>3. /\ req'[q] = Idle /\ \A r \in Requests \ {q} : req'[r] = req[r]
      /\ UNCHANGED <<now, sessions, retired>> /\ lost' = lost \ {b}
  BY DEF Receive, CookieFull, FreshInv, RowsInv, TypeInv, TypeOK
<1>4. \A r \in Requests : InFlight(r)' => r # q /\ InFlight(r)
  BY <1>3 DEF InFlight, Idle
<1>5. \A r \in Requests : Brings(r)' => r # q /\ Brings(r)
  BY <1>3, <1>4 DEF Brings
<1>6. new \in Token =>
        /\ Brings(q)
        /\ new \in Stored \cup retired
        /\ now < Exp(new) => new \in Stored
        /\ \A c \in Clients : jar[c] # new
        /\ \A r \in Requests : InFlight(r) => req[r].rt # new
        /\ \A r \in Requests \ {q} : InFlight(r) => req[r].new # new
  BY <1>1 DEF Brings, CookieFull, CookieInv, Known, Undelivered, AnswersHold
<1> HIDE DEF b, new
<1>7. Known'
  BY <1>2, <1>3, <1>4, <1>6 DEF CookieFull, CookieInv, Known, Stored
<1>8. ASSUME NEW r \in Requests, r # q, Brings(r)
      PROVE  \A c \in Clients : jar'[c] # req[r].new
  <2>1. req[r].new # new
    BY <1>1, <1>8 DEF CookieFull, CookieInv, Undelivered, new
  <2>. QED
    BY <1>2, <1>8, <2>1 DEF CookieFull, CookieInv, Undelivered
<1>9. Undelivered'
  BY <1>3, <1>4, <1>5, <1>8 DEF CookieFull, CookieInv, Undelivered
<1>10. OneBrowser'
  BY <1>2, <1>3, <1>4, <1>6 DEF CookieFull, CookieInv, OneBrowser
<1>11. AnswersHold'
  BY <1>3, <1>5 DEF CookieFull, CookieInv, AnswersHold, Stored
<1>12. \A c \in Clients \ {b} : Superseded(c) => Superseded(c)'
  BY <1>3 DEF Superseded, b
<1>13. CookiesHold'
  BY <1>2, <1>3, <1>6, <1>12 DEF CookieFull, CookieInv, CookiesHold, Stored
<1>. QED
  BY <1>7, <1>9, <1>10, <1>11, <1>13 DEF CookieInv

\* Steps of no request: the cron job deletes sessions of expired tokens only.
LEMMA OtherCookie ==
    ASSUME CookieFull,
           Tick \/ Cron \/ (\E c \in Clients : CookieExpires(c)) \/ UNCHANGED vars
    PROVE  CookieInv'
<1>0. /\ req' = req /\ lost' = lost
      /\ \A c \in Clients : jar'[c] \in Token => jar'[c] = jar[c]
  BY RtSessionsAssumption DEF Tick, Cron, CookieExpires, vars, CookieFull, FreshInv, RowsInv,
       TypeInv, TypeOK, Token
<1>1. Stored \cup retired \subseteq (Stored \cup retired)'
  BY DEF Tick, Cron, CookieExpires, vars, Stored
<1>2. ASSUME NEW t \in Token, now' < Exp(t)  PROVE now < Exp(t)
  BY <1>2, RtSessionsAssumption DEF Tick, Cron, CookieExpires, vars, CookieFull, FreshInv,
       RowsInv, TypeInv, TypeOK, Exp, Token
<1>3. ASSUME NEW t \in Token, now' < Exp(t), t \in Stored  PROVE t \in Stored'
  <2>1. CASE Cron
    <3>1. PICK s \in sessions : s.rt = t
      BY <1>3 DEF Stored
    <3>2. s.exp = Exp(t) /\ now' = now /\ now \in Nat /\ Exp(t) \in Nat
      BY <2>1, <3>1, RtSessionsAssumption DEF Cron, CookieFull, FreshInv, RowsInv, TypeInv, TypeOK,
           RowsConsistent, Exp, Token
    <3>3. s \in sessions'
      BY <1>3, <2>1, <3>2 DEF Cron, Expired
    <3>. QED
      BY <3>1, <3>3 DEF Stored
  <2>. QED
    BY <1>3, <2>1 DEF Tick, CookieExpires, vars, Stored
<1>4. Known'
  BY <1>0, <1>1 DEF CookieFull, CookieInv, Known, InFlight
<1>5. \A r \in Requests : (InFlight(r)' <=> InFlight(r)) /\ (Brings(r)' <=> Brings(r))
  BY <1>0 DEF InFlight, Brings
<1>6. Undelivered'
  BY <1>0, <1>5 DEF CookieFull, CookieInv, Undelivered, Brings
<1>7. OneBrowser'
  BY <1>0, <1>5 DEF CookieFull, CookieInv, OneBrowser
<1>8. AnswersHold'
  BY <1>0, <1>2, <1>3, <1>5 DEF CookieFull, CookieInv, AnswersHold, Brings
<1>9. CookiesHold'
  BY <1>0, <1>2, <1>3 DEF CookieFull, CookieInv, CookiesHold, Superseded
<1>. QED
  BY <1>4, <1>6, <1>7, <1>8, <1>9 DEF CookieInv

\* Every step; the assumption is used by Sign alone.
LEMMA CookieStep ==
    ASSUME ~SameSecond, CookieFull, [Next]_vars
    PROVE  CookieInv'
<1>1. ASSUME NEW q \in Requests, NEW c \in Clients, Refresh(q, c) \/ Logout(q, c)
      PROVE  CookieInv'
  <2>1. jar[c].sub \in Users
    BY <1>1 DEF Refresh, Logout, CookieFull, FreshInv, RowsInv, TypeInv, TypeOK, MaybeToken, Token
  <2>. QED
    BY <1>1, <2>1, SendCookie DEF Refresh, Logout
<1>2. ASSUME NEW q \in Requests, NEW c \in Clients, NEW u \in Users, Login(q, c, u)
      PROVE  CookieInv'
  BY <1>2, SendCookie DEF Login
<1>3. ASSUME NEW q \in Requests, RtGuard(q)  PROVE CookieInv'
  BY <1>3, MoveCookie, ThrowCookie DEF RtGuard
<1>4. ASSUME NEW q \in Requests, Find(q)  PROVE CookieInv'
  BY <1>4, MoveCookie DEF Find
<1>5. ASSUME NEW q \in Requests, Lose(q)  PROVE CookieInv'
  BY <1>5, ThrowCookie DEF Lose
<1>. QED
  BY <1>1, <1>2, <1>3, <1>4, <1>5, SignCookie, WriteCookie, ReceiveCookie, OtherCookie
     DEF Next, Serve

\* A browser that has got every answer, with none on the way, never holds an
\* unexpired refresh token without its session, however its logins, refreshes
\* and logouts overlap, provided that no user is signed two tokens in one
\* second.
THEOREM RtSessionsCookie ==
    ASSUME ~SameSecond
    PROVE  Spec => []CookieHasSession
<1>1. Init => CookieFull
  <2>1. Init => FreshInv
    BY TypeInvInit DEF Init, FreshInv, RowsInv, RowsConsistent, RetiredInv, RetiredStaysOut,
         Fresh, Stored, Idle
  <2>2. Init => CookieInv
    BY RtSessionsAssumption
       DEF Init, CookieInv, Known, Undelivered, OneBrowser, AnswersHold, CookiesHold,
           Brings, InFlight, Idle, Token
  <2>. QED
    BY <2>1, <2>2 DEF CookieFull
<1>2. CookieFull /\ [Next]_vars => CookieFull'
  BY TypeInvStep, RowsConsistentStep, RetiredStep, CookieStep DEF CookieFull, FreshInv, RowsInv
<1>3. CookieFull => CookieHasSession
  <2> SUFFICES ASSUME CookieFull, NEW c \in Clients, jar[c] # NoToken, ~ (now >= Exp(jar[c])),
                      c \notin lost,
                      \A q \in Requests : ~ (InFlight(q) /\ req[q].client = c)
               PROVE  jar[c] \in Stored
    BY DEF CookieHasSession
  <2>1. jar[c] \in Token /\ now < Exp(jar[c])
    BY RtSessionsAssumption DEF CookieFull, FreshInv, RowsInv, TypeInv, TypeOK, MaybeToken, Token, Exp
  <2>. QED
    BY <2>1 DEF CookieFull, CookieInv, CookiesHold, Superseded, InFlight
<1>. QED
  BY <1>1, <1>2, <1>3, PTL DEF Spec
=============================================================================
