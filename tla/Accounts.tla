------------------------------ MODULE Accounts ------------------------------
(***************************************************************************)
(* Signup composed with the session login of auth-session: login, logout   *)
(* and status over the sessions that express-session keeps in Redis.       *)
(*                                                                         *)
(* The middleware loads the session named by the cookie before a handler   *)
(* runs and ends it with the answer.  Each command of Redis is a step.     *)
(* Browsers are left out: a request may carry any session id that a login  *)
(* has ever answered, since cookies are late, kept or lost.  A request     *)
(* that is refused (403 without a session, 401 without a password) changes *)
(* nothing and is no action.                                               *)
(***************************************************************************)
EXTENDS Signup

CONSTANTS
    Sids,          \* session ids; random, so that none is ever drawn twice
    NoSid,         \* a request without a session
    NoSession,     \* the store has no such key
    Anonymous,     \* a session without passport.user
    MayFailTwice   \* may both commands of a logout fail?

ASSUME AccountsAssumption ==
    /\ NoSid \notin Sids
    /\ NoSession \notin Emails
    /\ Anonymous \notin Emails
    /\ MayFailTwice \in BOOLEAN

VARIABLES
    store,         \* RedisStore: passport.user of each session
    given,         \* the session ids that have been drawn
    ended          \* those that a login or an answered logout has ended (history)

sessionVars == <<store, given, ended>>
vars == <<signupVars, sessionVars>>

\* Where a session request can be.
SessionRequest ==
    [step : {"validate", "regenerate"}, email : Emails, sid : Sids \cup {NoSid}]
        \cup [step : {"save"}, email : Emails]
        \cup [step : {"status"}, email : Emails, sid : Sids]
        \cup [step : {"forget", "drop", "destroy"}, sid : Sids]

Init ==
    /\ SignupInit
    /\ store = [s \in Sids |-> NoSession]
    /\ given = {}
    /\ ended = {}

-----------------------------------------------------------------------------
\* Bound: a login only starts if there is an id left for its session.
IdsLeft ==
    LET logins == { r \in Requests : req[r].step \in {"validate", "regenerate", "save"} } IN
    Cardinality(given) + Cardinality(logins) < Cardinality(Sids)

\* POST auth/session/login from a browser with or without a session.
Login(r, e, s) ==
    /\ At(r, "idle")
    /\ IdsLeft
    /\ Goto(r, [step |-> "validate", email |-> e, sid |-> s])
    /\ UNCHANGED <<users, confirmed, tokenOf, mails, sent, store, given, ended>>

\* A mutant: the query forgets isEmailConfirmed: true.
FindAnyUser(e) == e \in users

\* findUserByEmail of auth-session looks for confirmed users only, as well.
FindUser(e) == e \in confirmed

\* The user is found and the password is right.
Validate(r) ==
    /\ At(r, "validate")
    /\ FindUser(req[r].email)
    /\ Goto(r, [req[r] EXCEPT !.step = "regenerate"])
    /\ UNCHANGED <<users, confirmed, tokenOf, mails, sent, store, given, ended>>

\* The user is not found or the password is wrong: 401.
Deny(r) ==
    /\ At(r, "validate")
    /\ Done(r)
    /\ UNCHANGED <<users, confirmed, tokenOf, mails, sent, store, given, ended>>

Deleted(s) == IF s = NoSid THEN store ELSE [store EXCEPT ![s] = NoSession]

\* logIn of passport: a new session takes the place of the old one, ...
Regenerate(r) ==
    /\ At(r, "regenerate")
    /\ store' = Deleted(req[r].sid)
    /\ ended' = ended \cup ({req[r].sid} \ {NoSid})
    /\ Goto(r, [step |-> "save", email |-> req[r].email])
    /\ UNCHANGED <<users, confirmed, tokenOf, mails, sent, given>>

\* ... serializeUser puts the user into it, and the answer carries its id.
Save(r) ==
    /\ At(r, "save")
    /\ \E s \in Sids \ given :
        /\ store' = [store EXCEPT ![s] = req[r].email]
        /\ given' = given \cup {s}
    /\ Done(r)
    /\ UNCHANGED <<users, confirmed, tokenOf, mails, sent, ended>>

-----------------------------------------------------------------------------
\* isAuthenticated on the session the middleware has loaded.
Authenticated(s) == store[s] \in Emails

\* GET auth/session/status.
Status(r, s) ==
    /\ At(r, "idle")
    /\ Authenticated(s)
    /\ Goto(r, [step |-> "status", email |-> store[s], sid |-> s])
    /\ UNCHANGED <<users, confirmed, tokenOf, mails, sent, store, given, ended>>

\* A mutant: resave: true.
Resaved(s, e) == [store EXCEPT ![s] = e]

\* With resave: false the end of an answer only renews the session's TTL
\* (EXPIRE), and a key that is gone stays gone.
Touched(s, e) == store

AnswerStatus(r) ==
    /\ At(r, "status")
    /\ store' = Touched(req[r].sid, req[r].email)
    /\ Done(r)
    /\ UNCHANGED <<users, confirmed, tokenOf, mails, sent, given, ended>>

\* POST auth/session/logout.
Logout(r, s) ==
    /\ At(r, "idle")
    /\ Authenticated(s)
    /\ Goto(r, [step |-> "forget", sid |-> s])
    /\ UNCHANGED <<users, confirmed, tokenOf, mails, sent, store, given, ended>>

\* logOut of passport saves the session without its user, ...
Forget(r) ==
    /\ At(r, "forget")
    /\ store' = [store EXCEPT ![req[r].sid] = Anonymous]
    /\ Goto(r, [req[r] EXCEPT !.step = "drop"])
    /\ UNCHANGED <<users, confirmed, tokenOf, mails, sent, given, ended>>

\* ... and if that fails, destroy is called on the old session all the same.
ForgetFails(r) ==
    /\ At(r, "forget")
    /\ Goto(r, [req[r] EXCEPT !.step = "destroy"])
    /\ UNCHANGED <<users, confirmed, tokenOf, mails, sent, store, given, ended>>

\* The key is deleted: 204.
Drop(r) ==
    /\ req[r].step \in {"drop", "destroy"}
    /\ store' = Deleted(req[r].sid)
    /\ ended' = ended \cup {req[r].sid}
    /\ Done(r)
    /\ UNCHANGED <<users, confirmed, tokenOf, mails, sent, given>>

\* The error of a delete is ignored: 204 with the key still there.
DropFails(r) ==
    /\ At(r, "drop") \/ (At(r, "destroy") /\ MayFailTwice)
    /\ ended' = ended \cup {req[r].sid}
    /\ Done(r)
    /\ UNCHANGED <<users, confirmed, tokenOf, mails, sent, store, given>>

\* The TTL of a session that nobody uses for two minutes.
SessionExpires(s) ==
    /\ store[s] # NoSession
    /\ store' = Deleted(s)
    /\ UNCHANGED <<signupVars, given, ended>>

-----------------------------------------------------------------------------
LoggingIn(r) ==
    \/ \E e \in Emails : \E s \in given \cup {NoSid} : Login(r, e, s)
    \/ Validate(r)
    \/ Deny(r)
    \/ Regenerate(r)
    \/ Save(r)

InSession(r) ==
    \/ \E s \in given : Status(r, s)
    \/ AnswerStatus(r)
    \/ \E s \in given : Logout(r, s)
    \/ Forget(r)
    \/ ForgetFails(r)
    \/ Drop(r)
    \/ DropFails(r)

Next ==
    \/ SignupNext /\ UNCHANGED sessionVars
    \/ \E r \in Requests : LoggingIn(r) \/ InSession(r)
    \/ \E s \in Sids : SessionExpires(s)

Spec == Init /\ [][Next]_vars

\* The server goes on with a confirmation it has begun.
Fairness ==
    \A r \in Requests :
        /\ WF_vars(Lookup(r) /\ UNCHANGED sessionVars)
        /\ WF_vars(Confirm(r) /\ UNCHANGED sessionVars)

FairSpec == Spec /\ Fairness

-----------------------------------------------------------------------------
(***************************************************************************)
(* Safety.                                                                 *)
(***************************************************************************)

TypeOK ==
    /\ UsersTypeOK
    /\ req \in [Requests -> SignupRequest \cup SessionRequest]
    /\ store \in [Sids -> Emails \cup {NoSession, Anonymous}]
    /\ given \subseteq Sids
    /\ ended \subseteq given

\* Every logged-in session is of a user who has confirmed the e-mail address.
LoginNeedsConfirmation ==
    \A s \in Sids : Authenticated(s) => store[s] \in confirmed

\* A session that a login has replaced or a logout has ended never
\* authenticates again, whichever requests had loaded it before and end after.
EndedStaysOut == \A s \in ended : ~ Authenticated(s)

(***************************************************************************)
(* Action properties.                                                      *)
(***************************************************************************)

\* No session passes from one user to another, or from anonymous to a user.
SessionKeepsUser ==
    [][\A s \in given : store'[s] \in Emails => store'[s] = store[s]]_vars

\* Who is logged in by each session id.
loggedIn == [s \in Sids |-> IF Authenticated(s) THEN store[s] ELSE NoSession]

\* From signup to the last logout: whoever is logged in has been confirmed by
\* somebody who sent the token of that user's row, no two pending users share a
\* token, and no session that has been left comes back.
Confirmed == INSTANCE ConfirmedSessions
             WITH Nobody <- NoSession, pending <- tokenOf, presented <- sent,
                  user <- loggedIn, used <- given, over <- ended

RefinesSessions == Confirmed!SessionsSpec
=============================================================================
