-------------------------- MODULE ConfirmedSessions --------------------------
(***************************************************************************)
(* What signup, confirmation and the session login promise together, with  *)
(* no mail, cookie or request in sight: a token stands for one pending     *)
(* user, who is confirmed when somebody has presented it; a session is of  *)
(* one confirmed user, and its id serves once.  Nothing is promised about  *)
(* who presents a token.                                                   *)
(***************************************************************************)
CONSTANTS
    Emails,
    Tokens,
    NoToken,       \* not pending
    Sids,
    Nobody         \* not logged in

VARIABLES
    pending,       \* the token of each pending user
    presented,     \* the tokens that somebody has presented
    confirmed,     \* the addresses that are confirmed
    user,          \* who is logged in by a session id
    used,          \* the ids that have been logged in by
    over           \* those logged out, or replaced by a login

accountVars == <<pending, presented, confirmed>>
loginVars == <<user, used, over>>
sessionVars == <<accountVars, loginVars>>

SessionsInit ==
    /\ pending = [e \in Emails |-> NoToken]
    /\ presented = {} /\ confirmed = {}
    /\ user = [s \in Sids |-> Nobody]
    /\ used = {} /\ over = {}

\* A token that no pending user has; whoever is confirmed stays so.
Register(e, t) ==
    /\ e \notin confirmed
    /\ pending[e] = NoToken
    /\ \A f \in Emails : pending[f] # t
    /\ pending' = [pending EXCEPT ![e] = t]
    /\ UNCHANGED <<presented, confirmed, loginVars>>

Present(t) ==
    /\ presented' = presented \cup {t}
    /\ UNCHANGED <<pending, confirmed, loginVars>>

Confirm(e) ==
    /\ pending[e] \in presented
    /\ confirmed' = confirmed \cup {e}
    /\ pending' = [pending EXCEPT ![e] = NoToken]
    /\ UNCHANGED <<presented, loginVars>>

LogIn(s, e) ==
    /\ e \in confirmed
    /\ s \notin used
    /\ used' = used \cup {s}
    /\ user' = [user EXCEPT ![s] = e]
    /\ UNCHANGED <<accountVars, over>>

\* The user of the session has left, with or without an answer that says so.
Leave(s) ==
    /\ s \in used
    /\ user' = [user EXCEPT ![s] = Nobody]
    /\ over' \in {over, over \cup {s}}
    /\ UNCHANGED <<accountVars, used>>

SessionsNext ==
    \/ \E e \in Emails : Confirm(e) \/ \E t \in Tokens : Register(e, t)
    \/ \E t \in Tokens : Present(t)
    \/ \E s \in Sids : Leave(s) \/ \E e \in Emails : LogIn(s, e)

SessionsSpec == SessionsInit /\ [][SessionsNext]_sessionVars
=============================================================================
