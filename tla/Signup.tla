------------------------------- MODULE Signup -------------------------------
(***************************************************************************)
(* Signing up and confirming an e-mail address (auth-jwt): the use cases   *)
(* signup-local and signup-local-confirm over the User table.              *)
(*                                                                         *)
(* A request runs between two awaits in one step; every query is one SQL   *)
(* statement.  A row is identified by its e-mail, which is unique and      *)
(* never changes; no code deletes a row.  Usernames only matter where they *)
(* collide, so that any row may have the username of a new user.           *)
(*                                                                         *)
(* The confirmation token is a random number between 1000 and 9999 under a *)
(* unique column, which a confirmation sets back to null; a later signup   *)
(* may draw it again.  The route of the link is a public GET: whoever      *)
(* sends a token confirms its user, whether the mail was theirs or not.    *)
(***************************************************************************)
EXTENDS Naturals, FiniteSets

CONSTANTS
    Emails,        \* e-mail addresses
    Tokens,        \* the confirmation tokens that can be drawn
    NoToken,       \* emailConfirmationToken: null
    Requests       \* slots for requests in flight

ASSUME SignupAssumption == NoToken \notin Tokens

VARIABLES
    users,         \* the e-mails with a row in User
    confirmed,     \* those with isEmailConfirmed
    tokenOf,       \* their emailConfirmationToken
    mails,         \* the tokens in the links mailed to each address
    req,           \* the request in each slot
    sent           \* the tokens that clients have sent to be confirmed (history)

signupVars == <<users, confirmed, tokenOf, mails, req, sent>>

\* Where a signup or a confirmation can be: before the query or mail it names.
SignupRequest ==
    [step : {"idle"}]
        \cup [step : {"find", "create"}, email : Emails]
        \cup [step : {"mail"}, email : Emails, token : Tokens]
        \cup [step : {"lookup"}, token : Tokens]
        \cup [step : {"confirm"}, email : Emails]

SignupInit ==
    /\ users = {}
    /\ confirmed = {}
    /\ tokenOf = [e \in Emails |-> NoToken]
    /\ mails = [e \in Emails |-> {}]
    /\ req = [r \in Requests |-> [step |-> "idle"]]
    /\ sent = {}

At(r, step) == req[r].step = step
Goto(r, request) == req' = [req EXCEPT ![r] = request]
Done(r) == Goto(r, [step |-> "idle"])

-----------------------------------------------------------------------------
\* findUserByEmail looks for confirmed users only.
FindUserByEmail(e) == e \in confirmed

\* POST local/signup.
Signup(r, e) ==
    /\ At(r, "idle")
    /\ Goto(r, [step |-> "find", email |-> e])
    /\ UNCHANGED <<users, confirmed, tokenOf, mails, sent>>

\* A confirmed user with the same e-mail: 400.
Find(r) ==
    /\ At(r, "find")
    /\ IF FindUserByEmail(req[r].email)
       THEN Done(r)
       ELSE Goto(r, [step |-> "create", email |-> req[r].email])
    /\ UNCHANGED <<users, confirmed, tokenOf, mails, sent>>

\* A mutant: emailConfirmationToken is not unique.
IsFreeEmail(e, t) == e \notin users

\* The unique columns of User let the row in.
IsFree(e, t) == e \notin users /\ \A f \in users : tokenOf[f] # t

\* createUser with any token: the row is there, the mail is not sent yet.
Create(r) ==
    /\ At(r, "create")
    /\ \E t \in Tokens :
        LET e == req[r].email IN
        /\ IsFree(e, t)
        /\ users' = users \cup {e}
        /\ tokenOf' = [tokenOf EXCEPT ![e] = t]
        /\ Goto(r, [step |-> "mail", email |-> e, token |-> t])
    /\ UNCHANGED <<confirmed, mails, sent>>

\* P2002, answered 409: some row has the e-mail, the username or the token.
CreateConflicts(r) ==
    /\ At(r, "create")
    /\ users # {}
    /\ Done(r)
    /\ UNCHANGED <<users, confirmed, tokenOf, mails, sent>>

\* sendSignupConfirmation, then 201.
SendMail(r) ==
    /\ At(r, "mail")
    /\ mails' = [mails EXCEPT ![req[r].email] = @ \cup {req[r].token}]
    /\ Done(r)
    /\ UNCHANGED <<users, confirmed, tokenOf, sent>>

\* The mail server refuses: 500, and the row stays.
MailFails(r) ==
    /\ At(r, "mail")
    /\ Done(r)
    /\ UNCHANGED <<users, confirmed, tokenOf, mails, sent>>

-----------------------------------------------------------------------------
\* GET local/confirm by any client: a link from a mail, maybe an old one, or a
\* token that was never mailed to anybody.
Click(r, t) ==
    /\ At(r, "idle")
    /\ sent' = sent \cup {t}
    /\ Goto(r, [step |-> "lookup", token |-> t])
    /\ UNCHANGED <<users, confirmed, tokenOf, mails>>

\* findUserByConfirmationToken: no row has the token: 404.
Lookup(r) ==
    /\ At(r, "lookup")
    /\ LET found == { e \in users : tokenOf[e] = req[r].token } IN
       IF found = {}
       THEN Done(r)
       ELSE \E e \in found : Goto(r, [step |-> "confirm", email |-> e])
    /\ UNCHANGED <<users, confirmed, tokenOf, mails, sent>>

\* A mutant: the token is not set back to null.
NoTokenLeft(e) == tokenOf

\* emailConfirmationToken: null.
WithoutToken(e) == [tokenOf EXCEPT ![e] = NoToken]

\* A mutant: the update clears the token and forgets isEmailConfirmed.
OnlyClears(e) == confirmed

\* isEmailConfirmed: true.
WithConfirmed(e) == confirmed \cup {e}

\* confirmUserRegistration updates the row that the lookup found.
Confirm(r) ==
    /\ At(r, "confirm")
    /\ confirmed' = WithConfirmed(req[r].email)
    /\ tokenOf' = WithoutToken(req[r].email)
    /\ Done(r)
    /\ UNCHANGED <<users, mails, sent>>

-----------------------------------------------------------------------------
SigningUp(r) ==
    \/ \E e \in Emails : Signup(r, e)
    \/ Find(r)
    \/ Create(r)
    \/ CreateConflicts(r)
    \/ SendMail(r)
    \/ MailFails(r)

Confirming(r) ==
    \/ \E t \in Tokens : Click(r, t)
    \/ Lookup(r)
    \/ Confirm(r)

SignupNext == \E r \in Requests : SigningUp(r) \/ Confirming(r)

-----------------------------------------------------------------------------
(***************************************************************************)
(* Safety.                                                                 *)
(***************************************************************************)

\* A row is pending with a token or confirmed without one.
UsersTypeOK ==
    /\ users \subseteq Emails
    /\ confirmed \subseteq users
    /\ tokenOf \in [Emails -> Tokens \cup {NoToken}]
    /\ \A e \in users : e \in confirmed <=> tokenOf[e] = NoToken
    /\ mails \in [Emails -> SUBSET Tokens]
    /\ sent \subseteq Tokens

\* The link in a mail works until its user is confirmed, and works for no other
\* user, although tokens are drawn blindly and again, two signups may draw the
\* same, and a confirmation may update a row long after it has looked it up.
MailedLinkWorks ==
    \A e \in Emails \ confirmed : \A t \in mails[e] :
        tokenOf[e] = t /\ \A f \in Emails \ {e} : tokenOf[f] # t

(***************************************************************************)
(* Liveness.                                                               *)
(***************************************************************************)

\* Following the link in a mail confirms the address it was mailed to, also when
\* it is followed twice at a time or its token has been in an earlier mail.
LinkConfirms ==
    \A e \in Emails :
        (\E r \in Requests : At(r, "lookup") /\ req[r].token \in mails[e]) ~> (e \in confirmed)
=============================================================================
