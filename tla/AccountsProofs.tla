--------------------------- MODULE AccountsProofs ---------------------------
(***************************************************************************)
(* Theorems about Accounts, for any e-mails, tokens, requests and session  *)
(* ids.  Each invariant is strengthened by what the requests in flight     *)
(* have already read.                                                      *)
(***************************************************************************)
EXTENDS Accounts, TLAPS

WithSid == {"validate", "regenerate", "status", "forget", "drop", "destroy"}

\* Requests carry ids that have been given out, and confirm users that exist.
TypeInv ==
    /\ TypeOK
    /\ \A r \in Requests : req[r].step \in WithSid => req[r].sid \in given \cup {NoSid}
    /\ \A r \in Requests : At(r, "confirm") => req[r].email \in users

\* What a request's record holds at each step.
LEMMA Shapes ==
    ASSUME req \in [Requests -> SignupRequest \cup SessionRequest], NEW r \in Requests
    PROVE  /\ req[r].step \in {"find", "create"} => req[r] \in [step : {"find", "create"}, email : Emails]
           /\ At(r, "mail") => req[r] \in [step : {"mail"}, email : Emails, token : Tokens]
           /\ At(r, "lookup") => req[r] \in [step : {"lookup"}, token : Tokens]
           /\ At(r, "confirm") => req[r] \in [step : {"confirm"}, email : Emails]
           /\ req[r].step \in {"validate", "regenerate"} =>
                  req[r] \in [step : {"validate", "regenerate"}, email : Emails, sid : Sids \cup {NoSid}]
           /\ At(r, "save") => req[r] \in [step : {"save"}, email : Emails]
           /\ At(r, "status") => req[r] \in [step : {"status"}, email : Emails, sid : Sids]
           /\ req[r].step \in {"forget", "drop", "destroy"} =>
                  req[r] \in [step : {"forget", "drop", "destroy"}, sid : Sids]
  BY DEF SignupRequest, SessionRequest, At

LEMMA TypeInit == ASSUME Init PROVE TypeInv
  BY DEF Init, SignupInit, TypeInv, TypeOK, UsersTypeOK, SignupRequest, At, WithSid

LEMMA TypeSigningUp ==
    ASSUME TypeInv, NEW r \in Requests, SigningUp(r), UNCHANGED sessionVars
    PROVE  TypeInv'
<1> USE SignupAssumption, AccountsAssumption DEF TypeInv, TypeOK, UsersTypeOK, At, Goto, Done, WithSid, sessionVars
<1>1. CASE \E e \in Emails : Signup(r, e)
  BY <1>1 DEF Signup, SignupRequest
<1>2. CASE Find(r)
  BY <1>2, Shapes DEF Find, SignupRequest
<1>3. CASE Create(r)
  <2>1. PICK t \in Tokens :
            /\ IsFree(req[r].email, t)
            /\ users' = users \cup {req[r].email}
            /\ tokenOf' = [tokenOf EXCEPT ![req[r].email] = t]
            /\ req' = [req EXCEPT ![r] = [step |-> "mail", email |-> req[r].email, token |-> t]]
    BY <1>3 DEF Create
  <2>2. req[r].email \in Emails \ users
    BY <1>3, <2>1, Shapes DEF Create, IsFree
  <2>3. UsersTypeOK'
    BY <1>3, <2>1, <2>2 DEF Create
  <2>4. req' \in [Requests -> SignupRequest \cup SessionRequest]
    BY <2>1, <2>2 DEF SignupRequest
  <2>. QED BY <1>3, <2>1, <2>2, <2>3, <2>4 DEF Create
<1>4. CASE CreateConflicts(r)
  BY <1>4 DEF CreateConflicts, SignupRequest
<1>5. CASE SendMail(r)
  BY <1>5, Shapes DEF SendMail, SignupRequest
<1>6. CASE MailFails(r)
  BY <1>6 DEF MailFails, SignupRequest
<1>. QED BY <1>1, <1>2, <1>3, <1>4, <1>5, <1>6 DEF SigningUp

LEMMA TypeConfirming ==
    ASSUME TypeInv, NEW r \in Requests, Confirming(r), UNCHANGED sessionVars
    PROVE  TypeInv'
<1> USE SignupAssumption, AccountsAssumption DEF TypeInv, TypeOK, UsersTypeOK, At, Goto, Done, WithSid, sessionVars
<1>1. CASE \E t \in Tokens : Click(r, t)
  BY <1>1 DEF Click, SignupRequest
<1>2. CASE Lookup(r)
  <2>1. CASE req' = [req EXCEPT ![r] = [step |-> "idle"]]
    BY <1>2, <2>1 DEF Lookup, SignupRequest
  <2>2. CASE \E e \in users : req' = [req EXCEPT ![r] = [step |-> "confirm", email |-> e]]
    BY <1>2, <2>2 DEF Lookup, SignupRequest
  <2>. QED BY <1>2, <2>1, <2>2 DEF Lookup
<1>3. CASE Confirm(r)
  <2>1. req[r].email \in users
    BY <1>3 DEF Confirm
  <2>2. UsersTypeOK'
    BY <1>3, <2>1 DEF Confirm, WithConfirmed, WithoutToken
  <2>. QED BY <1>3, <2>2 DEF Confirm, SignupRequest
<1>. QED BY <1>1, <1>2, <1>3 DEF Confirming

LEMMA TypeLoggingIn ==
    ASSUME TypeInv, NEW r \in Requests, LoggingIn(r)
    PROVE  TypeInv'
<1> USE AccountsAssumption DEF TypeInv, TypeOK, UsersTypeOK, At, Goto, Done, WithSid
<1>1. CASE \E e \in Emails : \E s \in given \cup {NoSid} : Login(r, e, s)
  BY <1>1 DEF Login, SessionRequest
<1>2. CASE Validate(r)
  BY <1>2, Shapes DEF Validate, SessionRequest
<1>3. CASE Deny(r)
  BY <1>3 DEF Deny, SignupRequest
<1>4. CASE Regenerate(r)
  BY <1>4, Shapes DEF Regenerate, Deleted, SessionRequest
<1>5. CASE Save(r)
  BY <1>5, Shapes DEF Save, SignupRequest
<1>. QED BY <1>1, <1>2, <1>3, <1>4, <1>5 DEF LoggingIn

LEMMA TypeInSession ==
    ASSUME TypeInv, NEW r \in Requests, InSession(r)
    PROVE  TypeInv'
<1> USE AccountsAssumption DEF TypeInv, TypeOK, UsersTypeOK, At, Goto, Done, WithSid
<1>1. CASE \E s \in given : Status(r, s)
  BY <1>1 DEF Status, Authenticated, SessionRequest
<1>2. CASE AnswerStatus(r)
  BY <1>2 DEF AnswerStatus, Touched, SignupRequest
<1>3. CASE \E s \in given : Logout(r, s)
  BY <1>3 DEF Logout, SessionRequest
<1>4. CASE Forget(r)
  BY <1>4, Shapes DEF Forget, SessionRequest
<1>5. CASE ForgetFails(r)
  BY <1>5, Shapes DEF ForgetFails, SessionRequest
<1>6. CASE Drop(r)
  BY <1>6, Shapes DEF Drop, Deleted, SignupRequest
<1>7. CASE DropFails(r)
  BY <1>7, Shapes DEF DropFails, SignupRequest
<1>. QED BY <1>1, <1>2, <1>3, <1>4, <1>5, <1>6, <1>7 DEF InSession

LEMMA TypeStep == ASSUME TypeInv, [Next]_vars PROVE TypeInv'
<1>1. CASE SignupNext /\ UNCHANGED sessionVars
  BY <1>1, TypeSigningUp, TypeConfirming DEF SignupNext
<1>2. CASE \E r \in Requests : LoggingIn(r) \/ InSession(r)
  BY <1>2, TypeLoggingIn, TypeInSession
<1>3. CASE \E s \in Sids : SessionExpires(s)
  BY <1>3, AccountsAssumption
  DEF SessionExpires, Deleted, TypeInv, TypeOK, UsersTypeOK, At, WithSid, signupVars
<1>4. CASE UNCHANGED vars
  BY <1>4 DEF vars, signupVars, sessionVars, TypeInv, TypeOK, UsersTypeOK, At, WithSid
<1>. QED BY <1>1, <1>2, <1>3, <1>4 DEF Next

\* Types of users, sessions and requests; a row is pending with a token or
\* confirmed without one.
THEOREM AccountsTyping == Spec => []TypeOK
<1>1. TypeInv => TypeOK
  BY DEF TypeInv
<1>. QED BY TypeInit, TypeStep, <1>1, PTL DEF Spec

-----------------------------------------------------------------------------
\* A token identifies its user, ...
OneEach ==
    /\ \A e \in Emails : tokenOf[e] # NoToken => e \in users
    /\ \A e, f \in Emails : tokenOf[e] = tokenOf[f] /\ tokenOf[e] # NoToken => e = f

\* ... a link, sent or on its way, shows the token of the row it was mailed for
\* until that is confirmed, ...
LinksMatch ==
    /\ \A e \in Emails : mails[e] # {} => e \in users
    /\ \A e \in Emails \ confirmed : \A t \in mails[e] : tokenOf[e] = t

MailsOnTheWay ==
    \A r \in Requests : At(r, "mail") =>
        /\ req[r].email \in users
        /\ req[r].email \notin confirmed => tokenOf[req[r].email] = req[r].token

\* ... and a confirmation under way has been sent its user's token.
TokensSent ==
    \A r \in Requests :
        /\ At(r, "lookup") => req[r].token \in sent
        /\ At(r, "confirm") => req[r].email \in confirmed \/ tokenOf[req[r].email] \in sent

LinkInv ==
    /\ TypeInv
    /\ OneEach
    /\ LinksMatch
    /\ MailsOnTheWay
    /\ TokensSent

LEMMA LinkInit == ASSUME Init PROVE LinkInv
  BY TypeInit
  DEF Init, SignupInit, LinkInv, OneEach, LinksMatch, MailsOnTheWay, TokensSent, At

\* Steps that leave the users and mails alone and give no request a new
\* mail, lookup or confirmation.
LEMMA LinkQuiet ==
    ASSUME LinkInv, TypeInv', UNCHANGED <<users, confirmed, tokenOf, mails, sent>>,
           \A q \in Requests : req'[q] = req[q] \/ req'[q].step \notin {"mail", "lookup", "confirm"}
    PROVE  LinkInv'
<1>1. OneEach' /\ LinksMatch'
  BY DEF LinkInv, OneEach, LinksMatch
<1>2. MailsOnTheWay'
  BY DEF LinkInv, MailsOnTheWay, At
<1>3. TokensSent'
  BY DEF LinkInv, TokensSent, At
<1>. QED BY <1>1, <1>2, <1>3 DEF LinkInv

LEMMA LinkCreate ==
    ASSUME LinkInv, TypeInv', NEW r \in Requests, Create(r)
    PROVE  LinkInv'
<1> USE SignupAssumption DEF At
<1>0. /\ req \in [Requests -> SignupRequest \cup SessionRequest]
      /\ tokenOf \in [Emails -> Tokens \cup {NoToken}]
      /\ mails \in [Emails -> SUBSET Tokens]
      /\ confirmed \subseteq users
  BY DEF LinkInv, TypeInv, TypeOK, UsersTypeOK
<1>1. PICK t \in Tokens :
          /\ IsFree(req[r].email, t)
          /\ users' = users \cup {req[r].email}
          /\ tokenOf' = [tokenOf EXCEPT ![req[r].email] = t]
          /\ req' = [req EXCEPT ![r] = [step |-> "mail", email |-> req[r].email, token |-> t]]
  BY DEF Create, Goto
<1>2. /\ req[r].email \in Emails \ users
      /\ UNCHANGED <<confirmed, mails, sent>>
  BY <1>0, <1>1, Shapes DEF Create, IsFree
<1>3. \A e \in Emails : tokenOf[e] # t
  BY <1>1 DEF LinkInv, OneEach, IsFree
<1>4. OneEach'
  BY <1>0, <1>1, <1>2, <1>3 DEF LinkInv, OneEach
<1>5. LinksMatch'
  BY <1>0, <1>1, <1>2 DEF LinkInv, LinksMatch
<1>6. MailsOnTheWay'
  <2>1. ASSUME NEW q \in Requests \ {r}, At(q, "mail")
        PROVE  tokenOf'[req[q].email] = tokenOf[req[q].email] /\ req'[q] = req[q]
    BY <1>0, <1>1, <1>2, <2>1 DEF LinkInv, MailsOnTheWay
  <2>2. \A q \in Requests \ {r} : req'[q] = req[q]
    BY <1>0, <1>1
  <2>3. /\ req'[r].email = req[r].email /\ req'[r].token = t
        /\ tokenOf'[req[r].email] = t
    BY <1>0, <1>1, <1>2
  <2>. QED
    BY <1>1, <1>2, <2>1, <2>2, <2>3 DEF LinkInv, MailsOnTheWay
<1>7. TokensSent'
  <2>1. ASSUME NEW q \in Requests, At(q, "confirm")
        PROVE  tokenOf'[req[q].email] = tokenOf[req[q].email]
    BY <1>0, <1>1, <1>2, <2>1 DEF LinkInv, TypeInv
  <2>2. /\ \A q \in Requests \ {r} : req'[q] = req[q]
        /\ req'[r].step = "mail"
    BY <1>0, <1>1
  <2>. QED
    BY <1>2, <2>1, <2>2 DEF LinkInv, TokensSent
<1>. QED BY <1>4, <1>5, <1>6, <1>7 DEF LinkInv

LEMMA LinkSendMail ==
    ASSUME LinkInv, TypeInv', NEW r \in Requests, SendMail(r)
    PROVE  LinkInv'
<1> USE SignupAssumption DEF At, SendMail, Goto, Done
<1>0. /\ req \in [Requests -> SignupRequest \cup SessionRequest]
      /\ mails \in [Emails -> SUBSET Tokens]
  BY DEF LinkInv, TypeInv, TypeOK, UsersTypeOK
<1>1. req[r].email \in Emails
  BY <1>0, Shapes
<1>2. OneEach'
  BY DEF LinkInv, OneEach
<1>3. LinksMatch'
  BY <1>0, <1>1 DEF LinkInv, LinksMatch, MailsOnTheWay
<1>4. MailsOnTheWay'
  BY <1>0 DEF LinkInv, MailsOnTheWay
<1>5. TokensSent'
  BY <1>0 DEF LinkInv, TokensSent
<1>. QED BY <1>2, <1>3, <1>4, <1>5 DEF LinkInv

LEMMA LinkClick ==
    ASSUME LinkInv, TypeInv', NEW r \in Requests, NEW t \in Tokens, Click(r, t)
    PROVE  LinkInv'
<1> USE DEF At, Click, Goto
<1>0. req \in [Requests -> SignupRequest \cup SessionRequest]
  BY DEF LinkInv, TypeInv, TypeOK
<1>1. OneEach' /\ LinksMatch'
  BY DEF LinkInv, OneEach, LinksMatch
<1>2. MailsOnTheWay'
  BY <1>0 DEF LinkInv, MailsOnTheWay
<1>3. TokensSent'
  BY <1>0 DEF LinkInv, TokensSent
<1>. QED BY <1>1, <1>2, <1>3 DEF LinkInv

LEMMA LinkLookup ==
    ASSUME LinkInv, TypeInv', NEW r \in Requests, Lookup(r)
    PROVE  LinkInv'
<1> USE DEF At, Lookup, Goto, Done
<1>0. req \in [Requests -> SignupRequest \cup SessionRequest]
  BY DEF LinkInv, TypeInv, TypeOK
<1>1. CASE req' = [req EXCEPT ![r] = [step |-> "idle"]]
  BY <1>0, <1>1, LinkQuiet
<1>2. CASE \E e \in users : tokenOf[e] = req[r].token
                          /\ req' = [req EXCEPT ![r] = [step |-> "confirm", email |-> e]]
  <2>1. PICK e \in users : tokenOf[e] = req[r].token
                          /\ req' = [req EXCEPT ![r] = [step |-> "confirm", email |-> e]]
    BY <1>2
  <2>2. tokenOf[e] \in sent
    BY <2>1 DEF LinkInv, TokensSent
  <2>3. OneEach' /\ LinksMatch'
    BY DEF LinkInv, OneEach, LinksMatch
  <2>4. MailsOnTheWay'
    BY <1>0, <2>1 DEF LinkInv, MailsOnTheWay
  <2>5. TokensSent'
    BY <1>0, <2>1, <2>2 DEF LinkInv, TokensSent
  <2>. QED BY <2>3, <2>4, <2>5 DEF LinkInv
<1>. QED BY <1>1, <1>2

LEMMA LinkConfirm ==
    ASSUME LinkInv, TypeInv', NEW r \in Requests, Confirm(r)
    PROVE  LinkInv'
<1> USE SignupAssumption DEF At, Confirm, WithConfirmed, WithoutToken, Goto, Done
<1>0. /\ req \in [Requests -> SignupRequest \cup SessionRequest]
      /\ tokenOf \in [Emails -> Tokens \cup {NoToken}]
      /\ users \subseteq Emails
  BY DEF LinkInv, TypeInv, TypeOK, UsersTypeOK
<1>1. req[r].email \in Emails
  BY <1>0, Shapes
<1>2. OneEach'
  BY <1>0, <1>1 DEF LinkInv, OneEach
<1>3. LinksMatch'
  BY <1>0, <1>1 DEF LinkInv, LinksMatch
<1>4. MailsOnTheWay'
  BY <1>0, <1>1 DEF LinkInv, MailsOnTheWay
<1>5. TokensSent'
  BY <1>0, <1>1 DEF LinkInv, TokensSent, TypeInv
<1>. QED BY <1>2, <1>3, <1>4, <1>5 DEF LinkInv

LEMMA LinkStep == ASSUME LinkInv, [Next]_vars PROVE LinkInv'
<1>1. TypeInv' /\ req \in [Requests -> SignupRequest \cup SessionRequest]
  BY TypeStep DEF LinkInv, TypeInv, TypeOK
<1>2. ASSUME NEW r \in Requests, SigningUp(r) PROVE LinkInv'
  <2>1. CASE Create(r)
    BY <1>1, <2>1, LinkCreate
  <2>2. CASE SendMail(r)
    BY <1>1, <2>2, LinkSendMail
  <2>3. CASE (\E e \in Emails : Signup(r, e)) \/ Find(r) \/ CreateConflicts(r) \/ MailFails(r)
    BY <1>1, <2>3, LinkQuiet DEF Signup, Find, CreateConflicts, MailFails, Goto, Done
  <2>. QED BY <1>2, <2>1, <2>2, <2>3 DEF SigningUp
<1>3. ASSUME NEW r \in Requests, Confirming(r) PROVE LinkInv'
  BY <1>1, <1>3, LinkClick, LinkLookup, LinkConfirm DEF Confirming
<1>4. ASSUME NEW r \in Requests, LoggingIn(r) PROVE LinkInv'
  <2>1. CASE Validate(r)
    <3>1. req'[r].step = "regenerate" /\ \A q \in Requests \ {r} : req'[q] = req[q]
      BY <1>1, <2>1, Shapes DEF Validate, Goto, At
    <3>. QED BY <1>1, <2>1, <3>1, LinkQuiet DEF Validate
  <2>2. CASE (\E e \in Emails : \E s \in given \cup {NoSid} : Login(r, e, s)) \/ Deny(r)
    BY <1>1, <2>2, LinkQuiet DEF Login, Deny, Goto, Done
  <2>3. CASE Regenerate(r) \/ Save(r)
    BY <1>1, <2>3, LinkQuiet DEF Regenerate, Save, Goto, Done
  <2>. QED BY <1>4, <2>1, <2>2, <2>3 DEF LoggingIn
<1>5. ASSUME NEW r \in Requests, InSession(r) PROVE LinkInv'
  <2>1. CASE Forget(r) \/ ForgetFails(r)
    <3>1. req'[r].step \in {"drop", "destroy"} /\ \A q \in Requests \ {r} : req'[q] = req[q]
      BY <1>1, <2>1, Shapes DEF Forget, ForgetFails, Goto, At
    <3>. QED BY <1>1, <2>1, <3>1, LinkQuiet DEF Forget, ForgetFails
  <2>2. CASE (\E s \in given : Status(r, s)) \/ (\E s \in given : Logout(r, s))
    BY <1>1, <2>2, LinkQuiet DEF Status, Logout, Goto
  <2>3. CASE AnswerStatus(r) \/ Drop(r) \/ DropFails(r)
    BY <1>1, <2>3, LinkQuiet DEF AnswerStatus, Drop, DropFails, Goto, Done
  <2>. QED BY <1>5, <2>1, <2>2, <2>3 DEF InSession
<1>6. CASE (\E s \in Sids : SessionExpires(s)) \/ UNCHANGED vars
  BY <1>1, <1>6, LinkQuiet DEF SessionExpires, vars, signupVars
<1>. QED BY <1>2, <1>3, <1>4, <1>5, <1>6 DEF Next, SignupNext

\* The link in a mail works until its user is confirmed, and for no other user.
THEOREM AccountsMailedLinkWorks == Spec => []MailedLinkWorks
<1>1. LinkInv => MailedLinkWorks
  BY SignupAssumption
  DEF LinkInv, TypeInv, TypeOK, UsersTypeOK, OneEach, LinksMatch, MailedLinkWorks
<1>. QED BY LinkInit, LinkStep, <1>1, PTL DEF Spec

-----------------------------------------------------------------------------
\* A login that has found its user goes on for a confirmed user.
LoginInv ==
    /\ TypeInv
    /\ \A r \in Requests : req[r].step \in {"regenerate", "save"} => req[r].email \in confirmed
    /\ LoginNeedsConfirmation

LEMMA LoginStep == ASSUME LoginInv, [Next]_vars PROVE LoginInv'
<1>0. /\ TypeInv'
      /\ req \in [Requests -> SignupRequest \cup SessionRequest]
      /\ store \in [Sids -> Emails \cup {NoSession, Anonymous}]
  BY TypeStep DEF LoginInv, TypeInv, TypeOK
<1> USE AccountsAssumption DEF LoginInv, LoginNeedsConfirmation, Authenticated, At, Goto, Done
<1>1. ASSUME NEW r \in Requests, SigningUp(r) \/ Confirming(r), UNCHANGED sessionVars PROVE LoginInv'
  BY <1>0, <1>1
  DEF SigningUp, Signup, Find, Create, CreateConflicts, SendMail, MailFails, Confirming, Click,
      Lookup, Confirm, WithConfirmed, sessionVars
<1>2. ASSUME NEW r \in Requests, LoggingIn(r) PROVE LoginInv'
  <2>1. CASE Validate(r)
    BY <1>0, <2>1, Shapes DEF Validate, FindUser
  <2>2. CASE Regenerate(r)
    BY <1>0, <2>2 DEF Regenerate, Deleted
  <2>3. CASE Save(r)
    BY <1>0, <2>3 DEF Save
  <2>4. CASE (\E e \in Emails : \E s \in given \cup {NoSid} : Login(r, e, s)) \/ Deny(r)
    BY <1>0, <2>4 DEF Login, Deny
  <2>. QED BY <1>2, <2>1, <2>2, <2>3, <2>4 DEF LoggingIn
<1>3. ASSUME NEW r \in Requests, InSession(r) PROVE LoginInv'
  <2>1. CASE Forget(r)
    BY <1>0, <2>1, Shapes DEF Forget
  <2>2. CASE Drop(r)
    BY <1>0, <2>2 DEF Drop, Deleted
  <2>3. CASE ForgetFails(r)
    BY <1>0, <2>3, Shapes DEF ForgetFails
  <2>4. CASE (\E s \in given : Status(r, s) \/ Logout(r, s)) \/ AnswerStatus(r) \/ DropFails(r)
    BY <1>0, <2>4 DEF Status, Logout, AnswerStatus, Touched, DropFails
  <2>. QED BY <1>3, <2>1, <2>2, <2>3, <2>4 DEF InSession
<1>4. CASE (\E s \in Sids : SessionExpires(s)) \/ UNCHANGED vars
  BY <1>0, <1>4 DEF SessionExpires, Deleted, vars, signupVars, sessionVars
<1>. QED BY <1>1, <1>2, <1>3, <1>4 DEF Next, SignupNext

\* Every logged-in session is of a user who has confirmed the e-mail address.
THEOREM AccountsLogin == Spec => []LoginNeedsConfirmation
<1>1. Init => LoginInv
  BY TypeInit, AccountsAssumption
  DEF Init, SignupInit, LoginInv, LoginNeedsConfirmation, Authenticated
<1>2. LoginInv => LoginNeedsConfirmation
  BY DEF LoginInv
<1>. QED BY <1>1, <1>2, LoginStep, PTL DEF Spec

-----------------------------------------------------------------------------
\* A logout that has saved its session without the user deletes no user's.
EndedInv ==
    /\ TypeInv
    /\ \A r \in Requests : At(r, "drop") => ~ Authenticated(req[r].sid)
    /\ EndedStaysOut

LEMMA EndedStep == ASSUME ~ MayFailTwice, EndedInv, [Next]_vars PROVE EndedInv'
<1>0. /\ TypeInv'
      /\ req \in [Requests -> SignupRequest \cup SessionRequest]
      /\ store \in [Sids -> Emails \cup {NoSession, Anonymous}]
      /\ given \subseteq Sids /\ ended \subseteq given
      /\ \A r \in Requests : At(r, "drop") => req[r].sid \in given
  <2>1. \A r \in Requests : At(r, "drop") => req[r].sid \in Sids
    BY Shapes, AccountsAssumption DEF At, EndedInv, TypeInv, TypeOK
  <2>. QED BY <2>1, TypeStep, AccountsAssumption DEF EndedInv, TypeInv, TypeOK, WithSid, At
<1> USE AccountsAssumption DEF EndedInv, EndedStaysOut, Authenticated, At, Goto, Done
<1>1. ASSUME NEW r \in Requests, SigningUp(r) \/ Confirming(r), UNCHANGED sessionVars PROVE EndedInv'
  BY <1>0, <1>1
  DEF SigningUp, Signup, Find, Create, CreateConflicts, SendMail, MailFails, Confirming, Click,
      Lookup, Confirm, sessionVars
<1>2. ASSUME NEW r \in Requests, LoggingIn(r) PROVE EndedInv'
  <2>1. CASE Regenerate(r)
    BY <1>0, <2>1, Shapes DEF Regenerate, Deleted
  <2>2. CASE Save(r)
    BY <1>0, <2>2 DEF Save
  <2>3. CASE (\E e \in Emails : \E s \in given \cup {NoSid} : Login(r, e, s)) \/ Deny(r)
    BY <1>0, <2>3 DEF Login, Deny
  <2>4. CASE Validate(r)
    BY <1>0, <2>4, Shapes DEF Validate
  <2>. QED BY <1>2, <2>1, <2>2, <2>3, <2>4 DEF LoggingIn
<1>3. ASSUME NEW r \in Requests, InSession(r) PROVE EndedInv'
  <2>1. CASE Forget(r)
    BY <1>0, <2>1, Shapes DEF Forget
  <2>2. CASE Drop(r)
    BY <1>0, <2>2, Shapes DEF Drop, Deleted
  <2>3. CASE ForgetFails(r)
    BY <1>0, <2>3, Shapes DEF ForgetFails
  <2>4. CASE DropFails(r)
    BY <1>0, <2>4 DEF DropFails
  <2>5. CASE (\E s \in given : Status(r, s) \/ Logout(r, s)) \/ AnswerStatus(r)
    BY <1>0, <2>5 DEF Status, Logout, AnswerStatus, Touched
  <2>. QED BY <1>3, <2>1, <2>2, <2>3, <2>4, <2>5 DEF InSession
<1>4. CASE (\E s \in Sids : SessionExpires(s)) \/ UNCHANGED vars
  BY <1>0, <1>4 DEF SessionExpires, Deleted, vars, signupVars, sessionVars
<1>. QED BY <1>1, <1>2, <1>3, <1>4 DEF Next, SignupNext

\* No session authenticates again after a login has replaced it or a logout has
\* ended it, if one of the two commands of each logout succeeds.
THEOREM AccountsEnded == ASSUME ~ MayFailTwice PROVE Spec => []EndedStaysOut
<1>1. Init => EndedInv
  BY TypeInit DEF Init, SignupInit, EndedInv, EndedStaysOut, At
<1>2. EndedInv => EndedStaysOut
  BY DEF EndedInv
<1>3. EndedInv /\ [Next]_vars => EndedInv'
  BY EndedStep
<1>. QED BY <1>1, <1>2, <1>3, PTL DEF Spec

-----------------------------------------------------------------------------
\* No session passes from one user to another.
THEOREM AccountsSessionKeepsUser == Spec => SessionKeepsUser
<1> DEFINE Keeps == \A s \in given : store'[s] \in Emails => store'[s] = store[s]
<1>1. ASSUME TypeInv, [Next]_vars PROVE [Keeps]_vars
  <2>0. /\ store \in [Sids -> Emails \cup {NoSession, Anonymous}]
        /\ given \subseteq Sids
    BY <1>1 DEF TypeInv, TypeOK
  <2>1. CASE SignupNext /\ UNCHANGED sessionVars
    BY <2>1 DEF sessionVars
  <2>2. ASSUME NEW r \in Requests, LoggingIn(r) \/ InSession(r) PROVE Keeps
    BY <2>0, <2>2, AccountsAssumption
    DEF LoggingIn, Login, Validate, Deny, Regenerate, Save, Deleted, InSession, Status,
        AnswerStatus, Touched, Logout, Forget, ForgetFails, Drop, DropFails
  <2>3. CASE \E s \in Sids : SessionExpires(s)
    BY <2>0, <2>3, AccountsAssumption DEF SessionExpires, Deleted
  <2>. QED BY <1>1, <2>1, <2>2, <2>3 DEF Next
<1>. QED BY <1>1, TypeInit, TypeStep, PTL DEF Spec, SessionKeepsUser

-----------------------------------------------------------------------------
\* The store only has keys of sessions whose ids have been drawn.
KeptGiven == \A s \in Sids : store[s] # NoSession => s \in given

LEMMA KeptStep == ASSUME TypeInv, KeptGiven, [Next]_vars PROVE KeptGiven'
<1>0. /\ req \in [Requests -> SignupRequest \cup SessionRequest]
      /\ store \in [Sids -> Emails \cup {NoSession, Anonymous}]
  BY DEF TypeInv, TypeOK
<1>1. ASSUME NEW r \in Requests, LoggingIn(r) PROVE KeptGiven'
  BY <1>0, <1>1 DEF KeptGiven, LoggingIn, Login, Validate, Deny, Regenerate, Save, Deleted
<1>2. ASSUME NEW r \in Requests, InSession(r) PROVE KeptGiven'
  <2>1. CASE Forget(r)
    <3>1. req[r].sid \in given \cup {NoSid}
      BY <2>1 DEF Forget, At, TypeInv, WithSid
    <3>. QED
      BY <1>0, <2>1, <3>1, AccountsAssumption DEF Forget, KeptGiven
  <2>2. CASE Drop(r)
    BY <1>0, <2>2 DEF Drop, Deleted, KeptGiven
  <2>. QED
    BY <1>2, <2>1, <2>2
    DEF KeptGiven, InSession, Status, AnswerStatus, Touched, Logout, ForgetFails, DropFails
<1>3. CASE \E s \in Sids : SessionExpires(s)
  BY <1>0, <1>3 DEF SessionExpires, Deleted, KeptGiven
<1>. QED
  BY <1>1, <1>2, <1>3 DEF KeptGiven, Next, vars, sessionVars

USE DEF Confirmed!sessionVars, Confirmed!accountVars, Confirmed!loginVars

PromiseInv == LinkInv /\ LoginInv /\ EndedInv /\ KeptGiven

LEMMA LoggedInIs ==
  /\ loggedIn = [s \in Sids |-> IF store[s] \in Emails THEN store[s] ELSE NoSession]
  /\ loggedIn' = [s \in Sids |-> IF store'[s] \in Emails THEN store'[s] ELSE NoSession]
BY DEF loggedIn, Authenticated

\* A step that takes the user out of a session, and may end it.
LEMMA LeaveStep ==
    ASSUME PromiseInv, NEW s \in given, store' = [store EXCEPT ![s] = store'[s]],
           store'[s] \notin Emails, ended' \in {ended, ended \cup {s}},
           UNCHANGED <<tokenOf, confirmed, sent, given>>
    PROVE  Confirmed!Leave(s)
<1>1. s \in Sids /\ store \in [Sids -> Emails \cup {NoSession, Anonymous}]
  BY DEF PromiseInv, LinkInv, TypeInv, TypeOK
<1>2. loggedIn' = [loggedIn EXCEPT ![s] = NoSession]
  BY <1>1, LoggedInIs
<1>. QED
  BY <1>2 DEF Confirmed!Leave

\* Of the steps of signup, the row's creation registers, a click presents a
\* token, and the first confirmation of a row confirms.
LEMMA SignupPromise ==
    ASSUME PromiseInv, NEW r \in Requests, SigningUp(r) \/ Confirming(r), UNCHANGED sessionVars
    PROVE  [Confirmed!SessionsNext]_(Confirmed!sessionVars)
<1>0. /\ req \in [Requests -> SignupRequest \cup SessionRequest]
      /\ tokenOf \in [Emails -> Tokens \cup {NoToken}]
      /\ users \subseteq Emails /\ confirmed \subseteq users
      /\ \A e \in users : e \in confirmed <=> tokenOf[e] = NoToken
  BY DEF PromiseInv, LinkInv, TypeInv, TypeOK, UsersTypeOK
<1>1. UNCHANGED <<loggedIn, given, ended>>
  BY LoggedInIs DEF sessionVars
<1>2. ASSUME NEW t \in Tokens, Click(r, t)
      PROVE  Confirmed!Present(t)
  BY <1>1, <1>2 DEF Click, Confirmed!Present
<1>3. CASE Create(r)
  <2> DEFINE e == req[r].email
  <2>1. PICK t \in Tokens : IsFree(e, t) /\ tokenOf' = [tokenOf EXCEPT ![e] = t]
    BY <1>3 DEF Create
  <2>2. e \in Emails \ users
    BY <1>0, <1>3, <2>1, Shapes DEF Create, At, IsFree
  <2>3. tokenOf[e] = NoToken /\ \A f \in Emails : tokenOf[f] # t
    BY <2>1, <2>2, SignupAssumption DEF IsFree, PromiseInv, LinkInv, OneEach
  <2>4. Confirmed!Register(e, t)
    BY <1>0, <1>1, <1>3, <2>1, <2>2, <2>3 DEF Create, Confirmed!Register
  <2>. QED
    BY <2>2, <2>4 DEF Confirmed!SessionsNext
<1>4. CASE Confirm(r)
  <2> DEFINE e == req[r].email
  <2>1. e \in Emails /\ e \in users
    BY <1>0, <1>4, Shapes DEF Confirm, At, PromiseInv, LinkInv, TypeInv
  <2>2. CASE e \in confirmed
    <3>1. confirmed' = confirmed /\ tokenOf' = tokenOf
      BY <1>0, <1>4, <2>1, <2>2 DEF Confirm, WithConfirmed, WithoutToken
    <3>. QED
      BY <1>1, <1>4, <3>1 DEF Confirm
  <2>3. CASE e \notin confirmed
    <3>1. tokenOf[e] \in sent
      BY <1>4, <2>3 DEF Confirm, At, PromiseInv, LinkInv, TokensSent
    <3>2. Confirmed!Confirm(e)
      BY <1>1, <1>4, <3>1 DEF Confirm, WithConfirmed, WithoutToken, Confirmed!Confirm
    <3>. QED
      BY <2>1, <3>2 DEF Confirmed!SessionsNext
  <2>. QED
    BY <2>2, <2>3
<1>5. CASE UNCHANGED <<tokenOf, sent, confirmed>>
  BY <1>1, <1>5
<1>. QED
  BY <1>2, <1>3, <1>4, <1>5
  DEF SigningUp, Signup, Find, CreateConflicts, SendMail, MailFails, Confirming, Lookup,
      Confirmed!SessionsNext

\* A login leaves the session it comes with and logs in by a new one.
LEMMA LoginPromise ==
    ASSUME PromiseInv, NEW r \in Requests, LoggingIn(r)
    PROVE  [Confirmed!SessionsNext]_(Confirmed!sessionVars)
<1>0. /\ req \in [Requests -> SignupRequest \cup SessionRequest]
      /\ store \in [Sids -> Emails \cup {NoSession, Anonymous}]
      /\ given \subseteq Sids
  BY DEF PromiseInv, LinkInv, TypeInv, TypeOK
<1>1. CASE Regenerate(r)
  <2>1. UNCHANGED <<tokenOf, sent, confirmed, given>>
    BY <1>1 DEF Regenerate
  <2>2. CASE req[r].sid = NoSid
    BY <1>1, <2>1, <2>2, LoggedInIs DEF Regenerate, Deleted
  <2>3. CASE req[r].sid # NoSid
    <3>1. req[r].sid \in given
      BY <1>1, <2>3 DEF Regenerate, At, WithSid, PromiseInv, LinkInv, TypeInv
    <3>2. /\ store' = [store EXCEPT ![req[r].sid] = NoSession]
          /\ ended' = ended \cup {req[r].sid}
      BY <1>1, <2>3 DEF Regenerate, Deleted
    <3>3. store'[req[r].sid] = NoSession
      BY <1>0, <3>1, <3>2
    <3>4. Confirmed!Leave(req[r].sid)
      BY <2>1, <3>1, <3>2, <3>3, LeaveStep, AccountsAssumption
    <3>. QED
      BY <1>0, <3>1, <3>4 DEF Confirmed!SessionsNext
  <2>. QED
    BY <2>2, <2>3
<1>2. CASE Save(r)
  <2>1. PICK s \in Sids \ given : /\ store' = [store EXCEPT ![s] = req[r].email]
                                  /\ given' = given \cup {s}
    BY <1>2 DEF Save
  <2>2. req[r].email \in Emails /\ req[r].email \in confirmed
    BY <1>0, <1>2, Shapes DEF Save, At, PromiseInv, LoginInv
  <2>3. loggedIn' = [loggedIn EXCEPT ![s] = req[r].email]
    BY <1>0, <2>1, <2>2, LoggedInIs
  <2>4. Confirmed!LogIn(s, req[r].email)
    BY <1>2, <2>1, <2>2, <2>3 DEF Save, Confirmed!LogIn
  <2>. QED
    BY <2>2, <2>4 DEF Confirmed!SessionsNext
<1>3. CASE UNCHANGED <<tokenOf, sent, confirmed, store, given, ended>>
  BY <1>3, LoggedInIs
<1>. QED
  BY <1>1, <1>2, <1>3 DEF LoggingIn, Login, Validate, Deny

\* A logout leaves its session, at the latest when it is answered.
LEMMA InSessionPromise ==
    ASSUME ~ MayFailTwice, PromiseInv, NEW r \in Requests, InSession(r)
    PROVE  [Confirmed!SessionsNext]_(Confirmed!sessionVars)
<1>0. /\ store \in [Sids -> Emails \cup {NoSession, Anonymous}]
      /\ given \subseteq Sids
      /\ req \in [Requests -> SignupRequest \cup SessionRequest]
  BY DEF PromiseInv, LinkInv, TypeInv, TypeOK
<1> DEFINE s == req[r].sid
<1>1. CASE Forget(r) \/ Drop(r) \/ DropFails(r)
  <2>1. s \in given
    <3>1. req[r].step \in {"forget", "drop", "destroy"}
      BY <1>1 DEF Forget, Drop, DropFails, At
    <3>2. s \in Sids
      BY <1>0, <3>1, Shapes DEF At
    <3>. QED
      BY <3>1, <3>2, AccountsAssumption DEF WithSid, PromiseInv, LinkInv, TypeInv
  <2>2. UNCHANGED <<tokenOf, sent, confirmed, given>> /\ ended' \in {ended, ended \cup {s}}
    BY <1>1 DEF Forget, Drop, DropFails
  <2>3. store' = [store EXCEPT ![s] = store'[s]] /\ store'[s] \notin Emails
    <3>1. CASE Forget(r)
      BY <1>0, <2>1, <3>1, AccountsAssumption DEF Forget
    <3>2. CASE Drop(r)
      <4>1. s # NoSid
        BY <1>0, <2>1, AccountsAssumption
      <4>2. store' = [store EXCEPT ![s] = NoSession]
        BY <3>2, <4>1 DEF Drop, Deleted
      <4>. QED
        BY <1>0, <2>1, <4>2, AccountsAssumption
    <3>3. CASE DropFails(r)
      <4>1. At(r, "drop") /\ store' = store
        BY <3>3 DEF DropFails
      <4>. QED
        BY <1>0, <4>1 DEF PromiseInv, EndedInv, Authenticated
    <3>. QED
      BY <1>1, <3>1, <3>2, <3>3
  <2>4. Confirmed!Leave(s)
    <3> HIDE DEF s
    <3>. QED
      BY <2>1, <2>2, <2>3, LeaveStep
  <2>. QED
    BY <1>0, <2>1, <2>4 DEF Confirmed!SessionsNext
<1>2. CASE UNCHANGED <<tokenOf, sent, confirmed, store, given, ended>>
  BY <1>2, LoggedInIs
<1>. QED
  BY <1>1, <1>2 DEF InSession, Status, AnswerStatus, Touched, Logout, ForgetFails

\* Signup, confirmation and the session login together keep their promise,
\* whoever sends which token, provided that Redis does not fail both commands of
\* a logout.
THEOREM AccountsRefineSessions ==
    ASSUME ~ MayFailTwice
    PROVE  Spec => RefinesSessions
<1>1. Init => PromiseInv
  BY LinkInit, AccountsAssumption
  DEF PromiseInv, Init, SignupInit, LinkInv, LoginInv, LoginNeedsConfirmation, Authenticated,
      EndedInv, EndedStaysOut, KeptGiven, At
<1>2. PromiseInv /\ [Next]_vars => PromiseInv'
  BY LinkStep, LoginStep, EndedStep, KeptStep DEF PromiseInv, LinkInv
<1>3. Init => Confirmed!SessionsInit
  <2> SUFFICES ASSUME Init  PROVE Confirmed!SessionsInit
    OBVIOUS
  <2>1. loggedIn = [s \in Sids |-> NoSession]
    BY LoggedInIs, AccountsAssumption DEF Init
  <2>. QED
    BY <2>1 DEF Init, SignupInit, Confirmed!SessionsInit
<1>4. PromiseInv /\ [Next]_vars =>
        [Confirmed!SessionsNext]_(Confirmed!sessionVars)
  <2> SUFFICES ASSUME PromiseInv, [Next]_vars
               PROVE  [Confirmed!SessionsNext]_(Confirmed!sessionVars)
    OBVIOUS
  <2>1. ASSUME NEW s \in Sids, SessionExpires(s)
        PROVE  Confirmed!Leave(s) \/ UNCHANGED Confirmed!sessionVars
    <3>1. /\ store' = [store EXCEPT ![s] = NoSession]
          /\ UNCHANGED <<tokenOf, sent, confirmed, given, ended>>
      BY <2>1, AccountsAssumption DEF SessionExpires, Deleted, signupVars
    <3>2. s \in given
      BY <2>1 DEF SessionExpires, PromiseInv, KeptGiven
    <3>3. store \in [Sids -> Emails \cup {NoSession, Anonymous}]
      BY DEF PromiseInv, LinkInv, TypeInv, TypeOK
    <3>4. store' = [store EXCEPT ![s] = store'[s]] /\ store'[s] \notin Emails
      BY <3>1, <3>3, AccountsAssumption
    <3>. QED
      BY <3>1, <3>2, <3>4, LeaveStep
  <2>2. CASE UNCHANGED vars
    BY <2>2, LoggedInIs DEF vars, signupVars, sessionVars
  <2>. QED
    BY <2>1, <2>2, SignupPromise, LoginPromise, InSessionPromise
    DEF Next, SignupNext, Confirmed!SessionsNext
<1>. QED
  BY <1>1, <1>2, <1>3, <1>4, PTL
  DEF Spec, RefinesSessions, Confirmed!SessionsSpec
=============================================================================
