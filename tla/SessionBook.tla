----------------------------- MODULE SessionBook -----------------------------
(***************************************************************************)
(* What the RTSession table promises, with no request in sight: a book of  *)
(* sessions, each with an owner and one refresh token at a time.  A token  *)
(* opens a session or prolongs one, once; a session is prolonged to a      *)
(* later date or not at all, and ends by itself after its date, or alone   *)
(* by its logout.                                                          *)
(***************************************************************************)
EXTENDS Naturals

CONSTANTS
    Start,         \* the second the book starts in
    Life           \* of a refresh token

VARIABLES
    clock,
    open,          \* the sessions
    spent          \* the tokens that have left it

bookVars == <<clock, open, spent>>

BookInit == clock = Start /\ open = {} /\ spent = {}

\* Session s holds a token that was never in the book, and has its date.
Entered(s) ==
    /\ s.rt \notin spent
    /\ \A o \in open : o.rt # s.rt
    /\ s.exp = s.rt.iat + Life

Open(s) ==
    /\ Entered(s)
    /\ \A o \in open : o.id # s.id
    /\ open' = open \cup {s}
    /\ UNCHANGED <<clock, spent>>

\* s goes on as t, its token is spent.
Prolong(s, t) ==
    /\ Entered(t)
    /\ t.id = s.id /\ t.userId = s.userId
    /\ s.exp <= t.exp
    /\ open' = (open \ {s}) \cup {t}
    /\ spent' = spent \cup {s.rt}
    /\ UNCHANGED clock

Close(s) ==
    /\ open' = open \ {s}
    /\ spent' = spent \cup {s.rt}
    /\ UNCHANGED clock

\* The sessions past their date go, all of them and no other.
Clear ==
    LET over == {s \in open : s.exp < clock}
    IN  /\ open' = open \ over
        /\ spent' = spent \cup {s.rt : s \in over}
        /\ UNCHANGED clock

Pass == clock' = clock + 1 /\ UNCHANGED <<open, spent>>

BookNext ==
    \/ Pass \/ Clear
    \/ \E s \in open' : Open(s)
    \/ \E s \in open : Close(s) \/ \E t \in open' : Prolong(s, t)

BookSpec == BookInit /\ [][BookNext]_bookVars
=============================================================================
