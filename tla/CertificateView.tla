--------------------------- MODULE CertificateView ---------------------------
(***************************************************************************)
(* What the cache in front of the certificates promises, with no key of    *)
(* Redis and no request in sight: each route shows a view of the table     *)
(* that may be stale and may be incomplete.  It is brought up to date with *)
(* the rows of that route, those that are live, all at one moment, and     *)
(* otherwise only forgets.                                                 *)
(***************************************************************************)
CONSTANTS
    Certs,
    Routes,        \* All, and each user for the own certificates
    All,
    Owner

VARIABLES
    cert,          \* "none" yet, "live" or "gone"
    view           \* the certificates each route shows, or soon may show

viewVars == <<cert, view>>

ViewInit ==
    /\ cert \in [Certs -> {"none", "live"}]
    /\ view = [b \in Routes |-> {}]

Rows(b) == {c \in Certs : cert[c] = "live" /\ b \in {All, Owner[c]}}

Create(c) ==
    /\ cert[c] = "none"
    /\ cert' = [cert EXCEPT ![c] = "live"]
    /\ UNCHANGED view

Remove(c) ==
    /\ cert[c] = "live"
    /\ cert' = [cert EXCEPT ![c] = "gone"]
    /\ UNCHANGED view

Load(b) ==
    /\ UNCHANGED cert
    /\ view' = [view EXCEPT ![b] = @ \cup Rows(b)]

Forget(b) ==
    /\ UNCHANGED cert
    /\ \E kept \in SUBSET view[b] : view' = [view EXCEPT ![b] = kept]

ViewNext ==
    \/ \E b \in Routes : Load(b) \/ Forget(b)
    \/ \E c \in Certs : Create(c) \/ Remove(c)

ViewSpec == ViewInit /\ [][ViewNext]_viewVars
=============================================================================
