----------------------------- MODULE MCAccounts -----------------------------
(***************************************************************************)
(* Two addresses, two tokens, two overlapping requests and two sessions.   *)
(***************************************************************************)
EXTENDS Accounts, TLC

CONSTANTS a, b, t1, t2, r1, r2, s1, s2

MCEmails == {a, b}
MCTokens == {t1, t2}
MCRequests == {r1, r2}
MCSids == {s1, s2}
=============================================================================
