---------------------------- MODULE MCRtSessions ----------------------------
(***************************************************************************)
(* RtSessions with two users at one browser and two requests in flight.    *)
(***************************************************************************)
EXTENDS RtSessions, TLC

Symmetry == Permutations(Requests)
=============================================================================
