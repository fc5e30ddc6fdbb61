---------------------------- MODULE MCBidVariants ----------------------------
(***************************************************************************)
(* BidVariants on a small instance: three requests on any mix of routes,   *)
(* two of them on one connection.                                          *)
(***************************************************************************)
EXTENDS BidVariants, TLC

CONSTANTS r1, r2, r3, c1, c2

MCRequests == {r1, r2, r3}
MCPrice == r1 :> 1 @@ r2 :> 2 @@ r3 :> 2
MCConnections == {c1, c2}
MCConn == r1 :> c1 @@ r2 :> c1 @@ r3 :> c2
=============================================================================
