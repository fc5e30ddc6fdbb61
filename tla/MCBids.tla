------------------------------- MODULE MCBids -------------------------------
(***************************************************************************)
(* Bids on small instances: three requests, two of which bid the same      *)
(* price; retries is left to its default, as in createBidWithCustomLock.   *)
(***************************************************************************)
EXTENDS Bids, TLC

CONSTANTS r1, r2, r3

MCRequests == {r1, r2, r3}
MCPrice == r1 :> 1 @@ r2 :> 2 @@ r3 :> 2

MCRetries == DefaultRetries(Ttl, Delay, Timeout)

\* The example in customLock: ttl 1000 and delay 200 give 5 retries, 1050 ms.
ASSUME DefaultRetries(1000, 200, 0) = 5
ASSUME DefaultTimeout(1000, 200, 5) = 1050
=============================================================================
