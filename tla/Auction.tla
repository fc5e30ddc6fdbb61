------------------------------- MODULE Auction -------------------------------
(***************************************************************************)
(* What the bidding routes of BidsService promise about one item, whatever *)
(* protects its read-check-write: a bid takes effect at one instant, at    *)
(* most once, and only if it is higher than the price of that instant.     *)
(***************************************************************************)
EXTENDS Naturals, FiniteSets

CONSTANTS
    Requests,      \* the bids, one per request
    Price,         \* newBid.price of each request
    NoUser         \* highestBidUserId before the first bid

\* What the instances and the theorems assume of the constants.
AuctionConstants ==
    /\ Price \in [Requests -> Nat]
    /\ NoUser \notin Requests

VARIABLES
    item,          \* TItem: price, number of bids, highest bidder
    placed         \* the bids that have taken effect

auctionVars == <<item, placed>>

Item == [price : Nat, bids : Nat, highestBidUserId : Requests \cup {NoUser}]

\* An item as it is put up: no bid yet.
NewItem == [price |-> 0, bids |-> 0, highestBidUserId |-> NoUser]

\* updatedItem: the item after a bid.
AfterBid(old, r) ==
    [price |-> Price[r], bids |-> old.bids + 1, highestBidUserId |-> r]

AuctionInit == item = NewItem /\ placed = {}

PlaceBid(r) ==
    /\ r \notin placed
    /\ Price[r] > item.price
    /\ item' = AfterBid(item, r)
    /\ placed' = placed \cup {r}

AuctionNext == \E r \in Requests : PlaceBid(r)

AuctionSpec == AuctionInit /\ [][AuctionNext]_auctionVars

-----------------------------------------------------------------------------
\* Nothing is lost: every bid that took effect is counted, none is above the
\* price, and the price is the one of the recorded bidder.
NothingLost ==
    /\ item.bids = Cardinality(placed)
    /\ \A r \in placed : Price[r] <= item.price
    /\ placed # {} => /\ item.highestBidUserId \in placed
                      /\ item.price = Price[item.highestBidUserId]
=============================================================================
