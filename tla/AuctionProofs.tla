---------------------------- MODULE AuctionProofs ----------------------------
(***************************************************************************)
(* The auction loses no bid, for any set of requests and any prices.       *)
(***************************************************************************)
EXTENDS Auction, FiniteSetTheorems, TLAPS

\* The variables keep their types, and only finitely many bids have been
\* placed, so that they can be counted.
AuctionTypeOK ==
    /\ item \in Item
    /\ placed \subseteq Requests
    /\ IsFiniteSet(placed)

\* The item is a TItem and the bids placed are bids of this auction.
LEMMA AuctionTyping ==
  ASSUME AuctionConstants
  PROVE  AuctionSpec => []AuctionTypeOK
<1> USE DEF AuctionConstants, AuctionTypeOK, Item
<1>1. AuctionInit => AuctionTypeOK
  BY FS_EmptySet DEF AuctionInit, NewItem
<1>2. AuctionTypeOK /\ [AuctionNext]_auctionVars => AuctionTypeOK'
  <2> SUFFICES ASSUME AuctionTypeOK, [AuctionNext]_auctionVars
               PROVE  AuctionTypeOK'
    OBVIOUS
  <2>1. ASSUME NEW r \in Requests, PlaceBid(r)
        PROVE  AuctionTypeOK'
    <3>1. IsFiniteSet(placed')
      BY <2>1, FS_AddElement DEF PlaceBid
    <3>2. QED
      BY <2>1, <3>1 DEF PlaceBid, AfterBid
  <2>2. CASE UNCHANGED auctionVars
    BY <2>2 DEF auctionVars
  <2>3. QED
    BY <2>1, <2>2 DEF AuctionNext
<1>3. QED
  BY <1>1, <1>2, PTL DEF AuctionSpec

\* Every bid that took effect is counted, none exceeds the price, and the
\* price is the recorded bidder's.
THEOREM AuctionLosesNothing ==
  ASSUME AuctionConstants
  PROVE  AuctionSpec => []NothingLost
<1> USE DEF AuctionConstants, AuctionTypeOK, Item, NothingLost
<1>1. AuctionInit => NothingLost
  BY FS_EmptySet DEF AuctionInit, NewItem
<1>2. AuctionTypeOK /\ NothingLost /\ [AuctionNext]_auctionVars => NothingLost'
  <2> SUFFICES ASSUME AuctionTypeOK, NothingLost, [AuctionNext]_auctionVars
               PROVE  NothingLost'
    OBVIOUS
  <2>1. ASSUME NEW r \in Requests, PlaceBid(r)
        PROVE  NothingLost'
    <3>1. item'.bids = Cardinality(placed')
      BY <2>1, FS_AddElement DEF PlaceBid, AfterBid
    <3>2. \A s \in placed' : Price[s] <= item'.price
      BY <2>1 DEF PlaceBid, AfterBid
    <3>3. /\ item'.highestBidUserId \in placed'
          /\ item'.price = Price[item'.highestBidUserId]
      BY <2>1 DEF PlaceBid, AfterBid
    <3>4. QED
      BY <3>1, <3>2, <3>3
  <2>2. CASE UNCHANGED auctionVars
    BY <2>2 DEF auctionVars
  <2>3. QED
    BY <2>1, <2>2 DEF AuctionNext
<1>3. QED
  BY <1>1, <1>2, AuctionTyping, PTL DEF AuctionSpec
=============================================================================
