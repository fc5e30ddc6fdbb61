----------------------------- MODULE BidsProofs -----------------------------
(***************************************************************************)
(* Bids with custom lock implement the auction, for any number of          *)
(* requests, any prices and any TTLs, as long as no request stays inside   *)
(* past the TTL of its lock.                                               *)
(***************************************************************************)
EXTENDS Bids, CustomLockProofs

AP == INSTANCE AuctionProofs WITH placed <- Placed

\* Every step of a bid is a step of the lock, or leaves the lock alone.
LEMMA StepsLock == [Next]_vars => [LockNext]_lockVars
  BY DEF Next, Locking, InSection, Tick, ReachEnd, ReadItem, Rejected, WriteItem,
         Leave, Fail, LockNext, vars, lockVars

\* The bids use the lock as CustomLock specifies it, so what is proved of the
\* lock holds of the bids.
LEMMA BidsImplementLock == Spec => LockSpec
<1>1. Init => LockInit
  BY DEF Init
<1>2. QED
  BY <1>1, StepsLock, PTL DEF Spec, LockSpec

\* At most one bid at a time is between customLock and customUnlock.
THEOREM BidsMutualExclusion ==
  ASSUME ~MayOverrun
  PROVE  Spec => []MutualExclusion
  BY BidsImplementLock, LockMutualExclusion, PTL

\* The bids leave to the lock what it needs to act as a lease.
THEOREM BidsRefineLease ==
  ASSUME ~MayOverrun
  PROVE  Spec => RefinesLease
  BY BidsImplementLock, LockRefinesLease, PTL

\* customUnlock deletes whatever is under the key: if no bid outlives its
\* lock, this is the key of the bid that calls it.
THEOREM BidsDeleteOwnKey ==
  ASSUME ~MayOverrun
  PROVE  Spec => OnlyOwnKeyDeleted
<1>1. HolderOwnsKey /\ [Next]_vars =>
        [\A r \in Requests : Inside(r) /\ pc'[r] = "done" => owner \in {r, Free}]_vars
  BY DEF HolderOwnsKey
<1>2. QED
  BY <1>1, BidsImplementLock, LockHolderOwnsKey, PTL DEF Spec, OnlyOwnKeyDeleted

-----------------------------------------------------------------------------
BidsTypeOK ==
    /\ item \in Auction!Item
    /\ step \in [Requests -> {"read", "write", "written"}]
    /\ seen \in [Requests -> Auction!Item]

\* A request about to write has the current item in hand, and its price is
\* higher.
SeenIsCurrent ==
    \A r \in Requests :
        Inside(r) /\ step[r] = "write" =>
            seen[r] = item /\ Price[r] > item.price

\* A request that is not inside yet has not read anything.
ReadsInside ==
    \A r \in Requests :
        pc[r] \in {"idle"} \cup Trying => step[r] = "read"

BidsInv ==
    LockTypeOK /\ HolderOwnsKey /\ BidsTypeOK /\ SeenIsCurrent /\ ReadsInside

\* The invariant holds before the first bid.
LEMMA BidsInvInit == Init => BidsInv
  BY CustomLockAssumption, BidsAssumption
     DEF Init, LockInit, BidsInv, LockTypeOK, PcValues, Trying, HolderOwnsKey, Inside,
         BidsTypeOK, SeenIsCurrent, ReadsInside, Auction!Item, Auction!NewItem,
         Auction!AuctionConstants

\* Only reading and writing the item touch the variables of the bids.
LEMMA BidsTypeStep ==
  ASSUME BidsInv, [Next]_vars
  PROVE  BidsTypeOK'
<1> USE BidsAssumption
    DEF BidsInv, BidsTypeOK, Auction!Item, Auction!NewItem, Auction!AuctionConstants
<1>1. ASSUME NEW r \in Requests, ReadItem(r)
      PROVE  BidsTypeOK'
  BY <1>1 DEF ReadItem
<1>2. ASSUME NEW r \in Requests, WriteItem(r)
      PROVE  BidsTypeOK'
  BY <1>2 DEF WriteItem, Auction!AfterBid
<1>3. CASE UNCHANGED <<item, step, seen>>
  BY <1>3
<1>4. QED
  BY <1>1, <1>2, <1>3
     DEF Next, Locking, InSection, Tick, ReachEnd, Rejected, Leave, Fail, vars, bidVars

\* Only a WriteItem changes the item, and by mutual exclusion its request is
\* the only one inside.
LEMMA SeenIsCurrentStep ==
  ASSUME BidsInv, [Next]_vars
  PROVE  SeenIsCurrent'
<1> USE BidsAssumption
    DEF BidsInv, BidsTypeOK, SeenIsCurrent, Inside, Auction!Item, Auction!AuctionConstants
<1>1. ASSUME NEW r \in Requests, ReadItem(r)
      PROVE  SeenIsCurrent'
  BY <1>1 DEF ReadItem, Accepts, lockVars
<1>2. ASSUME NEW r \in Requests, WriteItem(r)
      PROVE  SeenIsCurrent'
  BY <1>2 DEF WriteItem, HolderOwnsKey, lockVars
<1>3. ASSUME NEW r \in Requests, Locking(r)
      PROVE  SeenIsCurrent'
  <2>1. \A s \in Requests : pc'[s] = "inside" => pc[s] = "inside" \/ step[s] = "read"
    BY <1>3 DEF Locking, Call, Attempt, SetNx, GetOwn, GetOther, TimeOut, LateSet, Wake,
                AttemptFails, Settle, ReadsInside, Trying, LockTypeOK
  <2>2. QED
    BY <1>3, <2>1 DEF Locking, bidVars
<1>4. ASSUME NEW r \in Requests, Rejected(r) \/ Leave(r) \/ Fail(r)
      PROVE  SeenIsCurrent'
  BY <1>4 DEF Rejected, Leave, Fail, Abandon, Unlock, bidVars, LockTypeOK
<1>5. CASE Tick \/ ReachEnd \/ UNCHANGED vars
  BY <1>5 DEF Tick, LockTick, ReachEnd, vars, lockVars, bidVars
<1>6. QED
  BY <1>1, <1>2, <1>3, <1>4, <1>5 DEF Next, InSection

\* A request reads the item only once it is inside.
LEMMA ReadsInsideStep ==
  ASSUME BidsInv, [Next]_vars
  PROVE  ReadsInside'
<1> USE DEF BidsInv, BidsTypeOK, LockTypeOK, ReadsInside, Inside, Trying
<1>1. ASSUME NEW r \in Requests, ReadItem(r) \/ WriteItem(r)
      PROVE  ReadsInside'
  BY <1>1 DEF ReadItem, WriteItem, lockVars
<1>2. ASSUME NEW r \in Requests, Locking(r)
      PROVE  ReadsInside'
  BY <1>2 DEF Locking, Call, Attempt, SetNx, GetOwn, GetOther, TimeOut, LateSet, Wake,
              AttemptFails, Settle, bidVars
<1>3. ASSUME NEW r \in Requests, Rejected(r) \/ Leave(r) \/ Fail(r)
      PROVE  ReadsInside'
  BY <1>3 DEF Rejected, Leave, Fail, Abandon, Unlock, bidVars
<1>4. CASE Tick \/ ReachEnd \/ UNCHANGED vars
  BY <1>4 DEF Tick, LockTick, ReachEnd, vars, lockVars, bidVars
<1>5. QED
  BY <1>1, <1>2, <1>3, <1>4 DEF Next, InSection

\* The invariant in every state of the bids.
LEMMA BidsInvariant ==
  ASSUME ~MayOverrun
  PROVE  Spec => []BidsInv
<1>1. BidsInv /\ LockTypeOK' /\ HolderOwnsKey' /\ [Next]_vars => BidsInv'
  BY BidsTypeStep, SeenIsCurrentStep, ReadsInsideStep DEF BidsInv
<1>2. QED
  BY <1>1, BidsInvInit, BidsImplementLock, LockTyping, LockHolderOwnsKey, PTL DEF Spec

-----------------------------------------------------------------------------
\* The write of a bid is the step of the auction in which it takes effect;
\* every other step leaves the auction alone.
LEMMA StepsAuction ==
  ASSUME BidsInv, [Next]_vars
  PROVE  [Auction!AuctionNext]_<<item, Placed>>
<1> USE DEF BidsInv, BidsTypeOK
<1>1. ASSUME NEW r \in Requests, ReadItem(r)
      PROVE  UNCHANGED <<item, Placed>>
  BY <1>1 DEF ReadItem, Placed
<1>2. ASSUME NEW r \in Requests, WriteItem(r)
      PROVE  Auction!PlaceBid(r)
  <2>1. seen[r] = item /\ Price[r] > item.price
    BY <1>2 DEF WriteItem, SeenIsCurrent
  <2>2. r \notin Placed /\ Placed' = Placed \cup {r}
    BY <1>2 DEF WriteItem, Placed
  <2>3. QED
    BY <1>2, <2>1, <2>2 DEF WriteItem, Auction!PlaceBid
<1>3. CASE UNCHANGED <<item, step>>
  BY <1>3 DEF Placed
<1>4. QED
  BY <1>1, <1>2, <1>3
     DEF Next, Locking, InSection, Tick, ReachEnd, Rejected, Leave, Fail, vars, bidVars,
         Auction!AuctionNext

\* Read, check and write of a bid act as one step of the auction.
THEOREM BidsRefineAuction ==
  ASSUME ~MayOverrun
  PROVE  Spec => RefinesAuction
<1>1. Init => Auction!AuctionInit
  BY DEF Init, Auction!AuctionInit, Placed
<1>2. BidsInv /\ [Next]_vars => [Auction!AuctionNext]_<<item, Placed>>
  BY StepsAuction
<1>3. QED
  BY <1>1, <1>2, BidsInvariant, PTL
     DEF Spec, RefinesAuction, Auction!AuctionSpec, Auction!auctionVars

\* No bid that was written is lost.
THEOREM BidsLoseNothing ==
  ASSUME ~MayOverrun
  PROVE  Spec => []NothingLost
<1>1. AP!AuctionConstants
  BY BidsAssumption DEF AP!AuctionConstants, Auction!AuctionConstants
<1>2. AP!AuctionSpec => []AP!NothingLost
  BY <1>1, AP!AuctionLosesNothing
<1>3. Auction!AuctionInit => AP!AuctionInit
  BY DEF Auction!AuctionInit, AP!AuctionInit, Auction!NewItem, AP!NewItem
<1>4. [Auction!AuctionNext]_<<item, Placed>> => [AP!AuctionNext]_<<item, Placed>>
  BY DEF Auction!AuctionNext, AP!AuctionNext, Auction!PlaceBid, AP!PlaceBid,
         Auction!AfterBid, AP!AfterBid
<1>5. AP!NothingLost => NothingLost
  BY DEF AP!NothingLost, NothingLost, Auction!NothingLost, AP!Cardinality, Auction!Cardinality,
         AP!IsFiniteSet, Auction!IsFiniteSet
<1>6. QED
  BY <1>2, <1>3, <1>4, <1>5, BidsRefineAuction, PTL
     DEF RefinesAuction, Auction!AuctionSpec, Auction!auctionVars,
         AP!AuctionSpec, AP!auctionVars

-----------------------------------------------------------------------------
BidsTimersOK ==
    /\ itemLeft \in 0..ItemTtl
    /\ gone \in 0..Ttl

\* A bid that has read an item holds a lock that was taken before the item
\* expired: what the lock has left and the time the item has been gone do not
\* add up to its TTL.
HeldSinceExpiry ==
    \A r \in Requests :
        Inside(r) /\ step[r] = "write" /\ itemLeft = 0 => gone + left < Ttl

\* The step that matters is the one of the clock, which cannot pass the end
\* of the lock while its holder is inside.
LEMMA HeldSinceExpiryStep ==
  ASSUME BidsInv, BidsTimersOK, HeldSinceExpiry, [Next]_vars
  PROVE  BidsTimersOK' /\ HeldSinceExpiry'
<1> USE CustomLockAssumption, BidsAssumption
    DEF BidsInv, BidsTypeOK, LockTypeOK, BidsTimersOK, HeldSinceExpiry, Inside
<1>1. CASE Tick
  <2>1. BidsTimersOK'
    BY <1>1 DEF Tick
  <2>2. ASSUME NEW r \in Requests, pc[r] = "inside", step[r] = "write", itemLeft' = 0
        PROVE  gone' + left' < Ttl
    <3>1. owner = r /\ left \in 1..Ttl /\ left' = left - 1
      BY <1>1, <2>2 DEF Tick, LockTick, HolderOwnsKey
    <3>2. CASE itemLeft = 0
      BY <1>1, <2>2, <3>1, <3>2 DEF Tick
    <3>3. CASE itemLeft # 0
      BY <1>1, <3>1, <3>3 DEF Tick
    <3>4. QED
      BY <3>2, <3>3
  <2>3. QED
    BY <1>1, <2>1, <2>2 DEF Tick, LockTick
<1>2. ASSUME NEW r \in Requests, ReadItem(r)
      PROVE  BidsTimersOK' /\ HeldSinceExpiry'
  BY <1>2 DEF ReadItem, Accepts, Exists, lockVars
<1>3. ASSUME NEW r \in Requests, WriteItem(r)
      PROVE  BidsTimersOK' /\ HeldSinceExpiry'
  BY <1>3 DEF WriteItem, lockVars
<1>4. ASSUME NEW r \in Requests, Locking(r)
      PROVE  BidsTimersOK' /\ HeldSinceExpiry'
  <2>1. \A s \in Requests : pc'[s] = "inside" => pc[s] = "inside" \/ step[s] = "read"
    BY <1>4 DEF Locking, Call, Attempt, SetNx, GetOwn, GetOther, TimeOut, LateSet, Wake,
                AttemptFails, Settle, ReadsInside, Trying
  <2>2. owner = Free \/ left' = left
    BY <1>4 DEF Locking, Call, Attempt, SetNx, GetOwn, GetOther, TimeOut, LateSet, Wake,
                TakeIfFree
  <2>3. QED
    BY <1>4, <2>1, <2>2 DEF Locking, bidVars, HolderOwnsKey
<1>5. ASSUME NEW r \in Requests, Rejected(r) \/ Leave(r) \/ Fail(r)
      PROVE  BidsTimersOK' /\ HeldSinceExpiry'
  <2>1. \A s \in Requests : pc'[s] = "inside" => pc[s] = "inside"
    BY <1>5 DEF Rejected, Leave, Fail, Abandon, Unlock
  <2>2. left' = left \/ \A s \in Requests : pc'[s] # "inside"
    BY <1>5 DEF Rejected, Leave, Fail, Abandon, Unlock, HolderOwnsKey
  <2>3. QED
    BY <1>5, <2>1, <2>2 DEF Rejected, Leave, Fail, bidVars
<1>6. CASE ReachEnd \/ UNCHANGED vars
  BY <1>6 DEF ReachEnd, vars, lockVars, bidVars
<1>7. QED
  BY <1>1, <1>2, <1>3, <1>4, <1>5, <1>6 DEF Next, InSection

\* No bid revives an item that has been gone for the TTL of the lock.
THEOREM BidsReviveSoon ==
  ASSUME ~MayOverrun
  PROVE  Spec => RevivedSoonOrNever
<1>1. Init => BidsTimersOK /\ HeldSinceExpiry
  BY CustomLockAssumption, BidsAssumption
     DEF Init, LockInit, BidsTimersOK, HeldSinceExpiry, Inside
<1>2. BidsInv /\ BidsTimersOK /\ HeldSinceExpiry /\ [Next]_vars =>
        BidsTimersOK' /\ HeldSinceExpiry'
  BY HeldSinceExpiryStep
<1>3. BidsInv /\ BidsTimersOK /\ HeldSinceExpiry /\ [Next]_vars =>
        [itemLeft = 0 /\ itemLeft' > 0 => gone < Ttl]_vars
  <2> SUFFICES ASSUME BidsInv, BidsTimersOK, HeldSinceExpiry, [Next]_vars,
                      itemLeft = 0, itemLeft' > 0
               PROVE  gone < Ttl
    OBVIOUS
  <2> USE CustomLockAssumption DEF BidsInv, LockTypeOK, BidsTimersOK
  <2>1. PICK r \in Requests : WriteItem(r)
    BY DEF Next, Tick, ReachEnd, Locking, InSection, ReadItem, Rejected, Leave, Fail, vars,
           bidVars
  <2>2. gone + left < Ttl
    BY <2>1 DEF WriteItem, HeldSinceExpiry
  <2>3. QED
    BY <2>2
<1>4. QED
  BY <1>1, <1>2, <1>3, BidsInvariant, PTL DEF Spec, RevivedSoonOrNever
=============================================================================
