-------------------------------- MODULE Bids --------------------------------
(***************************************************************************)
(* BidsService.createBidWithCustomLock: bids on one item, whose record is  *)
(* a JSON value under a Redis key with a TTL, each bid inside the critical *)
(* section of CustomLock.                                                  *)
(*                                                                         *)
(* item keeps its last value when the key expires, so that what a late     *)
(* write does to it can be stated; the key exists while itemLeft > 0.      *)
(***************************************************************************)
EXTENDS CustomLock

CONSTANTS
    Price,         \* newBid.price of each request
    NoUser,        \* highestBidUserId before the first bid
    ItemTtl        \* RedisService.defaultTtl: set() is called without a ttl

VARIABLES
    item,          \* the value under generateItemKey(itemId)
    itemLeft,      \* remaining TTL of that key, 0 when it does not exist
    ended,         \* has item.endingAt passed?
    step,          \* how far a request is in its critical section
    seen,          \* the item a request has read
    gone           \* history: how long ago the key expired, counted up to Ttl
                   \* and only while a bid is about to be written

bidVars == <<item, itemLeft, ended, step, seen, gone>>
vars == <<lockVars, bidVars>>

\* The bids that have been written.  "written" stays when the request leaves.
Placed == {r \in Requests : step[r] = "written"}

Auction == INSTANCE Auction WITH placed <- Placed

ASSUME BidsAssumption == Auction!AuctionConstants /\ ItemTtl \in Nat \ {0}

Init ==
    /\ LockInit
    /\ item = Auction!NewItem
    /\ itemLeft \in {0, ItemTtl}
    /\ ended \in BOOLEAN
    /\ step = [r \in Requests |-> "read"]
    /\ seen = [r \in Requests |-> Auction!NewItem]
    /\ gone = 0

-----------------------------------------------------------------------------
\* Number(new Date()) - Number(item.endingAt).  endingAt comes out of
\* JSON.parse as the ISO 8601 string it was stored as, and Number of such a
\* string is NaN.
EndingAtIsNumber == FALSE

SinceEnding ==
    IF ~EndingAtIsNumber THEN "NaN"
    ELSE IF ended THEN "positive" ELSE "negative"

\* A comparison with NaN is false.
ThrowsItemClosed == SinceEnding = "negative"

Exists == itemLeft > 0

\* A mutant: a bid equal to the price is let through.
AcceptsEqual(r) == Exists /\ ~ (item.price > Price[r]) /\ ~ ThrowsItemClosed

Accepts(r) ==
    /\ Exists
    /\ ~ (item.price >= Price[r])
    /\ ~ ThrowsItemClosed

\* getItemById and the checks, which read only what it returned.
ReadItem(r) ==
    /\ Inside(r) /\ step[r] = "read" /\ Accepts(r)
    /\ seen' = [seen EXCEPT ![r] = item]
    /\ step' = [step EXCEPT ![r] = "write"]
    /\ UNCHANGED <<lockVars, item, itemLeft, ended, gone>>

\* One of the three checks throws, before customUnlock.
Rejected(r) ==
    /\ step[r] = "read" /\ ~ Accepts(r)
    /\ Abandon(r)
    /\ UNCHANGED bidVars

\* redisService.set(itemKey, updatedItem), without NX, XX or a ttl.
WriteItem(r) ==
    /\ Inside(r) /\ step[r] = "write"
    /\ item' = Auction!AfterBid(seen[r], r)
    /\ itemLeft' = ItemTtl
    /\ gone' = 0
    /\ step' = [step EXCEPT ![r] = "written"]
    /\ seen' = [seen EXCEPT ![r] = Auction!NewItem]
    /\ UNCHANGED <<lockVars, ended>>

Leave(r) ==
    /\ step[r] = "written"
    /\ Unlock(r)
    /\ UNCHANGED bidVars

\* A Redis error or the end of the process between two steps.
Fail(r) == Abandon(r) /\ UNCHANGED bidVars

Tick ==
    /\ LockTick
    /\ itemLeft' = IF itemLeft = 0 THEN 0 ELSE itemLeft - 1
    /\ gone' = IF itemLeft = 0 /\ \E r \in Requests : Inside(r) /\ step[r] = "write"
               THEN IF gone < Ttl THEN gone + 1 ELSE gone
               ELSE 0
    /\ UNCHANGED <<item, ended, step, seen>>

ReachEnd ==
    /\ ~ended
    /\ ended' = TRUE
    /\ UNCHANGED <<lockVars, item, itemLeft, step, seen, gone>>

\* The steps of customLock, which leave the item alone.
Locking(r) == (Call(r) \/ Attempt(r)) /\ UNCHANGED bidVars

InSection(r) == ReadItem(r) \/ Rejected(r) \/ WriteItem(r) \/ Leave(r)

Next ==
    \/ Tick
    \/ ReachEnd
    \/ \E r \in Requests : Locking(r) \/ InSection(r) \/ Fail(r)

Spec == Init /\ [][Next]_vars

\* Time passes, the timers of the retry loop fire, and Redis answers a
\* request that is inside.  Nothing is assumed of its answers to SET and GET
\* on the lock key: resolveOrTimeout is there for when they do not come.
Timers(r) == (TimeOut(r) \/ Wake(r)) /\ UNCHANGED bidVars

Fairness ==
    /\ WF_vars(Tick)
    /\ \A r \in Requests : WF_vars(Timers(r)) /\ WF_vars(InSection(r))

FairSpec == Spec /\ Fairness

-----------------------------------------------------------------------------
\* Read, check and write of one bid, spread over three commands, act as one
\* step of the auction: no accepted bid overwrites another it has not seen.
RefinesAuction == Auction!AuctionSpec

\* Every bid written is still accounted for in the item.
NothingLost == Auction!NothingLost

\* An item comes back after its TTL only by a bid that had read it before:
\* once it has been gone for the TTL of the lock, no late write revives it.
RevivedSoonOrNever == [][itemLeft = 0 /\ itemLeft' > 0 => gone < Ttl]_vars

\* Every request is answered, also when Redis never answers customLock.
EveryBidAnswered ==
    \A r \in Requests :
        pc[r] \in Trying \cup {"inside"} ~> pc[r] \in {"done", "failed"}

\* A request that failed without customUnlock does not block the item for
\* good: its key goes away.
AbandonedKeyFreed ==
    \A r \in Requests : (pc[r] = "failed" /\ owner = r) ~> owner # r

\* Does not hold with MayOverrun: customUnlock deletes only the key of the
\* request that calls it.
OnlyOwnKeyDeleted ==
    [][\A r \in Requests :
          Inside(r) /\ pc'[r] = "done" => owner \in {r, Free}]_vars

\* Does not hold: no bid passes the checks once the item has ended.
NoBidAfterEnd ==
    [][\A r \in Requests :
          step[r] = "read" /\ step'[r] = "write" => ~ended]_vars
=============================================================================
