----------------------------- MODULE BidVariants -----------------------------
(***************************************************************************)
(* The other three ways of BidsService to bid on an item:                  *)
(*   "none"    make-no-lock            no protection;                      *)
(*   "redlock" make2                   a lock of the redlock library;      *)
(*   "watch"   make-watch-transaction  WATCH, MULTI, SET, EXEC.            *)
(* Each reads the item, checks the bid and writes the item, one command    *)
(* after another.  All requests of a process share one connection to Redis, *)
(* and a WATCH belongs to the connection, not to the request: Conn is the   *)
(* connection of each.                                                     *)
(*                                                                         *)
(* As in Bids, item keeps its last value when its key goes.                *)
(***************************************************************************)
EXTENDS Naturals

CONSTANTS
    Requests,
    Price,         \* newBid.price of each request
    NoUser,        \* highestBidUserId before the first bid
    Free,          \* no request holds the lock
    Connections,
    Conn,          \* the connection of each request
    Ttl,           \* of a lock: 500 ms
    RetryCount,    \* retryCount of RedLockInstance, 20 there
    MayOverlap,    \* may bids be under way together that nothing keeps apart?
    MayOverrun     \* may the lock's TTL run out on a request that uses it?

Routes == {"none", "redlock", "watch"}

VARIABLES
    item,          \* the value under generateItemKey(itemId)
    exists,        \* is there such a key?
    hasTtl,        \* and has it a TTL?
    placed,        \* the bids that have been written
    route,         \* the route each request is sent to
    pc,            \* what a request does next
    tries,         \* attempts of acquire that have failed
    seen,          \* the item a request has read
    lockOwner,     \* whose value is under lock-<item key>
    lockLeft,      \* what is left of the key's TTL, 0 without a key
    watched,       \* the connections that watch the item key
    dirty          \* those among them for which it has changed since

itemVars == <<item, exists, hasTtl, placed>>
connVars == <<watched, dirty>>
lockVars == <<lockOwner, lockLeft>>
vars == <<itemVars, route, pc, tries, seen, lockVars, connVars>>

Auction == INSTANCE Auction

ASSUME BidVariantsAssumption ==
    /\ Auction!AuctionConstants
    /\ Free \notin Requests
    /\ Conn \in [Requests -> Connections]
    /\ Ttl \in Nat \ {0}
    /\ RetryCount \in Nat
    /\ MayOverlap \in BOOLEAN /\ MayOverrun \in BOOLEAN

Init ==
    /\ item = Auction!NewItem
    /\ exists \in BOOLEAN /\ hasTtl = TRUE
    /\ placed = {}
    /\ route \in [Requests -> Routes]
    /\ pc = [r \in Requests |-> "idle"]
    /\ tries = [r \in Requests |-> 0]
    /\ seen = [r \in Requests |-> Auction!NewItem]
    /\ lockOwner = Free /\ lockLeft = 0
    /\ watched = {} /\ dirty = {}

Goto(r, label) == pc' = [pc EXCEPT ![r] = label]

\* A request that relies on what it has read, or on its WATCH.
Using(r) == pc[r] = "write" \/ (pc[r] = "read" /\ route[r] = "watch")

\* The lock is meant for the requests that hold it from here to the release.
Inside(r) == route[r] = "redlock" /\ pc[r] \in {"read", "write", "release"}

\* What the lock promises, whatever scripts it sends to Redis.
Lease == INSTANCE Lease WITH holder <- lockOwner, inside <- {r \in Requests : Inside(r)}

\* Two requests that can do no harm to each other: both use the lock, or both
\* WATCH, on connections of their own.
KeptApart(r, s) ==
    \/ route[r] = "redlock" /\ route[s] = "redlock"
    \/ route[r] = "watch" /\ route[s] = "watch" /\ Conn[r] # Conn[s]

\* Without MayOverlap, others wait for the end of such a request.
MayUse(r) == MayOverlap \/ \A s \in Requests \ {r} : Using(s) => KeptApart(r, s)

-----------------------------------------------------------------------------
Call(r) ==
    /\ pc[r] = "idle"
    /\ Goto(r, CASE route[r] = "none" -> "read"
                 [] route[r] = "redlock" -> "lock"
                 [] route[r] = "watch" -> "watch")
    /\ UNCHANGED <<itemVars, route, tries, seen, lockVars, connVars>>

\* A mutant: the value is set whatever is there.
SetsAnyway(r) == TRUE

LockIsFree(r) == lockOwner = Free

\* A mutant: the value is set without PX.
TakeWithoutTtl(r) == lockOwner' = r /\ lockLeft' = 0

Take(r) == lockOwner' = r /\ lockLeft' = Ttl

\* redlockLock, whose attempt finds no value under the key.
Acquire(r) ==
    /\ pc[r] = "lock" /\ LockIsFree(r)
    /\ Take(r)
    /\ Goto(r, "read")
    /\ UNCHANGED <<itemVars, route, tries, seen, connVars>>

\* An attempt fails because of a value under the key, be it its own, or of an
\* error: then its script may all the same have run.
AttemptFails(r) ==
    /\ pc[r] = "lock"
    /\ UNCHANGED lockVars \/ (LockIsFree(r) /\ Take(r))
    /\ UNCHANGED <<itemVars, route, seen, connVars>>

\* A mutant: every attempt counts twice.
CountTwice(n) == n + 2

CountAttempt(n) == n + 1

Retry(r) ==
    /\ AttemptFails(r)
    /\ tries[r] < RetryCount
    /\ tries' = [tries EXCEPT ![r] = CountAttempt(@)]
    /\ UNCHANGED pc

GiveUp(r) ==
    /\ AttemptFails(r)
    /\ tries[r] = RetryCount
    /\ Goto(r, "undo")
    /\ UNCHANGED tries

\* Before it throws, acquire tries once to delete what its attempts have left.
Undo(r) ==
    /\ pc[r] = "undo"
    /\ UNCHANGED lockVars \/ (lockOwner = r /\ lockOwner' = Free /\ lockLeft' = 0)
    /\ Goto(r, "failed")
    /\ UNCHANGED <<itemVars, route, tries, seen, connVars>>

\* A mutant: without the WATCH.
NotWatching(r) == watched

Watching(r) == watched \cup {Conn[r]}

Watch(r) ==
    /\ pc[r] = "watch" /\ MayUse(r)
    /\ watched' = Watching(r)
    /\ Goto(r, "read")
    /\ UNCHANGED <<itemVars, route, tries, seen, lockVars, dirty>>

-----------------------------------------------------------------------------
\* The checks.  The one of endingAt never throws: see ThrowsItemClosed in Bids.
Accepts(r) == exists /\ item.price < Price[r]

\* getItemById, and the checks of what it has returned.
Read(r) ==
    /\ pc[r] = "read" /\ Accepts(r) /\ MayUse(r)
    /\ seen' = [seen EXCEPT ![r] = item]
    /\ Goto(r, "write")
    /\ UNCHANGED <<itemVars, route, tries, lockVars, connVars>>

\* A check throws: neither the lock nor the WATCH is given back.
Throws(r) ==
    /\ pc[r] = "read" /\ ~Accepts(r)
    /\ Goto(r, "failed")
    /\ UNCHANGED <<itemVars, route, tries, seen, lockVars, connVars>>

\* The item after the bid, and a request that keeps nothing of it.
Place(r) ==
    /\ item' = Auction!AfterBid(seen[r], r)
    /\ exists' = TRUE
    /\ placed' = placed \cup {r}

Forget(r) == seen' = [seen EXCEPT ![r] = Auction!NewItem]

\* redisService.set, with the default TTL.  It is a change for all who watch.
\* Its answer may be lost, as that of EXEC.
Write(r) ==
    /\ pc[r] = "write" /\ route[r] # "watch"
    /\ Place(r) /\ hasTtl' = TRUE
    /\ dirty' = watched
    /\ Forget(r)
    /\ Goto(r, IF route[r] = "redlock" THEN "release" ELSE "done") \/ Goto(r, "failed")
    /\ UNCHANGED <<route, tries, lockVars, watched>>

\* lock.release deletes the key if it still has the value of this lock, and
\* throws if not, or if the answer is lost.
Release(r) ==
    /\ pc[r] = "release"
    /\ IF lockOwner = r
       THEN lockOwner' = Free /\ lockLeft' = 0 /\ (Goto(r, "done") \/ Goto(r, "failed"))
       ELSE UNCHANGED lockVars /\ Goto(r, "failed")
    /\ UNCHANGED <<itemVars, route, tries, seen, connVars>>

\* A mutant: EXEC does not look at what has changed.
IgnoresChanges(c) == FALSE

Aborts(c) == c \in dirty

\* EXEC: an aborted transaction writes nothing.  Either way the connection
\* watches nothing any more, and the request answers with updatedItem.  The
\* SET has no TTL, and takes away the one the key had.
Exec(r) ==
    /\ pc[r] = "write" /\ route[r] = "watch"
    /\ watched' = watched \ {Conn[r]}
    /\ IF Aborts(Conn[r])
       THEN UNCHANGED itemVars /\ dirty' = dirty \ {Conn[r]}
       ELSE Place(r) /\ hasTtl' = FALSE /\ dirty' = watched \ {Conn[r]}
    /\ Forget(r)
    /\ Goto(r, "done") \/ Goto(r, "failed")
    /\ UNCHANGED <<route, tries, lockVars>>

\* A Redis error between two steps.
Fail(r) ==
    /\ pc[r] \in {"watch", "read", "write", "release"}
    /\ Goto(r, "failed")
    /\ Forget(r)
    /\ UNCHANGED <<itemVars, route, tries, lockVars, connVars>>

-----------------------------------------------------------------------------
\* One unit of the lock's time, at the end of which Redis drops the key.
\* Without MayOverrun, a request that is inside with one unit left leaves
\* before the unit has passed.
MayPass == MayOverrun \/ lockLeft # 1 \/ ~Inside(lockOwner)

Tick ==
    /\ lockLeft # 0 /\ MayPass
    /\ lockLeft' = lockLeft - 1
    /\ lockOwner' = IF lockLeft = 1 THEN Free ELSE lockOwner
    /\ UNCHANGED <<itemVars, route, pc, tries, seen, connVars>>

\* A key that expires has changed for all who watch it.
ItemExpires ==
    /\ exists /\ hasTtl
    /\ exists' = FALSE
    /\ dirty' = watched
    /\ UNCHANGED <<item, hasTtl, placed, route, pc, tries, seen, lockVars, watched>>

Protecting(r) ==
    Acquire(r) \/ Retry(r) \/ GiveUp(r) \/ Undo(r) \/ Watch(r) \/ Release(r)
Bidding(r) == Read(r) \/ Throws(r) \/ Write(r) \/ Exec(r)

Next ==
    \/ \E r \in Requests : Call(r) \/ Protecting(r) \/ Bidding(r) \/ Fail(r)
    \/ Tick
    \/ ItemExpires

Spec == Init /\ [][Next]_vars

\* Time passes.
FairSpec == Spec /\ WF_vars(Tick)

-----------------------------------------------------------------------------
\* A lock that is there has time left.
LockTypeOK ==
    /\ lockOwner \in Requests \cup {Free}
    /\ lockLeft \in 0..Ttl
    /\ lockOwner = Free <=> lockLeft = 0

\* The variables have their types.
TypeOK ==
    /\ item \in Auction!Item
    /\ exists \in BOOLEAN /\ hasTtl \in BOOLEAN
    /\ placed \subseteq Requests
    /\ route \in [Requests -> Routes]
    /\ pc \in [Requests -> {"idle", "lock", "undo", "watch", "read", "write", "release", "done",
                           "failed"}]
    /\ tries \in [Requests -> 0..RetryCount]
    /\ seen \in [Requests -> Auction!Item]
    /\ LockTypeOK
    /\ watched \subseteq Connections
    /\ dirty \subseteq watched

\* Without MayOverlap and MayOverrun, on any mix of the routes: what keeps the
\* bids apart that may be under way together, the lock or WATCH on connections
\* of their own, makes read, check and write of a bid one step of the auction.
RefinesAuction == Auction!AuctionSpec

\* Every bid written is still accounted for in the item, also after those that
\* failed without giving back the lock or the WATCH.
NothingLost == Auction!NothingLost

\* acquire, release and the TTL act as a lease, also with MayOverrun: a release
\* that comes late throws and leaves the lock of the next holder alone.
RefinesLease == Lease!LeaseSpec

\* No two requests use the lock of the item at a time.
MutualExclusion == \A r, s \in Requests : Inside(r) /\ Inside(s) => r = s

\* A bid answered with 200 stands: the price has not been below it since.
\* Except on the route of WATCH, which ignores that EXEC was aborted.
AnsweredStands ==
    \A r \in Requests :
        pc[r] = "done" /\ route[r] # "watch" => r \in placed /\ Price[r] <= item.price

\* The paths that throw do not release the lock, and an acquire that throws may
\* have left one that nobody knows of: the key goes all the same.
LeftLockFreed == \A r \in Requests : (pc[r] = "failed" /\ lockOwner = r) ~> lockOwner # r
=============================================================================
