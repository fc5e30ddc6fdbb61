-------------------------- MODULE BidVariantsProofs --------------------------
(***************************************************************************)
(* The bids with Redlock and with WATCH implement the auction, for any     *)
(* number of requests and connections, as long as only bids that the lock   *)
(* or their own WATCH keeps apart are under way together, and none uses the *)
(* lock past its TTL.                                                      *)
(***************************************************************************)
EXTENDS BidVariants, TLAPS

AP == INSTANCE AuctionProofs

USE DEF Goto

-----------------------------------------------------------------------------
\* The lock belongs to the one who is inside.
InsideOwns == \A r \in Requests : Inside(r) => lockOwner = r

\* A WATCH in use has not been taken away by the EXEC of another.
UsingWatches == \A r \in Requests : Using(r) /\ route[r] = "watch" => Conn[r] \in watched

\* Only those are under way together that are kept apart.
UsersApart == \A r, s \in Requests : r # s /\ Using(r) /\ Using(s) => KeptApart(r, s)

\* What is about to be written follows from the current item, or EXEC will
\* abort.
SeenIsCurrent ==
    \A r \in Requests : pc[r] = "write" =>
        /\ Price[r] > seen[r].price
        /\ seen[r] = item \/ (route[r] = "watch" /\ Conn[r] \in dirty)

\* A bid is written once, and one that is answered has been written.
PlacedOnce ==
    /\ \A r \in placed : pc[r] \in {"release", "done", "failed"}
    /\ \A r \in Requests : pc[r] \in {"release", "done"} => r \in placed \/ route[r] = "watch"

\* Locks are for one route, WATCH for another.
OnRoute ==
    \A r \in Requests :
        /\ pc[r] \in {"lock", "undo", "release"} => route[r] = "redlock"
        /\ pc[r] = "watch" => route[r] = "watch"

VariantsInv ==
    TypeOK /\ OnRoute /\ InsideOwns /\ UsingWatches /\ UsersApart /\ SeenIsCurrent /\ PlacedOnce

\* The invariant holds before the first bid.
LEMMA VariantsInvInit == Init => VariantsInv
  BY BidVariantsAssumption
     DEF Init, VariantsInv, TypeOK, LockTypeOK, InsideOwns, UsingWatches, UsersApart, SeenIsCurrent,
         PlacedOnce, OnRoute, Inside, Using, Auction!Item, Auction!NewItem, Auction!AuctionConstants

\* A bid makes an item of an item.
LEMMA AfterBidTypes ==
  ASSUME NEW old \in Auction!Item, NEW r \in Requests
  PROVE  Auction!AfterBid(old, r) \in Auction!Item /\ Auction!NewItem \in Auction!Item
  BY BidVariantsAssumption DEF Auction!Item, Auction!NewItem, Auction!AfterBid, Auction!AuctionConstants

\* The key of the lock and its time go together.
LEMMA LockTypes ==
  ASSUME LockTypeOK, [Next]_vars
  PROVE  LockTypeOK'
<1> USE BidVariantsAssumption DEF LockTypeOK
<1>1. ASSUME NEW r \in Requests, Protecting(r)
      PROVE  LockTypeOK'
  BY <1>1
     DEF Protecting, Acquire, Retry, GiveUp, AttemptFails, Take, Undo, Watch, Release, lockVars
<1>2. ASSUME NEW r \in Requests, Call(r) \/ Bidding(r) \/ Fail(r)
      PROVE  LockTypeOK'
  BY <1>2 DEF Call, Bidding, Read, Throws, Write, Exec, Fail, lockVars
<1>3. CASE Tick
  BY <1>3 DEF Tick
<1>4. CASE ItemExpires \/ UNCHANGED vars
  BY <1>4 DEF ItemExpires, vars, lockVars
<1>5. QED
  BY <1>1, <1>2, <1>3, <1>4 DEF Next

\* Every step keeps the types.
LEMMA VariantsTypes ==
  ASSUME TypeOK, [Next]_vars
  PROVE  TypeOK'
<1> USE BidVariantsAssumption DEF TypeOK, Forget
<1>0. LockTypeOK'
  BY LockTypes
<1>1. ASSUME NEW r \in Requests, Call(r)
      PROVE  TypeOK'
  BY <1>0, <1>1 DEF Call, itemVars, connVars, Routes
<1>2. ASSUME NEW r \in Requests, Protecting(r)
      PROVE  TypeOK'
  <2>1. CASE Acquire(r) \/ Retry(r) \/ GiveUp(r)
    BY <1>0, <2>1 DEF Acquire, Retry, GiveUp, AttemptFails, CountAttempt, itemVars, connVars
  <2>2. CASE Undo(r) \/ Watch(r) \/ Release(r)
    BY <1>0, <2>2 DEF Undo, Watch, Watching, Release, itemVars, connVars
  <2>3. QED
    BY <1>2, <2>1, <2>2 DEF Protecting
<1>3. ASSUME NEW r \in Requests, Bidding(r) \/ Fail(r)
      PROVE  TypeOK'
  <2>1. CASE Read(r) \/ Throws(r)
    BY <1>0, <2>1 DEF Read, Throws, itemVars, connVars
  <2>2. ASSUME Place(r)
        PROVE  item' \in Auction!Item /\ exists' \in BOOLEAN /\ placed' \subseteq Requests
    <3>1. seen[r] \in Auction!Item
      OBVIOUS
    <3>2. QED
      BY <2>2, <3>1, AfterBidTypes DEF Place
  <2>3. ASSUME Forget(r)
        PROVE  seen' \in [Requests -> Auction!Item]
    <3>1. Auction!NewItem \in Auction!Item
      BY DEF Auction!NewItem, Auction!Item
    <3>2. QED
      BY <2>3, <3>1
  <2>4. CASE Write(r)
    BY <1>0, <2>2, <2>3, <2>4 DEF Write
  <2>5. CASE Exec(r)
    <3>1. item' \in Auction!Item /\ exists' \in BOOLEAN /\ placed' \subseteq Requests /\ hasTtl' \in BOOLEAN
      BY <2>2, <2>5 DEF Exec, itemVars
    <3>2. watched' \subseteq Connections /\ dirty' \subseteq watched'
      BY <2>5 DEF Exec
    <3>3. QED
      BY <1>0, <2>3, <2>5, <3>1, <3>2 DEF Exec
  <2>6. CASE Fail(r)
    BY <1>0, <2>3, <2>6 DEF Fail, itemVars, connVars
  <2>7. QED
    BY <1>3, <2>1, <2>4, <2>5, <2>6 DEF Bidding
<1>4. CASE Tick \/ ItemExpires
  BY <1>0, <1>4 DEF Tick, ItemExpires, itemVars, connVars
<1>5. CASE UNCHANGED vars
  BY <1>0, <1>5 DEF vars, itemVars, connVars
<1>6. QED
  BY <1>1, <1>2, <1>3, <1>4, <1>5 DEF Next

\* The types hold whatever overlaps and however long a request takes.
THEOREM VariantsTyping == Spec => []TypeOK
<1>1. Init => TypeOK
  BY VariantsInvInit DEF VariantsInv
<1>2. QED
  BY <1>1, VariantsTypes, PTL DEF Spec

-----------------------------------------------------------------------------
\* A step of one request, seen from the others.
LEMMA OthersMove ==
  ASSUME TypeOK, NEW r \in Requests, NEW s \in Requests, s # r,
         Call(r) \/ Protecting(r) \/ Bidding(r) \/ Fail(r)
  PROVE  pc'[s] = pc[s] /\ seen'[s] = seen[s]
<1> USE DEF TypeOK, Forget
<1>1. CASE Call(r)
  BY <1>1 DEF Call
<1>2. CASE Protecting(r)
  BY <1>2 DEF Protecting, Acquire, Retry, GiveUp, AttemptFails, Undo, Watch, Release
<1>3. CASE Bidding(r)
  BY <1>3 DEF Bidding, Read, Throws, Write, Exec
<1>4. CASE Fail(r)
  BY <1>4 DEF Fail
<1>5. QED
  BY <1>1, <1>2, <1>3, <1>4

\* The routes never change.
LEMMA RoutesStay == [Next]_vars => UNCHANGED route
  BY DEF Next, Call, Protecting, Acquire, Retry, GiveUp, AttemptFails, Undo, Watch, Release, Bidding, Read, Throws,
         Write, Exec, Fail, Tick, ItemExpires, vars

\* A request about to write has nobody else about to write, except others
\* that watch, on other connections.
LEMMA WriterAlone ==
  ASSUME VariantsInv, NEW r \in Requests, NEW s \in Requests, s # r, pc[r] = "write", Using(s)
  PROVE  route[r] = "watch" /\ route[s] = "watch" /\ Conn[r] # Conn[s]
<1>1. KeptApart(r, s)
  BY DEF VariantsInv, UsersApart, Using
<1>2. ~(route[r] = "redlock" /\ route[s] = "redlock")
  <2>1. route[r] = "redlock" /\ route[s] = "redlock" => Inside(r) /\ Inside(s)
    BY DEF Inside, Using
  <2>2. QED
    BY <2>1 DEF VariantsInv, InsideOwns
<1>3. QED
  BY <1>1, <1>2 DEF KeptApart

\* The invariant through a step that writes nothing and lets nobody in.
LEMMA StepAside ==
  ASSUME VariantsInv, [Next]_vars, NEW r \in Requests,
         \A s \in Requests : s # r => pc'[s] = pc[s] /\ seen'[s] = seen[s],
         pc'[r] \in {"lock", "undo", "watch", "done", "failed"} \/ (pc'[r] = "read" /\ route[r] # "watch" /\ ~Using(r)),
         pc'[r] = "done" => r \in placed \/ route[r] = "watch",
         r \in placed => pc[r] # "read" /\ pc'[r] \in {"done", "failed"},
         UNCHANGED <<item, placed, watched, dirty>>,
         OnRoute', InsideOwns'
  PROVE  VariantsInv'
<1>1. TypeOK' /\ route' = route
  BY VariantsTypes, RoutesStay DEF VariantsInv
<1>2. ASSUME NEW s \in Requests, Using(s)'
      PROVE  s # r /\ Using(s)
  BY <1>1, <1>2 DEF Using
<1>3. UsingWatches' /\ UsersApart'
  BY <1>1, <1>2 DEF VariantsInv, UsingWatches, UsersApart, KeptApart
<1>4. SeenIsCurrent'
  BY <1>1 DEF VariantsInv, SeenIsCurrent
<1>5. PlacedOnce'
  BY <1>1 DEF VariantsInv, PlacedOnce, TypeOK
<1>6. QED
  BY <1>1, <1>3, <1>4, <1>5 DEF VariantsInv

\* Locks and WATCHes are taken on their routes.
LEMMA OnRouteKept ==
  ASSUME TypeOK, OnRoute, [Next]_vars
  PROVE  OnRoute'
<1> USE DEF TypeOK, OnRoute
<1>1. route' = route
  BY RoutesStay
<1>2. ASSUME NEW r \in Requests, Call(r) \/ Protecting(r) \/ Bidding(r) \/ Fail(r)
      PROVE  OnRoute'
  <2>1. \A s \in Requests : s # r => pc'[s] = pc[s]
    BY <1>2, OthersMove
  <2>2. /\ pc'[r] \in {"lock", "undo", "release"} => route[r] = "redlock"
        /\ pc'[r] = "watch" => route[r] = "watch"
    <3>1. CASE Call(r)
      BY <3>1 DEF Call, Routes
    <3>2. CASE Protecting(r)
      BY <3>2 DEF Protecting, Acquire, Retry, GiveUp, AttemptFails, Undo, Watch, Release
    <3>3. CASE Bidding(r)
      BY <3>3 DEF Bidding, Read, Throws, Write, Exec, Routes
    <3>4. CASE Fail(r)
      BY <3>4 DEF Fail
    <3>5. QED
      BY <1>2, <3>1, <3>2, <3>3, <3>4
  <2>3. QED
    BY <1>1, <2>1, <2>2
<1>3. CASE Tick \/ ItemExpires \/ UNCHANGED vars
  BY <1>1, <1>3 DEF Tick, ItemExpires, vars
<1>4. QED
  BY <1>2, <1>3 DEF Next

\* A request that starts to rely on what it reads, or on its WATCH, does so
\* apart from the others.
LEMMA UserComes ==
  ASSUME ~MayOverlap, VariantsInv, NEW r \in Requests, MayUse(r), route' = route,
         \A s \in Requests : s # r => pc'[s] = pc[s]
  PROVE  UsersApart'
<1> SUFFICES ASSUME NEW s \in Requests, NEW t \in Requests, s # t, Using(s)', Using(t)'
             PROVE  KeptApart(s, t)'
  BY DEF UsersApart
<1>1. \A x \in Requests : x # r /\ Using(x)' => Using(x) /\ KeptApart(r, x) /\ KeptApart(x, r)
  BY DEF Using, MayUse, KeptApart
<1>2. s # r /\ t # r => KeptApart(s, t)
  BY <1>1 DEF VariantsInv, UsersApart
<1>3. QED
  BY <1>1, <1>2 DEF KeptApart

\* The invariant while a bid is called and protected, where nothing overlaps
\* unprotected and no lock is used past its TTL.
LEMMA ProtectingKept ==
  ASSUME ~MayOverlap, ~MayOverrun, VariantsInv, NEW r \in Requests, Call(r) \/ Protecting(r)
  PROVE  VariantsInv'
<1> USE BidVariantsAssumption
<1>1. /\ [Next]_vars /\ TypeOK' /\ route' = route /\ OnRoute' /\ TypeOK /\ OnRoute
      /\ \A s \in Requests : s # r => pc'[s] = pc[s] /\ seen'[s] = seen[s]
  BY VariantsTypes, RoutesStay, OnRouteKept, OthersMove DEF Next, VariantsInv
<1>2. r \in placed => pc[r] \in {"release", "done", "failed"}
  BY DEF VariantsInv, PlacedOnce
<1>3. CASE Call(r)
  <2>1. InsideOwns'
    BY <1>1, <1>3 DEF Call, VariantsInv, InsideOwns, Inside, TypeOK, lockVars
  <2>2. pc'[r] \in {"lock", "watch"} \/ (pc'[r] = "read" /\ route[r] # "watch" /\ ~Using(r))
    BY <1>1, <1>3 DEF Call, Using, Routes, TypeOK
  <2>3. r \notin placed /\ UNCHANGED <<item, placed, watched, dirty>>
    BY <1>2, <1>3 DEF Call, itemVars, connVars
  <2>4. QED
    BY <1>1, <2>1, <2>2, <2>3, StepAside
<1>4. CASE Acquire(r)
  <2>1. \A s \in Requests : ~Inside(s)
    BY <1>4 DEF Acquire, LockIsFree, VariantsInv, InsideOwns
  <2>2. InsideOwns'
    BY <1>1, <1>4, <2>1 DEF Acquire, Take, InsideOwns, Inside
  <2>3. /\ r \notin placed /\ UNCHANGED <<item, placed, watched, dirty>>
        /\ pc'[r] = "read" /\ ~Using(r) /\ route[r] = "redlock"
    BY <1>1, <1>2, <1>4 DEF Acquire, OnRoute, itemVars, connVars, Using, TypeOK
  <2>4. QED
    BY <1>1, <2>2, <2>3, StepAside
<1>5. CASE Retry(r) \/ GiveUp(r) \/ Undo(r)
  <2>1. ~Inside(r)' /\ \A s \in Requests \ {r} : Inside(s)' <=> Inside(s)
    BY <1>1, <1>5 DEF Retry, GiveUp, Undo, AttemptFails, Inside, TypeOK
  <2>2. InsideOwns'
    BY <1>5, <2>1
       DEF Retry, GiveUp, Undo, AttemptFails, LockIsFree, lockVars, VariantsInv, InsideOwns
  <2>3. /\ r \notin placed /\ UNCHANGED <<item, placed, watched, dirty>>
        /\ pc'[r] \in {"lock", "undo", "failed"}
    BY <1>1, <1>2, <1>5 DEF Retry, GiveUp, Undo, AttemptFails, itemVars, connVars, TypeOK
  <2>4. QED
    BY <1>1, <2>2, <2>3, StepAside
<1>6. CASE Watch(r)
  <2>1. /\ pc[r] = "watch" /\ pc'[r] = "read" /\ route[r] = "watch"
        /\ watched' = watched \cup {Conn[r]}
        /\ UNCHANGED <<item, placed, seen, lockOwner, dirty>>
    BY <1>1, <1>6 DEF Watch, Watching, OnRoute, itemVars, lockVars, TypeOK
  <2>2. InsideOwns'
    BY <1>1, <2>1 DEF VariantsInv, InsideOwns, Inside
  <2>3. UsersApart'
    BY <1>1, <1>6, UserComes DEF Watch
  <2>4. UsingWatches'
    BY <1>1, <2>1 DEF VariantsInv, UsingWatches, Using
  <2>5. SeenIsCurrent' /\ PlacedOnce'
    BY <1>1, <2>1 DEF VariantsInv, SeenIsCurrent, PlacedOnce, TypeOK
  <2>6. QED
    BY <1>1, <2>2, <2>3, <2>4, <2>5 DEF VariantsInv
<1>7. CASE Release(r)
  <2>1. InsideOwns'
    BY <1>1, <1>7 DEF Release, VariantsInv, InsideOwns, Inside, TypeOK, lockVars
  <2>2. /\ r \in placed \/ route[r] = "watch"
        /\ UNCHANGED <<item, placed, watched, dirty>>
        /\ pc'[r] \in {"done", "failed"} /\ pc[r] = "release"
    BY <1>7 DEF Release, VariantsInv, PlacedOnce, TypeOK, itemVars, connVars
  <2>3. QED
    BY <1>1, <2>1, <2>2, StepAside
<1>8. QED
  BY <1>3, <1>4, <1>5, <1>6, <1>7 DEF Protecting

\* The invariant while a bid is checked and written.
LEMMA BiddingKept ==
  ASSUME ~MayOverlap, ~MayOverrun, VariantsInv, NEW r \in Requests, Bidding(r) \/ Fail(r)
  PROVE  VariantsInv'
<1> USE BidVariantsAssumption
<1>1. /\ [Next]_vars /\ TypeOK' /\ route' = route /\ OnRoute' /\ TypeOK /\ OnRoute
      /\ \A s \in Requests : s # r => pc'[s] = pc[s] /\ seen'[s] = seen[s]
  BY VariantsTypes, RoutesStay, OnRouteKept, OthersMove DEF Next, VariantsInv
<1>2. r \in placed => pc[r] \in {"release", "done", "failed"}
  BY DEF VariantsInv, PlacedOnce
<1>3. InsideOwns'
  <2>1. UNCHANGED lockOwner
    BY DEF Bidding, Read, Throws, Write, Exec, Fail, lockVars
  <2>2. pc'[r] \in {"read", "write", "release"} => pc[r] \in {"read", "write"}
    BY <1>1 DEF Bidding, Read, Throws, Write, Exec, Fail, TypeOK
  <2>3. QED
    BY <1>1, <2>1, <2>2 DEF VariantsInv, InsideOwns, Inside
<1>4. CASE Throws(r) \/ Fail(r)
  <2>1. /\ UNCHANGED <<item, placed, watched, dirty>> /\ pc'[r] = "failed" /\ pc[r] # "done"
        /\ r \in placed => pc[r] # "read"
    BY <1>1, <1>2, <1>4 DEF Throws, Fail, TypeOK, itemVars, connVars
  <2>2. QED
    BY <1>1, <1>3, <2>1, StepAside
<1>5. CASE Read(r)
  <2>1. /\ pc[r] = "read" /\ pc'[r] = "write" /\ seen'[r] = item /\ item.price < Price[r]
        /\ UNCHANGED <<item, placed, watched, dirty>>
    BY <1>1, <1>5 DEF Read, Accepts, itemVars, connVars, TypeOK
  <2>2. UsersApart'
    BY <1>1, <1>5, UserComes DEF Read
  <2>3. UsingWatches'
    BY <1>1, <2>1 DEF VariantsInv, UsingWatches, Using
  <2>4. SeenIsCurrent'
    <3>1. item.price \in Nat /\ Price[r] \in Nat
      BY <1>1 DEF TypeOK, Auction!Item, Auction!AuctionConstants
    <3>2. Price[r] > seen'[r].price
      BY <2>1, <3>1
    <3>3. QED
      BY <1>1, <2>1, <3>2 DEF VariantsInv, SeenIsCurrent
  <2>5. PlacedOnce'
    BY <1>1, <2>1 DEF VariantsInv, PlacedOnce, TypeOK
  <2>6. QED
    BY <1>1, <1>3, <2>2, <2>3, <2>4, <2>5 DEF VariantsInv
<1>6. CASE Write(r) \/ Exec(r)
  <2>1. /\ pc[r] = "write" /\ pc'[r] \in {"release", "done", "failed"}
        /\ placed' \in {placed, placed \cup {r}}
        /\ pc'[r] \in {"release", "done"} => r \in placed' \/ route[r] = "watch"
    BY <1>1, <1>6 DEF Write, Exec, Place, TypeOK, itemVars
  <2>2. \A s \in Requests : Using(s)' => s # r /\ Using(s)
    BY <1>1, <2>1 DEF Using
  <2>3. \A s \in Requests : Using(s)' => route[r] = "watch" /\ route[s] = "watch" /\ Conn[r] # Conn[s]
    BY <2>1, <2>2, WriterAlone
  <2>4. watched \ {Conn[r]} \subseteq watched'
    BY <1>6 DEF Write, Exec
  <2>5. UsersApart' /\ UsingWatches'
    BY <1>1, <2>2, <2>3, <2>4 DEF VariantsInv, UsersApart, UsingWatches, KeptApart
  <2>6. PlacedOnce'
    BY <1>1, <2>1 DEF VariantsInv, PlacedOnce, TypeOK
  <2>7. SeenIsCurrent'
    <3> SUFFICES ASSUME NEW s \in Requests, pc'[s] = "write"
                 PROVE  /\ Price[s] > seen'[s].price
                        /\ seen'[s] = item' \/ (route'[s] = "watch" /\ Conn[s] \in dirty')
      BY DEF SeenIsCurrent
    <3>1. /\ s # r /\ pc[s] = "write" /\ seen'[s] = seen[s]
          /\ route[r] = "watch" /\ route[s] = "watch" /\ Conn[r] # Conn[s]
      BY <1>1, <2>1, <2>3 DEF Using
    <3>2. Exec(r)
      BY <1>6, <3>1 DEF Write
    <3>3. /\ Price[s] > seen[s].price /\ Conn[s] \in watched
          /\ seen[s] = item \/ Conn[s] \in dirty
      BY <3>1 DEF VariantsInv, SeenIsCurrent, UsingWatches, Using
    <3>4. CASE Aborts(Conn[r])
      BY <1>1, <3>1, <3>2, <3>3, <3>4 DEF Exec, itemVars
    <3>5. CASE ~Aborts(Conn[r])
      BY <1>1, <3>1, <3>2, <3>3, <3>5 DEF Exec
    <3>6. QED
      BY <3>4, <3>5
  <2>8. QED
    BY <1>1, <1>3, <2>5, <2>6, <2>7 DEF VariantsInv
<1>7. QED
  BY <1>4, <1>5, <1>6 DEF Bidding

\* Every step keeps the invariant.
LEMMA VariantsInvStep ==
  ASSUME ~MayOverlap, ~MayOverrun
  PROVE  VariantsInv /\ [Next]_vars => VariantsInv'
<1> SUFFICES ASSUME VariantsInv, [Next]_vars
             PROVE  VariantsInv'
  OBVIOUS
<1>1. TypeOK' /\ route' = route /\ OnRoute'
  BY VariantsTypes, RoutesStay, OnRouteKept DEF VariantsInv
<1>2. CASE Tick
  <2>1. /\ UNCHANGED <<itemVars, pc, seen, connVars>>
        /\ lockOwner' = lockOwner \/ ~Inside(lockOwner)
    BY <1>2 DEF Tick, MayPass
  <2>2. InsideOwns'
    BY <1>1, <2>1 DEF VariantsInv, InsideOwns, Inside
  <2>3. QED
    BY <1>1, <2>1, <2>2
       DEF VariantsInv, UsingWatches, UsersApart, KeptApart, SeenIsCurrent, PlacedOnce, Using,
           itemVars, connVars
<1>3. CASE ItemExpires
  <2>1. UNCHANGED <<item, placed, pc, seen, lockOwner, watched>> /\ dirty' = watched /\ dirty \subseteq watched
    BY <1>3 DEF ItemExpires, VariantsInv, TypeOK, lockVars
  <2>2. QED
    BY <1>1, <2>1
       DEF VariantsInv, InsideOwns, Inside, UsingWatches, UsersApart, KeptApart, SeenIsCurrent,
           PlacedOnce, Using
<1>4. CASE UNCHANGED vars
  BY <1>1, <1>4
     DEF VariantsInv, InsideOwns, Inside, UsingWatches, UsersApart, KeptApart, SeenIsCurrent,
         PlacedOnce, Using, vars, itemVars, connVars, lockVars
<1>5. QED
  BY <1>2, <1>3, <1>4, ProtectingKept, BiddingKept DEF Next

-----------------------------------------------------------------------------
\* Each step is a bid of the auction, or none.
LEMMA VariantsStepAuction ==
  ASSUME VariantsInv, [Next]_vars
  PROVE  [Auction!AuctionNext]_<<item, placed>>
<1>1. ASSUME NEW r \in Requests, pc[r] = "write", Place(r),
             route[r] # "watch" \/ ~Aborts(Conn[r])
      PROVE  Auction!PlaceBid(r)
  <2>1. seen[r] = item /\ Price[r] > seen[r].price
    BY <1>1 DEF VariantsInv, SeenIsCurrent, Aborts
  <2>2. r \notin placed
    BY <1>1 DEF VariantsInv, PlacedOnce
  <2>3. QED
    BY <1>1, <2>1, <2>2 DEF Place, Auction!PlaceBid
<1>2. ASSUME NEW r \in Requests, Write(r) \/ Exec(r)
      PROVE  Auction!PlaceBid(r) \/ UNCHANGED <<item, placed>>
  BY <1>1, <1>2 DEF Write, Exec, itemVars
<1>3. ASSUME NEW r \in Requests,
             Call(r) \/ Protecting(r) \/ Read(r) \/ Throws(r) \/ Fail(r)
      PROVE  UNCHANGED <<item, placed>>
  BY <1>3 DEF Call, Protecting, Acquire, Retry, GiveUp, AttemptFails, Undo, Watch, Release, Read, Throws, Fail, itemVars
<1>4. CASE Tick \/ ItemExpires \/ UNCHANGED vars
  BY <1>4 DEF Tick, ItemExpires, vars, itemVars
<1>5. QED
  BY <1>2, <1>3, <1>4 DEF Next, Bidding, Auction!AuctionNext

\* The bids that may be under way together, under the lock or under WATCHes
\* of their own, act as bids of the auction.
THEOREM VariantsRefineAuction ==
  ASSUME ~MayOverlap, ~MayOverrun
  PROVE  Spec => RefinesAuction
<1>1. Init => Auction!AuctionInit
  BY DEF Init, Auction!AuctionInit
<1>2. VariantsInv /\ [Next]_vars => [Auction!AuctionNext]_<<item, placed>>
  BY VariantsStepAuction
<1>3. QED
  BY <1>1, <1>2, VariantsInvInit, VariantsInvStep, PTL
     DEF Spec, RefinesAuction, Auction!AuctionSpec, Auction!auctionVars

\* No bid that was written is lost.
THEOREM VariantsLoseNothing ==
  ASSUME ~MayOverlap, ~MayOverrun
  PROVE  Spec => []NothingLost
<1>1. AP!AuctionConstants
  BY BidVariantsAssumption DEF AP!AuctionConstants, Auction!AuctionConstants
<1>2. AP!AuctionSpec => []AP!NothingLost
  BY <1>1, AP!AuctionLosesNothing
<1>3. Auction!AuctionInit => AP!AuctionInit
  BY DEF Auction!AuctionInit, AP!AuctionInit, Auction!NewItem, AP!NewItem
<1>4. [Auction!AuctionNext]_<<item, placed>> => [AP!AuctionNext]_<<item, placed>>
  BY DEF Auction!AuctionNext, AP!AuctionNext, Auction!PlaceBid, AP!PlaceBid,
         Auction!AfterBid, AP!AfterBid
<1>5. AP!NothingLost => NothingLost
  BY DEF AP!NothingLost, NothingLost, Auction!NothingLost, AP!Cardinality, Auction!Cardinality,
         AP!IsFiniteSet, Auction!IsFiniteSet
<1>6. QED
  BY <1>2, <1>3, <1>4, <1>5, VariantsRefineAuction, PTL
     DEF RefinesAuction, Auction!AuctionSpec, Auction!auctionVars,
         AP!AuctionSpec, AP!auctionVars

\* A bid answered with 200 by a route that looks at the result stands: it has
\* been written, and the price has not been below it since.
THEOREM VariantsAnswersStand ==
  ASSUME ~MayOverlap, ~MayOverrun
  PROVE  Spec => []AnsweredStands
<1>1. VariantsInv /\ NothingLost => AnsweredStands
  BY DEF VariantsInv, PlacedOnce, NothingLost, Auction!NothingLost, AnsweredStands
<1>2. QED
  BY <1>1, VariantsInvInit, VariantsInvStep, VariantsLoseNothing, PTL DEF Spec

-----------------------------------------------------------------------------
\* Each step of a bid is a step of the lease, or of none.
LEMMA VariantsStepLease ==
  ASSUME TypeOK, OnRoute, [Next]_vars
  PROVE  [Lease!LeaseNext]_<<lockOwner, {r \in Requests : Inside(r)}>>
<1> DEFINE In == {r \in Requests : Inside(r)}
<1> USE BidVariantsAssumption DEF TypeOK, OnRoute, Inside
<1>1. ASSUME NEW r \in Requests, Call(r) \/ Protecting(r) \/ Bidding(r) \/ Fail(r)
      PROVE  /\ route' = route
             /\ \A s \in Requests \ {r} : s \in In' <=> s \in In
             /\ r \in In' <=> route[r] = "redlock" /\ pc'[r] \in {"read", "write", "release"}
  BY <1>1, RoutesStay, OthersMove DEF Next
<1>2. ASSUME NEW r \in Requests, Acquire(r)
      PROVE  Lease!Grant(r)
  <2>1. In' = In \cup {r}
    BY <1>1, <1>2 DEF Protecting, Acquire
  <2>2. QED
    BY <1>2, <2>1 DEF Acquire, LockIsFree, Take, Lease!Grant
<1>3. ASSUME NEW r \in Requests, Release(r)
      PROVE  Lease!GiveBack(r) \/ Lease!Abandon(r)
  <2>1. r \in In /\ pc'[r] \in {"done", "failed"}
    BY <1>3 DEF Release
  <2>2. In' = In \ {r}
    BY <1>1, <1>3, <2>1 DEF Protecting
  <2>3. QED
    BY <1>3, <2>1, <2>2 DEF Release, lockVars, Lease!GiveBack, Lease!Abandon
<1>4. ASSUME NEW r \in Requests, Retry(r) \/ GiveUp(r) \/ Undo(r)
      PROVE  Lease!Grant(r) \/ Lease!Lapse \/ UNCHANGED <<lockOwner, In>>
  <2>1. r \notin In /\ In' = In
    <3>1. /\ pc[r] \in {"lock", "undo"} /\ pc'[r] \in {"lock", "undo", "failed"}
      BY <1>4 DEF Retry, GiveUp, Undo, AttemptFails
    <3>2. QED
      BY <1>1, <1>4, <3>1 DEF Protecting
  <2>2. CASE Retry(r) \/ GiveUp(r)
    BY <2>1, <2>2
       DEF Retry, GiveUp, AttemptFails, LockIsFree, Take, lockVars, Lease!Grant
  <2>3. CASE Undo(r)
    BY <2>1, <2>3 DEF Undo, lockVars, Lease!Lapse
  <2>4. QED
    BY <1>4, <2>2, <2>3
<1>5. ASSUME NEW r \in Requests, Call(r) \/ Watch(r) \/ Bidding(r) \/ Fail(r)
      PROVE  UNCHANGED <<lockOwner, In>> \/ Lease!Abandon(r)
  <2>1. UNCHANGED lockOwner
    BY <1>5 DEF Call, Watch, Bidding, Read, Throws, Write, Exec, Fail, lockVars
  <2>2. r \in In' => r \in In
    <3>1. CASE Call(r)
      BY <1>1, <3>1 DEF Call
    <3>2. CASE Watch(r)
      BY <1>1, <3>2 DEF Protecting, Watch
    <3>3. CASE Bidding(r) \/ Fail(r)
      BY <1>1, <3>3 DEF Bidding, Read, Throws, Write, Exec, Fail
    <3>4. QED
      BY <1>5, <3>1, <3>2, <3>3
  <2>3. In' = In \/ (r \in In /\ In' = In \ {r})
    BY <1>1, <1>5, <2>2 DEF Protecting
  <2>4. QED
    BY <2>1, <2>3 DEF Lease!Abandon
<1>6. CASE Tick
  <2>1. In' = In
    BY <1>6 DEF Tick
  <2>2. UNCHANGED <<lockOwner, In>> \/ Lease!Lapse
    BY <1>6, <2>1 DEF Tick, MayPass, Lease!Lapse
  <2>3. QED
    BY <2>2 DEF Lease!LeaseNext
<1>7. CASE ItemExpires \/ UNCHANGED vars
  BY <1>7 DEF ItemExpires, vars, lockVars
<1>8. QED
  BY <1>2, <1>3, <1>4, <1>5, <1>6, <1>7 DEF Next, Protecting, Lease!LeaseNext

\* Redlock keeps the promise of a lease for all bids that use it, whatever
\* overlaps and also when a lock ends under its holder.
THEOREM VariantsRefineLease == Spec => RefinesLease
<1>1. Init => TypeOK /\ OnRoute /\ Lease!LeaseInit
  BY VariantsInvInit DEF VariantsInv, Init, Lease!LeaseInit, Inside
<1>2. TypeOK /\ OnRoute /\ [Next]_vars => TypeOK' /\ OnRoute'
  BY VariantsTypes, OnRouteKept
<1>3. TypeOK /\ OnRoute /\ [Next]_vars =>
        [Lease!LeaseNext]_<<lockOwner, {r \in Requests : Inside(r)}>>
  BY VariantsStepLease
<1>4. QED
  BY <1>1, <1>2, <1>3, PTL DEF Spec, RefinesLease, Lease!LeaseSpec, Lease!leaseVars

\* A lease lets one request in at a time, if none ends under its holder: only
\* the holder is inside.
THEOREM VariantsMutualExclusion ==
  ASSUME ~MayOverrun
  PROVE  Spec => []MutualExclusion
<1> DEFINE In == {r \in Requests : Inside(r)}
           OnlyHolder == In \subseteq {lockOwner}
<1>1. Lease!LeaseInit => OnlyHolder
  BY DEF Lease!LeaseInit
<1>2. OnlyHolder /\ [Lease!LeaseNext]_<<lockOwner, In>> => OnlyHolder'
  <2> SUFFICES ASSUME OnlyHolder, [Lease!LeaseNext]_<<lockOwner, In>>
               PROVE  OnlyHolder'
    OBVIOUS
  <2> USE BidVariantsAssumption
  <2>1. CASE Lease!Lapse
    BY <2>1 DEF Lease!Lapse
  <2>2. ASSUME NEW r \in Requests, Lease!Grant(r)
        PROVE  OnlyHolder'
    BY <2>2 DEF Lease!Grant
  <2>3. ASSUME NEW r \in Requests, Lease!Enter(r)
        PROVE  OnlyHolder'
    BY <2>3 DEF Lease!Enter
  <2>4. ASSUME NEW r \in Requests, Lease!GiveBack(r) \/ Lease!Abandon(r)
        PROVE  OnlyHolder'
    BY <2>4 DEF Lease!GiveBack, Lease!Abandon
  <2>5. QED
    BY <2>1, <2>2, <2>3, <2>4 DEF Lease!LeaseNext
<1>3. OnlyHolder => MutualExclusion
  BY DEF MutualExclusion
<1>4. QED
  BY <1>1, <1>2, <1>3, VariantsRefineLease, PTL
     DEF RefinesLease, Lease!LeaseSpec, Lease!leaseVars
=============================================================================
