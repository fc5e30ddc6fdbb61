-------------------------- MODULE CustomLockProofs --------------------------
(***************************************************************************)
(* Mutual exclusion of CustomLock, for any set of requests, any TTL, delay *)
(* timeout and number of retries.                                          *)
(***************************************************************************)
EXTENDS CustomLock, TLAPS

\* The lock's variables keep their types, the timers stay in their ranges,
\* no request makes more than Retries + 1 attempts, and the key has a TTL
\* exactly when it exists (customLock always sets PX).
LEMMA LockTyping == LockSpec => []LockTypeOK
<1> USE CustomLockAssumption DEF LockTypeOK, PcValues, Trying
<1>1. LockInit => LockTypeOK
  BY DEF LockInit
<1>2. LockTypeOK /\ [LockNext]_lockVars => LockTypeOK'
  <2> SUFFICES ASSUME LockTypeOK, [LockNext]_lockVars
               PROVE  LockTypeOK'
    OBVIOUS
  <2>1. CASE LockTick
    BY <2>1 DEF LockTick
  <2>2. ASSUME NEW r \in Requests, Call(r)
        PROVE  LockTypeOK'
    BY <2>2 DEF Call
  <2>3. ASSUME NEW r \in Requests, SetNx(r)
        PROVE  LockTypeOK'
    BY <2>3 DEF SetNx, TakeIfFree
  <2>4. ASSUME NEW r \in Requests, GetOwn(r)
        PROVE  LockTypeOK'
    BY <2>4 DEF GetOwn, Settle
  <2>5. ASSUME NEW r \in Requests, GetOther(r)
        PROVE  LockTypeOK'
    BY <2>5 DEF GetOther, AttemptFails, GivesUp, Settle
  <2>6. ASSUME NEW r \in Requests, TimeOut(r)
        PROVE  LockTypeOK'
    BY <2>6 DEF TimeOut, AttemptFails, GivesUp, Settle
  <2>7. ASSUME NEW r \in Requests, LateSet(r)
        PROVE  LockTypeOK'
    BY <2>7 DEF LateSet, TakeIfFree
  <2>8. ASSUME NEW r \in Requests, Wake(r)
        PROVE  LockTypeOK'
    BY <2>8 DEF Wake
  <2>9. ASSUME NEW r \in Requests, Unlock(r)
        PROVE  LockTypeOK'
    BY <2>9 DEF Unlock
  <2>10. ASSUME NEW r \in Requests, Abandon(r)
         PROVE  LockTypeOK'
    BY <2>10 DEF Abandon
  <2>11. CASE UNCHANGED lockVars
    BY <2>11 DEF lockVars
  <2>12. QED
    BY <2>1, <2>2, <2>3, <2>4, <2>5, <2>6, <2>7, <2>8, <2>9, <2>10, <2>11
       DEF LockNext, Attempt
<1>3. QED
  BY <1>1, <1>2, PTL DEF LockSpec

\* The inductive step: as long as a holder leaves before its key expires,
\* the key keeps the value of the request inside.  Only a DEL, an expiry or a
\* SET on a missing key changes it; the first two need the holder to leave,
\* and the third cannot happen while it is inside.
LEMMA HolderOwnsKeyStep ==
  ASSUME ~MayOverrun, LockTypeOK, HolderOwnsKey, [LockNext]_lockVars
  PROVE  HolderOwnsKey'
<1> USE CustomLockAssumption DEF LockTypeOK, HolderOwnsKey, Inside
<1>1. CASE LockTick
  BY <1>1 DEF LockTick, MayPass
<1>2. ASSUME NEW r \in Requests, Call(r)
      PROVE  HolderOwnsKey'
  BY <1>2 DEF Call
<1>3. ASSUME NEW r \in Requests, SetNx(r)
      PROVE  HolderOwnsKey'
  BY <1>3 DEF SetNx, TakeIfFree
<1>4. ASSUME NEW r \in Requests, GetOwn(r)
      PROVE  HolderOwnsKey'
  BY <1>4 DEF GetOwn, Settle
<1>5. ASSUME NEW r \in Requests, GetOther(r)
      PROVE  HolderOwnsKey'
  BY <1>5 DEF GetOther, AttemptFails, Settle
<1>6. ASSUME NEW r \in Requests, TimeOut(r)
      PROVE  HolderOwnsKey'
  BY <1>6 DEF TimeOut, AttemptFails, Settle
<1>7. ASSUME NEW r \in Requests, LateSet(r)
      PROVE  HolderOwnsKey'
  BY <1>7 DEF LateSet, TakeIfFree
<1>8. ASSUME NEW r \in Requests, Wake(r)
      PROVE  HolderOwnsKey'
  BY <1>8 DEF Wake
<1>9. ASSUME NEW r \in Requests, Unlock(r)
      PROVE  HolderOwnsKey'
  BY <1>9 DEF Unlock
<1>10. ASSUME NEW r \in Requests, Abandon(r)
       PROVE  HolderOwnsKey'
  BY <1>10 DEF Abandon
<1>11. CASE UNCHANGED lockVars
  BY <1>11 DEF lockVars
<1>12. QED
  BY <1>1, <1>2, <1>3, <1>4, <1>5, <1>6, <1>7, <1>8, <1>9, <1>10, <1>11
     DEF LockNext, Attempt

\* If no request stays inside past its TTL, the key holds the value of the
\* request inside.
THEOREM LockHolderOwnsKey ==
  ASSUME ~MayOverrun
  PROVE  LockSpec => []HolderOwnsKey
<1>1. LockInit => HolderOwnsKey
  BY DEF LockInit, HolderOwnsKey, Inside
<1>2. LockTypeOK /\ HolderOwnsKey /\ [LockNext]_lockVars => HolderOwnsKey'
  BY HolderOwnsKeyStep
<1>3. QED
  BY <1>1, <1>2, LockTyping, PTL DEF LockSpec

\* If no request stays inside past its TTL, at most one request is inside.
THEOREM LockMutualExclusion ==
  ASSUME ~MayOverrun
  PROVE  LockSpec => []MutualExclusion
<1>1. HolderOwnsKey => MutualExclusion
  BY DEF HolderOwnsKey, MutualExclusion
<1>2. QED
  BY <1>1, LockHolderOwnsKey, PTL

-----------------------------------------------------------------------------
\* Each command that Redis executes is a step of the lease, or of none.
LEMMA LockStepsLease ==
  ASSUME ~MayOverrun, LockTypeOK, HolderOwnsKey, [LockNext]_lockVars
  PROVE  [Lease!LeaseNext]_<<owner, {r \in Requests : Inside(r)}>>
<1> DEFINE In == {r \in Requests : Inside(r)}
<1> USE CustomLockAssumption DEF LockTypeOK, Inside
<1>1. CASE LockTick
  <2>1. In' = In
    BY <1>1 DEF LockTick
  <2>2. owner' = owner \/ (owner' = Free /\ owner \notin In)
    BY <1>1 DEF LockTick, MayPass
  <2>3. QED
    BY <2>1, <2>2 DEF Lease!LeaseNext, Lease!Lapse
<1>2. ASSUME NEW r \in Requests, Call(r) \/ Wake(r) \/ GetOther(r) \/ TimeOut(r)
      PROVE  UNCHANGED <<owner, In>>
  BY <1>2 DEF Call, Wake, GetOther, TimeOut, AttemptFails, Settle
<1>3. ASSUME NEW r \in Requests, SetNx(r) \/ LateSet(r)
      PROVE  UNCHANGED <<owner, In>> \/ Lease!Grant(r)
  <2>1. In' = In
    BY <1>3 DEF SetNx, LateSet
  <2>2. owner' = owner \/ (owner = Free /\ owner' = r)
    BY <1>3 DEF SetNx, LateSet, TakeIfFree
  <2>3. QED
    BY <2>1, <2>2 DEF Lease!Grant
<1>4. ASSUME NEW r \in Requests, GetOwn(r)
      PROVE  Lease!Enter(r)
  BY <1>4 DEF GetOwn, Settle, Lease!Enter
<1>5. ASSUME NEW r \in Requests, Unlock(r)
      PROVE  Lease!GiveBack(r)
  BY <1>5 DEF Unlock, HolderOwnsKey, Lease!GiveBack
<1>6. ASSUME NEW r \in Requests, Abandon(r)
      PROVE  Lease!Abandon(r)
  BY <1>6 DEF Abandon, Lease!Abandon
<1>7. CASE UNCHANGED lockVars
  BY <1>7 DEF lockVars
<1>8. QED
  BY <1>1, <1>2, <1>3, <1>4, <1>5, <1>6, <1>7 DEF LockNext, Attempt, Lease!LeaseNext

\* If no request stays inside past its TTL, SET with GET, the retries, the
\* SETs of attempts given up and the unconditional DEL act as a lease.
THEOREM LockRefinesLease ==
  ASSUME ~MayOverrun
  PROVE  LockSpec => RefinesLease
<1>1. LockInit => Lease!LeaseInit
  BY DEF LockInit, Lease!LeaseInit, Inside
<1>2. LockTypeOK /\ HolderOwnsKey /\ [LockNext]_lockVars =>
        [Lease!LeaseNext]_<<owner, {r \in Requests : Inside(r)}>>
  BY LockStepsLease
<1>3. QED
  BY <1>1, <1>2, LockTyping, LockHolderOwnsKey, PTL
     DEF LockSpec, RefinesLease, Lease!LeaseSpec, Lease!leaseVars

-----------------------------------------------------------------------------
\* Commands of a request are executed in the order it issued them, so once
\* its GET has been answered no SET of an earlier attempt is outstanding.
LateOnlyWhileTrying ==
    \A r \in Requests : pc[r] \in {"get", "inside", "done"} => late[r] = 0

\* A request that has unlocked leaves no key behind, and no queued SET that
\* would still create one, however long anybody stays inside.
THEOREM LockLeavesNothing == LockSpec => []NoKeyLeftBehind
<1> DEFINE Inv == NoKeyLeftBehind /\ LateOnlyWhileTrying
<1> USE DEF NoKeyLeftBehind, LateOnlyWhileTrying
<1>1. LockInit => Inv
  BY DEF LockInit
<1>2. LockTypeOK /\ Inv /\ [LockNext]_lockVars => Inv'
  <2> SUFFICES ASSUME LockTypeOK, Inv, [LockNext]_lockVars
               PROVE  Inv'
    OBVIOUS
  <2> USE CustomLockAssumption DEF LockTypeOK
  <2>1. CASE LockTick
    BY <2>1 DEF LockTick
  <2>2. ASSUME NEW r \in Requests, SetNx(r) \/ LateSet(r)
        PROVE  Inv'
    BY <2>2 DEF SetNx, LateSet, TakeIfFree
  <2>3. ASSUME NEW r \in Requests, GetOwn(r) \/ GetOther(r) \/ TimeOut(r)
        PROVE  Inv'
    BY <2>3 DEF GetOwn, GetOther, TimeOut, AttemptFails, Settle
  <2>4. ASSUME NEW r \in Requests, Call(r) \/ Wake(r)
        PROVE  Inv'
    BY <2>4 DEF Call, Wake
  <2>5. ASSUME NEW r \in Requests, Unlock(r) \/ Abandon(r)
        PROVE  Inv'
    BY <2>5 DEF Unlock, Abandon, Inside
  <2>6. CASE UNCHANGED lockVars
    BY <2>6 DEF lockVars
  <2>7. QED
    BY <2>1, <2>2, <2>3, <2>4, <2>5, <2>6 DEF LockNext, Attempt
<1>3. QED
  BY <1>1, <1>2, LockTyping, PTL DEF LockSpec
=============================================================================
