------------------------- MODULE CacheBreakerProofs -------------------------
(***************************************************************************)
(* Theorems about CacheBreaker, for any number of requests, any timeout,   *)
(* any threshold and any failureTtl.                                       *)
(***************************************************************************)
EXTENDS CacheBreaker, TLAPS

\* The failures counted are reads that have timed out since failureStart.
FailuresSinceStart ==
    \A k \in Last : k <= failureCount => age[k] <= sinceStart

Inv == TypeOK /\ FailuresSinceStart

\* Nothing has failed at first.
LEMMA InvInit == Init => Inv
  BY CacheBreakerAssumption
     DEF Init, Inv, TypeOK, FailuresSinceStart, Last, MaxCount, MaxTime

\* The reset: what getCache goes on with is consistent as well.
LEMMA AfterReset ==
    ASSUME Inv
    PROVE  /\ Count \in 0..MaxCount
           /\ Start \in 0..MaxTime \cup {Undefined}
           /\ Start = Undefined <=> Count = 0
           /\ Start # Undefined => Start <= FailureTtl
           /\ \A k \in Last : k <= Count => age[k] <= Start
BY CacheBreakerAssumption
   DEF Inv, TypeOK, FailuresSinceStart, Count, Start, ResetDue, Last, MaxCount, MaxTime

\* A timer stays within its bound, and Undefined stays Undefined.
LEMMA OlderTypes ==
    ASSUME NEW bound \in Nat, NEW t \in 0..bound \cup {Undefined}
    PROVE  /\ Older(t, bound) \in 0..bound \cup {Undefined}
           /\ Older(t, bound) = Undefined <=> t = Undefined
           /\ t # Undefined => Older(t, bound) \in 0..bound
BY CacheBreakerAssumption DEF Older

\* Each step of getCache keeps the invariant.
LEMMA InvStep == Inv /\ [Next]_vars => Inv'
<1> SUFFICES ASSUME Inv, [Next]_vars  PROVE Inv'
  OBVIOUS
<1> USE CacheBreakerAssumption
<1>0. MaxCount \in Nat \ {0} /\ MaxTime \in Nat
  BY DEF MaxCount, MaxTime
<1>1. CASE Tick
  <2>1. /\ sinceStart' = Older(sinceStart, MaxTime)
        /\ down' \in 0..MaxTime \cup {Undefined}
        /\ sinceStart' \in 0..MaxTime \cup {Undefined}
        /\ sinceStart' = Undefined <=> sinceStart = Undefined
    BY <1>0, <1>1, OlderTypes DEF Tick, Inv, TypeOK
  <2>2. \A k \in Last : Older(age[k], MaxTime) \in 0..MaxTime
    BY <1>0, OlderTypes DEF Inv, TypeOK
  <2>3. age' \in [Last -> 0..MaxTime]
    BY <1>1, <2>2 DEF Tick
  <2>4. \A q \in Requests : Older(elapsed[q], Timeout) \in 0..Timeout
    BY OlderTypes DEF Inv, TypeOK
  <2>5. elapsed' \in [Requests -> 0..Timeout]
    BY <1>1, <2>4 DEF Tick
  <2>6. ASSUME NEW k \in Last, k <= failureCount'
        PROVE  age'[k] <= sinceStart'
    <3>1. failureCount \in Nat /\ k \in Nat \ {0} /\ sinceStart # Undefined
      BY <1>1, <2>6 DEF Tick, Last, Inv, TypeOK
    <3>2. age[k] <= sinceStart /\ age[k] \in 0..MaxTime /\ sinceStart \in 0..MaxTime
      BY <1>1, <2>6, <3>1 DEF Tick, Inv, TypeOK, FailuresSinceStart
    <3>. QED
      BY <1>0, <1>1, <3>2 DEF Tick, Older
  <2>. QED
    BY <1>1, <2>1, <2>3, <2>5, <2>6 DEF Tick, Inv, TypeOK, FailuresSinceStart
<1>2. ASSUME NEW q \in Requests, Read(q)  PROVE Inv'
  <2>1. down' \in 0..MaxTime \cup {Undefined}
    BY <1>2 DEF Read, Inv, TypeOK
  <2>. QED
    BY <1>2, <2>1, AfterReset DEF Read, Inv, TypeOK, FailuresSinceStart
<1>3. ASSUME NEW q \in Requests, Refuse(q)  PROVE Inv'
  <2>1. Count \in Nat /\ Count > FailureThreshold /\ Start # Undefined
    BY <1>0, <1>3, AfterReset DEF Refuse, Offline
  <2>2. failureCount' = Count /\ sinceStart' = Start /\ down' = down
    BY <1>3, <2>1 DEF Refuse, Fails, Offline
  <2>. QED
    BY <1>3, <2>2, AfterReset DEF Refuse, Inv, TypeOK, FailuresSinceStart
<1>4. ASSUME NEW q \in Requests, Recover(q) \/ Answer(q)  PROVE Inv'
  BY <1>4 DEF Recover, Answer, EndRead, Inv, TypeOK, FailuresSinceStart
<1>5. ASSUME NEW q \in Requests, TimeOut(q)  PROVE Inv'
  <2>1. failureCount \in 0..MaxCount /\ sinceStart \in 0..MaxTime \cup {Undefined}
    BY DEF Inv, TypeOK
  <2>2. failureCount' \in 1..MaxCount /\ failureCount' <= failureCount + 1
    BY <1>0, <1>5, <2>1 DEF TimeOut, Expire, Fails, Offline, MaxCount
  <2>3. sinceStart' \in 0..MaxTime /\ down' \in 0..MaxTime \cup {Undefined}
    BY <1>0, <1>5, <2>1 DEF TimeOut, Expire, Fails, Inv, TypeOK
  <2>4. age' \in [Last -> 0..MaxTime]
    <3>1. \A k \in Last : k # 1 => k - 1 \in Last
      BY <1>0 DEF Last
    <3>. QED
      BY <1>0, <1>5, <3>1 DEF TimeOut, Expire, Inv, TypeOK
  <2>5. ASSUME NEW k \in Last, k <= failureCount'
        PROVE  age'[k] <= sinceStart'
    <3>1. CASE k = 1
      BY <1>5, <2>3, <3>1 DEF TimeOut, Expire, Last
    <3>2. CASE k # 1
      <4>1. k - 1 \in Last /\ k - 1 <= failureCount
        BY <1>0, <2>1, <2>2, <2>5, <3>2 DEF Last
      <4>2. failureCount # 0
        BY <2>1, <4>1, <1>0 DEF Last
      <4>3. age[k - 1] <= sinceStart /\ sinceStart # Undefined
        BY <4>1, <4>2 DEF Inv, TypeOK, FailuresSinceStart
      <4>. QED
        BY <1>5, <3>2, <4>3 DEF TimeOut, Expire, Fails
    <3>. QED
      BY <3>1, <3>2
  <2>6. pc' \in [Requests -> {"idle", "reading", "refused"}] /\ elapsed' \in [Requests -> 0..Timeout]
    BY <1>5 DEF TimeOut, Expire, EndRead, Inv, TypeOK
  <2>7. sinceStart' # Undefined /\ failureCount' # 0 /\ failureCount' \in 0..MaxCount
    BY <1>0, <2>2, <2>3
  <2>. QED
    BY <2>3, <2>4, <2>5, <2>6, <2>7 DEF Inv, TypeOK, FailuresSinceStart
<1>6. CASE UNCHANGED vars
  BY <1>6 DEF vars, Inv, TypeOK, FailuresSinceStart
<1>. QED
  BY <1>1, <1>2, <1>3, <1>4, <1>5, <1>6 DEF Next

\* The counter and the timers stay in their bounds, and failureStart is set
\* exactly while failures are counted.
THEOREM CacheBreakerTyping == Spec => []TypeOK
  BY InvInit, InvStep, PTL DEF Spec, Inv

\* While reads are refused the last failureThreshold time-outs all lie within
\* failureTtl, so that the failure state ends on its own.
THEOREM CacheBreakerRefusals == Spec => RefusedOnlyAfterFailures
<1>1. ASSUME Inv, [Next]_vars, NEW q \in Requests, pc[q] # "refused", pc'[q] = "refused"
      PROVE  \A k \in Last : age[k] <= FailureTtl
  <2>1. Refuse(q)
    BY <1>1 DEF Next, vars, Inv, TypeOK, Tick, Read, Refuse, Recover, Answer, EndRead, TimeOut,
                Expire
  <2>2. Count = MaxCount
    BY <1>1, <2>1, AfterReset, CacheBreakerAssumption DEF Refuse, Offline, MaxCount
  <2>3. Start \in 0..MaxTime /\ Start <= FailureTtl
    BY <1>1, <2>2, AfterReset, CacheBreakerAssumption DEF MaxCount
  <2>4. ASSUME NEW k \in Last  PROVE age[k] <= FailureTtl
    <3>1. k <= Count /\ age[k] \in 0..MaxTime
      BY <1>1, <2>2, CacheBreakerAssumption DEF Last, Inv, TypeOK, MaxCount
    <3>2. age[k] <= Start
      BY <1>1, <3>1, AfterReset
    <3>. QED
      BY <2>3, <3>1, <3>2, CacheBreakerAssumption DEF MaxTime
  <2>. QED
    BY <2>4
<1>2. Inv /\ [Next]_vars =>
        [\A q \in Requests : pc[q] # "refused" /\ pc'[q] = "refused"
            => \A k \in Last : age[k] <= FailureTtl]_vars
  BY <1>1
<1>. QED
  BY <1>2, InvInit, InvStep, PTL DEF Spec, RefusedOnlyAfterFailures

-----------------------------------------------------------------------------
\* The failure state never set in before failureStart was set.
DownSinceStart ==
    Offline(failureCount) => down # Undefined /\ down <= sinceStart

\* Only the failure that crosses the threshold sets `down`, and only a reset
\* clears it; the reset leaves nothing counted.
LEMMA DownStep ==
    ASSUME Inv, DownSinceStart, [Next]_vars
    PROVE  DownSinceStart'
<1> USE CacheBreakerAssumption
<1>0. /\ failureCount \in 0..MaxCount /\ MaxCount = FailureThreshold + 1
      /\ down \in 0..MaxTime \cup {Undefined} /\ MaxTime \in Nat
      /\ sinceStart \in 0..MaxTime \cup {Undefined}
      /\ Offline(failureCount) => sinceStart # Undefined
  BY DEF Inv, TypeOK, MaxCount, MaxTime, Offline
<1>1. CASE Tick
  <2>1. down # Undefined /\ sinceStart # Undefined /\ down <= sinceStart
          => Older(down, MaxTime) # Undefined
             /\ Older(down, MaxTime) <= Older(sinceStart, MaxTime)
    BY <1>0 DEF Older
  <2>. QED
    BY <1>0, <1>1, <2>1 DEF Tick, DownSinceStart, Offline
<1>2. ASSUME NEW q \in Requests, Read(q)  PROVE DownSinceStart'
  BY <1>2 DEF Read, DownSinceStart, Offline
<1>3. ASSUME NEW q \in Requests, Refuse(q)  PROVE DownSinceStart'
  <2>1. ~ResetDue /\ Count = failureCount /\ Start = sinceStart
    BY <1>0, <1>3 DEF Refuse, Offline, Count, Start
  <2>2. failureCount' = failureCount /\ down' = down /\ sinceStart' = sinceStart
    BY <1>0, <1>3, <2>1 DEF Refuse, Fails, Offline
  <2>. QED
    BY <2>2 DEF DownSinceStart, Offline
<1>4. ASSUME NEW q \in Requests, Recover(q) \/ Answer(q)  PROVE DownSinceStart'
  BY <1>4 DEF Recover, Answer, DownSinceStart, Offline
<1>5. ASSUME NEW q \in Requests, TimeOut(q)  PROVE DownSinceStart'
  <2>1. CASE Offline(failureCount)
    BY <1>0, <1>5, <2>1 DEF TimeOut, Expire, Fails, DownSinceStart, Offline
  <2>2. CASE ~Offline(failureCount)
    BY <1>0, <1>5, <2>2 DEF TimeOut, Expire, Fails, DownSinceStart, Offline
  <2>. QED
    BY <2>1, <2>2
<1>6. CASE UNCHANGED vars
  BY <1>6 DEF vars, DownSinceStart, Offline
<1>. QED
  BY <1>1, <1>2, <1>3, <1>4, <1>5, <1>6 DEF Next

\* A refusal means that reads are offline, and that no reset is due.
LEMMA RefusedOffline ==
    ASSUME Inv, [Next]_vars, NEW q \in Requests, pc[q] # "refused", pc'[q] = "refused"
    PROVE  /\ Offline(failureCount)
           /\ sinceStart # Undefined /\ sinceStart <= FailureTtl
<1>1. Refuse(q)
  BY DEF Next, vars, Inv, TypeOK, Tick, Read, Refuse, Recover, Answer, EndRead, TimeOut, Expire
<1>. QED
  BY <1>1, CacheBreakerAssumption
     DEF Refuse, Offline, Count, ResetDue, Inv, TypeOK, MaxTime, MaxCount

\* No read is refused later than failureTtl after the failure state set in,
\* whatever times out or is refused meanwhile.
THEOREM CacheBreakerEnds == Spec => RefusalsEnd
<1>1. Init => Inv /\ DownSinceStart
  BY InvInit, CacheBreakerAssumption DEF Init, DownSinceStart, Offline
<1>2. ASSUME Inv, DownSinceStart, [Next]_vars,
             NEW q \in Requests, pc[q] # "refused", pc'[q] = "refused"
      PROVE  down # Undefined /\ down <= FailureTtl
  <2>1. /\ down \in 0..MaxTime \cup {Undefined} /\ sinceStart \in 0..MaxTime \cup {Undefined}
        /\ MaxTime \in Nat /\ FailureTtl \in Nat
    BY <1>2, CacheBreakerAssumption DEF Inv, TypeOK, MaxTime
  <2>2. /\ sinceStart # Undefined /\ sinceStart <= FailureTtl
        /\ down # Undefined /\ down <= sinceStart
    BY <1>2, RefusedOffline DEF DownSinceStart
  <2>. QED
    BY <2>1, <2>2
<1>3. Inv /\ DownSinceStart /\ [Next]_vars =>
        [\A q \in Requests : pc[q] # "refused" /\ pc'[q] = "refused"
            => down # Undefined /\ down <= FailureTtl]_vars
  BY <1>2
<1>. QED
  BY <1>1, <1>3, InvStep, DownStep, PTL DEF Spec, RefusalsEnd

=============================================================================
