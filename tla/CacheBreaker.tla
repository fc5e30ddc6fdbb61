---------------------------- MODULE CacheBreaker ----------------------------
(***************************************************************************)
(* The failure state of CacheService.getCache: the reads of all requests   *)
(* share failureCount and failureStart, each read is raced against a       *)
(* timer, and once too many have failed reads are refused for a while.     *)
(*                                                                         *)
(* getCacheHandler turns every error into null, so that a read fails only  *)
(* by its timer.  A refused or failed read makes CacheInterceptor go on to *)
(* the controller as after a miss.  Times are relative (what has passed    *)
(* since an event) and stop growing where no comparison tells them apart.  *)
(***************************************************************************)
EXTENDS Naturals

CONSTANTS
    Requests,          \* requests that read the cache, again and again
    Undefined,
    Timeout,           \* defaultTimeout
    FailureTtl,        \* failureTtl || 0
    FailureThreshold   \* failureThreshold || 0

ASSUME CacheBreakerAssumption ==
    /\ Timeout \in Nat
    /\ FailureTtl \in Nat
    /\ FailureThreshold \in Nat
    /\ Undefined \notin Nat

VARIABLES
    failureCount,      \* capped: beyond failureThreshold + 1 it no longer matters
    sinceStart,        \* Date.now() - failureStart, or Undefined like it
    pc,                \* what each request is doing
    elapsed,           \* how long its read has lasted
    age,               \* history: how long ago the last reads timed out
    down               \* history: how long the failure state has lasted

vars == <<failureCount, sinceStart, pc, elapsed, age, down>>

MaxCount == FailureThreshold + 1
MaxTime == FailureTtl + 1
\* The reads that make up a failure state, latest first.
Last == 1..FailureThreshold

Init ==
    /\ failureCount = 0
    /\ sinceStart = Undefined
    /\ pc = [q \in Requests |-> "idle"]
    /\ elapsed = [q \in Requests |-> 0]
    /\ age = [k \in Last |-> MaxTime]
    /\ down = Undefined

-----------------------------------------------------------------------------
\* failureStart && Date.now() > failureStart + failureTtl
ResetDue == sinceStart # Undefined /\ sinceStart > FailureTtl

\* A mutant: failureStart survives the reset.
StartKept == sinceStart

\* failureCount and failureStart as getCache goes on with them.
Count == IF ResetDue THEN 0 ELSE failureCount
Start == IF ResetDue THEN Undefined ELSE sinceStart

Offline(count) == count > FailureThreshold

\* A mutant: every failure starts the failure state anew.
FailsAnew(count, start) ==
    /\ failureCount' = IF Offline(count) THEN count ELSE count + 1
    /\ sinceStart' = 0
    /\ down' = IF ~Offline(count) /\ Offline(count + 1) THEN 0 ELSE down

\* The catch block: failureStart ??= Date.now(), failureCount++.
Fails(count, start) ==
    /\ failureCount' = IF Offline(count) THEN count ELSE count + 1
    /\ sinceStart' = IF start = Undefined THEN 0 ELSE start
    /\ down' = IF ~Offline(count) /\ Offline(count + 1) THEN 0 ELSE down

\* getCache lets a read through to Redis.
Read(q) ==
    /\ pc[q] = "idle"
    /\ ~Offline(Count)
    /\ failureCount' = Count
    /\ sinceStart' = Start
    /\ pc' = [pc EXCEPT ![q] = "reading"]
    /\ down' = IF ResetDue THEN Undefined ELSE down
    /\ UNCHANGED <<elapsed, age>>

\* 'cache service is offline', which is a failure too.
Refuse(q) ==
    /\ pc[q] = "idle"
    /\ Offline(Count)
    /\ Fails(Count, Start)
    /\ pc' = [pc EXCEPT ![q] = "refused"]
    /\ UNCHANGED <<elapsed, age>>

\* The refused request has had its answer from the controller.
Recover(q) ==
    /\ pc[q] = "refused"
    /\ pc' = [pc EXCEPT ![q] = "idle"]
    /\ UNCHANGED <<failureCount, sinceStart, elapsed, age, down>>

EndRead(q) ==
    /\ pc[q] = "reading"
    /\ pc' = [pc EXCEPT ![q] = "idle"]
    /\ elapsed' = [elapsed EXCEPT ![q] = 0]

\* Redis answers in time, with a value, null or an error.
Answer(q) == EndRead(q) /\ UNCHANGED <<failureCount, sinceStart, age, down>>

\* The timers of this read and of earlier ones count alike: a read let
\* through before a reset fails after it.
Expire(q) ==
    /\ EndRead(q)
    /\ Fails(failureCount, sinceStart)
    /\ age' = [k \in Last |-> IF k = 1 THEN 0 ELSE age[k - 1]]

\* A mutant: while failures are counted no timer is armed.
TimeOutFirst(q) == elapsed[q] = Timeout /\ sinceStart = Undefined /\ Expire(q)

\* resolveOrTimeout
TimeOut(q) == elapsed[q] = Timeout /\ Expire(q)

\* One unit of time for something that has lasted t, up to bound.
Older(t, bound) == IF t = Undefined \/ t = bound THEN t ELSE t + 1

Tick ==
    /\ sinceStart' = Older(sinceStart, MaxTime)
    /\ down' = Older(down, MaxTime)
    /\ age' = [k \in Last |-> Older(age[k], MaxTime)]
    /\ elapsed' = [q \in Requests |->
                     IF pc[q] = "reading" THEN Older(elapsed[q], Timeout) ELSE 0]
    /\ UNCHANGED <<failureCount, pc>>

Next ==
    \/ Tick
    \/ \E q \in Requests : Read(q) \/ Refuse(q) \/ Recover(q) \/ Answer(q) \/ TimeOut(q)

Spec == Init /\ [][Next]_vars

\* Time passes and the event loop runs expired timers; whether Redis answers
\* and whether requests come is left open.
FairSpec == Spec /\ WF_vars(Tick) /\ \A q \in Requests : WF_vars(TimeOut(q))

-----------------------------------------------------------------------------
\* failureStart is set as long as failures are counted.
TypeOK ==
    /\ failureCount \in 0..MaxCount
    /\ sinceStart \in 0..MaxTime \cup {Undefined}
    /\ sinceStart = Undefined <=> failureCount = 0
    /\ pc \in [Requests -> {"idle", "reading", "refused"}]
    /\ elapsed \in [Requests -> 0..Timeout]
    /\ age \in [Last -> 0..MaxTime]
    /\ down \in 0..MaxTime \cup {Undefined}

\* A read is refused only if failureThreshold reads, the number the options
\* document, have timed out in Redis within the last failureTtl: refusals,
\* which are counted as failures as well, cannot keep the failure state alive,
\* whoever calls and however often.
RefusedOnlyAfterFailures ==
    [][\A q \in Requests :
          pc[q] # "refused" /\ pc'[q] = "refused" => \A k \in Last : age[k] <= FailureTtl]_vars

\* The failure state is over failureTtl after it set in, although reads let
\* through before it go on timing out and refusals go on failing: what is
\* measured from the first failure counted can be shorter, never longer.
RefusalsEnd ==
    [][\A q \in Requests :
          pc[q] # "refused" /\ pc'[q] = "refused"
              => down # Undefined /\ down <= FailureTtl]_vars

\* No request waits for the cache for good, whatever Redis does.
EveryReadEnds == \A q \in Requests : pc[q] = "reading" ~> pc[q] # "reading"

\* Does not hold: no read is let through to Redis while failureThreshold reads
\* have timed out within the last failureTtl.
IgnoredAfterFailures ==
    [][\A q \in Requests :
          pc[q] # "reading" /\ pc'[q] = "reading" => \E k \in Last : age[k] > FailureTtl]_vars
=============================================================================
