----------------------------- MODULE CustomLock -----------------------------
(***************************************************************************)
(* RedisService.customLock and customUnlock on one key, with the retry     *)
(* loop of PromiseService.retryOnRejection they run in.                    *)
(*                                                                         *)
(* A request is one call of customLock.  It draws one lockValue and keeps  *)
(* it for all its attempts, so the key's value is modelled by the request  *)
(* that wrote it.  Redis executes one command per step; between two steps  *)
(* any other request may run and time may pass.  Time is kept in relative  *)
(* timers (what is left of a TTL, what has elapsed since the call), so no  *)
(* clock has to be bounded.                                                *)
(***************************************************************************)
EXTENDS Naturals

CONSTANTS
    Requests,      \* the calls of customLock on this key
    Free,          \* the key does not exist
    Ttl,           \* options.ttl: life of the key
    Delay,         \* options.delay: sleep between two attempts
    Timeout,       \* options.timeout: bound on the whole call
    Retries,       \* options.retries
    MayOverrun     \* may a request stay inside after its key has expired?

ASSUME CustomLockAssumption ==
    /\ Free \notin Requests
    /\ Ttl \in Nat \ {0}
    /\ Delay \in Nat
    /\ Timeout \in Nat
    /\ Retries \in Nat
    /\ MayOverrun \in BOOLEAN

VARIABLES
    owner,         \* the request whose lockValue the key holds, or Free
    left,          \* remaining TTL of the key
    pc,            \* where each request is
    elapsed,       \* Date.now() - start of each request, capped at Timeout + 1
    tentative,     \* number of the attempt
    wait,          \* what is left of the sleep between attempts
    late           \* SETs that attempts given up have still queued, per request

lockVars == <<owner, left, pc, elapsed, tentative, wait, late>>

\* options.retries ??= Math.ceil((options.timeout || options.ttl) / options.delay)
DefaultRetries(ttl, delay, timeout) ==
    LET total == IF timeout = 0 THEN ttl ELSE timeout
    IN  (total + delay - 1) \div delay

\* options.timeout ??= options.retries * (options.delay + options.ttl * 0.01)
DefaultTimeout(ttl, delay, retries) == (retries * (100 * delay + ttl)) \div 100

\* `timeout ?` in retryOnRejection: a zero timeout is no timeout.
TimeLimited == Timeout # 0

Trying == {"set", "get", "sleep"}
PcValues == {"idle", "inside", "done", "failed"} \cup Trying
Inside(r) == pc[r] = "inside"

\* What the lock promises, whatever commands it sends to Redis.
Lease == INSTANCE Lease WITH holder <- owner, inside <- {r \in Requests : Inside(r)}

LockInit ==
    /\ owner = Free
    /\ left = 0
    /\ pc = [r \in Requests |-> "idle"]
    /\ elapsed = [r \in Requests |-> 0]
    /\ tentative = [r \in Requests |-> 1]
    /\ wait = [r \in Requests |-> 0]
    /\ late = [r \in Requests |-> 0]

-----------------------------------------------------------------------------
\* Mutants: a SET without NX overwrites another request's value; a SET
\* without PX leaves a key that never expires.
TakeAnyway(r) == owner' = r /\ left' = Ttl
TakeWithoutTtl(r) ==
    IF owner = Free THEN owner' = r /\ left' = 0 ELSE UNCHANGED <<owner, left>>

\* SET lockKey lockValue NX PX ttl
TakeIfFree(r) ==
    IF owner = Free
    THEN owner' = r /\ left' = Ttl
    ELSE UNCHANGED <<owner, left>>

\* customLock is called: the first attempt issues its SET.
Call(r) ==
    /\ pc[r] = "idle"
    /\ pc' = [pc EXCEPT ![r] = "set"]
    /\ UNCHANGED <<owner, left, elapsed, tentative, wait, late>>

\* Redis executes the SET of the current attempt.  Commands of one request
\* reach Redis in the order they were issued: a late SET goes first.
SetNx(r) ==
    /\ pc[r] = "set"
    /\ late[r] = 0
    /\ TakeIfFree(r)
    /\ pc' = [pc EXCEPT ![r] = "get"]
    /\ UNCHANGED <<elapsed, tentative, wait, late>>

\* customLock returns or throws: its local variables are gone.
Settle(r, at) ==
    /\ pc' = [pc EXCEPT ![r] = at]
    /\ elapsed' = [elapsed EXCEPT ![r] = 0]
    /\ tentative' = [tentative EXCEPT ![r] = 1]
    /\ UNCHANGED wait

\* The catch block of retryOnRejection: give up, or sleep and try again.
GivesUp(r) ==
    \/ tentative[r] > Retries
    \/ TimeLimited /\ elapsed[r] > Timeout

AttemptFails(r) ==
    IF GivesUp(r)
    THEN Settle(r, "failed")
    ELSE /\ pc' = [pc EXCEPT ![r] = "sleep"]
         /\ tentative' = [tentative EXCEPT ![r] = @ + 1]
         /\ wait' = [wait EXCEPT ![r] = Delay]
         /\ UNCHANGED elapsed

\* A mutant: any value under the key is taken for the request's own.
GetAny(r) ==
    /\ pc[r] = "get"
    /\ owner # Free
    /\ Settle(r, "inside")
    /\ UNCHANGED <<owner, left, late>>

\* GET lockKey answers the request's own lockValue: the lock is acquired,
\* whichever of its attempts wrote that value.
GetOwn(r) ==
    /\ pc[r] = "get"
    /\ owner = r
    /\ Settle(r, "inside")
    /\ UNCHANGED <<owner, left, late>>

\* GET answers another value, or null: 'Failed to lock key'.
GetOther(r) ==
    /\ pc[r] = "get"
    /\ owner # r
    /\ AttemptFails(r)
    /\ UNCHANGED <<owner, left, late>>

\* A mutant: only the GET of an attempt is raced against the timer.
TimeOutOfGet(r) ==
    /\ pc[r] = "get"
    /\ TimeLimited /\ elapsed[r] >= Timeout
    /\ AttemptFails(r)
    /\ UNCHANGED <<owner, left, late>>

\* resolveOrTimeout gives the attempt up; what it asked of Redis is not
\* called back, so a SET not yet executed is executed later.
TimeOut(r) ==
    /\ pc[r] \in {"set", "get"}
    /\ TimeLimited /\ elapsed[r] >= Timeout
    /\ AttemptFails(r)
    /\ late' = IF pc[r] = "set" THEN [late EXCEPT ![r] = @ + 1] ELSE late
    /\ UNCHANGED <<owner, left>>

LateSet(r) ==
    /\ late[r] > 0
    /\ TakeIfFree(r)
    /\ late' = [late EXCEPT ![r] = @ - 1]
    /\ UNCHANGED <<pc, elapsed, tentative, wait>>

\* The sleep of options.delay is over: the next attempt issues its SET.
Wake(r) ==
    /\ pc[r] = "sleep"
    /\ wait[r] = 0
    /\ pc' = [pc EXCEPT ![r] = "set"]
    /\ UNCHANGED <<owner, left, elapsed, tentative, wait, late>>

\* A mutant: the key is not deleted.
UnlockNothing(r) ==
    /\ Inside(r)
    /\ pc' = [pc EXCEPT ![r] = "done"]
    /\ UNCHANGED <<owner, left, elapsed, tentative, wait, late>>

\* customUnlock: DEL lockKey, whoever's value it holds.
Unlock(r) ==
    /\ Inside(r)
    /\ owner' = Free
    /\ left' = 0
    /\ pc' = [pc EXCEPT ![r] = "done"]
    /\ UNCHANGED <<elapsed, tentative, wait, late>>

\* The holder fails without reaching customUnlock: the key stays.
Abandon(r) ==
    /\ Inside(r)
    /\ pc' = [pc EXCEPT ![r] = "failed"]
    /\ UNCHANGED <<owner, left, elapsed, tentative, wait, late>>

\* One unit of time.  Without MayOverrun, a request that is inside while its
\* key has one unit left leaves before the unit has passed.
MayPass == MayOverrun \/ ~ \E r \in Requests : Inside(r) /\ owner = r /\ left = 1

LockTick ==
    /\ MayPass
    /\ left' = IF left = 0 THEN 0 ELSE left - 1
    /\ owner' = IF left = 1 THEN Free ELSE owner
    /\ elapsed' = [r \in Requests |->
                     IF pc[r] \in Trying /\ elapsed[r] <= Timeout
                     THEN elapsed[r] + 1 ELSE elapsed[r]]
    /\ wait' = [r \in Requests |-> IF wait[r] = 0 THEN 0 ELSE wait[r] - 1]
    /\ UNCHANGED <<pc, tentative, late>>

\* What a request and Redis do on their own, without the critical section.
Attempt(r) ==
    SetNx(r) \/ GetOwn(r) \/ GetOther(r) \/ TimeOut(r) \/ LateSet(r) \/ Wake(r)

LockNext ==
    \/ LockTick
    \/ \E r \in Requests :
          Call(r) \/ Attempt(r) \/ Unlock(r) \/ Abandon(r)

LockSpec == LockInit /\ [][LockNext]_lockVars

-----------------------------------------------------------------------------
\* A key that exists has a TTL left (SET always carries PX), and the
\* counters of the retry loop stay within its options.
LockTypeOK ==
    /\ owner \in Requests \cup {Free}
    /\ left \in 0..Ttl
    /\ (owner = Free) <=> (left = 0)
    /\ pc \in [Requests -> PcValues]
    /\ elapsed \in [Requests -> 0..(Timeout + 1)]
    /\ tentative \in [Requests -> 1..(Retries + 1)]
    /\ wait \in [Requests -> 0..Delay]
    /\ late \in [Requests -> Nat]

\* No two requests are in the critical section of the same key.
MutualExclusion == \A r, s \in Requests : Inside(r) /\ Inside(s) => r = s

\* Why: the request inside is the one whose value the key holds.
HolderOwnsKey == \A r \in Requests : Inside(r) => owner = r

\* A request that has unlocked leaves no key behind, and no SET of a
\* timed-out attempt that would still create one.
NoKeyLeftBehind ==
    \A r \in Requests : pc[r] = "done" => owner # r /\ late[r] = 0

\* With MayOverrun it does not hold, since the DEL of customUnlock ends other
\* leases too.  Otherwise SET, GET and DEL, the retries and the SETs of
\* attempts given up act as a lease: one holder, who alone gives it back.
RefinesLease == Lease!LeaseSpec
=============================================================================
