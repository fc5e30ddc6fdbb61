-------------------------------- MODULE Lease --------------------------------
(***************************************************************************)
(* What the two locks of RedisService promise on one key, with no command  *)
(* of Redis in sight (customLock with customUnlock, and redlockLock with   *)
(* release): a lease that one request holds at a time, that only its       *)
(* holder gives back, and that otherwise ends by its TTL.                  *)
(***************************************************************************)
CONSTANTS
    Requests,
    Free,          \* nobody holds the lease
    MayOverrun     \* may a lease end under a request that still uses it?

VARIABLES
    holder,        \* whose lease it is
    inside         \* the requests that have been let in and not left

leaseVars == <<holder, inside>>

LeaseInit == holder = Free /\ inside = {}

\* The lease is given to r, who is let in at once or when it asks again.
Grant(r) ==
    /\ holder = Free
    /\ holder' = r
    /\ inside' \in {inside, inside \cup {r}}

Enter(r) ==
    /\ holder = r
    /\ inside' = inside \cup {r}
    /\ UNCHANGED holder

\* r leaves and gives back a lease that is still its own.
GiveBack(r) ==
    /\ r \in inside /\ holder = r
    /\ holder' = Free
    /\ inside' = inside \ {r}

\* r leaves, and the lease is left to its TTL.
Abandon(r) ==
    /\ r \in inside
    /\ inside' = inside \ {r}
    /\ UNCHANGED holder

\* The TTL is over.
Lapse ==
    /\ MayOverrun \/ holder \notin inside
    /\ holder' = Free
    /\ UNCHANGED inside

LeaseNext ==
    \/ Lapse
    \/ \E r \in Requests : Grant(r) \/ Enter(r) \/ GiveBack(r) \/ Abandon(r)

LeaseSpec == LeaseInit /\ [][LeaseNext]_leaseVars
=============================================================================
