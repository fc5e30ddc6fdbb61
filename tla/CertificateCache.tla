-------------------------- MODULE CertificateCache --------------------------
(***************************************************************************)
(* The certificate routes and the cache in front of them.  The certificates *)
(* found by GET /certificates and GET /certificates/own are kept in Redis   *)
(* under three kinds of keys:                                              *)
(*   bucket    cache:bucket:<bucket>, a set with the data key of its route; *)
(*   list      the data key, a set of buffer keys;                         *)
(*   buffer    <data key>/<index>#buffer, one file each.                   *)
(* With uniqueSuffix 'same' the bucket is also what tells the data keys of  *)
(* one route apart, so all three are indexed by it.  Requests that differ   *)
(* in host or query have data keys of their own, which share the bucket;    *)
(* one of them is modelled.                                                *)
(*                                                                         *)
(* Filling and invalidating run on after the answer.  A step is what is     *)
(* sent at once between two awaits; the steps of different requests come in *)
(* any order, as they do when several processes share one Redis.           *)
(***************************************************************************)
EXTENDS Naturals, Sequences, FiniteSets, Functions

CONSTANTS
    Requests,
    Users,
    Admins,            \* the users with the role ADMIN
    All,               \* the bucket all-certificates
    Certs,             \* ids of certificates, never given twice
    Owner,             \* userId of each certificate
    Nil,               \* a buffer key that does not exist
    Clearable,         \* the lists of buckets a client asks to clear
    MayFail,           \* may commands of a fill or of an invalidation fail?
    BucketMayGoFirst   \* may a bucket expire before the list it names?

Slots == 1..Cardinality(Certs)
Buckets == Users \cup {All}

ASSUME CertificateCacheAssumption ==
    /\ IsFiniteSet(Certs)
    /\ Admins \subseteq Users
    /\ All \notin Users
    /\ Owner \in [Certs -> Users]
    /\ Nil \notin Certs
    /\ Clearable \subseteq Seq(Buckets) \ {<<>>}
    /\ MayFail \in BOOLEAN /\ BucketMayGoFirst \in BOOLEAN

VARIABLES
    cert,          \* the table Certificate: "none" yet, "live" or "gone"
    bucket,        \* is the data key in the set of the bucket?
    list,          \* the buffer keys in the set of the data key
    buffer,        \* the file under each buffer key
    listTtl,       \* has the data key a TTL?
    pc,            \* what a request does next
    user,          \* of a read: the user who sent it
    kind,          \* "own" or "all" for a read, "json" or "buffers" for an invalidation
    hand,          \* the buffer keys an SMEMBERS has returned
    files,         \* of a read: the files of its answer
    fresh,         \* of a fill: has its SADD made the list longer?
    left,          \* of an invalidation: the buckets it has still to do
    tied,          \* of an invalidation: was the data key in the bucket?
    quiet,         \* history: <<bucket, certificate>> deleted with no one else at it
    failed         \* history: buckets at which a command failed or a TTL came early

redisVars == <<bucket, list, buffer, listTtl>>
localVars == <<user, kind, hand, files, fresh, left, tied>>
historyVars == <<quiet, failed>>
vars == <<cert, redisVars, pc, localVars, historyVars>>

File == Certs \cup {Nil}

\* A mutant: the bucket of the own certificates without the user's id.
BucketOfRoute(u, t) == IF t = "own" THEN CHOOSE x \in Users : TRUE ELSE All

\* The bucket of a route, which also tells its data key.
BucketOf(u, t) == IF t = "own" THEN u ELSE All

\* The bucket of a read.
At(r) == BucketOf(user[r], kind[r])

Saving == {"expire", "save"}
Filling(r, b) == pc[r] \in {"store"} \cup Saving /\ At(r) = b
Invalidating(r, b) == pc[r] \in {"invalidate", "drop", "empty"} /\ b \in Range(left[r])

Init ==
    /\ cert \in [Certs -> {"none", "live"}]
    /\ bucket = [b \in Buckets |-> FALSE]
    /\ list = [b \in Buckets |-> {}]
    /\ buffer = [b \in Buckets |-> [i \in Slots |-> Nil]]
    /\ listTtl = [b \in Buckets |-> FALSE]
    /\ pc = [r \in Requests |-> "idle"]
    /\ user = [r \in Requests |-> All]
    /\ kind = [r \in Requests |-> "own"]
    /\ hand = [r \in Requests |-> {}]
    /\ files = [r \in Requests |-> <<>>]
    /\ fresh = [r \in Requests |-> FALSE]
    /\ left = [r \in Requests |-> <<>>]
    /\ tied = [r \in Requests |-> FALSE]
    /\ quiet = {} /\ failed = {}

Goto(r, label) == pc' = [pc EXCEPT ![r] = label]

\* The request is over, and forgotten.
Finish(r) ==
    /\ Goto(r, "done")
    /\ user' = [user EXCEPT ![r] = All]
    /\ kind' = [kind EXCEPT ![r] = "own"]
    /\ hand' = [hand EXCEPT ![r] = {}]
    /\ files' = [files EXCEPT ![r] = <<>>]
    /\ fresh' = [fresh EXCEPT ![r] = FALSE]
    /\ left' = [left EXCEPT ![r] = <<>>]
    /\ tied' = [tied EXCEPT ![r] = FALSE]

-----------------------------------------------------------------------------
(* Reading *)

\* Grants of ACGuard: USER may read own certificates, ADMIN all of them.
MayRead(u, t) == t = "own" \/ u \in Admins

\* getCache.  getBuffers starts with the buffer keys; none of them, a
\* time-out, an error and the failure state all make a miss.
Read(r, u, t) ==
    /\ pc[r] = "idle" /\ MayRead(u, t)
    /\ user' = [user EXCEPT ![r] = u]
    /\ kind' = [kind EXCEPT ![r] = t]
    /\ LET keys == list[BucketOf(u, t)] IN
       /\ hand' = [hand EXCEPT ![r] = keys]
       /\ \/ keys # {} /\ Goto(r, "fetch")
          \/ Goto(r, "query")
    /\ UNCHANGED <<cert, redisVars, files, fresh, left, tied, historyVars>>

\* What the buffers of these keys hold, null for one that is not there.
Answer(r) == {buffer[At(r)][i] : i \in hand[r]}

\* Any array of buffers is a hit, whatever is in it.
Fetch(r) ==
    /\ pc[r] = "fetch"
    /\ Finish(r)
    /\ UNCHANGED <<cert, redisVars, historyVars>>

\* The time-out comes before the buffers: a miss.
FetchFails(r) ==
    /\ pc[r] = "fetch"
    /\ Goto(r, "query")
    /\ UNCHANGED <<cert, redisVars, localVars, historyVars>>

\* A mutant: those deleted are found too.
FoundEver(u, t) == {c \in Certs : cert[c] # "none" /\ (t = "own" => Owner[c] = u)}

\* findAllCertificates and findAllCertificatesByUserId.
Found(u, t) == {c \in Certs : cert[c] = "live" /\ (t = "own" => Owner[c] = u)}

\* A mutant: buffer keys are counted from 0.
ListingsFrom0(S) == {f \in [0..Cardinality(S) - 1 -> S] : IsInjective(f)}

\* The rows of S in some order.
Listings(S) == {f \in [1..Cardinality(S) -> S] : IsInjective(f)}

Query(r) ==
    /\ pc[r] = "query"
    /\ \E f \in Listings(Found(user[r], kind[r])) : files' = [files EXCEPT ![r] = f]
    /\ hand' = [hand EXCEPT ![r] = {}]
    /\ Goto(r, "store")
    /\ UNCHANGED <<cert, redisVars, user, kind, fresh, left, tied, historyVars>>

-----------------------------------------------------------------------------
(* Filling *)

\* A mutant: no EXPIRE.
AfterSaddOnly(isNew) == "save"

\* sadd: EXPIRE is sent only if the SADD has added something.
AfterSadd(isNew) == IF isNew THEN "expire" ELSE "save"

\* tryToSaveAsBuffer: setBuckets and setCacheForArrayOfBuffers send their
\* SADDs.  A key keeps the TTL it has.  When the SADD on the bucket fails, the
\* list is stored all the same.
Store(r) ==
    /\ pc[r] = "store" /\ files[r] # <<>>
    /\ LET b == At(r)
           isNew == ~(DOMAIN files[r] \subseteq list[b])
       IN /\ list' = [list EXCEPT ![b] = @ \cup DOMAIN files[r]]
          /\ fresh' = [fresh EXCEPT ![r] = isNew]
          /\ Goto(r, AfterSadd(isNew))
          /\ \/ bucket' = [bucket EXCEPT ![b] = TRUE] /\ UNCHANGED failed
             \/ MayFail /\ failed' = failed \cup {b} /\ UNCHANGED bucket
    /\ UNCHANGED <<cert, buffer, listTtl, user, kind, hand, files, left, tied, quiet>>

\* null is not a Buffer.
StoreNothing(r) ==
    /\ pc[r] = "store" /\ files[r] = <<>>
    /\ Finish(r)
    /\ UNCHANGED <<cert, redisVars, historyVars>>

\* EXPIRE does nothing to a key that has been deleted since.
ExpireList(r) ==
    /\ pc[r] = "expire"
    /\ listTtl' = [listTtl EXCEPT ![At(r)] = list[At(r)] # {}]
    /\ Goto(r, "save")
    /\ UNCHANGED <<cert, bucket, list, buffer, localVars, historyVars>>

\* One SET with PX for each file, all sent at once; each may fail by itself.
Save(r) ==
    /\ pc[r] = "save"
    /\ \E sent \in SUBSET DOMAIN files[r] :
          /\ buffer' = [buffer EXCEPT ![At(r)] =
                           [i \in Slots |-> IF i \in sent THEN files[r][i] ELSE @[i]]]
          /\ \/ sent = DOMAIN files[r] /\ UNCHANGED failed
             \/ MayFail /\ failed' = failed \cup {At(r)}
    /\ Finish(r)
    /\ UNCHANGED <<cert, bucket, list, listTtl, quiet>>

\* Without the SADD of the list, or its EXPIRE, no file is saved.  The SADD on
\* the bucket goes its own way.
FillFails(r) ==
    /\ MayFail
    /\ \/ pc[r] = "expire" /\ UNCHANGED bucket
       \/ /\ pc[r] = "store" /\ files[r] # <<>>
          /\ \E added \in BOOLEAN : bucket' = [bucket EXCEPT ![At(r)] = @ \/ added]
    /\ failed' = failed \cup {At(r)}
    /\ Finish(r)
    /\ UNCHANGED <<cert, list, buffer, listTtl, quiet>>

-----------------------------------------------------------------------------
(* Changing the certificates *)

\* handleOutputData starts an invalidation of these buckets.
Invalidate(r, buckets) ==
    /\ left' = [left EXCEPT ![r] = buckets]
    /\ Goto(r, "invalidate")

\* POST /certificates/generate by an admin, .../generate/own by anyone.
\* Either clears the bucket of the user who asks.
Generate(r, u, c) ==
    /\ pc[r] = "idle" /\ cert[c] = "none"
    /\ u \in Admins \/ u = Owner[c]
    /\ cert' = [cert EXCEPT ![c] = "live"]
    /\ Invalidate(r, <<u>>)
    /\ kind' = [kind EXCEPT ![r] = "json"]
    /\ UNCHANGED <<redisVars, user, hand, files, fresh, tied, historyVars>>

\* Does nobody else work on the bucket, and does it name its list?
Quiet(b) ==
    /\ \A r \in Requests : ~Filling(r, b) /\ ~Invalidating(r, b)
    /\ list[b] # {} => bucket[b]

\* A mutant: only the owner's bucket.
OwnersBucket(c) == <<Owner[c]>>

\* What the DELETE route invalidates.
BucketsOfDelete(c) == <<Owner[c], All>>

\* DELETE /certificates/:certificateId; 404, and nothing else, when it is not
\* there.
Delete(r, c) ==
    /\ pc[r] = "idle" /\ cert[c] = "live"
    /\ cert' = [cert EXCEPT ![c] = "gone"]
    /\ Invalidate(r, BucketsOfDelete(c))
    /\ kind' = [kind EXCEPT ![r] = "buffers"]
    /\ quiet' = quiet \cup {<<b, c>> : b \in {x \in {Owner[c], All} : Quiet(x)}}
    /\ UNCHANGED <<redisVars, user, hand, files, fresh, tied, failed>>

\* DELETE /bucket/:ids, which asks for no token; the ids are split at commas.
Clear(r, ids) ==
    /\ pc[r] = "idle"
    /\ Invalidate(r, ids)
    /\ kind' = [kind EXCEPT ![r] = "json"]
    /\ UNCHANGED <<cert, redisVars, user, hand, files, fresh, tied, historyVars>>

-----------------------------------------------------------------------------
(* Invalidating *)

\* SMEMBERS of the next bucket.
ReadBucket(r) ==
    /\ pc[r] = "invalidate"
    /\ tied' = [tied EXCEPT ![r] = bucket[Head(left[r])]]
    /\ Goto(r, "drop")
    /\ UNCHANGED <<cert, redisVars, user, kind, hand, files, fresh, left, historyVars>>

NextBucket(r) ==
    IF Len(left[r]) = 1
    THEN Finish(r)
    ELSE /\ left' = [left EXCEPT ![r] = Tail(@)]
         /\ hand' = [hand EXCEPT ![r] = {}]
         /\ Goto(r, "invalidate")
         /\ UNCHANGED <<user, kind, files, fresh, tied>>

\* The DELs of a step are sent at once and each may fail by itself, which only
\* the Promise.all at the end finds out: the invalidation goes on.
Told(b, allDone) ==
    \/ allDone /\ UNCHANGED failed
    \/ MayFail /\ ~allDone /\ failed' = failed \cup {b}

DropBucket(b, done) == bucket' = [bucket EXCEPT ![b] = @ /\ ~done]

DropList(b, done) ==
    IF done
    THEN list' = [list EXCEPT ![b] = {}] /\ listTtl' = [listTtl EXCEPT ![b] = FALSE]
    ELSE UNCHANGED <<list, listTtl>>

\* invalidateBuckets: DEL of the bucket and of the data keys it had.  The
\* buffers stay.
DropAsJson(r) ==
    /\ pc[r] = "drop" /\ kind[r] = "json"
    /\ \E one, two \in BOOLEAN :
          /\ DropBucket(Head(left[r]), one)
          /\ DropList(Head(left[r]), tied[r] /\ two)
          /\ Told(Head(left[r]), one /\ (tied[r] => two))
    /\ NextBucket(r)
    /\ UNCHANGED <<cert, buffer, quiet>>

\* invalidateBucketsWithBuffers: DEL of the bucket, and SMEMBERS of the data
\* key if the bucket had it.
DropWithBuffers(r) ==
    /\ pc[r] = "drop" /\ kind[r] = "buffers"
    /\ \E one \in BOOLEAN : DropBucket(Head(left[r]), one) /\ Told(Head(left[r]), one)
    /\ IF tied[r]
       THEN /\ hand' = [hand EXCEPT ![r] = list[Head(left[r])]]
            /\ Goto(r, "empty")
            /\ UNCHANGED <<user, kind, files, fresh, left, tied>>
       ELSE NextBucket(r)
    /\ UNCHANGED <<cert, list, buffer, listTtl, quiet>>

\* DEL of the data key, whatever is in it by now, and of the buffers that were
\* in it.
DropBuffers(r) ==
    /\ pc[r] = "empty"
    /\ \E one \in BOOLEAN, done \in SUBSET hand[r] :
          /\ DropList(Head(left[r]), one)
          /\ buffer' = [buffer EXCEPT ![Head(left[r])] =
                           [i \in Slots |-> IF i \in done THEN Nil ELSE @[i]]]
          /\ Told(Head(left[r]), one /\ done = hand[r])
    /\ NextBucket(r)
    /\ UNCHANGED <<cert, bucket, quiet>>

\* The rest of the invalidation is given up.
InvalidationFails(r) ==
    /\ MayFail /\ pc[r] \in {"invalidate", "drop", "empty"}
    /\ failed' = failed \cup Range(left[r])
    /\ Finish(r)
    /\ UNCHANGED <<cert, redisVars, quiet>>

-----------------------------------------------------------------------------
(* Expiry: at any time, since a fill may be slow.  bucketTtl and defaultTtl *)
(* are both a minute, so that a bucket seldom goes before its list.  For    *)
(* the bucket no TTL is kept: it may go at any time, as if its EXPIRE were  *)
(* never missing.                                                          *)

BucketExpires(b) ==
    /\ bucket[b]
    /\ \/ list[b] = {} /\ UNCHANGED failed
       \/ list[b] # {} /\ BucketMayGoFirst /\ failed' = failed \cup {b}
    /\ bucket' = [bucket EXCEPT ![b] = FALSE]
    /\ UNCHANGED <<cert, list, buffer, listTtl, pc, localVars, quiet>>

ListExpires(b) ==
    /\ list[b] # {} /\ listTtl[b]
    /\ DropList(b, TRUE)
    /\ UNCHANGED <<cert, bucket, buffer, pc, localVars, historyVars>>

BufferExpires(b, i) ==
    /\ buffer[b][i] # Nil
    /\ buffer' = [buffer EXCEPT ![b][i] = Nil]
    /\ UNCHANGED <<cert, bucket, list, listTtl, pc, localVars, historyVars>>

-----------------------------------------------------------------------------
Reading(r) ==
    \/ \E u \in Users, t \in {"own", "all"} : Read(r, u, t)
    \/ Fetch(r)
    \/ FetchFails(r)
    \/ Query(r)

Storing(r) ==
    StoreNothing(r) \/ Store(r) \/ ExpireList(r) \/ Save(r) \/ FillFails(r)

Changing(r) ==
    \/ \E u \in Users, c \in Certs : Generate(r, u, c)
    \/ \E c \in Certs : Delete(r, c)
    \/ \E ids \in Clearable : Clear(r, ids)

Dropping(r) ==
    ReadBucket(r) \/ DropAsJson(r) \/ DropWithBuffers(r) \/ DropBuffers(r) \/ InvalidationFails(r)

Expiring == \E b \in Buckets :
    \/ BucketExpires(b)
    \/ ListExpires(b)
    \/ \E i \in Slots : BufferExpires(b, i)

Next ==
    \/ \E r \in Requests :
          Reading(r) \/ Storing(r) \/ Changing(r) \/ Dropping(r)
    \/ Expiring

Spec == Init /\ [][Next]_vars

-----------------------------------------------------------------------------
\* The variables have their types.
TypeOK ==
    /\ cert \in [Certs -> {"none", "live", "gone"}]
    /\ bucket \in [Buckets -> BOOLEAN]
    /\ list \in [Buckets -> SUBSET Slots]
    /\ buffer \in [Buckets -> [Slots -> File]]
    /\ listTtl \in [Buckets -> BOOLEAN]
    /\ pc \in [Requests -> {"idle", "fetch", "query", "store", "invalidate", "drop", "empty", "done"} \cup Saving]
    /\ user \in [Requests -> Buckets]
    /\ kind \in [Requests -> {"own", "all", "json", "buffers"}]
    /\ hand \in [Requests -> SUBSET Slots]
    /\ files \in [Requests -> UNION {[S -> File] : S \in SUBSET Slots}]
    /\ fresh \in [Requests -> BOOLEAN]
    /\ left \in [Requests -> Seq(Buckets)]
    /\ tied \in [Requests -> BOOLEAN]
    /\ quiet \subseteq Buckets \X Certs
    /\ failed \subseteq Buckets

\* GET own answers with the user's own certificates only, whoever filled the
\* cache, and whatever has been left in it.
OwnOnly ==
    [][\A r \in Requests :
          pc[r] = "fetch" /\ pc'[r] = "done" /\ kind[r] = "own" =>
              \A c \in Answer(r) : c = Nil \/ Owner[c] = user[r]]_vars

\* A data key without TTL stays for good, and with it a hit whose buffers are
\* long gone.  SADD and EXPIRE are two commands, EXPIRE is sent only by the
\* request whose SADD added a key, and invalidations come in between: still,
\* a list without TTL has its EXPIRE on the way.
TtlOnTheWay ==
    \A b \in Buckets \ failed :
        list[b] # {} /\ ~listTtl[b] =>
            \E r \in Requests : pc[r] = "expire" /\ fresh[r] /\ At(r) = b

\* Is a SET of that buffer on the way?
SetOnTheWay(b, i) ==
    \E r \in Requests : pc[r] \in Saving /\ At(r) = b /\ i \in DOMAIN files[r]

\* A certificate deleted while nobody fills or invalidates a bucket is out of
\* the cache of that bucket once the delete has got to it, whatever comes
\* after the delete, except where the buffer is about to be overwritten.
QuietDeleteHolds ==
    \A b \in Buckets \ failed, c \in Certs :
        <<b, c>> \in quiet =>
            \A i \in list[b] :
                buffer[b][i] = c =>
                    \/ SetOnTheWay(b, i)
                    \/ \E r \in Requests : Invalidating(r, b)

\* What is in the cache of that bucket, or on its way there.
Within(b) ==
    Range(buffer[b]) \cup UNION {Range(files[r]) : r \in {q \in Requests : Filling(q, b)}}

InReach(c, b) == c \in Within(b)

\* Also a delete that runs into a fill, or into a failing Redis, is final: once
\* the fills under way are over and the buffers have expired, the certificate
\* is not seen again.
NeverComesBack ==
    [][\A c \in Certs, b \in Buckets :
          cert[c] = "gone" /\ ~InReach(c, b) => ~InReach(c, b)']_vars

shown == [b \in Buckets |-> Certs \cap Within(b)]

\* The cache shows each route a view of the table, however fills, invalidations
\* and expiries run into each other: never rows of another route, and rows that
\* were live when they were read.
View == INSTANCE CertificateView
        WITH Routes <- Buckets, view <- shown

RefinesView == View!ViewSpec

\* Does not hold: with no command failing and no TTL running out early, a list
\* whose fill is over is in its bucket, where an invalidation finds it.
TiedToBucket ==
    \A b \in Buckets :
        list[b] # {} /\ (\A r \in Requests : ~Filling(r, b) /\ ~Invalidating(r, b)) => bucket[b]
=============================================================================
