----------------------- MODULE CertificateCacheProofs -----------------------
(***************************************************************************)
(* What holds of the certificate cache for any number of requests, users   *)
(* and certificates, with failing commands and keys that expire at any      *)
(* time.                                                                   *)
(***************************************************************************)
EXTENDS CertificateCache, FiniteSetTheorems, TLAPS

\* A request that invalidates has a bucket to do.
LeftOK == \A r \in Requests : pc[r] \in {"invalidate", "drop", "empty"} => left[r] # <<>>

TypeInv == TypeOK /\ LeftOK

\* A non-empty sequence of buckets is its head and its tail.
LEMMA HeadAndTail ==
  ASSUME NEW s \in Seq(Buckets), s # <<>>
  PROVE  /\ Head(s) \in Buckets
         /\ Tail(s) \in Seq(Buckets)
         /\ Range(s) = {Head(s)} \cup Range(Tail(s))
         /\ Len(s) = 1 => Range(Tail(s)) = {}
         /\ Len(s) # 1 => Tail(s) # <<>>
<1>1. Len(s) \in Nat /\ Len(s) > 0 /\ DOMAIN s = 1..Len(s)
  OBVIOUS
<1>2. Head(s) = s[1] /\ Tail(s) \in Seq(Buckets) /\ Len(Tail(s)) = Len(s) - 1
  BY <1>1
<1>3. \A i \in 1..Len(s) - 1 : Tail(s)[i] = s[i + 1]
  BY <1>1
<1>4. DOMAIN Tail(s) = 1..Len(s) - 1
  BY <1>1, <1>2
<1>5. Range(s) = {s[i] : i \in 1..Len(s)} /\ Range(Tail(s)) = {s[i + 1] : i \in 1..Len(s) - 1}
  BY <1>1, <1>3, <1>4 DEF Range
<1>6. Range(s) \subseteq {s[1]} \cup Range(Tail(s))
  <2>1. ASSUME NEW i \in 1..Len(s), i # 1
        PROVE  s[i] \in Range(Tail(s))
    <3>1. i - 1 \in 1..Len(s) - 1 /\ s[i] = s[(i - 1) + 1]
      BY <1>1, <2>1
    <3>2. QED
      BY <3>1, <1>5
  <2>2. QED
    BY <2>1, <1>5
<1>7. s[1] \in Range(s) /\ Range(Tail(s)) \subseteq Range(s)
  <2>1. ASSUME NEW i \in 1..Len(s) - 1
        PROVE  s[i + 1] \in Range(s)
    BY <1>1, <1>5
  <2>2. QED
    BY <2>1, <1>1, <1>5
<1>8. s[1] \in Buckets
  BY <1>1
<1>9. Range(s) = {Head(s)} \cup Range(Tail(s))
  BY <1>2, <1>6, <1>7
<1>10. Len(s) = 1 => Range(Tail(s)) = {}
  BY <1>5
<1>11. Len(s) # 1 => Tail(s) # <<>>
  <2>1. Len(<<>>) = 0
    OBVIOUS
  <2>2. Len(s) # 1 => Len(Tail(s)) # 0
    BY <1>1, <1>2
  <2>3. QED
    BY <2>1, <2>2, Zenon
<1>12. Head(s) \in Buckets /\ Tail(s) \in Seq(Buckets)
  BY <1>2, <1>8, Zenon
<1>13. QED
  BY <1>9, <1>10, <1>11, <1>12, Zenon

\* A listing of certificates fits the buffer keys.
LEMMA ListingFits ==
  ASSUME NEW S \in SUBSET Certs, NEW f \in Listings(S)
  PROVE  /\ DOMAIN f \subseteq Slots
         /\ f \in [DOMAIN f -> S]
         /\ f \in UNION {[T -> File] : T \in SUBSET Slots}
<1>1. IsFiniteSet(S) /\ Cardinality(S) <= Cardinality(Certs)
  BY CertificateCacheAssumption, FS_Subset
<1>2. Cardinality(S) \in Nat /\ Cardinality(Certs) \in Nat
  BY <1>1, CertificateCacheAssumption, FS_CardinalityType
<1>3. 1..Cardinality(S) \subseteq Slots /\ f \in [1..Cardinality(S) -> S]
  BY <1>1, <1>2 DEF Slots, Listings
<1>4. f \in [1..Cardinality(S) -> File]
  BY <1>3 DEF File
<1>5. QED
  BY <1>3, <1>4

USE DEF Goto, Saving

\* A request that has found nothing has a file list of the type.
LEMMA EmptyFits == <<>> \in UNION {[S -> File] : S \in SUBSET Slots}
<1>1. <<>> \in [{} -> File] /\ {} \in SUBSET Slots
  OBVIOUS
<1>2. QED
  BY <1>1

\* The types and the buckets left hold at the start.
LEMMA TypeInvInit == Init => TypeInv
<1> SUFFICES ASSUME Init PROVE TypeInv
  OBVIOUS
<1>1. cert \in [Certs -> {"none", "live", "gone"}]
  BY DEF Init
<1>2. buffer \in [Buckets -> [Slots -> File]]
  BY DEF Init, File
<1>3. files \in [Requests -> UNION {[S -> File] : S \in SUBSET Slots}]
  BY EmptyFits DEF Init
<1>4. left \in [Requests -> Seq(Buckets)] /\ LeftOK
  BY DEF Init, LeftOK
<1>5. QED
  BY <1>1, <1>2, <1>3, <1>4 DEF Init, TypeInv, TypeOK, Buckets

\* Finishing a request keeps the types of what it forgets.
LEMMA FinishTypes ==
  ASSUME NEW r \in Requests, TypeInv, Finish(r)
  PROVE  /\ pc' \in [Requests -> {"idle", "fetch", "query", "store", "invalidate", "drop", "empty", "done"} \cup Saving]
         /\ user' \in [Requests -> Buckets]
         /\ kind' \in [Requests -> {"own", "all", "json", "buffers"}]
         /\ hand' \in [Requests -> SUBSET Slots]
         /\ files' \in [Requests -> UNION {[S -> File] : S \in SUBSET Slots}]
         /\ fresh' \in [Requests -> BOOLEAN]
         /\ left' \in [Requests -> Seq(Buckets)]
         /\ tied' \in [Requests -> BOOLEAN]
         /\ LeftOK'
<1> USE DEF TypeInv, TypeOK, Finish
<1>1. files' \in [Requests -> UNION {[S -> File] : S \in SUBSET Slots}]
  BY EmptyFits
<1>2. left' \in [Requests -> Seq(Buckets)] /\ LeftOK'
  BY DEF LeftOK
<1>3. user' \in [Requests -> Buckets] /\ kind' \in [Requests -> {"own", "all", "json", "buffers"}]
  BY DEF Buckets
<1>4. QED
  BY <1>1, <1>2, <1>3

-----------------------------------------------------------------------------
\* Reading and filling keep the types.
LEMMA ReadingTypes ==
  ASSUME TypeInv, NEW r \in Requests, Reading(r)
  PROVE  TypeInv'
<1> USE DEF TypeInv, TypeOK, LeftOK
<1>1. ASSUME NEW u \in Users, NEW t \in {"own", "all"}, Read(r, u, t)
      PROVE  TypeInv'
  <2>1. BucketOf(u, t) \in Buckets /\ u \in Buckets
    BY DEF BucketOf, Buckets
  <2>2. QED
    BY <1>1, <2>1 DEF Read, redisVars, historyVars
<1>2. CASE Fetch(r)
  BY <1>2, FinishTypes DEF Fetch, redisVars, historyVars
<1>3. CASE FetchFails(r)
  BY <1>3 DEF FetchFails, redisVars, localVars, historyVars
<1>4. CASE Query(r)
  <2>1. PICK f \in Listings(Found(user[r], kind[r])) : files' = [files EXCEPT ![r] = f]
    BY <1>4 DEF Query
  <2>2. f \in UNION {[S -> File] : S \in SUBSET Slots}
    <3>1. Found(user[r], kind[r]) \in SUBSET Certs
      BY DEF Found
    <3>2. QED
      BY <3>1, ListingFits
  <2>3. QED
    BY <1>4, <2>1, <2>2 DEF Query, redisVars, historyVars
<1>5. QED
  BY <1>1, <1>2, <1>3, <1>4 DEF Reading

LEMMA StoringTypes ==
  ASSUME TypeInv, NEW r \in Requests, Storing(r)
  PROVE  TypeInv'
<1> USE DEF TypeInv, TypeOK, LeftOK
<1>1. At(r) \in Buckets
  BY DEF At, BucketOf, Buckets
<1>2. DOMAIN files[r] \subseteq Slots /\ \A i \in DOMAIN files[r] : files[r][i] \in File
  <2>1. PICK S \in SUBSET Slots : files[r] \in [S -> File]
    OBVIOUS
  <2>2. QED
    BY <2>1
<1>3. CASE StoreNothing(r)
  BY <1>3, FinishTypes DEF StoreNothing, redisVars, historyVars
<1>4. CASE Store(r)
  BY <1>1, <1>2, <1>4 DEF Store, AfterSadd
<1>5. CASE ExpireList(r)
  BY <1>1, <1>5 DEF ExpireList, localVars, historyVars
<1>6. CASE Save(r)
  <2>1. PICK sent \in SUBSET DOMAIN files[r] :
          /\ buffer' = [buffer EXCEPT ![At(r)] =
                           [i \in Slots |-> IF i \in sent THEN files[r][i] ELSE buffer[At(r)][i]]]
          /\ failed' \in {failed, failed \cup {At(r)}}
    BY <1>6 DEF Save
  <2>2. buffer' \in [Buckets -> [Slots -> File]] /\ failed' \subseteq Buckets
    BY <1>1, <1>2, <2>1
  <2>3. QED
    BY <1>6, <2>2, FinishTypes DEF Save
<1>7. CASE FillFails(r)
  BY <1>1, <1>7, FinishTypes DEF FillFails, redisVars
<1>8. QED
  BY <1>3, <1>4, <1>5, <1>6, <1>7 DEF Storing

\* Changing the certificates and invalidating keep the types.
LEMMA ChangingTypes ==
  ASSUME TypeInv, NEW r \in Requests, Changing(r)
  PROVE  TypeInv'
<1> USE CertificateCacheAssumption DEF TypeInv, TypeOK, LeftOK, Invalidate
<1>1. ASSUME NEW u \in Users, NEW c \in Certs, Generate(r, u, c)
      PROVE  TypeInv'
  <2>1. <<u>> \in Seq(Buckets)
    BY DEF Buckets
  <2>2. QED
    BY <1>1, <2>1 DEF Generate, redisVars, historyVars
<1>2. ASSUME NEW c \in Certs, Delete(r, c)
      PROVE  TypeInv'
  <2>1. BucketsOfDelete(c) \in Seq(Buckets) /\ BucketsOfDelete(c) # <<>>
    BY DEF BucketsOfDelete, Buckets
  <2>2. quiet' \subseteq Buckets \X Certs
    BY <1>2 DEF Delete, Buckets
  <2>3. cert' \in [Certs -> {"none", "live", "gone"}] /\ kind' \in [Requests -> {"own", "all", "json", "buffers"}]
    BY <1>2 DEF Delete
  <2>4. left' \in [Requests -> Seq(Buckets)] /\ LeftOK'
    BY <1>2, <2>1 DEF Delete
  <2>5. pc' \in [Requests -> {"idle", "fetch", "query", "store", "invalidate", "drop", "empty", "done"} \cup Saving]
    BY <1>2 DEF Delete
  <2>6. QED
    BY <1>2, <2>2, <2>3, <2>4, <2>5 DEF Delete, redisVars
<1>3. ASSUME NEW ids \in Clearable, Clear(r, ids)
      PROVE  TypeInv'
  <2>1. ids \in Seq(Buckets) /\ ids # <<>>
    OBVIOUS
  <2>2. left' \in [Requests -> Seq(Buckets)] /\ LeftOK'
    BY <1>3, <2>1 DEF Clear
  <2>3. QED
    BY <1>3, <2>2 DEF Clear, redisVars, historyVars
<1>4. QED
  BY <1>1, <1>2, <1>3 DEF Changing

LEMMA NextBucketTypes ==
  ASSUME NEW r \in Requests, TypeInv, left[r] # <<>>, NextBucket(r)
  PROVE  /\ pc' \in [Requests -> {"idle", "fetch", "query", "store", "invalidate", "drop", "empty", "done"} \cup Saving]
         /\ user' \in [Requests -> Buckets]
         /\ kind' \in [Requests -> {"own", "all", "json", "buffers"}]
         /\ hand' \in [Requests -> SUBSET Slots]
         /\ files' \in [Requests -> UNION {[S -> File] : S \in SUBSET Slots}]
         /\ fresh' \in [Requests -> BOOLEAN]
         /\ left' \in [Requests -> Seq(Buckets)]
         /\ tied' \in [Requests -> BOOLEAN]
         /\ LeftOK'
<1>1. CASE Len(left[r]) = 1
  BY <1>1, FinishTypes DEF NextBucket
<1>2. CASE Len(left[r]) # 1
  <2>1. Tail(left[r]) \in Seq(Buckets) /\ Tail(left[r]) # <<>>
    BY <1>2, HeadAndTail DEF TypeInv, TypeOK
  <2>2. left' \in [Requests -> Seq(Buckets)] /\ LeftOK'
    BY <1>2, <2>1 DEF NextBucket, TypeInv, TypeOK, LeftOK
  <2>3. QED
    BY <1>2, <2>2 DEF NextBucket, TypeInv, TypeOK
<1>3. QED
  BY <1>1, <1>2

LEMMA DroppingTypes ==
  ASSUME TypeInv, NEW r \in Requests, Dropping(r)
  PROVE  TypeInv'
<1> DEFINE b == Head(left[r])
<1>1. left[r] # <<>> /\ b \in Buckets /\ Range(left[r]) \subseteq Buckets
  <2>1. pc[r] \in {"invalidate", "drop", "empty"}
    BY DEF Dropping, ReadBucket, DropAsJson, DropWithBuffers, DropBuffers, InvalidationFails
  <2>2. left[r] # <<>> /\ left[r] \in Seq(Buckets)
    BY <2>1 DEF TypeInv, TypeOK, LeftOK
  <2>3. Range(left[r]) \subseteq Buckets
    BY <2>2 DEF Range
  <2>4. Head(left[r]) \in Buckets
    BY <2>2, HeadAndTail
  <2>5. QED
    BY <2>2, <2>3, <2>4, Zenon
<1> HIDE DEF b
<1>2. CASE ReadBucket(r)
  BY <1>1, <1>2 DEF ReadBucket, TypeInv, TypeOK, LeftOK, redisVars, historyVars, b
<1>3. CASE DropAsJson(r)
  <2>1. NextBucket(r)
    BY <1>3 DEF DropAsJson
  <2>2. bucket' \in [Buckets -> BOOLEAN] /\ failed' \subseteq Buckets
    BY <1>1, <1>3 DEF DropAsJson, DropBucket, Told, TypeInv, TypeOK, b
  <2>3. list' \in [Buckets -> SUBSET Slots] /\ listTtl' \in [Buckets -> BOOLEAN]
    BY <1>1, <1>3 DEF DropAsJson, DropList, TypeInv, TypeOK, b
  <2>4. UNCHANGED <<cert, buffer, quiet>>
    BY <1>3 DEF DropAsJson
  <2>5. QED
    BY <1>1, <2>1, <2>2, <2>3, <2>4, NextBucketTypes DEF TypeInv, TypeOK
<1>4. CASE DropWithBuffers(r)
  <2>1. bucket' \in [Buckets -> BOOLEAN] /\ failed' \subseteq Buckets
    BY <1>1, <1>4 DEF DropWithBuffers, DropBucket, Told, TypeInv, TypeOK, b
  <2>2. UNCHANGED <<cert, list, buffer, listTtl, quiet>>
    BY <1>4 DEF DropWithBuffers
  <2>3. CASE tied[r]
    <3>1. /\ hand' = [hand EXCEPT ![r] = list[b]] /\ pc' = [pc EXCEPT ![r] = "empty"]
          /\ UNCHANGED <<user, kind, files, fresh, left, tied>>
      BY <1>4, <2>3 DEF DropWithBuffers, b
    <3>2. QED
      BY <1>1, <2>1, <2>2, <3>1 DEF TypeInv, TypeOK, LeftOK
  <2>4. CASE ~tied[r]
    <3>1. NextBucket(r)
      BY <1>4, <2>4 DEF DropWithBuffers
    <3>2. QED
      BY <1>1, <2>1, <2>2, <3>1, NextBucketTypes DEF TypeInv, TypeOK
  <2>5. QED
    BY <2>3, <2>4
<1>5. CASE DropBuffers(r)
  <2>1. NextBucket(r) /\ UNCHANGED <<cert, bucket, quiet>>
    BY <1>5 DEF DropBuffers
  <2>2. PICK one \in BOOLEAN, done \in SUBSET hand[r] :
          /\ DropList(b, one)
          /\ buffer' = [buffer EXCEPT ![b] =
                           [i \in Slots |-> IF i \in done THEN Nil ELSE buffer[b][i]]]
          /\ Told(b, one /\ done = hand[r])
    BY <1>5 DEF DropBuffers, b
  <2>3. /\ list' \in [Buckets -> SUBSET Slots] /\ listTtl' \in [Buckets -> BOOLEAN]
        /\ failed' \subseteq Buckets
    BY <1>1, <2>2 DEF DropList, Told, TypeInv, TypeOK
  <2>4. buffer' \in [Buckets -> [Slots -> File]]
    BY <1>1, <2>2 DEF TypeInv, TypeOK, File
  <2>5. QED
    BY <1>1, <2>1, <2>3, <2>4, NextBucketTypes DEF TypeInv, TypeOK
<1>6. CASE InvalidationFails(r)
  BY <1>1, <1>6, FinishTypes DEF InvalidationFails, redisVars, TypeInv, TypeOK
<1>7. QED
  BY <1>2, <1>3, <1>4, <1>5, <1>6 DEF Dropping

\* Types are kept by every step.
LEMMA TypeInvStep == TypeInv /\ [Next]_vars => TypeInv'
<1> SUFFICES ASSUME TypeInv, [Next]_vars
             PROVE  TypeInv'
  OBVIOUS
<1>1. CASE Expiring
  <2> USE <1>1 DEF TypeInv, TypeOK, LeftOK, localVars, historyVars
  <2>1. ASSUME NEW b \in Buckets, BucketExpires(b) \/ ListExpires(b)
        PROVE  TypeInv'
    <3>1. bucket' \in [Buckets -> BOOLEAN] /\ failed' \subseteq Buckets
      BY <2>1 DEF BucketExpires, ListExpires
    <3>2. list' \in [Buckets -> SUBSET Slots] /\ listTtl' \in [Buckets -> BOOLEAN]
      <4>1. CASE BucketExpires(b)
        BY <4>1 DEF BucketExpires
      <4>2. CASE ListExpires(b)
        BY <4>2 DEF ListExpires, DropList
      <4>3. QED
        BY <2>1, <4>1, <4>2
    <3>3. UNCHANGED <<cert, buffer, pc, localVars, quiet>>
      BY <2>1 DEF BucketExpires, ListExpires
    <3>4. TypeOK'
      BY <3>1, <3>2, <3>3
    <3>5. LeftOK'
      BY <3>3
    <3>6. QED
      BY <3>4, <3>5
  <2>2. ASSUME NEW b \in Buckets, NEW i \in Slots, BufferExpires(b, i)
        PROVE  TypeInv'
    BY <2>2 DEF BufferExpires, File
  <2>3. QED
    BY <2>1, <2>2 DEF Expiring
<1>2. CASE UNCHANGED vars
  BY <1>2 DEF vars, redisVars, localVars, historyVars, TypeInv, TypeOK, LeftOK
<1>3. QED
  BY <1>1, <1>2, ReadingTypes, StoringTypes, ChangingTypes, DroppingTypes DEF Next

\* The variables have their types in every state, with failing commands too.
THEOREM CacheTyping == Spec => []TypeOK
<1>1. Spec => []TypeInv
  BY TypeInvInit, TypeInvStep, PTL DEF Spec
<1>2. TypeInv => TypeOK
  BY DEF TypeInv
<1>3. QED
  BY <1>1, <1>2, PTL

-----------------------------------------------------------------------------
\* A request keeps its place and what it has in hand.
Same(w) ==
    /\ pc'[w] = pc[w] /\ user'[w] = user[w] /\ kind'[w] = kind[w]
    /\ hand'[w] = hand[w] /\ files'[w] = files[w] /\ fresh'[w] = fresh[w]
    /\ left'[w] = left[w] /\ tied'[w] = tied[w]

\* The step of one request leaves the others where they are.
LEMMA OthersKept ==
  ASSUME TypeInv, NEW r \in Requests, NEW w \in Requests, w # r,
         Reading(r) \/ Storing(r) \/ Changing(r) \/ Dropping(r)
  PROVE  Same(w)
<1> USE DEF TypeInv, TypeOK, Same
<1>1. Finish(r) => Same(w)
  BY DEF Finish
<1>2. NextBucket(r) => Same(w)
  BY <1>1 DEF NextBucket
<1>3. CASE Reading(r)
  BY <1>1, <1>3 DEF Reading, Read, Fetch, FetchFails, Query, localVars
<1>4. CASE Storing(r)
  <2>1. CASE Store(r)
    BY <2>1 DEF Store
  <2>2. CASE ExpireList(r)
    BY <2>2 DEF ExpireList, localVars
  <2>3. CASE StoreNothing(r) \/ Save(r) \/ FillFails(r)
    BY <1>1, <2>3 DEF StoreNothing, Save, FillFails
  <2>4. QED
    BY <1>4, <2>1, <2>2, <2>3 DEF Storing
<1>5. CASE Changing(r)
  BY <1>5 DEF Changing, Generate, Delete, Clear, Invalidate
<1>6. CASE Dropping(r)
  <2>1. CASE ReadBucket(r)
    BY <2>1 DEF ReadBucket
  <2>2. CASE DropWithBuffers(r)
    BY <1>2, <2>2 DEF DropWithBuffers
  <2>3. CASE DropAsJson(r) \/ DropBuffers(r) \/ InvalidationFails(r)
    BY <1>1, <1>2, <2>3 DEF DropAsJson, DropBuffers, InvalidationFails
  <2>4. QED
    BY <1>6, <2>1, <2>2, <2>3 DEF Dropping
<1>7. QED
  BY <1>3, <1>4, <1>5, <1>6

-----------------------------------------------------------------------------
(* A list without TTL: TtlOnTheWay is inductive with the types.             *)

TtlInv == TypeInv /\ TtlOnTheWay

\* What a step must leave alone for TtlOnTheWay: the lists it does not empty,
\* and the requests about to send EXPIRE.
LEMMA TtlKept ==
  ASSUME TtlOnTheWay, failed \subseteq failed',
         \A b \in Buckets \ failed' :
            \/ list'[b] = {}
            \/ listTtl'[b]
            \/ list'[b] = list[b] /\ listTtl'[b] = listTtl[b],
         \A r \in Requests : pc[r] = "expire" /\ At(r) \notin failed' =>
            pc'[r] = "expire" /\ fresh'[r] = fresh[r] /\ user'[r] = user[r] /\ kind'[r] = kind[r]
  PROVE  TtlOnTheWay'
<1> SUFFICES ASSUME NEW b \in Buckets, b \notin failed', list'[b] # {}, ~listTtl'[b]
             PROVE  \E r \in Requests : pc'[r] = "expire" /\ fresh'[r] /\ At(r)' = b
  BY DEF TtlOnTheWay
<1>1. PICK r \in Requests : pc[r] = "expire" /\ fresh[r] /\ At(r) = b
  BY DEF TtlOnTheWay
<1>2. QED
  BY <1>1 DEF At, BucketOf

\* Changing and reading leave lists and EXPIREs alone.
LEMMA TtlReadingChanging ==
  ASSUME TtlInv, NEW r \in Requests, Reading(r) \/ Changing(r)
  PROVE  TtlOnTheWay'
<1>1. pc[r] # "expire" /\ UNCHANGED <<list, listTtl, failed>>
  <2>1. CASE Reading(r)
    BY <2>1 DEF Reading, Read, Fetch, FetchFails, Query, redisVars, historyVars
  <2>2. CASE Changing(r)
    BY <2>2 DEF Changing, Generate, Delete, Clear, redisVars, historyVars
  <2>3. QED
    BY <2>1, <2>2
<1>2. \A w \in Requests : w # r => Same(w)
  BY OthersKept DEF TtlInv
<1>3. QED
  BY <1>1, <1>2, TtlKept DEF TtlInv, Same

\* A SADD that makes a list longer leaves an EXPIRE to its request.
LEMMA TtlStoring ==
  ASSUME TtlInv, NEW r \in Requests, Storing(r)
  PROVE  TtlOnTheWay'
<1> USE DEF TtlInv, TypeInv, TypeOK
<1>1. \A w \in Requests : w # r => Same(w)
  BY OthersKept
<1>2. At(r) \in Buckets
  BY DEF At, BucketOf, Buckets
<1>3. CASE StoreNothing(r)
  BY <1>1, <1>3, TtlKept DEF StoreNothing, redisVars, historyVars, Same
<1>4. CASE Store(r)
  <2> DEFINE isNew == ~(DOMAIN files[r] \subseteq list[At(r)])
  <2>1. /\ list' = [list EXCEPT ![At(r)] = @ \cup DOMAIN files[r]]
        /\ pc[r] = "store" /\ failed \subseteq failed'
        /\ UNCHANGED <<listTtl, user, kind>>
    BY <1>4 DEF Store
  <2>2. CASE isNew
    <3>1. pc'[r] = "expire" /\ fresh'[r] /\ At(r)' = At(r)
      BY <1>4, <2>2 DEF Store, AfterSadd, At, BucketOf
    <3>2. SUFFICES ASSUME NEW b \in Buckets, b \notin failed', list'[b] # {}, ~listTtl'[b]
                   PROVE  \E w \in Requests : pc'[w] = "expire" /\ fresh'[w] /\ At(w)' = b
      BY DEF TtlOnTheWay
    <3>3. CASE b = At(r)
      BY <3>1, <3>3
    <3>4. CASE b # At(r)
      <4>1. PICK w \in Requests : pc[w] = "expire" /\ fresh[w] /\ At(w) = b
        BY <2>1, <3>2, <3>4 DEF TtlOnTheWay
      <4>2. QED
        BY <1>1, <2>1, <4>1 DEF Same, At, BucketOf
    <3>5. QED
      BY <3>3, <3>4
  <2>3. CASE ~isNew
    <3>1. list' = list
      BY <1>2, <2>1, <2>3
    <3>2. QED
      BY <1>1, <2>1, <3>1, TtlKept DEF Same
  <2>4. QED
    BY <2>2, <2>3
<1>5. CASE ExpireList(r)
  <2>1. /\ pc[r] = "expire" /\ UNCHANGED <<list, failed, user, kind>>
        /\ listTtl' = [listTtl EXCEPT ![At(r)] = list[At(r)] # {}]
    BY <1>5 DEF ExpireList, localVars, historyVars
  <2> SUFFICES ASSUME NEW b \in Buckets, b \notin failed, list[b] # {}, ~listTtl'[b]
               PROVE  \E w \in Requests : pc'[w] = "expire" /\ fresh'[w] /\ At(w)' = b
    BY <2>1 DEF TtlOnTheWay
  <2>2. b # At(r) /\ ~listTtl[b]
    BY <1>2, <2>1
  <2>3. PICK w \in Requests : pc[w] = "expire" /\ fresh[w] /\ At(w) = b
    BY <2>2 DEF TtlOnTheWay
  <2>4. QED
    BY <1>1, <2>1, <2>2, <2>3 DEF Same, At, BucketOf
<1>6. CASE Save(r)
  <2>1. pc[r] = "save" /\ failed \subseteq failed' /\ UNCHANGED <<list, listTtl>>
    BY <1>6 DEF Save
  <2>2. QED
    BY <1>1, <2>1, TtlKept DEF Same
<1>7. CASE FillFails(r)
  <2>1. failed' = failed \cup {At(r)} /\ UNCHANGED <<list, listTtl>>
    BY <1>7 DEF FillFails, redisVars
  <2>2. QED
    BY <1>1, <2>1, TtlKept DEF Same
<1>8. QED
  BY <1>3, <1>4, <1>5, <1>6, <1>7 DEF Storing

\* Invalidations only empty lists.
LEMMA TtlDropping ==
  ASSUME TtlInv, NEW r \in Requests, Dropping(r)
  PROVE  TtlOnTheWay'
<1> USE DEF TtlInv, TypeInv, TypeOK
<1>1. \A w \in Requests : w # r => Same(w)
  BY OthersKept
<1>2. pc[r] # "expire" /\ failed \subseteq failed'
  BY DEF Dropping, ReadBucket, DropAsJson, DropWithBuffers, DropBuffers, InvalidationFails, Told, historyVars
<1>3. \A b \in Buckets : list'[b] = {} \/ (list'[b] = list[b] /\ listTtl'[b] = listTtl[b])
  <2>1. CASE ReadBucket(r) \/ DropWithBuffers(r) \/ InvalidationFails(r)
    BY <2>1 DEF ReadBucket, DropWithBuffers, InvalidationFails, redisVars
  <2>2. CASE DropAsJson(r)
    BY <2>2 DEF DropAsJson, DropList
  <2>3. CASE DropBuffers(r)
    BY <2>3 DEF DropBuffers, DropList
  <2>4. QED
    BY <2>1, <2>2, <2>3 DEF Dropping
<1>4. QED
  BY <1>1, <1>2, <1>3, TtlKept DEF Same

\* Every step keeps TtlInv.
LEMMA TtlInvStep == TtlInv /\ [Next]_vars => TtlInv'
<1> SUFFICES ASSUME TtlInv, [Next]_vars
             PROVE  TtlInv'
  OBVIOUS
<1>1. CASE Expiring
  <2>1. UNCHANGED <<pc, localVars>> /\ failed \subseteq failed'
    BY <1>1 DEF Expiring, BucketExpires, ListExpires, BufferExpires, historyVars
  <2>2. \A b \in Buckets : list'[b] = {} \/ (list'[b] = list[b] /\ listTtl'[b] = listTtl[b])
    BY <1>1 DEF Expiring, BucketExpires, ListExpires, BufferExpires, DropList, TtlInv, TypeInv, TypeOK
  <2>3. TtlOnTheWay'
    BY <2>1, <2>2, TtlKept DEF TtlInv, localVars
  <2>4. QED
    BY <2>3, TypeInvStep DEF TtlInv
<1>2. CASE UNCHANGED vars
  <2>1. TtlOnTheWay'
    BY <1>2, TtlKept DEF TtlInv, vars, redisVars, localVars, historyVars
  <2>2. QED
    BY <2>1, TypeInvStep DEF TtlInv
<1>3. QED
  BY <1>1, <1>2, TtlReadingChanging, TtlStoring, TtlDropping, TypeInvStep DEF Next, TtlInv

\* Where no command has failed, every list without TTL has its EXPIRE on the
\* way: a list never stays for good.
THEOREM CacheTtl == Spec => []TtlOnTheWay
<1>1. Init => TtlInv
  <2>1. Init => TtlOnTheWay
    BY DEF Init, TtlOnTheWay
  <2>2. QED
    BY <2>1, TypeInvInit DEF TtlInv
<1>2. Spec => []TtlInv
  BY <1>1, TtlInvStep, PTL DEF Spec
<1>3. TtlInv => TtlOnTheWay
  BY DEF TtlInv
<1>4. QED
  BY <1>2, <1>3, PTL

-----------------------------------------------------------------------------
(* Whose certificates are where.                                           *)

\* A read is sent by a user, and one of own certificates carries that user's.
OwnCarried(r) ==
    /\ pc[r] \in {"fetch", "query", "store"} \cup Saving => user[r] \in Users
    /\ pc[r] \in {"store"} \cup Saving /\ kind[r] = "own" =>
          \A i \in DOMAIN files[r] : files[r][i] \in Certs /\ Owner[files[r][i]] = user[r]

\* The cache of a user has that user's certificates.
OwnCached ==
    \A u \in Users : \A i \in Slots :
        buffer[u][i] # Nil => buffer[u][i] \in Certs /\ Owner[buffer[u][i]] = u

OwnInv == TypeInv /\ OwnCached /\ \A r \in Requests : OwnCarried(r)

\* Emptying buffers keeps OwnCached.
LEMMA OwnCachedKept ==
  ASSUME OwnCached, \A u \in Users : \A i \in Slots : buffer'[u][i] \in {Nil, buffer[u][i]}
  PROVE  OwnCached'
BY DEF OwnCached

\* What a step of one request must show for OwnInv.
LEMMA OwnKept ==
  ASSUME OwnInv, TypeInv', NEW r \in Requests, \A w \in Requests : w # r => Same(w),
         OwnCarried(r)', OwnCached'
  PROVE  OwnInv'
<1>1. ASSUME NEW w \in Requests, w # r
      PROVE  OwnCarried(w)'
  BY <1>1 DEF OwnCarried, OwnInv, Same
<1>2. QED
  BY <1>1 DEF OwnInv

LEMMA OwnReading ==
  ASSUME OwnInv, NEW r \in Requests, Reading(r)
  PROVE  OwnInv'
<1>1. TypeInv' /\ \A w \in Requests : w # r => Same(w)
  BY ReadingTypes, OthersKept DEF OwnInv
<1>2. OwnCached'
  BY DEF OwnInv, OwnCached, Reading, Read, Fetch, FetchFails, Query, redisVars
<1>3. OwnCarried(r)'
  <2> USE DEF OwnInv, TypeInv, TypeOK, OwnCarried
  <2>1. ASSUME NEW u \in Users, NEW t \in {"own", "all"}, Read(r, u, t)
        PROVE  OwnCarried(r)'
    BY <2>1 DEF Read
  <2>2. CASE Fetch(r)
    BY <2>2 DEF Fetch, Finish
  <2>3. CASE FetchFails(r)
    BY <2>3 DEF FetchFails, localVars
  <2>4. CASE Query(r)
    <3>1. PICK f \in Listings(Found(user[r], kind[r])) : files' = [files EXCEPT ![r] = f]
      BY <2>4 DEF Query
    <3>2. f \in [DOMAIN f -> Found(user[r], kind[r])]
      <4>1. Found(user[r], kind[r]) \in SUBSET Certs
        BY DEF Found
      <4>2. QED
        BY <4>1, ListingFits
    <3>3. pc[r] = "query" /\ pc'[r] = "store" /\ UNCHANGED <<user, kind>> /\ files'[r] = f
      BY <2>4, <3>1 DEF Query
    <3>4. kind'[r] = "own" => \A i \in DOMAIN f : f[i] \in Certs /\ Owner[f[i]] = user[r]
      BY <3>2, <3>3 DEF Found
    <3>5. QED
      BY <3>3, <3>4
  <2>5. QED
    BY <2>1, <2>2, <2>3, <2>4 DEF Reading
<1>4. QED
  BY <1>1, <1>2, <1>3, OwnKept

LEMMA OwnStoring ==
  ASSUME OwnInv, NEW r \in Requests, Storing(r)
  PROVE  OwnInv'
<1>1. TypeInv' /\ \A w \in Requests : w # r => Same(w)
  BY StoringTypes, OthersKept DEF OwnInv
<1>2. OwnCarried(r)'
  <2> USE DEF OwnInv, TypeInv, TypeOK, OwnCarried
  <2>1. CASE Store(r) \/ ExpireList(r)
    BY <2>1 DEF Store, ExpireList, localVars
  <2>2. CASE StoreNothing(r) \/ FillFails(r) \/ Save(r)
    BY <2>2 DEF StoreNothing, FillFails, Save, Finish
  <2>3. QED
    BY <2>1, <2>2 DEF Storing
<1>3. Save(r) => OwnCached'
  <2> SUFFICES ASSUME Save(r) PROVE OwnCached'
    OBVIOUS
  <2> USE DEF OwnInv, TypeInv, TypeOK
  <2>1. PICK sent \in SUBSET DOMAIN files[r] :
          buffer' = [buffer EXCEPT ![At(r)] =
                       [i \in Slots |-> IF i \in sent THEN files[r][i] ELSE buffer[At(r)][i]]]
    BY DEF Save
  <2>2. At(r) \in Users => kind[r] = "own" /\ At(r) = user[r]
    BY CertificateCacheAssumption DEF At, BucketOf
  <2>3. ASSUME NEW u \in Users, NEW i \in Slots
        PROVE  buffer'[u][i] = buffer[u][i] \/ (buffer'[u][i] \in Certs /\ Owner[buffer'[u][i]] = u)
    <3>1. u \in Buckets
      BY DEF Buckets
    <3>2. CASE u = At(r) /\ i \in sent
      <4>1. buffer'[u][i] = files[r][i] /\ i \in DOMAIN files[r]
        BY <2>1, <3>1, <3>2
      <4>2. QED
        BY <2>2, <3>2, <4>1 DEF Save, OwnCarried
    <3>3. CASE ~(u = At(r) /\ i \in sent)
      BY <2>1, <3>1, <3>3
    <3>4. QED
      BY <3>2, <3>3
  <2>4. QED
    BY <2>3 DEF OwnCached
<1>4. ~Save(r) => OwnCached'
  <2> SUFFICES ASSUME ~Save(r) PROVE OwnCached'
    OBVIOUS
  <2>1. UNCHANGED buffer
    BY DEF Storing, StoreNothing, Store, ExpireList, FillFails, redisVars
  <2>2. QED
    BY <2>1 DEF OwnInv, OwnCached
<1>5. QED
  BY <1>1, <1>2, <1>3, <1>4, OwnKept

LEMMA OwnChangingDropping ==
  ASSUME OwnInv, NEW r \in Requests, Changing(r) \/ Dropping(r)
  PROVE  OwnInv'
<1>1. TypeInv' /\ \A w \in Requests : w # r => Same(w)
  BY ChangingTypes, DroppingTypes, OthersKept DEF OwnInv
<1>2. pc'[r] \in {"invalidate", "drop", "empty", "done"}
  <2> USE DEF OwnInv, TypeInv, TypeOK
  <2>1. CASE Changing(r)
    BY <2>1 DEF Changing, Generate, Delete, Clear, Invalidate
  <2>2. CASE Dropping(r)
    BY <2>2 DEF Dropping, ReadBucket, DropAsJson, DropWithBuffers, DropBuffers, InvalidationFails, NextBucket, Finish
  <2>3. QED
    BY <2>1, <2>2
<1>3. \A u \in Users : \A i \in Slots : buffer'[u][i] \in {Nil, buffer[u][i]}
  <2>1. CASE DropBuffers(r)
    BY <2>1 DEF DropBuffers, OwnInv, TypeInv, TypeOK, Buckets
  <2>2. CASE Changing(r)
    BY <2>2 DEF Changing, Generate, Delete, Clear, redisVars
  <2>3. CASE Dropping(r) /\ ~DropBuffers(r)
    BY <2>3 DEF Dropping, ReadBucket, DropAsJson, DropWithBuffers, InvalidationFails, redisVars
  <2>4. QED
    BY <2>1, <2>2, <2>3
<1>4. OwnCarried(r)' /\ OwnCached'
  BY <1>2, <1>3, OwnCachedKept DEF OwnInv, OwnCarried
<1>5. QED
  BY <1>1, <1>4, OwnKept

LEMMA OwnInvStep == OwnInv /\ [Next]_vars => OwnInv'
<1> SUFFICES ASSUME OwnInv, [Next]_vars
             PROVE  OwnInv'
  OBVIOUS
<1>1. CASE Expiring
  <2>1. TypeInv' /\ UNCHANGED <<pc, localVars>>
    BY <1>1, TypeInvStep DEF OwnInv, Next, Expiring, BucketExpires, ListExpires, BufferExpires
  <2>2. ASSUME NEW u \in Users, NEW i \in Slots
        PROVE  buffer'[u][i] \in {Nil, buffer[u][i]}
    <3>1. u \in Buckets
      BY DEF Buckets
    <3>2. UNCHANGED buffer \/ \E b \in Buckets, j \in Slots : buffer' = [buffer EXCEPT ![b][j] = Nil]
      BY <1>1 DEF Expiring, BucketExpires, ListExpires, BufferExpires
    <3>3. ASSUME NEW b \in Buckets, NEW j \in Slots, buffer' = [buffer EXCEPT ![b][j] = Nil]
          PROVE  buffer'[u][i] \in {Nil, buffer[u][i]}
      <4>1. buffer'[u] = IF u = b THEN [buffer[u] EXCEPT ![j] = Nil] ELSE buffer[u]
        BY <3>1, <3>3 DEF OwnInv, TypeInv, TypeOK
      <4>2. buffer[u] \in [Slots -> File]
        BY <3>1 DEF OwnInv, TypeInv, TypeOK
      <4>3. QED
        BY <4>1, <4>2
    <3>4. QED
      BY <3>2, <3>3
  <2>3. OwnCached'
    BY <2>2, OwnCachedKept DEF OwnInv
  <2>4. \A r \in Requests : OwnCarried(r)'
    BY <2>1 DEF OwnInv, OwnCarried, localVars
  <2>5. QED
    BY <2>1, <2>3, <2>4 DEF OwnInv
<1>2. CASE UNCHANGED vars
  <2>1. TypeInv'
    BY <1>2, TypeInvStep DEF OwnInv
  <2>2. QED
    BY <1>2, <2>1 DEF OwnInv, OwnCarried, OwnCached, vars, redisVars, localVars, historyVars
<1>3. QED
  BY <1>1, <1>2, OwnReading, OwnStoring, OwnChangingDropping DEF Next

\* GET own never answers with somebody else's certificate.
THEOREM CacheOwnOnly == Spec => OwnOnly
<1>1. Init => OwnInv
  BY TypeInvInit DEF OwnInv, OwnCarried, OwnCached, Init, Buckets
<1>2. OwnInv /\ [Next]_vars =>
        [\A r \in Requests :
          pc[r] = "fetch" /\ pc'[r] = "done" /\ kind[r] = "own" =>
              \A c \in Answer(r) : c = Nil \/ Owner[c] = user[r]]_vars
  <2> SUFFICES ASSUME OwnInv, NEW r \in Requests, pc[r] = "fetch", kind[r] = "own",
                      NEW i \in hand[r]
               PROVE  buffer[At(r)][i] = Nil \/ Owner[buffer[At(r)][i]] = user[r]
    BY DEF Answer
  <2>1. At(r) = user[r] /\ user[r] \in Users /\ i \in Slots
    BY DEF OwnInv, OwnCarried, TypeInv, TypeOK, At, BucketOf
  <2>2. QED
    BY <2>1 DEF OwnInv, OwnCached
<1>3. QED
  BY <1>1, <1>2, OwnInvStep, PTL DEF Spec, OwnOnly

-----------------------------------------------------------------------------
(* A certificate that is gone and out of reach stays so.                    *)

\* However many of its DELs fail, an invalidation only empties buffers, those
\* of one bucket.
LEMMA BuffersDropped ==
  ASSUME TypeInv, NEW r \in Requests, DropBuffers(r)
  PROVE  /\ Head(left[r]) \in Buckets
         /\ \A d \in Buckets \ {Head(left[r])} : buffer'[d] = buffer[d]
         /\ \A d \in Buckets, i \in Slots : buffer'[d][i] \in {Nil, buffer[d][i]}
<1> USE DEF TypeInv, TypeOK
<1>1. left[r] # <<>> /\ left[r] \in Seq(Buckets)
  BY DEF DropBuffers, LeftOK
<1>2. Head(left[r]) \in Buckets
  BY <1>1, HeadAndTail
<1> DEFINE b == Head(left[r])
<1>3. PICK done \in SUBSET hand[r] :
        buffer' = [buffer EXCEPT ![b] = [i \in Slots |-> IF i \in done THEN Nil ELSE buffer[b][i]]]
  BY DEF DropBuffers
<1> HIDE DEF b
<1>4. \A d \in Buckets \ {b} : buffer'[d] = buffer[d]
  BY <1>3
<1>5. b \in Buckets
  BY <1>2 DEF b
<1>6. \A i \in Slots : buffer'[b][i] \in {Nil, buffer[b][i]}
  BY <1>3, <1>5
<1>7. QED
  BY <1>4, <1>5, <1>6 DEF b

\* No fill of the bucket carries the certificate.
NotCarried(c, b) == \A w \in Requests : Filling(w, b) => c \notin Range(files[w])

\* A fill that starts later does not find it.
LEMMA NotCarriedKept ==
  ASSUME TypeInv, [Next]_vars, NEW c \in Certs, NEW b \in Buckets,
         cert[c] = "gone", NotCarried(c, b)
  PROVE  NotCarried(c, b)'
<1>1. ASSUME NEW r \in Requests, Reading(r) \/ Storing(r) \/ Changing(r) \/ Dropping(r),
             Filling(r, b)' => c \notin Range(files'[r])
      PROVE  NotCarried(c, b)'
  <2>1. \A w \in Requests : w # r => Same(w)
    BY <1>1, OthersKept
  <2>2. QED
    BY <1>1, <2>1 DEF NotCarried, Filling, At, BucketOf, Same
<1>2. ASSUME NEW r \in Requests, Reading(r)
      PROVE  NotCarried(c, b)'
  <2>1. CASE Query(r)
    <3>1. PICK f \in Listings(Found(user[r], kind[r])) : files' = [files EXCEPT ![r] = f]
      BY <2>1 DEF Query
    <3>2. f \in [DOMAIN f -> Found(user[r], kind[r])]
      <4>1. Found(user[r], kind[r]) \in SUBSET Certs
        BY DEF Found
      <4>2. QED
        BY <4>1, ListingFits
    <3>3. c \notin Found(user[r], kind[r]) /\ files'[r] = f
      BY <3>1 DEF Found, TypeInv, TypeOK
    <3>4. c \notin Range(files'[r])
      BY <3>2, <3>3 DEF Range
    <3>5. QED
      BY <1>1, <1>2, <3>4
  <2>2. CASE ~Query(r)
    <3>1. pc'[r] \notin {"store", "expire", "save"}
      BY <1>2, <2>2 DEF Reading, Read, Fetch, FetchFails, Finish, TypeInv, TypeOK
    <3>2. QED
      BY <1>1, <1>2, <3>1 DEF Filling
  <2>3. QED
    BY <2>1, <2>2
<1>3. ASSUME NEW r \in Requests, Storing(r)
      PROVE  NotCarried(c, b)'
  <2> USE DEF TypeInv, TypeOK
  <2>1. CASE Store(r) \/ ExpireList(r)
    <3>1. pc[r] \in {"store", "expire"} /\ UNCHANGED <<user, kind, files>>
      BY <2>1 DEF Store, ExpireList, localVars
    <3>2. Filling(r, b)' => Filling(r, b)
      BY <3>1 DEF Filling, At, BucketOf
    <3>3. QED
      BY <1>1, <1>3, <3>1, <3>2 DEF NotCarried
  <2>2. CASE StoreNothing(r) \/ Save(r) \/ FillFails(r)
    <3>1. pc'[r] = "done"
      BY <2>2 DEF StoreNothing, Save, FillFails, Finish
    <3>2. QED
      BY <1>1, <1>3, <3>1 DEF Filling
  <2>3. QED
    BY <1>3, <2>1, <2>2 DEF Storing
<1>4. ASSUME NEW r \in Requests, Changing(r) \/ Dropping(r)
      PROVE  NotCarried(c, b)'
  <2>1. pc'[r] \in {"invalidate", "drop", "empty", "done"}
    <3> USE DEF TypeInv, TypeOK
    <3>1. CASE Changing(r)
      BY <3>1 DEF Changing, Generate, Delete, Clear, Invalidate
    <3>2. CASE Dropping(r)
      BY <3>2 DEF Dropping, ReadBucket, DropAsJson, DropWithBuffers, DropBuffers, InvalidationFails, NextBucket, Finish
    <3>3. QED
      BY <1>4, <3>1, <3>2
  <2>2. QED
    BY <1>1, <1>4, <2>1 DEF Filling
<1>5. CASE Expiring
  <2>1. UNCHANGED <<pc, user, kind, files>>
    BY <1>5 DEF Expiring, BucketExpires, ListExpires, BufferExpires, localVars
  <2>2. QED
    BY <2>1 DEF NotCarried, Filling, At, BucketOf
<1>6. CASE UNCHANGED vars
  BY <1>6 DEF NotCarried, Filling, At, BucketOf, vars, localVars
<1>7. QED
  BY <1>2, <1>3, <1>4, <1>5, <1>6 DEF Next

LEMMA OutOfReachKept ==
  ASSUME TypeInv, [Next]_vars,
         NEW c \in Certs, NEW b \in Buckets, cert[c] = "gone", ~InReach(c, b)
  PROVE  ~InReach(c, b)'
<1> USE DEF TypeInv, TypeOK
<1>1. (\A i \in Slots : buffer[b][i] # c) /\ NotCarried(c, b)
  BY DEF InReach, Within, NotCarried, Range
<1>2. NotCarried(c, b)'
  BY <1>1, NotCarriedKept
<1>3. c # Nil
  BY CertificateCacheAssumption
<1>4. SUFFICES ASSUME NEW i \in Slots PROVE buffer'[b][i] # c
  <2>1. TypeInv' => DOMAIN buffer'[b] = Slots
    OBVIOUS
  <2>2. QED
    BY <1>2, <2>1, TypeInvStep DEF InReach, Within, NotCarried, Range
<1>5. ASSUME NEW r \in Requests, Save(r)
      PROVE  buffer'[b][i] # c
  <2>1. PICK sent \in SUBSET DOMAIN files[r] :
          buffer' = [buffer EXCEPT ![At(r)] =
                       [j \in Slots |-> IF j \in sent THEN files[r][j] ELSE buffer[At(r)][j]]]
    BY <1>5 DEF Save
  <2>2. At(r) = b => \A j \in sent : files[r][j] # c
    BY <1>1, <1>5 DEF Save, NotCarried, Filling, Range
  <2>3. QED
    BY <1>1, <2>1, <2>2
<1>6. ASSUME NEW r \in Requests, DropBuffers(r)
      PROVE  buffer'[b][i] # c
  BY <1>1, <1>3, <1>6, BuffersDropped
<1>7. ASSUME NEW d \in Buckets, NEW j \in Slots, BufferExpires(d, j)
      PROVE  buffer'[b][i] # c
  BY <1>1, <1>3, <1>7 DEF BufferExpires
<1>8. CASE UNCHANGED buffer
  BY <1>1, <1>8
<1>9. ASSUME NEW r \in Requests, Reading(r) \/ Storing(r) \/ Changing(r) \/ Dropping(r),
             ~Save(r), ~DropBuffers(r)
      PROVE  UNCHANGED buffer
  <2>1. CASE Reading(r)
    BY <2>1 DEF Reading, Read, Fetch, FetchFails, Query, redisVars
  <2>2. CASE Storing(r)
    BY <1>9, <2>2 DEF Storing, StoreNothing, Store, ExpireList, FillFails, redisVars
  <2>3. CASE Changing(r)
    BY <2>3 DEF Changing, Generate, Delete, Clear, redisVars
  <2>4. CASE Dropping(r)
    BY <1>9, <2>4 DEF Dropping, ReadBucket, DropAsJson, DropWithBuffers, InvalidationFails, redisVars
  <2>5. QED
    BY <1>9, <2>1, <2>2, <2>3, <2>4
<1>10. ASSUME NEW d \in Buckets, BucketExpires(d) \/ ListExpires(d)
       PROVE  UNCHANGED buffer
  BY <1>10 DEF BucketExpires, ListExpires
<1>11. CASE UNCHANGED vars
  BY <1>8, <1>11 DEF vars, redisVars
<1>12. QED
  BY <1>5, <1>6, <1>7, <1>8, <1>9, <1>10, <1>11 DEF Next, Expiring

\* A deleted certificate that has left a bucket does not come back to it.
THEOREM CacheNeverComesBack == Spec => NeverComesBack
<1>1. TypeInv /\ [Next]_vars =>
        [\A c \in Certs, b \in Buckets :
          cert[c] = "gone" /\ ~InReach(c, b) => ~InReach(c, b)']_vars
  BY OutOfReachKept
<1>2. QED
  BY <1>1, TypeInvInit, TypeInvStep, PTL DEF Spec, NeverComesBack

-----------------------------------------------------------------------------
(* The view that the cache shows of a bucket: its buffers, and the files that *)
(* fills carry to it.                                                       *)

carried == [w \in Requests |-> [b \in Buckets |->
              IF Filling(w, b) THEN Range(files[w]) ELSE {}]]

LEMMA ShownIs ==
  /\ shown = [b \in Buckets |-> {c \in Certs : c \in Range(buffer[b])
                 \/ \E w \in Requests : c \in carried[w][b]}]
  /\ shown' = [b \in Buckets |-> {c \in Certs : c \in Range(buffer'[b])
                 \/ \E w \in Requests : c \in carried'[w][b]}]
BY DEF shown, carried, Within, Filling, At, BucketOf

LEMMA SameCarried ==
  ASSUME NEW w \in Requests, Same(w)
  PROVE  carried'[w] = carried[w]
BY DEF Same, carried, Filling, At, BucketOf

\* A step that leaves the buffers of a bucket and what is carried to them.
LEMMA ShownKept ==
  ASSUME NEW b \in Buckets, buffer'[b] = buffer[b],
         \A w \in Requests : carried'[w][b] = carried[w][b]
  PROVE  shown'[b] = shown[b]
BY ShownIs

\* A step that only loses something, of one bucket.
LEMMA ShownLess ==
  ASSUME NEW d \in Buckets, cert' = cert,
         \A b \in Buckets \ {d} : shown'[b] = shown[b], shown'[d] \subseteq shown[d]
  PROVE  View!Forget(d)
<1>1. shown' = [shown EXCEPT ![d] = shown'[d]]
  BY ShownIs
<1>2. QED
  BY <1>1 DEF View!Forget

\* A listing holds every row.
LEMMA ListingComplete ==
  ASSUME NEW S \in SUBSET Certs, NEW f \in Listings(S)
  PROVE  Range(f) = S
<1>1. IsFiniteSet(S) /\ Cardinality(S) \in Nat
  BY CertificateCacheAssumption, FS_Subset, FS_CardinalityType
<1>2. IsFiniteSet(1..Cardinality(S)) /\ Cardinality(1..Cardinality(S)) = Cardinality(S)
  BY <1>1, FS_Interval
<1>3. f \in Injection(1..Cardinality(S), S)
  BY DEF Listings, Injection
<1>4. f \in Surjection(1..Cardinality(S), S)
  BY <1>1, <1>2, <1>3, FS_Injection
<1>5. QED
  BY <1>4 DEF Surjection, Range

\* The query brings a view up to date, with the rows of its route.
LEMMA QueryLoads ==
  ASSUME OwnInv, NEW r \in Requests, Query(r)
  PROVE  View!Load(At(r))
<1> USE DEF OwnInv, TypeInv, TypeOK
<1>1. PICK f \in Listings(Found(user[r], kind[r])) : files' = [files EXCEPT ![r] = f]
  BY DEF Query
<1>2. /\ pc[r] = "query" /\ pc'[r] = "store" /\ files'[r] = f
      /\ UNCHANGED <<cert, buffer, user, kind>>
  BY <1>1 DEF Query, redisVars
<1>3. /\ user[r] \in Users /\ kind[r] \in {"own", "all", "json", "buffers"}
      /\ At(r) \in Buckets
  BY <1>2 DEF OwnCarried, At, BucketOf, Buckets
<1>4. Range(f) = View!Rows(At(r))
  <2>1. Found(user[r], kind[r]) \in SUBSET Certs
    BY DEF Found
  <2>2. Range(f) = Found(user[r], kind[r])
    BY <2>1, ListingComplete
  <2>3. Found(user[r], kind[r]) = View!Rows(At(r))
    BY <1>3, CertificateCacheAssumption DEF Found, View!Rows, At, BucketOf
  <2>4. QED
    BY <2>2, <2>3
<1>5. \A w \in Requests : w # r => Same(w)
  BY OthersKept DEF Reading
<1>6. \A w \in Requests : w # r => carried'[w] = carried[w]
  BY <1>5, SameCarried
<1>7. \A b \in Buckets : /\ carried[r][b] = {}
                         /\ carried'[r][b] = IF b = At(r) THEN Range(f) ELSE {}
  BY <1>2 DEF carried, Filling, At, BucketOf
<1>8. \A b \in Buckets \ {At(r)} : shown'[b] = shown[b]
  BY <1>2, <1>6, <1>7, ShownKept
<1>9. shown'[At(r)] = shown[At(r)] \cup Range(f)
  <2>1. Range(f) \subseteq Certs
    BY <1>4 DEF View!Rows
  <2> HIDE DEF OwnInv, TypeInv, TypeOK
  <2> DEFINE b == At(r)
  <2>2. \A c \in Certs : (\E w \in Requests : c \in carried'[w][b])
                         <=> c \in Range(f) \/ \E w \in Requests : c \in carried[w][b]
    BY <1>3, <1>6, <1>7
  <2> HIDE DEF b
  <2>3. b \in Buckets /\ buffer'[b] = buffer[b]
    BY <1>2, <1>3 DEF b
  <2>4. shown'[b] = shown[b] \cup Range(f)
    BY <2>1, <2>2, <2>3, ShownIs
  <2>5. QED
    BY <2>4 DEF b
<1>10. shown' = [shown EXCEPT ![At(r)] = @ \cup Range(f)]
  BY <1>3, <1>8, <1>9, ShownIs
<1>11. QED
  BY <1>2, <1>4, <1>10 DEF View!Load

\* A step that leaves the table, the buffers and every fill alone.
LEMMA ViewKept ==
  ASSUME UNCHANGED <<cert, buffer>>, \A w \in Requests : carried'[w] = carried[w]
  PROVE  UNCHANGED <<cert, shown>>
BY ShownIs

\* A request that fills nothing, neither before its step nor after it.
LEMMA NothingCarried ==
  ASSUME NEW r \in Requests, \A w \in Requests : w # r => Same(w),
         pc[r] \notin {"store"} \cup Saving, pc'[r] \notin {"store"} \cup Saving
  PROVE  \A w \in Requests : carried'[w] = carried[w]
<1>1. carried'[r] = carried[r]
  BY DEF carried, Filling
<1>2. QED
  BY <1>1, SameCarried

\* Reading shows nothing new but by a query.
LEMMA ReadingView ==
  ASSUME OwnInv, NEW r \in Requests, Reading(r), ~Query(r)
  PROVE  UNCHANGED <<cert, shown>>
<1>1. pc[r] \notin {"store"} \cup Saving /\ pc'[r] \notin {"store"} \cup Saving
  BY DEF Reading, Read, Fetch, FetchFails, Finish, OwnInv, TypeInv, TypeOK
<1>2. \A w \in Requests : w # r => Same(w)
  BY OthersKept DEF OwnInv
<1>3. UNCHANGED <<cert, buffer>>
  BY DEF Reading, Read, Fetch, FetchFails, redisVars
<1>4. QED
  BY <1>1, <1>2, <1>3, NothingCarried, ViewKept

\* A fill brings into the buffers what it carries, and nothing else.
LEMMA StoringView ==
  ASSUME OwnInv, NEW r \in Requests, Storing(r)
  PROVE  UNCHANGED <<cert, shown>> \/ View!Forget(At(r))
<1> USE DEF OwnInv, TypeInv, TypeOK
<1>1. At(r) \in Buckets
  BY DEF At, BucketOf, Buckets
<1>2. \A w \in Requests : w # r => carried'[w] = carried[w]
  BY OthersKept, SameCarried
<1>3. CASE StoreNothing(r)
  <2>1. \A b \in Buckets : carried[r][b] = {} /\ carried'[r][b] = {}
    BY <1>3 DEF StoreNothing, Finish, carried, Filling, Range
  <2>2. carried'[r] = carried[r]
    BY <2>1 DEF carried
  <2>3. UNCHANGED <<cert, buffer>>
    BY <1>3 DEF StoreNothing, redisVars
  <2>4. QED
    BY <1>2, <2>2, <2>3, ViewKept
<1>4. CASE Store(r) \/ ExpireList(r)
  <2>1. /\ pc[r] \in {"store"} \cup Saving /\ pc'[r] \in {"store"} \cup Saving
        /\ UNCHANGED <<cert, buffer, user, kind, files>>
    BY <1>4 DEF Store, AfterSadd, ExpireList, localVars
  <2>2. carried'[r] = carried[r]
    BY <2>1 DEF carried, Filling, At, BucketOf
  <2>3. QED
    BY <1>2, <2>1, <2>2, ViewKept
<1>5. CASE Save(r) \/ FillFails(r)
  <2>1. pc[r] \in {"store"} \cup Saving /\ pc'[r] = "done" /\ cert' = cert
    BY <1>5 DEF Save, FillFails, Finish
  <2>2. \A b \in Buckets : /\ carried[r][b] = IF b = At(r) THEN Range(files[r]) ELSE {}
                           /\ carried'[r][b] = {}
    BY <2>1 DEF carried, Filling
  <2>3. \A b \in Buckets \ {At(r)} : buffer'[b] = buffer[b]
    BY <1>5 DEF Save, FillFails, redisVars
  <2>4. Range(buffer'[At(r)]) \subseteq Range(buffer[At(r)]) \cup Range(files[r])
    <3>1. ASSUME NEW i \in Slots
          PROVE  buffer'[At(r)][i] \in Range(buffer[At(r)]) \cup Range(files[r])
      BY <1>1, <1>5 DEF Save, FillFails, redisVars, Range
    <3>2. buffer[At(r)] \in [Slots -> File]
      BY <1>1
    <3>3. DOMAIN buffer'[At(r)] = Slots
      BY <1>1, <1>5, <3>2 DEF Save, FillFails, redisVars
    <3> DEFINE S == Range(buffer[At(r)]) \cup Range(files[r])
               g == buffer'[At(r)]
    <3>4. DOMAIN g = Slots /\ \A i \in Slots : g[i] \in S
      BY <3>1, <3>3
    <3> HIDE DEF S, g
    <3>5. Range(g) \subseteq S
      BY <3>4 DEF Range
    <3>6. QED
      BY <3>5 DEF S, g
  <2> HIDE DEF OwnInv, TypeInv, TypeOK
  <2>5. \A b \in Buckets \ {At(r)} : shown'[b] = shown[b]
    BY <1>2, <2>2, <2>3, ShownKept
  <2>6. shown'[At(r)] \subseteq shown[At(r)]
    <3> DEFINE b == At(r)
    <3>1. carried[r][b] = Range(files[r]) /\ carried'[r][b] = {} /\ b \in Buckets
      BY <1>1, <2>2
    <3> HIDE DEF b
    <3>2. Range(buffer'[b]) \subseteq Range(buffer[b]) \cup Range(files[r])
      BY <2>4 DEF b
    <3>3. shown'[b] \subseteq shown[b]
      BY <1>2, <3>1, <3>2, ShownIs
    <3>4. QED
      BY <3>3 DEF b
  <2>7. QED
    BY <1>1, <2>1, <2>5, <2>6, ShownLess
<1>6. QED
  BY <1>3, <1>4, <1>5 DEF Storing

\* Changing the table leaves the views as they are.
LEMMA ChangingView ==
  ASSUME OwnInv, NEW r \in Requests, Changing(r)
  PROVE  UNCHANGED <<cert, shown>> \/ \E c \in Certs : View!Create(c) \/ View!Remove(c)
<1>1. pc[r] \notin {"store"} \cup Saving /\ pc'[r] \notin {"store"} \cup Saving
  BY DEF Changing, Generate, Delete, Clear, Invalidate, OwnInv, TypeInv, TypeOK
<1>2. \A w \in Requests : w # r => Same(w)
  BY OthersKept DEF OwnInv
<1>3. UNCHANGED buffer
  BY DEF Changing, Generate, Delete, Clear, redisVars
<1>4. UNCHANGED shown
  BY <1>1, <1>2, <1>3, NothingCarried, ShownIs
<1>5. QED
  BY <1>4 DEF Changing, Generate, Delete, Clear, View!Create, View!Remove

\* An invalidation only empties buffers.
LEMMA DroppingView ==
  ASSUME OwnInv, NEW r \in Requests, Dropping(r)
  PROVE  UNCHANGED <<cert, shown>> \/ \E b \in Buckets : View!Forget(b)
<1> USE DEF OwnInv, TypeInv, TypeOK
<1>1. pc[r] \notin {"store"} \cup Saving /\ pc'[r] \notin {"store"} \cup Saving
  BY DEF Dropping, ReadBucket, DropAsJson, DropWithBuffers, DropBuffers, InvalidationFails,
         NextBucket, Finish
<1>2. \A w \in Requests : w # r => Same(w)
  BY OthersKept
<1>3. \A w \in Requests : carried'[w] = carried[w]
  BY <1>1, <1>2, NothingCarried
<1>4. cert' = cert
  BY DEF Dropping, ReadBucket, DropAsJson, DropWithBuffers, DropBuffers, InvalidationFails
<1>5. CASE DropBuffers(r)
  <2> DEFINE b == Head(left[r])
  <2>1. left[r] # <<>> /\ left[r] \in Seq(Buckets)
    BY <1>5 DEF DropBuffers, LeftOK
  <2>2. b \in Buckets
    BY <2>1, HeadAndTail
  <2>3. /\ \A d \in Buckets \ {b} : buffer'[d] = buffer[d]
        /\ \A i \in Slots : buffer'[b][i] \in {Nil, buffer[b][i]}
    BY <1>5, <2>2, BuffersDropped
  <2> HIDE DEF b
  <2>4. Range(buffer'[b]) \subseteq Range(buffer[b]) \cup {Nil}
    <3>1. TypeInv'
      BY <1>5, DroppingTypes
    <3>2. DOMAIN buffer'[b] = Slots /\ DOMAIN buffer[b] = Slots
      BY <2>2, <3>1
    <3>3. QED
      BY <2>3, <3>2 DEF Range
  <2>5. \A d \in Buckets \ {b} : buffer'[d] = buffer[d]
    BY <2>3
  <2> HIDE DEF OwnInv, TypeInv, TypeOK
  <2>6. \A d \in Buckets \ {b} : shown'[d] = shown[d]
    BY <1>3, <2>5, ShownKept
  <2>7. shown'[b] \subseteq shown[b]
    BY <1>3, <2>2, <2>4, ShownIs, CertificateCacheAssumption
  <2>8. QED
    BY <1>4, <2>2, <2>6, <2>7, ShownLess
<1>6. CASE ~DropBuffers(r)
  <2>1. buffer' = buffer
    BY <1>6 DEF Dropping, ReadBucket, DropAsJson, DropWithBuffers, InvalidationFails, redisVars
  <2>2. QED
    BY <1>3, <1>4, <2>1, ViewKept
<1>7. QED
  BY <1>5, <1>6

\* Nor does an expiry bring anything back.
LEMMA ExpiringView ==
  ASSUME OwnInv, Expiring
  PROVE  UNCHANGED <<cert, shown>> \/ \E b \in Buckets : View!Forget(b)
<1>1. UNCHANGED <<cert, pc, localVars>>
  BY DEF Expiring, BucketExpires, ListExpires, BufferExpires
<1>2. carried' = carried
  BY <1>1 DEF localVars, carried, Filling, At, BucketOf
<1>3. CASE UNCHANGED buffer
  BY <1>1, <1>2, <1>3, ViewKept
<1>4. ASSUME NEW b \in Buckets, NEW i \in Slots, BufferExpires(b, i)
      PROVE  View!Forget(b)
  <2>1. buffer' = [buffer EXCEPT ![b][i] = Nil]
    BY <1>4 DEF BufferExpires
  <2>2. Range(buffer'[b]) \subseteq Range(buffer[b]) \cup {Nil}
    BY <2>1 DEF Range, OwnInv, TypeInv, TypeOK
  <2>3. \A d \in Buckets \ {b} : buffer'[d] = buffer[d]
    BY <2>1 DEF OwnInv, TypeInv, TypeOK
  <2>4. \A d \in Buckets \ {b} : shown'[d] = shown[d]
    BY <1>2, <2>3, ShownKept
  <2>5. shown'[b] \subseteq shown[b]
    BY <1>2, <2>2, ShownIs, CertificateCacheAssumption
  <2>6. QED
    BY <1>1, <2>4, <2>5, ShownLess
<1>5. QED
  BY <1>3, <1>4 DEF Expiring, BucketExpires, ListExpires

\* However fills, invalidations, failures and expiries run into each other, the
\* cache shows each route a view of the table, never rows of another route.
THEOREM CacheRefinesView == Spec => RefinesView
<1>1. Init => OwnInv
  BY TypeInvInit DEF OwnInv, OwnCarried, OwnCached, Init, Buckets
<1>2. Init => View!ViewInit
  <2> SUFFICES ASSUME Init  PROVE View!ViewInit
    OBVIOUS
  <2>1. \A b \in Buckets : Range(buffer[b]) \subseteq {Nil}
    BY DEF Init, Range
  <2>2. \A b \in Buckets, w \in Requests : carried[w][b] = {}
    BY DEF Init, carried, Filling
  <2>3. shown = [b \in Buckets |-> {}]
    BY <2>1, <2>2, ShownIs, CertificateCacheAssumption
  <2>4. QED
    BY <2>3 DEF Init, View!ViewInit
<1>3. OwnInv /\ [Next]_vars => [View!ViewNext]_<<cert, shown>>
  <2> SUFFICES ASSUME OwnInv, [Next]_vars  PROVE [View!ViewNext]_<<cert, shown>>
    OBVIOUS
  <2>1. ASSUME NEW r \in Requests, Reading(r)  PROVE [View!ViewNext]_<<cert, shown>>
    <3>1. CASE Query(r)
      <4>1. At(r) \in Buckets
        BY DEF At, BucketOf, Buckets, OwnInv, TypeInv, TypeOK
      <4>2. QED
        BY <3>1, <4>1, QueryLoads DEF View!ViewNext
    <3>2. CASE ~Query(r)
      BY <2>1, <3>2, ReadingView
    <3>3. QED
      BY <3>1, <3>2
  <2>2. ASSUME NEW r \in Requests, Storing(r)  PROVE [View!ViewNext]_<<cert, shown>>
    <3>1. At(r) \in Buckets
      BY DEF At, BucketOf, Buckets, OwnInv, TypeInv, TypeOK
    <3>2. QED
      BY <2>2, <3>1, StoringView DEF View!ViewNext
  <2>3. ASSUME NEW r \in Requests, Changing(r)  PROVE [View!ViewNext]_<<cert, shown>>
    BY <2>3, ChangingView DEF View!ViewNext
  <2>4. ASSUME NEW r \in Requests, Dropping(r)  PROVE [View!ViewNext]_<<cert, shown>>
    BY <2>4, DroppingView DEF View!ViewNext
  <2>5. CASE Expiring
    BY <2>5, ExpiringView DEF View!ViewNext
  <2>6. CASE UNCHANGED vars
    BY <2>6 DEF vars, redisVars, localVars, shown, Within, Filling, At, BucketOf
  <2>7. QED
    BY <2>1, <2>2, <2>3, <2>4, <2>5, <2>6 DEF Next
<1>4. QED
  BY <1>1, <1>2, <1>3, OwnInvStep, PTL
     DEF Spec, RefinesView, View!ViewSpec, View!viewVars

-----------------------------------------------------------------------------
(* A delete that meets nobody at the bucket.  What keeps it good is either a *)
(* request that has the list of the bucket in hand (Held), or a bucket that *)
(* names its list, an invalidation that has still to read it, and none that *)
(* read it before it did and would take the name away (Blind).              *)

Holds(r, b) ==
    /\ pc[r] = "empty" \/ (pc[r] = "drop" /\ tied[r])
    /\ Head(left[r]) = b

Comes(r, b) ==
    \/ pc[r] = "invalidate" /\ b \in Range(left[r])
    \/ pc[r] \in {"drop", "empty"} /\ b \in Range(Tail(left[r]))

IsBlind(r, b) == pc[r] = "drop" /\ ~tied[r] /\ Head(left[r]) = b

Held(b) == \E r \in Requests : Holds(r, b)
Coming(b) == \E r \in Requests : Comes(r, b)
Blind(b) == \E r \in Requests : IsBlind(r, b)

Safe(b) == Held(b) \/ (bucket[b] /\ Coming(b) /\ ~Blind(b))

Guarded(b) ==
    \A c \in Certs, i \in list[b] :
        <<b, c>> \in quiet /\ buffer[b][i] = c => SetOnTheWay(b, i) \/ Safe(b)

\* A certificate deleted while nobody was at the bucket is gone, and no fill
\* of the bucket has it.
QuietGone ==
    \A b \in Buckets, c \in Certs :
        <<b, c>> \in quiet => cert[c] = "gone" /\ NotCarried(c, b)

QuietInv == TypeInv /\ QuietGone /\ \A b \in Buckets \ failed : Guarded(b)

\* Requests move in the same way for these.
LEMMA SameQuiet ==
  ASSUME NEW w \in Requests, Same(w), NEW b \in Buckets
  PROVE  /\ Holds(w, b)' = Holds(w, b)
         /\ Comes(w, b)' = Comes(w, b)
         /\ IsBlind(w, b)' = IsBlind(w, b)
BY DEF Same, Holds, Comes, IsBlind

\* A step of a request that neither holds, nor comes to, nor blinds a bucket
\* differently keeps it safe.
LEMMA SafeKept ==
  ASSUME NEW r \in Requests, \A w \in Requests : w # r => Same(w), NEW b \in Buckets,
         Safe(b),
         Holds(r, b) => Holds(r, b)',
         Comes(r, b) => Comes(r, b)' \/ Held(b)',
         IsBlind(r, b)' => IsBlind(r, b),
         bucket[b] => bucket'[b]
  PROVE  Safe(b)'
<1>1. CASE Held(b)
  <2>1. PICK w \in Requests : Holds(w, b)
    BY <1>1 DEF Held
  <2>2. Holds(w, b)'
    BY <2>1, SameQuiet
  <2>3. QED
    BY <2>2 DEF Safe, Held
<1>2. CASE bucket[b] /\ Coming(b) /\ ~Blind(b)
  <2>1. PICK w \in Requests : Comes(w, b)
    BY <1>2 DEF Coming
  <2>2. Comes(w, b)' \/ Held(b)'
    BY <2>1, SameQuiet
  <2>3. ~Blind(b)'
    <3>1. \A x \in Requests : ~IsBlind(x, b)
      BY <1>2 DEF Blind
    <3>2. \A x \in Requests : ~IsBlind(x, b)'
      BY <3>1, SameQuiet
    <3>3. QED
      BY <3>2 DEF Blind
  <2>4. QED
    BY <1>2, <2>2, <2>3 DEF Safe, Coming
<1>3. QED
  BY <1>1, <1>2 DEF Safe

\* Reading and changing leave the cache alone.
LEMMA GuardedReadingChanging ==
  ASSUME QuietInv, NEW r \in Requests, Reading(r) \/ Changing(r),
         NEW b \in Buckets, b \notin failed, NEW c \in Certs, NEW i \in list[b],
         <<b, c>> \in quiet, buffer[b][i] = c
  PROVE  SetOnTheWay(b, i)' \/ Safe(b)'
<1> USE DEF TypeInv, TypeOK
<1>1. \A w \in Requests : w # r => Same(w)
  BY OthersKept DEF QuietInv
<1>2. pc[r] \in {"idle", "fetch", "query"} /\ UNCHANGED redisVars
  BY DEF Reading, Read, Fetch, FetchFails, Query, Changing, Generate, Delete, Clear
<1>3. pc'[r] \in {"fetch", "query", "store", "done", "invalidate"}
  <2> USE DEF QuietInv
  <2>1. CASE Reading(r)
    BY <2>1 DEF Reading, Read, Fetch, FetchFails, Query, Finish
  <2>2. CASE Changing(r)
    BY <2>2 DEF Changing, Generate, Delete, Clear, Invalidate
  <2>3. QED
    BY <2>1, <2>2
<1>4. CASE SetOnTheWay(b, i)
  <2>1. PICK w \in Requests : pc[w] \in Saving /\ At(w) = b /\ i \in DOMAIN files[w]
    BY <1>4 DEF SetOnTheWay
  <2>2. w # r
    BY <1>2, <2>1
  <2>3. QED
    BY <1>1, <2>1, <2>2 DEF SetOnTheWay, Same, At, BucketOf
<1>5. CASE Safe(b)
  <2>1. ~Holds(r, b) /\ ~Comes(r, b) /\ ~IsBlind(r, b)'
    BY <1>2, <1>3 DEF Holds, Comes, IsBlind
  <2>2. QED
    BY <1>1, <1>2, <1>5, <2>1, SafeKept DEF redisVars
<1>6. QED
  BY <1>4, <1>5 DEF QuietInv, Guarded

\* Filling: a list grows only by the files that are on their way, and no fill
\* brings the certificate.
LEMMA GuardedStoring ==
  ASSUME QuietInv, NEW r \in Requests, Storing(r),
         NEW b \in Buckets, b \notin failed', NEW c \in Certs, NEW i \in list'[b],
         <<b, c>> \in quiet, buffer'[b][i] = c
  PROVE  SetOnTheWay(b, i)' \/ Safe(b)'
<1> USE DEF QuietInv, TypeInv, TypeOK
<1>1. \A w \in Requests : w # r => Same(w)
  BY OthersKept
<1>2. At(r) \in Buckets /\ pc[r] \in {"store", "expire", "save"}
  BY DEF At, BucketOf, Buckets, Storing, StoreNothing, Store, ExpireList, Save, FillFails
<1>3. bucket[b] => bucket'[b]
  BY DEF Storing, StoreNothing, Store, ExpireList, Save, FillFails, redisVars
<1>4. pc'[r] \in {"expire", "save", "done"}
  BY DEF Storing, StoreNothing, Store, ExpireList, Save, FillFails, Finish, AfterSadd
<1>5. Safe(b) => Safe(b)'
  <2>1. ~Holds(r, b) /\ ~Comes(r, b) /\ ~IsBlind(r, b)'
    BY <1>2, <1>4 DEF Holds, Comes, IsBlind
  <2>2. QED
    BY <1>1, <1>3, <2>1, SafeKept
<1>6. b \notin failed
  BY DEF Storing, StoreNothing, Store, ExpireList, Save, FillFails, historyVars
<1>7. ASSUME SetOnTheWay(b, i), ~(pc[r] \in Saving /\ At(r) = b /\ i \in DOMAIN files[r])
      PROVE  SetOnTheWay(b, i)'
  <2>1. PICK w \in Requests : pc[w] \in Saving /\ At(w) = b /\ i \in DOMAIN files[w]
    BY <1>7 DEF SetOnTheWay
  <2>2. w # r
    BY <1>7, <2>1
  <2>3. QED
    BY <1>1, <2>1, <2>2 DEF SetOnTheWay, Same, At, BucketOf
<1>8. i \in list[b] /\ buffer[b][i] = c => SetOnTheWay(b, i) \/ Safe(b)
  BY <1>6 DEF Guarded
<1>9. CASE StoreNothing(r)
  BY <1>5, <1>7, <1>8, <1>9 DEF StoreNothing, redisVars
<1>10. CASE Store(r)
  <2>1. CASE At(r) = b /\ i \in DOMAIN files[r]
    BY <1>4, <1>10, <2>1 DEF Store, SetOnTheWay, At, BucketOf, AfterSadd
  <2>2. CASE ~(At(r) = b /\ i \in DOMAIN files[r])
    <3>1. i \in list[b] /\ buffer[b][i] = c
      BY <1>2, <1>10, <2>2 DEF Store
    <3>2. QED
      BY <1>5, <1>7, <1>8, <2>2, <3>1
  <2>3. QED
    BY <2>1, <2>2
<1>11. CASE ExpireList(r)
  <2>1. i \in list[b] /\ buffer[b][i] = c
    BY <1>11 DEF ExpireList
  <2>2. SetOnTheWay(b, i) => SetOnTheWay(b, i)'
    <3>1. CASE At(r) = b /\ i \in DOMAIN files[r]
      BY <1>11, <3>1 DEF ExpireList, SetOnTheWay, At, BucketOf, localVars
    <3>2. CASE ~(At(r) = b /\ i \in DOMAIN files[r])
      BY <1>7, <3>2
    <3>3. QED
      BY <3>1, <3>2
  <2>3. QED
    BY <1>5, <1>8, <2>1, <2>2
<1>12. CASE Save(r)
  <2>1. PICK sent \in SUBSET DOMAIN files[r] :
          /\ buffer' = [buffer EXCEPT ![At(r)] =
                          [j \in Slots |-> IF j \in sent THEN files[r][j] ELSE buffer[At(r)][j]]]
          /\ \/ sent = DOMAIN files[r]
             \/ failed' = failed \cup {At(r)}
    BY <1>12 DEF Save
  <2>2. i \in list[b] /\ i \in Slots
    BY <1>12 DEF Save
  <2>3. CASE At(r) = b /\ i \in DOMAIN files[r]
    <3>1. buffer'[b][i] = files[r][i]
      BY <2>1, <2>2, <2>3
    <3>2. files[r][i] # c
      BY <1>12, <2>3 DEF Save, QuietGone, NotCarried, Filling, Range
    <3>3. QED
      BY <3>1, <3>2
  <2>4. CASE ~(At(r) = b /\ i \in DOMAIN files[r])
    <3>1. buffer'[b][i] = buffer[b][i]
      BY <2>1, <2>2, <2>4
    <3>2. QED
      BY <1>5, <1>7, <1>8, <2>2, <2>4, <3>1
  <2>5. QED
    BY <2>3, <2>4
<1>13. CASE FillFails(r)
  <2>1. At(r) # b /\ i \in list[b] /\ buffer[b][i] = c
    BY <1>13 DEF FillFails, redisVars
  <2>2. QED
    BY <1>5, <1>7, <1>8, <2>1
<1>14. QED
  BY <1>9, <1>10, <1>11, <1>12, <1>13 DEF Storing

\* After a bucket an invalidation comes to the buckets that were left.
LEMMA NextComes ==
  ASSUME TypeInv, NEW r \in Requests, left[r] # <<>>, NextBucket(r), NEW b \in Buckets
  PROVE  /\ b \in Range(Tail(left[r])) => Comes(r, b)'
         /\ ~IsBlind(r, b)'
<1> USE DEF TypeInv, TypeOK
<1>1. CASE Len(left[r]) = 1
  <2>1. Range(Tail(left[r])) = {}
    BY <1>1, HeadAndTail
  <2>2. pc'[r] = "done"
    BY <1>1 DEF NextBucket, Finish
  <2>3. QED
    BY <2>1, <2>2 DEF IsBlind
<1>2. CASE Len(left[r]) # 1
  BY <1>2 DEF NextBucket, Comes, IsBlind
<1>3. QED
  BY <1>1, <1>2

\* Invalidating: a bucket that is no longer named is held, and what is held is
\* dropped.
LEMMA GuardedDropping ==
  ASSUME QuietInv, NEW r \in Requests, Dropping(r),
         NEW b \in Buckets, b \notin failed', NEW c \in Certs, NEW i \in list'[b],
         <<b, c>> \in quiet, buffer'[b][i] = c
  PROVE  SetOnTheWay(b, i)' \/ Safe(b)'
<1> USE DEF QuietInv, TypeInv, TypeOK
<1> DEFINE h == Head(left[r])
<1>1. \A w \in Requests : w # r => Same(w)
  BY OthersKept
<1>2. pc[r] \in {"invalidate", "drop", "empty"}
  BY DEF Dropping, ReadBucket, DropAsJson, DropWithBuffers, DropBuffers, InvalidationFails
<1>3. /\ left[r] # <<>> /\ h \in Buckets
      /\ Range(left[r]) = {h} \cup Range(Tail(left[r]))
  <2>1. left[r] # <<>> /\ left[r] \in Seq(Buckets)
    BY <1>2 DEF LeftOK
  <2>2. QED
    BY <2>1, HeadAndTail
<1> HIDE DEF h
<1>4. b \notin failed
  BY DEF Dropping, ReadBucket, DropAsJson, DropWithBuffers, DropBuffers, InvalidationFails, Told, historyVars
<1>5. SetOnTheWay(b, i) => SetOnTheWay(b, i)'
  <2>1. SUFFICES ASSUME NEW w \in Requests, pc[w] \in Saving, At(w) = b, i \in DOMAIN files[w]
                 PROVE  SetOnTheWay(b, i)'
    BY DEF SetOnTheWay
  <2>2. w # r
    BY <1>2, <2>1
  <2>3. QED
    BY <1>1, <2>1, <2>2 DEF SetOnTheWay, Same, At, BucketOf
<1>6. i \in list[b]
  <2>1. CASE DropAsJson(r)
    BY <2>1 DEF DropAsJson, DropList
  <2>2. CASE DropBuffers(r)
    BY <2>2 DEF DropBuffers, DropList
  <2>3. CASE ReadBucket(r) \/ DropWithBuffers(r) \/ InvalidationFails(r)
    BY <2>3 DEF ReadBucket, DropWithBuffers, InvalidationFails, redisVars
  <2>4. QED
    BY <2>1, <2>2, <2>3 DEF Dropping
<1>7. buffer[b][i] = c
  <2>1. CASE DropBuffers(r)
    <3>1. i \in Slots
      BY <1>6
    <3>2. b # h
      BY <2>1, <1>3 DEF DropBuffers, DropList, Told, h
    <3>3. QED
      BY <2>1, <3>1, <3>2, BuffersDropped DEF h
  <2>2. CASE ~DropBuffers(r)
    BY <2>2 DEF Dropping, ReadBucket, DropAsJson, DropWithBuffers, InvalidationFails, redisVars
  <2>3. QED
    BY <2>1, <2>2
<1>8. ASSUME Held(b), ~Holds(r, b)
      PROVE  Safe(b)'
  <2>1. PICK w \in Requests : Holds(w, b)
    BY <1>8 DEF Held
  <2>2. w # r /\ Holds(w, b)'
    BY <1>1, <1>8, <2>1, SameQuiet
  <2>3. QED
    BY <2>2 DEF Safe, Held
<1>9. ASSUME Safe(b), pc[r] = "drop", b = h, ~tied[r]
      PROVE  Safe(b)'
  <2>1. IsBlind(r, b) /\ ~Holds(r, b)
    BY <1>9 DEF IsBlind, Holds, h
  <2>2. Held(b)
    BY <1>9, <2>1 DEF Safe, Blind
  <2>3. QED
    BY <1>8, <2>1, <2>2
<1>10. ASSUME Safe(b), b # h, bucket'[b] = bucket[b], ~IsBlind(r, b)',
              b \in Range(Tail(left[r])) => Comes(r, b)'
       PROVE  Safe(b)'
  <2>1. ~Holds(r, b)
    BY <1>10 DEF Holds, h
  <2>2. Comes(r, b) => Comes(r, b)'
    BY <1>3, <1>10 DEF Comes
  <2>3. QED
    BY <1>1, <1>10, <2>1, <2>2, SafeKept
<1>11. SUFFICES ASSUME Safe(b)
                PROVE  Safe(b)'
  BY <1>4, <1>5, <1>6, <1>7 DEF Guarded
<1>12. CASE ReadBucket(r)
  <2>1. /\ pc[r] = "invalidate" /\ pc'[r] = "drop" /\ tied'[r] = bucket[h]
        /\ left' = left /\ bucket' = bucket
    BY <1>12 DEF ReadBucket, redisVars, h
  <2>2. CASE b = h
    <3>1. CASE Held(b)
      BY <1>8, <2>1, <3>1 DEF Holds
    <3>2. CASE bucket[b]
      <4>1. Holds(r, b)'
        BY <2>1, <2>2, <3>2 DEF Holds, h
      <4>2. QED
        BY <4>1 DEF Safe, Held
    <3>3. QED
      BY <1>11, <3>1, <3>2 DEF Safe
  <2>3. CASE b # h
    <3>1. ~IsBlind(r, b)' /\ (b \in Range(Tail(left[r])) => Comes(r, b)')
      BY <2>1, <2>3 DEF IsBlind, Comes, h
    <3>2. QED
      BY <1>10, <1>11, <2>1, <2>3, <3>1
  <2>4. QED
    BY <2>2, <2>3
<1>13. CASE DropAsJson(r)
  <2>1. pc[r] = "drop" /\ NextBucket(r) /\ \A d \in Buckets \ {h} : bucket'[d] = bucket[d]
    BY <1>13 DEF DropAsJson, DropBucket, h
  <2>2. CASE b = h
    <3>1. ~tied[r]
      BY <1>13, <2>2 DEF DropAsJson, DropList, Told, h
    <3>2. QED
      BY <1>9, <1>11, <2>1, <2>2, <3>1
  <2>3. CASE b # h
    <3>1. bucket'[b] = bucket[b]
      BY <2>1, <2>3
    <3>2. ~IsBlind(r, b)' /\ (b \in Range(Tail(left[r])) => Comes(r, b)')
      BY <1>3, <2>1, NextComes
    <3>3. QED
      BY <1>10, <1>11, <2>3, <3>1, <3>2
  <2>4. QED
    BY <2>2, <2>3
<1>14. CASE DropWithBuffers(r)
  <2>1. pc[r] = "drop" /\ \A d \in Buckets \ {h} : bucket'[d] = bucket[d]
    BY <1>14 DEF DropWithBuffers, DropBucket, h
  <2>2. CASE tied[r]
    <3>1. pc'[r] = "empty" /\ left' = left
      BY <1>14, <2>2 DEF DropWithBuffers
    <3>2. CASE b = h
      <4>1. Holds(r, b)'
        BY <3>1, <3>2 DEF Holds, h
      <4>2. QED
        BY <4>1 DEF Safe, Held
    <3>3. CASE b # h
      <4>1. ~IsBlind(r, b)' /\ (b \in Range(Tail(left[r])) => Comes(r, b)')
        BY <3>1 DEF IsBlind, Comes
      <4>2. bucket'[b] = bucket[b]
        BY <2>1, <3>3
      <4>3. QED
        BY <1>10, <1>11, <3>3, <4>1, <4>2
    <3>4. QED
      BY <3>2, <3>3
  <2>3. CASE ~tied[r]
    <3>1. NextBucket(r)
      BY <1>14, <2>3 DEF DropWithBuffers
    <3>2. CASE b = h
      BY <1>9, <1>11, <2>1, <2>3, <3>2
    <3>3. CASE b # h
      <4>1. ~IsBlind(r, b)' /\ (b \in Range(Tail(left[r])) => Comes(r, b)')
        BY <1>3, <3>1, NextComes
      <4>2. bucket'[b] = bucket[b]
        BY <2>1, <3>3
      <4>3. QED
        BY <1>10, <1>11, <3>3, <4>1, <4>2
    <3>4. QED
      BY <3>2, <3>3
  <2>4. QED
    BY <2>2, <2>3
<1>15. CASE DropBuffers(r)
  <2>1. b # h
    BY <1>3, <1>15 DEF DropBuffers, DropList, Told, h
  <2>2. NextBucket(r) /\ bucket' = bucket
    BY <1>15 DEF DropBuffers
  <2>3. ~IsBlind(r, b)' /\ (b \in Range(Tail(left[r])) => Comes(r, b)')
    BY <1>3, <2>2, NextComes
  <2>4. QED
    BY <1>10, <1>11, <2>1, <2>2, <2>3
<1>16. CASE InvalidationFails(r)
  <2>1. b \notin Range(left[r]) /\ bucket' = bucket /\ pc'[r] = "done"
    BY <1>16 DEF InvalidationFails, Finish, redisVars
  <2>2. b # h /\ b \notin Range(Tail(left[r])) /\ ~IsBlind(r, b)'
    BY <1>3, <2>1 DEF IsBlind
  <2>3. QED
    BY <1>10, <1>11, <2>1, <2>2
<1>17. QED
  BY <1>12, <1>13, <1>14, <1>15, <1>16 DEF Dropping

\* Expiry takes the name of a bucket only where that is counted a failure.
LEMMA GuardedExpiring ==
  ASSUME QuietInv, Expiring,
         NEW b \in Buckets, b \notin failed', NEW c \in Certs, NEW i \in list'[b],
         <<b, c>> \in quiet, buffer'[b][i] = c
  PROVE  SetOnTheWay(b, i)' \/ Safe(b)'
<1> USE DEF QuietInv, TypeInv, TypeOK
<1>1. UNCHANGED <<pc, user, kind, files, left, tied>> /\ b \notin failed
  BY DEF Expiring, BucketExpires, ListExpires, BufferExpires, localVars, historyVars
<1>2. (SetOnTheWay(b, i) => SetOnTheWay(b, i)') /\ (Safe(b) /\ (bucket[b] => bucket'[b]) => Safe(b)')
  BY <1>1 DEF SetOnTheWay, At, BucketOf, Safe, Held, Coming, Blind, Holds, Comes, IsBlind
<1>3. ASSUME NEW d \in Buckets, BucketExpires(d)
      PROVE  SetOnTheWay(b, i)' \/ Safe(b)'
  <2>1. d # b /\ bucket'[b] = bucket[b]
    BY <1>3 DEF BucketExpires
  <2>2. i \in list[b] /\ buffer[b][i] = c
    BY <1>3 DEF BucketExpires
  <2>3. QED
    BY <1>1, <1>2, <2>1, <2>2 DEF Guarded
<1>4. ASSUME NEW d \in Buckets, ListExpires(d)
      PROVE  SetOnTheWay(b, i)' \/ Safe(b)'
  <2>1. i \in list[b] /\ buffer[b][i] = c /\ bucket' = bucket
    BY <1>4 DEF ListExpires, DropList
  <2>2. QED
    BY <1>1, <1>2, <2>1 DEF Guarded
<1>5. ASSUME NEW d \in Buckets, NEW j \in Slots, BufferExpires(d, j)
      PROVE  SetOnTheWay(b, i)' \/ Safe(b)'
  <2>1. i \in list[b] /\ bucket' = bucket
    BY <1>5 DEF BufferExpires
  <2>2. buffer[b][i] = c
    BY <1>5, <2>1, CertificateCacheAssumption DEF BufferExpires
  <2>3. QED
    BY <1>1, <1>2, <2>1, <2>2 DEF Guarded
<1>6. QED
  BY <1>3, <1>4, <1>5 DEF Expiring

\* Only a delete makes a pair quiet, and it finds nobody at the bucket.
LEMMA NewlyQuiet ==
  ASSUME QuietInv, [Next]_vars, NEW b \in Buckets, NEW c \in Certs,
         <<b, c>> \in quiet', <<b, c>> \notin quiet
  PROVE  /\ cert'[c] = "gone" /\ NotCarried(c, b)'
         /\ list'[b] # {} => Safe(b)'
<1> USE DEF QuietInv, TypeInv, TypeOK
<1>1. PICK r \in Requests : Delete(r, c) /\ b \in {Owner[c], All} /\ Quiet(b)
  <2>1. UNCHANGED quiet \/ \E r \in Requests, d \in Certs : Delete(r, d)
    <3>1. ASSUME NEW r \in Requests, Reading(r) \/ Storing(r) \/ Dropping(r)
          PROVE  UNCHANGED quiet
      BY <3>1 DEF Reading, Read, Fetch, FetchFails, Query, Storing, StoreNothing, Store, ExpireList,
                  Save, FillFails, Dropping, ReadBucket, DropAsJson, DropWithBuffers, DropBuffers,
                  InvalidationFails, historyVars
    <3>2. ASSUME NEW r \in Requests, Changing(r)
          PROVE  UNCHANGED quiet \/ \E d \in Certs : Delete(r, d)
      BY <3>2 DEF Changing, Generate, Clear, historyVars
    <3>3. Expiring \/ UNCHANGED vars => UNCHANGED quiet
      BY DEF Expiring, BucketExpires, ListExpires, BufferExpires, vars, historyVars
    <3>4. QED
      BY <3>1, <3>2, <3>3 DEF Next
  <2>2. PICK r \in Requests, d \in Certs : Delete(r, d)
    BY <2>1
  <2>3. quiet' = quiet \cup {<<x, d>> : x \in {y \in {Owner[d], All} : Quiet(y)}}
    BY <2>2 DEF Delete
  <2>4. PICK x \in {y \in {Owner[d], All} : Quiet(y)} : <<b, c>> = <<x, d>>
    BY <2>3
  <2>5. QED
    BY <2>2, <2>4
<1>2. \A w \in Requests : w # r => Same(w)
  BY <1>1, OthersKept DEF Changing
<1>3. /\ cert'[c] = "gone" /\ pc'[r] = "invalidate" /\ left'[r] = BucketsOfDelete(c)
      /\ bucket' = bucket /\ list' = list
  BY <1>1 DEF Delete, Invalidate, redisVars
<1>4. NotCarried(c, b)'
  BY <1>1, <1>2, <1>3 DEF NotCarried, Quiet, Filling, At, BucketOf, Same
<1>5. ASSUME list'[b] # {}
      PROVE  Safe(b)'
  <2>1. bucket'[b]
    BY <1>1, <1>3, <1>5 DEF Quiet
  <2>2. b \in Range(left'[r])
    BY <1>1, <1>3 DEF BucketsOfDelete, Range
  <2>3. Coming(b)'
    BY <1>3, <2>2 DEF Coming, Comes
  <2>4. ASSUME NEW w \in Requests
        PROVE  ~IsBlind(w, b)'
    <3>1. CASE w = r
      BY <1>3, <3>1 DEF IsBlind
    <3>2. CASE w # r
      <4>1. ~Invalidating(w, b)
        BY <1>1 DEF Quiet
      <4>2. pc[w] = "drop" => b # Head(left[w])
        BY <4>1, HeadAndTail DEF Invalidating, LeftOK
      <4>3. QED
        BY <1>2, <3>2, <4>2 DEF IsBlind, Same
    <3>3. QED
      BY <3>1, <3>2
  <2>5. QED
    BY <2>1, <2>3, <2>4 DEF Safe, Blind
<1>6. QED
  BY <1>3, <1>4, <1>5

\* What is gone stays gone.
LEMMA GoneStays ==
  ASSUME TypeInv, [Next]_vars, NEW c \in Certs, cert[c] = "gone"
  PROVE  cert'[c] = "gone"
<1> USE DEF TypeInv, TypeOK
<1>1. ASSUME NEW r \in Requests, Reading(r) \/ Storing(r) \/ Dropping(r)
      PROVE  UNCHANGED cert
  BY <1>1 DEF Reading, Read, Fetch, FetchFails, Query, Storing, StoreNothing, Store, ExpireList,
              Save, FillFails, Dropping, ReadBucket, DropAsJson, DropWithBuffers, DropBuffers,
              InvalidationFails
<1>2. ASSUME NEW r \in Requests, Changing(r)
      PROVE  cert'[c] = "gone"
  BY <1>2 DEF Changing, Generate, Delete, Clear
<1>3. Expiring \/ UNCHANGED vars => UNCHANGED cert
  BY DEF Expiring, BucketExpires, ListExpires, BufferExpires, vars
<1>4. QED
  BY <1>1, <1>2, <1>3 DEF Next

\* Every step keeps QuietInv.
LEMMA QuietInvStep == QuietInv /\ [Next]_vars => QuietInv'
<1> SUFFICES ASSUME QuietInv, [Next]_vars
             PROVE  QuietInv'
  OBVIOUS
<1>1. TypeInv'
  BY TypeInvStep DEF QuietInv
<1>2. QuietGone'
  <2> SUFFICES ASSUME NEW b \in Buckets, NEW c \in Certs, <<b, c>> \in quiet'
               PROVE  cert'[c] = "gone" /\ NotCarried(c, b)'
    BY DEF QuietGone
  <2>1. CASE <<b, c>> \in quiet
    BY <2>1, GoneStays, NotCarriedKept DEF QuietInv, QuietGone
  <2>2. CASE <<b, c>> \notin quiet
    BY <2>2, NewlyQuiet
  <2>3. QED
    BY <2>1, <2>2
<1>3. ASSUME NEW b \in Buckets, b \notin failed'
      PROVE  Guarded(b)'
  <2> SUFFICES ASSUME NEW c \in Certs, NEW i \in list'[b], <<b, c>> \in quiet', buffer'[b][i] = c
               PROVE  SetOnTheWay(b, i)' \/ Safe(b)'
    BY DEF Guarded
  <2>1. CASE <<b, c>> \notin quiet
    BY <2>1, NewlyQuiet
  <2>2. CASE <<b, c>> \in quiet
    <3>1. ASSUME NEW r \in Requests, Reading(r) \/ Changing(r)
          PROVE  SetOnTheWay(b, i)' \/ Safe(b)'
      <4>1. UNCHANGED <<list, buffer, failed>>
        BY <3>1 DEF Reading, Read, Fetch, FetchFails, Query, Changing, Generate, Delete, Clear,
                    redisVars, historyVars
      <4>2. b \notin failed /\ i \in list[b] /\ buffer[b][i] = c
        BY <1>3, <4>1
      <4>3. QED
        BY <2>2, <3>1, <4>2, GuardedReadingChanging
    <3>2. ASSUME NEW r \in Requests, Storing(r) \/ Dropping(r)
          PROVE  SetOnTheWay(b, i)' \/ Safe(b)'
      BY <1>3, <2>2, <3>2, GuardedStoring, GuardedDropping
    <3>3. CASE Expiring
      BY <1>3, <2>2, <3>3, GuardedExpiring
    <3>4. CASE UNCHANGED vars
      BY <1>3, <2>2, <3>4 DEF vars, redisVars, localVars, historyVars, QuietInv, Guarded,
                  SetOnTheWay, At, BucketOf, Safe, Held, Coming, Blind, Holds, Comes, IsBlind
    <3>5. QED
      BY <3>1, <3>2, <3>3, <3>4 DEF Next
  <2>3. QED
    BY <2>1, <2>2
<1>4. QED
  BY <1>1, <1>2, <1>3 DEF QuietInv

\* A certificate deleted while nobody is at a bucket is never again found
\* there once an invalidation has got to it, unless a command has failed or
\* the TTL of the bucket has run out before that of its list.
THEOREM CacheQuietDelete == Spec => []QuietDeleteHolds
<1>1. Init => QuietInv
  BY TypeInvInit DEF QuietInv, Init, QuietGone, Guarded
<1>2. QuietInv => QuietDeleteHolds
  <2> SUFFICES ASSUME QuietInv, NEW b \in Buckets \ failed, NEW c \in Certs, <<b, c>> \in quiet,
                      NEW i \in list[b], buffer[b][i] = c, ~SetOnTheWay(b, i)
               PROVE  \E r \in Requests : Invalidating(r, b)
    BY DEF QuietDeleteHolds
  <2>1. Safe(b)
    BY DEF QuietInv, Guarded
  <2>2. PICK r \in Requests : Holds(r, b) \/ Comes(r, b)
    BY <2>1 DEF Safe, Held, Coming
  <2>3. pc[r] \in {"invalidate", "drop", "empty"} /\ left[r] # <<>> /\ left[r] \in Seq(Buckets)
    BY <2>2 DEF Holds, Comes, QuietInv, TypeInv, TypeOK, LeftOK
  <2>4. b \in Range(left[r])
    BY <2>2, <2>3, HeadAndTail DEF Holds, Comes
  <2>5. QED
    BY <2>3, <2>4 DEF Invalidating
<1>3. QED
  BY <1>1, <1>2, QuietInvStep, PTL DEF Spec
=============================================================================
