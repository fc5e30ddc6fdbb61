# Formal models of backend-shelby-template

TLA+ models of the parts of this NestJS backend in which requests meet: the bids
on an item in Redis and the locks around them, the refresh-token sessions in
PostgreSQL, the certificates and the response cache in front of them, the failure
state of that cache, and the accounts from signup to session login. TLC checks
them on small instances; TLAPS proves the theorems below for every value of the
constants.

    tlc -config MCBids.cfg MCBids        # a run: module and .cfg as listed below
    tlapm BidsProofs.tla                 # the proofs of a module

`PROJECT.json` lists the components, the runs with their properties, the source
lines each definition stands for, the hazards and the theorems.

## The system

One Node.js process serves HTTP; handlers run interleaved at their awaits, and
several processes may share Redis and PostgreSQL.

| Component | State it keeps | Operations | What is hard | Modelled in |
|---|---|---|---|---|
| Custom lock (`redis.service.ts`, `promise.service.ts`) | key `lock:...` with a TTL | `customLock`, `customUnlock`, `retryOnRejection`, `resolveOrTimeout` | SET and GET apart, commands of attempts given up, expiry, retries | `CustomLock`, against `Lease` |
| Bids (`bids.service.ts`) | the item, JSON under a Redis key with a TTL | bid with the custom lock, without lock, with Redlock, with WATCH | read-check-write over three commands, errors inside the section, one connection for all | `Auction`, `Bids` (custom lock), `BidVariants` (the others) |
| Redlock (`redlock.instance.ts`) | key `lock-...` with a TTL | acquire with retries, release | not released by the paths that throw | `BidVariants`, against `Lease` |
| Refresh-token sessions (`auth-jwt`) | table `RTSession`, cookies | login, refresh, logout, cron job | several queries per request, overlapping requests of one browser, lost answers | `RtSessions`, against `SessionBook` |
| Cache failure state (`cache.service.ts`, `getCache`) | `failureCount`, `failureStart` | read, refuse, reset | shared by all requests, time-outs that come late | `CacheBreaker` |
| Response cache and buckets (`cache.interceptor.ts`, `cache.service.ts`), certificates | table `Certificate`; bucket sets, sets of buffer keys, buffers | read, fill, generate, delete, clear; invalidate as JSON or as buffers | nothing is awaited, fills race invalidations, each command may fail | `CertificateCache`, against `CertificateView` |
| Signup (`auth-jwt`) | table `User` | signup, mail, confirm | mail fails after the user was created, tokens collide, old links | `Signup` |
| Session login (`auth-session`) | sessions in Redis (express-session) | login, status, logout | requests end with a session they loaded earlier, ignored errors | `Accounts`; with `Signup` against `ConfirmedSessions` |
| Promise service, Redis service | none | `retryOnRejection`, `resolveOrTimeout`; `set`, `sadd`, ... | late commands, two commands per call | where they are used |
| Access control, exception filters | none | grants, status codes | - | as guards and outcomes |
| Context, logger, Prisma client, swagger, app | configuration | - | no protocol of their own | no |

The parts meet in few places. The bids call the lock, which runs in the promise
service's retry loop; the cache uses the same promise service for its timer; the
certificate routes are the only cached ones; auth-jwt works on its own tables and
the cookies, and its guard protects the certificate routes; the session login
finds the users that signup has created and a confirmation has confirmed.

What makes each part correct:

- lock and bids: one request inside at a time; a bid counts once and only above the
  price; everyone is answered; a lock never outlives its TTL or its release;
- sessions: one row per token, dated like the token; a session is only prolonged; a
  token that was replaced or logged out stays out; a browser that got its answers
  can refresh;
- failure state: reads are refused for recent failures only and not for long, and no
  read hangs;
- response cache: nobody is served another user's certificate; a delete stays done,
  at once when nothing runs into it and in the end when a fill does; no set is left
  without TTL;
- accounts: the link in a mail works until its user is confirmed, and for that user
  only; only confirmed users log in; and a session that was ended, or is another user's,
  stays so.

## Modules

### CustomLock, Lease, Auction, Bids

`CustomLock` is one key. `Call` starts `customLock`; an attempt is `SetNx` (SET NX
PX) and then `GetOwn` or `GetOther` (the GET that `set(..., { get: true })` adds).
`TimeOut` is `resolveOrTimeout` giving up an attempt: its SET may still be under way
(`late` counts them) and is executed later by `LateSet`. `AttemptFails` is the catch block of
`retryOnRejection` with its conditions, `Wake` the end of the sleep. `Unlock` is the
unconditional DEL of `customUnlock`, `Abandon` the end of a holder that throws or
dies. A request draws one `lockValue` for all its attempts, so the model names the
value by the request. Timers are relative (time left, time elapsed), so no clock
has to be bounded. `MayOverrun` says whether a request may stay inside for longer
than its TTL of 500 ms; the code has nothing that prevents it.

`Lease` is what a lock promises with no command in sight: it is given to one request
at a time (`Grant`), lets in only the request it is given to (`Enter`), and ends by its
holder giving it back (`GiveBack`) or by its TTL (`Lapse`), which may outlast a holder
that has left (`Abandon`) and comes under one that is still inside only with
`MayOverrun`. `RefinesLease` maps the value under the key to `holder`: a SET that takes
the key is a grant, whether its request is waiting, asleep or has given up, and the
GET that finds the own value is the entry. Both locks are shown to implement it.

`Auction` is what the bidding routes promise, with no lock in sight: a bid takes
effect in one step, at most once, above the price of that moment. `Bids` is
`createBidWithCustomLock` in the critical section of `CustomLock`: `ReadItem` (GET
and the three checks), `Rejected` (a check throws, and the lock stays until its
TTL), `WriteItem`, `Leave`. `RefinesAuction` maps the bids written to `placed`.
The item's own TTL of 10 s (the default of `set`) runs as `itemLeft`; the item's
last value is kept when the key expires, so that a bid that had read it may revive
it. `gone` is history: how long the key has been away while such a bid is on
its way; `RevivedSoonOrNever` says that this is less than the lock's TTL. The closing check is modelled by what it computes: `Number` of an ISO string is
NaN, and no comparison with NaN holds.

### RtSessions, SessionBook

The table `RTSession`, the cookies of browsers (`jar`), and requests in flight
(`req`), each at one of its awaits: `RtGuard`, `Sign`, `Find`, `Update` or `Create`,
`Delete`, and then the answer, which is received or lost. A request step is the code
between two awaits; a query is one step, since Prisma sends one statement for each.
Access and refresh token are signed, stored in cookies and expire together
(`EXPIRES_IN_AT_MINUTES` = `EXPIRES_IN_RT_MINUTES`), so one token stands for both; it is a
subject and the second it was signed in. `findRtSessionByRt` takes an expiration
time; `refreshTokens` calls it with the user id, as the model does. A failing query
(P2025, P2002) answers with an exception and leaves the cookies alone. `lost` and
`retired` are history variables; no action's guard reads `lost`, and `retired` is
read only by the assumption `SameSecond`: with `SameSecond = FALSE` no user is
signed two equal tokens. The code does not exclude that (two logins of one user
within one second get the same JWT); `RetiredStaysOut` and `CookieHasSession` are
stated under this assumption, `RowsConsistent` and `OnlyProlonged` are proved without it.

`SessionBook` is the table with no request in sight: sessions with one token at a
time are opened, prolonged to a later date under a token never used before, closed one
at a time, and cleared past their date, those and no others. `RefinesBook` maps `now`, `sessions` and
`retired` to it. Each query is then one entry in the book or none, although what it
writes was signed, and what it rests on was read, queries earlier.

### CacheBreaker

`failureCount` and `failureStart` of `CacheService`, shared by all reads. `Read` lets
a read through after the reset check, `Refuse` throws 'cache service is offline' and
counts as a failure too, `Answer` is Redis answering (an error becomes null in
`getCacheHandler` and is not counted), `TimeOut` the timer. The counter stops one
above the threshold and the times one above `failureTtl`, where no comparison in
the code tells values apart. `age` and `down` are history: how long ago the last
`failureThreshold` time-outs and the start of the failure state are. The properties are
stated with the number that the options document, not with the one the `>` of line 127
makes of it: nothing is refused without that many time-outs within `failureTtl`
(`RefusedOnlyAfterFailures`), but with that many, reads are still let through
(`IgnoredAfterFailures`, which does not hold).

### BidVariants

The other three routes over one item. `Call` sends a request to its route; `Acquire`,
`Retry`, `GiveUp` and `Undo` are `acquire` of the redlock library, `Watch` the WATCH,
`Read` or `Throws` the GET with the checks, `Write` the SET, `Exec` the MULTI/SET/EXEC,
`Release` the script that deletes the lock if it still has this lock's value, `Fail` a
Redis error between two commands. An attempt to acquire may set the key and lose its
answer; `acquire` then finds its own value there and retries, and before it throws it
tries once to delete what it has left. A lock has `lockLeft` units of the TTL that the
route passes (500 ms), counted down by `Tick`; what stays of a request that throws is
gone when they are (`LeftLockFreed`). WATCH belongs to a connection (`Conn`), and the code
has one for all requests of a process: EXEC ends the WATCH of every request on it, and
a request that throws leaves its WATCH, so that a later EXEC of that connection may be
aborted and still be answered with 200. A SET without TTL, as in `Exec`, takes away the
TTL of the item (`hasTtl`). The expiry of the item aborts a transaction, as in
current Redis versions. Reconnections are left out.

Redlock's key is `lock-<item key>` and the custom lock's `lock:<item key>`: the two do not
exclude each other, which is why the routes are modelled in two modules.
`MayOverlap = FALSE` is the assumption that makes `Auction` a fair question: two bids
are under way together only if the lock, or WATCH on connections of their own, keeps
them apart. With `MayOverlap` TLC finds the lost updates at once, which the comments on
the two routes concede ("No locking", "It doesn't work"). `MayOverrun` is as in `CustomLock`:
`acquire` never extends a lock, so the option `automaticExtensionThreshold` has no effect.
`RefinesLease` maps the key to the same `Lease` as above. It holds with `MayOverrun` too: the
script of a late release finds another value and throws, where `customUnlock` deletes.

### CertificateCache, CertificateView

The table `Certificate` and the three kinds of Redis keys: `bucket` (which data keys
belong to a bucket), `list` (the set of buffer keys under a data key, with `listTtl`) and
`buffer`. A read is `Read` (SMEMBERS of the data key), `Fetch` (the GETs, all sent at
once) or `FetchFails` and `Query`; the answer is then sent, and the fill goes on by
itself: `Store` (both SADDs), `ExpireList`, `Save` (the SETs). `Generate`, `Delete` and `Clear`
change a certificate or nothing and start an invalidation that is not awaited either:
`ReadBucket` and then `DropAsJson`, or `DropWithBuffers` and `DropBuffers`, bucket after bucket.
With `MayFail` each command may fail. The SADDs of a fill are sent by two promises: either
may fail without the other (`Store`, `FillFails`). A SMEMBERS that fails ends the
invalidation; a DEL that fails is only noticed at the end and leaves its key, while the
others are executed (`Told`). Keys expire at any time. `failed` records the buckets at which that happened: `TtlOnTheWay` and
`QuietDeleteHolds` are promised of the others only, `OwnOnly` and `NeverComesBack` of all.

A delete that meets a fill is not final at once: the fill has read the database before
and stores the old list afterwards. What holds is in two properties: a delete that
nothing runs into holds whatever comes later (`QuietDeleteHolds`), and any other is
forgotten once the buffers have expired (`NeverComesBack`). Generating a
certificate does not clear `all-certificates`, and an admin who generates one for another
user clears his own bucket: new certificates may be missing from a list for a minute.
No statement of the repository says otherwise, and no property does.

`CertificateView` is the cache with no key and no request in sight: for each route a
set of certificates, which is brought up to date with the rows of the route, all at one
moment (`Load`), and otherwise only shrinks (`Forget`). `RefinesView` maps to it what a bucket's buffers
and the fills under way hold (`shown`): whatever fails or expires, and whichever fills and
invalidations meet, no route ever shows a certificate it did not get from its own rows of the table.

### Signup, Accounts, ConfirmedSessions

`Signup` is the table `User`, identified by e-mail, with `confirmed` and `tokenOf`, and the
links in the mails. The route of the confirmation is open to all and asks for a token only:
`Click` is any client with any token, mailed to it or not. A token is one of 9000 numbers,
drawn blindly: `Create` takes any, also one that was used before. Therefore nothing
is said about who has confirmed an address. `MailedLinkWorks` says what the unique column and the
order of the writes do guarantee: the link in a mail is good until its user is confirmed, and
until then for no other user. An old link is good for whoever has its token now. `Find`, `Create` and `SendMail` are the three awaits of a signup, `Lookup`
and `Confirm` the two of a confirmation; `CreateConflicts` is P2002, and `MailFails` leaves a
user who can neither confirm nor, for the unique e-mail, sign up again. A query is one
SQL statement, and its failure is like a request that stops before it.

`Accounts` adds auth-session. The middleware loads the session when a request arrives
and ends it with the answer; in between other requests run. `Login` carries any
session id ever given, or none; `Regenerate` (passport deletes the old session) and `Save`
(the new one is stored) are two Redis commands. `Status` holds what it has loaded until
`AnswerStatus`, which with `resave: false` renews a TTL and writes nothing. `Logout` is
`Forget` (passport saves the session without its user) and `Drop` (destroy), each of
which may fail: `logoutFromSystemAsSession` ignores both errors and answers 204.
`MayFailTwice = FALSE` assumes that not both fail; otherwise TLC finds the session alive.
express-session 1.18, passport 0.7 and connect-redis 7.1 are modelled from how
`app.module.ts` configures them and the guards and the helper call them. The rolling
cookie of a late `status` answer may replace the cookie of a newer login; browsers are
left out, so that this is one more request with an old id.

`ConfirmedSessions` is what the two modules promise together: a token stands for one pending
user at a time, who is confirmed after somebody has presented it; a session id is logged in
by once, by a confirmed user, and is then left. `RefinesSessions` maps `tokenOf`, the tokens
that clicks have `sent`, the users in the store (`loggedIn`), `given` and `ended` to it. That
a confirmation updates the row which its lookup found, whatever has happened in between, is what makes it
one step there.

## Runs

| Run | Instance | Shows |
|---|---|---|
| `bids` | 3 requests (prices 1, 2, 2), Ttl 2, Delay 1, Timeout 1, default retries, ItemTtl 2 | `MutualExclusion`, `HolderOwnsKey`, `NoKeyLeftBehind`; `NothingLost` and `RefinesAuction`; `RefinesLease`, `RevivedSoonOrNever`; `EveryBidAnswered`, `AbandonedKeyFreed` |
| `bids_overrun` | the same with `MayOverrun` | `OnlyOwnKeyDeleted` is violated: the DEL of a slow holder frees the next holder's lock |
| `bids_closed` | as `bids` | `NoBidAfterEnd` is violated: the closing check never throws |
| `rt_sessions` | 2 users, 1 browser, 2 requests in flight, 3 seconds, tokens of 1 second, 2 rows created | `RowsConsistent`, `OnlyProlonged`, `RetiredStaysOut`, `CookieHasSession`, `RefinesBook` |
| `rt_sessions_owner` | as above | `OwnSession` is violated: a login updates the session another user has left in the browser |
| `rt_sessions_refresh` | tokens that do not expire | `RefreshNeedsSession` is violated: a logout between guard and write of a refresh |
| `cache_breaker` | 3 requests, Timeout 1, FailureTtl 5, threshold 3 | `RefusedOnlyAfterFailures`, `RefusalsEnd`, `EveryReadEnds` |
| `cache_breaker_threshold` | as above | `IgnoredAfterFailures` is violated: after three time-outs within `failureTtl` a read is let through |
| `cert_cache` | an admin and a user with a certificate each, 3 requests, failures, any expiry, one client that clears two buckets | `OwnOnly`, `QuietDeleteHolds`, `NeverComesBack`, `TtlOnTheWay`, `RefinesView` |
| `cert_cache_tied` | the same with 2 requests, no failures, buckets that outlive their lists | `TiedToBucket` is violated: an invalidation deletes the bucket of a list that a fill has just stored |
| `bid_variants` | 3 bids (prices 1, 2, 2) on any of the three routes, two on one connection, one retry, Ttl 2 | `RefinesAuction`, `NothingLost`, `AnsweredStands`; `MutualExclusion`, `RefinesLease`; `LeftLockFreed` |
| `accounts` | 2 addresses, 2 tokens, 2 requests in flight, 2 sessions | `MailedLinkWorks`, `LoginNeedsConfirmation`, `EndedStaysOut`, `SessionKeepsUser`, `RefinesSessions`; `LinkConfirms` |

Why the bounds are enough to be interesting. Three bids are the smallest number
with a holder, one that takes over after an expiry and one whose late SET comes in
between, and two of them bid the same price; a Ttl of 2 and a Timeout of 1 let a
lock expire between any two commands of an attempt and let attempts time out before
and after their SET. One browser suffices for sessions because
requests of different browsers never carry the same token (two users logging in at
one browser do matter, and are there); two requests in flight race every pair of
queries, and three seconds let tokens be signed in one order, written in the other, and expire.
A clock and a counter of rows are bounded by `MaxTime` and `MaxSessions` in the guards
of `Tick` and `Create`; the session runs may stop there, hence `CHECK_DEADLOCK FALSE`.
The cache run has the threshold of the code (3) and lets all requests time out at
different moments of the window, before and after a reset. Three requests let a
read, a fill and an invalidation of one bucket meet, or two invalidations and a fill;
two certificates of two users tell an own list from the list of all and let the latter
shrink; a certificate is generated and deleted once, and a request slot is used
once, hence `CHECK_DEADLOCK FALSE` there and in `bid_variants`. Two connections give
WATCH a connection of its own and a shared one; a Ttl of 2 lets a lock run out under
another request's retries. Two addresses with two tokens let signups collide, a freed token
be drawn by the other user and an old link meet his row; two sessions let a login
follow another while a request still holds the first, and `IdsLeft` bounds the logins by the ids
left. An invalidation of two buckets is that of a delete, or of the client who clears
the buckets in `Clearable`; those of one bucket are the ones that `Generate` starts.

The proofs do not depend on these bounds.

### Fairness

- `bids`: time passes, the timers of the retry loop fire, and Redis answers a
  request that is inside. Nothing is assumed of Redis answering SET and GET on the
  lock: `EveryBidAnswered` says the timers are enough. That a request inside is
  answered is an assumption: `createBidWithCustomLock` puts no time-out on those
  commands.
- `cache_breaker`: time passes and expired timers run. Redis may never answer.
- `bid_variants`: time passes (`Tick`), and nothing else; requests may stop anywhere.
- `accounts`: a confirmation that has begun goes on (`Lookup`, `Confirm`); the server
  runs every request it has accepted. Nothing is assumed of signups, mails and sessions.
- the runs of `RtSessions` and `CertificateCache` state safety only and assume no fairness.

## Proofs

| Theorem | Statement | Argument |
|---|---|---|
| `LockTyping` | `LockTypeOK` | one case per action |
| `LockHolderOwnsKey`, `LockMutualExclusion` | no two requests inside, if none outlives its key | mutual exclusion is not inductive: `HolderOwnsKey` is, since only the request whose value the key holds gets in and `MayPass` makes it leave before the key expires |
| `LockLeavesNothing` | `NoKeyLeftBehind`, with or without overrun | commands of one request are executed in order, so a request that has got its GET answered has no late SET |
| `LockRefinesLease` | `CustomLock` implements `Lease`, if `~MayOverrun` | by `HolderOwnsKey` the DEL of a request inside gives back its own lease, and the key that expires is nobody's inside |
| `BidsImplementLock`, `BidsMutualExclusion` | the bids use the lock as specified | every step of `Bids` is a step of `CustomLock` or leaves its variables alone |
| `BidsRefineLease`, `BidsDeleteOwnKey` | the bids implement `Lease`, and `OnlyOwnKeyDeleted`, if `~MayOverrun` | from the lock's theorems; the second is what `bids_overrun` violates without the hypothesis |
| `BidsReviveSoon` | `RevivedSoonOrNever`, if `~MayOverrun` | `HeldSinceExpiry`: what is left of the lock of a bid about to write, and the time the item has been away, together are less than the TTL of the lock |
| `BidsRefineAuction`, `BidsLoseNothing` | the bids implement `Auction`, and with it `NothingLost` | `SeenIsCurrent`: what a request about to write has read is still the item |
| `RtSessionsTyping` | `TypeOK` | strengthened by `Carried`: which tokens a request holds at each await, and that none is from the future or older than the one it replaces |
| `RtSessionsRows`, `RtSessionsProlonged` | `RowsConsistent`, `OnlyProlonged` | an update renames one row to an unused token that was signed after the old one |
| `RtSessionsRetired` | `RetiredStaysOut`, if `~SameSecond` | `Fresh`: a token signed and not yet stored is held by one request only and has never been in the table |
| `RtSessionsRefineBook` | `RtSessions` implements `SessionBook`, if `~SameSecond` | one lemma per write: an update prolongs and a create opens under a fresh token, by `Fresh`; a delete closes one session, by `RowsConsistent` |
| `RtSessionsCookie` | `CookieHasSession`, if `~SameSecond` | `CookieInv`: a token whose answer is still coming is in no cookie and no other request (`Undelivered`), a browser's token is carried by its own requests only (`OneBrowser`), and a browser whose session is gone has an answer coming or lost (`CookiesHold`) |
| `CacheBreakerTyping`, `CacheBreakerRefusals` | `TypeOK`, `RefusedOnlyAfterFailures` | `FailuresSinceStart`: the failures counted are time-outs younger than `failureStart`; refusals add none, because they happen past the threshold only; with more than `failureThreshold` counted, the last `failureThreshold` are time-outs within the window |
| `CacheBreakerEnds` | `RefusalsEnd` | `DownSinceStart`: the failure state set in no earlier than `failureStart`, and no refusal moves either |
| `CacheTyping`, `CacheTtl` | `TypeOK`, `TtlOnTheWay` | the request whose SADD made a list is the one that sends its EXPIRE; a fill that adds nothing finds a list that has its own |
| `CacheOwnOnly` | `OwnOnly` | strengthened to the buffers and the fills under way: under a user's bucket there are only files of that user |
| `CacheNeverComesBack` | `NeverComesBack` | only `Query` brings certificates in, and only live ones |
| `CacheQuietDelete` | `QuietDeleteHolds` | while the invalidation of the delete is on, it covers the bucket; after it, a buffer with the certificate is out of the list, or in it only under a SET of newer files |
| `CacheRefinesView` | `CertificateCache` implements `CertificateView` | a query carries all rows of its bucket (`ListingComplete`) and is a `Load`; every other step of a fill, an invalidation or an expiry leaves `shown` with what it had or less |
| `VariantsTyping`, `VariantsAnswersStand` | `TypeOK`, `AnsweredStands` | an answered bid has been written, and prices only rise |
| `VariantsRefineAuction`, `VariantsLoseNothing` | the three routes implement `Auction`, if `~MayOverlap` and `~MayOverrun` | who is about to write, and is not to be aborted, has read the current item |
| `VariantsRefineLease` | Redlock in `BidVariants` implements `Lease` | a release by value gives back the own lease or does nothing; `MayPass` keeps the lock of a request inside, or `MayOverrun` allows its end |
| `VariantsMutualExclusion` | `MutualExclusion`, if `~MayOverrun` | from the lease alone: only its holder is inside (`OnlyHolder`) |
| `AccountsTyping`, `AccountsLogin` | `TypeOK`, `LoginNeedsConfirmation` | also what a login has under way is of a confirmed user, and no confirmation is taken back |
| `AccountsMailedLinkWorks` | `MailedLinkWorks` | `LinkInv`: no two rows have one token (`OneEach`), what is in a mail, or on its way into one, is the token of its pending row (`LinksMatch`, `MailsOnTheWay`), and a confirmation under way has found the row it updates by a token that was sent (`TokensSent`) |
| `AccountsEnded`, `AccountsSessionKeepsUser` | `EndedStaysOut` if `~MayFailTwice`, `SessionKeepsUser` | only `Save` writes a user, under an id never given before |
| `AccountsRefineSessions` | `Accounts` implements `ConfirmedSessions`, if `~MayFailTwice` | the invariants of the four theorems above together (`PromiseInv`), and `KeptGiven`: the store has keys of ids that were given only, so that a session that expires is one somebody has logged in by |

Assumptions are the named `ASSUME`s of the modules (`CustomLockAssumption`,
`BidsAssumption`, `RtSessionsAssumption`, `CacheBreakerAssumption`, `CertificateCacheAssumption`,
`BidVariantsAssumption`, `SignupAssumption`, `AccountsAssumption`) and the hypotheses above
(`~MayOverrun`, `~SameSecond`, `~MayOverlap`, `~MayFailTwice`). `RtSessionsAssumption` has the user ids below the first
second of the model: ids are small integers, and seconds since 1970 are not.

Only model-checked: the liveness properties (`EveryBidAnswered`, `AbandonedKeyFreed`,
`EveryReadEnds`, `LeftLockFreed`, `LinkConfirms`), for which the prover has no rules: they rest on fairness and `ENABLED`, and on counting
down retries and times. The properties of the violation runs are refuted there, and one of
them is proved under the condition the code does not keep (`BidsDeleteOwnKey`).

## Where code and documentation disagree

- An item never closes to bids (`bids.service.ts:79`).
- `customUnlock` deletes a lock whoever holds it (`redis.service.ts:275`).
- A login updates the session of whoever used the browser before (`auth-jwt.service.ts:72`).
- A refresh that overlaps a logout creates a session (`auth-jwt.service.ts:86`).
- The failure state of the cache takes one failed read more than `failureThreshold` says, by the `>`
  in `cache.service.ts:127`. It may also last less than `failureTtl`, being measured from the first
  failure counted (line 139): `IgnoredAfterFailures` fails with `>=`, too.
- A list of the cache may be left without a bucket that names it (`cache.service.ts:356`).

Two more that no run shows: the session cookie lives two minutes where the comment says
"30 min" (`app.module.ts:248`), and Redlock's automatic extension is configured but never
used (`redlock.instance.ts:41`).

## Plan

Done, in this order, each with its proofs:

1. `CustomLock`, `Auction`, `Bids`.
2. `RtSessions`.
3. `CacheBreaker`.
4. `CertificateCache`: the response cache over the certificate routes.
5. `BidVariants`: no lock, Redlock and WATCH against the same `Auction`.
6. `Signup` and `Accounts`: signup, confirmation and the session login.

7. The abstract specifications `Lease` (of both locks), `SessionBook`, `CertificateView` and
   `ConfirmedSessions`, with proofs that the modules implement them.

Next: `NeverComesBack`, `QuietDeleteHolds` and `EndedStaysOut` are proved of the detailed modules;
what of them follows from the abstract ones alone could be moved there, as `NothingLost` was to `Auction`.

## Not modelled

- Finer grains: the SADDs that a fill sends in one go, and the DELs of one step of an
  invalidation, are not torn apart by commands of other processes (each may fail by
  itself); sessions of `RtSessions` expire on whole seconds; the list of ids a client may clear is
  a constant; an unanswered SADD is one that has not happened.
- Who sends a token to the confirmation route: see `Click` above.
- `resolveLimited` (promise service), `incrbyfloat` and `flushdb` (Redis service): tests call
  them, no code of the application does.
- The JSON and compressed entries of the response cache (`setCache`, `getBuffer` with gunzip):
  every cached route has `serializable: false`. Bids use `get` and `set` without the cache.
  Data keys of several hosts or queries that share a bucket, and buckets with several
  data keys, which only the tests have.
- Exception filters: how an error is formatted. That a failing query ends the request,
  and what it leaves behind, is part of the models.
- Access control: a static table; the grants are guards of `CertificateCache`.
- `deserializeUser` hands on a promise it does not await, so that a session counts as
  authenticated whatever the lookup finds; users are never deleted and never lose their
  confirmation, so the lookup could not find anything else.
- Context, logger, mail transport, PDF and zip generation, swagger, start-up and
  configuration: they keep no state between requests, or have no protocol whose steps
  could go wrong between each other.
