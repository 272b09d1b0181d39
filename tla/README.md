# Verification of stack-hq

stack-hq is a set of independent TypeScript packages (`packages/*/src`): building
blocks that an application combines. No package imports another; they meet where
an application composes them (a circuit breaker around a bulkhead around a retry),
or where one implements an interface of another (`RedisSessionStore` for
`SessionManager`). There are no tests in the repository, so the code and the
package READMEs are what the models are written from and compared with.

This directory holds TLA+ models of the stateful components, TLC configurations
that check them on small instances, and TLAPS proofs of the properties that hold
for every size. All file:line references are relative to `src/`.

## 1. Inventory

Node.js runs one callback at a time, so "concurrent" below means: several calls
are in progress at once and interleave at every `await`, or several processes
share one Redis.

| Component | State | Operations | What is hard | What makes it correct |
|---|---|---|---|---|
| `MessageQueue` (messaging) | pending array, in-flight map, dead letters, visibility timers, consume loops | enqueue, dequeue, ack, nack, consume/stop | timers outlive deliveries; handlers outlive timers; retries re-enter the queue | nothing lost, duplicated or revived; first deliveries FIFO; bounded retries; everything settles |
| `CircuitBreaker` (reliability) | state, counters, rolling window, openedAt | execute, getState/getStats, reset | results arrive in another state than the call was admitted in | transitions are never overdue, never skip the cycle, respect the cool-down; it recovers |
| `Bulkhead` (reliability) | active count, queue of tasks | execute (run, drainQueue) | count kept by hand over asynchronous settling | count exact, no idle slot with a queue, each task runs once |
| `retry` (reliability) | attempt number | retry | sleeps inside a slot and inside the breaker | as many attempts as configured, answers once |
| `RateLimiter` (reliability) | per key: bucket, window, log, counter | check | boundaries of windows, refills | bound on any stretch of a window; honest `retryAfterMs` |
| `RedisRateLimiter` (redis) | a counter in Redis | check | INCR, EXPIRE and TTL are separate commands of racing instances; a lost EXPIRE | same bound across instances; windows end |
| `RedisLock` (redis) | a key in Redis, one token per holder | acquire, acquireWithRetry, withLock | crashes, lost commands, expiry under the holder | a lease is never stolen; the lock frees itself |
| `Cache` (cache) | a Map in insertion order | set, get, has, delete, clear, getOrSet | eviction order, lazy expiry, `getOrSet` racing with writers | size bound, right victim, bounded staleness |
| `InMemoryEventStore`, `Aggregate`, `Projection` (architecture) | streams, pending events | append, load/replay, raise, rebuild | optimistic concurrency between load and append | state is the fold of what is stored; streams dense and append-only |
| `Saga` (architecture) | steps, completed list of a run | addStep, run | compensations that throw, runs that share a growing list | reverse order, all or nothing, nothing forgotten |
| `TokenRefreshService`, blacklist (auth) | refresh records of a family, blacklist | rotate, revokeFamily | rotations of one token interleave at awaits | one usable token per family; reuse ends the family |
| `SessionManager` with `InMemorySessionStore` or `RedisSessionStore` (auth, redis) | one record per session | create, get, touch, destroy, middleware | sharing by reference or by copy, two ways to expire, touch = get + set | not served after expiry, changes persist, destroy is final |
| `ConsistentHashRing` (scaling) | ring Map, sorted hashes | addNode, removeNode, getNode, getNodes | binary search, wrap-around, two ways to walk the ring | lookups correct, minimal remapping |
| `LoadBalancer` (scaling) | backends with counts, two cursors | next, release, add/removeBackend, setAlgorithm | counts and cursors survive changes of pool and algorithm | no phantom load, fair turns |
| `RedisCache` (redis) | a key in Redis | get, set, delete, getOrSet | instances race around one key; three ways to say how long it lives | no answer staler than its expiry allows, none from before an undisturbed delete |
| `RoleManager`, builder, guards, conditions (rbac) | role graph, conditions per permission | createRole, setInheritance, grant/revoke, deleteRole, resolve, ancestors, require(Any) | cycles, dangling parents, names defined later | what is granted is what is inherited |
| `ServiceRegistry`, `ServiceClient` (microservices) | instances with a heartbeat and a flag | register, heartbeat, deregister, discover, call | flags set at earlier looks, calls to what stopped meanwhile | exactly the living are found; a call ends |
| `LocalEventBus` (microservices), `PubSub` (messaging), `ChoreographedSaga` (architecture) | handlers per event | on/subscribe, off, emit/publish | handlers that change the list, emit again or throw while it is being walked | everyone who was subscribed is reached |
| `HealthCheckRegistry` (observability) | checks, one round of answers | register, unregister, runAll, handler | late answers, silence, checks that come and go | the worst answer decides |
| pagination, soft delete (prisma) | none of their own: a table, a cursor in the caller's hands | paginateCursor, paginateOffset, softDelete, restore | pages over a table that changes | no row missed or repeated where the README says so |
| `runTransaction` (prisma) | attempt number | runTransaction | conflicts, errors that leave the outcome open | fn takes effect once |
| `BaseService` (microservices) | a status | start, stop | hooks that overlap | not modelled, see section 6 |
| CQRS buses, `MetricsRegistry`, `jwt`, `oauth`, config, logger, `BaseRepository` | none, or independent values | registration, counting, pure functions, one HTTP request | - | not modelled, see section 6 |

## 2. Modules

Time is discrete and relative wherever the code reads a clock: an age, a time to
live or a delay is a counter that `Tick` moves, so no absolute time appears.
What the code hides in a closure (a sleeping retry, an awaited reply) is a
location or an in-flight request. "History" variables record what properties talk
about; no guard of an action reads one except to state a bound.

Each module has a section of "faulty variants": small operators that replace one
operator of the code by what a plausible mistake would make of it. Each
property was seen to fail under one of them.

| Module | Models | Notes |
|---|---|---|
| `MessageQueue` | messaging/src/messageQueue.ts 25-110 | `Poll`, `HandlerSucceeds`, `HandlerFails` are the turns of `consume`; `Timeout` is the `setTimeout` of `dequeue`; the array is a sequence |
| `QueueContract` | the at-least-once contract the queue implements | one status per message and its counted failures; the refinement mapping is `Status` in `MessageQueue` |
| `MCMessageQueue` | instance for TLC | two regimes, see below |
| `CircuitBreaker` | reliability/src/circuitBreaker.ts | `running` are calls between admission and result; the rate is a fraction, so arithmetic is exact |
| `Bulkhead` | reliability/src/bulkhead.ts | a slot's hand-over is one action because `finally` runs without an await |
| `ComposedCall` | the composition of reliability/README.md 192-206, and retryBackoff.ts | extends `CircuitBreaker`, instantiates `Bulkhead`; actions of the three act together where the code calls through, and apart where it awaits; to the errors of the calls in `Fatal` retryOn says no |
| `RateLimiter` | reliability/src/rateLimiter.ts 37-152 | four algorithms; tokens in units of 1/Window |
| `RedisRateLimiter` | redis/src/redisRateLimiter.ts | one action per Redis command; commands may be slow or lost |
| `RedisLock` | redis/src/redisLock.ts | Redis external: SET NX PX and the release script take effect when served |
| `Cache` | cache/src/cache.ts | a value is its age, which is what staleness is about; the histories count uses as the README has them, so a `has` is none, and `asked` remembers where that makes a difference |
| `EventSourcing` | architecture/src/eventSourcing.ts | the fold is free: a state is the sequence of facts folded into it |
| `Saga` | architecture/src/saga.ts 7-65 | effects that stand are a history variable |
| `EventBuses` | microservices/src/interServiceComm.ts 51-70, messaging/src/messageQueue.ts 133-153, architecture/src/saga.ts 73-89 | one emission is a stack of walks over the list; which of the three buses it is decides whether a walk sees later changes and whether a throw ends it |
| `TokenRefresh` | auth/src/tokenRefresh.ts, tokenBlacklist.ts | the microtask queue is explicit: `ready` is FIFO, as awaits of resolved promises are |
| `Session` | auth/src/session.ts, redis/src/redisSessionStore.ts | one session; sharing by reference is `ByReference` |
| `RoleManager` | rbac/src/roleManager.ts, roleInheritance.ts, permissionGuard.ts, conditionalPermissions.ts | the three recursions over the role graph are one walk with a set of the names seen (parents before siblings; a recursive function, on pairs of names to go and names seen), compared with reachability: what `assertNoCycle` and `getAncestorChain` meet is what the walk over the parents meets, `resolvePermissions` throws where the walk meets a name that is no role |
| `RedisCache` | redis/src/redisCache.ts | one key, a value is its age; a SET is served when Redis gets to it |
| `ServiceDiscovery` | microservices/src/serviceDiscovery.ts, interServiceComm.ts 19-47 | an instance's id is its host and a number, a new one for each registration, by a process that comes up or by one that runs; ages instead of times |
| `HealthChecks` | observability/src/healthCheck.ts | one round at a time; the timer of a check, never cleared, races its answer; what was said in time is a history of its own (`inTime`), so that a late word is one |
| `Pagination` | prisma/src/pagination.ts, softDelete.ts | a row is its place in the order; the database is external |
| `RunTransaction` | prisma/src/transaction.ts | the three ways a transaction fails, retryable or not |
| `ConsistentHashRing` | scaling/src/consistentHashing.ts | md5 is any injective function into a small range, chosen initially |
| `LoadBalancer` | scaling/src/loadBalancer.ts | cursors modulo a common multiple of all lengths, which is exact |
| `Auth` | `TokenRefresh` with `Session` and `RoleManager` beside it | what the instance and the proofs of the three share |
| `MCReliability` | instance of `ComposedCall`, `RateLimiter` | see below |
| `MCRedis` | instance of `RedisLock`, `RedisRateLimiter`, `RedisCache` | |
| `MCCache` | instance of `Cache` | keys and callers are interchangeable |
| `MCAccess` | instance of `Auth` | the hierarchies given to builders; conditions are interchangeable |
| `MCArchitecture` | instance of `EventSourcing`, `Saga`, `EventBuses` | |
| `MCScaling` | instance of `ConsistentHashRing`, `LoadBalancer`, `ServiceDiscovery`, `HealthChecks` | |
| `MCPrisma` | instance of `Pagination`, `RunTransaction` | |
| `Collections` | `filter` and `sort` of JavaScript arrays | `Kept`, `Ranked`, `Ascending`: written so that the provers can look inside them |
| `CollectionLemmas` | lemmas about queues, sums, filters, orders | section 5 |
| `MessageQueueProofs`, `ReliabilityProofs`, `RedisProofs`, `DataProofs`, `ArchitectureProofs`, `AuthProofs`, `ScalingProofs` | theorems and their proofs | section 5; each extends the instance, or the modules, it is about |

The packages share nothing, and neither do most components of one package. The
`MC` modules of several components therefore check them side by side: a behaviour
picks one of them (`part`) and leaves the others as they began, so the states
add up instead of multiplying, and every component has the run's full attention.
Where components do call each other (breaker, bulkhead and retry; a session and its
store; guards, roles and conditions; a client and its registry; the queue and its
consumers) they are one specification.

Components that offer a choice at construction (the limiter's algorithm, the
cache's policy, whether there is a blacklist, which session store) keep it in a
variable that `Init` chooses and nothing changes, so one run covers all choices.

## 3. Runs

| Run | Checks | Instance |
|---|---|---|
| `queue` | `OnePlace`, `FifoFirstDelivery`, `ImplementsContract` whatever timers and handlers do; `OneHandlerAtATime`, `EveryMessageSettles` in the punctual regime | 2 messages, 2 consumers, 1 retry, visibility timeout 2, handlers up to 3 (punctual: 1), retry delay 3 |
| `queue_hidden` | `HiddenWhileProcessed`, **violated**: section 4 | 1 message, 1 consumer |
| `reliability` | breaker: `NothingOverdue`, `CoolsDown`, `RecoversWhenHealthy`; bulkhead and retry: `PlacesKept`; all three: `CallReturns`; limiter: `BurstBound`, `DenialsJustified` | 3 calls, one with errors retryOn gives up on, 1 slot, 1 place in the queue, 2 attempts, thresholds 2, window of 3; limiter: limit 4, window of 5 ticks |
| `redis` | lock: `LeaseKept`, `SingleExecution`, `LockFrees`; limiter: `LimitKept`, `EveryWindowEnds`; cache: `NoStaleAnswer` | lock: 2 clients, 3 tokens, lease 2, fn up to 3; limiter: 3 concurrent checks, limit 2, window 3, commands up to 2 ticks; cache: 2 instances, lifetimes 0, 1, 3, default 2 |
| `cache` | `FreshEnough` (with the size bound), `EvictsByPolicy` | 3 keys, room for 2, 2 callers of getOrSet |
| `cache_has` | `HasDoesNotCount`, **violated**: section 4 | 3 keys without expiry, room for 2, one caller |
| `architecture` | events: `FoldedAsStored`, `EventsInOrder`; saga: `AllOrNothing`, `NoStepForgotten`; buses: `EveryoneReached` | 2 writers, one of which passes its version, 2 streams of at most 2 events; 2 runs, up to 3 steps; 2 handlers, 3 subscriptions, 2 nested emissions |
| `access` | tokens: `OneLiveToken`, `ReuseEndsFamily`; session: `ServedInTime`, `DestroyedForGood`; roles: `AccessAsInherited`, `NoCycleBySetting` | 3 overlapping rotations, 3 tokens; 2 overlapping touches, a second of 3 ticks, lifetimes 0, 1, 3, 4; 3 roles, 2 permissions, one with up to 2 conditions, of 2 that hold, fail or throw |
| `session_redis` | `PersistedAutomatically`, **violated**: section 4 | one session over the Redis store |
| `scaling` | ring: `LookupsAgree`, `OthersStay`; balancer: `CountsKept`, `TurnsTaken`; discovery: `FindsTheLiving`; checks: `ReportsWorst`; both: `NothingWaitsForever` | 3 nodes with 2 points on a ring of 6, all placements; 3 backends of weight 0, 1, 2, two open requests; 2 hosts of 2 registrations, a client, timeouts of 1; 3 checks |
| `prisma` | `WalkServesAll`, `AppliedOnce` | 4 rows, pages of 2; 2 calls of up to 3 attempts |
| `cursor_deletes` | `StableUnderDeletes`, **violated**: section 4 | 3 rows, pages of 1 |

A module has one type invariant. It is a conjunct of an invariant its component's run
checks, or it is proved (the queue's, the lock's). Two action properties, `FollowsCycle`
(breaker) and `AppendOnly` (event store), have no run: they are proved for every
instance (section 5).

### Why these bounds show the interesting cases

- *queue*: two messages and two consumers are enough for a message to be in flight
  twice in a row with two of its timers pending, to be returned while its first
  handler still runs, and to compete with a fresh one. The retry delay is greater
  than the visibility timeout, which is the condition under which a stale timer
  cannot meet a later delivery, so `OneHandlerAtATime` exempts no message here;
  `queue_hidden` has a shorter one, and the theorem `OneHandler` covers both.
- *reliability*: three calls give one running, one queued and one rejected; three
  results may arrive after the breaker opened. Thresholds of 2 separate "first"
  from "enough". The window of 3 with rate 1/2 fills and slides. The errors of one
  call are not worth a retry: it gives up at once beside two that use up their attempts.
  The limiter's limit 4 and window 5 have no common divisor, so every rounding
  (`Math.ceil`, the weight of the previous window) is inexact somewhere.
- *redis*: the limiter's counter is cut at Limit + 2: above the limit its value no
  longer matters. fn may take 3 of a lease of 2, so holders do outlive their
  lease, and the third token lets an abandoned request wander about while both clients
  act. The cache's lifetimes are none (0), shorter than a slow write, and longer.
- *cache*: room for 2 of 3 keys makes every third insertion evict; ttl 0 and 1 give
  entries without expiry, fresh ones and expired ones side by side. TLC takes keys,
  and callers, as interchangeable: no definition names one, and the order in which
  they came is part of the state.
- *architecture*: both streams may be full; a checked and an unchecked writer race.
  Two handlers and three subscriptions have one handler subscribed twice, and a
  handler may emit again from inside.
- *access*: a lifetime of 0 and 1 is rounded up to a second, 3 is one exactly, 4 is
  rounded up to two. Three roles make chains, diamonds with a dangling top, and
  cycles of every length; all pairs of guards and role lists are asked in every
  state, whatever each condition says, throwing included. Two conditions attached to
  one permission, in either order, show that a refusal before a throw hides it. The
  bounds `MaxGranted`, `MaxParents`, `MaxAttached` and, on their sum, `MaxSize` keep
  conditions from multiplying with graphs: large graphs are met with few conditions, and
  all conditions with small graphs. Conditions are interchangeable.
- *scaling*: a ring of exactly 6 positions for 6 points makes every key hit a point,
  and each removal leaves gaps before, between and after points. Two registrations
  per host let an instance be called after its host came back under another id, or
  registered twice without stopping, and with one client nothing is lost: clients meet
  only in the registry, whose flags any look changes (`ListAll`). A timeout of one
  tick separates in time, due and over. Three checks can be up, down
  and degraded, or one silent beside two that answer at different times.
- *prisma*: four rows in pages of two have a full first page, an exact last page
  and rows that come and go before, at and after the cursor. Three
  attempts separate a retry that fails from the last one.

The bounds of single models are the constants and comments marked "bound" in the
modules. Deadlock is checked except where the system properly ends: the queue
(all messages settled and all timers fired), `architecture` (all runs of the
saga ended), `prisma` and `cursor_deletes` (the walk is done and rows may be left
as they are).

### Fairness

- *queue*: the event loop fires due timers and polls, handlers return, time
  passes. Nobody has to enqueue, and consumers may be stopped: then nothing is
  promised.
- *reliability*: callers call again, `fn` settles in one of its three ways, sleeps end,
  results reach the breaker, time passes. A success is never assumed, nor a reset.
  The limiter needs no fairness, and none is assumed in the behaviours that use it.
- *scaling*: the clock moves, timers fire, and `runAll` goes on once all its checks are
  decided. That an instance answers or is found dead, or that a check ever
  settles, is not assumed: `NothingWaitsForever` says that calls and rounds end all the
  same. Ring and balancer need no fairness.
- *redis*: Redis serves requests of the lock that were not lost, clients take
  their next step, time passes; a client may crash at any moment and need not. An
  EXPIRE or TTL in flight is served or lost. Each component's fairness is assumed only in
  the behaviours that use it; the cache needs none.

The other runs check safety and assume no fairness. All of it is weak fairness of
steps the event loop or Redis takes by itself; no run assumes that an outcome is chosen favourably. `RecoversWhenHealthy` has its
condition ("from some time on no call fails") in the formula.

## 4. What the checks show, and where the code promises less

Four disagreements between documentation and code are kept as runs:

- `queue_hidden`: `dequeue` starts a visibility timer that `ack` and `nack` never
  cancel and that only asks whether the message is in flight
  (messageQueue.ts:62). After a nack and a retry, the timer of the first delivery
  fires during the second and returns the message early.
  packages/messaging/README.md:31 promises it is "hidden before auto-returning"
  for its own timeout. This is why `OneHandlerAtATime` exempts a message that failed
  before where a retry may come within the visibility timeout, as it may with the
  defaults (1 s and 30 s).
- `cache_has`: `has` is a `get` (cache.ts:74), so it moves an LRU entry to the end of the
  Map and counts as a read of an LFU one, where packages/cache/README.md:31
  promises to "check existence without side effects beyond expiry checks". With room
  for two: set a, set b, has(a), set c evicts b. `EvictsByPolicy` says what holds: the
  victim is the one the policy names against every entry that `has` was not asked for.
- `session_redis`: what a request writes to `req.session` survives only because the
  in-memory store shares the object (session.ts:107); over `RedisSessionStore`, the
  "drop-in replacement" (redisSessionStore.ts:13), it is lost, where
  packages/auth/README.md:182 says "persisted automatically". In memory it does
  hold, which `ServedInTime` includes.
- `cursor_deletes`: pages by cursor are "stable under inserts/deletes"
  (pagination.ts:66, packages/prisma/README.md:93), but the next page is
  asked for by a row that may have been deleted meanwhile (pagination.ts:81), and
  then rows nobody touched are not served. `WalkServesAll` says what holds:
  everything unless that happened.

Others were met while modelling; the properties are stated so that they say what
does hold, and the comment of each names the limit:

- *CircuitBreaker*: `onSuccess` counts every success that arrives in HALF_OPEN
  (circuitBreaker.ts:77), also of calls admitted before it opened, though the
  class comment speaks of trial requests. The failure rate is only compared
  after a failure (circuitBreaker.ts:100): a success that fills the window at the
  threshold leaves it CLOSED. A bulkhead inside the breaker that rejects counts as a
  failure of the service.
- *RateLimiter*: the sliding-window counter's `retryAfterMs` is the time to the end
  of its window, at which the full weight of that window still counts, so a caller
  who waits as told may be denied again. `Exact` excludes it from `DenialsJustified`.
- *RedisRateLimiter*: only the call whose INCR returned 1 sends EXPIRE
  (redisRateLimiter.ts:26-28). If that command is lost, the window never ends and the
  identifier is denied for ever. `EveryWindowEnds` and `LimitKept` carry
  "or an EXPIRE was lost".
- *RedisLock*: `withLock` neither renews nor re-checks the lock: an `fn` that outlives
  `ttlMs` may run beside the next holder's, where packages/redis/README.md:141 says
  "guaranteed single execution". `SingleExecution` says exactly that much.
- *Cache*: a ttl of 0 means none, and `getOrSet` may store what it read before a later `set`;
  `FreshEnough` bounds how old that makes a returned value.
- *Projection*: `rebuild` never goes back to the initial state; a second one counts
  every event twice.
- *Saga*: a run whose compensations threw still reports `compensated`, and the
  caller cannot tell; `AllOrNothing` exempts the effects of those steps.
- *TokenRefresh*: with a blacklist every rotated token is blacklisted, and `rotate`
  looks there first (tokenRefresh.ts:72): reuse is refused but does not end the
  family until the entry is gone. A rotation in flight saves a usable token into
  a family just revoked. `ReuseEndsFamily` is about reuse that reaches the record
  and that no other rotation overlaps.
- *Session*: `RedisSessionStore.get` never compares `expiresAt`, and keys are rounded
  up to seconds: a session may be served up to a second late (`Late`). A `touch`
  that overlaps a `destroy` revives the session.
- *RoleManager*: `createRole` looks at no parent (roleManager.ts:19), so names can be
  wired before they exist and into a cycle; only `setInheritance` refuses cycles, and
  `NoCycleBySetting` is about it. `deleteRole` leaves the name among the
  parents of others, and resolving those throws until a role of that name exists
  again. Resolution survives cycles, as the README says. What a condition throws
  (conditionalPermissions.ts:30) goes through `evaluate` and both guards
  uncaught, as the `approve:expense` of packages/rbac/README.md:110 does over the empty
  context of a guard without `buildContext` (permissionGuard.ts:33);
  `AccessAsInherited` says of whom a guard may throw so.
- *RedisCache*: a `getOrSet` that missed before a `delete` brings the old value back
  after it; a ttl of 0 means no expiry even where a default is set; a cached string
  that happens to be JSON comes back parsed (`get` tries `JSON.parse` on
  everything, `set` leaves strings alone; not modelled, values have no contents).
- *EventBuses*: a handler that throws synchronously ends the emission for those after it,
  although messageQueue.ts:127 says that all subscribers receive a message; a
  handler that subscribes during an emission is called in the same one, except
  by `PubSub`, which copies. `EveryoneReached` is about emissions nobody ends.
- *ServiceRegistry*: stale instances are said to be pruned (serviceDiscovery.ts:20)
  but are only marked; a heartbeat revives them, and the map only grows. A process that
  registers twice is two instances until it deregisters both or one goes stale.
- *Pagination by number*: `findMany` and `count` are two queries, so a page may
  contradict its own `totalPages`; rows repeat or are missed when others come or go,
  which the README says of offsets.
- *LoadBalancer*: `release` does not know how its request was routed, so after a
  switch of algorithm, or for a backend that left and came back, it takes away
  the count of another request. `CountsKept` shows that counts are then too low,
  never too high. An emptied pool makes `next` return undefined, or throw.
- *ConsistentHashRing*: two points with one hash would lose one on removal; the
  model's hash is injective.

## 5. Proofs

Every theorem holds for every value of the constants that the modules' named
assumptions allow: positive limits and thresholds, sizes and durations in the naturals,
finite sets where something is counted (`Ids`, `Nodes`, `Keys`, ...), and
markers such as `Absent` or `NoPromise` that are none of the values they stand beside.
One theorem has a hypothesis of its own, stated below. TLC
evaluates the assumptions in the runs.

The pattern is the same throughout: a strengthening `IInv` (one per component, named
after it) with a lemma per action or group of actions, a lemma that it implies
the property, and a temporal step by PTL. Theorems about instances of an `MC`
module are about its whole specification: the component's steps and those in which it is idle.

| Module | Theorem | Proves | Argument |
|---|---|---|---|
| `MessageQueueProofs` | `TypeCorrect`, `NeverDuplicated` | `TypeOK`, `OnePlace` | each needs the other and that unsent messages are nowhere: a dequeue removes the one occurrence; an append is of a message that is nowhere in the array, which for returns and retries follows from being in flight |
| | `FirstInFirstOut` | `FifoFirstDelivery` | what was never delivered is in the array in the order of enqueueing, and whatever re-enters was delivered before |
| | `OneHandler` | `OneHandlerAtATime` | in the punctual regime the timers of a message that came back run out before it is due again, and the timer of the delivery at hand leaves its handler the time it may still take. Where a retry may come within the visibility timeout this is invariant only of messages without a failure (`Sure`); such a message never comes back without a nack, so no other delivery of it is under way. Every value of the timeout and of the retry delay is covered |
| | `Refinement` | `ImplementsContract` | under the invariant each action is a step of the contract or a stutter: a late ack is a stutter or completes the current delivery, an ignored nack is a stutter |
| `ReliabilityProofs` | `TypeCorrect`, `NeverOverdue` | `TypeOK`, `NothingOverdue` | inductive together: every path that raises a counter tests it in the same step |
| | `CoolDownRespected`, `CycleFollowed` | `CoolsDown`, `FollowsCycle` | `openFor` never exceeds the time since the breaker last opened while it is OPEN, so admission implies the cool-down |
| | `CapacityAlwaysRespected`, `WorkConserving`, `NeverRunsTwice` | parts of `PlacesKept`, of the bulkhead alone | the count is a cardinality, so the invariant keeps the set finite; `NoIdleSlot` gives that a freed slot is a full bulkhead's |
| | `CompositionImplementsBoth` | `MCSpec => Spec /\ bulkhead!Spec` | every step of the composition is a step or a stutter of the breaker, and of the bulkhead: what is proved of either holds of both together |
| | `PlacesAlwaysKept` | `PlacesKept` | the above, and where the three meet: a call the breaker counts is queued, running or asleep in its slot, with as many attempts as that takes |
| | `BurstsBounded` | `BurstBound` | one invariant per algorithm. Bucket: for every stretch of k ticks, Window times the calls let through and the tokens left are at most what was there and what k ticks refill. Log: it holds exactly the calls of the last window. Fixed window: its count is the calls since it began, so a stretch meets two counts. Counter: the same, and the previous window's calls within the stretch are few because the last one let through saw an estimate below the limit, from which the weight has faded since |
| | `DeniedForAReason` | `DenialsJustified` | a promise says no more than the time until the oldest call of the log leaves, a token is whole or the window ends; the rounding up of `Math.ceil` is a lemma about integer division |
| `RedisProofs` | `TypeCorrect`, `LeaseAlwaysKept`, `MutualExclusion` | `TypeOK`, `LeaseKept`, `SingleExecution` | a token belongs to one client, and a release in flight never names the token of a live holder: without that, `LeaseKept` is not inductive |
| | `LimitKeptHolds` | `LimitKept` | the keys before the present one account for at most the limit of calls that still count, and for none when it expires; its own calls are at most its count. Without a time to live it has exactly one EXPIRE in flight, or one was lost |
| | `NoStaleAnswerHolds` | `NoStaleAnswer` | age and remaining time of what is stored add up to no more than the longest lifetime and one run of a factory; what is stored or being written since an undisturbed delete is younger than it |
| `DataProofs` | `FreshReads` | `FreshEnough` | the array and the entries of the Map have the same keys, each once; age and remaining time of an entry are bounded by the longest ttl and one run of a factory; a set makes room first |
| | `EvictionFollowsPolicy` | `EvictsByPolicy` | the order of the Map is the order of uses (LRU) or of sets (TTL), and the frequency of an entry is the hits since it was set: so the key found by walking the Map is the victim the history asks for; against keys `has` was asked for the order and the count are only bounds |
| | `AppliedAtMostOnce` | `AppliedOnce` | an attempt follows only one that was rolled back. Hypothesis: the error of a connection lost at the commit is not retryable, as by default (`["P2034"]`, prisma/src/transaction.ts:28); with it in the list `fn` may take effect twice |
| | `PagesServeAll` | `WalkServesAll` | by cursor: the cursor is the last row served, and what was served is what was in sight up to it. By number: a steady row is served, on the page at hand, or ranks at the next page or later, because nothing before it was removed; the last page is where the ranks end, which is integer division |
| `ArchitectureProofs` | `VersionsAlwaysDense`, `HistoryFolded`, `NothingRewritten` | `VersionsDense`, `FoldedAsStored`, `AppendOnly` | append keeps a prefix, so what was folded stays what is stored; the version check makes the appended facts those the writer folded |
| | `EventsAlwaysInOrder` | `EventsInOrder` | the times of a stream never decrease, because the clock does not; what is joined has every stream as a block, and a stable sort by time keeps two events of a block in their order. Only what the sort keeps and the versions are needed to see that the events of a stream come out as the stream |
| | `AllEffectsOrNone`, `EveryStepRun` | `AllOrNothing`, `NoStepForgotten` | a run completes 1, 2, ... and undoes ..., 2, 1; while it undoes, what stands is what is left to undo and, above it, what could not be undone; an acting run has completed fewer steps than there are |
| | `EveryoneAlwaysReached` | `EveryoneReached` | every emission of the stack has called, in order, the first of what was due at its begin and then of what was added; removing a handler gives the bus a new array and leaves the one being walked alone |
| `AuthProofs` | `ExchangedOnce` | `OneLiveToken` | at most one token is live or being exchanged: only a live token is ever exchanged, because `rotate` reads the record's flag in the turn in which it revokes it; the microtask queue holds exactly the rotations under way |
| | `ReuseRevokesFamily` | `ReuseEndsFamily` | a reusing call that starts on an empty queue stays alone until it throws, is not stopped by the blacklist, and so revokes every token issued |
| | `SessionsServedInTime`, `DestroyedStaysDestroyed` | `ServedInTime`, `DestroyedForGood` | a key outlives its record by less than a second, also one written by a late touch; after a destroy that no touch overlapped no touch holds a copy |
| | `AccessAlwaysAsInherited` | `AccessAsInherited` | every state of the roles is well formed; the walk is defined on all pairs, because each recursive call has a name less to meet or, with as many, a name less to go, and by induction over this rank it meets the least set that has the names it starts from and the parents of its members. `some` and `every` answer for all they were given unless one throws: a role that cannot be resolved, or a condition of a permission that was found |
| | `CyclesOnlyByCreating` | `NoCycleBySetting` | what the walk over the new parents meets has its parents before and after, and the role is not in it; so what is above another name afterwards was above it before, or is in that set and the name is not. A builder is one such step after another, and stopping halfway is none |
| `ScalingProofs` | `CountsAlwaysKept` | `CountsKept` | sums over the pool: a request counted is open, so counts are at most, and while nothing disturbed them exactly, the open requests |
| | `TurnsAlwaysTaken` | `TurnsTaken` | the requests a backend got since the last one of another, and its turns before the other's next, are together within its weight: each request moves the cursor on by one turn, also where it comes round, because `Cycle` is a multiple of the round's length. The weighted round is a block per backend, as long as its weight |
| | `LookupsAlwaysAgree` | `LookupsAgree` | the ring holds exactly the members' points and the hashes are ascending; the binary search narrows a range outside of which nothing is nearer, by induction on its length; the walk of `getNodes` goes by strictly increasing distance |
| | `OthersAlwaysStay` | `OthersStay` | the replicas of a key are the members in the order of their nearest points: the order of fewer members is that of more with some left out |
| | `LivingAlwaysFound`, `WorstAlwaysReported` | `FindsTheLiving`, `ReportsWorst` | a flag is false only of an instance silent for longer than the timeout; the result of a check is what it said before its timer fired, or down |

`CollectionLemmas` is what these proofs share: what `RemoveAt` and `Append` do to
length, elements and repetitions; induction over the naturals and over finite sets,
both about the set of those for which a statement holds (the library's induction
theorems take an operator, which the provers cannot instantiate; over a set the
same step is first-order); sums over finite sets and over the last k ticks of a history; which
elements `Kept` keeps, in which order and how many; that `Ranked` and `Ascending`
put a finite set in its order; that joining sequences makes one with a block for each.

Only model-checked:

- all liveness: `EveryMessageSettles`, `RecoversWhenHealthy`, `CallReturns`, `LockFrees`,
  `EveryWindowEnds`, `NothingWaitsForever`. Fairness and ENABLED are out of the prover's reach.

## 6. Not modelled

- Floating point: token buckets and rates are exact fractions.
- A clock that goes backwards; the models' time only advances.
- HTTP middleware around the limiters (they turn an answer into a response),
  cookies of sessions, signing of tokens.
- `computeDelay` and jitter: a back-off is a sleep of any length. Whether retryOn says no
  is a matter of the call in the model, of the error in the code.
- Keys: limiters, locks and caches in Redis treat them independently, so each model
  follows one.
- The bounds no code promises: maps that only grow (the limiter's keys, refresh
  records, registry entries).
- `BaseService`: `start` and `stop` set a status around a subclass's hooks and guard
  nothing; overlapping calls end in the status of whichever settles last, and nothing
  says they may overlap.
- CQRS buses (a map from a type to its one handler), `MetricsRegistry` (independent
  numbers changed synchronously, and their text format), `ConfigLoader` and env
  files (parsing at start-up), the logger, `jwt` and `oauth` (cryptography,
  encoding, one HTTP request), `BaseRepository` and `delegate.ts` (forwarding and
  types), `defaultRoles.ts` (a table of names): no state over time, no interleaving.
- `publish` of `PubSub` awaits the promises of its handlers after it has called
  them; `EventBuses` ends at that call. `paginateCursor` with a take of 0 or less.

## 7. Plan

Done: queue and contract, breaker, bulkhead, their composition with retry, lock,
limiters, caches, event sourcing, saga, event buses, token refresh, session, roles
and guards, scaling, discovery and client, health checks, pages, transactions.

Next, proving more: the refinement of a contract by the lock and by the event store.

Next, widening: a session through a browser's cookie and two stores at once; the
registry behind `LoadBalancer`, as an application would combine them; several roles of
several requests against one `RoleManager` that changes between them.
