# goplusplus: verification project

TLA+ models of the Go framework *goplusplus*, checked with TLC and, where it
says so, proved with TLAPS. The models are translated from the code; when the
code and a document disagree, the model follows the code and the disagreement
is listed under *Findings*.

    tlc -workers 2 -config MCOutbox.cfg Outbox.tla       # one run
    tlapm OutboxProofs.tla                               # the proofs of a module

## 1. The system

goplusplus is a library: an HTTP engine with middleware, and packages an
application wires together. Its core logic is what keeps state across requests
and processes.

| Part | State it keeps | Operations | Talks to | Hard behaviour | Module |
|---|---|---|---|---|---|
| Transactional outbox (`queue/outbox.go`) | table `gpp_outbox`: attempts, available_at, lease, token, outcome | Enqueue, claim, publish, markPublished, markFailed, Run | SQL database, a publisher | leases that end under a worker, lost settlements, ambiguous publishes, crashes | `Outbox` |
| Idempotency (`middleware/idempotency*.go`) | claims and stored responses per key, in memory or Redis | Claim, Complete, Release, replay | handler chain, response writer, Redis | expiring claims, clients that leave, panics, a full store, lost replies | `Idempotency`, `RedisClaims` |
| Resilience (`resilience/`) | breaker state, failure count, active requests | Execute, Retry, Middleware | a downstream service | results that come back after the breaker moved on | `Resilience` |
| Kafka (`queue/kafka.go`) | client position, committed offsets (broker) | Run, processRecord, Close, Publish | broker, group coordinator, dead-letter topic | rebalances, evictions, failed commits, repeated Runs | `Kafka` |
| Buses (`pubsub/`) | one publish channel, one buffered return; subscriptions | Publish, Subscribe, Close | RabbitMQ, Redis, goroutines | late confirms and returns, requeues, lost channels and connections, panics | `PubSub` |
| Task tracker, saga (`queue/task_tracker.go`, `saga/`) | status per task; executed steps | Dispatch, Execute, compensate | handlers | compensations that fail or panic, identifiers that collide | `Workflows` |
| Cache (`cache/`) | entries with TTL, in-flight loads, Redis load lock | Get, Set, Delete, GetOrSet, InvalidatePrefix | L1, L2, Redis, fetchers | loads racing invalidation, lock leases that end | `TwoLevelCache`, `RedisLoad` |
| HTTP engine (`gpp.go`, `context*.go`) | handler index, committed response, pooled contexts and their keys, the server | ServeHTTP, Next, Abort, RunWithTimeout, Async, Listen | net/http, signals, hooks | handlers that outlive their deadline, reuse of contexts, shutdown | `Requests`, `Lifecycle` |
| Router (`router.go`, `tree.go`) | route tree, group middlewares, static mounts | Handle, Group, Use, Static, search | the engine | the order of registration | `Router` |
| Validation (`validation*.go`) | violations, visited pointers, depth | validateStruct, dive, nested values | binding | circular and shared values, limits | `Validation` |
| Single flight, rate limit (`middleware/`) | in-flight calls, buckets | the middleware | handler chain | leaders that fail, a full bucket table | `Requests`, `RateLimit` |
| Database (`dbcore/`) | rows, replica, pools, migration history, cursors, temporary tables | Save, InTx, Query, ParallelQuery, AutoMigrate, PaginateCursor, MaterializePagination | SQL | insert-or-update decisions, starved pools, concurrent starts, rows that move, statements that fail and take effect | `Records`, `Client`, `Pagination` |
| Auth (`auth/`) | signing keys, sessions, password hashes | Issue, Verify, Create, Revoke, Register, Login, rehash | stores, clocks | rotation and skew, concurrent use and revocation, races on a hash | `Auth`, `Accounts` |
| Identifiers, sketches (`id/`, `bloom/`) | last timestamp and sequence; bits and counters | NextID, NewULID, NewUUIDv7; Add, MayContain, Estimate | clock | clocks that step back, node numbers, hashes that wrap | `Identifiers`, `Sketches` |
| DI, health (`di/`, `health/`) | hooks, checks | Start, Stop, Readiness | components | a hook or a check that fails, hangs or comes late | `Lifecycle` |
| Search (`search/`, `search_binding.go`) | documents, normalised requests | Search, facets, pages | memory, PostgreSQL, GraphQL | two backends, mandatory scopes, pages over changing data | `Search` |
| Realtime (`realtime/`) | a byte stream | WriteMessage, ReadMessage | a browser | lengths in three encodings, control frames and fragments | `Frames` |
| Command line (`cmd/gpp`) | a tree of files | new, gen module, gen terraform, gen hosting, extract | file system, an editor, other commands | two commands at once, kills | `Generators` |
| Other middleware, i18n, config, notify, storage, test kit | little or none | parsing, formatting, HTTP clients | – | sequential | – |

An event travels: business transaction → `Enqueue` → `Outbox.Run` → a publisher
(the Kafka producer, or RabbitMQ) → `KafkaConsumer.Run` → handler. A request
travels: `Listen` → `ServeHTTP` → route → recovery → limiter → timeout →
idempotency or single flight → validation → handler → `Retry` → `Execute` →
downstream, a cache, or the ORM over the pools. Sessions and tokens decide who it is.

What makes each part correct:

- outbox: at least once, and only for committed transactions; an outcome is
  unique, earned and final; every duplicate has a cause;
- idempotency: at most one execution per key at a time; a replay is a response
  of that very operation; a claim is always given back; everybody is answered;
- resilience: the breaker is open when and only when its count says so; the
  limit holds; the breaker recovers; a retried request ends;
- Kafka: an offset is committed only after its record is settled; offsets do not
  move back; every record is settled;
- caches: a value is not served after its invalidation returned, except for the
  windows on record; one load per key and process;
- requests: one response each, decided by one party, from its own handler or a
  shareable flight; a request sees another's keys only where that one left a background task; shutdown waits for handlers;
- buses, tasks, sagas: what a call reports is what happened;
- database: a saved row exists; migrations apply once and in order; a connection
  that was taken is given back; a page has the rows it should;
- identity: no token, session or password counts longer than it may;
- router, validation, search: the same result as a plain definition,
  in whatever order things were nested or changed; routes that the order of
  registration can lose are those that part at a wildcard;
- frames, sketches: payloads arrive whole and in order; what was added is found.

`PROJECT.json` lists every component with its status, and every hazard with the
properties that would catch it.

## 2. Modules

| Module | Models | Checked by |
|---|---|---|
| `EventDelivery` | abstract: what the outbox promises of an event | as property of the run `outbox` |
| `Outbox`, `OutboxProofs` | `queue/outbox.go` | `MCOutbox.cfg`, tlapm |
| `Idempotency`, `IdempotencyProofs` | `middleware/idempotency.go` over `idempotency_store.go` | `MCIdempotency*`, tlapm |
| `ClaimStore` | abstract: an atomic store of claims | as property of `MCServices` |
| `Resilience` | `resilience/resilience.go` with `retry.go`, and the proofs | `MCResilience*.cfg`, tlapm |
| `Kafka`, `KafkaProofs` | the consumer of `queue/kafka.go` | `MCKafka*`, tlapm |
| `RedisLoad`, `RedisLoadProofs` | `GetOrSet` and the load lock of `cache/redis.go` | `MCRedisLoad`, tlapm |
| `TwoLevelCache`, `TwoLevelCacheProofs` | `MultiLevelStore` of `cache/cache.go` over the L1 of `cache/bounded.go` | `MCTwoLevelCache`, tlapm |
| `RedisClaims` | `middleware/idempotency_redis.go` | `MCServices`, tlapm |
| `Requests`, `Lifecycle` | the engine's requests with its contexts, and its life; probes of `health/` | `MCServices*`, tlapm |
| `Router`, `Validation` | routes and the values of bodies | `MCServices` |
| `Identifiers` | `id/id.go` | `MCServices`, `MCIdentifiers.cfg`, tlapm |
| `Workflows` | `queue/task_tracker.go`, `saga/saga.go` | `MCServices`, `MCSaga.cfg`, tlapm |
| `PubSub` | `pubsub/`: RabbitMQ, and the in-process and Redis buses | `MCServices`, `MCBuses.cfg`, tlapm |
| `Auth` | tokens and sessions of `auth/` | `MCServices`, tlapm |
| `Records` | `dbcore/orm.go` | `MCServices`, `MCRecords.cfg`, tlapm |
| `Client` | `dbcore/client.go`, its connections, and `dbcore/migrate.go` | `MCServices`, tlapm |
| `Pagination` | `dbcore/repository.go` by cursors, and `dbcore/ephemeral.go` | `MCServices`, tlapm |
| `Accounts` | `auth/auth_module.go`, `examples/authentication` | `MCServices`, tlapm |
| `RateLimit`, `Generators` | `middleware/ratelimit.go`, `cmd/gpp` | `MCServices`, tlapm |
| `Frames`, `Sketches` | WebSocket frames of `realtime/websocket.go`, `bloom/bloom.go` | `MCServices`, tlapm |
| `Data` | the eleven components of `Records`, `Client`, `Pagination`, `Accounts`, `RateLimit`, `Generators`, `Frames`, `Sketches` and the second half of `PubSub`, side by side | `MCServices`, tlapm |
| `Search` | `search/` over its two backends with `search_binding.go` | `MCServices` |
| `ServicesProofs` | proofs about `Requests`, `Lifecycle`, `RedisClaims`, `Workflows`, `Identifiers`, the first half of `PubSub`, `Auth` | tlapm |
| `DataProofs` | proofs about the eleven components of `Data` and, from them, about `Data` | tlapm |

In each model module the definitions called *Mutant* are plausible bugs used to
show that every property can fail; they take no part in the specification.

`MCServices` is the run of the modules that call no other modelled one. A behaviour
of it is a behaviour of one component (`part` says of which). It extends those with
theorems, whose variables are its own and at rest when another part acts, and instantiates
three on variables `v1` .. `v4`, of which those a part does not need are `Unused`. It has no
interplay to add: it is one run in place of many. The modules it extends share one name space,
hence the long names of their variables (`accountTime`, `passage`, `dbCall`). `RequestsAlone`,
`ContextsAlone` and `FramesAlone` are the behaviours of one part, for what is said of that part
and does not hold; `Identifiers`, `Workflows`, `Records` and `PubSub` have such a specification
of their own (`IdsAlone`, `SagaAlone`, `RecordsAlone`, `BusesAlone`).

### Outbox

Rows are functions of `Messages`: one variable per column the SQL reads.
`available_at <= now` is the flag `due`; `locked_until` is `lease`, one of
`none`, `held` and `expired`. Both change by separate steps at any moment, so
no assumption is made on the clocks of the workers. `Claim`, `MarkPublished` and
`MarkFailed` are one database transaction each, hence one step each; between
them the worker calls the broker (`Publish`) with what it read at claim time
(`seen`, `mine`). An ambiguous error of the broker is the branch of `Publish`
that refuses with a copy delivered. `SettleError` is a settling transaction that
fails, `Crash` a worker that dies or is cancelled in its batch (right after
`Claim` it also stands for a claim whose commit was reported as failed although
it went through), `SlowLeaseExpires` a lease that ends under a worker in its
batch; these three are bounded by `MaxFaults`. `OrphanLeaseExpires` is not
bounded: it is how a row comes back. Validation of input and the payload are
left out; PollInterval and RetryBackoff only decide when things happen.

### Idempotency

One action per call on the store, which holds its mutex: `Acquire`, `Reject`,
`Conflict`, `Replay`, `Wait` are the results of `Claim` (each purges expired
entries first, as the code does), then `HandlerReturns`, `Complete` or
`CompleteFails`, and `Release`, which also stands for the deferred release after
a panic. `order` is the store's list; `Evictable` walks it. A request carries
its owner token, so it is used as one. `answer` is the class of status the
client gets, following the response buffer, `FlushResponse`, the framework's error
handler and Recovery; it is what `FailureIsNotSuccess` is about.

### Resilience

The three parts are modelled the way an application composes them, because
their interplay matters: a limiter around the handler, `Retry` inside, one
`Execute` per attempt. `CallDownstream`/`CallRejected` is the first critical
section, `CallFails`/`CallSucceeds` the second, `CallPanics` its absence. The
counter is kept up to the threshold and the clock as `elapsed`, which is all the
code compares. A call fails only if it met an outage (`doomed`) or its context was canceled.

### Kafka

The group, the broker and the client are external: `Assign`, `Rebalance`,
`Evict`, `MayCommit`, `StartOffset` say what the options of `NewKafkaConsumer` ask
for (explicit commits, start at the committed offset or at the beginning, no
rebalance between a poll and `AllowRebalance`). The rest follows `Run` and
`processRecord` line by line. `Rerun` is an application that calls `Run` again on
the consumer that returned an error.

### RedisLoad

One key; `value` and `lock` are what Redis has under the key and under its load
lock. Every command is a step: `Look`, `Check`, `Recheck` and `Reread` are the
Gets, `Acquire` is SET NX, `Verify` and `Store` the two halves of
`setIfLoadLockOwner`, `Release` the compare-and-delete. The singleflight group is
`load`, one stage per process, and `Return` hands the result to all who wait. The
load lives on the context of the caller that started it (`leader`), so `LoadFails`
and `HolderFails` have a canceled leader beside a failed command, and a failed
command may have taken effect. Values are versions of a datum that the application
changes (`Update`) and then invalidates or overwrites (`Invalidate`, for `Set`,
`Delete` and one key of `InvalidatePrefix`). The TTL is the flag whether a lock is
renewed: `LockExpires` when it is not, `RenewalLate` when the holder stalls for
longer than the lock lives. `floor`, `lapsed` and `crossed` are history for the
properties. A failed first Get ends the call before it has any effect and is left
out, as are the codec, the paging of SCAN and the connection set-up.

### TwoLevelCache

Again values are versions of a datum; `source` has it, `l2` and `l1` are the levels,
`order` is `keysOrder`. A level guards itself, so a call on a level is a step; a
`MultiLevelStore` makes several. `Lookup`, `ReadL2`, `Backfill` and `Return` are Get
and the first half of GetOrSet; `Join` is its DoChan, and the load that it starts
(`load`, `carried`, one per key) goes through `LoadLook`, `LoadReadL2` and `LoadAsk`
to L2's own load (`l2load`, `fetched`), which is modelled after
`MemoryStore.GetOrSet`. The two loads have lives of their own: when the context of
the caller that started the outer one ends (`Leave`), it fails, while L2's goes on
to `L2Fetch` and `L2Store` with nobody waiting, and a later load may join it. `SetL2`
and `SetL1`, `DeleteL1` and `DeleteL2` are the halves of Set and Delete, after
`Write` changed the datum; `OtherWrites` is a process that shares L2. L2 is any
store whose calls may fail, before or after they took effect. A time to live is the
moment at which `ExpireL1` or `ExpireL2` happens, hence no assumption is made on the
length of the copy's time to live in `Backfill`. `InvalidatePrefix` is left out
beyond what it does to one key, which is what Delete does.

### Requests

One engine and a chain of handlers. A middleware calls `Next`, so the chain is a
stack that a thread goes down and comes up with an error; `RunWithTimeout` runs
the rest of it in a second goroutine (`child`) on a copy of the context with a
buffer for a response, and the two interleave at every handler. `wire` is the response
that was started, `buffer` that of the child. `flight` is the map of Singleflight and
`call` each request's entry, with the cases in which a leader's response may not be
shared. Handlers return, fail, panic before or after writing, or never return.

The second half of the module has the contexts. They are pooled and reset, their map of keys goes with them. `heap` has the
maps; `parent`, `child` and `task` say which map a request, the child of its timeout
and its background task hold. A background task that outlives its context goes on with the
map of a context in the pool, and so with that of the next request (`Outlived`). `KeysAreOwn`
says that this is the only way to another request's value; `RequestScoped`, that there is no way,
is what a Context is said to be, and TLC finds it violated.

### Lifecycle

`program` is main as the README writes it (Start, Listen, Stop); `server` the
goroutine of ListenAndServe, `handling` what Shutdown waits for or leaves: hijacked
connections, handlers abandoned by a deadline. A hook that registers a hook stands
before the container's lock for ever, and the program is `stuck`. The second half is one
probe of `health/`: a goroutine and a deadline per check, and checks registered meanwhile.

### Workflows, PubSub, Frames

The sagas of `Workflows` have every combination of functions that succeed, fail, panic or are
missing, of the steps and of their compensations. Its tasks get identifiers by a clock that two
dispatches may read at once; an identifier without an entry maps to `NoTask`. The first half of `PubSub`
has the RabbitMQ client's reader, its one slot for returned messages, confirmations and their
deadline, the end of the channel at any moment (`ChannelLost`: what waits is refused and
`publishReturns` is closed), and the queue with redelivery. The second has the goroutines of the
in-process bus and Redis's channels, whose client repeats a PUBLISH without answer. `Frames`
has one connection in one direction (`serves` says which): the bytes on the way, written by
`WriteMessage` or by a client that masks them and may send control frames and fragments beside
whole messages, and their reader, which drops the first byte. `Short` is 125 in the code
and `Base` 256; the eight digits of the longest encoding are four here.

### RedisClaims and ClaimStore

Claim is SET NX and GET; Complete and Release are WATCH, GET, and MULTI/EXEC that fails if
the key changed, tried again. Any command may fail, or its reply be lost. The refinement maps
`record` and `result` as they are; every command is a step of the atomic store or none.

### RateLimit, Identifiers, Sketches

Buckets see readings of the clock out of order, because a request reads it before the
mutex. A late reading takes the bucket's own time back, and a cleanup may then remove it as idle
though it is not full. `forgotten` and `reordered` are the history `RateBound` excuses. Identifiers
depend on a clock that may step back and on node numbers processes draw; `SetBack` says
of two identifiers that their generator saw its clock go back between them. `Sketches` gives
each key any hash, and words that wrap at `WordSpan` (2^64 in the code); `additions` is
history, and an addition of a count n is n additions.

### Records, Client, Pagination

A call is one statement; the replica follows at any time. `policy` says how a table
gives out keys. In `Client` a call takes a connection of the pool of its kind and its
callback succeeds, fails, panics, queries the client again, or leaves its row alone;
the end of its context takes transaction and rows back, as `database/sql` does. Starters of different
releases migrate at once, in a transaction with a lock (the second half of `Client`); nothing compares a
version with those applied before, so a late release runs a low version after a high one. `Pagination`
walks a table whose rows come and go; its second half is the copy of a query in a
temporary table, statement by statement, with the goroutine that drops it. A CREATE or a COMMIT
that is answered by an error may have taken effect. Pages are read from the replica, which has the
table, then its rows, some time after the primary (`Replicated`).

### Auth and Accounts

A clock ticks twice a second and tokens have whole seconds, which is where lifetimes,
skew and `MaxTTL` meet; processes go through the releases that replace a key one at a
time. In the second half of `Auth` a login revokes and inserts in two critical sections, and the identifier it
draws is one that was never drawn (256 random bits). `Accounts` has both
applications of one e-mail address: `auth.Enable` over an ORM that reads the
replica, and the example, whose login replaces the hash it read by compare-and-swap.
Hashes are records that say what they were made from; nothing is forged.

### Router and Validation

`Router` is the tree, split character by character as the code does, with what
groups and static mounts add; `ServeHTTP` asks the tree, then the mounts for GET and HEAD, then
for OPTIONS the trees of other methods. `Match` is the plain definition of a pattern it is compared
with; `Conflict` says of two patterns that they part at a wildcard, and only those may be lost. `Validation` walks a graph of structs, lists and maps; `ValidationExact` says
by the paths of the graph what the walk should have found. What a rule tests is a
property of the node.

### Search

A request is normalised (`Normalizes`), then evaluated by the memory backend and by the
SQL of the database backend; facets, orders, pages and scopes are compared with a
definition by sets. A client walks page after page while documents change, with the
two queries of a page apart. Words are numbers, a query is one word.

### Generators

`tree` has what is at each target, `temporary` the directory a command writes before it
renames it. `gen module` walks the modules for the highest version, with listing,
opening and reading apart; `extract` audits the files as it reads them while somebody
edits. Any call may fail and any command be killed.

## 3. Runs

| Run | Bounds | Shows |
|---|---|---|
| `outbox` | 2 events, 2 workers, batch 2, 2 attempts, 2 faults | `OutcomeEarned`, `DuplicatesExplained`, `RowsOnlyAdvance`; `ImplementsEventDelivery` with liveness |
| `idempotency` | 4 requests, 2 keys, 2 bodies, store of 1, one client gone, one expiry | `TypeOK`, `ExclusiveExecution`, `NoOrphanClaim`, `ReplaysAreTrue`, `DuplicatesExplained`, `EveryRequestAnswered` |
| `idempotency_duplicate` | same, handlers only succeed, no expiry, room for 2 | violates `NoDuplicateSideEffect` |
| `idempotency_errors` | as `idempotency` | violates `FailureIsNotSuccess` |
| `resilience` | 3 callers, limit 2, 2 attempts, threshold 2, 1 outage, 1 cancellation | `TrippedByCount`, `LimitHolds`, `RequestsEnd`, `Recovers` |
| `resilience_trial` | same | violates `SingleTrial` |
| `kafka` | 2 consumers, partitions of 2 and 1 records, polls of 2, 1 retry, 2 faults | `LossExplained`, `CommitsOnlyAdvance`, `EverythingSettled` |
| `kafka_rerun` | same | violates `AtLeastOnce` |
| `redis_load` | 2 processes, 3 calls, 1 fault, 1 cancellation, 1 change of the datum | `OneFetcher`, `StaleReadsExplained`, `NoBackwardsStore`, `LoadsEnd` |
| `two_level_cache` | 3 callers, 2 keys, L1 of 1 entry, 1 fault, 1 change per key | `L2First`, `StaleReadsExplained`, `Converges` |
| `requests_panic` | 2 requests, Recovery outside Timeout | violates `PanicsContained` |
| `services` | below; 827,684 states, about three minutes | 14 invariants, `RedisImplementsClaimStore`, `WaitsEnd` |

Seven more configurations check what a document or a comment says of one part and the code
does not do. They are kept beside the runs, so that each disagreement can be reproduced:

| Configuration | Bounds | TLC finds violated |
|---|---|---|
| `MCServicesErrors.cfg`, of `MCServices` | as `services`, requests only | `FailuresNeverSucceed` |
| `MCServicesContexts.cfg`, of `MCServices` | as `services`, contexts only | `RequestScoped` |
| `MCServicesFrames.cfg`, of `MCServices` | as `services`, frames only | `ReadsTextMessages` |
| `MCIdentifiers.cfg`, of `Identifiers` | one node, two numbers per millisecond, one step back of the clock | `SnowflakesUnique` |
| `MCSaga.cfg`, of `Workflows` | three steps | `CompletedStepsCompensated` |
| `MCRecords.cfg`, of `Records` | two callers, two keys | `SaveStores` |
| `MCBuses.cfg`, of `PubSub` | one subscriber, two messages | `AtMostOnce` |

The properties of `services` and what they say:

| Property | Parts | Says |
|---|---|---|
| `FlightsSound` | `Requests` | a body on the wire is of the request's own handler or of a shareable flight; one leader per key |
| `FailuresExplained` | `Requests` | a failure is answered as success only where it is a panic that Recovery, behind Timeout, answered into a buffer that was dropped (finding 6) |
| `LateHandlersAreSilent` | `Requests` | a handler past its deadline writes nothing |
| `ContextsOwn` | `Requests` | a context in use is in no pool and is one request's; what a request reads is its own, or comes of a task that outlived its request (finding 7) |
| `OrderlyShutdown` | `Lifecycle` | stop hooks run beside no handler Listen promised to wait for; nil means all were answered |
| `ReadinessTrue` | `Lifecycle` | readiness is what every check said in time |
| `WaitsEnd` | `Requests`, `Lifecycle` | every request, every shutdown and every probe ends |
| `SagaCompensated` | `Workflows` | effects are all there, or undone in reverse and the rest accounted for; a step without Execute or a panic leaves exactly those not undone yet |
| `TaskTruth` | `Workflows` | a status is true of its task |
| `PublishTruth` | `PubSub` | Publish returns nil for stored messages only; a wrong `unroutable` has an earlier timeout or a lost channel as its cause |
| `RedisImplementsClaimStore` | `RedisClaims` | the claims in Redis implement the atomic store |
| `IdsUnique` | `Identifiers` | UUIDs v7 increase; ULIDs and Snowflakes of a process do between any two unless its clock went back between them; Snowflakes of two processes meet only by a shared node number |
| `TokensHonoured` | `Auth` | a token is accepted for its lifetime by every process, and no longer, while a key is replaced |
| `SessionsSound` | `Auth` | at most `MaxSessions`, none revoked; a request is the user of its live cookie or token |
| `EdgesExact` | `Router`, `Validation`, `Search`, `Sketches` | no request reaches a wrong route, and only routes that part at a wildcard are lost; no field that fails passes; search backends agree; an estimate is the sum over the keys of its column |
| `DataTruth` | `Data` | what Save said is there, where the database gives out the keys; migrations run once; generated trees are whole; an old password stays old; connections come back; walks are exact; temporary tables belong to a session, or to an error on record; the rate holds and refuses only at it; a bus within a process delivers once; a sketch misses nothing; the payloads of frames arrive whole, in order |

Why the bounds are enough. Outbox: a stale worker, its successor and a row that
survives both need two workers, two attempts and two faults; two rows make
batches of more than one. The four tokens are one for each row and worker that can
hold one at a time, so `Unused` is never empty. Idempotency: two equal requests race, a third conflicts, a fourth
needs the slot of the first three, so waiting, replay, conflict, capacity and
eviction all occur. Resilience: three callers let two calls be out while a third
is refused by the limiter, and two failures open the breaker while a late call
is still out. Kafka: two records make an unprocessed rest of a batch, the second
partition a batch over two partitions, two faults an eviction followed by a
failure of the new owner or a failed Run followed by a second one. Redis loads: two
calls of one process share a load, the third competes from another process; one
stall makes a lock run out under its holder, also between its check and its store;
one change with its invalidation is enough for a load to carry an old version
across. Calls are finitely many in this run, so it may stop
(`CHECK_DEADLOCK FALSE`). Two-level cache: one caller writes a key while another
reads or loads it, which is what a version needs to cross a change; the third
sets a second key, so that an L1 with room for one entry evicts, and the one fault
fails a half of a write, fails a load or makes a load lose its starter. With one
entry the order of eviction does not show, and two callers that write
the same key at once are left to the proof.

Services: two actors of a kind and one fault each, which is what the races here
take: two requests of a key, a leader and a follower, in four orders of middleware; three
requests of one client and one of another over a table of one bucket; two dispatches in
one tick; two messages of which one is unroutable or too large, and a channel that is lost; two owners of a claim, with an
expiry and a lost reply; five releases of migrations that lack, change or share one another's;
pages of two over three rows; one session too many; two commands and the module of somebody
else; a login and a change of password. Where data decide, the instance has the boundary on both sides:
numbers of one digit, two and three (`Frames`), lifetimes of whole and half seconds,
items up to and above their limit (`Validation`), patterns that share prefixes, end in a parameter or go on
after it, documents with and without an attribute, with null, and with several words. Parts are finite,
so `CHECK_DEADLOCK FALSE`. Every action of every module fires in a passing run.

### Fairness

Only steps the code takes on its own are fair: a worker's loop and its ticker, a
goroutine that runs, a database or broker call that returns, a timer that fires,
a coordinator that hands out a free partition, a supervisor that closes and reopens a
consumer whose Run returned, a load of the cache, the time to live of a lock that
nobody renews or of a cached value; in `services`, a request's goroutines and its deadline,
main and the server, a check's goroutine and its deadline. These parts are finite, so one
condition for all of them is enough: something that can run does (`Advances`). A handler that hangs takes no fair step. Clients, business transactions, outages, repairs,
cancellations, signals, expiry of idempotency entries and faults are never forced.
`Recovers` states in its own antecedent that the service stays up and that calls
keep coming, since neither is the code's doing. All fairness is weak.

## 4. Proofs

`OutboxProofs` proves, for every set of events, tokens, every finite set of
workers and every limit, from the assumptions named in `Outbox`:

- `TypeCorrect`, `OutcomesEarned`, `RowsAdvance`, `DuplicatesAccounted`;
- `ImplementsDeliverySafety`: the outbox implements `Delivery!Safe`.

`OutcomeEarned` is not inductive: a worker that is about to write
`seen + 1` could be arbitrarily late. The invariant `RowInv` says why it is not
dangerous: a token that a worker and a row share names that worker's last claim
and nobody else's, a worker's rows that still carry its token have exactly the
attempt count it read, are claimed only from committed transactions and are
neither published nor failed; and a worker in phase `sent` has a copy at the
broker. From this each action preserves the outcome: a stale worker fails
`Owns`, a fresh one writes a count that is one more than the row's.
`DuplicatesExplained` needs more (`CopyInv`): the copies of a row are at most its
attempts plus its expired leases, plus one for the current record of the worker
that holds the row.

`Resilience` proves, behind the model, `TypeCorrect`, `BreakerTripsByCount` and `LimiterHolds`
for any finite set of callers and any configuration. The three properties together
are the inductive invariant: that the counter of the limiter is exact is what keeps
its decrement from going negative and a refused request from letting another one in,
and the threshold test of the breaker needs the counters to be numbers. The proof
goes action by action over what a caller does between its lock sections
(`CallerStep`), and once for the outage, the repair and the timer (`WorldStep`).

`KafkaProofs` proves `TypeCorrect`, `LossesExplained` and `CommitsAdvance` for any
consumers, partitions, log lengths, batch sizes and retry limits. Neither
`LossExplained` nor `CommitsOnlyAdvance` is inductive: a commit vouches for all
records below one offset, the step that makes it looks at one record. The invariant
is that the owner of a partition accounts for everything it polled
(`PolledAccounted`: settled, skipped, or still in its batch), that a batch is ordered
within a partition (`BatchOrdered`) and lies above the committed offset as long as
the consumer owns the partition (`BatchAhead`). Then a record below the head of the
batch cannot be in the batch, so it is settled (`BelowHead`), and the commit of the
head covers settled records only (`HeadCommitted`). A consumer that lost its
partition satisfies `BatchAhead` vacuously and cannot commit, which is where
`MayCommit`, the broker's refusal, enters the proof. `PolledAccounted` fails in phase
`returned`, when Run has dropped its batch; closing the client forgets the positions
and restores it, calling Run again adds what was dropped to `skipped`.

`RedisLoadProofs` proves `TypeCorrect`, `FetchersExclude`, `StaleReads` and
`StoresForward` for any processes, calls and bounds. A lock with a time to live
cannot exclude for good, so the invariant says what is left of it: a load with a
token has the lock unless it lapsed (`HolderOrLapsed`), and while a load that may
store owns the lock, nobody who may still store has a newer version than its own
(`OwnerNewest`). The first gives mutual exclusion of the fetchers; the two together
say that a store from the owner never goes back, so that a step back comes from a
load that lapsed between `Verify` and `Store`, the gap between the two commands of
`setIfLoadLockOwner`. `CacheSettled` and `LoadsSettled` say that whatever is older
than the last invalidation, in the cache or in a load, was carried across it, and
`AnswersShaped` that no call expects a version that was not there; a stale answer
comes from one of the two. TLC reaches both exceptions: without them the two
properties fail.

`TwoLevelCacheProofs` proves `L2Authoritative` and `StaleReads` for any callers,
keys, uses and bounds, also for callers that write the same key at once. `L2First`
becomes inductive with what is on its way to L1 (`Covered`). For the stale reads,
`Fine` says of every place that has a version (the levels, the loads, the callers)
that the version is as new as the last change that settled or crossed one. Most
steps only move versions along: `Flow` says from where to where, `FlowKeeps` that
such a step keeps the invariant, and the lemma of each action that it is such a step.
Two steps settle a change, the second halves of Set and Delete
(`SettlingKeeps`): what others carry at that moment is on record (`Recorded`), and so
is what got into the half that was done first (`HalfDone`). `TypeCorrect` adds that `keysOrder` lists exactly the
entries of L1, each once and never more than `MaxEntries` (`Lists`): two lemmas say what
taking an element out of a list and adding one at its end do to it, and an eviction
is both. TLC reaches the exception: without it `StaleReadsExplained` fails.

`IdempotencyProofs` proves all five invariants of `Idempotency` for any finite set of
requests, any keys, and any bounds of the store. The invariant has two halves. That a
claim is settled by its owner and that responses are true (`Invariant`) needs: a request
between its claim and its answer holds that claim until it runs out (`ClaimsHeld`), every
entry is the claim of such a request or the response of one that is done
(`EntriesTrue`), and a committed request is about to complete, or remembered, or lost to a
cause on record (`CommitsRemembered`). What a Claim throws out first, the expired and the
evicted, is one notion (`Thins`), so the purge is looked at once. That the map stays
within `MaxEntries` (`Bounded`) needs that `order` lists the keys of the map, each once;
the lemmas `UpToFacts`, `PlaceExists`, `PlaceUnique` and `FilteredFacts` say what filtering
a list keeps, for `Filtered` is defined by places and not by recursion.

`ServicesProofs` proves `FlightsAreSound`, `FailuresAnswered` and `LateAreSilent` of `Requests` for any requests and keys, and any set of chains with one handler at the
end and at most one Timeout and one Singleflight (`ChainsAssumption`). A second Singleflight in
one chain would wait for itself and a second Timeout have a second child; the code allows
both, the model has neither. Most of the invariant is local to a request:
where its threads are in the chain (`Placed`, `Below`), when the child runs (`Paired`),
that the handler ran at most once (`Once`), that nothing is written on the way down
(`Untouched`), who leads and follows (`Leading`, `Returning`, `Sharing`), what happens after
the deadline (`Late`) and after a failure (`Failing`). A step of one request keeps these
for that one by the lemma of its action and for the others because it touches none of their
variables; `FlightsOfKey`, `OneFlight` and `Answered` relate several requests.
`Sharing` is why a follower's body is right: a leader's call goes from open to
shareable only after its chain returned without an error, and stays there.

The other sections of `ServicesProofs` are about ten components more, each
with the component's own specification (its Init, its Next, its variables). What a proof assumes
of the constants is an ASSUME of the component's module, which the run evaluates: that bounds
are numbers and that the values for "nothing" are nothing else, unless said otherwise here.

- `ClaimsRefined`: the Redis claims implement `ClaimStore`, with no assumption on the
  constants. It takes one invariant, which is what WATCH is for: an owner that reached EXEC and
  whose key nobody wrote since still holds the claim (`WatchHolds`).
- `SagasCompensated`: for any number of steps; forward the executed steps are a prefix,
  backward the steps left to undo are one, and undone ones descend. A panic stops in the
  middle: the place where it does (`undoing`) is what the effects that stay are told by.
- `TasksTrue`: for any dispatches, ticks and retries; an entry of one task follows its
  worker (`Follows`), and a write to an entry that others share excuses them all.
- `IdentifiersUnique`: for any processes, node numbers, sequences of any width and corrections of
  the clock. From each identifier on, either its generator saw the clock go back, or the identifier
  is not after the last millisecond and sequence of the generator (`Rises`), which the next one exceeds
  unless it shows that the clock went back; the last identifier has the millisecond that the
  generator remembers, which is how it shows. A generator of version 7 never goes back (`Level`).
- `PublishesTrue`: for any messages and failures; a frame on its way, a return in the slot
  and a confirmation each are of a message the broker decided on (`Told`), in the order
  they were sent (`Ordered`), so a return that is not drained by its own Publish is
  that of one that gave up (`Warned`, `Latest`), as long as the channel is open; when it is lost, what
  was confirmed is stored all the same (`Honest`).
- `ShutdownsOrderly`: for any requests and hooks; `ListenResult` and `ServedEnd` tie what
  Listen returned to what became of the requests, `StuckRegisters` a program that stands still to
  a hook that registers one.
- `ProbesTrue`: for any checks; every answer on record is of the snapshot and came in time (`Heard`).
- `ContextsAreOwn`: for any requests and maps; a map is in the pool, or one request's at
  its present stage (`Stage`), and has that request's value, none, or the value of a request whose
  background task outlived it (`OwnValues`, `LeftTasks`): such a task owns no map, and may write to
  any. The lemma `MapsStayApart` is the
  common part of all handovers.
- `TokensAreHonoured`: for integer clocks and lifetimes and any skew that is not negative; tokens are as
  they were issued (`Genuine`), and a key is used when everybody knows it and dropped when
  nothing needs it (`KeyKept`). `WholeSeconds` and `WholeLifetimes` are the arithmetic of a
  token's seconds.
- `SessionsAreSound`: for any users and a finite set of identifiers; at least one session must be
  allowed, which the constructor enforces (`auth/session.go:64`). An entry belongs to one
  user (`OwnedBy`), and a request's identity is what it found (`Faithful`). The limit
  rests on the cardinality of the entries that are left after a login's purge.

`DataProofs` proves `DataTruth` for every value of the constants (`DataKept`): one section per
component of `Data`, with a theorem about the component's own specification, and a last step
that puts the eleven together, since none uses a variable of another.

- `SavesTrue`: for any callers and keys; what a row may be (`RowOf`) and what an entity may know of
  it (`EntityOf`) survive every statement (`StatementKeeps`).
- `MigrationsRunOnce`: for any starters and releases with integer versions; the holder of the lock has
  read the whole history (`Transaction`) and runs its migrations in order (`InOrder`), the schema has
  each once (`OnceEach`), what was recorded was recorded by a starter whose whole release
  is (`Provenance`), so a version that runs after a higher one was missing from the release
  that ran that (`LateOnes`).
- `AccountsAreSound`: for any requests, words, policies and delays of the replica. What makes
  `HashesCurrent` inductive is that a request between its reading and its compare-and-swap
  has verified its password against the very hash it swaps (`Reads`: at `rehashing` the hash read
  is of the word asked with), and that the swap only takes place if the row still has it. `Knows`
  carries the history: a request's password is `right` if it was at any moment meanwhile.
- `PoolsKeepTheirWord`: for any pools, calls and tasks. `Holds` says which place of a call
  holds which connection, `Fate` what a transaction's call knows; `NoLeak` follows from the
  first, and `StarvedOnlyByNesting` by counting (`PoolsWithin`, `StarvedOnly`): a pool that somebody waits
  for is full, and each connection of it belongs to a call that is over or waits itself.
- `PagesAreExact`: for any finite table whose rows come and go. A row that stayed is met or still
  lies past the cursor (`Reaches`); a walk that does not restart leaves what it visited behind
  (`LeavesBehind`), a whole `Limit` with each page but the last, which bounds the pages.
- `EphemeralTablesOwned`: for any sessions and delays of the replica; `Filled`, `InTime` and `Owned` say
  what the place of a call means for its rows, its session and its table, `Meets` what a page between
  its two statements may meet: at the primary all rows, unless the session ran out. What the replica
  has of them is nobody's promise, so a page that misses rows has the lag or the time as its reason.
- `GeneratorsPublish`: for any commands and modules. A walk that met no other command has every
  module behind it or still to come (`Walks`), so its maximum is above all; commands that
  met no other are alone (`Alone`); an audited file was good when it was read (`Passes`), and
  what is written is what was read.
- `RateIsBounded`: for any requests, rates and capacities. The idea is an account: what a client
  passed since any moment plus the tokens in its bucket is at most the capacity plus what the rate
  added (`Charged`); without a bucket, what it passed fits before the last cleanup, because the
  cleanup only takes full ones. `Spent` is the converse, that missing tokens were
  passed since a moment at which the bucket was full, and gives `AtLimit`.
- `BusesDeliver`: for any handlers, messages and subscriptions. A message of a handler's time has run or
  has its goroutine, never both (`BusRuns`); what a Redis subscriber got and what is on its way to
  it are one ordered sequence (`Orderly`), without a gap since the call began (`NothingLost`).
- `SketchesAreSafe`: for any keys, hashes, size, depth and word, a width that divides the word (2048 and
  2^64 in the code) and fewer additions than a word counts. Because the width divides the word, a
  hash that wraps keeps its column (`Wrapped`), so keys that meet in one row meet in all
  (`MeetInAll`): the rows stay equal, and the sketch's five are worth one.
- `FramesAreIntact`: for any payloads and kinds of frames, any `Short` and any `Base`. The invariant says where each frame
  that was not read yet begins in the stream and what it holds there (`InFlight`, `IsFrameAt`); a
  header read at the first of these places gives its length back (`HeaderIs`, by `TwoDigits`), and
  masking twice is nothing (`Unmasked`). It holds as long as no payload needs a third digit: what
  happens beyond is the code's loss of high digits, which the antecedent of `FramesIntact` names.

What proving found about the models. `RateBound` was false for larger constants than the run's: a
late reading of the clock takes a bucket's time back, a cleanup that follows removes it as
idle though it is not full, and the client starts again with a full one. TLC confirms it with
seven requests, rate 1, capacity 3 and a cleanup interval of 3: six pass within two units, where five are
the limit. It is the code's behaviour (`middleware/ratelimit.go:50-53`, with `now` read before the mutex);
`forgotten` has these clients now, and `RateBound` says so. `Verdict` of `PubSub`,
`Rank` of `Search` and `Value` of `Router` were CASE expressions whose guards overlap. TLC takes
the first, the definition leaves the choice open; they are disjoint now.

Induction. The library's induction theorems take an operator, which the provers cannot
instantiate; where a number had to be the least or a value the highest, the proofs take the least
element of a set of counterexamples instead (`Least`, `Highest` in `DataProofs`).

Not proved, because outside the reach of the provers used: liveness under
fairness (`EveryRequestAnswered`, `RequestsEnd`, `Recovers`, `EverythingSettled`, `LoadsEnd`,
`Converges`, `WaitsEnd`, the progress half of `EventDelivery`), and what RECURSIVE operators compute:
the tree of `Router` and the walk of `Validation`. Model-checked only are therefore `EdgesExact`, with the
documents of `Search` and the sums of `Sketches` in it, and
`ImplementsEventDelivery` as a whole, whose safety half is proved.
`TypeOK` is proved, and therefore not in a run, for the other modules with proofs.

## 5. Findings

Documents and comments of the repository that the code contradicts. Findings 1 to 5 are
shown by the runs they name, 6 to 12 by the configuration they name (section 3). The
properties of `services` that hold name what 6 to 12 are about as their only exception.

1. `idempotency_duplicate`: `Complete` uses the request's context
   (`middleware/idempotency.go:152-154`). A client that leaves after the handler
   committed makes it fail, the claim is released, and the retry executes again,
   against README.md:791 and docs/slo.md:13.
2. `idempotency_errors`: an error of the handler is answered with 200, because
   the buffer is flushed before the error handler runs
   (`middleware/idempotency.go:144`), against docs/adr/0003-error-contract.md:15.
3. `resilience_trial`: a half-open breaker admits all calls
   (`resilience/resilience.go:57`), against the comment at line 19.
4. `kafka_rerun`: a second `Run` on the same consumer passes over the records
   the failed one dropped (`queue/kafka.go:275`), against
   docs/adr/0005-events-and-delivery.md:8-9. An application that closes the
   consumer and opens a new one is not affected, as `LossExplained` shows.
5. `requests_panic`: a panic behind Recovery and Timeout ends the process
   (`context_timeout.go:24`), against middleware/recovery.go:11-12.
6. `MCServicesErrors.cfg`: with Recovery behind Timeout, a panic ends in an empty 200. Recovery
   writes its 500 into the buffer, which `RunWithTimeout` commits only without an error
   (`context_timeout.go:29`), and aborts the context, which the error handler then leaves alone
   (`gpp.go:320`); against docs/adr/0003-error-contract.md:15.
7. `MCServicesContexts.cfg`: `Async` shares the request's map of keys with its task
   (`context.go:637`). A task that outlives the request writes to the map of the next one that
   gets the context from the pool; against context.go:30, "the request-scoped context".
8. `MCServicesFrames.cfg`: `ReadMessage` never looks at the first byte (`realtime/websocket.go:62`) and
   returns pings, closes and fragments as messages, against the comment at line 61.
9. `MCIdentifiers.cfg`: a node whose clock is set back starts its sequence anew and gives out identifiers
   a second time (`id/id.go:109`), against lines 77 and 94, which call them unique.
10. `MCSaga.cfg`: a step without an execute function ends the saga with the steps before it not
    compensated (`saga/saga.go:43-45`), and so does a panic, also of a compensation (line 71); against line 37.
11. `MCRecords.cfg`: with a generated key `Save` updates a row that was never inserted
    (`dbcore/orm.go:280`) and returns nil, against line 250.
12. `MCBuses.cfg`: the Redis client repeats a PUBLISH whose reply was lost (`pubsub/redis.go:99`), so that
    subscribers get it twice, against "at-most-once" at lines 27 and 83.

Behaviour of the code that the models have and that the properties name as an
exception, each worth a look:

- `pubsub/rabbitmq.go`: the return of a message whose confirmation timed out is
  taken for that of the next one, and a second one stops the client's reader. When the channel is
  lost after a confirmation, the receive from the closed `publishReturns` (line 129, without an ok
  check) reports a stored message as unroutable, and no later Publish succeeds.
- `queue/task_tracker.go:71`: tasks of one tick share their entry.
- `dbcore/orm.go`: `Repository.FindByID` never calls `rows.Next`.
- `dbcore/client.go:286-301`: a callback of InTx that panics keeps its connection
  until its context ends, as does QueryRow without a function or with one that does not scan; a
  callback that queries the client can starve the pool.
- `dbcore/repository.go`: a cursor column with the value 0, or with options in its db
  tag, starts the walk again; rows with equal values at the end of a page are passed by.
- `dbcore/ephemeral.go`: a temporary table stays whose drop failed, whose process died, or whose
  CREATE took effect and was answered by an error (line 72, before the cleanup is deferred). Pages
  are read from the replica (`client.go:246`), so one of a new session may be empty or fail.
- `cmd/gpp/module_generator.go:55-57`: a file that another generator renames ends the walk
  without an error, and the new module gets a version that may be taken.
- `auth/auth_module.go:112-147`: two registrations at once, or one before the replica
  has the first, make two accounts of an address, and a lagging replica still accepts the
  old password. Two policies with different configurations replace each other's hashes at
  each login, because the test is `!=` where the comment says "below"; of two logins that
  do so at once one is answered with 500 (`examples/authentication/application.go:141`).
- `auth/token.go:449`: a lifetime that fits a MaxTTL with a fraction of a second is refused.
- `tree.go`: of routes that part at a wildcard (`/a/:x/b` and `/a/:y`, or `/a/b` and
  `/a/:x`) the order of registration decides which paths are not found. No document promises such
  siblings; the README shows none. `RoutesExact` therefore demands only the routes that part from no
  other in this way, and of the rest that a request reaches the right route, a mount or not found.
- `realtime/websocket.go:104-110`: messages of 65536 bytes and more are written with a
  length of two bytes.
- `search/`: a null passes a filter by range in memory and not in the database, and
  includeMissing does nothing over GraphQL.
- `validation.go:220-253`: a list or map that contains itself other than through a
  pointer is followed until the stack ends, since only structs test the depth.

## 6. Not modelled, and the plan

Left out for good: header filters, formatting, clients of
external HTTP services, cryptography, reflection-driven binding, OpenAPI, the text of
generated files, the generators of a single file (they overwrite it). Comparison
and format rules of validation are a property of the value; conditions on other fields,
the estimate of HyperLogLog, LIKE patterns and dates in text queries of the search database, the
remote search backend, feature flags and server-sent events are left out, as are the paging of
InvalidatePrefix and the Kafka producer, whose outcome is an input of `Outbox` and `Kafka`.

What is left of the plan:

1. the outbox publishing through `PubSub`, so that `PublishTruth` is what its
   branches of `Publish` rest on;
2. the tree of `Router` as a function on the nodes of a finite set instead of a RECURSIVE
   operator on nested records, which could be proved about.
