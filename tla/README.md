# LAAC in TLA+

TLA+ specifications, model-checking runs and machine-checked proofs for LAAC,
the Learning Analytics Analyzing Centre: a NestJS service that answers learning
metrics from the xAPI statements of one or more Learning Record Stores (LRS) and
keeps the results in Redis.  Paths are relative to the repository; "the service"
means one Node process of it.

    tlc -workers 2 -config CircuitBreaker.cfg MCCircuitBreaker.tla
    tlapm CircuitBreakerProofs.tla

## 1. The system

A request `GET /api/v1/metrics/:id/results` is handled by `ComputationService`:

    client -> guards -> MetricsController -> ComputationService.computeMetric
                 |                              |          |          |
                 |                        CacheService  CircuitBreaker  FallbackHandler
                 |                              |          |
                 |                            Redis     LrsClient -> LRS (HTTP)
                 |                                         |
    administrator -> CacheController -> CacheAdminService  IMetricComputation providers

Node runs one callback at a time, so that between two `await`s nothing
interferes; across an `await` everything does.  The shared state is: the breaker
object (one per process, owned by `ComputationService`), the Redis database with
the three clients that connect to it, and the LRS, which other programs write to.

| Component (source) | State | Operations | Hard behaviour |
|---|---|---|---|
| Circuit breaker (`core/resilience/circuit-breaker.ts`) | state, failure and success counts, `openedAt`, half-open attempts | `execute`, `reset` | outcomes of calls arrive after other calls have moved the breaker on; no timer leaves HALF_OPEN |
| LRS querying (`metrics/services/computation.service.ts`, `metric-verbs.ts`) | none of its own; enters the breaker at two levels | `queryStatementsForMetric` under `computeMetric`, `refreshCachedMetric` | a call holds a half-open slot while it asks for more; `Promise.all` leaves orphans |
| Result cache (`computation.service.ts`, `data-access/services/cache.service.ts`) | one entry per key in Redis: result, statements, cursor | cache-aside, incremental refresh, set, delete, invalidate | read-modify-write across awaits; cursor against LRS clock; Redis failing at any command; a hit skips validation |
| Graceful degradation (`core/resilience/fallback.handler.ts`) | none | `executeFallback` | reads the cache for expired data |
| Cache administration (`admin/`) | none | invalidate by key, by pattern, all | SCAN and DEL are separate; races with refreshes |
| LRS client (`data-access/clients/`) | none between calls | `queryStatements`, `aggregate`, `getInstanceHealth` | paging, retries with backoff, error classes, truncation |
| Cache keys (`data-access/utils/cache-key.util.ts`) | none | generate, pattern (and parse, unused) | collisions, patterns that miss |
| Metric providers (`computation/`) | none | `compute`, `validateParams` | results that depend on the order of statements |
| Access control, rate limiting (`auth/`, `core/guards`) | counters in Redis (library) | guards | their order; Redis away |
| Redis connections (`cache.service.ts`, `core/health/`, `core/services/throttler-redis.service.ts`) | three clients | connect, retry, give up, probe | one gives up for good while another reconnects |
| Configuration (`core/config`, `main.ts`) | built once | parse, validate, fall back | three sources for the LRS, silent fallback |
| Catalogue, instances (`metrics/services`) | fixed tables | lookups | - |
| Logging, correlation ids, telemetry | written only | - | - |

What makes each correct:

* **Breaker**: counters agree with the state; no half-open slot leaks; it never
  fails fast for ever; it opens only after `threshold` failures in a row; every
  opening starts a new cooling period; it closes again once the service stays up.
* **Querying**: the same, although each request enters the breaker several times;
  every request ends; the service recovers after an outage.
* **Cache**: nothing that the LRS holds is lost behind the cursor, but for what exceeds the
  limit of a query; a fresh answer has all that was there when its request began; answers
  converge; an invalidation is undone by requests that were under way at most; an LRS outage leads to an answer.
* **LRS client**: all pages, at most so many attempts, the right error class.
* **Requests and keys**: a client is given data only if he may have it, and only
  the result that he asked for; a pattern reaches the keys that it names.
* **Providers**: merging incrementally gives the value of a full fetch; scores
  stay within maxima; a learner who goes on loses nothing.
* **Start and connections**: a running service has an LRS configured; outages of Redis
  are survived, and the readiness probe tells the truth about them.

`PROJECT.json` lists the components with their status and, under `hazards`, each
place where the code can go wrong in a way that a test would hardly reach.

## 2. The modules

| Module | What it is |
|---|---|
| `BreakerTransitions` | the breaker's state as a record and each of its methods as an operator on it; the two next modules are built from it |
| `CircuitBreaker` | one breaker with concurrent callers, an unreliable service and a clock |
| `BreakerContract` | abstract specification: the transition table and the cooling period |
| `MetricQuery` | `ComputationService`'s nested use of its breaker, one LRS query per verb |
| `MetricCache` | the cache-aside path for one key: requests, LRS, Redis, administrator |
| `LrsClient` | one statement query: page loop, retries, limit, on an LRS that grows |
| `LrsSnapshot` | abstract specification: a query returns what the LRS held at one instant |
| `XapiStatements` | statements, and the helpers of `computation/utils` that read them |
| `Providers` | `compute` and `validateParams` of the twelve metrics |
| `MetricValues` | the values that clients are shown, through misses, refreshes and drops |
| `CacheKeys` | keys and patterns, and the parameters that go into a key |
| `Requests` | guards, many keys, errors, fallback, catalogue, invalidation |
| `LrsConfig` | from the environment to the LRS that is queried |
| `ServiceLifecycle` | start of the service, its three Redis clients, the readiness probe |
| `MC...` | small instances of each for TLC |
| `BreakerProofs` | lemmas on the operators of `BreakerTransitions` |
| `CircuitBreakerProofs`, `MetricQueryProofs`, `MetricCacheProofs`, `MetricValuesProofs`, `LrsClientProofs`, `ServiceLifecycleProofs`, `RequestsProofs` | theorems on the specifications of the same names |

`CircuitBreaker` and `MetricQuery` compose `BreakerTransitions` with two different
environments, and both implement `BreakerContract` (`Contract == INSTANCE ...`).
`MetricCache` abstracts from `MetricQuery`: where an LRS call can fail there, or be
rejected by the breaker, it fails here (`lrsUp`).  Its `Query` is one atomic step because
`LrsClient`, with pages, retries and new statements in between, implements `LrsSnapshot`; like
that it returns the newest `MaxStatements` of what a query matches (`Newest`).
`MetricCache`, `MetricValues` and `Requests` are three views of `computeMetric`: which
statements are behind an answer when requests overlap; what values they give in
which order; and whose entry it is, among many keys.  `Requests` takes the validation of
parameters from `Providers`, and its keys from `CacheKeys`.

### BreakerTransitions, CircuitBreaker

Each method of `CircuitBreaker` is synchronous up to the call of the protected
function, and after it, so it is one step each: `Admit` / `Reject` for `execute()` up to
the call, including `transitionToHalfOpen` when the timeout has passed; `Succeed` /
`Fail` for the outcome with whatever transition it triggers; `Reset`.  `openedAt` is
kept as the number of ticks since then, saturated at `Timeout`: that is all
`shouldAttemptReset` distinguishes.  A call fails only if it met the service while
it was down (`exposed`), and may succeed in any case.  `trials` and `streak` are history:
they are read by properties only.

The metrics registry, the logger and `lastStateChange` are left out: nothing reads
them back.

### MetricQuery

`Start` is the outer `execute()`, the call of `queryStatementsForMetric` and its n inner
`execute()` calls, because no `await` lies between them; `StartRejected` the outer call
that fails fast.  `InnerSucceed` / `InnerFail` are the settlements of LRS queries,
`OuterSucceed` / `OuterFail` that of the outer promise: `Promise.all` is fulfilled
when all are, rejected with the first; the inner calls that are then still
running report to the breaker all the same.  That the outer settlement is a step of its own stands for
the few microtasks between the two, in which other requests' callbacks may run.
n calls in a row are one operator, `AfterFanOut`.

### LrsClient

One call of `queryStatements`, again and again.  Statements are numbered in the order in
which the LRS stores them, since the code only concatenates pages and counts.  The service
never asks for `ascending`, so that pages come newest first and a `more` link names
the first statement of the next page (`docs/resources/xapi/API-lrs-documentation.md`); that is the
external part: `Page`, `Evaluate`, `Insert`.  `ReceivePage` is the loop body after a page has come,
`ReceiveError` the `catch` of one attempt with its decision to wait, `Retry` the end of
the delay, `ReceiveMalformed` a 200 without statements, which throws outside of the
retry loop.  An error may come before or after the LRS has evaluated the request.
Tagging with the instance id and the texts of errors are left out.

### MetricCache

One key.  A step is what a request does between two awaits, one command at Redis
or one query evaluated at the LRS.

| Action | Code |
|---|---|
| `Lookup` | `cacheService.get`, then serve the entry or send the queries |
| `Query` | the LRS evaluates one verb's query, `since` exclusive, `until` inclusive; the newest `MaxStatements` are kept |
| `QueryFails` | the error path: cached result on a hit, fallback or error on a miss |
| `Fallback` | `FallbackHandler.executeFallback` |
| `Store` | compute, merge, cursor, `cacheService.set`, respond |
| `ComputeFails` | a provider throws |
| `InvalidateKey`, `Scan`, `DeleteScanned` | `CacheAdminService`, one DEL or SCAN and a pipeline |
| `Insert`, `Expire`, `LrsChange`, `RedisChange` | the LRS, the TTL, and outages |

A result is represented by the set of statements it was computed from, because the
properties only ask what it was computed from.  `stored` is the LRS's own clock:
it never decreases, and `Advances` says whether two statements may share an instant.  It ticks
faster than the service reads it: `Date.parse` truncates to milliseconds (`Parsed`), where the
cursor is compared with `until` (`Served`) and with other cursors (`LatestCursor`, `MergedCursor`); the LRS compares exactly.

Because of the limit, "complete" is said by `Accounted`: a set of statements has a statement, or has `MaxStatements`
others that are no older.  The statements that fall to the limit of a full fetch are behind its cursor, and no refresh asks for
them again; as long as the LRS holds no more than the limit (10000), `Accounted` is membership.

`before`, `began`, `from` and `invalidations` are history.  `from` is, of an entry, the number of invalidations when the
request began whose full fetch it goes back to, and `began` is that number while such a request is querying: what it
queried before a DEL and writes after it is old.
The branch for entries that are not a `MetricCacheEntry` is left out: every entry the
service writes has a response and statements.  Failures before the first cache
access (unknown metric, invalid parameters) change no state.

### XapiStatements, Providers, MetricValues

A statement is a record of what the providers read: verb, object, time, context
activities, score, completion, duration.  An IRI is its path and the digits of its
`id=`, because that is what the regular expressions of the helpers look at.
A provider's `compute` is a function of the sequence of statements; the three families of score,
maximum and time metrics share `Scores`, `MaxScores` and `TimeSpent`, which differ by
`GroupsOf` only, as the classes do.  A list that the code sorts by id is a function on the ids.

In `MetricValues` the LRS grows in the order of `stored`, while `timestamp` may be in any
order (late uploads).  `ComputeMetric` is a miss, `RefreshCachedMetric` a hit, `Drop` the TTL or an
invalidation.  A full fetch is newest first and verb by verb, a merge appends: `IncrementalIsFull`
compares the two.  The metric is chosen in `Init` and asked for again and again.
Three values are not compared: the completion date of a best attempt, in any property; its completion status in
`NeverDecreases`, since a better attempt need not be completed; and `course-last-elements` in
`LastElementsAreLatest` (section 3, divergences).  The LRS holds no more statements than one query returns
(`MaxStored`): beyond that a full fetch after a drop may lower values.

### CacheKeys, Requests

A text is a sequence of tokens: delimiters, their codes, and runs of other characters.  That keeps
everything that encoding, joining and matching can confuse, and nothing else.
`Tokens` is the set of them and `Escape` what `encodeURIComponent` makes of each.  Matching a Redis glob goes through a text token by
token, as a recursive function.  A metric id is one token without a colon: one with a colon has no provider, and the keys made of it
are none under which anything is stored.

| Action | Code |
|---|---|
| `Admit` | throttler, `JwtAuthGuard`, `ScopesGuard`, validation pipe: the first that refuses answers |
| `Hit`, `Miss` | `computeMetric` up to the LRS query; a hit goes without loading the provider |
| `Compute` | compute or refresh, write, respond |
| `QueryFails`, `Fallback` | which errors degrade, which fail; `FallbackHandler` |
| `ReadTables`, `DetailNotFound` | catalogue, metric detail, instances |
| `InvalidateKey`, `Scan`, `DeleteScanned` | `CacheAdminService` |
| `Expire`, `RedisChange` | Redis |

An entry keeps, as history, the question it was computed for and all LRS queries that
contributed to it.  `AnswersOwnRequest` then says of a client's answer that nothing else is in it, and `ValidatedBeforeAnswer` that
he could have had it without the cache, although a hit skips the provider's validation.  Both depend on the key.
A value without a colon is written as it is, so that the group `g,userId=ann` without a user, which no provider accepts, has the key
of the group `g` with the user `ann`, and is answered from its entry; and `default` in a key is no instance or one that is called so.
So the properties say what holds of every answer: the guards, the metric and the
instance; what holds if all requests that share the key have values that are `Plain` (`Legible`): the parameters and the
verdict of the provider; and what holds if `default` is one place for them as well (`OneDefault`): the LRS queries.  Forgetting a
single parameter in the key breaks them.

### LrsConfig, ServiceLifecycle

`LrsConfig` is pure: Joi's schemas and the two parsers as predicates and functions on an
environment, and `ConfigFactory` with its fallback.  `ServiceLifecycle` starts the service in one of a set
of environments (`StartFails`, `Start`, `Listen`), connects the three clients (`Connected`, `Refused`,
`ConnectionLost`, which are ioredis), and probes (`CheckReadiness`, `Pong`, `PingFails`).
`GivesUp` is the difference between the clients: only the cache's has a
`retryStrategy` that returns null.  `refused` is history.

## 3. The runs

Passing:

| Run | Bounds | What it shows |
|---|---|---|
| `breaker` | 3 callers, threshold 2, timeout 2 ticks, 2 half-open slots | counters, slots, streak, contract, and liveness |
| `lrs_client` | 3 retries, pages of 2, limit 5, up to 6 statements | snapshot, retries used up, every query ends |
| `query_safety` | 2 requests of 1 or 3 queries, threshold 2, 3 half-open slots | slots are not lost by nesting or by orphans; nobody waits for a slot only he could free; the contract holds |
| `query_recovery` | 2 requests of 1 query, threshold 3, 2 half-open slots | the service recovers, every query ends, and the circuit opens only after enough failures of the LRS |
| `cache_safety` | 2 requests at a time, 3 statements 1 or 2 ticks apart, 2 to a query and 2 ticks to a millisecond, a range that ends at tick 3, in the middle of a millisecond, 1 invalidation | no hole behind the cursor, fresh answers complete, a range that is served unasked is complete, an invalidated entry comes back only from a request that held it or was querying |
| `cache_converges` | 2 requests at a time, 3 statements, 2 to a query, no range, no invalidation (`Expire` may happen at any time), no provider that throws | answers end up complete, every request is answered |
| `metric_values` | each metric, up to 4 of 7 statements in any order | merged is full, scores within maxima, last elements are the latest, nothing decreases |
| `requests` | 2 clients, 3 answerable requests for 2 keys, 8 wrong ones, one of them with the key of a right one, 4 refused ones, 6 invalidations, a `default` instance of its own | own data only, validated, keys reached by patterns |
| `connections` | 25 environments, 3 retries | instances with complete credentials, giving up no sooner than promised, readiness recovers |

Violations, each quoting the documentation in `findings`:

| Run | What the code does |
|---|---|
| `query_never_recovers` | with the default of one half-open request the outer call takes the only slot, its inner call is rejected, the outer records that as a failure: the circuit reopens for ever |
| `cache_verb_skew` | two verb queries evaluated at different instants: the common cursor passes a statement that neither returned |
| `cache_client_gives_up` | after four refused connections the cache client has ended for good; readiness, on a client of its own, reports that all is well |

**Further divergences** were seen while modelling and have no run.

* Breaker: the success of a call from before the outage closes a half-open circuit
  (`circuit-breaker.ts:30` speaks of test requests); a failed query is recorded at both levels, so that half of
  the threshold opens it (`.env.example:188`; `OpensOnlyOnLrsFailures` states how many it takes);
  `circuit-breaker.interface.ts:70` says `openedAt` is null if not OPEN, and it is kept through HALF_OPEN.
* Cache: a refresh under way puts an invalidated entry back (`docs/srs/REQ-FN-030.md:25`;
  a miss that queried before the invalidation stores its result after it; `InvalidationUndoneOnlyByHolders` states that nothing else
  brings old data back); `getIgnoringExpiry` is the same GET as
  `get` and finds nothing after the TTL (`cache.service.ts:342`); the age it reports is always 0.
  An entry computed from no statements has no cursor and is served
  without asking the LRS until its TTL runs out (`REQ-FN-030.md:23`); a
  refresh that finds nothing new writes its copy back over what others have stored
  meanwhile, and renews the TTL (`:24`).  `Converges` shows that the last two do no lasting harm as
  long as nothing is lost behind the cursor.  A statement stored in the very instant of the
  cursor, after the query, is lost behind it as well (`CursorComplete` with `Advances <- SameInstant`).
  A full fetch of more than `maxStatements` drops the oldest, its cursor stands for them too, and they are lost until the entry is
  dropped (`Accounted`).  With `until` finer than a millisecond, what is stored in its millisecond after the cursor is not asked for.
* LRS client: three retries where `docs/srs/REQ-NF-018.md:28` has at most two; answers 5xx,
  429 and 401 of the LRS end in an error although `.env.example` promises cached or null results.
* Metrics: `course-last-elements` lists completions, not elements, where `docs/Metrics-Specification.md`
  has "deduplicate per element"; `passed` counts as a completion but is not among the verbs that
  are queried; the completion date of a best attempt is that of the first completed statement in the
  order of the sequence, whichever attempt is best, and so differs between a merge and a full fetch;
  statements whose only link to a course is a topic of it are not returned by a query for the course.
* Configuration: `docs/LRS-CONFIGURATION.md:126-138` has `LRS_INSTANCES` first, ignoring `LRS_DOMAIN` and
  `LRS_USER`, then these, then prefixed variables.  In the code `LRS_DOMAIN`
  stays the URL that is queried, always with `LRS_USER` and `LRS_SECRET` (the credentials of instances are used by
  nobody, a TODO in `lrs.client.ts`), prefixed variables come before the legacy ones, and any error in
  the instances falls back to the legacy ones silently.  The `LRS_DOMAIN=` of `.env.example:128` is refused by Joi.
  Numbers are validated by Joi and read again by `parseInt` (`1e4` is 10000 to one and 1 to the other).
* Access: with `AUTH_ENABLED=false` `docs/security.md:237` says that scope checks are bypassed; `ScopesGuard` finds
  no user and refuses.  `all: "false"` in an invalidation becomes true by the pipe's implicit conversion.
  While Redis is down the rate limiter's storage fails every request.
* Keys: not "collision-free" (`docs/srs/REQ-FN-006.md:36`).  A value without a colon is written as it is, so that the group
  `g,since=2025-06-01` has the key of the group `g` since 2025-06-01 (`cache-key.util.ts:60`), and one is answered with
  the other's result; a value that only looks encoded, such as `a%3Ab`, has the key of the encoded `a:b` (`Plain`; others never do, `KeysTellApart`); a request without a user, whose group spells one, is answered from the entry of a right one, where a miss would be a 400
  (`ValidatedBeforeAnswer`); an instance that is called `default` and is not `lrs.url` shares keys with requests that name
  none, whose learners are looked for at another home page (`OneDefault`).

**Why the bounds are enough.**  Two callers suffice for an outcome of one period to
arrive in another; the third is there for a slot to be contended at the same time.
Threshold 2 and two slots separate "first", "last" and "one too many" for both counters.
Two ticks tell a timer that was restarted from one that was not.  Three queries is what the
catalogue needs at most (`COMPLETION_VERBS`); with three half-open slots one request's outer call
and two of its three queries get through, so that rejected, running and orphaned
ones occur together.  A query of 6 statements takes three pages, and the limit of 5
falls inside the last one.  For the cache, two overlapping requests are what
a lost update needs; requests repeat without bound.  Three statements where a query returns two
let a fetch be cut, give a refresh something to find and to merge, and let an older entry be written over a newer one; storage times 1
or 2 ticks apart, with 2 to a millisecond, put statements into the same or the next one, and before, into and after the millisecond in which the range
ends.  `cache_converges` has statements stored in one order only (`InOrder`), since they differ in their names alone, and no
invalidations, which would do what `Expire` does; the history that recognises resurrected entries stays still.  `MaxInvalidations` bounds a counter
that is kept only for that.  The seven statements of `metric_values` are two attempts with
a better one first, completions with and without a flag and by each verb, durations on both sides of
a day, in two courses; four at once fill a list of three and overflow it.  The requests of `requests` differ from each other in
one parameter each, so that a key or a check that forgets one is noticed; one shares its key with a right one, by a comma, and the
`default` instance has an endpoint of its own, so that both conditions (`Legible`, `OneDefault`) are needed.  `MaxRetries` is the code's own;
attempts are counted up to one more (`Bounded`), which is all that is compared.

**Fairness.**  Breaker and queries: the clock runs, clients keep asking, and each call
settles, because the HTTP client has a timeout and the promise chain has no other wait.  Nothing
is assumed of the service or the LRS (in `LrsClient` each attempt may fail) but, in the premise of `Recovers`, that it stays up from some time on.
`Fail` is enabled only for calls that met an outage, so that then only successes
remain.  Cache: requests keep coming and each of their steps is taken.  Expiry is fair only for an entry
that is served without being written back, because any other hit renews the TTL and may
do so for ever.  Neither Redis nor the administrator is fair: Redis may stay down or flap.
Connections: `main.ts` runs on, ioredis' timers fire, an orchestrator goes on probing, and a ping is
answered if Redis stays; Redis itself is fair in no way but the premise of `ReadinessRecovers`.

**What `query_recovery` does not say.**  Recovery there needs `halfOpenRequests` slots that n + 1
calls per request use up exactly: 2 for single-query metrics.  With 1 slot it fails
(`query_never_recovers`), and so it does with any number at which the last slot
goes to an outer call whose inner ones find none.

## 4. The proofs

`CircuitBreakerProofs` proves, for any set of callers that is finite and any threshold,
timeout and number of half-open slots of at least one (`ConfigAssumption`: the
environment schema has these minima):

* `TypeCorrect`, `CountersConsistent`, `TrialsAccounted`, `NeverWedged`, `TrialsWithinLimit`: the
  invariants of the run `breaker`;
* `OpensAfterStreak`: the action property `OpensOnlyAfterStreak`;
* `ImplementsContract`: `Spec => Contract!Spec`, every step maps to a step of
  `BreakerContract` or to a stutter.

The inductive invariant joins the type invariant with four named parts.
`CountersMatchState` is needed by all others, since a guard reads one field and relies on
another.  `TrialAccounting` (attempts <= successes + trials in flight) carries
`NeverWedged`: the breaker rejects when attempts reach the limit while successes are
still below it, so a trial must be in flight.  `TrialsBounded` needs the converse, trials <=
attempts.  `FailureCountIsAStreak` carries `OpensAfterStreak`.  The lemmas of
`BreakerProofs` say of each operator of `BreakerTransitions` what it preserves and
which states it leads to; the proofs of steps cite them, so that
they never expand the record.

`LrsClientProofs` proves, for any page size, limit and number of retries:

* `ImplementsSnapshot`: `Spec => Snapshot!Spec`.  The invariant (`Progress`) is that the statements
  collected so far are a run from `instant`, the size of the LRS when the first page was evaluated, down to the
  statement that the next link names, and that this one is still later than the cursor; pages concatenate to
  longer runs (`DescConcat`), and the limit cuts a run at its old end (`DescTrimmed`).
* `GivesUpLast`: the invariant `GivesUpOnlyWhenExhausted`.

`TypeCorrect` is the type invariant of the same specification.

`MetricQueryProofs` proves, for any finite set of requests, any fan-outs and any breaker configuration:

* `TypeCorrect`, `ProbesAccounted`, `NeverWedged`, `ProbesShareSlots`: the invariants of `query_safety`;
* `OpensForFailuresOnly`: the action property `OpensOnlyOnLrsFailures`, under `FanOuts = {1}`, which is what the
  run has and the comment is about; and that with no more requests at a time than the threshold the circuit opens only
  if an LRS query has failed since the last success (`OpensAfterLrsFailure`).  With more of them the bound is empty: the reports
  may all be late ones of failures before that success.  `OpensForFailedQueries` is the same for any fan-out, one report weaker;
* `ImplementsContract`: nested use of the breaker still implements `BreakerContract`.

That a half-open breaker with no attempt left has a call under way that settles it needs to know who holds
the attempts.  `ProbesHoldSlots` says that there are probes in half-open periods only, and no more than attempts counted, `ProbesOfARequest` that an inner
probe has its outer call beside it, and that of a probing outer call all running inner ones are probes: a probe that waits
then waits for another probe, and the one at the end of the chain can settle.  The start of a request with n inner calls is n admissions at once (`AfterFanOut`); its
lemma says that the first `Room` of them get in.  For the action property `ReportsExplained` bounds the failures
counted, and those still owed to the breaker, by two for each failed LRS query since the last success and one per request.

`MetricCacheProofs` proves, for any requests, statements, ranges and verbs:

* `TypeCorrect`, and `OnlyHoldersUndo`, the action property `InvalidationUndoneOnlyByHolders`: no hypothesis;
* `NoHoleBehindTheCursor`, `FreshIsComplete`, `ReachedIsComplete`, under `OneSnapshot`: there is one verb to query, and
  two statements never have the same time of storage.

Both parts of `OneSnapshot` are needed: with two verbs the run `cache_verb_skew` violates `CursorComplete`, and so does
one statement stored in the instant of the cursor.  Ten of the twelve metrics send one query
(`QueriedVerbs`), and the LRS writes its times of storage with nanoseconds
(`docs/resources/xapi/XAPI-STATEMENT-STRUCTURE.md:259`).  Under `OneSnapshot` the theorems say that the limit of a query is the only
thing by which a statement is lost behind a cursor, whatever overlaps: one that an entry lacks up to its cursor is older than `MaxStatements` that it has.
Of a range that is served without asking they leave out what is stored in the very millisecond of `until`.

`CursorComplete` is not inductive: an entry is complete because what it was
written from was, and that was read several steps before.  `EntrySound` and `RequestSound` carry the claim through the copies in
the hands of requests: what a request found has no hole behind its own cursor, what it got accounts for every match after that
cursor that is no later than the latest it got, and so the union has no hole behind the larger cursor, however old the copy is
when it is written.  A query that is cut accounts for what it drops (`NewestAccounts`), larger sets account for
more (`AccountedGrows`), and new statements in the LRS change nothing about it (`AccountedStays`).

`MetricValuesProofs` proves, for any finite pool of statements, in whichever order they are stored:

* `TypeCorrect`: the type invariant; the cached list has no statement twice;
* `NothingIsLost`: the action property `NeverDecreases`, with no hypothesis about the statements; it compares what section 2 says;
* `RefreshesAreFullFetches`: the invariant `IncrementalIsFull`, with no hypothesis for the score, maximum and
  time metrics (`Summed`), and under `TimesDiffer` for all twelve;
* `ScoresStayBelowMaximum`: the invariant `ScoresWithinMaximum`, under `ScoresBounded`;
* `LastElementsStayLatest`: the invariant `LastElementsAreLatest`, under `TimesDiffer`.

`TimesDiffer` says that no two statements have the same `timestamp`, `ScoresBounded` that a score comes with a maximum
and does not exceed it.  They are hypotheses and no assumptions, because the code guarantees neither: of two completions
in the same instant a stable sort keeps the first, and a refresh and a full fetch find them in different orders; a score is added
to its course even if `max` is absent.  `MCMetricValues` has TLC evaluate both (`PoolIsPlain`), so that
the run is about the pools of the theorems.  `MetricValuesAssumption` gives the fields of a statement their types.

What is shown was computed from a list that was merged many times, and nothing of the list's order is worth keeping.
The invariant therefore says that the cached list, and the list behind `shown`, which may have been dropped since, have exactly the queried
statements of some prefix of the LRS, each once (`Gathered`, `Held`).  Refreshes keep it (`RefreshLists`) because the
cursor is the last of the list in the LRS, so that everything queried up to it is there (`CursorIs`).
All else is about the providers:

* each value is a function of the set of statements, for which every provider has its equation in terms of that set
  (`ValueIs`, `OrderIsNoMatter`);
* with more statements it is not less (`MoreIsNotLess`), and the scores of a set are within its maxima (`ScoresStayWithin`);
* this rests on two facts about the helpers: a sum does not depend on the order in which a set is gone through and grows
  with the set and its summands (`SumsTell`, `SumFunctionGrows`), and a finite set has exactly one enumeration along a
  strict order (`Places`, `OneOrder`), which is what sorting means in these modules.

`ServiceLifecycleProofs` proves, for any environments and any number of retries:

* `TypeCorrect`: the type invariant, with the fact that only the cache's client can end;
* `GivesUpLate`: the invariant `GivesUpOnlyAfterRetries`.  It is not inductive, since it says nothing of a client that is still
  trying.  `AttemptsMatchRefusals` adds that ioredis' counter is at most one ahead of the refused connections
  (the loss of the connection counts as well), that it is 0 while the client is connected, and past the
  limit when it has ended;
* `RunsConfigured`: the invariant `ConfiguredLrs`.  Whichever of the three sources wins, and with the silent fallback, what the
  parsers return is a nonempty list with distinct ids and no empty credentials (`StartUsable`).  That the LRS which is
  queried has the credentials of one of the instances is said for the legacy one only: of the others the endpoint at most is used.

`RequestsProofs` begins with two facts about the keys of `CacheKeys`, for texts of any length:

* `KeysTellApart`: `generateCacheKey` is injective on metrics and instances, and on parameters whose values are `Plain`.  Joining with a delimiter that
  no part contains can be undone from the end (`LastSegment`, `JoinedInjective`), and this is used twice: for segments and colons, where encoding sees
  to it that no value has any (`EncodedTells`, `SameSegments`), and for filters and commas, where plain values have none;
* `PatternsReachTheirKeys`: of the keys with filters, the pattern for a metric and an instance matches those
  of both and no others, whatever the values.  (A key without filters has a segment less than the pattern; every metric has a `userId`.)  What the glob has matched after n tokens of the pattern is an invariant of n (`GlobPrefix`); since a key has as many
  colons as a pattern, each star stands for exactly one segment (`KeyPlaces`).

The library's induction theorems are out of reach (below), but one that quantifies over
sets is not: `UpTo` is induction up to n, from the well-foundedness of the order on the naturals (`Least`).  With it `StepsExist` shows
that a recursive function exists, which is what `GlobMatches` needs before anything can be said of it.

From these it proves, for any clients, requests and tables:

* `TypeCorrect`: results are cached for existing metrics only;
* `AnswersOwn`: the invariant `AnswersOwnRequest`;
* `Validated`: the invariant `ValidatedBeforeAnswer`;
* `KeysName`: the invariant `KeysNameTheirEntries`.

A hit looks at nothing but its key, so the invariant follows entries from where they are made: in the cache, in the hands of a request that refreshes
one, and in an answer, some request that passed the guards and the provider has this very key, as have the one whose question
the entry was last computed for and those whose LRS queries contributed (`EntryFor`).  `SameKey` turns equal keys into equal metrics and
instances, and for legible keys into equal parameters, verdicts and, if `default` is one place, LRS queries.
The conditions are part of the properties, because the code guarantees neither: an identifier with a comma is let in, and so is a
`default` instance of its own.  The run has inputs that need both.

Otherwise the proofs assume of the constants what the modules' ASSUMEs say, and these are what the environment schema
and the shape of the data guarantee.

Model-checked only:

* liveness (`Recovers`, `QueriesAnswered`, `QueryEnds`, `Converges`, `RequestsAnswered`, `ReadinessRecovers`), which is out of the
  prover's reach, as is ENABLED.

Every invariant and every action property of the passing runs is stated by a theorem.

## 5. Not modelled

* Metrics, logs, redaction, correlation ids and Swagger: written, never read back.
* `circuit-breaker.decorator.ts`: no production code uses it.
* `LRSClient.aggregate`, `parseCacheKey`, `matchesTopic`, `extractTopicIdFromUrl` and `detectElementType`: called by no production code.
* Rate limiting: the counting is the throttler library's; the guard's refusals are in `Requests`.
* Shutdown hooks: `main.ts` does not enable them, so that they never run.
* The metadata beside a metric's value, the reported age of a fallback, and the counts in the administrator's message.
* Statements without an id: xAPI has the LRS assign one.
* Several processes of the service: each has a breaker of its own and they share Redis;
  `MetricCache`'s requests may as well belong to different processes.
* The scripts, the frontend examples and the test fixtures.

## 6. Plan

1. *(done)* breaker, nested querying, cache, LRS client, with theorems for the breaker and the client.
2. *(done)* providers and values, keys and requests, configuration and connections.
3. *(done)* the nested breaker, the cache for one verb and distinct times, the configuration for every environment, and own,
   validated answers from the injectivity of keys.
4. *(done)* the values: every property of `MetricValues`.
5. *(done)* what a pattern reaches.
6. *(done)* the limit of a query and the milliseconds of the service in the cache; keys that cannot tell requests apart.
