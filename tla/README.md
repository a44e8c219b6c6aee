# QuarkGate: formal models, checks and proofs

QuarkGate is a metering gateway: it authenticates a caller, holds credits for the
estimated cost of a request, forwards the request to a provider, and settles the
hold from the metered usage. This directory holds TLA+ modules translated from
the Go source under `src/`, TLC configurations that check them on small
instances, and TLAPS proofs for every value of the constants. `PROJECT.json`
maps each definition to the lines it models.

Run `tlc -workers 2 -config X.cfg M` for a run and `tlapm M.tla` for the proofs
of a module; the runs and their modules are in the table below.

## 1. The system

| Component | State it keeps | Operations | Talks to |
|---|---|---|---|
| Credit store (`internal/store`, `migrations/`) | `users.credit_balance_micro`, `credit_ledger_transactions`, `usage_logs`, `metering_sessions` | DepositCredits, ApplyHold, CreateUsageLog, CreateMeteringSession, DeleteMeteringSession, GetExpiredSessions, CaptureAndRelease | called by everybody; one transaction per method |
| Gateway money path (`internal/gateway`) | Redis `balance:{user}`, `idem:{...}` | IdempotencyMiddleware, SolvencyMiddleware | store, Redis |
| Proxy handler (`internal/proxy`) | bulkhead slots, breaker counts, active requests | ServeHTTP, emitMeter | provider, Redis stream |
| Ledger worker (`cmd/ledger-worker`, `internal/metering`) | consumer group of `meter:stream`, `meter:dlq` | processBatch, handleMessage, ProcessEvent, replay-dlq | stream, store, Redis balance |
| Hold sweeper (`runSweeper`) | none of its own | list expired sessions, release, delete | store |
| Reconciliation (`runReconciliation`, `admin reconcile-user`) | none of its own | compare balance and ledger sum, repair | store, Redis balance |
| API keys (`internal/auth`, `AuthMiddleware`, admin) | `quarkgate_keys`, Redis `key:{hmac}`, `keyid:{id}` | create-key, revoke-key, findKeyByToken | store, Redis |
| Rate limiter (`AllowRate`, `RateLimitMiddleware`) | Redis `bucket:{user}:rpm` | prune, add, count, expire in one pipeline | Redis |
| Routing, registry, vault (`route.go`, `internal/registry`, `internal/vault`) | loaded manifests, `credential_vault_entries` | MatchRoute, estimate, store-credential, driver subprocesses | store, drivers |
| Stream meter and pricing (`stream_meter.go`, `internal/metering/normalize.go`, `drivers/`) | `meteringReader` | copy, mergeDriverUsage, poll, NormalizeWithOptions | provider, worker |
| Bridge services, development tooling | see section 7 | | |

What is hard here is not one function but the order in which several processes
touch the same rows and keys:

- the gateway handler makes seven or more remote calls, each may fail, and most
  errors are dropped or answered without undoing what was done;
- the worker and the sweeper settle the same requests, are stopped and restarted
  at any point, and receive events again (XAUTOCLAIM, DLQ replay);
- the cached balance and the cached key are read, then used or written later;
- reconciliation reads and writes the balance in separate statements while
  transactions go on;
- the only protection against double settlement is the UNIQUE constraint on
  `idempotency_key`, whose value is composed in three places;
- the rate limiter's commands interleave, under a clock that was read before;
- the price of a request comes together in five places (stream, driver, poll,
  worker, hold), each with its own fallback when another fails.

What makes each component correct: the store's ledger explains its balance and
applies each key once; the pipeline neither forgets an event nor strands a hold,
settles once and within the hold, and settles in the end; audits do no harm; a
revoked key stays revoked; guard counters are exact on every return path; the
rate limit admits no more than it says and refuses nobody without cause; what
was delivered is charged, by one rule, and a stream stops at its hold.

## 2. Modules

| Module | Models |
|---|---|
| `CreditStore` | the tables and every writing store method, with arbitrary callers (`StoreSpec`) |
| `MeteringPipeline` (extends `CreditStore`) | gateway handlers, Redis stream, worker, sweeper, operator, time, failures |
| `HoldLifecycle` | the abstract specification of a hold: placed once, settled once, in one step |
| `MeteringContract` (extends `MeteringPipeline`) | the refinement of `HoldLifecycle`, and promises of the documents that the code breaks |
| `Reconciliation` (extends `CreditStore`) | the hourly job and `reconcile-user` against running transactions |
| `KeyCache` | key table, Redis cache with its index, lookups, create and revoke |
| `ProviderGuard` | bulkhead, circuit breaker, active counter, shutdown |
| `RateLimit` | the bucket of a user, concurrent pipelines, failing ones, expiry |
| `Pricing` | the price of a usage and the default estimate, as functions |
| `UsageMeter` (extends `Pricing`) | one request from its route to its price: scope, vault, hold, stream, drivers, poll, event, worker |
| `MCCreditStore`, `MCMeteringPipeline`, `MCRateLimit`, `MCUsageMeter` | constants and symmetry for TLC |
| `CreditStore_proofs`, `MeteringPipeline_proofs`, `MeteringContract_proofs`, `Reconciliation_proofs`, `KeyCache_proofs`, `RateLimit_proofs`, `ProviderGuard_proofs`, `UsageMeter_proofs` | theorems |

An operator whose comment starts with "Mistake" is a wrong variant of the
definition after it (a dropped guard, a missing reset, a swapped order). The
specifications never use it; put in place of the right definition it makes one of
the properties fail, which shows that the property looks at that code.

### How state and actions correspond to the code

`CreditStore`. `balance`, `ledger[u]` (rows in commit order), `usageLog`, `session`
are the four tables. Amounts have either sign, as the `int64` arguments do. A method
is one action, because it runs in one transaction that locks the user row first; an
error is a rollback and therefore no step, and the `...OK` operators say when a
method commits. `CaptureAndRelease` is written as the code is: a capture row and a
release row only for positive amounts, both checked against the UNIQUE key, the
CHECK on the final balance only, and the usage log overwritten whatever it held. A
capture or release that is not positive moves nothing (`Moved`), although the log
records it.

`MeteringPipeline`. `pc[r]` is where the handler of request `r` stands. Each
remote call is an action (`CheckIdempotency`, `ReadCachedBalance`, `LoadBalance`,
`StoreLoadedBalance`, `PlaceHold`, `PublishBalance`, `LogUsage`, `OpenSession`,
`EmitMeter`, `CacheResponse`), and `HandlerStops` is an error return or crash
between two of them. `known[r]` is the balance held in a local variable from
one call to the next. `stream` carries, per entry, the delivery count and the
acknowledgement of the consumer group; `worker` is the local state of
`processBatch` (messages in hand, step, balance read) and is lost in
`WorkerCrash`; `sweeper` likewise. `replay-dlq` and `deposit-credits` are
operator actions. Redis itself (delivery by XREADGROUP and XAUTOCLAIM) is
external and modelled from the calls the code makes. Dropped errors are branches of
the step that drops them: a failing GET of the response cache is a miss, a failing
XPENDING counts as a first delivery (`RetryLater`), and a failing read of a session
gives the sweeper a hold of 0 while the session is still there (`SweepRead`).

`Reconciliation`. `audit[a]` is the local state of an audit: the users left, the
balances it read (the hourly job reads all in one statement), and the value to
write. `autoFix` is chosen at the start, as the environment variable is.

`KeyCache`. `row` is the status column, `meta` and `index` the two Redis entries
(their payload is always "active"); `admin` and `lookup` say which call of a
command or lookup comes next. With `RedisFails` any SET or DEL may fail with its
error dropped, and a failing GET is a miss.

`ProviderGuard`. Methods under a mutex are steps; `handler` says how far a
goroutine is in `ServeHTTP`; the deferred calls are in `Return`.

`RateLimit`. `call[c]` is a call in `AllowRate`: its key, the second it read and
the next command of its pipeline. One action per command, because the pipeline has
no MULTI. `bucket` and `expiry` are the sorted set and its TTL; `Tick` is time and
expiry. `RedisFails` ends a pipeline before a command of `FailAt`, and
`ExpireAndAnswer(c, FALSE)` is a pipeline whose replies got lost; both are answered
with 429, what already ran stays.

`UsageMeter`. `phase` is where the request stands (new, held, body or streaming,
poll, emit, emitted, priced; rejected, lost, or hung: waiting for a driver process
that does not end). `client` reads, stalls (connected, not reading) or is gone;
while it stalls every step behind a write is disabled (`Writable`), because no write
deadline is set. `meter` has the fields of `meteringReader`. A data line is one
action, because `copy` forwards and counts it before it looks at the context again;
how a stream ends is one action per cause. Driver calls return a set of possible
results, so that every failure of a subprocess is a branch. What a client asks for
is any integer (`Asks`, `Hints`), since nobody checks it; a body without a usage
object counts with its top-level fields. `EmitMeter` loses the event of a client
that left. `ProcessEvent` is the pricing half of the worker, whose other half is
`Settle` in `MeteringPipeline`; there a cost is any member of `Costs`, here it comes
from the usage.

### Abstractions

- Amounts are small integers. The `CreditStore` run and the proofs have them of either
  sign; the pipeline runs have holds of 2, the pipeline proofs any hold but 0. A cost
  is any member of `Costs`, so the properties do not depend on how usage is priced.
- The idempotency cache is keyed by user and key; the path is left out (requests
  with one key go to one path).
- Authentication, scope check and rate limit come before the hold and change
  nothing the pipeline reads; they are in `KeyCache`, `UsageMeter` and `RateLimit`.
- Raw usage is a table from field names to naturals. Costs are in millionths of a
  dollar and quantities are whole, so `math.Round` matters only in the passthrough.
  Fields nobody prices are one field, `note`.
- A data line is its length divided by 4, as the code counts it, and its usage
  object; other lines are forwarded and change nothing.
- A TTL ends at a full second.
- `replay-dlq` reads and re-adds all entries in one step; a failing XACK is a
  worker that stops before the acknowledgement.
- `hold:{request}` in Redis is not modelled: the code never reads it.
- A negative deposit that would overdraw the user is rejected by the CHECK on the
  balance; other deposits of either sign are applied. Request ids are fresh and no
  client key looks like one (`KeySpacesDisjoint`).

## 3. Runs

| Run | Module | Checks | Distinct states |
|---|---|---|---|
| `CreditStore` | `MCCreditStore` | StoreTypeOK, LedgerChain, BalanceIsNewestRow, UsageLogBacked | 160 thousand |
| `PipelineCrash` | `MCMeteringPipeline` | TypeOK, AckedEventAccounted, HoldNeverStranded, KeylessSettledOnceEach, SettlementWithinHold, StoreSpec | 41 thousand |
| `PipelineConcurrent` | `MCMeteringPipeline` | AckedEventAccounted, HoldNeverStranded, KeylessSettledOnceEach, OneHoldPerClientKey, ReplayWasHeld | 1.3 million (symmetric in the two retries) |
| `PipelineLive` | `MCMeteringPipeline` | HoldEventuallySettled, ImplementsHoldLifecycle | 62 thousand |
| `Reconciliation` | `Reconciliation` | DriftOnlyByRepair, DriftRepaired | 167 thousand |
| `KeyCache` | `KeyCache` | KeyTypeOK, RevocationFinal, RevocationTakesHold | 84 thousand |
| `ProviderGuard` | `ProviderGuard` | GuardTypeOK, SlotsAccounted, ActiveAccounted, LateResultsBounded | 1.7 million |
| `RateLimit` | `MCRateLimit` | RateTypeOK, RateWindow, RefusalJustified | 2.4 million |
| `UsageMeter` | `MCUsageMeter` | UsageTypeOK, OvershootOneChunk, DeliveredIsCharged, UnsentCostsAtMostOneCall, PolledRunPriced, PricedByReference, RequestEnds | 110 thousand |
| `BrokenDoubleCharge`, `BrokenDisconnect` | `MCMeteringPipeline` | one promise each; TLC finds it violated | |
| `BrokenPassthrough` | `MCUsageMeter` | PassthroughCoversCost; TLC finds it violated | |

What they show:

- **CreditStore**: whoever calls the store, in whatever order and with amounts of
  either sign, every row continues from the balance of the row before it, the newest
  row is the stored balance, which is never negative, and a usage log never reports
  a capture that did not happen.
- **PipelineCrash**: one request with any two faults (except the two kinds
  section 5 is about), a redelivery, a deposit and a DLQ replay. An acknowledged
  event belongs to a settled request or is in the DLQ; an unsettled hold is known
  to the sweeper or to the handler that will create its session, unless the sweeper's
  read of the session failed, which the usage log shows; worker, sweeper
  and replay settle a request without client key once, within its hold; and the
  pipeline is an implementation of `StoreSpec`.
- **PipelineConcurrent**: three requests of a user race, two of them retries with
  one client key and one a stream without a key, with the worker taking them in one
  batch and one fault: a handler dies at the proxy or a Redis call fails. The same as above, and: one request of a
  key holds, a cached answer is replayed only if a request of that user and key held.
- **PipelineLive**: two requests, a keyless one and a stream with a client key
  (refused); with all kinds of faults, a hold that has a session is in the end
  settled, or lost by a sweep whose read failed. The run's second property is the refinement: for requests
  that cost less than their hold the pipeline implements `HoldLifecycle`.
- **Reconciliation**: transactions never make balance and ledger sum disagree,
  and the report-only mode never writes; only a repair can cause a drift. With
  auto-fix the drift of a user whose transactions stop is repaired for good, unless
  the ledger sum stays negative.
- **KeyCache**: a revoked key that has left the cache, with no lookup about to
  fill it, never returns; and it does leave the cache in the end even when the
  index is missing or Redis fails.
- **ProviderGuard**: slots and active requests are exact on every path. Opening the
  circuit resets the counts while earlier calls still run; what they record while it is
  open is less than the bulkhead has slots, so the breaker starts after its cooldown
  with no more stale results than that.
- **RateLimit**: two calls at a time with two keys (limits 1 and 2) of one user. In
  any window the calls admitted with a key fall into at most `rate_limit_rpm`
  seconds, and a refusal is never due to a second that has left the window.
- **UsageMeter**: the seeded openrouter, apify and letta rows, one model override, a
  manifest without a row; asks and hints are zero, positive and negative. A stream
  overshoots a positive hold by at most the last chunk;
  streamed output without a usage report is charged however the stream ends and
  whatever drivers fail; a polled run is priced by its poll; the minimum rules amount
  to one rule; every admitted request ends although a provider may trickle for ever,
  unless its client stays connected without reading or a driver process hangs.

### Bounds

| Bound | Value | Why it is enough |
|---|---|---|
| `MaxFaults` | 1 or 2 | two faults cover a crash during the recovery from another failure |
| `MaxRetries` | 2 | reaches both a retry and the DLQ; the code compares with `>=` only |
| `MaxReplays` | 1 | a replayed event that fails again is a second DLQ entry |
| `BatchSize`, `SweepLimit` | 2 | a batch with two messages, a list with two sessions; a smaller `SweepLimit` than there are sessions is discussed in section 5 |
| `Costs`, hold 2 | 0, 1, 3 | nothing captured, part of the hold, more than the hold (cut to the hold, nothing to release); 2 behaves as 3 |
| `DepositKeys` | one | the one deposit can come at any time, a second one only adds credits. In `Reconciliation` finite keys make transactions stop, so every behaviour of the run is one of a user who becomes quiet; DriftRepaired is stated for those only |
| `MaxErrors` | 1 | one failing statement of an audit at any place |
| `Amounts` of `CreditStore` | -1 to 2 | a negative, an empty and two positive amounts |
| `MinSamples`, `MaxResults` | 2, 3 | the smallest counts with a majority; the code's 5 only delays the opening. `MaxResults` bounds the run: the code counts on |
| handlers of `ProviderGuard` | 4 | all slots of both providers (`Limit` 2) can be taken |
| requests | 1 to 3 | two race for balance, batch and sweep list, a third has another key |
| `Window`, `MaxDelay`, `MaxClock` | 3, 1, 6 | the window passes twice and the TTL (6) ends once; a call may be a second late |
| `FailAt` | prune, add | a pipeline is one write: once Redis has its ZADD it has its EXPIRE; section 5 says what happens otherwise |
| `ChunkSizes` | 0, 700 | an openrouter hold (482000 or 500900, a million, 1421600) is exceeded by the first, the second or the third chunk, letta's 5 million by none; a chunk below 4 bytes counts 0 |
| `Asks`, `Hints` | -1000, -20, 0, 1; -1, 0, 1 | a negative hold, an estimate of exactly 0 (apify with -20: the default hold), the defaults of an absent value, a small request |
| `MaxOutput` | 2100 | three chunks; without a soft cap nothing else bounds the lines of a second |
| `Reports`, `RunTimes` | 4, 1 | a cost, tokens, a zero quantity and unknown fields; a run that takes 7 s besides failed (0) and timed out (300) |
| `MaxStream` | 2 | a stream with and without time left |

`CHECK_DEADLOCK FALSE` is set where the modelled system may really stop: all
requests answered and all events settled, or the server shut down.

### Fairness

- `FairSpec` assumes only that the sweeper's ticker fires and its statements are
  executed (`WF(SweeperStep)`) and that time passes (`WF(Expire(r))`). Nothing is
  assumed of handlers, of the worker or of delivery: the sweeper alone must be
  enough. Faults are bounded by `MaxFaults`, so the sweeper is not stopped for ever.
- `FairReconSpec`: the hourly ticker fires and a pass runs to its end.
- `FairUsageSpec`: the call of a provider ends (timeout of its HTTP client), time
  passes while a stream is silent, the event is emitted and processed, and a driver
  answers, fails or counts as hung (a phase of its own). `ReadBody` and `StopStream` are
  behind a write, which ends only when the client reads or goes: they are strongly fair,
  that is, taken if the client keeps coming back to reading, and nothing is assumed of
  a client that stalls for good, which RequestEnds excepts. Nothing is assumed of the
  provider: it need not send a line or end its stream.
- `FairKeySpec`: a lookup and a started revoke-key run to their end, and an entry
  expires after its TTL. Nothing makes requests or commands arrive.

## 4. Findings

Each is a violation run whose trace TLC prints, against a line of the documents.

1. **A settled request is charged twice** (`BrokenDoubleCharge`).
   `CaptureAndRelease` (`store.go:258`) subtracts the capture from a balance that
   `ApplyHold` already reduced by the hold and adds back `hold - capture`: a
   request with hold 2 and cost 1 leaves the balance lower by 2.
   `phase_3_metering.plan.md:201`: "balance reduced by capture only, hold released".
2. **No event for a disconnected client** (`BrokenDisconnect`). `emitMeter` uses
   the request context, which the disconnect cancelled; the XADD fails and the
   error is dropped. `proxy-pipeline.md:28`: "Client disconnect cancels downstream
   via request context → `partial` metering".
3. **A passed-through cost is captured at a thousandth or less of its value**
   (`BrokenPassthrough`). `NormalizeWithOptions` (`normalize.go:45`) multiplies
   micro-dollars by `CREDIT_USD_MICRO / 10^6`; $0.01 costs 105 micro-credits with the
   margin, and the run's $0.001 the minimum of 100. `docs/architecture/credits.md:5`:
   "**1 Credit ≈ $0.01 USD**, configured via `CREDIT_USD_MICRO=10000` (10,000 USD
   micro-dollars per credit)", a credit being 1,000,000 micro-credits (`:3`). The
   formula in `credits.md:10` repeats the code.

## 5. Further disagreements with the documents

Seen while modelling; the models contain the behaviour, and the passing runs
exclude it by a constant or a weaker property, as said in each case.

- **Stranded hold**: with the `"solvency"` fault (an error or crash between
  `ApplyHold` and `CreateMeteringSession`, `middleware.go:255`) HoldNeverStranded
  fails: no session, so no sweep. `phase_3_metering.plan.md:107`: "Abandoned
  session | Sweeper releases full hold". `PipelineCrash` leaves that kind out.
- **Hold lost by the sweeper**: `runSweeper` drops every error of `GetMeteringSession`
  (`ledger-worker/main.go:174`), so a read that fails while the session exists yields a
  hold of 0: `CaptureAndRelease` commits without a row (`:185`) and the session is
  deleted (`:190`). The same line of the plan promises the full hold. HoldNeverStranded
  and HoldEventuallySettled name this case (`LostBySweep`) by its trace, a log closed
  as failed with neither transaction; no other step of the sweeper loses a hold.
- **Negative holds**: max_tokens, timeout and estimated_max_credits are not validated,
  `route.go:105` replaces only an estimate of 0, and `ApplyHold` (`store.go:204`) admits
  a negative amount: the balance rises. Neither capture nor release is positive then, so
  no settlement row is written and the usage log records a negative capture; and
  `stream_meter.go:116` (`holdMicro > 0 &&`) switches the soft cap off. Ledger and
  balance stay consistent (the store's properties hold for every amount);
  OvershootOneChunk, AckedEventAccounted, HoldNeverStranded and HoldEventuallySettled
  are about positive holds.
- **Requests that never end**: for a stream the write deadline is cleared
  (`handler.go:134`) and the server has no WriteTimeout, so a client that stays connected
  and stops reading blocks `copy` in its write, and STREAM_MAX_SEC is never looked at.
  Driver processes have no timeout (`registry/exec.go:10`), nor has a fetch of the apify
  poll (`drivers/apify/driver.js:72`), which POLL_MAX_MS does not interrupt; in the
  worker a hung `normalizeUsage` holds up the whole batch.
  `phase_1_foundation.plan.md:638`: "Stream idle timeout: 30min default → partial
  capture". RequestEnds names both cases.
- **Lost DLQ push**: with the `"push"` fault AckedEventAccounted fails, because
  `handleMessage` acknowledges although the push failed (`ledger-worker/main.go:130`).
  `metering-pipeline.md:14` says the message is not acknowledged until it is in the DLQ.
- **Keyed request released twice**: the worker's release is keyed by the client
  key, the sweeper's by the request id, so both can commit
  (`proxy-pipeline.md:35`). KeylessSettledOnceEach and the refinement are
  therefore about requests without a key.
- **Usage log overwritten**: after such a second settlement the log of a captured
  request says captured 0 and has no transaction id (`phase_1_foundation.plan.md:474`).
  UsageLogBacked states the direction that holds.
- **Sweeper starvation**: a settled session whose release is rejected is never
  deleted, and `GetExpiredSessions` has a LIMIT without ORDER BY (`store.go:171`):
  when as many such sessions as the limit exist, HoldEventuallySettled fails.
  `PipelineLive` has `SweepLimit` above the number of sessions.
- **Auto-fix overwrites a transaction**: a commit between the ledger sum and the
  UPDATE is lost from the balance until the next pass
  (`metering-pipeline.md:16`, `phase_3_metering.plan.md:135`). DriftOnlyByRepair
  and DriftRepaired say what remains true. While a user's transactions go on each repair
  may overwrite a commit and cause the next drift, so nothing is promised for that user.
- **Revoked key accepted**: a lookup that read the active row fills the cache
  after revoke-key emptied it, and the token is accepted until the TTL ends
  (`phase_2_proxy_auth.plan.md:176`: "invalidate on revoke").
- **Full capture followed by full release**: when the cost reaches the hold no
  release row, hence no release key, is written. If the session outlives the
  settlement the sweeper releases the whole hold too (`ledger-worker/main.go:185`;
  `phase_1_foundation.plan.md:385`: "Transaction: `capture` actual + `release`
  (hold - actual)"). The refinement is therefore about costs below the hold.
- **A deposit does not reach the cached balance** (`admin/main.go:84`;
  `phase_1_foundation.plan.md:253`: "Cached balance (synced from PG on write)"). The
  key has no TTL, so the solvency check goes on refusing a user who has paid.
- **The rate limit counts seconds**: the member of the sorted set is the second, so
  any number of calls within one second is one member, and refused calls are members
  too. All keys of a user share a bucket and each compares it with its own limit.
  `phase_1_foundation.plan.md:308`: "Redis token bucket per key/user". RateWindow and
  RefusalJustified are stated for seconds.
- **Bucket lost under a call**: were a pipeline to stop between ZADD and EXPIRE, the
  bucket would keep an earlier TTL; after two of those within its two minutes it
  expires with recent members and RateWindow fails (`FailAt` with "count").
- **A request that never reached its provider is charged**: for apify and letta the
  drivers count one call in the empty usage of a failed request, 1000 micro-credits
  (`phase_3_metering.plan.md:104`: "`capture=0`, `release=hold`").
  UnsentCostsAtMostOneCall is what holds.
- **Soft cap**: a stream that is cut is charged its estimate or what the provider
  reported, not the whole hold (`phase_1_foundation.plan.md:621`: "close downstream,
  capture full hold"). The estimate is the bytes of the JSON lines over 4.
- **Keepalive**: tested only after a line has been read, it is never due
  (`stream_meter.go:95`; `phase_1_foundation.plan.md:338`: "If downstream silent >30s,
  inject SSE comment").
- **A usage object with unknown names makes a stream free**: it replaces the
  estimate and has no quantity. DeliveredIsCharged is about streams without one.
- **kuzu** has a driver and a manifest but no row in `provider_configs`: 404.
- **One breaker for all providers**: `Allow` ignores its provider argument
  (`phase_1_foundation.plan.md:652`: "Circuit breaker per provider").

## 6. Proofs

All theorems hold for every value of the constants that satisfies the named
assumptions (`AmountsAreIntegers`, `KeySpacesDisjoint`, `RequestsWellFormed`,
`AmountsCoverPipeline`, `BoundsAreNaturals`, `FaultsKnown`, `RedisFailsIsBoolean`,
`KeysWellFormed`, `TimesWellFormed`, `FaultsWellFormed`, `GuardBounds`,
`RatesAreNaturals`, `InputsWellFormed`), in particular for any number of users,
requests, handlers, faults, retries and replays, any window, pricing and usage.
They are about the model, faults included.

**`CreditStore_proofs`**: `StoreInvariant`, and from it `StoreTypeCorrect`,
`LedgerExplainsBalance`, `StoredBalanceIsNewest`, `CapturedCreditsBacked`, for amounts of either sign. `StoreInv` is
the conjunction of these properties and of KeysUnique (a lemma for the pipeline, no
property of its own: it is the UNIQUE constraint) and is inductive as a whole, not part by
part: a row continues the chain only because the stored balance is the newest
row's, and a balance is a natural number only under the guards of `ApplyHoldOK`
and `CaptureAndReleaseOK`. The work is in `InsertPreserves`, a fact about one
INSERT; `CaptureAndRelease` uses it twice, with the table after the capture row in
between (`SettlementPreserves`).

**`MeteringPipeline_proofs`**: `PipelineTypeCorrect` (TypeOK),
`PipelineImplementsStore` (StoreSpec, hence `PipelineLedgerAudit`: the store's
properties hold of the running pipeline). `PipeInv` strengthens TypeOK by what the
arguments of the store calls need: a served request has a key, the sweeper's hold
was read from a session, sessions hold amounts.

The same module proves `SettlementNeverExceedsHold` (SettlementWithinHold) and `KeylessSettledOnce` (KeylessSettledOnceEach). The
ledger alone does not say why a settlement has a hold. `SettleInv` adds that
everything that can lead to one (a handler past `ApplyHold`, a session, a stream
or DLQ entry, an id in the sweeper's hands) refers to a request whose hold is in
the table, and that a session's hold is at most the request's. `StepGrows` shows
that the ledger only grows and every new settlement row is backed; one lemma per
holder (`GatewayHeldStep`, `SessionHeldStep`, `QueueHeldStep`, `SweepHeldStep`)
shows that the references stay valid. Uniqueness then follows from KeysUnique,
since a keyless settlement's key is made of its type and request.

**`MeteringContract_proofs`**: `RetriesHoldOnce` (OneHoldPerClientKey),
`ReplaysWerePaid` (ReplayWasHeld), `EventsAccounted` (AckedEventAccounted),
`HoldsNotStranded` (HoldNeverStranded) and `PipelineImplementsHolds`
(ImplementsHoldLifecycle). `ContractInv` is `SettleInv` with three parts, each
about what a process holds in its local variables while others write the ledger:

- `KeyInv`: a hold row carries the key of its own request, a handler before
  `ApplyHold` has no hold, and a cached response belongs to a user and key that
  have one. A second hold of one key would repeat an idempotency key.
- `WorkerInv`: past its transaction the worker has settled the request of the
  message in hand, and a message about to be acknowledged is settled or in the DLQ.
- `SessionInv`: a handler past `CreateMeteringSession`, and every id the sweeper
  has listed, has a session or is over (`Over`: settled, or lost by the sweeper); the
  sweeper deletes only what is over. A hold of 0 in its hands means that the session
  was deleted after it was listed, so that its request is over, or that its read failed,
  and then the empty settlement leaves the log `LostBySweep` describes
  (`EmptyRelease`). Nothing erases that trace but a real settlement (`StepLogs`,
  `OverStays`).

Two theorems have a hypothesis, and each is the fault section 5 says breaks the
property: `EventsAccounted` needs `"push" \notin Faults` (the acknowledgement
after a failed DLQ push) and `HoldsNotStranded` needs `"solvency" \notin Faults` (no
session after `ApplyHold`). All other faults are allowed in both, a failing read of
the sweeper included, and both are about positive holds.

The refinement holds where every request is settled under its own id
(`SettledUnderOwnId`: no client key, or a stream, which is refused when it has one)
and costs less than its hold (`CostsBelowHold`); section 5 has the counterexample
for each. Then every settlement writes a release row under the request's id, which
the UNIQUE constraint allows once: `SettledReleased` is the invariant that turns
"this transaction commits" into "this request was not settled before", and
`LedgerMoves` lists the four ways in which a step changes the ledger. The abstract
captured and released sums have at most one row each (`Unmoved`, `MappedState`).

**`Reconciliation_proofs`**: `RepairsCauseDrift` (DriftOnlyByRepair),
`BalanceIsLedgerSum` (for any callers of the store the balance is the sum of the
user's rows) and `ReportOnlyKeepsBalances` (no drift at all without `reconcile-user`
and RECONCILE_AUTO_FIX). The sum is the fold of the community modules, a recursive
function chosen by CHOOSE. `FoldExists`, `FoldUnique` and `FoldAnyOrder` show that
the function exists, is determined by the amounts and does not depend on the order;
each takes a smallest set of row numbers that fails, which exists because the subsets
of a finite set are well founded (`MinimalSubset`), and derives a contradiction. So an
INSERT adds its amount (`SumOfAppend`), and every store method moves a balance and
its sum alike (`StoreMoves`). `ReconInv` adds that only an audit entitled to repair
is ever about to write.

**`KeyCache_proofs`**: `KeyTypeCorrect`, and `RevocationIsFinal`, an action
property: from a dead key no step of any lookup, command or expiry leads to a
live one. `KeyInv` adds that create-key caches a key as new
only while its row is active.

**`RateLimit_proofs`**: `RateTypeCorrect`, `RefusalsAreJustified` and
`AdmittedSecondsBounded` (RateWindow, for specifications with `WholePipelines`). A
refusal is justified because the bucket holds only counted seconds and, between the
prune of a call and its count, none older than its window (`PrunedBucket`, which
needs that no call is later than `MaxDelay`). The bound needs `WindowInv`: an
admitted second stays in the bucket as long as it can be in a window
(`AdmittedKept`); every member is covered by the TTL or by a call that is
about to set it (`MembersCovered`); the bucket does not expire under a call that
pruned it (`ExpiryAhead`); a call's own second stays until it has counted
(`OwnSecondKept`). Then the seconds of a window are a subset of what the last
admitted call counted (`GrantedWindow`), whose cardinality it compared with the limit.

**`ProviderGuard_proofs`**: `GuardTypeCorrect`, `SlotsNeverLeak`, `ActiveCountExact` and
`FewLateResults` (LateResultsBounded). `GuardInv` joins the types to the two
counts; each action adds one handler to a counted set, takes one away or changes
none, and `GuardCounted` gives the cardinality. That `requests` is never negative is
a consequence of its being a cardinality. For the late results, the handlers that have
a slot are mapped one-to-one into providers times slot numbers (`SlotsBounded`); when
the circuit opens one of them is the opener, which does not call (`OpeningInv`), and
while it is open a call may turn into a result but none starts (`OpenInv`).

**`UsageMeter_proofs`**: `UsageTypeCorrect`, `StreamOvershootBounded`,
`PriceIsReference`. `UsageInv` adds `MeterOK`: an admitted request has its hold (an
integer other than 0), the meter is empty until a stream begins, and a stream that goes
on is covered by its hold if that is positive. The lemmas on tables (`MergeTable`, `ParseTyped`, `NormalizeTyped`) say that
drivers and merges yield tables; `MinimumRules` and `PriceFollowsReference` are about
the price function alone: its three minimum rules are the one of `ReferencePrice`.
`StreamedOutputIsCharged` (DeliveredIsCharged), `UnsentCostsOneCall`
(UnsentCostsAtMostOneCall) and `PolledRunIsPriced` (PolledRunPriced) follow the usage
from the stream to the price with `RawInv`: the estimate of a stream without usage
report survives the driver, the event and the worker's normalisation
(`StreamUsage`); a request that was not sent carries no field, or the one call its
driver counts (`UnsentUsage`); the result of a poll is in the event as run time and
one call (`PolledUsage`). `PolledRunIsPriced` assumes `PolledByTime`: a provider that
is polled is priced by run time and calls only, as the seeded apify row is.

Only model-checked: liveness (HoldEventuallySettled, DriftRepaired,
RevocationTakesHold, RequestEnds), which needs fairness and ENABLED, out of the
prover's reach. Every invariant and every other action property or refinement that a
passing run checks is proved.

## 7. Not modelled

- Vault: the encryption. Token generation and hashing. Loading of manifests, driver
  health checks and the subprocess protocol. Configuration, database setup and
  metrics: constants, start-up work and write-only counters.
- A pricing row with an override for a model but no base rates: writing the override
  into the missing map panics in Go (`normalize.go:110`); no seeded row is like that.
- Drivers: building the downstream request, and the supabase and kuzu drivers, which
  count the rows of a response that is read as a whole (kuzu has no provider row).
- Kuzu bridge and embed worker: separate Python services behind a driver. `scripts/`,
  development supervisor and dashboard: local tooling.

## 8. Plan

The order followed so far is by importance to the user's money: store, pipeline,
its abstract specification, audits, keys and provider guard, then rate limit,
pricing and the usage of a request.

Next proofs: what still separates the proofs from liveness, that is, from every
state with an unsettled hold and a session the sweeper's next step brings the
settlement nearer (a ranking), stated without ENABLED; and the refinement for
requests with a client key under a weaker abstract specification that allows the
second release section 5 describes.

Next models: the supabase driver as a fourth provider of `UsageMeter`, and the graph
store of the Kuzu bridge.
