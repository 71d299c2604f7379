# Verification of llm-chat-api

TLA+ models of the service in `src/app`, TLC runs that check them on small
instances, and TLAPS proofs for every value of their constants.

- [The system](#the-system): components, state, operations, interactions
- [Modules](#modules): what models what, and how
- [Runs](#runs): what each run checks, its bounds, the fairness assumed
- [Proofs](#proofs): theorems, assumptions, inductive invariants
- [Findings](#findings): where the code and what is said of it differ
- [Not modelled](#not-modelled) and [Plan](#plan)

Run everything inside this directory: `tlc -config X.cfg M` for a row of the
table of runs, `tlapm M_proofs.tla` for the proofs.

## The system

An HTTP API (FastAPI, one asyncio event loop per process, several processes) in
front of a language model. PostgreSQL holds conversations, messages and the
usage ledger. Redis holds what may be lost: rate-limit windows, idempotency
entries, cached replies. Redis is optional at run time: every use of it fails
open and is followed by a cooldown, during which the process does not ask.

A chat request passes, in this order:

    body parsed -> authentication, scope -> rate limit -> body validated
      -> idempotency key -> context budget -> conversation check -> cache
      -> model (slots, retries) -> cache -> one database transaction -> answer

`RequestContextMiddleware` is around all of it, and turns what nobody handled
into a 500.

| Component | State | Operations | Interacts with |
|---|---|---|---|
| Idempotency keys (`services/idempotency.py`, `api/idempotency.py`) | an entry per client and key in Redis: a marker with `lock_seconds`, then a response with `ttl_seconds`; `Cooldown` per process | `begin`, `complete`, `abort`, `run_idempotent` | runs the action (plain exchange, analysis) between `begin` and `complete` |
| Rate limiter (`services/ratelimit.py`) | a sorted set per client in Redis, `Cooldown` | the Lua script, `check`, 429 with Retry-After | before every chat request |
| Model calls (`services/chat.py` `complete`, `_provider_stream`; `llm/`) | one `asyncio.Semaphore` per process; attempts and pieces of each call | acquire, call, retry, stream, close, cancel, record | under exchanges and analyses |
| Exchange (`services/chat.py`, `services/cache.py`, `db/repository.py`) | rows of four tables; the cache, its `Cooldown` | `generate_reply`, `stream_reply`, `_finish_stream`, `_persist_exchange` | cache, model, database, the client |
| Structured analysis (`services/analysis.py`, `llm/structured.py`) | attempts and tokens spent; one ledger row | `_generate`, `_record_usage`, `_record_failure` | model calls, database |
| Context budget (`services/context.py`) | none but the loop's | `estimate`, `check`, `fit` | before every model call |
| Readiness (`services/readiness.py`) | a lock, the last report | `check`, `_run`, the probes | PostgreSQL, Redis |
| The front (`main.py`, `auth.py`, `api/security.py`, `api/*.py`, `observability/middleware.py`) | the table of API keys; the gauge of requests in flight; one log line per request | parse, authenticate, check the scope, limit, validate, dispatch, turn exceptions into statuses | all of the above, the client |
| Records (`db/`, `services/conversations.py`, `services/usage.py`, `services/pricing.py`) | conversations, messages in the order of `seq`, the ledger; prices of the process | the statements of a transaction, create, delete (an operator), check and list, the two reports | written by exchanges and analyses |
| Cache statistics, start and stop, traces and metrics, values of schemas | see [Not modelled](#not-modelled) | | |

What is hard, and what makes each part correct:

- **Idempotency.** Several awaited Redis commands make one operation; between
  them entries appear, expire and vanish, commands fail after they were
  executed, actions raise before or after their commit, handlers are cancelled,
  processes die. Correct means: at most one protected run per key, nothing is
  committed after an action has returned, a replay is the response to the same
  request, a stored response stays, a key is never blocked for ever.
- **Rate limiter.** Lost answers, lost windows, members at the very edge of a
  window, rounding of Retry-After. Correct means: never more than the limit in
  any window, Retry-After is enough, no refusal without cause.
- **Model calls.** Cancellation of a waiter before or after it was given a
  slot, retries that queue again, streams that hold a slot while their client
  does not read. Correct means: slots are conserved, no wakeup is lost, text is
  never sent twice, every call is recorded once and ends.
- **Exchange.** The cache is filled before the exchange is stored; the
  conversation is checked minutes before it is used; streams fail after they
  have begun; the answer to COMMIT gets lost. Correct means: a cached reply fits
  who gets it, the client is told the truth, the ledger matches the exchanges and
  keeps the charge of every reply that was generated and delivered.
- **Analysis.** Two nested retry loops, rejected generations that were paid for,
  a ledger that fails. Correct means: the row tells the whole spending, the
  client the real cause.
- **Context budget.** Dropping by index in a list that shrinks. Correct means:
  the fewest, oldest turns go; instructions and question stay.
- **Readiness.** Checks queue behind a lock whose holder hangs or is cancelled.
  Correct means: answers are recent, in time, and probes are rare.
- **The front.** The order in which a request is judged; two API keys of one
  client, one Idempotency-Key of two clients; exceptions before and after a
  commit, before and after the first byte. Correct means: replays and allowances
  stay with their client, a 2xx means done and a 4xx (but for the charge of an
  analysis) not done, each request that ends leaves one line that is true.
- **Records.** Numbers are drawn before the commit, so transactions mix; two
  SELECTs make one list; prices change and conversations go. Correct means: a list
  holds whole exchanges, in the order a client can know of, complete, for those
  who may see it; a report tells what was spent at the prices of its time.

`PROJECT.json` lists each hazard at its line with the properties that watch it.

## Modules

| Module | Models | Extended or instantiated by |
|---|---|---|
| `KeyedOnce` | abstract: what idempotency keys promise | instantiated in `Idempotency` |
| `Idempotency` | the store, `run_idempotent`, the cooldown | `MCIdempotency`, `Idempotency_proofs` |
| `RateLimit` | the script and `RateLimiter.check` | `MCRateLimit`, `RateLimit_proofs` |
| `ModelCalls` | the semaphore, `complete`, `_provider_stream`, `stream_reply`'s loop | `MCModelCalls`, `ModelCalls_proofs` |
| `Exchange` | plain and streamed exchanges over cache and database | `MCExchange`, `Exchange_proofs` |
| `Service` | the front of a process, composed with `Idempotency` | `MCService`, `Service_proofs` |
| `Billing` | prices, costs and their rounding, as operators | `Records` |
| `Records` | transactions, their rows, lists and reports | `MCRecords`, `Records_proofs` |
| `Analysis` | the recovery loop and its ledger row | `Analysis_proofs` |
| `ContextBudget` | `fit()` as a state machine | `Records_proofs` |
| `Readiness` | the lock, the probes, the report | `MCReadiness`, `Readiness_proofs` |

A step is what one task of the event loop does between two awaits; a Redis
command, a Lua script and a transaction are one step each, because their servers
make them one. Whatever fails may have been executed: an error of a Redis
command, a cancellation or a lost COMMIT has both outcomes.

A definition that begins with "Mutant of" in its comment is never used by a
specification. It is a plausible bug of the definition it names, and shows that
a property notices it (`PROJECT.json`, "mutants").

### Idempotency and KeyedOnce

`entry` is Redis, one value per key; `pc` and `outcome` are where a handler
stands and what `begin()` told it; `cooldown` is `Cooldown._until` per process.
`Begin`, `TakeKey`, `KeyTaken`, `ReadNothing` and `ReadEntry` are the commands
of `begin()` (SET NX, GET, and both again when the entry vanished in between).
`ActionReturns` and `ActionRaises` are the action inside `run_idempotent`,
`Complete` and `Abort` what follows. `BeginFails`, `CompleteFails` and `AbortFails`
are a `RedisError`, `Cancelled` is `CancelledError`, which is none. `ActionRaises` may
come before the commit of the action or after it. `Crash`, `Lose`
and `Tick` are the environment. `age` and `effects` are history: how long a run
has kept its marker, and which runs of a key committed.

`KeyedOnce` has no Redis, clock or failure: a request starts if its key is free,
keeps its response, stops, or is told the kept response; kept responses are
forgotten. `Idempotency` implements it with `runner` = the request that holds the
key, `kept` = the request whose response is stored, `told` = whose response a
request was given. A request that runs unprotected (cooldown, failing Redis) is
no runner: `begin()` gives up protection on purpose
(`services/idempotency.py:13-14`), and so does the promise.

### Service

`Service` is what surrounds an endpoint. It INSTANCEs `Idempotency` with the
Redis keys (`RequestKey`), the fingerprints and the actions that `api/chat.py`
gives it, so that the requests of the store are the calls with an Idempotency-Key
that came that far. `Arrive` is the middleware and the dependencies that read only
constants (`Authenticate`, `MayUse`); `Reject` their refusals, and the 422 of a
body that is no JSON, which comes first. `Admit`, `Refuse` and `LimiterFails` are
`enforce_rate_limit`; `Judge` the validation of body and headers, and the stream's
refusal of a key. `KeyedStep` is any step or failure of `run_idempotent`,
`KeyedAnswer` what it returns or raises; `PlainReturns` and `PlainRaises` an action
without a key; `FirstEvent`, `StreamRaises` and `StreamEnds` a stream, whose first
event is awaited before the status is sent. `Answer` and `Leave` are the end of the
middleware, `StatusOf` the exception handlers; `Interrupted`, and `KeyedAnswer` for a
call with a key, a cancellation, which nothing answers. The actions themselves commit
or raise, or both: `RaisedAfterCommit` says which exceptions may follow a commit (a
database error, as the answer to COMMIT can get lost; a response that cannot be made;
and whatever made an analysis fail, since `analyze` records the failure before it
raises it again, also the overflow that is answered 400). What actions do is `Exchange`
and `Analysis`. `committed` is history.

### RateLimit

`window` and `expires` are the sorted set of a client and its PEXPIRE; `Admit`
and `Refuse` are the two branches of the script and `ResetSeconds` the answer
that becomes Retry-After. `Skip` and `Send` are the look at the cooldown,
`Admitted` and `Rejected` the answers, `Fails` and `Cancelled` the answers that
never arrive (the script ran or did not). `granted` (all admissions of a client
within the last window, also those nobody heard of, and those Redis lost) and
`promised` (the earliest Retry-After since the last admission) are history.

### ModelCalls

`value`, `waiters` and `future` are `asyncio.Semaphore` of Python 3.12, external
code modelled from how `chat.py` uses it: `acquire` may be cancelled while its
future is pending, or after it was given a slot and before the task ran.
`Enter`, `Queue`, `Resume` and `Withdraw` are the ways through `acquire`. `Reply`,
`Retry`, `Fail`, `Chunk`, `End`, `Break` and `Raise` are what a provider does to a
call in its slot; `Pull`, `Leave` and `Closed` what the client of a stream does;
`Cancel...` a `CancelledError` at each kind of await. `origin` is history: the
attempts whose text reached the client. `records` counts lines of
`record_llm_call`.

### Exchange

`owner`, `rows` and `usage` are the database, `cache` and `bypass` the cache and
its cooldown, `pc`, `reply`, `text`, `status` and `closing` a request and what it
was answered. `paid` is history: for whom tokens were generated. The path of a
request is `Start` (or `NotFound`, `Refused`), `Miss`/`Hit`/`LookupFails`,
`Generate` or `FirstPiece` and `StreamEnds`, `Put`/`PutFails`, `Save`/`SaveFails`;
`ModelFails`, `StreamRaises` and `Gone` leave it. `Expire` and `Damage` are what
happens to cache entries; a damaged or foreign value (`Unreadable`) is a `Miss`. A
prompt stands for all of what `ResponseCache.key_for` hashes besides the client.
Retries and slots are `ModelCalls`, not repeated here.

### Records and Billing

`messages` and `usage` are committed rows, `draft` those of an open transaction,
`seq` the sequence. `Question`, `Answer`, `Commit` and `Abandon` are the statements
of `_persist_exchange` (`Abandon`: rolled back, or committed with the answer lost),
`Account` the row of an analysis, `Create` and `Delete` the other writers. `Check`
and `List` are the two SELECTs of `list_messages`, `Listing` what the second one
gives. `ReportOf` is `usage_report` and `cost_report` over the queries of
`repository.py`. `Restart` brings other prices. `earlier`, `due` and `spent` are
history: which exchanges were acknowledged before another began, or before a read
did, and what was spent at the exact price.

`Billing` counts decimals in the units the code quantizes to, with the two roundings
that occur: PostgreSQL's for a `Numeric` column (ties away from zero) and
`Decimal.quantize`'s (ties to even).

### Analysis, ContextBudget, Readiness

`Analysis`: `Accept`, `AskAgain`, `Reject`, `FeedbackFails`, `CallFails` are the
outcomes of a generation in `_generate`; `Save` and `SaveFails` write the row of
a success or a failure. `outputs` is history: what the model delivered.

`ContextBudget`: one step per round of `fit()`. `Without(n)` defines the result
without the loop, for comparison. `prompt` is the messages of the request; this and
the names `FitInit`, `FitNext`, ... are there so that `Records_proofs` can extend
`ContextBudget` beside `Records`.

`Readiness`: `queue` is the lock's, its head holds it; `Probe`, `Returns`,
`TimesOut`, `Complete`, `Serve` are the body of `check()`. `elapsed`, `fresh` and
the `...Ago` counters are times relative to now, so that the state space is
finite without a bound on time.

## Runs

| Run | Configuration | Shows |
|---|---|---|
| `service` | `ServiceFront.cfg`, `MCService` | Requests of two clients with three API keys go through two processes, with and without Idempotency-Keys, at all kinds of endpoints, while commands fail, actions raise before and after their commit, requests are cancelled, a process crashes and Redis loses data: replays and allowances stay with their client, statuses tell what was done, and every request that ends leaves one line that is true. Properties: `ReplaysStayWithTheClient`, `AllowanceIsTheClients`, `StatusesTellTheEffect`, `LinesTellTheTruth`. |
| `idem_protected` | `IdempotencyProtected.cfg`, `MCIdempotency` | As long as markers outlast runs, racing retries, failing Redis commands, failing actions, cancellations, crashes and lost responses let no two protected runs overlap and no stored response be replaced; while nothing fails in the store, no action commits after one of its key has returned; the store implements KeyedOnce and no key is blocked for ever. Properties: `OneRunPerKey`, `MarkerHasRunner`, `StoredResponseIsStable`, `NothingAfterSuccess`, `KeepsPromise`, `KeyNeverBlockedForever`. |
| `idem_commits` (V) | `IdempotencyCommits.cfg`, `MCIdempotency` | An action that raises after its commit frees its key, and the retry commits again, although no Redis command fails, nobody is cancelled and markers outlast runs. Properties: `CommitsAtMostOnce`. |
| `rate_window` | `RateLimitWindow.cfg`, `MCRateLimit` | Two processes, lost answers, cancellations and a lost window: a client is never admitted more often than the limit while Redis keeps its data, is admitted when it waits as long as Retry-After says, and is not refused without cause. Properties: `WithinLimit`, `RetryAfterIsEnough`, `NoUndueRefusal`. |
| `calls_shared` | `ModelCallsShared.cfg`, `MCModelCalls` | A plain call and two streams that compete for one slot, retry, break, disconnect and are cancelled: no slot and no wakeup is lost, no text sent twice, no call recorded twice, and every call ends. Properties: `SlotsConserved`, `NoLostWakeup`, `NoTextTwice`, `RecordedAtMostOnce`, `EveryCallEnds`. |
| `calls_unrecorded` (V) | `ModelCallsUnrecorded.cfg`, `MCModelCalls` | A stream whose client disconnects while the next chunk is awaited ends with CancelledError and leaves no record. Properties: `LostStreamsAreRecorded`. |
| `exchange_shared` | `ExchangeShared.cfg`, `MCExchange` | Two clients with the same prompt, plain and streamed, over one cache that fails, expires, is damaged and cools down, while conversations are opened and deleted: replies from the cache fit, answers are true of the database, the ledger charges what was generated and delivered and goes on doing so when a conversation is deleted, and every exchange is in a conversation of its client. Properties: `CachedRepliesFit`, `AnswersAreTrue`, `LedgerMatchesExchanges`, `DeliveredIsCharged`, `OwnConversationsOnly`. |
| `exchange_cut` (V) | `ExchangeCut.cfg`, `MCExchange` | An exception that is no LLMError ends a stream after text without done and without error. Properties: `StreamsAreClosed`. |
| `records` | `RecordsReads.cfg`, `MCRecords` | Transactions of exchanges and analyses interleave with rollbacks, lost answers to COMMIT, deletions, a change of prices and readers: lists are whole, in order, complete and private, and reports tell what was spent. Properties: `ListsHoldWholeExchanges`, `ListsAreChronological`, `ListsAreComplete`, `ReadersSeeTheirOwn`, `ReportsTellTheSpending`. |
| `analysis_ledger` | `AnalysisLedger.cfg`, `Analysis` | Over all verdicts, failing calls, storage failures and cancellations of three generations, the ledger row tells the whole spending and the client the real cause. Properties: `RowsTellTheSpending`, `ClientsSeeTheCause`, `NoUselessGeneration`, `PaidMeansRecorded`. |
| `context_fit` | `ContextBudgetFit.cfg`, `ContextBudget` | All conversations of up to four messages of three lengths, five windows: fit() drops the fewest oldest turns that help, and keeps instructions and question. Properties: `FitTypeOK`, `DropsTheLeast`, `EssentialsAreKept`. |
| `ready_checks` | `ReadinessChecks.cfg`, `MCReadiness` | Dependencies that come, go and hang, checks that queue, share reports and are cancelled: answers are fresh and timely, probes are rare, and every check ends. Properties: `AnsweredInTime`, `AnswersWereTrueRecently`, `ProbesAreSpaced`, `EveryCheckEnds`. |

(V: a run whose property the code violates, see [Findings](#findings).)

The type invariant of every module is proved; TLC checks that of `ContextBudget` too.

### Bounds, and why they are enough

- **Service.** Twelve calls, of which TLC makes the sets in `Scenes` (constant
  `Together`): a call and its retry with the client's other API key, beside a
  stream, so that an allowance of 2 is used up while they race; the same
  Idempotency-Key from two clients and at two endpoints; all ways to be turned away;
  calls without a key. Two processes, one failing command, crash or cancellation and
  one loss in Redis, markers of one tick that a run can outlast, actions that raise
  before and after their commit. `Errors` holds an exception that always comes before
  the commit (404), one that comes after it from an analysis only (the overflow, 400),
  and one that may come after any (the database's, 503).
- **Records.** An exchange that opens a conversation and two that continue it, so
  that two transactions draw numbers side by side; a rejected analysis; three
  readers (owner, other client, somebody asking for a conversation without owner; what
  an admin is shown is covered by `ReadersCorrect` only);
  a report of one day, with the clock on day 0 and then on day 2; two price lists with
  a model that gets its price late; numbers of tokens and prices whose products end in
  half units.
- **Idempotency.** One key, a request, its retry through the other process, and
  a different body under the same key. Two requests make a race, a third meets
  what the first two left. `LockSeconds` 2 and `MaxRun` 1 is the smallest instance
  in which a run spans a tick and markers outlast runs; in `service` they need not,
  and Redis loses markers too (here only responses, once). Two
  faults cover a failing command followed by a crash or a second failure.
  `NothingAfterSuccess` and `MarkerHasRunner` speak of the states before the first
  fault of the store: once a response could not be stored, or a request was cancelled
  while it was, a retry may run again. An action that raises is no such fault.
  `idem_commits` has no faults and no losses, so that nothing but the action is left
  to blame. The theorems need none of these bounds.
- **RateLimit.** Limit 2 in a window of 4 ticks of half a second: members at the
  edge, one tick before and after it, two in the same tick, and resets that are no
  whole number of seconds. `MaxTime` 8 is two windows. Four nonces: after one loss
  no more than four admissions fall into a window. One client is enough, since
  clients share nothing but a process's cooldown, which only lets requests pass.
- **ModelCalls.** One slot, a plain call and two streams: one holds the slot or
  reserves it while two queue, and starvation would show first. Two attempts and
  two pieces distinguish first from later. More slots and calls are covered by
  the theorems.
- **Exchange.** Three requests of two clients, two conversations, one prompt:
  `CachedRepliesFit` has to tell clients apart; that prompts are told apart is shown by
  its proof only. Each cache entry can be written, read, damaged and lost while others
  run. A request that is not cacheable takes the steps of one during a cooldown.
- **Analysis.** Three generations of one or two tokens, all verdicts: a first, a
  middle and a last attempt. Requests share nothing but the database, so one is
  enough.
- **ContextBudget.** All conversations of at most four messages (one or two
  droppable, instructions anywhere, assistant messages after the question),
  contents of length 1, 5 and 8 (rounded up, exact, rounded up), windows from
  "nothing fits" to "everything fits".
- **Readiness.** Two dependencies, one of them required, two checks that queue,
  one cancellation; timeouts and reports of one tick, so that a report can be as
  old as both together when it is used.

Deadlock checking is off where the system may really stop: `ModelCalls`,
`Exchange` and `Analysis` end when all calls and requests have; `ContextBudget`
is a terminating loop. In the other modules time or new checks go on; the clock of
`RateLimit` stops at `MaxTime`, but handlers go on asking. `Service` ends when
its calls have, `Records` when its works have and nobody reads. Each passing run
takes one or two minutes with two workers; the largest are `rate_window` (465,000
states), `records` (350,000), `context_fit` (304,000), `ready_checks` (220,000),
`service` (296,000) and `exchange_shared` (279,000).

### Fairness

- `Idempotency!FairSpec`: weak fairness of every handler (`Progress`; the event
  loop resumes what is ready, Redis answers or the client library's timeout
  makes it an error) and of `Tick`. No fairness for failures, crashes, losses.
  `Tick` waits for
  runs that are `MaxRun` old; those can make progress, so time goes on.
- `ModelCalls!FairSpec`: weak fairness of the event loop (`Scheduler`), of
  providers (a timeout per attempt and per piece, `chat.py:523-561` and
  `llm_timeout_seconds`) and of clients, who read or go (`Client`): a client that
  stays connected and never reads holds its slot as long as the server's
  transport lets it. `EveryCallEnds` therefore says nothing of a service whose slots
  are all taken by such clients. No fairness for cancellation.
- `Readiness!FairSpec`: weak fairness of `Step` and `Tick`, strong fairness of
  a probe's end, because a dependency that flaps between hanging and up enables
  and disables its answer; the timeout bounds it.
- `Service`, `Records`, `RateLimit`, `Exchange` and `Analysis` have no liveness
  property and no fairness.

## Proofs

TLAPS checks every proof to its last leaf. What is proved holds for any number
of requests, processes, clients, calls, slots, times and faults.

| Module | Theorem | Says |
|---|---|---|
| `Idempotency_proofs` | `TypeCorrect` | Type correctness of the idempotency store for any requests, processes, times and faults. |
| `Idempotency_proofs` | `ReplayCorrect` | A replay is the response to the same body under the same key, without any assumption on times, faults or losses. |
| `Idempotency_proofs` | `MutualExclusion` | If markers outlast runs and Redis keeps them, at most one protected request runs per key, whatever fails. |
| `Idempotency_proofs` | `ResponsesStay` | Under the same assumption a stored response is never replaced or freed before its time. |
| `Idempotency_proofs` | `KeepsThePromise` | Under the same assumption the store and run_idempotent implement KeyedOnce. |
| `Idempotency_proofs` | `MarkersCorrect` | As long as nothing has failed, a marker belongs to a request that is running, whatever the times. |
| `Idempotency_proofs` | `SuccessIsLast` | If markers outlast runs and as long as nothing has failed in the store, no request commits once an action of its key has returned, even if actions raise after their commit. |
| `Idempotency_proofs` | `BlocksAreShort` | A marker never has more than LockSeconds to live, loses a second with each second and is never renewed, whatever fails, crashes or is retried: how long a key can be blocked. |
| `RateLimit_proofs` | `TypeCorrect` | Type correctness of the rate limiter. |
| `RateLimit_proofs` | `LimitHolds` | As long as Redis has kept its data, no window of a client has more than Limit admissions, for any number of processes, handlers and faults. |
| `RateLimit_proofs` | `RetryAfterHolds` | A client that waits for Retry-After finds room in its window, also if Redis loses data. |
| `RateLimit_proofs` | `RefusalsAreDue` | A refused client has used up its limit within the last window, also if Redis loses data. |
| `ModelCalls_proofs` | `TypeCorrect` | Type correctness of the model calls. |
| `ModelCalls_proofs` | `NoSlotIsLost` | Free, held and reserved slots always add up to llm_max_concurrency, for any number of calls. |
| `ModelCalls_proofs` | `WakeupsArrive` | A free slot and a waiting call never wait for each other. |
| `ModelCalls_proofs` | `TextComesOnce` | All text a client gets comes from one attempt, the last. |
| `ModelCalls_proofs` | `RecordsAreSingle` | A call is recorded at most once, and once if it ended regularly. |
| `ModelCalls_proofs` | `OrderIsKept` | While a call waits for a slot, none that asked later has one reserved: nobody is overtaken by retries, streams or cancellations. |
| `ModelCalls_proofs` | `NobodyWaitsInVain` | While a call waits, another holds a slot or is about to run: calls never wait for each other only. |
| `ModelCalls_proofs` | `EveryStepCounts` | Every step of the system is one of the finitely many its calls have before them, for any number of calls, attempts and pieces: nothing goes on for ever. |
| `Service_proofs` | `TypeCorrect` | Type correctness of the front, the store included. |
| `Service_proofs` | `ReplaysStayCorrect` | A stored response goes only to the client it was made for, for the same body at the same endpoint, for any calls, keys, processes, faults and losses. |
| `Service_proofs` | `AllowanceCorrect` | Who is refused with 429 has made Limit calls itself, and only authenticated calls that may use an endpoint of the model are counted. |
| `Service_proofs` | `StatusesCorrect` | After a 2xx the action was done, by this call or by the one replayed; after a 4xx nothing was stored, but for an analysis that grew too long after generations that are charged. |
| `Service_proofs` | `LinesCorrect` | Every request that is over has one line with the status its client saw, and the gauge counts exactly those that are not. |
| `Exchange_proofs` | `TypeCorrect` | Type correctness of the exchange. |
| `Exchange_proofs` | `CachedRepliesCorrect` | A reply from the cache was generated for the same prompt and may be given again, for any requests, clients and conversations. |
| `Exchange_proofs` | `AnswersCorrect` | What the client is told of its exchange is true of the database. |
| `Exchange_proofs` | `LedgerCorrect` | Every stored exchange has a row in the ledger exactly if its reply was generated for it. |
| `Exchange_proofs` | `ChargesCorrect` | A reply that was generated for a request and delivered whole has its row in the ledger, and keeps it when conversations are deleted. |
| `Exchange_proofs` | `OwnershipCorrect` | Every stored exchange is in a conversation of its client. |
| `Records_proofs` | `TypeCorrect` | Type correctness of the records. |
| `Records_proofs` | `ExchangesCorrect` | A list shows both messages of an exchange or none, the question first, for any number of transactions, readers and deletions. |
| `Records_proofs` | `OrderCorrect` | An exchange acknowledged before another began to be stored comes before it in every list. |
| `Records_proofs` | `CompletenessCorrect` | A list holds every exchange acknowledged before it was asked for, unless the conversation was deleted. |
| `Records_proofs` | `ReadersCorrect` | Only its owner and an admin are shown a conversation, whatever happens while it is read. |
| `Records_proofs` | `HalfEvenIsNearest` | Decimal.quantize gives an integer at most half a unit away from the quotient. |
| `Records_proofs` | `StoredCostIsNearest` | The cost in the ledger is within half a unit of the exact price of the request. |
| `Records_proofs` | `ProjectionIsNear` | The projection for a month is within 15 units of 30 times the exact daily average. |
| `Records_proofs` | `ReportsCorrect` | A report tells every request of its window, its tokens and its price to half a unit of the ledger, and its totals agree up to rounding, for any number of requests, models, price lists and restarts. |
| `Records_proofs` | `FitTypeCorrect` | Type correctness of fit(), for conversations and windows of any size. |
| `Records_proofs` | `EssentialsCorrect` | fit() never drops the instructions or the question, and counts what it drops. |
| `Records_proofs` | `LeastCorrect` | fit() drops the fewest oldest turns that make the conversation fit, and refuses it only if none are enough. |
| `Analysis_proofs` | `TypeCorrect` | Type correctness of the analysis. |
| `Analysis_proofs` | `RowsCorrect` | The ledger row of an analysis tells all its attempts and tokens, for any number of retries. |
| `Analysis_proofs` | `CausesCorrect` | The client sees the error that ended its analysis, not one of reporting it. |
| `Analysis_proofs` | `GenerationsCorrect` | No generation follows one that was accepted or cannot be helped. |
| `Analysis_proofs` | `PaidCorrect` | An analysis that spent tokens ends with its row, unless it is cancelled or the row cannot be stored. |
| `Readiness_proofs` | `TypeCorrect` | Type correctness of the readiness checks. |
| `Readiness_proofs` | `RecentCorrect` | An answer was true at most CacheSeconds + TimeoutSeconds ago, for any dependencies and any number of checks that share a report. |
| `Readiness_proofs` | `SpacedCorrect` | Probes start only when the last complete run is CacheSeconds old. |
| `Readiness_proofs` | `InTimeCorrect` | If reports are kept at all (CacheSeconds > 0), a check waits for one timeout, plus one per cancelled check, wherever it stands in the queue. |

**Idempotency_proofs.** `ReplayCorrect` needs no assumption on times or faults:
`BodiesFit` (a stored response has the fingerprint of the request that wrote it,
which is answered or gone; a marker has no body) is inductive on its own.
`MutualExclusion`, `ResponsesStay` and `KeepsThePromise` assume
`MarkerOutlastsRuns`: no request holds its key for `idempotency_lock_seconds`, and
Redis loses no marker (`Losable`); stored responses it may lose. The first half is what
`config.py` asks for the setting, and the first of the observations under
[Findings](#findings) shows that it is needed. `OneRunPerKey` alone is not inductive:
nothing in it says that the entry of a holder is its marker. `Ownership`
adds `Held`: the key of a holder contains a marker whose time to live and the age
of the run add up to `LockSeconds`, and the run is no older than `MaxRun`. With it
time cannot take the marker away, SET NX cannot succeed for a second request, and
`complete()` and `abort()` only touch their own. For the refinement each action is mapped to `Start`,
`Keep`, `Stop`, `Forget`, `Tell` or a stutter, one lemma each.

`MarkersCorrect` and `SuccessIsLast` speak of the states before the first fault of the
store. `Protected` (then no process is in a cooldown, and every run took its key) makes
the first inductive: a marker is gone with its run, unless it expires before. For the
second, `Returned` says that a request whose action returned has stored its response
or is about to, and `NobodyElse` that whoever holds a key then is that request; so
another can commit only when the response is gone. It assumes `MarkerOutlastsRuns`, and
nothing of actions: what one commits before it raises may be committed again
(`idem_commits`, [Findings](#findings)).

`BlocksAreShort` is what can be proved of the liveness property. A key is blocked as
long as its marker lives, and a marker only runs down (`LockInv`, `BlocksRunDown`),
whoever asks for the key meanwhile. It assumes nothing of times or faults. That the
clock does go on is the fairness of the run.

**RateLimit_proofs.** Nothing is assumed. The invariant `Counted` has two parts.
`CountedFor` always holds: what the script counts was admitted within the last
window; so a refusal is due (`RefusalsAreDue`). `KeptFor` holds while Redis has
lost nothing: every admission of the last window is still in the sorted set, and
the key outlives it; so script and history count the same (`LimitHolds`). Neither
is inductive without the times: expiry by score and expiry of the key must only
remove what is out of the window. For `RetryAfterHolds`, `Promises` bounds the
members that will still be in the window at the promised time: fewer than the
limit, because the oldest is out by then, and a loss only removes members.

**ModelCalls_proofs.** `IInv` = `TypeOK`, `FutureFits` (a call has a future exactly
while it is queued), `SlotsConserved`, `NoLostWakeup`, `AttemptsLeft` (an attempt
remains for every call that will ask again). `TypeOK` alone is not inductive,
since `value` stays within bounds only because slots add up; slots add up only
because a call that queues holds none. `TextInv` and `RecordInv` strengthen
`NoTextTwice` and `RecordedAtMostOnce` with what each stage implies for text and
records.

Three theorems are the safety half of `EveryCallEnds`, for any number of calls and
slots. `OrderIsKept`: slots are given in the order of the queue (`QueueInv`: the queue
holds each waiting call once, and no slot is reserved behind a pending call; removing a
cancelled waiter and waking several at once keep it). `NobodyWaitsInVain`: with
`SlotsConserved` and `NoLostWakeup`, calls cannot all wait. `EveryStepCounts`: with each
step the calls have fewer attempts left, as many and fewer pieces, or as many of both and
an earlier stage (`Rest`), and a slot passed on brings a waiter forward too, so no run
is infinite. What is left to TLC is that each call that can go on does, which is fairness.

**Service_proofs.** `IP` is the instance of `Idempotency_proofs` that belongs to the
front. A step of the store inside `Service` is a step of `IP`, everything else leaves
the store alone, so `IP!ReplayInv` is inductive here too, whatever `MaxRun` and the
losses are. `ServiceInv` adds `CallInv` (where a call stands fits its lines, what it
was sent, whether it committed and, with a key, its stage in the store), `Responses`
(stored responses and replays are those of calls that committed), `Gauge` (a count of
calls, with the library's theorems on cardinality) and `Allowance` (what is counted
has passed the gates and the limiter, so no call is counted again later). The lemma
`AfterCommit` goes through the exceptions that may follow a commit: an overflow of an
analysis is the only one that is answered 4xx. `ReplaysStayWithTheClient` rests on
`ReplayCorrect` and on the Redis key being a pair of client and header. Nothing is
assumed of times: markers may expire under their runs.

**Exchange_proofs.** `CacheInv` (each entry was generated by the client and for the
prompt of its key, and what is about to be put there is the request's own) is
inductive with `TypeOK`. In `ExchangeInv`, `Standing` says for each stage of a request
who has paid, that nothing is stored before the transaction, that an error or a 404
leaves nothing, and that `done` means stored, unless a conversation was deleted;
`Books` is `LedgerMatchesExchanges` and `OwnConversationsOnly`, which need `Standing`
because a request must not store twice. `Charged` follows a paid reply to its row: it
is no cached one, so the transaction writes the row, nothing is delivered before, and no
step of anybody removes a row (`UsageGrows`).

**Records_proofs.** `ListsAreChronological` speaks of positions in a list, the code
of numbers. `Numbering` covers the rows of open transactions too: numbers differ, none
is above `seq`, and what was acknowledged before a transaction began has smaller ones.
`Storage` says that rows are published in pairs and that acknowledged exchanges stay
until their conversation is deleted; `Ownership` that messages and open transactions
belong to the owner of their conversation, and reads in progress to readers who may.
The lemma `ListingSorts` turns positions into numbers. The theorems about rounding
bound the difference to the exact value, for all amounts.

For `ReportsCorrect`, `Billed` relates the ledger to what was spent: each row has its
spending and each spending its row, at the same day, tokens and a cost within half a unit
of the exact price, whatever price list the process had and whatever was deleted since.
An open transaction has at most one charge, at the prices in force, because they change
with a restart only, and a restart ends it. The rest is sums: a report's total over a
window, and over its models, is the sum over the spending of that window. The library
defines sums as folds, which are recursive, and its induction theorems have an operator
as parameter. The section "Sums" does without both: it takes the first-order fact that a
set of natural numbers has a least member, derives induction over the subsets of a finite
set, each given as a set of sets, and from it how a sum grows by one member
(`SumRemove`), is regrouped (`SumGroups`), renamed (`SumRenamed`) and bounded term by
term (`SumNear`).

`ContextBudget` is proved in the same module, since it too needs a least member of a
set of numbers. `FitInv`: what is kept is
`Without(dropped)`, `dropped` is what is gone, and no smaller number fits. The step from
`dropped` to `dropped + 1` needs that the oldest droppable message has the place
`dropped` among the droppable ones (`Places`), for a prompt of any length.

**Analysis_proofs.** `AnalysisInv`: what is booked is what the outputs say (`Booked`),
attempts are left as long as a request goes on (`StageOf`), and then none of its
outputs was accepted or truncated (`Judged`, which also relates the row and the cause
to the outputs).

**Readiness_proofs.** `ReportInv` bounds ages: what a probe has found is no older than
`elapsed`, a report no older than `TimeoutSeconds` when it was kept. `WaitInv` adds
that a queued check has waited no longer than one timeout per cancellation plus
`Share`: the time of the run in progress, or one timeout if the last run has just left
a report, which is then used by all who waited for it. `InTimeCorrect` assumes
`CacheSeconds > 0`, without which there is no such report, see
[Findings](#findings).

**Only model-checked.** Every safety property and every action property of the passing
runs is stated by a theorem. Liveness is not: `KeyNeverBlockedForever`,
`EveryCallEnds` and `EveryCheckEnds` need fairness and `ENABLED`, which are outside of
what this version of TLAPS proves. What they rest on is proved: that blocks run out,
that calls have finitely many steps, that nobody waits in vain, and for a readiness
check the time it waits at most (`InTimeCorrect`). The properties of the runs marked V
are violated by the code.

## Findings

- `idem_commits`, `CommitsAtMostOnce` (doc code divergence, `app/api/idempotency.py:59`). run_idempotent frees the key on every exception, also when the action has committed: generate_reply stores the exchange and then builds the response, whose Message refuses a blank or very long reply (chat.py:93-96), and the answer to a COMMIT can get lost. The retry with the same key then generates, stores and charges a second time. services/idempotency.py:1 says "a retried request must not repeat its effects", api/idempotency.py:37 "Run `action` once per (client, key)". `docs/idempotency.md` says that any failure frees the key and names the price ("повторяемый сбой повторно тратит ресурсы"), not that rows are stored twice. `StatusesTellTheEffect` and `NothingAfterSuccess` show that this can follow a 5xx, no answer, or the 400 of an analysis only.
- `calls_unrecorded`, `LostStreamsAreRecorded` (code bug, `app/services/chat.py:176`). stream_reply records an interrupted stream only for GeneratorExit, that is if the client leaves while a piece waits to be taken. If the next chunk is being awaited, Starlette cancels the task and CancelledError passes both except clauses: no line is logged. calls.py:26 says "One line per model interaction", chat.py:177 "The client went away".
- `exchange_cut`, `StreamsAreClosed` (code bug, `app/services/chat.py:201`). After text was sent, an exception that is no LLMError (Message(...) of a blank or very long text at chat.py:201, a transport error that ollama.py:120 does not translate) leaves the generator without a closing event; chat.py:107-111 says "text pieces as they arrive, then one closing event" and "a failure can only be reported inside the stream, as an error event".

Observed on the way, without a run of their own:

- `IdempotencyProtected.cfg` with `MaxRun = 3` violates `StoredResponseIsStable`.
  `complete()` and `abort()` (`services/idempotency.py:118`, `:125`) do not look
  whose entry the key holds, so a request that outlasts its marker replaces or
  frees what its retry has stored. `config.py` asks for a longer marker in a comment;
  nothing enforces it.
- The usage row is written in the transaction of the exchange only (`chat.py:415`), so a
  paid generation that is cut off, abandoned or cannot be stored has none;
  `db/models.py:70-71` says of the ledger that "this covers every paid call, including
  structured analysis and generations that were rejected and never became a message".
  What does hold is `DeliveredIsCharged`.
- An analysis can be answered 400 (`context_length_exceeded`) and be charged: the window
  is checked again before each recovery attempt (`chat.py:447`), after generations that
  were paid for, whose row `analysis.py:58` commits. `main.py:226` explains the 400 by
  the request alone.
- When storing the response fails (`services/idempotency.py:119`), the marker stays:
  a retry is answered 409 until `idempotency_lock_seconds` are over, and only then
  runs again; `docs/idempotency.md:82-83` says that it runs again.
- `ReadinessChecks.cfg` with `CacheSeconds = 0`, which `config.py:84` allows,
  violates `AnsweredInTime`: checks that arrive together do not share a report.
- `Exchange!SaveFails` closes a stream with `storage_unavailable` also when only
  the answer to COMMIT was lost; `docs/streaming.md:76-78` says that nothing is
  written then.
- A database error that is neither `DBAPIError` nor `ConnectionError` (an address that
  does not resolve, a timeout of the pool or the connection) is answered 500;
  `docs/failure-scenarios.md:16` has 503 (`Service!ErrorKinds`, "other").
- A conversation that is deleted between the check and the list is answered with an
  empty list and 200, not 404 (`services/conversations.py:30`).
- A body that is no JSON is answered 422 whatever the API key, since the framework
  parses it before the dependencies; `docs/auth.md:46` has the key checked before the
  body is parsed.
- A replay has no X-RateLimit headers, because the returned `Response` replaces the
  injected one (`api/idempotency.py:47`); `docs/rate-limiting.md:23` says that
  successful answers have them.

## Not modelled

| Part | Why |
|---|---|
| Cache statistics | Two counters in Redis, written best effort; no other part reads them. That a failing INCR throws a cached reply away is `Exchange!LookupFails`. |
| Process start and stop | Restarts are actions of `Service`, `Idempotency` and `Records`. What `lifespan` constructs (one semaphore per process, one session per request, the required dependencies) is built into the modules; closing the clients at the end is not. |
| Observability | Request lines, the gauge and the 500 are in `Service`, `record_llm_call` in `ModelCalls`. Request ids, formats, traces and other metrics: nothing in the program depends on them. |
| Schemas and errors | The exceptions and their statuses are in `Service`. Which values a schema refuses is declarative; where a validation can fail inside a service (`Message`), the modules have the failure. |
| Headers of answers | Request ids, X-RateLimit and Idempotent-Replay have no effect on the server. Retry-After is in `RateLimit`. |
| `projected_monthly_rub`, input and output tokens apart | The same operators on other columns. |
| `scripts/`, `tools/` | An experiment, a smoke test and a fake provider, not part of the service. |

Abstractions that matter when reading the results:

- The clock of Redis only moves forward; TIME of a server whose wall clock is set
  back would lengthen a window.
- In `Service` and `Idempotency` the action behind a key commits, raises or both; that
  an action that raises may have committed is what `Exchange`'s `Save` (`reply.valid`
  false) and `SaveFails` and `Analysis`'s `Save` do.
- In `Service` the rate limiter has one window in which everything happens; windows
  that move are `RateLimit`.
- Digests of API keys and prompts are the keys and prompts: SHA-256 has no collisions.
- The order of messages within a conversation (`seq`) is in `Records`, not in
  `Exchange`; an exchange of `Records` starts with its transaction.
- Loss of database connections is a failed transaction, or one whose answer is
  lost; PostgreSQL keeps what it committed.

## Plan

Written so far, in this order: `Idempotency` with `KeyedOnce`, `RateLimit`,
`ModelCalls`, `Exchange`, `Analysis`, `ContextBudget`, `Readiness`, `Records` with
`Billing`, `Service`, and proofs for all of them. Left:

1. A clock of Redis that jumps, in `RateLimit`: what remains of `WithinLimit`.
2. `Exchange` as the action of `run_idempotent`: "a retry does not repeat the
   effects" stated on rows instead of `effects`.
3. Start and stop of a process: `lifespan` closing pools and clients under requests
   that are still running.
