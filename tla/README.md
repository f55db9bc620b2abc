# The Metabase connector, specified and verified

This directory holds TLA+ specifications of the connector in `src/connector`:
the path of a call through the middlewares, the audit log and its two stores,
an operator's walk through the log, the rate limiter, the secrets, the factory
and what the applications of one process share, and what the RPCs make of
Metabase's answers; and what happens to them when calls interleave, clients
leave, Metabase is silent, the process is shut down or it dies. TLC checks the specifications on
small instances; TLAPS proves what matters most for every instance.

Source references are relative to `src/connector/`.

## The system

One process, one asyncio event loop, usually one application built by
`create_app()`, which is made to be called again.

| Part | Source | State | Operations | Talks to |
|---|---|---|---|---|
| Application factory, lifespan | `app.py`, `__main__.py` | `app.state` (settings, secrets, store, metrics, Metabase client) | `create_app`, start, shutdown, health routes | all parts |
| Request-id middleware | `middleware/request_id.py` | `request.state.request_id`, `.consumer` | `dispatch` | the layers below |
| Audit middleware | `middleware/audit.py` | the task of the last write | `dispatch`, `_read_body`, `_write` | registry, store |
| Telemetry middleware | `middleware/telemetry.py`, `telemetry.py` | Prometheus counters | `dispatch` | `/metrics` |
| API-key authentication | `security/auth.py` | key table | `parse_api_key_config`, `dispatch` | `request.state.consumer` |
| Rate limiter | `security/ratelimit.py` | hits and expiry of each bucket | `dispatch` | the `limits` library |
| Scopes | `security/scopes.py` | - | `require_scope` | `request.state.consumer` |
| RPC handlers | `rpcs/*.py`, `rows.py` | - | one `POST` each | registry, Metabase client, store |
| Metabase client | `clients/metabase.py` | an httpx client | `execute_card`, `execute_dataset`, `health` | Metabase |
| Audit store | `audit/store.py`, `audit/models.py` | rows | `write`, `query`, `prune_older_than`, `aclose` | SQLite or a list |
| Registry | `registry.py`, `rpcs/_registration.py` | descriptors, module-level | `register`, `get`, `as_catalog` | handlers, audit |
| Error handlers | `errors.py` | - | four handlers | - |
| Secret provider | `secrets/provider.py` | cached values | `get`, `invalidate` | lifespan |
| Settings | `settings.py` | cached settings | `load_settings` | factory, `execute_sql` |

A call goes down `RequestID -> Audit -> Telemetry -> Auth -> RateLimit ->
handler` and its response or exception back up (`app.py:111-139`). The layers
share `request.state`. On its way up the audit middleware makes a row and
starts a task that writes it (`audit.py:142`); nobody waits for that task.
`read_audit` is an RPC, and reads the rows the other calls left.

### What is hard, and what makes each part correct

- **Interleaving.** Calls give way at every layer. A row, a label or a bucket
  must belong to the call it was made for; a row must be there when somebody
  who can know of the call looks for it.
- **Crashes.** Rows not yet written, the limiter's counters and the metrics die
  with the process; the SQLite rows do not. No *answered* call may lose its row.
- **Shutdown.** The lifespan closes the store; no write may come later, and the
  shutdown must end.
- **Exceptions and refusals.** 401, 403, 404, 405, 422, 429, a redirect and an
  exception each leave at a different layer, and each must leave one row, one
  count, and a reply that agree.
- **Time.** A fixed window lets a consumer burst over its edge: by how much?
  A denial must be the consumer's own doing.
- **Silence.** Metabase may never answer; the client's timeout bounds the wait.
- **Strings for instants.** SQLite compares timestamps as text: is that the order
  of the instants, and for which bounds?
- **A log that moves.** `next_offset` counts from the newest row, and rows arrive
  (the walk's own among them) and are pruned between two pages: is a row shown
  twice, or never?
- **State the applications share.** Settings are cached, the registry and the
  descriptors with their card ids are module-level: which application's card,
  timeout and keys does a call get, also when `create_app()` runs, or fails,
  while it waits for Metabase?
- **Answers that are not answers.** Metabase says 202 for a finished query, for
  one that runs on and for one that failed; rows have missing, null and
  unreadable cells. What may pass for a result, and do totals add up?
- **Check, then act.** `get()` of the secret provider looks into the cache and
  fills it in two critical sections; a secret may be rotated in between.

`PROJECT.json` lists every such hazard with its line and the properties on it.

## The modules

| Module | What it is | Source |
|---|---|---|
| `ConnectorConfig` | the configured constants: key table, limits, routes, scopes | `auth.py`, `ratelimit.py`, `_registration.py`, `consumer.py` |
| `WindowBudget` | abstract: what a rate limiter promises, with no clock and no hit counter | - |
| `RateLimiter` | `RateLimitMiddleware` over the fixed-window storage, with a clock | `ratelimit.py` |
| `RequestPipeline` | the process: loop, middlewares, handlers, log, metrics, shutdown, crash | `app.py`, `middleware/`, `security/`, `rpcs/`, `errors.py`, `store.py` |
| `AuditLog` | abstract: what the `AuditStore` protocol promises, with no strings and no positions | - |
| `AuditStore` | `InMemoryAuditStore` and `SQLiteAuditStore` | `store.py` |
| `AuditPaging` | an operator's walk over `next_offset`, extending `AuditStore` | `read_audit.py`, `audit.py` |
| `SecretProvider` | `EnvVarSecretProvider`, for one name, from several threads | `provider.py` |
| `Responses` | the responses and exceptions a call can end in, shared by the modules below and above | `errors.py`, `envelope.py` |
| `ApiKeyConfig` | `parse_api_key_config()`, as operators | `auth.py` |
| `AppFactory` | `create_app()`, the lifespan, and the state that applications share | `app.py`, `settings.py`, `registry.py`, `_registration.py`, `_helpers.py`, `execute_sql.py` |
| `MetabaseClient` | the classification of Metabase's answers and the rows of a payload, as operators | `metabase.py`, `rows.py` |
| `CardReshape` | what each RPC makes of the rows, and when that raises, as operators | the nine `rpcs/*.py` with a card, `execute_sql.py` |
| `CardRpcs` | one call from its body to its response: validation, parameters, Metabase, reshaping | the same, `_helpers.py`, `errors.py` |
| `MCRateLimiter`, `MCRequestPipeline`, `MCAuditStore`, `MCAuditStores`, `MCAuditPaging`, `MCSecretProvider`, `MCAppFactory`, `MCCardRpcs` | instances for TLC | - |
| `RateLimiterProofs`, `RequestPipelineProofs`, `AuditTrailProofs`, `AuditStoreProofs`, `SecretProviderProofs`, `AppFactoryProofs`, `CardRpcsProofs` | theorems | - |
| `FoldFacts` | lemmas on induction, folds, sums and tables that `CardRpcsProofs` and `AppFactoryProofs` rest on | - |

`RequestPipeline` says when a row is written and read, and takes the log as the
set of its rows; `AuditStore` says what the store makes of them; `AuditPaging`
puts a walk of many reads on top of `AuditStore`. `RateLimiter` and the pipeline
implement the same `WindowBudget`, one with the clock, the other with the
concurrency. `RequestPipeline` takes the answers of Metabase as a choice from
`QueryAnswers` and `HealthAnswers`; `CardRpcs` derives them from what the wire
brings (`AnswersAsAssumed`). `AppFactory` says with which card, timeout and keys
an application serves; the pipeline and `CardRpcs` take those as given.

### RequestPipeline and the code

`ready` is the event loop's queue. A task is a call or the write of a row; the
loop runs the first one up to its next await (`LoopStep`). A call's `pc` is the
layer it runs next, and each layer is an action guarded by `Runs(r, layer)`.

| Action | Code |
|---|---|
| `Arrive`, `RequestID` | `request_id.py:17-23` |
| `ReadBody`, `BodyArrives`, `ClientDisconnects` | `audit.py:92-94`, `_read_body` |
| `AuthBypassed`, `AuthRejects`, `AuthAccepts` | `auth.py:108-129` |
| `RateLimitBypassed`, `RateLimitAdmits`, `RateLimitDenies` | `ratelimit.py:82-102` |
| `Handler`: `NoRoute`, `RedirectsSlash`, `WrongMethod`, `BodyNotJson`, `ScopeMissing`, `BodyInvalid` | FastAPI's order of checks, `errors.py:109-141`, `scopes.py:16-24` |
| `Handler`: `AnswersLocally`, `ReadAudit`, `MetabaseNotConfigured`, `PostQuery`, `GetHealth` | `app.py:149-169`, `describe_catalog.py`, `read_audit.py:63-90`, `_helpers.py:16-60`, `execute_sql.py:97-136` |
| `MetabaseAnswers` | `metabase.py:49-57`, `107-140` and what the handler makes of it |
| `Telemetry` | `middleware/telemetry.py:33-44` |
| `Audit`, `AuditWrite` | `audit.py:99-144`, `161-165` |
| `Reply` | `request_id.py:23-25`, `errors.py:144-151` |
| `StopAccepting`, `Close` | uvicorn's graceful shutdown, `app.py:59-65` |
| `Crash` | the process dies at any await and is started again |
| `WindowElapses` | the limiter's clock, unconstrained |

`outcome[r]` is the response or exception on its way up; `reply[r]` what the
client got. `earlier`, `called`, `lost`, `granted` and a row's `call` are
history: no action's guard reads them.

What is abstracted: a path stands for every path the code treats alike (the
nine card RPCs are one); a body is good, not JSON, or rejected by the schema; a
Metabase answer is the response it ends in; a row keeps who, what and how it
ended. Times, parameters, messages and versions are left out.

**Assumptions about the libraries** (external in the map):

- asyncio runs ready tasks first in, first out; `create_task()` appends.
- `BaseHTTPMiddleware` runs the layer below in a task of its own, so a call
  gives way at least once per layer, down and up. The model has exactly one
  such point per layer; a call that gives way more often only reaches the later
  layers later, which other calls' steps already allow.
- `store.write()` and `store.query()` contain no await: one step.
- A client's departure after its body was read does not cancel the handler.
- FastAPI resolves the route, reads JSON, runs `require_scope()` and then
  reports schema errors, in that order.
- uvicorn's graceful shutdown stops accepting, waits for the calls in flight
  and then ends the lifespan. A forced exit is a `Crash`.
- `limits.MemoryStorage` counts every hit, starts a window at its first hit and
  does not extend it.

### RateLimiter and the code

`storage` and `expirations` are the fields of the library's storage. `Dispatch`
is one `dispatch()` that reaches `storage.hit()`: count, then `Admit` or `Deny`.
`admitted` and `openings` are history: the times of the admissions of a bucket,
and which of them opened a window.

### AuditStore and the code

`table` holds the rows; the id is the order of insertion. A clock unit is the
stand-in of a microsecond. The lock of a store is held over whole operations
without an await, so each is an action: `Write`, `Query`, `Prune`, `Aclose`, and
`Raise` for a closed connection or a naive bound met by the in-memory store.

`Isoformat` is what `isoformat()` yields, as the parts of the string in their
order: the wall time to the second, the character after it (`.` of a fraction, a
sign, or the end), the fraction, the sign, the offset. `TextLess` compares them
as SQLite compares the text. `Before` is `ORDER BY timestamp DESC` with the
order of equal timestamps that the two stores have: the list sort is stable, so
oldest first; SQLite walks the timestamp index backwards, newest first, unless a
filter makes it take another index and sort, oldest first. `Page` is LIMIT and
OFFSET, or the slice.

`AuditPaging` adds the operator. `BeginWalk` fixes what the walk owes: the rows
that match now. `ReadPage` is a `read_audit`; before the reply reaches the
operator the call's own row is in the log (`AuditTrailProofs!AnsweredAlwaysAudited`),
or was refused, so `FollowNextOffset` may write it and goes on at `next_offset`.
`OtherCall` writes a row at any instant, as the clock may be set back;
`Retention` prunes. `owed`, `repeats` and `arrivals` are history.

### SecretProvider and the code

`GetStarts` is the first critical section of `get()` (it finds an entry or
misses), `ReadsEnviron` the read without the lock, `StoresValue` the second
critical section. `Rotate` changes the environment. The service itself calls
`get()` in its lifespan only; the module's contract (`provider.py:3-14`) offers
the provider to a deploy pipeline as well, and the lock is there for threads.

### AppFactory and the code

`cache` is the `lru_cache` of `load_settings()`, `registry` and `descriptors`
the module-level state; each application of `apps` keeps its settings, key
table, client and store. `create_app()` has no await, so it is one step:
`CreateApp`, or `CreateAppRaises`, which has cleared the registry by then
(`app.py:83`, `97`). `StartApp` and `StopApp` are the two halves of `lifespan()`;
a client that fails to close leaves the store open (`app.py:63`). A call is two
steps, `BeginCard` or `BeginSql` up to the await for Metabase and `Answer` after
it: the descriptor is read again for the response (`_helpers.py:35`), the registry
for the audit row (`audit.py:112-117`). `ChangeEnv` and `ClearCache` are what
tests do. `disturbed` and `current` are history.

A key table is a sequence of lines of parts, since the parser looks for
semicolons before it looks for lines; a part is an entry with its fields, a
comment, blank, or has no `=`. Whitespace within a part is left out.

### MetabaseClient, CardReshape, CardRpcs and the code

A wire is a timeout, a broken connection, or a status with a body; `PostQuery` is
`_post_query()`, `Health` is `health()`. A body keeps what the code looks at:
`status`, `row_count`, the names of the columns and the rows. A cell is a number,
a text, `None`, or `Junk`, which stands for whatever `Decimal()`, `int()`,
`date.fromisoformat()` or pydantic refuse. Numbers are integers: `Decimal` adds
exactly too. Lists sorted by a key are functions of the key; texts are compared
as they are, with `lower()` and `[:10]` given on the texts that occur. The status
of a check, where `strip()` and `upper()` matter, is a record: the word in
capitals, whether it is written so, and whether blanks surround it.
`X(rows)` is the data of RPC X, `XRaises(rows)` says that its code raises, which
becomes the 500 of `unhandled_exception_handler`.

In `CardRpcs` a call is `Reject` (422), or `Ask` and `Receive`. The sets of
accepted bodies (`PartnerRevenueInputs`, ...) are the pydantic models, the
`...Params` operators the functions `_params()`, by template tag. A call is one
sequence of two steps, so the run's breadth is in the inputs; the interleaving
of calls is the pipeline's.

## What the runs check

| Run | Instance | Properties |
|---|---|---|
| `rate_limiter` | 3 keys of 2 consumers, 2 per window, window of 3 ticks, clock to 6, 4 hits a window | `TypeOK`, `BurstBounded`, `DenialEarned`, `ImplementsBudget` |
| `pipeline` | 2 calls out of 16 kinds, all four wirings, limits of 2 and 1, shutdown | `TypeOK`, `CarriesWhatIsRead`, `UpstreamAuthorised`, `OneRowPerCall`, `RowsTellTheTruth`, `MetricsMatchAudit`, `NothingWrittenAfterClose`, `ImplementsBudget` |
| `progress` | 2 calls of 5 kinds that write, read, are refused, or have no row; a limit of 1 on raw SQL; 1 crash, shutdown, fairness | `AnsweredIsAudited`, `ReadSeesAnswered`, `CallsAnswered`, `ShutdownCompletes` |
| `stores` | 3 rows, instants in two seconds; SQLite with 36 queries with bounds in UTC, the list with 27 in another zone and naive ones | `TypeOK`, `ImplementsAuditLog` |
| `paging` | walks of 2 rows a page over everything and of 1 over one caller's rows; up to 3 rows of other calls, pruning, fairness | `PagingTypeOK`, `NoneMissed`, `RepeatsBounded`, `WalkEnds` |
| `secrets` | 2 threads, 3 values | `TypeOK`, `StaleOnlyAfterOverlap` |
| `app_factory` | 2 creations with 4 settings (one store cannot be built, one has no Metabase key), 2 card RPCs and `execute_sql` | `TypeOK`, `OwnCardsWin`, `FactoryIsRepeatable`, `ResponseNamesItsCard`, `TimeoutIsOwn`, `ClosedAtShutdown`, `KeysAreTheLastEntries` |
| `card_rpcs` | 10 RPCs, bodies on both sides of each bound, 48 common answers, up to 3 rows for each RPC | `AnswersAsAssumed`, `QueuedIsToldApart`, `ReportsAddUp`, `RowsAreKept`, `NullsFailWhereRequired`, `AlarmsAreKept`, `QuartersMeet`, `EveryFilterIsSent` |
| `zoned_range` | SQLite's store of `stores` with bounds of other offsets | `RangeHonoured`: violated |
| `stale_secret` | as `secrets` | `RotationTakesEffect`: violated |
| `none_disables` | as `app_factory` | `NoneDisables`: violated |
| `failed_query` | as `card_rpcs` | `FailedQueriesAreErrors`: violated |

The properties in words:

- `CarriesWhatIsRead`: each layer finds what it reads in `request.state`, and
  the consumer there owns the call's own key.
- `UpstreamAuthorised`: Metabase runs a query only for a known key that holds
  the route's scope and sent a valid body.
- `OneRowPerCall`: stored, pending and lost rows of a call add up to one once
  the response has passed the audit middleware, and to none for other calls.
- `RowsTellTheTruth`: a row's caller, request id, status and error code are
  those the client saw.
- `AnsweredIsAudited`: a client that has its reply has its row in the store,
  unless the store refused it. The code waits for no write; this holds because
  the write's task is queued before the call's own next task.
- `ReadSeesAnswered`: `read_audit` shows every call answered before it arrived.
- `MetricsMatchAudit`: at rest, counters and rows agree label by label.
- `NothingWrittenAfterClose`: the lifespan's end finds no write pending.
- `ImplementsBudget`: at most the amount per window and bucket, refusals only
  when it is spent; by refinement of `WindowBudget`.
- `BurstBounded`: 2*Amount consecutive admissions span a window's length.
- `DenialEarned`: a denial follows Amount admissions of the same bucket within
  a window's length.
- `CallsAnswered`, `ShutdownCompletes`: progress.
- `ImplementsAuditLog`: `query()` returns a page of exactly the rows whose
  instants and caller are asked for, newest first; pruning removes exactly what
  is older than the cutoff and counts it.
- `NoneMissed`: what matched when a walk began and was not
  pruned is shown by its end. Rows that arrive push others to later pages, and
  pruning takes the rows at the end first.
- `RepeatsBounded`: a row is shown twice only because rows
  arrived, and no more often than that.
- `WalkEnds`: a walk ends, if its pages hold more than the row each of them adds.
  A walk of one row a page over everything does not: it is shown the row of its
  own last read for ever, which is why `Advances` stands in the property.
- `StaleOnlyAfterOverlap`: `get()` returns a value older than
  the last `invalidate()` only if another `get()` overlapped that `invalidate()`.
- `OwnCardsWin`: the newest application shows, and asks for its undisturbed calls,
  the cards its own settings give; no card is shown that no settings gave. What
  a setting of `None` does is the run `none_disables`.
- `FactoryIsRepeatable`: `create_app()` never fails over a registered name, and
  the registry is full whenever it returns, whatever failed before.
- `ResponseNamesItsCard`: response and audit row name the card that was asked,
  unless `create_app()` ran during the wait; a failed `create_app()` leaves later
  rows without a card, never with a wrong one.
- `TimeoutIsOwn`: a card is waited for as long as the call's own application
  says; `execute_sql()` only if that application was made from the cached settings
  and the cache was not cleared since.
- `ClosedAtShutdown`: the store is closed unless the client failed to close.
- `KeysAreTheLastEntries`: each application accepts the keys with a well-formed
  entry in its own settings, as the last entry says, and no others.
- `AnswersAsAssumed`: every answer of Metabase ends in a response the pipeline
  assumes; no status of Metabase's own reaches a consumer.
- `QueuedIsToldApart`: `EXCEEDED_SYNC_WINDOW` is the answer to a 202 without rows
  that is not called completed, and to nothing else. What a query that failed
  gives is the run `failed_query`.
- `ReportsAddUp` (`ComparisonAddsUp`, `MrrAddsUp`, `ArrAddsUp`): totals, deltas
  and breakdowns agree with the rows; in `revenue_comparison` the last row of a key counts, in
  the others all do.
- `RowsAreKept` (`EveryRowIsThere`, `SqlCountsItsRows`, `RanksFollowTheRows`):
  no row is dropped, counts and places are the rows' own.
- `NullsFailWhereRequired`: a null amount fails the whole call of `partner_revenue`,
  `top_partners` and `channel_split`, which require it; for every RPC with a card,
  rows that are readable and without such a null are a success.
- `AlarmsAreKept`: a check is OK exactly if the card says OK or PASS, and ACTION
  exactly if it says ACTION or FAIL, in any case and with blanks around it.
- `QuartersMeet`, `EveryFilterIsSent`: what the card is asked is what the body
  asks, with quarters that meet over the turn of a year.

**Bounds.** Two calls show every pairwise interleaving of the layers, and of two
keys of one consumer at a limit of 1; a read that arrives after an answer is the
second of them. One crash is enough for
a row to be lost and a call to follow the restart; the proofs lift that bound.
In `rate_limiter` six ticks hold two windows and their edge, and four hits are
two admissions and two denials. `MaxTime`, `MaxHits` and `MaxCrashes` are the
bounds in guards of these modules. In `AuditStore` and `AuditPaging` `MaxRows` is:
three rows are enough for ties, a page in the middle and a skipped row; in
`paging` it is never reached (`MaxOthers` = 3 rows of other calls, and a walk
over them adds at most four), so no walk stops for it. Three instants with two
to a second hold a timestamp with a fraction between two without. In `AppFactory`
`MaxCreations` = 2 is the bound: a second application, made or refused, is what
can disturb the first; more are the theorems' matter. In `card_rpcs` three rows
hold two of one key and one of another, and the alphabet of each column holds a
cell of every kind its code tells apart. Deadlock is not checked where a system
may stop: clients owe no further call, a closed server stops, and a call of
`CardRpcs` ends.

**Fairness** (`progress`): the loop runs whenever a task is ready; httpx's
timeout (`metabase.py:108`) or an answer ends every wait for Metabase; a drained
server ends the lifespan. `httpx.Timeout` bounds each connect, read and write, not
the exchange as a whole: a Metabase that is silent is within this fairness, one
that keeps sending a byte at a time is not. Clients owe nothing, so `CallsAnswered` starts where
the body has been read and `ShutdownCompletes` where no call waits for one.
A crash counts as an end of both.
In `paging` a `read_audit` is answered (which `progress` shows) and the operator
keeps asking; other calls and pruning owe nothing.

**Faulty variants.** Operators whose comment says "Faulty variant" are plausible
bugs. They are part of no specification; replacing the definition that follows
them by the variant breaks the properties `PROJECT.json` names.

### What the runs found

- `none_disables`: `register_rpcs()` writes a card id into a module-level descriptor
  only if the setting is not `None` (`_registration.py:52-53`) and nothing clears
  it. An application with `card_id_<name>` unset after one that set it asks the
  earlier card, where `settings.py:60` says "None disables that RPC for upstream
  calls". One application in a process behaves as the comment says.
- `failed_query`: `_looks_completed()` takes any body with a list of rows for a
  finished query (`metabase.py:143-152`), so a 202 whose body says
  `status: "failed"`, with its empty rows, is no `MetabaseError`: the RPCs with a
  card answer 200 with an empty report, and `execute_sql()` 200 with that status.
  The repository's `README.md:292` lists a SQL syntax error under `METABASE_ERROR`.
- `zoned_range`: the SQLite store compares `isoformat()` strings
  (`store.py:180-185`). Rows are stamped in UTC; a bound with another offset is
  compared by its wall time, so rows outside the range are returned, and others
  left out. The API takes any date-time (`docs/openapi.json`), the in-memory
  store compares instants, and both run the same tests, whose bounds are all UTC.
- `stale_secret`: an `invalidate()` between the read of the environment
  (`provider.py:49`) and the write to the cache (`provider.py:52-53`) is undone,
  and every later `get()` returns the old secret.

Two more differences between the docs and the code are in the modules and have no
run of their own. `parse_api_key_config()` turns semicolons into line breaks before it
looks for comments (`auth.py:32-34`), so `#k1=...;k2=...` leaves `k2` accepted, where its
docstring has lines beginning with `#` ignored (`auth.py:22`) and entries separated
by commas (`auth.py:21`): `KeysAreTheLastEntries` says what the code does, with
such a line in the run. And a crash loses the row of every call whose write is
queued, where the docstring of the audit middleware (`audit.py:78-80`) grants the
loss of "the most recent record"; none of these calls has been answered
(`AnsweredIsAudited`).

## What is proved

For any sets of keys, consumers, calls and inputs, any limits, any number of
crashes, and an unbounded log (TLAPS; constants as in the `ASSUME`s):

| Theorem | Says |
|---|---|
| `RateLimiterProofs!TypeCorrect`, `WindowsAlwaysFit`, `BurstAlwaysBounded`, `DenialAlwaysEarned` | the four safety properties of the limiter |
| `RateLimiterProofs!LimiterImplementsBudget` | the clocked limiter refines `WindowBudget` |
| `RequestPipelineProofs!TypeCorrect`, `AlwaysCarries`, `UpstreamAlwaysAuthorised` | types, what layers read, who reaches Metabase |
| `RequestPipelineProofs!PipelineImplementsBudget` | the pipeline's limiter refines `WindowBudget`, through any crash |
| `AuditTrailProofs!WritesAlwaysGoFirst`, `AnsweredAlwaysAudited`, `NothingEverWrittenAfterClose` | an answered call has its row, a closed store is never written |
| `AuditTrailProofs!ReadAlwaysSeesAnswered` | what `read_audit` shows |
| `AuditTrailProofs!AlwaysOneRowPerCall`, `RowsAlwaysTellTheTruth` | one row for each call under `/rpc/`, wherever it is, and what it tells |
| `AuditTrailProofs!MetricsAlwaysMatchAudit` | counters and rows agree at rest, for any number of calls |
| `AuditStoreProofs!TypeCorrect`, `StampOrder`, `StoreImplementsLog` | ISO strings of UTC instants sort as the instants; both stores refine `AuditLog`, SQLite's for bounds in UTC |
| `AuditStoreProofs!PagingTypeCorrect`, `NothingEverSkipped`, `NoneEverMissed`, `RepeatsAlwaysAccounted`, `RepeatsAlwaysBounded` | what a walk shows, for any log, page size and filter |
| `SecretProviderProofs!TypeCorrect`, `CacheAlwaysCurrent`, `StaleAlwaysOverlapped` | the secret provider, for any threads |
| `AppFactoryProofs!TypeCorrect`, `OwnCardsAlwaysWin`, `FactoryAlwaysRepeatable`, `ResponsesNameTheirCard`, `TimeoutsAreOwn`, `StoresAreClosed` | the factory, for any RPCs and settings and any number of applications |
| `AppFactoryProofs!KeysAlwaysTheLastEntries` | the keys an application accepts, for any text of any number of lines and parts |
| `CardRpcsProofs!AlwaysAnswersAsAssumed`, `QueuedAlwaysToldApart` | what a call with a card can end in, for any answer of Metabase |
| `CardRpcsProofs!EveryFilterAlwaysSent`, `QuartersAlwaysMeet` | what is asked of the card, for any body and any quarter of the calendar |
| `CardRpcsProofs!RowsAlwaysKept`, `NullsAlwaysFailWhereRequired`, `AlarmsAlwaysKept` | what becomes of the rows and their cells, for any number of them |
| `CardRpcsProofs!ReportsAlwaysAddUp` | the totals of `revenue_comparison`, `mrr_trend` and `arr_at_risk`, for any number of rows in any order |

The inductive invariants:

- `WindowsFit` (limiter). `BurstBounded` speaks of the history of admissions
  alone and is not inductive: nothing in it ties the history to the counter.
  `WindowsFit` splits the history into windows, bounds each window's length
  (`WindowsFilled`) and the distance of consecutive ones (`WindowsApart`), and
  ties the last one to the counter and the expiry (`LastWindow`). 2*Amount
  admissions then cover at least one whole window.
- `TypeOK /\ CarriesWhatIsRead` (pipeline). Types are not inductive alone: a row
  has an id and an outcome only because the call carries them by then.
- `HitsExplained` (pipeline's budget): a bucket's admissions are its hits up to the
  amount; every step then is a grant, a refusal, a renewal or a stutter.
- `WritesGoFirst` (audit order). `AnsweredIsAudited` is not inductive, since the
  store says nothing of a call that is about to leave. `WritesGoFirst` says each
  call that runs has one task in the queue, that a write of its row stands
  before that task, and that a closed server has no call in flight. The proof
  is about queues: what taking the head and appending a task do to the order
  (`TailKeepsOthers`, `TailClearsOwn`, `AppendKeepsOthers`, `AppendOwn`).
- `EarlierDone` (reads): the calls a read owes were answered, and stay so.
- `AllOnce` (one row per call). `OneRowPerCall` counts rows as a set, and equal
  rows waiting twice in the queue would count once. `Once` says of each call that
  at most one position of the store, one lost row and one position of the queue
  are its own, that no two of these three places have one, and that a call with
  a row is an RPC past the audit middleware. Only `Audit` adds a row, and its call
  has none yet; the write and a crash move the row. That a call has a row at all
  comes from `WritesGoFirst`.
- `AllTold` (what rows tell): every row, wherever it is, is `Record` of its call as
  the call stands now; past the audit middleware a step no longer changes what
  `Record` reads (`Frozen`), and an RPC's key was looked at by then.
- `Metered` (metrics): until a crash, a counter is the number of calls past the
  telemetry middleware with its label. At rest those calls are answered, each has
  one row by `AllOnce` and `WritesGoFirst`, and its label is the row's by `AllTold`:
  a bijection between calls and rows gives the equality (`CountedRows`).
  `GoneHasNoRow` is needed: a call whose client left must not have a row.
- Refinement of `AuditLog`: needs no more than `TypeOK`. The work is in `Page`:
  `Before` is a strict order, so positions are a bijection onto `0 .. n-1`
  (`PositionsAreBijective`), a slice of positions has the length the protocol
  says (`SliceSize`), and it lies newest first because the order of the strings
  is that of the instants (`StampOrder`). The hypothesis on queries is the one
  `zoned_range` shows to be needed.
- `NothingSkipped` (paging). `NoneMissed` says nothing while a walk runs; its
  strengthening places everything still owed at or after the next offset. It is
  preserved because an insertion never lowers a position, a prune lowers
  positions only of rows it removes with everything after them, and a page shows
  all positions from its offset to the next.
- `RepeatsAccounted`: the rows shown that lie at or after the next offset again
  are at most the arrivals not yet spent on a repeat.
- `CacheIsCurrent` is inductive together with `TypeOK`.
- `Wiring` (factory). `OwnCardsWin` speaks of the newest application and of the
  RPCs in the registry, and a failed `create_app()` empties it while the
  descriptors live on; `Wiring` says of every descriptor that it holds the card of
  the last application that gave one.
- `Asked` (factory). `ResponseNamesItsCard` says nothing while a call waits;
  `Asked` says that an undisturbed wait finds its descriptor as it left it. By
  `Wiring` the `OtherRpcs`, which ask no card, have none to name.
- `CurrentIsCached` (factory): an application made from the cached settings finds
  them in the cache until it is cleared. `TimeoutIsOwn` needs it at `BeginSql`.

- `KeysAreParsed` (factory): an application's table is what `ParseApiKeyConfig`
  makes of its own settings; only `NewApp` writes it. That this is what an
  operator reads in the text (`ParsedIsLast`) is a fact about a fold, below.
- `CallInv` (card RPCs): what was sent was made of a valid body, the response is
  the one that the classification and the code of the handler make of what came
  back (`Concluded`), and a success shows `Data` of it; anything else shows
  nothing. A call makes three steps, so the rest are facts about `Data`,
  `Params` and `PostQuery`.

### Folds and sums

`CardReshape` and `ApiKeyConfig` fold the rows and the parts with `FoldLeft`, and
properties add up with `MapThenSumSet`: each a `CHOOSE` of a function that is
defined by recursion on the parts of a set. `FoldFacts` makes them usable.

- Induction. The library's theorems on it take the property as an operator, which
  no prover here can instantiate, but `WFMin` takes a set. `Induction`,
  `PrefixInduction` and `FiniteInduction` state induction for the set of what has
  the property.
- `FoldExists`, `FoldUnique`: the function that `CHOOSE` looks for exists and is the
  only one. `FoldHasPrefixes` turns `FoldLeft` into a state machine over the places
  of the sequence, with the fold so far as its state.
- `TableSum` adds in any order (`AddsUpInAnyOrder`), term by term (`PartSumAdd`),
  along a bijection (`TableSumSame`) and by subtraction (`TableSumMinus`).

A claim about a report is then an invariant over its rows. `TrendUpTo`
(`mrr_trend`): after i rows a day's point and its two tables hold the sums of
those of the i rows that belong in them. `LastRows` (`revenue_comparison`) and
`HasLastEntries` (the key table): the table so far holds the last row, or
well-formed entry, of each key and nothing else. The totals of a comparison are
sums over keys where the property sums over rows; the last row of a key is a
bijection between the two.

### What the proofs assume

The `ASSUME`s of the modules, which TLC evaluates on every run. Beyond sizes and
distinct constants:

- `TextsAssumption` (`AppFactory`): the keys' text is a sequence of lines that are
  sequences of parts, as `replace`, `splitlines` and `split` give it.
- `WiresAssumption` and `RpcsAssumption` (`CardRpcs`): what httpx brings for each RPC,
  with rows and columns that are sequences (JSON arrays) and, in the columns a
  report adds up (`AmountColumns`), a number, null or something that is no number
  (`Junk`). Amounts are integers, as cents are; `Decimal`'s rounding at 28 digits is
  left out.
- `NumbersAssumption` (`CardReshape`) and `NoneAssumption` (`CardRpcs`): `None` and `Junk`
  are no numbers, and neither the parameters of a card nor its data are `None`,
  as they are a dict, a list or a model.

The runs check what these invariants imply and not the strengthenings
themselves (`WindowsFit`, `WritesGoFirst`, `NothingSkipped`, `RepeatsAccounted`,
`CacheIsCurrent`, `KeysAreParsed`, `CallInv`), since the proofs hold for every
instance.

Only model-checked: `CallsAnswered`, `ShutdownCompletes` and `WalkEnds`. Liveness
under fairness and `ENABLED` are out of the prover's reach, and stay with TLC.
`failed_query`, `none_disables`, `zoned_range` and `stale_secret` show violations,
which nothing is to be proved of. Every invariant and every refinement a passing
run checks is a theorem.

## Not modelled

Logging, Datadog, samples and tools: pure I/O, clients and generators outside
the service. Of the envelopes the layout and the timestamps; of the metrics the
latency histogram. `connector_audit_writes_total`, the circuit breaker's gauge,
`rate_limit_class`, `assert_version()` and `session_properties()` are created,
parsed or defined and used by nobody; that nobody calls `prune_older_than()` is
likewise the absence of a caller and no behaviour of a module. Of the four
filters by equality `caller_id` stands for all, and the row's other columns are
left out. Wording, the order of sorted lists, and whitespace (but for the status
of a check) are left out, and the running time and the columns of `execute_sql`'s
result are passed on as they are.

## Plan

Done, in the order of the plan: the pipeline and the limiter, the stores, paging
and secrets, the factory with the key table, the client and the card RPCs; then
the proofs of every safety property the runs check, those about folds last. What is
left is to state the step from `CardRpcs` to `RequestPipeline` as a refinement, of
the choice of an answer by the exchange that leads to it; today `AnswersAsAssumed`
says that the two sets of answers agree.
