# SpendSlicer, verified

TLA+ models of SpendSlicer, a local AWS cost dashboard: a FastAPI server over
Cost Explorer and per-resource scans, a React dashboard, and a set of caches
that keep both from being slow and expensive. Every Cost Explorer call is
billed, and a scan of all regions takes minutes, so the hard part of this
program is *who pays, how often, and how old a number may be when it is shown*;
and, once it has paid, *whether the resources it shows add up to the bill*.
In the browser it goes on: *whose figures stand under which caption, how old
they are, and whether the page ever stops loading*.
The models are about these; TLC checks them on small instances and
TLAPS proves the safety properties for all values of the constants.

Paths below are relative to the repository root, `spendslicer/` being the
Python package.

## 1. Inventory

### Components, state, operations

| Component | State it keeps | Operations | Status |
|---|---|---|---|
| Response cache, `spendslicer/web/sqlite_cache.py` | table `cache_entries` (value, created_at, ttl, swr), count of writes since the last sweep | `get`, `get_swr`, `set` (+ sweep), `bust`, start-up and recreation | **modelled**: `TtlCache`, `SqliteCache` |
| Background refresh pool, `spendslicer/web/deps.py` | set of keys being refreshed, in-flight counter, pool queue | `schedule_refresh`, its `_run` and `finally` | **modelled**: `RefreshPool` |
| Resource endpoints and cold single flight, `web/routes/resources_api.py`, `web/deps.py` | per-key locks | `/resources/data`, `/resources/top/data`, `/resources/services/data`, `cold_single_flight`, `/cache/clear` | **modelled**: `ResourcesApi` |
| Cost matrix store, `spendslicer/aws/cost_store.py` | table of per-key locks of a `CostStore` object; the matrix in the response cache | `get_matrix` | **modelled**: `CostStore` |
| Cost endpoints and profile list, `web/routes/cost.py`, `web/context.py` | cached list of profiles with account ids, cached answers, cached matrices | `/summary`, `/services`, `_account_tag`, `get_profile_choices` | **partly**: `CostRoutes` |
| CUR warehouse, `cur/*`, `aws/cost_source.py` | DuckDB manifest, Parquet files, one shared connection, the ingest thread | `ingest_once`, `has_data`, `attribution_source`, `attribute_resources`, `get_matrix` | not modelled |
| Attribution runner, `resources/runner.py` | rows and statuses per service, the shared scan of instances | fan-out over regions and services, rescaling, reconciliation | **partly**: `Attribution` |
| Pricing, `core/pricing.py` | 24-hour rate cache | price look-ups with fallbacks | not modelled |
| Time windows, `core/time_windows.py` | none | periods, comparison windows | not modelled |
| Filters, service groups, provenance, types, `core/*` | none | construction of queries and labels, `merge_ec2_service_groups` | not modelled |
| Call counter, `web/middleware.py` | one counter per request in a context variable | count, bind, header | not modelled |
| Exports, `exporters/scheduler.py`, `web/routes/export_api.py` | report cache, files of an export directory, last results | export, prune, report | not modelled |
| Dashboard data layer, `frontend/src/{api.js,hooks/useAsyncData.js,lib/swrCache.js,lib/ceMeter.js}` | `localStorage` entries, abort controllers, view state, the session's meter | load, abort, reload, fetch, fall back, keep, evict, sweep, meter, reset | **modelled**: `DashboardData` |
| Dashboard pages, `frontend/src/App.jsx`, `lib/cues.js`, `hooks/useDebounced.js` | page, profile, period; URL and history; `acu:*` items; what the hooks of the page show; filter, limit and page of the list of resources; the cue line | navigate, choose, Back, snap, poll, retry, open a row, export, filter, load more | **partly**: `AppShell`, `DashboardPages`, `ResourcesPage` |
| Audit, `audit/*`, `web/routes/audit_api.py` | cached result | fan-out over regions | not modelled |
| Per-service attribution, Cost Explorer client, sessions | none, or a client's own | AWS calls and arithmetic on their results | external to the models: what an attributor or client returns is an amount, a failure or an account |
| Application, prewarm, launcher, CLI, packaging, Terraform, landing page | - | wiring, output, rendering | not modelled |

### How they interact

```
 dashboard --GET--> routes --get/get_swr--> response cache (SQLite file)
    ^  |               |  \--schedule_refresh--> refresh pool --set--> response cache
    |  | poll on       |  \--cold_single_flight (per-key lock)--set-->    "
    |  | "warming"     \--> get_cost_source --> CostStore.get_matrix --> Cost Explorer
    +--+                        (new per request)     \--get/set--> response cache
 producer of the resource endpoints --> enumerate_all --> pool of work units --> AWS
                                            \--> _reconcile_pools --> rows
```

```
 App (page, profile, period) <--> URL and history, localStorage acu:*
   |  mounts one page; its hooks depend on profile and period
   v
 useAsyncData --loader--> getJson --read--> localStorage acu:swr:* <-- other tabs
   |  abort, latest wins        \--fetch--> server        ^
   |                             \--answer: keep--------/   \--X-CE-* headers--> meter
   v
 panels, banners (Retry), warming poll, cue line
```

On the server everything meets in the response cache, which request threads, refresh workers
and start-up threads use at once. A read takes no lock. Calls are made from
route threads (Starlette's thread pool) and from two bounded executors.

### What is hard here

* **Interleavings.** A reader decides a row is dead on a `SELECT` it made some
  time ago; a sweep uses a clock it read before waiting for the lock; a handler
  schedules a refresh for an entry that has changed; a cold caller wakes when a
  lock is released.
* **Failure in the middle.** A commit fails after the counter moved; a submit
  raises after a slot was taken; a fetch fails with threads queued on its lock;
  a producer returns an error instead of raising one.
* **Restarts.** The cache outlives the process, the counters and locks do not.
* **Stacked caches.** A profile list, an answer and a matrix, each with a
  lifetime and a key of its own; the account a number is *of* and the account
  its key *says* are read at different moments.
* **Waiting.** Workers of a bounded pool wait for locks that request threads
  hold; the dashboard polls for an answer that only an admitted refresh can give.
* **Effects after renders.** React runs an effect after the render that shows
  the change: between a click and the new load the old load's answer may come,
  the address bar and the state differ, and the caption is ahead of the figures.
* **Three memories of one choice.** Profile and period live in React state, in
  every entry of the browser's history and in `localStorage`, and the backend
  may no longer offer what they say.

`PROJECT.json` lists each hazard at its line with the property that covers it,
or the reason why none does yet.

### What makes each component correct

* *Response cache*: an entry is lost only by expiry, replacement, clearing or a
  restart; reads answer what was stored, by its age; the table does not grow
  for ever.
* *Refresh pool*: one refresh per key, a cap on all, nothing leaked.
* *Resource endpoints*: one cold payer at a time per key; every request
  answered; the poll ends.
* *Matrix store*: one paid fetch for simultaneous missers, a bounded price for
  failures and for matrices removed while threads are inside.
* *Cost endpoints*: a bound on how old a number is, and on how long one of an
  account the profile has left can still be shown.
* *Attribution*: rows, remainder and aggregate lines show the bill of a service
  whole and once; a partial scan is never scaled up; a region is scanned once;
  the fan-out ends.
* *Dashboard data layer*: a hook shows what was asked for last and nothing
  older than its source allows; it stops loading; errors are not kept; the
  meter never shows more than was spent.
* *Dashboard pages*: the address tells what is on screen, Back goes from page
  to page, figures stand under their own caption, what the backend does not
  offer is left, loading and polling end.
* *List of resources*: it is that of its chip, however chip, debounce, limit
  and profile change; more brings more.

## 2. The modules

| Module | Models | Extends / uses |
|---|---|---|
| `TtlCache` | the promise of the cache, abstractly | - |
| `SqliteCache` | `SqliteCache` step by step | implements `TtlCache` (`Promise`) |
| `SqliteCacheProofs` | its theorems | `SqliteCache`, TLAPS |
| `RefreshPool` | `schedule_refresh` and the executor | - |
| `ResourcesApi` | the three endpoints, cold flight, jobs | extends `RefreshPool`: each step is joined with one of the pool's or leaves it alone |
| `ResourcesApiProofs` | the theorems of both | `ResourcesApi` (and through it `RefreshPool`) |
| `CostStore` | `get_matrix` and its lock table | - |
| `CostStoreProofs` | its theorems | `CostStore` |
| `CostRoutes` | `/summary` over list, answers and matrices | - |
| `CostRoutesProofs` | its theorems | `CostRoutes` |
| `Attribution` | `enumerate_all` and `_reconcile_pools` | - |
| `AttributionProofs` | its theorems | `Attribution` |
| `AsyncData` | the promise of `useAsyncData` to the component that calls it, abstractly | - |
| `DashboardData` | `useAsyncData`, `getJson`, `swrCache`, `ceMeter` in one tab | implements `AsyncData` (`KeepsHookPromise`) |
| `DashboardDataProofs` | its theorems | `DashboardData` |
| `AppShell` | `App`: page, profile, period, URL, history, snap | - |
| `DashboardPages` | the pages under the shell: hooks, panels, banners, poll, cues, export | extends `AppShell`: each commit of the shell is joined with what the hooks do in it; implements `AsyncData` (`HooksAreAsync`) |
| `DashboardPagesProofs` | the theorems of both | `DashboardPages` |
| `ResourcesPage` | `ResourcesPage`: chip, debounce, limit, paging | - |
| `ResourcesPageProofs` | its theorems | `ResourcesPage`, `AsyncData` |
| `MC*` | TLC instances: shared-store maps, lifetimes, symmetry | the module they are named for |

Each module defines, just above some definitions, a *mutant*: that definition
with a plausible bug (a dropped guard, an off-by-one, a missing reset). They
take no part in `Spec`; `PROJECT.json` pairs each with a property that must
fail when the mutant replaces the definition next to it.

### SqliteCache

State: `db` is the table; `writes` is `_writes_since_sweep`; a thread's `pc`,
`key`, `pending`, `seen`, `cutoff` and `answer` are the locals of the method it
is in. One step is one SQL statement or one reading of the clock.

| Action | Code |
|---|---|
| `BeginSet`, `CommitSet`, `FailSet` | `set`: serialise and `time.time()`; `INSERT OR REPLACE`, count and commit under the lock; the swallowed `sqlite3.Error` (with the count already moved if it was the commit) |
| `BeginSweep`, `DeleteExpired`, `SkipSweep` | `_sweep_expired`: clock before the lock, then the `DELETE` |
| `Select`, `Judge*` | `get` / `get_swr`: the `SELECT`, then the age test with its four outcomes |
| `LazyDelete`, `SkipLazyDelete` | `DELETE ... WHERE key=? AND created_at=?` |
| `Bust`, `Restart`, `Tick` | cache-clear route; process death and `__init__`, which may recreate the file; the wall clock |

Abstracted: bodies are model values; a row's lifetimes depend on its key, as at
every caller; `bust` is modelled with the empty prefix only, because no caller
passes another. The wall clock never steps back. Two rows of one key written at
the same tick are told apart by `at` only, which is what the code does.

### RefreshPool

State: `refreshing` and `inflight` are the globals guarded by `_refresh_lock`;
`job` and `jobKey` are the calls in progress; `queue` and `open` the executor.
`Admit` is the block under the lock, with its two early returns as guards;
`Submit` / `SubmitFails` / `Undo` the submission and its `except`;
`Start`, `Produced`, `Published`, `Release` the worker and its `finally`;
`Close` the executor's shutdown at exit. The executor is external: a FIFO with
`Workers` workers whose `submit` raises once it is closed.

### ResourcesApi

State: `cache` reduces an entry to its window (fresh or stale) and whether its
body carries an error; `holder` is the lock of each key in `_cold_locks`; `at`
is where each request thread or job is; `plan` says which producer a job was
given: the bare build (from `/data` and `/top/data` on a stale entry) or
`cold_single_flight` (from `/top/data` on a miss); `built` is the value in its
hands; `warming` records the keys whose last `/top/data` answer was the
placeholder.

| Action | Code |
|---|---|
| `GetData`, `GetTop`, `GetServices` | the three handlers to their first wait |
| `Schedule` | their call of `schedule_refresh`: dropped as duplicate or shed, or `Admit` |
| `Acquire`, `Recheck`, `FlightBuilt`, `FlightPublish`, `*Unlock` | `cold_single_flight`, in a request thread or in a worker |
| `ServicesBuilt`, `ServicesStore` | `/services/data`, which builds and writes by itself |
| `JobSubmit`, `JobStart`, `JobBuilt`, `JobPublish`, `JobRelease` | the job in the pool, each composed with its `RefreshPool` action |
| `Age`, `ClearCache` | the passing of a window; the cache-clear route |

Abstracted: a write to the cache is taken to succeed (its failure is
`SqliteCache`'s `FailSet`, after which the entry is absent, as after `Age` or
`ClearCache`); the pool is not shutting down, which `RefreshPool` covers.

### CostStore

One cache key, since keys do not interact. `inflight` is the lock listed in
`_inflight`; lock objects have an identity, because the `finally` block takes
the lock out of the table while other threads are still queued on it. What
became of the `fetches` is history: `failures` wrote nothing, the matrix of
`kept` ones is in the cache, that of `forgotten` ones has been removed.
`StoreOf` says which `CostStore` object a thread's request uses: a shared
object, as the class's contract has it, or one of its own, as
`get_cost_source` makes them; the instance has both. `force=True`, which nobody passes, is left out.
`Forget` removes the matrix at any moment, as `POST /cache/clear` does (and
expiry, which is rarer): with threads fetching, or queued on a lock that has
left the table. With nobody inside, the history starts afresh; otherwise the
fetches whose matrix it was become forgotten ones.

### CostRoutes

State: `account` is what the profile resolves to now and `left` how long ago it
last resolved to each account; `choices`, `route` and `matrix` are the three
caches; each request has its `tag` (the account in its key), its `acct` (the
account of its session) and `old`, the age of its numbers since Cost Explorer
gave them. Actions follow the handler: `TagFromList` / `ResolveTag` /
`KeepChoices` are `_account_tag` over `get_profile_choices`; `Hit` / `Miss` the
`cache_get`; `OpenSession`, `MatrixCached` / `Fetch` / `KeepMatrix`, `Respond`
and `Fails` the builder, with answers that are not cached (`_no_cache`).
`Repoint` edits the profile and `Tick` ages everything.

Abstracted: one profile and one period; the forecast is either present or the
reason why an answer is not cached; one matrix stands for those of a view. The
`cost.py` arithmetic (comparison windows, deltas, usage-type buckets) is not in
the model. No CUR warehouse is configured, so that matrices come from Cost Explorer.

### Attribution

State: `phase` is where the calling thread is; `bill` what AWS bills in the
window, of which the program sees `totals` (`ce_total_by_service`, empty when
the call fails) and, if a second call succeeds, the regional figures (`scoped`);
`at` is the state of each work unit, `instances` and `holder` are
`instances_by_region` and its locks; `raw` are the buckets as the units fill
them, `cost` the same after reconciliation, `extra` the aggregate and remainder
rows. A bucket is the sum of its rows in cents: scaling multiplies all rows of a
service by one factor, so that the sum says what the program can get wrong.

| Action | Code |
|---|---|
| `GetTotals`, `NoCredentials`, `ScopeTotals` | the two Cost Explorer calls before the fan-out, and the exception between them |
| `Start`, `Look`, `Lock`, `Scan` | the executor, and `_instances_for`: look, lock, look again, scan |
| `Attribute`, `Fail` | the attributor of a unit returns or raises, and the calling thread takes its future |
| `Reconcile` | auto-assigned addresses, then `_reconcile_pools` with `_rescale_rows` (`Rescaled`), the normalisation of split totals (`Normalised`), aggregates and remainders (`OtherRows`) |

Abstracted: what an attributor returns is one of the sums `Prices` allows, or,
for services that split a Cost Explorer total, that total or nothing (nothing
found, or access denied, which attributors swallow). Futures are taken as they
end; the buckets are read only after the last one, so taking one is part of the
unit's last step. Within a region the order of the work list is left open.
Rounding of floats is not modelled: amounts are integers and a scaled sum is the
amount it is scaled to. `_MAX_WORKERS` is a parameter. The order of the rows
and `top_n`, which no caller passes, are left out.

### DashboardData

State: `want` is the key a hook's render asks for and `due` whether its effect
has yet to run; `load` is the load of `inFlight.current`, with the cache entry
`getJson` captured before its first `await`; `late` the aborted loads that are
not over; `view` the hook's state; `store` the `acu:swr:` entries of
`localStorage`; `meter` the total of `ceMeter`, `reset` what clicks cleared
from it and `spent`, a history variable, what the server was made to pay.

| Action | Code |
|---|---|
| `Ask`, `Reload`, `Unmount`, `RunEffect` | a render with other dependencies, `setTick`, the cleanup, and the effect of `useAsyncData` with the synchronous start of `getJson` |
| `FreshHit`, `Answered`, `Failed` | the load in flight resolves from the cache, is answered, or fails (and falls back to the captured entry) |
| `LateEnds` | an aborted load settles: ignored |
| `WriteSwr`, `AfterRead`, `Oldest`, `PageLoad` | `writeSwr` with its size cap, quota and eviction; `readSwr`'s removal; `evictOldest`; `sweepStale` at load |
| `OtherTab`, `ResetMeter`, `Tick` | another tab's write or eviction; the badge's click; time |

Abstracted: a payload is the key it answers, when it was made and its kind;
money is counted in calls; whether the quota is met is open at every write. The
clock does not step back. A request is open for at most `MaxRequest`, which is
the browser's (no timeout in the code). Keys do not interact but at the quota.

### AppShell and DashboardPages

`AppShell` has the state of `App`: `ui`; the history `hist` with the entry `at`;
`saved`; and `pending`, whose effects are still to run. React 18 commits the
update of a click, a select or a `popstate` at once with its effects, those of
an update made in an effect later; so `Commit` is a step with its effects, and
only the mount (`"first"`) and the snap (`"snap"`) leave some pending. `UrlEffect`
is the push-or-replace effect, `Pop` the listener, `Snap` the effect on the context.

`DashboardPages` adds the hooks: `ran` is what each depends on and was last
started with, `busy` those that load, `view` what they have. Here a load is one
variable, where `DashboardData` has aborts, late answers and a cache: a hook is
taken to show the outcome of its last load and of no other. `AsyncData` states
that once, and both modules implement it, so that the pages assume no more of a
hook than what the data layer is proved to keep; so does the hook of `ResourcesPage`,
step by step (its `Init` is the page with its load begun, that of `AsyncData`
a hook not mounted yet). `PagesCommit` says which hooks a commit
unmounts, starts and keeps.

| Action | Code |
|---|---|
| `Navigate`, `PickProfile`, `PickPeriod`, `Travel`, `Reload`, `FlushEffects`, `SnapToOffer` | rail and sheet, the two selects (announcing), Back and Forward, a reload of the tab, effects that wait, the snap; each with `PagesCommit` |
| `Answer`, `AnswerError`, `AnswerStale`, `AnswerFails`, `AnswerWarming` | the ends of a load, and the cue that follows when it was the last |
| `Poll`, `Retry`, `OpenRow` | the warming timer, the banners' buttons, `setCompNeeded` |
| `ExportStart`, `ExportEnds` | `runExport`, which survives its page |

`Panels` names each place on a page that renders something of a hook, banners
included, with the hooks it `waits` for: `Guarded` panels show nothing while
their hook loads, `Bare` ones do not ask. `Hidden` is what a loading or failing
hook takes off the screen, `Tells` whether a panel has anything to say of the
payload there is (the stale banner, say, only of a stale one). Where a bare
panel can show the profile just left, `AskNothing` names it; where a failed load
leaves figures standing, `OutliveFailure` does. `FiguresUnderOwnName` says that
there are no others. Abstracted: figures are the profile and period they were asked
for; the rendering itself; the sheet's and the rail's own open and closed;
`composition` before a row is open, which resolves to nothing without a request.
The findings, counts and errors of an audit are taken to be in its answer, as
the page reads them (see section 5 for what the endpoint sends).

### ResourcesPage

State: `service` (the chip), `debounced` and `timer`, `limit`, `visible`, the
answer `data`, the load in flight. `Select`, `DebounceFires`, `ShowMore`,
`LoadMore`, `Retry` (of the error and of the warnings banner) and `Switch`
(another profile or period) are the handlers;
`Rows` is the server's `_apply_row_cap`. Abstracted: an answer is what was asked
and how many rows it brought of how many. `loadedMore` is a history variable.

## 3. The runs

| Run | Instance | Shows |
|---|---|---|
| `sqlite_cache` | 2 threads, 2 keys (one with a stale window, one without), sweep every 2 writes, clock to 2, 1 failure; restarts unlimited | types; `LiveRowNeverLost`; the refinement `KeepsPromise` onto `TtlCache`; `DeadRowsReclaimed` |
| `refresh_pool` | 4 jobs, 4 keys, cap 3, 2 workers, shutdown | `OneRefreshPerKey`, `BooksBalance`, `CapRespected`, `KeysReleased` |
| `resources_api` | 2 keys, 1 request, 1 job, cap 1, 1 worker, 2 agings | `OneFlightPays`; `WarmingEnds`, `RequestsAnswered` with more keys than slots |
| `resources_errors` | violation | `ErrorsNeverCached`, finding 1 |
| `cost_store` | 3 threads that share a store and 1 with its own, 6 locks, 2 failures, 2 fetches forgotten | `FetchesBounded` |
| `cost_routes` | 2 requests, 2 accounts, TTLs 2 and 1, requests of up to 1 tick, 2 repoints | `NumbersAgeBound`; `LeftAccountFadesOut` |
| `attribution` | 2 regions, EC2, EBS, NAT gateways, addresses, 2 workers, 1 bill, which may also be unreadable | types; `NothingVanishes`, `NothingCountedTwice`, `PartialKeepsPrices`, `OneScanPerRegion`, `EnumerationEnds` |
| `attribution_split` | violation; 2 regions, Lambda and ECR | `SplitsWithinBill`, finding 2 |
| `dashboard_data` | 1 hook, 3 keys (one too large to keep), lifetimes 1 and 2, clock to 4, 3 moves, 2 failures | types; `LatestLoadWins`, `MeterNeverOvercounts`, `ServedAgeBound`; the refinement `KeepsHookPromise` onto `AsyncData`; `LoadsEnd` |
| `dashboard_pages` | 5 pages, 8 hooks, 2 profiles of which 1 is offered, 2 periods, 3 ways to open the app, 2 moves, 1 failure, 1 placeholder | types; `UrlTellsState`, `BackNavigatesPages`, `FiguresUnderOwnName`; the refinement `HooksAreAsync` onto `AsyncData`; `StateSnaps`, `PageSettles`, `WarmingEnds` |
| `dashboard_cues` | violation; the same with 1 move and no failure | `WorkingCueEnds`, finding 3 |
| `resources_page` | 2 accounts, 3 chips, limit 2, page 1, cap 3, 8 moves, 2 failures | `ListIsOfItsFilter`, `LoadMoreBringsRows`, `NewFilterStartsSmall`, `FilterArrives` |

### Why the bounds are enough

* `SqliteCache`. Every race here is of two actors on one key (a reader or a
  sweep against a writer); the second key shows that sweeps and lazy deletes
  leave others alone and has no stale window. With lifetimes of 1 + 1 ticks at
  most and a clock that runs to 2, rows are seen fresh, stale, dead and
  replaced, and a timestamp can be a whole lifetime old when its write lands. `SweepEvery = 2`
  makes every second write sweep. `MaxFailures` bounds the failed statements;
  safety is also proved without the bound.
* `RefreshPool`. The cap is below the number of keys, so that refreshes are
  shed, and above that of workers, so that jobs queue.
* `ResourcesApi`. A request and a job are the two cold payers a flight can
  have; the job waits in the one worker for the request's lock. One slot for two
  keys, so that `Schedule` is shed again and again. `MaxAgings = 2` lets one
  entry go from fresh to gone, or each of two be cleared.
* `CostStore`. Three sharers: a failing fetcher, which comes back as the
  newcomer, and two queued on the dropped lock or on its successor; and a thread
  whose store is its own. Two fetches may be forgotten while somebody is inside:
  a cache clear meets threads queued on a dropped lock, more than once. The bound
  is reached: with one fetch less it is violated. The number of locks that can be in use at once is that
  of the threads and of the listed ones.
* `CostRoutes`. `LongAgo` is where `left` stops counting; it has to be above
  the bound it is compared with, which an `ASSUME` states. Lifetimes of 2 and 1
  ticks make an answer outlive the matrix it was built from; the reverse order
  is covered by the proof, where they are arbitrary.
* `Attribution`. Two regions with two scanners each, and two workers, let units
  of one region, or of both, race and wait. Volumes are priced at 20 cents a
  region and gateways at 60, and together billed at 110: two gateways cost more
  than the pool, one leaves 50 that the volumes are scaled up or down to, and
  without one the volumes of a region are out of the band of 5 and those of two
  are in it. When the first call fails all totals are 0.
  Addresses cost less than the VPC bill or more. RDS, ELB, Lambda,
  DynamoDB and the services without a pool go through the same
  operators; the proof covers them.
* `DashboardData`. Hooks share only the storage and the meter, and what another
  hook does to either another tab does too, so one hook is followed; its loads
  meet each other in `late`. Three moves are a load, its successor and a reload,
  a click or another tab in between; the clock outlives an entry's fresh and
  stale windows. The theorems cover any number of hooks.
* `DashboardPages`. Two moves after a mount that already has pending effects and
  a snap: a change of page and a Back, a dropdown and a Retry, a chosen period
  while a failed load's banner is up. The hooks left out (`services`, `budgets`)
  load as `summary` and `audit` do; their panels, which the theorem `FiguresNamed`
  covers with all others, are shown in the instance only if `Followed` has them
  in place of `trend`. A failure and a placeholder are enough for the poll to
  fail once and go on, and for every panel of `AskNothing` and `OutliveFailure`
  to be seen, in one instance or the other, with figures that are not its
  caption's; only a banner that outlives a failure takes two of them.
* `ResourcesPage`. One account has more rows than the cap, one chip less than
  the first limit, one more; eight moves reach the cap and come back.

The runs of `Attribution` and of the dashboard are not checked for deadlock: a
fan-out ends, and a page whose user has left it alone is at rest.
`EnumerationEnds`, `LoadsEnd` and `PageSettles` say that they end where they should.
Symmetry is used in runs of invariants only. Two runs are checked for deadlock in a
meaningful way: `cost_store`, where a thread that returned without leaving its
lock would block the others, and `resources_api`.

### Fairness

* *Threads* (`WF` on `Progress`, `PoolStep`, `RequestStep`, `JobStep`, `UnitStep`, `Caller`): the
  operating system schedules a thread that can run, and every AWS call has a
  timeout, so that builds end.
* *Locks* (`SF` on `Acquire`): a lock that is free again and again is obtained
  in the end. `threading.Lock` promises no order; strong fairness is the weakest
  assumption under which a queued thread gets anywhere.
* *Polling* (`SF` on `Poll`): while the answer says `warming`, `App.jsx` asks for
  `/top/data` again every three seconds. Strong, because request threads can be
  busy for a while.
* *Writes* (`SF` on `WriteSomething`): the sweep only runs in a write. A
  dashboard in use writes.

* *The browser* (`WF` on `RunEffect`, `FlushEffects`, `SnapToOffer`, `Poll`,
  `DebounceFires`, `LoadEnds`, `Answer`, `Answered`, `ExportEnds`): React runs
  the effects it has scheduled, timers fire, and a request ends, if only by the
  network's failure. In `DashboardPages` and `ResourcesPage` failures and
  placeholders are finitely many, so that some load in flight is answered with
  figures in the end. The user owes nothing.

Nothing is assumed of arrivals of other requests, failures, expiry, clearing or
shutdown. Bounded failures and agings matter to liveness: with errors or expiry
at every attempt no poll could end.

Two remarks on what the liveness properties say. `DeadRowsReclaimed` is about a
process that stays up: the count of writes is in memory and nothing is swept at
start-up, so a series of sessions with fewer than 200 writes each never sweeps.
And `WarmingEnds` holds *because* a refresh job caches an error too (finding 1):
with errors kept out of the cache, a profile whose scan always fails would be
polled for ever. Whoever repairs the first must think of the second; the mutant
`JobPublishOk` is that repair, and `WarmingEnds` fails under it.

## 4. What is proved

All safety properties of the passing runs, and their three refinements, are
theorems of the specification, for all values of the constants: any number of
threads, keys, jobs, requests and hooks, any lifetimes, caps and thresholds, any
profiles, periods and addresses to open the app at. The types of `CostStore`,
`ResourcesApi`, `CostRoutes` and `ResourcesPage` are proved and not listed in a run. The
assumptions are the named `ASSUME`s of the modules, which TLC evaluates in every
run; they say that constants have their types, that "absent" values are not
members of what they are absent from, and that sets whose cardinality is counted
are finite.

| Module | Theorems | Argument |
|---|---|---|
| `SqliteCacheProofs` | `TypeCorrect`, `LiveRowsSurvive`, `CacheRefinesStore` | An invariant on the locals: a row in `pending`, `seen` or the table was stamped in the past and carries its key's lifetimes, `cutoff` is in the past, and a reader about to delete has seen a row that is dead. So a row equal in timestamp to what was judged dead is dead itself, and a row dead at `cutoff` is dead now. Each action is then a step of `TtlCache` or leaves the mapped variables alone: sweeps and lazy deletes map to stutters, `CommitSet` of an expired row to a `Put` that lands dead, `Tick` to the clock's removal of what expires. |
| `ResourcesApiProofs`, the pool | `PoolTypeCorrect`, `RefreshDeduplicated`, `NothingLeaks`, `CapHolds` | The three properties are one inductive invariant together with the queue's: the queue lists the queued jobs, each once. Giving a key back removes exactly the jobs' key because no other active job holds it. |
| `ResourcesApiProofs`, the endpoints | `WebTypeCorrect`, `ServerRefreshesOnce`, `ColdFlightPaysOnce` | Every action is a `PoolNext` step or leaves the pool alone (`PoolSteps`), so that the pool's invariant is one of the server and need not be proved again. For the flight: whoever is between `check` and `unlock` is the holder of its key's lock, and a job in the flight is running, so its key does not change. |
| `CostStoreProofs` | `CostTypeCorrect`, `FlightsPayOnce` | A budget. While the matrix is missing, further fetches need a *credit*: a lock in use that nobody is fetching under, a store with no lock listed, or a thread about to empty the table (`Credit`). `Covered` says that what has been fetched plus the credits that are left never exceeds one per store and two per fetch that has ended (`Ended`: failed, kept or forgotten). A fetch spends a credit; listing a lock or dropping one only moves them; the end of a fetch makes two, one for its lock, on which others may be queued, and one for the place it is about to empty. A fetch starts only while the matrix is missing, and then no fetch is kept (`KeptIfWarm`), so that those that have ended have failed or been forgotten: that turns `Covered` into the property. `Forget` leaves the sum as it is or, with nobody inside, starts afresh with the credits of the stores (`IdleCredit`). |
| `CostRoutesProofs` | `CostRoutesTypeCorrect`, `NumbersAreRecent`, `LeftAccountsFade` | Ages are carried from cache to cache: an invariant bounds, in each cache and in each place of a request, the numbers' age by the entry's age plus what its builder had, and the time since the account was left by the entry's age plus the time the builder has been running. |
| `AttributionProofs` | `TypeCorrect`, `NothingVanishesHolds`, `NothingCountedTwiceHolds`, `PartialKeepsPricesHolds`, `OneScanPerRegionHolds`, `SplitTotalsHold` | When the caller is done, every unit has ended and the answer is the reconciliation of all the buckets (`AnswerReconciled`), so the first three are arithmetic on `Reconciled` and `OtherRows`: scaling leaves a pool at its rows or at its bill, and what `OtherRows` adds is nothing or the gap (`OtherRowsFillGap`). For the scans: whoever scans holds the region's lock, and nothing is cached yet (`ScansGuarded`). `SplitTotalsHold` is what is true of the comment that finding 2 refutes: without regional totals, Lambda and DynamoDB come out at their bill or at nothing unless a unit of theirs failed; it needs that a service without a bill has no rows to scale (`RowsBilled`). |
| `DashboardDataProofs` | `TypeCorrect`, `LatestWins`, `MeterHonest`, `AgeBounded`, `HookKeepsPromise` | The invariant adds to `LatestLoadWins` what loads and entries carry: the load in flight is of the key asked for, an entry was stored no later than now and holds figures of its own key made when it was stored, a captured entry was readable when its load began, and that was at most `MaxRequest` ago. So a late answer has nothing to change, and what a failure falls back to is at most `Stale + MaxRequest` old. The refinement maps a hook's load to the key it was started with and what it shows to its key, kind and provenance: an effect is a `Starts`, an end an `Ends` with one of the `Outcomes`, and whatever late answers, other tabs, the quota and the clock do is a stutter of every hook. |
| `DashboardPagesProofs`, the shell | `AddressTellsScreen`, `BackLeavesPage`, `BackUndoesNavigation`, `DropdownsAddNoEntry`, `ReloadKeepsScreen` | The pages move the shell's variables by its operations only (`ShellStep`), so that its invariant `ShellInv` is shown for those. To "the address tells the screen" it adds what holds while effects are pending: every entry but the first of a fresh tab is a state of the app, neighbours differ in their page, and the entry on show names the page even when profile and period are ahead of it. The effect is then taken by cases, push (`UrlPushed`) or replace (`UrlReplaced`). |
| `DashboardPagesProofs`, the hooks | `TypeCorrect`, `FiguresNamed`, `SkeletonsLoad`, `PagesUseHooks` | `PagesInv`: a hook that is not mounted has nothing; once effects have run, a mounted hook was started with the dependencies on screen; what it shows, unless it loads or failed, is what it was started with. For `FiguresNamed` the lists of panels are gone through once (`PanelsNamed`): a panel that does not wait for its hook is in `AskNothing`, and one whose hook may fail without a banner in the page's place is in `OutliveFailure`; every other panel has a hook that is at rest and did not fail, and `PagesInv` says what that shows. In the refinement a commit of the app is a step of several hooks, each of which starts, leaves or stays. |
| `ResourcesPageProofs` | `TypeCorrect`, `ListRight`, `LoadMoreHelps`, `StartsSmall`, `ListUsesHook` | Without an armed timer the debounced chip is the chip; the load in flight, or else the answer, asks for account, debounced chip and limit; an answer has exactly the rows that `Rows` gives it, or is an error's. `LoadMoreHelps` is then arithmetic on the least of limit, cap and total. For `ListUsesHook` a step is a `Starts` if it loads, an `Ends` if it answers or fails, and otherwise leaves the hook alone. |

None of the properties is inductive by itself: in a state that merely satisfies
`NumbersAgeBound`, say, a cached answer nobody is reading could be of any age,
and the next reader would find it. Each proof module therefore states an `IInv`
(`WebInv` for `ResourcesApi`), shows that the initial states satisfy it and that
every action preserves it, and derives the properties.

Some theorems state what no run lists: `BackUndoesNavigation`,
`DropdownsAddNoEntry` and `ReloadKeepsScreen`, each about a step of the shell
and each excepting an address with a page that does not exist; `SkeletonsLoad`
and `SplitTotalsHold`; `ListUsesHook`; `ServerRefreshesOnce`, which is the pool's properties
carried over to the server. `FollowedAssumption` asks of `DashboardPages` that
the hooks its actions look at are among those an instance follows.

### What is only model-checked

Liveness (`DeadRowsReclaimed`, `KeysReleased`, `WarmingEnds`,
`RequestsAnswered`, `EnumerationEnds`, `LoadsEnd`, `StateSnaps`, `PageSettles`,
`FilterArrives`): temporal reasoning under fairness needs `ENABLED`, which is
out of the prover's reach. The violation runs are counterexamples and need no proof.

## 5. Findings

1. **Refreshes cache errors.** `cold_single_flight` says that "an error result
   is returned but not cached" (`spendslicer/web/deps.py:94`), and every request
   path keeps to it. `_run` of `schedule_refresh` caches any value that is not
   `None` (`deps.py:163`), and the builders return errors as contexts. After
   one failed background scan the error is served as a fresh answer until it
   expires. Run `resources_errors`.
2. **ECR is shown once per region when the regional totals fail.** Without the
   SERVICE x REGION call every region's Lambda, DynamoDB and ECR unit splits
   the account's whole total, which "the post-fan-out normalization reconciles"
   (`spendslicer/resources/runner.py:572`); that loop (`runner.py:294`) handles
   Lambda and DynamoDB only, and skips them when one of their regions failed.
   ECR's rows come to its bill times the number of regions with repositories. Run
   `attribution_split`; what holds of the comment is the theorem `SplitTotalsHold`.
3. **The Audit page re-reads the board for ever.** A chosen period announces
   "Period changed: Re-reading the board" (`frontend/src/App.jsx:237`), a cue of
   the kind `frontend/src/lib/cues.js:10` describes as "a fetch is in flight".
   The Audit page's hooks and its cue text depend on the profile alone
   (`App.jsx:1010`), so that nothing is fetched and nothing announces an
   outcome. Run `dashboard_cues`.

### Seen while modelling

On the server:

* "N simultaneous missers trigger ONE paginated CE call instead of N"
  (`spendslicer/aws/cost_store.py:99`) needs one lock table; `get_cost_source`
  (`deps.py:430`) makes a new `CostStore` per request, so that requests that
  miss together pay one each. `FetchesBounded` counts one fetch per store object.
* Even with one table, a cache clear at the wrong moment costs a fetch more
  without any failure: the lock is popped before it is released
  (`cost_store.py:189`), and a thread queued on it and a newcomer with a lock of
  its own then both miss. `FetchesBounded` has a price for such fetches.
* `_account_tag` says of a repointed profile that "its stale cached numbers must
  not be served as the new account's" (`spendslicer/web/routes/cost.py:53`), but
  reads the account from a list cached for 30 minutes. `LeftAccountFadesOut`
  bounds the effect: one lifetime of an answer and one request.
* The comment at `runner.py:344` says that for *any* enumerated service "the
  difference used to vanish" and is now surfaced; ElastiCache, Secrets Manager,
  ECR, EFS, CloudFront and Route 53 are enumerated but have no entry in
  `_REMAINDER_POOLS`, so their gap still vanishes. And when the scan of NAT
  gateways fails, or is denied, the volumes are scaled to the whole shared pool:
  the total stays right, the rows do not.
* The cost routes and `CostStore` read with `cache_get`, which serves fresh
  entries only. The stale window, stored with every entry, is used by the
  resource endpoints alone.

In the browser:

* "The UI never hides that" it costs money (`components/CostBadge.jsx:6`): calls
  made for aborted or failed loads, for exports and by background refreshes are
  on no meter. `MeterNeverOvercounts` is the direction that holds.
* Much of what a page says is rendered without asking whether its hook is
  loading, and is that of the old profile or period under the new caption until
  the answer comes: cost basis, delta, the ink of the drift, the note of the
  cross-check, the line of peak and average, the subtitle and mark of top
  resources; reconciliation, warnings and filter chips of the resources page;
  regions scanned and not scanned on the Audit page; the banners for a backend
  error or stale figures. `AskNothing` lists them, as the first exception of
  `FiguresUnderOwnName`.
* A failed request for services or trend (no answer, rather than an answer with
  an error) and any failure of a service's composition have no banner, and
  `useAsyncData` keeps the data it had (`hooks/useAsyncData.js:43`): once another
  profile is chosen and that load fails, departures, service mix, trend and
  composition stand under the new caption with the old profile's figures, and
  stay. `Banner.jsx` promises of itself that it "keeps failure states visible"
  (`components/Banner.jsx:3`). Budgets keep theirs too, under a banner. These are
  `OutliveFailure`, the second exception.
* The Audit page reads `summary.estimated_waste_usd_monthly`,
  `summary.regions_scanned` and `errors` (`App.jsx:1026`, `1049`, `1150`), which
  `/api/audit/summary/data` does not send (`web/routes/audit_api.py:26`): its
  waste is always $0.00, its regions 0, and the line of regions not scanned never
  appears. The panels are modelled as the page has them.
* A poll aborts a load that takes longer than three seconds and starts it again;
  answers need to be faster than that for the placeholder to go.
* "Board current" may be announced for the new profile while its loads are only
  starting, and "Export ready" replaces a page's fault.
* The export page can be left and entered again while a download runs, which
  offers a second one.
* An address with a page that does not exist makes the first dropdown push an
  entry instead of replacing it.
* Above the server's cap of 2 000 rows "Load more" stays and brings nothing
  (`LoadMoreBringsRows` has the cap as its exception). A limit that was raised
  survives a change of profile; a chip pressed with a raised limit reloads the
  old filter once; "Load more" pressed within the 300 ms of the debounce makes
  the new filter start large; and in that time the row of unattributed charges
  goes by the new chip.
* A clock that steps back keeps entries fresh for as long as it stepped.

## 6. Not modelled

* *CUR warehouse*: the ingest loop, its manifest and the shared DuckDB
  connection. What a query returns while a file is replaced, and what
  `execute` and `fetch` of two threads give on one connection, is DuckDB's to
  say and not this repository's; the hazards are listed in `PROJECT.json`.
* *Pricing, time windows, filters, groupings, audit checks, per-service
  attributors*: arithmetic and conditions on AWS inventories and dates, without
  shared state but for a rate cache. `Attribution` takes their amounts as given.
* *Call counter, exports*: one counter per request and a directory of files;
  listed with their hazards, not modelled. `DashboardData` takes the counter's
  header as it comes, a malformed one included.
* *Rendering*: charts, formats, animation, copy buttons, the sheet of narrow
  screens, the error boundary. The token of `auth.js` is a header of every request.
* *Landing page, Terraform, packaging, CLI, launcher*: a static demo, output and
  wiring of what is modelled elsewhere.
* *Boto3 clients, pagination, STS, AWS profile files*: external; the models use
  what they return.
* `bust` with a prefix, `bustSwr`, `runExport` of `api.js` and
  `get_matrix(force=True)` have no caller.

## 7. Order of the work, and what is left

In the order of importance to what the program pays and shows: `SqliteCache`,
`RefreshPool`, `ResourcesApi`, `CostStore`, `CostRoutes`, `Attribution`, then the
browser: `DashboardData`, `AppShell` with `DashboardPages`, `ResourcesPage`.

What would come next: the CUR ingest loop against an abstract set of billed
partitions; the call counter across request threads, nested workers and
background jobs; the report cache and same-second names of exports; the
re-stamping of resource entries by late refreshes, bounded in the style of
`CostRoutes`. Of the proofs: bounds on the liveness properties, such as a
variant that every admitted refresh decreases, which would say without fairness
what `WarmingEnds` says with it.
