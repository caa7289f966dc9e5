# Topographer: TLA+ models and proofs

Topographer answers where an IP address is. It asks several providers at once
(offline databases that it downloads and keeps up to date, and online services
behind a guarded HTTP client), takes a vote on their answers and returns the
verdict through a Go library (`topolib`) and an HTTP server.

The code that is hard to get right is the code that runs concurrently or has to
survive failures: the circuit breaker with its two timers, the updater that
replaces databases on the disk under a running process, and the lookup path with
its worker pool, channels, wait groups and a shutdown that may come at any time,
the downloads that pass data and errors between goroutines, the database handles
that are replaced under running lookups, and the program's own start and end.
This directory models that code in TLA+, checks it with TLC on small instances
and proves the central safety results with TLAPS for every instance.

## Inventory

| Component | State it keeps | Operations | Interacts with | Correct when |
|---|---|---|---|---|
| Circuit breaker (`topolib/circuit_breaker.go`) | state, failure count, half-open attempt, two timers, a channel as a mutex | `Do`, callbacks `tryHalfOpen`, `resetFailures` | every HTTP request of a provider; contexts of requests | an opened breaker is always tried again, one trial decides, late requests and late timers do no harm |
| HTTP client (`http_client.go`) | limiter, breaker | `Do` | breaker, net/http, provider lookups and downloads | failures reach the breaker, bodies are closed, the rate is kept |
| fsDir (`fs.go`) | target and temporary directories on the disk | `TempDir`, `GetTargetDir`, `Cleanup`, `Promote` | fsUpdater | a restart finds a complete database |
| fsUpdater (`fs_updater.go`) | context, the goroutine of updates | `Start`, `runBgUpdate`, `doUpdate`, `Shutdown` | fsDir, provider's `Open`/`Download`/`Shutdown`, UsageStats, logger | the served database survives failed updates and crashes, the goroutine ends |
| Offline providers (`maxminddb_base.go`, `maxmind_lite.go`, `dbip_lite.go`, `ip2location.go`, `software77.go`) | handle under an RWMutex | `Open`, `Lookup`, `Download`, `Shutdown` | fsUpdater, HTTP client | a lookup never uses a closed handle; a download that succeeds is complete |
| Topographer (`topographer.go`, `pool_group_request.go`) | providers, worker pool, rwmutex, closed flag | `NewTopographer`, `Resolve`, `ResolveAll`, `Shutdown` | HTTP handler, pool, providers | every request returns complete results, nothing outlives it, shutdown waits |
| Vote (`resolveIPMerge`) | maps of groups and counters | one pass per IP | Topographer | most popular country, most popular city in it |
| UsageStats (`usage_stats.go`) | four fields under a mutex | `notifyUsed`, `notifyUpdated`, `MarshalJSON`, getters | lookups, updater, HTTP handler | counters agree with lookups |
| Caching providers (`caching_providers.go`) | TTL cache | `Lookup` | providers, updates | a stale answer lives for one TTL at most |
| HTTP handler (`http_handler_*.go`, `http.go`, `errors.go`) | none | GET, POST | Topographer | status and body follow from the outcome |
| Online providers (`ip2c.go`, `ipinfo.go`, `ipstack.go`) | none | `Lookup` | HTTP client | errors of the service are errors |
| Country codes (`country_codes.go`) | two tables | conversions | all providers | the conversions are inverse |
| Program (`main.go`, `utils.go`, `config.go`, `middleware_basic_auth.go`) | configuration, root context | parse, make providers, serve, signal, stop | all | it starts with what was configured or not at all, and ends after a signal when its requests are answered |

Hard behaviours: timers whose callbacks are goroutines that cannot be called
back; two atomics that are stored one after the other; a channel used as a
mutex that requests may stop waiting for; directories that are removed file by
file; crashes between any two steps; contexts that are done while tasks are
queued, running or sending; a pool at its limit while a writer waits for the
read-write mutex. `PROJECT.json` lists them as hazards, each with its line and
the properties that would catch it.

## Modules

| Module | Models | Used by |
|---|---|---|
| `BreakerContract` | what the breaker promises: three phases and a failure count | `CircuitBreaker` (refinement) |
| `CircuitBreaker` | `circuit_breaker.go` | `MCCircuitBreaker`, `HttpClient`, `HttpClientProofs` |
| `HttpClient` | `http_client.go` over `CircuitBreaker` | `MCHttpClient`, `HttpClientProofs` |
| `HttpClientProofs` | theorems about it and about `CircuitBreaker` | |
| `FsDir` | `fs.go`: the directory, its order of modification times, removal in steps | `FsUpdater` |
| `FsUpdater` | `fs_updater.go` over `FsDir`, provider handle, process crashes | `MCFsUpdater`, `FsUpdaterProofs` |
| `FsUpdaterProofs` | theorems about it | |
| `DbHandle` | handle and RWMutex of `maxminddb_base.go`, `ip2location.go`, `software77.go` | `CachingProvider` |
| `CachingProvider` | `caching_providers.go` over `DbHandle` | `MCCachingProvider`, `CachingProviderProofs` |
| `CachingProviderProofs` | theorems about both | |
| `RequestContract` | what a caller of `Resolve`, `ResolveAll` and `Shutdown` sees | `Topographer` (refinement) |
| `Topographer` | `Resolve`, `ResolveAll`, tasks, lookups, `Shutdown` | `MCTopographer`, `Program`, `TopographerProofs` |
| `TopographerProofs` | theorems about it | `ProgramProofs` |
| `Startup` | `config.go`, `makeProviders`, `NewTopographer` | `Program` |
| `UsageStatsContract` | what the counters promise: each use and each report is one step | `Program` (refinement) |
| `Program` | `main.go`, the HTTP handlers and `usage_stats.go` over `Topographer` and `Startup` | `MCProgram`, `ProgramProofs` |
| `ProgramProofs` | theorems about it and about `Startup` | |
| `ResolveMerge` | `resolveIPMerge`, `resolveIPMergeCity` | `MCResolveMerge`, `ResolveMergeProofs` |
| `ResolveMergeProofs` | theorems about it | |
| `MaxmindDownload` | `Download` of `maxmind_lite.go` | `MCDownloads`, `MaxmindDownloadProofs` |
| `MaxmindDownloadProofs` | theorems about it | |
| `Software77Download` | `Download` of `software77.go` | `MCDownloads`, `Software77DownloadProofs` |
| `Software77DownloadProofs` | theorems about it | |
| `MC*` | model values, small sets and symmetry for TLC; `MCDownloads` puts both downloads side by side | the `.cfg` files |

### CircuitBreaker

Variables keep the names of the struct's fields. `pc[c]` is where a caller is in
`Do`: it has read `state` (`callClosed`, `attempt`, or it was `rejected`), its
callback runs (`callClosed`, `callHalf`), it waits for `stateMutexChan`
(`lockClosed`, `lockHalf`), or it is inside `switchState` (`switching`). All that
the mutex protects happens in one step, up to the store of `halfOpenAttempts`;
`StoreState` is the store of `state`. This is exact: the fast path reads the two
atomics only, so nobody can see a difference between the other assignments.
`Effective` is the state as the mutex holder leaves it, and the refinement
mapping to `BreakerContract`.

A timer reference is `nil`, `armed` or `fired`. `pending` counts callbacks that
have started and wait for the mutex; a callback of a timer that was stopped too
late is still counted. `MaxPending` bounds how many of one kind wait at once.
A context is done when the client goes away or when the timeout that `httpClient.Do`
puts on each request expires. `failuresCount` is a natural number: it is reset
at each switch and the proof bounds it in closed periods, so that the width of
`uint32` does not matter.

### HttpClient

In `CircuitBreaker` the callback of `Do` is one step with any result. `HttpClient`
gives it the steps of `httpClient.Do`: `RequestEnds` (what `http.Client` returned,
in `reply`), then `LimiterLets` or `LimiterRefuses`, because the code waits for the
rate limiter after the request. `Wait` fails at once when its turn would come after
the deadline of the context, so it may fail in every call that can time out, before
the context is done. `body` follows the response body: closed by the callback,
handed to the caller when the breaker returns (`DoReturns`, `LateTrialReturns`), or
left open until the timeout of the request cancels its context
(`TimeoutClosesBody`). All other steps are the breaker's, so the composition
refines `CircuitBreaker`, which is proved.

### DbHandle and CachingProvider

`DbHandle` has the three forms of a handle, chosen by `kind`: MaxMind (and DB-IP)
reads the new database in with the mutex held, IP2Location before it takes the
mutex, Software77 too, with nothing to close. `sync.RWMutex` is modelled by who has
announced to write (`writer`) and who reads (`using`): a writer that waits keeps
new readers out, and readers that are in end. `Open` is called by the one goroutine
of the updater, `Shutdown` by another one, before, during or after it. Every reader
that is created is a new element of `Databases`, so that a leak, a double use or a
read after the close would show. `fsUpdater.Shutdown` does not wait for an update that
is under way, so `Open` may begin when `Shutdown` is done.

`CachingProvider` is a lookup in front of it: `Hit` or `Miss`, the provider's
`Lookup`, `Store`. ristretto is modelled from its use: a valid item may be missed at
any time, a `Set` may be dropped, and an item is never returned after its time. Time
is a `Tick` that is taken by all clocks at once; `MaxDelay` bounds how many ticks lie
between the provider's answer and `SetWithTTL`. An update of the database does not
touch the cache. `main.go` does not use caching providers; they are part of the
library.

### FsDir and FsUpdater

A target directory is named by a hash of its contents, so `target[v]` is the
directory of version `v` of the database: `absent`, `partial` (its files are gone
but the directory is left) or `full`. `older` is the order of modification times,
taken to be strict. `os.RemoveAll` is two steps per target directory, and
unlinking its files makes it the last modified one. Temporary directories are the
one of the running update and those of dead processes.

`Start` chooses the directory that was modified first, removes the others entry
by entry and opens it; if that fails it removes everything. It gives up when the base
directory cannot be read (`StartCannotRead`) or a removal fails. (The comment on
`FsTargetDirPrefix`, `fs.go:21`, says that among many target directories "a random one"
is used; the code takes the first modified one, and `RestartFindsDatabase` and
`LastDatabaseIsKept` rest on that.) `runBgUpdate` waits
(`timer`, then `ticker`) or updates at once. `doUpdate` is one action per call:
`TempDir`, `Download`, `Promote`, `Open`, `Cleanup`, `notifyUpdated`, and the
deferred removal. A download may bring any version, the one that is served too.
`ProcessEnds` is a crash, or the exit, at any point; `Start` follows. `Shutdown`
is two actions, the cancellation and the provider's own, which run in another
goroutine than `doUpdate`. `os.RemoveAll` may fail half-way wherever it is called;
`removalFailed` remembers that one has, in any process so far, and the safety
properties say what holds until then.

### Topographer

`Resolve` and `ResolveAll` are one process each (`pc`), with a task per IP
(`worker`), and a goroutine per task and provider (`lookup`). The channel of
`Resolve` is unbuffered, so its result is handed over in one step; the one of
`ResolveAll` has room for all results. Each `select` with a context is a choice
between the two ready cases. `rwmutex` is kept by who is in the region between
`RLock` and the return; a pending writer keeps new readers out, as Go's does.
The pool has `PoolSize` workers and `Invoke` waits for a free one. Its error path
(a released pool) is left out, because `NothingAfterShutdown` shows that `Invoke`
is never called then. `Shutdown` is modelled once: `closeOnce` makes a second
call a no-op. A lookup with an error and one with an answer both yield a detail
and are not told apart here. IPs in a batch and names in a query are distinct.

`RequestContract` is the same service as its callers see it: a call is refused, or let
in and later answered in one step, with a detail of each provider for each IP unless
its context is done; `Shutdown` lets nobody else in and takes effect when everybody is
answered. The mapping hides workers, channels, wait groups and the mutex: a call is
`asked` from `RLock` to its return, its answer is what it has collected by then, and the
service is `closing` while `Shutdown` waits for the mutex.

### Startup and Program

`Startup` is `mainFunc` up to the listener. A configuration is a sequence of at most
`MaxEntries` entries, any there can be: of a kind that is online, offline, offline
with a license key or unknown; with a directory in one of two spellings or none;
with or without the key; with a duration that cannot be parsed in one of the fields
or in none. `json.Marshal` sorts the fields of the parsed file and
`json.Unmarshal` stops at the first such duration, so what is left of the list is
its beginning, with an entry that has the fields before that duration (`Decoded`).
`parseConfig` ignores the error. Then the providers are made and their updaters are
started one by one, each of which may fail.

`Program` composes it with `Topographer`. Each request is a call of the handler: a
request of any of the kinds the code tells apart is refused with the status of its
kind, becomes a `Resolve` (GET) or a `ResolveAll` (POST), or asks for the
statistics. A provider's result is an error, a country, or a country and a city,
because `ResolveResult.OK` wants both; where several providers disagree, `MayBeOK`
and `MayBeNotOK` allow either outcome of the vote. The critical sections of
`UsageStats` are two steps each, so that a missing mutex would show; mapped to
`UsageStatsContract` (a lookup counts when its `notifyUsed` has unlocked, a report when
it has read) they are one step each. A signal ends the
root context; the goroutine of `main` then calls `srv.Shutdown`, which returns when
the last handler has. `net/http`, the listener and signals are modelled from how
`main` uses them. `main` never calls `Topographer.Shutdown`, so those steps do not
occur.

### ResolveMerge

One action per round of each loop. The loops over maps choose any entry that was
not visited, the loops over slices run in order. The order of the input stands
for the order in which lookups ended. Countries, cities and the double metaphone
code are constants: `Sound` is any function from city names to codes.

### MaxmindDownload and Software77Download

Each module is one call of `Download`, which `FsUpdater` knows only as an action
that brings some version or fails.

In `MaxmindDownload` the body of the response is `Chunks` writes to the pipe. A
write waits (`pc = "write"`) until the copier has read the chunk, the copier then
writes it to the archive file. `sent` counts what was hashed and `written` what is
in the file. The body may be of another release than the checksum page (`right` is
false, and it may have any length). Requests, the body and writes to the disk fail
at any point. The removal of the archive may fail, too: the code ignores its error,
and the archive then stays beside the database. After an error the
copier may be left waiting at `errChan` for ever: the state is in the model, and no
property forbids it, because the code does not promise it.

In `Software77Download` the two goroutines are `csvPc["ipv4"]` and `csvPc["ipv6"]`, with
one action per step of `downloadCsv`. `Fails` is the error branch of any step (the
call of `ctxCancel`), `Report` the send and the end of the goroutine. An error is
`own`, or `cancelled` when it can only say that the context is done.

`MCDownloads` runs both side by side, as the updaters of two providers do; they share
nothing, and the definitions of `Software77Download` that the other module has, too,
carry the prefix `Csv`.

## Runs

| Run | Instance | Result |
|---|---|---|
| `ClientSafety` | 3 callers, 1 of which may time out, threshold 1, 2 late callbacks per timer | types and mutual exclusion, `TimersMatchState`, `BodiesAreClosed`, `BreakerFollowsTarget`, refinement of the contract |
| `ClientLiveness` | 2 callers, no cancellation, threshold 1 | an opened breaker is left, the attempt is never lost, a trial ends, failures are forgotten |
| `BreakerTrialCancelled` | 2 cancellable callers, threshold 0 | violated: the breaker is half opened for ever |
| `Fs` | 3 versions, crashes, failing removals | until a removal fails the five safety properties of the updater, `LastDatabaseIsKept` an action property; the goroutine ends after Shutdown, updates go on |
| `Offline` | 2 lookups of an IP, 2 databases, a TTL of 2 ticks, a delay of 1, all kinds of handle | no lookup reads a closed database, there is a database until Shutdown, a cached answer is stale for TTL and delay at most; lookups, `Open` and `Shutdown` return |
| `OfflineOpenAfterShutdown` | the same instance | violated: an `Open` after `Shutdown` leaves a reader open |
| `Topo` | `Resolve` and a batch of 2, both cancellable, 2 providers (1 offline), pool of 2 | the safety properties of requests and shutdown, refinement of `RequestContract`; requests and `Shutdown` return unless a `Resolve` was cancelled |
| `TopoResolveHangs` | a cancellable `Resolve` | violated: it may never return |
| `Program` | any configuration of up to 2 providers, a cancellable GET and a POST of 2 IPs, 1 provider to resolve with, pool of 2 | start, status, exit, statistics that refine `UsageStatsContract`; a signal ends the program unless a cancelled `Resolve` hangs |
| `Downloads` | a MaxMind archive of 4 chunks and the two files of Software77, at the same time | MaxMind: what is extracted was verified; `Download` returns unless the archive file cannot be written. Software77: when `Download` returns both goroutines have ended and nil means verified, errors have causes, and it does return |
| `MaxmindDiskFull` | an archive of 2 chunks | violated: `Download` may never return |
| `Merge` | up to 4 details, 2 countries, 3 city names of 2 sounds | the vote |

Why the bounds are enough. The breaker's hazards need a caller inside
`switchState`, one on the fast path and one that is late: three callers; a
callback that is stale and one that is current: `MaxPending = 2`; one failure
that is tolerated and one that is not: a threshold of 1. One caller that may
time out is enough, as each call ends on its own and the other two meet what it left
behind. The updater's need the served version, a new one and what an interrupted removal left: three versions.
The request path needs one request of each kind, more tasks (three) than workers
with two of them at work at once, and two providers so that one lookup may be
dropped while another is kept. An archive of four chunks has a first, a last and
two others, while at most two are between hash and file; Software77 has no bound.
A handle needs the installed database and its successor, and two lookups so that one
may be reading while the other waits behind the writer; a TTL of 2 and a delay of 1
tell the bound of `StaleForOneTTL` from both of its parts. Two entries of a
configuration have every pair that could collide, and one that comes after a broken
one; the lookups of the program's two requests meet at one provider's counters, with
a third one that reads them. A vote of four details has a
clear winner, a tie, and a winner in spite of three groups (the third are the
details without a country).

Deadlock checking is off where the system may stop: a cancelled `Resolve` may hang
(`Topo`, and `TopoResolveHangs` shows it as a violation; `Program` ends, too),
and a `Download` is over when it has returned (`Downloads`, `MaxmindDiskFull`). That it does
return is checked as a property there.

Symmetry is used for the two callers without a timeout in `ClientSafety`, which
checks safety only (the refinement included).

The type invariants that are checked (breaker, Topographer) say more than types: who
is in `switchState` holds the mutex, and a wait group counts the tasks under way. The
others serve the proofs.

Each property of a passing run has a mutant in `PROJECT.json`: a plausible slip
in one mapped definition (an operator that stands before it in the module) under
which TLC finds the property violated.

## Fairness

* Breaker: timers that are armed fire; the callback of `Do` returns, because
  requests end (an HTTP client has a timeout) and so does the wait for the limiter;
  who waits for `stateMutexChan` gets it although others take it in between (strong
  fairness), because Go serves senders that
  wait on a channel in the order of their arrival. Callers need not start
  requests, and contexts need not be done.
* Updater: weak fairness of the goroutine as a whole (its timers fire, a download
  ends; `MaxmindDiskFull` shows the one case where it does not). `select` chooses at random among the ready cases, so it does not choose
  the ticker for ever over a context that is done (strong fairness).
* Topographer: every goroutine that can go on does, every lookup returns. No
  fairness between the two cases of a `select` is assumed, so that a result may
  always be dropped when the context is done; requests and cancellations need not
  come.
* Handle and cache: reading a database ends. A lookup or a writer that waits for the
  RWMutex gets it although others take it in between (strong fairness): when a
  writer unlocks, Go lets all readers in that wait, and a writer waits only for the
  readers that came before it. New lookups and calls of `Open` need not come.
* Program: as long as one of its goroutines can run, one does (weak fairness of
  `Run`). This is enough because no goroutine of this model goes round in circles.
  Requests, clients that go away and signals are not fair, nor does the
  listener have to fail.
* Downloads: every goroutine that can go on does, and a body ends, because the
  HTTP client has a timeout.

## What is proved

TLAPS checks every proof for any constants that satisfy the named assumptions.

* `BreakerTypes`, `NoWakeupIsLost`, `ClosedIsBelowThreshold`: `Spec => []TypeOK`,
  `[]TimersMatchState` and `[]FailuresBelowThreshold`.
  The conjunction is inductive, its parts are not: that a timer which has fired
  has a callback under way holds after a switch only because the timers matched
  the state before, and the types need that a caller is in `switchState` exactly
  while it holds the mutex. `SwitchStateEffect` states once what a switch leaves
  behind, and each action that switches cites it.
* `BreakerImplementsContract`: `Spec => ImplementsContract`, with the mapping
  `phase <- Effective`, `failures <- failuresCount` in closed periods and 0 in
  others. Every critical section is one step of the contract, every other step
  stutters. `FailuresBelowThreshold` is needed: no more than `openThreshold` failures
  are ever tolerated. The contract leaves open whether the last of them opens the
  breaker (the documentation) or the next one does (the code).
* `TrialIsNeverLost`: if `Cancellable = {}` then `Spec => []TrialIsInFlight`. The
  invariant adds that no context is done. The assumption is what
  `BreakerTrialCancelled` shows to be necessary.
* `ClientImplementsBreaker`: `ClientSpec => Spec`. Every step of the client is a step
  of the breaker or leaves it alone, so that all of the above holds of the
  composition.
* `ClientClosesBodies` and `ClientTellsBreaker`: `ClientSpec => []BodiesAreClosed` and
  `[]BreakerFollowsTarget`. `ClientInv` says for each call what its result and its body
  have to do with the reply, and that who switches to `Closed` has no failure and who
  switches to `Opened` has one; that uses mutual exclusion from `BreakerTypes`.
* `UpdaterTypes`, `ServedStaysOnDisk`, `RestartPrefersComplete`, `NothingPilesUp`,
  `LastUpdatedIsServed`: the invariants of `FsUpdater`, for any set of versions.
  The inductive invariant adds what the disk holds at each point of `Start` and
  `doUpdate` (`DiskInv`), that handle and statistics agree (`HandleInv`), and the
  key fact `OrderInv`: a directory that lost its files was modified after every
  complete one, so that the choice of the first modified one avoids it. All of this
  holds until a removal fails (`FullInv`); the types hold after that as well.
* `AtMostTwoDatabases` and `NoDatabaseIsLost`: until a removal fails, there are at most
  two databases on the disk, and (`LastDatabaseIsKept`, an action property) the last
  complete one is removed only when it is the one that `Open` has just refused. Between
  restarts in the middle of a cleanup the choice of `Start` has to be good each time: `GetTargetDir` finds one
  whenever there is one (`GetTargetDirFinds`, which takes that there are two at most),
  a complete one if there is one (`RestartFindsDatabase`), and `ChoiceInv` keeps it
  until it is opened.
* `LookupsReadOpenDatabases`, `HandleStaysReady`, `OpenReaderIsInstalled`: the invariants
  of `DbHandle`, for any lookups and databases. The last one says that while no `Open` is
  under way the installed reader is open and no other, so that the leak that
  `OfflineOpenAfterShutdown` shows is the only one. `LockInv` ties `writer` to where `Open` and
  `Shutdown` are and says that nobody reads while `Open` is inside; `DbInv` says which
  readers are open and that whoever reads has the installed one.
* `MutexIsGivenBack` and `HandleChangesAlone`: whoever keeps others out of the RWMutex can
  take its next step or waits for lookups that can, so that no path of `Open` and
  `Shutdown` leaves it locked; and (an action property) the handle changes only with the
  mutex held and nobody reading. Both follow from `LockInv` and from `CacheInv`'s account
  of where a lookup is.
* `CacheIsStaleForOneTTL`: `StaleForOneTTL` for any `TTL` and `MaxDelay`. The age of a
  database is 0 while it is installed, at most the wait of a lookup that is about to
  store its answer, and age and remaining time of an item together never exceed
  `TTL + MaxDelay` (`CacheInv`).
* `DownloadTypes`, `ExtractsOnlyVerified`: the invariants of `MaxmindDownload`, for any
  `Chunks` above 0. The checksum is that of the response and the file is written by another goroutine, so the invariant counts
  the chunks between them (`sent = written + InPipe + InCopier`) and says that the
  copier reports success only after an end of file.
* `DownloadIsBounded` and `HangsOnlyOnFailedWrite`: `StepsLeft`, a natural number made of
  where both goroutines are and of the chunks before the pipe, in it and in the
  copier's hands, decreases with every step; and while `Download` has not returned, one
  of the goroutines can take a step, unless a write has failed while more of the body
  follows. Together they say what `MaxmindDiskFull` shows to be the only way to hang.
* `NilMeansVerified`, `ErrorsHaveCauses`, `NobodyIsLeftBehind`, `ReturnedFilesAreFinal`,
  `DownloadIsBounded`: the same for `Software77Download`. Its invariant accounts for
  every error, from the step that fails (`Progress`) to the channel, whose length is the
  number of goroutines that have reported one (`Channel`), and for every end of the
  shared context (`Causes`). So the look into the channel misses nothing, a send always
  finds room, and nobody writes after the return.
* `WaitGroupsCount`, `ShutdownIsSafe`, `TasksEndFirst`, `Completeness`: the
  invariants of `Topographer`, for any finite set of requests, any size of a batch, any
  providers and any pool (`RequestsAssumption`, `SizesAssumption`). None is inductive.
  `IInv` adds how far a request is with its IPs, where it is (`Progress`), that exactly
  the tasks before that IP have a worker (`Submitted`), what a worker's lookups are
  while it asks and after (`Asking`), that no worker is left once the channel is closed
  (`Quiet`), that a result is lost only if the context is done (`Answers`), and what
  Shutdown has done while readers are kept out (`Locked`). The central argument is
  `Counting`: a wait group is the cardinality of the set of workers of its request
  (plus one between `Add` and `Invoke`), so that a wait group at 0 means that no worker
  is left; each step adds one element to that set, removes one, or none.
* `TopographerImplementsContract`: `Spec => ImplementsRequestContract`. A call is let in
  where `Begin` takes the read lock and is answered where it returns; that the answer is
  complete is `Completeness`, that it is a partial one otherwise needs that a task's
  details are of providers that were asked (`Asking`). `Shutdown` closes when the mutex
  is locked, where `Readers = {}` is the contract's guard. That nothing else is seen of a
  call is `ResultsAreFinal`: all other steps stutter.
* `CallsNeverDeadlock`: `Spec => []NoDeadlock`. `ENABLED` is out of the prover's reach, so
  the guards are restated (`RequestCanRun`, `TaskCanRun`, `LookupCanRun`,
  `ShutdownCanRun`; TLC found them to agree with `ENABLED` on the instance of `Topo`). A
  call waits for a wait group, whose count names a task of its own (`Counting`), or for
  the pool, which then has a task at work; a task waits for its lookups, or for its
  `Resolve` to receive, which it does unless it was cancelled (`Received`).
* `ResultsAreFinal`: `Spec => [][ReturnedIsFinal]_vars`, an action property that no
  run checks. What a request has returned is not touched again by a goroutine that
  came late; `OkIsEarned` rests on it.
* `MostPopularCountry`, `MostPopularCity`: the vote of `ResolveMerge` for any number of
  details and any order of the maps (`VoteAssumption`). `IInv` has one invariant per
  loop: which details are in their groups, that the best country so far is the best of
  the ones visited, that each counter is the number of voters before `i` and its name
  is the name of one of them, and the same for the best city.
* `ProgramImplementsTopographer`: `ProgramSpec => Spec`, step by step; each theorem
  about `Topographer` holds of the program.
* `NoRequestIsCutOff`, `OkIsEarned`, `NoUseIsLost`, `StartIsComplete`: the
  four invariants of `Program` and `Startup`, for any number of requests and providers and a configuration file of any
  length (`EntriesAssumption`; `HoldersAssumption` says that a request is not a
  lookup, as both may hold a mutex). `PInv` adds to `IInv` where handlers can be
  (`Drained`: none before the server serves, none once `srv.Shutdown` has returned),
  that a lookup returns once and is noted before its detail is sent (`Returns`), that a
  mutex has one holder and its counter does not change behind its back (`Holders`),
  the counters at every moment (`Counts`), a report that is under way (`ReportsAgree`,
  for `StatsAreAtomic`),
  and how far the start is (`Configured`). What is left of the file after decoding is
  its beginning (`UnmarshalParts`), which takes the smallest bad entry
  (well-foundedness of the natural numbers, `SmallestNumber`).

* `StatsAreAtomic`: `ProgramSpec => ImplementsUsageStats`. `NotifyUnlocks` is the contract's
  `Use` because the counter is still what `NotifyLocks` read (`Holders`), `MarshalUnlocks`
  its `Tell` because both counters are those of the moment of the read.

The inductive invariants were checked by TLC on the instances of the runs before
they were proved.

Only model-checked: the liveness properties (fairness and `ENABLED` are out of the
prover's reach): `TrialEnds`, `OpenedIsLeft`, `FailuresAreForgotten`,
`ShutdownEndsUpdates`, `UpdatesGoOn`, `EveryCallReturns`, `EveryoneReturns`,
`SignalEndsProgram`, `DownloadReturns` and `CsvDownloadReturns`. For some of them the safety half is proved
for every instance: nobody waits for somebody who cannot run, and the downloads run
out of steps. Every invariant and every refinement that a run checks is a theorem. What
a recursive definition computes for every input cannot be proved either, as that needs
induction over data; no module declares a `RECURSIVE` operator.

## Findings

Four runs end in a violation, each against a sentence of the repository that
`PROJECT.json` quotes: a cancelled trial locks the breaker in `HalfOpened`; a
cancelled `Resolve` may hang with the read lock; a full disk in the middle of a
MaxMind download stops its updates for good; an update that is under way opens a
database after the provider was shut down, which nobody closes.

Others can be read off the models, where a property has to name an exception for
them:

* A failed removal (`removalFailed` in the properties of `FsUpdater`): if the directory
  of a new database that could not be opened is not removed
  (`fs_updater.go:125`), the next download of the same contents finds it, removes the
  directory of the served database and is reported as an update, unopened.
* `BreakerFollowsTarget`: when the limiter gives up, a trial that failed closes the
  breaker, because `ErrCircuitBreakerIgnore` counts as a success (`http_client.go:34`).
  A request that times out is not counted at all: its context is done.
* `BodiesAreClosed`: when the limiter or the context gives up after the response has
  come, nobody closes the body; the timeout of the request does, if there is one.
* `SignalEndsProgram`: `srv.Shutdown` has no time limit, so a `Resolve` that hangs
  keeps the process from ending. `main` never shuts the `Topographer` down.
* `StartsAsConfigured`: a `rate_limit_interval` or an `update_every` that cannot be
  parsed drops, silently, the providers after it, and with them `root_directory` and
  `worker_pool_size`, which come later in alphabetical order (`config.go:196`).
* `parseConfig` compares directories as they are spelled (`Duplicated`), so that `a` and
  `./a` pass (`config.go:217`) and two updaters remove each other's databases.
* `ExtractEnds`: an archive that cannot be removed (`maxmind_lite.go:155`) stays in the
  directory that is hashed and installed, unnoticed.
* `OkMeansResolved` excludes requests whose client went away: a cancelled batch that
  has no result yet would be a 200. `OK()` wants a city, so with providers that know
  countries only every request is a 503.
* The breaker opens with failure `openThreshold + 1` (`circuit_breaker.go:70`), where the
  comment of `NewHTTPClient` (`http_client.go:72`) says "if you pass 3 here, then after 3 failures, circuit breaker
  switches into OPEN state". `BreakerContract` leaves the edge open: `Trip` may be the
  documented failure or the one after it.
* A caller that read `HalfOpened` before a failed trial may take the next attempt
  while the breaker is opened (`TakeAttempt` looks at `halfOpenAttempts` only).
* `RequestContract` has to exclude requests whose context is done: a cancelled
  `ResolveAll` returns the results it has and no error.

## Not modelled

* Time, apart from the cache: timers fire at any moment, so nothing is said about how
  long a pause or an update interval is, nor about a stale `tryHalfOpen` that ends a
  pause early.
* Equal modification times of target directories.
* Contents: databases are version numbers, answers are countries and city names.
* The Software77 trees (`software77_db.go`): arithmetic on addresses around a library,
  written once and read-only afterwards. DB-IP and IP2Location downloads: sequential,
  every failure is returned, and `FsUpdater` has what follows from either outcome.
  Online providers: a request and a parse, without state. Country codes: a table that
  is filled before `main`.
* The getters of `UsageStats` (no mutex, not called by the program) and of the
  configuration (default values).
* Logging, formatting, declarations: no state of their own.

## Plan

1. Done: breaker, HTTP client, updater, handle and cache, request path, vote, start,
   handlers and end of the program, the downloads that use goroutines; contracts of the
   breaker, of a request and of the statistics; a theorem for each safety invariant and
   each refinement.
2. Models, if they are worth it: `DbHandle` composed with `FsUpdater` (a handle per
   version on the disk), the search in Software77's trees and the numbering of country
   codes as operators that are checked against reference definitions.
