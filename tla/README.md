# A verification project for JobMon

JobMon shows the users of a cluster how their Slurm jobs use the machine. This directory holds
TLA+ models of its backend and its frontend, the TLC runs that check them, and proofs that TLAPS checks.

## 1. The system

| part | state | operations | source |
| --- | --- | --- | --- |
| Slurm prolog and epilog script | none; the job in Slurm | one PUT at a job's start, one PATCH at its end, 10 s, no retry | `scripts/jobmon_slurm` |
| Job handlers | none | `JobStart`, `JobStop`, `GetJob`, `GetMetric`, `GetJobs`, `AddTag`, `RemoveTag`, `RefreshMetadata`, searches | `backend/router/router.go` |
| Store | PostgreSQL: `job_metadata`, `job_tags`, `job_to_tags`, `user_sessions`, `user_roles`; a copy of the configuration | `PutJob`, `GetJob`, `StopJob`, `UpdateJob`, tags, sessions, roles; a sweep of overtime jobs at start and every 12 h | `backend/store` |
| Job data cache | a list, a mutex | `Get`, `UpdateJob` | `backend/lru_cache` |
| InfluxDB client | configuration of metrics and partitions, aggregation tasks | queries, one goroutine per metric; the live channel; `RunAggregation`, `updateAggregationTasks` | `backend/db` |
| Sample intervals | none | `CalculateSampleIntervals` | `backend/job/job.go` |
| Authentication | OAuth sessions in memory; tokens in the store | `Login`, `LoginOAuth`, `LoginOAuthCallback`, `Logout`, `GenerateAPIKey`, `Protected`, `SetUserConfig` | `backend/auth`, `router.go` |
| Live monitoring | one websocket, two channels, a ticker, three goroutines | `LiveMonitoring`, `CreateLiveMonitoringChannel` | `router.go`, `backend/db` |
| Configuration | one struct shared by pointer, one file | `UpdateConfig`, `Flush`, `GetDeletedMetrics`, `RemoveMissingMetrics` | `backend/config`, `router.go` |
| Logging, live log | a ring of 25 messages, a list of websockets | `Write`, `AddConnection`, `RemoveConnection` | `backend/utils/log.go` |
| Notifications, change points | none | an e-mail; segments of a series | `backend/notify`, `backend/analysis` |
| Job page | what is chosen, what is shown, caches by interval, node and aggregation function; a websocket | `useGetJobData`, `TimeControl`, `TagPanel`, `MetricSelection` | `frontend/pages/job`, `components/jobview` |
| Lists and search | parameters in the local storage, a page number in the session storage, the list, the filter's copy | `useGetJobs`, `JobFilter`, `JobList`, `PageSelection`, `Search` | `frontend/pages/{jobs,statistics,search}.tsx`, `components/joblist` |
| Login and redirections | the `Authorization` cookie, shared by tabs; what React knows of it | `MyApp`, `login`, `Header`'s logout, what a 401 does | `frontend/pages/_app.tsx`, `utils/auth.ts` |
| Settings pages | a copy of configuration and users, edited partly in place | `MetricsView`, `PartitionsView`, `UsersView` | `frontend/components/settings` |
| Charts, layout, deployment | none | presentation | `frontend/components/charts`, `nginx`, ... |

How they interact. Slurm calls `JobStart` and `JobStop` through HTTP; both answer first and touch
the store afterwards, so nobody learns of an error. `StopJob` and `RefreshMetadata` read a row of
the store, query InfluxDB, and write the whole row back. `GetJob` reads the row, then goes to the
cache (finished job) or to InfluxDB (everything else); the cache calls InfluxDB and the store while
it holds its mutex. `AddTag` and `RemoveTag` write the store and then tell the cache. Every protected
handler asks the store for the session of the token's user. The configuration is shared by pointer
between router and `main`, and copied into store, cache, auth and InfluxDB client. The pages of the frontend
fetch through HTTP, put the answers to React state whenever they come, and keep parameters in the browser's
storage; a page of a running job holds a websocket to a live view.

What is hard: threads that overwrite each other's copies of a row; requests that are lost or overtake
each other; a sweep working on an old SELECT; a cache filled from data read before its mutex; tokens,
roles and expiry; unbuffered channels between goroutines that end in different ways; pages whose effects run
with values that were rendered earlier, and which receive answers in another order than they asked; copies of
the configuration saved over each other; and, in the parts not modelled, slices and configuration that
goroutines share without a lock. `PROJECT.json` lists each hazard at its line.

What makes the parts correct: a row is finished once, completely, by one report, and in the end (store); a
request of the cache gets an answer that is not older than one given before (cache); only tokens with today's
roles are accepted, and dead ones never (authentication); goroutines end with their connection (live view); what
a page shows at rest belongs to what it says it shows (pages); GUIDs tell metrics apart, and who saves the newest copy of the
configuration leaves no partition with a metric it lacks (configuration).

## 2. The modules

### JobLifecycle, JobStore — the job table

`JobLifecycle` is the promise: a job is unknown, running, finished, in this order, and a finished job
ends after its start. `JobStore` is the table `job_metadata` with everything that writes it.

* A *thread* is a handler goroutine or the sweep (`Cleaner`). `thread[t].at` names its next SQL
  statement, the other fields are its local variables: the job, the report, its copy of the row.
* `PutJob`, `UpdateJob` are the statements of that name. `StopJobRead` and `RefreshMetadataRead` are
  the SELECT with the query of InfluxDB that follows, which does not read the table; the write
  is a step of its own, so that everything may happen in between.
* `SlurmStartsJob`, `SlurmEndsJob`: the script sends at most one request, which may be lost.
  `SlurmRequeuesJob` runs a job again under its ID.
* `SweepBegin`, `SweepSelect`, `SweepStopJob`, `SweepEnd` are `finishOvertimeJobs`: one reading of the
  clock, one SELECT per partition, one `StopJob` per row found, errors ignored.
* `StatementFails`, `SweepSelectFails`: a statement or a query returns an error. `Restart`: the
  backend stops, and everything in flight is gone.

Of a row, the model keeps start, end, running flag and exit code; `Data` is the set of ends the metadata
metrics were computed up to. Metrics whose own query fails are missing without an error in the
code; the model does not tell them apart.

### LRUList, LRUCache — the cache as a data structure

`LRUList` has the list operations of `lru_cache.go` (and of Go's `container/list`) as operators on
sequences. `LRUCache` calls them one method at a time, which is what the mutex guarantees, with any
answer of the store and InfluxDB.

### SampleIntervals, SampledJob — at which interval a job is shown

`CalculateSampleIntervals` as operators; `SampledJob` shows a job again and again as it grows longer.
Floats are replaced by integers: all intervals of the code are whole seconds, and the only quotient is
rounded up. The number of points is bounded by `Excess` times those aimed at: by twice, but for metrics sampled every
few seconds by 15 times, since a job that is a little too long for its metrics' own interval has the next choice at 30 s.

### JobService — handlers, cache and table together

Extends `JobStore` with the tags, the cache and the goroutines of `GetJob`, `AddTag`, `RemoveTag` and of
the prefetch. A read of the store is two SELECTs (`ReadRow`, `ReadTags`), as Bun does it for a relation.
The list is touched only under the mutex: `GetHit`, `UpdateMiss` lock and unlock in one step;
`GetMiss`/`Load` and `UpdateHit`/`RefreshRow`/`RefreshTags` hold it over calls of the store or InfluxDB.
`JobStopFails` is the branch of `JobStop` that starts the prefetch. `edits` counts committed changes of a
job's tags and is carried along with every read, so that the properties can say which read is older.

### Sessions — tokens and roles

A token is its claims and its age in seconds: two tokens of a user with the same roles issued in the
same second are one string, as in the code. `Protected` and `validate` are the check of a request. The
logins are followed statement by statement (`GetUserRoles`, `SetNoRoles`, `AssignUserRole`, `Sign`,
`SetUserSessionToken`). Passwords, signatures and the OAuth provider are taken to say yes.

### LiveMonitoring, LivePage — a live view and its page

`LiveMonitoring` has the steps of handler, reader, writer, producer and ticker with the two unbuffered
channels. A send on such a channel is one step of both sides. `writing` is who is inside `WriteJSON`: the
websocket library allows one writer, and the backend may panic when there are two. `LivePage` puts these steps
together with the page of the running job: `GetJob`, `GetJobAnswered` (the last hour), `RunLiveEffects` (the effects of
`useGetJobData` that open the websocket, move `curLiveWindowStart`, send `LoadMetrics` and merge a message),
`OnMessage`, `SetStartTime` (the slider). The page asks for the job twice, since `containsMetricData` is a dependency of the
effect that asks (`[id].tsx:437`), and `setJobData` of the second answer replaces what was merged with the first. Live points are
pushed whether or not they are shown already. `livePage` is the state of the page, `fetch` the request for the job and
its answer, `carried` the data reader, producer and writer have in their hands; `replaced` is a history of what the second answer
did; `Null` stands for what JavaScript calls undefined or null.

### JobPage — the page of a finished job

`Job` with `useGetJobData`. The way React is modelled is the same in all pages: after each event the page is
rendered, and the effects whose dependencies were replaced run, all with the values of that rendering and in the
order of the code, so that the last call of a setter wins; that is one step, `RunEffects`. Answers of the
backend are steps of their own, in any order. The caches hold which data are there; the data follow from that.

### JobsPage — parameters, filter and list

`/jobs` and `/statistics`: parameters in the local storage (`saved`), as rendered (`params`), and as the filter
collects them (`filter`); the four effects that set parameters, and `useGetJobs`. The filter shows `ShownParams`: the tags are
those of its picker, `selectedTags`, a state of its own that nothing resets. Each kind of parameter has one or two values. `requests` is the sequence of requests under way, of which any may be answered next.

### PagedLists — sorting, paging, searching

`/jobs` sorted and cut into pages at every rendering, and `/search` with its three requests and categories. The
page number lives in the session storage (`stored`), which the hook reads in an effect, `useSessionStorageState`, after a first rendering with
the initial page. The first jobs may be there before it runs: `/jobs` then renders nothing (`pageIsLoading`), and `early` holds
them. `list` is what was rendered last, or `NoList`. A sort of jobs is any order that the comparator allows.
When the parameters ask for other jobs is left to `JobsPage`: here answers just come.

### App — who sees which page

`MyApp`'s redirections, the checks of roles in pages, login, logout and refusals, in several tabs
with one cookie. A tab knows the cookie as it was loaded or as *react-cookie* changed it (`tab[t].user`);
`removeCookies` of `utils/auth.ts` uses *js-cookie*, of which React does not hear. The backend is `Protected`
with one session, that may end at any time. `LoginAnswered` takes the arrival of the cookie and the reload that
`login.tsx` does next for one step.

### Settings — editing the configuration

The tabs for metrics, partitions and users of several administrators, and `UpdateConfig`, `SetUserConfig` behind
them. A page has two copies of the configuration, what `useGetConfig` returned (`known`) and the state of the
open tab (`local`); as JavaScript's spread copies only one level, most edits change both, which `shared` keeps track
of. `PatchConfig` is a client of the API without a page, which may send the configuration back without some of its metrics. A GUID is
given when a metric without one is saved; until then it is 0, and a partition may list it. `UpdateConfig` removes references to metrics that the copy
lacks; `Dangling` are the references for which a backend would refuse to start. The users' tab has the user asked for, the user shown and
the boxes ticked; `overlap` is a history of whether a request was sent while another was not answered. Which partitions there are does not change.

## 3. The runs

| run | what it checks | bounds |
| --- | --- | --- |
| `JobStore` | types; a finished job is complete; its end is one report; never reopened; implements `JobLifecycle`; an overtime job is finished in the end | 1 job run twice, 2 handlers and the sweep, 2 partitions, times 0..3, one exit code beside that of the sweep, 1 failure or restart |
| `LRUCache` | well-formed without duplicates (`Inv`), exact LRU order, metric data kept | 4 jobs, size 3, 2 values each |
| `SampledJob` | number of points bounded, intervals never get finer | 86 durations up to a week, around every multiple of 200 samples; metrics of 1, 5, 6, 7, 10, 30, 45, 60 s |
| `JobService` | types and one item per job (`ServiceInv`), only finished jobs, coherence with the tag table, no regress | 2 jobs, 1 handler, 2 goroutines, 2 edits, size 2, no prefetch, no failure |
| `JobServiceLive` | every request is answered | 1 job, 2 goroutines, prefetch, 1 edit, size 1, 1 failure or restart |
| `Sessions` | types and `DeadTokenIsRefused` (`Inv`); changed roles take effect | 1 local administrator, 1 OAuth user, who is given the role of a user or of an administrator; logins of 1 s, API keys that are over at once, 2 handlers, 1 failure or restart |
| `LivePage` | types and no send on a closed channel (`LiveInv`); one writer as long as the page only watches; older metrics fit without disorder or gap, up to what the second answer replaces; all goroutines end | 1 view, a clock of 3 samples, an "hour" of 1, room for 1 message, 3 samples shown or sent; the goroutines are not bounded |
| `JobPage` | types and `ShowsItsInterval` (`Inv`); breaks only when an answer overtakes; comes to rest | 3 intervals, 2 nodes, 2 aggregation functions, 2 clicks, 1 failure, 2 equal requests at once |
| `JobsPage` | types and `KeepsSavedParams` (`Inv`); list, filter and storage follow the parameters; what is applied was shown, the picker's tags included; comes to rest | ranges 0..2, 2 edits, 2 requests at once, 1 failure; any address, any saved parameters |
| `PagedLists` | types and `NoBlankPage` (`PagedListsInv`); leafing shows everything; the page of `/jobs` survives reloads | 4 jobs (two of them equal in a key), limits 0, 1, 2, 3 sort keys, 2 results per page of a search, 2 loads of the tab beside the first |
| `App` | types and `DataNeedRoles` (`Inv`); late refusals do not log out; redirections end; a list loads or leads to the login | 2 tabs, 3 sets of roles, 2 logins, 2 requests at once, 1 page opened or request lost |
| `Settings` | types and `GuidsAreUnique` (`Inv`); saving the newest copy leaves no reference to a metric it lacks; the form is that of the user asked for | 2 administrators, with the page or the API, 2 names, 2 categories, 1 partition, 1 virtual partition, 2 users, 2 sets of roles, 3 GUIDs, 4 clicks, 1 lost request |

Why the bounds are enough to be interesting: two writers of one row need two handlers, and the sweep makes a
third; a stale copy needs one other write in between; a requeued job needs two runs; a lost stop needs
one lost request or one failure, and the sweep one further second. Jobs share nothing but the sweep's loop,
which treats each row on its own, and the cache, for which there is a run with two. An eviction needs more jobs
than the cache has room for (`LRUCache`), an overtaken refresh two goroutines and one edit. Two answers overtake
each other with two clicks; a gap or disorder in a live chart needs a sample before the window,
one in it and a live one; the second answer of `GetJob` may be older or newer than each of them. A message is overwritten with one in the page and one
on its way. The page of a list is left, loaded, and loaded again before the first load is over: two loads. A configuration copy is
old after one save of another administrator; a reference is left behind after a deletion and a save; three GUIDs let a metric be added,
saved and added again; two users asked for are enough for answers in the wrong order. In `Sessions` an API key
that lives longer adds states but no step that a login has not; the proof covers all life times. The properties proved (section 5) hold for all bounds.

`CHECK_DEADLOCK FALSE` is set where the system stops: a `SampledJob` at its last duration, a live view that is over, and
pages (`JobPage`, `JobsPage`, `App`, `Settings`) whose user does nothing more once the bound of clicks is reached.

### Where the code does something else than it says

These configurations are not among the runs; each ends in a violation, which is the behaviour of the code:

| configuration (module) | claim | what happens |
| --- | --- | --- |
| `SweepOnlyChangesRunning` (`MCJobStore`) | `postgres_store.go:562` | the sweep overwrites the end recorded by a `job_stop` after its SELECT |
| `StopJobMarksStopped` (`MCJobStore`) | `store.go:33` | a job that ends in the second it started stays running until the sweep |
| `PrefetchUponCompletion` (`MCJobService`) | `config.go:52` | the condition is inverted: prefetch happens when `StopJob` failed |
| `GetReturnsGivenInterval` (`MCJobService`) | `lru_cache.go:37` | a cached job whose end was amended comes back at the old interval |
| `LogoutRevokes` (`App`) | `Header.tsx:81` | the logout of a user without roles is refused, and the session stays |
| `PageNumberInRange` (`MCPagedLists`) | `PageSelection.tsx:16` | with no limit, or a list that got shorter, a page beyond the last is shown for a rendering |
| `DeleteRemovesMetric` (`MCSettings`) | `MetricsView.tsx:369` | the deletion of a metric of one category is undone by the second `setMetricConfig` |
| `SavedConfigurationLoads` (`MCSettings`) | `config.go:292` | two clients delete the same metric from copies of the same version: the second one's copy lists it still, nothing was deleted against the configuration of now, and the backend would not start with the file |
| `AlwaysNodeData` (`JobPage`) | `[id].tsx:335` | a late answer for all nodes replaces the data of the node selected |

Three more things that the documentation says otherwise are modelled as the code does them: `Logout`
logs out the user named in the body (`API.md:136` has it be the caller), `SetUserConfig` updates the user named in the body
(`API.md:235`: the user of the path), and `CalculateSampleIntervals` takes the closest interval, which need not show the closest
number of samples (`job.go:151-152`; 6001 s sampled every 30 s are shown with 101 points rather than 201).

### What stands behind properties that hold only as stated

* *Cache.* `CacheIsCoherent` names every reason for which the cache may show old tags; the one that lasts is a `GetJob` that
  read the tags before an edit and filled the cache after the editor found it empty: the old tags then stay until eviction or the
  next edit. `CachedIsFinished` holds only without prefetching, because the inverted condition prefetches running jobs.
* *Live view.* A page that loads older metrics can have the reader and the writer in `WriteJSON` together. A message that arrives
  before the effects have seen the one before it replaces it (`[id].tsx:518`); when that was the answer to
  `LoadMetrics`, the gap stays. `readyState` is read in an effect that does not depend on it (`[id].tsx:572`): a start moved
  before the websocket is open is not asked for until it is moved again. If the websocket opens before the first window is
  rendered, the page asks with a stop time of null, and the answer without metrics makes the effect throw; so does the first
  live point of a job that had none. Between the answer of `GetJob` and the window's start a second may pass; points are then shown twice
  (`late` in `InOrder`). The second answer of `GetJob` takes away older metrics and live points that were merged before it came, and the window does
  not move back, so that they are not asked for again (`replaced.lost` in `Complete`); live points that it overtook come behind
  later samples (`replaced.overtook`). A live point that is shown already is shown again.
* *Job page.* With one node selected, the effect for the node and the cached data of the first interval may take turns for ever and
  ask again each time; choosing a cached interval returns to the first one; an answer for an aggregation function that overtakes the one for its interval
  breaks the page (`[id].tsx:462`); the first data are fetched twice.
* *Lists.* With `?tag=` in the address each answer sets the tag again, which asks again (`jobs.tsx:55-63`). With `?user=` known at once,
  defaults are written over the saved filter (`jobs.tsx:51`). Answers may overtake each other (`utils.ts:129`). Changing partition, user or tags
  drops changes not applied yet. The tag picker goes on showing tags that were dropped so, shows none when the filter appears with saved tags, and
  is not told of the user or tag of the address (`history.apart`): *Apply* then applies other tags than those shown. Both ends of the sliders for nodes and GPUs share one reference (`JobFilter.tsx:174`, `201`). After a refusal the statistics keep their spinner.
* *Paging.* The comparator of jobs never says "equal", so that jobs with equal keys may change places between two pages (`jobs.tsx:116`).
  Without the guard of `/jobs` (`jobs.tsx:71`) the list would be rendered with the initial page, and that be stored. On `/search` nothing guards the list: it is
  rendered empty before the results come, and the stored page becomes 0, then 1. A refused or lost search request waits for ever (`search.tsx:44`), so
  that no run claims that a search ends; with limit 0 one reads "page 3 of 1".
* *Login.* A refusal seen by another tab removes the cookie of a new login; React does not hear of it (`auth.ts:20`), so that pages that use `authFetch` wait for ever.
* *Settings, configuration.* Administrators overwrite each other's changes (`router.go:978`); a copy that is not the newest may bring back a reference to a metric
  deleted meanwhile, which is why `ReferencesAreRemoved` speaks of copies of the version of now. A partition may list a metric that has no GUID yet, and keeps the empty one
  when the metric is given its own; whether Formik adds the empty value of a box is left open. Virtual partitions keep references to deleted metrics (`config.go:358`),
  which the check at the start does not look at. The page's button does not delete a metric of one category (`DeleteRemovesMetric`): metrics go only by way of the API, or of a page whose
  copy is older than the metric. A second save in the same tab gives a new metric a new GUID (`router.go:953`). The form of a partition whose virtual partitions
  are null drops those added since (`PartitionsView.tsx:99-107`); moving a virtual partition copies it.
* *Settings, users.* Answers are put on the form in the order they come, so that with two under way it may show another user than the one asked for
  last; the save then changes the user shown. Ticks carry over to another user with the same roles, because Formik starts anew only when the roles differ.

## 4. Fairness

* `JobStore!FairSpec`: goroutines are scheduled (weak fairness of each thread's next statement), time
  passes, and the sweep goes on, as the 12 h ticker of `startCleanJobsTimer` sees to. The store or InfluxDB may
  fail, but not for ever: `MaxFailures` bounds failures. No request of Slurm is assumed to arrive.
* `JobService!FairServiceSpec`: weak fairness for a goroutine's own steps; strong fairness for taking the mutex,
  since Go's mutex hands itself to a goroutine that has waited for a millisecond.
* `Sessions!FairSpec`: goroutines and time. Users are not assumed to do anything.
* `LivePage!FairLivePageSpec`: goroutines; strong fairness of the meeting on `done`, since a Go `select` chooses at random
  among what is ready. The ticker, the peer and the page are not assumed to do anything; a write to a dead connection returns.
* `JobPage!FairSpec`, `JobsPage!FairSpec`: React renders and runs its effects, each request is answered or fails, and
  Next.js fills in the address (`RouterReady`).
* `App!FairSpec`: redirections happen, and requests for lists are served and answered or fail. Users are not assumed to do anything.
* `PagedLists`, `Settings`: safety only.

## 5. The proofs

All theorems hold for all values of the constants that satisfy the assumption named. Each rests on an inductive invariant.

**`JobService_proofs`, the table** (`StoreAssumption`): `TypeCorrect`, `FinishedCorrect`, `EndCorrect`, `NoReopening` and `Refinement`
(the table implements `JobLifecycle`). The properties are not inductive, because a thread may write back any old copy.
The invariant `IInv` adds what is true of each copy:

* `CopyInv`: a copy about to be written is *good*: complete (ends after its start, metrics up to that end),
  accounted for by one report or by the sweep, and with the start of the row in the table.
* `InsertInv`: what `PutJob` is about to insert is a running row. `StopInv`: a report being recorded was accepted from
  Slurm or assigned by the sweep. `SweepInv`: so are the ones the sweep has collected. `TableInv`: rows that are
  finished are good.

A good copy stays good, since rows never go away and keep their start and reports are only added (`StepForward`,
`Stable`); so whatever copy is written last, the row is good. This is the reason why the unprotected
read–query–write of the code does no harm beyond lost updates.

**`LRUList_proofs`** says what `Found`, `Put` and `ReplaceFront` do to IDs, lengths and order, for lists of any items.
**`LRUCache_proofs`** (`CacheAssumption`: size at least 1) uses it for `InvCorrect`, `LRUCorrect` and `KeepsMetricDataCorrect`;
`ReplaceFront` removes the front before it pushes, so that a full cache does not lose its back.

**`JobService_proofs`, the service** (`StoreAssumption`, `ServiceAssumption`, `PointsAssumption`): `ServiceCorrect`, `CachedCorrect`, `CoherenceCorrect`,
`RegressCorrect`, and `ServiceImplementsStore`, which carries the theorems about the table over to the service (`ServiceKeepsPromises`). The invariant adds to that of the table:
at most the holder of the mutex is between `GetMiss` or `UpdateHit` and its end, and only it changes the list;
tags that were read are those of the table if the number of edits is still the one read with them; a row read as
finished is finished for good. So an unprotected read may be old, but it knows how old it is, and the reasons
`CacheIsCoherent` names are all there are.

**`JobService_proofs`, sample intervals** (`SampledJobAssumption`, `PointsAssumption`): `PointsCorrect`, `IntervalsOfRunningJob`, for every duration, interval of
metrics and number of points aimed at. The best interval is the quotient rounded up, so that it is wide enough and grows with the duration (`RoundedUp`); the
candidates ascend, and of an ascending list the closest to a greater number is no smaller one (`IntervalsAscend`); and the closest candidate is at least the best interval divided by
what `Excess` says (`IntervalWideEnough`). The proof showed that the bound of twice the points, checked at first, fails for metrics finer than 7 s.

**`Sessions_proofs`** (`SessionsAssumption`, `NoTokenAssumption`): `SessionsCorrect`. `OwnTokens`: a session, and a token a handler has in its hands, is of the user
it is for. `DeadApart`: no dead token is a session, nor on its way to be one. Tokens that differ stay different as they age together, and
validity ends; hence a dead token comes back only as the very same string.

**`App_proofs`** (`AppAssumption`, `NoneAssumption`): `AppCorrect`, `LoginsSurvive`. `OnPages`, `AdminsOnly`: who waits for data is on their page, and what only
administrators may ask for is awaited only by tabs of administrators. `FreshLogins`: nobody knows of a session before its login is answered. `OwnCookie`: a tab that
knows the session of the cookie has no request under way with an older one; a cookie value never comes back.

**`JobPages_proofs`, a job that is over** (`JobPageAssumption`): `JobPageCorrect`, `JobPageCrashes`, for any intervals, nodes, aggregation functions and numbers of
clicks. `JobPageIInv` accounts for everything that differs from what was chosen: data of a chosen interval are cached, asked for, or about to be (`AvailableInv`); a spinner has
an effect or a request behind it (`LoadingInv`). `CalmInv` is about a page whose clicks waited for the answers: only the interval of the menu or the best one is under way,
and data of another interval than that of the menu are shown only while a request is under way or an effect is due that `Repairs` them.

**`JobPages_proofs`, a running job** (`LivePageAssumption`): `LiveCorrect`, `WatchingCorrect`, `OlderMetricsCorrect`, for any clock, hour and room for messages. `GoroutinesInv`
says where three goroutines can be together, who has closed which channel, and hence that nobody sends after a close. The samples on their way are followed through
every place they can be: requests, the reader's hands, messages, the last message, the data shown. `OlderOrder` puts what was asked for later before
what was asked for earlier, `LatestOrder` and `LatestBounds` keep live points in the order they were taken, so that each merge joins pieces that are in order. `AnswersInv`: there are two answers of
`GetJob`, the second not older than the first, and nothing is taken away before it comes. `CoverInv` says that every sample from
the start of the window to the first answer is in one of these places or was taken away by the second answer, unless a message was overwritten or the page is about to break (`Doomed`).

**`JobsPage_proofs`, parameters** (`JobsPageAssumption`): `JobsPageCorrect`, `ListFollowsCorrect`, `AppliesCorrect`. `OrderInv` says that every difference between parameters
and list, filter or storage has an effect that is due, a request under way or a change not applied to account for it. Its part `TagsInv` is what `AppliesCorrect` rests on: the picker, which nobody
resets, has the tags of the filter in each state that the three cases of `history.apart` do not lead to.

**`JobsPage_proofs`, long lists** (`PagedListsAssumption`): `PagesCorrect`, `LeafingCorrect`, `ReloadCorrect`, for any jobs, limits, keys and results. `RenderedInv`: the list is one the
comparator allows for the settings of the moment. `PageInv`: its page is one of the list, and the one in the storage, and until the effect has read the storage that holds the page that was left. `LeafInv`: what was seen on the way is everything before the page
and on it. For that, two renderings must agree on the order: `SortedIsUnique` shows that if no two jobs have the same key there is only one, since the place of a job is the number of those that precede it.

**`Settings_proofs`** (`SettingsAssumption`, `NoConfiguration`): `SettingsCorrect`, `ReferencesCorrect`, `FormCorrect`. Every copy of the configuration, in the backend, a page or a
request, is *sound* (`Sound`): the GUIDs of its metrics are distinct and were given out. A copy *of the current version* is *fresh* (`Fresh`): nothing dangles in it that
does not dangle in the configuration, however it was edited; in the copies of other clients also what they have deleted. So what a save of such a copy leaves dangling was so before, since a reference to a metric that
is there in the configuration and not in the copy is one that `RemoveMissingMetrics` takes away. `SharedInv` says which objects two copies of a page have in common, and that one of
them does not change behind the other's back. For the form of users, `FormInv`: as long as answers do not overlap there is at most one request, it is about the user asked for last, and so is the form unless that user is being loaded.

Every invariant and action property of the runs is stated by a theorem. Model-checked only are the eight liveness properties, which are out of the prover's reach: `OvertimeIsFinished`,
`RequestsAreAnswered`, `RolesTakeEffect`, `GoroutinesEnd`, `ComesToRest` (twice), `RedirectionsEnd` and `ListsLoadOrLogOut`; and the claims of section 3 that the code refutes.

## 6. What is left

1. `UpdateConfig`'s effects on other goroutines: `Flush`, `db.Init`, the aggregation tasks (`updateAggregationTasks` overlapping itself), the
   store's old copy of the partitions.
2. `WebLogger` and `LiveLog`: the ring, the list of connections, unsynchronised writers.
3. The goroutines of `getJobData`, `getMetadataData`, `queryLastDatapoints`: lost appends, the shared error.
4. Pure algorithms: `parseQueryResult`, the segments of `ChangePointDetection`, `getPartition`.
5. The rest of the job page: `TagPanel` (answers to overlapping changes are put to the tags of an older rendering), `useMetricSelection`, nodes and intervals chosen
   while a job runs (they replace the data that live points are added to).
6. OAuth sessions: `GenerateSession`, `GetSession`, the callback's state.
7. Proofs: what liveness rests on and is not itself liveness, such as that whoever holds the mutex of the cache has a next step, or the measure that effects and answers lower.

## 7. Not modelled

Backend: the text of Flux queries and SQL, e-mail, change points, the helpers; handlers that only read (`GetJobs`, `GetMetric`, searches, statistics) beyond
their answers. Passwords, JWT signatures and the OAuth provider are taken as given. A job stays running while a
live page watches it (its live view goes on with the job as it was found).

Frontend: charts, layout, tables, `units.ts`, exports, the settings for general options, API keys and logs; what 2. and 5. of section 6 name. A websocket that breaks is never opened
anew, which the model shares with the code. Containers, proxy and the databases' own configuration hold no logic of the program.

## 8. Running

`tlc -config JobStore.cfg MCJobStore` (module and configuration of each run are in `PROJECT.json`, those of the other configurations
in section 3), `tlapm JobService_proofs.tla`, and so on for every module whose name ends in `_proofs`. `Sessions` takes three minutes,
`LivePage` one and a half, the other runs less; the proofs of the two job pages and of the settings take five minutes each, the others less.
