# A specification of OllamaProxy in TLA+

OllamaProxy sits in front of one Ollama server, a few GPU services (speech
synthesis, transcription, ...) and commercial APIs.  Ollama and the GPU services
share one graphics card with room for about one large model.  What is hard in
the program is who gets the card, when, and what becomes of everybody else; it
is one asyncio process, so everything happens in the interleavings between two
`await`s.

Line numbers are those of `src/ollamaproxy/`.

## 1. The system

| part | code | state | operations |
|---|---|---|---|
| GPU model scheduler | `scheduler.py` | `admitted`, `draining`, `in_flight`, `interactive_running`, `waiting`, `evicting`, the one-second cache of `loaded()` | `acquire`, `release`, `refresh`; inside them `_can_run`, `_maybe_switch`, `_begin_switch`, `_evict_and_switch`, `_switch_to` |
| backends on the card | `main.py`, `providers.py`, `telemetry.py` | none; the memory of Ollama and of the services | `all_loaded` (the probe), `evict_backend` (the evictor) |
| job queue | `jobs.py`, `db.py` (table `jobs`), `mgmt.py`, `ui.py` | the rows; `current`, `current_task`, `_preempting`, `last_model` of the worker | `create_jobs`, `cancel_job`, `pick_next`, `run`, `_execute`, `_callback`, `start`, `stop`, `purge_jobs` |
| rate limiter, limits per key | `jobs.py`, `proxy.py`, `mgmt.py` | the hits of the last minute, per key | `RateLimiter.hit`, `key_limit`, `rate_limited`, `_enqueue` |
| proxying | `proxy.py`, `auth.py` | one slot of the scheduler and one place in the count of running requests per request | `ollama_proxy`, `provider_proxy`, `_forward_provider`, `forward` and its generator |
| preloading | `mgmt.py` | `_loading`, `_interest` | `models_load`, `_load_model` |
| providers | `db.py`, `mgmt.py`, `ui.py`, `templates/providers.html` | the table `providers` and the forms that are open | the calls of `/providers`, `providers_page`, `providers_save`, `providers_delete` |
| keys and sessions | `auth.py`, `db.py`, `mgmt.py`, `ui.py`, `templates/keys.html` | the table `api_keys`, cookies, forms | the calls of `/keys`, `keys_page`, `keys_create`, `keys_models`, `keys_delete`, `login`, `logout`, `form_with_csrf`, `principal_from_request` |
| Python client | `src/clients/opx_client.py` | what it waits for | `wait`, `wait_batch` |
| collector, telemetry, prices, log, statistics, migration, configuration, deployment | the rest | data | section 7 |

How they interact:

* `forward`, `models_load` and the worker's `_execute` call
  `sched.acquire`/`sched.release`; the scheduler calls back into the probe and
  the evictor, both of which await the network.
* The worker asks the scheduler whether people are about
  (`interactive_pending`, `last_interactive_done`, `oldest_interactive_wait_s`)
  and which model holds the card (`admitted`).
* The HTTP handlers write the rows of the job table that the worker runs, and
  cancel its task; the settings page changes the parameters of both at any
  time.  Clients learn of their jobs by asking for the rows.
* Keys, providers and limits are read at one point of a request and used at a
  later one; the administrator changes them in between, from the API or from a
  page that may be long out of date.

What is hard: decisions taken before an `await` and carried out after it;
slots that are counted before the waiter runs and have to come back exactly
once when it times out or is cancelled; a card that must never be shared by two
backends nor stay closed for ever; rows written by two tasks and the handlers;
cancellations that cross an answer; crashes.  `PROJECT.json` lists these places
under "hazards", each at its line.

What makes each part correct:

* scheduler: every slot is counted once and given back once; no waiter is lost;
  one backend on the card, nothing starts while it is emptied, and it changes
  hands only when idle, until the answer of a probe comes too late, and again
  once the card has been empty; an interactive waiter is served, and a job once
  people stop.
* job queue: a row is "running" only while somebody runs it; what has ended
  stays ended; attempts are bounded; every job ends; the callback tells the
  truth.
* proxying: whoever got a slot gives it back once, on every way but two that are
  known; nothing goes to a provider or a model its key may not use, on either
  road; what goes to a service on the card has a slot; inference is logged once
  on every way but those two.
* preloading: slots move from a call to its task and back; whoever waits, waits
  for a load of his model; places in the queue are kept.
* backends on the card: a backend is beside the owner only after a fault the
  program excepts; a dead service blocks nobody.
* limits: at most `limit` counted hits in any sixty seconds; who comes back when
  `Retry-After` says so finds one hit fewer in his window, which is a place
  unless the limit was lowered; the queue grows only by paid jobs.
* providers and keys: a form that comes late destroys nothing; ids and rights do
  not pass from one key to another.
* client: what it returns is true and stays true; it does not wait for ever.

## 2. The modules

### GpuScheduler (scheduler.py)

`sched` is the `ModelScheduler` object: a record of its fields.  The methods
that do not suspend are operators from one such record to the next
(`SwitchTo`, `BeginSwitch`, `FreeSlot`, `MaybeSwitch`, ...), and an action is
what one task does from one suspension to the next.  `pc` says where each
caller of `acquire` is suspended; `probes` holds the `_maybe_switch` calls
suspended in the hold probe, with the model each had picked; `kicks` counts the
`_maybe_switch` tasks that `release` created and that have not run.

| action | code |
|---|---|
| `AcquireDisabled`, `Acquire` | `acquire` up to its first suspension, with `_can_run` |
| `ForeignAnswer`, `BesideAnswer` | the two probes of `_can_run` answer (208-214, 221-223) |
| `Wake`, `HoldAnswer` | the loop of a waiter (149-160) |
| `Release`, `Kick`, `KickAnswer` | `release` and the task it creates |
| `Cancel` | the `except BaseException` and `finally` of `acquire` |
| `EvictDone` | `_evict_and_switch` after its evictor: emptied, failed or out of time |
| `Refresh`, `Starve`, `HoldExpires` | settings, and time passing `max_wait_s`, `hold_s` |

Time is kept as what the code compares: the order of `since`, "longer than
`max_wait_s`", "less than `hold_s` ago".  A caller takes its `since` when it
comes, before `_can_run` is awaited (142), so it may join the queue in front of
callers that were queued while it was suspended there: `older` orders everybody
in `Line`, the waiters and those still in `_can_run`.  `loaded()` answers any set
of models, the empty set of a failed probe included.  `ProbeSuspends` says
whether it may suspend: with TRUE it goes to the network, as in production when
its one-second cache is cold; with FALSE it is answered from the cache, or by a
probe such as the ones of the unit tests.

A probe asks because of what the fields said before it, and what it answers is
acted upon without a second look: at 208-214 (nobody was admitted), at 221-223
(no eviction, no draining), at 240-242 (nothing ran).  The history variable
`stale` becomes TRUE when that is done although by then it no longer holds, and
FALSE again when the card is empty.  The promises of the docstring are stated
while it is FALSE: so they say that late answers are the only thing that breaks
them, and that the scheduler recovers.  That they break is section 5.

### GpuCard (what the scheduler promises)

One `owner` backend, its `users`, `closed`, and `sound`.  A card changes owner
only after it was closed, and it is closed only while nobody uses it.  It may
get out of order at any step (`Break`), and is mended when it is empty
(`Recover`); a card that is out of order promises nothing.
`GpuScheduler!Card` is the refinement mapping, `ImplementsCard` the property.

### JobQueue (jobs.py, db.py, mgmt.py, ui.py)

The rows (`status`, `attempts`, `called`, their order `older`, `aged` beyond
`jobs_max_wait_s`, `later` while `not_before` has not come), the worker
(`current`, `gpu`, `exec`: the phase of the job's task, `cancelling`: a
cancellation requested and not yet delivered, `preempting`), and what it reads
of the rest (`people`, `recent`, `card`, `configured`, `enabled`).

| action | code |
|---|---|
| `Create` | `POST /jobs`: `_check_job`, `_enqueue`, `create_jobs` (a batch is inserted whole or not at all) |
| `CancelJob` | `DELETE /jobs/{id}`, `ui_job_cancel` |
| `Pick` | one turn of `loop`: `pick_next`, `start_job`, the task is created |
| `ExecuteStarts`, `Acquired`, `Responds`, `CalledBack`, `Cancelled` | `_execute` from one await to the next |
| `Preempt`, `RunReturns` | the half-second watch of `run`, and its end |
| `Down`, `StartWorker` | `stop` (which writes nothing, so it is a crash) and `start` |
| `Purge`, `Reconfigure` | retention, the settings and providers pages |
| `PeopleArrive`, `PeopleLeave`, `IdleLongEnough`, `Ages`, `NotBeforeComes` | the scheduler's other users, and time |

The order and the age of a row are dropped when it ends: nothing reads them
any more.  A row that was purged is used again for a new job, so that an
unbounded stream of jobs fits a finite model.

### JobTable (what the queue promises to readers of a row)

One status per row: submitted as a batch, started, put back, finished, called
off, purged, and no other way from one status to another.  `JobQueue` implements
it (`TableImplemented`), `JobClient` builds on it, so what is shown of clients
holds of the queue as it is.

### Proxy (proxy.py, the principals of auth.py, telemetry.bump)

A request is a record: what the client sent (`shape`), who it was taken for
(`who`), where it goes (`dest`), the kind and the address of the provider as its
row said when it was read (`prov`), its `slot`, how it ended (`answer`,
`logged`).  An action is what a request does between two suspensions: the body,
the wait for the card, the telemetry probe, the upstream, the chunks.

`build_request` raises for what httpx makes no URL of: an address of a provider
that is none, or an odd path of the client's, whatever the destination
(`Unsendable`).  It stands outside the `try`, so slot, count and row of the log
are lost; and so they are when the generator's `finally` is cut short by what
`aclose` raises, or is never reached (`StreamCut`).  A request that ended in one
of these ways keeps its record (`Lost`, `Retire`), so that what it left behind
has an owner.

| action | code |
|---|---|
| `Arrive` | `provider_proxy` 349-362 or `ollama_proxy` 399-405, up to the await of the body |
| `BodyRead` | the rest of the checks, `request_model`, `rate_limited`, `deny_model`, up to the wait for the slot |
| `Granted`, `WaitEnds` | `acquire` returns, or `X-Opx-Wait` runs out (503) |
| `TelemetryAnswers`, `SendFails`, `UpstreamAnswers`, `StreamEnds`, `StreamCut` | `forward` and its generator |
| `Administrate` | keys, providers (kind and address too) and `require_key` change |
| `Restart` | the process begins anew: slots and count are gone, the tables stay |

The scheduler lets anybody in at any time: beside whom is `GpuScheduler`'s.  The
history variable `stale` has the requests whose provider changed its kind since
they read its row: by slug that is before the await of the body.

### Limits (jobs.py `RateLimiter`, mgmt.py `_enqueue`)

`log` is all a key was ever let through with, under which limit (0: none) and in
which life of the process, so that the promises are stated of the history;
`queue` says which entries the deque still holds.  `Arrive` is an inference
request that takes its key's own limit with it, `BodyRead` the same when its body
is there and it is counted, `Submit` a batch, `JobEnds`, `ChangeLimits`,
`Restart` and `Tick` the rest.  `told` remembers what a refused client was
promised and how many hits the window held, until others of the key come first.

`WindowRespected` counts what the limiter counts: entries under a limit, in the
same life.  With the others it is false (`WindowAlways`).  `HintSuffices` is
about the number of hits: with a window that held no more than the limit it means
a place, with one that held more, since the limit was lowered, it does not
(`HintLetsIn` is false; jobs.py 92 looks at the oldest hit only).

### ModelLoad (mgmt.py `models_load`, `_load_model`)

A call (`pc`: acquiring, probing, waiting for the task, resuming) and the task it
may leave behind.  `Call`, `Admitted`, `NotAdmitted`, `FoundLoaded`, `BeginLoad`,
`NotLoaded`, `LoadEnds`, `Resumes`.  `acquire` may return at any time, whoever
else holds the card, and the probe may say anything, since other requests and
evictions move models in and out.

### CardMemory (main.py `all_loaded`, `evict_backend`; providers.py)

What is in the memory of each backend, which backends answer, and the scheduler
reduced to one owner and evictions between owners.  The memory at the start is
anything: that is a restart of the proxy.  `excuse` is a history variable: why a
backend may hold memory although the card is another's.

### Providers and ApiKeys (the tables, their API and their pages)

A page shows the rows as they were; a form that is sent is handled later.  Between
the two, other forms and calls change or delete the row, and sessions end.
`ProvidersSave` and `KeysModels`, `KeysDelete`, `KeysCreate` are the handlers
after the await of the form.  API keys are known by an id and a plaintext that is
never given twice; jobs keep the id of the key that submitted them.  A session is
its user and the second it ends in (auth.py 42), so a login within the second of
the last one gets the same session, and forms of pages that are still open stay
good; `Login` takes the last token or a new one.

### JobClient (opx_client.py)

`Wait`, `WaitBatch`, `Poll` (the server answers), `Returns`, `Sleeps`, `TimesOut`,
`Raises`: the answer of a poll shows the table as it was when the server made it.

`Forms` puts the two pages together: `Providers` itself, `ApiKeys` as `K`, with
what `ApiKeys` demands of its constants as an ASSUME, and the properties of
`ApiKeys` under names of their own.

The `MC...` modules only give the constants their values; in `MCForms` one of the
two tables is at work in each behaviour, since they have nothing in common.

Some operators are marked "Mutant": each is a plausible bug in the operator it
precedes, and shows that the property named with it in `PROJECT.json`
("mutants") notices.  No behaviour of the specifications uses them.

## 3. What is checked

| run | instance | shows |
|---|---|---|
| `sched_card` | 3 models on 2 backends, 4 callers, one of them a queued job; the probe does not suspend | an interactive waiter is served, and a job once people stop |
| `sched_net` | 2 backends, 3 callers, suspending probes, one that gives up and comes back | slots are exact, no waiter is lost, `evicting` never stays behind, also with overlapping evictions; and until an answer comes too late, and again when the card has been empty: one backend at a time, nothing starts during an eviction, the card changes hands only when idle, draining lets nobody new in, the scheduler implements `GpuCard` |
| `sched_net_live` | 2 models of one Ollama, suspending probes | stale probes do not starve an interactive waiter |
| `jobs_safe` | an Ollama, a GPU-service and a commercial job, a callback, a `not_before`, priorities, at most 2 active, a provider that is switched off and on, 1 restart | rows and tasks agree, attempts are bounded, callbacks tell of final ends, the table goes as `JobTable` says |
| `jobs_live` | two models, jobs without limit, preemptions, `jobs_enabled` switched, 1 restart | every queued job ends once people are gone |
| `proxy` | 2 requests of 11 shapes, two of which no URL can be made of, Ollama and two providers that may each be a GPU service or a commercial one, with an address or without, 3 changes by the administrator, restarts | slots and counter are exactly what requests hold or lost, nothing goes where its key may not, what reaches a service on the card holds a slot, rows of the log are exact |
| `limits` | a clock of half seconds, batches of 2, one proxied request under way, 2 changes of limits or restarts | the window, `Retry-After`, the queue's cap |
| `load` | 2 clients, 2 models, 2 tasks | slots, tasks and entries agree; places are kept; every call is answered |
| `forms` | a provider with 1 key and 1 pattern, 2 browsers; 2 API keys, 1 browser, 2 sessions | late forms destroy nothing; ids do not pass on; deleted keys stay deleted; an admin key is left |
| `memory` | Ollama with 2 models, 2 services with 1 each, any memory at the start, anybody silent at any time | the owner is alone but for faults the code excepts; nobody is blocked |
| `client` | 1 client, a batch of one page (2 jobs) and a larger one (3 jobs) | what `wait` returns is true and stays true, a batch of one page is over, a wait ends when its jobs have |
| `find_mixed_backends` | 2 callers, suspending probes | see section 5 |

Type invariants.  Those of `Proxy`, `ModelLoad`, `CardMemory`, `Providers` and
`ApiKeys` are part of `GivenBackOnce`, `LoadsConsistent`, `OwnerAlone`,
`RowsInOrder` and `IdsInOrder`; those of `GpuScheduler`, `JobQueue`, `Limits` and
`JobClient` are proved (section 4).

Bounds.  `MaxKicks = 1`: one pending `_maybe_switch` task of `release`; a second
one would find what the first one left, and waiters call the same method at
every tick anyway.  `MaxEvictTasks = 1`: one eviction towards each model; two
evictions towards different models still overlap.  `MaxRestarts = 1`: a second
restart starts from the same kind of table, with attempts one higher.
Three or four callers are enough for one that runs, one that waits, one that
decides on stale data and a job; `Impatient` and `Returning` choose who may time
out and who comes back with an older `since`.

`Proxy`: two requests, since one has to be under way while the other is granted,
fails or ends; three changes, so that a provider changes its kind and back, or a
right is taken away and something else changes; the shapes cover both roads,
every class of path, keys, sessions and nobody.  `Limits`: the window is 4 ticks
and the clock runs to 6, so that hits expire, and those that came at one end of
the minute before those at the other; batches of 2 against limits of 1, 2, 3 and
none are accepted, cut and refused; one proxied request under way is enough for
one that brings a limit that has changed since, and others come by batches;
the log holds 4 entries, one more than any limit.
`ModelLoad`: the place in a queue is kept for 2 ticks and the clock runs to 2, so
that places are kept and lost; two tasks, since two calls can both begin one.
`Providers` and `ApiKeys`: one row is enough, because no operation
reads two; two open forms are needed for one to be late; two keys for one that
deletes the other and for an id to be passed on; one limit in `ApiKeys`, since
none of its checked properties tells limits apart.  `CardMemory`: two services, for the second
one that is found at the start; the services are fixed, and the first request is
one.  `JobClient`: `Limit = 2` with batches of 2 and 3 puts the end of the page
inside one batch.

Fairness.  Scheduler: requests end, which is an assumption about clients and
upstreams (the http client has no read timeout, main.py 104; only GPU services
get one, proxy.py 111); probes and evictions answer or time out, created tasks run, and a waiter wakes every second; a
wake-up counts only if the waiter is starving or released, since the answer of
the hold probe is nobody's promise.  Worker: its steps, the upstream's answer
(3600 s at most), the slot (that is `JobsServedWhenQuiet`), and time.
Requests (`Proxy`): nothing is assumed, and no liveness is claimed.  Preloading: a suspended call wakes at the
latest when its `wait_s` is over, and a load ends with the 600 s of its http
client; nothing is assumed of admission.  Backends: the calls of a probe have
timeouts of 2 s and 5 s, and `wait_for` ends an eviction; backends need not ever
answer.  Client: the network delivers or fails, time passes; nothing is assumed
of the jobs.

Nothing is assumed of clients, administrators or cancellations.  `JobsServedWhenQuiet`
and `JobsEnd` are conditional on people staying away, as the program intends: people
always go first.  `JobsEnd` holds for jobs of equal priority that need the card:
a stream of more urgent jobs of the same model, or of commercial jobs, which
never wait for the card, would go first for ever.  `InteractiveServed` is checked
without callers that come back with an older `since`: they may stay in front of
a waiter for ever.  `WaitEnds` excepts a batch whose rows were all purged:
`wait_batch` takes the empty list for "not yet" and asks for ever.

## 4. What is proved

Eight modules hold proofs that TLAPS checks, each for every value of the constants
that satisfies the named ASSUMEs of the module it is about: any number of
callers, requests, keys, providers, jobs, restarts and clients, any limits and
windows.  The bounds of section 3 that are constants (`MaxChanges`, `MaxTime`,
`MaxKeys`, ...) are any number here.

| module | theorem | statement |
| --- | --- | --- |
| `GpuSchedulerProofs` | `SlotsSafe` (`NobodyIsLost`, `SchedulerTyped`) | `[](TypeOK /\ SlotAccounting /\ QueueConsistent)` |
|  | `EvictionEnds` | `[]EvictingHasTask` |
|  | `CardSafe` (`EvictionIsAlone`) | `[](OneBackend /\ NothingDuringEviction)` |
|  | `CardStepsSafe` (`DrainHolds`) | `SwitchOnlyWhenIdle /\ DrainAdmitsNobody` |
|  | `CardImplemented` | `ImplementsCard`: the scheduler implements `GpuCard` |
| `JobQueueProofs` | `JobsTyped`, `RunningRowsHaveTasks`, `JobsAreGivenUp`, `CallbacksTellTheEnd` | `[]TypeOK`, `[]RunningHasTask`, `[]AttemptsBounded`, `[]CalledBackWhenFinished` |
|  | `JobsImplementTable` | `TableImplemented`: the queue implements `JobTable` |
|  | `JobsEndForGood` | `EndedIsFinal` |
| `LimitsProofs` | `LimitsSafe` (`RetryAfterSuffices`) | `[](TypeOK /\ WindowRespected /\ HintSuffices)` |
|  | `QueueGrowsPaidAndCapped` | `GrowsPaidAndCapped` |
| `JobClientProofs` | `ClientTyped`, `AnswersStayTrue`, `OnePageIsEnough` | `[]TypeOK`, `[]ReturnedStaysTrue`, `[]SmallBatchIsOver` |
| `ProxyProofs` | `EntitledAlways`, `NothingReachesTheCardUnheld`, `LogIsExact` | `[]OnlyEntitled`, `[]CardNeedsSlot`, `[]LoggedOnce` |
|  | `GivenBackExactly` | `[]GivenBackOnce` |
| `ModelLoadProofs` | `LoadsAreConsistent` | `[]LoadsConsistent` |
|  | `RepeatedCallsKeepTheirPlace` | `PlaceKept` |
| `CardMemoryProofs` | `OwnerIsAlone` | `[]OwnerAlone` |
| `FormsProofs` | `RowsAreInOrder` | `[]RowsInOrder` |
|  | `KeysAreWhatWasAskedFor`, `WhatIsShownIsSaved` | `KeysAreAskedFor`, `SavedAsShown` |
|  | `IdsAreInOrder` | `[]IdsInOrder` |
|  | `DeletedForGood`, `AnAdminKeyIsLeft` | `DeletedStaysDeleted`, `AdminKeyLeft` |

None of them has a hypothesis of its own.  With these, every invariant of a
passing run and every property of one that is not about liveness has a theorem.

*Slots.*  None of the three conjuncts is inductive alone: the count of a model
is right after a switch only if exactly the waiters are in `waiting`, and the
waiters are only known through `pc` and the events.  The inductive invariant
`SlotInv` is their conjunction stated of the record, `Consistent(s, asleep,
started)`: with the callers asleep in `acquire` and the callers that run or
bypass, `s.waiting` and `s.event` partition the sleepers, and the counters count
starters and released sleepers.  Each method of the class has a lemma saying how
it changes `Consistent` (`SwitchTo` moves a set of sleepers to released and adds
its cardinality, `FreeSlot` takes one holder away, ...); each action then is one
or two of these lemmas.

*The card.*  `CardInv` adds to `SlotInv` what holds of the card: while `stale` is
FALSE, `Exclusive(sched, Scheduled)`, that is, what was let through belongs to
the admitted backend, a card being emptied is empty and has exactly one task,
towards `evicting`, and a card nobody has owned has neither waiters nor draining;
while it is TRUE, that somebody is admitted.  `Asked` says that who is suspended
in the last probe met an admitted model.  The slots are needed because the code
decides "nobody uses the card" from `in_flight` (`_maybe_switch` 233): `IdleCard`
turns a count of zero into an empty set.  `CardStep(s, S, t, T)` says what one
step in order may do to the card, and is proved along with the invariant, action
by action (`NextCard`); an answer is shown to keep it when it came in time
(`InTimeCard`), and a late one needs nothing.  The way back is `RecoversEmpty`:
`stale` only ends with the card empty, and an empty card is `Exclusive` whatever
had happened to it.  The two action properties are conjuncts of `CardStep`, and
the refinement maps each of its cases to `Take`, `Enter`, `Exit`, `Close`,
`HandOver` or a stutter, and the late answers and the recovery to `Break` and
`Recover`.

*Evictions.*  `EvictingHasTask` needs only the types besides itself: every method
that sets `evicting` creates a task towards the same model, and every task that
ends clears `evicting`, whoever had set it.

*Jobs.*  `QueueInv` adds to the types and the callbacks what ties the row to its
task: `TaskAndRow` (in which phases of the task the row may be running, queued
again or over), `OneRuns`, and `AttemptsLeft`: a queued row has a start left, so
that the bound is never passed by the next start.  Every action is shown to keep
it and, in the same lemma, to be a step of `JobTable`, from which `EndedIsFinal`
follows.

*Limits.*  `WindowInv` is, for each key, `InLine` and `Promise`.  `InLine`: nothing
is later than the clock, the deque holds every entry of this life that was let
through under a limit within the window, and the window was respected at each
entry.  What is let through next is then bounded by what the deque holds, also
when a limit that changed meanwhile comes with the request.  `Promise`: the deque
is no longer than the refusal left it, and one of its hits expires before the
promise does; a restart empties the deque, a popped hit is one fewer, and a key
that is let through ends the promise.

*Clients.*  `ClientInv` says of an answer on its way what `wait` will rely on
when it arrives: a row that says "over" is over or gone (`Truthful`), and, for a
batch of one page, every job that is not over has a row that says so
(`Complete`).  Both survive every step of the table because `JobTable` never
lets an ended row go anywhere but away, and because ids are not given twice.

*Requests.*  `Phases` says of a request what the code has established when it
gets to a place: from the moment it waits, fetches telemetry or is sent, its
principal may use its destination and its model, it has the slot `forward` was
given, and it has no row in the log yet.  It speaks of the copy of the
principal that the request took on arrival, so that the administrator's changes
cannot disturb it, and that is why `OnlyEntitled` is about that copy.
`OnlyEntitled` and `LoggedOnce` follow from it.  For `CardNeedsSlot`,
`KindsKnown` says that a request that is not in `stale` has read the kind its
provider has now: the slot is by what was read, the property by what is.  The
slots need counting: `TallyMoves` says how many hold and count when one request
has moved, and each step is shown to change slots and counter by the same
(`StepBooks`), the two losing ends included: they change neither, and the request
stays among the holders.  `ProxyInv` is `TypeOK`, `Phases`, `KindsKnown` and the
two equalities of `GivenBackOnce`; these need `Phases` for whose the slot is that
is given back.

*Preloading.*  `LoadInv` adds to the conjuncts of `LoadsConsistent` that calls at
work have a model, and `Places`, for `PlaceKept`, which is false of an arbitrary
state: a place that was given is safe because the entry of the model is not
removed without taking the place from all who have one, and within the expiry its
`first` is not later than what any of them waits by.

*Backends.*  `CardInv` ties the memory to the steps of a probe and an eviction
that are under way: what a probe has asked is in the names it has so far
(`ProbeSeesAll`, nothing runs meanwhile and so the memory only shrinks), and
beside the owner everybody is clean but the one who gets the card next
(`OthersClean`).  An eviction that ends well moves the exception from the next
owner to the old one, who is seen empty at that very moment.

*Forms.*  For `Providers` the types and `RoutedByKind` are inductive; a form on its
way is typed whatever has happened to its row.  For `ApiKeys`, `TableInv` says that
rows have ids given and plaintexts made, each plaintext only one, and
that `lastId` never falls, so a row deleted is not followed by one with its id;
`BrowserInv` types cookies and forms.  Every operation is shown to be one of
`Shrinks` (rows go, or keep key and role), `Grows` (one row with a new id and
plaintext) or `Hires` (a job of a key that exists), and the theorems about keys
are proved of these three.

Only model-checked: the properties that need fairness, which are out of the
prover's reach: `InteractiveServed`, `JobsServedWhenQuiet`, `JobsEnd`,
`CallsEnd`, `NobodyBlocked` and `WaitEnds`.

## 5. Known divergences

Where the code does something else than its comments, documents or templates
say.  The first one is a run (`find_mixed_backends`).  Of the others the module
has the property, with a comment that it is false, and TLC shows it when it is
put into the configuration named here, which checks the same instance otherwise.

| property | module | shown by | what happens |
|---|---|---|---|
| `NeverSideBySide` | `GpuScheduler` | `FindMixedBackends.cfg` | scheduler.py 209: two first requests of different backends, suspended in the probe, start together (line 18 says models of different backends never run side by side); by the same kind of late answer a request starts during an eviction (221) and the card is switched under a request (242) |
| `DrainingMeansStarving` | `GpuScheduler` | `SchedCard.cfg` | scheduler.py 235: `draining` outlives the waiter it was set for |
| `FinishedMeansCalledBack` | `JobQueue` | `JobsSafe.cfg` | jobs.py 302, 271: a job whose provider was switched off, or that is given up after preemptions, ends without its callback (README.md 193) |
| `NothingLost` | `Proxy` | `Proxy.cfg` | proxy.py 257: `build_request` stands before the `try`, and raises for an odd path or an address that is none; proxy.py 297: what `aclose` raises ends the `finally`: slot and count are kept for good |
| `InferenceIsLogged` | `Proxy` | `Proxy.cfg` | the same two: such a request has no row in the log |
| `CardAlwaysNeedsSlot` | `Proxy` | `Proxy.cfg` | proxy.py 391: a provider that becomes a GPU service while a body is awaited gets the request without a slot |
| `WindowAlways` | `Limits` | `Limits.cfg` | jobs.py 85, 81: what passes without a limit is not recorded, and a restart forgets all, so more pass in a minute than the limit says |
| `HintLetsIn` | `Limits` | `Limits.cfg` | jobs.py 92: `Retry-After` is by the oldest hit; with a window that holds more than the limit, which was lowered, who comes back then is refused again |
| `BatchHintSuffices` | `Limits` | `Limits.cfg` | mgmt.py 313: a refused batch keeps the tokens it got; the same batch is refused again after its `Retry-After` |
| `RefusalsLogged` | `Limits` | `Limits.cfg` | mgmt.py 316: refused submissions are not in the log (README.md 216-218 says they are) |
| `OneLoadPerModel` | `ModelLoad` | `Load.cfg` | mgmt.py 240: two admitted calls both see no entry in `_loading` across the probe and both load |
| `QueuedKeepsPlace` | `ModelLoad` | `Load.cfg` | mgmt.py 231: the 60 s run from the beginning of a call, which may last longer |
| `NoKeyMeansKeep` | `Providers` | `Forms.cfg` | mgmt.py 447: POST without `api_key` empties a stored key (line 415: None = leave alone) |
| `ClearIsOffered` | `Providers` | `Forms.cfg` | ui.py 347: the row that is edited has no `masked`, so the box that deletes its key is never shown |
| `SavedAsShown` | `ApiKeys` | `Forms.cfg`, as `KeysSavedAsShown == K!SavedAsShown` in `MCForms`, with `MCLimits == {0, 1}` | db.py 361: `list_keys` leaves the limits out; saving a row of the page sets them to 0 |
| `AnsweringServiceIsSeen` | `CardMemory` | `Memory.cfg` | main.py 28: when Ollama does not answer, the services are not asked |
| `AllForeignLetGo` | `CardMemory` | `Memory.cfg` | scheduler.py 200: of several foreign backends found at the start, one is emptied |
| `BatchIsOver` | `JobClient` | `Client.cfg` | opx_client.py 130: a batch of more than 500 jobs is judged by its newest 500 |

Not a property of any module, since `Proxy` has no backends and `GpuScheduler` no
destinations: proxy.py 392 takes a slot for the model by its name, and
`backend_of` (main.py 21) counts a model that no service lists as Ollama's; sent
to a service by slug, it is scheduled as one of Ollama's and runs beside them.

## 6. Assumptions between the modules

`Proxy` and `ModelLoad` assume nothing of whom the scheduler lets in, and when:
what they show of slots, rights and rows holds beside any scheduler that counts
as `acquire` and `release` do.  `CardMemory` has the scheduler as `GpuCard` when
it is in order: one owner, who changes over an eviction.  `GpuScheduler`
implements that until an answer comes too late, and again when the card has been
empty (`CardImplemented`); what becomes of the memory in between is not said.
`GpuScheduler` in turn takes any answer of the probe and any end of an eviction;
`CardMemory` says which there are.  That requests end is assumed of clients and
upstreams by `GpuScheduler`; a slot that `Proxy` shows lost (`NothingLost`) is one
that never comes back, and whoever waits for its card then waits until a restart.
`JobQueue` waits for its slot under the fairness that `JobsServedWhenQuiet` gives.

## 7. Not modelled

* Response collector: it parses the chunks of a stream for the log; it runs
  inside the generator of one request and shares nothing.  Its buffering of
  split lines would be a function on sequences, to be checked against a
  reference definition.
* Telemetry other than `bump`, the request log's rows and statistics, prices:
  readings, append-only rows, aggregates.
* Database schema and migration: SQL; a migration runs once, before anything
  else does.
* Web GUI other than the two pages of section 2 and `ui_job_cancel`: pages that
  show.  The settings page is `Reconfigure` of `JobQueue`, `Refresh` of
  `GpuScheduler`, `ChangeLimits` of `Limits` and `Administrate` of `Proxy`.
* Hashes, signatures, glob patterns, passwords: taken at their word.
* Result files of jobs, the worker's wake-up event, `job_view`: nobody decides
  by them.
* Configuration and deployment: constants and shell.

Next would be the collector, the migration, and the worker composed with the
scheduler in place of the fairness that stands for it.
