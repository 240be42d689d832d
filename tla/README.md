# A TLA+ model of pushward-integrations

The repository is a Go workspace of *bridges*: programs that watch a service (CI
runs, print jobs, downloads, backups, alerts, metrics) and keep a Live Activity, a
widget or a push notification on the PushWard server up to date.  Every bridge talks
to the server through one API client (`shared/pushward`).  The *relay* is the bridge
of bridges: one process, many tenants, some twenty webhook providers.

This directory models the parts of it that are concurrent, keep state over time or
have to survive failures: TLA+ modules, TLC runs on small instances, and proofs
checked by TLAPS for instances of any size.

## 1. Inventory

### Shared libraries (`shared/`)

| component | state | operations | what makes it correct | module |
| --- | --- | --- | --- | --- |
| circuit breaker (`pushward/breaker.go`) | closed/open/half-open, failures, openUntil | Allow, RecordSuccess/Reachable/Failure, Abort, IsOpen, Blocking | never half-open without a probe; only faults open it; late reports do not postpone the probe | `Breaker` |
| API client (`pushward/client.go`) | per call: attempt, Retry-After, budget; shared: the breaker | doWithRetryInto behind every request | bounded sleeping, every return path reports to the breaker | `RetryClient` |
| timer group (`syncx/timergroup.go`) | timer, wait group, stopped | Reset, Stop, Close, Wait | counter balanced; Wait means quiet; Close is final | `TimerGroup` |
| periodic runner (`syncx/periodic.go`) | cancel, done, stopOnce | Start, Stop | when Stop returns nothing runs | `PeriodicRunner` |
| CI poller (`cipoll/poller.go`) | tracked run and last ended run per repository, seed cache, pace, end timers | poll, track, seed, patch, end, evict, drain | a run is carded once, re-runs too; the card is ended for a run that is over and only then; detection leaves requests for what is tracked | `CiPoll`, `SeedCache`, `DetectionPace` |
| CI step model (`ci`) | none (pure) | steps, current step, busy time, weights, live window | weights measure the time a group ran, fit the steps on the wire, and agree with the window | `Ladder` |
| widget manager (`widgets`) | last published values, misses per series | create, skip, update, heartbeat, prune | what is shown is current, nothing dims, the series kept are those read of late | `ScalarWidget`, `SeriesWidgets` |
| poster cache (`poster`) | LRU of hashes, fetch slots | Thumbhash, fill, evict | only real failures are remembered; who waited is served | `PosterCache` |
| servers, config, auth, text (`server`, `config`, `auth`, `text`) | - | - | - | - |

### Bridges

| component | state | operations | what makes it correct | module |
| --- | --- | --- | --- | --- |
| github | conditional answers, workflow presence, request budget | probes, re-reads, prune | answers are GitHub's current ones, probing an idle repository is free, a spent window is left alone | `GitHubClient` |
| forgejo | repositories written off, tasks walked | probe, discovery, historic timings | a list of repositories is whole up to the page cap, no stamp of an edit is believed | `ForgejoClient`, `ForgejoTasks` |
| sabnzbd | one tracked download session, two-phase end | webhook, poll, track, end, cleanup | a tracker that follows nothing has left no card | `SabTracker` |
| bambulab | print state over MQTT, generation | message, track, end | no end of an earlier print reaches the next | `BambuTracker` |
| backrest | tracked operations, closed ones | poll, track, close, adopt | every card is closed, none by the run before; a silent bridge has a right card | `BackrestPoller`, `BackrestFrames` |
| grafana | entry per alert name, pollers | webhook, poll, check, sweep, resolve | the card and its poller follow the instances | `GrafanaBridge` |

### Relay (`relay/`)

| component | state | operations | what makes it correct | module |
| --- | --- | --- | --- | --- |
| two-phase ender (`internal/lifecycle`) | timers by key, gen, wait group | ScheduleEnd, EndIfTracked, StopTimer, StopAll, FlushAll, Wait, two callbacks | no orphaned timer, no lost end, quiet shutdown | `Ender`, `TwoPhaseEnd` |
| client pool, tenant breakers (`internal/client`) | own and server breaker, streak | Allow and reports | one tenant cannot stop the others; no wedged breaker | `TenantBreakers` |
| state store (`internal/state`) | rows with a TTL | Set, Get, Exists, Delete, group operations, sweep | what is deleted or expired is gone, the rest is not | `StateStore`, `RowStore` |
| LRU map, rate limiter (`internal/lrumap`, `internal/ratelimit`) | entries, buckets | GetOrCreate, evict, sweep, Allow | bounded, and nobody is let through above the rate | `LimiterMap` |
| ArgoCD (`internal/argocd`) | grace timers, per-app locks, tombstones, rows | events, graceExpired, StopAll | one activity per sync, ended on every replica | `ArgoCD` |
| providers with one row per incident | the row, the Ender | one handler per event | the card is up while it should be, ends, and the alert is taken back | `Plans`, `AlertPlans`, `MediaPlans`, `Relay` |
| Gitea | run and job records | run and job webhooks | the newest run has the card | `GiteaRuns` |
| Jellyfin | row, debounce maps, pause timer | play, progress, stop | a running playback keeps its card | `JellyfinPlayback` |
| Grafana | rows of a name and its groups | webhooks of groups at once | the device shows what fires | `GrafanaGroups` |
| Backrest failure pushes | records by plan and repo | failure, success, retract | a success takes its own failure back, and no other | `FailurePushes` |
| process (`cmd/pushward-relay`) | - | start, drain, flush, wait | shutdown order | `Ender` |

### How they interact

Bridges call the client; calls of one client share its breaker.  In the relay each
tenant's client has a breaker of its own in front of the pool's server breaker, and
handlers call their provider's Ender, which calls the client from timer callbacks
and deletes rows from the state store.  Everything is goroutines and mutexes in one
process; relay replicas meet only in the PostgreSQL store and on the server.

### What is hard here

* reports of concurrent calls reaching a breaker in any order (client, pool);
* check-then-act across two mutexes (pool, LRU map) or across a lock and a call (ender,
  BambuLab's generations, the Grafana bridge's entry);
* timers whose Stop comes too late, and wait-group counts that must follow them;
* two-phase ends superseded, called off or flushed while a callback is running;
* webhooks redelivered, reordered or arriving during the end of what they update;
* a handler cut off between two of its calls, by a fault or a crash;
* cached answers, seeds and tombstones that are stale when used;
* pages that shift between two requests, lists that lag, stamps of skewed clocks;
* shutdown: draining, cancelling, flushing, waiting, in this order;
* numbers from a server that must not overflow, and budgets at their boundary.

PROJECT.json lists each of these at its line.

## 2. The modules

| module | models | kind |
| --- | --- | --- |
| `Breaker` | `shared/pushward/breaker.go` | operators on a breaker as a value |
| `RetryClient` | `doWithRetryInto` of `shared/pushward/client.go`, over one `Breaker` | state machine |
| `TenantBreakers` | `relay/internal/client/breaker.go`, over a `Breaker` per tenant and one for the server | state machine |
| `TimerGroup`, `PeriodicRunner` | `shared/syncx` | state machines |
| `TwoPhaseEnd` | what `relay/internal/lifecycle/ender.go` promises its callers | abstract specification |
| `Ender` | `ender.go` and the shutdown order of `main.go`; implements `TwoPhaseEnd` | state machine, refinement |
| `ArgoCD` | `relay/internal/argocd/handler.go` on the replicas of the relay | state machine |
| `Plans`, `AlertPlans`, `MediaPlans` | the relay's handlers as sequences of calls | operators |
| `Relay` | one incident of one provider: its webhooks, handlers, rows, Ender and server | state machine, over the plans |
| `GiteaRuns`, `JellyfinPlayback`, `GrafanaGroups`, `FailurePushes` | the providers with more state than a row | state machines |
| `CiPoll`, `SeedCache`, `DetectionPace` | `shared/cipoll` | state machines |
| `Ladder` | `shared/ci` | pure operators, and the runs they are evaluated on |
| `GitHubClient`, `ForgejoClient`, `ForgejoTasks` | the clients of the forges | state machines |
| `ScalarWidget`, `SeriesWidgets` | `shared/widgets` | state machines |
| `PosterCache` | `shared/poster` | state machine |
| `SabTracker`, `BambuTracker`, `BackrestPoller`, `BackrestFrames`, `GrafanaBridge` | one bridge each, Backrest's in two halves | state machines |
| `RowStore` | what `state.Store` promises the handlers | abstract specification |
| `StateStore` | the stores in memory and in PostgreSQL; implements `RowStore` | state machine, refinement |
| `LimiterMap` | `lrumap` under `ratelimit` | state machine |
| `SharedPartsProofs` | theorems about `TimerGroup`, `LimiterMap`, `PeriodicRunner`, `PosterCache`, `StateStore`, `ScalarWidget`, `SeriesWidgets`, `BambuTracker`, `GrafanaBridge` and `SabTracker` | proofs |
| `PushProofs` | theorems about `RetryClient`, `FailurePushes` and `GrafanaGroups` | proofs |
| `EnderProofs` | theorems about `Ender`, and about `JellyfinPlayback` and `GiteaRuns`, whose cards end in two phases | proofs |
| other `...Proofs` | theorems about the module they are named after | proofs |
| `MC...` | instances for TLC; `MCServices` with the corollaries for the properties of its run | - |

Operators named "Mutant of X" are plausible bugs of X that the project keeps to
show that each property can fail; no specification uses them.

### Breaker and RetryClient

A breaker is a record: `state`, `failures` and `cooling`, which stands for
`now < openUntil`.  Each method is an operator from a breaker to a breaker
(`Allows` and `AfterAllow` are the result and the effect of `Allow`), so that the
client and the pool use the same definitions.

`RetryClient` has a slot per concurrent call.  A call is admitted or refused, then
goes round the loop: `FirstAttempt` or `Sleep` (the budget check included),
`WakeUp`, and one answer - `Failed` (network error or 5xx), `Throttled`,
`Rejected`, `Succeeded`, or `RequestNotBuilt` - until it returns.  Each way out
reports to the breaker as the code does (`recordResult`, `Abort` in the deferred
call).  `elapsed` is `time.Since(start)`, counted in ticks and saturated one above
the budget; `parked` is a history variable, the time slept.  The calls share the
breaker, and a cancellation may come at any time.

### TenantBreakers

Admission is two critical sections (own breaker, server breaker), with a third to
re-arm the own breaker when the server breaker refuses.  A report is one section of
the own breaker and then one or two of the server side: `recordFailure` holds
`s.mu` (`smu` in the model) but `cb` has a mutex of its own, so `IsOpen` and
`RecordFailure` are two steps and the reports that do not take `s.mu` fall between
them.  The window of the streak is one bit, `gap`.

### TimerGroup and PeriodicRunner

Timers are numbered as `Reset` creates them.  `Reset` is three steps - add, stop the
prior timer, arm the new one - under `mu`, because timers fire and callbacks return
beside `g.mu`; `caller` is the callback that called it, which cannot return
meanwhile.  `Stop` and `Close` are one step each.

In `PeriodicRunner` `once` is who is inside `stopOnce`: the others wait for it, then
return.  Start may come after a Stop.

### Ender

An end is identified by its `gen`; `pc[g]` is where its timers and callbacks are,
`timers[k]` the `timerPair` of a key.  Each section under `e.mu` is an action, and so
are `Exists` and `EndIfTracked` (the row is read before the lock), each attempt of
`updateWithRetry`, its pause, the deletion of the row and the clean-up.  An update
that fails may have been applied.  `FlushCancel`, `FlushCollect`, `FlushWait`,
`FlushSend`, `FlushDone` and `WaitAll` are the shutdown, which starts once the HTTP
server is drained.  `Open` is the environment: a handler that saves a row and updates
the activity.

`TwoPhaseEnd` says what callers rely on: an end waits, shows its content, finishes,
and is `off` if a later end of the activity or a stop overtakes it.  The refinement
maps `pc` to that status by `Status`: an end that no longer holds its key is off,
whatever its callback is still doing.

### ArgoCD

One application of one tenant: its row and its tombstone in the store, its card on
the server (`card` is the step it shows), and per replica the armed timers, the one
in `graceTimers`, the timers that have expired and wait for the app's lock, and the
handler that holds the lock.  A handler loads the row and from it computes the rest
of what it does, a sequence of operations (`SyncRunningPlan`, `DeployedPlan`, ...)
that `Step` executes one by one; each of them may fail where the code has an error
path, and replicas interleave between any two.  `StartCleanup`'s goroutine
reads outside the app's lock in three steps.  A replica may stop (`StopAll`, then
`FlushAll` and `Restart`) or die (`Restart`) between any two steps.

The Ender is here with its timers and callbacks, as one key of one replica has it:
`ender` is the last end scheduled (its generation, which of its two timers is armed or that
a callback of it runs), `callbacks` what each running callback will do next.  `FireEnd` starts a
callback, `SendOngoing` is the frame of phase 1, `SendEnded` and `DeleteEnded` those of phase 2
or of the flush.  Stopping or superseding an end reaches an armed timer only, so the frame of
phase 1, the final content at its step, may land after the first update of the next
sync (`handler.go:445` does not wait for `ender.go:183-190`).  `stale` records that the card shows such
a frame; the next update of the card clears it.

### The relay's handlers: Plans, AlertPlans, MediaPlans, Relay

A handler with at most one row per incident is a *plan*: the calls it makes, in order,
each with what the handler does when the call fails (`or`), down to the answer it gives.
`AlertPlans` and `MediaPlans` have a plan per event of each provider, parameterised by
the URL the hook posts to (the channels it allows, `ack=1`, `retract=1`).  `Relay`
executes them: a provider is chosen in Init, webhooks arrive as its service would
send them - the next one when the last was answered, the same one again at any time -
and each call is one action against the rows, the Ender's timers and callbacks, the
card, the repeats of an acknowledged alert and the last push under its collapse id.  A
process may crash between any two calls.  `last` remembers what the last webhook
answered 200 said (on, off, unsure); the properties compare the server with it.

### GiteaRuns, JellyfinPlayback, GrafanaGroups, FailurePushes

`GiteaRuns` reads the group of records, decides, and writes in the code's order; runs
have increasing ids, webhooks come late, twice and in any order, one handled at a time in
the run that is checked.  `JellyfinPlayback` has the player (plays, pauses, seeks, stops) as
the source of webhooks, the debounce maps, the pause timer with the entry that says
which timer is current, and the Ender.  `GrafanaGroups` has one handler per group of one
alert name, which read and write the same rows between each other's calls.
`FailurePushes` keeps the record of each failure, the collapse id a push went under and
the retracts still under way, which land whenever they like.

### CiPoll

One repository: the runs as the forge has them (`forge`), the loop (`loop`, one value
per call it makes), `p.tracked` and `p.lastEnded` of the repository, and the one
activity that all its runs share, because its slug is the repository's (`card`).
Each of the loop's calls - the list, the creation, the seed, the scan of the jobs,
the confirmation by `GetRun`, the patch - is a step of its own, since the forge
moves on and the end's callbacks run between any two of them.  A section under
`p.mu` is part of the step of the call before or after it.

Each time the loop tracks a run it opens a *session*; `end[s]` is the session's
TimerGroup and the frames its callbacks send (`Fire`, `Phase1`, `Rearm`, `Phase2`,
`Clean`).  `Close` leaves a callback that runs to finish, as `TimerGroup` does.  A
*shape* is what a ladder is told apart by: how many groups it has and whether their
labels are the run's own.  `tracked` keeps what was sent (`sent`, `total`, `step`,
`liveSent`, `liveStep`) next to what is known (`shape`), as the code does, so that a
patch sends only what changed and a failed one promotes nothing (`Landed`).

Three reductions keep the state space small.  A run moves only just before the loop
asks of it (`Asked`): nobody else can tell when it moved.  Deadlines that depend on
the clock - the next pass, a heartbeat, an eviction - may have passed whenever
the loop looks.  And when an idle pass begins, the callback of an end superseded in an
earlier pass is over (`Rested`): as shipped the passes are 60 s apart, and an end's
request has 30 s (`endPushTimeout`).

### SeedCache, DetectionPace and Ladder

`SeedCache` files what finished runs measured and looks up what a run is seeded from; its
history is which run measured which group.  `DetectionPace` is the arithmetic of
`spendable`, `activeReserve` and `effectiveIdleInterval` driven by the clock, with every
request billed and the budget read off the answers.  `Ladder` translates the pure
functions of `shared/ci`; its state is only there to produce lists of jobs a forge can
show, with stamps that are right, missing or ahead, and its properties are evaluated on
each of them.

### The clients of the forges

`GitHubClient` makes one call at a time, each request a step; a body is told apart by a
number and its ETag is that number.  `ForgejoClient` has the retries, the repositories written
off and the routes of `ListRepos`, page by page, any of which may be refused or fail, the
look-up of the login included.  A list is promised whole only up to the page cap: past it
`listReposPaged` returns what it has and no error (`client.go:656`, `TestListReposPageCap`).
`ForgejoTasks` walks the pages of `/actions/tasks` while other runs create tasks (which
shifts every row) and rows are rewritten or pruned.

### Widgets

In `ScalarWidget` a step is a tick of the poll interval or a unit of ten seconds; `past`
remembers the last reading and whether the widget has dimmed on the device.
`SeriesWidgets` is a tick per step: every set of readings, and every outcome of each call
that follows from it.

### PosterCache

Entries are numbered as they are made and `order` is the LRU list; an entry that has been
evicted lives on as long as its fill and those who wait for it.  What a fetch comes to is
its own choice.  Settling an entry and closing its channel are one step.

### The bridges

`SabTracker` follows one goroutine through its loops, a poll being the unit of time.
`BambuTracker` has the printer's states as messages, the generation that guards each
phase, and sends that take their time.  In `BackrestPoller` a poll reads the window and then
handles each operation as it was read, while timers fire.  `BackrestFrames` is its other
half: one operation, polled once per unit of time, from the row through rate, window and
cached log to the frame and the decision to send it; `t` is what the poller remembers, `card`
what the server has merged, and the two part when a push is lost.  `GrafanaBridge` has the
webhook goroutines with the steps between their critical sections, the checker, the
sweep and the poller.  Each has faults of the calls, a stop or crash of the process where
the code has a recovery, and the card on the server.

### StateStore and LimiterMap

`StateStore` stamps a row when it is set, filters when it is read and deletes at a sweep;
`Inclusive` is the one difference between memory and PostgreSQL.  `RowStore` is what the handlers
are promised - a row until it is deleted, replaced or expired - and has no sweep: the
sweep refines to a stutter.  In `LimiterMap` a request looks up under the read lock,
creates under the write lock and spends outside of both, while entries are evicted and
swept.

### MCServices

The small systems share no state, so one run checks them all: `service` is chosen in
Init and says whose step Next takes, and eight variables stand in for those of the service
(`INSTANCE ... WITH`).  Each service's properties are conjuncts of the run's.  The services
that are proved about are instances of `SharedPartsProofs` (`Proved`) and `PushProofs` (`Pushed`) and take the module's
CONSTANTS, with assumptions under names of their own; the others have their bounds in
their INSTANCE.

## 3. The runs

| run | properties | what it shows |
| --- | --- | --- |
| `retry` | `TypeOK`, `HalfOpenHasProbe`, `BreakerMoves`, `CallsReturn` | no return path of a call forgets a probe; throttling never opens the breaker, only success ends a streak, no probe is postponed; every call returns and sleeps within its budget |
| `tenants` | `TypeOK`, `ProbesOut`, `OneTenantNeverStopsOthers`, `ServerProbeSettles` | the pool's breakers do not wedge, and one tenant does not stop the others |
| `timer_group` | `WgCounts`, `QuietAfterShutdown`, `WaitReturns` | Wait means quiet, for callbacks that reschedule themselves too |
| `ender` | `ArmedIsCurrent`, `QuietAfterExit`, `FlushedStaysEnded`, `ShutdownEnds`, `TwoPhase` | no orphaned timer, a quiet shutdown, and the refinement of `TwoPhaseEnd` with its fairness |
| `argocd_single` | `TombstoneKeepsOut`, `CardShowsStep` | late events open no grace period; the card shows the step of the row, but while an end is scheduled or the frame of a stopped one is on it |
| `argocd_pair` | `PendingIsTimed`, `GraceEnds` | no app stays hidden when a replica goes: another replica takes its grace period over |
| `ci` | `NoSecondCard`, `CardNotEndedEarly`, `CardFits`, `SupersededQuiet`, `TotalClimbs`, `EndComes` | which run has the card, that what it shows fits, that it gets there and leaves |
| `relay` | `CardKept`, `AlarmStops`, `EndComes` | for each of the plans' providers: what is up can be taken down and no end of an earlier incident takes it down; a resolve silences the phone; an outcome ends the card |
| `services` | one per group of services, listed in `MCServices` | what each of the small systems keeps, see there and in its module |
| `argocd_sweep`, `pace`, `series_miss` | one each | counterexamples to what a comment of the code says, see section 6 |

### Bounds

* `retry`: two calls, so that one can report while the other is the probe; a threshold
  of 2 and three attempts, so that streaks and the last attempt are told apart; hints
  none, negative, below and above the clamp, and one that overflows if multiplied first
  (`MaxInt` = 15 for int64).  The budget 5 lies below the clamp 8, so that both bite.
* `tenants`: two tenants, one with two calls (a race for one own breaker), `MinTenants`
  2 (3 in the code), threshold 2.
* `timer_group`: five timers, two chains of callbacks that reset the group.
* `ender`: one key, three ends: one superseded, the one that supersedes it, one
  more.  Ends of different keys share only the wait group and the flush; the proofs
  are for any number of keys.
* `argocd`: a tick is 5 s, a grace period two ticks and the slack one, the defaults
  of the code (10 s and 5 s).  Webhooks arrive until `LastEvent`; then the clock runs
  until every timer has fired (`Horizon`).  `Limit` bounds the webhooks, failing calls,
  restarts and sweeps of a run; each run has the ones its question needs.  With two
  replicas the events are two, the fewest that put a pending row in one replica and
  its next webhook in the other.  The rows of older pods (pending without
  `pending_since`) are initial states.  `Grace` = 0 is covered by the plans but no
  run in the list sets it.
* `ci`: two attempts in all - two runs, one superseding the other, or a run and its
  re-run; the first run has two groups, so that there is a gap between two waves of
  jobs, and the second may be seeded with a longer run of another path.  One upset
  (`Limit.upsets`): a call that fails, an answer that is lost, or an eviction.  `Lag` is 2, the "pass
  or two" of the code's comment (`poller.go:131-132`): up to two lists report a finished run,
  and each of them may be the last.  `Sessions`, 5, is never used up: a run that is superseded may
  be carded again off the second of those lists.
* `relay`: two handlers, so that a redelivery meets the first delivery; three webhooks,
  an incident and its end with one of them twice or a new incident after it; the URL
  sets of the relay's README.  `MaxKinds` = 1: the faults of one behaviour are of one kind
  (the store, the server, a crash), any number of them; the providers promise
  something after each kind, and nothing after all of them (`Survives` in `Relay` says which
  provider promises what).
* `services`: per service the smallest instance in which its mutants are caught - two
  runs or operations where one supersedes the other, two groups or instances where two
  goroutines meet, three series for a cap of two, three keys for a map of two - with four or five
  webhooks, and one fault (two in `ScalarWidget`, three in `ForgejoClient`, whose attempts
  and rate-limit retries add up to three requests).  The clocks run past the longest TTL of
  the instance.  What each abstracts:
  - Gitea and Jellyfin webhooks and those of `FailurePushes` are handled one after the other;
    in `JellyfinPlayback` a pause timer does not fire while the frame that armed it is still
    being handled (the timeout is five minutes);
  - `SabTracker` counts time in polls; a poll's patch cancelled by a stop is not sent in
    `GrafanaBridge`, nor an expression that is not known yet asked for; an operation is
    handled in one step of `BackrestPoller`;
  - `BackrestFrames` has one operation, polled once a unit for seven units, so that a window
    can run out between two polls and a heartbeat come due; rates are in tenths of a byte and
    rounded up, and the log of a prune is on (`render.logs`), as is `render.live_progress`;
  - `ScalarWidget` uses units of ten seconds and the shortest legal stale window, 60 s,
    where the floor and the interval's limit leave the least room;
  - `Ladder` has whole seconds, and two jobs: two shards of a group or two groups;
  - waits and backoffs of the forge clients are shorter than a unit of their clocks, and
    `ForgejoClient`'s repositories do not change during a discovery; there are up to five, of
    which two pages of two show four, and the one left out is the owner's last or the only one
    of the owner;
  - the relay's and the database's clock agree in `StateStore`, and a request of `LimiterMap`
    takes no time: time passes between its steps only as the clock's own step;
  - the cap of 500 active alerts is left out of `GrafanaBridge`.
* `pace`: two repositories and a window of eight ticks with twelve requests; discovery never
  fails.

### Fairness

Weak fairness of what is already under way: a call's loop (every request has a
timeout, every sleep a timer), the body of a callback, a timer that is armed, a handler
that has begun, the shutdown once called, the clock.  Nothing is assumed of callers: no
webhook, call, cancellation, `Stop`, sweep or restart ever has to happen.  The one strong
fairness is `TenantBreakers`' handing on of `s.mu`: a Go mutex starves no waiter.  In
`CiPoll` the loop ticks (`Poll` selects on a ticker) and each end's timers and callbacks go
on; the forge need not move, no run need appear or finish, and the process need not stop.
`MCServices` states no fairness: its properties are invariants and the refinement of steps.
Where a program may really come to rest - all timers fired, the group closed - most models
have a stuttering action (`Quiet`, `Finished`, `Exited`, `Returned`), so their runs check for
deadlock; `relay`, `services`, `pace` and `series_miss` do not, because their webhooks, events and
clocks are bounded and then end.

## 4. The proofs

All theorems hold for any number of calls, tenants, keys, timers and ends and for any
threshold and bound allowed by the assumptions of the module (`ThresholdAssumption`
and its like: thresholds, attempts and units are positive, the set of tenants is
finite, some key exists, runs, sessions and ArgoCD's webhooks are numbered from 1, a
backoff is within the clamp on delays).  A theorem that needs more says so in its own
ASSUME, named below with the reason.

* `PushProofs`, on the client every push goes through and on the pushes of two providers.  On
  `RetryClient`: `ThrottleDelayClamped`, that a delay a server asks for lies
  between 0 and the clamp for every integer it may send; `TypeCorrect`; `NeverWedged`,
  that a half-open breaker has a call which owes it a report.  The invariant adds to
  these that a closed breaker has counted fewer failures than its threshold (else a
  late failure would leave `Breakers(Threshold)`) and that a call that sleeps or sends
  has an attempt left (else the loop variable would pass its bound).  `BreakerMovesWell`
  is the action property `BreakerMoves`, from the same invariant.  `SleepsWithinBudget`
  (`ParkBounded`) rests on `Slept`: with a budget, what a call slept is part of what has
  elapsed; without one, it is bounded by one clamped wait per attempt used up (`Waits`), which
  takes that the longest backoff, 8 s in the code, is within the clamp (`BackoffAssumption`).

  `FailuresStay` (`FailurePushes`), `CurrentFailureStays` and `SuccessTakesBack` for any operations and any number
  of webhooks.  `FInv`: while nothing failed, a webhook is at one of its stages (`ProblemComes`, ...,
  `SuccessOver`), and at each of them a key's record says of every id of the key what the devices have under
  it (`Kept`): the ids after the record's have never been used, those before it show nothing or have a retract on
  its way, and the record's own shows the failure it names or, with none recorded, none that still fails.
  Between two calls of a webhook the record in the store is behind, so the stage says of which record - the
  one loaded, the one about to be saved, one that is cleared - this is true.  It assumes that no operation is called
  `ANY` or `success` (`OperationsNamed`; Backrest's are SNAPSHOT, PRUNE, CHECK and FORGET).

  `GroupsStay` (`GrafanaGroups`), `FiringWasPushed` and `PushMatchesGroups` for any groups, alerts and
  interleavings of their webhooks.  `NInv` has three parts, each claimed for the faults it survives:
  - whatever happens, a webhook reports what fires and what fired at the group's last report, and what is left of
    its plan fits that and `?retract=1` (`TypedGroups`);
  - unless a row was not written, what a group reported firing was pushed, so was what the row of the last push
    says, and whoever compares itself with a row it has read compares with what is still the last push, or with
    one that says of its group only what was pushed (`PushesFit`): another group's push in between says
    nothing of its alerts, which is why the comparison is safe although it is stale;
  - if nothing failed and no group appeared unseen, the devices show a push while a group owes one, none of a
    group's alerts when it owes none, its own row stands before its push goes out, a group that is about to
    take the push back has no other on record (`Alone`), and a push that repeats has a group left to stop it
    (`NoteFits`).

  `GroupsNamed` assumes that no group has the name of a row - its sub key is prefixed with `g-`
  (`grafana/handler.go:86`) - and that groups share no alert: Grafana puts an alert in one group, unless a
  policy goes on to another route.  Of alerts that two groups share, the code takes one that either
  resolves as resolved for both (`handler.go:453`), so that the devices need not agree with
  what the other group reported last; neither the run nor the theorem is about those.
* `TenantBreakersProofs`: `TypeCorrect`, `NeverWedged` for both breakers, and
  `TenantsIsolated`.  The last needs that the tenants of the streak are among those
  that faulted since the last success, and that nobody but the holder of `s.mu` is in
  `locked` or `seenOpen`.
* `SharedPartsProofs`, on the parts that the services rest on, on the widgets and on three of the bridges.  All but
  the timer group are checked by the run `services`, whose properties follow from these theorems
  in `MCServices` (below):
  - timer group: `CounterBalanced` and `QuietForGood`.  The invariant ties the counter to the set
    of live callbacks and says that an armed timer is the group's own and that a closed group's
    timer is not armed;
  - rate limiters: `RateLimited`, that a key which was not evicted is let through no more than its
    burst and its rate, and that the map keeps its size.  `LInv`: what a key was let through and
    what its bucket has left together stay within the rate (`WithinRate`), which holds across a
    sweep because a bucket that is stale is full again - the assumption `RatesAssumed`, `Burst =<
    Rate * MaxAge`, which the relay's limits (bursts of 10 at 1/s and 20 at 5/s, swept after five minutes) satisfy - and
    across a race because a bucket is one key's (`OwnBuckets`) and the one a request holds is still
    its key's in the map (`HeldAreFresh`);
  - periodic runner: `StoppedForGood`.  `PInv` says who is inside the once and what it is waiting for;
  - poster cache: `PostersKept`, both of its properties.  `CInv`: an entry whose fetch succeeded is not
    fetched again (`Lasting`), a URL has one entry in the cache (`OneEach`), and that entry expires
    exactly when the failure it remembers does (`Remembered`);
  - state store: `StampedAlways` and `StoreKeepsPromise`, that both stores implement `RowStore` for any
    groups, keys and values and any TTLs that are natural numbers.  It rests on one fact,
    `Stamped`: what an entry carries is a time or nothing; the rest is that an entry filtered
    out by a read is one whose time is over, so that a sweep changes no row, and that a tick removes
    exactly the rows whose last instant it passes;
  - widgets: `ShownStays`, `ShownIsCurrent` and `NeverDims` of a scalar widget.  `TickInv`: what the loop
    remembers as sent is what the server shows, a change from the last reading small enough to be left
    out (`Settled`), and unless a tick was missed every tick found the heartbeat not due yet or sent it
    (`Beating`).  `WindowsAssumed` has two parts that count: the shortest heartbeat, 30 s, is at most
    half of the window, of which 60 s is the least; and a tick's query and call take at most a sixth of
    it, which is all that `HeartbeatFor` leaves (`manager.go:411`: the gap "tops out at five sixths").
    The second is about the environment: the metrics client gives up after 30 s
    (`metrics/client.go:84`), an attempt of the API client after 10 s (`pushward/client.go:162`), so in a
    window under four minutes a slow query and call may dim a widget although nothing failed, as may
    retries in a longer one.  `SeriesFollowed`, `SeriesMatch`: while no call failed, a series' misses are the ticks
    for which it has been away (`Matched`), so it is kept exactly as long as the grace;
  - BambuLab bridge: `PrintsKept`, `NewPrintKeepsCard` and `CardIsAccountedFor` for any number of messages and
    faults.  `BInv`: an end that is armed or being sent carries a generation that has been given
    out, and none of them the one of a print that has begun - unless it was overtaken while being
    sent, which `past.overtaken` records;
  - Grafana bridge: `AlertsFollowed`, `CardFollowsAlert` and `PollerHasEntry` for any goroutines, instances
    and webhooks.  `GInv` has two parts.  While no call failed and no two sections overlapped
    (`Together`), card, poller and entry go together up to the goroutine that is about to join
    them; if besides no webhook was lost (`Current`), an instance of the entry that does not fire, or
    fires without being in it, has its goroutine on the way, and what the checker asked about
    before the last webhook is not what it deletes;
  - SABnzbd bridge: `SessionsKept`, its three properties for any numbers of polls (`PollsAssumed`: a hold is
    waited out for at least one).  `SInv`: where a session is bounds what it has waited
    and has still to wait (`HoldFits`), from which `HoldGivenUp` follows, and a mode the dedup
    has recorded is on the card or was overtaken by the unpack (`ModeFits`).
* `MCServices`: `SharedPartsStay`, `BambulabStays`, `AlertsStay`, `SabnzbdStays`, `WidgetsStay`, `PushesStay` and `CardsStay`, that
  the whole of which the run checks an instance keeps `SharedPartsKept`, `BambulabKept`, `AlertsKept`, `SabnzbdKept`,
  `WidgetsKept`, `PushesKept` and `CardsKept`: a behaviour of the whole is one service's (`ServiceIsChosen`), and that one's theorem applies to it, for every
  value of the constants the assumptions allow.  Only what another service's INSTANCE fixes is
  fixed here too, and the stores' sets of keys, values and TTLs.
* `EnderProofs`: `TypeCorrect`, `NoOrphans`, `ShutdownIsQuiet`, `FlushedIsFinal` and
  `ImplementsTwoPhase`.  `IInv` joins the wait group's count, `ArmedIsCurrent`, the
  bookkeeping of gens (what is in the map is known and has its own key) and what
  each phase of the flush has established.  Two lemmas carry it: `SweepKeeps` for every
  operation that stops timers and `CallbackKeeps` for every step of a callback.

  `PlaybackStays` (`JellyfinPlayback`), `PlayingStays` and `LeftCardEnds` for any positions and number of webhooks.
  `VInv` says where the one webhook at work is in its plan and what holds there (`Stage`): a start is `Calm` once it
  has stopped the timers, a resume stops what the pause armed before it shows the card (`Resumed`, `Still`), a pause
  has its timer armed and its card listed before it answers (`Paused`, `Left`).  Timers fire between the calls, so
  each of their steps is shown to leave every stage true (`Framed`, `Quieter`, `Handled`, and `FiringKept` for
  all stages at once): a pause timer that has fired and whose entry was taken away since stays superseded, and an end that is on
  its way stays on its way until the card is down (`Pledged`).  `Stage` is claimed until a fault that
  `PlayingStays` does not survive.

  `RunsStay` (`GiteaRuns`), `NewestRunShown` and `TombstoneHolds` for any handlers, jobs and number of webhooks and any
  runs numbered from 1 (`RunsNumbered`: Gitea's ids start there, and 0 stands for no record).
  `RInv`: nobody at work, the group, the timers and the card agree with the newest run answered and the runs
  that completed (`Settled`: `Guarded` whatever call was refused, `Followed` if none was); or one webhook is, at a
  place of its plan (`Working`) where what it has written and stopped so far makes the rest lead back to `Settled`
  with its own run counted (`Fresh`, `Halted`, `Vacant`, `Recorded`, `Shown`, `Entombed`).  Both properties are about
  webhooks of a repository that did not meet, as `past.raced` records; with that the invariant may take one at a time
  although there are many handlers.
* `CiPollProofs`: `SupersededStaysQuiet` and `NotEndedEarly`, for any number of runs, groups,
  sessions, re-runs and faults.  The first rests on `IInv`: an end marked superseded has a closed
  group and a callback at work, and if it is the last session's, the loop has no run on
  screen.  The second on `JInv`: every end at work is either the pending one or was
  superseded by a run of another ID (`Attended`, `Apart`), so no late callback takes a new run
  off the screen; what each place of the loop has established (`Detection`, `Busy`); and
  that an end at work is of an attempt the forge had confirmed over (`EndsKnown`), which stays
  true as the forge moves on (`KnownKept`).  `NeverCardedAgain` (`NoSecondCard`) is for a
  forge that reports a run that is over in as many lists as it likes (any `Lag`), and promises what
  one remembered run per repository can: the attempt ended last is left alone until another run is
  picked, and every attempt is by the first list that reports it late, whatever was picked (so
  behind a lag of one nothing is carded again).  Once the superseding run is picked the code does
  card a superseded run again, see section 6.  `KInv` says that the attempt ended last, if it may be
  listed, is the pending one or `lastEnded` (`ReportedStill`), that no other is still to be
  reported for the first time (`ListedOnce`) and that what the list in hand has of either is
  recognised (`ListHolds`).  `CardAlwaysFits` and `TotalsClimb` rest on the types (`TInv`) and on `CInv`: a
  ladder that counts as sent is on the card or will be sent again (`Sent`), so is a live window
  until an answer is lost (`Window`), and what is known of a run, and what its end will say, is no
  less than what the card shows (`Climbs`).
* `ArgoCDProofs`, for any replicas, revisions, grace period and limits.  A handler is a plan, a
  sequence of steps whose rest is drawn up when it has loaded the row, so everything rests on
  one lemma: `PlanSound`, by cases on the event, says of every plan what the invariants need of the
  order of its steps (`Sound`).  The invariants are then of the plans' remainders, and each step of a
  handler takes one element off (`...Continue`).  `TypeCorrect` is `TypeOK`; beyond it, with no failed
  call, as the properties say:
  - `TombstoneHolds` (`TombstoneKeepsOut`), for at most one replica.  `KInv`: while the tombstone
    stands the row is not pending, and what is left of a handler's plan saves no pending row,
    unless it has still to look at the tombstone; a plan that lays one has deleted a
    pending row before.  Each replica has an app lock of its own, so with two the
    check and the save of one can have the tombstone of the other between them;
  - `PendingTimed` (`PendingIsTimed`), for any number of replicas and `Grace > 0`.  `OInv`: a plan
    that saves a pending row arms a timer after it, one that disarms a timer shows or drops
    the app after it (`PlanArms`); what `graceTimers` holds is armed, has expired or is being
    handled (`Held`); and for a pending row some replica has a timer or a plan that will
    arm one, show the app or drop it (`Timed`).  With `Grace = 0` nothing arms a timer (the card is
    created at once), but `sync-running` saves a row that is pending as it is, so the
    statement is not one about that setting;
  - `CardShown` (`CardShowsStep`), for one replica and no restart.  `CInv`: the card shows the row's
    step, or an end is scheduled, or what it shows came from an end that had been stopped (`Balanced`),
    and nothing left of the plan changes that; or what is left is
    creations and the update with the row's step (`Updates`); or it will balance the two,
    whatever the card shows now (`Restores`).
* `RelayProofs`, for any handlers, webhooks and deliveries: `AlarmsStop` (`AlarmStops`), that a resolve
  nothing went wrong with leaves no alert open on a phone and none repeating, for the four
  alerting services and the universal alerts.  Plans nest - a look-up leads to one plan or
  another, which asks whether an end is pending and goes on to a third - so the
  invariant `Alarms` is about what a handler has left: it is always in one of the forms of its
  `Voice` (`RaisePlan`, `OffPlan`, `OnPlan`, `AsidePlan`), and a call takes off the head or goes on
  with a plan of the next form.  On top of that
  - an alert is sent only when its row is written, with no end under way, and a create comes before
    the update that would roll it back (`RaisesWell`);
  - an alert on the phones has a row for its resolve to find, or a resolve at work will still
    retract or replace it (`Clearing`); if an end is scheduled or the last answer was a
    resolve, one is clearing it or a newer alert is being raised (`TakenBack`, `EndsWell`).
    `OneVoice`, that a sender tells one thing at a time, is what makes this hold of any number of
    handlers: nobody raises while another resolves.

  Its assumption `SameChannels`: the URLs of a service that asks for acknowledged and retracted
  alerts agree on their channels.  It is not a convenience: without it the statement is false
  (section 6).

  `CardStays` (`CardKept`), for every service, whatever its URLs ask for, and the faults it survives.  A
  handler is at a stage (`Stages`): `fresh` before it shows the card, `clear` once it has stopped
  every end, `kept` with the row and no card, `up` with a card and no row, `shown` with both,
  `closing` on its way to the end, and so on.  Three parts make the invariant `KInv`:
  - what a handler has left fits its stage (`Fits`).  A set of plans for each stage is `Closed` if
    whatever the first call of one meets, the rest is in the set of the stage it leads to
    (`Follows`); a plan fits if some closed family has it.  So a plan is shown to fit
    from its end, one call at a time (`StopFits`, `SetFits`, `CreateFits`, ...), without
    a recursion over plans, and each service's webhooks need one lemma (`WebhookFits` joins them);
  - what the stage says of the row, the end and the card is so (`Knows`), and it goes with what
    the handler's sender tells (`Voiced`);
  - a card shown has its row, its end, or a handler at a stage that will see to one (`Pledges`,
    `Held`), a callback that has ended the card is not undone (`Shut`), and what was answered 200
    stays up until its end is told (`StillUp`).

  The last two are claimed only while nothing has gone wrong that the service need not
  survive (`Sound`); TLC has checked `KInv` on the instance of the run before it was proved.

What stays with TLC: liveness (`CallsReturn`, `ServerProbeSettles`, `WaitReturns`,
`ShutdownEnds`, `GraceEnds`, `EndComes`) and the fairness part of the
refinement, which are out of the prover's reach; of the services, the Backrest bridge, the step model and
the clients of the forges.  What `Ladder`'s folds compute for every list would need induction over data,
which is out of reach too.

## 5. Not modelled, and the plan

Left out for good: HTTP, JSON, SQL and MQTT themselves, wording and layout of cards,
configuration, logging, metrics, wiring, test helpers, image decoding, which URLs may be
fetched, the wire types (`types.go`), how a universal payload is recognised and redacted
(`universal/heuristics.go`, `redact.go`, the detectors).  In the modelled parts:
request builders and typed errors of the client; the LRU map of clients, `Retract` and
`SendNotification` of the pool but for their outcomes; content and URLs of ArgoCD's cards; the
expiry of the relay's rows, hours away; the app locks of ArgoCD, which are taken as a mutex per
app; the stamps of a live run in Forgejo's client and the listing of jobs and branches in
GitHub's; sparkline points of widgets, metric queries and timelines of the Grafana bridge; the
switches `live_progress` and `step_weights` of the CI poller, which are on.  A session in which a
live window was applied and the answer lost is outside `CardFits`: the loop cannot know of that
window.

In order of importance:

1. An abstract specification of `CiPoll` - one activity per attempt, started once,
   ended once - and the proof that it implements it, step by step.
2. Proofs of the services that have an inductive core and none yet: `SeedCache`'s
   bound, and that an answer `GitHubClient` serves from its cache is what GitHub has.
3. `AppLocks`: the reference-counted locks of `argocd/handler.go` 63-144, shown to be a
   mutex per key that leaks no entry.
4. `Live`: Forgejo's stamps of a running job and the two-request window in which a
   task may start.
5. `GiteaRuns` with two handlers on one run, whose counterexamples are in section 6.

## 6. Findings

Shown by the run named in brackets:

* [`argocd_sweep`] The sweep reads the row outside the app's lock and may take the timer of
  a sync that started since, the outcome its comment (`handler.go:206-208`) means to avoid.
* [`pace`] With nothing to spend, the gap between detection passes is the time to the reset but
  counts from the last pass: half-way through what remains of the window a pass is due,
  against `cipoll/poller.go:404-405`.
* [`series_miss`] A series that is read again but whose update fails keeps its miss count,
  against "reset when seen" (`widgets/manager.go:909`).

Without a run of their own, met on the way and present in the models unless said otherwise:

* Ender: `EndIfTracked` reads the row before it takes the lock, so a redelivery
  may arm a second end after the first has finished (`ender.go:122`, against `:110-111`);
  `FlushAll` cancels the context before it takes the lock (`:298`), and an end whose phase 2 fires
  in between is neither sent by its callback nor collected.
* Pool: `serverBreaker.recordFailure` asks `cb.IsOpen` and then acts; a 4xx or 429 of the probe may
  close `cb` in between, and the late fault re-opens it with no streak.
* ArgoCD: a new revision makes an app pending whose card is on screen, and a `deployed` in that
  grace period deletes the row and leaves the card (`handler.go:474`, `:824`); a backstop keeps the
  deadline of the grace period it was armed in (`:318`); `sync-succeeded` for an untracked app
  overwrites an entry of `graceTimers` without stopping its timer (`:591`).  A sync that begins while
  phase 1 of the last end is being sent has that frame land after its own first update (`:445`, `:528`,
  against `ender.go:183-190`), and the card shows "Deployed" until the next update: `CardShowsStep` exempts this
  case (`stale`) and no other.
* CI poller: `lastEnded` holds one run per repository and a superseded end does not write it, so
  off a list that lags two passes the superseded run is carded and ended again, once the run that
  superseded it has ended or its creation failed and it is no longer reported
  (`poller.go:559`, `:574`, against `:130-134`; `NoSecondCard` says what is left of that promise); `Close` does not wait for a superseded end's request under
  way, which may land after the new run's seed (`:558`, against `:1189-1190`).
* Relay plans: Backrest's `handleStart` creates without stopping the end before; an alert that
  fires again inside the end window sends no push after its "Resolved"
  (`uptimekuma/handler.go:271-273`, `komodo/handler.go:230-232`); starr stops the end before it looks at the
  channels, so a webhook at `?channels=notification` leaves the card up; komodo and its like answer
  200 when the row of a resolve cannot be read, proxmox 502; Uptime Kuma's Pending then Down sends
  no push; a phase 2 that runs while a new alert stops the timer ends the new card; starr's
  manual interaction may reopen a card that ended after it read the row.  If the URLs of a service
  have different channels, an alert may outlast its resolve: the resolve posted to a URL without
  notifications sends nothing, and a universal alert that a notification-only URL
  raises while an end is pending is taken for part of that end (`universalhook/deliver.go:325`, the
  check of `Pending`) and not retracted.
* Jellyfin: `handlePlaybackStart` leaves an armed pause timer; `endPaused` unlocks before it schedules
  the end, so a resume in between is ended; a late progress after a stop calls the end off, and a
  debounced one does not.
* Grafana (relay): a resolving group that read the rows before another wrote them may retract
  its push.
* Gitea: two webhooks of one run handled at once read the records before either writes
  (`handler.go:112`, against `:48` and `:127`; not modelled with two handlers in the run); a run
  whose creation failed after `putRun` never gets a card.
* SABnzbd: a webhook while a session winds down is answered already_tracking and dropped; the
  frame "Unpacking..." is not recorded and the next one is skipped; one failed read of the history
  ends the session mid-unpack; a stop leaves the card up until the next start.
* BambuLab: a phase 2 being sent when a print begins ends the new card (`tracker.go:313-319`, against
  `:61-64`); a stop inside the end window leaves the finished card up.
* Backrest (bridge): a record still open is not superseded, so its later close ends the
  new run's card (`poller.go:422-427`); an operation that scrolls out of the window and back is
  announced twice; a delayed phase 1 may reopen an ended card.
* Grafana (bridge): a firing whose entry was deleted starts a poller nobody stops
  (`webhook.go:235-242`, `301`); a teardown that overlaps a re-firing ends the new card; an alert
  whose first update fails gets no poller; a firing and its resolve may be handled in
  reversed order.
* Widgets: a delete whose answer is lost keeps the series' state and slot; an update that
  landed with its answer lost, followed by the old value, leaves the wrong value until
  the heartbeat.
* Stores: memory and PostgreSQL differ at the instant of expiry (`memory.go:18`).
* Periodic: a Stop before Start uses up `stopOnce`, so a later Stop neither cancels nor waits
  (`periodic.go:54-56` calls it a no-op).
* Forgejo: a failed look-up of the login narrows the list by owner, where the comment
  says it leaves it unnarrowed (`client.go:579-586`), so that a token's own owner loses the
  repositories of others until the next refresh; `ReposAreWhole` follows the code.
