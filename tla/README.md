# A TLA+ verification of flakehound's backend

flakehound finds flaky CI jobs in the history of GitHub Actions. Its backend
(`src/backend/app`, Python, Postgres) receives GitHub's webhooks, keeps them in a
queue table, and a worker turns each row into facts (runs, jobs) and facts into
flake events. The same worker crawls the history of repositories through GitHub's
API, rolls facts up into daily counts for the boards, and admits public repositories
it observes. This directory holds TLA+ specifications of that machinery, the TLC
configurations that check them on small instances, and TLAPS proofs.

    tlc -workers 2 -config Ingest.cfg MCIngest     # any run listed below
    tlapm EventQueueProofs.tla                     # any *Proofs module

PROJECT.json lists the components, runs, mutants, hazards, findings and theorems,
and maps each definition to the lines of source it stands for.


## 1. Inventory

### How the parts interact

    GitHub --webhook--> routes/webhooks.py --record_delivery--> event_queue
                                                                   |
      reevaluate, backfill, discover (operator) --INSERT------->   |
                                                                   v
    GitHub <--api_request-- handlers of the worker <--claim_batch-- worker.py
              (limiter,      |            |                          |
               token cache)  v            v                          v (every 60 s)
                       upserts.py -> detection.py            reap, dead-letter, rollup
                       runs, jobs     flake_events           job_stats_daily
                                                                   |
                             stats.py, usage.py, history.py <------+--> routes/* -> frontend

Everything shared lives in Postgres; the processes (API, worker, operator commands)
communicate only through it. One container runs one API process and one worker
(`README.md:50`), so *two workers* happen during a deployment, on a second host, or
when an operator starts one by hand; `queue.py` is written for any number of them.

### The components

| component | state | operations | what makes it correct | hard because of |
|---|---|---|---|---|
| Event queue (`queue.py`) | `event_queue`: status, attempts, locked_at, next_attempt_at | claim_batch, mark_done, mark_for_retry, defer, reap_stuck, fail_exhausted | a row is worked on by one worker, applied once or given up for good; attempts are exact; order of priority | crashes between commits, claims outliving the reaper timeout, lost acknowledgements |
| Worker (`worker.py`) | the claimed batch and its place in it, two timers | run_once, sweep, snapshot_metrics, run_forever | handler and mark_done commit together (but for discover_band); a sweep is never put off for ever | death at any point, overlap with other workers |
| Webhook ingest (`ingest.py`, `routes/webhooks.py`) | `webhook_deliveries`, its queue row | record_delivery | dedup key and queue row agree; the answer is true | repeats in parallel, failure before and after the commit |
| Re-evaluation (`reevaluate.py`) | none of its own | enqueue_reevaluation | reads deliveries, never its own copies | it reads the table it writes |
| Backfill (`backfill.py`) | the cursor on `repositories`, one wake-up row | start_backfill, handle_backfill_runs, handle_backfill_jobs, start_observed_backfills | no gap, no stall, an end; the cursor never turns back | wake-up rows that race, retry or die; listings that change between pages; the result cap; midnight |
| Event handlers, upserts (`handlers.py`, `upserts.py`) | `workflows`, `workflow_runs`, `jobs` | handle_workflow_job, handle_workflow_run, upsert_*, propagate_workflow_id | the most advanced payload wins in any order | reordering, repeats, concurrent transactions |
| Detection (`detection.py`) | `flake_events` | evaluate_job and its two signals | events are those the jobs call for | READ COMMITTED views, gaps between attempts |
| Installations (`handlers.py`, `upserts.py`) | `installations`; `repositories.source`, `installation_id`, `active`, `private` | installation, installation_repositories, `_ensure_repo` | the lifecycle reflects GitHub's; a claim is kept | late and repeated deliveries, copies of a re-evaluation, crawl writes to the same rows |
| GitHub client (`github.py`, `ratelimit.py`) | token cache, a bucket per installation | installation_token, acquire, observe, api_request | no wait GitHub asks for is cut short, one refusal at most per window, no token bought twice | locks across sleeps, answers out of order, expiry, other processes on one budget |
| Rollup (`rollup.py`) | `job_stats_daily` | rollup_repository, rollup_recent, the command line | a day's row is what its jobs say | two rollups of one repository at once, a look-back that may be too short, facts of old days that change |
| Discovery (`discover.py`, `observe.py`, `ops.py`) | admitted repositories | discover, screen, handle_discover_band | nothing private admitted, nothing admitted twice | commits inside a handler that may be retried |
| Metrics (`metrics.py`, `apimetrics.py`) | counters in memory, `metrics_snapshots` | count, drain, store_samples, latest_samples | no minute lost or counted twice | drain before store |
| Reads (`stats.py`, `usage.py`, `history.py`), routes, auth | none | queries | agreement with the rollup | |
| Configuration, schema, frontend, deployment | settings, keys, pages | | | |

Settings become CONSTANTS. A constraint of the schema appears where a module
relies on it: the delivery id, the identity column of the queue, the run/attempt
key, the key of `flake_events`.


## 2. Modules

| module | models | stands on |
|---|---|---|
| `WorkList` | what the queue promises: a row is owed until done once or abandoned | |
| `EventQueue` | `queue.py`; `run_once`, the reaping half of `sweep`, `run_forever` of `worker.py` | implements `WorkList` |
| `EventQueueHistory` | EventQueue with two history variables (order of service, who lost attempts) | EventQueue |
| `Ingest` | `record_delivery`, the webhook route, `enqueue_reevaluation` | above `WorkList` |
| `Backfill` | `start_backfill`, `handle_backfill_runs`, windows and cursor | |
| `Facts` | job and run handlers, `backfill_jobs`, upserts, detection | |
| `Repositories` | installation handlers, `_ensure_repo`, upserts of installation and repository, re-evaluation's copies, discovery bands, the public filter | |
| `GitHubClient` | `api_request`, `installation_token`, `RateLimiter`, `Bucket` | |
| `Rollup` | `rollup.py`, the rollup half of `sweep`, the boards of `stats.py` | |
| `EventQueueProofs`, `EventQueueHistoryProofs`, `IngestProofs`, `BackfillProofs`, `FactsProofs`, `RepositoriesProofs`, `RollupProofs`, `GitHubClientProofs` | theorems | the module they name, TLAPS |
| `MC*` | instances for TLC | |

### EventQueue

One action per committed transaction or step of a worker between two of them.
`Claim` is `claim_batch` with its commit: one UPDATE, so one step. `Start` takes any
row of the batch, because RETURNING promises no order. `Complete` is handler,
`mark_done` and COMMIT; what a handler writes is abstracted to the counter
`applied[r]`, which moves with that commit. The rows of `Committing` are the exception:
`handle_discover_band` calls `discover`, and that commits on the worker's own session
(`discover.py:341`) before `mark_done`. For them `CommitInside` moves the counter while the
row is still processing, `Complete` only marks it done, and a failure or crash in
between leaves what was committed. No other handler commits. `Raise` is everything up to the
ROLLBACK, `MarkForRetry` and `Defer` the second session that records the outcome; the state
between them is visible to the other workers and to crashes. `Sweep` is `reap_stuck`
and then `fail_exhausted` in one transaction, by a worker with no batch, as
`run_forever` orders it. `Crash` is a kill at any point, also while the outcome is
being recorded (an exception there leaves `run_once` and ends the process).
A transaction may insert several rows (`Enqueue(S)`).

`snapshot[w][r]` is the attempt count in `ClaimedJob`: the code judges the ceiling on
this copy and updates the row by id alone, and so does the model. The outcome updates
(`mark_done`, `mark_for_retry`, `defer`) do not look at the status they overwrite.

The clock: `lockedAt` is null, fresh or older than the timeout (`Age`), and `backoff`
holds the rows whose `next_attempt_at` is in the future (`BackoffElapses`); delays
themselves are left out. `Fault` says what the environment may do beyond crashing:

* `{}`, the *documented regime* of `reap_stuck` ("the timeout must exceed maximum
  processing time"): no claim of a live worker passes the timeout;
* `"handling"`: a claim passes it while its row is being handled;
* `"waiting"`: while the worker is busy with another row of the batch;
* `"ack"`: COMMIT takes effect and the worker sees it fail; so may the one inside
  `discover`.

WorkList has the same exception: the work of a `Partial` row is applied in parts while it is
owed (`Part`), it is done only after one part, and parts stay when it is given up. Every other
row is applied once, with becoming done, or not at all.

### Ingest

A request is `Arrive`, `InsertDelivery` (waits for an open insert of the same key,
then inserts or finds a duplicate), `Record` (the queue row and COMMIT), `Answer`;
`Fail` may happen at any point. Signature and header checks change no state.
The queue below is WorkList itself, without partial rows: `Record` is a `Submit`, `Work` its other steps.
`Reevaluate` is one INSERT ... SELECT; the ids it draws are arbitrary unused ones.

### Backfill

One repository. Days are numbers, run ids grow with time, and GitHub lists a window
newest first, at most `ResultCap` runs of it. `Wake` loads the cursor; the answer of
GitHub and the commit that follows are one step (`Narrow`, `StorePage`,
`Unreadable`). This loses nothing: the answer depends on what is listed, runs are
only ever added, and everything the handler writes depends on what it loaded in
`Wake`. A row that finds the walk not running, or without a window, is marked done and
nothing else (`backfill.py:252`); a page that is NULL is page 1; a window without a start
makes the handler raise (`Asks`), so only a retry or a dead letter is left. `Flush` is what SQLAlchemy writes: the columns that differ from the values
loaded, which is why two overlapping handlers, or starts, can mix their cursors. The queue is
two sets, `pending` and `processing`; `Retry` covers an exception, a deferral, and a
death with the reap that follows, `DeadLetter` the fifth failure. `start_backfill`
is three steps, load, check, commit, without a lock. `start_observed_backfills` is
`start_backfill` on repositories still pending, one of the starts the model has.

### Facts

One repository, one job name. Handlers are transactions of two steps and a commit:
`Write` computes the rows from the committed ones and takes their locks, `Evaluate`
derives events from what the transaction sees, `Commit` publishes. Locks are taken at
once in `Write`, so lock-order deadlocks are not in the model: Postgres ends them with
an error, which is `Rollback` here. A live handler begins with the upserts of
installation and repository and so excludes the other live handlers of the
repository; history does not (`Blocked`). A payload is a record of kind, run,
attempt and status; conclusions of runs, names, shas beyond equality and timestamps
(`occurred_at`, `started_at`) are left out: no property reads them.

### Repositories

GitHub's truth (`home`, `app`) changes by seven external actions, each of which makes
one delivery. A delivery is handled in one transaction: `HandleInstallation` is
`Lifecycle` (both columns written outright, `suspended` partly from the payload) after
the stub of `upsert_installation`, then `UpsertInstalled` of the payload's
repositories or `DeactivateAllOf`; `HandleInstallationRepositories` and `EnsureRepo`
are the other two handlers. `UpsertInstalled` keeps `active` unless the event
announces the repository, and `UpsertObserved` claims nothing that is stored.

The queue is two sets: `live` in the order of delivery and `history`, the copies of a
re-evaluation, which wait until nothing live does. `Reorder` lets the queue disturb
that order (retries, two workers, a batch). A live row may be handled and stay, which
is the lost acknowledgement. `ordered` records whether any delivery was ever handled
after a later one it conflicts with.

A discovery pass is `Search` (names that are not stored; GitHub may list one twice),
`Screen` per name, and `CommitBand`, which commits *inside* the handler, so a dead
worker repeats the band (`AbandonBand` before the commit, another `Search` after).
Its writes are locked until then (`Locked`), and a delivery for them waits. What makes
a candidate worth watching (stars, activity, workflows) is a free choice; that a
private one is not readable is not.

### GitHubClient

One installation. A caller is the coroutine that handles a row; a step runs from one
await to the next, so the bucket is never half written and the locks are what they
are in asyncio: a queue with its holder at the head. Every instant is kept as the
distance from now, so that `Tick` ages it, and a `Tick` waits for every coroutine that
could run. Tokens are counted in 1/Window of a request, which makes the refill a
whole number. GitHub (external) counts, serves, refuses for a spent budget or for the
secondary limit, and another process spends from the same budget (`Elsewhere`).
Answers are read as they were when GitHub made them and may arrive later, after newer
ones, or not at all (`Lose`).

The worker handles one row at a time, so in the deployed program one coroutine calls
GitHub. The lock in `acquire` ("three callers finding one token left", `ratelimit.py:172`)
and the one in `installation_token` ("a burst of concurrent callers", `github.py:176`) are
written for several, and so the model has several.

### Rollup

A worker writes facts in transactions (`updated_at` is the *start* of the
transaction: `clock`), or passes over the repositories with a write no older than
`Slack`. A rollup is a transaction of four steps, `Read` (the snapshot of INSERT ...
SELECT), `Upsert` (row locks), `Delete` (the rows of the window it did not write, as
committed by then) and `Commit`; two of one repository interleave but for the locks.
An operator's command does the same for one or all repositories. `Fail` ends whatever
a process is doing. A day's row is keyed by workflow, name and day, so a job that learns its
workflow moves to another row, and the old one must go. Which jobs turn out flaky is
a free choice among the eligible ones of the repository (Facts says which).
`BoardFromFacts` is the repository's own reference, `flaky_jobs_from_facts`, cut at the start
of a day, where the board cuts, and not at an instant of it.


## 3. What is checked

Twelve runs. All passing runs explore their complete state space; deadlock is
checked in each.

| run | what it asks | bounds | distinct states |
|---|---|---|---|
| `queue_documented` | documented regime: exclusive claims, exactly-once, spent dead letters, order of service, finality, refinement of WorkList with liveness | 3 rows in 2 ranks, one of them a discover_band, 2 workers, batch 2, ceiling 2 | 74,107 |
| `queue_faults` | every fault: types, attempt accounting, no claim hidden from the reaper, every row settles for good | 2 rows, one of them a discover_band, 2 workers, batch 2, ceiling 2 | 104,523 |
| `backfill` | one walk at a time: no gap, one wake-up, never back, ends | 10 runs on 5 days, windows of 3 days, pages of 2, cap 3, one midnight (days 6 and 7), 2 starts, 2 workers | 1,897 |
| `backfill_faults` | racing starts, overlap, dead letters: a walk with a window never stalls | 2 runs on a day, windows of 2 days, page 1, cap 1, 4 rows at once, 2 operators, no start after the third, 2 workers | 1,350,924 |
| `backfill_cap` | finding 1 | a newest window of cap 2, page 1, and one late run | violated |
| `facts` | events match jobs, most advanced payload wins, nothing missed | 3 runs, 6 attempts, all 5 endings, 10 payloads, 2 workers | 48,190 |
| `facts_stub` | finding 3 | as `facts` | violated |
| `ingest` | one row per delivery, honest answers, no compounding, recorded is settled | 2 deliveries, 2 requests, 4 queue rows | 70,175 |
| `repositories` | owned or public, a claim is kept, admitted once, tables converge | 2 installations, a public and a private repository, 3 deliveries, 1 re-evaluation, 1 discovery pass of 2 candidates, any order | 431,332 |
| `uninstall` | finding 2 | no reordering, no discovery | violated |
| `github` | never overdrawn, waits honoured, one refusal, token alive, bought once, every row ends | 2 callers, 1 request a window of 2, 3 attempts, retry-after 1 or 2, answers up to a tick late, waits up to 1 slept out, token of 6 renewed 4 before | 158,860 |
| `rollup` | boards catch up with the facts, old days stay | 2 executions of one name around a midnight, 3 days, a worker and an operator, look-back 2, passes up to a tick apart | 250,501 |

Why the bounds are enough for the cases that matter:

* Queue: two workers and a batch of two give every race between claim, reap and
  outcome, and a row that waits behind another; a ceiling of two lets a row fail,
  come back and be spent. Three rows of two ranks let a live row arrive behind
  history that is already claimed. The discover_band row ranks with live deliveries
  (`OPS_PRIORITY`, `ops.py`), may fail or lose its worker after its commit, be run again and
  commit again, and be dead-lettered with both commits behind it.
* Backfill: day 1 alone is over the cap and cannot be halved, days 1 and 2 together
  must be halved, days 4 to 6 take several pages, run 9 arrives between two pages and
  run 10 after midnight. A second start meets every cursor it can. `Row` bounds the
  wake-ups there may be at once; `LastDay` the midnights; `StartLimit` the starts. Under racing
  starts two runs over a cap of one are enough to halve, page, end and restart, and no start begins
  once three are committed. A walk running without a window is within these bounds: it takes the first
  start, one that the walk's end overtakes, and two that load what that one left. Workers and operators are symmetric, and that run has an invariant only.
* Facts: run 1 fails, is cancelled, recovers; run 2 comes from history and times out
  on the same commit and workflow; run 3 loses its runner. Every payload may be
  handled again and again. Workers are symmetric and the properties of this run are
  invariants, so symmetry is sound; no run that checks liveness uses it.
* Ingest: two requests for one delivery race while another delivery is recorded;
  four rows allow two recordings and a re-evaluation of both.
* Repositories: three deliveries make install, uninstall and whatever lies between or
  belongs to the other installation; a repository can move between installations
  (removed, added) and be admitted before, between and after. The installations are symmetric, and
  the run has invariants and an action property only. Larger instances, run once: four
  deliveries without discovery (787,000 states) and five over one repository (981,000) pass.
* GitHubClient: the default limit is above GitHub's, so the first figures are wrong; a
  budget of one is spent by either caller or elsewhere; waits are longer and shorter
  than `MaxWait`; a token becomes due while a caller waits; a request crosses the
  turn of the window. `Requests` and `Latency` bound a row and the network; `HeldCap` is 0 where
  the time a row is held is not asked for.
* Rollup: one job that can fail and turn out flaky days later, one of the next day that does not
  count as an opportunity but does as an execution, in one run, so that both learn their workflow
  together; a job on the last day of a window and one behind it. `Delay` bounds the ticks between
  two passes: *2 Delay <= Slack* when an operator may overlap with the worker (its older snapshot
  may overwrite a newer one, which the next pass must still repair), *Delay <= Slack* for a worker
  alone. The rollup of one repository takes less than a tick. Larger instances, run once: three
  jobs in two runs (5.3 million states), two workers without an operator (1.05 million),
  one worker with Delay = Slack = 2 (28,700) pass; Delay = Slack = 2 beside an operator does not.

Each property of a passing run has a mutant: a bug that might be in the code
(`..._KeepsLock`, `..._LooksUp`, `..._NoLimit`, ...) under which the run reports that property.

### Fairness

* Queue. A worker's steps are one sequential loop, so each is weakly fair. `Sweep` is
  strongly fair: the loop tests its timer before each claim, so although claims keep
  disabling it, it cannot be passed over for ever. Time passes (`Age`,
  `BackoffElapses`). An outcome other than a deferral is strongly fair for each row:
  `defer` itself relies on "a rate limit clears when GitHub's window resets". Crashes
  have no fairness and need none: attempts are spent by them.
* Backfill. A waiting row is claimed (WF `Wake`), and a row that is handled again and
  again is some time answered (SF `Handle`): the queue's own liveness.
* Ingest. Only that the queue settles what it owes, which EventQueue is shown to do.
  Requests may fail for ever.
* GitHubClient. Each coroutine's step is weakly fair: the event loop runs what can run,
  and a request ends by an answer or by the client's timeout. `Tick` is strongly fair,
  time does not stop, although a stream of new rows that fail at once could disable it
  again and again. No row need ever come.
* Repositories, Rollup: none. "Catches up" is stated as an invariant about a repository that has
  been quiet for longer than the look-back, and the passes' rhythm is a bound.


## 4. What is proved

38 listed theorems hold for any sets of rows, workers, deliveries, requests, runs, jobs,
payloads, installations, repositories and callers, any ceiling, batch size, window, page, cap,
look-back, limit and wait that satisfy the module's `ConstantsAssumption`, which TLC evaluates in
every run. Where a theorem assumes more it says so in its statement.

`EventQueueProofs`. Under every fault: `TypeCorrectness`, `AttemptAccounting`,
`ReaperSeesClaims`, from the inductive invariant `Base`. Its extra part, `InHand` (a
busy worker's row is in its batch), is what lets `Release` take exactly one holder
from the row. Under `Fault = {}` a second invariant, `Regime` = Base, ExclusiveClaim and
*a claim past the timeout has no holder*: exclusivity is not inductive without the
latter, since `Sweep` would reap a held row. From it `StepEffect` shows that a step does
one of five things to status and effects (submit, commit inside the handler, finish, abandon,
toil), and from these follow `AppliedExactlyOnce`, `DeadLettersAreSpent`, `SettledRowsStay`, and
`QueueImplementsWorkList`: EventQueue's safety specification implements WorkList's. For a
discover_band row they say what is left of exactly-once: `Passes` counts its commits against its
attempts, of which the present one has an attempt to spare until its handler commits, and which a
deferral gives back only where nothing was committed.

`EventQueueHistoryProofs`, under every fault: `OvertakingIsBounded`. Its invariant `Served`
weighs what has happened against what still may: the times a claimable row has been overtaken
and the rows that rank behind it and wait in a batch (`Load`) are together no more than the
bound (`Spare`). A start that overtakes takes one row out of the load; a claim can only add to the
load of a row it leaves behind, and since `claim_batch` takes rows in order of rank, what it takes
then ranks no lower. The table is assumed finite (`IsFiniteSet(Row)`), as it is, so that batches can be counted.

`IngestProofs`. `WellFormed`, `DeliveryHasOneRow`, `AnswersAreHonest`,
`ReevaluationDoesNotCompound`, from one invariant: at most one request has inserted an
id, and then the id is not stored (`OneInsert`, the primary key); an id that is not
stored has no row, no recorder and no acceptance.

`BackfillProofs`. `WalkNeverStalls` under every fault: a handler that has not committed
loaded a running cursor, so when it ends the walk, `Flush` writes that, and `Wake` drops the wake-up of a
running walk only if that has no window. With one start at a time it always has one: `Dates` says
so, because whoever is at work holds the cursor as it is and no window ends before day 1.
`WalkHasOneWakeUp` under `Fault = {}`: in-flight rows are one at most, exactly while the
cursor is running, each task holds its own claimed row, and an operator at work excludes both.

Its second part, also under `Fault = {}`: `NothingIsSkipped`: a walk that is done has every
run it could have. The invariant `Walk` adds to the one wake-up that a running cursor is well formed
(`Formed`: a window no wider than `WindowDays`; beyond page 1 it is one day or fits the
cap), that whoever is at work holds the cursor as it is (`Fresh`), and that every run owed
which the walk has *passed*, because it lies after the window or on a page already read,
is stored (`Stored`). The argument about pages is on positions: a run's position in the listing is one
more than the number of runs listed before it (`Position`), a new run only moves others to later
positions, and positions have no hole (`NextInLine`), so what the pages up to *p* show is what
stands at the first *p PageSize* positions (`PageCovers`). It assumes `Roomy`: a window
that reaches today holds at most `ResultCap` runs, those included that are still to come.
Without it the theorem is false, which is finding 1. `WalkGoesOn` (NeverTurnsBack) and
`TypeCorrectness` follow from the same invariant.

`FactsProofs`. `TypeCorrectness` and `ProgressIsKept` (MostAdvancedWins) for any overlap: each
row remembers the most advanced payload handled (`Remembers`), an open transaction's rows carry
it on (`TxnsOK`), and two open transactions share no row (`Disjoint`), which is what the row
locks give and without which the later commit could take a row back. `FlakesFollowFacts`
(FlakesMatchFacts) assumes `~Overlap`, history beside nothing: then one transaction at a
time is busy (`Serial`), so what it evaluated is what it commits. With overlap it is false
(`Facts_overlap.cfg`). `NoFlakeIsMissed` (NothingMissed) assumes besides that what GitHub tells
is enough (`AllTold`): every job's last state comes in some payload, and its run is told of too, by a
run event or because the job came from the run's own history. That no event is lost whichever came
first, job or run, rests on `WInv`: a handled payload that names a workflow leaves the run known and all
its stored jobs linked (`Named`), and what an open transaction is about to write is what its payload calls
for and not what another has overtaken (`Current`). Without the payload of a run, its jobs have no workflow and
the code does not evaluate them: that is how it is written, and why `AllTold` asks for it.

`RepositoriesProofs`. `TypeCorrectness` (which has the check constraint on source and
installation in it), `RowsAreOwnedOrObserved`, `ClaimsAreKept`, in any order of
deliveries; what they need beyond their statements is that a pass has recorded nothing private (`Screened`).
`AdmissionsAreOnce` for one pass at a time: what it has found was never
admitted, and what was admitted is stored, so that no search lists it (`FoundOnce`).
`TablesConverge` (Converges) assumes nothing. Its invariant `Follow` has two halves. GitHub's truth is
told by the log: whose a repository is, by the last delivery that gives it and whether one after it takes
it away (`ToldOfRepositories`; a job event in between carries the same installation), and an installation's
state by its last lifecycle event (`ToldOfInstallations`). And as long as handling is `ordered`, what is no
longer queued the tables show (`RepositoriesFollow`, `InstallationsFollow`): an older delivery handled after a
younger one that decides ends `ordered`, so the youngest has the last word.
`UninstallsHoldInOrder` states UninstallHolds where nothing is re-evaluated and the queue keeps its order
(`ReplayLimit = 0`, `~Reorder`): what is still queued is then the youngest part of the log
(`Undisturbed`). So finding 2 needs a re-evaluation or disorder; repeats and discovery do not bring it about.

`RollupProofs`. `TypeCorrectness` needs that a transaction or pass began after the last finished
pass (`ClocksBehind`), or the clocks would be unbounded; `OldDaysAreKept` that a rollup writes and
deletes only days of its own window (`InsideWindow`).
`StatisticsCatchUp` (StatsCatchUp) holds whatever rollups overlap, fail or read a snapshot that is
old when they write it, under two assumptions. `SweptInTime`: a worker passes at most `Delay` apart
(which also bounds a transaction), and the sweep looks back over one such delay if that worker is
alone and no operator rolls up beside it, over two otherwise; the code looks back three sweep
intervals (`worker.py:126`) and a pass is one interval after the last unless a batch takes longer, so the lone
worker may be late by two whole intervals. And `BoardDays <= RollupDays`: the boards' default is 30 days, 90 are
rolled up; for more it is false (`Rollup_window.cfg`), as it is when the sweep comes later (`Rollup_delayed.cfg`).
The invariant `CInv` says of every row of the window when it is `Right`: what a rollup has read is still so once
the last write is older than any transaction (`ReadsHold`), it knows of every row it must delete
(`NoneLeftOver`), a pass that found a write either still has the repository before it, or is rolling it up, or has
repaired it (`InPass`), what it repaired stays so until the next pass (`AfterPass`), and what nobody looks at any more
is right (`Settled`). The boards are sums over the table by the community modules' `MapThenSumSet`: `FoldIsTheCount` and
`SumIsTheCount` show, from a closed form of its recursive function and a smallest counterexample, that adding up the
rows' counts is counting their jobs.

`GitHubClientProofs`. The bucket is never overdrawn, and every wait GitHub asked for is in the
bucket's block (`Blocked`: `told <= bucket.blocked`, through answers in any order), from which
`WaitsAreHonoured`. `RefusedOnceHolds` rests on a refused caller's block lasting to the
turn of GitHub's window, and so on answers not being dated past it (`Dated`).
`TokensAreBoughtOnce` on a fetching caller being the head of the shop's queue (`Buyer`).
`TokensOutliveTheWait` (TokenAlive) assumes `RenewedInTime`, *2 n MaxWait <= RenewBefore* for n callers: each of those ahead
in the limiter's line can keep a caller waiting for its own sleep and for the next that follows from a late
answer (`Outlives`). With the code's 60 and 300 seconds (`ratelimit.py:136`, `github.py:35`) it holds for one caller, which is what the
worker has, and for two.
`LoneRowsAreHeldInTime` says when HeldWithinReaper holds for a caller that is alone, as the worker's is:
if *Requests Attempts (MaxWait + 2 Latency) <= Reaper*. Its invariant adds up what a row has been held, what its
present attempt may still take and what the later ones may (`InTime`); that an attempt sleeps once at most is
because a lone caller finds a token when it wakes (`AloneInLine`). With three attempts, a minute's wait, five
minutes of `reaper_timeout_seconds` and the network left out of account it covers a row of one request and no
more: `GitHubClient_held.cfg` finds the counterexample from two requests on.

Only model-checked is everything temporal under fairness (`SettlesForGood`, the liveness half of
`ImplementsWorkList`, `Finishes`, `RecordedIsSettled`, `Ends`), and with it what depends on ENABLED: out
of the prover's reach. Every invariant and action property that a passing run checks is proved.


## 5. Findings

Places where the code does not do what the repository says of it. The first three are
runs that expect a violation.

1. `backfill_cap`. `total_count` is compared with the cap on page 1 only (`backfill.py:286`).
   A window that ends today and just fits loses its oldest run when another is created before the
   next page, and the walk is done without it: the "one failure mode of this whole design"
   that halving is meant to exclude. With one walk at a time it is the only way to lose a run.
2. `uninstall`. A re-evaluation's copy of an install delivery has the priority of history; an
   uninstall that arrives later is handled first, and the copy then makes the
   repository active again. Nothing deactivates it any more, and a public one stays on the board.
3. `facts_stub`. A job payload sets the status of a run stored as queued to NULL.

Further counterexample configurations, kept beside the runs (`tlc -config X.cfg` finds each
violation in seconds):

| configuration | module | violates | what happens |
|---|---|---|---|
| `Rollup_delayed` | MCRollup | `StatsCatchUp` | One worker alone. `updated_at` is the start of the writing transaction and the sweep waits for the batch to end; a batch that outlasts the three intervals of slack (`worker.py:123`) leaves what it wrote first unrolled until the repository is written again. |
| `Rollup_window` | MCRollup | `StatsCatchUp` | A board over more days than `rollup_days` (365 may be asked for, `routes/api.py:292`; 90 are recomputed): a flake found late on an older day never reaches it. |
| `EventQueue_waiting` | MCEventQueue | `NoDoubleHandling` | `locked_at` is stamped for a whole batch; a row waiting for its turn passes the reaper timeout although no handling does. Needs a second worker; handlers are idempotent, so it costs work and attempts. |
| `EventQueue_killed` | MCEventQueueHistory | `KilledWorkerLosesNoWork` | A row that kills its worker spends an attempt of every row claimed with it; one never started may be dead-lettered. |
| `GitHubClient_held` | MCGitHubClient | `HeldWithinReaper` | The wait is bounded per request; a row of several requests is held past the reaper timeout. |
| `Backfill_race` | MCBackfill | `NoGap` | Two starts of one walk leave two wake-ups whose cursors mix column by column: pages are skipped, and the walk is "done". |
| `Backfill_stall` | MCBackfill | `StandsOnlyIfLost` | A start that is overtaken by the end of a walk writes only the columns it sees changed and leaves half a cursor. Two more starts load that; the walk of one meets a 404, which clears all columns, and the other then sets all but the window's end, which it saw unchanged. Its wake-up is marked done at `backfill.py:252` and nobody continues, although nothing was dead-lettered; a second wake-up is called harmless (`backfill.py:179`). The next start sets it right. |
| `Backfill_dead` | MCBackfill | `NeverTurnsBack` | A dead-lettered wake-up leaves a running walk nobody continues, and a new start begins again with the newest window. |
| `Facts_overlap` | MCFacts | `FlakesMatchFacts` | Two attempts of one run handled at once from history see neither the other's job: the recovery is stored and no event is. Needs a second worker. |

Read and not modelled as a run: `stats.py:215` says that the crawl deactivates an observed repository
that went private, was archived or deleted. No code under `src/backend/app` does: the crawl's writes
only ever add a row or refresh it.


## 6. Limits of the models

* EventQueue: exactly-once is about the rows whose handler leaves the commit to the worker, which is all
  but `discover_band`. Of such a row it bounds the commits by the attempts; what a repeated band
  stores is the matter of `AdmittedOnce`. The size of a delay, `last_error` and the order inside a
  batch are left out. A ceiling lowered under a row (`fail_exhausted` mentions it) is not modelled: `max_attempts` has
  one value.
* Backfill: `NeverStalls` leaves out a running walk without a window, which racing starts can make and which
  stands (`Backfill_stall.cfg`); `NoGap` and `NeverTurnsBack` are about one walk at a time without dead
  letters, and fail otherwise (`Backfill_race.cfg`, `Backfill_dead.cfg`).
* `NoGap` is about runs the listing can give: a single day over the cap is taken as far as
  the API goes, as the code says it does. Runs deleted on GitHub between two pages are not modelled.
* Facts has one job name, so a run's jobs are one per attempt and one page; the 404 on a
  later page of an attempt is not in it.
* Ingest's filter of a re-evaluation by repository is not modelled: it copies fewer rows.
* Repositories takes a transaction's locks at once; what the search of a band returns, and every
  criterion of admission but readability, is arbitrary. `Converges` says nothing of deliveries
  handled out of order: there the last one handled decides, which finding 2 is an instance of.
* GitHubClient has one installation; buckets and tokens of others are independent. The statuses of
  an answer are: served, forbidden, rate limited, none. Other errors end the row as a plain 403 does.
* Rollup's days are those of completion. `flaky_jobs_from_facts` cuts its window at an instant
  (`stats.py:387`), the board at the start of that day (`stats.py:149`): on the oldest day the two
  differ by what lies before the instant. `BoardFromFacts` cuts where the board does. A repository whose rollup always fails ends every pass of
  every worker (`rollup_repos` catches nothing, although its docstring says that one failure cannot
  lose the rest); such a worker never finishes a pass, and is outside the bound `Delay`.


## 7. Not modelled

* Metrics (`metrics.py`, `apimetrics.py`): counters in memory, drained into rows that nobody
  updates. A store that fails after the drain loses a minute of samples, which the module accepts;
  nothing else reads or depends on them.
* HTTP routes and authentication: parsing and authorization in front of reads. The routes that
  enqueue work call functions that are modelled.
* The reads of `stats.py`, `usage.py`, `history.py` beyond their agreement with the facts: SQL
  without state, intervals, ordering, paging.
* `ops.py` apart from the band handler: reports, and an INSERT of queue rows like any other.
* Configuration, session, logging, start-up, schema, migrations, frontend, deployment: no state
  machine, or none of this program's. Settings and constraints appear as constants and guards.
