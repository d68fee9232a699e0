# A TLA+ verification of BYOT

BYOT runs users' tests in docker containers: on demand or on a cron schedule, from
a queue in Postgres, with logs and screenshots in object storage and alerts to a
webhook and PagerDuty. One Go process hosts the HTTP API, the worker pool, the
scheduler, the stale-job sweeper and the retention sweeper; Postgres, the storage
and the docker host survive it.

This directory models the parts of that process that share state and can interfere
with each other. `PROJECT.json` maps every definition to the lines it models.

## Inventory

| Part | State it keeps | Operations | Interacts with | Hard because |
|---|---|---|---|---|
| Job queue (`queue`, `repository/job_repository.go`) | rows of `jobs` | Enqueue, Dequeue, GetStatus, Complete, CancelActiveForTest, FailStale, HasActiveJob | everyone | lost replies, unconditional final update |
| Handler of a job (`worker/worker.go`) | program counter, run outcome | check, prepare, run, record, check again, complete, recover | docker, storage, alerts | stop, delete, sweep and crash at every step |
| Worker pool (`worker/pool.go`) | semaphore, wake channel, wait group | fill, select, drain | handlers, shutdown | lost wake-ups, leaked slots |
| Docker run (`runtime/runtime.go`, `cancel.go`) | containers, map of running commands | start, register, wait, deadline, kill | stop, sweeper | a container outlives its CLI and the process |
| Output of a run (`readOutput`) | pipes, Scanners, shared buffer | read, copy, end | the CLI, `Wait` | two goroutines, pipes that fill or are closed under them |
| Stale sweeper (`worker.sweepStale`) | ids still to kill | FailStale, KillContainer | handlers | may meet live handlers |
| Stop and delete (`handler/stop.go`, `delete.go`) | request-local lists | list, cancel, update, delete rows, delete objects | handlers, retention | several steps, no lock |
| Process (`main.go`) | phase | shutdown, drain, crash, restart | everything in memory | drain deadline |
| Scheduler (`scheduler`, `schedule`) | pause flag, list of due tests | tick, fire | queue, configuration | check-then-act, stale list |
| Configuration requests (`handler.go`, `schedule_control.go`) | a copy of a row | read, write all columns | scheduler, alerts | lost updates |
| Alert state (`RecordRunOutcome`) | streak, `alert_active` | locked transaction | handlers, configuration | concurrent outcomes |
| Notifications (`alert`) | none | webhook, then PagerDuty | incident at PagerDuty | outside the transaction, never retried |
| Retention (`retention`) | list and batch of a sweep | list, delete objects, delete rows, prune jobs | handlers, delete | two stores, no transaction |
| Object storage (`storage`) | objects; listing and offset of a call | upload, delete object, delete prefix | handlers, retention, delete | many requests per call, partial failure, overlapping prefixes |
| Authentication (`auth`) | cache of approvals | look up, ask Supabase, remember, clean up | every writing request | tokens revoked while an approval is cached or an answer travels |
| Upload (`UploadBinary`) | artifact, row | store, insert | storage, delete | two stores, validation between them |
| Environment variables (`env.go`, `env_repository.go`) | rows of `test_env_vars` | upsert, delete | delete of the test | count, then insert, under a row lock |

Not modelled, with the reason under "Not modelled" below: encryption and redaction of
secrets, bundle unpacking, image and docker argument building, configuration loading,
migrations, read-only requests and the web pages.

What makes each part correct:

- a job is run at most once, always reaches a final status, and a stop stands;
- no container is left without somebody who will remove it, unless docker refuses to;
- the pool keeps to its concurrency, loses no slot and no wake-up, and drains;
- a schedule fires once per due time, up to configuration writes that put a served time
  back, never overlaps itself, and can always fire while it is enabled;
- the streak counts every outcome, alerts follow the threshold, and the incident
  follows the alert state;
- retention keeps what the policy keeps, prunes the rest, and leaves no objects;
- a successful removal of a prefix has removed what its listing shows, and every call
  returns;
- a test that can be run has its artifact, and an artifact without a test has a cause
  one can name;
- a test never has more variables than allowed, and no request waits for ever;
- a revoked token is refused after the lifetime of the cache;
- a run's log is in order and complete up to two known causes, its call returns, and
  its container goes.

## Modules

| Module | Models |
|---|---|
| `JobLifecycle` | abstract: what the `jobs` table promises, whoever writes to it |
| `CommandRun` | abstract: what `runtime.Execute` promises the handler that calls it |
| `JobRunner` | queue, handlers, docker, registry, sweeper, stop/delete requests, process; implements `JobLifecycle` |
| `Execute` | one call of `runtime.Execute` from inside: CLI, pipes, goroutines, deadline, cancel; implements `CommandRun` |
| `PoolSlots` | abstract: what `runPool` promises, without channels and goroutines |
| `WorkerPool` | `runPool` in detail; implements `PoolSlots` |
| `Scheduler` | tick and fire, schedule columns, configuration requests |
| `AlertPolicy` | abstract: the alert policy as if each outcome were one step |
| `Alerts` | `RecordRunOutcome`, notifications, incident, alert configuration; implements `AlertPolicy` |
| `Retention` | what runs leave in tables and storage, retention sweep, delete |
| `ObjectStore` | abstract: what the `storage.Storage` interface promises, without pages, offsets and batches |
| `Storage` | the two storage clients request by request; implements `ObjectStore` |
| `AuthCache` | the token cache in front of writing requests |
| `TestStore` | abstract: tests, variables and artifacts as if every request were one step |
| `Api` | `AuthCache` composed with upload, environment variables and delete of a test; implements `TestStore` |
| `MC*` | instances for TLC: the assignment of jobs to tests, configurations, prefixes, symmetry (`WorkerPool`, `Api` and `Execute` need none) |
| `*Proofs` | inductive invariants and theorems |

### JobRunner

The state is the `jobs`, `tests` and `tests_runs` rows, one program counter per slot
(`pc`, `job`, `out`), the containers on the docker host (`cont`), the ids a sweep
still has to kill, and the progress of stop and delete requests. The map of running
commands is derived: a command is registered while its handler is at `running`.

- `handleJob` is `CheckBeforeRun`, the steps of `executeJob` (`Prepare`,
  `StartCommand`, `RegisterActive`, `ExecuteReturns`, `RecordRun`), `FinalCheck` and
  `CompleteJob`, with a failing outcome of every call that can fail, and
  `Panic`/`RecoverPanic`. The exit status of a command is not told apart here
  (`exited`): `Execute` and `Alerts` are about it.
- Docker is external: `Launch`, `CommandExits`, `OrphanExits`. The deadline kills
  only the CLI, and `ExecuteReturns` removes the container, as `Execute` does.
- `docker rm -f` may fail wherever it is called (`ExecuteReturns`, `CancelRemoves`,
  `KillSweptFails`): `KillContainer` drops its error and nobody tries again. `Wait` may
  return an error that is no exit status (`WaitFails`), after which `Execute` removes
  nothing. `left` holds the containers that stay behind in these ways.
- Between `StartCommand` and `RegisterActive` the command exists and cannot be
  cancelled; that gap is in the code.
- `runtime.Cancel` is two steps: `Cancel` kills the CLI, `CancelRemoves` the container.
  In between (`crm`) Execute may return and the handler move on, or the process end.
- `FailStale(S)` may take any running rows, because nothing bounds how long a
  handler spends on downloads and uploads; a lost reply fails the rows and kills
  nothing.
- `ProcessEnds` forgets what is in memory and leaves rows and containers.

`Lifecycle == INSTANCE JobLifecycle WITH ...` is the refinement mapping, and
`ImplementsLifecycle` its specification.

### Execute

`main` is the position of the call, `cli` and `container` what it started. Lines move
from `written` through the pipe into the Scanner (`taken`) and the shared buffer
(`copied`, `buf`). `Wait` returns once the CLI is gone and closes the pipes whether or
not they were read to the end (`cut` remembers those that were not). `long` is a line
over the Scanner's limit: its goroutine ends, the pipe fills, and the CLI blocks until
the deadline kills it. `Cancel` and the sweeper interfere from outside. `ForceRemove` is
`docker rm -f`, whose failure nobody sees. `Wait` may also lose track of the CLI
(`WaitFails`, CLI `lost`); the call then returns the error and removes nothing. A
container that was to be removed and was not, or that nobody will try to remove, is
`left`.

`CommandRun` has the steps `JobRunner` has for a handler's command, under the same names,
and two of them in one where the deadline coincides with another end. The mapping
(`Command == INSTANCE CommandRun WITH ...`) reads what the handler can know of the command
(`Known`) from the CLI and the container, from the deadline once the CLI is gone, and in the
end from the verdict. `ExecuteReturns` there carries the promise `JobRunner` relies on: the
result is what the command came to; after an exit the container is gone or a `Cancel` is
about to remove it; after the deadline it is gone unless `docker rm` failed; after an error
of `Wait` nothing is promised of it.

### WorkerPool

Main goroutine, semaphore, wake channel, ticker, wait group, and one goroutine per
job with its deferred calls as separate steps (free the slot, signal, leave).
`Concurrency` may be zero or negative, as the function accepts it. `PoolSlots` has
jobs that wait, run in one of N slots and end; after the context is cancelled at most
one claim that was under way still starts a job, and nothing runs once the pool has
returned. The mapping (`Slots == INSTANCE PoolSlots WITH ...`) takes a job as running
while its handler is at work, and as ended from then on.

### Scheduler

`clock` counts the instants at which some cron expression matches, and `next_run_at` is
such an instant. `NextRun` computes it from the clock of the moment: a tick from the time
it began at (`now`), a request from the time it read the row at. `fire` is three calls,
each of which can fail: `UpdateNextRunAt`, `HasActiveJob`, `Enqueue`; it serves the time
the test was listed with (`lnext`). Requests copy a row and write all of it later, with a
`next_run_at` that may have passed and been served by then. The history counts runs per
time (`runs`), the times `fire` has replaced by a later one (`moved`), and the
configuration writes that put such a time back (`putback`). An expression that parses and
matches no date (`Matches` is empty) gets the zero time from the cron library.

### Alerts

One test, several runs ending together. The transaction has a step that takes the
row lock and a step that commits; the decision made in it is carried out afterwards
by `Webhook` and `PagerDuty`. `steady` says that the configuration has not changed
in the current streak, `calm` that no notification was lost or overlapped and the
configuration stood still since the state was last in agreement; the properties
that need these conditions name them.

`AlertPolicy` has no transaction, lock or channel: an outcome moves the streak and decides
its notification (`Called`) from the row of that moment, in one step; the notification may
then be lost. The mapping takes the row as it is, and a notification as pending from the
commit until its last channel was tried. Stated without the transaction's order of tests,
`Called` says in two lines when there is word: on every multiple of the threshold the streak
reaches, and on the pass that ends an alert.

### Retention

Runs are numbered by `started_at`. A handler uploads the log, inserts the row, then
uploads screenshots, each with a row of its own. The sweep lists a batch, removes
the objects of its runs one by one (a failure may have removed some of them), then
the rows. `Keeps` states the policy without row numbers, as the reference for the
query. `early` marks runs whose objects were removed while they were being recorded.
The sweep's pruning of `jobs` is `JobRunner!DeleteFinishedJobsBefore`. `late` marks runs
whose handler was still at work when a DELETE removed its test's objects.
`PrunesOnlyExpired` is about the moment rows are removed: each of them is outside the
policy then, although the list is older.

### Storage

Objects are numbered in the order of their names. A call of `DeletePrefix` lists and
removes in separate requests: the Supabase client by offset until a page is short, then
in batches; the MinIO client by continuing after the last name, removing page by page.
Any request may fail, having removed some of what it was to remove. `owed` is what the
call is accountable for, `shrunk` whether someone else removed objects under its prefix
while it was listing.

MinIO's listing is recursive. Supabase's request asks for no recursion, and what the
service answers is not in the repository, so it is a parameter: `EntryOf` gives the entry
that stands for an object (several objects may share one, a folder), `Nameless` the entries
whose name is empty. The client counts a nameless entry towards the page and skips it, and
hands any other name to the delete request unchanged. `Shown` is what a listing shows by
its own name, `Returned` the names it may return.

`ObjectStore` is what a caller sees: during its call objects its listing returns, and no
others, disappear; success means that what was there at the beginning, is shown by the
listing and was not uploaded again is gone, unless others removed objects of the prefix
meanwhile (`excused`), which only the Supabase client needs. With MinIO the objects shown and
returned are those of the prefix. With Supabase that is so only if the service lists every
object of the prefix by its full name; about objects behind a folder, or whose names it
gives relative to the prefix, success says nothing. The mapping forgets offset and batches.

### AuthCache and Api

`AuthCache` has a clock in ticks, Supabase's revocations, the cache, and each client's
request on its way through `valid`: hit, or question, answer, storing. `Api` extends it:
a granted request becomes an upload (artifact, then row), a PUT of a variable (row lock,
existence, count, insert and commit), a DELETE of a variable (no lock), or a DELETE of a
test (rows, then files). Every call can fail (`Failed`), and the process can restart,
which empties the cache and rolls transactions back. `abandoned` marks tests whose
request ended between its two stores.

`TestStore` gives every test one life (`unused`, `uploaded`, `live`, `over`) and lets every
request take effect in one step: a variable is set on a live test and within the limit, a
test goes with its variables, and only the artifact of a test that is over is removed. The
mapping (`Phase`) reads a test's phase from its row and from the uploads that are about to
insert one.

## Runs

Every call that can fail does so nondeterministically, `docker rm` included; only crashes,
counters and the containers left behind at once (`MaxLeft`) are bounded. The bounds are
small, and large enough for the case each property is about. `MaxLeft` is 0 in
`job_runner_safety`, whose properties are not about containers, and 1 with one job
elsewhere.

| Run | Bounds | Shows |
|---|---|---|
| `job_runner_safety` | 2 jobs of one test, 2 slots, 1 request, 1 shutdown or crash | `AtMostOnce`, `StopHonoured`, `CompletedHasRun`: two handlers, a request and a sweep can meet at every step, before and after a restart |
| `job_runner_liveness` | 1 job, 1 slot, 2 requests, 2 stops, 1 container left behind | `ContainersOwned` with two `Cancel`s, a deadline and a sweep after the same container, any of which may fail to remove it; `ImplementsLifecycle`, `EveryJobResolves` (also after a second crash during recovery), `ContainersReaped`; each is about one job at a time |
| `worker_pool` | 3 jobs, 2 slots | a full pool with a backlog: the slot and wake-up invariants, `NoStarvation`, `ShutdownCompletes` |
| `scheduler` | 1 test, a daily cron and 31 February, one instant passed and one ahead, 2 requests, 1 manual job | two requests can hold stale copies, with a time the scheduler serves before they write; `DoubledOnlyByStaleWrite`; `DueIsServed` through crashes and failing calls |
| `alerts_safety` | 2 runs, 1 request, 6 configurations, streaks up to 6, 2 faults | two thresholds are passed more than once; `ImplementsPolicy` with a configuration written between a decision and its sending |
| `retention` | 3 runs (2 legacy, 1 that storage can never remove), 2 kept and an age limit, 2 batches of 2, 1 crash | both limits select runs, a batch fails in part, DELETE meets handlers; `PrunesOnlyExpired` when runs are recorded behind the list; `ExpiredPruned` next to a run that stays |
| `storage` | 4 names, 2 callers whose prefixes nest, both clients, a run that Supabase shows as a nameless folder in its test's listing, pages of 2, batches of 3, uploads and removals by others without bound | a listing takes several requests and can be shifted by an upload, a delete or the other caller, and skips an entry it counts; `ImplementsObjectStore`, `CallsReturn` |
| `api` | 2 clients, 1 token, lifetime 2, timeout 1, 4 instants, 1 test, 2 variables of which 1 is allowed | an answer travels across a revocation; two writers race for the last variable next to a delete; `ImplementsTestStore`, `RequestsAnswered` |
| `execute` | 3 lines per stream, pipes of 2 | a pipe fills behind a line too long, is closed with lines in it, or is read to the end, with deadline, cancel and sweep at every point, `Wait` and `docker rm` failing; `ImplementsCommandRun` |

A clean-up of *other* tokens' cache entries needs two tokens, which makes `api` forty
times larger; `RevocationTakesEffect` is proved for any number. The type invariants, and
`InFlightBounded`, `OutputFrozen`, `ContainerGone` and `PassIsGenuine`, which follow from
refinements or from properties that are run, are proved and not run.

`CHECK_DEADLOCK FALSE` is used for `JobRunner` and `WorkerPool`, whose bounded job
sets are worked off and which may stop for good, and for `Execute`, which is one call.

Every property is also run against a mutant of a mapped definition (marked "Mutant"
in the modules, listed in `PROJECT.json`) that imitates a plausible slip in the code,
and is violated by it.

### Where the code and what is said of it disagree

| Run | Counterexample |
|---|---|
| `orphans_reaped` | crash during a run, restart, `/stop`: the registry is empty so nothing is killed, the row becomes cancelled, and the sweeper looks at running rows only |
| `no_start_after_stop` | `/stop` during preparation: the status is not read again before docker starts |
| `threshold_raised` | the threshold is raised during an incident; the next failure clears `alert_active`, and the pass resolves nothing |

The models have these behaviours of the code too; no run is kept for them, and
`PROJECT.json` lists them as hazards:

- the sweeper can fail a job whose handler is alive (slow storage, or a shorter
  `timeout_seconds` written during the run), and the handler then overwrites the
  verdict;
- a cancellation between the handler's last status check and its final update is
  overwritten;
- a process that ends between the two steps of a `Cancel` whose handler has already
  completed the job leaves a container no sweep will look for;
- a container whose `docker rm -f` fails stays: the error is dropped and nobody tries
  again; so does one whose CLI `Wait` lost track of;
- a PATCH or `/schedule/start` that computed `next_run_at` before the scheduler served
  that time, and writes it afterwards, has it served a second time;
- a manual run enqueued between `HasActiveJob` and `Enqueue` overlaps with the
  scheduled one;
- a cron expression that parses and matches no date is due on every tick;
- of two runs ending together, the resolve may overtake the trigger;
- a PATCH that read the row before `/schedule/stop` writes the schedule back as enabled;
- a pause takes effect with the next tick only, and does not survive a restart;
- a run pruned while its screenshots are being uploaded leaves them in storage;
- DELETE of a test does not wait for the handler of the run it cancels, whose log then
  arrives after the test's objects were removed and stays;
- an upload that fails after its artifact was stored leaves the artifact, and so does a
  DELETE whose storage calls fail;
- output still in a pipe when `Wait` closes it is lost;
- a line over the Scanner's limit (64 KiB) ends the log of its stream, and can hold the
  test up until its deadline;
- with Supabase, objects removed under a prefix of more than 1000 objects while
  `DeletePrefix` lists it make it skip others and report success;
- with Supabase, objects the listing does not show by their own name stay after a
  successful `DeletePrefix`. The comment on `listObjects` says "This method paginates
  through the entire prefix." (`storage/supabase.go:340`), and DELETE of a test relies on
  it for the run folders below the test's; whether it holds depends on the service.

`StopHonoured`, `ContainersOwned`, `OneScheduledRun`, `DoubledOnlyByStaleWrite`,
`EnabledIsLive`, `IncidentMatchesAlert`, `PrunedLeavesNothing`, `LeaksExplained`,
`OrphansExplained`, `OutputAccounted` and `PrefixEmptied` say what does hold next to these, and are proved.

## Fairness

- `JobRunner`: weak fairness of every handler (goroutines run while the process does),
  of deadlines (a context timer), of claiming (the pool polls), of a sweep reaching a
  job that stays running (once a minute), of kills by the sweeper and by `Cancel` (`docker
  rm` returns, with or without success), of the shutdown sequence, and of `Restart` (`docker-compose.yml` says `restart: unless-stopped`). Containers need not
  exit and clients need not act. The handler's fairness is over all outcomes of a
  step, so a call may fail every time.
- `WorkerPool`: weak fairness of the goroutines and the ticker; strong fairness of
  `select` taking `ctx.Done` (Go chooses uniformly among ready cases) and of a claim
  (the database does not fail every time).
- `Scheduler`: weak fairness of tick and fire; strong fairness of reaching a listed
  test and of its update, since crashes and errors may recur but not every time.
- `Retention`: weak fairness of the sweep; strong fairness of the calls that can
  succeed. Runs in `Bad` never can.
- `Storage`: weak fairness of a call's requests, each of which is answered or fails
  (Supabase's HTTP client has a timeout; for MinIO, whose calls have no deadline, this
  is an assumption on the network). Failures are never needed.
- `Api`: weak fairness of verification and of the handlers' statements; strong fairness
  of taking the row lock and of DELETE's transaction, since Postgres queues the waiters
  of a row. Neither failures nor restarts are relied on.
- `Execute`: weak fairness of the call, its goroutines, the timer, the kill and `docker
  rm`, which returns with or without success. The test need not write, end, or be started at all.
- `Alerts` has no liveness property: notifications are not retried, so nothing must
  happen.

## Proofs

All theorems hold for every value of the constants under the modules' assumptions.

- **JobRunner.** `IInv` adds to the type invariant: a slot has a job exactly when
  busy and knows what its position implies (`SlotInv`); a job has one handler, which
  claimed it, and no row with a handler is completed (`OwnerInv`); commands are
  started by that handler once (`StartInv`); a handler past its last check holds no
  job whose cancellation must stand (`StopInv`); one about to write `completed` has
  recorded the run (`RunInv`); containers belong to claimed jobs and a handler that
  does not expect its container is right, a `Cancel` is about to remove it, or it was left
  behind by a failing `docker rm` or `Wait` (`ContInv`).
  From it follow `TypeCorrect`,
  `ExecutedAtMostOnce`, `StopIsHonoured`, `CompletedRunsRecorded`, `NoContainerLeak`.
  `Implementation` maps `status` and `claimed` to themselves; each step is a step of
  `JobLifecycle` or a stutter, and `OwnerInv` is what makes the unconditional final
  update a legal `Finish`.
- **Execute.** `CallInv` ties the call's position to the CLI and the goroutines;
  `BufInv` says each line in the buffer is one its goroutine has counted, which makes
  `InOrder` inductive; `ReaderInv` says why a goroutine stopped, hence
  `NothingElseLost`; `ContainerInv` says who answers for the container, and
  that it is `left` only once its CLI is gone, hence
  `ContainerRemoved` and `PassesAreGenuine`. `Implementation` goes through the steps with
  the refinement mapping spelled out case by case (`KnownCases`); that the call returns
  without its container, with a `Cancel` about to remove it, or having given it up, is
  `ContainerInv`.
- **WorkerPool.** The token count equals the holders plus the claim in progress
  (`NoSlotLeaks`), from which the bound on handlers follows; `NoWakeUpLost` needs why
  the loop went to sleep. `Implementation` maps every step to a step of `PoolSlots` or a
  stutter; starting a job is legal there because of the bound, and returning because a
  wait group at zero means that no handler is at work.
- **Scheduler.** The scheduler being one goroutine gives `OneScheduledRun`; each
  time has one run to its name, which the row or the tick's list still stands for, which is
  being fired, or which is used up, and one more for every write that put it back
  (`OccurrenceInv`). That only a write can bring a time back needs that `fire` moves past
  times the tick has seen go by, and `NextRun` only forward (`MovedInv`, `ListInv`). This is
  `DoublingBounded`; expressions that match no date are included.
- **Alerts.** The lock makes the row read equal to the row at commit (`LockInv`,
  `StreakCounted`); `AlertsOnSchedule` needs two facts on integer division;
  `CalmInv` says what a pending notification will do to the incident. `Implementation`
  needs the lock once more: a decision computed from the row read is the one the row at
  commit calls for, because nobody can have written in between.
- **Retention.** Every listed run leaves its test a row that is not listed
  (`ListedInv`, from the newest row having row number one); a run whose objects are
  gone has a finished handler (`EmptyInv`), so they stay gone. `KeptIsIntact` needs a
  counting argument: new runs only push a listed run further from the top, so a run
  listed for its number stays outside the policy. For the newest of the runs listed in
  this way, every run above it is unlisted and therefore stays, unless its whole test
  goes. `QueryFindsExpired` relates the query, with its window function, to the policy in
  words (`Keeps`), and with the same counting argument gives `OnlyExpiredPruned`: what is
  removed is outside the policy at that moment. `NoOtherLeaks` follows each object from its upload to its removal.
- **Storage.** The entries a Supabase listing has passed are those with a rank below the
  offset, named or not; an upload can only raise ranks, so without removals everything owed
  is listed or at or beyond the offset, and a short page leaves nothing beyond it. Objects
  in a folder or without a name are not owed. The MinIO
  listing passes names, not ranks, and needs no such condition. `Implementation` adds that
  every name a call has listed is one its listing may return, so overlapping calls take
  from each other only what both may remove.
- **Api.** A remembered approval was asked for before the token was revoked, so it
  expires within `cacheTTL` of that (`AuthInv`); what a writer has found out about the
  variables stays true until its INSERT because it holds the row (`LockInv`, `VarInv`;
  a DELETE in between only helps); an upload about to insert its row has the test to
  itself (`CreateInv`), and artifacts go only after rows (`FileInv`). `Implementation` has
  one lemma per kind of step: an upload, its creation, a restart (which gives up every
  upload at once), the statements that take effect, and those nobody can see.

Only model-checked: all liveness (fairness is out of the prover's reach), and the
violated properties.

## Abstractions

- Time is an order of events: deadlines and expiry may pass whenever their guard holds.
  `Scheduler` and `AuthCache` have a clock.
- A database statement is atomic. The delete transaction is one step; a run inserted
  into it makes it fail on the foreign key, which is a failing request.
- Message texts, logging, images, command lines and the columns that only feed
  docker are left out.
- A run's several screenshots are one object and one row.
- `ListDueScheduled`'s limit of 100 is not reached.
- `Retention` and `Api` take `DeletePrefix` as one step that succeeds or fails half-way;
  `Storage` shows when that is justified: for MinIO, and for Supabase where the service
  lists all objects of the prefix by their full names and nobody else removes some of them
  meanwhile.
- The MinIO library may fetch the next page before the names of the last one were
  removed; that commutes, since it continues by name and the removed names lie before.
- A docker CLI that is killed before the daemon has created its container creates none.
- A docker CLI stays attached to its container: it ends by itself only when the container
  has ended, and `--rm` then removes that.
- A line cut off by a closed pipe is not told apart from a whole one.
- Requests to `/env` pass the verifier twice, by the same steps; the model has them once.
  A server without Supabase has no verifier, and is not modelled.
- Row locks of other transactions on `tests` are short statements without a wait in
  between, and are not in `Api`.

## Not modelled

- Encryption of secrets and their redaction from logs: library calls and string
  replacement, without state. What a recursive definition over strings computes is out
  of the prover's reach, and a bounded check would test TLC's strings, not Go's.
- Bundle unpacking, screenshots' file walk, support files: file system work in a
  directory that one handler owns.
- Images and docker arguments, configuration, database connection and migrations: they
  run once, or build command lines; nothing else depends on their order.
- Read-only requests, downloads and the web pages: they change no state.
- The limit of `ListDueScheduled`: it matters only when the updates of more than 100 due
  schedules keep failing.

## What could follow

1. `JobRunner` on top of `PoolSlots`, so that its slots are the pool's by refinement.
2. `JobRunner` written as a composition of one `CommandRun` per job, so that what is proved
   of `Execute` is used there by name and not by comparison of steps.
3. An abstract specification of `Scheduler`, in which a due time is served by one step.
