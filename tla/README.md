# preloop: TLA+ models and proofs

preloop is a self-hosted control plane for GitHub Actions. GitHub sends
webhooks; the server turns them into runs, jobs and attempts, decides which job
may start and reports back to GitHub; runners poll for work, keep a lease on
what they took and report results; a reaper takes work back from runners that
disappeared; a pool boots one virtual machine per job. This directory models the
parts of it in which several actors meet: TLA+ modules, TLC configurations that
check them on small instances, and TLAPS proofs for every size.

Paths below are relative to `src/crates/preloop-runner-server/src/` unless they
start with `src/`.

## 1. The system

### Components

| Component | State | Operations | Interacts with |
|---|---|---|---|
| **Job dispatch** (`control/lite/{poll,requests,dispatch,settle}.rs`, `broker.rs`, `distributed_task.rs`) | `jobs` (status, queue state, claimant), `job_requests` (attempts), `job_leases`, `job_cancellations`, `session_messages` | poll, claim, acknowledge, renew, complete (broker and legacy PATCH), cancel | runners over HTTP; reaper; registrations |
| **Registrations and sessions** (`control/lite/lifecycle.rs`) | `runners`, `runner_sessions`, pairings | register, open and close a session, purge (requeues), reconcile on boot | dispatch: requeueing retires an attempt and mints another |
| **Reaper** (`control/lite/reaper.rs`, `bootstrap.rs`) | none of its own: a snapshot held between transactions | read inputs, sweep (starve, time out, expire), complete, purge silent runners; every 10 s | dispatch, registrations |
| **Webhook inbox** (`control/lite/webhooks.rs`, `github.rs`) | `webhook_deliveries`; per worker a lease token, a heartbeat and an outcome | enqueue, claim, renew, complete, park, retry, dead-letter, replay, prune, recover | submission, breaker, check reporting |
| **Submission** (`control/lite/submit.rs`) | `runs`, `jobs`, first attempts | head, job chunks, finalize, poison; each its own transaction | inbox, concurrency groups, promotion |
| **Concurrency groups** (`control/lite/{concurrency,settle}.rs`, `control/logic.rs`) | `concurrency_holds`, `concurrency_waits` | acquire, park, cancel in progress, release, promote | submission, settlement, boot reconciliation |
| **Promotion** (`control/lite/promote.rs`) | `remaining_needs`, gates, job sets | promote, advance a job set, fail fast, max-parallel | submission, settlement, environments |
| **Expansion** (`control/lite/expansion.rs`) | `expand_generation`, pending nodes | claim, apply | promotion, restart |
| **Reruns** (`control/lite/rerun.rs`) | run attempt, reset jobs | rerun all, failed, one | promotion, groups |
| **Fork gate** (`control/lite/fork_gate.rs`, `fork_policy.rs`) | pending approvals | approve, reject | submission |
| **GitHub breaker** (`github_breaker.rs`) | failures, open-until, probe; in memory, per credential | record success or failure, ask | inbox, every GitHub call |
| **Watchdog** (`webhook_watchdog.rs`) | scan marker, open repairs | list, request redelivery | GitHub, inbox |
| **Check-run outbox** (`control/lite/check_runs.rs`) | outbox events, consumer offset, pending updates | project, send, retry | everything that emits events |
| **Archive and retention** (`control/lite/queries.rs`, `retention.rs`) | `run_history` | archive, delete | inbox (deduplication), reruns |
| **Runner process** (`src/crates/preloop-runner/src/{listener,worker}/`) | a listener with a session, a poll in flight, the ids of processed messages and the active job; a worker process per job | create a session, poll, acquire, spawn, cancel, kill, shut down; gate, renew, report | dispatch over HTTP; pool |
| **VM pool** (`src/crates/preloop-orchestrator/src/lib.rs`) | golden machines and their budget, slots, permits, the preparing signal | sweep, bake, boot, configure, serve, pause, purge, delete, shut down | registrations (purge), debug sessions, sandbox drivers |
| **PostgreSQL backend** (`control/pg/`) | the same tables | the same `ControlBackend` trait | |
| Others | logs, timelines, cache, artifacts, secrets, debug sessions, sandboxes, parser, CLI | | see `PROJECT.json` |

Every command of the SQLite backend is one `BEGIN IMMEDIATE` transaction under
one writer lock. So interleaving happens *between* transactions, and the
places to look at are the operations made of several: the reaper's tick, the
legacy PATCH, a webhook walk, a submit, a restart.

### What is hard, and what correct means

* **Dispatch.** A runner the server gave up on may still be running and report
  late; a requeue replaces its attempt while a reaper's tick, holding older
  inputs, is about to fail it; cancellations travel through sessions that
  outlive attempts. Correct: one attempt in flight per job; every queued or
  claimed job has an attempt somebody will act on; only the present claimant
  can settle it; the first verdict stands; a lost runner lets go.
* **Inbox.** A lease can expire at any point of a walk, and the walk goes on
  until its heartbeat notices. Correct: done means submitted; one run per
  delivery; only the lease holder ends a walk; everything acknowledged is
  decided in the end.
* **Submission and groups.** A flag read in the first transaction is used in
  the later ones, while holders complete, users cancel and newer runs arrive.
  Correct: at most one holder of a group makes progress; a waiter is promoted
  when the slot frees; a finished run dispatches nothing.
* **Promotion and expansion.** A sweep decides on a graph it loaded before it
  settled other candidates; a matrix or a call is built outside any transaction
  while the run is cancelled or the server restarts. Correct: a job starts after
  its needs and as its condition says; limits hold; verdicts stand; a stale
  subtree is not folded in; the run ends.
* **Check runs.** Requests whose answer is lost are repeated, rows are replaced
  while an older version is on its way; some changes of a job come with no event, or
  with one that follows in a transaction of its own. Correct: one check per job, never
  back to an older status, every status an event told of shown or overtaken.
* **Runner process.** A claim whose answer is lost, a poll older than the job, a
  worker that outlives its listener. Correct: one job at a time; a cancelled job
  ends; no claim stays without a worker.
* **VM pool.** Memory is promised to goldens, bakes and runners by tasks that do
  not see each other; debug pauses hand permits around; anything may fail, the
  deletion of a machine too. Correct: the host is never overcommitted; a runner
  is purged before its machine goes; an interrupted bake is not adopted; a
  shutdown ends everything.

`PROJECT.json` lists the hazards one by one, at the line where each bites, with
the properties that watch it, or the reason why none does yet.

## 2. Modules

| Module | Models | Proofs |
|---|---|---|
| `Dispatch` | jobs, attempts, leases, sessions, the reaper, restarts | `DispatchProofs` |
| `WebhookInbox` | deliveries, workers, leases, submits, outages, restarts | `WebhookInboxProofs` |
| `Admission` | submits in chunks, a workflow concurrency group, restarts | `AdmissionProofs` |
| `GroupSlot` | what a concurrency group promises: a slot and a bounded FIFO queue | `AdmissionProofs`: `Admission` implements it |
| `Promotion` | the job graph of one run: needs, conditions, fail-fast, max-parallel, gates, deferred matrices, reusable calls | `PromotionProofs`, `PromotionGraphProofs` |
| `CheckRuns` | the check-run outbox, its sender and GitHub | `CheckRunsProofs` |
| `Pool` | the VM pool: goldens, slots, permits, debug pauses, shutdown, crashes | `PoolProofs` |
| `Runner` | a runner process, composed with `Dispatch` (which it EXTENDS) | `RunnerProofs`, on top of `DispatchProofs` |
| `MC...` | symmetry sets and constant values for TLC | |

### Dispatch

One variable per column that a decision reads: `status`, `queue`, `claimedBy`
(`jobs`); `reqJob`, `result`, `owner`, `bound`, `timedOut`, `lease`
(`job_requests`, `job_leases`); `cancels` and `inbox` (`job_cancellations`,
`session_messages`); `sessRunner`, `runners`, `gone` (registrations; `gone`
because ids are never reused), `dead` (processes that crashed, which the server
does not know). `tick`, `snap` and `reaping` are the local state of the reaper
between its transactions, `patched` that of a legacy PATCH.

An action is one transaction: `PollClaim` is `poll_session` down to `claim_one`
and `bind_claim`; `PollCancel` is the branch that turns a pending cancellation
into a session message; `BrokerCompleteJob` is `settle_job`, ownership check
and completion together; `AgentRequestPatch` and `PatchComplete` are the two
transactions of the PATCH; `ReapInputs`, `ReapSweep` and `ReapComplete` those of
a reaper tick. `CompleteNode` (`complete_node` with `settle_request_tx`) and
`Requeue` (`requeue_claimed` with `retry_attempt`) are the effects they share.
`Restart` ends whatever was in flight and performs `reconcile_on_boot` and
`reconcile_orphaned_claims`, which run before the server listens.

Abstractions. Which ready job a poll takes (labels, assignment tiers, namespace caps,
order) is left open; needs and gates belong to promotion, so jobs start ready. A lease
is fresh or stale, stale meaning past the threshold the reaper applies; timeouts and
starvation may strike any candidate. The lease of a settled attempt is never read and is
normalised to none. `cancel_run`, fail-fast and cancel-in-progress are `CancelJob` of
several jobs, in any order. The verdict "skipped" is not distinguished. Acknowledged job
messages, and redelivery of one, change nothing that is modelled. A report about an
attempt that already has a result goes through `CompleteNode` like any other, because
`settle_job` does not look at it (the comment in `control/backend.rs:1443` expects it
to). The ownership check of a PATCH (`distributed_task.rs:487-496`) reads before the
transaction that stamps the attempt; `AgentRequestPatch` has both in one step. The AzDO
poll (a twin of the broker's) and runner-less compatibility sessions are left out.
`Reqs` bounds the number of retries: a requeue needs a row to mint. With
`LoseCompletions` false a restart waits until no completion is between its two
transactions (a graceful stop); with it true it may happen anywhere and completions may
also be lost to the reaper's 30 s timeout or a discarded error.

### WebhookInbox

`state`, `attempts`, `lease`, `holder` and `older` are the columns of
`webhook_deliveries` (`holder` stands for the lease token: a token is minted by
one claim, so "the same token" is "the same claim"; `older` for `received_at`).
`phase`, `task`, `outcome`, `submitted` and `lost` are a worker inside
`process_one_delivery_inner`: walking the payload, inside `submit_run`, holding
an outcome, or having reported failure checks. `runs` counts the runs ever
created for a delivery, `built` describes the one the runs table holds.

`SubmitHead`, then `SubmitFinalize` or `PoisonPartialSubmit`, are the
transactions of one submit. `HeartbeatStops` is the heartbeat task cancelling
`lease_lost`; `WalkReturns` and `Drop` are the two arms of the `select!`;
`Verdict` is the reclassification that follows; `CompleteDelivery`,
`ParkDelivery`, `RetryDelivery`, `DeadLetter` and `Report` are the arms of the
last `match`. All writes go through `Write`, which carries the `OWNED_LEASE`
fence.

Abstractions. A delivery triggers exactly one workflow. Renewal is `Expire` not
happening. Attempts saturate one above the cap. The claim's branch for
undecodable payloads is left out (enqueue rejects them). Reports of several
failed workflows are one step. `lite` submits contain no await, so aborting the
walk does not cut one in two; only a crash does. The breaker is the environment:
closed, limiting this delivery's credential, or GitHub down, reopening at most
`MaxOutages` times; a restart resets it, as it lives in memory. The watchdog's
redelivery is `Enqueue` of the same id.

### Admission

One group and the runs whose workflow names it. `hold` is the group's row in
`concurrency_holds`, `wait` and `lastWait` the `wait_id` of each row in
`concurrency_waits` and its AUTOINCREMENT counter, `status` and `job` the columns
of `runs` and `jobs` that a decision reads. `next` and `held` are the local state
of a `submit_run` between its transactions (`SubmitProceed.held` is decided by
the head and used by every chunk). `evicted` records holders displaced as stuck;
no action reads it.

`SubmitHead` is `submit_run_head` with `acquire`: one action per outcome,
`ArrivalCancelled`, `TakeFreeSlot`, `DisplaceStuck`, `CancelCurrent` and `Park`,
under any combination of cancel-in-progress, queue mode and registered
platforms. `SubmitChunk`, `SubmitFinalize` and `SubmitFails`
(`poison_partial_submit`, or a poison that failed as well) are the remaining
transactions; `Crash` stops the server between any two. `Claim`, `Complete`
(`settle_node`), `Requeue`, `Starve` and `CancelRun` change jobs. `ReleaseRun` and
`HandOver` are `release_concurrency_for_run` and `promote_next_in_group`, shared
by all that give up the slot. `Boot` and `BootAborts` are `reconcile_on_boot`.

Abstractions. A chunk is one job without needs, matrix or gate of its own; a
skipped one is inserted terminal. `queued` and `in_progress` runs are both live. A
run whose jobs all conclude at submit takes no slot and is left out. Event order
is a number, 0 for payloads without a timestamp, compared only when both have one.
Attempts, leases and sessions are those of `Dispatch`. Archiving of runs, reruns
(which acquire the group again) and job-set gates are not modelled; job-level
gates are in `Promotion`.

`GroupSlot` is the same group without jobs, submits or restarts: a slot, tickets
handed out in order, runs that arrive and end. `Admission` instantiates it with
`slot <- hold`, `ticket <- wait`, and the runs that exist and are finished; the
refinement is the property `ImplementsGroupSlot`. Two of its actions are there
because the code does them: `End` leaves the slot with a finished run (starvation),
and `Recover` consumes the oldest place without giving it the slot.

### Promotion

One run. `status`, `queue`, `remaining` and `generation` are the columns of `jobs` that
promotion reads, `gate` a job's row in `concurrency_waits` or `concurrency_holds`,
`conclusion` that of the run; `onRunner` the jobs a runner works on, `starved` (a
history) those the reaper gave up. `sweep` is the local state of the promotion loop in
the running transaction: what is left to visit and the graph it loaded before it began.
`drains` and `builds` are the expansion loops and the claims they are building.

A command up to its sweep is one action (`Report`, `CancelRun`, `CancelJobInner`,
`FailJobset`, `GrantSlot`, `ApplyExpansion`), then the sweep is one action per candidate
(`SweepCandidate`) and per parked job (`RevisitParked`), with nothing else in between,
because the transaction holds the writer lock. `SettleNode` is the effect of
`settle_node` with fail-fast, with the concurrency rows that it gives up (`Released`);
`Folded` is `finalize_reusable_callers`. `Starve` is `starve_job`: unlike a report it
only summarises the run, with no recount of the needs, no sweep, no fail-fast and no
release. A gate (`AdmitJob`, `AdmitCaller`) lets a job through, parks
it, or ends it as cancelled or failed. `ClaimExpansion` and `ApplyExpansion` are the two
transactions of `drain_expansions`; a cancellation, a displacement or a `Restart` may
come between them.

Abstractions. A condition is the decision it takes for each aggregate status of
the ancestors. Calls are not nested and have no max-parallel. The group of a gated
job is contended by other runs only. A slot offered to a job whose base is at its
max-parallel is not taken (`settle.rs:409-413` uses the release up and parks the job
again): `GrantSlot` is then not enabled. A fork gate, reruns and the outputs that a
matrix is built from are left out. `MaxDrains` and `MaxRestarts` bound the loops
and the restarts.

### CheckRuns

`version` and `reports` are columns of `jobs` and `runs`, `unread` the events behind the
consumer's offset, `row` the table `check_run_updates`, `mapping` `jobs.check_run_id`;
`at`, `update` and `batch` are a sender's local state, `of` and `shown` what GitHub has.
`told` is a history: the version a job had when its latest event was committed. A status
changes with its event in the same transaction (`StatusChanges`: releases, claims,
reports) or without (`ChangesUntold`: starvation, cancellation of a job, siblings of a
failed leg, requeues, holds); `Emit` is the event that a handler appends afterwards, at
any time or never. `Project` is the projector's transaction; `Lease`, `Begin`,
`Simulate`, `Resolve`, `Lookup`, `Persist`, `Renew`, `Create`, `Patch`, `NotFound`,
`Refuse`, `Finish` and `Retry` are the steps of the sender, one per transaction or
request; `Persists` is `persist_check_run_id`, either of whose writes may fail. The
second parameter of `Create` and `Patch` says whether the request is the last one, with
its answer received: after a lost answer it is repeated.

Abstractions. A status is the job's version. A request is handled by GitHub before
the client's timeout or never, and the lease renewed before a request outlives that
timeout. The breaker and failing token mints are `Defer` and `Retry`. A commit has at
most the ten pages of check runs that a lookup reads, and 404 to a lookup means that it
has none. Texts, annotations and step summaries are left out.

### Pool

`engine`, `shutdown` and `pc` say where the pool's task and each slot are; `cache`,
`budget`, `base` and `record` are the goldens (reserved, left over, on disk, recorded
as complete); `permits`, `holds` and `watch` the on-demand semaphore, a slot's
permit and its pause watcher; `count` and `signal` the preparing guard that holds
the control plane's starvation clock; `present`, `conf`, `registered`, `leaked` and
`missed` the machines and the runners of the control plane.

A slot goes through `Enter`, `Resolve`, a bake (`Adopt`, `StripRecord`, `Build`,
`GoldenReady` or `BakeFails`), `CreateVm`, `Configure`, `Ready`, `JobTaken`,
`RunEnds`, `RunnerGone`, `DeleteMachine`, `MachineIsGone`, or leaves by
`ProvisionFails`, `DeleteFailed`, `Abandon`, `Preserve`, `StopWaiting`. `PauseSeen`,
`ResumeSeen` and `Reacquire` are the watcher. `Start`, `RemoveStale`, `StaleSweep`,
`Serve`, `Teardown` and `Crash` are the engine, which may be started again on the
host the last one left behind.

Abstractions. Gauges of idle and building machines, waits for disk space, suspension of
paused machines and the periodic `reconcile_orphans` are left out. Retries of a fork and
its re-arming are part of a provision that succeeds or fails. Memory is a number of
machines. Deleting the record of a golden succeeds, and the machine of a failed bake is
not counted (section 6). Errors of the externals and of artifacts end the engine
(`Teardown`, `Crash`). A panic of a slot is left out. `MaxSlots`, `MaxGen`, `MaxBoots`
and `MaxLost` bound slots, generations, boots and lost notifications.

### Runner

`lis`, `cur`, `poll`, `answer`, `seen`, `active`, `told`, `killAt` and `once` are the
local variables of `run_broker_loop`; `worker` is the worker process of each attempt,
including one that outlived its listener. The listener's loop is one `select!`;
an action is one of its branches, one HTTP call or one step of a worker. The
server's half of a call is the action of `Dispatch`: `AnswerJob` is a poll answered
by `PollClaim`, `ReportCompletion` is `BrokerCompleteJob`, acknowledged or not, and
so on. `PollFails` loses an answer after the server acted; `AcquireUnclaimable` is
`fail_unclaimable_request`; `Shutdown` drains the job between two polls, and during
a back-off just leaves.

Abstractions. Starvation, timeouts (to the runner one more cancellation), purges
and cancellations of unclaimed jobs are left to the runs of `Dispatch`. A worker
that loses its lease and cancels itself is one whose steps end with a failure.
Creating a session succeeds in the end. The job that arrives while another is
active never does (`JobsArriveFree` proves it), so the branch that cancels the active
one is not written. In `AcquireUnclaimable` the checks of an acquire, the token it mints
and `settle_request` (`broker.rs:834-901`, `1314-1329`) are one step. A poll the client
dropped is not answered later. The AzDO
listener, configuration and migration messages, and what a step executes are left
out.

## 3. Runs

| Run | Instance | Shows |
|---|---|---|
| `dispatch_retry` | 1 job, 2 runners, 2 sessions, 3 attempts | `TypeOK`, `OneLiveAttempt`, `NoStrandedJob`, `OnlyClaimantReports`, `FirstResultWins` |
| `dispatch_sessions` | 2 jobs (one continue-on-error), 1 runner, 1 session, completions may be lost | `CancellationsMatch`, `SessionsHoldOneAttempt` |
| `runner_process` | 1 runner process, 2 jobs, 2 sessions, single-use or not, fair | `ClaimsOnlyWhenFree`, `CancelledJobStops`, `ClaimsAreWorked` |
| `inbox_queue` | 2 deliveries, 1 worker, one run archivable | `OneRunEach` |
| `inbox_liveness` | 1 delivery, 2 workers, 1 outage, cap 2, fair | `DoneMeansSubmitted`, `FencedOutcome`, `InboxDrains` |
| `admission_group` | 3 runs of 2 chunks, some skipped, 2 places in the queue | `WaitersParked`, `OnlyHolderRuns`, `OldestWaiterFirst`, `NewerRunsSurvive`, `ImplementsGroupSlot` |
| `admission_full` | 3 runs of 1 chunk, 1 place | `QueueBounded` |
| `promotion_matrix` | 3 matrix legs (2 at a time, fail-fast, one tolerated) and a call behind one job, in front of a protected and gated deployment and a job on failure | `StartsAfterNeeds`, `MaxParallelKept`, `NoHungRun`, `VerdictsStand`, `ConditionsDecide` |
| `promotion_calls` | a deferred matrix and a gated call, 2 expansion loops, 1 restart, fair | `TypeOK`, `CompletedRunIsDone`, `RunConcludes` |
| `check_runs` | 1 job of two statuses and 1 failed workflow, 1 sender, 1 restart, fair | `TypeOK`, `OneCheckEach`, `QuietMeansShown`, `NeverGoesBack`, `StatusReachesGitHub` |
| `pool` | 2 slots, 2 boots, 2 environments, room for 3 machines, both modes, fair | `TypeOK`, `WithinCapacity`, `RunnersHosted`, `StarvationClock`, `AdoptableIsWhole`, `StopsOnShutdown`, `PoolAdvances` |
| `promotion_skipped` | a call of two jobs | a counterexample to `NoHungRun`, see section 6 |

**Why the bounds are enough.** Dispatch's races are about one job: a past claimant, a
present one and a reaper; two runners and two retries are the smallest instance in which
an attempt twice removed can still be named, and two jobs are needed only where a
session moves from one job to the next. The same two jobs let a runner process be
offered work while the worker of the last job still drains; its second session is the
one a renewed token leads to. In the inbox the races are about one row: a worker that
lost it and one that takes it. A cap of two attempts separates the first attempt, the
last one and the one that should not happen. One outage suffices because an outage
leaves nothing behind but a refunded attempt. In the group, three runs are a holder and
two waiters in an order, or a displaced holder, its successor and a waiter; two chunks
let anything happen before, between and after them. Their events are newer, older and
undated. A queue of two never overflows with three runs, which is why `admission_full`
has a queue of one. In the graph, three legs with two at a time are the least in which a
leg waits for its siblings and not for its needs; the two graphs have every kind of node
behind and in front of another. A job of two statuses has an older and a newer version
on their way at once. Its second status may be told of or not. In the pool, two slots
contend for one golden or one permit, a second boot reuses what the first one left, and
a capacity of three leaves one golden beside two runners or two beside one. Runners,
sessions and workers are symmetric in the safety runs; attempts are not, because `Mint`
chooses one. Deadlock is checked except in `Promotion`, where a completed run stops.

**Fairness.** `WebhookInbox!FairSpec`: leases and delays run out, breakers close, a
stopped server is started again, a heartbeat notices a lost lease (its deadline
timer does not depend on the database), a submit ends one way or the other. Strong
fairness of claims and of walks and writes under an owned lease says that lost
leases, crashes and failing writes do not hit *every* attempt at one delivery, for
ever; without it no design could promise an outcome.
`Promotion!Fairness`: a transaction runs to its end, runners claim and report, a
group's holder ends, a running expansion loop goes on; nothing starts a loop, since
only handlers do (`AwaitsLoop`), users need not approve or cancel anything, and the
reaper may starve any ready job or none.
`CheckRuns!Fairness`: projector and sender go on with what they have; nothing is assumed
of `Emit`, an event that follows its change may never be appended; a token is
minted and a lookup answered some day (strong fairness); requests may fail every
time, as the attempts are bounded.
`Pool!FairSpec`: every slot goes on (strongly fair, because a step of another slot
may take the permit it waits for), a guest finishes registering, teardown is
performed once asked for. Nothing is assumed of a user who leaves a debug pause
unanswered, or of jobs being queued, and a delete may fail for ever.
`Runner!Fairness`: the listener goes round its loop, timers run out, and not every
poll fails and not every answer is lost; on the server a lease nobody renews ages, a
completion that was begun is finished, and restarts do not cut off every tick of the
reaper. Nothing is assumed of what a job executes: its steps may run and be renewed
for ever, and a worker may ignore a cancellation.

## 4. Proofs

Liveness, being about fairness, stays with TLC. The following is proved by
TLAPS for every value of the constants that satisfies the assumptions.

**Dispatch** (`DispatchAssumption`: `None` is no row, `Tolerant` is a set of
jobs, each job can have its first attempt). `InvHolds` establishes the
inductive invariant `DispatchInv`: `TypeOK`, `OneLiveAttempt`, *queue matches
status* (a finished job is out of the queue: without it a requeue could touch a
verdict and a starvation overwrite one) and *tasks name attempts* (what the
reaper and a PATCH carry from one transaction to the next are attempts that
exist, and never lose their job; without it a completion could be applied to no
job). `StepInv` goes through the actions one by one and, for each, also proves
the action property, because the two need the same facts; `CompleteNodeSafe`
and `RequeueSafe` treat the two shared effects once, and `MintInjects` and
`MintedJobIs` say that the rows a requeue mints are fresh and distinct. From it:

* `TypeCorrect`: `Spec => []TypeOK`.
* `AttemptsExclusive`: `Spec => []OneLiveAttempt`. The unique index on attempts
  in flight is never violated, so no purge or restart fails on it. This holds
  with lost completions too.
* `FirstResultStands`: `Spec => FirstResultWins`.

Two more invariants rest on it. `SessionInv` adds that *unused rows are blank*, so
that an attempt a requeue mints belongs to nobody; most handlers only let go of
attempts and messages (`BindingsKept`), and `LettingGoKeepsSessions` treats them
once. `ClaimInv` says of every job that is still queued or claimed, and not about to
be completed, that it is *backed*: an attempt is in flight, and each of its attempts
is nobody's or the claimant's, with a lease. It is proved for `~LoseCompletions`
only, because a completion that is lost after the sweep stamped the attempt leaves a
claimed job without one (section 6).

* `SessionsExclusive`, `CancellationsAreMine`: `SessionsHoldOneAttempt` and
  `CancellationsMatch` always hold, with lost completions too.
* `NothingStranded`, `LateReportsFenced`: `NoStrandedJob` and `OnlyClaimantReports`
  always hold when no completion is lost.

**Runner** (`RunnerAssumption`: the process is one of the registered runners, and no
answer is not a message). `RunnerInvHolds` establishes the invariants of the process
and of the control plane together. `ListenerInv` is what `run_broker_loop` relies on
from one branch of its `select!` to the next: a poll is in flight only in the loop; a
live worker is the active one unless the listener is over; a poll with status Online,
a job on its way and an acquire mean that no worker is active. With it `ServerHalf`
shows that the server's half of every step is a step of `Dispatch`, except the first
renewal and the acquire that `fail_unclaimable_request` settles, which are treated on
their own; so `DispatchInv`, `SessionInv` and `ClaimInv` carry over. `AttemptInv`
relates the two halves: an attempt that was handed to the process stays owned until it
is settled, and one a poll may still bind is nobody's.

* `TakesOneJob`: `RSpec => ClaimsOnlyWhenFree`.
* `JobsArriveFree`: no job reaches a listener with an active worker, so `ReceiveJob`
  loses nothing by not having that branch.
* `AttemptsRunOnce`: an attempt gets at most one worker.
* `RunnerLeavesNothing`: `NoStrandedJob` and `OnlyClaimantReports` hold of the
  composition as well, when no completion is lost.

**WebhookInbox** (`InboxAssumption`: a positive cap, a finite number of
outages). The invariant `IInv` adds to the properties *walks know* (a busy
worker has a delivery; one that believes its run was submitted is right; an
outcome of success is one of a submitted walk) and *runs kept* (an unarchived
run stays where deduplication finds it). `WriteIInv` treats fenced writes once.

* `InboxTypeCorrect`, `DoneIsSubmitted`, `RunsAreUnique`: `TypeOK`,
  `DoneMeansSubmitted` and `OneRunEach` always hold.
* `LeaseFences`: `Spec => FencedOutcome`.

**Admission** (`AdmissionAssumption`: at least one chunk, of which not all are
skipped, and at least one place in the queue). The invariant `Inv` adds to
`TypeOK`, `WaitersParked` and `OnlyHolderRuns`: *absent owns nothing* (the rows of
a run begin with its head); *submits agree* (of an unfinished run in the middle of
its submit, a waiter inserts held jobs, and one that inserts ready jobs holds the
slot or was displaced: without it a chunk, which does not look at the group, could
make a waiter runnable); *wait ids issued* (the counter is ahead of all rows, so a
new one is the youngest). `ReleaseStep` treats once every way to give up the slot,
whatever it does to the run's own rows; `HeadStep`, `SubmitStep`, `JobStep` and
`ServerStep` go through the rest.

* `AdmissionTypeCorrect`, `WaitersStayParked`, `GroupExclusive`: the three
  properties always hold, for any number of runs and chunks.
* `QueueIsFifo`: `Spec => OldestWaiterFirst`, because only a release moves a waiter
  into the slot and ids are distinct.
* `NewerSurvives`: `Spec => NewerRunsSurvive`, because a run appears only by its
  own head (`ArrivalIsHead`) and a head that cancels has compared events first.

* `QueueStaysBounded`: `Spec => []QueueBounded`, from an invariant of its own (the
  waiting runs are finite and fit): `OnlyParkQueues` shows that no other action adds
  a waiter, and `Park` has compared the length with the limit in the same
  transaction.
* `GroupImplementsSlot`: `Spec => ImplementsGroupSlot`. Initial
  states map to initial states, and under `Inv` every step of `Admission` maps to a
  step of `GroupSlot` or to a stutter: `HeadArrives`, `ReleaseLeaves`, `StarveEnds` and
  `BootRecovers` say which, `GroupStutters` that the rest changes nothing the slot
  sees. The invariant is needed because the slot's `Pass` takes the run with the
  smallest ticket, and the code the row with the smallest id of those that exist.

**Pool** (`PoolAssumption`: a positive number of slots and generations, a host that
holds at least one machine, finitely many environments). `PoolInvHolds` establishes
`PoolInv`, a conjunction of parts proved one lemma each: *Shape* (types, without the
bounds that need counting); *Phases* (what runs while the engine prepares, and that
nothing is reserved when it does not serve); *Goldens* (one bake per environment at a
time; while it builds there is no record; a recorded golden is whole); *Clock* (`count`
is the number of slots that provision, so the signal may be cleared by whoever brings it
to zero); *Permits* (free permits and slots that hold one add up to the pool's size, a
slot holds one whenever it provisions, and only a paused one serves without); *Budget*
(runners, free golden slots, cached goldens and bakes under way fit into the host
together); *Hosts* (until a shutdown each machine is that of a slot or was given up, and
a registered runner without a machine was missed). None of the properties is inductive
by itself: that memory suffices follows from Permits, Budget and Hosts together, by
counting (`MachinesOfSlots`, `PayingSlots`), and each count needs to know at which point
of its life every slot is. From it:

* `PoolTypeCorrect`: `TypeOK`, with the bounds: never more permits than runners, never
  more golden slots than the host has room for.
* `GoldensAreWhole`, `RunnersAreHosted`, `ClockIsHeld`, `PoolFitsHost`:
  `AdoptableIsWhole`, `RunnersHosted`, `StarvationClock` and `WithinCapacity` always
  hold, for any number of slots, environments and machines and through any sequence
  of crashes and restarts. The bound of `WithinCapacity` is `Room`: the capacity of the
  host, or two on a host that holds one, which gets the default golden and a runner
  all the same (section 6).

**CheckRuns** (`CheckRunsAssumption`: jobs and failed workflows are apart, a job's
external id is its own, a sender is told from the marks of an unowned and a deleted
row). `HandInv`, for any number of senders: `TypeOK`, *hands apart* (the updates a
sender has leased are of different rows) and *owned in hand* (a leased row is in the
batch or in the hand of its owner, as it was leased); it is what makes the fenced writes
of `Finish`, `Retry` and `Persist` hit the row they mean. `IdsBelong`: an id that a row,
a job or an update remembers is that of a check GitHub created for the same external id.
The rest is proved for `OneSender`, which is what a single server has; with two, both
may look, find nothing and create (section 6). `SendInv` adds *versions ordered* (shown,
in hand, queued and present versions come in that order), *phases know* (a sender about
to send without an id has looked and there was nothing) and *reported* (what the latest
event of a job told of is no newer than the job, and with no event unread it is in the
job's row or shown). It says nothing of a change without an event. `WorkParts` and
`WorkIdsStep` say once what any step of a sender leaves alone.

* `CheckRunsTypeCorrect`, `IdsStay`: for any number of senders.
* `OneCheckRun`, `QuietIsShown`, `ChecksOnlyAdvance`: `OneCheckEach`, `QuietMeansShown`
  and `NeverGoesBack` for one sender, any jobs, versions, attempts and restarts.
  `QuietMeansShown` speaks of the status that the latest event told of: a later one may
  never reach GitHub, and in the code it does not (section 6).

**Promotion** (`PromotionAssumption`: a finite graph as submit builds it: job orders are
distinct, the jobs of different nodes are disjoint, no job names a job inside a call or
a leg by its own id, a leg's base is needed only of a matrix, nodes are not nested, the
legs of a base have the same needs, and a deferred matrix and its legs have its id as
their base). For every such graph:

* `PromotionTypeCorrect`: `TypeOK`. The bound on `remaining` is a count of open needs.
* `LimitsHold`: `MaxParallelKept`. Only a release, a claim or a visit makes a leg busy,
  and each has counted the busy legs of its base (`BusyStep`, `MaxParallelStep`); at
  submit the legs let through are bounded by looking at the last of them in job order.

The verdicts need a hypothesis on the graph. `FailsAlone` says that of two legs that
fail-fast ties together neither is failed by a sweep or by a build: no runs-on that
cannot be satisfied, no failing environment or condition, no group of its own whose gate
may fail it, no call or matrix as a leg.
Otherwise the code really does replace verdicts (section 6), and TLC finds both ways
when the instance has such a leg. `VerdictInv` then adds to the types: *rows fit* (the
queue slot and the gate agree with the status, a node still queued has no jobs, a
concluded run no live ones), *builds current* (a build that will pass the generation
fence is of a node still leased to it) and *sweep fits* (what a sweep has yet to visit
is still blocked). None is inductive without the others: the unguarded updates of the
sweep are harmless only because nothing settles a candidate in the meantime.

* `VerdictsAreFinal`, `CompletedIsDone`: `VerdictsStand` and `CompletedRunIsDone`.
* `NeedsComeFirst`: `StartsAfterNeeds`, if moreover `CallsUngated`, no call is in a group
  of its own: a displaced call is cancelled while its jobs go on. `NeedsInv` says that
  jobs let through have their needs, that a finished call has no live job, and that the
  graph a sweep loaded is behind the tables in nothing that a decision would revoke.

The instances of `promotion_matrix` and `promotion_calls` satisfy `FailsAlone`, that of
`promotion_matrix` also `CallsUngated`; the gated call of `promotion_calls`, which no job
needs, does not.

`PromotionGraphProofs` has the two properties that depend on the whole graph behind a
job. The provers have no induction over data, so an induction is a least counterexample:
`LeastNumber` (from the well-foundedness of the naturals) gives the first round at which
a search goes wrong. With it the recursive function of `Ancestors` is shown to exist, to
stop growing and to end in the least set that holds the needs of a job and is closed
under needs (`ReachExists`, `AncestorsReach`, `AncestorsLeast`), the set `Behind` of the
property (`AncestorsAreBehind`).

* `ConditionsAreObeyed`: `ConditionsDecide`, under `FailsAlone`. A sweep decides from
  the graph it loaded, the property from the rows of the moment. `ConditionInv` makes
  them agree: a row with a verdict had all its needs ended first or failed when it was
  inserted, in the tables and in the loaded graph, so the ancestors of a job whose needs
  are met are all verdicts, and verdicts do not change (`VerdictsStand`).
* `RunsDoNotHang`: `[]NoHungRun`, for graphs that can end (`EndingGraph`): besides
  `FailsAlone`, needs are acyclic and name existing jobs, which the parser enforces
  (`validate_job_plans`, `detect_needs_cycle`); *gates last*, nobody waits for a job in a
  concurrency group, which may be displaced without a sweep; *calls end*, every call has
  a job that all its others precede, that runs whatever they did, and on a runner,
  because only a reported completion folds a finished call; *legs start*, every matrix
  has a leg that can be hosted and every base room for one. Each of these three is there
  because the code hangs without it (section 6); `promotion_skipped` is the case of
  *calls end*.
  Starvation is not excluded by the graph: the property excepts runs with a live job next
  to a starved one (`Abandoned`), which is as far as `starve_job` leaves anything behind.
  `HangInv` says that the counts of open needs are exact, but for jobs that need a
  starved one, that an open run has a live
  leaf, that a call under way has a live last job, that live rows outside the queue are
  expanded nodes, that a pass of a sweep which has settled nothing sees all verdicts, and
  that what such a pass leaves behind waits for a place. None of it is inductive alone.
  If nothing could move a run, then a live job that waits for no other live one
  (`Acyclic`) would be blocked with its needs met and no leg of its base busy: the last
  sweep would have taken it, unless a starved job was what it needed or the leg that held
  its place.

The instances of `promotion_matrix` and `promotion_calls` satisfy `EndingGraph`, and TLC
has checked `HangInv` on both.

Only model-checked: what is about liveness, `InboxDrains`, `RunConcludes`,
`StatusReachesGitHub`, `StopsOnShutdown`, `PoolAdvances`, `CancelledJobStops` and
`ClaimsAreWorked`. Every invariant and every action property of the passing runs is
stated by a theorem, some under the hypotheses given above.

## 5. Mutants

Each property of a passing run has a mutant, an operator next to the one it
replaces, that changes the model as a plausible mistake would change the code:
`Retired`/`RetiredNone` requeues without retiring the old attempt,
`Disowned`/`DisownedKept` retires it without clearing its owner,
`Polls`/`PollsAhead` polls past an unacknowledged message,
`Discards`/`DiscardsNever` trusts an outcome that raced its heartbeat,
`Owned`/`OwnedByAny` drops the token from the fence,
`Superseded`/`SupersededByHolder` forgets the waiters,
`RefreshedFor`/`RefreshedForIds` counts needs by job id and forgets base ids,
`Foldable`/`FoldableEarly` folds a call before its last job ended,
`Finish`/`FinishAny` deletes a row that was replaced while it was sent,
`Matches`/`MatchesNone` creates a check without looking for an existing one,
`StopWaiting`/`StopWaitingAnyway` boots the next machine before the last one is gone,
`GuardDrop`/`GuardDropClears` restarts the clock for everybody,
`StripRecord`/`StripRecordLate` bakes under the old record,
`Dispatches`/`DispatchesAlways` hands a job out on a Busy poll,
`MessageId`/`MessageIdShared` numbers jobs and cancellations alike,
`Renews`/`RenewsOrphaned` renews for a worker without a listener, and so on.

## 6. Where the code and its documentation disagree

* `promotion_skipped` (a run). `complete_node` folds finished calls into their caller
  before the promotion sweep, and nothing folds after it. When the sweep itself settles
  the last job of a called workflow, as it does with a job that is skipped because the
  one before it failed, no report is left to come: the caller stays in progress and the
  run never ends. The comment in `reusable_workflows.rs:14` names this as what must not
  happen. `promotion_matrix` and `promotion_calls` use calls whose last job always runs.

The following were met while modelling and have no run of their own. Properties
are stated so that they are set apart.

Dispatch and runner:

* The reaper logs "will retry on the next tick" when a completion exceeds 30 s
  (`bootstrap.rs:671`), but the sweep has already stamped the attempt, so the next tick
  does not see it; the job keeps the claim of a runner that is gone. `NoStrandedJob` and
  `ClaimsAreWorked` are stated without lost completions.
* The sweep reports every lease of its snapshot as expired, also those it found
  settled (`control/lite/reaper.rs:361`), and so fails a job that was requeued
  meanwhile. The PostgreSQL backend checks the row count.
* A poll that claims a job and loses its answer fails the job: the reference is never
  sent again, and only the lease reaper takes the job back, as a failure.
* After a 401 the listener creates a new session and leaves the old one, to which a
  running attempt stays bound: cancellations queued there never reach it
  (`CancelledJobStops` excludes an attempt of an older session). A 403, the answer to a
  session the server no longer knows, does not lead to a new one.
* A shutdown during a back-off returns at once: the worker goes on without a listener.
  It stops renewing, so the job fails by its lease while its steps may still run.
* A job that arrived while another is active would make the listener cancel or kill
  that one without reporting it; the server's Busy check is all that prevents it.

Groups:

* A holder counts as stuck when all its jobs are finished or unhostable; between its
  head transaction and its first chunk it has none. An arrival then displaces it
  without cancelling it, although the comment (`control/lite/concurrency.rs:443`) says
  such a holder never ran, and both execute. `OnlyHolderRuns` sets displaced holders
  apart.
* A slot that frees in the same window of a *parked* run consumes its wait row as that
  of a "foreign or finished run". The chunks then insert held jobs, and nothing is left
  that would release them. `WaitersParked` speaks of runs that have a wait row.
* Starvation can finish a holder without releasing its slot. On the next start the slot
  is given to the oldest waiter before the old row is deleted; the insert violates the
  primary key and start-up fails (`BootAborts`).
* The ready jobs of a poisoned run, and those inserted into a run that was cancelled or
  finished half-way through its submit, are still dispatched: a claim does not read
  `runs.status`. `OnlyHolderRuns` speaks of unfinished runs.

Inbox:

* "At most six processing attempts" of a delivery (`webhook-resilience.mdx:12`)
  holds only for transient outcomes (`github.rs:4362`).
* Deduplication looks in `runs` (`control/lite/submit.rs:285`); the archiver empties
  it after a run finishes, while deliveries stay replayable. `OneRunEach` is
  restricted to runs that are not archived for this reason.
* The heartbeat is aborted before failures are reported (`github.rs:4317`), so
  nothing renews the lease or notices its loss during the reports.
* An error poisons a partial submit, a crash does not, and the retried delivery
  accepts the partial run (`control/lite/submit.rs:53`).

Promotion and expansion:

* `starve_job` (`control/lite/reaper.rs:71`) fails a ready job and only summarises the run.
  The jobs that need it are not recounted, the legs behind it in its matrix get no sweep
  and its call is not folded: unless another command of the run recounts and sweeps, the
  run stays open with nothing left to move it. `NoHungRun` and `RunConcludes` except a run
  with such a job (`Abandoned`). A starved job that was let through a gate keeps its
  group until its run ends or another run displaces it, although the comment says "the
  job never held a gate" (`reaper.rs:70`).
* A slot that frees while the oldest waiter's matrix is at its max-parallel is used up and
  the waiter parked again (`settle.rs:409`): the group stands free until another of its
  holders lets go. `GrantSlot` assumes that one does.
* A job displaced from its group while it is parked at its gate leaves its dependents
  blocked until another command of the run sweeps, and displacing a caller does not
  cancel the jobs of its call.
* A sweep loads its candidates before its loop (`control/lite/promote.rs:832`) and
  writes their next state without looking at the present one (`promote.rs:516`). When it
  fails a leg itself, because its runs-on cannot be satisfied, its environment or its
  gate refuses it or its condition is an error, fail-fast cancels the sibling legs, and
  the same loop then puts those back on the queue, perhaps in a run that has just been
  concluded. "A cancelled job stays cancelled" (`settle.rs:725`) fails there.
  `VerdictsStand`, `CompletedRunIsDone` and `StartsAfterNeeds` are claimed and proved of
  graphs without such legs (`FailsAlone`), and so are those of the runs.
* Fail-fast does not raise `expand_generation`, as the other cancellations do. A call
  that is a matrix leg and is cancelled by a sibling's failure while it is being built
  is put in progress again by `apply_expansion` (`control/lite/expansion.rs:541`), whose
  fence compares only the generation ("the node was cancelled [...] mid-build" should
  discard it). `FailsAlone` sets this apart too.
* Since the jobs of a displaced call go on, a dependent that runs always may start
  before they end (`CallsUngated` in `NeedsComeFirst`).
* A call whose jobs succeeded or were skipped aggregates to "skipped".
* `max-parallel: 0` is accepted (`resolve_deferred_number`,
  `preloop-gha-parser/src/expand.rs:307`), and `under_max_parallel` (`promote.rs:173`) then
  never lets a job of that base start: the run hangs (*legs start* in `EndingGraph`).
* The legs of a deferred matrix that cannot be hosted are inserted as failures, and
  `settle_node` returns early on a row that already failed (`settle.rs:737`), so the run
  is not summarised. A matrix with only such legs, in a run with nothing else live, leaves
  it unconcluded (*legs start* again).
* A finished call refreshes the counts of those that name it by its id
  (`control/lite/dispatch.rs:179`), not by a base id: dependents of a call that is a
  matrix leg are not recounted then (`CallsEnd` asks for calls that are their own base).
* The conclusion that `cancel_run` wrote may be replaced when the report of a job that
  was running comes in.
* Expansion loops are started by submits and completions only: a restart, or a failing
  `apply_expansion`, leaves a node waiting for the next one, or for the next start.
  `RunConcludes` sets this apart (`AwaitsLoop`).

Check runs:

* When minting the App token fails twice in a row, the update is treated as simulated
  and its row deleted: the "single retry [that] keeps a transient rejection from
  stranding the report" (`github.rs:188`) is the last one.
* A status change is not always told of. `jobs_version` (`control/lite/schema.sql:232`) only
  counts it. Starvation, the cancellation of a job and fail-fast commit without an event;
  it follows from the handler through `emit` (`bootstrap.rs:629`), whose failing append is
  only logged (`state.rs:1818`), so a crash or an error in between leaves GitHub with the
  old status. A requeue and a hold announce nothing. `QuietMeansShown` and
  `StatusReachesGitHub` speak of what an event told of.
* `find_existing_check_run` answers "none" to a 404 (`github.rs:514`) and after ten pages
  (`github.rs:535`); a check run on a later page would be created again.
* Two senders, as several servers on PostgreSQL have, may both look for a check run,
  find none and create two; `check_runs` has one sender.

Pool:

* "The slot never holds two" machines (`run_slot`,
  `src/crates/preloop-orchestrator/src/lib.rs:7364`) fails after a provision that failed
  and whose delete failed as well: nothing waits for that machine to go
  (`leaked` in `WithinCapacity`).
* On a host with room for one machine the default golden is kept and one runner boots
  beside it: `host_vm_capacity` and `on_demand_memory_cap` do not go below one
  (`lib.rs:628`, `643`), so the two exceed what `lib.rs:621` says must fit. `WithinCapacity`
  allows two machines there.
* When a bake fails and deleting its machine fails as well (`lib.rs:5064`), the machine
  stays while its place in the budget is given back. `WithinCapacity` does not count it.
* `remove_golden_record` discards errors (`lib.rs:4895`). Where the file cannot be
  removed, a rebake that is then interrupted leaves a half-built golden under the old
  record, which the next engine adopts. In `AdoptableIsWhole` the removal succeeds.
* "Registration cannot outlive its provisioned host" (`lib.rs:7554`) fails when the guest
  finishes configuring after the purge (`missed` in `RunnersHosted`).
* "Only genuinely idle runners are recycled" (`wait_for_environment_change`) rests on a
  grace of 2.5 s, a matter of timing the model does not have.

## 7. Plan

1. **Promotion, continued**: reruns as a function of the graph; job-set gates, whose holder
   may belong to the arriving run; the fork gate.
2. **Composition**: the jobs of `Dispatch` and of `Promotion` are the same rows; a run of
   the two together.
3. **Check runs**: what two senders still keep.
4. **Watchdog and breaker**: redelivery against a late original; half-open probes.
5. **Sandbox service and debug sessions**: placement and the lease of a debug session.
6. **PostgreSQL backend**: the same commands with row locks instead of one writer.

### Not modelled

Workflow parsing, expressions and protocol encoding are pure data whose inputs are far
beyond a small instance. Snapshots and the serving of Git objects, logs, timelines,
SARIF, cache and artifact storage, retention, metrics and the CLI are I/O: nothing else
in the system takes a decision on their state. The sandbox drivers are the machines'
environment and appear in `Pool` as steps that succeed or fail. DAP debugging happens
inside a worker, between two of its steps. `PROJECT.json` gives the reason for each.
