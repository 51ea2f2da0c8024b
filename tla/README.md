# Job scheduler: a TLA+ verification project

The repository is a job scheduler in Python: an HTTP API that stores jobs in
PostgreSQL, and any number of worker processes that claim due jobs, run them on
threads, retry failures with a backoff and take over the jobs of workers that
died. API and workers share the database and nothing else. This directory holds
TLA+ modules translated from that code, TLC configurations that check them on
small instances, and proofs, checked by TLAPS, of what matters most.

All paths below are relative to `src/`.

## 1. The system

| Component | State it keeps | Operations | Interacts with |
| --- | --- | --- | --- |
| Job runner `app/services/runner.py` | none of its own; locals of a running thread (the job as read, `claimed_version`, outcome) | `claim`, `run` (attempt recorded, task, outcome), `reap_expired_leases` | both tables |
| Job repository `app/repositories/jobs.py` | table `jobs` | `claim_due` (select, update, commit, read back), `find_expired_leases`, `add`, `get_by_idempotency_key`, queries | row locks (`FOR UPDATE SKIP LOCKED`), unique constraint |
| Execution repository `app/repositories/executions.py` | table `job_executions` | `start`, `finish`, `open_for_job` | runner, reaper |
| Lease heartbeat `app/services/heartbeat.py` | a stop event, one thread per running task | `_renew` every `max(lease/3, 1)` seconds | row of the job, in its own session |
| Worker loop `app/worker/loop.py` | the set `in_flight`, `_last_reap`, `stop_event`, a thread pool | reap, claim a batch into free slots, submit, callback, drain on SIGTERM | runner, pool threads, signal handler |
| State machine `app/domain/state_machine.py` | the table `ALLOWED` | `can_transition`, `ensure_transition` | runner, lifecycle |
| Job service `app/services/job_service.py` | none (one session per request) | `create`, `pause`, `resume`, `cancel`, `replay` | table `jobs`, concurrently with the engine and with each other |
| Scheduling rules `app/domain/scheduling.py` | pure | first run, next run, backoff | job service, runner |
| Tasks `app/services/tasks.py` | registry of handlers | `run_task` | runner |
| HTTP API `app/api/` | a session per request | `POST /jobs`, the lifecycle routes, queries | job service |
| Authentication, configuration, logging, deployment | accounts; settings | register, login | |

What is hard in it:

- **Concurrency without locks held in memory.** Threads of several workers,
  heartbeats, reapers and API requests all write the same row. What keeps them
  apart is the `status`, `locked_by` and `version` columns in the `WHERE` clauses
  of three updates (`claim_due`, `_renew`, `_commit_outcome`), and nothing at all
  in the others (the recording of an attempt, and the four lifecycle requests).
- **Failure.** A worker may die between any two commits, a database error may
  end a thread or a poll cycle, a thread may stall past its lease and come back,
  a client may never hear the reply to its request.
- **Time.** Leases expire while their holder lives; renewals arrive late, fail, or
  land when their thread is gone; the clocks of two hosts differ; the interval of
  the reaper is looked at once per poll cycle and starts over when a reap fails.
- **Stale copies.** Sessions keep what they read (`expire_on_commit=False`, READ
  COMMITTED), and the ORM writes only the columns it sees changed.
- **Bounded pools.** A claim must fit the free threads, which callbacks free
  while the main thread counts them.

What makes the components correct, in short: at most one thread executes a job
as long as no lease expired; attempts are counted and bounded; a job is RUNNING
exactly when someone holds it, and leaves RUNNING in the end; a result that
comes too late changes nothing; the engine does not undo what a user decided; a
worker claims what it can run and stops without leaving anything; a live
worker's lease does not run out; a repeated POST creates one job.

## 2. Modules

| Module | What it is |
| --- | --- |
| `StateMachine` | statuses and the table `ALLOWED` |
| `LeaseQueue` | the abstract service: a queue of jobs granted under a lease with a fencing token |
| `Engine` | the execution engine: claim, run, heartbeat, outcome, reaper, crash; implements `LeaseQueue` |
| `Scheduler` | `Engine` composed with the lifecycle requests of the API |
| `Polling` | the loop of the worker processes and the claim, statement by statement; implements `LeaseQueue` |
| `JobCreation` | concurrent `POST /jobs`: idempotency key, validation, unique constraint, retries |
| `Timing` | one job against a clock: next slots, backoff, renewals, reaping |
| `EngineProofs`, `BudgetProofs`, `RefinementProofs`, `SchedulerProofs`, `PollingProofs`, `LoopProofs`, `JobCreationProofs`, `TimingProofs` | theorems and their proofs |
| `MCEngine`, `MCScheduler`, `MCPolling`, `MCJobCreation`, `MCTiming` | instances for TLC, with the `.cfg` files |

Definitions whose name begins with `Faulty` are bugs the definition that follows
them could plausibly have (a guard dropped, a column not reset, an order
swapped). No action uses them; substituting one for its successor makes the
property that guards against it fail, which is how the properties were shown not
to be vacuous.

### LeaseQueue

What the docstrings of `claim_due` and `_commit_outcome` promise, with no rows,
clocks or outcomes. A job is queued, held by a worker, or out for good. `Grant`
gives a batch of queued jobs to a worker and moves their tokens; a thread
`Join`s a grant and carries the token it saw as its ticket. A held job is let go
of in two ways only: `Settle`, by a thread whose ticket is current, and `Revoke`,
of jobs whose lease has lapsed. Both move the token, so that the ticket, if the
client keeps it, is current no more; `Extend` is for current tickets only. The
token is the column `version`.

### Engine

| Variable | In the code |
| --- | --- |
| `jobs[j]` | the row of `jobs`: `status`, `next_run_at`, `attempt_count`, `total_runs`, `locked_by`, `lease_expires_at`, `version` |
| `exec[f]` | the status of the row of `job_executions` that future `f` inserted |
| `future[f]` | a future of a worker's pool: where its thread is in `Worker._execute` / `JobRunner.run`, and its locals (`claimed_version`, the counters of its copy of the job, the outcome); "late" when only a renewal of its heartbeat is left |
| `alive[w]` | whether worker process `w` runs |
| `reaped[j]` | history, read by properties only: a reaper has taken `j` back |

One action is one transaction, or one step of a thread between two transactions:

| Action | Code |
| --- | --- |
| `Claim`, `ClaimThenPollFails` | `claim_due` on one row and the submission to the pool, or a failure of the poll cycle after the commit |
| `Load`, `LoadRefused` | `_execute` reads the job; `run` accepts it or raises `LeaseLost` |
| `Start` | the execution row and the counters, one commit, not conditional on the lease |
| `Renew` | `LeaseHeartbeat._renew`, from the start of the task to the outcome: it may land after the task ended, as the join has a timeout |
| `LateRenewal` | the same after the thread is gone: it lands, or matches no row, or raises |
| `TaskEnds`, `Refresh` | the task returns or raises; `session.refresh(job)` |
| `FinishApplied`, `FinishDiscarded` | `_commit_outcome` matches the row or not, and `executions.finish` |
| `Reap` | `reap_expired_leases` on one of the rows it locked |
| `ThreadFails`, `Crash` | a database error in a thread; the death of a process |
| `BecomesDue`, `LeaseExpires` | the clock passes `next_run_at`, `lease_expires_at` |

Abstractions. A timestamp is what the comparisons of the code can tell:
`next_run_at` is null, in the future or due; a lease is null, live or expired,
and may expire at any time, renewed or not (a stalled heartbeat). Worker ids are
never reused, as `build_worker_id` makes them unique; a restarted worker is
another element of `Workers`. A batch of claims, or of reaped rows, is a run of
single steps here: no action of this module depends on a batch being whole, and
`Polling` has the batches. `Reap` closes the open execution rows in the same
step; a thread that lost the job twice over could slip its own, discarded,
outcome in between, which changes the text of history and nothing that is read.
A worker asked to stop is one that takes no further `Claim` or `Reap`, which the
specification always allows. `JobRunner.release` is called by nothing, so it is
not an action.

However a thread ends after its task, what it leaves is `Gone`: nothing, or, for
a claim in `Stragglers`, the one renewal that hung for longer than the five
seconds of the join in `LeaseHeartbeat.__exit__`. It lands once at most, because
the stop event is set. Until it does, it keeps the version of its `WHERE` clause,
and its ticket of the lease queue, while others may requeue, claim and settle
the job. It dies with its process (it is a daemon thread).

### Scheduler

Adds `req[r]`, a lifecycle request of the API: `RequestReads` is `_require`,
the check of the transition and the assignments to the session's copy;
`RequestCommits` is the commit, arbitrarily later. What is committed is `Dirty`:
the columns whose new value differs from the value read, written by primary key
over whatever the row holds by then (`Written`). `EngineStep` is any step of
`Engine`.

### Polling

| Variable | In the code |
| --- | --- |
| `row[j]` | the columns of the claim; a lease is expired or not, and every SCHEDULED row is due |
| `locking`, `lock[j]` | whether `SKIP LOCKED` is in force, and the transaction that holds the row |
| `loop[w]` | where the main thread is in `run_forever` and `run_once`, the rows selected and those claimed |
| `pool[w]`, `inFlight[w]` | the futures of the pool, running or finished with the callback still to come; the set `in_flight` |
| `stop[w]`, `cycles[w]` | `stop_event`; cycles since `_last_reap` |
| `orphaned` | history, read by properties only: jobs an error left to nobody |

A cycle is `LoopEnds` or one of `Reap`, `ReapFails`, `NoReap`; then `Select`
(free slots and the `SELECT`), one `Update` per candidate, `Commit`, `Fetch`,
`Submit` and `Register` per job (`in_flight.add`, then `add_done_callback`),
`AllSubmitted`, and `Wait`. `ClaimFails` and `FetchFails` are a statement that
raises before and after the commit, and the former also what the database does
to break a deadlock of two claims. `TaskEnds`, `TaskErrs` and `Callback` are the
threads, `Signal` is SIGTERM, `Drained` the exit of the pool's `with` block,
`Crash` a kill.

Abstractions. What a thread does between its start and its end is `Engine`'s. A
lease runs out only when nobody works for its job, which is what the heartbeat
is for (`Timing` says when it succeeds; `Engine` has the case that it does not).
A job that has been claimed `MaxClaims` times settles. The clock of the reaper
is a number of cycles.

### JobCreation

A request arrives (`Send`), looks its key up and validates (`Lookup`), inserts
(`Insert`, which waits for an open transaction with the same key, as a unique
index makes it), commits (`Commit`, whose reply may be lost) or reads back the
row of the winner (`ReadBack`), and may `Fail` anywhere, which closes its
session. A retry is another request with the same body. `Body`, `Valid` and
`FirstRun` are the schema, `_validate` and `first_run_at`; a string that Python
takes for false is kept apart from null, since the code tests for truth in some
places and the database for null. `repeats` records, for one property only,
whether the job was there already when the request came.

### Timing

A clock in ticks, the row's `next_run_at`, `lease_expires_at` and
`attempt_count`, one thread with the time by which it must act, and the loop of
one worker that polls all the time (`poll`: where it is in its cycle, when the
cycle began, `_last_reap`). `Claim`, `Start`, `Renew`, `RenewFails`, `TaskEnds`,
`Succeeds`, `Fails` and `Crash` as in the code, `NextRun` and `RetryDelay` as in
`scheduling.py`. `Poll` is `_maybe_reap`: it compares a reading of `utcnow` with
`_last_reap` and sets `_last_reap` before it reaps. `Reap` is
`reap_expired_leases` later in that cycle, with its own reading. `ReapFails` is a
reap that raises or passes over the job, which is locked by another transaction
or not among the first 50; `_last_reap` stays. `ReapElsewhere` is a reap by any
other worker, at any time.

Every reading of another host's clock is any of `Shown`, so a reaper may be ahead
and behind by `Skew`, and the loop may find its interval over too early or too
late by twice that. What else is assumed: each step of a live worker takes at
most `Delay`; at most `Misses` renewals fail in a row; a cycle of the polling
loop takes at most `Cycle` (`poll_interval_seconds` and the statements of the
cycle); at most `ReapMisses` of its reaps in a row do nothing for the job;
`LeaseHasThirds`, that the ticks are so short that `lease_seconds / 3.0` is a
number of them; and `LeaseIsLongEnough`, which says what a lease must be worth:

    Delay + (Misses + 1) * (Interval + Delay) + Delay + Skew <= Lease

The code promises none of these numbers; the module says what follows from them.
`HealthyKeepsLease` depends on the thread, its lease and `Skew`, and holds
however often and by whomever the job is reaped. `DeadIsReaped` gives the time
the polling loop needs,

    Skew + (ReapMisses + 1) * (ReapEvery + 2 * Skew + Cycle) + Cycle

after the end of the lease: until its clock shows the end, a round for every
reap, and the rest of the cycle.

Cron expressions belong to a library, whose next slot is taken to be the next
multiple of `CronPeriod`.

## 3. Runs

TLC, each within five minutes and most within one or two.

| Run | Instance | What it checks |
| --- | --- | --- |
| `engine` | 1 recurring job with 1 retry, 2 workers with 2 threads, 3 claims; crashes, errors, expiries and late renewals anywhere (350,000 states) | all safety properties of `Engine`, and that it implements `LeaseQueue` |
| `engine_live` | 1 one-time job with 1 retry, 2 workers of which one never crashes, 3 claims, fairness | jobs leave RUNNING, orphaned execution rows are closed, a one-time job ends |
| `scheduler` | 1 one-time job with 1 retry, 2 workers, 2 claims, 2 requests of any of the four kinds (1.8 million states) | what the engine guarantees under any mix with stale requests |
| `polling` | 2 jobs claimed twice each, 2 workers with 1 and 2 threads, batches of 2, a reap in every cycle, with `SKIP LOCKED` and without (330,000 states) | claims are kept apart, slots suffice and come back, a stop leaves nothing, and all of it implements `LeaseQueue` |
| `polling_live` | 2 jobs claimed once each, 2 workers with 2 threads of which one never crashes, a reap every other cycle, fairness | a due job is claimed, a stopped worker drains |
| `creation` | 3 requests with any of 8 bodies of 2 owners (510,000 states) | what an idempotency key promises; that rows are runnable; that requests are answered |
| `timing` | an interval job (4 ticks) or a cron job (2), lease 15, 2 retries, reap interval 2, a cycle, delay and skew of a tick, one missed renewal, one missed reap, 29 ticks (14 million states) | leases of live and dead workers, slots, backoff |
| `resume_running`, `resume_stale`, `cancel_crash`, `stale_start`, `empty_key` | smallest instance of each | statements of the documentation that the code refutes, see section 6 |

Bounds.

- `Engine`. `Futures` bounds the claims of a behaviour. Three are enough for a
  claim that goes stale, a second one by another or by the same worker, and a
  third after the retry budget is used up or renewed; two workers with two
  threads each cover both the same-worker and the other-worker case; one retry
  gives both sides of the budget. Jobs do not interact except through free
  threads, so one job at a time is checked here and two in `Polling`. Two
  requests are enough for one to be stale with respect to the other. Versions
  need no bound of their own: each claim and each request moves a version by
  one, and both are bounded.
- `Polling`. Two jobs and two workers are what a deadlock of claims and a claim
  beside a claim need. Uneven pools make the batch exceed the free slots of one
  worker and not of the other. A second claim of a job needs one reap or one
  retry. `ReapEvery` is 1 where reaps should happen often, and 2 in
  `polling_live`, where it must be possible for a cycle not to reap.
- `JobCreation`. Three requests are a winner, a loser and a retry. The bodies
  are one key with two owners, one key on two bodies, a null and an empty key,
  each kind of schedule with and without a start, and bodies that are rejected;
  one tick of the clock is enough for a start time to pass.
- `Stragglers` bounds the claims whose heartbeat may outlive its thread: all of
  them in the safety runs, one of three in `engine_live`, where a late renewal
  can only put off the end of one lease.
- `Timing`. The lease is exactly as long as `LeaseIsLongEnough` asks, so the
  bound is tight. The clock ends at 29: the first slot, 2, and the lease, 15, and
  the 12 ticks of `DeadIsReaped`, so that its last tick is within the model, and
  TLC finds it violated when `_last_reap` is set in every cycle. The cap bites at
  the second retry. With a reap as early as the skew allows, 29 ticks also hold
  an attempt that is lost, a second one after the backoff, and slots missed in
  between.

Workers, futures, requests and (in `polling`) jobs are interchangeable in the
runs that use symmetry, none of which checks a liveness property. Deadlock is
not checked: when claims, requests or ticks are used up the models stop, as does
a scheduler with no more work, or one whose workers have all stopped or died.

Fairness.

- `Engine!Fairness` (`engine_live`, `cancel_crash`). A thread that can make its
  next step makes it (it is an operating-system thread, and tasks end);
  a renewal that outlived its thread lands or fails; `next_run_at` comes to pass; a
  lease that nobody renews runs out; and a worker
  in `Reliable` keeps polling, hence claims a job that stays due and reaps a
  lease that stays expired (`run_forever` catches every exception of a cycle and
  comes back). Nothing is assumed of workers that may crash beyond their threads
  running while they live, nor of failures, nor of requests.
- `Polling!Fairness` (`polling_live`). Main threads and pool threads run; the
  database serves those that wait for a row lock in turn (strong fairness of
  `Update`) and breaks a deadlock; and claims do not fail, or deadlock, for ever.
  Nothing is assumed of reaps: they may all fail, and `DueIsClaimed` holds
  because `_last_reap` is set before the reap is tried, as long as a cycle is
  shorter than the reap interval. With `ReapEvery = 1` a reap that fails in
  every cycle would keep the worker from claiming.
- `JobCreation`. A request's session takes its next statement when it can
  (weak fairness of `Step`). A failure is never required to happen.

## 4. Properties

| Property | Kind | Says |
| --- | --- | --- |
| `LeaseShape`, `QueueShape` | invariants, `Engine` | RUNNING iff held and leased; queued iff there is a time to run at |
| `DuplicateNeedsExpiry` | invariant | no two threads execute a job that no reaper took back |
| `AttemptsAccounted` | invariant | until then, attempts stay in the budget and no increment of a counter is lost |
| `OpenRowReachable` | invariant | until then, an open execution row means the job is RUNNING |
| `StatusMovesAllowed` | action | every change of status is in `ALLOWED` |
| `VersionFences` | action | the version never goes back and moves with status and holder |
| `LateResultDiscarded` | action | a thread whose row a reaper closed ends without touching a job |
| `LostStaysLost` | action | a thread whose `WHERE` clause ceased to match never matches its row again, which is why a heartbeat may stop at the first renewal that matches none, and may outlive its thread |
| `ImplementsLeaseQueue` | refinement, `Engine` and `Polling` | every step is one of the abstract queue |
| `RunningSettles`, `HeldRowCloses`, `OneTimeSettles` | liveness | recovery comes in the end |
| `RunningHasLease`, `CompletedHasSuccess` | invariants, `Scheduler` | what is left of the shape of rows under stale requests |
| `EngineRespectsUser` | action, `Scheduler` | the engine does not move a paused, cancelled or settled job, even when a stale request wrote the very version a thread claimed |
| `WorkIsHeld` | invariant, `Polling` | what a worker claimed and is to run is RUNNING under its name and at its version, with row locks or without |
| `ThreadsSuffice` | invariant | no claimed job waits for a thread |
| `SlotsComeBack` | invariant | `in_flight` holds nothing that will never be discarded |
| `StoppedLeavesNothing` | invariant | a graceful stop leaves nothing RUNNING, errors apart |
| `StopDrains`, `DueIsClaimed` | liveness | a stop ends; a due job is claimed |
| `RepeatsAgree` | invariant, `JobCreation` | all successful replies to one owner and key name one job, created once |
| `LoserReadsBack` | invariant | a request with a non-empty key is never answered 409 |
| `RetryIsSafe` | invariant | a repeated request is answered with its job, also when its body has become invalid |
| `ReplyIsOwn` | invariant | nobody is shown the job of another owner |
| `RowsAreRunnable` | invariant | a committed row has what its first and next run are computed from |
| `EveryRequestIsAnswered` | liveness | no request waits for ever for another's transaction |
| `HealthyKeepsLease` | action, `Timing` | a live worker's job is not taken back, by whichever worker and whenever it reaps, to the last tick of its lease |
| `DeadIsReaped` | invariant | a lease is never overdue by more than the rounds the polling loop needs, clocks, cycles and failed reaps included |
| `MissedAreSkipped`, `KeepsCadence` | invariants | missed slots are skipped, and slots do not drift |
| `RetriesBackOff` | invariant | the wait doubles with each attempt up to the cap, whoever found the failure |

`DuplicateNeedsExpiry`, `AttemptsAccounted` and `OpenRowReachable` are stated up
to the first reaping, because they are false after one: the recording of an
attempt is not conditional on the lease, so a thread that stalls between `Load`
and `Start` for longer than a lease executes the task beside the new holder and
writes its old counters back (`stale_start`, section 6).

## 5. Proofs

For every value of the constants, under the assumptions the modules declare.

| Module | Theorem | Property |
| --- | --- | --- |
| `EngineProofs` | `TypeCorrect` | `TypeOK` |
| | `LeaseShapeHolds`, `QueueShapeHolds` | `LeaseShape`, `QueueShape` |
| | `MovesAllowed`, `VersionIsAFence` | `StatusMovesAllowed`, `VersionFences` |
| | `NoDuplicates`, `OpenRowsReachable` | `DuplicateNeedsExpiry`, `OpenRowReachable` |
| | `LateResultIsDiscarded`, `LostLeaseStaysLost` | `LateResultDiscarded`, `LostStaysLost` |
| `BudgetProofs` | `AttemptsAreAccounted` | `AttemptsAccounted` |
| `RefinementProofs` | `EngineIsLeaseQueue` | `ImplementsLeaseQueue` of `Engine` |
| `SchedulerProofs` | `SchedulerTypeCorrect`, `RunningIsLeased` | `SchedulerTypeOK`, `RunningHasLease` |
| | `UsersAreRespected`, `CompletedIsEarned` | `EngineRespectsUser`, `CompletedHasSuccess` |
| `PollingProofs` | `WorkIsOwn`, `SlotsAreReturned` | `WorkIsHeld`, `SlotsComeBack` |
| `LoopProofs` | `ThreadsAreEnough`, `StopLeavesNothing` | `ThreadsSuffice`, `StoppedLeavesNothing` |
| | `LoopIsLeaseQueue`, `LoopTypeCorrect` | `ImplementsLeaseQueue`, `TypeOK` of `Polling` |
| `JobCreationProofs` | `KeysAgree`, `LosersReadBack` | `RepeatsAgree`, `LoserReadsBack` |
| | `RetriesAreSafe`, `RepliesAreOwn` | `RetryIsSafe`, `ReplyIsOwn` |
| | `WhatIsCommittedRuns`, `CreationTypeCorrect` | `RowsAreRunnable`, `TypeOK` |
| `TimingProofs` | `HealthyLeaseIsKept`, `DeadWorkerIsReaped` | `HealthyKeepsLease`, `DeadIsReaped` |
| | `CadenceIsKept`, `MissedSlotsAreSkipped` | `KeepsCadence`, `MissedAreSkipped` |
| | `BackoffIsKept`, `TimingTypeCorrect` | `RetriesBackOff`, `TypeOK` of `Timing` |

**`EngineProofs`** (assumption `EngineAssumption`). Facts about the rows the
engine writes (`ClaimedRowFacts`, `UnlockedFacts`, `SuccessFacts`,
`FailureFacts`, `OutcomeFacts`) give type correctness, action by action
(`NextTyped`). `RowSteps` then reduces every step to one of three things that
can happen to a row: it is kept, taken from the queue, or let go with an
outcome. The properties of single rows follow from these three cases.

`DuplicateNeedsExpiry` is not inductive: it speaks of threads that execute now,
and a thread that has been claimed but not started, or has died with its
execution row open, can break it later. The invariant `OnePending` counts all of
these as pending and says that, while the job was not reaped, there is at most
one and the job is RUNNING for it; `ThreadShape` supplies that a new claim has no
execution row yet and that an outcome is never "still running". A claim needs a
SCHEDULED job, hence one without anything pending, and only the end of the one
pending attempt makes it SCHEDULED again. `LateResultDiscarded` rests on
`Fence`: the version a thread read is never ahead of the row, and a reaper moves
the row's version past it, so a thread for which the `WHERE` clause still
matches has an execution row that nobody closed. `LostStaysLost` is the fence
used the other way: a thread that matches after a step read a version that was
not ahead of the row before it, so the step left the version, and with it status
and holder, alone, and the thread matched before. It is a statement about the
engine: a stale lifecycle request can put an old version back, and with three
claims TLC finds it false of `Scheduler`.

The ends of a thread (`Ends`) are five actions that leave one of the records of
`Gone`; `EndsFacts` and `GoneFacts` are all that the proofs use of them: a late
heartbeat is none of the active ones and keeps job, worker and version.

**`BudgetProofs`.** `total_runs` is compared with the cardinality of a growing
set, so the invariant must say what every thread will write: while the job was
not reaped, the copy a thread has loaded is as the row is, because the thread is
the only one pending (`OnePending` again), and a job that is queued or claimed
has an attempt left. A start adds one future to the set and one to the counter;
every other step keeps both.

**`RefinementProofs`.** The mapping takes a thread that has read its job to the
ticket of its worker and version, and `version` to the token. Each action is one
step of `LeaseQueue` or none; the outcome of a thread is `Settle` because the
`WHERE` clause is `Current` of its ticket, and a renewal, late or not, is
`Extend` for the same reason. The assumption `NoneIsNoTicket` says
that null is not a ticket, which TLC's model values satisfy.

**`SchedulerProofs`.** No request asks for RUNNING or COMPLETED, and what a
session has to write always includes a status, because the checks reject a
request that would keep it. So a row that is RUNNING after a request is one the
engine made RUNNING, and the lemmas of `EngineProofs` on rows apply unchanged;
for COMPLETED rows the invariant is carried by execution rows, which no request
touches.

**`PollingProofs`.** The invariant follows a claim from the `UPDATE` to the end
of its thread. `UpdateLocked`: a row that was updated and not yet committed is
locked by that transaction and still as the `UPDATE` matched it, which is the
conditional `UPDATE`'s own lock and holds with `SKIP LOCKED` or without. `Held`:
a committed claim that is handed to the pool is RUNNING at its version under a
live lease. `OnceOnly` and `LoopShape`: nothing is submitted twice, and the
locals are what they should be at each statement.

**`LoopProofs`** (also on `PollingAssumption`: the rows of the table are
finitely many) builds on that invariant. `ThreadsSuffice` relates a
set that pool threads shrink to a number the main thread took from it earlier,
so `Slots` counts what is promised beside what is taken: candidates and updated
rows during the claim, claims that are not registered after it. `Counted` bounds
the sum by the pool; `Known` says that only the future in the hands of the main
thread can be missing from `in_flight`; `Newer` that a committed claim is newer
than anything in `in_flight`, for which versions must grow. `Attended` says that
a RUNNING job of a live worker is in its hands or was lost by an error; the
drain ends with nothing in hand. `LoopTypeCorrect` bounds the version of a row:
`Ages` says that it is even in the queue and odd under a claim, as a claim and
its end each add one, and that the last of `MaxClaims` claims settles the job;
every claim a worker still knows of has a version some row had (`Seen`). For the
refinement, `Held` makes the claim a
thread runs for a job unique, so a thread has one ticket and it is current; a
commit is one `Grant` of the whole batch, because `UpdateLocked` keeps every row
of it SCHEDULED until then.

**`JobCreationProofs`** (assumption `NoneIsNoSession`). `OpenUnique` is the
unique index: an open row collides with no committed one and no other open one.
With `RowsUnique` this makes the owner and the key determine a row; `LoserHasRow`
says that a request told of a duplicate has a row to read back, and
`RepeatsFound` that a repeated request never gets past the lookup. `RepliesRight`
then describes every reply. `RowsAreRunnable` adds that a request past its
lookup carries a body that was valid at the time it was made (`Validated`), and
that the first run of such a body is later than that time and not before its
start (`FirstRunLater`).

**`TimingProofs`** (assumptions `TimingAssumption`, `LeaseIsLongEnough`). The
invariant `LeaseCovers` says that the lease outlasts the next thing the thread
has to do by a margin that pays for all renewals that may still fail, the delays
and the difference of the clocks. `ReaperOnTime` relates the loop to a lease that
has run out: when it waits and `m` reaps in a row have done nothing, `_last_reap`
is at most twice the skew and `m` rounds (`Late`) past the end of the lease; and
no cycle that does not reap begins later than the interval and the skew after
`_last_reap`. So each reap begins a round after the one before it at the latest,
and one that is not allowed to do nothing finds the lease expired. `OnSlots` carries the multiple of the interval from slot to
slot; it needs that only an attempt that is over has a time to count from.

`Times` orders the clock, the slots and the ends of attempts: a thread runs when
its slot has come (`RunsWhenDue`), so what it computes at its end is later than
the end (`AfterLastEnd`), and neither a claim nor a failure moves a slot back.
`RetriesBackOff` compares the delay of the code, base times a power of two and
then the cap, with `Wait`, which doubles and caps with each attempt. Both are
recursive functions. That they have a value, and agree, takes induction over the
number of attempts; the induction theorems of the library have an operator for a
parameter, so `SetInduction` is derived from its theorems that `<` on the naturals
is well-founded and that a non-empty set then has a minimal element, and
`Recursion` constructs the function a recursive equation defines. `DelayIsWait`
follows: capping a value before it is doubled and capped again makes no
difference.

The inductive invariants also hold in TLC on the instances of the runs, which is
how they were found.

Every safety property of a run that passes, invariant or action property, has a
theorem, and so have both refinements. Only model-checked is liveness under
fairness, with `ENABLED` in it, which the proof system does not reach:
`RunningSettles`, `HeldRowCloses`, `OneTimeSettles`, `StopDrains`, `DueIsClaimed`
and `EveryRequestIsAnswered`.

## 6. Where the code and its documentation part

Each of these is a run that TLC is expected to find violated.

- `resume_running`. `README.md:222`: duplicates need a genuine lease expiry.
  `resume` (and `replay`) accept a RUNNING job, as the table allows
  RUNNING -> SCHEDULED for retries, and the job is claimed again at once.
- `resume_stale`. `README.md:247`: a job in the queue is not dropped. A resume
  that commits after the attempt completed leaves SCHEDULED with a null
  `next_run_at`: the column was not null in its copy, so it is not written.
- `cancel_crash`. `README.md:249`: after a crash the open execution row is
  closed. The reaper looks at RUNNING jobs, and a cancelled one is not. In this
  run (`RunningFairSpec` of `MCScheduler`) requests find the job RUNNING, and no
  database error ends an attempt that has its execution row, so that the row can
  only be orphaned by the crash of the worker that runs it; the other worker
  never crashes and keeps polling.
- `stale_start`. `README.md:254`: the write of a stale worker is rejected by the
  version guard. The commit that records an attempt has no guard.
- `empty_key`. `app/api/schemas.py:53`: the same key makes retries of a POST
  safe. An empty key is stored but not looked up, and a retry is answered 409.

`resume_stale` and `stale_start` need a request or a thread that is overtaken
between its read and its commit; the others need no such race.

Two more, without a run of their own. A pause that read SCHEDULED and commits
after a claim makes the row RUNNING -> PAUSED, with the lock still on it, which
the table does not allow, although `README.md:161` has every transition go
through it; it is one of the stale requests that `scheduler` mixes into the
engine. And a resume keeps `attempt_count`, and nothing checks the budget before
an attempt, so a FAILED job that is resumed runs once more than `max_retries`
(`README.md:228`) allows; the documentation promises a fresh budget for replay
and does not speak of resume.

## 7. Plan

Done: `Engine` and its proofs; `Scheduler` and its proofs; `LeaseQueue` and the
refinements by `Engine` and by `Polling`, both proved; `Polling` with the claim
and the loop, and its proofs; `JobCreation` and its proofs; `Timing` with the
scheduling rules, and the proofs of leases, slots and backoff.

Left: a composition of `JobCreation` with `Engine`, in which jobs are created
while workers poll. The two meet in one committed row, and `RowsAreRunnable` says
what the engine takes from it.

## 8. Not modelled

- Authentication: registration is one insert under a unique constraint; the rest
  is hashing and tokens, which are library calls.
- The routes other than `POST /jobs`: each calls one method of the job service,
  modelled in `Scheduler` where it changes something, and formats its result.
  Lists, counts and statistics change nothing and nothing modelled reads them.
- Configuration, logging, error classes, the creation of tables, deployment
  files.
- The effects of tasks, and the arithmetic of cron expressions.
- A composition of `Timing` with several jobs or workers: leases of different
  jobs do not interact.
