------------------------------- MODULE Timing -------------------------------
(***************************************************************************)
(* One recurring job against the clock: when it is due                     *)
(* (app/domain/scheduling.py), how its lease is renewed                    *)
(* (app/services/heartbeat.py) and when a reaper takes it back             *)
(* (JobRunner.reap_expired_leases).  The other modules let a lease run out *)
(* whenever it may matter; this one says when it can.                      *)
(*                                                                         *)
(* Workers are away for as long as they like before they claim.  From the  *)
(* claim on, each step of a live worker takes at most Delay; a renewal may *)
(* fail Misses times in a row; and a clock of another host shows a time    *)
(* that is off by at most Skew.  Any worker may reap at any time, and one  *)
(* worker polls all the time, a cycle of its loop taking at most Cycle; of *)
(* its reaps at most ReapMisses in a row do nothing for the job.           *)
(***************************************************************************)
EXTENDS Integers, FiniteSetsExt

CONSTANTS
  None,
  JobInterval,      \* interval_seconds of an interval job
  CronPeriod,       \* distance of the slots of a cron job
  MaxRetries,
  Backoff, Cap,     \* retry_backoff_seconds and retry_backoff_max_seconds
  Lease,            \* lease_seconds
  Second,           \* one second, the shortest renewal interval
  ReapEvery,        \* reaper_interval_seconds
  Cycle,            \* poll_interval_seconds, and what a cycle does
  Delay, Misses, ReapMisses, Skew,
  MaxTime           \* bound of the clock

\* LeaseHeartbeat.__init__, which divides by 3.0
Interval == Max({Lease \div 3, Second})

ASSUME TimingAssumption ==
  /\ {JobInterval, CronPeriod, Backoff, Cap, Lease, Second, ReapEvery, Cycle}
       \subseteq Nat \ {0}
  /\ {MaxRetries, Delay, Misses, ReapMisses, Skew, MaxTime} \subseteq Nat
  /\ None \notin Int

\* Ticks are so short that a third of the lease is a number of them.
ASSUME LeaseHasThirds == Lease % 3 = 0

\* What a lease must be worth: the start, every renewal but the last failing,
\* the outcome, and the difference of the clocks.
ASSUME LeaseIsLongEnough ==
  Delay + (Misses + 1) * (Interval + Delay) + Delay + Skew <= Lease

VARIABLES
  now,        \* the clock of the worker
  schedule,   \* the schedule_type of the job
  job,        \* its row
  thread,     \* the thread that runs it, if it lives
  poll,       \* the loop of the worker that polls all the time
  lastEnd,    \* history: when the last successful attempt ended
  lastFail,   \* history: when the last attempt failed, since then
  attempts,   \* history: attempts started since then
  drifted     \* history: whether a failure or a late end moved the slots

timingVars ==
  <<now, schedule, job, thread, poll, lastEnd, lastFail, attempts, drifted>>

Row == [status : {"SCHEDULED", "RUNNING", "DONE"}, next_run_at : Nat \cup {None},
        lease_expires_at : Nat \cup {None}, attempt_count : 0 .. MaxRetries + 1]

\* A cycle of the loop began at time at, and last is _last_reap, on the clock
\* of its host; failed counts the reaps that did nothing, since one did.
Loop == [pc : {"waiting", "reaping"}, at : Nat, last : Int,
         failed : 0 .. ReapMisses]

\* due: when the thread must have started, renewed, or written its outcome.
Thread == [pc : {"claimed", "running", "ended"}, due : Nat,
           missed : 0 .. Misses, finished : Nat \cup {None}]

TypeOK ==
  /\ now \in 0 .. MaxTime
  /\ schedule \in {"interval", "cron"}
  /\ job \in Row
  /\ thread \in Thread \cup {None}
  /\ poll \in Loop
  /\ lastEnd \in Nat \cup {None} /\ lastFail \in Nat \cup {None}
  /\ attempts \in Nat /\ drifted \in BOOLEAN

-----------------------------------------------------------------------------
\* croniter's get_next.
NextSlot(t) == CronPeriod * (t \div CronPeriod + 1)

\* No catch-up.
FaultyNextRun(t) ==
  IF schedule = "interval" THEN job.next_run_at + JobInterval ELSE NextSlot(t)

\* The slots are counted from the end of the attempt.
FaultyNextRunDrifts(t) ==
  IF schedule = "interval" THEN t + JobInterval ELSE NextSlot(t)

\* next_run_after_success
NextRun(t) ==
  IF schedule = "interval"
    THEN LET next == job.next_run_at + JobInterval
         IN IF next <= t THEN t + JobInterval ELSE next
    ELSE NextSlot(t)

\* 2 ** n
PowerOfTwo[n \in Nat] == IF n = 0 THEN 1 ELSE 2 * PowerOfTwo[n - 1]

\* The exponent is not zero for the first attempt.
FaultyRetryDelay(n) == Min({Backoff * PowerOfTwo[n], Cap})

\* retry_delay_seconds
RetryDelay(n) == Min({Backoff * PowerOfTwo[Max({n, 1}) - 1], Cap})

\* What utcnow() may return on another host.
Shown == now - Skew .. now + Skew

\* The first cycle of a loop reaps, as _last_reap is 0.0.
Init ==
  /\ now = 0
  /\ schedule \in {"interval", "cron"}
  /\ job = [status |-> "SCHEDULED", lease_expires_at |-> None, attempt_count |-> 0,
            next_run_at |-> IF schedule = "interval" THEN JobInterval
                                                     ELSE NextSlot(0)]
  /\ thread = None
  /\ poll \in [pc : {"reaping"}, at : {0}, last : Shown, failed : {0}]
  /\ lastEnd = None /\ lastFail = None /\ attempts = 0 /\ drifted = FALSE

Claim ==
  /\ job.status = "SCHEDULED" /\ job.next_run_at <= now
  /\ job' = [job EXCEPT !.status = "RUNNING", !.lease_expires_at = now + Lease]
  /\ thread' = [pc |-> "claimed", due |-> now, missed |-> 0, finished |-> None]
  /\ UNCHANGED <<now, schedule, poll, lastEnd, lastFail, attempts, drifted>>

At(pc) == thread # None /\ thread.pc = pc

Start ==
  /\ At("claimed")
  /\ job' = [job EXCEPT !.attempt_count = @ + 1]
  /\ attempts' = attempts + 1
  /\ thread' = [thread EXCEPT !.pc = "running", !.due = now + Interval]
  /\ UNCHANGED <<now, schedule, poll, lastEnd, lastFail, drifted>>

Renew ==
  /\ At("running") /\ now >= thread.due
  /\ job' = [job EXCEPT !.lease_expires_at = now + Lease]
  /\ thread' = [thread EXCEPT !.due = now + Interval, !.missed = 0]
  /\ UNCHANGED <<now, schedule, poll, lastEnd, lastFail, attempts, drifted>>

\* The exception is logged, and the loop goes on.
RenewFails ==
  /\ At("running") /\ now >= thread.due /\ thread.missed < Misses
  /\ thread' = [thread EXCEPT !.due = now + Interval, !.missed = @ + 1]
  /\ UNCHANGED <<now, schedule, job, poll, lastEnd, lastFail, attempts, drifted>>

\* The heartbeat stops with the task.
TaskEnds ==
  /\ At("running")
  /\ thread' = [thread EXCEPT !.pc = "ended", !.due = now, !.finished = now]
  /\ UNCHANGED <<now, schedule, job, poll, lastEnd, lastFail, attempts, drifted>>

Released(status, next_run_at, attempt_count) ==
  job' = [status |-> status, next_run_at |-> next_run_at,
          lease_expires_at |-> None, attempt_count |-> attempt_count]

\* _success_changes, with the time at which the task ended.
Succeeds ==
  /\ At("ended") /\ job.status = "RUNNING"
  /\ Released("SCHEDULED", NextRun(thread.finished), 0)
  /\ thread' = None
  /\ lastEnd' = thread.finished /\ lastFail' = None /\ attempts' = 0
  /\ drifted' = IF schedule = "cron" THEN FALSE
                ELSE drifted \/ job.next_run_at + JobInterval <= thread.finished
  /\ UNCHANGED <<now, schedule, poll>>

\* One retry too many.
FaultyRetriesExhausted == job.attempt_count > MaxRetries + 1

RetriesExhausted == job.attempt_count > MaxRetries

\* _failure_changes at time t.
FailedAt(t) ==
  /\ IF RetriesExhausted
       THEN Released("DONE", None, job.attempt_count)
       ELSE Released("SCHEDULED", t + RetryDelay(job.attempt_count),
                     job.attempt_count)
  /\ lastFail' = t
  /\ drifted' = TRUE
  /\ UNCHANGED <<now, schedule, lastEnd, attempts>>

Fails ==
  /\ At("ended") /\ job.status = "RUNNING"
  /\ FailedAt(thread.finished)
  /\ thread' = None
  /\ UNCHANGED poll

Crash ==
  /\ thread # None
  /\ thread' = None
  /\ UNCHANGED <<now, schedule, job, poll, lastEnd, lastFail, attempts, drifted>>

\* A lease that ends now has expired.
FaultyExpired(t) == job.status = "RUNNING" /\ job.lease_expires_at <= t

\* find_expired_leases
Expired(t) == job.status = "RUNNING" /\ job.lease_expires_at < t

\* _last_reap is set in every cycle.
FaultyPoll ==
  /\ poll.pc = "waiting"
  /\ \E t \in Shown :
       poll' = [poll EXCEPT !.pc = IF t - poll.last >= ReapEvery THEN "reaping"
                                                                 ELSE "waiting",
                            !.at = now, !.last = t]
  /\ UNCHANGED <<now, schedule, job, thread, lastEnd, lastFail, attempts, drifted>>

\* A cycle begins: _maybe_reap looks at its interval.
Poll ==
  /\ poll.pc = "waiting"
  /\ \E t \in Shown :
       \/ /\ t - poll.last >= ReapEvery
          /\ poll' = [poll EXCEPT !.pc = "reaping", !.at = now, !.last = t]
       \/ /\ t - poll.last < ReapEvery
          /\ poll' = [poll EXCEPT !.at = now]
  /\ UNCHANGED <<now, schedule, job, thread, lastEnd, lastFail, attempts, drifted>>

\* reap_expired_leases, later in the cycle, with a reading of its own.
Reap ==
  /\ poll.pc = "reaping"
  /\ poll' = [poll EXCEPT !.pc = "waiting", !.failed = 0]
  /\ \E t \in Shown :
       \/ Expired(t) /\ FailedAt(t)
       \/ ~Expired(t) /\ UNCHANGED <<now, schedule, job, lastEnd, lastFail,
                                     attempts, drifted>>
  /\ UNCHANGED thread

\* It raises, or skips the row: another transaction has it locked, or it is
\* not among the first of the limit.  _last_reap is not put back.
ReapFails ==
  /\ poll.pc = "reaping" /\ poll.failed < ReapMisses
  /\ poll' = [poll EXCEPT !.pc = "waiting", !.failed = @ + 1]
  /\ UNCHANGED <<now, schedule, job, thread, lastEnd, lastFail, attempts, drifted>>

\* Another worker reaps the job.
ReapElsewhere ==
  /\ \E t \in Shown : Expired(t) /\ FailedAt(t)
  /\ UNCHANGED <<thread, poll>>

\* Time does not pass what is to be done.
Tick ==
  /\ now < MaxTime
  /\ now < poll.at + Cycle
  /\ thread # None => now < thread.due + Delay
  /\ now' = now + 1
  /\ UNCHANGED <<schedule, job, thread, poll, lastEnd, lastFail, attempts, drifted>>

Next ==
  \/ Claim \/ Start \/ Renew \/ RenewFails \/ TaskEnds \/ Succeeds \/ Fails
  \/ Crash \/ Poll \/ Reap \/ ReapFails \/ ReapElsewhere \/ Tick

Spec == Init /\ [][Next]_timingVars

-----------------------------------------------------------------------------
\* A slow job is not mistaken for a dead worker: while its worker lives, a
\* RUNNING job is not taken back, however long its task takes and however
\* late it is renewed, to the last tick of its lease.
HealthyKeepsLease ==
  [][thread # None /\ job.status = "RUNNING" /\ job'.status # "RUNNING"
       => thread' = None]_timingVars

\* What passes at most between two reaps of the loop: its clock may lose twice
\* the difference, and the interval is looked at once per cycle.
Round == ReapEvery + 2 * Skew + Cycle

\* The job of a dead worker is taken back, with every reap but the last doing
\* nothing for it, so long after its lease: until the clock of the loop shows
\* that the lease is over, a round for each reap, and the rest of a cycle.
DeadIsReaped ==
  job.status = "RUNNING" =>
    now < job.lease_expires_at + Skew + (ReapMisses + 1) * Round + Cycle

\* Missed slots are skipped and not replayed: whatever was missed while
\* workers were away or a task took long, a job in the queue is due after its
\* last run has ended.
MissedAreSkipped ==
  job.status = "SCHEDULED" /\ lastEnd # None => job.next_run_at > lastEnd

\* As long as attempts succeed before the next slot, an interval job stays on
\* the slots counted from its first run; a cron job comes back to its slots
\* with every success.
KeepsCadence ==
  job.status # "DONE" /\ ~drifted =>
    job.next_run_at % (IF schedule = "interval" THEN JobInterval
                                                ELSE CronPeriod) = 0

\* The wait after a number of attempts: doubled each time, and capped.
Wait[n \in Nat] ==
  IF n <= 1 THEN Min({Backoff, Cap}) ELSE Min({2 * Wait[n - 1], Cap})

\* A job that failed waits so long for its next attempt, whoever found it
\* failed, also when the attempt was claimed and never started.
RetriesBackOff ==
  job.status = "SCHEDULED" /\ lastFail # None =>
    job.next_run_at = lastFail + Wait[attempts]
=============================================================================
