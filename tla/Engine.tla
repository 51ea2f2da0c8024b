------------------------------- MODULE Engine -------------------------------
(***************************************************************************)
(* The execution engine: worker processes that claim due jobs, run each on *)
(* a thread of their pool, keep its lease alive with a heartbeat, write    *)
(* the outcome back with a compare-and-swap, and reap the jobs of workers  *)
(* that died (app/services/runner.py, app/services/heartbeat.py and the    *)
(* repositories under them).  Processes share the tables jobs and          *)
(* job_executions and nothing else.                                        *)
(*                                                                         *)
(* Each action is one database transaction, or one step of a thread        *)
(* between two transactions.  Timestamps are kept as far as the code's     *)
(* comparisons see them: next_run_at is "null", in the "future" or "due",  *)
(* and a lease is "null", "live" or "expired"; BecomesDue and LeaseExpires *)
(* are the passage of time.                                                *)
(***************************************************************************)
EXTENDS Naturals, FiniteSets, StateMachine

CONSTANTS
  Jobs,               \* rows of the table jobs
  Workers,            \* worker processes; a restarted process is a new one
  Futures,            \* bound: how many claims a behaviour can make
  None,               \* the null of locked_by, and no job / no worker
  Recurring,          \* jobs whose schedule_type is interval or cron
  MaxRetries,         \* max_retries of each job
  WorkerConcurrency,  \* threads of one worker
  DeadLetterEnabled,  \* setting dead_letter_enabled
  Stragglers,         \* bound: claims whose heartbeat may outlive its thread
  Reliable            \* workers assumed not to crash

ASSUME EngineAssumption ==
  /\ Recurring \subseteq Jobs
  /\ MaxRetries \in [Jobs -> Nat]
  /\ WorkerConcurrency \in Nat \ {0}
  /\ DeadLetterEnabled \in BOOLEAN
  /\ Stragglers \subseteq Futures /\ Reliable \subseteq Workers
  /\ None \notin Workers \cup Jobs
  /\ IsFiniteSet(Futures)

VARIABLES
  jobs,      \* the rows of the table jobs
  alive,     \* which worker processes run
  future,    \* the futures submitted to the pools: one per claim
  exec,      \* job_executions: the status of the row future f inserted
  reaped     \* history: jobs that some reaper has taken back

vars == <<jobs, alive, future, exec, reaped>>

JobRow == [status           : JobStatus,
           next_run_at      : {"null", "future", "due"},
           attempt_count    : Nat,
           total_runs       : Nat,
           locked_by        : Workers \cup {None},
           lease_expires_at : {"null", "live", "expired"},
           version          : Nat]

\* Where the thread of a future stands in Worker._execute and JobRunner.run.
Active == {"queued",      \* submitted, job not read yet
           "loaded",      \* job read and found leased to this worker
           "running",     \* attempt committed, heartbeat on, task executing
           "ended",       \* task returned or raised
           "refreshed"}   \* job read again, outcome not yet written

\* A future and the locals of its thread: claimed_version, the counters it
\* read, and the outcome of the task.  Of a "late" one only a renewal of its
\* heartbeat is left, which has outlived the thread.
FutureRec == [pc      : Active \cup {"free", "late", "done"},
              worker  : Workers \cup {None},
              job     : Jobs \cup {None},
              version : Nat,
              attempt : Nat,
              total   : Nat,
              outcome : ExecutionStatus]

TypeOK ==
  /\ jobs \in [Jobs -> JobRow]
  /\ alive \in [Workers -> BOOLEAN]
  /\ future \in [Futures -> FutureRec]
  /\ exec \in [Futures -> ExecutionStatus \cup {"none"}]
  /\ reaped \in [Jobs -> BOOLEAN]
  /\ \A f \in Futures : future[f].pc \in Active \cup {"late"} =>
       future[f].worker \in Workers /\ future[f].job \in Jobs

-----------------------------------------------------------------------------
(* Rows as the code writes them.  A definition named Faulty... is a bug the *)
(* definition that follows it could have; no action uses it.               *)

NewRow(due) ==
  [status |-> "SCHEDULED", next_run_at |-> due, attempt_count |-> 0,
   total_runs |-> 0, locked_by |-> None, lease_expires_at |-> "null",
   version |-> 0]

\* Submission of a claimed job to the pool of worker w.
Submitted(w, j) ==
  [pc |-> "queued", worker |-> w, job |-> j, version |-> 0, attempt |-> 0,
   total |-> 0, outcome |-> "RUNNING"]

\* A future that is not discarded when its thread ends.
FaultyRetired(rec) ==
  [rec EXCEPT !.worker = None, !.version = 0, !.attempt = 0, !.total = 0,
              !.outcome = "RUNNING"]

\* A thread that ended: its locals are gone, the job it ran remains on the
\* row of job_executions.
Retired(rec) ==
  [rec EXCEPT !.pc = "done", !.worker = None, !.version = 0, !.attempt = 0,
              !.total = 0, !.outcome = "RUNNING"]

\* The heartbeat of a thread that is done with its task is joined for five
\* seconds only.  A renewal that hangs for longer goes on without the thread.
Gone(f) ==
  {Retired(future[f])} \cup
    (IF f \in Stragglers /\ future[f].pc \in {"ended", "refreshed"}
       THEN {[future[f] EXCEPT !.pc = "late", !.attempt = 0, !.total = 0,
                               !.outcome = "RUNNING"]}
       ELSE {})

\* The lease is left to the first renewal.
FaultyClaimedRow(row, w) ==
  [row EXCEPT !.status = "RUNNING", !.locked_by = w, !.version = @ + 1]

ClaimedRow(row, w) ==
  [row EXCEPT !.status = "RUNNING", !.locked_by = w,
              !.lease_expires_at = "live", !.version = @ + 1]

\* The lease is left on the row.
FaultyUnlockedLease(row) == [row EXCEPT !.locked_by = None, !.version = @ + 1]

\* The version is not moved.
FaultyUnlockedVersion(row) ==
  [row EXCEPT !.locked_by = None, !.lease_expires_at = "null"]

\* Every write that takes a job away from its holder ends like this.
Unlocked(row) ==
  [row EXCEPT !.locked_by = None, !.lease_expires_at = "null",
              !.version = @ + 1]

\* attempt_count keeps counting across the occurrences of a recurring job.
FaultySuccessBudget(j, row) ==
  [row EXCEPT !.status      = IF j \in Recurring THEN "SCHEDULED"
                                                 ELSE "COMPLETED",
              !.next_run_at = IF j \in Recurring THEN "future" ELSE "null"]

\* No next occurrence is computed.
FaultySuccessNext(j, row) ==
  [row EXCEPT !.status        = IF j \in Recurring THEN "SCHEDULED"
                                                   ELSE "COMPLETED",
              !.next_run_at   = "null",
              !.attempt_count = 0]

\* next_run_after_success is None for a one-time job and in the future for
\* the others.
SuccessChanges(j, row) ==
  [row EXCEPT !.status        = IF j \in Recurring THEN "SCHEDULED"
                                                   ELSE "COMPLETED",
              !.next_run_at   = IF j \in Recurring THEN "future" ELSE "null",
              !.attempt_count = 0]

\* One retry too many.
FaultyRetriesExhausted(j, attempt) == attempt > MaxRetries[j] + 1

RetriesExhausted(j, attempt) == attempt > MaxRetries[j]

FailureStatus(j, attempt) ==
  IF ~RetriesExhausted(j, attempt) THEN "SCHEDULED"
  ELSE IF j \in Recurring /\ DeadLetterEnabled THEN "DEAD_LETTER"
  ELSE "FAILED"

\* next_run_at is cleared even when the job is to be retried.
FaultyFailureChanges(j, row, attempt) ==
  [row EXCEPT !.status = FailureStatus(j, attempt), !.next_run_at = "null"]

\* The retry policy, shared by the runner and the reaper: back to the queue
\* after a backoff, or settled with next_run_at cleared.
FailureChanges(j, row, attempt) ==
  [row EXCEPT !.status      = FailureStatus(j, attempt),
              !.next_run_at = IF RetriesExhausted(j, attempt) THEN "null"
                                                              ELSE "future"]

-----------------------------------------------------------------------------
Init ==
  /\ \E due \in [Jobs -> {"future", "due"}] :
       jobs = [j \in Jobs |-> NewRow(due[j])]
  /\ alive = [w \in Workers |-> TRUE]
  /\ future = [f \in Futures |-> [Submitted(None, None) EXCEPT !.pc = "free"]]
  /\ exec = [f \in Futures |-> "none"]
  /\ reaped = [j \in Jobs |-> FALSE]

InFlight(w) == {f \in Futures : future[f].pc \in Active /\ future[f].worker = w}

\* The claim does not look at the status.
FaultyClaimable(w, j) ==
  /\ alive[w]
  /\ Cardinality(InFlight(w)) < WorkerConcurrency
  /\ jobs[j].next_run_at = "due"

\* A job claim_due selects, by a worker with a free slot.
Claimable(w, j) ==
  /\ alive[w]
  /\ Cardinality(InFlight(w)) < WorkerConcurrency
  /\ jobs[j].status = "SCHEDULED"
  /\ jobs[j].next_run_at = "due"

\* Worker.run_once: one row of the claim, and its submission to the pool.
\* claim_due holds the row lock from its SELECT to its commit, so the
\* conditional UPDATE sees the version it read.  A batch is a run of these
\* steps; SKIP LOCKED may leave any due row out of it.
Claim(w, j, f) ==
  /\ Claimable(w, j)
  /\ future[f].pc = "free"
  /\ jobs' = [jobs EXCEPT ![j] = ClaimedRow(@, w)]
  /\ future' = [future EXCEPT ![f] = Submitted(w, j)]
  /\ UNCHANGED <<alive, exec, reaped>>

\* The claim commits and the poll cycle then fails (the SELECT after the
\* commit raises): the job is leased and no thread was given it.
ClaimThenPollFails(w, j, f) ==
  /\ Claimable(w, j)
  /\ future[f].pc = "free"
  /\ jobs' = [jobs EXCEPT ![j] = ClaimedRow(@, w)]
  /\ future' = [future EXCEPT ![f] = Retired(Submitted(w, j))]
  /\ UNCHANGED <<alive, exec, reaped>>

RunsHere(f) == LET row == jobs[future[f].job] IN
  row.status = "RUNNING" /\ row.locked_by = future[f].worker

\* Worker._execute reads the job in a session of its own and run() accepts
\* it.  What it read is what it will write from.
Load(f) ==
  /\ future[f].pc = "queued"
  /\ RunsHere(f)
  /\ LET row == jobs[future[f].job] IN
       future' = [future EXCEPT ![f].pc = "loaded",
                                ![f].version = row.version,
                                ![f].attempt = row.attempt_count,
                                ![f].total = row.total_runs]
  /\ UNCHANGED <<jobs, alive, exec, reaped>>

\* run() raises LeaseLost before doing anything.
LoadRefused(f) ==
  /\ future[f].pc = "queued"
  /\ ~RunsHere(f)
  /\ future' = [future EXCEPT ![f] = Retired(@)]
  /\ UNCHANGED <<jobs, alive, exec, reaped>>

\* run() inserts the execution row and writes the two counters it computed
\* from its copy of the job, in one commit.  The UPDATE is by primary key:
\* nothing checks that the job is still leased to this worker.
Start(f) ==
  /\ future[f].pc = "loaded"
  /\ jobs' = [jobs EXCEPT ![future[f].job].attempt_count = future[f].attempt + 1,
                          ![future[f].job].total_runs = future[f].total + 1]
  /\ exec' = [exec EXCEPT ![f] = "RUNNING"]
  /\ future' = [future EXCEPT ![f].pc = "running", ![f].attempt = 0,
                              ![f].total = 0]
  /\ UNCHANGED <<alive, reaped>>

\* The write-back only checks that the version is not an older one.
FaultyHoldsLeaseOrder(f) == jobs[future[f].job].version >= future[f].version

\* The write-back checks the holder and not the version.
FaultyHoldsLeaseVersion(f) == RunsHere(f)

\* The write-back does not check the status.
FaultyHoldsLeaseStatus(f) == LET row == jobs[future[f].job] IN
  row.locked_by = future[f].worker /\ row.version = future[f].version

\* The WHERE clause of the heartbeat and of _commit_outcome.
HoldsLease(f) ==
  /\ RunsHere(f)
  /\ jobs[future[f].job].version = future[f].version

\* One renewal; a slow one may land after the task ended.  A renewal that
\* matches no row ends the heartbeat and changes nothing; the task is not
\* told.
Renew(f) ==
  /\ future[f].pc \in {"running", "ended", "refreshed"}
  /\ HoldsLease(f)
  /\ jobs' = [jobs EXCEPT ![future[f].job].lease_expires_at = "live"]
  /\ UNCHANGED <<alive, future, exec, reaped>>

\* The renewal that outlived its thread lands, or matches no row or raises.
LateRenewal(f) ==
  /\ future[f].pc = "late"
  /\ \/ /\ HoldsLease(f)
        /\ jobs' = [jobs EXCEPT ![future[f].job].lease_expires_at = "live"]
     \/ UNCHANGED jobs
  /\ future' = [future EXCEPT ![f] = Retired(@)]
  /\ UNCHANGED <<alive, exec, reaped>>

\* run_task returns, or raises TaskFailed or anything else.
TaskEnds(f) ==
  /\ future[f].pc = "running"
  /\ \E outcome \in {"SUCCESS", "FAILED"} :
       future' = [future EXCEPT ![f].pc = "ended", ![f].outcome = outcome]
  /\ UNCHANGED <<jobs, alive, exec, reaped>>

\* session.refresh(job): the retry policy works on this copy.
Refresh(f) ==
  /\ future[f].pc = "ended"
  /\ future' = [future EXCEPT ![f].pc = "refreshed",
                     ![f].attempt = jobs[future[f].job].attempt_count]
  /\ UNCHANGED <<jobs, alive, exec, reaped>>

\* The row as the outcome of the thread would leave it.
OutcomeRow(f) ==
  LET j == future[f].job IN
  IF future[f].outcome = "SUCCESS"
    THEN Unlocked(SuccessChanges(j, jobs[j]))
    ELSE Unlocked(FailureChanges(j, jobs[j], future[f].attempt))

\* The execution row is left open.
FaultyFinishApplied(f) ==
  /\ future[f].pc = "refreshed"
  /\ HoldsLease(f)
  /\ jobs' = [jobs EXCEPT ![future[f].job] = OutcomeRow(f)]
  /\ \E rec \in Gone(f) : future' = [future EXCEPT ![f] = rec]
  /\ UNCHANGED <<alive, exec, reaped>>

\* _commit_outcome matches the row: outcome and execution row commit
\* together.
FinishApplied(f) ==
  /\ future[f].pc = "refreshed"
  /\ HoldsLease(f)
  /\ CanTransition("RUNNING", OutcomeRow(f).status)
  /\ jobs' = [jobs EXCEPT ![future[f].job] = OutcomeRow(f)]
  /\ exec' = [exec EXCEPT ![f] = future[f].outcome]
  /\ \E rec \in Gone(f) : future' = [future EXCEPT ![f] = rec]
  /\ UNCHANGED <<alive, reaped>>

\* _commit_outcome matches no row: the result is discarded, and the
\* execution row gets the task's outcome even if the reaper closed it.
FinishDiscarded(f) ==
  /\ future[f].pc = "refreshed"
  /\ ~HoldsLease(f)
  /\ exec' = [exec EXCEPT ![f] = future[f].outcome]
  /\ \E rec \in Gone(f) : future' = [future EXCEPT ![f] = rec]
  /\ UNCHANGED <<jobs, alive, reaped>>

\* Only the rows of attempts whose thread still runs.
FaultyOpenRows(j) ==
  {f \in Futures : future[f].job = j /\ exec[f] = "RUNNING"
                     /\ future[f].pc \in Active}

\* Open rows of the job, whoever inserted them.
OpenRows(j) == {f \in Futures : future[f].job = j /\ exec[f] = "RUNNING"}

\* A reaper that looks for the jobs of its own worker only.
FaultyExpired(w, j) ==
  /\ jobs[j].status = "RUNNING"
  /\ jobs[j].lease_expires_at = "expired"
  /\ jobs[j].locked_by = w

\* find_expired_leases, run by worker w.
Expired(w, j) ==
  /\ jobs[j].status = "RUNNING"
  /\ jobs[j].lease_expires_at = "expired"

\* reap_expired_leases on one of the rows it locked.
Reap(w, j) ==
  /\ alive[w]
  /\ Expired(w, j)
  /\ LET changes == FailureChanges(j, jobs[j], jobs[j].attempt_count) IN
       /\ CanTransition("RUNNING", changes.status)
       /\ jobs' = [jobs EXCEPT ![j] = Unlocked(changes)]
  /\ exec' = [f \in Futures |-> IF f \in OpenRows(j) THEN "FAILED" ELSE exec[f]]
  /\ reaped' = [reaped EXCEPT ![j] = TRUE]
  /\ UNCHANGED <<alive, future>>

\* A database error ends the thread; session_scope rolls back what was not
\* committed and the exception stays in the future.
ThreadFails(f) ==
  /\ future[f].pc \in Active
  /\ \E rec \in Gone(f) : future' = [future EXCEPT ![f] = rec]
  /\ UNCHANGED <<jobs, alive, exec, reaped>>

\* kill -9, or a container that is restarted.
Crash(w) ==
  /\ alive[w]
  /\ w \notin Reliable
  /\ alive' = [alive EXCEPT ![w] = FALSE]
  /\ future' = [f \in Futures |->
                  IF future[f].worker = w THEN Retired(future[f]) ELSE future[f]]
  /\ UNCHANGED <<jobs, exec, reaped>>

BecomesDue(j) ==
  /\ jobs[j].next_run_at = "future"
  /\ jobs' = [jobs EXCEPT ![j].next_run_at = "due"]
  /\ UNCHANGED <<alive, future, exec, reaped>>

LeaseExpires(j) ==
  /\ jobs[j].lease_expires_at = "live"
  /\ jobs' = [jobs EXCEPT ![j].lease_expires_at = "expired"]
  /\ UNCHANGED <<alive, future, exec, reaped>>

ThreadStep(f) ==
  \/ Load(f) \/ LoadRefused(f)
  \/ Start(f)
  \/ TaskEnds(f)
  \/ Refresh(f)
  \/ FinishApplied(f) \/ FinishDiscarded(f)
  \/ LateRenewal(f)

Next ==
  \/ \E w \in Workers, j \in Jobs, f \in Futures :
       Claim(w, j, f) \/ ClaimThenPollFails(w, j, f)
  \/ \E f \in Futures : ThreadStep(f) \/ Renew(f) \/ ThreadFails(f)
  \/ \E w \in Workers, j \in Jobs : Reap(w, j)
  \/ \E w \in Workers : Crash(w)
  \/ \E j \in Jobs : BecomesDue(j) \/ LeaseExpires(j)

Spec == Init /\ [][Next]_vars

\* Nobody renews the lease of the job any more: its thread, if there ever
\* was one, is dead or has lost it.
Abandoned(j) ==
  \A f \in Futures :
    future[f].job = j /\ future[f].pc \in {"running", "ended", "refreshed", "late"}
      => ~HoldsLease(f)

\* Threads run, tasks and statements end, the clock advances (a lease runs
\* out for sure only when nobody renews it), and the polling loop of a worker
\* that does not crash comes back to claim and to reap.
Fairness ==
  /\ \A f \in Futures : WF_vars(ThreadStep(f))
  /\ \A j \in Jobs :
       /\ WF_vars(BecomesDue(j))
       /\ WF_vars(Abandoned(j) /\ LeaseExpires(j))
  /\ \A w \in Reliable, j \in Jobs :
       /\ WF_vars(\E f \in Futures : Claim(w, j, f))
       /\ WF_vars(Reap(w, j))

FairSpec == Spec /\ Fairness

-----------------------------------------------------------------------------
(* Safety.                                                                 *)

Executing(j) == {f \in Futures : future[f].pc = "running" /\ future[f].job = j}

\* A RUNNING job, and no other, has a holder and a lease: the reaper, which
\* looks for RUNNING rows with a lease that is not null, can reach every job
\* whose worker died, and no settled or queued job keeps a lock.
LeaseShape ==
  \A j \in Jobs :
    /\ jobs[j].status = "RUNNING" <=> jobs[j].locked_by # None
    /\ jobs[j].status = "RUNNING" <=> jobs[j].lease_expires_at # "null"

\* A queued job always has a next_run_at, so claim_due will see it one day;
\* a settled one never has, "so nothing picks it up again".
QueueShape ==
  \A j \in Jobs :
    /\ jobs[j].status = "SCHEDULED" => jobs[j].next_run_at # "null"
    /\ jobs[j].status \in Settled => jobs[j].next_run_at = "null"

\* Duplicates need a genuine lease expiry: as long as no reaper has taken
\* the job back, at most one thread of all workers executes its task.
DuplicateNeedsExpiry ==
  \A j \in Jobs :
    ~reaped[j] => \A f, g \in Executing(j) : f = g

\* While no lease of the job has expired, every start is counted once (no
\* update of the counters is lost) and the attempts stay within the first
\* one plus max_retries.
AttemptsAccounted ==
  \A j \in Jobs : ~reaped[j] =>
    /\ jobs[j].attempt_count <= MaxRetries[j] + 1
    /\ jobs[j].total_runs =
         Cardinality({f \in Futures : future[f].job = j /\ exec[f] # "none"})

\* While no lease of the job has expired, an execution row is open only if
\* the job is RUNNING: the row of a thread that died stays within the reach
\* of the reaper.
OpenRowReachable ==
  \A j \in Jobs :
    ~reaped[j] /\ OpenRows(j) # {} => jobs[j].status = "RUNNING"

\* Every change of status is in the table ALLOWED, although the updates of
\* the engine never read the status they replace.
StatusMovesAllowed ==
  [][\A j \in Jobs : jobs'[j].status # jobs[j].status =>
       CanTransition(jobs[j].status, jobs'[j].status)]_vars

\* What makes the version a fence: it never goes back, and whoever changes
\* the status or the holder of a job moves it.
VersionFences ==
  [][\A j \in Jobs :
       /\ jobs'[j].version >= jobs[j].version
       /\ jobs'[j].version = jobs[j].version =>
            /\ jobs'[j].status = jobs[j].status
            /\ jobs'[j].locked_by = jobs[j].locked_by]_vars

\* A thread whose execution row the reaper has closed does not touch the
\* job when it ends: its late result is discarded.
LateResultDiscarded ==
  [][\A f \in Futures :
       future[f].pc = "refreshed" /\ future'[f].pc \in {"late", "done"}
         /\ exec[f] # "RUNNING" => jobs' = jobs]_vars

\* Where a thread or its heartbeat has a version to put into a WHERE clause.
HasRead == {"loaded", "running", "ended", "refreshed", "late"}

\* A lease that was lost is lost for good: a thread whose WHERE clause has
\* ceased to match, and its heartbeat, can never match the row again, even
\* when the same worker claims the job a second time and the heartbeat
\* outlives the thread.
LostStaysLost ==
  [][\A f \in Futures :
       future[f].pc \in HasRead /\ ~HoldsLease(f) /\ future'[f].pc \in HasRead
         => ~HoldsLease(f)']_vars

-----------------------------------------------------------------------------
(* The engine implements the abstract queue of leases.  A thread has a     *)
(* ticket from the moment it has read the job until it and its heartbeat   *)
(* have ended.                                                             *)

PhaseOf(status) == CASE status = "SCHEDULED" -> "queued"
                     [] status = "RUNNING"   -> "held"
                     [] OTHER                -> "out"

TicketOf(rec) ==
  IF rec.pc \in HasRead
    THEN [worker |-> rec.worker, job |-> rec.job, token |-> rec.version]
    ELSE None

LQ == INSTANCE LeaseQueue WITH
        Clients <- Futures,
        phase   <- [j \in Jobs |-> PhaseOf(jobs[j].status)],
        holder  <- [j \in Jobs |-> jobs[j].locked_by],
        token   <- [j \in Jobs |-> jobs[j].version],
        lapsed  <- [j \in Jobs |-> jobs[j].lease_expires_at = "expired"],
        ticket  <- [f \in Futures |-> TicketOf(future[f])]

\* What the null of locked_by is not.
ASSUME NoneIsNoTicket == None \notin LQ!Ticket

\* Every step is one of the queue of leases or invisible to it: a job is
\* held by one worker at a time, whoever lets go of it either holds the
\* current token, which no longer is, or takes it back after the lease ran
\* out, and a renewal extends only the lease it was made for.
ImplementsLeaseQueue == LQ!Spec

-----------------------------------------------------------------------------
(* What the documentation says of a stale worker and the recording of the  *)
(* attempt refutes.                                                        *)

\* A thread that has lost its lease writes nothing to the row of its job, or
\* of any other.
StaleWriteRejected ==
  [][\A f \in Futures :
       future[f].pc \in HasRead /\ ~HoldsLease(f) /\ future'[f] # future[f]
         => jobs' = jobs]_vars

-----------------------------------------------------------------------------
(* Liveness.                                                               *)

\* No job stays RUNNING: its thread writes an outcome, or its lease runs
\* out and a reaper takes it back.
RunningSettles ==
  \A j \in Jobs : jobs[j].status = "RUNNING" ~> jobs[j].status # "RUNNING"

\* An execution row that was opened while its worker held the job is closed
\* in the end, by its thread or, after a crash, by the reaper.
HeldRowCloses ==
  \A f \in Futures :
    exec[f] = "RUNNING" /\ future[f].pc = "running" /\ HoldsLease(f)
      ~> exec[f] # "RUNNING"

\* A one-time job is settled in the end, whatever crashes and errors its
\* attempts met, unless the bound on claims was reached first.
OneTimeSettles ==
  \A j \in Jobs \ Recurring :
    <>(\/ jobs[j].status \in Settled
       \/ \A f \in Futures : future[f].pc # "free")
=============================================================================
