---------------------------- MODULE EngineProofs ----------------------------
(***************************************************************************)
(* Theorems about the engine, for any jobs, workers, retry limits and      *)
(* number of claims.                                                       *)
(***************************************************************************)
EXTENDS Engine, TLAPS

-----------------------------------------------------------------------------
(* The rows the engine writes are rows, and they leave a job in a shape    *)
(* that depends on the kind of write only.                                 *)

\* A claim makes the row RUNNING, leased to the claimer, one version later.
LEMMA ClaimedRowFacts ==
  ASSUME NEW row \in JobRow, NEW w \in Workers
  PROVE  LET new == ClaimedRow(row, w) IN
         /\ new \in JobRow
         /\ new.status = "RUNNING"
         /\ new.locked_by = w
         /\ new.lease_expires_at = "live"
         /\ new.version = row.version + 1
         /\ new.next_run_at = row.next_run_at
<1> DEFINE new == ClaimedRow(row, w)
<1>1. new \in JobRow
  <2>1. row.version + 1 \in Nat /\ "RUNNING" \in JobStatus
    BY DEF JobRow, JobStatus
  <2> QED
    BY <2>1 DEF ClaimedRow, JobRow
<1>2. /\ new.status = "RUNNING" /\ new.locked_by = w
      /\ new.lease_expires_at = "live"
  BY DEF ClaimedRow, JobRow
<1>3. new.version = row.version + 1 /\ new.next_run_at = row.next_run_at
  BY DEF ClaimedRow, JobRow
<1> QED
  BY <1>1, <1>2, <1>3

\* Unlocked clears the lock and moves the version.
LEMMA UnlockedFacts ==
  ASSUME NEW row \in JobRow
  PROVE  LET new == Unlocked(row) IN
         /\ new \in JobRow
         /\ new.status = row.status
         /\ new.locked_by = None
         /\ new.lease_expires_at = "null"
         /\ new.version = row.version + 1
         /\ new.next_run_at = row.next_run_at
<1> DEFINE new == Unlocked(row)
<1>1. new \in JobRow
  <2>1. row.version + 1 \in Nat
    BY DEF JobRow
  <2> QED
    BY <2>1 DEF Unlocked, JobRow
<1>2. new.locked_by = None /\ new.lease_expires_at = "null"
  BY DEF Unlocked, JobRow
<1>3. /\ new.status = row.status /\ new.next_run_at = row.next_run_at
      /\ new.version = row.version + 1
  BY DEF Unlocked, JobRow
<1> QED
  BY <1>1, <1>2, <1>3

\* What a success leaves is queued with a next run, or settled without one.
LEMMA SuccessFacts ==
  ASSUME NEW j \in Jobs, NEW row \in JobRow
  PROVE  LET new == SuccessChanges(j, row) IN
         /\ new \in JobRow
         /\ new.version = row.version
         /\ \/ new.status = "SCHEDULED" /\ new.next_run_at = "future"
            \/ new.status = "COMPLETED" /\ new.next_run_at = "null"
BY DEF SuccessChanges, JobRow, JobStatus

\* What a failure leaves is queued with a retry, or settled without one.
LEMMA FailureFacts ==
  ASSUME NEW j \in Jobs, NEW row \in JobRow, NEW attempt
  PROVE  LET new == FailureChanges(j, row, attempt) IN
         /\ new \in JobRow
         /\ new.version = row.version
         /\ \/ new.status = "SCHEDULED" /\ new.next_run_at = "future"
            \/ new.status \in {"FAILED", "DEAD_LETTER"} /\ new.next_run_at = "null"
BY DEF FailureChanges, FailureStatus, JobRow, JobStatus

\* A retired thread is none of the active ones and keeps its job.
LEMMA RetiredFacts ==
  ASSUME NEW rec \in FutureRec
  PROVE  /\ Retired(rec) \in FutureRec
         /\ Retired(rec).pc = "done"
         /\ Retired(rec).job = rec.job
BY DEF Retired, FutureRec, ExecutionStatus, Active

\* Whatever is left of a thread that ended keeps its job; a heartbeat that
\* outlives it keeps what its WHERE clause asks for.
LEMMA GoneFacts ==
  ASSUME TypeOK, NEW f \in Futures, NEW rec \in Gone(f)
  PROVE  /\ rec \in FutureRec
         /\ rec.pc \in {"late", "done"}
         /\ rec.job = future[f].job
         /\ rec.pc = "late" =>
              /\ future[f].pc \in {"ended", "refreshed"}
              /\ rec.worker = future[f].worker
              /\ rec.version = future[f].version
<1>1. future[f] \in FutureRec
  BY DEF TypeOK
<1>2. CASE rec = Retired(future[f])
  BY <1>1, <1>2, RetiredFacts
<1>3. CASE rec # Retired(future[f])
  <2>1. /\ future[f].pc \in {"ended", "refreshed"}
        /\ rec = [future[f] EXCEPT !.pc = "late", !.attempt = 0, !.total = 0,
                                   !.outcome = "RUNNING"]
    BY <1>3 DEF Gone
  <2> QED
    BY <1>1, <2>1 DEF FutureRec, ExecutionStatus
<1> QED
  BY <1>2, <1>3

\* The steps with which a thread or its heartbeat ends.
Ends(f) ==
  LoadRefused(f) \/ FinishApplied(f) \/ FinishDiscarded(f) \/ ThreadFails(f)
    \/ LateRenewal(f)

\* They leave no more than that.
LEMMA EndsFacts ==
  ASSUME NEW f \in Futures, Ends(f)
  PROVE  \E rec \in Gone(f) : future' = [future EXCEPT ![f] = rec]
<1>1. Retired(future[f]) \in Gone(f)
  BY DEF Gone
<1> QED
  BY <1>1 DEF Ends, LoadRefused, FinishApplied, FinishDiscarded, ThreadFails,
              LateRenewal

\* A submitted future is queued for a worker and a job.
LEMMA SubmittedFacts ==
  ASSUME NEW w \in Workers \cup {None}, NEW j \in Jobs \cup {None}
  PROVE  /\ Submitted(w, j) \in FutureRec
         /\ Submitted(w, j).pc = "queued"
         /\ Submitted(w, j).worker = w
         /\ Submitted(w, j).job = j
BY DEF Submitted, FutureRec, ExecutionStatus, Active

\* The row written when an attempt ends is queued or settled, unlocked, and
\* one version later.
LEMMA OutcomeFacts ==
  ASSUME TypeOK, NEW f \in Futures, future[f].pc \in Active
  PROVE  LET j == future[f].job
             new == OutcomeRow(f)
         IN /\ new \in JobRow
            /\ new.locked_by = None
            /\ new.lease_expires_at = "null"
            /\ new.version = jobs[j].version + 1
            /\ \/ new.status = "SCHEDULED" /\ new.next_run_at = "future"
               \/ new.status \in Settled /\ new.next_run_at = "null"
<1> DEFINE j == future[f].job
<1>1. j \in Jobs /\ jobs[j] \in JobRow
  BY DEF TypeOK
<1>2. CASE future[f].outcome = "SUCCESS"
  <2>1. SuccessChanges(j, jobs[j]) \in JobRow
    BY <1>1, SuccessFacts
  <2>2. OutcomeRow(f) = Unlocked(SuccessChanges(j, jobs[j]))
    BY <1>2 DEF OutcomeRow
  <2> QED
    BY <1>1, <2>1, <2>2, SuccessFacts, UnlockedFacts DEF Settled
<1>3. CASE future[f].outcome # "SUCCESS"
  <2>1. FailureChanges(j, jobs[j], future[f].attempt) \in JobRow
    BY <1>1, FailureFacts
  <2>2. OutcomeRow(f) = Unlocked(FailureChanges(j, jobs[j], future[f].attempt))
    BY <1>3 DEF OutcomeRow
  <2> QED
    BY <1>1, <2>1, <2>2, FailureFacts, UnlockedFacts DEF Settled
<1> QED
  BY <1>2, <1>3

-----------------------------------------------------------------------------
(* Type correctness.                                                       *)

\* The initial states are typed.
LEMMA InitTyped == Init => TypeOK
<1> SUFFICES ASSUME Init PROVE TypeOK
  OBVIOUS
<1>1. jobs \in [Jobs -> JobRow]
  BY DEF Init, NewRow, JobRow, JobStatus
<1>2. \A f \in Futures : future[f] \in FutureRec /\ future[f].pc = "free"
  BY DEF Init, Submitted, FutureRec, ExecutionStatus, Active
<1>3. future \in [Futures -> FutureRec]
  BY <1>2 DEF Init
<1> QED
  BY <1>1, <1>2, <1>3 DEF Init, TypeOK, Active

\* What the steps of a thread need: its record, its worker, its job, and the
\* row of the job.
LEMMA ActiveFacts ==
  ASSUME TypeOK, NEW f \in Futures, future[f].pc \in Active
  PROVE  /\ future[f] \in FutureRec
         /\ future[f].worker \in Workers
         /\ future[f].job \in Jobs
         /\ jobs[future[f].job] \in JobRow
BY DEF TypeOK

\* So does a heartbeat that outlived its thread.
LEMMA LateFacts ==
  ASSUME TypeOK, NEW f \in Futures, future[f].pc = "late"
  PROVE  /\ future[f] \in FutureRec
         /\ future[f].worker \in Workers
         /\ future[f].job \in Jobs
         /\ jobs[future[f].job] \in JobRow
BY DEF TypeOK

\* A thread may change its other locals as long as they keep their types.
LEMMA ThreadTyped ==
  ASSUME TypeOK, NEW f \in Futures, future[f].pc \in Active, NEW rec \in FutureRec,
         rec.worker = future[f].worker, rec.job = future[f].job,
         future' = [future EXCEPT ![f] = rec],
         jobs' \in [Jobs -> JobRow], UNCHANGED <<alive, reaped>>,
         exec' \in [Futures -> ExecutionStatus \cup {"none"}]
  PROVE  TypeOK'
BY DEF TypeOK

\* A thread may end at any time without spoiling the types.
LEMMA EndTyped ==
  ASSUME TypeOK, NEW f \in Futures, Ends(f),
         jobs' \in [Jobs -> JobRow], UNCHANGED <<alive, reaped>>,
         exec' \in [Futures -> ExecutionStatus \cup {"none"}]
  PROVE  TypeOK'
<1>1. PICK rec \in Gone(f) : future' = [future EXCEPT ![f] = rec]
  BY EndsFacts
<1>2. rec \in FutureRec
  BY GoneFacts
<1>3. rec.pc \notin Active /\ (rec.pc = "late" => rec.worker \in Workers /\ rec.job \in Jobs)
  BY GoneFacts, ActiveFacts DEF Active
<1> QED
  BY <1>1, <1>2, <1>3 DEF TypeOK

\* So do the steps that only write rows of jobs.
LEMMA RowsTyped ==
  ASSUME TypeOK, jobs' \in [Jobs -> JobRow],
         UNCHANGED <<alive, future, exec, reaped>>
  PROVE  TypeOK'
BY DEF TypeOK

\* Every step keeps the types.
LEMMA NextTyped == TypeOK /\ [Next]_vars => TypeOK'
<1> SUFFICES ASSUME TypeOK, [Next]_vars PROVE TypeOK'
  OBVIOUS
<1>1. ASSUME NEW w \in Workers, NEW j \in Jobs, NEW f \in Futures, Claim(w, j, f)
      PROVE  TypeOK'
  <2>1. jobs[j] \in JobRow
    BY DEF TypeOK
  <2>2. jobs' \in [Jobs -> JobRow]
    BY <1>1, <2>1, ClaimedRowFacts DEF Claim, TypeOK
  <2>3. /\ Submitted(w, j) \in FutureRec
        /\ Submitted(w, j).worker = w /\ Submitted(w, j).job = j
    BY SubmittedFacts
  <2> QED
    BY <1>1, <2>2, <2>3 DEF Claim, TypeOK
<1>2. ASSUME NEW w \in Workers, NEW j \in Jobs, NEW f \in Futures,
             ClaimThenPollFails(w, j, f)
      PROVE  TypeOK'
  <2>1. jobs[j] \in JobRow
    BY DEF TypeOK
  <2>2. jobs' \in [Jobs -> JobRow]
    BY <1>2, <2>1, ClaimedRowFacts DEF ClaimThenPollFails, TypeOK
  <2>3. Submitted(w, j) \in FutureRec
    BY SubmittedFacts
  <2>4. /\ Retired(Submitted(w, j)) \in FutureRec
        /\ Retired(Submitted(w, j)).pc = "done"
    BY <2>3, RetiredFacts
  <2> QED
    BY <1>2, <2>2, <2>4 DEF ClaimThenPollFails, TypeOK, Active
<1>3. ASSUME NEW f \in Futures, Load(f) PROVE TypeOK'
  <2>1. future[f].pc \in Active
    BY <1>3 DEF Load, Active
  <2>2. PICK row \in JobRow : row = jobs[future[f].job]
    BY <2>1, ActiveFacts
  <2> DEFINE rec == [future[f] EXCEPT !.pc = "loaded", !.version = row.version,
                          !.attempt = row.attempt_count, !.total = row.total_runs]
  <2>3. /\ rec \in FutureRec
        /\ rec.worker = future[f].worker /\ rec.job = future[f].job
    <3>1. future[f] \in FutureRec
      BY <2>1, ActiveFacts
    <3>2. row.version \in Nat /\ row.attempt_count \in Nat /\ row.total_runs \in Nat
      BY <2>2 DEF JobRow
    <3> QED
      BY <3>1, <3>2 DEF FutureRec, Active
  <2>4. future' = [future EXCEPT ![f] = rec]
    BY <1>3, <2>2 DEF Load, TypeOK
  <2> HIDE DEF rec
  <2>5. /\ UNCHANGED <<alive, reaped>> /\ jobs' \in [Jobs -> JobRow]
        /\ exec' \in [Futures -> ExecutionStatus \cup {"none"}]
    BY <1>3 DEF Load, TypeOK
  <2> QED
    BY <2>1, <2>3, <2>4, <2>5, ThreadTyped
<1>4. ASSUME NEW f \in Futures, LoadRefused(f) PROVE TypeOK'
  BY <1>4, EndTyped DEF Ends, LoadRefused, TypeOK
<1>5. ASSUME NEW f \in Futures, Start(f) PROVE TypeOK'
  <2>1. future[f].pc \in Active
    BY <1>5 DEF Start, Active
  <2> DEFINE j == future[f].job
             row == [jobs[j] EXCEPT !.attempt_count = future[f].attempt + 1,
                                    !.total_runs = future[f].total + 1]
             rec == [future[f] EXCEPT !.pc = "running", !.attempt = 0, !.total = 0]
  <2>2. row \in JobRow
    <3>1. future[f].attempt + 1 \in Nat /\ future[f].total + 1 \in Nat
      BY DEF TypeOK, FutureRec
    <3> QED
      BY <2>1, <3>1, ActiveFacts DEF JobRow
  <2>3. /\ rec \in FutureRec
        /\ rec.worker = future[f].worker /\ rec.job = future[f].job
    BY <2>1, ActiveFacts DEF FutureRec, Active
  <2>4. jobs' = [jobs EXCEPT ![j] = row] /\ future' = [future EXCEPT ![f] = rec]
    BY <1>5, <2>1, ActiveFacts DEF Start, TypeOK
  <2>5. /\ UNCHANGED <<alive, reaped>>
        /\ exec' \in [Futures -> ExecutionStatus \cup {"none"}]
    BY <1>5 DEF Start, TypeOK, ExecutionStatus
  <2> HIDE DEF row, rec
  <2>6. jobs' \in [Jobs -> JobRow]
    BY <2>2, <2>4 DEF TypeOK
  <2> QED
    BY <2>1, <2>3, <2>4, <2>5, <2>6, ThreadTyped
<1>6. ASSUME NEW f \in Futures, Renew(f) PROVE TypeOK'
  <2>1. future[f].pc \in Active
    BY <1>6 DEF Renew, Active
  <2>2. jobs' \in [Jobs -> JobRow]
    BY <1>6, <2>1, ActiveFacts DEF Renew, TypeOK, JobRow
  <2> QED
    BY <1>6, <2>2, RowsTyped DEF Renew
<1>7. ASSUME NEW f \in Futures, TaskEnds(f) PROVE TypeOK'
  <2>1. future[f].pc \in Active
    BY <1>7 DEF TaskEnds, Active
  <2>2. PICK outcome \in {"SUCCESS", "FAILED"} :
          future' = [future EXCEPT ![f].pc = "ended", ![f].outcome = outcome]
    BY <1>7 DEF TaskEnds
  <2> DEFINE rec == [future[f] EXCEPT !.pc = "ended", !.outcome = outcome]
  <2>3. /\ rec \in FutureRec
        /\ rec.worker = future[f].worker /\ rec.job = future[f].job
    BY <2>1, ActiveFacts DEF FutureRec, Active, ExecutionStatus
  <2>4. future' = [future EXCEPT ![f] = rec]
    BY <2>2 DEF TypeOK
  <2> HIDE DEF rec
  <2> QED
    BY <1>7, <2>1, <2>3, <2>4, ActiveFacts DEF TaskEnds, TypeOK
<1>8. ASSUME NEW f \in Futures, Refresh(f) PROVE TypeOK'
  <2>1. future[f].pc \in Active
    BY <1>8 DEF Refresh, Active
  <2> DEFINE rec == [future[f] EXCEPT !.pc = "refreshed",
                       !.attempt = jobs[future[f].job].attempt_count]
  <2>2. /\ rec \in FutureRec
        /\ rec.worker = future[f].worker /\ rec.job = future[f].job
    BY <2>1, ActiveFacts DEF FutureRec, Active, JobRow
  <2>3. future' = [future EXCEPT ![f] = rec]
    BY <1>8 DEF Refresh, TypeOK
  <2> HIDE DEF rec
  <2> QED
    BY <1>8, <2>1, <2>2, <2>3, ActiveFacts DEF Refresh, TypeOK
<1>9. ASSUME NEW f \in Futures, FinishApplied(f) PROVE TypeOK'
  <2>1. future[f].pc \in Active
    BY <1>9 DEF FinishApplied, Active
  <2>2. jobs' \in [Jobs -> JobRow]
    BY <1>9, <2>1, OutcomeFacts DEF FinishApplied, TypeOK
  <2>3. exec' \in [Futures -> ExecutionStatus \cup {"none"}]
    BY <1>9 DEF FinishApplied, TypeOK, FutureRec
  <2> QED
    BY <1>9, <2>2, <2>3, EndTyped DEF Ends, FinishApplied
<1>10. ASSUME NEW f \in Futures, FinishDiscarded(f) PROVE TypeOK'
  <2>1. exec' \in [Futures -> ExecutionStatus \cup {"none"}]
    BY <1>10 DEF FinishDiscarded, TypeOK, FutureRec
  <2> QED
    BY <1>10, <2>1, EndTyped DEF Ends, FinishDiscarded, TypeOK
<1>11. ASSUME NEW f \in Futures, ThreadFails(f) PROVE TypeOK'
  BY <1>11, EndTyped DEF Ends, ThreadFails, TypeOK
<1>12. ASSUME NEW w \in Workers, NEW j \in Jobs, Reap(w, j) PROVE TypeOK'
  <2> DEFINE changes == FailureChanges(j, jobs[j], jobs[j].attempt_count)
  <2>1. changes \in JobRow
    BY FailureFacts DEF TypeOK
  <2>2. Unlocked(changes) \in JobRow
    BY <2>1, UnlockedFacts
  <2>3. jobs' = [jobs EXCEPT ![j] = Unlocked(changes)]
    BY <1>12 DEF Reap
  <2> HIDE DEF changes
  <2>4. jobs' \in [Jobs -> JobRow]
    BY <2>2, <2>3 DEF TypeOK
  <2>5. exec' \in [Futures -> ExecutionStatus \cup {"none"}]
    BY <1>12 DEF Reap, TypeOK, ExecutionStatus
  <2> QED
    BY <1>12, <2>4, <2>5 DEF Reap, TypeOK
<1>13. ASSUME NEW w \in Workers, Crash(w) PROVE TypeOK'
  <2>1. \A f \in Futures :
          /\ Retired(future[f]) \in FutureRec
          /\ Retired(future[f]).pc = "done"
    BY RetiredFacts DEF TypeOK
  <2> QED
    BY <1>13, <2>1 DEF Crash, TypeOK, Active
<1>14. ASSUME NEW j \in Jobs, BecomesDue(j) PROVE TypeOK'
  <2>1. jobs' \in [Jobs -> JobRow]
    BY <1>14, SMTT(20) DEF BecomesDue, TypeOK, JobRow
  <2> QED
    BY <1>14, <2>1, RowsTyped DEF BecomesDue
<1>15. ASSUME NEW j \in Jobs, LeaseExpires(j) PROVE TypeOK'
  <2>1. jobs' \in [Jobs -> JobRow]
    BY <1>15 DEF LeaseExpires, TypeOK, JobRow
  <2> QED
    BY <1>15, <2>1, RowsTyped DEF LeaseExpires
<1>16. ASSUME NEW f \in Futures, LateRenewal(f) PROVE TypeOK'
  <2>1. jobs[future[f].job] \in JobRow
    BY <1>16, LateFacts DEF LateRenewal
  <2>2. jobs' \in [Jobs -> JobRow]
    BY <1>16, <2>1 DEF LateRenewal, TypeOK, JobRow
  <2> QED
    BY <1>16, <2>2, EndTyped DEF Ends, LateRenewal, TypeOK
<1>17. CASE UNCHANGED vars
  BY <1>17 DEF TypeOK, vars
<1> QED
  BY <1>1, <1>2, <1>3, <1>4, <1>5, <1>6, <1>7, <1>8, <1>9, <1>10, <1>11, <1>12,
     <1>13, <1>14, <1>15, <1>16, <1>17 DEF Next, ThreadStep

\* Every reachable state is typed: rows, futures and execution rows stay in
\* their domains, and a thread that runs has a worker and a job.
THEOREM TypeCorrect == Spec => []TypeOK
BY InitTyped, NextTyped, PTL DEF Spec

-----------------------------------------------------------------------------
(* What one step can do to the row of a job: keep its status, holder and   *)
(* version; take it from the queue; or let it go with an outcome.          *)

Kept(row, new) ==
  /\ new.status = row.status
  /\ new.locked_by = row.locked_by
  /\ new.version = row.version
  /\ \/ new.next_run_at = row.next_run_at
     \/ row.next_run_at = "future" /\ new.next_run_at = "due"
  /\ \/ new.lease_expires_at = row.lease_expires_at
     \/ row.lease_expires_at = "live" /\ new.lease_expires_at = "expired"
     \/ row.status = "RUNNING" /\ new.lease_expires_at = "live"

Taken(row, new) ==
  /\ row.status = "SCHEDULED"
  /\ new.status = "RUNNING"
  /\ new.locked_by \in Workers
  /\ new.lease_expires_at = "live"
  /\ new.version = row.version + 1

LetGo(row, new) ==
  /\ row.status = "RUNNING"
  /\ \/ new.status = "SCHEDULED" /\ new.next_run_at = "future"
     \/ new.status \in Settled /\ new.next_run_at = "null"
  /\ new.locked_by = None
  /\ new.lease_expires_at = "null"
  /\ new.version = row.version + 1

RowStep(row, new) == Kept(row, new) \/ Taken(row, new) \/ LetGo(row, new)

\* A step that writes one row is judged by that row.
LEMMA OneRow ==
  ASSUME TypeOK, NEW k \in Jobs, NEW new,
         jobs' = [jobs EXCEPT ![k] = new], RowStep(jobs[k], new)
  PROVE  \A j \in Jobs : RowStep(jobs[j], jobs'[j])
<1>1. ASSUME NEW j \in Jobs, j # k PROVE RowStep(jobs[j], jobs'[j])
  BY <1>1 DEF TypeOK, RowStep, Kept
<1> QED
  BY <1>1 DEF TypeOK

\* Every step does one of the three to every row.
LEMMA RowSteps ==
  TypeOK /\ [Next]_vars => \A j \in Jobs : RowStep(jobs[j], jobs'[j])
<1> DEFINE Goal == \A j \in Jobs : RowStep(jobs[j], jobs'[j])
<1> SUFFICES ASSUME TypeOK, [Next]_vars PROVE Goal
  OBVIOUS
<1>0. ASSUME jobs' = jobs PROVE Goal
  BY <1>0 DEF RowStep, Kept
<1>1. ASSUME NEW w \in Workers, NEW k \in Jobs, NEW f \in Futures,
             Claim(w, k, f) \/ ClaimThenPollFails(w, k, f)
      PROVE  Goal
  <2>1. jobs[k] \in JobRow /\ jobs[k].status = "SCHEDULED"
    BY <1>1 DEF TypeOK, Claim, ClaimThenPollFails, Claimable
  <2>2. Taken(jobs[k], ClaimedRow(jobs[k], w))
    BY <2>1, ClaimedRowFacts DEF Taken
  <2>3. jobs' = [jobs EXCEPT ![k] = ClaimedRow(jobs[k], w)]
    BY <1>1 DEF Claim, ClaimThenPollFails
  <2> QED
    BY <2>2, <2>3, OneRow DEF RowStep
<1>2. ASSUME NEW f \in Futures, Load(f) \/ LoadRefused(f) \/ TaskEnds(f) \/ Refresh(f)
                                  \/ FinishDiscarded(f) \/ ThreadFails(f)
      PROVE  Goal
  BY <1>0, <1>2 DEF Load, LoadRefused, TaskEnds, Refresh, FinishDiscarded, ThreadFails
<1>3. ASSUME NEW f \in Futures, Start(f) PROVE Goal
  <2> DEFINE k == future[f].job
             new == [jobs[k] EXCEPT !.attempt_count = future[f].attempt + 1,
                                    !.total_runs = future[f].total + 1]
  <2>1. future[f].pc \in Active
    BY <1>3 DEF Start, Active
  <2>2. Kept(jobs[k], new)
    BY <2>1, ActiveFacts DEF Kept, JobRow
  <2>3. jobs' = [jobs EXCEPT ![k] = new]
    BY <1>3, <2>1, ActiveFacts DEF Start, TypeOK
  <2> HIDE DEF new
  <2> QED
    BY <2>1, <2>2, <2>3, OneRow, ActiveFacts DEF RowStep
<1>4. ASSUME NEW f \in Futures, Renew(f) \/ LateRenewal(f), jobs' # jobs PROVE Goal
  <2> DEFINE k == future[f].job
             new == [jobs[k] EXCEPT !.lease_expires_at = "live"]
  <2>1. k \in Jobs /\ jobs[k] \in JobRow
    BY <1>4, ActiveFacts, LateFacts DEF Renew, LateRenewal, Active
  <2>2. jobs[k].status = "RUNNING"
    BY <1>4 DEF Renew, LateRenewal, HoldsLease, RunsHere
  <2>3. Kept(jobs[k], new)
    BY <2>1, <2>2 DEF Kept, JobRow
  <2>4. jobs' = [jobs EXCEPT ![k] = new]
    BY <1>4 DEF Renew, LateRenewal
  <2> HIDE DEF new
  <2> QED
    BY <2>1, <2>3, <2>4, OneRow DEF RowStep
<1>5. ASSUME NEW f \in Futures, FinishApplied(f) PROVE Goal
  <2>1. future[f].pc \in Active
    BY <1>5 DEF FinishApplied, Active
  <2>2. jobs[future[f].job].status = "RUNNING"
    BY <1>5 DEF FinishApplied, HoldsLease, RunsHere
  <2>3. LetGo(jobs[future[f].job], OutcomeRow(f))
    BY <2>1, <2>2, OutcomeFacts DEF LetGo
  <2>4. jobs' = [jobs EXCEPT ![future[f].job] = OutcomeRow(f)]
    BY <1>5 DEF FinishApplied
  <2> QED
    BY <2>1, <2>3, <2>4, OneRow, ActiveFacts DEF RowStep
<1>6. ASSUME NEW w \in Workers, NEW k \in Jobs, Reap(w, k) PROVE Goal
  <2> DEFINE changes == FailureChanges(k, jobs[k], jobs[k].attempt_count)
  <2>1. jobs[k] \in JobRow /\ jobs[k].status = "RUNNING"
    BY <1>6 DEF TypeOK, Reap, Expired
  <2>2. /\ changes \in JobRow
        /\ changes.version = jobs[k].version
        /\ \/ changes.status = "SCHEDULED" /\ changes.next_run_at = "future"
           \/ changes.status \in Settled /\ changes.next_run_at = "null"
    BY <2>1, FailureFacts DEF Settled
  <2>3. jobs' = [jobs EXCEPT ![k] = Unlocked(changes)]
    BY <1>6 DEF Reap
  <2> HIDE DEF changes
  <2>4. LetGo(jobs[k], Unlocked(changes))
    BY <2>1, <2>2, UnlockedFacts DEF LetGo
  <2> QED
    BY <2>3, <2>4, OneRow DEF RowStep
<1>7. ASSUME NEW w \in Workers, Crash(w) PROVE Goal
  BY <1>0, <1>7 DEF Crash
<1>8. ASSUME NEW k \in Jobs, BecomesDue(k) PROVE Goal
  <2> DEFINE new == [jobs[k] EXCEPT !.next_run_at = "due"]
  <2>1. Kept(jobs[k], new)
    BY <1>8 DEF Kept, BecomesDue, TypeOK, JobRow
  <2>2. jobs' = [jobs EXCEPT ![k] = new]
    BY <1>8 DEF BecomesDue
  <2> HIDE DEF new
  <2> QED
    BY <2>1, <2>2, OneRow DEF RowStep
<1>9. ASSUME NEW k \in Jobs, LeaseExpires(k) PROVE Goal
  <2> DEFINE new == [jobs[k] EXCEPT !.lease_expires_at = "expired"]
  <2>1. Kept(jobs[k], new)
    BY <1>9 DEF Kept, LeaseExpires, TypeOK, JobRow
  <2>2. jobs' = [jobs EXCEPT ![k] = new]
    BY <1>9 DEF LeaseExpires
  <2> HIDE DEF new
  <2> QED
    BY <2>1, <2>2, OneRow DEF RowStep
<1>10. CASE UNCHANGED vars
  BY <1>0, <1>10 DEF vars
<1> HIDE DEF Goal
<1> QED
  BY <1>0, <1>1, <1>2, <1>3, <1>4, <1>5, <1>6, <1>7, <1>8, <1>9, <1>10
  DEF Next, ThreadStep

-----------------------------------------------------------------------------
(* Properties of single rows.                                              *)

\* A RUNNING job, and no other, has a holder and a lease, in every reachable
\* state: reap_expired_leases can find every job whose worker died.
THEOREM LeaseShapeHolds == Spec => []LeaseShape
<1>1. Init => LeaseShape
  BY DEF Init, NewRow, LeaseShape
<1>2. ASSUME TypeOK, LeaseShape, [Next]_vars PROVE LeaseShape'
  <2> SUFFICES ASSUME NEW j \in Jobs
               PROVE  /\ jobs'[j].status = "RUNNING" <=> jobs'[j].locked_by # None
                      /\ jobs'[j].status = "RUNNING" <=> jobs'[j].lease_expires_at # "null"
    BY DEF LeaseShape
  <2>1. RowStep(jobs[j], jobs'[j])
    BY <1>2, RowSteps
  <2>2. CASE Kept(jobs[j], jobs'[j])
    BY <1>2, <2>2 DEF Kept, LeaseShape
  <2>3. CASE Taken(jobs[j], jobs'[j])
    BY <2>3, EngineAssumption DEF Taken
  <2>4. CASE LetGo(jobs[j], jobs'[j])
    BY <2>4 DEF LetGo, Settled
  <2> QED
    BY <2>1, <2>2, <2>3, <2>4 DEF RowStep
<1> QED
  BY <1>1, <1>2, TypeCorrect, PTL DEF Spec

\* A queued job always has a time to run at and a settled one never has, in
\* every reachable state: claim_due will find the first and not the second.
THEOREM QueueShapeHolds == Spec => []QueueShape
<1>1. Init => QueueShape
  BY DEF Init, NewRow, QueueShape, Settled
<1>2. ASSUME TypeOK, QueueShape, [Next]_vars PROVE QueueShape'
  <2> SUFFICES ASSUME NEW j \in Jobs
               PROVE  /\ jobs'[j].status = "SCHEDULED" => jobs'[j].next_run_at # "null"
                      /\ jobs'[j].status \in Settled => jobs'[j].next_run_at = "null"
    BY DEF QueueShape
  <2>1. RowStep(jobs[j], jobs'[j])
    BY <1>2, RowSteps
  <2>2. CASE Kept(jobs[j], jobs'[j])
    BY <1>2, <2>2 DEF Kept, QueueShape
  <2>3. CASE Taken(jobs[j], jobs'[j])
    BY <2>3 DEF Taken, Settled
  <2>4. CASE LetGo(jobs[j], jobs'[j])
    BY <2>4 DEF LetGo, Settled
  <2> QED
    BY <2>1, <2>2, <2>3, <2>4 DEF RowStep
<1> QED
  BY <1>1, <1>2, TypeCorrect, PTL DEF Spec

\* The engine alone never makes a change of status the table ALLOWED does
\* not have.
THEOREM MovesAllowed == Spec => StatusMovesAllowed
<1>1. ASSUME TypeOK, [Next]_vars
      PROVE  [\A j \in Jobs : jobs'[j].status # jobs[j].status =>
                CanTransition(jobs[j].status, jobs'[j].status)]_vars
  <2> SUFFICES ASSUME NEW j \in Jobs, jobs'[j].status # jobs[j].status
               PROVE  CanTransition(jobs[j].status, jobs'[j].status)
    OBVIOUS
  <2>1. RowStep(jobs[j], jobs'[j])
    BY <1>1, RowSteps
  <2>2. \/ jobs[j].status = "SCHEDULED" /\ jobs'[j].status = "RUNNING"
        \/ jobs[j].status = "RUNNING" /\ jobs'[j].status \in Settled \cup {"SCHEDULED"}
    BY <2>1 DEF RowStep, Kept, Taken, LetGo
  <2> QED
    BY <2>2 DEF CanTransition, ALLOWED, Settled
<1> QED
  BY <1>1, TypeCorrect, PTL DEF Spec, StatusMovesAllowed

\* The version never goes back, and moves with every change of status or
\* holder.
THEOREM VersionIsAFence == Spec => VersionFences
<1>1. ASSUME TypeOK, [Next]_vars
      PROVE  [\A j \in Jobs :
                /\ jobs'[j].version >= jobs[j].version
                /\ jobs'[j].version = jobs[j].version =>
                     /\ jobs'[j].status = jobs[j].status
                     /\ jobs'[j].locked_by = jobs[j].locked_by]_vars
  <2> SUFFICES ASSUME NEW j \in Jobs
               PROVE  /\ jobs'[j].version >= jobs[j].version
                      /\ jobs'[j].version = jobs[j].version =>
                           /\ jobs'[j].status = jobs[j].status
                           /\ jobs'[j].locked_by = jobs[j].locked_by
    OBVIOUS
  <2>1. RowStep(jobs[j], jobs'[j])
    BY <1>1, RowSteps
  <2>2. jobs[j].version \in Nat
    BY <1>1 DEF TypeOK, JobRow
  <2>3. \/ Kept(jobs[j], jobs'[j])
        \/ jobs'[j].version = jobs[j].version + 1
    BY <2>1 DEF RowStep, Taken, LetGo
  <2> QED
    BY <2>2, <2>3 DEF Kept
<1> QED
  BY <1>1, TypeCorrect, PTL DEF Spec, VersionFences

-----------------------------------------------------------------------------
(* Threads.  A future is pending on a job while its thread runs or the     *)
(* execution row it opened is open.  Without reaping, a job has at most    *)
(* one, and is RUNNING for it: a claim needs a job that is SCHEDULED, and  *)
(* only the end of the one attempt or the reaper makes it so again.        *)

Pending(f, j) ==
  future[f].job = j /\ (future[f].pc \in Active \/ exec[f] = "RUNNING")

\* The execution row and the outcome of a thread, where it stands.
ThreadShape ==
  \A f \in Futures :
    /\ future[f].pc \in {"free", "queued", "loaded"} => exec[f] = "none"
    /\ future[f].pc \in {"ended", "refreshed"} =>
         future[f].outcome \in {"SUCCESS", "FAILED"}

OnePending ==
  \A j \in Jobs : ~reaped[j] =>
    \A f \in Futures : Pending(f, j) =>
      /\ jobs[j].status = "RUNNING"
      /\ \A g \in Futures : Pending(g, j) => g = f

\* A retired thread has no open row but the one it had.
LEMMA ShapeKept ==
  ASSUME TypeOK, ThreadShape, [Next]_vars PROVE ThreadShape'
<1> USE DEF ThreadShape
<1>1. ASSUME NEW w \in Workers, NEW j \in Jobs, NEW f \in Futures, Claim(w, j, f)
      PROVE  ThreadShape'
  <2>1. Submitted(w, j).pc = "queued"
    BY SubmittedFacts
  <2> QED
    BY <1>1, <2>1 DEF Claim, TypeOK
<1>2. ASSUME NEW w \in Workers, NEW j \in Jobs, NEW f \in Futures,
             ClaimThenPollFails(w, j, f)
      PROVE  ThreadShape'
  <2>1. Retired(Submitted(w, j)).pc = "done"
    BY SubmittedFacts, RetiredFacts
  <2> QED
    BY <1>2, <2>1 DEF ClaimThenPollFails, TypeOK
<1>3. ASSUME NEW f \in Futures, Load(f) PROVE ThreadShape'
  BY <1>3 DEF Load, TypeOK, FutureRec
<1>4. ASSUME NEW f \in Futures, Ends(f) PROVE ThreadShape'
  <2>1. PICK rec \in Gone(f) : future' = [future EXCEPT ![f] = rec]
    BY <1>4, EndsFacts
  <2>2. rec.pc \in {"late", "done"}
    BY GoneFacts
  <2>3. \A g \in Futures \ {f} : exec'[g] = exec[g]
    BY <1>4 DEF Ends, LoadRefused, FinishApplied, FinishDiscarded, ThreadFails,
                LateRenewal, TypeOK
  <2> QED
    BY <2>1, <2>2, <2>3 DEF TypeOK
<1>5. ASSUME NEW f \in Futures, Start(f) PROVE ThreadShape'
  BY <1>5 DEF Start, TypeOK, FutureRec
<1>6. ASSUME NEW f \in Futures, TaskEnds(f) PROVE ThreadShape'
  BY <1>6 DEF TaskEnds, TypeOK, FutureRec
<1>7. ASSUME NEW f \in Futures, Refresh(f) PROVE ThreadShape'
  BY <1>7 DEF Refresh, TypeOK, FutureRec
<1>9. ASSUME NEW w \in Workers, NEW j \in Jobs, Reap(w, j) PROVE ThreadShape'
  BY <1>9 DEF Reap, OpenRows, TypeOK
<1>10. ASSUME NEW w \in Workers, Crash(w) PROVE ThreadShape'
  <2>1. \A f \in Futures : Retired(future[f]).pc = "done"
    BY RetiredFacts DEF TypeOK
  <2> QED
    BY <1>10, <2>1 DEF Crash, TypeOK
<1>11. CASE UNCHANGED <<future, exec>>
  BY <1>11
<1> QED
  BY <1>1, <1>2, <1>3, <1>4, <1>5, <1>6, <1>7, <1>9, <1>10, <1>11
  DEF Next, ThreadStep, Ends, Renew, BecomesDue, LeaseExpires, vars

\* Steps after which fewer futures are pending keep the uniqueness, if no
\* job changes status.
LEMMA FewerPending ==
  ASSUME OnePending, UNCHANGED reaped,
         \A j \in Jobs : jobs'[j].status = jobs[j].status,
         \A f \in Futures, j \in Jobs : Pending(f, j)' => Pending(f, j)
  PROVE  OnePending'
BY DEF OnePending

\* The step of one thread leaves the other futures as pending as they were.
LEMMA OthersPending ==
  ASSUME TypeOK, NEW f \in Futures, NEW rec, NEW status,
         future' = [future EXCEPT ![f] = rec], exec' = [exec EXCEPT ![f] = status]
  PROVE  /\ \A g \in Futures \ {f} : \A j \in Jobs : Pending(g, j)' <=> Pending(g, j)
         /\ \A j \in Jobs :
              Pending(f, j)' <=> rec.job = j /\ (rec.pc \in Active \/ status = "RUNNING")
BY DEF TypeOK, Pending

\* A thread that ends with no open row is not pending any more.
LEMMA EndedNotPending ==
  ASSUME TypeOK, NEW f \in Futures, NEW rec, rec.pc \notin Active,
         NEW status, status # "RUNNING",
         future' = [future EXCEPT ![f] = rec], exec' = [exec EXCEPT ![f] = status]
  PROVE  \A g \in Futures, j \in Jobs : Pending(g, j)' => Pending(g, j) /\ g # f
<1>1. \A j \in Jobs : ~Pending(f, j)'
  BY DEF TypeOK, Pending
<1>2. \A g \in Futures \ {f} : \A j \in Jobs : Pending(g, j)' => Pending(g, j)
  BY OthersPending
<1> QED
  BY <1>1, <1>2

\* A thread that makes a step keeps its job; it is pending after the step
\* only if it was before.
LEMMA StepPending ==
  ASSUME TypeOK, OnePending, NEW f \in Futures, future[f].pc \in Active,
         NEW rec, rec.job = future[f].job, NEW status,
         future' = [future EXCEPT ![f] = rec], exec' = [exec EXCEPT ![f] = status],
         UNCHANGED reaped, \A j \in Jobs : jobs'[j].status = jobs[j].status
  PROVE  OnePending'
<1>1. \A g \in Futures \ {f} : \A j \in Jobs : Pending(g, j)' => Pending(g, j)
  BY OthersPending
<1>2. \A j \in Jobs : Pending(f, j)' => Pending(f, j)
  BY OthersPending DEF Pending
<1> QED
  BY <1>1, <1>2, FewerPending

\* Every step keeps a job with at most one pending future, for which it is
\* RUNNING.
LEMMA PendingKept ==
  ASSUME TypeOK, ThreadShape, OnePending, [Next]_vars PROVE OnePending'
<1>1. ASSUME NEW w \in Workers, NEW k \in Jobs, NEW f \in Futures, Claim(w, k, f)
      PROVE  OnePending'
  <2>1. /\ future' = [future EXCEPT ![f] = Submitted(w, k)]
        /\ exec' = [exec EXCEPT ![f] = "none"]
        /\ reaped' = reaped
        /\ jobs' = [jobs EXCEPT ![k] = ClaimedRow(jobs[k], w)]
    BY <1>1 DEF Claim, ThreadShape, TypeOK
  <2>2. jobs'[k].status = "RUNNING" /\ jobs[k].status = "SCHEDULED"
    BY <1>1, <2>1, ClaimedRowFacts DEF Claim, Claimable, TypeOK
  <2>3. Submitted(w, k).job = k
    BY SubmittedFacts
  <2>4. \A j \in Jobs : Pending(f, j)' => j = k
    BY <2>1, <2>3, OthersPending
  <2>5. \A g \in Futures \ {f}, j \in Jobs : Pending(g, j)' => Pending(g, j)
    BY <2>1, OthersPending
  <2>6. ASSUME NEW j \in Jobs, ~reaped'[j], NEW g \in Futures, Pending(g, j)'
        PROVE  /\ jobs'[j].status = "RUNNING"
               /\ \A h \in Futures : Pending(h, j)' => h = g
    <3>1. CASE j = k
      <4>1. \A h \in Futures : ~Pending(h, k)
        BY <2>1, <2>2, <2>6, <3>1 DEF OnePending
      <4> QED
        BY <2>2, <2>5, <2>6, <3>1, <4>1
    <3>2. CASE j # k
      <4>1. jobs'[j] = jobs[j]
        BY <2>1, <3>2 DEF TypeOK
      <4> QED
        BY <2>1, <2>4, <2>5, <2>6, <3>2, <4>1 DEF OnePending
    <3> QED
      BY <3>1, <3>2
  <2> QED
    BY <2>6 DEF OnePending
<1>2. ASSUME NEW w \in Workers, NEW k \in Jobs, NEW f \in Futures,
             ClaimThenPollFails(w, k, f)
      PROVE  OnePending'
  <2>1. /\ future' = [future EXCEPT ![f] = Retired(Submitted(w, k))]
        /\ exec' = [exec EXCEPT ![f] = "none"]
        /\ reaped' = reaped
        /\ jobs' = [jobs EXCEPT ![k] = ClaimedRow(jobs[k], w)]
    BY <1>2 DEF ClaimThenPollFails, ThreadShape, TypeOK
  <2>2. jobs[k].status = "SCHEDULED"
    BY <1>2 DEF ClaimThenPollFails, Claimable
  <2>3. Retired(Submitted(w, k)).pc \notin Active
    BY SubmittedFacts, RetiredFacts DEF Active
  <2>5. \A g \in Futures, j \in Jobs : Pending(g, j)' => Pending(g, j)
    BY <2>1, <2>3, EndedNotPending
  <2>6. ASSUME NEW j \in Jobs, ~reaped'[j], NEW g \in Futures, Pending(g, j)'
        PROVE  /\ jobs'[j].status = "RUNNING"
               /\ \A h \in Futures : Pending(h, j)' => h = g
    <3>1. j # k
      BY <2>1, <2>2, <2>5, <2>6 DEF OnePending
    <3>2. jobs'[j] = jobs[j]
      BY <2>1, <3>1 DEF TypeOK
    <3> QED
      BY <2>1, <2>5, <2>6, <3>2 DEF OnePending
  <2> QED
    BY <2>6 DEF OnePending
<1>3. ASSUME NEW f \in Futures, Load(f) PROVE OnePending'
  <2> DEFINE row == jobs[future[f].job]
             rec == [future[f] EXCEPT !.pc = "loaded", !.version = row.version,
                          !.attempt = row.attempt_count, !.total = row.total_runs]
  <2>1. future' = [future EXCEPT ![f] = rec] /\ rec.job = future[f].job
    BY <1>3 DEF Load, TypeOK, FutureRec
  <2>2. exec' = [exec EXCEPT ![f] = exec[f]] /\ future[f].pc \in Active
    BY <1>3 DEF Load, TypeOK, Active
  <2>3. jobs' = jobs /\ reaped' = reaped
    BY <1>3 DEF Load
  <2> HIDE DEF rec
  <2> QED
    BY <2>1, <2>2, <2>3, StepPending
<1>4. ASSUME NEW f \in Futures, LoadRefused(f) \/ ThreadFails(f) PROVE OnePending'
  <2>1. /\ exec' = [exec EXCEPT ![f] = exec[f]]
        /\ future[f].pc \in Active
        /\ jobs' = jobs /\ reaped' = reaped
    BY <1>4 DEF LoadRefused, ThreadFails, TypeOK, Active
  <2>2. PICK rec \in Gone(f) : future' = [future EXCEPT ![f] = rec]
    BY <1>4, EndsFacts DEF Ends
  <2>3. rec.job = future[f].job
    BY GoneFacts
  <2> QED
    BY <2>1, <2>2, <2>3, StepPending
<1>5. ASSUME NEW f \in Futures, Start(f) PROVE OnePending'
  <2> DEFINE rec == [future[f] EXCEPT !.pc = "running", !.attempt = 0, !.total = 0]
  <2>1. /\ future' = [future EXCEPT ![f] = rec] /\ rec.job = future[f].job
        /\ exec' = [exec EXCEPT ![f] = "RUNNING"]
        /\ future[f].pc \in Active
        /\ reaped' = reaped
    BY <1>5 DEF Start, TypeOK, FutureRec, Active
  <2>2. \A j \in Jobs : jobs'[j].status = jobs[j].status
    BY <1>5 DEF Start, TypeOK, JobRow
  <2> HIDE DEF rec
  <2> QED
    BY <2>1, <2>2, StepPending
<1>6. ASSUME NEW f \in Futures, TaskEnds(f) PROVE OnePending'
  <2>1. PICK outcome \in {"SUCCESS", "FAILED"} :
          future' = [future EXCEPT ![f].pc = "ended", ![f].outcome = outcome]
    BY <1>6 DEF TaskEnds
  <2> DEFINE rec == [future[f] EXCEPT !.pc = "ended", !.outcome = outcome]
  <2>2. future' = [future EXCEPT ![f] = rec] /\ rec.job = future[f].job
    BY <2>1 DEF TypeOK, FutureRec
  <2>3. /\ exec' = [exec EXCEPT ![f] = exec[f]] /\ future[f].pc \in Active
        /\ jobs' = jobs /\ reaped' = reaped
    BY <1>6 DEF TaskEnds, TypeOK, Active
  <2> HIDE DEF rec
  <2> QED
    BY <2>2, <2>3, StepPending
<1>7. ASSUME NEW f \in Futures, Refresh(f) PROVE OnePending'
  <2> DEFINE rec == [future[f] EXCEPT !.pc = "refreshed",
                       !.attempt = jobs[future[f].job].attempt_count]
  <2>1. future' = [future EXCEPT ![f] = rec] /\ rec.job = future[f].job
    BY <1>7 DEF Refresh, TypeOK, FutureRec
  <2>2. /\ exec' = [exec EXCEPT ![f] = exec[f]] /\ future[f].pc \in Active
        /\ jobs' = jobs /\ reaped' = reaped
    BY <1>7 DEF Refresh, TypeOK, Active
  <2> HIDE DEF rec
  <2> QED
    BY <2>1, <2>2, StepPending
<1>8. ASSUME NEW f \in Futures, FinishApplied(f) PROVE OnePending'
  <2> DEFINE k == future[f].job
  <2>1. /\ exec' = [exec EXCEPT ![f] = future[f].outcome]
        /\ jobs' = [jobs EXCEPT ![k] = OutcomeRow(f)]
        /\ future[f].pc \in Active /\ future[f].outcome # "RUNNING"
        /\ reaped' = reaped
    BY <1>8 DEF FinishApplied, ThreadShape, Active
  <2>2. PICK rec \in Gone(f) : future' = [future EXCEPT ![f] = rec]
    BY <1>8, EndsFacts DEF Ends
  <2>3. \A g \in Futures, j \in Jobs : Pending(g, j)' => Pending(g, j) /\ g # f
    <3>1. rec.pc \notin Active /\ future[f].outcome # "RUNNING"
      BY <2>1, GoneFacts DEF Active
    <3> QED
      BY <2>1, <2>2, <3>1, EndedNotPending
  <2>4. Pending(f, k) /\ k \in Jobs
    BY <2>1, ActiveFacts DEF Pending
  <2>5. ASSUME NEW j \in Jobs, ~reaped'[j], NEW g \in Futures, Pending(g, j)'
        PROVE  /\ jobs'[j].status = "RUNNING"
               /\ \A h \in Futures : Pending(h, j)' => h = g
    <3>1. j # k
      BY <2>1, <2>3, <2>4, <2>5 DEF OnePending
    <3>2. jobs'[j] = jobs[j]
      BY <2>1, <3>1 DEF TypeOK
    <3> QED
      BY <2>1, <2>3, <2>5, <3>2 DEF OnePending
  <2> QED
    BY <2>5 DEF OnePending
<1>9. ASSUME NEW f \in Futures, FinishDiscarded(f) PROVE OnePending'
  <2>1. /\ exec' = [exec EXCEPT ![f] = future[f].outcome]
        /\ future[f].pc \in Active
        /\ jobs' = jobs /\ reaped' = reaped
    BY <1>9 DEF FinishDiscarded, Active
  <2>2. PICK rec \in Gone(f) : future' = [future EXCEPT ![f] = rec]
    BY <1>9, EndsFacts DEF Ends
  <2>3. rec.job = future[f].job
    BY GoneFacts
  <2> QED
    BY <2>1, <2>2, <2>3, StepPending
<1>10. ASSUME NEW w \in Workers, NEW k \in Jobs, Reap(w, k) PROVE OnePending'
  <2>1. /\ future' = future
        /\ \A g \in Futures : exec'[g] = "RUNNING" => exec[g] = "RUNNING"
        /\ \A j \in Jobs : ~reaped'[j] => ~reaped[j] /\ jobs'[j] = jobs[j]
    BY <1>10 DEF Reap, TypeOK
  <2>2. \A g \in Futures, j \in Jobs : Pending(g, j)' => Pending(g, j)
    BY <2>1 DEF Pending
  <2> QED
    BY <2>1, <2>2 DEF OnePending
<1>11. ASSUME NEW w \in Workers, Crash(w) PROVE OnePending'
  <2>1. \A g \in Futures : /\ Retired(future[g]).pc = "done"
                           /\ Retired(future[g]).job = future[g].job
    BY RetiredFacts DEF TypeOK
  <2>2. \A g \in Futures, j \in Jobs : Pending(g, j)' => Pending(g, j)
    BY <1>11, <2>1 DEF Crash, Pending, Active
  <2> QED
    BY <1>11, <2>2, FewerPending DEF Crash
<1>12. ASSUME UNCHANGED <<future, exec, reaped>>,
              \A j \in Jobs : jobs'[j].status = jobs[j].status
       PROVE  OnePending'
  BY <1>12, FewerPending DEF Pending
<1>13. ASSUME NEW f \in Futures, Renew(f) PROVE OnePending'
  BY <1>12, <1>13 DEF Renew, TypeOK, JobRow
<1>14. ASSUME NEW j \in Jobs, BecomesDue(j) \/ LeaseExpires(j) PROVE OnePending'
  BY <1>12, <1>14 DEF BecomesDue, LeaseExpires, TypeOK, JobRow
<1>15. ASSUME NEW f \in Futures, LateRenewal(f) PROVE OnePending'
  <2>1. /\ future' = [future EXCEPT ![f] = Retired(future[f])]
        /\ exec' = [exec EXCEPT ![f] = exec[f]] /\ reaped' = reaped
        /\ \A j \in Jobs : jobs'[j].status = jobs[j].status
    BY <1>15 DEF LateRenewal, TypeOK, JobRow
  <2>2. Retired(future[f]).pc = "done" /\ Retired(future[f]).job = future[f].job
    BY RetiredFacts DEF TypeOK
  <2>3. /\ \A g \in Futures \ {f} : \A j \in Jobs : Pending(g, j)' => Pending(g, j)
        /\ \A j \in Jobs : Pending(f, j)' => Pending(f, j)
    BY <2>1, <2>2, OthersPending DEF Active, Pending
  <2> QED
    BY <2>1, <2>3, FewerPending
<1>16. CASE UNCHANGED vars
  BY <1>12, <1>16 DEF vars
<1> QED
  BY <1>1, <1>2, <1>3, <1>4, <1>5, <1>6, <1>7, <1>8, <1>9, <1>10, <1>11,
     <1>13, <1>14, <1>15, <1>16 DEF Next, ThreadStep

\* The inductive invariant behind the two theorems below.
LEMMA ThreadsInvariant == Spec => [](TypeOK /\ ThreadShape /\ OnePending)
<1>1. Init => ThreadShape /\ OnePending
  BY DEF Init, Submitted, ThreadShape, OnePending, Pending, Active
<1>2. TypeOK /\ ThreadShape /\ OnePending /\ [Next]_vars => (ThreadShape /\ OnePending)'
  BY ShapeKept, PendingKept
<1> QED
  BY <1>1, <1>2, TypeCorrect, PTL DEF Spec

\* No two threads, of one worker or of several, execute the task of a job
\* that no reaper has taken back: a duplicate needs a lease that expired.
THEOREM NoDuplicates == Spec => []DuplicateNeedsExpiry
<1>1. OnePending => DuplicateNeedsExpiry
  BY DEF OnePending, Pending, DuplicateNeedsExpiry, Executing, Active
<1> QED
  BY <1>1, ThreadsInvariant, PTL

\* As long as no reaper has taken the job back, an open execution row means
\* that the job is RUNNING, hence that a reaper will find it if need be.
THEOREM OpenRowsReachable == Spec => []OpenRowReachable
<1>1. OnePending => OpenRowReachable
  BY DEF OnePending, Pending, OpenRowReachable, OpenRows
<1> QED
  BY <1>1, ThreadsInvariant, PTL

-----------------------------------------------------------------------------
(* The fence.  The version a thread read is never ahead of the row, and    *)
(* whoever takes the job away moves the version past it; so a thread for   *)
(* which the WHERE clause of _commit_outcome still matches has an          *)
(* execution row that nobody closed.                                       *)

\* What a version is compared with.
LEMMA ReadFacts ==
  ASSUME TypeOK, NEW f \in Futures, future[f].pc \in HasRead
  PROVE  /\ future[f].job \in Jobs
         /\ jobs[future[f].job].version \in Nat /\ future[f].version \in Nat
<1>1. future[f].pc \in Active \/ future[f].pc = "late"
  BY DEF HasRead, Active
<1> QED
  BY <1>1, ActiveFacts, LateFacts DEF JobRow, FutureRec


Behind(f) ==
  /\ future[f].pc \in HasRead =>
       future[f].version <= jobs[future[f].job].version
  /\ future[f].pc \in HasRead \ {"loaded", "late"} /\ HoldsLease(f) =>
       exec[f] = "RUNNING"

Fence == \A f \in Futures : Behind(f)

\* A future that a step leaves alone stays behind the version of its job.
LEMMA BehindKept ==
  ASSUME TypeOK, [Next]_vars, NEW f \in Futures, Behind(f),
         future'[f] = future[f], exec'[f] = exec[f]
  PROVE  Behind(f)'
<1> SUFFICES ASSUME future[f].pc \in HasRead PROVE Behind(f)'
  BY DEF Behind
<1> DEFINE j == future[f].job
<1>1. j \in Jobs /\ jobs[j].version \in Nat /\ future[f].version \in Nat
  BY ReadFacts
<1>2. RowStep(jobs[j], jobs'[j])
  BY <1>1, RowSteps
<1>3. CASE Kept(jobs[j], jobs'[j])
  BY <1>3 DEF Kept, Behind, HoldsLease, RunsHere
<1>4. CASE jobs'[j].version = jobs[j].version + 1
  <2>1. future[f].version < jobs'[j].version
    BY <1>1, <1>4 DEF Behind
  <2>2. ~HoldsLease(f)'
    BY <1>1, <1>4, <2>1 DEF HoldsLease
  <2>3. jobs'[j].version \in Nat
    BY <1>1, <1>4
  <2> QED
    BY <1>1, <2>1, <2>2, <2>3 DEF Behind
<1> QED
  BY <1>2, <1>3, <1>4 DEF RowStep, Taken, LetGo

\* So does one that is queued or has ended.
LEMMA BehindOtherwise ==
  ASSUME NEW f \in Futures, future'[f].pc \in {"free", "queued", "done"}
  PROVE  Behind(f)'
BY DEF Behind, HasRead

\* The version of a row does not go back.
LEMMA VersionGrows ==
  ASSUME TypeOK, [Next]_vars, NEW f \in Futures, future[f].pc \in HasRead
  PROVE  /\ jobs'[future[f].job].version \in Nat
         /\ jobs[future[f].job].version <= jobs'[future[f].job].version
BY ReadFacts, RowSteps DEF RowStep, Kept, Taken, LetGo

\* A heartbeat that outlives its thread stays behind.
LEMMA BehindLate ==
  ASSUME TypeOK, [Next]_vars, NEW f \in Futures, Behind(f),
         future[f].pc \in HasRead, future'[f].pc = "late",
         future'[f].job = future[f].job, future'[f].version = future[f].version
  PROVE  Behind(f)'
BY ReadFacts, VersionGrows DEF Behind

\* Every step keeps the fence.
LEMMA FenceKept ==
  ASSUME TypeOK, Fence, [Next]_vars PROVE Fence'
<1> SUFFICES ASSUME NEW f \in Futures PROVE Behind(f)'
  BY DEF Fence
<1>a. Behind(f)
  BY DEF Fence
<1>1. CASE future'[f] = future[f] /\ exec'[f] = exec[f]
  BY <1>a, <1>1, BehindKept
<1>2. ASSUME NEW w \in Workers, NEW j \in Jobs, NEW g \in Futures,
             Claim(w, j, g) \/ ClaimThenPollFails(w, j, g)
      PROVE  Behind(f)'
  <2>1. CASE g = f
    <3>1. /\ Submitted(w, j).pc = "queued"
          /\ Retired(Submitted(w, j)).pc = "done"
      BY SubmittedFacts, RetiredFacts
    <3>2. future'[f].pc \in {"queued", "done"}
      BY <1>2, <2>1, <3>1 DEF Claim, ClaimThenPollFails, TypeOK
    <3> QED
      BY <3>2, BehindOtherwise
  <2>2. CASE g # f
    BY <1>1, <1>2, <2>2 DEF Claim, ClaimThenPollFails, TypeOK
  <2> QED
    BY <2>1, <2>2
<1>3. ASSUME NEW g \in Futures, ThreadStep(g) \/ ThreadFails(g), g # f PROVE Behind(f)'
  <2>1. future'[f] = future[f] /\ exec'[f] = exec[f]
    BY <1>3 DEF ThreadStep, Load, LoadRefused, Start, TaskEnds, Refresh,
                FinishApplied, FinishDiscarded, LateRenewal, ThreadFails, TypeOK
  <2> QED
    BY <1>1, <2>1
<1>4. ASSUME Load(f) PROVE Behind(f)'
  <2>1. /\ future[f].job \in Jobs
        /\ jobs[future[f].job].version \in Nat
    BY <1>4, ActiveFacts DEF Load, Active, JobRow
  <2>2. /\ future'[f].pc = "loaded" /\ future'[f].job = future[f].job
        /\ future'[f].version = jobs[future[f].job].version
        /\ jobs' = jobs
    BY <1>4 DEF Load, TypeOK, FutureRec
  <2> QED
    BY <2>1, <2>2 DEF Behind, HasRead
<1>5. ASSUME Start(f) PROVE Behind(f)'
  <2>1. future[f].pc \in Active /\ future[f].pc = "loaded"
    BY <1>5 DEF Start, Active
  <2>2. /\ future'[f].job = future[f].job
        /\ future'[f].version = future[f].version
        /\ exec'[f] = "RUNNING"
    BY <1>5 DEF Start, TypeOK, FutureRec
  <2>3. jobs'[future[f].job].version = jobs[future[f].job].version
    BY <1>5, <2>1, ActiveFacts DEF Start, TypeOK, JobRow
  <2> QED
    BY <1>a, <2>1, <2>2, <2>3 DEF Behind, HasRead
<1>6. ASSUME TaskEnds(f) \/ Refresh(f) PROVE Behind(f)'
  <2>1. future[f].pc \in Active \ {"queued", "loaded"}
    BY <1>6 DEF TaskEnds, Refresh, Active
  <2>2. /\ future'[f].job = future[f].job
        /\ future'[f].worker = future[f].worker
        /\ future'[f].version = future[f].version
        /\ exec' = exec /\ jobs' = jobs
    BY <1>6 DEF TaskEnds, Refresh, TypeOK, FutureRec
  <2> QED
    BY <1>a, <2>1, <2>2 DEF Behind, HasRead, Active, HoldsLease, RunsHere
<1>7. ASSUME Ends(f) PROVE Behind(f)'
  <2>1. future'[f] \in Gone(f)
    BY <1>7, EndsFacts DEF TypeOK
  <2>2. CASE future'[f].pc = "late"
    <3>1. /\ future[f].pc \in HasRead
          /\ future'[f].job = future[f].job /\ future'[f].version = future[f].version
      BY <2>1, <2>2, GoneFacts DEF HasRead
    <3> QED
      BY <1>a, <2>2, <3>1, BehindLate
  <2>3. CASE future'[f].pc = "done"
    BY <2>3, BehindOtherwise
  <2> QED
    BY <2>1, <2>2, <2>3, GoneFacts
<1>8. ASSUME NEW w \in Workers, NEW k \in Jobs, Reap(w, k) PROVE Behind(f)'
  <2>1. CASE exec'[f] = exec[f]
    BY <1>1, <1>8, <2>1 DEF Reap
  <2>2. CASE exec'[f] # exec[f] /\ future[f].pc \in HasRead \ {"late"}
    <3>1. /\ future[f].job = k /\ future' = future
          /\ future[f] \in FutureRec /\ future[f].version \in Nat
      BY <1>8, <2>2 DEF Reap, OpenRows, TypeOK, FutureRec
    <3>2. jobs[k].version \in Nat
      BY DEF TypeOK, JobRow
    <3>3. jobs'[k].version = jobs[k].version + 1
      <4>1. jobs'[k].status # "RUNNING" /\ jobs[k].status = "RUNNING"
        <5> DEFINE changes == FailureChanges(k, jobs[k], jobs[k].attempt_count)
        <5>1. changes \in JobRow /\ changes.status # "RUNNING"
          BY FailureFacts DEF TypeOK
        <5>2. jobs'[k] = Unlocked(changes) /\ jobs[k].status = "RUNNING"
          BY <1>8 DEF Reap, Expired, TypeOK
        <5> HIDE DEF changes
        <5> QED
          BY <5>1, <5>2, UnlockedFacts
      <4> QED
        BY <4>1, RowSteps DEF RowStep, Kept, Taken, LetGo
    <3>4. future[f].version < jobs'[k].version /\ jobs'[k].version \in Nat
      BY <1>a, <2>2, <3>1, <3>2, <3>3 DEF Behind
    <3>5. ~HoldsLease(f)'
      BY <3>1, <3>4 DEF HoldsLease
    <3> QED
      BY <3>1, <3>4, <3>5 DEF Behind
  <2>3. CASE future[f].pc \notin HasRead
    BY <1>8, <2>3 DEF Reap, Behind
  <2>4. CASE future[f].pc = "late"
    <3>1. future' = future
      BY <1>8 DEF Reap
    <3> QED
      BY <1>a, <2>4, <3>1, BehindLate DEF HasRead
  <2> QED
    BY <2>1, <2>2, <2>3, <2>4
<1>9. ASSUME NEW w \in Workers, Crash(w) PROVE Behind(f)'
  <2>1. CASE future[f].worker = w
    <3>1. future'[f].pc = "done"
      BY <1>9, <2>1, RetiredFacts DEF Crash, TypeOK
    <3> QED
      BY <3>1, BehindOtherwise
  <2>2. CASE future[f].worker # w
    BY <1>1, <1>9, <2>2 DEF Crash, TypeOK
  <2> QED
    BY <2>1, <2>2
<1>10. CASE UNCHANGED <<future, exec>>
  BY <1>1, <1>10
<1> QED
  BY <1>2, <1>3, <1>4, <1>5, <1>6, <1>7, <1>8, <1>9, <1>10
  DEF Next, ThreadStep, Ends, Renew, BecomesDue, LeaseExpires, vars

\* The fence holds in every reachable state.
LEMMA FenceInvariant == Spec => [](TypeOK /\ Fence)
<1>1. Init => Fence
  BY DEF Init, Submitted, Fence, Behind, HasRead
<1>2. TypeOK /\ Fence /\ [Next]_vars => Fence'
  BY FenceKept
<1> QED
  BY <1>1, <1>2, TypeCorrect, PTL DEF Spec

\* A thread whose execution row was closed by a reaper ends without touching
\* the job: the result of a stale worker is discarded.
THEOREM LateResultIsDiscarded == Spec => LateResultDiscarded
<1>1. ASSUME TypeOK, Fence, [Next]_vars
      PROVE  [\A f \in Futures :
                future[f].pc = "refreshed" /\ future'[f].pc \in {"late", "done"}
                  /\ exec[f] # "RUNNING" => jobs' = jobs]_vars
  <2> SUFFICES ASSUME NEW f \in Futures, future[f].pc = "refreshed",
                      future'[f].pc \in {"late", "done"}, exec[f] # "RUNNING"
               PROVE  jobs' = jobs
    OBVIOUS
  <2>1. ~HoldsLease(f)
    BY <1>1 DEF Fence, Behind, HasRead
  <2>2. ASSUME NEW w \in Workers, NEW j \in Jobs, NEW g \in Futures,
               Claim(w, j, g) \/ ClaimThenPollFails(w, j, g)
        PROVE  FALSE
    <3>1. g # f
      BY <2>2 DEF Claim, ClaimThenPollFails
    <3> QED
      BY <1>1, <2>2, <3>1 DEF Claim, ClaimThenPollFails, TypeOK
  <2>3. ASSUME NEW g \in Futures, Start(g) \/ FinishApplied(g) \/ LateRenewal(g)
        PROVE  FALSE
    <3>1. g # f
      BY <2>1, <2>3 DEF Start, FinishApplied, LateRenewal
    <3> QED
      BY <1>1, <2>3, <3>1 DEF Start, FinishApplied, LateRenewal, TypeOK
  <2>4. ASSUME NEW g \in Futures,
               Load(g) \/ LoadRefused(g) \/ TaskEnds(g) \/ Refresh(g)
                 \/ FinishDiscarded(g) \/ ThreadFails(g)
        PROVE  jobs' = jobs
    BY <2>4 DEF Load, LoadRefused, TaskEnds, Refresh, FinishDiscarded, ThreadFails
  <2>5. ASSUME NEW w \in Workers, Crash(w) PROVE jobs' = jobs
    BY <2>5 DEF Crash
  <2>6. future' # future
    OBVIOUS
  <2> QED
    BY <1>1, <2>2, <2>3, <2>4, <2>5, <2>6
    DEF Next, ThreadStep, Renew, Reap, BecomesDue, LeaseExpires, vars
<1> QED
  BY <1>1, FenceInvariant, PTL DEF Spec, LateResultDiscarded

\* A thread that has read its job keeps what it read until it and its
\* heartbeat have ended.
LEMMA ReadIsKept ==
  ASSUME TypeOK, [Next]_vars, NEW f \in Futures,
         future[f].pc \in HasRead, future'[f].pc \in HasRead
  PROVE  /\ future'[f].worker = future[f].worker
         /\ future'[f].job = future[f].job
         /\ future'[f].version = future[f].version
<1>1. CASE future'[f] = future[f]
  BY <1>1
<1>2. ASSUME Start(f) \/ TaskEnds(f) \/ Refresh(f)
      PROVE  /\ future'[f].worker = future[f].worker
             /\ future'[f].job = future[f].job
             /\ future'[f].version = future[f].version
  BY <1>2 DEF Start, TaskEnds, Refresh, TypeOK, FutureRec
<1>3. ASSUME Ends(f)
      PROVE  /\ future'[f].worker = future[f].worker
             /\ future'[f].job = future[f].job
             /\ future'[f].version = future[f].version
  <2>1. future'[f] \in Gone(f)
    BY <1>3, EndsFacts DEF TypeOK
  <2> QED
    BY <2>1, GoneFacts DEF HasRead
<1>4. ASSUME NEW g \in Futures, ThreadStep(g) \/ ThreadFails(g), g # f
      PROVE  future'[f] = future[f]
  BY <1>4 DEF ThreadStep, Load, LoadRefused, Start, TaskEnds, Refresh,
              FinishApplied, FinishDiscarded, LateRenewal, ThreadFails, TypeOK
<1>5. ASSUME NEW w \in Workers, NEW j \in Jobs, NEW g \in Futures,
             Claim(w, j, g) \/ ClaimThenPollFails(w, j, g)
      PROVE  future'[f] = future[f]
  BY <1>5 DEF Claim, ClaimThenPollFails, TypeOK, HasRead
<1>6. ASSUME NEW w \in Workers, Crash(w) PROVE future'[f] = future[f]
  <2>1. future[f].worker # w
    <3> SUFFICES ASSUME future[f].worker = w PROVE FALSE
      OBVIOUS
    <3>1. future'[f].pc = "done"
      BY <1>6, RetiredFacts DEF Crash, TypeOK
    <3> QED
      BY <3>1 DEF HasRead
  <2> QED
    BY <1>6, <2>1 DEF Crash, TypeOK
<1>7. ~Load(f)
  BY DEF Load, HasRead
<1>8. CASE future' = future
  BY <1>8
<1> QED
  BY <1>1, <1>2, <1>3, <1>4, <1>5, <1>6, <1>7, <1>8
  DEF Next, ThreadStep, Ends, Renew, Reap, BecomesDue, LeaseExpires, vars

\* A thread that has lost its lease never gets it back: the version it read
\* is behind the row for good, or the row has left the holder and status the
\* version stood for, which takes another version.
THEOREM LostLeaseStaysLost == Spec => LostStaysLost
<1>1. ASSUME TypeOK, Fence, [Next]_vars
      PROVE  [\A f \in Futures :
                future[f].pc \in HasRead /\ ~HoldsLease(f)
                  /\ future'[f].pc \in HasRead => ~HoldsLease(f)']_vars
  <2> SUFFICES ASSUME NEW f \in Futures, future[f].pc \in HasRead,
                      future'[f].pc \in HasRead, HoldsLease(f)'
               PROVE  HoldsLease(f)
    OBVIOUS
  <2> DEFINE j == future[f].job
  <2>2. j \in Jobs /\ jobs[j].version \in Nat /\ future[f].version \in Nat
    BY <1>1, ReadFacts
  <2>3. future[f].version <= jobs[j].version
    BY <1>1 DEF Fence, Behind
  <2>4. /\ future'[f].worker = future[f].worker
        /\ future'[f].job = j
        /\ future'[f].version = future[f].version
    BY <1>1, ReadIsKept
  <2>5. /\ jobs'[j].version = future[f].version
        /\ jobs'[j].status = "RUNNING"
        /\ jobs'[j].locked_by = future[f].worker
    BY <2>4 DEF HoldsLease, RunsHere
  <2>6. RowStep(jobs[j], jobs'[j])
    BY <1>1, <2>2, RowSteps
  <2>7. jobs'[j].version # jobs[j].version + 1
    BY <2>2, <2>3, <2>5
  <2>8. Kept(jobs[j], jobs'[j])
    BY <2>6, <2>7 DEF RowStep, Taken, LetGo
  <2> QED
    BY <2>5, <2>8 DEF Kept, HoldsLease, RunsHere
<1> QED
  BY <1>1, FenceInvariant, PTL DEF Spec, LostStaysLost
=============================================================================
