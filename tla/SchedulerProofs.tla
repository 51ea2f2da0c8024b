--------------------------- MODULE SchedulerProofs ---------------------------
(***************************************************************************)
(* What holds of the engine and any number of lifecycle requests, whatever *)
(* stale columns they write over the rows.                                 *)
(***************************************************************************)
EXTENDS Scheduler, EngineProofs

\* The statuses a request asks for.
Asked == {"PAUSED", "SCHEDULED", "FAILED"}

\* What a session has to write: always a status, and columns of their types.
Changes(d) ==
  /\ DOMAIN d \subseteq Columns
  /\ "status" \in DOMAIN d /\ d["status"] \in Asked
  /\ "next_run_at" \in DOMAIN d => d["next_run_at"] \in {"null", "future", "due"}
  /\ "attempt_count" \in DOMAIN d => d["attempt_count"] \in Nat
  /\ "locked_by" \in DOMAIN d => d["locked_by"] \in Workers \cup {None}
  /\ "lease_expires_at" \in DOMAIN d =>
       d["lease_expires_at"] \in {"null", "live", "expired"}
  /\ "version" \in DOMAIN d => d["version"] \in Nat

ReqShape ==
  /\ DOMAIN req = Requests
  /\ \A r \in Requests :
       \/ req[r] \in [pc : {"free", "done"}]
       \/ /\ req[r].pc = "read" /\ req[r].job \in Jobs
          /\ Changes(req[r].dirty)

-----------------------------------------------------------------------------
\* The merge of what a session has to write with a row is a row.
LEMMA MergeFacts ==
  ASSUME NEW d, Changes(d), NEW row \in JobRow
  PROVE  Written(d, row) \in JobRow /\ (Written(d, row)).status \in Asked
<1> DEFINE new == Written(d, row)
           names == {"status", "next_run_at", "attempt_count", "total_runs",
                     "locked_by", "lease_expires_at", "version"}
<1>1. new = [c \in names |-> IF c \in DOMAIN d THEN d[c] ELSE row[c]]
  <2>1. DOMAIN row = names
    BY DEF JobRow
  <2> QED
    BY <2>1 DEF Written
<1>2. new = [status           |-> new.status,
             next_run_at      |-> new.next_run_at,
             attempt_count    |-> new.attempt_count,
             total_runs       |-> new.total_runs,
             locked_by        |-> new.locked_by,
             lease_expires_at |-> new.lease_expires_at,
             version          |-> new.version]
  BY <1>1
<1>3. /\ new.status \in Asked
      /\ new.next_run_at \in {"null", "future", "due"}
      /\ new.attempt_count \in Nat /\ new.total_runs \in Nat
      /\ new.locked_by \in Workers \cup {None}
      /\ new.lease_expires_at \in {"null", "live", "expired"}
      /\ new.version \in Nat
  BY <1>1 DEF Changes, JobRow, Columns
<1> HIDE DEF new
<1>4. new \in JobRow
  BY <1>2, <1>3 DEF JobRow, Asked, JobStatus
<1> QED
  BY <1>3, <1>4 DEF new

\* A request that was accepted has a new status to write.
LEMMA DirtyFacts ==
  ASSUME NEW op \in {"pause", "resume", "cancel", "replay"}, NEW row \in JobRow,
         Accepted(op, row)
  PROVE  Changes(Dirty(op, row))
<1> DEFINE new == After(op, row)
<1>1. new \in JobRow /\ new.status \in Asked
  <2>1. row.version + 1 \in Nat
    BY DEF JobRow
  <2>2. /\ Paused(row) \in JobRow /\ Paused(row).status = "PAUSED"
        /\ Cancelled(row) \in JobRow /\ Cancelled(row).status = "FAILED"
    BY <2>1 DEF Paused, Cancelled, JobRow, JobStatus
  <2>3. /\ Resumed(row) \in JobRow /\ Resumed(row).status = "SCHEDULED"
        /\ Replayed(row) \in JobRow /\ Replayed(row).status = "SCHEDULED"
    BY <2>1 DEF Resumed, Replayed, JobRow, JobStatus
  <2> QED
    BY <2>2, <2>3 DEF After, Asked
<1>2. new.status # row.status
  BY DEF Accepted, CanTransition, ALLOWED
<1> HIDE DEF new
<1> DEFINE d == Dirty(op, row)
<1>3. /\ DOMAIN d \subseteq Columns /\ "status" \in DOMAIN d
      /\ \A c \in DOMAIN d : d[c] = new[c]
  BY <1>2 DEF Dirty, Columns, new
<1> HIDE DEF d
<1>4. Changes(d)
  BY <1>1, <1>3 DEF Changes, JobRow
<1> QED
  BY <1>4 DEF d

\* A commit leaves the row with the status that was asked for.
LEMMA CommitRow ==
  ASSUME TypeOK, ReqShape, NEW r \in Requests, RequestCommits(r)
  PROVE  /\ jobs' \in [Jobs -> JobRow]
         /\ \A j \in Jobs : jobs'[j] = jobs[j] \/ jobs'[j].status \in Asked
<1>1. /\ req[r].job \in Jobs /\ Changes(req[r].dirty)
      /\ jobs' = [jobs EXCEPT ![req[r].job] = Written(req[r].dirty, @)]
  BY DEF RequestCommits, ReqShape
<1>2. /\ Written(req[r].dirty, jobs[req[r].job]) \in JobRow
      /\ (Written(req[r].dirty, jobs[req[r].job])).status \in Asked
  <2>1. PICK d : d = req[r].dirty
    OBVIOUS
  <2>2. PICK row \in JobRow : row = jobs[req[r].job]
    BY <1>1 DEF TypeOK
  <2> QED
    BY <1>1, <2>1, <2>2, MergeFacts
<1> QED
  BY <1>1, <1>2 DEF TypeOK

\* Every step keeps the requests in shape.
LEMMA ReqKept ==
  ASSUME TypeOK, ReqShape, [SchedulerNext]_allVars PROVE ReqShape'
<1>1. ASSUME NEW r \in Requests, NEW op \in Operations, NEW j \in Jobs,
             RequestReads(r, op, j)
      PROVE  ReqShape'
  <2>1. PICK row \in JobRow : row = jobs[j] /\ Accepted(op, row)
    BY <1>1 DEF RequestReads, TypeOK
  <2>2. Changes(Dirty(op, jobs[j]))
    BY <2>1, SchedulerAssumption, DirtyFacts
  <2> DEFINE d == Dirty(op, jobs[j])
  <2>3. req' = [req EXCEPT ![r] = [pc |-> "read", job |-> j, dirty |-> d]]
    BY <1>1 DEF RequestReads
  <2>4. Changes(d)'
    BY <1>1, <2>2 DEF RequestReads, vars, Dirty, Changes
  <2> HIDE DEF d
  <2>5. req'[r].pc = "read" /\ req'[r].job = j /\ req'[r].dirty = d
    BY <2>3 DEF ReqShape
  <2> QED
    BY <2>2, <2>3, <2>5 DEF ReqShape, d
<1>2. ASSUME NEW r \in Requests, RequestCommits(r) PROVE ReqShape'
  BY <1>2 DEF RequestCommits, ReqShape
<1>3. CASE UNCHANGED req
  BY <1>3 DEF ReqShape
<1> QED
  BY <1>1, <1>2, <1>3 DEF SchedulerNext, EngineStep, RequestStep, allVars

-----------------------------------------------------------------------------
\* Every step keeps the types.
LEMMA AllTyped ==
  ASSUME TypeOK, ReqShape, [SchedulerNext]_allVars PROVE TypeOK'
<1>1. CASE [Next]_vars
  BY <1>1, NextTyped
<1>2. CASE \E r \in Requests : RequestCommits(r)
  <2>1. jobs' \in [Jobs -> JobRow]
    BY <1>2, CommitRow
  <2> QED
    BY <1>2, <2>1, RowsTyped DEF RequestCommits
<1> QED
  BY <1>1, <1>2 DEF SchedulerNext, EngineStep, RequestStep, RequestReads, allVars, vars

\* A step is one of the engine, or the commit of a request, or leaves the
\* engine as it is.
LEMMA WhichStep ==
  ASSUME [SchedulerNext]_allVars
  PROVE  [Next]_vars \/ \E r \in Requests : RequestCommits(r)
BY DEF SchedulerNext, EngineStep, RequestStep, RequestReads, allVars, vars

\* Rows and requests keep their types under any mix of the two.
THEOREM SchedulerTypeCorrect == SchedulerSpec => []SchedulerTypeOK
<1>1. SchedulerInit => TypeOK /\ ReqShape
  BY InitTyped DEF SchedulerInit, ReqShape
<1>2. TypeOK /\ ReqShape /\ [SchedulerNext]_allVars => (TypeOK /\ ReqShape)'
  BY AllTyped, ReqKept
<1>3. TypeOK /\ ReqShape => SchedulerTypeOK
  <2> SUFFICES ASSUME TypeOK, ReqShape PROVE SchedulerTypeOK
    OBVIOUS
  <2>1. ASSUME NEW r \in Requests, req[r].pc = "read", req[r].job \in Jobs,
               Changes(req[r].dirty)
        PROVE  /\ DOMAIN req[r].dirty \subseteq Columns
               /\ Written(req[r].dirty, jobs[req[r].job]) \in JobRow
    <3>1. PICK d : d = req[r].dirty
      OBVIOUS
    <3>2. PICK row \in JobRow : row = jobs[req[r].job]
      BY <2>1 DEF TypeOK
    <3> QED
      BY <2>1, <3>1, <3>2, MergeFacts DEF Changes
  <2> QED
    BY <2>1 DEF SchedulerTypeOK, ReqShape
<1> QED
  BY <1>1, <1>2, <1>3, PTL DEF SchedulerSpec

\* The inductive invariant the theorems below start from.
LEMMA Shapes == SchedulerSpec => [](TypeOK /\ ReqShape)
<1>1. SchedulerInit => TypeOK /\ ReqShape
  BY InitTyped DEF SchedulerInit, ReqShape
<1>2. TypeOK /\ ReqShape /\ [SchedulerNext]_allVars => (TypeOK /\ ReqShape)'
  BY AllTyped, ReqKept
<1> QED
  BY <1>1, <1>2, PTL DEF SchedulerSpec

-----------------------------------------------------------------------------
\* A RUNNING job has a holder and a lease, whatever a request that read the
\* row long ago wrote over it: no request writes RUNNING.
THEOREM RunningIsLeased == SchedulerSpec => []RunningHasLease
<1>1. SchedulerInit => RunningHasLease
  BY DEF SchedulerInit, Init, NewRow, RunningHasLease
<1>2. ASSUME TypeOK, ReqShape, RunningHasLease, [SchedulerNext]_allVars
      PROVE  RunningHasLease'
  <2> SUFFICES ASSUME NEW j \in Jobs, jobs'[j].status = "RUNNING"
               PROVE  jobs'[j].locked_by # None /\ jobs'[j].lease_expires_at # "null"
    BY DEF RunningHasLease
  <2>1. CASE [Next]_vars
    <3>1. RowStep(jobs[j], jobs'[j])
      BY <1>2, <2>1, RowSteps
    <3>2. CASE Kept(jobs[j], jobs'[j])
      BY <1>2, <3>2 DEF Kept, RunningHasLease
    <3>3. CASE Taken(jobs[j], jobs'[j])
      BY <3>3, EngineAssumption DEF Taken
    <3>4. CASE LetGo(jobs[j], jobs'[j])
      BY <3>4 DEF LetGo, Settled
    <3> QED
      BY <3>1, <3>2, <3>3, <3>4 DEF RowStep
  <2>2. CASE \E r \in Requests : RequestCommits(r)
    BY <1>2, <2>2, CommitRow DEF RunningHasLease, Asked
  <2> QED
    BY <1>2, <2>1, <2>2, WhichStep
<1> QED
  BY <1>1, <1>2, Shapes, PTL DEF SchedulerSpec

\* The engine does not move a job that a user paused or cancelled, or that
\* has settled, even if a stale request wrote the version a thread claimed.
THEOREM UsersAreRespected == SchedulerSpec => EngineRespectsUser
<1>1. ASSUME TypeOK, ReqShape, [SchedulerNext]_allVars
      PROVE  [\A j \in Jobs :
                jobs[j].status \in {"PAUSED"} \cup Settled /\ req' = req =>
                  /\ jobs'[j].status = jobs[j].status
                  /\ jobs'[j].locked_by = jobs[j].locked_by
                  /\ jobs'[j].version = jobs[j].version]_allVars
  <2> SUFFICES ASSUME NEW j \in Jobs, req' = req,
                      jobs[j].status \in {"PAUSED"} \cup Settled
               PROVE  /\ jobs'[j].status = jobs[j].status
                      /\ jobs'[j].locked_by = jobs[j].locked_by
                      /\ jobs'[j].version = jobs[j].version
    OBVIOUS
  <2>1. ~\E r \in Requests : RequestCommits(r)
    BY <1>1 DEF RequestCommits, ReqShape
  <2>2. RowStep(jobs[j], jobs'[j])
    BY <1>1, <2>1, WhichStep, RowSteps
  <2> QED
    BY <2>2 DEF RowStep, Kept, Taken, LetGo, Settled
<1> QED
  BY <1>1, Shapes, PTL DEF SchedulerSpec, EngineRespectsUser

-----------------------------------------------------------------------------
(* Successes.  No thread that still runs has one on its execution row, so  *)
(* the row that says so is never written again.                            *)

NoneYet ==
  \A f \in Futures : future[f].pc \in Active \cup {"free"} => exec[f] # "SUCCESS"

\* An execution row with a success keeps it, and its job.
LEMMA SuccessStays ==
  ASSUME TypeOK, NoneYet, [Next]_vars
  PROVE  /\ NoneYet'
         /\ \A f \in Futures : exec[f] = "SUCCESS" =>
              exec'[f] = "SUCCESS" /\ future'[f].job = future[f].job
<1> DEFINE Goal ==
      /\ NoneYet'
      /\ \A f \in Futures : exec[f] = "SUCCESS" =>
           exec'[f] = "SUCCESS" /\ future'[f].job = future[f].job
<1> USE DEF NoneYet
<1>1. ASSUME NEW w \in Workers, NEW j \in Jobs, NEW f \in Futures,
             Claim(w, j, f) \/ ClaimThenPollFails(w, j, f)
      PROVE  Goal
  BY <1>1 DEF Claim, ClaimThenPollFails, TypeOK
<1>2. ASSUME NEW f \in Futures, Load(f) \/ TaskEnds(f) \/ Refresh(f) \/ Start(f)
      PROVE  Goal
  BY <1>2 DEF Load, TaskEnds, Refresh, Start, TypeOK, FutureRec, Active
<1>3. ASSUME NEW f \in Futures, Ends(f) PROVE Goal
  <2>1. PICK rec \in Gone(f) : future' = [future EXCEPT ![f] = rec]
    BY <1>3, EndsFacts
  <2>2. rec.pc \notin Active \cup {"free"} /\ rec.job = future[f].job
    BY GoneFacts DEF Active
  <2>3. /\ \A g \in Futures \ {f} : exec'[g] = exec[g]
        /\ future[f].pc \in Active \/ exec'[f] = exec[f]
    BY <1>3 DEF Ends, LoadRefused, ThreadFails, FinishApplied, FinishDiscarded,
                LateRenewal, TypeOK, Active
  <2> QED
    BY <2>1, <2>2, <2>3 DEF TypeOK
<1>4. ASSUME NEW w \in Workers, NEW j \in Jobs, Reap(w, j) PROVE Goal
  BY <1>4 DEF Reap, OpenRows
<1>5. ASSUME NEW w \in Workers, Crash(w) PROVE Goal
  <2>1. \A f \in Futures : /\ Retired(future[f]).pc = "done"
                           /\ Retired(future[f]).job = future[f].job
    BY RetiredFacts DEF TypeOK
  <2> QED
    BY <1>5, <2>1 DEF Crash, Active
<1>6. CASE UNCHANGED <<future, exec>>
  BY <1>6
<1>7. ASSUME \/ \E f \in Futures : Renew(f)
             \/ \E j \in Jobs : BecomesDue(j) \/ LeaseExpires(j)
             \/ UNCHANGED vars
      PROVE  Goal
  BY <1>6, <1>7 DEF Renew, BecomesDue, LeaseExpires, vars
<1> HIDE DEF Goal
<1>8. Goal
  BY <1>1, <1>2, <1>3, <1>4, <1>5, <1>7 DEF Next, ThreadStep, Ends
<1> QED
  BY <1>8 DEF Goal

\* The engine completes a job in the step that writes the success of one of
\* its attempts, and in no other.
LEMMA CompletionStep ==
  ASSUME TypeOK, [Next]_vars, NEW j \in Jobs,
         jobs'[j].status = "COMPLETED", jobs[j].status # "COMPLETED"
  PROVE  \E f \in Futures : future'[f].job = j /\ exec'[f] = "SUCCESS"
<1>1. LetGo(jobs[j], jobs'[j])
  BY RowSteps DEF RowStep, Kept, Taken
<1>2. ASSUME NEW f \in Futures, FinishApplied(f)
      PROVE  future'[f].job = j /\ exec'[f] = "SUCCESS"
  <2>1. /\ future[f].pc \in Active
        /\ jobs' = [jobs EXCEPT ![future[f].job] = OutcomeRow(f)]
        /\ exec' = [exec EXCEPT ![f] = future[f].outcome]
    BY <1>2 DEF FinishApplied, Active
  <2>2. j = future[f].job /\ OutcomeRow(f).status = "COMPLETED"
    BY <2>1, ActiveFacts DEF TypeOK
  <2>3. CASE future[f].outcome = "SUCCESS"
    <3>1. PICK rec \in Gone(f) : future' = [future EXCEPT ![f] = rec]
      BY <1>2, EndsFacts DEF Ends
    <3>2. rec.job = j
      BY <2>2, GoneFacts
    <3> QED
      BY <2>1, <2>3, <3>1, <3>2 DEF TypeOK
  <2>4. CASE future[f].outcome # "SUCCESS"
    <3> DEFINE row == FailureChanges(j, jobs[j], future[f].attempt)
    <3>1. row \in JobRow /\ row.status # "COMPLETED"
      BY FailureFacts DEF TypeOK
    <3>2. OutcomeRow(f) = Unlocked(row)
      BY <2>2, <2>4 DEF OutcomeRow
    <3> HIDE DEF row
    <3> QED
      BY <2>2, <3>1, <3>2, UnlockedFacts
  <2> QED
    BY <2>3, <2>4
<1>3. ASSUME NEW w \in Workers, NEW k \in Jobs, Reap(w, k) PROVE FALSE
  <2> DEFINE row == FailureChanges(k, jobs[k], jobs[k].attempt_count)
  <2>1. row \in JobRow /\ row.status # "COMPLETED"
    BY FailureFacts DEF TypeOK
  <2>2. jobs' = [jobs EXCEPT ![k] = Unlocked(row)]
    BY <1>3 DEF Reap
  <2> HIDE DEF row
  <2> QED
    BY <2>1, <2>2, UnlockedFacts DEF TypeOK
<1>4. ASSUME \/ \E w \in Workers, k \in Jobs, f \in Futures :
                  Claim(w, k, f) \/ ClaimThenPollFails(w, k, f)
             \/ \E f \in Futures : Start(f) \/ Renew(f) \/ LateRenewal(f)
             \/ \E k \in Jobs : BecomesDue(k) \/ LeaseExpires(k)
      PROVE  FALSE
  <2>1. ASSUME NEW w \in Workers, NEW k \in Jobs, NEW f \in Futures,
               Claim(w, k, f) \/ ClaimThenPollFails(w, k, f)
        PROVE  FALSE
    <3>1. jobs' = [jobs EXCEPT ![k] = ClaimedRow(jobs[k], w)]
      BY <2>1 DEF Claim, ClaimThenPollFails
    <3>2. ClaimedRow(jobs[k], w).status = "RUNNING"
      BY ClaimedRowFacts DEF TypeOK
    <3> QED
      BY <3>1, <3>2 DEF TypeOK
  <2>2. ASSUME NEW f \in Futures, Start(f) \/ Renew(f) \/ LateRenewal(f) PROVE FALSE
    <3>1. future[f].pc \in Active \/ future[f].pc = "late"
      BY <2>2 DEF Start, Renew, LateRenewal, Active
    <3>2. future[f].job \in Jobs /\ jobs[future[f].job] \in JobRow
      BY <3>1, ActiveFacts, LateFacts
    <3>3. jobs'[j].status = jobs[j].status
      BY <2>2, <3>2 DEF Start, Renew, LateRenewal, TypeOK, JobRow
    <3> QED
      BY <3>3
  <2>3. ASSUME NEW k \in Jobs, BecomesDue(k) \/ LeaseExpires(k) PROVE FALSE
    BY <2>3, SMTT(20) DEF BecomesDue, LeaseExpires, TypeOK, JobRow
  <2> QED
    BY <1>4, <2>1, <2>2, <2>3
<1>5. jobs' # jobs
  OBVIOUS
<1> QED
  BY <1>2, <1>3, <1>4, <1>5
  DEF Next, ThreadStep, Load, LoadRefused, TaskEnds, Refresh, FinishDiscarded,
      ThreadFails, Crash, vars

\* A job is COMPLETED only if one of its attempts succeeded: no stale
\* request, and no reaper, makes it so.
THEOREM CompletedIsEarned == SchedulerSpec => []CompletedHasSuccess
<1>1. SchedulerInit => NoneYet /\ CompletedHasSuccess
  BY DEF SchedulerInit, Init, NewRow, NoneYet, CompletedHasSuccess
<1>2. ASSUME TypeOK, ReqShape, NoneYet, CompletedHasSuccess, [SchedulerNext]_allVars
      PROVE  NoneYet' /\ CompletedHasSuccess'
  <2>1. CASE [Next]_vars
    <3>1. ASSUME NEW j \in Jobs, jobs'[j].status = "COMPLETED"
          PROVE  \E f \in Futures : future'[f].job = j /\ exec'[f] = "SUCCESS"
      BY <1>2, <2>1, <3>1, SuccessStays, CompletionStep DEF CompletedHasSuccess
    <3> QED
      BY <1>2, <2>1, <3>1, SuccessStays DEF CompletedHasSuccess
  <2>2. CASE \E r \in Requests : RequestCommits(r)
    <3>1. UNCHANGED <<future, exec>>
      BY <2>2 DEF RequestCommits
    <3>2. \A j \in Jobs : jobs'[j] = jobs[j] \/ jobs'[j].status \in Asked
      BY <1>2, <2>2, CommitRow
    <3> QED
      BY <1>2, <3>1, <3>2 DEF NoneYet, CompletedHasSuccess, Asked
  <2> QED
    BY <1>2, <2>1, <2>2, WhichStep
<1> QED
  BY <1>1, <1>2, Shapes, PTL DEF SchedulerSpec
=============================================================================
