---------------------------- MODULE BudgetProofs ----------------------------
(***************************************************************************)
(* As long as no lease of a job has expired, its counters count what       *)
(* happened, and its attempts stay in their budget: for any jobs, workers, *)
(* retry limits and number of claims.                                      *)
(***************************************************************************)
EXTENDS EngineProofs, FiniteSetTheorems

\* The attempts of a job: the futures that have inserted an execution row.
Started(j) == {f \in Futures : future[f].job = j /\ exec[f] # "none"}

\* A thread that has started its task has inserted its row.
Opened ==
  \A f \in Futures :
    future[f].pc \in {"running", "ended", "refreshed"} => exec[f] # "none"

\* A job that is queued, or claimed and not started, has an attempt left;
\* and the copies its threads write from are as the row is.
BudgetOf(j) ==
  /\ jobs[j].total_runs = Cardinality(Started(j))
  /\ jobs[j].attempt_count <= MaxRetries[j] + 1
  /\ jobs[j].status = "SCHEDULED" => jobs[j].attempt_count <= MaxRetries[j]
  /\ \A f \in Futures : future[f].job = j =>
       /\ future[f].pc \in {"queued", "loaded"} =>
            jobs[j].attempt_count <= MaxRetries[j]
       /\ future[f].pc = "loaded" =>
            /\ future[f].attempt = jobs[j].attempt_count
            /\ future[f].total = jobs[j].total_runs
       /\ future[f].pc = "refreshed" =>
            future[f].attempt = jobs[j].attempt_count

Budget == \A j \in Jobs : ~reaped[j] => BudgetOf(j)

BudgetInv == TypeOK /\ ThreadShape /\ OnePending /\ Opened /\ Budget

-----------------------------------------------------------------------------
\* The rows of a claim and of the end of a lease keep both counters.
LEMMA CountersKept ==
  ASSUME NEW row \in JobRow, NEW w \in Workers
  PROVE  /\ ClaimedRow(row, w).attempt_count = row.attempt_count
         /\ ClaimedRow(row, w).total_runs = row.total_runs
         /\ Unlocked(row).attempt_count = row.attempt_count
         /\ Unlocked(row).total_runs = row.total_runs
BY DEF ClaimedRow, Unlocked, JobRow

\* An outcome keeps the number of runs.  It leaves a job in the queue with
\* an attempt left: all of them after a success.
LEMMA OutcomeBudget ==
  ASSUME TypeOK, NEW f \in Futures, future[f].pc \in Active,
         future[f].attempt = jobs[future[f].job].attempt_count
  PROVE  LET j == future[f].job
             new == OutcomeRow(f)
         IN /\ new.total_runs = jobs[j].total_runs
            /\ new.attempt_count \in {0, jobs[j].attempt_count}
            /\ new.status = "SCHEDULED" => new.attempt_count <= MaxRetries[j]
<1> DEFINE j == future[f].job
<1>1. j \in Jobs /\ jobs[j] \in JobRow
  BY ActiveFacts
<1>2. MaxRetries[j] \in Nat /\ jobs[j].attempt_count \in Nat
  BY <1>1, EngineAssumption DEF JobRow
<1>3. CASE future[f].outcome = "SUCCESS"
  <2> DEFINE row == SuccessChanges(j, jobs[j])
  <2>1. row \in JobRow /\ row.attempt_count = 0 /\ row.total_runs = jobs[j].total_runs
    BY <1>1 DEF SuccessChanges, JobRow, JobStatus
  <2>2. OutcomeRow(f) = Unlocked(row)
    BY <1>3 DEF OutcomeRow
  <2> HIDE DEF row
  <2>3. OutcomeRow(f).attempt_count = 0 /\ OutcomeRow(f).total_runs = jobs[j].total_runs
    BY <2>1, <2>2 DEF Unlocked, JobRow
  <2> QED
    BY <1>2, <2>3
<1>4. CASE future[f].outcome # "SUCCESS"
  <2> DEFINE row == FailureChanges(j, jobs[j], future[f].attempt)
  <2>1. /\ row \in JobRow /\ row.attempt_count = jobs[j].attempt_count
        /\ row.total_runs = jobs[j].total_runs
        /\ row.status = FailureStatus(j, future[f].attempt)
    BY <1>1, FailureFacts DEF FailureChanges, JobRow
  <2>2. row.status = "SCHEDULED" => jobs[j].attempt_count <= MaxRetries[j]
    BY <1>2, <2>1 DEF FailureStatus, RetriesExhausted
  <2>3. OutcomeRow(f) = Unlocked(row)
    BY <1>4 DEF OutcomeRow
  <2> HIDE DEF row
  <2>4. /\ OutcomeRow(f).attempt_count = row.attempt_count
        /\ OutcomeRow(f).total_runs = row.total_runs
        /\ OutcomeRow(f).status = row.status
    BY <2>1, <2>3 DEF Unlocked, JobRow
  <2> QED
    BY <2>1, <2>2, <2>4
<1> QED
  BY <1>3, <1>4

\* The attempts stay the same when no execution row is inserted.
LEMMA SameStarted ==
  ASSUME \A f \in Futures :
           /\ exec'[f] = "none" <=> exec[f] = "none"
           /\ exec[f] = "none" \/ future'[f].job = future[f].job
  PROVE  \A j \in Jobs : Started(j)' = Started(j)
BY DEF Started

\* A step that leaves the counters alone keeps the budget, if the threads
\* that count on them have not moved.
LEMMA QuietKept ==
  ASSUME NEW j \in Jobs, BudgetOf(j), Started(j)' = Started(j),
         jobs'[j].attempt_count = jobs[j].attempt_count,
         jobs'[j].total_runs = jobs[j].total_runs,
         jobs'[j].status = "SCHEDULED" => jobs[j].status = "SCHEDULED",
         \A f \in Futures :
           future'[f].job = j /\ future'[f].pc \in {"queued", "loaded", "refreshed"}
             => future'[f] = future[f]
  PROVE  BudgetOf(j)'
BY DEF BudgetOf

-----------------------------------------------------------------------------
LEMMA OpenedKept ==
  ASSUME TypeOK, Opened, [Next]_vars PROVE Opened'
<1> USE DEF Opened
<1>1. ASSUME NEW w \in Workers, NEW j \in Jobs, NEW f \in Futures,
             Claim(w, j, f) \/ ClaimThenPollFails(w, j, f)
      PROVE  Opened'
  <2>1. Submitted(w, j).pc = "queued" /\ Retired(Submitted(w, j)).pc = "done"
    BY SubmittedFacts, RetiredFacts
  <2> QED
    BY <1>1, <2>1 DEF Claim, ClaimThenPollFails, TypeOK
<1>2. ASSUME NEW f \in Futures, Load(f) \/ Start(f) \/ TaskEnds(f) \/ Refresh(f)
      PROVE  Opened'
  BY <1>2 DEF Load, Start, TaskEnds, Refresh, TypeOK, FutureRec
<1>3. ASSUME NEW f \in Futures, Ends(f) PROVE Opened'
  <2>1. PICK rec \in Gone(f) : future' = [future EXCEPT ![f] = rec]
    BY <1>3, EndsFacts
  <2>2. rec.pc \in {"late", "done"}
    BY GoneFacts
  <2>3. \A g \in Futures \ {f} : exec'[g] = exec[g]
    BY <1>3 DEF Ends, LoadRefused, ThreadFails, FinishApplied, FinishDiscarded,
                LateRenewal, TypeOK
  <2> QED
    BY <2>1, <2>2, <2>3 DEF TypeOK
<1>4. ASSUME NEW w \in Workers, NEW j \in Jobs, Reap(w, j) PROVE Opened'
  BY <1>4 DEF Reap
<1>5. ASSUME NEW w \in Workers, Crash(w) PROVE Opened'
  <2>1. \A f \in Futures : Retired(future[f]).pc = "done"
    BY RetiredFacts DEF TypeOK
  <2> QED
    BY <1>5, <2>1 DEF Crash
<1>6. CASE UNCHANGED <<future, exec>>
  BY <1>6
<1> QED
  BY <1>1, <1>2, <1>3, <1>4, <1>5, <1>6
  DEF Next, ThreadStep, Ends, Renew, BecomesDue, LeaseExpires, vars

\* The claim of a queued job: it has an attempt left.
LEMMA ClaimBudget ==
  ASSUME BudgetInv, NEW w \in Workers, NEW k \in Jobs, NEW f \in Futures,
         Claim(w, k, f) \/ ClaimThenPollFails(w, k, f)
  PROVE  Budget'
<1> USE DEF BudgetInv
<1>1. PICK rec \in FutureRec :
        /\ rec.job = k /\ rec.pc \in {"queued", "done"}
        /\ future' = [future EXCEPT ![f] = rec]
  BY SubmittedFacts, RetiredFacts DEF Claim, ClaimThenPollFails
<1>2. /\ jobs' = [jobs EXCEPT ![k] = ClaimedRow(jobs[k], w)]
      /\ future[f].pc = "free" /\ exec[f] = "none" /\ UNCHANGED <<exec, reaped>>
      /\ jobs[k].status = "SCHEDULED" /\ jobs[k] \in JobRow
  BY DEF Claim, ClaimThenPollFails, Claimable, ThreadShape, TypeOK
<1>3. \A j \in Jobs : Started(j)' = Started(j)
  BY <1>1, <1>2, SameStarted DEF TypeOK
<1>4. \A g \in Futures \ {f} : future'[g] = future[g]
  BY <1>1
<1>5. \A j \in Jobs : /\ jobs'[j].attempt_count = jobs[j].attempt_count
                      /\ jobs'[j].total_runs = jobs[j].total_runs
                      /\ jobs'[j].status = "SCHEDULED" => jobs[j].status = "SCHEDULED"
  BY <1>2, CountersKept DEF TypeOK
<1>6. ASSUME NEW j \in Jobs \ {k}, ~reaped'[j] PROVE BudgetOf(j)'
  <2>1. \A g \in Futures : future'[g].job = j => future'[g] = future[g]
    BY <1>1, <1>4 DEF TypeOK
  <2> QED
    BY <1>2, <1>3, <1>5, <1>6, <2>1, QuietKept DEF Budget
<1>7. ASSUME ~reaped'[k] PROVE BudgetOf(k)'
  <2>1. BudgetOf(k) /\ jobs[k].attempt_count <= MaxRetries[k]
    BY <1>2, <1>7 DEF Budget, BudgetOf
  <2>2. future'[f] = rec /\ rec.pc # "loaded" /\ rec.pc # "refreshed"
    BY <1>1 DEF TypeOK
  <2> QED
    BY <1>3, <1>4, <1>5, <2>1, <2>2 DEF BudgetOf
<1> QED
  BY <1>6, <1>7 DEF Budget

\* A thread reads the row of its job and goes on from there.
LEMMA LoadBudget ==
  ASSUME BudgetInv, NEW f \in Futures, Load(f) \/ Refresh(f) PROVE Budget'
<1> USE DEF BudgetInv
<1>1. /\ UNCHANGED <<jobs, exec, reaped>>
      /\ \A g \in Futures \ {f} : future'[g] = future[g]
      /\ future'[f].job = future[f].job
  BY DEF Load, Refresh, TypeOK, FutureRec
<1>2. \A j \in Jobs : Started(j)' = Started(j)
  BY <1>1, SameStarted
<1>3. \/ /\ future[f].pc = "queued" /\ future'[f].pc = "loaded"
         /\ future'[f].attempt = jobs[future[f].job].attempt_count
         /\ future'[f].total = jobs[future[f].job].total_runs
      \/ /\ future'[f].pc = "refreshed"
         /\ future'[f].attempt = jobs[future[f].job].attempt_count
  BY DEF Load, Refresh, TypeOK, FutureRec
<1>4. ASSUME NEW j \in Jobs, ~reaped'[j] PROVE BudgetOf(j)'
  BY <1>1, <1>2, <1>3, <1>4 DEF Budget, BudgetOf
<1> QED
  BY <1>4 DEF Budget

\* The attempt is recorded: it was left in the budget, and nobody else has
\* moved the counters since they were read.
LEMMA StartBudget ==
  ASSUME BudgetInv, NEW f \in Futures, Start(f) PROVE Budget'
<1> USE DEF BudgetInv
<1>0. PICK k \in Jobs : k = future[f].job /\ future[f].pc \in Active
  BY ActiveFacts DEF Start, FinishApplied, Active
<1>1. /\ future[f].pc = "loaded" /\ future[f].pc \in Active
      /\ k = future[f].job /\ jobs[k] \in JobRow /\ future[f] \in FutureRec
      /\ exec[f] = "none" /\ reaped' = reaped
      /\ \A g \in Futures \ {f} : future'[g] = future[g] /\ exec'[g] = exec[g]
      /\ future'[f].job = k /\ future'[f].pc = "running" /\ exec'[f] = "RUNNING"
  BY <1>0, ActiveFacts DEF Start, ThreadShape, TypeOK, FutureRec, Active
<1>2. /\ jobs'[k].attempt_count = future[f].attempt + 1
      /\ jobs'[k].total_runs = future[f].total + 1
      /\ jobs'[k].status = jobs[k].status
      /\ \A j \in Jobs \ {k} : jobs'[j] = jobs[j]
  BY <1>1 DEF Start, TypeOK, JobRow
<1>3. ASSUME NEW j \in Jobs \ {k}, ~reaped'[j] PROVE BudgetOf(j)'
  <2>1. Started(j)' = Started(j)
    BY <1>1, <1>3 DEF Started
  <2> QED
    BY <1>1, <1>2, <1>3, <2>1, QuietKept DEF Budget
<1>4. ASSUME ~reaped'[k] PROVE BudgetOf(k)'
  <2>1. BudgetOf(k)
    BY <1>1, <1>4 DEF Budget
  <2>2. /\ jobs[k].status = "RUNNING"
        /\ \A g \in Futures \ {f} : future[g].job = k => future[g].pc \notin Active
    BY <1>1, <1>4 DEF OnePending, Pending
  <2>3. Started(k)' = Started(k) \cup {f} /\ f \notin Started(k)
    BY <1>1 DEF Started
  <2>4. Cardinality(Started(k)') = Cardinality(Started(k)) + 1
    <3>1. IsFiniteSet(Started(k))
      BY EngineAssumption, FS_Subset DEF Started
    <3> QED
      BY <2>3, <3>1, FS_AddElement
  <2>5. /\ jobs'[k].total_runs = Cardinality(Started(k)')
        /\ jobs'[k].attempt_count <= MaxRetries[k] + 1
    <3>1. MaxRetries[k] \in Nat /\ jobs[k].attempt_count \in Nat
      BY <1>1, EngineAssumption DEF JobRow
    <3> QED
      BY <1>1, <1>2, <2>1, <2>4, <3>1 DEF BudgetOf
  <2>6. \A g \in Futures : future'[g].job = k =>
          future'[g].pc \notin {"queued", "loaded", "refreshed"}
    BY <1>1, <2>2 DEF Active
  <2> QED
    BY <1>2, <2>2, <2>5, <2>6 DEF BudgetOf
<1> QED
  BY <1>3, <1>4 DEF Budget

\* The outcome is written by the only thread of the job, from the counter
\* of the row.
LEMMA FinishBudget ==
  ASSUME BudgetInv, NEW f \in Futures, FinishApplied(f) PROVE Budget'
<1> USE DEF BudgetInv
<1>0. PICK k \in Jobs : k = future[f].job /\ future[f].pc \in Active
  BY ActiveFacts DEF Start, FinishApplied, Active
<1>1. /\ future[f].pc = "refreshed" /\ future[f].pc \in Active
      /\ k = future[f].job /\ jobs[k] \in JobRow /\ future[f] \in FutureRec
      /\ exec[f] # "none" /\ future[f].outcome # "none"
      /\ exec' = [exec EXCEPT ![f] = future[f].outcome]
      /\ jobs' = [jobs EXCEPT ![k] = OutcomeRow(f)]
      /\ reaped' = reaped
  BY <1>0, ActiveFacts DEF FinishApplied, ThreadShape, Opened, Active
<1>2. /\ future'[f].pc \in {"late", "done"} /\ future'[f].job = k
      /\ \A g \in Futures \ {f} : future'[g] = future[g]
  <2>1. PICK rec \in Gone(f) : future' = [future EXCEPT ![f] = rec]
    BY EndsFacts DEF Ends
  <2>2. rec.pc \in {"late", "done"} /\ rec.job = k
    BY <1>1, GoneFacts
  <2> QED
    BY <2>1, <2>2 DEF TypeOK
<1>3. \A j \in Jobs : Started(j)' = Started(j)
  BY <1>1, <1>2, SameStarted DEF TypeOK
<1>4. ASSUME NEW j \in Jobs \ {k}, ~reaped'[j] PROVE BudgetOf(j)'
  <2>1. jobs'[j] = jobs[j]
    BY <1>1, <1>4
  <2> QED
    BY <1>1, <1>2, <1>3, <1>4, <2>1, QuietKept DEF Budget
<1>5. ASSUME ~reaped'[k] PROVE BudgetOf(k)'
  <2>1. BudgetOf(k)
    BY <1>1, <1>5 DEF Budget
  <2>2. \A g \in Futures \ {f} : future[g].job = k => future[g].pc \notin Active
    BY <1>1, <1>5 DEF OnePending, Pending
  <2>3. future[f].attempt = jobs[k].attempt_count
    BY <1>1, <2>1 DEF BudgetOf
  <2>4. jobs'[k] = OutcomeRow(f)
    BY <1>1 DEF TypeOK
  <2>5. /\ jobs'[k].total_runs = jobs[k].total_runs
        /\ jobs'[k].attempt_count \in {0, jobs[k].attempt_count}
        /\ jobs'[k].status = "SCHEDULED" => jobs'[k].attempt_count <= MaxRetries[k]
    BY <1>1, <2>3, <2>4, OutcomeBudget
  <2>6. \A g \in Futures : future'[g].job = k =>
          future'[g].pc \notin {"queued", "loaded", "refreshed"}
    BY <1>2, <2>2 DEF Active
  <2>7. MaxRetries[k] \in Nat
    BY <1>1, EngineAssumption
  <2> QED
    BY <1>3, <2>1, <2>5, <2>6, <2>7 DEF BudgetOf
<1> QED
  BY <1>4, <1>5 DEF Budget

\* Threads that end with no outcome, or whose task does, leave the counters.
LEMMA EndBudget ==
  ASSUME BudgetInv, NEW f \in Futures,
         \/ LoadRefused(f) \/ ThreadFails(f) \/ FinishDiscarded(f) \/ TaskEnds(f)
  PROVE  Budget'
<1> USE DEF BudgetInv
<1>1. /\ UNCHANGED <<jobs, reaped>>
      /\ \A g \in Futures \ {f} : future'[g] = future[g] /\ exec'[g] = exec[g]
  BY DEF LoadRefused, ThreadFails, FinishDiscarded, TaskEnds, TypeOK
<1>2. future'[f].job = future[f].job /\ future'[f].pc \in {"late", "done", "ended"}
  <2>1. CASE TaskEnds(f)
    BY <2>1 DEF TaskEnds, TypeOK, FutureRec
  <2>2. CASE ~TaskEnds(f)
    <3>1. PICK rec \in Gone(f) : future' = [future EXCEPT ![f] = rec]
      BY <2>2, EndsFacts DEF Ends
    <3>2. rec.pc \in {"late", "done"} /\ rec.job = future[f].job
      BY GoneFacts
    <3> QED
      BY <3>1, <3>2 DEF TypeOK
  <2> QED
    BY <2>1, <2>2
<1>3. exec'[f] = "none" <=> exec[f] = "none"
  BY DEF LoadRefused, ThreadFails, FinishDiscarded, TaskEnds, TypeOK, Opened,
         ThreadShape
<1>4. \A j \in Jobs : Started(j)' = Started(j)
  BY <1>1, <1>2, <1>3, SameStarted
<1>5. ASSUME NEW j \in Jobs, ~reaped'[j] PROVE BudgetOf(j)'
  BY <1>1, <1>2, <1>4, <1>5, QuietKept DEF Budget
<1> QED
  BY <1>5 DEF Budget

\* The rest of the steps touch no counter of a job that was not reaped.
LEMMA OtherBudget ==
  ASSUME BudgetInv,
         \/ \E w \in Workers, k \in Jobs : Reap(w, k)
         \/ \E w \in Workers : Crash(w)
         \/ \E f \in Futures : Renew(f) \/ LateRenewal(f)
         \/ \E k \in Jobs : BecomesDue(k) \/ LeaseExpires(k)
         \/ UNCHANGED vars
  PROVE  Budget'
<1> USE DEF BudgetInv
<1>1. /\ \A j \in Jobs : ~reaped'[j] =>
           /\ ~reaped[j]
           /\ jobs'[j].attempt_count = jobs[j].attempt_count
           /\ jobs'[j].total_runs = jobs[j].total_runs
           /\ jobs'[j].status = jobs[j].status
      /\ \A f \in Futures : exec'[f] = "none" <=> exec[f] = "none"
  <2>1. CASE \E w \in Workers, k \in Jobs : Reap(w, k)
    BY <2>1 DEF Reap, OpenRows, TypeOK
  <2>2. CASE (\E w \in Workers : Crash(w)) \/ UNCHANGED vars
    BY <2>2 DEF Crash, vars
  <2>3. CASE \E f \in Futures : Renew(f) \/ LateRenewal(f)
    BY <2>3 DEF Renew, LateRenewal, TypeOK, JobRow
  <2>4. CASE \E k \in Jobs : BecomesDue(k) \/ LeaseExpires(k)
    BY <2>4 DEF BecomesDue, LeaseExpires, TypeOK, JobRow
  <2> QED
    BY <2>1, <2>2, <2>3, <2>4
<1>2. \A f \in Futures : /\ future'[f].job = future[f].job
                         /\ future'[f] = future[f] \/ future'[f].pc = "done"
  <2>1. \A f \in Futures : /\ Retired(future[f]).pc = "done"
                           /\ Retired(future[f]).job = future[f].job
    BY RetiredFacts DEF TypeOK
  <2> QED
    BY <2>1 DEF Reap, Crash, Renew, LateRenewal, BecomesDue, LeaseExpires, TypeOK, vars
<1>3. \A j \in Jobs : Started(j)' = Started(j)
  BY <1>1, <1>2, SameStarted
<1>4. ASSUME NEW j \in Jobs, ~reaped'[j] PROVE BudgetOf(j)'
  BY <1>1, <1>2, <1>3, <1>4, QuietKept DEF Budget
<1> QED
  BY <1>4 DEF Budget

LEMMA BudgetKept ==
  ASSUME BudgetInv, [Next]_vars PROVE Budget'
BY ClaimBudget, LoadBudget, StartBudget, FinishBudget, EndBudget, OtherBudget
DEF Next, ThreadStep

LEMMA BudgetInit == Init => Opened /\ Budget
<1> SUFFICES ASSUME Init PROVE Opened /\ Budget
  OBVIOUS
<1>1. \A f \in Futures : exec[f] = "none" /\ future[f].pc = "free"
  BY DEF Init, Submitted
<1>2. \A j \in Jobs : Started(j) = {} /\ Cardinality(Started(j)) = 0
  BY <1>1, FS_EmptySet DEF Started
<1>3. \A j \in Jobs : jobs[j].attempt_count = 0 /\ jobs[j].total_runs = 0
  BY DEF Init, NewRow
<1>4. \A j \in Jobs : MaxRetries[j] \in Nat
  BY EngineAssumption
<1> QED
  BY <1>1, <1>2, <1>3, <1>4 DEF Opened, Budget, BudgetOf

\* Until a reaper takes the job back, every attempt is counted once, the
\* counters a thread writes from its own copy lose no other increment, and
\* the attempts of an occurrence are at most one plus max_retries.
THEOREM AttemptsAreAccounted == Spec => []AttemptsAccounted
<1>1. Init => Opened /\ Budget
  BY BudgetInit
<1>2. TypeOK /\ ThreadShape /\ OnePending /\ Opened /\ Budget /\ [Next]_vars
        => (Opened /\ Budget)'
  BY OpenedKept, BudgetKept DEF BudgetInv
<1>3. Budget => AttemptsAccounted
  BY DEF Budget, BudgetOf, AttemptsAccounted, Started
<1> QED
  BY <1>1, <1>2, <1>3, ThreadsInvariant, PTL DEF Spec
=============================================================================
