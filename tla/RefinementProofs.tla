-------------------------- MODULE RefinementProofs --------------------------
(***************************************************************************)
(* The engine implements the abstract queue of leases, for any jobs,       *)
(* workers, retry limits and number of claims.                             *)
(***************************************************************************)
EXTENDS EngineProofs

\* Each step of the engine is a step of the queue, or one it does not see.
Simulated == LQ!Next \/ UNCHANGED LQ!leaseVars

-----------------------------------------------------------------------------
(* Tickets.                                                                *)

\* A thread that has not read its job, or has ended, has no ticket.
LEMMA NoTicket ==
  ASSUME NEW rec, rec.pc \notin HasRead PROVE TicketOf(rec) = None
BY DEF TicketOf

\* A thread that has read its job has one, for what it read.
LEMMA HasTicket ==
  ASSUME TypeOK, NEW f \in Futures, future[f].pc \in HasRead
  PROVE  /\ TicketOf(future[f]) = [worker |-> future[f].worker,
                                   job    |-> future[f].job,
                                   token  |-> future[f].version]
         /\ TicketOf(future[f]) # None
<1>1. future[f].pc \in Active \/ future[f].pc = "late"
  BY DEF HasRead, Active
<1>2. /\ future[f].worker \in Workers /\ future[f].job \in Jobs
      /\ future[f].version \in Nat
  BY <1>1, ActiveFacts, LateFacts DEF FutureRec
<1> QED
  BY <1>2, NoneIsNoTicket DEF TicketOf, LQ!Ticket

\* The ticket of a thread that passes the WHERE clause is current, for its
\* job.
LEMMA TicketCurrent ==
  ASSUME TypeOK, NEW f \in Futures, future[f].pc \in HasRead, HoldsLease(f)
  PROVE  LQ!Current(f) /\ TicketOf(future[f]).job = future[f].job
<1> DEFINE t == TicketOf(future[f])
<1>1. future[f].job \in Jobs
  BY ReadFacts
<1>2. /\ t # None
      /\ t.job = future[f].job /\ t.worker = future[f].worker
      /\ t.token = future[f].version
  <2>1. t # None
    BY HasTicket
  <2>2. t = [worker |-> future[f].worker, job |-> future[f].job,
             token  |-> future[f].version]
    BY HasTicket
  <2> HIDE DEF t
  <2> QED
    BY <2>1, <2>2
<1>3. /\ PhaseOf(jobs[t.job].status) = "held"
      /\ jobs[t.job].locked_by = t.worker
      /\ jobs[t.job].version = t.token
  BY <1>2 DEF HoldsLease, RunsHere, PhaseOf
<1>4. t.job \in Jobs
  BY <1>1, <1>2
<1>5. [g \in Futures |-> TicketOf(future[g])][f] = t
  OBVIOUS
<1> HIDE DEF t
<1>6. LQ!Current(f)
  BY <1>2, <1>3, <1>4, <1>5 DEF LQ!Current
<1> QED
  BY <1>2, <1>6 DEF t

\* A thread that ends takes its ticket with it, or leaves it to a heartbeat
\* that outlives it; the tickets of the others stay.
LEMMA TicketOfGone ==
  ASSUME TypeOK, NEW f \in Futures, Ends(f)
  PROVE  /\ \A g \in Futures \ {f} : TicketOf(future'[g]) = TicketOf(future[g])
         /\ \/ TicketOf(future'[f]) = TicketOf(future[f])
            \/ TicketOf(future'[f]) = None
<1>1. PICK rec \in Gone(f) : future' = [future EXCEPT ![f] = rec]
  BY EndsFacts
<1>2. CASE rec.pc = "late"
  BY <1>1, <1>2, GoneFacts DEF TypeOK, TicketOf, HasRead
<1>3. CASE rec.pc # "late"
  <2>1. rec.pc = "done"
    BY <1>3, GoneFacts
  <2> QED
    BY <1>1, <2>1, NoTicket DEF TypeOK, HasRead
<1> QED
  BY <1>1, <1>2, <1>3 DEF TypeOK

\* So the client stays, or leaves.
LEMMA GoneMayLeave ==
  ASSUME TypeOK, NEW f \in Futures, Ends(f) PROVE LQ!MayLeave(f)
<1>1. CASE TicketOf(future'[f]) = TicketOf(future[f])
  <2>1. [g \in Futures |-> TicketOf(future[g])]' = [g \in Futures |-> TicketOf(future[g])]
    BY <1>1, TicketOfGone
  <2> QED
    BY <2>1 DEF LQ!MayLeave
<1>2. CASE TicketOf(future'[f]) = None
  <2>1. [g \in Futures |-> TicketOf(future[g])]' =
          [[g \in Futures |-> TicketOf(future[g])] EXCEPT ![f] = None]
    BY <1>2, TicketOfGone
  <2> QED
    BY <2>1 DEF LQ!MayLeave
<1> QED
  BY <1>1, <1>2, TicketOfGone

\* Threads that end without touching a job leave.
LEMMA TicketsGo ==
  ASSUME UNCHANGED jobs,
         \A f \in Futures : \/ TicketOf(future'[f]) = TicketOf(future[f])
                            \/ TicketOf(future'[f]) = None
  PROVE  LQ!Leave
BY DEF LQ!Leave

-----------------------------------------------------------------------------
(* Rows.                                                                   *)

\* A claim grants the job.
LEMMA ClaimGrants ==
  ASSUME TypeOK, NEW w \in Workers, NEW k \in Jobs,
         jobs[k].status = "SCHEDULED",
         jobs' = [jobs EXCEPT ![k] = ClaimedRow(jobs[k], w)],
         \A f \in Futures : TicketOf(future'[f]) = TicketOf(future[f])
  PROVE  LQ!Grant(w, {k})
<1>1. jobs[k] \in JobRow
  BY DEF TypeOK
<1> DEFINE new == ClaimedRow(jobs[k], w)
<1>2. /\ new.status = "RUNNING" /\ new.locked_by = w
      /\ new.lease_expires_at = "live" /\ new.version = jobs[k].version + 1
  BY <1>1, ClaimedRowFacts
<1>3. \A j \in Jobs : jobs'[j] = IF j = k THEN new ELSE jobs[j]
  BY DEF TypeOK
<1> HIDE DEF new
<1>4. PhaseOf(jobs[k].status) = "queued" /\ PhaseOf(new.status) = "held"
  BY <1>2 DEF PhaseOf
<1>5. [j \in Jobs |-> PhaseOf(jobs[j].status)]' =
        [j \in Jobs |-> IF j \in {k} THEN "held" ELSE PhaseOf(jobs[j].status)]
  BY <1>3, <1>4
<1>6. [j \in Jobs |-> jobs[j].locked_by]' =
        [j \in Jobs |-> IF j \in {k} THEN w ELSE jobs[j].locked_by]
  BY <1>2, <1>3
<1>7. [j \in Jobs |-> jobs[j].version]' =
        [j \in Jobs |-> IF j \in {k} THEN jobs[j].version + 1 ELSE jobs[j].version]
  BY <1>2, <1>3
<1>8. [j \in Jobs |-> jobs[j].lease_expires_at = "expired"]' =
        [j \in Jobs |-> IF j \in {k} THEN FALSE
                                     ELSE jobs[j].lease_expires_at = "expired"]
  BY <1>2, <1>3
<1> QED
  BY <1>4, <1>5, <1>6, <1>7, <1>8 DEF LQ!Grant

\* An outcome and a reaper let the job go: to the queue, or out of it.
LEMMA RowLetGo ==
  ASSUME TypeOK, NEW k \in Jobs, NEW new, LetGo(jobs[k], new),
         jobs' = [jobs EXCEPT ![k] = new]
  PROVE  LQ!LetGo({k})
<1>1. \A j \in Jobs : jobs'[j] = IF j = k THEN new ELSE jobs[j]
  BY DEF TypeOK
<1>2. \A j \in {k} : [i \in Jobs |-> PhaseOf(jobs[i].status)][j] = "held"
  BY DEF LetGo, PhaseOf
<1>3. \E kept \in SUBSET {k} :
        [j \in Jobs |-> PhaseOf(jobs[j].status)]' =
          [j \in Jobs |-> IF j \in kept THEN "queued"
                          ELSE IF j \in {k} THEN "out"
                          ELSE [i \in Jobs |-> PhaseOf(jobs[i].status)][j]]
  <2> DEFINE kept == IF new.status = "SCHEDULED" THEN {k} ELSE {}
  <2>1. kept \in SUBSET {k}
    OBVIOUS
  <2>2. PhaseOf(new.status) = IF k \in kept THEN "queued" ELSE "out"
    BY DEF LetGo, PhaseOf, Settled
  <2> HIDE DEF kept
  <2>3. [j \in Jobs |-> PhaseOf(jobs[j].status)]' =
          [j \in Jobs |-> IF j \in kept THEN "queued"
                          ELSE IF j \in {k} THEN "out"
                          ELSE [i \in Jobs |-> PhaseOf(jobs[i].status)][j]]
    BY <1>1, <2>1, <2>2
  <2> QED
    BY <2>1, <2>3, Zenon
<1>4. [j \in Jobs |-> jobs[j].locked_by]' =
        [j \in Jobs |-> IF j \in {k} THEN None
                        ELSE [i \in Jobs |-> jobs[i].locked_by][j]]
  BY <1>1 DEF LetGo
<1>5. [j \in Jobs |-> jobs[j].version]' =
        [j \in Jobs |-> IF j \in {k} THEN [i \in Jobs |-> jobs[i].version][j] + 1
                        ELSE [i \in Jobs |-> jobs[i].version][j]]
  BY <1>1 DEF LetGo
<1>6. [j \in Jobs |-> jobs[j].lease_expires_at = "expired"]' =
        [j \in Jobs |-> IF j \in {k} THEN FALSE
                        ELSE [i \in Jobs |-> jobs[i].lease_expires_at = "expired"][j]]
  BY <1>1 DEF LetGo
<1> QED
  BY <1>2, <1>3, <1>4, <1>5, <1>6, Zenon DEF LQ!LetGo

-----------------------------------------------------------------------------
(* Steps.                                                                  *)

\* All jobs are queued at first, and nobody has a ticket.
LEMMA InitRefines == Init => LQ!Init
<1> SUFFICES ASSUME Init PROVE LQ!Init
  OBVIOUS
<1>1. \A j \in Jobs : /\ jobs[j].status = "SCHEDULED"
                      /\ jobs[j].locked_by = None
                      /\ jobs[j].version = 0
                      /\ jobs[j].lease_expires_at = "null"
  BY DEF Init, NewRow
<1>2. \A f \in Futures : future[f].pc = "free"
  BY DEF Init, Submitted
<1>3. \A f \in Futures : TicketOf(future[f]) = None
  BY <1>2, NoTicket DEF HasRead
<1> QED
  BY <1>1, <1>3 DEF LQ!Init, PhaseOf

\* Steps that move neither the status, holder, version or expiry of a job nor
\* a ticket.
LEMMA Unseen ==
  ASSUME \A j \in Jobs :
           /\ jobs'[j].status = jobs[j].status
           /\ jobs'[j].locked_by = jobs[j].locked_by
           /\ jobs'[j].version = jobs[j].version
           /\ (jobs'[j].lease_expires_at = "expired")
                <=> (jobs[j].lease_expires_at = "expired"),
         \A f \in Futures : TicketOf(future'[f]) = TicketOf(future[f])
  PROVE  UNCHANGED LQ!leaseVars
<1>1. [j \in Jobs |-> PhaseOf(jobs[j].status)]' = [j \in Jobs |-> PhaseOf(jobs[j].status)]
  OBVIOUS
<1>2. [j \in Jobs |-> jobs[j].locked_by]' = [j \in Jobs |-> jobs[j].locked_by]
  OBVIOUS
<1>3. [j \in Jobs |-> jobs[j].version]' = [j \in Jobs |-> jobs[j].version]
  OBVIOUS
<1>4. [j \in Jobs |-> jobs[j].lease_expires_at = "expired"]'
        = [j \in Jobs |-> jobs[j].lease_expires_at = "expired"]
  OBVIOUS
<1>5. [f \in Futures |-> TicketOf(future[f])]' = [f \in Futures |-> TicketOf(future[f])]
  OBVIOUS
<1> QED
  BY <1>1, <1>2, <1>3, <1>4, <1>5 DEF LQ!leaseVars

\* A renewal extends the lease it was made for, and a late one that matches
\* no row only leaves.
LEMMA RenewalRefines ==
  ASSUME TypeOK, NEW f \in Futures, Renew(f) \/ LateRenewal(f) PROVE Simulated
<1>1. CASE HoldsLease(f) /\ jobs' = [jobs EXCEPT ![future[f].job].lease_expires_at = "live"]
  <2> DEFINE k == future[f].job
  <2>1. future[f].pc \in HasRead
    BY DEF Renew, LateRenewal, HasRead
  <2>2. LQ!Current(f) /\ TicketOf(future[f]).job = k
    BY <1>1, <2>1, TicketCurrent
  <2>3. k \in Jobs /\ jobs[k] \in JobRow
    BY <2>1, ReadFacts DEF TypeOK
  <2>4. /\ \A j \in Jobs : /\ jobs'[j].status = jobs[j].status
                           /\ jobs'[j].locked_by = jobs[j].locked_by
                           /\ jobs'[j].version = jobs[j].version
        /\ \A j \in Jobs \ {k} : jobs'[j] = jobs[j]
        /\ jobs'[k].lease_expires_at = "live"
    BY <1>1, <2>3 DEF TypeOK, JobRow
  <2> HIDE DEF k
  <2>5. [j \in Jobs |-> jobs[j].lease_expires_at = "expired"]' =
          [[j \in Jobs |-> jobs[j].lease_expires_at = "expired"] EXCEPT
             ![[g \in Futures |-> TicketOf(future[g])][f].job] = FALSE]
    BY <2>2, <2>3, <2>4
  <2>6. LQ!MayLeave(f)
    BY GoneMayLeave DEF Renew, Ends, LQ!MayLeave
  <2>7. LQ!Extend(f)
    BY <2>2, <2>4, <2>5, <2>6 DEF LQ!Extend
  <2> QED
    BY <2>7 DEF Simulated, LQ!Next
<1>2. CASE LateRenewal(f) /\ UNCHANGED jobs
  <2>1. LQ!Leave
    BY <1>2, TicketOfGone, TicketsGo DEF Ends
  <2> QED
    BY <2>1 DEF Simulated, LQ!Next
<1> QED
  BY <1>1, <1>2 DEF Renew, LateRenewal

\* Every step of the engine is one of the queue, or unseen.
LEMMA StepRefines ==
  ASSUME TypeOK, LeaseShape, [Next]_vars PROVE Simulated
<1>1. ASSUME NEW w \in Workers, NEW k \in Jobs, NEW f \in Futures,
             Claim(w, k, f) \/ ClaimThenPollFails(w, k, f)
      PROVE  Simulated
  <2>1. /\ jobs[k].status = "SCHEDULED"
        /\ jobs' = [jobs EXCEPT ![k] = ClaimedRow(jobs[k], w)]
    BY <1>1 DEF Claim, ClaimThenPollFails, Claimable
  <2>2. /\ future[f].pc = "free"
        /\ future'[f].pc \in {"queued", "done"}
        /\ \A g \in Futures \ {f} : future'[g] = future[g]
    BY <1>1, SubmittedFacts, RetiredFacts
    DEF Claim, ClaimThenPollFails, TypeOK
  <2>3. \A g \in Futures : TicketOf(future'[g]) = TicketOf(future[g])
    BY <2>2, NoTicket DEF HasRead
  <2>4. LQ!Grant(w, {k})
    BY <2>1, <2>3, ClaimGrants
  <2> QED
    BY <2>4 DEF Simulated, LQ!Next
<1>2. ASSUME NEW f \in Futures, Load(f) PROVE Simulated
  <2> DEFINE j == future[f].job
             row == jobs[j]
  <2>1. /\ j \in Jobs /\ future[f] \in FutureRec /\ row \in JobRow
    BY <1>2, ActiveFacts DEF Load, Active
  <2>2. /\ row.status = "RUNNING" /\ row.locked_by = future[f].worker
    BY <1>2 DEF Load, RunsHere
  <2>3. /\ TicketOf(future[f]) = None
        /\ TicketOf(future'[f]) = [worker |-> row.locked_by, job |-> j,
                                   token |-> row.version]
        /\ \A g \in Futures \ {f} : future'[g] = future[g]
    BY <1>2, <2>1, <2>2 DEF Load, TicketOf, HasRead, TypeOK, FutureRec
  <2>4. [g \in Futures |-> TicketOf(future[g])]' =
          [[g \in Futures |-> TicketOf(future[g])] EXCEPT
             ![f] = [worker |-> row.locked_by, job |-> j, token |-> row.version]]
    BY <2>3
  <2>5. jobs' = jobs
    BY <1>2 DEF Load
  <2> HIDE DEF j
  <2>6. LQ!Join(f, j)
    BY <2>1, <2>2, <2>3, <2>4, <2>5 DEF LQ!Join, PhaseOf
  <2> QED
    BY <2>1, <2>6 DEF Simulated, LQ!Next
<1>3. ASSUME NEW f \in Futures, Start(f) PROVE Simulated
  <2>1. /\ future[f].job \in Jobs /\ future[f] \in FutureRec
        /\ jobs[future[f].job] \in JobRow
    BY <1>3, ActiveFacts DEF Start, Active
  <2>2. \A j \in Jobs :
          /\ jobs'[j].status = jobs[j].status
          /\ jobs'[j].locked_by = jobs[j].locked_by
          /\ jobs'[j].version = jobs[j].version
          /\ jobs'[j].lease_expires_at = jobs[j].lease_expires_at
    BY <1>3, <2>1 DEF Start, TypeOK, JobRow
  <2>3. \A g \in Futures : TicketOf(future'[g]) = TicketOf(future[g])
    BY <1>3, <2>1 DEF Start, TicketOf, HasRead, TypeOK, FutureRec
  <2> QED
    BY <2>2, <2>3, Unseen DEF Simulated
<1>4. ASSUME NEW f \in Futures, Renew(f) \/ LateRenewal(f) PROVE Simulated
  BY <1>4, RenewalRefines
<1>5. ASSUME NEW f \in Futures, TaskEnds(f) \/ Refresh(f) PROVE Simulated
  <2>1. future[f] \in FutureRec
    BY DEF TypeOK
  <2>2. jobs' = jobs
    BY <1>5 DEF TaskEnds, Refresh
  <2>3. \A g \in Futures : TicketOf(future'[g]) = TicketOf(future[g])
    BY <1>5, <2>1 DEF TaskEnds, Refresh, TicketOf, HasRead, TypeOK, FutureRec
  <2> QED
    BY <2>2, <2>3, Unseen DEF Simulated
<1>6. ASSUME NEW f \in Futures, FinishApplied(f) PROVE Simulated
  <2>1. future[f].pc \in HasRead /\ future[f].pc \in Active /\ HoldsLease(f)
    BY <1>6 DEF FinishApplied, HasRead, Active
  <2>2. PICK k \in Jobs : k = future[f].job
    BY <2>1, ActiveFacts
  <2>3. LQ!Current(f) /\ TicketOf(future[f]).job = k
    BY <2>1, <2>2, TicketCurrent
  <2>4. PICK new : new = OutcomeRow(f)
    OBVIOUS
  <2>5. LetGo(jobs[k], new) /\ jobs' = [jobs EXCEPT ![k] = new]
    BY <1>6, <2>1, <2>2, <2>4, OutcomeFacts
    DEF FinishApplied, LetGo, HoldsLease, RunsHere
  <2>6. LQ!LetGo({k})
    BY <2>5, RowLetGo
  <2>7. LQ!MayLeave(f)
    BY <1>6, GoneMayLeave DEF Ends
  <2>8. LQ!Settle(f, k)
    BY <2>3, <2>6, <2>7 DEF LQ!Settle
  <2> QED
    BY <2>8 DEF Simulated, LQ!Next
<1>7. ASSUME NEW f \in Futures,
             LoadRefused(f) \/ FinishDiscarded(f) \/ ThreadFails(f)
      PROVE  Simulated
  <2>1. UNCHANGED jobs
    BY <1>7 DEF LoadRefused, FinishDiscarded, ThreadFails
  <2>2. LQ!Leave
    BY <1>7, <2>1, TicketOfGone, TicketsGo DEF Ends
  <2> QED
    BY <2>2 DEF Simulated, LQ!Next
<1>8. ASSUME NEW w \in Workers, NEW k \in Jobs, Reap(w, k) PROVE Simulated
  <2> DEFINE changes == FailureChanges(k, jobs[k], jobs[k].attempt_count)
             new == Unlocked(changes)
  <2>1. /\ jobs[k] \in JobRow /\ jobs[k].status = "RUNNING"
        /\ jobs[k].lease_expires_at = "expired"
    BY <1>8 DEF TypeOK, Reap, Expired
  <2>2. /\ changes \in JobRow
        /\ changes.version = jobs[k].version
        /\ \/ changes.status = "SCHEDULED" /\ changes.next_run_at = "future"
           \/ changes.status \in Settled /\ changes.next_run_at = "null"
    BY <2>1, FailureFacts DEF Settled
  <2>3. jobs' = [jobs EXCEPT ![k] = new] /\ future' = future
    BY <1>8 DEF Reap
  <2> HIDE DEF changes
  <2>4. LetGo(jobs[k], new)
    BY <2>1, <2>2, UnlockedFacts DEF LetGo
  <2> HIDE DEF new
  <2>5. LQ!LetGo({k})
    BY <2>3, <2>4, RowLetGo
  <2>6. \A j \in {k} : [i \in Jobs |-> jobs[i].lease_expires_at = "expired"][j]
    BY <2>1
  <2>7. UNCHANGED [f \in Futures |-> TicketOf(future[f])]
    BY <2>3
  <2>8. LQ!Revoke({k})
    BY <2>5, <2>6, <2>7 DEF LQ!Revoke
  <2> QED
    BY <2>8 DEF Simulated, LQ!Next
<1>9. ASSUME NEW w \in Workers, Crash(w) PROVE Simulated
  <2>1. /\ UNCHANGED jobs
        /\ \A g \in Futures : future'[g] = future[g] \/ future'[g].pc = "done"
    BY <1>9, RetiredFacts DEF Crash, TypeOK
  <2>2. LQ!Leave
    BY <2>1, NoTicket, TicketsGo DEF HasRead
  <2> QED
    BY <2>2 DEF Simulated, LQ!Next
<1>10. ASSUME NEW k \in Jobs, BecomesDue(k) PROVE Simulated
  <2>1. \A j \in Jobs :
          /\ jobs'[j].status = jobs[j].status
          /\ jobs'[j].locked_by = jobs[j].locked_by
          /\ jobs'[j].version = jobs[j].version
          /\ jobs'[j].lease_expires_at = jobs[j].lease_expires_at
    BY <1>10 DEF BecomesDue, TypeOK, JobRow
  <2>2. future' = future
    BY <1>10 DEF BecomesDue
  <2> QED
    BY <2>1, <2>2, Unseen DEF Simulated
<1>11. ASSUME NEW k \in Jobs, LeaseExpires(k) PROVE Simulated
  <2>1. jobs[k].status = "RUNNING"
    BY <1>11 DEF LeaseExpires, LeaseShape
  <2>2. /\ \A j \in Jobs : /\ jobs'[j].status = jobs[j].status
                           /\ jobs'[j].locked_by = jobs[j].locked_by
                           /\ jobs'[j].version = jobs[j].version
        /\ \A j \in Jobs \ {k} : jobs'[j] = jobs[j]
        /\ jobs'[k].lease_expires_at = "expired"
        /\ future' = future
    BY <1>11 DEF LeaseExpires, TypeOK, JobRow
  <2>3. [j \in Jobs |-> jobs[j].lease_expires_at = "expired"]' =
          [[j \in Jobs |-> jobs[j].lease_expires_at = "expired"] EXCEPT ![k] = TRUE]
    BY <2>2
  <2>4. LQ!Lapse(k)
    BY <2>1, <2>2, <2>3 DEF LQ!Lapse, PhaseOf
  <2> QED
    BY <2>4 DEF Simulated, LQ!Next
<1>12. CASE UNCHANGED vars
  BY <1>12, Unseen DEF Simulated, vars
<1> QED
  BY <1>1, <1>2, <1>3, <1>4, <1>5, <1>6, <1>7, <1>8, <1>9, <1>10, <1>11, <1>12
  DEF Next, ThreadStep

\* The engine implements the abstract queue of leases: claims grant, threads
\* join, outcomes settle under the current token, reapers revoke what has
\* lapsed, and nothing else moves a lease.
THEOREM EngineIsLeaseQueue == Spec => ImplementsLeaseQueue
<1>1. TypeOK /\ LeaseShape /\ [Next]_vars => [LQ!Next]_(LQ!leaseVars)
  BY StepRefines DEF Simulated
<1> QED
  BY <1>1, InitRefines, TypeCorrect, LeaseShapeHolds, PTL
  DEF Spec, ImplementsLeaseQueue, LQ!Spec
=============================================================================
