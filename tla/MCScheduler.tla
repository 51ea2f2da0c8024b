---------------------------- MODULE MCScheduler ----------------------------
(* Instances of the scheduler for TLC.                                     *)
EXTENDS Scheduler, TLC

CONSTANTS j1, j2

\* j1 is a one-time job with one retry, j2 a recurring job with none.
MCRecurring == Jobs \cap {j2}
MCMaxRetries == [j \in Jobs |-> IF j = j1 THEN 1 ELSE 0]

MCSymmetry ==
  Permutations(Workers) \cup Permutations(Futures) \cup Permutations(Requests)

\* Requests find the job RUNNING, and no database error ends an attempt: an
\* execution row can only be orphaned by a crash.
RunningNext ==
  /\ SchedulerNext
  /\ \A r \in Requests :
       req[r].pc = "free" /\ req'[r].pc = "read" =>
         jobs[req'[r].job].status = "RUNNING"
  /\ \A f \in Futures : exec[f] = "RUNNING" => ~ThreadFails(f)

\* Nobody has to make a request, nor finish one.
RunningFairSpec == SchedulerInit /\ [][RunningNext]_allVars /\ Fairness
=============================================================================
