---------------------------- MODULE StateMachine ----------------------------
(***************************************************************************)
(* The statuses of a job and of an execution row, and the table of status  *)
(* changes the code declares legal (app/domain/enums.py and                *)
(* app/domain/state_machine.py).                                           *)
(***************************************************************************)

JobStatus ==
  {"SCHEDULED", "RUNNING", "COMPLETED", "FAILED", "PAUSED", "DEAD_LETTER"}

\* Statuses a row of job_executions can have.
ExecutionStatus == {"RUNNING", "SUCCESS", "FAILED"}

\* The dictionary ALLOWED as a relation: COMPLETED is the one status with
\* no way out.
ALLOWED ==
  ({"SCHEDULED"}   \X {"RUNNING", "PAUSED", "FAILED", "COMPLETED"}) \cup
  ({"RUNNING"}     \X {"SCHEDULED", "COMPLETED", "FAILED", "DEAD_LETTER"}) \cup
  ({"PAUSED"}      \X {"SCHEDULED", "FAILED"}) \cup
  ({"FAILED"}      \X {"SCHEDULED"}) \cup
  ({"DEAD_LETTER"} \X {"SCHEDULED"})

\* ensure_transition raises IllegalTransition exactly when this is false.
CanTransition(current, target) == <<current, target>> \in ALLOWED

\* Statuses in which a job waits for nobody: it has run out of work or of
\* attempts.
Settled == {"COMPLETED", "FAILED", "DEAD_LETTER"}
=============================================================================
