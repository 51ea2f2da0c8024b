----------------------------- MODULE Scheduler -----------------------------
(***************************************************************************)
(* The whole scheduler: the engine together with the lifecycle requests of *)
(* the API, pause, resume, cancel and replay (app/services/job_service.py). *)
(*                                                                         *)
(* A request reads the row, checks the transition against what it read,    *)
(* and commits later.  The session writes only the columns whose new value *)
(* differs from the value read, with WHERE id and no version guard, so     *)
(* whatever the engine did to the row in between is mixed with it.         *)
(***************************************************************************)
EXTENDS Engine

CONSTANTS
  Requests,     \* bound: how many lifecycle requests a behaviour can make
  Operations    \* the operations they may ask for

ASSUME SchedulerAssumption ==
  Operations \subseteq {"pause", "resume", "cancel", "replay"}

VARIABLE
  req     \* the requests: the columns each has yet to write, and of what job

allVars == <<vars, req>>

Columns == {"status", "next_run_at", "attempt_count", "locked_by",
            "lease_expires_at", "version"}

\* The UPDATE of a session: the columns it has to write, over the row.
Written(dirty, row) ==
  [c \in DOMAIN row |-> IF c \in DOMAIN dirty THEN dirty[c] ELSE row[c]]

\* A request is not made yet, has read its row, or is over.
SchedulerTypeOK ==
  /\ TypeOK
  /\ \A r \in Requests :
       \/ req[r] \in [pc : {"free", "done"}]
       \/ /\ req[r].pc = "read" /\ req[r].job \in Jobs
          /\ DOMAIN req[r].dirty \subseteq Columns
          /\ Written(req[r].dirty, jobs[req[r].job]) \in JobRow

-----------------------------------------------------------------------------
(* What each operation makes of the row it read.                           *)

Paused(row) ==
  [row EXCEPT !.status = "PAUSED", !.version = @ + 1]

Resumed(row) ==
  [row EXCEPT !.status = "SCHEDULED",
              !.next_run_at = IF @ = "null" THEN "due" ELSE @,
              !.locked_by = None, !.lease_expires_at = "null",
              !.version = @ + 1]

\* The lock of a job cancelled while RUNNING stays on the row.
Cancelled(row) ==
  [row EXCEPT !.status = "FAILED", !.next_run_at = "null", !.version = @ + 1]

Replayed(row) ==
  [row EXCEPT !.status = "SCHEDULED", !.attempt_count = 0,
              !.next_run_at = "due",
              !.locked_by = None, !.lease_expires_at = "null",
              !.version = @ + 1]

After(op, row) ==
  CASE op = "pause"  -> Paused(row)
    [] op = "resume" -> Resumed(row)
    [] op = "cancel" -> Cancelled(row)
    [] op = "replay" -> Replayed(row)

\* ensure_transition, and the refusal of pause to touch a RUNNING job.  A
\* request that is refused changes nothing.
Accepted(op, row) ==
  /\ op = "pause" => row.status # "RUNNING"
  /\ CanTransition(row.status, After(op, row).status)

\* The columns the unit of work of the session finds changed.  The time
\* replay writes is never the one it read.
Dirty(op, row) ==
  LET new == After(op, row)
      changed == {c \in Columns : new[c] # row[c]}
                   \cup (IF op = "replay" THEN {"next_run_at"} ELSE {})
  IN [c \in changed |-> new[c]]

-----------------------------------------------------------------------------
SchedulerInit == Init /\ req = [r \in Requests |-> [pc |-> "free"]]

\* _require, the checks, and the assignments to the session's copy.
RequestReads(r, op, j) ==
  /\ req[r].pc = "free"
  /\ Accepted(op, jobs[j])
  /\ req' = [req EXCEPT ![r] = [pc |-> "read", job |-> j,
                                dirty |-> Dirty(op, jobs[j])]]
  /\ UNCHANGED vars

\* session.commit().
RequestCommits(r) ==
  /\ req[r].pc = "read"
  /\ jobs' = [jobs EXCEPT ![req[r].job] = Written(req[r].dirty, @)]
  /\ req' = [req EXCEPT ![r] = [pc |-> "done"]]
  /\ UNCHANGED <<alive, future, exec, reaped>>

RequestStep ==
  \E r \in Requests :
    \/ \E op \in Operations, j \in Jobs : RequestReads(r, op, j)
    \/ RequestCommits(r)

EngineStep == Next /\ UNCHANGED req

SchedulerNext == EngineStep \/ RequestStep

SchedulerSpec == SchedulerInit /\ [][SchedulerNext]_allVars

-----------------------------------------------------------------------------
(* What survives the mix of requests and engine.                           *)

\* A RUNNING job always has a holder and a lease, whatever stale request was
\* mixed into its row, so the reaper can reach it.
RunningHasLease ==
  \A j \in Jobs : jobs[j].status = "RUNNING" =>
    jobs[j].locked_by # None /\ jobs[j].lease_expires_at # "null"

\* A COMPLETED job has an execution row that says so, even when its status
\* was written over and restored around the end of the attempt.
CompletedHasSuccess ==
  \A j \in Jobs : jobs[j].status = "COMPLETED" =>
    \E f \in Futures : future[f].job = j /\ exec[f] = "SUCCESS"

\* The engine leaves a job the user paused or cancelled, or that has
\* settled, as it is: threads and reapers move the row of a job that is
\* RUNNING, a claim that of a job that is SCHEDULED.
EngineRespectsUser ==
  [][\A j \in Jobs :
       jobs[j].status \in {"PAUSED"} \cup Settled /\ req' = req =>
         /\ jobs'[j].status = jobs[j].status
         /\ jobs'[j].locked_by = jobs[j].locked_by
         /\ jobs'[j].version = jobs[j].version]_allVars

-----------------------------------------------------------------------------
(* What the documentation says of the whole and requests refute, beside    *)
(* StatusMovesAllowed, DuplicateNeedsExpiry and HeldRowCloses, which hold  *)
(* of the engine alone.                                                    *)

\* A job that waits in the queue has a time at which a claim will find it.
QueuedIsNotDropped ==
  \A j \in Jobs : jobs[j].status = "SCHEDULED" => jobs[j].next_run_at # "null"
=============================================================================
