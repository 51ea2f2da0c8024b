----------------------------- MODULE LeaseQueue -----------------------------
(***************************************************************************)
(* What the engine promises, without rows, clocks or outcomes: a queue of  *)
(* jobs that are granted to workers under a lease, with a token that       *)
(* fences off whoever lost it.  This is the promise of the docstrings of   *)
(* JobRepository.claim_due and JobRunner._commit_outcome.                  *)
(*                                                                         *)
(* A client (one thread that runs a job) joins a grant of its worker and   *)
(* carries the token it saw, its ticket.  A job that is held is let go of  *)
(* in two ways only: by a client whose ticket is current, and is so no     *)
(* more, or by a revocation, once its lease has lapsed.                    *)
(***************************************************************************)
EXTENDS Naturals

CONSTANTS
  Jobs, Workers,
  Clients,          \* the threads that run jobs, over all workers
  None              \* no holder, no ticket

VARIABLES
  phase,    \* "queued", "held", or "out" of the queue for good
  holder,   \* the worker that holds the job
  token,    \* moves with every grant and every release
  lapsed,   \* whether the lease has run out
  ticket    \* what each client believes to hold

leaseVars == <<phase, holder, token, lapsed, ticket>>

Ticket == [worker : Workers, job : Jobs, token : Nat]

TypeOK ==
  /\ phase \in [Jobs -> {"queued", "held", "out"}]
  /\ holder \in [Jobs -> Workers \cup {None}]
  /\ token \in [Jobs -> Nat]
  /\ lapsed \in [Jobs -> BOOLEAN]
  /\ ticket \in [Clients -> Ticket \cup {None}]

Init ==
  /\ phase = [j \in Jobs |-> "queued"]
  /\ holder = [j \in Jobs |-> None]
  /\ token = [j \in Jobs |-> 0]
  /\ lapsed = [j \in Jobs |-> FALSE]
  /\ ticket = [c \in Clients |-> None]

\* The client's token is the one in force.
Current(c) ==
  /\ ticket[c] # None
  /\ phase[ticket[c].job] = "held"
  /\ holder[ticket[c].job] = ticket[c].worker
  /\ token[ticket[c].job] = ticket[c].token

\* A batch of queued jobs goes to worker w.
Grant(w, batch) ==
  /\ \A j \in batch : phase[j] = "queued"
  /\ phase' = [j \in Jobs |-> IF j \in batch THEN "held" ELSE phase[j]]
  /\ holder' = [j \in Jobs |-> IF j \in batch THEN w ELSE holder[j]]
  /\ token' = [j \in Jobs |-> IF j \in batch THEN token[j] + 1 ELSE token[j]]
  /\ lapsed' = [j \in Jobs |-> IF j \in batch THEN FALSE ELSE lapsed[j]]
  /\ UNCHANGED ticket

\* A thread of the holder learns the token.
Join(c, j) ==
  /\ ticket[c] = None
  /\ phase[j] = "held"
  /\ ticket' = [ticket EXCEPT ![c] = [worker |-> holder[j], job |-> j,
                                      token |-> token[j]]]
  /\ UNCHANGED <<phase, holder, token, lapsed>>

\* The client stays, or leaves in the same step.
MayLeave(c) == ticket' \in {ticket, [ticket EXCEPT ![c] = None]}

\* Threads end, or die, without an effect on any job: tickets go and none
\* changes.
Leave ==
  /\ ticket' = [c \in Clients |-> IF ticket'[c] = None THEN None ELSE ticket[c]]
  /\ UNCHANGED <<phase, holder, token, lapsed>>

Extend(c) ==
  /\ Current(c)
  /\ lapsed' = [lapsed EXCEPT ![ticket[c].job] = FALSE]
  /\ MayLeave(c)
  /\ UNCHANGED <<phase, holder, token>>

Lapse(j) ==
  /\ phase[j] = "held"
  /\ lapsed' = [lapsed EXCEPT ![j] = TRUE]
  /\ UNCHANGED <<phase, holder, token, ticket>>

\* The jobs of the batch are held no more; where each goes is not said.
LetGo(batch) ==
  /\ \A j \in batch : phase[j] = "held"
  /\ \E kept \in SUBSET batch :
       phase' = [j \in Jobs |-> IF j \in kept THEN "queued"
                                ELSE IF j \in batch THEN "out" ELSE phase[j]]
  /\ holder' = [j \in Jobs |-> IF j \in batch THEN None ELSE holder[j]]
  /\ token' = [j \in Jobs |-> IF j \in batch THEN token[j] + 1 ELSE token[j]]
  /\ lapsed' = [j \in Jobs |-> IF j \in batch THEN FALSE ELSE lapsed[j]]

\* The result of a client is accepted; whatever else it has under way is
\* fenced off.
Settle(c, j) ==
  /\ Current(c)
  /\ ticket[c].job = j
  /\ LetGo({j})
  /\ MayLeave(c)

Revoke(batch) ==
  /\ \A j \in batch : lapsed[j]
  /\ LetGo(batch)
  /\ UNCHANGED ticket

Next ==
  \/ \E w \in Workers, batch \in SUBSET Jobs : Grant(w, batch)
  \/ \E c \in Clients : Extend(c) \/ \E j \in Jobs : Join(c, j) \/ Settle(c, j)
  \/ Leave
  \/ \E j \in Jobs : Lapse(j)
  \/ \E batch \in SUBSET Jobs : Revoke(batch)

Spec == Init /\ [][Next]_leaseVars
=============================================================================
