------------------------------- MODULE Polling -------------------------------
(***************************************************************************)
(* The polling loop of the worker processes (app/worker/loop.py), with the *)
(* claim taken apart into its statements (JobRepository.claim_due).        *)
(*                                                                         *)
(* A cycle reaps if it is time to, counts the free slots, selects a batch  *)
(* of due rows, updates each if it is still as selected, commits, reads    *)
(* the rows back, and submits each to the pool.  Of the life of a job      *)
(* after that only its end is kept: module Engine has the rest.  A lease   *)
(* runs out here only when no thread works for it.                         *)
(***************************************************************************)
EXTENDS Naturals, FiniteSets, FiniteSetsExt

CONSTANTS
  Jobs, Workers, None,
  WorkerConcurrency,  \* threads of the pool of each worker
  BatchSize,          \* jobs claimed per poll
  ReapEvery,          \* reaper interval, in poll cycles
  MaxClaims,          \* bound: a job that was claimed so often settles
  Reliable            \* workers that are assumed not to crash

ASSUME PollingAssumption ==
  /\ WorkerConcurrency \in [Workers -> Nat \ {0}]
  /\ BatchSize \in Nat \ {0}
  /\ ReapEvery \in Nat \ {0}
  /\ MaxClaims \in Nat \ {0}
  /\ None \notin Workers
  /\ IsFiniteSet(Jobs)

VARIABLES
  row,        \* the committed rows of jobs; every SCHEDULED one is due
  locking,    \* whether SELECT ... FOR UPDATE SKIP LOCKED is in force
  lock,       \* the worker whose open transaction holds the row lock
  loop,       \* each worker: where its main thread is, and its locals
  pool,       \* the futures of each worker's pool
  inFlight,   \* the set in_flight of each worker
  stop,       \* stop_event of each worker
  cycles,     \* poll cycles since the last reap, up to ReapEvery
  orphaned    \* history: RUNNING jobs that an error left to nobody

pollVars ==
  <<row, locking, lock, loop, pool, inFlight, stop, cycles, orphaned>>

Row == [status    : {"SCHEDULED", "RUNNING", "SETTLED"},
        locked_by : Workers \cup {None},
        expired   : BOOLEAN,
        version   : 0 .. 2 * MaxClaims]

\* A job and a version: a row as it was selected, or a claim of it.
Claims == [job : Jobs, version : 0 .. 2 * MaxClaims]

Loop == [pc         : {"top", "poll", "update", "fetch", "submit", "register",
                       "wait", "draining", "stopped", "dead"},
         candidates : SUBSET Claims,  \* selected and not yet updated
         claimed    : SUBSET Claims]  \* updated and not yet in in_flight

\* Futures whose thread runs the job, or is about to call the callback.
Pool == [running : SUBSET Claims, finished : SUBSET Claims]

TypeOK ==
  /\ row \in [Jobs -> Row]
  /\ locking \in BOOLEAN
  /\ lock \in [Jobs -> Workers \cup {None}]
  /\ loop \in [Workers -> Loop]
  /\ pool \in [Workers -> Pool]
  /\ inFlight \in [Workers -> SUBSET Claims]
  /\ stop \in [Workers -> BOOLEAN]
  /\ cycles \in [Workers -> 0 .. ReapEvery]
  /\ orphaned \subseteq Jobs

-----------------------------------------------------------------------------
Init ==
  /\ row = [j \in Jobs |-> [status |-> "SCHEDULED", locked_by |-> None,
                            expired |-> FALSE, version |-> 0]]
  /\ locking \in BOOLEAN
  /\ lock = [j \in Jobs |-> None]
  /\ loop = [w \in Workers |->
               [pc |-> "top", candidates |-> {}, claimed |-> {}]]
  /\ pool = [w \in Workers |-> [running |-> {}, finished |-> {}]]
  /\ inFlight = [w \in Workers |-> {}]
  /\ stop = [w \in Workers |-> FALSE]
  /\ cycles = [w \in Workers |-> ReapEvery]
  /\ orphaned = {}

\* Only the main thread of w moves.
Goto(w, pc) == loop' = [loop EXCEPT ![w].pc = pc]

\* The retries never run out.
FaultyReleased(j) ==
  [status    : {"SCHEDULED", "SETTLED"},
   locked_by : {None}, expired : {FALSE}, version : {row[j].version + 1}]

\* The end of a lease: back to the queue, or settled when MaxClaims bounds
\* the retries.
Released(j) ==
  [status    : IF row[j].version < 2 * MaxClaims - 1
                 THEN {"SCHEDULED", "SETTLED"} ELSE {"SETTLED"},
   locked_by : {None}, expired : {FALSE}, version : {row[j].version + 1}]

\* while not stop_event.is_set()
LoopEnds(w) ==
  /\ loop[w].pc = "top" /\ stop[w]
  /\ Goto(w, "draining")
  /\ UNCHANGED <<row, locking, lock, pool, inFlight, stop, cycles, orphaned>>

\* _last_reap is set after the reap instead of before it.
FaultyReapFails(w) ==
  /\ loop[w].pc = "top" /\ ~stop[w] /\ cycles[w] = ReapEvery
  /\ Goto(w, "wait")
  /\ UNCHANGED <<row, locking, lock, pool, inFlight, stop, cycles, orphaned>>

\* _reap raises: the rest of the cycle is skipped.
ReapFails(w) ==
  /\ loop[w].pc = "top" /\ ~stop[w] /\ cycles[w] = ReapEvery
  /\ cycles' = [cycles EXCEPT ![w] = 0]
  /\ Goto(w, "wait")
  /\ UNCHANGED <<row, locking, lock, pool, inFlight, stop, orphaned>>

\* The lease is not looked at.
FaultyAbandoned == {j \in Jobs : row[j].status = "RUNNING"}

\* find_expired_leases
Abandoned == {j \in Jobs : row[j].status = "RUNNING" /\ row[j].expired}

\* _maybe_reap: every job with an expired lease, in one transaction.
Reap(w) ==
  /\ loop[w].pc = "top" /\ ~stop[w] /\ cycles[w] = ReapEvery
  /\ cycles' = [cycles EXCEPT ![w] = 0]
  /\ \E after \in [Abandoned -> UNION {Released(j) : j \in Jobs}] :
       /\ \A j \in Abandoned : after[j] \in Released(j)
       /\ row' = [j \in Jobs |-> IF j \in Abandoned THEN after[j] ELSE row[j]]
  /\ orphaned' = orphaned \ Abandoned
  /\ Goto(w, "poll")
  /\ UNCHANGED <<locking, lock, pool, inFlight, stop>>

\* _maybe_reap: not yet.
NoReap(w) ==
  /\ loop[w].pc = "top" /\ ~stop[w] /\ cycles[w] < ReapEvery
  /\ Goto(w, "poll")
  /\ UNCHANGED <<row, locking, lock, pool, inFlight, stop, cycles, orphaned>>

\* The batch is bounded by the size of the pool and not by its free slots.
FaultyLimit(w) == Min({BatchSize, WorkerConcurrency[w]})

\* run_once: how many jobs the claim may take.
Limit(w) ==
  LET free == WorkerConcurrency[w] - Cardinality(inFlight[w])
  IN Min({BatchSize, free})

\* The SELECT: due rows that are not locked, as many as there are up to the
\* limit.
Select(w) ==
  /\ loop[w].pc = "poll"
  /\ LET due == {j \in Jobs : /\ row[j].status = "SCHEDULED"
                              /\ locking => lock[j] = None}
         n == Min({Limit(w), Cardinality(due)})
     IN \E selected \in kSubset(n, due) :
          /\ loop' = [loop EXCEPT ![w].pc = IF n = 0 THEN "wait" ELSE "update",
                        ![w].candidates =
                          {[job |-> j, version |-> row[j].version] : j \in selected}]
          /\ lock' = [j \in Jobs |-> IF locking /\ j \in selected THEN w ELSE lock[j]]
  /\ UNCHANGED <<row, locking, pool, inFlight, stop, cycles, orphaned>>

\* The UPDATE without its WHERE on status and version.
FaultyMatches(c) == TRUE

\* The WHERE clause of the UPDATE, on the row as last committed.
Matches(c) ==
  row[c.job].status = "SCHEDULED" /\ row[c.job].version = c.version

\* The UPDATE of one candidate.  It waits for an open transaction that has
\* written the row; a row that has changed since it was selected is dropped.
Update(w, c) ==
  /\ loop[w].pc = "update" /\ c \in loop[w].candidates
  /\ lock[c.job] \in {None, w}
  /\ loop' = [loop EXCEPT ![w].candidates = @ \ {c},
                ![w].claimed = IF Matches(c)
                  THEN @ \cup {[job |-> c.job, version |-> row[c.job].version + 1]}
                  ELSE @]
  /\ lock' = [lock EXCEPT ![c.job] = IF Matches(c) THEN w ELSE @]
  /\ UNCHANGED <<row, locking, pool, inFlight, stop, cycles, orphaned>>

Unlock(w) == lock' = [j \in Jobs |-> IF lock[j] = w THEN None ELSE lock[j]]

\* The claimed rows become visible, all at once.
Commit(w) ==
  /\ loop[w].pc = "update" /\ loop[w].candidates = {}
  /\ row' = [j \in Jobs |->
       IF \E c \in loop[w].claimed : c.job = j
         THEN [status |-> "RUNNING", locked_by |-> w, expired |-> FALSE,
               version |-> row[j].version + 1]
         ELSE row[j]]
  /\ Unlock(w)
  /\ Goto(w, IF loop[w].claimed = {} THEN "wait" ELSE "fetch")
  /\ UNCHANGED <<locking, pool, inFlight, stop, cycles, orphaned>>

\* The open transactions of w and v wait for each other: each of the rows
\* that are left to update is locked.
Deadlocked(w, v) ==
  \A x \in {w, v} :
    /\ loop[x].pc = "update" /\ w # v
    /\ \A c \in loop[x].candidates : lock[c.job] \notin {None, x}
    /\ \E c \in loop[x].candidates : lock[c.job] \in {w, v}

\* A statement raises, or the database breaks a deadlock of two claims:
\* the transaction is rolled back.
ClaimFails(w) ==
  /\ loop[w].pc = "update"
  /\ Unlock(w)
  /\ loop' = [loop EXCEPT ![w] = [pc |-> "wait", candidates |-> {}, claimed |-> {}]]
  /\ UNCHANGED <<row, locking, pool, inFlight, stop, cycles, orphaned>>

\* The SELECT after the commit.
Fetch(w) ==
  /\ loop[w].pc = "fetch"
  /\ Goto(w, "submit")
  /\ UNCHANGED <<row, locking, lock, pool, inFlight, stop, cycles, orphaned>>

\* It raises, and nobody works for the claimed jobs.
FetchFails(w) ==
  /\ loop[w].pc = "fetch"
  /\ orphaned' = orphaned \cup {c.job : c \in loop[w].claimed}
  /\ loop' = [loop EXCEPT ![w] = [pc |-> "wait", candidates |-> {}, claimed |-> {}]]
  /\ UNCHANGED <<row, locking, lock, pool, inFlight, stop, cycles>>

\* pool.submit: a thread takes the job at once.
Submit(w, c) ==
  /\ loop[w].pc = "submit" /\ c \in loop[w].claimed
  /\ pool' = [pool EXCEPT ![w].running = @ \cup {c}]
  /\ loop' = [loop EXCEPT ![w].pc = "register", ![w].candidates = {c}]
  /\ UNCHANGED <<row, locking, lock, inFlight, stop, cycles, orphaned>>

\* The callback is added before the future is in the set.
FaultyRegister(w, c) ==
  /\ loop[w].pc = "register" /\ c \in loop[w].candidates
  /\ inFlight' = [inFlight EXCEPT ![w] = @ \cup {c}]
  /\ loop' = [loop EXCEPT ![w] = [pc |-> "submit", candidates |-> {},
                                  claimed |-> loop[w].claimed \ {c}]]
  /\ UNCHANGED <<row, locking, lock, pool, stop, cycles, orphaned>>

\* in_flight.add, then add_done_callback, which discards the future at once
\* when its thread has ended already.
Register(w, c) ==
  /\ loop[w].pc = "register" /\ c \in loop[w].candidates
  /\ inFlight' = [inFlight EXCEPT ![w] =
                    IF c \in pool[w].running THEN @ \cup {c} ELSE @]
  /\ loop' = [loop EXCEPT ![w] = [pc |-> "submit", candidates |-> {},
                                  claimed |-> loop[w].claimed \ {c}]]
  /\ UNCHANGED <<row, locking, lock, pool, stop, cycles, orphaned>>

AllSubmitted(w) ==
  /\ loop[w].pc = "submit" /\ loop[w].claimed = {}
  /\ Goto(w, "wait")
  /\ UNCHANGED <<row, locking, lock, pool, inFlight, stop, cycles, orphaned>>

\* The event is cleared after the wait, as if it were a wake-up call.
FaultyWait(w) ==
  /\ loop[w].pc = "wait"
  /\ cycles' = [cycles EXCEPT ![w] = Min({@ + 1, ReapEvery})]
  /\ stop' = [stop EXCEPT ![w] = FALSE]
  /\ Goto(w, "top")
  /\ UNCHANGED <<row, locking, lock, pool, inFlight, orphaned>>

\* stop_event.wait
Wait(w) ==
  /\ loop[w].pc = "wait"
  /\ cycles' = [cycles EXCEPT ![w] = Min({@ + 1, ReapEvery})]
  /\ Goto(w, "top")
  /\ UNCHANGED <<row, locking, lock, pool, inFlight, stop, orphaned>>

Ended(w, c) ==
  pool' = [pool EXCEPT ![w].running = @ \ {c},
             ![w].finished = IF c \in inFlight[w] THEN @ \cup {c} ELSE @]

\* The thread of a future writes the outcome of its job and ends.
TaskEnds(w, c) ==
  /\ c \in pool[w].running
  /\ \E after \in Released(c.job) : row' = [row EXCEPT ![c.job] = after]
  /\ Ended(w, c)
  /\ UNCHANGED <<locking, lock, loop, inFlight, stop, cycles, orphaned>>

\* A database error ends it before it could.
TaskErrs(w, c) ==
  /\ c \in pool[w].running
  /\ orphaned' = orphaned \cup {c.job}
  /\ Ended(w, c)
  /\ UNCHANGED <<row, locking, lock, loop, inFlight, stop, cycles>>

\* in_flight.discard, called by the thread of the future.
Callback(w, c) ==
  /\ c \in pool[w].finished
  /\ inFlight' = [inFlight EXCEPT ![w] = @ \ {c}]
  /\ pool' = [pool EXCEPT ![w].finished = @ \ {c}]
  /\ UNCHANGED <<row, locking, lock, loop, stop, cycles, orphaned>>

\* SIGTERM or SIGINT.
Signal(w) ==
  /\ loop[w].pc \notin {"stopped", "dead"}
  /\ stop' = [stop EXCEPT ![w] = TRUE]
  /\ UNCHANGED <<row, locking, lock, loop, pool, inFlight, cycles, orphaned>>

\* The process exits without waiting for its threads.
FaultyDrained(w) ==
  /\ loop[w].pc = "draining"
  /\ Goto(w, "stopped")
  /\ pool' = [pool EXCEPT ![w] = [running |-> {}, finished |-> {}]]
  /\ UNCHANGED <<row, locking, lock, inFlight, stop, cycles, orphaned>>

\* The pool's __exit__ has joined every thread.
Drained(w) ==
  /\ loop[w].pc = "draining" /\ pool[w] = [running |-> {}, finished |-> {}]
  /\ Goto(w, "stopped")
  /\ UNCHANGED <<row, locking, lock, pool, inFlight, stop, cycles, orphaned>>

\* kill -9: the database rolls back the open transaction.
Crash(w) ==
  /\ loop[w].pc \notin {"stopped", "dead"} /\ w \notin Reliable
  /\ loop' = [loop EXCEPT ![w] = [pc |-> "dead", candidates |-> {}, claimed |-> {}]]
  /\ pool' = [pool EXCEPT ![w] = [running |-> {}, finished |-> {}]]
  /\ inFlight' = [inFlight EXCEPT ![w] = {}]
  /\ Unlock(w)
  /\ UNCHANGED <<row, locking, stop, cycles, orphaned>>

\* The claims that the worker has made and, as far as it knows, is to run.
Work(w) ==
  pool[w].running \cup
    IF loop[w].pc \in {"fetch", "submit", "register"}
      THEN loop[w].claimed \ loop[w].candidates ELSE {}

LeaseExpires(j) ==
  /\ row[j].status = "RUNNING" /\ ~row[j].expired
  /\ \A c \in Work(row[j].locked_by) : c.job # j
  /\ row' = [row EXCEPT ![j].expired = TRUE]
  /\ UNCHANGED <<locking, lock, loop, pool, inFlight, stop, cycles, orphaned>>

MainStep(w) ==
  \/ LoopEnds(w) \/ Reap(w) \/ ReapFails(w) \/ NoReap(w)
  \/ Select(w)
  \/ \E c \in loop[w].candidates : Update(w, c) \/ Register(w, c)
  \/ Commit(w) \/ Fetch(w)
  \/ \E c \in loop[w].claimed : Submit(w, c)
  \/ AllSubmitted(w) \/ Wait(w) \/ Drained(w)

ThreadStep(w) ==
  \/ \E c \in pool[w].running : TaskEnds(w, c)
  \/ \E c \in pool[w].finished : Callback(w, c)

Next ==
  \/ \E w \in Workers :
       \/ MainStep(w) \/ ThreadStep(w)
       \/ ClaimFails(w) \/ FetchFails(w)
       \/ \E c \in pool[w].running : TaskErrs(w, c)
       \/ Signal(w) \/ Crash(w)
  \/ \E j \in Jobs : LeaseExpires(j)

Spec == Init /\ [][Next]_pollVars

\* Threads run and tasks end; the database gives a lock to those that wait
\* for it and breaks a deadlock; and claims do not fail, or deadlock, for
\* ever.  Nothing is assumed of the reaps.
Fairness ==
  /\ \A w \in Workers :
       /\ WF_pollVars(MainStep(w))
       /\ WF_pollVars(ThreadStep(w))
       /\ SF_pollVars(\E c \in Claims : Update(w, c))
       /\ \A v \in Workers : WF_pollVars(Deadlocked(w, v) /\ ClaimFails(w))
  /\ <>[][\A w \in Workers : ~ClaimFails(w)]_pollVars

FairSpec == Spec /\ Fairness

-----------------------------------------------------------------------------
\* Whatever a worker has claimed and is to run is its own: the row says so,
\* at the very version of the claim, and no other worker is to run it.  The
\* conditional UPDATE alone is enough for this, with locks or without.
WorkIsHeld ==
  \A w \in Workers : \A c \in Work(w) :
    /\ row[c.job].status = "RUNNING"
    /\ row[c.job].locked_by = w /\ row[c.job].version = c.version

\* A worker claims only what it has free threads for: no claimed job waits
\* in the queue of the pool, its lease running.
ThreadsSuffice ==
  \A w \in Workers :
    Cardinality(Work(w)) + Cardinality(pool[w].finished)
      <= WorkerConcurrency[w]

\* Every slot that is taken will be given back: a future stays in in_flight
\* only as long as its thread has yet to discard it.
SlotsComeBack ==
  \A w \in Workers :
    inFlight[w] \subseteq pool[w].running \cup pool[w].finished

\* A graceful stop leaves no job behind: what a stopped worker still holds
\* was left over by an error.
StoppedLeavesNothing ==
  \A w \in Workers, j \in Jobs :
    loop[w].pc = "stopped" /\ row[j].status = "RUNNING"
      /\ row[j].locked_by = w => j \in orphaned

\* The row of a job as the queue of leases sees it.
PhaseOf(status) == CASE status = "SCHEDULED" -> "queued"
                     [] status = "RUNNING"   -> "held"
                     [] OTHER                -> "out"

\* What the thread of w that runs job j believes to hold.
TicketOf(w, j) ==
  LET mine == {c \in pool[w].running : c.job = j}
  IN IF mine = {} THEN None
     ELSE [worker |-> w, job |-> j, token |-> (CHOOSE c \in mine : TRUE).version]

\* The claim by batches implements the abstract queue of leases.
LQ == INSTANCE LeaseQueue WITH
        Clients <- Workers \X Jobs,
        phase   <- [j \in Jobs |-> PhaseOf(row[j].status)],
        holder  <- [j \in Jobs |-> row[j].locked_by],
        token   <- [j \in Jobs |-> row[j].version],
        lapsed  <- [j \in Jobs |-> row[j].expired],
        ticket  <- [x \in Workers \X Jobs |-> TicketOf(x[1], x[2])]

\* What the null of locked_by is not.
ASSUME NoneIsNoTicket == None \notin LQ!Ticket

\* A batch appears all at once and takes queued jobs only, and a job that is
\* let go of was settled under the version of its claim or revoked.
ImplementsLeaseQueue == LQ!Spec

\* SIGTERM ends the process once its threads are done.
StopDrains ==
  \A w \in Workers : stop[w] ~> loop[w].pc \in {"stopped", "dead"}

\* A due job is claimed as long as a worker that does not crash was not told
\* to stop, even if every reap of every worker fails.
DueIsClaimed ==
  \A j \in Jobs :
    row[j].status = "SCHEDULED"
      ~> row[j].status # "SCHEDULED" \/ \A w \in Reliable : stop[w]
=============================================================================
