----------------------------- MODULE LoopProofs -----------------------------
(***************************************************************************)
(* For any jobs, workers, pools and batches: a worker claims no more than  *)
(* it has threads for, a graceful stop leaves no job behind, and the loop  *)
(* implements the abstract queue of leases.                                *)
(***************************************************************************)
EXTENDS PollingProofs, Integers, FiniteSetTheorems

\* What a worker has to run is with its pool or in the hands of its main
\* thread.
LEMMA WorkParts ==
  ASSUME NEW w \in Workers
  PROVE  /\ Work(w) = pool[w].running \cup Handed(w)
         /\ Work(w)' = pool'[w].running \cup Handed(w)'
BY DEF Work, Handed

-----------------------------------------------------------------------------
(* A graceful stop.                                                        *)

\* A RUNNING job of a live worker is in its hands, or lost by an error; and
\* a stopped worker has nothing left in its pool.
Attended ==
  \A w \in Workers :
    /\ loop[w].pc = "stopped" => pool[w].running = {}
    /\ loop[w].pc # "dead" =>
         \A j \in Jobs : row[j].status = "RUNNING" /\ row[j].locked_by = w =>
           j \in orphaned \/ \E c \in Work(w) : c.job = j

\* A job stays attended if it is not claimed in this step and nobody drops it.
LEMMA StaysAttended ==
  ASSUME Typed, Attended,
         \A j \in Jobs : row'[j].status = "RUNNING" =>
           /\ row[j].status = "RUNNING" /\ row'[j].locked_by = row[j].locked_by
           /\ j \in orphaned => j \in orphaned',
         \A w \in Workers : loop'[w].pc # "dead" =>
           /\ loop[w].pc # "dead"
           /\ loop'[w].pc = "stopped" => pool'[w].running = {}
           /\ \A c \in Work(w) : row'[c.job].status = "RUNNING" =>
                c \in Work(w)' \/ c.job \in orphaned'
  PROVE  Attended'
<1>1. ASSUME NEW w \in Workers, loop'[w].pc = "stopped" PROVE pool'[w].running = {}
  BY <1>1
<1>2. ASSUME NEW w \in Workers, loop'[w].pc # "dead",
             NEW j \in Jobs, row'[j].status = "RUNNING", row'[j].locked_by = w
      PROVE  j \in orphaned' \/ \E c \in Work(w)' : c.job = j
  <2>1. j \in orphaned \/ \E c \in Work(w) : c.job = j
    BY <1>2 DEF Attended
  <2> QED
    BY <1>2, <2>1
<1> QED
  BY <1>1, <1>2 DEF Attended

\* The steps of the main thread that neither claim nor drop anything.
LEMMA MainAttended ==
  ASSUME Inv, Attended, NEW w \in Workers, MainStep(w), ~Commit(w), ~Reap(w)
  PROVE  Attended'
<1> USE DEF Inv
<1>1. UNCHANGED <<row, orphaned>>
  BY DEF MainStep, LoopEnds, ReapFails, NoReap, Select, Update, Register, Fetch,
         Submit, AllSubmitted, Wait, Drained
<1>2. \A v \in Workers \ {w} : loop'[v] = loop[v] /\ pool'[v].running = pool[v].running
  BY DEF MainStep, LoopEnds, ReapFails, NoReap, Select, Update, Register, Fetch,
         Submit, AllSubmitted, Wait, Drained, Goto, Typed
<1>3. /\ loop[w].pc # "dead"
      /\ loop'[w].pc = "stopped" => pool'[w].running = {}
      /\ Work(w) \subseteq Work(w)'
  <2>1. ASSUME NEW pc \in Place, Goto(w, pc), UNCHANGED pool,
               loop[w].claimed = {} \/ (loop[w].pc = "fetch" /\ pc = "submit")
        PROVE  Work(w) \subseteq Work(w)' /\ loop'[w].pc = pc
    BY <2>1 DEF Work, Goto, Typed, LoopRec, LoopShape
  <2>2. CASE LoopEnds(w) \/ ReapFails(w) \/ NoReap(w) \/ AllSubmitted(w) \/ Wait(w)
    <3>1. \E pc \in Place \ {"stopped"} :
            Goto(w, pc) /\ UNCHANGED pool /\ loop[w].claimed = {} /\ loop[w].pc # "dead"
      BY <2>2
      DEF LoopEnds, ReapFails, NoReap, AllSubmitted, Wait, LoopShape, Place
    <3> QED
      BY <2>1, <3>1
  <2>3. CASE Fetch(w)
    BY <2>1, <2>3 DEF Fetch, Place
  <2>4. CASE Drained(w)
    <3>1. /\ loop[w].pc = "draining" /\ loop[w].claimed = {} /\ UNCHANGED pool
          /\ Goto(w, "stopped") /\ pool[w].running = {}
      BY <2>4 DEF Drained, LoopShape
    <3> QED
      BY <2>1, <3>1 DEF Place
  <2>5. CASE Select(w)
    <3>1. /\ loop[w].pc = "poll" /\ loop'[w].pc \in {"wait", "update"} /\ UNCHANGED pool
      BY <2>5 DEF Select, Typed, LoopRec
    <3> QED
      BY <3>1 DEF Work
  <2>6. ASSUME NEW c \in loop[w].candidates, Update(w, c)
        PROVE  /\ loop[w].pc # "dead" /\ loop'[w].pc # "stopped"
               /\ Work(w) \subseteq Work(w)'
    <3>1. loop[w].pc = "update" /\ loop'[w].pc = "update" /\ UNCHANGED pool
      BY <2>6 DEF Update, Typed, LoopRec
    <3> QED
      BY <3>1 DEF Work
  <2>7. ASSUME NEW c \in loop[w].candidates, Register(w, c)
        PROVE  /\ loop[w].pc # "dead" /\ loop'[w].pc # "stopped"
               /\ Work(w) \subseteq Work(w)'
    <3>1. /\ loop[w].pc = "register" /\ loop[w].candidates = {c} /\ UNCHANGED pool
          /\ loop'[w] = [pc |-> "submit", candidates |-> {},
                         claimed |-> loop[w].claimed \ {c}]
      BY <2>7 DEF Register, Typed, LoopShape
    <3> QED
      BY <3>1 DEF Work
  <2>8. ASSUME NEW c \in loop[w].claimed, Submit(w, c)
        PROVE  /\ loop[w].pc # "dead" /\ loop'[w].pc # "stopped"
               /\ Work(w) \subseteq Work(w)'
    <3>1. /\ loop[w].pc = "submit" /\ loop[w].candidates = {}
          /\ loop'[w].pc = "register" /\ loop'[w].candidates = {c}
          /\ loop'[w].claimed = loop[w].claimed
          /\ pool'[w].running = pool[w].running \cup {c}
      BY <2>8 DEF Submit, Typed, LoopRec, LoopShape
    <3> QED
      BY <3>1 DEF Work
  <2> QED
    BY <2>2, <2>3, <2>4, <2>5, <2>6, <2>7, <2>8 DEF MainStep
<1>4. \A v \in Workers \ {w} : Work(v)' = Work(v)
  BY <1>2 DEF Work
<1> QED
  BY <1>1, <1>2, <1>3, <1>4, StaysAttended DEF Attended

\* A commit puts what it claims into the hands of the main thread.
LEMMA CommitAttended ==
  ASSUME Inv, Attended, NEW w \in Workers, Commit(w) PROVE Attended'
<1> USE DEF Inv
<1> DEFINE mine == {c.job : c \in loop[w].claimed}
<1>1. /\ loop[w].pc = "update" /\ loop[w].candidates = {}
      /\ loop' = [loop EXCEPT ![w].pc =
                    IF loop[w].claimed = {} THEN "wait" ELSE "fetch"]
      /\ UNCHANGED <<pool, orphaned>>
  BY DEF Commit, Goto
<1>2. /\ Work(w) \subseteq Work(w)' /\ loop[w].claimed \subseteq Work(w)'
      /\ loop'[w].pc \in {"wait", "fetch"}
      /\ \A v \in Workers \ {w} : loop'[v] = loop[v] /\ Work(v)' = Work(v)
  BY <1>1 DEF Work, Typed, LoopRec
<1>3. /\ \A j \in Jobs \ mine : row'[j] = row[j]
      /\ \A j \in mine \cap Jobs : row'[j].locked_by = w
  BY DEF Commit
<1>4. ASSUME NEW v \in Workers, loop'[v].pc # "dead",
             NEW j \in Jobs, row'[j].status = "RUNNING", row'[j].locked_by = v
      PROVE  j \in orphaned' \/ \E c \in Work(v)' : c.job = j
  <2>1. CASE j \in mine
    BY <1>2, <1>3, <1>4, <2>1
  <2>2. CASE j \notin mine
    <3>1. row[j].status = "RUNNING" /\ row[j].locked_by = v /\ loop[v].pc # "dead"
      BY <1>1, <1>2, <1>3, <1>4, <2>2
    <3>2. j \in orphaned \/ \E c \in Work(v) : c.job = j
      BY <3>1 DEF Attended
    <3> QED
      BY <1>1, <1>2, <3>2
  <2> QED
    BY <2>1, <2>2
<1> QED
  BY <1>1, <1>2, <1>4 DEF Attended

LEMMA ReapAttended ==
  ASSUME Inv, Attended, NEW w \in Workers, Reap(w) PROVE Attended'
<1> USE DEF Inv
<1>1. PICK after \in [Abandoned -> UNION {Released(j) : j \in Jobs}] :
        /\ \A j \in Abandoned : after[j] \in Released(j)
        /\ row' = [j \in Jobs |-> IF j \in Abandoned THEN after[j] ELSE row[j]]
  BY DEF Reap
<1>2. /\ loop' = [loop EXCEPT ![w].pc = "poll"] /\ loop[w].pc = "top"
      /\ UNCHANGED pool /\ orphaned' = orphaned \ Abandoned
  BY DEF Reap, Goto
<1>3. \A j \in Abandoned : after[j].status # "RUNNING"
  BY <1>1 DEF Released, Abandoned
<1>4. \A j \in Jobs : row'[j].status = "RUNNING" =>
        j \notin Abandoned /\ row'[j] = row[j]
  BY <1>1, <1>3
<1>5. \A v \in Workers : /\ Work(v)' = Work(v)
                         /\ loop'[v].pc = loop[v].pc \/ (v = w /\ loop'[v].pc = "poll")
  BY <1>2 DEF Work, Typed, LoopRec
<1> QED
  BY <1>2, <1>4, <1>5, StaysAttended DEF Attended

\* The ends of claims, of threads and of leases.
LEMMA OthersAttended ==
  ASSUME Inv, Attended, NEW w \in Workers,
         \/ ThreadStep(w) \/ ClaimFails(w) \/ FetchFails(w) \/ Crash(w)
         \/ (\E c \in pool[w].running : TaskErrs(w, c)) \/ Signal(w)
  PROVE  Attended'
<1> USE DEF Inv
<1>1. ASSUME NEW c \in pool[w].running, TaskEnds(w, c) PROVE Attended'
  <2>1. PICK after \in Released(c.job) : row' = [row EXCEPT ![c.job] = after]
    BY <1>1 DEF TaskEnds
  <2>2. c.job \in Jobs /\ after.status # "RUNNING"
    BY <2>1 DEF Released, Typed, AnyClaim
  <2>3. row'[c.job].status # "RUNNING" /\ \A j \in Jobs \ {c.job} : row'[j] = row[j]
    BY <2>1, <2>2 DEF Typed
  <2>4. Ended(w, c) /\ UNCHANGED <<loop, orphaned>>
    BY <1>1 DEF TaskEnds
  <2>5. \A v \in Workers : /\ Work(v) \ {c} \subseteq Work(v)'
                           /\ pool'[v].running \subseteq pool[v].running
    BY <2>4, EndedFacts DEF Work
  <2> QED
    BY <2>3, <2>4, <2>5, StaysAttended DEF Attended
<1>2. ASSUME NEW c \in pool[w].running, TaskErrs(w, c) PROVE Attended'
  <2>1. /\ Ended(w, c) /\ UNCHANGED <<row, loop>>
        /\ orphaned' = orphaned \cup {c.job}
    BY <1>2 DEF TaskErrs
  <2>2. \A v \in Workers : /\ Work(v) \ {c} \subseteq Work(v)'
                           /\ pool'[v].running \subseteq pool[v].running
    BY <2>1, EndedFacts DEF Work
  <2> QED
    BY <2>1, <2>2, StaysAttended DEF Attended
<1>3. ASSUME NEW c \in pool[w].finished, Callback(w, c) PROVE Attended'
  <2>1. \A v \in Workers : pool'[v].running = pool[v].running /\ Work(v)' = Work(v)
    BY <1>3 DEF Callback, Typed, Work
  <2> QED
    BY <1>3, <2>1, StaysAttended DEF Callback, Attended
<1>4. CASE Signal(w)
  BY <1>4 DEF Signal, Attended, Work
<1>5. CASE ClaimFails(w) \/ FetchFails(w) \/ Crash(w)
  <2>1. /\ UNCHANGED row /\ orphaned \subseteq orphaned'
        /\ \A v \in Workers \ {w} : loop'[v] = loop[v] /\ pool'[v] = pool[v]
    BY <1>5 DEF ClaimFails, FetchFails, Crash, Typed
  <2>2. \A v \in Workers \ {w} : Work(v)' = Work(v)
    BY <2>1 DEF Work
  <2>3. loop'[w].pc # "dead" =>
          /\ loop[w].pc # "dead" /\ loop'[w].pc # "stopped"
          /\ \A c \in Work(w) : c \in Work(w)' \/ c.job \in orphaned'
    <3>1. CASE ClaimFails(w)
      BY <3>1 DEF ClaimFails, Typed, Work
    <3>2. CASE FetchFails(w)
      <4>1. /\ loop[w].pc = "fetch" /\ loop'[w].pc = "wait" /\ UNCHANGED pool
            /\ orphaned' = orphaned \cup {c.job : c \in loop[w].claimed}
        BY <3>2 DEF FetchFails, Typed
      <4> QED
        BY <4>1 DEF Work
    <3>3. CASE Crash(w)
      BY <3>3 DEF Crash, Typed
    <3> QED
      BY <1>5, <3>1, <3>2, <3>3
  <2> QED
    BY <2>1, <2>2, <2>3, StaysAttended DEF Attended
<1> QED
  BY <1>1, <1>2, <1>3, <1>4, <1>5 DEF ThreadStep

\* What SIGTERM leaves RUNNING under the name of a stopped worker was left
\* there by an error before: the drain waits for every thread, and nothing
\* is lost between the commit of a claim and its submission.
THEOREM StopLeavesNothing == Spec => []StoppedLeavesNothing
<1>1. Init => Attended
  BY DEF Init, Attended
<1>2. Inv /\ Attended /\ [Next]_pollVars => Attended'
  <2> SUFFICES ASSUME Inv, Attended, [Next]_pollVars PROVE Attended'
    OBVIOUS
  <2>1. CASE UNCHANGED pollVars
    BY <2>1 DEF pollVars, Attended, Work
  <2>2. CASE \E j \in Jobs : LeaseExpires(j)
    <3>1. PICK j \in Jobs : LeaseExpires(j)
      BY <2>2
    <3>2. \A i \in Jobs : /\ row'[i].status = row[i].status
                          /\ row'[i].locked_by = row[i].locked_by
      BY <3>1 DEF LeaseExpires, Inv, Typed, RowRec
    <3> QED
      BY <3>1, <3>2 DEF LeaseExpires, Attended, Work
  <2> QED
    BY <2>1, <2>2, MainAttended, CommitAttended, ReapAttended, OthersAttended
    DEF Next
<1>3. Inv /\ Attended => StoppedLeavesNothing
  BY DEF Inv, Attended, StoppedLeavesNothing, Work
<1> QED
  BY <1>1, <1>2, <1>3, InitInv, NextInv, PTL DEF Spec

-----------------------------------------------------------------------------
(* Slots and threads.                                                      *)

\* The slots that are promised to the claim in progress.
Promised(w) ==
  IF loop[w].pc = "update"
    THEN Cardinality(loop[w].candidates) + Cardinality(loop[w].claimed)
    ELSE Cardinality(loop[w].claimed)

\* Taken and promised slots are within the pool.
Counted(w) ==
  /\ IsFiniteSet(loop[w].candidates) /\ IsFiniteSet(loop[w].claimed)
  /\ IsFiniteSet(inFlight[w])
  /\ Promised(w) + Cardinality(inFlight[w]) <= WorkerConcurrency[w]

\* What is with the pool is in in_flight, except for the one future that the
\* main thread is about to register; and nothing has both ended and not.
Known(w) ==
  /\ pool[w].finished \subseteq inFlight[w]
  /\ pool[w].running \subseteq
       inFlight[w] \cup IF loop[w].pc = "register" THEN loop[w].candidates ELSE {}
  /\ pool[w].running \cap pool[w].finished = {}

\* What is to be submitted is newer than anything in in_flight.
Newer(w) ==
  /\ loop[w].pc \in {"fetch", "submit", "register"} =>
       loop[w].claimed \cap inFlight[w] = {}
  /\ \A c \in inFlight[w] : c.version <= row[c.job].version

Slots == \A w \in Workers : Counted(w) /\ Known(w) /\ Newer(w)

\* The smaller of two numbers.
LEMMA MinOfTwo ==
  ASSUME NEW x \in Int, NEW y \in Int
  PROVE  Min({x, y}) \in {x, y} /\ Min({x, y}) <= x /\ Min({x, y}) <= y
<1>1. \E z \in {x, y} : \A u \in {x, y} : z <= u
  BY x <= y \/ y <= x
<1> QED
  BY <1>1 DEF Min

\* Versions never go back.
LEMMA VersionsGrow ==
  ASSUME Typed, [Next]_pollVars
  PROVE  \A j \in Jobs : row[j].version \in Nat /\ row'[j].version \in Nat
                         /\ row[j].version <= row'[j].version
<1> SUFFICES ASSUME NEW j \in Jobs
             PROVE  /\ row[j].version \in Nat /\ row'[j].version \in Nat
                    /\ row[j].version <= row'[j].version
  OBVIOUS
<1>1. row[j].version \in Nat
  BY DEF Typed, RowRec
<1>2. row'[j].version \in {row[j].version, row[j].version + 1}
  <2>1. CASE UNCHANGED row
    BY <2>1
  <2>2. ASSUME NEW w \in Workers, Reap(w)
        PROVE  row'[j].version \in {row[j].version, row[j].version + 1}
    <3>1. PICK after \in [Abandoned -> UNION {Released(i) : i \in Jobs}] :
            /\ \A i \in Abandoned : after[i] \in Released(i)
            /\ row' = [i \in Jobs |-> IF i \in Abandoned THEN after[i] ELSE row[i]]
      BY <2>2 DEF Reap
    <3>2. CASE j \in Abandoned
      BY <3>1, <3>2 DEF Released
    <3>3. CASE j \notin Abandoned
      BY <3>1, <3>3
    <3> QED
      BY <3>2, <3>3
  <2>3. ASSUME NEW w \in Workers, Commit(w)
        PROVE  row'[j].version \in {row[j].version, row[j].version + 1}
    BY <2>3 DEF Commit
  <2>4. ASSUME NEW w \in Workers, NEW c \in pool[w].running, TaskEnds(w, c)
        PROVE  row'[j].version \in {row[j].version, row[j].version + 1}
    BY <2>4 DEF TaskEnds, Released, Typed
  <2>5. ASSUME NEW i \in Jobs, LeaseExpires(i)
        PROVE  row'[j].version \in {row[j].version, row[j].version + 1}
    BY <2>5 DEF LeaseExpires, Typed, RowRec
  <2>6. ASSUME NEW w \in Workers, MainStep(w), ~Reap(w), ~Commit(w)
        PROVE  UNCHANGED row
    BY <2>6 DEF MainStep, LoopEnds, ReapFails, NoReap, Select, Update, Register,
                Fetch, Submit, AllSubmitted, Wait, Drained
  <2>7. ASSUME NEW w \in Workers,
               \/ ClaimFails(w) \/ FetchFails(w) \/ Signal(w) \/ Crash(w)
               \/ \E c \in pool[w].running : TaskErrs(w, c)
               \/ \E c \in pool[w].finished : Callback(w, c)
        PROVE  UNCHANGED row
    BY <2>7 DEF ClaimFails, FetchFails, Signal, Crash, TaskErrs, Callback
  <2>8. CASE UNCHANGED pollVars
    BY <2>1, <2>8 DEF pollVars
  <2> QED
    BY <2>1, <2>2, <2>3, <2>4, <2>5, <2>6, <2>7, <2>8 DEF Next, ThreadStep
<1> QED
  BY <1>1, <1>2

\* A worker that does nothing has its slots as they were.
LEMMA OthersSlots ==
  ASSUME Inv, [Next]_pollVars, NEW v \in Workers, Counted(v), Known(v), Newer(v),
         loop'[v] = loop[v], pool'[v] = pool[v], inFlight'[v] = inFlight[v]
  PROVE  Counted(v)' /\ Known(v)' /\ Newer(v)'
<1>1. \A c \in inFlight[v] : c.job \in Jobs /\ c.version \in Nat
  BY DEF Inv, Typed, AnyClaim
<1> QED
  BY <1>1, VersionsGrow DEF Inv, Counted, Promised, Known, Newer

\* The main thread goes on, with no more promised than before.
LEMMA PromisesKept ==
  ASSUME Inv, [Next]_pollVars, NEW w \in Workers, Counted(w), Known(w), Newer(w),
         pool'[w] = pool[w], inFlight'[w] = inFlight[w],
         loop[w].pc # "register", loop'[w].pc \notin {"register", "update"},
         \/ loop'[w].candidates = {} /\ loop'[w].claimed = {}
         \/ /\ loop'[w].candidates = loop[w].candidates
            /\ loop'[w].claimed = loop[w].claimed
            /\ loop[w].pc \in {"fetch", "submit"} \/ loop[w].claimed = {}
  PROVE  Counted(w)' /\ Known(w)' /\ Newer(w)'
<1>1. \A c \in inFlight[w] : c.job \in Jobs /\ c.version \in Nat
  BY DEF Inv, Typed, AnyClaim
<1>2. Known(w)'
  BY DEF Known
<1>3. Newer(w)'
  BY <1>1, VersionsGrow DEF Inv, Newer
<1>4. /\ Cardinality(loop[w].candidates) \in Nat /\ Cardinality(loop[w].claimed) \in Nat
      /\ Cardinality(inFlight[w]) \in Nat /\ WorkerConcurrency[w] \in Nat
      /\ IsFiniteSet({}) /\ Cardinality({}) = 0
  BY FS_CardinalityType, FS_EmptySet, PollingAssumption DEF Counted
<1>5. Promised(w)' <= Promised(w) /\ Promised(w)' \in Nat /\ Promised(w) \in Nat
  <2>1. Promised(w)' = Cardinality(loop'[w].claimed)
    BY DEF Promised
  <2>2. Promised(w) \in Nat /\ Cardinality(loop[w].claimed) <= Promised(w)
    BY <1>4 DEF Promised
  <2>3. Cardinality(loop'[w].claimed) \in {0, Cardinality(loop[w].claimed)}
    BY <1>4
  <2> QED
    BY <1>4, <2>1, <2>2, <2>3
<1>6. Counted(w)'
  <2>1. /\ IsFiniteSet(loop'[w].candidates) /\ IsFiniteSet(loop'[w].claimed)
        /\ IsFiniteSet(inFlight'[w])
    BY <1>4 DEF Counted
  <2>2. Promised(w) + Cardinality(inFlight[w]) <= WorkerConcurrency[w]
    BY DEF Counted
  <2>3. Promised(w)' + Cardinality(inFlight'[w]) <= WorkerConcurrency[w]
    BY <1>4, <1>5, <2>2
  <2> QED
    BY <2>1, <2>3 DEF Counted
<1> QED
  BY <1>2, <1>3, <1>6

\* The SELECT promises no more than the free slots.
LEMMA SelectSlots ==
  ASSUME Inv, [Next]_pollVars, NEW w \in Workers, Counted(w), Known(w), Newer(w),
         Select(w)
  PROVE  Counted(w)' /\ Known(w)' /\ Newer(w)'
<1> DEFINE due == {j \in Jobs : /\ row[j].status = "SCHEDULED"
                                /\ locking => lock[j] = None}
           n == Min({Limit(w), Cardinality(due)})
           free == WorkerConcurrency[w] - Cardinality(inFlight[w])
<1>1. PICK selected \in kSubset(n, due) :
        loop' = [loop EXCEPT ![w].pc = IF n = 0 THEN "wait" ELSE "update",
                   ![w].candidates =
                     {[job |-> j, version |-> row[j].version] : j \in selected}]
  BY DEF Select
<1>2. /\ UNCHANGED <<row, pool, inFlight>>
      /\ loop[w].pc = "poll" /\ loop[w].claimed = {}
  BY DEF Inv, Select, LoopShape
<1> DEFINE found == {[job |-> j, version |-> row[j].version] : j \in selected}
<1>3. /\ loop'[w].pc \in {"wait", "update"} /\ loop'[w].claimed = {}
      /\ loop'[w].candidates = found
  BY <1>1, <1>2 DEF Inv, Typed, LoopRec
<1>4. IsFiniteSet(due) /\ Cardinality(due) \in Nat
  <2>1. due \in SUBSET Jobs
    OBVIOUS
  <2> HIDE DEF due
  <2> QED
    BY <2>1, FS_Subset, FS_CardinalityType, PollingAssumption
<1>5. /\ Cardinality(inFlight[w]) \in Nat /\ WorkerConcurrency[w] \in Nat
      /\ free \in Nat
  <2>1. /\ Cardinality(inFlight[w]) \in Nat /\ WorkerConcurrency[w] \in Nat
        /\ Promised(w) = 0
    BY <1>2, FS_CardinalityType, FS_EmptySet, PollingAssumption DEF Counted, Promised
  <2> QED
    BY <2>1 DEF Counted
<1>6. Cardinality(selected) <= free /\ IsFiniteSet(selected) /\ Cardinality(selected) \in Nat
  <2>1. selected \in SUBSET due /\ Cardinality(selected) = n
    BY DEF kSubset
  <2>2. IsFiniteSet(selected) /\ Cardinality(selected) \in Nat
    <3> HIDE DEF due
    <3> QED
      BY <1>4, <2>1, FS_Subset, FS_CardinalityType
  <2>3. Limit(w) <= free /\ Limit(w) \in Int
    <3>1. BatchSize \in Int /\ free \in Int /\ Limit(w) = Min({BatchSize, free})
      BY <1>5, PollingAssumption DEF Limit
    <3> HIDE DEF free
    <3> QED
      BY <3>1, MinOfTwo
  <2>4. n <= Limit(w)
    <3> HIDE DEF due
    <3> QED
      BY <1>4, <2>3, MinOfTwo
  <2> HIDE DEF n, free
  <2> QED
    BY <1>5, <2>1, <2>2, <2>3, <2>4
<1>7. IsFiniteSet(found) /\ Cardinality(found) <= Cardinality(selected)
      /\ Cardinality(found) \in Nat
  <2> DEFINE f == [j \in selected |-> [job |-> j, version |-> row[j].version]]
  <2>1. f \in Surjection(selected, found)
    BY DEF Surjection
  <2> HIDE DEF f, found
  <2> QED
    BY <1>6, <2>1, FS_Surjection, FS_CardinalityType
<1> HIDE DEF found, n, due
<1>8. Counted(w)'
  <2>1. /\ IsFiniteSet({}) /\ Cardinality({}) = 0
    BY FS_EmptySet
  <2>2. Promised(w)' <= Cardinality(found) /\ Promised(w)' \in Nat
    BY <1>3, <1>7, <2>1 DEF Promised
  <2> QED
    BY <1>2, <1>3, <1>5, <1>6, <1>7, <2>1, <2>2 DEF Counted
<1>9. Known(w)'
  BY <1>2, <1>3 DEF Known
<1>10. Newer(w)'
  BY <1>2, <1>3 DEF Newer
<1> QED
  BY <1>8, <1>9, <1>10

\* One element more, or one less.
LEMMA OneMore ==
  ASSUME NEW S, IsFiniteSet(S), NEW e, NEW T \in {S, S \cup {e}}
  PROVE  /\ IsFiniteSet(T) /\ Cardinality(S) \in Nat /\ Cardinality(T) \in Nat
         /\ Cardinality(T) <= Cardinality(S) + 1
<1>1. Cardinality(S) \in Nat
  BY FS_CardinalityType
<1>2. /\ IsFiniteSet(S \cup {e})
      /\ Cardinality(S \cup {e}) \in {Cardinality(S), Cardinality(S) + 1}
  BY FS_AddElement
<1> QED
  BY <1>1, <1>2

LEMMA OneLess ==
  ASSUME NEW S, IsFiniteSet(S), NEW e \in S
  PROVE  /\ IsFiniteSet(S \ {e})
         /\ Cardinality(S) \in Nat /\ Cardinality(S \ {e}) \in Nat
         /\ Cardinality(S \ {e}) = Cardinality(S) - 1
<1>1. /\ IsFiniteSet(S \ {e})
      /\ Cardinality(S \ {e}) = IF e \in S THEN Cardinality(S) - 1 ELSE Cardinality(S)
  BY FS_RemoveElement
<1>2. Cardinality(S) \in Nat /\ Cardinality(S \ {e}) \in Nat
  BY <1>1, FS_CardinalityType
<1> QED
  BY <1>1, <1>2

\* No more is promised than before, and as much is taken.
LEMMA PromiseKept ==
  ASSUME NEW w \in Workers, Counted(w), inFlight'[w] = inFlight[w],
         Promised(w)' <= Promised(w), Promised(w) \in Nat, Promised(w)' \in Nat,
         IsFiniteSet(loop'[w].candidates), IsFiniteSet(loop'[w].claimed)
  PROVE  Counted(w)'
<1>1. Cardinality(inFlight[w]) \in Nat /\ WorkerConcurrency[w] \in Nat
  BY FS_CardinalityType, PollingAssumption DEF Counted
<1>2. Promised(w) + Cardinality(inFlight[w]) <= WorkerConcurrency[w]
  BY DEF Counted
<1>3. Promised(w)' + Cardinality(inFlight'[w]) <= WorkerConcurrency[w]
  BY <1>1, <1>2
<1>4. IsFiniteSet(inFlight'[w])
  BY DEF Counted
<1> QED
  BY <1>3, <1>4 DEF Counted

\* The UPDATE of a candidate moves its promise, or gives it back.
LEMMA UpdateSlots ==
  ASSUME Inv, NEW w \in Workers, NEW c \in loop[w].candidates, Update(w, c),
         Counted(w), Known(w), Newer(w)
  PROVE  Counted(w)' /\ Known(w)' /\ Newer(w)'
<1> DEFINE new == [job |-> c.job, version |-> row[c.job].version + 1]
<1>1. /\ loop[w].pc = "update" /\ loop'[w].pc = "update"
      /\ loop'[w].candidates = loop[w].candidates \ {c}
      /\ loop'[w].claimed \in {loop[w].claimed, loop[w].claimed \cup {new}}
      /\ UNCHANGED <<row, pool, inFlight>>
  BY DEF Update, Inv, Typed, LoopRec
<1> HIDE DEF new
<1>2. /\ IsFiniteSet(loop'[w].candidates)
      /\ Cardinality(loop'[w].candidates) = Cardinality(loop[w].candidates) - 1
      /\ Cardinality(loop[w].candidates) \in Nat
  BY <1>1, OneLess DEF Counted
<1>3. /\ IsFiniteSet(loop'[w].claimed)
      /\ Cardinality(loop'[w].claimed) <= Cardinality(loop[w].claimed) + 1
      /\ Cardinality(loop[w].claimed) \in Nat /\ Cardinality(loop'[w].claimed) \in Nat
  BY <1>1, OneMore DEF Counted
<1>4. /\ Cardinality(inFlight[w]) \in Nat /\ IsFiniteSet(inFlight'[w])
      /\ WorkerConcurrency[w] \in Nat
  BY <1>1, FS_CardinalityType, PollingAssumption DEF Counted
<1>5. Promised(w)' <= Promised(w) /\ Promised(w)' \in Nat /\ Promised(w) \in Nat
  <2>1. /\ Promised(w)' = Cardinality(loop'[w].candidates) + Cardinality(loop'[w].claimed)
        /\ Promised(w) = Cardinality(loop[w].candidates) + Cardinality(loop[w].claimed)
    BY <1>1 DEF Promised
  <2>2. Cardinality(loop'[w].candidates) \in Nat
    BY <1>2, FS_CardinalityType
  <2> QED
    BY <1>2, <1>3, <2>1, <2>2
<1>6. Counted(w)'
  BY <1>1, <1>2, <1>3, <1>4, <1>5, PromiseKept
<1> QED
  BY <1>1, <1>6 DEF Known, Newer

\* What is committed was promised a slot, and is newer than what has one.
LEMMA CommitSlots ==
  ASSUME Inv, [Next]_pollVars, NEW w \in Workers, Commit(w),
         Counted(w), Known(w), Newer(w)
  PROVE  Counted(w)' /\ Known(w)' /\ Newer(w)'
<1>1. /\ loop[w].pc = "update" /\ loop[w].candidates = {}
      /\ loop'[w].pc \in {"wait", "fetch"}
      /\ loop'[w].candidates = {} /\ loop'[w].claimed = loop[w].claimed
      /\ UNCHANGED <<pool, inFlight>>
  BY DEF Commit, Goto, Inv, Typed, LoopRec
<1>2. /\ Cardinality(loop[w].claimed) \in Nat /\ Cardinality(inFlight[w]) \in Nat
      /\ IsFiniteSet({}) /\ Cardinality({}) = 0
  BY FS_CardinalityType, FS_EmptySet DEF Counted
<1>3. Promised(w)' = Promised(w)
  BY <1>1, <1>2 DEF Promised
<1>4. Counted(w)'
  BY <1>1, <1>2, <1>3 DEF Counted
<1>5. \A c \in inFlight[w] : c.job \in Jobs /\ c.version \in Nat
  BY DEF Inv, Typed, AnyClaim
<1>6. \A c \in loop[w].claimed :
        /\ c.job \in Jobs /\ row[c.job].version \in Nat
        /\ c.version = row[c.job].version + 1
  BY <1>1 DEF Inv, UpdateLocked, Typed, LoopRec, AnyClaim, RowRec
<1>7. loop[w].claimed \cap inFlight[w] = {}
  <2> SUFFICES ASSUME NEW c \in loop[w].claimed, c \in inFlight[w] PROVE FALSE
    OBVIOUS
  <2>1. c.version <= row[c.job].version
    BY DEF Newer
  <2> QED
    BY <1>6, <2>1
<1>8. Newer(w)'
  BY <1>1, <1>5, <1>7, VersionsGrow DEF Inv, Newer
<1> QED
  BY <1>1, <1>4, <1>8 DEF Known

\* A future that is submitted and not registered is known by its promise.
LEMMA SubmitSlots ==
  ASSUME Inv, NEW w \in Workers, NEW c \in loop[w].claimed, Submit(w, c),
         Counted(w), Known(w), Newer(w)
  PROVE  Counted(w)' /\ Known(w)' /\ Newer(w)'
<1>1. /\ loop[w].pc = "submit" /\ loop'[w].pc = "register"
      /\ loop'[w].candidates = {c} /\ loop'[w].claimed = loop[w].claimed
      /\ pool'[w].running = pool[w].running \cup {c}
      /\ pool'[w].finished = pool[w].finished
      /\ UNCHANGED <<row, inFlight>>
  BY DEF Submit, Inv, Typed, LoopRec
<1>2. c \notin inFlight[w]
  BY <1>1 DEF Newer
<1>3. Known(w)'
  BY <1>1, <1>2 DEF Known
<1>4. Counted(w)'
  <2>1. Promised(w)' = Promised(w) /\ Promised(w) \in Nat
    BY <1>1, FS_CardinalityType DEF Counted, Promised
  <2>2. IsFiniteSet({c})
    BY FS_Singleton
  <2> QED
    BY <1>1, <2>1, <2>2 DEF Counted
<1>5. Newer(w)'
  BY <1>1 DEF Newer
<1> QED
  BY <1>3, <1>4, <1>5

\* The registration turns the promise into a slot, unless the thread was
\* faster.
LEMMA RegisterSlots ==
  ASSUME Inv, NEW w \in Workers, NEW c \in loop[w].candidates, Register(w, c),
         Counted(w), Known(w), Newer(w)
  PROVE  Counted(w)' /\ Known(w)' /\ Newer(w)'
<1>1. /\ loop[w].pc = "register" /\ loop[w].candidates = {c}
      /\ c \in loop[w].claimed
      /\ loop'[w] = [pc |-> "submit", candidates |-> {},
                     claimed |-> loop[w].claimed \ {c}]
      /\ inFlight'[w] = IF c \in pool[w].running THEN inFlight[w] \cup {c}
                                                  ELSE inFlight[w]
      /\ UNCHANGED <<row, pool>>
  BY DEF Register, Inv, Typed, LoopShape
<1>2. /\ IsFiniteSet(loop'[w].claimed) /\ IsFiniteSet({})
      /\ Cardinality(loop'[w].claimed) = Cardinality(loop[w].claimed) - 1
      /\ Cardinality(loop[w].claimed) \in Nat
  <2>1. loop'[w].claimed = loop[w].claimed \ {c} /\ IsFiniteSet({})
    BY <1>1, FS_EmptySet
  <2>2. IsFiniteSet(loop[w].claimed) /\ c \in loop[w].claimed
    BY <1>1 DEF Counted
  <2> QED
    BY <2>1, <2>2, OneLess
<1>3. /\ IsFiniteSet(inFlight'[w])
      /\ Cardinality(inFlight'[w]) <= Cardinality(inFlight[w]) + 1
      /\ Cardinality(inFlight[w]) \in Nat /\ Cardinality(inFlight'[w]) \in Nat
  BY <1>1, OneMore DEF Counted
<1>4. WorkerConcurrency[w] \in Nat
  BY PollingAssumption
<1>5. Counted(w)'
  <2>1. /\ Promised(w) = Cardinality(loop[w].claimed)
        /\ Promised(w)' = Cardinality(loop'[w].claimed)
    BY <1>1 DEF Promised
  <2>2. Promised(w) + Cardinality(inFlight[w]) <= WorkerConcurrency[w]
    BY DEF Counted
  <2>3. Promised(w)' + Cardinality(inFlight'[w]) <= WorkerConcurrency[w]
    BY <1>2, <1>3, <1>4, <2>1, <2>2
  <2>4. IsFiniteSet(loop'[w].candidates)
    BY <1>1, <1>2
  <2> QED
    BY <1>2, <1>3, <2>3, <2>4 DEF Counted
<1>6. Known(w)'
  BY <1>1 DEF Known
<1>7. Newer(w)'
  <2>1. c \in pool[w].running =>
          row[c.job].version = c.version /\ row[c.job].version \in Nat
    BY DEF Inv, Held, Work, Typed, AnyClaim, RowRec
  <2> QED
    BY <1>1, <2>1 DEF Newer
<1> QED
  BY <1>5, <1>6, <1>7

\* A thread ends, and its callback gives the slot back.
LEMMA EndedSlots ==
  ASSUME Inv, [Next]_pollVars, NEW w \in Workers, NEW c \in pool[w].running,
         Ended(w, c), UNCHANGED <<loop, inFlight>>,
         NEW v \in Workers, Counted(v), Known(v), Newer(v)
  PROVE  Counted(v)' /\ Known(v)' /\ Newer(v)'
<1>1. /\ pool'[w].running = pool[w].running \ {c}
      /\ pool'[w].finished \in {pool[w].finished, pool[w].finished \cup {c}}
      /\ pool'[w].finished \subseteq pool[w].finished \cup (inFlight[w] \cap {c})
      /\ v # w => pool'[v] = pool[v]
  BY DEF Ended, Inv, Typed
<1>2. Known(v)'
  BY <1>1 DEF Known
<1>3. \A d \in inFlight[v] : d.job \in Jobs /\ d.version \in Nat
  BY DEF Inv, Typed, AnyClaim
<1>4. Newer(v)'
  BY <1>3, VersionsGrow DEF Inv, Newer
<1> QED
  BY <1>2, <1>4 DEF Counted, Promised

LEMMA CallbackSlots ==
  ASSUME Inv, NEW w \in Workers, NEW c \in pool[w].finished, Callback(w, c),
         Counted(w), Known(w), Newer(w)
  PROVE  Counted(w)' /\ Known(w)' /\ Newer(w)'
<1>1. /\ pool'[w].running = pool[w].running
      /\ pool'[w].finished = pool[w].finished \ {c}
      /\ inFlight'[w] = inFlight[w] \ {c}
      /\ c \in inFlight[w] /\ c \notin pool[w].running
      /\ UNCHANGED <<row, loop>>
  BY DEF Callback, Inv, Typed, Known
<1>2. /\ IsFiniteSet(inFlight'[w])
      /\ Cardinality(inFlight'[w]) = Cardinality(inFlight[w]) - 1
      /\ Cardinality(inFlight[w]) \in Nat
      /\ Cardinality(loop[w].candidates) \in Nat /\ Cardinality(loop[w].claimed) \in Nat
  <2>1. IsFiniteSet(inFlight[w]) /\ c \in inFlight[w]
    BY <1>1 DEF Counted
  <2> QED
    BY <1>1, <2>1, OneLess, FS_CardinalityType DEF Counted
<1>3. Promised(w)' = Promised(w) /\ Promised(w) \in Nat
  BY <1>1, <1>2 DEF Promised
<1>4. Counted(w)'
  BY <1>1, <1>2, <1>3, PollingAssumption DEF Counted
<1> QED
  BY <1>1, <1>4 DEF Known, Newer

LEMMA CrashSlots ==
  ASSUME NEW w \in Workers, Inv, Crash(w)
  PROVE  Counted(w)' /\ Known(w)' /\ Newer(w)'
<1>1. /\ loop'[w] = [pc |-> "dead", candidates |-> {}, claimed |-> {}]
      /\ pool'[w] = [running |-> {}, finished |-> {}] /\ inFlight'[w] = {}
  BY DEF Crash, Inv, Typed
<1> QED
  BY <1>1, FS_EmptySet, PollingAssumption DEF Counted, Promised, Known, Newer

\* A step of w leaves the slots of the others alone.
LEMMA StepSlots ==
  ASSUME Inv, [Next]_pollVars, Slots, NEW w \in Workers,
         \A v \in Workers \ {w} : loop'[v] = loop[v] /\ pool'[v] = pool[v]
                                /\ inFlight'[v] = inFlight[v],
         Counted(w)' /\ Known(w)' /\ Newer(w)'
  PROVE  Slots'
BY OthersSlots DEF Slots

\* The steps of the main thread that promise nothing new.
LEMMA MainSlots ==
  ASSUME Inv, [Next]_pollVars, Slots, NEW w \in Workers,
         \/ LoopEnds(w) \/ ReapFails(w) \/ NoReap(w) \/ Reap(w) \/ Fetch(w)
         \/ AllSubmitted(w) \/ Wait(w) \/ Drained(w)
         \/ ClaimFails(w) \/ FetchFails(w)
  PROVE  Slots'
<1>1. UNCHANGED <<pool, inFlight>>
  BY DEF LoopEnds, ReapFails, NoReap, Reap, Fetch, AllSubmitted, Wait, Drained,
         ClaimFails, FetchFails
<1>2. /\ \A v \in Workers \ {w} : loop'[v] = loop[v]
      /\ loop[w].pc # "register" /\ loop'[w].pc \notin {"register", "update"}
      /\ \/ loop'[w].candidates = {} /\ loop'[w].claimed = {}
         \/ /\ loop'[w].candidates = loop[w].candidates
            /\ loop'[w].claimed = loop[w].claimed
            /\ loop[w].pc \in {"fetch", "submit"} \/ loop[w].claimed = {}
  <2>1. CASE ClaimFails(w) \/ FetchFails(w)
    BY <2>1 DEF ClaimFails, FetchFails, Inv, Typed
  <2>2. CASE Fetch(w)
    BY <2>2 DEF Fetch, Goto, Inv, Typed, LoopRec
  <2>3. ASSUME NEW pc \in {"draining", "wait", "poll", "top", "stopped"}, Goto(w, pc),
               loop[w].pc \in {"top", "submit", "wait", "draining"},
               loop[w].claimed = {}
        PROVE  <1>2!1 /\ <1>2!2 /\ <1>2!3
    BY <2>3 DEF Goto, Inv, Typed, LoopRec
  <2>4. CASE \/ LoopEnds(w) \/ ReapFails(w) \/ NoReap(w) \/ Reap(w)
             \/ AllSubmitted(w) \/ Wait(w) \/ Drained(w)
    <3>1. /\ loop[w].pc \in {"top", "submit", "wait", "draining"}
          /\ loop[w].claimed = {}
          /\ \E pc \in {"draining", "wait", "poll", "top", "stopped"} : Goto(w, pc)
      BY <2>4 DEF LoopEnds, ReapFails, NoReap, Reap, AllSubmitted, Wait, Drained,
                  Inv, LoopShape
    <3> QED
      BY <2>3, <3>1
  <2> QED
    BY <2>1, <2>2, <2>4
<1>3. Counted(w)' /\ Known(w)' /\ Newer(w)'
  BY <1>1, <1>2, PromisesKept DEF Slots
<1> QED
  BY <1>1, <1>2, <1>3, StepSlots

\* The claim, and its way into the pool.
LEMMA ClaimSlots ==
  ASSUME Inv, [Next]_pollVars, Slots, NEW w \in Workers,
         \/ Select(w) \/ Commit(w)
         \/ \E c \in loop[w].candidates : Update(w, c) \/ Register(w, c)
         \/ \E c \in loop[w].claimed : Submit(w, c)
  PROVE  Slots'
<1>1. Counted(w) /\ Known(w) /\ Newer(w)
  BY DEF Slots
<1>2. Counted(w)' /\ Known(w)' /\ Newer(w)'
  BY <1>1, SelectSlots, CommitSlots, UpdateSlots, RegisterSlots, SubmitSlots
<1>3. \A v \in Workers \ {w} : loop'[v] = loop[v] /\ pool'[v] = pool[v]
                               /\ inFlight'[v] = inFlight[v]
  BY DEF Select, Commit, Update, Register, Submit, Goto, Inv, Typed
<1> QED
  BY <1>2, <1>3, StepSlots

LEMMA NextSlots == Inv /\ Slots /\ [Next]_pollVars => Slots'
<1> SUFFICES ASSUME Inv, Slots, [Next]_pollVars PROVE Slots'
  OBVIOUS
<1>1. CASE UNCHANGED <<loop, pool, inFlight>>
  BY <1>1, OthersSlots DEF Slots
<1>2. ASSUME NEW w \in Workers, NEW c \in pool[w].running, TaskEnds(w, c) \/ TaskErrs(w, c)
      PROVE  Slots'
  <2>1. Ended(w, c) /\ UNCHANGED <<loop, inFlight>>
    BY <1>2 DEF TaskEnds, TaskErrs
  <2> QED
    BY <2>1, EndedSlots DEF Slots
<1>3. ASSUME NEW w \in Workers, NEW c \in pool[w].finished, Callback(w, c)
      PROVE  Slots'
  <2>1. Counted(w)' /\ Known(w)' /\ Newer(w)'
    BY <1>3, CallbackSlots DEF Slots
  <2>2. \A v \in Workers \ {w} : loop'[v] = loop[v] /\ pool'[v] = pool[v]
                                 /\ inFlight'[v] = inFlight[v]
    BY <1>3 DEF Callback, Inv, Typed
  <2> QED
    BY <2>1, <2>2, StepSlots
<1>4. ASSUME NEW w \in Workers, Crash(w) PROVE Slots'
  <2>1. \A v \in Workers \ {w} : loop'[v] = loop[v] /\ pool'[v] = pool[v]
                                 /\ inFlight'[v] = inFlight[v]
    BY <1>4 DEF Crash, Inv, Typed
  <2> QED
    BY <1>4, <2>1, CrashSlots, StepSlots
<1>5. CASE UNCHANGED pollVars \/ (\E w \in Workers : Signal(w))
             \/ \E j \in Jobs : LeaseExpires(j)
  BY <1>1, <1>5 DEF pollVars, Signal, LeaseExpires
<1> QED
  BY <1>2, <1>3, <1>4, <1>5, MainSlots, ClaimSlots
  DEF Next, MainStep, ThreadStep

\* What a worker has to run has a slot, or the promise of one.
LEMMA SlotsSuffice == Inv /\ Slots => ThreadsSuffice
<1> SUFFICES ASSUME Inv, Slots, NEW w \in Workers
             PROVE  Cardinality(Work(w)) + Cardinality(pool[w].finished)
                      <= WorkerConcurrency[w]
  BY DEF ThreadsSuffice
<1> DEFINE taken == inFlight[w]
           promised == IF loop[w].pc \in {"fetch", "submit", "register"}
                         THEN loop[w].claimed ELSE {}
           done == pool[w].finished
           todo == Work(w)
<1>1. Counted(w) /\ Known(w) /\ Newer(w)
  BY DEF Slots
<1>2. todo \cup done \subseteq taken \cup promised
  BY <1>1 DEF Work, Known, Inv, LoopShape
<1>3. todo \cap done = {}
  BY <1>1 DEF Work, Known, Newer
<1>4. /\ IsFiniteSet(taken) /\ IsFiniteSet(promised)
      /\ Cardinality(promised) <= Promised(w) /\ Promised(w) \in Nat
  <2>1. /\ Cardinality(loop[w].claimed) \in Nat /\ Cardinality(loop[w].candidates) \in Nat
        /\ IsFiniteSet({}) /\ Cardinality({}) = 0
    BY <1>1, FS_CardinalityType, FS_EmptySet DEF Counted
  <2> QED
    BY <1>1, <2>1 DEF Counted, Promised
<1>5. Promised(w) + Cardinality(taken) <= WorkerConcurrency[w] /\ WorkerConcurrency[w] \in Nat
  BY <1>1, PollingAssumption DEF Counted
<1> HIDE DEF taken, promised, done, todo
<1>6. IsFiniteSet(taken \cup promised) /\ Cardinality(taken \cup promised) \in Nat
      /\ Cardinality(taken \cup promised) <= Cardinality(taken) + Cardinality(promised)
      /\ Cardinality(taken) \in Nat /\ Cardinality(promised) \in Nat
  <2>1. Cardinality(taken \cap promised) \in Nat
    BY <1>4, FS_Intersection, FS_CardinalityType
  <2>2. /\ IsFiniteSet(taken \cup promised)
        /\ Cardinality(taken \cup promised) =
             Cardinality(taken) + Cardinality(promised) - Cardinality(taken \cap promised)
    BY <1>4, FS_Union
  <2>3. /\ Cardinality(taken) \in Nat /\ Cardinality(promised) \in Nat
        /\ Cardinality(taken \cup promised) \in Nat
    BY <1>4, <2>2, FS_CardinalityType
  <2> QED
    BY <2>1, <2>2, <2>3
<1>7. /\ IsFiniteSet(todo) /\ IsFiniteSet(done)
      /\ Cardinality(todo \cup done) <= Cardinality(taken \cup promised)
  <2>1. /\ todo \in SUBSET (taken \cup promised) /\ done \in SUBSET (taken \cup promised)
        /\ (todo \cup done) \in SUBSET (taken \cup promised)
    BY <1>2
  <2> QED
    BY <1>6, <2>1, FS_Subset
<1>8. /\ Cardinality(todo \cup done) = Cardinality(todo) + Cardinality(done)
      /\ Cardinality(todo) \in Nat /\ Cardinality(done) \in Nat
  <2>1. Cardinality(todo \cap done) = 0
    BY <1>3, FS_EmptySet
  <2>2. Cardinality(todo \cup done) =
          Cardinality(todo) + Cardinality(done) - Cardinality(todo \cap done)
    BY <1>7, FS_Union
  <2>3. Cardinality(todo) \in Nat /\ Cardinality(done) \in Nat
    BY <1>7, FS_CardinalityType
  <2> QED
    BY <2>1, <2>2, <2>3
<1>9. Cardinality(todo) + Cardinality(done) <= WorkerConcurrency[w]
  BY <1>4, <1>5, <1>6, <1>7, <1>8
<1> QED
  BY <1>9 DEF todo, done

\* No claimed job waits for a thread: the slots that the SELECT counts as free
\* stay free until the claims are submitted, whatever the threads and the
\* callbacks do meanwhile, and a future leaves in_flight only when its thread
\* is done.
THEOREM ThreadsAreEnough == Spec => []ThreadsSuffice
<1>1. Init => Slots
  <2> SUFFICES ASSUME Init, NEW w \in Workers PROVE Counted(w) /\ Known(w) /\ Newer(w)
    BY DEF Slots
  <2>1. /\ loop[w] = [pc |-> "top", candidates |-> {}, claimed |-> {}]
        /\ pool[w] = [running |-> {}, finished |-> {}] /\ inFlight[w] = {}
    BY DEF Init
  <2> QED
    BY <2>1, FS_EmptySet, PollingAssumption DEF Counted, Promised, Known, Newer
<1> QED
  BY <1>1, InitInv, NextInv, NextSlots, SlotsSuffice, PTL DEF Spec

-----------------------------------------------------------------------------
(* The loop implements the queue of leases.                                *)

Simulated == LQ!Next \/ UNCHANGED LQ!leaseVars

Running(w, j) == {c \in pool[w].running : c.job = j}

\* A thread that runs a claim has it as its ticket.
LEMMA TicketIs ==
  ASSUME Inv, NEW w \in Workers, NEW c \in pool[w].running
  PROVE  TicketOf(w, c.job) = [worker |-> w, job |-> c.job, token |-> c.version]
<1>1. \A d \in Running(w, c.job) : d = c
  BY DEF Running, Inv, Held, Work, Typed, AnyClaim
<1>2. c \in Running(w, c.job)
  BY DEF Running
<1> QED
  BY <1>1, <1>2 DEF TicketOf, Running

\* No thread, no ticket.
LEMMA NoTicketIs ==
  ASSUME NEW w, NEW j, \A c \in pool[w].running : c.job # j
  PROVE  TicketOf(w, j) = None
BY DEF TicketOf

\* The ticket of a thread is current.
LEMMA RunningIsCurrent ==
  ASSUME Inv, NEW w \in Workers, NEW c \in pool[w].running
  PROVE  /\ LQ!Current(<<w, c.job>>)
         /\ [x \in Workers \X Jobs |-> TicketOf(x[1], x[2])][<<w, c.job>>].job = c.job
<1> DEFINE k == c.job
           t == [worker |-> w, job |-> k, token |-> c.version]
<1>1. /\ k \in Jobs /\ c.version \in Nat /\ row[k].status = "RUNNING"
      /\ row[k].locked_by = w /\ row[k].version = c.version
  BY DEF Inv, Typed, AnyClaim, Held, Work
<1>2. t # None
  BY <1>1, NoneIsNoTicket DEF LQ!Ticket
<1>3. [x \in Workers \X Jobs |-> TicketOf(x[1], x[2])][<<w, k>>] = t
  BY <1>1, TicketIs
<1>4. t.job = k /\ t.worker = w /\ t.token = c.version
  OBVIOUS
<1> HIDE DEF t, k
<1>5. LQ!Current(<<w, k>>)
  BY <1>1, <1>2, <1>3, <1>4 DEF LQ!Current, PhaseOf
<1> QED
  BY <1>3, <1>4, <1>5 DEF k

\* All jobs are queued at first, and nobody has a ticket.
LEMMA InitIsQueue == Init => LQ!Init
<1> SUFFICES ASSUME Init PROVE LQ!Init
  OBVIOUS
<1>1. \A j \in Jobs : /\ row[j].status = "SCHEDULED" /\ row[j].locked_by = None
                      /\ row[j].version = 0 /\ row[j].expired = FALSE
  BY DEF Init
<1>2. \A x \in Workers \X Jobs : TicketOf(x[1], x[2]) = None
  BY NoTicketIs DEF Init
<1> QED
  BY <1>1, <1>2 DEF LQ!Init, PhaseOf

\* A commit grants the batch, all at once.
LEMMA CommitGrants ==
  ASSUME Inv, NEW w \in Workers, Commit(w)
  PROVE  \E batch \in SUBSET Jobs : LQ!Grant(w, batch)
<1>0. PICK batch \in SUBSET Jobs :
        batch = {j \in Jobs : \E c \in loop[w].claimed : c.job = j}
  OBVIOUS
<1>1. /\ \A j \in batch : row[j].status = "SCHEDULED"
      /\ UNCHANGED pool
  BY <1>0 DEF Inv, UpdateLocked, Commit
<1>2. /\ \A j \in batch : /\ row'[j].status = "RUNNING" /\ row'[j].locked_by = w
                          /\ row'[j].expired = FALSE
                          /\ row'[j].version = row[j].version + 1
      /\ \A j \in Jobs \ batch : row'[j] = row[j]
  BY <1>0 DEF Commit
<1>3. \A j \in batch : [i \in Jobs |-> PhaseOf(row[i].status)][j] = "queued"
  BY <1>1 DEF PhaseOf
<1>4. [j \in Jobs |-> PhaseOf(row[j].status)]' =
        [j \in Jobs |-> IF j \in batch THEN "held"
                       ELSE [i \in Jobs |-> PhaseOf(row[i].status)][j]]
  BY <1>2 DEF PhaseOf
<1>5. [j \in Jobs |-> row[j].locked_by]' =
        [j \in Jobs |-> IF j \in batch THEN w ELSE [i \in Jobs |-> row[i].locked_by][j]]
  BY <1>2
<1>6. [j \in Jobs |-> row[j].version]' =
        [j \in Jobs |-> IF j \in batch THEN [i \in Jobs |-> row[i].version][j] + 1
                       ELSE [i \in Jobs |-> row[i].version][j]]
  BY <1>2
<1>7. [j \in Jobs |-> row[j].expired]' =
        [j \in Jobs |-> IF j \in batch THEN FALSE ELSE [i \in Jobs |-> row[i].expired][j]]
  BY <1>2
<1>8. UNCHANGED [x \in Workers \X Jobs |-> TicketOf(x[1], x[2])]
  BY <1>1 DEF TicketOf
<1>9. LQ!Grant(w, batch)
  BY <1>3, <1>4, <1>5, <1>6, <1>7, <1>8, Zenon DEF LQ!Grant
<1> QED
  BY <1>9

\* Rows that are released, by a reap or by an outcome, are let go of.
LEMMA RowsLetGo ==
  ASSUME NEW batch \in SUBSET Jobs,
         \A j \in batch : /\ row[j].status = "RUNNING"
                         /\ row'[j] \in Released(j),
         \A j \in Jobs \ batch : row'[j] = row[j]
  PROVE  LQ!LetGo(batch)
<1> DEFINE phases == [j \in Jobs |-> PhaseOf(row[j].status)]
<1>1. \A j \in batch : /\ row'[j].status \in {"SCHEDULED", "SETTLED"}
                      /\ row'[j].locked_by = None /\ row'[j].expired = FALSE
                      /\ row'[j].version = row[j].version + 1
  BY DEF Released
<1>2. \A j \in batch : phases[j] = "held"
  BY DEF PhaseOf
<1>3. \E kept \in SUBSET batch :
        phases' = [j \in Jobs |-> IF j \in kept THEN "queued"
                                 ELSE IF j \in batch THEN "out" ELSE phases[j]]
  <2> DEFINE kept == {j \in batch : row'[j].status = "SCHEDULED"}
  <2>1. kept \in SUBSET batch
    OBVIOUS
  <2>2. \A j \in Jobs : PhaseOf(row'[j].status) =
          IF j \in kept THEN "queued" ELSE IF j \in batch THEN "out"
                                          ELSE PhaseOf(row[j].status)
    BY <1>1 DEF PhaseOf
  <2> HIDE DEF kept
  <2>3. phases' = [j \in Jobs |-> IF j \in kept THEN "queued"
                                 ELSE IF j \in batch THEN "out" ELSE phases[j]]
    BY <2>2
  <2> QED
    BY <2>1, <2>3, Zenon
<1>4. [j \in Jobs |-> row[j].locked_by]' =
        [j \in Jobs |-> IF j \in batch THEN None ELSE [i \in Jobs |-> row[i].locked_by][j]]
  BY <1>1
<1>5. [j \in Jobs |-> row[j].version]' =
        [j \in Jobs |-> IF j \in batch THEN [i \in Jobs |-> row[i].version][j] + 1
                       ELSE [i \in Jobs |-> row[i].version][j]]
  BY <1>1
<1>6. [j \in Jobs |-> row[j].expired]' =
        [j \in Jobs |-> IF j \in batch THEN FALSE ELSE [i \in Jobs |-> row[i].expired][j]]
  BY <1>1
<1> QED
  BY <1>2, <1>3, <1>4, <1>5, <1>6, Zenon DEF LQ!LetGo

\* A reap revokes what has lapsed.
LEMMA ReapRevokes ==
  ASSUME Inv, NEW w \in Workers, Reap(w) PROVE \E batch \in SUBSET Jobs : LQ!Revoke(batch)
<1>0. PICK batch \in SUBSET Jobs : batch = Abandoned
  BY DEF Abandoned
<1>1. PICK after \in [Abandoned -> UNION {Released(j) : j \in Jobs}] :
        /\ \A j \in Abandoned : after[j] \in Released(j)
        /\ row' = [j \in Jobs |-> IF j \in Abandoned THEN after[j] ELSE row[j]]
  BY DEF Reap
<1>2. \A j \in batch : /\ row[j].status = "RUNNING" /\ row[j].expired
                       /\ row'[j] \in Released(j)
  BY <1>0, <1>1 DEF Abandoned
<1>3. \A j \in Jobs \ batch : row'[j] = row[j]
  BY <1>0, <1>1
<1>4. LQ!LetGo(batch)
  BY <1>2, <1>3, RowsLetGo
<1>5. \A j \in batch : [i \in Jobs |-> row[i].expired][j]
  BY <1>2
<1>6. UNCHANGED [x \in Workers \X Jobs |-> TicketOf(x[1], x[2])]
  BY DEF Reap, TicketOf
<1> QED
  BY <1>4, <1>5, <1>6 DEF LQ!Revoke

\* A thread joins the grant of its worker.
LEMMA SubmitJoins ==
  ASSUME Inv, NEW w \in Workers, NEW c \in loop[w].claimed, Submit(w, c)
  PROVE  c.job \in Jobs /\ LQ!Join(<<w, c.job>>, c.job)
<1>0. PICK k \in Jobs : k = c.job
  BY DEF Inv, Typed, LoopRec, AnyClaim
<1>1. /\ loop[w].pc = "submit" /\ c \in Handed(w) /\ c \in Work(w)
      /\ k \in Jobs /\ c \in AnyClaim
  BY <1>0 DEF Submit, Inv, LoopShape, Handed, Work, Typed, LoopRec, AnyClaim
<1>2. /\ row[k].status = "RUNNING" /\ row[k].locked_by = w /\ row[k].version = c.version
      /\ UNCHANGED row
  BY <1>0, <1>1 DEF Inv, Held, Submit
<1>3. \A d \in pool[w].running : d.job # k
  BY <1>0, <1>1, <1>2 DEF Inv, OnceOnly, Held, Work, Typed, AnyClaim
<1>4. /\ pool'[w].running = pool[w].running \cup {c}
      /\ \A v \in Workers \ {w} : pool'[v] = pool[v]
  BY DEF Submit, Inv, Typed
<1>5. Running(w, k) = {} /\ Running(w, k)' = {c}
  BY <1>0, <1>3, <1>4 DEF Running
<1>6. /\ TicketOf(w, k) = None
      /\ TicketOf(w, k)' = [worker |-> w, job |-> k, token |-> c.version]
  BY <1>3, <1>5, NoTicketIs DEF TicketOf, Running
<1>7. \A v \in Workers, j \in Jobs : v # w \/ j # k => TicketOf(v, j)' = TicketOf(v, j)
  <2>1. \A v \in Workers, j \in Jobs : v # w \/ j # k => Running(v, j)' = Running(v, j)
    BY <1>0, <1>4 DEF Running
  <2> QED
    BY <2>1 DEF TicketOf, Running
<1>8. [x \in Workers \X Jobs |-> TicketOf(x[1], x[2])]' =
        [[x \in Workers \X Jobs |-> TicketOf(x[1], x[2])] EXCEPT
           ![<<w, k>>] = [worker |-> [j \in Jobs |-> row[j].locked_by][k], job |-> k,
                          token |-> [j \in Jobs |-> row[j].version][k]]]
  <2> DEFINE t == [worker |-> w, job |-> k, token |-> c.version]
  <2>1. \A x \in Workers \X Jobs :
          TicketOf(x[1], x[2])' = IF x = <<w, k>> THEN t ELSE TicketOf(x[1], x[2])
    BY <1>6, <1>7
  <2>2. [j \in Jobs |-> row[j].locked_by][k] = w /\ [j \in Jobs |-> row[j].version][k] = c.version
    BY <1>2
  <2> QED
    BY <2>1, <2>2
<1>9. LQ!Join(<<w, k>>, k)
  BY <1>1, <1>2, <1>6, <1>8 DEF LQ!Join, PhaseOf
<1> QED
  BY <1>1, <1>9, <1>0

\* The outcome of a thread settles its job.
LEMMA TaskSettles ==
  ASSUME Inv, NEW w \in Workers, NEW c \in pool[w].running, TaskEnds(w, c)
  PROVE  c.job \in Jobs /\ LQ!Settle(<<w, c.job>>, c.job)
<1>0. PICK k \in Jobs : k = c.job
  BY DEF Inv, Typed, LoopRec, AnyClaim
<1>1. /\ k \in Jobs /\ row[k].status = "RUNNING"
      /\ \A d \in pool[w].running : d.job = k => d = c
  BY <1>0 DEF Inv, Typed, AnyClaim, Held, Work
<1>2. PICK after \in Released(k) : row' = [row EXCEPT ![k] = after]
  BY <1>0 DEF TaskEnds
<1>3. LQ!LetGo({k})
  <2>1. /\ {k} \in SUBSET Jobs
        /\ \A j \in {k} : row[j].status = "RUNNING" /\ row'[j] \in Released(j)
        /\ \A j \in Jobs \ {k} : row'[j] = row[j]
    BY <1>1, <1>2 DEF Inv, Typed
  <2> QED
    BY <2>1, RowsLetGo
<1>4. /\ pool'[w].running = pool[w].running \ {c}
      /\ \A v \in Workers \ {w} : pool'[v].running = pool[v].running
  BY EndedFacts DEF TaskEnds, Inv
<1>5. TicketOf(w, k)' = None
  BY <1>0, <1>1, <1>4 DEF TicketOf
<1>6. \A v \in Workers, j \in Jobs : v # w \/ j # k => TicketOf(v, j)' = TicketOf(v, j)
  <2>1. \A v \in Workers, j \in Jobs : v # w \/ j # k => Running(v, j)' = Running(v, j)
    BY <1>0, <1>4 DEF Running
  <2> QED
    BY <2>1 DEF TicketOf, Running
<1>7. /\ LQ!Current(<<w, k>>)
      /\ [x \in Workers \X Jobs |-> TicketOf(x[1], x[2])][<<w, k>>].job = k
  BY <1>0, RunningIsCurrent
<1>8. [x \in Workers \X Jobs |-> TicketOf(x[1], x[2])]' =
        [[x \in Workers \X Jobs |-> TicketOf(x[1], x[2])] EXCEPT ![<<w, k>>] = None]
  <2>1. \A x \in Workers \X Jobs :
          TicketOf(x[1], x[2])' = IF x = <<w, k>> THEN None ELSE TicketOf(x[1], x[2])
    BY <1>5, <1>6
  <2> QED
    BY <2>1
<1>9. LQ!Settle(<<w, k>>, k)
  BY <1>3, <1>7, <1>8 DEF LQ!Settle, LQ!MayLeave
<1> QED
  BY <1>1, <1>9, <1>0

\* Threads that die leave.
LEMMA ThreadsLeave ==
  ASSUME Inv, UNCHANGED row,
         \A v \in Workers : pool'[v].running = pool[v].running
           \/ (\E c \in pool[v].running : pool'[v].running = pool[v].running \ {c})
           \/ pool'[v].running = {}
  PROVE  LQ!Leave
<1>1. ASSUME NEW v \in Workers, NEW j \in Jobs
      PROVE  TicketOf(v, j)' = TicketOf(v, j) \/ TicketOf(v, j)' = None
  <2>1. \A c, d \in Running(v, j) : c = d
    BY DEF Running, Inv, Typed, AnyClaim, Held, Work
  <2>2. Running(v, j)' = Running(v, j) \/ Running(v, j)' = {}
    BY <2>1 DEF Running
  <2> QED
    BY <2>2 DEF TicketOf, Running
<1> QED
  BY <1>1 DEF LQ!Leave

\* A lease lapses.
LEMMA ExpiryLapses ==
  ASSUME Inv, NEW k \in Jobs, LeaseExpires(k) PROVE LQ!Lapse(k)
<1>1. /\ row[k].status = "RUNNING" /\ UNCHANGED pool
      /\ \A j \in Jobs : /\ row'[j].status = row[j].status
                         /\ row'[j].locked_by = row[j].locked_by
                         /\ row'[j].version = row[j].version
                         /\ row'[j].expired = IF j = k THEN TRUE ELSE row[j].expired
  BY DEF LeaseExpires, Inv, Typed, RowRec
<1>2. [j \in Jobs |-> row[j].expired]' =
        [[j \in Jobs |-> row[j].expired] EXCEPT ![k] = TRUE]
  BY <1>1
<1>3. UNCHANGED [x \in Workers \X Jobs |-> TicketOf(x[1], x[2])]
  BY <1>1 DEF TicketOf
<1> QED
  BY <1>1, <1>2, <1>3 DEF LQ!Lapse, PhaseOf

\* Everything else is unseen.
LEMMA RestUnseen ==
  ASSUME UNCHANGED row,
         \A v \in Workers : pool'[v].running = pool[v].running
  PROVE  UNCHANGED LQ!leaseVars
<1>1. \A x \in Workers \X Jobs : TicketOf(x[1], x[2])' = TicketOf(x[1], x[2])
  BY DEF TicketOf
<1> QED
  BY <1>1 DEF LQ!leaseVars

LEMMA LoopSimulates == Inv /\ [Next]_pollVars => [LQ!Next]_(LQ!leaseVars)
<1> SUFFICES ASSUME Inv, [Next]_pollVars PROVE Simulated
  BY DEF Simulated
<1>1. ASSUME NEW w \in Workers, Commit(w) PROVE Simulated
  BY <1>1, CommitGrants DEF Simulated, LQ!Next
<1>2. ASSUME NEW w \in Workers, Reap(w) PROVE Simulated
  BY <1>2, ReapRevokes DEF Simulated, LQ!Next, Abandoned
<1>3. ASSUME NEW w \in Workers, NEW c \in loop[w].claimed, Submit(w, c) PROVE Simulated
  BY <1>3, SubmitJoins DEF Simulated, LQ!Next
<1>4. ASSUME NEW w \in Workers, NEW c \in pool[w].running, TaskEnds(w, c)
      PROVE  Simulated
  BY <1>4, TaskSettles DEF Simulated, LQ!Next
<1>5. ASSUME NEW w \in Workers, NEW c \in pool[w].running, TaskErrs(w, c)
      PROVE  Simulated
  <2>1. LQ!Leave
    BY <1>5, EndedFacts, ThreadsLeave DEF TaskErrs, Inv
  <2> QED
    BY <2>1 DEF Simulated, LQ!Next
<1>6. ASSUME NEW w \in Workers, Crash(w) PROVE Simulated
  <2>1. /\ UNCHANGED row /\ pool'[w].running = {}
        /\ \A v \in Workers \ {w} : pool'[v].running = pool[v].running
    BY <1>6 DEF Crash, Inv, Typed
  <2>2. LQ!Leave
    BY <2>1, ThreadsLeave
  <2> QED
    BY <2>2 DEF Simulated, LQ!Next
<1>7. ASSUME NEW k \in Jobs, LeaseExpires(k) PROVE Simulated
  BY <1>7, ExpiryLapses DEF Simulated, LQ!Next
<1>8. ASSUME NEW w \in Workers, NEW c \in pool[w].finished, Callback(w, c)
      PROVE  Simulated
  <2>1. UNCHANGED row /\ \A v \in Workers : pool'[v].running = pool[v].running
    BY <1>8 DEF Callback, Inv, Typed
  <2> QED
    BY <2>1, RestUnseen DEF Simulated
<1>9. CASE UNCHANGED <<row, pool>>
  BY <1>9, RestUnseen DEF Simulated
<1> QED
  BY <1>1, <1>2, <1>3, <1>4, <1>5, <1>6, <1>7, <1>8, <1>9
  DEF Next, MainStep, ThreadStep, pollVars, LoopEnds, ReapFails, NoReap, Select,
      Update, Register, Fetch, AllSubmitted, Wait, Drained, ClaimFails, FetchFails,
      Signal

\* The loop implements the abstract queue of leases: a batch is granted in one
\* step and takes queued jobs only, whether rows are locked or not, and a job
\* that is let go of was settled under the version of its claim or revoked.
THEOREM LoopIsLeaseQueue == Spec => ImplementsLeaseQueue
BY InitIsQueue, InitInv, NextInv, LoopSimulates, PTL
DEF Spec, ImplementsLeaseQueue, LQ!Spec

-----------------------------------------------------------------------------
(* Types.                                                                  *)

\* A claim and its end each move the version by one, and the last of
\* MaxClaims claims settles the job.
Ages ==
  \A j \in Jobs :
    CASE row[j].status = "SCHEDULED" ->
           \E n \in 0 .. MaxClaims - 1 : row[j].version = 2 * n
      [] row[j].status = "RUNNING" ->
           \E n \in 0 .. MaxClaims - 1 : row[j].version = 2 * n + 1
      [] OTHER -> row[j].version <= 2 * MaxClaims

\* The claims that a worker knows of, anywhere.
Seen(w) == loop[w].candidates \cup loop[w].claimed
             \cup pool[w].running \cup pool[w].finished \cup inFlight[w]

\* The types of what no other invariant speaks of.
FlagsTyped ==
  /\ locking \in BOOLEAN
  /\ stop \in [Workers -> BOOLEAN]
  /\ cycles \in [Workers -> 0 .. ReapEvery]
  /\ orphaned \subseteq Jobs

Bounded == Ages /\ (\A w \in Workers : Seen(w) \subseteq Claims) /\ FlagsTyped

\* What Ages says of one row.
AgeOf(status, version) ==
  \/ status = "SCHEDULED" /\ \E n \in 0 .. MaxClaims - 1 : version = 2 * n
  \/ status = "RUNNING" /\ \E n \in 0 .. MaxClaims - 1 : version = 2 * n + 1
  \/ status = "SETTLED" /\ version <= 2 * MaxClaims

\* The end of a claim settles the job or leaves another claim to it.
LEMMA ReleasedAge ==
  ASSUME NEW j \in Jobs, Typed, Ages, row[j].status = "RUNNING",
         NEW after \in Released(j)
  PROVE  AgeOf(after.status, after.version)
<1>1. PICK n \in 0 .. MaxClaims - 1 : row[j].version = 2 * n + 1
  BY DEF Ages
<1>2. MaxClaims \in Nat
  BY PollingAssumption
<1>3. /\ after.version = 2 * (n + 1)
      /\ \/ after.status = "SETTLED"
         \/ after.status = "SCHEDULED" /\ 2 * n + 1 < 2 * MaxClaims - 1
  BY <1>1, <1>2 DEF Released
<1>4. CASE after.status = "SETTLED"
  BY <1>2, <1>3, <1>4 DEF AgeOf
<1>5. CASE after.status = "SCHEDULED" /\ 2 * n + 1 < 2 * MaxClaims - 1
  <2>1. n + 1 \in 0 .. MaxClaims - 1
    BY <1>2, <1>5
  <2> QED  BY <1>3, <1>5, <2>1 DEF AgeOf
<1> QED  BY <1>3, <1>4, <1>5

\* No step lets a row outlive its claims.
LEMMA RowsAge ==
  ASSUME Inv, Ages, [Next]_pollVars PROVE Ages'
<1> USE DEF Inv
<1> SUFFICES ASSUME NEW j \in Jobs PROVE AgeOf(row'[j].status, row'[j].version)
  BY DEF Ages, AgeOf
<1>1. AgeOf(row[j].status, row[j].version)
  BY DEF Ages, AgeOf, Typed, RowRec
<1>2. CASE row'[j].status = row[j].status /\ row'[j].version = row[j].version
  BY <1>1, <1>2
<1>3. ASSUME NEW w \in Workers, Reap(w)
      PROVE  AgeOf(row'[j].status, row'[j].version)
  <2>1. PICK after \in [Abandoned -> UNION {Released(i) : i \in Jobs}] :
          /\ \A i \in Abandoned : after[i] \in Released(i)
          /\ row' = [i \in Jobs |-> IF i \in Abandoned THEN after[i] ELSE row[i]]
    BY <1>3 DEF Reap
  <2>2. CASE j \in Abandoned
    <3>1. /\ row'[j] = after[j] /\ after[j] \in Released(j)
          /\ row[j].status = "RUNNING"
      BY <2>1, <2>2 DEF Abandoned
    <3> QED  BY <3>1, ReleasedAge
  <2>3. CASE j \notin Abandoned
    BY <1>1, <2>1, <2>3
  <2> QED  BY <2>2, <2>3
<1>4. ASSUME NEW w \in Workers, Commit(w)
      PROVE  AgeOf(row'[j].status, row'[j].version)
  <2>1. CASE \E c \in loop[w].claimed : c.job = j
    <3>1. /\ row'[j].status = "RUNNING" /\ row'[j].version = row[j].version + 1
          /\ row[j].status = "SCHEDULED"
      BY <1>4, <2>1 DEF Commit, UpdateLocked
    <3> QED  BY <1>1, <3>1 DEF AgeOf
  <2>2. CASE ~\E c \in loop[w].claimed : c.job = j
    BY <1>1, <1>4, <2>2 DEF Commit
  <2> QED  BY <2>1, <2>2
<1>5. ASSUME NEW w \in Workers, NEW c \in pool[w].running, TaskEnds(w, c)
      PROVE  AgeOf(row'[j].status, row'[j].version)
  <2>1. PICK after \in Released(c.job) : row' = [row EXCEPT ![c.job] = after]
    BY <1>5 DEF TaskEnds
  <2>2. c.job \in Jobs /\ row[c.job].status = "RUNNING"
    BY DEF Held, Work, Typed, AnyClaim
  <2>3. AgeOf(after.status, after.version)
    BY <2>1, <2>2, ReleasedAge
  <2> QED  BY <1>1, <2>1, <2>2, <2>3 DEF Typed
<1>6. ASSUME NEW i \in Jobs, LeaseExpires(i)
      PROVE  row'[j].status = row[j].status /\ row'[j].version = row[j].version
  BY <1>6 DEF LeaseExpires, Typed, RowRec
<1>7. ASSUME NEW w \in Workers, MainStep(w), ~Reap(w), ~Commit(w)
      PROVE  UNCHANGED row
  BY <1>7 DEF MainStep, LoopEnds, ReapFails, NoReap, Select, Update, Register,
              Fetch, Submit, AllSubmitted, Wait, Drained
<1>8. ASSUME NEW w \in Workers,
             \/ ClaimFails(w) \/ FetchFails(w) \/ Signal(w) \/ Crash(w)
             \/ \E c \in pool[w].running : TaskErrs(w, c)
             \/ \E c \in pool[w].finished : Callback(w, c)
      PROVE  UNCHANGED row
  BY <1>8 DEF ClaimFails, FetchFails, Signal, Crash, TaskErrs, Callback
<1>9. CASE UNCHANGED pollVars
  BY <1>2, <1>9 DEF pollVars
<1> QED
  BY <1>2, <1>3, <1>4, <1>5, <1>6, <1>7, <1>8, <1>9 DEF Next, ThreadStep

\* What a step may add to the claims a worker knows of.
Fresh ==
  {[job |-> j, version |-> row[j].version] : j \in Jobs} \cup
  {[job |-> j, version |-> row[j].version + 1] :
     j \in {i \in Jobs : row[i].status = "SCHEDULED"}}

\* A claim is a row as it is now or will be after the commit; the rest is
\* handed on.
LEMMA SeenGrows ==
  ASSUME Typed, [Next]_pollVars, NEW v \in Workers
  PROVE  Seen(v)' \subseteq Seen(v) \cup Fresh
<1>1. CASE loop'[v] = loop[v] /\ pool'[v] = pool[v] /\ inFlight'[v] = inFlight[v]
  BY <1>1 DEF Seen
<1>2. ASSUME NEW pc, Goto(v, pc), UNCHANGED <<pool, inFlight>>
      PROVE  Seen(v)' \subseteq Seen(v) \cup Fresh
  BY <1>2 DEF Goto, Seen, Typed, LoopRec
<1>3. ASSUME LoopEnds(v) \/ ReapFails(v) \/ NoReap(v) \/ Fetch(v) \/ AllSubmitted(v)
             \/ Wait(v) \/ Drained(v) \/ Reap(v) \/ Commit(v)
      PROVE  Seen(v)' \subseteq Seen(v) \cup Fresh
  <2>1. UNCHANGED <<pool, inFlight>> /\ \E pc : Goto(v, pc)
    BY <1>3
    DEF LoopEnds, ReapFails, NoReap, Fetch, AllSubmitted, Wait, Drained, Reap, Commit
  <2> QED  BY <1>2, <2>1
<1>4. ASSUME Select(v) PROVE Seen(v)' \subseteq Seen(v) \cup Fresh
  <2>0. PICK selected \in SUBSET Jobs, pc \in {"wait", "update"} :
          loop' = [loop EXCEPT ![v].pc = pc,
                     ![v].candidates =
                       {[job |-> j, version |-> row[j].version] : j \in selected}]
    BY <1>4 DEF Select, kSubset
  <2>1. loop'[v].candidates = {[job |-> j, version |-> row[j].version] : j \in selected}
    BY <2>0 DEF Typed, LoopRec
  <2>2. loop'[v].claimed = loop[v].claimed /\ UNCHANGED <<pool, inFlight>>
    BY <1>4 DEF Select, Typed, LoopRec
  <2> QED  BY <2>1, <2>2 DEF Seen, Fresh
<1>5. ASSUME NEW c \in loop[v].candidates, Update(v, c)
      PROVE  Seen(v)' \subseteq Seen(v) \cup Fresh
  <2>1. /\ loop'[v].candidates \subseteq loop[v].candidates
        /\ loop'[v].claimed \subseteq loop[v].claimed \cup
             (IF Matches(c) THEN {[job |-> c.job, version |-> row[c.job].version + 1]}
                            ELSE {})
        /\ UNCHANGED <<pool, inFlight>>
    BY <1>5 DEF Update, Typed, LoopRec
  <2>2. c.job \in Jobs /\ (Matches(c) => row[c.job].status = "SCHEDULED")
    BY DEF Matches, Typed, LoopRec, AnyClaim
  <2> QED  BY <2>1, <2>2 DEF Seen, Fresh
<1>6. ASSUME NEW c \in loop[v].candidates, Register(v, c)
      PROVE  Seen(v)' \subseteq Seen(v) \cup Fresh
  BY <1>6 DEF Register, Seen, Typed, LoopRec
<1>7. ASSUME NEW c \in loop[v].claimed, Submit(v, c)
      PROVE  Seen(v)' \subseteq Seen(v) \cup Fresh
  <2>1. /\ loop'[v].candidates = {c} /\ loop'[v].claimed = loop[v].claimed
        /\ UNCHANGED inFlight
        /\ pool'[v].running = pool[v].running \cup {c}
        /\ pool'[v].finished = pool[v].finished
    BY <1>7 DEF Submit, Typed, LoopRec
  <2> QED  BY <2>1 DEF Seen
<1>8. ASSUME NEW c \in pool[v].running, TaskEnds(v, c) \/ TaskErrs(v, c)
      PROVE  Seen(v)' \subseteq Seen(v) \cup Fresh
  <2>1. /\ pool'[v].running \subseteq pool[v].running
        /\ pool'[v].finished \subseteq pool[v].finished \cup {c}
        /\ UNCHANGED <<loop, inFlight>>
    BY <1>8 DEF TaskEnds, TaskErrs, Ended, Typed
  <2> QED  BY <2>1 DEF Seen
<1>9. ASSUME NEW c \in pool[v].finished, Callback(v, c)
      PROVE  Seen(v)' \subseteq Seen(v) \cup Fresh
  BY <1>9 DEF Callback, Seen, Typed
<1>10. ASSUME ClaimFails(v) \/ FetchFails(v) \/ Crash(v)
       PROVE  Seen(v)' \subseteq Seen(v) \cup Fresh
  BY <1>10 DEF ClaimFails, FetchFails, Crash, Seen, Typed
<1>11. ASSUME NEW w \in Workers, w # v,
              \/ MainStep(w) \/ ThreadStep(w) \/ ClaimFails(w) \/ FetchFails(w)
              \/ Crash(w) \/ \E c \in pool[w].running : TaskErrs(w, c)
       PROVE  loop'[v] = loop[v] /\ pool'[v] = pool[v] /\ inFlight'[v] = inFlight[v]
  BY <1>11
  DEF MainStep, ThreadStep, LoopEnds, ReapFails, NoReap, Reap, Select, Update,
      Register, Commit, Fetch, Submit, AllSubmitted, Wait, Drained, TaskEnds,
      Callback, ClaimFails, FetchFails, Crash, TaskErrs, Ended, Goto, Typed
<1>12. ASSUME (\E w \in Workers : Signal(w)) \/ (\E j \in Jobs : LeaseExpires(j))
                \/ UNCHANGED pollVars
       PROVE  loop'[v] = loop[v] /\ pool'[v] = pool[v] /\ inFlight'[v] = inFlight[v]
  BY <1>12 DEF Signal, LeaseExpires, pollVars
<1> QED
  BY <1>1, <1>3, <1>4, <1>5, <1>6, <1>7, <1>8, <1>9, <1>10, <1>11, <1>12
  DEF Next, MainStep, ThreadStep

\* A fresh claim is a version that some row will have.
LEMMA FreshIsClaim == Typed /\ Ages => Fresh \subseteq Claims
<1> SUFFICES ASSUME Typed, Ages, NEW c \in Fresh PROVE c \in Claims
  OBVIOUS
<1>1. MaxClaims \in Nat \ {0}
  BY PollingAssumption
<1>2. ASSUME NEW j \in Jobs
      PROVE  /\ row[j].version \in 0 .. 2 * MaxClaims
             /\ row[j].status = "SCHEDULED" => row[j].version + 1 \in 0 .. 2 * MaxClaims
  <2>1. AgeOf(row[j].status, row[j].version) /\ row[j].version \in Nat
    BY DEF Ages, AgeOf, Typed, RowRec
  <2> QED  BY <1>1, <2>1 DEF AgeOf
<1> QED  BY <1>2 DEF Fresh, Claims

\* The flags and counters of the loop.
LEMMA FlagsNext ==
  ASSUME Inv, FlagsTyped, [Next]_pollVars PROVE FlagsTyped'
<1> USE DEF FlagsTyped
<1>1. ASSUME NEW w \in Workers, Wait(w) PROVE FlagsTyped'
  <2>1. cycles[w] + 1 \in Nat /\ ReapEvery \in Nat
    BY PollingAssumption
  <2>2. Min({cycles[w] + 1, ReapEvery}) \in 0 .. ReapEvery
    <3> DEFINE m == Min({cycles[w] + 1, ReapEvery})
    <3>1. cycles[w] + 1 \in Int /\ ReapEvery \in Int
      BY <2>1
    <3>2. m \in {cycles[w] + 1, ReapEvery} /\ m <= ReapEvery
      BY <3>1, MinOfTwo
    <3> HIDE DEF m
    <3>3. m \in 0 .. ReapEvery
      BY <2>1, <3>2
    <3> QED  BY <3>3 DEF m
  <2>3. cycles' = [cycles EXCEPT ![w] = Min({cycles[w] + 1, ReapEvery})]
        /\ UNCHANGED <<locking, stop, orphaned>>
    BY <1>1 DEF Wait
  <2> QED  BY <2>2, <2>3
<1>2. ASSUME NEW w \in Workers, Reap(w) \/ ReapFails(w) PROVE FlagsTyped'
  <2>1. 0 \in 0 .. ReapEvery
    BY PollingAssumption
  <2>2. cycles' = [cycles EXCEPT ![w] = 0] /\ UNCHANGED <<locking, stop>>
        /\ orphaned' \subseteq orphaned
    BY <1>2 DEF Reap, ReapFails
  <2> QED  BY <2>1, <2>2
<1>3. ASSUME NEW w \in Workers, Signal(w) PROVE FlagsTyped'
  BY <1>3 DEF Signal
<1>4. ASSUME NEW w \in Workers, FetchFails(w) PROVE FlagsTyped'
  <2>1. \A c \in loop[w].claimed : c.job \in Jobs
    BY DEF Inv, Typed, LoopRec, AnyClaim
  <2> QED  BY <1>4, <2>1 DEF FetchFails
<1>5. ASSUME NEW w \in Workers, NEW c \in pool[w].running, TaskErrs(w, c)
      PROVE  FlagsTyped'
  <2>1. c.job \in Jobs
    BY DEF Inv, Typed, AnyClaim
  <2> QED  BY <1>5, <2>1 DEF TaskErrs
<1>6. ASSUME NEW w \in Workers,
             \/ MainStep(w) /\ ~Wait(w) /\ ~Reap(w) /\ ~ReapFails(w)
             \/ ThreadStep(w) \/ ClaimFails(w) \/ Crash(w)
      PROVE  UNCHANGED <<locking, stop, cycles, orphaned>>
  BY <1>6
  DEF MainStep, ThreadStep, LoopEnds, NoReap, Select, Update, Register, Commit, Fetch,
      Submit, AllSubmitted, Drained, TaskEnds, Callback, ClaimFails, Crash
<1>7. ASSUME (\E j \in Jobs : LeaseExpires(j)) \/ UNCHANGED pollVars
      PROVE  UNCHANGED <<locking, stop, cycles, orphaned>>
  BY <1>7 DEF LeaseExpires, pollVars
<1>8. CASE UNCHANGED <<locking, stop, cycles, orphaned>>
  BY <1>8
<1> QED
  BY <1>1, <1>2, <1>3, <1>4, <1>5, <1>6, <1>7, <1>8 DEF Next

\* Whatever the bound on claims, rows, claims and counters stay within it:
\* versions count the claims of a job and their ends, and nothing else.
THEOREM LoopTypeCorrect == Spec => []TypeOK
<1>1. Init => Bounded
  <2> SUFFICES ASSUME Init PROVE Bounded
    OBVIOUS
  <2>1. MaxClaims \in Nat \ {0} /\ ReapEvery \in Nat
    BY PollingAssumption
  <2>2. Ages
    <3>1. 0 \in 0 .. MaxClaims - 1 /\ 0 = 2 * 0
      BY <2>1
    <3>2. \A j \in Jobs : row[j].status = "SCHEDULED" /\ row[j].version = 0
      BY DEF Init
    <3> QED  BY <3>1, <3>2 DEF Ages
  <2>3. \A w \in Workers : Seen(w) \subseteq Claims
    BY DEF Init, Seen
  <2>4. FlagsTyped
    BY <2>1 DEF Init, FlagsTyped
  <2> QED  BY <2>2, <2>3, <2>4 DEF Bounded
<1>2. Inv /\ Bounded /\ [Next]_pollVars => Bounded'
  <2> SUFFICES ASSUME Inv, Bounded, [Next]_pollVars PROVE Bounded'
    OBVIOUS
  <2>1. Fresh \subseteq Claims
    BY FreshIsClaim DEF Inv, Bounded
  <2>2. ASSUME NEW w \in Workers PROVE Seen(w)' \subseteq Claims
    <3>1. Seen(w)' \subseteq Seen(w) \cup Fresh
      BY SeenGrows DEF Inv
    <3> QED  BY <2>1, <3>1 DEF Bounded
  <2>3. \A w \in Workers : Seen(w)' \subseteq Claims
    BY <2>2
  <2>4. Claims' = Claims
    BY DEF Claims
  <2> QED  BY <2>3, <2>4, RowsAge, FlagsNext DEF Bounded
<1>3. Inv /\ Bounded => TypeOK
  <2> SUFFICES ASSUME Inv, Bounded PROVE TypeOK
    OBVIOUS
  <2>1. row \in [Jobs -> Row]
    <3>1. MaxClaims \in Nat \ {0}
      BY PollingAssumption
    <3>2. ASSUME NEW j \in Jobs PROVE row[j].version \in 0 .. 2 * MaxClaims
      <4>1. AgeOf(row[j].status, row[j].version) /\ row[j].version \in Nat
        BY DEF Inv, Bounded, Ages, AgeOf, Typed, RowRec
      <4> QED  BY <3>1, <4>1 DEF AgeOf
    <3>3. ASSUME NEW j \in Jobs PROVE row[j] \in Row
      <4>1. row[j] \in RowRec
        BY DEF Inv, Typed
      <4> QED  BY <3>2, <4>1 DEF RowRec, Row
    <3> QED  BY <3>3 DEF Inv, Typed
  <2>2. ASSUME NEW w \in Workers
        PROVE  /\ loop[w] \in Loop /\ pool[w] \in Pool /\ inFlight[w] \subseteq Claims
    <3>1. /\ loop[w] \in LoopRec
          /\ pool[w] \in [running : SUBSET AnyClaim, finished : SUBSET AnyClaim]
          /\ Seen(w) \subseteq Claims
      BY DEF Inv, Typed, Bounded
    <3> QED  BY <3>1 DEF Seen, LoopRec, Loop, Pool, Place
  <2> QED
    BY <2>1, <2>2 DEF Inv, Typed, Bounded, FlagsTyped, TypeOK
<1> QED
  BY <1>1, <1>2, <1>3, InitInv, NextInv, PTL DEF Spec
=============================================================================
