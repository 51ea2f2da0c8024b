--------------------------- MODULE PollingProofs ---------------------------
(***************************************************************************)
(* For any jobs, workers, pools and batches, with SKIP LOCKED or without:  *)
(* what a worker claimed is its own, and no slot of a pool is lost.        *)
(***************************************************************************)
EXTENDS Polling, TLAPS

AnyClaim == [job : Jobs, version : Nat]

Place == {"top", "poll", "update", "fetch", "submit", "register", "wait",
          "draining", "stopped", "dead"}

RowRec == [status    : {"SCHEDULED", "RUNNING", "SETTLED"},
           locked_by : Workers \cup {None},
           expired   : BOOLEAN,
           version   : Nat]

LoopRec == [pc         : Place,
            candidates : SUBSET AnyClaim,
            claimed    : SUBSET AnyClaim]

\* The types the argument needs; versions are not bounded.
Typed ==
  /\ row \in [Jobs -> RowRec]
  /\ lock \in [Jobs -> Workers \cup {None}]
  /\ loop \in [Workers -> LoopRec]
  /\ pool \in [Workers -> [running : SUBSET AnyClaim, finished : SUBSET AnyClaim]]
  /\ inFlight \in [Workers -> SUBSET AnyClaim]

\* What the locals of the main thread are where.
LoopShape ==
  \A w \in Workers :
    /\ loop[w].pc \in {"top", "poll", "wait", "draining", "stopped", "dead"}
         => loop[w].claimed = {}
    /\ loop[w].pc \in {"fetch", "submit"} => loop[w].candidates = {}
    /\ loop[w].pc = "register" =>
         \E c \in loop[w].claimed : loop[w].candidates = {c}

\* The claims that the main thread has made and not submitted.
Handed(w) ==
  IF loop[w].pc \in {"fetch", "submit", "register"}
    THEN loop[w].claimed \ loop[w].candidates ELSE {}

\* No claim is submitted twice.
OnceOnly == \A w \in Workers : pool[w].running \cap Handed(w) = {}

\* A row that was updated and not committed is locked, and as it was when
\* the UPDATE matched it.
UpdateLocked ==
  \A w \in Workers : loop[w].pc = "update" =>
    \A c \in loop[w].claimed :
      /\ lock[c.job] = w
      /\ row[c.job].status = "SCHEDULED"
      /\ c.version = row[c.job].version + 1

\* WorkIsHeld, under a lease that has not expired.
Held ==
  \A w \in Workers : \A c \in Work(w) :
    /\ row[c.job].status = "RUNNING"
    /\ row[c.job].locked_by = w /\ row[c.job].version = c.version
    /\ ~row[c.job].expired

Inv == Typed /\ LoopShape /\ OnceOnly /\ UpdateLocked /\ Held

-----------------------------------------------------------------------------
(* Steps that write no row.                                                *)

\* If no row changes and nobody has more to run, nobody runs what is not his.
LEMMA LessWork ==
  ASSUME Held, UNCHANGED row,
         \A w \in Workers : Work(w)' \subseteq Work(w)
  PROVE  Held'
BY DEF Held

\* The main thread goes on with nothing in its hands, or from the commit to
\* the submission.
LEMMA GoesOn ==
  ASSUME Inv, NEW w \in Workers, NEW pc \in Place, Goto(w, pc),
         \/ loop[w].claimed = {} /\ pc \notin {"fetch", "submit", "register"}
         \/ loop[w].pc = "fetch" /\ pc = "submit",
         UNCHANGED <<row, lock, pool, inFlight>>
  PROVE  Inv'
<1> USE DEF Inv
<1>1. Typed'
  <2>1. loop' \in [Workers -> LoopRec]
    BY DEF Typed, LoopRec, Goto
  <2> QED
    BY <2>1 DEF Typed, LoopRec
<1>2. LoopShape'
  BY DEF LoopShape, Goto, Typed, LoopRec, Place
<1>3. \A v \in Workers : /\ pool'[v] = pool[v] /\ Handed(v)' = Handed(v)
                           /\ Work(v)' = Work(v)
  BY DEF Handed, Work, Goto, Typed, LoopRec, LoopShape
<1>4. OnceOnly'
  BY <1>3 DEF OnceOnly
<1>5. UpdateLocked'
  BY DEF UpdateLocked, Goto, Typed, LoopRec
<1>6. Held'
  BY <1>3, LessWork
<1> QED
  BY <1>1, <1>2, <1>4, <1>5, <1>6

\* The steps of the main thread between its statements.
LEMMA MainGoesOn ==
  ASSUME Inv, NEW w \in Workers,
         \/ LoopEnds(w) \/ ReapFails(w) \/ NoReap(w) \/ Fetch(w)
         \/ AllSubmitted(w) \/ Wait(w) \/ Drained(w)
  PROVE  Inv'
<1>1. loop[w].pc \in {"top", "wait", "draining"} => loop[w].claimed = {}
  BY DEF Inv, LoopShape
<1>2. \E pc \in Place :
        /\ Goto(w, pc)
        /\ \/ loop[w].claimed = {} /\ pc \notin {"fetch", "submit", "register"}
           \/ loop[w].pc = "fetch" /\ pc = "submit"
  BY <1>1
  DEF LoopEnds, ReapFails, NoReap, Fetch, AllSubmitted, Wait, Drained, Place
<1>3. UNCHANGED <<row, lock, pool, inFlight>>
  BY DEF LoopEnds, ReapFails, NoReap, Fetch, AllSubmitted, Wait, Drained
<1> QED
  BY <1>2, <1>3, GoesOn

\* The SELECT locks rows that nobody has locked.
LEMMA SelectInv ==
  ASSUME Inv, NEW w \in Workers, Select(w) PROVE Inv'
<1> USE DEF Inv
<1> DEFINE due == {j \in Jobs : /\ row[j].status = "SCHEDULED"
                                /\ locking => lock[j] = None}
<1>1. PICK selected \in SUBSET due, pc \in {"wait", "update"} :
        /\ loop' = [loop EXCEPT ![w].pc = pc,
                      ![w].candidates =
                        {[job |-> j, version |-> row[j].version] : j \in selected}]
        /\ lock' = [j \in Jobs |-> IF locking /\ j \in selected THEN w ELSE lock[j]]
  BY DEF Select, kSubset
<1>2. /\ UNCHANGED <<row, pool, inFlight>>
      /\ loop[w].pc = "poll" /\ loop[w].claimed = {}
  BY DEF Select, LoopShape
<1> DEFINE found == {[job |-> j, version |-> row[j].version] : j \in selected}
<1>3. found \subseteq AnyClaim /\ pc \in Place /\ pc \notin {"fetch", "submit", "register"}
  BY DEF Typed, RowRec, AnyClaim, Place
<1>4. loop' = [loop EXCEPT ![w].pc = pc, ![w].candidates = found]
  BY <1>1
<1> HIDE DEF found
<1>5. Typed'
  <2>1. loop' \in [Workers -> LoopRec]
    <3> DEFINE rec == [loop[w] EXCEPT !.pc = pc, !.candidates = found]
    <3>1. rec \in LoopRec
      BY <1>3 DEF Typed, LoopRec
    <3>2. loop' = [loop EXCEPT ![w] = rec]
      BY <1>4 DEF Typed
    <3> HIDE DEF rec
    <3> QED
      BY <3>1, <3>2 DEF Typed
  <2>2. lock' \in [Jobs -> Workers \cup {None}]
    BY <1>1 DEF Typed, LoopRec
  <2> QED
    BY <1>2, <2>1, <2>2 DEF Typed, LoopRec
<1>6. LoopShape'
  BY <1>2, <1>3, <1>4 DEF LoopShape, Typed, LoopRec
<1>7. \A v \in Workers : /\ pool'[v] = pool[v] /\ Handed(v)' = Handed(v)
                         /\ Work(v)' = Work(v)
  <2>1. ASSUME NEW v \in Workers PROVE loop'[v].claimed = loop[v].claimed
    BY <1>4 DEF Typed, LoopRec
  <2>2. ASSUME NEW v \in Workers, v # w PROVE loop'[v] = loop[v]
    BY <1>4, <2>2 DEF Typed, LoopRec
  <2>3. loop'[w].pc = pc
    BY <1>4 DEF Typed, LoopRec
  <2> QED
    BY <1>2, <1>3, <2>1, <2>2, <2>3 DEF Handed, Work
<1>8. OnceOnly'
  BY <1>7 DEF OnceOnly
<1>9. UpdateLocked'
  <2> SUFFICES ASSUME NEW v \in Workers, loop'[v].pc = "update",
                      NEW c \in loop'[v].claimed
               PROVE  /\ lock'[c.job] = v
                      /\ row'[c.job].status = "SCHEDULED"
                      /\ c.version = row'[c.job].version + 1
    BY DEF UpdateLocked
  <2>1. v # w /\ loop'[v] = loop[v] /\ c \in AnyClaim
    BY <1>2, <1>4 DEF Typed, LoopRec
  <2>2. lock[c.job] = v /\ lock[c.job] # None
    BY <2>1, PollingAssumption DEF UpdateLocked
  <2>3. lock'[c.job] = lock[c.job]
    BY <1>1, <2>1, <2>2 DEF AnyClaim
  <2> QED
    BY <1>2, <2>1, <2>2, <2>3 DEF UpdateLocked
<1>10. Held'
  BY <1>2, <1>7, LessWork
<1> QED
  BY <1>5, <1>6, <1>8, <1>9, <1>10

\* The UPDATE of a candidate locks a row that is still queued, or drops it.
LEMMA UpdateInv ==
  ASSUME Inv, NEW w \in Workers, NEW c \in loop[w].candidates, Update(w, c)
  PROVE  Inv'
<1> USE DEF Inv
<1> DEFINE mine == IF Matches(c)
                     THEN {[job |-> c.job, version |-> row[c.job].version + 1]} ELSE {}
<1>1. /\ loop[w].pc = "update" /\ lock[c.job] \in {None, w}
      /\ UNCHANGED <<row, pool, inFlight>>
      /\ loop' = [loop EXCEPT ![w].candidates = @ \ {c}, ![w].claimed = @ \cup mine]
      /\ lock' = [lock EXCEPT ![c.job] = IF Matches(c) THEN w ELSE @]
  <2>1. loop' = [loop EXCEPT ![w].candidates = @ \ {c}, ![w].claimed = @ \cup mine]
    BY DEF Update, Typed, LoopRec
  <2> QED
    BY <2>1 DEF Update
<1>2. c.job \in Jobs /\ c \in AnyClaim
  BY DEF Typed, LoopRec, AnyClaim
<1>3. mine \subseteq AnyClaim
  BY <1>2 DEF Typed, RowRec, AnyClaim
<1>4. \A d \in mine : /\ d.job = c.job /\ row[c.job].status = "SCHEDULED"
                      /\ d.version = row[c.job].version + 1 /\ lock'[c.job] = w
  BY <1>1, <1>2 DEF Matches, Typed, LoopRec
<1> HIDE DEF mine
<1>5. Typed'
  <2>1. loop' \in [Workers -> LoopRec]
    <3>1. /\ loop[w].candidates \ {c} \in SUBSET AnyClaim
          /\ loop[w].claimed \cup mine \in SUBSET AnyClaim
      BY <1>3 DEF Typed, LoopRec
    <3> DEFINE rec == [loop[w] EXCEPT !.candidates = @ \ {c}, !.claimed = @ \cup mine]
    <3>2. rec \in LoopRec
      BY <3>1 DEF Typed, LoopRec
    <3>3. loop' = [loop EXCEPT ![w] = rec]
      BY <1>1 DEF Typed, LoopRec
    <3> HIDE DEF rec
    <3> QED
      BY <3>2, <3>3 DEF Typed, LoopRec
  <2>2. lock' \in [Jobs -> Workers \cup {None}]
    BY <1>1 DEF Typed, LoopRec
  <2> QED
    BY <1>1, <2>1, <2>2 DEF Typed, LoopRec
<1>6. LoopShape'
  <2>1. /\ loop'[w].pc = "update"
        /\ \A v \in Workers \ {w} : loop'[v] = loop[v]
    BY <1>1 DEF Typed, LoopRec
  <2> QED
    BY <2>1 DEF LoopShape
<1>7. \A v \in Workers : /\ pool'[v] = pool[v] /\ Handed(v)' = Handed(v)
                         /\ Work(v)' = Work(v)
  <2>1. /\ loop'[w].pc = "update" /\ UNCHANGED pool
        /\ \A v \in Workers \ {w} : loop'[v] = loop[v]
    BY <1>1 DEF Typed, LoopRec
  <2> QED
    BY <1>1, <2>1 DEF Handed, Work
<1>8. OnceOnly'
  BY <1>7 DEF OnceOnly
<1>9. UpdateLocked'
  <2> SUFFICES ASSUME NEW v \in Workers, loop'[v].pc = "update",
                      NEW d \in loop'[v].claimed
               PROVE  /\ lock'[d.job] = v
                      /\ row'[d.job].status = "SCHEDULED"
                      /\ d.version = row'[d.job].version + 1
    BY DEF UpdateLocked
  <2>1. CASE v = w /\ d \in mine
    BY <1>1, <1>4, <2>1
  <2>2. CASE ~(v = w /\ d \in mine)
    <3>1. loop[v].pc = "update" /\ d \in loop[v].claimed /\ d \in AnyClaim
      BY <1>1, <2>2 DEF Typed, LoopRec
    <3>2. /\ lock[d.job] = v /\ row[d.job].status = "SCHEDULED"
          /\ d.version = row[d.job].version + 1
      BY <3>1 DEF UpdateLocked
    <3>3. lock'[d.job] = v
      BY <1>1, <1>2, <3>1, <3>2, PollingAssumption DEF Typed, LoopRec, AnyClaim
    <3> QED
      BY <1>1, <3>2, <3>3
  <2> QED
    BY <2>1, <2>2
<1>10. Held'
  BY <1>1, <1>7, LessWork
<1> QED
  BY <1>5, <1>6, <1>8, <1>9, <1>10

-----------------------------------------------------------------------------
(* Steps that write rows, or move a claim.                                 *)

\* A reaper takes RUNNING rows with an expired lease only, which nobody
\* works on and no open transaction has updated.
LEMMA ReapInv ==
  ASSUME Inv, NEW w \in Workers, Reap(w) PROVE Inv'
<1> USE DEF Inv
<1>1. PICK after \in [Abandoned -> UNION {Released(j) : j \in Jobs}] :
        /\ \A j \in Abandoned : after[j] \in Released(j)
        /\ row' = [j \in Jobs |-> IF j \in Abandoned THEN after[j] ELSE row[j]]
  BY DEF Reap
<1>2. /\ loop[w].pc = "top" /\ loop[w].claimed = {}
      /\ loop' = [loop EXCEPT ![w].pc = "poll"]
      /\ UNCHANGED <<lock, pool, inFlight>>
  BY DEF Reap, Goto, LoopShape
<1>3. \A j \in Jobs \ Abandoned : row'[j] = row[j]
  BY <1>1
<1>4. Typed'
  <2>1. row' \in [Jobs -> RowRec]
    <3>1. ASSUME NEW j \in Abandoned PROVE after[j] \in RowRec
      <4>1. row[j].version + 1 \in Nat
        BY DEF Abandoned, Typed, RowRec
      <4> QED
        BY <1>1, <4>1 DEF Released, RowRec
    <3> QED
      BY <1>1, <3>1 DEF Typed
  <2>2. loop' \in [Workers -> LoopRec]
    BY <1>2 DEF Typed, LoopRec, Place
  <2> QED
    BY <1>2, <2>1, <2>2 DEF Typed
<1>5. LoopShape'
  BY <1>2 DEF LoopShape, Typed, LoopRec
<1>6. \A v \in Workers : /\ pool'[v] = pool[v] /\ Handed(v)' = Handed(v)
                         /\ Work(v)' = Work(v)
  BY <1>2 DEF Handed, Work, Typed, LoopRec
<1>7. OnceOnly'
  BY <1>6 DEF OnceOnly
<1>8. UpdateLocked'
  <2>1. \A v \in Workers : loop'[v].pc = "update" =>
          loop[v].pc = "update" /\ loop'[v] = loop[v]
    BY <1>2 DEF Typed
  <2>2. \A v \in Workers : loop[v].pc = "update" =>
          \A c \in loop[v].claimed : c.job \in Jobs \ Abandoned
    BY DEF UpdateLocked, Abandoned, Typed, LoopRec, AnyClaim
  <2> QED
    BY <1>2, <1>3, <2>1, <2>2 DEF UpdateLocked
<1>9. Held'
  <2>1. \A v \in Workers : \A c \in Work(v) : c.job \in Jobs \ Abandoned
    BY DEF Held, Abandoned, Work, Typed, LoopRec, AnyClaim
  <2> QED
    BY <1>3, <1>6, <2>1 DEF Held
<1> QED
  BY <1>4, <1>5, <1>7, <1>8, <1>9

\* The locks of one worker go.
LEMMA UnlockFacts ==
  ASSUME Typed, NEW w \in Workers, Unlock(w)
  PROVE  /\ lock' \in [Jobs -> Workers \cup {None}]
         /\ \A v \in Workers \ {w}, j \in Jobs : lock[j] = v => lock'[j] = v
BY PollingAssumption DEF Unlock, Typed

\* The commit hands the updated rows to the main thread.
LEMMA CommitInv ==
  ASSUME Inv, NEW w \in Workers, Commit(w) PROVE Inv'
<1> USE DEF Inv
<1> DEFINE mine == {c.job : c \in loop[w].claimed}
           pc == IF loop[w].claimed = {} THEN "wait" ELSE "fetch"
<1>1. /\ loop[w].pc = "update" /\ loop[w].candidates = {}
      /\ loop' = [loop EXCEPT ![w].pc = pc]
      /\ Unlock(w) /\ UNCHANGED <<pool, inFlight>>
  BY DEF Commit, Goto
<1> DEFINE next(j) == [status |-> "RUNNING", locked_by |-> w, expired |-> FALSE,
                       version |-> row[j].version + 1]
<1>2. row' = [j \in Jobs |-> IF j \in mine THEN next(j) ELSE row[j]]
  BY DEF Commit
<1>3. /\ \A c \in loop[w].claimed : /\ lock[c.job] = w /\ c.job \in mine /\ c \in AnyClaim
                                    /\ row[c.job].status = "SCHEDULED"
                                    /\ c.version = row[c.job].version + 1
      /\ \A j \in mine : j \in Jobs /\ lock[j] = w /\ row[j].status = "SCHEDULED"
  BY <1>1 DEF UpdateLocked, Typed, LoopRec, AnyClaim
<1> HIDE DEF mine
<1>4. Typed'
  <2>1. row' \in [Jobs -> RowRec]
    <3>1. \A j \in Jobs : row'[j] \in RowRec
      BY <1>2, <1>3 DEF Typed, RowRec
    <3> QED
      BY <1>2, <3>1
  <2>2. loop' \in [Workers -> LoopRec]
    BY <1>1 DEF Typed, LoopRec, Place
  <2> QED
    BY <1>1, <2>1, <2>2, UnlockFacts DEF Typed
<1>5. LoopShape'
  BY <1>1 DEF LoopShape, Typed, LoopRec
<1>6. /\ \A v \in Workers : pool'[v] = pool[v]
      /\ \A v \in Workers \ {w} : loop'[v] = loop[v] /\ Handed(v)' = Handed(v)
      /\ Handed(w)' = loop[w].claimed
  BY <1>1 DEF Handed, Typed, LoopRec
<1>7. \A v \in Workers : \A c \in Work(v) : c.job \in Jobs \ mine
  BY <1>3 DEF Held, Work, Typed, LoopRec, AnyClaim
<1>8. OnceOnly'
  <2>1. pool[w].running \cap loop[w].claimed = {}
    BY <1>3, <1>7 DEF Work
  <2> QED
    BY <1>6, <2>1 DEF OnceOnly
<1>9. UpdateLocked'
  <2> SUFFICES ASSUME NEW v \in Workers, loop'[v].pc = "update",
                      NEW c \in loop'[v].claimed
               PROVE  /\ lock'[c.job] = v
                      /\ row'[c.job].status = "SCHEDULED"
                      /\ c.version = row'[c.job].version + 1
    BY DEF UpdateLocked
  <2>1. v # w /\ loop'[v] = loop[v]
    BY <1>1 DEF Typed, LoopRec
  <2>2. /\ lock[c.job] = v /\ row[c.job].status = "SCHEDULED"
        /\ c.version = row[c.job].version + 1 /\ c.job \in Jobs
    BY <2>1 DEF UpdateLocked, Typed, LoopRec, AnyClaim
  <2>3. c.job \notin mine /\ lock'[c.job] = v
    BY <1>1, <1>3, <2>1, <2>2, UnlockFacts
  <2> QED
    BY <1>2, <2>2, <2>3
<1>10. Held'
  <2> SUFFICES ASSUME NEW v \in Workers, NEW c \in Work(v)'
               PROVE  /\ row'[c.job].status = "RUNNING"
                      /\ row'[c.job].locked_by = v /\ row'[c.job].version = c.version
                      /\ ~row'[c.job].expired
    BY DEF Held
  <2>1. c \in Work(v) \/ (v = w /\ c \in loop[w].claimed)
    BY <1>6 DEF Work, Handed
  <2>2. CASE c \in Work(v)
    BY <1>2, <1>7, <2>2 DEF Held
  <2>3. CASE v = w /\ c \in loop[w].claimed
    BY <1>2, <1>3, <2>3
  <2> QED
    BY <2>1, <2>2, <2>3
<1> QED
  BY <1>4, <1>5, <1>8, <1>9, <1>10

\* The pool takes a claim from the hands of the main thread.
LEMMA SubmitInv ==
  ASSUME Inv, NEW w \in Workers, NEW c \in loop[w].claimed, Submit(w, c)
  PROVE  Inv'
<1> USE DEF Inv
<1>1. /\ loop[w].pc = "submit" /\ loop[w].candidates = {} /\ c \in AnyClaim
      /\ loop' = [loop EXCEPT ![w].pc = "register", ![w].candidates = {c}]
      /\ pool' = [pool EXCEPT ![w].running = @ \cup {c}]
      /\ UNCHANGED <<row, lock, inFlight>>
  BY DEF Submit, LoopShape, Typed, LoopRec
<1>2. /\ loop'[w].pc = "register" /\ loop'[w].candidates = {c}
      /\ loop'[w].claimed = loop[w].claimed
      /\ pool'[w].running = pool[w].running \cup {c}
  BY <1>1 DEF Typed, LoopRec
<1>3. \A v \in Workers \ {w} : loop'[v] = loop[v] /\ pool'[v] = pool[v]
  BY <1>1 DEF Typed
<1>4. Typed'
  <2>1. loop' \in [Workers -> LoopRec]
    <3>1. [loop[w] EXCEPT !.pc = "register", !.candidates = {c}] \in LoopRec
      BY <1>1 DEF Typed, LoopRec, Place
    <3> QED
      BY <1>1, <3>1 DEF Typed
  <2>2. pool' \in [Workers -> [running : SUBSET AnyClaim, finished : SUBSET AnyClaim]]
    BY <1>1 DEF Typed
  <2> QED
    BY <1>1, <2>1, <2>2 DEF Typed
<1>5. LoopShape'
  BY <1>2, <1>3 DEF LoopShape
<1>6. Handed(w) = loop[w].claimed /\ Handed(w)' = loop[w].claimed \ {c}
  BY <1>1, <1>2 DEF Handed
<1>7. \A v \in Workers \ {w} : Handed(v)' = Handed(v) /\ Work(v)' = Work(v)
  BY <1>3 DEF Handed, Work
<1>8. OnceOnly'
  BY <1>2, <1>3, <1>6, <1>7 DEF OnceOnly
<1>9. UpdateLocked'
  <2>1. \A v \in Workers : loop'[v].pc = "update" => loop'[v] = loop[v]
    BY <1>2, <1>3
  <2> QED
    BY <1>1, <2>1 DEF UpdateLocked
<1>10. Work(w)' \subseteq Work(w)
  <2>1. Work(w) = pool[w].running \cup Handed(w)
    BY DEF Work, Handed
  <2>2. Work(w)' = pool'[w].running \cup Handed(w)'
    BY DEF Work, Handed
  <2> QED
    BY <1>2, <1>6, <2>1, <2>2
<1>11. Held'
  <2>1. \A v \in Workers : Work(v)' \subseteq Work(v)
    BY <1>7, <1>10
  <2> QED
    BY <1>1, <2>1, LessWork
<1> QED
  BY <1>4, <1>5, <1>8, <1>9, <1>11

\* The main thread puts the future into in_flight and turns to the next one.
LEMMA RegisterInv ==
  ASSUME Inv, NEW w \in Workers, NEW c \in loop[w].candidates, Register(w, c)
  PROVE  Inv'
<1> USE DEF Inv
<1>1. /\ loop[w].pc = "register" /\ loop[w].candidates = {c} /\ c \in AnyClaim
      /\ loop' = [loop EXCEPT ![w] = [pc |-> "submit", candidates |-> {},
                                      claimed |-> loop[w].claimed \ {c}]]
      /\ UNCHANGED <<row, lock, pool>>
  BY DEF Register, LoopShape, Typed, LoopRec
<1>2. /\ loop'[w] = [pc |-> "submit", candidates |-> {}, claimed |-> loop[w].claimed \ {c}]
      /\ \A v \in Workers \ {w} : loop'[v] = loop[v]
  BY <1>1 DEF Typed
<1>3. Typed'
  <2>1. loop' \in [Workers -> LoopRec]
    BY <1>1 DEF Typed, LoopRec, Place
  <2>2. inFlight' \in [Workers -> SUBSET AnyClaim]
    BY <1>1 DEF Register, Typed
  <2> QED
    BY <1>1, <2>1, <2>2 DEF Typed
<1>4. LoopShape'
  BY <1>2 DEF LoopShape
<1>5. \A v \in Workers : /\ pool'[v] = pool[v] /\ Handed(v)' = Handed(v)
                         /\ Work(v)' = Work(v)
  BY <1>1, <1>2 DEF Handed, Work
<1>6. OnceOnly'
  BY <1>5 DEF OnceOnly
<1>7. UpdateLocked'
  BY <1>1, <1>2 DEF UpdateLocked
<1>8. Held'
  BY <1>1, <1>5, LessWork
<1> QED
  BY <1>3, <1>4, <1>6, <1>7, <1>8

\* A claim, or a process, that fails drops what it holds, with its locks.
LEMMA Drops ==
  ASSUME Inv, NEW w \in Workers, NEW pc \in {"wait", "dead"},
         loop' = [loop EXCEPT ![w] = [pc |-> pc, candidates |-> {}, claimed |-> {}]],
         Unlock(w) \/ (loop[w].pc # "update" /\ UNCHANGED lock),
         UNCHANGED row, pool' \in [Workers -> [running : SUBSET AnyClaim,
                                               finished : SUBSET AnyClaim]],
         \A v \in Workers : pool'[v].running \subseteq pool[v].running,
         inFlight' \in [Workers -> SUBSET AnyClaim]
  PROVE  Inv'
<1> USE DEF Inv
<1>1. /\ loop'[w] = [pc |-> pc, candidates |-> {}, claimed |-> {}]
      /\ \A v \in Workers \ {w} : loop'[v] = loop[v]
  BY DEF Typed
<1>2. /\ lock' \in [Jobs -> Workers \cup {None}]
      /\ \A v \in Workers \ {w}, j \in Jobs : lock[j] = v => lock'[j] = v
  BY UnlockFacts DEF Typed
<1>3. Typed'
  <2>1. loop' \in [Workers -> LoopRec]
    BY DEF Typed, LoopRec, Place
  <2> QED
    BY <1>2, <2>1 DEF Typed
<1>4. LoopShape'
  BY <1>1 DEF LoopShape
<1>5. \A v \in Workers : Handed(v)' \subseteq Handed(v) /\ Work(v)' \subseteq Work(v)
  BY <1>1 DEF Handed, Work
<1>6. OnceOnly'
  BY <1>5 DEF OnceOnly
<1>7. UpdateLocked'
  BY <1>1, <1>2 DEF UpdateLocked, Typed, LoopRec, AnyClaim
<1>8. Held'
  BY <1>5, LessWork
<1> QED
  BY <1>3, <1>4, <1>6, <1>7, <1>8

\* So it is when the claim raises, when the SELECT after it raises, and when
\* the process dies.
LEMMA FailureInv ==
  ASSUME Inv, NEW w \in Workers, ClaimFails(w) \/ FetchFails(w) \/ Crash(w)
  PROVE  Inv'
<1> USE DEF Inv
<1>1. CASE ClaimFails(w)
  BY <1>1, Drops DEF ClaimFails, Typed
<1>2. CASE FetchFails(w)
  BY <1>2, Drops DEF FetchFails, Typed
<1>3. CASE Crash(w)
  <2>1. /\ pool' \in [Workers -> [running : SUBSET AnyClaim, finished : SUBSET AnyClaim]]
        /\ \A v \in Workers : pool'[v].running \subseteq pool[v].running
        /\ inFlight' \in [Workers -> SUBSET AnyClaim]
    BY <1>3 DEF Crash, Typed
  <2> QED
    BY <1>3, <2>1, Drops DEF Crash
<1> QED
  BY <1>1, <1>2, <1>3

-----------------------------------------------------------------------------
(* Steps of the threads, of the leases and of the signals.                 *)

\* A step that touches neither the loop nor a lock, and may end a future.
LEMMA ThreadsEnd ==
  ASSUME Inv, UNCHANGED <<row, lock, loop>>,
         pool' \in [Workers -> [running : SUBSET AnyClaim, finished : SUBSET AnyClaim]],
         \A v \in Workers : pool'[v].running \subseteq pool[v].running,
         inFlight' \in [Workers -> SUBSET AnyClaim]
  PROVE  Inv'
<1> USE DEF Inv
<1>1. Typed' /\ LoopShape' /\ UpdateLocked'
  BY DEF Typed, LoopShape, UpdateLocked
<1>2. \A v \in Workers : Handed(v)' = Handed(v) /\ Work(v)' \subseteq Work(v)
  BY DEF Handed, Work
<1>3. OnceOnly'
  BY <1>2 DEF OnceOnly
<1>4. Held'
  BY <1>2, LessWork
<1> QED
  BY <1>1, <1>3, <1>4

LEMMA EndedFacts ==
  ASSUME Typed, NEW w \in Workers, NEW c \in pool[w].running, Ended(w, c)
  PROVE  /\ pool' \in [Workers -> [running : SUBSET AnyClaim, finished : SUBSET AnyClaim]]
         /\ pool'[w].running = pool[w].running \ {c}
         /\ \A v \in Workers \ {w} : pool'[v].running = pool[v].running
<1>1. c \in AnyClaim
  BY DEF Typed
<1> DEFINE rec == [pool[w] EXCEPT !.running = @ \ {c},
                     !.finished = IF c \in inFlight[w] THEN @ \cup {c} ELSE @]
<1>2. rec \in [running : SUBSET AnyClaim, finished : SUBSET AnyClaim]
  BY <1>1 DEF Typed
<1>3. pool' = [pool EXCEPT ![w] = rec]
  BY DEF Ended, Typed
<1>4. rec.running = pool[w].running \ {c}
  BY DEF Typed
<1> HIDE DEF rec
<1> QED
  BY <1>2, <1>3, <1>4 DEF Typed

LEMMA SmallStepInv ==
  ASSUME Inv, NEW w \in Workers,
         \/ \E c \in pool[w].running : TaskErrs(w, c)
         \/ \E c \in pool[w].finished : Callback(w, c)
         \/ Signal(w)
  PROVE  Inv'
<1> USE DEF Inv
<1>1. CASE \E c \in pool[w].running : TaskErrs(w, c)
  <2>1. PICK c \in pool[w].running : TaskErrs(w, c)
    BY <1>1
  <2>2. /\ pool' \in [Workers -> [running : SUBSET AnyClaim, finished : SUBSET AnyClaim]]
        /\ \A v \in Workers : pool'[v].running \subseteq pool[v].running
    BY <2>1, EndedFacts DEF TaskErrs
  <2> QED
    BY <2>1, <2>2, ThreadsEnd DEF TaskErrs, Typed
<1>2. CASE \E c \in pool[w].finished : Callback(w, c)
  <2>1. PICK c \in pool[w].finished : Callback(w, c)
    BY <1>2
  <2>2. /\ pool' \in [Workers -> [running : SUBSET AnyClaim, finished : SUBSET AnyClaim]]
        /\ \A v \in Workers : pool'[v].running \subseteq pool[v].running
        /\ inFlight' \in [Workers -> SUBSET AnyClaim]
    BY <2>1 DEF Callback, Typed
  <2> QED
    BY <2>1, <2>2, ThreadsEnd DEF Callback
<1>3. CASE Signal(w)
  BY <1>3, ThreadsEnd DEF Signal, Typed
<1> QED
  BY <1>1, <1>2, <1>3

\* The outcome of a job changes its row alone, and the thread is done: no
\* other claim of the job, of this worker or of another, is left to run.
LEMMA TaskEndsInv ==
  ASSUME Inv, NEW w \in Workers, NEW c \in pool[w].running, TaskEnds(w, c)
  PROVE  Inv'
<1> USE DEF Inv
<1>1. PICK after \in Released(c.job) : row' = [row EXCEPT ![c.job] = after]
  BY DEF TaskEnds
<1>2. Ended(w, c) /\ UNCHANGED <<lock, loop, inFlight>>
  BY DEF TaskEnds
<1>3. c \in AnyClaim /\ c.job \in Jobs /\ c \in Work(w)
  BY DEF Typed, AnyClaim, Work
<1>4. \A j \in Jobs \ {c.job} : row'[j] = row[j]
  BY <1>1 DEF Typed
<1>5. Typed'
  <2>1. row[c.job].version + 1 \in Nat
    BY <1>3 DEF Typed, RowRec
  <2>2. after \in RowRec
    BY <1>1, <2>1 DEF Released, RowRec
  <2>3. row' \in [Jobs -> RowRec]
    BY <1>1, <2>2 DEF Typed
  <2> QED
    BY <1>2, <2>3, EndedFacts DEF Typed
<1>6. LoopShape'
  BY <1>2 DEF LoopShape
<1>7. \A v \in Workers : Handed(v)' = Handed(v)
  BY <1>2 DEF Handed
<1>8. OnceOnly'
  BY <1>2, <1>7, EndedFacts DEF OnceOnly
<1>9. UpdateLocked'
  <2>1. \A v \in Workers : loop[v].pc = "update" =>
          \A d \in loop[v].claimed : d.job \in Jobs \ {c.job}
    BY <1>3 DEF UpdateLocked, Held, Typed, LoopRec, AnyClaim
  <2> QED
    BY <1>2, <1>4, <2>1 DEF UpdateLocked
<1>10. \A v \in Workers : Work(v) = pool[v].running \cup Handed(v)
  BY DEF Work, Handed
<1>11. \A v \in Workers : Work(v)' = pool'[v].running \cup Handed(v)'
  BY DEF Work, Handed
<1>12. ASSUME NEW v \in Workers, NEW d \in Work(v)' PROVE d \in Work(v) /\ d.job # c.job
  <2>1. d \in Work(v) /\ (v = w => d # c)
    BY <1>2, <1>7, <1>10, <1>11, <1>12, EndedFacts DEF OnceOnly
  <2>2. d \in AnyClaim
    BY <1>10, <2>1 DEF Handed, Typed, LoopRec
  <2>3. CASE d.job = c.job
    <3>1. v = w /\ d.version = c.version
      BY <1>3, <2>1, <2>3 DEF Held
    <3>2. d = c
      BY <1>3, <2>2, <2>3, <3>1 DEF AnyClaim
    <3> QED
      BY <2>1, <3>1, <3>2
  <2> QED
    BY <2>1, <2>3
<1>13. Held'
  <2> SUFFICES ASSUME NEW v \in Workers, NEW d \in Work(v)'
               PROVE  /\ row'[d.job].status = "RUNNING"
                      /\ row'[d.job].locked_by = v /\ row'[d.job].version = d.version
                      /\ ~row'[d.job].expired
    BY DEF Held
  <2>1. d \in Work(v) /\ d.job \in Jobs \ {c.job}
    BY <1>12, <1>10 DEF Handed, Typed, LoopRec, AnyClaim
  <2> QED
    BY <1>4, <2>1 DEF Held
<1> QED
  BY <1>5, <1>6, <1>8, <1>9, <1>13

\* A lease runs out when its holder no longer works for it.
LEMMA LeaseExpiresInv ==
  ASSUME Inv, NEW j \in Jobs, LeaseExpires(j) PROVE Inv'
<1> USE DEF Inv
<1>1. /\ row[j].status = "RUNNING" /\ row' = [row EXCEPT ![j].expired = TRUE]
      /\ \A c \in Work(row[j].locked_by) : c.job # j
      /\ UNCHANGED <<lock, loop, pool, inFlight>>
  BY DEF LeaseExpires
<1>2. \A i \in Jobs \ {j} : row'[i] = row[i]
  BY <1>1 DEF Typed
<1>3. Typed'
  BY <1>1 DEF Typed, RowRec
<1>4. LoopShape'
  BY <1>1 DEF LoopShape
<1>5. \A v \in Workers : Handed(v)' = Handed(v) /\ Work(v)' = Work(v)
  BY <1>1 DEF Handed, Work
<1>6. OnceOnly'
  BY <1>1, <1>5 DEF OnceOnly
<1>7. UpdateLocked'
  <2>1. \A v \in Workers : loop[v].pc = "update" =>
          \A d \in loop[v].claimed : d.job \in Jobs \ {j}
    BY <1>1 DEF UpdateLocked, Typed, LoopRec, AnyClaim
  <2> QED
    BY <1>1, <1>2, <2>1 DEF UpdateLocked
<1>8. \A v \in Workers : \A c \in Work(v) : c.job \in Jobs \ {j}
  <2> SUFFICES ASSUME NEW v \in Workers, NEW c \in Work(v) PROVE c.job \in Jobs \ {j}
    OBVIOUS
  <2>1. c.job \in Jobs /\ row[c.job].locked_by = v
    BY DEF Held, Work, Typed, LoopRec, AnyClaim
  <2> QED
    BY <1>1, <2>1
<1>9. Held'
  BY <1>2, <1>5, <1>8 DEF Held
<1> QED
  BY <1>3, <1>4, <1>6, <1>7, <1>9

-----------------------------------------------------------------------------
LEMMA InitInv == Init => Inv
<1> SUFFICES ASSUME Init PROVE Inv
  OBVIOUS
<1>1. Typed
  BY DEF Init, Typed, RowRec, LoopRec, Place
<1>2. LoopShape /\ OnceOnly /\ UpdateLocked /\ Held
  BY DEF Init, LoopShape, OnceOnly, Handed, UpdateLocked, Held, Work
<1> QED
  BY <1>1, <1>2 DEF Inv

LEMMA NextInv == Inv /\ [Next]_pollVars => Inv'
<1> SUFFICES ASSUME Inv, [Next]_pollVars PROVE Inv'
  OBVIOUS
<1>1. CASE UNCHANGED pollVars
  <2>1. \A w \in Workers : Handed(w)' = Handed(w) /\ Work(w)' = Work(w)
    BY <1>1 DEF Handed, Work, pollVars
  <2> QED
    BY <1>1, <2>1 DEF Inv, pollVars, Typed, LoopShape, OnceOnly, UpdateLocked, Held
<1>2. ASSUME NEW w \in Workers, MainStep(w) PROVE Inv'
  <2>1. CASE \E c \in loop[w].candidates : Update(w, c) \/ Register(w, c)
    BY <2>1, UpdateInv, RegisterInv
  <2>2. CASE \E c \in loop[w].claimed : Submit(w, c)
    BY <2>2, SubmitInv
  <2> QED
    BY <1>2, <2>1, <2>2, MainGoesOn, ReapInv, SelectInv, CommitInv DEF MainStep
<1>3. ASSUME NEW w \in Workers, ThreadStep(w) PROVE Inv'
  BY <1>3, TaskEndsInv, SmallStepInv DEF ThreadStep
<1>4. ASSUME NEW w \in Workers, ClaimFails(w) \/ FetchFails(w) \/ Crash(w) PROVE Inv'
  BY <1>4, FailureInv
<1>5. ASSUME NEW w \in Workers,
             (\E c \in pool[w].running : TaskErrs(w, c)) \/ Signal(w)
      PROVE  Inv'
  BY <1>5, SmallStepInv
<1>6. CASE \E j \in Jobs : LeaseExpires(j)
  BY <1>6, LeaseExpiresInv
<1> QED
  BY <1>1, <1>2, <1>3, <1>4, <1>5, <1>6 DEF Next

\* Whatever a worker is to run, now or after the rest of its batch, it owns
\* at the version of its claim.  Two workers never run one job, however the
\* statements of their claims interleave and whether or not the rows are
\* locked while they are selected.
THEOREM WorkIsOwn == Spec => []WorkIsHeld
<1>1. Inv => WorkIsHeld
  BY DEF Inv, Held, WorkIsHeld
<1> QED
  BY <1>1, InitInv, NextInv, PTL DEF Spec

\* No slot of a pool is lost: whatever the order of the registration and of
\* the end of its thread, a future in in_flight has its callback to come.
THEOREM SlotsAreReturned == Spec => []SlotsComeBack
<1>1. Init => SlotsComeBack
  BY DEF Init, SlotsComeBack
<1>2. Inv /\ SlotsComeBack /\ [Next]_pollVars => SlotsComeBack'
  <2> SUFFICES ASSUME Inv, SlotsComeBack, [Next]_pollVars PROVE SlotsComeBack'
    OBVIOUS
  <2> USE DEF Inv
  <2>1. CASE UNCHANGED <<pool, inFlight>>
    BY <2>1 DEF SlotsComeBack
  <2>2. ASSUME NEW w \in Workers, NEW c \in loop[w].claimed, Submit(w, c)
        PROVE  SlotsComeBack'
    BY <2>2 DEF Submit, SlotsComeBack, Typed
  <2>3. ASSUME NEW w \in Workers, NEW c \in loop[w].candidates, Register(w, c)
        PROVE  SlotsComeBack'
    BY <2>3 DEF Register, SlotsComeBack, Typed
  <2>4. ASSUME NEW w \in Workers, NEW c \in pool[w].running, Ended(w, c),
               UNCHANGED inFlight
        PROVE  SlotsComeBack'
    BY <2>4 DEF Ended, SlotsComeBack, Typed
  <2>5. ASSUME NEW w \in Workers, NEW c \in pool[w].finished, Callback(w, c)
        PROVE  SlotsComeBack'
    BY <2>5 DEF Callback, SlotsComeBack, Typed
  <2>6. ASSUME NEW w \in Workers, Crash(w) PROVE SlotsComeBack'
    BY <2>6 DEF Crash, SlotsComeBack, Typed
  <2>7. ASSUME NEW w \in Workers, MainStep(w) PROVE SlotsComeBack'
    BY <2>7, <2>1, <2>2, <2>3
    DEF MainStep, LoopEnds, Reap, ReapFails, NoReap, Select, Update, Commit,
        Fetch, AllSubmitted, Wait, Drained
  <2>8. ASSUME NEW w \in Workers, ThreadStep(w) PROVE SlotsComeBack'
    BY <2>8, <2>4, <2>5 DEF ThreadStep, TaskEnds
  <2>9. ASSUME NEW w \in Workers, NEW c \in pool[w].running, TaskErrs(w, c)
        PROVE  SlotsComeBack'
    BY <2>9, <2>4 DEF TaskErrs
  <2>10. ASSUME NEW w \in Workers, ClaimFails(w) \/ FetchFails(w) \/ Signal(w)
         PROVE  SlotsComeBack'
    BY <2>10, <2>1 DEF ClaimFails, FetchFails, Signal
  <2> QED
    BY <2>1, <2>6, <2>7, <2>8, <2>9, <2>10 DEF Next, pollVars, LeaseExpires
<1> QED
  BY <1>1, <1>2, InitInv, NextInv, PTL DEF Spec
=============================================================================
