-------------------------- MODULE JobCreationProofs --------------------------
(***************************************************************************)
(* For any requests, whatever their bodies and however they interleave and *)
(* fail: what an idempotency key promises, what a reply may show, and that *)
(* what is committed can run.                                              *)
(***************************************************************************)
EXTENDS JobCreation, Integers, TLAPS

\* The types the argument needs.
Typed ==
  /\ session \in [Requests -> Session \cup {None}]
  /\ DOMAIN reply = Requests
  /\ open \subseteq Requests /\ DOMAIN jobs \subseteq Requests

\* A row was committed by a request that is over, for what it asked.
RowsCommitted ==
  \A r \in DOMAIN jobs : At(r, "closed") /\ jobs[r].body = session[r].body

\* The unique constraint, on the committed rows and with the open ones.
RowsUnique ==
  \A r, s \in DOMAIN jobs : Collides(jobs[r].body, jobs[s].body) => r = s

OpenUnique ==
  /\ \A r \in Requests : r \in open <=> At(r, "commit")
  /\ \A r \in open :
       /\ \A s \in DOMAIN jobs : ~Collides(session[r].body, jobs[s].body)
       /\ \A s \in open : Collides(session[r].body, session[s].body) => r = s

\* The loser of a race has a row to read back.
LoserHasRow ==
  \A r \in Requests : At(r, "duplicate") =>
    \E s \in DOMAIN jobs : Collides(session[r].body, jobs[s].body)

\* A request that repeats another is answered by the lookup.
RepeatsFound ==
  \A r \in Requests : session[r] # None /\ session[r].repeats # None =>
    /\ session[r].pc \in {"lookup", "closed"} /\ session[r].body.key # Empty
    /\ session[r].repeats \in DOMAIN jobs
    /\ Collides(session[r].body, jobs[session[r].repeats].body)

\* What the reply to r is worth.
Right(r) ==
  /\ At(r, "closed")
  /\ \/ reply[r].status = 201 /\ reply[r].job = r /\ r \in DOMAIN jobs
     \/ /\ reply[r].status = 200 /\ reply[r].job \in DOMAIN jobs
        /\ Collides(session[r].body, jobs[reply[r].job].body)
        /\ session[r].body.key # Empty
     \/ reply[r].status = 409 /\ session[r].body.key = Empty /\ reply[r].job = None
     \/ reply[r].status \in {422, 500} /\ reply[r].job = None
  /\ session[r].repeats # None /\ reply[r].status # 500 =>
       reply[r] = [status |-> 200, job |-> session[r].repeats]

RepliesRight == \A r \in Requests : Answered(r) => Right(r)

Inv == /\ Typed /\ RowsCommitted /\ RowsUnique /\ OpenUnique
       /\ LoserHasRow /\ RepeatsFound /\ RepliesRight

-----------------------------------------------------------------------------
\* A step of one session leaves the others as they are.
LEMMA GotoFacts ==
  ASSUME Typed, NEW r \in Requests, session[r] # None,
         NEW pc \in {"lookup", "insert", "commit", "duplicate", "closed"}, Goto(r, pc)
  PROVE  /\ session' \in [Requests -> Session \cup {None}]
         /\ session'[r] # None /\ session'[r].pc = pc
         /\ session'[r].body = session[r].body /\ session'[r].now = session[r].now
         /\ session'[r].repeats = session[r].repeats
         /\ \A s \in Requests \ {r} : session'[s] = session[s]
<1>1. session[r] \in Session
  BY DEF Typed
<1> DEFINE new == [session[r] EXCEPT !.pc = pc]
<1>2. /\ new \in Session /\ new.pc = pc /\ new.body = session[r].body
      /\ new.now = session[r].now /\ new.repeats = session[r].repeats
  BY <1>1 DEF Session
<1>3. session' = [session EXCEPT ![r] = new]
  BY DEF Goto
<1>4. new # None
  BY <1>2, NoneIsNoSession
<1> HIDE DEF new
<1> QED
  BY <1>2, <1>3, <1>4 DEF Typed

\* What a request that was answered before is worth stays so.
LEMMA RightStays ==
  ASSUME NEW r \in Requests, Right(r), session'[r] = session[r], reply'[r] = reply[r],
         DOMAIN jobs \subseteq DOMAIN jobs',
         \A s \in DOMAIN jobs : jobs'[s] = jobs[s]
  PROVE  Right(r)'
BY DEF Right, At, Collides

\* A session that ends without a row, with an answer that is right.
LEMMA AnswerInv ==
  ASSUME Inv, NEW r \in Requests, session[r] # None, session[r].pc # "closed",
         NEW status, NEW job, Answer(r, status, job),
         UNCHANGED jobs, open' = open \ {r},
         \/ status = 200 /\ job \in Existing(session[r].body)
         \/ status = 422 /\ job = None /\ session[r].repeats = None
         \/ /\ status = 409 /\ job = None /\ session[r].body.key = Empty
            /\ session[r].repeats = None
         \/ status = 500 /\ job = None
  PROVE  Inv'
<1> USE DEF Inv
<1>1. /\ session' \in [Requests -> Session \cup {None}]
      /\ session'[r] # None /\ session'[r].pc = "closed"
      /\ session'[r].body = session[r].body
      /\ session'[r].repeats = session[r].repeats
      /\ \A s \in Requests \ {r} : session'[s] = session[s]
  BY GotoFacts DEF Answer
<1>2. /\ reply' = [reply EXCEPT ![r] = [status |-> status, job |-> job]]
      /\ reply'[r] = [status |-> status, job |-> job]
  BY DEF Answer, Typed
<1>3. Typed'
  BY <1>1, <1>2 DEF Typed
<1>4. RowsCommitted' /\ RowsUnique'
  BY <1>1 DEF RowsCommitted, RowsUnique, At, Typed, Collides
<1>5. OpenUnique'
  BY <1>1 DEF OpenUnique, At, Typed, Collides
<1>6. LoserHasRow' /\ RepeatsFound'
  BY <1>1 DEF LoserHasRow, RepeatsFound, At, Collides
<1>7. Right(r)'
  <2>1. status = 200 => /\ job \in DOMAIN jobs
                        /\ Collides(session[r].body, jobs[job].body)
                        /\ session[r].body.key # Empty
    BY DEF Existing, Collides
  <2>2. status = 200 /\ session[r].repeats # None => job = session[r].repeats
    BY <2>1 DEF RepeatsFound, RowsUnique, Collides
  <2>3. reply'[r].status = status /\ reply'[r].job = job
    BY <1>2
  <2> QED
    BY <1>1, <1>2, <2>1, <2>2, <2>3 DEF Right, At, Collides
<1>8. RepliesRight'
  <2> SUFFICES ASSUME NEW s \in Requests, s # r, Answered(s)' PROVE Right(s)'
    BY <1>7 DEF RepliesRight
  <2>1. reply'[s] = reply[s] /\ Answered(s)
    BY <1>2 DEF Typed, Answered
  <2> QED
    BY <1>1, <2>1, RightStays DEF RepliesRight
<1> QED
  BY <1>3, <1>4, <1>5, <1>6, <1>8

\* A request that arrives learns from the specification what it repeats.
LEMMA SendInv ==
  ASSUME Inv, NEW r \in Requests, NEW b \in Bodies, now \in 0 .. MaxTime, Send(r, b)
  PROVE  Inv'
<1> USE DEF Inv
<1> DEFINE new == [pc |-> "lookup", body |-> b, now |-> now, repeats |-> Repeats(b)]
<1>1. Repeats(b) # None =>
        /\ b.key # Empty /\ Repeats(b) \in DOMAIN jobs
        /\ Collides(b, jobs[Repeats(b)].body)
  BY DEF Repeats
<1>2. new \in Session /\ new # None
  <2>1. Repeats(b) \in Requests \cup {None}
    BY <1>1 DEF Typed
  <2>2. new \in Session
    BY <2>1 DEF Session
  <2> QED
    BY <2>2, NoneIsNoSession
<1>3. /\ session[r] = None /\ UNCHANGED <<jobs, open, reply>>
      /\ session' = [session EXCEPT ![r] = new]
  BY DEF Send
<1>4. /\ new.pc = "lookup" /\ new.body = b /\ new.repeats = Repeats(b)
  OBVIOUS
<1> HIDE DEF new
<1>5. session'[r] = new /\ \A s \in Requests \ {r} : session'[s] = session[s]
  BY <1>3 DEF Typed
<1>6. Typed'
  BY <1>2, <1>3 DEF Typed
<1>7. RowsCommitted' /\ RowsUnique'
  BY <1>3, <1>5 DEF RowsCommitted, RowsUnique, At, Typed, Collides
<1>8. OpenUnique'
  BY <1>3, <1>4, <1>5 DEF OpenUnique, At, Typed, Collides
<1>9. LoserHasRow' /\ RepeatsFound'
  BY <1>1, <1>3, <1>4, <1>5 DEF LoserHasRow, RepeatsFound, At, Collides
<1>10. RepliesRight'
  <2> SUFFICES ASSUME NEW s \in Requests, Answered(s)' PROVE Right(s)'
    BY DEF RepliesRight
  <2>1. Right(s) /\ s # r
    BY <1>3 DEF RepliesRight, Right, At, Answered
  <2> QED
    BY <1>3, <1>5, <2>1, RightStays
<1> QED
  BY <1>6, <1>7, <1>8, <1>9, <1>10

\* A session goes on to the INSERT, or from it.
LEMMA GoesOn ==
  ASSUME Inv, NEW r \in Requests,
         \/ At(r, "lookup") /\ Goto(r, "insert") /\ session[r].repeats = None
              /\ UNCHANGED open
         \/ At(r, "insert") /\ Insert(r),
         UNCHANGED <<jobs, reply>>
  PROVE  Inv'
<1> USE DEF Inv
<1>1. PICK pc \in {"insert", "commit", "duplicate"} :
        /\ Goto(r, pc)
        /\ open' = IF pc = "commit" THEN open \cup {r} ELSE open
        /\ pc = "commit" =>
             /\ \A s \in open : ~Collides(session[r].body, session[s].body)
             /\ \A s \in DOMAIN jobs : ~Collides(session[r].body, jobs[s].body)
        /\ pc = "duplicate" =>
             \E s \in DOMAIN jobs : Collides(session[r].body, jobs[s].body)
  BY DEF Insert
<1>2. /\ session[r] # None /\ session[r].pc \in {"lookup", "insert"}
      /\ session[r].repeats = None /\ r \notin open /\ r \notin DOMAIN jobs
  BY DEF At, RepeatsFound, OpenUnique, RowsCommitted
<1>3. /\ session' \in [Requests -> Session \cup {None}]
      /\ session'[r] # None /\ session'[r].pc = pc
      /\ session'[r].body = session[r].body
      /\ session'[r].repeats = session[r].repeats
      /\ \A s \in Requests \ {r} : session'[s] = session[s]
  BY <1>1, <1>2, GotoFacts
<1>4. Typed'
  BY <1>1, <1>3 DEF Typed
<1>5. RowsCommitted' /\ RowsUnique'
  BY <1>2, <1>3 DEF RowsCommitted, RowsUnique, At, Typed, Collides
<1>6. OpenUnique'
  <2>1. \A s \in Requests : s \in open' <=> At(s, "commit")'
    BY <1>1, <1>2, <1>3 DEF OpenUnique, At
  <2>2. \A s \in open' : session'[s].body = session[s].body
    BY <1>1, <1>3 DEF Typed
  <2> QED
    BY <1>1, <2>1, <2>2 DEF OpenUnique, Collides
<1>7. LoserHasRow' /\ RepeatsFound'
  BY <1>1, <1>2, <1>3 DEF LoserHasRow, RepeatsFound, At, Collides
<1>8. RepliesRight'
  <2> SUFFICES ASSUME NEW s \in Requests, Answered(s)' PROVE Right(s)'
    BY DEF RepliesRight
  <2>1. Right(s) /\ s # r
    BY <1>2 DEF RepliesRight, Right, At, Answered
  <2> QED
    BY <1>3, <2>1, RightStays
<1> QED
  BY <1>4, <1>5, <1>6, <1>7, <1>8

\* A commit adds a row that collides with none, and its reply, if it is not
\* lost, names that row.
LEMMA CommitAnswerInv ==
  ASSUME Inv, NEW r \in Requests, Commit(r),
         NEW status, NEW job,
         \/ status = 201 /\ job = r
         \/ status = 500 /\ job = None,
         Answer(r, status, job)
  PROVE  Inv'
<1> USE DEF Inv
<1>2. /\ session[r] # None /\ session[r].pc = "commit" /\ r \in open
      /\ session[r].repeats = None /\ r \notin DOMAIN jobs
  BY DEF Commit, At, RepeatsFound, OpenUnique, RowsCommitted
<1>3. /\ session' \in [Requests -> Session \cup {None}]
      /\ session'[r] # None /\ session'[r].pc = "closed"
      /\ session'[r].body = session[r].body
      /\ session'[r].repeats = session[r].repeats
      /\ \A s \in Requests \ {r} : session'[s] = session[s]
  BY <1>2, GotoFacts DEF Answer
<1>4. /\ DOMAIN jobs' = DOMAIN jobs \cup {r}
      /\ jobs'[r].body = session[r].body
      /\ \A s \in DOMAIN jobs : jobs'[s] = jobs[s]
      /\ open' = open \ {r}
  BY <1>2 DEF Commit
<1>5. /\ reply' = [reply EXCEPT ![r] = [status |-> status, job |-> job]]
      /\ reply'[r].status = status /\ reply'[r].job = job
  BY DEF Answer, Typed
<1>6. Typed'
  BY <1>3, <1>4, <1>5 DEF Typed
<1>7. RowsCommitted'
  BY <1>2, <1>3, <1>4 DEF RowsCommitted, At, Typed
<1>8. RowsUnique'
  BY <1>2, <1>4 DEF RowsUnique, OpenUnique, Collides
<1>9. OpenUnique'
  <2>1. \A s \in Requests : s \in open' <=> At(s, "commit")'
    BY <1>3, <1>4 DEF OpenUnique, At
  <2>2. \A s \in open' : s \in open /\ s # r /\ session'[s].body = session[s].body
    BY <1>3, <1>4 DEF Typed
  <2> QED
    BY <1>2, <1>4, <2>1, <2>2 DEF OpenUnique, Collides
<1>10. LoserHasRow' /\ RepeatsFound'
  BY <1>2, <1>3, <1>4 DEF LoserHasRow, RepeatsFound, At, Collides
<1>11. Right(r)'
  BY <1>2, <1>3, <1>4, <1>5 DEF Right, At, Collides
<1>12. RepliesRight'
  <2> SUFFICES ASSUME NEW s \in Requests, s # r, Answered(s)' PROVE Right(s)'
    BY <1>11 DEF RepliesRight
  <2>1. reply'[s] = reply[s] /\ Answered(s)
    BY <1>5 DEF Typed, Answered
  <2> QED
    BY <1>3, <1>4, <2>1, RightStays DEF RepliesRight
<1> QED
  BY <1>6, <1>7, <1>8, <1>9, <1>10, <1>12

LEMMA CommitInv ==
  ASSUME Inv, NEW r \in Requests, Commit(r) PROVE Inv'
<1>1. CASE Answer(r, 201, r)
  BY <1>1, CommitAnswerInv
<1>2. CASE Answer(r, 500, None)
  BY <1>2, CommitAnswerInv
<1> QED
  BY <1>1, <1>2 DEF Commit

\* The four steps of a request, and its failure.
LEMMA StepInv ==
  ASSUME Inv, NEW r \in Requests, Step(r) \/ Fail(r) PROVE Inv'
<1> USE DEF Inv
<1>1. CASE Lookup(r)
  <2>1. session[r] # None /\ session[r].pc = "lookup" /\ At(r, "lookup")
    BY <1>1 DEF Lookup, At
  <2>2. UNCHANGED <<jobs, open>> /\ open \ {r} = open
    BY <1>1, <2>1 DEF Lookup, OpenUnique, At
  <2>3. Existing(session[r].body) = {} => session[r].repeats = None
    BY <2>1, NoneIsNoSession DEF RepeatsFound, Existing, Collides
  <2>4. CASE \E j \in Existing(session[r].body) : Answer(r, 200, j)
    BY <2>1, <2>2, <2>4, AnswerInv
  <2>5. CASE Existing(session[r].body) = {} /\ Answer(r, 422, None)
    BY <2>1, <2>2, <2>3, <2>5, AnswerInv
  <2>6. CASE /\ Existing(session[r].body) = {} /\ Goto(r, "insert")
             /\ UNCHANGED reply
    BY <2>1, <2>2, <2>3, <2>6, GoesOn
  <2> QED
    BY <1>1, <2>4, <2>5, <2>6 DEF Lookup
<1>2. CASE Insert(r)
  BY <1>2, GoesOn DEF Insert
<1>3. CASE Commit(r)
  BY <1>3, CommitInv
<1>4. CASE ReadBack(r)
  <2>1. /\ session[r] # None /\ session[r].pc = "duplicate"
        /\ session[r].repeats = None
    BY <1>4 DEF ReadBack, At, RepeatsFound
  <2>2. UNCHANGED <<jobs, open>> /\ open \ {r} = open
    BY <1>4, <2>1 DEF ReadBack, OpenUnique, At
  <2>3. Existing(session[r].body) = {} => session[r].body.key = Empty
    BY <2>1 DEF LoserHasRow, Existing, Collides, At
  <2>4. CASE \E j \in Existing(session[r].body) : Answer(r, 200, j)
    BY <2>1, <2>2, <2>4, AnswerInv
  <2>5. CASE Existing(session[r].body) = {} /\ Answer(r, 409, None)
    BY <2>1, <2>2, <2>3, <2>5, AnswerInv
  <2> QED
    BY <1>4, <2>4, <2>5 DEF ReadBack
<1>5. CASE Fail(r)
  BY <1>5, AnswerInv DEF Fail
<1> QED
  BY <1>1, <1>2, <1>3, <1>4, <1>5 DEF Step

LEMMA InitInv == Init => Inv
<1> SUFFICES ASSUME Init PROVE Inv
  OBVIOUS
<1>1. DOMAIN jobs = {} /\ open = {} /\ \A r \in Requests : session[r] = None /\ ~Answered(r)
  BY DEF Init, Answered
<1>2. Typed
  BY <1>1 DEF Init, Typed
<1> QED
  BY <1>1, <1>2
  DEF Inv, RowsCommitted, RowsUnique, OpenUnique, LoserHasRow, RepeatsFound,
      RepliesRight, At

\* The clock does not go past its bound.
Clock == now \in 0 .. MaxTime

LEMMA ClockKept == Clock /\ [Next]_createVars => Clock'
<1> SUFFICES ASSUME Clock, [Next]_createVars PROVE Clock'
  OBVIOUS
<1>1. now' = now \/ (now < MaxTime /\ now' = now + 1)
  BY DEF Next, Step, Lookup, Insert, Commit, ReadBack, Fail, Send, Tick, createVars
<1> QED
  BY <1>1, CreationAssumption DEF Clock

LEMMA NextInv == Inv /\ Clock /\ [Next]_createVars => Inv'
<1> SUFFICES ASSUME Inv, Clock, [Next]_createVars PROVE Inv'
  OBVIOUS
<1>1. CASE UNCHANGED <<jobs, session, open, reply>>
  BY <1>1
  DEF Inv, Typed, RowsCommitted, RowsUnique, OpenUnique, LoserHasRow, RepeatsFound,
      RepliesRight, Right, At, Answered, Collides
<1>2. ASSUME NEW r \in Requests, NEW b \in Bodies, Send(r, b) PROVE Inv'
  BY <1>2, SendInv DEF Clock
<1> QED
  BY <1>1, <1>2, StepInv DEF Next, Tick, createVars

LEMMA InvHolds == Spec => []Inv
<1>1. Init => Clock
  BY CreationAssumption DEF Init, Clock
<1> QED
  BY <1>1, InitInv, ClockKept, NextInv, PTL DEF Spec

-----------------------------------------------------------------------------
\* Whoever posts one non-empty key any number of times, concurrently or with
\* failures in between, gets one job, which one reply at most reports as new.
THEOREM KeysAgree == Spec => []RepeatsAgree
<1>1. Inv => RepeatsAgree
  <2> SUFFICES ASSUME Inv, NEW r \in Requests, NEW s \in Requests,
                      Answered(r), Answered(s), r # s,
                      reply[r].job # None, reply[s].job # None,
                      Collides(session[r].body, session[s].body)
               PROVE  /\ reply[r].job = reply[s].job
                      /\ reply[r].status = 200 \/ reply[s].status = 200
    BY DEF RepeatsAgree
  <2>1. Right(r) /\ Right(s)
    BY DEF Inv, RepliesRight
  <2>2. /\ reply[r].job \in DOMAIN jobs /\ reply[s].job \in DOMAIN jobs
        /\ reply[r].status = 201 => reply[r].job = r
        /\ reply[s].status = 201 => reply[s].job = s
        /\ reply[r].status \in {200, 201} /\ reply[s].status \in {200, 201}
    BY <2>1 DEF Right
  <2>3. Collides(jobs[reply[r].job].body, jobs[reply[s].job].body)
    BY <2>1 DEF Inv, RowsCommitted, Right, Collides
  <2>4. reply[r].job = reply[s].job
    BY <2>2, <2>3 DEF Inv, RowsUnique
  <2> QED
    BY <2>2, <2>4
<1> QED
  BY <1>1, InvHolds, PTL

\* The loser of a race between two inserts finds the row of the winner.
THEOREM LosersReadBack == Spec => []LoserReadsBack
<1>1. Inv => LoserReadsBack
  <2> SUFFICES ASSUME Inv, NEW r \in Requests, Answered(r), reply[r].status = 409
               PROVE  session[r].body.key = Empty
    BY DEF LoserReadsBack
  <2>1. Right(r)
    BY DEF Inv, RepliesRight
  <2> QED
    BY <2>1 DEF Right
<1> QED
  BY <1>1, InvHolds, PTL

\* A retry is answered with the job it asks for again, even if its body has
\* become invalid.
THEOREM RetriesAreSafe == Spec => []RetryIsSafe
<1>1. Inv => RetryIsSafe
  BY DEF Inv, RepliesRight, Right, RetryIsSafe
<1> QED
  BY <1>1, InvHolds, PTL

\* A reply never names the job of another owner.
THEOREM RepliesAreOwn == Spec => []ReplyIsOwn
<1>1. Inv => ReplyIsOwn
  <2> SUFFICES ASSUME Inv, NEW r \in Requests, Answered(r), reply[r].job # None
               PROVE  jobs[reply[r].job].body.owner = session[r].body.owner
    BY DEF ReplyIsOwn
  <2>1. Right(r)
    BY DEF Inv, RepliesRight
  <2> QED
    BY <2>1 DEF Right, Inv, RowsCommitted, Collides
<1> QED
  BY <1>1, InvHolds, PTL

-----------------------------------------------------------------------------
(* What is committed can be run.                                           *)

\* The first slot after t is after t.
LEMMA SlotIsLater == \A t \in Nat : NextSlot(t) \in Nat /\ NextSlot(t) > t
<1> SUFFICES ASSUME NEW t \in Nat PROVE NextSlot(t) \in Nat /\ NextSlot(t) > t
  OBVIOUS
<1> DEFINE d == CronPeriod
           q == t \div d
<1>1. d \in Nat /\ d > 0
  BY CreationAssumption
<1>2. q \in Int /\ d * q <= t /\ t < d * (q + 1)
  BY <1>1, Z3
<1>3. d * (q + 1) \in Int
  BY <1>1, <1>2
<1> QED
  BY <1>1, <1>2, <1>3 DEF NextSlot

\* A request that goes past the lookup has a valid body.
Validated ==
  \A r \in Requests :
    At(r, "insert") \/ At(r, "commit") => Valid(session[r].body, session[r].now)

RowRunnable(row) ==
  LET b == row.body IN
    /\ row.next_run_at > row.created_at
    /\ b.run_at # None => row.next_run_at >= b.run_at
    /\ b.schedule_type = "interval" => b.interval_seconds # None
    /\ b.schedule_type = "cron" => b.cron_expression = "valid"

Runnable == \A r \in DOMAIN jobs : RowRunnable(jobs[r])

\* The first run of a valid body is later than now, and than its start.
LEMMA FirstRunLater ==
  ASSUME NEW b \in Bodies, NEW t \in Nat, Valid(b, t)
  PROVE  /\ FirstRun(b, t) > t
         /\ b.run_at # None => FirstRun(b, t) >= b.run_at
         /\ b.schedule_type = "interval" => b.interval_seconds # None
         /\ b.schedule_type = "cron" => b.cron_expression = "valid"
<1>1. /\ b.schedule_type \in {"one_time", "interval", "cron"}
      /\ b.run_at \in Nat \cup {None}
      /\ b.interval_seconds \in (Nat \ {0}) \cup {None}
  BY CreationAssumption DEF Body
<1>2. b.run_at # None => b.run_at \in Nat /\ b.run_at > t
  BY <1>1 DEF Valid
<1>3. CASE b.schedule_type = "one_time"
  BY <1>2, <1>3 DEF Valid, FirstRun
<1>4. CASE b.schedule_type = "interval"
  BY <1>1, <1>2, <1>4 DEF Valid, FirstRun
<1>5. CASE b.schedule_type = "cron"
  <2>1. CASE b.run_at = None
    BY <1>5, <2>1, SlotIsLater DEF Valid, FirstRun
  <2>2. CASE b.run_at # None
    <3>1. NextSlot(b.run_at) \in Nat /\ NextSlot(b.run_at) > b.run_at
      BY <1>2, <2>2, SlotIsLater
    <3>2. FirstRun(b, t) = NextSlot(b.run_at)
      BY <1>5, <2>2 DEF FirstRun
    <3> QED
      BY <1>2, <1>5, <2>2, <3>1, <3>2 DEF Valid
  <2> QED
    BY <2>1, <2>2
<1> QED
  BY <1>1, <1>3, <1>4, <1>5

\* A session that moves on, with its body valid wherever it must be.
LEMMA ValidatedKept ==
  ASSUME Typed, Validated, NEW r \in Requests, session[r] # None,
         NEW pc \in {"lookup", "insert", "commit", "duplicate", "closed"},
         Goto(r, pc),
         pc \in {"insert", "commit"} => Valid(session[r].body, session[r].now)
  PROVE  Validated'
<1>1. /\ session'[r] # None /\ session'[r].pc = pc
      /\ session'[r].body = session[r].body /\ session'[r].now = session[r].now
      /\ \A s \in Requests \ {r} : session'[s] = session[s]
  BY GotoFacts
<1> SUFFICES ASSUME NEW s \in Requests, At(s, "insert")' \/ At(s, "commit")'
             PROVE  Valid(session'[s].body, session'[s].now)
  BY DEF Validated, Valid
<1>2. CASE s = r
  BY <1>1, <1>2 DEF At
<1>3. CASE s # r
  BY <1>1, <1>3 DEF At, Validated
<1> QED
  BY <1>2, <1>3

\* Only a commit adds a row, and the row it adds can be run.
LEMMA CommitRunnable ==
  ASSUME Typed, Validated, Runnable, NEW r \in Requests, Commit(r)
  PROVE  Runnable'
<1> DEFINE b == session[r].body
           t == session[r].now
<1>1. session[r] \in Session /\ Valid(b, t)
  BY DEF Commit, At, Typed, Validated
<1>2. b \in Bodies /\ t \in Nat
  BY <1>1, CreationAssumption DEF Session
<1>3. /\ DOMAIN jobs' = DOMAIN jobs \cup {r}
      /\ \A s \in DOMAIN jobs \ {r} : jobs'[s] = jobs[s]
      /\ jobs'[r] = [body |-> b, created_at |-> t, next_run_at |-> FirstRun(b, t)]
  BY DEF Commit
<1> HIDE DEF b, t
<1>4. RowRunnable(jobs'[r])
  BY <1>1, <1>2, <1>3, FirstRunLater DEF RowRunnable
<1>5. ASSUME NEW s \in DOMAIN jobs' PROVE RowRunnable(jobs'[s])
  <2>1. CASE s = r
    BY <1>4, <2>1
  <2>2. CASE s # r
    BY <1>3, <2>2 DEF Runnable
  <2> QED
    BY <2>1, <2>2
<1> QED
  BY <1>5 DEF Runnable

LEMMA RunnableNext ==
  ASSUME Typed, Clock, Validated, Runnable, [Next]_createVars
  PROVE  Validated' /\ Runnable'
<1>1. CASE UNCHANGED <<jobs, session>>
  BY <1>1 DEF Validated, Runnable, At
<1>2. ASSUME NEW r \in Requests, NEW b \in Bodies, Send(r, b)
      PROVE  Validated' /\ Runnable'
  <2>1. Validated'
    <3>1. session'[r].pc = "lookup" /\ \A s \in Requests \ {r} : session'[s] = session[s]
      BY <1>2 DEF Send, Typed
    <3> QED
      BY <3>1 DEF Validated, At
  <2> QED
    BY <1>2, <2>1 DEF Send, Runnable
<1>3. ASSUME NEW r \in Requests, Lookup(r) PROVE Validated' /\ Runnable'
  <2>1. /\ session[r] # None /\ UNCHANGED jobs
        /\ \/ Goto(r, "closed")
           \/ Valid(session[r].body, session[r].now) /\ Goto(r, "insert")
    BY <1>3 DEF Lookup, At, Answer
  <2> QED
    BY <2>1, ValidatedKept DEF Runnable
<1>4. ASSUME NEW r \in Requests, Insert(r) PROVE Validated' /\ Runnable'
  <2>1. /\ session[r] # None /\ UNCHANGED jobs
        /\ Valid(session[r].body, session[r].now)
        /\ Goto(r, "commit") \/ Goto(r, "duplicate")
    BY <1>4 DEF Insert, At, Validated
  <2> QED
    BY <2>1, ValidatedKept DEF Runnable
<1>5. ASSUME NEW r \in Requests, Commit(r) PROVE Validated' /\ Runnable'
  <2>1. session[r] # None /\ Goto(r, "closed")
    BY <1>5 DEF Commit, At, Answer
  <2> QED
    BY <1>5, <2>1, ValidatedKept, CommitRunnable
<1>6. ASSUME NEW r \in Requests, ReadBack(r) \/ Fail(r)
      PROVE  Validated' /\ Runnable'
  <2>1. session[r] # None /\ Goto(r, "closed") /\ UNCHANGED jobs
    BY <1>6 DEF ReadBack, Fail, At, Answer
  <2> QED
    BY <2>1, ValidatedKept DEF Runnable
<1> QED
  BY <1>1, <1>2, <1>3, <1>4, <1>5, <1>6 DEF Next, Step, Tick, createVars

\* Whatever passes validation gives a row that becomes due after it was asked
\* for, no earlier than asked, and has what its next run is computed from.
THEOREM WhatIsCommittedRuns == Spec => []RowsAreRunnable
<1>1. Init => Clock /\ Validated /\ Runnable
  BY CreationAssumption DEF Init, Clock, Validated, Runnable, At
<1>2. Inv => Typed
  BY DEF Inv
<1>3. Typed /\ Clock /\ Validated /\ Runnable /\ [Next]_createVars
        => Validated' /\ Runnable'
  BY RunnableNext
<1>4. Runnable => RowsAreRunnable
  BY DEF Runnable, RowRunnable, RowsAreRunnable
<1> QED
  BY <1>1, <1>2, <1>3, <1>4, ClockKept, InvHolds, PTL DEF Spec

\* What Typed leaves out of TypeOK: the rows and the replies.
RowsAndReplies ==
  /\ \A r \in DOMAIN jobs :
       jobs[r] \in [body : Bodies, created_at : Nat, next_run_at : Nat]
  /\ reply \in [Requests -> Reply \cup {None}]

\* The first run of a valid body is a time.
LEMMA FirstRunType ==
  ASSUME NEW b \in Bodies, NEW t \in Nat, Valid(b, t)
  PROVE  FirstRun(b, t) \in Nat
<1>1. /\ b.schedule_type \in {"one_time", "interval", "cron"}
      /\ b.run_at \in Nat \cup {None}
      /\ b.interval_seconds \in (Nat \ {0}) \cup {None}
  BY CreationAssumption DEF Body
<1>2. CASE b.schedule_type = "one_time"
  BY <1>1, <1>2 DEF Valid, FirstRun
<1>3. CASE b.schedule_type = "interval"
  BY <1>1, <1>3 DEF Valid, FirstRun
<1>4. CASE b.schedule_type = "cron"
  <2>1. FirstRun(b, t) = NextSlot(IF b.run_at # None THEN b.run_at ELSE t)
    BY <1>4 DEF FirstRun
  <2>2. (IF b.run_at # None THEN b.run_at ELSE t) \in Nat
    BY <1>1
  <2> QED
    BY <2>1, <2>2, SlotIsLater
<1> QED
  BY <1>1, <1>2, <1>3, <1>4

LEMMA RowsAndRepliesNext ==
  ASSUME Typed, Validated, RowsAndReplies, [Next]_createVars
  PROVE  RowsAndReplies'
<1>1. CASE UNCHANGED <<jobs, reply>>
  BY <1>1 DEF RowsAndReplies
<1>2. ASSUME NEW r \in Requests,
             NEW status \in {201, 200, 409, 422, 500},
             NEW job \in Requests \cup {None}, Answer(r, status, job)
      PROVE  reply' \in [Requests -> Reply \cup {None}]
  BY <1>2 DEF Answer, RowsAndReplies, Reply
<1>3. ASSUME NEW r \in Requests, Lookup(r) \/ ReadBack(r) \/ Fail(r)
      PROVE  RowsAndReplies'
  <2>1. UNCHANGED jobs
    BY <1>3 DEF Lookup, ReadBack, Fail
  <2>2. \/ UNCHANGED reply
        \/ \E job \in Existing(session[r].body) : Answer(r, 200, job)
        \/ Answer(r, 409, None) \/ Answer(r, 422, None) \/ Answer(r, 500, None)
    BY <1>3 DEF Lookup, ReadBack, Fail
  <2>3. Existing(session[r].body) \subseteq Requests
    BY DEF Existing, Typed
  <2>4. reply' \in [Requests -> Reply \cup {None}]
    BY <1>2, <2>2, <2>3 DEF RowsAndReplies
  <2> QED
    BY <2>1, <2>4 DEF RowsAndReplies
<1>4. ASSUME NEW r \in Requests, Commit(r) PROVE RowsAndReplies'
  <2> DEFINE b == session[r].body
             t == session[r].now
             row == [body |-> b, created_at |-> t, next_run_at |-> FirstRun(b, t)]
  <2>1. Answer(r, 201, r) \/ Answer(r, 500, None)
    BY <1>4 DEF Commit
  <2>2. reply' \in [Requests -> Reply \cup {None}]
    BY <1>2, <2>1
  <2>3. session[r] \in Session /\ Valid(b, t)
    BY <1>4 DEF Commit, At, Typed, Validated
  <2>4. b \in Bodies /\ t \in Nat
    BY <2>3, CreationAssumption DEF Session
  <2>5. /\ DOMAIN jobs' = DOMAIN jobs \cup {r} /\ jobs'[r] = row
        /\ \A s \in DOMAIN jobs \ {r} : jobs'[s] = jobs[s]
    BY <1>4 DEF Commit
  <2> HIDE DEF b, t
  <2>6. row \in [body : Bodies, created_at : Nat, next_run_at : Nat]
    BY <2>3, <2>4, FirstRunType
  <2> HIDE DEF row
  <2> QED
    BY <2>2, <2>5, <2>6 DEF RowsAndReplies
<1> QED
  BY <1>1, <1>3, <1>4 DEF Next, Step, Insert, Send, Tick, createVars

\* The type invariant.
THEOREM CreationTypeCorrect == Spec => []TypeOK
<1>1. Init => Clock /\ Validated /\ Runnable /\ RowsAndReplies
  BY CreationAssumption
  DEF Init, Clock, Validated, Runnable, RowsAndReplies, At
<1>2. Inv => Typed
  BY DEF Inv
<1>3. Typed /\ Clock /\ Validated /\ Runnable /\ [Next]_createVars
        => Validated' /\ Runnable'
  BY RunnableNext
<1>4. Typed /\ Validated /\ RowsAndReplies /\ [Next]_createVars => RowsAndReplies'
  BY RowsAndRepliesNext
<1>5. Typed /\ Clock /\ RowsAndReplies => TypeOK
  BY DEF Typed, Clock, RowsAndReplies, TypeOK
<1> QED
  BY <1>1, <1>2, <1>3, <1>4, <1>5, ClockKept, InvHolds, PTL DEF Spec
=============================================================================
