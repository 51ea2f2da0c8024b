----------------------------- MODULE JobCreation -----------------------------
(***************************************************************************)
(* POST /jobs (JobService.create): concurrent requests, each in a database *)
(* session of its own, that look a job up by its idempotency key, validate *)
(* the body, insert a row and commit.  A reply may be lost on its way, so  *)
(* that the client cannot know, and a request may fail half-way.           *)
(*                                                                         *)
(* A retry is another request with the same body, sent later.              *)
(***************************************************************************)
EXTENDS Naturals

CONSTANTS
  Requests,    \* the requests that are ever sent
  Bodies,      \* what they may ask for
  None,        \* null
  CronPeriod,  \* distance of the slots of a valid cron expression
  MaxTime      \* bound of the clock

\* The empty string, which Python takes for false, as it does null.
Empty == ""

\* JobCreate, after the schema has checked each field by itself.  A key has
\* no minimal length.
Body ==
  [owner : STRING, key : STRING \cup {None},
   schedule_type    : {"one_time", "interval", "cron"},
   run_at           : Nat \cup {None},
   interval_seconds : (Nat \ {0}) \cup {None},
   cron_expression  : {Empty, "valid", "invalid", None}]

ASSUME CreationAssumption ==
  /\ Bodies \subseteq Body
  /\ CronPeriod \in Nat \ {0}
  /\ MaxTime \in Nat

VARIABLES
  now,      \* the clock
  jobs,     \* the committed rows, by the request that inserted them
  session,  \* each request: where it is, its body, and the now it has read
  open,     \* the requests whose row is inserted and not yet committed
  reply     \* the answer to each request: status and job

createVars == <<now, jobs, session, open, reply>>

\* What POST answers: 201 and 200 with a job, 409, 422, or 500.
Reply == [status : {201, 200, 409, 422, 500}, job : Requests \cup {None}]

\* The session of a request, from its arrival on.
Session ==
  [pc : {"lookup", "insert", "commit", "duplicate", "closed"},
   body : Bodies, now : 0 .. MaxTime, repeats : Requests \cup {None}]

ASSUME NoneIsNoSession == None \notin Session

TypeOK ==
  /\ now \in 0 .. MaxTime
  /\ DOMAIN jobs \subseteq Requests
  /\ \A r \in DOMAIN jobs :
       jobs[r] \in [body : Bodies, created_at : Nat, next_run_at : Nat]
  /\ \A r \in Requests : session[r] = None \/ session[r] \in Session
  /\ open \subseteq Requests
  /\ reply \in [Requests -> Reply \cup {None}]

-----------------------------------------------------------------------------
\* A one-time job may come without run_at.
FaultyValid(b, t) ==
  /\ b.run_at # None => b.run_at > t
  /\ b.schedule_type = "interval" <=> b.interval_seconds # None
  /\ b.schedule_type = "cron" <=> b.cron_expression = "valid"

\* _validate
Valid(b, t) ==
  /\ b.run_at # None => b.run_at > t
  /\ CASE b.schedule_type = "one_time" ->
            /\ b.run_at # None
            /\ b.interval_seconds = None
            /\ b.cron_expression \in {None, Empty}
       [] b.schedule_type = "interval" ->
            /\ b.interval_seconds # None
            /\ b.cron_expression \in {None, Empty}
       [] b.schedule_type = "cron" ->
            /\ b.cron_expression = "valid"
            /\ b.interval_seconds = None

\* croniter's get_next: the first slot after t.
NextSlot(t) == CronPeriod * (t \div CronPeriod + 1)

\* A start time is looked at for one-time jobs only.
FaultyFirstRun(b, t) ==
  CASE b.schedule_type = "one_time" -> b.run_at
    [] b.schedule_type = "interval" -> t + b.interval_seconds
    [] b.schedule_type = "cron"     -> NextSlot(t)

\* first_run_at
FirstRun(b, t) ==
  CASE b.schedule_type = "one_time" -> b.run_at
    [] b.schedule_type = "interval" ->
         IF b.run_at # None THEN b.run_at ELSE t + b.interval_seconds
    [] b.schedule_type = "cron"     ->
         NextSlot(IF b.run_at # None THEN b.run_at ELSE t)

\* The key is looked up among the jobs of all owners.
FaultyExisting(b) ==
  {r \in DOMAIN jobs : b.key \notin {None, Empty} /\ jobs[r].body.key = b.key}

\* get_by_idempotency_key, which is called for keys that are true.
Existing(b) ==
  {r \in DOMAIN jobs :
     /\ b.key \notin {None, Empty}
     /\ jobs[r].body.key = b.key /\ jobs[r].body.owner = b.owner}

\* The unique constraint uq_jobs_owner_idempotency: two bodies collide.  A
\* null key collides with nothing, an empty one does.
Collides(b, c) == b.owner = c.owner /\ b.key = c.key /\ b.key # None

-----------------------------------------------------------------------------
Init ==
  /\ now = 0
  /\ jobs = [r \in {} |-> None]
  /\ session = [r \in Requests |-> None]
  /\ open = {}
  /\ reply = [r \in Requests |-> None]

\* The job that is there already for the owner and the key, if any.
Repeats(b) ==
  IF b.key = Empty \/ \A r \in DOMAIN jobs : ~Collides(b, jobs[r].body)
    THEN None ELSE CHOOSE r \in DOMAIN jobs : Collides(b, jobs[r].body)

\* A request arrives and reads the clock.
Send(r, b) ==
  /\ session[r] = None
  /\ session' = [session EXCEPT ![r] =
                   [pc |-> "lookup", body |-> b, now |-> now,
                    repeats |-> Repeats(b)]]
  /\ UNCHANGED <<now, jobs, open, reply>>

At(r, pc) == session[r] # None /\ session[r].pc = pc

Goto(r, pc) == session' = [session EXCEPT ![r].pc = pc]

\* The reply is sent and the session closed.
Answer(r, status, job) ==
  /\ reply' = [reply EXCEPT ![r] = [status |-> status, job |-> job]]
  /\ Goto(r, "closed")

\* Validation comes first.
FaultyLookup(r) ==
  /\ At(r, "lookup")
  /\ LET b == session[r].body IN
       \/ ~Valid(b, session[r].now) /\ Answer(r, 422, None)
       \/ /\ Valid(b, session[r].now)
          /\ \/ \E j \in Existing(b) : Answer(r, 200, j)
             \/ Existing(b) = {} /\ Goto(r, "insert") /\ UNCHANGED reply
  /\ UNCHANGED <<now, jobs, open>>

\* The lookup, and the validation when it finds nothing.
Lookup(r) ==
  /\ At(r, "lookup")
  /\ LET b == session[r].body IN
       \/ \E j \in Existing(b) : Answer(r, 200, j)
       \/ /\ Existing(b) = {}
          /\ \/ ~Valid(b, session[r].now) /\ Answer(r, 422, None)
             \/ /\ Valid(b, session[r].now)
                /\ Goto(r, "insert") /\ UNCHANGED reply
  /\ UNCHANGED <<now, jobs, open>>

\* There is no unique constraint: the lookup has to do.
FaultyInsert(r) ==
  /\ At(r, "insert")
  /\ Goto(r, "commit") /\ open' = open \cup {r}
  /\ UNCHANGED <<now, jobs, reply>>

\* The INSERT.  It waits for a transaction with the same key, and fails if
\* that, or another one, has committed.
Insert(r) ==
  /\ At(r, "insert")
  /\ \A s \in open : ~Collides(session[r].body, session[s].body)
  /\ IF \E s \in DOMAIN jobs : Collides(session[r].body, jobs[s].body)
       THEN Goto(r, "duplicate") /\ UNCHANGED open
       ELSE Goto(r, "commit") /\ open' = open \cup {r}
  /\ UNCHANGED <<now, jobs, reply>>

Commit(r) ==
  /\ At(r, "commit")
  /\ jobs' = [s \in DOMAIN jobs \cup {r} |->
                IF s = r THEN [body |-> session[r].body,
                               created_at |-> session[r].now,
                               next_run_at |-> FirstRun(session[r].body,
                                                        session[r].now)]
                ELSE jobs[s]]
  /\ open' = open \ {r}
  /\ \/ Answer(r, 201, r)
     \/ Answer(r, 500, None)     \* the connection breaks after the commit
  /\ UNCHANGED now

\* The loser of the race is told so.
FaultyReadBack(r) ==
  /\ At(r, "duplicate")
  /\ Answer(r, 409, None)
  /\ UNCHANGED <<now, jobs, open>>

\* The handler of the IntegrityError, after the rollback.
ReadBack(r) ==
  /\ At(r, "duplicate")
  /\ LET b == session[r].body IN
       \/ \E j \in Existing(b) : Answer(r, 200, j)
       \/ Existing(b) = {} /\ Answer(r, 409, None)
  /\ UNCHANGED <<now, jobs, open>>

\* The session is left open.
FaultyFail(r) ==
  /\ session[r] # None /\ session[r].pc # "closed"
  /\ Answer(r, 500, None)
  /\ UNCHANGED <<now, jobs, open>>

\* A statement raises, or the process dies.  Closing the session rolls it
\* back.
Fail(r) ==
  /\ session[r] # None /\ session[r].pc # "closed"
  /\ Answer(r, 500, None)
  /\ open' = open \ {r}
  /\ UNCHANGED <<now, jobs>>

Tick ==
  /\ now < MaxTime
  /\ now' = now + 1
  /\ UNCHANGED <<jobs, session, open, reply>>

Step(r) == Lookup(r) \/ Insert(r) \/ Commit(r) \/ ReadBack(r)

Next ==
  \/ \E r \in Requests : Step(r) \/ Fail(r) \/ \E b \in Bodies : Send(r, b)
  \/ Tick

\* Every request is served.
Spec == Init /\ [][Next]_createVars /\ \A r \in Requests : WF_createVars(Step(r))

-----------------------------------------------------------------------------
Answered(r) == reply[r] # None

\* Whoever posts one key posts one job: all successful replies to an owner's
\* requests with a (non-empty) key name the same job, and one at most is 201.
RepeatsAgree ==
  \A r, s \in Requests :
    /\ Answered(r) /\ Answered(s) /\ r # s
    /\ reply[r].job # None /\ reply[s].job # None
    /\ Collides(session[r].body, session[s].body) /\ session[r].body.key # Empty
    => /\ reply[r].job = reply[s].job
       /\ reply[r].status = 200 \/ reply[s].status = 200

\* The loser of a race reads back the row of the winner: a request with a
\* non-empty key is never told that its job is a duplicate.
LoserReadsBack ==
  \A r \in Requests :
    Answered(r) /\ reply[r].status = 409 => session[r].body.key = Empty

\* A request that repeats one whose job is there already, whether or not the
\* client has heard of it, is answered with that job, even if what it asks
\* for would be rejected by now.
RetryIsSafe ==
  \A r \in Requests :
    /\ Answered(r) /\ reply[r].status # 500
    /\ session[r].repeats # None
    => reply[r] = [status |-> 200, job |-> session[r].repeats]

\* Nobody is shown the job of another owner, whatever keys they choose.
ReplyIsOwn ==
  \A r \in Requests :
    Answered(r) /\ reply[r].job # None =>
      jobs[reply[r].job].body.owner = session[r].body.owner

\* The engine can work with every row that is committed: it becomes due
\* after it was asked for and no earlier than it was asked to, and has what
\* its next run is computed from.
RowsAreRunnable ==
  \A r \in DOMAIN jobs :
    LET b == jobs[r].body IN
      /\ jobs[r].next_run_at > jobs[r].created_at
      /\ b.run_at # None => jobs[r].next_run_at >= b.run_at
      /\ b.schedule_type = "interval" => b.interval_seconds # None
      /\ b.schedule_type = "cron" => b.cron_expression = "valid"

\* Each request is answered: none waits for ever for a transaction of another.
EveryRequestIsAnswered ==
  \A r \in Requests : session[r] # None ~> Answered(r)

\* "Send the same key to make retries of this POST safe", for every key the
\* schema accepts.
SameKeyIsSafe ==
  \A r \in Requests :
    Answered(r) /\ session[r].body.key # None => reply[r].status # 409
=============================================================================
