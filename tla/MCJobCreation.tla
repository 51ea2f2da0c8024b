---------------------------- MODULE MCJobCreation ----------------------------
(* An instance of job creation for TLC.                                    *)
EXTENDS JobCreation

Ask(owner, key, type, run_at, interval, cron) ==
  [owner |-> owner, key |-> key, schedule_type |-> type, run_at |-> run_at,
   interval_seconds |-> interval, cron_expression |-> cron]

\* Two owners that share a key, one key on two different bodies, no key, an
\* empty key, each kind of schedule with and without a start time, and what
\* is rejected: a start time that has passed or is missing, a missing interval, a
\* cron expression that is not one or does not belong.
MCBodies ==
  {Ask("o1", "k", "one_time", 1, None, Empty),
   Ask("o1", "k", "interval", 2, 1, None),
   Ask("o2", "k", "interval", None, 2, None),
   Ask("o1", Empty, "cron", 1, None, "valid"),
   Ask("o2", "k", "cron", None, None, "invalid"),
   Ask("o2", None, "cron", None, None, "valid"),
   Ask("o2", None, "one_time", None, None, None),
   Ask("o2", None, "interval", None, None, "valid")}
=============================================================================
