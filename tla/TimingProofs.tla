---------------------------- MODULE TimingProofs ----------------------------
(***************************************************************************)
(* For any lease, renewal interval, delay, number of failed renewals and   *)
(* difference of clocks that fit the lease, a live worker keeps its job.   *)
(* For any polling loop and number of reaps that do nothing, a dead        *)
(* worker's job is taken back in time.  Slots do not drift, missed slots   *)
(* are skipped, and retries are backed off.                                *)
(***************************************************************************)
EXTENDS Timing, WellFoundedInduction, TLAPS

\* What the renewals that may still fail can cost after m have failed.
Slack(m) == (Misses - m) * (Interval + Delay)

\* How long the lease outlasts the next thing the thread has to do.
Margin ==
  CASE thread.pc = "claimed" -> Lease
    [] thread.pc = "running" -> Delay + Slack(thread.missed) + Delay + Skew
    [] thread.pc = "ended"   -> Delay + Skew

\* The types the argument needs.
TimesOK ==
  /\ now \in Nat
  /\ poll \in Loop
  /\ {"status", "lease_expires_at", "attempt_count"} \subseteq DOMAIN job
  /\ job.status \in {"SCHEDULED", "RUNNING", "DONE"}
  /\ job.status = "RUNNING" => job.lease_expires_at \in Nat
  /\ thread # None => thread \in Thread

\* What m reaps can cost.
Late(m) == m * Round

\* A cycle is over in time, and the loop reaps when its interval is.  Until a
\* reap finds a lease in force, each of them is late by a round at most.
ReaperOnTime ==
  /\ poll.at <= now /\ now <= poll.at + Cycle
  /\ poll.last <= poll.at + Skew
  /\ poll.at < poll.last + ReapEvery + Skew
  /\ job.status = "RUNNING" =>
       /\ poll.at < job.lease_expires_at + Skew + Late(poll.failed + 1)
       /\ poll.pc = "waiting" =>
            poll.last <= job.lease_expires_at + 2 * Skew + Late(poll.failed)

\* A live thread is on time, and its lease covers what is ahead of it.
LeaseCovers ==
  thread # None =>
    /\ job.status = "RUNNING"
    /\ thread.pc = "claimed" => thread.missed = 0
    /\ now <= thread.due + Delay
    /\ thread.due + Margin <= job.lease_expires_at

Inv == TimesOK /\ LeaseCovers

-----------------------------------------------------------------------------
\* The interval is a positive number.
LEMMA IntervalType == Interval \in Nat
<1>1. Lease \div 3 \in Nat /\ Second \in Nat
  BY TimingAssumption
<1> DEFINE S == {Lease \div 3, Second}
<1>2. \E x \in S : \A y \in S : x >= y
  BY <1>1
<1>3. Max(S) \in S
  BY <1>2 DEF Max
<1> QED  BY <1>1, <1>3 DEF Interval

\* The constants are natural numbers.
LEMMA ConstantTypes ==
  /\ Lease \in Nat \ {0} /\ ReapEvery \in Nat \ {0} /\ Cycle \in Nat
  /\ Interval \in Nat /\ Delay \in Nat /\ Misses \in Nat
  /\ ReapMisses \in Nat /\ Skew \in Nat
BY TimingAssumption, IntervalType

\* A failed renewal costs an interval and a delay of the slack.
LEMMA SlackStep ==
  ASSUME NEW m \in 0 .. Misses
  PROVE  /\ Slack(m) \in Nat
         /\ m < Misses => Slack(m) = Slack(m + 1) + Interval + Delay
<1> DEFINE step == Interval + Delay
<1>1. step \in Nat /\ Misses - m \in Nat
  BY ConstantTypes
<1> HIDE DEF step
<1>2. \A k \in Nat : k * step \in Nat
  BY <1>1
<1>3. Slack(m) = (Misses - m) * step /\ Slack(m + 1) = (Misses - (m + 1)) * step
  BY DEF Slack, step
<1>4. Slack(m) \in Nat
  BY <1>1, <1>2, <1>3
<1>5. ASSUME m < Misses PROVE (Misses - m) * step = (Misses - (m + 1)) * step + step
  <2>1. \A k \in Nat : (k + 1) * step = k * step + step
    BY <1>1
  <2>2. Misses - (m + 1) \in Nat /\ Misses - m = (Misses - (m + 1)) + 1
    BY <1>5, ConstantTypes
  <2> QED  BY <2>1, <2>2
<1> QED  BY <1>3, <1>4, <1>5, ConstantTypes DEF step

\* The lease pays for the start and for a first renewal after any number of
\* failures.
LEMMA LeaseSuffices ==
  Delay + Interval + Delay + Slack(0) + Delay + Skew <= Lease
<1>1. (Misses + 1) * (Interval + Delay) = Slack(0) + Interval + Delay
  <2>1. \A k, s \in Nat : (k + 1) * s = k * s + s
    OBVIOUS
  <2>2. Misses - 0 = Misses
    BY ConstantTypes
  <2> QED  BY <2>1, <2>2, ConstantTypes DEF Slack
<1>2. Slack(0) \in Nat
  BY SlackStep, ConstantTypes
<1> QED  BY <1>1, <1>2, LeaseIsLongEnough, ConstantTypes

-----------------------------------------------------------------------------
\* Nothing runs at first.
LEMMA InitInv == Init => Inv
BY ConstantTypes DEF Init, Inv, TimesOK, LeaseCovers, Shown, Loop

\* Whoever reaps while a live thread runs the job finds its lease in force.
LEMMA LiveIsNotExpired ==
  ASSUME Inv, thread # None, NEW t \in Shown
  PROVE  ~Expired(t)
<1> USE ConstantTypes
<1>1. /\ thread \in Thread /\ now \in Nat /\ job.lease_expires_at \in Nat
      /\ now <= thread.due + Delay /\ thread.due + Margin <= job.lease_expires_at
  BY DEF Inv, TimesOK, LeaseCovers
<1>2. thread.due \in Nat /\ thread.missed \in 0 .. Misses
      /\ thread.pc \in {"claimed", "running", "ended"}
  BY <1>1 DEF Thread
<1>3. Slack(thread.missed) \in Nat /\ Slack(0) \in Nat
  BY <1>2, SlackStep
<1>4. Margin \in Nat /\ Margin >= Delay + Skew
  <2>1. CASE thread.pc = "claimed"
    BY <2>1, <1>3, LeaseSuffices DEF Margin
  <2>2. CASE thread.pc = "running"
    BY <2>2, <1>3 DEF Margin
  <2>3. CASE thread.pc = "ended"
    BY <2>3 DEF Margin
  <2> QED  BY <1>2, <2>1, <2>2, <2>3
<1>5. t \in Int /\ t <= job.lease_expires_at
  BY <1>1, <1>2, <1>4 DEF Shown
<1> QED  BY <1>1, <1>5 DEF Expired

\* Every step keeps the lease ahead of what it has to cover.
LEMMA NextInv == Inv /\ [Next]_timingVars => Inv'
<1> SUFFICES ASSUME Inv, [Next]_timingVars PROVE Inv'
  OBVIOUS
<1> USE ConstantTypes
<1> USE DEF At
<1>a. /\ now \in Nat /\ poll \in Loop
      /\ {"status", "lease_expires_at", "attempt_count"} \subseteq DOMAIN job
      /\ job.status \in {"SCHEDULED", "RUNNING", "DONE"}
      /\ job.status = "RUNNING" => job.lease_expires_at \in Nat
      /\ thread # None => thread \in Thread
  BY DEF Inv, TimesOK
<1>b. thread # None =>
        /\ thread = [pc |-> thread.pc, due |-> thread.due,
                     missed |-> thread.missed, finished |-> thread.finished]
        /\ thread.due \in Nat /\ thread.missed \in 0 .. Misses
        /\ Slack(thread.missed) \in Nat
  BY <1>a, SlackStep DEF Thread
<1>c. Slack(0) \in Nat
  BY SlackStep
<1>1. CASE Claim
  BY <1>1, <1>a DEF Claim, Inv, TimesOK, LeaseCovers, Margin, Thread
<1>d. thread # None =>
        /\ job.status = "RUNNING" /\ job.lease_expires_at \in Nat
        /\ thread.pc = "claimed" => thread.missed = 0
        /\ now <= thread.due + Delay
        /\ thread.due + Margin <= job.lease_expires_at
  BY DEF Inv, TimesOK, LeaseCovers
<1>2. CASE Start
  <2>0. thread # None /\ thread.finished \in Nat \cup {None}
    BY <1>2, <1>a DEF Start, Thread
  <2>a. thread' = [pc |-> "running", due |-> now + Interval,
                   missed |-> 0, finished |-> thread.finished]
    BY <1>2, <1>b, <1>d DEF Start
  <2>b. now + Interval \in Nat /\ 0 \in 0 .. Misses
    BY <1>2, <1>a, <1>b, <2>0 DEF Start
  <2>1. /\ thread' \in Thread /\ thread'.pc = "running"
        /\ thread'.due = now + Interval /\ thread'.missed = 0
    BY <2>0, <2>a, <2>b DEF Thread
  <2>2. /\ job'.status = "RUNNING" /\ job'.lease_expires_at = job.lease_expires_at
        /\ DOMAIN job' = DOMAIN job /\ now' = now /\ poll' = poll
    BY <1>2, <1>a, <1>d DEF Start
  <2>3. Margin = Lease /\ Margin' = Delay + Slack(0) + Delay + Skew
    BY <1>2, <2>1 DEF Start, Margin, Slack
  <2>4. now + Interval + (Delay + Slack(0) + Delay + Skew) <= job.lease_expires_at
    BY <1>2, <1>a, <1>b, <1>c, <1>d, <2>3, LeaseSuffices DEF Start
  <2> QED
    BY <1>a, <2>0, <2>1, <2>2, <2>3, <2>4, <1>d DEF Inv, TimesOK, LeaseCovers
<1>3. CASE Renew
  <2>0. thread # None /\ thread.finished \in Nat \cup {None}
    BY <1>3, <1>a DEF Renew, Thread
  <2>a. thread' = [pc |-> "running", due |-> now + Interval,
                   missed |-> 0, finished |-> thread.finished]
    BY <1>3, <1>b, <1>d DEF Renew
  <2>b. now + Interval \in Nat /\ 0 \in 0 .. Misses
    BY <1>3, <1>a, <1>b, <2>0 DEF Renew
  <2>1. /\ thread' \in Thread /\ thread'.pc = "running"
        /\ thread'.due = now + Interval /\ thread'.missed = 0
    BY <2>0, <2>a, <2>b DEF Thread
  <2>2. /\ job'.status = "RUNNING" /\ job'.lease_expires_at = now + Lease
        /\ DOMAIN job' = DOMAIN job /\ now' = now /\ poll' = poll
    BY <1>3, <1>a, <1>d DEF Renew
  <2>3. Margin' = Delay + Slack(0) + Delay + Skew
    BY <2>1 DEF Margin, Slack
  <2>4. now + Interval + (Delay + Slack(0) + Delay + Skew) <= now + Lease
    BY <1>a, <1>c, LeaseSuffices
  <2> QED
    BY <1>a, <2>0, <2>1, <2>2, <2>3, <2>4, <1>d DEF Inv, TimesOK, LeaseCovers
<1>4. CASE RenewFails
  <2>0. thread # None /\ thread.finished \in Nat \cup {None}
    BY <1>4, <1>a DEF RenewFails, Thread
  <2>a. thread' = [pc |-> "running", due |-> now + Interval,
                   missed |-> thread.missed + 1, finished |-> thread.finished]
    BY <1>4, <1>b, <1>d DEF RenewFails
  <2>b. now + Interval \in Nat /\ thread.missed + 1 \in 0 .. Misses
    BY <1>4, <1>a, <1>b, <2>0 DEF RenewFails
  <2>1. /\ thread' \in Thread /\ thread'.pc = "running"
        /\ thread'.due = now + Interval /\ thread'.missed = thread.missed + 1
    BY <2>0, <2>a, <2>b DEF Thread
  <2>2. job' = job /\ now' = now /\ poll' = poll
    BY <1>4 DEF RenewFails
  <2>3. /\ Margin = Delay + Slack(thread.missed) + Delay + Skew
        /\ Margin' = Delay + Slack(thread.missed + 1) + Delay + Skew
    BY <1>4, <2>1 DEF RenewFails, Margin, Slack
  <2>4. thread.missed + 1 \in 0 .. Misses
    BY <1>4, <1>b DEF RenewFails
  <2>5. /\ Slack(thread.missed + 1) \in Nat
        /\ Slack(thread.missed) = Slack(thread.missed + 1) + Interval + Delay
    BY <1>4, <1>b, <2>4, SlackStep DEF RenewFails
  <2>6. thread'.due + Margin' <= job.lease_expires_at
    BY <1>4, <1>a, <1>b, <1>d, <2>1, <2>3, <2>5 DEF RenewFails
  <2> QED
    BY <1>4, <1>a, <1>d, <2>1, <2>2, <2>6
    DEF RenewFails, Inv, TimesOK, LeaseCovers
<1>5. CASE TaskEnds
  <2>1. /\ thread' \in Thread /\ thread'.pc = "ended"
        /\ thread'.due = now
    BY <1>5, <1>a, <1>b, <1>d DEF TaskEnds, Thread
  <2>2. job' = job /\ now' = now /\ poll' = poll
    BY <1>5 DEF TaskEnds
  <2>3. /\ Margin = Delay + Slack(thread.missed) + Delay + Skew
        /\ Margin' = Delay + Skew
    BY <1>5, <2>1 DEF TaskEnds, Margin
  <2>4. thread'.due + Margin' <= job.lease_expires_at
    BY <1>5, <1>a, <1>b, <1>d, <2>1, <2>3 DEF TaskEnds
  <2> QED
    BY <1>5, <1>a, <1>d, <2>1, <2>2, <2>4
    DEF TaskEnds, Inv, TimesOK, LeaseCovers
<1>6. CASE Succeeds
  BY <1>6, <1>a
  DEF Succeeds, Released, Inv, TimesOK, LeaseCovers
<1>7. CASE Fails
  BY <1>7, <1>a
  DEF Fails, FailedAt, Released, Inv, TimesOK, LeaseCovers
<1>8. CASE Crash
  BY <1>8, <1>a DEF Crash, Inv, TimesOK, LeaseCovers
<1>9. CASE Poll \/ ReapFails
  <2>1. thread' = thread /\ job' = job /\ now' = now
    BY <1>9 DEF Poll, ReapFails
  <2>a. poll = [pc |-> poll.pc, at |-> poll.at, last |-> poll.last, failed |-> poll.failed]
        /\ poll.at \in Nat /\ poll.last \in Int /\ poll.failed \in 0 .. ReapMisses
    BY <1>a DEF Loop
  <2>b. \E pc \in {"waiting", "reaping"}, at \in Nat, last \in Int, failed \in 0 .. ReapMisses :
          poll' = [pc |-> pc, at |-> at, last |-> last, failed |-> failed]
    <3>1. CASE Poll
      <4>1. PICK t \in Shown : \/ poll' = [poll EXCEPT !.pc = "reaping", !.at = now, !.last = t]
                               \/ poll' = [poll EXCEPT !.at = now]
        BY <3>1 DEF Poll
      <4>2. t \in Int
        BY <1>a DEF Shown
      <4>3. \/ poll' = [pc |-> "reaping", at |-> now, last |-> t, failed |-> poll.failed]
            \/ poll' = [pc |-> "waiting", at |-> now, last |-> poll.last, failed |-> poll.failed]
        BY <3>1, <2>a, <4>1 DEF Poll
      <4> QED  BY <1>a, <2>a, <4>2, <4>3
    <3>2. CASE ReapFails
      <4>1. poll' = [pc |-> "waiting", at |-> poll.at, last |-> poll.last,
                     failed |-> poll.failed + 1]
        BY <3>2, <2>a DEF ReapFails
      <4>2. poll.failed + 1 \in 0 .. ReapMisses
        BY <3>2, <2>a DEF ReapFails
      <4> QED  BY <2>a, <4>1, <4>2
    <3> QED  BY <1>9, <3>1, <3>2
  <2>2. poll' \in Loop
    BY <2>b DEF Loop
  <2> QED
    BY <2>1, <2>2 DEF Inv, TimesOK, LeaseCovers, Margin
<1>10. CASE Reap \/ ReapElsewhere
  <2>1. now' = now /\ thread' = thread
    BY <1>10 DEF Reap, ReapElsewhere, FailedAt
  <2>2. poll' \in Loop
    <3>1. poll = [pc |-> poll.pc, at |-> poll.at, last |-> poll.last, failed |-> poll.failed]
          /\ poll.at \in Nat /\ poll.last \in Int
      BY <1>a DEF Loop
    <3>2. poll' = poll \/ poll' = [pc |-> "waiting", at |-> poll.at, last |-> poll.last,
                                   failed |-> 0]
      BY <1>10, <3>1 DEF Reap, ReapElsewhere
    <3> QED  BY <1>a, <3>1, <3>2 DEF Loop
  <2>3. CASE thread # None
    <3>1. job' = job
      BY <1>10, <2>3, LiveIsNotExpired DEF Reap, ReapElsewhere
    <3> QED
      BY <2>1, <2>2, <3>1 DEF Inv, TimesOK, LeaseCovers, Margin
  <2>4. CASE thread = None
    <3>1. (\E t \in Shown : FailedAt(t)) \/ job' = job
      BY <1>10 DEF Reap, ReapElsewhere
    <3> QED
      BY <2>1, <2>2, <2>4, <3>1, <1>a
      DEF FailedAt, Released, Inv, TimesOK, LeaseCovers
  <2> QED  BY <2>3, <2>4
<1>12. CASE Tick
  <2>1. Margin' = Margin
    BY <1>12 DEF Tick, Margin
  <2>2. thread # None => now' <= thread.due + Delay
    BY <1>12, <1>a, <1>b DEF Tick
  <2> QED
    BY <1>12, <1>a, <1>d, <2>1, <2>2
    DEF Tick, Inv, TimesOK, LeaseCovers
<1>11. CASE UNCHANGED timingVars
  BY <1>11 DEF timingVars, Inv, TimesOK, LeaseCovers, Margin
<1> QED
  BY <1>1, <1>2, <1>3, <1>4, <1>5, <1>6, <1>7, <1>8, <1>9, <1>10, <1>11, <1>12 DEF Next

\* Inv is an invariant of the specification.
LEMMA InvHolds == Spec => []Inv
<1>1. Inv /\ [Next]_timingVars => Inv'
  BY NextInv
<1> QED  BY InitInv, <1>1, PTL DEF Spec

\* Whatever the constants, as long as the lease pays for the delays: the job
\* of a live worker does not leave RUNNING but by the worker's own outcome.
THEOREM HealthyLeaseIsKept == Spec => HealthyKeepsLease
<1>1. ASSUME Inv, [Next]_timingVars
      PROVE  [thread # None /\ job.status = "RUNNING" /\ job'.status # "RUNNING"
                => thread' = None]_timingVars
  <2> SUFFICES ASSUME Next, thread # None, job.status = "RUNNING",
                      job'.status # "RUNNING"
               PROVE  thread' = None
    BY <1>1
  <2>1. CASE Reap \/ ReapElsewhere
    <3>1. job' = job
      BY <1>1, <2>1, LiveIsNotExpired DEF Reap, ReapElsewhere
    <3> QED  BY <3>1
  <2>2. CASE Claim
    BY <2>2 DEF Claim
  <2>3. CASE Start \/ Renew
    <3>1. job'.status = job.status
      BY <1>1, <2>3 DEF Start, Renew, Inv, TimesOK
    <3> QED  BY <3>1
  <2>4. CASE RenewFails \/ TaskEnds \/ Crash \/ Poll \/ ReapFails \/ Tick
    BY <2>4 DEF RenewFails, TaskEnds, Crash, Poll, ReapFails, Tick
  <2>5. CASE Succeeds \/ Fails
    BY <2>5 DEF Succeeds, Fails
  <2> QED  BY <2>1, <2>2, <2>3, <2>4, <2>5 DEF Next
<1> QED  BY InvHolds, <1>1, PTL DEF Spec, HealthyKeepsLease

-----------------------------------------------------------------------------
(* The loop that reaps.                                                    *)

\* A further reap costs a further round.
LEMMA LateStep ==
  ASSUME NEW m \in Nat
  PROVE  /\ Late(m) \in Nat
         /\ Late(m + 1) = Late(m) + ReapEvery + 2 * Skew + Cycle
<1>1. Round \in Nat /\ Round = ReapEvery + 2 * Skew + Cycle
  BY ConstantTypes DEF Round
<1>2. \A k, r \in Nat : k * r \in Nat /\ (k + 1) * r = k * r + r
  OBVIOUS
<1>3. Late(m) \in Nat /\ Late(m + 1) = Late(m) + Round
  BY <1>1, <1>2 DEF Late
<1> QED  BY <1>1, <1>3, ConstantTypes

\* More reaps cost more.
LEMMA LateGrows ==
  ASSUME NEW m \in Nat, NEW n \in Nat, m <= n
  PROVE  Late(m) <= Late(n)
<1>1. Round \in Nat
  BY ConstantTypes DEF Round
<1>2. \A k, d, r \in Nat : (k + d) * r = k * r + d * r /\ d * r \in Nat /\ k * r \in Nat
  OBVIOUS
<1>3. n - m \in Nat /\ n = m + (n - m)
  OBVIOUS
<1>4. Late(n) = Late(m) + (n - m) * Round /\ (n - m) * Round \in Nat /\ Late(m) \in Nat
  BY <1>1, <1>2, <1>3 DEF Late
<1> QED  BY <1>4

\* The loop is on time, whatever its clock shows.
LEMMA ReaperNext == Inv /\ ReaperOnTime /\ [Next]_timingVars => ReaperOnTime'
<1> SUFFICES ASSUME Inv, ReaperOnTime, [Next]_timingVars PROVE ReaperOnTime'
  OBVIOUS
<1> USE ConstantTypes
<1> DEFINE m == poll.failed
           L == job.lease_expires_at
<1>a. /\ now \in Nat /\ poll \in Loop
      /\ poll = [pc |-> poll.pc, at |-> poll.at, last |-> poll.last, failed |-> m]
      /\ poll.at \in Nat /\ poll.last \in Int /\ m \in 0 .. ReapMisses
      /\ job.status = "RUNNING" => L \in Nat
      /\ "status" \in DOMAIN job /\ "lease_expires_at" \in DOMAIN job
  BY DEF Inv, TimesOK, Loop
<1>b. /\ Late(m) \in Nat /\ Late(m + 1) \in Nat
      /\ Late(m + 1) = Late(m) + ReapEvery + 2 * Skew + Cycle
  BY <1>a, LateStep
<1>c. /\ poll.at <= now /\ now <= poll.at + Cycle
      /\ poll.last <= poll.at + Skew
      /\ poll.at < poll.last + ReapEvery + Skew
      /\ job.status = "RUNNING" =>
           /\ poll.at < L + Skew + Late(m + 1)
           /\ poll.pc = "waiting" => poll.last <= L + 2 * Skew + Late(m)
  BY DEF ReaperOnTime
<1>1. ASSUME UNCHANGED <<now, poll>>,
             \/ job'.status # "RUNNING"
             \/ job'.lease_expires_at = now + Lease
             \/ job'.status = job.status /\ job'.lease_expires_at = L
      PROVE  ReaperOnTime'
  BY <1>1, <1>a, <1>b, <1>c DEF ReaperOnTime
<1>2. CASE Claim
  BY <1>2, <1>1, <1>a DEF Claim
<1>3. CASE Start \/ Renew
  <2>1. \/ job'.lease_expires_at = now + Lease
        \/ job'.status = job.status /\ job'.lease_expires_at = L
    BY <1>3, <1>a DEF Start, Renew
  <2>2. UNCHANGED <<now, poll>>
    BY <1>3 DEF Start, Renew
  <2> HIDE DEF L
  <2> QED  BY <1>1, <2>1, <2>2
<1>4. CASE RenewFails \/ TaskEnds \/ Crash
  BY <1>4, <1>1 DEF RenewFails, TaskEnds, Crash
<1>5. CASE Succeeds \/ Fails \/ ReapElsewhere
  <2>1. Succeeds => UNCHANGED <<now, poll>> /\ job'.status # "RUNNING"
    BY DEF Succeeds, Released
  <2>2. ASSUME NEW t, FailedAt(t) PROVE now' = now /\ job'.status # "RUNNING"
    BY <2>2 DEF FailedAt, Released
  <2>3. Fails \/ ReapElsewhere => poll' = poll /\ \E t : FailedAt(t)
    BY DEF Fails, ReapElsewhere
  <2> QED  BY <1>5, <1>1, <2>1, <2>2, <2>3
<1>6. CASE Poll
  <2>1. PICK t \in Shown :
          \/ /\ t - poll.last >= ReapEvery
             /\ poll' = [poll EXCEPT !.pc = "reaping", !.at = now, !.last = t]
          \/ /\ t - poll.last < ReapEvery
             /\ poll' = [poll EXCEPT !.at = now]
    BY <1>6 DEF Poll
  <2>2. /\ poll.pc = "waiting" /\ now' = now /\ job' = job
        /\ t \in Int /\ now - Skew <= t /\ t <= now + Skew
    BY <1>6, <1>a DEF Poll, Shown
  <2>3. poll'.at = now /\ poll'.failed = m
    BY <2>1, <1>a
  <2>4. job.status = "RUNNING" => now < L + Skew + Late(m + 1)
    BY <2>2, <1>a, <1>b, <1>c
  <2>5. CASE t - poll.last >= ReapEvery /\ poll' = [poll EXCEPT !.pc = "reaping", !.at = now, !.last = t]
    <3>1. poll'.pc = "reaping" /\ poll'.last = t
      BY <2>5, <1>a
    <3> HIDE DEF L, m
    <3> QED
      BY <2>2, <2>3, <2>4, <3>1, <1>a, <1>b, <1>c DEF ReaperOnTime, L, m
  <2>6. CASE t - poll.last < ReapEvery /\ poll' = [poll EXCEPT !.at = now]
    <3>1. poll'.pc = "waiting" /\ poll'.last = poll.last
      BY <2>2, <2>6, <1>a
    <3> QED
      BY <2>2, <2>3, <2>4, <2>6, <3>1, <1>a, <1>b, <1>c DEF ReaperOnTime
  <2> QED  BY <2>1, <2>5, <2>6
<1>7. CASE Reap
  <2>1. PICK t \in Shown : \/ Expired(t) /\ FailedAt(t)
                           \/ ~Expired(t) /\ UNCHANGED <<now, job>>
    BY <1>7 DEF Reap
  <2>2. /\ now' = now /\ poll'.pc = "waiting" /\ poll'.failed = 0
        /\ poll'.at = poll.at /\ poll'.last = poll.last
    BY <1>7, <1>a DEF Reap, FailedAt
  <2>3. Late(0) \in Nat /\ Late(0 + 1) = Late(0) + ReapEvery + 2 * Skew + Cycle
    BY LateStep
  <2>4. CASE FailedAt(t)
    <3>1. job'.status # "RUNNING"
      BY <2>4 DEF FailedAt, Released
    <3> QED  BY <2>2, <3>1, <1>c DEF ReaperOnTime
  <2>5. CASE ~Expired(t) /\ job' = job
    <3>1. job.status = "RUNNING" => now <= L + Skew
      BY <2>5, <1>a DEF Expired, Shown
    <3> QED
      BY <2>2, <2>3, <2>5, <3>1, <1>a, <1>c DEF ReaperOnTime
  <2> QED  BY <2>1, <2>4, <2>5
<1>8. CASE ReapFails
  <2>1. /\ now' = now /\ job' = job /\ poll'.failed = m + 1
        /\ poll'.at = poll.at /\ poll'.last = poll.last
    BY <1>8, <1>a DEF ReapFails
  <2>2. Late(m + 1 + 1) = Late(m + 1) + ReapEvery + 2 * Skew + Cycle
    BY <1>a, LateStep
  <2> QED
    BY <2>1, <2>2, <1>a, <1>b, <1>c DEF ReaperOnTime
<1>9. CASE Tick
  BY <1>9, <1>a, <1>c DEF Tick, ReaperOnTime
<1>10. CASE UNCHANGED timingVars
  BY <1>10, <1>1 DEF timingVars
<1> QED
  BY <1>2, <1>3, <1>4, <1>5, <1>6, <1>7, <1>8, <1>9, <1>10 DEF Next

\* Whatever the constants, and whatever the clocks show: when a worker dies,
\* its job is RUNNING no longer than its lease, the difference of the clocks,
\* a round of the polling loop for each reap that does nothing and for the one
\* that does, and the cycle of that reap.
THEOREM DeadWorkerIsReaped == Spec => []DeadIsReaped
<1>1. Init => ReaperOnTime
  BY ConstantTypes DEF Init, ReaperOnTime, Shown
<1>2. Inv /\ ReaperOnTime => DeadIsReaped
  <2> SUFFICES ASSUME Inv, ReaperOnTime, job.status = "RUNNING"
               PROVE  now < job.lease_expires_at + Skew + Late(ReapMisses + 1) + Cycle
    BY DEF DeadIsReaped, Late
  <2>1. /\ now \in Nat /\ poll.at \in Nat /\ poll.failed \in 0 .. ReapMisses
        /\ job.lease_expires_at \in Nat
    BY DEF Inv, TimesOK, Loop
  <2>2. /\ Late(poll.failed + 1) \in Nat /\ Late(ReapMisses + 1) \in Nat
        /\ Late(poll.failed + 1) <= Late(ReapMisses + 1)
    <3>1. poll.failed + 1 \in Nat /\ ReapMisses + 1 \in Nat
          /\ poll.failed + 1 <= ReapMisses + 1
      BY <2>1, ConstantTypes
    <3> QED  BY <3>1, LateStep, LateGrows
  <2>3. now <= poll.at + Cycle
        /\ poll.at < job.lease_expires_at + Skew + Late(poll.failed + 1)
    BY DEF ReaperOnTime
  <2> QED  BY <2>1, <2>2, <2>3, ConstantTypes
<1> QED  BY InvHolds, ReaperNext, <1>1, <1>2, PTL DEF Spec

-----------------------------------------------------------------------------
(* The slots.                                                              *)

\* The distance of the slots.
Cadence == IF schedule = "interval" THEN JobInterval ELSE CronPeriod

\* An undrifted job is due at a slot.
OnSlots ==
  /\ schedule \in {"interval", "cron"} /\ drifted \in BOOLEAN
  /\ "next_run_at" \in DOMAIN job
  /\ thread # None /\ thread.pc = "ended" => thread.finished \in Nat
  /\ job.status # "DONE" /\ ~drifted =>
       job.next_run_at \in Nat /\ job.next_run_at % Cadence = 0

\* Multiples have no remainder.
LEMMA Multiple ==
  ASSUME NEW p \in Nat \ {0}, NEW k \in Nat PROVE (p * k) % p = 0
OBVIOUS

\* The next multiple is one divisor further.
LEMMA NextMultiple ==
  ASSUME NEW p \in Nat \ {0}, NEW n \in Nat, n % p = 0
  PROVE  n + p \in Nat /\ (n + p) % p = 0
<1>1. PICK q \in Nat : n = p * q
  OBVIOUS
<1>2. n + p = p * (q + 1) /\ q + 1 \in Nat
  BY <1>1
<1> QED
  BY <1>2, Multiple

\* The next slot of a cron job is a multiple of its period.
LEMMA SlotIsMultiple ==
  ASSUME NEW t \in Nat
  PROVE  NextSlot(t) \in Nat /\ NextSlot(t) % CronPeriod = 0
<1>1. CronPeriod \in Nat \ {0}
  BY TimingAssumption
<1>2. t \div CronPeriod + 1 \in Nat
  BY <1>1
<1>3. NextSlot(t) = CronPeriod * (t \div CronPeriod + 1)
  BY DEF NextSlot
<1> QED
  BY <1>1, <1>2, <1>3, Multiple

\* A failure is a drift, and has no slot to be on.
LEMMA FailureDrifts ==
  ASSUME OnSlots, NEW t, FailedAt(t), thread' = None \/ thread' = thread
  PROVE  OnSlots'
BY DEF OnSlots, FailedAt, Released

\* A success keeps an undrifted interval job on its slots, and brings a cron
\* job back to its own.
LEMMA SuccessIsOnSlots ==
  ASSUME Inv, OnSlots, Succeeds PROVE OnSlots'
<1> DEFINE t == thread.finished
           next == NextRun(t)
<1>1. /\ t \in Nat /\ job.status = "RUNNING" /\ schedule' = schedule
      /\ thread' = None /\ "next_run_at" \in DOMAIN job'
      /\ job'.next_run_at = next
      /\ drifted' = IF schedule = "cron" THEN FALSE
                    ELSE drifted \/ job.next_run_at + JobInterval <= t
  BY DEF OnSlots, Succeeds, Released, At
<1>2. ASSUME schedule = "interval", ~drifted' PROVE next \in Nat /\ next % JobInterval = 0
  <2>1. /\ ~drifted /\ ~(job.next_run_at + JobInterval <= t)
        /\ job.next_run_at \in Nat /\ job.next_run_at % JobInterval = 0
    BY <1>1, <1>2 DEF OnSlots, Cadence
  <2>2. next = job.next_run_at + JobInterval
    BY <1>2, <2>1 DEF NextRun
  <2>3. JobInterval \in Nat \ {0}
    BY TimingAssumption
  <2> QED
    BY <2>1, <2>2, <2>3, NextMultiple
<1>3. ASSUME schedule = "cron" PROVE next \in Nat /\ next % CronPeriod = 0
  BY <1>1, <1>3, SlotIsMultiple DEF NextRun
<1>4. schedule \in {"interval", "cron"} /\ drifted' \in BOOLEAN
  BY <1>1 DEF OnSlots
<1> HIDE DEF next, t
<1> QED
  BY <1>1, <1>2, <1>3, <1>4 DEF OnSlots, Cadence

\* A job stays on its slots until it drifts.
LEMMA OnSlotsHolds == Spec => []OnSlots
<1>1. Init => OnSlots
  <2> SUFFICES ASSUME Init PROVE OnSlots
    OBVIOUS
  <2>1. JobInterval \in Nat \ {0} /\ JobInterval % JobInterval = 0
    BY TimingAssumption
  <2>2. NextSlot(0) \in Nat /\ NextSlot(0) % CronPeriod = 0
    BY SlotIsMultiple
  <2> QED
    BY <2>1, <2>2 DEF Init, OnSlots, Cadence
<1>2. Inv /\ OnSlots /\ [Next]_timingVars => OnSlots'
  <2> SUFFICES ASSUME Inv, OnSlots, [Next]_timingVars PROVE OnSlots'
    OBVIOUS
  <2>0. /\ {"status", "lease_expires_at", "attempt_count", "next_run_at"} \subseteq DOMAIN job
        /\ now \in Nat
    BY DEF Inv, TimesOK, OnSlots
  <2>a. thread # None => /\ {"pc", "due", "missed", "finished"} = DOMAIN thread
                         /\ thread.pc \in {"claimed", "running", "ended"}
    BY DEF Inv, TimesOK, Thread
  <2>1. CASE Claim
    BY <2>0, <2>1 DEF Claim, OnSlots, Cadence
  <2>2. CASE Start \/ Renew
    <3>1. /\ thread'.pc = "running" /\ DOMAIN job' = DOMAIN job
          /\ job'.status = job.status /\ job'.next_run_at = job.next_run_at
          /\ UNCHANGED <<schedule, drifted>>
      BY <2>0, <2>2, <2>a DEF Start, Renew, At
    <3> QED
      BY <3>1 DEF OnSlots, Cadence
  <2>3. CASE RenewFails
    BY <2>3, <2>a DEF RenewFails, At, OnSlots, Cadence
  <2>4. CASE TaskEnds
    BY <2>0, <2>4, <2>a DEF TaskEnds, At, OnSlots, Cadence
  <2>5. CASE Fails
    BY <2>5, FailureDrifts DEF Fails
  <2>6. CASE Reap \/ ReapElsewhere
    <3>1. thread' = thread
          /\ ((\E t \in Shown : FailedAt(t)) \/ UNCHANGED <<schedule, job, drifted>>)
      BY <2>6 DEF Reap, ReapElsewhere
    <3> QED
      BY <3>1, FailureDrifts DEF OnSlots, Cadence
  <2>7. CASE Crash \/ Poll \/ ReapFails \/ Tick \/ UNCHANGED timingVars
    BY <2>7 DEF Crash, Poll, ReapFails, Tick, timingVars, OnSlots, Cadence
  <2> QED
    BY <2>1, <2>2, <2>3, <2>4, <2>5, <2>6, <2>7, SuccessIsOnSlots DEF Next
<1> QED
  BY <1>1, <1>2, InvHolds, PTL DEF Spec

\* Whatever the interval or the period: a job that neither failed nor ran past
\* its next slot is due at a slot, however late it was claimed, and a cron
\* job always.
THEOREM CadenceIsKept == Spec => []KeepsCadence
<1>1. OnSlots => KeepsCadence
  BY DEF OnSlots, KeepsCadence, Cadence
<1> QED  BY OnSlotsHolds, <1>1, PTL

-----------------------------------------------------------------------------
(* Induction.  A set of numbers takes the place of the predicate that the  *)
(* library's theorems have as a parameter.                                 *)

Less == OpToRel(<, Nat)

\* A set that has 0, and the successor of each of its numbers, has them all.
LEMMA SetInduction ==
  ASSUME NEW S, 0 \in S, \A n \in Nat : n \in S => n + 1 \in S
  PROVE  Nat \subseteq S
<1> DEFINE T == Nat \ S
<1> SUFFICES ASSUME T # {} PROVE FALSE
  OBVIOUS
<1>0. \A i, j \in Nat : <<i, j>> \in Less <=> i < j
  BY DEF Less, OpToRel
<1>1. IsWellFoundedOn(Less, Nat)
  BY NatLessThanWellFounded DEF Less
<1>2. PICK x \in T : \A y \in T : <<y, x>> \notin Less
  <2>1. T \subseteq Nat /\ T # {}
    OBVIOUS
  <2> HIDE DEF T
  <2> QED BY <1>1, <2>1, WFMin
<1>3. x \in Nat /\ x # 0 /\ x - 1 \in Nat
  OBVIOUS
<1>4. <<x - 1, x>> \in Less
  BY <1>0, <1>3
<1>5. x - 1 \notin T
  <2> HIDE DEF T
  <2> QED BY <1>2, <1>4
<1>6. x - 1 \in S /\ (x - 1) + 1 = x
  BY <1>3, <1>5
<1> QED BY <1>2, <1>3, <1>6

\* f begins with b and goes on by step.
Recurs(f, V, b, step) ==
  /\ f \in [Nat -> V]
  /\ f[0] = b
  /\ \A n \in Nat : f[n + 1] = step[<<n, f[n]>>]

\* What is defined by recursion exists: its beginnings are unique, and fit
\* together.
LEMMA Recursion ==
  ASSUME NEW V, NEW b, b \in V, NEW step, step \in [Nat \X V -> V]
  PROVE  \E f : Recurs(f, V, b, step)
<1> DEFINE Starts(f, n) ==
             f[0] = b /\ \A i \in 0 .. n - 1 : f[i + 1] = step[<<i, f[i]>>]
           Starting(n) == {f \in [0 .. n -> V] : Starts(f, n)}
<1>1. \A n \in Nat : Starting(n) # {}
  <2> DEFINE S == {n \in Nat : Starting(n) # {}}
  <2>1. 0 \in S
    <3>1. [i \in 0 .. 0 |-> b] \in Starting(0)
      OBVIOUS
    <3> QED  BY <3>1
  <2>2. ASSUME NEW n \in Nat, n \in S PROVE n + 1 \in S
    <3>1. PICK f \in [0 .. n -> V] : Starts(f, n)
      BY <2>2
    <3> DEFINE g == [i \in 0 .. n + 1 |-> IF i = n + 1 THEN step[<<n, f[n]>>] ELSE f[i]]
    <3>0. f[n] \in V /\ <<n, f[n]>> \in Nat \X V /\ step[<<n, f[n]>>] \in V
      OBVIOUS
    <3>2. g \in [0 .. n + 1 -> V]
      BY <3>0
    <3>3. g[0] = b
      BY <3>1
    <3>4. ASSUME NEW i \in 0 .. (n + 1) - 1 PROVE g[i + 1] = step[<<i, g[i]>>]
      <4>1. i \in 0 .. n /\ g[i] = f[i]
        OBVIOUS
      <4>2. CASE i = n
        <5>1. g[n + 1] = step[<<n, f[n]>>] /\ g[n] = f[n]
          OBVIOUS
        <5> HIDE DEF g
        <5> QED BY <5>1, <4>2
      <4>3. CASE i # n
        <5>1. i \in 0 .. n - 1 /\ g[i + 1] = f[i + 1]
          BY <4>3
        <5> QED BY <3>1, <4>1, <5>1
      <4> QED BY <4>2, <4>3
    <3> HIDE DEF g
    <3>5. g \in Starting(n + 1)
      BY <3>2, <3>3, <3>4
    <3> QED BY <3>5
  <2> HIDE DEF S
  <2>3. Nat \subseteq S
    BY <2>1, <2>2, SetInduction
  <2> QED  BY <2>3 DEF S
<1>2. ASSUME NEW n \in Nat, NEW f \in Starting(n), NEW g \in Starting(n + 1)
      PROVE  g[n] = f[n]
  <2> DEFINE S == {i \in Nat : i <= n => g[i] = f[i]}
  <2>1. 0 \in S
    OBVIOUS
  <2>2. ASSUME NEW i \in Nat, i \in S PROVE i + 1 \in S
    <3> SUFFICES ASSUME i + 1 <= n PROVE g[i + 1] = f[i + 1]
      OBVIOUS
    <3>1. i \in 0 .. n - 1 /\ i \in 0 .. (n + 1) - 1 /\ g[i] = f[i]
      BY <2>2
    <3>2. f[i + 1] = step[<<i, f[i]>>]
      BY <3>1
    <3>3. g[i + 1] = step[<<i, g[i]>>]
      BY <3>1
    <3> QED BY <3>1, <3>2, <3>3
  <2> HIDE DEF S
  <2>3. Nat \subseteq S
    BY <2>1, <2>2, SetInduction
  <2>4. n \in S
    BY <2>3
  <2> QED  BY <2>4 DEF S
<1> DEFINE part(n) == CHOOSE f \in Starting(n) : TRUE
           F == [n \in Nat |-> part(n)[n]]
<1>3. ASSUME NEW n \in Nat PROVE part(n) \in Starting(n)
  <2> HIDE DEF Starting
  <2> QED  BY <1>1
<1> HIDE DEF part
<1>4. ASSUME NEW n \in Nat PROVE part(n)[n] \in V
  <2>1. part(n) \in [0 .. n -> V]
    BY <1>3
  <2> QED BY <2>1
<1>5. F \in [Nat -> V]
  BY <1>4
<1>6. F[0] = b
  <2>1. part(0)[0] = b
    BY <1>3
  <2> QED BY <2>1
<1>7. ASSUME NEW n \in Nat PROVE F[n + 1] = step[<<n, F[n]>>]
  <2>1. part(n + 1)[n] = part(n)[n]
    <3>1. part(n) \in Starting(n) /\ part(n + 1) \in Starting(n + 1)
      BY <1>3
    <3> HIDE DEF Starting
    <3> QED BY <1>2, <3>1
  <2>2. part(n + 1)[n + 1] = step[<<n, part(n + 1)[n]>>]
    <3>1. part(n + 1) \in Starting(n + 1) /\ n \in 0 .. (n + 1) - 1
      BY <1>3
    <3> QED BY <3>1
  <2>3. n + 1 \in Nat
    OBVIOUS
  <2> QED BY <2>1, <2>2, <2>3
<1> HIDE DEF F
<1> QED BY <1>5, <1>6, <1>7 DEF Recurs

\* The equation of a function that is defined by recursion.
LEMMA RecursionEquation ==
  ASSUME NEW V, NEW b, NEW step, NEW f, Recurs(f, V, b, step)
  PROVE  f = [n \in Nat |-> IF n = 0 THEN b ELSE step[<<n - 1, f[n - 1]>>]]
<1>1. ASSUME NEW n \in Nat, n # 0 PROVE f[n] = step[<<n - 1, f[n - 1]>>]
  <2>1. n - 1 \in Nat /\ (n - 1) + 1 = n
    BY <1>1
  <2> QED  BY <2>1 DEF Recurs
<1> QED  BY <1>1 DEF Recurs

-----------------------------------------------------------------------------
(* The delay of a retry.                                                   *)

\* The minimum of two numbers.
LEMMA MinOfTwo ==
  ASSUME NEW a \in Nat, NEW b \in Nat
  PROVE  Min({a, b}) = IF a <= b THEN a ELSE b
<1> DEFINE m == IF a <= b THEN a ELSE b
<1>1. m \in {a, b} /\ m \in Nat /\ \A y \in {a, b} : m <= y
  OBVIOUS
<1>2. \A x \in {a, b} : (\A y \in {a, b} : x <= y) => x = m
  BY <1>1
<1> HIDE DEF m
<1>3. Min({a, b}) = m
  BY <1>1, <1>2 DEF Min
<1> QED  BY <1>3 DEF m

\* Powers of two are numbers, each twice the one before.
LEMMA PowersOfTwo ==
  /\ PowerOfTwo[0] = 1
  /\ \A n \in Nat : PowerOfTwo[n] \in Nat /\ PowerOfTwo[n + 1] = 2 * PowerOfTwo[n]
<1> DEFINE step == [x \in Nat \X Nat |-> 2 * x[2]]
           Equation(f) == f = [n \in Nat |-> IF n = 0 THEN 1 ELSE 2 * f[n - 1]]
<1>1. \E f : Recurs(f, Nat, 1, step)
  <2>1. step \in [Nat \X Nat -> Nat] /\ 1 \in Nat
    OBVIOUS
  <2> HIDE DEF step
  <2> QED  BY <2>1, Recursion
<1>2. PICK f : Recurs(f, Nat, 1, step)
  BY <1>1
<1>3. Equation(f)
  <2> DEFINE g == [n \in Nat |-> IF n = 0 THEN 1 ELSE step[<<n - 1, f[n - 1]>>]]
  <2>1. f = g
    BY <1>2, RecursionEquation
  <2>2. ASSUME NEW n \in Nat, n # 0
        PROVE  step[<<n - 1, f[n - 1]>>] = 2 * f[n - 1]
    <3>1. n - 1 \in Nat /\ f[n - 1] \in Nat
      BY <1>2, <2>2 DEF Recurs
    <3> QED  BY <3>1
  <2> HIDE DEF step
  <2>3. g = [n \in Nat |-> IF n = 0 THEN 1 ELSE 2 * f[n - 1]]
    BY <2>2
  <2> QED  BY <2>1, <2>3
<1>4. Equation(PowerOfTwo)
  <2>1. PowerOfTwo = CHOOSE g : Equation(g)
    BY DEF PowerOfTwo
  <2> HIDE DEF Equation
  <2> QED  BY <1>3, <2>1
<1>5. PowerOfTwo[0] = 1 /\ \A n \in Nat : PowerOfTwo[n + 1] = 2 * PowerOfTwo[n]
  BY <1>4
<1>6. \A n \in Nat : PowerOfTwo[n] \in Nat
  <2> DEFINE S == {n \in Nat : PowerOfTwo[n] \in Nat}
  <2>1. 0 \in S /\ \A n \in Nat : n \in S => n + 1 \in S
    BY <1>5
  <2> HIDE DEF S
  <2>2. Nat \subseteq S
    BY <2>1, SetInduction
  <2> QED  BY <2>2 DEF S
<1> QED  BY <1>5, <1>6

\* The waits are what their definition says.
LEMMA WaitEquation ==
  \A n \in Nat : Wait[n] = IF n <= 1 THEN Min({Backoff, Cap})
                                     ELSE Min({2 * Wait[n - 1], Cap})
<1> DEFINE b == Min({Backoff, Cap})
           step == [x \in Nat \X Nat |-> IF x[1] = 0 THEN b ELSE Min({2 * x[2], Cap})]
           Equation(f) == f = [n \in Nat |-> IF n <= 1 THEN Min({Backoff, Cap})
                                                       ELSE Min({2 * f[n - 1], Cap})]
<1>0. b \in Nat /\ \A k \in Nat : Min({2 * k, Cap}) \in Nat
  <2>1. Backoff \in Nat /\ Cap \in Nat
    BY TimingAssumption
  <2>2. Min({Backoff, Cap}) \in Nat
    BY <2>1, MinOfTwo
  <2>3. ASSUME NEW k \in Nat PROVE Min({2 * k, Cap}) \in Nat
    <3>1. 2 * k \in Nat
      OBVIOUS
    <3> QED  BY <2>1, <3>1, MinOfTwo
  <2> QED  BY <2>2, <2>3
<1>1. \E f : Recurs(f, Nat, b, step)
  <2>1. step \in [Nat \X Nat -> Nat] /\ b \in Nat
    <3> HIDE DEF b
    <3> QED  BY <1>0
  <2> HIDE DEF step, b
  <2> QED  BY <2>1, Recursion
<1>2. PICK f : Recurs(f, Nat, b, step)
  BY <1>1
<1>3. Equation(f)
  <2> DEFINE g == [n \in Nat |-> IF n = 0 THEN b ELSE step[<<n - 1, f[n - 1]>>]]
  <2>1. f = g
    <3> HIDE DEF step, b
    <3> QED  BY <1>2, RecursionEquation
  <2>2. ASSUME NEW n \in Nat, n # 0
        PROVE  step[<<n - 1, f[n - 1]>>] = IF n <= 1 THEN b ELSE Min({2 * f[n - 1], Cap})
    <3>1. n - 1 \in Nat /\ f[n - 1] \in Nat /\ (n - 1 = 0 <=> n <= 1)
      BY <1>2, <2>2 DEF Recurs
    <3> HIDE DEF b
    <3> QED  BY <3>1
  <2> HIDE DEF step
  <2>3. g = [n \in Nat |-> IF n <= 1 THEN b ELSE Min({2 * f[n - 1], Cap})]
    <3> HIDE DEF b
    <3> QED  BY <2>2
  <2> QED  BY <2>1, <2>3
<1>4. Equation(Wait)
  <2>1. Wait = CHOOSE g : Equation(g)
    BY DEF Wait
  <2> HIDE DEF Equation
  <2> QED  BY <1>3, <2>1
<1> QED  BY <1>4

\* The closed form of the code is the doubling and capping step by step.
LEMMA DelayIsWait ==
  \A n \in Nat : RetryDelay(n) \in Nat /\ RetryDelay(n) = Wait[n]
<1>0. Backoff \in Nat /\ Cap \in Nat
  BY TimingAssumption
<1>1. ASSUME NEW k \in Nat
      PROVE  /\ Backoff * PowerOfTwo[k] \in Nat
             /\ Backoff * PowerOfTwo[k + 1] = 2 * (Backoff * PowerOfTwo[k])
  <2>1. PowerOfTwo[k] \in Nat /\ PowerOfTwo[k + 1] = 2 * PowerOfTwo[k]
    BY PowersOfTwo
  <2>2. \A p \in Nat : Backoff * p \in Nat /\ Backoff * (2 * p) = 2 * (Backoff * p)
    BY <1>0
  <2> QED  BY <2>1, <2>2
<1> DEFINE Capped(k) == Min({Backoff * PowerOfTwo[k], Cap})
<1>2. ASSUME NEW k \in Nat
      PROVE  /\ Capped(k) \in Nat
             /\ Capped(k + 1) = Min({2 * Capped(k), Cap})
  <2> DEFINE x == Backoff * PowerOfTwo[k]
             y == Backoff * PowerOfTwo[k + 1]
  <2>1. x \in Nat /\ y \in Nat /\ y = 2 * x
    BY <1>1
  <2>2. /\ Capped(k) = IF x <= Cap THEN x ELSE Cap
        /\ Capped(k + 1) = IF y <= Cap THEN y ELSE Cap
    BY <1>0, <2>1, MinOfTwo
  <2> HIDE DEF x, y, Capped
  <2>3. Capped(k) \in Nat /\ 2 * Capped(k) \in Nat
    BY <1>0, <2>1, <2>2
  <2>4. Min({2 * Capped(k), Cap}) =
          IF 2 * Capped(k) <= Cap THEN 2 * Capped(k) ELSE Cap
    BY <1>0, <2>3, MinOfTwo
  <2> QED  BY <1>0, <2>1, <2>2, <2>3, <2>4
<1>3. Capped(0) = Min({Backoff, Cap})
  <2>1. Backoff * PowerOfTwo[0] = Backoff
    BY <1>0, PowersOfTwo
  <2> QED  BY <2>1
<1>4. /\ RetryDelay(0) = Capped(0)
      /\ \A k \in Nat : RetryDelay(k + 1) = Capped(k)
  <2>1. ASSUME NEW n \in Nat
        PROVE  Max({n, 1}) = IF n <= 1 THEN 1 ELSE n
    <3> DEFINE m == IF n <= 1 THEN 1 ELSE n
    <3>1. m \in {n, 1} /\ m \in Nat /\ \A z \in {n, 1} : m >= z
      OBVIOUS
    <3>2. \A z \in {n, 1} : (\A u \in {n, 1} : z >= u) => z = m
      BY <3>1
    <3> HIDE DEF m
    <3>3. Max({n, 1}) = m
      BY <3>1, <3>2 DEF Max
    <3> QED  BY <3>3 DEF m
  <2>2. Max({0, 1}) - 1 = 0
    BY <2>1
  <2>3. ASSUME NEW k \in Nat PROVE Max({k + 1, 1}) - 1 = k
    <3>1. k + 1 \in Nat
      OBVIOUS
    <3> QED  BY <2>1, <3>1
  <2> QED  BY <2>2, <2>3 DEF RetryDelay
<1>5. \A k \in Nat : Wait[k + 1] = Capped(k)
  <2> DEFINE S == {k \in Nat : Wait[k + 1] = Capped(k)}
  <2> HIDE DEF Capped
  <2>1. 0 \in S
    <3>1. 0 \in Nat /\ 0 + 1 \in Nat /\ 0 + 1 <= 1
      OBVIOUS
    <3> QED  BY <3>1, WaitEquation, <1>3
  <2>2. ASSUME NEW k \in Nat, k \in S PROVE k + 1 \in S
    <3>1. /\ k + 1 \in Nat /\ (k + 1) + 1 \in Nat /\ ~((k + 1) + 1 <= 1)
          /\ ((k + 1) + 1) - 1 = k + 1
      OBVIOUS
    <3>2. Wait[(k + 1) + 1] = Min({2 * Wait[k + 1], Cap})
      BY <3>1, WaitEquation
    <3> QED  BY <1>2, <2>2, <3>1, <3>2
  <2> HIDE DEF S
  <2>3. Nat \subseteq S
    BY <2>1, <2>2, SetInduction
  <2> QED  BY <2>3 DEF S
<1>6. Wait[0] = Capped(0)
  <2> HIDE DEF Capped
  <2>1. 0 \in Nat /\ 0 <= 1
    OBVIOUS
  <2> QED  BY <2>1, WaitEquation, <1>3
<1> HIDE DEF Capped
<1>7. ASSUME NEW n \in Nat, n # 0
      PROVE  RetryDelay(n) \in Nat /\ RetryDelay(n) = Wait[n]
  <2>1. n - 1 \in Nat /\ (n - 1) + 1 = n
    BY <1>7
  <2> QED  BY <1>2, <1>4, <1>5, <2>1
<1> QED  BY <1>2, <1>4, <1>6, <1>7

-----------------------------------------------------------------------------
(* What times say of each other.                                           *)

\* The row is typed, and its attempts are within the budget: what is in the
\* queue, or claimed and not started, has one left.
RowTyped ==
  /\ job \in Row
  /\ attempts = job.attempt_count
  /\ lastEnd \in Nat \cup {None} /\ lastFail \in Nat \cup {None}
  /\ job.status = "SCHEDULED" \/ At("claimed") => job.attempt_count <= MaxRetries

\* A job that runs was due when it was claimed, so before its lease ends, and
\* its attempt ended after that.
RunsWhenDue ==
  /\ now <= MaxTime
  /\ job.status # "DONE" => job.next_run_at \in Nat
  /\ job.status = "RUNNING" =>
       job.next_run_at <= now /\ job.next_run_at <= job.lease_expires_at
  /\ At("ended") => thread.finished \in Nat /\ job.next_run_at <= thread.finished

\* Every attempt is due after the one that succeeded last, retries included.
AfterLastEnd ==
  job.status # "DONE" /\ lastEnd # None => job.next_run_at > lastEnd

Times == RowTyped /\ RunsWhenDue /\ AfterLastEnd /\ RetriesBackOff

\* The next run is later than the end of the last one.
LEMMA NextRunIsLater ==
  ASSUME NEW t \in Nat, schedule = "interval" => job.next_run_at \in Nat
  PROVE  NextRun(t) \in Nat /\ NextRun(t) > t
<1>0. JobInterval \in Nat \ {0} /\ CronPeriod \in Nat \ {0}
  BY TimingAssumption
<1>1. CASE schedule = "interval"
  BY <1>0, <1>1 DEF NextRun
<1>2. CASE schedule # "interval"
  <2>1. PICK q \in Nat : q = t \div CronPeriod
    BY <1>0
  <2>2. t < CronPeriod * (q + 1)
    <3>1. t = CronPeriod * q + (t % CronPeriod) /\ t % CronPeriod < CronPeriod
          /\ t % CronPeriod \in Nat
      BY <1>0, <2>1
    <3>2. CronPeriod * (q + 1) = CronPeriod * q + CronPeriod /\ CronPeriod * q \in Nat
      BY <1>0
    <3> QED  BY <1>0, <3>1, <3>2
  <2>3. NextRun(t) = CronPeriod * (q + 1)
    BY <1>2, <2>1 DEF NextRun, NextSlot
  <2>4. CronPeriod * (q + 1) \in Nat
    BY <1>0
  <2> QED  BY <2>2, <2>3, <2>4
<1> QED  BY <1>1, <1>2

\* A failed attempt is either the last of its budget or retried after a wait.
LEMMA FailureKeepsTimes ==
  ASSUME TimesOK, Times, job.status = "RUNNING", NEW t \in Nat, FailedAt(t),
         job.next_run_at <= t, thread' = None
  PROVE  Times'
<1> DEFINE n == job.attempt_count
           delay == RetryDelay(n)
<1>0. /\ job \in Row /\ now \in Nat /\ MaxRetries \in Nat /\ n \in 0 .. MaxRetries + 1
      /\ job.next_run_at \in Nat /\ None \notin Int
      /\ attempts = n /\ lastEnd \in Nat \cup {None}
      /\ lastEnd # None => job.next_run_at > lastEnd
  BY TimingAssumption DEF TimesOK, Times, RowTyped, RunsWhenDue, AfterLastEnd, Row
<1>1. delay \in Nat /\ delay = Wait[n]
  BY <1>0, DelayIsWait
<1>2. /\ lastFail' = t /\ UNCHANGED <<now, schedule, lastEnd, attempts>>
      /\ \/ /\ n > MaxRetries
            /\ job' = [status |-> "DONE", next_run_at |-> None,
                       lease_expires_at |-> None, attempt_count |-> n]
         \/ /\ n <= MaxRetries
            /\ job' = [status |-> "SCHEDULED", next_run_at |-> t + delay,
                       lease_expires_at |-> None, attempt_count |-> n]
  BY <1>0 DEF FailedAt, Released, RetriesExhausted
<1> HIDE DEF n, delay
<1>3. RowTyped'
  BY <1>0, <1>1, <1>2 DEF RowTyped, Row, At
<1>4. RunsWhenDue'
  BY <1>0, <1>1, <1>2 DEF Times, RunsWhenDue, At
<1>5. AfterLastEnd'
  BY <1>0, <1>1, <1>2 DEF AfterLastEnd
<1>6. RetriesBackOff'
  BY <1>0, <1>1, <1>2 DEF RetriesBackOff
<1> QED  BY <1>3, <1>4, <1>5, <1>6 DEF Times

\* The first run is due after the start, and nothing has failed.
LEMMA TimesInit == Init => Times
<1> SUFFICES ASSUME Init PROVE Times
  OBVIOUS
<1>1. JobInterval \in Nat /\ MaxRetries \in Nat /\ MaxTime \in Nat /\ NextSlot(0) \in Nat
  BY TimingAssumption, SlotIsMultiple
<1>2. job.next_run_at \in Nat
  BY <1>1 DEF Init
<1>3. job = [status |-> "SCHEDULED", lease_expires_at |-> None, attempt_count |-> 0,
             next_run_at |-> job.next_run_at]
  BY DEF Init
<1> QED
  BY <1>1, <1>2, <1>3 DEF Init, Times, RowTyped, Row, At, RunsWhenDue, AfterLastEnd,
     RetriesBackOff

\* Claims, ends and failures are in the order of the clock.
LEMMA TimesNext == Inv /\ Times /\ [Next]_timingVars => Times'
<1> SUFFICES ASSUME Inv, Times, [Next]_timingVars PROVE Times'
  OBVIOUS
<1>a. /\ now \in Nat /\ TimesOK
      /\ thread # None => thread \in Thread /\ job.status = "RUNNING"
      /\ MaxRetries \in Nat /\ Lease \in Nat /\ Skew \in Nat /\ None \notin Int
  BY TimingAssumption DEF Inv, TimesOK, LeaseCovers
<1>b. /\ job \in Row /\ attempts = job.attempt_count
      /\ job.attempt_count \in 0 .. MaxRetries + 1
      /\ job = [status |-> job.status, next_run_at |-> job.next_run_at,
                lease_expires_at |-> job.lease_expires_at,
                attempt_count |-> job.attempt_count]
      /\ lastEnd \in Nat \cup {None} /\ lastFail \in Nat \cup {None}
      /\ job.status = "SCHEDULED" \/ At("claimed") => job.attempt_count <= MaxRetries
  BY DEF Times, RowTyped, Row
<1>c. /\ now <= MaxTime
      /\ job.status # "DONE" => job.next_run_at \in Nat
      /\ job.status = "RUNNING" =>
           /\ job.next_run_at <= now /\ job.next_run_at <= job.lease_expires_at
           /\ job.lease_expires_at \in Nat
      /\ At("ended") => thread.finished \in Nat /\ job.next_run_at <= thread.finished
      /\ job.status # "DONE" /\ lastEnd # None => job.next_run_at > lastEnd
  BY <1>a DEF Times, RunsWhenDue, AfterLastEnd, TimesOK
<1>1. CASE Claim
  <2>1. /\ job' = [status |-> "RUNNING", next_run_at |-> job.next_run_at,
                   lease_expires_at |-> now + Lease, attempt_count |-> job.attempt_count]
        /\ job.status = "SCHEDULED" /\ job.next_run_at <= now
        /\ thread' = [pc |-> "claimed", due |-> now, missed |-> 0, finished |-> None]
        /\ UNCHANGED <<now, lastEnd, lastFail, attempts>>
    BY <1>1, <1>b DEF Claim
  <2> QED
    BY <2>1, <1>a, <1>b, <1>c
    DEF Times, RowTyped, Row, RunsWhenDue, AfterLastEnd, RetriesBackOff, At
<1>2. CASE Start
  <2>1. /\ job' = [status |-> job.status, next_run_at |-> job.next_run_at,
                   lease_expires_at |-> job.lease_expires_at,
                   attempt_count |-> job.attempt_count + 1]
        /\ job.status = "RUNNING" /\ job.attempt_count <= MaxRetries
        /\ thread'.pc = "running" /\ attempts' = attempts + 1
        /\ UNCHANGED <<now, lastEnd, lastFail>>
    BY <1>2, <1>a, <1>b DEF Start, At, Thread
  <2>2. job' \in Row
    BY <2>1, <1>a, <1>b DEF Row
  <2> QED
    BY <2>1, <2>2, <1>a, <1>b, <1>c
    DEF Times, RowTyped, RunsWhenDue, AfterLastEnd, RetriesBackOff, At
<1>3. CASE Renew
  <2>1. /\ job' = [status |-> job.status, next_run_at |-> job.next_run_at,
                   lease_expires_at |-> now + Lease,
                   attempt_count |-> job.attempt_count]
        /\ job.status = "RUNNING"
        /\ thread'.pc = "running"
        /\ UNCHANGED <<now, lastEnd, lastFail, attempts>>
    BY <1>3, <1>a, <1>b DEF Renew, At, Thread
  <2>2. job' \in Row
    BY <2>1, <1>a, <1>b DEF Row
  <2> QED
    BY <2>1, <2>2, <1>a, <1>b, <1>c
    DEF Times, RowTyped, RunsWhenDue, AfterLastEnd, RetriesBackOff, At
<1>4. CASE RenewFails
  <2>1. /\ thread'.pc = "running" /\ job.status = "RUNNING"
        /\ UNCHANGED <<now, job, lastEnd, lastFail, attempts>>
    BY <1>4, <1>a DEF RenewFails, At, Thread
  <2> QED
    BY <2>1, <1>b, <1>c
    DEF Times, RowTyped, RunsWhenDue, AfterLastEnd, RetriesBackOff, At
<1>5. CASE TaskEnds
  <2>1. /\ thread'.pc = "ended" /\ thread'.finished = now /\ job.status = "RUNNING"
        /\ UNCHANGED <<now, job, lastEnd, lastFail, attempts>>
    BY <1>5, <1>a DEF TaskEnds, At, Thread
  <2> QED
    BY <2>1, <1>a, <1>b, <1>c
    DEF Times, RowTyped, RunsWhenDue, AfterLastEnd, RetriesBackOff, At
<1>6. CASE Succeeds
  <2> DEFINE t == thread.finished
             next == NextRun(t)
  <2>1. next \in Nat /\ next > t /\ t \in Nat
    BY <1>6, <1>c, NextRunIsLater DEF Succeeds
  <2>2. /\ job' = [status |-> "SCHEDULED", next_run_at |-> next,
                   lease_expires_at |-> None, attempt_count |-> 0]
        /\ thread' = None /\ lastEnd' = t /\ lastFail' = None /\ attempts' = 0
        /\ now' = now
    BY <1>6 DEF Succeeds, Released
  <2> HIDE DEF next, t
  <2>3. job' \in Row
    BY <2>1, <2>2, <1>a DEF Row
  <2> QED
    BY <2>1, <2>2, <2>3, <1>a, <1>c
    DEF Times, RowTyped, RunsWhenDue, AfterLastEnd, RetriesBackOff, At
<1>7. CASE Fails
  BY <1>7, <1>a, <1>c, FailureKeepsTimes DEF Fails
<1>8. CASE Crash
  <2>1. thread' = None /\ UNCHANGED <<now, job, lastEnd, lastFail, attempts>>
    BY <1>8 DEF Crash
  <2> QED
    BY <2>1 DEF Times, RowTyped, RunsWhenDue, AfterLastEnd, RetriesBackOff, At
<1>9. CASE Poll \/ ReapFails
  <2>1. UNCHANGED <<now, job, thread, lastEnd, lastFail, attempts>>
    BY <1>9 DEF Poll, ReapFails
  <2> QED
    BY <2>1 DEF Times, RowTyped, RunsWhenDue, AfterLastEnd, RetriesBackOff, At
<1>10. CASE Reap \/ ReapElsewhere
  <2>1. PICK t \in Shown :
          \/ Expired(t) /\ FailedAt(t)
          \/ ~Expired(t) /\ UNCHANGED <<now, job, lastEnd, lastFail, attempts>>
    BY <1>10 DEF Reap, ReapElsewhere
  <2>2. thread' = thread
    BY <1>10 DEF Reap, ReapElsewhere
  <2>3. CASE Expired(t) /\ FailedAt(t)
    <3>1. thread = None
      BY <2>3, LiveIsNotExpired
    <3>2. job.status = "RUNNING" /\ t \in Nat /\ job.next_run_at <= t
      BY <2>3, <1>a, <1>c DEF Expired, Shown
    <3> QED  BY <2>2, <2>3, <3>1, <3>2, <1>a, FailureKeepsTimes
  <2>4. CASE UNCHANGED <<now, job, lastEnd, lastFail, attempts>>
    BY <2>2, <2>4 DEF Times, RowTyped, RunsWhenDue, AfterLastEnd, RetriesBackOff, At
  <2> QED  BY <2>1, <2>3, <2>4
<1>12. CASE Tick
  <2>1. now' = now + 1 /\ now < MaxTime /\ UNCHANGED <<job, thread, lastEnd, lastFail, attempts>>
    BY <1>12 DEF Tick
  <2>2. MaxTime \in Nat
    BY TimingAssumption
  <2> QED
    BY <2>1, <2>2, <1>a, <1>b, <1>c
    DEF Times, RowTyped, RunsWhenDue, AfterLastEnd, RetriesBackOff, At
<1>11. CASE UNCHANGED timingVars
  BY <1>11 DEF timingVars, Times, RowTyped, RunsWhenDue, AfterLastEnd, RetriesBackOff, At
<1> QED
  BY <1>1, <1>2, <1>3, <1>4, <1>5, <1>6, <1>7, <1>8, <1>9, <1>10, <1>11, <1>12 DEF Next

\* Times is an invariant of the specification.
LEMMA TimesHold == Spec => []Times
BY TimesInit, TimesNext, InvHolds, PTL DEF Spec

\* Whatever the constants: a job in the queue is due after its last success,
\* whatever was missed, failed or taken back since.
THEOREM MissedSlotsAreSkipped == Spec => []MissedAreSkipped
<1>1. Times => MissedAreSkipped
  BY DEF Times, AfterLastEnd, MissedAreSkipped
<1> QED  BY TimesHold, <1>1, PTL

\* Whatever the base and the cap, and for any number of attempts: the wait
\* after a failure is the base, doubled with each attempt and capped.
THEOREM BackoffIsKept == Spec => []RetriesBackOff
<1>1. Times => RetriesBackOff
  BY DEF Times
<1> QED  BY TimesHold, <1>1, PTL

\* The clock, the row and the thread are what their types say.
THEOREM TimingTypeCorrect == Spec => []TypeOK
<1>1. Inv /\ Times /\ OnSlots => TypeOK
  <2> SUFFICES ASSUME Inv, Times, OnSlots PROVE TypeOK
    OBVIOUS
  <2>1. MaxTime \in Nat
    BY TimingAssumption
  <2>2. attempts \in Nat
    BY TimingAssumption DEF Times, RowTyped, Row
  <2> QED
    BY <2>1, <2>2 DEF Inv, TimesOK, OnSlots, Times, RowTyped, RunsWhenDue, TypeOK
<1> QED  BY TimesHold, InvHolds, OnSlotsHolds, <1>1, PTL
=============================================================================
