----------------------------- MODULE RequestLimiter -----------------------------
(***************************************************************************)
(* ProviderRequestLimiter (core/provider_request_limiter.py): the requests   *)
(* per minute and per UTC day that the processes of one scope share through  *)
(* a state file.                                                            *)
(*                                                                         *)
(* Every acquire() opens the scope's lock file, takes its flock, samples the *)
(* wall clock, reads the state, reserves a slot by replacing the state file, *)
(* unlocks, and only then sleeps until its slot.  A process may die at any   *)
(* step, a write may fail before or after the file was replaced, the sleep   *)
(* may be interrupted, and the wall clock may be set back.                   *)
(***************************************************************************)
EXTENDS Integers, Sequences, FiniteSets

CONSTANTS
  Callers,      \* processes that use the scope
  NoCaller,
  Rpm,          \* rpm_limit of each process; 0: none
  Rpd,          \* rpd_limit of each process; 0: none
  Window,       \* the 60 seconds of the rolling window
  Day,          \* the length of a UTC day
  MaxUptime,    \* bound: how far time passes
  MaxBehind,    \* bound: how far the wall clock is set back
  MaxRequests   \* bound: calls of acquire

ASSUME LimitsAssumption ==
  /\ Callers # {} /\ NoCaller \notin Callers
  /\ Rpm \in [Callers -> Nat] /\ Rpd \in [Callers -> Nat]
  /\ \A c \in Callers : Rpm[c] > 0 \/ Rpd[c] > 0
  /\ Window \in Nat \ {0} /\ Day \in Nat \ {0}
  /\ MaxUptime \in Nat /\ MaxBehind \in Nat /\ MaxRequests \in Nat

VARIABLES
  uptime,    \* time.monotonic
  behind,    \* how far the wall clock was set back
  file,      \* the state file: utc_day, day_count, request_times
  lock,      \* who holds the flock
  requests,  \* calls of acquire so far
  pc,        \* where each caller is
  now,       \* now_epoch of each caller
  slot,      \* scheduled_at of each caller
  wake,      \* when its sleep ends, on the monotonic clock
  outcome,   \* how its last call ended
  reserved   \* every slot ever written, and the day it was counted on

scope  == <<file, lock, reserved>>
caller == <<pc, now, slot, wake, outcome>>
vars   == <<uptime, behind, scope, requests, caller>>

Outcomes == {"none", "acquired", "exhausted", "interrupted", "error"}

TypeOK ==
  /\ uptime \in 0..MaxUptime /\ behind \in 0..MaxBehind /\ behind <= uptime
  /\ file \in [day : Nat, count : Nat, times : Seq(Nat)]
  /\ lock \in Callers \cup {NoCaller}
  /\ requests \in 0..MaxRequests
  /\ pc \in [Callers -> {"idle", "lock", "held", "read", "wait"}]
  /\ now \in [Callers -> Nat] /\ slot \in [Callers -> Nat] /\ wake \in [Callers -> Nat]
  /\ outcome \in [Callers -> Outcomes]
  /\ reserved \in Seq([day : Nat, slot : Nat])

Clock == uptime - behind

\* a missing file reads as a day with no request
Init ==
  /\ uptime = 0 /\ behind = 0
  /\ file = [day |-> 0, count |-> 0, times |-> <<>>]
  /\ lock = NoCaller /\ requests = 0 /\ reserved = <<>>
  /\ pc = [c \in Callers |-> "idle"]
  /\ now = [c \in Callers |-> 0]
  /\ slot = [c \in Callers |-> 0]
  /\ wake = [c \in Callers |-> 0]
  /\ outcome = [c \in Callers |-> "none"]

\* the call of c ends, by a return or by an exception, and its locals with it
Ends(c, how) ==
  /\ pc' = [pc EXCEPT ![c] = "idle"]
  /\ outcome' = [outcome EXCEPT ![c] = how]
  /\ now' = [now EXCEPT ![c] = 0]
  /\ slot' = [slot EXCEPT ![c] = 0]
  /\ wake' = [wake EXCEPT ![c] = 0]

Goto(c, where) == pc' = [pc EXCEPT ![c] = where]

Unlocked(c) == IF lock = c THEN NoCaller ELSE lock

-----------------------------------------------------------------------------
Acquire(c) ==
  /\ pc[c] = "idle" /\ requests < MaxRequests
  /\ requests' = requests + 1
  /\ Goto(c, "lock")
  /\ UNCHANGED <<uptime, behind, scope, now, slot, wake, outcome>>

\* the directory, the lock file or the flock fails
OpenFails(c) ==
  /\ pc[c] = "lock"
  /\ Ends(c, "error")
  /\ UNCHANGED <<uptime, behind, scope, requests>>

Lock(c) ==
  /\ pc[c] = "lock" /\ lock = NoCaller
  /\ lock' = c
  /\ Goto(c, "held")
  /\ UNCHANGED <<uptime, behind, file, requests, now, slot, wake, outcome, reserved>>

\* mutant: the clock was read while the lock was still awaited
SampleBefore(c) ==
  /\ pc[c] = "held"
  /\ \E t \in 0 .. Clock : now' = [now EXCEPT ![c] = t]
  /\ Goto(c, "read")
  /\ UNCHANGED <<uptime, behind, scope, requests, slot, wake, outcome>>

\* the clock is sampled only once the lock is held
Sample(c) ==
  /\ pc[c] = "held"
  /\ now' = [now EXCEPT ![c] = Clock]
  /\ Goto(c, "read")
  /\ UNCHANGED <<uptime, behind, scope, requests, slot, wake, outcome>>

\* mutant: the day of a time zone that is behind UTC
LocalDayOf(t) == (t - 1) \div Day

DayOf(t) == t \div Day

Sorted(times) == \A i, j \in DOMAIN times : i < j => times[i] <= times[j]

\* _read_state refuses times that are out of order
Trusted == Sorted(file.times)

\* day_count, as _read_state returns it at time t
DayCount(t) == IF file.day = DayOf(t) THEN file.count ELSE 0

\* mutant: the last request of the day is refused
AlmostSpent(c) == Rpd[c] > 0 /\ DayCount(now[c]) + 1 >= Rpd[c]

\* mutant: a day's budget has room for one more
OneMore(c) == Rpd[c] > 0 /\ DayCount(now[c]) > Rpd[c]

Spent(c) == Rpd[c] > 0 /\ DayCount(now[c]) >= Rpd[c]

Untrusted(c) ==
  /\ pc[c] = "read" /\ ~Trusted
  /\ lock' = NoCaller
  /\ Ends(c, "error")
  /\ UNCHANGED <<uptime, behind, file, requests, reserved>>

Exhausted(c) ==
  /\ pc[c] = "read" /\ Trusted /\ Spent(c)
  /\ lock' = NoCaller
  /\ Ends(c, "exhausted")
  /\ UNCHANGED <<uptime, behind, file, requests, reserved>>

\* request_times keeps the times after the k oldest: in a sorted file those
\* at or before now_epoch - 60 come first
Expired(k, t) ==
  /\ \A i \in 1 .. k : file.times[i] <= t - Window
  /\ \A i \in (k + 1) .. Len(file.times) : file.times[i] > t - Window

\* mutant: a window has room for one more
SlotAfterOneMore(c, k) ==
  LET kept == Len(file.times) - k
      free == file.times[Len(file.times) - Rpm[c] + 1] + Window
  IN IF Rpm[c] > 0 /\ kept > Rpm[c] /\ free > now[c] THEN free ELSE now[c]

\* scheduled_at, with the k oldest times dropped: the request rpm_limit
\* before this one must be a window away
Slot(c, k) ==
  LET kept == Len(file.times) - k
      free == file.times[Len(file.times) - Rpm[c] + 1] + Window
  IN IF Rpm[c] > 0 /\ kept >= Rpm[c] /\ free > now[c] THEN free ELSE now[c]

\* the payload _write_state replaces the file with
Written(c, k) ==
  [day   |-> DayOf(now[c]),
   count |-> DayCount(now[c]) + 1,
   times |-> Append(SubSeq(file.times, k + 1, Len(file.times)), Slot(c, k))]

\* a slot of c is durable from here on, whatever becomes of c
Record(c, k) ==
  /\ file' = Written(c, k)
  /\ reserved' = Append(reserved, [day |-> DayOf(now[c]), slot |-> Slot(c, k)])

\* the caller may write
Admitted(c) == pc[c] = "read" /\ Trusted /\ ~Spent(c)

\* mutant: one interval of the interruptible sleep, and no second one
WakeAfterInterval(c, k) == uptime + (IF Slot(c, k) > now[c] THEN 1 ELSE 0)

\* the end of a sleep of scheduled_at - now_epoch that starts now
WakeAt(c, k) == uptime + (Slot(c, k) - now[c])

Reserve(c) ==
  /\ Admitted(c)
  /\ \E k \in 0 .. Len(file.times) :
       /\ Expired(k, now[c])
       /\ Record(c, k)
       /\ slot' = [slot EXCEPT ![c] = Slot(c, k)]
       /\ wake' = [wake EXCEPT ![c] = WakeAt(c, k)]
  /\ lock' = NoCaller
  /\ Goto(c, "wait")
  /\ UNCHANGED <<uptime, behind, requests, now, outcome>>

\* mutant: an error on the way out keeps the lock
WriteFailsLocked(c) ==
  /\ Admitted(c)
  /\ UNCHANGED <<file, reserved, lock>>
  /\ Ends(c, "error")
  /\ UNCHANGED <<uptime, behind, requests>>

\* the write fails before the file is replaced, or it (the directory's fsync,
\* the unlock) fails after: the slot is then taken and not used
WriteFails(c) ==
  /\ Admitted(c)
  /\ \/ UNCHANGED <<file, reserved>>
     \/ \E k \in 0 .. Len(file.times) : Expired(k, now[c]) /\ Record(c, k)
  /\ lock' = NoCaller
  /\ Ends(c, "error")
  /\ UNCHANGED <<uptime, behind, requests>>

\* acquire returns; the wire request follows
Acquired(c) ==
  /\ pc[c] = "wait" /\ wake[c] <= uptime
  /\ Ends(c, "acquired")
  /\ UNCHANGED <<uptime, behind, scope, requests>>

\* the turn is cancelled in the sleep; the slot is not refunded
Interrupted(c) ==
  /\ pc[c] = "wait" /\ slot[c] > now[c]
  /\ Ends(c, "interrupted")
  /\ UNCHANGED <<uptime, behind, scope, requests>>

\* the process is killed, and another takes its place; the flock goes with it
Crash(c) ==
  /\ pc[c] # "idle"
  /\ lock' = Unlocked(c)
  /\ Ends(c, "none")
  /\ UNCHANGED <<uptime, behind, file, requests, reserved>>

-----------------------------------------------------------------------------
Tick ==
  /\ uptime < MaxUptime
  /\ uptime' = uptime + 1
  /\ UNCHANGED <<behind, scope, requests, caller>>

\* the wall clock is set back
SetBack ==
  /\ behind < MaxBehind /\ Clock > 0
  /\ behind' = behind + 1
  /\ UNCHANGED <<uptime, scope, requests, caller>>

Call(c) ==
  \/ Acquire(c) \/ OpenFails(c) \/ Lock(c) \/ Sample(c)
  \/ Untrusted(c) \/ Exhausted(c) \/ Reserve(c) \/ WriteFails(c)
  \/ Acquired(c) \/ Interrupted(c) \/ Crash(c)

Next == Tick \/ SetBack \/ \E c \in Callers : Call(c)

Spec == Init /\ [][Next]_vars

\* what the holder of the lock does next
Proceeds(c) ==
  Sample(c) \/ Untrusted(c) \/ Exhausted(c) \/ Reserve(c) \/ WriteFails(c)

\* a running process keeps running, and flock wakes its waiters in turn
Fairness ==
  \A c \in Callers : WF_vars(Proceeds(c)) /\ SF_vars(Lock(c))

FairSpec == Spec /\ Fairness

-----------------------------------------------------------------------------
\* the processes of the scope were given the same limits
Uniform == \A c, d \in Callers : Rpm[c] = Rpm[d] /\ Rpd[c] = Rpd[d]

\* However many processes share the scope, and however they crash, fail or
\* are interrupted, of any rpm_limit + 1 consecutive slots the first and the
\* last are a window apart, across midnight too, as long as the wall clock was
\* not set back.
RollingWindow ==
  behind = 0 => \A c \in Callers : Rpm[c] > 0 =>
    \A i \in DOMAIN reserved : i + Rpm[c] \in DOMAIN reserved =>
      reserved[i + Rpm[c]].slot >= reserved[i].slot + Window

\* No more slots than rpd_limit are counted on one UTC day, as long as the wall
\* clock was not set back: the count of a day that comes again begins anew.
DailyBudget ==
  behind = 0 => \A c \in Callers : Rpd[c] > 0 =>
    \A i \in DOMAIN reserved :
      Cardinality({j \in DOMAIN reserved : reserved[j].day = reserved[i].day}) <= Rpd[c]

\* The limiter can read what it wrote: the times in its file are in order.
OwnStateReadable == Trusted

\* acquire returns no earlier than the slot it reserved, although it sleeps on
\* another clock than the one the slot is on, which was not set back.
GrantedOnTime ==
  [][\A c \in Callers : Acquired(c) /\ behind = 0 => Clock >= slot[c]]_vars

\* A caller is told that the day's quota is exhausted only when rpd_limit
\* slots of that day were reserved.
ExhaustedWhenSpent ==
  [][\A c \in Callers : Exhausted(c) =>
       Cardinality({j \in DOMAIN reserved : reserved[j].day = DayOf(now[c])}) >= Rpd[c]]_vars

\* A caller that waits for the lock gets an answer, whatever happens to the
\* holders before it: no way out of the critical section keeps the lock.
EveryCallDecided ==
  \A c \in Callers : (pc[c] = "lock") ~> (pc[c] \in {"idle", "wait"})
=============================================================================
