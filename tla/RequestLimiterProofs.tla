-------------------------- MODULE RequestLimiterProofs --------------------------
(***************************************************************************)
(* Proofs about RequestLimiter.  For any limits and any clock: the types,    *)
(* that acquire does not return before its slot, and that a day's quota is    *)
(* only called exhausted when it is.  For processes with the same limits,     *)
(* until the clock is set back: that the rolling window is kept and that no   *)
(* day has more slots than its budget; and, if it never is, that the state    *)
(* file stays readable.                                                      *)
(***************************************************************************)
EXTENDS RequestLimiter, FiniteSetTheorems, TLAPS

-----------------------------------------------------------------------------
(* Types *)

LEMMA DayType ==
  ASSUME NEW t \in Nat
  PROVE  DayOf(t) \in Nat
  BY LimitsAssumption, SMTT(20) DEF DayOf

LEMMA DayMonotone ==
  ASSUME NEW t \in Nat, NEW u \in Nat, t <= u
  PROVE  DayOf(t) <= DayOf(u)
  BY LimitsAssumption, SMTT(20) DEF DayOf

LEMMA ClockType ==
  ASSUME TypeOK
  PROVE  Clock \in Nat
  BY DEF TypeOK, Clock

\* the slot is a time, not before the clock the caller sampled
LEMMA SlotType ==
  ASSUME TypeOK, NEW c \in Callers, NEW k \in 0 .. Len(file.times)
  PROVE  Slot(c, k) \in Nat /\ Slot(c, k) >= now[c]
  <1>1. now[c] \in Nat /\ file.times \in Seq(Nat) /\ Rpm[c] \in Nat /\ Window \in Nat
    BY LimitsAssumption DEF TypeOK
  <1>2. CASE Rpm[c] > 0 /\ Len(file.times) - k >= Rpm[c]
    <2>1. Len(file.times) - Rpm[c] + 1 \in 1 .. Len(file.times)
      BY SMTT(30), <1>1, <1>2
    <2>2. file.times[Len(file.times) - Rpm[c] + 1] \in Nat
      BY SMTT(30), <1>1, <2>1
    <2> DEFINE far == file.times[Len(file.times) - Rpm[c] + 1] + Window
    <2>3. Slot(c, k) = IF far > now[c] THEN far ELSE now[c]
      BY <1>2 DEF Slot
    <2>w. Window \in Nat
      BY LimitsAssumption
    <2>4. far \in Nat
      BY ONLY <2>w, <2>2
    <2> HIDE DEF far
    <2> QED BY <1>1, <2>3, <2>4
  <1>3. CASE ~(Rpm[c] > 0 /\ Len(file.times) - k >= Rpm[c])
    <2>1. Slot(c, k) = now[c]
      BY <1>3 DEF Slot
    <2> QED BY <1>1, <2>1
  <1> QED BY <1>2, <1>3

LEMMA RecordType ==
  ASSUME TypeOK, NEW c \in Callers, NEW k \in 0 .. Len(file.times), Record(c, k)
  PROVE  /\ file' \in [day : Nat, count : Nat, times : Seq(Nat)]
         /\ reserved' \in Seq([day : Nat, slot : Nat])
  <1>1. now[c] \in Nat /\ file.times \in Seq(Nat) /\ file.count \in Nat
    BY DEF TypeOK
  <1>2. Slot(c, k) \in Nat
    BY SlotType
  <1>3. DayOf(now[c]) \in Nat
    BY <1>1, DayType
  <1>4. DayCount(now[c]) + 1 \in Nat
    BY <1>1 DEF DayCount
  <1>5. SubSeq(file.times, k + 1, Len(file.times)) \in Seq(Nat)
    BY <1>1
  <1>6. file' \in [day : Nat, count : Nat, times : Seq(Nat)]
    BY <1>2, <1>3, <1>4, <1>5 DEF Record, Written
  <1>7. [day |-> DayOf(now[c]), slot |-> Slot(c, k)] \in [day : Nat, slot : Nat]
    BY <1>2, <1>3
  <1>8. reserved' \in Seq([day : Nat, slot : Nat])
    BY <1>7 DEF Record, TypeOK
  <1> QED BY <1>6, <1>8

LEMMA TypeInit == Init => TypeOK
  BY LimitsAssumption DEF Init, TypeOK, Outcomes

LEMMA TypeStep == TypeOK /\ [Next]_vars => TypeOK'
  <1> SUFFICES ASSUME TypeOK, [Next]_vars PROVE TypeOK'
    OBVIOUS
  <1> USE LimitsAssumption
  <1>1. CASE Tick
    BY SMTT(30), <1>1 DEF Tick, TypeOK, Outcomes, scope, caller
  <1>2. CASE SetBack
    BY SMTT(30), <1>2 DEF SetBack, TypeOK, Outcomes, scope, caller, Clock
  <1>3. ASSUME NEW c \in Callers, Call(c)
        PROVE  TypeOK'
    <2>1. CASE Acquire(c)
      <3>1. requests' \in 0 .. MaxRequests
        BY <2>1 DEF Acquire, TypeOK
      <3>2. pc' \in [Callers -> {"idle", "lock", "held", "read", "wait"}]
        BY <2>1 DEF Acquire, Goto, TypeOK
      <3> QED BY <2>1, <3>1, <3>2 DEF Acquire, TypeOK, scope
    <2>2. CASE OpenFails(c)
      BY <2>2 DEF OpenFails, Ends, TypeOK, Outcomes, scope
    <2>3. CASE Lock(c)
      BY <2>3 DEF Lock, Goto, TypeOK, Outcomes
    <2>4. CASE Sample(c)
      BY <2>4, ClockType DEF Sample, Goto, TypeOK, Outcomes, scope
    <2>5. CASE Untrusted(c)
      BY <2>5 DEF Untrusted, Ends, TypeOK, Outcomes
    <2>6. CASE Exhausted(c)
      BY <2>6 DEF Exhausted, Ends, TypeOK, Outcomes
    <2>7. CASE Reserve(c)
      <3>1. PICK k \in 0 .. Len(file.times) :
                   /\ Record(c, k)
                   /\ slot' = [slot EXCEPT ![c] = Slot(c, k)]
                   /\ wake' = [wake EXCEPT ![c] = WakeAt(c, k)]
        BY <2>7 DEF Reserve
      <3>0. Slot(c, k) \in Nat /\ Slot(c, k) >= now[c]
        BY SlotType
      <3>a. uptime \in Nat /\ now[c] \in Nat
        BY DEF TypeOK
      <3>2. Slot(c, k) \in Nat /\ WakeAt(c, k) \in Nat
        BY ONLY <3>0, <3>a DEF WakeAt
      <3>3. slot' \in [Callers -> Nat] /\ wake' \in [Callers -> Nat]
        BY <3>1, <3>2 DEF TypeOK
      <3>4. /\ file' \in [day : Nat, count : Nat, times : Seq(Nat)]
            /\ reserved' \in Seq([day : Nat, slot : Nat])
        BY <3>1, RecordType
      <3> QED BY <2>7, <3>3, <3>4 DEF Reserve, Goto, TypeOK, Outcomes
    <2>8. CASE WriteFails(c)
      <3>1. /\ file' \in [day : Nat, count : Nat, times : Seq(Nat)]
            /\ reserved' \in Seq([day : Nat, slot : Nat])
        BY <2>8, RecordType DEF WriteFails, TypeOK
      <3> QED BY <2>8, <3>1 DEF WriteFails, Ends, TypeOK, Outcomes
    <2>9. CASE Acquired(c)
      BY <2>9 DEF Acquired, Ends, TypeOK, Outcomes, scope
    <2>10. CASE Interrupted(c)
      BY <2>10 DEF Interrupted, Ends, TypeOK, Outcomes, scope
    <2>11. CASE Crash(c)
      BY <2>11 DEF Crash, Ends, Unlocked, TypeOK, Outcomes
    <2> QED
      BY <1>3, <2>1, <2>2, <2>3, <2>4, <2>5, <2>6, <2>7, <2>8, <2>9, <2>10, <2>11 DEF Call
  <1>4. CASE UNCHANGED vars
    BY <1>4 DEF vars, scope, caller, TypeOK, Outcomes
  <1> QED BY <1>1, <1>2, <1>3, <1>4 DEF Next

\* The limiter's variables keep their types, for any limits, bounds and clock.
THEOREM TypeCorrect == Spec => []TypeOK
  <1>1. Init => TypeOK
    BY TypeInit
  <1>2. TypeOK /\ [Next]_vars => TypeOK'
    BY TypeStep
  <1> QED BY <1>1, <1>2, PTL DEF Spec

-----------------------------------------------------------------------------
(* The slots a[1], ..., a[n] reserved so far and the times b[1], ..., b[m] in  *)
(* the file, as a caller with rpm_limit r sees them at time t: the file is the *)
(* tail of the slots, what it forgot is a window old, and a slot that is still *)
(* to come is there because the one r before it is a window away.             *)

Remembered(n, a, m, b) ==
  m <= n /\ \A i \in 1 .. m : b[i] = a[n - m + i]

Forgotten(n, a, m, t) ==
  \A i \in 1 .. (n - m) : a[i] <= t - Window

InOrder(n, a) ==
  \A i, j \in 1 .. n : i < j => a[i] <= a[j]

Caused(n, a, t, r) ==
  \A i \in 1 .. n :
    \/ a[i] <= t
    \/ r > 0 /\ i > r /\ a[i] = a[i - r] + Window

Spaced(n, a, r) ==
  r > 0 => \A i \in 1 .. n : i + r <= n => a[i + r] >= a[i] + Window

Sound(n, a, m, b, t, r) ==
  /\ Remembered(n, a, m, b)
  /\ Forgotten(n, a, m, t)
  /\ InOrder(n, a)
  /\ Caused(n, a, t, r)
  /\ Spaced(n, a, r)

LEMMA WindowType == Window \in Nat
  BY LimitsAssumption

\* time only makes more slots past and more of the forgotten old
LEMMA SoundLater ==
  ASSUME NEW n \in Nat, NEW a \in [1 .. n -> Nat], NEW m \in Nat, NEW b,
         NEW r \in Nat, NEW t \in Nat, NEW u \in Nat, t <= u,
         Sound(n, a, m, b, t, r)
  PROVE  Sound(n, a, m, b, u, r)
  <1>1. Forgotten(n, a, m, u)
    BY WindowType DEF Sound, Forgotten, Remembered
  <1>2. Caused(n, a, u, r)
    BY DEF Sound, Caused
  <1> QED BY <1>1, <1>2 DEF Sound

\* scheduled_at, when the last j times were kept
Scheduled(m, b, j, t, r) ==
  IF r > 0 /\ j >= r /\ b[m - r + 1] + Window > t
  THEN b[m - r + 1] + Window ELSE t

\* the k oldest times are a window old
Old(b, k, t) == \A i \in 1 .. k : b[i] <= t - Window

\* s is in order, and a window after the slot r before it
Fits(n, a, m, k, t, r, s) ==
  /\ s \in Nat
  /\ \A i \in 1 .. (n - m + k) : a[i] <= t - Window
  /\ r > 0 /\ r <= n => s >= a[n + 1 - r] + Window
  /\ s = t \/ (r > 0 /\ r <= n /\ s = a[n + 1 - r] + Window)
  /\ \A i \in 1 .. n : a[i] <= s

\* the slot given at time t, after the k oldest times were dropped, is in order
\* and a window after the slot r before it
LEMMA NextSlot ==
  ASSUME NEW n \in Nat, NEW a \in [1 .. n -> Nat],
         NEW m \in Nat, NEW b \in [1 .. m -> Nat],
         NEW r \in Nat, NEW t \in Nat, NEW k \in 0 .. m, NEW s,
         Sound(n, a, m, b, t, r),
         Old(b, k, t),
         s = Scheduled(m, b, m - k, t, r)
  PROVE  Fits(n, a, m, k, t, r, s)
  <1> USE WindowType
  <1>1. m <= n /\ \A i \in 1 .. m : b[i] = a[n - m + i]
    BY DEF Sound, Remembered
  <1>2. \A i \in 1 .. (n - m + k) : a[i] <= t - Window
    <2> SUFFICES ASSUME NEW i \in 1 .. (n - m + k) PROVE a[i] <= t - Window
      OBVIOUS
    <2>1. CASE i <= n - m
      BY <1>1, <2>1 DEF Sound, Forgotten
    <2>2. CASE i > n - m
      <3>1. i - (n - m) \in 1 .. k /\ i - (n - m) \in 1 .. m
        BY <1>1, <2>2
      <3>2. b[i - (n - m)] = a[i]
        BY <1>1, <3>1
      <3> QED BY <3>1, <3>2 DEF Old
    <2> QED BY <1>1, <2>1, <2>2
  <1>3. CASE r > 0 /\ m - k >= r
    <2>1. m - r + 1 \in 1 .. m /\ r <= n
      BY <1>1, <1>3
    <2>2. b[m - r + 1] = a[n + 1 - r]
      BY <1>1, <2>1
    <2>3. s = IF a[n + 1 - r] + Window > t THEN a[n + 1 - r] + Window ELSE t
      BY <1>3, <2>2 DEF Scheduled
    <2>4. a[n + 1 - r] \in Nat
      BY <1>3, <2>1
    <2> DEFINE free == a[n + 1 - r]
    <2>f. free \in Nat /\ s = IF free + Window > t THEN free + Window ELSE t
      BY <2>3, <2>4
    <2> HIDE DEF free
    <2>g. s \in Nat /\ s >= t /\ s >= free + Window
      BY <2>f
    <2>5. s \in Nat /\ s >= t /\ s >= a[n + 1 - r] + Window
      BY <2>g DEF free
    <2>6. s = t \/ s = a[n + 1 - r] + Window
      BY <2>3
    <2>7. \A i \in 1 .. n : a[i] <= s
      <3> SUFFICES ASSUME NEW i \in 1 .. n PROVE a[i] <= s
        OBVIOUS
      <3>1. CASE a[i] <= t
        BY <2>5, <3>1
      <3>2. CASE i > r /\ a[i] = a[i - r] + Window
        <4>1. i - r \in 1 .. n /\ n + 1 - r \in 1 .. n /\ i - r < n + 1 - r
          BY <1>3, <2>1, <3>2
        <4>2. a[i - r] <= a[n + 1 - r]
          BY <4>1 DEF Sound, InOrder
        <4>3. a[i - r] \in Nat
          BY <4>1
        <4> DEFINE low == a[i - r]
                   high == a[n + 1 - r]
        <4>4. low \in Nat /\ high \in Nat /\ low <= high /\ s \in Nat /\ s >= high + Window
              /\ a[i] = low + Window
          BY <2>4, <2>5, <3>2, <4>2, <4>3
        <4> HIDE DEF low, high
        <4> QED BY <4>4
      <3> QED BY <3>1, <3>2 DEF Sound, Caused
    <2> QED BY <1>2, <1>3, <2>1, <2>5, <2>6, <2>7 DEF Fits
  <1>4. CASE ~(r > 0 /\ m - k >= r)
    <2>1. s = t
      BY <1>4 DEF Scheduled
    <2>2. ASSUME r > 0, r <= n
          PROVE  s >= a[n + 1 - r] + Window
      <3>1. n + 1 - r \in 1 .. (n - m + k) /\ n + 1 - r \in 1 .. n
        BY <1>1, <1>4, <2>2
      <3>2. a[n + 1 - r] <= t - Window /\ a[n + 1 - r] \in Nat
        BY <1>2, <3>1
      <3> QED BY SMTT(30), <2>1, <3>2
    <2>3. \A i \in 1 .. n : a[i] <= s
      <3> SUFFICES ASSUME NEW i \in 1 .. n PROVE a[i] <= s
        OBVIOUS
      <3>1. CASE a[i] <= t
        BY <2>1, <3>1
      <3>2. CASE r > 0 /\ i > r /\ a[i] = a[i - r] + Window
        <4>1. i - r \in 1 .. n /\ n + 1 - r \in 1 .. n /\ i - r < n + 1 - r /\ r <= n
          BY <3>2
        <4>2. a[i - r] <= a[n + 1 - r]
          BY <4>1 DEF Sound, InOrder
        <4>3. a[i - r] \in Nat /\ a[n + 1 - r] \in Nat
          BY <4>1
        <4>4. s >= a[n + 1 - r] + Window
          BY <2>2, <3>2, <4>1
        <4> QED BY SMTT(30), <2>1, <3>2, <4>2, <4>3, <4>4
      <3> QED BY <3>1, <3>2 DEF Sound, Caused
    <2> QED BY <1>2, <2>1, <2>2, <2>3 DEF Fits
  <1> QED BY <1>3, <1>4

Grown(n, a, a2, s) ==
  (\A i \in 1 .. n : a2[i] = a[i]) /\ a2[n + 1] = s

Shifted(m, b, k, b2, s) ==
  (\A i \in 1 .. (m - k) : b2[i] = b[k + i]) /\ b2[m - k + 1] = s

\* so the slots and the file stay as they should be when both are extended
LEMMA SoundGrows ==
  ASSUME NEW n \in Nat, NEW a \in [1 .. n -> Nat],
         NEW m \in Nat, NEW b \in [1 .. m -> Nat],
         NEW r \in Nat, NEW t \in Nat, NEW k \in 0 .. m, NEW s,
         Sound(n, a, m, b, t, r),
         Old(b, k, t),
         s = Scheduled(m, b, m - k, t, r),
         NEW a2 \in [1 .. n + 1 -> Nat], NEW b2 \in [1 .. m - k + 1 -> Nat],
         Grown(n, a, a2, s), Shifted(m, b, k, b2, s)
  PROVE  Sound(n + 1, a2, m - k + 1, b2, t, r)
  <1> USE WindowType
  <1>0. /\ \A i \in 1 .. n : a2[i] = a[i]
        /\ a2[n + 1] = s
        /\ \A i \in 1 .. (m - k) : b2[i] = b[k + i]
        /\ b2[m - k + 1] = s
    BY DEF Grown, Shifted
  <1>1. /\ s \in Nat
        /\ \A i \in 1 .. (n - m + k) : a[i] <= t - Window
        /\ r > 0 /\ r <= n => s >= a[n + 1 - r] + Window
        /\ s = t \/ (r > 0 /\ r <= n /\ s = a[n + 1 - r] + Window)
        /\ \A i \in 1 .. n : a[i] <= s
    <2>1. Fits(n, a, m, k, t, r, s)
      BY NextSlot
    <2> QED BY <2>1 DEF Fits
  <1>2. m <= n /\ \A i \in 1 .. m : b[i] = a[n - m + i]
    BY DEF Sound, Remembered
  <1>3. Remembered(n + 1, a2, m - k + 1, b2)
    <2> SUFFICES ASSUME NEW i \in 1 .. (m - k + 1)
                 PROVE  b2[i] = a2[(n + 1) - (m - k + 1) + i]
      BY <1>0, <1>2 DEF Remembered
    <2>1. CASE i <= m - k
      <3>1. k + i \in 1 .. m /\ n - m + (k + i) \in 1 .. n
            /\ (n + 1) - (m - k + 1) + i = n - m + (k + i)
        BY <1>0, <1>2, <2>1
      <3>2. b2[i] = b[k + i]
        BY <1>0, <2>1
      <3>3. b[k + i] = a[n - m + (k + i)]
        BY <1>0, <1>2, <3>1
      <3>4. a2[n - m + (k + i)] = a[n - m + (k + i)]
        BY <1>0, <3>1
      <3> QED BY <1>0, <3>1, <3>2, <3>3, <3>4
    <2>2. CASE i = m - k + 1
      BY <1>0, <2>2
    <2> QED BY <1>0, <2>1, <2>2
  <1>4. Forgotten(n + 1, a2, m - k + 1, t)
    <2> SUFFICES ASSUME NEW i \in 1 .. ((n + 1) - (m - k + 1))
                 PROVE  a2[i] <= t - Window
      BY DEF Forgotten
    <2>1. i \in 1 .. (n - m + k) /\ i \in 1 .. n
      BY <1>0, <1>2
    <2> QED BY <1>0, <1>1, <2>1
  <1>5. InOrder(n + 1, a2)
    <2> SUFFICES ASSUME NEW i \in 1 .. n + 1, NEW j \in 1 .. n + 1, i < j
                 PROVE  a2[i] <= a2[j]
      BY DEF InOrder
    <2>1. CASE j <= n
      <3>1. i \in 1 .. n /\ j \in 1 .. n
        BY <1>0, <2>1
      <3> QED BY <1>0, <3>1 DEF Sound, InOrder
    <2>2. CASE j = n + 1
      BY <1>0, <1>1, <2>2
    <2> QED BY <1>0, <2>1, <2>2
  <1>6. Caused(n + 1, a2, t, r)
    <2> SUFFICES ASSUME NEW i \in 1 .. n + 1
                 PROVE  \/ a2[i] <= t
                        \/ r > 0 /\ i > r /\ a2[i] = a2[i - r] + Window
      BY DEF Caused
    <2>1. CASE i <= n
      <3>1. i \in 1 .. n /\ a2[i] = a[i]
        BY <1>0, <2>1
      <3>2. a[i] <= t \/ (r > 0 /\ i > r /\ a[i] = a[i - r] + Window)
        BY <1>0, <3>1 DEF Sound, Caused
      <3>3. ASSUME r > 0, i > r PROVE a2[i - r] = a[i - r]
        BY <1>0, <3>1, <3>3
      <3> QED BY <1>0, <3>1, <3>2, <3>3
    <2>2. CASE i = n + 1
      <3>1. CASE s = t
        BY <1>0, <2>2, <3>1
      <3>2. CASE r > 0 /\ r <= n /\ s = a[n + 1 - r] + Window
        <4>1. n + 1 - r \in 1 .. n
          BY <1>0, <3>2
        <4>2. a2[n + 1 - r] = a[n + 1 - r]
          BY <1>0, <4>1
        <4> QED BY <1>0, <2>2, <3>2, <4>2
      <3> QED BY <1>0, <1>1, <3>1, <3>2
    <2> QED BY <1>0, <2>1, <2>2
  <1>7. Spaced(n + 1, a2, r)
    <2> SUFFICES ASSUME r > 0, NEW i \in 1 .. n + 1, i + r <= n + 1
                 PROVE  a2[i + r] >= a2[i] + Window
      BY DEF Spaced
    <2>1. i \in 1 .. n /\ a2[i] = a[i]
      BY <1>0
    <2>2. CASE i + r <= n
      <3>1. i + r \in 1 .. n
        BY <1>0, <2>2
      <3>2. a[i + r] >= a[i] + Window
        BY <1>0, <2>1, <2>2 DEF Sound, Spaced
      <3> QED BY <1>0, <2>1, <3>1, <3>2
    <2>3. CASE i + r = n + 1
      <3>1. i = n + 1 - r /\ r <= n
        BY <1>0, <2>1, <2>3
      <3> QED BY <1>0, <1>1, <2>1, <2>3, <3>1
    <2> QED BY <1>0, <2>2, <2>3
  <1> QED BY <1>0, <1>3, <1>4, <1>5, <1>6, <1>7 DEF Sound

-----------------------------------------------------------------------------
(* The same, of the limiter's variables *)

SlotsOf(res) == [i \in 1 .. Len(res) |-> res[i].slot]

Slots == SlotsOf(reserved)

\* what a caller that samples the clock at t may rely on
Known(t) ==
  /\ \A c \in Callers :
       Sound(Len(reserved), Slots, Len(file.times), file.times, t, Rpm[c])
  /\ file.day <= DayOf(t)

Exclusive == \A c \in Callers : pc[c] \in {"held", "read"} => lock = c

Informed == \A c \in Callers : pc[c] = "read" => now[c] <= Clock /\ Known(now[c])

OnDay(res, d) == {j \in DOMAIN res : res[j].day = d}

Counted ==
  /\ \A j \in DOMAIN reserved : reserved[j].day <= file.day
  /\ file.count = Cardinality(OnDay(reserved, file.day))

\* The inductive invariant, while the clock was not set back: the holder of
\* the lock knows the file up to the time it sampled, the clock is past what
\* the file forgot, and the day's count is exact.
IInv ==
  /\ TypeOK
  /\ behind = 0
  /\ Exclusive
  /\ Known(Clock)
  /\ Informed
  /\ Counted
  /\ DailyBudget

LEMMA Elements ==
  ASSUME NEW S, NEW q \in Seq(S)
  PROVE  \A i \in 1 .. Len(q) : q[i] \in S
  OBVIOUS

LEMMA SlotsOfType ==
  ASSUME NEW res \in Seq([day : Nat, slot : Nat])
  PROVE  SlotsOf(res) \in [1 .. Len(res) -> Nat]
  <1>1. \A i \in 1 .. Len(res) : res[i] \in [day : Nat, slot : Nat]
    BY Elements
  <1> QED BY <1>1 DEF SlotsOf

LEMMA TimesType ==
  ASSUME NEW times \in Seq(Nat)
  PROVE  Len(times) \in Nat /\ times \in [1 .. Len(times) -> Nat]
  OBVIOUS

LEMMA SlotsType ==
  ASSUME TypeOK
  PROVE  /\ Len(reserved) \in Nat /\ Slots \in [1 .. Len(reserved) -> Nat]
         /\ Len(file.times) \in Nat /\ file.times \in [1 .. Len(file.times) -> Nat]
  <1>1. reserved \in Seq([day : Nat, slot : Nat]) /\ file.times \in Seq(Nat)
    BY DEF TypeOK
  <1>2. Len(reserved) \in Nat
    BY <1>1
  <1> QED BY <1>1, <1>2, SlotsOfType, TimesType DEF Slots

LEMMA KnownLater ==
  ASSUME TypeOK, NEW t \in Nat, NEW u \in Nat, t <= u, Known(t)
  PROVE  Known(u)
  <1>1. ASSUME NEW c \in Callers
        PROVE  Sound(Len(reserved), Slots, Len(file.times), file.times, u, Rpm[c])
    <2>1. Rpm[c] \in Nat
      BY LimitsAssumption
    <2>2. Sound(Len(reserved), Slots, Len(file.times), file.times, t, Rpm[c])
      BY DEF Known
    <2> QED BY <2>1, <2>2, SlotsType, SoundLater
  <1>2. file.day <= DayOf(u)
    <2>1. file.day \in Nat /\ DayOf(t) \in Nat /\ DayOf(u) \in Nat
      BY DayType DEF TypeOK
    <2> QED BY <2>1, DayMonotone DEF Known
  <1> QED BY <1>1, <1>2 DEF Known

LEMMA NoDelay ==
  ASSUME NEW x \in Nat, NEW y, y = 0
  PROVE  x - y = x
  OBVIOUS

\* steps that leave the scope's file alone
LEMMA ScopeUnchanged ==
  ASSUME IInv, TypeOK', file' = file, reserved' = reserved, behind' = behind,
         uptime' >= uptime, Exclusive',
         \A c \in Callers : pc'[c] = "read" =>
           now'[c] = Clock \/ (pc[c] = "read" /\ now'[c] = now[c])
  PROVE  IInv'
  <1>0. uptime \in Nat /\ uptime' \in Nat /\ behind = 0 /\ behind' = 0
    BY DEF IInv, TypeOK
  <1>c. Clock = uptime /\ Clock' = uptime'
    BY <1>0, NoDelay DEF Clock
  <1>1. Clock \in Nat /\ Clock' \in Nat /\ Clock <= Clock' /\ behind' = 0
    BY <1>0, <1>c
  <1>2. \A t \in Nat : Known(t) => Known(t)'
    BY DEF Known, Slots, SlotsOf
  <1>3. Known(Clock)'
    <2>1. Known(Clock')
      BY <1>1, KnownLater DEF IInv
    <2> QED BY <2>1 DEF Known, Slots, SlotsOf, Clock
  <1>4. Informed'
    <2> SUFFICES ASSUME NEW c \in Callers, pc'[c] = "read"
                 PROVE  now'[c] <= Clock' /\ Known(now[c])'
      BY DEF Informed
    <2>0. now'[c] \in Nat
      BY DEF TypeOK
    <2>1. now'[c] <= Clock /\ Known(now'[c])
      <3>1. CASE now'[c] = Clock
        BY <1>1, <3>1 DEF IInv
      <3>2. CASE pc[c] = "read" /\ now'[c] = now[c]
        BY <3>2 DEF IInv, Informed
      <3> QED BY <3>1, <3>2
    <2>2. Known(now[c])'
      BY <2>0, <2>1 DEF Known, Slots, SlotsOf
    <2> QED BY <1>1, <2>0, <2>1, <2>2
  <1>5. Counted' /\ DailyBudget'
    BY DEF IInv, Counted, OnDay, DailyBudget
  <1> QED BY <1>1, <1>3, <1>4, <1>5 DEF IInv

LEMMA ReservedType ==
  ASSUME TypeOK
  PROVE  /\ Len(reserved) \in Nat /\ DOMAIN reserved = 1 .. Len(reserved)
         /\ \A i \in 1 .. Len(reserved) : reserved[i].day \in Nat
  <1>1. reserved \in Seq([day : Nat, slot : Nat])
    BY DEF TypeOK
  <1>2. \A i \in 1 .. Len(reserved) : reserved[i] \in [day : Nat, slot : Nat]
    BY <1>1, Elements
  <1>3. Len(reserved) \in Nat /\ DOMAIN reserved = 1 .. Len(reserved)
    BY <1>1
  <1> QED BY <1>2, <1>3

\* the state file and the list of all slots after a slot was recorded
LEMMA Recorded ==
  ASSUME TypeOK, NEW c \in Callers, NEW k \in 0 .. Len(file.times), Record(c, k)
  PROVE  /\ Len(reserved') = Len(reserved) + 1
         /\ Len(file'.times) = Len(file.times) - k + 1
         /\ \A i \in 1 .. Len(reserved) : reserved'[i] = reserved[i]
         /\ DOMAIN reserved' = 1 .. Len(reserved) + 1
         /\ reserved'[Len(reserved) + 1].day = DayOf(now[c])
         /\ reserved'[Len(reserved) + 1].slot = Slot(c, k)
         /\ \A i \in 1 .. (Len(file.times) - k) : file'.times[i] = file.times[k + i]
         /\ file'.times[Len(file.times) - k + 1] = Slot(c, k)
         /\ file'.day = DayOf(now[c])
         /\ file'.count = DayCount(now[c]) + 1
  <1>1. reserved \in Seq([day : Nat, slot : Nat]) /\ file.times \in Seq(Nat)
    BY DEF TypeOK
  <1>2. SubSeq(file.times, k + 1, Len(file.times)) \in Seq(Nat)
    BY <1>1
  <1>3. Len(SubSeq(file.times, k + 1, Len(file.times))) = Len(file.times) - k
    BY <1>1
  <1>4. \A i \in 1 .. (Len(file.times) - k) :
          SubSeq(file.times, k + 1, Len(file.times))[i] = file.times[k + i]
    BY <1>1
  <1>5. Slot(c, k) \in Nat
    BY SlotType
  <1>6. file'.times = Append(SubSeq(file.times, k + 1, Len(file.times)), Slot(c, k))
    BY DEF Record, Written
  <1>7. /\ Len(file'.times) = Len(file.times) - k + 1
        /\ file'.times[Len(file.times) - k + 1] = Slot(c, k)
        /\ \A i \in 1 .. (Len(file.times) - k) : file'.times[i] = file.times[k + i]
    BY <1>2, <1>3, <1>4, <1>5, <1>6
  <1>8. reserved' = Append(reserved, [day |-> DayOf(now[c]), slot |-> Slot(c, k)])
    BY DEF Record
  <1>9. /\ Len(reserved') = Len(reserved) + 1
        /\ \A i \in 1 .. Len(reserved) : reserved'[i] = reserved[i]
        /\ reserved'[Len(reserved) + 1] = [day |-> DayOf(now[c]), slot |-> Slot(c, k)]
    BY <1>1, <1>8
  <1>10. file'.day = DayOf(now[c]) /\ file'.count = DayCount(now[c]) + 1
    BY DEF Record, Written
  <1>11. DOMAIN reserved' = 1 .. Len(reserved) + 1
    BY <1>1, <1>8
  <1>12. /\ reserved'[Len(reserved) + 1].day = DayOf(now[c])
         /\ reserved'[Len(reserved) + 1].slot = Slot(c, k)
    BY <1>9
  <1> QED BY <1>7, <1>9, <1>10, <1>11, <1>12

\* the new slot keeps what callers know
LEMMA RecordKnown ==
  ASSUME TypeOK, TypeOK', NEW c \in Callers, NEW k \in 0 .. Len(file.times),
         \A d \in Callers : Rpm[d] = Rpm[c],
         Known(now[c]), Expired(k, now[c]), Record(c, k),
         NEW t \in Nat, now[c] <= t
  PROVE  /\ \A d \in Callers :
               Sound(Len(reserved'), Slots', Len(file'.times), file'.times, t, Rpm[d])
         /\ file'.day <= DayOf(t)
  <1> DEFINE n == Len(reserved)
             m == Len(file.times)
             r == Rpm[c]
             s == Slot(c, k)
  <1>1. n \in Nat /\ Slots \in [1 .. n -> Nat] /\ m \in Nat
        /\ file.times \in [1 .. m -> Nat]
    BY SlotsType
  <1>2. r \in Nat /\ now[c] \in Nat
    BY LimitsAssumption DEF TypeOK
  <1>3. Sound(n, Slots, m, file.times, now[c], r)
    BY DEF Known
  <1>4. Old(file.times, k, now[c])
    BY DEF Expired, Old
  <1>5. s = Scheduled(m, file.times, m - k, now[c], r)
    BY DEF Slot, Scheduled
  <1>6. Len(reserved') = n + 1 /\ Len(file'.times) = m - k + 1
    BY Recorded
  <1>7. Slots' \in [1 .. n + 1 -> Nat] /\ file'.times \in [1 .. m - k + 1 -> Nat]
    <2>1. reserved' \in Seq([day : Nat, slot : Nat]) /\ file'.times \in Seq(Nat)
      BY RecordType
    <2> QED BY <1>6, <2>1, SlotsOfType, TimesType DEF Slots
  <1>8. Slots' = [i \in 1 .. n + 1 |-> reserved'[i].slot]
    BY <1>6 DEF Slots, SlotsOf
  <1>9. Grown(n, Slots, Slots', s)
    <2>1. \A i \in 1 .. n : Slots'[i] = Slots[i]
      <3> SUFFICES ASSUME NEW i \in 1 .. n PROVE Slots'[i] = Slots[i]
        OBVIOUS
      <3>1. reserved'[i] = reserved[i]
        BY Recorded
      <3>2. i \in 1 .. n + 1
        BY <1>1
      <3>3. Slots'[i] = reserved'[i].slot
        BY <1>8, <3>2
      <3>4. Slots[i] = reserved[i].slot
        BY DEF Slots, SlotsOf
      <3> QED BY <3>1, <3>3, <3>4
    <2>2. Slots'[n + 1] = s
      <3>1. n + 1 \in 1 .. n + 1
        BY <1>1
      <3>2. Slots'[n + 1] = reserved'[n + 1].slot
        BY <1>8, <3>1
      <3>3. reserved'[n + 1].slot = s
        BY Recorded
      <3> QED BY <3>2, <3>3
    <2> QED BY <2>1, <2>2 DEF Grown
  <1>10. Shifted(m, file.times, k, file'.times, s)
    BY Recorded DEF Shifted
  <1>11. Sound(n + 1, Slots', m - k + 1, file'.times, now[c], r)
    <2> HIDE DEF n, m, r, s
    <2>1. k \in 0 .. m
      BY DEF m
    <2> QED BY <1>1, <1>2, <1>3, <1>4, <1>5, <1>7, <1>9, <1>10, <2>1, SoundGrows
  <1>12. Sound(Len(reserved'), Slots', Len(file'.times), file'.times, t, r)
    <2>1. n + 1 \in Nat /\ m - k + 1 \in Nat
      BY <1>1
    <2>2. Sound(n + 1, Slots', m - k + 1, file'.times, t, r)
      BY <1>2, <1>7, <1>11, <2>1, SoundLater
    <2> QED BY <1>6, <2>2
  <1>13. file'.day <= DayOf(t)
    BY <1>2, Recorded, DayMonotone
  <1> QED BY <1>12, <1>13

\* a slot recorded on a day is one more of that day, and of no other
LEMMA OnDayGrows ==
  ASSUME TypeOK, NEW c \in Callers, NEW k \in 0 .. Len(file.times), Record(c, k)
  PROVE  \A d \in Nat :
           /\ IsFiniteSet(OnDay(reserved, d)) /\ Cardinality(OnDay(reserved, d)) \in Nat
           /\ d # DayOf(now[c]) => OnDay(reserved', d) = OnDay(reserved, d)
           /\ d = DayOf(now[c]) => Cardinality(OnDay(reserved', d)) = Cardinality(OnDay(reserved, d)) + 1
  <1> TAKE d \in Nat
  <1> DEFINE n == Len(reserved)
  <1>1. n \in Nat /\ DOMAIN reserved = 1 .. n
    BY ReservedType
  <1>2. DOMAIN reserved' = 1 .. n + 1
    BY Recorded
  <1>3. IsFiniteSet(OnDay(reserved, d)) /\ Cardinality(OnDay(reserved, d)) \in Nat
    <2>1. IsFiniteSet(1 .. n) /\ OnDay(reserved, d) \subseteq 1 .. n
      BY <1>1, FS_Interval DEF OnDay
    <2> QED BY <2>1, FS_Subset, FS_CardinalityType
  <1>4. n + 1 \notin OnDay(reserved, d)
    BY <1>1 DEF OnDay
  <1>5. reserved'[n + 1].day = DayOf(now[c])
    BY Recorded
  <1>6. \A i \in 1 .. n : reserved'[i] = reserved[i]
    BY Recorded
  <1> HIDE DEF n
  <1>7. ASSUME d # DayOf(now[c])
        PROVE  OnDay(reserved', d) = OnDay(reserved, d)
    BY <1>1, <1>2, <1>5, <1>6, <1>7 DEF OnDay
  <1>8. ASSUME d = DayOf(now[c])
        PROVE  Cardinality(OnDay(reserved', d)) = Cardinality(OnDay(reserved, d)) + 1
    <2>1. OnDay(reserved', d) = OnDay(reserved, d) \cup {n + 1}
      BY <1>1, <1>2, <1>5, <1>6, <1>8 DEF OnDay
    <2> QED BY <1>3, <1>4, <2>1, FS_AddElement
  <1> QED BY <1>3, <1>7, <1>8

\* the day's count stays exact and within the budget
LEMMA RecordCounted ==
  ASSUME TypeOK, TypeOK', NEW c \in Callers, NEW k \in 0 .. Len(file.times),
         \A d \in Callers : Rpd[d] = Rpd[c],
         behind = 0, Known(now[c]), Counted, DailyBudget, ~Spent(c), Record(c, k)
  PROVE  Counted' /\ DailyBudget'
  <1> DEFINE today == DayOf(now[c])
             n == Len(reserved)
  <1>1. now[c] \in Nat /\ today \in Nat /\ file.day \in Nat /\ file.day <= today
        /\ file.count \in Nat /\ Rpd[c] \in Nat
    BY LimitsAssumption, DayType DEF TypeOK, Known
  <1>2. n \in Nat /\ DOMAIN reserved = 1 .. n /\ DOMAIN reserved' = 1 .. n + 1
    BY Recorded, ReservedType
  <1>3. file'.day = today /\ file'.count = DayCount(now[c]) + 1
    BY Recorded
  <1>4. /\ \A i \in 1 .. n : reserved'[i] = reserved[i]
        /\ reserved'[n + 1].day = today
    BY Recorded
  <1>5. \A i \in 1 .. n : reserved[i].day \in Nat /\ reserved[i].day <= file.day
    BY <1>2, ReservedType DEF Counted
  <1>6. DayCount(now[c]) = Cardinality(OnDay(reserved, today))
    <2>1. CASE file.day = today
      BY <2>1 DEF DayCount, Counted
    <2>2. CASE file.day # today
      <3>1. \A i \in 1 .. n : reserved[i].day # today
        BY <1>1, <1>5, <2>2
      <3>2. OnDay(reserved, today) = {}
        BY <1>2, <3>1 DEF OnDay
      <3> QED BY <2>2, <3>2, FS_EmptySet DEF DayCount
    <2> QED BY <2>1, <2>2
  <1>7. Cardinality(OnDay(reserved', today)) = DayCount(now[c]) + 1
    BY <1>1, <1>6, OnDayGrows
  <1>8. Counted'
    <2>1. \A j \in DOMAIN reserved' : reserved'[j].day <= file'.day
      <3> SUFFICES ASSUME NEW j \in 1 .. n + 1 PROVE reserved'[j].day <= today
        BY <1>2, <1>3
      <3>1. CASE j = n + 1
        BY <1>1, <1>4, <3>1
      <3>2. CASE j \in 1 .. n
        BY SMTT(30), <1>1, <1>4, <1>5, <3>2
      <3> QED BY <1>2, <3>1, <3>2
    <2>2. file'.count = Cardinality(OnDay(reserved', file'.day))
      <3>1. OnDay(reserved', file'.day) = OnDay(reserved', today)
        BY <1>3
      <3> QED BY <1>3, <1>7, <3>1
    <2> QED BY <2>1, <2>2 DEF Counted, OnDay
  <1>9. DailyBudget'
    <2> SUFFICES ASSUME NEW e \in Callers, Rpd[e] > 0, NEW i \in 1 .. n + 1
                 PROVE  Cardinality(OnDay(reserved', reserved'[i].day)) <= Rpd[e]
      BY <1>2 DEF DailyBudget, OnDay
    <2>0. Rpd[e] = Rpd[c] /\ Rpd[c] > 0
      OBVIOUS
    <2>1. CASE reserved'[i].day = today
      <3>1. DayCount(now[c]) < Rpd[c]
        BY <1>1, <2>0 DEF Spent, DayCount
      <3>2. Cardinality(OnDay(reserved', reserved'[i].day)) = DayCount(now[c]) + 1
        BY <1>7, <2>1 DEF OnDay
      <3> QED BY <1>1, <2>0, <3>1, <3>2 DEF DayCount
    <2>2. CASE reserved'[i].day # today
      <3>1. i \in 1 .. n /\ reserved'[i] = reserved[i]
        BY <1>2, <1>4, <2>2
      <3>2. OnDay(reserved', reserved[i].day) = OnDay(reserved, reserved[i].day)
        BY <1>5, <2>2, <3>1, OnDayGrows
      <3>3. Cardinality(OnDay(reserved, reserved[i].day)) <= Rpd[e]
        BY <1>2, <3>1 DEF DailyBudget, OnDay
      <3> QED BY <3>1, <3>2, <3>3 DEF OnDay
    <2> QED BY <2>1, <2>2
  <1> QED BY <1>8, <1>9

\* a step that records a slot and gives the lock back
LEMMA RecordStep ==
  ASSUME IInv, TypeOK', Uniform, NEW c \in Callers, NEW k \in 0 .. Len(file.times),
         Admitted(c), Expired(k, now[c]), Record(c, k),
         UNCHANGED <<uptime, behind>>,
         \A d \in Callers \ {c} : pc'[d] = pc[d],
         pc'[c] \notin {"held", "read"}
  PROVE  IInv'
  <1>1. /\ TypeOK /\ behind' = 0 /\ Clock' = Clock /\ Clock \in Nat
        /\ pc[c] = "read" /\ now[c] \in Nat
    BY ClockType DEF IInv, Admitted, TypeOK, Clock
  <1>2. lock = c /\ now[c] <= Clock /\ Known(now[c])
    BY <1>1 DEF IInv, Exclusive, Informed
  <1>3. \A d \in Callers : pc'[d] \notin {"held", "read"}
    BY <1>2 DEF IInv, Exclusive
  <1>4. Known(Clock)'
    <2>1. \A d \in Callers : Rpm[d] = Rpm[c]
      BY DEF Uniform
    <2>2. /\ \A d \in Callers :
               Sound(Len(reserved'), Slots', Len(file'.times), file'.times, Clock, Rpm[d])
          /\ file'.day <= DayOf(Clock)
      BY <1>1, <1>2, <2>1, RecordKnown
    <2> QED BY <1>1, <2>2 DEF Known
  <1>5. Counted' /\ DailyBudget'
    <2>1. \A d \in Callers : Rpd[d] = Rpd[c]
      BY DEF Uniform
    <2>2. behind = 0 /\ Counted /\ DailyBudget /\ ~Spent(c)
      BY DEF IInv, Admitted
    <2> QED BY <1>1, <1>2, <2>1, <2>2, RecordCounted
  <1> QED BY <1>1, <1>3, <1>4, <1>5 DEF IInv, Exclusive, Informed

LEMMA InvInit == Init => IInv
  <1> SUFFICES ASSUME Init PROVE IInv
    OBVIOUS
  <1>1. TypeOK
    BY TypeInit
  <1>2. behind = 0 /\ Exclusive /\ Informed
    BY DEF Init, Exclusive, Informed
  <1>3. Known(Clock)
    <2>1. reserved = <<>> /\ file.times = <<>> /\ file.day = 0 /\ Clock \in Nat
      BY <1>1, ClockType DEF Init
    <2>2. Len(reserved) = 0 /\ Len(file.times) = 0
      BY <2>1
    <2>3. ASSUME NEW c \in Callers
          PROVE  Sound(Len(reserved), Slots, Len(file.times), file.times, Clock, Rpm[c])
      <3>1. Rpm[c] \in Nat
        BY LimitsAssumption
      <3> QED BY <2>2, <3>1 DEF Sound, Remembered, Forgotten, InOrder, Caused, Spaced
    <2>4. DayOf(Clock) \in Nat
      BY <2>1, DayType
    <2> QED BY <2>1, <2>3, <2>4 DEF Known
  <1>4. Counted
    <2>1. reserved = <<>> /\ file.count = 0
      BY DEF Init
    <2>2. DOMAIN reserved = {}
      BY <2>1
    <2>3. OnDay(reserved, file.day) = {}
      BY <2>2 DEF OnDay
    <2> QED BY <2>1, <2>2, <2>3, FS_EmptySet DEF Counted
  <1>5. DailyBudget
    <2>1. reserved = <<>>
      BY DEF Init
    <2>2. DOMAIN reserved = {}
      BY <2>1
    <2> QED BY <2>2 DEF DailyBudget
  <1> QED BY <1>1, <1>2, <1>3, <1>4, <1>5 DEF IInv

LEMMA InvStep ==
  ASSUME Uniform, IInv, [Next]_vars, behind' = 0
  PROVE  IInv'
  <1>1. TypeOK /\ TypeOK'
    BY TypeStep DEF IInv
  <1>2. Exclusive /\ uptime \in Nat
    BY <1>1 DEF IInv, TypeOK
  <1>3. CASE Tick
    <2>1. Exclusive'
      BY <1>2, <1>3 DEF Tick, Exclusive, scope, caller
    <2> QED BY <1>1, <1>2, <1>3, <2>1, ScopeUnchanged DEF Tick, scope, caller
  <1>4. CASE SetBack
    BY <1>2, <1>4 DEF SetBack, IInv
  <1>5. ASSUME NEW c \in Callers, Call(c)
        PROVE  IInv'
    <2> USE DEF scope, caller, Ends, Goto
    <2>1. CASE Acquire(c) \/ OpenFails(c) \/ Acquired(c) \/ Interrupted(c)
      <3>1. Exclusive'
        BY <1>1, <1>2, <2>1 DEF Acquire, OpenFails, Acquired, Interrupted, Exclusive, TypeOK
      <3>2. /\ UNCHANGED <<uptime, behind, file, reserved>>
            /\ \A d \in Callers : pc'[d] = "read" => pc[d] = "read" /\ now'[d] = now[d]
        BY <1>1, <2>1 DEF Acquire, OpenFails, Acquired, Interrupted, TypeOK
      <3> QED BY <1>1, <1>2, <3>1, <3>2, ScopeUnchanged
    <2>2. CASE Lock(c)
      <3>1. Exclusive'
        BY <1>1, <1>2, <2>2, LimitsAssumption DEF Lock, Exclusive, TypeOK
      <3>2. /\ UNCHANGED <<uptime, behind, file, reserved>>
            /\ \A d \in Callers : pc'[d] = "read" => pc[d] = "read" /\ now'[d] = now[d]
        BY <1>1, <2>2 DEF Lock, TypeOK
      <3> QED BY <1>1, <1>2, <3>1, <3>2, ScopeUnchanged
    <2>3. CASE Sample(c)
      <3>1. Exclusive'
        BY <1>1, <1>2, <2>3 DEF Sample, Exclusive, TypeOK
      <3>2. /\ UNCHANGED <<uptime, behind, file, reserved>>
            /\ \A d \in Callers : pc'[d] = "read" =>
                 now'[d] = Clock \/ (pc[d] = "read" /\ now'[d] = now[d])
        BY <1>1, <2>3 DEF Sample, TypeOK
      <3> QED BY <1>1, <1>2, <3>1, <3>2, ScopeUnchanged
    <2>4. CASE Untrusted(c) \/ Exhausted(c) \/ (WriteFails(c) /\ UNCHANGED <<file, reserved>>)
      <3>1. Exclusive'
        BY <1>1, <1>2, <2>4 DEF Untrusted, Exhausted, WriteFails, Admitted, Exclusive, TypeOK
      <3>2. /\ UNCHANGED <<uptime, behind, file, reserved>>
            /\ \A d \in Callers : pc'[d] = "read" => pc[d] = "read" /\ now'[d] = now[d]
        BY <1>1, <2>4 DEF Untrusted, Exhausted, WriteFails, TypeOK
      <3> QED BY <1>1, <1>2, <3>1, <3>2, ScopeUnchanged
    <2>5. CASE Crash(c)
      <3>1. Exclusive'
        BY <1>1, <1>2, <2>5 DEF Crash, Unlocked, Exclusive, TypeOK
      <3>2. /\ UNCHANGED <<uptime, behind, file, reserved>>
            /\ \A d \in Callers : pc'[d] = "read" => pc[d] = "read" /\ now'[d] = now[d]
        BY <1>1, <2>5 DEF Crash, TypeOK
      <3> QED BY <1>1, <1>2, <3>1, <3>2, ScopeUnchanged
    <2>6. CASE Reserve(c)
      <3>1. PICK k \in 0 .. Len(file.times) : Expired(k, now[c]) /\ Record(c, k)
        BY <2>6 DEF Reserve
      <3>2. /\ Admitted(c) /\ UNCHANGED <<uptime, behind>>
            /\ \A d \in Callers \ {c} : pc'[d] = pc[d]
            /\ pc'[c] \notin {"held", "read"}
        BY <1>1, <2>6 DEF Reserve, TypeOK
      <3> QED BY <1>1, <3>1, <3>2, RecordStep
    <2>7. ASSUME WriteFails(c), ~UNCHANGED <<file, reserved>>
          PROVE  IInv'
      <3>1. PICK k \in 0 .. Len(file.times) : Expired(k, now[c]) /\ Record(c, k)
        BY <2>7 DEF WriteFails
      <3>2. /\ Admitted(c) /\ UNCHANGED <<uptime, behind>>
            /\ \A d \in Callers \ {c} : pc'[d] = pc[d]
            /\ pc'[c] \notin {"held", "read"}
        BY <1>1, <2>7 DEF WriteFails, TypeOK
      <3> QED BY <1>1, <3>1, <3>2, RecordStep
    <2> QED
      BY <1>5, <2>1, <2>2, <2>3, <2>4, <2>5, <2>6, <2>7 DEF Call
  <1>6. CASE UNCHANGED vars
    <2>1. Exclusive'
      BY <1>2, <1>6 DEF vars, Exclusive, scope, caller
    <2> QED BY <1>1, <1>2, <1>6, <2>1, ScopeUnchanged DEF vars, scope, caller
  <1> QED BY <1>3, <1>4, <1>5, <1>6 DEF Next

\* what the invariant says of the slots and the file
LEMMA InvImplies ==
  ASSUME IInv
  PROVE  RollingWindow /\ OwnStateReadable /\ DailyBudget
  <1>1. TypeOK /\ DOMAIN reserved = 1 .. Len(reserved) /\ Len(reserved) \in Nat
    BY ReservedType DEF IInv
  <1>2. \A i \in 1 .. Len(reserved) : Slots[i] = reserved[i].slot
    BY DEF Slots, SlotsOf
  <1>3. RollingWindow
    <2> SUFFICES ASSUME NEW c \in Callers, Rpm[c] > 0, NEW i \in 1 .. Len(reserved),
                        i + Rpm[c] \in 1 .. Len(reserved)
                 PROVE  reserved[i + Rpm[c]].slot >= reserved[i].slot + Window
      BY <1>1 DEF RollingWindow
    <2>1. Spaced(Len(reserved), Slots, Rpm[c])
      BY DEF IInv, Known, Sound
    <2>2. Slots[i + Rpm[c]] >= Slots[i] + Window
      BY <1>1, <2>1 DEF Spaced
    <2> QED BY <1>2, <2>2
  <1>4. OwnStateReadable
    <2>1. file.times \in Seq(Nat)
      BY <1>1 DEF TypeOK
    <2>2. DOMAIN file.times = 1 .. Len(file.times) /\ Len(file.times) \in Nat
      BY <2>1
    <2> SUFFICES ASSUME NEW i \in 1 .. Len(file.times), NEW j \in 1 .. Len(file.times),
                        i < j
                 PROVE  file.times[i] <= file.times[j]
      BY <2>2 DEF OwnStateReadable, Trusted, Sorted
    <2>3. PICK c \in Callers : TRUE
      BY LimitsAssumption
    <2> DEFINE n == Len(reserved)
               m == Len(file.times)
    <2>4. /\ m <= n
          /\ \A h \in 1 .. m : file.times[h] = Slots[n - m + h]
          /\ \A g, h \in 1 .. n : g < h => Slots[g] <= Slots[h]
      BY <2>3 DEF IInv, Known, Sound, Remembered, InOrder
    <2>5. n \in Nat /\ m \in Nat /\ m <= n /\ i \in 1 .. m /\ j \in 1 .. m
      BY <1>1, <2>2, <2>4
    <2> HIDE DEF n, m
    <2>6. n - m + i \in 1 .. n /\ n - m + j \in 1 .. n /\ n - m + i < n - m + j
      BY <2>5
    <2> QED BY <2>4, <2>5, <2>6
  <1> QED BY <1>3, <1>4 DEF IInv

\* a clock that is set back stays behind: until then the invariant holds
LEMMA Until ==
  ASSUME Uniform
  PROVE  Spec => [](TypeOK /\ (behind = 0 => IInv))
  <1>1. Init => TypeOK /\ (behind = 0 => IInv)
    BY InvInit, TypeInit
  <1>2. TypeOK /\ (behind = 0 => IInv) /\ [Next]_vars => (TypeOK /\ (behind = 0 => IInv))'
    <2> SUFFICES ASSUME TypeOK, behind = 0 => IInv, [Next]_vars
                 PROVE  TypeOK' /\ (behind' = 0 => IInv')
      OBVIOUS
    <2>1. TypeOK'
      BY TypeStep
    <2>2. ASSUME behind' = 0 PROVE IInv'
      <3>1. behind' = behind \/ behind' = behind + 1
        <4>1. ASSUME NEW c \in Callers, Call(c) PROVE behind' = behind
          BY <4>1 DEF Call, Acquire, OpenFails, Lock, Sample, Untrusted, Exhausted, Reserve,
                      WriteFails, Acquired, Interrupted, Crash
        <4> QED BY <4>1 DEF Next, Tick, SetBack, vars
      <3>2. behind = 0
        BY <2>2, <3>1 DEF TypeOK
      <3> QED BY <2>2, <3>2, InvStep
    <2> QED BY <2>1, <2>2
  <1> QED BY <1>1, <1>2, PTL DEF Spec

\* Whatever crashes, fails or is interrupted, and until the clock is set back,
\* processes with the same limits reserve slots of which any rpm_limit + 1
\* consecutive ones span a window.
THEOREM WindowKept ==
  ASSUME Uniform
  PROVE  Spec => []RollingWindow
  <1>1. (behind = 0 => IInv) => RollingWindow
    BY InvImplies DEF RollingWindow
  <1> QED BY <1>1, Until, PTL

\* Under the same assumptions no UTC day is given more slots than its budget.
THEOREM BudgetKept ==
  ASSUME Uniform
  PROVE  Spec => []DailyBudget
  <1>1. (behind = 0 => IInv) => DailyBudget
    BY InvImplies DEF DailyBudget
  <1> QED BY <1>1, Until, PTL

\* Where the clock is never set back, the limiter never writes a state file
\* that it would refuse to read, if its processes have the same limits;
\* RequestLimiter_mixed shows that it does otherwise.
THEOREM FileKeptReadable ==
  ASSUME Uniform, MaxBehind = 0
  PROVE  Spec => []OwnStateReadable
  <1>1. TypeOK /\ (behind = 0 => IInv) => OwnStateReadable
    BY InvImplies DEF TypeOK
  <1> QED BY <1>1, Until, PTL

-----------------------------------------------------------------------------
(* What holds for any limits and any clock *)

\* Until the clock is set back, the sample of the lock's holder is in the past
\* and the sleep of a caller that has its slot ends no earlier than the slot.
SlotAhead ==
  behind = 0 => \A c \in Callers :
    /\ pc[c] = "read" => now[c] <= uptime
    /\ pc[c] = "wait" => slot[c] <= wake[c]

\* The file never counts more slots on its day than were reserved on it.
CountedLow == file.count <= Cardinality(OnDay(reserved, file.day))

LEMMA SlotAheadStep ==
  ASSUME TypeOK, TypeOK', SlotAhead, [Next]_vars
  PROVE  SlotAhead'
  <1> SUFFICES ASSUME behind' = 0, NEW d \in Callers
               PROVE  /\ pc'[d] = "read" => now'[d] <= uptime'
                      /\ pc'[d] = "wait" => slot'[d] <= wake'[d]
    BY DEF SlotAhead
  <1> DEFINE Ahead == /\ pc[d] = "read" => now[d] <= uptime
                      /\ pc[d] = "wait" => slot[d] <= wake[d]
             Same == UNCHANGED <<pc, now, slot, wake>>
  <1>n. uptime \in Nat /\ uptime' \in Nat
    BY DEF TypeOK
  <1>0. /\ uptime \in Nat /\ uptime' \in Nat /\ now[d] \in Nat
        /\ pc \in [Callers -> {"idle", "lock", "held", "read", "wait"}]
        /\ now \in [Callers -> Nat] /\ slot \in [Callers -> Nat] /\ wake \in [Callers -> Nat]
    BY <1>n DEF TypeOK
  <1>1. CASE Tick \/ UNCHANGED vars
    <2>1. Same /\ behind = 0 /\ uptime <= uptime'
      BY <1>0, <1>1 DEF Tick, vars, scope, caller
    <2>2. Ahead
      BY <2>1 DEF SlotAhead
    <2> QED BY <1>0, <2>1, <2>2
  <1>2. CASE SetBack
    BY <1>2 DEF SetBack, TypeOK
  <1>3. ASSUME NEW c \in Callers, Call(c)
        PROVE  /\ pc'[d] = "read" => now'[d] <= uptime'
               /\ pc'[d] = "wait" => slot'[d] <= wake'[d]
    <2> USE DEF scope, caller
    <2>1. CASE \/ OpenFails(c) \/ Untrusted(c) \/ Exhausted(c) \/ WriteFails(c)
               \/ Acquired(c) \/ Interrupted(c) \/ Crash(c)
      <3>1. /\ uptime' = uptime /\ behind' = behind /\ pc'[c] = "idle"
            /\ d # c => pc'[d] = pc[d] /\ now'[d] = now[d] /\ slot'[d] = slot[d]
                        /\ wake'[d] = wake[d]
        BY <1>0, <2>1 DEF OpenFails, Untrusted, Exhausted, WriteFails, Acquired, Interrupted,
                          Crash, Ends
      <3>2. Ahead
        BY <3>1 DEF SlotAhead
      <3> QED BY <3>1, <3>2
    <2>2. CASE Acquire(c) \/ Lock(c)
      <3>1. /\ uptime' = uptime /\ behind' = behind /\ pc'[c] \notin {"read", "wait"}
            /\ d # c => pc'[d] = pc[d]
            /\ UNCHANGED <<now, slot, wake>>
        BY <1>0, <2>2 DEF Acquire, Lock, Goto
      <3>2. Ahead
        BY <3>1 DEF SlotAhead
      <3> QED BY <3>1, <3>2
    <2>3. CASE Sample(c)
      <3>1. /\ uptime' = uptime /\ behind' = behind /\ pc'[c] = "read" /\ now'[c] = uptime - behind
            /\ d # c => pc'[d] = pc[d] /\ now'[d] = now[d]
            /\ UNCHANGED <<slot, wake>>
        BY <1>0, <2>3 DEF Sample, Goto, Clock
      <3>2. Ahead /\ uptime - behind = uptime
        BY <1>0, <3>1 DEF SlotAhead
      <3> QED BY <1>0, <3>1, <3>2
    <2>4. CASE Reserve(c)
      <3>1. PICK k \in 0 .. Len(file.times) :
                   /\ slot' = [slot EXCEPT ![c] = Slot(c, k)]
                   /\ wake' = [wake EXCEPT ![c] = WakeAt(c, k)]
        BY <2>4 DEF Reserve
      <3>2. /\ uptime' = uptime /\ behind' = behind /\ pc[c] = "read" /\ pc'[c] = "wait"
            /\ d # c => pc'[d] = pc[d] /\ slot'[d] = slot[d] /\ wake'[d] = wake[d]
            /\ now' = now
        BY <1>0, <2>4, <3>1 DEF Reserve, Admitted, Goto
      <3>3. slot'[c] = Slot(c, k) /\ wake'[c] = uptime + (Slot(c, k) - now[c])
        BY <1>0, <3>1 DEF WakeAt
      <3>4. Slot(c, k) \in Nat /\ now[c] \in Nat /\ now[c] <= uptime
        BY <1>0, <3>2, SlotType DEF SlotAhead
      <3>5. slot'[c] <= wake'[c]
        BY ONLY <1>0, <3>3, <3>4
      <3>6. Ahead
        BY <3>2 DEF SlotAhead
      <3> QED BY <3>2, <3>5, <3>6
    <2> QED BY <1>3, <2>1, <2>2, <2>3, <2>4 DEF Call
  <1> QED BY <1>1, <1>2, <1>3 DEF Next

LEMMA CountedLowStep ==
  ASSUME TypeOK, CountedLow, [Next]_vars
  PROVE  CountedLow'
  <1>1. CASE UNCHANGED <<file, reserved>>
    BY <1>1 DEF CountedLow, OnDay
  <1>2. ASSUME NEW c \in Callers, NEW k \in 0 .. Len(file.times), Record(c, k)
        PROVE  CountedLow'
    <2> DEFINE today == DayOf(now[c])
    <2>1. now[c] \in Nat /\ today \in Nat /\ file.count \in Nat
      BY DayType DEF TypeOK
    <2>2. file'.day = today /\ file'.count = DayCount(now[c]) + 1
      BY <1>2, Recorded
    <2>3. /\ Cardinality(OnDay(reserved, today)) \in Nat
          /\ Cardinality(OnDay(reserved', today)) = Cardinality(OnDay(reserved, today)) + 1
      BY <1>2, <2>1, OnDayGrows
    <2>4. DayCount(now[c]) \in Nat /\ DayCount(now[c]) <= Cardinality(OnDay(reserved, today))
      BY <2>1, <2>3 DEF DayCount, CountedLow
    <2>5. Cardinality(OnDay(reserved', file'.day)) = Cardinality(OnDay(reserved, today)) + 1
      BY <2>2, <2>3
    <2> HIDE DEF today
    <2>6. file'.count <= Cardinality(OnDay(reserved', file'.day))
      BY <2>2, <2>3, <2>4, <2>5
    <2> QED BY <2>6 DEF CountedLow, OnDay
  <1>3. ASSUME NEW c \in Callers, Call(c)
        PROVE  \/ UNCHANGED <<file, reserved>>
               \/ \E k \in 0 .. Len(file.times) : Record(c, k)
    BY <1>3 DEF Call, Acquire, OpenFails, Lock, Sample, Untrusted, Exhausted, Reserve,
                WriteFails, Acquired, Interrupted, Crash, scope
  <1>4. CASE Tick \/ SetBack \/ UNCHANGED vars
    BY <1>1, <1>4 DEF Tick, SetBack, vars, scope
  <1> QED BY <1>1, <1>2, <1>3, <1>4 DEF Next

LEMMA AlwaysAhead == Spec => [](TypeOK /\ SlotAhead /\ CountedLow)
  <1>1. Init => TypeOK /\ SlotAhead /\ CountedLow
    <2> SUFFICES ASSUME Init PROVE TypeOK /\ SlotAhead /\ CountedLow
      OBVIOUS
    <2>1. reserved = <<>> /\ file.count = 0
      BY DEF Init
    <2>2. OnDay(reserved, file.day) = {}
      BY <2>1 DEF OnDay
    <2>3. CountedLow
      BY SMTT(30), <2>1, <2>2, FS_EmptySet DEF CountedLow
    <2> QED BY <2>3, TypeInit DEF Init, SlotAhead
  <1>2. TypeOK /\ SlotAhead /\ CountedLow /\ [Next]_vars => (TypeOK /\ SlotAhead /\ CountedLow)'
    BY TypeStep, SlotAheadStep, CountedLowStep
  <1> QED BY <1>1, <1>2, PTL DEF Spec

\* GrantedOnTime: although a caller sleeps on the monotonic clock and its slot
\* is on the wall clock, acquire returns no earlier than its slot.
THEOREM NeverGrantedEarly == Spec => GrantedOnTime
  <1>1. TypeOK /\ SlotAhead /\ [Next]_vars
          => [\A c \in Callers : Acquired(c) /\ behind = 0 => Clock >= slot[c]]_vars
    <2> SUFFICES ASSUME TypeOK, SlotAhead, NEW c \in Callers, Acquired(c), behind = 0
                 PROVE  Clock >= slot[c]
      OBVIOUS
    <2>1. slot[c] <= wake[c] /\ wake[c] <= uptime
      BY DEF SlotAhead, Acquired
    <2>2. slot[c] \in Nat /\ wake[c] \in Nat /\ uptime \in Nat
      BY DEF TypeOK
    <2> QED BY <2>1, <2>2 DEF Clock
  <1> QED BY <1>1, AlwaysAhead, PTL DEF Spec, GrantedOnTime

\* ExhaustedWhenSpent: whatever the clock did and whatever the limits of the
\* others, a caller is told that a day's quota is exhausted only if as many
\* slots of that day as its own rpd_limit were reserved.
THEOREM RefusedOnlyWhenSpent == Spec => ExhaustedWhenSpent
  <1>1. TypeOK /\ CountedLow /\ [Next]_vars
          => [\A c \in Callers : Exhausted(c) =>
                Cardinality({j \in DOMAIN reserved : reserved[j].day = DayOf(now[c])}) >= Rpd[c]]_vars
    <2> SUFFICES ASSUME TypeOK, CountedLow, NEW c \in Callers, Exhausted(c)
                 PROVE  Cardinality(OnDay(reserved, DayOf(now[c]))) >= Rpd[c]
      BY DEF OnDay
    <2>1. Rpd[c] \in Nat /\ Rpd[c] > 0 /\ DayCount(now[c]) >= Rpd[c]
      BY LimitsAssumption DEF Exhausted, Spent
    <2>2. file.day = DayOf(now[c]) /\ file.count >= Rpd[c]
      BY <2>1 DEF DayCount
    <2>3. file.count \in Nat /\ file.count <= Cardinality(OnDay(reserved, DayOf(now[c])))
      BY <2>2 DEF CountedLow, TypeOK
    <2>4. Cardinality(OnDay(reserved, DayOf(now[c]))) \in Nat
      <3>1. DOMAIN reserved = 1 .. Len(reserved) /\ Len(reserved) \in Nat
        BY ReservedType
      <3>2. IsFiniteSet(1 .. Len(reserved)) /\ OnDay(reserved, DayOf(now[c])) \subseteq 1 .. Len(reserved)
        BY <3>1, FS_Interval DEF OnDay
      <3> QED BY <3>2, FS_Subset, FS_CardinalityType
    <2> QED BY <2>1, <2>2, <2>3, <2>4
  <1> QED BY <1>1, AlwaysAhead, PTL DEF Spec, ExhaustedWhenSpent
=============================================================================
