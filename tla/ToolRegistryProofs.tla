-------------------------- MODULE ToolRegistryProofs --------------------------
(***************************************************************************)
(* Proofs about ToolRegistry.                                               *)
(***************************************************************************)
EXTENDS ToolRegistry, TLAPS

AnyKey == Keys \cup {NoKey}

(* Where the environment is: a stage is entered only before the horizon, and  *)
(* what is logged was counted.                                               *)
Counted ==
  /\ stage # "idle" => tick < Horizon
  /\ Len(log) <= total

(* The queue and the log agree on the calls that wait.  In a stage, what was   *)
(* due in this tick is out of the queue.                                     *)
QueueInv ==
  /\ \A p \in queue :
       /\ p.id \in DOMAIN log /\ log[p.id].state = "queued"
       /\ p.due >= tick /\ (stage # "idle" => p.due > tick)
  /\ \A p, q \in queue : p.id = q.id => p = q
  /\ \A i \in DOMAIN log : log[i].state = "queued" => \E p \in queue : p.id = i

(* What the registry remembers of the calls it accepted: the meaning of their  *)
(* keys, and their signatures.                                               *)
Remembered ==
  /\ \A k \in Keys : \A c, d \in keys[k] : c = d
  /\ \A i \in DOMAIN log :
       Accepted(i) => /\ <<log[i].at, Signature(log[i].what, log[i].key)>> \in seen
                      /\ log[i].key # NoKey => log[i].what \in keys[log[i].key]

IInv == TypeOK /\ Counted /\ QueueInv /\ Remembered /\ DuplicatesApart

(* The books of a tick: an open budget, or a stage, has counted what was spent *)
(* since the simulator's tick began; otherwise nothing was.                  *)
Books ==
  /\ open => stage \in {"idle", "investigation"}
  /\ stage = "idle" /\ ~open => spent.calls = 0 /\ spent.cost = 0
  /\ stage # "idle" \/ open => spent.calls = attempts /\ spent.cost = cost

-----------------------------------------------------------------------------
(* Constants and types *)

LEMMA ConstantFacts ==
  /\ PerTick \in Nat /\ CostPerTick \in Nat /\ Total \in Nat /\ Horizon \in Nat /\ Horizon > 0
  /\ DuplicateWindow \in Nat /\ NoKey \notin Keys
  /\ \A c \in Contents : Tool[c] \in Tools /\ Delay[Tool[c]] \in Nat /\ Cost[Tool[c]] \in Nat
  BY RegistryAssumption

LEMMA LogFacts ==
  ASSUME TypeOK
  PROVE  /\ log \in Seq(Entry) /\ Len(log) \in Nat /\ DOMAIN log = 1..Len(log)
         /\ \A i \in 1..Len(log) : log[i] \in Entry
         /\ total \in Nat /\ tick \in Nat /\ tick <= Horizon /\ attempts \in Nat /\ cost \in Nat
  BY ConstantFacts DEF TypeOK

LEMMA Appended ==
  ASSUME NEW S, NEW q \in Seq(S), NEW e \in S
  PROVE  /\ Append(q, e) \in Seq(S)
         /\ Len(Append(q, e)) = Len(q) + 1 /\ Len(q) \in Nat
         /\ DOMAIN Append(q, e) = 1..(Len(q) + 1) /\ DOMAIN q = 1..Len(q)
         /\ \A i \in 1..Len(q) : Append(q, e)[i] = q[i]
         /\ Append(q, e)[Len(q) + 1] = e
  OBVIOUS

LEMMA SignatureType ==
  ASSUME NEW c \in Contents, NEW k \in AnyKey
  PROVE  Signature(c, k) \in Signatures
  BY ConstantFacts DEF Signature, Signatures, AnyKey

LEMMA InitTypes == Init => TypeOK
  <1> SUFFICES ASSUME Init PROVE TypeOK
    OBVIOUS
  <1>1. log = <<>> /\ log \in Seq(Entry) /\ Len(log) = 0
    BY DEF Init
  <1>2. /\ tick \in 0..Horizon /\ attempts \in 0..PerTick /\ cost \in 0..CostPerTick
        /\ total \in 0..Total /\ Len(log) <= Total
    BY <1>1, ConstantFacts DEF Init
  <1>3. /\ failed = {} /\ seen = {} /\ queue = {} /\ retryable = {} /\ linked = {}
        /\ keys \in [Keys -> SUBSET Contents] /\ spent \in [calls : Nat, cost : Nat]
    BY DEF Init
  <1>4. open \in BOOLEAN /\ faulty \in Faults
        /\ stage \in {"idle", "investigation", "control", "staged", "retried"}
    BY DEF Init
  <1> QED BY <1>1, <1>2, <1>3, <1>4 DEF TypeOK

-----------------------------------------------------------------------------
(* One call: what it may do, in three ways *)

NewEntry(c, k, retry, state) ==
  [what |-> c, key |-> k, at |-> tick, retry |-> retry, state |-> state]

Untouched == UNCHANGED <<seen, keys, queue, log>>

Refusal(c, k, retry) ==
  log' = Append(log, NewEntry(c, k, retry, "injected")) /\ UNCHANGED <<seen, keys, queue>>

Acceptance(c, k, retry) ==
  /\ ~Refused(c, k, retry) /\ Recorded(c, k)
  /\ \/ log' = Append(log, NewEntry(c, k, retry, "ran")) /\ UNCHANGED queue
     \/ /\ log' = Append(log, NewEntry(c, k, retry, "queued"))
        /\ Delay[Tool[c]] > 0 /\ tick + Delay[Tool[c]] < Horizon
        /\ queue' = queue \cup {[id |-> Len(log) + 1, due |-> tick + Delay[Tool[c]]]}

LEMMA CallEffect ==
  ASSUME TypeOK, NEW c \in Contents, NEW k \in AnyKey, NEW retry \in BOOLEAN,
         Execute(c, k, retry)
  PROVE  /\ attempts' = attempts + 1 /\ attempts < PerTick
         /\ total' = total + 1 /\ total < Total
         /\ UNCHANGED <<tick, open, faulty>>
         /\ \/ UNCHANGED cost /\ spent' = [spent EXCEPT !.calls = @ + 1]
            \/ /\ cost' = cost + Cost[Tool[c]] /\ cost' <= CostPerTick
               /\ spent' = [calls |-> spent.calls + 1, cost |-> spent.cost + Cost[Tool[c]]]
         /\ failed' \in {failed, failed \cup {<<tick, c>>}}
         /\ retryable' \in {retryable, retryable \cup {[id |-> Len(log) + 1, tick |-> tick]}}
         /\ Untouched \/ Refusal(c, k, retry) \/ Acceptance(c, k, retry)
  <1>1. /\ attempts' = attempts + 1 /\ attempts < PerTick
        /\ total' = total + 1 /\ total < Total /\ UNCHANGED <<tick, open, faulty>>
    BY DEF Execute, Room
  <1>2. cost \in Nat /\ Cost[Tool[c]] \in Nat /\ CostPerTick \in Nat /\ tick \in Nat
        /\ Delay[Tool[c]] \in Nat /\ Horizon \in Nat
    BY ConstantFacts, LogFacts
  <1>3. CASE Turned(c, k, retry)
    BY <1>1, <1>3 DEF Turned, Uncharged, Fails, Untouched
  <1>4. Admitted(c, k, retry) /\ Charged(c) =>
          /\ cost' = cost + Cost[Tool[c]] /\ cost' <= CostPerTick
          /\ spent' = [calls |-> spent.calls + 1, cost |-> spent.cost + Cost[Tool[c]]]
          /\ ~Refused(c, k, retry)
    BY <1>2 DEF Admitted, Charged, OverCost
  <1>5. CASE Inject(c, k, retry)
    BY <1>1, <1>4, <1>5 DEF Inject, Fails, Logged, Refusal, NewEntry
  <1>6. CASE TooLate(c, k, retry)
    BY <1>1, <1>4, <1>6 DEF TooLate, memory, Untouched
  <1>7. CASE Enqueue(c, k, retry)
    <2>1. Delay[Tool[c]] > 0 /\ tick + Delay[Tool[c]] < Horizon
      BY <1>2, <1>7 DEF Enqueue, Late
    <2>2. Acceptance(c, k, retry)
      BY <1>4, <1>7, <2>1 DEF Enqueue, Logged, Acceptance, NewEntry
    <2> QED BY <1>1, <1>4, <1>7, <2>2 DEF Enqueue, Fails
  <1>8. CASE Run(c, k, retry)
    <2>1. Acceptance(c, k, retry)
      BY <1>4, <1>8 DEF Run, Logged, Acceptance, NewEntry
    <2> QED BY <1>1, <1>4, <1>8, <2>1 DEF Run, Fails
  <1> QED BY <1>3, <1>5, <1>6, <1>7, <1>8 DEF Execute

LEMMA EntryType ==
  ASSUME TypeOK, NEW c \in Contents, NEW k \in AnyKey, NEW retry \in BOOLEAN, NEW state \in States
  PROVE  NewEntry(c, k, retry, state) \in Entry
  BY DEF TypeOK, Entry, NewEntry, AnyKey

(* The log as a call leaves it. *)
LEMMA LogAfterCall ==
  ASSUME TypeOK, Counted, NEW c \in Contents, NEW k \in AnyKey, NEW retry \in BOOLEAN,
         Execute(c, k, retry)
  PROVE  /\ log' \in Seq(Entry) /\ Len(log') <= total' /\ Len(log') <= Total
         /\ seen' \subseteq (0..Horizon) \X Signatures
         /\ keys' \in [Keys -> SUBSET Contents]
         /\ Len(log) + 1 \in 1..Total
  <1>1. /\ log \in Seq(Entry) /\ Len(log) \in Nat /\ total \in Nat /\ Total \in Nat
        /\ Len(log) <= total /\ total' = total + 1 /\ total < Total
    BY LogFacts, CallEffect, ConstantFacts DEF Counted
  <1>2. CASE Untouched
    BY <1>1, <1>2 DEF Untouched, TypeOK
  <1>3. \A state \in States : /\ Append(log, NewEntry(c, k, retry, state)) \in Seq(Entry)
                              /\ Len(Append(log, NewEntry(c, k, retry, state))) = Len(log) + 1
    BY <1>1, EntryType, Appended
  <1>4. CASE Refusal(c, k, retry)
    BY <1>1, <1>3, <1>4 DEF Refusal, TypeOK, States
  <1>5. CASE Acceptance(c, k, retry)
    <2>1. \E state \in States : log' = Append(log, NewEntry(c, k, retry, state))
      BY <1>5 DEF Acceptance, States
    <2>2. seen' \subseteq (0..Horizon) \X Signatures
      BY <1>5, SignatureType DEF Acceptance, Recorded, TypeOK
    <2>3. keys' \in [Keys -> SUBSET Contents]
      BY <1>5 DEF Acceptance, Recorded, TypeOK, AnyKey
    <2> QED BY <1>1, <1>3, <2>1, <2>2, <2>3
  <1> QED BY <1>2, <1>4, <1>5, CallEffect

LEMMA CallTypes ==
  ASSUME TypeOK, Counted, NEW c \in Contents, NEW k \in AnyKey, NEW retry \in BOOLEAN,
         Execute(c, k, retry), stage # "idle",
         stage' \in {"idle", "investigation", "control", "staged", "retried"},
         linked' \subseteq 1..Total
  PROVE  TypeOK' /\ Counted'
  <1>1. /\ tick \in 0..Horizon /\ tick < Horizon /\ UNCHANGED <<tick, open, faulty>>
    BY CallEffect DEF TypeOK, Counted
  <1>2. attempts' \in 0..PerTick /\ total' \in 0..Total
    BY CallEffect, LogFacts, ConstantFacts
  <1>3. cost' \in 0..CostPerTick /\ spent' \in [calls : Nat, cost : Nat]
    <2>1. Cost[Tool[c]] \in Nat /\ cost \in 0..CostPerTick /\ CostPerTick \in Nat
          /\ spent \in [calls : Nat, cost : Nat]
      BY ConstantFacts DEF TypeOK
    <2>2. CASE UNCHANGED cost /\ spent' = [spent EXCEPT !.calls = @ + 1]
      BY <2>1, <2>2
    <2>3. CASE /\ cost' = cost + Cost[Tool[c]] /\ cost' <= CostPerTick
               /\ spent' = [calls |-> spent.calls + 1, cost |-> spent.cost + Cost[Tool[c]]]
      BY <2>1, <2>3
    <2> QED BY <2>2, <2>3, CallEffect
  <1>4. failed' \subseteq (0..Horizon) \X Contents
    BY SMTT(30), <1>1, CallEffect DEF TypeOK
  <1>5. retryable' \subseteq [id : 1..Total, tick : 0..Horizon]
    <2>1. [id |-> Len(log) + 1, tick |-> tick] \in [id : 1..Total, tick : 0..Horizon]
      BY <1>1, LogAfterCall
    <2>2. retryable \subseteq [id : 1..Total, tick : 0..Horizon]
      BY DEF TypeOK
    <2> QED BY <2>1, <2>2, CallEffect
  <1>6. queue' \subseteq [id : 1..Total, due : 0..(Horizon - 1)]
    <2>1. queue \subseteq [id : 1..Total, due : 0..(Horizon - 1)] /\ tick \in Nat
          /\ Delay[Tool[c]] \in Nat /\ Horizon \in Nat /\ Len(log) + 1 \in 1..Total
      BY SMTT(30), ConstantFacts, LogFacts, LogAfterCall DEF TypeOK
    <2>2. UNCHANGED queue \/ (/\ tick + Delay[Tool[c]] < Horizon
            /\ queue' = queue \cup {[id |-> Len(log) + 1, due |-> tick + Delay[Tool[c]]]})
      BY CallEffect DEF Untouched, Refusal, Acceptance
    <2> QED BY <2>1, <2>2
  <1>7. TypeOK'
    BY ZenonT(30), <1>1, <1>2, <1>3, <1>4, <1>5, <1>6, LogAfterCall DEF TypeOK
  <1> QED BY <1>1, <1>7, LogAfterCall DEF Counted

-----------------------------------------------------------------------------
(* Queued calls that are settled, in the log and out of the queue *)

(* Calls only leave the queue, and only the state of those that leave changes. *)
Settles ==
  /\ log' \in Seq(Entry) /\ DOMAIN log' = DOMAIN log /\ Len(log') = Len(log)
  /\ queue' \subseteq queue
  /\ \A i \in DOMAIN log :
       /\ log'[i].what = log[i].what /\ log'[i].key = log[i].key
       /\ log'[i].at = log[i].at /\ log'[i].retry = log[i].retry
       /\ \/ log'[i].state = log[i].state /\ \A p \in queue : p.id = i => p \in queue'
          \/ /\ log[i].state = "queued" /\ log'[i].state \in {"delivered", "canceled"}
             /\ \A p \in queue' : p.id # i

LEMMA EntryFields ==
  ASSUME NEW e \in Entry, NEW s \in States
  PROVE  /\ [e EXCEPT !.state = s] \in Entry /\ [e EXCEPT !.state = s].state = s
         /\ [e EXCEPT !.state = s].what = e.what /\ [e EXCEPT !.state = s].key = e.key
         /\ [e EXCEPT !.state = s].at = e.at /\ [e EXCEPT !.state = s].retry = e.retry
  BY DEF Entry

LEMMA SeqByIndex ==
  ASSUME NEW S, NEW n \in Nat, NEW f, f = [i \in 1..n |-> f[i]], \A i \in 1..n : f[i] \in S
  PROVE  f \in Seq(S) /\ Len(f) = n /\ DOMAIN f = 1..n
  OBVIOUS

LEMMA MaterializeSettles ==
  ASSUME TypeOK, QueueInv, Materialize(Due), UNCHANGED tick
  PROVE  /\ Settles
         /\ \A p \in queue' : p.due > tick
         /\ failed' \subseteq (0..Horizon) \X Contents
  <1>1. /\ queue' = queue \ Due
        /\ log' = [i \in DOMAIN log |-> IF \E p \in Due : p.id = i
                                        THEN [log[i] EXCEPT !.state = "delivered"]
                                        ELSE log[i]]
        /\ \E bad \in SUBSET {log[p.id].what : p \in {q \in Due : ToolOf(q.id) \notin Managed}} :
             failed' = failed \cup {<<tick, c>> : c \in bad}
    BY DEF Materialize
  <1>2. Len(log) \in Nat /\ DOMAIN log = 1..Len(log) /\ \A i \in 1..Len(log) : log[i] \in Entry
    BY LogFacts
  <1>3. ASSUME NEW i \in 1..Len(log), \E p \in Due : p.id = i
        PROVE  /\ log'[i] \in Entry /\ log'[i].state = "delivered" /\ log[i].state = "queued"
               /\ log'[i].what = log[i].what /\ log'[i].key = log[i].key
               /\ log'[i].at = log[i].at /\ log'[i].retry = log[i].retry
    <2>1. log'[i] = [log[i] EXCEPT !.state = "delivered"]
      BY <1>1, <1>2, <1>3
    <2>2. log[i].state = "queued"
      BY <1>3 DEF Due, QueueInv
    <2>3. log[i] \in Entry /\ "delivered" \in States
      BY <1>2 DEF States
    <2> QED BY <2>1, <2>2, <2>3, EntryFields
  <1>4. ASSUME NEW i \in 1..Len(log), ~ \E p \in Due : p.id = i
        PROVE  log'[i] = log[i] /\ \A p \in queue : p.id = i => p \in queue'
    BY <1>1, <1>2, <1>4
  <1>5. log' \in Seq(Entry) /\ Len(log') = Len(log) /\ DOMAIN log' = 1..Len(log)
    <2>1. log' = [i \in 1..Len(log) |-> log'[i]]
      BY <1>1, <1>2
    <2>2. \A i \in 1..Len(log) : log'[i] \in Entry
      BY <1>2, <1>3, <1>4
    <2> QED BY <1>2, <2>1, <2>2, SeqByIndex
  <1>6. ASSUME NEW i \in 1..Len(log), NEW q \in queue', \E p \in Due : p.id = i
        PROVE  q.id # i
    <2>1. PICK p \in Due : p.id = i
      BY <1>6
    <2>2. q \in queue /\ p \in queue /\ q \notin Due
      BY <1>1 DEF Due
    <2> QED BY <2>1, <2>2 DEF QueueInv
  <1>7. Settles
    BY <1>1, <1>2, <1>3, <1>4, <1>5, <1>6 DEF Settles
  <1>8. \A p \in queue' : p.due > tick
    <2>1. \A p \in queue : p.due >= tick /\ p.due \in Nat /\ tick \in Nat
      BY LogFacts DEF QueueInv, TypeOK
    <2> QED BY <1>1, <2>1 DEF Due
  <1>9. failed' \subseteq (0..Horizon) \X Contents
    <2>1. \A p \in Due : log[p.id].what \in Contents
      BY <1>2 DEF Due, QueueInv, Entry
    <2> QED BY <1>1, <2>1 DEF TypeOK
  <1> QED BY <1>7, <1>8, <1>9

LEMMA DequeueSettles ==
  ASSUME TypeOK, QueueInv, NEW p \in queue, Dequeue(p)
  PROVE  Settles
  <1>1. log' = [log EXCEPT ![p.id].state = "canceled"] /\ queue' = queue \ {p}
    BY DEF Dequeue
  <1>2. Len(log) \in Nat /\ DOMAIN log = 1..Len(log) /\ \A i \in 1..Len(log) : log[i] \in Entry
    BY LogFacts
  <1>3. p.id \in 1..Len(log) /\ log[p.id].state = "queued"
    BY <1>2 DEF QueueInv
  <1>4. log'[p.id] = [log[p.id] EXCEPT !.state = "canceled"]
    BY <1>1, <1>2, <1>3
  <1>5. /\ log'[p.id] \in Entry /\ log'[p.id].state = "canceled"
        /\ log'[p.id].what = log[p.id].what /\ log'[p.id].key = log[p.id].key
        /\ log'[p.id].at = log[p.id].at /\ log'[p.id].retry = log[p.id].retry
    <2>1. log[p.id] \in Entry /\ "canceled" \in States
      BY <1>2, <1>3 DEF States
    <2> QED BY <1>4, <2>1, EntryFields
  <1>6. \A i \in 1..Len(log) : i # p.id => log'[i] = log[i]
    BY <1>1, <1>2
  <1>7. log' \in Seq(Entry) /\ Len(log') = Len(log) /\ DOMAIN log' = 1..Len(log)
    <2>1. log' = [i \in 1..Len(log) |-> log'[i]]
      BY <1>1, <1>2
    <2>2. \A i \in 1..Len(log) : log'[i] \in Entry
      BY <1>2, <1>5, <1>6
    <2> QED BY <1>2, <2>1, <2>2, SeqByIndex
  <1>8. \A q \in queue' : q.id # p.id
    BY <1>1 DEF QueueInv
  <1>9. \A i \in 1..Len(log) : i # p.id => \A q \in queue : q.id = i => q \in queue'
    BY <1>1
  <1> QED BY <1>1, <1>2, <1>3, <1>5, <1>6, <1>7, <1>8, <1>9 DEF Settles

LEMMA SettlesKeeps ==
  ASSUME TypeOK, QueueInv, Remembered, DuplicatesApart, Settles,
         UNCHANGED <<tick, seen, keys>>,
         stage' # "idle" => \A p \in queue' : p.due > tick
  PROVE  QueueInv' /\ Remembered' /\ DuplicatesApart'
  <1>1. /\ DOMAIN log' = DOMAIN log /\ queue' \subseteq queue
        /\ \A i \in DOMAIN log :
             /\ log'[i].what = log[i].what /\ log'[i].key = log[i].key
             /\ log'[i].at = log[i].at /\ log'[i].retry = log[i].retry
             /\ Accepted(i)' <=> Accepted(i)
    BY DEF Settles, Accepted
  <1>2. QueueInv'
    <2>1. ASSUME NEW p \in queue'
          PROVE  /\ p.id \in DOMAIN log' /\ log'[p.id].state = "queued"
                 /\ p.due >= tick' /\ (stage' # "idle" => p.due > tick')
      <3>1. p \in queue /\ p.id \in DOMAIN log /\ log[p.id].state = "queued" /\ p.due >= tick
        BY <1>1 DEF QueueInv
      <3>2. log'[p.id].state = log[p.id].state
        BY <3>1 DEF Settles
      <3> QED BY <1>1, <3>1, <3>2
    <2>2. \A p, q \in queue' : p.id = q.id => p = q
      BY <1>1 DEF QueueInv
    <2>3. ASSUME NEW i \in DOMAIN log', log'[i].state = "queued"
          PROVE  \E p \in queue' : p.id = i
      BY <1>1, <2>3 DEF QueueInv, Settles
    <2> QED BY <2>1, <2>2, <2>3 DEF QueueInv
  <1>3. Remembered'
    BY <1>1 DEF Remembered, Signature, Accepted
  <1>4. DuplicatesApart'
    BY <1>1 DEF DuplicatesApart, SameSignature, Apart, Signature, Accepted
  <1> QED BY <1>2, <1>3, <1>4

-----------------------------------------------------------------------------
(* The memory of the calls that are accepted *)

(* The log goes on with one entry. *)
LEMMA Goes_On ==
  ASSUME TypeOK, NEW e, log' = Append(log, e), e \in Entry
  PROVE  /\ Len(log) \in Nat /\ DOMAIN log = 1..Len(log) /\ DOMAIN log' = 1..(Len(log) + 1)
         /\ \A i \in DOMAIN log : log'[i] = log[i] /\ i \in DOMAIN log'
         /\ log'[Len(log) + 1] = e
         /\ \A i \in DOMAIN log' : i \in DOMAIN log \/ i = Len(log) + 1
  BY LogFacts, Appended

LEMMA CallQueue ==
  ASSUME TypeOK, QueueInv, NEW c \in Contents, NEW k \in AnyKey, NEW retry \in BOOLEAN,
         Execute(c, k, retry), stage # "idle"
  PROVE  QueueInv'
  <1>1. UNCHANGED tick /\ tick \in Nat /\ Delay[Tool[c]] \in Nat
    BY CallEffect, LogFacts, ConstantFacts
  <1>2. CASE UNCHANGED <<queue, log>>
    BY <1>1, <1>2 DEF QueueInv
  <1>3. ASSUME NEW state \in {"injected", "ran"}, UNCHANGED queue,
               log' = Append(log, NewEntry(c, k, retry, state))
        PROVE  QueueInv'
    <2>1. NewEntry(c, k, retry, state) \in Entry /\ NewEntry(c, k, retry, state).state # "queued"
      BY EntryType DEF States, NewEntry
    <2> QED BY <1>1, <1>3, <2>1, Goes_On DEF QueueInv
  <1>4. ASSUME log' = Append(log, NewEntry(c, k, retry, "queued")), Delay[Tool[c]] > 0,
               queue' = queue \cup {[id |-> Len(log) + 1, due |-> tick + Delay[Tool[c]]]}
        PROVE  QueueInv'
    <2> DEFINE new == [id |-> Len(log) + 1, due |-> tick + Delay[Tool[c]]]
    <2>1. NewEntry(c, k, retry, "queued") \in Entry /\ NewEntry(c, k, retry, "queued").state = "queued"
      BY EntryType DEF States, NewEntry
    <2>2. new.id = Len(log) + 1 /\ new.due > tick /\ new.due >= tick
      BY <1>1, <1>4
    <2>3. \A p \in queue : p.id # new.id
      BY <2>1, <2>2, <1>4, Goes_On DEF QueueInv
    <2>4. queue' = queue \cup {new}
      BY <1>4
    <2> HIDE DEF new
    <2>5. \A p \in queue' : /\ p.id \in DOMAIN log' /\ log'[p.id].state = "queued"
                            /\ p.due >= tick /\ p.due > tick
      BY <1>4, <2>1, <2>2, <2>4, Goes_On DEF QueueInv
    <2>6. \A p, q \in queue' : p.id = q.id => p = q
      BY <2>3, <2>4 DEF QueueInv
    <2>7. \A i \in DOMAIN log' : log'[i].state = "queued" => \E p \in queue' : p.id = i
      BY <1>4, <2>1, <2>2, <2>4, Goes_On DEF QueueInv
    <2> QED BY <1>1, <2>5, <2>6, <2>7 DEF QueueInv
  <1> QED BY <1>2, <1>3, <1>4, CallEffect DEF Untouched, Refusal, Acceptance

LEMMA CallRemembered ==
  ASSUME TypeOK, Remembered, DuplicatesApart, NEW c \in Contents, NEW k \in AnyKey,
         NEW retry \in BOOLEAN, Execute(c, k, retry)
  PROVE  Remembered' /\ DuplicatesApart'
  <1>1. UNCHANGED tick /\ tick \in Nat /\ DuplicateWindow \in Nat
    BY CallEffect, LogFacts, ConstantFacts
  <1>2. CASE Untouched
    BY <1>1, <1>2 DEF Untouched, Remembered, DuplicatesApart, Accepted, SameSignature, Apart,
                      Signature
  <1>3. CASE Refusal(c, k, retry)
    <2> DEFINE e == NewEntry(c, k, retry, "injected")
    <2>1. e \in Entry /\ e.state = "injected"
      BY EntryType DEF States, NewEntry
    <2>2. log' = Append(log, e) /\ UNCHANGED <<seen, keys>>
      BY <1>3 DEF Refusal
    <2>3. \A i \in DOMAIN log' : Accepted(i)' => i \in DOMAIN log /\ Accepted(i) /\ log'[i] = log[i]
      BY <2>1, <2>2, Goes_On DEF Accepted
    <2> HIDE DEF e
    <2>4. Remembered'
      BY <2>2, <2>3 DEF Remembered, Signature
    <2>5. DuplicatesApart'
      BY <2>2, <2>3 DEF DuplicatesApart, SameSignature, Apart, Signature
    <2> QED BY <2>4, <2>5
  <1>4. CASE Acceptance(c, k, retry)
    <2>1. PICK state \in {"ran", "queued"} : log' = Append(log, NewEntry(c, k, retry, state))
      BY <1>4 DEF Acceptance
    <2> DEFINE e == NewEntry(c, k, retry, state)
               n == Len(log) + 1
    <2>2. /\ e \in Entry /\ e.state # "injected" /\ e.what = c /\ e.key = k /\ e.at = tick
          /\ e.retry = retry
      BY EntryType DEF States, NewEntry
    <2>3. log' = Append(log, e)
      BY <2>1
    <2> HIDE DEF e
    <2>4. /\ ~Refused(c, k, retry)
          /\ seen' = seen \cup {<<tick, Signature(c, k)>>}
          /\ keys' = IF k # NoKey /\ keys[k] = {} THEN [keys EXCEPT ![k] = {c}] ELSE keys
      BY <1>4 DEF Acceptance, Recorded
    <2>5. /\ Len(log) \in Nat /\ DOMAIN log = 1..Len(log)
          /\ \A i \in DOMAIN log : log'[i] = log[i] /\ (Accepted(i)' <=> Accepted(i))
          /\ log'[n] = e
          /\ \A i \in DOMAIN log' : i \in DOMAIN log \/ i = n
      BY <2>2, <2>3, Goes_On DEF Accepted
    <2> HIDE DEF n
    <2>6. /\ keys \in [Keys -> SUBSET Contents] /\ keys' \in [Keys -> SUBSET Contents]
          /\ \A x \in Keys : keys[x] \subseteq keys'[x]
          /\ k # NoKey => k \in Keys /\ keys'[k] = {c}
      <3>1. keys \in [Keys -> SUBSET Contents] /\ (k # NoKey => k \in Keys)
        BY DEF TypeOK, AnyKey
      <3>2. k # NoKey => keys[k] \cup {c} = {c}
        BY <2>4 DEF Refused, Conflict
      <3> QED BY <2>4, <3>1, <3>2
    <2>7. \A x \in Keys : \A a, b \in keys'[x] : a = b
      BY <2>4, <2>6 DEF Remembered
    <2>8. \A i \in DOMAIN log : log[i].key \in AnyKey
      BY LogFacts, <2>5 DEF Entry, AnyKey
    <2>9. ASSUME NEW i \in DOMAIN log', Accepted(i)'
          PROVE  /\ <<log'[i].at, Signature(log'[i].what, log'[i].key)>> \in seen'
                 /\ log'[i].key # NoKey => log'[i].what \in keys'[log'[i].key]
      <3>1. CASE i \in DOMAIN log
        <4>1. /\ <<log[i].at, Signature(log[i].what, log[i].key)>> \in seen
              /\ log[i].key # NoKey => log[i].what \in keys[log[i].key]
          BY <2>5, <2>9, <3>1 DEF Remembered
        <4>2. log[i].key # NoKey => log[i].key \in Keys
          BY <2>8, <3>1 DEF AnyKey
        <4> QED BY <2>4, <2>5, <2>6, <3>1, <4>1, <4>2
      <3>2. CASE i = n
        BY <2>2, <2>4, <2>5, <2>6, <3>2
      <3> QED BY <2>5, <3>1, <3>2
    <2>10. Remembered'
      BY <2>7, <2>9 DEF Remembered, Signature
    <2>11. ASSUME NEW i \in DOMAIN log, Accepted(i),
                  Signature(log[i].what, log[i].key) = Signature(c, k),
                  Tool[c] \notin Meta, ~retry
           PROVE  tick > log[i].at + DuplicateWindow
      <3>1. <<log[i].at, Signature(c, k)>> \in seen /\ log[i].at \in Nat
        BY <2>11, <2>5, LogFacts, ConstantFacts DEF Remembered, Entry
      <3>2. ~Duplicate(c, k) /\ ~FailedRecently(c)
        BY <2>4, <2>11 DEF Refused
      <3>3. ~(log[i].at >= tick - DuplicateWindow)
        BY <3>1, <3>2, <2>11 DEF Duplicate
      <3> QED BY <1>1, <3>1, <3>3
    <2>12. ASSUME NEW i \in DOMAIN log', NEW j \in DOMAIN log', i < j, Accepted(i)', Accepted(j)',
                  Signature(log'[i].what, log'[i].key) = Signature(log'[j].what, log'[j].key),
                  Tool[log'[j].what] \notin Meta, ~log'[j].retry
           PROVE  log'[j].at > log'[i].at + DuplicateWindow
      <3>1. CASE j \in DOMAIN log
        <4>1. i \in DOMAIN log
          BY <2>5, <2>12, <3>1 DEF n
        <4> QED BY <2>5, <2>12, <3>1, <4>1 DEF DuplicatesApart, SameSignature, Apart
      <3>2. CASE j = n
        <4>1. i \in DOMAIN log
          BY <2>5, <2>12, <3>2 DEF n
        <4> QED BY <2>2, <2>5, <2>11, <2>12, <3>2, <4>1
      <3> QED BY <2>5, <3>1, <3>2
    <2>13. DuplicatesApart'
      BY <2>12 DEF DuplicatesApart, SameSignature, Apart, Signature
    <2> QED BY <2>10, <2>13
  <1> QED BY <1>2, <1>3, <1>4, CallEffect

-----------------------------------------------------------------------------
(* The steps *)

LEMMA InitInv == Init => IInv /\ Books
  <1> SUFFICES ASSUME Init PROVE IInv /\ Books
    OBVIOUS
  <1>1. TypeOK
    BY InitTypes
  <1>2. /\ log = <<>> /\ DOMAIN log = {} /\ Len(log) = 0 /\ total = 0 /\ stage = "idle"
        /\ queue = {} /\ keys = [k \in Keys |-> {}] /\ open = FALSE
        /\ spent = [calls |-> 0, cost |-> 0]
    BY DEF Init
  <1>3. Counted /\ QueueInv /\ Remembered /\ DuplicatesApart
    BY <1>2 DEF Counted, QueueInv, Remembered, DuplicatesApart
  <1>4. Books
    BY <1>2 DEF Books
  <1> QED BY <1>1, <1>3, <1>4 DEF IInv

(* What a stage's beginning leaves of the budget. *)
LEMMA BeginTickTypes ==
  ASSUME TypeOK, NEW fresh \in BOOLEAN, BeginTick(fresh)
  PROVE  /\ attempts' \in 0..PerTick /\ cost' \in 0..CostPerTick
         /\ retryable' \subseteq [id : 1..Total, tick : 0..Horizon] /\ linked' \subseteq 1..Total
         /\ fresh => attempts' = 0 /\ cost' = 0
         /\ ~fresh => UNCHANGED <<attempts, cost>>
  <1>1. CASE fresh
    BY <1>1, ConstantFacts DEF BeginTick
  <1>2. CASE ~fresh
    BY <1>2 DEF BeginTick, retries, TypeOK
  <1> QED BY <1>1, <1>2

LEMMA StageBegins ==
  ASSUME IInv, stage = "idle", tick < Horizon, stage' \in {"investigation", "control"},
         open' \in BOOLEAN, NEW fresh \in BOOLEAN, BeginTick(fresh), Materialize(Due),
         UNCHANGED <<tick, total, seen, keys, faulty, spent>>
  PROVE  IInv'
  <1>1. TypeOK /\ Counted /\ QueueInv /\ Remembered /\ DuplicatesApart
    BY DEF IInv
  <1>2. /\ Settles /\ \A p \in queue' : p.due > tick
        /\ failed' \subseteq (0..Horizon) \X Contents
    BY <1>1, MaterializeSettles
  <1>3. QueueInv' /\ Remembered' /\ DuplicatesApart'
    BY <1>1, <1>2, SettlesKeeps
  <1>4. log' \in Seq(Entry) /\ Len(log') = Len(log) /\ queue' \subseteq queue
    BY <1>2 DEF Settles
  <1>5. TypeOK'
    BY <1>1, <1>2, <1>4, BeginTickTypes DEF TypeOK
  <1>6. Counted'
    BY <1>1, <1>4 DEF Counted
  <1> QED BY <1>3, <1>5, <1>6 DEF IInv

LEMMA ExecuteKeeps ==
  ASSUME IInv, NEW c \in Contents, NEW k \in AnyKey, NEW retry \in BOOLEAN,
         Execute(c, k, retry), stage # "idle", linked' \subseteq 1..Total,
         stage' \in {"investigation", "control", "staged", "retried"}
  PROVE  IInv'
  <1>1. TypeOK /\ Counted /\ QueueInv /\ Remembered /\ DuplicatesApart
    BY DEF IInv
  <1>2. TypeOK' /\ Counted'
    BY <1>1, CallTypes
  <1>3. QueueInv'
    BY <1>1, CallQueue
  <1>4. Remembered' /\ DuplicatesApart'
    BY <1>1, CallRemembered
  <1> QED BY <1>2, <1>3, <1>4 DEF IInv

(* Steps that leave the log, the queue and the registry's memory alone. *)
LEMMA MemoryStays ==
  ASSUME IInv, UNCHANGED <<queue, log, seen, keys, tick>>, stage' # "idle" => stage # "idle"
  PROVE  QueueInv' /\ Remembered' /\ DuplicatesApart'
  <1>1. QueueInv'
    BY DEF IInv, QueueInv
  <1>2. Remembered'
    BY DEF IInv, Remembered, Accepted, Signature
  <1>3. DuplicatesApart'
    BY DEF IInv, DuplicatesApart, Accepted, SameSignature, Apart, Signature
  <1> QED BY <1>1, <1>2, <1>3

LEMMA Inductive ==
  ASSUME IInv, [Next]_vars
  PROVE  IInv'
  <1>1. TypeOK /\ Counted /\ QueueInv /\ Remembered /\ DuplicatesApart
    BY DEF IInv
  <1>2. ASSUME Investigate PROVE IInv'
    <2>1. /\ stage = "idle" /\ tick < Horizon /\ stage' = "investigation" /\ open' = open
          /\ BeginTick(~open) /\ Materialize(Due)
          /\ UNCHANGED <<tick, total, seen, keys, faulty, spent>>
      BY <1>2 DEF Investigate
    <2>2. open' \in BOOLEAN /\ (~open) \in BOOLEAN
      BY <1>1, <2>1 DEF TypeOK
    <2> QED BY <2>1, <2>2, StageBegins
  <1>3. ASSUME EndInvestigation PROVE IInv'
    <2>1. /\ stage' = "idle" /\ open' = TRUE
          /\ UNCHANGED <<tick, attempts, cost, total, failed, seen, keys, queue>>
          /\ UNCHANGED <<retryable, linked, faulty, log, spent>>
      BY <1>3 DEF EndInvestigation, memory, retries
    <2>2. TypeOK' /\ Counted'
      BY <1>1, <2>1 DEF TypeOK, Counted
    <2> QED BY <2>1, <2>2, MemoryStays DEF IInv
  <1>4. ASSUME Control PROVE IInv'
    <2> DEFINE fresh == ~(SharesBudget /\ open)
    <2>1. /\ stage = "idle" /\ tick < Horizon /\ stage' = "control"
          /\ open' = (open /\ ~SharesBudget) /\ BeginTick(fresh) /\ Materialize(Due)
          /\ UNCHANGED <<tick, total, seen, keys, faulty, spent>>
      BY <1>4 DEF Control
    <2>2. open' \in BOOLEAN /\ fresh \in BOOLEAN
      BY <2>1
    <2> HIDE DEF fresh
    <2> QED BY <2>1, <2>2, StageBegins
  <1>5. ASSUME Stage PROVE IInv'
    <2>1. /\ stage = "control" /\ stage' = "staged"
          /\ UNCHANGED <<tick, faulty, open, attempts, cost, total, failed, seen, keys, queue>>
          /\ UNCHANGED <<retryable, linked, log, spent>>
      BY <1>5 DEF Stage, budget, memory, retries
    <2>2. TypeOK' /\ Counted'
      BY <1>1, <2>1 DEF TypeOK, Counted
    <2> QED BY <2>1, <2>2, MemoryStays DEF IInv
  <1>6. ASSUME Advance PROVE IInv'
    <2>1. /\ stage # "idle" /\ stage' = "idle" /\ tick' = tick + 1 /\ faulty' \in Faults
          /\ spent' = [calls |-> 0, cost |-> 0]
          /\ UNCHANGED <<open, attempts, cost, total, failed, seen, keys, queue>>
          /\ UNCHANGED <<retryable, linked, log>>
      BY <1>6 DEF Advance, budget, memory, retries
    <2>2. tick \in Nat /\ tick < Horizon /\ Horizon \in Nat
      BY <1>1, <2>1, LogFacts, ConstantFacts DEF Counted
    <2>3. TypeOK' /\ Counted'
      BY <1>1, <2>1, <2>2 DEF TypeOK, Counted
    <2>4. QueueInv'
      <3>1. \A p \in queue : p.due > tick /\ p.due \in Nat
        BY <1>1, <2>1 DEF QueueInv, TypeOK
      <3>2. \A p \in queue : p.due >= tick + 1
        BY <2>2, <3>1
      <3> QED BY <1>1, <2>1, <3>2 DEF QueueInv
    <2>5. Remembered'
      BY <1>1, <2>1 DEF Remembered, Accepted, Signature
    <2>6. DuplicatesApart'
      BY <1>1, <2>1 DEF DuplicatesApart, Accepted, SameSignature, Apart, Signature
    <2> QED BY <2>3, <2>4, <2>5, <2>6 DEF IInv
  <1>7. ASSUME Call PROVE IInv'
    <2>1. PICK c \in Contents, k \in AnyKey : Execute(c, k, FALSE)
      BY <1>7 DEF Call, AnyKey
    <2>2. stage \in {"investigation", "control"} /\ UNCHANGED <<stage, linked>>
      BY <1>7 DEF Call
    <2>3. linked' \subseteq 1..Total
      BY <1>1, <2>2 DEF TypeOK
    <2> QED BY <2>1, <2>2, <2>3, ExecuteKeeps
  <1>8. ASSUME Malformed PROVE IInv'
    <2>1. /\ attempts' = attempts + 1 /\ total' = total + 1
          /\ attempts < PerTick /\ total < Total
          /\ UNCHANGED cost /\ spent' = [spent EXCEPT !.calls = @ + 1]
          /\ UNCHANGED <<tick, stage, open, faulty, failed, seen, keys, queue>>
          /\ UNCHANGED <<retryable, linked, log>>
      BY <1>8 DEF Malformed, Room, Uncharged, memory, retries
    <2>2. attempts' \in 0..PerTick /\ total' \in 0..Total /\ Len(log) <= total'
      BY <1>1, <2>1, LogFacts, ConstantFacts DEF Counted
    <2>3. spent' \in [calls : Nat, cost : Nat]
      BY <1>1, <2>1 DEF TypeOK
    <2>4. TypeOK' /\ Counted'
      BY <1>1, <2>1, <2>2, <2>3 DEF TypeOK, Counted
    <2> QED BY <2>1, <2>4, MemoryStays DEF IInv
  <1>9. ASSUME Retry PROVE IInv'
    <2>1. PICK p \in retryable, c \in Contents, k \in AnyKey :
            linked' = linked \cup {p.id} /\ Execute(c, k, TRUE)
      BY <1>9 DEF Retry, AnyKey
    <2>2. stage = "staged" /\ stage' = "retried"
      BY <1>9 DEF Retry
    <2>3. linked' \subseteq 1..Total
      BY <1>1, <2>1 DEF TypeOK
    <2> QED BY <2>1, <2>2, <2>3, ExecuteKeeps
  <1>10. ASSUME Cancel PROVE IInv'
    <2>1. PICK p \in queue : Dequeue(p)
      BY <1>10 DEF Cancel
    <2>2. /\ UNCHANGED <<tick, stage, faulty, open, attempts, cost, total, failed, seen, keys>>
          /\ UNCHANGED <<retryable, linked, spent>> /\ stage = "idle"
      BY <1>10 DEF Cancel, budget, retries
    <2>3. Settles
      BY <1>1, <2>1, DequeueSettles
    <2>4. log' \in Seq(Entry) /\ Len(log') = Len(log) /\ queue' \subseteq queue
      BY <2>3 DEF Settles
    <2>5. TypeOK' /\ Counted'
      BY <1>1, <2>2, <2>4 DEF TypeOK, Counted
    <2> QED BY <1>1, <2>2, <2>3, <2>5, SettlesKeeps DEF IInv
  <1>11. ASSUME UNCHANGED vars PROVE IInv'
    <2>1. /\ UNCHANGED <<tick, stage, faulty, open, attempts, cost, total, failed, seen, keys, queue>>
          /\ UNCHANGED <<retryable, linked, log, spent>>
      BY <1>11 DEF vars, budget, memory, retries
    <2>2. TypeOK' /\ Counted'
      BY <1>1, <2>1 DEF TypeOK, Counted
    <2> QED BY <2>1, <2>2, MemoryStays DEF IInv
  <1> QED BY <1>2, <1>3, <1>4, <1>5, <1>6, <1>7, <1>8, <1>9, <1>10, <1>11 DEF Next

LEMMA BooksKeep ==
  ASSUME SharesBudget, TypeOK, Books, [Next]_vars
  PROVE  Books'
  <1>1. /\ open \in BOOLEAN /\ attempts \in Nat /\ cost \in Nat /\ spent \in [calls : Nat, cost : Nat]
    BY LogFacts DEF TypeOK
  <1>2. ASSUME stage = "idle", BeginTick(~open), UNCHANGED spent, stage' \in {"investigation", "control"}
        PROVE  spent'.calls = attempts' /\ spent'.cost = cost'
    <2>1. CASE open
      BY <1>2, <2>1 DEF BeginTick, Books
    <2>2. CASE ~open
      BY <1>2, <2>2 DEF BeginTick, Books
    <2> QED BY <1>1, <2>1, <2>2
  <1>3. CASE Investigate
    BY <1>2, <1>3 DEF Investigate, Books
  <1>4. CASE EndInvestigation
    BY <1>4 DEF EndInvestigation, Books
  <1>5. CASE Control
    <2>1. open' = FALSE /\ BeginTick(~open)
      BY <1>5 DEF Control
    <2> QED BY <1>2, <1>5, <2>1 DEF Control, Books
  <1>6. CASE Stage
    BY <1>6 DEF Stage, budget, Books
  <1>7. CASE Advance
    BY <1>7 DEF Advance, budget, Books
  <1>8. ASSUME NEW c \in Contents, NEW k \in AnyKey, NEW retry \in BOOLEAN, Execute(c, k, retry),
               stage # "idle", stage' # "idle", open => stage' = "investigation"
        PROVE  Books'
    <2>1. spent.calls = attempts /\ spent.cost = cost /\ UNCHANGED open
      BY <1>8, CallEffect DEF Books
    <2>2. attempts' = attempts + 1
      BY <1>8, CallEffect
    <2>3. Cost[Tool[c]] \in Nat
      BY ConstantFacts
    <2>4. CASE UNCHANGED cost /\ spent' = [spent EXCEPT !.calls = @ + 1]
      BY <1>1, <1>8, <2>1, <2>2, <2>4 DEF Books
    <2>5. CASE /\ cost' = cost + Cost[Tool[c]]
               /\ spent' = [calls |-> spent.calls + 1, cost |-> spent.cost + Cost[Tool[c]]]
      BY <1>1, <1>8, <2>1, <2>2, <2>3, <2>5 DEF Books
    <2> QED BY <1>8, <2>4, <2>5, CallEffect
  <1>9. CASE Call
    <2>1. PICK c \in Contents, k \in AnyKey : Execute(c, k, FALSE)
      BY <1>9 DEF Call, AnyKey
    <2>2. stage \in {"investigation", "control"} /\ UNCHANGED stage
      BY <1>9 DEF Call
    <2> QED BY <1>8, <2>1, <2>2 DEF Books
  <1>10. CASE Malformed
    <2>1. /\ attempts' = attempts + 1 /\ UNCHANGED cost /\ spent' = [spent EXCEPT !.calls = @ + 1]
          /\ UNCHANGED <<stage, open>> /\ stage # "idle"
      BY <1>10 DEF Malformed, Uncharged
    <2> QED BY <1>1, <2>1 DEF Books
  <1>11. CASE Retry
    <2>1. PICK c \in Contents, k \in AnyKey : Execute(c, k, TRUE)
      BY <1>11 DEF Retry, AnyKey
    <2>2. stage = "staged" /\ stage' = "retried" /\ ~open
      BY <1>11 DEF Retry, Books
    <2> QED BY <1>8, <2>1, <2>2
  <1>12. CASE Cancel
    BY <1>12 DEF Cancel, budget, Books
  <1>13. CASE UNCHANGED vars
    BY <1>13 DEF vars, budget, Books
  <1> QED BY <1>3, <1>4, <1>5, <1>6, <1>7, <1>9, <1>10, <1>11, <1>12, <1>13 DEF Next

-----------------------------------------------------------------------------
(* What holds in every behaviour *)

(* Whatever tools, costs, delays, windows and budgets there are, every state of *)
(* the registry satisfies the inductive invariant.                           *)
THEOREM Invariance == Spec => []IInv
  <1>1. Init => IInv
    BY InitInv
  <1>2. IInv /\ [Next]_vars => IInv'
    BY Inductive
  <1> QED BY <1>1, <1>2, PTL DEF Spec

(* The counters stay within the budgets they are compared with, and no call is *)
(* queued for the horizon or later.                                          *)
THEOREM TypeCorrect == Spec => []TypeOK
  <1>1. IInv => TypeOK
    BY DEF IInv
  <1> QED BY <1>1, Invariance, PTL

(* An environment whose step goes on with the budget that an investigation       *)
(* opened spends one tick's budget between two advances of the simulator.      *)
THEOREM TickBudgetKept ==
  ASSUME SharesBudget
  PROVE  Spec => []OneBudgetPerTick
  <1>1. Init => Books
    BY InitInv
  <1>2. IInv /\ Books /\ [Next]_vars => Books'
    BY BooksKeep DEF IInv
  <1>3. IInv /\ Books => OneBudgetPerTick
    <2> SUFFICES ASSUME IInv, Books PROVE OneBudgetPerTick
      OBVIOUS
    <2>1. attempts <= PerTick /\ cost <= CostPerTick /\ PerTick \in Nat /\ CostPerTick \in Nat
      BY ConstantFacts DEF IInv, TypeOK
    <2>2. \/ spent.calls = 0 /\ spent.cost = 0
          \/ spent.calls = attempts /\ spent.cost = cost
      BY DEF IInv, TypeOK, Books
    <2> QED BY <2>1, <2>2 DEF OneBudgetPerTick
  <1> QED BY <1>1, <1>2, <1>3, Invariance, PTL DEF Spec

(* A queued call waits for a tick that is still to come, every other one has    *)
(* left the queue, and at the horizon the queue is empty.                    *)
THEOREM CallsSettle == Spec => []QueuedCallsSettle
  <1>1. IInv => QueuedCallsSettle
    <2> SUFFICES ASSUME IInv PROVE QueuedCallsSettle
      OBVIOUS
    <2>1. TypeOK /\ QueueInv
      BY DEF IInv
    <2>2. tick = Horizon => queue = {}
      <3>1. \A p \in queue : p.due >= tick /\ p.due \in 0..(Horizon - 1)
        BY <2>1 DEF QueueInv, TypeOK
      <3> QED BY <3>1, ConstantFacts
    <2>3. \A i \in DOMAIN log :
            log[i].state = "queued" <=> \E p \in queue : p.id = i /\ p.due >= tick
      BY <2>1 DEF QueueInv
    <2> QED BY <2>2, <2>3 DEF QueuedCallsSettle
  <1> QED BY <1>1, Invariance, PTL

(* A key has one meaning for the episode: the calls accepted under it, retries  *)
(* included, have the same content.                                          *)
THEOREM KeysKeepTheirMeaning == Spec => []OneMeaningPerKey
  <1>1. IInv => OneMeaningPerKey
    <2> SUFFICES ASSUME IInv, NEW i \in DOMAIN log, NEW j \in DOMAIN log,
                        Accepted(i), Accepted(j), log[i].key = log[j].key, log[i].key # NoKey
                 PROVE  log[i].what = log[j].what
      BY DEF OneMeaningPerKey
    <2>1. log[i].key \in Keys
      BY LogFacts DEF IInv, Entry
    <2> QED BY <2>1 DEF IInv, Remembered
  <1> QED BY <1>1, Invariance, PTL

(* Equal calls are accepted more than a window apart, because a call that        *)
(* escapes the suppression after a failure meets the cooldown: for any two       *)
(* windows.                                                                  *)
THEOREM DuplicatesKeptApart == Spec => []DuplicatesApart
  <1>1. IInv => DuplicatesApart
    BY DEF IInv
  <1> QED BY <1>1, Invariance, PTL

(* What became of a call is never changed, and no call is forgotten: only a     *)
(* queued one is delivered or canceled, whichever stage of the tick comes first. *)
THEOREM CallsSettleOnce == Spec => SettledOnce
  <1> DEFINE Final == \A i \in DOMAIN log : /\ i \in DOMAIN log'
                                            /\ log[i].state # "queued" => log'[i] = log[i]
  <1>1. ASSUME IInv, [Next]_vars PROVE Final
    <2>1. TypeOK /\ QueueInv
      BY <1>1 DEF IInv
    <2>2. ASSUME UNCHANGED log PROVE Final
      BY <2>2
    <2>3. ASSUME Materialize(Due) PROVE Final
      <3>1. log' = [i \in DOMAIN log |-> IF \E p \in Due : p.id = i
                                        THEN [log[i] EXCEPT !.state = "delivered"]
                                        ELSE log[i]]
        BY <2>3 DEF Materialize
      <3>2. \A p \in Due : log[p.id].state = "queued"
        BY <2>1 DEF Due, QueueInv
      <3> QED BY <3>1, <3>2
    <2>4. ASSUME NEW p \in queue, Dequeue(p) PROVE Final
      <3>1. log' = [log EXCEPT ![p.id].state = "canceled"]
        BY <2>4 DEF Dequeue
      <3>2. log[p.id].state = "queued"
        BY <2>1 DEF QueueInv
      <3>3. DOMAIN log' = DOMAIN log /\ \A i \in DOMAIN log : i # p.id => log'[i] = log[i]
        BY <3>1
      <3> QED BY <3>2, <3>3
    <2>5. ASSUME NEW c \in Contents, NEW k \in AnyKey, NEW retry \in BOOLEAN, Execute(c, k, retry)
          PROVE  Final
      <3>1. ASSUME NEW state \in States, Logged(c, k, retry, state) PROVE Final
        <4>1. log' = Append(log, NewEntry(c, k, retry, state))
          BY <3>1 DEF Logged, NewEntry
        <4>2. NewEntry(c, k, retry, state) \in Entry
          BY <2>1, EntryType
        <4> QED BY <2>1, <4>1, <4>2, Goes_On
      <3>2. \/ UNCHANGED log
            \/ \E state \in {"injected", "queued", "ran"} : Logged(c, k, retry, state)
        BY <2>5 DEF Execute, Turned, Inject, TooLate, Enqueue, Run
      <3> QED BY <2>2, <3>1, <3>2 DEF States
    <2>6. CASE Investigate \/ Control
      BY <2>3, <2>6 DEF Investigate, Control
    <2>7. CASE EndInvestigation \/ Stage \/ Advance \/ Malformed \/ UNCHANGED vars
      BY <2>2, <2>7 DEF EndInvestigation, Stage, Advance, Malformed, vars
    <2>8. CASE Call \/ Retry
      <3>1. \E c \in Contents, k \in AnyKey, retry \in BOOLEAN : Execute(c, k, retry)
        BY <2>8 DEF Call, Retry, AnyKey
      <3>2. PICK c \in Contents, k \in AnyKey, retry \in BOOLEAN : Execute(c, k, retry)
        BY <3>1
      <3> HIDE DEF Final
      <3> QED BY <2>5, <3>2
    <2>9. CASE Cancel
      BY <2>4, <2>9 DEF Cancel
    <2> QED BY <1>1, <2>6, <2>7, <2>8, <2>9 DEF Next
  <1>2. ASSUME IInv, [Next]_vars
        PROVE  [\A i \in DOMAIN log : /\ i \in DOMAIN log'
                                      /\ log[i].state # "queued" => log'[i] = log[i]]_vars
    BY <1>1, <1>2
  <1> QED BY <1>2, Invariance, PTL DEF Spec, SettledOnce
=============================================================================
