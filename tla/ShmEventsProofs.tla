-------------------------- MODULE ShmEventsProofs ---------------------------
(***************************************************************************)
(* Proofs about the event manager of the shared-memory transport, for any  *)
(* finite set of transports on one ring and any number of messages in      *)
(* either direction: the ring keeps as many waits as it has transports,    *)
(* and on a ring of its own a transport never misses a wake-up.            *)
(***************************************************************************)
EXTENDS ShmEvents, FiniteSetTheorems, TLAPS

-----------------------------------------------------------------------------
(* The set of waits asleep *)

LEMMA InAsleep ==
  ASSUME NEW p
  PROVE  p \in Asleep <=> \E t \in Transports : \E i \in 1..armed[t] : p = <<t, i>>
BY DEF Asleep

\* One more wait, or one less, is one element more or less.
LEMMA AsleepMore ==
  ASSUME NEW t \in Transports, armed \in [Transports -> Nat],
         armed' = [armed EXCEPT ![t] = @ + 1], IsFiniteSet(Asleep)
  PROVE  IsFiniteSet(Asleep') /\ Cardinality(Asleep') = Cardinality(Asleep) + 1
<1> DEFINE new == <<t, armed[t] + 1>>
<1>1. new \notin Asleep
  BY InAsleep
<1>2. Asleep' = Asleep \cup {new}
  <2>1. ASSUME NEW p \in Asleep' PROVE p \in Asleep \cup {new}
    <3>0. PICK u \in Transports : \E i \in 1..armed'[u] : p = <<u, i>>
      BY <2>1 DEF Asleep
    <3>1. PICK i \in 1..armed'[u] : p = <<u, i>>
      BY <3>0
    <3>2. CASE u = t /\ i = armed[t] + 1
      BY <3>1, <3>2
    <3>3. CASE ~(u = t /\ i = armed[t] + 1)
      <4>1. i \in 1..armed[u]
        BY <3>1, <3>3
      <4>2. QED
        BY <3>1, <4>1, InAsleep
    <3>4. QED
      BY <3>2, <3>3
  <2>2. ASSUME NEW u \in Transports, NEW i \in 1..armed'[u] PROVE <<u, i>> \in Asleep'
    BY DEF Asleep
  <2>3. ASSUME NEW p \in Asleep PROVE p \in Asleep'
    <3>0. PICK u \in Transports : \E i \in 1..armed[u] : p = <<u, i>>
      BY <2>3, InAsleep
    <3>1. PICK i \in 1..armed[u] : p = <<u, i>>
      BY <3>0
    <3>2. i \in 1..armed'[u]
      BY <3>1
    <3>3. QED
      BY <3>1, <3>2, <2>2
  <2>4. new \in Asleep'
    <3>1. armed[t] + 1 \in 1..armed'[t]
      OBVIOUS
    <3>2. QED
      BY <3>1, <2>2
  <2>5. QED
    BY <2>1, <2>3, <2>4
<1>3. QED
  BY <1>1, <1>2, FS_AddElement

LEMMA AsleepLess ==
  ASSUME NEW t \in Transports, armed \in [Transports -> Nat], armed[t] > 0,
         armed' = [armed EXCEPT ![t] = @ - 1], IsFiniteSet(Asleep)
  PROVE  IsFiniteSet(Asleep') /\ Cardinality(Asleep') = Cardinality(Asleep) - 1
<1> DEFINE old == <<t, armed[t]>>
<1>1. old \in Asleep
  <2>1. armed[t] \in 1..armed[t]
    OBVIOUS
  <2>2. QED
    BY <2>1, InAsleep
<1>2. Asleep' = Asleep \ {old}
  <2>1. ASSUME NEW p \in Asleep' PROVE p \in Asleep \ {old}
    <3>0. PICK u \in Transports : \E i \in 1..armed'[u] : p = <<u, i>>
      BY <2>1 DEF Asleep
    <3>1. PICK i \in 1..armed'[u] : p = <<u, i>>
      BY <3>0
    <3>2. i \in 1..armed[u] /\ ~(u = t /\ i = armed[t])
      BY <3>1
    <3>3. QED
      BY <3>1, <3>2, InAsleep
  <2>2. ASSUME NEW u \in Transports, NEW i \in 1..armed'[u] PROVE <<u, i>> \in Asleep'
    BY DEF Asleep
  <2>3. ASSUME NEW p \in Asleep \ {old} PROVE p \in Asleep'
    <3>0. PICK u \in Transports : \E i \in 1..armed[u] : p = <<u, i>>
      BY <2>3, InAsleep
    <3>1. PICK i \in 1..armed[u] : p = <<u, i>>
      BY <3>0
    <3>2. i \in 1..armed'[u]
      BY <3>1, <2>3
    <3>3. QED
      BY <3>1, <3>2, <2>2
  <2>4. QED
    BY <2>1, <2>3
<1>3. QED
  BY <1>1, <1>2, FS_RemoveElement

\* At the start each transport has one wait.
LEMMA AsleepAtFirst ==
  ASSUME Init
  PROVE  IsFiniteSet(Asleep) /\ Cardinality(Asleep) = Cardinality(Transports)
<1>1. Asleep = Transports \X {1}
  <2>1. \A t \in Transports : 1..armed[t] = {1}
    BY DEF Init
  <2>2. QED
    BY <2>1 DEF Asleep
<1>2. IsFiniteSet({1}) /\ Cardinality({1}) = 1
  BY FS_Singleton
<1>3. IsFiniteSet(Transports) /\ Cardinality(Transports) \in Nat
  BY EventsAssumption, FS_CardinalityType
<1>4. QED
  BY <1>1, <1>2, <1>3, FS_Product

-----------------------------------------------------------------------------
(* The inductive invariant *)

\* A counter never exceeds what was sent, and a call is about a transport.
Counted ==
  /\ \A t \in Transports : num[t] <= arrivals[t] /\ toWake[t] <= arrivals[t]
  /\ pc # "loop" => current \in Transports

Inv == TypeOK /\ Counted /\ IsFiniteSet(Asleep) /\ WaitsConserved

LEMMA EntryType ==
  ASSUME NEW t \in Transports, NEW r \in Results
  PROVE  [of |-> t, res |-> r] \in Entries
BY DEF Entries

\* Cardinality(Asleep) and the length of the queue are numbers.
LEMMA Numbers ==
  ASSUME Inv
  PROVE  Cardinality(Asleep) \in Nat /\ Cardinality(Transports) \in Nat /\ Len(cq) \in Nat
BY EventsAssumption, FS_CardinalityType DEF Inv, TypeOK

\* A completion is added at the end of the queue, or taken from its head.
LEMMA QueueMore ==
  ASSUME TypeOK, NEW e \in Entries, cq' = Append(cq, e)
  PROVE  cq' \in Seq(Entries) /\ Len(cq') = Len(cq) + 1
BY DEF TypeOK

LEMMA QueueLess ==
  ASSUME TypeOK, cq # <<>>, cq' = Tail(cq)
  PROVE  cq' \in Seq(Entries) /\ Len(cq') = Len(cq) - 1 /\ Head(cq).of \in Transports
<1>1. cq' \in Seq(Entries) /\ Len(cq') = Len(cq) - 1 /\ Head(cq) \in Entries
  BY DEF TypeOK
<1>2. QED
  BY <1>1 DEF Entries

\* A wait that is submitted sleeps or completes: it is counted either way.
LEMMA WaitCounted ==
  ASSUME Inv, NEW t \in Transports, Wait(t)
  PROVE  /\ armed' \in [Transports -> Nat] /\ cq' \in Seq(Entries)
         /\ IsFiniteSet(Asleep')
         /\ Cardinality(Asleep') + Len(cq') = Cardinality(Asleep) + Len(cq) + 1
         /\ Len(cq') \in Nat /\ Cardinality(Asleep') \in Nat
<1>a. /\ cq \in Seq(Entries) /\ armed \in [Transports -> Nat] /\ IsFiniteSet(Asleep)
      /\ Cardinality(Asleep) \in Nat /\ Len(cq) \in Nat
  BY Numbers DEF Inv, TypeOK
<1>1. CASE num[t] = 0
  <2>1. armed' = [armed EXCEPT ![t] = @ + 1] /\ cq' = cq
    BY <1>1 DEF Wait
  <2>2. armed' \in [Transports -> Nat]
    BY <2>1 DEF Inv, TypeOK
  <2>3. IsFiniteSet(Asleep') /\ Cardinality(Asleep') = Cardinality(Asleep) + 1
    BY <2>1, AsleepMore DEF Inv, TypeOK
  <2>4. QED
    BY <2>1, <2>2, <2>3, <1>a
<1>2. CASE num[t] # 0
  <2>1. cq' = Append(cq, [of |-> t, res |-> "-EAGAIN"]) /\ armed' = armed
    BY <1>2 DEF Wait
  <2>2. cq' \in Seq(Entries) /\ Len(cq') = Len(cq) + 1
    BY <2>1, EntryType, QueueMore DEF Results, Inv
  <2>3. IsFiniteSet(Asleep') /\ Cardinality(Asleep') = Cardinality(Asleep)
    <3>1. Asleep' = Asleep
      BY <2>1 DEF Asleep
    <3>2. QED
      BY <3>1, <1>a
  <2>4. armed' \in [Transports -> Nat]
    BY <2>1, <1>a
  <2>5. Cardinality(Asleep') + Len(cq') = Cardinality(Asleep) + Len(cq) + 1
    BY <2>2, <2>3, <1>a
  <2>6. Len(cq') \in Nat /\ Cardinality(Asleep') \in Nat
    BY <2>2, <2>3, <1>a
  <2>7. QED
    BY <2>2, <2>3, <2>4, <2>5, <2>6
<1>3. QED
  BY <1>1, <1>2

LEMMA Step ==
  ASSUME Inv, [Next]_vars
  PROVE  Inv'
<1>a. /\ Cardinality(Asleep) \in Nat /\ Cardinality(Transports) \in Nat /\ Len(cq) \in Nat
      /\ MaxArrivals \in Nat /\ MaxSends \in Nat
  BY Numbers, EventsAssumption
<1>1. CASE HandleEvent
  <2>1. /\ pc = "loop" /\ pc' = "receive" /\ current' = Head(cq).of
        /\ UNCHANGED <<num, toWake, armed, arrivals, sends>>
    BY <1>1 DEF HandleEvent
  <2>2. cq' \in Seq(Entries) /\ Len(cq') = Len(cq) - 1 /\ current' \in Transports
    BY <1>1, <2>1, QueueLess DEF HandleEvent, Inv
  <2>3. TypeOK' /\ Counted'
    BY <2>1, <2>2 DEF Inv, TypeOK, Counted
  <2>4. Asleep' = Asleep
    BY <2>1 DEF Asleep
  <2>5. WaitsConserved'
    BY <2>1, <2>2, <2>4, <1>a DEF Inv, WaitsConserved
  <2>6. QED
    BY <2>3, <2>4, <2>5 DEF Inv
<1>2. CASE ReceiveMessage
  <2>1. /\ pc = "receive" /\ pc' = "rearm"
        /\ num' = [num EXCEPT ![current] = IF @ = 0 THEN 0 ELSE @ - 1]
        /\ UNCHANGED <<toWake, armed, cq, current, arrivals, sends>>
    BY <1>2 DEF ReceiveMessage
  <2>2. current \in Transports
    BY <2>1 DEF Inv, Counted
  <2>3. num' \in [Transports -> 0..MaxArrivals] /\ \A t \in Transports : num'[t] <= num[t]
    BY <2>1, <2>2, <1>a DEF Inv, TypeOK
  <2>4. TypeOK'
    BY <2>1, <2>2, <2>3 DEF Inv, TypeOK
  <2>5. Counted'
    BY <2>1, <2>2, <2>3, <1>a DEF Inv, TypeOK, Counted
  <2>6. Asleep' = Asleep
    BY <2>1 DEF Asleep
  <2>7. WaitsConserved'
    BY <2>1, <2>6, <1>a DEF Inv, WaitsConserved
  <2>8. QED
    BY <2>4, <2>5, <2>6, <2>7 DEF Inv
<1>3. CASE WaitMessages
  <2>1. /\ pc = "rearm" /\ pc' = "loop" /\ current' = NoTransport
        /\ Wait(current) /\ current \in Transports
        /\ UNCHANGED <<num, toWake, arrivals, sends>>
    BY <1>3 DEF WaitMessages, Inv, Counted
  <2>2. /\ armed' \in [Transports -> Nat] /\ cq' \in Seq(Entries)
        /\ IsFiniteSet(Asleep')
        /\ Cardinality(Asleep') + Len(cq') = Cardinality(Asleep) + Len(cq) + 1
        /\ Len(cq') \in Nat /\ Cardinality(Asleep') \in Nat
    BY <2>1, WaitCounted
  <2>3. TypeOK' /\ Counted'
    BY <2>1, <2>2 DEF Inv, TypeOK, Counted
  <2>4. WaitsConserved'
    BY <2>1, <2>2, <1>a DEF Inv, WaitsConserved
  <2>5. QED
    BY <2>2, <2>3, <2>4 DEF Inv
<1>4. CASE SignalComplete
  <2>1. /\ pc = "await" /\ pc' = "loop" /\ current' = NoTransport
        /\ UNCHANGED <<num, toWake, armed, arrivals, sends>>
    BY <1>4 DEF SignalComplete
  <2>2. cq' \in Seq(Entries) /\ Len(cq') = Len(cq) - 1
    BY <1>4, QueueLess DEF SignalComplete, Inv
  <2>3. TypeOK' /\ Counted'
    BY <2>1, <2>2 DEF Inv, TypeOK, Counted
  <2>4. Asleep' = Asleep
    BY <2>1 DEF Asleep
  <2>5. WaitsConserved'
    BY <2>1, <2>2, <2>4, <1>a DEF Inv, WaitsConserved
  <2>6. QED
    BY <2>3, <2>4, <2>5 DEF Inv
<1>5. ASSUME NEW t \in Transports, PeerCount(t) PROVE Inv'
  <2>1. /\ arrivals[t] < MaxArrivals
        /\ arrivals' = [arrivals EXCEPT ![t] = @ + 1]
        /\ num' = [num EXCEPT ![t] = @ + 1]
        /\ toWake' = [toWake EXCEPT ![t] = @ + 1]
        /\ UNCHANGED <<armed, cq, pc, current, sends>>
    BY <1>5 DEF PeerCount
  <2>2. ASSUME NEW u \in Transports
        PROVE  /\ num'[u] \in 0..MaxArrivals /\ toWake'[u] \in 0..MaxArrivals /\ arrivals'[u] \in 0..MaxArrivals
               /\ num'[u] <= arrivals'[u] /\ toWake'[u] <= arrivals'[u]
    BY <2>1, <1>a DEF Inv, TypeOK, Counted
  <2>3. TypeOK' /\ Counted'
    BY <2>1, <2>2 DEF Inv, TypeOK, Counted
  <2>4. Asleep' = Asleep
    BY <2>1 DEF Asleep
  <2>5. WaitsConserved'
    BY <2>1, <2>4 DEF Inv, WaitsConserved
  <2>6. QED
    BY <2>3, <2>4, <2>5 DEF Inv
<1>6. ASSUME NEW t \in Transports, PeerWake(t) PROVE Inv'
  <2>1. /\ toWake[t] > 0
        /\ toWake' = [toWake EXCEPT ![t] = @ - 1]
        /\ UNCHANGED <<num, pc, current, arrivals, sends>>
    BY <1>6 DEF PeerWake
  <2>2. toWake' \in [Transports -> 0..MaxArrivals] /\ \A u \in Transports : toWake'[u] <= toWake[u]
    BY <2>1, <1>a DEF Inv, TypeOK
  <2>3. Counted'
    BY <2>1, <2>2, <1>a DEF Inv, TypeOK, Counted
  <2>4. CASE armed[t] > 0
    <3>1. armed' = [armed EXCEPT ![t] = @ - 1] /\ cq' = Append(cq, [of |-> t, res |-> "woken"])
      BY <1>6, <2>4 DEF PeerWake
    <3>2. cq' \in Seq(Entries) /\ Len(cq') = Len(cq) + 1
      BY <3>1, EntryType, QueueMore DEF Results, Inv
    <3>3. IsFiniteSet(Asleep') /\ Cardinality(Asleep') = Cardinality(Asleep) - 1
      BY <2>4, <3>1, AsleepLess DEF Inv, TypeOK
    <3>4. armed' \in [Transports -> Nat]
      BY <2>4, <3>1 DEF Inv, TypeOK
    <3>5. TypeOK'
      BY <2>1, <2>2, <3>2, <3>4 DEF Inv, TypeOK
    <3>6. WaitsConserved'
      BY <2>1, <3>2, <3>3, <1>a DEF Inv, WaitsConserved
    <3>7. QED
      BY <2>3, <3>3, <3>5, <3>6 DEF Inv
  <2>5. CASE ~(armed[t] > 0)
    <3>1. UNCHANGED <<armed, cq>>
      BY <1>6, <2>5 DEF PeerWake
    <3>2. TypeOK'
      BY <2>1, <2>2, <3>1 DEF Inv, TypeOK
    <3>3. Asleep' = Asleep
      BY <3>1 DEF Asleep
    <3>4. WaitsConserved'
      BY <2>1, <3>1, <3>3 DEF Inv, WaitsConserved
    <3>5. QED
      BY <2>3, <3>2, <3>3, <3>4 DEF Inv
  <2>6. QED
    BY <2>4, <2>5
<1>7. ASSUME NEW t \in Transports, SignalSubmit(t) PROVE Inv'
  <2>1. /\ pc = "loop" /\ pc' = "await" /\ current' = t
        /\ sends < MaxSends /\ sends' = sends + 1
        /\ UNCHANGED <<num, toWake, armed, arrivals>>
    BY <1>7 DEF SignalSubmit
  <2>2. cq' \in Seq(Entries) /\ Len(cq') = Len(cq) + 1
    BY <1>7, EntryType, QueueMore DEF SignalSubmit, Results, Inv
  <2>3. TypeOK' /\ Counted'
    BY <2>1, <2>2, <1>a DEF Inv, TypeOK, Counted
  <2>4. Asleep' = Asleep
    BY <2>1 DEF Asleep
  <2>5. WaitsConserved'
    BY <2>1, <2>2, <2>4, <1>a DEF Inv, WaitsConserved
  <2>6. QED
    BY <2>3, <2>4, <2>5 DEF Inv
<1>8. CASE UNCHANGED vars
  BY <1>8 DEF vars, Inv, TypeOK, Counted, Asleep, WaitsConserved
<1>9. QED
  BY <1>1, <1>2, <1>3, <1>4, <1>5, <1>6, <1>7, <1>8 DEF Next

THEOREM Invariance == Spec => []Inv
<1>1. Init => Inv
  <2> SUFFICES ASSUME Init PROVE Inv
    OBVIOUS
  <2>1. TypeOK /\ Counted
    BY EventsAssumption DEF Init, TypeOK, Counted
  <2>2. Cardinality(Asleep) = Cardinality(Transports) /\ IsFiniteSet(Asleep)
    BY AsleepAtFirst
  <2>3. Cardinality(Transports) \in Nat
    BY EventsAssumption, FS_CardinalityType
  <2>4. Len(cq) = 0 /\ pc = "loop"
    BY DEF Init
  <2>5. WaitsConserved
    BY <2>2, <2>3, <2>4 DEF WaitsConserved
  <2>6. QED
    BY <2>1, <2>2, <2>5 DEF Inv
<1>2. Inv /\ [Next]_vars => Inv'
  BY Step
<1>3. QED
  BY <1>1, <1>2, PTL DEF Spec

\* No step decrements num_messages below zero or wakes a wait that is not
\* asleep, and each call is about a transport of the ring.
THEOREM Typing == Spec => []TypeOK
<1>1. Inv => TypeOK
  BY DEF Inv
<1>2. QED
  BY <1>1, Invariance, PTL

\* However the completions that signal_new_message takes are mixed up with
\* those of the waits, the waits on a ring, asleep, completed or being handled,
\* stay as many as its transports.
THEOREM Conservation == Spec => []WaitsConserved
<1>1. Inv => WaitsConserved
  BY DEF Inv
<1>2. QED
  BY <1>1, Invariance, PTL

-----------------------------------------------------------------------------
(* One transport on the ring *)

\* A wait is asleep beside a message only while the wake-up of that message is
\* to come, and no other wait of the transport is.
SleepInv ==
  \A t \in Transports : armed[t] <= 1 /\ (armed[t] > 0 /\ num[t] > 0 => toWake[t] > 0)

LEMMA SingleWaits ==
  ASSUME Inv, NEW t, Transports = {t}
  PROVE  armed[t] + Len(cq) + (IF pc = "loop" THEN 0 ELSE 1) = 1 + IF pc = "await" THEN 2 ELSE 0
<1>1. armed[t] \in Nat
  BY DEF Inv, TypeOK
<1>2. Asleep = {t} \X (1..armed[t])
  BY DEF Asleep
<1>3. IsFiniteSet(1..armed[t]) /\ Cardinality(1..armed[t]) = armed[t]
  BY <1>1, FS_Interval
<1>4. IsFiniteSet({t}) /\ Cardinality({t}) = 1
  BY FS_Singleton
<1>5. Cardinality(Asleep) = 1 * armed[t]
  BY <1>2, <1>3, <1>4, FS_Product
<1>6. Cardinality(Asleep) = armed[t]
  BY <1>1, <1>5
<1>7. QED
  BY <1>4, <1>6 DEF Inv, WaitsConserved

\* The kernel compares the counter with 0 before a wait sleeps, the counter
\* grows only with a wake-up to come, and a wake-up that comes wakes the wait.
LEMMA SleepStep ==
  ASSUME Inv, SleepInv, [Next]_vars, NEW t, Transports = {t}
  PROVE  SleepInv'
<1>1. SUFFICES armed'[t] <= 1 /\ (armed'[t] > 0 /\ num'[t] > 0 => toWake'[t] > 0)
  BY DEF SleepInv
<1>2. /\ armed \in [Transports -> Nat] /\ num \in [Transports -> 0..MaxArrivals]
      /\ toWake \in [Transports -> 0..MaxArrivals] /\ t \in Transports /\ MaxArrivals \in Nat
      /\ Len(cq) \in Nat
  BY EventsAssumption DEF Inv, TypeOK
<1>3. armed[t] <= 1 /\ (armed[t] > 0 /\ num[t] > 0 => toWake[t] > 0)
  BY <1>2 DEF SleepInv
<1>4. CASE HandleEvent \/ SignalComplete
  BY <1>3, <1>4 DEF HandleEvent, SignalComplete
<1>5. CASE ReceiveMessage
  <2>1. num' = [num EXCEPT ![current] = IF @ = 0 THEN 0 ELSE @ - 1] /\ UNCHANGED <<toWake, armed>>
    BY <1>5 DEF ReceiveMessage
  <2>2. current = t
    BY <1>5 DEF ReceiveMessage, Inv, Counted
  <2>3. num'[t] <= num[t] /\ num'[t] \in Int
    BY <2>1, <2>2, <1>2
  <2>4. QED
    BY <2>1, <2>3, <1>2, <1>3
<1>6. CASE WaitMessages
  <2>1. pc = "rearm" /\ current = t /\ Wait(t) /\ UNCHANGED <<num, toWake>>
    BY <1>6 DEF WaitMessages, Inv, Counted
  <2>2. armed[t] = 0
    BY <2>1, <1>2, SingleWaits
  <2>3. CASE num[t] = 0
    BY <2>1, <2>2, <2>3, <1>2 DEF Wait
  <2>4. CASE num[t] # 0
    BY <2>1, <2>2, <2>4, <1>2 DEF Wait
  <2>5. QED
    BY <2>3, <2>4
<1>7. CASE PeerCount(t)
  BY <1>2, <1>3, <1>7 DEF PeerCount
<1>8. CASE PeerWake(t)
  <2>1. CASE armed[t] > 0
    <3>1. armed'[t] = 0
      BY <2>1, <1>2, <1>3, <1>8 DEF PeerWake
    <3>2. QED
      BY <3>1
  <2>2. CASE ~(armed[t] > 0)
    BY <2>2, <1>2, <1>8 DEF PeerWake
  <2>3. QED
    BY <2>1, <2>2
<1>9. CASE SignalSubmit(t)
  BY <1>3, <1>9 DEF SignalSubmit
<1>10. CASE UNCHANGED vars
  BY <1>3, <1>10 DEF vars
<1>11. QED
  BY <1>4, <1>5, <1>6, <1>7, <1>8, <1>9, <1>10 DEF Next

\* A process with one transport on its ring is never idle beside a message
\* that has been counted and signalled: event_manager_shm_wait_messages and
\* event_manager_shm_signal_new_message lose no wake-up between them, though a
\* signal may take the completion of the wait for its own.
THEOREM NoWakeMissed ==
  ASSUME NEW t, Transports = {t}
  PROVE  Spec => []NoMissedWake
<1>1. Init => SleepInv
  BY DEF Init, SleepInv
<1>2. Inv /\ SleepInv /\ [Next]_vars => SleepInv'
  BY SleepStep
<1>3. Inv /\ SleepInv => NoMissedWake
  <2> SUFFICES ASSUME Inv, SleepInv, cq = <<>>, pc = "loop", num[t] > 0 PROVE toWake[t] > 0
    BY DEF NoMissedWake
  <2>1. armed[t] \in Nat /\ Len(cq) = 0
    BY DEF Inv, TypeOK
  <2>2. armed[t] = 1
    BY <2>1, SingleWaits
  <2>3. QED
    BY <2>2 DEF SleepInv
<1>4. QED
  BY <1>1, <1>2, <1>3, Invariance, PTL DEF Spec
=============================================================================
