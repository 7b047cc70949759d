-------------------------- MODULE RpcDeliveryProofs --------------------------
(***************************************************************************)
(* Proofs about what passes between the two processes of Rpc: the types,   *)
(* and what becomes of every response.  They hold for a build that reads   *)
(* the type of a message as 0, as rpc.c does, and for one that reads it as *)
(* it was written, and for any width of the registry's key.                *)
(*                                                                         *)
(*   Typing     every value keeps its type, and every bound is kept        *)
(*   Delivered  a response runs the callback of its own request, and none  *)
(*              is missed; of a build that reads 0, no callback runs       *)
(*                                                                         *)
(* A direction of the transport is described by what is in the channel, by *)
(* the responses that were sent and by the callbacks that ran; the         *)
(* invariant of the registry says which callback a response finds.         *)
(***************************************************************************)
EXTENDS RpcProofs, FiniteSetTheorems

Msg == [id : Ids, type : MESSAGE..UNREADABLE, nth : Nat]
Requested == {MESSAGE, CALL, SUBSCRIPTION}
Given == [id : Ids, type : Requested, sentAs : MESSAGE..RESPONSE, nth : Nat]
Unreadable == [id : Ids, type : {UNREADABLE}, nth : Nat]
Responses(id) == [id : {id}, type : {RESPONSE}, nth : Nat]

\* Where a sequence has an element of R.
Places(s, R) == {i \in DOMAIN s : s[i] \in R}

\* The requests of a process that were given to its transport.
Gone(p) == Taken(p) \ writing[p]

DeliveryTypes ==
  /\ single \in BOOLEAN /\ reading \in Readings
  /\ channel \in [Processes -> Seq(Msg)]
  /\ inHand \in [Processes -> SUBSET Given]
  /\ kept \in [Processes -> Nat]
  /\ mishaps \in 0..MaxMishaps
  /\ answers \in [Processes -> [Ids -> Nat]]

\* What is on its way to p is a request the other process sent, or a response
\* to one that p sent.
Meant(p, m) ==
  /\ m.type \in Requested => m.id \in Gone(PeerOf[p])
  /\ m.type = RESPONSE => m.id \in Gone(p)

Carried(p) == \A i \in 1..Len(channel[p]) : Meant(p, channel[p][i])

InHand(p) == \A m \in inHand[p] : m.id \in Gone(Asker(p, m))

Asked(p) ==
  \A id \in Ids :
    /\ answers[PeerOf[p]][id] <= MaxResponses[PeerOf[p]]
    /\ answers[PeerOf[p]][id] > 0 => id \in Gone(p)

\* Every message that is kept is a mishap, or became unreadable by one.
Spoilt(p) == kept[p] + Cardinality(Places(channel[p], Unreadable)) <= mishaps

Nested(p) == Len(running[p]) <= MaxRunning

Wanted(p, id) == IF reading = "zero" THEN 0 ELSE Due(typeOf[p][id], Received(p, id))

\* The callback of a request has run for the responses that have arrived, when
\* no other request of the process has its key.
Answered(p, id) ==
  /\ OnTheirWay(p, id) <= answers[PeerOf[p]][id]
  /\ ~SharesKey(p, id) /\ id \notin reentered[p] => ran[p][id] = Wanted(p, id)

LinkInv(p) ==
  /\ Carried(p) /\ InHand(p) /\ Asked(p) /\ Spoilt(p) /\ Nested(p)
  /\ \A id \in Ids : Answered(p, id)

DeliveryInv == RegistryInv /\ DeliveryTypes /\ \A p \in Processes : LinkInv(p)

-----------------------------------------------------------------------------
(* Counting in a sequence *)

LEMMA PlacesFinite ==
  ASSUME NEW S, NEW s \in Seq(S), NEW R
  PROVE  IsFiniteSet(Places(s, R)) /\ Cardinality(Places(s, R)) \in Nat
<1>1. IsFiniteSet(1..Len(s)) /\ Places(s, R) \in SUBSET (1..Len(s))
  BY FS_Interval DEF Places
<1>2. QED
  BY <1>1, FS_Subset, FS_CardinalityType

LEMMA PlacesAppend ==
  ASSUME NEW S, NEW s \in Seq(S), NEW e \in S, NEW R
  PROVE  Cardinality(Places(Append(s, e), R))
           = Cardinality(Places(s, R)) + (IF e \in R THEN 1 ELSE 0)
<1> DEFINE P == Places(s, R)
           a == Append(s, e)
           n == Len(s)
<1>1. n \in Nat /\ DOMAIN s = 1..n /\ DOMAIN a = 1..(n + 1)
  OBVIOUS
<1>2. a[n + 1] = e /\ \A i \in 1..n : a[i] = s[i]
  OBVIOUS
<1>3. 1..(n + 1) = 1..n \cup {n + 1} /\ n + 1 \notin 1..n
  BY <1>1
<1> HIDE DEF a, n
<1>4. Places(a, R) = IF e \in R THEN P \cup {n + 1} ELSE P
  BY <1>1, <1>2, <1>3 DEF Places
<1>5. n + 1 \notin P
  BY <1>1, <1>3 DEF Places
<1>6. IsFiniteSet(P) /\ Cardinality(P) \in Nat
  BY PlacesFinite
<1> HIDE DEF P
<1>7. Cardinality(P \cup {n + 1}) = Cardinality(P) + 1
  BY <1>5, <1>6, FS_AddElement
<1>8. QED
  BY <1>4, <1>6, <1>7 DEF a, P

LEMMA PlacesTail ==
  ASSUME NEW S, NEW s \in Seq(S), s # <<>>, NEW R
  PROVE  Cardinality(Places(s, R))
           = Cardinality(Places(Tail(s), R)) + (IF Head(s) \in R THEN 1 ELSE 0)
<1> DEFINE P == Places(s, R)
           T == Places(Tail(s), R)
           t == Tail(s)
           n == Len(s)
           f == [i \in T |-> i + 1]
<1>1. n \in Nat \ {0} /\ DOMAIN s = 1..n /\ DOMAIN t = 1..(n - 1)
  OBVIOUS
<1>2. Head(s) = s[1] /\ \A i \in 1..(n - 1) : t[i] = s[i + 1]
  OBVIOUS
<1>3. IsFiniteSet(T) /\ Cardinality(T) \in Nat /\ IsFiniteSet(P) /\ Cardinality(P) \in Nat
  <2>1. Tail(s) \in Seq(S)
    OBVIOUS
  <2>2. QED
    BY <2>1, PlacesFinite
<1> HIDE DEF t, n
<1>4. T = {i \in 1..(n - 1) : s[i + 1] \in R}
  BY <1>1, <1>2 DEF Places, t
<1>5. P \ {1} = {i \in 2..n : s[i] \in R}
  BY <1>1 DEF Places
<1>6. 1 \in P <=> Head(s) \in R
  BY <1>1, <1>2 DEF Places
<1> HIDE DEF P, T
<1>7. f \in Bijection(T, P \ {1})
  <2>1. \A i \in T : i \in Int /\ i + 1 \in P \ {1}
    BY <1>1, <1>4, <1>5
  <2>2. \A j \in P \ {1} : j - 1 \in T /\ (j - 1) + 1 = j
    BY <1>1, <1>4, <1>5
  <2>3. f \in Injection(T, P \ {1})
    BY <2>1 DEF Injection, IsInjective
  <2>4. f \in Surjection(T, P \ {1})
    BY <2>1, <2>2 DEF Surjection
  <2>5. QED
    BY <2>3, <2>4 DEF Bijection
<1>8. Cardinality(P \ {1}) = Cardinality(T)
  BY <1>3, <1>7, FS_Bijection DEF ExistsBijection
<1>9. Cardinality(P \ {1}) = IF 1 \in P THEN Cardinality(P) - 1 ELSE Cardinality(P)
  BY <1>3, FS_RemoveElement
<1>10. QED
  BY <1>3, <1>6, <1>8, <1>9 DEF P, T

LEMMA Counted ==
  ASSUME NEW c \in Seq(Msg), NEW id
  PROVE  Cardinality({i \in DOMAIN c : c[i].id = id /\ c[i].type = RESPONSE})
           = Cardinality(Places(c, Responses(id)))
<1>1. \A i \in DOMAIN c : c[i] \in Msg
  OBVIOUS
<1>2. \A m \in Msg : m.id = id /\ m.type = RESPONSE <=> m \in Responses(id)
  BY DEF Msg, Responses
<1>3. {i \in DOMAIN c : c[i].id = id /\ c[i].type = RESPONSE} = Places(c, Responses(id))
  BY <1>1, <1>2 DEF Places
<1>4. QED
  BY <1>3

-----------------------------------------------------------------------------
(* What a step leaves as it was *)

\* A request that was sent keeps its id and its type.
LEMMA GoneStays ==
  ASSUME RegistryInv, [Next]_vars, NEW p \in Processes
  PROVE  Gone(p) \subseteq Gone(p)' /\ \A id \in Gone(p) : typeOf'[p][id] = typeOf[p][id]
<1>1. RegistryTypes /\ Requests(p)
  BY DEF RegistryInv, ProcessInv
<1>2. CASE UNCHANGED <<idCounter, writing, typeOf>>
  BY <1>2 DEF Gone, Taken
<1>3. ASSUME NEW r \in Processes, NEW type \in MESSAGE..SUBSCRIPTION, Open(r, type)
      PROVE  Gone(p) \subseteq Gone(p)' /\ \A id \in Gone(p) : typeOf'[p][id] = typeOf[p][id]
  <2>1. /\ idCounter' = [idCounter EXCEPT ![r] = @ + 1]
        /\ typeOf' = [typeOf EXCEPT ![r][idCounter[r]] = type]
        /\ writing' = [writing EXCEPT ![r] = @ \cup {idCounter[r]}]
    BY <1>3 DEF Open
  <2>2. CASE r = p
    <3>1. idCounter[p] \in Nat /\ idCounter[p] \notin Gone(p) /\ Gone(p) \subseteq Nat
      BY <1>1 DEF RegistryTypes, Gone, Taken
    <3>2. /\ idCounter'[p] = idCounter[p] + 1
          /\ writing'[p] = writing[p] \cup {idCounter[p]}
          /\ \A id : id # idCounter[p] => typeOf'[p][id] = typeOf[p][id]
      BY <1>1, <2>1, <2>2 DEF RegistryTypes
    <3>3. QED
      BY <3>1, <3>2 DEF Gone, Taken
  <2>3. CASE r # p
    BY <1>1, <2>1, <2>3 DEF RegistryTypes, Gone, Taken
  <2>4. QED
    BY <2>2, <2>3
<1>4. ASSUME NEW r \in Processes, NEW i, UNCHANGED <<idCounter, typeOf>>,
             writing' = [writing EXCEPT ![r] = @ \ {i}]
      PROVE  Gone(p) \subseteq Gone(p)' /\ \A id \in Gone(p) : typeOf'[p][id] = typeOf[p][id]
  BY <1>1, <1>4 DEF RegistryTypes, Gone, Taken
<1>5. CASE UNCHANGED vars
  BY <1>2, <1>5 DEF vars, local
<1>6. ASSUME NEW r \in Processes, NEW id \in writing[r], SendMessage(r, id) \/ SendRequest(r, id)
      PROVE  UNCHANGED <<idCounter, typeOf>> /\ writing' = [writing EXCEPT ![r] = @ \ {id}]
  BY <1>6 DEF SendMessage, SendRequest
<1>7. ASSUME NEW r \in Processes,
             \/ Register(r) \/ RegisterFails(r) \/ HandleIncomingMessage(r) \/ KeepMessage(r) \/ CallbackReturns(r)
             \/ \E m \in inHand[r] : Respond(r, m) \/ Release(r, m)
             \/ \E id \in writing[r] : Cancel(r, id)
             \/ DestroyRpc(r)
      PROVE  UNCHANGED <<idCounter, writing, typeOf>>
  BY <1>7 DEF Register, RegisterFails, HandleIncomingMessage, KeepMessage, CallbackReturns, Respond, Release,
     Cancel, DestroyRpc, local
<1>8. QED
  BY <1>2, <1>3, <1>4, <1>5, <1>6, <1>7 DEF Next

\* What the transport and the library do is settled, and ids stay taken: two
\* requests that share a key go on to share it.
LEMMA Settled ==
  ASSUME RegistryInv, [Next]_vars, NEW p \in Processes
  PROVE  /\ single' = single /\ reading' = reading
         /\ \A id : SharesKey(p, id) => SharesKey(p, id)'
<1>1. RegistryTypes
  BY DEF RegistryInv
<1>2. UNCHANGED setting
  BY DEF Next, vars, Open, SendMessage, SendRequest, Cancel, Register, RegisterFails,
     HandleIncomingMessage, KeepMessage, CallbackReturns, Respond, Release, DestroyRpc
<1>3. Taken(p) \subseteq Taken(p)'
  <2>1. CASE UNCHANGED idCounter
    BY <2>1 DEF Taken
  <2>2. ASSUME NEW r \in Processes, NEW type \in MESSAGE..SUBSCRIPTION, Open(r, type)
        PROVE  Taken(p) \subseteq Taken(p)'
    <3>1. idCounter[p] \in Nat /\ idCounter'[p] \in {idCounter[p], idCounter[p] + 1}
      BY <1>1, <2>2 DEF Open, RegistryTypes
    <3>2. QED
      BY <3>1 DEF Taken
  <2>3. QED
    BY <2>1, <2>2 DEF Next, vars, local, SendMessage, SendRequest, Cancel, Register, RegisterFails,
       HandleIncomingMessage, KeepMessage, CallbackReturns, Respond, Release, DestroyRpc
<1>4. QED
  BY <1>2, <1>3 DEF setting, SharesKey

\* A direction of which a step changes nothing that matters: messages may be
\* released, callbacks may return, and mishaps and requests may be added.
LEMMA QuietLink ==
  ASSUME DeliveryInv, RegistryInv', [Next]_vars, NEW r \in Processes,
         channel'[r] = channel[r], inHand'[r] \subseteq inHand[r], kept'[r] = kept[r],
         mishaps' \in Nat, mishaps <= mishaps', answers'[PeerOf[r]] = answers[PeerOf[r]],
         ran'[r] = ran[r], reentered[r] \subseteq reentered'[r],
         Len(running'[r]) <= MaxRunning
  PROVE  LinkInv(r)'
<1> DEFINE q == PeerOf[r]
<1>1. q \in Processes /\ MaxIds[r] \in Nat /\ MaxResponses[q] \in Nat
  BY RpcAssumption
<1>2. RegistryInv /\ RegistryTypes /\ DeliveryTypes /\ LinkInv(r) /\ Requests(r)
  BY DEF DeliveryInv, RegistryInv, ProcessInv
<1>3. Gone(r) \subseteq Gone(r)' /\ \A id \in Gone(r) : typeOf'[r][id] = typeOf[r][id]
  BY <1>2, GoneStays
<1>4. Gone(q) \subseteq Gone(q)'
  BY <1>1, <1>2, GoneStays
<1>5. \A m : Meant(r, m) => Meant(r, m)'
  BY <1>3, <1>4 DEF Meant
<1>6. Carried(r)' /\ InHand(r)'
  BY <1>2, <1>3, <1>4, <1>5 DEF LinkInv, Carried, InHand, Asker
<1>7. Asked(r)'
  BY <1>2, <1>3 DEF LinkInv, Asked
<1>8. Spoilt(r)'
  <2>1. Cardinality(Places(channel[r], Unreadable)) \in Nat /\ kept[r] \in Nat /\ mishaps \in Nat
    BY <1>2, PlacesFinite, RpcAssumption DEF DeliveryTypes
  <2>2. kept[r] + Cardinality(Places(channel[r], Unreadable)) <= mishaps'
    BY <1>2, <2>1 DEF LinkInv, Spoilt
  <2>3. QED
    BY <2>2 DEF Spoilt
<1>9. Nested(r)'
  BY DEF Nested
<1>10. ASSUME NEW id \in Ids PROVE Answered(r, id)'
  <2>1. Answered(r, id) /\ answers[q][id] \in Nat /\ OnTheirWay(r, id) \in Nat
    <3>1. Answered(r, id) /\ answers[q][id] \in Nat
      BY <1>1, <1>2 DEF LinkInv, DeliveryTypes
    <3>2. channel[r] \in Seq(Msg)
      BY <1>2 DEF DeliveryTypes
    <3>3. Cardinality(Places(channel[r], Responses(id))) \in Nat
      BY <3>2, PlacesFinite
    <3>4. OnTheirWay(r, id) = Cardinality(Places(channel[r], Responses(id)))
      BY <3>2, Counted DEF OnTheirWay
    <3>5. QED
      BY <3>1, <3>3, <3>4
  <2>2. OnTheirWay(r, id)' = OnTheirWay(r, id) /\ Received(r, id)' = Received(r, id)
    BY DEF OnTheirWay, Received
  <2>3. CASE id \in Gone(r)
    <3>1. Wanted(r, id)' = Wanted(r, id)
      BY <1>2, <1>3, <2>2, <2>3, Settled DEF Wanted
    <3>2. QED
      BY <1>2, <2>1, <2>2, <3>1, Settled DEF Answered
  <2>4. CASE id \notin Gone(r)
    <3>1. answers[q][id] = 0 /\ Received(r, id) = 0
      BY <1>2, <2>1, <2>4 DEF LinkInv, Asked, Answered, Received
    <3>2. ran[r][id] = 0
      <4>1. ran[r][id] \in Nat /\ ~(ran[r][id] > 0)
        BY <1>2, <2>4 DEF RegistryTypes, Requests, Sent, Gone
      <4>2. QED
        BY <4>1
    <3>3. typeOf'[r][id] \in {MESSAGE, CALL, SUBSCRIPTION}
      BY DEF RegistryInv, RegistryTypes
    <3>4. Due(typeOf'[r][id], 0) = 0
      BY <3>3 DEF Due, MESSAGE, CALL, SUBSCRIPTION
    <3>5. QED
      BY <2>1, <2>2, <3>1, <3>2, <3>4 DEF Answered, Wanted
  <2>5. QED
    BY <2>3, <2>4
<1>11. QED
  BY <1>6, <1>7, <1>8, <1>9, <1>10 DEF LinkInv

LEMMA QuietKeeps ==
  ASSUME DeliveryInv, RegistryInv', [Next]_vars,
         UNCHANGED <<setting, channel, kept, answers, ran>>,
         mishaps' \in mishaps..MaxMishaps,
         inHand' \in [Processes -> SUBSET Given],
         \A r \in Processes : /\ inHand'[r] \subseteq inHand[r]
                              /\ reentered[r] \subseteq reentered'[r]
                              /\ Len(running'[r]) <= MaxRunning
  PROVE  DeliveryInv'
<1>1. mishaps \in 0..MaxMishaps /\ MaxMishaps \in Nat
  BY RpcAssumption DEF DeliveryInv, DeliveryTypes
<1>2. mishaps' \in 0..MaxMishaps /\ mishaps <= mishaps' /\ mishaps' \in Nat
  BY <1>1
<1>3. DeliveryTypes'
  BY <1>2 DEF DeliveryInv, DeliveryTypes, setting
<1>4. ASSUME NEW r \in Processes PROVE LinkInv(r)'
  BY <1>2, <1>4, QuietLink
<1>5. QED
  BY <1>3, <1>4 DEF DeliveryInv

-----------------------------------------------------------------------------
(* Messages that are sent *)

\* A message comes to the end of what is on its way to r.
LEMMA SentLink ==
  ASSUME DeliveryInv, RegistryInv', [Next]_vars, NEW r \in Processes, NEW m \in Msg,
         channel'[r] = Append(channel[r], m), Meant(r, m)',
         UNCHANGED <<typeOf, inHand, kept, ran, reentered, running>>,
         mishaps' = IF m.type = UNREADABLE THEN mishaps + 1 ELSE mishaps,
         \A id \in Ids : answers'[PeerOf[r]][id]
                          = answers[PeerOf[r]][id] + (IF m \in Responses(id) THEN 1 ELSE 0),
         m.type = RESPONSE => answers[PeerOf[r]][m.id] < MaxResponses[PeerOf[r]]
  PROVE  LinkInv(r)'
<1> DEFINE q == PeerOf[r]
           c == channel[r]
<1>1. q \in Processes /\ MaxIds[r] \in Nat /\ MaxResponses[q] \in Nat
  BY RpcAssumption
<1>2. RegistryInv /\ DeliveryTypes /\ LinkInv(r) /\ c \in Seq(Msg)
  BY DEF DeliveryInv, DeliveryTypes
<1>3. Gone(r) \subseteq Gone(r)' /\ Gone(q) \subseteq Gone(q)'
  BY <1>1, <1>2, GoneStays
<1>4. Carried(r)'
  <2>1. ASSUME NEW i \in 1..Len(channel'[r]), NEW x, x = channel'[r][i] PROVE Meant(r, x)'
    <3>1. CASE i \in 1..Len(c)
      <4>1. x = c[i] /\ Meant(r, x)
        BY <1>2, <2>1, <3>1 DEF LinkInv, Carried
      <4>2. QED
        BY <1>3, <4>1 DEF Meant
    <3>2. CASE i = Len(c) + 1
      BY <1>2, <2>1, <3>2
    <3>3. QED
      BY <1>2, <2>1, <3>1, <3>2
  <2>2. QED
    BY <2>1 DEF Carried, Meant
<1>5. InHand(r)'
  BY <1>2, <1>3 DEF LinkInv, InHand, Asker
<1>6. Asked(r)'
  <2>1. ASSUME NEW id \in Ids
        PROVE  /\ answers'[q][id] <= MaxResponses[q]
               /\ answers'[q][id] > 0 => id \in Gone(r)'
    <3>1. /\ answers[q][id] \in Nat /\ answers[q][id] <= MaxResponses[q]
          /\ answers[q][id] > 0 => id \in Gone(r)
      BY <1>1, <1>2 DEF LinkInv, Asked, DeliveryTypes
    <3>2. CASE m \in Responses(id)
      <4>1. m.type = RESPONSE /\ m.id = id
        BY <3>2 DEF Responses
      <4>2. QED
        BY <1>1, <3>1, <3>2, <4>1 DEF Meant
    <3>3. CASE m \notin Responses(id)
      BY <1>3, <3>1, <3>3
    <3>4. QED
      BY <3>2, <3>3
  <2>2. QED
    BY <2>1 DEF Asked
<1>7. Spoilt(r)'
  <2>1. m \in Unreadable <=> m.type = UNREADABLE
    BY DEF Msg, Unreadable
  <2>2. Cardinality(Places(channel'[r], Unreadable))
          = Cardinality(Places(c, Unreadable)) + (IF m.type = UNREADABLE THEN 1 ELSE 0)
    BY <1>2, <2>1, PlacesAppend
  <2>3. Cardinality(Places(c, Unreadable)) \in Nat /\ kept[r] \in Nat /\ mishaps \in Nat
    BY <1>2, PlacesFinite, RpcAssumption DEF DeliveryTypes
  <2>4. kept[r] + Cardinality(Places(c, Unreadable)) <= mishaps
    BY <1>2 DEF LinkInv, Spoilt
  <2>5. kept'[r] + Cardinality(Places(channel'[r], Unreadable)) <= mishaps'
    BY <2>2, <2>3, <2>4
  <2>6. QED
    BY <2>5 DEF Spoilt
<1>8. Nested(r)'
  BY <1>2 DEF LinkInv, Nested
<1>9. ASSUME NEW id \in Ids PROVE Answered(r, id)'
  <2>1. Answered(r, id) /\ answers[q][id] \in Nat
    BY <1>1, <1>2 DEF LinkInv, DeliveryTypes
  <2>2. /\ OnTheirWay(r, id) = Cardinality(Places(c, Responses(id)))
        /\ Cardinality(Places(c, Responses(id))) \in Nat
    BY <1>2, Counted, PlacesFinite DEF OnTheirWay
  <2>3. OnTheirWay(r, id)' = OnTheirWay(r, id) + (IF m \in Responses(id) THEN 1 ELSE 0)
    <3>1. channel'[r] \in Seq(Msg)
      BY <1>2
    <3>2. OnTheirWay(r, id)' = Cardinality(Places(channel'[r], Responses(id)))
      BY <3>1, Counted DEF OnTheirWay
    <3>3. Cardinality(Places(channel'[r], Responses(id)))
            = Cardinality(Places(c, Responses(id))) + (IF m \in Responses(id) THEN 1 ELSE 0)
      BY <1>2, PlacesAppend
    <3>4. QED
      BY <2>2, <3>2, <3>3
  <2>4. Received(r, id)' = Received(r, id)
    BY <2>1, <2>2, <2>3 DEF Received
  <2>5. Wanted(r, id)' = Wanted(r, id)
    BY <1>2, <2>4, Settled DEF Wanted
  <2>6. QED
    BY <1>2, <2>1, <2>2, <2>3, <2>5, Settled DEF Answered
<1>10. QED
  BY <1>4, <1>5, <1>6, <1>7, <1>8, <1>9 DEF LinkInv

LEMMA Peers ==
  ASSUME NEW p \in Processes
  PROVE  /\ PeerOf[p] \in Processes /\ PeerOf[PeerOf[p]] = p /\ PeerOf[p] # p
         /\ \A r \in Processes \ {PeerOf[p]} : PeerOf[r] # p
BY RpcAssumption

\* A request goes to the other process, or what reads as empty.
LEMMA RequestSent ==
  ASSUME DeliveryInv, RegistryInv', [Next]_vars, NEW p \in Processes, NEW id \in writing[p],
         SendMessage(p, id) \/ SendRequest(p, id)
  PROVE  DeliveryInv'
<1> DEFINE q == PeerOf[p]
<1>1. RegistryTypes /\ DeliveryTypes /\ Requests(p)
  BY DEF DeliveryInv, RegistryInv, ProcessInv
<1>2. id \in Taken(p) /\ id \in Ids /\ typeOf[p][id] \in Requested /\ id \in Gone(p)'
  <2>1. id \in Taken(p) /\ id \in Ids
    BY <1>1, TakenIds DEF Requests
  <2>2. writing'[p] = writing[p] \ {id} /\ Taken(p)' = Taken(p)
    BY <1>1 DEF SendMessage, SendRequest, RegistryTypes, Taken
  <2>3. QED
    BY <1>1, <2>1, <2>2 DEF RegistryTypes, Gone, Requested
<1>3. UNCHANGED <<setting, typeOf, inHand, kept, answers, ran, reentered, running>>
  BY DEF SendMessage, SendRequest, history
<1>4. PICK m \in Msg :
        /\ channel' = [channel EXCEPT ![q] = Append(@, m)]
        /\ m.type = UNREADABLE \/ (m.type \in Requested /\ m.id = id)
        /\ mishaps' = IF m.type = UNREADABLE THEN mishaps + 1 ELSE mishaps
        /\ mishaps' \in 0..MaxMishaps
  <2>1. TransmitRequest(p, id)
    BY DEF SendMessage, SendRequest
  <2>2. mishaps \in 0..MaxMishaps /\ MaxMishaps \in Nat
    BY <1>1, RpcAssumption DEF DeliveryTypes
  <2>3. CASE Transmit(p, id, typeOf[p][id], 0) /\ UNCHANGED mishaps
    <3>1. [id |-> id, type |-> typeOf[p][id], nth |-> 0] \in Msg /\ typeOf[p][id] # UNREADABLE
      BY <1>2 DEF Msg, Requested, MESSAGE, CALL, SUBSCRIPTION, UNREADABLE
    <3>2. QED
      BY <1>2, <2>2, <2>3, <3>1 DEF Transmit
  <2>4. CASE TransmitOpen(p, id)
    <3> DEFINE m == [id |-> id, type |-> UNREADABLE, nth |-> 0]
    <3>1. m \in Msg /\ m.type = UNREADABLE
      BY <1>2 DEF Msg, MESSAGE, UNREADABLE
    <3>2. channel' = [channel EXCEPT ![q] = Append(@, m)]
      BY <2>4 DEF TransmitOpen, Transmit
    <3>3. mishaps' = mishaps + 1 /\ mishaps' \in 0..MaxMishaps
      BY <2>2, <2>4 DEF TransmitOpen, Mishap
    <3> HIDE DEF m
    <3>4. QED
      BY <3>1, <3>2, <3>3
  <2>5. QED
    BY <2>1, <2>3, <2>4 DEF TransmitRequest
<1>5. /\ channel'[q] = Append(channel[q], m)
      /\ \A r \in Processes \ {q} : channel'[r] = channel[r]
      /\ channel' \in [Processes -> Seq(Msg)]
  BY <1>1, <1>4, Peers DEF DeliveryTypes
<1>6. DeliveryTypes'
  BY <1>1, <1>3, <1>4, <1>5 DEF DeliveryTypes, setting
<1>7. mishaps' \in Nat /\ mishaps <= mishaps'
  BY <1>1, <1>4, RpcAssumption DEF DeliveryTypes
<1>8. LinkInv(q)'
  <2>1. Meant(q, m)'
    BY <1>2, <1>4, Peers DEF Meant, Requested, RESPONSE, MESSAGE, CALL, SUBSCRIPTION, UNREADABLE
  <2>2. m.type # RESPONSE /\ \A i : m \notin Responses(i)
    BY <1>4 DEF Responses, Requested, RESPONSE, MESSAGE, CALL, SUBSCRIPTION, UNREADABLE
  <2>3. \A i \in Ids : answers'[PeerOf[q]][i]
                        = answers[PeerOf[q]][i] + (IF m \in Responses(i) THEN 1 ELSE 0)
    BY <1>1, <1>3, <2>2, Peers DEF DeliveryTypes
  <2>4. q \in Processes
    BY Peers
  <2> HIDE DEF q
  <2>5. QED
    BY <1>3, <1>4, <1>5, <2>1, <2>2, <2>3, <2>4, SentLink
<1>9. ASSUME NEW r \in Processes, r # q PROVE LinkInv(r)'
  <2>1. Len(running'[r]) <= MaxRunning
    BY <1>3 DEF DeliveryInv, LinkInv, Nested
  <2>2. QED
    BY <1>3, <1>5, <1>7, <1>9, <2>1, QuietLink
<1>10. QED
  BY <1>6, <1>8, <1>9 DEF DeliveryInv

\* A response goes to the process that asked: it is sent, and it is on its way;
\* or what reads as empty goes there.
LEMMA ResponseSent ==
  ASSUME DeliveryInv, RegistryInv', [Next]_vars, NEW p \in Processes, NEW h \in inHand[p],
         Respond(p, h)
  PROVE  DeliveryInv'
<1> DEFINE q == PeerOf[p]
<1>1. RegistryTypes /\ DeliveryTypes /\ LinkInv(p)
  BY DEF DeliveryInv, RegistryInv
<1>2. h.id \in Ids /\ h.id \in Gone(q) /\ answers[p][h.id] \in Nat
  <2>1. h \in Given /\ h.id \in Gone(Asker(p, h))
    BY <1>1 DEF LinkInv, InHand, DeliveryTypes
  <2>2. QED
    BY <1>1, <2>1 DEF Given, Asker, Respond, DeliveryTypes
<1>3. UNCHANGED <<setting, idCounter, writing, typeOf, inHand, kept, ran, reentered, running>>
  BY DEF Respond, local
<1>4. mishaps \in 0..MaxMishaps /\ MaxMishaps \in Nat
  BY <1>1, RpcAssumption DEF DeliveryTypes
<1>5. PICK m \in Msg :
        /\ channel' = [channel EXCEPT ![q] = Append(@, m)]
        /\ m.id = h.id
        /\ \/ /\ m.type = RESPONSE /\ answers[p][h.id] < MaxResponses[p]
              /\ answers' = [answers EXCEPT ![p][h.id] = @ + 1]
              /\ mishaps' = mishaps
           \/ /\ m.type = UNREADABLE /\ answers' = answers
              /\ mishaps' = mishaps + 1 /\ mishaps' \in 0..MaxMishaps
  <2>1. CASE /\ Transmit(p, h.id, RESPONSE, answers[p][h.id] + 1)
             /\ answers[p][h.id] < MaxResponses[p]
             /\ answers' = [answers EXCEPT ![p][h.id] = @ + 1]
             /\ UNCHANGED mishaps
    <3> DEFINE m == [id |-> h.id, type |-> RESPONSE, nth |-> answers[p][h.id] + 1]
    <3>1. m \in Msg /\ m.type = RESPONSE /\ m.id = h.id
      BY <1>2 DEF Msg, MESSAGE, RESPONSE, UNREADABLE
    <3>2. channel' = [channel EXCEPT ![q] = Append(@, m)]
      BY <2>1 DEF Transmit
    <3> HIDE DEF m
    <3>3. QED
      BY <2>1, <3>1, <3>2
  <2>2. CASE TransmitOpen(p, h.id) /\ UNCHANGED answers
    <3> DEFINE m == [id |-> h.id, type |-> UNREADABLE, nth |-> 0]
    <3>1. m \in Msg /\ m.type = UNREADABLE /\ m.id = h.id
      BY <1>2 DEF Msg, MESSAGE, UNREADABLE
    <3>2. channel' = [channel EXCEPT ![q] = Append(@, m)]
      BY <2>2 DEF TransmitOpen, Transmit
    <3>3. mishaps' = mishaps + 1 /\ mishaps' \in 0..MaxMishaps
      BY <1>4, <2>2 DEF TransmitOpen, Mishap
    <3> HIDE DEF m
    <3>4. QED
      BY <2>2, <3>1, <3>2, <3>3
  <2>3. QED
    BY <2>1, <2>2 DEF Respond
<1>6. /\ channel'[q] = Append(channel[q], m)
      /\ \A r \in Processes \ {q} : channel'[r] = channel[r]
      /\ channel' \in [Processes -> Seq(Msg)]
  BY <1>1, <1>5, Peers DEF DeliveryTypes
<1>7. \A i : m \in Responses(i) <=> m.type = RESPONSE /\ i = h.id
  BY <1>5 DEF Msg, Responses
<1>8. /\ answers' \in [Processes -> [Ids -> Nat]]
      /\ \A r \in Processes \ {p} : answers'[r] = answers[r]
      /\ \A i \in Ids : answers'[p][i] = answers[p][i] + (IF m \in Responses(i) THEN 1 ELSE 0)
  <2>1. CASE m.type = RESPONSE /\ answers' = [answers EXCEPT ![p][h.id] = @ + 1]
    BY <1>1, <1>2, <1>7, <2>1 DEF DeliveryTypes
  <2>2. CASE m.type = UNREADABLE /\ answers' = answers
    BY <1>1, <1>7, <2>2 DEF DeliveryTypes, RESPONSE, UNREADABLE
  <2>3. QED
    BY <1>5, <2>1, <2>2
<1>9. /\ mishaps' \in 0..MaxMishaps /\ mishaps' \in Nat /\ mishaps <= mishaps'
      /\ mishaps' = IF m.type = UNREADABLE THEN mishaps + 1 ELSE mishaps
  BY <1>4, <1>5 DEF RESPONSE, UNREADABLE
<1>10. DeliveryTypes'
  BY <1>1, <1>3, <1>6, <1>8, <1>9 DEF DeliveryTypes, setting
<1>11. LinkInv(q)'
  <2>1. Gone(q)' = Gone(q)
    BY <1>3 DEF Gone, Taken
  <2>2. Meant(q, m)'
    BY <1>2, <1>5, <2>1 DEF Meant, Requested, RESPONSE, UNREADABLE, MESSAGE, CALL, SUBSCRIPTION
  <2>3. q \in Processes /\ PeerOf[q] = p
    BY Peers
  <2>4. m.type = RESPONSE => answers[PeerOf[q]][m.id] < MaxResponses[PeerOf[q]]
    BY <1>5, <2>3 DEF RESPONSE, UNREADABLE
  <2>5. \A i \in Ids : answers'[PeerOf[q]][i]
                        = answers[PeerOf[q]][i] + (IF m \in Responses(i) THEN 1 ELSE 0)
    BY <1>8, <2>3
  <2> HIDE DEF q
  <2>6. QED
    BY <1>3, <1>6, <1>9, <2>2, <2>3, <2>4, <2>5, SentLink
<1>12. ASSUME NEW r \in Processes, r # q PROVE LinkInv(r)'
  <2>1. Len(running'[r]) <= MaxRunning
    BY <1>3 DEF DeliveryInv, LinkInv, Nested
  <2>2. answers'[PeerOf[r]] = answers[PeerOf[r]]
    BY <1>8, <1>12, Peers
  <2>3. QED
    BY <1>3, <1>6, <1>9, <1>12, <2>1, <2>2, QuietLink
<1>13. QED
  BY <1>10, <1>11, <1>12 DEF DeliveryInv

-----------------------------------------------------------------------------
(* Messages that are taken *)

\* The first message on its way to r is taken: what it was counted as.
LEMMA TakenHead ==
  ASSUME DeliveryInv, NEW r \in Processes, channel[r] # <<>>, channel'[r] = Tail(channel[r]),
         NEW m, m = Head(channel[r]), UNCHANGED <<idCounter, writing, typeOf, answers>>
  PROVE  /\ m \in Msg /\ Meant(r, m)
         /\ Carried(r)' /\ Asked(r)'
         /\ Cardinality(Places(channel'[r], Unreadable)) \in Nat
         /\ Cardinality(Places(channel[r], Unreadable))
              = Cardinality(Places(channel'[r], Unreadable)) + (IF m.type = UNREADABLE THEN 1 ELSE 0)
         /\ \A id \in Ids :
              /\ answers[PeerOf[r]][id] \in Nat
              /\ OnTheirWay(r, id)' \in Nat
              /\ OnTheirWay(r, id) = OnTheirWay(r, id)' + (IF m \in Responses(id) THEN 1 ELSE 0)
              /\ OnTheirWay(r, id)' <= answers'[PeerOf[r]][id]
              /\ Received(r, id) \in Nat
              /\ Received(r, id)' = Received(r, id) + (IF m \in Responses(id) THEN 1 ELSE 0)
<1> DEFINE c == channel[r]
<1>1. DeliveryTypes /\ LinkInv(r) /\ c \in Seq(Msg)
  BY DEF DeliveryInv, DeliveryTypes
<1>2. /\ Len(c) \in Nat \ {0} /\ m = c[1] /\ Len(channel'[r]) = Len(c) - 1
      /\ \A i \in 1..Len(channel'[r]) : channel'[r][i] = c[i + 1] /\ i + 1 \in 1..Len(c)
      /\ channel'[r] \in Seq(Msg)
  BY <1>1
<1>3. m \in Msg /\ Meant(r, m)
  <2>1. 1 \in 1..Len(c)
    BY <1>2
  <2>2. QED
    BY <1>1, <1>2, <2>1 DEF LinkInv, Carried
<1>4. \A x : Meant(r, x)' <=> Meant(r, x)
  BY DEF Meant, Gone, Taken
<1>5. Carried(r)'
  <2>1. ASSUME NEW i \in 1..Len(channel'[r]), NEW x, x = channel'[r][i] PROVE Meant(r, x)'
    BY <1>1, <1>2, <1>4, <2>1 DEF LinkInv, Carried
  <2>2. QED
    BY <2>1 DEF Carried, Meant
<1>6. Asked(r)'
  BY <1>1 DEF LinkInv, Asked, Gone, Taken
<1>7. m \in Unreadable <=> m.type = UNREADABLE
  BY <1>3 DEF Msg, Unreadable
<1>8. /\ Cardinality(Places(channel'[r], Unreadable)) \in Nat
      /\ Cardinality(Places(c, Unreadable))
           = Cardinality(Places(channel'[r], Unreadable)) + (IF m.type = UNREADABLE THEN 1 ELSE 0)
  <2>1. Cardinality(Places(channel'[r], Unreadable)) \in Nat
    BY <1>2, PlacesFinite
  <2>2. Cardinality(Places(c, Unreadable))
          = Cardinality(Places(channel'[r], Unreadable)) + (IF m \in Unreadable THEN 1 ELSE 0)
    BY <1>1, PlacesTail
  <2>3. QED
    BY <1>7, <2>1, <2>2
<1>9. ASSUME NEW id \in Ids
      PROVE  /\ answers[PeerOf[r]][id] \in Nat
             /\ OnTheirWay(r, id)' \in Nat
             /\ OnTheirWay(r, id) = OnTheirWay(r, id)' + (IF m \in Responses(id) THEN 1 ELSE 0)
             /\ OnTheirWay(r, id)' <= answers'[PeerOf[r]][id]
             /\ Received(r, id) \in Nat
             /\ Received(r, id)' = Received(r, id) + (IF m \in Responses(id) THEN 1 ELSE 0)
  <2>1. answers[PeerOf[r]][id] \in Nat /\ OnTheirWay(r, id) <= answers[PeerOf[r]][id]
    BY <1>1, Peers DEF DeliveryTypes, LinkInv, Answered
  <2>2. OnTheirWay(r, id) = Cardinality(Places(c, Responses(id)))
    BY <1>1, Counted DEF OnTheirWay
  <2>3. OnTheirWay(r, id)' = Cardinality(Places(channel'[r], Responses(id)))
    BY <1>2, Counted DEF OnTheirWay
  <2>4. Cardinality(Places(channel'[r], Responses(id))) \in Nat
    BY <1>2, PlacesFinite
  <2>5. Cardinality(Places(c, Responses(id)))
          = Cardinality(Places(channel'[r], Responses(id))) + (IF m \in Responses(id) THEN 1 ELSE 0)
    BY <1>1, PlacesTail
  <2>6. /\ OnTheirWay(r, id)' \in Nat
        /\ OnTheirWay(r, id) = OnTheirWay(r, id)' + (IF m \in Responses(id) THEN 1 ELSE 0)
    BY <2>2, <2>3, <2>4, <2>5
  <2>7. QED
    BY <2>1, <2>6 DEF Received
<1>10. QED
  BY <1>3, <1>5, <1>6, <1>8, <1>9

\* A message is given to the application, which may be a response when its type is
\* not read as it was written; or it is kept.
LEMMA MessageTaken ==
  ASSUME DeliveryInv, RegistryInv', [Next]_vars, NEW p \in Processes, Incoming(p), Take(p),
         NEW m, m = Head(channel[p]), reading = "zero" \/ m.type # RESPONSE,
         UNCHANGED <<setting, idCounter, writing, typeOf, entries, running, answers, ran, reentered>>,
         NEW h, h = [id |-> m.id, type |-> Read(m.type), sentAs |-> m.type, nth |-> m.nth],
         \/ /\ m.type # UNREADABLE
            /\ inHand' = [inHand EXCEPT ![p] = @ \cup {h}]
            /\ UNCHANGED <<kept, mishaps>>
         \/ /\ kept' = [kept EXCEPT ![p] = @ + 1]
            /\ (m.type = UNREADABLE /\ UNCHANGED mishaps) \/ (m.type # UNREADABLE /\ Mishap)
            /\ UNCHANGED inHand
  PROVE  DeliveryInv'
<1>1. RegistryTypes /\ DeliveryTypes /\ LinkInv(p)
  BY DEF DeliveryInv, RegistryInv
<1>2. /\ channel'[p] = Tail(channel[p]) /\ channel[p] # <<>>
      /\ \A r \in Processes \ {p} : channel'[r] = channel[r]
      /\ channel' \in [Processes -> Seq(Msg)]
  BY <1>1 DEF Take, Incoming, DeliveryTypes
<1>3. /\ m \in Msg /\ Meant(p, m)
      /\ Carried(p)' /\ Asked(p)'
      /\ Cardinality(Places(channel'[p], Unreadable)) \in Nat
      /\ Cardinality(Places(channel[p], Unreadable))
           = Cardinality(Places(channel'[p], Unreadable)) + (IF m.type = UNREADABLE THEN 1 ELSE 0)
      /\ \A id \in Ids :
           /\ OnTheirWay(p, id) = OnTheirWay(p, id)' + (IF m \in Responses(id) THEN 1 ELSE 0)
           /\ OnTheirWay(p, id)' \in Nat
           /\ OnTheirWay(p, id)' <= answers'[PeerOf[p]][id]
           /\ Received(p, id) \in Nat
           /\ Received(p, id)' = Received(p, id) + (IF m \in Responses(id) THEN 1 ELSE 0)
  BY <1>2, TakenHead
<1>4. mishaps \in 0..MaxMishaps /\ MaxMishaps \in Nat /\ kept[p] \in Nat
  BY <1>1, RpcAssumption DEF DeliveryTypes
<1>5. mishaps' \in 0..MaxMishaps /\ mishaps <= mishaps' /\ mishaps' \in Nat
  BY <1>4 DEF Mishap
<1>6. /\ inHand' \in [Processes -> SUBSET Given]
      /\ \A r \in Processes \ {p} : inHand'[r] = inHand[r]
      /\ InHand(p)'
  <2>1. CASE inHand' = [inHand EXCEPT ![p] = @ \cup {h}] /\ m.type # UNREADABLE
    <3>1. h \in Given /\ h.id = m.id /\ h.sentAs = m.type
      <4>1. m.type \in MESSAGE..RESPONSE /\ m.id \in Ids /\ m.nth \in Nat
        BY <1>3, <2>1 DEF Msg, MESSAGE, RESPONSE, UNREADABLE
      <4>2. Read(m.type) \in Requested
        BY <4>1 DEF Read, Requested, MESSAGE, CALL, SUBSCRIPTION, RESPONSE
      <4>3. QED
        BY <4>1, <4>2 DEF Given
    <3>2. m.id \in Gone(Asker(p, h))
      BY <1>3, <2>1, <3>1
      DEF Meant, Asker, Msg, Requested, MESSAGE, CALL, SUBSCRIPTION, RESPONSE, UNREADABLE
    <3>3. \A r : Gone(r)' = Gone(r)
      BY DEF Gone, Taken
    <3>4. inHand'[p] = inHand[p] \cup {h}
      BY <1>1, <2>1 DEF DeliveryTypes
    <3>5. InHand(p)'
      BY <1>1, <3>1, <3>2, <3>3, <3>4 DEF LinkInv, InHand, Asker
    <3>6. QED
      BY <1>1, <2>1, <3>1, <3>5 DEF DeliveryTypes
  <2>2. CASE UNCHANGED inHand
    BY <1>1, <2>2 DEF LinkInv, InHand, Asker, Gone, Taken, DeliveryTypes
  <2>3. QED
    BY <2>1, <2>2
<1>7. /\ kept' \in [Processes -> Nat]
      /\ \A r \in Processes \ {p} : kept'[r] = kept[r]
      /\ kept'[p] + Cardinality(Places(channel'[p], Unreadable)) <= mishaps'
  <2>1. kept[p] + Cardinality(Places(channel[p], Unreadable)) <= mishaps
    BY <1>1 DEF LinkInv, Spoilt
  <2>2. CASE UNCHANGED <<kept, mishaps>> /\ m.type # UNREADABLE
    BY <1>1, <1>3, <1>4, <2>1, <2>2 DEF DeliveryTypes
  <2>3. CASE kept' = [kept EXCEPT ![p] = @ + 1]
             /\ ((m.type = UNREADABLE /\ UNCHANGED mishaps) \/ (m.type # UNREADABLE /\ Mishap))
    <3>1. kept'[p] = kept[p] + 1
      BY <1>1, <2>3 DEF DeliveryTypes
    <3>2. kept'[p] + Cardinality(Places(channel'[p], Unreadable)) <= mishaps'
      BY <1>3, <1>4, <2>1, <2>3, <3>1 DEF Mishap
    <3>3. QED
      BY <1>1, <2>3, <3>2 DEF DeliveryTypes
  <2>4. QED
    BY <2>2, <2>3
<1>8. DeliveryTypes'
  BY <1>1, <1>2, <1>5, <1>6, <1>7 DEF DeliveryTypes, setting
<1>9. LinkInv(p)'
  <2>1. Nested(p)'
    BY <1>1 DEF LinkInv, Nested
  <2>2. ASSUME NEW id \in Ids PROVE Answered(p, id)'
    <3>1. /\ Answered(p, id) /\ SharesKey(p, id)' = SharesKey(p, id)
          /\ UNCHANGED <<reading, typeOf, ran, reentered>>
      BY <1>1 DEF LinkInv, SharesKey, Taken, setting
    <3>2. CASE reading = "zero"
      BY <1>3, <3>1, <3>2 DEF Answered, Wanted
    <3>3. CASE m.type # RESPONSE
      <4>1. Received(p, id)' = Received(p, id)
        <5>1. m \notin Responses(id)
          BY <3>3 DEF Responses
        <5>2. QED
          BY <1>3, <5>1
      <4>2. QED
        BY <1>3, <3>1, <4>1 DEF Answered, Wanted
    <3>4. QED
      BY <3>2, <3>3
  <2>3. QED
    BY <1>3, <1>6, <1>7, <2>1, <2>2 DEF LinkInv, Spoilt
<1>10. ASSUME NEW r \in Processes, r # p PROVE LinkInv(r)'
  <2>1. Len(running'[r]) <= MaxRunning
    BY DEF DeliveryInv, LinkInv, Nested
  <2>2. QED
    BY <1>2, <1>5, <1>6, <1>7, <1>10, <2>1, QuietLink
<1>11. QED
  BY <1>8, <1>9, <1>10 DEF DeliveryInv

LEMMA DueOf ==
  ASSUME NEW n \in Nat
  PROVE  /\ Due(SUBSCRIPTION, n) = n
         /\ Due(CALL, n) = IF n = 0 THEN 0 ELSE 1
         /\ Due(MESSAGE, n) = 0
BY DEF Due, MESSAGE, CALL, SUBSCRIPTION

\* A response is given to the callback of its entry, or destroyed.  The entry
\* of its request is there when the callback is still due: when none is found,
\* the call was answered before.
LEMMA ResponseTaken ==
  ASSUME DeliveryInv, RegistryInv', [Next]_vars, NEW p \in Processes, Incoming(p),
         NEW m, m = Head(channel[p]), m.type = RESPONSE, reading # "zero", HandleResponse(p, m.id),
         UNCHANGED <<setting, local, kept, pc, mishaps, answers>>
  PROVE  DeliveryInv'
<1> DEFINE q == PeerOf[p]
<1>1. RegistryTypes /\ DeliveryTypes /\ LinkInv(p) /\ Requests(p) /\ Callbacks(p) /\ Exact(p)
  BY DEF DeliveryInv, RegistryInv, ProcessInv
<1>2. /\ channel'[p] = Tail(channel[p]) /\ channel[p] # <<>>
      /\ \A r \in Processes \ {p} : channel'[r] = channel[r]
      /\ channel' \in [Processes -> Seq(Msg)]
  BY <1>1 DEF HandleResponse, Take, Incoming, DeliveryTypes
<1>3. UNCHANGED <<idCounter, writing, typeOf, unregistered, entries, inHand>>
  BY DEF HandleResponse, local
<1>4. /\ m \in Msg /\ Meant(p, m)
      /\ Carried(p)' /\ Asked(p)'
      /\ Cardinality(Places(channel'[p], Unreadable)) \in Nat
      /\ Cardinality(Places(channel[p], Unreadable))
           = Cardinality(Places(channel'[p], Unreadable)) + (IF m.type = UNREADABLE THEN 1 ELSE 0)
      /\ \A id \in Ids :
           /\ OnTheirWay(p, id) = OnTheirWay(p, id)' + (IF m \in Responses(id) THEN 1 ELSE 0)
           /\ OnTheirWay(p, id)' \in Nat
           /\ OnTheirWay(p, id)' <= answers'[PeerOf[p]][id]
           /\ Received(p, id) \in Nat
           /\ Received(p, id)' = Received(p, id) + (IF m \in Responses(id) THEN 1 ELSE 0)
  BY <1>2, <1>3, TakenHead
<1>5. mishaps \in 0..MaxMishaps /\ mishaps \in Nat /\ kept[p] \in Nat
  BY <1>1, RpcAssumption DEF DeliveryTypes
<1>6. DeliveryTypes'
  BY <1>1, <1>2, <1>3 DEF DeliveryTypes, setting
<1> DEFINE id == m.id
<1>7. id \in Ids /\ id \in Gone(p) /\ \A i : m \in Responses(i) <=> i = id
  BY <1>4 DEF Meant, Msg, Responses
<1>8. \A r \in Processes :
        /\ reentered[r] \subseteq reentered'[r]
        /\ r # p => ran'[r] = ran[r] /\ running'[r] = running[r]
  <2>1. CASE Found(p, id) = {}
    BY <2>1 DEF HandleResponse
  <2>2. CASE Found(p, id) # {}
    <3>1. PICK e \in Found(p, id) : RunCallback(p, e)
      BY <2>2 DEF HandleResponse
    <3>2. QED
      BY <1>1, <3>1 DEF RunCallback, RegistryTypes
  <2>3. QED
    BY <2>1, <2>2
<1>9. Nested(p)'
  <2>1. CASE Found(p, id) = {}
    BY <1>1, <2>1 DEF HandleResponse, LinkInv, Nested
  <2>2. CASE Found(p, id) # {}
    <3>1. PICK e \in Found(p, id) : RunCallback(p, e)
      BY <2>2 DEF HandleResponse
    <3>2. running[p] \in Seq(Entry) /\ e \in Entry
      BY <1>1 DEF RegistryTypes, Found
    <3>3. running'[p] = Append(running[p], e) /\ Len(running[p]) < MaxRunning
      BY <1>1, <3>1 DEF RunCallback, RegistryTypes
    <3>4. QED
      BY <3>2, <3>3, RpcAssumption DEF Nested
  <2>3. QED
    BY <2>1, <2>2
<1>10. ASSUME NEW i \in Ids, ~SharesKey(p, i), i \notin reentered'[p]
       PROVE  ran'[p][i] = Due(typeOf[p][i], Received(p, i)')
  <2>1. ran[p][i] = Due(typeOf[p][i], Received(p, i)) /\ ran[p][i] \in Nat
    BY <1>1, <1>8, <1>10 DEF LinkInv, Answered, Wanted, RegistryTypes
  <2>2. ASSUME NEW e \in Found(p, id)
        PROVE  /\ e \in entries[p] /\ e = EntryOf(p, e.request) /\ e.request \in Ids
               /\ e.request = i <=> i = id
    <3>1. e \in entries[p] /\ e = EntryOf(p, e.request) /\ e.id = Key(id) /\ e.request \in Taken(p)
      BY <1>1 DEF Found, Requests, Sent
    <3>2. e.id = Key(e.request) /\ id \in Taken(p) /\ e.request \in Ids
      BY <1>1, <1>7, <3>1, TakenIds DEF EntryOf, Gone, Requests
    <3>3. QED
      BY <1>10, <3>1, <3>2 DEF SharesKey
  <2>3. CASE i # id
    <3>1. Received(p, i)' = Received(p, i)
      BY <1>4, <1>7, <2>3
    <3>2. ran'[p][i] = ran[p][i]
      <4>1. CASE Found(p, id) = {}
        BY <4>1 DEF HandleResponse
      <4>2. CASE Found(p, id) # {}
        <5>1. PICK e \in Found(p, id) : RunCallback(p, e)
          BY <4>2 DEF HandleResponse
        <5>2. ran' = [ran EXCEPT ![p][e.request] = @ + 1] /\ e.request # i
          BY <2>2, <2>3, <5>1 DEF RunCallback
        <5>3. QED
          BY <1>1, <5>2 DEF RegistryTypes
      <4>3. QED
        BY <4>1, <4>2
    <3>3. QED
      BY <2>1, <3>1, <3>2
  <2>4. CASE i = id
    <3>1. /\ Received(p, id)' = Received(p, id) + 1
          /\ Received(p, id) \in Nat /\ Received(p, id)' \in Nat /\ Received(p, id)' # 0
      BY <1>4, <1>7
    <3>2. pc[p] = "application" /\ id \in Sent(p)
      BY <1>1, <1>7, TakenIds, IdsNat DEF Incoming, Requests, Sent, Gone, Taken
    <3>3. EntryOf(p, id) \in entries[p] <=> Waits(p, id)
      BY <1>1, <1>7, <1>8, <1>10, <2>4, <3>2 DEF Exact
    <3>4. CASE Found(p, id) = {}
      <4>1. ran'[p][id] = ran[p][id]
        BY <3>4 DEF HandleResponse
      <4>2. ~Waits(p, id)
        BY <3>3, <3>4 DEF Found, EntryOf
      <4>3. \/ typeOf[p][id] = MESSAGE
            \/ typeOf[p][id] = CALL /\ ran[p][id] # 0
        BY <1>1, <1>7, <3>2, <4>2 DEF Waits, RegistryTypes
      <4>4. CASE typeOf[p][id] = MESSAGE
        BY <2>1, <2>4, <3>1, <4>1, <4>4, DueOf
      <4>5. CASE typeOf[p][id] = CALL /\ ran[p][id] # 0
        BY <2>1, <2>4, <3>1, <4>1, <4>5, DueOf
      <4>6. QED
        BY <4>3, <4>4, <4>5
    <3>5. CASE Found(p, id) # {}
      <4>1. PICK e \in Found(p, id) : RunCallback(p, e)
        BY <3>5 DEF HandleResponse
      <4>2. e \in entries[p] /\ e.request = id /\ e = EntryOf(p, id) /\ e \in Entry
        BY <1>1, <2>2, <2>4 DEF RegistryTypes
      <4>3. ran'[p][id] = ran[p][id] + 1
        BY <1>1, <1>7, <4>1, <4>2 DEF RunCallback, RegistryTypes
      <4>4. Waits(p, id)
        BY <3>3, <4>2
      <4>5. id \notin Running(p)
        <5>1. SUFFICES ASSUME id \in Running(p) PROVE FALSE
          OBVIOUS
        <5>2. PICK j \in DOMAIN running[p] : running[p][j].request = id
          BY <5>1 DEF Running
        <5>3. j \in 1..Len(running[p])
          BY <1>1, <5>2 DEF RegistryTypes
        <5>4. running[p][j] = e
          BY <1>1, <4>2, <5>2, <5>3 DEF Callbacks
        <5>5. id \in reentered'[p]
          BY <1>1, <4>1, <4>2, <5>2, <5>4 DEF RunCallback, RegistryTypes
        <5>6. QED
          BY <1>10, <2>4, <5>5
      <4>6. CASE typeOf[p][id] = SUBSCRIPTION
        <5>1. ran[p][id] = Received(p, id) /\ Due(SUBSCRIPTION, Received(p, id)') = Received(p, id)'
          BY <2>1, <2>4, <3>1, <4>6, DueOf
        <5>2. QED
          BY <2>4, <3>1, <4>3, <4>6, <5>1
      <4>7. CASE typeOf[p][id] = CALL
        <5>1. ran[p][id] = 0
          BY <4>4, <4>5, <4>7 DEF Waits, CALL, SUBSCRIPTION
        <5>2. Due(CALL, Received(p, id)') = 1
          BY <3>1, DueOf
        <5>3. QED
          BY <2>4, <4>3, <4>7, <5>1, <5>2
      <4>8. QED
        BY <4>4, <4>6, <4>7 DEF Waits
    <3>6. QED
      BY <3>4, <3>5
  <2>5. QED
    BY <2>3, <2>4
<1>11. LinkInv(p)'
  <2>1. Spoilt(p)'
    <3>1. m.type # UNREADABLE
      BY DEF RESPONSE, UNREADABLE
    <3>2. kept[p] + Cardinality(Places(channel[p], Unreadable)) <= mishaps
      BY <1>1 DEF LinkInv, Spoilt
    <3>3. kept[p] + Cardinality(Places(channel'[p], Unreadable)) <= mishaps
      BY <1>4, <1>5, <3>1, <3>2
    <3>4. QED
      BY <3>3 DEF Spoilt
  <2>2. InHand(p)'
    BY <1>1, <1>3 DEF LinkInv, InHand, Asker, Gone, Taken
  <2>3. ASSUME NEW i \in Ids PROVE Answered(p, i)'
    BY <1>3, <1>4, <1>10 DEF Answered, Wanted, SharesKey, Taken, setting
  <2>4. QED
    BY <1>4, <1>9, <2>1, <2>2, <2>3 DEF LinkInv
<1>12. ASSUME NEW r \in Processes, r # p PROVE LinkInv(r)'
  <2>1. Len(running'[r]) <= MaxRunning
    BY <1>8, <1>12 DEF DeliveryInv, LinkInv, Nested
  <2>2. mishaps' \in Nat /\ mishaps <= mishaps'
    BY <1>5
  <2>3. QED
    BY <1>2, <1>3, <1>8, <1>12, <2>1, <2>2, QuietLink
<1>13. QED
  BY <1>6, <1>11, <1>12 DEF DeliveryInv

-----------------------------------------------------------------------------
LEMMA InitDelivery == Init => DeliveryInv
<1> SUFFICES ASSUME Init PROVE DeliveryInv
  OBVIOUS
<1>1. RegistryInv
  BY InitRegistry
<1>2. DeliveryTypes
  BY RpcAssumption DEF Init, DeliveryTypes
<1>3. ASSUME NEW p \in Processes PROVE LinkInv(p)
  <2>1. /\ channel[p] = <<>> /\ inHand[p] = {} /\ kept[p] = 0 /\ running[p] = <<>> /\ mishaps = 0
        /\ \A id \in Ids : /\ answers[PeerOf[p]][id] = 0 /\ ran[p][id] = 0
                           /\ typeOf[p][id] = MESSAGE
    BY Peers DEF Init
  <2>2. Carried(p) /\ InHand(p) /\ Asked(p) /\ Nested(p)
    BY <2>1, Peers, RpcAssumption DEF Carried, InHand, Asked, Nested
  <2>3. \A R : Places(channel[p], R) = {}
    BY <2>1 DEF Places
  <2>4. Spoilt(p)
    <3>1. Cardinality(Places(channel[p], Unreadable)) = 0
      BY <2>3, FS_EmptySet
    <3>2. QED
      BY <2>1, <3>1 DEF Spoilt
  <2>5. ASSUME NEW id \in Ids PROVE Answered(p, id)
    <3>1. OnTheirWay(p, id) = 0
      <4>1. channel[p] \in Seq(Msg)
        BY <1>2 DEF DeliveryTypes
      <4>2. OnTheirWay(p, id) = Cardinality(Places(channel[p], Responses(id)))
        BY <4>1, Counted DEF OnTheirWay
      <4>3. QED
        BY <2>3, <4>2, FS_EmptySet
    <3>2. Received(p, id) = 0
      BY <2>1, <3>1 DEF Received
    <3>3. Due(MESSAGE, 0) = 0
      BY DEF Due, MESSAGE, CALL, SUBSCRIPTION
    <3>4. QED
      BY <2>1, <3>1, <3>2, <3>3 DEF Answered, Wanted
  <2>6. QED
    BY <2>2, <2>4, <2>5 DEF LinkInv
<1>4. QED
  BY <1>1, <1>2, <1>3 DEF DeliveryInv

LEMMA DeliveryStep ==
  ASSUME DeliveryInv, [Next]_vars
  PROVE  DeliveryInv'
<1>1. RegistryInv /\ RegistryTypes /\ DeliveryTypes
  BY DEF DeliveryInv, RegistryInv
<1>2. RegistryInv'
  BY <1>1, RegistryStep
<1>3. mishaps \in 0..MaxMishaps /\ mishaps \in Nat /\ MaxMishaps \in Nat
      /\ mishaps \in mishaps..MaxMishaps
  BY <1>1, RpcAssumption DEF DeliveryTypes
<1>4. \A type : Read(type) = RESPONSE => type = RESPONSE /\ reading # "zero"
  BY DEF Read, MESSAGE, RESPONSE
<1>5. \A r \in Processes : Len(running[r]) <= MaxRunning
  BY DEF DeliveryInv, LinkInv, Nested
<1>6. CASE UNCHANGED <<setting, channel, inHand, kept, running, mishaps, answers, ran, reentered>>
  BY <1>1, <1>2, <1>3, <1>5, <1>6, QuietKeeps DEF DeliveryTypes
<1>7. ASSUME NEW p \in Processes, NEW id, Cancel(p, id) PROVE DeliveryInv'
  <2>1. mishaps' \in mishaps..MaxMishaps
    BY <1>3, <1>7 DEF Cancel, Mishap
  <2>2. QED
    BY <1>1, <1>2, <1>5, <1>7, <2>1, QuietKeeps DEF Cancel, history, DeliveryTypes
<1>8. ASSUME NEW p \in Processes, CallbackReturns(p) PROVE DeliveryInv'
  <2>1. UNCHANGED <<setting, channel, inHand, kept, mishaps, answers, ran, reentered>>
    BY <1>8 DEF CallbackReturns, history
  <2>2. \A r \in Processes : Len(running'[r]) <= MaxRunning
    <3>1. PICK n \in Nat : n = Len(running[p])
      BY <1>1 DEF RegistryTypes
    <3>2. n # 0 /\ running[p] \in Seq(Entry)
      BY <1>1, <1>8, <3>1 DEF CallbackReturns, RegistryTypes
    <3>3. running' = [running EXCEPT ![p] = SubSeq(@, 1, n - 1)]
      BY <1>8, <3>1 DEF CallbackReturns
    <3>4. Len(SubSeq(running[p], 1, n - 1)) = n - 1
      BY <3>1, <3>2
    <3>5. n - 1 <= MaxRunning
      BY <1>5, <3>1, RpcAssumption
    <3>6. QED
      BY <1>1, <1>5, <3>3, <3>4, <3>5 DEF RegistryTypes
  <2>3. QED
    BY <1>1, <1>2, <1>3, <2>1, <2>2, QuietKeeps DEF DeliveryTypes
<1>9. ASSUME NEW p \in Processes, NEW m \in inHand[p], Release(p, m) PROVE DeliveryInv'
  <2>1. UNCHANGED <<setting, channel, kept, running, mishaps, answers, ran, reentered>>
        /\ inHand' = [inHand EXCEPT ![p] = @ \ {m}]
    BY <1>9 DEF Release, history
  <2>2. /\ inHand' \in [Processes -> SUBSET Given]
        /\ \A r \in Processes : inHand'[r] \subseteq inHand[r]
    BY <1>1, <2>1 DEF DeliveryTypes
  <2>3. QED
    BY <1>2, <1>3, <1>5, <2>1, <2>2, QuietKeeps
<1>10. ASSUME NEW p \in Processes, DestroyRpc(p) PROVE DeliveryInv'
  <2>1. UNCHANGED <<setting, channel, inHand, kept, running, answers, ran>>
    BY <1>10 DEF DestroyRpc
  <2>2. mishaps' \in mishaps..MaxMishaps
    BY <1>3, <1>10 DEF DestroyRpc, Mishap
  <2>3. \A r \in Processes : reentered[r] \subseteq reentered'[r]
    BY <1>1, <1>10 DEF DestroyRpc, RegistryTypes
  <2>4. QED
    BY <1>1, <1>2, <1>5, <2>1, <2>2, <2>3, QuietKeeps DEF DeliveryTypes
<1>11. ASSUME NEW p \in Processes, HandleIncomingMessage(p) PROVE DeliveryInv'
  <2>1. PICK m : m = Head(channel[p])
    OBVIOUS
  <2>2. /\ Incoming(p) /\ UNCHANGED <<setting, local, kept, pc, mishaps, answers>>
        /\ m.type # UNREADABLE
        /\ IF Read(m.type) = RESPONSE THEN HandleResponse(p, m.id) ELSE HandRequest(p, m)
    BY <1>11, <2>1 DEF HandleIncomingMessage
  <2>3. CASE Read(m.type) = RESPONSE
    BY <1>2, <1>4, <2>1, <2>2, <2>3, ResponseTaken
  <2>4. CASE Read(m.type) # RESPONSE
    <3>1. reading = "zero" \/ m.type # RESPONSE
      BY <2>4 DEF Read
    <3>2. PICK h : h = [id |-> m.id, type |-> Read(m.type), sentAs |-> m.type, nth |-> m.nth]
      OBVIOUS
    <3>3. /\ Take(p) /\ inHand' = [inHand EXCEPT ![p] = @ \cup {h}]
          /\ UNCHANGED <<entries, running, ran, reentered>>
      BY <2>2, <2>4, <3>2 DEF HandRequest
    <3>4. QED
      BY <1>2, <2>1, <2>2, <3>1, <3>2, <3>3, MessageTaken DEF local
  <2>5. QED
    BY <2>3, <2>4
<1>12. ASSUME NEW p \in Processes, KeepMessage(p) PROVE DeliveryInv'
  <2>1. PICK m : m = Head(channel[p])
    OBVIOUS
  <2>2. /\ Incoming(p) /\ Take(p)
        /\ \/ m.type = UNREADABLE /\ UNCHANGED mishaps
           \/ m.type # UNREADABLE /\ Read(m.type) # RESPONSE /\ Mishap
        /\ kept' = [kept EXCEPT ![p] = @ + 1]
        /\ UNCHANGED <<setting, local, entries, inHand, pc, running, history>>
    BY <1>12, <2>1 DEF KeepMessage
  <2>3. reading = "zero" \/ m.type # RESPONSE
    BY <2>2 DEF Read, RESPONSE, UNREADABLE
  <2>4. PICK h : h = [id |-> m.id, type |-> Read(m.type), sentAs |-> m.type, nth |-> m.nth]
    OBVIOUS
  <2>5. QED
    BY <1>2, <2>1, <2>2, <2>3, <2>4, MessageTaken DEF local, history
<1>13. ASSUME NEW p \in Processes,
              (\E type \in MESSAGE..SUBSCRIPTION : Open(p, type)) \/ Register(p)
       PROVE  DeliveryInv'
  BY <1>6, <1>13 DEF Open, Register, history
<1>14. ASSUME NEW p \in Processes, RegisterFails(p) PROVE DeliveryInv'
  <2>1. mishaps' \in mishaps..MaxMishaps
    BY <1>3, <1>14 DEF RegisterFails, Mishap
  <2>2. QED
    BY <1>1, <1>2, <1>5, <1>14, <2>1, QuietKeeps DEF RegisterFails, history, DeliveryTypes
<1>15. CASE UNCHANGED vars
  BY <1>6, <1>15 DEF vars, history
<1>16. ASSUME NEW p \in Processes, NEW id \in writing[p], SendMessage(p, id) \/ SendRequest(p, id)
       PROVE  DeliveryInv'
  BY <1>2, <1>16, RequestSent
<1>17. ASSUME NEW p \in Processes, NEW m \in inHand[p], Respond(p, m) PROVE DeliveryInv'
  BY <1>2, <1>17, ResponseSent
<1>19. QED
  BY <1>7, <1>8, <1>9, <1>10, <1>11, <1>12, <1>13, <1>15, <1>16, <1>17, <1>14 DEF Next

LEMMA DeliveryInvariant == Spec => []DeliveryInv
<1>1. DeliveryInv /\ [Next]_vars => DeliveryInv'
  BY DeliveryStep
<1>2. QED
  BY <1>1, InitDelivery, PTL DEF Spec

\* Ids, counters and messages keep their types, and what the two processes send,
\* keep and run inside each other stays within the bounds: whatever the type of a
\* message is read as, what the application has is a request of the other process
\* or a response to its own, and what it takes for a request is not read as a
\* response.
THEOREM Typing == Spec => []TypeOK
<1>1. ASSUME DeliveryInv PROVE TypeOK
  <2>1. RegistryInv /\ RegistryTypes /\ DeliveryTypes
    BY <1>1 DEF DeliveryInv, RegistryInv
  <2>2. {MESSAGE, CALL, SUBSCRIPTION} = MESSAGE..SUBSCRIPTION /\ Requested = MESSAGE..SUBSCRIPTION
    BY DEF MESSAGE, CALL, SUBSCRIPTION, Requested
  <2>3. ASSUME NEW p \in Processes
        PROVE  /\ idCounter[p] \in 1..(MaxIds[p] + 1)
               /\ writing[p] \subseteq Taken(p)
               /\ channel[p] \in Seq(Msg)
               /\ entries[p] \subseteq [id : 0..(KeyValues - 1), type : {CALL, SUBSCRIPTION},
                                        request : Taken(p)]
               /\ inHand[p] \subseteq [id : Ids, type : MESSAGE..SUBSCRIPTION,
                                        sentAs : MESSAGE..RESPONSE, nth : Nat]
               /\ \A m \in inHand[p] : m.id \in Taken(Asker(p, m))
               /\ unregistered[p] \in Taken(p) \cup {0}
               /\ Len(running[p]) <= MaxRunning
               /\ \A i \in DOMAIN running[p] : running[p][i].request \in Taken(p)
               /\ kept[p] \in 0..MaxMishaps
               /\ answers[p] \in [Ids -> 0..MaxResponses[p]]
    <3>1. Requests(p) /\ Callbacks(p) /\ LinkInv(p) /\ LinkInv(PeerOf[p])
      BY <1>1, Peers DEF DeliveryInv, RegistryInv, ProcessInv
    <3>2. /\ idCounter[p] \in 1..(MaxIds[p] + 1) /\ writing[p] \subseteq Taken(p)
          /\ unregistered[p] \in Taken(p) \cup {0}
      BY <3>1 DEF Requests
    <3>3. channel[p] \in Seq(Msg)
      BY <2>1 DEF DeliveryTypes
    <3>4. entries[p] \subseteq [id : 0..(KeyValues - 1), type : {CALL, SUBSCRIPTION},
                                request : Taken(p)]
      <4>1. \A id \in Ids : Key(id) \in 0..(KeyValues - 1)
        BY IdsNat, RpcAssumption DEF Key
      <4>2. entries[p] \subseteq Entry /\ \A e \in entries[p] : e.request \in Taken(p)
        BY <2>1, <3>1 DEF RegistryTypes, Requests, Sent
      <4>3. QED
        BY <4>1, <4>2 DEF Entry
    <3>5. /\ inHand[p] \subseteq [id : Ids, type : MESSAGE..SUBSCRIPTION,
                                    sentAs : MESSAGE..RESPONSE, nth : Nat]
          /\ \A m \in inHand[p] : m.id \in Taken(Asker(p, m))
      BY <2>1, <2>2, <3>1 DEF DeliveryTypes, Given, LinkInv, InHand, Gone
    <3>6. Len(running[p]) <= MaxRunning
      BY <3>1 DEF LinkInv, Nested
    <3>7. \A i \in DOMAIN running[p] : running[p][i].request \in Taken(p)
      <4>1. DOMAIN running[p] = 1..Len(running[p])
        BY <2>1 DEF RegistryTypes
      <4>2. QED
        BY <3>1, <4>1 DEF Callbacks, Sent
    <3>8. kept[p] \in 0..MaxMishaps
      <4>1. /\ kept[p] \in Nat /\ mishaps \in 0..MaxMishaps /\ MaxMishaps \in Nat
            /\ Cardinality(Places(channel[p], Unreadable)) \in Nat
        BY <2>1, <3>3, PlacesFinite, RpcAssumption DEF DeliveryTypes
      <4>2. kept[p] + Cardinality(Places(channel[p], Unreadable)) <= mishaps
        BY <3>1 DEF LinkInv, Spoilt
      <4>3. QED
        BY <4>1, <4>2
    <3>9. answers[p] \in [Ids -> 0..MaxResponses[p]]
      <4>1. \A id \in Ids : answers[p][id] <= MaxResponses[p]
        BY <3>1, Peers DEF LinkInv, Asked
      <4>2. answers[p] \in [Ids -> Nat] /\ MaxResponses[p] \in Nat
        BY <2>1, RpcAssumption DEF DeliveryTypes
      <4>3. QED
        BY <4>1, <4>2
    <3>10. QED
      BY <3>2, <3>3, <3>4, <3>5, <3>6, <3>7, <3>8, <3>9
  <2>4. kept \in [Processes -> 0..MaxMishaps]
    BY <2>1, <2>3 DEF DeliveryTypes
  <2>5. typeOf \in [Processes -> [Ids -> MESSAGE..SUBSCRIPTION]]
    BY <2>1, <2>2 DEF RegistryTypes
  <2>6. single \in BOOLEAN /\ reading \in Readings /\ mishaps \in 0..MaxMishaps
    BY <2>1 DEF DeliveryTypes
  <2>7. /\ pc \in [Processes -> {"application", "send", "overflow", "crashed", "undefined", "destroyed"}]
        /\ ran \in [Processes -> [Ids -> Nat]] /\ reentered \in [Processes -> SUBSET Ids]
    BY <2>1 DEF RegistryTypes, Pcs
  <2>8. QED
    BY <2>3, <2>4, <2>5, <2>6, <2>7 DEF TypeOK, Msg
<1>2. DeliveryInv => TypeOK
  BY <1>1
<1>3. QED
  BY <1>2, DeliveryInvariant, PTL

\* However the two processes interleave, with as many responses, callbacks
\* inside each other, cancels, crashes and destroyed rpcs as there may be, and
\* whatever the width of the registry's key: when types are read as they were
\* written, the callback of a subscription has run once for each response that
\* arrived, that of a call for the first and that of a message for none, unless
\* another request shares its key; when they are read as 0, no callback runs.
THEOREM Delivered == Spec => []AnswersDelivered
<1>1. ASSUME DeliveryInv, NEW p \in Processes, NEW id \in Taken(p) \ reentered[p],
             ~SharesKey(p, id)
      PROVE  ran[p][id] = Wanted(p, id)
  <2>1. id \in Ids
    BY <1>1, TakenIds DEF DeliveryInv, RegistryInv, ProcessInv, Requests
  <2>2. QED
    BY <1>1, <2>1 DEF DeliveryInv, LinkInv, Answered
<1>2. DeliveryInv => AnswersDelivered
  BY <1>1 DEF AnswersDelivered, Wanted
<1>3. QED
  BY <1>2, DeliveryInvariant, PTL
=============================================================================
