------------------------------ MODULE RpcProofs ------------------------------
(***************************************************************************)
(* Proofs about the registry of requests, for any number of requests,      *)
(* responses and callbacks that run inside each other, and any width of    *)
(* the registry's key.                                                     *)
(*                                                                         *)
(*   Registry   the registry has exactly the requests that wait            *)
(*   Outlives   the entry of a running callback is freed only by another   *)
(*              response to it, or by rpc_destroy                          *)
(*                                                                         *)
(* Both follow from an invariant of each process that relates its entries, *)
(* its running callbacks and its history, request by request.              *)
(***************************************************************************)
EXTENDS Rpc, TLAPS

Pcs == {"application", "send", "overflow", "crashed", "undefined", "destroyed"}
Entry == [id : {Key(i) : i \in Ids}, type : {CALL, SUBSCRIPTION}, request : Ids]
EntryOf(p, id) == [id |-> Key(id), type |-> typeOf[p][id], request |-> id]

RegistryTypes ==
  /\ idCounter \in [Processes -> Nat]
  /\ writing \in [Processes -> SUBSET Nat]
  /\ typeOf \in [Processes -> [Ids -> {MESSAGE, CALL, SUBSCRIPTION}]]
  /\ unregistered \in [Processes -> Nat]
  /\ entries \in [Processes -> SUBSET Entry]
  /\ pc \in [Processes -> Pcs]
  /\ running \in [Processes -> Seq(Entry)]
  /\ ran \in [Processes -> [Ids -> Nat]]
  /\ reentered \in [Processes -> SUBSET Ids]

\* The requests of a process that are not sent have no entry and no history.
Requests(p) ==
  /\ idCounter[p] \in 1..(MaxIds[p] + 1)
  /\ writing[p] \subseteq Taken(p)
  /\ pc[p] = "send" => /\ unregistered[p] \in Taken(p) \ writing[p]
                       /\ typeOf[p][unregistered[p]] # MESSAGE
  /\ pc[p] # "send" => unregistered[p] = 0
  /\ \A e \in entries[p] : e.request \in Sent(p) /\ e = EntryOf(p, e.request)
  /\ \A id \in Ids : ran[p][id] > 0 => id \in Sent(p)

\* A callback that runs was called for its entry, which is there, and runs once,
\* unless the request is one of those reentered.
Callbacks(p) ==
  /\ \A i \in 1..Len(running[p]) :
       LET e == running[p][i] IN
         /\ e.request \in Sent(p) /\ e = EntryOf(p, e.request)
         /\ ran[p][e.request] > 0
         /\ e \in entries[p] \/ e.request \in reentered[p]
  /\ \A i, j \in 1..Len(running[p]) :
       i # j /\ running[p][i] = running[p][j] => running[p][i].request \in reentered[p]

Waits(p, id) ==
  /\ id \in Sent(p)
  /\ \/ typeOf[p][id] = SUBSCRIPTION
     \/ typeOf[p][id] = CALL /\ (ran[p][id] = 0 \/ id \in Running(p))

Exact(p) ==
  pc[p] \in {"application", "send"} =>
    \A id \in Ids \ reentered[p] : EntryOf(p, id) \in entries[p] <=> Waits(p, id)

ProcessInv(p) == Requests(p) /\ Callbacks(p) /\ Exact(p)

RegistryInv == RegistryTypes /\ \A p \in Processes : ProcessInv(p)

-----------------------------------------------------------------------------
LEMMA IdsNat == Ids \subseteq Nat \ {0} /\ \A p \in Processes : 1..MaxIds[p] \subseteq Ids
BY RpcAssumption DEF Ids

LEMMA TakenIds ==
  ASSUME NEW p \in Processes, idCounter[p] \in 1..(MaxIds[p] + 1)
  PROVE  Taken(p) \subseteq Ids
<1>1. MaxIds[p] \in Nat
  BY RpcAssumption
<1>2. Taken(p) \subseteq 1..MaxIds[p]
  BY <1>1 DEF Taken
<1>3. QED
  BY <1>2, IdsNat

\* What the other process does is not seen by the invariant of this one.
LEMMA Elsewhere ==
  ASSUME NEW q \in Processes, ProcessInv(q),
         idCounter'[q] = idCounter[q], writing'[q] = writing[q], typeOf'[q] = typeOf[q],
         unregistered'[q] = unregistered[q], entries'[q] = entries[q], pc'[q] = pc[q],
         running'[q] = running[q], ran'[q] = ran[q], reentered'[q] = reentered[q]
  PROVE  ProcessInv(q)'
<1>1. Taken(q)' = Taken(q) /\ Sent(q)' = Sent(q) /\ Running(q)' = Running(q)
  BY DEF Taken, Sent, Running
<1>2. \A id : EntryOf(q, id)' = EntryOf(q, id) /\ Waits(q, id)' = Waits(q, id)
  BY <1>1 DEF EntryOf, Waits
<1>3. Requests(q)'
  BY <1>1, <1>2 DEF ProcessInv, Requests
<1>4. Callbacks(q)'
  BY <1>1, <1>2 DEF ProcessInv, Callbacks
<1>5. Exact(q)'
  BY <1>1, <1>2 DEF ProcessInv, Exact
<1>6. QED
  BY <1>3, <1>4, <1>5 DEF ProcessInv

LEMMA InitRegistry == Init => RegistryInv
<1>1. SUFFICES ASSUME Init PROVE RegistryInv
  OBVIOUS
<1>2. RegistryTypes
  BY <1>1 DEF Init, RegistryTypes, Pcs
<1>3. ASSUME NEW p \in Processes PROVE ProcessInv(p)
  <2>1. /\ idCounter[p] = 1 /\ writing[p] = {} /\ unregistered[p] = 0
        /\ entries[p] = {} /\ running[p] = <<>> /\ pc[p] = "application"
        /\ \A id \in Ids : typeOf[p][id] = MESSAGE /\ ran[p][id] = 0
    BY <1>1 DEF Init
  <2>2. MaxIds[p] \in Nat
    BY RpcAssumption
  <2>3. Requests(p)
    BY <2>1, <2>2 DEF Requests
  <2>4. Callbacks(p)
    BY <2>1 DEF Callbacks
  <2>5. Exact(p)
    BY <2>1 DEF Exact, Waits, MESSAGE, CALL, SUBSCRIPTION
  <2>6. QED
    BY <2>3, <2>4, <2>5 DEF ProcessInv
<1>4. QED
  BY <1>2, <1>3 DEF RegistryInv

\* A step of p, as far as the invariant sees it.
StepOf(p) ==
  \A q \in Processes \ {p} :
    /\ idCounter'[q] = idCounter[q] /\ writing'[q] = writing[q] /\ typeOf'[q] = typeOf[q]
    /\ unregistered'[q] = unregistered[q] /\ entries'[q] = entries[q] /\ pc'[q] = pc[q]
    /\ running'[q] = running[q] /\ ran'[q] = ran[q] /\ reentered'[q] = reentered[q]

LEMMA StepKeeps ==
  ASSUME RegistryInv, NEW p \in Processes, StepOf(p), RegistryTypes', ProcessInv(p)'
  PROVE  RegistryInv'
<1>1. ASSUME NEW q \in Processes \ {p} PROVE ProcessInv(q)'
  BY <1>1, Elsewhere DEF RegistryInv, StepOf
<1>2. QED
  BY <1>1 DEF RegistryInv

-----------------------------------------------------------------------------
(* Steps that change neither what is sent nor the registry *)

LEMMA SameSent ==
  ASSUME NEW p \in Processes, ProcessInv(p),
         entries'[p] = entries[p], running'[p] = running[p], ran'[p] = ran[p],
         reentered'[p] = reentered[p], Sent(p)' = Sent(p),
         \A id \in Sent(p) : typeOf'[p][id] = typeOf[p][id],
         pc[p] \in {"application", "send"}
  PROVE  /\ \A e \in entries'[p] : e.request \in Sent(p)' /\ e = EntryOf(p, e.request)'
         /\ Callbacks(p)' /\ Exact(p)'
<1>1. \A id \in Sent(p) : EntryOf(p, id)' = EntryOf(p, id) /\ Waits(p, id)' = Waits(p, id)
  BY DEF EntryOf, Waits, Running
<1>2. \A e \in entries'[p] : e.request \in Sent(p)' /\ e = EntryOf(p, e.request)'
  BY <1>1 DEF ProcessInv, Requests
<1>3. Callbacks(p)'
  BY <1>1 DEF ProcessInv, Callbacks
<1>4. Exact(p)'
  <2>1. ASSUME NEW id \in Ids \ reentered[p]
        PROVE  EntryOf(p, id)' \in entries[p] <=> Waits(p, id)'
    <3>1. CASE id \in Sent(p)
      BY <1>1, <2>1, <3>1 DEF ProcessInv, Exact
    <3>2. CASE id \notin Sent(p)
      <4>1. ~Waits(p, id)'
        BY <3>2 DEF Waits
      <4>2. EntryOf(p, id)'.request = id
        BY DEF EntryOf
      <4>3. EntryOf(p, id)' \notin entries[p]
        BY <1>2, <3>2, <4>2
      <4>4. QED
        BY <4>1, <4>3
    <3>3. QED
      BY <3>1, <3>2
  <2>2. QED
    BY <2>1 DEF Exact
<1>5. QED
  BY <1>2, <1>3, <1>4

LEMMA OpenKeeps ==
  ASSUME RegistryInv, NEW p \in Processes, NEW type \in MESSAGE..SUBSCRIPTION, Open(p, type)
  PROVE  RegistryInv'
<1> DEFINE id == idCounter[p]
<1>1. ProcessInv(p) /\ Requests(p) /\ RegistryTypes
  BY DEF RegistryInv, ProcessInv
<1>2. MaxIds[p] \in Nat /\ id \in 1..MaxIds[p] /\ id \in Ids /\ id \in Nat
  BY <1>1, RpcAssumption, IdsNat DEF Open, Requests
<1>3. type \in {MESSAGE, CALL, SUBSCRIPTION}
  BY DEF MESSAGE, CALL, SUBSCRIPTION
<1>4. /\ idCounter' = [idCounter EXCEPT ![p] = id + 1]
      /\ typeOf' = [typeOf EXCEPT ![p][id] = type]
      /\ writing' = [writing EXCEPT ![p] = @ \cup {id}]
      /\ UNCHANGED <<unregistered, entries, pc, running, ran, reentered>>
      /\ pc[p] = "application"
  BY DEF Open, history
<1>5. RegistryTypes'
  BY <1>1, <1>2, <1>3, <1>4 DEF RegistryTypes
<1>6. StepOf(p)
  BY <1>1, <1>4 DEF StepOf, RegistryTypes
<1>7. /\ idCounter'[p] = id + 1 /\ writing'[p] = writing[p] \cup {id}
      /\ \A i \in Ids \ {id} : typeOf'[p][i] = typeOf[p][i]
  BY <1>1, <1>4 DEF RegistryTypes
<1>8. Taken(p)' = Taken(p) \cup {id} /\ id \notin Taken(p)
  BY <1>2, <1>7 DEF Taken
<1>9. Sent(p)' = Sent(p) /\ id \notin Sent(p) /\ Sent(p) \subseteq Ids
  <2>1. unregistered[p] = 0 /\ unregistered' = unregistered
    BY <1>1, <1>4 DEF Requests
  <2>2. Taken(p) \subseteq Ids
    BY <1>1, TakenIds DEF Requests
  <2>3. QED
    BY <1>2, <1>7, <1>8, <2>1, <2>2 DEF Sent
<1>10. /\ \A e \in entries'[p] : e.request \in Sent(p)' /\ e = EntryOf(p, e.request)'
       /\ Callbacks(p)' /\ Exact(p)'
  BY <1>1, <1>4, <1>7, <1>9, SameSent
<1>11. Requests(p)'
  <2>1. idCounter'[p] \in 1..(MaxIds[p] + 1) /\ writing'[p] \subseteq Taken(p)'
    BY <1>1, <1>2, <1>7, <1>8 DEF Requests
  <2>2. \A i \in Ids : ran'[p][i] > 0 => i \in Sent(p)'
    BY <1>1, <1>4, <1>9 DEF Requests
  <2>3. pc'[p] # "send" /\ unregistered'[p] = 0
    BY <1>1, <1>4 DEF Requests
  <2>4. QED
    BY <1>10, <2>1, <2>2, <2>3 DEF Requests
<1>12. QED
  BY <1>5, <1>6, <1>10, <1>11, StepKeeps DEF ProcessInv

LEMMA SendRequestKeeps ==
  ASSUME RegistryInv, NEW p \in Processes, NEW id \in writing[p], SendRequest(p, id)
  PROVE  RegistryInv'
<1>1. ProcessInv(p) /\ Requests(p) /\ RegistryTypes
  BY DEF RegistryInv, ProcessInv
<1>2. Taken(p) \subseteq Ids /\ id \in Taken(p) /\ id # 0 /\ id \in Nat
  BY <1>1, TakenIds, IdsNat DEF Requests
<1>3. /\ UNCHANGED <<idCounter, typeOf, entries, running, ran, reentered>>
      /\ writing' = [writing EXCEPT ![p] = @ \ {id}]
      /\ pc' = [pc EXCEPT ![p] = "send"]
      /\ unregistered' = [unregistered EXCEPT ![p] = id]
      /\ pc[p] = "application" /\ typeOf[p][id] # MESSAGE
  BY DEF SendRequest, history
<1>4. RegistryTypes'
  BY <1>1, <1>2, <1>3 DEF RegistryTypes, Pcs
<1>5. StepOf(p)
  BY <1>1, <1>3 DEF StepOf, RegistryTypes
<1>6. writing'[p] = writing[p] \ {id} /\ pc'[p] = "send" /\ unregistered'[p] = id
  BY <1>1, <1>3 DEF RegistryTypes
<1>7. Taken(p)' = Taken(p) /\ Sent(p)' = Sent(p)
  BY <1>1, <1>2, <1>3, <1>6 DEF Taken, Sent, Requests
<1>8. /\ \A e \in entries'[p] : e.request \in Sent(p)' /\ e = EntryOf(p, e.request)'
      /\ Callbacks(p)' /\ Exact(p)'
  BY <1>1, <1>3, <1>6, <1>7, SameSent
<1>9. Requests(p)'
  BY <1>1, <1>2, <1>3, <1>6, <1>7, <1>8 DEF Requests
<1>10. QED
  BY <1>4, <1>5, <1>8, <1>9, StepKeeps DEF ProcessInv

LEMMA CancelKeeps ==
  ASSUME RegistryInv, NEW p \in Processes, NEW id \in writing[p], Cancel(p, id)
  PROVE  RegistryInv'
<1>1. ProcessInv(p) /\ Requests(p) /\ RegistryTypes
  BY DEF RegistryInv, ProcessInv
<1>2. /\ UNCHANGED <<idCounter, writing, typeOf, unregistered, entries, running, ran, reentered>>
      /\ pc' = [pc EXCEPT ![p] = "overflow"] /\ pc[p] = "application"
  BY DEF Cancel, local, history
<1>3. RegistryTypes'
  BY <1>1, <1>2 DEF RegistryTypes, Pcs
<1>4. StepOf(p) /\ pc'[p] = "overflow"
  BY <1>1, <1>2 DEF StepOf, RegistryTypes
<1>5. Taken(p)' = Taken(p) /\ Sent(p)' = Sent(p)
  BY <1>2 DEF Taken, Sent
<1>6. /\ \A e \in entries'[p] : e.request \in Sent(p)' /\ e = EntryOf(p, e.request)'
      /\ Callbacks(p)' /\ Exact(p)'
  BY <1>1, <1>2, <1>4, <1>5, SameSent
<1>7. Requests(p)'
  BY <1>1, <1>2, <1>4, <1>5, <1>6 DEF Requests
<1>8. QED
  BY <1>3, <1>4, <1>6, <1>7, StepKeeps DEF ProcessInv

-----------------------------------------------------------------------------
(* Steps that send and register *)

LEMMA SendMessageKeeps ==
  ASSUME RegistryInv, NEW p \in Processes, NEW id \in writing[p], SendMessage(p, id)
  PROVE  RegistryInv'
<1>1. ProcessInv(p) /\ Requests(p) /\ Callbacks(p) /\ Exact(p) /\ RegistryTypes
  BY DEF RegistryInv, ProcessInv
<1>2. Taken(p) \subseteq Ids /\ id \in Taken(p) /\ id # 0
  BY <1>1, TakenIds, IdsNat DEF Requests
<1>3. /\ UNCHANGED <<idCounter, typeOf, unregistered, entries, pc, running, ran, reentered>>
      /\ writing' = [writing EXCEPT ![p] = @ \ {id}]
      /\ pc[p] = "application" /\ typeOf[p][id] = MESSAGE
  BY DEF SendMessage, history
<1>4. RegistryTypes'
  BY <1>1, <1>3 DEF RegistryTypes
<1>5. StepOf(p) /\ writing'[p] = writing[p] \ {id}
  BY <1>1, <1>3 DEF StepOf, RegistryTypes
<1>6. Taken(p)' = Taken(p) /\ Sent(p)' = Sent(p) \cup {id} /\ id \notin Sent(p)
  BY <1>1, <1>2, <1>3, <1>5 DEF Taken, Sent, Requests
<1>7. \A i : EntryOf(p, i)' = EntryOf(p, i)
  BY <1>3 DEF EntryOf
<1>8. Running(p)' = Running(p)
  BY <1>3 DEF Running
<1>9. Requests(p)'
  BY <1>1, <1>3, <1>5, <1>6, <1>7 DEF Requests
<1>10. Callbacks(p)'
  BY <1>1, <1>3, <1>6, <1>7 DEF Callbacks
<1>11. Exact(p)'
  <2>1. ASSUME NEW i \in Ids \ reentered[p], i # id
        PROVE  Waits(p, i)' <=> Waits(p, i)
    BY <1>3, <1>6, <1>8, <2>1 DEF Waits
  <2>2. ~Waits(p, id)'
    BY <1>3 DEF Waits, MESSAGE, CALL, SUBSCRIPTION
  <2>3. EntryOf(p, id) \notin entries[p]
    BY <1>1, <1>6 DEF Requests, EntryOf
  <2>4. QED
    BY <1>1, <1>3, <1>7, <2>1, <2>2, <2>3 DEF Exact
<1>12. QED
  BY <1>4, <1>5, <1>9, <1>10, <1>11, StepKeeps DEF ProcessInv

\* The request registered was sent, and has not been answered to a callback.
LEMMA RegisterKeeps ==
  ASSUME RegistryInv, NEW p \in Processes, Register(p), NEW id, id = unregistered[p]
  PROVE  RegistryInv'
<1> DEFINE e == EntryOf(p, id)
<1>1. ProcessInv(p) /\ Requests(p) /\ Callbacks(p) /\ Exact(p) /\ RegistryTypes
  BY DEF RegistryInv, ProcessInv
<1>2. pc[p] = "send" /\ id \in Taken(p) /\ id \in Ids /\ id # 0 /\ typeOf[p][id] # MESSAGE
      /\ id \notin writing[p]
  BY <1>1, TakenIds, IdsNat DEF Requests, Register
<1>3. e \in Entry
  BY <1>1, <1>2 DEF EntryOf, Entry, RegistryTypes
<1>4. /\ UNCHANGED <<idCounter, writing, typeOf, running, ran, reentered>>
      /\ entries' = [entries EXCEPT ![p] = @ \cup {e}]
      /\ pc' = [pc EXCEPT ![p] = "application"]
      /\ unregistered' = [unregistered EXCEPT ![p] = 0]
  BY DEF Register, EntryOf, history
<1>5. RegistryTypes'
  BY <1>1, <1>3, <1>4 DEF RegistryTypes, Pcs
<1>6. /\ StepOf(p)
      /\ entries'[p] = entries[p] \cup {e} /\ pc'[p] = "application" /\ unregistered'[p] = 0
  BY <1>1, <1>4 DEF StepOf, RegistryTypes
<1>7. Taken(p)' = Taken(p) /\ Sent(p)' = Sent(p) \cup {id} /\ id \notin Sent(p)
  <2>1. Taken(p)' = Taken(p) /\ 0 \notin Taken(p)
    BY <1>4 DEF Taken
  <2>2. QED
    BY <1>2, <1>4, <1>6, <2>1 DEF Sent
<1>8. /\ \A i : EntryOf(p, i)' = EntryOf(p, i) /\ EntryOf(p, i).request = i
      /\ Running(p)' = Running(p)
  BY <1>4 DEF EntryOf, Running
<1>9. Requests(p)'
  BY <1>1, <1>4, <1>6, <1>7, <1>8 DEF Requests
<1>10. Callbacks(p)'
  BY <1>1, <1>4, <1>6, <1>7, <1>8 DEF Callbacks
<1>11. Exact(p)'
  <2>1. ASSUME NEW i \in Ids \ reentered[p], i # id
        PROVE  EntryOf(p, i) \in entries'[p] <=> Waits(p, i)'
    <3>1. Waits(p, i)' <=> Waits(p, i)
      BY <1>4, <1>7, <1>8, <2>1 DEF Waits
    <3>2. EntryOf(p, i) # e
      BY <1>8, <2>1
    <3>3. EntryOf(p, i) \in entries[p] <=> Waits(p, i)
      BY <1>1, <1>2, <2>1 DEF Exact
    <3>4. QED
      BY <1>6, <3>1, <3>2, <3>3
  <2>2. Waits(p, id)'
    <3>1. ran[p][id] \in Nat /\ typeOf[p][id] \in {MESSAGE, CALL, SUBSCRIPTION}
      BY <1>1, <1>2 DEF RegistryTypes
    <3>2. ~(ran[p][id] > 0)
      BY <1>1, <1>2, <1>7 DEF Requests
    <3>3. ran[p][id] = 0 /\ typeOf[p][id] \in {CALL, SUBSCRIPTION}
      BY <1>2, <3>1, <3>2
    <3>4. QED
      BY <1>4, <1>7, <3>3 DEF Waits
  <2>3. QED
    BY <1>4, <1>6, <1>8, <2>1, <2>2 DEF Exact
<1>12. QED
  BY <1>5, <1>6, <1>9, <1>10, <1>11, StepKeeps DEF ProcessInv

\* The process ends before its request is registered.
LEMMA RegisterFailsKeeps ==
  ASSUME RegistryInv, NEW p \in Processes, RegisterFails(p)
  PROVE  RegistryInv'
<1>1. ProcessInv(p) /\ Requests(p) /\ Callbacks(p) /\ RegistryTypes
  BY DEF RegistryInv, ProcessInv
<1>2. /\ UNCHANGED <<idCounter, writing, typeOf, entries, running, ran, reentered>>
      /\ pc' = [pc EXCEPT ![p] = "crashed"]
      /\ unregistered' = [unregistered EXCEPT ![p] = 0]
  BY DEF RegisterFails, history
<1>3. RegistryTypes'
  BY <1>1, <1>2 DEF RegistryTypes, Pcs
<1>4. StepOf(p) /\ pc'[p] = "crashed" /\ unregistered'[p] = 0
  BY <1>1, <1>2 DEF StepOf, RegistryTypes
<1>5. Taken(p)' = Taken(p) /\ Sent(p) \subseteq Sent(p)'
  <2>1. Taken(p)' = Taken(p) /\ 0 \notin Taken(p)
    BY <1>2 DEF Taken
  <2>2. QED
    BY <1>2, <1>4, <2>1 DEF Sent
<1>6. \A i : EntryOf(p, i)' = EntryOf(p, i)
  BY <1>2 DEF EntryOf
<1>7. Requests(p)' /\ Callbacks(p)'
  BY <1>1, <1>2, <1>4, <1>5, <1>6 DEF Requests, Callbacks
<1>8. Exact(p)'
  BY <1>4 DEF Exact
<1>9. QED
  BY <1>3, <1>4, <1>7, <1>8, StepKeeps DEF ProcessInv

-----------------------------------------------------------------------------
(* Responses *)

\* The callback of an entry begins.
LEMMA RunKeeps ==
  ASSUME RegistryInv, NEW p \in Processes, NEW e \in entries[p], RunCallback(p, e),
         UNCHANGED <<idCounter, writing, typeOf, unregistered, entries, pc>>,
         pc[p] = "application"
  PROVE  RegistryInv'
<1> DEFINE id == e.request
           n == Len(running[p])
<1>1. ProcessInv(p) /\ Requests(p) /\ Callbacks(p) /\ Exact(p) /\ RegistryTypes
  BY DEF RegistryInv, ProcessInv
<1>2. e \in Entry /\ id \in Ids /\ id \in Sent(p) /\ e = EntryOf(p, id)
  BY <1>1 DEF RegistryTypes, Requests, Entry
<1>3. running[p] \in Seq(Entry) /\ n \in Nat
  BY <1>1 DEF RegistryTypes
<1> DEFINE again == \E i \in 1..n : running[p][i] = e
           r == IF again THEN reentered[p] \cup {id} ELSE reentered[p]
<1>4. /\ running' = [running EXCEPT ![p] = Append(@, e)]
      /\ ran' = [ran EXCEPT ![p][id] = @ + 1]
      /\ reentered' = [reentered EXCEPT ![p] = r]
  <2>1. DOMAIN running[p] = 1..n
    BY <1>3
  <2>2. QED
    BY <2>1 DEF RunCallback
<1>5. RegistryTypes'
  BY <1>1, <1>2, <1>3, <1>4 DEF RegistryTypes
<1>6. StepOf(p)
  BY <1>1, <1>4 DEF StepOf, RegistryTypes
<1>7. /\ Len(running'[p]) = n + 1
      /\ \A i \in 1..n : running'[p][i] = running[p][i]
      /\ running'[p][n + 1] = e
  BY <1>1, <1>2, <1>3, <1>4 DEF RegistryTypes
<1>8. /\ ran'[p][id] > 0
      /\ \A i \in Ids \ {id} : ran'[p][i] = ran[p][i]
      /\ \A i \in Ids : ran[p][i] > 0 => ran'[p][i] > 0
  BY <1>1, <1>2, <1>4 DEF RegistryTypes
<1>9. /\ reentered[p] \subseteq reentered'[p]
      /\ (\E i \in 1..n : running[p][i] = e) => id \in reentered'[p]
  BY <1>1, <1>4 DEF RegistryTypes
<1>10. /\ Taken(p)' = Taken(p) /\ Sent(p)' = Sent(p)
       /\ \A i : EntryOf(p, i)' = EntryOf(p, i)
  BY DEF Taken, Sent, EntryOf
<1>11. Running(p)' = Running(p) \cup {id}
  <2>1. DOMAIN running[p] = 1..n /\ DOMAIN running'[p] = 1..(n + 1)
    BY <1>1, <1>2, <1>3, <1>4, <1>5, <1>7 DEF RegistryTypes
  <2>2. 1..(n + 1) = 1..n \cup {n + 1}
    BY <1>3
  <2>3. QED
    BY <1>7, <2>1, <2>2 DEF Running
<1>12. Requests(p)'
  BY <1>1, <1>2, <1>8, <1>10 DEF Requests
<1>13. Callbacks(p)'
  <2>1. ASSUME NEW i \in 1..(n + 1)
        PROVE  LET f == running'[p][i] IN
                 /\ f.request \in Sent(p) /\ f = EntryOf(p, f.request)
                 /\ ran'[p][f.request] > 0
                 /\ f \in entries[p] \/ f.request \in reentered'[p]
    <3>1. CASE i \in 1..n
      <4>1. running[p][i] \in Entry
        BY <1>3, <3>1
      <4>2. running[p][i].request \in Ids
        BY <4>1 DEF Entry
      <4>3. QED
        <5> DEFINE f == running[p][i]
        <5>1. f.request \in Sent(p) /\ f = EntryOf(p, f.request) /\ ran[p][f.request] > 0
              /\ (f \in entries[p] \/ f.request \in reentered[p])
          BY <1>1, <3>1 DEF Callbacks
        <5>2. running'[p][i] = f /\ ran'[p][f.request] > 0
          BY <1>7, <1>8, <3>1, <4>2, <5>1
        <5> HIDE DEF f
        <5>3. QED
          BY <1>9, <5>1, <5>2
    <3>2. CASE i = n + 1
      BY <1>2, <1>7, <1>8, <3>2
    <3>3. QED
      BY <1>3, <3>1, <3>2
  <2>2. ASSUME NEW i \in 1..(n + 1), NEW j \in 1..(n + 1), i # j, running'[p][i] = running'[p][j]
        PROVE  running'[p][i].request \in reentered'[p]
    <3>1. CASE i \in 1..n /\ j \in 1..n
      BY <1>1, <1>7, <1>9, <2>2, <3>1 DEF Callbacks
    <3>2. CASE i = n + 1 \/ j = n + 1
      <4>1. PICK k \in 1..n : running[p][k] = e
        <5>1. CASE i = n + 1
          <6>1. j \in 1..n /\ running'[p][j] = e
            BY <1>3, <1>7, <2>2, <5>1
          <6>2. QED
            BY <1>7, <6>1
        <5>2. CASE j = n + 1
          <6>1. i \in 1..n /\ running'[p][i] = e
            BY <1>3, <1>7, <2>2, <5>2
          <6>2. QED
            BY <1>7, <6>1
        <5>3. QED
          BY <3>2, <5>1, <5>2
      <4>2. running'[p][i] = e
        BY <1>7, <2>2, <3>2
      <4>3. QED
        BY <1>9, <4>1, <4>2
    <3>3. QED
      BY <1>3, <3>1, <3>2
  <2>3. QED
    BY <1>7, <1>10, <2>1, <2>2 DEF Callbacks
<1>14. Exact(p)'
  <2>1. ASSUME NEW i \in Ids \ reentered'[p] PROVE EntryOf(p, i) \in entries[p] <=> Waits(p, i)'
    <3>1. EntryOf(p, i) \in entries[p] <=> Waits(p, i)
      BY <1>1, <1>9, <2>1 DEF Exact
    <3>2. CASE i # id
      BY <1>8, <1>10, <1>11, <3>1, <3>2 DEF Waits
    <3>3. CASE i = id
      <4>1. Waits(p, id)
        BY <1>2, <3>1, <3>3
      <4>2. Waits(p, id)'
        BY <1>2, <1>10, <1>11, <4>1 DEF Waits
      <4>3. QED
        BY <1>2, <3>3, <4>2
    <3>4. QED
      BY <3>2, <3>3
  <2>2. QED
    BY <1>10, <2>1 DEF Exact
<1>15. QED
  BY <1>5, <1>6, <1>12, <1>13, <1>14, StepKeeps DEF ProcessInv

\* A callback returns, and the entry of a call goes: no other callback runs for
\* it, or the request is one of those reentered.
LEMMA ReturnKeeps ==
  ASSUME RegistryInv, NEW p \in Processes, CallbackReturns(p)
  PROVE  RegistryInv'
<1>1. ProcessInv(p) /\ Requests(p) /\ Callbacks(p) /\ Exact(p) /\ RegistryTypes
  BY DEF RegistryInv, ProcessInv
<1>2. PICK n \in Nat : n = Len(running[p])
  BY <1>1 DEF RegistryTypes
<1>3. n > 0 /\ running[p] \in Seq(Entry)
  BY <1>1, <1>2 DEF RegistryTypes, CallbackReturns
<1>4. PICK e \in Entry : e = running[p][n]
  BY <1>2, <1>3
<1>5. PICK id \in Ids : id = e.request
  BY DEF Entry
<1>6. /\ id \in Sent(p) /\ e = EntryOf(p, id) /\ ran[p][id] > 0
      /\ e \in entries[p] \/ id \in reentered[p]
  BY <1>1, <1>2, <1>3, <1>4, <1>5 DEF Callbacks
<1>7. /\ UNCHANGED <<idCounter, writing, typeOf, unregistered, ran, reentered>>
      /\ running' = [running EXCEPT ![p] = SubSeq(@, 1, n - 1)]
      /\ pc[p] \in {"application", "destroyed"}
      /\ IF e \in entries[p]
         THEN /\ entries' = IF e.type = CALL THEN [entries EXCEPT ![p] = @ \ {e}] ELSE entries
              /\ pc' = pc
         ELSE pc' = [pc EXCEPT ![p] = "undefined"] /\ entries' = entries
  BY <1>2, <1>4 DEF CallbackReturns, local, history
<1>8. SubSeq(running[p], 1, n - 1) \in Seq(Entry)
  BY <1>2, <1>3
<1>9. RegistryTypes'
  BY <1>1, <1>7, <1>8 DEF RegistryTypes, Pcs
<1>10. StepOf(p)
  BY <1>1, <1>7 DEF StepOf, RegistryTypes
<1>11. /\ Len(running'[p]) = n - 1
       /\ \A i \in 1..(n - 1) : running'[p][i] = running[p][i]
  BY <1>1, <1>2, <1>3, <1>7 DEF RegistryTypes
<1>12. entries'[p] \subseteq entries[p] /\ entries[p] \subseteq entries'[p] \cup {e}
  BY <1>1, <1>7 DEF RegistryTypes
<1>13. /\ Taken(p)' = Taken(p) /\ Sent(p)' = Sent(p)
       /\ \A i : EntryOf(p, i)' = EntryOf(p, i) /\ EntryOf(p, i).request = i
  BY <1>7 DEF Taken, Sent, EntryOf
<1>14. \A i \in 1..(n - 1) : running[p][i] = e => id \in reentered[p]
  BY <1>1, <1>2, <1>3, <1>4, <1>5 DEF Callbacks
<1>15. Requests(p)'
  <2>1. pc'[p] # "send" /\ pc[p] # "send"
    BY <1>1, <1>7 DEF RegistryTypes
  <2>2. QED
    BY <1>1, <1>7, <1>12, <1>13, <2>1 DEF Requests
<1>16. Callbacks(p)'
  <2>1. ASSUME NEW i \in 1..(n - 1), NEW f, f = running[p][i]
        PROVE  /\ f.request \in Sent(p) /\ f = EntryOf(p, f.request)
               /\ ran[p][f.request] > 0
               /\ f \in entries'[p] \/ f.request \in reentered[p]
    <3>1. /\ f.request \in Sent(p) /\ f = EntryOf(p, f.request) /\ ran[p][f.request] > 0
          /\ f \in entries[p] \/ f.request \in reentered[p]
      BY <1>1, <1>2, <2>1 DEF Callbacks
    <3>2. f = e => f.request \in reentered[p]
      BY <1>5, <1>14, <2>1
    <3>3. QED
      BY <1>12, <3>1, <3>2
  <2>2. ASSUME NEW i \in 1..(n - 1), NEW j \in 1..(n - 1), i # j, running[p][i] = running[p][j]
        PROVE  running[p][i].request \in reentered[p]
    BY <1>1, <1>2, <2>2 DEF Callbacks
  <2>3. QED
    BY <1>7, <1>11, <1>13, <2>1, <2>2 DEF Callbacks
<1>17. Running(p) = Running(p)' \cup {id}
  <2>1. DOMAIN running[p] = 1..n /\ DOMAIN running'[p] = 1..(n - 1)
    BY <1>1, <1>2, <1>3, <1>9, <1>11 DEF RegistryTypes
  <2>2. 1..n = 1..(n - 1) \cup {n}
    BY <1>2, <1>3
  <2>3. QED
    BY <1>4, <1>5, <1>11, <2>1, <2>2 DEF Running
<1>18. id \in reentered[p] \/ id \notin Running(p)'
  <2>1. SUFFICES ASSUME id \in Running(p)' PROVE id \in reentered[p]
    OBVIOUS
  <2>2. DOMAIN running'[p] = 1..(n - 1)
    BY <1>9, <1>11 DEF RegistryTypes
  <2>3. PICK i \in 1..(n - 1) : running[p][i].request = id
    BY <1>11, <2>1, <2>2 DEF Running
  <2>4. running[p][i] = e
    BY <1>1, <1>2, <1>6, <2>3 DEF Callbacks
  <2>5. QED
    BY <1>14, <2>4
<1>19. Exact(p)'
  <2>1. ASSUME pc'[p] = "application", NEW i \in Ids \ reentered[p]
        PROVE  EntryOf(p, i) \in entries'[p] <=> Waits(p, i)'
    <3>1. pc[p] = "application"
      BY <1>1, <1>7, <2>1 DEF RegistryTypes
    <3>2. EntryOf(p, i) \in entries[p] <=> Waits(p, i)
      BY <1>1, <2>1, <3>1 DEF Exact
    <3>3. CASE i # id
      <4>1. Waits(p, i)' <=> Waits(p, i)
        BY <1>7, <1>13, <1>17, <3>3 DEF Waits
      <4>2. EntryOf(p, i) # e
        BY <1>5, <1>13, <3>3
      <4>3. QED
        BY <1>12, <3>2, <4>1, <4>2
    <3>4. CASE i = id
      <4>1. e \in entries[p] /\ id \notin Running(p)'
        BY <1>6, <1>18, <2>1, <3>4
      <4>2. e.type = typeOf[p][id] /\ e.type \in {CALL, SUBSCRIPTION}
        BY <1>6 DEF EntryOf, Entry
      <4>3. CASE e.type = CALL
        <5>1. e \notin entries'[p]
          BY <1>1, <1>7, <4>1, <4>3 DEF RegistryTypes
        <5>2. ~Waits(p, id)'
          BY <1>6, <1>7, <4>1, <4>2, <4>3 DEF Waits, CALL, SUBSCRIPTION
        <5>3. QED
          BY <1>6, <3>4, <5>1, <5>2
      <4>4. CASE e.type # CALL
        <5>1. entries'[p] = entries[p]
          BY <1>7, <4>1, <4>4
        <5>2. Waits(p, id)'
          BY <1>6, <1>7, <1>13, <4>2, <4>4 DEF Waits
        <5>3. QED
          BY <1>6, <3>4, <4>1, <5>1, <5>2
      <4>5. QED
        BY <4>3, <4>4
    <3>5. QED
      BY <3>3, <3>4
  <2>2. pc'[p] # "send"
    BY <1>1, <1>7 DEF RegistryTypes
  <2>3. QED
    BY <1>7, <1>13, <2>1, <2>2 DEF Exact
<1>20. QED
  BY <1>9, <1>10, <1>15, <1>16, <1>19, StepKeeps DEF ProcessInv

\* All entries go: those whose callbacks run are reentered.
LEMMA DestroyKeeps ==
  ASSUME RegistryInv, NEW p \in Processes, DestroyRpc(p)
  PROVE  RegistryInv'
<1>1. ProcessInv(p) /\ Requests(p) /\ Callbacks(p) /\ RegistryTypes
  BY DEF RegistryInv, ProcessInv
<1>2. /\ UNCHANGED <<idCounter, writing, typeOf, unregistered, running, ran>>
      /\ entries' = [entries EXCEPT ![p] = {}]
      /\ pc' = [pc EXCEPT ![p] = "destroyed"]
      /\ reentered' = [reentered EXCEPT ![p] = @ \cup Running(p)]
      /\ pc[p] = "application"
  BY DEF DestroyRpc, local, Running
<1>3. DOMAIN running[p] = 1..Len(running[p])
  BY <1>1 DEF RegistryTypes
<1>4. Running(p) \subseteq Ids
  <2>1. \A i \in 1..Len(running[p]) : running[p][i] \in Entry
    BY <1>1 DEF RegistryTypes
  <2>2. QED
    BY <1>3, <2>1 DEF Running, Entry
<1>5. RegistryTypes'
  BY <1>1, <1>2, <1>4 DEF RegistryTypes, Pcs
<1>6. StepOf(p)
  BY <1>1, <1>2 DEF StepOf, RegistryTypes
<1>7. entries'[p] = {} /\ pc'[p] = "destroyed" /\ Running(p) \subseteq reentered'[p]
  BY <1>1, <1>2 DEF RegistryTypes
<1>8. /\ Taken(p)' = Taken(p) /\ Sent(p)' = Sent(p)
      /\ \A i : EntryOf(p, i)' = EntryOf(p, i)
  BY <1>2 DEF Taken, Sent, EntryOf
<1>9. Requests(p)'
  BY <1>1, <1>2, <1>7, <1>8 DEF Requests
<1>10. \A i \in 1..Len(running[p]) : running[p][i].request \in reentered'[p]
  BY <1>3, <1>7 DEF Running
<1>11. Callbacks(p)'
  BY <1>1, <1>2, <1>8, <1>10 DEF Callbacks
<1>12. Exact(p)'
  BY <1>7 DEF Exact
<1>13. QED
  BY <1>5, <1>6, <1>9, <1>11, <1>12, StepKeeps DEF ProcessInv

-----------------------------------------------------------------------------
LEMMA RegistryStep == ASSUME RegistryInv, [Next]_vars PROVE RegistryInv'
<1> DEFINE seen == <<idCounter, writing, typeOf, unregistered, entries, pc, running, ran, reentered>>
<1>1. ASSUME UNCHANGED seen PROVE RegistryInv'
  <2>1. RegistryTypes'
    BY <1>1 DEF RegistryInv, RegistryTypes
  <2>2. ASSUME NEW q \in Processes PROVE ProcessInv(q)'
    BY <1>1, Elsewhere DEF RegistryInv
  <2>3. QED
    BY <2>1, <2>2 DEF RegistryInv
<1>2. ASSUME NEW p \in Processes, HandleIncomingMessage(p) PROVE RegistryInv'
  <2> DEFINE m == Head(channel[p])
  <2>1. UNCHANGED <<idCounter, writing, typeOf, unregistered, pc>> /\ pc[p] = "application"
    BY <1>2 DEF HandleIncomingMessage, Incoming, local
  <2>2. CASE HandRequest(p, m)
    BY <1>1, <2>1, <2>2 DEF HandRequest
  <2>3. CASE HandleResponse(p, m.id)
    <3>1. entries' = entries
      BY <2>3 DEF HandleResponse
    <3>2. CASE Found(p, m.id) = {}
      BY <1>1, <2>1, <2>3, <3>1, <3>2 DEF HandleResponse
    <3>3. CASE Found(p, m.id) # {}
      <4>1. PICK e \in Found(p, m.id) : RunCallback(p, e)
        BY <2>3, <3>3 DEF HandleResponse
      <4>2. e \in entries[p]
        BY DEF Found
      <4>3. QED
        BY <2>1, <3>1, <4>1, <4>2, RunKeeps
    <3>4. QED
      BY <3>2, <3>3
  <2>4. QED
    BY <1>2, <2>2, <2>3 DEF HandleIncomingMessage
<1>3. ASSUME NEW p \in Processes, KeepMessage(p) PROVE RegistryInv'
  BY <1>1, <1>3 DEF KeepMessage, local, history
<1>4. ASSUME NEW p \in Processes, NEW m, Respond(p, m) \/ Release(p, m) PROVE RegistryInv'
  BY <1>1, <1>4 DEF Respond, Release, local, history
<1>5. CASE UNCHANGED vars
  BY <1>1, <1>5 DEF vars, local, history
<1>6. ASSUME NEW p \in Processes, Register(p) PROVE RegistryInv'
  BY <1>6, RegisterKeeps
<1>7. QED
  BY <1>2, <1>3, <1>4, <1>5, <1>6, RegisterFailsKeeps, OpenKeeps, SendMessageKeeps, SendRequestKeeps, CancelKeeps,
     ReturnKeeps, DestroyKeeps DEF Next

LEMMA RegistryInvariant == Spec => []RegistryInv
BY InitRegistry, RegistryStep, PTL DEF Spec

\* Whatever responses come, in whatever order and however often, while requests
\* are sent and callbacks run inside each other: the registry of a process that
\* goes on has exactly the subscriptions it sent and the calls that no response
\* has been given to, or whose callback is still running; but for requests that
\* a second response reentered.
THEOREM Registry == Spec => []RegistryExact
<1>1. ASSUME RegistryInv, NEW p \in Processes, pc[p] \in {"application", "send"}
      PROVE  {e.request : e \in entries[p]} \ reentered[p]
               = {id \in Sent(p) : \/ typeOf[p][id] = SUBSCRIPTION
                                   \/ typeOf[p][id] = CALL /\ (ran[p][id] = 0 \/ id \in Running(p))}
                 \ reentered[p]
  <2>1. Requests(p) /\ Exact(p)
    BY <1>1 DEF RegistryInv, ProcessInv
  <2>2. Sent(p) \subseteq Ids
    BY <2>1, TakenIds DEF Requests, Sent
  <2>3. ASSUME NEW id \in Ids \ reentered[p]
        PROVE  id \in {e.request : e \in entries[p]} <=> Waits(p, id)
    <3>1. id \in {e.request : e \in entries[p]} <=> EntryOf(p, id) \in entries[p]
      <4>1. EntryOf(p, id).request = id
        BY DEF EntryOf
      <4>2. \A e \in entries[p] : e = EntryOf(p, e.request)
        BY <2>1 DEF Requests
      <4>3. QED
        BY <4>1, <4>2
    <3>2. QED
      BY <1>1, <2>1, <2>3, <3>1 DEF Exact
  <2>4. \A e \in entries[p] : e.request \in Sent(p)
    BY <2>1 DEF Requests
  <2>5. QED
    BY <2>2, <2>3, <2>4 DEF Waits
<1>2. RegistryInv => RegistryExact
  BY <1>1 DEF RegistryExact
<1>3. QED
  BY <1>2, RegistryInvariant, PTL

\* However deep callbacks run inside each other: the entry of each is in the
\* registry while it runs, but for requests whose callback was entered again by
\* another response, and an rpc destroyed inside a callback.
THEOREM Outlives == Spec => []EntryOutlivesCallback
<1>1. ASSUME RegistryInv, NEW p \in Processes, NEW i \in DOMAIN running[p]
      PROVE  running[p][i] \in entries[p] \/ running[p][i].request \in reentered[p]
  <2>1. Callbacks(p) /\ i \in 1..Len(running[p])
    BY <1>1 DEF RegistryInv, RegistryTypes, ProcessInv
  <2>2. QED
    BY <2>1 DEF Callbacks
<1>2. RegistryInv => EntryOutlivesCallback
  BY <1>1 DEF EntryOutlivesCallback
<1>3. QED
  BY <1>2, RegistryInvariant, PTL
=============================================================================
