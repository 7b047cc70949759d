---------------------------- MODULE ClientProofs ----------------------------
(***************************************************************************)
(* Proofs about two processes that use the library from init to destroy,   *)
(* for documents of any depth, any number of messages, buffers of any size *)
(* and any number of steps of init that fail.                              *)
(*                                                                         *)
(*   Nesting     a nested writer is ended in the writer it was opened in   *)
(*   Survival    messages keep their order, and are lost only with a queue *)
(*   Releases    what init takes is given back, but for some pages         *)
(*   Leavings    what an init that failed leaves, and what it does not     *)
(*   Typing      the state has its types                                   *)
(*   ReadsInOrder  fields asked for in the order they were written, and    *)
(*               only those, are found                                     *)
(*                                                                         *)
(* None of them is inductive.  NestInv is about the parent pointers of the *)
(* open writers, LifeInv about the fields that each stage has set, HoldInv *)
(* about the resources, pages and sizes of each stage, SurvivalInv about   *)
(* the numbers of the messages, SearchInv about where the cursor can be.   *)
(***************************************************************************)
EXTENDS Client, TLAPS, WellFoundedInduction

\* The variables of the writers change in five actions, and the others leave
\* them alone.
LEMMA WritingChanges ==
  ASSUME [Next]_vars
  PROVE  MessageInit \/ WriteDocument \/ MessageSend \/ MessageCancel \/ UNCHANGED writing
<1>1. ASSUME NEW p \in Processes, LifeNext(p, scenario.sizes) /\ UNCHANGED <<writing, reading, client>>
      PROVE  UNCHANGED writing
  BY <1>1
<1>2. ASSUME NEW p \in Processes, TransportDestroy(p)
      PROVE  UNCHANGED writing
  BY <1>2 DEF TransportDestroy
<1>3. ASSUME WriterMisleads \/ WriteMessages \/ WriteToClosed PROVE UNCHANGED writing
  BY <1>3 DEF WriterMisleads, WriteMessages, WriteToClosed
<1>4. ASSUME WaitMessages \/ MessageReceive \/ MessageDestroy PROVE UNCHANGED writing
  BY <1>4 DEF WaitMessages, MessageReceive, MessageDestroy
<1>5. ASSUME OpenDocument \/ ReadDocument \/ ReadNothing \/ CloseDocument PROVE UNCHANGED writing
  BY <1>5 DEF OpenDocument, ReadDocument, ReadNothing, CloseDocument
<1>6. ASSUME NEW p \in Processes, NoMemory(p) PROVE UNCHANGED writing
  BY <1>6 DEF NoMemory
<1>7. CASE UNCHANGED vars
  BY <1>7 DEF vars
<1>8. QED
  BY <1>1, <1>2, <1>3, <1>4, <1>5, <1>6, <1>7 DEF Next

-----------------------------------------------------------------------------
(* Nesting *)

\* The pointer that the function for the outer writer's kind sets and reads is
\* the outer writer.  Of the other one nothing is said.
ParentSet(s, i) ==
  IF s[i - 1].kind = "document" THEN s[i].parentDocument = i - 1 ELSE s[i].parentArray = i - 1

NestInv ==
  /\ open \in Seq(Writer)
  /\ \A i \in 2..Len(open) : ParentSet(open, i)
  /\ misused = FALSE

\* A writer pushed with the right pointer to the innermost one keeps the
\* invariant, whatever its other pointer is.
LEMMA PushKeeps ==
  ASSUME NestInv, open # <<>>,
         NEW k \in {"document", "array"}, NEW d \in 0..Wild, NEW a \in 0..Wild,
         Push(k, d, a), UNCHANGED misused,
         IF Last(open).kind = "document" THEN d = Len(open) ELSE a = Len(open)
  PROVE  NestInv'
<1> DEFINE w == [kind |-> k, parentDocument |-> d, parentArray |-> a]
<1>1. w \in Writer
  BY DEF Writer
<1>2. open' = Append(open, w)
  BY DEF Push
<1>3. open' \in Seq(Writer) /\ Len(open') = Len(open) + 1 /\ Len(open) \in Nat \ {0}
  BY <1>1, <1>2 DEF NestInv
<1>4. \A i \in 1..Len(open) : open'[i] = open[i]
  BY <1>1, <1>2 DEF NestInv
<1>5. open'[Len(open) + 1] = w
  BY <1>1, <1>2 DEF NestInv
<1>6. ASSUME NEW i \in 2..Len(open') PROVE ParentSet(open', i)
  <2>1. CASE i = Len(open) + 1
    <3>1. open'[i] = w /\ open'[i - 1] = Last(open) /\ i - 1 = Len(open)
      BY <2>1, <1>3, <1>4, <1>5 DEF Last
    <3>2. QED
      BY <3>1 DEF ParentSet
  <2>2. CASE i \in 2..Len(open)
    <3>1. open'[i] = open[i] /\ open'[i - 1] = open[i - 1]
      BY <2>2, <1>3, <1>4
    <3>2. QED
      BY <2>2, <3>1 DEF ParentSet, NestInv
  <2>3. QED
    BY <2>1, <2>2, <1>3
<1>7. QED
  BY <1>3, <1>6 DEF NestInv

\* The innermost writer, ended in the one before it, leaves the others as they
\* are.
LEMMA EndKeeps ==
  ASSUME NestInv, Len(open) > 1, EndIn(Len(open) - 1)
  PROVE  NestInv'
<1>1. open' = SubSeq(open, 1, Len(open) - 1)
  BY DEF EndIn, Front
<1>2. open' \in Seq(Writer) /\ Len(open') = Len(open) - 1 /\ Len(open) \in Nat
  BY <1>1 DEF NestInv
<1>3. \A i \in 1..Len(open') : open'[i] = open[i]
  BY <1>1, <1>2 DEF NestInv
<1>4. misused' = FALSE
  BY DEF EndIn, NestInv
<1>5. ASSUME NEW i \in 2..Len(open') PROVE ParentSet(open', i)
  <2>1. open'[i] = open[i] /\ open'[i - 1] = open[i - 1] /\ i \in 2..Len(open)
    BY <1>2, <1>3
  <2>2. QED
    BY <2>1 DEF ParentSet, NestInv
<1>6. QED
  BY <1>2, <1>4, <1>5 DEF NestInv

\* What is undefined of a pointer is still one of the values a pointer has.
LEMMA WriterPointers ==
  ASSUME NestInv
  PROVE  /\ Garbage \subseteq 0..Wild
         /\ open # <<>> => Last(open) \in Writer /\ Len(open) \in Nat \ {0}
         /\ open # <<>> /\ Len(open) < MaxDepth => Len(open) \in 0..Wild
BY DocumentsAssumption DEF NestInv, Garbage, Null, Wild, Last

LEMMA BeginsKeep ==
  ASSUME NestInv, NEW key,
         DocDocumentBegin(key) \/ DocArrayBegin(key) \/ ArrDocumentBegin \/ ArrArrayBegin
  PROVE  NestInv'
<1>1. open # <<>> /\ UNCHANGED misused /\ Len(open) < MaxDepth
  BY DEF DocDocumentBegin, DocArrayBegin, ArrDocumentBegin, ArrArrayBegin, InDocument, InArray, Push, Write
<1>2. Len(open) \in 0..Wild /\ Last(open) \in Writer
  BY <1>1, WriterPointers
<1>3. ASSUME DocDocumentBegin(key) PROVE NestInv'
  <2>1. PICK garbage \in Garbage : Push("document", Len(open), garbage)
    BY <1>3 DEF DocDocumentBegin
  <2>2. garbage \in 0..Wild /\ Last(open).kind = "document"
    BY <1>3, WriterPointers DEF DocDocumentBegin, InDocument
  <2>3. QED
    BY <1>1, <1>2, <2>1, <2>2, PushKeeps
<1>4. ASSUME DocArrayBegin(key) PROVE NestInv'
  <2>1. Push("array", Len(open), Last(open).parentArray) /\ Last(open).kind = "document"
    BY <1>4 DEF DocArrayBegin, InDocument
  <2>2. Last(open).parentArray \in 0..Wild
    BY <1>2 DEF Writer
  <2>3. QED
    BY <1>1, <1>2, <2>1, <2>2, PushKeeps
<1>5. ASSUME NEW k \in {"document", "array"}, NEW garbage \in Garbage,
             Push(k, garbage, Len(open)), InArray
      PROVE  NestInv'
  <2>1. garbage \in 0..Wild /\ Last(open).kind # "document"
    BY <1>5, WriterPointers DEF InArray
  <2>2. QED
    BY <1>1, <1>2, <1>5, <2>1, PushKeeps
<1>6. QED
  BY <1>3, <1>4, <1>5 DEF ArrDocumentBegin, ArrArrayBegin

LEMMA EndsKeep ==
  ASSUME NestInv, DocDocumentEnd \/ ArrFinish \/ ArrDocumentEnd \/ ArrArrayEnd
  PROVE  NestInv'
<1>1. Outer \in {"document", "array"}
  BY DEF DocDocumentEnd, ArrFinish, ArrDocumentEnd, ArrArrayEnd
<1>2. Len(open) \in Nat /\ Len(open) > 1 /\ open[Len(open) - 1].kind = Outer
  BY <1>1 DEF Outer, NestInv
<1>3. ParentSet(open, Len(open))
  BY <1>2 DEF NestInv
<1>4. EndIn(Len(open) - 1)
  <2>1. CASE Outer = "document"
    <3>1. Last(open).parentDocument = Len(open) - 1 /\ Len(open) - 1 # Null
      BY <2>1, <1>2, <1>3 DEF ParentSet, Last, Null
    <3>2. QED
      BY <2>1, <3>1 DEF DocDocumentEnd, ArrFinish, ArrDocumentEnd, ArrArrayEnd
  <2>2. CASE Outer = "array"
    <3>1. Last(open).parentArray = Len(open) - 1
      BY <2>2, <1>2, <1>3 DEF ParentSet, Last
    <3>2. QED
      BY <2>2, <3>1 DEF DocDocumentEnd, ArrFinish, ArrDocumentEnd, ArrArrayEnd
  <2>3. QED
    BY <1>1, <2>1, <2>2
<1>5. QED
  BY <1>2, <1>4, EndKeeps

LEMMA NestStep == ASSUME NestInv, [Next]_vars PROVE NestInv'
<1>1. ASSUME MessageInit PROVE NestInv'
  <2>1. /\ \/ open' = <<[kind |-> "document", parentDocument |-> Null, parentArray |-> Null]>>
           \/ open' = <<>>
        /\ misused' = misused
    BY <1>1 DEF MessageInit, FromBuffer
  <2> DEFINE root == [kind |-> "document", parentDocument |-> Null, parentArray |-> Null]
  <2>2. root \in Writer
    BY DocumentsAssumption DEF Writer, Null, Wild
  <2> HIDE DEF root
  <2>3. <<root>> \in Seq(Writer) /\ Len(<<root>>) = 1 /\ <<>> \in Seq(Writer) /\ Len(<<>>) = 0
    BY <2>2
  <2>4. open' \in Seq(Writer) /\ Len(open') <= 1
    <3>1. open' = <<root>> \/ open' = <<>>
      BY <2>1 DEF root
    <3>2. CASE open' = <<root>>
      BY <2>3, <3>2
    <3>3. CASE open' = <<>>
      BY <2>3, <3>3
    <3>4. QED
      BY <3>1, <3>2, <3>3
  <2>5. QED
    BY <2>1, <2>4 DEF NestInv
<1>2. ASSUME WriteDocument PROVE NestInv'
  <2>1. ASSUME UNCHANGED <<open, misused>> PROVE NestInv'
    BY <2>1 DEF NestInv, ParentSet
  <2>2. ASSUME NEW key, NEW type, DocAppend(key, type) \/ ArrAppend(type) PROVE NestInv'
    BY <2>2, <2>1 DEF DocAppend, ArrAppend, Write
  <2>3. QED
    BY <1>2, <2>2, BeginsKeep, EndsKeep DEF WriteDocument
<1>3. ASSUME MessageSend \/ MessageCancel PROVE NestInv'
  <2>1. open' = <<>> /\ misused' = misused
    BY <1>3 DEF MessageSend, MessageCancel, Discard
  <2>2. QED
    BY <2>1 DEF NestInv
<1>4. CASE UNCHANGED writing
  BY <1>4 DEF writing, NestInv, ParentSet
<1>5. QED
  BY <1>1, <1>2, <1>3, <1>4, WritingChanges

\* Whatever the parent pointers that array_writer.c and document_writer.c never
\* set contain, and wherever they are copied, a nested document or array of any
\* depth is ended in the one it was opened in.
THEOREM Nesting == Spec => []EndsInParent
<1>1. Init => NestInv
  BY DEF Init, NestInv
<1>2. NestInv /\ [Next]_vars => NestInv'
  BY NestStep
<1>3. NestInv => EndsInParent
  BY DEF NestInv, EndsInParent
<1>4. QED
  BY <1>1, <1>2, <1>3, PTL DEF Spec

-----------------------------------------------------------------------------
(* Stages *)

FieldValues == [{"read", "write", "manager"} -> Unset \cup {"set"}]

\* What init has set of a transport's fields f at the stage s.
SetBy(s, f) ==
  /\ s = "up" => f["manager"] = "set"
  /\ kind = "shm" /\ s = "up" => f["read"] = "set" /\ f["write"] = "set"
  /\ kind = "shm" /\ s \in {"managed", "readMapped", "attached", "writeMapped"} => f["manager"] = "set"
  /\ kind = "shm" /\ s \in {"attached", "writeMapped"} => f["read"] = "set"

LifeInv ==
  /\ kind \in {"shm", "uds"}
  /\ at \in [Processes -> Stages]
  /\ fields \in [Processes -> FieldValues]
  /\ \A p \in Processes : SetBy(at[p], fields[p])

\* A step of one process, to a stage whose fields are set ...
LEMMA SetKeeps ==
  ASSUME LifeInv, kind' = kind, NEW p \in Processes,
         NEW s \in Stages, Reach(p, s),
         NEW f \in FieldValues, fields' = [fields EXCEPT ![p] = f], SetBy(s, f)
  PROVE  LifeInv'
<1>1. /\ at' \in [Processes -> Stages]
      /\ at'[p] = s
      /\ \A q \in Processes \ {p} : at'[q] = at[q]
  BY DEF Reach, LifeInv
<1>2. /\ fields' \in [Processes -> FieldValues]
      /\ fields'[p] = f
      /\ \A q \in Processes \ {p} : fields'[q] = fields[q]
  BY DEF LifeInv
<1>3. \A q \in Processes : SetBy(at[q], fields[q])'
  BY <1>1, <1>2 DEF LifeInv, SetBy
<1>4. QED
  BY <1>1, <1>2, <1>3 DEF LifeInv

\* ... and one that leaves the fields alone.
LEMMA ReachKeeps ==
  ASSUME LifeInv, kind' = kind, fields' = fields, NEW p \in Processes,
         NEW s \in Stages, Reach(p, s), SetBy(s, fields[p])
  PROVE  LifeInv'
<1>1. fields[p] \in FieldValues /\ fields' = [fields EXCEPT ![p] = fields[p]]
  BY DEF LifeInv
<1>2. QED
  BY <1>1, SetKeeps

\* Where destroy leads to is not a stage of init.
LEMMA DestroyReaches ==
  ASSUME NEW p \in Processes, NEW has, NEW next \in {"null", "gone"}, Destroy(p, has, next)
  PROVE  \E s \in {"undefined", "aborted", next} :
           Reach(p, s) /\ \A f \in FieldValues : SetBy(s, f)
BY DEF Destroy, SetBy

LEMMA FailsKeep ==
  ASSUME LifeInv, NEW p \in Processes, NEW leaves, GiveUp(p, leaves)
  PROVE  LifeInv'
<1>1. PICK s \in {"undefined", "aborted", "null"} :
        Reach(p, s) /\ \A f \in FieldValues : SetBy(s, f)
  BY DestroyReaches DEF GiveUp
<1>2. s \in Stages /\ fields[p] \in FieldValues
  BY DEF Stages, LifeInv
<1>3. kind' = kind /\ fields' = fields
  BY DEF GiveUp
<1>4. QED
  BY <1>1, <1>2, <1>3, ReachKeeps

\* Steps of init that succeed, abort, or overrun the mapping.
LEMMA ShmInitKeeps ==
  ASSUME LifeInv, NEW p \in Processes,
         \/ ShmManager(p) \/ ReadMap(p) \/ Attach(p) \/ WriteMap(p)
         \/ CreateAborts(p) \/ CreateOverruns(p) \/ Create(p)
  PROVE  LifeInv'
<1>1. fields[p] \in FieldValues /\ SetBy(at[p], fields[p]) /\ kind = "shm"
  BY DEF LifeInv, ShmManager, ReadMap, Attach, WriteMap, CreateAborts, CreateOverruns, Create
<1>2. {"managed", "readMapped", "attached", "writeMapped", "aborted", "undefined", "up"} \subseteq Stages
  BY DEF Stages
<1>3. ASSUME ReadMap(p) \/ WriteMap(p) \/ CreateAborts(p) \/ CreateOverruns(p) PROVE LifeInv'
  <2>1. CASE ReadMap(p)
    BY <1>1, <1>2, <2>1, ReachKeeps DEF ReadMap, SetBy
  <2>2. CASE WriteMap(p)
    BY <1>1, <1>2, <2>2, ReachKeeps DEF WriteMap, SetBy
  <2>3. CASE CreateAborts(p)
    BY <1>1, <1>2, <2>3, ReachKeeps DEF CreateAborts, SetBy
  <2>4. CASE CreateOverruns(p)
    BY <1>1, <1>2, <2>4, ReachKeeps DEF CreateOverruns, SetBy
  <2>5. QED
    BY <1>3, <2>1, <2>2, <2>3, <2>4
<1>5. ASSUME ShmManager(p) \/ Attach(p) \/ Create(p) PROVE LifeInv'
  <2> DEFINE with(x) == [fields[p] EXCEPT ![x] = "set"]
  <2>1. \A x \in {"read", "write", "manager"} :
          /\ with(x) \in FieldValues
          /\ with(x)[x] = "set"
          /\ \A y \in {"read", "write", "manager"} \ {x} : with(x)[y] = fields[p][y]
    BY <1>1 DEF FieldValues
  <2>2. CASE ShmManager(p)
    <3>1. SetBy("managed", with("manager"))
      BY <2>1 DEF SetBy
    <3>2. fields' = [fields EXCEPT ![p] = with("manager")] /\ with("manager") \in FieldValues
      BY <2>1, <2>2 DEF ShmManager
    <3>3. QED
      BY <1>2, <2>2, <3>1, <3>2, SetKeeps DEF ShmManager
  <2>3. CASE Attach(p)
    <3>1. SetBy("attached", with("read"))
      BY <1>1, <2>1, <2>3 DEF SetBy, Attach
    <3>2. fields' = [fields EXCEPT ![p] = with("read")] /\ with("read") \in FieldValues
      BY <2>1, <2>3 DEF Attach
    <3>3. QED
      BY <1>2, <2>3, <3>1, <3>2, SetKeeps DEF Attach
  <2>4. CASE Create(p)
    <3>1. SetBy("up", with("write"))
      BY <1>1, <2>1, <2>4 DEF SetBy, Create
    <3>2. fields' = [fields EXCEPT ![p] = with("write")] /\ with("write") \in FieldValues
      BY <2>1, <2>4 DEF Create
    <3>3. QED
      BY <1>2, <2>4, <3>1, <3>2, SetKeeps DEF Create
  <2>5. QED
    BY <1>5, <2>2, <2>3, <2>4
<1>6. QED
  BY <1>3, <1>5

\* The first steps, that leave some fields as malloc returned them, and those
\* of a socket's init.
LEMMA BeginKeeps ==
  ASSUME LifeInv, NEW p \in Processes, NEW sizes,
         CreateMapping(p, sizes) \/ ShmBegin(p) \/ UdsBegin(p) \/ UdsManager(p)
  PROVE  LifeInv'
<1>1. fields[p] \in FieldValues
  BY DEF LifeInv
<1>2. {"mapping", "null", "begun", "up"} \subseteq Stages
  BY DEF Stages
<1>4. \A f \in FieldValues : SetBy("mapping", f) /\ SetBy("null", f) /\ SetBy("begun", f)
  BY DEF SetBy
<1>5. CASE CreateMapping(p, sizes)
  BY <1>1, <1>2, <1>4, <1>5, ReachKeeps DEF CreateMapping
<1>6. ASSUME ShmBegin(p) \/ UdsBegin(p), Reach(p, "null"), UNCHANGED fields
      PROVE  LifeInv'
  BY <1>1, <1>2, <1>4, <1>6, ReachKeeps DEF ShmBegin, UdsBegin
<1>7. ASSUME Reach(p, "begun"), kind' = kind,
             NEW f \in FieldValues, fields' = [fields EXCEPT ![p] = f]
      PROVE  LifeInv'
  BY <1>2, <1>4, <1>7, SetKeeps
<1>8. CASE ShmBegin(p)
  <2>1. [{"read", "write", "manager"} -> Unset] \subseteq FieldValues
    BY DEF FieldValues
  <2>2. QED
    BY <1>6, <1>7, <1>8, <2>1 DEF ShmBegin
<1>9. ASSUME NEW v \in Unset \cup {"set"} PROVE [fields[p] EXCEPT !["manager"] = v] \in FieldValues
  BY <1>1 DEF FieldValues
<1>10. CASE UdsBegin(p)
  <2>1. ASSUME Reach(p, "begun"), NEW garbage \in Unset,
               fields' = [fields EXCEPT ![p]["manager"] = garbage], kind' = kind
        PROVE  LifeInv'
    BY <1>7, <1>9, <2>1
  <2>2. QED
    BY <1>6, <1>10, <2>1 DEF UdsBegin
<1>11. CASE UdsManager(p)
  <2> DEFINE f == [fields[p] EXCEPT !["manager"] = "set"]
  <2>1. f \in FieldValues /\ f["manager"] = "set"
    BY <1>1, <1>9 DEF FieldValues
  <2>2. kind # "shm" /\ SetBy("up", f)
    BY <1>11, <2>1 DEF UdsManager, SetBy
  <2>3. QED
    BY <1>2, <1>11, <2>1, <2>2, SetKeeps DEF UdsManager
<1>12. QED
  BY <1>5, <1>8, <1>10, <1>11

LEMMA LifeStep ==
  ASSUME LifeInv, NEW p \in Processes, NEW sizes, LifeNext(p, sizes)
  PROVE  LifeInv'
<1>1. ASSUME ShmManagerFails(p) \/ ReadMapFails(p) \/ AttachFails(p) \/ WriteMapFails(p)
             \/ CreateFails(p) \/ UdsManagerFails(p)
      PROVE  \E leaves : GiveUp(p, leaves)
  BY <1>1 DEF ShmManagerFails, ReadMapFails, AttachFails, WriteMapFails, CreateFails,
              UdsManagerFails, Fail
<1>2. ASSUME LateEvent(p) PROVE LifeInv'
  <2>1. "undefined" \in Stages
    BY DEF Stages
  <2>2. SetBy("undefined", fields[p])
    BY DEF SetBy
  <2>3. QED
    BY <1>2, <2>1, <2>2, ReachKeeps DEF LateEvent
<1>3. QED
  BY <1>1, <1>2, FailsKeep, ShmInitKeeps, BeginKeeps DEF LifeNext

LEMMA LifeInvInit == Init => LifeInv
<1>1. SUFFICES ASSUME Init PROVE LifeInv
  OBVIOUS
<1>2. kind \in {"shm", "uds"} /\ at = [p \in Processes |-> "none"]
      /\ fields = [p \in Processes |-> [f \in {"read", "write", "manager"} |-> "null"]]
  BY <1>1 DEF Init, LifeInit
<1>3. fields \in [Processes -> FieldValues]
  BY <1>2 DEF FieldValues, Unset
<1>4. at \in [Processes -> Stages]
  BY <1>2 DEF Stages
<1>5. QED
  BY <1>2, <1>3, <1>4 DEF LifeInv, SetBy

LEMMA LifeInvStep == ASSUME LifeInv, [Next]_vars PROVE LifeInv'
<1>1. ASSUME NEW p \in Processes, TransportDestroy(p) PROVE LifeInv'
  <2>1. fields[p]["manager"] = "set"
        /\ (kind = "shm" => fields[p]["read"] = "set" /\ fields[p]["write"] = "set")
    BY <1>1 DEF TransportDestroy, LifeInv, SetBy
  <2>2. fields[p] \in FieldValues
    BY DEF LifeInv
  <2>3. Reach(p, "gone")
    BY <1>1, <2>1, <2>2 DEF TransportDestroy, Destroy, FieldValues
  <2>4. "gone" \in Stages /\ SetBy("gone", fields[p])
    BY DEF Stages, SetBy
  <2>5. kind' = kind /\ fields' = fields
    BY <1>1 DEF TransportDestroy
  <2>6. QED
    BY <2>3, <2>4, <2>5, ReachKeeps
<1>2. {"undefined", "aborted", "killed"} \subseteq Stages
  BY DEF Stages
<1>3. \A f : SetBy("undefined", f) /\ SetBy("aborted", f) /\ SetBy("killed", f)
  BY DEF SetBy
<1>4. Sender \in Processes /\ Receiver \in Processes
  BY ClientAssumption, LifeAssumption DEF Receiver
<1>5. ASSUME UNCHANGED <<kind, at, fields>> PROVE LifeInv'
  BY <1>5 DEF LifeInv, SetBy
<1>6. ASSUME UNCHANGED <<kind, fields>>, NEW p \in Processes,
             NEW s \in {"undefined", "aborted", "killed"}, Reach(p, s)
      PROVE  LifeInv'
  BY <1>2, <1>3, <1>6, ReachKeeps
<1>7. ASSUME WriterMisleads \/ WriteToClosed \/ ReadNothing PROVE LifeInv'
  BY <1>4, <1>6, <1>7 DEF WriterMisleads, Mislead, WriteToClosed, ReadNothing
<1>8. ASSUME MessageCancel PROVE LifeInv'
  BY <1>4, <1>5, <1>6, <1>8 DEF MessageCancel
<1>9. ASSUME NEW p \in Processes, NoMemory(p) PROVE LifeInv'
  BY <1>6, <1>9 DEF NoMemory
<1>10. ASSUME \/ MessageInit \/ WriteDocument \/ MessageSend \/ WriteMessages
              \/ WaitMessages \/ MessageReceive
              \/ OpenDocument \/ ReadDocument \/ CloseDocument \/ MessageDestroy
       PROVE  UNCHANGED <<kind, at, fields>>
  BY <1>10 DEF MessageInit, WriteDocument, MessageSend, WriteMessages, WaitMessages,
               MessageReceive, OpenDocument, ReadDocument, CloseDocument, MessageDestroy, life
<1>11. CASE UNCHANGED vars
  BY <1>5, <1>11 DEF vars, life
<1>12. QED
  BY <1>1, <1>5, <1>7, <1>8, <1>9, <1>10, <1>11, LifeStep DEF Next

-----------------------------------------------------------------------------
(* Survival *)

Early == {"none", "mapping", "begun", "managed", "readMapped", "attached", "writeMapped"}

IsSeq(s) == \E S : s \in Seq(S)

LEMMA SeqAppend ==
  ASSUME NEW s, IsSeq(s), NEW e
  PROVE  /\ IsSeq(Append(s, e))
         /\ Len(s) \in Nat /\ Len(Append(s, e)) = Len(s) + 1
         /\ \A i \in 1..Len(s) : Append(s, e)[i] = s[i]
         /\ Append(s, e)[Len(s) + 1] = e
<1>1. PICK S : s \in Seq(S)
  BY DEF IsSeq
<1>2. s \in Seq(S \cup {e}) /\ e \in S \cup {e}
  BY <1>1
<1>3. Append(s, e) \in Seq(S \cup {e})
  BY <1>2
<1>4. QED
  BY <1>2, <1>3 DEF IsSeq

\* The first n elements of s moved to the end of t.
LEMMA SeqMove ==
  ASSUME NEW s, IsSeq(s), NEW t, IsSeq(t), NEW n \in 1..Len(s)
  PROVE  LET u == t \o SubSeq(s, 1, n)
             v == SubSeq(s, n + 1, Len(s))
         IN  /\ IsSeq(u) /\ IsSeq(v)
             /\ Len(s) \in Nat /\ Len(t) \in Nat
             /\ Len(u) = Len(t) + n /\ Len(v) = Len(s) - n
             /\ \A i \in 1..Len(t) : u[i] = t[i]
             /\ \A i \in 1..n : u[Len(t) + i] = s[i]
             /\ \A i \in 1..(Len(s) - n) : v[i] = s[n + i]
<1> DEFINE first == SubSeq(s, 1, n)
           u == t \o first
           v == SubSeq(s, n + 1, Len(s))
<1>1. PICK S, T : s \in Seq(S) /\ t \in Seq(T)
  BY DEF IsSeq
<1>2. s \in Seq(S \cup T) /\ t \in Seq(S \cup T)
  BY <1>1
<1>3. first \in Seq(S \cup T) /\ Len(first) = n /\ \A i \in 1..n : first[i] = s[i]
  BY <1>2
<1>4. v \in Seq(S \cup T) /\ Len(v) = Len(s) - n /\ \A i \in 1..(Len(s) - n) : v[i] = s[n + i]
  BY <1>2
<1>5. /\ u \in Seq(S \cup T) /\ Len(u) = Len(t) + n
      /\ \A i \in 1..Len(t) : u[i] = t[i]
      /\ \A i \in 1..n : u[Len(t) + i] = first[i]
  BY <1>2, <1>3
<1>6. IsSeq(u) /\ IsSeq(v)
  BY <1>4, <1>5 DEF IsSeq
<1>7. \A i \in 1..n : u[Len(t) + i] = s[i]
  BY <1>3, <1>5
<1>8. Len(s) \in Nat /\ Len(t) \in Nat
  BY <1>2
<1>9. QED
  BY <1>4, <1>5, <1>6, <1>7, <1>8

\* The messages received, in the channel and in the queue are numbered on end;
\* none is missing before the sender has ended in a socket's process.
Numbered ==
  /\ \A i \in 1..Len(received) : received[i] = i
  /\ \A i \in 1..Len(channel) : channel[i].number = Len(received) + i
  /\ \A i \in 1..Len(outgoing) : outgoing[i].number = Len(received) + Len(channel) + i

Total == Len(received) + Len(channel) + Len(outgoing)

Whole ==
  /\ Total <= sent
  /\ at[Sender] \in Early => sent = 0
  /\ kind = "shm" \/ at[Sender] = "up" => Total = sent

SurvivalInv ==
  /\ at \in [Processes -> Stages]
  /\ sent \in Nat
  /\ received \in Seq(Nat) /\ IsSeq(channel) /\ IsSeq(outgoing)
  /\ kind = "shm" => outgoing = <<>>
  /\ Numbered
  /\ Whole

LEMMA SeqLens ==
  ASSUME SurvivalInv
  PROVE  Len(received) \in Nat /\ Len(channel) \in Nat /\ Len(outgoing) \in Nat
<1>1. \A s : IsSeq(s) => Len(s) \in Nat
  BY DEF IsSeq
<1>2. QED
  BY <1>1 DEF SurvivalInv

\* A step that moves no message keeps the invariant when it takes the sender
\* to no stage but from one before it.
LEMMA StillWhole ==
  ASSUME SurvivalInv, UNCHANGED <<kind, sent, received, channel, outgoing>>,
         at' \in [Processes -> Stages],
         at'[Sender] \in Early => at[Sender] \in Early,
         at'[Sender] = "up" => at[Sender] = "up" \/ at[Sender] \in Early
  PROVE  SurvivalInv'
<1>1. Numbered'
  BY DEF SurvivalInv, Numbered
<1>2. Total' = Total
  BY DEF Total
<1>3. at[Sender] \in Early => Total = sent
  BY SeqLens DEF SurvivalInv, Whole, Total
<1>4. Whole'
  BY <1>2, <1>3 DEF SurvivalInv, Whole
<1>5. QED
  BY <1>1, <1>4 DEF SurvivalInv

\* init only goes forward.
LEMMA Forward ==
  ASSUME LifeInv, NEW p \in Processes, NEW sizes, LifeNext(p, sizes)
  PROVE  \E s \in Stages : Reach(p, s) /\ (s \in Early \/ s = "up" => at[p] \in Early)
<1>1. Early \subseteq Stages /\ {"up", "null", "aborted", "undefined"} \subseteq Stages
  BY DEF Stages, Early
<1>2. ASSUME NEW leaves, GiveUp(p, leaves)
      PROVE  \E s \in Stages : Reach(p, s) /\ s \notin Early /\ s # "up"
  BY <1>1, <1>2, DestroyReaches DEF GiveUp, Early
<1>3. CASE \/ ShmManagerFails(p) \/ ReadMapFails(p) \/ AttachFails(p) \/ WriteMapFails(p)
           \/ CreateFails(p) \/ UdsManagerFails(p)
  BY <1>2, <1>3 DEF ShmManagerFails, ReadMapFails, AttachFails, WriteMapFails, CreateFails,
                    UdsManagerFails, Fail
<1>4. CASE CreateMapping(p, sizes) \/ ShmBegin(p) \/ UdsBegin(p)
  BY <1>1, <1>4 DEF CreateMapping, ShmBegin, UdsBegin, Early
<1>5. CASE \/ ShmManager(p) \/ ReadMap(p) \/ Attach(p) \/ WriteMap(p)
           \/ CreateAborts(p) \/ CreateOverruns(p) \/ Create(p) \/ UdsManager(p)
  BY <1>1, <1>5 DEF ShmManager, ReadMap, Attach, WriteMap, CreateAborts, CreateOverruns, Create,
                    UdsManager, Early
<1>6. CASE LateEvent(p)
  BY <1>1, <1>6 DEF LateEvent, Early
<1>7. QED
  BY <1>3, <1>4, <1>5, <1>6 DEF LifeNext

\* A message sent gets the next number, in the channel of shared memory or in
\* the queue of a socket.
LEMMA SendKeeps == ASSUME SurvivalInv, MessageSend PROVE SurvivalInv'
<1>1. Total = sent /\ sent \in Nat /\ sent' = sent + 1 /\ Ready.number = sent + 1
  BY DEF MessageSend, Writing, SurvivalInv, Whole, Ready
<1>2. UNCHANGED <<kind, at, received>> /\ at[Sender] = "up"
  BY DEF MessageSend, Writing
<1>3. at[Sender] \notin Early
  BY <1>2 DEF Early
<1>4. Len(received) \in Nat /\ Len(channel) \in Nat /\ Len(outgoing) \in Nat
  BY SeqLens
<1>5. CASE kind = "shm"
  <2>1. channel' = Append(channel, Ready) /\ outgoing' = outgoing /\ outgoing = <<>>
    BY <1>5 DEF MessageSend, SurvivalInv
  <2>2. /\ IsSeq(channel')
        /\ Len(channel') = Len(channel) + 1
        /\ \A i \in 1..Len(channel) : channel'[i] = channel[i]
        /\ channel'[Len(channel) + 1] = Ready
    BY <2>1, SeqAppend DEF SurvivalInv
  <2>3. Len(outgoing) = 0
    BY <2>1
  <2>4. Numbered'
    BY <1>1, <1>2, <1>4, <2>1, <2>2, <2>3 DEF SurvivalInv, Numbered, Total
  <2>5. Whole'
    BY <1>1, <1>2, <1>3, <1>4, <2>1, <2>2 DEF Whole, Total
  <2>6. QED
    BY <1>1, <1>2, <2>1, <2>2, <2>4, <2>5 DEF SurvivalInv
<1>6. CASE kind # "shm"
  <2>1. outgoing' = Append(outgoing, Ready) /\ channel' = channel
    BY <1>6 DEF MessageSend
  <2>2. /\ IsSeq(outgoing')
        /\ Len(outgoing') = Len(outgoing) + 1
        /\ \A i \in 1..Len(outgoing) : outgoing'[i] = outgoing[i]
        /\ outgoing'[Len(outgoing) + 1] = Ready
    BY <2>1, SeqAppend DEF SurvivalInv
  <2>3. Numbered'
    <3>1. Numbered
      BY DEF SurvivalInv
    <3>2. ASSUME NEW i \in 1..Len(outgoing')
          PROVE  outgoing'[i].number = Len(received) + Len(channel) + i
      <4>1. CASE i \in 1..Len(outgoing)
        BY <2>2, <3>1, <4>1 DEF Numbered
      <4>2. CASE i = Len(outgoing) + 1
        BY <1>1, <1>4, <2>2, <4>2 DEF Total
      <4>3. QED
        BY <1>4, <2>2, <4>1, <4>2
    <3>3. QED
      BY <1>2, <2>1, <3>1, <3>2 DEF Numbered
  <2>4. Whole'
    BY <1>1, <1>2, <1>3, <1>4, <2>1, <2>2 DEF Whole, Total
  <2>5. QED
    BY <1>1, <1>2, <1>6, <2>1, <2>2, <2>3, <2>4 DEF SurvivalInv
<1>7. QED
  BY <1>5, <1>6

\* The socket takes messages from the front of the queue.
LEMMA WriteKeeps == ASSUME SurvivalInv, WriteMessages PROVE SurvivalInv'
<1>1. PICK n \in 1..Len(outgoing) :
        /\ channel' = channel \o SubSeq(outgoing, 1, n)
        /\ outgoing' = SubSeq(outgoing, n + 1, Len(outgoing))
  BY DEF WriteMessages
<1>2. UNCHANGED <<kind, at, sent, received>> /\ kind # "shm"
  BY DEF WriteMessages, CanWrite
<1>3. /\ IsSeq(channel') /\ IsSeq(outgoing')
      /\ Len(channel') = Len(channel) + n /\ Len(outgoing') = Len(outgoing) - n
      /\ \A i \in 1..Len(channel) : channel'[i] = channel[i]
      /\ \A i \in 1..n : channel'[Len(channel) + i] = outgoing[i]
      /\ \A i \in 1..(Len(outgoing) - n) : outgoing'[i] = outgoing[n + i]
  BY <1>1, SeqMove DEF SurvivalInv
<1>4. Len(received) \in Nat /\ Len(channel) \in Nat /\ Len(outgoing) \in Nat
  BY SeqLens
<1>5. ASSUME NEW i \in 1..Len(channel') PROVE channel'[i].number = Len(received) + i
  <2>1. CASE i \in 1..Len(channel)
    BY <1>3, <2>1 DEF SurvivalInv, Numbered
  <2>2. CASE i \in (Len(channel) + 1)..(Len(channel) + n)
    <3>1. i - Len(channel) \in 1..n /\ i - Len(channel) \in 1..Len(outgoing)
          /\ i = Len(channel) + (i - Len(channel))
      BY <1>1, <1>4, <2>2
    <3>2. channel'[i] = outgoing[i - Len(channel)]
      BY <1>3, <3>1
    <3>3. QED
      BY <1>4, <3>1, <3>2 DEF SurvivalInv, Numbered
  <2>3. QED
    BY <1>1, <1>3, <1>4, <2>1, <2>2
<1>6. ASSUME NEW i \in 1..Len(outgoing')
      PROVE  outgoing'[i].number = Len(received) + Len(channel') + i
  <2>1. i \in 1..(Len(outgoing) - n) /\ n + i \in 1..Len(outgoing)
    BY <1>1, <1>3, <1>4
  <2>2. outgoing'[i] = outgoing[n + i]
    BY <1>3, <2>1
  <2>3. QED
    BY <1>1, <1>3, <1>4, <2>1, <2>2 DEF SurvivalInv, Numbered
<1>7. Numbered'
  <2>1. \A i \in 1..Len(received) : received[i] = i
    BY DEF SurvivalInv, Numbered
  <2>2. received' = received
    BY <1>2
  <2>3. \A i \in 1..Len(received') : received'[i] = i
    BY <2>1, <2>2
  <2>4. \A i \in 1..Len(channel') : channel'[i].number = Len(received') + i
    BY <1>5, <2>2
  <2>5. \A i \in 1..Len(outgoing') : outgoing'[i].number = Len(received') + Len(channel') + i
    BY <1>6, <2>2
  <2>6. QED
    BY <2>3, <2>4, <2>5 DEF Numbered
<1>8. Total' = Total
  <2>1. received' = received /\ n \in Nat
    BY <1>1, <1>2, <1>4
  <2>2. Len(channel') = Len(channel) + n /\ Len(outgoing') = Len(outgoing) - n
    BY <1>3
  <2>3. QED
    BY <1>4, <2>1, <2>2 DEF Total
<1>9. QED
  BY <1>2, <1>3, <1>7, <1>8 DEF SurvivalInv, Whole

\* The receiver takes the first message of the channel.
LEMMA ReceiveKeeps == ASSUME SurvivalInv, MessageReceive PROVE SurvivalInv'
<1>1. /\ UNCHANGED <<kind, at, sent, outgoing>>
      /\ channel # <<>>
      /\ received' = Append(received, Head(channel).number)
      /\ channel' = Tail(channel)
  BY DEF MessageReceive
<1>2. Len(received) \in Nat /\ Len(channel) \in Nat /\ Len(outgoing) \in Nat
  BY SeqLens
<1>3. /\ IsSeq(channel') /\ Len(channel') = Len(channel) - 1
      /\ Len(channel) > 0 /\ Head(channel) = channel[1]
      /\ \A i \in 1..(Len(channel) - 1) : channel'[i] = channel[i + 1]
  <2>1. PICK S : channel \in Seq(S)
    BY DEF SurvivalInv, IsSeq
  <2>2. channel' \in Seq(S)
    BY <1>1, <2>1
  <2>3. QED
    BY <1>1, <2>1, <2>2 DEF IsSeq
<1>4. Head(channel).number = Len(received) + 1
  BY <1>2, <1>3 DEF SurvivalInv, Numbered
<1>5. /\ received' \in Seq(Nat) /\ Len(received') = Len(received) + 1
      /\ \A i \in 1..Len(received) : received'[i] = received[i]
      /\ received'[Len(received) + 1] = Len(received) + 1
  <2>1. received \in Seq(Nat) /\ Len(received) + 1 \in Nat
    BY <1>2 DEF SurvivalInv
  <2>2. received' = Append(received, Len(received) + 1)
    BY <1>1, <1>4
  <2>3. QED
    BY <2>1, <2>2
<1>6. \A i \in 1..Len(received') : received'[i] = i
  <2>1. \A i \in 1..Len(received) : received[i] = i
    BY DEF SurvivalInv, Numbered
  <2>2. QED
    BY <1>2, <1>5, <2>1
<1>7. \A i \in 1..Len(channel') : channel'[i].number = Len(received') + i
  <2>1. \A i \in 1..Len(channel) : channel[i].number = Len(received) + i
    BY DEF SurvivalInv, Numbered
  <2>2. ASSUME NEW i \in 1..Len(channel') PROVE channel'[i].number = Len(received') + i
    <3>1. i \in 1..(Len(channel) - 1) /\ i + 1 \in 1..Len(channel)
      BY <1>2, <1>3
    <3>2. channel'[i] = channel[i + 1]
      BY <1>3, <3>1
    <3>3. channel[i + 1].number = Len(received) + (i + 1)
      BY <2>1, <3>1
    <3>4. Len(received') = Len(received) + 1 /\ i \in Nat
      BY <1>5, <3>1
    <3>5. QED
      BY <1>2, <3>2, <3>3, <3>4
  <2>3. QED
    BY <2>2
<1>8. \A i \in 1..Len(outgoing') : outgoing'[i].number = Len(received') + Len(channel') + i
  BY <1>1, <1>2, <1>3, <1>5 DEF SurvivalInv, Numbered
<1>9. Total' = Total
  BY <1>1, <1>2, <1>3, <1>5 DEF Total
<1>10. QED
  BY <1>1, <1>3, <1>5, <1>6, <1>7, <1>8, <1>9 DEF SurvivalInv, Numbered, Whole

LEMMA SurvivalStep == ASSUME LifeInv, SurvivalInv, [Next]_vars PROVE SurvivalInv'
<1>1. Sender \in Processes /\ at \in [Processes -> Stages]
  BY ClientAssumption DEF LifeInv
<1>2. ASSUME NEW p \in Processes, NEW s \in Stages, Reach(p, s)
      PROVE  /\ at' \in [Processes -> Stages]
             /\ at'[p] = s
             /\ \A q \in Processes \ {p} : at'[q] = at[q]
  BY <1>1, <1>2 DEF Reach
<1>3. ASSUME NEW p \in Processes, LifeNext(p, scenario.sizes), UNCHANGED client PROVE SurvivalInv'
  <2>1. PICK s \in Stages : Reach(p, s) /\ (s \in Early \/ s = "up" => at[p] \in Early)
    BY <1>3, Forward
  <2>2. kind' = kind
    BY <1>3 DEF LifeNext, CreateMapping, ShmBegin, ShmManagerFails, ShmManager, ReadMapFails,
                ReadMap, AttachFails, Attach, WriteMapFails, WriteMap, CreateAborts, CreateFails,
                CreateOverruns, Create, UdsBegin, UdsManagerFails, UdsManager, LateEvent, Fail, GiveUp
  <2>3. QED
    BY <1>1, <1>2, <1>3, <2>1, <2>2, StillWhole DEF client
<1>4. ASSUME NEW p \in Processes, TransportDestroy(p) PROVE SurvivalInv'
  <2>1. PICK s \in {"undefined", "aborted", "gone"} : Reach(p, s)
    BY <1>4, DestroyReaches DEF TransportDestroy
  <2>2. s \in Stages /\ s \notin Early /\ s # "up"
    BY DEF Stages, Early
  <2>3. UNCHANGED <<kind, sent, received, channel>>
    BY <1>4 DEF TransportDestroy
  <2>4. CASE outgoing' = outgoing
    BY <1>1, <1>2, <2>1, <2>2, <2>3, <2>4, StillWhole
  <2>5. CASE p = Sender /\ outgoing' = <<>>
    <3>1. at' \in [Processes -> Stages] /\ at'[Sender] = s
      BY <1>2, <2>1, <2>2, <2>5
    <3>2. CASE kind = "shm"
      <4>1. outgoing' = outgoing
        BY <2>5, <3>2 DEF SurvivalInv
      <4>2. QED
        BY <2>4, <4>1
    <3>3. CASE kind # "shm"
      <4>1. Len(outgoing') = 0 /\ IsSeq(outgoing')
        <5>1. <<>> \in Seq({}) /\ Len(<<>>) = 0
          OBVIOUS
        <5>2. QED
          BY <2>5, <5>1 DEF IsSeq
      <4>2. Numbered'
        BY <2>3, <4>1 DEF SurvivalInv, Numbered
      <4>3. Total' <= sent
        BY <2>3, <4>1, SeqLens DEF SurvivalInv, Whole, Total
      <4>4. Whole'
        BY <2>2, <2>3, <3>1, <3>3, <4>3 DEF Whole
      <4>5. QED
        BY <2>3, <3>1, <3>3, <4>1, <4>2, <4>4 DEF SurvivalInv
    <3>4. QED
      BY <3>2, <3>3
  <2>6. QED
    BY <1>4, <2>4, <2>5 DEF TransportDestroy
<1>5. ASSUME UNCHANGED <<kind, at, sent, received, channel, outgoing>> PROVE SurvivalInv'
  BY <1>1, <1>5, StillWhole
<1>6. ASSUME UNCHANGED <<kind, sent, received, channel, outgoing>>, NEW p \in Processes,
             NEW s \in {"undefined", "aborted", "killed"}, Reach(p, s)
      PROVE  SurvivalInv'
  <2>1. s \in Stages /\ s \notin Early /\ s # "up"
    BY DEF Stages, Early
  <2>2. QED
    BY <1>1, <1>2, <1>6, <2>1, StillWhole
<1>7. Receiver \in Processes
  BY <1>1, LifeAssumption DEF Receiver
<1>8. ASSUME WriterMisleads \/ WriteToClosed \/ ReadNothing PROVE SurvivalInv'
  BY <1>1, <1>6, <1>7, <1>8 DEF WriterMisleads, Mislead, WriteToClosed, ReadNothing, client
<1>9. ASSUME MessageCancel PROVE SurvivalInv'
  BY <1>1, <1>5, <1>6, <1>9 DEF MessageCancel, client
<1>10. ASSUME NEW p \in Processes, NoMemory(p) PROVE SurvivalInv'
  BY <1>6, <1>10 DEF NoMemory, client
<1>11. ASSUME \/ MessageInit \/ WriteDocument \/ WaitMessages
              \/ OpenDocument \/ ReadDocument \/ CloseDocument \/ MessageDestroy
       PROVE  UNCHANGED <<kind, at, sent, received, channel, outgoing>>
  BY <1>11 DEF MessageInit, WriteDocument, WaitMessages, OpenDocument, ReadDocument,
               CloseDocument, MessageDestroy, life, client
<1>12. CASE UNCHANGED vars
  BY <1>5, <1>12 DEF vars, life, client
<1>13. QED
  BY <1>3, <1>4, <1>5, <1>8, <1>9, <1>10, <1>11, <1>12, SendKeeps, WriteKeeps, ReceiveKeeps DEF Next

\* A sequence numbered on end goes on with the numbers that follow.
LEMMA SeqGoesOn ==
  ASSUME NEW s \in Seq(Nat), \A i \in 1..Len(s) : s[i] = i,
         NEW t \in Seq(Nat), \A i \in 1..Len(t) : t[i] = Len(s) + i
  PROVE  /\ s \o t \in Seq(Nat) /\ Len(s \o t) = Len(s) + Len(t)
         /\ \A i \in 1..Len(s \o t) : (s \o t)[i] = i
<1>1. s \o t \in Seq(Nat) /\ Len(s \o t) = Len(s) + Len(t) /\ Len(s) \in Nat /\ Len(t) \in Nat
  OBVIOUS
<1>2. ASSUME NEW i \in 1..Len(s \o t) PROVE (s \o t)[i] = i
  <2>1. CASE i \in 1..Len(s)
    BY <1>1, <2>1
  <2>2. CASE i - Len(s) \in 1..Len(t)
    <3>1. (s \o t)[i] = t[i - Len(s)]
      BY <1>1, <2>2
    <3>2. QED
      BY <1>1, <1>2, <2>2, <3>1
  <2>3. QED
    BY <1>1, <1>2, <2>1, <2>2
<1>3. QED
  BY <1>1, <1>2

\* What is numbered on end is a prefix of what was sent.
LEMMA NumberedIsPrefix == ASSUME SurvivalInv PROVE SentMessagesSurvive
<1> DEFINE all == received \o Numbers(channel) \o Numbers(outgoing)
           order == [i \in 1..sent |-> i]
<1>1. Len(received) \in Nat /\ Len(channel) \in Nat /\ Len(outgoing) \in Nat
  BY SeqLens
<1>2. \A s : IsSeq(s) => DOMAIN s = 1..Len(s)
  BY DEF IsSeq
<1>3. /\ Numbers(channel) = [i \in 1..Len(channel) |-> Len(received) + i]
      /\ Numbers(outgoing) = [i \in 1..Len(outgoing) |-> Len(received) + Len(channel) + i]
  BY <1>2 DEF SurvivalInv, Numbered, Numbers
<1>4. /\ Numbers(channel) \in Seq(Nat) /\ Len(Numbers(channel)) = Len(channel)
      /\ Numbers(outgoing) \in Seq(Nat) /\ Len(Numbers(outgoing)) = Len(outgoing)
  BY <1>1, <1>3
<1>5. /\ all \in Seq(Nat) /\ Len(all) = Total
      /\ \A i \in 1..Len(all) : all[i] = i
  <2> DEFINE front == received \o Numbers(channel)
  <2>1. /\ front \in Seq(Nat) /\ Len(front) = Len(received) + Len(channel)
        /\ \A i \in 1..Len(front) : front[i] = i
    <3>1. received \in Seq(Nat) /\ \A i \in 1..Len(received) : received[i] = i
      BY DEF SurvivalInv, Numbered
    <3>2. QED
      BY <1>1, <1>3, <1>4, <3>1, SeqGoesOn
  <2> HIDE DEF front
  <2>2. \A i \in 1..Len(Numbers(outgoing)) : Numbers(outgoing)[i] = Len(front) + i
    BY <1>1, <1>3, <1>4, <2>1
  <2>3. /\ front \o Numbers(outgoing) \in Seq(Nat)
        /\ Len(front \o Numbers(outgoing)) = Len(front) + Len(outgoing)
        /\ \A i \in 1..Len(front \o Numbers(outgoing)) : (front \o Numbers(outgoing))[i] = i
    BY <1>4, <2>1, <2>2, SeqGoesOn
  <2>4. QED
    BY <1>1, <2>1, <2>3 DEF front, Total
<1>6. order \in Seq(Nat) /\ Len(order) = sent /\ sent \in Nat /\ Len(all) <= sent
  BY <1>5 DEF SurvivalInv, Whole
<1> HIDE DEF all
<1>7. SubSeq(all, 1, Len(all)) = SubSeq(order, 1, Len(all))
  BY <1>5, <1>6
<1>8. Len(all) = sent => all = order
  BY <1>5, <1>6
<1>9. QED
  BY <1>5, <1>6, <1>7, <1>8 DEF all, SentMessagesSurvive, IsPrefix, SurvivalInv, Whole

\* However many messages are written, of both transports, and however the lives
\* of the two processes end: the messages received, in the channel and in the
\* queue are the first of those sent, in their order, and all of them as long
\* as no socket's process has given up its queue.
THEOREM Survival == Spec => []SentMessagesSurvive
<1>1. Init => SurvivalInv
  <2>1. SUFFICES ASSUME Init PROVE SurvivalInv
    OBVIOUS
  <2>2. /\ at = [p \in Processes |-> "none"] /\ "none" \in Stages
        /\ outgoing = <<>> /\ channel = <<>> /\ received = <<>> /\ sent = 0
    BY <2>1 DEF Init, LifeInit, Stages
  <2>3. <<>> \in Seq({}) /\ <<>> \in Seq(Nat) /\ Len(<<>>) = 0
    OBVIOUS
  <2>4. IsSeq(channel) /\ IsSeq(outgoing)
    BY <2>2, <2>3 DEF IsSeq
  <2>5. Numbered /\ Whole
    BY <2>2, <2>3 DEF Numbered, Whole, Total
  <2>6. QED
    BY <2>2, <2>3, <2>4, <2>5 DEF SurvivalInv
<1>2. Init => LifeInv
  BY LifeInvInit
<1>3. LifeInv /\ SurvivalInv /\ [Next]_vars => (LifeInv /\ SurvivalInv)'
  BY LifeInvStep, SurvivalStep
<1>4. SurvivalInv => SentMessagesSurvive
  BY NumberedIsPrefix
<1>5. QED
  BY <1>1, <1>2, <1>3, <1>4, PTL DEF Spec

-----------------------------------------------------------------------------
(* Releases *)

Coming == {"none", "mapping", "begun", "managed", "readMapped", "attached", "writeMapped", "up"}

\* What a transport has at each stage of its init: when it is up, destroy gives
\* back all of it.
Has(s) ==
  IF kind = "shm"
  THEN (IF s # "none" THEN {"readFd", "writeFd"} ELSE {})
         \cup (IF s \notin {"none", "mapping"} THEN {"transport"} ELSE {})
         \cup (IF s \notin {"none", "mapping", "begun"} THEN {"manager"} ELSE {})
         \cup (IF s \in {"attached", "writeMapped", "up"} THEN {"readAllocator"} ELSE {})
         \cup (IF s = "up" THEN {"writeAllocator"} ELSE {})
  ELSE (IF s # "none" THEN {"socket", "transport"} ELSE {})
         \cup (IF s = "up" THEN {"manager"} ELSE {})

HoldTypes ==
  /\ bufferSize \in [Processes -> BufferSizes \cup {0}]
  /\ owned \in [Processes -> SUBSET Resources]
  /\ pages \in [Processes -> [{"read", "write"} -> Nat]]
  /\ totalSize \in [Processes -> Int]
  /\ ring \in [Processes -> SUBSET {"read", "write"}]
  /\ failuresLeft \in Nat

\* The header of the allocator is written once the mapping has its size.
Sized(p) ==
  \/ totalSize[p] = 0
  \/ /\ at[p] # "none" /\ bufferSize[p] \in BufferSizes
     /\ totalSize[p] = Memory(p) - AllocatorHeader

\* The sizes and the pages that the stage of p stands for.
Mapped(p) ==
  LET s == at[p]
      q == PeerOf[p]
  IN /\ s \in {"none", "mapping", "begun", "managed", "readMapped"} => fields[p]["read"] # "set"
     /\ s \in Coming \ {"up"} => fields[p]["write"] # "set"
     /\ s \in Coming \ {"none"} => bufferSize[p] \in BufferSizes
     /\ s \in (Coming \ {"none", "mapping"}) \cup {"gone"} => bufferSize[q] \in BufferSizes
     /\ s \in Coming \ {"none", "writeMapped", "up"} => pages[p]["write"] = Pages(ArenaHeader)
     /\ s \in {"writeMapped", "up"}
          => pages[p]["write"] = Pages(ArenaHeader) + Pages(bufferSize[p])
     /\ s = "none" => pages[p]["write"] = 0
     /\ s \in {"none", "mapping", "begun", "managed"} => pages[p]["read"] = 0
     /\ s \in {"readMapped", "attached", "writeMapped", "up"}
          => pages[p]["read"] = Pages(bufferSize[q])
     /\ s = "up" => totalSize[p] = Memory(p) - AllocatorHeader
     /\ s = "gone" => /\ pages[p]["write"] = Pages(ArenaHeader) + LastPage(p)
                      /\ pages[p]["read"] \in {LastPage(q), Left(q, 0)}

\* What an init that failed has left.  There was nothing to map for reading
\* unless the other mapping had been created.
Failed(p) ==
  LET q == PeerOf[p] IN
  /\ kind = "uds" => owned[p] = {"socket"}
  /\ kind = "shm" /\ bufferSize[p] = 0 =>
       owned[p] \subseteq {"writeFd"} /\ pages[p]["write"] = 0 /\ pages[p]["read"] = 0
  /\ kind = "shm" /\ bufferSize[p] # 0 =>
       /\ bufferSize[q] \in BufferSizes
       /\ "writeFd" \in owned[p] /\ owned[p] \subseteq {"readFd", "writeFd", "manager", "probe"}
       /\ pages[p]["write"] \in {Pages(ArenaHeader), Pages(ArenaHeader) + Pages(bufferSize[p])}
       /\ IF "readFd" \in owned[p]
          THEN pages[p]["read"] \in {0, Pages(bufferSize[q])}
          ELSE pages[p]["read"] \in {LastPage(q), Left(q, 0)}
       /\ owned[p] \cap {"manager", "probe"} # {} =>
            /\ "readFd" \in owned[p]
            /\ pages[p]["read"] = 0 /\ pages[p]["write"] = Pages(ArenaHeader)

Holds(p) ==
  /\ at[p] \in Coming => owned[p] = Has(at[p])
  /\ at[p] = "gone" => owned[p] = {}
  /\ at[p] = "null" => Failed(p)
  /\ at[p] = "begun" => fields[p]["manager"] # "set"
  /\ at[p] = "none" => bufferSize[p] = 0
  /\ Sized(p)
  /\ kind = "uds" => fields[p]["read"] # "set" /\ fields[p]["write"] # "set"
  /\ kind = "shm" => Mapped(p)

HoldInv == LifeInv /\ HoldTypes /\ \A p \in Processes : Holds(p)

\* A mapping of more bytes has no fewer pages.
LEMMA MorePages ==
  ASSUME NEW a \in Nat, NEW b \in Nat, a <= b
  PROVE  Pages(a) \in Nat /\ Pages(b) \in Nat /\ Pages(a) <= Pages(b)
<1>1. ASSUME NEW k \in Nat \ {0}, NEW x \in Nat, NEW y \in Nat, x <= y
      PROVE  x \div k \in Nat /\ y \div k \in Nat /\ x \div k <= y \div k
  BY <1>1
<1>2. PageSize \in Nat \ {0}
  BY LifeAssumption
<1>3. /\ a + PageSize - 1 \in Nat /\ b + PageSize - 1 \in Nat
      /\ a + PageSize - 1 <= b + PageSize - 1
  BY <1>2
<1>4. QED
  BY <1>1, <1>2, <1>3 DEF Pages

LEMMA Partner ==
  ASSUME NEW p \in Processes
  PROVE  PeerOf[p] \in Processes /\ PeerOf[p] # p /\ PeerOf[PeerOf[p]] = p
BY LifeAssumption

\* A mapping of no more than a page has one.
LEMMA OnePage ==
  ASSUME NEW n \in Nat \ {0}, n <= PageSize
  PROVE  Pages(n) = 1
<1>1. ASSUME NEW k \in Nat \ {0}, NEW x \in Nat, k <= x, x < k + k
      PROVE  x \div k = 1
  BY <1>1
<1>2. PageSize \in Nat \ {0}
  BY LifeAssumption
<1>3. /\ n + PageSize - 1 \in Nat /\ PageSize <= n + PageSize - 1
      /\ n + PageSize - 1 < PageSize + PageSize
  BY <1>2
<1>4. QED
  BY <1>1, <1>2, <1>3 DEF Pages

LEMMA Sizes ==
  /\ BufferSizes \subseteq Nat \ {0}
  /\ ArenaHeader \in Nat \ {0} /\ AllocatorHeader \in Nat \ {0} /\ PageSize \in Nat \ {0}
  /\ ArenaHeader <= PageSize
  /\ Pages(ArenaHeader) = 1
  /\ \A n \in BufferSizes : Pages(n) \in Nat /\ Pages(n) >= 1
<1>1. /\ BufferSizes \subseteq Nat \ {0}
      /\ ArenaHeader \in Nat \ {0} /\ AllocatorHeader \in Nat \ {0} /\ PageSize \in Nat \ {0}
      /\ ArenaHeader <= PageSize
  BY LifeAssumption
<1>2. Pages(ArenaHeader) = 1 /\ Pages(1) = 1
  BY <1>1, OnePage
<1>3. ASSUME NEW n \in BufferSizes PROVE Pages(n) \in Nat /\ Pages(n) >= 1
  BY <1>1, <1>2, MorePages
<1>4. QED
  BY <1>1, <1>2, <1>3

\* What destroy unmaps is within what was mapped, whatever the size in the
\* header is.
LEMMA UnmapsLess ==
  ASSUME NEW p \in Processes, HoldTypes, Sized(p), bufferSize[p] \in BufferSizes
  PROVE  /\ MappedPages(totalSize[p]) \in Nat /\ Pages(bufferSize[p]) \in Nat
         /\ MappedPages(totalSize[p]) <= Pages(bufferSize[p])
<1>1. bufferSize[p] \in Nat \ {0} /\ totalSize[p] \in Int
  BY Sizes DEF HoldTypes
<1>2. Pages(bufferSize[p]) \in Nat /\ Pages(bufferSize[p]) >= 1
  BY Sizes
<1>3. CASE totalSize[p] = 0
  BY <1>2, <1>3, Sizes DEF MappedPages
<1>4. CASE totalSize[p] = Memory(p) - AllocatorHeader
  <2>1. totalSize[p] + ArenaHeader \in Int /\ totalSize[p] + ArenaHeader <= bufferSize[p]
    BY <1>1, <1>4, Sizes DEF Memory
  <2>2. CASE totalSize[p] + ArenaHeader > 0
    BY <1>1, <2>1, <2>2, MorePages DEF MappedPages
  <2>3. CASE ~(totalSize[p] + ArenaHeader > 0)
    BY <1>2, <2>3 DEF MappedPages
  <2>4. QED
    BY <2>2, <2>3
<1>5. QED
  BY <1>3, <1>4 DEF Sized

\* A process that does nothing keeps what it has; the mapping it reads may be
\* created, and then its size stays.
LEMMA OtherHolds ==
  ASSUME HoldInv, HoldTypes', kind' = kind, NEW q \in Processes,
         at'[q] = at[q], owned'[q] = owned[q], fields'[q] = fields[q], pages'[q] = pages[q],
         bufferSize'[q] = bufferSize[q], totalSize'[q] = totalSize[q],
         bufferSize[PeerOf[q]] \in BufferSizes => bufferSize'[PeerOf[q]] = bufferSize[PeerOf[q]]
  PROVE  Holds(q)'
<1>1. Holds(q)
  BY DEF HoldInv
<1>2. Memory(q)' = Memory(q) /\ Sized(q)' = Sized(q) /\ LastPage(q)' = LastPage(q)
  BY DEF Memory, Sized, LastPage, Left
<1>3. kind = "shm" => Mapped(q)'
  <2>1. SUFFICES ASSUME kind = "shm" PROVE Mapped(q)'
    OBVIOUS
  <2>2. CASE bufferSize[PeerOf[q]] \in BufferSizes
    <3>1. /\ LastPage(PeerOf[q])' = LastPage(PeerOf[q])
          /\ Left(PeerOf[q], 0)' = Left(PeerOf[q], 0)
      BY <2>2 DEF LastPage, Left, Memory
    <3>2. QED
      BY <1>1, <1>2, <2>1, <2>2, <3>1 DEF Holds, Mapped
  <2>3. CASE bufferSize[PeerOf[q]] \notin BufferSizes
    <3>1. at[q] \notin (Coming \ {"none", "mapping"}) \cup {"gone"}
      BY <1>1, <2>1, <2>3 DEF Holds, Mapped
    <3>2. QED
      BY <1>1, <1>2, <2>1, <3>1 DEF Holds, Mapped, Coming
  <2>4. QED
    BY <2>2, <2>3
<1>4. at[q] = "null" => Failed(q)'
  <2>1. SUFFICES ASSUME at[q] = "null" PROVE Failed(q)'
    OBVIOUS
  <2>2. CASE kind = "shm" /\ bufferSize[q] # 0
    <3>1. bufferSize[PeerOf[q]] \in BufferSizes
      BY <1>1, <2>1, <2>2 DEF Holds, Failed
    <3>2. /\ LastPage(PeerOf[q])' = LastPage(PeerOf[q])
          /\ Left(PeerOf[q], 0)' = Left(PeerOf[q], 0)
      BY <3>1 DEF LastPage, Left, Memory
    <3>3. QED
      BY <1>1, <2>1, <2>2, <3>1, <3>2 DEF Holds, Failed
  <2>3. CASE ~(kind = "shm" /\ bufferSize[q] # 0)
    BY <1>1, <2>1, <2>3 DEF Holds, Failed
  <2>4. QED
    BY <2>2, <2>3
<1>5. QED
  BY <1>1, <1>2, <1>3, <1>4 DEF Holds, Has

\* A step of one process.
LEMMA HoldStep ==
  ASSUME HoldInv, LifeInv', HoldTypes', kind' = kind, NEW p \in Processes, Holds(p)',
         \A q \in Processes \ {p} :
           /\ at'[q] = at[q] /\ owned'[q] = owned[q] /\ fields'[q] = fields[q]
           /\ pages'[q] = pages[q] /\ bufferSize'[q] = bufferSize[q]
           /\ totalSize'[q] = totalSize[q],
         bufferSize[p] \in BufferSizes => bufferSize'[p] = bufferSize[p]
  PROVE  HoldInv'
<1>1. ASSUME NEW q \in Processes, q # p PROVE Holds(q)'
  <2>1. bufferSize[PeerOf[q]] \in BufferSizes => bufferSize'[PeerOf[q]] = bufferSize[PeerOf[q]]
    BY <1>1, Partner
  <2>2. QED
    BY <1>1, <2>1, OtherHolds
<1>2. QED
  BY <1>1 DEF HoldInv

\* An init that cannot go on destroys what there is so far: it unmaps no more
\* than it mapped.
LEMMA GiveUpHolds ==
  ASSUME HoldInv, LifeInv', NEW p \in Processes,
         NEW leaves \in SUBSET {"manager", "probe"}, at[p] # "begun" => leaves = {},
         kind = "uds" => at[p] = "begun",
         GiveUp(p, leaves), at[p] \in Coming \ {"none", "mapping", "up"}, failuresLeft' \in Nat
  PROVE  HoldInv'
<1> DEFINE q == PeerOf[p]
           f == fields[p]
           rest == [pages EXCEPT ![p]["read"] = @ - Unmapped(p, "read", q),
                                 ![p]["write"] = @ - Unmapped(p, "write", p)]
<1>1. HoldTypes /\ Holds(p) /\ Holds(q) /\ q \in Processes /\ LifeInv
  BY Partner DEF HoldInv
<1>2. UNCHANGED <<kind, bufferSize, fields, totalSize, ring>>
  BY DEF GiveUp
<1>3. \E s \in {"undefined", "aborted", "null"} : Reach(p, s)
  BY DEF GiveUp, Destroy
<1>4. /\ at'[p] \in {"undefined", "aborted", "null"}
      /\ \A r \in Processes \ {p} : at'[r] = at[r]
  BY <1>1, <1>3 DEF LifeInv, Reach
<1>5. \/ UNCHANGED <<owned, pages>> /\ at'[p] # "null"
      \/ /\ owned' = [owned EXCEPT ![p] = (owned[p] \cup leaves) \ Given(p)]
         /\ pages' = rest
         /\ fields[p]["manager"] # "wild" /\ (kind = "uds" => fields[p]["manager"] # "null")
  <2>1. CASE UNCHANGED <<owned, pages>>
    BY <1>1, <2>1 DEF GiveUp, Destroy, LifeInv, Reach
  <2>2. CASE ~UNCHANGED <<owned, pages>>
    BY <1>1, <2>2 DEF GiveUp, Destroy, LifeInv
  <2>3. QED
    BY <2>1, <2>2
<1>6. at[p] \in {"begun", "managed", "readMapped", "attached", "writeMapped"}
      /\ owned[p] = Has(at[p])
  BY <1>1 DEF Holds, Coming
<1>7. f \in FieldValues
  BY <1>1 DEF LifeInv
<1>8. f["write"] # "set" /\ (f["read"] = "set" <=> kind = "shm" /\ at[p] \in {"attached", "writeMapped"})
  BY <1>1, <1>6 DEF Holds, Mapped, Coming, LifeInv, SetBy
<1>9. Unmapped(p, "write", p) = 0
  BY <1>8 DEF Unmapped
<1>10. pages \in [Processes -> [{"read", "write"} -> Nat]]
  BY <1>1 DEF HoldTypes
<1>11. Unmapped(p, "read", q) \in Nat /\ Unmapped(p, "read", q) <= pages[p]["read"]
  <2>1. CASE f["read"] = "set"
    <3>1. bufferSize[q] \in BufferSizes /\ pages[p]["read"] = Pages(bufferSize[q])
      BY <1>1, <1>8, <2>1 DEF Holds, Mapped, Coming
    <3>2. QED
      BY <1>1, <2>1, <3>1, UnmapsLess DEF Holds, Unmapped
  <2>2. CASE f["read"] # "set"
    BY <1>10, <2>2 DEF Unmapped
  <2>3. QED
    BY <2>1, <2>2
<1>12. /\ rest \in [Processes -> [{"read", "write"} -> Nat]]
       /\ \A r \in Processes \ {p} : rest[r] = pages[r]
       /\ rest[p]["read"] = pages[p]["read"] - Unmapped(p, "read", q)
       /\ rest[p]["write"] = pages[p]["write"]
  <2> HIDE DEF f, q
  <2>1. /\ pages[p]["read"] - Unmapped(p, "read", q) \in Nat
        /\ pages[p]["write"] - Unmapped(p, "write", p) = pages[p]["write"]
    BY <1>9, <1>10, <1>11
  <2>2. QED
    BY <1>10, <2>1
<1> HIDE DEF rest
<1>13. /\ HoldTypes'
       /\ \A r \in Processes \ {p} : owned'[r] = owned[r] /\ pages'[r] = pages[r]
  <2>1. (owned[p] \cup leaves) \ Given(p) \in SUBSET Resources
    BY <1>1 DEF HoldTypes, Resources
  <2>2. QED
    BY <1>1, <1>2, <1>5, <1>12, <2>1 DEF HoldTypes
<1>14. at'[p] = "null" => Failed(p)'
  <2>1. SUFFICES ASSUME at'[p] = "null" PROVE Failed(p)'
    OBVIOUS
  <2>2. /\ owned'[p] = (Has(at[p]) \cup leaves) \ Given(p)
        /\ pages'[p]["read"] = pages[p]["read"] - Unmapped(p, "read", q)
        /\ pages'[p]["write"] = pages[p]["write"]
        /\ f["manager"] # "wild" /\ (kind = "uds" => f["manager"] # "null")
    BY <1>1, <1>5, <1>6, <1>12, <2>1 DEF HoldTypes
  <2>3. kind = "shm"
    BY <1>1, <1>6, <1>7, <2>2 DEF Holds, LifeInv, FieldValues, Unset
  <2>4. /\ bufferSize[p] \in BufferSizes /\ bufferSize[q] \in BufferSizes /\ bufferSize[p] # 0
        /\ at[p] # "writeMapped" => pages[p]["write"] = Pages(ArenaHeader)
        /\ at[p] = "writeMapped" => pages[p]["write"] = Pages(ArenaHeader) + Pages(bufferSize[p])
        /\ at[p] \in {"begun", "managed"} => pages[p]["read"] = 0
        /\ at[p] \notin {"begun", "managed"} => pages[p]["read"] = Pages(bufferSize[q])
    BY <1>1, <1>6, <2>3, Sizes DEF Holds, Mapped, Coming
  <2>5. /\ LastPage(q)' = LastPage(q) /\ Left(q, 0)' = Left(q, 0)
        /\ pages'[p]["write"] \in {Pages(ArenaHeader), Pages(ArenaHeader) + Pages(bufferSize[p])}
    BY <1>2, <2>2, <2>4 DEF LastPage, Left, Memory
  <2>6. CASE at[p] \in {"attached", "writeMapped"}
    <3>1. owned'[p] = {"writeFd"}
      <4>1. f["read"] = "set" /\ f["manager"] = "set"
        BY <1>1, <1>8, <2>3, <2>6 DEF LifeInv, SetBy
      <4>2. leaves = {}
        BY <2>6
      <4>3. QED
        BY <1>8, <2>2, <2>3, <2>6, <4>1, <4>2 DEF Has, Given
    <3>2. pages'[p]["read"] \in {LastPage(q), Left(q, 0)}
      BY <1>1, <1>8, <2>2, <2>3, <2>4, <2>6 DEF Holds, Sized, Unmapped, LastPage, Left
    <3>3. QED
      BY <1>2, <2>3, <2>4, <2>5, <3>1, <3>2 DEF Failed
  <2>7. CASE at[p] \in {"managed", "readMapped"}
    <3>1. owned'[p] = {"writeFd", "readFd"}
      <4>1. f["read"] # "set" /\ f["manager"] = "set"
        BY <1>1, <1>8, <2>3, <2>7 DEF LifeInv, SetBy
      <4>2. leaves = {}
        BY <2>7
      <4>3. QED
        BY <1>8, <2>2, <2>3, <2>7, <4>1, <4>2 DEF Has, Given
    <3>2. pages'[p]["read"] \in {0, Pages(bufferSize[q])}
      BY <1>8, <1>10, <2>2, <2>4, <2>7 DEF Unmapped
    <3>3. QED
      BY <1>2, <2>3, <2>4, <2>5, <3>1, <3>2 DEF Failed
  <2>8. CASE at[p] = "begun"
    <3>1. owned'[p] = {"writeFd", "readFd"} \cup leaves
      BY <1>1, <1>8, <2>2, <2>3, <2>8 DEF Has, Given, Holds
    <3>2. pages'[p]["read"] = 0 /\ pages'[p]["write"] = Pages(ArenaHeader)
      BY <1>8, <1>10, <2>2, <2>4, <2>8 DEF Unmapped
    <3>3. QED
      BY <1>2, <2>3, <2>4, <2>5, <3>1, <3>2 DEF Failed
  <2>9. QED
    BY <1>6, <2>6, <2>7, <2>8
<1> HIDE DEF f, q
<1>15. Holds(p)'
  <2>1. Sized(p)'
    BY <1>1, <1>2, <1>4 DEF Holds, Sized, Memory
  <2>2. at'[p] \notin Coming \cup {"gone"}
    BY <1>4 DEF Coming
  <2>3. Mapped(p)'
    BY <2>2 DEF Mapped, Coming
  <2>4. QED
    BY <1>1, <1>2, <1>14, <2>1, <2>2, <2>3 DEF Holds, Coming
<1>16. QED
  BY <1>2, <1>4, <1>13, <1>15, HoldStep

\* A transport that came up gives back what init took, but for some pages.
LEMMA DestroyHolds ==
  ASSUME HoldInv, LifeInv', NEW p \in Processes, TransportDestroy(p)
  PROVE  HoldInv'
<1> DEFINE q == PeerOf[p]
           f == fields[p]
<1>1. HoldTypes /\ Holds(p) /\ Holds(q) /\ q \in Processes /\ q # p /\ LifeInv
  BY Partner DEF HoldInv
<1>2. UNCHANGED <<kind, bufferSize, fields, totalSize, ring, failuresLeft>> /\ at[p] = "up"
  BY DEF TransportDestroy
<1>3. f["manager"] = "set" /\ (kind = "shm" => f["read"] = "set" /\ f["write"] = "set")
  BY <1>1, <1>2 DEF LifeInv, SetBy
<1>4. f \in FieldValues
  BY <1>1 DEF LifeInv
<1> DEFINE rest == [pages EXCEPT ![p]["read"] = @ - Unmapped(p, "read", q),
                                 ![p]["write"] = @ - Unmapped(p, "write", p)]
<1>5. /\ Reach(p, "gone")
      /\ owned' = [owned EXCEPT ![p] = owned[p] \ Given(p)] /\ Has("up") \subseteq Given(p)
      /\ pages' = rest
  <2>1. kind \in {"shm", "uds"}
    BY <1>1 DEF LifeInv
  <2>2. Destroy(p, owned[p], "gone")
    BY DEF TransportDestroy
  <2>3. CASE kind = "shm"
    BY <1>3, <2>2, <2>3 DEF Destroy, Has, Given
  <2>4. CASE kind = "uds"
    BY <1>3, <2>2, <2>4 DEF Destroy, Has, Given
  <2>5. QED
    BY <2>1, <2>3, <2>4
<1>6. /\ at'[p] = "gone" /\ owned'[p] = {}
      /\ \A r \in Processes \ {p} :
           at'[r] = at[r] /\ owned'[r] = owned[r]
  BY <1>1, <1>2, <1>5 DEF LifeInv, Reach, HoldTypes, Holds, Coming
<1>7. pages \in [Processes -> [{"read", "write"} -> Nat]]
  BY <1>1 DEF HoldTypes
<1>8. /\ Unmapped(p, "read", q) \in Nat /\ Unmapped(p, "read", q) <= pages[p]["read"]
      /\ Unmapped(p, "write", p) \in Nat /\ Unmapped(p, "write", p) <= pages[p]["write"]
  <2>1. CASE kind = "shm"
    <3>1. /\ bufferSize[q] \in BufferSizes /\ pages[p]["read"] = Pages(bufferSize[q])
          /\ bufferSize[p] \in BufferSizes
          /\ pages[p]["write"] = Pages(ArenaHeader) + Pages(bufferSize[p])
      BY <1>1, <1>2, <2>1 DEF Holds, Mapped, Coming
    <3>2. Pages(ArenaHeader) \in Nat
      BY Sizes
    <3>3. /\ MappedPages(totalSize[q]) \in Nat
          /\ MappedPages(totalSize[q]) <= Pages(bufferSize[q])
          /\ MappedPages(totalSize[p]) \in Nat /\ Pages(bufferSize[p]) \in Nat
          /\ MappedPages(totalSize[p]) <= Pages(bufferSize[p])
      BY <1>1, <3>1, UnmapsLess DEF Holds
    <3>4. QED
      BY <1>3, <2>1, <3>1, <3>2, <3>3 DEF Unmapped
  <2>2. CASE kind # "shm"
    BY <1>1, <1>7, <2>2 DEF Holds, LifeInv, Unmapped
  <2>3. QED
    BY <2>1, <2>2
<1>9. /\ rest \in [Processes -> [{"read", "write"} -> Nat]]
      /\ rest[p]["read"] = pages[p]["read"] - Unmapped(p, "read", q)
      /\ rest[p]["write"] = pages[p]["write"] - Unmapped(p, "write", p)
      /\ \A r \in Processes \ {p} : rest[r] = pages[r]
  <2>1. /\ pages[p]["read"] - Unmapped(p, "read", q) \in Nat
        /\ pages[p]["write"] - Unmapped(p, "write", p) \in Nat
    BY <1>7, <1>8
  <2>2. QED
    BY <1>7, <2>1
<1> HIDE DEF rest
<1>10. HoldTypes' /\ pages'[p] = rest[p] /\ \A r \in Processes \ {p} : pages'[r] = pages[r]
  BY <1>1, <1>2, <1>5, <1>9 DEF HoldTypes
<1>11. kind = "shm" => Mapped(p)'
  <2>1. SUFFICES ASSUME kind = "shm" PROVE Mapped(p)'
    OBVIOUS
  <2>2. /\ LastPage(p)' = LastPage(p) /\ LastPage(q)' = LastPage(q)
        /\ Left(q, 0)' = Left(q, 0)
    BY <1>2 DEF LastPage, Left, Memory
  <2>3. /\ bufferSize[q] \in BufferSizes /\ pages[p]["read"] = Pages(bufferSize[q])
        /\ bufferSize[p] \in BufferSizes
        /\ pages[p]["write"] = Pages(ArenaHeader) + Pages(bufferSize[p])
        /\ totalSize[p] = Memory(p) - AllocatorHeader
        /\ totalSize[q] = 0 \/ totalSize[q] = Memory(q) - AllocatorHeader
    BY <1>1, <1>2, <2>1 DEF Holds, Mapped, Coming, Sized
  <2>4. Unmapped(p, "read", q) = MappedPages(totalSize[q])
        /\ Unmapped(p, "write", p) = MappedPages(totalSize[p])
    BY <1>3, <2>1 DEF Unmapped
  <2>5. rest[p]["read"] \in {LastPage(q), Left(q, 0)}
    BY <1>9, <2>3, <2>4 DEF LastPage, Left
  <2>6. rest[p]["write"] = Pages(ArenaHeader) + LastPage(p)
    <3>1. /\ Pages(ArenaHeader) \in Nat /\ Pages(bufferSize[p]) \in Nat
          /\ MappedPages(totalSize[p]) \in Nat
      BY <1>1, <2>3, UnmapsLess, Sizes DEF Holds
    <3>2. LastPage(p) = Pages(bufferSize[p]) - MappedPages(totalSize[p])
      BY <2>3 DEF LastPage, Left
    <3>3. QED
      BY <1>9, <2>3, <2>4, <3>1, <3>2
  <2>7. QED
    BY <1>2, <1>6, <1>10, <2>2, <2>3, <2>5, <2>6 DEF Mapped, Coming
<1>12. Holds(p)'
  <2>1. Sized(p)'
    BY <1>1, <1>2, <1>6 DEF Holds, Sized, Memory
  <2>2. QED
    BY <1>1, <1>2, <1>6, <1>11, <2>1 DEF Holds, Coming
<1>13. QED
  BY <1>2, <1>6, <1>10, <1>12, HoldStep

LEMMA HoldInvInit == Init => HoldInv
<1>1. SUFFICES ASSUME Init PROVE HoldInv
  OBVIOUS
<1>2. /\ at = [p \in Processes |-> "none"] /\ bufferSize = [p \in Processes |-> 0]
      /\ owned = [p \in Processes |-> {}] /\ totalSize = [p \in Processes |-> 0]
      /\ ring = [p \in Processes |-> {}]
      /\ pages = [p \in Processes |-> [m \in {"read", "write"} |-> 0]]
      /\ \A p \in Processes : fields[p]["read"] = "null" /\ fields[p]["write"] = "null"
  BY <1>1 DEF Init, LifeInit
<1>3. failuresLeft \in Nat
  BY <1>1, ClientAssumption DEF Init
<1>4. HoldTypes
  BY <1>2, <1>3 DEF HoldTypes
<1>5. ASSUME NEW p \in Processes PROVE Holds(p)
  BY <1>2 DEF Holds, Sized, Mapped, Coming, Has
<1>6. QED
  BY <1>1, <1>4, <1>5, LifeInvInit DEF HoldInv

\* The steps of an init that succeed, and the first one.
LEMMA CreateMappingHolds ==
  ASSUME HoldInv, LifeInv', NEW p \in Processes, NEW sizes \in SUBSET BufferSizes,
         CreateMapping(p, sizes)
  PROVE  HoldInv'
<1>1. HoldTypes /\ Holds(p) /\ LifeInv
  BY DEF HoldInv
<1>2. kind = "shm" /\ at[p] = "none" /\ UNCHANGED <<kind, fields, totalSize, ring>>
  BY DEF CreateMapping
<1>3. bufferSize[p] = 0 /\ 0 \notin BufferSizes
  BY <1>1, <1>2, LifeAssumption DEF Holds
<1>4. /\ owned[p] = {} /\ totalSize[p] = 0 /\ fields[p]["read"] # "set" /\ fields[p]["write"] # "set"
      /\ pages[p]["write"] = 0 /\ pages[p]["read"] = 0
  BY <1>1, <1>2 DEF Holds, Mapped, Sized, Coming, Has
<1>5. Pages(ArenaHeader) \in Nat
  BY Sizes
<1>6. PICK left \in SUBSET {"writeFd", "readFd"} :
        /\ owned' = [owned EXCEPT ![p] = owned[p] \cup left]
        /\ Reach(p, "mapping") => left = {"writeFd", "readFd"}
        /\ Reach(p, "null") => left \subseteq {"writeFd"}
  <2>1. ~(Reach(p, "mapping") /\ Reach(p, "null"))
    BY <1>1 DEF Reach, LifeInv
  <2>2. QED
    BY <2>1 DEF CreateMapping, Own
<1>7. /\ owned' \in [Processes -> SUBSET Resources] /\ owned'[p] = left
      /\ \A r \in Processes \ {p} : owned'[r] = owned[r]
  BY <1>1, <1>4, <1>6 DEF Resources, HoldTypes
<1>8. CASE Reach(p, "mapping") /\ UNCHANGED failuresLeft
           /\ (\E size \in sizes : bufferSize' = [bufferSize EXCEPT ![p] = size])
           /\ pages' = [pages EXCEPT ![p]["write"] = Pages(ArenaHeader)]
  <2>1. at'[p] = "mapping" /\ \A r \in Processes \ {p} : at'[r] = at[r]
    BY <1>1, <1>8 DEF LifeInv, Reach
  <2>2. /\ bufferSize' \in [Processes -> BufferSizes \cup {0}] /\ bufferSize'[p] \in BufferSizes
        /\ \A r \in Processes \ {p} : bufferSize'[r] = bufferSize[r]
    BY <1>1, <1>8 DEF HoldTypes
  <2>3. /\ pages' \in [Processes -> [{"read", "write"} -> Nat]]
        /\ pages'[p]["write"] = Pages(ArenaHeader) /\ pages'[p]["read"] = pages[p]["read"]
        /\ \A r \in Processes \ {p} : pages'[r] = pages[r]
    BY <1>1, <1>5, <1>8 DEF HoldTypes
  <2>4. HoldTypes'
    BY <1>1, <1>2, <1>7, <1>8, <2>2, <2>3 DEF HoldTypes
  <2>5. Holds(p)'
    <3>1. Mapped(p)'
      BY <1>2, <1>4, <2>1, <2>2, <2>3 DEF Mapped, Coming
    <3>2. owned'[p] = Has("mapping")
      BY <1>2, <1>6, <1>7, <1>8 DEF Has
    <3>3. QED
      BY <1>2, <1>4, <2>1, <3>1, <3>2 DEF Holds, Sized, Has
  <2>6. QED
    BY <1>2, <1>3, <1>7, <2>1, <2>2, <2>3, <2>4, <2>5, HoldStep
<1>9. CASE Reach(p, "null") /\ MayFail /\ UNCHANGED <<bufferSize, pages>>
  <2>1. at'[p] = "null" /\ \A r \in Processes \ {p} : at'[r] = at[r]
    BY <1>1, <1>9 DEF LifeInv, Reach
  <2>2. HoldTypes'
    BY <1>1, <1>2, <1>7, <1>9 DEF HoldTypes, MayFail
  <2>3. Holds(p)'
    <3>1. Failed(p)'
      BY <1>2, <1>3, <1>4, <1>6, <1>7, <1>9 DEF Failed
    <3>2. QED
      BY <1>2, <1>4, <2>1, <3>1 DEF Holds, Sized, Mapped, Coming
  <2>4. QED
    BY <1>2, <1>7, <1>9, <2>1, <2>2, <2>3, HoldStep
<1>10. QED
  BY <1>8, <1>9 DEF CreateMapping

\* Resources and fields that a step of init adds.
LEMMA OwnHolds ==
  ASSUME HoldTypes, NEW p \in Processes, NEW what \in SUBSET Resources, Own(p, what)
  PROVE  /\ owned' \in [Processes -> SUBSET Resources] /\ owned'[p] = owned[p] \cup what
         /\ \A r \in Processes \ {p} : owned'[r] = owned[r]
<1>1. owned \in [Processes -> SUBSET Resources] /\ owned[p] \cup what \in SUBSET Resources
  BY DEF HoldTypes
<1>2. QED
  BY <1>1 DEF Own

LEMMA BeginHolds ==
  ASSUME HoldInv, LifeInv', NEW p \in Processes, ShmBegin(p) \/ UdsBegin(p)
  PROVE  HoldInv'
<1>1. HoldTypes /\ Holds(p) /\ LifeInv
  BY DEF HoldInv
<1>2. UNCHANGED <<kind, bufferSize, pages, totalSize, ring>>
      /\ (failuresLeft' \in Nat)
  BY <1>1 DEF ShmBegin, UdsBegin, MayFail, HoldTypes
<1>3. /\ kind = "shm" => at[p] = "mapping" /\ owned[p] = {"readFd", "writeFd"}
      /\ kind # "shm" => at[p] = "none" /\ owned[p] = {}
  BY <1>1 DEF ShmBegin, UdsBegin, Holds, Coming, Has
<1>4. PICK what \in SUBSET Resources :
        /\ Own(p, what)
        /\ Reach(p, "null") => what = IF kind = "shm" THEN {} ELSE {"socket"}
        /\ Reach(p, "begun") => what = IF kind = "shm" THEN {"transport"} ELSE {"socket", "transport"}
  <2>1. ~(Reach(p, "null") /\ Reach(p, "begun"))
    BY <1>1 DEF Reach, LifeInv
  <2>2. CASE UdsBegin(p)
    BY <2>1, <2>2 DEF UdsBegin, Resources
  <2>3. CASE ShmBegin(p)
    <3>1. UNCHANGED owned => Own(p, {})
      BY <1>1 DEF Own, HoldTypes
    <3>2. QED
      BY <2>1, <2>3, <3>1 DEF ShmBegin, Resources
  <2>4. QED
    BY <2>2, <2>3
<1>5. /\ owned' \in [Processes -> SUBSET Resources] /\ owned'[p] = owned[p] \cup what
      /\ \A r \in Processes \ {p} : owned'[r] = owned[r]
  BY <1>1, <1>4, OwnHolds
<1>6. HoldTypes'
  BY <1>1, <1>2, <1>5 DEF HoldTypes
<1>7. /\ \/ at'[p] = "begun" /\ Reach(p, "begun")
         \/ at'[p] = "null" /\ Reach(p, "null") /\ UNCHANGED fields
      /\ \A r \in Processes \ {p} : at'[r] = at[r]
  BY <1>1 DEF LifeInv, Reach, ShmBegin, UdsBegin
<1>8. /\ fields'[p]["read"] # "set" /\ fields'[p]["write"] # "set"
      /\ at'[p] = "begun" => fields'[p]["manager"] # "set"
      /\ \A r \in Processes \ {p} : fields'[r] = fields[r]
  <2>1. fields[p]["read"] # "set" /\ fields[p]["write"] # "set" /\ fields \in [Processes -> FieldValues]
    <3>1. CASE UdsBegin(p)
      BY <1>1, <3>1 DEF UdsBegin, Holds, LifeInv
    <3>2. CASE ShmBegin(p)
      BY <1>1, <3>2 DEF ShmBegin, Holds, Mapped, LifeInv, Coming
    <3>3. QED
      BY <3>1, <3>2
  <2>2. CASE UNCHANGED fields /\ Reach(p, "null")
    BY <1>1, <2>1, <2>2 DEF Reach, LifeInv
  <2>3. CASE \E f \in [{"read", "write", "manager"} -> Unset] : fields' = [fields EXCEPT ![p] = f]
    BY <2>1, <2>3 DEF Unset
  <2>4. CASE \E garbage \in Unset : fields' = [fields EXCEPT ![p]["manager"] = garbage]
    BY <2>1, <2>4 DEF FieldValues, Unset
  <2>5. QED
    BY <2>2, <2>3, <2>4 DEF ShmBegin, UdsBegin
<1>9. Holds(p)'
  <2>1. Sized(p)'
    BY <1>1, <1>2, <1>7 DEF Holds, Sized, Memory
  <2>2. kind = "shm" => Mapped(p)'
    <3>1. kind = "shm" => /\ at[p] = "mapping" /\ bufferSize[p] \in BufferSizes
                          /\ pages[p]["write"] = Pages(ArenaHeader) /\ pages[p]["read"] = 0
      BY <1>1 DEF ShmBegin, UdsBegin, Holds, Mapped, Coming
    <3>2. kind = "shm" => bufferSize[PeerOf[p]] \in BufferSizes
      BY <1>1, Partner DEF ShmBegin, UdsBegin, HoldTypes
    <3>3. QED
      BY <1>2, <1>7, <1>8, <3>1, <3>2 DEF Mapped, Coming
  <2>3. at'[p] = "null" => Failed(p)'
    <3>1. SUFFICES ASSUME at'[p] = "null" PROVE Failed(p)'
      OBVIOUS
    <3>2. owned'[p] = IF kind = "shm" THEN {"readFd", "writeFd"} ELSE {"socket"}
      BY <1>3, <1>4, <1>5, <1>7, <3>1
    <3>3. CASE kind = "shm"
      <4>1. /\ bufferSize[p] # 0 /\ bufferSize[PeerOf[p]] \in BufferSizes
            /\ pages[p]["write"] = Pages(ArenaHeader) /\ pages[p]["read"] = 0
        BY <1>1, <1>3, <3>3, Partner, Sizes DEF ShmBegin, UdsBegin, HoldTypes, Holds, Mapped, Coming
      <4>2. QED
        BY <1>2, <3>2, <3>3, <4>1 DEF Failed
    <3>4. CASE kind = "uds"
      BY <1>2, <3>2, <3>4 DEF Failed
    <3>5. QED
      BY <1>1, <3>3, <3>4 DEF LifeInv
  <2>4. at'[p] = "begun" => owned'[p] = Has("begun")'
    BY <1>2, <1>3, <1>4, <1>5, <1>7 DEF Has
  <2>5. QED
    BY <1>2, <1>7, <1>8, <2>1, <2>2, <2>3, <2>4 DEF Holds, Coming
<1>10. QED
  BY <1>2, <1>5, <1>6, <1>7, <1>8, <1>9, HoldStep

LEMMA ManagerHolds ==
  ASSUME HoldInv, LifeInv', NEW p \in Processes, ShmManager(p) \/ UdsManager(p)
  PROVE  HoldInv'
<1>1. HoldTypes /\ Holds(p) /\ LifeInv
  BY DEF HoldInv
<1>2. UNCHANGED <<kind, bufferSize, pages, totalSize, failuresLeft>> /\ at[p] = "begun"
  BY DEF ShmManager, UdsManager
<1>3. Own(p, {"manager"}) /\ {"manager"} \in SUBSET Resources /\ owned[p] = Has("begun")
  BY <1>1, <1>2 DEF ShmManager, UdsManager, Resources, Holds, Coming
<1>4. /\ owned' \in [Processes -> SUBSET Resources] /\ owned'[p] = owned[p] \cup {"manager"}
      /\ \A r \in Processes \ {p} : owned'[r] = owned[r]
  BY <1>1, <1>3, OwnHolds
<1>5. HoldTypes'
  BY <1>1, <1>2, <1>4 DEF HoldTypes, ShmManager, UdsManager
<1>6. /\ at'[p] = (IF kind = "shm" THEN "managed" ELSE "up")
      /\ \A r \in Processes \ {p} : at'[r] = at[r]
  BY <1>1 DEF LifeInv, Reach, ShmManager, UdsManager
<1>7. /\ fields'[p]["read"] = fields[p]["read"] /\ fields'[p]["write"] = fields[p]["write"]
      /\ \A r \in Processes \ {p} : fields'[r] = fields[r]
  BY <1>1 DEF LifeInv, FieldValues, ShmManager, UdsManager
<1>8. Holds(p)'
  <2>1. Sized(p)'
    BY <1>1, <1>2, <1>6 DEF Holds, Sized, Memory
  <2>2. kind = "shm" => Mapped(p)'
    BY <1>1, <1>2, <1>6, <1>7 DEF Holds, Mapped, Coming
  <2>3. (owned[p] = Has(at[p]))'
    BY <1>1, <1>2, <1>3, <1>4, <1>6 DEF Has, LifeInv
  <2>4. at'[p] \notin {"none", "null", "gone", "begun"}
    BY <1>6
  <2>5. QED
    BY <1>1, <1>2, <1>6, <1>7, <2>1, <2>2, <2>3, <2>4 DEF Holds
<1>9. QED
  BY <1>2, <1>4, <1>5, <1>6, <1>7, <1>8, HoldStep

LEMMA MapHolds ==
  ASSUME HoldInv, LifeInv', NEW p \in Processes, ReadMap(p) \/ WriteMap(p) \/ CreateAborts(p)
  PROVE  HoldInv'
<1>1. HoldTypes /\ Holds(p) /\ LifeInv /\ PeerOf[p] \in Processes
  BY Partner DEF HoldInv
<1>2. /\ UNCHANGED <<kind, bufferSize, fields, owned, totalSize, ring, failuresLeft>>
      /\ kind = "shm"
  BY DEF ReadMap, WriteMap, CreateAborts
<1>3. /\ \A r \in Processes \ {p} : at'[r] = at[r]
      /\ ReadMap(p) => at[p] = "managed" /\ at'[p] = "readMapped"
      /\ WriteMap(p) => at[p] = "attached" /\ at'[p] = "writeMapped"
      /\ CreateAborts(p) => at[p] = "writeMapped" /\ at'[p] = "aborted"
  BY <1>1 DEF LifeInv, Reach, ReadMap, WriteMap, CreateAborts
<1>4. bufferSize[p] \in BufferSizes /\ bufferSize[PeerOf[p]] \in BufferSizes
  BY <1>1, <1>2, <1>3 DEF Holds, Mapped, Coming
<1>5. /\ Pages(bufferSize[p]) \in Nat /\ Pages(bufferSize[PeerOf[p]]) \in Nat
      /\ Pages(ArenaHeader) \in Nat
  <2>1. \A n \in BufferSizes : Pages(n) \in Nat
    BY Sizes
  <2>2. Pages(ArenaHeader) \in Nat
    BY Sizes
  <2>3. QED
    BY <1>4, <2>1, <2>2
<1>6. /\ pages' \in [Processes -> [{"read", "write"} -> Nat]]
      /\ \A r \in Processes \ {p} : pages'[r] = pages[r]
      /\ ReadMap(p) => /\ pages'[p]["write"] = pages[p]["write"]
                       /\ pages'[p]["read"] = Pages(bufferSize[PeerOf[p]])
      /\ WriteMap(p) => /\ pages'[p]["read"] = pages[p]["read"]
                        /\ pages'[p]["write"] = pages[p]["write"] + Pages(bufferSize[p])
  <2>1. pages \in [Processes -> [{"read", "write"} -> Nat]]
    BY <1>1 DEF HoldTypes
  <2>2. CASE ReadMap(p)
    <3>1. ~WriteMap(p)
      BY <1>3, <2>2
    <3>2. QED
      BY <1>5, <2>1, <2>2, <3>1 DEF ReadMap
  <2>3. CASE WriteMap(p)
    <3>1. ~ReadMap(p)
      BY <1>3, <2>3
    <3>2. pages[p]["write"] + Pages(bufferSize[p]) \in Nat
      BY <1>5, <2>1
    <3>3. QED
      BY <2>1, <2>3, <3>1, <3>2 DEF WriteMap
  <2>4. CASE CreateAborts(p)
    <3>1. ~ReadMap(p) /\ ~WriteMap(p)
      BY <1>3, <2>4
    <3>2. QED
      BY <2>1, <2>4, <3>1 DEF CreateAborts
  <2>5. QED
    BY <2>2, <2>3, <2>4
<1>7. HoldTypes'
  BY <1>1, <1>2, <1>6 DEF HoldTypes
<1>8. Holds(p)'
  <2>1. Sized(p)'
    BY <1>1, <1>2, <1>3, <1>4 DEF Holds, Sized, Memory
  <2>2. Mapped(p)'
    BY <1>1, <1>2, <1>3, <1>4, <1>6 DEF Holds, Mapped, Coming
  <2>3. at'[p] \in Coming => (owned[p] = Has(at[p]))'
    BY <1>1, <1>2, <1>3 DEF Holds, Has, Coming
  <2>4. at'[p] \notin {"none", "null", "gone", "begun"}
    BY <1>3
  <2>5. QED
    BY <1>1, <1>2, <1>3, <2>1, <2>2, <2>3, <2>4 DEF Holds
<1>9. QED
  BY <1>2, <1>3, <1>6, <1>7, <1>8, HoldStep

\* The allocators: create writes the header that destroy will read the size
\* from, also when that size has wrapped.
LEMMA AllocatorHolds ==
  ASSUME HoldInv, LifeInv', NEW p \in Processes, Attach(p) \/ Create(p) \/ CreateOverruns(p)
  PROVE  HoldInv'
<1>1. HoldTypes /\ Holds(p) /\ LifeInv
  BY DEF HoldInv
<1>2. UNCHANGED <<kind, bufferSize, pages, ring, failuresLeft>> /\ kind = "shm"
  BY DEF Attach, Create, CreateOverruns
<1>3. /\ \A r \in Processes \ {p} : at'[r] = at[r]
      /\ Attach(p) => at[p] = "readMapped" /\ at'[p] = "attached"
      /\ Create(p) => at[p] = "writeMapped" /\ at'[p] = "up"
      /\ CreateOverruns(p) => at[p] = "writeMapped" /\ at'[p] = "undefined"
  BY <1>1 DEF LifeInv, Reach, Attach, Create, CreateOverruns
<1>4. /\ owned' \in [Processes -> SUBSET Resources]
      /\ at'[p] \in Coming => owned'[p] = Has(at'[p])
      /\ \A r \in Processes \ {p} : owned'[r] = owned[r]
  <2>1. CASE Attach(p)
    <3>1. Own(p, {"readAllocator"}) /\ {"readAllocator"} \in SUBSET Resources
          /\ owned[p] = Has("readMapped") /\ at'[p] = "attached"
      BY <1>1, <1>3, <2>1 DEF Attach, Resources, Holds, Coming
    <3>2. QED
      BY <1>1, <1>2, <3>1, OwnHolds DEF Has
  <2>2. CASE Create(p)
    <3>1. Own(p, {"writeAllocator"}) /\ {"writeAllocator"} \in SUBSET Resources
          /\ owned[p] = Has("writeMapped") /\ at'[p] = "up"
      BY <1>1, <1>3, <2>2 DEF Create, Resources, Holds, Coming
    <3>2. QED
      BY <1>1, <1>2, <3>1, OwnHolds DEF Has
  <2>3. CASE CreateOverruns(p)
    BY <1>1, <1>3, <2>3 DEF CreateOverruns, HoldTypes, Coming
  <2>4. QED
    BY <2>1, <2>2, <2>3
<1>5. bufferSize[p] \in BufferSizes /\ Memory(p) \in Int /\ Memory(p)' = Memory(p)
  <2>1. bufferSize[p] \in BufferSizes
    BY <1>1, <1>2, <1>3 DEF Holds, Mapped, Coming
  <2>2. (\A n \in BufferSizes : n \in Nat) /\ ArenaHeader \in Nat
    BY Sizes
  <2>3. bufferSize[p] \in Int /\ Memory(p) = bufferSize[p] - ArenaHeader
    BY <2>1, <2>2 DEF Memory
  <2>4. Memory(p)' = Memory(p)
    BY <1>2 DEF Memory
  <2>5. QED
    BY <2>1, <2>2, <2>3, <2>4
<1>6. /\ totalSize' \in [Processes -> Int]
      /\ \A r \in Processes \ {p} : totalSize'[r] = totalSize[r]
      /\ \/ Attach(p) /\ totalSize'[p] = totalSize[p]
         \/ totalSize'[p] = Memory(p) - AllocatorHeader
  <2>1. totalSize \in [Processes -> Int] /\ Memory(p) - AllocatorHeader \in Int
    BY <1>1, <1>5, Sizes DEF HoldTypes
  <2>2. CASE Attach(p)
    BY <2>1, <2>2 DEF Attach
  <2>3. CASE Create(p) \/ CreateOverruns(p)
    BY <2>1, <2>3 DEF Create, CreateOverruns
  <2>4. QED
    BY <2>2, <2>3
<1>7. HoldTypes'
  BY <1>1, <1>2, <1>4, <1>6 DEF HoldTypes
<1>8. /\ Attach(p) => fields'[p]["write"] = fields[p]["write"]
      /\ \A r \in Processes \ {p} : fields'[r] = fields[r]
  <2>1. fields \in [Processes -> FieldValues]
    BY <1>1 DEF LifeInv
  <2>2. CASE Attach(p)
    BY <2>1, <2>2 DEF Attach, FieldValues
  <2>3. CASE Create(p)
    BY <1>3, <2>1, <2>3 DEF Create
  <2>4. CASE CreateOverruns(p)
    BY <1>3, <2>4 DEF CreateOverruns
  <2>5. QED
    BY <2>2, <2>3, <2>4
<1>9. Holds(p)'
  <2>1. Sized(p)'
    BY <1>1, <1>2, <1>3, <1>5, <1>6 DEF Holds, Sized
  <2>2. Mapped(p)'
    <3>1. CASE Attach(p)
      BY <1>1, <1>2, <1>3, <1>5, <1>6, <1>8, <3>1 DEF Holds, Mapped, Coming
    <3>2. CASE Create(p)
      BY <1>1, <1>2, <1>3, <1>5, <1>6, <3>2 DEF Holds, Mapped, Coming
    <3>3. CASE CreateOverruns(p)
      BY <1>3, <3>3 DEF Mapped, Coming
    <3>4. QED
      BY <3>1, <3>2, <3>3
  <2>3. at'[p] \notin {"none", "null", "gone", "begun"}
    BY <1>3
  <2>4. at'[p] \in Coming => (owned[p] = Has(at[p]))'
    BY <1>2, <1>4 DEF Has
  <2>5. QED
    BY <1>2, <2>1, <2>2, <2>3, <2>4 DEF Holds
<1>10. QED
  BY <1>2, <1>3, <1>4, <1>5, <1>6, <1>7, <1>8, <1>9, HoldStep

LEMMA LifeHolds ==
  ASSUME HoldInv, LifeInv', NEW p \in Processes, NEW sizes \in SUBSET BufferSizes,
         LifeNext(p, sizes)
  PROVE  HoldInv'
<1>1. HoldTypes /\ LifeInv
  BY DEF HoldInv
<1>2. ASSUME NEW leaves \in SUBSET {"manager", "probe"}, at[p] # "begun" => leaves = {},
             kind = "uds" => at[p] = "begun", GiveUp(p, leaves),
             at[p] \in Coming \ {"none", "mapping", "up"}, MayFail \/ UNCHANGED failuresLeft
      PROVE  HoldInv'
  <2>1. failuresLeft' \in Nat
    BY <1>1, <1>2 DEF MayFail, HoldTypes
  <2>2. QED
    BY <1>2, <2>1, GiveUpHolds
<1>3. {{}, {"manager"}, {"manager", "probe"}} \subseteq SUBSET {"manager", "probe"}
  OBVIOUS
<1>4. {"begun", "managed", "readMapped", "attached", "writeMapped"} \subseteq Coming \ {"none", "mapping", "up"}
  BY DEF Coming
<1>5. CASE ShmManagerFails(p)
  BY <1>2, <1>3, <1>4, <1>5 DEF ShmManagerFails, Fail
<1>6. CASE ReadMapFails(p)
  BY <1>2, <1>3, <1>4, <1>6 DEF ReadMapFails, Fail
<1>7. CASE AttachFails(p)
  BY <1>2, <1>3, <1>4, <1>7 DEF AttachFails, Fail
<1>8. CASE WriteMapFails(p)
  BY <1>2, <1>3, <1>4, <1>8 DEF WriteMapFails, Fail
<1>9. CASE CreateFails(p)
  BY <1>2, <1>3, <1>4, <1>9 DEF CreateFails, Fail
<1>10. CASE UdsManagerFails(p)
  BY <1>2, <1>3, <1>4, <1>10 DEF UdsManagerFails, Fail
<1>11. CASE LateEvent(p)
  <2>1. UNCHANGED <<kind, bufferSize, fields, owned, pages, totalSize, ring, failuresLeft>>
        /\ at[p] = "gone"
    BY <1>11 DEF LateEvent
  <2>2. at'[p] = "undefined" /\ \A r \in Processes \ {p} : at'[r] = at[r]
    BY <1>1, <1>11 DEF LifeInv, Reach, LateEvent
  <2>3. HoldTypes'
    BY <1>1, <2>1 DEF HoldTypes
  <2>4. Holds(p)'
    BY <2>1, <2>2 DEF HoldInv, Holds, Sized, Memory, Mapped, Coming
  <2>5. QED
    BY <2>1, <2>2, <2>3, <2>4, HoldStep
<1>12. CASE CreateMapping(p, sizes)
  BY <1>12, CreateMappingHolds
<1>13. CASE ShmBegin(p) \/ UdsBegin(p)
  BY <1>13, BeginHolds
<1>14. CASE ShmManager(p) \/ UdsManager(p)
  BY <1>14, ManagerHolds
<1>15. CASE ReadMap(p) \/ WriteMap(p) \/ CreateAborts(p)
  BY <1>15, MapHolds
<1>16. CASE Attach(p) \/ Create(p) \/ CreateOverruns(p)
  BY <1>16, AllocatorHolds
<1>17. QED
  BY <1>5, <1>6, <1>7, <1>8, <1>9, <1>10, <1>11, <1>12, <1>13, <1>14, <1>15, <1>16 DEF LifeNext

\* The bounds of a behaviour stay, and what it does with the ring and with
\* messages takes nothing from a transport but its stage.
ScenarioInv == scenario \in Scenarios

LEMMA ScenarioStays == ASSUME [Next]_vars PROVE scenario' = scenario
BY DEF Next, MessageInit, WriterMisleads, WriteDocument, MessageSend, MessageCancel, WriteMessages,
       WriteToClosed, WaitMessages, MessageReceive, OpenDocument, ReadDocument, ReadNothing,
       CloseDocument, MessageDestroy, NoMemory, TransportDestroy, client, vars

LEMMA HoldInvStep ==
  ASSUME HoldInv, ScenarioInv, [Next]_vars
  PROVE  HoldInv'
<1>1. HoldTypes /\ LifeInv /\ LifeInv' /\ Sender \in Processes /\ Receiver \in Processes
  BY LifeInvStep, ClientAssumption, Partner DEF HoldInv, Receiver
<1>2. ASSUME NEW p \in Processes, LifeNext(p, scenario.sizes) PROVE HoldInv'
  <2>1. scenario.sizes \in SUBSET BufferSizes
    BY ClientAssumption DEF ScenarioInv
  <2>2. QED
    BY <1>1, <1>2, <2>1, LifeHolds
<1>3. ASSUME NEW p \in Processes, TransportDestroy(p) PROVE HoldInv'
  BY <1>1, <1>3, DestroyHolds
<1>4. ASSUME UNCHANGED <<kind, bufferSize, fields, owned, pages, totalSize>>,
             failuresLeft' \in Nat, ring' \in [Processes -> SUBSET {"read", "write"}],
             NEW p \in Processes,
             \/ UNCHANGED at
             \/ at[p] = "up" /\ \E s \in {"undefined", "aborted", "killed"} : Reach(p, s)
      PROVE  HoldInv'
  <2>1. HoldTypes'
    BY <1>1, <1>4 DEF HoldTypes
  <2>2. \A r \in Processes \ {p} : at'[r] = at[r]
    BY <1>1, <1>4 DEF Reach, LifeInv
  <2>3. Holds(p)'
    <3>1. CASE UNCHANGED at
      BY <1>1, <1>4, <2>1, <3>1, OtherHolds
    <3>2. CASE at[p] = "up" /\ at'[p] \in {"undefined", "aborted", "killed"}
      BY <1>1, <1>4, <3>2 DEF HoldInv, Holds, Sized, Memory, Mapped, Coming
    <3>3. QED
      BY <1>1, <1>4, <3>1, <3>2 DEF Reach, LifeInv
  <2>4. QED
    BY <1>1, <1>4, <2>1, <2>2, <2>3, HoldStep
<1>5. ring \in [Processes -> SUBSET {"read", "write"}] /\ failuresLeft \in Nat
  BY <1>1 DEF HoldTypes
<1>6. ASSUME \/ MessageInit \/ WriteDocument
             \/ OpenDocument \/ ReadDocument \/ CloseDocument \/ MessageDestroy
      PROVE  HoldInv'
  <2>1. UNCHANGED life
    BY <1>6 DEF MessageInit, WriteDocument, OpenDocument, ReadDocument, CloseDocument, MessageDestroy
  <2>2. QED
    BY <1>1, <1>4, <1>5, <2>1 DEF life
<1>7. ASSUME WriterMisleads \/ MessageCancel \/ WriteToClosed \/ ReadNothing PROVE HoldInv'
  <2>1. UNCHANGED <<kind, bufferSize, fields, owned, pages, totalSize, ring, failuresLeft>>
    BY <1>7 DEF WriterMisleads, MessageCancel, WriteToClosed, ReadNothing
  <2>2. \E p \in Processes :
          \/ UNCHANGED at
          \/ at[p] = "up" /\ \E s \in {"undefined", "aborted", "killed"} : Reach(p, s)
    BY <1>1, <1>7 DEF WriterMisleads, Mislead, MessageCancel, WriteToClosed, CanWrite, ReadNothing
  <2>3. QED
    BY <1>4, <1>5, <2>1, <2>2
<1>8. ASSUME MessageSend \/ WriteMessages \/ WaitMessages \/ MessageReceive PROVE HoldInv'
  <2>1. /\ UNCHANGED <<kind, bufferSize, fields, owned, pages, totalSize, failuresLeft, at>>
    BY <1>8 DEF MessageSend, WriteMessages, WaitMessages, MessageReceive
  <2>2. \/ UNCHANGED ring
        \/ \E q \in Processes : \E asked \in SUBSET {"read", "write"} :
             ring' = [ring EXCEPT ![q] = asked]
    <3>1. CASE MessageSend
      <4>1. ring[Sender] \cup {"write"} \in SUBSET {"read", "write"}
        BY <1>1, <1>5
      <4>2. QED
        BY <1>1, <3>1, <4>1 DEF MessageSend
    <3>2. CASE WriteMessages
      <4>1. ring[Sender] \in SUBSET {"read", "write"} /\ ring[Sender] \ {"write"} \in SUBSET {"read", "write"}
        BY <1>1, <1>5
      <4>2. QED
        BY <1>1, <3>2, <4>1 DEF WriteMessages
    <3>3. CASE WaitMessages
      BY <1>1, <3>3 DEF WaitMessages
    <3>4. CASE MessageReceive
      <4>1. ring[Receiver] \in SUBSET {"read", "write"}
        BY <1>1, <1>5
      <4>2. QED
        BY <1>1, <3>4, <4>1 DEF MessageReceive
    <3>5. QED
      BY <1>8, <3>1, <3>2, <3>3, <3>4
  <2>3. ring' \in [Processes -> SUBSET {"read", "write"}]
    BY <1>5, <2>2
  <2>4. QED
    BY <1>1, <1>4, <1>5, <2>1, <2>3
<1>9. CASE UNCHANGED vars
  <2>1. UNCHANGED life
    BY <1>9 DEF vars
  <2>2. QED
    BY <1>1, <1>4, <1>5, <2>1 DEF life
<1>10. ASSUME NEW p \in Processes, NoMemory(p) PROVE HoldInv'
  <2>1. /\ UNCHANGED <<kind, bufferSize, fields, owned, pages, totalSize, ring>>
        /\ failuresLeft' \in Nat
        /\ at[p] = "up" /\ Reach(p, "undefined")
    BY <1>5, <1>10 DEF NoMemory, Allocates, MayFail
  <2>2. QED
    BY <1>4, <1>5, <2>1
<1>11. QED
  BY <1>2, <1>3, <1>6, <1>7, <1>8, <1>9, <1>10 DEF Next

\* A transport that came up gives back at its end all it took, but the pages
\* the size in the header of a mapping does not reach, whatever the sizes are,
\* whichever process comes up or ends first, and whatever of the other's init
\* fails.
THEOREM Releases == Spec => []DestroyReleases
<1>1. Init => HoldInv /\ ScenarioInv
  BY HoldInvInit DEF Init, ScenarioInv
<1>2. HoldInv /\ ScenarioInv /\ [Next]_vars => (HoldInv /\ ScenarioInv)'
  BY HoldInvStep, ScenarioStays DEF ScenarioInv
<1>3. HoldInv => DestroyReleases
  BY DEF HoldInv, Holds, Mapped, DestroyReleases
<1>4. QED
  BY <1>1, <1>2, <1>3, PTL DEF Spec

\* Whichever step of an init fails, for mappings of any size: the files and the
\* pages that FailedInitLeaves names are left and, when the event manager fails,
\* its own memory and the probe of the ring.  The transport and an allocator it
\* had attached are freed.
THEOREM Leavings == Spec => []FailedInitLeaves
<1>1. Init => HoldInv /\ ScenarioInv
  BY HoldInvInit DEF Init, ScenarioInv
<1>2. HoldInv /\ ScenarioInv /\ [Next]_vars => (HoldInv /\ ScenarioInv)'
  BY HoldInvStep, ScenarioStays DEF ScenarioInv
<1>3. HoldInv => FailedInitLeaves
  <2>1. SUFFICES ASSUME HoldInv PROVE FailedInitLeaves
    OBVIOUS
  <2>2. ASSUME NEW p \in Processes, at[p] = "null"
        PROVE  Failed(p) /\ (bufferSize[p] # 0 <=> bufferSize[p] > 0)
    <3>1. bufferSize[p] \in BufferSizes \cup {0} /\ \A n \in BufferSizes : n \in Nat
      BY <2>1, Sizes DEF HoldInv, HoldTypes
    <3>2. bufferSize[p] \in Nat
      BY <3>1
    <3>3. Failed(p)
      BY <2>1, <2>2 DEF HoldInv, Holds
    <3>4. QED
      BY <3>2, <3>3
  <2>3. QED
    BY <2>2 DEF FailedInitLeaves, Failed
<1>4. QED
  BY <1>1, <1>2, <1>3, PTL DEF Spec

-----------------------------------------------------------------------------
(* Types *)

\* The outermost writer is a document: an element without a key is never a
\* field of it.
TextTypes ==
  /\ room \in Nat /\ elements \in Seq(Field) /\ inner \in BOOLEAN
  /\ Len(open) <= MaxDepth
  /\ open # <<>> => open[1].kind = "document"

LEMMA WriteTypes ==
  ASSUME NestInv, TextTypes, open # <<>>, NEW key, NEW type \in Types, Write(key, type),
         Len(open) = 1 => key \in Keys
  PROVE  room' \in Nat /\ elements' \in Seq(Field) /\ inner' \in BOOLEAN
<1>1. room' \in Nat /\ inner' \in BOOLEAN
  BY DEF Write, TextTypes
<1>2. CASE Len(open) = 1
  <2>1. [key |-> key, type |-> type] \in Field
    BY <1>2 DEF Field
  <2>2. QED
    BY <1>2, <2>1 DEF Write, TextTypes
<1>3. CASE Len(open) # 1
  BY <1>3 DEF Write, TextTypes
<1>4. QED
  BY <1>1, <1>2, <1>3

LEMMA RootOnly ==
  ASSUME NestInv, TextTypes, InArray
  PROVE  Len(open) # 1
BY DEF NestInv, TextTypes, InArray, Last

LEMMA PushTypes ==
  ASSUME NestInv, NestInv', TextTypes, open # <<>>, NEW k, NEW d, NEW a, Push(k, d, a)
  PROVE  Len(open') <= MaxDepth /\ (open' # <<>> => open'[1].kind = "document")
<1>1. PICK w : open' = Append(open, w) /\ Len(open) < MaxDepth
  BY DEF Push
<1>2. PICK n \in Nat : n = Len(open) /\ n # 0
  BY DEF NestInv
<1>3. w \in Writer
  <2>1. open' \in Seq(Writer) /\ Len(open') = n + 1 /\ open'[n + 1] = w
    BY <1>1, <1>2 DEF NestInv
  <2>2. QED
    BY <1>2, <2>1
<1>4. Len(open') = n + 1 /\ open'[1] = open[1]
  BY <1>1, <1>2, <1>3 DEF NestInv
<1>5. QED
  BY <1>1, <1>2, <1>4, DocumentsAssumption DEF TextTypes

LEMMA TextStep == ASSUME NestInv, NestInv', ScenarioInv, TextTypes, [Next]_vars PROVE TextTypes'
<1>1. ASSUME MessageInit PROVE TextTypes'
  <2>1. /\ \/ open' = <<[kind |-> "document", parentDocument |-> Null, parentArray |-> Null]>>
           \/ open' = <<>>
        /\ elements' = <<>> /\ inner' = FALSE /\ room' = scenario.room
    BY <1>1 DEF MessageInit, FromBuffer
  <2>2. /\ Len(open') <= 1 /\ (open' # <<>> => open'[1].kind = "document")
        /\ scenario.room \in Nat
    <3>1. CASE open' # <<>>
      <4>1. Len(open') = 1 /\ open'[1].kind = "document"
        BY <2>1, <3>1
      <4>2. QED
        BY <4>1, ClientAssumption DEF ScenarioInv
    <3>2. CASE open' = <<>>
      BY <3>2, ClientAssumption DEF ScenarioInv
    <3>3. QED
      BY <3>1, <3>2
  <2>3. Len(open') <= MaxDepth /\ elements' \in Seq(Field)
    <3>1. Len(open') \in Nat
      BY <2>1
    <3>2. QED
      BY <2>1, <2>2, <3>1, DocumentsAssumption
  <2>4. QED
    BY <2>1, <2>2, <2>3 DEF TextTypes
<1>2. ASSUME WriteDocument PROVE TextTypes'
  <2>1. ScalarTypes \subseteq Types /\ {"document", "array"} \subseteq Types
    BY DEF Types
  <2>2. ASSUME NEW key \in Keys, NEW type \in ScalarTypes, DocAppend(key, type) PROVE TextTypes'
    <3>1. room' \in Nat /\ elements' \in Seq(Field) /\ inner' \in BOOLEAN
      BY <2>1, <2>2, WriteTypes DEF DocAppend, InDocument
    <3>2. QED
      BY <2>2, <3>1 DEF DocAppend, TextTypes
  <2>3. ASSUME NEW type \in ScalarTypes, ArrAppend(type) PROVE TextTypes'
    <3>1. room' \in Nat /\ elements' \in Seq(Field) /\ inner' \in BOOLEAN
      BY <2>1, <2>3, WriteTypes, RootOnly DEF ArrAppend, InArray
    <3>2. QED
      BY <2>3, <3>1 DEF ArrAppend, TextTypes
  <2>4. ASSUME NEW key \in Keys, DocDocumentBegin(key) \/ DocArrayBegin(key) PROVE TextTypes'
    <3>1. open # <<>> /\ \E type \in {"document", "array"} : Write(key, type)
      BY <2>4 DEF DocDocumentBegin, DocArrayBegin, InDocument
    <3>2. room' \in Nat /\ elements' \in Seq(Field) /\ inner' \in BOOLEAN
      BY <2>1, <3>1, WriteTypes
    <3>3. \E k, d, a : Push(k, d, a)
      BY <2>4 DEF DocDocumentBegin, DocArrayBegin
    <3>4. QED
      BY <3>1, <3>2, <3>3, PushTypes DEF TextTypes
  <2>5. ASSUME ArrDocumentBegin \/ ArrArrayBegin PROVE TextTypes'
    <3>1. InArray /\ open # <<>> /\ \E type \in {"document", "array"} : Write(NoKey, type)
      BY <2>5 DEF ArrDocumentBegin, ArrArrayBegin, InArray
    <3>2. room' \in Nat /\ elements' \in Seq(Field) /\ inner' \in BOOLEAN
      BY <2>1, <3>1, WriteTypes, RootOnly
    <3>3. \E k, d, a : Push(k, d, a)
      BY <2>5 DEF ArrDocumentBegin, ArrArrayBegin
    <3>4. QED
      BY <3>1, <3>2, <3>3, PushTypes DEF TextTypes
  <2>6. ASSUME DocDocumentEnd \/ ArrFinish \/ ArrDocumentEnd \/ ArrArrayEnd PROVE TextTypes'
    <3>1. Outer \in {"document", "array"} /\ \E parent : EndIn(parent)
      BY <2>6 DEF DocDocumentEnd, ArrFinish, ArrDocumentEnd, ArrArrayEnd
    <3>2. PICK n \in Nat : n = Len(open) /\ n > 1
      BY <3>1 DEF Outer, NestInv
    <3>3. open' = SubSeq(open, 1, n - 1) /\ UNCHANGED <<room, elements, inner>>
      BY <3>1, <3>2 DEF EndIn, Front
    <3>4. Len(open') = n - 1 /\ open'[1] = open[1]
      BY <3>2, <3>3 DEF NestInv
    <3>5. QED
      BY <3>2, <3>3, <3>4, DocumentsAssumption DEF TextTypes
  <2>7. QED
    BY <1>2, <2>2, <2>3, <2>4, <2>5, <2>6 DEF WriteDocument
<1>3. ASSUME MessageSend \/ MessageCancel PROVE TextTypes'
  <2>1. open' = <<>> /\ elements' = <<>> /\ inner' = FALSE /\ room' = 0
    BY <1>3 DEF MessageSend, MessageCancel, Discard
  <2>2. Len(open') <= MaxDepth /\ elements' \in Seq(Field)
    BY <2>1, DocumentsAssumption
  <2>3. QED
    BY <2>1, <2>2 DEF TextTypes
<1>4. CASE UNCHANGED writing
  BY <1>4 DEF writing, TextTypes
<1>5. QED
  BY <1>1, <1>2, <1>3, <1>4, WritingChanges

-----------------------------------------------------------------------------
(* Reading *)

LEMMA Least ==
  ASSUME NEW T \in SUBSET Nat, T # {}
  PROVE  \E x \in T : \A y \in T : x <= y
<1>1. PICK x \in T : \A y \in T : ~(<<y, x>> \in OpToRel(<, Nat))
  BY NatLessThanWellFounded, WFMin, Zenon
<1>2. \A y \in T : y < x => <<y, x>> \in OpToRel(<, Nat)
  BY DEF OpToRel
<1>3. \A y \in T : ~(y < x)
  BY <1>1, <1>2, Zenon
<1>4. QED
  BY <1>3

\* bson_iter_find stops at the first field with the key, or past the last.
LEMMA FindsFirst ==
  ASSUME document \in Seq(Field), NEW from \in Nat, NEW key
  PROVE  LET i == Find(key, from)
             n == Len(document)
         IN /\ n \in Nat /\ i \in 1..(n + 1)
            /\ i = n + 1 => \A j \in 1..n : ~(j > from /\ document[j].key = key)
            /\ i # n + 1 => /\ i > from /\ document[i].key = key
                            /\ \A j \in 1..n : j > from /\ document[j].key = key => i <= j
<1> DEFINE ahead == {j \in DOMAIN document : j > from /\ document[j].key = key}
           i == Find(key, from)
<1>1. PICK n \in Nat : n = Len(document) /\ DOMAIN document = 1..n /\ Past = n + 1
  BY DEF Past
<1>2. CASE ahead = {}
  BY <1>1, <1>2 DEF Find
<1>3. CASE ahead # {}
  <2>1. ahead \in SUBSET Nat
    BY <1>1
  <2>2. \E j \in ahead : \A k \in ahead : j <= k
    BY <1>3, <2>1, Least
  <2>3. i \in ahead /\ \A k \in ahead : i <= k
    BY <1>3, <2>2 DEF Find
  <2>4. QED
    BY <1>1, <2>3
<1>4. QED
  BY <1>2, <1>3

\* The ways to find the first n keys that were looked up in the document, in
\* the order they were looked up.
Places(n) ==
  {f \in [1..n -> 1..Len(document)] :
     /\ \A i \in 1..n : document[f[i]].key = lookups[i].key
     /\ \A i, j \in 1..n : i < j => f[i] < f[j]}

\* The cursor is where the last key of the first of these ways is; it is past
\* the last field when there is none.
SearchInv ==
  LET n == Len(lookups)
      end == Len(document) + 1
  IN /\ document \in Seq(Field) /\ lookups \in Seq(Lookup)
     /\ cursor \in 0..end
     /\ cursor # end => \E f \in Places(n) : \A i \in 1..n : f[i] <= cursor
     /\ \A f \in Places(n) : cursor # end /\ cursor <= (IF n = 0 THEN 0 ELSE f[n])
     /\ \A k \in 1..n : lookups[k].outcome # "absent" <=> Places(k) # {}

LEMMA SearchStart ==
  ASSUME NEW fs \in Seq(Field), document' = fs, cursor' = 0, lookups' = <<>>
  PROVE  SearchInv'
<1>1. Len(fs) \in Nat /\ Len(lookups') = 0 /\ lookups' \in Seq(Lookup)
  OBVIOUS
<1>2. \E f : f \in [1..0 -> 1..Len(fs)]
  <2>1. [i \in 1..0 |-> 1] \in [1..0 -> 1..Len(fs)]
    OBVIOUS
  <2>2. QED
    BY <2>1
<1>3. \E f \in Places(0)' : \A i \in 1..0 : f[i] <= 0
  <2>1. 1..0 = {}
    OBVIOUS
  <2>2. PICK f : f \in [1..0 -> 1..Len(document')]
    BY <1>2
  <2>3. f \in Places(0)'
    BY <2>1, <2>2, Zenon DEF Places
  <2>4. QED
    BY <2>1, <2>3
<1>4. QED
  BY <1>1, <1>3 DEF SearchInv

LEMMA SearchStep ==
  ASSUME SearchInv, NEW key \in Keys, NEW types, LookUp(key, types)
  PROVE  SearchInv'
<1> DEFINE i == Find(key, cursor)
           e == [key |-> key, outcome |-> Found(i, types)]
<1>1. PICK m \in Nat : m = Len(document) /\ Past = m + 1
  BY DEF SearchInv, Past
<1>2. PICK n \in Nat : n = Len(lookups)
  BY DEF SearchInv
<1>3. /\ document \in Seq(Field) /\ lookups \in Seq(Lookup) /\ cursor \in 0..(m + 1)
  BY <1>1 DEF SearchInv
<1>4. /\ i \in 1..(m + 1)
      /\ i = m + 1 => \A j \in 1..m : ~(j > cursor /\ document[j].key = key)
      /\ i # m + 1 => /\ i > cursor /\ document[i].key = key
                      /\ \A j \in 1..m : j > cursor /\ document[j].key = key => i <= j
  BY <1>1, <1>3, FindsFirst
<1>5. e \in Lookup /\ (e.outcome # "absent" <=> i # m + 1) /\ e.key = key
  BY <1>1 DEF Lookup, Found
<1>6. document' = document /\ cursor' = i /\ lookups' = Append(lookups, e)
  BY DEF LookUp
<1> HIDE DEF i, e
<1>7. /\ lookups' \in Seq(Lookup) /\ Len(lookups') = n + 1
      /\ \A k \in 1..n : lookups'[k] = lookups[k]
      /\ lookups'[n + 1] = e
  BY <1>2, <1>3, <1>5, <1>6
<1>8. ASSUME NEW k \in 0..n PROVE Places(k)' = Places(k)
  <2>1. \A j \in 1..k : lookups'[j] = lookups[j]
    BY <1>7
  <2>2. QED
    BY <1>6, <2>1 DEF Places
<1>9. /\ cursor # m + 1 => \E f \in Places(n) : \A j \in 1..n : f[j] <= cursor
      /\ \A f \in Places(n) : cursor # m + 1 /\ cursor <= (IF n = 0 THEN 0 ELSE f[n])
      /\ \A k \in 1..n : lookups[k].outcome # "absent" <=> Places(k) # {}
  BY <1>1, <1>2 DEF SearchInv
\* The way found so far, and the field found.
<1>10. ASSUME i # m + 1
       PROVE  \E f \in Places(n + 1)' : \A j \in 1..(n + 1) : f[j] <= i
  <2>1. cursor # m + 1 /\ i > cursor /\ i \in 1..m /\ document[i].key = key
    BY <1>3, <1>4, <1>10
  <2>2. PICK f \in Places(n) : \A j \in 1..n : f[j] <= cursor
    BY <1>9, <2>1
  <2>3. /\ f \in [1..n -> 1..m]
        /\ \A j \in 1..n : document[f[j]].key = lookups[j].key
        /\ \A j, k \in 1..n : j < k => f[j] < f[k]
    BY <1>1, <2>2 DEF Places
  <2> DEFINE g == [j \in 1..(n + 1) |-> IF j = n + 1 THEN i ELSE f[j]]
  <2>4. /\ g \in [1..(n + 1) -> 1..m]
        /\ g[n + 1] = i /\ \A j \in 1..n : g[j] = f[j]
    BY <2>1, <2>3
  <2> HIDE DEF g
  <2>5. \A j \in 1..(n + 1) : j = n + 1 \/ j \in 1..n
    OBVIOUS
  <2>6. \A j \in 1..(n + 1) : document[g[j]].key = lookups'[j].key
    BY <1>5, <1>7, <2>1, <2>3, <2>4, <2>5
  <2>7. \A j, k \in 1..(n + 1) : j < k => g[j] < g[k]
    <3>1. SUFFICES ASSUME NEW j \in 1..(n + 1), NEW k \in 1..(n + 1), j < k PROVE g[j] < g[k]
      OBVIOUS
    <3>2. j \in 1..n /\ f[j] \in 1..m /\ g[j] = f[j]
      BY <2>3, <2>4, <3>1
    <3>3. CASE k = n + 1
      BY <1>3, <2>1, <2>2, <2>4, <3>2, <3>3
    <3>4. CASE k \in 1..n
      BY <2>3, <2>4, <3>1, <3>2, <3>4
    <3>5. QED
      BY <2>5, <3>3, <3>4
  <2>8. g \in Places(n + 1)'
    BY <1>1, <1>6, <2>4, <2>6, <2>7 DEF Places
  <2>9. ASSUME NEW j \in 1..(n + 1) PROVE g[j] <= i
    <3>1. CASE j = n + 1
      BY <1>4, <2>4, <3>1
    <3>2. CASE j \in 1..n
      <4>1. f[j] \in 1..m /\ f[j] <= cursor /\ g[j] = f[j]
        BY <2>2, <2>3, <2>4, <3>2
      <4>2. QED
        BY <1>3, <2>1, <4>1
    <3>3. QED
      BY <2>5, <3>1, <3>2
  <2>10. QED
    BY <2>8, <2>9
\* A way to find one more key is a way to find those before it.
<1>11. ASSUME NEW g \in Places(n + 1)'
       PROVE  i # m + 1 /\ i <= g[n + 1]
  <2>1. /\ g \in [1..(n + 1) -> 1..m]
        /\ \A j \in 1..(n + 1) : document[g[j]].key = lookups'[j].key
        /\ \A j, k \in 1..(n + 1) : j < k => g[j] < g[k]
    BY <1>1, <1>6, <1>11 DEF Places
  <2> DEFINE f == [j \in 1..n |-> g[j]]
  <2>2. f \in [1..n -> 1..m] /\ \A j \in 1..n : f[j] = g[j]
    BY <2>1
  <2> HIDE DEF f
  <2>3. f \in Places(n)
    <3>1. \A j \in 1..n : j \in 1..(n + 1) /\ lookups'[j] = lookups[j]
      BY <1>7
    <3>2. QED
      BY <1>1, <2>1, <2>2, <3>1 DEF Places
  <2>4. cursor # m + 1 /\ cursor <= (IF n = 0 THEN 0 ELSE f[n])
    BY <1>9, <2>3
  <2>5. n + 1 \in 1..(n + 1) /\ g[n + 1] \in 1..m /\ document[g[n + 1]].key = key
    <3>1. n + 1 \in 1..(n + 1)
      OBVIOUS
    <3>2. QED
      BY <1>5, <1>7, <2>1, <3>1
  <2>6. g[n + 1] > cursor
    <3>1. CASE n = 0
      BY <1>3, <2>4, <2>5, <3>1
    <3>2. CASE n # 0
      <4>1. n \in 1..n /\ n \in 1..(n + 1) /\ n < n + 1
        BY <3>2
      <4>2. f[n] = g[n] /\ g[n] \in 1..m /\ g[n] < g[n + 1]
        BY <2>1, <2>2, <2>5, <4>1
      <4>3. QED
        BY <1>3, <2>4, <2>5, <3>2, <4>2
    <3>3. QED
      BY <3>1, <3>2
  <2>7. QED
    BY <1>4, <2>5, <2>6
<1>12. ASSUME NEW k \in 1..(n + 1)
       PROVE  lookups'[k].outcome # "absent" <=> Places(k)' # {}
  <2>1. CASE k \in 1..n
    <3>1. k \in 0..n /\ lookups'[k] = lookups[k]
      BY <1>7, <2>1
    <3>2. QED
      BY <1>8, <1>9, <2>1, <3>1
  <2>2. CASE k = n + 1
    BY <1>5, <1>7, <1>10, <1>11, <2>2
  <2>3. QED
    BY <2>1, <2>2
<1>13. i \in 0..(m + 1) /\ n + 1 # 0
  BY <1>4
<1>14. QED
  BY <1>1, <1>3, <1>6, <1>7, <1>10, <1>11, <1>12, <1>13 DEF SearchInv

\* A document is open only while its message is held, and is what was written
\* to it.
MessagesInv ==
  /\ writer \in {"none", "writer", "null", "other"}
  /\ reader \in {"none", "document", "null"}
  /\ outgoing \in Seq(Message) /\ channel \in Seq(Message) /\ held \in Seq(Message)
  /\ Len(held) <= 1
  /\ reader # "none" => held # <<>>
  /\ reader = "document" => document = held[1].written
  /\ sent \in Nat /\ sent <= scenario.messages
  /\ writer # "none" => sent < scenario.messages
  /\ received \in Seq(Nat)

LEMMA SendTypes ==
  ASSUME NestInv, TextTypes, ScenarioInv, MessagesInv, MessageSend
  PROVE  MessagesInv'
<1>1. Ready \in Message
  <2>1. sent + 1 \in Nat /\ elements \in Seq(Field) /\ Valid \in BOOLEAN
    BY DEF MessagesInv, TextTypes, Valid
  <2>2. QED
    BY <2>1 DEF Ready, Message
<1>2. outgoing' \in Seq(Message) /\ channel' \in Seq(Message)
  <2>1. \A s \in Seq(Message) : Append(s, Ready) \in Seq(Message)
    BY <1>1
  <2>2. CASE kind = "shm"
    BY <2>1, <2>2 DEF MessageSend, MessagesInv
  <2>3. CASE kind # "shm"
    BY <2>1, <2>3 DEF MessageSend, MessagesInv
  <2>4. QED
    BY <2>2, <2>3
<1>3. sent' \in Nat /\ sent' <= scenario.messages
  <2>1. scenario.messages \in Nat /\ sent \in Nat /\ sent < scenario.messages /\ sent' = sent + 1
    BY ClientAssumption DEF ScenarioInv, MessagesInv, MessageSend, Writing
  <2>2. QED
    BY <2>1
<1>4. writer' = "none" /\ UNCHANGED <<reader, held, received, document, scenario>>
  BY DEF MessageSend, reading, Discard
<1>5. QED
  BY <1>2, <1>3, <1>4 DEF MessagesInv

LEMMA MoveTypes == ASSUME MessagesInv, WriteMessages PROVE MessagesInv'
<1>1. PICK n \in 1..Len(outgoing) :
        /\ channel' = channel \o SubSeq(outgoing, 1, n)
        /\ outgoing' = SubSeq(outgoing, n + 1, Len(outgoing))
  BY DEF WriteMessages
<1>2. ASSUME NEW s \in Seq(Message), NEW j \in 1..Len(s)
      PROVE  SubSeq(s, 1, j) \in Seq(Message) /\ SubSeq(s, j + 1, Len(s)) \in Seq(Message)
  BY <1>2
<1>3. SubSeq(outgoing, 1, n) \in Seq(Message) /\ outgoing' \in Seq(Message)
  BY <1>1, <1>2 DEF MessagesInv
<1>4. channel' \in Seq(Message)
  BY <1>1, <1>3 DEF MessagesInv
<1>5. UNCHANGED <<writer, reader, held, received, document, scenario, sent>>
  BY DEF WriteMessages, writing, reading
<1>6. QED
  BY <1>3, <1>4, <1>5 DEF MessagesInv

LEMMA ReceiveTypes == ASSUME MessagesInv, MessageReceive PROVE MessagesInv'
<1>1. PICK k \in Nat : k = Len(channel) /\ k # 0
  BY DEF MessagesInv, MessageReceive
<1>2. Head(channel) = channel[1] /\ channel[1] \in Message
  BY <1>1 DEF MessagesInv
<1>3. channel' \in Seq(Message)
  BY <1>1 DEF MessagesInv, MessageReceive
<1>4. /\ held' = <<channel[1]>> /\ received' = Append(received, channel[1].number)
      /\ UNCHANGED <<reader, document, writer, outgoing, sent, scenario>> /\ reader = "none"
  BY <1>2 DEF MessageReceive, MessagesInv, writing, reading
<1>5. held' \in Seq(Message) /\ Len(held') = 1
  BY <1>2, <1>4
<1>6. channel[1].number \in Nat
  BY <1>2 DEF Message
<1>7. received' \in Seq(Nat)
  BY <1>4, <1>6 DEF MessagesInv
<1>8. QED
  BY <1>3, <1>4, <1>5, <1>7 DEF MessagesInv

LEMMA SearchStays == ASSUME SearchInv, UNCHANGED reading PROVE SearchInv'
<1>1. document' = document /\ cursor' = cursor /\ lookups' = lookups
  BY DEF reading
<1>2. ASSUME NEW n PROVE Places(n)' = Places(n)
  BY <1>1 DEF Places
<1>3. QED
  BY <1>1, <1>2 DEF SearchInv

\* A document that is opened, or closed, is searched from its start.
LEMMA OpenTypes == ASSUME MessagesInv, OpenDocument PROVE MessagesInv' /\ SearchInv'
<1>1. PICK k \in Nat : k = Len(held) /\ k # 0
  BY DEF MessagesInv, OpenDocument
<1>2. held[1] \in Message
  BY <1>1 DEF MessagesInv
<1>3. held[1].written \in Seq(Field) /\ <<>> \in Seq(Field)
  BY <1>2 DEF Message
<1>4. /\ \/ reader' = "document" /\ document' = held[1].written
         \/ reader' = "null" /\ document' = <<>>
      /\ cursor' = 0 /\ lookups' = <<>> /\ held # <<>>
      /\ UNCHANGED <<writer, client>>
  BY DEF OpenDocument, FromData, writing
<1>5. SearchInv'
  BY <1>3, <1>4, SearchStart
<1>6. MessagesInv'
  BY <1>4 DEF MessagesInv, client
<1>7. QED
  BY <1>5, <1>6

LEMMA CloseTypes == ASSUME MessagesInv, CloseDocument PROVE MessagesInv' /\ SearchInv'
<1>1. /\ reader' = "none" /\ document' = <<>> /\ cursor' = 0 /\ lookups' = <<>>
      /\ UNCHANGED <<writer, client>>
  BY DEF CloseDocument, Close, writing
<1>2. <<>> \in Seq(Field)
  OBVIOUS
<1>3. SearchInv'
  BY <1>1, <1>2, SearchStart
<1>4. MessagesInv'
  BY <1>1 DEF MessagesInv, client
<1>5. QED
  BY <1>3, <1>4

LEMMA MessagesStep ==
  ASSUME NestInv, TextTypes, ScenarioInv, MessagesInv, SearchInv, [Next]_vars
  PROVE  MessagesInv' /\ SearchInv'
<1>1. scenario' = scenario
  BY ScenarioStays
<1>2. ASSUME UNCHANGED <<reading, held, received, sent, channel>>, outgoing' \in {outgoing, <<>>},
             writer' = "none" \/ writer' = writer
      PROVE  MessagesInv' /\ SearchInv'
  <2>1. UNCHANGED <<reader, document>>
    BY <1>2 DEF reading
  <2>2. SearchInv'
    BY <1>2, SearchStays
  <2>3. outgoing' \in Seq(Message)
    <3>1. <<>> \in Seq(Message) /\ outgoing \in Seq(Message)
      BY DEF MessagesInv
    <3>2. QED
      BY <1>2, <3>1
  <2>4. MessagesInv'
    BY <1>1, <1>2, <2>1, <2>3 DEF MessagesInv
  <2>5. QED
    BY <2>2, <2>4
<1>3. ASSUME UNCHANGED reading PROVE SearchInv'
  BY <1>3, SearchStays
<1>4. ASSUME NEW p \in Processes,
             \/ LifeNext(p, scenario.sizes) /\ UNCHANGED <<writing, reading, client>>
             \/ TransportDestroy(p) \/ NoMemory(p)
      PROVE  MessagesInv' /\ SearchInv'
  BY <1>2, <1>4 DEF TransportDestroy, NoMemory, client, writing
<1>5. ASSUME \/ WriterMisleads \/ WriteDocument \/ MessageCancel \/ WriteToClosed
             \/ WaitMessages \/ ReadNothing
      PROVE  MessagesInv' /\ SearchInv'
  <2>1. UNCHANGED <<reading, client>>
    BY <1>5 DEF WriterMisleads, WriteDocument, MessageCancel, WriteToClosed, WaitMessages, ReadNothing
  <2>2. writer' = "none" \/ writer' = writer
    <3>1. CASE WriteDocument
      BY <3>1 DEF WriteDocument, DocAppend, DocDocumentBegin, DocArrayBegin, ArrAppend,
                  ArrDocumentBegin, ArrArrayBegin, DocDocumentEnd, ArrFinish, ArrDocumentEnd,
                  ArrArrayEnd, Write, EndIn
    <3>2. CASE \/ WriterMisleads \/ MessageCancel \/ WriteToClosed \/ WaitMessages \/ ReadNothing
      BY <3>2 DEF WriterMisleads, MessageCancel, Discard, WriteToClosed, WaitMessages, ReadNothing,
                  writing
    <3>3. QED
      BY <1>5, <3>1, <3>2
  <2>3. QED
    BY <1>2, <2>1, <2>2 DEF client
<1>6. ASSUME MessageInit PROVE MessagesInv' /\ SearchInv'
  <2>1. /\ UNCHANGED <<reading, outgoing, channel, held, sent, received>>
        /\ writer' \in {"writer", "null", "other"} /\ sent < scenario.messages
    BY <1>6 DEF MessageInit, FromBuffer, client
  <2>2. document' = document /\ reader' = reader
    BY <2>1 DEF reading
  <2>3. MessagesInv'
    BY <1>1, <2>1, <2>2 DEF MessagesInv
  <2>4. QED
    BY <1>3, <2>1, <2>3
<1>7. ASSUME MessageSend \/ WriteMessages \/ MessageReceive PROVE MessagesInv' /\ SearchInv'
  <2>1. UNCHANGED reading
    BY <1>7 DEF MessageSend, WriteMessages, MessageReceive
  <2>2. QED
    BY <1>3, <1>7, <2>1, SendTypes, MoveTypes, ReceiveTypes
<1>8. ASSUME ReadDocument PROVE MessagesInv' /\ SearchInv'
  <2>1. UNCHANGED <<client, writer, reader, document>>
        /\ \E key \in Keys : \E types : LookUp(key, types)
    BY <1>8 DEF ReadDocument, DocumentLookUp, DocumentGet, LookUp, writing
  <2>2. SearchInv'
    BY <2>1, SearchStep
  <2>3. MessagesInv'
    BY <2>1 DEF MessagesInv, client
  <2>4. QED
    BY <2>2, <2>3
<1>9. ASSUME MessageDestroy PROVE MessagesInv' /\ SearchInv'
  <2>1. /\ held' = <<>> /\ reader = "none"
        /\ UNCHANGED <<reading, scenario, writer, outgoing, channel, sent, received>>
    BY <1>9 DEF MessageDestroy, writing
  <2>2. UNCHANGED <<reader, document>>
    BY <2>1 DEF reading
  <2>3. <<>> \in Seq(Message) /\ Len(<<>>) = 0
    OBVIOUS
  <2>4. MessagesInv'
    BY <2>1, <2>2, <2>3 DEF MessagesInv
  <2>5. QED
    BY <1>3, <2>1, <2>4
<1>10. CASE UNCHANGED vars
  <2>1. UNCHANGED <<reading, held, received, sent, channel, outgoing, writer>>
    BY <1>10 DEF vars, client, writing
  <2>2. QED
    BY <1>2, <2>1
<1>11. QED
  BY <1>4, <1>5, <1>6, <1>7, <1>8, <1>9, <1>10, OpenTypes, CloseTypes DEF Next

ClientInv ==
  NestInv /\ HoldInv /\ ScenarioInv /\ TextTypes /\ MessagesInv /\ SearchInv

LEMMA ClientInvInit == Init => ClientInv
<1>1. SUFFICES ASSUME Init PROVE ClientInv
  OBVIOUS
<1>2. NestInv /\ HoldInv /\ ScenarioInv
  BY <1>1, HoldInvInit DEF Init, NestInv, ScenarioInv
<1>3. /\ <<>> \in Seq(Field) /\ <<>> \in Seq(Message) /\ <<>> \in Seq(Lookup) /\ <<>> \in Seq(Nat)
      /\ Len(<<>>) = 0
  OBVIOUS
<1>4. /\ room = 0 /\ elements = <<>> /\ inner = FALSE /\ open = <<>>
      /\ document = <<>> /\ cursor = 0 /\ lookups = <<>> /\ reader = "none"
      /\ writer = "none" /\ outgoing = <<>> /\ channel = <<>> /\ held = <<>>
      /\ sent = 0 /\ received = <<>>
  BY <1>1 DEF Init
<1>5. TextTypes
  <2>1. Len(open) <= MaxDepth /\ elements \in Seq(Field)
    BY <1>3, <1>4, DocumentsAssumption
  <2>2. QED
    BY <1>4, <2>1 DEF TextTypes
<1>6. scenario.messages \in Nat
  BY <1>2, ClientAssumption DEF ScenarioInv
<1>7. MessagesInv
  BY <1>3, <1>4, <1>6 DEF MessagesInv
<1>8. SearchInv
  <2>1. 1..0 = {}
    OBVIOUS
  <2>2. \E f : f \in [1..0 -> 1..Len(document)]
    <3>1. [i \in 1..0 |-> 1] \in [1..0 -> 1..Len(document)]
      BY <2>1
    <3>2. QED
      BY <3>1
  <2>3. \E f : f \in Places(0)
    BY <2>1, <2>2, Zenon DEF Places
  <2>4. QED
    BY <1>3, <1>4, <2>1, <2>3 DEF SearchInv
<1>9. QED
  BY <1>2, <1>5, <1>7, <1>8 DEF ClientInv

LEMMA ClientInvStep == ASSUME ClientInv, [Next]_vars PROVE ClientInv'
<1>1. NestInv /\ HoldInv /\ ScenarioInv /\ TextTypes /\ MessagesInv /\ SearchInv
  BY DEF ClientInv
<1>2. NestInv' /\ HoldInv' /\ ScenarioInv'
  BY <1>1, NestStep, HoldInvStep, ScenarioStays DEF ScenarioInv
<1>3. TextTypes'
  BY <1>1, <1>2, TextStep
<1>4. MessagesInv' /\ SearchInv'
  BY <1>1, MessagesStep
<1>5. QED
  BY <1>2, <1>3, <1>4 DEF ClientInv

\* The state has its types: no writer is opened beyond the depth, only the
\* fields of a document have its keys, no more messages are sent than the
\* scenario has, and the receiver holds one at a time.
THEOREM Typing == Spec => []TypeOK
<1>1. ClientInv => TypeOK
  <2>1. SUFFICES ASSUME ClientInv PROVE TypeOK
    OBVIOUS
  <2>2. DocumentsTypeOK
    <3>1. PICK n \in Nat : n = Len(document)
      BY <2>1 DEF ClientInv, SearchInv
    <3>2. cursor \in Nat
      BY <2>1, <3>1 DEF ClientInv, SearchInv
    <3>3. QED
      BY <2>1, <3>2 DEF ClientInv, NestInv, TextTypes, SearchInv, MessagesInv, DocumentsTypeOK
  <2>3. LifeTypeOK
    BY <2>1 DEF ClientInv, HoldInv, LifeInv, HoldTypes, LifeTypeOK, FieldValues
  <2>4. sent \in 0..scenario.messages
    BY <2>1, ClientAssumption DEF ClientInv, ScenarioInv, MessagesInv
  <2>5. QED
    BY <2>1, <2>2, <2>3, <2>4 DEF ClientInv, ScenarioInv, MessagesInv, TypeOK
<1>2. QED
  BY <1>1, ClientInvInit, ClientInvStep, PTL DEF Spec

\* The one cursor of document.c finds what a receiver asks for exactly as long
\* as it asks in the order the sender wrote, for documents of any length and
\* any sequence of lookups, of other types or of keys that are not there too.
THEOREM ReadsInOrder == Spec => []ReadInOrder
<1>1. ClientInv => ReadInOrder
  <2>1. SUFFICES ASSUME ClientInv,
                        reader = "document", NEW n \in DOMAIN lookups
                 PROVE  lookups[n].outcome # "absent"
                          <=> IsSubsequenceOf(Asked(n), KeysOf(held[1].written))
    BY DEF ReadInOrder
  <2>2. MessagesInv /\ SearchInv
    BY <2>1 DEF ClientInv
  <2>3. document = held[1].written
    BY <2>1, <2>2 DEF MessagesInv
  <2>4. PICK m \in Nat : m = Len(document) /\ DOMAIN document = 1..m
    BY <2>2 DEF SearchInv
  <2>5. /\ DOMAIN Asked(n) = 1..n /\ \A i \in 1..n : Asked(n)[i] = lookups[i].key
        /\ DOMAIN KeysOf(document) = 1..m
        /\ \A i \in 1..m : KeysOf(document)[i] = document[i].key
    BY <2>4 DEF Asked, KeysOf
  <2>6. IsSubsequenceOf(Asked(n), KeysOf(document)) <=> Places(n) # {}
    <3> DEFINE a == Asked(n)
               k == KeysOf(document)
    <3>1. IsSubsequenceOf(a, k)
            <=> \E f \in [DOMAIN a -> DOMAIN k] :
                  /\ \A i \in DOMAIN a : k[f[i]] = a[i]
                  /\ \A i, j \in DOMAIN a : i < j => f[i] < f[j]
      BY Zenon DEF IsSubsequenceOf
    <3>2. DOMAIN a = 1..n /\ DOMAIN k = 1..m
      BY <2>5
    <3>3. ASSUME NEW f \in [1..n -> 1..m], NEW i \in 1..n
          PROVE  k[f[i]] = a[i] <=> document[f[i]].key = lookups[i].key
      BY <2>5, <3>3
    <3> HIDE DEF a, k
    <3>4. IsSubsequenceOf(a, k)
            <=> \E f \in [1..n -> 1..m] :
                  /\ \A i \in 1..n : k[f[i]] = a[i]
                  /\ \A i, j \in 1..n : i < j => f[i] < f[j]
      BY <3>1, <3>2, Zenon
    <3>5. IsSubsequenceOf(a, k)
            <=> \E f \in [1..n -> 1..m] :
                  /\ \A i \in 1..n : document[f[i]].key = lookups[i].key
                  /\ \A i, j \in 1..n : i < j => f[i] < f[j]
      BY <3>3, <3>4, Zenon
    <3>6. Places(n) # {}
            <=> \E f \in [1..n -> 1..m] :
                  /\ \A i \in 1..n : document[f[i]].key = lookups[i].key
                  /\ \A i, j \in 1..n : i < j => f[i] < f[j]
      BY <2>4 DEF Places
    <3>7. QED
      BY <3>5, <3>6, Zenon DEF a, k
  <2>7. n \in 1..Len(lookups)
    BY <2>1, <2>2 DEF SearchInv
  <2>8. QED
    BY <2>2, <2>3, <2>6, <2>7 DEF SearchInv
<1>2. QED
  BY <1>1, ClientInvInit, ClientInvStep, PTL DEF Spec
=============================================================================
