----------------------------- MODULE Documents -----------------------------
(***************************************************************************)
(* The document of a message: its writers (document_writer.c and           *)
(* array_writer.c) and its reader (document.c).                            *)
(*                                                                         *)
(* A writer for a nested document or array is opened in the innermost      *)
(* writer and has a pointer to it, parent_document or parent_array; the    *)
(* other pointer is left as malloc returned it, or copied.  The function   *)
(* that ends a writer closes it in the parent it finds.  The reader looks  *)
(* every field up with one cursor, which only moves forward.               *)
(*                                                                         *)
(* libbson is external.  While a nested writer is open it refuses to write *)
(* to the outer ones.  When the buffer is full it asks kb_bson_realloc for *)
(* a larger one, which says there is none: appends and begins fail, and    *)
(* change nothing.                                                         *)
(***************************************************************************)
EXTENDS Naturals, Sequences, SequencesExt

CONSTANTS
  Keys,            \* keys the application writes and looks up
  NoKey,           \* elements of an array: their key is not used
  ScalarTypes,     \* the types of values that are not nested
  MaxDepth,        \* bound: writers open at once
  MaxLookups       \* bound: lookups in a document

ASSUME DocumentsAssumption ==
  /\ NoKey \notin Keys
  /\ ScalarTypes \cap {"document", "array"} = {}
  /\ MaxDepth \in Nat \ {0}
  /\ MaxLookups \in Nat

\* Pointers to writers: the position in the stack of open writers, NULL, or
\* what a field that nobody has set may point to.
Null == 0
Wild == MaxDepth + 1
Garbage == {Null, Wild}

VARIABLES
  writer,      \* what the application has as the writer of its document
  room,        \* elements the buffer still has room for
  elements,    \* the fields of the document itself, in the order of the bytes
  inner,       \* the last value written is in a nested document or array
  open,        \* the open writers, outermost first
  misused,     \* a writer was ended in something that is not its parent
  reader,      \* what the application has as the reader of a document
  document,    \* keys and types of the fields of the document being read
  cursor,      \* the field the iterator is at
  lookups      \* history: what was looked up and what came of it

writing == <<writer, room, elements, inner, open, misused>>
reading == <<reader, document, cursor, lookups>>

Types == ScalarTypes \cup {"document", "array"}
Writer == [kind : {"document", "array"}, parentDocument : 0..Wild, parentArray : 0..Wild]
Field == [key : Keys, type : Types]
Lookup == [key : Keys, outcome : {"absent", "mismatch", "found"}]

DocumentsTypeOK ==
  /\ writer \in {"none", "writer", "null", "other"}
  /\ reader \in {"none", "document", "null"}
  /\ room \in Nat
  /\ elements \in Seq(Field)
  /\ inner \in BOOLEAN
  /\ open \in Seq(Writer) /\ Len(open) <= MaxDepth
  /\ misused \in BOOLEAN
  /\ document \in Seq(Field)
  /\ cursor \in Nat
  /\ lookups \in Seq(Lookup)

-----------------------------------------------------------------------------
(* The writers *)

InDocument == open # <<>> /\ Last(open).kind = "document"
InArray == open # <<>> /\ Last(open).kind = "array"

\* doc_writer_from_buffer: NULL when there is no memory or libbson refuses the
\* buffer.  The function does not return the writer it has made: the caller gets
\* what the register holds, which is the writer or anything else.
FromBuffer(size) ==
  /\ writer = "none"
  /\ writer' \in {"writer", "null", "other"}
  /\ open' = IF writer' = "writer"
             THEN <<[kind |-> "document", parentDocument |-> Null, parentArray |-> Null]>>
             ELSE <<>>
  /\ elements' = <<>> /\ inner' = FALSE
  /\ room' = size
  /\ UNCHANGED misused

\* The root has the addresses of the parameters of doc_writer_from_buffer, which
\* libbson looks through whenever something is appended, begun or ended: that
\* is undefined, and comes out as below as long as what it finds there is the
\* buffer.  So is the use of a writer that is none, and all functions assert
\* that theirs is not NULL.
Mislead == IF writer = "null" THEN "aborted" ELSE "undefined"

\* (mutant) The buffer is taken to have room.
WriteUnchecked(key, type) ==
  /\ room' = room - 1
  /\ elements' = IF Len(open) = 1 THEN Append(elements, [key |-> key, type |-> type]) ELSE elements
  /\ inner' = (Len(open) > 1)
  /\ UNCHANGED <<writer, misused>>

\* Of a nested writer's values only the room they take is seen from outside.
Write(key, type) ==
  /\ room > 0
  /\ room' = room - 1
  /\ elements' = IF Len(open) = 1 THEN Append(elements, [key |-> key, type |-> type]) ELSE elements
  /\ inner' = (Len(open) > 1)
  /\ UNCHANGED <<writer, misused>>

DocAppend(key, type) == InDocument /\ Write(key, type) /\ UNCHANGED open

\* The key is not used: libbson numbers the elements of an array.
ArrAppend(type) == InArray /\ Write(NoKey, type) /\ UNCHANGED open

Push(kind, parentDocument, parentArray) ==
  /\ Len(open) < MaxDepth
  /\ open' = Append(open, [kind |-> kind, parentDocument |-> parentDocument,
                           parentArray |-> parentArray])

\* doc_writer_document_begin does not set parent_array.
DocDocumentBegin(key) ==
  /\ InDocument
  /\ Write(key, "document")
  /\ \E garbage \in Garbage : Push("document", Len(open), garbage)

\* doc_writer_array_begin, arr_writer_create: parent_array is the one of the
\* document, set or not.
DocArrayBegin(key) ==
  /\ InDocument
  /\ Write(key, "array")
  /\ Push("array", Len(open), Last(open).parentArray)

\* arr_writer_document_begin does not set parent_document ...
ArrDocumentBegin ==
  /\ InArray
  /\ Write(NoKey, "document")
  /\ \E garbage \in Garbage : Push("document", garbage, Len(open))

\* ... and neither does arr_writer_array_begin.
ArrArrayBegin ==
  /\ InArray
  /\ Write(NoKey, "array")
  /\ \E garbage \in Garbage : Push("array", garbage, Len(open))

\* libbson closes the innermost writer in the one it was opened in.
EndIn(parent) ==
  /\ open' = Front(open)
  /\ misused' = (misused \/ parent # Len(open) - 1)
  /\ UNCHANGED <<writer, room, elements, inner>>

\* The application ends a writer with the function that goes with the one
\* that opened it: this is the kind of the writer it was opened in.
Outer == IF Len(open) > 1 THEN open[Len(open) - 1].kind ELSE "none"

\* doc_writer_document_end.  (It refuses to end a root.)
DocDocumentEnd ==
  /\ InDocument /\ Outer = "document"
  /\ Last(open).parentDocument # Null
  /\ EndIn(Last(open).parentDocument)

\* (mutant) The parent array is looked at first.
ArrFinishArrayFirst ==
  LET w == Last(open) IN
  /\ InArray /\ Outer = "document"
  /\ IF w.parentArray # Null THEN EndIn(w.parentArray) ELSE EndIn(w.parentDocument)

\* doc_writer_array_end, arr_writer_finish: the parent document, or else the
\* parent array.
ArrFinish ==
  LET w == Last(open) IN
  /\ InArray /\ Outer = "document"
  /\ IF w.parentDocument # Null THEN EndIn(w.parentDocument) ELSE EndIn(w.parentArray)

\* arr_writer_document_end
ArrDocumentEnd ==
  /\ InDocument /\ Outer = "array"
  /\ EndIn(Last(open).parentArray)

\* arr_writer_array_end
ArrArrayEnd ==
  /\ InArray /\ Outer = "array"
  /\ EndIn(Last(open).parentArray)

\* Whether the bytes up to the length of the root are a document.  The length of
\* an open writer is added to its parent's when it ends; before, the root ends
\* in the middle of what was written to it, and libbson refuses it.
Valid == ~(Len(open) > 1 /\ inner)

Discard ==
  /\ writer' = "none"
  /\ open' = <<>> /\ elements' = <<>> /\ inner' = FALSE /\ room' = 0
  /\ UNCHANGED misused

-----------------------------------------------------------------------------
(* The reader *)

\* document_from_data: NULL when there is no memory or the data is refused.
FromData(fields, valid) ==
  /\ reader = "none"
  /\ \/ valid /\ reader' = "document" /\ document' = fields
     \/ reader' = "null" /\ document' = <<>>
  /\ cursor' = 0
  /\ lookups' = <<>>

\* bson_iter_find: the next field with the key, or the end for good.
Past == Len(document) + 1

Find(key, from) ==
  LET ahead == {i \in DOMAIN document : i > from /\ document[i].key = key}
  IN IF ahead = {} THEN Past ELSE CHOOSE i \in ahead : \A j \in ahead : i <= j

Found(i, types) ==
  IF i = Past THEN "absent" ELSE IF document[i].type \in types THEN "found" ELSE "mismatch"

\* (mutant) Whether there is such a field is asked first.
LookUpTwice(key, types) ==
  LET i == Find(key, Find(key, cursor)) IN
  /\ reader = "document"
  /\ Len(lookups) < MaxLookups
  /\ cursor' = i
  /\ lookups' = Append(lookups, [key |-> key, outcome |-> Found(i, types)])
  /\ UNCHANGED <<reader, document>>

LookUp(key, types) ==
  LET i == Find(key, cursor) IN
  /\ reader = "document"
  /\ Len(lookups) < MaxLookups
  /\ cursor' = i
  /\ lookups' = Append(lookups, [key |-> key, outcome |-> Found(i, types)])
  /\ UNCHANGED <<reader, document>>

\* document_has_field, document_get_value and document_value_type move the
\* iterator all the same.
DocumentLookUp(key) == LookUp(key, Types)

\* document_get_bool and so on: a field of another type is passed, too.
DocumentGet(key, type) == LookUp(key, {type})

\* document_destroy; there is nothing to destroy when document_from_data has
\* returned NULL.
Close ==
  /\ reader # "none" /\ reader' = "none"
  /\ document' = <<>> /\ cursor' = 0 /\ lookups' = <<>>

-----------------------------------------------------------------------------
\* s is what is left of t when some of its elements are dropped.
IsSubsequenceOf(s, t) ==
  \E f \in [DOMAIN s -> DOMAIN t] :
    /\ \A i \in DOMAIN s : t[f[i]] = s[i]
    /\ \A i, j \in DOMAIN s : i < j => f[i] < f[j]

\* A writer is ended in the writer it was opened in, whatever the parent
\* pointers that nobody has set contain, and wherever they were copied to.
EndsInParent == ~misused
=============================================================================
