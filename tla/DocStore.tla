------------------------------ MODULE DocStore ------------------------------
(***************************************************************************)
(* Abstract specification of what the storage controller promises for one *)
(* collection: a durable map from document id to the value of its indexed *)
(* field.  Documents are created with a fresh id, updated in bulk by a     *)
(* query, and deleted in bulk by a query.  A crash followed by recovery    *)
(* between operations is invisible.  A crash inside a bulk delete leaves   *)
(* each document it targeted either deleted or intact: the frame is the    *)
(* unit of persistence (spec 6.1), and nothing else may change.  `last`    *)
(* names each step's operation and arguments, so that a refinement checks  *)
(* every step against the request that caused it.                          *)
(***************************************************************************)
EXTENDS FiniteSets, TLC

CONSTANTS
  Ids,      \* document ids (_id values)
  Vals,     \* values the indexed field may hold
  NoVal,    \* the field is absent from the document
  Queries,  \* the queries clients send, records [id, f]
  NoKey       \* a query key that is not present

VARIABLES
  docs,     \* partial function: live _id -> field value
  last      \* the last operation and its arguments, [op, q, v]

vars == <<docs, last>>

FVals == Vals \cup {NoVal}

EmptyQuery == [id |-> NoKey, f |-> NoKey]

Op(o, q, v) == [op |-> o, q |-> q, v |-> v]

Matches(i, v, q) == (q.id = NoKey \/ q.id = i) /\ (q.f = NoKey \/ q.f = v)

TypeOK == DOMAIN docs \subseteq Ids /\ \A i \in DOMAIN docs : docs[i] \in FVals

Init == docs = <<>> /\ last = Op("none", EmptyQuery, NoVal)

\* A new document with value v and an id no live document has.
InsertDoc(v) ==
  /\ \E i \in Ids \ DOMAIN docs : docs' = (i :> v) @@ docs
  /\ last' = Op("insert", EmptyQuery, v)

\* Every document matching q disappears, and only those.
DeleteWhere(q) ==
  /\ docs' = [i \in {j \in DOMAIN docs : ~Matches(j, docs[j], q)} |-> docs[i]]
  /\ last' = Op("delete", q, NoVal)

\* Every document matching q gets field value v.
UpdateWhere(q, v) ==
  /\ docs' = [i \in DOMAIN docs |-> IF Matches(i, docs[i], q) THEN v ELSE docs[i]]
  /\ last' = Op("update", q, v)

\* A crash and recovery between operations: the documents are as before.
Recover ==
  /\ UNCHANGED docs
  /\ last' = Op("crash", EmptyQuery, NoVal)

\* A crash inside a delete of q: some of the documents matching q are gone,
\* the others and every other document are as before.
CrashDeleteSome(q) ==
  /\ \E gone \in SUBSET DOMAIN docs :
       /\ \A i \in gone : Matches(i, docs[i], q)
       /\ docs' = [i \in DOMAIN docs \ gone |-> docs[i]]
  /\ last' = Op("crashdelete", q, NoVal)

Next ==
  \/ \E v \in FVals : InsertDoc(v)
  \/ \E q \in Queries : DeleteWhere(q) \/ CrashDeleteSome(q)
  \/ \E q \in Queries, v \in Vals : UpdateWhere(q, v)
  \/ Recover

Spec == Init /\ [][Next]_vars

=============================================================================
