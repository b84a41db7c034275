------------------------------ MODULE AevumDb ------------------------------
(***************************************************************************)
(* The storage controller Db (src/storage/db.cpp) over the persistence     *)
(* Engine (src/storage/engine.cpp), for one user collection Coll with one  *)
(* field "f" that may carry a secondary index.                             *)
(*                                                                         *)
(* Memory: the cJSON array of the collection (mem, a sequence of document  *)
(* pointers), the heap those pointers designate, the primary index         *)
(* id_indexes_ (pidx), the secondary index custom_indexes_ (sidx), the     *)
(* registration indexed_fields_ (indexed) and the schema registry.         *)
(* Disk: the frame sequences of <Coll>.aev, _indexes.aev, _schemas.aev and *)
(* the set of files that exist.                                            *)
(*                                                                         *)
(* Every public method takes the global rw_lock_ for its whole body, so    *)
(* it is one atomic step here; upsert takes it twice and is two steps.     *)
(* A crash loses memory and keeps the disk; Restart is crash + load_all.   *)
(* find and count only read and are operators used by the properties.     *)
(***************************************************************************)
EXTENDS Naturals, Sequences, FiniteSets, SequencesExt, TLC

CONSTANTS
  Threads,        \* client worker threads
  Ids,            \* _id values (generated UUIDs and client-chosen ids)
  ClientIds,      \* _id values a client may put in an inserted document
  Vals,           \* values of field "f" (strings/numbers, all stringify non-empty)
  Schemas,        \* schema documents set_schema may register
  SchemaTag,      \* [Schemas -> {Coll, NoColl}]: the schema's own "collection" key
  Accepts,        \* set of <<schema, value>> the predicate engine's validate accepts
  Queries,        \* queries, records [id: Ids \cup {NoKey}, f: Vals \cup {NoKey}]
  MaxHandles,     \* heap slots: bound on live documents
  DirOrders,      \* orders directory_iterator may list the .aev files in
  FaultyIO,       \* whether appends and compactions may fail
  AutoCompactMin, \* the "> 100 live documents" of the auto-compaction heuristic
  MaxRestarts,    \* bound on crash/restart cycles
  Coll, NoColl, NoVal, NoId, NoSchema, NoKey, Free

Handles == 1..MaxHandles
FVals == Vals \cup {NoVal}
DocVal == [id: Ids, f: FVals]
DataFrame == [id: Ids, f: FVals, tomb: BOOLEAN]
IndexEntry == <<Coll, "f">>
Files == {"_indexes", "_schemas", Coll}

ASSUME ClientIds \subseteq Ids /\ SchemaTag \in [Schemas -> {Coll, NoColl}]
ASSUME \A o \in DirOrders : o \in SetToSeqs(Files)

VARIABLES
  mem, heap, pidx, sidx, exists, indexed, schema,   \* Db memory
  dataLog, idxLog, schemaLog, files,                \* Engine files
  pc, upArg,                                        \* upsert in progress
  usedIds, restarts, ioFailReported,                \* history
  lastOp                                            \* history: last request, [op, q, v]

memVars == <<mem, heap, pidx, sidx, exists, indexed, schema>>
diskVars == <<dataLog, idxLog, schemaLog, files>>
vars == <<memVars, diskVars, pc, upArg, usedIds, restarts, ioFailReported, lastOp>>

WriteOutcomes == IF FaultyIO THEN BOOLEAN ELSE {TRUE}
EmptySidx == [v \in Vals |-> <<>>]
Live == ToSet(mem)
MemDocs == [k \in 1..Len(mem) |-> heap[mem[k]]]
DocFrame(d) == [id |-> d.id, f |-> d.f, tomb |-> FALSE]
Tombstone(i) == [id |-> i, f |-> NoVal, tomb |-> TRUE]
FramesOf(m, hp) == [k \in 1..Len(m) |-> DocFrame(hp[m[k]])]

TypeOK ==
  /\ mem \in Seq(Handles) /\ heap \in [Handles -> DocVal \cup {Free}]
  /\ \A h \in Live : heap[h] # Free
  /\ DOMAIN pidx \subseteq Ids /\ \A i \in DOMAIN pidx : pidx[i] \in Handles
  /\ sidx \in [Vals -> Seq(Handles)]
  /\ exists \in BOOLEAN /\ indexed \in BOOLEAN /\ schema \in Schemas \cup {NoSchema}
  /\ dataLog \in Seq(DataFrame) /\ schemaLog \in Seq(Schemas)
  /\ idxLog \in Seq(SUBSET {IndexEntry}) /\ files \subseteq Files
  /\ pc \in [Threads -> {"idle", "counted"}] /\ usedIds \subseteq Ids

EmptyQuery == [id |-> NoKey, f |-> NoKey]
Op(o, q, v) == [op |-> o, q |-> q, v |-> v]

\* A thread's upsert locals when it is not inside Db::upsert.
NoUpsert == [q |-> EmptyQuery, v |-> NoVal, found |-> FALSE]

Init ==
  /\ mem = <<>> /\ heap = [h \in Handles |-> Free] /\ pidx = <<>>
  /\ sidx = EmptySidx /\ exists = FALSE /\ indexed = FALSE /\ schema = NoSchema
  /\ dataLog = <<>> /\ idxLog = <<>> /\ schemaLog = <<>> /\ files = {}
  /\ pc = [t \in Threads |-> "idle"]
  /\ upArg = [t \in Threads |-> NoUpsert]
  /\ usedIds = {} /\ restarts = 0 /\ ioFailReported = FALSE
  /\ lastOp = Op("none", EmptyQuery, NoVal)

-----------------------------------------------------------------------------
(* Queries, and the predicate engine's semantics of them (full scan).      *)

Matches(d, q) == (q.id = NoKey \/ q.id = d.id) /\ (q.f = NoKey \/ q.f = d.f)
QSize(q) == (IF q.id # NoKey THEN 1 ELSE 0) + (IF q.f # NoKey THEN 1 ELSE 0)
FullScan(q) == SelectSeq(MemDocs, LAMBDA d : Matches(d, q))

\* Db::count: 0 for an unknown collection, the array size for an empty
\* query, otherwise the predicate engine's count.
Count(q) ==
  IF ~exists THEN 0
  ELSE IF QSize(q) = 0 THEN Len(mem)
  ELSE Len(FullScan(q))

\* Db::find for a simple request (no sort, no projection, limit = skip = 0).
Find(q) ==
  IF ~exists THEN <<>>
  ELSE IF q.id # NoKey
    THEN IF q.id \in DOMAIN pidx THEN <<heap[pidx[q.id]]>> ELSE <<>>
  ELSE IF QSize(q) = 1 /\ indexed /\ q.f # NoKey
    THEN [k \in 1..Len(sidx[q.f]) |-> heap[sidx[q.f][k]]]
  ELSE FullScan(q)

-----------------------------------------------------------------------------
(* Index maintenance.                                                      *)

UpdateCustomIndexNoRemove(ix, sx, h, d, add) ==
  IF ~ix \/ d.f = NoVal \/ ~add THEN sx ELSE [sx EXCEPT ![d.f] = Append(@, h)]
\* Db::update_custom_index: only when the field is registered and present.
UpdateCustomIndex(ix, sx, h, d, add) ==
  IF ~ix \/ d.f = NoVal THEN sx
  ELSE IF add THEN [sx EXCEPT ![d.f] = Append(@, h)]
  ELSE [sx EXCEPT ![d.f] = RemoveFirst(@, h)]

\* Db::rebuild_index: the last array element with an _id wins the map slot.
RebuildPidx(m, hp) ==
  [i \in {hp[h].id : h \in ToSet(m)} |->
     m[CHOOSE k \in 1..Len(m) : hp[m[k]].id = i /\
                                \A j \in k+1..Len(m) : hp[m[j]].id # i]]

RebuildSidx(ix, m, hp) ==
  IF ix THEN [v \in Vals |-> SelectSeq(m, LAMBDA h : hp[h].f = v)] ELSE EmptySidx

\* Engine::append and Engine::compact on the model's frame sequences.
AppendFrame(log, fr, ok) == IF ok THEN Append(log, fr) ELSE log
CompactLog(log, active, ok) == IF ok THEN active ELSE log
\* Which files exist after a write: a compaction creates the file only by
\* renaming its temporary one; an append opens the file (creating it) before
\* writing, so a failed append may or may not have created it.
Touch(name, ok) == IF ok THEN files \cup {name} ELSE files
AppendTouch(name, ok) ==
  IF ok THEN {files \cup {name}} ELSE {files, files \cup {name}}

\* create_index's backfill: every array element goes through
\* update_custom_index, in array order, appended to the existing buckets.
BackfillNone(ix, sx, m, hp) == sx
Backfill(ix, sx, m, hp) ==
  FoldLeft(LAMBDA acc, h : UpdateCustomIndex(ix, acc, h, hp[h], TRUE), sx, m)

\* Db::compact_collection: the active set is the array, serialized in order.
CompactCollection(m, hp, ok) == CompactLog(dataLog, FramesOf(m, hp), ok)

-----------------------------------------------------------------------------
(* Write operations.  Each is the whole method body under the writer lock. *)

\* Db::validate: no schema registered, or the predicate engine accepts.
Validate(d) == schema = NoSchema \/ <<schema, d.f>> \in Accepts

\* Db::insert after a successful validate: get_collection, keep the client's
\* _id or generate a fresh UUID, push the copy, index it, append its frame.
\* A failed append is reported (false) but memory keeps the document.
\* Which free slot cJSON's allocator returns is immaterial (only pointer
\* equality is ever used), so the lowest free one is taken.
InsertStep(d) ==
  \E id \in (IF d.id = NoId THEN Ids \ usedIds ELSE {d.id}), ok \in WriteOutcomes :
    LET doc == [id |-> id, f |-> d.f]
        h == Min({k \in Handles : heap[k] = Free})
    IN
    /\ \E k \in Handles : heap[k] = Free
    /\ exists' = TRUE
    /\ heap' = [heap EXCEPT ![h] = doc]
    /\ mem' = Append(mem, h)
    /\ pidx' = (id :> h) @@ pidx
    /\ sidx' = UpdateCustomIndex(indexed, sidx, h, doc, TRUE)
    /\ dataLog' = AppendFrame(dataLog, DocFrame(doc), ok)
    /\ files' \in AppendTouch(Coll, ok)
    /\ usedIds' = usedIds \cup {id}
    /\ ioFailReported' = (ioFailReported \/ ~ok)
    /\ UNCHANGED <<indexed, schema, idxLog, schemaLog, restarts>>

\* Db::update: the predicate engine returns the whole collection with the
\* matching documents rewritten; the array is swapped in, both indexes are
\* rebuilt, the log is compacted, and true is returned whatever the
\* compaction did.
UpdateStep(q, v) ==
  /\ exists
  /\ LET hp == [h \in Handles |->
                 IF h \in Live /\ Matches(heap[h], q)
                 THEN [heap[h] EXCEPT !.f = v] ELSE heap[h]]
     IN /\ heap' = hp
        /\ pidx' = RebuildPidx(mem, hp)
        /\ sidx' = RebuildSidx(indexed, mem, hp)
        /\ \E ok \in WriteOutcomes :
             /\ dataLog' = CompactCollection(mem, hp, ok)
             /\ files' = Touch(Coll, ok)
  /\ UNCHANGED <<mem, exists, indexed, schema, idxLog, schemaLog,
                 usedIds, restarts, ioFailReported>>

Insert(t, d) ==
  /\ pc[t] = "idle"
  /\ Validate(d)
  /\ InsertStep(d)
  /\ lastOp' = Op("insert", EmptyQuery, d.f)
  /\ UNCHANGED <<pc, upArg>>

Update(t, q, v) ==
  /\ pc[t] = "idle"
  /\ UpdateStep(q, v)
  /\ lastOp' = Op("update", q, v)
  /\ UNCHANGED <<pc, upArg>>

\* Db::upsert, first half: Db::count under the shared lock, which is then
\* released.
UpsertCount(t, q, v) ==
  /\ pc[t] = "idle"
  /\ pc' = [pc EXCEPT ![t] = "counted"]
  /\ upArg' = [upArg EXCEPT ![t] = [q |-> q, v |-> v, found |-> Count(q) > 0]]
  /\ UNCHANGED <<memVars, diskVars, usedIds, restarts, ioFailReported, lastOp>>

\* Db::upsert, second half: update or insert on the strength of the count
\* taken earlier, under a fresh writer lock.
UpsertApply(t) ==
  LET a == upArg[t]
      d == [id |-> NoId, f |-> a.v]
  IN /\ pc[t] = "counted"
     /\ pc' = [pc EXCEPT ![t] = "idle"]
     /\ IF a.found THEN UpdateStep(a.q, a.v) /\ lastOp' = Op("update", a.q, a.v)
        ELSE IF Validate(d) THEN InsertStep(d) /\ lastOp' = Op("insert", EmptyQuery, a.v)
        ELSE UNCHANGED <<memVars, diskVars, usedIds, restarts, ioFailReported, lastOp>>
     /\ upArg' = [upArg EXCEPT ![t] = NoUpsert]

\* Db::remove, target identification.  Tier 1: the query is exactly one
\* string _id present in the primary index.  Tier 2 (only when the query is
\* not a single _id): exactly one registered field, the ids of its bucket.
\* Tier 3, when neither produced a target: the predicate engine's find.
TurboTargets(q) ==
  IF QSize(q) = 1 /\ q.id # NoKey
    THEN IF q.id \in DOMAIN pidx THEN <<q.id>> ELSE <<>>
  ELSE IF QSize(q) = 1 /\ indexed /\ q.f # NoKey
    THEN [k \in 1..Len(sidx[q.f]) |-> heap[sidx[q.f][k]].id]
  ELSE <<>>

DeleteIds(q) ==
  IF TurboTargets(q) # <<>> THEN TurboTargets(q)
  ELSE LET s == FullScan(q) IN [k \in 1..Len(s) |-> s[k].id]

\* Db::remove, one iteration of the execution loop: for an id still in the
\* primary index, append its tombstone (result ignored), unindex, detach and
\* free the document.  st.fail is the set of ids whose tombstone write fails.
RemoveOneNoTombstone(st, i) ==
  IF i \notin DOMAIN st.pidx THEN st
  ELSE LET h == st.pidx[i] IN
    [st EXCEPT !.sidx = UpdateCustomIndex(indexed, @, h, st.heap[h], FALSE),
               !.pidx = [j \in DOMAIN st.pidx \ {i} |-> st.pidx[j]],
               !.mem = Remove(@, h),
               !.heap = [@ EXCEPT ![h] = Free]]
RemoveOneKeepsPidx(st, i) ==
  IF i \notin DOMAIN st.pidx THEN st
  ELSE LET h == st.pidx[i] IN
    [st EXCEPT !.log = AppendFrame(@, Tombstone(i), i \notin st.fail),
               !.touched = @ \/ i \notin st.fail,
               !.sidx = UpdateCustomIndex(indexed, @, h, st.heap[h], FALSE),
               !.mem = Remove(@, h),
               !.heap = [@ EXCEPT ![h] = Free]]
RemoveOneNoDetach(st, i) ==
  IF i \notin DOMAIN st.pidx THEN st
  ELSE LET h == st.pidx[i] IN
    [st EXCEPT !.log = AppendFrame(@, Tombstone(i), i \notin st.fail),
               !.touched = @ \/ i \notin st.fail,
               !.sidx = UpdateCustomIndex(indexed, @, h, st.heap[h], FALSE),
               !.pidx = [j \in DOMAIN st.pidx \ {i} |-> st.pidx[j]],
               !.heap = [@ EXCEPT ![h] = Free]]
RemoveOne(st, i) ==
  IF i \notin DOMAIN st.pidx THEN st
  ELSE LET h == st.pidx[i] IN
    [st EXCEPT !.log = AppendFrame(@, Tombstone(i), i \notin st.fail),
               !.touched = @ \/ i \notin st.fail,
               !.sidx = UpdateCustomIndex(indexed, @, h, st.heap[h], FALSE),
               !.pidx = [j \in DOMAIN st.pidx \ {i} |-> st.pidx[j]],
               !.mem = Remove(@, h),
               !.heap = [@ EXCEPT ![h] = Free]]

\* Db::remove: false (no change) for an unknown collection or no target;
\* otherwise the loop over the targets, and true.
Delete(t, q) ==
  /\ pc[t] = "idle"
  /\ exists
  /\ DeleteIds(q) # <<>>
  /\ \E fail \in (IF FaultyIO THEN SUBSET Ids ELSE {{}}) :
       LET st == FoldLeft(RemoveOne,
                   [mem |-> mem, heap |-> heap, pidx |-> pidx, sidx |-> sidx,
                    log |-> dataLog, fail |-> fail, touched |-> FALSE],
                   DeleteIds(q))
       IN /\ mem' = st.mem /\ heap' = st.heap
          /\ pidx' = st.pidx /\ sidx' = st.sidx
          /\ dataLog' = st.log
          /\ files' = IF st.touched THEN files \cup {Coll} ELSE files
  /\ lastOp' = Op("delete", q, NoVal)
  /\ UNCHANGED <<exists, indexed, schema, idxLog, schemaLog, pc, upArg,
                 usedIds, restarts, ioFailReported>>

\* Db::set_schema: replace the registered schema and append the schema
\* document, as the client sent it, to _schemas.
SetSchema(t, s) ==
  /\ pc[t] = "idle"
  /\ schema' = s
  /\ \E ok \in WriteOutcomes :
       /\ schemaLog' = AppendFrame(schemaLog, s, ok)
       /\ files' \in AppendTouch("_schemas", ok)
       /\ ioFailReported' = (ioFailReported \/ ~ok)
  /\ UNCHANGED <<mem, heap, pidx, sidx, exists, indexed, dataLog, idxLog,
                 pc, upArg, usedIds, restarts, lastOp>>

\* Db::create_index: true at once if already registered; otherwise
\* register, backfill the existing array, and compact _indexes down to one
\* frame holding the whole registration list.
CreateIndex(t) ==
  /\ pc[t] = "idle"
  /\ ~indexed
  /\ indexed' = TRUE
  /\ sidx' = IF exists THEN Backfill(TRUE, sidx, mem, heap) ELSE sidx
  /\ \E ok \in WriteOutcomes :
       /\ idxLog' = CompactLog(idxLog, <<{IndexEntry}>>, ok)
       /\ files' = Touch("_indexes", ok)
       /\ ioFailReported' = (ioFailReported \/ ~ok)
  /\ UNCHANGED <<mem, heap, pidx, exists, schema, dataLog, schemaLog,
                 pc, upArg, usedIds, restarts, lastOp>>

\* Db::trigger_compaction: false for an unknown collection, else rewrite
\* the log with the array.
TriggerCompaction(t) ==
  /\ pc[t] = "idle"
  /\ exists
  /\ \E ok \in WriteOutcomes :
       /\ dataLog' = CompactCollection(mem, heap, ok)
       /\ files' = Touch(Coll, ok)
       /\ ioFailReported' = (ioFailReported \/ ~ok)
  /\ UNCHANGED <<memVars, idxLog, schemaLog, pc, upArg, usedIds, restarts, lastOp>>

-----------------------------------------------------------------------------
(* Recovery: Db::Db -> load_all, after a crash.                            *)

\* One frame of the data-phase replay into temp_map: a tombstone erases
\* the id if present, any other frame with an _id replaces the entry.
ApplyFrameNoTomb(m, fr) == (fr.id :> fr.f) @@ m
ApplyFrame(m, fr) ==
  IF fr.tomb THEN [i \in DOMAIN m \ {fr.id} |-> m[i]]
  ELSE (fr.id :> fr.f) @@ m

Replay(log) == FoldLeft(ApplyFrame, <<>>, log)

\* The schema phase: every _schemas frame whose own "collection" key names
\* Coll replaces the registration; frames without one are skipped.
ReplaySchema(log) ==
  LET tagged == SelectSeq(log, LAMBDA s : SchemaTag[s] = Coll)
  IN IF tagged = <<>> THEN NoSchema ELSE Last(tagged)

ReplayIndexed(log) == IndexEntry \in UNION ToSet(log)

\* Crash, then load_all over the files in directory order.  The data file's
\* indexes are rebuilt when its turn comes, with whatever indexed_fields_
\* holds then: the registration only if _indexes was listed before it.  The
\* array is built by iterating an unordered_map, so in any order; the
\* documents get fresh heap slots 1..n.  Auto-compaction follows when the
\* log has more than twice as many frames as live documents.
\* Engine::list_collections: the stems of the .aev files in the order the
\* directory iterator yields them.  load_all walks this list once, so the
\* _indexes registration reaches the data file only when listed before it.
IndexesListedFirst(order) ==
  \E a, b \in 1..Len(order) : a < b /\ order[a] = "_indexes" /\ order[b] = Coll

RecoverFrom(log, fs) ==
  LET R == Replay(log)
      n == Cardinality(DOMAIN R)
      ix == ReplayIndexed(idxLog)
  IN /\ restarts < MaxRestarts
     /\ n <= MaxHandles
     /\ \E order \in DirOrders, perm \in SetToSeqs(DOMAIN R), ok \in WriteOutcomes :
          LET idxFirst == IndexesListedFirst(order)
              m == [k \in 1..n |-> k]
              hp == [h \in Handles |->
                       IF h <= n THEN [id |-> perm[h], f |-> R[perm[h]]] ELSE Free]
          IN /\ mem' = m /\ heap' = hp
             /\ pidx' = RebuildPidx(m, hp)
             /\ sidx' = RebuildSidx(ix /\ idxFirst, m, hp)
             /\ dataLog' = IF Len(log) > 2 * n /\ n > AutoCompactMin
                           THEN CompactLog(log, FramesOf(m, hp), ok) ELSE log
     /\ files' = fs
     /\ exists' = (Coll \in fs)
     /\ indexed' = ix
     /\ schema' = ReplaySchema(schemaLog)
     /\ pc' = [t \in Threads |-> "idle"]
     /\ upArg' = [t \in Threads |-> NoUpsert]
     /\ restarts' = restarts + 1
     /\ UNCHANGED <<idxLog, schemaLog, usedIds, ioFailReported>>

\* The process dies between two requests.
Restart ==
  /\ RecoverFrom(dataLog, files)
  /\ lastOp' = Op("crash", EmptyQuery, NoVal)

\* The process dies inside Db::remove after the first k of the targets'
\* iterations (0 < k < number of targets): their tombstones are on disk,
\* the rest of the loop never runs, and load_all replays what is there.
CrashInDelete(t, q) ==
  /\ pc[t] = "idle"
  /\ exists
  /\ \E k \in 1..(Len(DeleteIds(q)) - 1), fail \in (IF FaultyIO THEN SUBSET Ids ELSE {{}}) :
       LET st == FoldLeft(RemoveOne,
                   [mem |-> mem, heap |-> heap, pidx |-> pidx, sidx |-> sidx,
                    log |-> dataLog, fail |-> fail, touched |-> FALSE],
                   SubSeq(DeleteIds(q), 1, k))
       IN RecoverFrom(st.log, IF st.touched THEN files \cup {Coll} ELSE files)
  /\ lastOp' = Op("crashdelete", q, NoVal)

-----------------------------------------------------------------------------
InsertInputs == [id: ClientIds \cup {NoId}, f: FVals]

Next ==
  \/ \E t \in Threads, d \in InsertInputs : Insert(t, d)
  \/ \E t \in Threads : TriggerCompaction(t)
  \/ \E t \in Threads, q \in Queries, v \in Vals : Update(t, q, v)
  \/ \E t \in Threads, q \in Queries, v \in Vals : UpsertCount(t, q, v)
  \/ \E t \in Threads : UpsertApply(t)
  \/ \E t \in Threads, q \in Queries : Delete(t, q)
  \/ \E t \in Threads, q \in Queries : CrashInDelete(t, q)
  \/ \E t \in Threads, s \in Schemas : SetSchema(t, s)
  \/ \E t \in Threads : CreateIndex(t)
  \/ Restart

Spec == Init /\ [][Next]_vars

-----------------------------------------------------------------------------
(* Properties.                                                             *)

\* Replay equivalence (spec 3, 8): the documents in memory are exactly
\* those a load_all of the data log would rebuild, and the index
\* registration is the one _indexes replays to.  Insert, delete, update,
\* compaction and recovery must all keep memory and disk in step.
ReplayEquivalence ==
  LET R == Replay(dataLog) IN
  /\ Len(mem) = Cardinality(DOMAIN R)
  /\ ToSet(MemDocs) = {[id |-> i, f |-> R[i]] : i \in DOMAIN R}
  /\ indexed = ReplayIndexed(idxLog)

\* Error reporting (spec 7): as long as no call has returned false for an
\* I/O failure, memory and disk agree.  Db::update ignores the result of
\* its compaction and Db::remove that of its tombstone appends.
NoSilentDivergence == ~ioFailReported => ReplayEquivalence

\* The schema registry survives a restart: _schemas replays to the schema
\* set_schema registered last (spec 4.5 Schema, 4.6 step 4).
SchemaReplayEquivalence == schema = ReplaySchema(schemaLog)

\* Primary-index consistency (spec 3, 8): id_indexes_ maps exactly the ids
\* of the live array, each to the one live document carrying it.
PrimaryIndexConsistent ==
  /\ DOMAIN pidx = {heap[h].id : h \in Live}
  /\ \A h \in Live : pidx[heap[h].id] = h
  /\ \A i \in DOMAIN pidx : pidx[i] \in Live

\* Secondary-index consistency (spec 8): with "f" registered, each bucket
\* holds every live document with that value exactly once, and nothing else.
SecondaryIndexConsistent ==
  indexed =>
    \A v \in Vals : ToBag(sidx[v]) = ToBag(SelectSeq(mem, LAMBDA h : heap[h].f = v))

\* Query tier equivalence (spec 8): for every simple query, the tier find
\* answers from returns the same documents as the full scan.
QueryTierEquivalence ==
  \A q \in Queries : ToBag(Find(q)) = ToBag(FullScan(q))

\* Upsert atomicity (spec 4.5 Upsert, 5): an upsert inserts only when no
\* document matches its query at the moment of the insert.
UpsertAtomic ==
  [][\A t \in Threads :
       (pc[t] = "counted" /\ pc'[t] = "idle" /\ restarts' = restarts
        /\ ~upArg[t].found) => Count(upArg[t].q) = 0]_vars

\* Refinement: the memory's documents behave as the abstract DocStore, each
\* step as the abstract operation of the request that caused it: Restart
\* changes nothing a client can see, a delete removes exactly the matches
\* of its query, and a crash inside a delete removes only matches of it.
MemDocFn == [i \in {heap[h].id : h \in Live} |->
               heap[CHOOSE h \in Live : heap[h].id = i].f]
Abs == INSTANCE DocStore WITH docs <- MemDocFn, last <- lastOp
DocStoreRefinement == Abs!Spec

=============================================================================
