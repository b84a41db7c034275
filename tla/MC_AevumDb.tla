----------------------------- MODULE MC_AevumDb -----------------------------
(***************************************************************************)
(* Model-checking instance of AevumDb: small sets of ids, values, schemas  *)
(* and queries, and the bounds on the logs.                                *)
(***************************************************************************)
EXTENDS AevumDb

\* Single-key queries and the empty query, as the request layer sends them.
MCSingleKeyQueries ==
  {[id |-> NoKey, f |-> NoKey]}
  \cup {[id |-> i, f |-> NoKey] : i \in Ids}
  \cup {[id |-> NoKey, f |-> v] : v \in Vals}

\* Queries on the field only: an upsert that races another writer of the
\* same value, with no coincidence between a query _id and a generated one.
MCFieldQueries == {[id |-> NoKey, f |-> v] : v \in Vals}

\* s1 embeds no "collection" key, s2 names the collection it is for.
MCSchemaTag == [s \in Schemas |-> IF s = "s1" THEN NoColl ELSE Coll]
\* s1 accepts only v1; s2 accepts every value.
MCAccepts == {<<"s1", "v1">>} \cup {<<"s2", v>> : v \in Vals}

MCIndexesFirst == {<<"_indexes", "_schemas", Coll>>}
MCAnyDirOrder == SetToSeqs(Files)

\* Bounds of the state space: log lengths, live documents (kept below the
\* heap size so an insert always finds a slot) and generated ids (kept
\* below Ids so a fresh UUID always exists).
MaxLog == 4
MaxLive == 2
StateBound ==
  /\ Len(dataLog) <= MaxLog /\ Len(schemaLog) <= 1
  /\ Len(mem) <= MaxLive /\ Cardinality(usedIds) < Cardinality(Ids)

\* Generated ids are interchangeable.
IdSymmetry == Permutations(Ids)

=============================================================================
