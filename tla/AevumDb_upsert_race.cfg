\* Two threads upserting on the field: the count and the write of Db::upsert are
\* separate critical sections.
CONSTANTS
  Threads = {t1, t2}
  Ids = {i1, i2, i3}
  ClientIds = {}
  Vals = {"v1", "v2"}
  Schemas = {"s1", "s2"}
  SchemaTag <- MCSchemaTag
  Accepts <- MCAccepts
  Queries <- MCFieldQueries
  MaxHandles = 3
  DirOrders <- MCIndexesFirst
  FaultyIO = FALSE
  AutoCompactMin = 0
  MaxRestarts = 1
  Coll = "items"
  NoColl = NoColl
  NoVal = NoVal
  NoId = NoId
  NoSchema = NoSchema
  NoKey = NoKey
  Free = Free
SPECIFICATION Spec
CONSTRAINT StateBound
PROPERTY UpsertAtomic
