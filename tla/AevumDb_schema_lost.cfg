\* Schemas are registered with set_schema and recovered from _schemas.
CONSTANTS
  Threads = {t1}
  Ids = {i1, i2, i3}
  ClientIds = {}
  Vals = {"v1", "v2"}
  Schemas = {"s1", "s2"}
  SchemaTag <- MCSchemaTag
  Accepts <- MCAccepts
  Queries <- MCSingleKeyQueries
  MaxHandles = 3
  DirOrders <- MCIndexesFirst
  FaultyIO = FALSE
  AutoCompactMin = 0
  MaxRestarts = 1
  Coll = "items"
  NoColl = NoColl
  NoVal = NoVal
  NoId = NoId
  NoSchema = NoSchema
  NoKey = NoKey
  Free = Free
SPECIFICATION Spec
CONSTRAINT StateBound
INVARIANT SchemaReplayEquivalence
