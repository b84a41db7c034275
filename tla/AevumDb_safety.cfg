\* Memory/disk/index consistency, and refinement of the abstract DocStore
\* by the controller with recovery included: reliable I/O, fresh ids and a
\* directory order that lists _indexes first.
CONSTANTS
  Threads = {t1}
  Ids = {i1, i2, i3}
  ClientIds = {}
  Vals = {"v1", "v2"}
  Schemas = {"s1", "s2"}
  SchemaTag <- MCSchemaTag
  Accepts <- MCAccepts
  Queries <- MCSingleKeyQueries
  MaxHandles = 3
  DirOrders <- MCIndexesFirst
  FaultyIO = FALSE
  AutoCompactMin = 0
  MaxRestarts = 1
  Coll = "items"
  NoColl = NoColl
  NoVal = NoVal
  NoId = NoId
  NoSchema = NoSchema
  NoKey = NoKey
  Free = Free
SPECIFICATION Spec
CONSTRAINT StateBound
INVARIANTS TypeOK ReplayEquivalence PrimaryIndexConsistent SecondaryIndexConsistent QueryTierEquivalence
PROPERTY DocStoreRefinement
