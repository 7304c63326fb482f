CONSTANTS
  Cluster <- ClusterDef
  Section <- SectionDef
  Name <- NameDef
  Like <- LikeDef
  LikeName <- LikeNameDef
  Self = Self
  Databases <- DatabasesDef
  Queries <- QueriesDef
  Expiry = 1
  None = None
  MaxTime = 2
  MaxChanges = 1
  MaxFailing = 1
  MaxDepth = 6
SPECIFICATION Spec
INVARIANTS LookupFresh AgreesWithTables DeepOnlyInCircles
CHECK_DEADLOCK FALSE
