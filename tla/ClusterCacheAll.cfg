CONSTANTS
  gone = gone
  malformed = malformed
  bad = bad
  Gone = gone
  Malformed = malformed
  BadText = bad
  Cluster <- ClusterDef
  BodiesOf <- BodiesDef
  Section <- SectionsDef
  Queries <- QueriesDef
  FirstFiles <- FilesDef
  Changing = {"web"}
  Time = {1, 2}
  Depth = 3
  MaxChanges = 2
SPECIFICATION Spec
INVARIANTS CacheCoherent QueryExact WarnSwitch
