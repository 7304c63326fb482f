CONSTANTS
  Cluster = cluster1
  Files <- FilesDef
  Unreadable = Unreadable
  CLUSTER = CLUSTER
  ALL = ALL
  KEYS = KEYS
  UP = UP
  DOWN = DOWN
  Chopped = Chopped
  Null = Null
  FOO = FOO
  node = node
  other = other
SPECIFICATION Spec
INVARIANTS KeyNodesDocumented
