CONSTANTS
  Line <- LineDef
  Changing <- ChangingDef
  Gone = Gone
  NoEntry = NoEntry
  MaxTime = 3
  Cluster = cluster1
  Unreadable = Unreadable
  CLUSTER = CLUSTER
  ALL = ALL
  KEYS = KEYS
  UP = UP
  DOWN = DOWN
  Chopped = Chopped
  Null = Null
  FOO = FOO
  node = node
  other = other
  Section = {ALL}
  Node = {node}
SPECIFICATION BackendSpec
INVARIANTS SectionsExact EntriesKept AnswerCurrent SurveyTrue
