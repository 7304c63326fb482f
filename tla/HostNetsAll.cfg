CONSTANTS
  Width = 2
  Domain <- MCDomain
  DnsFiles <- DnsFilesDef
  ListFiles <- ListFilesDef
  Queries <- QueriesDef
  Unreadable = Unreadable
  TooLong = TooLong
  Skipped = Skipped
  Unended = Unended
  BadNet = BadNet
  BadBlock = BadBlock
SPECIFICATION Spec
INVARIANTS TablesAgree AnswerExact CrashesOnly CurrentWhenCleared
CHECK_DEADLOCK FALSE
