SPECIFICATION LiveSpec
CONSTANTS
  Symbol <- MCSymbol
  Expression <- MCExpression
  Queries <- QueriesDef
  Texts <- TextsDef
  Vips <- VipsDef
  Match <- MCMatch
  BadRegex <- MCBadRegex
INVARIANTS OwnedOnce ResultLive ResultExact WarnedExactly VipsKept
PROPERTY EvaluationEnds
