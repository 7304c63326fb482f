SPECIFICATION Spec
CONSTANTS
  Symbol <- MCSymbol
  Expression <- VipExpressionDef
  Queries <- VipQueries
  Texts <- TextsDef
  Vips <- VipsDef
  Match <- MCMatch
  BadRegex <- MCBadRegex
INVARIANT VipsDocumented
