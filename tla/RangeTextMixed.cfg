CONSTANTS
  Base = 3
  IntMax = 30
  MAX_NUM_GROUPS = 5
  Asked <- MixedDef
  Ranges <- RangesDef
SPECIFICATION SpecText
INVARIANTS RoundTrip
