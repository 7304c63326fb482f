CONSTANTS
  Base = 3
  IntMax = 30
  MAX_NUM_GROUPS = 5
  Asked <- HostsDef
  Ranges <- RangesDef
SPECIFICATION SpecText
INVARIANTS SlotsSuffice DigitsMeasured RoundTrip FewestGroups PaddedAsDocumented
