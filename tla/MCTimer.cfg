SPECIFICATION FairSpec
CONSTANTS
  Half = 8
  Reloads = {0, 1, 3, 7, 8, 9, 12, 15}
  MaxGap = 7
INVARIANTS
  Exact
PROPERTIES
  EveryTimeoutExpires
