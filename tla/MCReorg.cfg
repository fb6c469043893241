SPECIFICATION FairSpec
CONSTANTS
  MaxBlockSpan = 1
  MaxHeight = 3
  MaxForks = 2
  MaxLives = 2
INVARIANTS
  TypeOK
  LossIsExplained
  OneBlockPerHeight
PROPERTIES
  RestartHeals
