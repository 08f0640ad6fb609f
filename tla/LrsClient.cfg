SPECIFICATION FairSpec
CONSTANTS
  MaxRetries = 3
  MaxStatements = 5
  PageSize = 2
  MaxStored = 6
INVARIANTS TypeOK GivesUpOnlyWhenExhausted
PROPERTIES IsSnapshot QueryEnds
