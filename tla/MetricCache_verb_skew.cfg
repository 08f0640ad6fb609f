SPECIFICATION Spec
CONSTANTS
  r1 = r1
  r2 = r2
  s1 = s1
  s2 = s2
  s3 = s3
  NoUntil = NoUntil
  Requests <- OneRequest
  Statements <- TwoStatements
  Verbs <- TwoVerbs
  VerbOf <- SecondDiffers
  MaxStatements = 2
  TicksPerMs = 2
  Advances <- Distinct
  Until = NoUntil
  Degradation = "cache"
  ProviderThrows = FALSE
  MaxInvalidations = 1
INVARIANTS CursorComplete
