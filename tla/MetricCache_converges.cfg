SPECIFICATION FairSpec
CONSTANTS
  r1 = r1
  r2 = r2
  s1 = s1
  s2 = s2
  s3 = s3
  NoUntil = NoUntil
  Requests <- TwoRequests
  Statements <- ThreeStatements
  Verbs <- OneVerb
  VerbOf <- AllFirst
  MaxStatements = 2
  TicksPerMs = 2
  Advances <- Distinct
  Until = NoUntil
  Degradation = "cache"
  ProviderThrows = FALSE
  MaxInvalidations = 0
PROPERTIES Converges RequestsAnswered
ACTION_CONSTRAINT InOrder
