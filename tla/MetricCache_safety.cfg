SPECIFICATION Spec
CONSTANTS
  r1 = r1
  r2 = r2
  s1 = s1
  s2 = s2
  s3 = s3
  NoUntil = NoUntil
  Requests <- TwoRequests
  Statements <- ThreeStatements
  Verbs <- OneVerb
  VerbOf <- AllFirst
  MaxStatements = 2
  TicksPerMs = 2
  Advances <- OneOrTwo
  Until = 3
  Degradation = "cache"
  ProviderThrows = TRUE
  MaxInvalidations = 1
SYMMETRY FullSymmetry
INVARIANTS TypeOK CursorComplete FreshAnswersComplete RangeReachedIsComplete
PROPERTIES InvalidationUndoneOnlyByHolders
