SPECIFICATION Spec
CONSTANTS
  c1 = c1
  c2 = c2
  Tokens <- MCTokens
  Escape <- MCEscape
  Clients <- TwoClients
  Inputs <- MCInputs
  Times <- MCTimes
  InstancePattern <- MCInstancePattern
  PatternTokens <- MCPatternTokens
  Iris <- MCIris
  Endpoints <- MCEndpoints
  LrsUrl <- MCUrl
  AuthEnabled = TRUE
  ThrottlerStorage = "redis"
  Degradation = "cache"
SYMMETRY Symmetry
INVARIANTS TypeOK AnswersOwnRequest ValidatedBeforeAnswer KeysNameTheirEntries
