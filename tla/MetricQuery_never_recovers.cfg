SPECIFICATION FairSpec
CONSTANTS
  r1 = r1
  r2 = r2
  Requests <- OneRequest
  FanOuts <- SingleVerb
  MaxFanOut = 1
  Threshold = 2
  Timeout = 1
  HalfOpenRequests = 1
PROPERTIES Recovers
