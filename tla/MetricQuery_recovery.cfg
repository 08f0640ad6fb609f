SPECIFICATION FairSpec
CONSTANTS
  r1 = r1
  r2 = r2
  Requests <- TwoRequests
  FanOuts <- SingleVerb
  MaxFanOut = 1
  Threshold = 3
  Timeout = 1
  HalfOpenRequests = 2
PROPERTIES Recovers QueriesAnswered OpensOnlyOnLrsFailures
