SPECIFICATION FairSpec
CONSTANTS
  c1 = c1
  c2 = c2
  c3 = c3
  Calls <- ThreeCalls
  Threshold = 2
  Timeout = 2
  HalfOpenRequests = 2
INVARIANTS TypeOK CountersMatchState TrialAccounting HalfOpenNeverWedged TrialsBounded
PROPERTIES OpensOnlyAfterStreak KeepsContract Recovers
