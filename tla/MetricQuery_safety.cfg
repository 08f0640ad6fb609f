SPECIFICATION Spec
CONSTANTS
  r1 = r1
  r2 = r2
  Requests <- TwoRequests
  FanOuts <- CatalogFanOuts
  MaxFanOut = 3
  Threshold = 2
  Timeout = 1
  HalfOpenRequests = 3
INVARIANTS TypeOK ProbeAccounting HalfOpenNeverWedged OuterHoldsASlot
PROPERTIES KeepsContract
