SPECIFICATION FairSpec
CONSTANTS
  c1 = c1
  c2 = c2
  Client = {c1, c2}
  MaxEvents = 3
  SubCap = 1
  SendCap = 1
INVARIANTS TypeOK HubNeverPanics NoSilentGap
PROPERTY NoLeak
CHECK_DEADLOCK FALSE
