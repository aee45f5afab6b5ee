SPECIFICATION FairSpec
CONSTANTS
  n1 = n1
  n2 = n2
  v1 = v1
  v2 = v2
  Absent = Absent
  Node = {n1, n2}
  Vars = {v1}
  Op = {"apply", "rollback", "draft", "deleteDraft", "deleteScope", "deleteOuter"}
  Skewed = TRUE
  MaxRev = 2
  MaxStamp = 2
  MaxOps = 3
  MaxFaults = 1
INVARIANTS ActiveIsNewest ArrivalOrderIrrelevant SettledMeansAgreed
PROPERTIES IsRegister Convergence
