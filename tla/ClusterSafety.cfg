SPECIFICATION Spec
CONSTANTS
  n1 = n1
  n2 = n2
  a = a
  b = b
  i1 = i1
  Absent = Absent
  Node = {n1, n2}
  Segment = {a, b, i1}
  Name <- NamesAB
  Id <- Ids
  Op = {"putService", "putInstance", "heartbeat", "setStatus", "block",
        "unblock", "deleteInstance", "deleteService", "rename"}
  Registers <- RegistersA
  Sends = {""}
  Skewed = FALSE
  MaxStamp = 2
  MaxOps = 2
  MaxFaults = 1
  SubCap = 1
SYMMETRY Symmetry
INVARIANTS TypeOK NoEcho SameStampSameRecord SettledMeansAgreed
