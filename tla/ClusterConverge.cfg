SPECIFICATION FairSpec
CONSTANTS
  n1 = n1
  n2 = n2
  a = a
  b = b
  i1 = i1
  Absent = Absent
  Node = {n1, n2}
  Segment = {a, b, i1}
  Name <- NamesA
  Id <- Ids
  Op = {"putInstance", "block", "deleteInstance", "deleteService"}
  Registers <- RegistersA
  Sends = {""}
  Skewed = TRUE
  MaxStamp = 2
  MaxOps = 2
  MaxFaults = 0
  SubCap = 1
PROPERTY Convergence
