SPECIFICATION Spec
CONSTANTS
  a = a
  b = b
  c = c
  i = i
  Segment = {a, b, c, i}
  Name <- Names
  Id <- Ids
  Absent = Absent
  Sends = {"", "down"}
  MaxTime = 1
  MaxStamped = 1
  MaxStored = 2
INVARIANTS TypeOK NoOrphans
PROPERTIES RenameMovesItsInstances UnblockOnlyByOperator
