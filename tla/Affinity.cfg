SPECIFICATION Spec
CONSTANTS
  i1 = i1
  i2 = i2
  q1 = q1
  Absent = Absent
  Inst = {i1, i2}
  Request = {q1}
  TTL = 4
  MaxTime = 12
SYMMETRY Symmetry
PROPERTY StickyThreeQuarters
