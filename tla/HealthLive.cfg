SPECIFICATION HealthFairSpec
CONSTANTS
  i1 = i1
  i2 = i2
  Absent = Absent
  Inst = {i1}
  Mode = {"heartbeat", "probe", "none"}
  Status = {"up", "down", "draining"}
  Sends = {"", "draining"}
  OnDemand = TRUE
  TTL = 2
  Lives = {0, 2}
  Interval = 2
INVARIANT DownIsDeserved
PROPERTIES DeadGoesDown AliveComesBack ProbedComesUp
