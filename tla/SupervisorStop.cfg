SPECIFICATION Spec
CONSTANTS
  r1 = r1
  c1 = c1
  v1 = v1
  None = None
  Reapers = {r1}
  Requests = {c1}
  Viewers = {}
  Kinds = {"start", "stop", "on-failure"}
  MaxInstances = 2
  MaxRestarts = 1
  MaxRequests = 3
  MaxViews = 0
  MaxFailures = 0
  MaxDeaths = 0
INVARIANTS StopIsFinal
CHECK_DEADLOCK FALSE
