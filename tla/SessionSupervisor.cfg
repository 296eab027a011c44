SPECIFICATION Spec
CONSTANTS
  r1 = r1
  c1 = c1
  v1 = v1
  None = None
  Reapers = {r1}
  Requests = {c1}
  Viewers = {v1}
  Kinds = {"start", "stop", "restart", "never", "on-failure"}
  MaxInstances = 3
  MaxRestarts = 1
  MaxRequests = 2
  MaxViews = 2
  MaxFailures = 1
  MaxDeaths = 1
INVARIANTS  RestartFollowsCrash
PROPERTIES OnlyLiveRuntimesBlock FinishedIsReaped
CHECK_DEADLOCK FALSE
