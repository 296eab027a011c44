SPECIFICATION Spec
CONSTANTS
  o1 = o1
  o2 = o2
  host = host
  other = other
  Procs = {host, other}
  Host = host
  Ops = {o1, o2}
  MaxInstances = 2
  MaxTimeouts = 1
INVARIANTS CleanedIsQuiet RegisteredIsKnown
PROPERTIES ChildrenEnd
CHECK_DEADLOCK FALSE
