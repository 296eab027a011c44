SPECIFICATION Spec
CONSTANTS
  p1 = p1
  p2 = p2
  s1 = s1
  s2 = s2
  a = a
  b = b
  steer = steer
  halt = halt
  resume = resume
  None = None
  Procs = {p1}
  Slots = {s1, s2}
  Tasks = {a}
  Source <- Alone
  Controls = {steer}
  Action <- ActionOf
  Target <- OfA
  Asking = {}
  Outcomes = {"completed"}
  MaxHistory = 2
SYMMETRY Symmetry
CHECK_DEADLOCK FALSE
INVARIANT PredecessorFenced
