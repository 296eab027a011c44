SPECIFICATION Spec
CONSTANTS
  h1 = h1
  h2 = h2
  c1 = c1
  c2 = c2
  None = None
  Hosts <- TwoHosts
  Calls <- TwoCalls
  MaxHosts = 1
  Lease = 1
  MaxGeneration = 2
  MaxTime = 2
  MaxOrphans = 1
SYMMETRY Symmetry
INVARIANTS AckedIsListed NeverAhead GoneWithinLease
