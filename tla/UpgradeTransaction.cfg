SPECIFICATION FairSpec
CONSTANTS
  a1 = a1
  a2 = a2
  v1 = v1
  v2 = v2
  Local = Local
  NoOne = NoOne
  Applies <- TwoApplies
  Targets <- OneTarget
  MaxTransactions = 2
INVARIANTS OneActive OneDestructive CommitAuthorized RecordIsCopy ActiveIsNewest
PROPERTIES AdmissionIsReleased CoordinatorEnds
