SPECIFICATION FairSpec
CONSTANTS
  r1 = r1
  r2 = r2
  NoOffer = NoOffer
  NoRequest = NoRequest
  Requests <- TwoRequests
  Offers <- AllOffers
  MaxConcurrent = 1
  Attempts = 2
  MaxGeneration = 2
CHECK_DEADLOCK FALSE
INVARIANTS WorkBounded ExecutedOnce AnsweredWasExecuted
PROPERTIES RetiredIsHarmless KeepsPolling UploadEnds
