SPECIFICATION FairStreamSpec
CONSTANTS
  RingCapacity = 2
  EnsembleRateLimit = 1
  ChatRateLimit = 1
  MaxFailures = 1
  MaxMessages = 2
  MaxLives = 1
  MaxUpsets = 1
INVARIANTS EveryMessageAccounted
PROPERTIES NothingSkipped DropsAnnounced DestroyedIsTold
