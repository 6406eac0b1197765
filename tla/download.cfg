CONSTANTS
  NPieces = 4
  Files = {"ep1", "ep2", "nfo"}
  Span <- Episodes
  Peers = {p, q, r}
  Offers <- SomeOffers
  Reliable = {r}
  MaxConnections = 2
  MaxCandidates = 2
  MemoryPieces = 2
  EndgamePieces = 3
  EndgameCopies = 2
  TrackerRounds = 2
  StorageFails = TRUE
SPECIFICATION FairSpec
CHECK_DEADLOCK FALSE
INVARIANTS
  TypeOK
  ClaimsAccounted
  DuplicateOnlyAtEnd
  CompleteIsDelivered
  ScanHidesNothing
  ExhaustedMeansMissing
PROPERTIES
  Delivers
  DownloadEnds
  ReliablePeerSuffices
