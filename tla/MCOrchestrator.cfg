CONSTANTS
  MaxRetries = 1
  HumanOn = {"schema"}
  ScoreThreshold = 70
  DivergenceThreshold = 15
  Routes <- MCRoutes
  ChangeSets <- MCChangeSets
  Reports <- MCReports
  Reviews <- MCReviews
  Ballots <- MCBallots
  Unmeasured = "below"
SPECIFICATION FairSpec
CHECK_DEADLOCK FALSE
INVARIANTS
  TypeOK
  ConsensusBinds
  ReturnsWhatItAnnounced
PROPERTIES
  CleanCommit
  GuardedPathsHeldBack
  ImplementsChainRun
  ChainEnds
