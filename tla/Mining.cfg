\* Three requests at most, two blocks of the node's own or of peers, two failed
\* saves; Affordable says which of them come together.
SPECIFICATION MCMiningSpec
CONSTANTS
  MaxBlocks = 2
  MaxFailures = 2
  MaxRequests = 3
INVARIANTS MiningTypeOK OneMiningThread CompetesOnlyInAWindow UtxoFollowsChain
PROPERTIES TakenHeightIsLeft
CHECK_DEADLOCK FALSE
