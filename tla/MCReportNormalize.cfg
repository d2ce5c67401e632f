\* Report.Normalize over every batch of at most three effects of a pool of nine.
CONSTANTS
  a = a
  b = b
  secret = secret
  Targets <- MCTargets
  Labels <- MCLabels
  Batches <- MCBatches
  KeyRank <- MCKeyRank

SPECIFICATION Spec
CHECK_DEADLOCK FALSE

INVARIANT TypeOK
INVARIANT NothingLost
INVARIANT NothingInvented
INVARIANT NormalFormIsStable
INVARIANT TracesFollowEffects
