SPECIFICATION Spec
CONSTANTS
  Targets <- MCTargets
  Labels <- MCLabels
  Programs <- MCPrograms
  Extensions <- MCExtensions
  Credentials <- MCCredentials
  Shares <- MCShares
  Ambiguous <- MCAmbiguous
  Noise <- MCNoise
  Widths <- MCWidths
  Outers <- MCOuters
  Present <- MCPresent
  Policies <- MCPolicies
  StagingNames <- MCStagingNames
INVARIANTS
  TypeOK
  LeakIsDenied
  DecisionNeverSoftens
  RetryKeepsKey
  CanonicalIsDurable
  EveryDeedIsExplained
