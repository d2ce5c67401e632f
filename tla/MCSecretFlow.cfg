CONSTANTS
  key = key
  a = a
  b = b
  remote = remote
  token = token
  unknown = unknown
  secret = secret
  file = file
  untrusted = untrusted
  Key = key
  Remote = remote
  Token = token
  Unknown = unknown
  Secret = secret
  File = file
  Untrusted = untrusted
  Paths <- MCPaths
  Statements <- MCStatements
  Vars <- MCVars
  Targets <- MCTargets
  Labels <- MCLabels
  Programs <- MCPrograms

SPECIFICATION Spec

INVARIANT TypeOK
INVARIANT LeakIsCritical
INVARIANT NothingFabricated
INVARIANT NoSpread
INVARIANT MergeKeepsFindings
PROPERTY LabelsOnlyGrow
