CONSTANTS
  key = key
  a = a
  b = b
  remote = remote
  token = token
  unknown = unknown
  secret = secret
  file = file
  untrusted = untrusted
  Key = key
  Remote = remote
  Token = token
  Unknown = unknown
  Secret = secret
  File = file
  Untrusted = untrusted
  Paths <- MCPaths
  Statements <- AbsorbedStatements
  Vars <- MCVars
  Targets <- MCTargets
  Labels <- MCLabels
  Programs <- Absorbed

SPECIFICATION Spec

INVARIANT LeakIsCritical
