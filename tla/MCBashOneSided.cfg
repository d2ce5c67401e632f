CONSTANTS
  empty = empty
  a = a
  b = b
  secret = secret
  Empty = empty
  Targets <- MCTargets
  Labels <- MCLabels
  Vars <- MCVars
  Programs <- OneSided
  MaxNesting = 5
  StepBudget = 30
  MaxFuncDepth = 2
  MaxAliasDepth = 8
  Names <- MCNames
  Tools <- MCTools

SPECIFICATION Spec

INVARIANT NoSilentMiss
