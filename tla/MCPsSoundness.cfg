CONSTANTS
  Programs <- MCPrograms
  Prelude <- MCPrelude
  Finish <- MCFinish
  Functions <- MCFunctions
  Hosts <- MCHosts
  Letters <- MCLetters
  Shares <- MCShares
  Ambiguous <- MCAmbiguous
  Providers <- MCProviders
  Secrets = {"id_rsa"}
  Tokens = {"TOKEN"}
  Interpreters = {"cmd"}
  ScriptFiles = {"run.ps1"}
  MaxRangeIterations = 5
  Outers <- MCOuters
  LowerBudget = 60
  Windows = FALSE
SPECIFICATION Spec
INVARIANTS
  TypeOK
  PsNoSilentMiss
  KnowledgeIsTrue
  LeakIsLabelled
  CradleIsThePipe
  TargetsAreReal
