CONSTANTS
  Programs <- MCPrograms
  Prelude <- MCPrelude
  Finish <- MCFinish
  Functions <- MCFunctions
  Api <- MCApi
  Modules <- MCModules
  SecretFile <- MCSecret
  WorkBudget = 120
  Fuel = 45
SPECIFICATION Spec
INVARIANTS
  TypeOK
  JsNoSilentMiss
  OutcomeForeseen
