CONSTANTS
  Names <- MCNames
  Cmdlets <- MCCmdlets
  Functions = {}
  BuiltIn <- MCBuiltIn
  BuiltInReadOnly = {}
  NoAlias = NoAlias
  Opaque = Opaque
  NameOperands <- MCNameOperands
  ValueOperands <- MCValueOperands
  OptionOperands <- MCOptionOperands

SPECIFICATION Spec
CONSTRAINT Claimed

INVARIANT TypeOK
INVARIANT TablesAgree
INVARIANT CallsAreFaithful
INVARIANT NoNeedlessDoubt
