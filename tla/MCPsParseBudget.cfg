\* One call of ParseTimeout, with and without a budget, over every kind of source.
CONSTANTS
  MaxWork <- MCMaxWork
  Timeouts <- MCTimeouts

SPECIFICATION SpecFair
CHECK_DEADLOCK FALSE

INVARIANT TypeOK
INVARIANT SourceDecidesOrBudget
INVARIANT OnlyAbandonedIsCancelled
PROPERTY ImplementsRequest
PROPERTY ParseEnds
