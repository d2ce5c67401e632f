\* A panic of the parser, with and without a budget.
CONSTANTS
  MaxWork <- MCMaxWork
  Timeouts <- MCTimeouts

SPECIFICATION Spec
CHECK_DEADLOCK FALSE

INVARIANT NeverPanics
