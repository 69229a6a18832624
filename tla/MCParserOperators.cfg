SPECIFICATION Spec
CONSTANTS
  Inputs <- MCExpressions
INVARIANTS
  OperatorsKept
CHECK_DEADLOCK FALSE
