SPECIFICATION Spec
CONSTANTS
  None = None
  Names <- MCNames
  BuiltinTypes <- MCBuiltinTypes
  TypeNames <- MCTypeNames
  FnNodes <- MCFnNodes
  ExternNodes <- MCExternNodes
  TypeNodes <- MCTypeNodes
  SimpleNodes <- MCSimpleNodes
  CondNodes <- MCCondNodes
  ArrowParams <- MCArrowParams
  ForNodes <- MCForNodes
  SwitchNodes <- MCSwitchNodes
  CaseNodes <- MCCaseNodes
  RuleSets <- MCStructured
  MaxNodes = 4
  MaxDepth = 6
INVARIANTS
  EveryBlockTerminated
CHECK_DEADLOCK FALSE
