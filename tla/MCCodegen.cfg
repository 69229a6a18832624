SPECIFICATION Spec
CONSTANTS
  None = None
  Names <- MCNames
  BuiltinTypes <- MCBuiltinTypes
  TypeNames <- MCTypeNames
  FnNodes <- MCFnNodes
  ExternNodes <- MCExternNodes
  TypeNodes <- MCTypeNodes
  SimpleNodes <- MCSimpleNodes
  CondNodes <- MCCondNodes
  ArrowParams <- MCArrowParams
  ForNodes <- MCForNodes
  SwitchNodes <- MCSwitchNodes
  CaseNodes <- MCCaseNodes
  RuleSets <- MCRuleSets
  MaxNodes = 6
  MaxDepth = 6
INVARIANTS
  TypeOK
  AttachedOnce
  OnlyInsertPointOpen
  OnlyReturnsEndEarly
PROPERTIES
  HandlersRestore
  StatementsAreSingleExit
  CodeAfterIsReached
CHECK_DEADLOCK FALSE
