SPECIFICATION Spec
CONSTANTS
  None = None
  Failed = Failed
  Aborted = Aborted
  UB = UB
  Names <- MCNames
  UserTypeNames <- MCUserTypes
  StructNodes <- MCStructNodes
  EnumNodes <- MCEnumNodes
  FnNodes <- MCFnNodes
  ExternNodes <- MCExternNodes
  SimpleNodes <- MCSimpleNodes
  CondExprs <- MCCondExprs
  ArrowParams <- MCArrowParams
  ForNodes <- MCForNodes
  SwitchExprs <- MCSwitchExprs
  CaseNodes <- MCCaseNodes
  MaxNodes = 6
  MaxDepth = 6
INVARIANTS
  NeverAborts
CHECK_DEADLOCK FALSE
