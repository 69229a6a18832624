SPECIFICATION Spec
CONSTANTS
  None = None
  Failed = Failed
  Aborted = Aborted
  UB = UB
  Names <- MCNames
  UserTypeNames <- MCUserTypes
  StructNodes <- MCStructNodes
  EnumNodes <- MCEnumNodes
  FnNodes <- MCFnNodes
  ExternNodes <- MCExternNodes
  SimpleNodes <- MCSimpleNodes
  CondExprs <- MCCondExprs
  ArrowParams <- MCArrowParams
  ForNodes <- MCForNodes
  SwitchExprs <- MCSwitchExprs
  CaseNodes <- MCCaseNodes
  Hygienic = FALSE
  MaxNodes = 6
  MaxDepth = 6
PROPERTIES
  AgreesOrReports
CHECK_DEADLOCK FALSE
