SPECIFICATION Spec
CONSTANTS
  UserTypeNames = {"P", "Q", "U", "E", "E#A", "E#N"}
  None = None
  Failed = Failed
  Aborted = Aborted
  UserTypes <- MCUserTypes
  Half <- MCHalf
  Functions <- MCFunctions
  Prologue <- MCPrologue
  Statements <- MCStatements
  MaxStatements = 2
INVARIANT CompoundApplies
CHECK_DEADLOCK FALSE
