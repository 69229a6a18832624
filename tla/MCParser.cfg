SPECIFICATION FairSpec
CONSTANTS
  Inputs <- MCInputs
INVARIANTS
  TypeOK
  BracketsMatch
  GroupedByPrecedence
PROPERTIES
  EndsOrStalls
CHECK_DEADLOCK FALSE
