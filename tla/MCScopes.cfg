SPECIFICATION Spec
CONSTANTS
  None = None
  UB = UB
  Names = {x}
  TypeNames = {T}
  Values = {v1, v2}
  Returns = {r1}
  Builtins = {}
  Reserve = 3
  MaxScopes = 4
INVARIANTS
  TypeOK
  ChainIsPushOrder
  NoDanglingWithinReserve
PROPERTIES
  FirstDeclarationWins
  ClosedScopesFrozen
  ImplementsLexicalEnv
CHECK_DEADLOCK FALSE
