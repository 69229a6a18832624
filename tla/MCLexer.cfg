SPECIFICATION Spec
CONSTANTS
  Alphabets <- MCAlphabets
  Keywords <- MCKeywords
INVARIANTS
  TypeOK
  TokensTile
  LinesRight
  LongestMatch
CHECK_DEADLOCK FALSE
