SPECIFICATION Spec
CONSTANTS
  r1 = r1
  r2 = r2
  i1 = i1
  i2 = i2
  Request = {r1, r2}
  Input = {i1}
  Text <- MCOneText
  ErrorText = ErrorText
  Scope = {s1}
  NoScope = NoScope
  MaxSequence = 3
  MaxStage = 2
  ScopeEntries = 1
PROPERTIES
  SettledScopeDropped
CHECK_DEADLOCK FALSE
