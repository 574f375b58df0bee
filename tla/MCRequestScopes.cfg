SPECIFICATION Spec
CONSTANTS
  r1 = r1
  r2 = r2
  i1 = i1
  i2 = i2
  Request = {r1, r2}
  Input = {i1, i2}
  Text <- MCTwoTexts
  ErrorText = ErrorText
  Scope = {s1, s2}
  NoScope = NoScope
  MaxSequence = 1
  MaxStage = 1
  ScopeEntries = 1
INVARIANTS
  EmbeddingsLive
PROPERTIES
  ScopeReleased
CHECK_DEADLOCK FALSE
