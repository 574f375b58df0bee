SPECIFICATION Spec
CONSTANTS
  A = A
  B = B
  Root = {root}
  Release = {A, B}
  None = None
  MaxLoads = 3
  MaxCloses = 2
  MaxChanges = 2
INVARIANTS
  TypeOK
  OnlyTheActiveRuns
  NoStrayWatcher
PROPERTIES
  LastLoadWins
  ChangeIsLoaded
  HandleCloseEnds
CHECK_DEADLOCK FALSE
