SPECIFICATION Spec
CONSTANTS
  A = A
  B = B
  Root = {root}
  Release = {A, B}
  None = None
  MaxLoads = 3
  MaxCloses = 2
  MaxChanges = 2
INVARIANTS
  ClosedStaysClosed
CHECK_DEADLOCK FALSE
