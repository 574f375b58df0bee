SPECIFICATION Spec
SYMMETRY MCSymmetry
CONSTANTS
  Trainer = {t1, t2}
  Switcher = {s1}
  Pruner = {p1, p2}
  Newest = 3
  Present = {1, 2}
  Target <- MCTarget
  Keep = 1
INVARIANTS
  TypeOK
  ReleasesWhole
  PointerNeverDangles
  StagingGone
PROPERTIES
  NewestKept
  SweptClean
CHECK_DEADLOCK FALSE
