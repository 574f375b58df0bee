SPECIFICATION Spec
CONSTANTS
  Trainer = {t1}
  Switcher = {s1}
  Pruner = {p1}
  Newest = 3
  Present = {1, 2}
  Target <- MCTarget
  Keep = 1
INVARIANTS
  PruneSparesCurrent
CHECK_DEADLOCK FALSE
