SPECIFICATION Spec
CONSTANTS
  f1 = f1
  f2 = f2
  f3 = f3
  d1 = d1
  d2 = d2
  Functions = {f1, f2, f3}
  Domains = {d1}
  DomainOf <- MCOneDomain
  Bundles <- MCBundles
  Recipes = {0}
  Depths = {None}
  Attempts = 1
  MaxRuns = 3
  MaxEdits = 2
  None = None
CHECK_DEADLOCK FALSE
INVARIANT ReusedReleaseServes
