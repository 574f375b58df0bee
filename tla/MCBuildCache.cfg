SPECIFICATION FairSpec
CONSTANTS
  f1 = f1
  f2 = f2
  f3 = f3
  d1 = d1
  d2 = d2
  Functions = {f1, f2, f3}
  Domains = {d1, d2}
  DomainOf <- MCDomainOf
  Bundles <- MCBundles
  Recipes = {0}
  Depths = {None, 2}
  Attempts = 2
  MaxRuns = 3
  MaxEdits = 2
  None = None
CHECK_DEADLOCK FALSE
INVARIANTS TypeOK RestoreNeverRefused HeadsCurrent HeadsVerified OnlyChangedTrain
PROPERTY RunEnds
