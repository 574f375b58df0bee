SPECIFICATION FairSpec
CONSTANTS
  Modes <- MCModes
  Outs <- MCOuts
  Threshold = 2
  Cases = 2
  Rounds = 1
  Constraints = 1
  Candidates = 2
  Wanted = 1
  Attempts = 2
  Prompt = 1
  Default = 1
  Direct = 2
  Cap = 9
  MaxBad = 2
  MaxFaults = 1
  None = None
INVARIANTS TypeOK PaidOnce CapHolds SpendCharged
PROPERTY EventuallyDone
