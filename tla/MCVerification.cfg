SPECIFICATION Spec
CONSTANTS
  x = x
  y = y
  Labels = {x, y}
  Numbers = {0, 1}
  Strings <- MCStrings
  MaxItems = 1
  Declarations <- MCDeclarations
  Followed <- MCFollowed
  InputSpace <- MCSpace
  Edits <- MCEdits
  ChangedPaths <- InputChanges
  Canonical <- MCCanonical
  SpelledTwice <- NumberIn
  PredicateCompiles <- Compiles
  PredicateValue <- Verdict
  Total = 3
  PairRatio = 50
  HoldOutRatio = 40
  Attempts = 2
  Tolerance = 20
  Margin = 2
  Sample = 1
  ChangeRate = 40
  AttestedChanges = 0
CHECK_DEADLOCK FALSE
INVARIANTS TypeOK CompiledEvaluates CorpusAccepted PairsTogether AnchorsKeepTwins ReleaseMeetsContract GoldSurvives
PROPERTY RetrySound
