SPECIFICATION Spec
CONSTANTS
  Tables <- MCTables
  CALL_DEPTH = 3
  MAX_FORMATS = 4
INVARIANTS
  Progress
  AcceptanceIsExact
PROPERTY
  AnswersLikeTheOracle
