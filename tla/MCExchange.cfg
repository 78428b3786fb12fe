SPECIFICATION Spec
CONSTANTS
  BYTE_BITS = 8
  WORD_BYTES = 2
  MAX_MESSAGES = 4
  MAX_FIELDS = 8
  MAX_NESTING = 3
  MAX_EXPRESSION = 3
  STACK_DEPTH = 8
  CALL_DEPTH = 4
  Exchanges <- MCExchanges
  Flips = {1, 2, 4, 8, 16, 32, 64, 128, 255}
INVARIANTS
  CatalogDescribesSource
  ProgramsBalanced
  RowsConsume
  WordsStayWords
  StaysInside
PROPERTIES
  DeliversWhatWasSent
  FirstCauseIsReported
