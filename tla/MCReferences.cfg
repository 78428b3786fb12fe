\* Fields that derive their value from two others.
SPECIFICATION Spec
CONSTANTS
  Jobs <- ReaderJobs
  MaxFields = 4
  Malformed = Malformed
  BYTE_BITS = 2
  WORD_BYTES = 8
  STACK_DEPTH = 4
  MAX_PARAMS = 4
  MAX_VARS = 5
  CALL_DEPTH = 4
  MAX_FORMATS = 4
INVARIANT
  ReferencesAreMutual
