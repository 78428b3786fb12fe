SPECIFICATION Spec
CONSTANTS
  Jobs <- DepthJobs
  MaxTop = 3
  MaxTurn = 2
  BYTE_BITS = 2
  WORD_BYTES = 4
  STACK_DEPTH = 3
  MAX_PARAMS = 1
  MAX_VARS = 1
  CALL_DEPTH = 3
  MAX_FORMATS = 4
PROPERTY
  RefusedCallsAreSilent
