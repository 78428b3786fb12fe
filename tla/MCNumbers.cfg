\* Record sequences, numbers, slices, bits and arrays.
SPECIFICATION Spec
CONSTANTS
  Jobs <- DataJobs
  MaxInput = 4
  MaxOutput = 4
  BYTE_BITS = 4
  WORD_BYTES = 4
  STACK_DEPTH = 4
  MAX_PARAMS = 3
  MAX_VARS = 3
  CALL_DEPTH = 4
  MAX_FORMATS = 3
INVARIANTS
  TypeOK
  InsideBuffers
  SlicesInsideInput
  RowsMatchCount
  AgreesWithMeaning
  IdentitiesHold
  NumbersWriteExactly
  NumbersReadExactly
  FieldsDoNotMix
  ArraysInNetworkOrder
PROPERTIES
  StopPropagates
  FaultsReachTheCaller
