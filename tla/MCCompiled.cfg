\* Compiled programs against the reference encoder and decoder.
SPECIFICATION Spec
CONSTANTS
  Jobs <- CompiledJobs
  MaxFields = 4
  Malformed = Malformed
  BYTE_BITS = 2
  WORD_BYTES = 8
  STACK_DEPTH = 4
  MAX_PARAMS = 4
  MAX_VARS = 5
  CALL_DEPTH = 4
  MAX_FORMATS = 4
INVARIANTS
  EncodesLikeReference
  DecodesLikeReference
  RowsComeBack
  UnmatchedChoiceLeavesList
  TruncationIsCaught
  MessagesEndClean
  InstalledIfItFits
