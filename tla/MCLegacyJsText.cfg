\* One awaited call.
SPECIFICATION Spec
CONSTANTS
  Messages <- messages
  AuthAnswers = {TRUE}
  HandlerCodes <- codes
  MaxBytes = 2
  MaxCalls = 1
  MaxCuts = 1
INVARIANTS
  FramesAreStrings
CHECK_DEADLOCK FALSE
