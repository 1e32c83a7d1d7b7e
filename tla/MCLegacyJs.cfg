\* Two calls.  The character has one byte too many for the limit, and so has
\* the document that contains a whole text; the URL is fine.
SPECIFICATION Spec
CONSTANTS
  Messages <- messages
  AuthAnswers = {TRUE, FALSE}
  HandlerCodes <- codes
  MaxBytes = 1
  MaxCalls = 2
  MaxCuts = 1
INVARIANTS
  ServedAsSent
  OwnCode
PROPERTIES
  CallsSettle
CHECK_DEADLOCK FALSE
