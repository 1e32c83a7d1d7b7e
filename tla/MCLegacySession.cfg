SPECIFICATION Spec
CONSTANTS
  Messages <- messages
  AuthAnswers = {TRUE, FALSE}
  HandlerCodes <- codes
  MaxBytes = 3
  MaxCalls = 2
INVARIANTS
  TypeOK
  PlainDelivery
  PlainIsServed
  OwnCode
PROPERTIES
  RejectionIsFinal
  CallReturns
CHECK_DEADLOCK FALSE
