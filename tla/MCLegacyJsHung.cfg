\* Two awaited calls of a URL; the server may deny the first.
SPECIFICATION FairSpec
CONSTANTS
  Messages <- oneURL
  AuthAnswers = {TRUE, FALSE}
  HandlerCodes <- codes
  MaxBytes = 1
  MaxCalls = 2
  MaxCuts = 0
PROPERTIES
  EveryCallSettles
CHECK_DEADLOCK FALSE
