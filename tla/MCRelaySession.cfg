\* Two faults of the relay or writes broken off, three calls.
SPECIFICATION RelaySpec
CONSTANTS
  secret = secret
  salt1 = salt1
  salt2 = salt2
  URL = URL
  ClientSecret <- sharedSecret
  ServerSecret <- sharedSecret
  Salts = {salt1, salt2}
  NoKey = NoKey
  Types = {URL}
  HandlerCodes = {"OK"}
  VarSizes = {0}
  ClientCap <- cap
  ServerCap <- cap
  LenModulus = 256
  AuthAnswers = {TRUE}
  MaxCalls = 3
  MaxFaults = 2
INVARIANTS
  TypeOK
  SameKeyNeeded
  OwnAnswerOrReplay
PROPERTIES
  UpDelivery
  DownDelivery
  RejectionIsFinal
SYMMETRY SaltSymmetry
CHECK_DEADLOCK FALSE
