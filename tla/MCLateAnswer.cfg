\* A read that times out, then the next call.
SPECIFICATION Spec
CONSTANTS
  secret = secret
  salt1 = salt1
  URL = URL
  ClientSecret <- clientSecret
  ServerSecret <- serverSecret
  Salts = {salt1}
  NoKey = NoKey
  Types = {URL}
  HandlerCodes = {"OK"}
  VarSizes = {0}
  clientMax = 60
  ClientCap <- clientCap
  serverMax = 60
  ServerCap <- serverCap
  LenModulus = 256
  AuthAnswers = {TRUE}
  MaxCalls = 2
INVARIANTS
  EveryCodeIsItsOwn
CHECK_DEADLOCK FALSE
