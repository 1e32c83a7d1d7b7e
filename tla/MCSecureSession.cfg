\* Three calls over one connection.  The client's cap is over the server's: a
\* message of exactly the server's cap, one over the client's.
SPECIFICATION Spec
CONSTANTS
  secret = secret
  salt1 = salt1
  URL = URL
  ClientSecret <- clientSecret
  ServerSecret <- serverSecret
  Salts = {salt1}
  NoKey = NoKey
  Types = {URL}
  HandlerCodes = {"OK"}
  VarSizes = {20, 25, 40}
  clientMax = 80
  ClientCap <- clientCap
  serverMax = 73
  ServerCap <- serverCap
  LenModulus = 256
  AuthAnswers = {TRUE, FALSE}
  MaxCalls = 3
INVARIANTS
  TypeOK
  OwnAnswer
  OneAnswerEach
  NoFalseAlarm
  NoFalseAlarmAtClient
PROPERTIES
  RejectionIsFinal
  CallReturns
  LoopEnds
CHECK_DEADLOCK FALSE
