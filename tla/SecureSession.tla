--------------------------- MODULE SecureSession ---------------------------
(***************************************************************************)
(* One ATXP V2 connection of the Go implementation: a ClientV2 making      *)
(* calls one at a time, the goroutine of ServerV2.HandleConnection, and    *)
(* the two byte streams between them.                                      *)
(*                                                                         *)
(* A stream is a FIFO of units: the handshake header, the 4-byte length    *)
(* prefix of a frame, the sealed body of a frame.  A unit is what one      *)
(* io.ReadFull of the code takes when the reader is aligned with the       *)
(* writer.  Readers and writers lose alignment as the program does: a      *)
(* write that stops half way, a read given up after the prefix.            *)
(***************************************************************************)
EXTENDS Integers, Sequences, Endpoint

CONSTANTS
  ClientSecret, ServerSecret, \* password and iteration count of each side
  Salts,          \* salts rand.Read may give the server
  NoKey,          \* no session key yet
  Types,          \* message types (MT)
  HandlerCodes,   \* response codes a handler may return
  VarSizes,       \* bytes of payload, username and filename together
  ClientCap, ServerCap,       \* maxFrameSize of each side
  LenModulus,     \* 2^32 in the code: the range of a length prefix
  AuthAnswers,    \* what the AuthHandlerV2 may say
  MaxCalls        \* bound: calls the application makes

\* A sealed body: nonce, tag, the fixed bytes of its envelope, and the rest.
SealedMessage(v) == MinFrameSizeV2 + 25 + v
SealedResponse == MinFrameSizeV2 + 13

\* WithMaxFrameSize ignores a cap below MinFrameSizeV2.
ASSUME CapAssumption ==
  /\ ClientCap \in Nat /\ ClientCap >= MinFrameSizeV2
  /\ ServerCap \in Nat /\ ServerCap >= MinFrameSizeV2
ASSUME SizeAssumption ==
  /\ VarSizes \subseteq Nat
  /\ LenModulus \in Nat \ {0}
ASSUME AuthAssumption == AuthAnswers \subseteq BOOLEAN
ASSUME CallsAssumption == MaxCalls \in Nat
ASSUME TypesAssumption == Types # {}

VARIABLES
  up, down,         \* the streams client -> server and server -> client
  cpc,              \* where ClientV2 is
  cKey, cSendSeq, cRecvSeq,
  cWant,            \* announced size of the response being read
  calls,            \* history: every call, and how it ended
  accepted,         \* history: the responses the client accepted
  spc,              \* where HandleConnection is
  sKey, sSendSeq, sRecvSeq,
  sWant,            \* announced size of the message being read
  sMsg,             \* the message being served
  handlers,         \* types with a registered handler
  received,         \* history: the messages that passed the sequence check
  answers,          \* history: the responses, by sequence number
  exit              \* why HandleConnection returned

clientVars == <<cpc, cKey, cSendSeq, cRecvSeq, cWant, calls, accepted>>
serverVars == <<spc, sKey, sSendSeq, sRecvSeq, sWant, sMsg, handlers,
                received, answers, exit>>
vars == <<up, down, clientVars, serverVars>>

-----------------------------------------------------------------------------
(* Frames.                                                                 *)

\* deriveKey: PBKDF2 of the secret and the salt.
Key(secret, salt) == [secret |-> secret, salt |-> salt]

Message(seq, type) == [kind |-> "message", seq |-> seq, body |-> type]
Response(seq, code) == [kind |-> "response", seq |-> seq, body |-> code]

Hello(salt) == [part |-> "hello", salt |-> salt]
Prefix(n) == [part |-> "len", n |-> n]
Sealed(n, key, env) == [part |-> "body", n |-> n, key |-> key, env |-> env]
Scrap == [part |-> "scrap"]         \* some bytes of a unit, not all of them

\* writeFrame: PutUint32 keeps the low bits of the length.
Frame(n, key, env) == <<Prefix(n % LenModulus), Sealed(n, key, env)>>
FitsWriter(n, cap) == n <= cap

\* What a conn.Write that fails may have put on the stream.
Torn(frame) == {<<>>, <<Head(frame)>>, <<Scrap>>}

\* readFrame: n > uint32(maxFrameSize) and n < NonceSize+GCMTagSize.
\* (mutants: the cap dropped; off by one at the cap)
FitsReader_NoCap(n, cap) == n >= MinFrameSizeV2
FitsReader_Below(n, cap) == n < cap % LenModulus /\ n >= MinFrameSizeV2
FitsReader(n, cap) == n <= cap % LenModulus /\ n >= MinFrameSizeV2

\* A length read where no prefix starts: any number of bytes.
Astray == -1

\* gcmCipher.Open: the announced bytes are one sealed body, under this key.
\* (mutant: the tag is not verified)
Opens_NoTag(unit, want, key) == unit.part = "body" /\ unit.n = want
Opens(unit, want, key) ==
  unit.part = "body" /\ unit.n = want /\ unit.key = key

\* What is left of a stream after a body read that opens nothing: exactly
\* one unit is gone when the read was aligned, any number otherwise.
AfterBadBody(stream, want) ==
  IF Head(stream).part = "body" /\ Head(stream).n = want
    THEN {Tail(stream)}
    ELSE {SubSeq(stream, j + 1, Len(stream)) : j \in 0..Len(stream)}

\* The replay check of both sides: seq <= recvSeq is refused.
\* (mutants: the check dropped; a gap refused)
Fresh_Always(seq, recvSeq) == seq >= 0
Fresh_Next(seq, recvSeq) == seq = recvSeq + 1
Fresh(seq, recvSeq) == seq > recvSeq

\* The first byte of the opened envelope.  (mutant: it is not looked at)
IsKind_Any(env, kind) == env.kind \in {"message", "response"}
IsKind(env, kind) == env.kind = kind

-----------------------------------------------------------------------------
(* The client.                                                             *)

\* The call the client is in ends.
EndCall(out) ==
  /\ cpc' = "idle"
  /\ calls' = [calls EXCEPT ![Len(calls)].out = out]

\* ClientHandshake: read and validate the header, derive the key.
ClientHandshake ==
  /\ cpc = "hello"
  /\ down # <<>> /\ Head(down).part = "hello"
  /\ down' = Tail(down)
  /\ cKey' = Key(ClientSecret, Head(down).salt)
  /\ cpc' = "idle"
  /\ UNCHANGED <<up, cSendSeq, cRecvSeq, cWant, calls, accepted, serverVars>>

\* No header before the deadline, or the stream ended: there is no client.
ClientHandshakeFails ==
  /\ cpc = "hello"
  /\ cpc' = "closed"
  /\ UNCHANGED <<up, down, cKey, cSendSeq, cRecvSeq, cWant, calls, accepted,
                 serverVars>>

\* ClientV2.send up to its call of sendMessageFrame.
StartCall(type, v, out) ==
  /\ cpc = "idle"
  /\ cSendSeq < MaxCalls
  /\ cSendSeq' = cSendSeq + 1
  /\ calls' = Append(calls, [type |-> type, size |-> SealedMessage(v),
                                 out |-> out])

\* ErrFrameTooLarge before anything is written; the number is spent.
SendRefused(type, v) ==
  /\ StartCall(type, v, "refused")
  /\ ~FitsWriter(SealedMessage(v), ClientCap)
  /\ UNCHANGED <<up, down, cpc, cKey, cRecvSeq, cWant, accepted, serverVars>>

SendWritten(type, v) ==
  /\ StartCall(type, v, "pending")
  /\ FitsWriter(SealedMessage(v), ClientCap)
  /\ up' = up \o Frame(SealedMessage(v), cKey, Message(cSendSeq', type))
  /\ cpc' = "len"
  /\ UNCHANGED <<down, cKey, cRecvSeq, cWant, accepted, serverVars>>

\* The write fails at its deadline or on a reset.
SendBroken(type, v) ==
  /\ StartCall(type, v, "write")
  /\ FitsWriter(SealedMessage(v), ClientCap)
  /\ \E w \in Torn(Frame(SealedMessage(v), cKey, Message(cSendSeq', type))) :
       up' = up \o w
  /\ UNCHANGED <<down, cpc, cKey, cRecvSeq, cWant, accepted, serverVars>>

ClientReadPrefix ==
  /\ cpc = "len"
  /\ down # <<>> /\ Head(down).part = "len"
  /\ down' = Tail(down)
  /\ IF FitsReader(Head(down).n, ClientCap)
       THEN cpc' = "body" /\ cWant' = Head(down).n /\ UNCHANGED calls
       ELSE EndCall("size") /\ UNCHANGED cWant
  /\ UNCHANGED <<up, cKey, cSendSeq, cRecvSeq, accepted, serverVars>>

\* The four bytes read are not a prefix.
ClientReadAstray ==
  /\ cpc = "len"
  /\ down # <<>> /\ Head(down).part # "len"
  /\ \/ cpc' = "body" /\ cWant' = Astray /\ UNCHANGED calls
     \/ EndCall("size") /\ UNCHANGED cWant
  /\ UNCHANGED <<up, down, cKey, cSendSeq, cRecvSeq, accepted, serverVars>>

\* The body opens: what receiveResponseFrame and the replay check make of it.
ClientAnswered ==
  /\ cpc = "body"
  /\ down # <<>> /\ Opens(Head(down), cWant, cKey)
  /\ down' = Tail(down)
  /\ LET env == Head(down).env IN
       \/ /\ IsKind(env, "response") /\ Fresh(env.seq, cRecvSeq)
          /\ cRecvSeq' = env.seq
          /\ accepted' = Append(accepted, [call |-> Len(calls),
                                           n |-> env.seq, item |-> env.body])
          /\ EndCall("code")
       \/ /\ IsKind(env, "response") /\ ~Fresh(env.seq, cRecvSeq)
          /\ EndCall("replay")
          /\ UNCHANGED <<cRecvSeq, accepted>>
       \/ /\ ~IsKind(env, "response")
          /\ EndCall("envelope")
          /\ UNCHANGED <<cRecvSeq, accepted>>
  /\ UNCHANGED <<up, cKey, cSendSeq, cWant, serverVars>>

ClientErrSeal ==
  /\ cpc = "body"
  /\ down # <<>> /\ ~Opens(Head(down), cWant, cKey)
  /\ down' \in AfterBadBody(down, cWant)
  /\ EndCall("seal")
  /\ UNCHANGED <<up, cKey, cSendSeq, cRecvSeq, cWant, accepted, serverVars>>

\* The read deadline passes, or the stream ends, before or after the prefix.
\* ClientV2 stays usable: send does not close the connection.
\* (mutant: no deadline, only the end of the stream)
ClientReadFails_EndOnly ==
  /\ cpc \in {"len", "body"} /\ spc = "closed" /\ down = <<>>
  /\ EndCall("read")
  /\ UNCHANGED <<up, down, cKey, cSendSeq, cRecvSeq, cWant, accepted, serverVars>>
ClientReadFails ==
  /\ cpc \in {"len", "body"}
  /\ EndCall("read")
  /\ UNCHANGED <<up, down, cKey, cSendSeq, cRecvSeq, cWant, accepted, serverVars>>

Close ==
  /\ cpc = "idle"
  /\ cpc' = "closed"
  /\ UNCHANGED <<up, down, cKey, cSendSeq, cRecvSeq, cWant, calls, accepted,
                 serverVars>>

-----------------------------------------------------------------------------
(* The server.                                                             *)

Return(why) == spc' = "closed" /\ exit' = why

ServerHandshake ==
  /\ spc = "start"
  /\ \E salt \in Salts : /\ down' = down \o <<Hello(salt)>>
                         /\ sKey' = Key(ServerSecret, salt)
  /\ spc' = "len"
  /\ UNCHANGED <<up, clientVars, sSendSeq, sRecvSeq, sWant, sMsg, handlers,
                 received, answers, exit>>

ServerHandshakeFails ==
  /\ spc = "start"
  /\ Return("handshake")
  /\ UNCHANGED <<up, down, clientVars, sKey, sSendSeq, sRecvSeq, sWant, sMsg,
                 handlers, received, answers>>

ServerReadPrefix ==
  /\ spc = "len"
  /\ up # <<>> /\ Head(up).part = "len"
  /\ up' = Tail(up)
  /\ IF FitsReader(Head(up).n, ServerCap)
       THEN spc' = "body" /\ sWant' = Head(up).n /\ UNCHANGED exit
       ELSE Return("size") /\ UNCHANGED sWant
  /\ UNCHANGED <<down, clientVars, sKey, sSendSeq, sRecvSeq, sMsg, handlers,
                 received, answers>>

ServerReadAstray ==
  /\ spc = "len"
  /\ up # <<>> /\ Head(up).part # "len"
  /\ \/ spc' = "body" /\ sWant' = Astray /\ UNCHANGED exit
     \/ Return("size") /\ UNCHANGED sWant
  /\ UNCHANGED <<up, down, clientVars, sKey, sSendSeq, sRecvSeq, sMsg, handlers,
                 received, answers>>

\* What writing a response may put on the stream.
ResponseWrites(frame) ==
  IF FitsWriter(SealedResponse, ServerCap) THEN Torn(frame) \cup {frame}
                                           ELSE {<<>>}

\* sendSeq++ before a response.  (mutant: sendSeq declared inside the loop)
ResponseNumber_Reset == 1
ResponseNumber == sSendSeq + 1

\* sendSeq++ and sendResponseFrame, whose error every caller ignores.
Respond(code, why) ==
  LET seq == ResponseNumber
      frame == Frame(SealedResponse, sKey, Response(seq, code))
  IN /\ sSendSeq' = seq
     /\ \E w \in ResponseWrites(frame) :
          /\ down' = down \o w
          /\ answers' = Append(answers,
                              [re |-> sMsg'.seq, item |-> code, why |-> why,
                               whole |-> w = frame])

\* A message opens and its number is new.
AcceptMessage ==
  /\ spc = "body"
  /\ up # <<>> /\ Opens(Head(up), sWant, sKey)
  /\ up' = Tail(up)
  /\ LET env == Head(up).env IN
       /\ IsKind(env, "message") /\ Fresh(env.seq, sRecvSeq)
       /\ sRecvSeq' = env.seq
       /\ sMsg' = [seq |-> env.seq, type |-> env.body]
       /\ received' = Append(received, [n |-> env.seq, item |-> env.body])
  /\ spc' = "auth"
  /\ UNCHANGED <<down, clientVars, sKey, sSendSeq, sWant, handlers, answers, exit>>

\* The return after a replayed number.  (mutant: continue)
AfterReplay_Continue == spc' = "len" /\ UNCHANGED exit
AfterReplay == Return("replay")

\* A message opens and its number is not new: ERROR, and the loop returns.
RejectReplayed ==
  /\ spc = "body"
  /\ up # <<>> /\ Opens(Head(up), sWant, sKey)
  /\ up' = Tail(up)
  /\ LET env == Head(up).env IN
       /\ IsKind(env, "message") /\ ~Fresh(env.seq, sRecvSeq)
       /\ sMsg' = [seq |-> env.seq, type |-> env.body]
  /\ Respond("ERROR", "replay")
  /\ AfterReplay
  /\ UNCHANGED <<clientVars, sKey, sRecvSeq, sWant, handlers, received>>

\* receiveMessageFrame returns a message.  A stream that keeps order never
\* brings one to be rejected; a relay does.
ReceiveMessage ==
  /\ spc = "body"
  /\ AcceptMessage \/ RejectReplayed

\* receiveMessageFrame fails on the bytes it read: no response is written.
ServerDropsFrame ==
  /\ spc = "body"
  /\ up # <<>>
  /\ \/ /\ Opens(Head(up), sWant, sKey) /\ ~IsKind(Head(up).env, "message")
        /\ up' = Tail(up)
        /\ Return("envelope")
     \/ /\ ~Opens(Head(up), sWant, sKey)
        /\ up' \in AfterBadBody(up, sWant)
        /\ Return("seal")
  /\ UNCHANGED <<down, clientVars, sKey, sSendSeq, sRecvSeq, sWant, sMsg,
                 handlers, received, answers>>

\* The read deadline passes, or the stream ends, in either read.
\* (mutant: no deadline, only the end of the stream)
ServerReadFails_EndOnly ==
  /\ spc \in {"len", "body"} /\ cpc = "closed" /\ up = <<>>
  /\ Return("read")
  /\ UNCHANGED <<up, down, clientVars, sKey, sSendSeq, sRecvSeq, sWant, sMsg,
                 handlers, received, answers>>
ServerReadFails ==
  /\ spc \in {"len", "body"}
  /\ Return("read")
  /\ UNCHANGED <<up, down, clientVars, sKey, sSendSeq, sRecvSeq, sWant, sMsg,
                 handlers, received, answers>>

Authorize ==
  /\ spc = "auth"
  /\ TRUE \in AuthAnswers
  /\ spc' = "route"
  /\ UNCHANGED <<up, down, clientVars, sKey, sSendSeq, sRecvSeq, sWant, sMsg,
                 handlers, received, answers, exit>>

\* The return after UNAUTHORIZED.  (mutant: it is missing)
AfterDenial_GoesOn == spc' = "route" /\ UNCHANGED exit
AfterDenial == Return("unauthorized")

Deny ==
  /\ spc = "auth"
  /\ FALSE \in AuthAnswers
  /\ UNCHANGED sMsg
  /\ Respond("UNAUTHORIZED", "unauthorized")
  /\ AfterDenial
  /\ UNCHANGED <<up, clientVars, sKey, sRecvSeq, sWant, handlers, received>>

Route ==
  /\ spc = "route"
  /\ sMsg.type \in handlers
  /\ spc' = "run"
  /\ UNCHANGED <<up, down, clientVars, sKey, sSendSeq, sRecvSeq, sWant, sMsg,
                 handlers, received, answers, exit>>

\* (mutant: continue without the ERROR response)
RouteMissing_Silent ==
  /\ spc = "route"
  /\ sMsg.type \notin handlers
  /\ spc' = "len"
  /\ UNCHANGED <<up, down, clientVars, sKey, sSendSeq, sRecvSeq, sWant, sMsg,
                 handlers, received, answers, exit>>
RouteMissing ==
  /\ spc = "route"
  /\ sMsg.type \notin handlers
  /\ UNCHANGED sMsg
  /\ Respond("ERROR", "no_handler")
  /\ spc' = "len"
  /\ UNCHANGED <<up, clientVars, sKey, sRecvSeq, sWant, handlers, received, exit>>

HandlerReturns ==
  /\ spc = "run"
  /\ UNCHANGED sMsg
  /\ \E code \in HandlerCodes : Respond(code, "handler")
  /\ spc' = "len"
  /\ UNCHANGED <<up, clientVars, sKey, sRecvSeq, sWant, handlers, received, exit>>

\* RegisterHandler, from any goroutine at any time.
RegisterHandler(type) ==
  /\ type \notin handlers
  /\ handlers' = handlers \cup {type}
  /\ UNCHANGED <<up, down, clientVars, spc, sKey, sSendSeq, sRecvSeq, sWant,
                 sMsg, received, answers, exit>>

-----------------------------------------------------------------------------
Init ==
  /\ up = <<>> /\ down = <<>>
  /\ cpc = "hello" /\ cKey = NoKey /\ cSendSeq = 0 /\ cRecvSeq = 0 /\ cWant = 0
  /\ calls = <<>> /\ accepted = <<>>
  /\ spc = "start" /\ sKey = NoKey /\ sSendSeq = 0 /\ sRecvSeq = 0 /\ sWant = 0
  /\ sMsg = [seq |-> 0, type |-> CHOOSE t \in Types : TRUE]
  /\ handlers = {}
  /\ received = <<>> /\ answers = <<>> /\ exit = "none"

ClientSends == \E type \in Types, v \in VarSizes :
  SendRefused(type, v) \/ SendWritten(type, v) \/ SendBroken(type, v)
ClientReads == ClientReadPrefix \/ ClientReadAstray \/ ClientAnswered
               \/ ClientErrSeal \/ ClientReadFails
ClientNext == ClientHandshake \/ ClientHandshakeFails \/ ClientSends
              \/ ClientReads \/ Close

ServerReads == ServerReadPrefix \/ ServerReadAstray \/ ReceiveMessage
               \/ ServerDropsFrame \/ ServerReadFails
ServerServes == Authorize \/ Deny \/ Route \/ RouteMissing \/ HandlerReturns
ServerNext == ServerHandshake \/ ServerHandshakeFails \/ ServerReads
              \/ ServerServes

Next == ClientNext \/ ServerNext \/ \E type \in Types : RegisterHandler(type)

Spec == Init /\ [][Next]_vars

-----------------------------------------------------------------------------
(* Types.                                                                  *)

Keys == [secret : {ClientSecret, ServerSecret}, salt : Salts] \cup {NoKey}
Codes == HandlerCodes \cup {"ERROR", "UNAUTHORIZED"}
Envelopes == [kind : {"message"}, seq : Nat, body : Types]
             \cup [kind : {"response"}, seq : Nat, body : Codes]
Units == [part : {"hello"}, salt : Salts] \cup [part : {"len"}, n : Nat]
         \cup [part : {"body"}, n : Nat, key : Keys, env : Envelopes]
         \cup {Scrap}
Outcomes == {"pending", "code", "refused", "write", "read", "size", "seal",
             "envelope", "replay"}

Calls == [type : Types, size : Nat, out : Outcomes]
Answers == [re : Nat, item : Codes, whole : BOOLEAN,
            why : {"handler", "no_handler", "unauthorized", "replay"}]
Exits == {"none", "handshake", "read", "size", "seal", "envelope", "replay",
          "unauthorized"}

\* Types, and the memory bound of readFrame: the buffer made for a body is
\* never larger than the reader's own cap (sWant and cWant).
TypeOK ==
  /\ up \in Seq(Units) /\ down \in Seq(Units)
  /\ cpc \in {"hello", "idle", "len", "body", "closed"}
  /\ cKey \in Keys /\ cSendSeq \in Nat /\ cRecvSeq \in Nat
  /\ cWant \in {Astray} \cup 0..ClientCap
  /\ calls \in Seq(Calls)
  /\ accepted \in Seq([call : Nat, n : Nat, item : Codes])
  /\ spc \in {"start", "len", "body", "auth", "route", "run", "closed"}
  /\ sKey \in Keys /\ sSendSeq \in Nat /\ sRecvSeq \in Nat
  /\ sWant \in {Astray} \cup 0..ServerCap
  /\ sMsg \in [seq : Nat, type : Types]
  /\ handlers \subseteq Types
  /\ received \in Seq([n : Nat, item : Types])
  /\ answers \in Seq(Answers)
  /\ exit \in Exits

-----------------------------------------------------------------------------
(* Safety.                                                                 *)

\* What the server takes is what the client sent, at most once and in the
\* order of the calls (recvSeq of HandleConnection).
Up == INSTANCE OrderedDelivery WITH
  Items <- Types,
  sent <- [k \in DOMAIN calls |-> calls[k].type],
  taken <- received
UpDelivery == Up!Spec

\* The codes the client takes are codes the server sent, at most once and in
\* the order of the responses (recvSeq of ClientV2).
Down == INSTANCE OrderedDelivery WITH
  Items <- Codes,
  sent <- [i \in DOMAIN answers |-> answers[i].item],
  taken <- [i \in DOMAIN accepted |-> [n |-> accepted[i].n,
                                       item |-> accepted[i].item]]
DownDelivery == Down!Spec

\* No call before call k left a response behind or a stream out of step.
CleanBefore(k) == \A j \in 1..(k - 1) : calls[j].out \in {"code", "refused"}

\* The code a call returns is the answer to the message of that call, as long
\* as every earlier call got its code or was refused before any byte was
\* written.  Nothing in a response names the call it answers: the pairing
\* rests on the two counters, on one response per message, and on the order
\* of the streams.
OwnAnswer == \A i \in DOMAIN accepted :
  CleanBefore(accepted[i].call) => answers[accepted[i].n].re = accepted[i].call

\* Every message that passed the sequence check is answered once, in order,
\* before the next one is read, on every path of the loop.
OneAnswerEach ==
  /\ \A i \in DOMAIN answers :
       answers[i].why # "replay" => /\ i \in DOMAIN received
                                   /\ answers[i].re = received[i].n
  /\ spc \in {"len", "body"} => Len(answers) = Len(received)

\* A server that lost nothing but a peer: over a stream that keeps order, the
\* loop never ends in the replay branch or on a foreign envelope, and it ends
\* on a bad size or a bad tag only after a write of the client stopped half
\* way, or on a message over the server's cap.
NoFalseAlarm ==
  /\ exit \notin {"replay", "envelope"}
  /\ exit \in {"size", "seal"} /\ ClientSecret = ServerSecret =>
       \E k \in DOMAIN calls : \/ calls[k].out = "write"
                               \/ calls[k].size > ServerCap

\* The same for the client: no call ends in ErrReplay or ErrInvalidEnvelope,
\* and a bad size or tag needs an earlier read given up or a response that
\* was not written whole.
NoFalseAlarmAtClient == \A k \in DOMAIN calls :
  /\ calls[k].out \notin {"replay", "envelope"}
  /\ calls[k].out \in {"size", "seal"} /\ ClientSecret = ServerSecret =>
       \/ \E j \in 1..(k - 1) : calls[j].out = "read"
       \/ \E i \in DOMAIN answers : ~answers[i].whole

\* Nothing is served and no code is returned unless both sides derived the same
\* key: from the same secret, and from the salt the server sent.
SameKeyNeeded == received # <<>> \/ accepted # <<>> => cKey = sKey

\* Once a message was denied or found replayed, HandleConnection serves and
\* writes nothing more.
Rejected == \E i \in DOMAIN answers : answers[i].why \in {"unauthorized", "replay"}
RejectionIsFinal == [][Rejected => UNCHANGED <<received, answers>>]_vars

-----------------------------------------------------------------------------
(* Liveness.                                                               *)

\* The client's own read deadline is all a call needs to return: nothing is
\* assumed of the server, which may hang in a handler.
ClientFair == WF_vars(ClientReads)
CallReturns == ClientFair =>
  ((cpc \in {"len", "body"}) ~> (cpc \notin {"len", "body"}))

\* The server's read deadline ends the loop though the client does nothing
\* more, provided the application's AuthHandlerV2 and Handler return.
ServerFair == WF_vars(ServerReads \/ ServerServes)
LoopEnds == ServerFair => ((spc # "start") ~> (spc = "closed"))

-----------------------------------------------------------------------------
(* What the documentation says and the code does not do.                   *)

\* client_v2.go:42: SendURL "transmits a URL message frame and returns the
\* server's response code".
EveryCodeIsItsOwn == \A i \in DOMAIN accepted :
  answers[accepted[i].n].re = accepted[i].call
=============================================================================
