--------------------------- MODULE Session_proofs ---------------------------
(***************************************************************************)
(* Theorems about SecureSession, and about RelaySession beneath it, for    *)
(* every choice of their constants: the two channels of a session and the  *)
(* counters (with the lemmas the rest builds on); each direction as an     *)
(* OrderedDelivery; which call a code belongs to; streams that keep order; *)
(* and readers that keep step with the writers.                            *)
(***************************************************************************)
EXTENDS RelaySession, SequenceTheorems, TLAPS

-----------------------------------------------------------------------------
(* What the operators of the module return.                                *)

\* A cap reduced to a 32-bit length is no larger than the cap.
LEMMA ModBound ==
  ASSUME NEW c \in Nat, NEW m \in Nat \ {0}
  PROVE  c % m \in Nat /\ c % m <= c
OBVIOUS

LEMMA FitsReaderBound ==
  ASSUME NEW n \in Nat, NEW cap \in Nat, FitsReader(n, cap)
  PROVE  n \in {Astray} \cup 0..cap
BY ModBound, SizeAssumption DEF FitsReader

LEMMA HelloUnit ==
  ASSUME NEW u \in Units, u.part = "hello"
  PROVE  u.salt \in Salts
BY DEF Units, Scrap

LEMMA PrefixUnit ==
  ASSUME NEW u \in Units, u.part = "len"
  PROVE  u.n \in Nat
BY DEF Units, Scrap

LEMMA BodyUnit ==
  ASSUME NEW u \in Units, u.part = "body"
  PROVE  u.env \in Envelopes
BY DEF Units, Scrap

LEMMA MessageEnvelope ==
  ASSUME NEW e \in Envelopes, IsKind(e, "message")
  PROVE  e.seq \in Nat /\ e.body \in Types
BY DEF Envelopes, IsKind

LEMMA ResponseEnvelope ==
  ASSUME NEW e \in Envelopes, IsKind(e, "response")
  PROVE  e.seq \in Nat /\ e.body \in Codes
BY DEF Envelopes, IsKind

LEMMA StreamHead ==
  ASSUME NEW S, NEW s \in Seq(S), s # <<>>
  PROVE  Head(s) \in S /\ Tail(s) \in Seq(S)
BY HeadTailProperties

\* What a write puts on a stream is made of the two units of the frame and of
\* scraps.
LEMMA FrameIn ==
  ASSUME NEW n, NEW key, NEW env, NEW S,
         Prefix(n % LenModulus) \in S, Sealed(n, key, env) \in S, Scrap \in S
  PROVE  /\ Frame(n, key, env) \in Seq(S)
         /\ Torn(Frame(n, key, env)) \subseteq Seq(S)
<1>1. Frame(n, key, env) \in Seq(S)
  BY DEF Frame
<1>2. Head(Frame(n, key, env)) \in S
  BY DEF Frame
<1> QED
  BY <1>1, <1>2 DEF Torn

LEMMA FrameUnits ==
  ASSUME NEW n \in Nat, NEW key \in Keys, NEW env \in Envelopes
  PROVE  /\ Prefix(n % LenModulus) \in Units /\ Sealed(n, key, env) \in Units
         /\ Scrap \in Units
<1>1. Prefix(n % LenModulus) \in Units
  BY ModBound, SizeAssumption DEF Prefix, Units
<1> QED
  BY <1>1 DEF Sealed, Units

LEMMA FrameType ==
  ASSUME NEW n \in Nat, NEW key \in Keys, NEW env \in Envelopes
  PROVE  /\ Frame(n, key, env) \in Seq(Units)
         /\ Torn(Frame(n, key, env)) \subseteq Seq(Units)
BY FrameUnits, FrameIn

LEMMA AfterBadBodyType ==
  ASSUME NEW S, NEW s \in Seq(S), s # <<>>, NEW want,
         NEW rest \in AfterBadBody(s, want)
  PROVE  rest \in Seq(S)
<1>1. CASE rest = Tail(s)
  BY <1>1, StreamHead
<1>2. CASE \E j \in 0..Len(s) : rest = SubSeq(s, j + 1, Len(s))
  <2>1. PICK j \in 0..Len(s) : rest = SubSeq(s, j + 1, Len(s))
    BY <1>2
  <2> QED
    BY <2>1, SubSeqProperties
<1> QED
  BY <1>1, <1>2 DEF AfterBadBody

\* Ending a call changes the outcome of one call and nothing of its type.
LEMMA EndCallType ==
  ASSUME calls \in Seq(Calls), NEW out \in Outcomes, EndCall(out)
  PROVE  /\ calls' \in Seq(Calls) /\ cpc' = "idle"
         /\ Len(calls') = Len(calls)
         /\ \A k \in 1..Len(calls) :
              /\ k # Len(calls) => calls'[k] = calls[k]
              /\ k = Len(calls) => calls'[k] = [calls[k] EXCEPT !.out = out]
<1> DEFINE last == [calls[Len(calls)] EXCEPT !.out = out]
<1>1. Len(calls) \in Nat /\ DOMAIN calls = 1..Len(calls)
  BY LenProperties
<1>2. calls' = [calls EXCEPT ![Len(calls)] = last] /\ cpc' = "idle"
  BY DEF EndCall
<1>3. CASE Len(calls) = 0
  <2>1. calls = <<>>
    BY <1>3, EmptySeq
  <2>2. calls' = calls
    BY <1>1, <1>2, <1>3, <2>1
  <2> QED
    BY <1>1, <1>2, <1>3, <2>2
<1>4. CASE Len(calls) # 0
  <2>1. Len(calls) \in 1..Len(calls)
    BY <1>1, <1>4
  <2>2. calls[Len(calls)] \in Calls
    BY <2>1, ElementOfSeq
  <2>3. last \in Calls
    BY <2>2 DEF Calls
  <2> HIDE DEF last
  <2>4. [calls EXCEPT ![Len(calls)] = last] \in Seq(Calls)
    BY <2>1, <2>3, ExceptSeq
  <2>5. /\ Len([calls EXCEPT ![Len(calls)] = last]) = Len(calls)
        /\ \A j \in 1..Len(calls) :
             [calls EXCEPT ![Len(calls)] = last][j] =
               IF j = Len(calls) THEN last ELSE calls[j]
    BY <2>1, <2>3, ExceptSeq
  <2> QED
    BY <1>2, <2>4, <2>5 DEF last
<1> QED
  BY <1>3, <1>4

LEMMA StartCallType ==
  ASSUME calls \in Seq(Calls), cSendSeq \in Nat, NEW type \in Types,
         NEW v \in VarSizes, NEW out \in Outcomes, StartCall(type, v, out)
  PROVE  /\ calls' \in Seq(Calls) /\ cSendSeq' \in Nat
         /\ SealedMessage(v) \in Nat /\ cpc = "idle"
<1>1. SealedMessage(v) \in Nat
  BY SizeAssumption DEF SealedMessage, MinFrameSizeV2, NonceSize, GCMTagSize
<1>2. [type |-> type, size |-> SealedMessage(v), out |-> out] \in Calls
  BY <1>1 DEF Calls
<1> QED
  BY <1>1, <1>2, AppendProperties DEF StartCall

\* A response leaves the stream and the history well typed, and it is the
\* next entry of the history.
LEMMA RespondType ==
  ASSUME down \in Seq(Units), answers \in Seq(Answers), sKey \in Keys,
         sSendSeq \in Nat, sMsg'.seq \in Nat, NEW code \in Codes,
         NEW why \in {"handler", "no_handler", "unauthorized", "replay"},
         Respond(code, why)
  PROVE  /\ down' \in Seq(Units)
         /\ answers' \in Seq(Answers)
         /\ sSendSeq' \in Nat
<1> DEFINE frame == Frame(SealedResponse, sKey, Response(ResponseNumber, code))
<1>1. ResponseNumber \in Nat
  BY DEF ResponseNumber
<1>2. Response(ResponseNumber, code) \in Envelopes
  BY <1>1 DEF Response, Envelopes
<1>3. SealedResponse \in Nat
  BY DEF SealedResponse, MinFrameSizeV2, NonceSize, GCMTagSize
<1>4. frame \in Seq(Units) /\ Torn(frame) \subseteq Seq(Units)
  BY <1>2, <1>3, FrameType
<1> HIDE DEF frame
<1>5. ResponseWrites(frame) \subseteq Seq(Units)
  BY <1>4, EmptySeq DEF ResponseWrites
<1>6. PICK w \in ResponseWrites(frame) :
        /\ down' = down \o w
        /\ answers' = Append(answers, [re |-> sMsg'.seq, item |-> code,
                                      why |-> why, whole |-> w = frame])
  BY DEF Respond, frame
<1>7. [re |-> sMsg'.seq, item |-> code, why |-> why, whole |-> w = frame] \in Answers
  BY DEF Answers
<1>8. down' \in Seq(Units)
  BY <1>5, <1>6, ConcatProperties
<1>9. answers' \in Seq(Answers)
  BY <1>6, <1>7, AppendProperties
<1> QED
  BY <1>1, <1>8, <1>9 DEF Respond

-----------------------------------------------------------------------------
(* Type correctness.                                                       *)

LEMMA InitTypeOK == Init => TypeOK
<1> SUFFICES ASSUME Init PROVE TypeOK
  OBVIOUS
<1>1. (CHOOSE t \in Types : TRUE) \in Types
  BY TypesAssumption
<1>2. sMsg \in [seq : Nat, type : Types]
  BY <1>1 DEF Init
<1>3. 0 \in 0..ClientCap /\ 0 \in 0..ServerCap
  BY CapAssumption
<1> QED
  BY <1>2, <1>3, EmptySeq DEF Init, TypeOK, Keys, Exits

\* Each step of the client keeps the types; what it leaves alone is not
\* mentioned.
LEMMA ClientTypeOK ==
  ASSUME TypeOK, ClientNext
  PROVE  TypeOK'
<1> USE DEF TypeOK
<1>1. ASSUME ClientHandshake PROVE TypeOK'
  <2>1. Head(down) \in Units /\ Tail(down) \in Seq(Units)
    BY <1>1, StreamHead DEF ClientHandshake
  <2>2. Key(ClientSecret, Head(down).salt) \in Keys
    BY <1>1, <2>1, HelloUnit DEF ClientHandshake, Key, Keys
  <2> QED
    BY <1>1, <2>1, <2>2 DEF ClientHandshake, serverVars
<1>2. ASSUME ClientHandshakeFails PROVE TypeOK'
  BY <1>2 DEF ClientHandshakeFails, serverVars
<1>3. ASSUME NEW type \in Types, NEW v \in VarSizes, SendRefused(type, v)
      PROVE  TypeOK'
  <2>1. StartCall(type, v, "refused") /\ "refused" \in Outcomes
    BY <1>3 DEF SendRefused, Outcomes
  <2> QED
    BY <1>3, <2>1, StartCallType DEF SendRefused, serverVars
<1>4. ASSUME NEW type \in Types, NEW v \in VarSizes,
             SendWritten(type, v) \/ SendBroken(type, v)
      PROVE  TypeOK'
  <2> DEFINE frame == Frame(SealedMessage(v), cKey, Message(cSendSeq', type))
  <2>1. /\ calls' \in Seq(Calls) /\ cSendSeq' \in Nat
        /\ SealedMessage(v) \in Nat /\ cpc = "idle"
    <3>1. \E out \in Outcomes : StartCall(type, v, out)
      BY <1>4 DEF SendWritten, SendBroken, Outcomes
    <3> QED
      BY <3>1, StartCallType
  <2>2. Message(cSendSeq', type) \in Envelopes
    BY <2>1 DEF Message, Envelopes
  <2>3. frame \in Seq(Units) /\ Torn(frame) \subseteq Seq(Units)
    BY <2>1, <2>2, FrameType
  <2>4. \E w \in Seq(Units) : up' = up \o w
    BY <1>4, <2>3 DEF SendWritten, SendBroken
  <2>5. up' \in Seq(Units)
    BY <2>4, ConcatProperties
  <2> HIDE DEF frame
  <2> QED
    BY <1>4, <2>1, <2>5 DEF SendWritten, SendBroken, serverVars
<1>5. ASSUME ClientReadPrefix PROVE TypeOK'
  <2>1. Head(down) \in Units /\ Tail(down) \in Seq(Units)
    BY <1>5, StreamHead DEF ClientReadPrefix
  <2>2. Head(down).n \in Nat
    BY <1>5, <2>1, PrefixUnit DEF ClientReadPrefix
  <2>3. CASE FitsReader(Head(down).n, ClientCap)
    <3>1. Head(down).n \in {Astray} \cup 0..ClientCap
      BY <2>2, <2>3, CapAssumption, FitsReaderBound
    <3> QED
      BY <1>5, <2>1, <2>3, <3>1 DEF ClientReadPrefix, serverVars
  <2>4. CASE ~FitsReader(Head(down).n, ClientCap)
    <3>1. EndCall("size") /\ "size" \in Outcomes
      BY <1>5, <2>4 DEF ClientReadPrefix, Outcomes
    <3>2. calls' \in Seq(Calls) /\ cpc' = "idle"
      BY <3>1, EndCallType
    <3> QED
      BY <1>5, <2>1, <2>4, <3>2 DEF ClientReadPrefix, serverVars
  <2> QED
    BY <2>3, <2>4
<1>6. ASSUME ClientReadAstray PROVE TypeOK'
  <2>1. CASE cpc' = "body" /\ cWant' = Astray /\ UNCHANGED calls
    BY <1>6, <2>1 DEF ClientReadAstray, serverVars
  <2>2. CASE EndCall("size") /\ UNCHANGED cWant
    <3>1. calls' \in Seq(Calls) /\ cpc' = "idle"
      BY <2>2, EndCallType DEF Outcomes
    <3> QED
      BY <1>6, <2>2, <3>1 DEF ClientReadAstray, serverVars
  <2> QED
    BY <1>6, <2>1, <2>2 DEF ClientReadAstray
<1>7. ASSUME ClientAnswered PROVE TypeOK'
  <2> DEFINE env == Head(down).env
  <2>1. Head(down) \in Units /\ Tail(down) \in Seq(Units)
    BY <1>7, StreamHead DEF ClientAnswered
  <2>2. env \in Envelopes
    BY <1>7, <2>1, BodyUnit DEF ClientAnswered, Opens
  <2>3. calls' \in Seq(Calls) /\ cpc' = "idle"
    <3>1. \E out \in Outcomes : EndCall(out)
      BY <1>7 DEF ClientAnswered, Outcomes
    <3> QED
      BY <3>1, EndCallType
  <2>4. cRecvSeq' \in Nat /\ accepted' \in Seq([call : Nat, n : Nat, item : Codes])
    <3>1. CASE UNCHANGED <<cRecvSeq, accepted>>
      BY <3>1
    <3>2. CASE /\ IsKind(env, "response") /\ cRecvSeq' = env.seq
               /\ accepted' = Append(accepted, [call |-> Len(calls),
                                                n |-> env.seq, item |-> env.body])
      <4>1. env.seq \in Nat /\ env.body \in Codes
        BY <2>2, <3>2, ResponseEnvelope
      <4>2. Len(calls) \in Nat
        BY LenProperties
      <4>3. [call |-> Len(calls), n |-> env.seq, item |-> env.body]
              \in [call : Nat, n : Nat, item : Codes]
        BY <4>1, <4>2
      <4> QED
        BY <3>2, <4>1, <4>3, AppendProperties
    <3> QED
      BY <1>7, <3>1, <3>2 DEF ClientAnswered
  <2> HIDE DEF env
  <2> QED
    BY <1>7, <2>1, <2>3, <2>4 DEF ClientAnswered, serverVars
<1>8. ASSUME ClientErrSeal PROVE TypeOK'
  <2>1. down' \in Seq(Units)
    BY <1>8, AfterBadBodyType DEF ClientErrSeal
  <2>2. calls' \in Seq(Calls) /\ cpc' = "idle"
    BY <1>8, EndCallType DEF ClientErrSeal, Outcomes
  <2> QED
    BY <1>8, <2>1, <2>2 DEF ClientErrSeal, serverVars
<1>9. ASSUME ClientReadFails PROVE TypeOK'
  <2>1. calls' \in Seq(Calls) /\ cpc' = "idle"
    BY <1>9, EndCallType DEF ClientReadFails, Outcomes
  <2> QED
    BY <1>9, <2>1 DEF ClientReadFails, serverVars
<1>10. ASSUME Close PROVE TypeOK'
  BY <1>10 DEF Close, serverVars
<1> QED
  BY <1>1, <1>2, <1>3, <1>4, <1>5, <1>6, <1>7, <1>8, <1>9, <1>10
     DEF ClientNext, ClientSends, ClientReads

LEMMA ServerTypeOK ==
  ASSUME TypeOK, ServerNext
  PROVE  TypeOK'
<1> USE DEF TypeOK
<1>1. ASSUME ServerHandshake PROVE TypeOK'
  <2>1. PICK salt \in Salts : /\ down' = down \o <<Hello(salt)>>
                              /\ sKey' = Key(ServerSecret, salt)
    BY <1>1 DEF ServerHandshake
  <2>2. <<Hello(salt)>> \in Seq(Units)
    BY DEF Hello, Units
  <2>3. down' \in Seq(Units)
    BY <2>1, <2>2, ConcatProperties
  <2>4. sKey' \in Keys
    BY <2>1 DEF Key, Keys
  <2> QED
    BY <1>1, <2>3, <2>4 DEF ServerHandshake, clientVars
<1>2. ASSUME ServerHandshakeFails PROVE TypeOK'
  BY <1>2 DEF ServerHandshakeFails, Return, Exits, clientVars
<1>3. ASSUME ServerReadPrefix PROVE TypeOK'
  <2>1. Head(up) \in Units /\ Tail(up) \in Seq(Units)
    BY <1>3, StreamHead DEF ServerReadPrefix
  <2>2. Head(up).n \in Nat
    BY <1>3, <2>1, PrefixUnit DEF ServerReadPrefix
  <2>3. CASE FitsReader(Head(up).n, ServerCap)
    <3>1. Head(up).n \in {Astray} \cup 0..ServerCap
      BY <2>2, <2>3, CapAssumption, FitsReaderBound
    <3> QED
      BY <1>3, <2>1, <2>3, <3>1 DEF ServerReadPrefix, clientVars
  <2>4. CASE ~FitsReader(Head(up).n, ServerCap)
    BY <1>3, <2>1, <2>4 DEF ServerReadPrefix, Return, Exits, clientVars
  <2> QED
    BY <2>3, <2>4
<1>4. ASSUME ServerReadAstray PROVE TypeOK'
  BY <1>4 DEF ServerReadAstray, Return, Exits, clientVars
<1>5. ASSUME AcceptMessage PROVE TypeOK'
  <2> DEFINE env == Head(up).env
  <2>1. Head(up) \in Units /\ Tail(up) \in Seq(Units)
    BY <1>5, StreamHead DEF AcceptMessage
  <2>2. env \in Envelopes
    BY <1>5, <2>1, BodyUnit DEF AcceptMessage, Opens
  <2>3. env.seq \in Nat /\ env.body \in Types
    BY <1>5, <2>2, MessageEnvelope DEF AcceptMessage
  <2>4. received' \in Seq([n : Nat, item : Types])
    <3>1. [n |-> env.seq, item |-> env.body] \in [n : Nat, item : Types]
      BY <2>3
    <3> QED
      BY <1>5, <3>1, AppendProperties DEF AcceptMessage
  <2>5. sMsg' \in [seq : Nat, type : Types] /\ sRecvSeq' \in Nat
    BY <1>5, <2>3 DEF AcceptMessage
  <2> HIDE DEF env
  <2> QED
    BY <1>5, <2>1, <2>4, <2>5 DEF AcceptMessage, clientVars
<1>6. ASSUME RejectReplayed PROVE TypeOK'
  <2> DEFINE env == Head(up).env
  <2>1. Head(up) \in Units /\ Tail(up) \in Seq(Units)
    BY <1>6, StreamHead DEF RejectReplayed
  <2>2. env \in Envelopes
    BY <1>6, <2>1, BodyUnit DEF RejectReplayed, Opens
  <2>3. env.seq \in Nat /\ env.body \in Types
    BY <1>6, <2>2, MessageEnvelope DEF RejectReplayed
  <2>4. sMsg' \in [seq : Nat, type : Types]
    BY <1>6, <2>3 DEF RejectReplayed
  <2>5. Respond("ERROR", "replay") /\ "ERROR" \in Codes
    BY <1>6 DEF RejectReplayed, Codes
  <2>6. /\ down' \in Seq(Units) /\ answers' \in Seq(Answers)
        /\ sSendSeq' \in Nat
    BY <2>4, <2>5, RespondType
  <2> HIDE DEF env
  <2> QED
    BY <1>6, <2>1, <2>4, <2>6
       DEF RejectReplayed, AfterReplay, Return, Exits, clientVars
<1>7. ASSUME ServerDropsFrame PROVE TypeOK'
  <2>1. up' \in Seq(Units)
    BY <1>7, StreamHead, AfterBadBodyType DEF ServerDropsFrame
  <2> QED
    BY <1>7, <2>1 DEF ServerDropsFrame, Return, Exits, clientVars
<1>8. ASSUME ServerReadFails PROVE TypeOK'
  BY <1>8 DEF ServerReadFails, Return, Exits, clientVars
<1>9. ASSUME Authorize PROVE TypeOK'
  BY <1>9 DEF Authorize, clientVars
<1>10. ASSUME Deny PROVE TypeOK'
  <2>1. /\ Respond("UNAUTHORIZED", "unauthorized") /\ "UNAUTHORIZED" \in Codes
        /\ sMsg' = sMsg
    BY <1>10 DEF Deny, Codes
  <2>2. /\ down' \in Seq(Units) /\ answers' \in Seq(Answers)
        /\ sSendSeq' \in Nat
    BY <2>1, RespondType
  <2> QED
    BY <1>10, <2>1, <2>2 DEF Deny, AfterDenial, Return, Exits, clientVars
<1>11. ASSUME Route PROVE TypeOK'
  BY <1>11 DEF Route, clientVars
<1>12. ASSUME RouteMissing PROVE TypeOK'
  <2>1. Respond("ERROR", "no_handler") /\ "ERROR" \in Codes /\ sMsg' = sMsg
    BY <1>12 DEF RouteMissing, Codes
  <2>2. /\ down' \in Seq(Units) /\ answers' \in Seq(Answers)
        /\ sSendSeq' \in Nat
    BY <2>1, RespondType
  <2> QED
    BY <1>12, <2>1, <2>2 DEF RouteMissing, clientVars
<1>13. ASSUME HandlerReturns PROVE TypeOK'
  <2>1. PICK code \in HandlerCodes : Respond(code, "handler")
    BY <1>13 DEF HandlerReturns
  <2>2. code \in Codes /\ sMsg' = sMsg
    BY <1>13 DEF HandlerReturns, Codes
  <2>3. /\ down' \in Seq(Units) /\ answers' \in Seq(Answers)
        /\ sSendSeq' \in Nat
    BY <2>1, <2>2, RespondType
  <2> QED
    BY <1>13, <2>2, <2>3 DEF HandlerReturns, clientVars
<1> QED
  BY <1>1, <1>2, <1>3, <1>4, <1>5, <1>6, <1>7, <1>8, <1>9, <1>10, <1>11,
     <1>12, <1>13 DEF ServerNext, ServerReads, ReceiveMessage, ServerServes

LEMMA StepTypeOK ==
  ASSUME TypeOK, [Next]_vars
  PROVE  TypeOK'
<1>1. ASSUME NEW type \in Types, RegisterHandler(type) PROVE TypeOK'
  BY <1>1 DEF RegisterHandler, TypeOK, clientVars
<1>2. CASE UNCHANGED vars
  BY <1>2 DEF TypeOK, vars, clientVars, serverVars
<1> QED
  BY <1>1, <1>2, ClientTypeOK, ServerTypeOK DEF Next

\* Every reachable state is well typed; in particular the buffer readFrame
\* allocates never exceeds the reader's own cap, whatever length the peer
\* announced.
THEOREM TypeCorrect == Spec => []TypeOK
BY InitTypeOK, StepTypeOK, PTL DEF Spec

-----------------------------------------------------------------------------
(* One answer for every message, and none after a rejection.               *)

\* OneAnswerEach says nothing between the sequence check and the response,
\* nor of the response counter; with that it is inductive.
AnswerInv ==
  /\ sSendSeq = Len(answers)
  /\ spc \in {"start", "len", "body"} => Len(received) = Len(answers)
  /\ spc \in {"auth", "route", "run"} =>
       /\ Len(received) = Len(answers) + 1
       /\ sMsg.seq = received[Len(received)].n
  /\ \A i \in 1..Len(answers) :
       answers[i].why # "replay" => /\ i \in 1..Len(received)
                                   /\ answers[i].re = received[i].n
  /\ (\E i \in 1..Len(answers) : answers[i].why \in {"unauthorized", "replay"})
       => spc = "closed"

LEMMA InitAnswerInv == Init => AnswerInv
BY EmptySeq DEF Init, AnswerInv

\* What Respond appends to the history.
LEMMA RespondAnswers ==
  ASSUME TypeOK, TypeOK', NEW code, NEW why, Respond(code, why)
  PROVE  /\ sSendSeq' = sSendSeq + 1
         /\ Len(answers') = Len(answers) + 1
         /\ \A i \in 1..Len(answers) : answers'[i] = answers[i]
         /\ answers'[Len(answers')].re = sMsg'.seq
         /\ answers'[Len(answers')].why = why
         /\ answers'[Len(answers')].item = code
<1> DEFINE frame == Frame(SealedResponse, sKey, Response(ResponseNumber, code))
<1> DEFINE a(w) == [re |-> sMsg'.seq, item |-> code, why |-> why, whole |-> w = frame]
<1>1. PICK w \in ResponseWrites(frame) : answers' = Append(answers, a(w))
  BY DEF Respond
<1> DEFINE new == a(w)
<1>2. new.re = sMsg'.seq /\ new.why = why /\ new.item = code
  OBVIOUS
<1> HIDE DEF new
<1>3. answers' = Append(answers, new) /\ answers \in Seq(Answers)
  BY <1>1 DEF new, TypeOK
<1>4. /\ Len(answers') = Len(answers) + 1
      /\ \A i \in 1..Len(answers) : answers'[i] = answers[i]
      /\ answers'[Len(answers')] = new
  BY <1>3
<1> QED
  BY <1>2, <1>4 DEF Respond, ResponseNumber

LEMMA AnswerLens ==
  ASSUME TypeOK
  PROVE  /\ Len(answers) \in Nat /\ Len(received) \in Nat /\ Len(calls) \in Nat
         /\ Len(accepted) \in Nat
         /\ DOMAIN answers = 1..Len(answers) /\ DOMAIN received = 1..Len(received)
         /\ DOMAIN calls = 1..Len(calls) /\ DOMAIN accepted = 1..Len(accepted)
BY LenProperties DEF TypeOK

\* An answer to the message being served, on any of the three paths.
LEMMA ServedAnswerInv ==
  ASSUME TypeOK, TypeOK', AnswerInv, spc \in {"auth", "route", "run"},
         NEW code, NEW why, why # "replay", Respond(code, why),
         UNCHANGED <<sMsg, received>>,
         \/ why # "unauthorized" /\ spc' = "len"
         \/ spc' = "closed"
  PROVE  AnswerInv'
<1>1. /\ sSendSeq' = sSendSeq + 1
      /\ Len(answers') = Len(answers) + 1
      /\ \A i \in 1..Len(answers) : answers'[i] = answers[i]
      /\ answers'[Len(answers')].re = sMsg.seq
      /\ answers'[Len(answers')].why = why
  BY RespondAnswers
<1>2. Len(answers) \in Nat /\ Len(received) = Len(answers) + 1
      /\ sMsg.seq = received[Len(received)].n
  BY AnswerLens DEF AnswerInv
<1>3. \A i \in 1..Len(answers') :
        answers'[i].why # "replay" => /\ i \in 1..Len(received')
                                     /\ answers'[i].re = received'[i].n
  BY <1>1, <1>2 DEF AnswerInv
<1>4. (\E i \in 1..Len(answers') : answers'[i].why \in {"unauthorized", "replay"})
        => spc' = "closed"
  BY <1>1, <1>2 DEF AnswerInv
<1> QED
  BY <1>1, <1>2, <1>3, <1>4 DEF AnswerInv

LEMMA StepAnswerInv ==
  ASSUME TypeOK, TypeOK', AnswerInv, [Next]_vars
  PROVE  AnswerInv'
<1>1. CASE UNCHANGED <<spc, sSendSeq, sMsg, received, answers>>
  BY <1>1 DEF AnswerInv
<1>2. CASE /\ UNCHANGED <<sSendSeq, sMsg, received, answers>>
           /\ \/ spc' = "closed"
              \/ spc \in {"start", "len", "body"} /\ spc' \in {"len", "body"}
              \/ spc \in {"auth", "route"} /\ spc' \in {"route", "run"}
  BY <1>2 DEF AnswerInv
<1>3. ASSUME AcceptMessage PROVE AnswerInv'
  <2> DEFINE new == [n |-> Head(up).env.seq, item |-> Head(up).env.body]
  <2>1. /\ received' = Append(received, new) /\ sMsg'.seq = new.n
        /\ UNCHANGED <<answers, sSendSeq>> /\ spc = "body" /\ spc' = "auth"
    BY <1>3 DEF AcceptMessage
  <2> HIDE DEF new
  <2>2. received \in Seq([n : Nat, item : Types])
    BY DEF TypeOK
  <2>3. /\ Len(received') = Len(received) + 1
        /\ \A i \in 1..Len(received) : received'[i] = received[i]
        /\ received'[Len(received')] = new
    BY <2>1, <2>2
  <2> QED
    BY <2>1, <2>3, AnswerLens DEF AnswerInv
<1>4. ASSUME RejectReplayed PROVE AnswerInv'
  <2>1. /\ Respond("ERROR", "replay") /\ spc' = "closed" /\ UNCHANGED received
    BY <1>4 DEF RejectReplayed, AfterReplay, Return
  <2>2. /\ sSendSeq' = sSendSeq + 1
        /\ Len(answers') = Len(answers) + 1
        /\ \A i \in 1..Len(answers) : answers'[i] = answers[i]
        /\ answers'[Len(answers')].why = "replay"
    BY <2>1, RespondAnswers
  <2>3. Len(answers) \in Nat
    BY AnswerLens
  <2>4. \A i \in 1..Len(answers') :
          answers'[i].why # "replay" => /\ i \in 1..Len(received')
                                       /\ answers'[i].re = received'[i].n
    BY <2>1, <2>2, <2>3 DEF AnswerInv
  <2>5. sSendSeq' = Len(answers')
    BY <2>2, <2>3 DEF AnswerInv
  <2> QED
    BY <2>1, <2>4, <2>5 DEF AnswerInv
<1>5. ASSUME Deny PROVE AnswerInv'
  <2>1. /\ Respond("UNAUTHORIZED", "unauthorized") /\ spc = "auth"
        /\ spc' = "closed" /\ UNCHANGED <<sMsg, received>>
    BY <1>5 DEF Deny, AfterDenial, Return
  <2> QED
    BY <2>1, ServedAnswerInv
<1>6. ASSUME RouteMissing PROVE AnswerInv'
  <2>1. /\ Respond("ERROR", "no_handler") /\ spc = "route"
        /\ spc' = "len" /\ UNCHANGED <<sMsg, received>>
    BY <1>6 DEF RouteMissing
  <2> QED
    BY <2>1, ServedAnswerInv
<1>7. ASSUME HandlerReturns PROVE AnswerInv'
  <2>1. PICK code \in HandlerCodes : Respond(code, "handler")
    BY <1>7 DEF HandlerReturns
  <2>2. spc = "run" /\ spc' = "len" /\ UNCHANGED <<sMsg, received>>
    BY <1>7 DEF HandlerReturns
  <2> QED
    BY <2>1, <2>2, ServedAnswerInv
<1>8. CASE ClientNext
  BY <1>1, <1>8 DEF ClientNext, ClientHandshake, ClientHandshakeFails,
     ClientSends, SendRefused, SendWritten, SendBroken, ClientReads,
     ClientReadPrefix, ClientReadAstray, ClientAnswered, ClientErrSeal,
     ClientReadFails, Close, serverVars
<1>9. CASE \E type \in Types : RegisterHandler(type)
  BY <1>1, <1>9 DEF RegisterHandler
<1>10. CASE ServerHandshake \/ ServerHandshakeFails \/ ServerReadPrefix
            \/ ServerReadAstray \/ ServerDropsFrame \/ ServerReadFails
            \/ Authorize \/ Route
  BY <1>2, <1>10 DEF ServerHandshake, ServerHandshakeFails, ServerReadPrefix,
     ServerReadAstray, ServerDropsFrame, ServerReadFails, Authorize, Route, Return
<1>11. CASE UNCHANGED vars
  BY <1>1, <1>11 DEF vars, serverVars
<1> QED
  BY <1>3, <1>4, <1>5, <1>6, <1>7, <1>8, <1>9, <1>10, <1>11
     DEF Next, ServerNext, ServerReads, ReceiveMessage, ServerServes

LEMMA AnswerInvariant == Spec => [](TypeOK /\ AnswerInv)
<1>1. Init => TypeOK /\ AnswerInv
  BY InitTypeOK, InitAnswerInv
<1>2. (TypeOK /\ AnswerInv) /\ [Next]_vars => (TypeOK /\ AnswerInv)'
  BY StepTypeOK, StepAnswerInv
<1> QED
  BY <1>1, <1>2, PTL DEF Spec

\* HandleConnection answers every message that passed its sequence check
\* exactly once, in order, on whichever path it leaves the loop body.
THEOREM OneAnswer == Spec => []OneAnswerEach
<1>1. TypeOK /\ AnswerInv => OneAnswerEach
  BY AnswerLens DEF AnswerInv, OneAnswerEach
<1> QED
  BY <1>1, AnswerInvariant, PTL

\* Once a message was rejected the server neither takes nor answers another.
LEMMA RejectedStays ==
  ASSUME TypeOK, AnswerInv, [Next]_vars, Rejected
  PROVE  UNCHANGED <<received, answers>>
<1>1. spc = "closed"
  BY AnswerLens DEF AnswerInv, Rejected
<1>2. CASE ClientNext
  BY <1>2 DEF ClientNext, ClientHandshake, ClientHandshakeFails,
     ClientSends, SendRefused, SendWritten, SendBroken, ClientReads,
     ClientReadPrefix, ClientReadAstray, ClientAnswered, ClientErrSeal,
     ClientReadFails, Close, serverVars
<1>3. CASE \E type \in Types : RegisterHandler(type)
  BY <1>3 DEF RegisterHandler
<1>4. ~ServerNext
  BY <1>1 DEF ServerNext, ServerHandshake, ServerHandshakeFails,
     ServerReads, ReceiveMessage,
     ServerReadPrefix, ServerReadAstray, AcceptMessage, RejectReplayed,
     ServerDropsFrame, ServerReadFails, ServerServes, Authorize, Deny, Route,
     RouteMissing, HandlerReturns
<1>5. CASE UNCHANGED vars
  BY <1>5 DEF vars, serverVars
<1> QED
  BY <1>2, <1>3, <1>4, <1>5 DEF Next

\* After UNAUTHORIZED, and after the ERROR for a replayed number, no message
\* is taken and no response is written on the connection.
THEOREM RejectionFinal == Spec => RejectionIsFinal
<1>1. TypeOK /\ AnswerInv /\ [Next]_vars
        => [Rejected => UNCHANGED <<received, answers>>]_vars
  BY RejectedStays
<1> QED
  BY <1>1, AnswerInvariant, PTL DEF Spec, RejectionIsFinal

-----------------------------------------------------------------------------
(***************************************************************************)
(* Each direction of a session implements OrderedDelivery, over a stream   *)
(* that keeps order and through the relay of RelaySession.                 *)
(*                                                                         *)
(* The inductive invariant says of every sealed body, on a stream or known *)
(* to the relay, that it is one of the messages the client numbered or one *)
(* of the responses the server numbered: nobody without the key makes a    *)
(* body, and no number is used twice.                                      *)
(***************************************************************************)

\* A body is what its number says.
Genuine(u) == u.part = "body" =>
  /\ u.env.kind = "message" => /\ u.env.seq \in 1..Len(calls)
                              /\ u.env.body = calls[u.env.seq].type
                              /\ u.key = cKey
  /\ u.env.kind = "response" => /\ u.env.seq \in 1..Len(answers)
                               /\ u.env.body = answers[u.env.seq].item
                               /\ u.key = sKey
GenuineUnits == {u \in Units : Genuine(u)}

LastNumber(s) == IF s = <<>> THEN 0 ELSE s[Len(s)].n

\* Counters and histories agree.
CounterInv ==
  /\ cSendSeq = Len(calls)
  /\ sRecvSeq = LastNumber(received)
  /\ cRecvSeq = LastNumber(accepted)

StreamInv == up \in Seq(GenuineUnits) /\ down \in Seq(GenuineUnits)

\* Nothing was sealed before the keys were derived.
StartInv ==
  /\ cpc = "hello" => calls = <<>>
  /\ spc = "start" => answers = <<>> /\ received = <<>>

SessionInv == TypeOK /\ AnswerInv /\ CounterInv /\ StartInv

\* What was sent stays sent, under its number and its key.
HistoryGrows ==
  /\ Len(calls') \in Nat /\ Len(answers') \in Nat
  /\ Len(calls) <= Len(calls') /\ Len(answers) <= Len(answers')
  /\ \A k \in 1..Len(calls) : calls'[k].type = calls[k].type
  /\ \A i \in 1..Len(answers) : answers'[i].item = answers[i].item
  /\ Len(calls) # 0 => cKey' = cKey
  /\ Len(answers) # 0 => sKey' = sKey

-----------------------------------------------------------------------------
(* What the steps of the session do to the histories.                      *)

LEMMA EndCallHistory ==
  ASSUME TypeOK, NEW out \in Outcomes, EndCall(out)
  PROVE  /\ Len(calls') = Len(calls)
         /\ \A k \in 1..Len(calls) : calls'[k].type = calls[k].type
<1>1. calls \in Seq(Calls)
  BY DEF TypeOK
<1>2. /\ Len(calls') = Len(calls)
      /\ \A k \in 1..Len(calls) :
           /\ k # Len(calls) => calls'[k] = calls[k]
           /\ k = Len(calls) => calls'[k] = [calls[k] EXCEPT !.out = out]
  BY <1>1, EndCallType
<1>3. \A k \in 1..Len(calls) : calls[k] \in Calls
  BY <1>1, ElementOfSeq
<1>4. \A c \in Calls : [c EXCEPT !.out = out].type = c.type
  BY DEF Calls
<1> QED
  BY <1>2, <1>3, <1>4

LEMMA StartCallHistory ==
  ASSUME TypeOK, NEW type \in Types, NEW v \in VarSizes, NEW out,
         StartCall(type, v, out)
  PROVE  /\ Len(calls') = Len(calls) + 1 /\ cSendSeq' = cSendSeq + 1
         /\ \A k \in 1..Len(calls) : calls'[k] = calls[k]
         /\ calls'[Len(calls')].type = type
<1> DEFINE new == [type |-> type, size |-> SealedMessage(v), out |-> out]
<1>1. calls' = Append(calls, new) /\ new.type = type
  BY DEF StartCall
<1> HIDE DEF new
<1>2. calls \in Seq(Calls)
  BY DEF TypeOK
<1>3. /\ Len(calls') = Len(calls) + 1
      /\ \A k \in 1..Len(calls) : calls'[k] = calls[k]
      /\ calls'[Len(calls')] = new
  BY <1>1, <1>2
<1> QED
  BY <1>1, <1>3 DEF StartCall

\* The steps that end a call, those that start one, those that respond, and
\* the rest.
EndsCall == ClientReads /\ \E out \in Outcomes : EndCall(out)
StartsCall == \E type \in Types, v \in VarSizes :
  SendRefused(type, v) \/ SendWritten(type, v) \/ SendBroken(type, v)
Reasons == {"handler", "no_handler", "unauthorized", "replay"}
Responds == RejectReplayed \/ Deny \/ RouteMissing \/ HandlerReturns

LEMMA StepKinds ==
  ASSUME [Next]_vars
  PROVE  \/ EndsCall /\ UNCHANGED <<answers, cSendSeq>>
         \/ StartsCall /\ UNCHANGED answers
         \/ Responds /\ UNCHANGED <<calls, cSendSeq>>
         \/ UNCHANGED <<calls, answers, cSendSeq>>
<1>1. CASE ClientReads
  <2>1. UNCHANGED <<answers, cSendSeq>>
    BY <1>1 DEF ClientReads, ClientReadPrefix, ClientReadAstray, ClientAnswered,
       ClientErrSeal, ClientReadFails, serverVars
  <2>2. UNCHANGED calls \/ \E out \in Outcomes : EndCall(out)
    BY <1>1 DEF ClientReads, ClientReadPrefix, ClientReadAstray, ClientAnswered,
       ClientErrSeal, ClientReadFails, Outcomes
  <2> QED
    BY <1>1, <2>1, <2>2 DEF EndsCall
<1>2. CASE ClientSends
  BY <1>2 DEF ClientSends, StartsCall, SendRefused, SendWritten, SendBroken,
     serverVars
<1>3. CASE ClientHandshake \/ ClientHandshakeFails \/ Close
  BY <1>3 DEF ClientHandshake, ClientHandshakeFails, Close, serverVars
<1>4. CASE Responds
  BY <1>4 DEF Responds, RejectReplayed, Deny, RouteMissing, HandlerReturns,
     clientVars
<1>5. CASE ServerNext /\ ~Responds
  BY <1>5 DEF Responds, ServerNext, ServerReads, ReceiveMessage, ServerServes,
     ServerHandshake,
     ServerHandshakeFails, ServerReadPrefix, ServerReadAstray, AcceptMessage,
     ServerDropsFrame, ServerReadFails, Authorize, Route, clientVars
<1>6. CASE \E type \in Types : RegisterHandler(type)
  BY <1>6 DEF RegisterHandler, clientVars
<1>7. CASE UNCHANGED vars
  BY <1>7 DEF vars, clientVars, serverVars
<1> QED
  BY <1>1, <1>2, <1>3, <1>4, <1>5, <1>6, <1>7 DEF Next, ClientNext

LEMMA RespondsHow ==
  ASSUME Responds
  PROVE  \E code \in Codes, why \in Reasons : Respond(code, why)
BY DEF Responds, RejectReplayed, Deny, RouteMissing, HandlerReturns, Codes,
   Reasons

LEMMA StartsHow ==
  ASSUME StartsCall
  PROVE  \E type \in Types, v \in VarSizes, out \in Outcomes : StartCall(type, v, out)
BY DEF StartsCall, SendRefused, SendWritten, SendBroken, Outcomes

\* Keys and the first steps of the two programs.
LEMMA StepKeys ==
  ASSUME [Next]_vars
  PROVE  /\ cKey' = cKey \/ cpc = "hello"
         /\ sKey' = sKey \/ spc = "start"
         /\ cpc' = "hello" => cpc = "hello" /\ UNCHANGED calls
         /\ spc' = "start" => spc = "start" /\ UNCHANGED <<answers, received>>
BY DEF Next, vars, clientVars, serverVars, RegisterHandler, ClientNext,
   ClientHandshake, ClientHandshakeFails, ClientSends, SendRefused, SendWritten,
   SendBroken, StartCall, EndCall, ClientReads, ClientReadPrefix, ClientReadAstray,
   ClientAnswered, ClientErrSeal, ClientReadFails, Close, Return, ServerNext,
   ServerHandshake, ServerHandshakeFails, ServerReads, ReceiveMessage,
   ServerReadPrefix,
   ServerReadAstray, AcceptMessage, RejectReplayed, AfterReplay, ServerDropsFrame,
   ServerReadFails, ServerServes, Authorize, Deny, AfterDenial, Route,
   RouteMissing, HandlerReturns

LEMMA StepStart ==
  ASSUME StartInv, [Next]_vars
  PROVE  StartInv'
BY StepKeys DEF StartInv

LEMMA StepHistory ==
  ASSUME TypeOK, TypeOK', StartInv, [Next]_vars
  PROVE  HistoryGrows
<1>1. /\ Len(calls) \in Nat /\ Len(answers) \in Nat
      /\ Len(calls') \in Nat /\ Len(answers') \in Nat
  BY LenProperties DEF TypeOK
<1>2. (Len(calls) # 0 => cKey' = cKey) /\ (Len(answers) # 0 => sKey' = sKey)
  BY StepKeys, EmptySeq DEF StartInv, TypeOK
<1>3. CASE EndsCall /\ UNCHANGED answers
  BY <1>1, <1>2, <1>3, EndCallHistory DEF EndsCall, HistoryGrows
<1>4. CASE StartsCall /\ UNCHANGED answers
  <2>1. PICK type \in Types, v \in VarSizes, out \in Outcomes : StartCall(type, v, out)
    BY <1>4, StartsHow
  <2>2. /\ Len(calls') = Len(calls) + 1
        /\ \A k \in 1..Len(calls) : calls'[k] = calls[k]
    BY <2>1, StartCallHistory
  <2> QED
    BY <1>1, <1>2, <1>4, <2>2 DEF HistoryGrows
<1>5. CASE Responds /\ UNCHANGED calls
  <2>1. PICK code \in Codes, why \in Reasons : Respond(code, why)
    BY <1>5, RespondsHow
  <2>2. /\ Len(answers') = Len(answers) + 1
        /\ \A i \in 1..Len(answers) : answers'[i] = answers[i]
    BY <2>1, RespondAnswers
  <2> QED
    BY <1>1, <1>2, <1>5, <2>2 DEF HistoryGrows
<1>6. CASE UNCHANGED <<calls, answers>>
  BY <1>1, <1>2, <1>6 DEF HistoryGrows
<1> QED
  BY <1>3, <1>4, <1>5, <1>6, StepKinds

LEMMA GenuineGrows ==
  ASSUME TypeOK, HistoryGrows
  PROVE  GenuineUnits \subseteq GenuineUnits'
<1>1. Len(calls) \in Nat /\ Len(answers) \in Nat
  BY AnswerLens
<1> QED
  BY <1>1 DEF HistoryGrows, GenuineUnits, Genuine

-----------------------------------------------------------------------------
(* What the steps of the session do to the streams.                        *)

\* Reading only removes units.
LEMMA ReadGenuine ==
  ASSUME TypeOK, HistoryGrows, NEW s \in Seq(GenuineUnits), NEW rest, NEW want,
         \/ rest = s
         \/ s # <<>> /\ rest = Tail(s)
         \/ s # <<>> /\ rest \in AfterBadBody(s, want)
  PROVE  rest \in Seq(GenuineUnits')
<1>1. rest \in Seq(GenuineUnits)
  BY StreamHead, AfterBadBodyType
<1> QED
  BY <1>1, GenuineGrows, SeqMonotonic

\* The frame of a message carries the number and the type of its call.
LEMMA SentGenuine ==
  ASSUME TypeOK, TypeOK', CounterInv, NEW type \in Types, NEW v \in VarSizes,
         NEW out \in Outcomes, StartCall(type, v, out), cKey' = cKey
  PROVE  LET frame == Frame(SealedMessage(v), cKey, Message(cSendSeq', type))
         IN /\ frame \in Seq(GenuineUnits')
            /\ Torn(frame) \subseteq Seq(GenuineUnits')
<1> DEFINE n == SealedMessage(v)
           env == Message(cSendSeq', type)
<1>1. /\ Len(calls') = Len(calls) + 1 /\ cSendSeq' = cSendSeq + 1
      /\ calls'[Len(calls')].type = type
  BY StartCallHistory
<1>2. cSendSeq' = Len(calls') /\ cSendSeq' \in 1..Len(calls')
  BY <1>1, AnswerLens DEF CounterInv
<1>3. n \in Nat
  BY StartCallType DEF TypeOK
<1>4. env \in Envelopes
  BY <1>2, AnswerLens DEF Message, Envelopes, TypeOK
<1>5. cKey \in Keys
  BY DEF TypeOK
<1>6. /\ Prefix(n % LenModulus) \in Units /\ Sealed(n, cKey, env) \in Units
      /\ Scrap \in Units
  BY <1>3, <1>4, <1>5, FrameUnits
<1>7. /\ Prefix(n % LenModulus) \in GenuineUnits' /\ Scrap \in GenuineUnits'
  BY <1>6 DEF GenuineUnits, Genuine, Prefix, Scrap
<1>8. Sealed(n, cKey, env) \in GenuineUnits'
  <2>1. /\ Sealed(n, cKey, env).env = env /\ Sealed(n, cKey, env).key = cKey
        /\ env.kind = "message" /\ env.seq = cSendSeq' /\ env.body = type
    BY DEF Sealed, Message
  <2> HIDE DEF env
  <2> QED
    BY <1>1, <1>2, <1>6, <2>1 DEF GenuineUnits, Genuine
<1> QED
  BY <1>7, <1>8, FrameIn

\* The frame of a response carries the number and the code of its answer.
LEMMA RespondedGenuine ==
  ASSUME TypeOK, TypeOK', AnswerInv, HistoryGrows, NEW code \in Codes, NEW why,
         Respond(code, why), sKey' = sKey, down \in Seq(GenuineUnits)
  PROVE  down' \in Seq(GenuineUnits')
<1> DEFINE n == SealedResponse
           env == Response(ResponseNumber, code)
           frame == Frame(n, sKey, env)
<1>1. /\ sSendSeq' = sSendSeq + 1 /\ Len(answers') = Len(answers) + 1
      /\ answers'[Len(answers')].item = code
  BY RespondAnswers
<1>a. sSendSeq = Len(answers)
  BY DEF AnswerInv
<1>b. Len(answers) \in Nat
  BY AnswerLens
<1>2. /\ ResponseNumber = Len(answers') /\ ResponseNumber \in 1..Len(answers')
      /\ ResponseNumber \in Nat
  BY <1>1, <1>a, <1>b DEF ResponseNumber
<1>3. n \in Nat
  BY DEF SealedResponse, MinFrameSizeV2, NonceSize, GCMTagSize
<1>4. env \in Envelopes
  BY <1>2 DEF Response, Envelopes
<1>5. sKey \in Keys
  BY DEF TypeOK
<1>6. /\ Prefix(n % LenModulus) \in Units /\ Sealed(n, sKey, env) \in Units
      /\ Scrap \in Units
  BY <1>3, <1>4, <1>5, FrameUnits
<1>7. /\ Prefix(n % LenModulus) \in GenuineUnits' /\ Scrap \in GenuineUnits'
  BY <1>6 DEF GenuineUnits, Genuine, Prefix, Scrap
<1>8. Sealed(n, sKey, env) \in GenuineUnits'
  <2>1. /\ Sealed(n, sKey, env).env = env /\ Sealed(n, sKey, env).key = sKey
        /\ env.kind = "response" /\ env.seq = ResponseNumber /\ env.body = code
    BY DEF Sealed, Response
  <2> HIDE DEF env
  <2> QED
    BY <1>1, <1>2, <1>6, <2>1 DEF GenuineUnits, Genuine
<1>9. frame \in Seq(GenuineUnits') /\ Torn(frame) \subseteq Seq(GenuineUnits')
  BY <1>7, <1>8, FrameIn
<1> HIDE DEF frame
<1>10. ResponseWrites(frame) \subseteq Seq(GenuineUnits')
  BY <1>9, EmptySeq DEF ResponseWrites
<1>11. \E w \in ResponseWrites(frame) : down' = down \o w
  BY DEF Respond, frame
<1>12. down \in Seq(GenuineUnits')
  BY GenuineGrows, SeqMonotonic
<1> QED
  BY <1>10, <1>11, <1>12, ConcatProperties

LEMMA StepStreams ==
  ASSUME SessionInv, TypeOK', StreamInv, [Next]_vars
  PROVE  StreamInv'
<1> USE DEF SessionInv
<1>1. HistoryGrows
  BY StepHistory
<1>2. up \in Seq(GenuineUnits) /\ down \in Seq(GenuineUnits)
  BY DEF StreamInv
<1>3. up \in Seq(GenuineUnits') /\ down \in Seq(GenuineUnits')
  BY <1>1, <1>2, ReadGenuine
<1>4. CASE UNCHANGED <<up, down>>
  BY <1>3, <1>4 DEF StreamInv
<1>5. CASE ClientHandshake \/ ClientReadPrefix \/ ClientAnswered \/ ClientErrSeal
  <2>1. /\ up' = up
        /\ down # <<>> /\ (down' = Tail(down) \/ down' \in AfterBadBody(down, cWant))
    BY <1>5 DEF ClientHandshake, ClientReadPrefix, ClientAnswered, ClientErrSeal
  <2> QED
    BY <1>1, <1>2, <1>3, <2>1, ReadGenuine DEF StreamInv
<1>6. CASE ServerReadPrefix \/ AcceptMessage \/ ServerDropsFrame
  <2>1. /\ down' = down
        /\ up # <<>> /\ (up' = Tail(up) \/ up' \in AfterBadBody(up, sWant))
    BY <1>6 DEF ServerReadPrefix, AcceptMessage, ServerDropsFrame
  <2> QED
    BY <1>1, <1>2, <1>3, <2>1, ReadGenuine DEF StreamInv
<1>7. ASSUME NEW type \in Types, NEW v \in VarSizes,
             SendWritten(type, v) \/ SendBroken(type, v)
      PROVE  StreamInv'
  <2> DEFINE frame == Frame(SealedMessage(v), cKey, Message(cSendSeq', type))
  <2>1. PICK out \in Outcomes : StartCall(type, v, out)
    BY <1>7 DEF SendWritten, SendBroken, Outcomes
  <2>a. cKey' = cKey
    BY <1>7 DEF SendWritten, SendBroken
  <2>2. frame \in Seq(GenuineUnits') /\ Torn(frame) \subseteq Seq(GenuineUnits')
    BY <2>1, <2>a, SentGenuine
  <2>3. (\E w \in Seq(GenuineUnits') : up' = up \o w) /\ down' = down
    BY <1>7, <2>2 DEF SendWritten, SendBroken
  <2> QED
    BY <1>3, <2>3, ConcatProperties DEF StreamInv
<1>8. CASE ServerHandshake
  <2>1. PICK salt \in Salts : down' = down \o <<Hello(salt)>> /\ up' = up
    BY <1>8 DEF ServerHandshake
  <2>2. Hello(salt) \in GenuineUnits'
    BY DEF Hello, GenuineUnits, Genuine, Units
  <2>3. <<Hello(salt)>> \in Seq(GenuineUnits')
    BY <2>2
  <2> QED
    BY <1>3, <2>1, <2>3, ConcatProperties DEF StreamInv
<1>9. CASE Responds
  <2>1. \E code \in Codes, why \in Reasons : Respond(code, why)
    BY <1>9, RespondsHow
  <2>a. sKey' = sKey
    BY <1>9 DEF Responds, RejectReplayed, Deny, RouteMissing, HandlerReturns
  <2>2. down' \in Seq(GenuineUnits')
    BY <1>1, <1>2, <2>1, <2>a, RespondedGenuine
  <2>3. up' = up \/ (up # <<>> /\ up' = Tail(up))
    BY <1>9 DEF Responds, RejectReplayed, Deny, RouteMissing, HandlerReturns
  <2> QED
    BY <1>1, <1>2, <1>3, <2>2, <2>3, ReadGenuine DEF StreamInv
<1>10. CASE \/ ClientHandshakeFails \/ ClientReadAstray \/ ClientReadFails \/ Close
            \/ ServerHandshakeFails \/ ServerReadAstray \/ ServerReadFails
            \/ Authorize \/ Route \/ UNCHANGED vars
            \/ \E type \in Types : RegisterHandler(type)
            \/ \E type \in Types, v \in VarSizes : SendRefused(type, v)
  BY <1>4, <1>10 DEF ClientHandshakeFails, ClientReadAstray, ClientReadFails,
     Close, ServerHandshakeFails, ServerReadAstray, ServerReadFails, Authorize,
     Route, RegisterHandler, SendRefused, vars
<1> QED
  BY <1>5, <1>6, <1>7, <1>8, <1>9, <1>10 DEF Responds, Next, ClientNext,
     ClientSends, ClientReads, ServerNext, ServerReads, ReceiveMessage,
     ServerServes

-----------------------------------------------------------------------------
(* The counters.                                                           *)

LEMMA AppendLast ==
  ASSUME NEW S, NEW s \in Seq(S), NEW e \in S
  PROVE  /\ Append(s, e) # <<>>
         /\ LastNumber(Append(s, e)) = e.n
<1>1. /\ Len(s) \in Nat /\ Len(Append(s, e)) = Len(s) + 1
      /\ Append(s, e)[Len(s) + 1] = e
  BY AppendProperties, LenProperties
<1> QED
  BY <1>1 DEF LastNumber

\* Who takes what.
LEMMA ServerTakes ==
  ASSUME [Next]_vars
  PROVE  \/ AcceptMessage
         \/ UNCHANGED <<sRecvSeq, received>>
BY DEF Next, vars, serverVars, RegisterHandler, ClientNext, ClientHandshake,
   ClientHandshakeFails, ClientSends, SendRefused, SendWritten, SendBroken,
   ClientReads, ClientReadPrefix, ClientReadAstray, ClientAnswered,
   ClientErrSeal, ClientReadFails, Close, ServerNext, ServerHandshake,
   ServerHandshakeFails, ServerReads, ReceiveMessage, ServerReadPrefix,
   ServerReadAstray,
   RejectReplayed, ServerDropsFrame, ServerReadFails, ServerServes, Authorize,
   Deny, Route, RouteMissing, HandlerReturns

\* The client takes a code: what it read, and what that does.
TakesCode ==
  LET env == Head(down).env IN
  /\ down # <<>> /\ Opens(Head(down), cWant, cKey)
  /\ IsKind(env, "response") /\ Fresh(env.seq, cRecvSeq)
  /\ cRecvSeq' = env.seq
  /\ accepted' = Append(accepted, [call |-> Len(calls), n |-> env.seq,
                                   item |-> env.body])
  /\ cpc' = "idle"
  /\ UNCHANGED <<cKey, sKey, spc, answers>>

LEMMA ClientTakes ==
  ASSUME [Next]_vars
  PROVE  \/ TakesCode
         \/ UNCHANGED <<cRecvSeq, accepted>>
<1>1. CASE ClientAnswered
  BY <1>1 DEF ClientAnswered, TakesCode, EndCall, serverVars
<1>2. CASE ~ClientAnswered
  BY <1>2 DEF Next, vars, clientVars, RegisterHandler, ClientNext,
   ClientHandshake, ClientHandshakeFails, ClientSends, SendRefused, SendWritten,
   SendBroken, ClientReads, ClientReadPrefix, ClientReadAstray, ClientErrSeal,
   ClientReadFails, Close, ServerNext, ServerHandshake, ServerHandshakeFails,
   ServerReads, ReceiveMessage, ServerReadPrefix, ServerReadAstray,
   AcceptMessage,
   RejectReplayed, ServerDropsFrame, ServerReadFails, ServerServes, Authorize,
   Deny, Route, RouteMissing, HandlerReturns
<1> QED
  BY <1>1, <1>2

LEMMA StepCounters ==
  ASSUME SessionInv, TypeOK', [Next]_vars
  PROVE  CounterInv'
<1> USE DEF SessionInv
<1>1. cSendSeq' = Len(calls')
  <2>1. Len(calls) \in Nat /\ cSendSeq = Len(calls)
    BY AnswerLens DEF CounterInv
  <2>2. CASE EndsCall /\ UNCHANGED cSendSeq
    BY <2>1, <2>2, EndCallHistory DEF EndsCall
  <2>3. CASE StartsCall
    BY <2>1, <2>3, StartsHow, StartCallHistory
  <2>4. CASE UNCHANGED <<calls, cSendSeq>>
    BY <2>1, <2>4
  <2> QED
    BY <2>2, <2>3, <2>4, StepKinds
<1>2. sRecvSeq' = LastNumber(received')
  <2>1. CASE AcceptMessage
    <3> DEFINE new == [n |-> Head(up).env.seq, item |-> Head(up).env.body]
    <3>1. received' = Append(received, new) /\ sRecvSeq' = new.n
      BY <2>1 DEF AcceptMessage
    <3>2. new \in [n : Nat, item : Types]
      <4>1. Head(up) \in Units
        BY <2>1, StreamHead DEF AcceptMessage, TypeOK
      <4>2. Head(up).env \in Envelopes /\ IsKind(Head(up).env, "message")
        BY <2>1, <4>1, BodyUnit DEF AcceptMessage, Opens
      <4>3. Head(up).env.seq \in Nat /\ Head(up).env.body \in Types
        BY <4>2, MessageEnvelope
      <4> QED
        BY <4>3
    <3> HIDE DEF new
    <3>3. received \in Seq([n : Nat, item : Types])
      BY DEF TypeOK
    <3>4. LastNumber(Append(received, new)) = new.n
      BY <3>2, <3>3, AppendLast
    <3> QED
      BY <3>1, <3>4
  <2>2. CASE UNCHANGED <<sRecvSeq, received>>
    BY <2>2 DEF CounterInv, LastNumber
  <2> QED
    BY <2>1, <2>2, ServerTakes
<1>3. cRecvSeq' = LastNumber(accepted')
  <2>1. CASE TakesCode
    <3> DEFINE new == [call |-> Len(calls), n |-> Head(down).env.seq,
                       item |-> Head(down).env.body]
    <3>1. accepted' = Append(accepted, new) /\ cRecvSeq' = new.n
      BY <2>1 DEF TakesCode
    <3>2. new \in [call : Nat, n : Nat, item : Codes]
      <4>1. Head(down) \in Units
        BY <2>1, StreamHead DEF TakesCode, TypeOK
      <4>2. Head(down).env \in Envelopes /\ IsKind(Head(down).env, "response")
        BY <2>1, <4>1, BodyUnit DEF TakesCode, Opens
      <4>3. Head(down).env.seq \in Nat /\ Head(down).env.body \in Codes
        BY <4>2, ResponseEnvelope
      <4>4. Len(calls) \in Nat
        BY AnswerLens
      <4> QED
        BY <4>3, <4>4
    <3> HIDE DEF new
    <3>3. accepted \in Seq([call : Nat, n : Nat, item : Codes])
      BY DEF TypeOK
    <3>4. LastNumber(Append(accepted, new)) = new.n
      BY <3>2, <3>3, AppendLast
    <3> QED
      BY <3>1, <3>4
  <2>2. CASE UNCHANGED <<cRecvSeq, accepted>>
    BY <2>2 DEF CounterInv, LastNumber
  <2> QED
    BY <2>1, <2>2, ClientTakes
<1> QED
  BY <1>1, <1>2, <1>3 DEF CounterInv

LEMMA StepSessionInv ==
  ASSUME SessionInv, [Next]_vars
  PROVE  SessionInv'
BY StepTypeOK, StepAnswerInv, StepCounters, StepStart DEF SessionInv

LEMMA InitSessionInv == Init => SessionInv /\ StreamInv
<1> SUFFICES ASSUME Init PROVE SessionInv /\ StreamInv
  OBVIOUS
<1>1. CounterInv /\ StreamInv /\ StartInv
  BY EmptySeq DEF Init, CounterInv, StreamInv, LastNumber, StartInv
<1> QED
  BY <1>1, InitTypeOK, InitAnswerInv DEF SessionInv

-----------------------------------------------------------------------------
(* The refinement.                                                         *)

SentUp == [k \in DOMAIN calls |-> calls[k].type]
SentDown == [i \in DOMAIN answers |-> answers[i].item]
TakenDown == [i \in DOMAIN accepted |-> [n |-> accepted[i].n,
                                        item |-> accepted[i].item]]

LEMMA SameRange ==
  ASSUME NEW a \in Nat, NEW b \in Nat, 1..a = 1..b
  PROVE  a = b
<1>1. CASE a < b
  <2>1. b \in 1..b /\ b \notin 1..a
    BY <1>1
  <2> QED
    BY <2>1
<1>2. CASE b < a
  <2>1. a \in 1..a /\ a \notin 1..b
    BY <1>2
  <2> QED
    BY <2>1
<1> QED
  BY <1>1, <1>2

\* A function on 1..m is a sequence of m elements.
LEMMA ImageLen ==
  ASSUME NEW m \in Nat, NEW f, f = [i \in 1..m |-> f[i]]
  PROVE  Len(f) = m /\ (f = <<>> <=> m = 0)
<1> DEFINE S == {f[i] : i \in 1..m}
<1>1. f \in [1..m -> S]
  OBVIOUS
<1> HIDE DEF S
<1>2. f \in Seq(S)
  <2>1. \A n \in Nat : [1..n -> S] \subseteq Seq(S)
    BY SeqDef
  <2> QED
    BY <1>1, <2>1
<1>3. Len(f) \in Nat /\ DOMAIN f = 1..Len(f)
  BY <1>2, LenProperties
<1>4. DOMAIN f = 1..m
  BY <1>1
<1>5. Len(f) = m
  <2>1. 1..Len(f) = 1..m
    BY <1>3, <1>4
  <2> QED
    BY <1>3, <2>1, SameRange
<1>6. f = <<>> <=> Len(f) = 0
  BY <1>2, EmptySeq
<1> QED
  BY <1>5, <1>6

\* The image of a sequence that grew by one.
LEMMA ImageAppend ==
  ASSUME NEW m \in Nat,
         NEW f, f = [i \in 1..m |-> f[i]],
         NEW g, g = [i \in 1..(m + 1) |-> g[i]],
         \A i \in 1..m : g[i] = f[i]
  PROVE  g = Append(f, g[m + 1])
<1> DEFINE S == {f[i] : i \in 1..m} \cup {g[m + 1]}
<1>1. f \in [1..m -> S] /\ g \in [1..(m + 1) -> S] /\ g[m + 1] \in S
  OBVIOUS
<1> HIDE DEF S
<1>2. f \in Seq(S) /\ g \in Seq(S)
  <2>1. \A n \in Nat : [1..n -> S] \subseteq Seq(S)
    BY SeqDef
  <2>2. m + 1 \in Nat
    OBVIOUS
  <2> QED
    BY <1>1, <2>1, <2>2
<1>3. Len(f) = m /\ Len(g) = m + 1
  <2>1. m + 1 \in Nat
    OBVIOUS
  <2> QED
    BY <2>1, ImageLen
<1>4. /\ Append(f, g[m + 1]) \in Seq(S)
      /\ Len(Append(f, g[m + 1])) = m + 1
      /\ \A i \in 1..m : Append(f, g[m + 1])[i] = f[i]
      /\ Append(f, g[m + 1])[m + 1] = g[m + 1]
  BY <1>1, <1>2, <1>3, AppendProperties
<1>5. \A i \in 1..(m + 1) : g[i] = Append(f, g[m + 1])[i]
  <2> SUFFICES ASSUME NEW i \in 1..(m + 1)
               PROVE  g[i] = Append(f, g[m + 1])[i]
    OBVIOUS
  <2>1. CASE i \in 1..m
    BY <1>4, <2>1
  <2>2. CASE i = m + 1
    BY <1>4, <2>2
  <2> QED
    BY <2>1, <2>2
<1> QED
  BY <1>2, <1>3, <1>4, <1>5, SeqEqual

LEMMA UpInit == Init => Up!Init
BY EmptySeq DEF Init, Up!Init

LEMMA DownInit == Init => Down!Init
BY EmptySeq DEF Init, Down!Init

LEMMA StepSentUp ==
  ASSUME SessionInv, TypeOK', [Next]_vars
  PROVE  \/ /\ UNCHANGED received
            /\ \E type \in Types : SentUp' = Append(SentUp, type)
         \/ SentUp' = SentUp
<1> USE DEF SessionInv
<1>1. /\ DOMAIN calls = 1..Len(calls) /\ DOMAIN calls' = 1..Len(calls')
      /\ Len(calls) \in Nat /\ Len(calls') \in Nat
      /\ calls \in Seq(Calls) /\ calls' \in Seq(Calls)
  BY LenProperties DEF TypeOK
<1>2. CASE EndsCall
  <2>1. /\ Len(calls') = Len(calls)
        /\ \A k \in 1..Len(calls) : calls'[k].type = calls[k].type
    BY <1>2, EndCallHistory DEF EndsCall
  <2> QED
    BY <1>1, <2>1 DEF SentUp
<1>3. CASE StartsCall
  <2>1. PICK type \in Types, v \in VarSizes, out \in Outcomes : StartCall(type, v, out)
    BY <1>3, StartsHow
  <2>2. /\ Len(calls') = Len(calls) + 1
        /\ \A k \in 1..Len(calls) : calls'[k] = calls[k]
        /\ calls'[Len(calls')].type = type
    BY <2>1, StartCallHistory
  <2>3. SentUp' = Append(SentUp, SentUp'[Len(calls')])
    <3>1. SentUp = [i \in 1..Len(calls) |-> SentUp[i]]
      BY <1>1 DEF SentUp
    <3>2. SentUp' = [i \in 1..Len(calls') |-> SentUp'[i]]
      BY <1>1 DEF SentUp
    <3>3. \A i \in 1..Len(calls) : SentUp'[i] = SentUp[i]
      BY <1>1, <2>2 DEF SentUp
    <3> QED
      BY <1>1, <2>2, <3>1, <3>2, <3>3, ImageAppend
  <2>4. SentUp'[Len(calls')] = type
    BY <1>1, <2>2 DEF SentUp
  <2>5. UNCHANGED received
    BY <1>3 DEF StartsCall, SendRefused, SendWritten, SendBroken, serverVars
  <2> QED
    BY <2>3, <2>4, <2>5
<1>4. CASE UNCHANGED calls
  BY <1>4 DEF SentUp
<1> QED
  BY <1>2, <1>3, <1>4, StepKinds

\* A message that passes the sequence check is the one its number names.
LEMMA AcceptTakes ==
  ASSUME SessionInv, StreamInv, AcceptMessage
  PROVE  \E n \in DOMAIN SentUp :
           /\ n > LastNumber(received)
           /\ received' = Append(received, [n |-> n, item |-> SentUp[n]])
           /\ UNCHANGED calls
<1> DEFINE env == Head(up).env
<1>1. Head(up) \in GenuineUnits
  BY StreamHead DEF AcceptMessage, StreamInv
<1>2. env.kind = "message" /\ Head(up).part = "body"
  BY DEF AcceptMessage, IsKind, Opens
<1>3. env.seq \in 1..Len(calls) /\ env.body = calls[env.seq].type
  BY <1>1, <1>2 DEF GenuineUnits, Genuine
<1>4. env.seq > LastNumber(received)
  BY DEF AcceptMessage, Fresh, SessionInv, CounterInv
<1>5. /\ received' = Append(received, [n |-> env.seq, item |-> env.body])
      /\ UNCHANGED calls
  BY DEF AcceptMessage, clientVars
<1>6. env.seq \in DOMAIN SentUp /\ SentUp[env.seq] = env.body
  BY <1>3, AnswerLens DEF SentUp, SessionInv
<1> QED
  BY <1>4, <1>5, <1>6

LEMMA UpStep ==
  ASSUME SessionInv, StreamInv, TypeOK', [Next]_vars
  PROVE  [Up!Next]_(Up!vars)
<1>1. CASE AcceptMessage
  <2>1. PICK n \in DOMAIN SentUp :
           /\ n > LastNumber(received)
           /\ received' = Append(received, [n |-> n, item |-> SentUp[n]])
           /\ UNCHANGED calls
    BY <1>1, AcceptTakes
  <2>2. Up!Take(n)
    BY <2>1 DEF Up!Take, Up!LastTaken, LastNumber, SentUp
  <2> QED
    BY <2>2 DEF Up!Next, SentUp
<1>2. CASE UNCHANGED received
  BY <1>2, StepSentUp DEF Up!Next, Up!Send, Up!vars, SentUp
<1> QED
  BY <1>1, <1>2, ServerTakes

LEMMA StepSentDown ==
  ASSUME SessionInv, TypeOK', [Next]_vars
  PROVE  \/ /\ UNCHANGED accepted
            /\ \E code \in Codes : SentDown' = Append(SentDown, code)
         \/ SentDown' = SentDown
<1> USE DEF SessionInv
<1>1. /\ Len(answers) \in Nat
      /\ DOMAIN answers = 1..Len(answers) /\ DOMAIN answers' = 1..Len(answers')
  BY LenProperties DEF TypeOK
<1>2. CASE Responds
  <2>1. PICK code \in Codes, why \in Reasons : Respond(code, why)
    BY <1>2, RespondsHow
  <2>2. /\ Len(answers') = Len(answers) + 1
        /\ \A i \in 1..Len(answers) : answers'[i] = answers[i]
        /\ answers'[Len(answers) + 1].item = code
    BY <2>1, RespondAnswers
  <2>3. SentDown' = Append(SentDown, SentDown'[Len(answers) + 1])
    <3>1. SentDown = [i \in 1..Len(answers) |-> SentDown[i]]
      BY <1>1 DEF SentDown
    <3>2. SentDown' = [i \in 1..(Len(answers) + 1) |-> SentDown'[i]]
      BY <1>1, <2>2 DEF SentDown
    <3>3. \A i \in 1..Len(answers) : SentDown'[i] = SentDown[i]
      BY <1>1, <2>2 DEF SentDown
    <3> QED
      BY <1>1, <3>1, <3>2, <3>3, ImageAppend
  <2>4. SentDown'[Len(answers) + 1] = code
    BY <1>1, <2>2 DEF SentDown
  <2>5. UNCHANGED accepted
    BY <1>2 DEF Responds, RejectReplayed, Deny, RouteMissing, HandlerReturns,
       clientVars
  <2> QED
    BY <2>3, <2>4, <2>5
<1>3. CASE UNCHANGED answers
  BY <1>3 DEF SentDown
<1> QED
  BY <1>2, <1>3, StepKinds

\* The image of the accepted codes ends in the same number.
LEMMA TakenLast ==
  ASSUME TypeOK
  PROVE  LastNumber(TakenDown) = LastNumber(accepted)
<1>1. /\ Len(accepted) \in Nat /\ DOMAIN accepted = 1..Len(accepted)
      /\ accepted = <<>> <=> Len(accepted) = 0
  BY AnswerLens, EmptySeq DEF TypeOK
<1>2. TakenDown = [i \in 1..Len(accepted) |-> TakenDown[i]]
  BY <1>1 DEF TakenDown
<1>3. Len(TakenDown) = Len(accepted) /\ (TakenDown = <<>> <=> Len(accepted) = 0)
  BY <1>1, <1>2, ImageLen
<1>4. \A i \in 1..Len(accepted) : TakenDown[i].n = accepted[i].n
  BY <1>1 DEF TakenDown
<1> QED
  BY <1>1, <1>3, <1>4 DEF LastNumber

\* A code the client takes is the one its number names.
LEMMA CodeTaken ==
  ASSUME SessionInv, TypeOK', StreamInv, TakesCode
  PROVE  \E n \in DOMAIN SentDown :
           /\ n > LastNumber(TakenDown)
           /\ TakenDown' = Append(TakenDown, [n |-> n, item |-> SentDown[n]])
           /\ UNCHANGED answers
<1> DEFINE env == Head(down).env
           new == [call |-> Len(calls), n |-> env.seq, item |-> env.body]
<1>1. Head(down) \in GenuineUnits
  BY StreamHead DEF TakesCode, StreamInv
<1>2. env.kind = "response" /\ Head(down).part = "body"
  BY DEF TakesCode, IsKind, Opens
<1>3. env.seq \in 1..Len(answers) /\ env.body = answers[env.seq].item
  BY <1>1, <1>2 DEF GenuineUnits, Genuine
<1>4. env.seq > LastNumber(accepted)
  BY DEF TakesCode, Fresh, SessionInv, CounterInv
<1>5. accepted' = Append(accepted, new) /\ UNCHANGED answers
  BY DEF TakesCode
<1>6. env.seq \in DOMAIN SentDown /\ SentDown[env.seq] = env.body
  BY <1>3, AnswerLens DEF SentDown, SessionInv
<1>7. new.n = env.seq /\ new.item = env.body
  OBVIOUS
<1> HIDE DEF new
<1>8. /\ Len(accepted) \in Nat /\ DOMAIN accepted = 1..Len(accepted)
      /\ DOMAIN accepted' = 1..(Len(accepted) + 1)
      /\ \A i \in 1..Len(accepted) : accepted'[i] = accepted[i]
      /\ accepted'[Len(accepted) + 1] = new
  <2>1. accepted \in Seq([call : Nat, n : Nat, item : Codes])
    BY DEF SessionInv, TypeOK
  <2>2. accepted' \in Seq([call : Nat, n : Nat, item : Codes])
    BY DEF TypeOK
  <2>3. /\ Len(accepted') = Len(accepted) + 1
        /\ \A i \in 1..Len(accepted) : accepted'[i] = accepted[i]
        /\ accepted'[Len(accepted) + 1] = new
    BY <1>5, <2>1
  <2> QED
    BY <2>1, <2>2, <2>3, LenProperties
<1>9. TakenDown' = Append(TakenDown, [n |-> env.seq, item |-> env.body])
  <2>1. TakenDown = [i \in 1..Len(accepted) |-> TakenDown[i]]
    BY <1>8 DEF TakenDown
  <2>2. TakenDown' = [i \in 1..(Len(accepted) + 1) |-> TakenDown'[i]]
    BY <1>8 DEF TakenDown
  <2>3. \A i \in 1..Len(accepted) : TakenDown'[i] = TakenDown[i]
    BY <1>8 DEF TakenDown
  <2>4. TakenDown' = Append(TakenDown, TakenDown'[Len(accepted) + 1])
    BY <1>8, <2>1, <2>2, <2>3, ImageAppend
  <2>5. TakenDown'[Len(accepted) + 1] = [n |-> env.seq, item |-> env.body]
    BY <1>7, <1>8 DEF TakenDown
  <2> QED
    BY <2>4, <2>5
<1>10. LastNumber(TakenDown) = LastNumber(accepted)
  BY <1>8, TakenLast DEF SessionInv
<1> QED
  BY <1>4, <1>5, <1>6, <1>9, <1>10

LEMMA DownStep ==
  ASSUME SessionInv, StreamInv, TypeOK', [Next]_vars
  PROVE  [Down!Next]_(Down!vars)
<1>1. CASE TakesCode
  <2>1. PICK n \in DOMAIN SentDown :
           /\ n > LastNumber(TakenDown)
           /\ TakenDown' = Append(TakenDown, [n |-> n, item |-> SentDown[n]])
           /\ UNCHANGED answers
    BY <1>1, CodeTaken
  <2>2. Down!Take(n)
    BY <2>1 DEF Down!Take, Down!LastTaken, LastNumber, SentDown, TakenDown
  <2> QED
    BY <2>2 DEF Down!Next, SentDown
<1>2. CASE UNCHANGED accepted
  BY <1>2, StepSentDown DEF Down!Next, Down!Send, Down!vars, SentDown
<1> QED
  BY <1>1, <1>2, ClientTakes

LEMMA SessionInvariant == Spec => [](SessionInv /\ StreamInv)
<1>1. SessionInv /\ StreamInv /\ [Next]_vars => (SessionInv /\ StreamInv)'
  <2> SUFFICES ASSUME SessionInv, StreamInv, [Next]_vars
               PROVE  (SessionInv /\ StreamInv)'
    OBVIOUS
  <2>1. TypeOK'
    BY StepTypeOK DEF SessionInv
  <2> QED
    BY <2>1, StepSessionInv, StepStreams
<1> QED
  BY <1>1, InitSessionInv, PTL DEF Spec

\* Whatever the two endpoints do, and wherever the streams lose alignment, the
\* messages that pass the sequence check of HandleConnection are messages the
\* client sent, each at most once and in the order of the calls.
THEOREM UpImplements == Spec => UpDelivery
<1>1. SessionInv /\ StreamInv /\ (SessionInv /\ StreamInv)' /\ [Next]_vars
        => [Up!Next]_(Up!vars)
  BY UpStep DEF SessionInv
<1> QED
  BY <1>1, UpInit, SessionInvariant, PTL DEF Spec, UpDelivery, Up!Spec

\* The codes ClientV2 takes are codes the server put in a response, each
\* response at most once and in the order they were numbered.
THEOREM DownImplements == Spec => DownDelivery
<1>1. SessionInv /\ StreamInv /\ (SessionInv /\ StreamInv)' /\ [Next]_vars
        => [Down!Next]_(Down!vars)
  BY DownStep DEF SessionInv
<1> QED
  BY <1>1, DownInit, SessionInvariant, PTL DEF Spec, DownDelivery, Down!Spec

-----------------------------------------------------------------------------
(* Keys.                                                                   *)

\* SameKeyNeeded is inductive once it says that both keys are final.
KeyInv ==
  received # <<>> \/ accepted # <<>> =>
    cKey = sKey /\ cpc # "hello" /\ spc # "start"

LEMMA ServerTookKey ==
  ASSUME SessionInv, StreamInv, AcceptMessage
  PROVE  KeyInv'
<1>1. Head(up) \in GenuineUnits /\ Head(up).part = "body" /\ Head(up).key = sKey
  BY StreamHead DEF AcceptMessage, StreamInv, Opens
<1>2. Head(up).env.kind = "message"
  BY DEF AcceptMessage, IsKind
<1>3. Head(up).key = cKey /\ Head(up).env.seq \in 1..Len(calls)
  BY <1>1, <1>2 DEF GenuineUnits, Genuine
<1>4. calls # <<>>
  BY <1>3, EmptySeq DEF SessionInv, TypeOK
<1>5. cpc # "hello" /\ spc' # "start" /\ UNCHANGED <<cpc, cKey, sKey>>
  BY <1>4 DEF AcceptMessage, clientVars, SessionInv, StartInv
<1> QED
  BY <1>1, <1>3, <1>5 DEF KeyInv

LEMMA ClientTookKey ==
  ASSUME SessionInv, StreamInv, TakesCode
  PROVE  KeyInv'
<1>1. Head(down) \in GenuineUnits /\ Head(down).part = "body" /\ Head(down).key = cKey
  BY StreamHead DEF TakesCode, StreamInv, Opens
<1>2. Head(down).env.kind = "response"
  BY DEF TakesCode, IsKind
<1>3. Head(down).key = sKey /\ Head(down).env.seq \in 1..Len(answers)
  BY <1>1, <1>2 DEF GenuineUnits, Genuine
<1>4. answers # <<>>
  BY <1>3, EmptySeq DEF SessionInv, TypeOK
<1>5. spc # "start" /\ cpc' # "hello" /\ UNCHANGED <<spc, cKey, sKey>>
  BY <1>4 DEF TakesCode, SessionInv, StartInv
<1> QED
  BY <1>1, <1>3, <1>5 DEF KeyInv

LEMMA StepKeyInv ==
  ASSUME SessionInv, StreamInv, KeyInv, [Next]_vars
  PROVE  KeyInv'
<1>1. CASE AcceptMessage
  BY <1>1, ServerTookKey
<1>2. CASE TakesCode
  BY <1>2, ClientTookKey
<1>3. CASE UNCHANGED <<received, accepted>>
  BY <1>3, StepKeys DEF KeyInv
<1> QED
  BY <1>1, <1>2, <1>3, ServerTakes, ClientTakes

LEMMA KeyInvNeeded == KeyInv => SameKeyNeeded
BY DEF KeyInv, SameKeyNeeded

\* With different secrets nothing is ever served: HandleConnection takes no
\* message and ClientV2 returns no code unless deriveKey gave both the same key.
THEOREM KeyNeeded == Spec => []SameKeyNeeded
<1>1. Init => KeyInv
  BY DEF Init, KeyInv
<1>2. SessionInv /\ StreamInv /\ KeyInv /\ [Next]_vars => KeyInv'
  BY StepKeyInv
<1> QED
  BY <1>1, <1>2, SessionInvariant, KeyInvNeeded, PTL DEF Spec

-----------------------------------------------------------------------------
(* The same through a relay.                                               *)

GenuineBodies == {u \in GenuineUnits : u.part = "body"}
RelayInv == SessionInv /\ StreamInv /\ passed \subseteq GenuineBodies

LEMMA FaultHistory ==
  ASSUME Fault
  PROVE  UNCHANGED <<clientVars, serverVars, passed>>
BY DEF Fault

LEMMA SameGenuine ==
  ASSUME UNCHANGED <<clientVars, serverVars>>
  PROVE  GenuineUnits' = GenuineUnits /\ GenuineBodies' = GenuineBodies
BY DEF GenuineUnits, GenuineBodies, Genuine, clientVars, serverVars

\* A stream stays genuine when the relay removes, damages or repeats units.
LEMMA WithoutIn ==
  ASSUME NEW S, NEW s \in Seq(S), NEW i \in DOMAIN s, NEW j \in DOMAIN s
  PROVE  Without(s, i, j) \in Seq(S)
<1>1. /\ Len(s) \in Nat /\ i \in 1..Len(s) /\ j \in 1..Len(s)
      /\ \A k \in 1..Len(s) : s[k] \in S
  BY LenProperties, ElementOfSeq
<1>2. SubSeq(s, 1, i - 1) \in Seq(S)
  BY <1>1, SubSeqProperties
<1>3. SubSeq(s, j + 1, Len(s)) \in Seq(S)
  BY <1>1, SubSeqProperties
<1> QED
  BY <1>2, <1>3, ConcatProperties DEF Without

LEMMA DamagedIn ==
  ASSUME NEW s \in Seq(GenuineUnits), NEW i \in DOMAIN s, NEW u \in Damaged(s[i])
  PROVE  [s EXCEPT ![i] = u] \in Seq(GenuineUnits)
<1>1. u \in GenuineUnits
  BY DEF Damaged, GenuineUnits, Genuine, Units, Scrap, Hello
<1>2. i \in 1..Len(s)
  BY LenProperties
<1> QED
  BY <1>1, <1>2, ExceptSeq

LEMMA RepeatedIn ==
  ASSUME NEW s \in Seq(GenuineUnits), NEW body \in GenuineBodies
  PROVE  s \o <<Prefix(body.n % LenModulus), body>> \in Seq(GenuineUnits)
<1>1. body.n \in Nat
  BY DEF GenuineBodies, GenuineUnits, Units, Scrap
<1>2. Prefix(body.n % LenModulus) \in GenuineUnits
  BY <1>1, ModBound, SizeAssumption DEF Prefix, GenuineUnits, Genuine, Units
<1>3. body \in GenuineUnits
  BY DEF GenuineBodies
<1>4. <<Prefix(body.n % LenModulus), body>> \in Seq(GenuineUnits)
  BY <1>2, <1>3
<1> QED
  BY <1>4, ConcatProperties

LEMMA FaultStreams ==
  ASSUME RelayInv, Fault
  PROVE  up' \in Seq(GenuineUnits) /\ down' \in Seq(GenuineUnits)
<1>1. up \in Seq(GenuineUnits) /\ down \in Seq(GenuineUnits)
  BY DEF RelayInv, StreamInv
<1>2. CASE Lose
  BY <1>1, <1>2, WithoutIn DEF Lose
<1>3. CASE Damage
  BY <1>1, <1>3, DamagedIn DEF Damage
<1>4. CASE \E body \in passed : Repeat(body)
  <2>1. PICK body \in GenuineBodies : Repeat(body)
    BY <1>4 DEF RelayInv
  <2> QED
    BY <1>1, <2>1, RepeatedIn DEF Repeat
<1> QED
  BY <1>2, <1>3, <1>4 DEF Fault

LEMMA FaultInv ==
  ASSUME RelayInv, Fault
  PROVE  RelayInv'
<1>1. up' \in Seq(GenuineUnits) /\ down' \in Seq(GenuineUnits)
  BY FaultStreams
<1>2. UNCHANGED <<clientVars, serverVars, passed>>
  BY FaultHistory
<1>3. GenuineUnits' = GenuineUnits /\ GenuineBodies' = GenuineBodies
  BY <1>2, SameGenuine
<1>4. StreamInv' /\ (passed \subseteq GenuineBodies)'
  BY <1>1, <1>2, <1>3 DEF StreamInv, RelayInv
<1>5. up' \in Seq(Units) /\ down' \in Seq(Units)
  <2>1. GenuineUnits \subseteq Units
    BY DEF GenuineUnits
  <2> QED
    BY <1>1, <2>1, SeqMonotonic
<1>6. TypeOK'
  BY <1>2, <1>5 DEF RelayInv, SessionInv, TypeOK, clientVars, serverVars
<1>7. AnswerInv' /\ CounterInv' /\ StartInv'
  BY <1>2 DEF RelayInv, SessionInv, AnswerInv, CounterInv, StartInv, LastNumber,
     clientVars, serverVars
<1> QED
  BY <1>4, <1>6, <1>7 DEF RelayInv, SessionInv

LEMMA BodiesIn ==
  ASSUME NEW S, NEW s \in Seq(S)
  PROVE  Bodies(s) \subseteq {u \in S : u.part = "body"}
BY LenProperties, ElementOfSeq DEF Bodies

LEMMA RelayStepInv ==
  ASSUME RelayInv, [RelayNext]_relayVars
  PROVE  RelayInv'
<1>1. CASE Fault
  BY <1>1, FaultInv
<1>2. CASE Next /\ passed' = passed \cup Bodies(up') \cup Bodies(down')
  <2>1. TypeOK' /\ SessionInv' /\ StreamInv'
    BY <1>2, StepTypeOK, StepSessionInv, StepStreams DEF RelayInv, SessionInv
  <2>2. GenuineBodies \subseteq GenuineBodies'
    BY <1>2, <2>1, StepHistory, GenuineGrows DEF RelayInv, SessionInv, GenuineBodies
  <2>3. Bodies(up') \cup Bodies(down') \subseteq GenuineBodies'
    BY <2>1, BodiesIn DEF StreamInv, GenuineBodies
  <2> QED
    BY <1>2, <2>1, <2>2, <2>3 DEF RelayInv
<1>3. CASE UNCHANGED relayVars
  BY <1>3 DEF relayVars, vars, RelayInv, SessionInv, TypeOK, AnswerInv, CounterInv,
     StartInv, LastNumber, StreamInv, GenuineUnits, GenuineBodies, Genuine, clientVars, serverVars
<1> QED
  BY <1>1, <1>2, <1>3 DEF RelayNext

LEMMA RelayInvariant == RelaySpec => []RelayInv
<1>1. RelayInit => RelayInv
  BY InitSessionInv DEF RelayInit, RelayInv
<1> QED
  BY <1>1, RelayStepInv, PTL DEF RelaySpec

LEMMA RelaySteps ==
  ASSUME RelayInv, RelayInv', [RelayNext]_relayVars
  PROVE  [Up!Next]_(Up!vars) /\ [Down!Next]_(Down!vars)
<1>1. CASE [Next]_vars
  BY <1>1, UpStep, DownStep DEF RelayInv, SessionInv
<1>2. CASE Fault
  BY <1>2, FaultHistory DEF Up!vars, Down!vars, clientVars, serverVars
<1> QED
  BY <1>1, <1>2 DEF RelayNext, relayVars

\* The types and the memory bound of readFrame, whatever the relay does.
THEOREM RelayTypeCorrect == RelaySpec => []TypeOK
BY RelayInvariant, PTL DEF RelayInv, SessionInv

\* A header damaged on its way gives the client another key, and then nothing
\* is served either.
THEOREM RelayKeyNeeded == RelaySpec => []SameKeyNeeded
<1>1. RelayInit => KeyInv
  BY DEF RelayInit, Init, KeyInv
<1>2. RelayInv /\ KeyInv /\ [RelayNext]_relayVars => KeyInv'
  <2> SUFFICES ASSUME RelayInv, KeyInv, [RelayNext]_relayVars
               PROVE  KeyInv'
    OBVIOUS
  <2>1. CASE [Next]_vars
    BY <2>1, StepKeyInv DEF RelayInv
  <2>2. CASE Fault
    BY <2>2, FaultHistory DEF KeyInv, clientVars, serverVars
  <2> QED
    BY <2>1, <2>2 DEF RelayNext, relayVars
<1> QED
  BY <1>1, <1>2, RelayInvariant, KeyInvNeeded, PTL DEF RelaySpec

\* What a relay loses, repeats, reorders, reflects or damages cannot make the
\* server take a message twice, out of order, or one the client did not send.
THEOREM RelayUpImplements == RelaySpec => UpDelivery
<1>1. RelayInit => Up!Init
  BY UpInit DEF RelayInit
<1> QED
  BY <1>1, RelaySteps, RelayInvariant, PTL DEF RelaySpec, UpDelivery, Up!Spec

\* The same for the codes the client takes.
THEOREM RelayDownImplements == RelaySpec => DownDelivery
<1>1. RelayInit => Down!Init
  BY DownInit DEF RelayInit
<1> QED
  BY <1>1, RelaySteps, RelayInvariant, PTL DEF RelaySpec, DownDelivery, Down!Spec

\* A repeated message that the relay slips in gets its ERROR and ends the
\* loop: the server neither takes nor answers anything after it.
THEOREM RelayRejectionFinal == RelaySpec => RejectionIsFinal
<1>1. RelayInv /\ [RelayNext]_relayVars
        => [Rejected => UNCHANGED <<received, answers>>]_vars
  <2> SUFFICES ASSUME RelayInv, [RelayNext]_relayVars, Rejected
               PROVE  UNCHANGED <<received, answers>>
    OBVIOUS
  <2>1. CASE [Next]_vars
    BY <2>1, RejectedStays DEF RelayInv, SessionInv
  <2>2. CASE Fault
    BY <2>2, FaultHistory DEF serverVars
  <2> QED
    BY <2>1, <2>2 DEF RelayNext, relayVars
<1> QED
  BY <1>1, RelayInvariant, PTL DEF RelaySpec, RejectionIsFinal

-----------------------------------------------------------------------------
(***************************************************************************)
(* Which call a code belongs to: OwnAnswer of SecureSession and its form   *)
(* through the relay.                                                      *)
(*                                                                         *)
(* A response does not name its call, so the argument counts, and the      *)
(* inductive invariant keeps the count: as long as no call was given up,   *)
(* whatever the server may still answer, and whatever it answered that the *)
(* client has not read, is for a call that has no code yet.  There is at   *)
(* most one such call, the last.                                           *)
(***************************************************************************)

\* Call k got its code, or sent nothing: no answer to it is outstanding.
Over(k) == calls[k].out \in {"code", "refused"}

\* No call before the last one was given up.
Clean == CleanBefore(Len(calls))

Serving == spc \in {"auth", "route", "run"}

\* A message the server may still take is for a call that is not over.
Owed(u) == u.part = "body" /\ u.env.kind = "message" =>
  /\ u.env.seq \in 1..Len(calls)
  /\ spc # "closed" /\ Clean /\ u.env.seq > sRecvSeq => ~Over(u.env.seq)
OwedUnits == {u \in Units : Owed(u)}
OwedInv == up \in Seq(OwedUnits) /\ down \in Seq(OwedUnits)

\* The numbers of the messages taken grow; they are numbers of calls.
TakenInv ==
  /\ \A i \in 1..Len(received) : received[i].n \in 1..Len(calls)
  /\ \A i \in 1..Len(received), j \in 1..Len(received) :
       j < i => received[j].n < received[i].n

\* Nothing follows the ERROR for a replayed number.
ReplayLast ==
  \A i \in 1..Len(answers) : i # Len(answers) => answers[i].why # "replay"

\* What the server is answering, and what it answered and the client did not
\* read, is for a call that is not over.
OwedNow == Clean =>
  /\ \A n \in 1..Len(answers) :
       n > cRecvSeq /\ answers[n].why # "replay" => ~Over(answers[n].re)
  /\ Serving => ~Over(sMsg.seq)

Paired(a) ==
  /\ a.call \in 0..Len(calls) /\ a.n \in 1..Len(answers)
  /\ CleanBefore(a.call) =>
       answers[a.n].re = a.call \/ answers[a.n].why = "replay"
AcceptedPaired == \A i \in 1..Len(accepted) : Paired(accepted[i])

PairInv == OwedInv /\ TakenInv /\ ReplayLast /\ OwedNow /\ AcceptedPaired

-----------------------------------------------------------------------------
(* The steps, sorted by what they do to the histories.                     *)

GetsCode ==
  /\ TakesCode /\ EndCall("code")
  /\ UNCHANGED <<up, spc, sMsg, sRecvSeq, received, answers>>
EndsOtherwise ==
  /\ \E out \in Outcomes \ {"code", "refused"} : EndCall(out)
  /\ UNCHANGED <<cRecvSeq, accepted, spc, sMsg, sRecvSeq, received, answers>>
Starts ==
  /\ StartsCall
  /\ UNCHANGED <<cRecvSeq, accepted, spc, sMsg, sRecvSeq, received, answers>>
Takes ==
  /\ AcceptMessage
  /\ UNCHANGED <<calls, cRecvSeq, accepted, answers>>
Replies ==
  /\ Responds
  /\ UNCHANGED <<calls, cRecvSeq, accepted, sRecvSeq, received>>
Quiet ==
  /\ UNCHANGED <<calls, cRecvSeq, accepted, sMsg, sRecvSeq, received, answers>>
  /\ Serving' => Serving
  /\ spc = "closed" => spc' = "closed"

LEMMA SortedSteps ==
  ASSUME [Next]_vars
  PROVE  GetsCode \/ EndsOtherwise \/ Starts \/ Takes \/ Replies \/ Quiet
<1>1. CASE ClientAnswered
  BY <1>1 DEF ClientAnswered, GetsCode, EndsOtherwise, TakesCode, Outcomes,
     EndCall, serverVars
<1>2. CASE ClientReadPrefix
  BY <1>2 DEF ClientReadPrefix, EndsOtherwise, Quiet, Outcomes, Serving, serverVars
<1>3. CASE ClientReadAstray
  BY <1>3 DEF ClientReadAstray, EndsOtherwise, Quiet, Outcomes, Serving, serverVars
<1>4. CASE ClientErrSeal \/ ClientReadFails
  BY <1>4 DEF ClientErrSeal, ClientReadFails, EndsOtherwise, Outcomes, serverVars
<1>5. CASE ClientSends
  BY <1>5 DEF ClientSends, Starts, StartsCall, SendRefused, SendWritten,
     SendBroken, serverVars
<1>6. CASE ClientHandshake \/ ClientHandshakeFails \/ Close
  BY <1>6 DEF ClientHandshake, ClientHandshakeFails, Close, Quiet, Serving,
     serverVars
<1>7. CASE AcceptMessage
  BY <1>7 DEF AcceptMessage, Takes, clientVars
<1>8. CASE Responds
  BY <1>8 DEF Responds, RejectReplayed, Deny, RouteMissing, HandlerReturns,
     Replies, clientVars
<1>9. CASE ServerHandshake \/ ServerHandshakeFails \/ ServerReadPrefix
           \/ ServerReadAstray \/ ServerDropsFrame \/ ServerReadFails
           \/ Authorize \/ Route
  BY <1>9 DEF ServerHandshake, ServerHandshakeFails, ServerReadPrefix,
     ServerReadAstray, ServerDropsFrame, ServerReadFails, Authorize, Route,
     Return, Quiet, Serving, clientVars
<1>10. CASE \E type \in Types : RegisterHandler(type)
  BY <1>10 DEF RegisterHandler, Quiet, Serving, clientVars
<1>11. CASE UNCHANGED vars
  BY <1>11 DEF vars, Quiet, Serving, clientVars, serverVars
<1> QED
  BY <1>1, <1>2, <1>3, <1>4, <1>5, <1>6, <1>7, <1>8, <1>9, <1>10, <1>11
     DEF Next, ClientNext, ClientReads, ServerNext, ServerReads, ReceiveMessage,
     ServerServes, Responds

-----------------------------------------------------------------------------
(* What the steps do to the outcomes of the calls.                         *)

LEMMA EndCallOuts ==
  ASSUME TypeOK, NEW out \in Outcomes, EndCall(out)
  PROVE  /\ Len(calls') = Len(calls)
         /\ \A k \in 1..Len(calls) : k # Len(calls) => calls'[k] = calls[k]
         /\ Len(calls) # 0 => calls'[Len(calls)].out = out
<1>1. calls \in Seq(Calls) /\ Len(calls) \in Nat
  BY LenProperties DEF TypeOK
<1>2. /\ Len(calls') = Len(calls)
      /\ \A k \in 1..Len(calls) :
           /\ k # Len(calls) => calls'[k] = calls[k]
           /\ k = Len(calls) => calls'[k] = [calls[k] EXCEPT !.out = out]
  BY <1>1, EndCallType
<1>3. \A c \in Calls : [c EXCEPT !.out = out].out = out
  BY DEF Calls
<1>4. CASE Len(calls) # 0
  <2>1. Len(calls) \in 1..Len(calls)
    BY <1>1, <1>4
  <2>2. calls[Len(calls)] \in Calls
    BY <1>1, <2>1, ElementOfSeq
  <2> QED
    BY <1>2, <1>3, <2>1, <2>2
<1> QED
  BY <1>2, <1>4

LEMMA StartCallOuts ==
  ASSUME TypeOK, StartsCall
  PROVE  /\ Len(calls') = Len(calls) + 1
         /\ \A k \in 1..Len(calls) : calls'[k] = calls[k]
BY StartsHow, StartCallHistory

\* Only the last call ends.
LEMMA CleanStays ==
  ASSUME TypeOK, [Next]_vars, NEW c \in 0..Len(calls)
  PROVE  CleanBefore(c)' <=> CleanBefore(c)
<1>1. Len(calls) \in Nat
  BY AnswerLens
<1>2. \A j \in 1..(c - 1) : calls'[j] = calls[j]
  <2>1. CASE \E out \in Outcomes : EndCall(out)
    BY <1>1, <2>1, EndCallOuts
  <2>2. CASE StartsCall
    BY <1>1, <2>2, StartCallOuts
  <2>3. CASE UNCHANGED calls
    BY <2>3
  <2> QED
    BY <2>1, <2>2, <2>3, StepKinds DEF EndsCall
<1> QED
  BY <1>2 DEF CleanBefore

LEMMA CallsKept ==
  ASSUME TypeOK, [Next]_vars
  PROVE  Len(calls) \in Nat /\ Len(calls) <= Len(calls')
<1>1. Len(calls) \in Nat
  BY AnswerLens
<1>2. CASE \E out \in Outcomes : EndCall(out)
  BY <1>1, <1>2, EndCallOuts
<1>3. CASE StartsCall
  BY <1>1, <1>3, StartCallOuts
<1>4. CASE UNCHANGED calls
  BY <1>1, <1>4
<1> QED
  BY <1>2, <1>3, <1>4, StepKinds DEF EndsCall

-----------------------------------------------------------------------------
(* The messages taken.                                                     *)

\* The last message taken has the greatest number.
LEMMA TakenLeast ==
  ASSUME SessionInv, TakenInv
  PROVE  \A i \in 1..Len(received) : received[i].n \in Nat /\ received[i].n <= sRecvSeq
<1> USE DEF SessionInv
<1>1. received \in Seq([n : Nat, item : Types]) /\ Len(received) \in Nat
  BY AnswerLens DEF TypeOK
<1>2. Len(received) # 0 => sRecvSeq = received[Len(received)].n
  BY <1>1, EmptySeq DEF CounterInv, LastNumber
<1> SUFFICES ASSUME NEW i \in 1..Len(received)
             PROVE  received[i].n \in Nat /\ received[i].n <= sRecvSeq
  OBVIOUS
<1>3. received[i] \in [n : Nat, item : Types]
  BY <1>1, ElementOfSeq
<1>4. CASE i = Len(received)
  BY <1>1, <1>2, <1>3, <1>4
<1>5. CASE i < Len(received)
  <2>1. Len(received) \in 1..Len(received)
    BY <1>1, <1>5
  <2>2. received[i].n < received[Len(received)].n
    BY <1>5, <2>1 DEF TakenInv
  <2>3. received[Len(received)] \in [n : Nat, item : Types]
    BY <1>1, <2>1, ElementOfSeq
  <2> QED
    BY <1>1, <1>2, <1>3, <2>1, <2>2, <2>3
<1> QED
  BY <1>1, <1>4, <1>5

LEMMA StepTaken ==
  ASSUME SessionInv, TypeOK', TakenInv, OwedInv, [Next]_vars
  PROVE  TakenInv'
<1> USE DEF SessionInv
<1>1. Len(calls) <= Len(calls') /\ Len(calls) \in Nat /\ Len(calls') \in Nat
  BY CallsKept, LenProperties DEF TypeOK
<1>2. CASE AcceptMessage
  <2> DEFINE env == Head(up).env
             new == [n |-> env.seq, item |-> env.body]
  <2>1. Head(up) \in OwedUnits
    BY <1>2, StreamHead DEF AcceptMessage, OwedInv
  <2>2. env.seq \in 1..Len(calls) /\ env.seq > sRecvSeq
    BY <1>2, <2>1 DEF AcceptMessage, Opens, IsKind, Fresh, OwedUnits, Owed
  <2>3. received' = Append(received, new) /\ new.n = env.seq /\ calls' = calls
    BY <1>2 DEF AcceptMessage, clientVars
  <2> HIDE DEF new, env
  <2>4. received \in Seq([n : Nat, item : Types])
    BY DEF TypeOK
  <2>5. /\ Len(received') = Len(received) + 1 /\ Len(received) \in Nat
        /\ \A i \in 1..Len(received) : received'[i] = received[i]
        /\ received'[Len(received) + 1] = new
    BY <2>3, <2>4
  <2>6. \A i \in 1..Len(received) : received[i].n < env.seq
    <3>1. sRecvSeq \in Nat
      BY DEF TypeOK
    <3>2. \A i \in 1..Len(received) : received[i].n \in Nat /\ received[i].n <= sRecvSeq
      BY TakenLeast
    <3>3. env.seq \in Nat
      BY <1>1, <2>2
    <3> QED
      BY <2>2, <3>1, <3>2, <3>3
  <2> QED
    BY <2>2, <2>3, <2>5, <2>6 DEF TakenInv
<1>3. CASE UNCHANGED received
  BY <1>1, <1>3 DEF TakenInv
<1> QED
  BY <1>2, <1>3, ServerTakes


-----------------------------------------------------------------------------
(* A code belongs to the last call.                                        *)

\* An answer that is not the ERROR for a replay answers a call.
LEMMA AnswerOfCall ==
  ASSUME SessionInv, TakenInv, NEW n \in 1..Len(answers), answers[n].why # "replay"
  PROVE  /\ n \in 1..Len(received) /\ answers[n].re = received[n].n
         /\ answers[n].re \in 1..Len(calls)
BY DEF SessionInv, AnswerInv, TakenInv

\* What is being served is the last message taken.
LEMMA ServingLast ==
  ASSUME SessionInv, TakenInv, Serving
  PROVE  /\ Len(answers) \in Nat /\ Len(received) = Len(answers) + 1
         /\ sMsg.seq = received[Len(received)].n
         /\ sMsg.seq \in 1..Len(calls)
<1>1. Len(answers) \in Nat
  BY AnswerLens DEF SessionInv
<1>2. Len(received) = Len(answers) + 1 /\ sMsg.seq = received[Len(received)].n
  BY DEF SessionInv, AnswerInv, Serving
<1>3. Len(received) \in 1..Len(received)
  BY <1>1, <1>2
<1> QED
  BY <1>1, <1>2, <1>3 DEF TakenInv

\* The code taken by a client that gave no call up is the answer to the last.
LEMMA CodeIsOwn ==
  ASSUME SessionInv, StreamInv, TakenInv, OwedNow, GetsCode
  PROVE  LET n == Head(down).env.seq
         IN /\ n \in 1..Len(answers)
            /\ Clean /\ answers[n].why # "replay" => answers[n].re = Len(calls)
<1> DEFINE n == Head(down).env.seq
<1>1. Head(down) \in GenuineUnits
  BY StreamHead DEF GetsCode, TakesCode, StreamInv
<1>2. n \in 1..Len(answers) /\ n > cRecvSeq
  BY <1>1 DEF GetsCode, TakesCode, Opens, IsKind, Fresh, GenuineUnits, Genuine
<1> HIDE DEF n
<1>3. ASSUME Clean, answers[n].why # "replay"
      PROVE  answers[n].re = Len(calls)
  <2>1. answers[n].re \in 1..Len(calls)
    BY <1>2, <1>3, AnswerOfCall
  <2>2. ~Over(answers[n].re)
    BY <1>2, <1>3 DEF OwedNow
  <2>3. \A j \in 1..(Len(calls) - 1) : Over(j)
    BY <1>3 DEF Clean, CleanBefore, Over
  <2>4. Len(calls) \in Nat
    BY AnswerLens DEF SessionInv
  <2> QED
    BY <2>1, <2>2, <2>3, <2>4
<1> QED
  BY <1>2, <1>3 DEF n

\* Then the server, unless it is through, took the last call and owes nothing.
LEMMA CodeSettles ==
  ASSUME SessionInv, StreamInv, TakenInv, ReplayLast, OwedNow, GetsCode, Clean
  PROVE  /\ spc # "closed" => Len(calls) <= sRecvSeq /\ ~Serving
         /\ \A m \in 1..Len(answers) :
              m > Head(down).env.seq => answers[m].why = "replay"
<1> DEFINE n == Head(down).env.seq
<1>1. /\ n \in 1..Len(answers)
      /\ answers[n].why # "replay" => answers[n].re = Len(calls)
  BY CodeIsOwn
<1> HIDE DEF n
<1>2. Len(answers) \in Nat /\ Len(calls) \in Nat /\ Len(received) \in Nat
  BY AnswerLens DEF SessionInv
<1>3. answers[n].why # "replay" =>
        n \in 1..Len(received) /\ received[n].n = Len(calls)
  BY <1>1, AnswerOfCall
<1>4. \A i \in 1..Len(received) : received[i].n \in Nat /\ received[i].n <= sRecvSeq
  BY TakenLeast
<1>5. ASSUME spc # "closed" PROVE Len(calls) <= sRecvSeq /\ ~Serving
  <2>1. answers[n].why # "replay"
    BY <1>1, <1>5 DEF SessionInv, AnswerInv
  <2>2. Len(calls) <= sRecvSeq
    BY <1>3, <1>4, <2>1
  <2>3. ASSUME Serving PROVE FALSE
    <3>1. Len(received) = Len(answers) + 1 /\ sMsg.seq = received[Len(received)].n
          /\ sMsg.seq \in 1..Len(calls)
      BY <2>3, ServingLast
    <3>2. received[n].n < received[Len(received)].n
      BY <1>1, <1>2, <3>1 DEF TakenInv
    <3> QED
      BY <1>2, <1>3, <2>1, <3>1, <3>2
  <2> QED
    BY <2>2, <2>3
<1>6. ASSUME NEW m \in 1..Len(answers), m > n, answers[m].why # "replay"
      PROVE  FALSE
  <2>1. n # Len(answers)
    BY <1>1, <1>2, <1>6
  <2>2. answers[n].why # "replay"
    BY <1>1, <2>1 DEF ReplayLast
  <2>3. m \in 1..Len(received) /\ received[m].n \in 1..Len(calls)
    BY <1>6, AnswerOfCall
  <2>4. received[n].n < received[m].n
    BY <1>3, <1>6, <2>2, <2>3 DEF TakenInv
  <2> QED
    BY <1>2, <1>3, <2>2, <2>3, <2>4
<1> QED
  BY <1>5, <1>6 DEF n

-----------------------------------------------------------------------------
(* What is owed.                                                           *)

\* Once every call is over, nothing the server may still take is on its way.
LEMMA AllOver ==
  ASSUME TypeOK, StartsCall, Clean', NEW k \in 1..Len(calls)
  PROVE  Over(k) /\ Clean
<1>1. /\ Len(calls) \in Nat /\ Len(calls') = Len(calls) + 1
      /\ \A j \in 1..Len(calls) : calls'[j] = calls[j]
  BY AnswerLens, StartCallOuts
<1> QED
  BY <1>1 DEF Clean, CleanBefore, Over

\* Ending a call in any way but a code leaves what is owed owed.
LEMMA OtherwiseNotOver ==
  ASSUME TypeOK, EndsOtherwise
  PROVE  /\ Len(calls') = Len(calls)
         /\ \A k \in 1..Len(calls) : Over(k)' => Over(k)
         /\ Clean' => Clean
<1>1. PICK out \in Outcomes \ {"code", "refused"} : EndCall(out)
  BY DEF EndsOtherwise
<1>2. /\ Len(calls') = Len(calls) /\ Len(calls) \in Nat
      /\ \A k \in 1..Len(calls) : k # Len(calls) => calls'[k] = calls[k]
      /\ Len(calls) # 0 => calls'[Len(calls)].out = out
  BY <1>1, EndCallOuts, AnswerLens
<1> QED
  BY <1>1, <1>2 DEF Over, Clean, CleanBefore

LEMMA OwedGrows ==
  ASSUME SessionInv, StreamInv, TakenInv, ReplayLast, OwedNow, [Next]_vars
  PROVE  OwedUnits \subseteq OwedUnits'
<1> USE DEF SessionInv
<1>0. Len(calls) \in Nat /\ Len(calls) <= Len(calls') /\ Len(calls') \in Nat
  <2>1. TypeOK'
    BY StepTypeOK
  <2> QED
    BY <2>1, CallsKept, LenProperties DEF TypeOK
<1> SUFFICES ASSUME NEW u \in OwedUnits, u.part = "body", u.env.kind = "message",
                    spc' # "closed", Clean', u.env.seq > sRecvSeq'
             PROVE  ~Over(u.env.seq)'
  BY <1>0 DEF OwedUnits, Owed
<1> DEFINE k == u.env.seq
<1>1. k \in 1..Len(calls) /\ (spc # "closed" /\ Clean /\ k > sRecvSeq => ~Over(k))
  BY DEF OwedUnits, Owed
<1> HIDE DEF k
<1>2. CASE GetsCode
  <2>1. Clean /\ spc # "closed"
    <3>1. Len(calls') = Len(calls)
      BY <1>2, EndCallOuts DEF GetsCode, Outcomes
    <3> QED
      BY <1>0, <1>2, <3>1, CleanStays DEF GetsCode, Clean
  <2>2. Len(calls) <= sRecvSeq /\ sRecvSeq \in Nat
    BY <1>2, <2>1, CodeSettles DEF TypeOK
  <2>3. k > sRecvSeq
    BY <1>2 DEF GetsCode, k
  <2> QED
    BY <1>0, <1>1, <2>2, <2>3
<1>3. CASE EndsOtherwise
  <2>1. k > sRecvSeq /\ spc # "closed"
    BY <1>3 DEF EndsOtherwise, k
  <2> QED
    BY <1>1, <1>3, <2>1, OtherwiseNotOver DEF k
<1>4. CASE Starts
  <2>1. k > sRecvSeq /\ spc # "closed" /\ StartsCall
    BY <1>4 DEF Starts, k
  <2>2. Over(k) /\ Clean
    BY <1>1, <2>1, AllOver
  <2> QED
    BY <1>1, <2>1, <2>2
<1>5. CASE Takes
  <2>1. Clean /\ calls' = calls /\ spc # "closed"
    BY <1>5 DEF Takes, AcceptMessage, Clean, CleanBefore
  <2>2. sRecvSeq \in Nat /\ sRecvSeq' \in Nat /\ sRecvSeq' > sRecvSeq
    <3>1. TypeOK'
      BY StepTypeOK
    <3> QED
      BY <1>5, <3>1 DEF Takes, AcceptMessage, Fresh, TypeOK
  <2>3. k > sRecvSeq
    BY <1>0, <1>1, <2>2 DEF k
  <2> QED
    BY <1>1, <2>1, <2>3 DEF Over, k
<1>6. CASE Replies
  <2>1. Clean /\ UNCHANGED <<calls, sRecvSeq>> /\ spc # "closed"
    BY <1>6 DEF Replies, Clean, CleanBefore, Responds, RejectReplayed, Deny,
       RouteMissing, HandlerReturns
  <2> QED
    BY <1>1, <2>1 DEF Over, k
<1>7. CASE Quiet
  <2>1. Clean /\ UNCHANGED <<calls, sRecvSeq>> /\ spc # "closed"
    BY <1>7 DEF Quiet, Clean, CleanBefore
  <2> QED
    BY <1>1, <2>1 DEF Over, k
<1> QED
  BY <1>2, <1>3, <1>4, <1>5, <1>6, <1>7, SortedSteps

\* What a step adds to the streams: the message of a new call, responses, and
\* what is not a body.
NewMessage(k) ==
  /\ k = Len(calls') /\ k = Len(calls) + 1
  /\ calls'[k].out \notin {"code", "refused"}

LEMMA WrittenCall ==
  ASSUME TypeOK, NEW type \in Types, NEW v \in VarSizes,
         SendWritten(type, v) \/ SendBroken(type, v), CounterInv
  PROVE  NewMessage(cSendSeq') /\ cSendSeq' \in Nat
<1> DEFINE new(out) == [type |-> type, size |-> SealedMessage(v), out |-> out]
<1>1. PICK out \in {"pending", "write"} : StartCall(type, v, out)
  BY DEF SendWritten, SendBroken
<1>2. calls' = Append(calls, new(out)) /\ new(out).out = out
  BY <1>1 DEF StartCall
<1> HIDE DEF new
<1>3. calls \in Seq(Calls) /\ Len(calls) \in Nat
  BY AnswerLens DEF TypeOK
<1>4. Len(calls') = Len(calls) + 1 /\ calls'[Len(calls) + 1] = new(out)
  BY <1>2, <1>3
<1>5. cSendSeq' = Len(calls) + 1
  BY <1>1 DEF StartCall, CounterInv
<1>6. calls'[cSendSeq'].out \in {"pending", "write"}
  BY <1>2, <1>4, <1>5
<1>7. calls'[cSendSeq'].out \notin {"code", "refused"}
  BY <1>6
<1> QED
  BY <1>3, <1>4, <1>5, <1>7 DEF NewMessage

LEMMA StreamsIn ==
  ASSUME SessionInv, [Next]_vars, NEW S, up \in Seq(S), down \in Seq(S),
         \A u \in Units : u.part # "body" => u \in S,
         \A u \in Units : u.part = "body" /\ u.env.kind = "response" => u \in S,
         \A u \in Units : u.part = "body" /\ u.env.kind = "message"
                          /\ NewMessage(u.env.seq) => u \in S
  PROVE  up' \in Seq(S) /\ down' \in Seq(S)
<1> USE DEF SessionInv
<1>1. CASE UNCHANGED <<up, down>>
  BY <1>1
<1>2. CASE ClientHandshake \/ ClientReadPrefix \/ ClientAnswered \/ ClientErrSeal
  <2>1. /\ up' = up
        /\ down # <<>> /\ (down' = Tail(down) \/ down' \in AfterBadBody(down, cWant))
    BY <1>2 DEF ClientHandshake, ClientReadPrefix, ClientAnswered, ClientErrSeal
  <2> QED
    BY <2>1, StreamHead, AfterBadBodyType
<1>3. CASE ServerReadPrefix \/ AcceptMessage \/ ServerDropsFrame
  <2>1. /\ down' = down
        /\ up # <<>> /\ (up' = Tail(up) \/ up' \in AfterBadBody(up, sWant))
    BY <1>3 DEF ServerReadPrefix, AcceptMessage, ServerDropsFrame
  <2> QED
    BY <2>1, StreamHead, AfterBadBodyType
<1>4. ASSUME NEW type \in Types, NEW v \in VarSizes,
             SendWritten(type, v) \/ SendBroken(type, v)
      PROVE  up' \in Seq(S) /\ down' \in Seq(S)
  <2> DEFINE n == SealedMessage(v)
             env == Message(cSendSeq', type)
             frame == Frame(n, cKey, env)
  <2>1. NewMessage(cSendSeq') /\ cSendSeq' \in Nat
    BY <1>4, WrittenCall
  <2>2. env \in Envelopes /\ env.kind = "message" /\ env.seq = cSendSeq'
    BY <2>1 DEF Message, Envelopes
  <2>3. n \in Nat /\ cKey \in Keys
    BY SizeAssumption DEF SealedMessage, MinFrameSizeV2, NonceSize, GCMTagSize, TypeOK
  <2> HIDE DEF n, env
  <2>4. /\ Prefix(n % LenModulus) \in Units /\ Sealed(n, cKey, env) \in Units
        /\ Scrap \in Units
    BY <2>2, <2>3, FrameUnits
  <2>5. Prefix(n % LenModulus) \in S /\ Scrap \in S
    BY <2>4 DEF Prefix, Scrap
  <2>6. Sealed(n, cKey, env) \in S
    <3>1. Sealed(n, cKey, env).part = "body" /\ Sealed(n, cKey, env).env = env
      BY DEF Sealed
    <3> QED
      BY <2>1, <2>2, <2>4, <3>1
  <2>7. frame \in Seq(S) /\ Torn(frame) \subseteq Seq(S)
    BY <2>5, <2>6, FrameIn
  <2>8. (\E w \in Seq(S) : up' = up \o w) /\ down' = down
    BY <1>4, <2>7 DEF SendWritten, SendBroken, n, env
  <2> QED
    BY <2>8, ConcatProperties
<1>5. CASE ServerHandshake
  <2>1. PICK salt \in Salts : down' = down \o <<Hello(salt)>> /\ up' = up
    BY <1>5 DEF ServerHandshake
  <2>2. Hello(salt) \in Units /\ Hello(salt).part # "body"
    BY DEF Hello, Units
  <2>3. <<Hello(salt)>> \in Seq(S)
    BY <2>2
  <2> QED
    BY <2>1, <2>3, ConcatProperties
<1>6. CASE Responds
  <2>1. PICK code \in Codes, why \in Reasons : Respond(code, why)
    BY <1>6, RespondsHow
  <2> DEFINE n == SealedResponse
             env == Response(ResponseNumber, code)
             frame == Frame(n, sKey, env)
  <2>2. n \in Nat /\ sKey \in Keys /\ ResponseNumber \in Nat
    BY DEF SealedResponse, MinFrameSizeV2, NonceSize, GCMTagSize, TypeOK, ResponseNumber
  <2>3. env \in Envelopes /\ env.kind = "response"
    BY <2>2 DEF Response, Envelopes
  <2> HIDE DEF n, env
  <2>4. /\ Prefix(n % LenModulus) \in Units /\ Sealed(n, sKey, env) \in Units
        /\ Scrap \in Units
    BY <2>2, <2>3, FrameUnits
  <2>5. Prefix(n % LenModulus) \in S /\ Scrap \in S
    BY <2>4 DEF Prefix, Scrap
  <2>6. Sealed(n, sKey, env) \in S
    <3>1. Sealed(n, sKey, env).part = "body" /\ Sealed(n, sKey, env).env = env
      BY DEF Sealed
    <3> QED
      BY <2>3, <2>4, <3>1
  <2>7. frame \in Seq(S) /\ Torn(frame) \subseteq Seq(S)
    BY <2>5, <2>6, FrameIn
  <2>8. \E w \in ResponseWrites(frame) : down' = down \o w
    BY <2>1 DEF Respond, n, env
  <2> HIDE DEF frame
  <2>9. ResponseWrites(frame) \subseteq Seq(S)
    BY <2>7, EmptySeq DEF ResponseWrites
  <2>10. up' = up \/ (up # <<>> /\ up' = Tail(up))
    BY <1>6 DEF Responds, RejectReplayed, Deny, RouteMissing, HandlerReturns
  <2> QED
    BY <2>8, <2>9, <2>10, StreamHead, ConcatProperties
<1>7. CASE \/ ClientHandshakeFails \/ ClientReadAstray \/ ClientReadFails \/ Close
           \/ ServerHandshakeFails \/ ServerReadAstray \/ ServerReadFails
           \/ Authorize \/ Route \/ UNCHANGED vars
           \/ \E type \in Types : RegisterHandler(type)
           \/ \E type \in Types, v \in VarSizes : SendRefused(type, v)
  BY <1>1, <1>7 DEF ClientHandshakeFails, ClientReadAstray, ClientReadFails,
     Close, ServerHandshakeFails, ServerReadAstray, ServerReadFails, Authorize,
     Route, RegisterHandler, SendRefused, vars
<1> QED
  BY <1>2, <1>3, <1>4, <1>5, <1>6, <1>7 DEF Responds, Next, ClientNext,
     ClientSends, ClientReads, ServerNext, ServerReads, ReceiveMessage,
     ServerServes

LEMMA StepOwed ==
  ASSUME SessionInv, StreamInv, PairInv, [Next]_vars
  PROVE  OwedInv'
<1>1. OwedUnits \subseteq OwedUnits'
  BY OwedGrows DEF PairInv
<1>2. up \in Seq(OwedUnits') /\ down \in Seq(OwedUnits')
  BY <1>1, SeqMonotonic DEF PairInv, OwedInv
<1>3. ASSUME NEW u \in Units, \/ u.part # "body"
                              \/ u.part = "body" /\ u.env.kind = "response"
      PROVE  u \in OwedUnits'
  BY <1>3 DEF OwedUnits, Owed
<1>4. ASSUME NEW u \in Units, NewMessage(u.env.seq)
      PROVE  u \in OwedUnits'
  <2>1. Len(calls) \in Nat
    BY AnswerLens DEF SessionInv
  <2> QED
    BY <1>4, <2>1 DEF OwedUnits, Owed, NewMessage, Over
<1>5. up' \in Seq(OwedUnits') /\ down' \in Seq(OwedUnits')
  BY <1>2, <1>3, <1>4, StreamsIn
<1> QED
  BY <1>5 DEF OwedInv

LEMMA StepReplayLast ==
  ASSUME SessionInv, TypeOK', ReplayLast, [Next]_vars
  PROVE  ReplayLast'
<1>1. CASE Responds
  <2>1. PICK code \in Codes, why \in Reasons : Respond(code, why)
    BY <1>1, RespondsHow
  <2>2. /\ Len(answers') = Len(answers) + 1
        /\ \A i \in 1..Len(answers) : answers'[i] = answers[i]
    BY <2>1, RespondAnswers DEF SessionInv
  <2>3. spc # "closed" /\ Len(answers) \in Nat
    BY <1>1, AnswerLens DEF SessionInv, Responds, RejectReplayed, Deny,
       RouteMissing, HandlerReturns
  <2>4. \A i \in 1..Len(answers) : answers[i].why # "replay"
    BY <2>3 DEF SessionInv, AnswerInv
  <2> QED
    BY <2>2, <2>3, <2>4 DEF ReplayLast
<1>2. CASE UNCHANGED answers
  BY <1>2 DEF ReplayLast
<1> QED
  BY <1>1, <1>2, StepKinds

LEMMA StepOwedNow ==
  ASSUME SessionInv, StreamInv, PairInv, [Next]_vars
  PROVE  OwedNow'
<1> USE DEF SessionInv, PairInv
<1>0. TypeOK' /\ Len(calls) \in Nat /\ Len(answers) \in Nat
  BY StepTypeOK, AnswerLens
<1>1. CASE GetsCode
  <2>1. Clean' => Clean
    <3>1. Len(calls') = Len(calls)
      BY <1>1, EndCallOuts DEF GetsCode, Outcomes
    <3> QED
      BY <1>0, <3>1, CleanStays DEF Clean
  <2>2. /\ cRecvSeq' = Head(down).env.seq
        /\ UNCHANGED <<spc, answers>>
    BY <1>1 DEF GetsCode, TakesCode
  <2>3. ASSUME Clean
        PROVE  /\ ~Serving
               /\ \A m \in 1..Len(answers) :
                    m > Head(down).env.seq => answers[m].why = "replay"
    BY <1>1, <2>3, CodeSettles DEF Serving
  <2> QED
    BY <2>1, <2>2, <2>3 DEF OwedNow, Serving
<1>2. CASE EndsOtherwise
  <2>1. UNCHANGED <<cRecvSeq, spc, sMsg, answers>>
    BY <1>2 DEF EndsOtherwise
  <2>2. \A n \in 1..Len(answers) :
          answers[n].why # "replay" => answers[n].re \in 1..Len(calls)
    BY AnswerOfCall
  <2>3. Serving => sMsg.seq \in 1..Len(calls)
    BY ServingLast
  <2>4. Clean' => Clean /\ \A k \in 1..Len(calls) : Over(k)' => Over(k)
    BY <1>2, OtherwiseNotOver
  <2> QED
    BY <2>1, <2>2, <2>3, <2>4 DEF OwedNow, Serving, Over
<1>3. CASE Starts
  <2>1. UNCHANGED <<cRecvSeq, spc, sMsg, answers>> /\ StartsCall
    BY <1>3 DEF Starts
  <2>2. \A n \in 1..Len(answers) :
          answers[n].why # "replay" => answers[n].re \in 1..Len(calls)
    BY AnswerOfCall
  <2>3. Serving => sMsg.seq \in 1..Len(calls)
    BY ServingLast
  <2>4. Clean' => \A k \in 1..Len(calls) : Over(k) /\ Clean
    BY <2>1, AllOver
  <2> QED
    BY <2>1, <2>2, <2>3, <2>4 DEF OwedNow, Serving
<1>4. CASE Takes
  <2>1. Head(up) \in OwedUnits
    BY <1>4, StreamHead DEF Takes, AcceptMessage, OwedInv
  <2>2. /\ Clean => ~Over(Head(up).env.seq)
        /\ sMsg'.seq = Head(up).env.seq /\ UNCHANGED <<calls, cRecvSeq, answers>>
    BY <1>4, <2>1 DEF Takes, AcceptMessage, Opens, IsKind, Fresh, OwedUnits, Owed
  <2> QED
    BY <2>2 DEF OwedNow, Clean, CleanBefore, Over
<1>5. CASE Replies
  <2>1. PICK code \in Codes, why \in Reasons : Respond(code, why)
    BY <1>5, RespondsHow DEF Replies
  <2>2. UNCHANGED <<calls, cRecvSeq>>
    BY <1>5 DEF Replies
  <2>3. /\ Len(answers') = Len(answers) + 1
        /\ \A i \in 1..Len(answers) : answers'[i] = answers[i]
        /\ answers'[Len(answers) + 1].re = sMsg'.seq
    BY <1>0, <2>1, RespondAnswers
  <2>4. \/ Serving /\ sMsg' = sMsg
        \/ answers'[Len(answers) + 1].why = "replay"
    <3>1. CASE RejectReplayed
      <4>1. Respond("ERROR", "replay")
        BY <3>1 DEF RejectReplayed
      <4> QED
        BY <1>0, <2>3, <4>1, RespondAnswers
    <3>2. CASE ~RejectReplayed
      BY <1>5, <3>2 DEF Replies, Responds, Deny, RouteMissing, HandlerReturns, Serving
    <3> QED
      BY <3>1, <3>2
  <2>5. ~Serving'
    BY <1>5 DEF Replies, Responds, RejectReplayed, AfterReplay, Deny, AfterDenial,
       Return, RouteMissing, HandlerReturns, Serving
  <2> QED
    BY <1>0, <2>2, <2>3, <2>4, <2>5 DEF OwedNow, Clean, CleanBefore, Over
<1>6. CASE Quiet
  BY <1>6 DEF Quiet, OwedNow, Clean, CleanBefore, Over
<1> QED
  BY <1>1, <1>2, <1>3, <1>4, <1>5, <1>6, SortedSteps

\* A code that was paired stays paired.
LEMMA PairedStays ==
  ASSUME SessionInv, TypeOK', [Next]_vars, NEW a, Paired(a)
  PROVE  /\ a.call \in 0..Len(calls') /\ a.n \in 1..Len(answers')
         /\ CleanBefore(a.call)' =>
              answers'[a.n].re = a.call \/ answers'[a.n].why = "replay"
<1> USE DEF SessionInv
<1>1. Len(calls) <= Len(calls') /\ Len(calls) \in Nat /\ Len(calls') \in Nat
  BY CallsKept, LenProperties DEF TypeOK
<1>2. Len(answers) \in Nat /\ Len(answers) <= Len(answers')
      /\ \A i \in 1..Len(answers) : answers'[i] = answers[i]
  <2>1. CASE Responds
    BY <2>1, RespondsHow, RespondAnswers, AnswerLens
  <2>2. CASE UNCHANGED answers
    BY <2>2, AnswerLens
  <2> QED
    BY <2>1, <2>2, StepKinds
<1>3. CleanBefore(a.call)' <=> CleanBefore(a.call)
  BY CleanStays DEF Paired
<1>4. Len(answers') \in Nat
  BY LenProperties DEF TypeOK
<1> QED
  BY <1>1, <1>2, <1>3, <1>4 DEF Paired

LEMMA StepPaired ==
  ASSUME SessionInv, StreamInv, PairInv, [Next]_vars
  PROVE  AcceptedPaired'
<1> USE DEF SessionInv, PairInv
<1>0. TypeOK' /\ accepted \in Seq([call : Nat, n : Nat, item : Codes])
      /\ Len(accepted) \in Nat /\ Len(calls) \in Nat
  BY StepTypeOK, AnswerLens DEF TypeOK
<1>1. \A i \in 1..Len(accepted) : Paired(accepted[i])
  BY DEF AcceptedPaired
<1>2. \A a : Paired(a) =>
        /\ a.call \in 0..Len(calls') /\ a.n \in 1..Len(answers')
        /\ CleanBefore(a.call)' =>
             answers'[a.n].re = a.call \/ answers'[a.n].why = "replay"
  BY <1>0, PairedStays
<1>3. CASE GetsCode
  <2> DEFINE n == Head(down).env.seq
             new == [call |-> Len(calls), n |-> n, item |-> Head(down).env.body]
  <2>1. accepted' = Append(accepted, new) /\ answers' = answers
    BY <1>3 DEF GetsCode, TakesCode
  <2>2. Paired(new)
    <3>1. /\ n \in 1..Len(answers)
          /\ Clean /\ answers[n].why # "replay" => answers[n].re = Len(calls)
      BY <1>3, CodeIsOwn
    <3>2. new.call = Len(calls) /\ new.n = n
      OBVIOUS
    <3> HIDE DEF new, n
    <3> QED
      BY <1>0, <3>1, <3>2 DEF Paired, Clean
  <2> HIDE DEF new, n
  <2>3. /\ Len(accepted') = Len(accepted) + 1
        /\ \A i \in 1..Len(accepted) : accepted'[i] = accepted[i]
        /\ accepted'[Len(accepted) + 1] = new
    BY <1>0, <2>1
  <2>4. \A i \in 1..Len(accepted') : Paired(accepted'[i])
    BY <1>0, <1>1, <2>2, <2>3
  <2> QED
    BY <1>2, <2>4 DEF AcceptedPaired, Paired
<1>4. CASE UNCHANGED accepted
  BY <1>1, <1>2, <1>4 DEF AcceptedPaired, Paired
<1> QED
  BY <1>3, <1>4, SortedSteps DEF EndsOtherwise, Starts, Takes, Replies, Quiet

LEMMA InitPair == Init => PairInv
<1> SUFFICES ASSUME Init PROVE PairInv
  OBVIOUS
<1>1. /\ Len(answers) = 0 /\ Len(received) = 0 /\ Len(accepted) = 0
      /\ ~Serving
  BY EmptySeq DEF Init, Serving
<1>2. OwedInv
  BY EmptySeq DEF Init, OwedInv
<1> QED
  BY <1>1, <1>2 DEF PairInv, TakenInv, ReplayLast, OwedNow, AcceptedPaired

LEMMA StepPair ==
  ASSUME SessionInv, StreamInv, PairInv, [Next]_vars
  PROVE  PairInv'
<1>1. TypeOK'
  BY StepTypeOK DEF SessionInv
<1> QED
  BY <1>1, StepOwed, StepTaken, StepReplayLast, StepOwedNow, StepPaired DEF PairInv

LEMMA PairInvariant == Spec => [](SessionInv /\ StreamInv /\ PairInv)
<1>1. (SessionInv /\ StreamInv) /\ PairInv /\ [Next]_vars => PairInv'
  BY StepPair
<1> QED
  BY <1>1, InitPair, SessionInvariant, PTL DEF Spec

LEMMA PairedOwn == AcceptedPaired /\ TypeOK => OwnAnswerOrReplay
BY AnswerLens DEF AcceptedPaired, Paired, OwnAnswerOrReplay

-----------------------------------------------------------------------------
(* Through the relay.                                                      *)

\* Streams made of the units of S stay so, when S has the bodies that passed
\* and everything that is not a body.
LEMMA FaultIn ==
  ASSUME NEW S, S \subseteq Units, \A u \in Units : u.part # "body" => u \in S,
         up \in Seq(S), down \in Seq(S), passed \subseteq S,
         \A u \in passed : u.part = "body", Fault
  PROVE  up' \in Seq(S) /\ down' \in Seq(S)
<1>1. CASE Lose
  BY <1>1, WithoutIn DEF Lose
<1>2. CASE Damage
  <2>1. ASSUME NEW s \in Seq(S), NEW i \in DOMAIN s, NEW u \in Damaged(s[i])
        PROVE  [s EXCEPT ![i] = u] \in Seq(S)
    <3>1. u \in Units /\ u.part # "body"
      BY DEF Damaged, Units, Scrap, Hello
    <3>2. i \in 1..Len(s)
      BY LenProperties
    <3> QED
      BY <3>1, <3>2, ExceptSeq
  <2> QED
    BY <1>2, <2>1 DEF Damage
<1>3. ASSUME NEW body \in passed, Repeat(body)
      PROVE  up' \in Seq(S) /\ down' \in Seq(S)
  <2>1. body \in S /\ body.n \in Nat
    BY DEF Units, Scrap
  <2>2. Prefix(body.n % LenModulus) \in S
    BY <2>1, ModBound, SizeAssumption DEF Prefix, Units
  <2>3. <<Prefix(body.n % LenModulus), body>> \in Seq(S)
    BY <2>1, <2>2
  <2> QED
    BY <1>3, <2>3, ConcatProperties DEF Repeat
<1> QED
  BY <1>1, <1>2, <1>3 DEF Fault

RelayPairInv == RelayInv /\ PairInv /\ passed \subseteq OwedUnits

LEMMA RelayStepPair ==
  ASSUME RelayPairInv, [RelayNext]_relayVars
  PROVE  RelayPairInv'
<1> USE DEF RelayPairInv
<1>1. RelayInv'
  BY RelayStepInv
<1>2. CASE Next /\ passed' = passed \cup Bodies(up') \cup Bodies(down')
  <2>1. PairInv'
    BY <1>2, StepPair DEF RelayInv
  <2>2. OwedUnits \subseteq OwedUnits'
    BY <1>2, OwedGrows DEF RelayInv, PairInv
  <2>3. Bodies(up') \cup Bodies(down') \subseteq OwedUnits'
    BY <2>1, BodiesIn DEF PairInv, OwedInv
  <2> QED
    BY <1>1, <1>2, <2>1, <2>2, <2>3
<1>3. CASE Fault
  <2>1. up' \in Seq(OwedUnits) /\ down' \in Seq(OwedUnits)
    <3>1. OwedUnits \subseteq Units /\ \A u \in Units : u.part # "body" => u \in OwedUnits
      BY DEF OwedUnits, Owed
    <3>2. \A u \in passed : u.part = "body"
      BY DEF RelayInv, GenuineBodies
    <3> QED
      BY <1>3, <3>1, <3>2, FaultIn DEF PairInv, OwedInv
  <2>2. UNCHANGED <<clientVars, serverVars, passed>>
    BY <1>3, FaultHistory
  <2>3. OwedUnits' = OwedUnits
    BY <2>2 DEF OwedUnits, Owed, Over, Clean, CleanBefore, clientVars, serverVars
  <2>4. OwedInv'
    BY <2>1, <2>3 DEF OwedInv
  <2>5. TakenInv' /\ ReplayLast' /\ OwedNow' /\ AcceptedPaired'
    BY <2>2 DEF PairInv, TakenInv, ReplayLast, OwedNow, AcceptedPaired, Paired,
       Over, Clean, CleanBefore, Serving, clientVars, serverVars
  <2> QED
    BY <1>1, <2>2, <2>3, <2>4, <2>5 DEF PairInv
<1>4. CASE UNCHANGED relayVars
  BY <1>1, <1>4 DEF relayVars, vars, PairInv, OwedInv, OwedUnits, Owed, TakenInv,
     ReplayLast, OwedNow, AcceptedPaired, Paired, Over, Clean, CleanBefore, Serving,
     clientVars, serverVars
<1> QED
  BY <1>2, <1>3, <1>4 DEF RelayNext

\* Whatever a relay loses, repeats, reorders, reflects or damages, a client
\* that gave no call up takes no code for another call's: only the ERROR with
\* which the server turned a repeated message away can stand in for its own.
THEOREM RelayPairing == RelaySpec => []OwnAnswerOrReplay
<1>1. RelayInit => RelayPairInv
  BY InitSessionInv, InitPair DEF RelayInit, RelayInv, RelayPairInv
<1>2. RelayPairInv => OwnAnswerOrReplay
  BY PairedOwn DEF RelayPairInv, PairInv, RelayInv, SessionInv
<1> QED
  BY <1>1, <1>2, RelayStepPair, PTL DEF RelaySpec

-----------------------------------------------------------------------------
(***************************************************************************)
(* Over streams that keep order no replay check ever refuses, and a code   *)
(* is the answer to its own call: OwnAnswer of SecureSession.              *)
(*                                                                         *)
(* The inductive invariant says that the numbers on a stream grow and are  *)
(* all new to its reader.                                                  *)
(***************************************************************************)

\* The numbers of the bodies on a stream grow from last.
Ordered(s, kind, last) ==
  \A i \in 1..Len(s) : s[i].part = "body" =>
    /\ s[i].env.kind = kind /\ s[i].env.seq > last
    /\ \A j \in 1..(i - 1) : s[j].part = "body" => s[j].env.seq < s[i].env.seq

OrderInv == Ordered(up, "message", sRecvSeq) /\ Ordered(down, "response", cRecvSeq)

\* Neither side ever saw a number again, or an envelope not meant for it.
NoReplay ==
  /\ \A i \in 1..Len(answers) : answers[i].why # "replay"
  /\ exit \notin {"replay", "envelope"}
  /\ \A k \in 1..Len(calls) : calls[k].out \notin {"replay", "envelope"}

-----------------------------------------------------------------------------
(* What reading and writing do to a stream.                                *)

LEMMA TailUnits ==
  ASSUME NEW S, NEW s \in Seq(S), s # <<>>
  PROVE  /\ Len(s) \in Nat /\ Len(s) >= 1 /\ Head(s) = s[1]
         /\ Len(Tail(s)) = Len(s) - 1
         /\ \A i \in 1..Len(Tail(s)) : Tail(s)[i] = s[i + 1]
BY HeadTailProperties, EmptySeq, LenProperties

LEMMA OrderedTail ==
  ASSUME NEW s \in Seq(Units), s # <<>>, NEW kind, NEW last, Ordered(s, kind, last)
  PROVE  /\ Ordered(Tail(s), kind, last)
         /\ Head(s).part = "body" =>
              /\ Head(s).env.kind = kind /\ Head(s).env.seq > last
              /\ Ordered(Tail(s), kind, Head(s).env.seq)
<1>1. /\ Len(s) \in Nat /\ Len(s) >= 1 /\ Head(s) = s[1]
      /\ Len(Tail(s)) = Len(s) - 1
      /\ \A i \in 1..Len(Tail(s)) : Tail(s)[i] = s[i + 1]
  BY TailUnits
<1>2. ASSUME NEW i \in 1..Len(Tail(s)), Tail(s)[i].part = "body"
      PROVE  /\ Tail(s)[i].env.kind = kind /\ Tail(s)[i].env.seq > last
             /\ \A j \in 1..(i - 1) :
                  Tail(s)[j].part = "body" => Tail(s)[j].env.seq < Tail(s)[i].env.seq
             /\ s[1].part = "body" => s[1].env.seq < Tail(s)[i].env.seq
  <2>1. i + 1 \in 1..Len(s) /\ Tail(s)[i] = s[i + 1]
    BY <1>1
  <2>2. \A j \in 1..i : s[j].part = "body" => s[j].env.seq < s[i + 1].env.seq
    BY <1>2, <2>1 DEF Ordered
  <2>3. \A j \in 1..(i - 1) : j + 1 \in 1..i /\ Tail(s)[j] = s[j + 1]
    BY <1>1
  <2>4. 1 \in 1..i
    OBVIOUS
  <2> QED
    BY <1>2, <2>1, <2>2, <2>3, <2>4 DEF Ordered
<1>3. ASSUME s[1].part = "body"
      PROVE  s[1].env.kind = kind /\ s[1].env.seq > last
  BY <1>1, <1>3 DEF Ordered
<1>4. Ordered(Tail(s), kind, last)
  BY <1>2 DEF Ordered
<1>5. ASSUME s[1].part = "body"
      PROVE  Ordered(Tail(s), kind, s[1].env.seq)
  <2> SUFFICES ASSUME NEW i \in 1..Len(Tail(s)), Tail(s)[i].part = "body"
               PROVE  /\ Tail(s)[i].env.kind = kind
                      /\ Tail(s)[i].env.seq > s[1].env.seq
                      /\ \A j \in 1..(i - 1) : Tail(s)[j].part = "body" =>
                           Tail(s)[j].env.seq < Tail(s)[i].env.seq
    BY DEF Ordered
  <2> QED
    BY <1>2, <1>5
<1> QED
  BY <1>1, <1>3, <1>4, <1>5

LEMMA OrderedRest ==
  ASSUME NEW s \in Seq(Units), s # <<>>, NEW kind, NEW last, Ordered(s, kind, last),
         NEW want, NEW rest \in AfterBadBody(s, want)
  PROVE  Ordered(rest, kind, last)
<1>1. CASE rest = Tail(s)
  BY <1>1, OrderedTail
<1>2. ASSUME NEW j \in 0..Len(s), rest = SubSeq(s, j + 1, Len(s))
      PROVE  Ordered(rest, kind, last)
  <2>1. /\ Len(s) \in Nat /\ Len(rest) = Len(s) - j
        /\ \A i \in 1..Len(rest) : i + j \in 1..Len(s) /\ rest[i] = s[i + j]
    BY <1>2
  <2> SUFFICES ASSUME NEW i \in 1..Len(rest), rest[i].part = "body"
               PROVE  /\ rest[i].env.kind = kind /\ rest[i].env.seq > last
                      /\ \A k \in 1..(i - 1) : rest[k].part = "body" =>
                           rest[k].env.seq < rest[i].env.seq
    BY DEF Ordered
  <2>2. i + j \in 1..Len(s) /\ rest[i] = s[i + j]
    BY <2>1
  <2>3. \A k \in 1..(i - 1) : k + j \in 1..(i + j - 1) /\ rest[k] = s[k + j]
    BY <2>1
  <2> QED
    BY <2>2, <2>3 DEF Ordered
<1> QED
  BY <1>1, <1>2 DEF AfterBadBody

\* The units of what a write leaves on a stream.
LEMMA WrittenUnits ==
  ASSUME NEW n \in Nat, NEW key \in Keys, NEW env \in Envelopes,
         NEW w \in Torn(Frame(n, key, env)) \cup {Frame(n, key, env)}
  PROVE  /\ w \in Seq(Units) /\ Len(w) \in 0..2
         /\ \A i \in 1..Len(w) : w[i].part = "body" => i = 2 /\ w[i].env = env
<1> DEFINE prefix == Prefix(n % LenModulus)
           body == Sealed(n, key, env)
<1>1. w \in Seq(Units)
  BY FrameType
<1>2. prefix.part = "len" /\ body.part = "body" /\ body.env = env /\ Scrap.part = "scrap"
  BY DEF Prefix, Sealed, Scrap
<1>3. Frame(n, key, env) = <<prefix, body>>
  BY DEF Frame
<1> HIDE DEF prefix, body
<1>4. Head(<<prefix, body>>) = prefix
  OBVIOUS
<1>5. w \in {<<>>, <<prefix>>, <<Scrap>>, <<prefix, body>>}
  BY <1>3, <1>4 DEF Torn
<1>6. CASE w = <<>>
  BY <1>1, <1>6
<1>7. ASSUME NEW u, w = <<u>>, u.part # "body"
      PROVE  Len(w) = 1 /\ \A i \in 1..Len(w) : w[i].part # "body"
  BY <1>7
<1>8. CASE w = <<prefix, body>>
  <2>1. Len(w) = 2 /\ w[1] = prefix /\ w[2] = body
    BY <1>8
  <2>2. \A i \in 1..Len(w) : i = 1 \/ i = 2
    BY <2>1
  <2> QED
    BY <1>1, <1>2, <2>1, <2>2
<1> QED
  BY <1>1, <1>2, <1>5, <1>6, <1>7, <1>8

LEMMA OrderedWrite ==
  ASSUME NEW s \in Seq(Units), NEW kind, NEW last, Ordered(s, kind, last),
         NEW n \in Nat, NEW key \in Keys, NEW env \in Envelopes,
         NEW w \in Torn(Frame(n, key, env)) \cup {Frame(n, key, env)},
         env.kind = kind, env.seq > last,
         \A i \in 1..Len(s) : s[i].part = "body" => s[i].env.seq < env.seq
  PROVE  Ordered(s \o w, kind, last)
<1>1. /\ w \in Seq(Units) /\ Len(w) \in 0..2
      /\ \A i \in 1..Len(w) : w[i].part = "body" => i = 2 /\ w[i].env = env
  BY WrittenUnits
<1>2. /\ Len(s) \in Nat /\ Len(s \o w) = Len(s) + Len(w)
      /\ \A i \in 1..Len(s) : (s \o w)[i] = s[i]
      /\ \A i \in 1..Len(w) : (s \o w)[Len(s) + i] = w[i]
  BY <1>1
<1> DEFINE t == s \o w
<1>3. Len(t) = Len(s) + Len(w) /\ \A i \in 1..Len(s) : t[i] = s[i]
  BY <1>2
<1>4. \A i \in (Len(s) + 1)..Len(t) :
        t[i].part = "body" => i = Len(s) + 2 /\ t[i].env = env
  <2> SUFFICES ASSUME NEW i \in (Len(s) + 1)..Len(t), t[i].part = "body"
               PROVE  i = Len(s) + 2 /\ t[i].env = env
    OBVIOUS
  <2>1. i - Len(s) \in 1..Len(w) /\ t[i] = w[i - Len(s)]
    BY <1>1, <1>2
  <2> QED
    BY <1>1, <1>2, <2>1
<1> HIDE DEF t
<1>5. ASSUME NEW i \in 1..Len(t), t[i].part = "body"
      PROVE  /\ t[i].env.kind = kind /\ t[i].env.seq > last
             /\ \A j \in 1..(i - 1) : t[j].part = "body" => t[j].env.seq < t[i].env.seq
  <2>1. CASE i \in 1..Len(s)
    BY <1>2, <1>3, <1>5, <2>1 DEF Ordered
  <2>2. CASE i \notin 1..Len(s)
    <3>1. i = Len(s) + 2 /\ t[i].env = env
      BY <1>1, <1>2, <1>3, <1>4, <1>5, <2>2
    <3>2. \A j \in 1..(i - 1) : t[j].part = "body" => j \in 1..Len(s)
      BY <1>1, <1>2, <1>3, <1>4, <3>1
    <3> QED
      BY <1>3, <3>1, <3>2
  <2> QED
    BY <2>1, <2>2
<1> QED
  BY <1>5 DEF Ordered, t

-----------------------------------------------------------------------------
(* The numbers on the streams grow.                                        *)

\* Every number on a stream was given to a call, or to an answer, before.
LEMMA NumbersGiven ==
  ASSUME SessionInv, StreamInv, OrderInv
  PROVE  /\ Len(calls) \in Nat /\ Len(answers) \in Nat
         /\ \A i \in 1..Len(up) : up[i].part = "body" =>
              up[i].env.seq \in 1..Len(calls) /\ up[i].key = cKey
         /\ \A i \in 1..Len(down) : down[i].part = "body" =>
              down[i].env.seq \in 1..Len(answers) /\ down[i].key = sKey
<1>1. /\ \A i \in 1..Len(up) : up[i] \in GenuineUnits
      /\ \A i \in 1..Len(down) : down[i] \in GenuineUnits
  BY ElementOfSeq DEF StreamInv
<1>2. /\ \A i \in 1..Len(up) : up[i].part = "body" => up[i].env.kind = "message"
      /\ \A i \in 1..Len(down) : down[i].part = "body" => down[i].env.kind = "response"
  BY DEF OrderInv, Ordered
<1> QED
  BY <1>1, <1>2, AnswerLens DEF SessionInv, GenuineUnits, Genuine

\* The counters of the readers are behind those of the writers.
BehindInv == sRecvSeq <= Len(calls) /\ cRecvSeq <= Len(answers)

LEMMA Behind ==
  ASSUME SessionInv, PairInv
  PROVE  BehindInv
<1> USE DEF SessionInv, PairInv
<1>1. /\ Len(received) \in Nat /\ Len(accepted) \in Nat /\ Len(calls) \in Nat
      /\ Len(answers) \in Nat
  BY AnswerLens
<1>2. sRecvSeq <= Len(calls)
  <2>1. CASE received = <<>>
    BY <1>1, <2>1 DEF CounterInv, LastNumber
  <2>2. CASE received # <<>>
    <3>1. Len(received) \in 1..Len(received)
      BY <1>1, <2>2, EmptySeq DEF TypeOK
    <3> QED
      BY <1>1, <2>2, <3>1 DEF CounterInv, LastNumber, TakenInv
  <2> QED
    BY <2>1, <2>2
<1>3. cRecvSeq <= Len(answers)
  <2>1. CASE accepted = <<>>
    BY <1>1, <2>1 DEF CounterInv, LastNumber
  <2>2. CASE accepted # <<>>
    <3>1. Len(accepted) \in 1..Len(accepted)
      BY <1>1, <2>2, EmptySeq DEF TypeOK
    <3> QED
      BY <1>1, <2>2, <3>1 DEF CounterInv, LastNumber, AcceptedPaired, Paired
  <2> QED
    BY <2>1, <2>2
<1> QED
  BY <1>2, <1>3 DEF BehindInv

LEMMA StepUpOrdered ==
  ASSUME SessionInv, StreamInv, PairInv, OrderInv, [Next]_vars
  PROVE  Ordered(up', "message", sRecvSeq')
<1> USE DEF SessionInv
<1>0. up \in Seq(Units) /\ Ordered(up, "message", sRecvSeq)
  BY DEF TypeOK, OrderInv
<1>1. CASE UNCHANGED <<up, sRecvSeq>>
  BY <1>0, <1>1
<1>2. CASE ServerReadPrefix \/ RejectReplayed \/ ServerDropsFrame
  <2>1. /\ up # <<>> /\ sRecvSeq' = sRecvSeq
        /\ up' = Tail(up) \/ up' \in AfterBadBody(up, sWant)
    BY <1>2 DEF ServerReadPrefix, RejectReplayed, ServerDropsFrame
  <2> QED
    BY <1>0, <2>1, OrderedTail, OrderedRest
<1>3. CASE AcceptMessage
  <2>1. /\ up # <<>> /\ up' = Tail(up) /\ Head(up).part = "body"
        /\ sRecvSeq' = Head(up).env.seq
    BY <1>3 DEF AcceptMessage, Opens
  <2> QED
    BY <1>0, <2>1, OrderedTail
<1>4. ASSUME NEW type \in Types, NEW v \in VarSizes,
             SendWritten(type, v) \/ SendBroken(type, v)
      PROVE  Ordered(up', "message", sRecvSeq')
  <2> DEFINE n == SealedMessage(v)
             env == Message(cSendSeq', type)
             frame == Frame(n, cKey, env)
  <2>1. cSendSeq' = Len(calls) + 1 /\ cSendSeq' \in Nat
    BY <1>4, WrittenCall DEF NewMessage
  <2>2. env \in Envelopes /\ env.kind = "message" /\ env.seq = Len(calls) + 1
    BY <2>1 DEF Message, Envelopes
  <2>3. n \in Nat /\ cKey \in Keys
    BY SizeAssumption DEF SealedMessage, MinFrameSizeV2, NonceSize, GCMTagSize, TypeOK
  <2>4. \E w \in Torn(frame) \cup {frame} : up' = up \o w
    BY <1>4 DEF SendWritten, SendBroken
  <2> HIDE DEF n, env
  <2>5. sRecvSeq < Len(calls) + 1 /\ sRecvSeq' = sRecvSeq
    <3>1. sRecvSeq <= Len(calls) /\ sRecvSeq \in Nat /\ Len(calls) \in Nat
      BY Behind, AnswerLens DEF BehindInv, TypeOK
    <3> QED
      BY <1>4, <3>1 DEF SendWritten, SendBroken, serverVars
  <2>6. \A i \in 1..Len(up) : up[i].part = "body" => up[i].env.seq < env.seq
    BY <2>2, NumbersGiven
  <2>7. env.seq > sRecvSeq
    BY <2>2, <2>5
  <2> QED
    BY <1>0, <2>2, <2>3, <2>4, <2>5, <2>6, <2>7, OrderedWrite
<1>5. CASE \E type \in Types, v \in VarSizes : SendRefused(type, v)
  BY <1>1, <1>5 DEF SendRefused, serverVars
<1>6. CASE ClientHandshake \/ ClientHandshakeFails \/ ClientReads \/ Close
  BY <1>1, <1>6 DEF ClientHandshake, ClientHandshakeFails, ClientReads,
     ClientReadPrefix, ClientReadAstray, ClientAnswered, ClientErrSeal,
     ClientReadFails, Close, serverVars
<1>7. CASE \/ ServerHandshake \/ ServerHandshakeFails \/ ServerReadAstray
           \/ ServerReadFails \/ ServerServes \/ UNCHANGED vars
           \/ \E type \in Types : RegisterHandler(type)
  BY <1>1, <1>7 DEF ServerHandshake, ServerHandshakeFails, ServerReadAstray,
     ServerReadFails, ServerServes, Authorize, Deny, Route, RouteMissing,
     HandlerReturns, RegisterHandler, vars, serverVars
<1> QED
  BY <1>2, <1>3, <1>4, <1>5, <1>6, <1>7 DEF Next, ClientNext, ClientSends,
     ServerNext, ServerReads, ReceiveMessage

\* A response, as it is written.
LEMMA WrittenResponse ==
  ASSUME SessionInv, NEW code \in Codes, NEW why, Respond(code, why)
  PROVE  LET env == Response(Len(answers) + 1, code)
             frame == Frame(SealedResponse, sKey, env)
         IN /\ env \in Envelopes /\ env.kind = "response"
            /\ env.seq = Len(answers) + 1
            /\ SealedResponse \in Nat /\ sKey \in Keys
            /\ \E w \in ResponseWrites(frame) :
                 /\ down' = down \o w
                 /\ answers' = Append(answers, [re |-> sMsg'.seq, item |-> code,
                                       why |-> why, whole |-> w = frame])
<1>1. ResponseNumber = Len(answers) + 1 /\ Len(answers) \in Nat
  BY AnswerLens DEF SessionInv, AnswerInv, ResponseNumber
<1>2. SealedResponse \in Nat /\ sKey \in Keys
  BY DEF SealedResponse, MinFrameSizeV2, NonceSize, GCMTagSize, SessionInv, TypeOK
<1>3. \A n \in Nat : /\ Response(n, code) \in Envelopes
                     /\ Response(n, code).kind = "response"
                     /\ Response(n, code).seq = n
  BY DEF Response, Envelopes
<1>4. Len(answers) + 1 \in Nat
  BY <1>1
<1> QED
  BY <1>1, <1>2, <1>3, <1>4 DEF Respond

LEMMA StepDownOrdered ==
  ASSUME SessionInv, StreamInv, PairInv, OrderInv, [Next]_vars
  PROVE  Ordered(down', "response", cRecvSeq')
<1> USE DEF SessionInv
<1>0. down \in Seq(Units) /\ Ordered(down, "response", cRecvSeq)
  BY DEF TypeOK, OrderInv
<1>1. CASE UNCHANGED <<down, cRecvSeq>>
  BY <1>0, <1>1
<1>2. CASE ClientHandshake \/ ClientReadPrefix \/ ClientErrSeal
  <2>1. /\ down # <<>> /\ cRecvSeq' = cRecvSeq
        /\ down' = Tail(down) \/ down' \in AfterBadBody(down, cWant)
    BY <1>2 DEF ClientHandshake, ClientReadPrefix, ClientErrSeal
  <2> QED
    BY <1>0, <2>1, OrderedTail, OrderedRest
<1>3. CASE ClientAnswered
  <2>1. /\ down # <<>> /\ down' = Tail(down) /\ Head(down).part = "body"
        /\ cRecvSeq' \in {cRecvSeq, Head(down).env.seq}
    BY <1>3 DEF ClientAnswered, Opens
  <2> QED
    BY <1>0, <2>1, OrderedTail
<1>4. CASE Responds
  <2>1. PICK code \in Codes, why \in Reasons : Respond(code, why)
    BY <1>4, RespondsHow
  <2> DEFINE env == Response(Len(answers) + 1, code)
             frame == Frame(SealedResponse, sKey, env)
  <2>2. /\ env \in Envelopes /\ env.kind = "response" /\ env.seq = Len(answers) + 1
        /\ SealedResponse \in Nat /\ sKey \in Keys
        /\ \E w \in ResponseWrites(frame) : down' = down \o w
    BY <2>1, WrittenResponse
  <2>3. \E w \in Torn(frame) \cup {frame} : down' = down \o w
    <3> HIDE DEF env
    <3>1. <<>> \in Torn(frame)
      BY DEF Torn
    <3> QED
      BY <2>2, <3>1 DEF ResponseWrites
  <2> HIDE DEF env
  <2>4. cRecvSeq < Len(answers) + 1 /\ cRecvSeq' = cRecvSeq
    <3>1. cRecvSeq <= Len(answers) /\ cRecvSeq \in Nat /\ Len(answers) \in Nat
      BY Behind, AnswerLens DEF BehindInv, TypeOK
    <3>2. cRecvSeq' = cRecvSeq
      BY <1>4 DEF Responds, RejectReplayed, Deny, RouteMissing, HandlerReturns,
         clientVars
    <3> QED
      BY <3>1, <3>2
  <2>5. \A i \in 1..Len(down) : down[i].part = "body" => down[i].env.seq < env.seq
    BY <2>2, NumbersGiven
  <2>6. env.seq > cRecvSeq
    BY <2>2, <2>4
  <2> QED
    BY <1>0, <2>2, <2>3, <2>4, <2>5, <2>6, OrderedWrite
<1>5. CASE ServerHandshake
  <2>1. PICK salt \in Salts : down' = down \o <<Hello(salt)>> /\ cRecvSeq' = cRecvSeq
    BY <1>5 DEF ServerHandshake, clientVars
  <2>2. Hello(salt).part # "body"
    BY DEF Hello
  <2> DEFINE h == Hello(salt)
             t == down \o <<h>>
  <2> HIDE DEF h
  <2>3. /\ Len(down) \in Nat /\ Len(t) = Len(down) + 1
        /\ \A i \in 1..Len(down) : t[i] = down[i]
        /\ t[Len(down) + 1] = h
    BY <1>0
  <2> HIDE DEF t
  <2>4. \A i \in 1..Len(t) : t[i].part = "body" => i \in 1..Len(down)
    BY <2>2, <2>3 DEF h
  <2>5. Ordered(t, "response", cRecvSeq)
    BY <1>0, <2>3, <2>4 DEF Ordered
  <2> QED
    BY <2>1, <2>5 DEF h, t
<1>6. CASE ClientHandshakeFails \/ ClientSends \/ ClientReadAstray
           \/ ClientReadFails \/ Close
  BY <1>1, <1>6 DEF ClientHandshakeFails, ClientSends, SendRefused, SendWritten,
     SendBroken, ClientReadAstray, ClientReadFails, Close
<1>7. CASE \/ ServerHandshakeFails \/ ServerReadPrefix \/ ServerReadAstray
           \/ AcceptMessage \/ ServerDropsFrame \/ ServerReadFails
           \/ Authorize \/ Route \/ UNCHANGED vars
           \/ \E type \in Types : RegisterHandler(type)
  BY <1>1, <1>7 DEF ServerHandshakeFails, ServerReadPrefix, ServerReadAstray,
     AcceptMessage, ServerDropsFrame, ServerReadFails, Authorize, Route,
     RegisterHandler, vars, clientVars
<1> QED
  BY <1>2, <1>3, <1>4, <1>5, <1>6, <1>7 DEF Responds, Next, ClientNext,
     ClientReads, ServerNext, ServerReads, ReceiveMessage, ServerServes

LEMMA StepOrder ==
  ASSUME SessionInv, StreamInv, PairInv, OrderInv, [Next]_vars
  PROVE  OrderInv'
BY StepUpOrdered, StepDownOrdered DEF OrderInv

-----------------------------------------------------------------------------
(* No number is refused.                                                   *)

\* A body at the head of a stream is meant for its reader and new to it.
LEMMA HeadIsNew ==
  ASSUME TypeOK, OrderInv
  PROVE  /\ up # <<>> /\ Head(up).part = "body" =>
              IsKind(Head(up).env, "message") /\ Fresh(Head(up).env.seq, sRecvSeq)
         /\ down # <<>> /\ Head(down).part = "body" =>
              IsKind(Head(down).env, "response") /\ Fresh(Head(down).env.seq, cRecvSeq)
<1>1. up \in Seq(Units) /\ down \in Seq(Units)
  BY DEF TypeOK
<1> QED
  BY <1>1, OrderedTail DEF OrderInv, IsKind, Fresh

LEMMA NothingRefused ==
  ASSUME TypeOK, OrderInv
  PROVE  /\ ~RejectReplayed
         /\ ServerDropsFrame => exit' = "seal" /\ ~Opens(Head(up), sWant, sKey)
         /\ ClientAnswered => EndCall("code")
<1>1. ASSUME up # <<>>, Opens(Head(up), sWant, sKey)
      PROVE  IsKind(Head(up).env, "message") /\ Fresh(Head(up).env.seq, sRecvSeq)
  BY <1>1, HeadIsNew DEF Opens
<1>2. ASSUME down # <<>>, Opens(Head(down), cWant, cKey)
      PROVE  IsKind(Head(down).env, "response") /\ Fresh(Head(down).env.seq, cRecvSeq)
  BY <1>2, HeadIsNew DEF Opens
<1> QED
  BY <1>1, <1>2 DEF RejectReplayed, ServerDropsFrame, ClientAnswered, Return

LEMMA StartedCall ==
  ASSUME TypeOK, NEW type \in Types, NEW v \in VarSizes, NEW out,
         StartCall(type, v, out)
  PROVE  /\ Len(calls) \in Nat /\ Len(calls') = Len(calls) + 1
         /\ \A k \in 1..Len(calls) : calls'[k] = calls[k]
         /\ calls'[Len(calls) + 1].out = out
         /\ calls'[Len(calls) + 1].size = SealedMessage(v)
<1> DEFINE new == [type |-> type, size |-> SealedMessage(v), out |-> out]
<1>1. calls' = Append(calls, new) /\ new.out = out /\ new.size = SealedMessage(v)
  BY DEF StartCall
<1> HIDE DEF new
<1>2. calls \in Seq(Calls) /\ Len(calls) \in Nat
  BY AnswerLens DEF TypeOK
<1>3. /\ Len(calls') = Len(calls) + 1
      /\ \A k \in 1..Len(calls) : calls'[k] = calls[k]
      /\ calls'[Len(calls) + 1] = new
  BY <1>1, <1>2
<1> QED
  BY <1>1, <1>2, <1>3

\* How the calls change: the last one ends, or a new one starts.
Ended(out) == ClientReads /\ EndCall(out)
LEMMA CallSteps ==
  ASSUME TypeOK, OrderInv, [Next]_vars
  PROVE  \/ \E out \in {"code", "size", "seal", "read"} : Ended(out)
         \/ StartsCall
         \/ UNCHANGED calls
<1>1. CASE ClientAnswered
  BY <1>1, NothingRefused DEF Ended, ClientReads
<1>2. CASE ClientReadPrefix \/ ClientReadAstray \/ ClientErrSeal \/ ClientReadFails
  BY <1>2 DEF Ended, ClientReads, ClientReadPrefix, ClientReadAstray,
     ClientErrSeal, ClientReadFails
<1>3. CASE ~ClientReads
  BY <1>3, StepKinds DEF EndsCall
<1> QED
  BY <1>1, <1>2, <1>3 DEF ClientReads

\* Why HandleConnection may return.
LEMMA ExitSteps ==
  ASSUME TypeOK, OrderInv, [Next]_vars
  PROVE  \/ exit' = exit
         \/ exit' \in {"handshake", "read", "unauthorized"}
         \/ exit' = "size" /\ (ServerReadPrefix \/ ServerReadAstray)
         \/ exit' = "seal" /\ ServerDropsFrame
<1>1. CASE ServerDropsFrame
  BY <1>1, NothingRefused
<1>2. CASE ServerReadPrefix \/ ServerReadAstray
  BY <1>2 DEF ServerReadPrefix, ServerReadAstray, Return
<1>3. CASE Deny \/ ServerHandshakeFails \/ ServerReadFails
  BY <1>3 DEF Deny, AfterDenial, ServerHandshakeFails, ServerReadFails, Return
<1>4. CASE ServerHandshake \/ AcceptMessage \/ Authorize \/ Route \/ RouteMissing
           \/ HandlerReturns
  BY <1>4 DEF ServerHandshake, AcceptMessage, Authorize, Route, RouteMissing,
     HandlerReturns
<1>5. CASE ClientNext
  BY <1>5 DEF ClientNext, ClientHandshake, ClientHandshakeFails,
     ClientSends, SendRefused, SendWritten, SendBroken, ClientReads,
     ClientReadPrefix, ClientReadAstray, ClientAnswered, ClientErrSeal,
     ClientReadFails, Close, serverVars
<1>6. CASE UNCHANGED vars \/ \E type \in Types : RegisterHandler(type)
  BY <1>6 DEF vars, serverVars, RegisterHandler
<1> QED
  BY <1>1, <1>2, <1>3, <1>4, <1>5, <1>6, NothingRefused
     DEF Next, ServerNext, ServerReads, ReceiveMessage, ServerServes

LEMMA StepNoReplay ==
  ASSUME SessionInv, TypeOK', OrderInv, NoReplay, [Next]_vars
  PROVE  NoReplay'
<1> USE DEF SessionInv
<1>0. Len(calls) \in Nat /\ Len(answers) \in Nat
  BY AnswerLens
<1>1. \A i \in 1..Len(answers') : answers'[i].why # "replay"
  <2>1. CASE Responds
    <3>1. PICK code \in Codes, why \in {"handler", "no_handler", "unauthorized"} :
            Respond(code, why)
      BY <2>1, NothingRefused DEF Responds, Deny, RouteMissing, HandlerReturns, Codes
    <3>2. /\ Len(answers') = Len(answers) + 1
          /\ \A i \in 1..Len(answers) : answers'[i] = answers[i]
          /\ answers'[Len(answers')].why = why
      BY <3>1, RespondAnswers
    <3> QED
      BY <1>0, <3>2 DEF NoReplay
  <2>2. CASE UNCHANGED answers
    BY <2>2 DEF NoReplay
  <2> QED
    BY <2>1, <2>2, StepKinds
<1>2. exit' \notin {"replay", "envelope"}
  BY ExitSteps DEF NoReplay
<1>3. \A k \in 1..Len(calls') : calls'[k].out \notin {"replay", "envelope"}
  <2>1. ASSUME NEW out \in {"code", "size", "seal", "read"}, Ended(out)
        PROVE  \A k \in 1..Len(calls') : calls'[k].out \notin {"replay", "envelope"}
    <3>1. /\ Len(calls') = Len(calls)
          /\ \A k \in 1..Len(calls) : k # Len(calls) => calls'[k] = calls[k]
          /\ Len(calls) # 0 => calls'[Len(calls)].out = out
      BY <2>1, EndCallOuts DEF Ended, Outcomes
    <3> QED
      BY <1>0, <3>1 DEF NoReplay
  <2>2. CASE StartsCall
    <3>1. PICK type \in Types, v \in VarSizes, out \in {"refused", "pending", "write"} :
            StartCall(type, v, out)
      BY <2>2 DEF StartsCall, SendRefused, SendWritten, SendBroken
    <3>2. /\ Len(calls') = Len(calls) + 1
          /\ \A k \in 1..Len(calls) : calls'[k] = calls[k]
          /\ calls'[Len(calls) + 1].out = out
      BY <3>1, StartedCall
    <3> QED
      BY <1>0, <3>2 DEF NoReplay
  <2>3. CASE UNCHANGED calls
    BY <2>3 DEF NoReplay
  <2> QED
    BY <2>1, <2>2, <2>3, CallSteps
<1> QED
  BY <1>1, <1>2, <1>3 DEF NoReplay

LEMMA InitOrder == Init => OrderInv /\ NoReplay
<1> SUFFICES ASSUME Init PROVE OrderInv /\ NoReplay
  OBVIOUS
<1>1. Len(up) = 0 /\ Len(down) = 0 /\ Len(answers) = 0 /\ Len(calls) = 0
  BY EmptySeq DEF Init
<1> QED
  BY <1>1 DEF Init, OrderInv, Ordered, NoReplay

OrderedSession == SessionInv /\ StreamInv /\ PairInv /\ OrderInv /\ NoReplay

LEMMA StepOrderedSession ==
  ASSUME OrderedSession, [Next]_vars
  PROVE  OrderInv' /\ NoReplay'
<1>1. TypeOK'
  BY StepTypeOK DEF OrderedSession, SessionInv
<1> QED
  BY <1>1, StepOrder, StepNoReplay DEF OrderedSession

LEMMA OrderedInvariant == Spec => []OrderedSession
<1>1. (SessionInv /\ StreamInv /\ PairInv) /\ (OrderInv /\ NoReplay) /\ [Next]_vars
        => (OrderInv /\ NoReplay)'
  BY StepOrderedSession DEF OrderedSession
<1>2. (SessionInv /\ StreamInv /\ PairInv) /\ (OrderInv /\ NoReplay) => OrderedSession
  BY DEF OrderedSession
<1> QED
  BY <1>1, <1>2, InitOrder, PairInvariant, PTL DEF Spec

\* Over a stream that keeps order, a client none of whose calls was given up
\* takes no code for another call's, although no response says which call it
\* answers.
THEOREM OwnAnswers == Spec => []OwnAnswer
<1>1. OrderedSession => OwnAnswer
  BY AnswerLens DEF OrderedSession, SessionInv, PairInv, AcceptedPaired, Paired,
     NoReplay, OwnAnswer
<1> QED
  BY <1>1, OrderedInvariant, PTL

-----------------------------------------------------------------------------
(***************************************************************************)
(* Readers that keep step with the writers: NoFalseAlarm and               *)
(* NoFalseAlarmAtClient of SecureSession.                                  *)
(*                                                                         *)
(* The inductive invariant says that the units on a stream alternate, each *)
(* prefix before its body, and that the reader is where the stream is, as  *)
(* long as no write stopped half way and no read was given up: then no     *)
(* length and no tag is wrong.                                             *)
(***************************************************************************)

\* The units alternate, a body first exactly when the reader is in one and
\* expects that length; every length is one the reader takes.
InStep(s, inBody, want, cap) ==
  /\ inBody => s # <<>>
  /\ \A i \in 1..Len(s) :
       \/ /\ s[i].part = "len" /\ FitsReader(s[i].n, cap) /\ (i = 1 => ~inBody)
          /\ i < Len(s) /\ s[i + 1].part = "body" /\ s[i + 1].n = s[i].n
       \/ /\ s[i].part = "body"
          /\ IF i = 1 THEN inBody /\ s[i].n = want ELSE s[i - 1].part = "len"

\* Nothing happened that may put the reader of a stream out of step.
UpSound ==
  /\ ClientSecret = ServerSecret
  /\ \A k \in 1..Len(calls) : calls[k].out # "write" /\ calls[k].size <= ServerCap
DownSound ==
  /\ ClientSecret = ServerSecret
  /\ \A k \in 1..Len(calls) : calls[k].out \notin {"read", "size", "seal"}
  /\ \A i \in 1..Len(answers) : answers[i].whole

UpInStep == UpSound /\ spc # "closed" => InStep(up, spc = "body", sWant, ServerCap)
DownInStep == DownSound /\ cpc \in {"idle", "len", "body"} =>
  InStep(down, cpc = "body", cWant, ClientCap)

\* The handshake: nothing travels before it but the header, and a client that
\* read the header has the server's key.
Settled(u) == u.part = "hello" => sKey = Key(ServerSecret, u.salt)
SettledUnits == {u \in Units : Settled(u)}
HelloInv ==
  /\ spc = "start" =>
       /\ up = <<>> /\ down = <<>> /\ calls = <<>>
       /\ cpc \in {"hello", "closed"}
  /\ cpc = "hello" =>
       /\ up = <<>> /\ calls = <<>> /\ spc \in {"start", "len", "closed"}
       /\ down # <<>> => Len(down) = 1 /\ down[1].part = "hello"
  /\ down \in Seq(SettledUnits)
  /\ ClientSecret = ServerSecret /\ (cpc \notin {"hello", "closed"} \/ calls # <<>>)
       => cKey = sKey

\* A call that waits for its response is the last and still open.
WaitingInv == cpc \in {"len", "body"} =>
  calls # <<>> /\ calls[Len(calls)].out = "pending"

\* NoFalseAlarm and NoFalseAlarmAtClient, without what NoReplay says.
ServerAlarm == exit \in {"size", "seal"} => ~UpSound
ClientAlarm == \A k \in 1..Len(calls) : calls[k].out \in {"size", "seal"} =>
  \/ ClientSecret # ServerSecret
  \/ \E j \in 1..(k - 1) : calls[j].out = "read"
  \/ \E i \in 1..Len(answers) : ~answers[i].whole

ServerStepInv == UpInStep /\ HelloInv /\ WaitingInv /\ ServerAlarm
ClientStepInv == DownInStep /\ HelloInv /\ WaitingInv /\ ClientAlarm

-----------------------------------------------------------------------------
(* Readers that stay in step.                                              *)

LEMMA InStepPrefix ==
  ASSUME NEW s \in Seq(Units), s # <<>>, NEW want, NEW cap, InStep(s, FALSE, want, cap)
  PROVE  /\ Head(s).part = "len" /\ FitsReader(Head(s).n, cap)
         /\ InStep(Tail(s), TRUE, Head(s).n, cap)
<1>1. /\ Len(s) \in Nat /\ Len(s) >= 1 /\ Head(s) = s[1]
      /\ Len(Tail(s)) = Len(s) - 1
      /\ \A i \in 1..Len(Tail(s)) : Tail(s)[i] = s[i + 1]
  BY TailUnits
<1>2. /\ s[1].part = "len" /\ FitsReader(s[1].n, cap)
      /\ 1 < Len(s) /\ s[2].part = "body" /\ s[2].n = s[1].n
  BY <1>1 DEF InStep
<1> DEFINE t == Tail(s)
<1>3. Len(t) = Len(s) - 1 /\ \A i \in 1..Len(t) : t[i] = s[i + 1]
  BY <1>1
<1> HIDE DEF t
<1>4. t # <<>>
  BY <1>1, <1>2, <1>3
<1>5. ASSUME NEW i \in 1..Len(t), i # 1
      PROVE  \/ /\ t[i].part = "len" /\ FitsReader(t[i].n, cap)
                /\ i < Len(t) /\ t[i + 1].part = "body" /\ t[i + 1].n = t[i].n
             \/ t[i].part = "body" /\ t[i - 1].part = "len"
  <2>1. i + 1 \in 1..Len(s) /\ i + 1 # 1 /\ t[i] = s[i + 1] /\ t[i - 1] = s[i]
    BY <1>1, <1>3, <1>5
  <2>2. CASE s[i + 1].part = "len"
    <3>1. /\ FitsReader(s[i + 1].n, cap) /\ i + 1 < Len(s)
          /\ s[(i + 1) + 1].part = "body" /\ s[(i + 1) + 1].n = s[i + 1].n
      BY <2>1, <2>2 DEF InStep
    <3>2. t[i + 1] = s[(i + 1) + 1] /\ i < Len(t)
      BY <1>1, <1>3, <2>1, <3>1
    <3> QED
      BY <2>1, <2>2, <3>1, <3>2
  <2>3. CASE s[i + 1].part # "len"
    <3>1. s[i + 1].part = "body" /\ s[(i + 1) - 1].part = "len"
      BY <2>1, <2>3 DEF InStep
    <3> QED
      BY <2>1, <3>1
  <2> QED
    BY <2>2, <2>3
<1>6. t[1].part = "body" /\ t[1].n = s[1].n
  BY <1>1, <1>2, <1>3
<1>7. InStep(t, TRUE, s[1].n, cap)
  BY <1>4, <1>5, <1>6 DEF InStep
<1> QED
  BY <1>1, <1>2, <1>7 DEF t

LEMMA InStepBody ==
  ASSUME NEW s \in Seq(Units), NEW want, NEW cap, InStep(s, TRUE, want, cap), NEW any
  PROVE  /\ s # <<>> /\ Head(s).part = "body" /\ Head(s).n = want
         /\ InStep(Tail(s), FALSE, any, cap)
<1>0. s # <<>>
  BY DEF InStep
<1>1. /\ Len(s) \in Nat /\ Len(s) >= 1 /\ Head(s) = s[1]
      /\ Len(Tail(s)) = Len(s) - 1
      /\ \A i \in 1..Len(Tail(s)) : Tail(s)[i] = s[i + 1]
  BY <1>0, TailUnits
<1>2. s[1].part = "body" /\ s[1].n = want
  BY <1>1 DEF InStep
<1> DEFINE t == Tail(s)
<1>3. Len(t) = Len(s) - 1 /\ \A i \in 1..Len(t) : t[i] = s[i + 1]
  BY <1>1
<1> HIDE DEF t
<1>5. ASSUME NEW i \in 1..Len(t)
      PROVE  \/ /\ t[i].part = "len" /\ FitsReader(t[i].n, cap)
                /\ i < Len(t) /\ t[i + 1].part = "body" /\ t[i + 1].n = t[i].n
             \/ i # 1 /\ t[i].part = "body" /\ t[i - 1].part = "len"
  <2>1. i + 1 \in 1..Len(s) /\ i + 1 # 1 /\ t[i] = s[i + 1] /\ (i # 1 => t[i - 1] = s[i])
    BY <1>1, <1>3
  <2>2. CASE s[i + 1].part = "len"
    <3>1. /\ FitsReader(s[i + 1].n, cap) /\ i + 1 < Len(s)
          /\ s[(i + 1) + 1].part = "body" /\ s[(i + 1) + 1].n = s[i + 1].n
      BY <2>1, <2>2 DEF InStep
    <3>2. t[i + 1] = s[(i + 1) + 1] /\ i < Len(t)
      BY <1>1, <1>3, <2>1, <3>1
    <3> QED
      BY <2>1, <2>2, <3>1, <3>2
  <2>3. CASE s[i + 1].part # "len"
    <3>1. s[i + 1].part = "body" /\ s[(i + 1) - 1].part = "len"
      BY <2>1, <2>3 DEF InStep
    <3> QED
      BY <1>2, <2>1, <3>1
  <2> QED
    BY <2>2, <2>3
<1>7. InStep(t, FALSE, any, cap)
  BY <1>5 DEF InStep
<1> QED
  BY <1>0, <1>1, <1>2, <1>7 DEF t

\* Between frames the length last announced does not matter.
LEMMA InStepIdle ==
  ASSUME NEW s, NEW want, NEW any, NEW cap, InStep(s, FALSE, want, cap)
  PROVE  InStep(s, FALSE, any, cap)
BY DEF InStep

\* A whole frame of a size the reader takes keeps it in step.
LEMMA InStepFrame ==
  ASSUME NEW s \in Seq(Units), NEW inBody, NEW want, NEW cap,
         InStep(s, inBody, want, cap), NEW n \in Nat, FitsReader(n, cap),
         n % LenModulus = n, NEW key \in Keys, NEW env \in Envelopes
  PROVE  InStep(s \o Frame(n, key, env), inBody, want, cap)
<1> DEFINE prefix == Prefix(n % LenModulus)
           body == Sealed(n, key, env)
           t == s \o <<prefix, body>>
<1>1. prefix.part = "len" /\ prefix.n = n /\ body.part = "body" /\ body.n = n
  BY DEF Prefix, Sealed
<1>2. Frame(n, key, env) = <<prefix, body>> /\ prefix \in Units /\ body \in Units
  BY FrameUnits DEF Frame
<1> HIDE DEF prefix, body
<1>3. /\ Len(s) \in Nat /\ Len(t) = Len(s) + 2
      /\ \A i \in 1..Len(s) : t[i] = s[i]
      /\ t[Len(s) + 1] = prefix /\ t[Len(s) + 2] = body
  BY <1>2
<1> HIDE DEF t
<1>4. inBody => t # <<>> /\ s # <<>> /\ Len(s) # 0
  BY <1>3, EmptySeq DEF InStep
<1>5. ASSUME NEW i \in 1..Len(s)
      PROVE  \/ /\ t[i].part = "len" /\ FitsReader(t[i].n, cap) /\ (i = 1 => ~inBody)
                /\ i < Len(t) /\ t[i + 1].part = "body" /\ t[i + 1].n = t[i].n
             \/ /\ t[i].part = "body"
                /\ IF i = 1 THEN inBody /\ t[i].n = want ELSE t[i - 1].part = "len"
  <2>1. CASE s[i].part = "len"
    <3>1. /\ FitsReader(s[i].n, cap) /\ (i = 1 => ~inBody)
          /\ i < Len(s) /\ s[i + 1].part = "body" /\ s[i + 1].n = s[i].n
      BY <2>1 DEF InStep
    <3>2. t[i] = s[i] /\ t[i + 1] = s[i + 1] /\ i < Len(t)
      BY <1>3, <3>1
    <3> QED
      BY <2>1, <3>1, <3>2
  <2>2. CASE s[i].part # "len"
    <3>1. /\ s[i].part = "body"
          /\ IF i = 1 THEN inBody /\ s[i].n = want ELSE s[i - 1].part = "len"
      BY <2>2 DEF InStep
    <3>2. t[i] = s[i] /\ (i # 1 => t[i - 1] = s[i - 1])
      BY <1>3
    <3> QED
      BY <3>1, <3>2
  <2> QED
    BY <2>1, <2>2
<1>6. /\ t[Len(s) + 1].part = "len" /\ FitsReader(t[Len(s) + 1].n, cap)
      /\ (Len(s) + 1 = 1 => ~inBody)
      /\ Len(s) + 1 < Len(t) /\ t[(Len(s) + 1) + 1].part = "body"
      /\ t[(Len(s) + 1) + 1].n = t[Len(s) + 1].n
  <2>1. (Len(s) + 1) + 1 = Len(s) + 2
    BY <1>3
  <2> QED
    BY <1>1, <1>3, <1>4, <2>1
<1>7. t[Len(s) + 2].part = "body" /\ t[(Len(s) + 2) - 1].part = "len" /\ Len(s) + 2 # 1
  <2>1. (Len(s) + 2) - 1 = Len(s) + 1
    BY <1>3
  <2> QED
    BY <1>1, <1>3, <2>1
<1>8. \A i \in 1..Len(t) : i \in 1..Len(s) \/ i = Len(s) + 1 \/ i = Len(s) + 2
  BY <1>3
<1>9. InStep(t, inBody, want, cap)
  BY <1>4, <1>5, <1>6, <1>7, <1>8 DEF InStep
<1> QED
  BY <1>2, <1>9 DEF t

-----------------------------------------------------------------------------
(* What sounds the alarm stays sounded.                                    *)

LEMMA EndedCall ==
  ASSUME TypeOK, WaitingInv, NEW out \in Outcomes, Ended(out)
  PROVE  /\ Len(calls) \in Nat \ {0} /\ Len(calls') = Len(calls)
         /\ \A k \in 1..Len(calls) : k # Len(calls) => calls'[k] = calls[k]
         /\ calls[Len(calls)].out = "pending" /\ calls'[Len(calls)].out = out
         /\ calls'[Len(calls)].size = calls[Len(calls)].size
<1>1. cpc \in {"len", "body"}
  BY DEF Ended, ClientReads, ClientReadPrefix, ClientReadAstray, ClientAnswered,
     ClientErrSeal, ClientReadFails
<1>2. calls \in Seq(Calls) /\ calls # <<>> /\ calls[Len(calls)].out = "pending"
  BY <1>1 DEF WaitingInv, TypeOK
<1>3. Len(calls) \in Nat \ {0} /\ Len(calls) \in 1..Len(calls)
  BY <1>2, EmptySeq, LenProperties
<1>4. EndCall(out)
  BY DEF Ended
<1>5. /\ Len(calls') = Len(calls)
      /\ \A k \in 1..Len(calls) : k # Len(calls) => calls'[k] = calls[k]
      /\ calls'[Len(calls)] = [calls[Len(calls)] EXCEPT !.out = out]
  BY <1>2, <1>3, <1>4, EndCallType
<1>6. calls[Len(calls)] \in Calls
  BY <1>2, <1>3, ElementOfSeq
<1>7. \A c \in Calls : /\ [c EXCEPT !.out = out].out = out
                       /\ [c EXCEPT !.out = out].size = c.size
  BY DEF Calls
<1> QED
  BY <1>2, <1>3, <1>5, <1>6, <1>7

\* The history of answers only grows.
LEMMA AnswersKept ==
  ASSUME TypeOK, TypeOK', [Next]_vars
  PROVE  /\ Len(answers) \in Nat /\ Len(answers') \in Nat /\ Len(answers) <= Len(answers')
         /\ \A i \in 1..Len(answers) : answers'[i] = answers[i]
<1>1. Len(answers) \in Nat /\ Len(answers') \in Nat
  BY LenProperties DEF TypeOK
<1>2. CASE Responds
  BY <1>1, <1>2, RespondsHow, RespondAnswers
<1>3. CASE UNCHANGED answers
  BY <1>1, <1>3
<1> QED
  BY <1>1, <1>2, <1>3, StepKinds

LEMMA CallsSound ==
  ASSUME TypeOK, OrderInv, WaitingInv, [Next]_vars
  PROVE  UpSound' => UpSound
<1> SUFFICES ASSUME UpSound', NEW k \in 1..Len(calls)
             PROVE  calls[k].out # "write" /\ calls[k].size <= ServerCap
  BY DEF UpSound
<1>1. CASE \E out \in {"code", "size", "seal", "read"} : Ended(out)
  <2>1. PICK out \in {"code", "size", "seal", "read"} : Ended(out)
    BY <1>1
  <2>2. /\ Len(calls) \in Nat \ {0} /\ Len(calls') = Len(calls)
        /\ \A j \in 1..Len(calls) : j # Len(calls) => calls'[j] = calls[j]
        /\ calls[Len(calls)].out = "pending"
        /\ calls'[Len(calls)].size = calls[Len(calls)].size
    BY <2>1, EndedCall DEF Outcomes
  <2>3. k \in 1..Len(calls')
    BY <2>2
  <2>4. calls'[k].out # "write" /\ calls'[k].size <= ServerCap
    BY <2>3 DEF UpSound
  <2> QED
    BY <2>2, <2>4
<1>2. CASE StartsCall
  <2>1. Len(calls) \in Nat /\ Len(calls') = Len(calls) + 1
        /\ \A j \in 1..Len(calls) : calls'[j] = calls[j]
    BY <1>2, StartsHow, StartedCall
  <2> QED
    BY <2>1 DEF UpSound
<1>3. CASE UNCHANGED calls
  BY <1>3 DEF UpSound
<1> QED
  BY <1>1, <1>2, <1>3, CallSteps

LEMMA AnswersSound ==
  ASSUME TypeOK, TypeOK', OrderInv, WaitingInv, [Next]_vars
  PROVE  DownSound' => DownSound
<1> SUFFICES ASSUME DownSound' PROVE DownSound
  OBVIOUS
<1>1. \A i \in 1..Len(answers) : answers[i].whole
  BY AnswersKept DEF DownSound
<1>2. ASSUME NEW k \in 1..Len(calls)
      PROVE  calls[k].out \notin {"read", "size", "seal"}
  <2>1. CASE \E out \in {"code", "size", "seal", "read"} : Ended(out)
    <3>1. PICK out \in {"code", "size", "seal", "read"} : Ended(out)
      BY <2>1
    <3>2. /\ Len(calls) \in Nat \ {0} /\ Len(calls') = Len(calls)
          /\ \A j \in 1..Len(calls) : j # Len(calls) => calls'[j] = calls[j]
          /\ calls[Len(calls)].out = "pending"
      BY <3>1, EndedCall DEF Outcomes
    <3>3. k \in 1..Len(calls')
      BY <3>2
    <3> QED
      BY <3>2, <3>3 DEF DownSound
  <2>2. CASE StartsCall
    <3>1. Len(calls) \in Nat /\ Len(calls') = Len(calls) + 1
          /\ \A j \in 1..Len(calls) : calls'[j] = calls[j]
      BY <2>2, StartsHow, StartedCall
    <3> QED
      BY <3>1 DEF DownSound
  <2>3. CASE UNCHANGED calls
    BY <2>3 DEF DownSound
  <2> QED
    BY <2>1, <2>2, <2>3, CallSteps
<1> QED
  BY <1>1, <1>2 DEF DownSound

-----------------------------------------------------------------------------
(* The server stays in step.                                               *)

\* A call that was sent has the key of the session.
LEMMA SessionKey ==
  ASSUME SessionInv, StreamInv, OrderInv, HelloInv, ClientSecret = ServerSecret
  PROVE  /\ \A i \in 1..Len(up) : up[i].part = "body" => up[i].key = sKey
         /\ cpc \in {"idle", "len", "body"} =>
              \A i \in 1..Len(down) : down[i].part = "body" => down[i].key = cKey
<1>1. Len(calls) # 0 => calls # <<>>
  BY EmptySeq DEF SessionInv, TypeOK
<1>2. \A i \in 1..Len(up) : up[i].part = "body" => calls # <<>> /\ up[i].key = cKey
  BY <1>1, NumbersGiven
<1>3. \A i \in 1..Len(down) : down[i].part = "body" => down[i].key = sKey
  BY NumbersGiven
<1> QED
  BY <1>2, <1>3 DEF HelloInv

LEMMA HeadIndex ==
  ASSUME NEW s \in Seq(Units), s # <<>>
  PROVE  1 \in 1..Len(s) /\ Head(s) = s[1]
BY TailUnits

\* A server in step misreads nothing.
LEMMA ServerReadsWell ==
  ASSUME SessionInv, StreamInv, OrderInv, HelloInv, UpSound,
         spc # "closed" => InStep(up, spc = "body", sWant, ServerCap)
  PROVE  /\ ~ServerReadAstray
         /\ ServerReadPrefix => FitsReader(Head(up).n, ServerCap)
         /\ ServerDropsFrame => Opens(Head(up), sWant, sKey)
<1>1. up \in Seq(Units)
  BY DEF SessionInv, TypeOK
<1>2. CASE spc = "len" /\ up # <<>>
  <2>1. InStep(up, FALSE, sWant, ServerCap)
    BY <1>2
  <2>2. Head(up).part = "len" /\ FitsReader(Head(up).n, ServerCap)
    BY <1>1, <1>2, <2>1, InStepPrefix
  <2> QED
    BY <1>2, <2>2 DEF ServerReadAstray, ServerDropsFrame
<1>3. CASE spc = "body"
  <2>1. InStep(up, TRUE, sWant, ServerCap)
    BY <1>3
  <2>2. up # <<>> /\ Head(up).part = "body" /\ Head(up).n = sWant
    BY <1>1, <2>1, InStepBody
  <2>3. Head(up).key = sKey
    BY <1>1, <2>2, HeadIndex, SessionKey DEF UpSound
  <2> QED
    BY <1>3, <2>2, <2>3 DEF ServerReadAstray, ServerReadPrefix, Opens
<1> QED
  BY <1>2, <1>3 DEF ServerReadAstray, ServerReadPrefix, ServerDropsFrame

LEMMA StepServerAlarm ==
  ASSUME SessionInv, StreamInv, OrderInv, ServerStepInv, [Next]_vars
  PROVE  ServerAlarm'
<1> USE DEF SessionInv, ServerStepInv
<1> SUFFICES ASSUME exit' \in {"size", "seal"}, UpSound' PROVE FALSE
  BY DEF ServerAlarm
<1>1. UpSound /\ exit \notin {"size", "seal"}
  BY CallsSound DEF ServerAlarm
<1>2. spc # "closed" => InStep(up, spc = "body", sWant, ServerCap)
  BY <1>1 DEF UpInStep
<1>3. /\ ~ServerReadAstray
      /\ ServerReadPrefix => FitsReader(Head(up).n, ServerCap)
      /\ ServerDropsFrame => Opens(Head(up), sWant, sKey)
  BY <1>1, <1>2, ServerReadsWell
<1>4. ServerReadPrefix => exit' = exit
  BY <1>3 DEF ServerReadPrefix
<1> QED
  BY <1>1, <1>3, <1>4, ExitSteps, NothingRefused

\* A server in step stays so, if lengths fit the prefix.
LEMMA StepUpInStep ==
  ASSUME SessionInv, StreamInv, OrderInv, ServerStepInv, [Next]_vars,
         ServerCap < LenModulus
  PROVE  UpInStep'
<1> USE DEF SessionInv, ServerStepInv
<1> SUFFICES ASSUME UpSound', spc' # "closed"
             PROVE  InStep(up', spc' = "body", sWant', ServerCap)
  BY DEF UpInStep
<1>1. UpSound /\ up \in Seq(Units)
  BY CallsSound DEF TypeOK
<1>2. spc # "closed"
  BY SortedSteps DEF GetsCode, EndsOtherwise, Starts, Takes, AcceptMessage, Replies,
     Responds, RejectReplayed, Deny, RouteMissing, HandlerReturns, Quiet
<1>3. InStep(up, spc = "body", sWant, ServerCap)
  BY <1>1, <1>2 DEF UpInStep
<1>4. CASE UNCHANGED <<up, spc, sWant>>
  BY <1>3, <1>4
<1>5. CASE up' = up /\ spc # "body" /\ spc' # "body"
  <2>1. InStep(up, FALSE, sWant, ServerCap)
    BY <1>3, <1>5
  <2>2. InStep(up, FALSE, sWant', ServerCap)
    BY <2>1, InStepIdle
  <2> QED
    BY <1>5, <2>2
<1>6. CASE ServerReadPrefix
  <2>1. up # <<>> /\ InStep(up, FALSE, sWant, ServerCap) /\ up' = Tail(up)
    BY <1>3, <1>6 DEF ServerReadPrefix
  <2>2. FitsReader(Head(up).n, ServerCap) /\ InStep(Tail(up), TRUE, Head(up).n, ServerCap)
    BY <1>1, <2>1, InStepPrefix
  <2>3. spc' = "body" /\ sWant' = Head(up).n
    BY <1>6, <2>2 DEF ServerReadPrefix
  <2> QED
    BY <2>1, <2>2, <2>3
<1>7. CASE AcceptMessage
  <2>1. InStep(up, TRUE, sWant, ServerCap) /\ up' = Tail(up) /\ spc' # "body"
    BY <1>3, <1>7 DEF AcceptMessage
  <2>2. InStep(Tail(up), FALSE, sWant', ServerCap)
    BY <1>1, <2>1, InStepBody
  <2> QED
    BY <2>1, <2>2
<1>8. CASE ServerReadAstray \/ ServerDropsFrame \/ ServerReadFails
  <2>1. ~ServerReadAstray
    BY <1>1, <1>3, ServerReadsWell
  <2> QED
    BY <1>8, <2>1 DEF ServerDropsFrame, ServerReadFails, Return
<1>9. ASSUME NEW type \in Types, NEW v \in VarSizes, SendWritten(type, v)
      PROVE  InStep(up', spc' = "body", sWant', ServerCap)
  <2> DEFINE n == SealedMessage(v)
             env == Message(cSendSeq', type)
  <2>1. cSendSeq' \in Nat
    BY <1>9, WrittenCall
  <2>2. env \in Envelopes
    BY <2>1 DEF Message, Envelopes
  <2>3. n \in Nat /\ cKey \in Keys /\ n >= MinFrameSizeV2
    BY SizeAssumption DEF SealedMessage, MinFrameSizeV2, NonceSize, GCMTagSize, TypeOK
  <2>4. n <= ServerCap
    <3>1. StartCall(type, v, "pending") /\ "pending" \in Outcomes
      BY <1>9 DEF SendWritten, Outcomes
    <3>2. Len(calls) + 1 \in 1..Len(calls') /\ calls'[Len(calls) + 1].size = n
      BY <3>1, StartedCall
    <3> QED
      BY <3>2 DEF UpSound
  <2>5. up' = up \o Frame(n, cKey, env) /\ UNCHANGED <<spc, sWant>>
    BY <1>9 DEF SendWritten, serverVars
  <2> HIDE DEF n, env
  <2>6. n % LenModulus = n /\ ServerCap % LenModulus = ServerCap
    BY <2>3, <2>4, SizeAssumption, CapAssumption
  <2>7. FitsReader(n, ServerCap)
    BY <2>3, <2>4, <2>6 DEF FitsReader
  <2>8. InStep(up \o Frame(n, cKey, env), spc = "body", sWant, ServerCap)
    BY <1>1, <1>3, <2>2, <2>3, <2>6, <2>7, InStepFrame
  <2> QED
    BY <2>5, <2>8
<1>10. ASSUME NEW type \in Types, NEW v \in VarSizes, SendBroken(type, v)
       PROVE  FALSE
  <2>1. StartCall(type, v, "write") /\ "write" \in Outcomes
    BY <1>10 DEF SendBroken, Outcomes
  <2>2. Len(calls) + 1 \in 1..Len(calls') /\ calls'[Len(calls) + 1].out = "write"
    BY <2>1, StartedCall
  <2> QED
    BY <2>2 DEF UpSound
<1>11. CASE \/ ClientHandshake \/ ClientHandshakeFails \/ ClientReads \/ Close
            \/ UNCHANGED vars \/ \E type \in Types : RegisterHandler(type)
            \/ \E type \in Types, v \in VarSizes : SendRefused(type, v)
  BY <1>4, <1>11 DEF ClientHandshake, ClientHandshakeFails, ClientReads,
     ClientReadPrefix, ClientReadAstray, ClientAnswered, ClientErrSeal,
     ClientReadFails, Close, SendRefused, RegisterHandler, vars, serverVars
<1>12. CASE ServerHandshake \/ ServerHandshakeFails \/ ServerServes
  BY <1>5, <1>12 DEF ServerHandshake, ServerHandshakeFails, ServerServes, Authorize,
     Deny, AfterDenial, Route, RouteMissing, HandlerReturns, Return
<1> QED
  BY <1>6, <1>7, <1>8, <1>9, <1>10, <1>11, <1>12, NothingRefused DEF Next, ClientNext,
     ClientSends, ServerNext, ServerReads, ReceiveMessage

-----------------------------------------------------------------------------
(* The handshake.                                                          *)

LEMMA StepSettled ==
  ASSUME SessionInv, HelloInv, [Next]_vars
  PROVE  down' \in Seq(SettledUnits')
<1> USE DEF SessionInv
<1>1. CASE ServerHandshake
  <2>1. PICK salt \in Salts : /\ down' = down \o <<Hello(salt)>>
                              /\ sKey' = Key(ServerSecret, salt)
    BY <1>1 DEF ServerHandshake
  <2>2. Hello(salt) \in SettledUnits'
    BY <2>1 DEF Hello, SettledUnits, Settled, Units
  <2>3. down = <<>>
    BY <1>1 DEF ServerHandshake, HelloInv
  <2>4. down' = <<Hello(salt)>>
    BY <2>1, <2>3
  <2> QED
    BY <2>2, <2>4
<1>2. ASSUME sKey' = sKey PROVE down \in Seq(SettledUnits')
  <2>1. SettledUnits \subseteq SettledUnits'
    BY <1>2 DEF SettledUnits, Settled
  <2> QED
    BY <2>1, SeqMonotonic DEF HelloInv
<1>3. CASE ClientHandshake \/ ClientReadPrefix \/ ClientAnswered \/ ClientErrSeal
  <2>1. /\ sKey' = sKey
        /\ down # <<>> /\ (down' = Tail(down) \/ down' \in AfterBadBody(down, cWant))
    BY <1>3 DEF ClientHandshake, ClientReadPrefix, ClientAnswered, ClientErrSeal,
       serverVars
  <2> QED
    BY <1>2, <2>1, StreamHead, AfterBadBodyType
<1>4. CASE Responds
  <2>1. PICK code \in Codes, why \in Reasons : Respond(code, why)
    BY <1>4, RespondsHow
  <2> DEFINE env == Response(Len(answers) + 1, code)
             frame == Frame(SealedResponse, sKey, env)
  <2>2. /\ env \in Envelopes /\ SealedResponse \in Nat /\ sKey \in Keys
        /\ \E w \in ResponseWrites(frame) : down' = down \o w
    BY <2>1, WrittenResponse
  <2>3. sKey' = sKey
    BY <1>4 DEF Responds, RejectReplayed, Deny, RouteMissing, HandlerReturns
  <2> HIDE DEF env
  <2>4. /\ Prefix(SealedResponse % LenModulus) \in SettledUnits'
        /\ Sealed(SealedResponse, sKey, env) \in SettledUnits'
        /\ Scrap \in SettledUnits'
    <3>1. /\ Prefix(SealedResponse % LenModulus) \in Units
          /\ Sealed(SealedResponse, sKey, env) \in Units
          /\ Scrap \in Units
      BY <2>2, FrameUnits
    <3> QED
      BY <3>1 DEF SettledUnits, Settled, Prefix, Sealed, Scrap
  <2>5. frame \in Seq(SettledUnits') /\ Torn(frame) \subseteq Seq(SettledUnits')
    BY <2>4, FrameIn
  <2> HIDE DEF frame
  <2>6. ResponseWrites(frame) \subseteq Seq(SettledUnits')
    BY <2>5, EmptySeq DEF ResponseWrites
  <2> QED
    BY <1>2, <2>2, <2>3, <2>6, ConcatProperties
<1>5. CASE ClientHandshakeFails \/ ClientSends \/ ClientReadAstray
           \/ ClientReadFails \/ Close
  <2>1. UNCHANGED <<down, sKey>>
    BY <1>5 DEF ClientHandshakeFails, ClientSends, SendRefused, SendWritten,
       SendBroken, ClientReadAstray, ClientReadFails, Close, serverVars
  <2> QED
    BY <1>2, <2>1
<1>6. CASE \/ ServerHandshakeFails \/ ServerReadPrefix \/ ServerReadAstray
           \/ AcceptMessage \/ ServerDropsFrame \/ ServerReadFails
           \/ Authorize \/ Route \/ UNCHANGED vars
           \/ \E type \in Types : RegisterHandler(type)
  <2>1. UNCHANGED <<down, sKey>>
    BY <1>6 DEF ServerHandshakeFails, ServerReadPrefix, ServerReadAstray,
       AcceptMessage, ServerDropsFrame, ServerReadFails, Authorize, Route,
       RegisterHandler, vars, serverVars
  <2> QED
    BY <1>2, <2>1
<1> QED
  BY <1>1, <1>3, <1>4, <1>5, <1>6 DEF Responds, Next, ClientNext,
     ClientReads, ServerNext, ServerReads, ReceiveMessage, ServerServes

\* Before a side is through with its handshake little else can happen.
LEMMA EarlySteps ==
  ASSUME HelloInv, [Next]_vars
  PROVE  /\ spc' = "start" =>
              /\ spc = "start" /\ UNCHANGED <<up, down, calls>>
              /\ cpc' \in {cpc, "closed"}
         /\ cpc' = "hello" =>
              /\ cpc = "hello" /\ UNCHANGED <<up, calls>>
              /\ \/ ServerHandshake
                 \/ UNCHANGED down /\ (spc' = spc \/ spc' = "closed")
<1>1. ASSUME spc' = "start"
      PROVE  /\ spc = "start" /\ UNCHANGED <<up, down, calls>>
             /\ cpc' \in {cpc, "closed"}
  <2>1. /\ spc = "start" /\ up = <<>> /\ down = <<>> /\ calls = <<>>
        /\ cpc \in {"hello", "closed"}
    BY <1>1, StepKeys DEF HelloInv
  <2> QED
    BY <1>1, <2>1 DEF Next, vars, clientVars, serverVars, RegisterHandler, ClientNext,
       ClientHandshake, ClientHandshakeFails, ClientSends, SendRefused, SendWritten,
       SendBroken, StartCall, ClientReads, ClientReadPrefix, ClientReadAstray,
       ClientAnswered, ClientErrSeal, ClientReadFails, Close, Return, ServerNext,
       ServerHandshake, ServerHandshakeFails, ServerReads, ReceiveMessage,
       ServerReadPrefix, ServerReadAstray, AcceptMessage, RejectReplayed,
       ServerDropsFrame, ServerReadFails, ServerServes, Authorize, Deny, Route,
       RouteMissing, HandlerReturns
<1>2. ASSUME cpc' = "hello"
      PROVE  /\ cpc = "hello" /\ UNCHANGED <<up, calls>>
             /\ \/ ServerHandshake
                \/ UNCHANGED down /\ (spc' = spc \/ spc' = "closed")
  <2>1. cpc = "hello" /\ up = <<>> /\ spc \in {"start", "len", "closed"}
    BY <1>2, StepKeys DEF HelloInv
  <2> QED
    BY <1>2, <2>1 DEF Next, vars, clientVars, serverVars, RegisterHandler, ClientNext,
       ClientHandshake, ClientHandshakeFails, ClientSends, SendRefused, SendWritten,
       SendBroken, StartCall, ClientReads, ClientReadPrefix, ClientReadAstray,
       ClientAnswered, ClientErrSeal, ClientReadFails, Close, Return, ServerNext,
       ServerHandshake, ServerHandshakeFails, ServerReads, ReceiveMessage,
       ServerReadPrefix, ServerReadAstray, AcceptMessage, RejectReplayed,
       ServerDropsFrame, ServerReadFails, ServerServes, Authorize, Deny, Route,
       RouteMissing, HandlerReturns
<1> QED
  BY <1>1, <1>2

LEMMA StepClientKey ==
  ASSUME SessionInv, HelloInv, [Next]_vars, ClientSecret = ServerSecret,
         cpc' \notin {"hello", "closed"} \/ calls' # <<>>
  PROVE  cKey' = sKey'
<1> USE DEF SessionInv
<1>1. CASE ClientHandshake
  <2>1. Head(down) \in SettledUnits /\ Head(down).part = "hello"
    BY <1>1, StreamHead DEF ClientHandshake, HelloInv
  <2>2. sKey = Key(ServerSecret, Head(down).salt)
    BY <2>1 DEF SettledUnits, Settled
  <2> QED
    BY <1>1, <2>2 DEF ClientHandshake, serverVars
<1>2. CASE ~ClientHandshake
  <2>1. cpc' = "hello" \/ cpc # "hello" \/ (cpc' = "closed" /\ calls' = calls)
    BY <1>2 DEF Next, vars, clientVars, RegisterHandler, ClientNext,
       ClientHandshakeFails, ClientSends, SendRefused, SendWritten,
       SendBroken, StartCall, ClientReads, ClientReadPrefix, ClientReadAstray,
       ClientAnswered, ClientErrSeal, ClientReadFails, Close, ServerNext,
       ServerHandshake, ServerHandshakeFails, ServerReads, ReceiveMessage,
       ServerReadPrefix, ServerReadAstray, AcceptMessage, RejectReplayed,
       ServerDropsFrame, ServerReadFails, ServerServes, Authorize, Deny, Route,
       RouteMissing, HandlerReturns
  <2>2. cpc # "hello"
    <3>1. cpc = "hello" => calls = <<>>
      BY DEF HelloInv
    <3>2. cpc' = "hello" => calls' = calls /\ cpc = "hello"
      BY StepKeys
    <3> QED
      BY <2>1, <3>1, <3>2
  <2>3. cpc # "closed" \/ calls # <<>>
    <3>1. cpc = "closed" => cpc' = "closed" /\ calls' = calls
      BY DEF Next, vars, clientVars, RegisterHandler, ClientNext, ClientHandshake,
       ClientHandshakeFails, ClientSends, SendRefused, SendWritten,
       SendBroken, StartCall, ClientReads, ClientReadPrefix, ClientReadAstray,
       ClientAnswered, ClientErrSeal, ClientReadFails, Close, ServerNext,
       ServerHandshake, ServerHandshakeFails, ServerReads, ReceiveMessage,
       ServerReadPrefix, ServerReadAstray, AcceptMessage, RejectReplayed,
       ServerDropsFrame, ServerReadFails, ServerServes, Authorize, Deny, Route,
       RouteMissing, HandlerReturns
    <3> QED
      BY <3>1
  <2>4. spc # "start" /\ cKey = sKey
    BY <2>2, <2>3 DEF HelloInv
  <2> QED
    BY <2>2, <2>4, StepKeys
<1> QED
  BY <1>1, <1>2

LEMMA StepHello ==
  ASSUME SessionInv, HelloInv, [Next]_vars
  PROVE  HelloInv'
<1> USE DEF SessionInv
<1>1. spc' = "start" => /\ up' = <<>> /\ down' = <<>> /\ calls' = <<>>
                        /\ cpc' \in {"hello", "closed"}
  BY EarlySteps DEF HelloInv
<1>2. ASSUME cpc' = "hello"
      PROVE  /\ up' = <<>> /\ calls' = <<>> /\ spc' \in {"start", "len", "closed"}
             /\ down' # <<>> => Len(down') = 1 /\ down'[1].part = "hello"
  <2>1. /\ cpc = "hello" /\ UNCHANGED <<up, calls>>
        /\ \/ ServerHandshake
           \/ UNCHANGED down /\ (spc' = spc \/ spc' = "closed")
    BY <1>2, EarlySteps
  <2>2. /\ up = <<>> /\ calls = <<>> /\ spc \in {"start", "len", "closed"}
        /\ down # <<>> => Len(down) = 1 /\ down[1].part = "hello"
    BY <2>1 DEF HelloInv
  <2>3. CASE ServerHandshake
    <3>1. down = <<>> /\ spc' = "len"
      BY <2>3 DEF ServerHandshake, HelloInv
    <3>2. PICK salt \in Salts : down' = down \o <<Hello(salt)>>
      BY <2>3 DEF ServerHandshake
    <3>3. Hello(salt).part = "hello"
      BY DEF Hello
    <3>4. Len(down') = 1 /\ down'[1] = Hello(salt)
      BY <3>1, <3>2
    <3> QED
      BY <2>1, <2>2, <3>1, <3>3, <3>4
  <2> QED
    BY <2>1, <2>2, <2>3
<1>3. down' \in Seq(SettledUnits')
  BY StepSettled
<1>4. ClientSecret = ServerSecret /\ (cpc' \notin {"hello", "closed"} \/ calls' # <<>>)
        => cKey' = sKey'
  BY StepClientKey
<1> QED
  BY <1>1, <1>2, <1>3, <1>4 DEF HelloInv

LEMMA StepWaiting ==
  ASSUME TypeOK, WaitingInv, [Next]_vars
  PROVE  WaitingInv'
<1>1. ASSUME NEW type \in Types, NEW v \in VarSizes, SendWritten(type, v)
      PROVE  WaitingInv'
  <2>1. /\ Len(calls) \in Nat /\ Len(calls') = Len(calls) + 1
        /\ calls'[Len(calls) + 1].out = "pending"
    BY <1>1, StartedCall DEF SendWritten
  <2>2. calls' # <<>>
    BY <2>1
  <2> QED
    BY <2>1, <2>2 DEF WaitingInv
<1>2. CASE UNCHANGED calls /\ (cpc' \in {"len", "body"} => cpc \in {"len", "body"})
  BY <1>2 DEF WaitingInv
<1>3. CASE cpc' \notin {"len", "body"}
  BY <1>3 DEF WaitingInv
<1>4. CASE ClientReads
  BY <1>2, <1>3, <1>4 DEF ClientReads, ClientReadPrefix, ClientReadAstray,
     ClientAnswered, ClientErrSeal, ClientReadFails, EndCall
<1>5. CASE \/ ClientHandshake \/ ClientHandshakeFails \/ Close
           \/ \E type \in Types, v \in VarSizes : SendRefused(type, v) \/ SendBroken(type, v)
  BY <1>3, <1>5 DEF ClientHandshake, ClientHandshakeFails, Close, SendRefused,
     SendBroken, StartCall
<1>6. CASE \/ ServerNext \/ UNCHANGED vars \/ \E type \in Types : RegisterHandler(type)
  <2>1. UNCHANGED <<cpc, calls>>
    BY <1>6 DEF ServerNext, ServerHandshake, ServerHandshakeFails, ServerReads,
     ReceiveMessage, ServerReadPrefix, ServerReadAstray, AcceptMessage,
     RejectReplayed, ServerDropsFrame, ServerReadFails, ServerServes, Authorize,
     Deny, Route, RouteMissing, HandlerReturns, vars, clientVars, RegisterHandler
  <2> QED
    BY <1>2, <2>1
<1> QED
  BY <1>1, <1>4, <1>5, <1>6 DEF Next, ClientNext, ClientSends

-----------------------------------------------------------------------------
(* The client stays in step.                                               *)

\* A client in step misreads nothing.
LEMMA ClientReadsWell ==
  ASSUME SessionInv, StreamInv, OrderInv, HelloInv, DownSound,
         InStep(down, cpc = "body", cWant, ClientCap)
  PROVE  /\ ~ClientReadAstray /\ ~ClientErrSeal
         /\ ClientReadPrefix => FitsReader(Head(down).n, ClientCap)
<1>1. down \in Seq(Units)
  BY DEF SessionInv, TypeOK
<1>2. CASE cpc = "len" /\ down # <<>>
  <2>1. InStep(down, FALSE, cWant, ClientCap)
    BY <1>2
  <2>2. Head(down).part = "len" /\ FitsReader(Head(down).n, ClientCap)
    BY <1>1, <1>2, <2>1, InStepPrefix
  <2> QED
    BY <1>2, <2>2 DEF ClientReadAstray, ClientErrSeal
<1>3. CASE cpc = "body"
  <2>1. InStep(down, TRUE, cWant, ClientCap)
    BY <1>3
  <2>2. down # <<>> /\ Head(down).part = "body" /\ Head(down).n = cWant
    BY <1>1, <2>1, InStepBody
  <2>3. Head(down).key = cKey
    BY <1>1, <1>3, <2>2, HeadIndex, SessionKey DEF DownSound
  <2> QED
    BY <1>3, <2>2, <2>3 DEF ClientReadAstray, ClientReadPrefix, ClientErrSeal, Opens
<1> QED
  BY <1>2, <1>3 DEF ClientReadAstray, ClientReadPrefix, ClientErrSeal

\* While a call waits and nothing went wrong before it, the client is in step.
LEMMA WaitingInStep ==
  ASSUME ClientStepInv, TypeOK, cpc \in {"len", "body"}, ClientSecret = ServerSecret,
         \A j \in 1..(Len(calls) - 1) : calls[j].out # "read",
         \A i \in 1..Len(answers) : answers[i].whole
  PROVE  DownSound /\ InStep(down, cpc = "body", cWant, ClientCap)
<1>1. Len(calls) \in Nat /\ calls[Len(calls)].out = "pending"
  BY AnswerLens DEF ClientStepInv, WaitingInv
<1>2. ASSUME NEW k \in 1..Len(calls)
      PROVE  calls[k].out \notin {"read", "size", "seal"}
  <2>1. CASE k = Len(calls)
    BY <1>1, <2>1
  <2>2. CASE k # Len(calls)
    <3>1. k \in 1..(Len(calls) - 1) /\ 1..(k - 1) \subseteq 1..(Len(calls) - 1)
      BY <1>1, <2>2
    <3> QED
      BY <3>1 DEF ClientStepInv, ClientAlarm
  <2> QED
    BY <2>1, <2>2
<1>3. DownSound
  BY <1>2 DEF DownSound
<1> QED
  BY <1>3 DEF ClientStepInv, DownInStep

LEMMA StepClientAlarm ==
  ASSUME SessionInv, StreamInv, OrderInv, ClientStepInv, [Next]_vars
  PROVE  ClientAlarm'
<1> USE DEF SessionInv, ClientStepInv
<1>0. TypeOK' /\ Len(calls) \in Nat
  BY StepTypeOK, AnswerLens
<1>1. /\ Len(answers) \in Nat /\ Len(answers') \in Nat /\ Len(answers) <= Len(answers')
      /\ \A i \in 1..Len(answers) : answers'[i] = answers[i]
  BY <1>0, AnswersKept
<1>2. ASSUME NEW k \in 1..Len(calls), calls'[k] = calls[k],
             calls'[k].out \in {"size", "seal"},
             \A j \in 1..(k - 1) : calls'[j] = calls[j]
      PROVE  \/ ClientSecret # ServerSecret
             \/ \E j \in 1..(k - 1) : calls'[j].out = "read"
             \/ \E i \in 1..Len(answers') : ~answers'[i].whole
  <2>1. CASE \E i \in 1..Len(answers) : ~answers[i].whole
    <3>1. PICK i \in 1..Len(answers) : ~answers[i].whole
      BY <2>1
    <3>2. i \in 1..Len(answers') /\ ~answers'[i].whole
      BY <1>1, <3>1
    <3> QED
      BY <3>2
  <2>2. CASE \E j \in 1..(k - 1) : calls[j].out = "read"
    BY <1>2, <2>2
  <2> QED
    BY <1>2, <2>1, <2>2 DEF ClientAlarm
<1>3. ASSUME NEW out \in {"code", "size", "seal", "read"}, Ended(out)
      PROVE  ClientAlarm'
  <2>1. /\ Len(calls) \in Nat \ {0} /\ Len(calls') = Len(calls)
        /\ \A k \in 1..Len(calls) : k # Len(calls) => calls'[k] = calls[k]
        /\ calls'[Len(calls)].out = out
    BY <1>3, EndedCall DEF Outcomes
  <2>2. ASSUME out \in {"size", "seal"}, ClientSecret = ServerSecret,
               \A j \in 1..(Len(calls) - 1) : calls[j].out # "read",
               \A i \in 1..Len(answers) : answers[i].whole
        PROVE  FALSE
    <3>1. cpc \in {"len", "body"} /\ calls' # calls
      <4>1. cpc \in {"len", "body"}
        BY <1>3 DEF Ended, ClientReads, ClientReadPrefix, ClientReadAstray,
           ClientAnswered, ClientErrSeal, ClientReadFails
      <4>2. calls[Len(calls)].out = "pending"
        BY <4>1 DEF WaitingInv
      <4> QED
        BY <2>1, <2>2, <4>1, <4>2
    <3>2. DownSound /\ InStep(down, cpc = "body", cWant, ClientCap)
      BY <2>2, <3>1, WaitingInStep
    <3>3. /\ ~ClientReadAstray /\ ~ClientErrSeal
          /\ ClientReadPrefix => FitsReader(Head(down).n, ClientCap)
      BY <3>2, ClientReadsWell
    <3>4. ~ClientReadPrefix
      BY <3>1, <3>3 DEF ClientReadPrefix
    <3>5. ClientAnswered => calls'[Len(calls)].out = "code"
      <4> SUFFICES ASSUME ClientAnswered PROVE calls'[Len(calls)].out = "code"
        OBVIOUS
      <4>1. EndCall("code")
        BY NothingRefused
      <4> QED
        BY <2>1, <4>1, EndCallOuts DEF Outcomes
    <3>6. ClientReadFails => calls'[Len(calls)].out = "read"
      <4> SUFFICES ASSUME ClientReadFails PROVE calls'[Len(calls)].out = "read"
        OBVIOUS
      <4>1. EndCall("read")
        BY DEF ClientReadFails
      <4> QED
        BY <2>1, <4>1, EndCallOuts DEF Outcomes
    <3> QED
      BY <1>3, <2>1, <2>2, <3>3, <3>4, <3>5, <3>6 DEF Ended, ClientReads
  <2>3. UNCHANGED answers
    BY <1>3 DEF Ended, ClientReads, ClientReadPrefix, ClientReadAstray,
       ClientAnswered, ClientErrSeal, ClientReadFails, serverVars
  <2> SUFFICES ASSUME NEW k \in 1..Len(calls'), calls'[k].out \in {"size", "seal"}
               PROVE  \/ ClientSecret # ServerSecret
                      \/ \E j \in 1..(k - 1) : calls'[j].out = "read"
                      \/ \E i \in 1..Len(answers') : ~answers'[i].whole
    BY DEF ClientAlarm
  <2>4. \A j \in 1..(k - 1) : calls'[j] = calls[j]
    BY <2>1
  <2>5. CASE k # Len(calls)
    BY <1>2, <2>1, <2>4, <2>5
  <2>6. CASE k = Len(calls)
    BY <2>1, <2>2, <2>3, <2>4, <2>6
  <2> QED
    BY <2>5, <2>6
<1>4. CASE StartsCall
  <2>1. PICK type \in Types, v \in VarSizes, out \in {"refused", "pending", "write"} :
          StartCall(type, v, out)
    BY <1>4 DEF StartsCall, SendRefused, SendWritten, SendBroken
  <2>2. /\ Len(calls') = Len(calls) + 1
        /\ \A k \in 1..Len(calls) : calls'[k] = calls[k]
        /\ calls'[Len(calls) + 1].out = out
    BY <2>1, StartedCall
  <2> SUFFICES ASSUME NEW k \in 1..Len(calls'), calls'[k].out \in {"size", "seal"}
               PROVE  \/ ClientSecret # ServerSecret
                      \/ \E j \in 1..(k - 1) : calls'[j].out = "read"
                      \/ \E i \in 1..Len(answers') : ~answers'[i].whole
    BY DEF ClientAlarm
  <2>3. k \in 1..Len(calls)
    BY <1>0, <2>1, <2>2
  <2> QED
    BY <1>0, <1>2, <2>2, <2>3
<1>5. CASE UNCHANGED calls
  BY <1>2, <1>5 DEF ClientAlarm
<1> QED
  BY <1>3, <1>4, <1>5, CallSteps

\* A client in step stays so, if it takes the size of a response.
LEMMA StepDownInStep ==
  ASSUME SessionInv, StreamInv, OrderInv, ClientStepInv, [Next]_vars,
         SealedResponse <= ClientCap, ClientCap < LenModulus
  PROVE  DownInStep'
<1> USE DEF SessionInv, ClientStepInv
<1> SUFFICES ASSUME DownSound', cpc' \in {"idle", "len", "body"}
             PROVE  InStep(down', cpc' = "body", cWant', ClientCap)
  BY DEF DownInStep
<1>0. TypeOK' /\ down \in Seq(Units)
  BY StepTypeOK DEF TypeOK
<1>1. DownSound
  BY <1>0, AnswersSound
<1>2. CASE ClientHandshake
  <2>1. /\ down # <<>> /\ Len(down) = 1 /\ down' = Tail(down) /\ cpc' = "idle"
    BY <1>2 DEF ClientHandshake, HelloInv
  <2>2. Len(down') = 0
    BY <1>0, <2>1, TailUnits
  <2>3. InStep(down', FALSE, cWant', ClientCap)
    BY <2>2 DEF InStep
  <2> QED
    BY <2>1, <2>3
<1>3. cpc # "hello" \/ ClientHandshake
  BY DEF Next, vars, clientVars, RegisterHandler, ClientNext, ClientHandshakeFails,
     ClientSends, SendRefused, SendWritten, SendBroken, StartCall, ClientReads,
     ClientReadPrefix, ClientReadAstray, ClientAnswered, ClientErrSeal,
     ClientReadFails, Close, ServerNext, ServerHandshake, ServerHandshakeFails,
     ServerReads, ReceiveMessage, ServerReadPrefix, ServerReadAstray, AcceptMessage,
     RejectReplayed, ServerDropsFrame, ServerReadFails, ServerServes, Authorize,
     Deny, Route, RouteMissing, HandlerReturns
<1>4. cpc # "closed"
  BY DEF Next, vars, clientVars, RegisterHandler, ClientNext, ClientHandshake,
     ClientHandshakeFails, ClientSends, SendRefused, SendWritten, SendBroken,
     StartCall, ClientReads, ClientReadPrefix, ClientReadAstray, ClientAnswered,
     ClientErrSeal, ClientReadFails, Close, ServerNext, ServerHandshake,
     ServerHandshakeFails, ServerReads, ReceiveMessage, ServerReadPrefix,
     ServerReadAstray, AcceptMessage, RejectReplayed, ServerDropsFrame,
     ServerReadFails, ServerServes, Authorize, Deny, Route, RouteMissing,
     HandlerReturns
<1>5. CASE ~ClientHandshake
  <2>1. cpc \in {"idle", "len", "body"}
    BY <1>3, <1>4, <1>5 DEF TypeOK
  <2>2. InStep(down, cpc = "body", cWant, ClientCap)
    BY <1>1, <2>1 DEF DownInStep
  <2>3. CASE ClientReads
    <3>1. ~ClientReadAstray /\ ~ClientErrSeal
          /\ (ClientReadPrefix => FitsReader(Head(down).n, ClientCap))
      BY <1>1, <2>2, ClientReadsWell
    <3>2. CASE ClientReadPrefix
      <4>1. down # <<>> /\ InStep(down, FALSE, cWant, ClientCap) /\ down' = Tail(down)
        BY <2>2, <3>2 DEF ClientReadPrefix
      <4>2. InStep(Tail(down), TRUE, Head(down).n, ClientCap)
        BY <1>0, <4>1, InStepPrefix
      <4>3. cpc' = "body" /\ cWant' = Head(down).n
        BY <3>1, <3>2 DEF ClientReadPrefix
      <4> QED
        BY <4>1, <4>2, <4>3
    <3>3. CASE ClientAnswered
      <4>1. InStep(down, TRUE, cWant, ClientCap) /\ down' = Tail(down) /\ cpc' = "idle"
        BY <2>2, <3>3 DEF ClientAnswered, EndCall
      <4>2. InStep(Tail(down), FALSE, cWant', ClientCap)
        BY <1>0, <4>1, InStepBody
      <4> QED
        BY <4>1, <4>2
    <3>4. CASE ClientReadFails
      <4>1. Ended("read")
        BY <2>3, <3>4 DEF ClientReadFails, Ended
      <4>2. Len(calls) \in 1..Len(calls') /\ calls'[Len(calls)].out = "read"
        BY <4>1, EndedCall DEF Outcomes
      <4> QED
        BY <4>2 DEF DownSound
    <3> QED
      BY <2>3, <3>1, <3>2, <3>3, <3>4 DEF ClientReads
  <2>4. CASE ClientSends
    <3>1. UNCHANGED <<down, cWant>> /\ cpc = "idle" /\ cpc' \in {"idle", "len"}
      BY <2>4 DEF ClientSends, SendRefused, SendWritten, SendBroken, StartCall
    <3> QED
      BY <2>2, <3>1
  <2>5. CASE Responds
    <3>1. PICK code \in Codes, why \in Reasons : Respond(code, why)
      BY <2>5, RespondsHow
    <3> DEFINE env == Response(Len(answers) + 1, code)
               frame == Frame(SealedResponse, sKey, env)
               new(w) == [re |-> sMsg'.seq, item |-> code, why |-> why,
                          whole |-> w = frame]
    <3>2. /\ env \in Envelopes /\ SealedResponse \in Nat /\ sKey \in Keys
          /\ \E w \in ResponseWrites(frame) :
               down' = down \o w /\ answers' = Append(answers, new(w))
      BY <3>1, WrittenResponse
    <3> HIDE DEF env
    <3>3. PICK w : down' = down \o w /\ answers' = Append(answers, new(w))
      BY <3>2
    <3>4. w = frame
      <4>1. new(w).whole <=> w = frame
        OBVIOUS
      <4> HIDE DEF new
      <4>2. Len(answers') = Len(answers) + 1 /\ Len(answers) \in Nat
            /\ answers'[Len(answers) + 1] = new(w)
        BY <3>3, AnswerLens DEF TypeOK
      <4>3. Len(answers) + 1 \in 1..Len(answers')
        BY <4>2
      <4>4. answers'[Len(answers) + 1].whole
        BY <4>3, Zenon DEF DownSound
      <4>5. new(w).whole
        BY <4>2, <4>4, Zenon
      <4> QED
        BY <4>1, <4>5, Zenon
    <3>5. /\ SealedResponse % LenModulus = SealedResponse
          /\ ClientCap % LenModulus = ClientCap
      <4>1. SealedResponse \in Nat
        BY DEF SealedResponse, MinFrameSizeV2, NonceSize, GCMTagSize
      <4> QED
        BY <4>1, SizeAssumption, CapAssumption
    <3>6. FitsReader(SealedResponse, ClientCap)
      BY <3>2, <3>5 DEF FitsReader, SealedResponse, MinFrameSizeV2, NonceSize, GCMTagSize
    <3>7. InStep(down \o frame, cpc = "body", cWant, ClientCap)
      BY <1>0, <2>2, <3>2, <3>5, <3>6, InStepFrame
    <3>8. UNCHANGED <<cpc, cWant>>
      BY <2>5 DEF Responds, RejectReplayed, Deny, RouteMissing, HandlerReturns,
         clientVars
    <3> QED
      BY <3>3, <3>4, <3>7, <3>8
  <2>6. ~ServerHandshake
    BY <2>1 DEF ServerHandshake, HelloInv
  <2>7. CASE \/ ServerHandshakeFails \/ ServerReadPrefix \/ ServerReadAstray
             \/ AcceptMessage \/ ServerDropsFrame \/ ServerReadFails
             \/ Authorize \/ Route \/ UNCHANGED vars
             \/ \E type \in Types : RegisterHandler(type)
    <3>1. UNCHANGED <<down, cpc, cWant>>
      BY <2>7 DEF ServerHandshakeFails, ServerReadPrefix, ServerReadAstray,
         AcceptMessage, ServerDropsFrame, ServerReadFails, Authorize, Route,
         RegisterHandler, vars, clientVars
    <3> QED
      BY <2>2, <3>1
  <2>8. CASE ClientHandshakeFails \/ Close
    BY <2>8 DEF ClientHandshakeFails, Close
  <2> QED
    BY <1>5, <2>3, <2>4, <2>5, <2>6, <2>7, <2>8 DEF Responds, Next, ClientNext,
       ServerNext, ServerReads, ReceiveMessage, ServerServes
<1> QED
  BY <1>2, <1>5

-----------------------------------------------------------------------------
(* The theorems.                                                           *)

LEMMA InitInStep == Init => ServerStepInv /\ ClientStepInv
<1> SUFFICES ASSUME Init PROVE ServerStepInv /\ ClientStepInv
  OBVIOUS
<1>1. Len(up) = 0 /\ Len(down) = 0 /\ Len(answers) = 0 /\ Len(calls) = 0
  BY EmptySeq DEF Init
<1>2. UpInStep /\ DownInStep
  BY <1>1 DEF Init, UpInStep, DownInStep, InStep
<1>3. HelloInv
  BY <1>1, EmptySeq DEF Init, HelloInv
<1>4. WaitingInv /\ ServerAlarm /\ ClientAlarm
  BY <1>1 DEF Init, WaitingInv, ServerAlarm, ClientAlarm
<1> QED
  BY <1>2, <1>3, <1>4 DEF ServerStepInv, ClientStepInv

LEMMA StepServerInStep ==
  ASSUME ServerCap < LenModulus, OrderedSession, ServerStepInv, [Next]_vars
  PROVE  ServerStepInv'
<1>1. SessionInv /\ TypeOK /\ StreamInv /\ OrderInv /\ HelloInv /\ WaitingInv
  BY DEF OrderedSession, SessionInv, ServerStepInv
<1> QED
  BY <1>1, StepUpInStep, StepHello, StepWaiting, StepServerAlarm DEF ServerStepInv

LEMMA StepClientInStep ==
  ASSUME SealedResponse <= ClientCap, ClientCap < LenModulus, OrderedSession,
         ClientStepInv, [Next]_vars
  PROVE  ClientStepInv'
<1>1. SessionInv /\ TypeOK /\ StreamInv /\ OrderInv /\ HelloInv /\ WaitingInv
  BY DEF OrderedSession, SessionInv, ClientStepInv
<1> QED
  BY <1>1, StepDownInStep, StepHello, StepWaiting, StepClientAlarm DEF ClientStepInv

\* HandleConnection never ends on a replayed number or a foreign envelope, and
\* on a bad size or a bad tag only after a write that stopped half way or a
\* message over the server's cap; its cap must fit the prefix of a frame.
THEOREM ServerNoFalseAlarm ==
  ASSUME ServerCap < LenModulus
  PROVE  Spec => []NoFalseAlarm
<1>1. ASSUME OrderedSession, ServerStepInv PROVE NoFalseAlarm
  <2>1. calls \in Seq(Calls) /\ DOMAIN calls = 1..Len(calls)
    BY <1>1, AnswerLens DEF OrderedSession, SessionInv, TypeOK
  <2>2. \A k \in 1..Len(calls) : calls[k].size \in Nat /\ ServerCap \in Nat
    <3>1. \A k \in 1..Len(calls) : calls[k] \in Calls
      BY <2>1, ElementOfSeq
    <3> QED
      BY <3>1, CapAssumption DEF Calls
  <2>3. ASSUME exit \in {"size", "seal"}, ClientSecret = ServerSecret
        PROVE  \E k \in DOMAIN calls : calls[k].out = "write" \/ calls[k].size > ServerCap
    <3>1. PICK k \in 1..Len(calls) :
            calls[k].out = "write" \/ ~(calls[k].size <= ServerCap)
      BY <1>1, <2>3 DEF ServerStepInv, ServerAlarm, UpSound
    <3> QED
      BY <2>1, <2>2, <3>1
  <2> QED
    BY <1>1, <2>3 DEF OrderedSession, NoReplay, NoFalseAlarm
<1>2. OrderedSession /\ ServerStepInv /\ [Next]_vars => ServerStepInv'
  BY StepServerInStep
<1>3. Init => ServerStepInv
  BY InitInStep
<1> QED
  BY <1>1, <1>2, <1>3, OrderedInvariant, PTL DEF Spec

\* A client whose cap takes a response is in step.
LEMMA LargeClientNoFalseAlarm ==
  ASSUME SealedResponse <= ClientCap, ClientCap < LenModulus
  PROVE  Spec => []NoFalseAlarmAtClient
<1>1. ASSUME OrderedSession, ClientStepInv PROVE NoFalseAlarmAtClient
  <2>1. DOMAIN calls = 1..Len(calls) /\ DOMAIN answers = 1..Len(answers)
    BY <1>1, AnswerLens DEF OrderedSession, SessionInv
  <2> QED
    BY <1>1, <2>1 DEF OrderedSession, NoReplay, ClientStepInv, ClientAlarm,
       NoFalseAlarmAtClient
<1>2. OrderedSession /\ ClientStepInv /\ [Next]_vars => ClientStepInv'
  BY StepClientInStep
<1>3. Init => ClientStepInv
  BY InitInStep
<1> QED
  BY <1>1, <1>2, <1>3, OrderedInvariant, PTL DEF Spec

\* A client whose cap takes no response takes no message either: every call is
\* refused, and it never reads.
RefusedInv == /\ TypeOK /\ cpc \notin {"len", "body"}
              /\ \A k \in 1..Len(calls) : calls[k].out = "refused"

LEMMA SmallClientNoFalseAlarm ==
  ASSUME ~(SealedResponse <= ClientCap)
  PROVE  Spec => []NoFalseAlarmAtClient
<1>1. ASSUME RefusedInv, [Next]_vars PROVE RefusedInv'
  <2> USE <1>1
  <2>1. TypeOK /\ TypeOK' /\ cpc \notin {"len", "body"}
    BY StepTypeOK DEF RefusedInv
  <2>2. ASSUME NEW type \in Types, NEW v \in VarSizes,
               SendRefused(type, v) \/ SendWritten(type, v) \/ SendBroken(type, v)
        PROVE  SendRefused(type, v)
    <3>1. v \in Nat /\ ~FitsWriter(SealedMessage(v), ClientCap)
      BY SizeAssumption, CapAssumption DEF FitsWriter, SealedMessage, SealedResponse,
         MinFrameSizeV2, NonceSize, GCMTagSize
    <3> QED
      BY <2>2, <3>1 DEF SendWritten, SendBroken
  <2>3. CASE ClientSends
    <3>1. PICK type \in Types, v \in VarSizes : SendRefused(type, v)
      BY <2>2, <2>3 DEF ClientSends
    <3>2. StartCall(type, v, "refused") /\ UNCHANGED cpc
      BY <3>1 DEF SendRefused
    <3>3. /\ Len(calls) \in Nat /\ Len(calls') = Len(calls) + 1
          /\ \A k \in 1..Len(calls) : calls'[k] = calls[k]
          /\ calls'[Len(calls) + 1].out = "refused"
      BY <2>1, <3>2, StartedCall
    <3>4. ASSUME NEW k \in 1..Len(calls') PROVE calls'[k].out = "refused"
      <4>1. k \in 1..Len(calls) \/ k = Len(calls) + 1
        BY <3>3
      <4> QED
        BY <3>3, <4>1 DEF RefusedInv
    <3> QED
      BY <2>1, <3>2, <3>4 DEF RefusedInv
  <2>4. ~ClientReads
    BY <2>1 DEF ClientReads, ClientReadPrefix, ClientReadAstray, ClientAnswered,
       ClientErrSeal, ClientReadFails
  <2>5. CASE ClientHandshake \/ ClientHandshakeFails \/ Close
    BY <2>1, <2>5 DEF ClientHandshake, ClientHandshakeFails, Close, RefusedInv
  <2>6. CASE ServerNext \/ UNCHANGED vars \/ \E type \in Types : RegisterHandler(type)
    <3>1. UNCHANGED <<cpc, calls>>
      BY <2>6 DEF ServerNext, ServerHandshake, ServerHandshakeFails, ServerReads,
         ReceiveMessage, ServerReadPrefix, ServerReadAstray, AcceptMessage,
         RejectReplayed, ServerDropsFrame, ServerReadFails, ServerServes, Authorize,
         Deny, Route, RouteMissing, HandlerReturns, RegisterHandler, vars, clientVars
    <3> QED
      BY <2>1, <3>1 DEF RefusedInv
  <2> QED
    BY <2>3, <2>4, <2>5, <2>6 DEF Next, ClientNext
<1>2. Init => RefusedInv
  BY InitTypeOK DEF Init, RefusedInv
<1>3. RefusedInv => NoFalseAlarmAtClient
  BY AnswerLens DEF RefusedInv, NoFalseAlarmAtClient
<1> QED
  BY <1>1, <1>2, <1>3, PTL DEF Spec

\* No call of a client whose cap fits the prefix ends in ErrReplay or
\* ErrInvalidEnvelope, and none in a bad size or a bad tag unless an earlier
\* read was given up or a response not written whole.
THEOREM ClientNoFalseAlarm ==
  ASSUME ClientCap < LenModulus
  PROVE  Spec => []NoFalseAlarmAtClient
BY LargeClientNoFalseAlarm, SmallClientNoFalseAlarm

=============================================================================
