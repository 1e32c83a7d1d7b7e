------------------------------ MODULE LegacyJs ------------------------------
(***************************************************************************)
(* One V1 connection of the JavaScript implementation: a Client whose      *)
(* calls may overlap, and Server.handleConnection.                         *)
(*                                                                         *)
(* receive listens on the socket itself while a text is awaited, decodes   *)
(* every chunk by itself, and takes what came so far for a text when it    *)
(* ends in a blank line.  What arrives while nobody listens is gone.  One  *)
(* callback of the event loop, with the promises it settles, is one        *)
(* action: the server's way from a text to its conn.write is one.          *)
(***************************************************************************)
EXTENDS LegacyText

CONSTANTS
  Messages,       \* what the application sends
  AuthAnswers,    \* what the AuthCallback may say ({TRUE}: there is none)
  HandlerCodes,   \* codes a handler of the application may return
  MaxBytes,       \* limit of validateDocumentHandler, in tokens
  MaxCalls,       \* bound: calls the application makes
  MaxCuts         \* bound: times a stream is cut

ASSUME CodesAssumption == HandlerCodes \subseteq Seq(Digits)
ASSUME AuthAssumption == AuthAnswers \subseteq BOOLEAN
ASSUME CallsAssumption == {MaxCalls, MaxBytes, MaxCuts} \subseteq Nat

VARIABLES
  up, down,     \* bytes in flight, client -> server and server -> client
  cuts,         \* times a stream was cut so far
  broken,       \* the connection failed under both
  calls,        \* every call: where it is, what it heard, how it ended
  flowing,      \* the client's socket hands out chunks (it was listened to)
  cOver,        \* the client's socket ended, or failed
  spc,          \* where handleConnection is
  sHeard,       \* what its receive heard
  sOver,        \* its socket ended
  sAfter,       \* what it does when its response is written
  handlers,     \* types with a registered handler
  received,     \* history: the messages deserialize returned
  answers,      \* history: the responses
  cutChar       \* history: a chunk ended inside a character

clientVars == <<calls, flowing, cOver>>
serverVars == <<spc, sHeard, sOver, sAfter, handlers, received, answers,
                cutChar>>
vars == <<up, down, cuts, broken, clientVars, serverVars>>

-----------------------------------------------------------------------------
(* Texts.  A character of two bytes is the tokens "hi" and "lo".            *)

\* chunk.toString('utf8'): a byte without the rest of its character is U+FFFD.
Decode(chunk) == [i \in DOMAIN chunk |->
  IF \/ chunk[i] = "hi" /\ (i = Len(chunk) \/ chunk[i + 1] # "lo")
     \/ chunk[i] = "lo" /\ (i = 1 \/ chunk[i - 1] # "hi")
    THEN "bad" ELSE chunk[i]]

\* What is sent are strings, in which every character is whole.
ASSUME MessagesAssumption ==
  /\ Messages \subseteq Sent
  /\ \A m \in Messages : \A field \in {m.data, m.user, m.pass, m.file} :
       Decode(field) = field

\* bufferStr.endsWith.
IsText(heard) == IsSuffix(Blank, heard)

\* String.substring takes its ends in either order.
Substring(text, from, to) ==
  IF from <= to THEN Slice(text, from, to) ELSE Slice(text, to, from)

\* (mutant: the data start one byte early)
DataFrom_Early(typePart) == typePart + 1
DataFrom(typePart) == typePart + 2

deserialize(text) ==
  LET typePart == Index(Tabs, text)
      authPart == Index(AuthMark, text)
      tail == Index(Blank, text)
      parts == CutLast(CutLast(Cut(
                 Substring(text, authPart + Len(AuthMark), tail))))
      type == StringToType(Substring(text, 0, typePart))
  IN IF None \in {typePart, authPart, tail} \/ Len(parts) < 2 THEN Invalid
     ELSE [went |-> "message",
           msg |-> [type |-> type,
                    data |-> Substring(text, DataFrom(typePart), authPart),
                    user |-> parts[1], pass |-> parts[2],
                    file |-> IF type = "Document" /\ Len(parts) > 2
                               THEN parts[3] ELSE <<>>]]

\* receiveResponse: the whole text must match; without any text it returns ERROR.
Parsed(text) ==
  LET digits == Slice(text, Len(RespMark), Len(text) - Len(Blank))
  IN IF text = <<>> THEN [out |-> "code", code |-> ERROR]
     ELSE IF digits \in Seq(Digits) \ {<<>>} /\ text = SerializeResponse(digits)
       THEN [out |-> "code", code |-> digits]
     ELSE [out |-> "ErrInvalidFormat", code |-> <<>>]

-----------------------------------------------------------------------------
(* The connection.                                                         *)

\* What one 'data' event brings: all there is, or what is in front of a cut.
\* (bound: cuts are where they matter to receive, in or behind a blank line and
\* inside a character, and there are at most MaxCuts)
Chunks(stream) == {Slice(stream, 0, n) : n \in {i \in DOMAIN stream :
  i = Len(stream) \/ (cuts < MaxCuts /\ stream[i] \in {"nl", "hi"})}}
CutOf(stream, chunk) == cuts' = cuts + (IF stream = chunk THEN 0 ELSE 1)
Rest(stream, chunk) == Slice(stream, Len(chunk), Len(stream))
Written(stream, text) == IF broken THEN stream ELSE stream \o text

\* A reset, or the process of one side ends.
Break ==
  /\ ~broken /\ broken' = TRUE
  /\ up' \in Chunks(up) \cup {<<>>} /\ down' \in Chunks(down) \cup {<<>>}
  /\ UNCHANGED <<cuts, clientVars, serverVars>>

-----------------------------------------------------------------------------
(* The client.                                                             *)

At(place) == {k \in DOMAIN calls : calls[k].at = place}
Pending == DOMAIN calls \ At("settled")
Ended(call, out, code) ==
  [call EXCEPT !.at = "settled", !.out = out, !.code = code]

\* A call writes its text; a socket that ended refuses it.  (alone: history,
\* no call overlapped another so far.)
Call(m) ==
  /\ Len(calls) < MaxCalls
  /\ \E call \in {[at |-> "sending", msg |-> m, sent |-> 0, heard |-> <<>>,
                   out |-> "pending", code |-> <<>>,
                   alone |-> Pending = {}
                             /\ \A j \in DOMAIN calls : calls[j].alone]} :
       calls' = Append(calls, IF cOver THEN Ended(call, "write", <<>>) ELSE call)
  /\ UNCHANGED <<up, down, cuts, broken, flowing, cOver, serverVars>>

\* The socket writes in the order of the calls.
Writing(k) == k \in At("sending") /\ \A j \in At("sending") : k <= j
Unsent(k) == LET text == Serialize(calls[k].msg)
             IN Slice(text, calls[k].sent, Len(text))

\* The network takes part of a long text.
WritePart(k) ==
  /\ Writing(k)
  /\ \E part \in Chunks(Unsent(k)) \ {Unsent(k)} :
       /\ up' = Written(up, part)
       /\ cuts' = cuts + 1
       /\ calls' = [calls EXCEPT ![k].sent = @ + Len(part)]
  /\ UNCHANGED <<down, broken, flowing, cOver, serverVars>>

\* The write callback: send resolves, and receiveResponse listens; also when the
\* socket is over, since what was written before is flushed, and a write under
\* way calls back without an error from a socket that was destroyed.
WriteDone(k) ==
  /\ Writing(k)
  /\ up' = Written(up, Unsent(k))
  /\ calls' = [calls EXCEPT ![k].at = "waiting"]
  /\ flowing' = TRUE
  /\ UNCHANGED <<down, cuts, broken, cOver, serverVars>>

\* The other side is gone, and with it what would take the rest.
WriteFails(k) ==
  /\ Writing(k) /\ (broken \/ cOver)
  /\ calls' = [calls EXCEPT ![k] = Ended(@, "write", <<>>)]
  /\ UNCHANGED <<up, down, cuts, broken, flowing, cOver, serverVars>>

\* receive resolves with this text.
Answered(call, text) ==
  Ended([call EXCEPT !.heard = text], Parsed(text).out, Parsed(text).code)

\* onData of every call that listens; there may be none.
Hears(call, chunk) ==
  LET heard == call.heard \o Decode(chunk)
  IN IF IsText(heard) THEN Answered(call, heard) ELSE [call EXCEPT !.heard = heard]
ClientData ==
  /\ flowing /\ ~cOver
  /\ \E chunk \in Chunks(down) :
       /\ down' = Rest(down, chunk) /\ CutOf(down, chunk)
       /\ calls' = [k \in DOMAIN calls |->
            IF calls[k].at = "waiting" THEN Hears(calls[k], chunk) ELSE calls[k]]
  /\ UNCHANGED <<up, broken, flowing, cOver, serverVars>>

\* onEnd of every call that listens: what came so far is parsed.
ClientEnd ==
  /\ flowing /\ ~cOver /\ down = <<>>
  /\ spc \in {"closed", "crashed"} \/ broken
  /\ cOver' = TRUE
  /\ calls' = [k \in DOMAIN calls |->
       IF calls[k].at = "waiting" THEN Answered(calls[k], calls[k].heard)
                                  ELSE calls[k]]
  /\ UNCHANGED <<up, down, cuts, broken, flowing, serverVars>>

\* onError of every call that listens.  After 'end' an error may still come, of
\* a write that was pending, and need not.
ClientError ==
  /\ broken \/ cOver
  /\ cOver' = TRUE /\ down' = <<>>
  /\ calls' = [k \in DOMAIN calls |->
       IF calls[k].at = "waiting" THEN Ended(calls[k], "error", <<>>)
                                  ELSE calls[k]]
  /\ UNCHANGED <<up, cuts, broken, flowing, serverVars>>

-----------------------------------------------------------------------------
(* The server.                                                             *)

RegisterHandler(type) ==
  /\ type \notin handlers
  /\ handlers' = handlers \cup {type}
  /\ UNCHANGED <<up, down, cuts, broken, clientVars, spc, sHeard, sOver, sAfter,
                 received, answers, cutChar>>

\* await sendResponse, and what follows it.
Respond(code, why, after) ==
  /\ spc' = "respond" /\ sAfter' = after
  /\ answers' = Append(answers, [code |-> code, why |-> why,
                                 to |-> Len(received')])

Verdicts(m) ==
  IF m.type = "URL" THEN {ValidateURLHandler(m.data)}
  ELSE IF m.type = "Document" THEN {ValidateDocumentHandler(m.data, MaxBytes)}
  ELSE HandlerCodes

\* ERROR and continue, when there is no handler.  (mutant: continue alone)
NoHandler_Silent == spc' = "receive" /\ UNCHANGED <<sAfter, answers>>
NoHandler == Respond(ERROR, "no_handler", "receive")

Serve(m) ==
  /\ received' = Append(received, m)
  /\ \/ FALSE \in AuthAnswers /\ Respond(UNAUTHORIZED, "unauthorized", "closed")
     \/ TRUE \in AuthAnswers /\ m.type \notin handlers /\ NoHandler
     \/ /\ TRUE \in AuthAnswers /\ m.type \in handlers
        /\ \E code \in Verdicts(m) : Respond(code, "handler", "receive")

\* Every receive starts with nothing heard.  (mutant: with what the last heard)
HeardAtStart_Kept == sHeard
HeardAtStart == <<>>

\* receive resolves with this text.
Received(text) ==
  /\ sHeard' = HeardAtStart
  /\ \E parsed \in {deserialize(text)} :
       \/ /\ text = <<>>
          /\ spc' = "closed"
          /\ UNCHANGED <<sAfter, received, answers>>
       \/ /\ text # <<>> /\ parsed = Invalid
          /\ UNCHANGED received
          /\ Respond(ERROR, "malformed", "closed")
       \/ parsed.went = "message" /\ Serve(parsed.msg)
Missed == UNCHANGED <<spc, sHeard, sAfter, received, answers>>

\* onData; while a response is being written nobody listens.
ServerData ==
  /\ spc \in {"receive", "respond"} /\ ~sOver
  /\ \E chunk \in Chunks(up) :
       /\ up' = Rest(up, chunk) /\ CutOf(up, chunk)
       /\ cutChar' = (cutChar \/ Last(chunk) = "hi")
       /\ \E heard \in {sHeard \o Decode(chunk)} :
            \/ spc = "receive" /\ IsText(heard) /\ Received(heard)
            \/ /\ spc = "receive" /\ ~IsText(heard)
               /\ sHeard' = heard
               /\ UNCHANGED <<spc, sAfter, received, answers>>
            \/ spc = "respond" /\ Missed
  /\ UNCHANGED <<down, broken, clientVars, sOver, handlers>>

\* onEnd: receive resolves with what it heard.
ServerEnd ==
  /\ spc \in {"receive", "respond"} /\ ~sOver
  /\ broken /\ up = <<>>
  /\ sOver' = TRUE
  /\ IF spc = "receive" THEN Received(sHeard) ELSE Missed
  /\ UNCHANGED <<up, down, cuts, broken, clientVars, handlers, cutChar>>

\* onError, and the break in the catch around receive; an 'error' for which
\* nobody listens ends the process.
ServerError ==
  /\ spc \in {"receive", "respond"} /\ ~sOver
  /\ broken
  /\ spc' = IF spc = "receive" THEN "closed" ELSE "crashed"
  /\ UNCHANGED <<up, down, cuts, broken, clientVars, sHeard, sOver, sAfter, handlers,
                 received, answers, cutChar>>

ServerWriteDone ==
  /\ spc = "respond"
  /\ down' = Written(down, SerializeResponse(answers[Len(answers)].code))
  /\ spc' = sAfter
  /\ UNCHANGED <<up, cuts, broken, clientVars, sHeard, sOver, sAfter, handlers,
                 received, answers, cutChar>>

\* sendResponse rejects, which nothing catches: the process ends.
ServerWriteFails ==
  /\ spc = "respond" /\ broken
  /\ spc' = "crashed"
  /\ UNCHANGED <<up, down, cuts, broken, clientVars, sHeard, sOver, sAfter, handlers,
                 received, answers, cutChar>>

-----------------------------------------------------------------------------
Init ==
  /\ up = <<>> /\ down = <<>> /\ cuts = 0 /\ broken = FALSE
  /\ calls = <<>> /\ flowing = FALSE /\ cOver = FALSE
  /\ spc = "receive" /\ sHeard = <<>> /\ sOver = FALSE
  /\ sAfter = "receive" /\ handlers = {}
  /\ received = <<>> /\ answers = <<>> /\ cutChar = FALSE

Writes == \E k \in DOMAIN calls : WriteDone(k) \/ WriteFails(k)
ClientSteps == Writes \/ ClientData \/ ClientEnd \/ ClientError
ClientNext == \/ \E m \in Messages : Call(m)
              \/ \E k \in DOMAIN calls : WritePart(k)
              \/ ClientSteps
ServerSteps == ServerData \/ ServerEnd \/ ServerError \/ ServerWriteDone
               \/ ServerWriteFails
Types == {m.type : m \in Messages}
ServerNext == ServerSteps \/ \E type \in Types : RegisterHandler(type)

Next == ClientNext \/ ServerNext \/ Break
Spec == Init /\ [][Next]_vars

-----------------------------------------------------------------------------
PlainUpTo(k) == \A j \in DOMAIN calls : j <= k => Plain(calls[j].msg)

\* The calls an application makes one after the other, awaiting each, with
\* messages the delimiters do not collide with.  Later calls may overlap them.
InTurn(k) == calls[k].alone /\ PlainUpTo(k)

SentSo(i) == i \in DOMAIN calls /\ InTurn(i) => received[i] = calls[i].msg

\* However their texts are cut into chunks, the server serves what such calls
\* sent, and does not turn one away as malformed; provided no chunk ended in
\* the middle of a character.  The process ends only with the connection.
ServedAsSent ==
  /\ ~cutChar => \A i \in DOMAIN received : SentSo(i)
  /\ \A i \in DOMAIN answers : answers[i].why = "malformed" =>
       broken \/ \E k \in DOMAIN calls : ~InTurn(k)
  /\ spc = "crashed" => broken

\* The code such a call returns is the answer to its own message, and the
\* verdict of the handler on the data it sent, also when a call that overlaps
\* it takes the same response for its own.  Or, against atxp.js:293, the server
\* returned no code: the ERROR of a call that heard nothing is its own.  Then the
\* server closed before it took the message, or the connection broke.
OwnCode == \A k \in DOMAIN calls :
  calls[k].out = "code" /\ InTurn(k) =>
    IF calls[k].heard = <<>>
      THEN /\ calls[k].code = ERROR /\ cOver
           /\ broken \/ k \notin DOMAIN received
      ELSE /\ k \in DOMAIN answers /\ answers[k].to = k
           /\ calls[k].code = answers[k].code
           /\ answers[k].why = "handler" => answers[k].code \in Verdicts(calls[k].msg)

\* Such a call settles, unless its write calls back when the socket is over and
\* it listens for an 'end' that was told already.  And whatever was sent, and
\* however calls overlap, no other is left pending once the connection ended:
\* what is not heard by then is settled by 'end', 'error' or the write.
Late == {k \in At("waiting") : cOver}
ClientReady == \/ At("sending") # {}
               \/ ~cOver /\ broken
               \/ ~cOver /\ flowing /\ (down # <<>> \/ spc \in {"closed", "crashed"})
ServerReady == \/ spc = "respond"
               \/ spc = "receive" /\ ~sOver /\ (up # <<>> \/ broken)
Fairness == /\ []<>~ClientReady \/ []<><<ClientSteps>>_vars
            /\ []<>~ServerReady \/ []<><<ServerSteps>>_vars
CallsSettle == Fairness =>
  /\ \A k \in 1..MaxCalls :
       (k \in Pending /\ InTurn(k)) ~> (k \notin Pending \/ k \in Late)
  /\ (spc = "closed" \/ broken) ~> (Pending \subseteq Late)

\* The promise of such a call settles over a connection that does not break
\* (atxp.js:293: "Resolves to the specific response verification code").
\* FairSpec is the fairness above as a specification.
FairSpec ==
  /\ Spec
  /\ WF_vars(ClientReady /\ ClientSteps) /\ WF_vars(ServerReady /\ ServerSteps)
EveryCallSettles == []~broken =>
  \A k \in 1..MaxCalls : (k \in Pending /\ InTurn(k)) ~> (k \notin Pending)

\* docs/protocol.md:12: "A single frame is a UTF-8 string"; atxp.js:183:
\* receive "Resolves with the accumulated raw frame string".
FramesAreStrings == \A i \in DOMAIN received : SentSo(i)
=============================================================================
