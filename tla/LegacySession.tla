--------------------------- MODULE LegacySession ---------------------------
(***************************************************************************)
(* One V1 connection of the Go implementation: a Client and the goroutine  *)
(* of Server.HandleConnection, over two streams of tokens.  V1 has no      *)
(* deadlines: a read waits for a blank line, the end of the stream or an   *)
(* error.                                                                  *)
(***************************************************************************)
EXTENDS LegacyText

CONSTANTS
  Messages,       \* what the application sends; one user and password
  AuthAnswers,    \* what the AuthHandler may say ({TRUE}: there is none)
  HandlerCodes,   \* codes a Handler of the application may return, as digits
  MaxBytes,       \* limit of ValidateDocumentHandler, in tokens
  MaxCalls        \* bound: calls the application makes

Codes == HandlerCodes \cup {OK, ERROR, UNAUTHORIZED}

ASSUME MessagesAssumption == Messages \subseteq Sent
ASSUME CodesAssumption == HandlerCodes \subseteq Seq(Digits)
ASSUME AuthAssumption == AuthAnswers \subseteq BOOLEAN
ASSUME CallsAssumption == MaxCalls \in Nat /\ MaxBytes \in Nat

VARIABLES
  up, down,     \* the streams client -> server and server -> client
  broken,       \* the connection failed under both
  cpc,          \* where Client is
  calls,        \* history: every call, how it ended, the code it returned
  spc,          \* where the server is
  sMsg,         \* the message being served
  handlers,     \* types with a registered handler
  received,     \* history: the messages Deserialize returned
  answers       \* history: the responses, each with the message it is to

clientVars == <<cpc, calls>>
serverVars == <<spc, sMsg, handlers, received, answers>>
vars == <<up, down, broken, clientVars, serverVars>>

-----------------------------------------------------------------------------
(* The connection.                                                         *)

\* A reset, or Close by another goroutine: what is in flight is lost from some
\* point on; what arrived before may still be read.
Break ==
  /\ ~broken /\ broken' = TRUE
  /\ up' \in Prefixes(up) /\ down' \in Prefixes(down)
  /\ UNCHANGED <<clientVars, serverVars>>

Written(stream, text) == IF broken THEN stream ELSE stream \o text

\* Receive: the text up to the blank line, or all there is when the writer is
\* gone and no blank line will come; until then it waits.
Receive(stream, over) ==
  LET end == ReceiveEnd(stream)
  IN IF end # None
       THEN {[text |-> Slice(stream, 0, end),
              rest |-> Slice(stream, end, Len(stream))]}
       ELSE {[text |-> stream, rest |-> <<>>] : gone \in {over} \cap {TRUE}}

-----------------------------------------------------------------------------
(* The client.                                                             *)

ServerGone == spc \in {"closed", "crashed"}

StartCall(m, out) ==
  /\ cpc = "idle" /\ Len(calls) < MaxCalls
  /\ calls' = Append(calls, [msg |-> m, out |-> out, code |-> <<>>])

EndCall(out, code) ==
  /\ cpc' = "idle"
  /\ calls' = [calls EXCEPT ![Len(calls)].out = out, ![Len(calls)].code = code]

\* Send; on a broken connection the bytes are lost, or the write fails.
SendWritten(m) ==
  /\ StartCall(m, "pending")
  /\ up' = Written(up, Serialize(m))
  /\ cpc' = "wait"
  /\ UNCHANGED <<down, broken, serverVars>>

SendFails(m) ==
  /\ StartCall(m, "write")
  /\ \E part \in Prefixes(Serialize(m)) : up' = Written(up, part)
  /\ broken' = TRUE
  /\ UNCHANGED <<down, cpc, serverVars>>

\* ReceiveResponse, when Receive returned a text.
ClientReceives ==
  /\ cpc = "wait"
  /\ \E read \in Receive(down, broken \/ ServerGone) :
       /\ down' = read.rest
       /\ \E response \in {ParseResponse(read.text)} :
            IF read.text = <<>> THEN EndCall("eof", <<>>)
            ELSE IF response = Invalid THEN EndCall("ErrInvalidFormat", <<>>)
            ELSE EndCall("code", response.code)
  /\ UNCHANGED <<up, broken, serverVars>>

\* Receive returns an error; what it had read is dropped.
ClientReadFails ==
  /\ cpc = "wait" /\ broken
  /\ down' = <<>>
  /\ EndCall("read", <<>>)
  /\ UNCHANGED <<up, broken, serverVars>>

CloseClient ==
  /\ cpc = "idle"
  /\ cpc' = "closed"
  /\ UNCHANGED <<up, down, broken, calls, serverVars>>

-----------------------------------------------------------------------------
(* The server.                                                             *)

\* The map has no lock: the application registers before it serves.
RegisterHandler(type) ==
  /\ spc = "new"
  /\ handlers' = handlers \cup {type}
  /\ UNCHANGED <<up, down, broken, clientVars, spc, sMsg, received, answers>>

Accept ==
  /\ spc = "new"
  /\ spc' = "read"
  /\ UNCHANGED <<up, down, broken, clientVars, sMsg, handlers, received,
                 answers>>

\* SendResponse, whose error the loop ignores.
Respond(code, why) ==
  /\ down' = Written(down, SerializeResponse(code))
  /\ answers' = Append(answers, [code |-> code, why |-> why,
                                 to |-> Len(received)])

\* The return after a text that does not parse.  (mutant: continue)
AfterMalformed_Continue == spc' = "read"
AfterMalformed == spc' = "closed"

\* Receive returned a text: "" ends the loop, and Deserialize decides.
ServerReceives ==
  /\ spc = "read"
  /\ \E read \in Receive(up, broken \/ cpc = "closed") :
       /\ up' = read.rest
       /\ \E parsed \in {Deserialize(read.text)} :
            \/ /\ read.text = <<>>
               /\ spc' = "closed"
               /\ UNCHANGED <<down, sMsg, received, answers>>
            \/ /\ read.text # <<>> /\ parsed = Invalid
               /\ Respond(ERROR, "malformed")
               /\ AfterMalformed
               /\ UNCHANGED <<sMsg, received>>
            \/ /\ parsed = Panic
               /\ spc' = "crashed"
               /\ UNCHANGED <<down, sMsg, received, answers>>
            \/ /\ parsed.went = "message"
               /\ sMsg' = parsed.msg
               /\ received' = Append(received, parsed.msg)
               /\ spc' = "auth"
               /\ UNCHANGED <<down, answers>>
  /\ UNCHANGED <<broken, clientVars, handlers>>

ServerReadFails ==
  /\ spc = "read" /\ broken
  /\ up' = <<>>
  /\ spc' = "closed"
  /\ UNCHANGED <<down, broken, clientVars, sMsg, handlers, received, answers>>

Authorize ==
  /\ spc = "auth" /\ TRUE \in AuthAnswers
  /\ spc' = "route"
  /\ UNCHANGED <<up, down, broken, clientVars, sMsg, handlers, received,
                 answers>>

\* (mutant: the return is missing)
AfterDenial_GoesOn == spc' = "route"
AfterDenial == spc' = "closed"

Deny ==
  /\ spc = "auth" /\ FALSE \in AuthAnswers
  /\ Respond(UNAUTHORIZED, "unauthorized")
  /\ AfterDenial
  /\ UNCHANGED <<up, broken, clientVars, sMsg, handlers, received>>

\* The continue after a missing handler.
\* (mutants: it is missing; the response is)
AfterMissing_FallsThrough == spc' = "run" /\ Respond(ERROR, "no_handler")
AfterMissing_Silent == spc' = "read" /\ UNCHANGED <<down, answers>>
AfterMissing == spc' = "read" /\ Respond(ERROR, "no_handler")

Route ==
  /\ spc = "route"
  /\ IF sMsg.type \in handlers
       THEN spc' = "run" /\ UNCHANGED <<down, answers>>
       ELSE AfterMissing
  /\ UNCHANGED <<up, broken, clientVars, sMsg, handlers, received>>

\* URL and Document have the handlers of the package, Notification has one of
\* the application.
Verdicts(m) ==
  IF m.type = "URL" THEN {ValidateURLHandler(m.data)}
  ELSE IF m.type = "Document" THEN {ValidateDocumentHandler(m.data, MaxBytes)}
  ELSE HandlerCodes

HandlerReturns ==
  /\ spc = "run"
  /\ \E code \in Verdicts(sMsg) : Respond(code, "handler")
  /\ spc' = "read"
  /\ UNCHANGED <<up, broken, clientVars, sMsg, handlers, received>>

-----------------------------------------------------------------------------
NoMessage == [type |-> "-1", data |-> <<>>, user |-> <<>>, pass |-> <<>>,
              file |-> <<>>]

Init ==
  /\ up = <<>> /\ down = <<>> /\ broken = FALSE
  /\ cpc = "idle" /\ calls = <<>>
  /\ spc = "new" /\ sMsg = NoMessage /\ handlers = {}
  /\ received = <<>> /\ answers = <<>>

ClientReads == ClientReceives \/ ClientReadFails
ClientNext == \/ \E m \in Messages : SendWritten(m) \/ SendFails(m)
              \/ ClientReads
              \/ CloseClient
ServerSteps == ServerReceives \/ ServerReadFails \/ Authorize \/ Deny \/ Route
               \/ HandlerReturns
ServerNext == \/ \E type \in KnownTypes : RegisterHandler(type)
              \/ Accept
              \/ ServerSteps

Next == ClientNext \/ ServerNext \/ Break

Spec == Init /\ [][Next]_vars

-----------------------------------------------------------------------------
Parsed == [type : KnownTypes \cup {"-1"}, data : Text, user : Text,
           pass : Text, file : Text]

\* Types; above all, the code a call returns is a number whatever was read.
TypeOK ==
  /\ up \in Text /\ down \in Seq(Digits \cup {"RESP", ":", "nl"})
  /\ broken \in BOOLEAN
  /\ cpc \in {"idle", "wait", "closed"}
  /\ calls \in Seq([msg : Messages, code : Seq(Digits),
                    out : {"pending", "write", "read", "eof", "code",
                           "ErrInvalidFormat"}])
  /\ spc \in {"new", "read", "auth", "route", "run", "closed", "crashed"}
  /\ sMsg \in Parsed
  /\ handlers \subseteq KnownTypes
  /\ received \in Seq(Parsed)
  /\ answers \in Seq([code : Codes, to : Nat,
                      why : {"handler", "no_handler", "unauthorized",
                             "malformed"}])

\* Calls 1 to k sent nothing the delimiters collide with.
PlainUpTo(k) == \A j \in DOMAIN calls : j <= k => Plain(calls[j].msg)

\* What the server serves is, field by field, what the client sent, in the
\* order of the calls, as long as the messages are plain: also when a write
\* stopped half way or the connection was cut in the middle of a text.
PlainDelivery == \A i \in DOMAIN received :
  PlainUpTo(i) => i \in DOMAIN calls /\ received[i] = calls[i].msg

\* A plain message is turned away as malformed only if it was cut, and never
\* ends the server.
PlainIsServed == PlainUpTo(Len(calls)) =>
  /\ spc # "crashed"
  /\ (\E i \in DOMAIN answers : answers[i].why = "malformed") => broken

\* The code a call returns is the answer to its own message, and the verdict
\* of the handler on the data the call sent: there are no numbers in V1, one
\* response per message and the order of the streams must do.  A response cut
\* by the end of the connection yields the digits there were.
OwnCode == \A k \in DOMAIN calls :
  calls[k].out = "code" /\ PlainUpTo(k) =>
    /\ k \in DOMAIN answers /\ answers[k].to = k
    /\ answers[k].why = "handler" => answers[k].code \in Verdicts(calls[k].msg)
    /\ \/ calls[k].code = answers[k].code
       \/ broken /\ IsStrictPrefix(calls[k].code, answers[k].code)

\* After a denial or a text that does not parse, where the next text starts is
\* anyone's guess: nothing more is served or answered.
Rejected ==
  \E i \in DOMAIN answers : answers[i].why \in {"unauthorized", "malformed"}
RejectionIsFinal == [][Rejected => UNCHANGED <<received, answers>>]_vars

\* Weak fairness of the goroutine and of the client's reads, with the states
\* in which they can step spelled out.
ServerReady == \/ spc \in {"new", "auth", "route", "run"}
               \/ /\ spc = "read"
                  /\ broken \/ Receive(up, cpc = "closed") # {}
ClientReady == cpc = "wait" /\ (broken \/ Receive(down, ServerGone) # {})
Fairness ==
  /\ []<>~ServerReady \/ []<><<Accept \/ ServerSteps>>_vars
  /\ []<>~ClientReady \/ []<><<ClientReads>>_vars

\* Every call returns though nothing has a deadline, whatever it sends, if the
\* server's goroutine runs and its handlers return: each text holds a blank
\* line, and each blank line is answered or ends the connection.
CallReturns == Fairness => ((cpc = "wait") ~> (cpc # "wait"))
=============================================================================
