------------------------ MODULE LegacySession_proofs ------------------------
(***************************************************************************)
(* Proofs about LegacySession: what becomes of plain messages, and of the  *)
(* answers to them, on a connection.                                       *)
(***************************************************************************)
EXTENDS LegacySession, LegacyText_proofs

-----------------------------------------------------------------------------
(* What Receive and Deserialize return for any text.                       *)

\* Deserialize returns one of the two errors or a message, whatever it reads.
LEMMA DeserializeType ==
  ASSUME NEW text \in Text
  PROVE  LET parsed == Deserialize(text)
         IN \/ parsed = Invalid
            \/ parsed = Panic
            \/ parsed.went = "message" /\ parsed.msg \in Parsed
<1> DEFINE i == Index(Tabs, text)
           j == Index(AuthMark, text)
           e == Index(Blank, text)
           w == Slice(text, j + Len(AuthMark), e)
           parts == CutLast(CutLast(Cut(w)))
           y == StringToType(Slice(text, 0, i))
           z == Slice(text, DataStart(i), j)
           f == IF y = "Document" /\ Len(parts) > 2 THEN parts[3] ELSE <<>>
           msg == [type |-> y, data |-> z, user |-> parts[1], pass |-> parts[2], file |-> f]
<1>1. /\ text \in Seq(Tokens) /\ Len(text) \in Nat
      /\ Tabs \in Seq(Tokens) /\ AuthMark \in Seq(Tokens) /\ Blank \in Seq(Tokens)
      /\ Len(AuthMark) = 4 /\ Len(Tabs) = 2 /\ Len(Blank) = 2
  <2>1. Len(AuthMark) = 4
    BY MarksAre
  <2>2. Len(Tabs) = 2 /\ Len(Blank) = 2
    BY DEF Tabs, Blank
  <2> QED
    BY <2>1, <2>2, MarksAre, LenProperties DEF Text
<1>2. y \in KnownTypes \cup {"-1"}
  <2> DEFINE s == Slice(text, 0, i)
  <2> HIDE DEF s
  <2>1. StringToType(s) \in KnownTypes \cup {"-1"}
    <3>1. CASE \E type \in KnownTypes : s = <<type>>
      <4>1. PICK type \in KnownTypes : s = <<type>>
        BY <3>1
      <4>2. s[1] = type
        BY <4>1
      <4> QED
        BY <3>1, <4>1, <4>2 DEF StringToType
    <3>2. CASE ~\E type \in KnownTypes : s = <<type>>
      BY <3>2 DEF StringToType
    <3> QED
      BY <3>1, <3>2
  <2> QED
    BY <2>1 DEF s
<1>3. CASE /\ i # None /\ j # None /\ e # None /\ ~(i + 2 > j)
           /\ ~(j + Len(AuthMark) > e) /\ ~(Len(parts) < 2)
  <2>1. /\ i \in Nat /\ j \in Nat /\ e \in Nat /\ j + 4 <= Len(text) /\ e + 2 <= Len(text)
    BY <1>1, <1>3, IndexRange
  <2> HIDE DEF i, j, e
  <2>2. j + 4 \in Nat /\ e <= Len(text) /\ j <= Len(text) /\ DataStart(i) \in Nat
    BY <1>1, <2>1 DEF DataStart
  <2>3. w \in Text
    BY <1>1, <2>1, <2>2, SliceType DEF Text
  <2>4. z \in Text
    BY <1>1, <2>1, <2>2, SliceType DEF Text
  <2>5. parts \in Seq(Text)
    <3> HIDE DEF w
    <3> QED
      BY <2>3, CutType, CutLastType
  <2> HIDE DEF w, z, parts
  <2> DEFINE T == Text
  <2> HIDE DEF T
  <2>6. Len(parts) \in Nat /\ \A k \in 1..Len(parts) : parts[k] \in T
    BY <2>5, LenProperties, ElementOfSeq DEF T
  <2>7. parts[1] \in T /\ parts[2] \in T /\ (Len(parts) > 2 => parts[3] \in T)
    BY <1>3, <2>6
  <2>8. <<>> \in T
    BY DEF T, Text
  <2>9. f \in T
    BY <2>7, <2>8
  <2> HIDE DEF f, y
  <2>10. msg \in Parsed
    BY <1>2, <2>4, <2>7, <2>9 DEF Parsed, T
  <2>11. Deserialize(text) = [went |-> "message", msg |-> msg]
    BY <1>3 DEF Deserialize, i, j, e, w, z, parts, f, y
  <2> QED
    BY <2>10, <2>11
<1>4. CASE ~/\ i # None /\ j # None /\ e # None /\ ~(i + 2 > j)
            /\ ~(j + Len(AuthMark) > e) /\ ~(Len(parts) < 2)
  <2>1. Deserialize(text) = Invalid \/ Deserialize(text) = Panic
    BY <1>4 DEF Deserialize
  <2> QED
    BY <2>1
<1> QED
  BY <1>3, <1>4

\* Receive hands over what is on the way up to the first blank line.
LEMMA ReceiveIs ==
  ASSUME NEW S, "nl" \in S, NEW stream \in Seq(S), NEW over, NEW read \in Receive(stream, over)
  PROVE  read.text \in Seq(S) /\ read.rest \in Seq(S)
<1> DEFINE end == ReceiveEnd(stream)
           i == Index(Blank, stream)
<1>1. Blank \in Seq(S) /\ Len(Blank) = 2 /\ Len(stream) \in Nat
  BY LenProperties DEF Blank
<1>2. CASE end = None
  <2>1. read = [text |-> stream, rest |-> <<>>]
    BY <1>2 DEF Receive
  <2> QED
    BY <2>1
<1>3. CASE end # None
  <2>1. i # None /\ end = i + 2
    BY <1>3 DEF ReceiveEnd
  <2>2. i \in Nat /\ i + 2 <= Len(stream)
    BY <1>1, <2>1, IndexRange
  <2>3. /\ read.text = Slice(stream, 0, end)
        /\ read.rest = Slice(stream, end, Len(stream))
    BY <1>3 DEF Receive
  <2> HIDE DEF i, end
  <2>4. end \in Nat /\ end <= Len(stream) /\ Len(stream) <= Len(stream)
    BY <1>1, <2>1, <2>2
  <2>5. Slice(stream, 0, end) \in Seq(S) /\ Slice(stream, end, Len(stream)) \in Seq(S)
    BY <1>1, <2>4, SliceType
  <2> QED
    BY <2>3, <2>5
<1> QED
  BY <1>2, <1>3

\* A stream that is one text, or a part of one, is read to its end; the part
\* only when no more will come.
LEMMA ReceiveAll ==
  ASSUME NEW S, NEW stream \in Seq(S), NEW over, NEW read \in Receive(stream, over),
         ReceiveEnd(stream) = Len(stream) \/ ReceiveEnd(stream) = None
  PROVE  /\ read.text = stream /\ read.rest = <<>>
         /\ ReceiveEnd(stream) = None => over \in {TRUE}
<1>1. Len(stream) \in Nat
  BY LenProperties
<1>2. CASE ReceiveEnd(stream) = None
  <2>1. read \in {[text |-> stream, rest |-> <<>>] : gone \in {over} \cap {TRUE}}
    BY <1>2 DEF Receive
  <2> QED
    BY <2>1
<1>3. CASE ReceiveEnd(stream) = Len(stream)
  <2>1. ReceiveEnd(stream) # None
    BY <1>1, <1>3 DEF None
  <2>2. /\ read.text = Slice(stream, 0, Len(stream))
        /\ read.rest = Slice(stream, Len(stream), Len(stream))
    BY <1>3, <2>1 DEF Receive
  <2> QED
    BY <2>1, <2>2, WholeSlice
<1> QED
  BY <1>2, <1>3

-----------------------------------------------------------------------------
(* Types.                                                                  *)

LEMMA WrittenType ==
  ASSUME NEW S, NEW stream \in Seq(S), NEW text \in Seq(S)
  PROVE  Written(stream, text) \in Seq(S)
BY ConcatProperties DEF Written

Outcomes == {"pending", "write", "read", "eof", "code", "ErrInvalidFormat"}
Reasons == {"handler", "no_handler", "unauthorized", "malformed"}
CallsType == [msg : Messages, code : Seq(Digits), out : Outcomes]
AnswersType == [code : Codes, to : Nat, why : Reasons]

\* Every code is a sequence of digits.
LEMMA CodesAre ==
  /\ OK \in Codes /\ ERROR \in Codes /\ UNAUTHORIZED \in Codes
  /\ Codes \subseteq Seq(Digits)
  /\ \A code \in Codes : SerializeResponse(code) \in Seq(RespTokens)
<1>1. Codes \subseteq Seq(Digits)
  <2>1. {"0", "1", "2"} \subseteq Digits
    BY DEF Digits
  <2> HIDE DEF Digits
  <2>2. OK \in Seq(Digits) /\ ERROR \in Seq(Digits) /\ UNAUTHORIZED \in Seq(Digits)
    BY <2>1 DEF OK, ERROR, UNAUTHORIZED
  <2> QED
    BY <2>2, CodesAssumption DEF Codes
<1>2. \A code \in Codes : SerializeResponse(code) \in Seq(RespTokens)
  BY <1>1, ResponseLayout
<1> QED
  BY <1>1, <1>2 DEF Codes

LEMMA MessagesAreSent ==
  Messages \subseteq Sent /\ \A m \in Messages : Serialize(m) \in Text
<1>1. Messages \subseteq Sent
  BY MessagesAssumption DEF Sent
<1> QED
  BY <1>1, SerializeIs

LEMMA VerdictsAre ==
  ASSUME NEW m
  PROVE  Verdicts(m) \subseteq Codes
BY CodesAre DEF Verdicts, ValidateURLHandler, ValidateDocumentHandler, Codes

\* What Respond does to the stream and to the history.
LEMMA RespondTypes ==
  ASSUME TypeOK, NEW code \in Codes, NEW why \in Reasons, Respond(code, why)
  PROVE  /\ down' \in Seq(RespTokens) /\ answers' \in Seq(AnswersType)
         /\ Len(answers') = Len(answers) + 1
         /\ \A i \in 1..Len(answers) : answers'[i] = answers[i]
         /\ answers'[Len(answers) + 1] = [code |-> code, why |-> why, to |-> Len(received)]
<1>1. down \in Seq(RespTokens) /\ answers \in Seq(AnswersType) /\ received \in Seq(Parsed)
  BY DEF TypeOK, RespTokens, AnswersType, Reasons
<1>2. down' \in Seq(RespTokens)
  BY <1>1, CodesAre, WrittenType DEF Respond
<1> DEFINE e == [code |-> code, why |-> why, to |-> Len(received)]
<1>3. e \in AnswersType
  BY <1>1, LenProperties DEF AnswersType
<1>4. answers' = Append(answers, e)
  BY DEF Respond
<1> HIDE DEF e
<1> QED
  BY <1>1, <1>2, <1>3, <1>4, AppendProperties DEF e

\* What StartCall and EndCall do to the calls.
LEMMA StartTypes ==
  ASSUME TypeOK, NEW m \in Messages, NEW out \in Outcomes, StartCall(m, out)
  PROVE  /\ calls' \in Seq(CallsType) /\ Len(calls') = Len(calls) + 1
         /\ \A i \in 1..Len(calls) : calls'[i] = calls[i]
         /\ calls'[Len(calls) + 1] = [msg |-> m, out |-> out, code |-> <<>>]
<1>1. calls \in Seq(CallsType)
  BY DEF TypeOK, CallsType, Outcomes
<1> DEFINE e == [msg |-> m, out |-> out, code |-> <<>>]
<1>2. e \in CallsType
  BY DEF CallsType
<1>3. calls' = Append(calls, e)
  BY DEF StartCall
<1> HIDE DEF e
<1> QED
  BY <1>1, <1>2, <1>3, AppendProperties DEF e

\* The call that waits: the last one, and it has not ended.
WaitInv == cpc = "wait" => Len(calls) > 0 /\ calls[Len(calls)].out = "pending"

LEMMA EndTypes ==
  ASSUME TypeOK, WaitInv, cpc = "wait", NEW out \in Outcomes, NEW code \in Seq(Digits),
         EndCall(out, code)
  PROVE  /\ calls' \in Seq(CallsType) /\ Len(calls') = Len(calls) /\ cpc' = "idle"
         /\ \A i \in 1..(Len(calls) - 1) : calls'[i] = calls[i]
         /\ \A i \in 1..Len(calls) : calls'[i].msg = calls[i].msg
         /\ calls'[Len(calls)].out = out /\ calls'[Len(calls)].code = code
<1> DEFINE c == Len(calls)
           old == calls[c]
           e == [msg |-> old.msg, code |-> code, out |-> out]
<1>1. calls \in Seq(CallsType) /\ c \in Nat /\ c > 0
  BY LenProperties DEF TypeOK, CallsType, Outcomes, WaitInv
<1> HIDE DEF c
<1>2. c \in 1..Len(calls)
  BY <1>1 DEF c
<1>3. old \in CallsType
  BY <1>1, <1>2, ElementOfSeq
<1>4. e \in CallsType
  BY <1>3 DEF CallsType
<1>5. calls' = [calls EXCEPT ![c] = e]
  <2>1. calls' = [calls EXCEPT ![c].out = out, ![c].code = code]
    BY DEF EndCall, c
  <2>2. calls \in [1..Len(calls) -> CallsType]
    BY <1>1, LenProperties
  <2>3. calls' = [j \in 1..Len(calls) |-> IF j = c THEN calls'[c] ELSE calls[j]]
    BY <1>2, <2>1, <2>2
  <2>4. calls'[c] = [[old EXCEPT !.out = out] EXCEPT !.code = code]
    BY <1>2, <2>1, <2>2
  <2>5. calls'[c] = e
    BY <1>3, <2>4 DEF CallsType
  <2> HIDE DEF e
  <2>6. [calls EXCEPT ![c] = e] = [j \in 1..Len(calls) |-> IF j = c THEN e ELSE calls[j]]
    BY <1>2, <2>2
  <2> QED
    BY <2>3, <2>5, <2>6
<1> HIDE DEF e, old
<1>6. /\ calls' \in Seq(CallsType) /\ Len(calls') = Len(calls)
      /\ \A j \in 1..Len(calls) : calls'[j] = IF j = c THEN e ELSE calls[j]
  BY <1>1, <1>2, <1>4, <1>5, ExceptSeq
<1>7. cpc' = "idle"
  BY DEF EndCall
<1>8. \A i \in 1..(c - 1) : i \in 1..c /\ i # c
  BY <1>1
<1>9. e.out = out /\ e.code = code /\ e.msg = calls[c].msg
  BY DEF e, old
<1> QED
  BY <1>1, <1>2, <1>6, <1>7, <1>8, <1>9 DEF c

TypeInv == TypeOK /\ WaitInv

\* TypeOK by the names of this module.
LEMMA TypeIs ==
  ASSUME TypeOK
  PROVE  /\ up \in Text /\ down \in Seq(RespTokens) /\ calls \in Seq(CallsType)
         /\ answers \in Seq(AnswersType) /\ received \in Seq(Parsed) /\ sMsg \in Parsed
         /\ Len(calls) \in Nat /\ Len(received) \in Nat /\ Len(answers) \in Nat
         /\ broken \in BOOLEAN /\ cpc \in {"idle", "wait", "closed"}
         /\ spc \in {"new", "read", "auth", "route", "run", "closed", "crashed"}
         /\ handlers \subseteq KnownTypes
         /\ DOMAIN calls = 1..Len(calls) /\ DOMAIN received = 1..Len(received)
         /\ DOMAIN answers = 1..Len(answers)
BY LenProperties DEF TypeOK, RespTokens, CallsType, AnswersType, Outcomes, Reasons

\* What ClientReceives does to the call that waits.
LEMMA ClientReads1 ==
  ASSUME TypeInv, ClientReceives
  PROVE  \E read \in Receive(down, broken \/ ServerGone), out \in Outcomes,
            code \in Seq(Digits) :
           /\ cpc = "wait" /\ EndCall(out, code) /\ down' = read.rest
           /\ read.rest \in Seq(RespTokens)
           /\ out = "code" =>
                /\ read.text # <<>>
                /\ ParseResponse(read.text) = [went |-> "code", code |-> code]
<1>1. PICK read \in Receive(down, broken \/ ServerGone) :
        /\ down' = read.rest
        /\ IF read.text = <<>> THEN EndCall("eof", <<>>)
           ELSE IF ParseResponse(read.text) = Invalid THEN EndCall("ErrInvalidFormat", <<>>)
           ELSE EndCall("code", ParseResponse(read.text).code)
  BY DEF ClientReceives
<1>2. "nl" \in RespTokens /\ down \in Seq(RespTokens)
  BY TypeIs DEF RespTokens, TypeInv
<1>3. read.text \in Seq(RespTokens) /\ read.rest \in Seq(RespTokens)
  BY <1>2, ReceiveIs
<1>4. \/ ParseResponse(read.text) = Invalid
      \/ \E x \in Seq(Digits) : ParseResponse(read.text) = [went |-> "code", code |-> x]
  BY <1>3, ParsedIs
<1>5. <<>> \in Seq(Digits) /\ {"eof", "ErrInvalidFormat", "code"} \subseteq Outcomes
  BY DEF Outcomes
<1>6. cpc = "wait"
  BY DEF ClientReceives
<1>7. CASE read.text = <<>>
  BY <1>1, <1>3, <1>5, <1>6, <1>7
<1>8. CASE read.text # <<>> /\ ParseResponse(read.text) = Invalid
  BY <1>1, <1>3, <1>5, <1>6, <1>8
<1>9. CASE read.text # <<>> /\ ParseResponse(read.text) # Invalid
  <2>1. PICK x \in Seq(Digits) : ParseResponse(read.text) = [went |-> "code", code |-> x]
    BY <1>4, <1>9
  <2>2. EndCall("code", x)
    BY <1>1, <1>9, <2>1
  <2> QED
    BY <1>1, <1>3, <1>5, <1>6, <2>1, <2>2
<1> QED
  BY <1>7, <1>8, <1>9

LEMMA TypeInit == Init => TypeInv
<1> SUFFICES ASSUME Init PROVE TypeInv
  OBVIOUS
<1>1. NoMessage \in Parsed
  BY DEF NoMessage, Parsed, Text
<1>2. \A S : <<>> \in Seq(S)
  BY EmptySeq
<1>3. WaitInv
  BY DEF Init, WaitInv
<1>4. TypeOK
  <2>1. up \in Text /\ down \in Seq(Digits \cup {"RESP", ":", "nl"})
    BY <1>2 DEF Init, Text
  <2> HIDE DEF Text, Parsed
  <2>2. /\ calls = <<>> /\ received = <<>> /\ answers = <<>> /\ sMsg = NoMessage
        /\ handlers = {} /\ spc = "new" /\ cpc = "idle" /\ broken = FALSE
    BY DEF Init
  <2> QED
    BY <1>1, <1>2, <2>1, <2>2 DEF TypeOK
<1> QED
  BY <1>3, <1>4 DEF TypeInv

LEMMA TypeStep ==
  ASSUME TypeInv, [Next]_vars
  PROVE  TypeInv'
<1> USE DEF TypeInv
<1>0. /\ up \in Text /\ down \in Seq(RespTokens) /\ calls \in Seq(CallsType)
      /\ answers \in Seq(AnswersType) /\ received \in Seq(Parsed) /\ sMsg \in Parsed
      /\ broken \in BOOLEAN /\ cpc \in {"idle", "wait", "closed"}
      /\ spc \in {"new", "read", "auth", "route", "run", "closed", "crashed"}
      /\ handlers \subseteq KnownTypes /\ Len(calls) \in Nat
  BY TypeIs
<1> DEFINE T1 == up' \in Text /\ down' \in Seq(RespTokens) /\ broken' \in BOOLEAN
           T2 == calls' \in Seq(CallsType) /\ cpc' \in {"idle", "wait", "closed"} /\ WaitInv'
           T3 == /\ answers' \in Seq(AnswersType) /\ received' \in Seq(Parsed)
                 /\ sMsg' \in Parsed /\ handlers' \subseteq KnownTypes
                 /\ spc' \in {"new", "read", "auth", "route", "run", "closed", "crashed"}
<1>1. T1 /\ T2 /\ T3 => TypeInv'
  BY DEF TypeOK, RespTokens, CallsType, AnswersType, Outcomes, Reasons
<1>2. UNCHANGED clientVars => T2
  BY <1>0 DEF clientVars, WaitInv
<1>3. UNCHANGED serverVars => T3
  BY <1>0 DEF serverVars
<1>4. \A m \in Messages, out \in Outcomes :
        StartCall(m, out) /\ cpc' \in {"idle", "wait"} /\ (cpc' = "wait" => out = "pending")
          => T2
  <2> SUFFICES ASSUME NEW m \in Messages, NEW out \in Outcomes, StartCall(m, out),
                      cpc' \in {"idle", "wait"}, cpc' = "wait" => out = "pending"
               PROVE  T2
    OBVIOUS
  <2>1. /\ calls' \in Seq(CallsType) /\ Len(calls') = Len(calls) + 1
        /\ calls'[Len(calls) + 1] = [msg |-> m, out |-> out, code |-> <<>>]
    BY StartTypes
  <2>2. calls'[Len(calls')].out = out /\ Len(calls') > 0
    BY <1>0, <2>1
  <2> QED
    BY <2>1, <2>2 DEF WaitInv
<1>5. \A out \in Outcomes, code \in Seq(Digits) :
        cpc = "wait" /\ EndCall(out, code) => T2
  BY EndTypes DEF WaitInv
<1>6. \A code \in Codes, why \in Reasons :
        Respond(code, why) => down' \in Seq(RespTokens) /\ answers' \in Seq(AnswersType)
  BY RespondTypes
<1> HIDE DEF T1, T2, T3
<1>7. CASE Break
  <2>1. up' \in Text /\ down' \in Seq(RespTokens)
    BY <1>0, <1>7, PrefixIs DEF Break, Text
  <2> QED
    BY <1>1, <1>2, <1>3, <1>7, <2>1 DEF Break, T1
<1>8. ASSUME NEW m \in Messages, SendWritten(m) PROVE TypeInv'
  <2>1. up' \in Text
    BY <1>0, <1>8, MessagesAreSent, WrittenType DEF SendWritten, Text
  <2>2. T1
    BY <1>0, <1>8, <2>1 DEF SendWritten, T1
  <2>3. T2
    BY <1>4, <1>8 DEF SendWritten, Outcomes
  <2> QED
    BY <1>1, <1>3, <1>8, <2>2, <2>3 DEF SendWritten
<1>9. ASSUME NEW m \in Messages, SendFails(m) PROVE TypeInv'
  <2>1. PICK part \in Prefixes(Serialize(m)) : up' = Written(up, part)
    BY <1>9 DEF SendFails
  <2>2. part \in Text
    BY MessagesAreSent, PrefixIs DEF Text
  <2>3. up' \in Text
    BY <1>0, <2>1, <2>2, WrittenType DEF Text
  <2>4. T1
    BY <1>0, <1>9, <2>3 DEF SendFails, T1
  <2>5. T2
    BY <1>4, <1>9 DEF SendFails, StartCall, Outcomes
  <2> QED
    BY <1>1, <1>3, <1>9, <2>4, <2>5 DEF SendFails
<1>10. CASE ClientReceives
  <2>1. /\ \E out \in Outcomes, code \in Seq(Digits) : cpc = "wait" /\ EndCall(out, code)
        /\ down' \in Seq(RespTokens)
    BY <1>10, ClientReads1
  <2>2. T2
    BY <1>5, <2>1
  <2>3. T1
    BY <1>0, <1>10, <2>1 DEF ClientReceives, T1
  <2> QED
    BY <1>1, <1>3, <1>10, <2>2, <2>3 DEF ClientReceives
<1>11. CASE ClientReadFails
  <2>1. T2
    <3>1. <<>> \in Seq(Digits) /\ "read" \in Outcomes
      BY DEF Outcomes
    <3> QED
      BY <1>5, <1>11, <3>1 DEF ClientReadFails
  <2>2. T1
    BY <1>0, <1>11 DEF ClientReadFails, T1
  <2> QED
    BY <1>1, <1>3, <1>11, <2>1, <2>2 DEF ClientReadFails
<1>12. CASE CloseClient
  BY <1>0, <1>1, <1>3, <1>12 DEF CloseClient, T1, T2, WaitInv
<1>13. ASSUME NEW type \in KnownTypes, RegisterHandler(type) PROVE TypeInv'
  BY <1>0, <1>1, <1>2, <1>13 DEF RegisterHandler, T1, T3
<1>14. CASE Accept
  BY <1>0, <1>1, <1>2, <1>14 DEF Accept, T1, T3
<1>15. CASE ServerReceives
  <2>1. PICK read \in Receive(up, broken \/ cpc = "closed") :
          /\ up' = read.rest
          /\ \/ /\ spc' = "closed"
                /\ UNCHANGED <<down, sMsg, received, answers>>
             \/ /\ Respond(ERROR, "malformed")
                /\ spc' = "closed"
                /\ UNCHANGED <<sMsg, received>>
             \/ /\ spc' = "crashed"
                /\ UNCHANGED <<down, sMsg, received, answers>>
             \/ /\ Deserialize(read.text).went = "message"
                /\ sMsg' = Deserialize(read.text).msg
                /\ received' = Append(received, Deserialize(read.text).msg)
                /\ spc' = "auth"
                /\ UNCHANGED <<down, answers>>
    BY <1>15 DEF ServerReceives, AfterMalformed
  <2>2. UNCHANGED <<broken, clientVars, handlers>>
    BY <1>15 DEF ServerReceives
  <2>3. read.text \in Text /\ up' \in Text
    <3>1. "nl" \in Tokens
      BY DEF Tokens, Chars
    <3> QED
      BY <1>0, <2>1, <3>1, ReceiveIs DEF Text
  <2>4. Deserialize(read.text).went = "message" => Deserialize(read.text).msg \in Parsed
    BY <2>3, DeserializeType DEF Invalid, Panic
  <2>5. \A msg \in Parsed : Append(received, msg) \in Seq(Parsed)
    BY <1>0, AppendProperties
  <2>6. "malformed" \in Reasons
    BY DEF Reasons
  <2>7. T1 /\ T3
    BY <1>0, <1>6, <2>1, <2>2, <2>3, <2>4, <2>5, <2>6, CodesAre DEF T1, T3
  <2> QED
    BY <1>1, <1>2, <2>2, <2>7
<1>16. CASE ServerReadFails
  BY <1>0, <1>1, <1>2, <1>16 DEF ServerReadFails, T1, T3, Text
<1>17. CASE Authorize
  BY <1>0, <1>1, <1>2, <1>17 DEF Authorize, T1, T3
<1>18. CASE Deny
  BY <1>0, <1>1, <1>2, <1>6, <1>18, CodesAre DEF Deny, AfterDenial, T1, T3, Reasons
<1>19. CASE Route
  BY <1>0, <1>1, <1>2, <1>6, <1>19, CodesAre DEF Route, AfterMissing, T1, T3, Reasons
<1>20. CASE HandlerReturns
  <2>1. \E code \in Codes : Respond(code, "handler")
    BY <1>20, VerdictsAre DEF HandlerReturns
  <2> QED
    BY <1>0, <1>1, <1>2, <1>6, <1>20, <2>1 DEF HandlerReturns, T1, T3, Reasons
<1>21. CASE UNCHANGED vars
  BY <1>0, <1>1, <1>2, <1>3, <1>21 DEF vars, T1
<1> QED
  BY <1>7, <1>8, <1>9, <1>10, <1>11, <1>12, <1>13, <1>14, <1>15, <1>16, <1>17, <1>18,
     <1>19, <1>20, <1>21 DEF Next, ClientNext, ClientReads, ServerNext, ServerSteps

\* Every variable keeps its type; above all, the code a call returns is a
\* number, whatever the server or the connection made of its response.
THEOREM LegacyTypes == Spec => []TypeOK
<1>1. Spec => []TypeInv
  BY TypeInit, TypeStep, PTL DEF Spec
<1>2. TypeInv => TypeOK
  BY DEF TypeInv
<1> QED
  BY <1>1, <1>2, PTL

-----------------------------------------------------------------------------
(* What becomes of plain messages on a connection.                         *)

Open == spc \in {"new", "read", "auth", "route", "run"}
Serving == spc \in {"auth", "route", "run"}

\* What the server serves is the last message it received.
ServedInv == Serving => Len(received) > 0 /\ sMsg = received[Len(received)]

\* On the way to the server: nothing, or the text of the first call it has not
\* received, which only a broken connection cuts.
UpInv ==
  LET n == Len(received)
  IN Open /\ PlainUpTo(n + 1) =>
       \/ up = <<>>
       \/ /\ n < Len(calls)
          /\ up \in Prefixes(Serialize(calls[n + 1].msg))
          /\ broken \/ up = Serialize(calls[n + 1].msg)

\* On the way to the client: nothing, or the answer to the call that waits.
DownInv ==
  LET c == Len(calls)
  IN PlainUpTo(c) =>
       \/ down = <<>>
       \/ /\ cpc = "wait" /\ c <= Len(answers) /\ answers[c].to = c
          /\ answers[c].why = "handler" => answers[c].code \in Verdicts(calls[c].msg)
          /\ down \in Prefixes(SerializeResponse(answers[c].code))
          /\ broken \/ down = SerializeResponse(answers[c].code)

\* While the connection holds, client and server are at the same call: between
\* two, one that is on its way, one that is served, one that is answered.
BetweenCalls ==
  /\ cpc # "wait" /\ spc \in {"new", "read"} /\ down = <<>>
  /\ Len(received) = Len(calls) /\ Len(answers) = Len(calls)
CallOnItsWay ==
  /\ cpc = "wait" /\ spc \in {"new", "read"} /\ down = <<>>
  /\ Len(received) = Len(calls) - 1 /\ Len(answers) = Len(calls) - 1
  /\ up = Serialize(calls[Len(calls)].msg)
CallServed ==
  /\ cpc = "wait" /\ Serving /\ down = <<>>
  /\ Len(received) = Len(calls) /\ Len(answers) = Len(calls) - 1
CallAnswered ==
  /\ cpc = "wait" /\ spc = "read"
  /\ Len(received) = Len(calls) /\ Len(answers) = Len(calls)
  /\ down = SerializeResponse(answers[Len(calls)].code)
StepInv == ~broken /\ Open /\ PlainUpTo(Len(calls)) =>
             BetweenCalls \/ CallOnItsWay \/ CallServed \/ CallAnswered

\* The client is not ahead by more than the call that waits.
AheadInv == ~broken /\ Open /\ PlainUpTo(Len(received) + 1) =>
              Len(calls) <= Len(received) + 1

SessionInv ==
  /\ TypeInv /\ ServedInv /\ UpInv /\ DownInv /\ StepInv /\ AheadInv
  /\ PlainDelivery /\ PlainIsServed /\ OwnCode

\* SessionInv by its parts, for a step.
LEMMA PartsOfInv ==
  ASSUME SessionInv
  PROVE  /\ TypeOK /\ TypeInv /\ WaitInv /\ ServedInv /\ UpInv /\ DownInv /\ StepInv
         /\ AheadInv /\ PlainDelivery /\ PlainIsServed /\ OwnCode
BY DEF SessionInv, TypeInv

\* PlainUpTo for a given sequence of calls.
PlainCalls(cs, k) == \A j \in DOMAIN cs : j <= k => Plain(cs[j].msg)

\* If calls up to one are plain, so are those up to an earlier one.
LEMMA PlainDown ==
  ASSUME TypeOK, NEW k \in Int, PlainUpTo(k)
  PROVE  /\ \A j \in Int : j <= k => PlainUpTo(j)
         /\ Len(calls) <= k => \A j \in Int : PlainUpTo(j)
         /\ \A j \in 1..Len(calls) : j <= k => Plain(calls[j].msg)
<1>1. DOMAIN calls = 1..Len(calls) /\ Len(calls) \in Nat
  BY TypeIs
<1>2. \A j \in 1..Len(calls) : j <= k => Plain(calls[j].msg)
  BY <1>1 DEF PlainUpTo
<1>3. ASSUME NEW j \in Int, j <= k \/ Len(calls) <= k PROVE PlainUpTo(j)
  <2> SUFFICES ASSUME NEW i \in 1..Len(calls), i <= j PROVE Plain(calls[i].msg)
    BY <1>1 DEF PlainUpTo
  <2>1. i <= k
    BY <1>1, <1>3
  <2> QED
    BY <1>2, <2>1
<1> QED
  BY <1>2, <1>3

LEMMA CallMessage ==
  ASSUME TypeOK, NEW j \in 1..Len(calls)
  PROVE  calls[j].msg \in Messages /\ calls[j].msg \in Sent
<1>1. calls[j] \in CallsType
  BY TypeIs, ElementOfSeq
<1> QED
  BY <1>1, MessagesAreSent DEF CallsType

\* A step that moves no text and records nothing, except that it may lose what
\* a server that stops has not read.
LEMMA QuietStep ==
  ASSUME SessionInv, TypeInv', UNCHANGED <<down, broken, calls, received, answers, sMsg>>,
         cpc' = "wait" <=> cpc = "wait",
         Open' => Open /\ up' = up,
         Open' /\ spc \in {"new", "read"} => spc' \in {"new", "read"},
         spc = "read" /\ Open' => spc' = "read",
         Open' => (Serving' <=> Serving),
         spc' = "crashed" => spc = "crashed" \/ ~PlainUpTo(Len(calls))
  PROVE  SessionInv'
<1> USE PartsOfInv
<1>1. Serving' => Open'
  BY DEF Serving, Open
<1>2. \A k : PlainUpTo(k)' <=> PlainUpTo(k)
  BY DEF PlainUpTo
<1>3. ServedInv'
  BY <1>1 DEF ServedInv
<1>4. UpInv'
  BY <1>2 DEF UpInv
<1>5. DownInv'
  BY <1>2 DEF DownInv, Verdicts
<1>6. StepInv'
  <2> SUFFICES ASSUME ~broken', Open', PlainUpTo(Len(calls))'
               PROVE  BetweenCalls' \/ CallOnItsWay' \/ CallServed' \/ CallAnswered'
    BY DEF StepInv
  <2>1. BetweenCalls \/ CallOnItsWay \/ CallServed \/ CallAnswered
    BY <1>2 DEF StepInv
  <2>2. BetweenCalls => BetweenCalls'
    BY DEF BetweenCalls
  <2>3. CallOnItsWay => CallOnItsWay'
    BY DEF CallOnItsWay
  <2>4. CallServed => CallServed'
    BY DEF CallServed
  <2>5. CallAnswered => CallAnswered'
    BY DEF CallAnswered
  <2> QED
    BY <2>1, <2>2, <2>3, <2>4, <2>5
<1>7. AheadInv'
  BY <1>2 DEF AheadInv
<1>8. PlainDelivery'
  BY <1>2 DEF PlainDelivery
<1>9. PlainIsServed'
  BY <1>2 DEF PlainIsServed
<1>10. OwnCode'
  BY <1>2 DEF OwnCode, Verdicts
<1> QED
  BY <1>3, <1>4, <1>5, <1>6, <1>7, <1>8, <1>9, <1>10 DEF SessionInv

\* What is left of a prefix is a prefix.
LEMMA PrefixOfPrefix ==
  ASSUME NEW S, NEW s \in Seq(S), NEW p \in Prefixes(s), NEW q \in Prefixes(p)
  PROVE  q \in Prefixes(s)
<1>1. PICK n \in 0..Len(s) : p = SubSeq(s, 1, n) /\ Len(p) = n
  BY PrefixIs
<1>2. p \in Seq(S) /\ Len(s) \in Nat
  BY PrefixIs, LenProperties
<1>3. PICK k \in 0..Len(p) : q = SubSeq(p, 1, k) /\ Len(q) = k /\ q \in Seq(S)
  BY <1>2, PrefixIs
<1>4. k \in 0..Len(s) /\ k <= n /\ n <= Len(s) /\ n \in Nat
  BY <1>1, <1>2, <1>3
<1> DEFINE r == SubSeq(s, 1, k)
<1>5. /\ r \in Seq(S) /\ Len(r) = IF 1 <= k THEN k - 1 + 1 ELSE 0
      /\ \A i \in 1..(k - 1 + 1) : r[i] = s[1 + i - 1]
  <2>1. 1 \in Int /\ k \in Int /\ \A i \in 1..k : s[i] \in S
    BY <1>2, <1>4, ElementOfSeq
  <2> QED
    BY <2>1, SubSeqProperties
<1>6. \A i \in 1..(n - 1 + 1) : p[i] = s[1 + i - 1]
  <2>1. 1 \in Int /\ n \in Int /\ \A i \in 1..n : s[i] \in S
    BY <1>2, <1>4, ElementOfSeq
  <2> QED
    BY <1>1, <2>1, SubSeqProperties
<1>7. \A i \in 1..(k - 1 + 1) : q[i] = p[1 + i - 1]
  <2>1. 1 \in Int /\ k \in Int /\ \A i \in 1..k : p[i] \in S
    BY <1>1, <1>2, <1>4, ElementOfSeq
  <2> QED
    BY <1>3, <2>1, SubSeqProperties
<1> HIDE DEF r
<1>8. Len(q) = Len(r) /\ \A i \in 1..Len(q) : q[i] = r[i]
  <2>1. k \in Nat /\ n \in Nat /\ k <= n
    BY <1>4
  <2>2. Len(q) = k /\ Len(r) = k
    BY <1>3, <1>5, <2>1
  <2>3. \A i \in 1..k : q[i] = r[i]
    <3> TAKE i \in 1..k
    <3>1. i \in 1..(n - 1 + 1) /\ i \in 1..(k - 1 + 1) /\ 1 + i - 1 = i
      BY <2>1
    <3> QED
      BY <3>1, <1>5, <1>6, <1>7
  <2> QED
    BY <2>2, <2>3
<1>9. q = r
  BY <1>3, <1>5, <1>8, SeqEqual
<1> QED
  BY <1>4, <1>9 DEF Prefixes, r

LEMMA NoPrefix ==
  ASSUME NEW p \in Prefixes(<<>>)
  PROVE  p = <<>>
<1>1. PICK n \in 0..Len(<<>>) : p = SubSeq(<<>>, 1, n)
  BY DEF Prefixes
<1>2. n = 0
  OBVIOUS
<1>3. SubSeq(<<>>, 1, 0) = <<>>
  BY SubSeqEmpty
<1> QED
  BY <1>1, <1>2, <1>3

\* The connection breaks: what is left of a text is a part of it.
LEMMA BreakStep ==
  ASSUME SessionInv, TypeInv', Break
  PROVE  SessionInv'
<1> USE PartsOfInv
<1>1. /\ broken' /\ up' \in Prefixes(up) /\ down' \in Prefixes(down)
      /\ UNCHANGED <<cpc, calls, spc, sMsg, handlers, received, answers>>
  BY DEF Break, clientVars, serverVars
<1>2. \A k : PlainUpTo(k)' <=> PlainUpTo(k)
  BY <1>1 DEF PlainUpTo
<1>3. ServedInv'
  BY <1>1 DEF ServedInv, Serving
<1>4. UpInv'
  <2> DEFINE n == Len(received)
  <2> SUFFICES ASSUME Open, PlainUpTo(n + 1)
               PROVE  \/ up' = <<>>
                      \/ /\ n < Len(calls)
                         /\ up' \in Prefixes(Serialize(calls[n + 1].msg))
    BY <1>1, <1>2 DEF UpInv, Open
  <2>1. CASE up = <<>>
    BY <1>1, <2>1, NoPrefix
  <2>2. CASE n < Len(calls) /\ up \in Prefixes(Serialize(calls[n + 1].msg))
    <3>1. n + 1 \in 1..Len(calls)
      BY <2>2, TypeIs
    <3>2. Serialize(calls[n + 1].msg) \in Seq(Tokens)
      BY <3>1, CallMessage, MessagesAreSent DEF Text
    <3> QED
      BY <1>1, <2>2, <3>2, PrefixOfPrefix
  <2> QED
    BY <2>1, <2>2 DEF UpInv
<1>5. DownInv'
  <2> DEFINE c == Len(calls)
             r == SerializeResponse(answers[c].code)
  <2> SUFFICES ASSUME PlainUpTo(c), down # <<>>
               PROVE  down' \in Prefixes(r)
    BY <1>1, <1>2, NoPrefix DEF DownInv, Verdicts
  <2>1. down \in Prefixes(r) /\ c <= Len(answers) /\ cpc = "wait"
    BY DEF DownInv
  <2>2. c \in 1..Len(answers)
    BY <2>1, TypeIs DEF WaitInv
  <2>3. answers[c].code \in Codes
    <3>1. answers[c] \in AnswersType
      BY <2>2, TypeIs, ElementOfSeq
    <3> QED
      BY <3>1 DEF AnswersType
  <2>4. r \in Seq(RespTokens)
    BY <2>3, CodesAre
  <2> QED
    BY <1>1, <2>1, <2>4, PrefixOfPrefix
<1>6. StepInv' /\ AheadInv'
  BY <1>1 DEF StepInv, AheadInv
<1>7. PlainDelivery'
  BY <1>1, <1>2 DEF PlainDelivery
<1>8. PlainIsServed'
  BY <1>1, <1>2 DEF PlainIsServed
<1>9. OwnCode'
  BY <1>1, <1>2 DEF OwnCode, Verdicts
<1> QED
  BY <1>3, <1>4, <1>5, <1>6, <1>7, <1>8, <1>9 DEF SessionInv

\* A call starts: its text is written, or the part that fit before the write
\* failed.
LEMMA StartStep ==
  ASSUME SessionInv, TypeInv', NEW m \in Messages, NEW out \in {"pending", "write"},
         StartCall(m, out), NEW part \in Prefixes(Serialize(m)), up' = Written(up, part),
         out = "pending" => part = Serialize(m) /\ cpc' = "wait" /\ broken' = broken,
         out = "write" => broken' = TRUE,
         UNCHANGED <<down, serverVars>>
  PROVE  SessionInv'
<1> USE PartsOfInv
<1> DEFINE c == Len(calls)
           n == Len(received)
           a == Len(answers)
<1>1. /\ calls' \in Seq(CallsType) /\ Len(calls') = c + 1 /\ DOMAIN calls' = 1..(c + 1)
      /\ \A i \in 1..c : calls'[i] = calls[i]
      /\ calls'[c + 1] = [msg |-> m, out |-> out, code |-> <<>>]
      /\ c \in Nat /\ n \in Nat /\ a \in Nat
      /\ DOMAIN calls = 1..c /\ DOMAIN received = 1..n /\ DOMAIN answers = 1..a
  BY StartTypes, LenProperties, TypeIs DEF Outcomes
<1>2. /\ cpc = "idle" /\ Serialize(m) \in Seq(Tokens) /\ part \in Seq(Tokens)
      /\ UNCHANGED <<spc, sMsg, handlers, received, answers>>
  BY MessagesAreSent, PrefixIs DEF StartCall, Text, serverVars
<1> HIDE DEF c, n, a
<1>3. /\ \A k \in Int : PlainCalls(calls', k) => PlainUpTo(k)
      /\ PlainCalls(calls', c + 1) => PlainUpTo(c) /\ PlainCalls(calls', n + 1)
  <2>1. \A k \in Int : PlainCalls(calls', k) => PlainUpTo(k)
    BY <1>1 DEF PlainUpTo, PlainCalls
  <2>2. PlainCalls(calls', c + 1) => PlainCalls(calls', n + 1)
    BY <1>1 DEF PlainCalls
  <2>3. PlainCalls(calls', c + 1) => PlainUpTo(c)
    BY <1>1 DEF PlainCalls, PlainUpTo
  <2> QED
    BY <2>1, <2>2, <2>3
<1>4. ASSUME ~broken, Open, PlainCalls(calls', n + 1)
      PROVE  /\ n = c /\ a = c /\ up = <<>> /\ down = <<>> /\ spc \in {"new", "read"}
  <2>1. PlainUpTo(n + 1) /\ c <= n + 1
    BY <1>1, <1>3, <1>4 DEF AheadInv, n, c
  <2>2. PlainUpTo(c)
    <3>1. n + 1 \in Int /\ c \in Int
      BY <1>1
    <3> QED
      BY <2>1, <3>1, PlainDown DEF c
  <2>3. BetweenCalls
    BY <1>2, <1>4, <2>2 DEF StepInv, c, CallOnItsWay, CallServed, CallAnswered
  <2>4. n = c /\ a = c /\ down = <<>> /\ spc \in {"new", "read"}
    BY <2>3 DEF BetweenCalls, n, c, a
  <2>5. up = <<>>
    BY <1>1, <1>4, <2>1, <2>4 DEF UpInv, n, c
  <2> QED
    BY <2>4, <2>5
<1>5. /\ Len(received)' = n /\ Len(answers)' = a /\ Len(calls)' = c + 1
      /\ Open' = Open /\ Serving' = Serving
  BY <1>1, <1>2 DEF PlainUpTo, PlainCalls, n, a, Open, Serving
<1>6. ServedInv'
  BY <1>2 DEF ServedInv, Serving
<1>7. UpInv'
  <2> SUFFICES ASSUME Open, PlainCalls(calls', n + 1)
               PROVE  \/ up' = <<>>
                      \/ /\ n < c + 1
                         /\ up' \in Prefixes(Serialize(calls'[n + 1].msg))
                         /\ broken' \/ up' = Serialize(calls'[n + 1].msg)
    BY <1>2, <1>5 DEF UpInv, PlainUpTo, PlainCalls
  <2>1. CASE broken
    <3>1. up' = up /\ broken'
      BY <2>1 DEF Written
    <3>2. CASE up = <<>>
      BY <3>1, <3>2
    <3>3. CASE up # <<>>
      <4>1. n < c /\ up \in Prefixes(Serialize(calls[n + 1].msg))
        BY <1>1, <1>3, <3>3 DEF UpInv, n, c
      <4>2. n + 1 \in 1..c /\ n < c + 1
        BY <1>1, <4>1
      <4> QED
        BY <1>1, <3>1, <4>1, <4>2
    <3> QED
      BY <3>2, <3>3
  <2>2. CASE ~broken
    <3>1. n = c /\ up = <<>>
      BY <1>4, <2>2
    <3>2. up' = part
      BY <1>2, <2>2, <3>1, ConcatEmptySeq DEF Written
    <3>3. n < c + 1 /\ calls'[n + 1].msg = m
      BY <1>1, <3>1
    <3>4. broken' \/ part = Serialize(m)
      OBVIOUS
    <3> QED
      BY <3>2, <3>3, <3>4
  <2> QED
    BY <2>1, <2>2
<1>8. DownInv'
  <2> SUFFICES ASSUME PlainCalls(calls', c + 1) PROVE down' = <<>>
    BY <1>5 DEF DownInv, PlainUpTo, PlainCalls
  <2>1. PlainUpTo(c)
    BY <1>3
  <2> QED
    BY <1>2, <2>1 DEF DownInv, c
<1>9. StepInv'
  <2> SUFFICES ASSUME ~broken', Open, PlainCalls(calls', c + 1) PROVE CallOnItsWay'
    BY <1>5 DEF StepInv, PlainUpTo, PlainCalls
  <2>1. out = "pending" /\ ~broken /\ part = Serialize(m) /\ cpc' = "wait"
    OBVIOUS
  <2>2. n = c /\ a = c /\ up = <<>> /\ down = <<>> /\ spc \in {"new", "read"}
    BY <1>3, <1>4, <2>1
  <2>3. up' = Serialize(m)
    BY <1>2, <2>1, <2>2, ConcatEmptySeq DEF Written
  <2>4. calls'[c + 1].msg = m /\ n = (c + 1) - 1 /\ a = (c + 1) - 1
    BY <1>1, <2>2
  <2> QED
    BY <1>2, <1>5, <2>1, <2>2, <2>3, <2>4 DEF CallOnItsWay
<1>10. AheadInv'
  <2> SUFFICES ASSUME ~broken', Open, PlainCalls(calls', n + 1) PROVE c + 1 <= n + 1
    BY <1>2, <1>5 DEF AheadInv, PlainUpTo, PlainCalls
  <2>1. ~broken
    OBVIOUS
  <2> QED
    BY <1>1, <1>4, <2>1
<1>11. PlainDelivery'
  <2> SUFFICES ASSUME NEW i \in 1..n, PlainCalls(calls', i)
               PROVE  i \in 1..(c + 1) /\ received[i] = calls'[i].msg
    BY <1>1, <1>2 DEF PlainDelivery, PlainUpTo, PlainCalls
  <2>1. i \in 1..c /\ received[i] = calls[i].msg
    BY <1>1, <1>3 DEF PlainDelivery
  <2> QED
    BY <1>1, <2>1
<1>12. PlainIsServed'
  <2> SUFFICES ASSUME PlainCalls(calls', c + 1)
               PROVE  /\ spc # "crashed"
                      /\ (\E i \in DOMAIN answers : answers[i].why = "malformed") => broken'
    BY <1>2, <1>5 DEF PlainIsServed, PlainUpTo, PlainCalls
  <2>1. PlainUpTo(c) /\ (broken => broken')
    BY <1>3
  <2> QED
    BY <2>1 DEF PlainIsServed, c
<1>13. OwnCode'
  <2> SUFFICES ASSUME NEW k \in 1..(c + 1), calls'[k].out = "code", PlainCalls(calls', k)
               PROVE  /\ k \in DOMAIN answers /\ answers[k].to = k
                      /\ answers[k].why = "handler"
                           => answers[k].code \in Verdicts(calls'[k].msg)
                      /\ \/ calls'[k].code = answers[k].code
                         \/ broken' /\ IsStrictPrefix(calls'[k].code, answers[k].code)
    BY <1>1, <1>2 DEF OwnCode, PlainUpTo, PlainCalls, Verdicts
  <2>1. k # c + 1
    BY <1>1
  <2>2. k \in 1..c /\ calls'[k] = calls[k]
    BY <1>1, <2>1
  <2>3. PlainUpTo(k) /\ (broken => broken')
    BY <1>3, <2>2
  <2> QED
    BY <1>1, <2>2, <2>3 DEF OwnCode
<1> QED
  BY <1>6, <1>7, <1>8, <1>9, <1>10, <1>11, <1>12, <1>13 DEF SessionInv

\* A call ends: nothing more is on the way to the client, and a code it returns
\* is the answer to it.
LEMMA EndStep ==
  ASSUME SessionInv, TypeInv', cpc = "wait", NEW out \in Outcomes, NEW code \in Seq(Digits),
         EndCall(out, code), UNCHANGED <<up, broken, serverVars>>,
         PlainUpTo(Len(calls)) => down' = <<>>,
         ~broken /\ Open /\ PlainUpTo(Len(calls)) => CallAnswered,
         out = "code" /\ PlainUpTo(Len(calls)) =>
           LET c == Len(calls)
           IN /\ c \in DOMAIN answers /\ answers[c].to = c
              /\ answers[c].why = "handler" => answers[c].code \in Verdicts(calls[c].msg)
              /\ code = answers[c].code \/ (broken /\ IsStrictPrefix(code, answers[c].code))
  PROVE  SessionInv'
<1> USE PartsOfInv
<1> DEFINE c == Len(calls)
           n == Len(received)
           a == Len(answers)
<1>1. /\ Len(calls') = c /\ DOMAIN calls' = 1..c /\ cpc' = "idle"
      /\ \A i \in 1..(c - 1) : calls'[i] = calls[i]
      /\ \A i \in 1..c : calls'[i].msg = calls[i].msg
      /\ calls'[c].out = out /\ calls'[c].code = code
      /\ c \in Nat /\ n \in Nat /\ a \in Nat
      /\ DOMAIN calls = 1..c /\ DOMAIN received = 1..n /\ DOMAIN answers = 1..a
  <2>1. /\ calls' \in Seq(CallsType) /\ Len(calls') = c /\ cpc' = "idle"
        /\ \A i \in 1..(c - 1) : calls'[i] = calls[i]
        /\ \A i \in 1..c : calls'[i].msg = calls[i].msg
        /\ calls'[c].out = out /\ calls'[c].code = code
    BY EndTypes
  <2> QED
    BY <2>1, LenProperties, TypeIs
<1>2. UNCHANGED <<spc, sMsg, handlers, received, answers>>
  BY DEF serverVars
<1>3. /\ PlainUpTo(c) => down' = <<>>
      /\ ~broken /\ Open /\ PlainUpTo(c) => CallAnswered
      /\ out = "code" /\ PlainUpTo(c) =>
           /\ c \in DOMAIN answers /\ answers[c].to = c
           /\ answers[c].why = "handler" => answers[c].code \in Verdicts(calls[c].msg)
           /\ code = answers[c].code \/ (broken /\ IsStrictPrefix(code, answers[c].code))
  OBVIOUS
<1> HIDE DEF c, n, a
<1>4. \A k \in Int : PlainCalls(calls', k) <=> PlainUpTo(k)
  BY <1>1 DEF PlainCalls, PlainUpTo
<1>5. /\ Len(received)' = n /\ Len(answers)' = a /\ Len(calls)' = c
      /\ Open' = Open /\ Serving' = Serving
  BY <1>1, <1>2 DEF n, a, Open, Serving
<1>6. ServedInv'
  BY <1>2 DEF ServedInv, Serving
<1>7. UpInv'
  <2> SUFFICES ASSUME Open, PlainCalls(calls', n + 1)
               PROVE  \/ up = <<>>
                      \/ /\ n < c
                         /\ up \in Prefixes(Serialize(calls'[n + 1].msg))
                         /\ broken \/ up = Serialize(calls'[n + 1].msg)
    BY <1>2, <1>5 DEF UpInv, PlainUpTo, PlainCalls
  <2>1. PlainUpTo(n + 1)
    BY <1>1, <1>4
  <2>2. n < c => calls'[n + 1].msg = calls[n + 1].msg
    BY <1>1
  <2> QED
    BY <2>1, <2>2 DEF UpInv, n, c
<1>8. DownInv'
  <2> SUFFICES ASSUME PlainCalls(calls', c) PROVE down' = <<>>
    BY <1>5 DEF DownInv, PlainUpTo, PlainCalls
  <2> QED
    BY <1>1, <1>3, <1>4
<1>9. StepInv'
  <2> SUFFICES ASSUME ~broken, Open, PlainCalls(calls', c) PROVE BetweenCalls'
    BY <1>5 DEF StepInv, PlainUpTo, PlainCalls
  <2>1. CallAnswered /\ down' = <<>>
    BY <1>1, <1>3, <1>4
  <2> QED
    BY <1>1, <1>2, <1>5, <2>1 DEF CallAnswered, BetweenCalls, n, a, c
<1>10. AheadInv'
  <2> SUFFICES ASSUME ~broken, Open, PlainCalls(calls', n + 1) PROVE c <= n + 1
    BY <1>2, <1>5 DEF AheadInv, PlainUpTo, PlainCalls
  <2>1. PlainUpTo(n + 1)
    BY <1>1, <1>4
  <2> QED
    BY <2>1 DEF AheadInv, n, c
<1>11. PlainDelivery'
  <2> SUFFICES ASSUME NEW i \in 1..n, PlainCalls(calls', i)
               PROVE  i \in 1..c /\ received[i] = calls'[i].msg
    BY <1>1, <1>2 DEF PlainDelivery, PlainUpTo, PlainCalls
  <2>1. i \in 1..c /\ received[i] = calls[i].msg
    BY <1>1, <1>4 DEF PlainDelivery
  <2> QED
    BY <1>1, <2>1
<1>12. PlainIsServed'
  <2> SUFFICES ASSUME PlainCalls(calls', c)
               PROVE  /\ spc # "crashed"
                      /\ (\E i \in DOMAIN answers : answers[i].why = "malformed") => broken
    BY <1>2, <1>5 DEF PlainIsServed, PlainUpTo, PlainCalls
  <2>1. PlainUpTo(c)
    BY <1>1, <1>4
  <2> QED
    BY <2>1 DEF PlainIsServed, c
<1>13. OwnCode'
  <2> SUFFICES ASSUME NEW k \in 1..c, calls'[k].out = "code", PlainCalls(calls', k)
               PROVE  /\ k \in DOMAIN answers /\ answers[k].to = k
                      /\ answers[k].why = "handler"
                           => answers[k].code \in Verdicts(calls'[k].msg)
                      /\ \/ calls'[k].code = answers[k].code
                         \/ broken /\ IsStrictPrefix(calls'[k].code, answers[k].code)
    BY <1>1, <1>2 DEF OwnCode, PlainUpTo, PlainCalls, Verdicts
  <2>1. PlainUpTo(k)
    BY <1>1, <1>4
  <2>2. CASE k = c
    BY <1>1, <1>3, <2>1, <2>2
  <2>3. CASE k # c
    <3>1. k \in 1..(c - 1) /\ calls'[k] = calls[k]
      BY <1>1, <2>3
    <3> QED
      BY <1>1, <2>1, <3>1 DEF OwnCode
  <2> QED
    BY <2>2, <2>3
<1> QED
  BY <1>6, <1>7, <1>8, <1>9, <1>10, <1>11, <1>12, <1>13 DEF SessionInv

\* What is on the way to the client when all calls are plain: it reads it to
\* the end, and nothing while the connection holds and there is nothing.
LEMMA PlainResponse ==
  ASSUME SessionInv, cpc = "wait", PlainUpTo(Len(calls)),
         NEW read \in Receive(down, broken \/ ServerGone)
  PROVE  LET c == Len(calls)
         IN /\ read.rest = <<>> /\ read.text = down
            /\ down = <<>> => broken \/ ServerGone
            /\ down # <<>> =>
                 /\ c \in DOMAIN answers /\ answers[c].to = c
                 /\ answers[c].why = "handler" => answers[c].code \in Verdicts(calls[c].msg)
                 /\ \A code \in Seq(Digits) :
                      ParseResponse(down) = [went |-> "code", code |-> code] =>
                        \/ code = answers[c].code
                        \/ broken /\ IsStrictPrefix(code, answers[c].code)
<1> USE PartsOfInv
<1> DEFINE c == Len(calls)
           r == SerializeResponse(answers[c].code)
           over == broken \/ ServerGone
<1>1. "nl" \in RespTokens /\ down \in Seq(RespTokens)
  BY TypeIs DEF RespTokens
<1>2. ReceiveEnd(down) = Len(down) \/ ReceiveEnd(down) = None =>
        read.text = down /\ read.rest = <<>> /\ (ReceiveEnd(down) = None => over)
  <2> SUFFICES ASSUME ReceiveEnd(down) = Len(down) \/ ReceiveEnd(down) = None
               PROVE  read.text = down /\ read.rest = <<>> /\ (ReceiveEnd(down) = None => over)
    OBVIOUS
  <2>1. PICK gone \in {over} : read \in Receive(down, gone)
    OBVIOUS
  <2>2. /\ read.text = down /\ read.rest = <<>>
        /\ ReceiveEnd(down) = None => gone \in {TRUE}
    BY <1>1, <2>1, ReceiveAll
  <2> QED
    BY <2>1, <2>2
<1>3. CASE down = <<>>
  <2>1. ReceiveEnd(down) = None
    <3>1. Blank \in Seq(RespTokens) /\ Len(Blank) = 2
      BY <1>1 DEF Blank
    <3>2. \A k \in Nat : ~Occurs(Blank, down, k)
      BY <1>3, <3>1 DEF Occurs
    <3>3. Index(Blank, down) = None
      BY <1>1, <3>1, <3>2, IndexNone
    <3> QED
      BY <3>3 DEF ReceiveEnd
  <2> QED
    BY <1>2, <1>3, <2>1
<1>4. CASE down # <<>>
  <2>1. /\ c <= Len(answers) /\ answers[c].to = c
        /\ answers[c].why = "handler" => answers[c].code \in Verdicts(calls[c].msg)
        /\ down \in Prefixes(r)
        /\ broken \/ down = r
    BY <1>4 DEF DownInv
  <2>2. c \in DOMAIN answers
    BY <2>1, TypeIs DEF WaitInv
  <2>3. answers[c].code \in Seq(Digits)
    <3>1. answers[c] \in AnswersType
      BY <2>2, TypeIs, ElementOfSeq
    <3> QED
      BY <3>1, CodesAre DEF AnswersType
  <2>4. r \in Seq(RespTokens)
    BY <2>3, ResponseLayout
  <2>5. PICK k \in 0..Len(r) : down = SubSeq(r, 1, k) /\ Len(down) = k
    BY <2>1, <2>4, PrefixIs
  <2>6. /\ ReceiveEnd(r) = Len(r)
        /\ k < Len(r) => ReceiveEnd(down) = None
        /\ \/ ParseResponse(down) = Invalid
           \/ \E x \in Seq(Digits) :
                /\ ParseResponse(down) = [went |-> "code", code |-> x]
                /\ IsPrefix(x, answers[c].code)
                /\ k = Len(r) => x = answers[c].code
    BY <2>3, <2>5, ResponsePart
  <2>7. k = Len(r) => down = r
    BY <2>4, <2>5, SubSeqFull
  <2>8. down = r => k = Len(r)
    BY <2>5
  <2>9. Len(r) \in Nat
    BY <2>4, LenProperties
  <2> HIDE DEF r
  <2>10. ReceiveEnd(down) = Len(down) \/ ReceiveEnd(down) = None
    <3>1. CASE k = Len(r)
      BY <2>6, <2>7, <3>1
    <3>2. CASE k < Len(r)
      BY <2>6, <3>2
    <3> QED
      BY <2>9, <3>1, <3>2
  <2>11. ASSUME NEW code \in Seq(Digits),
                ParseResponse(down) = [went |-> "code", code |-> code]
         PROVE  \/ code = answers[c].code
                \/ broken /\ IsStrictPrefix(code, answers[c].code)
    <3>1. ParseResponse(down) # Invalid
      BY <2>11 DEF Invalid
    <3>2. IsPrefix(code, answers[c].code) /\ (k = Len(r) => code = answers[c].code)
      <4>1. PICK x \in Seq(Digits) :
              /\ ParseResponse(down) = [went |-> "code", code |-> x]
              /\ IsPrefix(x, answers[c].code)
              /\ k = Len(r) => x = answers[c].code
        BY <2>6, <3>1
      <4>2. x = code
        <5> DEFINE e == [went |-> "code", code |-> x]
                   d == [went |-> "code", code |-> code]
        <5>1. e = d /\ e.code = x /\ d.code = code
          BY <2>11, <4>1
        <5> HIDE DEF e, d
        <5> QED
          BY <5>1
      <4> QED
        BY <4>1, <4>2
    <3> QED
      BY <2>1, <2>8, <3>2 DEF IsStrictPrefix
  <2> HIDE DEF c
  <2>12. read.rest = <<>> /\ read.text = down
    BY <1>2, <2>10
  <2> QED
    BY <1>4, <2>1, <2>2, <2>11, <2>12 DEF c
<1> QED
  BY <1>3, <1>4

\* The client reads the response to the call that waits, or is told that none
\* comes.
LEMMA ClientReceivesStep ==
  ASSUME SessionInv, TypeInv', ClientReceives
  PROVE  SessionInv'
<1> USE PartsOfInv
<1> DEFINE c == Len(calls)
<1>1. PICK read \in Receive(down, broken \/ ServerGone), out \in Outcomes,
           code \in Seq(Digits) :
        /\ cpc = "wait" /\ EndCall(out, code) /\ down' = read.rest
        /\ out = "code" =>
             /\ read.text # <<>>
             /\ ParseResponse(read.text) = [went |-> "code", code |-> code]
  BY ClientReads1
<1>2. UNCHANGED <<up, broken, serverVars>>
  BY DEF ClientReceives
<1>3. ASSUME PlainUpTo(c)
      PROVE  /\ read.rest = <<>> /\ read.text = down
             /\ down = <<>> => broken \/ ServerGone
             /\ down # <<>> =>
                  /\ c \in DOMAIN answers /\ answers[c].to = c
                  /\ answers[c].why = "handler" =>
                       answers[c].code \in Verdicts(calls[c].msg)
                  /\ ParseResponse(down) = [went |-> "code", code |-> code] =>
                       \/ code = answers[c].code
                       \/ broken /\ IsStrictPrefix(code, answers[c].code)
  BY <1>1, <1>3, PlainResponse
<1>4. PlainUpTo(c) => down' = <<>>
  BY <1>1, <1>3
<1>5. ~broken /\ Open /\ PlainUpTo(c) => CallAnswered
  <2> SUFFICES ASSUME ~broken, Open, PlainUpTo(c) PROVE CallAnswered
    OBVIOUS
  <2>1. down # <<>>
    BY <1>3 DEF Open, ServerGone
  <2>2. BetweenCalls \/ CallOnItsWay \/ CallServed \/ CallAnswered
    BY DEF StepInv
  <2> QED
    BY <2>1, <2>2 DEF BetweenCalls, CallOnItsWay, CallServed
<1>6. out = "code" /\ PlainUpTo(c) =>
        /\ c \in DOMAIN answers /\ answers[c].to = c
        /\ answers[c].why = "handler" => answers[c].code \in Verdicts(calls[c].msg)
        /\ code = answers[c].code \/ (broken /\ IsStrictPrefix(code, answers[c].code))
  <2> SUFFICES ASSUME out = "code", PlainUpTo(c)
               PROVE  /\ c \in DOMAIN answers /\ answers[c].to = c
                      /\ answers[c].why = "handler" =>
                           answers[c].code \in Verdicts(calls[c].msg)
                      /\ \/ code = answers[c].code
                         \/ broken /\ IsStrictPrefix(code, answers[c].code)
    OBVIOUS
  <2>1. down # <<>> /\ ParseResponse(down) = [went |-> "code", code |-> code]
    BY <1>1, <1>3
  <2> QED
    BY <1>3, <2>1
<1> QED
  BY <1>1, <1>2, <1>4, <1>5, <1>6, EndStep

\* The connection failed under the client's read.
LEMMA ClientReadFailsStep ==
  ASSUME SessionInv, TypeInv', ClientReadFails
  PROVE  SessionInv'
<1>1. /\ cpc = "wait" /\ broken /\ down' = <<>> /\ EndCall("read", <<>>)
      /\ UNCHANGED <<up, broken, serverVars>>
  BY DEF ClientReadFails
<1>2. "read" \in Outcomes /\ <<>> \in Seq(Digits)
  BY DEF Outcomes
<1> QED
  BY <1>1, <1>2, EndStep

\* What the server reads when all calls up to the next one are plain: that
\* call's message, a part of it, or nothing.
LEMMA PlainReads ==
  ASSUME SessionInv, Open, PlainUpTo(Len(received) + 1),
         NEW read \in Receive(up, broken \/ cpc = "closed")
  PROVE  LET n == Len(received)
             parsed == Deserialize(read.text)
         IN /\ read.rest = <<>> /\ read.text = up
            /\ \/ up = <<>> /\ parsed = Invalid
               \/ broken /\ parsed = Invalid
               \/ /\ n < Len(calls) /\ up = Serialize(calls[n + 1].msg)
                  /\ parsed.went = "message" /\ parsed.msg = calls[n + 1].msg
                  /\ parsed # Invalid /\ parsed # Panic
<1> USE PartsOfInv
<1> DEFINE n == Len(received)
           c == Len(calls)
           m == calls[n + 1].msg
           t == Serialize(m)
           over == broken \/ cpc = "closed"
<1>1. up \in Seq(Tokens) /\ n \in Nat /\ c \in Nat
  BY TypeIs DEF Text
<1>2. ReceiveEnd(up) = Len(up) \/ ReceiveEnd(up) = None =>
        read.text = up /\ read.rest = <<>>
  <2> SUFFICES ASSUME ReceiveEnd(up) = Len(up) \/ ReceiveEnd(up) = None
               PROVE  read.text = up /\ read.rest = <<>>
    OBVIOUS
  <2>1. PICK gone \in {over} : read \in Receive(up, gone)
    OBVIOUS
  <2> QED
    BY <1>1, <2>1, ReceiveAll
<1>3. CASE up = <<>>
  <2>1. {"tab", "nl"} \subseteq Tokens
    BY DEF Tokens, Chars
  <2>2. Blank \in Seq(Tokens) /\ Len(Blank) = 2 /\ Tabs \in Seq(Tokens) /\ Len(Tabs) = 2
    BY <2>1 DEF Blank, Tabs
  <2>3. \A k \in Nat : ~Occurs(Blank, up, k) /\ ~Occurs(Tabs, up, k)
    BY <1>3, <2>2 DEF Occurs
  <2>4. Index(Blank, up) = None /\ Index(Tabs, up) = None
    BY <1>1, <2>2, <2>3, IndexNone
  <2>5. ReceiveEnd(up) = None /\ Deserialize(up) = Invalid
    BY <2>4 DEF ReceiveEnd, Deserialize
  <2> QED
    BY <1>2, <1>3, <2>5
<1>4. CASE up # <<>>
  <2>1. n < c /\ up \in Prefixes(t) /\ (broken \/ up = t)
    BY <1>4 DEF UpInv
  <2>2. n + 1 \in 1..c
    BY <1>1, <2>1
  <2>3. m \in Sent
    BY <2>2, CallMessage
  <2>4. Plain(m)
    <3>1. n + 1 \in Int /\ n + 1 <= n + 1
      BY <1>1
    <3> QED
      BY <2>2, <3>1, PlainDown
  <2>5. t \in Seq(Tokens) /\ Len(t) \in Nat
    BY <2>3, SerializeIs, LenProperties DEF Text
  <2>6. ReceiveEnd(t) = Len(t)
    BY <2>3, <2>4, MarksFound
  <2>7. /\ Deserialize(t).went = "message" /\ Deserialize(t).msg = m
        /\ Deserialize(t) # Invalid /\ Deserialize(t) # Panic
    BY <2>3, <2>4, PlainRoundTrip
  <2>8. CASE up = t
    BY <1>2, <2>1, <2>6, <2>7, <2>8
  <2>9. CASE up # t
    <3>1. PICK k \in 0..Len(t) : up = SubSeq(t, 1, k)
      BY <2>1, <2>5, PrefixIs
    <3>2. k \in Nat /\ k < Len(t)
      <4>1. k # Len(t)
        BY <2>5, <2>9, <3>1, SubSeqFull
      <4> QED
        BY <2>5, <4>1
    <3>3. ReceiveEnd(up) = None /\ Deserialize(up) = Invalid
      BY <2>3, <2>4, <3>1, <3>2, PlainCut
    <3> QED
      BY <1>2, <2>1, <2>9, <3>3
  <2> QED
    BY <2>8, <2>9
<1> QED
  BY <1>3, <1>4

\* The server responds, and reads on or stops.
LEMMA RespondStep ==
  ASSUME SessionInv, TypeInv', NEW code \in Codes, NEW why \in Reasons, Respond(code, why),
         UNCHANGED <<broken, cpc, calls, received>>,
         spc' \in {"read", "closed"}, Open' => Serving /\ up' = up,
         ~broken /\ PlainUpTo(Len(calls)) => Serving /\ why # "malformed",
         why = "handler" => Serving /\ code \in Verdicts(sMsg)
  PROVE  SessionInv'
<1> USE PartsOfInv
<1> DEFINE c == Len(calls)
           n == Len(received)
           a == Len(answers)
<1>1. /\ c \in Nat /\ n \in Nat /\ a \in Nat
      /\ DOMAIN calls = 1..c /\ DOMAIN received = 1..n /\ DOMAIN answers = 1..a
  BY TypeIs
<1>2. /\ Len(answers') = a + 1 /\ DOMAIN answers' = 1..(a + 1)
      /\ \A i \in 1..a : answers'[i] = answers[i]
      /\ answers'[a + 1] = [code |-> code, why |-> why, to |-> n]
  BY RespondTypes, LenProperties
<1>3. down' = IF broken THEN down ELSE down \o SerializeResponse(code)
  BY DEF Respond, Written
<1>4. \A k : PlainUpTo(k)' <=> PlainUpTo(k)
  BY DEF PlainUpTo
<1>5. ~Serving' /\ (Open' => spc' = "read") /\ spc' # "crashed"
  BY DEF Serving, Open
<1>6. Serving => Open
  BY DEF Serving, Open
<1>7. ASSUME ~broken, PlainUpTo(c)
      PROVE  /\ cpc = "wait" /\ n = c /\ a + 1 = c
             /\ down' = SerializeResponse(answers'[c].code)
             /\ answers'[c].to = c
             /\ answers'[c].why = "handler" => answers'[c].code \in Verdicts(calls[c].msg)
  <2>1. Serving
    BY <1>7
  <2>2. CallServed
    BY <1>6, <1>7, <2>1 DEF StepInv, BetweenCalls, CallOnItsWay, CallAnswered, Serving
  <2>3. cpc = "wait" /\ down = <<>> /\ n = c /\ a + 1 = c
    BY <1>1, <2>2 DEF CallServed
  <2>4. answers'[c] = [code |-> code, why |-> why, to |-> c]
    BY <1>2, <2>3
  <2>5. down' = SerializeResponse(code)
    <3>1. SerializeResponse(code) \in Seq(RespTokens)
      BY CodesAre
    <3> QED
      BY <1>3, <1>7, <2>3, <3>1, ConcatEmptySeq
  <2>6. sMsg = calls[c].msg
    <3>1. n \in 1..n /\ sMsg = received[n]
      BY <1>1, <2>1 DEF ServedInv
    <3> QED
      BY <1>1, <1>7, <2>3, <3>1 DEF PlainDelivery
  <2> HIDE DEF c, n, a
  <2>7. answers'[c].code = code /\ answers'[c].why = why /\ answers'[c].to = c
    BY <2>4
  <2> QED
    BY <2>3, <2>5, <2>6, <2>7
<1>8. Len(calls)' = c /\ Len(received)' = n /\ Len(answers)' = a + 1
  BY <1>2
<1> HIDE DEF c, n, a
<1>9. ServedInv'
  BY <1>5 DEF ServedInv
<1>10. UpInv'
  BY <1>4, <1>6 DEF UpInv
<1>11. DownInv'
  <2> SUFFICES ASSUME PlainUpTo(c)
               PROVE  \/ down' = <<>>
                      \/ /\ cpc = "wait" /\ c <= a + 1 /\ answers'[c].to = c
                         /\ answers'[c].why = "handler" =>
                              answers'[c].code \in Verdicts(calls[c].msg)
                         /\ down' \in Prefixes(SerializeResponse(answers'[c].code))
                         /\ broken \/ down' = SerializeResponse(answers'[c].code)
    BY <1>4, <1>8 DEF DownInv, Verdicts
  <2>1. CASE ~broken
    <3> DEFINE r == SerializeResponse(answers'[c].code)
    <3>1. r \in Prefixes(r)
      <4>1. answers'[c].code = code /\ SerializeResponse(code) \in Seq(RespTokens)
        BY <1>1, <1>2, <1>7, <2>1, CodesAre
      <4>2. r \in Seq(RespTokens) /\ Len(r) \in Nat
        BY <4>1, LenProperties
      <4>3. SubSeq(r, 1, Len(r)) = r /\ Len(r) \in 0..Len(r)
        BY <4>2, SubSeqFull
      <4> HIDE DEF r
      <4> QED
        BY <4>3 DEF Prefixes
    <3> HIDE DEF r
    <3> QED
      BY <1>1, <1>7, <2>1, <3>1 DEF r
  <2>2. CASE broken /\ down # <<>>
    <3>1. down' = down
      BY <1>3, <2>2
    <3>2. /\ cpc = "wait" /\ c <= a /\ answers[c].to = c
          /\ answers[c].why = "handler" => answers[c].code \in Verdicts(calls[c].msg)
          /\ down \in Prefixes(SerializeResponse(answers[c].code))
      BY <2>2 DEF DownInv, c, a
    <3>3. c \in 1..a
      BY <1>1, <3>2 DEF WaitInv, c
    <3> QED
      BY <1>1, <1>2, <2>2, <3>1, <3>2, <3>3
  <2>3. CASE broken /\ down = <<>>
    BY <1>3, <2>3
  <2> QED
    BY <2>1, <2>2, <2>3
<1>12. StepInv'
  <2> SUFFICES ASSUME ~broken, Open', PlainUpTo(c) PROVE CallAnswered'
    BY <1>4, <1>8 DEF StepInv
  <2> QED
    BY <1>5, <1>7, <1>8 DEF CallAnswered
<1>13. AheadInv'
  BY <1>4, <1>6 DEF AheadInv
<1>14. PlainDelivery'
  BY <1>4 DEF PlainDelivery
<1>15. PlainIsServed'
  <2> SUFFICES ASSUME PlainUpTo(c), NEW i \in 1..(a + 1), answers'[i].why = "malformed"
               PROVE  broken
    BY <1>2, <1>4, <1>5, <1>8 DEF PlainIsServed
  <2>1. CASE i = a + 1
    BY <1>2, <2>1 DEF c
  <2>2. CASE i # a + 1
    <3>1. i \in 1..a
      BY <1>1, <2>2
    <3> QED
      BY <1>1, <1>2, <3>1 DEF PlainIsServed, c
  <2> QED
    BY <2>1, <2>2
<1>16. OwnCode'
  <2> SUFFICES ASSUME NEW k \in DOMAIN calls, calls[k].out = "code", PlainUpTo(k)
               PROVE  /\ k \in 1..(a + 1) /\ answers'[k].to = k
                      /\ answers'[k].why = "handler"
                           => answers'[k].code \in Verdicts(calls[k].msg)
                      /\ \/ calls[k].code = answers'[k].code
                         \/ broken /\ IsStrictPrefix(calls[k].code, answers'[k].code)
    BY <1>2, <1>4 DEF OwnCode, Verdicts
  <2>1. /\ k \in 1..a /\ answers[k].to = k
        /\ answers[k].why = "handler" => answers[k].code \in Verdicts(calls[k].msg)
        /\ \/ calls[k].code = answers[k].code
           \/ broken /\ IsStrictPrefix(calls[k].code, answers[k].code)
    BY <1>1 DEF OwnCode
  <2>2. k \in 1..(a + 1)
    BY <1>1, <2>1
  <2> QED
    BY <1>2, <2>1, <2>2
<1> QED
  BY <1>9, <1>10, <1>11, <1>12, <1>13, <1>14, <1>15, <1>16 DEF SessionInv

\* The server takes a message.
LEMMA MessageStep ==
  ASSUME SessionInv, TypeInv', spc = "read",
         NEW read \in Receive(up, broken \/ cpc = "closed"), up' = read.rest,
         NEW msg, Deserialize(read.text).went = "message", Deserialize(read.text).msg = msg,
         sMsg' = msg, received' = Append(received, msg), spc' = "auth",
         UNCHANGED <<down, broken, cpc, calls, answers>>
  PROVE  SessionInv'
<1> USE PartsOfInv
<1> DEFINE c == Len(calls)
           n == Len(received)
<1>1. c \in Nat /\ n \in Nat /\ DOMAIN calls = 1..c /\ DOMAIN received = 1..n
  BY TypeIs
<1>2. /\ Len(received') = n + 1 /\ DOMAIN received' = 1..(n + 1)
      /\ \A i \in 1..n : received'[i] = received[i]
      /\ received'[n + 1] = msg
  <2>1. received \in Seq(Parsed \cup {msg})
    <3>1. received \in Seq(Parsed)
      BY TypeIs
    <3> QED
      BY <3>1
  <2> QED
    BY <2>1, AppendProperties, LenProperties
<1>3. \A k : PlainUpTo(k)' <=> PlainUpTo(k)
  BY DEF PlainUpTo
<1>4. Open /\ Open' /\ Serving'
  BY DEF Open, Serving
<1>5. ASSUME PlainUpTo(n + 1)
      PROVE  /\ up' = <<>> /\ n + 1 \in 1..c /\ msg = calls[n + 1].msg
  <2>1. /\ read.rest = <<>>
        /\ Deserialize(read.text) # Invalid => n < c /\ msg = calls[n + 1].msg
    BY <1>4, <1>5, PlainReads
  <2>2. Deserialize(read.text) # Invalid
    BY DEF Invalid
  <2> QED
    BY <1>1, <2>1, <2>2
<1>6. /\ PlainUpTo(c) => PlainUpTo(n + 1)
      /\ \A k \in Int : n + 1 <= k /\ PlainUpTo(k) => PlainUpTo(n + 1)
  BY <1>1, PlainDown
<1>7. Len(calls)' = c /\ Len(received)' = n + 1 /\ Len(answers)' = Len(answers)
  BY <1>2
<1> HIDE DEF c, n
<1>8. ServedInv'
  BY <1>1, <1>2, <1>7 DEF ServedInv
<1>9. UpInv'
  <2> SUFFICES ASSUME PlainUpTo((n + 1) + 1) PROVE up' = <<>>
    BY <1>3, <1>7 DEF UpInv
  <2>1. n + 1 <= (n + 1) + 1 /\ (n + 1) + 1 \in Int
    BY <1>1
  <2> QED
    BY <1>5, <1>6, <2>1
<1>10. DownInv'
  BY <1>3 DEF DownInv, Verdicts
<1>11. StepInv'
  <2> SUFFICES ASSUME ~broken, PlainUpTo(c) PROVE CallServed'
    BY <1>3, <1>7 DEF StepInv
  <2>1. n + 1 \in 1..c
    BY <1>5, <1>6
  <2>2. n # c
    BY <1>1, <2>1
  <2>3. CallOnItsWay
    BY <1>4, <2>2 DEF StepInv, BetweenCalls, CallServed, CallAnswered, c, n
  <2>4. /\ cpc = "wait" /\ down = <<>> /\ n = c - 1 /\ Len(answers) = c - 1
    BY <2>3 DEF CallOnItsWay, c, n
  <2> QED
    BY <1>1, <1>4, <1>7, <2>4 DEF CallServed
<1>12. AheadInv'
  <2> SUFFICES ASSUME ~broken, PlainUpTo((n + 1) + 1) PROVE c <= (n + 1) + 1
    BY <1>3, <1>7 DEF AheadInv
  <2>1. n + 1 <= (n + 1) + 1 /\ (n + 1) + 1 \in Int
    BY <1>1
  <2>2. PlainUpTo(n + 1)
    BY <1>6, <2>1
  <2>3. c <= n + 1
    BY <1>4, <2>2 DEF AheadInv, c, n
  <2> QED
    BY <1>1, <2>3
<1>13. PlainDelivery'
  <2> SUFFICES ASSUME NEW i \in 1..(n + 1), PlainUpTo(i)
               PROVE  i \in DOMAIN calls /\ received'[i] = calls[i].msg
    BY <1>2, <1>3 DEF PlainDelivery
  <2>1. CASE i = n + 1
    BY <1>1, <1>2, <1>5, <2>1
  <2>2. CASE i # n + 1
    <3>1. i \in 1..n
      BY <1>1, <2>2
    <3> QED
      BY <1>1, <1>2, <3>1 DEF PlainDelivery
  <2> QED
    BY <2>1, <2>2
<1>14. PlainIsServed'
  BY <1>3, <1>7 DEF PlainIsServed
<1>15. OwnCode'
  BY <1>3 DEF OwnCode, Verdicts
<1> QED
  BY <1>8, <1>9, <1>10, <1>11, <1>12, <1>13, <1>14, <1>15 DEF SessionInv

\* The four ways a text the server receives may go.
LEMMA ServerReceivesStep ==
  ASSUME SessionInv, TypeInv', ServerReceives
  PROVE  SessionInv'
<1> USE PartsOfInv
<1> DEFINE n == Len(received)
           c == Len(calls)
<1>1. PICK read \in Receive(up, broken \/ cpc = "closed") :
        /\ up' = read.rest
        /\ \/ /\ read.text = <<>>
              /\ spc' = "closed"
              /\ UNCHANGED <<down, sMsg, received, answers>>
           \/ /\ read.text # <<>> /\ Deserialize(read.text) = Invalid
              /\ Respond(ERROR, "malformed")
              /\ spc' = "closed"
              /\ UNCHANGED <<sMsg, received>>
           \/ /\ Deserialize(read.text) = Panic
              /\ spc' = "crashed"
              /\ UNCHANGED <<down, sMsg, received, answers>>
           \/ /\ Deserialize(read.text).went = "message"
              /\ sMsg' = Deserialize(read.text).msg
              /\ received' = Append(received, Deserialize(read.text).msg)
              /\ spc' = "auth"
              /\ UNCHANGED <<down, answers>>
  BY DEF ServerReceives, AfterMalformed
<1>2. spc = "read" /\ UNCHANGED <<broken, cpc, calls, handlers>>
  BY DEF ServerReceives, clientVars
<1>3. Open
  BY <1>2 DEF Open
<1>4. PlainUpTo(c) =>
        \/ Deserialize(read.text) = Invalid /\ (broken \/ read.text = <<>>)
        \/ Deserialize(read.text) # Invalid /\ Deserialize(read.text) # Panic
  <2> SUFFICES ASSUME PlainUpTo(c)
               PROVE  \/ Deserialize(read.text) = Invalid /\ (broken \/ read.text = <<>>)
                      \/ /\ Deserialize(read.text) # Invalid
                         /\ Deserialize(read.text) # Panic
    OBVIOUS
  <2>1. PlainUpTo(n + 1)
    BY TypeIs, PlainDown
  <2> QED
    BY <1>3, <2>1, PlainReads
<1>5. CASE read.text = <<>> /\ spc' = "closed" /\ UNCHANGED <<down, sMsg, received, answers>>
  <2>1. ~Open' /\ ~Serving'
    BY <1>5 DEF Open, Serving
  <2> QED
    BY <1>2, <1>5, <2>1, QuietStep
<1>6. CASE /\ read.text # <<>> /\ Deserialize(read.text) = Invalid
           /\ Respond(ERROR, "malformed") /\ spc' = "closed"
           /\ UNCHANGED <<sMsg, received>>
  <2>1. ~Open'
    BY <1>6 DEF Open
  <2>2. ERROR \in Codes /\ "malformed" \in Reasons
    BY CodesAre DEF Reasons
  <2>3. ~(~broken /\ PlainUpTo(c))
    BY <1>4, <1>6
  <2> QED
    BY <1>2, <1>6, <2>1, <2>2, <2>3, RespondStep
<1>7. CASE /\ Deserialize(read.text) = Panic /\ spc' = "crashed"
           /\ UNCHANGED <<down, sMsg, received, answers>>
  <2>1. ~Open' /\ ~Serving'
    BY <1>7 DEF Open, Serving
  <2>2. ~PlainUpTo(c)
    BY <1>4, <1>7 DEF Invalid, Panic
  <2> QED
    BY <1>2, <1>7, <2>1, <2>2, QuietStep
<1>8. CASE /\ Deserialize(read.text).went = "message"
           /\ sMsg' = Deserialize(read.text).msg
           /\ received' = Append(received, Deserialize(read.text).msg)
           /\ spc' = "auth" /\ UNCHANGED <<down, answers>>
  BY <1>1, <1>2, <1>8, MessageStep
<1> QED
  BY <1>1, <1>5, <1>6, <1>7, <1>8

LEMMA SessionInit == Init => SessionInv
<1> SUFFICES ASSUME Init PROVE SessionInv
  OBVIOUS
<1>1. TypeInv
  BY TypeInit
<1>2. /\ up = <<>> /\ down = <<>> /\ cpc = "idle" /\ spc = "new"
      /\ Len(calls) = 0 /\ Len(received) = 0 /\ Len(answers) = 0
      /\ DOMAIN calls = {} /\ DOMAIN received = {} /\ DOMAIN answers = {}
  BY DEF Init
<1>3. ServedInv /\ UpInv /\ DownInv
  BY <1>2 DEF ServedInv, Serving, UpInv, DownInv
<1>4. StepInv /\ AheadInv
  BY <1>2 DEF StepInv, BetweenCalls, AheadInv
<1>5. PlainDelivery /\ PlainIsServed /\ OwnCode
  BY <1>2 DEF PlainDelivery, PlainIsServed, OwnCode
<1> QED
  BY <1>1, <1>3, <1>4, <1>5 DEF SessionInv

LEMMA SessionStep ==
  ASSUME SessionInv, [Next]_vars
  PROVE  SessionInv'
<1> USE PartsOfInv
<1>1. TypeInv'
  BY TypeStep
<1>2. CASE Break
  BY <1>1, <1>2, BreakStep
<1>3. ASSUME NEW m \in Messages, SendWritten(m) PROVE SessionInv'
  <2>1. Serialize(m) \in Prefixes(Serialize(m))
    <3> DEFINE t == Serialize(m)
    <3>1. t \in Seq(Tokens) /\ Len(t) \in Nat
      BY MessagesAreSent, LenProperties DEF Text
    <3>2. SubSeq(t, 1, Len(t)) = t /\ Len(t) \in 0..Len(t)
      BY <3>1, SubSeqFull
    <3> HIDE DEF t
    <3>3. t \in Prefixes(t)
      BY <3>2 DEF Prefixes
    <3> QED
      BY <3>3 DEF t
  <2>2. /\ StartCall(m, "pending") /\ up' = Written(up, Serialize(m)) /\ cpc' = "wait"
        /\ UNCHANGED <<down, broken, serverVars>>
    BY <1>3 DEF SendWritten
  <2> QED
    BY <1>1, <2>1, <2>2, StartStep
<1>4. ASSUME NEW m \in Messages, SendFails(m) PROVE SessionInv'
  <2>1. PICK part \in Prefixes(Serialize(m)) : up' = Written(up, part)
    BY <1>4 DEF SendFails
  <2>2. /\ StartCall(m, "write") /\ broken' = TRUE
        /\ UNCHANGED <<down, cpc, serverVars>>
    BY <1>4 DEF SendFails
  <2> QED
    BY <1>1, <2>1, <2>2, StartStep
<1>5. CASE ClientReceives
  BY <1>1, <1>5, ClientReceivesStep
<1>6. CASE ClientReadFails
  BY <1>1, <1>6, ClientReadFailsStep
<1>7. CASE CloseClient
  <2>1. Open' = Open /\ Serving' = Serving
    BY <1>7 DEF CloseClient, serverVars, Open, Serving
  <2> QED
    BY <1>1, <1>7, <2>1, QuietStep DEF CloseClient, serverVars
<1>8. ASSUME NEW type \in KnownTypes, RegisterHandler(type) PROVE SessionInv'
  <2>1. Open' = Open /\ Serving' = Serving
    BY <1>8 DEF RegisterHandler, Open, Serving
  <2> QED
    BY <1>1, <1>8, <2>1, QuietStep DEF RegisterHandler, clientVars
<1>9. CASE Accept
  <2>1. Open /\ Open' /\ ~Serving /\ ~Serving'
    BY <1>9 DEF Accept, Open, Serving
  <2> QED
    BY <1>1, <1>9, <2>1, QuietStep DEF Accept, clientVars
<1>10. CASE ServerReceives
  BY <1>1, <1>10, ServerReceivesStep
<1>11. CASE ServerReadFails
  <2>1. Open /\ ~Open' /\ ~Serving /\ ~Serving'
    BY <1>11 DEF ServerReadFails, Open, Serving
  <2> QED
    BY <1>1, <1>11, <2>1, QuietStep DEF ServerReadFails, clientVars
<1>12. CASE Authorize
  <2>1. Open /\ Open' /\ Serving /\ Serving'
    BY <1>12 DEF Authorize, Open, Serving
  <2> QED
    BY <1>1, <1>12, <2>1, QuietStep DEF Authorize, clientVars
<1>13. CASE Deny
  <2>1. Serving /\ ~Open'
    BY <1>13 DEF Deny, AfterDenial, Open, Serving
  <2>2. UNAUTHORIZED \in Codes /\ "unauthorized" \in Reasons
    BY CodesAre DEF Reasons
  <2> QED
    BY <1>1, <1>13, <2>1, <2>2, RespondStep DEF Deny, AfterDenial, clientVars
<1>14. CASE Route
  <2>1. Serving /\ Open
    BY <1>14 DEF Route, Open, Serving
  <2>2. CASE sMsg.type \in handlers
    <3>1. Serving' /\ Open' /\ spc' = "run" /\ UNCHANGED <<down, answers>>
      BY <1>14, <2>2 DEF Route, Open, Serving
    <3> QED
      BY <1>1, <1>14, <2>1, <3>1, QuietStep DEF Route, clientVars
  <2>3. CASE sMsg.type \notin handlers
    <3>1. spc' = "read" /\ Respond(ERROR, "no_handler")
      BY <1>14, <2>3 DEF Route, AfterMissing
    <3>2. ERROR \in Codes /\ "no_handler" \in Reasons
      BY CodesAre DEF Reasons
    <3> QED
      BY <1>1, <1>14, <2>1, <3>1, <3>2, RespondStep DEF Route, clientVars
  <2> QED
    BY <2>2, <2>3
<1>15. CASE HandlerReturns
  <2>1. PICK code \in Verdicts(sMsg) : Respond(code, "handler")
    BY <1>15 DEF HandlerReturns
  <2>2. code \in Codes /\ "handler" \in Reasons /\ Serving
    BY <1>15, VerdictsAre DEF HandlerReturns, Reasons, Serving
  <2> QED
    BY <1>1, <1>15, <2>1, <2>2, RespondStep DEF HandlerReturns, clientVars
<1>16. CASE UNCHANGED vars
  <2>1. Open' = Open /\ Serving' = Serving
    BY <1>16 DEF vars, serverVars, Open, Serving
  <2> QED
    BY <1>1, <1>16, <2>1, QuietStep DEF vars, clientVars, serverVars
<1> QED
  BY <1>2, <1>3, <1>4, <1>5, <1>6, <1>7, <1>8, <1>9, <1>10, <1>11, <1>12, <1>13, <1>14,
     <1>15, <1>16 DEF Next, ClientNext, ClientReads, ServerNext, ServerSteps

LEMMA SessionAlways == Spec => []SessionInv
BY SessionInit, SessionStep, PTL DEF Spec

\* As long as the messages of the calls hold nothing the delimiters collide
\* with, the server serves them in the order of the calls and field by field as
\* they were sent, however a write or the connection fails in the middle of one.
THEOREM PlainDelivered == Spec => []PlainDelivery
<1>1. SessionInv => PlainDelivery
  BY DEF SessionInv
<1> QED
  BY <1>1, SessionAlways, PTL

\* No call with a plain message ends the server, and none is answered as
\* malformed unless the connection cut it.
THEOREM PlainServed == Spec => []PlainIsServed
<1>1. SessionInv => PlainIsServed
  BY DEF SessionInv
<1> QED
  BY <1>1, SessionAlways, PTL

\* The code a plain call returns is the answer to its own message, and where a
\* handler gave it, a verdict on the data the call sent; at most the end of a
\* broken connection leaves only its first digits.
THEOREM OwnCodes == Spec => []OwnCode
<1>1. SessionInv => OwnCode
  BY DEF SessionInv
<1> QED
  BY <1>1, SessionAlways, PTL

-----------------------------------------------------------------------------
(* Rejection.                                                              *)

\* The server that denied a user or met a text that does not parse has returned.
RejectedInv == Rejected => spc = "closed"

LEMMA RejectedStep ==
  ASSUME TypeInv, RejectedInv, [Next]_vars
  PROVE  RejectedInv' /\ (Rejected => UNCHANGED <<received, answers>>)
<1> DEFINE Bad == {"unauthorized", "malformed"}
           Quiet == UNCHANGED <<received, answers>>
           Goal == RejectedInv' /\ (Rejected => Quiet)
<1>1. answers' = answers => (Rejected' <=> Rejected)
  BY DEF Rejected
<1>2. UNCHANGED serverVars => Goal
  BY <1>1 DEF serverVars, RejectedInv
<1>3. ASSUME spc # "closed", spc' = "closed" \/ answers' = answers PROVE Goal
  BY <1>1, <1>3 DEF RejectedInv
<1>4. ASSUME spc # "closed", NEW code \in Codes, NEW why \in Reasons \ Bad,
             Respond(code, why)
      PROVE  Goal
  <2>1. ~Rejected
    BY <1>4 DEF RejectedInv
  <2>2. /\ answers' \in Seq(AnswersType) /\ Len(answers') = Len(answers) + 1
        /\ \A i \in 1..Len(answers) : answers'[i] = answers[i]
        /\ answers'[Len(answers) + 1].why = why
    <3>1. TypeOK /\ why \in Reasons
      BY <1>4 DEF TypeInv
    <3>2. /\ answers' \in Seq(AnswersType) /\ Len(answers') = Len(answers) + 1
          /\ \A i \in 1..Len(answers) : answers'[i] = answers[i]
          /\ answers'[Len(answers) + 1] = [code |-> code, why |-> why, to |-> Len(received)]
      BY <1>4, <3>1, RespondTypes
    <3> QED
      BY <3>2
  <2>3. DOMAIN answers' = 1..(Len(answers) + 1) /\ DOMAIN answers = 1..Len(answers)
        /\ Len(answers) \in Nat
    BY <2>2, TypeIs, LenProperties DEF TypeInv
  <2>4. ASSUME NEW i \in DOMAIN answers' PROVE answers'[i].why \notin Bad
    <3>1. CASE i = Len(answers) + 1
      BY <2>2, <3>1
    <3>2. CASE i # Len(answers) + 1
      <4>1. i \in DOMAIN answers /\ answers'[i] = answers[i]
        BY <2>2, <2>3, <3>2
      <4> QED
        BY <2>1, <4>1 DEF Rejected
    <3> QED
      BY <3>1, <3>2
  <2> QED
    BY <2>1, <2>4 DEF Rejected, RejectedInv
<1>5. CASE UNCHANGED serverVars
  BY <1>2, <1>5
<1>6. CASE \/ Accept \/ ServerReceives \/ ServerReadFails \/ Authorize \/ Deny
           \/ \E type \in KnownTypes : RegisterHandler(type)
  <2>1. spc # "closed"
    BY <1>6 DEF Accept, ServerReceives, ServerReadFails, Authorize, Deny, RegisterHandler
  <2>2. spc' = "closed" \/ answers' = answers
    BY <1>6 DEF Accept, ServerReceives, AfterMalformed, ServerReadFails, Authorize, Deny,
                AfterDenial, RegisterHandler
  <2> QED
    BY <1>3, <2>1, <2>2
<1>7. CASE Route
  <2>1. spc # "closed"
    BY <1>7 DEF Route
  <2>2. CASE sMsg.type \in handlers
    BY <1>3, <1>7, <2>1, <2>2 DEF Route
  <2>3. CASE sMsg.type \notin handlers
    <3>1. Respond(ERROR, "no_handler")
      BY <1>7, <2>3 DEF Route, AfterMissing
    <3>2. ERROR \in Codes /\ "no_handler" \in Reasons \ Bad
      BY CodesAre DEF Reasons
    <3> QED
      BY <1>4, <2>1, <3>1, <3>2
  <2> QED
    BY <2>2, <2>3
<1>8. CASE HandlerReturns
  <2>1. PICK code \in Verdicts(sMsg) : Respond(code, "handler")
    BY <1>8 DEF HandlerReturns
  <2>2. code \in Codes /\ "handler" \in Reasons \ Bad /\ spc # "closed"
    BY <1>8, VerdictsAre DEF HandlerReturns, Reasons
  <2> QED
    BY <1>4, <2>1, <2>2
<1>9. CASE \/ Break \/ ClientReceives \/ ClientReadFails \/ CloseClient
           \/ \E m \in Messages : SendWritten(m) \/ SendFails(m)
  <2>1. UNCHANGED serverVars
    BY <1>9 DEF Break, ClientReceives, ClientReadFails, CloseClient, SendWritten, SendFails
  <2> QED
    BY <1>2, <2>1
<1>10. CASE UNCHANGED vars
  BY <1>2, <1>10 DEF vars
<1>11. Goal
  BY <1>6, <1>7, <1>8, <1>9, <1>10 DEF Next, ClientNext, ClientReads, ServerNext, ServerSteps
<1> QED
  BY <1>11

\* After a denial or a text that does not parse, nothing more that the client
\* sends is served or answered.
THEOREM RejectionFinal == Spec => RejectionIsFinal
<1>1. Init => TypeInv /\ RejectedInv
  <2>1. Init => ~Rejected
    BY DEF Init, Rejected
  <2> QED
    BY <2>1, TypeInit DEF RejectedInv
<1>2. TypeInv /\ RejectedInv /\ [Next]_vars => TypeInv' /\ RejectedInv'
  BY TypeStep, RejectedStep
<1>3. TypeInv /\ RejectedInv /\ [Next]_vars =>
        [Rejected => UNCHANGED <<received, answers>>]_vars
  BY RejectedStep
<1> QED
  BY <1>1, <1>2, <1>3, PTL DEF Spec, RejectionIsFinal
=============================================================================
