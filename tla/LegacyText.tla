----------------------------- MODULE LegacyText -----------------------------
(***************************************************************************)
(* The V1 text: Serialize, Receive and Deserialize, and the responses.     *)
(* A text is a sequence of tokens.  The characters its delimiters are made *)
(* of are tokens of their own; the four letters of Auth, a type name and   *)
(* RESP are one token each, and one letter stands for all others.          *)
(***************************************************************************)
EXTENDS Integers, FiniteSets, Sequences, SequencesExt

Chars == {"tab", "nl", ":", "Auth", "x"}
Tabs == <<"tab", "tab">>                    \* "\t\t"
AuthMark == Tabs \o <<"Auth", ":">>         \* "\t\tAuth:"
Colons == <<":", ":">>
Blank == <<"nl", "nl">>                     \* "\n\n"

\* MT: the three constants, "other" for a value without a name, and -1.
KnownTypes == {"URL", "Document", "Notification"}

\* All tokens: those of Chars, the schemes, the type names, and of the
\* JavaScript implementation the bytes of a character and U+FFFD.
Tokens == Chars \cup {"http", "https", "//", "UNKNOWN"} \cup KnownTypes
            \cup {"hi", "lo", "bad"}
Text == Seq(Tokens)

\* What an application can pass to Send.
Sent == [type : KnownTypes \cup {"other"}, data : Text, user : Text, pass : Text,
         file : Text]

TypeToString(type) == <<IF type \in KnownTypes THEN type ELSE "UNKNOWN">>
StringToType(text) ==
  IF \E type \in KnownTypes : text = <<type>> THEN text[1] ELSE "-1"

\* strings.Index and the slice expression text[from:to].
None == -1
Index(part, text) ==
  LET at == {i \in 0..(Len(text) - Len(part)) :
               \A j \in DOMAIN part : text[i + j] = part[j]}
  IN IF at = {} THEN None ELSE CHOOSE i \in at : \A k \in at : i <= k
Slice(text, from, to) == SubSeq(text, from + 1, to)

\* (mutant: the third part is written though there is no file name)
Serialize_EmptyName(m) ==
  TypeToString(m.type) \o Tabs \o m.data
    \o AuthMark \o m.user \o Colons \o m.pass
    \o (IF m.type = "Document" THEN Colons \o m.file ELSE <<>>) \o Blank
Serialize(m) ==
  TypeToString(m.type) \o Tabs \o m.data
    \o AuthMark \o m.user \o Colons \o m.pass
    \o (IF m.type = "Document" /\ m.file # <<>> THEN Colons \o m.file ELSE <<>>)
    \o Blank

\* Receive stops behind the first blank line.
\* (mutant: behind the first line)
ReceiveEnd_Line(stream) ==
  LET i == Index(<<"nl">>, stream) IN IF i = None THEN None ELSE i + 1
ReceiveEnd(stream) ==
  LET i == Index(Blank, stream) IN IF i = None THEN None ELSE i + 2

\* strings.Split at "::", of which Deserialize reads three parts.
Cut(text) ==
  LET i == Index(Colons, text)
  IN IF i = None THEN <<text>>
     ELSE <<Slice(text, 0, i), Slice(text, i + 2, Len(text))>>
CutLast(parts) == Front(parts) \o Cut(Last(parts))

Invalid == [went |-> "ErrInvalidFormat"]
Panic == [went |-> "panic"]     \* a slice expression whose ends are crossed

\* (mutant: the data start one byte early)
DataStart_Early(typePart) == typePart + 1
DataStart(typePart) == typePart + 2

Deserialize(text) ==
  LET typePart == Index(Tabs, text)
      authPart == Index(AuthMark, text)
      tail == Index(Blank, text)
      auth == Slice(text, authPart + Len(AuthMark), tail)
      parts == CutLast(CutLast(Cut(auth)))
      type == StringToType(Slice(text, 0, typePart))
  IN IF typePart = None \/ authPart = None THEN Invalid
     ELSE IF typePart + 2 > authPart THEN Panic
     ELSE IF tail = None THEN Invalid
     ELSE IF authPart + Len(AuthMark) > tail THEN Panic
     ELSE IF Len(parts) < 2 THEN Invalid
     ELSE [went |-> "message",
           msg |-> [type |-> type,
                    data |-> Slice(text, DataStart(typePart), authPart),
                    user |-> parts[1], pass |-> parts[2],
                    file |-> IF type = "Document" /\ Len(parts) > 2
                               THEN parts[3] ELSE <<>>]]

-----------------------------------------------------------------------------
(* Responses.  A code is the sequence of its decimal digits.               *)

Digits == {"0", "1", "2", "3", "4", "5", "6", "7", "8", "9"}
OK == <<"0">>
ERROR == <<"1">>
UNAUTHORIZED == <<"2">>
RespMark == <<"RESP", ":">>
SerializeResponse(code) == RespMark \o code \o Blank

\* Sscanf with "RESP:%d\n\n": a newline of the format also matches the end of
\* the input.
\* (mutant: all that follows the mark is the code)
ParseResponse_Rest(text) ==
  IF IsPrefix(RespMark, text)
    THEN [went |-> "code", code |-> SubSeq(text, 3, Len(text))] ELSE Invalid
ParseResponse(text) ==
  LET last == 2 + Cardinality({i \in 3..Len(text) :
                                 \A j \in 3..i : text[j] \in Digits})
      digits == SubSeq(text, 3, last)
      rest == SubSeq(text, last + 1, Len(text))
  IN IF IsPrefix(RespMark, text) /\ digits # <<>> /\ IsPrefix(rest, Blank)
       THEN [went |-> "code", code |-> digits] ELSE Invalid

-----------------------------------------------------------------------------
(* The handlers of the package.  A scheme is one token, "//" another.      *)

Schemes == {<<"http", ":", "//">>, <<"https", ":", "//">>}
ValidateURLHandler(data) ==
  IF \E scheme \in Schemes : IsPrefix(scheme, data) THEN OK ELSE ERROR
ValidateDocumentHandler(data, maxBytes) ==
  IF Len(data) \in 1..maxBytes THEN OK ELSE ERROR

-----------------------------------------------------------------------------
(* docs/protocol.md: the delimiters collide with arbitrary payloads.  The  *)
(* messages with which they do not:                                        *)

Has(part, text) == Index(part, text) # None

\* No field ends the text early, and the two marks in front of the name are
\* the ones Serialize wrote, though the data touch both.
PlainData(data) ==
  /\ ~Has(Blank, data)
  /\ ~Has(AuthMark, Tabs \o data)

\* A name is followed by "::", and so is a password when a file name follows.
PlainName(name) == ~Has(Blank, name) /\ ~Has(Colons, name)
                   /\ ~IsSuffix(<<":">>, name)
\* The last field is followed by the blank line.
PlainLast(field) == ~Has(Blank, field) /\ ~Has(Colons, field)
                    /\ ~IsSuffix(<<"nl">>, field)

Plain(m) ==
  /\ m.type \in KnownTypes
  /\ m.type # "Document" => m.file = <<>>
  /\ PlainData(m.data) /\ PlainName(m.user)
  /\ IF m.file = <<>> THEN PlainLast(m.pass)
                      ELSE PlainName(m.pass) /\ PlainLast(m.file)
=============================================================================
