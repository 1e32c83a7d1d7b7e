---------------------------- MODULE LegacyCodec ----------------------------
(***************************************************************************)
(* One V1 message on its way: written by Serialize, cut from the stream by *)
(* Receive, read by Deserialize.                                           *)
(***************************************************************************)
EXTENDS LegacyText

CONSTANTS
  Types,            \* message types, "other" included or not
  DataLen,          \* bound: tokens of the data, when the names are short
  NameLen           \* bound: tokens of a name, when the data are short

ASSUME TypesAssumption == Types \subseteq KnownTypes \cup {"other"}
ASSUME LenAssumption == DataLen \in Nat /\ NameLen \in Nat

Texts(n) == BoundedSeq(Chars, n)
Shape(d, n) == [type : Types, data : Texts(d), user : Texts(n),
                pass : Texts(n), file : Texts(n)]
Messages == Shape(DataLen, 1) \cup Shape(1, NameLen)

VARIABLES
  msg,   \* what was serialized
  left,  \* tokens Receive leaves on the stream
  out    \* what Deserialize makes of the text received
vars == <<msg, left, out>>

Unread == [went |-> "none"]

Init == msg \in Messages /\ left = 0 /\ out = Unread

Read ==
  /\ out = Unread
  /\ LET text == Serialize(msg)
         end == ReceiveEnd(text)
     IN /\ out' = Deserialize(Slice(text, 0, end))
        /\ left' = Len(text) - end
  /\ UNCHANGED msg

Spec == Init /\ [][Read]_vars

\* V1 carries a message, and leaves nothing behind, exactly when the message is
\* plain: what Plain forbids is all that collides with the delimiters, and all
\* of it does.
PlainIsExact ==
  out # Unread =>
    (Plain(msg) <=> out = [went |-> "message", msg |-> msg] /\ left = 0)

\* atxp.go:28: "ErrInvalidFormat occurs when an ATXP packet does not comply
\* with the protocol syntax"; atxp_test.go:97: Deserialize has "robustness
\* against malformed data blocks".
FaultsAreErrors == out.went # "panic"
=============================================================================
