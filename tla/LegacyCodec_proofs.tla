------------------------- MODULE LegacyCodec_proofs -------------------------
(***************************************************************************)
(* Proofs about LegacyCodec: V1 carries the plain messages and no others,  *)
(* whatever the lengths of the fields.                                     *)
(***************************************************************************)
EXTENDS LegacyCodec, LegacyText_proofs

\* The fields of Messages are texts: all that is proved of Sent holds of them.
LEMMA MessagesAreSent == Messages \subseteq Sent
<1>1. Chars \subseteq Tokens
  BY DEF Tokens
<1>2. ASSUME NEW n \in Nat PROVE Texts(n) \subseteq Text
  <2> SUFFICES ASSUME NEW f \in Texts(n) PROVE f \in Text
    OBVIOUS
  <2>1. PICK k \in 0..n : f \in [1..k -> Chars]
    BY DEF Texts, BoundedSeq, SeqOf
  <2>2. k \in Nat
    BY <1>2, <2>1
  <2> HIDE DEF Chars, Tokens
  <2>3. f \in [1..k -> Tokens]
    BY <1>1, <2>1
  <2> QED
    BY <2>2, <2>3 DEF Text
<1> HIDE DEF Text
<1>3. 1 \in Nat /\ DataLen \in Nat /\ NameLen \in Nat
  BY LenAssumption
<1>4. Shape(DataLen, 1) \subseteq Sent /\ Shape(1, NameLen) \subseteq Sent
  BY <1>2, <1>3, TypesAssumption DEF Shape, Sent
<1> QED
  BY <1>4 DEF Messages

\* What was received, if anything was, is what the two functions make of the
\* text of the message.
ReadInv ==
  /\ msg \in Messages
  /\ out # Unread =>
       LET text == Serialize(msg)
           end == ReceiveEnd(text)
       IN out = Deserialize(Slice(text, 0, end)) /\ left = Len(text) - end

\* V1 carries a message, and leaves nothing of it on the stream, exactly when
\* the message is plain: for fields of any length (atxp.go, Serialize, Receive
\* and Deserialize).
THEOREM LegacyCarriesPlain == Spec => []PlainIsExact
<1>1. Init => ReadInv
  BY DEF Init, ReadInv
<1>2. ReadInv /\ [Read]_vars => ReadInv'
  <2> SUFFICES ASSUME ReadInv, [Read]_vars PROVE ReadInv'
    OBVIOUS
  <2>1. CASE Read
    BY <2>1 DEF ReadInv, Read
  <2>2. CASE UNCHANGED vars
    BY <2>2 DEF ReadInv, vars
  <2> QED
    BY <2>1, <2>2
<1>3. ReadInv => PlainIsExact
  <2> SUFFICES ASSUME ReadInv, out # Unread
               PROVE  Plain(msg) <=> out = [went |-> "message", msg |-> msg] /\ left = 0
    BY DEF PlainIsExact
  <2> DEFINE t == Serialize(msg)
             end == ReceiveEnd(t)
  <2>1. /\ msg \in Sent
        /\ out = Deserialize(Slice(t, 0, end)) /\ left = Len(t) - end
    BY MessagesAreSent DEF ReadInv
  <2>2. t \in Seq(Tokens) /\ Len(t) \in Nat
    BY <2>1, SerializeIs, LenProperties DEF Text
  <2>3. Slice(t, 0, Len(t)) = t
    BY <2>2, WholeSlice
  <2>4. ASSUME Plain(msg) PROVE out = [went |-> "message", msg |-> msg] /\ left = 0
    <3>1. end = Len(t)
      BY <2>1, <2>4, MarksFound
    <3>2. Deserialize(t) = [went |-> "message", msg |-> msg]
      BY <2>1, <2>4, PlainRoundTrip
    <3> HIDE DEF t, end
    <3> QED
      BY <2>1, <2>2, <2>3, <3>1, <3>2
  <2>5. ASSUME out = [went |-> "message", msg |-> msg], left = 0 PROVE Plain(msg)
    <3>1. end = Len(t)
      <4>1. end \in Int
        <5>1. Blank \in Seq(Tokens)
          BY MarksAre DEF Text
        <5>2. Index(Blank, t) \in Int
          <6> HIDE DEF t
          <6> QED
            BY <2>2, <5>1, IndexFinds DEF None
        <5> HIDE DEF t
        <5> QED
          BY <5>2 DEF ReceiveEnd, None
      <4> HIDE DEF t, end
      <4> QED
        BY <2>1, <2>2, <2>5, <4>1
    <3>2. Deserialize(t) = [went |-> "message", msg |-> msg]
      <4> HIDE DEF t, end
      <4> QED
        BY <2>1, <2>3, <2>5, <3>1
    <3> QED
      BY <2>1, <3>1, <3>2, PlainNeeded
  <2> QED
    BY <2>4, <2>5
<1> QED
  BY <1>1, <1>2, <1>3, PTL DEF Spec
=============================================================================
