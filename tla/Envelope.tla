------------------------------ MODULE Envelope ------------------------------
(***************************************************************************)
(* The plaintext of a V2 frame: SerializeV2 and DeserializeV2, and the     *)
(* same for responses.  A byte is a digit of base Base, and the integers   *)
(* are fixed numbers of them: the program has base 256 and widths 8 and 4; *)
(* with few small ones every string of bytes up to a length can be decoded. *)
(* A state is one envelope on its way: made from a message or a response,  *)
(* or any bytes at all; then decoded.                                      *)
(***************************************************************************)
EXTENDS Integers, Sequences, SequencesExt

CONSTANTS
  Base,       \* values of a byte (256)
  SeqWidth,   \* bytes of a sequence number (8)
  CodeWidth,  \* bytes of a type, a code, a field length (4)
  IntHalf,    \* 2^31 or 2^63: where a Go int turns negative
  MaxField,   \* bound: bytes of a field of a message that is encoded
  MaxBytes    \* bound: bytes of an envelope that is decoded

\* Base^width, the number of values of an integer of that many bytes.
Power[width \in Nat] == IF width = 0 THEN 1 ELSE Base * Power[width - 1]
Values(width) == 0..(Power[width] - 1)

ASSUME BaseAssumption == Base \in Nat /\ Base > 2
ASSUME WidthAssumption == SeqWidth \in Nat /\ CodeWidth \in Nat
ASSUME IntAssumption == IntHalf \in Nat \ {0}
\* A field of 4 GiB, whose length does not fit its prefix, exceeds what a
\* frame can carry and is left out.
ASSUME FieldAssumption == MaxField \in Values(CodeWidth)
ASSUME BytesAssumption == MaxBytes \in Nat

Byte == 0..(Base - 1)
kindMessage == 1
kindResponse == 2

Fields == BoundedSeq(Byte, MaxField)
Messages == [seq : Values(SeqWidth), type : Values(CodeWidth),
             payload : Fields, username : Fields, filename : Fields]
Responses == [seq : Values(SeqWidth), code : Values(CodeWidth)]

-----------------------------------------------------------------------------
(* Writing.                                                                *)

BigEndian(n, width) == [i \in 1..width |-> (n \div Power[width - i]) % Base]

appendField(field) == BigEndian(Len(field), CodeWidth) \o field

\* (mutant: the filename appended without its length)
SerializeV2_Bare(m) ==
  <<kindMessage>> \o BigEndian(m.seq, SeqWidth) \o BigEndian(m.type, CodeWidth)
    \o appendField(m.payload) \o appendField(m.username) \o m.filename
SerializeV2(m) ==
  <<kindMessage>> \o BigEndian(m.seq, SeqWidth) \o BigEndian(m.type, CodeWidth)
    \o appendField(m.payload) \o appendField(m.username)
    \o appendField(m.filename)

serializeResponseV2(r) ==
  <<kindResponse>> \o BigEndian(r.seq, SeqWidth) \o BigEndian(r.code, CodeWidth)

-----------------------------------------------------------------------------
(* Reading.  A cursor is the bytes, the offset and how reading went so far; *)
(* the value last read is in val.                                          *)

Cursor(b) == [b |-> b, off |-> 0, went |-> "ok", val |-> 0]
Failed(r, how) == [r EXCEPT !.went = how]
Took(r, n, val) == [r EXCEPT !.off = @ + n, !.val = val]
Slice(r, n) == SubSeq(r.b, r.off + 1, r.off + n)

\* The number whose first digits are read after each of them.
Reading(digits) ==
  LET number[i \in 0..Len(digits)] ==
        IF i = 0 THEN 0 ELSE number[i - 1] * Base + digits[i]
  IN number
Number(digits) == Reading(digits)[Len(digits)]

\* readByte, readUint32 and readUint64: a fixed number of bytes.
readUint(r, width) ==
  IF r.went # "ok" THEN r
  ELSE IF r.off + width > Len(r.b) THEN Failed(r, "ErrInvalidEnvelope")
  ELSE Took(r, width, Number(Slice(r, width)))

\* A Go int that wrapped.
AsInt(n) ==
  LET low == n % (2 * IntHalf) IN IF low < IntHalf THEN low ELSE low - 2 * IntHalf

\* r.off+int(n) > len(r.b); then make and the slice expression, which panic
\* when the bytes are not there.
readField(r) ==
  LET l == readUint(r, CodeWidth)
  IN IF l.went # "ok" THEN l
     ELSE IF AsInt(l.off + l.val) > Len(l.b) THEN Failed(l, "ErrInvalidEnvelope")
     ELSE IF l.off + l.val > Len(l.b) THEN Failed(l, "panic")
     ELSE Took(l, l.val, Slice(l, l.val))

\* (mutant: bytes may be left over)
done_Always(r) == r.off <= Len(r.b)
done(r) == r.off = Len(r.b)

\* The kind byte.  (mutant: any kind)
HasKind_Any(r, kind) == r.went = "ok"
HasKind(r, kind) == r.went = "ok" /\ r.val = kind

DeserializeV2(b) ==
  LET k == readUint(Cursor(b), 1)
      s == readUint(k, SeqWidth)
      t == readUint(s, CodeWidth)
      p == readField(t)
      u == readField(p)
      f == readField(u)
  IN IF ~HasKind(k, kindMessage) THEN [went |-> "ErrInvalidEnvelope"]
     ELSE IF f.went # "ok" THEN [went |-> f.went]
     ELSE IF ~done(f) THEN [went |-> "ErrInvalidEnvelope"]
     ELSE [went |-> "message",
           msg |-> [seq |-> s.val, type |-> t.val, payload |-> p.val,
                    username |-> u.val, filename |-> f.val]]

deserializeResponseV2(b) ==
  LET k == readUint(Cursor(b), 1)
      s == readUint(k, SeqWidth)
      c == readUint(s, CodeWidth)
  IN IF HasKind(k, kindResponse) /\ c.went = "ok" /\ done(c)
       THEN [went |-> "response", msg |-> [seq |-> s.val, code |-> c.val]]
       ELSE [went |-> "ErrInvalidEnvelope"]

-----------------------------------------------------------------------------
VARIABLES
  origin,  \* what was encoded, or that the bytes are arbitrary
  bytes,   \* the envelope
  out      \* what DeserializeV2 and deserializeResponseV2 make of it
vars == <<origin, bytes, out>>

Arbitrary == [went |-> "arbitrary"]
Undecoded == [went |-> "none"]

InitMessage == \E m \in Messages :
  origin = [went |-> "message", msg |-> m] /\ bytes = SerializeV2(m)
InitResponse == \E r \in Responses :
  origin = [went |-> "response", msg |-> r] /\ bytes = serializeResponseV2(r)
InitBytes == origin = Arbitrary /\ bytes \in BoundedSeq(Byte, MaxBytes)

Init == /\ InitMessage \/ InitResponse \/ InitBytes
        /\ out = [asMessage |-> Undecoded, asResponse |-> Undecoded]

Decode ==
  /\ out.asMessage = Undecoded
  /\ out' = [asMessage |-> DeserializeV2(bytes),
             asResponse |-> deserializeResponseV2(bytes)]
  /\ UNCHANGED <<origin, bytes>>

Spec == Init /\ [][Decode]_vars

\* The envelope carries what it was made from, and nothing else reads it.
RoundTrip ==
  out.asMessage # Undecoded =>
    /\ origin.went = "message" => out.asMessage = origin
    /\ origin.went = "response" => out.asResponse = origin

\* A decoder accepts no bytes but those its encoder writes: no short field, no
\* byte left over, no second spelling of a message, no other kind.
Canonical ==
  /\ out.asMessage.went = "message" => bytes = SerializeV2(out.asMessage.msg)
  /\ out.asResponse.went = "response" =>
       bytes = serializeResponseV2(out.asResponse.msg)
=============================================================================
