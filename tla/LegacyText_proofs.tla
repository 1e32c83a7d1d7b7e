------------------------- MODULE LegacyText_proofs --------------------------
(***************************************************************************)
(* Proofs about LegacyText: what the delimiters of the V1 text do to the   *)
(* fields of a plain message, for fields of any length, and what a prefix  *)
(* of such a text, or of a response, is read as.                           *)
(***************************************************************************)
EXTENDS LegacyText, WellFoundedInduction, SequenceTheorems,
        FiniteSetTheorems, TLAPS

-----------------------------------------------------------------------------
(* Index: the first occurrence, or none.                                   *)

Occurs(part, text, i) ==
  /\ i \in 0..(Len(text) - Len(part))
  /\ \A j \in DOMAIN part : text[i + j] = part[j]

\* A set of numbers that is not empty has a least one.
LEMMA LeastOf ==
  ASSUME NEW A, A \subseteq Nat, A # {}
  PROVE  \E m \in A : \A k \in A : m <= k
<1>1. PICK m \in A : \A k \in A : <<k, m>> \notin OpToRel(<, Nat)
  BY NatLessThanWellFounded, WFMin, Zenon
<1>2. \A k \in A : ~(k < m)
  BY <1>1, Zenon DEF OpToRel
<1> QED
  BY <1>2

\* Index is the first place where the part occurs, or None.
LEMMA IndexFinds ==
  ASSUME NEW S, NEW text \in Seq(S), NEW part \in Seq(S)
  PROVE  LET i == Index(part, text)
         IN \/ i = None /\ \A k \in Nat : ~Occurs(part, text, k)
            \/ /\ i \in Nat /\ Occurs(part, text, i)
               /\ \A k \in Nat : Occurs(part, text, k) => i <= k
<1> DEFINE at == {i \in 0..(Len(text) - Len(part)) :
                    \A j \in DOMAIN part : text[i + j] = part[j]}
           first == CHOOSE i \in at : \A k \in at : i <= k
<1>1. Len(text) - Len(part) \in Int
  BY LenProperties
<1>2. at \subseteq Nat /\ \A k \in Nat : k \in at <=> Occurs(part, text, k)
  BY <1>1 DEF Occurs
<1>3. Index(part, text) = IF at = {} THEN None ELSE first
  BY DEF Index
<1> HIDE DEF at
<1>4. CASE at = {}
  BY <1>2, <1>3, <1>4
<1>5. CASE at # {}
  <2>1. \E i \in at : \A k \in at : i <= k
    BY <1>2, <1>5, LeastOf
  <2>2. first \in at /\ \A k \in at : first <= k
    BY <2>1
  <2> HIDE DEF first
  <2> QED
    BY <1>2, <1>3, <1>5, <2>2
<1> QED
  BY <1>4, <1>5

LEMMA IndexIs ==
  ASSUME NEW S, NEW text \in Seq(S), NEW part \in Seq(S), NEW i \in Nat,
         Occurs(part, text, i), \A k \in Nat : Occurs(part, text, k) => i <= k
  PROVE  Index(part, text) = i
<1> DEFINE f == Index(part, text)
<1>1. f \in Nat /\ Occurs(part, text, f) /\ \A k \in Nat : Occurs(part, text, k) => f <= k
  BY IndexFinds
<1> HIDE DEF f
<1> QED
  BY <1>1 DEF f

LEMMA IndexNone ==
  ASSUME NEW S, NEW text \in Seq(S), NEW part \in Seq(S),
         \A k \in Nat : ~Occurs(part, text, k)
  PROVE  Index(part, text) = None
BY IndexFinds

\* A text without the part has it nowhere.
LEMMA HasNot ==
  ASSUME NEW S, NEW text \in Seq(S), NEW part \in Seq(S), ~Has(part, text)
  PROVE  \A k \in Nat : ~Occurs(part, text, k)
<1>1. Index(part, text) = None
  BY DEF Has
<1>2. None \notin Nat
  BY DEF None
<1> QED
  BY <1>1, <1>2, IndexFinds

\* A token twice in a row.
Twice(x, text, i) == i \in 1..(Len(text) - 1) /\ text[i] = x /\ text[i + 1] = x
Single(x, text) == \A i \in Nat : ~Twice(x, text, i)

LEMMA OccursTwice ==
  ASSUME NEW S, NEW text \in Seq(S), NEW x, NEW k \in Nat
  PROVE  Occurs(<<x, x>>, text, k) <=> Twice(x, text, k + 1)
<1>1. Len(text) \in Nat
  BY LenProperties
<1>2. Len(<<x, x>>) = 2 /\ DOMAIN <<x, x>> = {1, 2} /\ <<x, x>>[1] = x /\ <<x, x>>[2] = x
  OBVIOUS
<1>3. Occurs(<<x, x>>, text, k)
        <=> k \in 0..(Len(text) - 2) /\ text[k + 1] = x /\ text[k + 2] = x
  BY <1>2 DEF Occurs
<1>4. (k + 1) + 1 = k + 2
  OBVIOUS
<1> DEFINE l == Len(text)
<1> HIDE DEF l
<1>5. k \in 0..(l - 2) <=> k + 1 \in 1..(l - 1)
  BY <1>1 DEF l
<1> QED
  BY <1>3, <1>4, <1>5 DEF Twice, l

\* A text that does not have <<x, x>> has no x twice in a row, and conversely.
LEMMA NotHasIsSingle ==
  ASSUME NEW S, NEW text \in Seq(S), NEW x \in S, ~Has(<<x, x>>, text)
  PROVE  Single(x, text)
<1> SUFFICES ASSUME NEW i \in Nat, Twice(x, text, i) PROVE FALSE
  BY DEF Single
<1>1. i \in 1..(Len(text) - 1) /\ Len(text) \in Nat
  BY LenProperties DEF Twice
<1>2. i - 1 \in Nat /\ (i - 1) + 1 = i
  BY <1>1
<1>3. Occurs(<<x, x>>, text, i - 1)
  BY <1>2, OccursTwice
<1>4. <<x, x>> \in Seq(S)
  OBVIOUS
<1> QED
  BY <1>2, <1>3, <1>4, HasNot

LEMMA SingleHasNone ==
  ASSUME NEW S, NEW text \in Seq(S), NEW x \in S, Single(x, text)
  PROVE  Index(<<x, x>>, text) = None
<1>1. <<x, x>> \in Seq(S)
  OBVIOUS
<1>2. \A k \in Nat : ~Occurs(<<x, x>>, text, k)
  BY OccursTwice DEF Single
<1> QED
  BY <1>1, <1>2, IndexNone

\* What a text ends with.
EndsWith(x, text) == Len(text) > 0 /\ text[Len(text)] = x

LEMMA NotSuffix ==
  ASSUME NEW S, NEW text \in Seq(S), NEW x, ~IsSuffix(<<x>>, text)
  PROVE  ~EndsWith(x, text)
<1> SUFFICES ASSUME Len(text) > 0, text[Len(text)] = x PROVE IsSuffix(<<x>>, text)
  BY DEF EndsWith
<1>1. Len(text) \in Nat
  BY LenProperties
<1> DEFINE l == Len(text)
           r == Reverse(text)
           y == Reverse(<<x>>)
<1>2. r = [i \in 1..l |-> text[(l - i) + 1]]
  BY DEF Reverse
<1>3. l \in Nat /\ l > 0 /\ text[l] = x
  BY <1>1
<1>4. Len(<<x>>) = 1 /\ <<x>>[1] = x
  OBVIOUS
<1>5. y = [i \in 1..1 |-> <<x>>[(1 - i) + 1]]
  BY <1>4 DEF Reverse
<1> HIDE DEF l, r, y
<1>6. Len(r) = l /\ r[1] = x
  BY <1>2, <1>3
<1>7. Len(y) = 1 /\ y[1] = x
  BY <1>4, <1>5
<1>8. SubSeq(y, 1, 1) = SubSeq(r, 1, 1)
  BY <1>6, <1>7
<1>9. IsPrefix(y, r)
  BY <1>3, <1>6, <1>7, <1>8 DEF IsPrefix
<1> QED
  BY <1>9 DEF IsSuffix, r, y

\* The same of the tokens themselves.
LEMMA SinglePair ==
  ASSUME NEW S, NEW text \in Seq(S), NEW x, Single(x, text)
  PROVE  \A i \in 1..(Len(text) - 1) : ~(text[i] = x /\ text[i + 1] = x)
<1> SUFFICES ASSUME NEW i \in 1..(Len(text) - 1), text[i] = x, text[i + 1] = x
             PROVE  FALSE
  OBVIOUS
<1>1. Len(text) \in Nat
  BY LenProperties
<1>2. i \in Nat
  BY <1>1
<1> QED
  BY <1>2 DEF Single, Twice

\* Pieces without a pair of x make a text without one, unless x meets x where
\* they are joined.
LEMMA SingleConcat ==
  ASSUME NEW S, NEW a \in Seq(S), NEW b \in Seq(S), NEW x \in S,
         Single(x, a), Single(x, b), ~EndsWith(x, a) \/ Len(b) = 0 \/ b[1] # x
  PROVE  Single(x, a \o b)
<1> DEFINE m == Len(a)
           n == Len(b)
           t == a \o b
<1>1. /\ m \in Nat /\ n \in Nat /\ Len(t) = m + n
      /\ \A i \in 1..(m + n) : t[i] = IF i <= m THEN a[i] ELSE b[i - m]
  BY LenProperties, ConcatProperties
<1>2. /\ \A i \in 1..(m - 1) : ~(a[i] = x /\ a[i + 1] = x)
      /\ \A i \in 1..(n - 1) : ~(b[i] = x /\ b[i + 1] = x)
  <2>1. \A i \in 1..(m - 1) : ~(a[i] = x /\ a[i + 1] = x)
    BY SinglePair
  <2>2. \A i \in 1..(n - 1) : ~(b[i] = x /\ b[i + 1] = x)
    BY SinglePair
  <2> QED
    BY <2>1, <2>2
<1>3. ~(m > 0 /\ a[m] = x) \/ n = 0 \/ b[1] # x
  BY DEF EndsWith
<1> HIDE DEF m, n, t
<1> SUFFICES ASSUME NEW i \in 1..(m + n - 1), t[i] = x, t[i + 1] = x PROVE FALSE
  BY <1>1 DEF Single, Twice, t
<1>4. t[i] = (IF i <= m THEN a[i] ELSE b[i - m])
      /\ t[i + 1] = (IF i + 1 <= m THEN a[i + 1] ELSE b[(i + 1) - m])
  BY <1>1
<1>5. CASE i + 1 <= m
  BY <1>1, <1>2, <1>4, <1>5
<1>6. CASE i = m
  <2>1. m > 0 /\ n > 0 /\ a[m] = x /\ b[1] = x
    BY <1>1, <1>4, <1>6
  <2> QED
    BY <2>1, <1>3
<1>7. CASE i > m
  <2>1. i - m \in 1..(n - 1) /\ (i + 1) - m = (i - m) + 1
    BY <1>1, <1>7
  <2>2. b[i - m] = x /\ b[(i - m) + 1] = x
    BY <2>1, <1>1, <1>4, <1>7
  <2> QED
    BY <2>1, <2>2, <1>2
<1> QED
  BY <1>1, <1>5, <1>6, <1>7

\* A piece without a pair that does not end with its token: the pair behind it
\* is the first.
LEMMA FirstPair ==
  ASSUME NEW S, NEW a \in Seq(S), NEW c \in Seq(S), NEW x \in S,
         Single(x, a), ~EndsWith(x, a), Len(c) >= 2, c[1] = x, c[2] = x
  PROVE  Index(<<x, x>>, a \o c) = Len(a)
<1> DEFINE m == Len(a)
           n == Len(c) - 2
           t == a \o c
<1>0. <<x, x>> \in Seq(S)
  OBVIOUS
<1>1. m \in Nat /\ n \in Nat
  BY LenProperties
<1>2. c[1] = x /\ c[2] = x /\ Len(c) = 2 + n
  BY LenProperties
<1>3. /\ t \in Seq(S) /\ Len(t) = m + (2 + n)
      /\ \A i \in 1..(m + (2 + n)) : t[i] = IF i <= m THEN a[i] ELSE c[i - m]
  BY <1>2, LenProperties, ConcatProperties
<1>4. \A i \in 1..(m - 1) : ~(a[i] = x /\ a[i + 1] = x)
  BY SinglePair
<1>5. ~(m > 0 /\ a[m] = x)
  BY DEF EndsWith
<1> HIDE DEF m, n, t
<1>6. t[m + 1] = x /\ t[(m + 1) + 1] = x
  BY <1>1, <1>2, <1>3
<1>7. Twice(x, t, m + 1)
  BY <1>1, <1>3, <1>6 DEF Twice
<1>8. ASSUME NEW k \in Nat, Twice(x, t, k + 1) PROVE m <= k
  <2> SUFFICES ASSUME k < m PROVE FALSE
    BY <1>1
  <2>1. t[k + 1] = x /\ t[(k + 1) + 1] = x
    BY <1>8 DEF Twice
  <2>2. t[k + 1] = a[k + 1]
    BY <1>1, <1>3
  <2>3. CASE k + 1 = m
    BY <1>1, <1>5, <2>1, <2>2, <2>3
  <2>4. CASE k + 1 < m
    <3>1. t[(k + 1) + 1] = a[(k + 1) + 1]
      BY <1>1, <1>3, <2>4
    <3> QED
      BY <1>1, <1>4, <2>1, <2>2, <2>4, <3>1
  <2> QED
    BY <1>1, <2>3, <2>4
<1>9. Occurs(<<x, x>>, t, m) /\ \A k \in Nat : Occurs(<<x, x>>, t, k) => m <= k
  BY <1>1, <1>3, <1>7, <1>8, OccursTwice
<1>10. Index(<<x, x>>, t) = m
  BY <1>0, <1>1, <1>3, <1>9, IndexIs
<1> QED
  BY <1>10 DEF t, m

\* A prefix of a text has no occurrence that the text has not.
LEMMA OccursInPrefix ==
  ASSUME NEW S, NEW text \in Seq(S), NEW n \in 0..Len(text), NEW part \in Seq(S),
         NEW k \in Nat, Occurs(part, SubSeq(text, 1, n), k)
  PROVE  Occurs(part, text, k) /\ k + Len(part) <= n
<1> DEFINE l == Len(text)
           p == SubSeq(text, 1, n)
           q == Len(part)
<1>1. l \in Nat /\ q \in Nat /\ DOMAIN part = 1..q /\ n \in 0..l
  BY LenProperties
<1>2. Len(p) = n /\ \A i \in 1..n : p[i] = text[i]
  <2>1. \A i \in 1..n : text[i] \in S
    BY <1>1, ElementOfSeq
  <2>2. Len(p) = IF 1 <= n THEN n - 1 + 1 ELSE 0
    BY <2>1, <1>1, SubSeqProperties
  <2>3. \A i \in 1..(n - 1 + 1) : p[i] = text[1 + i - 1]
    BY <2>1, <1>1, SubSeqProperties
  <2> HIDE DEF p
  <2> QED
    BY <1>1, <2>2, <2>3
<1>3. k \in 0..(n - q) /\ \A j \in 1..q : p[k + j] = part[j]
  BY <1>1, <1>2 DEF Occurs
<1> HIDE DEF l, p, q
<1>4. \A j \in 1..q : k + j \in 1..n
  BY <1>1, <1>3
<1>5. \A j \in 1..q : text[k + j] = part[j]
  BY <1>2, <1>3, <1>4
<1>6. k \in 0..(l - q) /\ k + q <= n
  BY <1>1, <1>3
<1> QED
  BY <1>1, <1>5, <1>6 DEF Occurs, l, q

\* A slice whose tokens are those of part is part.
LEMMA SliceIs ==
  ASSUME NEW S, NEW text \in Seq(S), NEW part \in Seq(S), NEW from \in Nat,
         from + Len(part) <= Len(text),
         \A i \in 1..Len(part) : text[from + i] = part[i]
  PROVE  Slice(text, from, from + Len(part)) = part
<1> DEFINE n == Len(part)
           l == Len(text)
           s == SubSeq(text, from + 1, from + n)
<1>1. n \in Nat /\ l \in Nat /\ from + n <= l /\ \A i \in 1..n : text[from + i] = part[i]
  BY LenProperties
<1>2. \A i \in 1..l : text[i] \in S
  BY ElementOfSeq
<1>3. /\ s \in Seq(S)
      /\ Len(s) = IF from + 1 <= from + n THEN (from + n) - (from + 1) + 1 ELSE 0
      /\ \A i \in 1..((from + n) - (from + 1) + 1) : s[i] = text[(from + 1) + i - 1]
  <2>1. \A i \in (from + 1)..(from + n) : text[i] \in S
    BY <1>1, <1>2
  <2>2. from + 1 \in Int /\ from + n \in Int
    BY <1>1
  <2> QED
    BY <2>1, <2>2, SubSeqProperties
<1> HIDE DEF n, l, s
<1>4. Len(s) = n
  BY <1>1, <1>3
<1>5. \A i \in 1..n : s[i] = part[i]
  <2> TAKE i \in 1..n
  <2>1. i \in 1..((from + n) - (from + 1) + 1) /\ (from + 1) + i - 1 = from + i
    BY <1>1
  <2> QED
    BY <2>1, <1>1, <1>3
<1>6. s = part
  BY <1>3, <1>4, <1>5, SeqEqual DEF n
<1> QED
  BY <1>6 DEF s, n, Slice

-----------------------------------------------------------------------------
(* The text of a message.                                                  *)

FilePart(m) == IF m.type = "Document" /\ m.file # <<>> THEN Colons \o m.file ELSE <<>>
Auth(m) == m.user \o Colons \o m.pass \o FilePart(m)
Opening(m) == TypeToString(m.type) \o Tabs \o m.data
Body(m) == Opening(m) \o AuthMark \o Auth(m)

\* Concatenation by another name, which the provers do not rewrite.
Join(a, b) == a \o b

\* What Join returns, token by token, and that it is associative.
LEMMA Joins ==
  /\ \A a, b \in Text :
       /\ Join(a, b) \in Text /\ Len(a) \in Nat /\ Len(Join(a, b)) = Len(a) + Len(b)
       /\ \A i \in 1..(Len(a) + Len(b)) :
            Join(a, b)[i] = IF i <= Len(a) THEN a[i] ELSE b[i - Len(a)]
  /\ \A a, b, c \in Text : Join(Join(a, b), c) = Join(a, Join(b, c))
<1>1. ASSUME NEW a \in Text, NEW b \in Text
      PROVE  /\ Join(a, b) \in Text /\ Len(a) \in Nat /\ Len(Join(a, b)) = Len(a) + Len(b)
             /\ \A i \in 1..(Len(a) + Len(b)) :
                  Join(a, b)[i] = IF i <= Len(a) THEN a[i] ELSE b[i - Len(a)]
  BY ConcatProperties, LenProperties DEF Text, Join
<1>2. ASSUME NEW a \in Text, NEW b \in Text, NEW c \in Text
      PROVE  Join(Join(a, b), c) = Join(a, Join(b, c))
  BY ConcatAssociative DEF Text, Join
<1> QED
  BY <1>1, <1>2

LEMMA MarksAre ==
  /\ AuthMark = <<"tab", "tab", "Auth", ":">>
  /\ AuthMark \in Text /\ Tabs \in Text /\ Colons \in Text /\ Blank \in Text
<1>1. {"tab", "nl", ":", "Auth"} \subseteq Tokens
  BY DEF Tokens, Chars
<1> HIDE DEF Tokens
<1>2. AuthMark = <<"tab", "tab", "Auth", ":">>
  <2> DEFINE b == <<"Auth", ":">>
             c == <<"tab", "tab", "Auth", ":">>
  <2>1. /\ Tabs \in Seq(Tokens) /\ Len(Tabs) = 2 /\ Tabs[1] = "tab" /\ Tabs[2] = "tab"
        /\ b \in Seq(Tokens) /\ Len(b) = 2 /\ b[1] = "Auth" /\ b[2] = ":"
        /\ c \in Seq(Tokens) /\ Len(c) = 4 /\ c[1] = "tab" /\ c[2] = "tab"
        /\ c[3] = "Auth" /\ c[4] = ":"
    BY <1>1 DEF Tabs
  <2> HIDE DEF b, c
  <2>2. /\ Tabs \o b \in Seq(Tokens) /\ Len(Tabs \o b) = Len(Tabs) + Len(b)
        /\ \A i \in 1..(Len(Tabs) + Len(b)) :
             (Tabs \o b)[i] = IF i <= Len(Tabs) THEN Tabs[i] ELSE b[i - Len(Tabs)]
    BY <2>1, ConcatProperties
  <2> DEFINE t == Tabs \o b
  <2> HIDE DEF t
  <2>3. t \in Seq(Tokens) /\ Len(t) = 4 /\ \A i \in 1..4 : t[i] = c[i]
    BY <2>1, <2>2 DEF t
  <2>4. t = c
    BY <2>1, <2>3, SeqEqual
  <2> QED
    BY <2>4 DEF AuthMark, t, b, c
<1>3. AuthMark \in Text
  BY <1>1, <1>2 DEF Text
<1> QED
  BY <1>1, <1>2, <1>3 DEF Tabs, Colons, Blank, Text

LEMMA FieldsAre ==
  ASSUME NEW m \in Sent
  PROVE  /\ m.data \in Text /\ m.user \in Text /\ m.pass \in Text /\ m.file \in Text
         /\ TypeToString(m.type) \in Text /\ Len(TypeToString(m.type)) = 1
         /\ FilePart(m) \in Text /\ Auth(m) \in Text /\ Opening(m) \in Text
         /\ Body(m) \in Text
<1>1. m.data \in Text /\ m.user \in Text /\ m.pass \in Text /\ m.file \in Text
  BY DEF Sent
<1>2. TypeToString(m.type) \in Text /\ Len(TypeToString(m.type)) = 1
  <2>1. "UNKNOWN" \in Tokens /\ KnownTypes \subseteq Tokens
    BY DEF Tokens
  <2> DEFINE e == IF m.type \in KnownTypes THEN m.type ELSE "UNKNOWN"
  <2>2. e \in Tokens
    BY <2>1
  <2> HIDE DEF e, Tokens
  <2>3. <<e>> \in Seq(Tokens) /\ Len(<<e>>) = 1
    BY <2>2
  <2> QED
    BY <2>3 DEF TypeToString, Text, e
<1>3. \A a, b \in Text : a \o b \in Text
  BY ConcatProperties DEF Text
<1>4. <<>> \in Text
  BY DEF Text
<1> HIDE DEF Text
<1>5. FilePart(m) \in Text
  BY <1>1, <1>3, <1>4, MarksAre DEF FilePart
<1>6. Auth(m) \in Text /\ Opening(m) \in Text
  BY <1>1, <1>2, <1>3, <1>5, MarksAre DEF Auth, Opening
<1>7. Body(m) \in Text
  BY <1>3, <1>6, MarksAre DEF Body
<1> QED
  BY <1>1, <1>2, <1>5, <1>6, <1>7

\* Serialize by the parts named above.
LEMMA SerializeIs ==
  ASSUME NEW m \in Sent
  PROVE  Serialize(m) = Body(m) \o Blank /\ Serialize(m) \in Text
<1> DEFINE h == Opening(m) \o AuthMark
           u == m.user
           p == m.pass
           f == FilePart(m)
<1>1. h \in Text /\ u \in Text /\ p \in Text /\ f \in Text /\ Colons \in Text
  <2>1. h = Join(Opening(m), AuthMark)
    BY DEF Join
  <2> QED
    BY <2>1, Joins, FieldsAre, MarksAre
<1>2. Serialize(m) = Join(Join(Join(Join(Join(h, u), Colons), p), f), Blank)
  BY DEF Serialize, Opening, FilePart, Join
<1>3. Body(m) = Join(h, Join(Join(Join(u, Colons), p), f))
  BY DEF Body, Auth, Join
<1> HIDE DEF h, u, p, f
<1>4. Join(Join(Join(Join(h, u), Colons), p), f) = Join(h, Join(Join(Join(u, Colons), p), f))
  <2>1. Join(Join(h, u), Colons) = Join(h, Join(u, Colons)) /\ Join(u, Colons) \in Text
    BY <1>1, Joins
  <2>2. Join(Join(h, Join(u, Colons)), p) = Join(h, Join(Join(u, Colons), p))
        /\ Join(Join(u, Colons), p) \in Text
    BY <1>1, <2>1, Joins
  <2>3. Join(Join(h, Join(Join(u, Colons), p)), f) = Join(h, Join(Join(Join(u, Colons), p), f))
    BY <1>1, <2>2, Joins
  <2> QED
    BY <2>1, <2>2, <2>3
<1>5. Serialize(m) = Join(Body(m), Blank)
  BY <1>2, <1>3, <1>4
<1>6. Serialize(m) \in Text
  BY <1>5, Joins, FieldsAre, MarksAre
<1> QED
  BY <1>5, <1>6 DEF Join

\* Which token stands where in the text of a message.
Layout(m, t, d, a) ==
  /\ Len(t) = d + a + 9
  /\ t[1] = TypeToString(m.type)[1]
  /\ t[2] = "tab" /\ t[3] = "tab"
  /\ \A i \in 1..d : t[3 + i] = m.data[i]
  /\ t[d + 4] = "tab" /\ t[d + 5] = "tab" /\ t[d + 6] = "Auth" /\ t[d + 7] = ":"
  /\ \A i \in 1..a : t[d + 7 + i] = Auth(m)[i]
  /\ t[d + a + 8] = "nl" /\ t[d + a + 9] = "nl"

LEMMA TextLayout ==
  ASSUME NEW m \in Sent
  PROVE  /\ Layout(m, Serialize(m), Len(m.data), Len(Auth(m)))
         /\ Len(Body(m)) = Len(m.data) + Len(Auth(m)) + 7
<1> DEFINE y == TypeToString(m.type)
           x == m.data
           w == Auth(m)
           s1 == Join(y, Tabs)
           s2 == Join(s1, x)
           s3 == Join(s2, AuthMark)
           s4 == Join(s3, w)
           t == Join(s4, Blank)
           d == Len(x)
           a == Len(w)
<1>1. t = Serialize(m) /\ s4 = Body(m)
  BY SerializeIs DEF Body, Opening, Join
<1>2. /\ y \in Text /\ Len(y) = 1 /\ x \in Text /\ w \in Text
      /\ d \in Nat /\ a \in Nat
  BY Joins, FieldsAre
<1>3. /\ Tabs \in Text /\ Blank \in Text /\ AuthMark \in Text
      /\ Len(Tabs) = 2 /\ Tabs[1] = "tab" /\ Tabs[2] = "tab"
      /\ Len(Blank) = 2 /\ Blank[1] = "nl" /\ Blank[2] = "nl"
      /\ Len(AuthMark) = 4 /\ AuthMark[1] = "tab" /\ AuthMark[2] = "tab"
      /\ AuthMark[3] = "Auth" /\ AuthMark[4] = ":"
  <2>1. /\ Len(Tabs) = 2 /\ Tabs[1] = "tab" /\ Tabs[2] = "tab"
        /\ Len(Blank) = 2 /\ Blank[1] = "nl" /\ Blank[2] = "nl"
    BY DEF Tabs, Blank
  <2>2. /\ Len(AuthMark) = 4 /\ AuthMark[1] = "tab" /\ AuthMark[2] = "tab"
        /\ AuthMark[3] = "Auth" /\ AuthMark[4] = ":"
    BY MarksAre
  <2> QED
    BY <2>1, <2>2, MarksAre
<1> HIDE DEF y, w, s1, s2, s3, s4, t, d, a
<1>4. s1 \in Text /\ Len(s1) = 3 /\ s1[1] = y[1] /\ s1[2] = "tab" /\ s1[3] = "tab"
  <2>1. /\ s1 \in Text /\ Len(s1) = Len(y) + Len(Tabs)
        /\ \A i \in 1..(Len(y) + Len(Tabs)) :
             s1[i] = IF i <= Len(y) THEN y[i] ELSE Tabs[i - Len(y)]
    BY Joins, <1>2, <1>3 DEF s1
  <2>2. \A i \in 1..3 : s1[i] = IF i <= 1 THEN y[i] ELSE Tabs[i - 1]
    BY <2>1, <1>2, <1>3
  <2> QED
    BY <2>1, <2>2, <1>2, <1>3
<1> HIDE DEF x
<1>5. /\ s2 \in Text /\ Len(s2) = 3 + d
      /\ \A i \in 1..(3 + d) : s2[i] = IF i <= 3 THEN s1[i] ELSE x[i - 3]
  <2>1. /\ s2 \in Text /\ Len(s2) = Len(s1) + Len(x)
        /\ \A i \in 1..(Len(s1) + Len(x)) :
             s2[i] = IF i <= Len(s1) THEN s1[i] ELSE x[i - Len(s1)]
    BY Joins, <1>2, <1>4 DEF s2
  <2>2. Len(s1) = 3 /\ Len(x) = d
    BY <1>4 DEF d
  <2> QED
    BY <2>1, <2>2
<1>6. /\ s3 \in Text /\ Len(s3) = d + 7
      /\ \A i \in 1..(d + 7) : s3[i] = IF i <= 3 + d THEN s2[i] ELSE AuthMark[i - (3 + d)]
  <2>1. /\ s3 \in Text /\ Len(s3) = Len(s2) + Len(AuthMark)
        /\ \A i \in 1..(Len(s2) + Len(AuthMark)) :
             s3[i] = IF i <= Len(s2) THEN s2[i] ELSE AuthMark[i - Len(s2)]
    BY Joins, <1>3, <1>5 DEF s3
  <2>2. Len(s2) = 3 + d /\ Len(AuthMark) = 4 /\ (3 + d) + 4 = d + 7
    BY <1>2, <1>3, <1>5
  <2> QED
    BY <2>1, <2>2
<1>7. /\ s4 \in Text /\ Len(s4) = (d + 7) + a
      /\ \A i \in 1..((d + 7) + a) : s4[i] = IF i <= d + 7 THEN s3[i] ELSE w[i - (d + 7)]
  <2>1. /\ s4 \in Text /\ Len(s4) = Len(s3) + Len(w)
        /\ \A i \in 1..(Len(s3) + Len(w)) :
             s4[i] = IF i <= Len(s3) THEN s3[i] ELSE w[i - Len(s3)]
    BY Joins, <1>2, <1>6 DEF s4
  <2>2. Len(s3) = d + 7 /\ Len(w) = a
    BY <1>6 DEF a
  <2> QED
    BY <2>1, <2>2
<1>8. /\ t \in Text /\ Len(t) = ((d + 7) + a) + 2
      /\ \A i \in 1..(((d + 7) + a) + 2) :
           t[i] = IF i <= (d + 7) + a THEN s4[i] ELSE Blank[i - ((d + 7) + a)]
  <2>1. /\ t \in Text /\ Len(t) = Len(s4) + Len(Blank)
        /\ \A i \in 1..(Len(s4) + Len(Blank)) :
             t[i] = IF i <= Len(s4) THEN s4[i] ELSE Blank[i - Len(s4)]
    BY Joins, <1>3, <1>7 DEF t
  <2>2. Len(s4) = (d + 7) + a /\ Len(Blank) = 2
    BY <1>3, <1>7
  <2> QED
    BY <2>1, <2>2
<1>9. \A i \in 1..3 : t[i] = s1[i]
  BY <1>2, <1>5, <1>6, <1>7, <1>8
<1>10. \A i \in 1..d : t[3 + i] = x[i]
  <2> TAKE i \in 1..d
  <2>1. /\ 3 + i \in 1..(3 + d) /\ 3 + i <= d + 7 /\ 3 + i <= (d + 7) + a
        /\ 3 + i \in 1..(d + 7) /\ 3 + i \in 1..((d + 7) + a)
        /\ 3 + i \in 1..(((d + 7) + a) + 2) /\ (3 + i) - 3 = i /\ ~(3 + i <= 3)
    BY <1>2
  <2> QED
    BY <2>1, <1>5, <1>6, <1>7, <1>8
<1>11. \A i \in 1..4 : t[(d + 3) + i] = AuthMark[i]
  <2> TAKE i \in 1..4
  <2>1. /\ (d + 3) + i \in 1..(d + 7) /\ ~((d + 3) + i <= 3 + d) /\ (d + 3) + i <= d + 7
        /\ (d + 3) + i \in 1..((d + 7) + a) /\ (d + 3) + i <= (d + 7) + a
        /\ (d + 3) + i \in 1..(((d + 7) + a) + 2) /\ ((d + 3) + i) - (3 + d) = i
    BY <1>2
  <2> QED
    BY <2>1, <1>6, <1>7, <1>8
<1>12. \A i \in 1..a : t[d + 7 + i] = w[i]
  <2> TAKE i \in 1..a
  <2>1. /\ ~(d + 7 + i <= d + 7) /\ (d + 7) + i \in 1..((d + 7) + a)
        /\ (d + 7) + i <= (d + 7) + a
        /\ (d + 7) + i \in 1..(((d + 7) + a) + 2) /\ ((d + 7) + i) - (d + 7) = i
    BY <1>2
  <2> QED
    BY <2>1, <1>7, <1>8
<1>13. t[d + a + 8] = "nl" /\ t[d + a + 9] = "nl"
  <2>1. \A i \in {1, 2} : t[((d + 7) + a) + i] = Blank[i]
    <3> TAKE i \in {1, 2}
    <3>1. /\ ((d + 7) + a) + i \in 1..(((d + 7) + a) + 2)
          /\ ~(((d + 7) + a) + i <= (d + 7) + a)
          /\ (((d + 7) + a) + i) - ((d + 7) + a) = i
      <4>1. d \in Nat /\ a \in Nat /\ i \in {1, 2}
        BY <1>2
      <4> QED
        BY <4>1
    <3> QED
      BY <3>1, <1>8
  <2>2. ((d + 7) + a) + 1 = d + a + 8 /\ ((d + 7) + a) + 2 = d + a + 9
    BY <1>2
  <2> QED
    BY <2>1, <2>2, <1>3
<1>14. t[d + 4] = "tab" /\ t[d + 5] = "tab" /\ t[d + 6] = "Auth" /\ t[d + 7] = ":"
  <2>1. (d + 3) + 1 = d + 4 /\ (d + 3) + 2 = d + 5 /\ (d + 3) + 3 = d + 6 /\ (d + 3) + 4 = d + 7
    BY <1>2
  <2> QED
    BY <2>1, <1>3, <1>11
<1>15. Len(t) = d + a + 9 /\ Len(s4) = d + a + 7
  BY <1>2, <1>7, <1>8
<1>16. Layout(m, t, d, a)
  BY <1>4, <1>9, <1>10, <1>12, <1>13, <1>14, <1>15 DEF Layout, x, y, w
<1> QED
  BY <1>1, <1>15, <1>16 DEF d, a, x, w

-----------------------------------------------------------------------------
(* Where Index finds the marks in the text of a plain message.             *)

\* Two texts without a double x have none at their seam, if it is no x on both sides.
LEMMA SingleJoin ==
  ASSUME NEW a \in Text, NEW b \in Text, NEW x \in Tokens,
         Single(x, a), Single(x, b), ~EndsWith(x, a) \/ Len(b) = 0 \/ b[1] # x
  PROVE  Single(x, Join(a, b))
BY SingleConcat DEF Text, Join

LEMMA EndJoin ==
  ASSUME NEW a \in Text, NEW b \in Text, NEW x \in Tokens,
         ~EndsWith(x, b), Len(b) > 0 \/ ~EndsWith(x, a)
  PROVE  ~EndsWith(x, Join(a, b))
<1> DEFINE m == Len(a)
           n == Len(b)
           t == Join(a, b)
<1>1. /\ m \in Nat /\ n \in Nat /\ Len(t) = m + n
      /\ \A i \in 1..(m + n) : t[i] = IF i <= m THEN a[i] ELSE b[i - m]
  BY Joins
<1>2. ~(n > 0 /\ b[n] = x) /\ (n > 0 \/ ~(m > 0 /\ a[m] = x))
  BY DEF EndsWith
<1> HIDE DEF m, n, t
<1> SUFFICES ASSUME Len(t) > 0, t[Len(t)] = x PROVE FALSE
  BY DEF EndsWith, t
<1>3. CASE n > 0
  <2>1. m + n \in 1..(m + n) /\ ~(m + n <= m) /\ (m + n) - m = n
    BY <1>1, <1>3
  <2> QED
    BY <2>1, <1>1, <1>2, <1>3
<1>4. CASE n = 0
  <2>1. m + n = m /\ m \in 1..(m + n)
    BY <1>1, <1>4
  <2> QED
    BY <2>1, <1>1, <1>2, <1>4
<1> QED
  BY <1>1, <1>3, <1>4

LEMMA WithoutToken ==
  ASSUME NEW a \in Text, NEW x, \A i \in 1..Len(a) : a[i] # x
  PROVE  Single(x, a) /\ ~EndsWith(x, a)
<1>1. Len(a) \in Nat
  BY Joins
<1>2. Single(x, a)
  <2> SUFFICES ASSUME NEW i \in Nat, i \in 1..(Len(a) - 1), a[i] = x PROVE FALSE
    BY DEF Single, Twice
  <2> QED
    BY <1>1
<1>3. ~EndsWith(x, a)
  BY <1>1 DEF EndsWith
<1> QED
  BY <1>2, <1>3

\* The fields of a plain message, in terms of pairs.
LEMMA PlainFields ==
  ASSUME NEW m \in Sent, Plain(m)
  PROVE  /\ m.type \in KnownTypes
         /\ m.type # "Document" => m.file = <<>>
         /\ FilePart(m) = IF m.file # <<>> THEN Colons \o m.file ELSE <<>>
         /\ Single("nl", m.data) /\ Single("nl", m.user) /\ Single("nl", m.pass)
         /\ Single("nl", m.file)
         /\ Single(":", m.user) /\ Single(":", m.pass) /\ Single(":", m.file)
         /\ ~EndsWith(":", m.user)
         /\ m.file = <<>> => ~EndsWith("nl", m.pass)
         /\ m.file # <<>> => ~EndsWith(":", m.pass) /\ ~EndsWith("nl", m.file)
         /\ \A k \in Nat : ~Occurs(AuthMark, Tabs \o m.data, k)
<1>1. /\ m.data \in Text /\ m.user \in Text /\ m.pass \in Text /\ m.file \in Text
      /\ AuthMark \in Text /\ Tabs \o m.data \in Text
  <2>1. Tabs \o m.data = Join(Tabs, m.data)
    BY DEF Join
  <2>2. m.data \in Text /\ Tabs \in Text
    BY FieldsAre, MarksAre
  <2>3. Join(Tabs, m.data) \in Text
    BY <2>2, Joins
  <2>4. Tabs \o m.data \in Text
    BY <2>1, <2>3, Zenon
  <2> QED
    BY <2>4, FieldsAre, MarksAre
<1>2. "nl" \in Tokens /\ ":" \in Tokens
  BY DEF Tokens, Chars
<1>3. \A f \in Text : ~Has(Blank, f) => Single("nl", f)
  BY <1>2, NotHasIsSingle DEF Text, Blank
<1>4. \A f \in Text : ~Has(Colons, f) => Single(":", f)
  BY <1>2, NotHasIsSingle DEF Text, Colons
<1>5. \A f \in Text : \A x \in Tokens : ~IsSuffix(<<x>>, f) => ~EndsWith(x, f)
  BY NotSuffix DEF Text
<1>6. /\ m.type \in KnownTypes
      /\ m.type # "Document" => m.file = <<>>
      /\ PlainData(m.data) /\ PlainName(m.user)
      /\ m.file = <<>> => PlainLast(m.pass)
      /\ m.file # <<>> => PlainName(m.pass) /\ PlainLast(m.file)
  BY DEF Plain
<1>7. Single("nl", m.file) /\ Single(":", m.file)
  <2>1. CASE m.file = <<>>
    <3>1. Len(m.file) = 0
      BY <2>1
    <3> QED
      BY <1>1, <3>1, WithoutToken
  <2>2. CASE m.file # <<>>
    BY <1>1, <1>3, <1>4, <1>6, <2>2 DEF PlainLast
  <2> QED
    BY <2>1, <2>2
<1>8. /\ Single("nl", m.pass) /\ Single(":", m.pass)
      /\ m.file = <<>> => ~EndsWith("nl", m.pass)
      /\ m.file # <<>> => ~EndsWith(":", m.pass) /\ ~EndsWith("nl", m.file)
  BY <1>1, <1>2, <1>3, <1>4, <1>5, <1>6 DEF PlainLast, PlainName
<1>9. Single("nl", m.user) /\ Single(":", m.user) /\ ~EndsWith(":", m.user)
  BY <1>1, <1>2, <1>3, <1>4, <1>5, <1>6 DEF PlainName
<1>10. Single("nl", m.data)
  BY <1>1, <1>3, <1>6 DEF PlainData
<1>11. \A k \in Nat : ~Occurs(AuthMark, Tabs \o m.data, k)
  BY <1>1, <1>6, HasNot DEF PlainData, Text
<1>12. FilePart(m) = IF m.file # <<>> THEN Colons \o m.file ELSE <<>>
  BY <1>6 DEF FilePart
<1> QED
  BY <1>6, <1>7, <1>8, <1>9, <1>10, <1>11, <1>12

\* Nothing in front of the blank line of a plain message is a blank line, nor starts one.
LEMMA PlainBody ==
  ASSUME NEW m \in Sent, Plain(m)
  PROVE  Single("nl", Body(m)) /\ ~EndsWith("nl", Body(m))
<1> DEFINE y == TypeToString(m.type)
           d == m.data
           u == m.user
           p == m.pass
           f == FilePart(m)
           x == "nl"
<1>1. /\ y \in Text /\ d \in Text /\ u \in Text /\ p \in Text /\ f \in Text
      /\ m.file \in Text
      /\ Tabs \in Text /\ AuthMark \in Text /\ Colons \in Text /\ x \in Tokens
  <2>1. x \in Tokens
    BY DEF Tokens, Chars
  <2> QED
    BY <2>1, FieldsAre, MarksAre
<1>2. /\ Len(Colons) = 2 /\ Colons[1] = ":" /\ Colons[2] = ":"
      /\ Len(Tabs) = 2 /\ Tabs[1] = "tab" /\ Tabs[2] = "tab"
      /\ Len(AuthMark) = 4 /\ AuthMark[1] = "tab" /\ AuthMark[2] = "tab"
      /\ AuthMark[3] = "Auth" /\ AuthMark[4] = ":"
  <2>1. /\ Len(Colons) = 2 /\ Colons[1] = ":" /\ Colons[2] = ":"
        /\ Len(Tabs) = 2 /\ Tabs[1] = "tab" /\ Tabs[2] = "tab"
    BY DEF Colons, Tabs
  <2>2. /\ Len(AuthMark) = 4 /\ AuthMark[1] = "tab" /\ AuthMark[2] = "tab"
        /\ AuthMark[3] = "Auth" /\ AuthMark[4] = ":"
    BY MarksAre
  <2> QED
    BY <2>1, <2>2
<1>3. /\ Single(x, Tabs) /\ ~EndsWith(x, Tabs)
      /\ Single(x, AuthMark) /\ ~EndsWith(x, AuthMark)
      /\ Single(x, Colons) /\ ~EndsWith(x, Colons)
  <2>1. \A i \in 1..Len(Tabs) : Tabs[i] # x
    BY <1>2
  <2>2. \A i \in 1..Len(AuthMark) : AuthMark[i] # x
    BY <1>2
  <2>3. \A i \in 1..Len(Colons) : Colons[i] # x
    BY <1>2
  <2> QED
    BY <1>1, <2>1, <2>2, <2>3, WithoutToken
<1>4. Single(x, y) /\ ~EndsWith(x, y)
  <2>1. m.type \in KnownTypes
    BY PlainFields
  <2>2. \A i \in 1..Len(y) : y[i] # x
    BY <2>1 DEF TypeToString, KnownTypes
  <2> QED
    BY <1>1, <2>2, WithoutToken
<1>5. /\ Single(x, d) /\ Single(x, u) /\ Single(x, p) /\ Single(x, m.file)
      /\ m.file = <<>> => ~EndsWith(x, p)
      /\ m.file # <<>> => ~EndsWith(x, m.file)
      /\ f = IF m.file # <<>> THEN Join(Colons, m.file) ELSE <<>>
  BY PlainFields DEF Join
<1>6. Body(m) = Join(Join(Join(Join(y, Tabs), d), AuthMark), Join(Join(Join(u, Colons), p), f))
  BY DEF Body, Opening, Auth, Join
<1> HIDE DEF y, d, u, p, f, x
<1>7. /\ Join(y, Tabs) \in Text /\ Single(x, Join(y, Tabs)) /\ ~EndsWith(x, Join(y, Tabs))
  BY <1>1, <1>2, <1>3, <1>4, Joins, SingleJoin, EndJoin
<1>8. /\ Join(Join(y, Tabs), d) \in Text /\ Single(x, Join(Join(y, Tabs), d))
  BY <1>1, <1>5, <1>7, Joins, SingleJoin
<1> DEFINE o == Join(Join(Join(y, Tabs), d), AuthMark)
<1>9. o \in Text /\ Single(x, o) /\ ~EndsWith(x, o)
  <2>1. AuthMark[1] # x
    BY <1>2 DEF x
  <2> DEFINE n == Join(Join(y, Tabs), d)
  <2>2. n \in Text /\ Single(x, n)
    BY <1>8
  <2> HIDE DEF n
  <2>3. Join(n, AuthMark) \in Text /\ Single(x, Join(n, AuthMark))
    BY <1>1, <1>3, <2>1, <2>2, Joins, SingleJoin
  <2>4. ~EndsWith(x, Join(n, AuthMark))
    <3>1. x \in Tokens /\ AuthMark \in Text /\ ~EndsWith(x, AuthMark) /\ Len(AuthMark) > 0
      BY <1>1, <1>2, <1>3
    <3> HIDE DEF o
    <3> QED
      BY <2>2, <3>1, EndJoin
  <2> QED
    BY <2>3, <2>4 DEF n
<1>10. /\ Join(u, Colons) \in Text /\ Single(x, Join(u, Colons)) /\ ~EndsWith(x, Join(u, Colons))
       /\ Len(Join(u, Colons)) > 0
  <2>1. Colons[1] # x /\ Len(Colons) > 0
    BY <1>2 DEF x
  <2>2. Join(u, Colons) \in Text /\ Len(Join(u, Colons)) = Len(u) + Len(Colons) /\ Len(u) \in Nat
    BY <1>1, Joins
  <2>3. Len(Join(u, Colons)) > 0
    BY <1>2, <2>2
  <2> QED
    BY <1>1, <1>3, <1>5, <2>1, <2>2, <2>3, SingleJoin, EndJoin
<1> DEFINE q == Join(Join(u, Colons), p)
<1>11. /\ q \in Text /\ Single(x, q) /\ Len(q) > 0
       /\ m.file = <<>> => ~EndsWith(x, q)
  <2>1. q \in Text /\ Len(q) = Len(Join(u, Colons)) + Len(p) /\ Len(p) \in Nat
        /\ Len(Join(u, Colons)) \in Nat
    BY <1>1, <1>10, Joins
  <2>2. Single(x, q)
    BY <1>1, <1>5, <1>10, SingleJoin
  <2>3. m.file = <<>> => ~EndsWith(x, q)
    BY <1>1, <1>5, <1>10, EndJoin
  <2> HIDE DEF q
  <2> QED
    BY <1>10, <2>1, <2>2, <2>3
<1> DEFINE w == Join(q, f)
<1>12. w \in Text /\ Single(x, w) /\ ~EndsWith(x, w) /\ Len(w) > 0
  <2> HIDE DEF q
  <2>1. w \in Text /\ Len(w) = Len(q) + Len(f) /\ Len(q) \in Nat /\ Len(f) \in Nat
    BY <1>1, <1>11, Joins
  <2>2. Len(w) > 0
    <3> HIDE DEF w
    <3> QED
      BY <1>11, <2>1
  <2>3. CASE m.file = <<>>
    <3>1. f = <<>> /\ Len(f) = 0 /\ \A i \in 1..Len(f) : f[i] # x
      BY <1>5, <2>3
    <3>2. Single(x, f) /\ ~EndsWith(x, f)
      BY <1>1, <3>1, WithoutToken
    <3> QED
      BY <1>1, <1>11, <2>1, <2>2, <2>3, <3>1, <3>2, SingleJoin, EndJoin
  <2>4. CASE m.file # <<>>
    <3>1. f = Join(Colons, m.file)
      BY <1>5, <2>4
    <3>2. Single(x, f) /\ ~EndsWith(x, f)
      <4>1. Single(x, m.file) /\ ~EndsWith(x, m.file) /\ Len(m.file) > 0
        <5>1. Len(m.file) > 0
          BY <1>1, <2>4, EmptySeq DEF Text
        <5> QED
          BY <5>1, <1>5, <2>4
      <4> QED
        BY <1>1, <1>3, <3>1, <4>1, SingleJoin, EndJoin
    <3>3. /\ Len(f) = Len(Colons) + Len(m.file)
          /\ Len(m.file) \in Nat
          /\ \A i \in 1..(Len(Colons) + Len(m.file)) :
               f[i] = IF i <= Len(Colons) THEN Colons[i] ELSE m.file[i - Len(Colons)]
      BY <1>1, <3>1, Joins
    <3>4. Len(f) > 0 /\ f[1] # x
      <4>1. f[1] = ":" /\ Len(f) > 0
        BY <1>2, <3>3
      <4> QED
        BY <4>1 DEF x
    <3> QED
      BY <1>1, <1>11, <2>1, <2>2, <3>2, <3>4, SingleJoin, EndJoin
  <2> QED
    BY <2>3, <2>4
<1>13. Body(m) = Join(o, w)
  BY <1>6
<1> HIDE DEF o, w
<1> QED
  BY <1>1, <1>9, <1>12, <1>13, SingleJoin, EndJoin DEF x

\* The first tabs stand behind the type, the first Auth mark behind the data,
\* the first blank line behind everything.
LEMMA MarksInText ==
  ASSUME NEW m \in Sent, Plain(m)
  PROVE  LET t == Serialize(m)
             d == Len(m.data)
             a == Len(Auth(m))
         IN /\ Occurs(Tabs, t, 1) /\ \A k \in Nat : Occurs(Tabs, t, k) => 1 <= k
            /\ Occurs(AuthMark, t, d + 3)
            /\ \A k \in Nat : Occurs(AuthMark, t, k) => d + 3 <= k
            /\ Occurs(Blank, t, d + a + 7)
            /\ \A k \in Nat : Occurs(Blank, t, k) => d + a + 7 <= k
<1> DEFINE t == Serialize(m)
           d == Len(m.data)
           a == Len(Auth(m))
           z == Tabs \o m.data
<1>1. t \in Text /\ d \in Nat /\ a \in Nat /\ Layout(m, t, d, a)
  BY SerializeIs, TextLayout, FieldsAre, Joins
<1>2. /\ Len(Tabs) = 2 /\ DOMAIN Tabs = {1, 2} /\ Tabs[1] = "tab" /\ Tabs[2] = "tab"
      /\ Len(AuthMark) = 4 /\ DOMAIN AuthMark = {1, 2, 3, 4}
      /\ AuthMark[1] = "tab" /\ AuthMark[2] = "tab"
      /\ AuthMark[3] = "Auth" /\ AuthMark[4] = ":"
  <2>1. Len(Tabs) = 2 /\ DOMAIN Tabs = {1, 2} /\ Tabs[1] = "tab" /\ Tabs[2] = "tab"
    BY DEF Tabs
  <2>2. /\ Len(AuthMark) = 4 /\ DOMAIN AuthMark = {1, 2, 3, 4}
        /\ AuthMark[1] = "tab" /\ AuthMark[2] = "tab"
        /\ AuthMark[3] = "Auth" /\ AuthMark[4] = ":"
    BY MarksAre
  <2> QED
    BY <2>1, <2>2
<1>3. /\ Len(t) = d + a + 9 /\ t[1] # "tab" /\ t[2] = "tab" /\ t[3] = "tab"
      /\ \A i \in 1..d : t[3 + i] = m.data[i]
      /\ t[d + 4] = "tab" /\ t[d + 5] = "tab" /\ t[d + 6] = "Auth" /\ t[d + 7] = ":"
  <2>1. m.type \in KnownTypes
    BY PlainFields
  <2>2. TypeToString(m.type)[1] # "tab"
    BY <2>1 DEF TypeToString, KnownTypes
  <2> HIDE DEF t, d, a
  <2> QED
    BY <1>1, <2>2 DEF Layout
<1>4. /\ Len(z) = 2 + d /\ z[1] = "tab" /\ z[2] = "tab"
      /\ \A i \in 1..d : z[2 + i] = m.data[i]
      /\ \A k \in Nat : ~Occurs(AuthMark, z, k)
  <2> DEFINE y == Join(Tabs, m.data)
  <2>1. z = y /\ \A k \in Nat : ~Occurs(AuthMark, z, k)
    BY PlainFields DEF Join
  <2>2. /\ Len(y) = Len(Tabs) + d
        /\ \A i \in 1..(Len(Tabs) + d) :
             y[i] = IF i <= Len(Tabs) THEN Tabs[i] ELSE m.data[i - Len(Tabs)]
    BY Joins, MarksAre, FieldsAre
  <2> HIDE DEF y, z, d
  <2>3. Len(y) = 2 + d /\ y[1] = "tab" /\ y[2] = "tab"
    BY <1>1, <1>2, <2>2
  <2>4. \A i \in 1..d : y[2 + i] = m.data[i]
    BY <1>1, <1>2, <2>2
  <2> QED
    BY <2>1, <2>3, <2>4
<1> HIDE DEF t, d, a, z
<1>5. Occurs(Tabs, t, 1)
  BY <1>1, <1>2, <1>3 DEF Occurs
<1>6. ASSUME NEW k \in Nat, Occurs(Tabs, t, k) PROVE 1 <= k
  <2>1. t[k + 1] = "tab"
    BY <1>2, <1>6 DEF Occurs
  <2>2. k # 0
    BY <1>3, <2>1
  <2> QED
    BY <2>2
<1>7. Occurs(AuthMark, t, d + 3)
  <2>1. (d + 3) + 1 = d + 4 /\ (d + 3) + 2 = d + 5 /\ (d + 3) + 3 = d + 6 /\ (d + 3) + 4 = d + 7
        /\ d + 3 \in 0..((d + a + 9) - 4)
    BY <1>1
  <2> QED
    BY <1>2, <1>3, <2>1 DEF Occurs
<1>8. ASSUME NEW k \in Nat, Occurs(AuthMark, t, k) PROVE d + 3 <= k
  <2> SUFFICES ASSUME k < d + 3 PROVE FALSE
    BY <1>1
  <2>1. t[k + 1] = "tab" /\ t[k + 2] = "tab" /\ t[k + 3] = "Auth" /\ t[k + 4] = ":"
    BY <1>2, <1>8 DEF Occurs
  <2>2. k # 0
    BY <1>3, <2>1
  <2>3. k # d /\ k # d + 1 /\ k # d + 2
    <3>1. (d + 1) + 3 = d + 4 /\ (d + 2) + 3 = d + 5
      BY <1>1
    <3> QED
      BY <1>3, <2>1, <3>1
  <2>4. k \in 1..(d - 1)
    BY <1>1, <2>2, <2>3
  <2>5. \A j \in 1..(2 + d) : z[j] = t[1 + j]
    <3> TAKE j \in 1..(2 + d)
    <3>1. CASE j <= 2
      BY <1>3, <1>4, <3>1
    <3>2. CASE j > 2
      <4>1. j - 2 \in 1..d /\ 2 + (j - 2) = j /\ 3 + (j - 2) = 1 + j
        BY <1>1, <3>2
      <4> QED
        BY <1>3, <1>4, <4>1
    <3> QED
      BY <1>1, <3>1, <3>2
  <2>6. \A j \in {1, 2, 3, 4} : (k - 1) + j \in 1..(2 + d) /\ 1 + ((k - 1) + j) = k + j
    BY <1>1, <2>4
  <2>7. \A j \in {1, 2, 3, 4} : z[(k - 1) + j] = t[k + j]
    BY <2>5, <2>6
  <2>8. k - 1 \in Nat /\ k - 1 \in 0..((2 + d) - 4)
    BY <1>1, <2>4
  <2>9. Occurs(AuthMark, z, k - 1)
    BY <1>2, <1>4, <2>1, <2>7, <2>8 DEF Occurs
  <2> QED
    BY <1>4, <2>8, <2>9
<1>9. /\ Occurs(Blank, t, d + a + 7)
      /\ \A k \in Nat : Occurs(Blank, t, k) => d + a + 7 <= k
  <2>1. Index(Blank, t) = Len(Body(m))
    <3>1. /\ Body(m) \in Seq(Tokens) /\ "nl" \in Tokens /\ Blank \in Seq(Tokens)
          /\ Single("nl", Body(m)) /\ ~EndsWith("nl", Body(m))
      BY PlainBody, FieldsAre, MarksAre DEF Text, Tokens, Chars
    <3>2. Len(Blank) >= 2 /\ Blank[1] = "nl" /\ Blank[2] = "nl" /\ Blank = <<"nl", "nl">>
      BY DEF Blank
    <3>3. Index(<<"nl", "nl">>, Body(m) \o Blank) = Len(Body(m))
      BY <3>1, <3>2, FirstPair
    <3> QED
      BY <3>2, <3>3, SerializeIs DEF t
  <2>2. Len(Body(m)) = d + a + 7
    BY TextLayout DEF d, a
  <2>3. d + a + 7 \in Nat /\ d + a + 7 # None
    BY <1>1 DEF None
  <2> QED
    BY <1>1, <2>1, <2>2, <2>3, IndexFinds, MarksAre DEF Text
<1> QED
  BY <1>5, <1>6, <1>7, <1>8, <1>9 DEF t, d, a

\* The three marks are found where Serialize wrote them: in a plain message the
\* data and the names hold none, nor any that begins in one and ends in the next.
LEMMA MarksFound ==
  ASSUME NEW m \in Sent, Plain(m)
  PROVE  LET t == Serialize(m)
             d == Len(m.data)
             a == Len(Auth(m))
         IN /\ Index(Tabs, t) = 1 /\ Index(AuthMark, t) = d + 3
            /\ Index(Blank, t) = d + a + 7 /\ ReceiveEnd(t) = Len(t)
            /\ Len(t) = d + a + 9 /\ d \in Nat /\ a \in Nat
<1> DEFINE t == Serialize(m)
           d == Len(m.data)
           a == Len(Auth(m))
<1>1. /\ t \in Text /\ d \in Nat /\ a \in Nat /\ Len(t) = d + a + 9
      /\ Tabs \in Text /\ AuthMark \in Text /\ Blank \in Text
  BY SerializeIs, TextLayout, FieldsAre, MarksAre, Joins DEF Layout
<1>2. /\ Occurs(Tabs, t, 1) /\ \A k \in Nat : Occurs(Tabs, t, k) => 1 <= k
      /\ Occurs(AuthMark, t, d + 3)
      /\ \A k \in Nat : Occurs(AuthMark, t, k) => d + 3 <= k
      /\ Occurs(Blank, t, d + a + 7)
      /\ \A k \in Nat : Occurs(Blank, t, k) => d + a + 7 <= k
  BY MarksInText
<1> HIDE DEF t, d, a
<1>3. 1 \in Nat /\ d + 3 \in Nat /\ d + a + 7 \in Nat
  BY <1>1
<1>4. Index(Tabs, t) = 1 /\ Index(AuthMark, t) = d + 3 /\ Index(Blank, t) = d + a + 7
  BY <1>1, <1>2, <1>3, IndexIs DEF Text
<1>5. ReceiveEnd(t) = Len(t)
  <2>1. d + a + 7 # None /\ (d + a + 7) + 2 = d + a + 9
    BY <1>1 DEF None
  <2> QED
    BY <1>1, <1>4, <2>1 DEF ReceiveEnd
<1> QED
  BY <1>1, <1>4, <1>5 DEF t, d, a

-----------------------------------------------------------------------------
(* What Deserialize makes of the text of a plain message.                  *)

LEMMA CutNone ==
  ASSUME NEW a \in Text, Single(":", a)
  PROVE  Cut(a) = <<a>>
<1>1. ":" \in Tokens
  BY DEF Tokens, Chars
<1>2. Index(Colons, a) = None
  BY <1>1, SingleHasNone DEF Text, Colons
<1> QED
  BY <1>2 DEF Cut

\* Cut at a pair of colons that nothing in front of it collides with.
LEMMA CutAt ==
  ASSUME NEW a \in Text, NEW b \in Text, Single(":", a), ~EndsWith(":", a)
  PROVE  Cut(Join(a, Join(Colons, b))) = <<a, b>>
<1> DEFINE c == Join(Colons, b)
           t == Join(a, c)
           n == Len(a)
           k == Len(b)
<1>1. /\ Colons \in Text /\ ":" \in Tokens /\ Colons = <<":", ":">>
      /\ Len(Colons) = 2 /\ Colons[1] = ":" /\ Colons[2] = ":"
  BY MarksAre DEF Colons, Tokens, Chars
<1>2. /\ c \in Text /\ Len(c) = Len(Colons) + k /\ n \in Nat /\ k \in Nat
      /\ \A i \in 1..(Len(Colons) + k) :
           c[i] = IF i <= Len(Colons) THEN Colons[i] ELSE b[i - Len(Colons)]
  BY <1>1, Joins
<1> HIDE DEF c, n, k
<1>3. Len(c) = 2 + k /\ c[1] = ":" /\ c[2] = ":" /\ \A i \in 1..k : c[2 + i] = b[i]
  BY <1>1, <1>2
<1>4. /\ t \in Text /\ Len(t) = n + Len(c)
      /\ \A i \in 1..(n + Len(c)) : t[i] = IF i <= n THEN a[i] ELSE c[i - n]
  BY <1>2, Joins DEF n
<1>5. Index(Colons, t) = n
  <2>1. a \in Seq(Tokens) /\ c \in Seq(Tokens) /\ Len(c) >= 2
    BY <1>2, <1>3 DEF Text
  <2>2. Index(<<":", ":">>, a \o c) = Len(a)
    BY <1>1, <1>3, <2>1, FirstPair
  <2> QED
    BY <1>1, <2>2 DEF Join, n
<1> HIDE DEF t
<1>6. Slice(t, 0, n) = a
  <2>1. 0 + n <= Len(t) /\ \A i \in 1..n : t[0 + i] = a[i]
    BY <1>2, <1>3, <1>4
  <2>2. Slice(t, 0, 0 + Len(a)) = a
    BY <1>4, <2>1, SliceIs DEF Text, n
  <2>3. 0 + Len(a) = n
    BY <1>2 DEF n
  <2> QED
    BY <2>2, <2>3
<1>7. Slice(t, n + 2, Len(t)) = b
  <2>1. (n + 2) + k = Len(t)
    BY <1>2, <1>3, <1>4
  <2>2. \A i \in 1..k : t[(n + 2) + i] = b[i]
    <3> TAKE i \in 1..k
    <3>1. (n + 2) + i \in 1..(n + Len(c)) /\ ~((n + 2) + i <= n) /\ ((n + 2) + i) - n = 2 + i
      BY <1>2, <1>3
    <3> QED
      BY <3>1, <1>3, <1>4
  <2>3. n + 2 \in Nat /\ (n + 2) + k <= Len(t)
    BY <1>2, <2>1
  <2>4. Slice(t, n + 2, (n + 2) + Len(b)) = b
    BY <1>4, <2>2, <2>3, SliceIs DEF Text, k
  <2> QED
    BY <2>1, <2>4 DEF k
<1>8. n # None
  BY <1>2 DEF None
<1> QED
  BY <1>5, <1>6, <1>7, <1>8 DEF Cut, t, c

\* A sequence of two or three parts.
LEMMA Parts ==
  ASSUME NEW u, NEW p, NEW f, NEW b
  PROVE  /\ Cut(p) = <<p>> => CutLast(<<u, p>>) = <<u, p>>
         /\ Cut(b) = <<p, f>> => CutLast(<<u, b>>) = <<u, p, f>>
         /\ Cut(f) = <<f>> => CutLast(<<u, p, f>>) = <<u, p, f>>
<1> DEFINE S == {u, p, f, b}
           s1 == <<u>>
           s2 == <<u, p>>
           s3 == <<u, p, f>>
           s4 == <<u, b>>
           t1 == <<p>>
           t2 == <<p, f>>
           t3 == <<f>>
<1>0. u \in S /\ p \in S /\ f \in S /\ b \in S
  OBVIOUS
<1> HIDE DEF S
<1>1. /\ s1 \in Seq(S) /\ Len(s1) = 1 /\ s1[1] = u
      /\ s2 \in Seq(S) /\ Len(s2) = 2 /\ s2[1] = u /\ s2[2] = p
      /\ s3 \in Seq(S) /\ Len(s3) = 3 /\ s3[1] = u /\ s3[2] = p /\ s3[3] = f
      /\ s4 \in Seq(S) /\ Len(s4) = 2 /\ s4[1] = u /\ s4[2] = b
      /\ t1 \in Seq(S) /\ Len(t1) = 1 /\ t1[1] = p
      /\ t2 \in Seq(S) /\ Len(t2) = 2 /\ t2[1] = p /\ t2[2] = f
      /\ t3 \in Seq(S) /\ Len(t3) = 1 /\ t3[1] = f
  BY <1>0
<1>2. Last(s2) = p /\ Last(s3) = f /\ Last(s4) = b
  BY <1>1 DEF Last
<1> HIDE DEF s1, s2, s3, s4, t1, t2, t3
<1>3. \A q \in {s2, s4} : Front(q) = s1
  <2> TAKE q \in {s2, s4}
  <2>0. q \in Seq(S) /\ Len(q) = 2 /\ q[1] = u /\ q[2] \in S
    BY <1>0, <1>1
  <2>1. \A i \in 1..1 : q[i] \in S
    BY <1>0, <2>0
  <2>2. SubSeq(q, 1, 1) \in Seq(S) /\ Len(SubSeq(q, 1, 1)) = 1 /\ SubSeq(q, 1, 1)[1] = u
    BY <2>0, <2>1, SubSeqProperties
  <2>3. SubSeq(q, 1, 1) = s1
    <3> DEFINE r == SubSeq(q, 1, 1)
    <3> HIDE DEF r
    <3>1. r \in Seq(S) /\ Len(r) = Len(s1) /\ \A i \in 1..Len(r) : r[i] = s1[i]
      BY <1>1, <2>2 DEF r
    <3> QED
      BY <1>1, <3>1, SeqEqual DEF r
  <2> QED
    BY <2>0, <2>3 DEF Front
<1>4. Front(s3) = s2
  <2>1. \A i \in 1..2 : s3[i] \in S
    BY <1>0, <1>1
  <2>2. /\ SubSeq(s3, 1, 2) \in Seq(S) /\ Len(SubSeq(s3, 1, 2)) = 2
        /\ SubSeq(s3, 1, 2)[1] = u /\ SubSeq(s3, 1, 2)[2] = p
    BY <1>1, <2>1, SubSeqProperties
  <2>3. SubSeq(s3, 1, 2) = s2
    <3> DEFINE q == SubSeq(s3, 1, 2)
    <3> HIDE DEF q
    <3>1. q \in Seq(S) /\ Len(q) = Len(s2) /\ \A i \in 1..Len(q) : q[i] = s2[i]
      BY <1>1, <2>2 DEF q
    <3> QED
      BY <1>1, <3>1, SeqEqual DEF q
  <2> QED
    BY <1>1, <2>3 DEF Front
<1>5. s1 \o t1 = s2 /\ s1 \o t2 = s3 /\ s2 \o t3 = s3
  <2>1. \A v, w \in Seq(S) :
          /\ Len(v \o w) = Len(v) + Len(w) /\ v \o w \in Seq(S)
          /\ \A i \in 1..(Len(v) + Len(w)) :
               (v \o w)[i] = IF i <= Len(v) THEN v[i] ELSE w[i - Len(v)]
    BY ConcatProperties
  <2> DEFINE J(v, w) == v \o w
  <2>2. \A v, w \in Seq(S) :
          /\ Len(J(v, w)) = Len(v) + Len(w) /\ J(v, w) \in Seq(S)
          /\ \A i \in 1..(Len(v) + Len(w)) :
               J(v, w)[i] = IF i <= Len(v) THEN v[i] ELSE w[i - Len(v)]
    BY <2>1
  <2> HIDE DEF J
  <2> DEFINE q1 == J(s1, t1)
             q2 == J(s1, t2)
             q3 == J(s2, t3)
  <2>3. /\ q1 \in Seq(S) /\ Len(q1) = 2
        /\ \A i \in 1..2 : q1[i] = IF i <= 1 THEN s1[i] ELSE t1[i - 1]
    <3>1. /\ q1 \in Seq(S) /\ Len(q1) = Len(s1) + Len(t1)
          /\ \A i \in 1..(Len(s1) + Len(t1)) :
               q1[i] = IF i <= Len(s1) THEN s1[i] ELSE t1[i - Len(s1)]
      BY <1>1, <2>2
    <3> HIDE DEF q1
    <3> QED
      BY <1>1, <3>1
  <2>4. /\ q2 \in Seq(S) /\ Len(q2) = 3
        /\ \A i \in 1..3 : q2[i] = IF i <= 1 THEN s1[i] ELSE t2[i - 1]
    <3>1. /\ q2 \in Seq(S) /\ Len(q2) = Len(s1) + Len(t2)
          /\ \A i \in 1..(Len(s1) + Len(t2)) :
               q2[i] = IF i <= Len(s1) THEN s1[i] ELSE t2[i - Len(s1)]
      BY <1>1, <2>2
    <3> HIDE DEF q2
    <3> QED
      BY <1>1, <3>1
  <2>5. /\ q3 \in Seq(S) /\ Len(q3) = 3
        /\ \A i \in 1..3 : q3[i] = IF i <= 2 THEN s2[i] ELSE t3[i - 2]
    <3>1. /\ q3 \in Seq(S) /\ Len(q3) = Len(s2) + Len(t3)
          /\ \A i \in 1..(Len(s2) + Len(t3)) :
               q3[i] = IF i <= Len(s2) THEN s2[i] ELSE t3[i - Len(s2)]
      BY <1>1, <2>2
    <3> HIDE DEF q3
    <3> QED
      BY <1>1, <3>1
  <2> HIDE DEF q1, q2, q3
  <2>6. q1 = s2
    <3>1. Len(q1) = Len(s2) /\ \A i \in 1..Len(q1) : q1[i] = s2[i]
      BY <1>1, <2>3
    <3> QED
      BY <1>1, <2>3, <3>1, SeqEqual
  <2>7. q2 = s3
    <3>1. Len(q2) = Len(s3) /\ \A i \in 1..Len(q2) : q2[i] = s3[i]
      BY <1>1, <2>4
    <3> QED
      BY <1>1, <2>4, <3>1, SeqEqual
  <2>8. q3 = s3
    <3>1. Len(q3) = Len(s3) /\ \A i \in 1..Len(q3) : q3[i] = s3[i]
      BY <1>1, <2>5
    <3> QED
      BY <1>1, <2>5, <3>1, SeqEqual
  <2> QED
    BY <2>6, <2>7, <2>8 DEF q1, q2, q3, J
<1>6. /\ Cut(p) = t1 => CutLast(s2) = s2
      /\ Cut(b) = t2 => CutLast(s4) = s3
      /\ Cut(f) = t3 => CutLast(s3) = s3
  BY <1>2, <1>3, <1>4, <1>5 DEF CutLast
<1> QED
  BY <1>6 DEF s1, s2, s3, s4, t1, t2, t3

\* The names of a plain message come apart as they were put together.
LEMMA PlainParts ==
  ASSUME NEW m \in Sent, Plain(m)
  PROVE  CutLast(CutLast(Cut(Auth(m))))
           = IF m.file = <<>> THEN <<m.user, m.pass>> ELSE <<m.user, m.pass, m.file>>
<1> DEFINE u == m.user
           p == m.pass
           f == m.file
<1>1. u \in Text /\ p \in Text /\ f \in Text /\ Colons \in Text
  BY FieldsAre, MarksAre
<1>2. /\ FilePart(m) = IF f # <<>> THEN Join(Colons, f) ELSE <<>>
      /\ Single(":", u) /\ Single(":", p) /\ Single(":", f) /\ ~EndsWith(":", u)
      /\ f # <<>> => ~EndsWith(":", p)
  BY PlainFields DEF Join
<1>3. Auth(m) = Join(Join(Join(u, Colons), p), FilePart(m))
  BY DEF Auth, Join
<1> HIDE DEF u, p, f
<1>4. Join(Join(u, Colons), p) = Join(u, Join(Colons, p)) /\ Join(Colons, p) \in Text
      /\ Join(u, Join(Colons, p)) \in Text
  BY <1>1, Joins
<1>5. CASE f = <<>>
  <2>1. Auth(m) = Join(u, Join(Colons, p))
    <3> DEFINE q == Join(u, Join(Colons, p))
    <3>1. q \in Seq(Tokens) /\ Auth(m) = Join(q, <<>>)
      BY <1>2, <1>3, <1>4, <1>5 DEF Text
    <3> HIDE DEF q
    <3>2. Join(q, <<>>) = q
      BY <3>1, ConcatEmptySeq DEF Join
    <3> QED
      BY <3>1, <3>2 DEF q
  <2>2. Cut(Auth(m)) = <<u, p>>
    BY <1>1, <1>2, <2>1, CutAt
  <2>3. Cut(p) = <<p>>
    BY <1>1, <1>2, CutNone
  <2>4. CutLast(<<u, p>>) = <<u, p>>
    BY <2>3, Parts
  <2> QED
    BY <1>5, <2>2, <2>4 DEF u, p, f
<1>6. CASE f # <<>>
  <2> DEFINE c == Join(Colons, f)
             b == Join(p, c)
  <2>1. c \in Text /\ b \in Text /\ Join(Colons, b) \in Text
    BY <1>1, Joins
  <2>2. Auth(m) = Join(u, Join(Colons, b))
    <3>1. FilePart(m) = c
      BY <1>2, <1>6
    <3> HIDE DEF c
    <3>2. Join(Join(u, Join(Colons, p)), c) = Join(u, Join(Join(Colons, p), c))
      BY <1>1, <1>4, <2>1, Joins
    <3>3. Join(Join(Colons, p), c) = Join(Colons, Join(p, c))
      BY <1>1, <2>1, Joins
    <3> QED
      BY <1>3, <1>4, <3>1, <3>2, <3>3
  <2>3. Cut(Auth(m)) = <<u, b>>
    <3> HIDE DEF b
    <3> QED
      BY <1>1, <1>2, <2>1, <2>2, CutAt
  <2>4. Cut(b) = <<p, f>>
    BY <1>1, <1>2, <1>6, CutAt
  <2>5. Cut(f) = <<f>>
    BY <1>1, <1>2, CutNone
  <2> HIDE DEF b
  <2>6. CutLast(<<u, b>>) = <<u, p, f>>
    BY <2>4, Parts
  <2>7. CutLast(<<u, p, f>>) = <<u, p, f>>
    BY <2>5, Parts
  <2> QED
    BY <1>6, <2>3, <2>6, <2>7 DEF u, p, f
<1> QED
  BY <1>5, <1>6

\* The slices Deserialize takes where Serialize wrote the marks.
LEMMA Pieces ==
  ASSUME NEW m \in Sent
  PROVE  LET t == Serialize(m)
             d == Len(m.data)
             a == Len(Auth(m))
         IN /\ Slice(t, 0, 1) = TypeToString(m.type)
            /\ Slice(t, 3, d + 3) = m.data
            /\ Slice(t, (d + 3) + 4, d + a + 7) = Auth(m)
<1> DEFINE t == Serialize(m)
           d == Len(m.data)
           a == Len(Auth(m))
           w == Auth(m)
<1>1. /\ Len(t) = d + a + 9 /\ d \in Nat /\ a \in Nat /\ t \in Text
      /\ Layout(m, t, d, a)
  BY SerializeIs, TextLayout, FieldsAre, Joins DEF Layout
<1>2. m.data \in Text /\ w \in Text /\ TypeToString(m.type) \in Text
      /\ Len(TypeToString(m.type)) = 1
  BY FieldsAre
<1>3. Slice(t, (d + 3) + 4, d + a + 7) = w
  <2>1. (d + 7) + Len(w) = d + a + 7 /\ (d + 3) + 4 = d + 7 /\ d + 7 \in Nat
        /\ (d + 7) + Len(w) <= Len(t)
    BY <1>1
  <2>2. \A i \in 1..Len(w) : t[(d + 7) + i] = w[i]
    BY <1>1 DEF Layout
  <2>3. Slice(t, d + 7, (d + 7) + Len(w)) = w
    BY <1>1, <1>2, <2>1, <2>2, SliceIs DEF Text
  <2> QED
    BY <2>1, <2>3
<1>4. Slice(t, 3, d + 3) = m.data
  <2>1. 3 + Len(m.data) = d + 3 /\ 3 \in Nat /\ 3 + Len(m.data) <= Len(t)
    BY <1>1
  <2>2. \A i \in 1..Len(m.data) : t[3 + i] = m.data[i]
    BY <1>1 DEF Layout
  <2>3. Slice(t, 3, 3 + Len(m.data)) = m.data
    BY <1>1, <1>2, <2>1, <2>2, SliceIs DEF Text
  <2> QED
    BY <2>1, <2>3
<1>5. Slice(t, 0, 1) = TypeToString(m.type)
  <2> DEFINE y == TypeToString(m.type)
  <2>1. 0 + Len(y) = 1 /\ 0 + Len(y) <= Len(t)
    BY <1>1, <1>2
  <2>2. \A i \in 1..Len(y) : t[0 + i] = y[i]
    BY <1>1, <1>2 DEF Layout
  <2> HIDE DEF y
  <2>3. Slice(t, 0, 0 + Len(y)) = y
    BY <1>1, <1>2, <2>1, <2>2, SliceIs DEF Text, y
  <2> QED
    BY <2>1, <2>3 DEF y
<1> QED
  BY <1>3, <1>4, <1>5

\* However long its fields are: Deserialize returns, field by field, the plain
\* message that Serialize was given, and does not panic.
THEOREM PlainRoundTrip ==
  ASSUME NEW m \in Sent, Plain(m)
  PROVE  LET parsed == Deserialize(Serialize(m))
         IN /\ parsed = [went |-> "message", msg |-> m]
            /\ parsed.went = "message" /\ parsed.msg = m
            /\ parsed # Invalid /\ parsed # Panic
<1> DEFINE t == Serialize(m)
           d == Len(m.data)
           a == Len(Auth(m))
           w == Auth(m)
           parts == CutLast(CutLast(Cut(w)))
           back == [type |-> m.type, data |-> m.data, user |-> m.user, pass |-> m.pass,
                    file |-> m.file]
<1>1. /\ Index(Tabs, t) = 1 /\ Index(AuthMark, t) = d + 3 /\ Index(Blank, t) = d + a + 7
      /\ Len(t) = d + a + 9 /\ d \in Nat /\ a \in Nat /\ t \in Text
      /\ Layout(m, t, d, a)
  BY MarksFound, SerializeIs, TextLayout
<1>2. Len(AuthMark) = 4
  BY MarksAre
<1>3. m.data \in Text /\ w \in Text /\ TypeToString(m.type) \in Text
      /\ Len(TypeToString(m.type)) = 1
  BY FieldsAre
<1>4. Slice(t, (d + 3) + 4, d + a + 7) = w
  BY Pieces
<1>5. Slice(t, 3, d + 3) = m.data
  BY Pieces
<1>6. Slice(t, 0, 1) = TypeToString(m.type)
  BY Pieces
<1>7. StringToType(TypeToString(m.type)) = m.type
  <2>1. m.type \in KnownTypes
    BY PlainFields
  <2>2. TypeToString(m.type) = <<m.type>>
    BY <2>1 DEF TypeToString
  <2> QED
    BY <2>1, <2>2 DEF StringToType
<1>8. parts = IF m.file = <<>> THEN <<m.user, m.pass>> ELSE <<m.user, m.pass, m.file>>
  BY PlainParts
<1>9. m.type # "Document" => m.file = <<>>
  BY PlainFields
<1>10. /\ Len(parts) >= 2 /\ parts[1] = m.user /\ parts[2] = m.pass
       /\ (IF m.type = "Document" /\ Len(parts) > 2 THEN parts[3] ELSE <<>>) = m.file
  <2> HIDE DEF parts
  <2>1. CASE m.file = <<>>
    <3>1. parts = <<m.user, m.pass>>
      BY <1>8, <2>1
    <3> QED
      BY <2>1, <3>1
  <2>2. CASE m.file # <<>>
    <3>1. parts = <<m.user, m.pass, m.file>> /\ m.type = "Document"
      BY <1>8, <1>9, <2>2
    <3> QED
      BY <3>1
  <2> QED
    BY <2>1, <2>2
<1> HIDE DEF t, d, a, w
<1>11. /\ 1 # None /\ d + 3 # None /\ d + a + 7 # None
       /\ ~(1 + 2 > d + 3) /\ ~((d + 3) + 4 > d + a + 7) /\ DataStart(1) = 3
  BY <1>1 DEF None, DataStart
<1>12. Deserialize(t)
         = [went |-> "message",
            msg |-> [type |-> StringToType(Slice(t, 0, 1)),
                     data |-> Slice(t, DataStart(1), d + 3),
                     user |-> parts[1], pass |-> parts[2],
                     file |-> IF StringToType(Slice(t, 0, 1)) = "Document" /\ Len(parts) > 2
                                THEN parts[3] ELSE <<>>]]
  <2> HIDE DEF parts
  <2>1. parts = CutLast(CutLast(Cut(Slice(t, (d + 3) + Len(AuthMark), d + a + 7))))
    BY <1>2, <1>4 DEF parts
  <2>2. ~(Len(parts) < 2) /\ ~((d + 3) + Len(AuthMark) > d + a + 7)
    <3>1. Len(parts) >= 2 => ~(Len(parts) < 2)
      BY <1>8 DEF parts
    <3> QED
      BY <1>2, <1>10, <1>11, <3>1
  <2> QED
    BY <1>1, <1>11, <2>1, <2>2 DEF Deserialize
<1>13. Deserialize(t) = [went |-> "message", msg |-> back]
  BY <1>5, <1>6, <1>7, <1>10, <1>11, <1>12
<1>14. back = m
  BY DEF Sent
<1> HIDE DEF back
<1>15. [went |-> "message", msg |-> back] # Invalid
  BY DEF Invalid
<1>16. [went |-> "message", msg |-> back] # Panic
  BY DEF Panic
<1> QED
  BY <1>13, <1>14, <1>15, <1>16 DEF t

\* A text that was cut before its end is no message, and no blank line shows
\* where it should have ended.
LEMMA PlainCut ==
  ASSUME NEW m \in Sent, Plain(m), NEW n \in Nat, n < Len(Serialize(m))
  PROVE  LET p == SubSeq(Serialize(m), 1, n)
         IN ReceiveEnd(p) = None /\ Deserialize(p) = Invalid
<1> DEFINE t == Serialize(m)
           d == Len(m.data)
           a == Len(Auth(m))
           p == SubSeq(t, 1, n)
<1>1. /\ Len(t) = d + a + 9 /\ d \in Nat /\ a \in Nat /\ t \in Seq(Tokens) /\ n < Len(t)
      /\ Tabs \in Seq(Tokens) /\ AuthMark \in Seq(Tokens) /\ Blank \in Seq(Tokens)
  BY MarksFound, SerializeIs, MarksAre DEF Text
<1>2. /\ Occurs(Tabs, t, 1) /\ \A k \in Nat : Occurs(Tabs, t, k) => 1 <= k
      /\ \A k \in Nat : Occurs(AuthMark, t, k) => d + 3 <= k
      /\ \A k \in Nat : Occurs(Blank, t, k) => d + a + 7 <= k
  BY MarksInText
<1>3. Len(Tabs) = 2 /\ Tabs[1] = "tab" /\ Tabs[2] = "tab" /\ DOMAIN Tabs = {1, 2}
      /\ Len(Blank) = 2
  BY DEF Tabs, Blank
<1>4. n \in 0..Len(t)
  BY <1>1
<1> HIDE DEF t, d, a, p
<1>5. p \in Seq(Tokens) /\ Len(p) = n /\ \A i \in 1..n : p[i] = t[i]
  <2>1. \A i \in 1..n : t[i] \in Tokens
    BY <1>1, <1>4, ElementOfSeq
  <2>2. p \in Seq(Tokens) /\ Len(p) = IF 1 <= n THEN n - 1 + 1 ELSE 0
    BY <2>1, SubSeqProperties DEF p
  <2>3. \A i \in 1..(n - 1 + 1) : p[i] = t[1 + i - 1]
    BY <2>1, SubSeqProperties DEF p
  <2>4. ASSUME NEW i \in 1..n PROVE p[i] = t[i]
    <3>1. i \in 1..(n - 1 + 1) /\ 1 + i - 1 = i
      BY <1>4
    <3> QED
      BY <2>3, <3>1
  <2>5. Len(p) = n
    BY <2>2, <1>4
  <2> QED
    BY <2>2, <2>4, <2>5
<1>6. \A k \in Nat : ~Occurs(Blank, p, k)
  <2> SUFFICES ASSUME NEW k \in Nat, Occurs(Blank, p, k) PROVE FALSE
    OBVIOUS
  <2>1. Occurs(Blank, t, k) /\ k + 2 <= n
    BY <1>1, <1>3, <1>4, OccursInPrefix DEF p
  <2>2. d + a + 7 <= k
    BY <1>2, <2>1
  <2> QED
    BY <1>1, <2>1, <2>2
<1>7. Index(Blank, p) = None
  BY <1>1, <1>5, <1>6, IndexNone
<1>8. \/ Index(AuthMark, p) = None
      \/ Index(AuthMark, p) \in Nat /\ d + 3 <= Index(AuthMark, p)
  <2> DEFINE i == Index(AuthMark, p)
  <2>1. i = None \/ (i \in Nat /\ Occurs(AuthMark, p, i))
    BY <1>1, <1>5, IndexFinds
  <2> HIDE DEF i
  <2>2. i \in Nat /\ Occurs(AuthMark, p, i) => Occurs(AuthMark, t, i)
    BY <1>1, <1>4, OccursInPrefix DEF p
  <2> QED
    BY <1>2, <2>1, <2>2 DEF i
<1>9. CASE Index(Tabs, p) = None \/ Index(AuthMark, p) = None
  BY <1>7, <1>9 DEF Deserialize, ReceiveEnd, p, t
<1>10. CASE Index(Tabs, p) # None /\ Index(AuthMark, p) # None
  <2> DEFINE i == Index(Tabs, p)
             j == Index(AuthMark, p)
  <2>1. /\ i \in Nat /\ Occurs(Tabs, p, i) /\ \A k \in Nat : Occurs(Tabs, p, k) => i <= k
    BY <1>1, <1>5, <1>10, IndexFinds
  <2>2. j \in Nat /\ d + 3 <= j
    BY <1>8, <1>10
  <2>3. i <= 1
    <3>1. i + 2 <= n /\ Occurs(Tabs, t, i)
      BY <1>1, <1>3, <1>4, <2>1, OccursInPrefix DEF p
    <3>2. 1 <= i
      BY <1>2, <2>1, <3>1
    <3>3. t[2] = "tab" /\ t[3] = "tab"
      BY <1>2, <1>3 DEF Occurs
    <3> HIDE DEF i
    <3>4. 3 <= n
      BY <2>1, <3>1, <3>2
    <3>5. Occurs(Tabs, p, 1)
      <4>1. 1 \in 0..(n - 2) /\ p[2] = "tab" /\ p[3] = "tab"
        BY <1>5, <3>3, <3>4
      <4> QED
        BY <1>3, <1>5, <4>1 DEF Occurs
    <3> QED
      BY <2>1, <3>5
  <2> HIDE DEF i, j
  <2>4. ~(i + 2 > j)
    BY <1>1, <2>1, <2>2, <2>3
  <2> QED
    BY <1>7, <1>10, <2>4 DEF Deserialize, ReceiveEnd, i, j, p, t
<1> QED
  BY <1>9, <1>10

-----------------------------------------------------------------------------
(* Responses.                                                              *)

RespTokens == Digits \cup {"RESP", ":", "nl"}

\* How far the digits behind the mark of a response reach.
DigitsEnd(text) ==
  2 + Cardinality({i \in 3..Len(text) : \A j \in 3..i : text[j] \in Digits})

\* The digits of a response end where the first other token stands.
LEMMA DigitsRun ==
  ASSUME NEW S, NEW text \in Seq(S)
  PROVE  LET q == DigitsEnd(text)
         IN /\ q \in Nat /\ q >= 2
            /\ \A i \in 3..q : i <= Len(text) /\ text[i] \in Digits
            /\ q + 1 <= Len(text) => text[q + 1] \notin Digits
<1> DEFINE n == Len(text)
           A == {i \in 3..n : \A j \in 3..i : text[j] \in Digits}
           B == {i \in Nat : i >= 3 /\ i \notin A}
<1>1. n \in Nat
  BY LenProperties
<1> HIDE DEF n
<1>2. n + 3 \in B
  BY <1>1
<1>3. PICK b \in B : \A k \in B : b <= k
  <2>1. B \subseteq Nat /\ B # {}
    BY <1>2
  <2> HIDE DEF B
  <2> QED
    BY <2>1, LeastOf
<1>4. b \in Nat /\ b >= 3 /\ b \notin A
  BY <1>3
<1>5. \A i \in 3..(b - 1) : i \in A
  <2> TAKE i \in 3..(b - 1)
  <2>1. i \in Nat /\ i >= 3 /\ ~(b <= i)
    BY <1>4
  <2> HIDE DEF A
  <2>2. i \notin B
    BY <1>3, <2>1
  <2> QED
    BY <2>1, <2>2
<1>6. \A i \in A : i \in 3..(b - 1)
  <2> SUFFICES ASSUME NEW i \in A, i >= b PROVE FALSE
    BY <1>1, <1>4
  <2>1. \A j \in 3..b : text[j] \in Digits
    BY <1>1, <1>4
  <2>2. b \in 3..n
    BY <1>1, <1>4
  <2> QED
    BY <1>4, <2>1, <2>2
<1>7. A = 3..(b - 1)
  <2> HIDE DEF A
  <2>1. A \subseteq 3..(b - 1)
    BY <1>6
  <2>2. 3..(b - 1) \subseteq A
    BY <1>5
  <2> QED
    BY <2>1, <2>2
<1>8. Cardinality(3..(b - 1)) = b - 3
  <2>1. 3 \in Int /\ b - 1 \in Int
    BY <1>4
  <2>2. Cardinality(3..(b - 1)) = IF 3 > b - 1 THEN 0 ELSE (b - 1) - 3 + 1
    BY <2>1, FS_Interval
  <2> QED
    BY <1>4, <2>2
<1>9. DigitsEnd(text) = b - 1
  <2>1. DigitsEnd(text) = 2 + Cardinality(A)
    BY DEF DigitsEnd, n
  <2> HIDE DEF A
  <2> QED
    BY <1>4, <1>7, <1>8, <2>1
<1>10. \A i \in 3..(b - 1) : i <= n /\ text[i] \in Digits
  BY <1>1, <1>5
<1>11. b <= n => text[b] \notin Digits
  <2> SUFFICES ASSUME b <= n, text[b] \in Digits PROVE FALSE
    OBVIOUS
  <2>1. \A j \in 3..b : text[j] \in Digits
    BY <1>4, <1>10
  <2> QED
    BY <1>1, <1>4, <2>1
<1>12. b - 1 \in Nat /\ b - 1 >= 2 /\ (b - 1) + 1 = b
  BY <1>4
<1> QED
  BY <1>9, <1>10, <1>11, <1>12 DEF n

\* What ParseResponse returns for any text.
LEMMA ParsedIs ==
  ASSUME NEW S, NEW text \in Seq(S)
  PROVE  LET code == SubSeq(text, 3, DigitsEnd(text))
         IN /\ code \in Seq(Digits)
            /\ \/ ParseResponse(text) = Invalid
               \/ /\ ParseResponse(text) = [went |-> "code", code |-> code]
                  /\ IsPrefix(RespMark, text)
<1> DEFINE q == DigitsEnd(text)
           code == SubSeq(text, 3, q)
<1>1. q \in Nat /\ \A i \in 3..q : text[i] \in Digits
  BY DigitsRun
<1>2. code \in Seq(Digits)
  <2> HIDE DEF q
  <2>1. 3 \in Int /\ q \in Int
    BY <1>1
  <2> QED
    BY <1>1, <2>1, SubSeqProperties
<1>3. \/ ParseResponse(text) = Invalid
      \/ /\ ParseResponse(text) = [went |-> "code", code |-> code]
         /\ IsPrefix(RespMark, text)
  BY DEF ParseResponse, DigitsEnd
<1> QED
  BY <1>2, <1>3

LEMMA ResponseLayout ==
  ASSUME NEW code \in Seq(Digits)
  PROVE  LET t == SerializeResponse(code)
             c == Len(code)
         IN /\ t \in Seq(RespTokens) /\ c \in Nat /\ Len(t) = c + 4
            /\ t[1] = "RESP" /\ t[2] = ":" /\ \A i \in 1..c : t[2 + i] = code[i]
            /\ t[c + 3] = "nl" /\ t[c + 4] = "nl"
<1> DEFINE c == Len(code)
           s == RespMark \o code
           t == s \o Blank
<1>1. /\ code \in Seq(RespTokens) /\ c \in Nat
      /\ RespMark \in Seq(RespTokens) /\ Len(RespMark) = 2
      /\ RespMark[1] = "RESP" /\ RespMark[2] = ":"
      /\ Blank \in Seq(RespTokens) /\ Len(Blank) = 2 /\ Blank[1] = "nl" /\ Blank[2] = "nl"
  <2>1. Digits \subseteq RespTokens /\ {"RESP", ":", "nl"} \subseteq RespTokens
    BY DEF RespTokens
  <2>2. code \in Seq(RespTokens)
    BY <2>1, SeqMonotonic
  <2> HIDE DEF RespTokens
  <2> QED
    BY <2>1, <2>2, LenProperties DEF RespMark, Blank
<1>2. /\ s \in Seq(RespTokens) /\ Len(s) = Len(RespMark) + c
      /\ \A i \in 1..(Len(RespMark) + c) :
           s[i] = IF i <= Len(RespMark) THEN RespMark[i] ELSE code[i - Len(RespMark)]
  BY <1>1, ConcatProperties
<1> HIDE DEF s, c
<1>3. /\ Len(s) = 2 + c /\ s[1] = "RESP" /\ s[2] = ":"
      /\ \A i \in 1..c : s[2 + i] = code[i]
  BY <1>1, <1>2
<1>4. /\ t \in Seq(RespTokens) /\ Len(t) = Len(s) + Len(Blank)
      /\ \A i \in 1..(Len(s) + Len(Blank)) :
           t[i] = IF i <= Len(s) THEN s[i] ELSE Blank[i - Len(s)]
  BY <1>1, <1>2, ConcatProperties
<1> HIDE DEF t
<1>5. Len(t) = c + 4 /\ t[1] = "RESP" /\ t[2] = ":"
  BY <1>1, <1>3, <1>4
<1>6. \A i \in 1..c : t[2 + i] = code[i]
  <2> TAKE i \in 1..c
  <2>1. 2 + i \in 1..((2 + c) + 2) /\ 2 + i <= 2 + c
    BY <1>1
  <2> QED
    BY <2>1, <1>1, <1>3, <1>4
<1>7. t[c + 3] = "nl" /\ t[c + 4] = "nl"
  <2>1. /\ c + 3 \in 1..((2 + c) + 2) /\ ~(c + 3 <= 2 + c) /\ (c + 3) - (2 + c) = 1
        /\ c + 4 \in 1..((2 + c) + 2) /\ ~(c + 4 <= 2 + c) /\ (c + 4) - (2 + c) = 2
    BY <1>1
  <2> QED
    BY <2>1, <1>1, <1>3, <1>4
<1> QED
  BY <1>1, <1>4, <1>5, <1>6, <1>7 DEF SerializeResponse, s, t, c

\* A whole response is read as its code; of one that was cut no blank line
\* shows the end, and at most a prefix of the code is read.
LEMMA ResponsePart ==
  ASSUME NEW code \in Seq(Digits), NEW n \in 0..Len(SerializeResponse(code))
  PROVE  LET t == SerializeResponse(code)
             p == SubSeq(t, 1, n)
             read == ParseResponse(p)
         IN /\ ReceiveEnd(t) = Len(t)
            /\ n < Len(t) => ReceiveEnd(p) = None
            /\ \/ read = Invalid
               \/ \E x \in Seq(Digits) :
                    /\ read = [went |-> "code", code |-> x]
                    /\ IsPrefix(x, code)
                    /\ n = Len(t) => x = code
<1> DEFINE t == SerializeResponse(code)
           c == Len(code)
           p == SubSeq(t, 1, n)
           q == DigitsEnd(p)
           x == SubSeq(p, 3, q)
<1>1. /\ t \in Seq(RespTokens) /\ c \in Nat /\ Len(t) = c + 4 /\ n \in 0..Len(t)
      /\ t[1] = "RESP" /\ t[2] = ":" /\ \A i \in 1..c : t[2 + i] = code[i]
      /\ t[c + 3] = "nl" /\ t[c + 4] = "nl"
  BY ResponseLayout
<1>2. "nl" \notin Digits /\ "nl" \in RespTokens /\ Blank \in Seq(RespTokens) /\ Len(Blank) = 2
      /\ Blank = <<"nl", "nl">>
  <2>1. "nl" \notin Digits /\ "nl" \in RespTokens
    BY DEF Digits, RespTokens
  <2> HIDE DEF RespTokens
  <2> QED
    BY <2>1 DEF Blank
<1> HIDE DEF t, c
<1>3. \A i \in 1..(c + 2) : t[i] # "nl"
  <2> TAKE i \in 1..(c + 2)
  <2>1. CASE i <= 2
    BY <1>1, <2>1
  <2>2. CASE i > 2
    <3>1. i - 2 \in 1..c /\ 2 + (i - 2) = i
      BY <1>1, <2>2
    <3>2. code[i - 2] \in Digits
      BY <3>1, ElementOfSeq DEF c
    <3> QED
      BY <3>1, <3>2, <1>1, <1>2
  <2> QED
    BY <1>1, <2>1, <2>2
<1>4. \A k \in Nat : Occurs(Blank, t, k) => c + 2 <= k
  <2> SUFFICES ASSUME NEW k \in Nat, Occurs(Blank, t, k), k < c + 2 PROVE FALSE
    BY <1>1
  <2>1. t[k + 1] = "nl"
    BY <1>1, <1>2, OccursTwice DEF Twice
  <2>2. k + 1 \in 1..(c + 2)
    BY <1>1
  <2> QED
    BY <1>3, <2>1, <2>2
<1>5. ReceiveEnd(t) = Len(t)
  <2>1. Twice("nl", t, (c + 2) + 1)
    <3>1. (c + 2) + 1 = c + 3 /\ (c + 3) + 1 = c + 4 /\ c + 3 \in 1..((c + 4) - 1)
      BY <1>1
    <3> QED
      BY <1>1, <3>1 DEF Twice
  <2>2. c + 2 \in Nat /\ Occurs(Blank, t, c + 2)
    BY <1>1, <1>2, <2>1, OccursTwice
  <2>3. Index(Blank, t) = c + 2
    BY <1>1, <1>2, <1>4, <2>2, IndexIs
  <2>4. c + 2 # None /\ (c + 2) + 2 = c + 4
    BY <1>1 DEF None
  <2> QED
    BY <1>1, <2>3, <2>4 DEF ReceiveEnd
<1> HIDE DEF p
<1>6. p \in Seq(RespTokens) /\ Len(p) = n /\ \A i \in 1..n : p[i] = t[i]
  <2>1. n \in Int /\ \A i \in 1..n : t[i] \in RespTokens
    BY <1>1, ElementOfSeq
  <2>2. p \in Seq(RespTokens) /\ Len(p) = IF 1 <= n THEN n - 1 + 1 ELSE 0
    BY <2>1, SubSeqProperties DEF p
  <2>3. \A i \in 1..(n - 1 + 1) : p[i] = t[1 + i - 1]
    BY <2>1, SubSeqProperties DEF p
  <2> QED
    BY <1>1, <2>2, <2>3
<1>7. ASSUME n < Len(t) PROVE ReceiveEnd(p) = None
  <2>1. \A k \in Nat : ~Occurs(Blank, p, k)
    <3> SUFFICES ASSUME NEW k \in Nat, Occurs(Blank, p, k) PROVE FALSE
      OBVIOUS
    <3>1. Occurs(Blank, t, k) /\ k + 2 <= n
      BY <1>1, <1>2, OccursInPrefix DEF p
    <3>2. c + 2 <= k
      BY <1>4, <3>1
    <3> QED
      BY <1>1, <1>7, <3>1, <3>2
  <2>2. Index(Blank, p) = None
    BY <1>2, <1>6, <2>1, IndexNone
  <2> QED
    BY <2>2 DEF ReceiveEnd
<1>8. /\ q \in Nat /\ q >= 2 /\ \A i \in 3..q : i <= n /\ p[i] \in Digits
      /\ q + 1 <= n => p[q + 1] \notin Digits
  BY <1>6, DigitsRun
<1>9. /\ x \in Seq(Digits)
      /\ \/ ParseResponse(p) = Invalid
         \/ ParseResponse(p) = [went |-> "code", code |-> x]
  BY <1>6, ParsedIs
<1> HIDE DEF q
<1>10. q <= c + 2
  <2> SUFFICES ASSUME q >= c + 3 PROVE FALSE
    BY <1>1, <1>8
  <2>1. c + 3 \in 3..q
    BY <1>1, <1>8
  <2>2. c + 3 <= n /\ p[c + 3] \in Digits
    BY <1>8, <2>1
  <2>3. c + 3 \in 1..n
    BY <1>1, <2>2
  <2> QED
    BY <1>1, <1>2, <1>6, <2>2, <2>3
<1>11. n = Len(t) => q = c + 2
  <2> SUFFICES ASSUME n = c + 4, q < c + 2 PROVE FALSE
    BY <1>1, <1>8, <1>10
  <2>1. q + 1 \in 1..n /\ q - 1 \in 1..c /\ 2 + (q - 1) = q + 1 /\ q + 1 <= n
    BY <1>1, <1>8
  <2>2. p[q + 1] = code[q - 1]
    BY <1>1, <1>6, <2>1
  <2>3. code[q - 1] \in Digits
    BY <2>1, ElementOfSeq DEF c
  <2> QED
    BY <1>8, <2>1, <2>2, <2>3
<1>12. Len(x) = q - 2 /\ \A i \in 1..(q - 2) : x[i] = code[i]
  <2>1. 3 \in Int /\ q \in Int /\ \A i \in 3..q : p[i] \in Digits
    BY <1>8
  <2>2. /\ Len(x) = IF 3 <= q THEN q - 3 + 1 ELSE 0
        /\ \A i \in 1..(q - 3 + 1) : x[i] = p[3 + i - 1]
    BY <2>1, SubSeqProperties
  <2> HIDE DEF x
  <2>3. Len(x) = q - 2
    BY <1>8, <2>2
  <2>4. \A i \in 1..(q - 2) : x[i] = code[i]
    <3> TAKE i \in 1..(q - 2)
    <3>1. /\ i \in 1..(q - 3 + 1) /\ 3 + i - 1 = 2 + i /\ 2 + i \in 3..q /\ i \in 1..c
      BY <1>1, <1>8, <1>10
    <3>2. 2 + i \in 1..n
      <4>1. n \in Nat
        BY <1>1
      <4>2. \A j \in 3..q : j <= n
        BY <1>8
      <4>3. 2 + i <= n
        BY <3>1, <4>2
      <4> QED
        BY <4>1, <4>3
    <3> QED
      BY <1>1, <1>6, <2>2, <3>1, <3>2
  <2> QED
    BY <2>3, <2>4
<1> HIDE DEF x
<1>13. IsPrefix(x, code)
  <2> DEFINE k == q - 2
             y == SubSeq(x, 1, k)
             z == SubSeq(code, 1, k)
  <2>1. k \in Nat /\ k <= c /\ Len(x) = k
    BY <1>1, <1>8, <1>10, <1>12
  <2>2. \A i \in 1..k : x[i] = code[i] /\ code[i] \in Digits
    <3> TAKE i \in 1..k
    <3>1. i \in 1..Len(code)
      BY <1>1, <2>1 DEF c
    <3> QED
      BY <1>12, <3>1, ElementOfSeq
  <2> HIDE DEF k
  <2>3. /\ y \in Seq(Digits) /\ Len(y) = IF 1 <= k THEN k - 1 + 1 ELSE 0
        /\ \A i \in 1..(k - 1 + 1) : y[i] = x[1 + i - 1]
    BY <2>1, <2>2, SubSeqProperties
  <2>4. /\ z \in Seq(Digits) /\ Len(z) = IF 1 <= k THEN k - 1 + 1 ELSE 0
        /\ \A i \in 1..(k - 1 + 1) : z[i] = code[1 + i - 1]
    BY <2>1, <2>2, SubSeqProperties
  <2> HIDE DEF y, z
  <2>5. y = z
    <3>1. Len(y) = k /\ Len(z) = k /\ \A i \in 1..k : y[i] = z[i]
      BY <2>1, <2>2, <2>3, <2>4
    <3> QED
      BY <2>3, <2>4, <3>1, SeqEqual
  <2> QED
    BY <2>1, <2>5 DEF IsPrefix, y, z, c
<1>14. n = Len(t) => x = code
  <2> SUFFICES ASSUME q = c + 2 PROVE x = code
    BY <1>11
  <2>1. Len(x) = Len(code) /\ \A i \in 1..Len(x) : x[i] = code[i]
    BY <1>1, <1>12 DEF c
  <2> QED
    BY <1>9, <2>1, SeqEqual
<1> QED
  BY <1>5, <1>7, <1>9, <1>13, <1>14 DEF t, p

-----------------------------------------------------------------------------
(* What Receive and Deserialize return for any text.                       *)

LEMMA SliceType ==
  ASSUME NEW S, NEW text \in Seq(S), NEW from \in Nat, NEW to \in Nat, to <= Len(text)
  PROVE  Slice(text, from, to) \in Seq(S)
<1>1. \A i \in 1..Len(text) : text[i] \in S
  BY ElementOfSeq
<1>2. Len(text) \in Nat
  BY LenProperties
<1>3. \A i \in (from + 1)..to : text[i] \in S
  BY <1>1, <1>2
<1>4. from + 1 \in Int /\ to \in Int
  OBVIOUS
<1> QED
  BY <1>3, <1>4, SubSeqProperties DEF Slice

LEMMA WholeSlice ==
  ASSUME NEW S, NEW text \in Seq(S)
  PROVE  Slice(text, 0, Len(text)) = text /\ Slice(text, Len(text), Len(text)) = <<>>
<1>1. Len(text) \in Nat /\ 0 + 1 = 1
  BY LenProperties
<1>2. SubSeq(text, 1, Len(text)) = text
  BY SubSeqFull
<1>3. SubSeq(text, Len(text) + 1, Len(text)) = <<>>
  <2> DEFINE n == Len(text)
  <2> HIDE DEF n
  <2>1. n + 1 \in Int /\ n \in Int /\ n < n + 1
    BY <1>1 DEF n
  <2>2. SubSeq(text, n + 1, n) = <<>>
    BY <2>1, SubSeqEmpty
  <2> QED
    BY <2>2 DEF n
<1> QED
  BY <1>1, <1>2, <1>3 DEF Slice

LEMMA IndexRange ==
  ASSUME NEW S, NEW text \in Seq(S), NEW part \in Seq(S), Index(part, text) # None
  PROVE  Index(part, text) \in Nat /\ Index(part, text) + Len(part) <= Len(text)
<1> DEFINE i == Index(part, text)
<1>1. i \in Nat /\ i \in 0..(Len(text) - Len(part))
  BY IndexFinds DEF Occurs
<1>2. Len(text) \in Nat /\ Len(part) \in Nat
  BY LenProperties
<1> HIDE DEF i
<1>3. i + Len(part) <= Len(text)
  BY <1>1, <1>2
<1> QED
  BY <1>1, <1>3 DEF i

LEMMA CutType ==
  ASSUME NEW text \in Text
  PROVE  Cut(text) \in Seq(Text) /\ Cut(text) # <<>>
<1> DEFINE i == Index(Colons, text)
<1>1. text \in Seq(Tokens) /\ Colons \in Seq(Tokens) /\ Len(Colons) = 2 /\ Len(text) \in Nat
  BY MarksAre, LenProperties DEF Text, Colons
<1>2. CASE i = None
  <2>1. Cut(text) = <<text>>
    BY <1>2 DEF Cut
  <2> QED
    BY <2>1
<1>3. CASE i # None
  <2>1. i \in Nat /\ i + 2 <= Len(text)
    BY <1>1, <1>3, IndexRange
  <2> HIDE DEF i
  <2>2. i <= Len(text) /\ i + 2 \in Nat /\ Len(text) <= Len(text)
    BY <1>1, <2>1
  <2>3. Slice(text, 0, i) \in Text
    BY <1>1, <2>1, <2>2, SliceType DEF Text
  <2>4. Slice(text, i + 2, Len(text)) \in Text
    BY <1>1, <2>2, SliceType DEF Text
  <2>5. Cut(text) = <<Slice(text, 0, i), Slice(text, i + 2, Len(text))>>
    BY <1>3 DEF Cut, i
  <2> HIDE DEF Text
  <2> QED
    BY <2>3, <2>4, <2>5
<1> QED
  BY <1>2, <1>3

LEMMA CutLastType ==
  ASSUME NEW parts \in Seq(Text), parts # <<>>
  PROVE  CutLast(parts) \in Seq(Text) /\ CutLast(parts) # <<>>
<1> DEFINE n == Len(parts)
           f == Front(parts)
           g == Cut(Last(parts))
           T == Text
<1> HIDE DEF T
<1>1. n \in Nat /\ n > 0 /\ \A i \in 1..n : parts[i] \in T
  BY EmptySeq, LenProperties, ElementOfSeq DEF T
<1>2. Last(parts) \in T
  BY <1>1 DEF Last
<1>3. g \in Seq(T) /\ g # <<>>
  BY <1>2, CutType DEF T
<1> HIDE DEF n, g
<1>4. f \in Seq(T)
  <2>1. 1 \in Int /\ n - 1 \in Int /\ \A i \in 1..(n - 1) : parts[i] \in T
    BY <1>1
  <2> QED
    BY <2>1, SubSeqProperties DEF Front, n
<1> HIDE DEF f
<1>5. f \o g \in Seq(T) /\ f \o g # <<>>
  BY <1>3, <1>4, ConcatProperties, ConcatEqualIffEmpty
<1> QED
  BY <1>5 DEF CutLast, f, g, T

LEMMA PrefixIs ==
  ASSUME NEW S, NEW s \in Seq(S), NEW p \in Prefixes(s)
  PROVE  /\ p \in Seq(S)
         /\ \E n \in 0..Len(s) : p = SubSeq(s, 1, n) /\ Len(p) = n
<1>1. PICK n \in 0..Len(s) : p = SubSeq(s, 1, n)
  BY DEF Prefixes
<1>2. Len(s) \in Nat /\ n \in Nat /\ n <= Len(s)
  BY LenProperties
<1>3. 1 \in Int /\ n \in Int /\ \A i \in 1..n : s[i] \in S
  BY <1>2, ElementOfSeq
<1>4. p \in Seq(S) /\ Len(p) = IF 1 <= n THEN n - 1 + 1 ELSE 0
  BY <1>1, <1>3, SubSeqProperties
<1>5. Len(p) = n
  BY <1>2, <1>4
<1> QED
  BY <1>1, <1>4, <1>5

-----------------------------------------------------------------------------
(* The converse: what a message must be for its text to be read back.      *)

LEMMA SuffixEnds ==
  ASSUME NEW S, NEW text \in Seq(S), NEW x, IsSuffix(<<x>>, text)
  PROVE  EndsWith(x, text)
<1> DEFINE l == Len(text)
           r == Reverse(text)
           y == Reverse(<<x>>)
<1>1. l \in Nat
  BY LenProperties
<1>2. r = [i \in 1..l |-> text[(l - i) + 1]]
  BY DEF Reverse
<1>3. Len(<<x>>) = 1 /\ <<x>>[1] = x
  OBVIOUS
<1>4. y = [i \in 1..1 |-> <<x>>[(1 - i) + 1]]
  BY <1>3 DEF Reverse
<1>5. Len(y) <= Len(r) /\ SubSeq(y, 1, Len(y)) = SubSeq(r, 1, Len(y))
  BY DEF IsSuffix, IsPrefix
<1> HIDE DEF l, r, y
<1>6. Len(y) = 1 /\ y[1] = x
  BY <1>3, <1>4
<1>7. Len(r) = l
  BY <1>1, <1>2
<1>8. l > 0
  BY <1>1, <1>5, <1>6, <1>7
<1>9. r[1] = text[l]
  BY <1>1, <1>2, <1>8
<1>10. SubSeq(y, 1, 1) = SubSeq(r, 1, 1)
  BY <1>5, <1>6
<1>11. SubSeq(y, 1, 1)[1] = y[1] /\ SubSeq(r, 1, 1)[1] = r[1]
  OBVIOUS
<1> QED
  BY <1>6, <1>8, <1>9, <1>10, <1>11 DEF EndsWith, l

\* The clauses of Plain, in terms of pairs.
LEMMA PlainIf ==
  ASSUME NEW f \in Text
  PROVE  /\ Single("nl", f) => ~Has(Blank, f)
         /\ Single(":", f) => ~Has(Colons, f)
         /\ ~EndsWith(":", f) => ~IsSuffix(<<":">>, f)
         /\ ~EndsWith("nl", f) => ~IsSuffix(<<"nl">>, f)
<1>1. "nl" \in Tokens /\ ":" \in Tokens /\ f \in Seq(Tokens)
  BY DEF Tokens, Chars, Text
<1>2. Single("nl", f) => ~Has(Blank, f)
  BY <1>1, SingleHasNone DEF Has, Blank
<1>3. Single(":", f) => ~Has(Colons, f)
  BY <1>1, SingleHasNone DEF Has, Colons
<1> QED
  BY <1>1, <1>2, <1>3, SuffixEnds

\* What a text lacks, its parts lack.
LEMMA SinglePart ==
  ASSUME NEW a \in Text, NEW b \in Text, NEW x, Single(x, Join(a, b))
  PROVE  Single(x, a) /\ Single(x, b)
<1> DEFINE m == Len(a)
           n == Len(b)
           t == Join(a, b)
<1>1. /\ m \in Nat /\ n \in Nat /\ Len(t) = m + n /\ t \in Seq(Tokens)
      /\ \A i \in 1..(m + n) : t[i] = IF i <= m THEN a[i] ELSE b[i - m]
  BY Joins DEF Text
<1>2. \A i \in 1..(Len(t) - 1) : ~(t[i] = x /\ t[i + 1] = x)
  BY <1>1, SinglePair
<1> HIDE DEF m, n, t
<1>3. ASSUME NEW i \in 1..(m - 1), a[i] = x, a[i + 1] = x PROVE FALSE
  <2>1. i \in 1..(Len(t) - 1) /\ i <= m /\ i + 1 <= m /\ i \in 1..(m + n) /\ i + 1 \in 1..(m + n)
    BY <1>1
  <2>2. t[i] = a[i] /\ t[i + 1] = a[i + 1]
    BY <1>1, <2>1
  <2> QED
    BY <1>2, <1>3, <2>1, <2>2
<1>4. ASSUME NEW i \in 1..(n - 1), b[i] = x, b[i + 1] = x PROVE FALSE
  <2>1. /\ m + i \in 1..(Len(t) - 1) /\ ~(m + i <= m) /\ ~((m + i) + 1 <= m)
        /\ m + i \in 1..(m + n) /\ (m + i) + 1 \in 1..(m + n)
        /\ (m + i) - m = i /\ ((m + i) + 1) - m = i + 1
    BY <1>1
  <2>2. t[m + i] = b[i] /\ t[(m + i) + 1] = b[i + 1]
    BY <1>1, <2>1
  <2> QED
    BY <1>2, <1>4, <2>1, <2>2
<1>5. Single(x, a)
  BY <1>3 DEF Single, Twice, m
<1>6. Single(x, b)
  BY <1>4 DEF Single, Twice, n
<1> QED
  BY <1>5, <1>6

LEMMA EndPart ==
  ASSUME NEW a \in Text, NEW b \in Text, NEW x, ~EndsWith(x, Join(a, b))
  PROVE  ~EndsWith(x, b)
<1> DEFINE m == Len(a)
           n == Len(b)
           t == Join(a, b)
<1>1. /\ m \in Nat /\ n \in Nat /\ Len(t) = m + n
      /\ \A i \in 1..(m + n) : t[i] = IF i <= m THEN a[i] ELSE b[i - m]
  BY Joins
<1>2. ~(Len(t) > 0 /\ t[Len(t)] = x)
  BY DEF EndsWith
<1> HIDE DEF m, n, t
<1> SUFFICES ASSUME n > 0, b[n] = x PROVE FALSE
  BY DEF EndsWith, n
<1>3. m + n \in 1..(m + n) /\ ~(m + n <= m) /\ (m + n) - m = n /\ m + n > 0
  BY <1>1
<1>4. t[m + n] = b[n]
  BY <1>1, <1>3
<1> QED
  BY <1>1, <1>2, <1>3, <1>4

\* The converse of FirstPair: if no pair of x begins before the end of a, then
\* a holds none, nor ends with x when x follows.
LEMMA NoPairBefore ==
  ASSUME NEW a \in Text, NEW c \in Text, NEW x, Len(c) > 0, c[1] = x,
         \A k \in Nat : Twice(x, Join(a, c), k + 1) => Len(a) <= k
  PROVE  Single(x, a) /\ ~EndsWith(x, a)
<1> DEFINE n == Len(a)
           l == Len(c)
           t == Join(a, c)
<1>1. /\ n \in Nat /\ l \in Nat /\ l > 0 /\ Len(t) = n + l
      /\ \A j \in 1..(n + l) : t[j] = IF j <= n THEN a[j] ELSE c[j - n]
  BY Joins
<1>2. \A k \in Nat : Twice(x, t, k + 1) => n <= k
  OBVIOUS
<1> HIDE DEF n, l, t
<1>3. Single(x, a)
  <2> SUFFICES ASSUME NEW j \in Nat, j \in 1..(n - 1), a[j] = x, a[j + 1] = x PROVE FALSE
    BY DEF Single, Twice, n
  <2>1. /\ j \in 1..(n + l) /\ j + 1 \in 1..(n + l) /\ j <= n /\ j + 1 <= n
        /\ j \in 1..(Len(t) - 1) /\ j - 1 \in Nat /\ (j - 1) + 1 = j /\ ~(n <= j - 1)
    BY <1>1
  <2>2. t[j] = x /\ t[j + 1] = x
    BY <1>1, <2>1
  <2>3. Twice(x, t, j)
    BY <2>1, <2>2 DEF Twice
  <2> QED
    BY <1>2, <2>1, <2>3
<1>4. ~EndsWith(x, a)
  <2> SUFFICES ASSUME n > 0, a[n] = x PROVE FALSE
    BY DEF EndsWith, n
  <2>1. /\ n \in 1..(n + l) /\ n <= n /\ n + 1 \in 1..(n + l) /\ ~(n + 1 <= n) /\ (n + 1) - n = 1
        /\ n \in 1..(Len(t) - 1) /\ n - 1 \in Nat /\ (n - 1) + 1 = n /\ ~(n <= n - 1)
    BY <1>1
  <2>2. t[n] = x /\ t[n + 1] = x
    BY <1>1, <2>1
  <2>3. Twice(x, t, n)
    BY <2>1, <2>2 DEF Twice
  <2> QED
    BY <1>2, <2>1, <2>3
<1> QED
  BY <1>3, <1>4

\* Cut in front of a pair of colons: what stands there is the part in front of
\* Colons only if it collides with none.
LEMMA CutBack ==
  ASSUME NEW a \in Text, NEW b \in Text
  PROVE  LET t == Join(a, Join(Colons, b))
         IN \E q, r : /\ Cut(t) = <<q, r>>
                      /\ q = a => Single(":", a) /\ ~EndsWith(":", a) /\ r = b
<1> DEFINE c == Join(Colons, b)
           t == Join(a, c)
           n == Len(a)
           k == Len(b)
           i == Index(Colons, t)
           q == Slice(t, 0, i)
           r == Slice(t, i + 2, Len(t))
<1>1. /\ Colons \in Text /\ ":" \in Tokens /\ Colons = <<":", ":">>
      /\ Len(Colons) = 2 /\ Colons[1] = ":" /\ Colons[2] = ":"
  BY MarksAre DEF Colons, Tokens, Chars
<1>2. /\ c \in Text /\ Len(c) = Len(Colons) + k /\ n \in Nat /\ k \in Nat
      /\ \A j \in 1..(Len(Colons) + k) :
           c[j] = IF j <= Len(Colons) THEN Colons[j] ELSE b[j - Len(Colons)]
  BY <1>1, Joins
<1> HIDE DEF c, n, k
<1>3. Len(c) = 2 + k /\ c[1] = ":" /\ c[2] = ":"
  BY <1>1, <1>2
<1>4. /\ t \in Text /\ Len(t) = n + Len(c)
      /\ \A j \in 1..(n + Len(c)) : t[j] = IF j <= n THEN a[j] ELSE c[j - n]
  BY <1>2, Joins DEF n
<1> HIDE DEF t
<1>5. t[n + 1] = ":" /\ t[(n + 1) + 1] = ":"
  <2>1. /\ n + 1 \in 1..(n + Len(c)) /\ ~(n + 1 <= n) /\ (n + 1) - n = 1
        /\ (n + 1) + 1 \in 1..(n + Len(c)) /\ ~((n + 1) + 1 <= n) /\ ((n + 1) + 1) - n = 2
    BY <1>2, <1>3
  <2> QED
    BY <1>3, <1>4, <2>1
<1>6. /\ t \in Seq(Tokens) /\ Colons \in Seq(Tokens)
      /\ \A j \in Nat : Occurs(Colons, t, j) <=> Twice(":", t, j + 1)
  BY <1>1, <1>4, OccursTwice DEF Text
<1>7. Occurs(Colons, t, n)
  <2>1. Twice(":", t, n + 1)
    BY <1>2, <1>3, <1>4, <1>5 DEF Twice
  <2> QED
    BY <1>2, <1>6, <2>1
<1>8. i \in Nat /\ i <= n /\ \A j \in Nat : Occurs(Colons, t, j) => i <= j
  BY <1>2, <1>6, <1>7, IndexFinds
<1>9. Cut(t) = <<q, r>>
  BY <1>8 DEF Cut, None
<1> SUFFICES q = a => Single(":", a) /\ ~EndsWith(":", a) /\ r = b
  BY <1>9 DEF t, c
<1> HIDE DEF i
<1>10. Len(q) = i
  <2>1. 1 \in Int /\ i \in Int /\ 0 + 1 = 1 /\ \A j \in 1..i : t[j] \in Tokens
    BY <1>2, <1>3, <1>4, <1>6, <1>8, ElementOfSeq
  <2>2. Len(SubSeq(t, 1, i)) = IF 1 <= i THEN i - 1 + 1 ELSE 0
    BY <2>1, SubSeqProperties
  <2>3. q = SubSeq(t, 1, i)
    BY <2>1 DEF Slice
  <2> HIDE DEF q
  <2> QED
    BY <1>8, <2>2, <2>3
<1> HIDE DEF q
<1> SUFFICES ASSUME q = a PROVE Single(":", a) /\ ~EndsWith(":", a) /\ r = b
  OBVIOUS
<1>11. \A j \in Nat : Twice(":", t, j + 1) => n <= j
  BY <1>6, <1>8, <1>10 DEF n
<1>12. Single(":", a) /\ ~EndsWith(":", a)
  <2>1. Len(c) > 0 /\ \A j \in Nat : Twice(":", Join(a, c), j + 1) => Len(a) <= j
    BY <1>2, <1>3, <1>11 DEF n, t
  <2> QED
    BY <1>2, <1>3, <2>1, NoPairBefore
<1>13. r = b
  <2>1. Cut(t) = <<a, b>>
    BY <1>12, CutAt DEF t, c
  <2> HIDE DEF r
  <2> QED
    BY <1>9, <2>1
<1> QED
  BY <1>12, <1>13

\* Cut leaves a text whole, or what it returns first is shorter.
LEMMA CutFirst ==
  ASSUME NEW a \in Text
  PROVE  \/ Single(":", a) /\ Cut(a) = <<a>>
         \/ \E q, r : Cut(a) = <<q, r>> /\ q # a
<1> DEFINE i == Index(Colons, a)
           q == Slice(a, 0, i)
           r == Slice(a, i + 2, Len(a))
<1>1. a \in Seq(Tokens) /\ Colons \in Seq(Tokens) /\ Len(Colons) = 2 /\ Len(a) \in Nat
      /\ ":" \in Tokens /\ Colons = <<":", ":">>
  BY MarksAre, LenProperties DEF Text, Colons, Tokens, Chars
<1>2. CASE i = None
  <2>1. Single(":", a)
    BY <1>1, <1>2, NotHasIsSingle DEF Has
  <2> QED
    BY <2>1, CutNone
<1>3. CASE i # None
  <2>1. i \in Nat /\ i + 2 <= Len(a)
    BY <1>1, <1>3, IndexRange
  <2>2. Cut(a) = <<q, r>>
    BY <1>3 DEF Cut
  <2> HIDE DEF i
  <2>3. 1 \in Int /\ i \in Int /\ 0 + 1 = 1 /\ \A j \in 1..i : a[j] \in Tokens
    BY <1>1, <2>1, ElementOfSeq
  <2>4. Len(SubSeq(a, 1, i)) = IF 1 <= i THEN i - 1 + 1 ELSE 0
    BY <2>3, SubSeqProperties
  <2>5. q = SubSeq(a, 1, i)
    BY <2>3 DEF Slice
  <2> HIDE DEF q
  <2>6. Len(q) = i
    BY <2>1, <2>4, <2>5
  <2>7. q # a
    BY <1>1, <2>1, <2>6
  <2> QED
    BY <2>2, <2>7
<1> QED
  BY <1>2, <1>3

LEMMA ThirdCut ==
  ASSUME NEW u \in Text, NEW p \in Text, NEW f \in Text
  PROVE  LET c == CutLast(<<u, p, f>>)
         IN c[1] = u /\ c[2] = p /\ c[3] = Cut(f)[1] /\ Len(c) > 2
<1> DEFINE s == <<u, p, f>>
           h == Front(s)
           g == Cut(f)
           k == Len(g)
           T == Text
<1>0. u \in T /\ p \in T /\ f \in T
  OBVIOUS
<1>1. g \in Seq(T) /\ g # <<>>
  BY CutType
<1> HIDE DEF T, g
<1>2. k \in Nat /\ k > 0
  BY <1>1, EmptySeq, LenProperties
<1>3. s \in Seq(T) /\ Len(s) = 3 /\ s[1] = u /\ s[2] = p /\ s[3] = f
  BY <1>0
<1>4. Last(s) = f
  BY <1>3 DEF Last
<1> HIDE DEF s
<1>5. h \in Seq(T) /\ Len(h) = 2 /\ h[1] = u /\ h[2] = p
  <2>1. h = SubSeq(s, 1, 2)
    BY <1>3 DEF Front
  <2>2. \A i \in 1..2 : s[i] \in T
    BY <1>0, <1>3
  <2>3. /\ SubSeq(s, 1, 2) \in Seq(T) /\ Len(SubSeq(s, 1, 2)) = 2
        /\ SubSeq(s, 1, 2)[1] = u /\ SubSeq(s, 1, 2)[2] = p
    BY <1>3, <2>2, SubSeqProperties
  <2> QED
    BY <2>1, <2>3
<1> HIDE DEF h, k
<1> DEFINE J(v, w) == v \o w
           c == J(h, g)
<1>6. /\ Len(c) = Len(h) + Len(g)
      /\ \A i \in 1..(Len(h) + Len(g)) : c[i] = IF i <= Len(h) THEN h[i] ELSE g[i - Len(h)]
  BY <1>1, <1>5, ConcatProperties
<1>7. CutLast(s) = c
  BY <1>4 DEF CutLast, h, g
<1> HIDE DEF J, c
<1>8. Len(c) = 2 + k /\ \A i \in 1..(2 + k) : c[i] = IF i <= 2 THEN h[i] ELSE g[i - 2]
  BY <1>5, <1>6 DEF k
<1>9. c[1] = u /\ c[2] = p /\ c[3] = g[1] /\ Len(c) > 2
  BY <1>2, <1>5, <1>8
<1> QED
  BY <1>7, <1>9 DEF s, g

\* The parts Deserialize reads, by what the second and the third Cut return.
LEMMA TwoParts ==
  ASSUME NEW q \in Text, NEW r \in Text
  PROVE  LET parts == CutLast(CutLast(<<q, r>>))
         IN /\ Cut(r) = <<r>> => parts[1] = q /\ parts[2] = r
            /\ \A v, w \in Text :
                 Cut(r) = <<v, w>> =>
                   /\ parts[1] = q /\ parts[2] = v /\ parts[3] = Cut(w)[1]
                   /\ Len(parts) > 2
<1>1. ASSUME Cut(r) = <<r>>
      PROVE  CutLast(CutLast(<<q, r>>)) = <<q, r>>
  BY <1>1, Parts
<1>2. ASSUME NEW v \in Text, NEW w \in Text, Cut(r) = <<v, w>>
      PROVE  LET parts == CutLast(CutLast(<<q, r>>))
             IN parts[1] = q /\ parts[2] = v /\ parts[3] = Cut(w)[1] /\ Len(parts) > 2
  <2>1. CutLast(<<q, r>>) = <<q, v, w>>
    BY <1>2, Parts
  <2> QED
    BY <2>1, ThirdCut
<1> QED
  BY <1>1, <1>2

LEMMA PairIn ==
  ASSUME NEW T, NEW v, NEW w, <<v, w>> \in Seq(T)
  PROVE  v \in T /\ w \in T
<1> DEFINE s == <<v, w>>
<1>1. s \in Seq(T) /\ Len(s) = 2 /\ s[1] = v /\ s[2] = w
  OBVIOUS
<1> HIDE DEF s
<1>2. 1 \in 1..Len(s) /\ 2 \in 1..Len(s)
  BY <1>1
<1>3. s[1] \in T /\ s[2] \in T
  BY <1>1, <1>2, ElementOfSeq
<1> QED
  BY <1>1, <1>3

\* Names that come apart as they were put together collide with no colons.
LEMMA PartsBack ==
  ASSUME NEW m \in Sent, NEW parts, parts = CutLast(CutLast(Cut(Auth(m)))),
         parts[1] = m.user, parts[2] = m.pass,
         (IF m.type = "Document" /\ Len(parts) > 2 THEN parts[3] ELSE <<>>) = m.file
  PROVE  /\ Single(":", m.user) /\ ~EndsWith(":", m.user) /\ Single(":", m.pass)
         /\ m.file # <<>> => m.type = "Document" /\ ~EndsWith(":", m.pass) /\ Single(":", m.file)
<1> DEFINE u == m.user
           p == m.pass
           f == m.file
           x == FilePart(m)
           b == IF f = <<>> THEN p ELSE Join(p, Join(Colons, f))
<1>1. u \in Text /\ p \in Text /\ f \in Text /\ Colons \in Text
  BY FieldsAre, MarksAre
<1>2. f # <<>> => m.type = "Document" /\ Len(parts) > 2 /\ parts[3] = f
  OBVIOUS
<1>3. x = IF f # <<>> THEN Join(Colons, f) ELSE <<>>
  BY <1>2 DEF FilePart, Join
<1>4. Auth(m) = Join(Join(Join(u, Colons), p), x)
  BY DEF Auth, Join
<1>5. parts[1] = u /\ parts[2] = p
  OBVIOUS
<1> HIDE DEF u, p, f, x
<1>6. Join(Join(u, Colons), p) = Join(u, Join(Colons, p)) /\ Join(Colons, p) \in Text
      /\ Join(u, Join(Colons, p)) \in Text
  BY <1>1, Joins
<1>7. b \in Text /\ Auth(m) = Join(u, Join(Colons, b))
  <2>1. CASE f = <<>>
    <3> DEFINE q == Join(u, Join(Colons, p))
    <3>1. q \in Seq(Tokens) /\ Auth(m) = Join(q, <<>>)
      BY <1>3, <1>4, <1>6, <2>1 DEF Text
    <3> HIDE DEF q
    <3>2. Join(q, <<>>) = q
      BY <3>1, ConcatEmptySeq DEF Join
    <3>3. b = p
      BY <2>1
    <3> HIDE DEF b
    <3> QED
      BY <1>1, <3>1, <3>2, <3>3 DEF q
  <2>2. CASE f # <<>>
    <3> DEFINE c == Join(Colons, f)
    <3>1. b = Join(p, c) /\ x = c
      BY <1>3, <2>2
    <3>2. c \in Text /\ Join(p, c) \in Text
      BY <1>1, Joins
    <3> HIDE DEF c, b
    <3>3. Join(Join(u, Join(Colons, p)), c) = Join(u, Join(Join(Colons, p), c))
      BY <1>1, <1>6, <3>2, Joins
    <3>4. Join(Join(Colons, p), c) = Join(Colons, Join(p, c))
      BY <1>1, <3>2, Joins
    <3> QED
      BY <1>4, <1>6, <3>1, <3>2, <3>3, <3>4
  <2> QED
    BY <2>1, <2>2
<1> HIDE DEF b
<1>8. PICK q, r : /\ Cut(Auth(m)) = <<q, r>>
                  /\ q = u => Single(":", u) /\ ~EndsWith(":", u) /\ r = b
  BY <1>1, <1>7, CutBack
<1>9. q \in Text /\ r \in Text
  <2>1. <<q, r>> \in Seq(Text)
    BY <1>8, FieldsAre, CutType
  <2> QED
    BY <2>1, PairIn
<1>10. parts = CutLast(CutLast(<<q, r>>))
  BY <1>8
<1>11. \A v, w : Cut(r) = <<v, w>> => v \in Text /\ w \in Text
  <2> TAKE v, w
  <2> HAVE Cut(r) = <<v, w>>
  <2>1. <<v, w>> \in Seq(Text)
    BY <1>9, CutType
  <2> QED
    BY <2>1, PairIn
<1>12. /\ Cut(r) = <<r>> => parts[1] = q /\ parts[2] = r
       /\ \A v, w : Cut(r) = <<v, w>> =>
            /\ parts[1] = q /\ parts[2] = v /\ parts[3] = Cut(w)[1]
            /\ Len(parts) > 2
  BY <1>9, <1>10, <1>11, TwoParts
<1>13. q = u
  <2>1. CASE Cut(r) = <<r>>
    BY <1>5, <1>12, <2>1
  <2>2. CASE \E v, w : Cut(r) = <<v, w>>
    BY <1>5, <1>12, <2>2
  <2> QED
    BY <1>9, <2>1, <2>2, CutFirst
<1>14. Single(":", u) /\ ~EndsWith(":", u) /\ r = b
  BY <1>8, <1>13
<1>15. CASE f = <<>>
  <2>1. r = p
    BY <1>14, <1>15 DEF b
  <2>2. ~\E v, w : Cut(p) = <<v, w>> /\ v # p
    BY <1>5, <1>12, <2>1
  <2>3. Single(":", p)
    BY <1>1, <2>2, CutFirst
  <2> QED
    BY <1>14, <1>15, <2>3 DEF u, p, f
<1>16. CASE f # <<>>
  <2>1. r = Join(p, Join(Colons, f))
    BY <1>14, <1>16 DEF b
  <2>2. PICK v, w : Cut(r) = <<v, w>> /\ (v = p => Single(":", p) /\ ~EndsWith(":", p) /\ w = f)
    BY <1>1, <2>1, CutBack
  <2>3. Single(":", p) /\ ~EndsWith(":", p) /\ w = f
    BY <1>5, <1>12, <2>2
  <2>4. Cut(f)[1] = f
    BY <1>2, <1>12, <1>16, <2>2, <2>3 DEF f
  <2>5. Single(":", f)
    <3>1. \A v2, w2 : Cut(f) = <<v2, w2>> => Cut(f)[1] = v2
      OBVIOUS
    <3> QED
      BY <1>1, <2>4, <3>1, CutFirst
  <2> QED
    BY <1>2, <1>14, <1>16, <2>3, <2>5 DEF u, p, f
<1> QED
  BY <1>15, <1>16

\* Where Index finds the marks of any message: the type is not a tab, and the
\* marks Serialize wrote are occurrences, if not the first.
LEMMA MarksOccur ==
  ASSUME NEW m \in Sent
  PROVE  LET t == Serialize(m)
             d == Len(m.data)
         IN /\ Index(Tabs, t) = 1
            /\ Index(AuthMark, t) \in Nat /\ Index(AuthMark, t) <= d + 3
<1> DEFINE t == Serialize(m)
           d == Len(m.data)
           a == Len(Auth(m))
<1>1. /\ t \in Seq(Tokens) /\ d \in Nat /\ a \in Nat /\ Layout(m, t, d, a)
      /\ Tabs \in Seq(Tokens) /\ AuthMark \in Seq(Tokens)
  BY SerializeIs, TextLayout, FieldsAre, MarksAre, Joins DEF Text
<1>2. /\ Len(Tabs) = 2 /\ DOMAIN Tabs = {1, 2} /\ Tabs[1] = "tab" /\ Tabs[2] = "tab"
  BY DEF Tabs
<1>3. /\ Len(AuthMark) = 4 /\ DOMAIN AuthMark = {1, 2, 3, 4}
      /\ AuthMark[1] = "tab" /\ AuthMark[2] = "tab"
      /\ AuthMark[3] = "Auth" /\ AuthMark[4] = ":"
  BY MarksAre
<1>4. TypeToString(m.type)[1] # "tab"
  BY DEF TypeToString, KnownTypes
<1> HIDE DEF t, d, a
<1>5. /\ Len(t) = d + a + 9 /\ t[1] # "tab" /\ t[2] = "tab" /\ t[3] = "tab"
      /\ t[d + 4] = "tab" /\ t[d + 5] = "tab" /\ t[d + 6] = "Auth" /\ t[d + 7] = ":"
  BY <1>1, <1>4 DEF Layout
<1>6. Occurs(Tabs, t, 1)
  BY <1>1, <1>2, <1>5 DEF Occurs
<1>7. ASSUME NEW k \in Nat, Occurs(Tabs, t, k) PROVE 1 <= k
  <2>1. t[k + 1] = "tab"
    BY <1>2, <1>7 DEF Occurs
  <2>2. k # 0
    BY <1>5, <2>1
  <2> QED
    BY <2>2
<1>8. Occurs(AuthMark, t, d + 3)
  <2>1. (d + 3) + 1 = d + 4 /\ (d + 3) + 2 = d + 5 /\ (d + 3) + 3 = d + 6 /\ (d + 3) + 4 = d + 7
        /\ d + 3 \in 0..((d + a + 9) - 4)
    BY <1>1
  <2> QED
    BY <1>3, <1>5, <2>1 DEF Occurs
<1>9. Index(Tabs, t) = 1
  BY <1>1, <1>6, <1>7, IndexIs
<1>10. Index(AuthMark, t) \in Nat /\ Index(AuthMark, t) <= d + 3
  <2>1. d + 3 \in Nat
    BY <1>1
  <2> QED
    BY <1>1, <1>8, <2>1, IndexFinds
<1> QED
  BY <1>9, <1>10 DEF t, d

\* What Deserialize returned, if it returned the message.
LEMMA ReadBack ==
  ASSUME NEW m \in Sent, ReceiveEnd(Serialize(m)) = Len(Serialize(m)),
         Deserialize(Serialize(m)) = [went |-> "message", msg |-> m]
  PROVE  LET parts == CutLast(CutLast(Cut(Auth(m))))
         IN /\ Index(Blank, Serialize(m)) = Len(m.data) + Len(Auth(m)) + 7
            /\ Index(AuthMark, Serialize(m)) = Len(m.data) + 3
            /\ m.type \in KnownTypes
            /\ parts[1] = m.user /\ parts[2] = m.pass
            /\ (IF m.type = "Document" /\ Len(parts) > 2 THEN parts[3] ELSE <<>>) = m.file
<1> DEFINE t == Serialize(m)
           d == Len(m.data)
           a == Len(Auth(m))
           z == Index(AuthMark, t)
           end == Index(Blank, t)
           auth == Slice(t, z + Len(AuthMark), end)
           parts == CutLast(CutLast(Cut(auth)))
           type == StringToType(Slice(t, 0, 1))
           data == Slice(t, DataStart(1), z)
           file == IF type = "Document" /\ Len(parts) > 2 THEN parts[3] ELSE <<>>
           back == [type |-> type, data |-> data, user |-> parts[1], pass |-> parts[2],
                    file |-> file]
           done == [went |-> "message", msg |-> back]
<1>1. /\ t \in Seq(Tokens) /\ d \in Nat /\ a \in Nat /\ Len(t) = d + a + 9
      /\ Index(Tabs, t) = 1 /\ z \in Nat /\ z <= d + 3
  BY SerializeIs, TextLayout, FieldsAre, MarksOccur, Joins DEF Text, Layout
<1>2. end = d + a + 7
  <2> HIDE DEF t, d, a
  <2>1. ReceiveEnd(t) = d + a + 9
    BY <1>1 DEF t
  <2>2. ReceiveEnd(t) = IF end = None THEN None ELSE end + 2
    BY DEF ReceiveEnd
  <2>3. end \in Nat \cup {None}
    <3>1. Blank \in Seq(Tokens)
      BY MarksAre DEF Text
    <3> QED
      BY <1>1, <3>1, IndexFinds
  <2> HIDE DEF end
  <2> QED
    BY <1>1, <2>1, <2>2, <2>3 DEF None
<1>3. Deserialize(t) = IF z = None THEN Invalid
                       ELSE IF 1 + 2 > z THEN Panic
                       ELSE IF end = None THEN Invalid
                       ELSE IF z + Len(AuthMark) > end THEN Panic
                       ELSE IF Len(parts) < 2 THEN Invalid
                       ELSE done
  <2> HIDE DEF t, z, end
  <2>1. 1 # None
    BY DEF None
  <2> HIDE DEF None
  <2> QED
    BY <1>1, <2>1 DEF Deserialize, z, end
<1> HIDE DEF t, d, a, z, end, parts, back
<1>4. Invalid # [went |-> "message", msg |-> m] /\ Panic # [went |-> "message", msg |-> m]
  BY DEF Invalid, Panic
<1>5. Deserialize(t) = [went |-> "message", msg |-> m]
  BY DEF t
<1> HIDE DEF done
<1>6. done = [went |-> "message", msg |-> m] /\ ~(1 + 2 > z)
  <2> HIDE DEF Invalid, Panic
  <2> QED
    BY <1>3, <1>4, <1>5
<1>7. back = m
  BY <1>6 DEF done
<1>8. m.type = type /\ m.data = data /\ m.user = parts[1] /\ m.pass = parts[2]
      /\ m.file = file
  <2> HIDE DEF type, data, file
  <2> QED
    BY <1>7 DEF back
<1>9. z = d + 3
  <2>1. DataStart(1) = 3
    BY DEF DataStart
  <2>2. \A i \in 4..z : t[i] \in Tokens
    BY <1>1, ElementOfSeq
  <2>3. Len(SubSeq(t, 4, z)) = IF 4 <= z THEN z - 4 + 1 ELSE 0
    BY <1>1, <2>2, SubSeqProperties
  <2>4. data = SubSeq(t, 4, z)
    <3>1. data = Slice(t, 3, z)
      BY <2>1
    <3>2. 3 + 1 = 4
      OBVIOUS
    <3> HIDE DEF data
    <3> QED
      BY <3>1, <3>2 DEF Slice
  <2>5. d = Len(data)
    BY <1>8 DEF d
  <2> HIDE DEF data
  <2> QED
    BY <1>1, <1>6, <2>3, <2>4, <2>5
<1>10. auth = Auth(m)
  <2>1. Len(AuthMark) = 4
    BY MarksAre
  <2>2. Slice(t, (d + 3) + 4, d + a + 7) = Auth(m)
    BY Pieces DEF t, d, a
  <2> QED
    BY <1>2, <1>9, <2>1, <2>2
<1>11. m.type \in KnownTypes
  <2> SUFFICES ASSUME m.type \notin KnownTypes PROVE FALSE
    OBVIOUS
  <2>1. Slice(t, 0, 1) = <<"UNKNOWN">>
    BY Pieces DEF TypeToString, t
  <2>2. type = "-1"
    BY <2>1 DEF StringToType, KnownTypes
  <2>3. m.type = "other"
    BY DEF Sent
  <2> HIDE DEF type
  <2> QED
    BY <1>8, <2>2, <2>3
<1>12. parts = CutLast(CutLast(Cut(Auth(m))))
  BY <1>10 DEF parts
<1> HIDE DEF auth
<1>13. file = IF m.type = "Document" /\ Len(parts) > 2 THEN parts[3] ELSE <<>>
  <2> HIDE DEF type
  <2> QED
    BY <1>8
<1> QED
  BY <1>2, <1>8, <1>9, <1>11, <1>12, <1>13 DEF t, d, a, z, end

\* Nothing in the text of a message stands twice in a row in front of the blank
\* line: neither in a field, nor where the last field meets the blank line.
LEMMA LinesBack ==
  ASSUME NEW m \in Sent, Index(Blank, Serialize(m)) = Len(m.data) + Len(Auth(m)) + 7,
         m.file # <<>> => m.type = "Document"
  PROVE  /\ Single("nl", m.data) /\ Single("nl", m.user) /\ Single("nl", m.pass)
         /\ IF m.file = <<>> THEN ~EndsWith("nl", m.pass)
                             ELSE Single("nl", m.file) /\ ~EndsWith("nl", m.file)
<1> DEFINE x == "nl"
           b == Body(m)
           u == m.user
           p == m.pass
           f == m.file
           g == FilePart(m)
           h == Join(Join(TypeToString(m.type), Tabs), m.data)
           o == Join(h, AuthMark)
           q == Join(Join(u, Colons), p)
           w == Auth(m)
<1>1. /\ b \in Text /\ u \in Text /\ p \in Text /\ f \in Text /\ g \in Text /\ w \in Text
      /\ TypeToString(m.type) \in Text /\ m.data \in Text
      /\ Colons \in Text /\ Tabs \in Text /\ AuthMark \in Text /\ Blank \in Text
      /\ x \in Tokens
  BY FieldsAre, MarksAre DEF Tokens, Chars
<1>2. /\ b = Join(o, w) /\ w = Join(q, g)
      /\ f # <<>> => g = Join(Colons, f)
      /\ f = <<>> => g = <<>>
  BY DEF Body, Opening, Auth, FilePart, Join
<1>3. /\ Join(TypeToString(m.type), Tabs) \in Text /\ h \in Text /\ o \in Text
      /\ Join(u, Colons) \in Text /\ q \in Text
  <2>1. Join(TypeToString(m.type), Tabs) \in Text /\ Join(u, Colons) \in Text
    BY <1>1, Joins
  <2>2. h \in Text /\ q \in Text
    BY <1>1, <2>1, Joins
  <2> HIDE DEF h, q
  <2>3. o \in Text
    BY <1>1, <2>2, Joins
  <2> QED
    BY <2>1, <2>2, <2>3
<1>4. Single(x, b) /\ ~EndsWith(x, b)
  <2> DEFINE t == Join(b, Blank)
  <2>1. t = Serialize(m) /\ Len(b) = Len(m.data) + Len(Auth(m)) + 7
    BY SerializeIs, TextLayout DEF Join
  <2>2. t \in Seq(Tokens) /\ Blank \in Seq(Tokens) /\ Index(Blank, t) = Len(b)
    BY <1>1, <2>1, SerializeIs DEF Text
  <2>3. Len(b) \in Nat /\ Len(b) # None
    BY <1>1, Joins DEF None
  <2>4. Len(Blank) = 2 /\ Blank[1] = x /\ Blank = <<x, x>>
    BY DEF Blank
  <2> HIDE DEF t, b, x
  <2>5. \A k \in Nat : Occurs(Blank, t, k) => Len(b) <= k
    BY <2>2, <2>3, IndexFinds
  <2>6. \A k \in Nat : Twice(x, t, k + 1) => Len(b) <= k
    BY <2>2, <2>4, <2>5, OccursTwice
  <2>7. Len(Blank) > 0 /\ b \in Text /\ Blank \in Text
    BY <1>1, <2>4
  <2>8. \A k \in Nat : Twice(x, Join(b, Blank), k + 1) => Len(b) <= k
    BY <2>6 DEF t
  <2> HIDE <1>1
  <2> QED
    BY <2>4, <2>7, <2>8, NoPairBefore
<1> HIDE DEF x, b, u, p, f, g, w
<1>5. Single(x, o) /\ Single(x, w) /\ ~EndsWith(x, w)
  <2> HIDE DEF o
  <2> QED
    BY <1>1, <1>2, <1>3, <1>4, SinglePart, EndPart
<1>6. Single(x, q) /\ Single(x, g) /\ ~EndsWith(x, g)
  <2> HIDE DEF q
  <2> QED
    BY <1>1, <1>2, <1>3, <1>5, SinglePart, EndPart
<1>7. Single(x, m.data)
  <2>1. Single(x, h)
    <3> HIDE DEF h
    <3> QED
      BY <1>1, <1>3, <1>5, SinglePart
  <2> DEFINE y == Join(TypeToString(m.type), Tabs)
  <2>2. y \in Text /\ h = Join(y, m.data)
    BY <1>3
  <2> HIDE DEF y, h
  <2> QED
    BY <1>1, <2>1, <2>2, SinglePart
<1>8. Single(x, u) /\ Single(x, p)
  <2> DEFINE y == Join(u, Colons)
  <2>1. y \in Text /\ q = Join(y, p)
    BY <1>3
  <2>2. Single(x, y) /\ Single(x, p)
    <3> HIDE DEF y, q
    <3> QED
      BY <1>1, <1>6, <2>1, SinglePart
  <2> QED
    BY <1>1, <2>2, SinglePart
<1>9. CASE f = <<>>
  <2>1. w = q
    <3> HIDE DEF q
    <3>1. q \in Seq(Tokens) /\ w = Join(q, <<>>)
      BY <1>2, <1>3, <1>9 DEF Text
    <3>2. Join(q, <<>>) = q
      BY <3>1, ConcatEmptySeq DEF Join
    <3> QED
      BY <3>1, <3>2
  <2>2. ~EndsWith(x, p)
    <3> DEFINE y == Join(u, Colons)
    <3>1. y \in Text /\ q = Join(y, p) /\ ~EndsWith(x, q)
      BY <1>3, <1>5, <2>1
    <3> HIDE DEF y, q
    <3> QED
      BY <1>1, <3>1, EndPart
  <2> QED
    BY <1>7, <1>8, <1>9, <2>2 DEF x, u, p, f
<1>10. CASE f # <<>>
  <2>1. Single(x, f) /\ ~EndsWith(x, f)
    BY <1>1, <1>2, <1>6, <1>10, SinglePart, EndPart
  <2> QED
    BY <1>7, <1>8, <1>10, <2>1 DEF x, u, p, f
<1> QED
  BY <1>9, <1>10

\* The data of a message that is read back hold no Auth mark, nor the end of one
\* that begins with the tabs in front of them.
LEMMA MarkBack ==
  ASSUME NEW m \in Sent, Index(AuthMark, Serialize(m)) = Len(m.data) + 3
  PROVE  ~Has(AuthMark, Tabs \o m.data)
<1> DEFINE t == Serialize(m)
           d == Len(m.data)
           a == Len(Auth(m))
           z == Join(Tabs, m.data)
<1>1. /\ t \in Seq(Tokens) /\ d \in Nat /\ a \in Nat /\ Layout(m, t, d, a)
      /\ m.data \in Text /\ Tabs \in Text /\ AuthMark \in Seq(Tokens)
  BY SerializeIs, TextLayout, FieldsAre, MarksAre, Joins DEF Text
<1>2. Len(Tabs) = 2 /\ Tabs[1] = "tab" /\ Tabs[2] = "tab"
  BY DEF Tabs
<1>3. /\ z \in Text /\ Len(z) = Len(Tabs) + d
      /\ \A i \in 1..(Len(Tabs) + d) :
           z[i] = IF i <= Len(Tabs) THEN Tabs[i] ELSE m.data[i - Len(Tabs)]
  BY <1>1, Joins
<1>4. Len(AuthMark) = 4 /\ DOMAIN AuthMark = {1, 2, 3, 4}
  BY MarksAre
<1>5. \A k \in Nat : Occurs(AuthMark, t, k) => d + 3 <= k
  <2>1. d + 3 \in Nat /\ d + 3 # None /\ Index(AuthMark, t) = d + 3
    BY <1>1 DEF None
  <2> HIDE DEF t, d
  <2> QED
    BY <1>1, <2>1, IndexFinds
<1> HIDE DEF t, d, a, z
<1>6. Len(t) = d + a + 9 /\ t[2] = "tab" /\ t[3] = "tab" /\ \A i \in 1..d : t[3 + i] = m.data[i]
  BY <1>1 DEF Layout
<1>7. Len(z) = 2 + d /\ \A j \in 1..(2 + d) : t[1 + j] = z[j]
  <2>1. \A i \in 1..(2 + d) : z[i] = IF i <= 2 THEN Tabs[i] ELSE m.data[i - 2]
    BY <1>2, <1>3
  <2>2. ASSUME NEW j \in 1..(2 + d) PROVE t[1 + j] = z[j]
    <3>1. CASE j = 1
      BY <1>2, <1>6, <2>1, <3>1
    <3>2. CASE j = 2
      BY <1>2, <1>6, <2>1, <3>2
    <3>3. CASE j > 2
      <4>1. j - 2 \in 1..d /\ 3 + (j - 2) = 1 + j /\ ~(j <= 2)
        BY <1>1, <3>3
      <4> QED
        BY <1>6, <2>1, <4>1
    <3> QED
      BY <1>1, <3>1, <3>2, <3>3
  <2> QED
    BY <1>2, <1>3, <2>2
<1>8. ASSUME NEW k \in Nat, Occurs(AuthMark, z, k) PROVE FALSE
  <2>1. k \in 0..((2 + d) - 4) /\ \A j \in {1, 2, 3, 4} : z[k + j] = AuthMark[j]
    BY <1>4, <1>7, <1>8 DEF Occurs
  <2>2. \A j \in {1, 2, 3, 4} : k + j \in 1..(2 + d) /\ 1 + (k + j) = (k + 1) + j
    BY <1>1, <2>1
  <2>3. \A j \in {1, 2, 3, 4} : t[(k + 1) + j] = AuthMark[j]
    BY <1>7, <2>1, <2>2
  <2>4. k + 1 \in Nat /\ k + 1 \in 0..((d + a + 9) - 4) /\ ~(d + 3 <= k + 1)
    BY <1>1, <2>1
  <2>5. Occurs(AuthMark, t, k + 1)
    BY <1>4, <1>6, <2>3, <2>4 DEF Occurs
  <2> QED
    BY <1>5, <2>4, <2>5
<1>9. Index(AuthMark, z) = None
  BY <1>1, <1>3, <1>8, IndexNone DEF Text
<1> QED
  BY <1>9 DEF Has, z, Join

\* V1 can carry nothing else: a message that Receive reads to the end and
\* Deserialize returns as it was given to Serialize is plain.
THEOREM PlainNeeded ==
  ASSUME NEW m \in Sent, ReceiveEnd(Serialize(m)) = Len(Serialize(m)),
         Deserialize(Serialize(m)) = [went |-> "message", msg |-> m]
  PROVE  Plain(m)
<1> DEFINE parts == CutLast(CutLast(Cut(Auth(m))))
<1>1. /\ Index(Blank, Serialize(m)) = Len(m.data) + Len(Auth(m)) + 7
      /\ Index(AuthMark, Serialize(m)) = Len(m.data) + 3
      /\ m.type \in KnownTypes
      /\ parts[1] = m.user /\ parts[2] = m.pass
      /\ (IF m.type = "Document" /\ Len(parts) > 2 THEN parts[3] ELSE <<>>) = m.file
  BY ReadBack
<1>2. /\ Single(":", m.user) /\ ~EndsWith(":", m.user) /\ Single(":", m.pass)
      /\ m.file # <<>> => m.type = "Document" /\ ~EndsWith(":", m.pass) /\ Single(":", m.file)
  <2> HIDE DEF parts
  <2>1. parts = CutLast(CutLast(Cut(Auth(m))))
    BY DEF parts
  <2> QED
    BY <1>1, <2>1, PartsBack
<1>3. /\ Single("nl", m.data) /\ Single("nl", m.user) /\ Single("nl", m.pass)
      /\ m.file = <<>> => ~EndsWith("nl", m.pass)
      /\ m.file # <<>> => Single("nl", m.file) /\ ~EndsWith("nl", m.file)
  BY <1>1, <1>2, LinesBack
<1>4. ~Has(AuthMark, Tabs \o m.data)
  BY <1>1, MarkBack
<1>5. m.data \in Text /\ m.user \in Text /\ m.pass \in Text /\ m.file \in Text
  BY FieldsAre
<1>6. PlainData(m.data)
  BY <1>3, <1>4, <1>5, PlainIf DEF PlainData
<1>7. PlainName(m.user)
  BY <1>2, <1>3, <1>5, PlainIf DEF PlainName
<1>8. m.file = <<>> => PlainLast(m.pass)
  BY <1>2, <1>3, <1>5, PlainIf DEF PlainLast
<1>9. m.file # <<>> => PlainName(m.pass) /\ PlainLast(m.file)
  BY <1>2, <1>3, <1>5, PlainIf DEF PlainName, PlainLast
<1>10. m.type # "Document" => m.file = <<>>
  BY <1>2
<1> QED
  BY <1>1, <1>6, <1>7, <1>8, <1>9, <1>10 DEF Plain
=============================================================================
