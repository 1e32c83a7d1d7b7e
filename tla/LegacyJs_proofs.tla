-------------------------- MODULE LegacyJs_proofs ---------------------------
(***************************************************************************)
(* Proofs about LegacyJs: what calls made one after the other send is      *)
(* served, and the code each returns is its own, however many calls there  *)
(* are, however long their messages, and however the streams are cut.      *)
(***************************************************************************)
EXTENDS LegacyJs, LegacyText_proofs

-----------------------------------------------------------------------------
(* Texts that differ only in the bytes of characters.                      *)

Bytes == {"hi", "lo", "bad"}
Near(a, b) == a = b \/ {a, b} \subseteq Bytes
Like(s, t) == Len(s) = Len(t) /\ \A i \in 1..Len(t) : Near(s[i], t[i])
LikeMsg(m, n) == /\ m.type = n.type
                 /\ Like(m.data, n.data) /\ Like(m.user, n.user)
                 /\ Like(m.pass, n.pass) /\ Like(m.file, n.file)

\* A part without bytes of characters.
Clear(part) == \A j \in DOMAIN part : part[j] \notin Bytes

LEMMA MarksAreClear ==
  Clear(Tabs) /\ Clear(AuthMark) /\ Clear(Colons) /\ Clear(Blank) /\ Clear(<<":">>)
  /\ Clear(<<"nl">>)
<1>1. Clear(Tabs) /\ Clear(Colons) /\ Clear(Blank) /\ Clear(<<":">>) /\ Clear(<<"nl">>)
  BY DEF Clear, Bytes, Tabs, Colons, Blank
<1>2. Clear(AuthMark)
  BY MarksAre DEF Clear, Bytes
<1> QED
  BY <1>1, <1>2

LEMMA LikeSelf ==
  ASSUME NEW t PROVE Like(t, t)
BY DEF Like, Near

\* A part without such bytes occurs in both texts at the same places.
LEMMA LikeOccurs ==
  ASSUME NEW s \in Text, NEW t \in Text, Like(s, t), NEW part \in Text, Clear(part),
         NEW k \in Nat
  PROVE  Occurs(part, s, k) <=> Occurs(part, t, k)
<1>1. /\ Len(s) = Len(t) /\ Len(t) \in Nat /\ Len(part) \in Nat
      /\ DOMAIN part = 1..Len(part)
  BY LenProperties DEF Like, Text
<1>2. ASSUME k \in 0..(Len(t) - Len(part)), NEW j \in DOMAIN part
      PROVE  s[k + j] = part[j] <=> t[k + j] = part[j]
  <2>1. k + j \in 1..Len(t)
    BY <1>1, <1>2
  <2>2. Near(s[k + j], t[k + j]) /\ part[j] \notin Bytes
    BY <2>1 DEF Like, Clear
  <2> QED
    BY <2>2 DEF Near
<1> QED
  BY <1>1, <1>2 DEF Occurs

LEMMA LikeIndex ==
  ASSUME NEW s \in Text, NEW t \in Text, Like(s, t), NEW part \in Text, Clear(part)
  PROVE  Index(part, s) = Index(part, t) /\ (Has(part, s) <=> Has(part, t))
<1>1. s \in Seq(Tokens) /\ t \in Seq(Tokens) /\ part \in Seq(Tokens)
  BY DEF Text
<1>2. \A k \in Nat : Occurs(part, s, k) <=> Occurs(part, t, k)
  BY LikeOccurs
<1>3. Index(part, s) = Index(part, t)
  <2>1. CASE \A k \in Nat : ~Occurs(part, s, k)
    BY <1>1, <1>2, <2>1, IndexNone
  <2>2. CASE \E k \in Nat : Occurs(part, s, k)
    <3>1. /\ Index(part, s) \in Nat /\ Occurs(part, s, Index(part, s))
          /\ \A k \in Nat : Occurs(part, s, k) => Index(part, s) <= k
      BY <1>1, <2>2, IndexFinds
    <3> DEFINE i == Index(part, s)
    <3> HIDE DEF i
    <3>2. i \in Nat /\ Occurs(part, t, i) /\ \A k \in Nat : Occurs(part, t, k) => i <= k
      BY <1>2, <3>1 DEF i
    <3>3. Index(part, t) = i
      BY <1>1, <3>2, IndexIs
    <3> QED
      BY <3>3 DEF i
  <2> QED
    BY <2>1, <2>2
<1> QED
  BY <1>3 DEF Has

LEMMA LikeEnds ==
  ASSUME NEW s \in Text, NEW t \in Text, Like(s, t), NEW x, x \notin Bytes
  PROVE  EndsWith(x, s) <=> EndsWith(x, t)
<1>1. Len(s) = Len(t) /\ Len(t) \in Nat
  BY LenProperties DEF Like, Text
<1>2. Len(t) > 0 => Near(s[Len(t)], t[Len(t)])
  BY <1>1 DEF Like
<1> QED
  BY <1>1, <1>2 DEF EndsWith, Near

LEMMA LikeSuffix ==
  ASSUME NEW s \in Text, NEW t \in Text, Like(s, t), NEW x, x \notin Bytes
  PROVE  IsSuffix(<<x>>, s) <=> IsSuffix(<<x>>, t)
<1>1. s \in Seq(Tokens) /\ t \in Seq(Tokens)
  BY DEF Text
<1>2. /\ IsSuffix(<<x>>, s) <=> EndsWith(x, s)
      /\ IsSuffix(<<x>>, t) <=> EndsWith(x, t)
  BY <1>1, SuffixEnds, NotSuffix
<1> QED
  BY <1>2, LikeEnds

\* What is like two pieces consists of two pieces like them.
LEMMA LikeSplit ==
  ASSUME NEW s \in Text, NEW a \in Text, NEW b \in Text, Like(s, Join(a, b))
  PROVE  \E c, d \in Text : s = Join(c, d) /\ Like(c, a) /\ Like(d, b)
<1> DEFINE n == Len(a)
           k == Len(b)
           c == SubSeq(s, 1, n)
           d == SubSeq(s, n + 1, n + k)
           t == Join(a, b)
<1>1. /\ n \in Nat /\ k \in Nat /\ t \in Text /\ Len(t) = n + k
      /\ \A i \in 1..(n + k) : t[i] = IF i <= n THEN a[i] ELSE b[i - n]
  BY Joins
<1>2. s \in Seq(Tokens) /\ Len(s) = n + k /\ \A i \in 1..(n + k) : Near(s[i], t[i])
  BY <1>1 DEF Like, Text
<1>3. \A i \in 1..(n + k) : s[i] \in Tokens
  BY <1>2, ElementOfSeq
<1> HIDE DEF n, k, t
<1>4. c \in Seq(Tokens) /\ Len(c) = n /\ \A i \in 1..n : c[i] = s[i]
  <2>1. 1 \in Int /\ n \in Int /\ \A i \in 1..n : s[i] \in Tokens
    BY <1>1, <1>3
  <2>2. /\ SubSeq(s, 1, n) \in Seq(Tokens)
        /\ Len(SubSeq(s, 1, n)) = IF 1 <= n THEN n - 1 + 1 ELSE 0
        /\ \A i \in 1..(n - 1 + 1) : SubSeq(s, 1, n)[i] = s[1 + i - 1]
    BY <2>1, SubSeqProperties
  <2> HIDE DEF c
  <2>3. Len(c) = n /\ c \in Seq(Tokens)
    BY <1>1, <2>2 DEF c
  <2>4. ASSUME NEW i \in 1..n PROVE c[i] = s[i]
    <3>1. i \in 1..(n - 1 + 1) /\ 1 + i - 1 = i
      BY <1>1
    <3> QED
      BY <2>2, <3>1 DEF c
  <2> QED
    BY <2>3, <2>4
<1>5. d \in Seq(Tokens) /\ Len(d) = k /\ \A i \in 1..k : d[i] = s[n + i]
  <2>1. n + 1 \in Int /\ n + k \in Int /\ \A i \in (n + 1)..(n + k) : s[i] \in Tokens
    BY <1>1, <1>3
  <2>2. /\ SubSeq(s, n + 1, n + k) \in Seq(Tokens)
        /\ Len(SubSeq(s, n + 1, n + k))
             = IF n + 1 <= n + k THEN (n + k) - (n + 1) + 1 ELSE 0
        /\ \A i \in 1..((n + k) - (n + 1) + 1) : SubSeq(s, n + 1, n + k)[i] = s[(n + 1) + i - 1]
    BY <2>1, SubSeqProperties
  <2> HIDE DEF d
  <2>3. Len(d) = k /\ d \in Seq(Tokens)
    BY <1>1, <2>2 DEF d
  <2>4. ASSUME NEW i \in 1..k PROVE d[i] = s[n + i]
    <3>1. i \in 1..((n + k) - (n + 1) + 1) /\ (n + 1) + i - 1 = n + i
      BY <1>1
    <3> QED
      BY <2>2, <3>1 DEF d
  <2> QED
    BY <2>3, <2>4
<1> HIDE DEF c, d
<1>6. c \in Text /\ d \in Text
  BY <1>4, <1>5 DEF Text
<1>7. /\ Join(c, d) \in Text /\ Len(Join(c, d)) = n + k
      /\ \A i \in 1..(n + k) : Join(c, d)[i] = IF i <= n THEN c[i] ELSE d[i - n]
  BY <1>4, <1>5, <1>6, Joins
<1>8. s = Join(c, d)
  <2> DEFINE r == Join(c, d)
  <2>1. r \in Seq(Tokens) /\ Len(r) = n + k
        /\ \A i \in 1..(n + k) : r[i] = IF i <= n THEN c[i] ELSE d[i - n]
    BY <1>7 DEF Text
  <2> HIDE DEF r
  <2>2. ASSUME NEW i \in 1..(n + k) PROVE r[i] = s[i]
    <3>1. CASE i <= n
      BY <1>1, <1>4, <2>1, <3>1
    <3>2. CASE ~(i <= n)
      <4>1. i - n \in 1..k /\ n + (i - n) = i
        BY <1>1, <3>2
      <4> QED
        BY <1>5, <2>1, <3>2, <4>1
    <3> QED
      BY <3>1, <3>2
  <2>3. r = s
    BY <1>2, <2>1, <2>2, SeqEqual
  <2> QED
    BY <2>3 DEF r
<1>9. Like(c, a)
  <2>1. ASSUME NEW i \in 1..n PROVE Near(c[i], a[i])
    <3>1. i \in 1..(n + k) /\ i <= n
      BY <1>1
    <3> QED
      BY <1>1, <1>2, <1>4, <3>1
  <2> QED
    BY <1>4, <2>1 DEF Like, n
<1>10. Like(d, b)
  <2>1. ASSUME NEW i \in 1..k PROVE Near(d[i], b[i])
    <3>1. n + i \in 1..(n + k) /\ ~(n + i <= n) /\ (n + i) - n = i
      BY <1>1
    <3>2. t[n + i] = b[i] /\ Near(s[n + i], t[n + i])
      BY <1>1, <1>2, <3>1
    <3> QED
      BY <1>5, <3>2
  <2> QED
    BY <1>5, <2>1 DEF Like, k
<1> QED
  BY <1>6, <1>8, <1>9, <1>10

LEMMA LikeClear ==
  ASSUME NEW s \in Text, NEW t \in Text, Like(s, t), Clear(t)
  PROVE  s = t
<1>1. /\ s \in Seq(Tokens) /\ t \in Seq(Tokens) /\ Len(s) = Len(t)
      /\ DOMAIN t = 1..Len(t)
  BY LenProperties DEF Text, Like
<1>2. \A i \in 1..Len(s) : s[i] = t[i]
  BY <1>1 DEF Like, Near, Clear
<1> QED
  BY <1>1, <1>2, SeqEqual

LEMMA LikeEmpty ==
  ASSUME NEW s \in Text, NEW t \in Text, Like(s, t)
  PROVE  s = <<>> <=> t = <<>>
BY EmptySeq DEF Like, Text

\* The converse: pieces like others make a text like theirs.
LEMMA LikeJoin ==
  ASSUME NEW a \in Text, NEW b \in Text, NEW c \in Text, NEW d \in Text,
         Like(c, a), Like(d, b)
  PROVE  Like(Join(c, d), Join(a, b))
<1> DEFINE n == Len(a)
           k == Len(b)
           s == Join(c, d)
           t == Join(a, b)
<1>1. Len(c) = n /\ Len(d) = k /\ n \in Nat /\ k \in Nat
  BY Joins DEF Like
<1>2. /\ Len(t) = n + k /\ \A i \in 1..(n + k) : t[i] = IF i <= n THEN a[i] ELSE b[i - n]
  BY Joins
<1>3. /\ Len(s) = n + k /\ \A i \in 1..(n + k) : s[i] = IF i <= n THEN c[i] ELSE d[i - n]
  <2>1. /\ Len(s) = Len(c) + Len(d)
        /\ \A i \in 1..(Len(c) + Len(d)) : s[i] = IF i <= Len(c) THEN c[i] ELSE d[i - Len(c)]
    BY Joins
  <2> HIDE DEF s, n, k
  <2> QED
    BY <1>1, <2>1
<1> HIDE DEF s, t, n, k
<1>4. ASSUME NEW i \in 1..(n + k) PROVE Near(s[i], t[i])
  <2>1. CASE i <= n
    <3>1. i \in 1..n
      BY <1>1, <2>1
    <3> QED
      BY <1>2, <1>3, <2>1, <3>1 DEF Like, n
  <2>2. CASE ~(i <= n)
    <3>1. i - n \in 1..k
      BY <1>1, <2>2
    <3>2. Near(d[i - n], b[i - n])
      BY <3>1 DEF Like, k
    <3> QED
      BY <1>2, <1>3, <2>2, <3>2
  <2> QED
    BY <2>1, <2>2
<1>5. Like(s, t)
  BY <1>2, <1>3, <1>4 DEF Like
<1> QED
  BY <1>5 DEF s, t

\* A text like that of a message is the text of a message like it.
LEMMA LikeText ==
  ASSUME NEW m \in Sent, NEW s \in Text, Like(s, Serialize(m))
  PROVE  \E n \in Sent : s = Serialize(n) /\ LikeMsg(n, m)
<1> DEFINE y == TypeToString(m.type)
           x == Join(y, Tabs)
           h == Join(x, m.data)
           o == Join(h, AuthMark)
           u == m.user
           p == m.pass
           f == m.file
           g == FilePart(m)
           r == Join(u, Colons)
           q == Join(r, p)
           w == Join(q, g)
           b == Join(o, w)
<1>1. /\ y \in Text /\ m.data \in Text /\ u \in Text /\ p \in Text /\ f \in Text /\ g \in Text
      /\ Tabs \in Text /\ AuthMark \in Text /\ Colons \in Text /\ Blank \in Text
  BY FieldsAre, MarksAre
<1>2. Serialize(m) = Join(b, Blank)
  BY SerializeIs DEF Body, Opening, Auth, Join
<1>3. Clear(x)
  <2>1. /\ Len(y) = 1 /\ y[1] \notin Bytes
    BY DEF TypeToString, KnownTypes, Bytes
  <2>2. Len(Tabs) = 2 /\ Tabs[1] = "tab" /\ Tabs[2] = "tab" /\ "tab" \notin Bytes
    BY DEF Tabs, Bytes
  <2>3. /\ x \in Text /\ Len(x) = Len(y) + Len(Tabs)
        /\ \A i \in 1..(Len(y) + Len(Tabs)) : x[i] = IF i <= Len(y) THEN y[i] ELSE Tabs[i - Len(y)]
    BY <1>1, Joins
  <2> HIDE DEF x, y
  <2>4. DOMAIN x = 1..3
    BY <2>1, <2>2, <2>3, LenProperties DEF Text
  <2>5. x[1] = y[1] /\ x[2] = "tab" /\ x[3] = "tab"
    BY <2>1, <2>2, <2>3
  <2> QED
    BY <2>1, <2>2, <2>4, <2>5 DEF Clear
<1>4. /\ g = IF m.type = "Document" /\ f # <<>> THEN Join(Colons, f) ELSE <<>>
      /\ x \in Text /\ r \in Text
  BY <1>1, Joins DEF FilePart, Join
<1> HIDE DEF y, x, u, p, f, g, r
<1>5. h \in Text /\ q \in Text
  BY <1>1, <1>4, Joins
<1> HIDE DEF h, q
<1>6. o \in Text /\ w \in Text
  BY <1>1, <1>5, Joins
<1> HIDE DEF o, w
<1>7. b \in Text
  BY <1>6, Joins
<1> HIDE DEF b
<1>8. PICK b1, z1 \in Text : s = Join(b1, z1) /\ Like(b1, b) /\ Like(z1, Blank)
  BY <1>1, <1>2, <1>7, LikeSplit
<1>9. PICK o1, w1 \in Text : b1 = Join(o1, w1) /\ Like(o1, o) /\ Like(w1, w)
  BY <1>6, <1>8, LikeSplit DEF b
<1>10. PICK h1, a1 \in Text : o1 = Join(h1, a1) /\ Like(h1, h) /\ Like(a1, AuthMark)
  BY <1>1, <1>5, <1>9, LikeSplit DEF o
<1>11. PICK x1, d1 \in Text : h1 = Join(x1, d1) /\ Like(x1, x) /\ Like(d1, m.data)
  BY <1>1, <1>4, <1>10, LikeSplit DEF h
<1>12. PICK q1, g1 \in Text : w1 = Join(q1, g1) /\ Like(q1, q) /\ Like(g1, g)
  BY <1>1, <1>5, <1>9, LikeSplit DEF w
<1>13. PICK r1, p1 \in Text : q1 = Join(r1, p1) /\ Like(r1, r) /\ Like(p1, p)
  BY <1>1, <1>4, <1>12, LikeSplit DEF q
<1>14. PICK u1, c1 \in Text : r1 = Join(u1, c1) /\ Like(u1, u) /\ Like(c1, Colons)
  BY <1>1, <1>13, LikeSplit DEF r
<1>15. z1 = Blank /\ a1 = AuthMark /\ x1 = x /\ c1 = Colons
  <2>1. z1 = Blank
    BY <1>1, <1>8, MarksAreClear, LikeClear
  <2>2. a1 = AuthMark
    BY <1>1, <1>10, MarksAreClear, LikeClear
  <2>3. x1 = x
    BY <1>3, <1>4, <1>11, LikeClear
  <2>4. c1 = Colons
    BY <1>1, <1>14, MarksAreClear, LikeClear
  <2> QED
    BY <2>1, <2>2, <2>3, <2>4
<1>16. \E f1 \in Text :
         /\ Like(f1, f)
         /\ g1 = IF m.type = "Document" /\ f1 # <<>> THEN Join(Colons, f1) ELSE <<>>
  <2>1. CASE m.type = "Document" /\ f # <<>>
    <3>1. g = Join(Colons, f)
      BY <1>4, <2>1
    <3>2. PICK c2, f1 \in Text : g1 = Join(c2, f1) /\ Like(c2, Colons) /\ Like(f1, f)
      BY <1>1, <1>12, <3>1, LikeSplit
    <3>3. c2 = Colons
      BY <1>1, <3>2, MarksAreClear, LikeClear
    <3>4. f1 # <<>>
      BY <1>1, <2>1, <3>2, LikeEmpty
    <3> QED
      BY <2>1, <3>2, <3>3, <3>4
  <2>2. CASE ~(m.type = "Document" /\ f # <<>>)
    <3>1. g = <<>>
      BY <1>4, <2>2
    <3>2. g1 = <<>>
      BY <1>1, <1>12, <3>1, LikeEmpty
    <3>3. ~(m.type = "Document" /\ f # <<>>)
      BY <2>2
    <3> QED
      BY <1>1, <3>2, <3>3, LikeSelf
  <2> QED
    BY <2>1, <2>2
<1>17. PICK f1 \in Text :
         /\ Like(f1, f)
         /\ g1 = IF m.type = "Document" /\ f1 # <<>> THEN Join(Colons, f1) ELSE <<>>
  BY <1>16
<1> DEFINE n == [type |-> m.type, data |-> d1, user |-> u1, pass |-> p1, file |-> f1]
<1>18. /\ n \in Sent /\ n.type = m.type /\ n.data = d1 /\ n.user = u1 /\ n.pass = p1
       /\ n.file = f1
  BY <1>11, <1>13, <1>14, <1>17 DEF Sent
<1> HIDE DEF n
<1>19. LikeMsg(n, m)
  BY <1>11, <1>13, <1>14, <1>17, <1>18 DEF LikeMsg, u, p, f
<1>20. FilePart(n) = g1
  BY <1>17, <1>18 DEF FilePart, Join
<1>21. Auth(n) = Join(q1, g1)
  <2>1. Auth(n) = Join(Join(Join(n.user, Colons), n.pass), FilePart(n))
    BY DEF Auth, Join
  <2> QED
    BY <1>13, <1>14, <1>15, <1>18, <1>20, <2>1
<1>22. Opening(n) = h1
  <2>1. Opening(n) = Join(Join(TypeToString(n.type), Tabs), n.data)
    BY DEF Opening, Join
  <2> QED
    BY <1>11, <1>15, <1>18, <2>1 DEF x, y
<1>23. Body(n) = b1
  <2>1. Body(n) = Join(Join(Opening(n), AuthMark), Auth(n))
    BY DEF Body, Join
  <2> QED
    BY <1>9, <1>10, <1>12, <1>15, <1>21, <1>22, <2>1
<1>24. Serialize(n) = s
  <2>1. Serialize(n) = Join(Body(n), Blank)
    BY <1>18, SerializeIs DEF Join
  <2> QED
    BY <1>8, <1>15, <1>23, <2>1
<1> QED
  BY <1>18, <1>19, <1>24

\* What is like a plain message is plain.
LEMMA LikePlain ==
  ASSUME NEW m \in Sent, NEW n \in Sent, LikeMsg(n, m), Plain(m)
  PROVE  Plain(n)
<1>1. /\ m.data \in Text /\ m.user \in Text /\ m.pass \in Text /\ m.file \in Text
      /\ n.data \in Text /\ n.user \in Text /\ n.pass \in Text /\ n.file \in Text
      /\ Tabs \in Text /\ AuthMark \in Text /\ Colons \in Text /\ Blank \in Text
  BY FieldsAre, MarksAre
<1>2. /\ n.type = m.type /\ Like(n.data, m.data) /\ Like(n.user, m.user)
      /\ Like(n.pass, m.pass) /\ Like(n.file, m.file)
  BY DEF LikeMsg
<1>3. ":" \notin Bytes /\ "nl" \notin Bytes
  BY DEF Bytes
<1>4. PlainData(m.data) => PlainData(n.data)
  <2>1. Like(Join(Tabs, n.data), Join(Tabs, m.data))
    BY <1>1, <1>2, LikeSelf, LikeJoin
  <2>2. Join(Tabs, n.data) \in Text /\ Join(Tabs, m.data) \in Text
    BY <1>1, Joins
  <2>3. Has(AuthMark, Join(Tabs, n.data)) <=> Has(AuthMark, Join(Tabs, m.data))
    BY <1>1, <2>1, <2>2, LikeIndex, MarksAreClear
  <2>4. Has(Blank, n.data) <=> Has(Blank, m.data)
    BY <1>1, <1>2, LikeIndex, MarksAreClear
  <2> QED
    BY <2>3, <2>4 DEF PlainData, Join
<1>5. ASSUME NEW s \in Text, NEW t \in Text, Like(s, t)
      PROVE  /\ PlainName(t) => PlainName(s)
             /\ PlainLast(t) => PlainLast(s)
  <2>1. /\ Has(Blank, s) <=> Has(Blank, t)
        /\ Has(Colons, s) <=> Has(Colons, t)
    BY <1>1, <1>5, LikeIndex, MarksAreClear
  <2>2. /\ IsSuffix(<<":">>, s) <=> IsSuffix(<<":">>, t)
        /\ IsSuffix(<<"nl">>, s) <=> IsSuffix(<<"nl">>, t)
    BY <1>3, <1>5, LikeSuffix
  <2> QED
    BY <2>1, <2>2 DEF PlainName, PlainLast
<1>6. n.file = <<>> <=> m.file = <<>>
  BY <1>1, <1>2, LikeEmpty
<1>7. /\ PlainName(m.user) => PlainName(n.user)
      /\ PlainName(m.pass) => PlainName(n.pass)
      /\ PlainLast(m.pass) => PlainLast(n.pass)
      /\ PlainLast(m.file) => PlainLast(n.file)
  BY <1>1, <1>2, <1>5
<1> QED
  BY <1>2, <1>4, <1>6, <1>7 DEF Plain

-----------------------------------------------------------------------------
(* What Decode makes of a chunk.                                           *)

Whole(text) == \A i \in 1..Len(text) :
  /\ text[i] = "hi" => i < Len(text) /\ text[i + 1] = "lo"
  /\ text[i] = "lo" => i > 1 /\ text[i - 1] = "hi"

LEMMA WholeIs ==
  ASSUME NEW f \in Text, Decode(f) = f
  PROVE  Whole(f)
<1>1. Len(f) \in Nat /\ DOMAIN f = 1..Len(f)
  BY LenProperties DEF Text
<1> SUFFICES ASSUME NEW i \in 1..Len(f)
             PROVE  /\ f[i] = "hi" => i < Len(f) /\ f[i + 1] = "lo"
                    /\ f[i] = "lo" => i > 1 /\ f[i - 1] = "hi"
  BY DEF Whole
<1>2. f[i] = Decode(f)[i]
  OBVIOUS
<1>3. Decode(f)[i] = IF \/ f[i] = "hi" /\ (i = Len(f) \/ f[i + 1] # "lo")
                        \/ f[i] = "lo" /\ (i = 1 \/ f[i - 1] # "hi")
                       THEN "bad" ELSE f[i]
  BY <1>1 DEF Decode
<1>4. f[i] = IF \/ f[i] = "hi" /\ (i = Len(f) \/ f[i + 1] # "lo")
                \/ f[i] = "lo" /\ (i = 1 \/ f[i - 1] # "hi")
               THEN "bad" ELSE f[i]
  BY <1>2, <1>3
<1>5. ASSUME f[i] = "hi" PROVE i # Len(f) /\ f[i + 1] = "lo"
  BY <1>4, <1>5
<1>6. ASSUME f[i] = "lo" PROVE i # 1 /\ f[i - 1] = "hi"
  BY <1>4, <1>6
<1>7. /\ i # Len(f) => i < Len(f)
      /\ i # 1 => i > 1
  <2> DEFINE l == Len(f)
  <2>1. l \in Nat /\ i \in 1..l
    BY <1>1
  <2> HIDE DEF l
  <2>2. (i # l => i < l) /\ (i # 1 => i > 1)
    BY <2>1
  <2> QED
    BY <2>2 DEF l
<1> QED
  BY <1>5, <1>6, <1>7

LEMMA WholeJoin ==
  ASSUME NEW a \in Text, NEW b \in Text, Whole(a), Whole(b)
  PROVE  Whole(Join(a, b))
<1> DEFINE n == Len(a)
           k == Len(b)
           t == Join(a, b)
<1>1. /\ n \in Nat /\ k \in Nat /\ Len(t) = n + k
      /\ \A i \in 1..(n + k) : t[i] = IF i <= n THEN a[i] ELSE b[i - n]
  BY Joins
<1>2. \A i \in 1..n : /\ a[i] = "hi" => i < n /\ a[i + 1] = "lo"
                      /\ a[i] = "lo" => i > 1 /\ a[i - 1] = "hi"
  BY DEF Whole
<1>3. \A i \in 1..k : /\ b[i] = "hi" => i < k /\ b[i + 1] = "lo"
                      /\ b[i] = "lo" => i > 1 /\ b[i - 1] = "hi"
  BY DEF Whole
<1> HIDE DEF n, k, t
<1>4. ASSUME NEW i \in 1..(n + k)
      PROVE  /\ t[i] = "hi" => i < n + k /\ t[i + 1] = "lo"
             /\ t[i] = "lo" => i > 1 /\ t[i - 1] = "hi"
  <2>1. CASE i <= n
    <3>1. i \in 1..n /\ t[i] = a[i]
      BY <1>1, <2>1
    <3>2. ASSUME t[i] = "hi" PROVE i < n + k /\ t[i + 1] = "lo"
      <4>1. i < n /\ a[i + 1] = "lo"
        BY <1>2, <3>1, <3>2
      <4> QED
        BY <1>1, <3>1, <4>1
    <3>3. ASSUME t[i] = "lo" PROVE i > 1 /\ t[i - 1] = "hi"
      <4>1. i > 1 /\ a[i - 1] = "hi"
        BY <1>2, <3>1, <3>3
      <4> QED
        BY <1>1, <3>1, <4>1
    <3> QED
      BY <3>2, <3>3
  <2>2. CASE ~(i <= n)
    <3> DEFINE j == i - n
    <3>1. j \in 1..k /\ t[i] = b[j] /\ n + j = i
      BY <1>1, <2>2
    <3> HIDE DEF j
    <3>2. ASSUME t[i] = "hi" PROVE i < n + k /\ t[i + 1] = "lo"
      <4>1. j < k /\ b[j + 1] = "lo"
        BY <1>3, <3>1, <3>2
      <4>2. i + 1 \in 1..(n + k) /\ ~(i + 1 <= n) /\ (i + 1) - n = j + 1 /\ i < n + k
        BY <1>1, <2>2, <3>1, <4>1
      <4> QED
        BY <1>1, <4>1, <4>2
    <3>3. ASSUME t[i] = "lo" PROVE i > 1 /\ t[i - 1] = "hi"
      <4>1. j > 1 /\ b[j - 1] = "hi"
        BY <1>3, <3>1, <3>3
      <4>2. i - 1 \in 1..(n + k) /\ ~(i - 1 <= n) /\ (i - 1) - n = j - 1 /\ i > 1
        BY <1>1, <2>2, <3>1, <4>1
      <4> QED
        BY <1>1, <4>1, <4>2
    <3> QED
      BY <3>2, <3>3
  <2> QED
    BY <2>1, <2>2
<1>5. Whole(t)
  BY <1>1, <1>4 DEF Whole
<1> QED
  BY <1>5 DEF t

LEMMA WholeClear ==
  ASSUME NEW a \in Text, Clear(a)
  PROVE  Whole(a)
<1>1. DOMAIN a = 1..Len(a)
  BY LenProperties DEF Text
<1> QED
  BY <1>1 DEF Clear, Whole, Bytes

\* The text of a message of the application has whole characters.
LEMMA WholeText ==
  ASSUME NEW m \in Messages
  PROVE  m \in Sent /\ Whole(Serialize(m))
<1>1. m \in Sent
  BY MessagesAssumption
<1>2. Whole(m.data) /\ Whole(m.user) /\ Whole(m.pass) /\ Whole(m.file)
  BY <1>1, MessagesAssumption, FieldsAre, WholeIs
<1> DEFINE y == TypeToString(m.type)
           g == FilePart(m)
           x == Join(y, Tabs)
           h == Join(x, m.data)
           o == Join(h, AuthMark)
           r == Join(m.user, Colons)
           q == Join(r, m.pass)
           w == Join(q, g)
           b == Join(o, w)
<1>3. /\ y \in Text /\ m.data \in Text /\ m.user \in Text /\ m.pass \in Text /\ m.file \in Text
      /\ g \in Text /\ Tabs \in Text /\ AuthMark \in Text /\ Colons \in Text /\ Blank \in Text
  BY <1>1, FieldsAre, MarksAre
<1>4. Serialize(m) = Join(b, Blank)
  BY <1>1, SerializeIs DEF Body, Opening, Auth, Join
<1>5. Whole(Tabs) /\ Whole(AuthMark) /\ Whole(Colons) /\ Whole(Blank)
  BY <1>3, MarksAreClear, WholeClear
<1>6. Whole(y)
  <2>1. Clear(y)
    BY DEF Clear, TypeToString, KnownTypes, Bytes
  <2> QED
    BY <1>3, <2>1, WholeClear
<1>7. Whole(g)
  <2>1. CASE m.type = "Document" /\ m.file # <<>>
    <3>1. g = Join(Colons, m.file)
      BY <2>1 DEF FilePart, Join
    <3> HIDE DEF g
    <3> QED
      BY <1>2, <1>3, <1>5, <3>1, WholeJoin
  <2>2. CASE ~(m.type = "Document" /\ m.file # <<>>)
    <3>1. g = <<>>
      BY <2>2 DEF FilePart
    <3>2. Clear(g)
      BY <3>1 DEF Clear
    <3> HIDE DEF g
    <3> QED
      BY <1>3, <3>2, WholeClear
  <2> QED
    BY <2>1, <2>2
<1> HIDE DEF y, g
<1>8. x \in Text /\ Whole(x) /\ r \in Text /\ Whole(r)
  BY <1>2, <1>3, <1>5, <1>6, WholeJoin, Joins
<1> HIDE DEF x, r
<1>9. h \in Text /\ Whole(h) /\ q \in Text /\ Whole(q)
  BY <1>2, <1>3, <1>8, WholeJoin, Joins
<1> HIDE DEF h, q
<1>10. o \in Text /\ Whole(o) /\ w \in Text /\ Whole(w)
  BY <1>3, <1>5, <1>7, <1>9, WholeJoin, Joins
<1> HIDE DEF o, w
<1>11. b \in Text /\ Whole(b)
  BY <1>10, WholeJoin, Joins
<1> HIDE DEF b
<1> QED
  BY <1>1, <1>3, <1>4, <1>5, <1>11, WholeJoin

LEMMA Decoded ==
  ASSUME NEW chunk \in Text
  PROVE  LET d == Decode(chunk)
         IN /\ d \in Text /\ Len(d) = Len(chunk)
            /\ \A i \in 1..Len(chunk) : Near(d[i], chunk[i])
            /\ d = <<>> \/ Last(d) # "hi"
<1> DEFINE d == Decode(chunk)
           n == Len(chunk)
           broke(i) == \/ chunk[i] = "hi" /\ (i = n \/ chunk[i + 1] # "lo")
                       \/ chunk[i] = "lo" /\ (i = 1 \/ chunk[i - 1] # "hi")
<1>1. n \in Nat /\ DOMAIN chunk = 1..n /\ \A i \in 1..n : chunk[i] \in Tokens
  BY LenProperties, ElementOfSeq DEF Text
<1>2. d = [i \in 1..n |-> IF broke(i) THEN "bad" ELSE chunk[i]]
  BY <1>1 DEF Decode
<1>3. \A i \in 1..n : broke(i) => chunk[i] \in {"hi", "lo"}
  OBVIOUS
<1>4. broke(n) \/ chunk[n] # "hi"
  OBVIOUS
<1> HIDE DEF d, broke, n
<1>5. "bad" \in Tokens
  BY DEF Tokens
<1>6. \A i \in 1..n : (IF broke(i) THEN "bad" ELSE chunk[i]) \in Tokens
  BY <1>1, <1>5
<1>7. d \in [1..n -> Tokens] /\ DOMAIN d = 1..n
  BY <1>2, <1>6
<1>8. d \in Seq(Tokens) /\ Len(d) = n
  BY <1>1, <1>7
<1>9. \A i \in 1..n : Near(d[i], chunk[i])
  BY <1>2, <1>3 DEF Near, Bytes
<1>10. d # <<>> => d[n] # "hi"
  <2> SUFFICES ASSUME d # <<>> PROVE d[n] # "hi"
    OBVIOUS
  <2>1. n > 0
    BY <1>1, <1>8, EmptySeq
  <2>2. n \in 1..n
    BY <1>1, <2>1
  <2>3. d[n] = IF broke(n) THEN "bad" ELSE chunk[n]
    BY <1>2, <2>2
  <2> QED
    BY <1>4, <2>3
<1> QED
  BY <1>8, <1>9, <1>10 DEF d, n, Last, Text

LEMMA DecodeClear ==
  ASSUME NEW chunk \in Text, Clear(chunk)
  PROVE  Decode(chunk) = chunk
<1>1. /\ Decode(chunk) \in Text /\ Len(Decode(chunk)) = Len(chunk)
      /\ \A i \in 1..Len(chunk) : Near(Decode(chunk)[i], chunk[i])
  BY Decoded
<1> DEFINE d == Decode(chunk)
<1> HIDE DEF d
<1>2. Like(d, chunk) /\ d \in Text
  BY <1>1 DEF Like, d
<1>3. d = chunk
  BY <1>2, LikeClear
<1> QED
  BY <1>3 DEF d

\* A chunk of a text with whole characters that neither begins nor ends inside
\* a character comes out as it was.
LEMMA DecodeExact ==
  ASSUME NEW t \in Text, Whole(t), NEW o \in Nat, NEW chunk \in Text, chunk # <<>>,
         Last(chunk) # "hi", o > 0 /\ o < Len(t) => t[o] # "hi",
         \A i \in 1..Len(chunk) : o + i <= Len(t) => chunk[i] = t[o + i]
  PROVE  \A i \in 1..Len(chunk) : o + i <= Len(t) => Decode(chunk)[i] = t[o + i]
<1> DEFINE n == Len(chunk)
           l == Len(t)
<1>1. n \in Nat /\ l \in Nat /\ DOMAIN chunk = 1..n
  BY LenProperties DEF Text
<1>2. chunk[n] # "hi"
  BY DEF Last
<1> SUFFICES ASSUME NEW i \in 1..n, o + i <= l PROVE Decode(chunk)[i] = t[o + i]
  OBVIOUS
<1>3. Decode(chunk)[i] = IF \/ chunk[i] = "hi" /\ (i = n \/ chunk[i + 1] # "lo")
                            \/ chunk[i] = "lo" /\ (i = 1 \/ chunk[i - 1] # "hi")
                           THEN "bad" ELSE chunk[i]
  BY <1>1 DEF Decode
<1>4. /\ \A j \in 1..n : o + j <= l => chunk[j] = t[o + j]
      /\ o > 0 /\ o < l => t[o] # "hi"
      /\ \A j \in 1..l : /\ t[j] = "hi" => j < l /\ t[j + 1] = "lo"
                         /\ t[j] = "lo" => j > 1 /\ t[j - 1] = "hi"
  BY DEF Whole
<1> HIDE DEF n, l
<1>5. chunk[i] = t[o + i] /\ o + i \in 1..l
  BY <1>1, <1>4
<1>6. ASSUME chunk[i] = "hi" PROVE i # n /\ chunk[i + 1] = "lo"
  <2>1. o + i < l /\ t[(o + i) + 1] = "lo"
    BY <1>4, <1>5, <1>6
  <2>2. i # n
    BY <1>2, <1>6
  <2>3. i + 1 \in 1..n /\ o + (i + 1) <= l /\ o + (i + 1) = (o + i) + 1
    BY <1>1, <2>1, <2>2
  <2> QED
    BY <1>4, <2>1, <2>2, <2>3
<1>7. ASSUME chunk[i] = "lo" PROVE i # 1 /\ chunk[i - 1] = "hi"
  <2>1. o + i > 1 /\ t[(o + i) - 1] = "hi"
    BY <1>4, <1>5, <1>7
  <2>2. i # 1
    <3> SUFFICES ASSUME i = 1 PROVE FALSE
      OBVIOUS
    <3>1. o > 0 /\ o < l /\ (o + i) - 1 = o
      BY <1>1, <2>1
    <3> QED
      BY <1>4, <2>1, <3>1
  <2>3. i - 1 \in 1..n /\ o + (i - 1) <= l /\ o + (i - 1) = (o + i) - 1
    BY <1>1, <2>2
  <2> QED
    BY <1>4, <2>1, <2>2, <2>3
<1> QED
  BY <1>3, <1>5, <1>6, <1>7

-----------------------------------------------------------------------------
(* What the server makes of what it heard.                                 *)

\* A text in front of another: what occurs in it, and the slices of it.
LEMMA IndexAhead ==
  ASSUME NEW t \in Text, NEW z \in Text, NEW part \in Text, Index(part, t) \in Nat
  PROVE  Index(part, Join(t, z)) = Index(part, t)
<1> DEFINE s == Join(t, z)
           i == Index(part, t)
           l == Len(t)
           p == Len(part)
<1>1. /\ l \in Nat /\ p \in Nat /\ DOMAIN part = 1..p
      /\ t \in Seq(Tokens) /\ part \in Seq(Tokens)
  BY LenProperties DEF Text
<1>2. /\ s \in Seq(Tokens) /\ Len(s) = l + Len(z) /\ Len(z) \in Nat
      /\ \A j \in 1..(l + Len(z)) : j <= l => s[j] = t[j]
  BY Joins DEF Text
<1>3. i # None /\ i \in Nat
  BY DEF None
<1>4. i + p <= l
  BY <1>1, <1>3, IndexRange
<1>5. Occurs(part, t, i) /\ \A k \in Nat : Occurs(part, t, k) => i <= k
  BY <1>1, <1>3, IndexFinds
<1> HIDE DEF s, i, l, p
<1>6. ASSUME NEW k \in Nat, k + p <= l
      PROVE  Occurs(part, s, k) <=> Occurs(part, t, k)
  <2>1. \A j \in 1..p : k + j \in 1..(l + Len(z)) /\ k + j <= l
    BY <1>1, <1>2, <1>6
  <2>2. \A j \in 1..p : s[k + j] = t[k + j]
    BY <1>2, <2>1
  <2>3. k \in 0..(l - p) /\ k \in 0..((l + Len(z)) - p)
    BY <1>1, <1>2, <1>6
  <2> QED
    BY <1>1, <1>2, <2>2, <2>3 DEF Occurs, l, p
<1>7. Occurs(part, s, i)
  BY <1>3, <1>4, <1>5, <1>6
<1>8. ASSUME NEW k \in Nat, Occurs(part, s, k) PROVE i <= k
  <2> SUFFICES ASSUME k < i PROVE FALSE
    BY <1>3
  <2>1. k + p <= l /\ ~(i <= k)
    BY <1>1, <1>3, <1>4
  <2> QED
    BY <1>5, <1>6, <1>8, <2>1
<1>9. Index(part, s) = i
  BY <1>1, <1>2, <1>3, <1>7, <1>8, IndexIs
<1> QED
  BY <1>9 DEF s, i

LEMMA SliceAhead ==
  ASSUME NEW t \in Text, NEW z \in Text, NEW from \in Nat, NEW to \in Nat, to <= Len(t)
  PROVE  Slice(Join(t, z), from, to) = Slice(t, from, to)
<1> DEFINE s == Join(t, z)
           a == SubSeq(s, from + 1, to)
           b == SubSeq(t, from + 1, to)
<1>1. /\ Len(t) \in Nat /\ t \in Seq(Tokens) /\ s \in Seq(Tokens)
      /\ Len(s) = Len(t) + Len(z) /\ Len(z) \in Nat
      /\ \A j \in 1..(Len(t) + Len(z)) : j <= Len(t) => s[j] = t[j]
  BY Joins DEF Text
<1> HIDE DEF s
<1>2. /\ \A j \in (from + 1)..to : s[j] \in Tokens /\ t[j] \in Tokens
      /\ \A j \in (from + 1)..to : s[j] = t[j]
  <2>1. \A j \in (from + 1)..to : j \in 1..Len(s) /\ j \in 1..Len(t) /\ j \in 1..(Len(t) + Len(z))
    BY <1>1
  <2> QED
    BY <1>1, <2>1, ElementOfSeq
<1>3. from + 1 \in Int /\ to \in Int
  OBVIOUS
<1>4. /\ a \in Seq(Tokens)
      /\ Len(a) = IF from + 1 <= to THEN to - (from + 1) + 1 ELSE 0
      /\ \A j \in 1..(to - (from + 1) + 1) : a[j] = s[(from + 1) + j - 1]
  BY <1>2, <1>3, SubSeqProperties
<1>5. /\ b \in Seq(Tokens)
      /\ Len(b) = IF from + 1 <= to THEN to - (from + 1) + 1 ELSE 0
      /\ \A j \in 1..(to - (from + 1) + 1) : b[j] = t[(from + 1) + j - 1]
  BY <1>2, <1>3, SubSeqProperties
<1> HIDE DEF a, b
<1>6. ASSUME NEW j \in 1..Len(a) PROVE a[j] = b[j]
  <2>1. j \in 1..(to - (from + 1) + 1) /\ (from + 1) + j - 1 \in (from + 1)..to
    BY <1>4
  <2> QED
    BY <1>2, <1>4, <1>5, <2>1
<1>7. a = b
  BY <1>4, <1>5, <1>6, SeqEqual
<1> QED
  BY <1>7 DEF Slice, a, b, s

\* What deserialize makes of a text behind which more came.
LEMMA JsReads ==
  ASSUME NEW m \in Sent, Plain(m), NEW z \in Text
  PROVE  deserialize(Join(Serialize(m), z)) = [went |-> "message", msg |-> m]
<1> DEFINE t == Serialize(m)
           s == Join(t, z)
           d == Len(m.data)
           a == Len(Auth(m))
           w == Auth(m)
           parts == CutLast(CutLast(Cut(w)))
           type == StringToType(Slice(t, 0, 1))
           file == IF type = "Document" /\ Len(parts) > 2 THEN parts[3] ELSE <<>>
<1>1. /\ Index(Tabs, t) = 1 /\ Index(AuthMark, t) = d + 3 /\ Index(Blank, t) = d + a + 7
      /\ Len(t) = d + a + 9 /\ d \in Nat /\ a \in Nat /\ t \in Text
      /\ Tabs \in Text /\ AuthMark \in Text /\ Blank \in Text /\ Len(AuthMark) = 4
  BY MarksFound, SerializeIs, MarksAre
<1>2. /\ Slice(t, 0, 1) = TypeToString(m.type)
      /\ Slice(t, 3, d + 3) = m.data
      /\ Slice(t, (d + 3) + 4, d + a + 7) = w
  BY Pieces
<1>3. type = m.type
  <2>1. m.type \in KnownTypes
    BY PlainFields
  <2>2. TypeToString(m.type) = <<m.type>>
    BY <2>1 DEF TypeToString
  <2> HIDE DEF t
  <2> QED
    BY <1>2, <2>1, <2>2 DEF StringToType
<1>4. parts = IF m.file = <<>> THEN <<m.user, m.pass>> ELSE <<m.user, m.pass, m.file>>
  BY PlainParts
<1>5. m.type # "Document" => m.file = <<>>
  BY PlainFields
<1> HIDE DEF t, d, a, w, parts, type
<1>6. /\ ~(Len(parts) < 2) /\ parts[1] = m.user /\ parts[2] = m.pass /\ file = m.file
  <2>1. CASE m.file = <<>>
    <3>1. parts = <<m.user, m.pass>>
      BY <1>4, <2>1
    <3> QED
      BY <2>1, <3>1
  <2>2. CASE m.file # <<>>
    <3>1. parts = <<m.user, m.pass, m.file>> /\ m.type = "Document"
      BY <1>4, <1>5, <2>2
    <3> QED
      BY <1>3, <3>1
  <2> QED
    BY <2>1, <2>2
<1> HIDE DEF file
<1>7. /\ d + 3 \in Nat /\ d + a + 7 \in Nat /\ 3 \in Nat /\ (d + 3) + 4 \in Nat
      /\ 1 <= Len(t) /\ d + 3 <= Len(t) /\ d + a + 7 <= Len(t)
      /\ 0 <= 1 /\ 3 <= d + 3 /\ (d + 3) + 4 <= d + a + 7 /\ 1 \in Nat /\ 0 \in Nat
      /\ None \notin {1, d + 3, d + a + 7} /\ DataFrom(1) = 3
  BY <1>1 DEF None, DataFrom
<1>8. Index(Tabs, s) = 1 /\ Index(AuthMark, s) = d + 3 /\ Index(Blank, s) = d + a + 7
  BY <1>1, <1>7, IndexAhead
<1>9. /\ Slice(s, 0, 1) = Slice(t, 0, 1)
      /\ Slice(s, 3, d + 3) = m.data
      /\ Slice(s, (d + 3) + 4, d + a + 7) = w
  <2>1. Slice(s, 0, 1) = Slice(t, 0, 1)
    BY <1>1, <1>7, SliceAhead
  <2>2. Slice(s, 3, d + 3) = m.data
    BY <1>1, <1>2, <1>7, SliceAhead
  <2>3. Slice(s, (d + 3) + 4, d + a + 7) = w
    BY <1>1, <1>2, <1>7, SliceAhead
  <2> QED
    BY <2>1, <2>2, <2>3
<1> HIDE DEF s
<1>10. /\ Substring(s, 0, 1) = Slice(t, 0, 1)
       /\ Substring(s, DataFrom(1), d + 3) = m.data
       /\ Substring(s, (d + 3) + Len(AuthMark), d + a + 7) = w
  BY <1>1, <1>7, <1>9 DEF Substring
<1>11. deserialize(s) = [went |-> "message",
                         msg |-> [type |-> type, data |-> m.data, user |-> parts[1],
                                  pass |-> parts[2], file |-> file]]
  <2> DEFINE cut == CutLast(CutLast(Cut(
                      Substring(s, Index(AuthMark, s) + Len(AuthMark), Index(Blank, s)))))
             ty == StringToType(Substring(s, 0, Index(Tabs, s)))
  <2>1. cut = parts /\ ty = type
    BY <1>8, <1>10 DEF parts, type
  <2>2. Substring(s, DataFrom(Index(Tabs, s)), Index(AuthMark, s)) = m.data
    BY <1>8, <1>10
  <2>3. ~(None \in {Index(Tabs, s), Index(AuthMark, s), Index(Blank, s)} \/ Len(cut) < 2)
    BY <1>6, <1>7, <1>8, <2>1
  <2>4. deserialize(s) =
          [went |-> "message",
           msg |-> [type |-> ty, data |-> Substring(s, DataFrom(Index(Tabs, s)), Index(AuthMark, s)),
                    user |-> cut[1], pass |-> cut[2],
                    file |-> IF ty = "Document" /\ Len(cut) > 2 THEN cut[3] ELSE <<>>]]
    BY <2>3 DEF deserialize
  <2> HIDE DEF cut, ty
  <2> QED
    BY <2>1, <2>2, <2>4 DEF file
<1>12. m = [type |-> m.type, data |-> m.data, user |-> m.user, pass |-> m.pass, file |-> m.file]
  BY DEF Sent
<1> QED
  BY <1>3, <1>6, <1>11, <1>12 DEF s, t

\* A text that ends in a blank line.
LEMMA BlankSuffix ==
  ASSUME NEW S, NEW text \in Seq(S), IsText(text)
  PROVE  /\ Len(text) >= 2
         /\ text[Len(text)] = "nl" /\ text[Len(text) - 1] = "nl"
<1> DEFINE l == Len(text)
           r == Reverse(text)
           y == Reverse(Blank)
<1>1. l \in Nat
  BY LenProperties
<1>2. r = [i \in 1..l |-> text[(l - i) + 1]]
  BY DEF Reverse
<1>3. Len(Blank) = 2 /\ Blank[1] = "nl" /\ Blank[2] = "nl"
  BY DEF Blank
<1>4. y = [i \in 1..2 |-> Blank[(2 - i) + 1]]
  BY <1>3 DEF Reverse
<1>5. Len(y) <= Len(r) /\ SubSeq(y, 1, Len(y)) = SubSeq(r, 1, Len(y))
  BY DEF IsText, IsSuffix, IsPrefix
<1> HIDE DEF l, r, y
<1>6. Len(y) = 2 /\ y[1] = "nl" /\ y[2] = "nl"
  BY <1>3, <1>4
<1>7. Len(r) = l
  BY <1>1, <1>2
<1>8. l >= 2
  BY <1>1, <1>5, <1>6, <1>7
<1>9. r[1] = text[l] /\ r[2] = text[l - 1]
  <2>1. /\ 1 \in 1..l /\ 2 \in 1..l /\ (l - 1) + 1 = l /\ (l - 2) + 1 = l - 1
    BY <1>1, <1>8
  <2> QED
    BY <1>2, <2>1
<1>10. SubSeq(y, 1, 2) = SubSeq(r, 1, 2)
  BY <1>5, <1>6
<1>11. /\ SubSeq(y, 1, 2)[1] = y[1] /\ SubSeq(r, 1, 2)[1] = r[1]
       /\ SubSeq(y, 1, 2)[2] = y[2] /\ SubSeq(r, 1, 2)[2] = r[2]
  OBVIOUS
<1> QED
  BY <1>6, <1>8, <1>9, <1>10, <1>11 DEF l

\* Part of a plain text, however its characters were broken: no blank line is
\* in it, so receive waits for more, and deserialize turns it away.
LEMMA JsStops ==
  ASSUME NEW m \in Sent, Plain(m), NEW w \in Text, Len(w) < Len(Serialize(m)),
         \A i \in 1..Len(w) : Near(w[i], Serialize(m)[i])
  PROVE  deserialize(w) = Invalid /\ ~IsText(w)
<1> DEFINE t == Serialize(m)
           d == Len(m.data)
           a == Len(Auth(m))
           l == Len(w)
<1>1. /\ Len(t) = d + a + 9 /\ d \in Nat /\ a \in Nat /\ t \in Seq(Tokens)
      /\ \A k \in Nat : Occurs(Blank, t, k) => d + a + 7 <= k
  BY MarksFound, MarksInText, SerializeIs DEF Text
<1>2. w \in Seq(Tokens) /\ l \in Nat
  BY LenProperties DEF Text
<1>3. Blank = <<"nl", "nl">> /\ Blank \in Seq(Tokens)
  BY MarksAre DEF Blank, Text
<1>4. l < Len(t) /\ \A i \in 1..l : Near(w[i], t[i])
  OBVIOUS
<1> HIDE DEF t, d, a, l
<1>5. \A k \in Nat : ~Twice("nl", w, k + 1)
  <2> SUFFICES ASSUME NEW k \in Nat, Twice("nl", w, k + 1) PROVE FALSE
    OBVIOUS
  <2>1. k + 1 \in 1..(l - 1) /\ w[k + 1] = "nl" /\ w[(k + 1) + 1] = "nl"
    BY DEF Twice, l
  <2>2. k + 1 \in 1..l /\ (k + 1) + 1 \in 1..l
    BY <1>2, <2>1
  <2>3. t[k + 1] = "nl" /\ t[(k + 1) + 1] = "nl"
    BY <1>4, <2>1, <2>2 DEF Near, Bytes
  <2>4. Twice("nl", t, k + 1)
    <3>1. k + 1 \in 1..(Len(t) - 1)
      BY <1>1, <1>2, <1>4, <2>1
    <3> QED
      BY <2>3, <3>1 DEF Twice
  <2>5. Occurs(<<"nl", "nl">>, t, k)
    BY <1>1, <2>4, OccursTwice
  <2>6. d + a + 7 <= k
    BY <1>1, <1>3, <2>5
  <2> QED
    BY <1>1, <1>2, <1>4, <2>1, <2>6
<1>6. \A k \in Nat : ~Occurs(Blank, w, k)
  BY <1>2, <1>3, <1>5, OccursTwice
<1>7. Index(Blank, w) = None
  BY <1>2, <1>3, <1>6, IndexNone
<1>8. deserialize(w) = Invalid
  BY <1>7 DEF deserialize
<1>9. ~IsText(w)
  <2> SUFFICES ASSUME IsText(w) PROVE FALSE
    OBVIOUS
  <2>1. l >= 2 /\ w[l] = "nl" /\ w[l - 1] = "nl"
    BY <1>2, BlankSuffix DEF l
  <2>2. l - 2 \in Nat /\ (l - 2) + 1 = l - 1 /\ (l - 1) + 1 = l /\ l - 1 \in 1..(l - 1)
    BY <1>2, <2>1
  <2>3. Twice("nl", w, (l - 2) + 1)
    BY <2>1, <2>2 DEF Twice, l
  <2> QED
    BY <1>5, <2>2, <2>3
<1> QED
  BY <1>8, <1>9

LEMMA NothingIsInvalid ==
  deserialize(<<>>) = Invalid
<1>1. \A k \in Nat : ~Occurs(Blank, <<>>, k)
  BY DEF Occurs, Blank
<1>2. <<>> \in Seq(Tokens) /\ Blank \in Seq(Tokens)
  BY MarksAre DEF Text
<1>3. Index(Blank, <<>>) = None
  BY <1>1, <1>2, IndexNone
<1> QED
  BY <1>3 DEF deserialize

\* A plain text with more behind it: the message, but for broken characters.
LEMMA JsHears ==
  ASSUME NEW m \in Sent, Plain(m), NEW w \in Text, Len(w) >= Len(Serialize(m)),
         \A i \in 1..Len(Serialize(m)) : Near(w[i], Serialize(m)[i])
  PROVE  \E n \in Sent :
           /\ deserialize(w) = [went |-> "message", msg |-> n]
           /\ LikeMsg(n, m)
           /\ (\A i \in 1..Len(Serialize(m)) : w[i] = Serialize(m)[i]) => n = m
<1> DEFINE t == Serialize(m)
           k == Len(t)
           l == Len(w)
           c == SubSeq(w, 1, k)
           z == SubSeq(w, k + 1, l)
<1>1. t \in Text /\ k \in Nat /\ l \in Nat /\ k <= l /\ w \in Seq(Tokens)
  BY SerializeIs, LenProperties DEF Text
<1>2. \A i \in 1..k : Near(w[i], t[i])
  OBVIOUS
<1> HIDE DEF k, l
<1>3. c \in Seq(Tokens) /\ Len(c) = k /\ \A i \in 1..k : c[i] = w[i]
  <2>1. 1 \in Int /\ k \in Int /\ \A i \in 1..k : w[i] \in Tokens
    BY <1>1, ElementOfSeq DEF l
  <2>2. /\ c \in Seq(Tokens) /\ Len(c) = IF 1 <= k THEN k - 1 + 1 ELSE 0
        /\ \A i \in 1..(k - 1 + 1) : c[i] = w[1 + i - 1]
    BY <2>1, SubSeqProperties
  <2> HIDE DEF c
  <2>3. Len(c) = k
    BY <1>1, <2>2
  <2>4. ASSUME NEW i \in 1..k PROVE c[i] = w[i]
    <3>1. i \in 1..(k - 1 + 1) /\ 1 + i - 1 = i
      BY <1>1
    <3> QED
      BY <2>2, <3>1
  <2> QED
    BY <2>2, <2>3, <2>4
<1>4. z \in Seq(Tokens)
  <2>1. k + 1 \in Int /\ l \in Int /\ \A i \in (k + 1)..l : w[i] \in Tokens
    BY <1>1, ElementOfSeq DEF l
  <2> QED
    BY <2>1, SubSeqProperties
<1>5. w = Join(c, z)
  <2>1. 1 \in 1..(l + 1) /\ k \in (1 - 1)..l /\ l \in k..l
    BY <1>1
  <2>2. SubSeq(w, 1, k) \o SubSeq(w, k + 1, l) = SubSeq(w, 1, l)
    BY <1>1, <2>1, ConcatAdjacentSubSeq DEF l
  <2>3. SubSeq(w, 1, l) = w
    BY <1>1, SubSeqFull DEF l
  <2> QED
    BY <2>2, <2>3 DEF Join
<1> HIDE DEF c, z, t
<1>6. Like(c, t)
  BY <1>2, <1>3 DEF Like, k
<1>7. c \in Text /\ z \in Text
  BY <1>3, <1>4 DEF Text
<1>8. PICK n \in Sent : c = Serialize(n) /\ LikeMsg(n, m)
  BY <1>6, <1>7, LikeText DEF t
<1>9. Plain(n)
  BY <1>8, LikePlain
<1>10. deserialize(Join(Serialize(n), z)) = [went |-> "message", msg |-> n]
  BY <1>7, <1>9, JsReads
<1>11. ASSUME \A i \in 1..k : w[i] = t[i] PROVE n = m
  <2>1. c = t
    <3>1. t \in Seq(Tokens) /\ c \in Seq(Tokens) /\ Len(c) = Len(t)
          /\ \A i \in 1..Len(c) : c[i] = t[i]
      BY <1>1, <1>3, <1>11 DEF k, Text
    <3> QED
      BY <3>1, SeqEqual
  <2>2. deserialize(Join(Serialize(m), z)) = [went |-> "message", msg |-> m]
    BY <1>7, JsReads
  <2>3. [went |-> "message", msg |-> n] = [went |-> "message", msg |-> m]
    BY <1>8, <1>10, <2>1, <2>2 DEF t
  <2>4. [went |-> "message", msg |-> n].msg = [went |-> "message", msg |-> m].msg
    BY <2>3
  <2> QED
    BY <2>4
<1> QED
  BY <1>5, <1>8, <1>10, <1>11 DEF t, k

\* deserialize returns a message or nothing, whatever it reads.
Parsable == [type : KnownTypes \cup {"-1"}, data : Text, user : Text, pass : Text,
             file : Text]

LEMMA SubstringType ==
  ASSUME NEW text \in Text, NEW from \in Nat, NEW to \in Nat,
         from <= Len(text), to <= Len(text)
  PROVE  Substring(text, from, to) \in Text
BY SliceType DEF Substring, Text

LEMMA JsType ==
  ASSUME NEW text \in Text
  PROVE  LET parsed == deserialize(text)
         IN \/ parsed = Invalid
            \/ /\ parsed.went = "message" /\ parsed.msg \in Parsable
               /\ parsed # Invalid
<1> DEFINE i == Index(Tabs, text)
           j == Index(AuthMark, text)
           e == Index(Blank, text)
           w == Substring(text, j + Len(AuthMark), e)
           parts == CutLast(CutLast(Cut(w)))
           y == StringToType(Substring(text, 0, i))
           z == Substring(text, DataFrom(i), j)
           f == IF y = "Document" /\ Len(parts) > 2 THEN parts[3] ELSE <<>>
           msg == [type |-> y, data |-> z, user |-> parts[1], pass |-> parts[2], file |-> f]
<1>1. /\ text \in Seq(Tokens) /\ Len(text) \in Nat
      /\ Tabs \in Seq(Tokens) /\ AuthMark \in Seq(Tokens) /\ Blank \in Seq(Tokens)
      /\ Len(AuthMark) = 4 /\ Len(Tabs) = 2 /\ Len(Blank) = 2
  <2>1. Len(AuthMark) = 4
    BY MarksAre
  <2>2. Len(Tabs) = 2 /\ Len(Blank) = 2
    BY DEF Tabs, Blank
  <2> QED
    BY <2>1, <2>2, MarksAre, LenProperties DEF Text
<1>2. y \in KnownTypes \cup {"-1"}
  <2> DEFINE s == Substring(text, 0, i)
  <2> HIDE DEF s
  <2>1. StringToType(s) \in KnownTypes \cup {"-1"}
    <3>1. CASE \E type \in KnownTypes : s = <<type>>
      <4>1. PICK type \in KnownTypes : s = <<type>>
        BY <3>1
      <4>2. s[1] = type
        BY <4>1
      <4> QED
        BY <3>1, <4>1, <4>2 DEF StringToType
    <3>2. CASE ~\E type \in KnownTypes : s = <<type>>
      BY <3>2 DEF StringToType
    <3> QED
      BY <3>1, <3>2
  <2> QED
    BY <2>1 DEF s
<1>3. CASE None \notin {i, j, e} /\ ~(Len(parts) < 2)
  <2>1. /\ i \in Nat /\ j \in Nat /\ e \in Nat
        /\ i + 2 <= Len(text) /\ j + 4 <= Len(text) /\ e + 2 <= Len(text)
    BY <1>1, <1>3, IndexRange
  <2> HIDE DEF i, j, e
  <2>2. /\ j + 4 \in Nat /\ e <= Len(text) /\ j <= Len(text)
        /\ DataFrom(i) \in Nat /\ DataFrom(i) <= Len(text)
    BY <1>1, <2>1 DEF DataFrom
  <2>3. w \in Text
    <3>1. Substring(text, j + 4, e) \in Text
      BY <2>1, <2>2, SubstringType
    <3> QED
      BY <1>1, <3>1
  <2>4. z \in Text
    BY <2>1, <2>2, SubstringType
  <2>5. parts \in Seq(Text)
    <3> HIDE DEF w
    <3> QED
      BY <2>3, CutType, CutLastType
  <2> HIDE DEF w, z, parts
  <2> DEFINE T == Text
  <2> HIDE DEF T
  <2>6. Len(parts) \in Nat /\ \A k \in 1..Len(parts) : parts[k] \in T
    BY <2>5, LenProperties, ElementOfSeq DEF T
  <2>7. parts[1] \in T /\ parts[2] \in T /\ (Len(parts) > 2 => parts[3] \in T)
    BY <1>3, <2>6
  <2>8. <<>> \in T
    BY DEF T, Text
  <2>9. f \in T
    BY <2>7, <2>8
  <2> HIDE DEF f, y
  <2>10. msg \in Parsable
    BY <1>2, <2>4, <2>7, <2>9 DEF Parsable, T
  <2>11. deserialize(text) = [went |-> "message", msg |-> msg]
    BY <1>3 DEF deserialize, i, j, e, w, z, parts, f, y
  <2>12. [went |-> "message", msg |-> msg] # Invalid
    BY DEF Invalid
  <2> QED
    BY <2>10, <2>11, <2>12
<1>4. CASE ~(None \notin {i, j, e} /\ ~(Len(parts) < 2))
  <2>1. deserialize(text) = Invalid
    BY <1>4 DEF deserialize
  <2> QED
    BY <2>1
<1> QED
  BY <1>3, <1>4

\* What is heard of a response, or of a response and more: it is a text only
\* when all of the response is there, and a code only when nothing else is.
LEMMA RespHeard ==
  ASSUME NEW c \in Seq(Digits), NEW w \in Seq(RespTokens),
         \A i \in 1..Len(w) : i <= Len(SerializeResponse(c)) =>
           w[i] = SerializeResponse(c)[i]
  PROVE  /\ IsText(w) => Len(w) >= Len(SerializeResponse(c)) /\ w # <<>>
         /\ w # <<>> /\ Parsed(w).out = "code" => Parsed(w).code = c
<1> DEFINE r == SerializeResponse(c)
           n == Len(c)
           l == Len(w)
<1>1. /\ r \in Seq(RespTokens) /\ n \in Nat /\ Len(r) = n + 4
      /\ r[1] = "RESP" /\ r[2] = ":" /\ \A i \in 1..n : r[2 + i] = c[i]
      /\ r[n + 3] = "nl" /\ r[n + 4] = "nl"
  BY ResponseLayout
<1>2. l \in Nat /\ \A i \in 1..n : c[i] # "nl"
  BY LenProperties, ElementOfSeq DEF Digits
<1>3. \A i \in 1..l : i <= n + 4 => w[i] = r[i]
  BY <1>1
<1> HIDE DEF r, n, l
<1>4. ASSUME IsText(w) PROVE l >= n + 4
  <2>1. l >= 2 /\ w[l] = "nl" /\ w[l - 1] = "nl"
    BY <1>4, BlankSuffix DEF l
  <2> SUFFICES ASSUME l < n + 4 PROVE FALSE
    BY <1>1, <1>2
  <2>2. l - 1 \in 1..l /\ l - 1 <= n + 4 /\ r[l - 1] = "nl"
    <3>1. l - 1 \in 1..l /\ l - 1 <= n + 4
      BY <1>1, <1>2, <2>1
    <3> QED
      BY <1>3, <2>1, <3>1
  <2>3. CASE l - 1 <= 2
    <3>1. l - 1 = 1 \/ l - 1 = 2
      BY <1>2, <2>1, <2>3
    <3> QED
      BY <1>1, <2>2, <3>1
  <2>4. CASE ~(l - 1 <= 2)
    <3>1. (l - 1) - 2 \in 1..n /\ 2 + ((l - 1) - 2) = l - 1
      BY <1>1, <1>2, <2>4
    <3> QED
      BY <1>1, <1>2, <2>2, <3>1
  <2> QED
    BY <2>3, <2>4
<1>5. ASSUME w # <<>>, Parsed(w).out = "code" PROVE Parsed(w).code = c
  <2> DEFINE g == Slice(w, Len(RespMark), Len(w) - Len(Blank))
  <2>1. g \in Seq(Digits) /\ w = SerializeResponse(g) /\ Parsed(w).code = g
    <3>1. /\ w # <<>> /\ g \in Seq(Digits) \ {<<>>} /\ w = SerializeResponse(g)
          /\ Parsed(w) = [out |-> "code", code |-> g]
      BY <1>5 DEF Parsed
    <3> QED
      BY <3>1
  <2> HIDE DEF g
  <2> DEFINE k == Len(g)
  <2>2. /\ k \in Nat /\ l = k + 4
        /\ \A i \in 1..k : w[2 + i] = g[i]
        /\ w[k + 3] = "nl" /\ \A i \in 1..k : g[i] # "nl"
    <3>1. \A i \in 1..k : g[i] # "nl"
      BY <2>1, ElementOfSeq DEF Digits
    <3> QED
      BY <2>1, <3>1, ResponseLayout DEF l
  <2> HIDE DEF k
  <2>3. k = n
    <3>1. CASE k < n
      <4>1. /\ k + 3 \in 1..l /\ k + 3 <= n + 4 /\ k + 1 \in 1..n /\ 2 + (k + 1) = k + 3
        BY <1>1, <2>2, <3>1
      <4>2. w[k + 3] = c[k + 1]
        BY <1>1, <1>3, <4>1
      <4> QED
        BY <1>2, <2>2, <4>1, <4>2
    <3>2. CASE k > n
      <4>1. /\ n + 3 \in 1..l /\ n + 3 <= n + 4 /\ n + 1 \in 1..k /\ 2 + (n + 1) = n + 3
        BY <1>1, <2>2, <3>2
      <4>2. g[n + 1] = "nl"
        BY <1>1, <1>3, <2>2, <4>1
      <4> QED
        BY <2>2, <4>1, <4>2
    <3> QED
      BY <1>1, <2>2, <3>1, <3>2
  <2>4. ASSUME NEW i \in 1..n PROVE g[i] = c[i]
    <3>1. 2 + i \in 1..l /\ 2 + i <= n + 4 /\ i \in 1..k
      BY <1>1, <2>2, <2>3
    <3> QED
      BY <1>1, <1>3, <2>2, <3>1
  <2>5. g = c
    BY <2>1, <2>3, <2>4, SeqEqual DEF k, n
  <2> QED
    BY <2>1, <2>5
<1> QED
  BY <1>1, <1>4, <1>5 DEF r, l

\* A handler's verdict does not depend on the bytes of a character.
LEMMA LikeVerdicts ==
  ASSUME NEW m, NEW n, m.data \in Text, n.data \in Text, LikeMsg(n, m)
  PROVE  Verdicts(n) = Verdicts(m)
<1> DEFINE s == n.data
           t == m.data
<1>1. n.type = m.type /\ Like(s, t) /\ s \in Text /\ t \in Text
  BY DEF LikeMsg
<1>2. Len(s) = Len(t)
  BY DEF LikeMsg, Like
<1>3. ValidateDocumentHandler(s, MaxBytes) = ValidateDocumentHandler(t, MaxBytes)
  BY <1>2 DEF ValidateDocumentHandler
<1>4. ASSUME NEW p \in Schemes PROVE IsPrefix(p, s) <=> IsPrefix(p, t)
  <2>1. /\ Len(p) = 3 /\ Clear(p)
        /\ p[1] \notin Bytes /\ p[2] \notin Bytes /\ p[3] \notin Bytes
    BY DEF Schemes, Clear, Bytes
  <2>2. Len(s) \in Nat /\ Len(t) \in Nat
    BY <1>1, LenProperties DEF Text
  <2> HIDE DEF s, t
  <2>3. Len(t) >= 3 => \A i \in 1..3 : Near(s[i], t[i])
    BY <1>1, <1>2, <2>2 DEF Like
  <2>4. \A i \in 1..3 : p[i] \notin Bytes
    BY <2>1
  <2>5. Len(t) >= 3 => \A i \in 1..3 : s[i] = p[i] <=> t[i] = p[i]
    BY <2>3, <2>4 DEF Near
  <2>6. ASSUME NEW x \in {s, t}
        PROVE  IsPrefix(p, x) <=> Len(x) >= 3 /\ \A i \in 1..3 : x[i] = p[i]
    <3> DEFINE u == SubSeq(p, 1, 3)
               v == SubSeq(x, 1, 3)
    <3>1. Len(x) \in Nat
      BY <2>2
    <3>2. u = [i \in 1..3 |-> p[i]] /\ v = [i \in 1..3 |-> x[i]]
      OBVIOUS
    <3>3. IsPrefix(p, x) <=> Len(x) >= 3 /\ u = v
      BY <2>1, <3>1 DEF IsPrefix
    <3> HIDE DEF u, v
    <3>4. u = v <=> \A i \in 1..3 : x[i] = p[i]
      BY <3>2
    <3> QED
      BY <3>3, <3>4
  <2> QED
    BY <1>2, <2>5, <2>6
<1>5. ValidateURLHandler(s) = ValidateURLHandler(t)
  BY <1>4 DEF ValidateURLHandler
<1> QED
  BY <1>1, <1>3, <1>5 DEF Verdicts

-----------------------------------------------------------------------------
(* Streams.                                                                *)

\* From its place on, the stream says what the text says.
OnWay(stream, place, text) ==
  \A i \in 1..Len(stream) : place + i <= Len(text) => stream[i] = text[place + i]

LEMMA JoinIs ==
  ASSUME NEW S, NEW a \in Seq(S), NEW b \in Seq(S)
  PROVE  /\ Join(a, b) \in Seq(S) /\ Len(Join(a, b)) = Len(a) + Len(b)
         /\ Len(a) \in Nat /\ Len(b) \in Nat
         /\ \A i \in 1..Len(a) : Join(a, b)[i] = a[i]
<1> DEFINE n == Len(a)
           k == Len(b)
           t == Join(a, b)
<1>1. /\ t \in Seq(S) /\ Len(t) = n + k /\ n \in Nat /\ k \in Nat
      /\ \A i \in 1..(n + k) : t[i] = IF i <= n THEN a[i] ELSE b[i - n]
  BY ConcatProperties, LenProperties DEF Join
<1> HIDE DEF n, k, t
<1>2. \A i \in 1..n : t[i] = a[i]
  BY <1>1
<1> QED
  BY <1>1, <1>2 DEF n, k, t

LEMMA JoinBehind ==
  ASSUME NEW S, NEW a \in Seq(S), NEW b \in Seq(S), NEW i \in 1..Len(b)
  PROVE  Join(a, b)[Len(a) + i] = b[i]
<1> DEFINE n == Len(a)
           k == Len(b)
           t == Join(a, b)
<1>1. /\ t \in Seq(S) /\ Len(t) = n + k /\ n \in Nat /\ k \in Nat
      /\ \A j \in 1..(n + k) : t[j] = IF j <= n THEN a[j] ELSE b[j - n]
  BY ConcatProperties, LenProperties DEF Join
<1> HIDE DEF n, t
<1>2. n + i \in 1..(n + k) /\ ~(n + i <= n) /\ (n + i) - n = i
  BY <1>1
<1> HIDE DEF k
<1>3. t[n + i] = b[i]
  BY <1>1, <1>2
<1> QED
  BY <1>3 DEF n, t

LEMMA SliceOf ==
  ASSUME NEW S, NEW s \in Seq(S), NEW from \in Nat, NEW to \in Nat,
         from <= to, to <= Len(s)
  PROVE  LET c == Slice(s, from, to)
         IN /\ c \in Seq(S) /\ Len(c) = to - from
            /\ \A i \in 1..(to - from) : c[i] = s[from + i]
<1> DEFINE c == Slice(s, from, to)
           l == Len(s)
<1>1. l \in Nat /\ \A i \in 1..l : s[i] \in S
  BY LenProperties, ElementOfSeq
<1> HIDE DEF l
<1>2. from + 1 \in Int /\ to \in Int /\ \A i \in (from + 1)..to : s[i] \in S
  BY <1>1 DEF l
<1>3. /\ c \in Seq(S) /\ Len(c) = IF from + 1 <= to THEN to - (from + 1) + 1 ELSE 0
      /\ \A i \in 1..(to - (from + 1) + 1) : c[i] = s[(from + 1) + i - 1]
  BY <1>2, SubSeqProperties DEF Slice
<1> HIDE DEF c
<1>4. Len(c) = to - from
  BY <1>3
<1>5. ASSUME NEW i \in 1..(to - from) PROVE c[i] = s[from + i]
  <2>1. i \in 1..(to - (from + 1) + 1) /\ (from + 1) + i - 1 = from + i
    OBVIOUS
  <2> QED
    BY <1>3, <2>1
<1> QED
  BY <1>3, <1>4, <1>5 DEF c

\* What an event brings is the beginning of the stream, and not nothing.
LEMMA ChunkIs ==
  ASSUME NEW S, NEW stream \in Seq(S), NEW chunk \in Chunks(stream)
  PROVE  /\ chunk \in Seq(S) /\ chunk # <<>> /\ stream # <<>>
         /\ Len(chunk) \in 1..Len(stream)
         /\ \A i \in 1..Len(chunk) : chunk[i] = stream[i]
         /\ Rest(stream, chunk) \in Seq(S)
         /\ Len(Rest(stream, chunk)) = Len(stream) - Len(chunk)
         /\ \A i \in 1..(Len(stream) - Len(chunk)) :
              Rest(stream, chunk)[i] = stream[Len(chunk) + i]
         /\ chunk = stream \/ cuts < MaxCuts
<1>1. PICK n \in DOMAIN stream :
        chunk = Slice(stream, 0, n) /\ (n = Len(stream) \/ cuts < MaxCuts)
  BY DEF Chunks
<1> DEFINE l == Len(stream)
           k == Len(chunk)
<1>2. l \in Nat /\ n \in 1..l
  BY LenProperties
<1>3. chunk \in Seq(S) /\ k = n /\ \A i \in 1..n : chunk[i] = stream[i]
  <2>1. 0 \in Nat /\ n \in Nat /\ 0 <= n /\ n <= Len(stream)
    BY <1>2
  <2>2. /\ Slice(stream, 0, n) \in Seq(S) /\ Len(Slice(stream, 0, n)) = n - 0
        /\ \A i \in 1..(n - 0) : Slice(stream, 0, n)[i] = stream[0 + i]
    BY <2>1, SliceOf
  <2> HIDE DEF l
  <2>3. n - 0 = n /\ \A i \in 1..n : 0 + i = i
    BY <2>1
  <2> QED
    BY <1>1, <2>2, <2>3
<1>4. /\ Rest(stream, chunk) \in Seq(S)
      /\ Len(Rest(stream, chunk)) = l - k
      /\ \A i \in 1..(l - k) : Rest(stream, chunk)[i] = stream[k + i]
  <2>1. k \in Nat /\ l \in Nat /\ k <= l /\ l <= Len(stream)
    BY <1>2, <1>3
  <2> QED
    BY <2>1, SliceOf DEF Rest
<1>5. chunk # <<>> /\ stream # <<>>
  BY <1>2, <1>3, EmptySeq
<1>6. n = l => chunk = stream
  BY <1>1, WholeSlice
<1> QED
  BY <1>1, <1>2, <1>3, <1>4, <1>5, <1>6

LEMMA OnWayRest ==
  ASSUME NEW S, NEW stream \in Seq(S), NEW chunk \in Chunks(stream), NEW place \in Nat,
         NEW text, OnWay(stream, place, text)
  PROVE  /\ OnWay(chunk, place, text)
         /\ OnWay(Rest(stream, chunk), place + Len(chunk), text)
<1> DEFINE l == Len(stream)
           k == Len(chunk)
           r == Rest(stream, chunk)
<1>1. /\ k \in 1..l /\ l \in Nat /\ Len(r) = l - k
      /\ \A i \in 1..k : chunk[i] = stream[i]
      /\ \A i \in 1..(l - k) : r[i] = stream[k + i]
  BY ChunkIs, LenProperties
<1>2. \A i \in 1..l : place + i <= Len(text) => stream[i] = text[place + i]
  BY DEF OnWay
<1> HIDE DEF l, k, r
<1>3. \A i \in 1..k : place + i <= Len(text) => chunk[i] = text[place + i]
  BY <1>1, <1>2
<1>4. ASSUME NEW i \in 1..(l - k), (place + k) + i <= Len(text)
      PROVE  r[i] = text[(place + k) + i]
  <2>1. k + i \in 1..l /\ place + (k + i) = (place + k) + i
    BY <1>1
  <2> QED
    BY <1>1, <1>2, <1>4, <2>1
<1>5. OnWay(r, place + k, text)
  BY <1>1, <1>4 DEF OnWay
<1> QED
  BY <1>3, <1>5 DEF OnWay, k, r

LEMMA OnWayJoin ==
  ASSUME NEW S, NEW a \in Seq(S), NEW b \in Seq(S), NEW place \in Nat, NEW text,
         OnWay(a, place, text), OnWay(b, place + Len(a), text)
  PROVE  OnWay(Join(a, b), place, text)
<1> DEFINE n == Len(a)
           k == Len(b)
           t == Join(a, b)
<1>1. /\ Len(t) = n + k /\ n \in Nat /\ k \in Nat
      /\ \A i \in 1..n : t[i] = a[i]
      /\ \A i \in 1..k : t[n + i] = b[i]
  <2>1. /\ Join(a, b) \in Seq(S) /\ Len(Join(a, b)) = Len(a) + Len(b)
        /\ Len(a) \in Nat /\ Len(b) \in Nat
        /\ \A i \in 1..Len(a) : Join(a, b)[i] = a[i]
    BY JoinIs
  <2>2. ASSUME NEW i \in 1..k PROVE t[n + i] = b[i]
    BY JoinBehind
  <2> QED
    BY <2>1, <2>2
<1>2. /\ \A i \in 1..n : place + i <= Len(text) => a[i] = text[place + i]
      /\ \A i \in 1..k : (place + n) + i <= Len(text) => b[i] = text[(place + n) + i]
  BY DEF OnWay
<1> HIDE DEF n, k, t
<1>3. ASSUME NEW i \in 1..(n + k), place + i <= Len(text)
      PROVE  t[i] = text[place + i]
  <2>1. CASE i <= n
    BY <1>1, <1>2, <1>3, <2>1
  <2>2. CASE ~(i <= n)
    <3>1. i - n \in 1..k /\ n + (i - n) = i /\ (place + n) + (i - n) = place + i
      BY <1>1, <2>2
    <3> QED
      BY <1>1, <1>2, <1>3, <3>1
  <2> QED
    BY <2>1, <2>2
<1>4. OnWay(t, place, text)
  BY <1>1, <1>3 DEF OnWay
<1> QED
  BY <1>4 DEF t

\* What comes behind the text says nothing else about it.
LEMMA OnWayPast ==
  ASSUME NEW S, NEW b \in Seq(S), NEW place \in Nat, NEW text, Len(text) \in Nat,
         place >= Len(text)
  PROVE  OnWay(b, place, text)
<1> DEFINE n == Len(b)
           l == Len(text)
<1>1. n \in Nat /\ l \in Nat /\ place >= l
  BY LenProperties
<1> HIDE DEF n, l
<1>2. \A i \in 1..n : ~(place + i <= l)
  BY <1>1
<1> QED
  BY <1>2 DEF OnWay, n, l

LEMMA OnWayNothing ==
  ASSUME NEW place, NEW text PROVE OnWay(<<>>, place, text)
BY DEF OnWay

LEMMA OnWaySlice ==
  ASSUME NEW S, NEW text \in Seq(S), NEW place \in Nat, place <= Len(text)
  PROVE  OnWay(Slice(text, place, Len(text)), place, text)
<1> DEFINE l == Len(text)
           c == Slice(text, place, l)
<1>1. l \in Nat /\ place <= l /\ l <= Len(text)
  BY LenProperties
<1> HIDE DEF l
<1>2. /\ Len(Slice(text, place, l)) = l - place
      /\ \A i \in 1..(l - place) : Slice(text, place, l)[i] = text[place + i]
  BY <1>1, SliceOf
<1> HIDE DEF c
<1>3. Len(c) = l - place /\ \A i \in 1..(l - place) : c[i] = text[place + i]
  BY <1>2 DEF c
<1>4. OnWay(c, place, text)
  BY <1>3 DEF OnWay
<1> QED
  BY <1>4 DEF l, c

-----------------------------------------------------------------------------
(* The inductive invariant.  n is the number of calls made in turn: the    *)
(* calls 1..n are plain, and each was made when the one before had settled. *)

Outs == {"pending", "write", "error", "code", "ErrInvalidFormat"}
Calling == [at : {"sending", "waiting", "settled"}, msg : Messages, sent : Nat,
            heard : Seq(RespTokens), out : Outs, code : Seq(Digits), alone : BOOLEAN]
Answer == [code : Seq(Digits), why : {"malformed", "unauthorized", "no_handler", "handler"},
           to : Nat]

TypeInv ==
  /\ up \in Text /\ down \in Seq(RespTokens) /\ sHeard \in Text
  /\ cuts \in Nat
  /\ {broken, flowing, cOver, sOver, cutChar} \subseteq BOOLEAN
  /\ calls \in Seq(Calling) /\ received \in Seq(Parsable) /\ answers \in Seq(Answer)
  /\ spc \in {"receive", "respond", "closed", "crashed"}
  /\ sAfter \in {"receive", "closed"}

N == Len(calls)
R == Len(received)
A == Len(answers)
TextOf(k) == Serialize(calls[k].msg)
RespOf(k) == SerializeResponse(answers[k].code)
Serving == spc \in {"receive", "respond"}

Turns(n) == n \in 0..N /\ \A k \in 1..N : InTurn(k) <=> k <= n

\* Nothing comes to a socket that is over; a call made alone found the ones
\* before it settled; a call that returned a code is settled.
CallsInv ==
  /\ cOver => (broken \/ ~Serving) /\ down = <<>>
  /\ \A k \in 1..N : calls[k].alone =>
       \A j \in 1..(k - 1) : calls[j].alone /\ calls[j].at = "settled"
  /\ \A k \in 1..N : calls[k].at = "sending" =>
       calls[k].sent < Len(TextOf(k)) /\ calls[k].heard = <<>>
  /\ \A k \in 1..N : calls[k].out = "code" => calls[k].at = "settled"

\* One answer to every message; one more, to a text turned away, ends it.
AnswersInv(n) ==
  /\ \/ A = R
     \/ /\ A = R + 1 /\ answers[A].why = "malformed"
        /\ broken \/ N > n
        /\ spc \in {"closed", "crashed"} \/ (spc = "respond" /\ sAfter = "closed")
  /\ spc = "respond" => A > 0
  /\ \A i \in 1..R : /\ answers[i].to = i /\ answers[i].why # "malformed"
                     /\ answers[i].why = "handler" =>
                          answers[i].code \in Verdicts(received[i])
  /\ spc = "crashed" => broken

ServedInv(n) == \A i \in 1..R : i <= n =>
  /\ LikeMsg(received[i], calls[i].msg)
  /\ ~cutChar => received[i] = calls[i].msg

\* What the server heard is the beginning of the text, but for characters that
\* a chunk cut.
HeardOf(text) == \A i \in 1..Len(sHeard) : i <= Len(text) =>
  \/ sHeard[i] = text[i]
  \/ cutChar /\ Near(sHeard[i], text[i])

\* The text the server waits for, and where it is.
NextText(n) ==
  /\ HeardOf(TextOf(R + 1)) /\ OnWay(up, Len(sHeard), TextOf(R + 1))
  /\ Len(sHeard) + Len(up) > Len(TextOf(R + 1)) => N > n /\ R + 1 = n
  /\ ~broken => /\ R + 1 = n /\ calls[n].at # "settled"
                /\ calls[n].at = "sending" => Len(sHeard) + Len(up) = calls[n].sent
                /\ calls[n].at = "waiting" => Len(sHeard) + Len(up) >= Len(TextOf(n))

UpInv(n) ==
  /\ R > n => N > n
  /\ sHeard = <<>> \/ Last(sHeard) # "hi"
  /\ Serving /\ R = n /\ N = n => sHeard = <<>> /\ up = <<>>
  /\ R < n /\ spc = "respond" => broken /\ sHeard = <<>> /\ up = <<>>
  /\ R < n /\ spc = "receive" => NextText(n)
  /\ ~broken /\ R >= n /\ n > 0 => calls[n].at # "sending"
  /\ ~broken /\ Serving /\ N = n /\ (n = 0 \/ calls[n].at = "settled") =>
       R = n /\ spc = "receive"

\* The response to call k was written.
Replied(k) == k <= R /\ ~(A = k /\ spc = "respond")

\* The response the call waits for, and where it is.
NextResponse(n) ==
  /\ OnWay(calls[n].heard, 0, RespOf(n)) /\ OnWay(down, Len(calls[n].heard), RespOf(n))
  /\ N = n => Len(calls[n].heard) + Len(down) <= Len(RespOf(n))
  /\ ~broken => Len(calls[n].heard) + Len(down) >= Len(RespOf(n))

DownInv(n) ==
  /\ n > 0 /\ calls[n].at = "waiting" =>
       IF Replied(n) THEN NextResponse(n) ELSE calls[n].heard = <<>> /\ down = <<>>
  /\ ~cOver /\ n > 0 /\ calls[n].at = "sending" => down = <<>>
  /\ ~cOver /\ N = n /\ (n = 0 \/ calls[n].at = "settled") => down = <<>>

\* A code is that of an answer, or the ERROR without a text: no answer was
\* written that could still have come.
CodesInv(n) == \A k \in 1..n : calls[k].out = "code" =>
  IF calls[k].heard = <<>>
    THEN calls[k].code = ERROR /\ cOver /\ (broken \/ k > R)
    ELSE k <= R /\ calls[k].code = answers[k].code

StateInv(n) ==
  Turns(n) /\ AnswersInv(n) /\ ServedInv(n) /\ UpInv(n) /\ DownInv(n) /\ CodesInv(n)
LegacyJsInv == TypeInv /\ CallsInv /\ \E n \in 0..N : StateInv(n)

-----------------------------------------------------------------------------
(* What a step does to the calls.                                          *)

SameCalls ==
  /\ calls' \in Seq(Calling) /\ N' = N
  /\ \A k \in 1..N : calls'[k].msg = calls[k].msg /\ calls'[k].alone = calls[k].alone

LEMMA CallIs ==
  ASSUME TypeInv, NEW k \in 1..N
  PROVE  /\ calls[k] \in Calling
         /\ calls[k].at \in {"sending", "waiting", "settled"} /\ calls[k].msg \in Messages
         /\ calls[k].sent \in Nat /\ calls[k].heard \in Seq(RespTokens)
         /\ calls[k].out \in Outs /\ calls[k].code \in Seq(Digits)
         /\ calls[k].alone \in BOOLEAN
         /\ calls[k].msg \in Sent /\ TextOf(k) \in Text /\ Whole(TextOf(k))
<1> DEFINE D == Seq(Digits)
           T == Seq(RespTokens)
<1>1. calls \in Seq(Calling)
  BY DEF TypeInv
<1>2. calls[k] \in Calling
  BY <1>1, ElementOfSeq DEF N
<1> HIDE DEF D, T
<1>3. /\ calls[k].at \in {"sending", "waiting", "settled"} /\ calls[k].msg \in Messages
      /\ calls[k].sent \in Nat /\ calls[k].heard \in T
      /\ calls[k].out \in Outs /\ calls[k].code \in D
      /\ calls[k].alone \in BOOLEAN
  BY <1>2 DEF Calling, D, T
<1>4. calls[k].msg \in Sent /\ Whole(Serialize(calls[k].msg))
  BY <1>3, WholeText
<1>5. Serialize(calls[k].msg) \in Text
  BY <1>4, SerializeIs
<1> QED
  BY <1>2, <1>3, <1>4, <1>5 DEF D, T, TextOf

LEMMA EndedIs ==
  ASSUME NEW call \in Calling, NEW out \in Outs, NEW code \in Seq(Digits)
  PROVE  LET c == Ended(call, out, code)
         IN /\ c \in Calling /\ c.at = "settled" /\ c.out = out /\ c.code = code
            /\ c.msg = call.msg /\ c.alone = call.alone /\ c.heard = call.heard
BY DEF Ended, Calling

LEMMA EndedWithout ==
  ASSUME NEW call \in Calling, NEW out \in Outs
  PROVE  LET c == Ended(call, out, <<>>)
         IN /\ c \in Calling /\ c.at = "settled" /\ c.out = out
            /\ c.msg = call.msg /\ c.alone = call.alone
<1> DEFINE e == <<>>
<1>1. e \in Seq(Digits)
  OBVIOUS
<1> HIDE DEF e
<1>2. LET c == Ended(call, out, e)
      IN /\ c \in Calling /\ c.at = "settled" /\ c.out = out
         /\ c.msg = call.msg /\ c.alone = call.alone
  BY <1>1, EndedIs
<1> QED
  BY <1>2 DEF e

LEMMA ParsedIsOut ==
  ASSUME NEW text
  PROVE  Parsed(text).out \in Outs /\ Parsed(text).code \in Seq(Digits)
<1> DEFINE digits == Slice(text, Len(RespMark), Len(text) - Len(Blank))
           D == Seq(Digits)
<1>1. ERROR \in D /\ <<>> \in D
  BY DEF ERROR, Digits
<1> HIDE DEF D
<1>2. CASE text = <<>>
  BY <1>1, <1>2 DEF Parsed, Outs, D
<1>3. CASE text # <<>> /\ digits \in D \ {<<>>} /\ text = SerializeResponse(digits)
  <2>1. Parsed(text) = [out |-> "code", code |-> digits]
    BY <1>3 DEF Parsed, D
  <2> HIDE DEF digits
  <2> QED
    BY <1>3, <2>1 DEF Outs, D
<1>4. CASE text # <<>> /\ ~(digits \in D \ {<<>>} /\ text = SerializeResponse(digits))
  <2>1. Parsed(text) = [out |-> "ErrInvalidFormat", code |-> <<>>]
    BY <1>4 DEF Parsed, D
  <2> HIDE DEF digits
  <2> QED
    BY <1>1, <2>1 DEF Outs, D
<1> QED
  BY <1>2, <1>3, <1>4

\* One call changes, and the others do not.
LEMMA OneCall ==
  ASSUME TypeInv, NEW k \in 1..N, NEW call \in Calling,
         call.msg = calls[k].msg, call.alone = calls[k].alone,
         calls' = [calls EXCEPT ![k] = call]
  PROVE  SameCalls /\ calls'[k] = call /\ \A j \in 1..N : j # k => calls'[j] = calls[j]
<1>1. calls \in Seq(Calling) /\ k \in 1..Len(calls)
  BY DEF TypeInv, N
<1>2. /\ calls' \in Seq(Calling) /\ Len(calls') = Len(calls)
      /\ \A j \in 1..Len(calls) : calls'[j] = IF j = k THEN call ELSE calls[j]
  BY <1>1, ExceptSeq
<1> QED
  BY <1>1, <1>2 DEF SameCalls, N

\* Every call is given a new state.
LEMMA EveryCall ==
  ASSUME TypeInv, NEW f, DOMAIN f = DOMAIN calls, calls' = [k \in DOMAIN calls |-> f[k]],
         \A k \in 1..N : f[k] \in Calling /\ f[k].msg = calls[k].msg
                         /\ f[k].alone = calls[k].alone
  PROVE  SameCalls /\ \A k \in 1..N : calls'[k] = f[k]
<1> DEFINE n == N
<1>1. n \in Nat /\ DOMAIN calls = 1..n
  BY LenProperties DEF TypeInv, N
<1> HIDE DEF n
<1>2. calls' = [k \in 1..n |-> f[k]] /\ \A k \in 1..n : f[k] \in Calling
  BY <1>1 DEF n
<1>3. calls' \in [1..n -> Calling] /\ \A k \in 1..n : calls'[k] = f[k]
  BY <1>2
<1>4. calls' \in Seq(Calling) /\ Len(calls') = n
  <2>1. calls' \in Seq(Calling)
    BY <1>1, <1>3
  <2>2. DOMAIN calls' = 1..Len(calls') /\ Len(calls') \in Nat
    BY <2>1, LenProperties
  <2>3. DOMAIN calls' = 1..n
    BY <1>3
  <2> QED
    BY <1>1, <1>2, <2>1
<1> QED
  BY <1>3, <1>4 DEF SameCalls, N, n

LEMMA MoreSent ==
  ASSUME NEW c \in Calling, NEW n \in Nat
  PROVE  LET d == [c EXCEPT !.sent = @ + n]
         IN /\ d \in Calling /\ d.msg = c.msg /\ d.alone = c.alone
            /\ d.at = c.at /\ d.heard = c.heard /\ d.out = c.out /\ d.code = c.code
            /\ d.sent = c.sent + n
<1> DEFINE k == c.sent + n
<1>1. k \in Nat
  BY DEF Calling
<1> HIDE DEF k
<1>2. LET d == [c EXCEPT !.sent = k]
      IN /\ d \in Calling /\ d.msg = c.msg /\ d.alone = c.alone
         /\ d.at = c.at /\ d.heard = c.heard /\ d.out = c.out /\ d.code = c.code
         /\ d.sent = k
  BY <1>1 DEF Calling
<1> QED
  BY <1>2 DEF k

LEMMA WritePartIs ==
  ASSUME TypeInv, NEW k \in DOMAIN calls, WritePart(k)
  PROVE  /\ k \in 1..N /\ calls[k].at = "sending"
         /\ \A j \in 1..N : calls[j].at = "sending" => k <= j
         /\ \E part \in Chunks(Unsent(k)) \ {Unsent(k)} :
              /\ up' = Written(up, part) /\ cuts' = cuts + 1
              /\ SameCalls
              /\ calls'[k] = [calls[k] EXCEPT !.sent = @ + Len(part)]
              /\ calls'[k] \in Calling /\ part \in Text
              /\ \A j \in 1..N : j # k => calls'[j] = calls[j]
         /\ UNCHANGED <<down, broken, flowing, cOver, serverVars>>
<1>1. k \in 1..N /\ DOMAIN calls = 1..N
  BY LenProperties DEF TypeInv, N
<1>2. calls[k].at = "sending" /\ \A j \in 1..N : calls[j].at = "sending" => k <= j
  BY <1>1 DEF WritePart, Writing, At
<1>3. PICK part \in Chunks(Unsent(k)) \ {Unsent(k)} :
        /\ up' = Written(up, part) /\ cuts' = cuts + 1
        /\ calls' = [calls EXCEPT ![k].sent = @ + Len(part)]
  BY DEF WritePart
<1>4. part \in Text /\ Len(part) \in Nat
  <2>1. TextOf(k) \in Seq(Tokens) /\ calls[k].sent \in Nat
    BY <1>1, CallIs DEF Text
  <2>2. Len(TextOf(k)) \in Nat /\ Len(TextOf(k)) <= Len(TextOf(k))
    BY <2>1, LenProperties
  <2>3. Unsent(k) \in Seq(Tokens)
    BY <2>1, <2>2, SliceType DEF Unsent, TextOf
  <2>4. part \in Seq(Tokens)
    BY <1>3, <2>3, ChunkIs
  <2> QED
    BY <2>4, LenProperties DEF Text
<1> DEFINE call == [calls[k] EXCEPT !.sent = @ + Len(part)]
<1>5. call \in Calling /\ call.msg = calls[k].msg /\ call.alone = calls[k].alone
  <2>1. calls[k] \in Calling
    BY <1>1, CallIs
  <2> QED
    BY <1>4, <2>1, MoreSent
<1>6. calls' = [calls EXCEPT ![k] = call]
  BY <1>3
<1> HIDE DEF call
<1>7. SameCalls /\ calls'[k] = call /\ \A j \in 1..N : j # k => calls'[j] = calls[j]
  BY <1>1, <1>5, <1>6, OneCall
<1>8. UNCHANGED <<down, broken, flowing, cOver, serverVars>>
  BY DEF WritePart
<1> QED
  BY <1>1, <1>2, <1>3, <1>4, <1>5, <1>7, <1>8 DEF call

LEMMA WriteDoneIs ==
  ASSUME TypeInv, NEW k \in DOMAIN calls, WriteDone(k)
  PROVE  /\ k \in 1..N /\ calls[k].at = "sending"
         /\ \A j \in 1..N : calls[j].at = "sending" => k <= j
         /\ up' = Written(up, Unsent(k)) /\ Unsent(k) \in Text
         /\ SameCalls
         /\ calls'[k] = [calls[k] EXCEPT !.at = "waiting"]
         /\ calls'[k] \in Calling
         /\ \A j \in 1..N : j # k => calls'[j] = calls[j]
         /\ flowing' = TRUE
         /\ UNCHANGED <<down, cuts, broken, cOver, serverVars>>
<1>1. k \in 1..N /\ DOMAIN calls = 1..N
  BY LenProperties DEF TypeInv, N
<1>2. calls[k].at = "sending" /\ \A j \in 1..N : calls[j].at = "sending" => k <= j
  BY <1>1 DEF WriteDone, Writing, At
<1>3. Unsent(k) \in Text
  <2>1. TextOf(k) \in Seq(Tokens) /\ calls[k].sent \in Nat
    BY <1>1, CallIs DEF Text
  <2>2. Len(TextOf(k)) \in Nat /\ Len(TextOf(k)) <= Len(TextOf(k))
    BY <2>1, LenProperties
  <2> QED
    BY <2>1, <2>2, SliceType DEF Unsent, TextOf, Text
<1> DEFINE call == [calls[k] EXCEPT !.at = "waiting"]
<1>5. call \in Calling /\ call.msg = calls[k].msg /\ call.alone = calls[k].alone
  <2>1. calls[k] \in Calling
    BY <1>1, CallIs
  <2> QED
    BY <2>1 DEF Calling
<1>6. calls' = [calls EXCEPT ![k] = call]
  BY DEF WriteDone
<1> HIDE DEF call
<1>7. SameCalls /\ calls'[k] = call /\ \A j \in 1..N : j # k => calls'[j] = calls[j]
  BY <1>1, <1>5, <1>6, OneCall
<1>8. /\ up' = Written(up, Unsent(k)) /\ flowing' = TRUE
      /\ UNCHANGED <<down, cuts, broken, cOver, serverVars>>
  BY DEF WriteDone
<1> QED
  BY <1>1, <1>2, <1>3, <1>5, <1>7, <1>8 DEF call

LEMMA WriteFailsIs ==
  ASSUME TypeInv, NEW k \in DOMAIN calls, WriteFails(k)
  PROVE  /\ k \in 1..N /\ calls[k].at = "sending" /\ (broken \/ cOver)
         /\ SameCalls
         /\ calls'[k].at = "settled" /\ calls'[k].out = "write"
         /\ \A j \in 1..N : j # k => calls'[j] = calls[j]
         /\ UNCHANGED <<up, down, cuts, broken, flowing, cOver, serverVars>>
<1>1. k \in 1..N
  BY LenProperties DEF TypeInv, N
<1>2. calls[k].at = "sending" /\ (broken \/ cOver)
      /\ UNCHANGED <<up, down, cuts, broken, flowing, cOver, serverVars>>
  BY DEF WriteFails, Writing, At
<1> DEFINE call == Ended(calls[k], "write", <<>>)
<1>3. calls[k] \in Calling /\ "write" \in Outs
  BY <1>1, CallIs DEF Outs
<1>4. /\ call \in Calling /\ call.at = "settled" /\ call.out = "write"
      /\ call.msg = calls[k].msg /\ call.alone = calls[k].alone
  <2> DEFINE c == calls[k]
  <2>1. c \in Calling
    BY <1>3
  <2> HIDE DEF c
  <2>2. LET d == Ended(c, "write", <<>>)
        IN /\ d \in Calling /\ d.at = "settled" /\ d.out = "write"
           /\ d.msg = c.msg /\ d.alone = c.alone
    BY <1>3, <2>1, EndedWithout
  <2> QED
    BY <2>2 DEF c
<1>5. calls' = [calls EXCEPT ![k] = call]
  BY DEF WriteFails
<1> HIDE DEF call
<1>6. SameCalls /\ calls'[k] = call /\ \A j \in 1..N : j # k => calls'[j] = calls[j]
  BY <1>1, <1>4, <1>5, OneCall
<1> QED
  BY <1>1, <1>2, <1>4, <1>6

LEMMA CallMade ==
  ASSUME TypeInv, NEW m \in Messages, Call(m)
  PROVE  LET c == calls'[N + 1]
         IN /\ calls' \in Seq(Calling) /\ N' = N + 1
            /\ \A j \in 1..N : calls'[j] = calls[j]
            /\ c.msg = m /\ c.sent = 0 /\ c.heard = <<>> /\ c.out # "code"
            /\ c.at = IF cOver THEN "settled" ELSE "sending"
            /\ c.alone <=> \A j \in 1..N : calls[j].alone /\ calls[j].at = "settled"
            /\ UNCHANGED <<up, down, cuts, broken, flowing, cOver, serverVars>>
<1> DEFINE alone == Pending = {} /\ \A j \in DOMAIN calls : calls[j].alone
           e == <<>>
           call == [at |-> "sending", msg |-> m, sent |-> 0, heard |-> e,
                    out |-> "pending", code |-> e, alone |-> alone]
           made == IF cOver THEN Ended(call, "write", e) ELSE call
<1>1. calls' = Append(calls, made) /\ UNCHANGED <<up, down, cuts, broken, flowing, cOver, serverVars>>
  BY DEF Call
<1>2. calls \in Seq(Calling) /\ DOMAIN calls = 1..N
  BY LenProperties DEF TypeInv, N
<1>3. e \in Seq(RespTokens) /\ e \in Seq(Digits)
  OBVIOUS
<1>4. alone <=> \A j \in 1..N : calls[j].alone /\ calls[j].at = "settled"
  BY <1>2 DEF Pending, At
<1>5. alone \in BOOLEAN
  OBVIOUS
<1> HIDE DEF alone, e
<1>6. /\ call \in Calling /\ call.msg = m /\ call.sent = 0 /\ call.heard = e
      /\ call.out = "pending" /\ call.at = "sending" /\ call.alone = alone
  BY <1>3, <1>5 DEF Calling, Outs
<1> HIDE DEF call
<1>7. "write" \in Outs
  BY DEF Outs
<1>8. LET c == Ended(call, "write", e)
      IN /\ c \in Calling /\ c.at = "settled" /\ c.out = "write"
         /\ c.msg = m /\ c.alone = alone /\ c.sent = 0 /\ c.heard = e
  <2>1. LET c == Ended(call, "write", e)
        IN /\ c \in Calling /\ c.at = "settled" /\ c.out = "write" /\ c.code = e
           /\ c.msg = call.msg /\ c.alone = call.alone
    BY <1>3, <1>6, <1>7, EndedIs
  <2>2. Ended(call, "write", e).sent = 0 /\ Ended(call, "write", e).heard = e
    BY <1>6 DEF Ended, Calling
  <2> QED
    BY <1>6, <2>1, <2>2
<1>9. /\ made \in Calling /\ made.msg = m /\ made.sent = 0 /\ made.heard = e
      /\ made.out # "code" /\ made.alone = alone
      /\ made.at = IF cOver THEN "settled" ELSE "sending"
  BY <1>6, <1>8
<1> HIDE DEF made
<1>10. /\ Append(calls, made) \in Seq(Calling)
       /\ Len(Append(calls, made)) = Len(calls) + 1
       /\ \A j \in 1..Len(calls) : Append(calls, made)[j] = calls[j]
       /\ Append(calls, made)[Len(calls) + 1] = made
  BY <1>2, <1>9, AppendProperties
<1>11. /\ calls' \in Seq(Calling) /\ N' = N + 1
       /\ \A j \in 1..N : calls'[j] = calls[j]
       /\ calls'[N + 1] = made
  BY <1>1, <1>10 DEF N
<1> QED
  BY <1>1, <1>4, <1>9, <1>11 DEF e

\* A response has no characters of two bytes.
LEMMA DecodeResponse ==
  ASSUME NEW chunk \in Seq(RespTokens)
  PROVE  Decode(chunk) = chunk
<1>1. DOMAIN chunk = 1..Len(chunk) /\ \A i \in 1..Len(chunk) : chunk[i] \in RespTokens
  BY LenProperties, ElementOfSeq
<1>2. "hi" \notin RespTokens /\ "lo" \notin RespTokens
  BY DEF RespTokens, Digits
<1>3. \A i \in DOMAIN chunk : chunk[i] # "hi" /\ chunk[i] # "lo"
  BY <1>1, <1>2
<1>4. Decode(chunk) = [i \in DOMAIN chunk |-> chunk[i]]
  BY <1>3 DEF Decode
<1> QED
  BY <1>1, <1>4

LEMMA HeardMore ==
  ASSUME NEW call \in Calling, NEW h \in Seq(RespTokens)
  PROVE  LET c == [call EXCEPT !.heard = h]
         IN /\ c \in Calling /\ c.heard = h /\ c.at = call.at /\ c.msg = call.msg
            /\ c.alone = call.alone /\ c.out = call.out /\ c.code = call.code
            /\ c.sent = call.sent
<1> DEFINE T == Seq(RespTokens)
<1> HIDE DEF T
<1>1. h \in T
  BY DEF T
<1> QED
  BY <1>1 DEF Calling, T

LEMMA AnsweredIs ==
  ASSUME NEW call \in Calling, NEW text \in Seq(RespTokens)
  PROVE  LET c == Answered(call, text)
         IN /\ c \in Calling /\ c.at = "settled" /\ c.heard = text
            /\ c.out = Parsed(text).out /\ c.code = Parsed(text).code
            /\ c.msg = call.msg /\ c.alone = call.alone
<1> DEFINE out == Parsed(text).out
           code == Parsed(text).code
           told == [call EXCEPT !.heard = text]
<1>1. out \in Outs /\ code \in Seq(Digits)
  BY ParsedIsOut
<1>2. /\ told \in Calling /\ told.heard = text
      /\ told.msg = call.msg /\ told.alone = call.alone
  BY HeardMore
<1> HIDE DEF out, code, told
<1>3. LET c == Ended(told, out, code)
      IN /\ c \in Calling /\ c.at = "settled" /\ c.out = out /\ c.code = code
         /\ c.msg = told.msg /\ c.alone = told.alone /\ c.heard = told.heard
  BY <1>1, <1>2, EndedIs
<1> QED
  BY <1>2, <1>3 DEF Answered, out, code, told

LEMMA ClientDataIs ==
  ASSUME TypeInv, ClientData
  PROVE  \E chunk \in Chunks(down) :
           /\ ~cOver /\ chunk \in Seq(RespTokens)
           /\ down' = Rest(down, chunk) /\ CutOf(down, chunk)
           /\ UNCHANGED <<up, broken, flowing, cOver, serverVars>>
           /\ SameCalls
           /\ \A k \in 1..N : calls[k].at # "waiting" => calls'[k] = calls[k]
           /\ \A k \in 1..N : calls[k].at = "waiting" =>
                LET h == Join(calls[k].heard, chunk)
                IN /\ h \in Seq(RespTokens)
                   /\ IsText(h) => /\ calls'[k].at = "settled"
                                   /\ calls'[k].heard = h
                                   /\ calls'[k].out = Parsed(h).out
                                   /\ calls'[k].code = Parsed(h).code
                   /\ ~IsText(h) => calls'[k] = [calls[k] EXCEPT !.heard = h]
<1>1. PICK chunk \in Chunks(down) :
        /\ down' = Rest(down, chunk) /\ CutOf(down, chunk)
        /\ calls' = [k \in DOMAIN calls |->
             IF calls[k].at = "waiting" THEN Hears(calls[k], chunk) ELSE calls[k]]
  BY DEF ClientData
<1>2. ~cOver /\ UNCHANGED <<up, broken, flowing, cOver, serverVars>>
  BY DEF ClientData
<1>3. chunk \in Seq(RespTokens)
  BY ChunkIs DEF TypeInv
<1>4. Decode(chunk) = chunk
  BY <1>3, DecodeResponse
<1>5. DOMAIN calls = 1..N
  BY LenProperties DEF TypeInv, N
<1> DEFINE f == [k \in DOMAIN calls |->
                  IF calls[k].at = "waiting" THEN Hears(calls[k], chunk) ELSE calls[k]]
<1>6. ASSUME NEW k \in 1..N, calls[k].at = "waiting"
      PROVE  LET h == Join(calls[k].heard, chunk)
                 c == Hears(calls[k], chunk)
             IN /\ h \in Seq(RespTokens)
                /\ c \in Calling /\ c.msg = calls[k].msg /\ c.alone = calls[k].alone
                /\ IsText(h) => /\ c.at = "settled" /\ c.heard = h
                                /\ c.out = Parsed(h).out
                                /\ c.code = Parsed(h).code
                /\ ~IsText(h) => c = [calls[k] EXCEPT !.heard = h]
  <2> DEFINE h == Join(calls[k].heard, chunk)
             call == calls[k]
  <2>1. call \in Calling /\ calls[k].heard \in Seq(RespTokens)
    BY <1>6, CallIs
  <2>2. h \in Seq(RespTokens)
    BY <1>3, <2>1, JoinIs
  <2>3. Hears(call, chunk) = IF IsText(h) THEN Answered(call, h) ELSE [call EXCEPT !.heard = h]
    BY <1>4 DEF Hears, Join
  <2> HIDE DEF h, call
  <2>4. LET c == Answered(call, h)
        IN /\ c \in Calling /\ c.at = "settled" /\ c.heard = h
           /\ c.out = Parsed(h).out /\ c.code = Parsed(h).code
           /\ c.msg = call.msg /\ c.alone = call.alone
    BY <2>1, <2>2, AnsweredIs
  <2>5. LET c == [call EXCEPT !.heard = h]
        IN c \in Calling /\ c.msg = call.msg /\ c.alone = call.alone
    BY <2>1, <2>2, HeardMore
  <2> QED
    BY <2>2, <2>3, <2>4, <2>5 DEF h, call
<1>7. \A k \in 1..N : f[k] = IF calls[k].at = "waiting" THEN Hears(calls[k], chunk) ELSE calls[k]
  BY <1>5
<1>8. DOMAIN f = DOMAIN calls /\ calls' = [k \in DOMAIN calls |-> f[k]]
  BY <1>1
<1> HIDE DEF f
<1>9. \A k \in 1..N : f[k] \in Calling /\ f[k].msg = calls[k].msg /\ f[k].alone = calls[k].alone
  BY <1>6, <1>7, CallIs
<1>10. SameCalls /\ \A k \in 1..N : calls'[k] = f[k]
  BY <1>8, <1>9, EveryCall
<1>11. \A k \in 1..N : calls[k].at # "waiting" => calls'[k] = calls[k]
  BY <1>7, <1>10
<1>12. \A k \in 1..N : calls[k].at = "waiting" => calls'[k] = Hears(calls[k], chunk)
  BY <1>7, <1>10
<1>13. ASSUME NEW k \in 1..N, calls[k].at = "waiting"
       PROVE  LET h == Join(calls[k].heard, chunk)
              IN /\ h \in Seq(RespTokens)
                 /\ IsText(h) => /\ calls'[k].at = "settled"
                                 /\ calls'[k].heard = h
                                 /\ calls'[k].out = Parsed(h).out
                                 /\ calls'[k].code = Parsed(h).code
                 /\ ~IsText(h) => calls'[k] = [calls[k] EXCEPT !.heard = h]
  BY <1>6, <1>12, <1>13
<1> QED
  BY <1>1, <1>2, <1>3, <1>10, <1>11, <1>13

LEMMA ClientEndIs ==
  ASSUME TypeInv, ClientEnd
  PROVE  /\ ~cOver /\ cOver' = TRUE /\ down = <<>>
         /\ spc \in {"closed", "crashed"} \/ broken
         /\ UNCHANGED <<up, down, cuts, broken, flowing, serverVars>>
         /\ SameCalls
         /\ \A k \in 1..N : calls[k].at # "waiting" => calls'[k] = calls[k]
         /\ \A k \in 1..N : calls[k].at = "waiting" =>
              /\ calls'[k].at = "settled" /\ calls'[k].heard = calls[k].heard
              /\ calls'[k].out = Parsed(calls[k].heard).out
              /\ calls'[k].code = Parsed(calls[k].heard).code
<1>1. /\ ~cOver /\ cOver' = TRUE /\ down = <<>>
      /\ spc \in {"closed", "crashed"} \/ broken
      /\ UNCHANGED <<up, down, cuts, broken, flowing, serverVars>>
  BY DEF ClientEnd
<1> DEFINE f == [k \in DOMAIN calls |-> IF calls[k].at = "waiting"
                   THEN Answered(calls[k], calls[k].heard) ELSE calls[k]]
<1>2. DOMAIN f = DOMAIN calls /\ calls' = [k \in DOMAIN calls |-> f[k]] /\ DOMAIN calls = 1..N
  BY LenProperties DEF ClientEnd, TypeInv, N
<1>3. \A k \in 1..N : f[k] = IF calls[k].at = "waiting"
                               THEN Answered(calls[k], calls[k].heard) ELSE calls[k]
  BY <1>2
<1> HIDE DEF f
<1>4. ASSUME NEW k \in 1..N
      PROVE  LET c == Answered(calls[k], calls[k].heard)
             IN /\ c \in Calling /\ c.at = "settled" /\ c.heard = calls[k].heard
                /\ c.out = Parsed(calls[k].heard).out /\ c.code = Parsed(calls[k].heard).code
                /\ c.msg = calls[k].msg /\ c.alone = calls[k].alone
  <2> DEFINE call == calls[k]
             text == calls[k].heard
  <2>1. call \in Calling /\ text \in Seq(RespTokens)
    BY CallIs
  <2> HIDE DEF call, text
  <2>2. LET c == Answered(call, text)
        IN /\ c \in Calling /\ c.at = "settled" /\ c.heard = text
           /\ c.out = Parsed(text).out /\ c.code = Parsed(text).code
           /\ c.msg = call.msg /\ c.alone = call.alone
    BY <2>1, AnsweredIs
  <2> QED
    BY <2>2 DEF call, text
<1>5. \A k \in 1..N : f[k] \in Calling /\ f[k].msg = calls[k].msg /\ f[k].alone = calls[k].alone
  BY <1>3, <1>4, CallIs
<1>6. SameCalls /\ \A k \in 1..N : calls'[k] = f[k]
  BY <1>2, <1>5, EveryCall
<1>7. \A k \in 1..N : calls[k].at # "waiting" => calls'[k] = calls[k]
  BY <1>3, <1>6
<1>8. \A k \in 1..N : calls[k].at = "waiting" => calls'[k] = Answered(calls[k], calls[k].heard)
  BY <1>3, <1>6
<1> QED
  BY <1>1, <1>4, <1>6, <1>7, <1>8

LEMMA ClientErrorIs ==
  ASSUME TypeInv, ClientError
  PROVE  /\ broken \/ cOver
         /\ cOver' = TRUE /\ down' = <<>>
         /\ UNCHANGED <<up, cuts, broken, flowing, serverVars>>
         /\ SameCalls
         /\ \A k \in 1..N : calls[k].at # "waiting" => calls'[k] = calls[k]
         /\ \A k \in 1..N : calls[k].at = "waiting" =>
              calls'[k].at = "settled" /\ calls'[k].out = "error"
<1>1. /\ broken \/ cOver
      /\ cOver' = TRUE /\ down' = <<>>
      /\ UNCHANGED <<up, cuts, broken, flowing, serverVars>>
  BY DEF ClientError
<1> DEFINE f == [k \in DOMAIN calls |-> IF calls[k].at = "waiting"
                   THEN Ended(calls[k], "error", <<>>) ELSE calls[k]]
<1>2. DOMAIN f = DOMAIN calls /\ calls' = [k \in DOMAIN calls |-> f[k]] /\ DOMAIN calls = 1..N
  BY LenProperties DEF ClientError, TypeInv, N
<1>3. \A k \in 1..N : f[k] = IF calls[k].at = "waiting"
                               THEN Ended(calls[k], "error", <<>>) ELSE calls[k]
  BY <1>2
<1> HIDE DEF f
<1>4. ASSUME NEW k \in 1..N
      PROVE  LET c == Ended(calls[k], "error", <<>>)
             IN /\ c \in Calling /\ c.at = "settled" /\ c.out = "error"
                /\ c.msg = calls[k].msg /\ c.alone = calls[k].alone
  <2> DEFINE call == calls[k]
  <2>1. call \in Calling /\ "error" \in Outs
    BY CallIs DEF Outs
  <2> HIDE DEF call
  <2>2. LET c == Ended(call, "error", <<>>)
        IN /\ c \in Calling /\ c.at = "settled" /\ c.out = "error"
           /\ c.msg = call.msg /\ c.alone = call.alone
    BY <2>1, EndedWithout
  <2> QED
    BY <2>2 DEF call
<1>5. \A k \in 1..N : f[k] \in Calling /\ f[k].msg = calls[k].msg /\ f[k].alone = calls[k].alone
  BY <1>3, <1>4, CallIs
<1>6. SameCalls /\ \A k \in 1..N : calls'[k] = f[k]
  BY <1>2, <1>5, EveryCall
<1>7. \A k \in 1..N : calls[k].at # "waiting" => calls'[k] = calls[k]
  BY <1>3, <1>6
<1>8. \A k \in 1..N : calls[k].at = "waiting" => calls'[k] = Ended(calls[k], "error", <<>>)
  BY <1>3, <1>6
<1> QED
  BY <1>1, <1>4, <1>6, <1>7, <1>8

-----------------------------------------------------------------------------
(* What a step does to the server.                                         *)

\* The answers are those before and one more.
OneMore(a) ==
  /\ answers' \in Seq(Answer) /\ A' = A + 1 /\ answers'[A + 1] = a
  /\ \A i \in 1..A : answers'[i] = answers[i]

LEMMA RespondIs ==
  ASSUME TypeInv, NEW code \in Seq(Digits),
         NEW why \in {"malformed", "unauthorized", "no_handler", "handler"}, NEW after,
         received' \in Seq(Parsable), Respond(code, why, after)
  PROVE  /\ spc' = "respond" /\ sAfter' = after
         /\ OneMore([code |-> code, why |-> why, to |-> R'])
<1> DEFINE a == [code |-> code, why |-> why, to |-> R']
<1>1. spc' = "respond" /\ sAfter' = after /\ answers' = Append(answers, a)
  BY DEF Respond, R
<1>2. R' \in Nat
  BY LenProperties DEF R
<1>3. a \in Answer
  BY <1>2 DEF Answer
<1> HIDE DEF a
<1>4. answers \in Seq(Answer)
  BY DEF TypeInv
<1>5. OneMore(a)
  BY <1>1, <1>3, <1>4, AppendProperties DEF OneMore, A
<1> QED
  BY <1>1, <1>5 DEF a

LEMMA CodesAre ==
  /\ OK \in Seq(Digits) /\ ERROR \in Seq(Digits) /\ UNAUTHORIZED \in Seq(Digits)
  /\ \A m : Verdicts(m) \subseteq Seq(Digits)
<1>1. "0" \in Digits /\ "1" \in Digits /\ "2" \in Digits
  BY DEF Digits
<1>2. OK \in Seq(Digits) /\ ERROR \in Seq(Digits) /\ UNAUTHORIZED \in Seq(Digits)
  BY <1>1 DEF OK, ERROR, UNAUTHORIZED
<1>3. ASSUME NEW m PROVE Verdicts(m) \subseteq Seq(Digits)
  BY <1>2, CodesAssumption DEF Verdicts, ValidateURLHandler, ValidateDocumentHandler
<1> QED
  BY <1>2, <1>3

\* The server takes a message: it is answered, and not as malformed.
Taken(m) ==
  /\ received' \in Seq(Parsable) /\ R' = R + 1 /\ received'[R + 1] = m
  /\ \A i \in 1..R : received'[i] = received[i]
  /\ spc' = "respond" /\ sAfter' \in {"receive", "closed"}
  /\ \E a : /\ OneMore(a) /\ a.to = R + 1 /\ a.why # "malformed"
            /\ a.why = "handler" => a.code \in Verdicts(m)

LEMMA ServeIs ==
  ASSUME TypeInv, NEW m \in Parsable, Serve(m)
  PROVE  Taken(m)
<1>1. received \in Seq(Parsable) /\ received' = Append(received, m)
  BY DEF TypeInv, Serve
<1>2. /\ received' \in Seq(Parsable) /\ R' = R + 1 /\ received'[R + 1] = m
      /\ \A i \in 1..R : received'[i] = received[i]
  BY <1>1, AppendProperties DEF R
<1>3. ASSUME NEW code \in Seq(Digits), NEW why \in {"unauthorized", "no_handler", "handler"},
             NEW after \in {"receive", "closed"}, Respond(code, why, after),
             why = "handler" => code \in Verdicts(m)
      PROVE  Taken(m)
  <2> DEFINE a == [code |-> code, why |-> why, to |-> R']
  <2>1. spc' = "respond" /\ sAfter' = after /\ OneMore(a)
    BY <1>2, <1>3, RespondIs
  <2>2. a.to = R + 1 /\ a.why = why /\ a.code = code
    BY <1>2
  <2> HIDE DEF a
  <2> QED
    BY <1>2, <1>3, <2>1, <2>2 DEF Taken
<1>4. CASE Respond(UNAUTHORIZED, "unauthorized", "closed")
  BY <1>3, <1>4, CodesAre
<1>5. CASE NoHandler
  BY <1>3, <1>5, CodesAre DEF NoHandler
<1>6. CASE \E code \in Verdicts(m) : Respond(code, "handler", "receive")
  BY <1>3, <1>6, CodesAre
<1> QED
  BY <1>4, <1>5, <1>6 DEF Serve

LEMMA ReceivedIs ==
  ASSUME TypeInv, NEW text \in Text, Received(text)
  PROVE  /\ sHeard' = <<>>
         /\ \/ /\ text = <<>> /\ spc' = "closed"
               /\ UNCHANGED <<sAfter, received, answers>>
            \/ /\ text # <<>> /\ deserialize(text) = Invalid
               /\ UNCHANGED received /\ spc' = "respond" /\ sAfter' = "closed"
               /\ \E a : OneMore(a) /\ a.why = "malformed"
            \/ /\ text # <<>> /\ deserialize(text).went = "message"
               /\ deserialize(text).msg \in Parsable /\ Taken(deserialize(text).msg)
<1> DEFINE parsed == deserialize(text)
<1>1. parsed = Invalid \/ (parsed.went = "message" /\ parsed.msg \in Parsable)
  BY JsType
<1>2. text = <<>> => parsed.went # "message"
  BY NothingIsInvalid DEF Invalid
<1>3. Invalid.went # "message"
  BY DEF Invalid
<1>4. /\ sHeard' = <<>>
      /\ \/ text = <<>> /\ spc' = "closed" /\ UNCHANGED <<sAfter, received, answers>>
         \/ /\ text # <<>> /\ parsed = Invalid
            /\ UNCHANGED received
            /\ Respond(ERROR, "malformed", "closed")
         \/ parsed.went = "message" /\ Serve(parsed.msg)
  BY DEF Received, HeardAtStart
<1> HIDE DEF parsed
<1>5. ASSUME UNCHANGED received, Respond(ERROR, "malformed", "closed")
      PROVE  /\ spc' = "respond" /\ sAfter' = "closed"
             /\ \E a : OneMore(a) /\ a.why = "malformed"
  <2>1. received' \in Seq(Parsable)
    BY <1>5 DEF TypeInv
  <2> DEFINE a == [code |-> ERROR, why |-> "malformed", to |-> R']
  <2>2. spc' = "respond" /\ sAfter' = "closed" /\ OneMore(a)
    BY <1>5, <2>1, CodesAre, RespondIs
  <2>3. a.why = "malformed"
    OBVIOUS
  <2> HIDE DEF a
  <2> QED
    BY <2>2, <2>3
<1>6. ASSUME parsed.went = "message", Serve(parsed.msg)
      PROVE  text # <<>> /\ parsed.msg \in Parsable /\ Taken(parsed.msg)
  BY <1>1, <1>2, <1>3, <1>6, ServeIs
<1> QED
  BY <1>4, <1>5, <1>6 DEF parsed

LEMMA WrittenType ==
  ASSUME NEW S, NEW stream \in Seq(S), NEW text \in Seq(S)
  PROVE  Written(stream, text) \in Seq(S)
BY ConcatProperties DEF Written

LEMMA ServerDataIs ==
  ASSUME TypeInv, ServerData
  PROVE  \E chunk \in Chunks(up) :
           LET heard == Join(sHeard, Decode(chunk))
           IN /\ chunk \in Text /\ heard \in Text
              /\ up' = Rest(up, chunk) /\ CutOf(up, chunk)
              /\ cutChar' = (cutChar \/ Last(chunk) = "hi")
              /\ UNCHANGED <<down, broken, clientVars, sOver, handlers>>
              /\ \/ spc = "receive" /\ IsText(heard) /\ Received(heard)
                 \/ /\ spc = "receive" /\ ~IsText(heard) /\ sHeard' = heard
                    /\ UNCHANGED <<spc, sAfter, received, answers>>
                 \/ spc = "respond" /\ UNCHANGED <<spc, sHeard, sAfter, received, answers>>
<1>1. PICK chunk \in Chunks(up) :
        /\ up' = Rest(up, chunk) /\ CutOf(up, chunk)
        /\ cutChar' = (cutChar \/ Last(chunk) = "hi")
        /\ \E heard \in {sHeard \o Decode(chunk)} :
             \/ spc = "receive" /\ IsText(heard) /\ Received(heard)
             \/ /\ spc = "receive" /\ ~IsText(heard)
                /\ sHeard' = heard
                /\ UNCHANGED <<spc, sAfter, received, answers>>
             \/ spc = "respond" /\ Missed
  BY DEF ServerData
<1>2. UNCHANGED <<down, broken, clientVars, sOver, handlers>>
  BY DEF ServerData
<1>3. up \in Seq(Tokens) /\ sHeard \in Text
  BY DEF TypeInv, Text
<1>4. chunk \in Text
  BY <1>3, ChunkIs DEF Text
<1>5. Join(sHeard, Decode(chunk)) \in Text
  BY <1>3, <1>4, Decoded, Joins
<1>6. sHeard \o Decode(chunk) = Join(sHeard, Decode(chunk))
  BY DEF Join
<1> QED
  BY <1>1, <1>2, <1>4, <1>5, <1>6 DEF Missed

LEMMA ServerEndIs ==
  ASSUME ServerEnd
  PROVE  /\ broken /\ up = <<>> /\ sOver' = TRUE
         /\ UNCHANGED <<up, down, cuts, broken, clientVars, handlers, cutChar>>
         /\ \/ spc = "receive" /\ Received(sHeard)
            \/ spc = "respond" /\ UNCHANGED <<spc, sHeard, sAfter, received, answers>>
BY DEF ServerEnd, Missed

LEMMA CutShort ==
  ASSUME NEW S, NEW stream \in Seq(S), NEW left \in Chunks(stream) \cup {<<>>}
  PROVE  /\ left \in Seq(S) /\ Len(left) \in Nat /\ Len(stream) \in Nat
         /\ Len(left) <= Len(stream)
         /\ \A i \in 1..Len(left) : left[i] = stream[i]
<1>1. Len(stream) \in Nat
  BY LenProperties
<1>2. CASE left = <<>>
  BY <1>1, <1>2, EmptySeq
<1>3. CASE left \in Chunks(stream)
  <2>1. /\ left \in Seq(S) /\ Len(left) \in 1..Len(stream)
        /\ \A i \in 1..Len(left) : left[i] = stream[i]
    BY <1>3, ChunkIs
  <2> QED
    BY <1>1, <2>1
<1> QED
  BY <1>2, <1>3

LEMMA TypeStep ==
  ASSUME TypeInv, spc = "respond" => A > 0, [Next]_vars
  PROVE  TypeInv'
<1> DEFINE ClientType == calls' \in Seq(Calling)
           ServerType == /\ sHeard' \in Text /\ {sOver', cutChar'} \subseteq BOOLEAN
                         /\ received' \in Seq(Parsable) /\ answers' \in Seq(Answer)
                         /\ spc' \in {"receive", "respond", "closed", "crashed"}
                         /\ sAfter' \in {"receive", "closed"}
           NetType == /\ up' \in Text /\ down' \in Seq(RespTokens) /\ cuts' \in Nat
                      /\ {broken', flowing', cOver'} \subseteq BOOLEAN
<1>1. /\ up \in Text /\ up \in Seq(Tokens) /\ down \in Seq(RespTokens) /\ sHeard \in Text
      /\ cuts \in Nat /\ cuts + 1 \in Nat /\ cuts + 0 \in Nat
      /\ {broken, flowing, cOver, sOver, cutChar} \subseteq BOOLEAN
      /\ calls \in Seq(Calling) /\ received \in Seq(Parsable) /\ answers \in Seq(Answer)
      /\ spc \in {"receive", "respond", "closed", "crashed"}
      /\ sAfter \in {"receive", "closed"}
      /\ TRUE \in BOOLEAN /\ <<>> \in Text /\ <<>> \in Seq(RespTokens)
  BY DEF TypeInv, Text
<1>2. UNCHANGED serverVars => ServerType
  BY <1>1 DEF serverVars
<1>3. UNCHANGED clientVars => ClientType /\ flowing' = flowing /\ cOver' = cOver
  BY <1>1 DEF clientVars
<1> SUFFICES ClientType /\ ServerType /\ NetType
  BY DEF TypeInv
<1>4. CASE UNCHANGED vars
  BY <1>1, <1>2, <1>3, <1>4 DEF vars
<1>5. ASSUME NEW m \in Messages, Call(m) PROVE ClientType /\ ServerType /\ NetType
  BY <1>1, <1>2, <1>5, CallMade
<1>6. ASSUME NEW k \in DOMAIN calls, WritePart(k) PROVE ClientType /\ ServerType /\ NetType
  <2> HIDE DEF ServerType
  <2>1. PICK part : /\ up' = Written(up, part) /\ cuts' = cuts + 1 /\ SameCalls /\ part \in Text
                    /\ UNCHANGED <<down, broken, flowing, cOver, serverVars>>
    BY <1>6, WritePartIs
  <2>2. up' \in Seq(Tokens)
    BY <1>1, <2>1, WrittenType DEF Text
  <2> QED
    BY <1>1, <1>2, <2>1, <2>2 DEF SameCalls, Text
<1>7. ASSUME NEW k \in DOMAIN calls, WriteDone(k) PROVE ClientType /\ ServerType /\ NetType
  <2> HIDE DEF ServerType
  <2>1. /\ up' = Written(up, Unsent(k)) /\ Unsent(k) \in Text /\ SameCalls /\ flowing' = TRUE
        /\ UNCHANGED <<down, cuts, broken, cOver, serverVars>>
    BY <1>7, WriteDoneIs
  <2>2. up' \in Seq(Tokens)
    BY <1>1, <2>1, WrittenType DEF Text
  <2> QED
    BY <1>1, <1>2, <2>1, <2>2 DEF SameCalls, Text
<1>8. ASSUME NEW k \in DOMAIN calls, WriteFails(k) PROVE ClientType /\ ServerType /\ NetType
  BY <1>1, <1>2, <1>8, WriteFailsIs DEF SameCalls
<1>9. CASE ClientData
  <2> HIDE DEF ServerType
  <2>1. PICK chunk \in Chunks(down) :
          /\ down' = Rest(down, chunk) /\ CutOf(down, chunk) /\ SameCalls
          /\ UNCHANGED <<up, broken, flowing, cOver, serverVars>>
    BY <1>9, ClientDataIs
  <2>2. down' \in Seq(RespTokens)
    BY <1>1, <2>1, ChunkIs
  <2>3. cuts' \in Nat
    BY <1>1, <2>1 DEF CutOf
  <2> QED
    BY <1>1, <1>2, <2>1, <2>2, <2>3 DEF SameCalls
<1>10. CASE ClientEnd
  BY <1>1, <1>2, <1>10, ClientEndIs DEF SameCalls
<1>11. CASE ClientError
  BY <1>1, <1>2, <1>11, ClientErrorIs DEF SameCalls
<1>12. ASSUME NEW text \in Text, Received(text)
       PROVE  /\ sHeard' \in Text /\ received' \in Seq(Parsable) /\ answers' \in Seq(Answer)
              /\ spc' \in {"receive", "respond", "closed", "crashed"}
              /\ sAfter' \in {"receive", "closed"}
  BY <1>1, <1>12, ReceivedIs DEF Taken, OneMore
<1>13. CASE ServerData
  <2>1. PICK chunk \in Chunks(up) :
          LET heard == Join(sHeard, Decode(chunk))
          IN /\ heard \in Text
             /\ up' = Rest(up, chunk) /\ CutOf(up, chunk)
             /\ cutChar' = (cutChar \/ Last(chunk) = "hi")
             /\ UNCHANGED <<down, broken, clientVars, sOver, handlers>>
             /\ \/ spc = "receive" /\ IsText(heard) /\ Received(heard)
                \/ /\ spc = "receive" /\ ~IsText(heard) /\ sHeard' = heard
                   /\ UNCHANGED <<spc, sAfter, received, answers>>
                \/ spc = "respond" /\ UNCHANGED <<spc, sHeard, sAfter, received, answers>>
    BY <1>13, ServerDataIs
  <2>2. up' \in Text
    BY <1>1, <2>1, ChunkIs DEF Text
  <2>3. cuts' \in Nat
    BY <1>1, <2>1 DEF CutOf
  <2>4. cutChar' \in BOOLEAN
    BY <1>1, <2>1
  <2>5. ServerType
    BY <1>1, <1>12, <2>1, <2>4
  <2> QED
    BY <1>1, <1>3, <2>1, <2>2, <2>3, <2>5
<1>14. CASE ServerEnd
  <2>1. ServerType
    BY <1>1, <1>12, <1>14, ServerEndIs
  <2> QED
    BY <1>1, <1>3, <1>14, <2>1, ServerEndIs
<1>15. CASE ServerError
  BY <1>1, <1>3, <1>15 DEF ServerError
<1>16. CASE ServerWriteDone
  <2>1. /\ spc = "respond" /\ spc' = sAfter
        /\ down' = Written(down, SerializeResponse(answers[Len(answers)].code))
        /\ UNCHANGED <<up, cuts, broken, clientVars, sHeard, sOver, sAfter, handlers,
                       received, answers, cutChar>>
    BY <1>16 DEF ServerWriteDone
  <2>2. answers[A].code \in Seq(Digits)
    <3>1. A \in Nat /\ \A i \in 1..A : answers[i] \in Answer
      BY <1>1, LenProperties, ElementOfSeq DEF A
    <3>2. A \in 1..A
      BY <2>1, <3>1
    <3> QED
      BY <3>1, <3>2 DEF Answer
  <2>3. SerializeResponse(answers[A].code) \in Seq(RespTokens)
    BY <2>2, ResponseLayout
  <2>4. down' \in Seq(RespTokens)
    BY <1>1, <2>1, <2>3, WrittenType DEF A
  <2> QED
    BY <1>1, <1>3, <2>1, <2>4
<1>17. CASE ServerWriteFails
  BY <1>1, <1>3, <1>17 DEF ServerWriteFails
<1>18. ASSUME NEW type, RegisterHandler(type) PROVE ClientType /\ ServerType /\ NetType
  BY <1>1, <1>3, <1>18 DEF RegisterHandler
<1>19. CASE Break
  <2>1. up' \in Seq(Tokens)
    BY <1>1, <1>19, CutShort DEF Break
  <2>2. down' \in Seq(RespTokens)
    BY <1>1, <1>19, CutShort DEF Break
  <2>3. /\ broken' = TRUE /\ UNCHANGED <<cuts, clientVars, serverVars>>
    BY <1>19 DEF Break
  <2> HIDE DEF ServerType, ClientType
  <2> QED
    BY <1>1, <1>2, <1>3, <2>1, <2>2, <2>3 DEF Text
<1> QED
  BY <1>4, <1>5, <1>6, <1>7, <1>8, <1>9, <1>10, <1>11, <1>13, <1>14, <1>15, <1>16, <1>17,
     <1>18, <1>19 DEF Next, ClientNext, ClientSteps, Writes, ServerNext, ServerSteps

-----------------------------------------------------------------------------
(* The steps of the client keep the invariant.                             *)

LEMMA Sizes ==
  ASSUME TypeInv, NEW n \in 0..N
  PROVE  /\ N \in Nat /\ R \in Nat /\ A \in Nat /\ n \in Nat /\ n <= N
         /\ Len(up) \in Nat /\ Len(down) \in Nat /\ Len(sHeard) \in Nat
<1>1. N \in Nat
  BY LenProperties DEF TypeInv, N
<1>2. R \in Nat
  BY LenProperties DEF TypeInv, R
<1>3. A \in Nat
  BY LenProperties DEF TypeInv, A
<1>4. Len(up) \in Nat /\ Len(sHeard) \in Nat
  BY LenProperties DEF TypeInv, Text
<1>5. Len(down) \in Nat
  BY LenProperties DEF TypeInv
<1> QED
  BY <1>1, <1>2, <1>3, <1>4, <1>5

LEMMA TurnFacts ==
  ASSUME TypeInv, CallsInv, NEW n \in 0..N, Turns(n), NEW k \in 1..n
  PROVE  /\ k \in 1..N /\ calls[k].alone /\ Plain(calls[k].msg)
         /\ k # n => calls[k].at = "settled"
         /\ TextOf(k) \in Text /\ Len(TextOf(k)) \in Nat
<1>1. N \in Nat /\ DOMAIN calls = 1..N
  BY LenProperties DEF TypeInv, N
<1>2. k \in 1..N /\ n \in 1..N
  BY <1>1
<1>3. InTurn(k) /\ InTurn(n)
  BY <1>2 DEF Turns
<1>4. calls[k].alone /\ Plain(calls[k].msg)
  BY <1>1, <1>2, <1>3 DEF InTurn, PlainUpTo
<1>5. k # n => calls[k].at = "settled"
  <2> SUFFICES ASSUME k # n PROVE calls[k].at = "settled"
    OBVIOUS
  <2>1. k \in 1..(n - 1)
    BY <1>1
  <2>2. calls[n].alone
    BY <1>3 DEF InTurn
  <2> QED
    BY <1>2, <2>1, <2>2 DEF CallsInv
<1>6. TextOf(k) \in Text
  BY <1>2, CallIs
<1>7. Len(TextOf(k)) \in Nat
  BY <1>6, LenProperties DEF Text
<1> QED
  BY <1>2, <1>4, <1>5, <1>6, <1>7

LEMMA SameTurns ==
  ASSUME TypeInv, SameCalls, NEW n \in 0..N, Turns(n)
  PROVE  Turns(n)' /\ \A k \in 1..N : TextOf(k)' = TextOf(k)
<1>1. DOMAIN calls = 1..N /\ DOMAIN calls' = 1..N /\ N' = N
  BY LenProperties DEF TypeInv, SameCalls, N
<1>2. \A k \in 1..N : calls'[k].msg = calls[k].msg /\ calls'[k].alone = calls[k].alone
  BY DEF SameCalls
<1>3. ASSUME NEW k \in 1..N PROVE InTurn(k)' <=> InTurn(k)
  BY <1>1, <1>2 DEF InTurn, PlainUpTo
<1>4. Turns(n)'
  BY <1>1, <1>3 DEF Turns
<1> QED
  BY <1>2, <1>4 DEF TextOf

\* What the calls are about is the same, and so is the server.
LEMMA ServerAsBefore ==
  ASSUME TypeInv, NEW n \in 0..N, StateInv(n), SameCalls, UNCHANGED <<broken, serverVars>>
  PROVE  Turns(n)' /\ AnswersInv(n)' /\ ServedInv(n)'
<1>1. Turns(n)' /\ N' = N
  BY SameTurns DEF StateInv, SameCalls
<1>2. UNCHANGED <<spc, sHeard, sAfter, received, answers, cutChar>> /\ R' = R /\ A' = A
  BY DEF serverVars, R, A
<1>3. AnswersInv(n)'
  BY <1>1, <1>2 DEF StateInv, AnswersInv, Verdicts
<1>4. ServedInv(n)'
  <2>1. \A i \in 1..R : i <= n => calls'[i].msg = calls[i].msg
    BY Sizes DEF SameCalls
  <2> QED
    BY <1>2, <2>1 DEF StateInv, ServedInv
<1> QED
  BY <1>1, <1>3, <1>4

LEMMA CallsKept ==
  ASSUME TypeInv, CallsInv, SameCalls,
         cOver' => (broken' \/ ~Serving') /\ down' = <<>>,
         \A k \in 1..N : calls[k].at = "settled" => calls'[k].at = "settled",
         \A k \in 1..N : calls'[k].at = "sending" =>
           calls'[k].sent < Len(TextOf(k)) /\ calls'[k].heard = <<>>,
         \A k \in 1..N : calls'[k].out = "code" => calls'[k].at = "settled"
  PROVE  CallsInv'
<1>1. /\ N' = N /\ N \in Nat
      /\ \A k \in 1..N : calls'[k].alone = calls[k].alone /\ TextOf(k)' = TextOf(k)
  BY LenProperties DEF SameCalls, TypeInv, N, TextOf
<1>2. \A k \in 1..N : calls'[k].alone =>
        \A j \in 1..(k - 1) : calls'[j].alone /\ calls'[j].at = "settled"
  <2> SUFFICES ASSUME NEW k \in 1..N, calls'[k].alone, NEW j \in 1..(k - 1)
               PROVE  calls'[j].alone /\ calls'[j].at = "settled"
    OBVIOUS
  <2>1. j \in 1..N
    BY <1>1
  <2>2. calls[k].alone
    BY <1>1
  <2>3. calls[j].alone /\ calls[j].at = "settled"
    BY <2>2 DEF CallsInv
  <2> QED
    BY <1>1, <2>1, <2>3
<1> QED
  BY <1>1, <1>2 DEF CallsInv

LEMMA UpKept ==
  ASSUME TypeInv, NEW n \in 0..N, StateInv(n), SameCalls, UNCHANGED <<up, broken, serverVars>>,
         n > 0 => \/ broken
                  \/ calls'[n].at = calls[n].at /\ calls'[n].sent = calls[n].sent
                  \/ /\ calls'[n].at = "settled"
                     /\ ~Serving \/ (R >= n /\ (N = n => R = n /\ spc = "receive"))
  PROVE  UpInv(n)'
<1>1. /\ UNCHANGED <<spc, sHeard, received, cutChar>> /\ R' = R /\ N' = N
      /\ (Serving' <=> Serving)
  BY DEF serverVars, R, SameCalls, Serving
<1>2. R \in Nat /\ N \in Nat /\ n \in Nat /\ n <= N
  BY Sizes
<1>3. UpInv(n) /\ Turns(n)
  BY DEF StateInv
<1>4. \A k \in 1..N : TextOf(k)' = TextOf(k)
  BY <1>3, SameTurns
<1>5. ASSUME R < n, spc = "receive" PROVE NextText(n)'
  <2>1. NextText(n) /\ R + 1 \in 1..N /\ n \in 1..N /\ Serving /\ ~(R >= n)
    BY <1>2, <1>3, <1>5 DEF UpInv, Serving
  <2>2. TextOf(R + 1)' = TextOf(R + 1) /\ TextOf(n)' = TextOf(n)
    BY <1>1, <1>4, <2>1 DEF TextOf
  <2>3. /\ HeardOf(TextOf(R + 1))' /\ OnWay(up, Len(sHeard), TextOf(R + 1))'
        /\ (Len(sHeard) + Len(up) > Len(TextOf(R + 1)) => N > n /\ R + 1 = n)'
    BY <1>1, <2>1, <2>2 DEF NextText, HeardOf, OnWay, Near
  <2>4. (~broken => /\ R + 1 = n /\ calls[n].at # "settled"
                    /\ calls[n].at = "sending" => Len(sHeard) + Len(up) = calls[n].sent
                    /\ calls[n].at = "waiting" => Len(sHeard) + Len(up) >= Len(TextOf(n)))'
    BY <1>1, <1>2, <2>1, <2>2 DEF NextText
  <2> QED
    BY <2>3, <2>4 DEF NextText
<1> QED
  BY <1>1, <1>2, <1>3, <1>5 DEF UpInv

LEMMA DownKept ==
  ASSUME TypeInv, NEW n \in 0..N, StateInv(n), SameCalls,
         UNCHANGED <<down, broken, cOver, serverVars>>,
         n > 0 => calls'[n].at = calls[n].at /\ calls'[n].heard = calls[n].heard
  PROVE  DownInv(n)'
<1>1. /\ UNCHANGED <<spc, received, answers>> /\ R' = R /\ A' = A /\ N' = N
  BY DEF serverVars, R, A, SameCalls
<1>2. Replied(n)' <=> Replied(n)
  BY <1>1 DEF Replied
<1>3. RespOf(n)' = RespOf(n)
  BY <1>1 DEF RespOf
<1>4. n > 0 => (NextResponse(n)' <=> NextResponse(n))
  BY <1>1, <1>3 DEF NextResponse, OnWay
<1> QED
  BY <1>1, <1>2, <1>4 DEF StateInv, DownInv

LEMMA CodesKept ==
  ASSUME TypeInv, NEW n \in 0..N, StateInv(n), SameCalls, UNCHANGED serverVars,
         cOver => cOver', broken => broken',
         \A k \in 1..n : calls'[k].out = "code" =>
           \/ /\ calls[k].out = "code" /\ calls'[k].code = calls[k].code
              /\ calls'[k].heard = calls[k].heard
           \/ /\ calls'[k].heard = <<>> /\ calls'[k].code = ERROR
              /\ cOver' /\ (broken' \/ k > R)
           \/ calls'[k].heard # <<>> /\ k <= R /\ calls'[k].code = answers[k].code
  PROVE  CodesInv(n)'
<1>1. UNCHANGED <<received, answers>> /\ R' = R
  BY DEF serverVars, R
<1>2. CodesInv(n)
  BY DEF StateInv
<1> QED
  BY <1>1, <1>2 DEF CodesInv

\* The client writes more of what it sends, and nothing failed.
LEMMA UpGrows ==
  ASSUME TypeInv, CallsInv, NEW n \in 0..N, StateInv(n), SameCalls,
         UNCHANGED <<broken, serverVars>>, ~broken, NEW part \in Text, up' = Join(up, part),
         \/ /\ N > n
            /\ n > 0 => calls[n].at # "sending" /\ calls'[n] = calls[n]
         \/ /\ n > 0 /\ calls[n].at = "sending" /\ OnWay(part, calls[n].sent, TextOf(n))
            /\ calls[n].sent + Len(part) <= Len(TextOf(n))
            /\ \/ calls'[n].at = "sending" /\ calls'[n].sent = calls[n].sent + Len(part)
               \/ calls'[n].at = "waiting" /\ calls[n].sent + Len(part) >= Len(TextOf(n))
  PROVE  UpInv(n)'
<1>1. /\ UNCHANGED <<spc, sHeard, received, cutChar>> /\ R' = R /\ N' = N
      /\ (Serving' <=> Serving)
  BY DEF serverVars, R, SameCalls, Serving
<1>2. R \in Nat /\ N \in Nat /\ n \in Nat /\ n <= N /\ Len(up) \in Nat /\ Len(sHeard) \in Nat
  BY Sizes
<1>3. UpInv(n) /\ Turns(n)
  BY DEF StateInv
<1>4. \A k \in 1..N : TextOf(k)' = TextOf(k)
  BY <1>3, SameTurns
<1>5. Len(up') = Len(up) + Len(part) /\ Len(part) \in Nat /\ part \in Seq(Tokens) /\ up \in Seq(Tokens)
  BY JoinIs DEF TypeInv, Text
<1>6. n > 0 => calls[n].sent \in Nat /\ Len(TextOf(n)) \in Nat
  <2> SUFFICES ASSUME n > 0 PROVE calls[n].sent \in Nat /\ Len(TextOf(n)) \in Nat
    OBVIOUS
  <2>1. n \in 1..n /\ n \in 1..N
    BY <1>2
  <2> QED
    BY <1>3, <2>1, CallIs, TurnFacts
<1>7. ASSUME R < n, spc = "receive" PROVE NextText(n)'
  <2>1. NextText(n) /\ R + 1 \in 1..N /\ n \in 1..N /\ n > 0
    BY <1>2, <1>3, <1>7 DEF UpInv
  <2>2. /\ R + 1 = n /\ calls[n].at # "settled"
        /\ calls[n].at = "sending" => Len(sHeard) + Len(up) = calls[n].sent
        /\ calls[n].at = "waiting" => Len(sHeard) + Len(up) >= Len(TextOf(n))
        /\ HeardOf(TextOf(n)) /\ OnWay(up, Len(sHeard), TextOf(n))
    BY <2>1 DEF NextText
  <2>3. TextOf(R + 1)' = TextOf(n) /\ TextOf(n)' = TextOf(n)
    BY <1>1, <1>4, <2>1, <2>2 DEF TextOf
  <2>4. calls[n].at \in {"sending", "waiting", "settled"}
    BY <2>1, CallIs
  <2>5. OnWay(part, Len(sHeard) + Len(up), TextOf(n))
    <3>1. CASE calls[n].at = "sending"
      BY <2>1, <2>2, <3>1
    <3>2. CASE calls[n].at = "waiting"
      <4>1. Len(sHeard) + Len(up) \in Nat /\ Len(sHeard) + Len(up) >= Len(TextOf(n))
        BY <1>2, <2>2, <3>2
      <4> DEFINE place == Len(sHeard) + Len(up)
                 text == TextOf(n)
      <4>2. place \in Nat /\ place >= Len(text) /\ Len(text) \in Nat
        BY <1>6, <2>1, <4>1
      <4> HIDE DEF place, text
      <4>3. OnWay(part, place, text)
        BY <1>5, <4>2, OnWayPast
      <4> QED
        BY <4>3 DEF place, text
    <3> QED
      BY <2>2, <2>4, <3>1, <3>2
  <2>6. OnWay(up', Len(sHeard), TextOf(n))
    BY <1>2, <1>5, <2>2, <2>5, OnWayJoin
  <2>7. HeardOf(TextOf(R + 1))' /\ OnWay(up, Len(sHeard), TextOf(R + 1))'
    BY <1>1, <2>2, <2>3, <2>6 DEF HeardOf, OnWay, Near
  <2>8. (Len(sHeard) + Len(up) > Len(TextOf(R + 1)) => N > n /\ R + 1 = n)'
    BY <1>1, <1>2, <1>5, <1>6, <2>1, <2>2, <2>3
  <2>9. (~broken => /\ R + 1 = n /\ calls[n].at # "settled"
                    /\ calls[n].at = "sending" => Len(sHeard) + Len(up) = calls[n].sent
                    /\ calls[n].at = "waiting" => Len(sHeard) + Len(up) >= Len(TextOf(n)))'
    BY <1>1, <1>2, <1>5, <1>6, <2>1, <2>2, <2>3, <2>4
  <2> QED
    BY <2>7, <2>8, <2>9 DEF NextText
<1> QED
  BY <1>1, <1>2, <1>3, <1>7 DEF UpInv

LEMMA AnswerIs ==
  ASSUME TypeInv, NEW k \in 1..A
  PROVE  /\ answers[k] \in Answer /\ answers[k].code \in Seq(Digits)
         /\ RespOf(k) \in Seq(RespTokens) /\ Len(RespOf(k)) \in Nat
<1>1. answers[k] \in Answer
  BY ElementOfSeq DEF TypeInv, A
<1>2. answers[k].code \in Seq(Digits)
  BY <1>1 DEF Answer
<1>3. RespOf(k) \in Seq(RespTokens)
  BY <1>2, ResponseLayout DEF RespOf
<1>4. Len(RespOf(k)) \in Nat
  BY <1>3, LenProperties
<1> QED
  BY <1>1, <1>2, <1>3, <1>4

LEMMA AnswerOf ==
  ASSUME TypeInv, NEW n \in 0..N, StateInv(n), NEW k \in 1..R
  PROVE  k \in 1..A
<1>1. R \in Nat /\ A \in Nat /\ (A = R \/ A = R + 1)
  BY Sizes DEF StateInv, AnswersInv
<1> QED
  BY <1>1

LEMMA UnsentIs ==
  ASSUME TypeInv, NEW k \in 1..N, calls[k].sent <= Len(TextOf(k))
  PROVE  /\ Unsent(k) \in Seq(Tokens)
         /\ Len(Unsent(k)) = Len(TextOf(k)) - calls[k].sent
         /\ OnWay(Unsent(k), calls[k].sent, TextOf(k))
<1> DEFINE text == TextOf(k)
           place == calls[k].sent
           l == Len(text)
<1>1. text \in Seq(Tokens) /\ place \in Nat /\ place <= Len(text)
  BY CallIs DEF Text
<1>2. Unsent(k) = Slice(text, place, Len(text))
  BY DEF Unsent, TextOf
<1> HIDE DEF text, place
<1>3. l \in Nat
  BY <1>1, LenProperties
<1>4. place <= l /\ l <= Len(text)
  BY <1>1, <1>3
<1> HIDE DEF l
<1>5. /\ Slice(text, place, l) \in Seq(Tokens)
      /\ Len(Slice(text, place, l)) = l - place
  BY <1>1, <1>3, <1>4, SliceOf
<1>6. OnWay(Slice(text, place, Len(text)), place, text)
  BY <1>1, OnWaySlice
<1> QED
  BY <1>2, <1>5, <1>6 DEF l, text, place

LEMMA PartStep ==
  ASSUME TypeInv, CallsInv, NEW n \in 0..N, StateInv(n), NEW k \in DOMAIN calls, WritePart(k)
  PROVE  CallsInv' /\ StateInv(n)'
<1>1. PICK part \in Chunks(Unsent(k)) \ {Unsent(k)} :
        /\ up' = Written(up, part) /\ SameCalls
        /\ calls'[k] = [calls[k] EXCEPT !.sent = @ + Len(part)]
        /\ part \in Text
        /\ \A j \in 1..N : j # k => calls'[j] = calls[j]
  BY WritePartIs
<1>2. /\ k \in 1..N /\ calls[k].at = "sending"
      /\ \A j \in 1..N : calls[j].at = "sending" => k <= j
      /\ UNCHANGED <<down, broken, flowing, cOver, serverVars>>
  BY WritePartIs
<1>3. UNCHANGED spc /\ (Serving' <=> Serving)
  BY <1>2 DEF serverVars, Serving
<1>4. Turns(n) /\ UpInv(n)
  BY DEF StateInv
<1>5. /\ N \in Nat /\ n \in Nat /\ n <= N /\ (n > 0 => n \in 1..N /\ n \in 1..n)
      /\ k \in Nat /\ (k < n => k \in 1..n /\ k # n)
  BY <1>2, Sizes
<1>6. calls[k] \in Calling /\ calls[k].sent \in Nat /\ TextOf(k) \in Text
  BY <1>2, CallIs
<1> DEFINE l == Len(TextOf(k))
           s == calls[k].sent
           p == Len(part)
<1>7. s \in Nat /\ l \in Nat /\ s < l /\ calls[k].heard = <<>>
  BY <1>2, <1>6, LenProperties DEF CallsInv, Text
<1>8. p \in Nat /\ s + p < l /\ OnWay(part, s, TextOf(k))
  <2>1. s <= l
    BY <1>7
  <2>3. /\ Unsent(k) \in Seq(Tokens) /\ Len(Unsent(k)) = l - s
        /\ OnWay(Unsent(k), s, TextOf(k))
    BY <1>2, <2>1, UnsentIs
  <2>5. part \in Chunks(Unsent(k)) /\ part # Unsent(k)
    BY <1>1
  <2>6. OnWay(part, s, TextOf(k))
    BY <1>7, <2>3, <2>5, OnWayRest
  <2>7. /\ part \in Seq(Tokens) /\ p \in 1..Len(Unsent(k))
        /\ \A i \in 1..p : part[i] = Unsent(k)[i]
    BY <2>3, <2>5, ChunkIs
  <2>8. p # Len(Unsent(k))
    <3> SUFFICES ASSUME p = Len(Unsent(k)) PROVE part = Unsent(k)
      BY <2>5
    <3> QED
      BY <2>3, <2>7, SeqEqual
  <2> HIDE DEF p, s, l
  <2> QED
    BY <1>7, <2>3, <2>6, <2>7, <2>8
<1>9. /\ calls'[k].sent = s + p /\ calls'[k].at = "sending" /\ calls'[k].heard = <<>>
      /\ calls'[k].out = calls[k].out /\ calls'[k].code = calls[k].code
  BY <1>1, <1>2, <1>6, <1>7, <1>8, MoreSent
<1>10. CallsInv'
  <2>1. \A j \in 1..N : calls[j].at = "settled" => calls'[j].at = "settled"
    BY <1>1, <1>2
  <2>2. \A j \in 1..N : calls'[j].at = "sending" =>
          calls'[j].sent < Len(TextOf(j)) /\ calls'[j].heard = <<>>
    BY <1>1, <1>8, <1>9 DEF CallsInv
  <2>3. cOver' => (broken' \/ ~Serving') /\ down' = <<>>
    BY <1>1, <1>2, <1>3 DEF CallsInv, serverVars, Serving
  <2>4. \A j \in 1..N : calls'[j].out = "code" => calls'[j].at = "settled"
    BY <1>1, <1>2, <1>9 DEF CallsInv
  <2> QED
    BY <1>1, <2>1, <2>2, <2>3, <2>4, CallsKept
<1>11. k = n \/ (k > n /\ (n > 0 => calls[n].at # "sending" /\ calls'[n] = calls[n]))
  <2>1. k < n => calls[k].at = "settled"
    BY <1>4, <1>5, TurnFacts
  <2>2. ~(k < n)
    BY <1>2, <2>1
  <2>3. k # n => k > n
    BY <1>5, <2>2
  <2>4. n > 0 /\ k > n => calls[n].at # "sending"
    BY <1>2, <1>5
  <2> QED
    BY <1>1, <1>5, <2>3, <2>4
<1>12. UpInv(n)'
  <2>1. CASE broken
    <3>1. up' = up
      BY <1>1, <2>1 DEF Written
    <3>2. n > 0 => calls'[n].at = calls[n].at
      BY <1>2, <1>9, <1>11
    <3> QED
      BY <1>1, <1>2, <2>1, <3>1, <3>2, UpKept
  <2>2. CASE ~broken
    <3>1. up' = Join(up, part)
      BY <1>1, <2>2 DEF Written, Join
    <3>2. CASE k > n
      <4>1. N > n
        BY <1>2, <1>5, <3>2
      <4> QED
        BY <1>1, <1>2, <1>11, <2>2, <3>1, <3>2, <4>1, UpGrows
    <3>3. CASE k = n
      <4>1. n > 0 /\ calls[n].sent + Len(part) <= Len(TextOf(n))
        BY <1>2, <1>5, <1>7, <1>8, <3>3
      <4> QED
        BY <1>1, <1>2, <1>8, <1>9, <2>2, <3>1, <3>3, <4>1, UpGrows
    <3> QED
      BY <1>11, <3>2, <3>3
  <2> QED
    BY <2>1, <2>2
<1>13. DownInv(n)'
  <2>1. n > 0 => calls'[n].at = calls[n].at /\ calls'[n].heard = calls[n].heard
    BY <1>2, <1>7, <1>9, <1>11
  <2> QED
    BY <1>1, <1>2, <2>1, DownKept
<1>14. CodesInv(n)'
  <2>1. \A j \in 1..n : calls'[j].out = "code" =>
          /\ calls[j].out = "code" /\ calls'[j].code = calls[j].code
          /\ calls'[j].heard = calls[j].heard
    <3>1. \A j \in 1..n : j \in 1..N
      BY <1>5
    <3> QED
      BY <1>1, <1>7, <1>9, <3>1
  <2> QED
    BY <1>1, <1>2, <2>1, CodesKept
<1> QED
  BY <1>1, <1>2, <1>10, <1>12, <1>13, <1>14, ServerAsBefore DEF StateInv

LEMMA DoneStep ==
  ASSUME TypeInv, CallsInv, NEW n \in 0..N, StateInv(n), NEW k \in DOMAIN calls, WriteDone(k)
  PROVE  CallsInv' /\ StateInv(n)'
<1> DEFINE part == Unsent(k)
           l == Len(TextOf(k))
           s == calls[k].sent
           p == Len(part)
<1>1. /\ k \in 1..N /\ calls[k].at = "sending"
      /\ \A j \in 1..N : calls[j].at = "sending" => k <= j
      /\ up' = Written(up, part) /\ part \in Text
      /\ SameCalls
      /\ calls'[k] = [calls[k] EXCEPT !.at = "waiting"]
      /\ \A j \in 1..N : j # k => calls'[j] = calls[j]
      /\ UNCHANGED <<down, broken, cOver, serverVars>>
  BY WriteDoneIs
<1>2. UNCHANGED <<spc, received, answers>> /\ R' = R /\ A' = A /\ N' = N
  BY <1>1 DEF serverVars, R, A, SameCalls
<1>3. Turns(n) /\ UpInv(n) /\ DownInv(n)
  BY DEF StateInv
<1>4. /\ N \in Nat /\ R \in Nat /\ A \in Nat /\ n \in Nat /\ n <= N
      /\ (n > 0 => n \in 1..N /\ n \in 1..n)
      /\ k \in Nat /\ (k < n => k \in 1..n /\ k # n)
  BY <1>1, Sizes
<1>5. calls[k] \in Calling /\ calls[k].sent \in Nat /\ TextOf(k) \in Text
  BY <1>1, CallIs
<1>6. s \in Nat /\ l \in Nat /\ s < l /\ calls[k].heard = <<>>
  BY <1>1, <1>5, LenProperties DEF CallsInv, Text
<1>7. p = l - s /\ OnWay(part, s, TextOf(k))
  <2>1. s <= l
    BY <1>6
  <2> QED
    BY <1>1, <2>1, UnsentIs
<1>8. /\ calls'[k].at = "waiting" /\ calls'[k].heard = <<>>
      /\ calls'[k].out = calls[k].out /\ calls'[k].code = calls[k].code
  BY <1>1, <1>5, <1>6 DEF Calling
<1>9. CallsInv'
  <2>1. \A j \in 1..N : calls[j].at = "settled" => calls'[j].at = "settled"
    BY <1>1
  <2>2. \A j \in 1..N : calls'[j].at = "sending" =>
          calls'[j].sent < Len(TextOf(j)) /\ calls'[j].heard = <<>>
    BY <1>1, <1>8 DEF CallsInv
  <2>3. cOver' => (broken' \/ ~Serving') /\ down' = <<>>
    BY <1>1, <1>2 DEF CallsInv, Serving
  <2>4. \A j \in 1..N : calls'[j].out = "code" => calls'[j].at = "settled"
    BY <1>1, <1>8 DEF CallsInv
  <2> QED
    BY <1>1, <2>1, <2>2, <2>3, <2>4, CallsKept
<1>10. k = n \/ (k > n /\ (n > 0 => calls[n].at # "sending" /\ calls'[n] = calls[n]))
  <2>1. k < n => calls[k].at = "settled"
    BY <1>3, <1>4, TurnFacts
  <2>2. ~(k < n)
    BY <1>1, <2>1
  <2>3. k # n => k > n
    BY <1>4, <2>2
  <2>4. n > 0 /\ k > n => calls[n].at # "sending"
    BY <1>1, <1>4
  <2> QED
    BY <1>1, <1>4, <2>3, <2>4
<1> HIDE DEF part, l, s, p
<1>11. CASE k > n
  <2>1. N > n
    BY <1>1, <1>4, <1>11
  <2>2. n > 0 => calls[n].at # "sending" /\ calls'[n] = calls[n]
    BY <1>4, <1>10, <1>11
  <2>3. UpInv(n)'
    <3>1. CASE broken
      <4>1. up' = up
        BY <1>1, <3>1 DEF Written
      <4> QED
        BY <1>1, <2>2, <3>1, <4>1, UpKept
    <3>2. CASE ~broken
      <4>1. up' = Join(up, part)
        BY <1>1, <3>2 DEF Written, Join
      <4> QED
        BY <1>1, <2>1, <2>2, <3>2, <4>1, UpGrows
    <3> QED
      BY <3>1, <3>2
  <2>4. DownInv(n)'
    BY <1>1, <2>2, DownKept
  <2> QED
    <3>1. CodesInv(n)'
      <4>1. \A j \in 1..n : j \in 1..N
        BY <1>4
      <4>2. \A j \in 1..n : calls'[j].out = "code" =>
              /\ calls[j].out = "code" /\ calls'[j].code = calls[j].code
              /\ calls'[j].heard = calls[j].heard
        BY <1>1, <1>6, <1>8, <4>1
      <4> QED
        BY <1>1, <4>2, CodesKept
    <3> QED
      BY <1>1, <1>9, <2>3, <2>4, <3>1, ServerAsBefore DEF StateInv
<1>12. CASE k = n
  <2>1. n > 0 /\ calls[n].at = "sending"
    BY <1>1, <1>4, <1>12
  <2>2. UpInv(n)'
    <3>1. CASE broken
      <4>1. up' = up
        BY <1>1, <3>1 DEF Written
      <4> QED
        BY <1>1, <3>1, <4>1, UpKept
    <3>2. CASE ~broken
      <4>1. up' = Join(up, part)
        BY <1>1, <3>2 DEF Written, Join
      <4>2. /\ calls[n].sent + Len(part) <= Len(TextOf(n))
            /\ calls[n].sent + Len(part) >= Len(TextOf(n))
            /\ OnWay(part, calls[n].sent, TextOf(n)) /\ calls'[n].at = "waiting"
        BY <1>6, <1>7, <1>8, <1>12 DEF l, s, p
      <4> QED
        BY <1>1, <2>1, <3>2, <4>1, <4>2, UpGrows
    <3> QED
      BY <3>1, <3>2
  <2>3. DownInv(n)'
    <3>1. down' = <<>> /\ calls'[n].heard = <<>> /\ calls'[n].at = "waiting"
      BY <1>1, <1>3, <1>8, <1>12, <2>1 DEF DownInv, CallsInv
    <3>2. ASSUME Replied(n)' PROVE NextResponse(n)'
      <4>1. n <= R
        BY <1>2, <3>2 DEF Replied
      <4>2. broken
        BY <1>3, <1>4, <2>1, <4>1 DEF UpInv
      <4>3. Len(RespOf(n)) \in Nat /\ RespOf(n)' = RespOf(n)
        <5>1. n \in 1..R
          BY <1>4, <2>1, <4>1
        <5> QED
          BY <1>2, <5>1, AnswerOf, AnswerIs DEF RespOf
      <4> QED
        BY <1>1, <3>1, <4>2, <4>3, OnWayNothing DEF NextResponse
    <3> QED
      BY <3>1, <3>2 DEF DownInv
  <2>4. CodesInv(n)'
    <3>1. \A j \in 1..n : j \in 1..N
      BY <1>4
    <3>2. \A j \in 1..n : calls'[j].out = "code" =>
            /\ calls[j].out = "code" /\ calls'[j].code = calls[j].code
            /\ calls'[j].heard = calls[j].heard
      BY <1>1, <1>6, <1>8, <3>1
    <3> QED
      BY <1>1, <3>2, CodesKept
  <2> QED
    BY <1>1, <1>9, <2>2, <2>3, <2>4, ServerAsBefore DEF StateInv
<1> QED
  BY <1>10, <1>11, <1>12

LEMMA FailsStep ==
  ASSUME TypeInv, CallsInv, NEW n \in 0..N, StateInv(n), NEW k \in DOMAIN calls, WriteFails(k)
  PROVE  CallsInv' /\ StateInv(n)'
<1>1. /\ k \in 1..N /\ calls[k].at = "sending" /\ (broken \/ cOver)
      /\ SameCalls
      /\ calls'[k].at = "settled" /\ calls'[k].out = "write"
      /\ \A j \in 1..N : j # k => calls'[j] = calls[j]
      /\ UNCHANGED <<up, down, cuts, broken, flowing, cOver, serverVars>>
  BY WriteFailsIs
<1>2. (Serving' <=> Serving) /\ N' = N
  BY <1>1 DEF serverVars, Serving, SameCalls
<1>3. Turns(n) /\ UpInv(n) /\ DownInv(n)
  BY DEF StateInv
<1>4. N \in Nat /\ n \in Nat /\ n <= N /\ k \in Nat
  BY <1>1, Sizes
<1>5. CallsInv'
  <2>1. \A j \in 1..N : calls[j].at = "settled" => calls'[j].at = "settled"
    BY <1>1
  <2>2. \A j \in 1..N : calls'[j].at = "sending" =>
          calls'[j].sent < Len(TextOf(j)) /\ calls'[j].heard = <<>>
    BY <1>1 DEF CallsInv
  <2>3. cOver' => (broken' \/ ~Serving') /\ down' = <<>>
    BY <1>1, <1>2 DEF CallsInv
  <2>4. \A j \in 1..N : calls'[j].out = "code" => calls'[j].at = "settled"
    BY <1>1 DEF CallsInv
  <2> QED
    BY <1>1, <2>1, <2>2, <2>3, <2>4, CallsKept
<1>6. UpInv(n)'
  <2>1. cOver => broken \/ ~Serving
    BY DEF CallsInv
  <2>2. n > 0 /\ k # n => calls'[n] = calls[n]
    BY <1>1, <1>4
  <2> QED
    BY <1>1, <2>1, <2>2, UpKept
<1>7. DownInv(n)'
  <2>1. CASE k = n
    BY <1>1, <1>2, <1>3, <1>4, <2>1 DEF DownInv
  <2>2. CASE k # n
    <3>1. n > 0 => calls'[n] = calls[n]
      BY <1>1, <1>4, <2>2
    <3> QED
      BY <1>1, <3>1, DownKept
  <2> QED
    BY <2>1, <2>2
<1>8. CodesInv(n)'
  <2>1. \A j \in 1..n : j \in 1..N
    BY <1>4
  <2>2. \A j \in 1..n : calls'[j].out = "code" =>
          /\ calls[j].out = "code" /\ calls'[j].code = calls[j].code
          /\ calls'[j].heard = calls[j].heard
    BY <1>1, <2>1
  <2> QED
    BY <1>1, <2>2, CodesKept
<1> QED
  BY <1>1, <1>5, <1>6, <1>7, <1>8, ServerAsBefore DEF StateInv

\* The call hears more of the response it waits for.
LEMMA ResponseOnWay ==
  ASSUME TypeInv, NEW n \in 1..N, StateInv(n), NEW chunk \in Chunks(down),
         calls[n].at = "waiting"
  PROVE  LET h == Join(calls[n].heard, chunk)
             rest == Rest(down, chunk)
             r == RespOf(n)
         IN /\ Replied(n) /\ n \in 1..R /\ n \in 1..A
            /\ OnWay(h, 0, r) /\ OnWay(rest, Len(h), r)
            /\ h \in Seq(RespTokens) /\ rest \in Seq(RespTokens)
            /\ Len(h) \in Nat /\ Len(rest) \in Nat /\ Len(r) \in Nat
            /\ N = n => Len(h) + Len(rest) <= Len(r)
            /\ ~broken => Len(h) + Len(rest) >= Len(r)
<1>1. down \in Seq(RespTokens) /\ calls[n].heard \in Seq(RespTokens)
  BY CallIs DEF TypeInv
<1>2. /\ chunk \in Seq(RespTokens) /\ down # <<>>
      /\ Rest(down, chunk) \in Seq(RespTokens)
      /\ Len(Rest(down, chunk)) = Len(down) - Len(chunk)
  BY <1>1, ChunkIs
<1>3. n > 0 /\ n \in 0..N /\ N \in Nat /\ R \in Nat
  <2>1. N \in Nat
    BY LenProperties DEF TypeInv, N
  <2>2. n > 0 /\ n \in 0..N
    BY <2>1
  <2> QED
    BY <2>1, <2>2, Sizes
<1>4. DownInv(n)
  BY DEF StateInv
<1>5. Replied(n) /\ NextResponse(n)
  BY <1>2, <1>3, <1>4 DEF DownInv
<1>6. n \in 1..R
  BY <1>3, <1>5 DEF Replied
<1>7. n \in 1..A
  BY <1>3, <1>6, AnswerOf
<1>8. Len(RespOf(n)) \in Nat
  BY <1>7, AnswerIs
<1> DEFINE heard == calls[n].heard
           h == Join(heard, chunk)
           rest == Rest(down, chunk)
           r == RespOf(n)
<1>9. /\ OnWay(heard, 0, r) /\ OnWay(down, Len(heard), r)
      /\ N = n => Len(heard) + Len(down) <= Len(r)
      /\ ~broken => Len(heard) + Len(down) >= Len(r)
  BY <1>5 DEF NextResponse
<1> HIDE DEF heard, r
<1>10. Len(heard) \in Nat /\ Len(chunk) \in Nat /\ Len(down) \in Nat /\ heard \in Seq(RespTokens)
  BY <1>1, <1>2, LenProperties DEF heard
<1>11. OnWay(chunk, Len(heard), r) /\ OnWay(Rest(down, chunk), Len(heard) + Len(chunk), r)
  BY <1>1, <1>9, <1>10, OnWayRest
<1>12. /\ Join(heard, chunk) \in Seq(RespTokens)
       /\ Len(Join(heard, chunk)) = Len(heard) + Len(chunk)
  BY <1>2, <1>10, JoinIs
<1>13. OnWay(Join(heard, chunk), 0, r)
  <2>1. 0 + Len(heard) = Len(heard) /\ 0 \in Nat
    BY <1>10
  <2>2. OnWay(chunk, 0 + Len(heard), r)
    BY <1>11, <2>1
  <2> QED
    BY <1>2, <1>9, <1>10, <2>1, <2>2, OnWayJoin
<1> HIDE DEF h, rest
<1>14. /\ OnWay(h, 0, r) /\ OnWay(rest, Len(h), r) /\ h \in Seq(RespTokens)
       /\ rest \in Seq(RespTokens)
       /\ Len(h) = Len(heard) + Len(chunk) /\ Len(rest) = Len(down) - Len(chunk)
  BY <1>2, <1>11, <1>12, <1>13 DEF h, rest
<1>15. Len(h) \in Nat /\ Len(rest) \in Nat
  BY <1>14, LenProperties
<1>16. Len(h) + Len(rest) = Len(heard) + Len(down)
  <2> HIDE DEF heard
  <2> QED
    BY <1>10, <1>14
<1>17. Len(r) \in Nat
  BY <1>8 DEF r
<1> QED
  BY <1>5, <1>6, <1>7, <1>9, <1>14, <1>15, <1>16, <1>17 DEF h, rest, r, heard

LEMMA DataStep ==
  ASSUME TypeInv, CallsInv, NEW n \in 0..N, StateInv(n), ClientData
  PROVE  CallsInv' /\ StateInv(n)'
<1>1. PICK chunk \in Chunks(down) :
        /\ ~cOver /\ chunk \in Seq(RespTokens)
        /\ down' = Rest(down, chunk) /\ CutOf(down, chunk)
        /\ UNCHANGED <<up, broken, flowing, cOver, serverVars>>
        /\ SameCalls
        /\ \A k \in 1..N : calls[k].at # "waiting" => calls'[k] = calls[k]
        /\ \A k \in 1..N : calls[k].at = "waiting" =>
             LET h == Join(calls[k].heard, chunk)
             IN /\ h \in Seq(RespTokens)
                /\ IsText(h) => /\ calls'[k].at = "settled"
                                /\ calls'[k].heard = h
                                /\ calls'[k].out = Parsed(h).out
                                /\ calls'[k].code = Parsed(h).code
                /\ ~IsText(h) => calls'[k] = [calls[k] EXCEPT !.heard = h]
  BY ClientDataIs
<1>2. UNCHANGED <<spc, received, answers>> /\ R' = R /\ A' = A /\ N' = N
  BY <1>1 DEF serverVars, R, A, SameCalls
<1>3. Turns(n) /\ AnswersInv(n) /\ UpInv(n) /\ DownInv(n)
  BY DEF StateInv
<1>4. N \in Nat /\ n \in Nat /\ n <= N /\ R \in Nat /\ A \in Nat
  BY Sizes
<1>5. down # <<>>
  BY <1>1, ChunkIs DEF TypeInv
<1>6. \A k \in 1..N : calls[k].at = "waiting" =>
        \/ calls'[k].at = "settled"
        \/ /\ calls'[k].at = "waiting" /\ calls'[k].heard = Join(calls[k].heard, chunk)
           /\ calls'[k].out = calls[k].out /\ calls'[k].code = calls[k].code
           /\ calls'[k].sent = calls[k].sent
  <2> SUFFICES ASSUME NEW k \in 1..N, calls[k].at = "waiting", calls'[k].at # "settled"
               PROVE  /\ calls'[k].at = "waiting"
                      /\ calls'[k].heard = Join(calls[k].heard, chunk)
                      /\ calls'[k].out = calls[k].out /\ calls'[k].code = calls[k].code
                      /\ calls'[k].sent = calls[k].sent
    OBVIOUS
  <2> DEFINE h == Join(calls[k].heard, chunk)
  <2>1. h \in Seq(RespTokens) /\ calls'[k] = [calls[k] EXCEPT !.heard = h]
    BY <1>1
  <2>2. calls[k] \in Calling
    BY CallIs
  <2> HIDE DEF h
  <2>3. /\ calls'[k].heard = h /\ calls'[k].at = calls[k].at
        /\ calls'[k].out = calls[k].out /\ calls'[k].code = calls[k].code
        /\ calls'[k].sent = calls[k].sent
    BY <2>1, <2>2, HeardMore
  <2> QED
    BY <2>3 DEF h
<1>7. CallsInv'
  <2>1. \A j \in 1..N : calls[j].at = "settled" => calls'[j].at = "settled"
    BY <1>1
  <2>2. \A j \in 1..N : calls'[j].at = "sending" =>
          calls'[j].sent < Len(TextOf(j)) /\ calls'[j].heard = <<>>
    BY <1>1, <1>6 DEF CallsInv
  <2>3. cOver' => (broken' \/ ~Serving') /\ down' = <<>>
    BY <1>1
  <2>4. \A j \in 1..N : calls'[j].out = "code" => calls'[j].at = "settled"
    BY <1>1, <1>6 DEF CallsInv
  <2> QED
    BY <1>1, <2>1, <2>2, <2>3, <2>4, CallsKept
<1>8. \A j \in 1..n : j # n => calls'[j] = calls[j]
  <2>1. \A j \in 1..n : j # n => j \in 1..N /\ calls[j].at = "settled"
    BY <1>3, TurnFacts
  <2> QED
    BY <1>1, <2>1
<1>9. CASE n = 0 \/ calls[n].at # "waiting"
  <2>1. n > 0 => calls'[n] = calls[n] /\ n \in 1..N
    BY <1>1, <1>4, <1>9
  <2>2. UpInv(n)'
    BY <1>1, <2>1, UpKept
  <2>3. DownInv(n)'
    BY <1>1, <1>2, <1>3, <1>5, <1>9, <2>1 DEF DownInv
  <2>4. CodesInv(n)'
    <3>1. \A j \in 1..n : calls'[j] = calls[j]
      BY <1>4, <1>8, <2>1
    <3> QED
      BY <1>1, <3>1, CodesKept
  <2> QED
    BY <1>1, <1>7, <2>2, <2>3, <2>4, ServerAsBefore DEF StateInv
<1>10. CASE n > 0 /\ calls[n].at = "waiting"
  <2> DEFINE h == Join(calls[n].heard, chunk)
             rest == Rest(down, chunk)
             r == RespOf(n)
  <2>1. n \in 1..N
    BY <1>4, <1>10
  <2>2. /\ Replied(n) /\ n \in 1..R /\ n \in 1..A
        /\ OnWay(h, 0, r) /\ OnWay(rest, Len(h), r)
        /\ h \in Seq(RespTokens) /\ rest \in Seq(RespTokens)
        /\ Len(h) \in Nat /\ Len(rest) \in Nat /\ Len(r) \in Nat
        /\ N = n => Len(h) + Len(rest) <= Len(r)
        /\ ~broken => Len(h) + Len(rest) >= Len(r)
    BY <1>10, <2>1, ResponseOnWay
  <2>3. down' = rest /\ calls'[n].at \in {"waiting", "settled"}
    BY <1>1, <1>6, <1>10, <2>1
  <2>4. /\ IsText(h) => /\ calls'[n].at = "settled"
                        /\ calls'[n].heard = h
                        /\ calls'[n].out = Parsed(h).out
                        /\ calls'[n].code = Parsed(h).code
        /\ ~IsText(h) => calls'[n] = [calls[n] EXCEPT !.heard = h]
    BY <1>1, <1>10, <2>1
  <2>5. answers[n].code \in Seq(Digits) /\ r = SerializeResponse(answers[n].code)
    BY <2>2, AnswerIs DEF RespOf
  <2> HIDE DEF h, rest, r
  <2>6. /\ IsText(h) => Len(h) >= Len(r) /\ h # <<>>
        /\ h # <<>> /\ Parsed(h).out = "code" => Parsed(h).code = answers[n].code
    <3>1. \A i \in 1..Len(h) : i <= Len(r) => h[i] = r[i]
      <4>1. \A i \in 1..Len(h) : 0 + i <= Len(r) => h[i] = r[0 + i]
        BY <2>2 DEF OnWay
      <4>2. \A i \in 1..Len(h) : 0 + i = i
        BY <2>2
      <4> QED
        BY <4>1, <4>2
    <3> QED
      BY <2>2, <2>5, <3>1, RespHeard
  <2>7. CASE IsText(h)
    <3>1. calls'[n].at = "settled" /\ Len(h) >= Len(r)
      BY <2>4, <2>6, <2>7
    <3>2. broken \/ ~Serving \/ (R >= n /\ (N = n => R = n /\ spc = "receive"))
      <4> SUFFICES ASSUME ~broken, Serving PROVE R >= n /\ (N = n => R = n /\ spc = "receive")
        OBVIOUS
      <4>1. R >= n
        BY <1>4, <2>2
      <4> SUFFICES ASSUME N = n PROVE R = n /\ spc = "receive"
        BY <4>1
      <4>2. R = n
        BY <1>3, <1>4, <4>1 DEF UpInv
      <4>3. A = n
        BY <1>3, <4>2 DEF AnswersInv
      <4>4. spc # "respond"
        BY <2>2, <4>3 DEF Replied
      <4> QED
        BY <4>2, <4>4 DEF Serving
    <3>3. UpInv(n)'
      BY <1>1, <3>1, <3>2, UpKept
    <3>4. N = n => rest = <<>>
      <4>1. N = n => Len(rest) = 0
        BY <2>2, <3>1
      <4> QED
        BY <2>2, <4>1, EmptySeq
    <3>5. DownInv(n)'
      BY <1>1, <1>2, <2>3, <3>1, <3>4 DEF DownInv
    <3>6. CodesInv(n)'
      <4>1. \A j \in 1..n : calls'[j].out = "code" =>
              \/ /\ calls[j].out = "code" /\ calls'[j].code = calls[j].code
                 /\ calls'[j].heard = calls[j].heard
              \/ calls'[j].heard # <<>> /\ j <= R /\ calls'[j].code = answers[j].code
        <5>1. calls'[n].out = "code" =>
                calls'[n].heard # <<>> /\ n <= R /\ calls'[n].code = answers[n].code
          BY <2>2, <2>4, <2>6, <2>7
        <5> QED
          BY <1>8, <5>1
      <4> QED
        BY <1>1, <4>1, CodesKept
    <3> QED
      BY <1>1, <1>7, <3>3, <3>5, <3>6, ServerAsBefore DEF StateInv
  <2>8. CASE ~IsText(h)
    <3>1. /\ calls'[n].at = "waiting" /\ calls'[n].heard = h
          /\ calls'[n].out = calls[n].out /\ calls'[n].code = calls[n].code
          /\ calls'[n].sent = calls[n].sent
      <4>1. calls[n] \in Calling
        BY <2>1, CallIs
      <4>2. calls'[n] = [calls[n] EXCEPT !.heard = h] /\ h \in Seq(RespTokens)
        BY <2>2, <2>4, <2>8
      <4>3. /\ calls'[n].heard = h /\ calls'[n].at = calls[n].at
            /\ calls'[n].out = calls[n].out /\ calls'[n].code = calls[n].code
            /\ calls'[n].sent = calls[n].sent
        BY <4>1, <4>2, HeardMore
      <4> QED
        BY <1>10, <4>3
    <3>2. UpInv(n)'
      BY <1>1, <1>10, <3>1, UpKept
    <3>3. DownInv(n)'
      <4>1. Replied(n)' /\ RespOf(n)' = r
        BY <1>2, <2>2 DEF Replied, RespOf, r
      <4>2. NextResponse(n)'
        BY <1>1, <1>2, <2>2, <2>3, <3>1, <4>1 DEF NextResponse
      <4> QED
        BY <1>2, <1>4, <1>10, <3>1, <4>1, <4>2 DEF DownInv
    <3>4. CodesInv(n)'
      <4>1. \A j \in 1..n : calls'[j].out = "code" =>
              /\ calls[j].out = "code" /\ calls'[j].code = calls[j].code
              /\ calls'[j].heard = calls[j].heard
        <5>1. calls'[n].out # "code"
          BY <1>10, <2>1, <3>1 DEF CallsInv
        <5> QED
          BY <1>8, <5>1
      <4> QED
        BY <1>1, <4>1, CodesKept
    <3> QED
      BY <1>1, <1>7, <3>2, <3>3, <3>4, ServerAsBefore DEF StateInv
  <2> QED
    BY <2>7, <2>8
<1> QED
  BY <1>4, <1>9, <1>10

LEMMA EndStep ==
  ASSUME TypeInv, CallsInv, NEW n \in 0..N, StateInv(n), ClientEnd
  PROVE  CallsInv' /\ StateInv(n)'
<1>1. /\ ~cOver /\ cOver' = TRUE /\ down = <<>>
      /\ spc \in {"closed", "crashed"} \/ broken
      /\ UNCHANGED <<up, down, cuts, broken, flowing, serverVars>>
      /\ SameCalls
      /\ \A k \in 1..N : calls[k].at # "waiting" => calls'[k] = calls[k]
      /\ \A k \in 1..N : calls[k].at = "waiting" =>
           /\ calls'[k].at = "settled" /\ calls'[k].heard = calls[k].heard
           /\ calls'[k].out = Parsed(calls[k].heard).out
           /\ calls'[k].code = Parsed(calls[k].heard).code
  BY ClientEndIs
<1>2. (Serving' <=> Serving) /\ (broken \/ ~Serving)
  BY <1>1 DEF serverVars, Serving
<1>3. Turns(n) /\ DownInv(n)
  BY DEF StateInv
<1>4. N \in Nat /\ n \in Nat /\ n <= N /\ R \in Nat /\ (n > 0 => n \in 1..N)
  BY Sizes
<1>5. CallsInv'
  <2>1. \A j \in 1..N : calls[j].at = "settled" => calls'[j].at = "settled"
    BY <1>1
  <2>2. \A j \in 1..N : calls'[j].at = "sending" =>
          calls'[j].sent < Len(TextOf(j)) /\ calls'[j].heard = <<>>
    BY <1>1 DEF CallsInv
  <2>3. cOver' => (broken' \/ ~Serving') /\ down' = <<>>
    BY <1>1, <1>2
  <2>4. \A j \in 1..N : calls'[j].out = "code" => calls'[j].at = "settled"
    BY <1>1 DEF CallsInv
  <2> QED
    BY <1>1, <2>1, <2>2, <2>3, <2>4, CallsKept
<1>6. UpInv(n)'
  BY <1>1, <1>2, <1>4, UpKept
<1>7. DownInv(n)'
  BY <1>1, <1>4 DEF DownInv
<1>8. CodesInv(n)'
  <2>1. \A j \in 1..n : j # n => calls'[j] = calls[j]
    <3>1. \A j \in 1..n : j # n => j \in 1..N /\ calls[j].at = "settled"
      BY <1>3, TurnFacts
    <3> QED
      BY <1>1, <3>1
  <2>2. ASSUME n > 0, calls[n].at = "waiting", calls'[n].out = "code"
        PROVE  \/ /\ calls'[n].heard = <<>> /\ calls'[n].code = ERROR
                  /\ broken \/ n > R
               \/ calls'[n].heard # <<>> /\ n <= R /\ calls'[n].code = answers[n].code
    <3> DEFINE h == calls[n].heard
    <3>1. /\ calls'[n].out = Parsed(h).out /\ calls'[n].code = Parsed(h).code
          /\ calls'[n].heard = h
      BY <1>1, <1>4, <2>2
    <3>2. h \in Seq(RespTokens)
      BY <1>4, <2>2, CallIs
    <3>3. h = <<>> => Parsed(h).code = ERROR
      BY DEF Parsed
    <3>4. CASE ~Replied(n)
      <4>1. h = <<>>
        BY <1>3, <2>2, <3>4 DEF DownInv
      <4>2. broken \/ n > R
        BY <1>2, <1>4, <3>4 DEF Replied, Serving
      <4> QED
        BY <3>1, <3>3, <4>1, <4>2
    <3>5. CASE Replied(n) /\ h = <<>>
      <4>1. ~broken => Len(h) + Len(down) >= Len(RespOf(n))
        BY <1>3, <2>2, <3>5 DEF DownInv, NextResponse
      <4>2. n \in 1..R /\ n \in 1..A
        BY <1>4, <2>2, <3>5, AnswerOf DEF Replied
      <4>3. Len(RespOf(n)) \in Nat /\ Len(RespOf(n)) > 0
        <5>1. answers[n].code \in Seq(Digits) /\ RespOf(n) = SerializeResponse(answers[n].code)
          BY <4>2, AnswerIs DEF RespOf
        <5> DEFINE c == answers[n].code
        <5>2. c \in Seq(Digits)
          BY <5>1
        <5> HIDE DEF c
        <5>3. Len(SerializeResponse(c)) = Len(c) + 4 /\ Len(c) \in Nat
          BY <5>2, ResponseLayout
        <5>4. Len(SerializeResponse(c)) \in Nat /\ Len(SerializeResponse(c)) > 0
          BY <5>3
        <5> QED
          BY <5>1, <5>4 DEF c
      <4>4. Len(h) = 0 /\ Len(down) = 0
        BY <1>1, <3>5
      <4>5. broken
        BY <4>1, <4>3, <4>4
      <4> QED
        BY <3>1, <3>5, <3>3, <4>5
    <3>6. CASE Replied(n) /\ h # <<>>
      <4>1. n \in 1..R /\ n \in 1..A
        BY <1>4, <2>2, <3>6, AnswerOf DEF Replied
      <4>2. answers[n].code \in Seq(Digits) /\ RespOf(n) = SerializeResponse(answers[n].code)
        BY <4>1, AnswerIs DEF RespOf
      <4>3. OnWay(h, 0, RespOf(n))
        BY <1>3, <2>2, <3>6 DEF DownInv, NextResponse
      <4> HIDE DEF h
      <4>4. \A i \in 1..Len(h) : i <= Len(RespOf(n)) => h[i] = RespOf(n)[i]
        <5>1. \A i \in 1..Len(h) : 0 + i <= Len(RespOf(n)) => h[i] = RespOf(n)[0 + i]
          BY <4>3 DEF OnWay
        <5>2. \A i \in 1..Len(h) : 0 + i = i
          OBVIOUS
        <5> QED
          BY <5>1, <5>2
      <4>5. Parsed(h).out = "code" => Parsed(h).code = answers[n].code
        BY <3>2, <3>6, <4>2, <4>4, RespHeard
      <4> QED
        BY <1>4, <2>2, <3>1, <3>6, <4>1, <4>5
    <3> QED
      BY <3>4, <3>5, <3>6
  <2>3. \A j \in 1..n : calls'[j].out = "code" =>
          \/ /\ calls[j].out = "code" /\ calls'[j].code = calls[j].code
             /\ calls'[j].heard = calls[j].heard
          \/ /\ calls'[j].heard = <<>> /\ calls'[j].code = ERROR
             /\ cOver' /\ (broken' \/ j > R)
          \/ calls'[j].heard # <<>> /\ j <= R /\ calls'[j].code = answers[j].code
    BY <1>1, <1>4, <2>1, <2>2
  <2> QED
    BY <1>1, <2>3, CodesKept
<1> QED
  BY <1>1, <1>5, <1>6, <1>7, <1>8, ServerAsBefore DEF StateInv

LEMMA ErrorStep ==
  ASSUME TypeInv, CallsInv, NEW n \in 0..N, StateInv(n), ClientError
  PROVE  CallsInv' /\ StateInv(n)'
<1>1. /\ broken \/ cOver
      /\ cOver' = TRUE /\ down' = <<>>
      /\ UNCHANGED <<up, cuts, broken, flowing, serverVars>>
      /\ SameCalls
      /\ \A k \in 1..N : calls[k].at # "waiting" => calls'[k] = calls[k]
      /\ \A k \in 1..N : calls[k].at = "waiting" =>
           calls'[k].at = "settled" /\ calls'[k].out = "error"
  BY ClientErrorIs
<1>2. N \in Nat /\ n \in Nat /\ n <= N /\ (n > 0 => n \in 1..N)
  BY Sizes
<1>3. CallsInv'
  <2>1. \A j \in 1..N : calls[j].at = "settled" => calls'[j].at = "settled"
    BY <1>1
  <2>2. \A j \in 1..N : calls'[j].at = "sending" =>
          calls'[j].sent < Len(TextOf(j)) /\ calls'[j].heard = <<>>
    BY <1>1 DEF CallsInv
  <2>3. cOver' => (broken' \/ ~Serving') /\ down' = <<>>
    BY <1>1 DEF CallsInv, serverVars, Serving
  <2>4. \A j \in 1..N : calls'[j].out = "code" => calls'[j].at = "settled"
    BY <1>1 DEF CallsInv
  <2> QED
    BY <1>1, <2>1, <2>2, <2>3, <2>4, CallsKept
<1>4. UpInv(n)'
  <2>1. broken \/ ~Serving
    BY <1>1 DEF CallsInv
  <2> QED
    BY <1>1, <1>2, <2>1, UpKept
<1>5. DownInv(n)'
  BY <1>1, <1>2 DEF DownInv
<1>6. CodesInv(n)'
  <2>1. \A j \in 1..n : j \in 1..N
    BY <1>2
  <2>2. \A j \in 1..n : calls'[j].out = "code" =>
          /\ calls[j].out = "code" /\ calls'[j].code = calls[j].code
          /\ calls'[j].heard = calls[j].heard
    BY <1>1, <2>1
  <2> QED
    BY <1>1, <2>2, CodesKept
<1> QED
  BY <1>1, <1>3, <1>4, <1>5, <1>6, ServerAsBefore DEF StateInv

\* What holds of a new call, whether it is made in turn or not.
LEMMA CallAdded ==
  ASSUME TypeInv, CallsInv, NEW n \in 0..N, StateInv(n), NEW m \in Messages, Call(m),
         NEW new, new = N + 1
  PROVE  /\ CallsInv' /\ N' = new
         /\ \A k \in 1..N : calls'[k] = calls[k] /\ (InTurn(k)' <=> InTurn(k))
                            /\ TextOf(k)' = TextOf(k)
         /\ InTurn(new)' => N = n /\ (n = 0 \/ calls[n].at = "settled")
<1> DEFINE c == calls'[new]
<1>1. /\ calls' \in Seq(Calling) /\ N' = new
      /\ \A j \in 1..N : calls'[j] = calls[j]
      /\ c.msg = m /\ c.sent = 0 /\ c.heard = <<>>
      /\ c.at = IF cOver THEN "settled" ELSE "sending"
      /\ c.alone <=> \A j \in 1..N : calls[j].alone /\ calls[j].at = "settled"
      /\ c.out # "code"
      /\ UNCHANGED <<down, broken, cOver, serverVars>>
  BY CallMade
<1>2. N \in Nat /\ new = N + 1 /\ n \in Nat /\ n <= N /\ DOMAIN calls = 1..N /\ DOMAIN calls' = 1..new
  <2>1. DOMAIN calls = 1..N /\ DOMAIN calls' = 1..N'
    BY <1>1, LenProperties DEF N, TypeInv
  <2> QED
    BY <1>1, <2>1, Sizes
<1>3. Serving' <=> Serving
  BY <1>1 DEF serverVars, Serving
<1>4. TextOf(new)' = Serialize(m) /\ Len(Serialize(m)) > 0
  <2>1. m \in Sent
    BY MessagesAssumption
  <2> DEFINE b == Body(m)
             z == Blank
  <2>2. Serialize(m) = Join(b, z)
    BY <2>1, SerializeIs DEF Join
  <2>3. b \in Seq(Tokens) /\ z \in Seq(Tokens) /\ Len(z) = 2
    BY <2>1, FieldsAre, MarksAre DEF Text, Blank
  <2> HIDE DEF b, z
  <2>4. Len(Join(b, z)) = Len(b) + Len(z) /\ Len(b) \in Nat
    BY <2>3, JoinIs
  <2> DEFINE l == Len(b)
             k == Len(Serialize(m))
  <2>5. k = l + 2 /\ l \in Nat
    BY <2>2, <2>3, <2>4
  <2> HIDE DEF l, k
  <2>6. k > 0
    BY <2>5
  <2> QED
    BY <1>1, <2>6 DEF TextOf, c, k
<1> HIDE DEF c
<1>5. \A k \in 1..N : k \in 1..new /\ k # new /\ TextOf(k)' = TextOf(k)
  BY <1>1, <1>2 DEF TextOf
<1>6. CallsInv'
  <2>1. cOver' => (broken' \/ ~Serving') /\ down' = <<>>
    BY <1>1, <1>3 DEF CallsInv
  <2>2. ASSUME NEW k \in 1..new, calls'[k].alone, NEW j \in 1..(k - 1)
        PROVE  calls'[j].alone /\ calls'[j].at = "settled"
    <3>1. j \in 1..N
      BY <1>2
    <3>2. CASE k = new
      <4>1. c.alone
        BY <2>2, <3>2 DEF c
      <4> QED
        BY <1>1, <3>1, <4>1
    <3>3. CASE k # new
      <4>1. k \in 1..N
        BY <1>2, <3>3
      <4>2. calls[k].alone
        BY <1>1, <2>2, <4>1
      <4>3. calls[j].alone /\ calls[j].at = "settled"
        BY <2>2, <4>1, <4>2 DEF CallsInv
      <4> QED
        BY <1>1, <3>1, <4>3
    <3> QED
      BY <3>2, <3>3
  <2>3. ASSUME NEW k \in 1..new, calls'[k].at = "sending"
        PROVE  calls'[k].sent < Len(TextOf(k)') /\ calls'[k].heard = <<>>
    <3>1. CASE k = new
      BY <1>1, <1>4, <3>1 DEF c
    <3>2. CASE k # new
      <4>1. k \in 1..N
        BY <1>2, <3>2
      <4> QED
        BY <1>1, <1>5, <2>3, <4>1 DEF CallsInv
    <3> QED
      BY <3>1, <3>2
  <2>4. ASSUME NEW k \in 1..new, calls'[k].out = "code" PROVE calls'[k].at = "settled"
    <3>1. k # new
      BY <1>1, <2>4 DEF c
    <3>2. k \in 1..N
      BY <1>2, <3>1
    <3> QED
      BY <1>1, <2>4, <3>2 DEF CallsInv
  <2> QED
    BY <1>1, <2>1, <2>2, <2>3, <2>4 DEF CallsInv
<1>7. ASSUME NEW k \in 1..N PROVE InTurn(k)' <=> InTurn(k)
  <2>1. \A j \in 1..new : j <= k => j \in 1..N /\ calls'[j].msg = calls[j].msg
    BY <1>1, <1>2
  <2>2. PlainUpTo(k)' <=> PlainUpTo(k)
    BY <1>2, <1>5, <2>1 DEF PlainUpTo
  <2> QED
    BY <1>1, <2>2 DEF InTurn
<1>8. ASSUME InTurn(new)' PROVE N = n /\ (n = 0 \/ calls[n].at = "settled")
  <2>1. \A j \in 1..N : calls[j].alone /\ calls[j].at = "settled"
    BY <1>1, <1>8 DEF InTurn, c
  <2>2. CASE N = 0
    BY <1>2, <2>2
  <2>3. CASE N # 0
    <3>1. N \in 1..N
      BY <1>2, <2>3
    <3>2. \A j \in 1..new : j <= new => Plain(calls'[j].msg)
      BY <1>2, <1>8 DEF InTurn, PlainUpTo
    <3>3. \A j \in 1..N : j <= new /\ Plain(calls[j].msg)
      BY <1>1, <1>2, <1>5, <3>2
    <3>4. InTurn(N)
      BY <1>2, <2>1, <3>1, <3>3 DEF InTurn, PlainUpTo
    <3>5. N <= n
      BY <3>1, <3>4 DEF StateInv, Turns
    <3> QED
      BY <1>2, <2>1, <3>1, <3>5
  <2> QED
    BY <2>2, <2>3
<1> QED
  BY <1>1, <1>5, <1>6, <1>7, <1>8

\* A call that is not made in turn changes nothing for those that were.
LEMMA CallBehind ==
  ASSUME TypeInv, CallsInv, NEW n \in 0..N, StateInv(n), NEW m \in Messages, Call(m),
         NEW new, new = N + 1, ~InTurn(new)'
  PROVE  CallsInv' /\ StateInv(n)'
<1>1. /\ CallsInv' /\ N' = new
      /\ \A k \in 1..N : calls'[k] = calls[k] /\ (InTurn(k)' <=> InTurn(k))
                         /\ TextOf(k)' = TextOf(k)
  BY CallAdded
<1>2. UNCHANGED <<up, down, broken, cOver, serverVars>>
  BY CallMade
<1>3. /\ UNCHANGED <<spc, sHeard, sAfter, received, answers, cutChar>>
      /\ R' = R /\ A' = A /\ (Serving' <=> Serving)
  BY <1>2 DEF serverVars, R, A, Serving
<1>4. /\ N \in Nat /\ n \in Nat /\ n <= N /\ R \in Nat /\ A \in Nat /\ new = N + 1
      /\ n < new /\ (n > 0 => n \in 1..N)
  BY Sizes
<1>5. Turns(n) /\ AnswersInv(n) /\ ServedInv(n) /\ UpInv(n) /\ DownInv(n) /\ CodesInv(n)
  BY DEF StateInv
<1>6. Turns(n)'
  <2>1. ASSUME NEW k \in 1..new PROVE InTurn(k)' <=> k <= n
    <3>1. CASE k = new
      BY <1>4, <3>1
    <3>2. CASE k # new
      <4>1. k \in 1..N
        BY <1>4, <3>2
      <4> QED
        BY <1>1, <1>5, <4>1 DEF Turns
    <3> QED
      BY <3>1, <3>2
  <2> QED
    BY <1>1, <1>4, <2>1 DEF Turns
<1>7. AnswersInv(n)'
  BY <1>1, <1>2, <1>3, <1>4, <1>5 DEF AnswersInv, Verdicts
<1>8. ServedInv(n)'
  <2>1. \A i \in 1..R : i <= n => calls'[i] = calls[i]
    BY <1>1, <1>4
  <2> QED
    BY <1>3, <1>5, <2>1 DEF ServedInv
<1>9. UpInv(n)'
  <2>1. ASSUME R < n, spc = "receive" PROVE NextText(n)'
    <3>1. NextText(n) /\ R + 1 \in 1..N /\ n \in 1..N
      BY <1>4, <1>5, <2>1 DEF UpInv
    <3>2. TextOf(R + 1)' = TextOf(R + 1) /\ TextOf(n)' = TextOf(n) /\ calls'[n] = calls[n]
      BY <1>1, <1>3, <3>1 DEF TextOf
    <3>3. /\ HeardOf(TextOf(R + 1))' /\ OnWay(up, Len(sHeard), TextOf(R + 1))'
          /\ (Len(sHeard) + Len(up) > Len(TextOf(R + 1)) => N > n /\ R + 1 = n)'
      BY <1>1, <1>2, <1>3, <1>4, <3>1, <3>2 DEF NextText, HeardOf, OnWay, Near
    <3>4. (~broken => /\ R + 1 = n /\ calls[n].at # "settled"
                      /\ calls[n].at = "sending" => Len(sHeard) + Len(up) = calls[n].sent
                      /\ calls[n].at = "waiting" => Len(sHeard) + Len(up) >= Len(TextOf(n)))'
      BY <1>2, <1>3, <3>1, <3>2 DEF NextText
    <3> QED
      BY <3>3, <3>4 DEF NextText
  <2> QED
    BY <1>1, <1>2, <1>3, <1>4, <1>5, <2>1 DEF UpInv
<1>10. DownInv(n)'
  <2>1. Replied(n)' <=> Replied(n)
    BY <1>3 DEF Replied
  <2>2. n > 0 => calls'[n] = calls[n] /\ RespOf(n)' = RespOf(n)
    BY <1>1, <1>3, <1>4 DEF RespOf
  <2>3. ASSUME n > 0, NextResponse(n) PROVE NextResponse(n)'
    <3>1. calls'[n] = calls[n] /\ RespOf(n)' = RespOf(n) /\ down' = down /\ broken' = broken
      BY <1>2, <2>2, <2>3
    <3>2. OnWay(calls[n].heard, 0, RespOf(n))' /\ OnWay(down, Len(calls[n].heard), RespOf(n))'
      BY <2>3, <3>1 DEF NextResponse, OnWay
    <3>3. N' # n
      BY <1>1, <1>4
    <3>4. ~broken' => Len(calls'[n].heard) + Len(down') >= Len(RespOf(n)')
      BY <2>3, <3>1 DEF NextResponse
    <3> QED
      BY <3>2, <3>3, <3>4 DEF NextResponse
  <2> QED
    BY <1>1, <1>2, <1>4, <1>5, <2>1, <2>2, <2>3 DEF DownInv
<1>11. CodesInv(n)'
  <2>1. \A k \in 1..n : calls'[k] = calls[k]
    BY <1>1, <1>4
  <2> QED
    BY <1>2, <1>3, <1>5, <2>1 DEF CodesInv
<1> QED
  BY <1>1, <1>6, <1>7, <1>8, <1>9, <1>10, <1>11 DEF StateInv

\* One that is made in turn finds everything before it done with.
LEMMA CallInTurn ==
  ASSUME TypeInv, CallsInv, NEW n \in 0..N, StateInv(n), NEW m \in Messages, Call(m),
         NEW new, new = N + 1, InTurn(new)'
  PROVE  CallsInv' /\ StateInv(new)'
<1>1. /\ CallsInv' /\ N' = new
      /\ \A k \in 1..N : calls'[k] = calls[k] /\ (InTurn(k)' <=> InTurn(k))
                         /\ TextOf(k)' = TextOf(k)
      /\ N = n /\ (n = 0 \/ calls[n].at = "settled")
  BY CallAdded
<1>2. /\ UNCHANGED <<up, down, broken, cOver, serverVars>>
      /\ calls'[new].sent = 0 /\ calls'[new].heard = <<>> /\ calls'[new].out # "code"
      /\ calls'[new].at = IF cOver THEN "settled" ELSE "sending"
  BY CallMade
<1>3. /\ UNCHANGED <<spc, sHeard, sAfter, received, answers, cutChar>>
      /\ R' = R /\ A' = A /\ (Serving' <=> Serving)
  BY <1>2 DEF serverVars, R, A, Serving
<1>4. /\ N \in Nat /\ n \in Nat /\ R \in Nat /\ A \in Nat /\ new = n + 1
      /\ (n > 0 => n \in 1..N)
  BY <1>1, Sizes
<1>5. Turns(n) /\ AnswersInv(n) /\ ServedInv(n) /\ UpInv(n) /\ DownInv(n) /\ CodesInv(n)
  BY DEF StateInv
<1>6. R <= n
  BY <1>1, <1>4, <1>5 DEF UpInv
<1>7. cOver => broken \/ ~Serving
  BY DEF CallsInv
<1>8. Turns(new)'
  <2>1. ASSUME NEW k \in 1..new PROVE InTurn(k)' <=> k <= new
    <3>1. CASE k = new
      BY <1>4, <3>1
    <3>2. CASE k # new
      <4>1. k \in 1..N /\ k <= n
        BY <1>1, <1>4, <3>2
      <4> QED
        BY <1>1, <1>4, <1>5, <4>1 DEF Turns
    <3> QED
      BY <3>1, <3>2
  <2> QED
    BY <1>1, <1>4, <2>1 DEF Turns
<1>9. AnswersInv(new)'
  <2>1. A = R + 1 /\ A # R => broken
    BY <1>1, <1>4, <1>5 DEF AnswersInv
  <2>2. AnswersInv(n) /\ (A = R + 1 /\ A # R => broken)
    BY <1>5, <2>1
  <2>3. A \in Nat /\ R \in Nat /\ (A = R + 1 => A # R)
    BY <1>4
  <2> QED
    BY <1>2, <1>3, <2>2, <2>3 DEF AnswersInv, Verdicts
<1>10. ServedInv(new)'
  <2>1. \A i \in 1..R : i <= n /\ calls'[i] = calls[i]
    BY <1>1, <1>4, <1>6
  <2> QED
    BY <1>3, <1>5, <2>1 DEF ServedInv
<1>11. UpInv(new)'
  <2>1. ASSUME spc = "respond" PROVE broken /\ sHeard = <<>> /\ up = <<>>
    <3>1. Serving
      BY <2>1 DEF Serving
    <3> QED
      BY <1>1, <1>4, <1>5, <1>6, <2>1, <3>1 DEF UpInv
  <2>2. ASSUME spc = "receive" PROVE NextText(new)'
    <3>1. Serving
      BY <2>2 DEF Serving
    <3>2. CASE R = n
      <4>1. sHeard = <<>> /\ up = <<>> /\ (~broken => ~cOver)
        BY <1>1, <1>5, <1>7, <3>1, <3>2 DEF UpInv
      <4>2. sHeard' = <<>> /\ up' = <<>> /\ Len(sHeard') = 0 /\ Len(up') = 0
        BY <1>2, <1>3, <4>1
      <4>3. HeardOf(TextOf(R + 1))' /\ OnWay(up, Len(sHeard), TextOf(R + 1))'
        BY <4>2 DEF HeardOf, OnWay
      <4>4. TextOf(R + 1)' = TextOf(new)' /\ R' + 1 = new
        BY <1>3, <1>4, <3>2
      <4>5. Len(TextOf(new)') \in Nat
        <5>1. new \in 1..N' /\ N' = new
          BY <1>1, <1>4
        <5>2. calls'[new].msg = m /\ m \in Sent
          BY CallMade, MessagesAssumption
        <5>3. TextOf(new)' \in Text
          BY <5>2, SerializeIs DEF TextOf
        <5> QED
          BY <5>3, LenProperties DEF Text
      <4>6. ~(Len(sHeard') + Len(up') > Len(TextOf(R + 1)'))
        BY <4>2, <4>4, <4>5
      <4>7. broken' \/ /\ R' + 1 = new /\ calls'[new].at = "sending"
                       /\ Len(sHeard') + Len(up') = calls'[new].sent
        BY <1>2, <4>1, <4>2, <4>4
      <4> QED
        BY <4>3, <4>6, <4>7 DEF NextText
    <3>3. CASE R # n
      <4>1. R < n /\ NextText(n) /\ R + 1 \in 1..N /\ n \in 1..N
        BY <1>1, <1>4, <1>5, <1>6, <2>2, <3>3 DEF UpInv
      <4>2. TextOf(R + 1)' = TextOf(R + 1)
        BY <1>1, <1>3, <4>1 DEF TextOf
      <4>3. /\ HeardOf(TextOf(R + 1))' /\ OnWay(up, Len(sHeard), TextOf(R + 1))'
        BY <1>2, <1>3, <4>1, <4>2 DEF NextText, HeardOf, OnWay, Near
      <4>4. ~(Len(sHeard') + Len(up') > Len(TextOf(R + 1)'))
        BY <1>1, <1>2, <1>3, <1>4, <4>1, <4>2 DEF NextText
      <4>5. broken'
        BY <1>1, <1>2, <4>1 DEF NextText
      <4> QED
        BY <4>3, <4>4, <4>5 DEF NextText
    <3> QED
      BY <3>2, <3>3
  <2>3. R' < new
    BY <1>3, <1>4, <1>6
  <2>4. sHeard' = <<>> \/ Last(sHeard') # "hi"
    BY <1>3, <1>5 DEF UpInv
  <2>5. ~broken' /\ Serving' => calls'[new].at # "settled"
    BY <1>2, <1>3, <1>7
  <2>6. new > 0 /\ new \in Nat /\ R' \in Nat
    BY <1>3, <1>4
  <2> QED
    BY <1>2, <1>3, <2>1, <2>2, <2>3, <2>4, <2>5, <2>6 DEF UpInv
<1>12. DownInv(new)'
  <2>1. ~cOver => down = <<>>
    BY <1>1, <1>5 DEF DownInv
  <2>2. new > 0
    BY <1>4
  <2> QED
    BY <1>2, <2>1, <2>2 DEF DownInv
<1>13. CodesInv(new)'
  <2>1. ASSUME NEW k \in 1..new, calls'[k].out = "code"
        PROVE  IF calls'[k].heard = <<>>
                 THEN calls'[k].code = ERROR /\ cOver' /\ (broken' \/ k > R')
                 ELSE k <= R' /\ calls'[k].code = answers'[k].code
    <3>1. k # new
      BY <1>2, <2>1
    <3>2. k \in 1..n /\ calls'[k] = calls[k]
      BY <1>1, <1>4, <3>1
    <3> QED
      BY <1>2, <1>3, <1>5, <2>1, <3>2 DEF CodesInv
  <2> QED
    BY <2>1 DEF CodesInv
<1> QED
  BY <1>1, <1>8, <1>9, <1>10, <1>11, <1>12, <1>13 DEF StateInv

LEMMA CallStep ==
  ASSUME TypeInv, CallsInv, NEW n \in 0..N, StateInv(n), NEW m \in Messages, Call(m)
  PROVE  CallsInv' /\ \E p \in 0..N' : StateInv(p)'
<1>1. PICK new : new = N + 1
  OBVIOUS
<1>2. N' = new /\ N \in Nat /\ n \in Nat /\ n \in 0..new /\ new \in 0..new
  BY <1>1, CallAdded, Sizes
<1>3. CASE InTurn(new)'
  <2>1. CallsInv' /\ StateInv(new)'
    BY <1>1, <1>3, CallInTurn
  <2> QED
    BY <1>2, <2>1
<1>4. CASE ~InTurn(new)'
  <2>1. CallsInv' /\ StateInv(n)'
    BY <1>1, <1>4, CallBehind
  <2> QED
    BY <1>2, <2>1
<1> QED
  BY <1>3, <1>4

\* What the proofs of the server's steps need of the client.
LEMMA ClientAsBefore ==
  ASSUME TypeInv, CallsInv, NEW n \in 0..N, StateInv(n), UNCHANGED <<calls, cOver>>,
         broken => broken', Serving' => Serving, cOver => down' = <<>>
  PROVE  /\ CallsInv' /\ Turns(n)' /\ N' = N
         /\ \A k \in 1..N : TextOf(k)' = TextOf(k)
<1>1. N' = N /\ \A k \in 1..N : TextOf(k)' = TextOf(k)
  BY DEF N, TextOf
<1>2. CallsInv'
  BY <1>1 DEF CallsInv
<1>3. Turns(n)'
  BY <1>1 DEF StateInv, Turns, InTurn, PlainUpTo
<1> QED
  BY <1>1, <1>2, <1>3

\* Nothing the invariant speaks of changed.
LEMMA Untouched ==
  ASSUME TypeInv, CallsInv, NEW n \in 0..N, StateInv(n),
         UNCHANGED <<up, down, broken, calls, cOver, spc, sHeard, sAfter, received,
                     answers, cutChar>>
  PROVE  CallsInv' /\ StateInv(n)'
<1>1. /\ R' = R /\ A' = A /\ N' = N /\ (Serving' <=> Serving)
  BY DEF R, A, N, Serving
<1>2. CallsInv' /\ Turns(n)'
  <2>1. cOver => down' = <<>>
    BY DEF CallsInv
  <2> QED
    BY <1>1, <2>1, ClientAsBefore
<1>3. AnswersInv(n)' /\ ServedInv(n)'
  BY <1>1 DEF StateInv, AnswersInv, ServedInv, Verdicts
<1>4. NextText(n)' <=> NextText(n)
  BY <1>1 DEF NextText, HeardOf, OnWay, TextOf
<1>5. UpInv(n)'
  BY <1>1, <1>4 DEF StateInv, UpInv
<1>6. /\ NextResponse(n)' <=> NextResponse(n)
      /\ Replied(n)' <=> Replied(n)
  BY <1>1 DEF NextResponse, Replied, OnWay, RespOf
<1>7. DownInv(n)'
  BY <1>1, <1>6 DEF StateInv, DownInv
<1>8. CodesInv(n)'
  BY <1>1 DEF StateInv, CodesInv
<1> QED
  BY <1>2, <1>3, <1>5, <1>7, <1>8 DEF StateInv

\* The text the server waits for, and what of it one more chunk makes.
LEMMA HeardNext ==
  ASSUME TypeInv, CallsInv, NEW n \in 0..N, StateInv(n), NEW chunk \in Chunks(up),
         chunk \in Text
  PROVE  LET heard == Join(sHeard, Decode(chunk))
             rest == Rest(up, chunk)
             t == TextOf(R + 1)
         IN /\ heard \in Text /\ rest \in Text /\ heard # <<>> /\ Last(heard) # "hi"
            /\ Len(heard) \in Nat /\ Len(rest) \in Nat
            /\ Len(heard) + Len(rest) = Len(sHeard) + Len(up)
            /\ R < n /\ spc = "receive" =>
                 /\ \A i \in 1..Len(heard) : i <= Len(t) =>
                      \/ heard[i] = t[i]
                      \/ (cutChar \/ Last(chunk) = "hi") /\ Near(heard[i], t[i])
                 /\ OnWay(rest, Len(heard), t)
<1> DEFINE dec == Decode(chunk)
           heard == Join(sHeard, dec)
           rest == Rest(up, chunk)
           o == Len(sHeard)
           k == Len(chunk)
<1>1. up \in Seq(Tokens) /\ sHeard \in Seq(Tokens) /\ sHeard \in Text /\ up \in Text
  BY DEF TypeInv, Text
<1>2. /\ chunk # <<>> /\ k \in 1..Len(up) /\ Len(up) \in Nat
      /\ rest \in Seq(Tokens) /\ Len(rest) = Len(up) - k
  BY <1>1, ChunkIs, LenProperties
<1>3. /\ dec \in Text /\ Len(dec) = k /\ \A i \in 1..k : Near(dec[i], chunk[i])
      /\ dec = <<>> \/ Last(dec) # "hi"
  BY Decoded
<1> HIDE DEF dec
<1>4. /\ heard \in Seq(Tokens) /\ Len(heard) = o + k /\ o \in Nat
      /\ \A i \in 1..o : heard[i] = sHeard[i]
  <2>1. dec \in Seq(Tokens)
    BY <1>3 DEF Text
  <2>2. /\ Join(sHeard, dec) \in Seq(Tokens)
        /\ Len(Join(sHeard, dec)) = Len(sHeard) + Len(dec) /\ Len(sHeard) \in Nat
        /\ \A i \in 1..Len(sHeard) : Join(sHeard, dec)[i] = sHeard[i]
    BY <1>1, <2>1, JoinIs
  <2> QED
    BY <1>3, <2>2
<1>5. \A i \in 1..k : heard[o + i] = dec[i]
  <2> SUFFICES ASSUME NEW i \in 1..k PROVE heard[o + i] = dec[i]
    OBVIOUS
  <2> QED
    BY <1>1, <1>3, JoinBehind DEF Text
<1> HIDE DEF heard, rest, o
<1>6. k \in Nat /\ k > 0 /\ k \in 1..k
  BY <1>2
<1>7. Last(heard) # "hi" /\ heard # <<>>
  <2>1. dec # <<>>
    BY <1>3, <1>6, EmptySeq DEF Text
  <2>2. dec[k] # "hi"
    BY <1>3, <2>1 DEF Last
  <2>3. heard[o + k] # "hi"
    BY <1>5, <1>6, <2>2
  <2>4. o + k > 0
    BY <1>4, <1>6
  <2>5. Len(heard) # 0
    BY <1>4, <2>4
  <2> QED
    BY <1>4, <2>3, <2>5, EmptySeq DEF Last
<1>8. /\ Len(heard) \in Nat /\ Len(rest) \in Nat
      /\ Len(heard) + Len(rest) = o + Len(up)
  BY <1>2, <1>4, <1>6
<1>9. ASSUME R < n, spc = "receive"
      PROVE  /\ \A i \in 1..Len(heard) : i <= Len(TextOf(R + 1)) =>
                  \/ heard[i] = TextOf(R + 1)[i]
                  \/ (cutChar \/ Last(chunk) = "hi") /\ Near(heard[i], TextOf(R + 1)[i])
             /\ OnWay(rest, Len(heard), TextOf(R + 1))
  <2>1. NextText(n) /\ (sHeard = <<>> \/ Last(sHeard) # "hi")
    BY <1>9 DEF StateInv, UpInv
  <2>2. R + 1 \in 1..N
    BY <1>9, Sizes
  <2> DEFINE t == TextOf(R + 1)
             l == Len(t)
  <2>3. t \in Text /\ Whole(t) /\ l \in Nat
    BY <2>2, CallIs, LenProperties DEF Text
  <2>4. HeardOf(t) /\ OnWay(up, o, t)
    BY <2>1 DEF NextText, o
  <2> HIDE DEF t
  <2>5. OnWay(chunk, o, t) /\ OnWay(Rest(up, chunk), o + Len(chunk), t)
    BY <1>1, <1>4, <2>4, OnWayRest
  <2>6. \A i \in 1..o : i <= l =>
          sHeard[i] = t[i] \/ (cutChar /\ Near(sHeard[i], t[i]))
    BY <2>4 DEF HeardOf, o
  <2>7. \A i \in 1..k : o + i <= l => chunk[i] = t[o + i]
    BY <2>5 DEF OnWay
  <2>8. \A i \in 1..k : o + i <= l => Near(dec[i], t[o + i])
    BY <1>3, <2>7
  <2>9. ASSUME ~cutChar, Last(chunk) # "hi"
        PROVE  \A i \in 1..k : o + i <= l => dec[i] = t[o + i]
    <3>1. o > 0 /\ o < l => t[o] # "hi"
      <4> SUFFICES ASSUME o > 0, o < l PROVE t[o] # "hi"
        OBVIOUS
      <4>1. o \in 1..o /\ o <= l
        BY <1>4, <2>3
      <4>2. sHeard[o] = t[o]
        BY <2>6, <2>9, <4>1
      <4>3. sHeard # <<>>
        <5>1. Len(sHeard) # 0
          BY <1>4 DEF o
        <5> QED
          BY <1>1, <5>1, EmptySeq
      <4>4. sHeard[o] # "hi"
        BY <2>1, <4>3 DEF Last, o
      <4> QED
        BY <4>2, <4>4
    <3>2. \A i \in 1..Len(chunk) : o + i <= Len(t) => Decode(chunk)[i] = t[o + i]
      BY <1>2, <1>4, <2>3, <2>7, <2>9, <3>1, DecodeExact
    <3> QED
      BY <3>2 DEF dec
  <2>10. ASSUME NEW i \in 1..(o + k), i <= l
         PROVE  \/ heard[i] = t[i]
                \/ (cutChar \/ Last(chunk) = "hi") /\ Near(heard[i], t[i])
    <3> HIDE DEF l, k
    <3>1. CASE i <= o
      BY <1>4, <1>6, <2>6, <2>10, <3>1
    <3>2. CASE ~(i <= o)
      <4>1. i - o \in 1..k /\ o + (i - o) = i
        BY <1>4, <1>6, <3>2
      <4>2. heard[o + (i - o)] = dec[i - o]
        BY <1>5, <4>1
      <4>3. Near(dec[i - o], t[o + (i - o)])
        BY <2>8, <2>10, <4>1
      <4>4. ~cutChar /\ Last(chunk) # "hi" => dec[i - o] = t[o + (i - o)]
        BY <2>9, <2>10, <4>1
      <4> QED
        BY <4>1, <4>2, <4>3, <4>4
    <3> QED
      BY <3>1, <3>2
  <2>11. OnWay(rest, Len(heard), t)
    BY <1>4, <2>5 DEF rest
  <2> QED
    BY <1>4, <2>10, <2>11 DEF t
<1> QED
  BY <1>2, <1>4, <1>7, <1>8, <1>9 DEF heard, rest, dec, o, Text

\* receive resolves with this text: where it stands in what was sent.
Resolves(n, text) ==
  /\ text \in Text /\ up' \in Text /\ spc = "receive"
  /\ UNCHANGED <<down, broken, calls, cOver>> /\ (cutChar => cutChar')
  /\ IsText(text) \/ (broken /\ up' = <<>>)
  /\ text = <<>> => broken
  /\ text # <<>> /\ N = n => R < n
  /\ R < n =>
       /\ \A i \in 1..Len(text) : i <= Len(TextOf(R + 1)) =>
            text[i] = TextOf(R + 1)[i] \/ (cutChar' /\ Near(text[i], TextOf(R + 1)[i]))
       /\ Len(text) + Len(up') > Len(TextOf(R + 1)) => N > n /\ R + 1 = n
       /\ ~broken => /\ R + 1 = n /\ calls[n].at # "settled"
                     /\ calls[n].at = "sending" =>
                          Len(text) + Len(up') < Len(TextOf(R + 1))

\* All of a text was heard exactly when deserialize does not turn it away.
LEMMA ResolvesWith ==
  ASSUME TypeInv, CallsInv, NEW n \in 0..N, StateInv(n), NEW text, Resolves(n, text), R < n
  PROVE  LET t == TextOf(R + 1)
         IN /\ Len(text) \in Nat /\ Len(t) \in Nat /\ Len(up') \in Nat
            /\ Len(text) < Len(t) =>
                 deserialize(text) = Invalid /\ broken /\ up' = <<>>
            /\ Len(text) >= Len(t) =>
                 \E m \in Sent : /\ deserialize(text) = [went |-> "message", msg |-> m]
                                 /\ LikeMsg(m, calls[R + 1].msg)
                                 /\ ~cutChar' => m = calls[R + 1].msg
<1> DEFINE t == TextOf(R + 1)
           sent == calls[R + 1].msg
<1>1. R + 1 \in 1..n /\ R + 1 \in 1..N
  BY Sizes
<1>2. sent \in Sent /\ Plain(sent) /\ t = Serialize(sent) /\ Len(t) \in Nat
  BY <1>1, TurnFacts, CallIs DEF StateInv, TextOf
<1>3. /\ text \in Text /\ Len(text) \in Nat /\ Len(up') \in Nat
      /\ IsText(text) \/ (broken /\ up' = <<>>)
      /\ \A i \in 1..Len(text) : i <= Len(t) =>
           text[i] = t[i] \/ (cutChar' /\ Near(text[i], t[i]))
  <2>1. text \in Text /\ up' \in Text
    BY DEF Resolves
  <2> QED
    BY <2>1, LenProperties DEF Resolves, Text
<1> HIDE DEF t, sent
<1>4. \A i \in 1..Len(text) : i <= Len(t) => Near(text[i], t[i])
  BY <1>3 DEF Near
<1>5. ASSUME Len(text) < Len(t)
      PROVE  deserialize(text) = Invalid /\ broken /\ up' = <<>>
  <2>1. \A i \in 1..Len(text) : i <= Len(t)
    BY <1>2, <1>3, <1>5
  <2>2. \A i \in 1..Len(text) : Near(text[i], Serialize(sent)[i])
    BY <1>2, <1>4, <2>1
  <2>3. deserialize(text) = Invalid /\ ~IsText(text)
    BY <1>2, <1>3, <1>5, <2>2, JsStops
  <2> QED
    BY <1>3, <2>3
<1>6. ASSUME Len(text) >= Len(t)
      PROVE  \E m \in Sent : /\ deserialize(text) = [went |-> "message", msg |-> m]
                             /\ LikeMsg(m, sent) /\ (~cutChar' => m = sent)
  <2>1. \A i \in 1..Len(t) : i \in 1..Len(text) /\ i <= Len(t)
    BY <1>2, <1>3, <1>6
  <2>2. \A i \in 1..Len(t) : Near(text[i], t[i])
    BY <1>4, <2>1
  <2>3. PICK m \in Sent :
          /\ deserialize(text) = [went |-> "message", msg |-> m]
          /\ LikeMsg(m, sent)
          /\ (\A i \in 1..Len(t) : text[i] = t[i]) => m = sent
    BY <1>2, <1>3, <1>6, <2>2, JsHears
  <2>4. ~cutChar' => \A i \in 1..Len(t) : text[i] = t[i]
    BY <1>3, <2>1
  <2> QED
    BY <2>3, <2>4
<1> QED
  BY <1>2, <1>3, <1>5, <1>6 DEF t, sent

LEMMA ClosedStep ==
  ASSUME TypeInv, CallsInv, NEW n \in 0..N, StateInv(n), NEW text, Resolves(n, text),
         sHeard' = <<>>, text = <<>>, spc' = "closed", UNCHANGED <<sAfter, received, answers>>
  PROVE  CallsInv' /\ StateInv(n)'
<1>1. spc = "receive" /\ UNCHANGED <<down, broken, calls, cOver>> /\ broken /\ (cutChar => cutChar')
  BY DEF Resolves
<1>2. Serving /\ ~Serving' /\ R' = R /\ A' = A /\ broken'
  BY <1>1 DEF Serving, R, A
<1>3. CallsInv' /\ Turns(n)' /\ N' = N
  <2>1. cOver => down' = <<>>
    BY <1>1 DEF CallsInv
  <2> QED
    BY <1>1, <1>2, <2>1, ClientAsBefore
<1>4. AnswersInv(n) /\ ServedInv(n) /\ UpInv(n) /\ DownInv(n) /\ CodesInv(n)
  BY DEF StateInv
<1>5. AnswersInv(n)'
  BY <1>1, <1>2, <1>3, <1>4 DEF AnswersInv, Verdicts
<1>6. ServedInv(n)'
  BY <1>1, <1>2, <1>4 DEF ServedInv
<1>7. UpInv(n)'
  BY <1>1, <1>2, <1>3, <1>4 DEF UpInv
<1>8. DownInv(n)'
  <2>1. Replied(n)' <=> Replied(n)
    BY <1>1, <1>2 DEF Replied
  <2>2. NextResponse(n)' <=> NextResponse(n)
    BY <1>1, <1>3 DEF NextResponse, OnWay, RespOf
  <2> QED
    BY <1>1, <1>3, <1>4, <2>1, <2>2 DEF DownInv
<1>9. CodesInv(n)'
  BY <1>1, <1>2, <1>4 DEF CodesInv
<1> QED
  BY <1>3, <1>5, <1>6, <1>7, <1>8, <1>9 DEF StateInv

LEMMA MalformedStep ==
  ASSUME TypeInv, CallsInv, NEW n \in 0..N, StateInv(n), NEW text, Resolves(n, text),
         sHeard' = <<>>, text # <<>>, deserialize(text) = Invalid,
         UNCHANGED received, spc' = "respond", sAfter' = "closed",
         \E a : OneMore(a) /\ a.why = "malformed"
  PROVE  CallsInv' /\ StateInv(n)'
<1>1. /\ spc = "receive" /\ UNCHANGED <<down, broken, calls, cOver>> /\ (cutChar => cutChar')
      /\ N = n => R < n
  BY DEF Resolves
<1>2. /\ Serving /\ Serving' /\ R' = R /\ A' = A + 1 /\ answers'[A + 1].why = "malformed"
      /\ \A i \in 1..A : answers'[i] = answers[i]
  BY <1>1 DEF Serving, R, OneMore
<1>3. CallsInv' /\ Turns(n)' /\ N' = N
  <2>1. cOver => down' = <<>>
    BY <1>1 DEF CallsInv
  <2> QED
    BY <1>1, <1>2, <2>1, ClientAsBefore
<1>4. AnswersInv(n) /\ ServedInv(n) /\ UpInv(n) /\ DownInv(n) /\ CodesInv(n)
  BY DEF StateInv
<1>5. N \in Nat /\ R \in Nat /\ A \in Nat /\ n \in Nat /\ n <= N /\ A = R
  BY <1>1, <1>4, Sizes DEF AnswersInv
<1>6. R < n => broken /\ up' = <<>>
  <2> SUFFICES ASSUME R < n PROVE broken /\ up' = <<>>
    OBVIOUS
  <2> DEFINE w == Len(text)
             l == Len(TextOf(R + 1))
  <2>1. /\ w \in Nat /\ l \in Nat /\ (w < l => broken /\ up' = <<>>)
        /\ w >= l => \E m \in Sent : deserialize(text) = [went |-> "message", msg |-> m]
    BY ResolvesWith
  <2>2. \A m : Invalid # [went |-> "message", msg |-> m]
    <3>1. Invalid.went # "message"
      BY DEF Invalid
    <3> QED
      BY <3>1
  <2> HIDE DEF w, l
  <2>3. w < l
    BY <2>1, <2>2
  <2> QED
    BY <2>1, <2>3
<1>7. broken \/ N > n
  BY <1>1, <1>5, <1>6
<1>8. AnswersInv(n)'
  <2>1. A' = R' + 1 /\ answers'[A'].why = "malformed" /\ A' > 0
    BY <1>2, <1>5
  <2>2. \A i \in 1..R : answers'[i] = answers[i]
    BY <1>2, <1>5
  <2> QED
    BY <1>1, <1>2, <1>3, <1>4, <1>7, <2>1, <2>2 DEF AnswersInv, Verdicts
<1>9. ServedInv(n)'
  BY <1>1, <1>2, <1>4 DEF ServedInv
<1>10. UpInv(n)'
  BY <1>1, <1>2, <1>3, <1>4, <1>5, <1>6 DEF UpInv
<1>11. DownInv(n)'
  <2>1. Replied(n)' <=> Replied(n)
    BY <1>1, <1>2, <1>5 DEF Replied
  <2>2. ASSUME n > 0, Replied(n) PROVE NextResponse(n)' <=> NextResponse(n)
    <3>1. n \in 1..A
      BY <1>5, <2>2 DEF Replied
    <3>2. RespOf(n)' = RespOf(n)
      BY <1>2, <3>1 DEF RespOf
    <3> QED
      BY <1>1, <1>3, <3>2 DEF NextResponse, OnWay
  <2> QED
    BY <1>1, <1>3, <1>4, <2>1, <2>2 DEF DownInv
<1>12. CodesInv(n)'
  <2>1. \A k \in 1..n : k <= R => answers'[k] = answers[k]
    BY <1>2, <1>5
  <2> QED
    BY <1>1, <1>2, <1>4, <2>1 DEF CodesInv
<1> QED
  BY <1>3, <1>8, <1>9, <1>10, <1>11, <1>12 DEF StateInv

LEMMA TakenStep ==
  ASSUME TypeInv, CallsInv, NEW n \in 0..N, StateInv(n), NEW text, Resolves(n, text),
         sHeard' = <<>>, text # <<>>, deserialize(text).went = "message",
         Taken(deserialize(text).msg)
  PROVE  CallsInv' /\ StateInv(n)'
<1> DEFINE m == deserialize(text).msg
<1>1. /\ spc = "receive" /\ UNCHANGED <<down, broken, calls, cOver>> /\ (cutChar => cutChar')
      /\ N = n => R < n
  BY DEF Resolves
<1>2. /\ spc' = "respond" /\ sAfter' \in {"receive", "closed"}
      /\ R' = R + 1 /\ received'[R + 1] = m
      /\ \A i \in 1..R : received'[i] = received[i]
  BY DEF Taken
<1>3. /\ A' = A + 1 /\ \A i \in 1..A : answers'[i] = answers[i]
      /\ answers'[A + 1].to = R + 1 /\ answers'[A + 1].why # "malformed"
      /\ answers'[A + 1].why = "handler" => answers'[A + 1].code \in Verdicts(m)
  BY DEF Taken, OneMore
<1>4. Serving /\ Serving'
  BY <1>1, <1>2 DEF Serving
<1>5. CallsInv' /\ Turns(n)' /\ N' = N /\ (cOver => broken')
  <2>1. cOver => down' = <<>> /\ broken'
    BY <1>1, <1>4 DEF CallsInv
  <2> QED
    BY <1>1, <1>4, <2>1, ClientAsBefore
<1>6. AnswersInv(n) /\ ServedInv(n) /\ UpInv(n) /\ DownInv(n) /\ CodesInv(n)
  BY DEF StateInv
<1>7. N \in Nat /\ R \in Nat /\ A \in Nat /\ n \in Nat /\ n <= N /\ A = R
  BY <1>1, <1>6, Sizes DEF AnswersInv
<1>8. ASSUME R < n
      PROVE  /\ LikeMsg(m, calls[R + 1].msg) /\ (~cutChar' => m = calls[R + 1].msg)
             /\ N = n \/ R + 1 # n => up' = <<>>
             /\ ~broken => R + 1 = n /\ calls[n].at = "waiting"
  <2> DEFINE w == Len(text)
             l == Len(TextOf(R + 1))
             u == Len(up')
  <2>1. /\ w \in Nat /\ l \in Nat /\ u \in Nat
        /\ w < l => deserialize(text) = Invalid
        /\ w >= l => \E x \in Sent :
             /\ deserialize(text) = [went |-> "message", msg |-> x]
             /\ LikeMsg(x, calls[R + 1].msg) /\ (~cutChar' => x = calls[R + 1].msg)
    BY <1>8, ResolvesWith
  <2>2. /\ w + u > l => N > n /\ R + 1 = n
        /\ ~broken => /\ R + 1 = n /\ calls[n].at # "settled"
                      /\ calls[n].at = "sending" => w + u < l
        /\ up' \in Text
    BY <1>8 DEF Resolves
  <2>3. Invalid.went # "message"
    BY DEF Invalid
  <2>4. u = 0 => up' = <<>>
    BY <2>2, EmptySeq DEF Text
  <2>5. n > 0 /\ n \in 1..N
    BY <1>7, <1>8
  <2> HIDE DEF w, l, u, m
  <2>6. w >= l
    BY <2>1, <2>3
  <2>7. PICK x \in Sent :
          /\ deserialize(text) = [went |-> "message", msg |-> x]
          /\ LikeMsg(x, calls[R + 1].msg) /\ (~cutChar' => x = calls[R + 1].msg)
    BY <2>1, <2>6
  <2>8. m = x
    BY <2>7 DEF m
  <2>9. N = n \/ R + 1 # n => u = 0
    BY <1>7, <2>1, <2>2, <2>6
  <2>10. calls[n].at \in {"sending", "waiting", "settled"}
    BY <2>5, CallIs
  <2>11. ~broken => R + 1 = n /\ calls[n].at = "waiting"
    BY <2>1, <2>2, <2>6, <2>10
  <2> QED
    BY <2>4, <2>7, <2>8, <2>9, <2>11
<1> HIDE DEF m
<1>9. AnswersInv(n)'
  <2>1. A' = R' /\ A' > 0
    BY <1>2, <1>3, <1>7
  <2>2. ASSUME NEW i \in 1..R'
        PROVE  /\ answers'[i].to = i /\ answers'[i].why # "malformed"
               /\ answers'[i].why = "handler" => answers'[i].code \in Verdicts(received'[i])
    <3>1. CASE i = R + 1
      BY <1>2, <1>3, <1>7, <3>1
    <3>2. CASE i # R + 1
      <4>1. i \in 1..R /\ i \in 1..A
        BY <1>2, <1>7, <3>2
      <4> QED
        BY <1>2, <1>3, <1>6, <4>1 DEF AnswersInv
    <3> QED
      BY <3>1, <3>2
  <2> QED
    BY <1>1, <1>2, <2>1, <2>2 DEF AnswersInv, Verdicts
<1>10. ServedInv(n)'
  <2>1. ASSUME NEW i \in 1..R', i <= n
        PROVE  /\ LikeMsg(received'[i], calls[i].msg)
               /\ ~cutChar' => received'[i] = calls[i].msg
    <3>1. CASE i = R + 1
      <4>1. R < n
        BY <1>7, <2>1, <3>1
      <4> QED
        BY <1>2, <1>8, <3>1, <4>1
    <3>2. CASE i # R + 1
      <4>1. i \in 1..R
        BY <1>2, <1>7, <3>2
      <4> QED
        BY <1>1, <1>2, <1>6, <2>1, <4>1 DEF ServedInv
    <3> QED
      BY <3>1, <3>2
  <2> QED
    BY <1>1, <2>1 DEF ServedInv
<1>11. UpInv(n)'
  <2>1. R' > n => N' > n
    BY <1>1, <1>2, <1>5, <1>7
  <2>2. R' = n /\ N' = n => sHeard' = <<>> /\ up' = <<>>
    BY <1>2, <1>5, <1>7, <1>8
  <2>3. R' < n => broken' /\ sHeard' = <<>> /\ up' = <<>>
    BY <1>1, <1>2, <1>7, <1>8
  <2>4. ~broken' /\ R' >= n /\ n > 0 => calls'[n].at # "sending"
    <3> SUFFICES ASSUME ~broken', R' >= n, n > 0 PROVE calls'[n].at # "sending"
      OBVIOUS
    <3>1. CASE R < n
      BY <1>1, <1>8, <3>1
    <3>2. CASE R >= n
      BY <1>1, <1>6, <3>2 DEF UpInv
    <3> QED
      BY <1>7, <3>1, <3>2
  <2>5. ~broken' /\ N' = n => ~(n = 0 \/ calls'[n].at = "settled")
    BY <1>1, <1>5, <1>7, <1>8
  <2> QED
    BY <1>2, <1>4, <2>1, <2>2, <2>3, <2>4, <2>5 DEF UpInv
<1>12. DownInv(n)'
  <2>1. Replied(n)' <=> Replied(n)
    BY <1>1, <1>2, <1>3, <1>7 DEF Replied
  <2>2. ASSUME n > 0, Replied(n) PROVE NextResponse(n)' <=> NextResponse(n)
    <3>1. n \in 1..A
      BY <1>7, <2>2 DEF Replied
    <3>2. RespOf(n)' = RespOf(n)
      BY <1>3, <3>1 DEF RespOf
    <3> QED
      BY <1>1, <1>5, <3>2 DEF NextResponse, OnWay
  <2> QED
    BY <1>1, <1>5, <1>6, <2>1, <2>2 DEF DownInv
<1>13. CodesInv(n)'
  <2>1. \A k \in 1..n : k <= R => answers'[k] = answers[k] /\ k <= R'
    BY <1>2, <1>3, <1>7
  <2> QED
    BY <1>1, <1>5, <1>6, <2>1 DEF CodesInv
<1> QED
  BY <1>5, <1>9, <1>10, <1>11, <1>12, <1>13 DEF StateInv

LEMMA ReceivedStep ==
  ASSUME TypeInv, CallsInv, NEW n \in 0..N, StateInv(n), NEW text, Resolves(n, text),
         Received(text)
  PROVE  CallsInv' /\ StateInv(n)'
<1>1. text \in Text
  BY DEF Resolves
<1> DEFINE m == deserialize(text).msg
<1>2. /\ sHeard' = <<>>
      /\ \/ /\ text = <<>> /\ spc' = "closed"
            /\ UNCHANGED <<sAfter, received, answers>>
         \/ /\ text # <<>> /\ deserialize(text) = Invalid
            /\ UNCHANGED received /\ spc' = "respond" /\ sAfter' = "closed"
            /\ \E a : OneMore(a) /\ a.why = "malformed"
         \/ /\ text # <<>> /\ deserialize(text).went = "message"
            /\ m \in Parsable /\ Taken(m)
  BY <1>1, ReceivedIs
<1>3. CASE text = <<>> /\ spc' = "closed" /\ UNCHANGED <<sAfter, received, answers>>
  BY <1>2, <1>3, ClosedStep
<1>4. CASE /\ text # <<>> /\ deserialize(text) = Invalid
           /\ UNCHANGED received /\ spc' = "respond" /\ sAfter' = "closed"
           /\ \E a : OneMore(a) /\ a.why = "malformed"
  BY <1>2, <1>4, MalformedStep
<1>5. CASE text # <<>> /\ deserialize(text).went = "message" /\ Taken(m)
  BY <1>2, <1>5, TakenStep
<1> QED
  BY <1>2, <1>3, <1>4, <1>5

\* The server hears a chunk, and waits for more.
LEMMA HearsMore ==
  ASSUME TypeInv, CallsInv, NEW n \in 0..N, StateInv(n), spc = "receive",
         UNCHANGED <<down, broken, calls, cOver, spc, sAfter, received, answers>>,
         cutChar => cutChar', up # <<>>, sHeard' # <<>>, Last(sHeard') # "hi",
         Len(sHeard') \in Nat, Len(up') \in Nat,
         Len(sHeard') + Len(up') = Len(sHeard) + Len(up),
         R < n => /\ \A i \in 1..Len(sHeard') : i <= Len(TextOf(R + 1)) =>
                       \/ sHeard'[i] = TextOf(R + 1)[i]
                       \/ cutChar' /\ Near(sHeard'[i], TextOf(R + 1)[i])
                  /\ OnWay(up', Len(sHeard'), TextOf(R + 1))
  PROVE  CallsInv' /\ StateInv(n)'
<1>1. R' = R /\ A' = A /\ Serving /\ Serving'
  BY DEF R, A, Serving
<1>2. /\ CallsInv' /\ Turns(n)' /\ N' = N
      /\ \A k \in 1..N : TextOf(k)' = TextOf(k)
  <2>1. cOver => down' = <<>>
    BY DEF CallsInv
  <2> QED
    BY <1>1, <2>1, ClientAsBefore
<1>3. AnswersInv(n) /\ ServedInv(n) /\ UpInv(n) /\ DownInv(n) /\ CodesInv(n)
  BY DEF StateInv
<1>4. N \in Nat /\ R \in Nat /\ n \in Nat /\ n <= N
  BY Sizes
<1>5. AnswersInv(n)' /\ ServedInv(n)' /\ CodesInv(n)'
  BY <1>1, <1>2, <1>3 DEF AnswersInv, ServedInv, CodesInv, Verdicts
<1>6. DownInv(n)'
  <2>1. Replied(n)' <=> Replied(n)
    BY <1>1 DEF Replied
  <2>2. NextResponse(n)' <=> NextResponse(n)
    BY <1>2 DEF NextResponse, OnWay, RespOf
  <2> QED
    BY <1>2, <1>3, <2>1, <2>2 DEF DownInv
<1>7. R >= n => N > n
  BY <1>1, <1>3, <1>4 DEF UpInv
<1>8. ASSUME R < n PROVE NextText(n)'
  <2>1. NextText(n) /\ R + 1 \in 1..N /\ n \in 1..N
    BY <1>3, <1>4, <1>8 DEF UpInv
  <2>2. TextOf(R + 1)' = TextOf(R + 1) /\ TextOf(n)' = TextOf(n)
    BY <1>1, <1>2, <2>1 DEF TextOf
  <2>3. HeardOf(TextOf(R + 1))' /\ OnWay(up, Len(sHeard), TextOf(R + 1))'
    BY <1>1, <1>8, <2>2 DEF HeardOf, OnWay, Near
  <2>4. (Len(sHeard) + Len(up) > Len(TextOf(R + 1)) => N > n /\ R + 1 = n)'
    BY <1>1, <1>2, <2>1, <2>2 DEF NextText
  <2>5. (~broken => /\ R + 1 = n /\ calls[n].at # "settled"
                    /\ calls[n].at = "sending" => Len(sHeard) + Len(up) = calls[n].sent
                    /\ calls[n].at = "waiting" => Len(sHeard) + Len(up) >= Len(TextOf(n)))'
    BY <1>1, <2>1, <2>2 DEF NextText
  <2> QED
    BY <2>3, <2>4, <2>5 DEF NextText
<1>9. UpInv(n)'
  BY <1>1, <1>2, <1>3, <1>4, <1>7, <1>8 DEF UpInv
<1> QED
  BY <1>2, <1>5, <1>6, <1>9 DEF StateInv

\* Nobody listens: what comes while a response is being written is gone.
LEMMA HearsNothing ==
  ASSUME TypeInv, CallsInv, NEW n \in 0..N, StateInv(n), spc = "respond",
         UNCHANGED <<down, broken, calls, cOver, spc, sHeard, sAfter, received, answers>>,
         cutChar => cutChar', up # <<>>
  PROVE  CallsInv' /\ StateInv(n)'
<1>1. R' = R /\ A' = A /\ Serving /\ Serving'
  BY DEF R, A, Serving
<1>2. CallsInv' /\ Turns(n)' /\ N' = N
  <2>1. cOver => down' = <<>>
    BY DEF CallsInv
  <2> QED
    BY <1>1, <2>1, ClientAsBefore
<1>3. AnswersInv(n) /\ ServedInv(n) /\ UpInv(n) /\ DownInv(n) /\ CodesInv(n)
  BY DEF StateInv
<1>4. N \in Nat /\ R \in Nat /\ n \in Nat /\ n <= N
  BY Sizes
<1>5. AnswersInv(n)' /\ ServedInv(n)' /\ CodesInv(n)'
  BY <1>1, <1>2, <1>3 DEF AnswersInv, ServedInv, CodesInv, Verdicts
<1>6. DownInv(n)'
  <2>1. Replied(n)' <=> Replied(n)
    BY <1>1 DEF Replied
  <2>2. NextResponse(n)' <=> NextResponse(n)
    BY <1>2 DEF NextResponse, OnWay, RespOf
  <2> QED
    BY <1>2, <1>3, <2>1, <2>2 DEF DownInv
<1>7. R >= n /\ ~(R = n /\ N = n)
  BY <1>1, <1>3, <1>4 DEF UpInv
<1>8. UpInv(n)'
  BY <1>1, <1>2, <1>3, <1>4, <1>7 DEF UpInv
<1> QED
  BY <1>2, <1>5, <1>6, <1>8 DEF StateInv

LEMMA ServerDataStep ==
  ASSUME TypeInv, CallsInv, NEW n \in 0..N, StateInv(n), ServerData
  PROVE  CallsInv' /\ StateInv(n)'
<1>1. PICK chunk \in Chunks(up) :
        LET heard == Join(sHeard, Decode(chunk))
        IN /\ chunk \in Text /\ heard \in Text
           /\ up' = Rest(up, chunk) /\ CutOf(up, chunk)
           /\ cutChar' = (cutChar \/ Last(chunk) = "hi")
           /\ UNCHANGED <<down, broken, clientVars, sOver, handlers>>
           /\ \/ spc = "receive" /\ IsText(heard) /\ Received(heard)
              \/ /\ spc = "receive" /\ ~IsText(heard) /\ sHeard' = heard
                 /\ UNCHANGED <<spc, sAfter, received, answers>>
              \/ spc = "respond" /\ UNCHANGED <<spc, sHeard, sAfter, received, answers>>
  BY ServerDataIs
<1> DEFINE heard == Join(sHeard, Decode(chunk))
           rest == Rest(up, chunk)
           t == TextOf(R + 1)
<1>2. UNCHANGED <<down, broken, calls, cOver>> /\ (cutChar => cutChar')
  BY <1>1 DEF clientVars
<1>3. /\ heard \in Text /\ rest \in Text /\ heard # <<>> /\ Last(heard) # "hi"
      /\ Len(heard) \in Nat /\ Len(rest) \in Nat
      /\ Len(heard) + Len(rest) = Len(sHeard) + Len(up)
      /\ R < n /\ spc = "receive" =>
           /\ \A i \in 1..Len(heard) : i <= Len(t) =>
                \/ heard[i] = t[i]
                \/ (cutChar \/ Last(chunk) = "hi") /\ Near(heard[i], t[i])
           /\ OnWay(rest, Len(heard), t)
  BY <1>1, HeardNext
<1>4. up # <<>>
  BY ChunkIs DEF TypeInv, Text
<1>5. up' = rest /\ cutChar' = (cutChar \/ Last(chunk) = "hi")
  BY <1>1
<1>6. \/ spc = "receive" /\ IsText(heard) /\ Received(heard)
      \/ /\ spc = "receive" /\ ~IsText(heard) /\ sHeard' = heard
         /\ UNCHANGED <<spc, sAfter, received, answers>>
      \/ spc = "respond" /\ UNCHANGED <<spc, sHeard, sAfter, received, answers>>
  BY <1>1
<1> HIDE DEF heard, rest, t
<1>7. CASE spc = "receive" /\ IsText(heard) /\ Received(heard)
  <2>1. Resolves(n, heard)
    <3>1. N = n => R < n
      <4>1. UpInv(n) /\ Serving
        BY <1>7 DEF StateInv, Serving
      <4> QED
        BY <1>4, <4>1, Sizes DEF UpInv
    <3>2. ASSUME R < n
          PROVE  /\ \A i \in 1..Len(heard) : i <= Len(t) =>
                      heard[i] = t[i] \/ (cutChar' /\ Near(heard[i], t[i]))
                 /\ Len(heard) + Len(up') > Len(t) => N > n /\ R + 1 = n
                 /\ ~broken => /\ R + 1 = n /\ calls[n].at # "settled"
                               /\ calls[n].at = "sending" => Len(heard) + Len(up') < Len(t)
      <4>1. NextText(n)
        BY <1>7, <3>2 DEF StateInv, UpInv
      <4>2. \A i \in 1..Len(heard) : i <= Len(t) =>
              heard[i] = t[i] \/ (cutChar' /\ Near(heard[i], t[i]))
        BY <1>3, <1>5, <1>7, <3>2
      <4>3. Len(heard) + Len(up') > Len(t) => N > n /\ R + 1 = n
        BY <1>3, <1>5, <4>1 DEF NextText, t
      <4>4. n \in 1..N
        BY <3>2, Sizes
      <4>5. calls[n].at = "sending" => calls[n].sent < Len(TextOf(n))
        BY <4>4 DEF CallsInv
      <4>6. ~broken => /\ R + 1 = n /\ calls[n].at # "settled"
                       /\ calls[n].at = "sending" => Len(heard) + Len(up') < Len(t)
        BY <1>3, <1>5, <4>1, <4>5 DEF NextText, t
      <4> QED
        BY <4>2, <4>3, <4>6
    <3> QED
      BY <1>2, <1>3, <1>5, <1>7, <3>1, <3>2 DEF Resolves, t
  <2> QED
    BY <1>7, <2>1, ReceivedStep
<1>8. CASE /\ spc = "receive" /\ ~IsText(heard) /\ sHeard' = heard
           /\ UNCHANGED <<spc, sAfter, received, answers>>
  <2>1. R < n => /\ \A i \in 1..Len(sHeard') : i <= Len(TextOf(R + 1)) =>
                      \/ sHeard'[i] = TextOf(R + 1)[i]
                      \/ cutChar' /\ Near(sHeard'[i], TextOf(R + 1)[i])
                 /\ OnWay(up', Len(sHeard'), TextOf(R + 1))
    BY <1>3, <1>5, <1>8 DEF t
  <2>2. /\ sHeard' # <<>> /\ Last(sHeard') # "hi"
        /\ Len(sHeard') \in Nat /\ Len(up') \in Nat
        /\ Len(sHeard') + Len(up') = Len(sHeard) + Len(up)
    BY <1>3, <1>5, <1>8
  <2> QED
    BY <1>2, <1>4, <1>8, <2>1, <2>2, HearsMore
<1>9. CASE spc = "respond" /\ UNCHANGED <<spc, sHeard, sAfter, received, answers>>
  BY <1>2, <1>4, <1>9, HearsNothing
<1> QED
  BY <1>6, <1>7, <1>8, <1>9

LEMMA ServerEndStep ==
  ASSUME TypeInv, CallsInv, NEW n \in 0..N, StateInv(n), ServerEnd
  PROVE  CallsInv' /\ StateInv(n)'
<1>1. /\ broken /\ up = <<>>
      /\ UNCHANGED <<up, down, broken, calls, cOver, cutChar>>
      /\ \/ spc = "receive" /\ Received(sHeard)
         \/ spc = "respond" /\ UNCHANGED <<spc, sHeard, sAfter, received, answers>>
  BY ServerEndIs DEF clientVars
<1>2. CASE spc = "receive" /\ Received(sHeard)
  <2>1. Serving /\ UpInv(n)
    BY <1>2 DEF Serving, StateInv
  <2>2. R \in Nat /\ N \in Nat /\ n \in Nat /\ n <= N /\ Len(sHeard) \in Nat
    BY Sizes
  <2>3. sHeard # <<>> /\ N = n => R < n
    BY <2>1, <2>2 DEF UpInv
  <2>4. ASSUME R < n
        PROVE  /\ \A i \in 1..Len(sHeard) : i <= Len(TextOf(R + 1)) =>
                    \/ sHeard[i] = TextOf(R + 1)[i]
                    \/ cutChar' /\ Near(sHeard[i], TextOf(R + 1)[i])
               /\ Len(sHeard) + Len(up') > Len(TextOf(R + 1)) => N > n /\ R + 1 = n
    <3>1. NextText(n)
      BY <1>2, <2>1, <2>4 DEF UpInv
    <3> QED
      BY <1>1, <3>1 DEF NextText, HeardOf
  <2>5. sHeard \in Text /\ up' \in Text
    BY <1>1 DEF TypeInv
  <2>6. Resolves(n, sHeard)
    BY <1>1, <1>2, <2>3, <2>4, <2>5 DEF Resolves
  <2> QED
    BY <1>2, <2>6, ReceivedStep
<1>3. CASE spc = "respond" /\ UNCHANGED <<spc, sHeard, sAfter, received, answers>>
  BY <1>1, <1>3, Untouched
<1> QED
  BY <1>1, <1>2, <1>3

\* The server is gone with the connection: nothing is served any more.
LEMMA ServerGone ==
  ASSUME TypeInv, CallsInv, NEW n \in 0..N, StateInv(n), broken,
         spc' \in {"closed", "crashed"},
         UNCHANGED <<up, down, broken, calls, cOver, sHeard, sAfter, received, answers, cutChar>>
  PROVE  CallsInv' /\ StateInv(n)'
<1>1. R' = R /\ A' = A /\ ~Serving' /\ spc' # "respond" /\ spc' # "receive"
  BY DEF R, A, Serving
<1>2. CallsInv' /\ Turns(n)' /\ N' = N
  <2>1. (cOver => down' = <<>>) /\ (Serving' => Serving)
    BY <1>1 DEF CallsInv
  <2> QED
    BY <2>1, ClientAsBefore
<1>3. AnswersInv(n) /\ ServedInv(n) /\ UpInv(n) /\ DownInv(n) /\ CodesInv(n)
  BY DEF StateInv
<1>4. AnswersInv(n)' /\ ServedInv(n)' /\ CodesInv(n)'
  BY <1>1, <1>2, <1>3 DEF AnswersInv, ServedInv, CodesInv, Verdicts
<1>5. UpInv(n)'
  BY <1>1, <1>2, <1>3 DEF UpInv
<1>6. DownInv(n)'
  <2>1. Replied(n)' <=> n <= R
    BY <1>1 DEF Replied
  <2>2. NextResponse(n)' <=> NextResponse(n)
    BY <1>2 DEF NextResponse, OnWay, RespOf
  <2>3. ASSUME n > 0, n <= R, calls[n].heard = <<>>, down = <<>> PROVE NextResponse(n)
    <3>1. n \in 1..R
      BY <2>3, Sizes
    <3>2. n \in 1..A
      BY <3>1, AnswerOf
    <3>3. Len(RespOf(n)) \in Nat
      BY <3>2, AnswerIs
    <3> QED
      BY <2>3, <3>3, OnWayNothing DEF NextResponse
  <2>4. Replied(n) => n <= R
    BY DEF Replied
  <2> QED
    BY <1>2, <1>3, <2>1, <2>2, <2>3, <2>4 DEF DownInv
<1> QED
  BY <1>2, <1>4, <1>5, <1>6 DEF StateInv

LEMMA ServerErrorStep ==
  ASSUME TypeInv, CallsInv, NEW n \in 0..N, StateInv(n), ServerError \/ ServerWriteFails
  PROVE  CallsInv' /\ StateInv(n)'
<1>1. /\ broken /\ spc' \in {"closed", "crashed"}
      /\ UNCHANGED <<up, down, broken, calls, cOver, sHeard, sAfter, received, answers, cutChar>>
  BY DEF ServerError, ServerWriteFails, clientVars
<1> QED
  BY <1>1, ServerGone

\* The response was written: what its call hears from now on.
LEMMA ResponseWritten ==
  ASSUME TypeInv, CallsInv, NEW n \in 1..N, StateInv(n), spc = "respond",
         calls[n].at = "waiting", n <= R,
         down' = Written(down, RespOf(A)),
         UNCHANGED <<broken, calls, cOver, received, answers>>
  PROVE  NextResponse(n)'
<1>1. AnswersInv(n) /\ UpInv(n) /\ DownInv(n) /\ Serving
  BY DEF StateInv, Serving
<1>2. N \in Nat /\ n \in 0..N /\ n > 0
  <2>1. N \in Nat
    BY LenProperties DEF TypeInv, N
  <2> QED
    BY <2>1
<1>3. R \in Nat /\ A \in Nat /\ n \in 1..R /\ n \in 1..A /\ A \in 1..A /\ R' = R /\ A' = A /\ N' = N
  <2>1. R \in Nat /\ A \in Nat /\ n \in 1..R
    BY <1>2, Sizes
  <2>2. n \in 1..A
    BY <1>2, <2>1, AnswerOf
  <2> QED
    BY <2>1, <2>2 DEF R, A, N
<1> DEFINE r == RespOf(n)
           w == RespOf(A)
           h == calls[n].heard
<1>4. /\ r \in Seq(RespTokens) /\ w \in Seq(RespTokens) /\ Len(r) \in Nat /\ Len(w) \in Nat
      /\ RespOf(n)' = r
  <2>1. RespOf(n)' = RespOf(n)
    BY DEF RespOf
  <2> QED
    BY <1>3, <2>1, AnswerIs
<1>5. h \in Seq(RespTokens) /\ down \in Seq(RespTokens)
  BY CallIs DEF TypeInv
<1>6. Replied(n) => NextResponse(n)
  BY <1>1, <1>2 DEF DownInv
<1>7. ~Replied(n) => A = n /\ h = <<>> /\ down = <<>>
  BY <1>1, <1>2 DEF DownInv, Replied
<1>8. CASE broken
  <2>1. down' = down
    BY <1>8 DEF Written
  <2>2. CASE Replied(n)
    BY <1>3, <1>4, <1>6, <2>1, <2>2 DEF NextResponse, OnWay
  <2>3. CASE ~Replied(n)
    <3>1. calls'[n].heard = <<>> /\ down' = <<>>
      BY <1>7, <2>1, <2>3
    <3> QED
      BY <1>3, <1>4, <1>8, <3>1, OnWayNothing DEF NextResponse
  <2> QED
    BY <2>2, <2>3
<1>9. CASE ~broken
  <2>1. down' = Join(down, w)
    BY <1>9 DEF Written, Join
  <2>2. CASE Replied(n)
    <3>1. /\ OnWay(h, 0, r) /\ OnWay(down, Len(h), r) /\ Len(h) + Len(down) >= Len(r)
      BY <1>6, <1>9, <2>2 DEF NextResponse
    <3>2. N # n
      <4>1. A # n
        BY <2>2 DEF Replied
      <4>2. R > n \/ A = R + 1
        BY <1>1, <1>3, <4>1 DEF AnswersInv
      <4> QED
        BY <1>1, <1>2, <1>3, <1>9, <4>1, <4>2 DEF AnswersInv, UpInv
    <3> HIDE DEF r, w, h
    <3> DEFINE s == Len(h)
               d == Len(down)
               l == Len(w)
               j == Join(down, w)
               x == Len(j)
    <3>3. s \in Nat /\ d \in Nat /\ l \in Nat /\ x = d + l /\ j \in Seq(RespTokens)
      BY <1>4, <1>5, LenProperties, JoinIs
    <3>4. s + d \in Nat /\ s + d >= Len(r)
      <4> HIDE DEF s, d
      <4>1. s + d \in Nat
        BY <3>3
      <4> QED
        BY <3>1, <4>1 DEF s, d
    <3>5. OnWay(w, s + d, r)
      <4> HIDE DEF s, d
      <4> QED
        BY <1>4, <3>4, OnWayPast
    <3>6. OnWay(j, s, r)
      <4> HIDE DEF s
      <4> QED
        BY <1>4, <1>5, <3>1, <3>3, <3>5, OnWayJoin DEF s
    <3>7. s + x >= Len(r)
      <4> HIDE DEF s, d, l, x
      <4> QED
        BY <1>4, <3>3, <3>4
    <3>8. down' = j /\ calls'[n].heard = h /\ RespOf(n)' = r
      BY <1>4, <2>1 DEF h, r
    <3> HIDE DEF j
    <3> QED
      BY <1>3, <3>1, <3>2, <3>6, <3>7, <3>8 DEF NextResponse
  <2>3. CASE ~Replied(n)
    <3>1. calls'[n].heard = <<>> /\ w = r /\ A = n
      BY <1>7, <2>3
    <3>2. down' = r
      <4>1. Join(<<>>, r) = r
        BY <1>4, ConcatEmptySeq DEF Join
      <4> QED
        BY <1>7, <2>1, <2>3, <3>1, <4>1
    <3>3. OnWay(calls[n].heard, 0, RespOf(n))'
      BY <3>1 DEF OnWay
    <3>4. OnWay(down, Len(calls[n].heard), RespOf(n))'
      <4>1. \A i \in 1..Len(r) : 0 + i = i
        BY <1>4
      <4>2. Len(calls'[n].heard) = 0
        BY <3>1
      <4> HIDE DEF r
      <4> QED
        BY <1>4, <3>2, <4>1, <4>2 DEF OnWay
    <3>5. Len(calls'[n].heard) + Len(down') = Len(RespOf(n)')
      <4>1. Len(calls'[n].heard) = 0
        BY <3>1
      <4> HIDE DEF r
      <4> QED
        BY <1>4, <3>2, <4>1
    <3> QED
      BY <1>4, <3>3, <3>4, <3>5 DEF NextResponse
  <2> QED
    BY <2>2, <2>3
<1> QED
  BY <1>8, <1>9

LEMMA ServerWriteDoneStep ==
  ASSUME TypeInv, CallsInv, NEW n \in 0..N, StateInv(n), ServerWriteDone
  PROVE  CallsInv' /\ StateInv(n)'
<1>1. /\ spc = "respond" /\ spc' = sAfter
      /\ down' = Written(down, SerializeResponse(answers[Len(answers)].code))
      /\ UNCHANGED <<up, broken, calls, cOver, sHeard, sAfter, received, answers, cutChar>>
  BY DEF ServerWriteDone, clientVars
<1>2. /\ R' = R /\ A' = A /\ Serving /\ spc' \in {"receive", "closed"}
      /\ down' = Written(down, RespOf(A))
  BY <1>1 DEF R, A, Serving, RespOf, TypeInv
<1>3. CallsInv' /\ Turns(n)' /\ N' = N /\ \A k \in 1..N : TextOf(k)' = TextOf(k)
  <2>1. cOver => down' = <<>>
    BY <1>1, <1>2 DEF CallsInv, Written
  <2> QED
    BY <1>1, <1>2, <2>1, ClientAsBefore
<1>4. AnswersInv(n) /\ ServedInv(n) /\ UpInv(n) /\ DownInv(n) /\ CodesInv(n)
  BY DEF StateInv
<1>5. N \in Nat /\ R \in Nat /\ A \in Nat /\ n \in Nat /\ n <= N /\ (n > 0 => n \in 1..N)
  BY Sizes
<1>6. AnswersInv(n)' /\ ServedInv(n)' /\ CodesInv(n)'
  BY <1>1, <1>2, <1>3, <1>4 DEF AnswersInv, ServedInv, CodesInv, Verdicts
<1>7. R < n => broken /\ sHeard = <<>> /\ up = <<>>
  BY <1>1, <1>4 DEF UpInv
<1>8. ~(~broken /\ N = n /\ (n = 0 \/ calls[n].at = "settled"))
  BY <1>1, <1>2, <1>4 DEF UpInv
<1>9. UpInv(n)'
  <2>1. ASSUME R < n PROVE NextText(n)'
    <3>1. broken' /\ sHeard' = <<>> /\ up' = <<>> /\ Len(sHeard') = 0 /\ Len(up') = 0
      BY <1>1, <1>7, <2>1
    <3>2. R' + 1 \in 1..N /\ TextOf(R + 1)' = TextOf(R + 1)
      BY <1>1, <1>2, <1>5, <2>1 DEF TextOf
    <3>3. Len(TextOf(R + 1)') \in Nat
      <4>1. TextOf(R + 1) \in Text
        BY <1>2, <3>2, CallIs
      <4> QED
        BY <3>2, <4>1, LenProperties DEF Text
    <3>4. ~(Len(sHeard') + Len(up') > Len(TextOf(R + 1)'))
      BY <3>1, <3>3
    <3> QED
      BY <3>1, <3>4 DEF NextText, HeardOf, OnWay
  <2> QED
    BY <1>1, <1>2, <1>3, <1>4, <1>8, <2>1 DEF UpInv
<1>10. DownInv(n)'
  <2>1. Replied(n)' <=> n <= R
    BY <1>2 DEF Replied
  <2>2. ASSUME n > 0, calls[n].at = "waiting", n <= R PROVE NextResponse(n)'
    BY <1>1, <1>2, <1>5, <2>2, ResponseWritten
  <2>3. ASSUME n > 0, calls[n].at = "waiting", ~(n <= R)
        PROVE  calls'[n].heard = <<>> /\ down' = <<>>
    <3>1. broken /\ ~Replied(n)
      BY <1>5, <1>7, <2>3 DEF Replied
    <3> QED
      BY <1>1, <1>4, <2>3, <3>1 DEF DownInv, Written
  <2>4. ASSUME ~cOver, n > 0, calls[n].at = "sending" PROVE down' = <<>>
    <3>1. broken
      BY <1>4, <1>5, <1>7, <2>4 DEF UpInv
    <3> QED
      BY <1>1, <1>4, <2>4, <3>1 DEF DownInv, Written
  <2>5. ASSUME ~cOver, N = n, n = 0 \/ calls[n].at = "settled" PROVE down' = <<>>
    BY <1>1, <1>4, <1>8, <2>5 DEF DownInv, Written
  <2> QED
    BY <1>1, <1>3, <2>1, <2>2, <2>3, <2>4, <2>5 DEF DownInv
<1> QED
  BY <1>3, <1>6, <1>9, <1>10 DEF StateInv

LEMMA BreakStep ==
  ASSUME TypeInv, CallsInv, NEW n \in 0..N, StateInv(n), Break
  PROVE  CallsInv' /\ StateInv(n)'
<1>1. /\ broken' = TRUE
      /\ up' \in Chunks(up) \cup {<<>>} /\ down' \in Chunks(down) \cup {<<>>}
      /\ UNCHANGED <<calls, cOver, spc, sHeard, sAfter, received, answers, cutChar>>
  BY DEF Break, clientVars, serverVars
<1>2. /\ Len(up') \in Nat /\ Len(up) \in Nat /\ Len(up') <= Len(up)
      /\ \A i \in 1..Len(up') : up'[i] = up[i]
      /\ Len(up) = 0 => up' = <<>>
  <2>1. up \in Seq(Tokens)
    BY DEF TypeInv, Text
  <2>2. /\ up' \in Seq(Tokens) /\ Len(up') \in Nat /\ Len(up) \in Nat /\ Len(up') <= Len(up)
        /\ \A i \in 1..Len(up') : up'[i] = up[i]
    BY <1>1, <2>1, CutShort
  <2>3. Len(up) = 0 => Len(up') = 0
    BY <2>2
  <2> QED
    BY <2>2, <2>3, EmptySeq
<1>3. /\ Len(down') \in Nat /\ Len(down) \in Nat /\ Len(down') <= Len(down)
      /\ \A i \in 1..Len(down') : down'[i] = down[i]
      /\ Len(down) = 0 => down' = <<>>
  <2>1. down \in Seq(RespTokens)
    BY DEF TypeInv
  <2>2. /\ down' \in Seq(RespTokens) /\ Len(down') \in Nat /\ Len(down) \in Nat
        /\ Len(down') <= Len(down) /\ \A i \in 1..Len(down') : down'[i] = down[i]
    BY <1>1, <2>1, CutShort
  <2>3. Len(down) = 0 => Len(down') = 0
    BY <2>2
  <2> QED
    BY <2>2, <2>3, EmptySeq
<1>4. (up = <<>> => up' = <<>>) /\ (down = <<>> => down' = <<>>)
  BY <1>2, <1>3
<1>5. R' = R /\ A' = A /\ (Serving' <=> Serving)
  BY <1>1 DEF R, A, Serving
<1>6. CallsInv' /\ Turns(n)' /\ N' = N /\ \A k \in 1..N : TextOf(k)' = TextOf(k)
  <2>1. cOver => down' = <<>>
    BY <1>4 DEF CallsInv
  <2> QED
    BY <1>1, <1>5, <2>1, ClientAsBefore
<1>7. AnswersInv(n) /\ ServedInv(n) /\ UpInv(n) /\ DownInv(n) /\ CodesInv(n)
  BY DEF StateInv
<1>8. AnswersInv(n)' /\ ServedInv(n)' /\ CodesInv(n)'
  BY <1>1, <1>5, <1>6, <1>7 DEF AnswersInv, ServedInv, CodesInv, Verdicts
<1>9. ASSUME NEW place \in Nat, NEW text, OnWay(up, place, text)
      PROVE  OnWay(up', place, text)
  <2>1. \A i \in 1..Len(up') : i \in 1..Len(up)
    BY <1>2
  <2> QED
    BY <1>2, <1>9, <2>1 DEF OnWay
<1>10. ASSUME NEW place \in Nat, NEW text, OnWay(down, place, text)
       PROVE  OnWay(down', place, text)
  <2>1. \A i \in 1..Len(down') : i \in 1..Len(down)
    BY <1>3
  <2> QED
    BY <1>3, <1>10, <2>1 DEF OnWay
<1>11. ASSUME R < n, spc = "receive" PROVE NextText(n)'
  <2>1. NextText(n)
    BY <1>7, <1>11 DEF UpInv
  <2>2. R + 1 \in 1..N /\ Len(sHeard) \in Nat
    BY <1>11, Sizes
  <2> DEFINE t == TextOf(R + 1)
  <2>3. TextOf(R + 1)' = t /\ Len(t) \in Nat
    <3>1. t \in Text
      BY <2>2, CallIs
    <3> QED
      BY <1>1, <1>5, <3>1, LenProperties DEF TextOf, Text
  <2>4. OnWay(up', Len(sHeard), t)
    BY <1>9, <2>1, <2>2 DEF NextText
  <2>5. HeardOf(TextOf(R + 1))'
    BY <1>1, <2>1, <2>3 DEF NextText, HeardOf, Near
  <2>6. OnWay(up, Len(sHeard), TextOf(R + 1))'
    BY <1>1, <2>3, <2>4 DEF OnWay
  <2> HIDE DEF t
  <2>7. Len(sHeard') + Len(up') > Len(TextOf(R + 1)') => Len(sHeard) + Len(up) > Len(t)
    BY <1>1, <1>2, <2>2, <2>3
  <2>8. (Len(sHeard) + Len(up) > Len(TextOf(R + 1)) => N > n /\ R + 1 = n)'
    BY <1>5, <1>6, <2>1, <2>7 DEF NextText, t
  <2> QED
    BY <1>1, <2>5, <2>6, <2>8 DEF NextText
<1>12. UpInv(n)'
  BY <1>1, <1>4, <1>5, <1>6, <1>7, <1>11 DEF UpInv
<1>13. DownInv(n)'
  <2>1. Replied(n)' <=> Replied(n)
    BY <1>1, <1>5 DEF Replied
  <2>2. ASSUME n > 0, Replied(n), NextResponse(n) PROVE NextResponse(n)'
    <3>1. n \in 1..R /\ n \in 1..N
      BY <2>2, Sizes DEF Replied
    <3>2. n \in 1..A
      BY <3>1, AnswerOf
    <3> DEFINE r == RespOf(n)
               h == calls[n].heard
    <3>3. RespOf(n)' = r /\ Len(r) \in Nat
      BY <1>1, <3>2, AnswerIs DEF RespOf
    <3>4. h \in Seq(RespTokens) /\ Len(h) \in Nat /\ calls'[n].heard = h
      <4>1. h \in Seq(RespTokens)
        BY <3>1, CallIs
      <4> QED
        BY <1>1, <4>1, LenProperties
    <3>5. OnWay(h, 0, r) /\ OnWay(down, Len(h), r) /\ (N = n => Len(h) + Len(down) <= Len(r))
      BY <2>2 DEF NextResponse
    <3> HIDE DEF r, h
    <3>6. OnWay(down', Len(h), r)
      BY <1>10, <3>4, <3>5
    <3>7. N' = n => Len(h) + Len(down') <= Len(r)
      BY <1>3, <1>6, <3>3, <3>4, <3>5
    <3> QED
      BY <1>1, <3>3, <3>4, <3>5, <3>6, <3>7 DEF NextResponse
  <2> QED
    BY <1>1, <1>4, <1>6, <1>7, <2>1, <2>2 DEF DownInv
<1> QED
  BY <1>6, <1>8, <1>12, <1>13 DEF StateInv

-----------------------------------------------------------------------------
(* The theorems.                                                           *)

LEMMA InvInit ==
  ASSUME Init PROVE LegacyJsInv
<1>1. /\ up = <<>> /\ down = <<>> /\ calls = <<>> /\ sHeard = <<>>
      /\ received = <<>> /\ answers = <<>>
      /\ cuts = 0 /\ broken = FALSE /\ flowing = FALSE /\ cOver = FALSE /\ sOver = FALSE
      /\ cutChar = FALSE /\ spc = "receive" /\ sAfter = "receive"
  BY DEF Init
<1>2. N = 0 /\ R = 0 /\ A = 0
  BY <1>1 DEF N, R, A
<1>3. TypeInv
  <2>1. up \in Text /\ down \in Seq(RespTokens) /\ sHeard \in Text
    BY <1>1 DEF Text
  <2>2. calls \in Seq(Calling)
    BY <1>1
  <2>3. received \in Seq(Parsable)
    BY <1>1
  <2>4. answers \in Seq(Answer)
    BY <1>1
  <2>5. {broken, flowing, cOver, sOver, cutChar} \subseteq BOOLEAN
    BY <1>1
  <2>6. cuts \in Nat /\ spc = "receive" /\ sAfter = "receive"
    BY <1>1
  <2> QED
    BY <2>1, <2>2, <2>3, <2>4, <2>5, <2>6 DEF TypeInv
<1>4. CallsInv
  BY <1>1, <1>2 DEF CallsInv
<1>5. Turns(0)
  BY <1>2 DEF Turns
<1>6. AnswersInv(0) /\ ServedInv(0) /\ CodesInv(0)
  BY <1>1, <1>2 DEF AnswersInv, ServedInv, CodesInv
<1>7. UpInv(0)
  BY <1>1, <1>2 DEF UpInv
<1>8. DownInv(0)
  BY <1>1, <1>2 DEF DownInv
<1>9. 0 \in 0..N
  BY <1>2
<1> QED
  BY <1>3, <1>4, <1>5, <1>6, <1>7, <1>8, <1>9 DEF LegacyJsInv, StateInv

LEMMA InvNext ==
  ASSUME LegacyJsInv, [Next]_vars PROVE LegacyJsInv'
<1>1. TypeInv /\ CallsInv
  BY DEF LegacyJsInv
<1>2. PICK n \in 0..N : StateInv(n)
  BY DEF LegacyJsInv
<1>3. TypeInv'
  <2>1. spc = "respond" => A > 0
    BY <1>2 DEF StateInv, AnswersInv
  <2> QED
    BY <1>1, <2>1, TypeStep
<1>4. ASSUME CallsInv', StateInv(n)' PROVE CallsInv' /\ \E p \in 0..N' : StateInv(p)'
  <2>1. n \in 0..N'
    BY <1>4 DEF StateInv, Turns
  <2> QED
    BY <1>4, <2>1
<1>5. CallsInv' /\ \E p \in 0..N' : StateInv(p)'
  <2>1. ASSUME NEW m \in Messages, Call(m)
        PROVE  CallsInv' /\ \E p \in 0..N' : StateInv(p)'
    BY <1>1, <1>2, <2>1, CallStep
  <2>2. ASSUME NEW k \in DOMAIN calls, WritePart(k) PROVE CallsInv' /\ StateInv(n)'
    BY <1>1, <1>2, <2>2, PartStep
  <2>3. ASSUME NEW k \in DOMAIN calls, WriteDone(k) PROVE CallsInv' /\ StateInv(n)'
    BY <1>1, <1>2, <2>3, DoneStep
  <2>4. ASSUME NEW k \in DOMAIN calls, WriteFails(k) PROVE CallsInv' /\ StateInv(n)'
    BY <1>1, <1>2, <2>4, FailsStep
  <2>5. CASE ClientData
    BY <1>1, <1>2, <1>4, <2>5, DataStep
  <2>6. CASE ClientEnd
    BY <1>1, <1>2, <1>4, <2>6, EndStep
  <2>7. CASE ClientError
    BY <1>1, <1>2, <1>4, <2>7, ErrorStep
  <2>8. CASE ServerData
    BY <1>1, <1>2, <1>4, <2>8, ServerDataStep
  <2>9. CASE ServerEnd
    BY <1>1, <1>2, <1>4, <2>9, ServerEndStep
  <2>10. CASE ServerError \/ ServerWriteFails
    BY <1>1, <1>2, <1>4, <2>10, ServerErrorStep
  <2>11. CASE ServerWriteDone
    BY <1>1, <1>2, <1>4, <2>11, ServerWriteDoneStep
  <2>12. CASE Break
    BY <1>1, <1>2, <1>4, <2>12, BreakStep
  <2>13. ASSUME (\E type \in Types : RegisterHandler(type)) \/ UNCHANGED vars
         PROVE  CallsInv' /\ StateInv(n)'
    <3>1. UNCHANGED <<up, down, broken, calls, cOver, spc, sHeard, sAfter, received,
                      answers, cutChar>>
      BY <2>13 DEF RegisterHandler, vars, clientVars, serverVars
    <3> QED
      BY <1>1, <1>2, <3>1, Untouched
  <2>14. CASE ClientNext
    BY <1>4, <2>1, <2>2, <2>3, <2>4, <2>5, <2>6, <2>7, <2>14
       DEF ClientNext, ClientSteps, Writes
  <2>15. CASE ServerNext
    BY <1>4, <2>8, <2>9, <2>10, <2>11, <2>13, <2>15 DEF ServerNext, ServerSteps
  <2> QED
    BY <1>4, <2>12, <2>13, <2>14, <2>15 DEF Next
<1> QED
  BY <1>3, <1>5 DEF LegacyJsInv

\* The inductive invariant of the connection (receive, send, receiveResponse
\* and handleConnection of atxp.js, whichever way their callbacks interleave).
THEOREM LegacyJsInvariant == Spec => []LegacyJsInv
<1>1. Init => LegacyJsInv
  BY InvInit
<1>2. LegacyJsInv /\ [Next]_vars => LegacyJsInv'
  BY InvNext
<1> QED
  BY <1>1, <1>2, PTL DEF Spec

LEMMA ServedAsSentHolds ==
  ASSUME LegacyJsInv PROVE ServedAsSent
<1>1. TypeInv /\ CallsInv
  BY DEF LegacyJsInv
<1>2. PICK n \in 0..N : StateInv(n)
  BY DEF LegacyJsInv
<1>3. N \in Nat /\ R \in Nat /\ A \in Nat /\ n \in Nat /\ n <= N
  BY <1>1, Sizes
<1>4. DOMAIN calls = 1..N /\ DOMAIN received = 1..R /\ DOMAIN answers = 1..A
  BY <1>1, LenProperties DEF TypeInv, N, R, A
<1>5. Turns(n) /\ AnswersInv(n) /\ ServedInv(n)
  BY <1>2 DEF StateInv
<1>6. ASSUME ~cutChar, NEW i \in DOMAIN received PROVE SentSo(i)
  <2> SUFFICES ASSUME i \in DOMAIN calls, InTurn(i) PROVE received[i] = calls[i].msg
    BY DEF SentSo
  <2>1. i \in 1..R /\ i <= n
    BY <1>4, <1>5 DEF Turns
  <2> QED
    BY <1>5, <1>6, <2>1 DEF ServedInv
<1>7. ASSUME NEW i \in DOMAIN answers, answers[i].why = "malformed"
      PROVE  broken \/ \E k \in DOMAIN calls : ~InTurn(k)
  <2>1. i \in 1..A /\ i \notin 1..R
    BY <1>4, <1>5, <1>7 DEF AnswersInv
  <2>2. A # R
    BY <2>1
  <2>3. broken \/ N > n
    BY <1>5, <2>2 DEF AnswersInv
  <2>4. N > n => N \in DOMAIN calls /\ ~InTurn(N)
    <3> SUFFICES ASSUME N > n PROVE N \in DOMAIN calls /\ ~InTurn(N)
      OBVIOUS
    <3>1. N \in 1..N /\ ~(N <= n)
      BY <1>3
    <3> QED
      BY <1>4, <1>5, <3>1 DEF Turns
  <2> QED
    BY <2>3, <2>4
<1>8. spc = "crashed" => broken
  BY <1>5 DEF AnswersInv
<1> QED
  BY <1>6, <1>7, <1>8 DEF ServedAsSent

\* However the texts are cut into chunks, the server deserializes what a call
\* made in turn sent, and turns none away (receive and deserialize of atxp.js).
THEOREM LegacyJsServes == Spec => []ServedAsSent
<1>1. LegacyJsInv => ServedAsSent
  BY ServedAsSentHolds
<1> QED
  BY <1>1, LegacyJsInvariant, PTL

LEMMA OwnCodeHolds ==
  ASSUME LegacyJsInv PROVE OwnCode
<1>1. TypeInv /\ CallsInv
  BY DEF LegacyJsInv
<1>2. PICK n \in 0..N : StateInv(n)
  BY DEF LegacyJsInv
<1>3. N \in Nat /\ R \in Nat /\ A \in Nat /\ n \in Nat /\ n <= N
  BY <1>1, Sizes
<1>4. DOMAIN calls = 1..N /\ DOMAIN received = 1..R /\ DOMAIN answers = 1..A
  BY <1>1, LenProperties DEF TypeInv, N, R, A
<1>5. Turns(n) /\ AnswersInv(n) /\ ServedInv(n) /\ CodesInv(n)
  BY <1>2 DEF StateInv
<1> SUFFICES ASSUME NEW k \in DOMAIN calls, calls[k].out = "code", InTurn(k)
             PROVE  IF calls[k].heard = <<>>
                      THEN /\ calls[k].code = ERROR /\ cOver
                           /\ broken \/ k \notin DOMAIN received
                      ELSE /\ k \in DOMAIN answers /\ answers[k].to = k
                           /\ calls[k].code = answers[k].code
                           /\ answers[k].why = "handler" =>
                                answers[k].code \in Verdicts(calls[k].msg)
  BY DEF OwnCode
<1>6. k \in 1..N /\ k <= n /\ k \in 1..n
  BY <1>3, <1>4, <1>5 DEF Turns
<1>7. CASE calls[k].heard = <<>>
  <2>1. calls[k].code = ERROR /\ cOver /\ (broken \/ k > R)
    BY <1>5, <1>6, <1>7 DEF CodesInv
  <2>2. k > R => k \notin 1..R
    BY <1>3, <1>6
  <2> QED
    BY <1>4, <1>7, <2>1, <2>2
<1> SUFFICES ASSUME calls[k].heard # <<>>
             PROVE  /\ k \in DOMAIN answers /\ answers[k].to = k
                    /\ calls[k].code = answers[k].code
                    /\ answers[k].why = "handler" =>
                         answers[k].code \in Verdicts(calls[k].msg)
  BY <1>7
<1>8. k <= R /\ calls[k].code = answers[k].code
  BY <1>5, <1>6 DEF CodesInv
<1>9. k \in 1..R
  BY <1>3, <1>6, <1>8
<1>10. k \in 1..A
  BY <1>1, <1>2, <1>9, AnswerOf
<1>11. /\ answers[k].to = k
       /\ answers[k].why = "handler" => answers[k].code \in Verdicts(received[k])
  BY <1>5, <1>9 DEF AnswersInv
<1>12. Verdicts(received[k]) = Verdicts(calls[k].msg)
  <2>1. LikeMsg(received[k], calls[k].msg)
    BY <1>5, <1>6, <1>9 DEF ServedInv
  <2>2. received[k].data \in Text
    <3>1. received[k] \in Parsable
      BY <1>1, <1>9, ElementOfSeq DEF TypeInv, R
    <3> QED
      BY <3>1 DEF Parsable
  <2>3. calls[k].msg.data \in Text
    <3>1. calls[k].msg \in Sent
      BY <1>1, <1>6, CallIs
    <3> QED
      BY <3>1, FieldsAre
  <2> QED
    BY <2>1, <2>2, <2>3, LikeVerdicts
<1> QED
  BY <1>4, <1>8, <1>10, <1>11, <1>12

\* The code a call made in turn returns (receiveResponse of atxp.js) is the
\* answer to its own message and the verdict on the data it sent, also when
\* overlapping calls listen to the same socket; or it is the ERROR of a call
\* that heard nothing, and then its socket is over, and the connection broke or
\* the server never took the message: that ERROR hides no answer.
THEOREM LegacyJsOwnCode == Spec => []OwnCode
<1>1. LegacyJsInv => OwnCode
  BY OwnCodeHolds
<1> QED
  BY <1>1, LegacyJsInvariant, PTL
=============================================================================
