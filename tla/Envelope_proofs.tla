-------------------------- MODULE Envelope_proofs --------------------------
(***************************************************************************)
(* Proofs about Envelope, for every base, every width of the integers and  *)
(* every length of the fields: with base 256, widths 8 and 4 and IntHalf   *)
(* 2^63 they are about the bytes of the program.                           *)
(***************************************************************************)
EXTENDS Envelope, WellFoundedInduction, SequenceTheorems, TLAPS

-----------------------------------------------------------------------------
(* Recursion.                                                              *)

\* A set that contains 0 and with every number the next one contains all.
LEMMA Reach ==
  ASSUME NEW S, 0 \in S, \A n \in Nat : n \in S => n + 1 \in S
  PROVE  Nat \subseteq S
<1> SUFFICES ASSUME Nat \ S # {} PROVE FALSE
  OBVIOUS
<1> DEFINE N == Nat \ S
<1>1. PICK m \in N : \A k \in N : <<k, m>> \notin OpToRel(<, Nat)
  <2>1. N \subseteq Nat /\ N # {}
    OBVIOUS
  <2> HIDE DEF N
  <2> QED
    BY <2>1, NatLessThanWellFounded, WFMin, Zenon
<1>2. \A k \in N : ~(k < m)
  BY <1>1, Zenon DEF OpToRel
<1>3. m \in Nat /\ m # 0 /\ m - 1 \in Nat
  OBVIOUS
<1>4. m - 1 \in S
  BY <1>2, <1>3
<1>5. (m - 1) + 1 \in S
  BY <1>3, <1>4
<1> QED
  BY <1>3, <1>5

\* The first n values of a sequence that starts with base and goes on by step.
IsRun(g, n, base, step) ==
  /\ g = [i \in 0..n |-> g[i]] /\ g[0] = base
  /\ \A i \in 1..n : g[i] = step[i - 1][g[i - 1]]

LEMMA Runs ==
  ASSUME NEW base, NEW step, NEW n \in Nat
  PROVE  \E g : IsRun(g, n, base, step)
<1> DEFINE S == {k \in Nat : \E g : IsRun(g, k, base, step)}
<1>1. 0 \in S
  <2>1. IsRun([i \in 0..0 |-> base], 0, base, step)
    BY DEF IsRun
  <2> QED
    BY <2>1
<1>2. ASSUME NEW k \in Nat, k \in S PROVE k + 1 \in S
  <2>1. PICK g : IsRun(g, k, base, step)
    BY <1>2
  <2> DEFINE h == [i \in 0..(k + 1) |-> IF i <= k THEN g[i] ELSE step[k][g[k]]]
  <2>2. h = [i \in 0..(k + 1) |-> h[i]] /\ \A i \in 0..k : h[i] = g[i]
    OBVIOUS
  <2>3. h[k + 1] = step[k][g[k]]
    OBVIOUS
  <2> HIDE DEF h
  <2>4. ASSUME NEW i \in 1..(k + 1) PROVE h[i] = step[i - 1][h[i - 1]]
    <3>1. CASE i = k + 1
      <4>1. i - 1 = k /\ k \in 0..k
        BY <3>1
      <4> QED
        BY <2>2, <2>3, <3>1, <4>1
    <3>2. CASE i # k + 1
      <4>1. i \in 1..k /\ i \in 0..k /\ i - 1 \in 0..k
        BY <3>2
      <4> QED
        BY <2>1, <2>2, <4>1 DEF IsRun
    <3> QED
      BY <3>1, <3>2
  <2>5. IsRun(h, k + 1, base, step)
    <3>1. h[0] = base
      BY <2>1, <2>2 DEF IsRun
    <3> QED
      BY <2>2, <2>4, <3>1 DEF IsRun
  <2> QED
    BY <2>5
<1> HIDE DEF S
<1>3. n \in S
  BY <1>1, <1>2, Reach
<1> QED
  BY <1>3 DEF S

\* There is one such sequence.
LEMMA RunsAgree ==
  ASSUME NEW base, NEW step, NEW n \in Nat, NEW m \in Nat, NEW g, NEW h,
         IsRun(g, n, base, step), IsRun(h, m, base, step)
  PROVE  \A i \in Nat : i <= n /\ i <= m => g[i] = h[i]
<1> DEFINE S == {i \in Nat : i <= n /\ i <= m => g[i] = h[i]}
<1>1. 0 \in S
  BY DEF IsRun
<1>2. ASSUME NEW i \in Nat, i \in S PROVE i + 1 \in S
  <2> SUFFICES ASSUME i + 1 <= n, i + 1 <= m PROVE g[i + 1] = h[i + 1]
    OBVIOUS
  <2>1. g[i] = h[i]
    BY <1>2
  <2>2. i + 1 \in 1..n /\ i + 1 \in 1..m /\ (i + 1) - 1 = i
    OBVIOUS
  <2>3. g[i + 1] = step[i][g[i]]
    <3>1. \A k \in 1..n : g[k] = step[k - 1][g[k - 1]]
      BY DEF IsRun
    <3> QED
      BY <2>2, <3>1
  <2>4. h[i + 1] = step[i][h[i]]
    <3>1. \A k \in 1..m : h[k] = step[k - 1][h[k - 1]]
      BY DEF IsRun
    <3> QED
      BY <2>2, <3>1
  <2> QED
    BY <2>1, <2>3, <2>4
<1> HIDE DEF S
<1>3. Nat \subseteq S
  BY <1>1, <1>2, Reach
<1> QED
  BY <1>3 DEF S

\* It has values for all numbers.
IsRecursion(f, base, step) ==
  /\ f = [n \in Nat |-> f[n]] /\ f[0] = base
  /\ \A n \in Nat : f[n + 1] = step[n][f[n]]

LEMMA Recursion ==
  ASSUME NEW base, NEW step
  PROVE  \E f : IsRecursion(f, base, step)
<1> DEFINE G(n) == CHOOSE g : IsRun(g, n, base, step)
           f == [n \in Nat |-> G(n)[n]]
<1>1. \A n \in Nat : IsRun(G(n), n, base, step)
  BY Runs
<1>2. DOMAIN f = Nat /\ f = [n \in Nat |-> f[n]] /\ \A n \in Nat : f[n] = G(n)[n]
  OBVIOUS
<1> HIDE DEF G, f
<1>3. f[0] = base
  BY <1>1, <1>2 DEF IsRun
<1>4. ASSUME NEW n \in Nat PROVE f[n + 1] = step[n][f[n]]
  <2>1. n + 1 \in Nat /\ n + 1 \in 1..(n + 1) /\ (n + 1) - 1 = n
    OBVIOUS
  <2>2. G(n + 1)[n + 1] = step[n][G(n + 1)[n]]
    BY <1>1, <2>1 DEF IsRun
  <2>3. G(n + 1)[n] = G(n)[n]
    <3>1. IsRun(G(n), n, base, step) /\ IsRun(G(n + 1), n + 1, base, step)
      BY <1>1, <2>1
    <3> QED
      BY <2>1, <3>1, RunsAgree
  <2> QED
    BY <1>2, <2>1, <2>2, <2>3
<1> QED
  BY <1>2, <1>3, <1>4 DEF IsRecursion

-----------------------------------------------------------------------------
(* Numbers and their digits.                                               *)

LEMMA Powers ==
  /\ Power[0] = 1
  /\ \A k \in Nat : Power[k + 1] = Base * Power[k] /\ Power[k] \in Nat /\ Power[k] > 0
<1> DEFINE step == [k \in Nat |-> [x \in Nat |-> Base * x]]
<1>2. \A n \in Nat, x \in Nat : step[n][x] = Base * x
  OBVIOUS
<1> HIDE DEF step
<1>0. PICK f : IsRecursion(f, 1, step)
  BY Recursion
<1>1. /\ f = [n \in Nat |-> f[n]] /\ f[0] = 1
      /\ \A n \in Nat : f[n + 1] = step[n][f[n]]
  BY <1>0 DEF IsRecursion
<1>3. \A n \in Nat : f[n] \in Nat /\ f[n] > 0
  <2> DEFINE S == {n \in Nat : f[n] \in Nat /\ f[n] > 0}
  <2>1. 0 \in S
    BY <1>1
  <2>2. ASSUME NEW n \in Nat, n \in S PROVE n + 1 \in S
    <3>1. f[n] \in Nat /\ f[n] > 0 /\ f[n + 1] = Base * f[n]
      BY <1>1, <1>2, <2>2
    <3>2. \A x, y \in Nat : x > 0 /\ y > 0 => x * y \in Nat /\ x * y > 0
      OBVIOUS
    <3>3. f[n + 1] \in Nat /\ f[n + 1] > 0
      BY <3>1, <3>2, BaseAssumption
    <3> QED
      BY <3>3
  <2> HIDE DEF S
  <2>3. Nat \subseteq S
    BY <2>1, <2>2, Reach
  <2> QED
    BY <2>3 DEF S
<1>4. \A n \in Nat : f[n + 1] = Base * f[n]
  BY <1>1, <1>2, <1>3
<1>5. f = [n \in Nat |-> IF n = 0 THEN 1 ELSE Base * f[n - 1]]
  <2>1. ASSUME NEW n \in Nat PROVE f[n] = IF n = 0 THEN 1 ELSE Base * f[n - 1]
    <3>1. CASE n = 0
      BY <1>1, <3>1
    <3>2. CASE n # 0
      <4>1. n - 1 \in Nat /\ (n - 1) + 1 = n
        BY <3>2
      <4> QED
        BY <1>4, <3>2, <4>1
    <3> QED
      BY <3>1, <3>2
  <2> QED
    BY <1>1, <2>1
<1>6. Power = [n \in Nat |-> IF n = 0 THEN 1 ELSE Base * Power[n - 1]]
  BY <1>5 DEF Power
<1> DEFINE P == Power
<1>7. P = [n \in Nat |-> IF n = 0 THEN 1 ELSE Base * P[n - 1]]
  BY <1>6
<1> HIDE DEF P
<1>8. P[0] = 1 /\ \A n \in Nat : P[n + 1] = Base * P[n]
  <2>1. P[0] = 1
    BY <1>7
  <2>2. ASSUME NEW n \in Nat PROVE P[n + 1] = Base * P[n]
    <3>1. n + 1 \in Nat /\ n + 1 # 0 /\ (n + 1) - 1 = n
      OBVIOUS
    <3> QED
      BY <1>7, <3>1
  <2> QED
    BY <2>1, <2>2
<1>9. \A n \in Nat : P[n] = f[n]
  <2> DEFINE S == {n \in Nat : P[n] = f[n]}
  <2>1. 0 \in S
    BY <1>1, <1>8
  <2>2. ASSUME NEW n \in Nat, n \in S PROVE n + 1 \in S
    <3>1. P[n + 1] = f[n + 1]
      BY <1>4, <1>8, <2>2
    <3> QED
      BY <3>1
  <2> HIDE DEF S
  <2>3. Nat \subseteq S
    BY <2>1, <2>2, Reach
  <2> QED
    BY <2>3 DEF S
<1> QED
  BY <1>3, <1>8, <1>9 DEF P

LEMMA PowersPositive ==
  \A k \in Nat : Power[k] \in Nat /\ Power[k] > 0
BY Powers

\* Division with a rest is what the provers know of \div and %.
LEMMA DivMod ==
  ASSUME NEW d \in Nat, d > 0, NEW n \in Nat
  PROVE  /\ n \div d \in Nat /\ n % d \in 0..(d - 1)
         /\ n = d * (n \div d) + (n % d)
<1>1. n \div d \in Int /\ n \div d >= 0 /\ n % d \in 0..(d - 1)
  OBVIOUS
<1> DEFINE q == n \div d
<1>2. q \in Nat
  BY <1>1
<1>3. \E r \in 0..(d - 1) : n = d * q + r
  OBVIOUS
<1>4. PICK r \in 0..(d - 1) : n = d * q + r
  BY <1>3
<1> HIDE DEF q
<1>5. n % d = r
  BY <1>2, <1>4
<1> QED
  BY <1>1, <1>2, <1>4, <1>5 DEF q

LEMMA DivIs ==
  ASSUME NEW d \in Nat, NEW q \in Nat, NEW r \in Nat, r < d
  PROVE  (d * q + r) \div d = q /\ (d * q + r) % d = r
OBVIOUS

\* Digit by digit from the right, or a number of digits at once.
LEMMA DivDiv ==
  ASSUME NEW b \in Nat, b > 0, NEW p \in Nat, p > 0, NEW n \in Nat
  PROVE  n \div (b * p) = (n \div p) \div b
<1> DEFINE x == n \div p
           r == n % p
           q == x \div b
           s == x % b
<1>1. x \in Nat /\ r \in 0..(p - 1) /\ n = p * x + r
  BY DivMod
<1>2. q \in Nat /\ s \in 0..(b - 1) /\ x = b * q + s
  BY <1>1, DivMod
<1> HIDE DEF x, r, q, s
<1>3. p * s + r \in Nat /\ p * s + r < b * p
  <2>1. p * s <= p * (b - 1)
    BY <1>2
  <2>2. p * (b - 1) = b * p - p
    OBVIOUS
  <2>3. p * s \in Nat
    BY <1>2
  <2> DEFINE y == p * s
             z == p * (b - 1)
             w == b * p
  <2>4. y <= z /\ z = w - p /\ y \in Nat /\ w \in Nat /\ z \in Int
    BY <2>1, <2>2, <2>3
  <2> HIDE DEF y, z, w
  <2>5. y + r \in Nat /\ y + r < w
    BY <1>1, <2>4
  <2> QED
    BY <2>5 DEF y, w
<1>4. n = (b * p) * q + (p * s + r)
  <2>1. p * (b * q + s) = (b * p) * q + p * s
    BY <1>2
  <2> DEFINE y == p * (b * q + s)
             z == (b * p) * q
             w == p * s
  <2>2. y = z + w /\ n = y + r /\ z \in Nat /\ w \in Nat /\ y \in Nat
    BY <1>1, <1>2, <2>1
  <2> HIDE DEF y, z, w
  <2>3. n = z + (w + r)
    BY <1>1, <2>2
  <2> QED
    BY <2>3 DEF z, w
<1>5. b * p \in Nat
  OBVIOUS
<1>6. n \div (b * p) = q
  <2> DEFINE d == b * p
             t == p * s + r
  <2>1. d \in Nat /\ t \in Nat /\ t < d /\ n = d * q + t
    BY <1>3, <1>4, <1>5
  <2> HIDE DEF d, t
  <2>2. n \div d = q
    BY <1>2, <2>1, DivIs
  <2> QED
    BY <2>2 DEF d
<1> QED
  BY <1>6 DEF q, x

LEMMA Readings ==
  ASSUME NEW d \in Seq(Byte)
  PROVE  /\ Reading(d)[0] = 0
         /\ \A i \in 1..Len(d) : Reading(d)[i] = Base * Reading(d)[i - 1] + d[i]
         /\ \A i \in 0..Len(d) : Reading(d)[i] \in Nat
<1> DEFINE n == Len(d)
           step == [k \in Nat |-> [x \in Nat |-> x * Base + d[k + 1]]]
<1>1. n \in Nat /\ \A i \in 1..n : d[i] \in Byte
  OBVIOUS
<1>2. \A k \in Nat, x \in Nat : step[k][x] = x * Base + d[k + 1]
  OBVIOUS
<1> HIDE DEF n, step
<1>3. PICK g : IsRun(g, n, 0, step)
  BY <1>1, Runs
<1>4. \A i \in Nat : i <= n => g[i] \in Nat
  <2> DEFINE S == {i \in Nat : i <= n => g[i] \in Nat}
  <2>1. 0 \in S
    BY <1>3 DEF IsRun
  <2>2. ASSUME NEW i \in Nat, i \in S PROVE i + 1 \in S
    <3> SUFFICES ASSUME i + 1 <= n PROVE g[i + 1] \in Nat
      OBVIOUS
    <3>1. g[i] \in Nat /\ i + 1 \in 1..n /\ (i + 1) - 1 = i
      BY <1>1, <2>2
    <3>2. g[i + 1] = step[i][g[i]]
      BY <1>3, <3>1 DEF IsRun
    <3>3. g[i + 1] = g[i] * Base + d[i + 1]
      BY <1>2, <3>1, <3>2
    <3>4. d[i + 1] \in Nat
      BY <1>1, <3>1, BaseAssumption DEF Byte
    <3>5. g[i] * Base \in Nat
      BY <3>1, BaseAssumption
    <3> QED
      BY <3>3, <3>4, <3>5
  <2> HIDE DEF S
  <2>3. Nat \subseteq S
    BY <2>1, <2>2, Reach
  <2> QED
    BY <2>3 DEF S
<1>5. \A i \in 1..n : g[i] = g[i - 1] * Base + d[i]
  <2> TAKE i \in 1..n
  <2>1. i - 1 \in Nat /\ i - 1 <= n /\ (i - 1) + 1 = i
    BY <1>1
  <2>2. g[i] = step[i - 1][g[i - 1]]
    BY <1>3 DEF IsRun
  <2>3. g[i - 1] \in Nat
    BY <1>4, <2>1
  <2> QED
    BY <1>2, <2>1, <2>2, <2>3
<1>6. g = [i \in 0..n |-> g[i]] /\ g[0] = 0
  BY <1>3 DEF IsRun
<1>7. g = [i \in 0..n |-> IF i = 0 THEN 0 ELSE g[i - 1] * Base + d[i]]
  <2>1. \A i \in 0..n : i = 0 \/ i \in 1..n
    BY <1>1
  <2>2. \A i \in 0..n : g[i] = IF i = 0 THEN 0 ELSE g[i - 1] * Base + d[i]
    BY <1>1, <1>5, <1>6, <2>1
  <2> QED
    BY <1>6, <2>2
<1> DEFINE v == Reading(d)
<1>8. v = [i \in 0..n |-> IF i = 0 THEN 0 ELSE v[i - 1] * Base + d[i]]
  BY <1>7 DEF Reading, n
<1> HIDE DEF v
<1>9. v[0] = 0 /\ \A i \in 1..n : v[i] = v[i - 1] * Base + d[i]
  BY <1>1, <1>8
<1>10. \A i \in Nat : i <= n => v[i] = g[i]
  <2> DEFINE S == {i \in Nat : i <= n => v[i] = g[i]}
  <2>1. 0 \in S
    BY <1>6, <1>9
  <2>2. ASSUME NEW i \in Nat, i \in S PROVE i + 1 \in S
    <3> SUFFICES ASSUME i + 1 <= n PROVE v[i + 1] = g[i + 1]
      OBVIOUS
    <3>1. v[i] = g[i] /\ i + 1 \in 1..n /\ (i + 1) - 1 = i
      BY <1>1, <2>2
    <3> QED
      BY <1>5, <1>9, <3>1
  <2> HIDE DEF S
  <2>3. Nat \subseteq S
    BY <2>1, <2>2, Reach
  <2> QED
    BY <2>3 DEF S
<1>11. \A i \in 0..n : v[i] \in Nat
  BY <1>1, <1>4, <1>10
<1>12. \A i \in 1..n : v[i] = Base * v[i - 1] + d[i]
  <2> TAKE i \in 1..n
  <2>1. i - 1 \in 0..n
    BY <1>1
  <2>2. v[i - 1] * Base = Base * v[i - 1]
    BY <1>11, <2>1, BaseAssumption
  <2> QED
    BY <1>9, <2>2
<1> QED
  BY <1>9, <1>11, <1>12 DEF v, n

\* The digits of a number are bytes, as many as asked for.
LEMMA Digits ==
  ASSUME NEW w \in Nat, NEW n \in Nat
  PROVE  /\ BigEndian(n, w) \in Seq(Byte) /\ Len(BigEndian(n, w)) = w
         /\ \A i \in 1..w : BigEndian(n, w)[i] = (n \div Power[w - i]) % Base
<1>1. ASSUME NEW i \in 1..w PROVE (n \div Power[w - i]) % Base \in Byte
  <2>1. w - i \in Nat
    OBVIOUS
  <2>2. Power[w - i] \in Nat /\ Power[w - i] > 0
    BY <2>1, PowersPositive
  <2> DEFINE p == Power[w - i]
             x == n \div p
  <2>3. x \in Nat
    BY <2>2, DivMod
  <2> HIDE DEF x
  <2>4. x % Base \in 0..(Base - 1)
    BY <2>3, BaseAssumption, DivMod
  <2> QED
    BY <2>4 DEF x, Byte
<1>2. BigEndian(n, w) = [i \in 1..w |-> (n \div Power[w - i]) % Base]
  BY DEF BigEndian
<1>3. BigEndian(n, w) \in [1..w -> Byte]
  BY <1>1, <1>2
<1>4. BigEndian(n, w) \in Seq(Byte)
  BY <1>3
<1>5. Len(BigEndian(n, w)) = w
  BY <1>3
<1> QED
  BY <1>2, <1>4, <1>5

\* A number is read back from its digits.
LEMMA NumberOfDigits ==
  ASSUME NEW w \in Nat, NEW n \in Values(w)
  PROVE  Number(BigEndian(n, w)) = n
<1> DEFINE d == BigEndian(n, w)
           v == Reading(d)
<1>1. n \in Nat /\ n < Power[w] /\ Power[w] \in Nat
  BY PowersPositive DEF Values
<1>2. d \in Seq(Byte) /\ Len(d) = w /\ \A i \in 1..w : d[i] = (n \div Power[w - i]) % Base
  BY <1>1, Digits
<1> HIDE DEF d
<1>3. /\ v[0] = 0 /\ \A i \in 1..w : v[i] = Base * v[i - 1] + d[i]
      /\ \A i \in 0..w : v[i] \in Nat
  BY <1>2, Readings
<1> HIDE DEF v
<1>4. \A i \in Nat : i <= w => v[i] = n \div Power[w - i]
  <2> DEFINE S == {i \in Nat : i <= w => v[i] = n \div Power[w - i]}
  <2>1. 0 \in S
    <3> DEFINE p == Power[w]
    <3>1. p \in Nat /\ n < p
      BY <1>1
    <3>2. n \div p = 0
      <4> HIDE DEF p
      <4>1. (p * 0 + n) \div p = 0
        BY <1>1, <3>1, DivIs
      <4>2. p * 0 + n = n
        BY <1>1, <3>1
      <4> QED
        BY <4>1, <4>2
    <3>3. w - 0 = w
      OBVIOUS
    <3> QED
      BY <1>3, <3>2, <3>3
  <2>2. ASSUME NEW i \in Nat, i \in S PROVE i + 1 \in S
    <3> SUFFICES ASSUME i + 1 <= w PROVE v[i + 1] = n \div Power[w - (i + 1)]
      OBVIOUS
    <3>1. i <= w /\ i + 1 \in 1..w /\ (i + 1) - 1 = i
      OBVIOUS
    <3>2. v[i] = n \div Power[w - i]
      BY <2>2, <3>1
    <3> DEFINE k == w - (i + 1)
               p == Power[k]
               x == n \div p
    <3>3. k \in Nat /\ k + 1 = w - i
      BY <3>1
    <3> HIDE DEF k
    <3>4. p \in Nat /\ p > 0 /\ Power[w - i] = Base * p
      BY <3>3, Powers, PowersPositive
    <3> HIDE DEF p
    <3>5. n \div Power[w - i] = x \div Base
      BY <1>1, <3>4, BaseAssumption, DivDiv
    <3>6. x \in Nat
      BY <1>1, <3>4, DivMod
    <3>7. d[i + 1] = x % Base
      BY <1>2, <3>1 DEF x, p, k
    <3> HIDE DEF x
    <3>8. x = Base * (x \div Base) + (x % Base)
      BY <3>6, BaseAssumption, DivMod
    <3>9. v[i + 1] = Base * v[i] + d[i + 1]
      BY <1>3, <3>1
    <3>10. v[i + 1] = x
      BY <3>2, <3>5, <3>7, <3>8, <3>9
    <3> QED
      BY <3>10 DEF x, p, k
  <2> HIDE DEF S
  <2>3. Nat \subseteq S
    BY <2>1, <2>2, Reach
  <2> QED
    BY <2>3 DEF S
<1>5. v[w] = n \div Power[0]
  <2>1. w - w = 0 /\ w <= w
    OBVIOUS
  <2> QED
    BY <1>4, <2>1
<1>6. n \div 1 = n
  BY <1>1
<1>7. v[w] = n
  BY <1>5, <1>6, Powers
<1> QED
  BY <1>2, <1>7 DEF Number, v, d

\* What is read from some bytes is a number of that many digits, and they are
\* its digits.
LEMMA DigitsOfNumber ==
  ASSUME NEW d \in Seq(Byte)
  PROVE  /\ Number(d) \in Values(Len(d))
         /\ BigEndian(Number(d), Len(d)) = d
<1> DEFINE w == Len(d)
           v == Reading(d)
<1>0. w \in Nat /\ \A i \in 1..w : d[i] \in Byte
  OBVIOUS
<1>1. w \in Nat /\ \A i \in 1..w : d[i] \in 0..(Base - 1)
  BY <1>0 DEF Byte
<1>2. /\ v[0] = 0 /\ \A i \in 1..w : v[i] = Base * v[i - 1] + d[i]
      /\ \A i \in 0..w : v[i] \in Nat
  BY Readings
<1>3. Number(d) = v[w]
  BY DEF Number
<1> HIDE DEF v, w
<1>4. \A i \in Nat : i <= w => v[i] < Power[i]
  <2> DEFINE S == {i \in Nat : i <= w => v[i] < Power[i]}
  <2>1. 0 \in S
    BY <1>2, Powers
  <2>2. ASSUME NEW i \in Nat, i \in S PROVE i + 1 \in S
    <3> SUFFICES ASSUME i + 1 <= w PROVE v[i + 1] < Power[i + 1]
      OBVIOUS
    <3>1. i <= w /\ i + 1 \in 1..w /\ (i + 1) - 1 = i /\ i \in 0..w
      BY <1>1
    <3> DEFINE p == Power[i]
               x == v[i]
               t == d[i + 1]
    <3>2. p \in Nat /\ x \in Nat /\ x < p /\ t \in 0..(Base - 1)
      BY <1>1, <1>2, <2>2, <3>1, PowersPositive
    <3>3. v[i + 1] = Base * x + t /\ Power[i + 1] = Base * p
      BY <1>2, <3>1, Powers
    <3> HIDE DEF p, x, t
    <3>4. Base * (x + 1) <= Base * p
      BY <3>2, BaseAssumption
    <3>5. Base * (x + 1) = Base * x + Base
      BY <3>2, BaseAssumption
    <3>6. Base * x + t < Base * p
      <4> DEFINE y == Base * x
                 z == Base * p
      <4>1. y \in Nat /\ z \in Nat
        BY <3>2, BaseAssumption
      <4>2. y + Base <= z
        BY <3>4, <3>5
      <4> HIDE DEF y, z
      <4>3. y + t < z
        BY <3>2, <4>1, <4>2, BaseAssumption
      <4> QED
        BY <4>3 DEF y, z
    <3> QED
      BY <3>3, <3>6
  <2> HIDE DEF S
  <2>3. Nat \subseteq S
    BY <2>1, <2>2, Reach
  <2> QED
    BY <2>3 DEF S
<1>5. w <= w /\ w \in 0..w /\ w \in Nat
  BY <1>1
<1>6. v[w] \in Nat /\ v[w] < Power[w]
  BY <1>2, <1>4, <1>5
<1>7. v[w] \in Values(w)
  BY <1>5, <1>6, PowersPositive DEF Values
<1>8. \A k \in Nat : k <= w => v[w] \div Power[k] = v[w - k]
  <2> DEFINE S == {k \in Nat : k <= w => v[w] \div Power[k] = v[w - k]}
  <2>1. 0 \in S
    <3>1. w - 0 = w
      BY <1>1
    <3>2. v[w] \div 1 = v[w]
      BY <1>6
    <3> QED
      BY <3>1, <3>2, Powers
  <2>2. ASSUME NEW k \in Nat, k \in S PROVE k + 1 \in S
    <3> SUFFICES ASSUME k + 1 <= w PROVE v[w] \div Power[k + 1] = v[w - (k + 1)]
      OBVIOUS
    <3> DEFINE i == w - (k + 1)
               p == Power[k]
               x == v[i]
               t == d[i + 1]
               n == v[w]
    <3>1. i \in 0..w /\ w - k = i + 1 /\ i + 1 \in 1..w /\ (i + 1) - 1 = i /\ k <= w
      BY <1>1
    <3> HIDE DEF i
    <3>2. n \div p = v[i + 1]
      BY <2>2, <3>1
    <3>3. v[i + 1] = Base * x + t
      BY <1>2, <3>1
    <3>4. x \in Nat /\ t \in Nat /\ t < Base
      BY <1>1, <1>2, <3>1, BaseAssumption
    <3> HIDE DEF x, t
    <3>5. (Base * x + t) \div Base = x
      BY <3>4, BaseAssumption, DivIs
    <3>6. p \in Nat /\ p > 0 /\ Power[k + 1] = Base * p
      BY Powers, PowersPositive
    <3> HIDE DEF p
    <3>7. n \in Nat
      BY <1>6
    <3> HIDE DEF n
    <3>8. n \div (Base * p) = (n \div p) \div Base
      BY <3>6, <3>7, BaseAssumption, DivDiv
    <3>9. n \div Power[k + 1] = x
      BY <3>2, <3>3, <3>5, <3>6, <3>8
    <3> QED
      BY <3>9 DEF n, x, i
  <2> HIDE DEF S
  <2>3. Nat \subseteq S
    BY <2>1, <2>2, Reach
  <2> QED
    BY <2>3 DEF S
<1> DEFINE e == BigEndian(v[w], w)
<1>9. e \in Seq(Byte) /\ Len(e) = w
      /\ \A i \in 1..w : e[i] = (v[w] \div Power[w - i]) % Base
  BY <1>5, <1>6, Digits
<1> HIDE DEF e
<1>10. \A i \in 1..w : e[i] = d[i]
  <2> TAKE i \in 1..w
  <2>1. w - i \in Nat /\ w - i <= w /\ w - (w - i) = i /\ i - 1 \in 0..w
    BY <1>1
  <2>2. v[w] \div Power[w - i] = v[i]
    BY <1>8, <2>1
  <2>3. v[i] = Base * v[i - 1] + d[i] /\ v[i - 1] \in Nat
    BY <1>2, <2>1
  <2>4. d[i] \in Nat /\ d[i] < Base
    BY <1>1, BaseAssumption
  <2>5. (Base * v[i - 1] + d[i]) % Base = d[i]
    BY <2>3, <2>4, BaseAssumption, DivIs
  <2> QED
    BY <1>9, <2>2, <2>3, <2>5
<1>11. e = d
  BY <1>9, <1>10, SeqEqual DEF w
<1> QED
  BY <1>3, <1>7, <1>11 DEF e, w

-----------------------------------------------------------------------------
(* Strings of bytes, joined and cut.                                       *)

Strings == Seq(Byte)
Join(a, c) == a \o c

LEMMA Joins ==
  ASSUME NEW a \in Strings, NEW c \in Strings
  PROVE  /\ Join(a, c) \in Strings
         /\ Len(a) \in Nat
         /\ Len(Join(a, c)) = Len(a) + Len(c)
         /\ Join(a, << >>) = a /\ Join(<< >>, a) = a
         /\ << >> \in Strings /\ Len(<< >>) = 0
BY ConcatProperties, ConcatEmptySeq DEF Join, Strings

LEMMA Associate ==
  ASSUME NEW a \in Strings, NEW c \in Strings, NEW d \in Strings
  PROVE  Join(Join(a, c), d) = Join(a, Join(c, d))
BY ConcatAssociative DEF Join, Strings

\* What is cut out of the middle is what was put there.
LEMMA Cut ==
  ASSUME NEW a \in Strings, NEW c \in Strings, NEW d \in Strings
  PROVE  SubSeq(Join(a, Join(c, d)), Len(a) + 1, Len(a) + Len(c)) = c
<1> DEFINE e == Join(c, d)
           b == Join(a, e)
           k == Len(a)
           l == Len(c)
<1>0. e \in Strings /\ l \in Nat /\ Len(d) \in Nat /\ Len(e) = l + Len(d)
  BY Joins
<1> HIDE DEF e
<1>1. /\ b \in Seq(Byte) /\ k \in Nat /\ l \in Nat /\ Len(b) = k + (l + Len(d))
      /\ Len(d) \in Nat /\ c \in Seq(Byte)
  <2>1. Join(a, e) \in Strings
    BY <1>0, Joins
  <2>2. Len(Join(a, e)) = Len(a) + Len(e)
    BY <1>0, Joins
  <2>3. Len(a) \in Nat
    BY Joins
  <2> QED
    BY <1>0, <2>1, <2>2, <2>3 DEF Strings
<1>2. \A i \in 1..l : b[k + i] = c[i]
  <2> TAKE i \in 1..l
  <2>1. k + i \in 1..(k + Len(e)) /\ ~(k + i <= k) /\ (k + i) - k = i
    BY <1>0, <1>1
  <2>2. b[k + i] = e[i]
    BY <1>0, <2>1, ConcatProperties DEF Join, Strings
  <2>3. i \in 1..(l + Len(d)) /\ i <= l
    BY <1>1
  <2>4. e[i] = c[i]
    BY <2>3, ConcatProperties DEF Join, Strings, e
  <2> QED
    BY <2>2, <2>4
<1> HIDE DEF b, k, l
<1>3. /\ SubSeq(b, k + 1, k + l) \in Seq(Byte)
      /\ Len(SubSeq(b, k + 1, k + l)) = l
      /\ \A i \in 1..l : SubSeq(b, k + 1, k + l)[i] = b[k + i]
  <2>1. \A i \in (k + 1)..(k + l) : b[i] \in Byte
    BY <1>1
  <2>2. k + 1 \in Int /\ k + l \in Int
    BY <1>1
  <2> DEFINE t == SubSeq(b, k + 1, k + l)
  <2>3. /\ t \in Seq(Byte)
        /\ Len(t) = IF k + 1 <= k + l THEN (k + l) - (k + 1) + 1 ELSE 0
        /\ \A i \in 1..((k + l) - (k + 1) + 1) : t[i] = b[(k + 1) + i - 1]
    BY <2>1, <2>2, SubSeqProperties
  <2> HIDE DEF t
  <2>4. (k + l) - (k + 1) + 1 = l /\ \A i \in 1..l : (k + 1) + i - 1 = k + i
    BY <1>1
  <2>5. Len(t) = l
    BY <1>1, <2>3
  <2>6. \A i \in 1..l : t[i] = b[k + i]
    BY <2>3, <2>4
  <2> QED
    BY <2>3, <2>5, <2>6 DEF t
<1>4. SubSeq(b, k + 1, k + l) = c
  BY <1>1, <1>2, <1>3, SeqEqual DEF l
<1> QED
  BY <1>4 DEF b, k, l, e

\* A string can be cut anywhere.
LEMMA Cuts ==
  ASSUME NEW c \in Strings, NEW n \in Nat, n <= Len(c)
  PROVE  \E x \in Strings, y \in Strings : Len(x) = n /\ c = Join(x, y)
<1> DEFINE x == SubSeq(c, 1, n)
           y == SubSeq(c, n + 1, Len(c))
<1>1. c \in Seq(Byte) /\ Len(c) \in Nat /\ \A i \in 1..Len(c) : c[i] \in Byte
  BY DEF Strings
<1>2. x \in Seq(Byte) /\ Len(x) = n /\ \A i \in 1..n : x[i] = c[i]
  BY <1>1, SubSeqProperties
<1>3. y \in Seq(Byte)
  BY <1>1, SubSeqProperties
<1>4. Len(y) = Len(c) - n
  BY <1>1, SubSeqProperties
<1>5. \A i \in 1..(Len(c) - n) : y[i] = c[n + i]
  <2>1. \A i \in (n + 1)..Len(c) : c[i] \in Byte
    BY <1>1
  <2>2. \A i \in 1..(Len(c) - (n + 1) + 1) : y[i] = c[(n + 1) + i - 1]
    BY <1>1, <2>1, SubSeqProperties
  <2>3. \A i \in 1..(Len(c) - n) : i \in 1..(Len(c) - (n + 1) + 1) /\ (n + 1) + i - 1 = n + i
    BY <1>1
  <2> HIDE DEF y
  <2> QED
    BY <2>2, <2>3
<1> HIDE DEF x, y
<1>6. Join(x, y) \in Seq(Byte) /\ Len(Join(x, y)) = Len(c)
  BY <1>1, <1>2, <1>3, <1>4, ConcatProperties DEF Join
<1>7. \A i \in 1..Len(c) : Join(x, y)[i] = c[i]
  <2> TAKE i \in 1..Len(c)
  <2>1. Join(x, y)[i] = IF i <= n THEN x[i] ELSE y[i - n]
    BY <1>1, <1>2, <1>3, <1>4, ConcatProperties DEF Join
  <2>2. CASE i <= n
    BY <1>2, <2>1, <2>2
  <2>3. CASE ~(i <= n)
    <3>1. i - n \in 1..(Len(c) - n) /\ n + (i - n) = i
      BY <1>1, <2>3
    <3> QED
      BY <1>5, <2>1, <2>3, <3>1
  <2> QED
    BY <2>2, <2>3
<1>8. c = Join(x, y)
  BY <1>1, <1>6, <1>7, SeqEqual
<1> QED
  BY <1>2, <1>3, <1>8 DEF Strings

-----------------------------------------------------------------------------
(* A cursor between what was read and what is left.                        *)

Here(x, y, v) == [b |-> Join(x, y), off |-> Len(x), went |-> "ok", val |-> v]

\* An integer is read where one stands.
LEMMA ReadsInteger ==
  ASSUME NEW w \in Nat, NEW n \in Values(w), NEW x \in Strings, NEW z \in Strings, NEW v
  PROVE  readUint(Here(x, Join(BigEndian(n, w), z), v), w)
           = Here(Join(x, BigEndian(n, w)), z, n)
<1> DEFINE d == BigEndian(n, w)
           b == Join(x, Join(d, z))
           k == Len(x)
<1>1. n \in Nat
  BY PowersPositive DEF Values
<1>2. d \in Strings /\ Len(d) = w /\ Number(d) = n
  BY <1>1, Digits, NumberOfDigits DEF Strings
<1> HIDE DEF d
<1>3. Join(d, z) \in Strings /\ Len(Join(d, z)) = w + Len(z) /\ Len(z) \in Nat
  BY <1>2, Joins
<1>4. k \in Nat /\ Len(b) = k + Len(Join(d, z))
  BY <1>3, Joins
<1>5. SubSeq(b, k + 1, k + w) = d
  BY <1>2, Cut
<1>6. b = Join(Join(x, d), z)
  BY <1>2, Associate
<1>7. Len(Join(x, d)) = k + w
  BY <1>2, Joins
<1> HIDE DEF b, k
<1> DEFINE r == [b |-> b, off |-> k, went |-> "ok", val |-> v]
<1>8. ~(k + w > Len(b))
  BY <1>3, <1>4
<1>9. readUint(r, w) = [r EXCEPT !.off = @ + w, !.val = Number(SubSeq(b, k + 1, k + w))]
  BY <1>8 DEF readUint, Took, Slice
<1>10. readUint(r, w) = [b |-> b, off |-> k + w, went |-> "ok", val |-> n]
  BY <1>2, <1>5, <1>9
<1> QED
  BY <1>6, <1>7, <1>10 DEF Here, b, k, d

\* Whatever the bytes, they are read as an integer or run out.
LEMMA IntegerRead ==
  ASSUME NEW w \in Nat, NEW x \in Strings, NEW y \in Strings, NEW v
  PROVE  \/ readUint(Here(x, y, v), w).went = "ErrInvalidEnvelope"
         \/ \E n \in Values(w), z \in Strings :
              /\ y = Join(BigEndian(n, w), z)
              /\ readUint(Here(x, y, v), w) = Here(Join(x, BigEndian(n, w)), z, n)
<1>1. Len(x) \in Nat /\ Len(y) \in Nat /\ Len(Join(x, y)) = Len(x) + Len(y)
  BY Joins
<1>2. CASE Len(y) < w
  <2>1. Len(x) + w > Len(Join(x, y))
    BY <1>1, <1>2
  <2>2. readUint(Here(x, y, v), w).went = "ErrInvalidEnvelope"
    BY <2>1 DEF readUint, Here, Failed
  <2> QED
    BY <2>2
<1>3. CASE ~(Len(y) < w)
  <2>1. PICK d \in Strings, z \in Strings : Len(d) = w /\ y = Join(d, z)
    BY <1>1, <1>3, Cuts
  <2>2. Number(d) \in Values(w) /\ BigEndian(Number(d), w) = d
    BY <2>1, DigitsOfNumber DEF Strings
  <2>3. readUint(Here(x, y, v), w) = Here(Join(x, d), z, Number(d))
    BY <2>1, <2>2, ReadsInteger
  <2> QED
    BY <2>1, <2>2, <2>3
<1> QED
  BY <1>2, <1>3

\* A wrapped number is not greater than the number.
LEMMA Wraps ==
  ASSUME NEW n \in Nat
  PROVE  /\ AsInt(n) \in Int /\ AsInt(n) <= n
         /\ n < IntHalf => AsInt(n) = n
<1> DEFINE d == 2 * IntHalf
           low == n % d
<1>1. IntHalf \in Nat /\ IntHalf > 0 /\ d \in Nat /\ d > 0 /\ IntHalf < d
  BY IntAssumption
<1> HIDE DEF d
<1>2. low \in 0..(d - 1) /\ n = d * (n \div d) + low /\ n \div d \in Nat
  BY <1>1, DivMod
<1>3. d * (n \div d) \in Nat
  BY <1>1, <1>2
<1>4. low \in Nat /\ low <= n
  <2> HIDE DEF low
  <2> QED
    BY <1>1, <1>2, <1>3
<1>5. n < IntHalf => low = n
  <2> SUFFICES ASSUME n < IntHalf PROVE low = n
    OBVIOUS
  <2>1. (d * 0 + n) % d = n
    BY <1>1, DivIs
  <2>2. d * 0 + n = n
    BY <1>1
  <2> QED
    BY <2>1, <2>2
<1>6. AsInt(n) = IF low < IntHalf THEN low ELSE low - d
  BY DEF AsInt, d
<1> HIDE DEF low
<1> QED
  BY <1>1, <1>4, <1>5, <1>6

\* A field and its length.
FieldStrings == {f \in Strings : Len(f) \in Values(CodeWidth)}

LEMMA FieldBytes ==
  ASSUME NEW f \in FieldStrings
  PROVE  /\ f \in Strings /\ Len(f) \in Nat /\ Len(f) \in Values(CodeWidth)
         /\ BigEndian(Len(f), CodeWidth) \in Strings
         /\ Len(BigEndian(Len(f), CodeWidth)) = CodeWidth
         /\ appendField(f) = Join(BigEndian(Len(f), CodeWidth), f)
         /\ appendField(f) \in Strings
<1>1. f \in Strings /\ Len(f) \in Nat /\ Len(f) \in Values(CodeWidth)
  BY DEF FieldStrings, Strings
<1>2. /\ BigEndian(Len(f), CodeWidth) \in Strings
      /\ Len(BigEndian(Len(f), CodeWidth)) = CodeWidth
  BY <1>1, Digits, WidthAssumption DEF Strings
<1>3. appendField(f) = Join(BigEndian(Len(f), CodeWidth), f)
  BY DEF appendField, Join
<1> QED
  BY <1>1, <1>2, <1>3, Joins

\* A field is read where one stands.
LEMMA ReadsField ==
  ASSUME NEW f \in FieldStrings, NEW x \in Strings, NEW z \in Strings, NEW v
  PROVE  readField(Here(x, Join(appendField(f), z), v))
           = Here(Join(x, appendField(f)), z, f)
<1> DEFINE d == BigEndian(Len(f), CodeWidth)
           n == Len(f)
           a == Join(x, d)
<1>1. /\ f \in Strings /\ n \in Nat /\ n \in Values(CodeWidth) /\ d \in Strings
      /\ appendField(f) = Join(d, f)
  BY FieldBytes
<1>2. Join(f, z) \in Strings
  BY <1>1, Joins
<1>3. Join(appendField(f), z) = Join(d, Join(f, z))
  BY <1>1, Associate
<1>4. readUint(Here(x, Join(d, Join(f, z)), v), CodeWidth) = Here(a, Join(f, z), n)
  BY <1>1, <1>2, ReadsInteger, WidthAssumption
<1> HIDE DEF d
<1>5. a \in Strings
  BY <1>1, Joins
<1>6. Join(x, appendField(f)) = Join(a, f)
  BY <1>1, Associate
<1> HIDE DEF a
<1> DEFINE b == Join(a, Join(f, z))
           k == Len(a)
<1>7. k \in Nat /\ Len(z) \in Nat
  BY <1>5, Joins
<1>8. Len(Join(f, z)) = n + Len(z)
  BY <1>1, Joins
<1>9. Len(b) = k + Len(Join(f, z))
  BY <1>2, <1>5, Joins
<1>10. SubSeq(b, k + 1, k + n) = f
  BY <1>1, <1>5, Cut
<1>11. b = Join(Join(a, f), z)
  BY <1>1, <1>5, Associate
<1>12. Len(Join(a, f)) = k + n
  BY <1>1, <1>5, Joins
<1> HIDE DEF b, k, n
<1>13. k + n \in Nat /\ k + n <= Len(b) /\ Len(b) \in Nat
  BY <1>1, <1>7, <1>8, <1>9
<1>14. ~(AsInt(k + n) > Len(b)) /\ ~(k + n > Len(b))
  BY <1>13, Wraps
<1> DEFINE l == [b |-> b, off |-> k, went |-> "ok", val |-> n]
           r == Here(x, Join(appendField(f), z), v)
<1>15. readUint(r, CodeWidth) = l
  BY <1>3, <1>4 DEF Here, b, k
<1> HIDE DEF r
<1>16. readField(r) = [l EXCEPT !.off = @ + n, !.val = SubSeq(b, k + 1, k + n)]
  BY <1>14, <1>15 DEF readField, Took, Slice
<1>17. readField(r) = [b |-> b, off |-> k + n, went |-> "ok", val |-> f]
  BY <1>10, <1>16
<1> QED
  BY <1>6, <1>11, <1>12, <1>17 DEF Here, r

\* Whatever the bytes, they are read as a field or refused; when an int can
\* hold the sum of a length and an offset they are refused without a panic.
LEMMA FieldRead ==
  ASSUME NEW x \in Strings, NEW y \in Strings, NEW v
  PROVE  \/ readField(Here(x, y, v)).went = "ErrInvalidEnvelope"
         \/ /\ readField(Here(x, y, v)).went = "panic"
            /\ Power[CodeWidth] + Len(Join(x, y)) > IntHalf
         \/ \E f \in FieldStrings, z \in Strings :
              /\ y = Join(appendField(f), z)
              /\ readField(Here(x, y, v)) = Here(Join(x, appendField(f)), z, f)
<1> DEFINE r == Here(x, y, v)
           l == readUint(r, CodeWidth)
<1>1. CASE l.went = "ErrInvalidEnvelope"
  BY <1>1 DEF readField
<1>2. ASSUME NEW n \in Values(CodeWidth), NEW c \in Strings,
             y = Join(BigEndian(n, CodeWidth), c),
             l = Here(Join(x, BigEndian(n, CodeWidth)), c, n)
      PROVE  \/ readField(r).went = "ErrInvalidEnvelope"
             \/ /\ readField(r).went = "panic"
                /\ Power[CodeWidth] + Len(Join(x, y)) > IntHalf
             \/ \E f \in FieldStrings, z \in Strings :
                  /\ y = Join(appendField(f), z)
                  /\ readField(r) = Here(Join(x, appendField(f)), z, f)
  <2> DEFINE d == BigEndian(n, CodeWidth)
             a == Join(x, d)
             b == Join(a, c)
             k == Len(a)
  <2>1. n \in Nat /\ n < Power[CodeWidth] /\ Power[CodeWidth] \in Nat
    BY PowersPositive, WidthAssumption DEF Values
  <2>2. d \in Strings
    BY <2>1, Digits, WidthAssumption DEF Strings
  <2>3. a \in Strings
    BY <2>2, Joins
  <2>4. b = Join(x, y)
    BY <1>2, <2>2, Associate
  <2> HIDE DEF d
  <2>5. k \in Nat /\ Len(c) \in Nat /\ Len(b) = k + Len(c)
    BY <2>3, Joins
  <2>6. l = [b |-> b, off |-> k, went |-> "ok", val |-> n]
    BY <1>2 DEF Here, d
  <2> HIDE DEF a, l
  <2>7. CASE n <= Len(c)
    <3>1. PICK f \in Strings, z \in Strings : Len(f) = n /\ c = Join(f, z)
      BY <2>1, <2>7, Cuts
    <3>2. f \in FieldStrings
      BY <3>1 DEF FieldStrings
    <3>3. appendField(f) = Join(d, f)
      BY <3>1, <3>2, FieldBytes DEF d
    <3>4. y = Join(appendField(f), z)
      BY <1>2, <2>2, <3>1, <3>3, Associate DEF d
    <3>5. readField(r) = Here(Join(x, appendField(f)), z, f)
      BY <3>2, <3>4, ReadsField
    <3> QED
      BY <3>2, <3>4, <3>5
  <2>8. CASE ~(n <= Len(c))
    <3> HIDE DEF b, k
    <3>1. k + n > Len(b) /\ k + n \in Nat /\ Len(b) \in Nat /\ k <= Len(b)
      BY <2>1, <2>5, <2>8
    <3>2. CASE AsInt(k + n) > Len(b)
      <4>1. readField(r) = [l EXCEPT !.went = "ErrInvalidEnvelope"]
        BY <2>6, <3>2 DEF readField, Failed, l
      <4>2. readField(r).went = "ErrInvalidEnvelope"
        BY <2>6, <4>1
      <4> QED
        BY <4>2
    <3>3. CASE ~(AsInt(k + n) > Len(b))
      <4>1. readField(r) = [l EXCEPT !.went = "panic"]
        BY <2>6, <3>1, <3>3 DEF readField, Failed, l
      <4>2. readField(r).went = "panic"
        BY <2>6, <4>1
      <4>3. ~(k + n < IntHalf)
        BY <3>1, <3>3, Wraps
      <4>4. Power[CodeWidth] + Len(b) > IntHalf
        <5> DEFINE p == Power[CodeWidth]
                   m == Len(b)
        <5>1. p \in Nat /\ m \in Nat /\ n \in Nat /\ k \in Nat /\ n < p /\ k <= m
          BY <2>1, <2>5, <3>1
        <5>2. ~(k + n < IntHalf) /\ IntHalf \in Nat
          BY <4>3, IntAssumption
        <5> HIDE DEF p, m
        <5>3. p + m > IntHalf
          BY <5>1, <5>2
        <5> QED
          BY <5>3 DEF p, m
      <4> QED
        BY <2>4, <4>2, <4>4
    <3> QED
      BY <3>2, <3>3
  <2> QED
    BY <2>7, <2>8
<1>3. \/ l.went = "ErrInvalidEnvelope"
      \/ \E n \in Values(CodeWidth), c \in Strings :
           /\ y = Join(BigEndian(n, CodeWidth), c)
           /\ l = Here(Join(x, BigEndian(n, CodeWidth)), c, n)
  BY IntegerRead, WidthAssumption
<1> QED
  BY <1>1, <1>2, <1>3

-----------------------------------------------------------------------------
(* Whole envelopes.                                                        *)

AnyMessages == [seq : Values(SeqWidth), type : Values(CodeWidth),
                payload : FieldStrings, username : FieldStrings,
                filename : FieldStrings]

LEMMA FieldsAreStrings == Fields \subseteq FieldStrings
<1> SUFFICES ASSUME NEW f \in Fields PROVE f \in FieldStrings
  OBVIOUS
<1>1. MaxField \in Nat /\ MaxField < Power[CodeWidth] /\ Power[CodeWidth] \in Nat
  BY PowersPositive, FieldAssumption, WidthAssumption DEF Values
<1>2. PICK k \in 0..MaxField : f \in [1..k -> Byte]
  BY DEF Fields, BoundedSeq, SeqOf
<1>3. k \in Nat /\ k < Power[CodeWidth]
  BY <1>1
<1>4. f \in Seq(Byte) /\ Len(f) = k
  BY <1>2, <1>3
<1> QED
  BY <1>1, <1>3, <1>4 DEF FieldStrings, Strings, Values

\* The byte that says what an envelope holds.
LEMMA Kinds ==
  ASSUME NEW kind \in {kindMessage, kindResponse}
  PROVE  /\ kind \in Values(1) /\ BigEndian(kind, 1) = <<kind>>
         /\ <<kind>> \in Strings /\ Len(<<kind>>) = 1
<1>1. kind \in Nat /\ kind < Base /\ kind \in Byte
  BY BaseAssumption DEF kindMessage, kindResponse, Byte
<1>2. Power[1] = Base /\ Power[0] = 1
  <2>1. Power[0] = 1 /\ Power[0 + 1] = Base * Power[0]
    BY Powers
  <2> QED
    BY <2>1, BaseAssumption
<1>3. kind \in Values(1)
  BY <1>1, <1>2, BaseAssumption DEF Values
<1>4. /\ BigEndian(kind, 1) \in Seq(Byte) /\ Len(BigEndian(kind, 1)) = 1
      /\ \A i \in 1..1 : BigEndian(kind, 1)[i] = (kind \div Power[1 - i]) % Base
  BY <1>1, Digits
<1>5. BigEndian(kind, 1)[1] = kind
  <2>1. (kind \div Power[0]) % Base = kind
    <3>1. kind \div Power[0] = kind
      BY <1>1, <1>2
    <3>2. (Base * 0 + kind) % Base = kind
      BY <1>1, BaseAssumption, DivIs
    <3>3. Base * 0 + kind = kind
      BY <1>1, BaseAssumption
    <3> QED
      BY <3>1, <3>2, <3>3
  <2> DEFINE d == BigEndian(kind, 1)
  <2>2. d[1] = (kind \div Power[1 - 1]) % Base
    BY <1>4
  <2> QED
    BY <2>1, <2>2
<1>6. <<kind>> \in Seq(Byte) /\ Len(<<kind>>) = 1 /\ <<kind>>[1] = kind
  BY <1>1
<1>7. BigEndian(kind, 1) = <<kind>>
  BY <1>4, <1>5, <1>6, SeqEqual
<1> QED
  BY <1>3, <1>6, <1>7 DEF Strings

\* What has gone wrong stays so.
LEMMA Stays ==
  ASSUME NEW r, r.went # "ok"
  PROVE  (\A w : readUint(r, w) = r) /\ readField(r) = r
<1>1. \A w : readUint(r, w) = r
  BY DEF readUint
<1>2. readField(r) = r
  BY <1>1 DEF readField
<1> QED
  BY <1>1, <1>2

\* The parts of a message.
LEMMA MessageParts ==
  ASSUME NEW m \in AnyMessages
  PROVE  /\ <<kindMessage>> \in Strings
         /\ BigEndian(m.seq, SeqWidth) \in Strings
         /\ BigEndian(m.type, CodeWidth) \in Strings
         /\ appendField(m.payload) \in Strings
         /\ appendField(m.username) \in Strings
         /\ appendField(m.filename) \in Strings
         /\ SerializeV2(m) =
              Join(Join(Join(Join(Join(<<kindMessage>>, BigEndian(m.seq, SeqWidth)),
                                  BigEndian(m.type, CodeWidth)),
                             appendField(m.payload)),
                        appendField(m.username)),
                   appendField(m.filename))
<1>1. m.seq \in Nat /\ m.type \in Nat
  <2>1. m.seq \in Values(SeqWidth) /\ m.type \in Values(CodeWidth)
    BY DEF AnyMessages
  <2> QED
    BY <2>1, PowersPositive, WidthAssumption DEF Values
<1>2. BigEndian(m.seq, SeqWidth) \in Strings /\ BigEndian(m.type, CodeWidth) \in Strings
  BY <1>1, Digits, WidthAssumption DEF Strings
<1>3. /\ m.payload \in FieldStrings /\ m.username \in FieldStrings
      /\ m.filename \in FieldStrings
  BY DEF AnyMessages
<1>4. /\ appendField(m.payload) \in Strings /\ appendField(m.username) \in Strings
      /\ appendField(m.filename) \in Strings
  BY <1>3, FieldBytes
<1>5. <<kindMessage>> \in Strings
  BY Kinds
<1> QED
  BY <1>2, <1>4, <1>5, Zenon DEF SerializeV2, Join

\* The cursors of DeserializeV2, one after each reading.
KindRead(b) == readUint(Cursor(b), 1)
SeqRead(b) == readUint(KindRead(b), SeqWidth)
TypeRead(b) == readUint(SeqRead(b), CodeWidth)
PayloadRead(b) == readField(TypeRead(b))
UsernameRead(b) == readField(PayloadRead(b))
FilenameRead(b) == readField(UsernameRead(b))

LEMMA Deserializes ==
  ASSUME NEW b
  PROVE  DeserializeV2(b) =
           IF ~HasKind(KindRead(b), kindMessage) THEN [went |-> "ErrInvalidEnvelope"]
           ELSE IF FilenameRead(b).went # "ok" THEN [went |-> FilenameRead(b).went]
           ELSE IF ~done(FilenameRead(b)) THEN [went |-> "ErrInvalidEnvelope"]
           ELSE [went |-> "message",
                 msg |-> [seq |-> SeqRead(b).val, type |-> TypeRead(b).val,
                          payload |-> PayloadRead(b).val,
                          username |-> UsernameRead(b).val,
                          filename |-> FilenameRead(b).val]]
BY Zenon DEF DeserializeV2, KindRead, SeqRead, TypeRead, PayloadRead, UsernameRead,
  FilenameRead

LEMMA Starts ==
  ASSUME NEW b \in Strings
  PROVE  Cursor(b) = Here(<< >>, b, 0)
BY Joins DEF Cursor, Here

LEMMA Ends ==
  ASSUME NEW x \in Strings, NEW z \in Strings, NEW v
  PROVE  done(Here(x, z, v)) <=> z = << >>
<1>1. done(Here(x, z, v)) <=> Len(x) = Len(Join(x, z))
  BY DEF done, Here
<1>2. Len(x) \in Nat /\ Len(z) \in Nat /\ Len(Join(x, z)) = Len(x) + Len(z)
  BY Joins
<1>3. Len(z) = 0 <=> z = << >>
  BY EmptySeq DEF Strings
<1> QED
  BY <1>1, <1>2, <1>3

\* What SerializeV2 writes is read back.
LEMMA MessageBack ==
  ASSUME NEW m \in AnyMessages
  PROVE  DeserializeV2(SerializeV2(m)) = [went |-> "message", msg |-> m]
<1> DEFINE K == <<kindMessage>>
           S == BigEndian(m.seq, SeqWidth)
           T == BigEndian(m.type, CodeWidth)
           P == appendField(m.payload)
           U == appendField(m.username)
           F == appendField(m.filename)
           x2 == Join(K, S)
           x3 == Join(x2, T)
           x4 == Join(x3, P)
           x5 == Join(x4, U)
           x6 == Join(x5, F)
           z4 == Join(U, F)
           z3 == Join(P, z4)
           z2 == Join(T, z3)
           z1 == Join(S, z2)
           b == SerializeV2(m)
<1>1. /\ K \in Strings /\ S \in Strings /\ T \in Strings /\ P \in Strings
      /\ U \in Strings /\ F \in Strings /\ b = x6
  BY MessageParts
<1>2. /\ m.seq \in Values(SeqWidth) /\ m.type \in Values(CodeWidth)
      /\ m.payload \in FieldStrings /\ m.username \in FieldStrings
      /\ m.filename \in FieldStrings
      /\ m = [seq |-> m.seq, type |-> m.type, payload |-> m.payload,
              username |-> m.username, filename |-> m.filename]
  BY DEF AnyMessages
<1>3. K = BigEndian(kindMessage, 1) /\ kindMessage \in Values(1)
  BY Kinds
<1> DEFINE r0 == Here(<< >>, Join(K, z1), 0)
           r1 == Here(K, z1, kindMessage)
           r2 == Here(x2, z2, m.seq)
           r3 == Here(x3, z3, m.type)
           r4 == Here(x4, z4, m.payload)
           r5 == Here(x5, F, m.username)
           r6 == Here(x6, << >>, m.filename)
<1> HIDE DEF K, S, T, P, U, F, x2, x3, x4, x5, z4, z3, z2, z1, b
<1>4. /\ x2 \in Strings /\ x3 \in Strings /\ x4 \in Strings /\ x5 \in Strings
      /\ z1 \in Strings /\ z2 \in Strings /\ z3 \in Strings /\ z4 \in Strings
      /\ Join(x5, F) = Join(K, z1)
  <2>1. x2 \in Strings /\ z4 \in Strings
    BY <1>1, Joins DEF x2, z4
  <2>2. x3 \in Strings /\ z3 \in Strings
    BY <1>1, <2>1, Joins DEF x3, z3
  <2>3. x4 \in Strings /\ z2 \in Strings
    BY <1>1, <2>2, Joins DEF x4, z2
  <2>4. x5 \in Strings /\ z1 \in Strings
    BY <1>1, <2>3, Joins DEF x5, z1
  <2>5. Join(x5, F) = Join(x4, z4)
    BY <1>1, <2>3, Associate DEF x5, z4
  <2>6. Join(x4, z4) = Join(x3, z3)
    BY <1>1, <2>1, <2>2, Associate DEF x4, z3
  <2>7. Join(x3, z3) = Join(x2, z2)
    BY <1>1, <2>1, <2>2, Associate DEF x3, z2
  <2>8. Join(x2, z2) = Join(K, z1)
    BY <1>1, <2>3, Associate DEF x2, z1
  <2> QED
    BY <2>1, <2>2, <2>3, <2>4, <2>5, <2>6, <2>7, <2>8
<1>5. b = Join(K, z1) /\ b \in Strings /\ x6 \in Strings
  BY <1>1, <1>4, Joins
<1>6. Cursor(b) = r0
  BY <1>5, Starts
<1>7. readUint(r0, 1) = r1
  <2>1. readUint(r0, 1) = Here(Join(<< >>, K), z1, kindMessage)
    BY <1>3, <1>4, ReadsInteger, Joins
  <2> QED
    BY <1>1, <2>1, Joins
<1>8. readUint(r1, SeqWidth) = r2
  BY <1>1, <1>2, <1>4, ReadsInteger, WidthAssumption DEF z1, x2, S
<1>9. readUint(r2, CodeWidth) = r3
  BY <1>1, <1>2, <1>4, ReadsInteger, WidthAssumption DEF z2, x3, T
<1>10. readField(r3) = r4
  BY <1>1, <1>2, <1>4, ReadsField DEF z3, x4, P
<1>11. readField(r4) = r5
  BY <1>1, <1>2, <1>4, ReadsField DEF z4, x5, U
<1>12. readField(r5) = r6
  <2>1. << >> \in Strings /\ Join(F, << >>) = F
    BY <1>1, Joins
  <2>2. readField(Here(x5, Join(F, << >>), m.username)) = r6
    BY <1>2, <1>4, <2>1, ReadsField DEF F
  <2> QED
    BY <2>1, <2>2
<1>13. done(r6)
  BY <1>5, Ends, Joins
<1>14. /\ r1.went = "ok" /\ r1.val = kindMessage /\ r2.val = m.seq /\ r3.val = m.type
       /\ r4.val = m.payload /\ r5.val = m.username /\ r6.val = m.filename
       /\ r6.went = "ok"
  BY DEF Here
<1>15. HasKind(r1, kindMessage)
  BY <1>14 DEF HasKind
<1> HIDE DEF r0, r1, r2, r3, r4, r5, r6
<1>16. /\ KindRead(b) = r1 /\ SeqRead(b) = r2 /\ TypeRead(b) = r3
       /\ PayloadRead(b) = r4 /\ UsernameRead(b) = r5 /\ FilenameRead(b) = r6
  BY <1>6, <1>7, <1>8, <1>9, <1>10, <1>11, <1>12
  DEF KindRead, SeqRead, TypeRead, PayloadRead, UsernameRead, FilenameRead
<1>17. DeserializeV2(b) =
         [went |-> "message",
          msg |-> [seq |-> m.seq, type |-> m.type, payload |-> m.payload,
                   username |-> m.username, filename |-> m.filename]]
  BY <1>13, <1>14, <1>15, <1>16, Deserializes
<1>18. DeserializeV2(b) = [went |-> "message", msg |-> m]
  BY <1>2, <1>17, Zenon
<1> QED
  BY <1>18 DEF b

\* Whatever the bytes, DeserializeV2 refuses them or they are what SerializeV2
\* makes of the message it returns; it panics only when an int cannot hold the
\* sum of an offset and a length.
LEMMA MessageRead ==
  ASSUME NEW b \in Strings
  PROVE  \/ DeserializeV2(b).went = "ErrInvalidEnvelope"
         \/ DeserializeV2(b).went = "panic" /\ Power[CodeWidth] + Len(b) > IntHalf
         \/ \E m \in AnyMessages :
              b = SerializeV2(m) /\ DeserializeV2(b) = [went |-> "message", msg |-> m]
<1> DEFINE r1 == KindRead(b)
           r2 == SeqRead(b)
           r3 == TypeRead(b)
           r4 == PayloadRead(b)
           r5 == UsernameRead(b)
           r6 == FilenameRead(b)
           result == DeserializeV2(b)
           Bad(r) == \/ r.went = "ErrInvalidEnvelope"
                     \/ r.went = "panic" /\ Power[CodeWidth] + Len(b) > IntHalf
<1>1. /\ r1 = readUint(Here(<< >>, b, 0), 1) /\ r2 = readUint(r1, SeqWidth)
      /\ r3 = readUint(r2, CodeWidth) /\ r4 = readField(r3) /\ r5 = readField(r4)
      /\ r6 = readField(r5)
  BY Starts DEF KindRead, SeqRead, TypeRead, PayloadRead, UsernameRead, FilenameRead
<1>2. result =
        IF ~HasKind(r1, kindMessage) THEN [went |-> "ErrInvalidEnvelope"]
        ELSE IF r6.went # "ok" THEN [went |-> r6.went]
        ELSE IF ~done(r6) THEN [went |-> "ErrInvalidEnvelope"]
        ELSE [went |-> "message",
              msg |-> [seq |-> r2.val, type |-> r3.val, payload |-> r4.val,
                       username |-> r5.val, filename |-> r6.val]]
  BY Deserializes
<1> HIDE DEF r1, r2, r3, r4, r5, r6, result
<1>3. CASE ~HasKind(r1, kindMessage)
  BY <1>2, <1>3 DEF result
<1>4. CASE HasKind(r1, kindMessage) /\ r6.went # "ok" /\ Bad(r6)
  <2>1. result.went = r6.went
    BY <1>2, <1>4
  <2> QED
    BY <1>4, <2>1 DEF result
<1>5. CASE HasKind(r1, kindMessage) /\ r6.went = "ok" /\ ~done(r6)
  BY <1>2, <1>5 DEF result
<1>6. ASSUME NEW r, Bad(r) PROVE r.went # "ok" /\ \A w : readUint(r, w) = r /\ readField(r) = r
  <2>1. r.went # "ok"
    BY <1>6
  <2> QED
    BY <2>1, Stays
<1>7. CASE HasKind(r1, kindMessage) /\ ~Bad(r6)
  <2>1. ~Bad(r5) /\ ~Bad(r4) /\ ~Bad(r3) /\ ~Bad(r2) /\ ~Bad(r1)
    <3> HIDE DEF Bad
    <3>1. ~Bad(r5)
      BY <1>1, <1>6, <1>7
    <3>2. ~Bad(r4)
      BY <1>1, <1>6, <3>1
    <3>3. ~Bad(r3)
      BY <1>1, <1>6, <3>2
    <3>4. ~Bad(r2)
      BY <1>1, <1>6, <3>3
    <3>5. ~Bad(r1)
      BY <1>1, <1>6, <3>4
    <3> QED
      BY <3>1, <3>2, <3>3, <3>4, <3>5
  <2>2. << >> \in Strings /\ Join(<< >>, b) = b
    BY Joins
  \* The kind.
  <2>3. PICK kind \in Values(1), z1 \in Strings :
          /\ b = Join(BigEndian(kind, 1), z1)
          /\ r1 = Here(Join(<< >>, BigEndian(kind, 1)), z1, kind)
    BY <1>1, <2>1, <2>2, IntegerRead
  <2>4. kind = kindMessage
    <3>1. r1.val = kind
      BY <2>3 DEF Here
    <3> QED
      BY <1>7, <3>1 DEF HasKind
  <2> DEFINE x1 == <<kindMessage>>
  <2>5. x1 \in Strings /\ b = Join(x1, z1) /\ r1 = Here(x1, z1, kindMessage)
    <3>1. BigEndian(kindMessage, 1) = x1 /\ x1 \in Strings
      BY Kinds
    <3>2. Join(<< >>, x1) = x1
      BY <3>1, Joins
    <3> QED
      BY <2>3, <2>4, <3>1, <3>2
  <2> HIDE DEF x1
  \* The sequence number.
  <2>6. PICK seq \in Values(SeqWidth), z2 \in Strings :
          /\ z1 = Join(BigEndian(seq, SeqWidth), z2)
          /\ r2 = Here(Join(x1, BigEndian(seq, SeqWidth)), z2, seq)
    BY <1>1, <2>1, <2>5, IntegerRead, WidthAssumption
  <2> DEFINE S == BigEndian(seq, SeqWidth)
             x2 == Join(x1, S)
  <2>7. x2 \in Strings /\ b = Join(x2, z2)
    <3>1. seq \in Nat
      BY PowersPositive, WidthAssumption DEF Values
    <3>2. S \in Strings
      BY <3>1, Digits, WidthAssumption DEF Strings
    <3>3. z1 = Join(S, z2)
      BY <2>6
    <3> HIDE DEF S
    <3> QED
      BY <2>5, <3>2, <3>3, Joins, Associate
  <2>8. r2 = Here(x2, z2, seq)
    BY <2>6
  <2> HIDE DEF S, x2
  \* The type.
  <2>9. PICK type \in Values(CodeWidth), z3 \in Strings :
          /\ z2 = Join(BigEndian(type, CodeWidth), z3)
          /\ r3 = Here(Join(x2, BigEndian(type, CodeWidth)), z3, type)
    BY <1>1, <2>1, <2>7, <2>8, IntegerRead, WidthAssumption
  <2> DEFINE T == BigEndian(type, CodeWidth)
             x3 == Join(x2, T)
  <2>10. x3 \in Strings /\ b = Join(x3, z3)
    <3>1. type \in Nat
      BY PowersPositive, WidthAssumption DEF Values
    <3>2. T \in Strings
      BY <3>1, Digits, WidthAssumption DEF Strings
    <3>3. z2 = Join(T, z3)
      BY <2>9
    <3> HIDE DEF T
    <3> QED
      BY <2>7, <3>2, <3>3, Joins, Associate
  <2>11. r3 = Here(x3, z3, type)
    BY <2>9
  <2> HIDE DEF T, x3
  \* The fields.
  <2>12. PICK payload \in FieldStrings, z4 \in Strings :
           /\ z3 = Join(appendField(payload), z4)
           /\ r4 = Here(Join(x3, appendField(payload)), z4, payload)
    BY <1>1, <2>1, <2>10, <2>11, FieldRead
  <2> DEFINE P == appendField(payload)
             x4 == Join(x3, P)
  <2>13. x4 \in Strings /\ b = Join(x4, z4)
    <3>1. P \in Strings
      BY FieldBytes
    <3>2. z3 = Join(P, z4)
      BY <2>12
    <3> HIDE DEF P
    <3> QED
      BY <2>10, <3>1, <3>2, Joins, Associate
  <2>14. r4 = Here(x4, z4, payload)
    BY <2>12
  <2> HIDE DEF P, x4
  <2>15. PICK username \in FieldStrings, z5 \in Strings :
           /\ z4 = Join(appendField(username), z5)
           /\ r5 = Here(Join(x4, appendField(username)), z5, username)
    BY <1>1, <2>1, <2>13, <2>14, FieldRead
  <2> DEFINE U == appendField(username)
             x5 == Join(x4, U)
  <2>16. x5 \in Strings /\ b = Join(x5, z5)
    <3>1. U \in Strings
      BY FieldBytes
    <3>2. z4 = Join(U, z5)
      BY <2>15
    <3> HIDE DEF U
    <3> QED
      BY <2>13, <3>1, <3>2, Joins, Associate
  <2>17. r5 = Here(x5, z5, username)
    BY <2>15
  <2> HIDE DEF U, x5
  <2>18. PICK filename \in FieldStrings, z6 \in Strings :
           /\ z5 = Join(appendField(filename), z6)
           /\ r6 = Here(Join(x5, appendField(filename)), z6, filename)
    BY <1>1, <1>7, <2>16, <2>17, FieldRead
  <2> DEFINE F == appendField(filename)
             x6 == Join(x5, F)
  <2>19. x6 \in Strings /\ b = Join(x6, z6)
    <3>1. F \in Strings
      BY FieldBytes
    <3>2. z5 = Join(F, z6)
      BY <2>18
    <3> HIDE DEF F
    <3> QED
      BY <2>16, <3>1, <3>2, Joins, Associate
  <2>20. r6 = Here(x6, z6, filename)
    BY <2>18
  <2> HIDE DEF F, x6
  <2> DEFINE m == [seq |-> seq, type |-> type, payload |-> payload,
                   username |-> username, filename |-> filename]
  <2>21. m \in AnyMessages
    BY DEF AnyMessages
  <2>22. CASE z6 = << >>
    <3>1. b = x6
      BY <2>19, <2>22, Joins
    <3>2. SerializeV2(m) = x6
      <4>1. /\ m.seq = seq /\ m.type = type /\ m.payload = payload
            /\ m.username = username /\ m.filename = filename
        OBVIOUS
      <4> HIDE DEF m
      <4> QED
        BY <2>21, <4>1, MessageParts DEF x1, x2, x3, x4, x5, x6, S, T, P, U, F
    <3>3. /\ r6.went = "ok" /\ r2.val = seq /\ r3.val = type /\ r4.val = payload
          /\ r5.val = username /\ r6.val = filename
      BY <2>8, <2>11, <2>14, <2>17, <2>20 DEF Here
    <3>4. done(r6)
      BY <2>19, <2>20, <2>22, Ends
    <3>5. result = [went |-> "message", msg |-> m]
      BY <1>2, <1>7, <3>3, <3>4
    <3> HIDE DEF m
    <3> QED
      BY <2>21, <3>1, <3>2, <3>5 DEF result
  <2>23. CASE z6 # << >>
    <3>1. ~done(r6) /\ r6.went = "ok"
      BY <2>19, <2>20, <2>23, Ends DEF Here
    <3> QED
      BY <1>5, <1>7, <3>1
  <2> QED
    BY <2>22, <2>23
<1> QED
  BY <1>3, <1>4, <1>6, <1>7

CodeRead(b) == readUint(SeqRead(b), CodeWidth)

LEMMA ResponseParts ==
  ASSUME NEW m \in Responses
  PROVE  /\ m.seq \in Values(SeqWidth) /\ m.code \in Values(CodeWidth)
         /\ <<kindResponse>> \in Strings
         /\ BigEndian(m.seq, SeqWidth) \in Strings
         /\ BigEndian(m.code, CodeWidth) \in Strings
         /\ serializeResponseV2(m) =
              Join(Join(<<kindResponse>>, BigEndian(m.seq, SeqWidth)),
                   BigEndian(m.code, CodeWidth))
<1>1. m.seq \in Values(SeqWidth) /\ m.code \in Values(CodeWidth)
  BY DEF Responses
<1>2. m.seq \in Nat /\ m.code \in Nat
  BY <1>1, PowersPositive, WidthAssumption DEF Values
<1>3. BigEndian(m.seq, SeqWidth) \in Strings /\ BigEndian(m.code, CodeWidth) \in Strings
  BY <1>2, Digits, WidthAssumption DEF Strings
<1>4. <<kindResponse>> \in Strings
  BY Kinds
<1> QED
  BY <1>1, <1>3, <1>4, Zenon DEF serializeResponseV2, Join

LEMMA DeserializesResponse ==
  ASSUME NEW b
  PROVE  deserializeResponseV2(b) =
           IF HasKind(KindRead(b), kindResponse) /\ CodeRead(b).went = "ok"
                /\ done(CodeRead(b))
             THEN [went |-> "response",
                   msg |-> [seq |-> SeqRead(b).val, code |-> CodeRead(b).val]]
             ELSE [went |-> "ErrInvalidEnvelope"]
BY Zenon DEF deserializeResponseV2, KindRead, SeqRead, CodeRead

\* What serializeResponseV2 writes is read back.
LEMMA ResponseBack ==
  ASSUME NEW m \in Responses
  PROVE  deserializeResponseV2(serializeResponseV2(m)) = [went |-> "response", msg |-> m]
<1> DEFINE K == <<kindResponse>>
           S == BigEndian(m.seq, SeqWidth)
           C == BigEndian(m.code, CodeWidth)
           x2 == Join(K, S)
           x3 == Join(x2, C)
           z1 == Join(S, C)
           b == serializeResponseV2(m)
<1>1. /\ K \in Strings /\ S \in Strings /\ C \in Strings /\ b = x3
      /\ m.seq \in Values(SeqWidth) /\ m.code \in Values(CodeWidth)
  BY ResponseParts
<1>2. m = [seq |-> m.seq, code |-> m.code]
  BY DEF Responses
<1>3. K = BigEndian(kindResponse, 1) /\ kindResponse \in Values(1)
  BY Kinds
<1> DEFINE r0 == Here(<< >>, Join(K, z1), 0)
           r1 == Here(K, z1, kindResponse)
           r2 == Here(x2, C, m.seq)
           r3 == Here(x3, << >>, m.code)
<1> HIDE DEF K, S, C, x2, x3, z1, b
<1>4. x2 \in Strings /\ z1 \in Strings
  BY <1>1, Joins DEF x2, z1
<1>5. x3 \in Strings /\ x3 = Join(K, z1)
  BY <1>1, <1>4, Joins, Associate DEF x2, x3, z1
<1>6. Cursor(b) = r0
  BY <1>1, <1>5, Starts
<1>7. readUint(r0, 1) = r1
  <2>1. readUint(r0, 1) = Here(Join(<< >>, K), z1, kindResponse)
    BY <1>3, <1>4, ReadsInteger, Joins
  <2> QED
    BY <1>1, <2>1, Joins
<1>8. readUint(r1, SeqWidth) = r2
  BY <1>1, <1>4, ReadsInteger, WidthAssumption DEF z1, x2, S
<1>9. readUint(r2, CodeWidth) = r3
  <2>1. << >> \in Strings /\ Join(C, << >>) = C
    BY <1>1, Joins
  <2>2. readUint(Here(x2, Join(C, << >>), m.seq), CodeWidth) = r3
    BY <1>1, <1>4, <2>1, ReadsInteger, WidthAssumption DEF x3, C
  <2> QED
    BY <2>1, <2>2
<1>10. done(r3)
  BY <1>5, Ends, Joins
<1>11. /\ r1.went = "ok" /\ r1.val = kindResponse /\ r2.val = m.seq
       /\ r3.val = m.code /\ r3.went = "ok"
  BY DEF Here
<1>12. HasKind(r1, kindResponse)
  BY <1>11 DEF HasKind
<1> HIDE DEF r0, r1, r2, r3
<1>13. KindRead(b) = r1 /\ SeqRead(b) = r2 /\ CodeRead(b) = r3
  BY <1>6, <1>7, <1>8, <1>9 DEF KindRead, SeqRead, CodeRead
<1>14. deserializeResponseV2(b) =
         [went |-> "response", msg |-> [seq |-> m.seq, code |-> m.code]]
  BY <1>10, <1>11, <1>12, <1>13, DeserializesResponse
<1>15. deserializeResponseV2(b) = [went |-> "response", msg |-> m]
  BY <1>2, <1>14, Zenon
<1> QED
  BY <1>15 DEF b

\* Whatever the bytes, deserializeResponseV2 refuses them or they are what
\* serializeResponseV2 makes of the response it returns.
LEMMA ResponseRead ==
  ASSUME NEW b \in Strings
  PROVE  \/ deserializeResponseV2(b).went = "ErrInvalidEnvelope"
         \/ \E m \in Responses :
              /\ b = serializeResponseV2(m)
              /\ deserializeResponseV2(b) = [went |-> "response", msg |-> m]
<1> DEFINE r1 == KindRead(b)
           r2 == SeqRead(b)
           r3 == CodeRead(b)
           result == deserializeResponseV2(b)
<1>1. /\ r1 = readUint(Here(<< >>, b, 0), 1) /\ r2 = readUint(r1, SeqWidth)
      /\ r3 = readUint(r2, CodeWidth)
  BY Starts DEF KindRead, SeqRead, CodeRead
<1>2. result =
        IF HasKind(r1, kindResponse) /\ r3.went = "ok" /\ done(r3)
          THEN [went |-> "response", msg |-> [seq |-> r2.val, code |-> r3.val]]
          ELSE [went |-> "ErrInvalidEnvelope"]
  BY DeserializesResponse
<1> HIDE DEF r1, r2, r3, result
<1>3. CASE ~(HasKind(r1, kindResponse) /\ r3.went = "ok" /\ done(r3))
  BY <1>2, <1>3 DEF result
<1>4. CASE HasKind(r1, kindResponse) /\ r3.went = "ok" /\ done(r3)
  <2>1. r1.went = "ok" /\ r2.went = "ok"
    <3>1. r2.went = "ok"
      BY <1>1, <1>4, Stays
    <3> QED
      BY <1>1, <3>1, Stays
  <2>2. << >> \in Strings /\ Join(<< >>, b) = b
    BY Joins
  <2>3. PICK kind \in Values(1), z1 \in Strings :
          /\ b = Join(BigEndian(kind, 1), z1)
          /\ r1 = Here(Join(<< >>, BigEndian(kind, 1)), z1, kind)
    BY <1>1, <2>1, <2>2, IntegerRead
  <2>4. kind = kindResponse
    <3>1. r1.val = kind
      BY <2>3 DEF Here
    <3> QED
      BY <1>4, <3>1 DEF HasKind
  <2> DEFINE x1 == <<kindResponse>>
  <2>5. x1 \in Strings /\ b = Join(x1, z1) /\ r1 = Here(x1, z1, kindResponse)
    <3>1. BigEndian(kindResponse, 1) = x1 /\ x1 \in Strings
      BY Kinds
    <3>2. Join(<< >>, x1) = x1
      BY <3>1, Joins
    <3> QED
      BY <2>3, <2>4, <3>1, <3>2
  <2> HIDE DEF x1
  <2>6. PICK seq \in Values(SeqWidth), z2 \in Strings :
          /\ z1 = Join(BigEndian(seq, SeqWidth), z2)
          /\ r2 = Here(Join(x1, BigEndian(seq, SeqWidth)), z2, seq)
    BY <1>1, <2>1, <2>5, IntegerRead, WidthAssumption
  <2> DEFINE S == BigEndian(seq, SeqWidth)
             x2 == Join(x1, S)
  <2>7. x2 \in Strings /\ b = Join(x2, z2)
    <3>1. seq \in Nat
      BY PowersPositive, WidthAssumption DEF Values
    <3>2. S \in Strings
      BY <3>1, Digits, WidthAssumption DEF Strings
    <3>3. z1 = Join(S, z2)
      BY <2>6
    <3> HIDE DEF S
    <3> QED
      BY <2>5, <3>2, <3>3, Joins, Associate
  <2>8. r2 = Here(x2, z2, seq)
    BY <2>6
  <2> HIDE DEF S, x2
  <2>9. PICK code \in Values(CodeWidth), z3 \in Strings :
          /\ z2 = Join(BigEndian(code, CodeWidth), z3)
          /\ r3 = Here(Join(x2, BigEndian(code, CodeWidth)), z3, code)
    BY <1>1, <1>4, <2>7, <2>8, IntegerRead, WidthAssumption
  <2> DEFINE C == BigEndian(code, CodeWidth)
             x3 == Join(x2, C)
  <2>10. x3 \in Strings /\ b = Join(x3, z3)
    <3>1. code \in Nat
      BY PowersPositive, WidthAssumption DEF Values
    <3>2. C \in Strings
      BY <3>1, Digits, WidthAssumption DEF Strings
    <3>3. z2 = Join(C, z3)
      BY <2>9
    <3> HIDE DEF C
    <3> QED
      BY <2>7, <3>2, <3>3, Joins, Associate
  <2>11. r3 = Here(x3, z3, code)
    BY <2>9
  <2> HIDE DEF C, x3
  <2> DEFINE m == [seq |-> seq, code |-> code]
  <2>12. m \in Responses
    BY DEF Responses
  <2>13. z3 = << >>
    BY <1>4, <2>10, <2>11, Ends
  <2>14. b = x3
    BY <2>10, <2>13, Joins
  <2>15. serializeResponseV2(m) = x3
    <3>1. m.seq = seq /\ m.code = code
      OBVIOUS
    <3> HIDE DEF m
    <3> QED
      BY <2>12, <3>1, ResponseParts DEF x1, x2, x3, S, C
  <2>16. r2.val = seq /\ r3.val = code
    BY <2>8, <2>11 DEF Here
  <2>17. result = [went |-> "response", msg |-> m]
    BY <1>2, <1>4, <2>16
  <2> HIDE DEF m
  <2> QED
    BY <2>12, <2>14, <2>15, <2>17 DEF result
<1> QED
  BY <1>3, <1>4

-----------------------------------------------------------------------------
(* The invariant: the bytes are bytes, as many as an envelope has, they are *)
(* what was encoded if something was, and the outcomes are theirs.          *)

Longest == 1 + SeqWidth + CodeWidth + 3 * (CodeWidth + MaxField)

EnvelopeInv ==
  /\ bytes \in Strings
  /\ Len(bytes) <= MaxBytes \/ Len(bytes) <= Longest
  /\ \/ origin = Arbitrary
     \/ \E m \in AnyMessages :
          origin = [went |-> "message", msg |-> m] /\ bytes = SerializeV2(m)
     \/ \E r \in Responses :
          origin = [went |-> "response", msg |-> r] /\ bytes = serializeResponseV2(r)
  /\ \/ out = [asMessage |-> Undecoded, asResponse |-> Undecoded]
     \/ out = [asMessage |-> DeserializeV2(bytes),
               asResponse |-> deserializeResponseV2(bytes)]

LEMMA MessageLength ==
  ASSUME NEW m \in Messages
  PROVE  /\ m \in AnyMessages /\ SerializeV2(m) \in Strings
         /\ Len(SerializeV2(m)) <= Longest
<1>1. m \in AnyMessages
  BY FieldsAreStrings DEF Messages, AnyMessages
<1>2. MaxField \in Nat
  BY PowersPositive, FieldAssumption, WidthAssumption DEF Values
<1>3. \A f \in Fields : f \in FieldStrings /\ Len(f) \in Nat /\ Len(f) <= MaxField
  <2> TAKE f \in Fields
  <2>1. PICK k \in 0..MaxField : f \in [1..k -> Byte]
    BY DEF Fields, BoundedSeq, SeqOf
  <2>2. k \in Nat /\ k <= MaxField /\ Len(f) = k
    BY <1>2, <2>1
  <2> QED
    BY <2>2, FieldsAreStrings
<1>4. ASSUME NEW f \in Fields
      PROVE  appendField(f) \in Strings /\ Len(appendField(f)) <= CodeWidth + MaxField
  <2>1. /\ f \in Strings /\ BigEndian(Len(f), CodeWidth) \in Strings
        /\ Len(BigEndian(Len(f), CodeWidth)) = CodeWidth
        /\ appendField(f) = Join(BigEndian(Len(f), CodeWidth), f)
        /\ appendField(f) \in Strings
    BY <1>3, FieldBytes
  <2>2. Len(appendField(f)) = CodeWidth + Len(f)
    BY <2>1, Joins
  <2> QED
    BY <1>2, <1>3, <2>1, <2>2, WidthAssumption
<1> DEFINE K == <<kindMessage>>
           S == BigEndian(m.seq, SeqWidth)
           T == BigEndian(m.type, CodeWidth)
           P == appendField(m.payload)
           U == appendField(m.username)
           F == appendField(m.filename)
           x2 == Join(K, S)
           x3 == Join(x2, T)
           x4 == Join(x3, P)
           x5 == Join(x4, U)
           x6 == Join(x5, F)
           c == CodeWidth + MaxField
<1>5. /\ K \in Strings /\ S \in Strings /\ T \in Strings /\ P \in Strings
      /\ U \in Strings /\ F \in Strings /\ SerializeV2(m) = x6
  BY <1>1, MessageParts
<1>6. Len(K) = 1 /\ Len(S) = SeqWidth /\ Len(T) = CodeWidth
  <2>1. m.seq \in Values(SeqWidth) /\ m.type \in Values(CodeWidth)
    BY DEF Messages
  <2>2. m.seq \in Nat /\ m.type \in Nat
    BY <2>1, PowersPositive, WidthAssumption DEF Values
  <2> QED
    BY <2>2, Kinds, Digits, WidthAssumption
<1>7. Len(P) <= c /\ Len(U) <= c /\ Len(F) <= c
  <2>1. m.payload \in Fields /\ m.username \in Fields /\ m.filename \in Fields
    BY DEF Messages
  <2> QED
    BY <1>4, <2>1
<1>8. c \in Nat
  BY <1>2, WidthAssumption
<1> HIDE DEF K, S, T, P, U, F, x2, x3, x4, x5, x6, c
<1>9. Len(P) \in Nat /\ Len(U) \in Nat /\ Len(F) \in Nat
  BY <1>5, Joins
<1>10. x2 \in Strings /\ Len(x2) = 1 + SeqWidth
  BY <1>5, <1>6, Joins DEF x2
<1>11. x3 \in Strings /\ Len(x3) = 1 + SeqWidth + CodeWidth
  BY <1>5, <1>6, <1>10, Joins DEF x3
<1>12. x4 \in Strings /\ Len(x4) = Len(x3) + Len(P)
  BY <1>5, <1>11, Joins DEF x4
<1>13. x5 \in Strings /\ Len(x5) = Len(x4) + Len(U)
  BY <1>5, <1>12, Joins DEF x5
<1>14. x6 \in Strings /\ Len(x6) = Len(x5) + Len(F)
  BY <1>5, <1>13, Joins DEF x6
<1>15. Len(x6) <= 1 + SeqWidth + CodeWidth + 3 * c
  BY <1>7, <1>8, <1>9, <1>11, <1>12, <1>13, <1>14, WidthAssumption
<1>16. Len(x6) <= Longest
  BY <1>15 DEF Longest, c
<1> QED
  BY <1>1, <1>5, <1>14, <1>16

LEMMA ResponseLength ==
  ASSUME NEW r \in Responses
  PROVE  serializeResponseV2(r) \in Strings /\ Len(serializeResponseV2(r)) <= Longest
<1> DEFINE K == <<kindResponse>>
           S == BigEndian(r.seq, SeqWidth)
           C == BigEndian(r.code, CodeWidth)
           x2 == Join(K, S)
           x3 == Join(x2, C)
<1>1. /\ r.seq \in Values(SeqWidth) /\ r.code \in Values(CodeWidth)
      /\ K \in Strings /\ S \in Strings /\ C \in Strings
      /\ serializeResponseV2(r) = x3
  BY ResponseParts
<1>2. r.seq \in Nat /\ r.code \in Nat
  BY <1>1, PowersPositive, WidthAssumption DEF Values
<1>3. Len(K) = 1 /\ Len(S) = SeqWidth /\ Len(C) = CodeWidth
  BY <1>2, Kinds, Digits, WidthAssumption
<1> HIDE DEF K, S, C, x2, x3
<1>4. x2 \in Strings /\ Len(x2) = 1 + SeqWidth
  BY <1>1, <1>3, Joins DEF x2
<1>5. x3 \in Strings /\ Len(x3) = 1 + SeqWidth + CodeWidth
  BY <1>1, <1>3, <1>4, Joins DEF x3
<1>6. MaxField \in Nat
  BY PowersPositive, FieldAssumption, WidthAssumption DEF Values
<1>7. Len(x3) <= Longest
  BY <1>5, <1>6, WidthAssumption DEF Longest
<1> QED
  BY <1>1, <1>5, <1>7

\* Every reachable state satisfies the invariant: DeserializeV2 and
\* deserializeResponseV2 are decoding what SerializeV2 or serializeResponseV2
\* wrote, or any bytes of a bounded length.
THEOREM EnvelopeInvariant == Spec => []EnvelopeInv
<1>1. ASSUME Init PROVE EnvelopeInv
  <2>1. out = [asMessage |-> Undecoded, asResponse |-> Undecoded]
    BY <1>1 DEF Init
  <2>2. CASE InitMessage
    <3>1. PICK m \in Messages :
            origin = [went |-> "message", msg |-> m] /\ bytes = SerializeV2(m)
      BY <2>2 DEF InitMessage
    <3>2. m \in AnyMessages /\ bytes \in Strings /\ Len(bytes) <= Longest
      BY <3>1, MessageLength
    <3> QED
      BY <2>1, <3>1, <3>2 DEF EnvelopeInv
  <2>3. CASE InitResponse
    <3>1. PICK r \in Responses :
            origin = [went |-> "response", msg |-> r] /\ bytes = serializeResponseV2(r)
      BY <2>3 DEF InitResponse
    <3>2. bytes \in Strings /\ Len(bytes) <= Longest
      BY <3>1, ResponseLength
    <3> QED
      BY <2>1, <3>1, <3>2 DEF EnvelopeInv
  <2>4. CASE InitBytes
    <3>1. origin = Arbitrary /\ bytes \in BoundedSeq(Byte, MaxBytes)
      BY <2>4 DEF InitBytes
    <3>2. PICK k \in 0..MaxBytes : bytes \in [1..k -> Byte]
      BY <3>1 DEF BoundedSeq, SeqOf
    <3>3. k \in Nat /\ k <= MaxBytes
      BY <3>2, BytesAssumption
    <3>4. bytes \in Strings /\ Len(bytes) <= MaxBytes
      BY <3>2, <3>3 DEF Strings
    <3> QED
      BY <2>1, <3>1, <3>4 DEF EnvelopeInv
  <2> QED
    BY <1>1, <2>2, <2>3, <2>4 DEF Init
<1>2. ASSUME EnvelopeInv, [Decode]_vars PROVE EnvelopeInv'
  <2>1. CASE Decode
    <3>1. /\ origin' = origin /\ bytes' = bytes
          /\ out' = [asMessage |-> DeserializeV2(bytes),
                     asResponse |-> deserializeResponseV2(bytes)]
      BY <2>1 DEF Decode
    <3> QED
      BY <1>2, <3>1 DEF EnvelopeInv
  <2>2. CASE UNCHANGED vars
    BY <1>2, <2>2 DEF EnvelopeInv, vars
  <2> QED
    BY <1>2, <2>1, <2>2
<1> QED
  BY <1>1, <1>2, PTL DEF Spec

\* A message that SerializeV2 wrote, or a response that serializeResponseV2
\* wrote, comes out of its decoder as it went in, whatever its numbers and the
\* bytes of its fields.
THEOREM EnvelopeRoundTrip == Spec => []RoundTrip
<1>1. ASSUME EnvelopeInv PROVE RoundTrip
  <2> SUFFICES ASSUME out.asMessage # Undecoded
               PROVE  /\ origin.went = "message" => out.asMessage = origin
                      /\ origin.went = "response" => out.asResponse = origin
    BY DEF RoundTrip
  <2>1. /\ out.asMessage = DeserializeV2(bytes)
        /\ out.asResponse = deserializeResponseV2(bytes)
    <3>1. CASE out = [asMessage |-> Undecoded, asResponse |-> Undecoded]
      BY <3>1
    <3>2. CASE out = [asMessage |-> DeserializeV2(bytes),
                      asResponse |-> deserializeResponseV2(bytes)]
      BY <3>2
    <3> QED
      BY <1>1, <3>1, <3>2 DEF EnvelopeInv
  <2>2. CASE origin = Arbitrary
    BY <2>2 DEF Arbitrary
  <2>3. ASSUME NEW m \in AnyMessages,
               origin = [went |-> "message", msg |-> m], bytes = SerializeV2(m)
        PROVE  out.asMessage = origin /\ origin.went # "response"
    BY <2>1, <2>3, MessageBack
  <2>4. ASSUME NEW r \in Responses,
               origin = [went |-> "response", msg |-> r],
               bytes = serializeResponseV2(r)
        PROVE  out.asResponse = origin /\ origin.went # "message"
    BY <2>1, <2>4, ResponseBack
  <2> QED
    BY <1>1, <2>2, <2>3, <2>4 DEF EnvelopeInv
<1> QED
  BY <1>1, EnvelopeInvariant, PTL

\* The bytes DeserializeV2 accepts are the ones SerializeV2 writes for what it
\* returns, and those deserializeResponseV2 accepts the ones
\* serializeResponseV2 writes: nothing has two spellings, and nothing is left
\* over.
THEOREM EnvelopeCanonical == Spec => []Canonical
<1>1. ASSUME EnvelopeInv PROVE Canonical
  <2>0. bytes \in Strings
    BY <1>1 DEF EnvelopeInv
  <2>1. CASE out = [asMessage |-> Undecoded, asResponse |-> Undecoded]
    <3>1. out.asMessage.went = "none" /\ out.asResponse.went = "none"
      BY <2>1 DEF Undecoded
    <3> QED
      BY <3>1 DEF Canonical
  <2>2. CASE out = [asMessage |-> DeserializeV2(bytes),
                    asResponse |-> deserializeResponseV2(bytes)]
    <3>1. /\ out.asMessage = DeserializeV2(bytes)
          /\ out.asResponse = deserializeResponseV2(bytes)
      BY <2>2
    <3>2. ASSUME out.asMessage.went = "message"
          PROVE  bytes = SerializeV2(out.asMessage.msg)
      <4>1. PICK m \in AnyMessages : /\ bytes = SerializeV2(m)
                                     /\ out.asMessage = [went |-> "message", msg |-> m]
        BY <2>0, <3>1, <3>2, MessageRead
      <4> QED
        BY <4>1
    <3>3. ASSUME out.asResponse.went = "response"
          PROVE  bytes = serializeResponseV2(out.asResponse.msg)
      <4>1. PICK r \in Responses : /\ bytes = serializeResponseV2(r)
                                   /\ out.asResponse = [went |-> "response", msg |-> r]
        BY <2>0, <3>1, <3>3, ResponseRead
      <4> QED
        BY <4>1
    <3> QED
      BY <3>2, <3>3 DEF Canonical
  <2> QED
    BY <1>1, <2>1, <2>2 DEF EnvelopeInv
<1> QED
  BY <1>1, EnvelopeInvariant, PTL
=============================================================================
