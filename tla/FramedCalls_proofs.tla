------------------------ MODULE FramedCalls_proofs -------------------------
(***************************************************************************)
(* Proofs about FramedCalls.  The loop of _pump is a recursive function,   *)
(* so what it preserves is shown by induction over the waiters it has      *)
(* looked at; the induction principle is the one about sets of naturals    *)
(* below, which mentions no operator.                                      *)
(***************************************************************************)
EXTENDS FramedCalls, WellFoundedInduction, SequenceTheorems, TLAPS

-----------------------------------------------------------------------------
(* Induction.                                                              *)

\* A set that contains 0 and with every number the next one contains all.
LEMMA Reach ==
  ASSUME NEW S, 0 \in S, \A n \in Nat : n \in S => n + 1 \in S
  PROVE  Nat \subseteq S
<1> SUFFICES ASSUME Nat \ S # {} PROVE FALSE
  OBVIOUS
<1> DEFINE N == Nat \ S
<1>1. PICK m \in N : \A k \in N : <<k, m>> \notin OpToRel(<, Nat)
  <2>1. N \subseteq Nat /\ N # {}
    OBVIOUS
  <2> HIDE DEF N
  <2> QED
    BY <2>1, NatLessThanWellFounded, WFMin, Zenon
<1>2. \A k \in N : ~(k < m)
  BY <1>1, Zenon DEF OpToRel
<1>3. m \in Nat /\ m # 0 /\ m - 1 \in Nat
  OBVIOUS
<1>4. m - 1 \in S
  BY <1>2, <1>3
<1>5. (m - 1) + 1 \in S
  BY <1>3, <1>4
<1> QED
  BY <1>3, <1>5

-----------------------------------------------------------------------------
(* The loop of _pump.                                                      *)

\* What _pump has when it starts.
PumpStart(start, pending) == [off |-> start, kept |-> <<>>, ready |-> pending]

\* One turn of the loop per waiter, the next one from where the last one ended.
LEMMA PumpTurns ==
  ASSUME NEW ws, Len(ws) \in Nat, NEW start, NEW h, NEW e, NEW pending
  PROVE  LET P == Pumping(ws, start, h, e, pending)
         IN /\ P[0] = PumpStart(start, pending)
            /\ \A i \in 1..Len(ws) : P[i] = Serve(P[i - 1], ws[i], h, e)
<1> DEFINE L == Len(ws)
           Base == PumpStart(start, pending)
           IsRun(f, n) ==
             f = [i \in 0..n |-> IF i = 0 THEN Base
                                 ELSE Serve(f[i - 1], ws[i], h, e)]
           S == {n \in Nat : \E f : IsRun(f, n)}
<1> HIDE DEF Base
<1>1. 0 \in S
  <2>1. IsRun([i \in 0..0 |-> Base], 0)
    OBVIOUS
  <2> QED
    BY <2>1
<1>2. ASSUME NEW n \in Nat, n \in S PROVE n + 1 \in S
  <2>1. PICK f : IsRun(f, n)
    BY <1>2
  <2> DEFINE g == [i \in 0..(n + 1) |->
                     IF i <= n THEN f[i] ELSE Serve(f[n], ws[i], h, e)]
  <2>2. \A i \in 0..n : g[i] = f[i]
    OBVIOUS
  <2>3. g[n + 1] = Serve(g[n], ws[n + 1], h, e)
    OBVIOUS
  <2>4. g[0] = Base
    BY <2>1
  <2>5. ASSUME NEW i \in 1..n PROVE g[i] = Serve(g[i - 1], ws[i], h, e)
    <3>1. f[i] = Serve(f[i - 1], ws[i], h, e)
      BY <2>1
    <3> QED
      BY <3>1, <2>2
  <2>6. DOMAIN g = 0..(n + 1) /\ g = [i \in 0..(n + 1) |-> g[i]]
    OBVIOUS
  <2> HIDE DEF g
  <2>7. \A i \in 0..(n + 1) :
          g[i] = IF i = 0 THEN Base ELSE Serve(g[i - 1], ws[i], h, e)
    <3> TAKE i \in 0..(n + 1)
    <3>1. CASE i = 0
      BY <3>1, <2>4
    <3>2. CASE i = n + 1
      BY <3>2, <2>3
    <3>3. CASE i \in 1..n
      BY <3>3, <2>5
    <3> QED
      BY <3>1, <3>2, <3>3
  <2>8. IsRun(g, n + 1)
    BY <2>6, <2>7
  <2> QED
    BY <2>8
<1>3. Nat \subseteq S
  <2> HIDE DEF S
  <2> QED
    BY <1>1, <1>2, Reach
<1>4. PICK f : IsRun(f, L)
  BY <1>3
<1> DEFINE P == Pumping(ws, start, h, e, pending)
<1>5. IsRun(P, L)
  BY <1>4 DEF Pumping, Base, PumpStart
<1> HIDE DEF P
<1>6. P[0] = Base
  BY <1>5
<1>7. \A i \in 1..L : P[i] = Serve(P[i - 1], ws[i], h, e)
  BY <1>5
<1> QED
  BY <1>6, <1>7 DEF P, Base

\* What waits, and what a settled read hands to its continuation.
Waiter == [call : Nat, n : Nat]
Read == [call : Nat, ok : BOOLEAN, at : Nat, n : Nat]

\* The loop looked at the first i of the waiters ws: it passed on the pending
\* reads, settled some of the first waiters in their order (rs), kept the rest
\* (ks), and took the bytes of those it served, those from start to o.
Turned(o, ks, rs, i, ws, start, h, e, pending) ==
  /\ o \in start..h
  /\ Len(pending) <= Len(rs)
  /\ Len(rs) + Len(ks) = Len(pending) + i
  /\ \A j \in 1..Len(pending) : rs[j] = pending[j]
  /\ \A j \in (Len(pending) + 1)..Len(rs) :
       /\ rs[j].call = ws[j - Len(pending)].call
       /\ rs[j].n = ws[j - Len(pending)].n
       /\ rs[j].ok => rs[j].at + rs[j].n <= o
  /\ \A j \in 1..Len(ks) : ks[j] = ws[i - Len(ks) + j]
  /\ e => ks = <<>>

\* What the loop carries from turn to turn.
Acc(o, ks, rs) == [off |-> o, kept |-> ks, ready |-> rs]
TurnedTo(acc, i, ws, start, h, e, pending) ==
  \E o \in Nat, ks \in Seq(Waiter), rs \in Seq(Read) :
    acc = Acc(o, ks, rs) /\ Turned(o, ks, rs, i, ws, start, h, e, pending)

\* One turn for a read that was settled, and for one that waits.
LEMMA TurnSettles ==
  ASSUME NEW ws \in Seq(Waiter), NEW start \in Nat, NEW h \in Nat, NEW e \in BOOLEAN,
         NEW pending \in Seq(Read), NEW o \in Nat, NEW rs \in Seq(Read), NEW i \in 1..Len(ws),
         Turned(o, <<>>, rs, i - 1, ws, start, h, e, pending),
         NEW r \in Read, r.call = ws[i].call, r.n = ws[i].n, NEW o2 \in o..h,
         r.ok => r.at + r.n <= o2
  PROVE  Turned(o2, <<>>, Append(rs, r), i, ws, start, h, e, pending)
<1> DEFINE m == Len(pending)
           l == Len(rs)
           rs2 == Append(rs, r)
           l2 == Len(rs2)
<1>1. /\ m \in Nat /\ l \in Nat /\ l2 = l + 1 /\ i \in Nat
      /\ \A j \in 1..l : rs2[j] = rs[j]
      /\ rs2[l + 1] = r
  BY AppendProperties, LenProperties
<1>2. Len(<<>>) = 0
  OBVIOUS
<1>3. /\ o \in start..h /\ m <= l /\ l + 0 = m + (i - 1)
      /\ \A j \in 1..m : rs[j] = pending[j]
      /\ \A j \in (m + 1)..l :
           /\ rs[j].call = ws[j - m].call /\ rs[j].n = ws[j - m].n
           /\ rs[j].ok => rs[j].at + rs[j].n <= o
  BY <1>2 DEF Turned
<1>4. ASSUME NEW j \in 1..l PROVE rs[j].at \in Nat /\ rs[j].n \in Nat
  <2>1. rs[j] \in Read
    BY <1>1, <1>4, ElementOfSeq
  <2> QED
    BY <2>1 DEF Read
<1> HIDE DEF m, l, l2, rs2
<1>5. /\ o2 \in start..h /\ m <= l2 /\ l2 + 0 = m + i
      /\ \A j \in 1..m : rs2[j] = pending[j]
  BY <1>1, <1>3
<1>6. ASSUME NEW j \in (m + 1)..l2
      PROVE  /\ rs2[j].call = ws[j - m].call /\ rs2[j].n = ws[j - m].n
             /\ rs2[j].ok => rs2[j].at + rs2[j].n <= o2
  <2>1. CASE j = l + 1
    <3>1. j - m = i /\ rs2[j] = r
      BY <2>1, <1>1, <1>3
    <3> QED
      BY <3>1
  <2>2. CASE j # l + 1
    <3>0. j \in (m + 1)..l /\ j \in 1..l
      <4>1. m \in Nat /\ l \in Nat /\ l2 = l + 1
        BY <1>1
      <4> QED
        BY <4>1, <2>2
    <3>1. j \in (m + 1)..l /\ j \in 1..l /\ rs2[j] = rs[j]
      BY <3>0, <1>1
    <3>2. rs[j].at \in Nat /\ rs[j].n \in Nat /\ (rs[j].ok => rs[j].at + rs[j].n <= o)
      BY <3>1, <1>3, <1>4
    <3>3. rs[j].ok => rs[j].at + rs[j].n <= o2
      BY <3>2
    <3> QED
      BY <3>1, <3>3, <1>3
  <2> QED
    BY <2>1, <2>2
<1> QED
  BY <1>2, <1>5, <1>6 DEF Turned, m, l2, rs2

LEMMA TurnKeeps ==
  ASSUME NEW ws \in Seq(Waiter), NEW start \in Nat, NEW h \in Nat, NEW e \in BOOLEAN,
         NEW pending \in Seq(Read), NEW o \in Nat, NEW ks \in Seq(Waiter), NEW rs \in Seq(Read),
         NEW i \in 1..Len(ws), Turned(o, ks, rs, i - 1, ws, start, h, e, pending), ~e
  PROVE  Turned(o, Append(ks, ws[i]), rs, i, ws, start, h, e, pending)
<1> DEFINE m == Len(pending)
           l == Len(rs)
           b == Len(ks)
           ks2 == Append(ks, ws[i])
           b2 == Len(ks2)
<1>0. ws[i] \in Waiter
  BY ElementOfSeq
<1>1. /\ m \in Nat /\ l \in Nat /\ b \in Nat /\ b2 = b + 1 /\ i \in Nat
      /\ \A j \in 1..b : ks2[j] = ks[j]
      /\ ks2[b + 1] = ws[i]
  BY <1>0, AppendProperties, LenProperties
<1>2. l + b = m + (i - 1) /\ \A j \in 1..b : ks[j] = ws[(i - 1) - b + j]
  BY DEF Turned
<1> HIDE DEF m, l, b, b2, ks2
<1>3. l + b2 = m + i
  BY <1>1, <1>2
<1>4. ASSUME NEW j \in 1..b2 PROVE ks2[j] = ws[i - b2 + j]
  <2>1. CASE j = b + 1
    <3>1. i - b2 + j = i /\ ks2[j] = ws[i]
      BY <2>1, <1>1
    <3> QED
      BY <3>1
  <2>2. CASE j # b + 1
    <3>1. j \in 1..b /\ (i - 1) - b + j = i - b2 + j
      BY <2>2, <1>1
    <3> QED
      BY <3>1, <1>1, <1>2
  <2> QED
    BY <2>1, <2>2
<1>5. /\ o \in start..h /\ m <= l
      /\ \A j \in 1..m : rs[j] = pending[j]
      /\ \A j \in (m + 1)..l :
           /\ rs[j].call = ws[j - m].call /\ rs[j].n = ws[j - m].n
           /\ rs[j].ok => rs[j].at + rs[j].n <= o
  BY DEF Turned, m, l
<1> QED
  BY <1>3, <1>4, <1>5 DEF Turned, m, l, b2, ks2

\* One turn of the loop.
LEMMA ServeTurns ==
  ASSUME NEW ws \in Seq(Waiter), NEW start \in Nat, NEW h \in Nat, NEW e \in BOOLEAN,
         NEW pending \in Seq(Read), NEW acc, NEW i \in 1..Len(ws),
         TurnedTo(acc, i - 1, ws, start, h, e, pending)
  PROVE  TurnedTo(Serve(acc, ws[i], h, e), i, ws, start, h, e, pending)
<1>1. PICK o \in Nat, ks \in Seq(Waiter), rs \in Seq(Read) :
        acc = Acc(o, ks, rs) /\ Turned(o, ks, rs, i - 1, ws, start, h, e, pending)
  BY DEF TurnedTo
<1>2. acc.off = o /\ acc.kept = ks /\ acc.ready = rs
  BY <1>1 DEF Acc
<1> DEFINE w == ws[i]
           got == [call |-> w.call, ok |-> TRUE, at |-> o, n |-> w.n]
           lost == [call |-> w.call, ok |-> FALSE, at |-> o, n |-> w.n]
<1>3. w \in Waiter /\ w.n \in Nat /\ w.call \in Nat
  <2>1. w \in Waiter
    BY ElementOfSeq
  <2> QED
    BY <2>1 DEF Waiter
<1>4. /\ got \in Read /\ got.call = w.call /\ got.n = w.n /\ got.at = o
      /\ lost \in Read /\ lost.call = w.call /\ lost.n = w.n /\ lost.ok = FALSE
  BY <1>3 DEF Read
<1>5. o <= h /\ (e => ks = <<>>)
  BY <1>1 DEF Turned
<1> HIDE DEF w
<1>6. CASE ks # <<>>
  <2>1. Serve(acc, w, h, e) = Acc(o, Append(ks, w), rs)
    BY <1>1, <1>2, <1>6 DEF Serve, Acc
  <2>2. Turned(o, Append(ks, w), rs, i, ws, start, h, e, pending)
    BY <1>1, <1>5, <1>6, TurnKeeps DEF w
  <2>3. Append(ks, w) \in Seq(Waiter)
    BY <1>3, AppendProperties
  <2> QED
    BY <2>1, <2>2, <2>3 DEF TurnedTo, w
<1>7. CASE ks = <<>> /\ h - o >= w.n
  <2>1. Serve(acc, w, h, e) = Acc(o + w.n, <<>>, Append(rs, got))
    BY <1>1, <1>2, <1>7 DEF Serve, Acc
  <2> HIDE DEF got
  <2>2. o + w.n \in o..h /\ o + w.n \in Nat /\ got.at + got.n <= o + w.n
    <3> DEFINE n == w.n
    <3>1. n \in Nat /\ h - o >= n
      BY <1>3, <1>7
    <3> HIDE DEF n
    <3>2. o + n \in o..h /\ o + n \in Nat
      BY <3>1
    <3> QED
      BY <3>2, <1>4 DEF n
  <2>3. Turned(o + w.n, <<>>, Append(rs, got), i, ws, start, h, e, pending)
    <3>1. /\ Turned(o, <<>>, rs, i - 1, ws, start, h, e, pending)
          /\ got \in Read /\ got.call = ws[i].call /\ got.n = ws[i].n
      BY <1>1, <1>4, <1>7 DEF w
    <3> DEFINE o2 == o + w.n
    <3>2. o2 \in o..h /\ (got.ok => got.at + got.n <= o2)
      BY <2>2
    <3> HIDE DEF o2
    <3>3. Turned(o2, <<>>, Append(rs, got), i, ws, start, h, e, pending)
      BY <3>1, <3>2, TurnSettles
    <3> QED
      BY <3>3 DEF o2
  <2>4. Append(rs, got) \in Seq(Read) /\ <<>> \in Seq(Waiter)
    BY <1>4, AppendProperties
  <2> QED
    BY <2>1, <2>2, <2>3, <2>4 DEF TurnedTo, w
<1>8. CASE ks = <<>> /\ ~(h - o >= w.n) /\ e
  <2>1. Serve(acc, w, h, e) = Acc(o, <<>>, Append(rs, lost))
    BY <1>1, <1>2, <1>8 DEF Serve, Acc
  <2> HIDE DEF lost
  <2>2. o \in o..h
    BY <1>5
  <2>3. Turned(o, <<>>, Append(rs, lost), i, ws, start, h, e, pending)
    BY <1>1, <1>4, <1>8, <2>2, TurnSettles DEF w
  <2>4. Append(rs, lost) \in Seq(Read) /\ <<>> \in Seq(Waiter)
    BY <1>4, AppendProperties
  <2> QED
    BY <2>1, <2>3, <2>4 DEF TurnedTo, w
<1>9. CASE ks = <<>> /\ ~(h - o >= w.n) /\ ~e
  <2>1. Serve(acc, w, h, e) = Acc(o, <<w>>, rs)
    BY <1>1, <1>2, <1>9 DEF Serve, Acc
  <2>2. Append(ks, w) = <<w>> /\ <<w>> \in Seq(Waiter)
    BY <1>3, <1>9
  <2>3. Turned(o, Append(ks, w), rs, i, ws, start, h, e, pending)
    BY <1>1, <1>9, TurnKeeps DEF w
  <2>4. Turned(o, <<w>>, rs, i, ws, start, h, e, pending)
    BY <2>2, <2>3
  <2> QED
    BY <2>1, <2>2, <2>4 DEF TurnedTo, w
<1> QED
  BY <1>6, <1>7, <1>8, <1>9

\* What the loop leaves behind.
LEMMA PumpTurned ==
  ASSUME NEW ws \in Seq(Waiter), NEW start \in Nat, NEW h \in Nat, start <= h,
         NEW e \in BOOLEAN, NEW pending \in Seq(Read)
  PROVE  TurnedTo(Pumping(ws, start, h, e, pending)[Len(ws)], Len(ws), ws, start, h, e, pending)
<1> DEFINE P == Pumping(ws, start, h, e, pending)
           L == Len(ws)
           Good(i) == TurnedTo(P[i], i, ws, start, h, e, pending)
           S == {i \in Nat : i <= L => Good(i)}
<1>1. L \in Nat
  OBVIOUS
<1>2. /\ P[0] = PumpStart(start, pending)
      /\ \A i \in 1..L : P[i] = Serve(P[i - 1], ws[i], h, e)
  BY <1>1, PumpTurns
<1> HIDE DEF P
<1>3. Good(0)
  <2>1. P[0] = Acc(start, <<>>, pending)
    BY <1>2 DEF PumpStart, Acc
  <2>2. Len(pending) \in Nat /\ <<>> \in Seq(Waiter) /\ Len(<<>>) = 0
    OBVIOUS
  <2>3. Turned(start, <<>>, pending, 0, ws, start, h, e, pending)
    BY <2>2 DEF Turned
  <2> QED
    BY <2>1, <2>2, <2>3 DEF TurnedTo
<1>4. 0 \in S
  BY <1>3
<1>5. ASSUME NEW i \in Nat, i \in S PROVE i + 1 \in S
  <2> SUFFICES ASSUME i + 1 <= L PROVE Good(i + 1)
    OBVIOUS
  <2>1. Good(i)
    BY <1>5, <1>1
  <2>2. i + 1 \in 1..Len(ws) /\ (i + 1) - 1 = i
    BY <1>1
  <2>3. P[i + 1] = Serve(P[i], ws[i + 1], h, e)
    BY <2>2, <1>2
  <2>4. TurnedTo(P[i], (i + 1) - 1, ws, start, h, e, pending)
    BY <2>1, <2>2
  <2> HIDE DEF Good
  <2>5. TurnedTo(Serve(P[i], ws[i + 1], h, e), i + 1, ws, start, h, e, pending)
    BY <2>2, <2>4, ServeTurns
  <2> QED
    BY <2>3, <2>5 DEF Good
<1>6. Nat \subseteq S
  <2> HIDE DEF S
  <2> QED
    BY <1>4, <1>5, Reach
<1>7. L \in S
  BY <1>1, <1>6
<1>8. Good(L)
  BY <1>7, <1>1
<1> QED
  BY <1>8 DEF P

-----------------------------------------------------------------------------
(* Calls keep their order.                                                 *)

\* The calls whose reads are settled or waiting, in the order of the reads.
LineOf(rs, ws) ==
  [i \in 1..(Len(rs) + Len(ws)) |->
     IF i <= Len(rs) THEN rs[i].call ELSE ws[i - Len(rs)].call]
Line == LineOf(ready, waiters)

\* Bytes are read once and only when they came, and a response is accepted
\* after all its bytes were read.
BytesInv ==
  /\ have <= FrameSize * Len(answers)
  /\ \A i \in DOMAIN ready : ready[i].ok => ready[i].at + ready[i].n <= off
  /\ FrameSize * recvSeq <= off
  /\ \A k \in DOMAIN calls : calls[k].out = "code" => calls[k].n \in 1..recvSeq

\* A call as the history keeps it.
CallRec == [pc : {"write", "lost", "prefix", "body", "done"}, n : Nat,
            out : {"none", "code", "refused", "write", "eof", "size", "seal", "replay"}]

\* Of the calls cs, those in line l read and those in ws write.  Calls that
\* read bodies come before calls that read prefixes, both before calls that
\* write, and each of the three are in the order of the calls; a call that
\* returned a code came before all of them.
InOrder(cs, l, ws) ==
  /\ \A i \in 1..Len(l) : l[i] \in 1..Len(cs) /\ cs[l[i]].pc \in {"prefix", "body"}
  /\ \A i, j \in 1..Len(l) : i < j /\ cs[l[i]].pc = cs[l[j]].pc => l[i] < l[j]
  /\ \A i, j \in 1..Len(l) :
       cs[l[i]].pc = "body" /\ cs[l[j]].pc = "prefix" => l[i] < l[j]
  /\ \A i \in 1..Len(ws) : ws[i] \in 1..Len(cs) /\ cs[ws[i]].pc \in {"write", "lost"}
  /\ \A i, j \in 1..Len(ws) : i < j => ws[i] < ws[j]
  /\ \A i \in 1..Len(l), j \in 1..Len(ws) : l[i] < ws[j]
  /\ \A k \in 1..Len(cs) : cs[k].out = "code" =>
       /\ \A i \in 1..Len(l) : k < l[i]
       /\ \A i \in 1..Len(ws) : k < ws[i]

FramedInv ==
  TypeOK /\ BytesInv /\ InOrder(calls, Line, writes) /\ CodesInOrder

-----------------------------------------------------------------------------
(* Where an application that awaits every call may be.                     *)

Last == Len(calls)
OthersSettled == \A j \in 1..(Last - 1) : calls[j].pc = "done"
LastAt(pc) == Last > 0 /\ calls[Last].pc = pc

\* The message of the last call is the one after the q already answered, and
\* no response behind those was accepted.
Owed(q) ==
  /\ recvSeq <= q
  /\ \/ inbox = <<Last>> /\ Len(answers) = q
     \/ inbox = <<>> /\ Len(answers) = q + 1 /\ answers[q + 1] = Last

Idle(q) ==
  /\ \A j \in 1..Last : calls[j].pc = "done"
  /\ writes = <<>> /\ waiters = <<>> /\ ready = <<>>
  /\ ~ended => off = FrameSize * q /\ Len(answers) = q /\ inbox = <<>>

\* A write whose callback will report an error.
Losing ==
  /\ OthersSettled /\ LastAt("lost") /\ ended
  /\ writes = <<Last>> /\ waiters = <<>> /\ ready = <<>>

Writing(q) ==
  /\ OthersSettled /\ LastAt("write") /\ Owed(q) /\ off = FrameSize * q
  /\ writes = <<Last>> /\ waiters = <<>> /\ ready = <<>>

\* A read of n bytes from the byte at, waiting or settled.
Waiting(q, pc, at, n) ==
  /\ OthersSettled /\ LastAt(pc) /\ Owed(q) /\ off = at
  /\ writes = <<>> /\ waiters = <<[call |-> Last, n |-> n]>> /\ ready = <<>>

GotBytes(q, pc, at, n) ==
  /\ OthersSettled /\ LastAt(pc) /\ Owed(q) /\ off = at + n
  /\ writes = <<>> /\ waiters = <<>>
  /\ ready = <<[call |-> Last, ok |-> TRUE, at |-> at, n |-> n]>>

Rejected ==
  /\ OthersSettled /\ (LastAt("prefix") \/ LastAt("body")) /\ ended
  /\ writes = <<>> /\ waiters = <<>>
  /\ \E at, n \in Nat :
       ready = <<[call |-> Last, ok |-> FALSE, at |-> at, n |-> n]>>

Phase(q) ==
  \/ Idle(q) \/ Losing \/ Writing(q) \/ Rejected
  \/ Waiting(q, "prefix", FrameSize * q, PrefixSize)
  \/ GotBytes(q, "prefix", FrameSize * q, PrefixSize)
  \/ Waiting(q, "body", FrameSize * q + PrefixSize, SealedResponse)
  \/ GotBytes(q, "body", FrameSize * q + PrefixSize, SealedResponse)

AwaitedInv == ~overlapped => \E q \in 0..Len(answers) : Phase(q)

-----------------------------------------------------------------------------
(* What _pump does to the variables.                                       *)

\* It settles and keeps reads in the order they have, passes the pending ones
\* on, and takes only bytes that came.
LEMMA PumpLine ==
  ASSUME NEW ws \in Seq(Waiter), NEW start \in Nat, NEW h \in Nat, start <= h,
         NEW e \in BOOLEAN, NEW pending \in Seq(Read),
         Pump(ws, start, h, e, pending)
  PROVE  /\ waiters' \in Seq(Waiter) /\ ready' \in Seq(Read)
         /\ off' \in Nat /\ start <= off' /\ off' <= h
         /\ Line' = LineOf(pending, ws)
         /\ \A i \in DOMAIN ready' :
              \/ i \in DOMAIN pending /\ ready'[i] = pending[i]
              \/ ready'[i].ok => ready'[i].at + ready'[i].n <= off'
         /\ e => waiters' = <<>>
<1> DEFINE L == Len(ws)
           end == Pumping(ws, start, h, e, pending)[L]
           Lp == Len(pending)
           Lr == Len(ready')
           Lw == Len(waiters')
<1>1. waiters' = end.kept /\ off' = end.off /\ ready' = end.ready
  BY DEF Pump
<1>2. PICK o \in Nat, ks \in Seq(Waiter), rs \in Seq(Read) :
        end = Acc(o, ks, rs) /\ Turned(o, ks, rs, L, ws, start, h, e, pending)
  BY PumpTurned DEF TurnedTo
<1>20. off' = o /\ waiters' = ks /\ ready' = rs
  BY <1>1, <1>2 DEF Acc
<1> HIDE DEF end
<1>3. /\ off' \in start..h /\ waiters' \in Seq(Waiter) /\ ready' \in Seq(Read)
      /\ Lp <= Lr /\ Lr + Lw = Lp + L
      /\ \A j \in 1..Lp : ready'[j] = pending[j]
      /\ \A j \in (Lp + 1)..Lr :
           /\ ready'[j].call = ws[j - Lp].call
           /\ ready'[j].ok => ready'[j].at + ready'[j].n <= off'
      /\ \A j \in 1..Lw : waiters'[j] = ws[L - Lw + j]
      /\ e => waiters' = <<>>
  BY <1>2, <1>20 DEF Turned
<1>4. Lp \in Nat /\ Lr \in Nat /\ Lw \in Nat /\ L \in Nat
  BY <1>3, LenProperties
<1>5. off' \in Nat /\ start <= off' /\ off' <= h
  BY <1>3
<1>50. Lr + Lw = Lp + L /\ Lp <= Lr
  BY <1>3
<1>6. Line' = LineOf(pending, ws)
  <2>1. Line' = [i \in 1..(Lr + Lw) |->
                   IF i <= Lr THEN ready'[i].call ELSE waiters'[i - Lr].call]
    BY DEF Line, LineOf
  <2>2. LineOf(pending, ws) = [i \in 1..(Lp + L) |->
                   IF i <= Lp THEN pending[i].call ELSE ws[i - Lp].call]
    BY DEF LineOf
  <2> HIDE DEF Lp, Lr, Lw, L
  <2>3. ASSUME NEW i \in 1..(Lp + L)
        PROVE  (IF i <= Lr THEN ready'[i].call ELSE waiters'[i - Lr].call)
                 = (IF i <= Lp THEN pending[i].call ELSE ws[i - Lp].call)
    <3>1. CASE i <= Lp
      BY <3>1, <1>3, <1>4
    <3>2. CASE ~(i <= Lp) /\ i <= Lr
      BY <3>2, <1>3, <1>4
    <3>3. CASE ~(i <= Lr)
      <4>1. i - Lr \in 1..Lw /\ L - Lw + (i - Lr) = i - Lp
        BY <3>3, <1>50, <1>4
      <4>2. waiters'[i - Lr] = ws[i - Lp]
        BY <4>1, <1>3
      <4> QED
        BY <4>2, <3>3, <1>3, <1>4
    <3> QED
      BY <3>1, <3>2, <3>3
  <2> QED
    BY <2>1, <2>2, <2>3, <1>3
<1>7. ASSUME NEW i \in DOMAIN ready'
      PROVE  \/ i \in DOMAIN pending /\ ready'[i] = pending[i]
             \/ ready'[i].ok => ready'[i].at + ready'[i].n <= off'
  <2>1. i \in 1..Lr /\ DOMAIN pending = 1..Lp
    BY <1>3, LenProperties
  <2> HIDE DEF Lp, Lr, Lw, L
  <2>2. CASE i <= Lp
    BY <2>2, <2>1, <1>3, <1>4
  <2>3. CASE ~(i <= Lp)
    <3>1. i \in (Lp + 1)..Lr
      BY <2>3, <2>1, <1>4
    <3> QED
      BY <3>1, <1>3
  <2> QED
    BY <2>2, <2>3
<1> QED
  BY <1>3, <1>5, <1>6, <1>7

\* With nothing to serve it changes nothing.
LEMMA PumpNone ==
  ASSUME NEW start, NEW h, NEW e, NEW pending, Pump(<<>>, start, h, e, pending)
  PROVE  waiters' = <<>> /\ off' = start /\ ready' = pending
<1>1. Len(<<>>) = 0
  OBVIOUS
<1>2. Pumping(<<>>, start, h, e, pending)[0] = PumpStart(start, pending)
  BY <1>1, PumpTurns
<1> QED
  BY <1>1, <1>2 DEF Pump, PumpStart

\* With one read to serve it serves it, rejects it or leaves it.
LEMMA PumpOne ==
  ASSUME NEW w, NEW start, NEW h, NEW e, Pump(<<w>>, start, h, e, <<>>)
  PROVE  \/ /\ h - start >= w.n
            /\ waiters' = <<>> /\ off' = start + w.n
            /\ ready' = <<[call |-> w.call, ok |-> TRUE, at |-> start, n |-> w.n]>>
         \/ /\ e /\ ~(h - start >= w.n)
            /\ waiters' = <<>> /\ off' = start
            /\ ready' = <<[call |-> w.call, ok |-> FALSE, at |-> start, n |-> w.n]>>
         \/ /\ ~e
            /\ waiters' = <<w>> /\ off' = start /\ ready' = <<>>
<1> DEFINE P == Pumping(<<w>>, start, h, e, <<>>)
           base == [off |-> start, kept |-> <<>>, ready |-> <<>>]
<1>1. Len(<<w>>) = 1 /\ <<w>>[1] = w
  OBVIOUS
<1>2. P[0] = base /\ P[1] = Serve(P[0], w, h, e)
  <2>1. P[0] = PumpStart(start, <<>>) /\ P[1] = Serve(P[1 - 1], <<w>>[1], h, e)
    BY <1>1, PumpTurns
  <2> QED
    BY <2>1, <1>1 DEF PumpStart
<1>3. waiters' = P[1].kept /\ off' = P[1].off /\ ready' = P[1].ready
  BY <1>1 DEF Pump
<1> HIDE DEF P
<1>4. P[1] = Serve(base, w, h, e)
  BY <1>2
<1> DEFINE got == [call |-> w.call, ok |-> TRUE, at |-> start, n |-> w.n]
           lost == [call |-> w.call, ok |-> FALSE, at |-> start, n |-> w.n]
<1>5. \A r : Append(<<>>, r) = <<r>>
  OBVIOUS
<1>6. CASE h - start >= w.n
  <2>1. P[1] = [base EXCEPT !.off = start + w.n, !.ready = Append(<<>>, got)]
    BY <1>4, <1>6 DEF Serve
  <2>2. P[1] = [base EXCEPT !.off = start + w.n, !.ready = <<got>>]
    BY <2>1, <1>5, Zenon
  <2> HIDE DEF got
  <2>3. P[1].kept = <<>> /\ P[1].off = start + w.n /\ P[1].ready = <<got>>
    BY <2>2
  <2> QED
    BY <2>3, <1>3, <1>6, Zenon DEF got
<1>7. CASE e /\ ~(h - start >= w.n)
  <2>1. P[1] = [base EXCEPT !.ready = Append(<<>>, lost)]
    BY <1>4, <1>7 DEF Serve
  <2>2. P[1] = [base EXCEPT !.ready = <<lost>>]
    BY <2>1, <1>5, Zenon
  <2> HIDE DEF lost
  <2>3. P[1].kept = <<>> /\ P[1].off = start /\ P[1].ready = <<lost>>
    BY <2>2
  <2> QED
    BY <2>3, <1>3, <1>7, Zenon DEF lost
<1>8. CASE ~e /\ ~(h - start >= w.n)
  <2>1. P[1] = [off |-> start, kept |-> <<w>>, ready |-> <<>>]
    BY <1>4, <1>8 DEF Serve
  <2> QED
    BY <2>1, <1>3, <1>8
<1> QED
  BY <1>6, <1>7, <1>8

-----------------------------------------------------------------------------
(* The line as a sequence.                                                 *)

LEMMA LineIs ==
  ASSUME NEW rs \in Seq(Read), NEW ws \in Seq(Waiter)
  PROVE  /\ LineOf(rs, ws) \in Seq(Nat)
         /\ Len(LineOf(rs, ws)) = Len(rs) + Len(ws)
         /\ DOMAIN LineOf(rs, ws) = 1..(Len(rs) + Len(ws))
<1>1. Len(rs) \in Nat /\ Len(ws) \in Nat
  BY LenProperties
<1>2. \A i \in 1..(Len(rs) + Len(ws)) :
        (IF i <= Len(rs) THEN rs[i].call ELSE ws[i - Len(rs)].call) \in Nat
  <2> TAKE i \in 1..(Len(rs) + Len(ws))
  <2>1. CASE i <= Len(rs)
    <3>1. rs[i] \in Read
      BY <2>1, <1>1, ElementOfSeq
    <3> QED
      BY <3>1, <2>1 DEF Read
  <2>2. CASE ~(i <= Len(rs))
    <3>1. i - Len(rs) \in 1..Len(ws)
      BY <2>2, <1>1
    <3>2. ws[i - Len(rs)] \in Waiter
      BY <3>1, ElementOfSeq
    <3> QED
      BY <3>2, <2>2 DEF Waiter
  <2> QED
    BY <2>1, <2>2
<1>3. LineOf(rs, ws) \in [1..(Len(rs) + Len(ws)) -> Nat]
  BY <1>2 DEF LineOf
<1> HIDE DEF LineOf
<1> QED
  BY <1>1, <1>3, IsASeq

\* A new read goes to the end of the line.
LEMMA LineAppend ==
  ASSUME NEW rs \in Seq(Read), NEW ws \in Seq(Waiter), NEW w \in Waiter
  PROVE  LineOf(rs, Append(ws, w)) = Append(LineOf(rs, ws), w.call)
<1> DEFINE A == LineOf(rs, Append(ws, w))
           B == Append(LineOf(rs, ws), w.call)
           a == Len(rs)
           b == Len(ws)
<1>1. a \in Nat /\ b \in Nat /\ w.call \in Nat
  BY LenProperties DEF Waiter
<1>2. /\ Append(ws, w) \in Seq(Waiter) /\ Len(Append(ws, w)) = b + 1
      /\ \A i \in 1..b : Append(ws, w)[i] = ws[i]
      /\ Append(ws, w)[b + 1] = w
  BY AppendProperties
<1>3. A \in Seq(Nat) /\ Len(A) = a + (b + 1)
  BY <1>2, LineIs
<1>4. LineOf(rs, ws) \in Seq(Nat) /\ Len(LineOf(rs, ws)) = a + b
  BY LineIs
<1>5. /\ B \in Seq(Nat) /\ Len(B) = a + b + 1
      /\ \A i \in 1..(a + b) : B[i] = LineOf(rs, ws)[i]
      /\ B[a + b + 1] = w.call
  BY <1>1, <1>4, AppendProperties
<1>6. \A i \in 1..(a + b + 1) :
        A[i] = IF i <= a THEN rs[i].call ELSE Append(ws, w)[i - a].call
  <2> DEFINE v == Append(ws, w)
             c == Len(v)
  <2> HIDE DEF v
  <2>1. A = [i \in 1..(a + c) |-> IF i <= a THEN rs[i].call ELSE v[i - a].call]
    BY DEF LineOf, v
  <2>2. c = b + 1
    BY <1>2 DEF v
  <2> HIDE DEF A, a, b, c
  <2>3. 1..(a + b + 1) = 1..(a + c)
    BY <1>1, <2>2
  <2> QED
    BY <2>1, <2>3 DEF v
<1>7. \A i \in 1..(a + b) :
        LineOf(rs, ws)[i] = IF i <= a THEN rs[i].call ELSE ws[i - a].call
  BY <1>1 DEF LineOf
<1> HIDE DEF A, B, a, b
<1>8. \A i \in 1..(a + b + 1) : A[i] = B[i]
  <2> TAKE i \in 1..(a + b + 1)
  <2>1. CASE i <= a
    BY <2>1, <1>1, <1>5, <1>6, <1>7
  <2>2. CASE ~(i <= a) /\ i <= a + b
    <3>1. i - a \in 1..b
      BY <2>2, <1>1
    <3>2. Append(ws, w)[i - a] = ws[i - a]
      BY <3>1, <1>2
    <3>3. A[i] = ws[i - a].call
      BY <3>2, <2>2, <1>1, <1>6
    <3>4. B[i] = ws[i - a].call
      BY <2>2, <1>1, <1>5, <1>7
    <3> QED
      BY <3>3, <3>4
  <2>3. CASE i = a + b + 1
    <3>1. i - a = b + 1 /\ ~(i <= a)
      BY <2>3, <1>1
    <3> QED
      BY <3>1, <2>3, <1>2, <1>5, <1>6
  <2> QED
    BY <2>1, <2>2, <2>3, <1>1
<1>9. Len(A) = a + b + 1 /\ Len(B) = a + b + 1
  BY <1>1, <1>3, <1>5
<1> QED
  BY <1>3, <1>5, <1>8, <1>9, SeqEqual DEF A, B

\* The continuation that runs leaves the head of the line.
LEMMA LineTail ==
  ASSUME NEW rs \in Seq(Read), rs # <<>>, NEW ws \in Seq(Waiter)
  PROVE  /\ LineOf(rs, ws) # <<>>
         /\ Head(rs).call = LineOf(rs, ws)[1]
         /\ LineOf(Tail(rs), ws) = Tail(LineOf(rs, ws))
<1> DEFINE A == LineOf(Tail(rs), ws)
           C == LineOf(rs, ws)
           a == Len(rs)
           b == Len(ws)
<1>1. a \in Nat \ {0} /\ b \in Nat
  BY LenProperties, EmptySeq
<1>2. /\ Tail(rs) \in Seq(Read) /\ Len(Tail(rs)) = a - 1
      /\ \A i \in 1..(a - 1) : Tail(rs)[i] = rs[i + 1]
  BY HeadTailProperties
<1>3. A \in Seq(Nat) /\ Len(A) = (a - 1) + b
  BY <1>2, LineIs
<1>4. C \in Seq(Nat) /\ Len(C) = a + b
  BY LineIs
<1>5. C # <<>>
  BY <1>1, <1>4, EmptySeq
<1>6. /\ Tail(C) \in Seq(Nat) /\ Len(Tail(C)) = (a + b) - 1
      /\ \A i \in 1..((a + b) - 1) : Tail(C)[i] = C[i + 1]
  BY <1>4, <1>5, HeadTailProperties
<1>7. \A i \in 1..(a + b) : C[i] = IF i <= a THEN rs[i].call ELSE ws[i - a].call
  BY <1>1 DEF LineOf
<1>8. \A i \in 1..((a - 1) + b) :
        A[i] = IF i <= a - 1 THEN Tail(rs)[i].call ELSE ws[i - (a - 1)].call
  BY <1>1, <1>2 DEF LineOf
<1>9. Head(rs) = rs[1]
  BY HeadTailProperties
<1> HIDE DEF A, C, a, b
<1>10. \A i \in 1..((a - 1) + b) : A[i] = Tail(C)[i]
  <2> TAKE i \in 1..((a - 1) + b)
  <2>1. Tail(C)[i] = C[i + 1]
    BY <1>1, <1>6
  <2>2. CASE i <= a - 1
    <3>1. C[i + 1] = rs[i + 1].call
      BY <2>2, <1>1, <1>7
    <3>2. A[i] = rs[i + 1].call
      BY <2>2, <1>1, <1>2, <1>8
    <3> QED
      BY <2>1, <3>1, <3>2
  <2>3. CASE ~(i <= a - 1)
    <3>1. i - (a - 1) = (i + 1) - a /\ ~(i + 1 <= a) /\ i + 1 \in 1..(a + b)
      BY <2>3, <1>1
    <3> QED
      BY <2>1, <2>3, <3>1, <1>7, <1>8
  <2> QED
    BY <2>2, <2>3
<1>11. Len(A) = Len(Tail(C))
  BY <1>1, <1>3, <1>6
<1>12. A = Tail(C)
  BY <1>3, <1>6, <1>10, <1>11, SeqEqual
<1>13. C[1] = rs[1].call
  BY <1>1, <1>7
<1> QED
  BY <1>5, <1>9, <1>12, <1>13 DEF A, C

-----------------------------------------------------------------------------
(* What an action does to the order of the calls.                          *)

\* A write is done: its call starts to read.
LEMMA StartsToRead ==
  ASSUME NEW cs \in Seq(CallRec), NEW l \in Seq(Nat), NEW ws \in Seq(Nat), ws # <<>>,
         InOrder(cs, l, ws), cs[Head(ws)].pc = "write"
  PROVE  InOrder([cs EXCEPT ![Head(ws)].pc = "prefix"], Append(l, Head(ws)), Tail(ws))
<1> DEFINE k == Head(ws)
           cs2 == [cs EXCEPT ![k].pc = "prefix"]
           l2 == Append(l, k)
           ws2 == Tail(ws)
<1>1. /\ Len(l) \in Nat /\ Len(ws) \in Nat /\ Len(ws) # 0 /\ Len(cs) \in Nat
      /\ ws[1] = k /\ k \in Nat
  BY LenProperties, EmptySeq, HeadTailProperties
<1>2. k \in 1..Len(cs) /\ cs[k] \in CallRec
  <2>1. k \in 1..Len(cs)
    BY <1>1 DEF InOrder
  <2> QED
    BY <2>1, ElementOfSeq
<1>3. /\ l2 \in Seq(Nat) /\ Len(l2) = Len(l) + 1 /\ l2[Len(l) + 1] = k
      /\ \A i \in 1..Len(l) : l2[i] = l[i]
  BY <1>1, AppendProperties
<1>4. /\ ws2 \in Seq(Nat) /\ Len(ws2) = Len(ws) - 1
      /\ \A i \in 1..(Len(ws) - 1) : ws2[i] = ws[i + 1]
  BY HeadTailProperties
<1>5. /\ Len(cs2) = Len(cs)
      /\ \A j \in 1..Len(cs) : j # k => cs2[j] = cs[j]
      /\ cs2[k].pc = "prefix" /\ cs2[k].out = cs[k].out
  BY <1>2 DEF CallRec
<1> HIDE DEF k, cs2, l2, ws2
<1>6. \A i \in 1..Len(l) : l[i] \in 1..Len(cs) /\ l[i] < k
  BY <1>1 DEF InOrder
<1>7. \A i \in 2..Len(ws) : ws[i] \in 1..Len(cs) /\ k < ws[i]
  <2> TAKE i \in 2..Len(ws)
  <2>1. i \in 1..Len(ws) /\ 1 \in 1..Len(ws) /\ 1 < i
    BY <1>1
  <2>2. ws[1] < ws[i] /\ ws[i] \in 1..Len(cs)
    BY <2>1 DEF InOrder
  <2> QED
    BY <2>2, <1>1
<1>8. \A i \in 1..Len(l) : cs2[l[i]] = cs[l[i]] /\ cs[l[i]].pc \in {"prefix", "body"}
  <2>1. \A i \in 1..Len(l) : cs[l[i]].pc \in {"prefix", "body"}
    BY DEF InOrder
  <2>2. \A i \in 1..Len(l) : l[i] # k
    BY <1>6, <1>1
  <2> QED
    BY <1>5, <1>6, <2>1, <2>2
<1>9. \A i \in 1..Len(ws2) : ws2[i] \in 1..Len(cs) /\ k < ws2[i] /\ ws2[i] = ws[i + 1] /\ i + 1 \in 1..Len(ws)
  <2> TAKE i \in 1..Len(ws2)
  <2>1. i \in 1..(Len(ws) - 1) /\ i + 1 \in 2..Len(ws) /\ i + 1 \in 1..Len(ws)
    BY <1>1, <1>4
  <2>2. ws2[i] = ws[i + 1]
    BY <2>1, <1>4
  <2> QED
    BY <2>1, <2>2, <1>7
<1>10. \A i \in 1..Len(l2) : \/ i \in 1..Len(l) /\ l2[i] = l[i] /\ l[i] < k
                             \/ i = Len(l) + 1 /\ l2[i] = k
  <2> TAKE i \in 1..Len(l2)
  <2>1. i \in 1..Len(l) \/ i = Len(l) + 1
    <3> DEFINE m == Len(l)
               m2 == Len(l2)
    <3>1. m \in Nat /\ m2 = m + 1 /\ i \in 1..m2
      BY <1>1, <1>3
    <3> HIDE DEF m, m2
    <3>2. i \in 1..m \/ i = m + 1
      BY <3>1
    <3> QED
      BY <3>2 DEF m
  <2>2. CASE i \in 1..Len(l)
    BY <2>2, <1>3, <1>6
  <2>3. CASE i = Len(l) + 1
    BY <2>3, <1>3
  <2> QED
    BY <2>1, <2>2, <2>3
<1>11. \A i \in 1..Len(l2) : l2[i] \in 1..Len(cs2) /\ cs2[l2[i]].pc \in {"prefix", "body"}
  BY <1>2, <1>5, <1>6, <1>8, <1>10
<1>12. \A i, j \in 1..Len(l2) : i < j /\ cs2[l2[i]].pc = cs2[l2[j]].pc => l2[i] < l2[j]
  <2> TAKE i, j \in 1..Len(l2)
  <2> HAVE i < j /\ cs2[l2[i]].pc = cs2[l2[j]].pc
  <2>1. i \in 1..Len(l) /\ l2[i] = l[i] /\ l[i] < k
    <3> DEFINE m == Len(l)
               m2 == Len(l2)
    <3>1. m \in Nat /\ m2 = m + 1 /\ i \in 1..m2 /\ j \in 1..m2 /\ i < j
      BY <1>1, <1>3
    <3> HIDE DEF m, m2
    <3>2. i # m + 1
      BY <3>1
    <3> QED
      BY <3>2, <1>10 DEF m
  <2>2. CASE j = Len(l) + 1
    BY <2>1, <2>2, <1>3
  <2>3. CASE j \in 1..Len(l)
    <3>1. l2[j] = l[j] /\ cs2[l[i]] = cs[l[i]] /\ cs2[l[j]] = cs[l[j]]
      BY <2>1, <2>3, <1>3, <1>8
    <3> QED
      BY <2>1, <2>3, <3>1 DEF InOrder
  <2> QED
    BY <2>2, <2>3, <1>10
<1>13. \A i, j \in 1..Len(l2) :
         cs2[l2[i]].pc = "body" /\ cs2[l2[j]].pc = "prefix" => l2[i] < l2[j]
  <2> TAKE i, j \in 1..Len(l2)
  <2> HAVE cs2[l2[i]].pc = "body" /\ cs2[l2[j]].pc = "prefix"
  <2>1. i \in 1..Len(l) /\ l2[i] = l[i] /\ l[i] < k
    BY <1>5, <1>10
  <2>2. CASE j = Len(l) + 1
    BY <2>1, <2>2, <1>3
  <2>3. CASE j \in 1..Len(l)
    <3>1. l2[j] = l[j] /\ cs2[l[i]] = cs[l[i]] /\ cs2[l[j]] = cs[l[j]]
      BY <2>1, <2>3, <1>3, <1>8
    <3> QED
      BY <2>1, <2>3, <3>1 DEF InOrder
  <2> QED
    BY <2>2, <2>3, <1>10
<1>14. \A i \in 1..Len(ws2) : ws2[i] \in 1..Len(cs2) /\ cs2[ws2[i]].pc \in {"write", "lost"}
  <2> TAKE i \in 1..Len(ws2)
  <2>1. cs[ws[i + 1]].pc \in {"write", "lost"}
    BY <1>9 DEF InOrder
  <2>2. ws2[i] # k
    BY <1>9, <1>1
  <2> QED
    BY <2>1, <2>2, <1>9, <1>5
<1>15. \A i, j \in 1..Len(ws2) : i < j => ws2[i] < ws2[j]
  <2> TAKE i, j \in 1..Len(ws2)
  <2> HAVE i < j
  <2>1. i + 1 < j + 1
    BY <1>1, <1>4
  <2> QED
    BY <2>1, <1>9 DEF InOrder
<1>16. \A i \in 1..Len(l2), j \in 1..Len(ws2) : l2[i] < ws2[j]
  <2> TAKE i \in 1..Len(l2), j \in 1..Len(ws2)
  <2>1. k < ws2[j] /\ ws2[j] \in Nat
    BY <1>9, <1>1
  <2>2. CASE i \in 1..Len(l) /\ l2[i] = l[i] /\ l[i] < k
    <3>1. l[i] \in Nat
      BY <2>2, <1>6, <1>1
    <3> QED
      BY <2>1, <2>2, <3>1, <1>1
  <2> QED
    BY <2>1, <2>2, <1>10
<1>17. \A m \in 1..Len(cs2) : cs2[m].out = "code" =>
         /\ \A i \in 1..Len(l2) : m < l2[i]
         /\ \A i \in 1..Len(ws2) : m < ws2[i]
  <2> TAKE m \in 1..Len(cs2)
  <2> HAVE cs2[m].out = "code"
  <2>1. cs[m].out = "code" /\ m \in 1..Len(cs)
    BY <1>5
  <2>2. /\ \A i \in 1..Len(l) : m < l[i]
        /\ \A i \in 1..Len(ws) : m < ws[i]
    BY <2>1 DEF InOrder
  <2>3. m < k
    <3>1. 1 \in 1..Len(ws)
      BY <1>1
    <3> QED
      BY <3>1, <2>2, <1>1
  <2>4. ASSUME NEW i \in 1..Len(l2) PROVE m < l2[i]
    BY <2>2, <2>3, <1>10
  <2>5. ASSUME NEW i \in 1..Len(ws2) PROVE m < ws2[i]
    BY <2>2, <1>9
  <2> QED
    BY <2>4, <2>5
<1> QED
  BY <1>11, <1>12, <1>13, <1>14, <1>15, <1>16, <1>17 DEF InOrder, k, cs2, l2, ws2

\* The head of the line got its prefix: it goes to the end, to read the body.
LEMMA GoesOnToBody ==
  ASSUME NEW cs \in Seq(CallRec), NEW l \in Seq(Nat), l # <<>>, NEW ws \in Seq(Nat),
         InOrder(cs, l, ws), cs[l[1]].pc = "prefix"
  PROVE  InOrder([cs EXCEPT ![l[1]].pc = "body"], Append(Tail(l), l[1]), ws)
<1> DEFINE k == l[1]
           cs2 == [cs EXCEPT ![k].pc = "body"]
           l2 == Append(Tail(l), k)
<1>1. Len(l) \in Nat \ {0} /\ Len(ws) \in Nat /\ Len(cs) \in Nat
  BY LenProperties, EmptySeq
<1>2. k \in 1..Len(cs) /\ cs[k] \in CallRec /\ k \in Nat
  <2>1. k \in 1..Len(cs)
    BY <1>1 DEF InOrder
  <2> QED
    BY <2>1, <1>1, ElementOfSeq
<1>3. /\ Tail(l) \in Seq(Nat) /\ Len(Tail(l)) = Len(l) - 1
      /\ \A i \in 1..(Len(l) - 1) : Tail(l)[i] = l[i + 1]
  BY HeadTailProperties
<1>4. /\ l2 \in Seq(Nat) /\ Len(l2) = Len(Tail(l)) + 1 /\ l2[Len(Tail(l)) + 1] = k
      /\ \A i \in 1..Len(Tail(l)) : l2[i] = Tail(l)[i]
  BY <1>2, <1>3, AppendProperties
<1>5. /\ Len(cs2) = Len(cs)
      /\ \A j \in 1..Len(cs) : j # k => cs2[j] = cs[j]
      /\ cs2[k].pc = "body" /\ cs2[k].out = cs[k].out
  BY <1>2 DEF CallRec
<1>6. /\ \A i \in 1..Len(l) : l[i] \in 1..Len(cs) /\ cs[l[i]].pc \in {"prefix", "body"}
      /\ \A i \in 2..Len(l) : cs[l[i]].pc = "prefix" => k < l[i]
      /\ \A i \in 2..Len(l) : cs[l[i]].pc = "body" => l[i] < k
      /\ \A i \in 1..Len(ws) : k < ws[i]
  BY <1>1 DEF InOrder
<1> HIDE DEF k, cs2, l2
<1>7. \A i \in 2..Len(l) : l[i] # k /\ cs2[l[i]] = cs[l[i]] /\ l[i] \in Nat
  <2> TAKE i \in 2..Len(l)
  <2>1. i \in 1..Len(l)
    BY <1>1
  <2>2. l[i] \in 1..Len(cs) /\ (k < l[i] \/ l[i] < k)
    BY <2>1, <1>6
  <2>3. l[i] \in Nat /\ l[i] # k
    BY <2>2, <1>1, <1>2
  <2> QED
    BY <2>2, <2>3, <1>5
<1>8. Len(l2) = Len(l)
  BY <1>1, <1>3, <1>4
<1>9. \A i \in 1..Len(l2) : \/ i = Len(l) /\ l2[i] = k
                            \/ i + 1 \in 2..Len(l) /\ l2[i] = l[i + 1]
  <2> TAKE i \in 1..Len(l2)
  <2> DEFINE t == Len(Tail(l))
             m == Len(l)
  <2>0. m \in Nat /\ t = m - 1 /\ i \in 1..m
    BY <1>1, <1>3, <1>8
  <2> HIDE DEF t, m
  <2>1. CASE i = Len(l)
    <3>1. i = t + 1
      BY <2>1, <2>0 DEF m
    <3>2. l2[t + 1] = k
      BY <1>4 DEF t
    <3> QED
      BY <2>1, <3>1, <3>2
  <2>2. CASE i # Len(l)
    <3>1. i \in 1..t /\ i \in 1..(m - 1) /\ i + 1 \in 2..m
      <4>1. i # m
        BY <2>2 DEF m
      <4> QED
        BY <4>1, <2>0
    <3> QED
      BY <3>1, <1>3, <1>4 DEF t, m
  <2> QED
    BY <2>1, <2>2
<1>10. \A i \in 1..Len(l2) : l2[i] \in 1..Len(cs2) /\ cs2[l2[i]].pc \in {"prefix", "body"}
  <2> TAKE i \in 1..Len(l2)
  <2>1. CASE l2[i] = k
    BY <2>1, <1>2, <1>5
  <2>2. CASE i + 1 \in 2..Len(l) /\ l2[i] = l[i + 1]
    <3>1. i + 1 \in 1..Len(l)
      BY <2>2, <1>1
    <3> QED
      BY <2>2, <3>1, <1>5, <1>6, <1>7
  <2> QED
    BY <2>1, <2>2, <1>9
<1>11. \A i, j \in 1..Len(l2) : i < j /\ cs2[l2[i]].pc = cs2[l2[j]].pc => l2[i] < l2[j]
  <2> TAKE i, j \in 1..Len(l2)
  <2> HAVE i < j /\ cs2[l2[i]].pc = cs2[l2[j]].pc
  <2>1. i + 1 \in 2..Len(l) /\ l2[i] = l[i + 1] /\ cs2[l2[i]] = cs[l2[i]]
    BY <1>1, <1>8, <1>9, <1>7
  <2>2. CASE l2[j] = k
    BY <2>1, <2>2, <1>5, <1>6
  <2>3. CASE j + 1 \in 2..Len(l) /\ l2[j] = l[j + 1]
    <3>1. cs[l[i + 1]].pc = cs[l[j + 1]].pc /\ i + 1 < j + 1
      BY <2>1, <2>3, <1>1, <1>7, <1>8
    <3> QED
      BY <3>1, <2>1, <2>3, <1>1 DEF InOrder
  <2> QED
    BY <2>2, <2>3, <1>9
<1>12. \A i, j \in 1..Len(l2) :
         cs2[l2[i]].pc = "body" /\ cs2[l2[j]].pc = "prefix" => l2[i] < l2[j]
  <2> TAKE i, j \in 1..Len(l2)
  <2> HAVE cs2[l2[i]].pc = "body" /\ cs2[l2[j]].pc = "prefix"
  <2>1. j + 1 \in 2..Len(l) /\ l2[j] = l[j + 1] /\ cs[l[j + 1]].pc = "prefix"
    BY <1>5, <1>7, <1>9
  <2>2. CASE l2[i] = k
    BY <2>1, <2>2, <1>6
  <2>3. CASE i + 1 \in 2..Len(l) /\ l2[i] = l[i + 1]
    <3>1. cs[l[i + 1]].pc = "body"
      BY <2>3, <1>7
    <3>2. i + 1 \in 1..Len(l) /\ j + 1 \in 1..Len(l)
      BY <2>1, <2>3, <1>1
    <3> QED
      BY <2>1, <2>3, <3>1, <3>2 DEF InOrder
  <2> QED
    BY <2>2, <2>3, <1>9
<1>13. \A i \in 1..Len(ws) : ws[i] \in 1..Len(cs2) /\ cs2[ws[i]].pc \in {"write", "lost"}
  <2> TAKE i \in 1..Len(ws)
  <2>1. ws[i] \in 1..Len(cs) /\ cs[ws[i]].pc \in {"write", "lost"} /\ k < ws[i]
    BY <1>6 DEF InOrder
  <2>2. ws[i] # k
    BY <2>1, <1>1, <1>2
  <2> QED
    BY <2>1, <2>2, <1>5
<1>14. \A i \in 1..Len(l2), j \in 1..Len(ws) : l2[i] < ws[j]
  <2> TAKE i \in 1..Len(l2), j \in 1..Len(ws)
  <2>1. \A m \in 1..Len(l) : l[m] < ws[j]
    BY DEF InOrder
  <2> QED
    BY <2>1, <1>1, <1>6, <1>9
<1>15. \A m \in 1..Len(cs2) : cs2[m].out = "code" =>
         /\ \A i \in 1..Len(l2) : m < l2[i]
         /\ \A i \in 1..Len(ws) : m < ws[i]
  <2> TAKE m \in 1..Len(cs2)
  <2> HAVE cs2[m].out = "code"
  <2>1. cs[m].out = "code" /\ m \in 1..Len(cs)
    BY <1>5
  <2>2. /\ \A i \in 1..Len(l) : m < l[i]
        /\ \A i \in 1..Len(ws) : m < ws[i]
    BY <2>1 DEF InOrder
  <2>3. m < k
    BY <2>2, <1>1 DEF k
  <2>4. ASSUME NEW i \in 1..Len(l2) PROVE m < l2[i]
    <3>1. CASE l2[i] = k
      BY <3>1, <2>3
    <3>2. CASE i + 1 \in 2..Len(l) /\ l2[i] = l[i + 1]
      <4>1. i + 1 \in 1..Len(l)
        BY <3>2, <1>1
      <4> QED
        BY <3>2, <4>1, <2>2
    <3> QED
      BY <3>1, <3>2, <1>9
  <2> QED
    BY <2>2, <2>4
<1>16. \A i, j \in 1..Len(ws) : i < j => ws[i] < ws[j]
  BY DEF InOrder
<1> QED
  BY <1>10, <1>11, <1>12, <1>13, <1>14, <1>15, <1>16 DEF InOrder, k, cs2, l2

\* The head of the line is settled; with a code only if it was reading a body.
LEMMA HeadSettles ==
  ASSUME NEW cs \in Seq(CallRec), NEW l \in Seq(Nat), l # <<>>, NEW ws \in Seq(Nat),
         InOrder(cs, l, ws), NEW out, NEW n, out = "code" => cs[l[1]].pc = "body"
  PROVE  InOrder([cs EXCEPT ![l[1]] = [pc |-> "done", out |-> out, n |-> n]], Tail(l), ws)
<1> DEFINE k == l[1]
           cs2 == [cs EXCEPT ![k] = [pc |-> "done", out |-> out, n |-> n]]
           l2 == Tail(l)
<1>1. Len(l) \in Nat \ {0} /\ Len(ws) \in Nat /\ Len(cs) \in Nat
  BY LenProperties, EmptySeq
<1>2. k \in 1..Len(cs) /\ k \in Nat
  <2>1. k \in 1..Len(cs)
    BY <1>1 DEF InOrder
  <2> QED
    BY <2>1, <1>1
<1>3. /\ l2 \in Seq(Nat) /\ Len(l2) = Len(l) - 1
      /\ \A i \in 1..(Len(l) - 1) : l2[i] = l[i + 1]
  BY HeadTailProperties
<1>5. /\ Len(cs2) = Len(cs)
      /\ \A j \in 1..Len(cs) : j # k => cs2[j] = cs[j]
      /\ cs2[k].out = out
  BY <1>2
<1>6. /\ \A i \in 1..Len(l) : l[i] \in 1..Len(cs) /\ cs[l[i]].pc \in {"prefix", "body"}
      /\ \A i \in 2..Len(l) : cs[l[i]].pc = cs[k].pc => k < l[i]
      /\ \A i \in 2..Len(l) : cs[k].pc = "body" /\ cs[l[i]].pc = "prefix" => k < l[i]
      /\ \A i \in 2..Len(l) : cs[l[i]].pc = "body" /\ cs[k].pc = "prefix" => l[i] < k
      /\ \A i \in 1..Len(ws) : k < ws[i]
      /\ cs[k].pc \in {"prefix", "body"}
  BY <1>1 DEF InOrder
<1> HIDE DEF k, cs2, l2
<1>7. \A i \in 2..Len(l) : l[i] # k /\ cs2[l[i]] = cs[l[i]] /\ l[i] \in Nat
  <2> TAKE i \in 2..Len(l)
  <2>1. i \in 1..Len(l)
    BY <1>1
  <2>2. l[i] \in 1..Len(cs) /\ (k < l[i] \/ l[i] < k)
    BY <2>1, <1>6
  <2>3. l[i] \in Nat /\ l[i] # k
    BY <2>2, <1>1, <1>2
  <2> QED
    BY <2>2, <2>3, <1>5
<1>8. out = "code" => \A i \in 2..Len(l) : k < l[i]
  BY <1>1, <1>6 DEF k
<1>9. \A i \in 1..Len(l2) : i + 1 \in 2..Len(l) /\ i + 1 \in 1..Len(l) /\ l2[i] = l[i + 1]
  <2> TAKE i \in 1..Len(l2)
  <2>1. i \in 1..(Len(l) - 1) /\ i + 1 \in 2..Len(l) /\ i + 1 \in 1..Len(l)
    BY <1>1, <1>3
  <2> QED
    BY <2>1, <1>3
<1>10. \A i \in 1..Len(l2) : l2[i] \in 1..Len(cs2) /\ cs2[l2[i]].pc \in {"prefix", "body"}
  BY <1>5, <1>6, <1>7, <1>9
<1>11. \A i, j \in 1..Len(l2) : i < j /\ cs2[l2[i]].pc = cs2[l2[j]].pc => l2[i] < l2[j]
  <2> TAKE i, j \in 1..Len(l2)
  <2> HAVE i < j /\ cs2[l2[i]].pc = cs2[l2[j]].pc
  <2>1. cs[l[i + 1]].pc = cs[l[j + 1]].pc /\ i + 1 < j + 1
    <3>1. cs2[l2[i]] = cs[l[i + 1]] /\ cs2[l2[j]] = cs[l[j + 1]]
      BY <1>7, <1>9
    <3>2. i + 1 < j + 1
      OBVIOUS
    <3> QED
      BY <3>1, <3>2
  <2> QED
    BY <2>1, <1>9 DEF InOrder
<1>12. \A i, j \in 1..Len(l2) :
         cs2[l2[i]].pc = "body" /\ cs2[l2[j]].pc = "prefix" => l2[i] < l2[j]
  <2> TAKE i, j \in 1..Len(l2)
  <2> HAVE cs2[l2[i]].pc = "body" /\ cs2[l2[j]].pc = "prefix"
  <2>1. cs2[l2[i]] = cs[l[i + 1]] /\ cs2[l2[j]] = cs[l[j + 1]]
    BY <1>7, <1>9
  <2> QED
    BY <2>1, <1>9 DEF InOrder
<1>13. \A i \in 1..Len(ws) : ws[i] \in 1..Len(cs2) /\ cs2[ws[i]].pc \in {"write", "lost"}
  <2> TAKE i \in 1..Len(ws)
  <2>1. ws[i] \in 1..Len(cs) /\ cs[ws[i]].pc \in {"write", "lost"} /\ k < ws[i]
    BY <1>6 DEF InOrder
  <2>2. ws[i] # k
    BY <2>1, <1>1, <1>2
  <2> QED
    BY <2>1, <2>2, <1>5
<1>14. \A i \in 1..Len(l2), j \in 1..Len(ws) : l2[i] < ws[j]
  BY <1>9 DEF InOrder
<1>15. \A m \in 1..Len(cs2) : cs2[m].out = "code" =>
         /\ \A i \in 1..Len(l2) : m < l2[i]
         /\ \A i \in 1..Len(ws) : m < ws[i]
  <2> TAKE m \in 1..Len(cs2)
  <2> HAVE cs2[m].out = "code"
  <2>1. CASE m = k
    BY <2>1, <1>5, <1>6, <1>8, <1>9
  <2>2. CASE m # k
    <3>1. cs[m].out = "code" /\ m \in 1..Len(cs)
      BY <2>2, <1>5
    <3> QED
      BY <3>1, <1>9 DEF InOrder
  <2> QED
    BY <2>1, <2>2
<1>16. \A i, j \in 1..Len(ws) : i < j => ws[i] < ws[j]
  BY DEF InOrder
<1> QED
  BY <1>10, <1>11, <1>12, <1>13, <1>14, <1>15, <1>16 DEF InOrder, k, cs2, l2

\* A call that has no code yet joins; it writes, or it was refused.
LEMMA CallJoins ==
  ASSUME NEW cs \in Seq(CallRec), NEW l \in Seq(Nat), NEW ws \in Seq(Nat),
         InOrder(cs, l, ws), NEW r \in CallRec, r.out # "code"
  PROVE  /\ InOrder(Append(cs, r), l, ws)
         /\ r.pc \in {"write", "lost"} =>
              InOrder(Append(cs, r), l, Append(ws, Len(cs) + 1))
<1> DEFINE cs2 == Append(cs, r)
           k == Len(cs) + 1
           ws2 == Append(ws, k)
<1>1. Len(l) \in Nat /\ Len(ws) \in Nat /\ Len(cs) \in Nat /\ k \in Nat
  BY LenProperties
<1>2. /\ Len(cs2) = k /\ cs2[k] = r
      /\ \A i \in 1..Len(cs) : cs2[i] = cs[i]
  BY AppendProperties
<1>3. /\ Len(ws2) = Len(ws) + 1 /\ ws2[Len(ws) + 1] = k
      /\ \A i \in 1..Len(ws) : ws2[i] = ws[i]
  BY <1>1, AppendProperties
<1>4. k = Len(cs) + 1
  OBVIOUS
<1> HIDE DEF cs2, k, ws2
<1>5. /\ \A i \in 1..Len(l) : l[i] \in 1..Len(cs) /\ cs[l[i]].pc \in {"prefix", "body"}
      /\ \A i \in 1..Len(ws) : ws[i] \in 1..Len(cs) /\ cs[ws[i]].pc \in {"write", "lost"}
  BY DEF InOrder
<1>6. 1..Len(cs) \subseteq 1..Len(cs2) /\ \A i \in 1..Len(cs) : i < k
  BY <1>1, <1>2, <1>4
<1>7. \A i \in 1..Len(l) : l[i] \in 1..Len(cs2) /\ cs2[l[i]] = cs[l[i]] /\ l[i] < k
  BY <1>2, <1>5, <1>6
<1>8. \A i \in 1..Len(ws) : ws[i] \in 1..Len(cs2) /\ cs2[ws[i]] = cs[ws[i]] /\ ws[i] < k
  BY <1>2, <1>5, <1>6
<1>9. \A m \in 1..Len(cs2) : cs2[m].out = "code" => m \in 1..Len(cs) /\ cs[m].out = "code"
  <2> TAKE m \in 1..Len(cs2)
  <2> HAVE cs2[m].out = "code"
  <2>1. m # k
    BY <1>2
  <2>2. m \in 1..Len(cs)
    BY <2>1, <1>1, <1>2, <1>4
  <2> QED
    BY <2>2, <1>2
<1>10. /\ \A i \in 1..Len(l) : l[i] \in 1..Len(cs2) /\ cs2[l[i]].pc \in {"prefix", "body"}
       /\ \A i, j \in 1..Len(l) : i < j /\ cs2[l[i]].pc = cs2[l[j]].pc => l[i] < l[j]
       /\ \A i, j \in 1..Len(l) :
            cs2[l[i]].pc = "body" /\ cs2[l[j]].pc = "prefix" => l[i] < l[j]
  BY <1>5, <1>7 DEF InOrder
<1>11. InOrder(cs2, l, ws)
  <2>1. \A i \in 1..Len(ws) : ws[i] \in 1..Len(cs2) /\ cs2[ws[i]].pc \in {"write", "lost"}
    BY <1>5, <1>8
  <2>2. \A m \in 1..Len(cs2) : cs2[m].out = "code" =>
          /\ \A i \in 1..Len(l) : m < l[i]
          /\ \A i \in 1..Len(ws) : m < ws[i]
    BY <1>9 DEF InOrder
  <2> QED
    BY <1>10, <2>1, <2>2 DEF InOrder
<1>12. ASSUME r.pc \in {"write", "lost"} PROVE InOrder(cs2, l, ws2)
  <2>1. \A i \in 1..Len(ws2) : \/ i \in 1..Len(ws) /\ ws2[i] = ws[i]
                               \/ i = Len(ws) + 1 /\ ws2[i] = k
    <3> TAKE i \in 1..Len(ws2)
    <3>1. i \in 1..Len(ws) \/ i = Len(ws) + 1
      BY <1>1, <1>3
    <3> QED
      BY <3>1, <1>3
  <2>2. \A i \in 1..Len(ws2) : ws2[i] \in 1..Len(cs2) /\ cs2[ws2[i]].pc \in {"write", "lost"}
    <3> TAKE i \in 1..Len(ws2)
    <3>1. CASE i = Len(ws) + 1 /\ ws2[i] = k
      BY <3>1, <1>1, <1>2, <1>4, <1>12
    <3>2. CASE i \in 1..Len(ws) /\ ws2[i] = ws[i]
      BY <3>2, <1>5, <1>8
    <3> QED
      BY <2>1, <3>1, <3>2
  <2>3. \A i, j \in 1..Len(ws2) : i < j => ws2[i] < ws2[j]
    <3> TAKE i, j \in 1..Len(ws2)
    <3> HAVE i < j
    <3>1. i \in 1..Len(ws) /\ ws2[i] = ws[i]
      BY <1>1, <1>3, <2>1
    <3>2. CASE j = Len(ws) + 1 /\ ws2[j] = k
      BY <3>1, <3>2, <1>8
    <3>3. CASE j \in 1..Len(ws) /\ ws2[j] = ws[j]
      BY <3>1, <3>3 DEF InOrder
    <3> QED
      BY <2>1, <3>2, <3>3
  <2>4. \A i \in 1..Len(l), j \in 1..Len(ws2) : l[i] < ws2[j]
    <3> TAKE i \in 1..Len(l), j \in 1..Len(ws2)
    <3>2. CASE j = Len(ws) + 1 /\ ws2[j] = k
      BY <3>2, <1>7
    <3>3. CASE j \in 1..Len(ws) /\ ws2[j] = ws[j]
      BY <3>3 DEF InOrder
    <3> QED
      BY <2>1, <3>2, <3>3
  <2>5. \A m \in 1..Len(cs2) : cs2[m].out = "code" =>
          /\ \A i \in 1..Len(l) : m < l[i]
          /\ \A i \in 1..Len(ws2) : m < ws2[i]
    <3> TAKE m \in 1..Len(cs2)
    <3> HAVE cs2[m].out = "code"
    <3>1. /\ m < k
          /\ \A i \in 1..Len(l) : m < l[i]
          /\ \A i \in 1..Len(ws) : m < ws[i]
      BY <1>6, <1>9 DEF InOrder
    <3> QED
      BY <3>1, <2>1
  <2> QED
    BY <1>10, <2>2, <2>3, <2>4, <2>5 DEF InOrder
<1> QED
  BY <1>11, <1>12 DEF cs2, k, ws2

\* The writes of a socket that failed are lost, the first one reports it.
LEMMA WritesLost ==
  ASSUME NEW cs \in Seq(CallRec), NEW l \in Seq(Nat), NEW ws \in Seq(Nat), ws # <<>>,
         InOrder(cs, l, ws), NEW cs2, Len(cs2) = Len(cs),
         \A k \in 1..Len(cs) : cs2[k].out = "code" => cs[k].out = "code",
         \A k \in 1..Len(cs) : k # Head(ws) =>
           \/ cs2[k] = cs[k]
           \/ cs[k].pc = "write" /\ cs2[k].pc = "lost"
  PROVE  InOrder(cs2, l, Tail(ws))
<1> DEFINE h == Head(ws)
           ws2 == Tail(ws)
<1>1. Len(l) \in Nat /\ Len(ws) \in Nat \ {0} /\ Len(cs) \in Nat /\ ws[1] = h
  BY LenProperties, EmptySeq, HeadTailProperties
<1>2. /\ Len(ws2) = Len(ws) - 1
      /\ \A i \in 1..(Len(ws) - 1) : ws2[i] = ws[i + 1]
  BY HeadTailProperties
<1> HIDE DEF h, ws2
<1>3. \A i \in 1..Len(ws2) : i + 1 \in 1..Len(ws) /\ 1 < i + 1 /\ ws2[i] = ws[i + 1]
  <2> TAKE i \in 1..Len(ws2)
  <2>1. i \in 1..(Len(ws) - 1) /\ i + 1 \in 1..Len(ws) /\ 1 < i + 1
    BY <1>1, <1>2
  <2> QED
    BY <2>1, <1>2
<1>4. \A i \in 1..Len(ws2) :
        ws2[i] \in 1..Len(cs) /\ h < ws2[i] /\ cs[ws2[i]].pc \in {"write", "lost"}
  <2> TAKE i \in 1..Len(ws2)
  <2>1. 1 \in 1..Len(ws)
    BY <1>1
  <2>2. ws[1] < ws[i + 1]
    BY <2>1, <1>3 DEF InOrder
  <2> QED
    BY <2>2, <1>1, <1>3 DEF InOrder
<1>5. \A i \in 1..Len(ws2) : cs2[ws2[i]].pc \in {"write", "lost"}
  <2> TAKE i \in 1..Len(ws2)
  <2>1. h \in 1..Len(cs)
    <3>1. 1 \in 1..Len(ws)
      BY <1>1
    <3> QED
      BY <3>1, <1>1 DEF InOrder
  <2>2. ws2[i] # h
    <3>1. ws2[i] \in 1..Len(cs) /\ h < ws2[i]
      BY <1>4
    <3> QED
      BY <3>1, <2>1, <1>1
  <2> QED
    BY <2>2, <1>4 DEF h
<1>6. \A i \in 1..Len(l) : l[i] \in 1..Len(cs) /\ cs2[l[i]] = cs[l[i]]
  <2> TAKE i \in 1..Len(l)
  <2>1. l[i] \in 1..Len(cs) /\ cs[l[i]].pc \in {"prefix", "body"}
    BY DEF InOrder
  <2>2. 1 \in 1..Len(ws)
    BY <1>1
  <2>3. l[i] < h
    BY <2>2, <1>1 DEF InOrder
  <2>4. l[i] # h
    BY <2>1, <2>3, <1>1
  <2> QED
    BY <2>1, <2>4 DEF h
<1>7. /\ \A i \in 1..Len(l) : l[i] \in 1..Len(cs2) /\ cs2[l[i]].pc \in {"prefix", "body"}
      /\ \A i, j \in 1..Len(l) : i < j /\ cs2[l[i]].pc = cs2[l[j]].pc => l[i] < l[j]
      /\ \A i, j \in 1..Len(l) :
           cs2[l[i]].pc = "body" /\ cs2[l[j]].pc = "prefix" => l[i] < l[j]
  BY <1>6 DEF InOrder
<1>8. \A i, j \in 1..Len(ws2) : i < j => ws2[i] < ws2[j]
  <2> TAKE i, j \in 1..Len(ws2)
  <2> HAVE i < j
  <2>1. i + 1 < j + 1
    BY <1>1, <1>2
  <2> QED
    BY <2>1, <1>3 DEF InOrder
<1>9. \A i \in 1..Len(l), j \in 1..Len(ws2) : l[i] < ws2[j]
  BY <1>3 DEF InOrder
<1>10. \A m \in 1..Len(cs2) : cs2[m].out = "code" =>
         /\ \A i \in 1..Len(l) : m < l[i]
         /\ \A i \in 1..Len(ws2) : m < ws2[i]
  <2> TAKE m \in 1..Len(cs2)
  <2> HAVE cs2[m].out = "code"
  <2>1. m \in 1..Len(cs) /\ cs[m].out = "code"
    OBVIOUS
  <2>2. /\ \A i \in 1..Len(l) : m < l[i]
        /\ \A i \in 1..Len(ws) : m < ws[i]
    BY <2>1 DEF InOrder
  <2> QED
    BY <2>2, <1>3
<1> QED
  BY <1>4, <1>5, <1>7, <1>8, <1>9, <1>10 DEF InOrder, ws2

-----------------------------------------------------------------------------
(* Every step keeps the invariant.                                         *)

LEMMA TypeIs ==
  TypeOK <=>
    /\ calls \in Seq(CallRec) /\ writes \in Seq(Nat)
    /\ waiters \in Seq(Waiter) /\ ready \in Seq(Read)
    /\ off \in Nat /\ have \in Nat /\ off <= have
    /\ ended \in BOOLEAN /\ overlapped \in BOOLEAN /\ recvSeq \in Nat
    /\ inbox \in Seq(Nat) /\ answers \in Seq(Nat)
    /\ spc \in {"open", "closed"}
BY Zenon DEF TypeOK, CallRec, Waiter, Read

\* No call has a code it did not have before.
CodesKept ==
  \A k \in 1..Len(calls') : calls'[k].out = "code" =>
    /\ k \in 1..Len(calls) /\ calls[k].out = "code" /\ calls'[k].n = calls[k].n

LEMMA CodesKeepOrder ==
  ASSUME TypeOK, TypeOK', CodesInOrder, CodesKept
  PROVE  CodesInOrder'
<1>1. DOMAIN calls = 1..Len(calls) /\ DOMAIN calls' = 1..Len(calls')
  BY LenProperties DEF TypeOK
<1> QED
  BY <1>1 DEF CodesInOrder, CodesKept

LEMMA BytesKept ==
  ASSUME TypeOK, TypeOK', BytesInv, CodesKept, recvSeq' = recvSeq, off <= off',
         have' <= FrameSize * Len(answers'),
         \A i \in DOMAIN ready' :
           \/ ready'[i].ok => ready'[i].at + ready'[i].n <= off'
           \/ \E j \in DOMAIN ready : ready'[i] = ready[j]
  PROVE  BytesInv'
<1>1. DOMAIN calls = 1..Len(calls) /\ DOMAIN calls' = 1..Len(calls')
  BY LenProperties DEF TypeOK
<1>2. \A i \in DOMAIN ready' : ready'[i].ok => ready'[i].at + ready'[i].n <= off'
  <2> TAKE i \in DOMAIN ready'
  <2>1. CASE \E j \in DOMAIN ready : ready'[i] = ready[j]
    <3>1. PICK j \in DOMAIN ready : ready'[i] = ready[j]
      BY <2>1
    <3>2. ready[j] \in Read
      <4>1. ready \in Seq(Read)
        BY TypeIs
      <4> QED
        BY <4>1, LenProperties, ElementOfSeq
    <3>3. ready[j].at \in Nat /\ ready[j].n \in Nat
      BY <3>2 DEF Read
    <3>4. ready[j].ok => ready[j].at + ready[j].n <= off
      BY DEF BytesInv
    <3>5. off \in Nat /\ off' \in Nat
      BY DEF TypeOK
    <3> QED
      BY <3>1, <3>3, <3>4, <3>5
  <2> QED
    BY <2>1
<1>3. FrameSize * recvSeq' <= off'
  <2>1. off \in Nat /\ off' \in Nat /\ recvSeq \in Nat
    BY DEF TypeOK
  <2> QED
    BY <2>1 DEF BytesInv, FrameSize, PrefixSize, SealedResponse
<1>4. \A k \in DOMAIN calls' : calls'[k].out = "code" => calls'[k].n \in 1..recvSeq'
  BY <1>1 DEF BytesInv, CodesKept
<1> QED
  BY <1>2, <1>3, <1>4 DEF BytesInv

LEMMA StepChunk ==
  ASSUME FramedInv, Chunk PROVE FramedInv'
<1> USE DEF FramedInv
<1>1. PICK h \in (have + 1)..(FrameSize * Len(answers)) :
        have' = h /\ Pump(waiters, off, h, FALSE, <<>>)
  BY DEF Chunk, BufferStart
<1>2. ready = <<>> /\ UNCHANGED <<calls, overlapped, writes, ended, recvSeq, inbox, answers, spc>>
  BY DEF Chunk, serverVars
<1>3. /\ waiters \in Seq(Waiter) /\ off \in Nat /\ h \in Nat /\ off <= h
      /\ <<>> \in Seq(Read) /\ FALSE \in BOOLEAN
  <2>1. off \in Nat /\ have \in Nat /\ off <= have /\ Len(answers) \in Nat
    BY LenProperties DEF TypeOK
  <2> QED
    BY <2>1, <1>1, TypeIs DEF FrameSize, PrefixSize, SealedResponse
<1>4. /\ waiters' \in Seq(Waiter) /\ ready' \in Seq(Read)
      /\ off' \in Nat /\ off <= off' /\ off' <= h
      /\ Line' = LineOf(<<>>, waiters)
      /\ \A i \in DOMAIN ready' :
           \/ i \in DOMAIN <<>> /\ ready'[i] = <<>>[i]
           \/ ready'[i].ok => ready'[i].at + ready'[i].n <= off'
  BY <1>1, <1>3, PumpLine, Zenon
<1>5. TypeOK'
  <2>1. off' <= have' /\ have' \in Nat
    BY <1>1, <1>3, <1>4
  <2> QED
    BY <1>2, <1>4, <2>1 DEF TypeOK, Waiter, Read
<1>6. CodesKept
  BY <1>2 DEF CodesKept
<1>7. BytesInv'
  <2>1. \A i \in DOMAIN ready' : ready'[i].ok => ready'[i].at + ready'[i].n <= off'
    BY <1>4
  <2>2. have' <= FrameSize * Len(answers')
    <3>1. Len(answers) \in Nat /\ have \in Nat
      BY LenProperties DEF TypeOK
    <3> QED
      BY <3>1, <1>1, <1>2 DEF FrameSize, PrefixSize, SealedResponse
  <2> QED
    BY <2>1, <2>2, <1>2, <1>4, <1>5, <1>6, BytesKept
<1>8. InOrder(calls', Line', writes')
  BY <1>2, <1>4 DEF Line
<1> QED
  BY <1>5, <1>6, <1>7, <1>8, CodesKeepOrder

LEMMA StepEnd ==
  ASSUME FramedInv, End PROVE FramedInv'
<1> USE DEF FramedInv
<1>1. /\ ready = <<>> /\ ended' = TRUE /\ Pump(waiters, off, have, TRUE, <<>>)
      /\ UNCHANGED <<calls, overlapped, writes, have, recvSeq, inbox, answers, spc>>
  BY DEF End, serverVars
<1>3. /\ waiters \in Seq(Waiter) /\ off \in Nat /\ have \in Nat /\ off <= have
      /\ <<>> \in Seq(Read) /\ TRUE \in BOOLEAN
  BY TypeIs
<1>4. /\ waiters' \in Seq(Waiter) /\ ready' \in Seq(Read)
      /\ off' \in Nat /\ off <= off' /\ off' <= have
      /\ Line' = LineOf(<<>>, waiters)
      /\ \A i \in DOMAIN ready' :
           \/ i \in DOMAIN <<>> /\ ready'[i] = <<>>[i]
           \/ ready'[i].ok => ready'[i].at + ready'[i].n <= off'
  BY <1>1, <1>3, PumpLine, Zenon
<1>5. TypeOK'
  <2>1. off' <= have' /\ have' \in Nat /\ ended' \in BOOLEAN
    BY <1>1, <1>3, <1>4
  <2> QED
    BY <1>1, <1>4, <2>1 DEF TypeOK, Waiter, Read
<1>6. CodesKept
  BY <1>1 DEF CodesKept
<1>7. BytesInv'
  <2>1. \A i \in DOMAIN ready' : ready'[i].ok => ready'[i].at + ready'[i].n <= off'
    BY <1>4
  <2>2. have' <= FrameSize * Len(answers')
    BY <1>1 DEF BytesInv
  <2> QED
    BY <2>1, <2>2, <1>1, <1>4, <1>5, <1>6, BytesKept
<1>8. InOrder(calls', Line', writes')
  BY <1>1, <1>4 DEF Line
<1> QED
  BY <1>5, <1>6, <1>7, <1>8, CodesKeepOrder

\* The bytes and the codes stay as they are when a call starts.
LEMMA CallBytes ==
  ASSUME FramedInv, NEW r \in CallRec, r.out # "code", calls' = Append(calls, r),
         overlapped' \in BOOLEAN, writes' \in Seq(Nat), inbox' \in Seq(Nat),
         UNCHANGED <<waiters, ready, off, have, ended, recvSeq, answers, spc>>
  PROVE  TypeOK' /\ BytesInv' /\ CodesInOrder' /\ Line' = Line
<1> USE DEF FramedInv
<1>1. calls \in Seq(CallRec)
  BY TypeIs
<1>2. /\ calls' \in Seq(CallRec) /\ Len(calls') = Len(calls) + 1 /\ Len(calls) \in Nat
      /\ calls'[Len(calls) + 1] = r
      /\ \A i \in 1..Len(calls) : calls'[i] = calls[i]
  BY <1>1, AppendProperties, LenProperties
<1>3. TypeOK'
  BY <1>2 DEF TypeOK, CallRec
<1>4. CodesKept
  <2> SUFFICES ASSUME NEW k \in 1..Len(calls'), calls'[k].out = "code"
               PROVE  k \in 1..Len(calls) /\ calls[k].out = "code" /\ calls'[k].n = calls[k].n
    BY DEF CodesKept
  <2>1. k # Len(calls) + 1
    BY <1>2
  <2>2. k \in 1..Len(calls)
    BY <2>1, <1>2
  <2> QED
    BY <2>2, <1>2
<1>5. BytesInv'
  <2>1. \A i \in DOMAIN ready' : ready'[i].ok => ready'[i].at + ready'[i].n <= off'
    BY DEF BytesInv
  <2>2. have' <= FrameSize * Len(answers')
    BY DEF BytesInv
  <2>3. off <= off'
    BY DEF TypeOK
  <2> QED
    BY <2>1, <2>2, <2>3, <1>3, <1>4, BytesKept
<1>6. Line' = Line
  BY DEF Line
<1> QED
  BY <1>3, <1>4, <1>5, <1>6, CodesKeepOrder

LEMMA LineType ==
  ASSUME TypeOK PROVE Line \in Seq(Nat)
BY TypeIs, LineIs DEF Line

LEMMA StepCall ==
  ASSUME FramedInv, Call PROVE FramedInv'
<1> USE DEF FramedInv
<1> DEFINE r == [pc |-> IF ended THEN "lost" ELSE "write", out |-> "none", n |-> 0]
           k == Len(calls) + 1
<1>1. /\ calls' = Append(calls, r)
      /\ writes' = Append(writes, Len(calls'))
      /\ inbox' = IF ended THEN inbox ELSE Append(inbox, Len(calls'))
      /\ overlapped' = (overlapped \/ Outstanding # {})
      /\ UNCHANGED <<waiters, ready, off, have, ended, recvSeq, answers, spc>>
  BY DEF Call, MayStart
<1>2. r \in CallRec /\ r.out # "code" /\ r.pc \in {"write", "lost"}
  BY DEF CallRec
<1> HIDE DEF r
<1>3. calls \in Seq(CallRec) /\ writes \in Seq(Nat) /\ inbox \in Seq(Nat)
  BY TypeIs
<1>4. Len(calls') = k /\ k \in Nat
  BY <1>1, <1>2, <1>3, AppendProperties, LenProperties
<1>5. writes' \in Seq(Nat) /\ inbox' \in Seq(Nat) /\ overlapped' \in BOOLEAN
  <2>1. writes' \in Seq(Nat)
    BY <1>1, <1>3, <1>4, AppendProperties
  <2>2. inbox' \in Seq(Nat)
    BY <1>1, <1>3, <1>4, AppendProperties
  <2>3. overlapped' \in BOOLEAN
    BY <1>1
  <2> QED
    BY <2>1, <2>2, <2>3
<1>6. TypeOK' /\ BytesInv' /\ CodesInOrder' /\ Line' = Line
  BY <1>1, <1>2, <1>5, CallBytes
<1>7. InOrder(Append(calls, r), Line, Append(writes, k))
  BY <1>2, <1>3, LineType, CallJoins
<1>8. InOrder(calls', Line', writes')
  BY <1>1, <1>4, <1>6, <1>7
<1> QED
  BY <1>6, <1>8

LEMMA StepCallRefused ==
  ASSUME FramedInv, CallRefused PROVE FramedInv'
<1> USE DEF FramedInv
<1> DEFINE r == [pc |-> "done", out |-> "refused", n |-> 0]
<1>1. /\ calls' = Append(calls, r)
      /\ overlapped' = (overlapped \/ Outstanding # {})
      /\ UNCHANGED <<writes, waiters, ready, off, have, ended, recvSeq, inbox, answers, spc>>
  BY DEF CallRefused, MayStart, serverVars
<1>2. r \in CallRec /\ r.out # "code"
  BY DEF CallRec
<1> HIDE DEF r
<1>3. calls \in Seq(CallRec) /\ writes \in Seq(Nat) /\ inbox \in Seq(Nat)
  BY TypeIs
<1>5. writes' \in Seq(Nat) /\ inbox' \in Seq(Nat) /\ overlapped' \in BOOLEAN
  <2>1. overlapped' \in BOOLEAN
    BY <1>1
  <2> QED
    BY <2>1, <1>1, <1>3
<1>6. TypeOK' /\ BytesInv' /\ CodesInOrder' /\ Line' = Line
  BY <1>1, <1>2, <1>5, CallBytes
<1>7. InOrder(Append(calls, r), Line, writes)
  BY <1>2, <1>3, LineType, CallJoins
<1>8. InOrder(calls', Line', writes')
  BY <1>1, <1>6, <1>7
<1> QED
  BY <1>6, <1>8

LEMMA StepServer ==
  ASSUME FramedInv, ServerNext \/ UNCHANGED vars PROVE FramedInv'
<1> USE DEF FramedInv
<1>1. UNCHANGED <<calls, overlapped, writes, waiters, ready, off, have, ended, recvSeq>>
  BY DEF ServerNext, ServerAnswers, ServerDenies, ServerThrows, Answer, clientVars, vars
<1>2. /\ inbox' \in Seq(Nat) /\ answers' \in Seq(Nat) /\ Len(answers) <= Len(answers')
      /\ spc' \in {"open", "closed"}
  <2>1. inbox \in Seq(Nat) /\ answers \in Seq(Nat) /\ spc \in {"open", "closed"} /\ Len(answers) \in Nat
    BY LenProperties DEF TypeOK
  <2>2. CASE inbox # <<>> /\ Answer
    <3>1. Head(inbox) \in Nat /\ Tail(inbox) \in Seq(Nat)
      BY <2>1, <2>2, HeadTailProperties
    <3>2. inbox' = Tail(inbox) /\ answers' = Append(answers, Head(inbox))
      BY <2>2 DEF Answer
    <3>3. answers' \in Seq(Nat) /\ Len(answers') = Len(answers) + 1
      BY <2>1, <3>1, <3>2, AppendProperties
    <3>4. spc' \in {"open", "closed"}
      BY <2>1 DEF ServerNext, ServerAnswers, ServerDenies, ServerThrows, vars, serverVars
    <3> QED
      BY <2>1, <3>1, <3>2, <3>3, <3>4
  <2>3. CASE UNCHANGED <<inbox, answers>>
    <3>1. spc' \in {"open", "closed"}
      BY <2>1 DEF ServerNext, ServerAnswers, ServerDenies, ServerThrows, vars, serverVars
    <3> QED
      BY <2>1, <2>3, <3>1
  <2> QED
    BY <2>2, <2>3 DEF ServerNext, ServerAnswers, ServerDenies, ServerThrows, vars, serverVars
<1>3. TypeOK'
  BY <1>1, <1>2 DEF TypeOK
<1>4. CodesKept
  BY <1>1 DEF CodesKept
<1>5. BytesInv'
  <2>1. \A i \in DOMAIN ready' : ready'[i].ok => ready'[i].at + ready'[i].n <= off'
    BY <1>1 DEF BytesInv
  <2>2. have' <= FrameSize * Len(answers')
    <3>1. Len(answers) \in Nat /\ Len(answers') \in Nat /\ have \in Nat
      BY <1>2, LenProperties DEF TypeOK
    <3>2. have <= FrameSize * Len(answers)
      BY DEF BytesInv
    <3> QED
      BY <1>1, <1>2, <3>1, <3>2 DEF FrameSize, PrefixSize, SealedResponse
  <2>3. off <= off'
    BY <1>1 DEF TypeOK
  <2> QED
    BY <2>1, <2>2, <2>3, <1>1, <1>3, <1>4, BytesKept
<1>6. InOrder(calls', Line', writes')
  BY <1>1 DEF Line
<1> QED
  BY <1>3, <1>4, <1>5, <1>6, CodesKeepOrder

\* Calls whose stage changes keep their type and get no code.
LEMMA StageChanges ==
  ASSUME calls \in Seq(CallRec), NEW k, NEW pc \in {"write", "lost", "prefix", "body", "done"},
         calls' = [calls EXCEPT ![k].pc = pc]
  PROVE  calls' \in Seq(CallRec) /\ CodesKept
<1>1. /\ Len(calls) \in Nat /\ DOMAIN calls = 1..Len(calls)
      /\ \A i \in 1..Len(calls) : calls[i] \in CallRec
  BY LenProperties, ElementOfSeq
<1>2. CASE k \in 1..Len(calls)
  <2>1. [calls[k] EXCEPT !.pc = pc] \in CallRec
    BY <1>1, <1>2 DEF CallRec
  <2>2. calls' = [calls EXCEPT ![k] = [calls[k] EXCEPT !.pc = pc]]
    OBVIOUS
  <2>3. calls' \in Seq(CallRec) /\ Len(calls') = Len(calls)
    BY <1>2, <2>1, <2>2, ExceptSeq
  <2>4. CodesKept
    <3> SUFFICES ASSUME NEW i \in 1..Len(calls'), calls'[i].out = "code"
                 PROVE  calls[i].out = "code" /\ calls'[i].n = calls[i].n
      BY <2>3 DEF CodesKept
    <3>1. CASE i = k
      <4>1. calls'[i] = [calls[k] EXCEPT !.pc = pc] /\ calls[k] \in CallRec
        BY <3>1, <1>1, <1>2, <2>2
      <4> QED
        BY <4>1, <3>1 DEF CallRec
    <3>2. CASE i # k
      BY <3>2, <2>2, <2>3, <1>1
    <3> QED
      BY <3>1, <3>2
  <2> QED
    BY <2>3, <2>4
<1>3. CASE k \notin 1..Len(calls)
  <2>1. calls' = calls
    BY <1>1, <1>3
  <2> QED
    BY <2>1 DEF CodesKept
<1> QED
  BY <1>2, <1>3

\* A call that settles keeps the type.
LEMMA SettledType ==
  ASSUME calls \in Seq(CallRec), NEW k \in 1..Len(calls),
         NEW out \in {"code", "refused", "write", "eof", "size", "seal", "replay"},
         NEW n \in Nat, Settle(k, out, n)
  PROVE  /\ calls' \in Seq(CallRec) /\ Len(calls') = Len(calls)
         /\ \A i \in 1..Len(calls) : i # k => calls'[i] = calls[i]
         /\ calls'[k] = [pc |-> "done", out |-> out, n |-> n]
         /\ out # "code" => CodesKept
<1>1. /\ Len(calls) \in Nat /\ DOMAIN calls = 1..Len(calls)
      /\ \A i \in 1..Len(calls) : calls[i] \in CallRec
  BY LenProperties, ElementOfSeq
<1>2. [pc |-> "done", out |-> out, n |-> n] \in CallRec
  BY DEF CallRec
<1>3. calls' = [calls EXCEPT ![k] = [pc |-> "done", out |-> out, n |-> n]]
  BY DEF Settle
<1>4. calls' \in Seq(CallRec) /\ Len(calls') = Len(calls)
  BY <1>2, <1>3, ExceptSeq
<1>5. /\ \A i \in 1..Len(calls) : i # k => calls'[i] = calls[i]
      /\ calls'[k] = [pc |-> "done", out |-> out, n |-> n]
  BY <1>1, <1>3
<1>6. out # "code" => CodesKept
  BY <1>4, <1>5 DEF CodesKept
<1> QED
  BY <1>4, <1>5, <1>6

\* _pump when a read joins the waiters.
LEMMA PumpNow ==
  ASSUME TypeOK, NEW ws \in Seq(Waiter), NEW pending \in Seq(Read),
         Pump(ws, off, have, ended, pending)
  PROVE  /\ waiters' \in Seq(Waiter) /\ ready' \in Seq(Read)
         /\ off' \in Nat /\ off <= off' /\ off' <= have
         /\ Line' = LineOf(pending, ws)
         /\ \A i \in DOMAIN ready' :
              \/ i \in DOMAIN pending /\ ready'[i] = pending[i]
              \/ ready'[i].ok => ready'[i].at + ready'[i].n <= off'
<1>1. off \in Nat /\ have \in Nat /\ off <= have /\ ended \in BOOLEAN
  BY DEF TypeOK
<1>2. CASE ended = TRUE
  <2>1. Pump(ws, off, have, TRUE, pending) /\ TRUE \in BOOLEAN
    BY <1>2
  <2> QED
    BY <1>1, <2>1, PumpLine, Zenon
<1>3. CASE ended = FALSE
  <2>1. Pump(ws, off, have, FALSE, pending) /\ FALSE \in BOOLEAN
    BY <1>3
  <2> QED
    BY <1>1, <2>1, PumpLine, Zenon
<1> QED
  BY <1>1, <1>2, <1>3

LEMMA StepWriteDone ==
  ASSUME FramedInv, WriteDone PROVE FramedInv'
<1> USE DEF FramedInv
<1> DEFINE k == Head(writes)
           w == [call |-> k, n |-> PrefixSize]
<1>1. /\ ready = <<>> /\ writes # <<>> /\ calls[k].pc = "write"
      /\ writes' = Tail(writes)
      /\ calls' = [calls EXCEPT ![k].pc = "prefix"]
      /\ Pump(Append(waiters, w), off, have, ended, <<>>)
      /\ UNCHANGED <<overlapped, have, ended, recvSeq, inbox, answers, spc>>
  BY DEF WriteDone, GoTo, ReadExactly, serverVars
<1>2. /\ calls \in Seq(CallRec) /\ writes \in Seq(Nat) /\ waiters \in Seq(Waiter)
      /\ off \in Nat /\ have \in Nat /\ off <= have /\ ended \in BOOLEAN
      /\ <<>> \in Seq(Read) /\ ready \in Seq(Read)
  BY TypeIs
<1>3. k \in Nat /\ Tail(writes) \in Seq(Nat)
  BY <1>1, <1>2, HeadTailProperties
<1>4. w \in Waiter /\ w.call = k
  BY <1>3 DEF Waiter, PrefixSize
<1> HIDE DEF k, w
<1>5. Append(waiters, w) \in Seq(Waiter)
  BY <1>2, <1>4, AppendProperties
<1>6. /\ waiters' \in Seq(Waiter) /\ ready' \in Seq(Read)
      /\ off' \in Nat /\ off <= off' /\ off' <= have
      /\ Line' = LineOf(<<>>, Append(waiters, w))
      /\ \A i \in DOMAIN ready' :
           \/ i \in DOMAIN <<>> /\ ready'[i] = <<>>[i]
           \/ ready'[i].ok => ready'[i].at + ready'[i].n <= off'
  <2> DEFINE ws == Append(waiters, w)
  <2>1. ws \in Seq(Waiter) /\ Pump(ws, off, have, ended, <<>>) /\ <<>> \in Seq(Read)
    BY <1>1, <1>5
  <2> HIDE DEF ws
  <2>2. /\ waiters' \in Seq(Waiter) /\ ready' \in Seq(Read)
        /\ off' \in Nat /\ off <= off' /\ off' <= have
        /\ Line' = LineOf(<<>>, ws)
        /\ \A i \in DOMAIN ready' :
             \/ i \in DOMAIN <<>> /\ ready'[i] = <<>>[i]
             \/ ready'[i].ok => ready'[i].at + ready'[i].n <= off'
    BY <2>1, PumpNow, Zenon
  <2> QED
    BY <2>2 DEF ws
<1>7. calls' \in Seq(CallRec) /\ CodesKept
  BY <1>1, <1>2, StageChanges
<1>8. TypeOK'
  BY <1>1, <1>2, <1>3, <1>6, <1>7 DEF TypeOK, CallRec, Waiter, Read
<1>9. BytesInv'
  <2>1. \A i \in DOMAIN ready' : ready'[i].ok => ready'[i].at + ready'[i].n <= off'
    BY <1>6
  <2>2. have' <= FrameSize * Len(answers')
    BY <1>1 DEF BytesInv
  <2> QED
    BY <2>1, <2>2, <1>1, <1>6, <1>7, <1>8, BytesKept
<1>10. Line' = Append(Line, k)
  <2>1. LineOf(<<>>, Append(waiters, w)) = Append(LineOf(<<>>, waiters), w.call)
    BY <1>2, <1>4, LineAppend
  <2> QED
    BY <2>1, <1>1, <1>4, <1>6 DEF Line
<1>11. InOrder(calls', Line', writes')
  <2>1. Line \in Seq(Nat)
    BY LineType
  <2>2. InOrder([calls EXCEPT ![k].pc = "prefix"], Append(Line, k), Tail(writes))
    BY <2>1, <1>1, <1>2, StartsToRead DEF k
  <2> QED
    BY <2>2, <1>1, <1>10
<1> QED
  BY <1>7, <1>8, <1>9, <1>11, CodesKeepOrder

LEMMA StepWriteFails ==
  ASSUME FramedInv, WriteFails PROVE FramedInv'
<1> USE DEF FramedInv
<1> DEFINE new(k) == IF k = Head(writes) THEN [pc |-> "done", out |-> "write", n |-> 0]
                     ELSE IF calls[k].pc = "write" THEN [calls[k] EXCEPT !.pc = "lost"]
                     ELSE calls[k]
<1>1. /\ ready = <<>> /\ writes # <<>>
      /\ writes' = Tail(writes)
      /\ calls' = [k \in DOMAIN calls |-> new(k)]
      /\ ended' = TRUE
      /\ Pump(waiters, off, have, TRUE, <<>>)
      /\ UNCHANGED <<overlapped, have, recvSeq, inbox, answers, spc>>
  BY DEF WriteFails, serverVars
<1>2. /\ calls \in Seq(CallRec) /\ writes \in Seq(Nat) /\ waiters \in Seq(Waiter)
      /\ off \in Nat /\ have \in Nat /\ off <= have /\ TRUE \in BOOLEAN
      /\ <<>> \in Seq(Read)
  BY TypeIs
<1>3. Tail(writes) \in Seq(Nat)
  BY <1>1, <1>2, HeadTailProperties
<1>4. /\ waiters' \in Seq(Waiter) /\ ready' \in Seq(Read)
      /\ off' \in Nat /\ off <= off' /\ off' <= have
      /\ Line' = LineOf(<<>>, waiters)
      /\ \A i \in DOMAIN ready' :
           \/ i \in DOMAIN <<>> /\ ready'[i] = <<>>[i]
           \/ ready'[i].ok => ready'[i].at + ready'[i].n <= off'
  BY <1>1, <1>2, PumpLine, Zenon
<1>5. /\ Len(calls) \in Nat /\ DOMAIN calls = 1..Len(calls)
      /\ \A k \in 1..Len(calls) : calls[k] \in CallRec
  BY <1>2, LenProperties, ElementOfSeq
<1>6. \A k \in 1..Len(calls) :
        /\ new(k) \in CallRec
        /\ new(k).out = "code" => calls[k].out = "code" /\ new(k).n = calls[k].n
        /\ k # Head(writes) => \/ new(k) = calls[k]
                               \/ calls[k].pc = "write" /\ new(k).pc = "lost"
  <2> TAKE k \in 1..Len(calls)
  <2>1. calls[k] \in CallRec
    BY <1>5
  <2>2. CASE k = Head(writes)
    BY <2>2 DEF CallRec
  <2>3. CASE k # Head(writes) /\ calls[k].pc = "write"
    BY <2>1, <2>3 DEF CallRec
  <2>4. CASE k # Head(writes) /\ calls[k].pc # "write"
    BY <2>1, <2>4
  <2> QED
    BY <2>2, <2>3, <2>4
<1>7. \A k \in 1..Len(calls) : calls'[k] = new(k)
  BY <1>1, <1>5
<1>8. calls' \in Seq(CallRec) /\ Len(calls') = Len(calls)
  <2> HIDE DEF new
  <2>1. calls' = [k \in 1..Len(calls) |-> new(k)]
    BY <1>1, <1>5
  <2>2. calls' \in [1..Len(calls) -> CallRec]
    BY <2>1, <1>6
  <2> QED
    BY <2>2, <1>5
<1> HIDE DEF new
<1>9. CodesKept
  BY <1>6, <1>7, <1>8 DEF CodesKept
<1>10. TypeOK'
  BY <1>1, <1>2, <1>3, <1>4, <1>8 DEF TypeOK, CallRec, Waiter, Read
<1>11. BytesInv'
  <2>1. \A i \in DOMAIN ready' : ready'[i].ok => ready'[i].at + ready'[i].n <= off'
    BY <1>4
  <2>2. have' <= FrameSize * Len(answers')
    BY <1>1 DEF BytesInv
  <2> QED
    BY <2>1, <2>2, <1>1, <1>4, <1>9, <1>10, BytesKept
<1>12. InOrder(calls', Line', writes')
  <2>1. Line \in Seq(Nat) /\ Line' = Line
    BY LineType, <1>1, <1>4 DEF Line
  <2>2. \A k \in 1..Len(calls) : calls'[k].out = "code" => calls[k].out = "code"
    BY <1>6, <1>7
  <2>3. \A k \in 1..Len(calls) : k # Head(writes) =>
          \/ calls'[k] = calls[k]
          \/ calls[k].pc = "write" /\ calls'[k].pc = "lost"
    BY <1>6, <1>7
  <2>4. InOrder(calls', Line, Tail(writes))
    BY <2>1, <2>2, <2>3, <1>1, <1>2, <1>8, WritesLost
  <2> QED
    BY <2>1, <2>4, <1>1
<1> QED
  BY <1>9, <1>10, <1>11, <1>12, CodesKeepOrder

\* The continuation that runs is that of the first call in the line.
LEMMA HeadOfLine ==
  ASSUME FramedInv, ready # <<>>
  PROVE  /\ Head(ready) \in Read /\ Tail(ready) \in Seq(Read)
         /\ Line \in Seq(Nat) /\ Line # <<>> /\ Line[1] = Head(ready).call
         /\ Line[1] \in 1..Len(calls)
         /\ LineOf(Tail(ready), waiters) = Tail(Line)
         /\ \A i \in DOMAIN Tail(ready) : \E j \in DOMAIN ready : Tail(ready)[i] = ready[j]
         /\ Head(ready).ok => Head(ready).at + Head(ready).n <= off
<1>1. ready \in Seq(Read) /\ waiters \in Seq(Waiter)
  BY TypeIs DEF FramedInv
<1>2. /\ Head(ready) \in Read /\ Tail(ready) \in Seq(Read)
      /\ Len(ready) \in Nat \ {0} /\ Len(Tail(ready)) = Len(ready) - 1
      /\ \A i \in 1..(Len(ready) - 1) : Tail(ready)[i] = ready[i + 1]
      /\ DOMAIN ready = 1..Len(ready) /\ DOMAIN Tail(ready) = 1..(Len(ready) - 1)
  BY <1>1, HeadTailProperties, LenProperties, EmptySeq
<1>3. /\ Line # <<>> /\ Head(ready).call = Line[1]
      /\ LineOf(Tail(ready), waiters) = Tail(Line)
  BY <1>1, LineTail DEF Line
<1>4. Line \in Seq(Nat)
  BY LineType DEF FramedInv
<1>5. Line[1] \in 1..Len(calls)
  <2>1. 1 \in 1..Len(Line)
    BY <1>3, <1>4, EmptySeq
  <2>2. InOrder(calls, Line, writes)
    BY DEF FramedInv
  <2> HIDE DEF Line
  <2> QED
    BY <2>1, <2>2 DEF InOrder
<1>6. \A i \in DOMAIN Tail(ready) : \E j \in DOMAIN ready : Tail(ready)[i] = ready[j]
  <2> TAKE i \in DOMAIN Tail(ready)
  <2>1. i \in 1..(Len(ready) - 1) /\ i + 1 \in 1..Len(ready)
    BY <1>2
  <2> QED
    BY <2>1, <1>2
<1>7. Head(ready).ok => Head(ready).at + Head(ready).n <= off
  <2>1. Head(ready) = ready[1] /\ 1 \in DOMAIN ready
    BY <1>1, <1>2, HeadTailProperties
  <2> QED
    BY <2>1 DEF FramedInv, BytesInv
<1> QED
  BY <1>2, <1>3, <1>4, <1>5, <1>6, <1>7

\* A call at the head of the line settles without reading on.
LEMMA HeadDone ==
  ASSUME FramedInv, ready # <<>>,
         NEW out \in {"code", "eof", "size", "seal", "replay"}, NEW n \in Nat,
         out = "code" => calls[Head(ready).call].pc = "body",
         Settle(Head(ready).call, out, n), ready' = Tail(ready),
         UNCHANGED <<overlapped, writes, waiters, off, have, ended, inbox, answers, spc>>,
         recvSeq' \in Nat
  PROVE  TypeOK' /\ InOrder(calls', Line', writes')
<1>1. calls \in Seq(CallRec) /\ writes \in Seq(Nat)
  BY TypeIs DEF FramedInv
<1>2. /\ Tail(ready) \in Seq(Read)
      /\ Line \in Seq(Nat) /\ Line # <<>> /\ Line[1] = Head(ready).call
      /\ Line[1] \in 1..Len(calls)
      /\ LineOf(Tail(ready), waiters) = Tail(Line)
  BY HeadOfLine
<1>3. calls' \in Seq(CallRec)
  BY <1>1, <1>2, SettledType
<1>4. TypeOK'
  BY <1>2, <1>3 DEF FramedInv, TypeOK, CallRec, Waiter, Read
<1>5. Line' = Tail(Line)
  BY <1>2 DEF Line
<1>6. calls' = [calls EXCEPT ![Line[1]] = [pc |-> "done", out |-> out, n |-> n]]
  BY <1>2 DEF Settle
<1>7. InOrder(calls, Line, writes)
  BY DEF FramedInv
<1> HIDE DEF Line
<1>8. InOrder([calls EXCEPT ![Line[1]] = [pc |-> "done", out |-> out, n |-> n]],
              Tail(Line), writes)
  <2>1. out = "code" => calls[Line[1]].pc = "body"
    BY <1>2
  <2> QED
    BY <2>1, <1>1, <1>2, <1>7, HeadSettles
<1> QED
  BY <1>4, <1>5, <1>6, <1>8

\* It settles without a code.
LEMMA HeadFails ==
  ASSUME FramedInv, ready # <<>>, NEW out \in {"eof", "size", "seal", "replay"},
         Settle(Head(ready).call, out, 0), ready' = Tail(ready),
         UNCHANGED <<overlapped, writes, waiters, off, have, ended, recvSeq, inbox, answers, spc>>
  PROVE  FramedInv'
<1>1. recvSeq' \in Nat /\ off <= off'
  BY DEF FramedInv, TypeOK
<1>2. TypeOK' /\ InOrder(calls', Line', writes')
  BY <1>1, HeadDone
<1>3. /\ Line[1] = Head(ready).call /\ Line[1] \in 1..Len(calls)
      /\ \A i \in DOMAIN Tail(ready) : \E j \in DOMAIN ready : Tail(ready)[i] = ready[j]
  BY HeadOfLine
<1>4. calls \in Seq(CallRec)
  BY TypeIs DEF FramedInv
<1>5. CodesKept
  BY <1>3, <1>4, SettledType
<1>6. BytesInv'
  <2>1. have' <= FrameSize * Len(answers')
    BY DEF FramedInv, BytesInv
  <2>2. \A i \in DOMAIN ready' : \E j \in DOMAIN ready : ready'[i] = ready[j]
    BY <1>3
  <2> QED
    BY <2>1, <2>2, <1>1, <1>2, <1>5, BytesKept DEF FramedInv
<1> QED
  BY <1>2, <1>5, <1>6, CodesKeepOrder DEF FramedInv

LEMMA StepReadRejected ==
  ASSUME FramedInv, ReadRejected PROVE FramedInv'
<1>1. /\ ready # <<>> /\ Settle(Head(ready).call, "eof", 0) /\ ready' = Tail(ready)
      /\ UNCHANGED <<overlapped, writes, waiters, off, have, ended, recvSeq, inbox, answers, spc>>
  BY DEF ReadRejected, serverVars
<1> QED
  BY <1>1, HeadFails

LEMMA StepGotPrefix ==
  ASSUME FramedInv, GotPrefix PROVE FramedInv'
<1> DEFINE r == Head(ready)
           k == r.call
<1>1. /\ ready # <<>> /\ calls[k].pc = "prefix"
      /\ UNCHANGED <<overlapped, writes, have, ended, recvSeq, inbox, answers, spc>>
      /\ \/ \E n \in IF r.at % FrameSize = 0 THEN {SealedResponse} ELSE Garbage :
              GoTo(k, "body") /\ ReadExactly(k, n, Tail(ready))
         \/ /\ Settle(k, "size", 0) /\ ready' = Tail(ready)
            /\ UNCHANGED <<waiters, off>>
  BY DEF GotPrefix, serverVars
<1>2. CASE Settle(k, "size", 0) /\ ready' = Tail(ready) /\ UNCHANGED <<waiters, off>>
  BY <1>1, <1>2, HeadFails
<1>3. CASE \E n \in IF r.at % FrameSize = 0 THEN {SealedResponse} ELSE Garbage :
             GoTo(k, "body") /\ ReadExactly(k, n, Tail(ready))
  <2>1. PICK n \in IF r.at % FrameSize = 0 THEN {SealedResponse} ELSE Garbage :
             GoTo(k, "body") /\ ReadExactly(k, n, Tail(ready))
    BY <1>3
  <2>2. n \in Nat
    BY <2>1, GarbageAssumption DEF SealedResponse
  <2> DEFINE w == [call |-> k, n |-> n]
             ws == Append(waiters, w)
             pending == Tail(ready)
  <2>3. calls' = [calls EXCEPT ![k].pc = "body"] /\ Pump(ws, off, have, ended, pending)
    BY <2>1 DEF GoTo, ReadExactly
  <2>4. /\ calls \in Seq(CallRec) /\ writes \in Seq(Nat) /\ waiters \in Seq(Waiter)
        /\ TypeOK /\ BytesInv /\ CodesInOrder /\ InOrder(calls, Line, writes)
    BY TypeIs DEF FramedInv
  <2>5. /\ r \in Read /\ pending \in Seq(Read)
        /\ Line \in Seq(Nat) /\ Line # <<>> /\ Line[1] = k /\ Line[1] \in 1..Len(calls)
        /\ LineOf(pending, waiters) = Tail(Line)
        /\ \A i \in DOMAIN pending : \E j \in DOMAIN ready : pending[i] = ready[j]
    BY <1>1, HeadOfLine
  <2>6. w \in Waiter /\ w.call = k
    BY <2>2, <2>5 DEF Waiter, Read
  <2> HIDE DEF w
  <2>7. ws \in Seq(Waiter)
    BY <2>4, <2>6, AppendProperties
  <2>8. LineOf(pending, ws) = Append(Tail(Line), k)
    <3>1. LineOf(pending, Append(waiters, w)) = Append(LineOf(pending, waiters), w.call)
      BY <2>4, <2>5, <2>6, LineAppend
    <3> QED
      BY <3>1, <2>5, <2>6
  <2> HIDE DEF ws, pending, k, r, Line
  <2>9. /\ waiters' \in Seq(Waiter) /\ ready' \in Seq(Read)
        /\ off' \in Nat /\ off <= off' /\ off' <= have
        /\ Line' = LineOf(pending, ws)
        /\ \A i \in DOMAIN ready' :
             \/ i \in DOMAIN pending /\ ready'[i] = pending[i]
             \/ ready'[i].ok => ready'[i].at + ready'[i].n <= off'
    BY <2>3, <2>4, <2>5, <2>7, PumpNow, Zenon
  <2>10. calls' \in Seq(CallRec) /\ CodesKept
    BY <2>3, <2>4, StageChanges
  <2>11. TypeOK'
    BY <1>1, <2>4, <2>9, <2>10 DEF TypeOK, CallRec, Waiter, Read
  <2>12. BytesInv'
    <3>1. have' <= FrameSize * Len(answers')
      BY <1>1, <2>4 DEF BytesInv
    <3>2. \A i \in DOMAIN ready' :
            \/ ready'[i].ok => ready'[i].at + ready'[i].n <= off'
            \/ \E j \in DOMAIN ready : ready'[i] = ready[j]
      BY <2>5, <2>9
    <3> QED
      BY <3>1, <3>2, <1>1, <2>4, <2>9, <2>10, <2>11, BytesKept
  <2>13. InOrder(calls', Line', writes')
    <3>1. InOrder([calls EXCEPT ![Line[1]].pc = "body"], Append(Tail(Line), Line[1]), writes)
      BY <1>1, <2>4, <2>5, GoesOnToBody
    <3> QED
      BY <3>1, <1>1, <2>3, <2>5, <2>8, <2>9
  <2> QED
    BY <2>4, <2>10, <2>11, <2>12, <2>13, CodesKeepOrder DEF FramedInv
<1> QED
  BY <1>1, <1>2, <1>3

\* A body that is in step belongs to the frame it is counted to.
LEMMA FrameDivides ==
  ASSUME NEW at \in Nat, at % 45 = 4
  PROVE  at \div 45 \in Nat /\ at = 45 * (at \div 45) + 4
<1>1. PICK q \in Int : at = 45 * q + 4
  OBVIOUS
<1>2. q \in Nat
  BY <1>1
<1>3. (45 * q + 4) \div 45 = q
  BY <1>2
<1> QED
  BY <1>1, <1>2, <1>3

LEMMA StepGotBody ==
  ASSUME FramedInv, GotBody PROVE FramedInv'
<1> DEFINE r == Head(ready)
           k == r.call
           seq == r.at \div FrameSize + 1
           opens == r.at % FrameSize = PrefixSize /\ r.n = SealedResponse
<1>1. /\ ready # <<>> /\ r.ok /\ calls[k].pc = "body" /\ ready' = Tail(ready)
      /\ UNCHANGED <<overlapped, writes, waiters, off, have, ended, inbox, answers, spc>>
      /\ \/ opens /\ seq > recvSeq /\ Settle(k, "code", seq) /\ recvSeq' = seq
         \/ opens /\ seq <= recvSeq /\ Settle(k, "replay", 0) /\ UNCHANGED recvSeq
         \/ ~opens /\ Settle(k, "seal", 0) /\ UNCHANGED recvSeq
  BY DEF GotBody, serverVars
<1>2. CASE (Settle(k, "replay", 0) \/ Settle(k, "seal", 0)) /\ UNCHANGED recvSeq
  BY <1>1, <1>2, HeadFails
<1>3. CASE opens /\ seq > recvSeq /\ Settle(k, "code", seq) /\ recvSeq' = seq
  <2>1. /\ r \in Read
        /\ Line \in Seq(Nat) /\ Line # <<>> /\ Line[1] = k /\ Line[1] \in 1..Len(calls)
        /\ \A i \in DOMAIN Tail(ready) : \E j \in DOMAIN ready : Tail(ready)[i] = ready[j]
        /\ r.at + r.n <= off
    BY <1>1, HeadOfLine
  <2>2. r.at \in Nat /\ r.n \in Nat /\ off \in Nat /\ recvSeq \in Nat
    BY <2>1 DEF Read, FramedInv, TypeOK
  <2>3. /\ seq \in Nat /\ seq >= 1 /\ FrameSize * seq = r.at + r.n
    <3> DEFINE at == r.at
    <3>1. at \in Nat /\ at % 45 = 4 /\ r.n = 41
      BY <1>3, <2>2 DEF FrameSize, PrefixSize, SealedResponse
    <3>2. seq = at \div 45 + 1
      BY DEF FrameSize, PrefixSize, SealedResponse
    <3> HIDE DEF at, seq
    <3>3. at = 45 * (at \div 45) + 4 /\ at \div 45 \in Nat
      BY <3>1, FrameDivides
    <3>4. seq \in Nat /\ seq >= 1 /\ 45 * seq = at + 41
      BY <3>1, <3>2, <3>3
    <3> QED
      BY <3>1, <3>4 DEF at, FrameSize, PrefixSize, SealedResponse
  <2> HIDE DEF seq, opens, r, k
  <2>4. TypeOK' /\ InOrder(calls', Line', writes')
    BY <1>1, <1>3, <2>3, HeadDone DEF r, k
  <2>5. calls \in Seq(CallRec)
    BY TypeIs DEF FramedInv
  <2>6. /\ Len(calls') = Len(calls)
        /\ \A i \in 1..Len(calls) : i # k => calls'[i] = calls[i]
        /\ calls'[k] = [pc |-> "done", out |-> "code", n |-> seq]
        /\ k \in 1..Len(calls)
    BY <1>3, <2>1, <2>3, <2>5, SettledType
  <2>7. DOMAIN calls = 1..Len(calls) /\ DOMAIN calls' = 1..Len(calls) /\ Len(calls) \in Nat
    BY <2>4, <2>5, <2>6, LenProperties DEF TypeOK
  <2>8. \A i \in 1..Len(calls) : calls[i].out = "code" =>
          calls[i].n \in 1..recvSeq /\ i < k
    <3>1. \A i \in 1..Len(calls) : calls[i].out = "code" => calls[i].n \in 1..recvSeq
      BY <2>7 DEF FramedInv, BytesInv
    <3>2. 1 \in 1..Len(Line)
      BY <2>1, EmptySeq
    <3>3. InOrder(calls, Line, writes)
      BY DEF FramedInv
    <3> HIDE DEF Line
    <3>4. \A i \in 1..Len(calls) : calls[i].out = "code" => i < k
      BY <3>2, <3>3, <2>1 DEF InOrder
    <3> QED
      BY <3>1, <3>4
  <2>9. BytesInv'
    <3>1. have' <= FrameSize * Len(answers')
      BY <1>1 DEF FramedInv, BytesInv
    <3>2. \A i \in DOMAIN ready' : ready'[i].ok => ready'[i].at + ready'[i].n <= off'
      BY <1>1, <2>1 DEF FramedInv, BytesInv
    <3>3. FrameSize * recvSeq' <= off'
      BY <1>1, <1>3, <2>1, <2>3
    <3>4. \A i \in DOMAIN calls' : calls'[i].out = "code" => calls'[i].n \in 1..recvSeq'
      <4> TAKE i \in DOMAIN calls'
      <4> HAVE calls'[i].out = "code"
      <4>1. CASE i = k
        BY <4>1, <1>3, <2>3, <2>6
      <4>2. CASE i # k
        <5>1. calls[i].n \in 1..recvSeq
          BY <4>2, <2>6, <2>7, <2>8
        <5> QED
          BY <4>2, <5>1, <1>3, <2>2, <2>3, <2>6, <2>7
      <4> QED
        BY <4>1, <4>2
    <3> QED
      BY <3>1, <3>2, <3>3, <3>4 DEF BytesInv
  <2>10. CodesInOrder'
    <3> SUFFICES ASSUME NEW i \in DOMAIN calls', NEW j \in DOMAIN calls', i < j,
                        calls'[i].out = "code", calls'[j].out = "code"
                 PROVE  calls'[i].n < calls'[j].n
      BY DEF CodesInOrder
    <3>1. i \in 1..Len(calls) /\ j \in 1..Len(calls) /\ i \in Nat /\ j \in Nat /\ k \in Nat
      BY <2>6, <2>7
    <3>2. CASE j = k
      <4>1. i # k
        BY <3>1, <3>2
      <4>2. calls'[i] = calls[i] /\ calls[i].n \in 1..recvSeq /\ calls'[j].n = seq
        BY <3>1, <3>2, <4>1, <2>6, <2>8
      <4> QED
        BY <4>2, <1>3, <2>2, <2>3
    <3>3. CASE j # k
      <4>1. calls'[j] = calls[j] /\ j < k
        BY <3>1, <3>3, <2>6, <2>8
      <4>2. i # k
        BY <3>1, <4>1
      <4>3. calls'[i] = calls[i]
        BY <3>1, <4>2, <2>6
      <4> QED
        BY <3>1, <4>1, <4>3, <2>7 DEF FramedInv, CodesInOrder
    <3> QED
      BY <3>2, <3>3
  <2> QED
    BY <2>4, <2>9, <2>10 DEF FramedInv
<1> QED
  BY <1>1, <1>2, <1>3

LEMMA InitFramed == Init => FramedInv
<1> SUFFICES ASSUME Init PROVE FramedInv
  OBVIOUS
<1>1. /\ calls = <<>> /\ overlapped = FALSE /\ writes = <<>> /\ waiters = <<>> /\ ready = <<>>
      /\ off = 0 /\ have = 0 /\ ended = FALSE /\ recvSeq = 0
      /\ inbox = <<>> /\ answers = <<>> /\ spc = "open"
  BY DEF Init
<1>2. TypeOK
  <2>1. \A S : <<>> \in Seq(S)
    OBVIOUS
  <2>2. off \in Nat /\ have \in Nat /\ off <= have /\ recvSeq \in Nat
    BY <1>1
  <2>3. ended \in BOOLEAN /\ overlapped \in BOOLEAN /\ spc \in {"open", "closed"}
    BY <1>1
  <2> QED
    BY <1>1, <2>1, <2>2, <2>3, Zenon DEF TypeOK
<1>3. BytesInv /\ CodesInOrder
  BY <1>1 DEF BytesInv, CodesInOrder, FrameSize, PrefixSize, SealedResponse
<1>4. Line \in Seq(Nat) /\ Len(Line) = 0
  <2>1. <<>> \in Seq(Read) /\ <<>> \in Seq(Waiter) /\ Len(<<>>) = 0
    OBVIOUS
  <2>2. LineOf(<<>>, <<>>) \in Seq(Nat) /\ Len(LineOf(<<>>, <<>>)) = Len(<<>>) + Len(<<>>)
    BY <2>1, LineIs
  <2> QED
    BY <2>1, <2>2, <1>1 DEF Line
<1>5. Len(writes) = 0 /\ Len(calls) = 0
  BY <1>1
<1> HIDE DEF Line
<1>6. InOrder(calls, Line, writes)
  BY <1>4, <1>5 DEF InOrder
<1> QED
  BY <1>2, <1>3, <1>6 DEF FramedInv

LEMMA FramedStep == FramedInv /\ [Next]_vars => FramedInv'
<1> SUFFICES ASSUME FramedInv, [Next]_vars PROVE FramedInv'
  OBVIOUS
<1>1. CASE WriteDone
  BY <1>1, StepWriteDone
<1>2. CASE WriteFails
  BY <1>2, StepWriteFails
<1>3. CASE GotPrefix
  BY <1>3, StepGotPrefix
<1>4. CASE GotBody
  BY <1>4, StepGotBody
<1>5. CASE ReadRejected
  BY <1>5, StepReadRejected
<1>6. CASE Chunk
  BY <1>6, StepChunk
<1>7. CASE End
  BY <1>7, StepEnd
<1>8. CASE Call
  BY <1>8, StepCall
<1>9. CASE CallRefused
  BY <1>9, StepCallRefused
<1>10. CASE ServerNext \/ UNCHANGED vars
  BY <1>10, StepServer
<1> QED
  BY <1>1, <1>2, <1>3, <1>4, <1>5, <1>6, <1>7, <1>8, <1>9, <1>10
     DEF Next, ClientLoop, Continuation, Application

\* The type invariant and the invariant about the order of the calls.
THEOREM FramedInvariant == Spec => []FramedInv
<1> QED
  BY InitFramed, FramedStep, PTL DEF Spec

\* Every state of the JavaScript client and the bytes it reads is well formed.
THEOREM FramedTypes == Spec => []TypeOK
<1>1. FramedInv => TypeOK
  BY DEF FramedInv
<1> QED
  BY <1>1, FramedInvariant, PTL

\* However calls overlap, and whatever lengths they misread, no two of them
\* return the code of one response, and later calls return those of later
\* responses (FramedConn._pump, ClientV2._send).
THEOREM OverlappingCallsKeepOrder == Spec => []CodesInOrder
<1>1. FramedInv => CodesInOrder
  BY DEF FramedInv
<1> QED
  BY <1>1, FramedInvariant, PTL

-----------------------------------------------------------------------------
(* An application that awaits every call.                                  *)

\* A read of the last call, when _pump is done with it.
LEMMA ReadPumped ==
  ASSUME NEW q, NEW pc \in {"prefix", "body"}, NEW at \in Nat, NEW n \in Nat,
         NEW h, NEW e, e => ended', OthersSettled', LastAt(pc)', Owed(q)', writes' = <<>>,
         Pump(<<[call |-> Last', n |-> n]>>, at, h, e, <<>>)
  PROVE  Waiting(q, pc, at, n)' \/ GotBytes(q, pc, at, n)' \/ Rejected'
<1> DEFINE w == [call |-> Last', n |-> n]
<1>1. w.call = Last' /\ w.n = n
  OBVIOUS
<1>2. \/ /\ waiters' = <<>> /\ off' = at + w.n
         /\ ready' = <<[call |-> w.call, ok |-> TRUE, at |-> at, n |-> w.n]>>
      \/ /\ e /\ waiters' = <<>> /\ off' = at
         /\ ready' = <<[call |-> w.call, ok |-> FALSE, at |-> at, n |-> w.n]>>
      \/ /\ ~e /\ waiters' = <<w>> /\ off' = at /\ ready' = <<>>
  <2>1. Pump(<<w>>, at, h, e, <<>>)
    OBVIOUS
  <2> HIDE DEF w
  <2> QED
    BY <2>1, PumpOne, Zenon
<1>3. CASE /\ waiters' = <<>> /\ off' = at + w.n
           /\ ready' = <<[call |-> w.call, ok |-> TRUE, at |-> at, n |-> w.n]>>
  BY <1>3 DEF GotBytes
<1>4. CASE /\ e /\ waiters' = <<>> /\ off' = at
           /\ ready' = <<[call |-> w.call, ok |-> FALSE, at |-> at, n |-> w.n]>>
  <2>1. ready' = <<[call |-> Last', ok |-> FALSE, at |-> at, n |-> n]>>
    BY <1>4
  <2>2. \E a, b \in Nat : ready' = <<[call |-> Last', ok |-> FALSE, at |-> a, n |-> b]>>
    BY <2>1
  <2>3. LastAt("prefix")' \/ LastAt("body")'
    OBVIOUS
  <2> QED
    BY <1>4, <2>2, <2>3 DEF Rejected
<1>5. CASE ~e /\ waiters' = <<w>> /\ off' = at /\ ready' = <<>>
  BY <1>5 DEF Waiting
<1> QED
  BY <1>2, <1>3, <1>4, <1>5

\* Where a settled read and a waiting one are not, nothing is due.
LEMMA WhatIsDue ==
  ASSUME NEW q, Phase(q)
  PROVE  /\ ready = <<>> => \/ Idle(q) \/ Losing \/ Writing(q)
                            \/ Waiting(q, "prefix", FrameSize * q, PrefixSize)
                            \/ Waiting(q, "body", FrameSize * q + PrefixSize, SealedResponse)
         /\ writes # <<>> => Losing \/ Writing(q)
         /\ ready # <<>> => \/ Rejected
                            \/ GotBytes(q, "prefix", FrameSize * q, PrefixSize)
                            \/ GotBytes(q, "body", FrameSize * q + PrefixSize, SealedResponse)
<1>1. CASE Idle(q) \/ Losing \/ Writing(q)
  BY <1>1, Zenon DEF Idle, Losing, Writing
<1>2. ASSUME NEW pc, NEW at, NEW n, Waiting(q, pc, at, n) PROVE ready = <<>> /\ writes = <<>>
  BY <1>2 DEF Waiting
<1>3. ASSUME NEW pc, NEW at, NEW n, GotBytes(q, pc, at, n) PROVE ready # <<>> /\ writes = <<>>
  BY <1>3 DEF GotBytes
<1>4. Rejected => ready # <<>> /\ writes = <<>>
  BY DEF Rejected
<1> QED
  BY <1>1, <1>2, <1>3, <1>4, Zenon DEF Phase

LEMMA PhaseChunk ==
  ASSUME TypeOK, NEW q \in 0..Len(answers), Phase(q), Chunk
  PROVE  Phase(q)'
<1>1. PICK h : Pump(waiters, off, h, FALSE, <<>>)
  BY DEF Chunk, BufferStart
<1>2. /\ ready = <<>> /\ ~ended /\ FALSE \in BOOLEAN
      /\ UNCHANGED <<calls, overlapped, writes, ended, recvSeq, inbox, answers, spc>>
  BY DEF Chunk, serverVars
<1>3. q \in Nat
  OBVIOUS
<1>4. CASE Idle(q) \/ Losing \/ Writing(q)
  <2>1. waiters = <<>>
    BY <1>4, Zenon DEF Idle, Losing, Writing
  <2>2. waiters' = <<>> /\ off' = off /\ ready' = <<>>
    BY <2>1, <1>1, PumpNone
  <2>3. (Idle(q) => Idle(q)') /\ (Losing => Losing') /\ (Writing(q) => Writing(q)')
    BY <1>2, <2>1, <2>2
       DEF Idle, Losing, Writing, OthersSettled, LastAt, Last, Owed
  <2> QED
    BY <1>4, <2>3, Zenon DEF Phase
<1>5. ASSUME NEW pc \in {"prefix", "body"}, NEW at \in Nat, NEW n \in Nat, Waiting(q, pc, at, n)
      PROVE  Waiting(q, pc, at, n)' \/ GotBytes(q, pc, at, n)' \/ Rejected'
  <2>1. /\ OthersSettled' /\ LastAt(pc)' /\ Owed(q)' /\ writes' = <<>>
        /\ Last' = Last /\ off = at /\ waiters = <<[call |-> Last', n |-> n]>>
    BY <1>2, <1>5 DEF Waiting, OthersSettled, LastAt, Last, Owed
  <2>2. Pump(<<[call |-> Last', n |-> n]>>, at, h, FALSE, <<>>)
    BY <2>1, <1>1
  <2> QED
    BY <2>1, <2>2, ReadPumped
<1>6. CASE Waiting(q, "prefix", FrameSize * q, PrefixSize)
  <2>1. FrameSize * q \in Nat /\ PrefixSize \in Nat
    BY <1>3 DEF FrameSize, PrefixSize, SealedResponse
  <2> QED
    BY <1>5, <1>6, <2>1, Zenon DEF Phase
<1>7. CASE Waiting(q, "body", FrameSize * q + PrefixSize, SealedResponse)
  <2>1. FrameSize * q + PrefixSize \in Nat /\ SealedResponse \in Nat
    BY <1>3 DEF FrameSize, PrefixSize, SealedResponse
  <2> QED
    BY <1>5, <1>7, <2>1, Zenon DEF Phase
<1> QED
  BY <1>2, <1>4, <1>6, <1>7, WhatIsDue

LEMMA PhaseEnd ==
  ASSUME TypeOK, NEW q \in 0..Len(answers), Phase(q), End
  PROVE  Phase(q)'
<1>1. Pump(waiters, off, have, TRUE, <<>>)
  BY DEF End
<1>2. /\ ready = <<>> /\ ended' = TRUE
      /\ UNCHANGED <<calls, overlapped, writes, recvSeq, inbox, answers, spc>>
  BY DEF End, serverVars
<1>3. q \in Nat
  OBVIOUS
<1>4. CASE Idle(q) \/ Losing \/ Writing(q)
  <2>1. waiters = <<>>
    BY <1>4, Zenon DEF Idle, Losing, Writing
  <2>2. waiters' = <<>> /\ off' = off /\ ready' = <<>>
    BY <2>1, <1>1, PumpNone
  <2>3. (Idle(q) => Idle(q)') /\ (Losing => Losing') /\ (Writing(q) => Writing(q)')
    BY <1>2, <2>1, <2>2
       DEF Idle, Losing, Writing, OthersSettled, LastAt, Last, Owed
  <2> QED
    BY <1>4, <2>3, Zenon DEF Phase
<1>5. ASSUME NEW pc \in {"prefix", "body"}, NEW at \in Nat, NEW n \in Nat, Waiting(q, pc, at, n)
      PROVE  Waiting(q, pc, at, n)' \/ GotBytes(q, pc, at, n)' \/ Rejected'
  <2>1. /\ OthersSettled' /\ LastAt(pc)' /\ Owed(q)' /\ writes' = <<>>
        /\ Last' = Last /\ off = at /\ waiters = <<[call |-> Last', n |-> n]>>
    BY <1>2, <1>5 DEF Waiting, OthersSettled, LastAt, Last, Owed
  <2>2. Pump(<<[call |-> Last', n |-> n]>>, at, have, TRUE, <<>>)
    BY <2>1, <1>1
  <2> QED
    BY <1>2, <2>1, <2>2, ReadPumped
<1>6. CASE Waiting(q, "prefix", FrameSize * q, PrefixSize)
  <2>1. FrameSize * q \in Nat /\ PrefixSize \in Nat
    BY <1>3 DEF FrameSize, PrefixSize, SealedResponse
  <2> QED
    BY <1>5, <1>6, <2>1, Zenon DEF Phase
<1>7. CASE Waiting(q, "body", FrameSize * q + PrefixSize, SealedResponse)
  <2>1. FrameSize * q + PrefixSize \in Nat /\ SealedResponse \in Nat
    BY <1>3 DEF FrameSize, PrefixSize, SealedResponse
  <2> QED
    BY <1>5, <1>7, <2>1, Zenon DEF Phase
<1> QED
  BY <1>2, <1>4, <1>6, <1>7, WhatIsDue

\* When every call is settled, the application may start the next one.
LEMMA AllSettled ==
  ASSUME TypeOK, NEW q, Phase(q), Outstanding = {}
  PROVE  Idle(q)
<1>1. DOMAIN calls = 1..Len(calls) /\ Len(calls) \in Nat
  BY LenProperties DEF TypeOK
<1>2. ASSUME NEW pc, pc # "done" PROVE ~LastAt(pc)
  BY <1>1, <1>2 DEF LastAt, Last, Outstanding, Settled
<1> QED
  BY <1>2 DEF Phase, Losing, Writing, Rejected, Waiting, GotBytes

LEMMA PhaseCall ==
  ASSUME FramedInv, NEW q \in 0..Len(answers), Phase(q), Call, ~overlapped'
  PROVE  Phase(q)'
<1> DEFINE r == [pc |-> IF ended THEN "lost" ELSE "write", out |-> "none", n |-> 0]
<1>1. /\ calls' = Append(calls, r) /\ ready = <<>>
      /\ writes' = Append(writes, Len(calls'))
      /\ inbox' = IF ended THEN inbox ELSE Append(inbox, Len(calls'))
      /\ Outstanding = {}
      /\ UNCHANGED <<waiters, ready, off, have, ended, recvSeq, answers, spc>>
  BY DEF Call, MayStart
<1>2. TypeOK /\ calls \in Seq(CallRec) /\ ended \in BOOLEAN
  BY TypeIs DEF FramedInv
<1>3. Idle(q)
  BY <1>1, <1>2, AllSettled
<1>4. r \in CallRec /\ r.pc = IF ended THEN "lost" ELSE "write"
  BY DEF CallRec
<1> HIDE DEF r
<1>5. /\ Len(calls') = Len(calls) + 1 /\ Len(calls) \in Nat /\ calls'[Len(calls) + 1] = r
      /\ \A j \in 1..Len(calls) : calls'[j] = calls[j]
  BY <1>1, <1>2, <1>4, AppendProperties, LenProperties
<1>6. Last' = Last + 1 /\ Last = Len(calls)
  BY <1>5 DEF Last
<1>7. OthersSettled'
  BY <1>3, <1>5, <1>6 DEF OthersSettled, Idle
<1>8. writes' = <<Last'>> /\ waiters' = <<>> /\ ready' = <<>>
  <2>1. \A x : Append(<<>>, x) = <<x>>
    OBVIOUS
  <2> QED
    BY <2>1, <1>1, <1>3, Zenon DEF Idle, Last
<1>9. CASE ended
  <2>1. LastAt("lost")'
    BY <1>4, <1>5, <1>6, <1>9 DEF LastAt
  <2> QED
    BY <1>1, <1>7, <1>8, <1>9, <2>1 DEF Losing, Phase
<1>10. CASE ~ended
  <2>1. LastAt("write")'
    BY <1>4, <1>5, <1>6, <1>10 DEF LastAt
  <2>2. off = FrameSize * q /\ Len(answers) = q /\ inbox = <<>>
    BY <1>3, <1>10 DEF Idle
  <2>3. inbox' = <<Last'>>
    <3>1. \A x : Append(<<>>, x) = <<x>>
      OBVIOUS
    <3> QED
      BY <3>1, <2>2, <1>1, <1>10, Zenon DEF Last
  <2>4. recvSeq <= q
    <3>1. FrameSize * recvSeq <= off /\ recvSeq \in Nat /\ q \in Nat
      BY DEF FramedInv, BytesInv, TypeOK
    <3> QED
      BY <3>1, <2>2 DEF FrameSize, PrefixSize, SealedResponse
  <2>5. Owed(q)'
    BY <2>2, <2>3, <2>4, <1>1 DEF Owed
  <2>6. Writing(q)'
    BY <1>1, <1>7, <1>8, <2>1, <2>2, <2>5 DEF Writing
  <2> QED
    BY <2>6 DEF Phase
<1> QED
  BY <1>9, <1>10

LEMMA PhaseCallRefused ==
  ASSUME FramedInv, NEW q \in 0..Len(answers), Phase(q), CallRefused, ~overlapped'
  PROVE  Phase(q)'
<1> DEFINE r == [pc |-> "done", out |-> "refused", n |-> 0]
<1>1. /\ calls' = Append(calls, r)
      /\ Outstanding = {}
      /\ UNCHANGED <<writes, waiters, ready, off, have, ended, recvSeq, inbox, answers, spc>>
  BY DEF CallRefused, MayStart, serverVars
<1>2. TypeOK /\ calls \in Seq(CallRec)
  BY TypeIs DEF FramedInv
<1>3. Idle(q)
  BY <1>1, <1>2, AllSettled
<1>4. r \in CallRec /\ r.pc = "done"
  BY DEF CallRec
<1> HIDE DEF r
<1>5. /\ Len(calls') = Len(calls) + 1 /\ Len(calls) \in Nat /\ calls'[Len(calls) + 1] = r
      /\ \A j \in 1..Len(calls) : calls'[j] = calls[j]
  BY <1>1, <1>2, <1>4, AppendProperties, LenProperties
<1>6. \A j \in 1..Len(calls') : calls'[j].pc = "done"
  <2> TAKE j \in 1..Len(calls')
  <2>1. j = Len(calls) + 1 \/ j \in 1..Len(calls)
    BY <1>5
  <2> QED
    BY <2>1, <1>3, <1>4, <1>5 DEF Idle, Last
<1>7. Idle(q)'
  BY <1>1, <1>3, <1>6 DEF Idle, Last
<1> QED
  BY <1>7 DEF Phase

LEMMA PhaseWriteDone ==
  ASSUME FramedInv, NEW q \in 0..Len(answers), Phase(q), WriteDone
  PROVE  Phase(q)'
<1>1. writes # <<>> /\ calls[Head(writes)].pc = "write"
  BY DEF WriteDone
<1>2. calls \in Seq(CallRec) /\ DOMAIN calls = 1..Len(calls) /\ Len(calls) \in Nat
  BY TypeIs, LenProperties DEF FramedInv
<1>3. Writing(q)
  <2>1. ASSUME Losing PROVE FALSE
    <3>1. writes = <<Last>> /\ calls[Last].pc = "lost"
      BY <2>1 DEF Losing, LastAt
    <3> QED
      BY <3>1, <1>1
  <2> QED
    BY <2>1, <1>1, WhatIsDue
<1>4. Head(writes) = Last /\ Tail(writes) = <<>> /\ waiters = <<>> /\ off = FrameSize * q
  BY <1>3 DEF Writing
<1>5. Append(<<>>, [call |-> Last, n |-> PrefixSize]) = <<[call |-> Last, n |-> PrefixSize]>>
  OBVIOUS
<1>6. /\ writes' = <<>>
      /\ calls' = [calls EXCEPT ![Last].pc = "prefix"]
      /\ Pump(<<[call |-> Last, n |-> PrefixSize]>>, FrameSize * q, have, ended, <<>>)
      /\ UNCHANGED <<ended, recvSeq, inbox, answers>>
  BY <1>4, <1>5 DEF WriteDone, GoTo, ReadExactly, serverVars
<1>7. /\ Last \in 1..Len(calls) /\ OthersSettled /\ Owed(q)
  BY <1>2, <1>3 DEF Writing, LastAt, Last
<1>8. /\ Last' = Last /\ calls'[Last].pc = "prefix"
      /\ \A j \in 1..(Last - 1) : calls'[j] = calls[j]
  BY <1>2, <1>6, <1>7 DEF Last, CallRec
<1>9. OthersSettled' /\ LastAt("prefix")' /\ Owed(q)'
  BY <1>2, <1>6, <1>7, <1>8 DEF OthersSettled, LastAt, Owed
<1>10. FrameSize * q \in Nat /\ PrefixSize \in Nat
  BY DEF FrameSize, PrefixSize, SealedResponse
<1>11. Pump(<<[call |-> Last', n |-> PrefixSize]>>, FrameSize * q, have, ended, <<>>)
  BY <1>6, <1>8
<1>12. \/ Waiting(q, "prefix", FrameSize * q, PrefixSize)'
       \/ GotBytes(q, "prefix", FrameSize * q, PrefixSize)' \/ Rejected'
  <2>1. ended => ended'
    BY <1>6
  <2>2. "prefix" \in {"prefix", "body"}
    OBVIOUS
  <2> QED
    BY <1>6, <1>9, <1>10, <1>11, <2>1, <2>2, ReadPumped, Zenon
<1> QED
  BY <1>12, Zenon DEF Phase

LEMMA PhaseWriteFails ==
  ASSUME FramedInv, NEW q \in 0..Len(answers), Phase(q), WriteFails
  PROVE  Phase(q)'
<1>1. writes # <<>> /\ ready = <<>>
  BY DEF WriteFails
<1>2. Losing \/ Writing(q)
  BY <1>1, WhatIsDue
<1>3. writes = <<Last>> /\ waiters = <<>> /\ OthersSettled /\ Last > 0
  BY <1>2 DEF Losing, Writing, LastAt
<1>4. Head(writes) = Last /\ Tail(writes) = <<>>
  BY <1>3
<1>5. /\ calls' = [k \in DOMAIN calls |->
              IF k = Last THEN [pc |-> "done", out |-> "write", n |-> 0]
              ELSE IF calls[k].pc = "write" THEN [calls[k] EXCEPT !.pc = "lost"]
              ELSE calls[k]]
      /\ writes' = <<>> /\ ended' = TRUE
      /\ Pump(<<>>, off, have, TRUE, <<>>)
  BY <1>3, <1>4 DEF WriteFails
<1>6. waiters' = <<>> /\ ready' = <<>>
  BY <1>5, PumpNone
<1>7. calls \in Seq(CallRec) /\ DOMAIN calls = 1..Len(calls) /\ Len(calls) \in Nat
  BY TypeIs, LenProperties DEF FramedInv
<1>8. Last' = Last /\ \A j \in 1..Last : calls'[j].pc = "done"
  <2>1. Len(calls') = Len(calls)
    BY <1>5, <1>7
  <2>2. ASSUME NEW j \in 1..Len(calls) PROVE calls'[j].pc = "done"
    <3>1. CASE j = Last
      BY <3>1, <1>5, <1>7
    <3>2. CASE j # Last
      <4>1. calls[j].pc = "done"
        BY <3>2, <1>3, <1>7 DEF OthersSettled, Last
      <4> QED
        BY <3>2, <4>1, <1>5, <1>7
    <3> QED
      BY <3>1, <3>2
  <2> QED
    BY <2>1, <2>2 DEF Last
<1>9. Idle(q)'
  BY <1>5, <1>6, <1>8 DEF Idle
<1> QED
  BY <1>9 DEF Phase

LEMMA PhaseGotPrefix ==
  ASSUME FramedInv, NEW q \in 0..Len(answers), Phase(q), GotPrefix
  PROVE  Phase(q)' /\ GoTo(Last, "body")
<1> DEFINE at == FrameSize * q
           r == [call |-> Last, ok |-> TRUE, at |-> at, n |-> PrefixSize]
<1>1. ready # <<>> /\ Head(ready).ok /\ calls[Head(ready).call].pc = "prefix"
  BY DEF GotPrefix
<1>2. calls \in Seq(CallRec) /\ DOMAIN calls = 1..Len(calls) /\ Len(calls) \in Nat
  BY TypeIs, LenProperties DEF FramedInv
<1>3. at \in Nat /\ at % FrameSize = 0 /\ q \in Nat
  BY DEF FrameSize, PrefixSize, SealedResponse
<1>4. GotBytes(q, "prefix", at, PrefixSize)
  <2>1. ASSUME Rejected PROVE FALSE
    <3>1. PICK a, b \in Nat : ready = <<[call |-> Last, ok |-> FALSE, at |-> a, n |-> b]>>
      BY <2>1 DEF Rejected
    <3>2. Head(ready).ok = FALSE
      BY <3>1
    <3> QED
      BY <3>2, <1>1
  <2>2. ASSUME GotBytes(q, "body", at + PrefixSize, SealedResponse) PROVE FALSE
    <3>1. calls[Last].pc = "body" /\ Head(ready).call = Last
      BY <2>2 DEF GotBytes, LastAt
    <3> QED
      BY <3>1, <1>1
  <2> QED
    BY <2>1, <2>2, <1>1, WhatIsDue
<1>5. ready = <<r>> /\ waiters = <<>> /\ off = at + PrefixSize /\ writes = <<>>
  BY <1>4 DEF GotBytes
<1>6. Head(ready) = r /\ Tail(ready) = <<>>
  <2> HIDE DEF r
  <2> QED
    BY <1>5
<1>7. r.call = Last /\ r.at = at
  OBVIOUS
<1> HIDE DEF at, r
<1>8. /\ GoTo(Last, "body") /\ ReadExactly(Last, SealedResponse, <<>>)
      /\ UNCHANGED <<writes, have, ended, recvSeq, inbox, answers>>
  BY <1>3, <1>6, <1>7 DEF GotPrefix, serverVars
<1>9. Append(<<>>, [call |-> Last, n |-> SealedResponse]) = <<[call |-> Last, n |-> SealedResponse]>>
  OBVIOUS
<1>10. Pump(<<[call |-> Last, n |-> SealedResponse]>>, at + PrefixSize, have, ended, <<>>)
  BY <1>5, <1>8, <1>9 DEF ReadExactly
<1>11. Last \in 1..Len(calls) /\ OthersSettled /\ Owed(q)
  BY <1>2, <1>4 DEF GotBytes, LastAt, Last
<1>12. /\ Last' = Last /\ calls'[Last].pc = "body"
       /\ \A j \in 1..(Last - 1) : calls'[j] = calls[j]
  BY <1>2, <1>8, <1>11 DEF GoTo, Last, CallRec
<1>13. OthersSettled' /\ LastAt("body")' /\ Owed(q)' /\ writes' = <<>>
  BY <1>2, <1>5, <1>8, <1>11, <1>12 DEF OthersSettled, LastAt, Owed
<1>14. \/ Waiting(q, "body", at + PrefixSize, SealedResponse)'
       \/ GotBytes(q, "body", at + PrefixSize, SealedResponse)' \/ Rejected'
  <2>1. ended => ended'
    BY <1>8
  <2>2. "body" \in {"prefix", "body"} /\ at + PrefixSize \in Nat /\ SealedResponse \in Nat
    BY <1>3 DEF PrefixSize, SealedResponse
  <2>3. Pump(<<[call |-> Last', n |-> SealedResponse]>>, at + PrefixSize, have, ended, <<>>)
    BY <1>10, <1>12
  <2> QED
    BY <1>13, <2>1, <2>2, <2>3, ReadPumped, Zenon
<1>15. Phase(q)'
  BY <1>14, Zenon DEF Phase, at
<1> QED
  BY <1>8, <1>15

\* The last call settles, and with it every call.
LEMMA LastSettles ==
  ASSUME calls \in Seq(CallRec), OthersSettled, Last > 0, NEW out, NEW n,
         Settle(Last, out, n)
  PROVE  /\ Last' = Last
         /\ \A j \in 1..Last' : calls'[j].pc = "done"
         /\ calls'[Last] = [pc |-> "done", out |-> out, n |-> n]
         /\ \A j \in 1..Len(calls) : j # Last => calls'[j] = calls[j]
<1>1. DOMAIN calls = 1..Len(calls) /\ Len(calls) \in Nat
  BY LenProperties
<1>2. calls' = [calls EXCEPT ![Last] = [pc |-> "done", out |-> out, n |-> n]]
  BY DEF Settle
<1>3. Last' = Last /\ Last = Len(calls)
  BY <1>1, <1>2 DEF Last
<1>4. ASSUME NEW j \in 1..Len(calls), j # Last
      PROVE  calls'[j] = calls[j] /\ calls[j].pc = "done"
  <2>1. j \in 1..(Last - 1)
    <3> DEFINE m == Len(calls)
    <3>1. m \in Nat /\ j \in 1..m /\ j # m
      BY <1>1, <1>3, <1>4
    <3> HIDE DEF m
    <3>2. j \in 1..(m - 1)
      BY <3>1
    <3> QED
      BY <3>2, <1>3 DEF m
  <2>2. calls[j].pc = "done"
    BY <2>1 DEF OthersSettled
  <2> QED
    BY <1>1, <1>2, <1>4, <2>2
<1>5. calls'[Last] = [pc |-> "done", out |-> out, n |-> n]
  BY <1>1, <1>2, <1>3
<1> QED
  BY <1>3, <1>4, <1>5

LEMMA PhaseReadRejected ==
  ASSUME FramedInv, NEW q \in 0..Len(answers), Phase(q), ReadRejected
  PROVE  Idle(q)' /\ OthersSettled /\ Last > 0 /\ Settle(Last, "eof", 0)
<1>1. ready # <<>> /\ ~Head(ready).ok
  BY DEF ReadRejected
<1>2. calls \in Seq(CallRec)
  BY TypeIs DEF FramedInv
<1>3. Rejected
  <2>1. ASSUME NEW pc, NEW at, NEW n, GotBytes(q, pc, at, n) PROVE FALSE
    <3>1. Head(ready).ok = TRUE
      BY <2>1 DEF GotBytes
    <3> QED
      BY <3>1, <1>1
  <2> QED
    BY <2>1, <1>1, WhatIsDue, Zenon
<1>4. PICK a, b \in Nat : ready = <<[call |-> Last, ok |-> FALSE, at |-> a, n |-> b]>>
  BY <1>3 DEF Rejected
<1>5. Head(ready).call = Last /\ Tail(ready) = <<>>
  BY <1>4
<1>6. /\ Settle(Last, "eof", 0) /\ ready' = <<>>
      /\ UNCHANGED <<writes, waiters, ended>>
  BY <1>5 DEF ReadRejected
<1>7. OthersSettled /\ Last > 0 /\ writes = <<>> /\ waiters = <<>> /\ ended
  BY <1>3 DEF Rejected, LastAt
<1>8. \A j \in 1..Last' : calls'[j].pc = "done"
  BY <1>2, <1>6, <1>7, LastSettles
<1> QED
  BY <1>6, <1>7, <1>8 DEF Idle

\* A body in step: the response to the last call, which returns its code.
LEMMA PhaseGotBody ==
  ASSUME FramedInv, NEW q \in 0..Len(answers), Phase(q), GotBody
  PROVE  /\ q + 1 \in 0..Len(answers') /\ Idle(q + 1)'
         /\ answers[q + 1] = Last /\ Settle(Last, "code", q + 1) /\ Last > 0
         /\ OthersSettled
<1> DEFINE at == FrameSize * q + PrefixSize
           r == [call |-> Last, ok |-> TRUE, at |-> at, n |-> SealedResponse]
<1>1. ready # <<>> /\ Head(ready).ok /\ calls[Head(ready).call].pc = "body"
  BY DEF GotBody
<1>2. /\ calls \in Seq(CallRec) /\ DOMAIN calls = 1..Len(calls) /\ Len(calls) \in Nat
      /\ recvSeq \in Nat /\ off \in Nat /\ have \in Nat /\ off <= have
      /\ Len(answers) \in Nat /\ have <= FrameSize * Len(answers)
  BY TypeIs, LenProperties DEF FramedInv, BytesInv
<1>3. GotBytes(q, "body", at, SealedResponse)
  <2>1. ASSUME Rejected PROVE FALSE
    <3>1. PICK a, b \in Nat : ready = <<[call |-> Last, ok |-> FALSE, at |-> a, n |-> b]>>
      BY <2>1 DEF Rejected
    <3>2. Head(ready).ok = FALSE
      BY <3>1
    <3> QED
      BY <3>2, <1>1
  <2>2. ASSUME GotBytes(q, "prefix", FrameSize * q, PrefixSize) PROVE FALSE
    <3>1. calls[Last].pc = "prefix" /\ Head(ready).call = Last
      BY <2>2 DEF GotBytes, LastAt
    <3> QED
      BY <3>1, <1>1
  <2> QED
    BY <2>1, <2>2, <1>1, WhatIsDue
<1>4. /\ ready = <<r>> /\ waiters = <<>> /\ writes = <<>> /\ off = at + SealedResponse
      /\ OthersSettled /\ Last > 0 /\ Owed(q)
  BY <1>3 DEF GotBytes, LastAt
<1>5. Head(ready) = r /\ Tail(ready) = <<>>
  <2> HIDE DEF r
  <2> QED
    BY <1>4
<1>6. r.call = Last /\ r.at = at /\ r.n = SealedResponse
  OBVIOUS
<1>7. at % FrameSize = PrefixSize /\ at \div FrameSize + 1 = q + 1 /\ q \in Nat
  BY DEF FrameSize, PrefixSize, SealedResponse
<1>8. off = FrameSize * (q + 1) /\ off = 45 * (q + 1)
  BY <1>4, <1>7 DEF FrameSize, PrefixSize, SealedResponse
<1> HIDE DEF at, r
<1>9. recvSeq <= q /\ inbox = <<>> /\ Len(answers) = q + 1 /\ answers[q + 1] = Last
  <2>1. Len(answers) # q
    <3> DEFINE m == Len(answers)
    <3>1. off <= 45 * m /\ m \in Nat
      BY <1>2 DEF FrameSize, PrefixSize, SealedResponse
    <3> HIDE DEF m
    <3>2. m # q
      BY <3>1, <1>7, <1>8
    <3> QED
      BY <3>2 DEF m
  <2> QED
    BY <2>1, <1>4 DEF Owed
<1>10. /\ Settle(Last, "code", q + 1) /\ ready' = <<>>
       /\ UNCHANGED <<writes, waiters, off, ended, inbox, answers>>
  <2>1. ~(q + 1 <= recvSeq)
    BY <1>2, <1>7, <1>9
  <2> QED
    BY <2>1, <1>5, <1>6, <1>7 DEF GotBody, serverVars
<1>11. \A j \in 1..Last' : calls'[j].pc = "done"
  BY <1>2, <1>4, <1>10, LastSettles
<1>12. off' = FrameSize * (q + 1) /\ Len(answers') = q + 1 /\ inbox' = <<>>
  BY <1>8, <1>9, <1>10
<1>13. Idle(q + 1)'
  BY <1>4, <1>10, <1>11, <1>12 DEF Idle
<1> QED
  BY <1>4, <1>7, <1>9, <1>10, <1>12, <1>13

\* The server takes only the message that is owed an answer.
LEMMA PhaseServer ==
  ASSUME FramedInv, NEW q \in 0..Len(answers), Phase(q), ServerNext \/ UNCHANGED vars
  PROVE  Phase(q)' /\ \A i \in 1..Len(answers) : i \in 1..Len(answers') /\ answers'[i] = answers[i]
<1>1. UNCHANGED <<calls, overlapped, writes, waiters, ready, off, have, ended, recvSeq>>
  BY DEF ServerNext, ServerAnswers, ServerDenies, ServerThrows, Answer, clientVars, vars
<1>2. \/ inbox # <<>> /\ inbox' = Tail(inbox) /\ answers' = Append(answers, Head(inbox))
      \/ inbox' = inbox /\ answers' = answers
  BY DEF ServerNext, ServerAnswers, ServerDenies, ServerThrows, Answer, vars, serverVars
<1>3. inbox \in Seq(Nat) /\ answers \in Seq(Nat) /\ Len(answers) \in Nat
  BY LenProperties DEF FramedInv, TypeOK
<1>4. ASSUME inbox # <<>>, answers' = Append(answers, Head(inbox))
      PROVE  /\ Len(answers') = Len(answers) + 1
             /\ answers'[Len(answers) + 1] = Head(inbox)
             /\ \A i \in 1..Len(answers) : answers'[i] = answers[i]
  <2>1. Head(inbox) \in Nat
    BY <1>3, <1>4, HeadTailProperties
  <2> QED
    BY <2>1, <1>3, <1>4, AppendProperties
<1>5. Owed(q) => Owed(q)'
  <2> SUFFICES ASSUME Owed(q) PROVE Owed(q)'
    OBVIOUS
  <2>1. Last' = Last /\ recvSeq' = recvSeq
    BY <1>1 DEF Last
  <2>2. CASE inbox' = inbox /\ answers' = answers
    BY <2>1, <2>2 DEF Owed
  <2>3. CASE inbox # <<>> /\ inbox' = Tail(inbox) /\ answers' = Append(answers, Head(inbox))
    <3>1. inbox = <<Last>> /\ Len(answers) = q
      BY <2>3 DEF Owed
    <3>2. inbox' = <<>> /\ Head(inbox) = Last
      BY <2>3, <3>1
    <3>3. Len(answers') = q + 1 /\ answers'[q + 1] = Last
      BY <2>3, <3>1, <3>2, <1>4
    <3> QED
      BY <2>1, <3>2, <3>3 DEF Owed
  <2> QED
    BY <1>2, <2>2, <2>3
<1>6. Idle(q) => Idle(q)'
  <2> SUFFICES ASSUME Idle(q) PROVE Idle(q)'
    OBVIOUS
  <2>1. ~ended => inbox' = inbox /\ answers' = answers
    BY <1>2 DEF Idle
  <2> QED
    BY <2>1, <1>1 DEF Idle, Last
<1>7. (Losing => Losing') /\ (Rejected => Rejected')
  BY <1>1 DEF Losing, Rejected, OthersSettled, LastAt, Last
<1>8. Writing(q) => Writing(q)'
  BY <1>1, <1>5 DEF Writing, OthersSettled, LastAt, Last
<1>9. ASSUME NEW pc, NEW at, NEW n
      PROVE  /\ Waiting(q, pc, at, n) => Waiting(q, pc, at, n)'
             /\ GotBytes(q, pc, at, n) => GotBytes(q, pc, at, n)'
  BY <1>1, <1>5 DEF Waiting, GotBytes, OthersSettled, LastAt, Last
<1>10. Phase(q)'
  BY <1>6, <1>7, <1>8, <1>9, Zenon DEF Phase
<1>11. \A i \in 1..Len(answers) : i \in 1..Len(answers') /\ answers'[i] = answers[i]
  BY <1>2, <1>3, <1>4
<1> QED
  BY <1>10, <1>11

\* The codes an application that awaits every call got, and where it is.
AwaitedCodes == ~overlapped => \A k \in 1..Len(calls) :
  /\ calls[k].out \in {"none", "code", "refused", "write", "eof"}
  /\ calls[k].out = "code" => answers[calls[k].n] = k
AllInv == FramedInv /\ AwaitedInv /\ AwaitedCodes

\* Once a call overlapped another, it stays so.
LEMMA OverlapStays ==
  ASSUME TypeOK, [Next]_vars PROVE overlapped => overlapped'
<1>1. CASE Call \/ CallRefused
  BY <1>1 DEF Call, CallRefused, MayStart
<1>2. CASE ClientLoop \/ Chunk \/ End \/ ServerNext \/ UNCHANGED vars
  BY <1>2 DEF ClientLoop, WriteDone, WriteFails, Continuation, GotPrefix, GotBody,
    ReadRejected, Chunk, End, ServerNext, ServerAnswers, ServerDenies, ServerThrows, Answer,
    clientVars, vars
<1> QED
  BY <1>1, <1>2 DEF Next, Application

\* The codes are right as long as calls settle with a code of their own or
\* none.
LEMMA CodesStay ==
  ASSUME FramedInv, AwaitedCodes, overlapped => overlapped', Len(calls) <= Len(calls'),
         Len(calls') \in Nat,
         \A i \in 1..Len(answers) : answers'[i] = answers[i],
         \A k \in 1..Len(calls') :
           \/ k \in 1..Len(calls) /\ calls'[k].out = calls[k].out /\ calls'[k].n = calls[k].n
           \/ calls'[k].out \in {"none", "refused", "write", "eof"}
           \/ calls'[k].out = "code" /\ answers'[calls'[k].n] = k
  PROVE  AwaitedCodes'
<1>1. ASSUME NEW k \in 1..Len(calls), calls[k].out = "code"
      PROVE  calls[k].n \in 1..Len(answers)
  <2>1. k \in DOMAIN calls /\ Len(answers) \in Nat
    BY LenProperties DEF FramedInv, TypeOK
  <2>2. /\ calls[k].n \in 1..recvSeq /\ FrameSize * recvSeq <= off
        /\ have <= FrameSize * Len(answers)
    BY <1>1, <2>1 DEF FramedInv, BytesInv
  <2>3. off \in Nat /\ have \in Nat /\ off <= have /\ recvSeq \in Nat
    BY DEF FramedInv, TypeOK
  <2>4. recvSeq <= Len(answers)
    <3> DEFINE m == Len(answers)
    <3> HIDE DEF m
    <3>1. 45 * recvSeq <= 45 * m
      BY <2>1, <2>2, <2>3 DEF m, FrameSize, PrefixSize, SealedResponse
    <3>2. m \in Nat
      BY <2>1 DEF m
    <3>3. recvSeq <= m
      BY <3>1, <3>2, <2>3
    <3> QED
      BY <3>3 DEF m
  <2> QED
    BY <2>1, <2>2, <2>3, <2>4
<1> SUFFICES ASSUME ~overlapped', NEW k \in 1..Len(calls')
             PROVE  /\ calls'[k].out \in {"none", "code", "refused", "write", "eof"}
                    /\ calls'[k].out = "code" => answers'[calls'[k].n] = k
  BY DEF AwaitedCodes
<1>2. CASE k \in 1..Len(calls) /\ calls'[k].out = calls[k].out /\ calls'[k].n = calls[k].n
  BY <1>1, <1>2 DEF AwaitedCodes
<1>3. CASE calls'[k].out \in {"none", "refused", "write", "eof"}
  BY <1>3
<1>4. CASE calls'[k].out = "code" /\ answers'[calls'[k].n] = k
  BY <1>4
<1> QED
  BY <1>2, <1>3, <1>4

\* A stage change keeps how the calls ended.
LEMMA StageKeeps ==
  ASSUME calls \in Seq(CallRec), NEW k, NEW pc, GoTo(k, pc)
  PROVE  /\ Len(calls') = Len(calls)
         /\ \A i \in 1..Len(calls) : calls'[i].out = calls[i].out /\ calls'[i].n = calls[i].n
<1>1. DOMAIN calls = 1..Len(calls) /\ Len(calls) \in Nat
  BY LenProperties
<1>2. \A i \in 1..Len(calls) : calls[i] \in CallRec
  BY ElementOfSeq
<1>3. calls' = [calls EXCEPT ![k].pc = pc]
  BY DEF GoTo
<1> QED
  BY <1>1, <1>2, <1>3 DEF CallRec

\* What every step of an application that awaits its calls keeps.
LEMMA AwaitedStep ==
  ASSUME AllInv, [Next]_vars, ~overlapped'
  PROVE  AwaitedInv' /\ AwaitedCodes'
<1>1. overlapped => overlapped'
  BY OverlapStays DEF AllInv, FramedInv
<1>2. FramedInv /\ AwaitedCodes /\ TypeOK /\ calls \in Seq(CallRec)
  BY TypeIs DEF AllInv, FramedInv
<1>3. PICK q \in 0..Len(answers) : Phase(q)
  BY <1>1 DEF AllInv, AwaitedInv
<1>4. Len(calls) \in Nat /\ DOMAIN calls = 1..Len(calls) /\ Len(answers) \in Nat
  BY <1>2, LenProperties DEF TypeOK
<1>5. ASSUME answers' = answers, Phase(q)' PROVE AwaitedInv'
  BY <1>5 DEF AwaitedInv
<1>6. ASSUME answers' = answers, UNCHANGED calls PROVE AwaitedCodes'
  BY <1>1, <1>2, <1>4, <1>6, CodesStay
<1>7. CASE Chunk
  <2>1. answers' = answers /\ calls' = calls
    BY <1>7 DEF Chunk, serverVars
  <2> QED
    BY <2>1, <1>2, <1>3, <1>5, <1>6, <1>7, PhaseChunk
<1>8. CASE End
  <2>1. answers' = answers /\ calls' = calls
    BY <1>8 DEF End, serverVars
  <2> QED
    BY <2>1, <1>2, <1>3, <1>5, <1>6, <1>8, PhaseEnd
<1>9. CASE Call \/ CallRefused
  <2>1. PICK c \in CallRec : calls' = Append(calls, c) /\ c.out \in {"none", "refused"}
    <3>1. CASE Call
      <4> DEFINE c == [pc |-> IF ended THEN "lost" ELSE "write", out |-> "none", n |-> 0]
      <4>1. c \in CallRec /\ calls' = Append(calls, c) /\ c.out = "none"
        BY <3>1 DEF Call, CallRec
      <4> QED
        BY <4>1
    <3>2. CASE CallRefused
      <4> DEFINE c == [pc |-> "done", out |-> "refused", n |-> 0]
      <4>1. c \in CallRec /\ calls' = Append(calls, c) /\ c.out = "refused"
        BY <3>2 DEF CallRefused, CallRec
      <4> QED
        BY <4>1
    <3> QED
      BY <1>9, <3>1, <3>2
  <2>2. /\ Len(calls') = Len(calls) + 1 /\ calls'[Len(calls) + 1] = c
        /\ \A j \in 1..Len(calls) : calls'[j] = calls[j]
    BY <1>2, <2>1, AppendProperties
  <2>3. answers' = answers
    BY <1>9 DEF Call, CallRefused, serverVars
  <2>4. \A k \in 1..Len(calls') :
          \/ k \in 1..Len(calls) /\ calls'[k].out = calls[k].out /\ calls'[k].n = calls[k].n
          \/ calls'[k].out \in {"none", "refused", "write", "eof"}
    BY <1>4, <2>1, <2>2
  <2>5. Len(calls) <= Len(calls') /\ Len(calls') \in Nat
    BY <1>4, <2>2
  <2>6. AwaitedCodes'
    BY <2>3, <2>4, <2>5, <1>1, <1>2, CodesStay
  <2> QED
    BY <2>3, <2>6, <1>2, <1>3, <1>5, <1>9, PhaseCall, PhaseCallRefused
<1>10. CASE WriteDone \/ GotPrefix
  <2>1. answers' = answers
    BY <1>10 DEF WriteDone, GotPrefix, serverVars
  <2>2. Phase(q)'
    BY <1>2, <1>3, <1>10, PhaseWriteDone, PhaseGotPrefix
  <2>3. PICK k, pc : GoTo(k, pc)
    BY <1>2, <1>3, <1>10, PhaseGotPrefix DEF WriteDone
  <2>4. AwaitedCodes'
    BY <2>1, <2>3, <1>1, <1>2, <1>4, StageKeeps, CodesStay
  <2> QED
    BY <2>1, <2>2, <2>4, <1>5
<1>11. CASE WriteFails
  <2>1. answers' = answers
    BY <1>11 DEF WriteFails, serverVars
  <2>2. Phase(q)'
    BY <1>2, <1>3, <1>11, PhaseWriteFails
  <2>3. calls' = [k \in DOMAIN calls |->
          IF k = Head(writes) THEN [pc |-> "done", out |-> "write", n |-> 0]
          ELSE IF calls[k].pc = "write" THEN [calls[k] EXCEPT !.pc = "lost"]
          ELSE calls[k]]
    BY <1>11 DEF WriteFails
  <2>4. Len(calls') = Len(calls)
    BY <2>3, <1>4
  <2>5. \A k \in 1..Len(calls) : calls[k] \in CallRec
    BY <1>2, ElementOfSeq
  <2>6. \A k \in 1..Len(calls') :
          \/ k \in 1..Len(calls) /\ calls'[k].out = calls[k].out /\ calls'[k].n = calls[k].n
          \/ calls'[k].out \in {"none", "refused", "write", "eof"}
    BY <2>3, <2>4, <2>5, <1>4 DEF CallRec
  <2>7. AwaitedCodes'
    BY <2>1, <2>4, <2>6, <1>1, <1>2, <1>4, CodesStay
  <2> QED
    BY <2>1, <2>2, <2>7, <1>5
<1>12. ASSUME NEW n, answers' = answers, OthersSettled, Last > 0,
              \/ Settle(Last, "eof", n)
              \/ Settle(Last, "code", n) /\ answers[n] = Last
       PROVE  AwaitedCodes'
  <2>1. PICK out \in {"eof", "code"} :
          Settle(Last, out, n) /\ (out = "code" => answers[n] = Last)
    BY <1>12
  <2>2. /\ Last' = Last
        /\ calls'[Last] = [pc |-> "done", out |-> out, n |-> n]
        /\ \A j \in 1..Len(calls) : j # Last => calls'[j] = calls[j]
    BY <1>2, <1>12, <2>1, LastSettles
  <2>3. Len(calls') = Len(calls)
    BY <2>2 DEF Last
  <2>4. calls'[Last].out = out /\ calls'[Last].n = n
    BY <2>2
  <2>5. \A k \in 1..Len(calls') :
          \/ k \in 1..Len(calls) /\ calls'[k].out = calls[k].out /\ calls'[k].n = calls[k].n
          \/ calls'[k].out \in {"none", "refused", "write", "eof"}
          \/ calls'[k].out = "code" /\ answers'[calls'[k].n] = k
    <3> TAKE k \in 1..Len(calls')
    <3>1. CASE k = Last
      BY <3>1, <2>1, <2>4, <1>12
    <3>2. CASE k # Last
      BY <3>2, <2>2, <2>3
    <3> QED
      BY <3>1, <3>2
  <2> QED
    BY <2>3, <2>5, <1>1, <1>2, <1>4, <1>12, CodesStay
<1>13. CASE ReadRejected
  <2>1. answers' = answers
    BY <1>13 DEF ReadRejected, serverVars
  <2>2. Idle(q)' /\ OthersSettled /\ Last > 0 /\ Settle(Last, "eof", 0)
    BY <1>2, <1>3, <1>13, PhaseReadRejected
  <2>3. Phase(q)'
    BY <2>2 DEF Phase
  <2> QED
    BY <2>1, <2>2, <2>3, <1>5, <1>12
<1>14. CASE GotBody
  <2>1. answers' = answers
    BY <1>14 DEF GotBody, serverVars
  <2>2. /\ q + 1 \in 0..Len(answers') /\ Idle(q + 1)'
        /\ answers[q + 1] = Last /\ Settle(Last, "code", q + 1) /\ Last > 0 /\ OthersSettled
    BY <1>2, <1>3, <1>14, PhaseGotBody
  <2>3. Phase(q + 1)'
    BY <2>2 DEF Phase
  <2>4. AwaitedInv'
    BY <2>2, <2>3 DEF AwaitedInv
  <2> QED
    BY <2>1, <2>2, <2>4, <1>12
<1>15. CASE ServerNext \/ UNCHANGED vars
  <2>1. /\ Phase(q)'
        /\ \A i \in 1..Len(answers) : i \in 1..Len(answers') /\ answers'[i] = answers[i]
    BY <1>2, <1>3, <1>15, PhaseServer
  <2>2. calls' = calls
    BY <1>15 DEF ServerNext, ServerAnswers, ServerDenies, ServerThrows, Answer, clientVars, vars
  <2>3. AwaitedCodes'
    BY <2>1, <2>2, <1>1, <1>2, <1>4, CodesStay
  <2>4. q \in 0..Len(answers')
    <3>1. answers' \in Seq(Nat)
      BY <1>2, <1>15, StepServer DEF FramedInv, TypeOK
    <3>2. Len(answers') \in Nat
      BY <3>1, LenProperties
    <3>3. q = 0 \/ q \in 1..Len(answers)
      BY <1>4
    <3> QED
      BY <2>1, <3>2, <3>3
  <2> QED
    BY <2>1, <2>3, <2>4 DEF AwaitedInv
<1> QED
  BY <1>7, <1>8, <1>9, <1>10, <1>11, <1>13, <1>14, <1>15
     DEF Next, ClientLoop, Continuation, Application

LEMMA InitAwaited == Init => AwaitedInv /\ AwaitedCodes
<1> SUFFICES ASSUME Init PROVE AwaitedInv /\ AwaitedCodes
  OBVIOUS
<1>1. /\ calls = <<>> /\ writes = <<>> /\ waiters = <<>> /\ ready = <<>> /\ off = 0
      /\ inbox = <<>> /\ answers = <<>> /\ Len(<<>>) = 0
  BY DEF Init
<1>2. Idle(0)
  BY <1>1 DEF Idle, Last, FrameSize, PrefixSize, SealedResponse
<1>3. AwaitedInv
  BY <1>1, <1>2 DEF AwaitedInv, Phase
<1>4. AwaitedCodes
  BY <1>1 DEF AwaitedCodes
<1> QED
  BY <1>3, <1>4

\* The invariant of an application that awaits every call.
THEOREM AwaitedInvariant == Spec => []AllInv
<1>1. AllInv /\ [Next]_vars => AllInv'
  <2> SUFFICES ASSUME AllInv, [Next]_vars PROVE AllInv'
    OBVIOUS
  <2>1. FramedInv'
    BY FramedStep DEF AllInv
  <2>2. CASE ~overlapped'
    BY <2>1, <2>2, AwaitedStep DEF AllInv
  <2>3. CASE overlapped'
    BY <2>1, <2>3 DEF AllInv, AwaitedInv, AwaitedCodes
  <2> QED
    BY <2>2, <2>3
<1>2. Init => AllInv
  BY InitFramed, InitAwaited DEF AllInv
<1> QED
  BY <1>1, <1>2, PTL DEF Spec

\* The two promises to such an application are consequences.
LEMMA AwaitedKeeps == AllInv => AwaitedInStep /\ OwnCode
<1> SUFFICES ASSUME AllInv PROVE AwaitedInStep /\ OwnCode
  OBVIOUS
<1>1. DOMAIN calls = 1..Len(calls)
  BY LenProperties DEF AllInv, FramedInv, TypeOK
<1> QED
  BY <1>1 DEF AllInv, AwaitedCodes, AwaitedInStep, OwnCode

\* However the bytes are cut into chunks, a client whose application awaits
\* every call never takes other bytes for a frame: no call of it fails on a
\* size, a seal or a replay (FramedConn, ClientV2._send).
THEOREM AwaitedCallsStayInStep == Spec => []AwaitedInStep
<1> QED
  BY AwaitedInvariant, AwaitedKeeps, PTL

\* And the code each of its calls returns is the one the server gave for the
\* message of that call.
THEOREM AwaitedCallsOwnCode == Spec => []OwnCode
<1> QED
  BY AwaitedInvariant, AwaitedKeeps, PTL
=============================================================================
