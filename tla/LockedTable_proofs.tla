------------------------- MODULE LockedTable_proofs -------------------------
(***************************************************************************)
(* Theorems about LockedTable: the map is never written while it is read,  *)
(* a code has one winner, and the calls are linearizable, for any number   *)
(* of goroutines, calls, codes and names.                                  *)
(***************************************************************************)
EXTENDS LockedTable, TLAPS

\* Where a goroutine holds the lock it asked for.
Holding == {"in", "store", "out"}

\* The lock, seen from the goroutines: who holds it, who waits, and that the
\* readers left before a writer went in.
LockInv ==
  /\ \A p \in Procs : writer = p <=> \/ pc[p] = "drain"
                                     \/ pc[p] \in Holding /\ IsExclusive(p)
  /\ \A p \in Procs : p \in readers <=> pc[p] \in Holding /\ ~IsExclusive(p)
  /\ \A p \in Procs : p \in parked <=> pc[p] = "parked"
  /\ \A p \in Procs : pc[p] \in {"drain", "store"} => IsExclusive(p)
  /\ \A p \in Procs : pc[p] = "parked" => ~IsExclusive(p)
  /\ \A p \in Procs :
       writer = p /\ pc[p] # "drain" => \A q \in Procs : q \notin readers

\* What a goroutine under the lock found out still holds: the code it is about
\* to store has no entry, and no code its loop passed has the name.
FoundInv ==
  /\ \A p \in Procs : pc[p] # "idle" => call[p] \in Atomic!Calls
  /\ \A p \in Procs : pc[p] = "store" => /\ call[p].op = "NewMT"
                                         /\ table[call[p].code] = Absent
  /\ \A p \in Procs : \A code \in seen[p] :
       /\ pc[p] \in {"in", "out"} /\ call[p].op = "StringToTypeV2"
       /\ table[code] # call[p].entry

WonInv == won # {} => kind = "types"

Inv == TypeOK /\ LockInv /\ FoundInv /\ WonInv

-----------------------------------------------------------------------------
LEMMA InitInv == Init => Inv
<1> SUFFICES ASSUME Init PROVE Inv
  OBVIOUS
<1> USE DEF Init, Atomic!Init
<1>1. TypeOK
  BY BuiltInAssumption, AbsentAssumption
     DEF TypeOK, Atomic!mtRegistry, Atomic!handlers, Results
<1>2. LockInv
  BY NoProcAssumption DEF LockInv, Holding
<1>3. FoundInv /\ WonInv
  BY DEF FoundInv, WonInv
<1> QED
  BY <1>1, <1>2, <1>3 DEF Inv

\* A step in the middle of a call leaves the mutex alone: the goroutine stays
\* where it holds the lock.
LEMMA StepTypes ==
  ASSUME TypeOK, FoundInv, NEW p \in Procs, Step(p)
  PROVE  TypeOK'
<1> USE DEF TypeOK, FoundInv, Results, GoTo, lockVars, Atomic!Calls
<1>1. CASE Lock(p) BY <1>1 DEF Lock
<1>2. CASE LockGranted(p) BY <1>2 DEF LockGranted
<1>3. CASE RLock(p) BY <1>3 DEF RLock
<1>4. CASE Leave(p)
  <2> USE <1>4 DEF Leave, Returned
  <2>1. call' \in [Procs -> Atomic!Calls \cup {Atomic!NoCall}] OBVIOUS
  <2>2. result' \in [Procs -> Results] OBVIOUS
  <2>3. seen' \in [Procs -> SUBSET Codes] OBVIOUS
  <2>4. CASE IsExclusive(p) BY <2>1, <2>2, <2>3, <2>4 DEF Unlock
  <2>5. CASE ~IsExclusive(p) BY <2>1, <2>2, <2>3, <2>5 DEF RUnlock
  <2> QED BY <2>4, <2>5
<1>5. CASE NewMTChecks(p) BY <1>5 DEF NewMTChecks, Answer, Inside
<1>6. CASE NewMTStores(p)
  <2>1. call[p].code \in Codes /\ call[p].entry \in Entries
    BY <1>6 DEF NewMTStores, Atomic!Calls, Atomic!TypeCalls, Atomic!HandlerCalls
  <2> QED BY <1>6, <2>1 DEF NewMTStores, Answer
<1>7. CASE RegisterHandler(p)
  <2>1. call[p].code \in Codes /\ call[p].entry \in Entries
    BY <1>7 DEF RegisterHandler, Inside, Atomic!Calls, Atomic!TypeCalls,
                Atomic!HandlerCalls
  <2> QED BY <1>7, <2>1 DEF RegisterHandler, Answer
<1>8. CASE LookupMT(p)
  <2>1. call[p].code \in Codes
    BY <1>8 DEF LookupMT, Inside, Atomic!Calls, Atomic!TypeCalls,
                Atomic!HandlerCalls
  <2> QED BY <1>8, <2>1 DEF LookupMT, Answer
<1>9. CASE TypeToStringV2(p)
  <2>1. call[p].code \in Codes
    BY <1>9 DEF TypeToStringV2, Inside, Atomic!Calls, Atomic!TypeCalls,
                Atomic!HandlerCalls
  <2> QED BY <1>9, <2>1 DEF TypeToStringV2, Answer
<1>10. CASE NextCode(p) BY <1>10 DEF NextCode, Answer, Unseen
<1>11. CASE NoMoreCodes(p) BY <1>11 DEF NoMoreCodes, Answer
<1> QED
  BY <1>1, <1>2, <1>3, <1>4, <1>5, <1>6, <1>7, <1>8, <1>9, <1>10, <1>11
     DEF Step, Locking, Accessing

\* The steps on the map.
LEMMA AccessKeepsLock ==
  ASSUME TypeOK, LockInv, FoundInv, NEW p \in Procs, Accessing(p)
  PROVE  /\ LockInv'
         /\ UNCHANGED <<kind, lockVars, call, made>>
         /\ pc' \in {[pc EXCEPT ![p] = "store"], [pc EXCEPT ![p] = "out"], pc}
         /\ pc[p] \in {"in", "store"}
         /\ table' # table => IsExclusive(p)
<1>1. /\ UNCHANGED <<kind, lockVars, call, made>>
      /\ pc[p] \in {"in", "store"}
      /\ pc' \in {[pc EXCEPT ![p] = "store"], [pc EXCEPT ![p] = "out"], pc}
      /\ pc'[p] = "store" => IsExclusive(p)
      /\ table' # table => IsExclusive(p)
  <2> USE DEF TypeOK, LockInv, FoundInv, Inside, Answer, GoTo, lockVars,
              IsExclusive, Exclusive
  <2>1. CASE NewMTChecks(p) BY <2>1 DEF NewMTChecks
  <2>2. CASE NewMTStores(p) BY <2>2 DEF NewMTStores
  <2>3. CASE RegisterHandler(p) BY <2>3 DEF RegisterHandler
  <2>4. CASE LookupMT(p) BY <2>4 DEF LookupMT
  <2>5. CASE TypeToStringV2(p) BY <2>5 DEF TypeToStringV2
  <2>6. CASE NextCode(p) BY <2>6 DEF NextCode
  <2>7. CASE NoMoreCodes(p) BY <2>7 DEF NoMoreCodes
  <2> QED BY <2>1, <2>2, <2>3, <2>4, <2>5, <2>6, <2>7 DEF Accessing
<1>2. LockInv'
  BY <1>1 DEF LockInv, TypeOK, Holding, lockVars, IsExclusive
<1> QED BY <1>1, <1>2

\* The steps on the mutex.
LEMMA LockingKeepsLock ==
  ASSUME TypeOK, LockInv, FoundInv, NEW p \in Procs, Locking(p)
  PROVE  LockInv'
<1> USE NoProcAssumption DEF TypeOK, Holding, GoTo
<1>1. CASE Lock(p) BY <1>1 DEF Lock, LockInv, IsExclusive
<1>2. CASE LockGranted(p)
  BY <1>2 DEF LockGranted, LockInv, IsExclusive, lockVars
<1>3. CASE RLock(p) BY <1>3 DEF RLock, LockInv, IsExclusive
<1>4. CASE Leave(p)
  <2> DEFINE rest == Procs \ {p}
  <2>1. /\ pc[p] = "out" /\ pc'[p] = "idle"
        /\ \A q \in rest : call'[q] = call[q]
    BY <1>4 DEF Leave, Returned, Unlock, RUnlock
  <2>2. \A q \in rest : IsExclusive(q)' <=> IsExclusive(q)
    BY <2>1 DEF IsExclusive
  <2>3. CASE IsExclusive(p)
    <3>1. /\ writer = p /\ writer' = NoProc /\ readers' = parked /\ parked' = {}
          /\ \A q \in rest : pc'[q] = IF q \in parked THEN "in" ELSE pc[q]
      BY <1>4, <2>1, <2>3 DEF Leave, Unlock, LockInv
    <3>2. \A q \in rest : q \notin readers /\ q # writer
      BY <2>1, <3>1 DEF LockInv
    <3>3. p \notin parked
      BY <2>1 DEF LockInv
    <3> QED BY <2>1, <2>2, <3>1, <3>2, <3>3 DEF LockInv
  <2>4. CASE ~IsExclusive(p)
    <3>1. /\ writer' = writer /\ readers' = readers \ {p} /\ parked' = parked
          /\ \A q \in rest : pc'[q] = pc[q]
      BY <1>4, <2>4 DEF Leave, RUnlock
    <3>2. writer # p /\ p \notin parked
      BY <2>1, <2>4 DEF LockInv
    <3> QED BY <2>1, <2>2, <3>1, <3>2 DEF LockInv
  <2> QED BY <2>3, <2>4
<1> QED BY <1>1, <1>2, <1>3, <1>4 DEF Locking

\* Whoever is at the map together with a writer is that writer.
LEMMA WriterAlone ==
  ASSUME LockInv, NEW p \in Procs, NEW q \in Procs, p # q,
         pc[p] \in Holding, IsExclusive(p)
  PROVE  pc[q] \notin Holding
BY DEF LockInv, Holding

\* A new call.
LEMMA CallKeepsInv ==
  ASSUME TypeOK, LockInv, FoundInv, WonInv, NEW p \in Procs, Call(p)
  PROVE  TypeOK' /\ LockInv' /\ FoundInv' /\ WonInv'
<1>1. /\ pc[p] = "idle" /\ pc' = [pc EXCEPT ![p] = "lock"]
      /\ call'[p] \in Atomic!Calls
      /\ \A q \in Procs \ {p} : call'[q] = call[q]
      /\ UNCHANGED <<kind, table, lockVars, result, seen, won>>
  BY DEF Call, GoTo, TypeOK
<1>2. TypeOK'
  BY DEF Call, GoTo, TypeOK, lockVars, Results, Atomic!Calls
<1>3. \A q \in Procs \ {p} : IsExclusive(q)' <=> IsExclusive(q)
  BY <1>1 DEF IsExclusive
<1>4. LockInv'
  BY <1>1, <1>3 DEF LockInv, TypeOK, Holding, lockVars
<1>5. Atomic!Calls' = Atomic!Calls
  BY <1>1 DEF Atomic!Calls
<1>6. FoundInv'
  BY <1>1, <1>5 DEF FoundInv, TypeOK
<1>7. WonInv'
  BY <1>1 DEF WonInv
<1> QED BY <1>2, <1>4, <1>6, <1>7

\* A step on the mutex does not touch what the goroutines found out.
LEMMA LockingKeepsFound ==
  ASSUME TypeOK, LockInv, FoundInv, NEW p \in Procs, Locking(p)
  PROVE  FoundInv' /\ UNCHANGED <<kind, table, won>>
<1> USE DEF TypeOK, GoTo, lockVars
<1>1. UNCHANGED <<kind, table, won>> /\ Atomic!Calls' = Atomic!Calls
  BY DEF Locking, Lock, LockGranted, RLock, Leave, Atomic!Calls
<1>2. CASE Lock(p) BY <1>1, <1>2 DEF Lock, FoundInv
<1>3. CASE LockGranted(p) BY <1>1, <1>3 DEF LockGranted, FoundInv
<1>4. CASE RLock(p) BY <1>1, <1>4 DEF RLock, FoundInv
<1>5. CASE Leave(p)
  <2>1. /\ pc'[p] = "idle" /\ seen'[p] = {}
        /\ \A q \in Procs \ {p} : call'[q] = call[q] /\ seen'[q] = seen[q]
    BY <1>5 DEF Leave, Returned, Unlock, RUnlock
  <2>2. \A q \in Procs \ {p} : \/ pc'[q] = pc[q]
                               \/ pc[q] = "parked" /\ pc'[q] = "in"
    BY <1>5 DEF Leave, Unlock, RUnlock, LockInv
  <2> QED BY <1>1, <2>1, <2>2 DEF FoundInv
<1> QED BY <1>1, <1>2, <1>3, <1>4, <1>5 DEF Locking

\* A step on the map: the goroutine that writes is alone with it.
LEMMA AccessKeepsFound ==
  ASSUME TypeOK, LockInv, FoundInv, NEW p \in Procs, Accessing(p)
  PROVE  FoundInv'
<1>1. /\ UNCHANGED <<kind, call>>
      /\ pc' \in {[pc EXCEPT ![p] = "store"], [pc EXCEPT ![p] = "out"], pc}
      /\ pc[p] \in {"in", "store"}
      /\ table' # table => IsExclusive(p)
  BY AccessKeepsLock
<1>2. Atomic!Calls' = Atomic!Calls
  BY <1>1 DEF Atomic!Calls
<1>3. table' # table =>
        \A q \in Procs \ {p} : pc[q] \notin Holding /\ seen[q] = {}
  BY <1>1, WriterAlone DEF Holding, FoundInv, TypeOK
<1>4. \A q \in Procs \ {p} : pc'[q] = pc[q] /\ seen'[q] = seen[q]
  BY <1>1 DEF TypeOK, Accessing, NewMTChecks, NewMTStores, RegisterHandler,
              LookupMT, TypeToStringV2, NextCode, NoMoreCodes
<1>5. pc'[p] = "store" => call[p].op = "NewMT" /\ table'[call[p].code] = Absent
  BY DEF TypeOK, FoundInv, Accessing, NewMTChecks, NewMTStores, RegisterHandler,
         LookupMT, TypeToStringV2, NextCode, NoMoreCodes, Inside, Answer, GoTo
<1>6. \A code \in seen'[p] : /\ pc'[p] \in {"in", "out"}
                             /\ call[p].op = "StringToTypeV2"
                             /\ table'[code] # call[p].entry
  <2> USE DEF TypeOK, FoundInv, Inside, Answer, GoTo
  <2>1. CASE NewMTChecks(p) BY <2>1 DEF NewMTChecks
  <2>2. CASE NewMTStores(p) BY <2>2 DEF NewMTStores
  <2>3. CASE RegisterHandler(p) BY <2>3 DEF RegisterHandler
  <2>4. CASE LookupMT(p) BY <2>4 DEF LookupMT
  <2>5. CASE TypeToStringV2(p) BY <2>5 DEF TypeToStringV2
  <2>6. CASE NextCode(p) BY <2>6 DEF NextCode, Unseen
  <2>7. CASE NoMoreCodes(p) BY <2>7 DEF NoMoreCodes
  <2> QED BY <2>1, <2>2, <2>3, <2>4, <2>5, <2>6, <2>7 DEF Accessing
<1>7. \A q \in Procs : pc'[q] # "idle" => pc[q] # "idle"
  BY <1>1 DEF TypeOK
<1>8. \A q \in Procs : pc'[q] # "idle" => call'[q] \in Atomic!Calls'
  BY <1>1, <1>2, <1>7 DEF FoundInv
<1>9. \A q \in Procs : pc'[q] = "store" => /\ call'[q].op = "NewMT"
                                          /\ table'[call'[q].code] = Absent
  BY <1>1, <1>3, <1>4, <1>5 DEF FoundInv, Holding
<1>10. \A q \in Procs : \A code \in seen'[q] :
         /\ pc'[q] \in {"in", "out"} /\ call'[q].op = "StringToTypeV2"
         /\ table'[code] # call'[q].entry
  <2> SUFFICES ASSUME NEW q \in Procs, NEW code \in seen'[q]
               PROVE  /\ pc'[q] \in {"in", "out"}
                      /\ call'[q].op = "StringToTypeV2"
                      /\ table'[code] # call'[q].entry
    OBVIOUS
  <2>1. CASE q = p BY <1>1, <1>6, <2>1
  <2>2. CASE q # p BY <1>1, <1>3, <1>4, <2>2 DEF FoundInv
  <2> QED BY <2>1, <2>2
<1> QED BY <1>8, <1>9, <1>10 DEF FoundInv

\* Handlers are replaced, types are not: a step on the map leaves an entry in
\* place, or the table is one of handlers, where NewMT is not called.
LEMMA TableGrows ==
  ASSUME TypeOK, FoundInv, NEW p \in Procs, Accessing(p)
  PROVE  /\ kind = "types" =>
              \A code \in Codes : table[code] # Absent => table'[code] = table[code]
         /\ won' = won \/ /\ pc[p] = "store" /\ kind = "types"
                          /\ call[p].code \in Codes
                          /\ table[call[p].code] = Absent
                          /\ table'[call[p].code] = call[p].entry
                          /\ won' = won \cup {[nth |-> made, by |-> p,
                                               code |-> call[p].code,
                                               entry |-> call[p].entry]}
<1> USE DEF TypeOK, FoundInv
<1>1. CASE NewMTStores(p)
  <2>1. call[p] \in Atomic!Calls /\ call[p].op = "NewMT"
        /\ table[call[p].code] = Absent
    BY <1>1 DEF NewMTStores
  <2>2. kind = "types" /\ call[p].code \in Codes /\ call[p].entry \in Entries
    BY <2>1 DEF Atomic!Calls, Atomic!TypeCalls, Atomic!HandlerCalls
  <2> QED BY <1>1, <2>1, <2>2 DEF NewMTStores
<1>2. CASE RegisterHandler(p)
  <2>1. call[p] \in Atomic!Calls /\ call[p].op = "RegisterHandler"
    BY <1>2 DEF RegisterHandler, Inside
  <2>2. kind # "types"
    BY <2>1 DEF Atomic!Calls, Atomic!TypeCalls
  <2> QED BY <1>2, <2>2 DEF RegisterHandler
<1>3. CASE NewMTChecks(p) \/ LookupMT(p) \/ TypeToStringV2(p) \/ NextCode(p)
           \/ NoMoreCodes(p)
  BY <1>3 DEF NewMTChecks, LookupMT, TypeToStringV2, NextCode, NoMoreCodes
<1> QED BY <1>1, <1>2, <1>3 DEF Accessing

LEMMA StepKeepsInv ==
  ASSUME Inv, NEW p \in Procs, Step(p)
  PROVE  Inv'
<1> USE DEF Inv
<1>1. TypeOK'
  BY StepTypes
<1>2. CASE Locking(p)
  <2>1. WonInv' BY <1>2, LockingKeepsFound DEF WonInv
  <2> QED BY <1>1, <1>2, <2>1, LockingKeepsLock, LockingKeepsFound
<1>3. CASE Accessing(p)
  <2>1. WonInv' BY <1>3, TableGrows, AccessKeepsLock DEF WonInv
  <2> QED BY <1>1, <1>3, <2>1, AccessKeepsLock, AccessKeepsFound
<1> QED BY <1>2, <1>3 DEF Step

LEMMA NextInv == Inv /\ [Next]_vars => Inv'
<1> SUFFICES ASSUME Inv, [Next]_vars PROVE Inv'
  OBVIOUS
<1>1. CASE UNCHANGED vars
  BY <1>1 DEF vars, lockVars, Inv, TypeOK, LockInv, FoundInv, WonInv, IsExclusive,
              Atomic!Calls, Results
<1>2. ASSUME NEW p \in Procs, Call(p) PROVE Inv'
  BY <1>2, CallKeepsInv DEF Inv
<1>3. ASSUME NEW p \in Procs, Step(p) PROVE Inv'
  BY <1>3, StepKeepsInv
<1> QED BY <1>1, <1>2, <1>3 DEF Next

LEMMA Invariance == Spec => []Inv
<1> QED BY InitInv, NextInv, PTL DEF Spec

\* The map of mtRegistry (mt_v2.go:25-80) and the map of handlers
\* (server_v2.go:48-59) are never read or written while another goroutine
\* writes them.
THEOREM NoConcurrentMapAccess == Spec => []MapExclusive
<1>1. Inv => MapExclusive
  <2> SUFFICES ASSUME Inv, NEW p \in Procs, NEW q \in Procs,
                      AtMap(p), AtMap(q), call[p].op \in Writing
               PROVE  p = q
    BY DEF MapExclusive
  <2>1. IsExclusive(p) /\ pc[p] \in Holding /\ pc[q] \in Holding
    BY DEF AtMap, Writing, IsExclusive, Exclusive, Holding
  <2> QED BY <2>1, WriterAlone DEF Inv
<1> QED BY <1>1, Invariance, PTL

\* Where the entries of won are in the table.
LEMMA WinnerStep == Inv /\ OneWinner /\ [Next]_vars => OneWinner'
<1> SUFFICES ASSUME Inv, OneWinner, [Next]_vars PROVE OneWinner'
  OBVIOUS
<1> USE DEF Inv
<1>1. CASE UNCHANGED <<kind, table, won>>
  BY <1>1 DEF OneWinner
<1>2. CASE UNCHANGED vars
  BY <1>1, <1>2 DEF vars
<1>3. ASSUME NEW p \in Procs, Call(p) PROVE OneWinner'
  BY <1>1, <1>3 DEF Call
<1>4. ASSUME NEW p \in Procs, Locking(p) PROVE OneWinner'
  BY <1>1, <1>4, LockingKeepsFound
<1>5. ASSUME NEW p \in Procs, Accessing(p) PROVE OneWinner'
  <2>1. kind' = kind
    BY <1>5, AccessKeepsLock
  <2>2. \A w \in won : w.code \in Codes /\ w.entry \in Entries
    BY DEF TypeOK
  <2>3. \A code \in DOMAIN BuiltInName :
          code \in Codes /\ BuiltInName[code] \in Entries
    BY BuiltInAssumption
  <2>4. CASE won = {} /\ won' = won
    <3>1. kind = "types" => \A code \in DOMAIN BuiltInName :
                              table'[code] = BuiltInName[code]
      BY <1>5, <2>3, TableGrows, AbsentAssumption DEF OneWinner
    <3> QED BY <2>1, <2>4, <3>1 DEF OneWinner
  <2>5. CASE won # {} \/ won' # won
    <3>1. kind = "types"
      BY <1>5, <2>5, TableGrows DEF WonInv
    <3>2. \A code \in Codes : table[code] # Absent => table'[code] = table[code]
      BY <1>5, <3>1, TableGrows
    <3>3. \A w \in won : table'[w.code] = w.entry
      BY <2>2, <3>2, AbsentAssumption DEF OneWinner
    <3>4. \A code \in DOMAIN BuiltInName : table'[code] = BuiltInName[code]
      BY <2>3, <3>1, <3>2, AbsentAssumption DEF OneWinner
    <3>5. CASE won' = won
      BY <2>1, <3>3, <3>4, <3>5 DEF OneWinner
    <3>6. CASE won' # won
      <4> DEFINE new == [nth |-> made, by |-> p, code |-> call[p].code,
                         entry |-> call[p].entry]
      <4>1. /\ won' = won \cup {new}
            /\ table[new.code] = Absent /\ table'[new.code] = new.entry
        BY <1>5, <3>6, TableGrows
      <4>2. \A w \in won : w.code # new.code
        BY <2>2, <4>1, AbsentAssumption DEF OneWinner
      <4>3. \A code \in DOMAIN BuiltInName : code # new.code
        BY <2>3, <3>1, <4>1, AbsentAssumption DEF OneWinner
      <4> HIDE DEF new
      <4>4. \A w \in won' : table'[w.code] = w.entry
        BY <3>3, <4>1
      <4>5. \A v, w \in won' : v.code = w.code => v = w
        BY <4>1, <4>2 DEF OneWinner
      <4>6. \A code \in DOMAIN BuiltInName : \A w \in won' : w.code # code
        BY <3>1, <4>1, <4>3 DEF OneWinner
      <4> QED BY <3>4, <4>4, <4>5, <4>6 DEF OneWinner
    <3> QED BY <3>5, <3>6
  <2> QED BY <2>4, <2>5
<1> QED BY <1>2, <1>3, <1>4, <1>5 DEF Next, Step

\* NewMT (mt_v2.go:39-48): of the goroutines that race for a code one is told
\* true, and its type stays, as the built-in types do.
THEOREM Winner == Spec => []OneWinner
<1>1. Init => OneWinner
  BY BuiltInAssumption
     DEF Init, Atomic!Init, Atomic!mtRegistry, OneWinner
<1> QED BY <1>1, Invariance, WinnerStep, PTL DEF Spec

-----------------------------------------------------------------------------
(* The refinement: a call takes effect at its last step on the map.        *)

\* What a goroutine that stays where it is shows to the abstract table.
LEMMA SamePhase ==
  ASSUME \A q \in Procs : Phase(pc'[q]) = Phase(pc[q])
  PROVE  [q \in Procs |-> Phase(pc[q])]' = [q \in Procs |-> Phase(pc[q])]
OBVIOUS

LEMMA LockingRefines ==
  ASSUME Inv, NEW p \in Procs, Locking(p)
  PROVE  Atomic!Return(p) \/ UNCHANGED Atomic!vars
<1> USE DEF Inv, TypeOK, GoTo, Phase
<1>1. CASE Lock(p)
  BY <1>1, SamePhase DEF Lock, Atomic!vars
<1>2. CASE LockGranted(p)
  BY <1>2, SamePhase DEF LockGranted, Atomic!vars
<1>3. CASE RLock(p)
  BY <1>3, SamePhase DEF RLock, Atomic!vars
<1>4. CASE Leave(p)
  <2>1. \A q \in Procs : Phase(pc'[q]) = IF q = p THEN "idle" ELSE Phase(pc[q])
    <3>1. CASE IsExclusive(p)
      BY <1>4, <3>1 DEF Leave, Unlock, LockInv
    <3>2. CASE ~IsExclusive(p)
      BY <1>4, <3>2 DEF Leave, RUnlock
    <3> QED BY <3>1, <3>2
  <2>2. [q \in Procs |-> Phase(pc[q])]'
          = [[q \in Procs |-> Phase(pc[q])] EXCEPT ![p] = "idle"]
    BY <2>1
  <2> QED BY <1>4, <2>2 DEF Leave, Returned, Atomic!Return
<1> QED BY <1>1, <1>2, <1>3, <1>4 DEF Locking

\* A step on the map that gives its call a result.
LEMMA Answers ==
  ASSUME Inv, NEW p \in Procs, NEW r, pc[p] \in {"in", "store"}, Answer(p, r),
         UNCHANGED <<kind, call>>,
         Atomic!Outcome(table', r) \in Atomic!Outcomes(table, call[p])
  PROVE  Atomic!TakeEffect(p)
<1>1. [q \in Procs |-> Phase(pc[q])]'
        = [[q \in Procs |-> Phase(pc[q])] EXCEPT ![p] = "done"]
  BY DEF Inv, TypeOK, Answer, GoTo, Phase
<1>2. Phase(pc[p]) = "called"
  BY DEF Phase
<1>3. /\ table' = Atomic!Outcome(table', r).table
      /\ result' = [result EXCEPT ![p] = Atomic!Outcome(table', r).result]
  BY DEF Answer, Atomic!Outcome
<1> QED BY <1>1, <1>2, <1>3 DEF Atomic!TakeEffect

LEMMA AccessRefines ==
  ASSUME Inv, NEW p \in Procs, Accessing(p)
  PROVE  Atomic!TakeEffect(p) \/ UNCHANGED Atomic!vars
<1> USE DEF Inv, TypeOK, Inside
<1>1. /\ UNCHANGED <<kind, call>> /\ pc[p] \in {"in", "store"}
      /\ call[p] \in Atomic!Calls
  BY AccessKeepsLock DEF FoundInv
<1>2. CASE NewMTChecks(p)
  <2>1. call[p].code \in Codes
    BY <1>1, <1>2 DEF NewMTChecks, Atomic!Calls, Atomic!TypeCalls,
                      Atomic!HandlerCalls
  <2>2. CASE table[call[p].code] # Absent
    <3>1. Atomic!Outcome(table', "false") \in Atomic!Outcomes(table, call[p])
      BY <1>2, <2>1, <2>2 DEF NewMTChecks, Atomic!Outcomes, Atomic!NewMT,
                              Atomic!Present
    <3> QED BY <1>1, <1>2, <2>2, <3>1, Answers DEF NewMTChecks
  <2>3. CASE table[call[p].code] = Absent
    <3>1. \A q \in Procs : Phase(pc'[q]) = Phase(pc[q])
      BY <1>2, <2>3 DEF NewMTChecks, GoTo, Phase
    <3> QED BY <1>2, <2>3, <3>1, SamePhase DEF NewMTChecks, Atomic!vars
  <2> QED BY <2>2, <2>3
<1>3. CASE NewMTStores(p)
  <2>1. /\ call[p].op = "NewMT" /\ table[call[p].code] = Absent
        /\ table' = [table EXCEPT ![call[p].code] = call[p].entry]
    BY <1>3 DEF NewMTStores, FoundInv
  <2>2. Atomic!Outcome(table', "true") \in Atomic!Outcomes(table, call[p])
    BY <2>1 DEF Atomic!Outcomes, Atomic!NewMT, Atomic!Present
  <2>3. Answer(p, "true")
    BY <1>3 DEF NewMTStores
  <2> QED BY <1>1, <2>2, <2>3, Answers
<1>4. CASE RegisterHandler(p)
  <2>1. Atomic!Outcome(table', "void") \in Atomic!Outcomes(table, call[p])
    BY <1>4 DEF RegisterHandler, Atomic!Outcomes, Atomic!RegisterHandler
  <2>2. Answer(p, "void")
    BY <1>4 DEF RegisterHandler
  <2> QED BY <1>1, <2>1, <2>2, Answers
<1>5. CASE LookupMT(p)
  <2>1. Atomic!Outcome(table', table[call[p].code])
          \in Atomic!Outcomes(table, call[p])
    BY <1>5 DEF LookupMT, Atomic!Outcomes, Atomic!LookupMT
  <2> QED BY <1>1, <1>5, <2>1, Answers DEF LookupMT
<1>6. CASE TypeToStringV2(p)
  <2> DEFINE r == IF table[call[p].code] # Absent THEN table[call[p].code]
                                                  ELSE Unknown
  <2>1. call[p].code \in Codes
    BY <1>1, <1>6 DEF TypeToStringV2, Atomic!Calls, Atomic!TypeCalls,
                      Atomic!HandlerCalls
  <2>2. Atomic!Outcome(table', r) \in Atomic!Outcomes(table, call[p])
    BY <1>6, <2>1 DEF TypeToStringV2, Atomic!Outcomes, Atomic!TypeToStringV2,
                      Atomic!Present
  <2> QED BY <1>1, <1>6, <2>2, Answers DEF TypeToStringV2
<1>7. CASE NextCode(p)
  <2>1. PICK code \in Unseen(p) :
          IF table[code] = call[p].entry
            THEN Answer(p, code) /\ UNCHANGED seen
            ELSE UNCHANGED <<pc, result>>
    BY <1>7 DEF NextCode
  <2>2. CASE table[code] = call[p].entry
    <3>1. code \in Codes /\ UNCHANGED table /\ call[p].op = "StringToTypeV2"
      BY <1>7, <2>1 DEF Unseen, NextCode
    <3>2. Atomic!Outcome(table', code) \in Atomic!Outcomes(table, call[p])
      BY <2>2, <3>1 DEF Atomic!Outcomes, Atomic!StringToTypeV2
    <3> QED BY <1>1, <2>1, <2>2, <3>2, Answers
  <2>3. CASE table[code] # call[p].entry
    <3>1. UNCHANGED <<pc, result, kind, table, call>>
      BY <1>7, <2>1, <2>3 DEF NextCode
    <3> QED BY <3>1, SamePhase DEF Atomic!vars
  <2> QED BY <2>2, <2>3
<1>8. CASE NoMoreCodes(p)
  <2>1. /\ UNCHANGED table /\ call[p].op = "StringToTypeV2"
        /\ call[p].entry \in Entries
    BY <1>1, <1>8 DEF NoMoreCodes, Atomic!Calls, Atomic!TypeCalls,
                      Atomic!HandlerCalls
  <2>2. {code \in Codes : table[code] = call[p].entry} = {}
    BY <1>8, <2>1, AbsentAssumption DEF NoMoreCodes, Unseen, FoundInv
  <2>3. Atomic!Outcome(table', Absent) \in Atomic!Outcomes(table, call[p])
    BY <2>1, <2>2 DEF Atomic!Outcomes, Atomic!StringToTypeV2
  <2> QED BY <1>1, <1>8, <2>3, Answers DEF NoMoreCodes
<1> QED BY <1>2, <1>3, <1>4, <1>5, <1>6, <1>7, <1>8 DEF Accessing

\* The tables under their mutex implement AtomicTable: NewMT, LookupMT,
\* TypeToStringV2 and StringToTypeV2 (mt_v2.go:39-80), RegisterHandler and
\* handler (server_v2.go:48-59) are linearizable, however their goroutines
\* interleave.
THEOREM TableImplements == Spec => Linearizable
<1>1. Init => Atomic!Init
  BY DEF Init, Atomic!Init, Phase
<1>2. Inv /\ [Next]_vars => [Atomic!Next]_(Atomic!vars)
  <2> SUFFICES ASSUME Inv, [Next]_vars PROVE [Atomic!Next]_(Atomic!vars)
    OBVIOUS
  <2>1. CASE UNCHANGED vars
    BY <2>1, SamePhase DEF vars, Atomic!vars
  <2>2. ASSUME NEW p \in Procs, Call(p) PROVE Atomic!Start(p)
    <3>1. [q \in Procs |-> Phase(pc[q])]'
            = [[q \in Procs |-> Phase(pc[q])] EXCEPT ![p] = "called"]
      BY <2>2 DEF Call, Inv, TypeOK, GoTo, Phase
    <3> QED BY <2>2, <3>1 DEF Call, Phase, Atomic!Start
  <2>3. ASSUME NEW p \in Procs, Step(p) PROVE [Atomic!Next]_(Atomic!vars)
    BY <2>3, LockingRefines, AccessRefines DEF Step, Atomic!Next
  <2> QED BY <2>1, <2>2, <2>3 DEF Next, Atomic!Next
<1> QED BY <1>1, <1>2, Invariance, PTL DEF Spec, Linearizable, Atomic!Spec
=============================================================================
