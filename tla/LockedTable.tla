---------------------------- MODULE LockedTable ----------------------------
(***************************************************************************)
(* The Go tables, a map under a sync.RWMutex: mtRegistry, which all        *)
(* connections and applications of a process share, and the handlers of a  *)
(* ServerV2, shared by the goroutines of its connections.  A map is not    *)
(* safe to read or write while it is written, and NewMT reads before it    *)
(* writes.                                                                 *)
(***************************************************************************)
EXTENDS Integers, FiniteSets

CONSTANTS
  Procs, Codes, Entries, Absent, Unknown, BuiltInName,
  NoProc,       \* nobody
  MaxCalls      \* bound: calls in all

ASSUME BuiltInAssumption ==
  /\ DOMAIN BuiltInName \subseteq Codes
  /\ BuiltInName \in [DOMAIN BuiltInName -> Entries]
ASSUME AbsentAssumption == Absent \notin Entries
ASSUME NoProcAssumption == NoProc \notin Procs
ASSUME CallsAssumption == MaxCalls \in Nat

VARIABLES
  kind,     \* which table this is: of types, or of handlers
  table,
  writer, readers, parked,  \* the RWMutex: who holds it, who waits to read
  pc,       \* where each goroutine is
  call,     \* its call
  result,   \* what the call returns
  seen,     \* codes its range loop went over
  made,     \* calls made
  won       \* history: the calls of NewMT that returned true

lockVars == <<writer, readers, parked>>
vars == <<kind, table, lockVars, pc, call, result, seen, made, won>>

Phase(place) == IF place = "idle" THEN "idle"
                ELSE IF place = "out" THEN "done" ELSE "called"
Atomic == INSTANCE AtomicTable WITH phase <- [p \in Procs |-> Phase(pc[p])]

\* The calls that write the map, and those that take Lock, not RLock.
\* (mutant: NewMT under the read lock)
Writing == {"NewMT", "RegisterHandler"}
Exclusive_NotNewMT == {"RegisterHandler"}
Exclusive == {"NewMT", "RegisterHandler"}
IsExclusive(p) == call[p].op \in Exclusive

GoTo(p, place) == pc' = [pc EXCEPT ![p] = place]

Call(p) ==
  /\ pc[p] = "idle" /\ made < MaxCalls
  /\ made' = made + 1
  /\ \E c \in Atomic!Calls : call' = [call EXCEPT ![p] = c]
  /\ GoTo(p, "lock")
  /\ UNCHANGED <<kind, table, lockVars, result, seen, won>>

-----------------------------------------------------------------------------
(* sync.RWMutex.  A writer that announced itself keeps new readers out and *)
(* waits for those inside; when it leaves, the readers that came go in.    *)

Lock(p) ==
  /\ pc[p] = "lock" /\ IsExclusive(p) /\ writer = NoProc
  /\ writer' = p
  /\ GoTo(p, "drain")
  /\ UNCHANGED <<kind, table, readers, parked, call, result, seen, made, won>>

LockGranted(p) ==
  /\ pc[p] = "drain" /\ readers = {}
  /\ GoTo(p, "in")
  /\ UNCHANGED <<kind, table, lockVars, call, result, seen, made, won>>

RLock(p) ==
  /\ pc[p] = "lock" /\ ~IsExclusive(p)
  /\ IF writer = NoProc
       THEN readers' = readers \cup {p} /\ GoTo(p, "in") /\ UNCHANGED parked
       ELSE parked' = parked \cup {p} /\ GoTo(p, "parked") /\ UNCHANGED readers
  /\ UNCHANGED <<kind, table, writer, call, result, seen, made, won>>

Unlock(p) ==
  /\ writer' = NoProc
  /\ readers' = parked
  /\ parked' = {}
  /\ pc' = [q \in Procs |-> IF q = p THEN "idle"
                            ELSE IF q \in parked THEN "in" ELSE pc[q]]
RUnlock(p) ==
  /\ readers' = readers \ {p}
  /\ GoTo(p, "idle")
  /\ UNCHANGED <<writer, parked>>

\* The deferred unlock, and the return.
\* (mutant: NewMT returns false without it)
Returned(p) ==
  /\ call' = [call EXCEPT ![p] = Atomic!NoCall]
  /\ result' = [result EXCEPT ![p] = Absent]
  /\ seen' = [seen EXCEPT ![p] = {}]
Leave_Early(p) ==
  /\ pc[p] = "out"
  /\ IF result[p] = "false" THEN GoTo(p, "idle") /\ UNCHANGED lockVars
     ELSE IF IsExclusive(p) THEN Unlock(p) ELSE RUnlock(p)
  /\ Returned(p)
  /\ UNCHANGED <<kind, table, made, won>>
Leave(p) ==
  /\ pc[p] = "out"
  /\ IF IsExclusive(p) THEN Unlock(p) ELSE RUnlock(p)
  /\ Returned(p)
  /\ UNCHANGED <<kind, table, made, won>>

-----------------------------------------------------------------------------
(* Under the lock.                                                         *)

Inside(p, op) == pc[p] = "in" /\ call[p].op = op
Answer(p, r) == result' = [result EXCEPT ![p] = r] /\ GoTo(p, "out")

\* _, exists := mtRegistry.m[mt.Code].  (mutant: the test is not made)
NewMTChecks_Not(p) ==
  /\ Inside(p, "NewMT")
  /\ GoTo(p, "store") /\ UNCHANGED result
  /\ UNCHANGED <<kind, table, lockVars, call, seen, made, won>>
NewMTChecks(p) ==
  /\ Inside(p, "NewMT")
  /\ IF table[call[p].code] # Absent THEN Answer(p, "false")
                                     ELSE GoTo(p, "store") /\ UNCHANGED result
  /\ UNCHANGED <<kind, table, lockVars, call, seen, made, won>>

NewMTStores(p) ==
  /\ pc[p] = "store"
  /\ table' = [table EXCEPT ![call[p].code] = call[p].entry]
  /\ Answer(p, "true")
  /\ won' = won \cup {[nth |-> made, by |-> p, code |-> call[p].code,
                       entry |-> call[p].entry]}
  /\ UNCHANGED <<kind, lockVars, call, seen, made>>

RegisterHandler(p) ==
  /\ Inside(p, "RegisterHandler")
  /\ table' = [table EXCEPT ![call[p].code] = call[p].entry]
  /\ Answer(p, "void")
  /\ UNCHANGED <<kind, lockVars, call, seen, made, won>>

LookupMT(p) ==
  /\ Inside(p, "LookupMT") \/ Inside(p, "handler")
  /\ Answer(p, table[call[p].code])
  /\ UNCHANGED <<kind, table, lockVars, call, seen, made, won>>

TypeToStringV2(p) ==
  /\ Inside(p, "TypeToStringV2")
  /\ Answer(p, IF table[call[p].code] # Absent THEN table[call[p].code]
                                               ELSE Unknown)
  /\ UNCHANGED <<kind, table, lockVars, call, seen, made, won>>

\* The range loop of StringToTypeV2 takes the codes in any order.
Unseen(p) == {code \in Codes : table[code] # Absent} \ seen[p]
NextCode(p) ==
  /\ Inside(p, "StringToTypeV2")
  /\ \E code \in Unseen(p) :
       IF table[code] = call[p].entry
         THEN Answer(p, code) /\ UNCHANGED seen
         ELSE /\ seen' = [seen EXCEPT ![p] = @ \cup {code}]
              /\ UNCHANGED <<pc, result>>
  /\ UNCHANGED <<kind, table, lockVars, call, made, won>>
NoMoreCodes(p) ==
  /\ Inside(p, "StringToTypeV2") /\ Unseen(p) = {}
  /\ Answer(p, Absent)
  /\ UNCHANGED <<kind, table, lockVars, call, seen, made, won>>

-----------------------------------------------------------------------------
Init ==
  /\ writer = NoProc /\ readers = {} /\ parked = {}
  /\ pc = [p \in Procs |-> "idle"]
  /\ Atomic!Init
  /\ seen = [p \in Procs |-> {}]
  /\ made = 0 /\ won = {}

Locking(p) == Lock(p) \/ LockGranted(p) \/ RLock(p) \/ Leave(p)
Accessing(p) == NewMTChecks(p) \/ NewMTStores(p) \/ RegisterHandler(p)
                \/ LookupMT(p) \/ TypeToStringV2(p) \/ NextCode(p)
                \/ NoMoreCodes(p)
Step(p) == Locking(p) \/ Accessing(p)
Next == \E p \in Procs : Call(p) \/ Step(p)
Spec == Init /\ [][Next]_vars

\* The scheduler runs every goroutine.  Calls are bounded, so that a mutex is
\* free in the end for whoever waits; without the bound sync.Mutex sees to it
\* (starvation mode).
FairSpec == Spec /\ \A p \in Procs : WF_vars(Step(p))

-----------------------------------------------------------------------------
Results == {"true", "false", "void", Absent, Unknown} \cup Codes \cup Entries
TypeOK ==
  /\ kind \in {"types", "handlers"}
  /\ table \in [Codes -> Entries \cup {Absent}]
  /\ writer \in Procs \cup {NoProc}
  /\ readers \subseteq Procs /\ parked \subseteq Procs
  /\ pc \in [Procs -> {"idle", "lock", "drain", "parked", "in", "store", "out"}]
  /\ call \in [Procs -> Atomic!Calls \cup {Atomic!NoCall}]
  /\ result \in [Procs -> Results]
  /\ seen \in [Procs -> SUBSET Codes]
  /\ made \in Nat
  /\ won \subseteq [nth : Nat, by : Procs, code : Codes, entry : Entries]

\* Go maps: while a goroutine may write the map, no other one is at it.
AtMap(p) == pc[p] \in {"in", "store"}
MapExclusive == \A p, q \in Procs :
  AtMap(p) /\ AtMap(q) /\ call[p].op \in Writing => p = q

\* mt_v2.go:36: NewMT "returns false (and registers nothing) when the Code is
\* already in use".  Of the callers that race for a code one is told true, the
\* table holds its type from then on, and the built-in types stay.
OneWinner ==
  /\ \A w \in won : table[w.code] = w.entry
  /\ \A v, w \in won : v.code = w.code => v = w
  /\ kind = "types" => \A code \in DOMAIN BuiltInName :
       /\ table[code] = BuiltInName[code]
       /\ \A w \in won : w.code # code

\* mt_v2.go:38, server_v2.go:46: "safe for concurrent use".  Every call takes
\* effect at one moment between its start and its return: linearizability.
Linearizable == Atomic!Spec

\* Every call returns: no path leaves the lock behind, and nobody waits for a
\* goroutine that waits.
EveryCallReturns == \A p \in Procs : (pc[p] # "idle") ~> (pc[p] = "idle")
=============================================================================
