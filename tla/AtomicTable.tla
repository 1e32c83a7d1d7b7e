---------------------------- MODULE AtomicTable ----------------------------
(***************************************************************************)
(* What the tables of message types and of handlers promise to those who   *)
(* share one: every call takes effect at one moment between its start and  *)
(* its return.  In JavaScript nothing more is to be said of them: a call   *)
(* is part of one callback of the event loop.                              *)
(***************************************************************************)
CONSTANTS
  Procs,        \* goroutines, or callbacks, that share the table
  Codes,        \* message types
  Entries,      \* names of types, or handlers
  Absent,       \* a code without entry; a name without code
  Unknown,      \* the name of a code without entry
  BuiltInName   \* a function: the names of URL, DOCUMENT and NOTIFICATION

VARIABLES kind, table, phase, call, result
vars == <<kind, table, phase, call, result>>

mtRegistry == [code \in Codes |->
  IF code \in DOMAIN BuiltInName THEN BuiltInName[code] ELSE Absent]
handlers == [code \in Codes |-> Absent]

TypeCalls ==
  [op : {"NewMT"}, code : Codes, entry : Entries]
  \cup [op : {"LookupMT", "TypeToStringV2"}, code : Codes]
  \cup [op : {"StringToTypeV2"}, entry : Entries]
HandlerCalls ==
  [op : {"RegisterHandler"}, code : Codes, entry : Entries]
  \cup [op : {"handler"}, code : Codes]
Calls == IF kind = "types" THEN TypeCalls ELSE HandlerCalls

NoCall == [op |-> "none"]

Present(t) == {code \in Codes : t[code] # Absent}
Outcome(t, r) == [table |-> t, result |-> r]

\* Each call: the tables and results it may lead to.
NewMT(t, c) ==
  IF c.code \in Present(t) THEN {Outcome(t, "false")}
  ELSE {Outcome([t EXCEPT ![c.code] = c.entry], "true")}
LookupMT(t, c) == {Outcome(t, t[c.code])}
TypeToStringV2(t, c) ==
  {Outcome(t, IF c.code \in Present(t) THEN t[c.code] ELSE Unknown)}
\* Of several types with one name, any.
StringToTypeV2(t, c) ==
  LET named == {code \in Codes : t[code] = c.entry}
  IN {Outcome(t, r) : r \in IF named = {} THEN {Absent} ELSE named}
RegisterHandler(t, c) == {Outcome([t EXCEPT ![c.code] = c.entry], "void")}

Outcomes(t, c) ==
  CASE c.op = "NewMT" -> NewMT(t, c)
    [] c.op \in {"LookupMT", "handler"} -> LookupMT(t, c)
    [] c.op = "TypeToStringV2" -> TypeToStringV2(t, c)
    [] c.op = "StringToTypeV2" -> StringToTypeV2(t, c)
    [] c.op = "RegisterHandler" -> RegisterHandler(t, c)

Init ==
  /\ kind \in {"types", "handlers"}
  /\ table = IF kind = "types" THEN mtRegistry ELSE handlers
  /\ phase = [p \in Procs |-> "idle"]
  /\ call = [p \in Procs |-> NoCall]
  /\ result = [p \in Procs |-> Absent]

Start(p) ==
  /\ phase[p] = "idle"
  /\ phase' = [phase EXCEPT ![p] = "called"]
  /\ \E c \in Calls : call' = [call EXCEPT ![p] = c]
  /\ UNCHANGED <<kind, table, result>>

TakeEffect(p) ==
  /\ phase[p] = "called"
  /\ phase' = [phase EXCEPT ![p] = "done"]
  /\ \E o \in Outcomes(table, call[p]) :
       /\ table' = o.table
       /\ result' = [result EXCEPT ![p] = o.result]
  /\ UNCHANGED <<kind, call>>

Return(p) ==
  /\ phase[p] = "done"
  /\ phase' = [phase EXCEPT ![p] = "idle"]
  /\ call' = [call EXCEPT ![p] = NoCall]
  /\ result' = [result EXCEPT ![p] = Absent]
  /\ UNCHANGED <<kind, table>>

Next == \E p \in Procs : Start(p) \/ TakeEffect(p) \/ Return(p)
Spec == Init /\ [][Next]_vars
=============================================================================
