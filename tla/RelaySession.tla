---------------------------- MODULE RelaySession ----------------------------
(***************************************************************************)
(* The session of SecureSession through a relay that is not a faithful     *)
(* pipe: it may lose units, deliver a frame again, late or out of order,   *)
(* send it back the way it came, or damage it.  This is what the sequence  *)
(* numbers, the kind byte and the tag of V2 are for; the relay holds no    *)
(* key and seals nothing.                                                  *)
(***************************************************************************)
EXTENDS SecureSession, FiniteSets

CONSTANT MaxFaults  \* bound: faults of the relay and writes broken off
ASSUME FaultsAssumption == MaxFaults \in Nat

VARIABLES
  passed,   \* the sealed bodies that were on either stream so far
  faults

relayVars == <<vars, passed, faults>>

Bodies(stream) == {stream[i] : i \in {j \in DOMAIN stream :
                                        stream[j].part = "body"}}

\* A frame that passed appears at the end of a stream, either one.
Repeat(body) ==
  LET frame == <<Prefix(body.n % LenModulus), body>> IN
  \/ up' = up \o frame /\ UNCHANGED down
  \/ down' = down \o frame /\ UNCHANGED up

\* Units i to j, a whole frame or more, are lost together.
Without(stream, i, j) ==
  SubSeq(stream, 1, i - 1) \o SubSeq(stream, j + 1, Len(stream))

Lose ==
  \/ \E i, j \in DOMAIN up : i <= j /\ up' = Without(up, i, j) /\ UNCHANGED down
  \/ \E i, j \in DOMAIN down : i <= j /\ down' = Without(down, i, j) /\ UNCHANGED up

\* The header is the one unit a receiver cannot tell from a damaged one.
Damaged(unit) ==
  {Scrap} \cup {Hello(salt) : salt \in IF unit.part = "hello" THEN Salts ELSE {}}

Damage ==
  \/ /\ \E i \in DOMAIN up : up' \in {[up EXCEPT ![i] = u] : u \in Damaged(up[i])}
     /\ UNCHANGED down
  \/ /\ \E i \in DOMAIN down :
          down' \in {[down EXCEPT ![i] = u] : u \in Damaged(down[i])}
     /\ UNCHANGED up

\* Writes that broke off share the bound of the faults.
BrokenOff == Cardinality({k \in DOMAIN calls : calls[k].out = "write"})
             + Cardinality({i \in DOMAIN answers : ~answers[i].whole})

Fault ==
  /\ faults + BrokenOff < MaxFaults
  /\ faults' = faults + 1
  /\ Lose \/ Damage \/ \E body \in passed : Repeat(body)
  /\ UNCHANGED <<clientVars, serverVars, passed>>

RelayInit == Init /\ passed = {} /\ faults = 0

RelayNext ==
  \/ /\ Next /\ faults + BrokenOff' <= MaxFaults
     /\ passed' = passed \cup Bodies(up') \cup Bodies(down')
     /\ UNCHANGED faults
  \/ Fault

RelaySpec == RelayInit /\ [][RelayNext]_relayVars

-----------------------------------------------------------------------------
\* Nothing the relay does makes the client pair a code with the wrong call
\* unnoticed: if every earlier call got its code or was refused locally, a
\* code is the answer to its own message, or the ERROR with which the server
\* turned a repeated message away.  (Responses do not name their message; to
\* have spent k-1 of them the server must have taken k-1 messages.)
OwnAnswerOrReplay == \A i \in DOMAIN accepted :
  CleanBefore(accepted[i].call) =>
    LET answer == answers[accepted[i].n]
    IN answer.re = accepted[i].call \/ answer.why = "replay"
=============================================================================
