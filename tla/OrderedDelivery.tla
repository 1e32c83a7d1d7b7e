-------------------------- MODULE OrderedDelivery --------------------------
(***************************************************************************)
(* What sequence numbers promise one direction of a connection: the        *)
(* receiver takes each item at most once, in the order the items were      *)
(* numbered, as they were sent.  It may miss items; it never sees one that *)
(* was not sent.                                                           *)
(***************************************************************************)
EXTENDS Naturals, Sequences

CONSTANT Items

VARIABLES
  sent,   \* the items, by number
  taken   \* what the receiver took: number and item

LastTaken == IF taken = <<>> THEN 0 ELSE taken[Len(taken)].n

Init == sent = <<>> /\ taken = <<>>

Send(item) == sent' = Append(sent, item) /\ UNCHANGED taken

Take(n) ==
  /\ n > LastTaken
  /\ taken' = Append(taken, [n |-> n, item |-> sent[n]])
  /\ UNCHANGED sent

Next == (\E item \in Items : Send(item)) \/ (\E n \in DOMAIN sent : Take(n))
vars == <<sent, taken>>
Spec == Init /\ [][Next]_vars
=============================================================================
