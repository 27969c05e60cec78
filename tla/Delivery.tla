------------------------------ MODULE Delivery ------------------------------
(***************************************************************************)
(* What a durable outbox promises, with no worker, claim, lease, batch or  *)
(* crash in sight: an accepted item waits until it is settled or given up, *)
(* it is settled only after its effect has taken place, and it never waits *)
(* again.  The effect may take place once more at any time: at least once. *)
(* EmailOutbox and IntegrationOutbox implement it.                         *)
(***************************************************************************)
CONSTANT Items

VARIABLES
  state,   \* of each item
  handled  \* the items whose effect has taken place

vars == <<state, handled>>

Init ==
  /\ state = [i \in Items |-> "absent"]
  /\ handled = {}

Accept(i) ==
  /\ state[i] = "absent"
  /\ state' = [state EXCEPT ![i] = "waiting"]
  /\ UNCHANGED handled

Handle(i) ==
  /\ state[i] # "absent"
  /\ handled' = handled \cup {i}
  /\ UNCHANGED state

Settle(i) ==
  /\ state[i] = "waiting" /\ i \in handled
  /\ state' = [state EXCEPT ![i] = "settled"]
  /\ UNCHANGED handled

Abandon(i) ==
  /\ state[i] = "waiting"
  /\ state' = [state EXCEPT ![i] = "abandoned"]
  /\ UNCHANGED handled

Next == \E i \in Items : Accept(i) \/ Handle(i) \/ Settle(i) \/ Abandon(i)

Spec == Init /\ [][Next]_vars
=============================================================================
