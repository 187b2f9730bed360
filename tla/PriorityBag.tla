---------------------------- MODULE PriorityBag ----------------------------
(***************************************************************************)
(* What the heap of clagent (src/src/ca_heap.c) promises: a set of entries *)
(* of which the least urgent number comes out first.                       *)
(***************************************************************************)
EXTENDS Naturals

CONSTANTS Entries, Priority, None

VARIABLES bag,  \* the entries that are in
          out   \* what the last call returned

Least(e) == \A x \in bag : Priority[e] <= Priority[x]

Add    == \E e \in Entries \ bag : bag' = bag \cup {e} /\ out' = None
Refuse == bag' = bag /\ out' = None
Take   == \E e \in bag : Least(e) /\ bag' = bag \ {e} /\ out' = e
Clear  == bag' = {} /\ out' = None

BagInit == bag = {} /\ out = None
BagNext == Add \/ Refuse \/ Take \/ Clear
BagSpec == BagInit /\ [][BagNext]_<<bag, out>>
=============================================================================
