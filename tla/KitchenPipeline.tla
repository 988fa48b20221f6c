--------------------------- MODULE KitchenPipeline ---------------------------
(***************************************************************************)
(* What the order workflow promises even when requests race: a stage is    *)
(* only ever entered by way of a stage that was entered before it, by      *)
(* somebody whose role may take that step.  An order may have entered two  *)
(* branches of the life cycle, but nothing is READY that the kitchen did   *)
(* not take up, and nothing is SERVED that was not READY.  Implemented by  *)
(* Orders (ImplementsPipeline there; proved in OrdersProofs).              *)
(***************************************************************************)
EXTENDS OrderStatus

CONSTANTS OrderIds, Users, Role

VARIABLE
  entered       \* the <<stage, user>> pairs: who entered which stage of an order

Stage(o) == {e[1] : e \in entered[o]}

Init == entered = [o \in OrderIds |-> {}]

Place(o, u) ==
  /\ Role[u] = "WAITER"
  /\ entered[o] = {}
  /\ entered' = [entered EXCEPT ![o] = {<<"OPEN", u>>}]

Enter(o, from, to, u) ==
  /\ from \in Stage(o)
  /\ \E creator \in Users :
       /\ <<"OPEN", creator>> \in entered[o]
       /\ MayMove(from, to, u, Role[u], creator)
  /\ entered' = [entered EXCEPT ![o] = @ \cup {<<to, u>>}]

Next ==
  \E o \in OrderIds, u \in Users :
    \/ Place(o, u)
    \/ \E from \in Statuses, to \in Statuses : Enter(o, from, to, u)

Spec == Init /\ [][Next]_entered
=============================================================================
