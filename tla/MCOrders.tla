------------------------------ MODULE MCOrders ------------------------------
(* Small instances of Orders. *)
EXTENDS Orders, TLC

CONSTANTS w1, w2, cook, boss, till

MCRole == [u \in Users |->
  CASE u = cook -> "KITCHEN" [] u = boss -> "MANAGER" [] u = till -> "CASHIER"
    [] OTHER -> "WAITER"]

Symmetric == Permutations(Requests)
=============================================================================
