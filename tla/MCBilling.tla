------------------------------ MODULE MCBilling ------------------------------
(* Small instances of Billing. *)
EXTENDS Billing, TLC

CONSTANTS w1, cook, boss, owner, till

MCRole == [u \in Users |->
  CASE u = cook -> "KITCHEN" [] u = boss -> "MANAGER" [] u = owner -> "ADMIN"
    [] u = till -> "CASHIER" [] OTHER -> "WAITER"]
MCPrice == [m \in MenuItems |-> 8]
MCRecipe == [m \in MenuItems |-> Ingredients]

\* Bound: claims are about the one invoice there is, or there are no claims.
OneAccount ==
  LET Made == {r \in Handlers : breq[r].at \in {"invoice.number", "invoice.insert"}}
  IN \/ Cardinality(IssuedIds \cup Made) <= 1
     \/ /\ \A f \in RefundIds : refunds[f] = NoRefund
        /\ \A r \in Handlers : breq[r].at \notin {"refund.pending", "refund.insert"}

Symmetric == Permutations(Handlers) \cup Permutations(InvoiceIds) \cup Permutations(RefundIds)
=============================================================================
