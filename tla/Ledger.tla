------------------------------- MODULE Ledger -------------------------------
(***************************************************************************)
(* What the books promise, as if every write tested the books it writes    *)
(* to: invoices are numbered one after the other, one for an order, and    *)
(* keep order, number and total for ever; once settled they never fall     *)
(* due again; a claim for a refund is of a settled invoice, within its     *)
(* total, decided by a manager or an admin, and granted by one who did not *)
(* make it in the step that reverses the invoice, in full or in part.      *)
(* An invoice that was reversed may be settled once more.  Implemented by  *)
(* Billing (ImplementsLedger there; proved in BillingProofs), whose        *)
(* handlers test what they read and test nothing when they write.          *)
(***************************************************************************)
EXTENDS Naturals, FiniteSets

CONSTANTS
  Invoices, Claims, Orders, Amounts, Staff,
  Deciders,     \* staff who may decide a claim
  Nobody

VARIABLES
  bill,         \* what is written down of an invoice
  claim         \* what is written down of a claim

ledgerVars == <<bill, claim>>

NoBill == [state |-> "NONE"]
NoClaim == [state |-> "NONE"]
Drawn == {i \in Invoices : bill[i] # NoBill}

Init ==
  /\ bill = [i \in Invoices |-> NoBill]
  /\ claim = [c \in Claims |-> NoClaim]

\* The next number, for an order that has no invoice.
Draw(i, o, total) ==
  /\ bill[i] = NoBill
  /\ \A j \in Drawn : bill[j].order # o
  /\ bill' = [bill EXCEPT ![i] = [state |-> "UNPAID", order |-> o, total |-> total,
                                  number |-> Cardinality(Drawn) + 1]]
  /\ UNCHANGED claim

\* Also of an invoice that is settled: till and Stripe may both have read it due.
Settle(i) ==
  /\ i \in Drawn
  /\ bill' = [bill EXCEPT ![i].state = "PAID"]
  /\ UNCHANGED claim

File(c, i, amount, u) ==
  /\ claim[c] = NoClaim
  /\ i \in Drawn /\ bill[i].state # "UNPAID" /\ amount <= bill[i].total
  /\ claim' = [claim EXCEPT ![c] = [state |-> "PENDING", invoice |-> i, amount |-> amount,
                                    requestedBy |-> u, decidedBy |-> Nobody]]
  /\ UNCHANGED bill

\* A decision, also over one that was made meanwhile, is its decider's.
Grant(c, u) ==
  /\ claim[c] # NoClaim /\ claim[c].requestedBy # u
  /\ claim' = [claim EXCEPT ![c].state = "APPROVED", ![c].decidedBy = u]
  /\ LET i == claim[c].invoice IN
     bill' = [bill EXCEPT ![i].state =
       IF claim[c].amount = bill[i].total THEN "REFUNDED" ELSE "PARTIALLY_REFUNDED"]

Deny(c, u) ==
  /\ claim[c] # NoClaim
  /\ claim' = [claim EXCEPT ![c].state = "REJECTED", ![c].decidedBy = u]
  /\ UNCHANGED bill

Next ==
  \/ \E i \in Invoices :
       \/ \E o \in Orders, total \in Amounts : Draw(i, o, total)
       \/ Settle(i)
       \/ \E c \in Claims, amount \in Amounts, u \in Staff : File(c, i, amount, u)
  \/ \E c \in Claims, u \in Deciders : Grant(c, u) \/ Deny(c, u)

Spec == Init /\ [][Next]_ledgerVars
=============================================================================
