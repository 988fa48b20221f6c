--------------------------- MODULE BillingProofs ---------------------------
(***************************************************************************)
(* Proofs about the books that Billing keeps: invoice numbers, settlement  *)
(* and refunds, for any number of orders, invoices, staff and handlers in  *)
(* flight.  The rows of Orders do not matter to them.                      *)
(***************************************************************************)
EXTENDS Billing, FiniteSetTheorems, TLAPS

-----------------------------------------------------------------------------
\* Steps that leave the rows alone

\* The invariant speaks of three variables only.
LEMMA Untouched ==
  ASSUME LedgerInv, UNCHANGED <<invoices, refunds, breq>>
  PROVE  LedgerInv'
<1>1. HandlersHold'
  BY DEF LedgerInv, HandlersHold, Holds, IssuedIds, Issued, Settled, ReversalOf, IsManagerOrAdmin
<1>2. NumbersAreSequential'
  <2>1. IssuedIds' = IssuedIds
    BY DEF IssuedIds, Issued
  <2> QED
    BY <2>1 DEF LedgerInv, NumbersAreSequential
<1>3. PaidStaysPaid' /\ RefundsAreOfPaid'
  BY DEF LedgerInv, PaidStaysPaid, RefundsAreOfPaid, Issued, Settled
<1>4. FourEyes'
  BY DEF LedgerInv, FourEyes, IsManagerOrAdmin
<1>5. ReversalWasDecided'
  BY DEF LedgerInv, ReversalWasDecided
<1> QED
  BY <1>1, <1>2, <1>3, <1>4, <1>5 DEF LedgerInv

\* A handler that only reads keeps the invariant if what it read holds.
LEMMA ReadStep ==
  ASSUME LedgerInv, NEW r \in Handlers,
         UNCHANGED <<invoices, refunds>>,
         breq' = [breq EXCEPT ![r] = breq'[r]],
         Holds(breq[r])'
  PROVE  LedgerInv'
<1>1. breq' = [s \in Handlers |-> breq'[s]]
  BY DEF LedgerInv
<1>2. HandlersHold'
  <2> SUFFICES ASSUME NEW s \in Handlers PROVE Holds(breq[s])'
    BY DEF HandlersHold
  <2>1. CASE s = r
    BY <2>1
  <2>2. CASE s # r
    <3>1. breq'[s] = breq[s]
      BY <2>2 DEF LedgerInv
    <3>2. Holds(breq[s])
      BY DEF LedgerInv, HandlersHold
    <3> QED
      BY <3>1, <3>2 DEF Holds, IssuedIds, Issued, Settled, ReversalOf, IsManagerOrAdmin
  <2> QED
    BY <2>1, <2>2
<1>3. NumbersAreSequential'
  <2>1. IssuedIds' = IssuedIds
    BY DEF IssuedIds, Issued
  <2> QED
    BY <2>1 DEF LedgerInv, NumbersAreSequential
<1>4. PaidStaysPaid' /\ RefundsAreOfPaid'
  BY DEF LedgerInv, PaidStaysPaid, RefundsAreOfPaid, Issued, Settled
<1>5. FourEyes'
  BY DEF LedgerInv, FourEyes, IsManagerOrAdmin
<1>6. ReversalWasDecided'
  BY DEF LedgerInv, ReversalWasDecided
<1> QED
  BY <1>1, <1>2, <1>3, <1>4, <1>5, <1>6 DEF LedgerInv
-----------------------------------------------------------------------------
\* Steps that write a row

\* What every write of a row leaves true: issued invoices stay issued for the
\* same total, settled ones settled, and a refund request stays what it is.
RowsGrow ==
  /\ \A i \in InvoiceIds : Issued(i) => Issued(i)' /\ invoices'[i].total = invoices[i].total
  /\ \A i \in InvoiceIds : Settled(i) => Settled(i)'
  /\ \A f \in RefundIds : refunds[f].status # "NONE" =>
       /\ refunds'[f].status # "NONE"
       /\ refunds'[f].requestedBy = refunds[f].requestedBy
       /\ refunds'[f].invoice = refunds[f].invoice
       /\ refunds'[f].amount = refunds[f].amount

\* Counting issued invoices is counting a finite set.
LEMMA IssuedFinite == IsFiniteSet(IssuedIds) /\ Cardinality(IssuedIds) \in Nat
BY InvoiceIdsAssumption, FS_Subset, FS_CardinalityType DEF IssuedIds

LEMMA CountGrows ==
  ASSUME RowsGrow
  PROVE  Cardinality(IssuedIds) <= Cardinality(IssuedIds')
<1>1. IssuedIds \subseteq IssuedIds'
  BY DEF RowsGrow, IssuedIds
<1>2. IsFiniteSet(IssuedIds')
  BY InvoiceIdsAssumption, FS_Subset DEF IssuedIds
<1> QED
  BY <1>1, <1>2, FS_Subset

\* What a handler holds stays true whatever another one writes.
LEMMA HoldsStable ==
  ASSUME LedgerInv, RowsGrow, NEW q, Holds(q)
  PROVE  Holds(q)'
<1>1. q.at \in {"invoice.number", "invoice.insert"} => q.order \in OrderIds /\ q.total \in Amounts
  BY DEF Holds
<1>2. ASSUME q.at = "invoice.insert" PROVE q.number \in 1..(Cardinality(IssuedIds') + 1)
  <2>1. q.number \in 1..(Cardinality(IssuedIds) + 1)
    BY <1>2 DEF Holds
  <2>2. Cardinality(IssuedIds') \in Nat
    BY InvoiceIdsAssumption, FS_Subset, FS_CardinalityType DEF IssuedIds
  <2> QED
    BY <2>1, <2>2, CountGrows, IssuedFinite
<1>3. q.at \in {"pay.tx", "intent.create", "intent.save"} => q.invoice \in InvoiceIds
  BY DEF Holds
<1>4. ASSUME q.at = "pay.tx" PROVE Issued(q.invoice)'
  BY <1>3, <1>4 DEF Holds, RowsGrow
<1>5. ASSUME q.at \in {"refund.pending", "refund.insert"}
      PROVE  /\ q.invoice \in InvoiceIds /\ Settled(q.invoice)'
             /\ q.amount \in Amounts /\ q.amount <= invoices'[q.invoice].total
             /\ q.by \in Users
  BY <1>5 DEF Holds, RowsGrow, Settled
<1>6. ASSUME q.at \in {"approve.tx", "reject.write"}
      PROVE  /\ q.refund \in RefundIds /\ refunds'[q.refund].status # "NONE"
             /\ q.by \in Users /\ IsManagerOrAdmin(q.by)
  BY <1>6 DEF Holds, RowsGrow
<1>7. ASSUME q.at = "approve.tx"
      PROVE  /\ refunds'[q.refund].requestedBy # q.by
             /\ q.newStatus = ReversalOf(q.refund)'
  <2>1. q.refund \in RefundIds /\ refunds[q.refund].status # "NONE"
    BY <1>7 DEF Holds
  <2>2. refunds[q.refund].invoice \in InvoiceIds /\ Issued(refunds[q.refund].invoice)
    BY <2>1 DEF LedgerInv, RefundsAreOfPaid, Settled
  <2>3. ReversalOf(q.refund)' = ReversalOf(q.refund)
    BY <2>1, <2>2 DEF RowsGrow, ReversalOf
  <2> QED
    BY <1>7, <2>1, <2>3 DEF Holds, RowsGrow
<1> QED
  BY <1>1, <1>2, <1>3, <1>4, <1>5, <1>6, <1>7 DEF Holds, IsManagerOrAdmin

\* A writer ends, or goes on to the stock; the others hold what they held.
LEMMA WriteStep ==
  ASSUME LedgerInv, RowsGrow, NEW r \in Handlers,
         breq' = [breq EXCEPT ![r] = breq'[r]],
         breq'[r].at \in {"idle", "stock.read"}
  PROVE  breq' = [s \in Handlers |-> breq'[s]] /\ HandlersHold'
<1>1. breq' = [s \in Handlers |-> breq'[s]]
  BY DEF LedgerInv
<1>2. ASSUME NEW s \in Handlers PROVE Holds(breq[s])'
  <2>1. CASE s = r
    BY <2>1 DEF Holds
  <2>2. CASE s # r
    <3>1. PICK q : q = breq[s]
      OBVIOUS
    <3>2. Holds(q)
      BY <3>1 DEF LedgerInv, HandlersHold
    <3>3. Holds(q)'
      BY <3>2, HoldsStable
    <3>4. breq'[s] = q
      BY <2>2, <3>1 DEF LedgerInv
    <3> QED
      BY <3>3, <3>4 DEF Holds
  <2> QED
    BY <2>1, <2>2
<1> QED
  BY <1>1, <1>2 DEF HandlersHold
-----------------------------------------------------------------------------
\* createInvoice inserts the next number or nothing.
LEMMA InsertStep ==
  ASSUME LedgerInv, NEW r \in Handlers, CreateInvoiceInsert(r)
  PROVE  LedgerInv' /\ RowsGrow
<1> DEFINE q == breq[r]
<1>1. PICK i \in InvoiceIds :
        /\ ~ Issued(i)
        /\ invoices' = [invoices EXCEPT ![i] =
             [NoInvoice EXCEPT !.status = "UNPAID", !.order = q.order,
                               !.number = q.number, !.total = q.total]]
  BY DEF CreateInvoiceInsert
<1>2. /\ q.order \in OrderIds
      /\ q.total \in Amounts
      /\ q.number \in 1..(Cardinality(IssuedIds) + 1)
  BY DEF CreateInvoiceInsert, LedgerInv, HandlersHold, Holds
<1>3. \A j \in InvoiceIds : Issued(j) => invoices[j].number # q.number
  BY DEF CreateInvoiceInsert
<1>4. UNCHANGED refunds /\ breq' = [breq EXCEPT ![r] = Idle]
  BY DEF CreateInvoiceInsert, Finish, Continue
<1>5. /\ invoices'[i] = [status |-> "UNPAID", order |-> q.order, number |-> q.number,
                         total |-> q.total, paidAt |-> 0, method |-> "CASH", intent |-> FALSE]
      /\ \A j \in InvoiceIds \ {i} : invoices'[j] = invoices[j]
  BY <1>1 DEF LedgerInv, NoInvoice
<1>6. invoices' \in [InvoiceIds -> InvoiceRow]
  <2>1. q.number \in Nat
    BY <1>2, IssuedFinite
  <2>2. invoices'[i] \in InvoiceRow
    BY <1>2, <1>5, <2>1 DEF InvoiceRow
  <2> QED
    BY <1>1, <2>2, <1>5 DEF LedgerInv
<1>7. RowsGrow
  BY <1>1, <1>4, <1>5 DEF RowsGrow, Issued, Settled
<1>8. breq' = [s \in Handlers |-> breq'[s]] /\ HandlersHold'
  BY <1>4, <1>7, WriteStep DEF Idle, LedgerInv
<1>9. NumbersAreSequential'
  <2>1. IssuedIds' = IssuedIds \cup {i} /\ i \notin IssuedIds
    BY <1>1, <1>5 DEF IssuedIds, Issued
  <2>2. Cardinality(IssuedIds') = Cardinality(IssuedIds) + 1
    BY <2>1, IssuedFinite, FS_AddElement
  <2>3. {invoices[j].number : j \in IssuedIds} = 1..Cardinality(IssuedIds)
    BY DEF LedgerInv, NumbersAreSequential
  <2>4. q.number \notin 1..Cardinality(IssuedIds)
    BY <1>3, <2>3 DEF IssuedIds
  <2>5. q.number = Cardinality(IssuedIds) + 1
    BY <1>2, <2>4, IssuedFinite
  <2>6. invoices'[i].number = q.number
    BY <1>5
  <2>7. \A j \in IssuedIds : invoices'[j].number = invoices[j].number
    BY <1>5, <2>1 DEF IssuedIds
  <2>8. {invoices'[j].number : j \in IssuedIds'} = 1..Cardinality(IssuedIds')
    <3>1. {invoices'[j].number : j \in IssuedIds'} = {invoices[j].number : j \in IssuedIds} \cup {q.number}
      BY <2>1, <2>6, <2>7
    <3>2. 1..(Cardinality(IssuedIds) + 1)
            = (1..Cardinality(IssuedIds)) \cup {Cardinality(IssuedIds) + 1}
      BY IssuedFinite
    <3> QED
      BY <3>1, <3>2, <2>2, <2>3, <2>5
  <2>9. \A j, k \in IssuedIds' : invoices'[j].number = invoices'[k].number => j = k
    <3>1. \A j \in IssuedIds : invoices[j].number # q.number
      BY <1>3 DEF IssuedIds
    <3>2. \A j, k \in IssuedIds : invoices[j].number = invoices[k].number => j = k
      BY DEF LedgerInv, NumbersAreSequential
    <3> QED
      BY <2>1, <2>6, <2>7, <3>1, <3>2
  <2> QED
    BY <2>8, <2>9 DEF NumbersAreSequential
<1>10. PaidStaysPaid'
  BY <1>5 DEF LedgerInv, PaidStaysPaid, Issued, Settled
<1>11. RefundsAreOfPaid'
  BY <1>4, <1>7 DEF LedgerInv, RefundsAreOfPaid, RowsGrow, Settled
<1>12. FourEyes'
  BY <1>4 DEF LedgerInv, FourEyes, IsManagerOrAdmin
<1>13. ReversalWasDecided'
  BY <1>4, <1>5 DEF LedgerInv, ReversalWasDecided
<1> QED
  BY <1>7, <1>4, <1>6, <1>8, <1>9, <1>10, <1>11, <1>12, <1>13 DEF LedgerInv

\* Writes that neither issue an invoice nor renumber one keep the numbers.
LEMMA NumbersKept ==
  ASSUME LedgerInv,
         \A i \in InvoiceIds : (Issued(i)' <=> Issued(i)) /\ invoices'[i].number = invoices[i].number
  PROVE  NumbersAreSequential'
<1>1. IssuedIds' = IssuedIds
  BY DEF IssuedIds
<1>2. \A i \in IssuedIds : invoices'[i].number = invoices[i].number
  BY DEF IssuedIds
<1>3. {invoices'[i].number : i \in IssuedIds} = {invoices[i].number : i \in IssuedIds}
  BY <1>2
<1> QED
  BY <1>1, <1>2, <1>3 DEF LedgerInv, NumbersAreSequential

\* The settlement by till or webhook, of an invoice in any status.
LEMMA SettlementStep ==
  ASSUME LedgerInv, NEW r \in Handlers, Settle(r)
  PROVE  LedgerInv' /\ RowsGrow
<1> DEFINE i == breq[r].invoice
<1>1. i \in InvoiceIds /\ Issued(i)
  BY DEF Settle, LedgerInv, HandlersHold, Holds
<1>2. UNCHANGED refunds /\ breq' = [breq EXCEPT ![r] =
        [at |-> "stock.read", invoice |-> i, method |-> breq[r].method]]
  BY DEF Settle, Continue
<1>3. invoices[i] \in InvoiceRow
  BY <1>1 DEF LedgerInv
<1>4. \A j \in InvoiceIds \ {i} : invoices'[j] = invoices[j]
  BY DEF Settle, LedgerInv
<1>5. /\ invoices'[i].status = "PAID"
      /\ invoices'[i].paidAt = invoices[i].paidAt + 1
      /\ invoices'[i].total = invoices[i].total
      /\ invoices'[i].number = invoices[i].number
      /\ invoices'[i] \in InvoiceRow
  <2>1. invoices'[i] = [invoices[i] EXCEPT !.status = "PAID", !.paidAt = @ + 1,
                        !.method = IF breq[r].method = "STRIPE" THEN "STRIPE" ELSE @]
    BY <1>1 DEF Settle, LedgerInv
  <2> DEFINE m == IF breq[r].method = "STRIPE" THEN "STRIPE" ELSE invoices[i].method
  <2>2. m \in {"CASH", "STRIPE"} /\ invoices[i].paidAt \in Nat
    BY <1>3 DEF InvoiceRow
  <2>3. invoices'[i] = [invoices[i] EXCEPT !.status = "PAID", !.paidAt = @ + 1, !.method = m]
    BY <1>3, <2>1 DEF InvoiceRow
  <2> HIDE DEF m
  <2>4. PICK row \in InvoiceRow : row = invoices[i]
    BY <1>3
  <2>5. invoices'[i] = [status |-> "PAID", order |-> row.order, number |-> row.number,
                        total |-> row.total, paidAt |-> row.paidAt + 1, method |-> m,
                        intent |-> row.intent]
    BY <2>3, <2>4 DEF InvoiceRow
  <2>6. row.paidAt + 1 \in Nat
    BY <2>2, <2>4
  <2> QED
    BY <2>2, <2>4, <2>5, <2>6 DEF InvoiceRow
<1>6. invoices' \in [InvoiceIds -> InvoiceRow] /\ invoices'[i].paidAt # 0
  <2>1. invoices'[i].paidAt # 0
    BY <1>3, <1>5 DEF InvoiceRow
  <2> QED
    BY <2>1, <1>1, <1>4, <1>5 DEF LedgerInv, Settle
<1>7. RowsGrow
  BY <1>1, <1>2, <1>4, <1>5, <1>6 DEF RowsGrow, Issued, Settled
<1>9. breq' = [s \in Handlers |-> breq'[s]] /\ HandlersHold'
  BY <1>2, <1>7, WriteStep DEF LedgerInv
<1>10. NumbersAreSequential'
  BY <1>1, <1>4, <1>5, NumbersKept DEF Issued
<1>11. PaidStaysPaid'
  BY <1>1, <1>4, <1>5, <1>6 DEF LedgerInv, PaidStaysPaid, Issued, Settled
<1>12. RefundsAreOfPaid'
  BY <1>2, <1>7 DEF LedgerInv, RefundsAreOfPaid, RowsGrow, Settled
<1>13. FourEyes'
  BY <1>2 DEF LedgerInv, FourEyes, IsManagerOrAdmin
<1>14. ReversalWasDecided'
  BY <1>2, <1>4, <1>5 DEF LedgerInv, ReversalWasDecided
<1> QED
  BY <1>7, <1>2, <1>6, <1>9, <1>10, <1>11, <1>12, <1>13, <1>14 DEF LedgerInv
\* createPaymentIntent saves a flag on a row that may be settled by now.
LEMMA IntentSaveStep ==
  ASSUME LedgerInv, NEW r \in Handlers, CreateIntentSave(r)
  PROVE  LedgerInv' /\ RowsGrow
<1> DEFINE i == breq[r].invoice
<1>1. i \in InvoiceIds
  BY DEF CreateIntentSave, LedgerInv, HandlersHold, Holds
<1>2. UNCHANGED refunds /\ breq' = [breq EXCEPT ![r] = Idle]
  BY DEF CreateIntentSave, Finish, Continue
<1>3. \A j \in InvoiceIds :
        /\ invoices'[j].status = invoices[j].status
        /\ invoices'[j].paidAt = invoices[j].paidAt
        /\ invoices'[j].total = invoices[j].total
        /\ invoices'[j].number = invoices[j].number
        /\ invoices'[j] \in InvoiceRow
  BY <1>1 DEF CreateIntentSave, LedgerInv, InvoiceRow
<1>4. invoices' \in [InvoiceIds -> InvoiceRow]
  BY <1>1, <1>3 DEF CreateIntentSave, LedgerInv
<1>5. RowsGrow
  BY <1>2, <1>3 DEF RowsGrow, Issued, Settled
<1>6. breq' = [s \in Handlers |-> breq'[s]] /\ HandlersHold'
  BY <1>2, <1>5, WriteStep DEF Idle, LedgerInv
<1>7. NumbersAreSequential'
  BY <1>3, NumbersKept DEF Issued
<1>8. PaidStaysPaid'
  BY <1>3 DEF LedgerInv, PaidStaysPaid, Issued, Settled
<1>9. RefundsAreOfPaid'
  BY <1>2, <1>5 DEF LedgerInv, RefundsAreOfPaid, RowsGrow, Settled
<1>10. FourEyes'
  BY <1>2 DEF LedgerInv, FourEyes, IsManagerOrAdmin
<1>11. ReversalWasDecided'
  BY <1>2, <1>3 DEF LedgerInv, ReversalWasDecided
<1> QED
  BY <1>5, <1>2, <1>4, <1>6, <1>7, <1>8, <1>9, <1>10, <1>11 DEF LedgerInv

\* requestRefund inserts a request for a settled invoice, within its total.
LEMMA RequestRefundStep ==
  ASSUME LedgerInv, NEW r \in Handlers, RequestRefundInsert(r)
  PROVE  LedgerInv' /\ RowsGrow
<1> DEFINE q == breq[r]
<1>1. /\ q.invoice \in InvoiceIds /\ Settled(q.invoice)
      /\ q.amount \in Amounts /\ q.amount <= invoices[q.invoice].total
      /\ q.by \in Users
  BY DEF RequestRefundInsert, LedgerInv, HandlersHold, Holds
<1>2. UNCHANGED invoices /\ breq' = [breq EXCEPT ![r] = Idle]
  BY DEF RequestRefundInsert, Finish, Continue
<1>3. PICK f \in RefundIds :
        /\ refunds[f].status = "NONE"
        /\ refunds' = [refunds EXCEPT ![f] =
             [NoRefund EXCEPT !.status = "PENDING", !.invoice = q.invoice,
                              !.amount = q.amount, !.requestedBy = q.by]]
  BY DEF RequestRefundInsert
<1>4. /\ refunds'[f] = [status |-> "PENDING", invoice |-> q.invoice, amount |-> q.amount,
                        requestedBy |-> q.by, approvedBy |-> Nobody]
      /\ \A g \in RefundIds \ {f} : refunds'[g] = refunds[g]
  BY <1>3 DEF LedgerInv, NoRefund
<1>5. refunds' \in [RefundIds -> RefundRow]
  <2>1. refunds'[f] \in RefundRow
    BY <1>1, <1>4 DEF RefundRow
  <2> QED
    BY <1>3, <1>4, <2>1 DEF LedgerInv
<1>6. RowsGrow
  BY <1>2, <1>3, <1>4 DEF RowsGrow, Issued, Settled
<1>7. breq' = [s \in Handlers |-> breq'[s]] /\ HandlersHold'
  BY <1>2, <1>6, WriteStep DEF Idle, LedgerInv
<1>8. NumbersAreSequential'
  BY <1>2, NumbersKept DEF Issued
<1>9. PaidStaysPaid'
  BY <1>2 DEF LedgerInv, PaidStaysPaid, Issued, Settled
<1>10. RefundsAreOfPaid'
  BY <1>1, <1>2, <1>4 DEF LedgerInv, RefundsAreOfPaid, Settled, Issued
<1>11. FourEyes'
  BY <1>4 DEF LedgerInv, FourEyes, IsManagerOrAdmin
<1>12. ReversalWasDecided'
  BY <1>2, <1>3, <1>4 DEF LedgerInv, ReversalWasDecided
<1> QED
  BY <1>6, <1>2, <1>5, <1>7, <1>8, <1>9, <1>10, <1>11, <1>12 DEF LedgerInv

\* approveRefund decides and reverses in one transaction, whatever the
\* request has become since it was read.
LEMMA ApproveStep ==
  ASSUME LedgerInv, NEW r \in Handlers, ApproveRefundCommit(r)
  PROVE  LedgerInv' /\ RowsGrow
<1> DEFINE f == breq[r].refund
           i == refunds[f].invoice
           u == breq[r].by
<1>1. /\ f \in RefundIds /\ refunds[f].status # "NONE"
      /\ u \in Users /\ IsManagerOrAdmin(u) /\ refunds[f].requestedBy # u
      /\ breq[r].newStatus = ReversalOf(f)
  BY DEF ApproveRefundCommit, LedgerInv, HandlersHold, Holds
<1>2. i \in InvoiceIds /\ Settled(i)
  BY <1>1 DEF LedgerInv, RefundsAreOfPaid
<1>3. breq' = [breq EXCEPT ![r] = Idle]
  BY DEF ApproveRefundCommit, Finish, Continue
<1>4. refunds[f] \in RefundRow /\ invoices[i] \in InvoiceRow
  BY <1>1, <1>2 DEF LedgerInv
<1>5. /\ refunds'[f] = [refunds[f] EXCEPT !.status = "APPROVED", !.approvedBy = u]
      /\ \A g \in RefundIds \ {f} : refunds'[g] = refunds[g]
  BY <1>1 DEF ApproveRefundCommit, LedgerInv
<1>6. /\ refunds'[f].status = "APPROVED" /\ refunds'[f].approvedBy = u
      /\ refunds'[f].requestedBy = refunds[f].requestedBy
      /\ refunds'[f].invoice = i
      /\ refunds'[f].amount = refunds[f].amount
      /\ refunds'[f] \in RefundRow
  BY <1>1, <1>4, <1>5 DEF RefundRow
<1>7. /\ invoices'[i] = [invoices[i] EXCEPT !.status = ReversalOf(f)]
      /\ \A j \in InvoiceIds \ {i} : invoices'[j] = invoices[j]
  BY <1>1, <1>2 DEF ApproveRefundCommit, LedgerInv
<1>8. ReversalOf(f) \in {"REFUNDED", "PARTIALLY_REFUNDED"}
  BY DEF ReversalOf
<1>9. /\ invoices'[i].status = ReversalOf(f)
      /\ invoices'[i].paidAt = invoices[i].paidAt
      /\ invoices'[i].total = invoices[i].total
      /\ invoices'[i].number = invoices[i].number
      /\ invoices'[i] \in InvoiceRow
  BY <1>4, <1>7, <1>8 DEF InvoiceRow
<1>10. invoices' \in [InvoiceIds -> InvoiceRow]
  BY <1>2, <1>7, <1>9 DEF ApproveRefundCommit, LedgerInv
<1>11. refunds' \in [RefundIds -> RefundRow]
  BY <1>1, <1>5, <1>6 DEF ApproveRefundCommit, LedgerInv
<1>12. RowsGrow
  <2>1. ASSUME NEW j \in InvoiceIds
        PROVE  /\ Issued(j) => Issued(j)'
               /\ invoices'[j].total = invoices[j].total
               /\ Settled(j) => Settled(j)'
    <3>1. CASE j = i
      BY <3>1, <1>8, <1>9 DEF Issued, Settled
    <3>2. CASE j # i
      BY <3>2, <1>7 DEF Issued, Settled
    <3> QED
      BY <3>1, <3>2
  <2>2. \A g \in RefundIds : refunds[g].status # "NONE" =>
          /\ refunds'[g].status # "NONE"
          /\ refunds'[g].requestedBy = refunds[g].requestedBy
          /\ refunds'[g].invoice = refunds[g].invoice
          /\ refunds'[g].amount = refunds[g].amount
    BY <1>5, <1>6
  <2> QED
    BY <2>1, <2>2 DEF RowsGrow
<1>13. breq' = [s \in Handlers |-> breq'[s]] /\ HandlersHold'
  BY <1>3, <1>12, WriteStep DEF Idle, LedgerInv
<1>14. NumbersAreSequential'
  BY <1>2, <1>7, <1>8, <1>9, NumbersKept DEF Issued, Settled
<1>15. PaidStaysPaid'
  BY <1>2, <1>7, <1>8, <1>9 DEF LedgerInv, PaidStaysPaid, Issued, Settled
<1>16. RefundsAreOfPaid'
  BY <1>1, <1>5, <1>6, <1>12 DEF LedgerInv, RefundsAreOfPaid, RowsGrow, Settled
<1>17. FourEyes'
  <2> SUFFICES ASSUME NEW g \in RefundIds
               PROVE  /\ refunds'[g].status = "APPROVED" =>
                           refunds'[g].approvedBy # refunds'[g].requestedBy
                      /\ refunds'[g].status \in {"APPROVED", "REJECTED"} =>
                           refunds'[g].approvedBy \in Users /\ IsManagerOrAdmin(refunds'[g].approvedBy)
    BY DEF FourEyes, IsManagerOrAdmin
  <2>1. CASE g = f
    BY <2>1, <1>1, <1>6
  <2>2. CASE g # f
    BY <2>2, <1>5 DEF LedgerInv, FourEyes
  <2> QED
    BY <2>1, <2>2
<1>18. ReversalWasDecided'
  <2> SUFFICES ASSUME NEW j \in InvoiceIds,
                      invoices'[j].status \in {"REFUNDED", "PARTIALLY_REFUNDED"}
               PROVE  \E g \in RefundIds :
                        /\ refunds'[g].status \in {"APPROVED", "REJECTED"}
                        /\ refunds'[g].invoice = j
                        /\ invoices'[j].status = "REFUNDED"
                             <=> refunds'[g].amount = invoices'[j].total
    BY DEF ReversalWasDecided
  <2>1. CASE j = i
    BY <2>1, <1>1, <1>6, <1>9 DEF ReversalOf
  <2>2. CASE j # i
    <3>1. PICK g \in RefundIds :
            /\ refunds[g].status \in {"APPROVED", "REJECTED"} /\ refunds[g].invoice = j
            /\ invoices[j].status = "REFUNDED" <=> refunds[g].amount = invoices[j].total
      BY <2>2, <1>7 DEF LedgerInv, ReversalWasDecided
    <3> QED
      BY <3>1, <2>2, <1>5, <1>7
  <2> QED
    BY <2>1, <2>2
<1> QED
  BY <1>12, <1>3, <1>10, <1>11, <1>13, <1>14, <1>15, <1>16, <1>17, <1>18 DEF LedgerInv

\* rejectRefund writes its decision over whatever was decided since.
LEMMA RejectStep ==
  ASSUME LedgerInv, NEW r \in Handlers, RejectRefundWrite(r)
  PROVE  LedgerInv' /\ RowsGrow
<1> DEFINE f == breq[r].refund
           u == breq[r].by
<1>1. /\ f \in RefundIds /\ refunds[f].status # "NONE"
      /\ u \in Users /\ IsManagerOrAdmin(u)
  BY DEF RejectRefundWrite, LedgerInv, HandlersHold, Holds
<1>2. UNCHANGED invoices /\ breq' = [breq EXCEPT ![r] = Idle]
  BY DEF RejectRefundWrite, Finish, Continue
<1>3. refunds[f] \in RefundRow
  BY <1>1 DEF LedgerInv
<1>4. /\ refunds'[f] = [refunds[f] EXCEPT !.status = "REJECTED", !.approvedBy = u]
      /\ \A g \in RefundIds \ {f} : refunds'[g] = refunds[g]
  BY <1>1 DEF RejectRefundWrite, LedgerInv
<1>5. /\ refunds'[f].status = "REJECTED" /\ refunds'[f].approvedBy = u
      /\ refunds'[f].requestedBy = refunds[f].requestedBy
      /\ refunds'[f].invoice = refunds[f].invoice
      /\ refunds'[f].amount = refunds[f].amount
      /\ refunds'[f] \in RefundRow
  BY <1>1, <1>3, <1>4 DEF RefundRow
<1>6. refunds' \in [RefundIds -> RefundRow]
  BY <1>1, <1>4, <1>5 DEF RejectRefundWrite, LedgerInv
<1>7. RowsGrow
  BY <1>1, <1>2, <1>4, <1>5 DEF RowsGrow, Issued, Settled
<1>8. breq' = [s \in Handlers |-> breq'[s]] /\ HandlersHold'
  BY <1>2, <1>7, WriteStep DEF Idle, LedgerInv
<1>9. NumbersAreSequential'
  BY <1>2, NumbersKept DEF Issued
<1>10. PaidStaysPaid'
  BY <1>2 DEF LedgerInv, PaidStaysPaid, Issued, Settled
<1>11. RefundsAreOfPaid'
  BY <1>1, <1>2, <1>4, <1>5 DEF LedgerInv, RefundsAreOfPaid, Settled, Issued
<1>12. FourEyes'
  BY <1>1, <1>4, <1>5 DEF LedgerInv, FourEyes, IsManagerOrAdmin
<1>13. ReversalWasDecided'
  <2> SUFFICES ASSUME NEW j \in InvoiceIds,
                      invoices[j].status \in {"REFUNDED", "PARTIALLY_REFUNDED"}
               PROVE  \E g \in RefundIds :
                        /\ refunds'[g].status \in {"APPROVED", "REJECTED"}
                        /\ refunds'[g].invoice = j
                        /\ invoices[j].status = "REFUNDED"
                             <=> refunds'[g].amount = invoices[j].total
    BY <1>2 DEF ReversalWasDecided
  <2>1. PICK g \in RefundIds :
          /\ refunds[g].status \in {"APPROVED", "REJECTED"} /\ refunds[g].invoice = j
          /\ invoices[j].status = "REFUNDED" <=> refunds[g].amount = invoices[j].total
    BY DEF LedgerInv, ReversalWasDecided
  <2>2. /\ refunds'[g].status \in {"APPROVED", "REJECTED"}
        /\ refunds'[g].invoice = refunds[g].invoice
        /\ refunds'[g].amount = refunds[g].amount
    BY <2>1, <1>4, <1>5
  <2> QED
    BY <2>1, <2>2
<1> QED
  BY <1>7, <1>2, <1>6, <1>8, <1>9, <1>10, <1>11, <1>12, <1>13 DEF LedgerInv
-----------------------------------------------------------------------------
\* The invariant of the books

LEMMA LedgerInit == BillingInit => LedgerInv
<1> SUFFICES ASSUME BillingInit PROVE LedgerInv
  OBVIOUS
<1>1. /\ invoices = [i \in InvoiceIds |-> NoInvoice]
      /\ refunds = [f \in RefundIds |-> NoRefund]
      /\ breq = [r \in Handlers |-> Idle]
  BY DEF BillingInit
<1>2. \A i \in InvoiceIds : invoices[i].status = "NONE"
  BY <1>1 DEF NoInvoice
<1>3. \A f \in RefundIds : refunds[f].status = "NONE"
  BY <1>1 DEF NoRefund
<1>4. invoices \in [InvoiceIds -> InvoiceRow] /\ refunds \in [RefundIds -> RefundRow]
  BY <1>1 DEF NoInvoice, InvoiceRow, NoRefund, RefundRow
<1>5. breq = [r \in Handlers |-> breq[r]] /\ HandlersHold
  BY <1>1 DEF Idle, HandlersHold, Holds
<1>6. NumbersAreSequential
  <2>1. IssuedIds = {}
    BY <1>2 DEF IssuedIds, Issued
  <2>2. Cardinality(IssuedIds) = 0
    BY <2>1, FS_EmptySet
  <2> QED
    BY <2>1, <2>2 DEF NumbersAreSequential
<1>7. PaidStaysPaid /\ RefundsAreOfPaid /\ FourEyes /\ ReversalWasDecided
  BY <1>2, <1>3 DEF PaidStaysPaid, RefundsAreOfPaid, FourEyes, ReversalWasDecided, Issued
<1> QED
  BY <1>4, <1>5, <1>6, <1>7 DEF LedgerInv

\* Handlers that read: what they take along is true of the books they read.
LEMMA InvoiceReads ==
  ASSUME LedgerInv, NEW r \in Handlers,
         \/ \E o \in OrderIds, d \in Discounts : CreateInvoiceRead(r, o, d)
         \/ GenerateInvoiceNumber(r)
  PROVE  LedgerInv'
<1>1. ASSUME NEW o \in OrderIds, NEW d \in Discounts, CreateInvoiceRead(r, o, d)
      PROVE  LedgerInv'
  BY <1>1, ReadStep DEF CreateInvoiceRead, Continue, books, Holds, LedgerInv
<1>2. CASE GenerateInvoiceNumber(r)
  <2>1. breq[r].order \in OrderIds /\ breq[r].total \in Amounts
    BY <1>2 DEF GenerateInvoiceNumber, LedgerInv, HandlersHold, Holds
  <2>2. Cardinality(IssuedIds) + 1 \in 1..(Cardinality(IssuedIds) + 1)
    BY IssuedFinite
  <2>3. IssuedIds' = IssuedIds
    BY <1>2 DEF GenerateInvoiceNumber, books, IssuedIds, Issued
  <2>4. breq' = [breq EXCEPT ![r] =
          [at |-> "invoice.insert", order |-> breq[r].order, total |-> breq[r].total,
           number |-> Cardinality(IssuedIds) + 1]]
    BY <1>2 DEF GenerateInvoiceNumber, Continue
  <2>5. Holds(breq[r])'
    BY <2>1, <2>2, <2>3, <2>4 DEF Holds, LedgerInv
  <2> QED
    BY <1>2, <2>4, <2>5, ReadStep DEF GenerateInvoiceNumber, books, LedgerInv
<1> QED
  BY <1>1, <1>2

LEMMA SettleReads ==
  ASSUME LedgerInv, NEW r \in Handlers,
         \/ \E i \in InvoiceIds : ConfirmPaymentRead(r, i) \/ WebhookRead(r, i)
         \/ DecrementRead(r) \/ DecrementOne(r) \/ DecrementDone(r) \/ Respond(r)
         \/ AbandonBilling(r)
  PROVE  LedgerInv'
<1>1. ASSUME NEW i \in InvoiceIds, ConfirmPaymentRead(r, i)
      PROVE  LedgerInv'
  BY <1>1, ReadStep DEF ConfirmPaymentRead, Continue, books, Holds, LedgerInv, Issued
<1>2. ASSUME NEW i \in InvoiceIds, WebhookRead(r, i)
      PROVE  LedgerInv'
  <2>1. CASE invoices[i].intent /\ invoices[i].status = "UNPAID"
    BY <1>2, <2>1, ReadStep DEF WebhookRead, Continue, books, Holds, LedgerInv, Issued
  <2>2. CASE ~ (invoices[i].intent /\ invoices[i].status = "UNPAID")
    BY <1>2, <2>2, Untouched DEF WebhookRead, books
  <2> QED
    BY <2>1, <2>2
<1>3. CASE DecrementRead(r)
  BY <1>3, ReadStep DEF DecrementRead, Continue, books, Holds, LedgerInv
<1>4. CASE DecrementOne(r)
  <2>1. PICK u \in breq[r].left :
          breq' = [breq EXCEPT ![r] =
            [at |-> "stock.take", invoice |-> breq[r].invoice, method |-> breq[r].method,
             left |-> breq[r].left \ {u}]]
    BY <1>4 DEF DecrementOne, Continue
  <2>2. Holds(breq[r])'
    BY <2>1 DEF Holds, LedgerInv
  <2> QED
    BY <1>4, <2>1, <2>2, ReadStep DEF DecrementOne, LedgerInv
<1>5. CASE DecrementDone(r)
  BY <1>5, ReadStep DEF DecrementDone, Continue, books, Holds, LedgerInv
<1>6. CASE Respond(r)
  BY <1>6, ReadStep DEF Respond, Finish, Continue, Idle, books, Holds, LedgerInv
<1>7. CASE AbandonBilling(r)
  BY <1>7, ReadStep DEF AbandonBilling, Finish, Continue, Idle, books, Holds, LedgerInv
<1> QED
  BY <1>1, <1>2, <1>3, <1>4, <1>5, <1>6, <1>7

LEMMA IntentReads ==
  ASSUME LedgerInv, NEW r \in Handlers,
         (\E i \in InvoiceIds : CreateIntentRead(r, i)) \/ CreateIntentCall(r)
  PROVE  LedgerInv'
<1>1. ASSUME NEW i \in InvoiceIds, CreateIntentRead(r, i)
      PROVE  LedgerInv'
  BY <1>1, ReadStep DEF CreateIntentRead, Continue, books, Holds, LedgerInv
<1>2. CASE CreateIntentCall(r)
  <2>1. breq[r].invoice \in InvoiceIds
    BY <1>2 DEF CreateIntentCall, LedgerInv, HandlersHold, Holds
  <2> QED
    BY <1>2, <2>1, ReadStep DEF CreateIntentCall, Continue, books, Holds, LedgerInv
<1> QED
  BY <1>1, <1>2

LEMMA RefundReads ==
  ASSUME LedgerInv, NEW r \in Handlers,
         \/ \E i \in InvoiceIds, a \in Amounts, u \in Users : RequestRefundRead(r, i, a, u)
         \/ RequestRefundPending(r)
         \/ \E f \in RefundIds, u \in Users : ApproveRefundRead(r, f, u) \/ RejectRefundRead(r, f, u)
  PROVE  LedgerInv'
<1>1. ASSUME NEW i \in InvoiceIds, NEW a \in Amounts, NEW u \in Users,
             RequestRefundRead(r, i, a, u)
      PROVE  LedgerInv'
  <2>1. Settled(i)
    BY <1>1 DEF RequestRefundRead, LedgerInv, PaidStaysPaid, Issued, Settled
  <2>2. Holds(breq[r])'
    BY <1>1, <2>1 DEF RequestRefundRead, Continue, books, Holds, LedgerInv, Settled, Issued
  <2> QED
    BY <1>1, <2>2, ReadStep DEF RequestRefundRead, Continue, books, LedgerInv
<1>2. CASE RequestRefundPending(r)
  <2>1. Holds(breq[r])
    BY DEF LedgerInv, HandlersHold
  <2>2. Holds(breq[r])'
    BY <1>2, <2>1 DEF RequestRefundPending, Continue, books, Holds, LedgerInv, Settled, Issued
  <2> QED
    BY <1>2, <2>2, ReadStep DEF RequestRefundPending, Continue, books, LedgerInv
<1>3. ASSUME NEW f \in RefundIds, NEW u \in Users, ApproveRefundRead(r, f, u)
      PROVE  LedgerInv'
  <2>1. Holds(breq[r])'
    BY <1>3 DEF ApproveRefundRead, Continue, books, Holds, LedgerInv, IsManagerOrAdmin, ReversalOf
  <2> QED
    BY <1>3, <2>1, ReadStep DEF ApproveRefundRead, Continue, books, LedgerInv
<1>4. ASSUME NEW f \in RefundIds, NEW u \in Users, RejectRefundRead(r, f, u)
      PROVE  LedgerInv'
  <2>1. Holds(breq[r])'
    BY <1>4 DEF RejectRefundRead, Continue, books, Holds, LedgerInv, IsManagerOrAdmin
  <2> QED
    BY <1>4, <2>1, ReadStep DEF RejectRefundRead, Continue, books, LedgerInv
<1> QED
  BY <1>1, <1>2, <1>3, <1>4

LEMMA LedgerStep == LedgerInv /\ [BillingNext]_bvars => LedgerInv'
<1> SUFFICES ASSUME LedgerInv, [BillingNext]_bvars PROVE LedgerInv'
  OBVIOUS
<1>1. CASE UNCHANGED bvars
  BY <1>1, Untouched DEF bvars, books
<1>2. CASE Next /\ UNCHANGED <<books, stripe, breq>>
  BY <1>2, Untouched DEF books
<1>3. ASSUME NEW i \in InvoiceIds, GuestPays(i) PROVE LedgerInv'
  BY <1>3, Untouched DEF GuestPays, books
<1>4. ASSUME NEW r \in Handlers,
             InvoiceStep(r) \/ SettleStep(r) \/ IntentStep(r) \/ RefundStep(r) \/ AbandonBilling(r)
      PROVE  LedgerInv'
  <2>1. CASE InvoiceStep(r)
    BY <2>1, InvoiceReads, InsertStep DEF InvoiceStep
  <2>2. CASE SettleStep(r) \/ AbandonBilling(r)
    BY <2>2, SettleReads, SettlementStep DEF SettleStep
  <2>3. CASE IntentStep(r)
    BY <2>3, IntentReads, IntentSaveStep DEF IntentStep
  <2>4. CASE RefundStep(r)
    BY <2>4, RefundReads, RequestRefundStep, ApproveStep, RejectStep DEF RefundStep
  <2> QED
    BY <1>4, <2>1, <2>2, <2>3, <2>4
<1> QED
  BY <1>1, <1>2, <1>3, <1>4 DEF BillingNext

\* Every step leaves the rows true that a handler may rely on.
LEMMA RowsAlone == UNCHANGED <<invoices, refunds>> => RowsGrow
BY DEF RowsGrow, Issued, Settled

LEMMA GrowStep ==
  ASSUME LedgerInv, [BillingNext]_bvars
  PROVE  RowsGrow
<1>1. CASE UNCHANGED bvars
  BY <1>1, RowsAlone DEF bvars, books
<1>2. CASE Next /\ UNCHANGED <<books, stripe, breq>>
  BY <1>2, RowsAlone DEF books
<1>3. ASSUME NEW i \in InvoiceIds, GuestPays(i) PROVE RowsGrow
  BY <1>3, RowsAlone DEF GuestPays, books
<1>4. ASSUME NEW r \in Handlers,
             InvoiceStep(r) \/ SettleStep(r) \/ IntentStep(r) \/ RefundStep(r) \/ AbandonBilling(r)
      PROVE  RowsGrow
  <2>1. CASE InvoiceStep(r)
    BY <2>1, InsertStep, RowsAlone DEF InvoiceStep, CreateInvoiceRead, GenerateInvoiceNumber, books
  <2>2. CASE SettleStep(r) \/ AbandonBilling(r)
    BY <2>2, SettlementStep, RowsAlone
       DEF SettleStep, ConfirmPaymentRead, WebhookRead, DecrementRead, DecrementOne, DecrementDone,
           Respond, AbandonBilling, books
  <2>3. CASE IntentStep(r)
    BY <2>3, IntentSaveStep, RowsAlone DEF IntentStep, CreateIntentRead, CreateIntentCall, books
  <2>4. CASE RefundStep(r)
    BY <2>4, RequestRefundStep, ApproveStep, RejectStep, RowsAlone
       DEF RefundStep, RequestRefundRead, RequestRefundPending, ApproveRefundRead,
           RejectRefundRead, books
  <2> QED
    BY <1>4, <2>1, <2>2, <2>3, <2>4
<1> QED
  BY <1>1, <1>2, <1>3, <1>4 DEF BillingNext

\* The books keep their invariant whatever races.
THEOREM LedgerInvariance == BillingSpec => []LedgerInv
<1> QED
  BY LedgerInit, LedgerStep, PTL DEF BillingSpec

\* Invoice numbers are gapless and distinct, though counted before the insert.
THEOREM NumbersSequential == BillingSpec => []NumbersAreSequential
<1>1. LedgerInv => NumbersAreSequential
  BY DEF LedgerInv
<1> QED
  BY <1>1, LedgerInvariance, PTL

\* An invoice is payable exactly as long as nobody settled it.
THEOREM SettledForGood == BillingSpec => []PaidStaysPaid
<1>1. LedgerInv => PaidStaysPaid
  BY DEF LedgerInv
<1> QED
  BY <1>1, LedgerInvariance, PTL

\* Refunds are of settled invoices, within their total.
THEOREM RefundsOfPaid == BillingSpec => []RefundsAreOfPaid
<1>1. LedgerInv => RefundsAreOfPaid
  BY DEF LedgerInv
<1> QED
  BY <1>1, LedgerInvariance, PTL

\* Separation of duties, also between decisions that race.
THEOREM SeparationOfDuties == BillingSpec => []FourEyes
<1>1. LedgerInv => FourEyes
  BY DEF LedgerInv
<1> QED
  BY <1>1, LedgerInvariance, PTL

\* No reversal without a decided request of that size.
THEOREM ReversalsDecided == BillingSpec => []ReversalWasDecided
<1>1. LedgerInv => ReversalWasDecided
  BY DEF LedgerInv
<1> QED
  BY <1>1, LedgerInvariance, PTL
-----------------------------------------------------------------------------
\* Charges at Stripe

\* A handler goes on; the others stay behind what they wrote.
LEMMA BehindKept ==
  ASSUME LedgerInv, HandlersAreBehind, RowsGrow, NEW r \in Handlers,
         breq' = [breq EXCEPT ![r] = breq'[r]],
         Behind(breq[r])'
  PROVE  HandlersAreBehind'
<1> SUFFICES ASSUME NEW s \in Handlers PROVE Behind(breq[s])'
  BY DEF HandlersAreBehind
<1>1. CASE s = r
  BY <1>1
<1>2. CASE s # r
  <2>1. PICK q : q = breq[s]
    OBVIOUS
  <2>2. Behind(q)
    BY <2>1 DEF HandlersAreBehind
  <2>3. Behind(q)'
    BY <2>2 DEF Behind, RowsGrow
  <2>4. breq'[s] = q
    BY <1>2, <2>1 DEF LedgerInv
  <2> QED
    BY <2>3, <2>4 DEF Behind
<1> QED
  BY <1>1, <1>2

\* Steps that neither pay nor save an intent, and forget only settled events.
LEMMA ChargesKept ==
  ASSUME ChargesInv, RowsGrow, UNCHANGED intents,
         \A i \in InvoiceIds : invoices'[i].intent = invoices[i].intent,
         undelivered' \subseteq undelivered,
         \A i \in undelivered \ undelivered' : Settled(i)
  PROVE  IntentsAreOfInvoices' /\ ChargeIsKept'
<1>1. \A i \in InvoiceIds : Issued(i) => Issued(i)'
  BY DEF RowsGrow
<1>2. \A i \in InvoiceIds : Settled(i) => Settled(i)'
  BY DEF RowsGrow
<1>3. IntentsAreOfInvoices'
  BY <1>1 DEF ChargesInv, IntentsAreOfInvoices, Issued
<1>4. ChargeIsKept'
  BY <1>2 DEF ChargesInv, IntentsAreOfInvoices, ChargeIsKept, Settled, Issued
<1> QED
  BY <1>3, <1>4

LEMMA ChargesStart == BillingInit => ChargesInv
BY DEF BillingInit, ChargesInv, HandlersAreBehind, Behind, IntentsAreOfInvoices, ChargeIsKept, Idle,
   NoInvoice, Issued

\* Handlers that read, and the writes of rows other than a saved intent.
LEMMA ChargesQuiet ==
  ASSUME LedgerInv, ChargesInv, RowsGrow, NEW r \in Handlers, UNCHANGED stripe,
         \A i \in InvoiceIds : invoices'[i].intent = invoices[i].intent,
         breq' = [breq EXCEPT ![r] = breq'[r]],
         Behind(breq[r])'
  PROVE  ChargesInv'
<1>1. HandlersAreBehind'
  BY BehindKept DEF ChargesInv
<1>2. IntentsAreOfInvoices' /\ ChargeIsKept'
  BY ChargesKept DEF stripe
<1> QED
  BY <1>1, <1>2 DEF ChargesInv

LEMMA ChargesInvoice ==
  ASSUME LedgerInv, ChargesInv, RowsGrow, NEW r \in Handlers, InvoiceStep(r)
  PROVE  ChargesInv'
<1>1. CASE CreateInvoiceInsert(r)
  <2>1. PICK i \in InvoiceIds :
          /\ ~ Issued(i)
          /\ invoices' = [invoices EXCEPT ![i] =
               [NoInvoice EXCEPT !.status = "UNPAID", !.order = breq[r].order,
                                 !.number = breq[r].number, !.total = breq[r].total]]
    BY <1>1 DEF CreateInvoiceInsert
  <2>2. invoices'[i].intent = FALSE /\ \A j \in InvoiceIds \ {i} : invoices'[j] = invoices[j]
    BY <2>1 DEF LedgerInv, NoInvoice
  <2>3. invoices[i].intent = FALSE
    BY <2>1 DEF ChargesInv, IntentsAreOfInvoices, LedgerInv, InvoiceRow
  <2>4. breq' = [breq EXCEPT ![r] = Idle] /\ UNCHANGED stripe
    BY <1>1 DEF CreateInvoiceInsert, Finish, Continue
  <2>5. breq'[r] = Idle /\ breq' = [breq EXCEPT ![r] = breq'[r]]
    BY <2>4 DEF LedgerInv
  <2>6. Behind(breq[r])'
    BY <2>5 DEF Behind, Idle
  <2>7. \A j \in InvoiceIds : invoices'[j].intent = invoices[j].intent
    BY <2>2, <2>3
  <2> QED
    BY <2>4, <2>5, <2>6, <2>7, ChargesQuiet
<1>2. CASE ~ CreateInvoiceInsert(r)
  <2>1. /\ UNCHANGED stripe /\ UNCHANGED invoices
        /\ breq' = [breq EXCEPT ![r] = breq'[r]]
        /\ breq'[r].at \in {"invoice.number", "invoice.insert"}
    BY <1>2 DEF InvoiceStep, CreateInvoiceRead, GenerateInvoiceNumber, Continue, books, LedgerInv
  <2> QED
    BY <2>1, ChargesQuiet DEF Behind
<1> QED
  BY <1>1, <1>2

LEMMA ChargesRefund ==
  ASSUME LedgerInv, ChargesInv, RowsGrow, NEW r \in Handlers, RefundStep(r) \/ AbandonBilling(r)
  PROVE  ChargesInv'
<1>1. CASE ApproveRefundCommit(r)
  <2>1. \A i \in InvoiceIds : invoices'[i].intent = invoices[i].intent
    BY <1>1 DEF ApproveRefundCommit, LedgerInv, InvoiceRow
  <2>2. breq' = [breq EXCEPT ![r] = Idle] /\ UNCHANGED stripe
    BY <1>1 DEF ApproveRefundCommit, Finish, Continue
  <2>3. breq'[r] = Idle /\ breq' = [breq EXCEPT ![r] = breq'[r]]
    BY <2>2 DEF LedgerInv
  <2>4. Behind(breq[r])'
    BY <2>3 DEF Behind, Idle
  <2> QED
    BY <2>1, <2>2, <2>3, <2>4, ChargesQuiet
<1>2. CASE ~ ApproveRefundCommit(r)
  <2>1. /\ UNCHANGED stripe /\ UNCHANGED invoices
        /\ breq' = [breq EXCEPT ![r] = breq'[r]]
        /\ breq'[r].at \in {"refund.pending", "refund.insert", "approve.tx", "reject.write", "idle"}
    BY <1>2 DEF RefundStep, AbandonBilling, RequestRefundRead, RequestRefundPending,
       RequestRefundInsert, ApproveRefundRead, RejectRefundRead, RejectRefundWrite,
       Finish, Continue, Idle, books, LedgerInv
  <2> QED
    BY <2>1, ChargesQuiet DEF Behind
<1> QED
  BY <1>1, <1>2

\* Settlement: the event is forgotten after the invoice is settled only.
LEMMA ChargesSettle ==
  ASSUME LedgerInv, ChargesInv, RowsGrow, NEW r \in Handlers, SettleStep(r)
  PROVE  ChargesInv'
<1>1. ASSUME NEW i \in InvoiceIds, ConfirmPaymentRead(r, i) PROVE ChargesInv'
  <2>1. /\ UNCHANGED stripe /\ UNCHANGED invoices
        /\ breq' = [breq EXCEPT ![r] = breq'[r]] /\ breq'[r].at = "pay.tx"
    BY <1>1 DEF ConfirmPaymentRead, Continue, books, LedgerInv
  <2> QED
    BY <2>1, ChargesQuiet DEF Behind
<1>2. ASSUME NEW i \in InvoiceIds, WebhookRead(r, i) PROVE ChargesInv'
  <2>1. CASE invoices[i].intent /\ invoices[i].status = "UNPAID"
    <3>1. /\ UNCHANGED stripe /\ UNCHANGED invoices
          /\ breq' = [breq EXCEPT ![r] = breq'[r]] /\ breq'[r].at = "pay.tx"
      BY <1>2, <2>1 DEF WebhookRead, Continue, books, stripe, LedgerInv
    <3> QED
      BY <3>1, ChargesQuiet DEF Behind
  <2>2. CASE ~ (invoices[i].intent /\ invoices[i].status = "UNPAID")
    <3>1. UNCHANGED <<invoices, intents, breq>> /\ undelivered' = undelivered \ {i} /\ i \in undelivered
      BY <1>2, <2>2 DEF WebhookRead, books
    <3>2. invoices[i].intent /\ Issued(i)
      BY <3>1 DEF ChargesInv, IntentsAreOfInvoices
    <3>3. Settled(i)
      BY <2>2, <3>2 DEF LedgerInv, PaidStaysPaid
    <3>4. IntentsAreOfInvoices' /\ ChargeIsKept'
      BY <3>1, <3>3, ChargesKept
    <3>5. HandlersAreBehind'
      BY <3>1 DEF ChargesInv, HandlersAreBehind, Behind, Settled, Issued
    <3> QED
      BY <3>4, <3>5 DEF ChargesInv
  <2> QED
    BY <2>1, <2>2
<1>3. CASE Settle(r)
  <2>1. PICK i \in InvoiceIds : i = breq[r].invoice /\ Issued(i)
    BY <1>3 DEF Settle, LedgerInv, HandlersHold, Holds
  <2>2. invoices' = [invoices EXCEPT
          ![i].status = "PAID", ![i].paidAt = @ + 1,
          ![i].method = IF breq[r].method = "STRIPE" THEN "STRIPE" ELSE @]
    BY <1>3, <2>1 DEF Settle
  <2>3. /\ \A j \in InvoiceIds : invoices'[j].intent = invoices[j].intent
        /\ invoices'[i].status = "PAID"
        /\ invoices'[i].paidAt = invoices[i].paidAt + 1
    BY <2>1, <2>2 DEF LedgerInv, InvoiceRow
  <2>4. Settled(i)'
    BY <2>1, <2>3 DEF Settled, Issued, LedgerInv, InvoiceRow
  <2>5. /\ UNCHANGED stripe
        /\ breq' = [breq EXCEPT ![r] = [at |-> "stock.read", invoice |-> i, method |-> breq[r].method]]
    BY <1>3, <2>1 DEF Settle, Continue
  <2>6. /\ breq' = [breq EXCEPT ![r] = breq'[r]]
        /\ breq'[r] = [at |-> "stock.read", invoice |-> i, method |-> breq[r].method]
    BY <2>5 DEF LedgerInv
  <2>7. Behind(breq[r])'
    BY <2>4, <2>6 DEF Behind, Settled, Issued
  <2> QED
    BY <2>3, <2>5, <2>6, <2>7, ChargesQuiet
<1>4. CASE DecrementRead(r) \/ DecrementOne(r) \/ DecrementDone(r)
  <2>1. breq[r].invoice \in InvoiceIds /\ Settled(breq[r].invoice)
    BY <1>4 DEF DecrementRead, DecrementOne, DecrementDone, ChargesInv, HandlersAreBehind, Behind
  <2>2. /\ UNCHANGED stripe /\ UNCHANGED invoices
        /\ breq' = [breq EXCEPT ![r] = breq'[r]]
        /\ breq'[r].at \in {"stock.take", "respond"} /\ breq'[r].invoice = breq[r].invoice
    BY <1>4 DEF DecrementRead, DecrementOne, DecrementDone, Continue, books, LedgerInv
  <2>3. Behind(breq[r])'
    BY <2>1, <2>2 DEF Behind, Settled, Issued
  <2> QED
    BY <2>2, <2>3, ChargesQuiet
<1>5. CASE Respond(r)
  <2>1. breq[r].invoice \in InvoiceIds /\ Settled(breq[r].invoice)
    BY <1>5 DEF Respond, ChargesInv, HandlersAreBehind, Behind
  <2>2. /\ UNCHANGED <<invoices, intents>> /\ breq' = [breq EXCEPT ![r] = Idle]
        /\ undelivered' = IF breq[r].method = "STRIPE" THEN undelivered \ {breq[r].invoice}
                          ELSE undelivered
    BY <1>5 DEF Respond, Finish, Continue, books
  <2>3. undelivered' \subseteq undelivered /\ \A i \in undelivered \ undelivered' : Settled(i)
    BY <2>1, <2>2
  <2>4. breq'[r] = Idle /\ breq' = [breq EXCEPT ![r] = breq'[r]]
    BY <2>2 DEF LedgerInv
  <2>5. HandlersAreBehind'
    BY <2>4, BehindKept DEF ChargesInv, Behind, Idle
  <2>6. IntentsAreOfInvoices' /\ ChargeIsKept'
    BY <2>2, <2>3, ChargesKept
  <2> QED
    BY <2>5, <2>6 DEF ChargesInv
<1> QED
  BY <1>1, <1>2, <1>3, <1>4, <1>5 DEF SettleStep

\* Intents are made once, saved on an invoice that exists, and paid by guests.
LEMMA ChargesIntent ==
  ASSUME LedgerInv, ChargesInv, RowsGrow, NEW r \in Handlers, IntentStep(r)
  PROVE  ChargesInv'
<1>1. ASSUME NEW i \in InvoiceIds, CreateIntentRead(r, i) PROVE ChargesInv'
  <2>1. /\ UNCHANGED stripe /\ UNCHANGED invoices
        /\ breq' = [breq EXCEPT ![r] = breq'[r]] /\ breq'[r] = [at |-> "intent.create", invoice |-> i]
    BY <1>1 DEF CreateIntentRead, Continue, books, LedgerInv
  <2>2. Issued(i)'
    BY <1>1, <2>1 DEF CreateIntentRead, Issued
  <2>3. Behind(breq[r])'
    BY <2>1, <2>2 DEF Behind, Issued
  <2> QED
    BY <2>1, <2>3, ChargesQuiet
<1>2. CASE CreateIntentCall(r)
  <2>1. PICK i \in InvoiceIds : i = breq[r].invoice /\ Issued(i)
    BY <1>2 DEF CreateIntentCall, ChargesInv, HandlersAreBehind, Behind
  <2>2. /\ UNCHANGED <<invoices, undelivered>>
        /\ intents' = [intents EXCEPT ![i] = IF @ = "none" THEN "open" ELSE @]
        /\ breq' = [breq EXCEPT ![r] = breq'[r]] /\ breq'[r] = [at |-> "intent.save", invoice |-> i]
    BY <1>2, <2>1 DEF CreateIntentCall, Continue, books, LedgerInv
  <2>3. /\ intents' \in [InvoiceIds -> {"none", "open", "paid"}]
        /\ \A j \in InvoiceIds : intents'[j] = "paid" <=> intents[j] = "paid"
    BY <2>2 DEF ChargesInv, IntentsAreOfInvoices
  <2>4. IntentsAreOfInvoices' /\ ChargeIsKept'
    BY <2>2, <2>3 DEF ChargesInv, IntentsAreOfInvoices, ChargeIsKept, Settled, Issued
  <2>5. Behind(breq[r])'
    BY <2>1, <2>2 DEF Behind, Issued
  <2>6. HandlersAreBehind'
    BY <2>2, <2>5, BehindKept DEF ChargesInv
  <2> QED
    BY <2>4, <2>6 DEF ChargesInv
<1>3. CASE CreateIntentSave(r)
  <2>1. PICK i \in InvoiceIds : i = breq[r].invoice /\ Issued(i)
    BY <1>3 DEF CreateIntentSave, ChargesInv, HandlersAreBehind, Behind
  <2>2. /\ UNCHANGED <<intents, undelivered>>
        /\ invoices' = [invoices EXCEPT ![i].intent = TRUE]
        /\ breq' = [breq EXCEPT ![r] = breq'[r]] /\ breq'[r] = Idle
    BY <1>3, <2>1 DEF CreateIntentSave, Finish, Continue, stripe, LedgerInv
  <2>3. /\ invoices'[i].intent = TRUE
        /\ \A j \in InvoiceIds \ {i} : invoices'[j] = invoices[j]
    BY <2>1, <2>2 DEF LedgerInv, InvoiceRow
  <2>4. \A j \in InvoiceIds : Issued(j) => Issued(j)'
    BY DEF RowsGrow
  <2>5. IntentsAreOfInvoices'
    BY <2>1, <2>2, <2>3, <2>4 DEF ChargesInv, IntentsAreOfInvoices
  <2>6. ChargeIsKept'
    <3>1. \A j \in InvoiceIds : Settled(j) => Settled(j)'
      BY DEF RowsGrow
    <3> QED
      BY <2>2, <3>1 DEF ChargesInv, ChargeIsKept
  <2>7. HandlersAreBehind'
    BY <2>2, BehindKept DEF ChargesInv, Behind, Idle
  <2> QED
    BY <2>5, <2>6, <2>7 DEF ChargesInv
<1> QED
  BY <1>1, <1>2, <1>3 DEF IntentStep

LEMMA ChargesPaid ==
  ASSUME ChargesInv, NEW i \in InvoiceIds, GuestPays(i)
  PROVE  ChargesInv'
<1>1. /\ UNCHANGED <<invoices, breq>> /\ invoices[i].intent
      /\ intents' = [intents EXCEPT ![i] = "paid"] /\ undelivered' = undelivered \cup {i}
  BY DEF GuestPays, books
<1>2. HandlersAreBehind'
  BY <1>1 DEF ChargesInv, HandlersAreBehind, Behind, Settled, Issued
<1>3. IntentsAreOfInvoices'
  BY <1>1 DEF ChargesInv, IntentsAreOfInvoices, Issued
<1>4. ChargeIsKept'
  BY <1>1 DEF ChargesInv, IntentsAreOfInvoices, ChargeIsKept, Settled, Issued
<1> QED
  BY <1>2, <1>3, <1>4 DEF ChargesInv

LEMMA ChargesStep == LedgerInv /\ ChargesInv /\ [BillingNext]_bvars => ChargesInv'
<1> SUFFICES ASSUME LedgerInv, ChargesInv, [BillingNext]_bvars PROVE ChargesInv'
  OBVIOUS
<1>1. RowsGrow
  BY GrowStep
<1>2. ASSUME UNCHANGED <<invoices, stripe, breq>> PROVE ChargesInv'
  BY <1>2 DEF ChargesInv, HandlersAreBehind, Behind, IntentsAreOfInvoices, ChargeIsKept, stripe,
     Settled, Issued
<1>3. CASE UNCHANGED bvars \/ (Next /\ UNCHANGED <<books, stripe, breq>>)
  BY <1>2, <1>3 DEF bvars, books
<1> QED
  BY <1>1, <1>3, ChargesPaid, ChargesInvoice, ChargesSettle, ChargesIntent, ChargesRefund
     DEF BillingNext

\* With the books, the charges keep their invariant.
THEOREM ChargesInvariance == BillingSpec => []ChargesInv
<1> QED
  BY ChargesStart, ChargesStep, LedgerInvariance, PTL DEF BillingSpec

\* Stripe goes on delivering a payment until the invoice it paid is settled,
\* whoever else answers, fails or settles meanwhile: no charge is lost.
THEOREM NoChargeIsLost == BillingSpec => []ChargeIsKept
<1>1. ChargesInv => ChargeIsKept
  BY DEF ChargesInv
<1> QED
  BY <1>1, ChargesInvariance, PTL
-----------------------------------------------------------------------------
\* Billing implements Ledger

LEMMA BillOfIssued ==
  ASSUME NEW i \in InvoiceIds
  PROVE  /\ Issued(i) => /\ Bill[i] = [state |-> invoices[i].status, order |-> invoices[i].order,
                                       total |-> invoices[i].total, number |-> invoices[i].number]
                         /\ Bill[i] # TheLedger!NoBill
         /\ ~ Issued(i) => Bill[i] = TheLedger!NoBill
BY DEF Bill, TheLedger!NoBill, Issued

LEMMA ClaimOfFiled ==
  ASSUME NEW f \in RefundIds
  PROVE  /\ refunds[f].status # "NONE" =>
              /\ Claim[f] = [state |-> refunds[f].status, invoice |-> refunds[f].invoice,
                             amount |-> refunds[f].amount, requestedBy |-> refunds[f].requestedBy,
                             decidedBy |-> refunds[f].approvedBy]
              /\ Claim[f] # TheLedger!NoClaim
         /\ refunds[f].status = "NONE" => Claim[f] = TheLedger!NoClaim
BY DEF Claim, TheLedger!NoClaim

\* The views are functions, whatever their rows hold.
LEMMA ViewsAreFunctions ==
  /\ Bill = [i \in InvoiceIds |-> Bill[i]] /\ Bill' = [i \in InvoiceIds |-> Bill'[i]]
  /\ Claim = [f \in RefundIds |-> Claim[f]] /\ Claim' = [f \in RefundIds |-> Claim'[f]]
BY DEF Bill, Claim

LEMMA SameCount ==
  ASSUME NEW S
  PROVE  TheLedger!Cardinality(S) = Cardinality(S)
BY DEF TheLedger!Cardinality, Cardinality, TheLedger!IsFiniteSet, IsFiniteSet

LEMMA DrawnIsIssued == TheLedger!Drawn = IssuedIds
BY BillOfIssued DEF TheLedger!Drawn, IssuedIds

LEMMA LedgerStarts == BillingInit => TheLedger!Init
BY DEF BillingInit, TheLedger!Init, TheLedger!NoBill, TheLedger!NoClaim, Bill, Claim, Issued,
   NoInvoice, NoRefund

\* The insert succeeds with the number after the last only: what the unique
\* column refuses is every other number a stale count can have given.
LEMMA InsertDraws ==
  ASSUME LedgerInv, NEW r \in Handlers, CreateInvoiceInsert(r)
  PROVE  TheLedger!Next
<1> DEFINE q == breq[r]
<1>1. PICK i \in InvoiceIds :
        /\ ~ Issued(i)
        /\ invoices' = [invoices EXCEPT ![i] =
             [NoInvoice EXCEPT !.status = "UNPAID", !.order = q.order,
                               !.number = q.number, !.total = q.total]]
  BY DEF CreateInvoiceInsert
<1>2. /\ q.order \in OrderIds
      /\ q.total \in Amounts
      /\ q.number \in 1..(Cardinality(IssuedIds) + 1)
  BY DEF CreateInvoiceInsert, LedgerInv, HandlersHold, Holds
<1>3. q.number = Cardinality(IssuedIds) + 1
  <2>1. {invoices[j].number : j \in IssuedIds} = 1..Cardinality(IssuedIds)
    BY DEF LedgerInv, NumbersAreSequential
  <2>2. q.number \notin 1..Cardinality(IssuedIds)
    BY <2>1 DEF CreateInvoiceInsert, IssuedIds
  <2> QED
    BY <1>2, <2>2, IssuedFinite
<1>4. /\ invoices'[i].status = "UNPAID" /\ invoices'[i].order = q.order
      /\ invoices'[i].number = q.number /\ invoices'[i].total = q.total
      /\ \A j \in InvoiceIds \ {i} : invoices'[j] = invoices[j]
  BY <1>1 DEF LedgerInv, NoInvoice
<1>5. Bill' = [Bill EXCEPT ![i] = [state |-> "UNPAID", order |-> q.order, total |-> q.total,
                                   number |-> TheLedger!Cardinality(TheLedger!Drawn) + 1]]
  <2>1. Bill'[i] = [state |-> "UNPAID", order |-> q.order, total |-> q.total,
                    number |-> Cardinality(IssuedIds) + 1]
    BY <1>3, <1>4 DEF Bill, Issued
  <2>2. \A j \in InvoiceIds \ {i} : Bill'[j] = Bill[j]
    BY <1>4 DEF Bill, Issued
  <2>3. Bill' = [Bill EXCEPT ![i] = Bill'[i]]
    BY <2>2, ViewsAreFunctions
  <2> QED
    BY <2>1, <2>3, DrawnIsIssued, SameCount
<1>6. UNCHANGED Claim
  BY DEF CreateInvoiceInsert, Claim
<1>7. \A j \in TheLedger!Drawn : Bill[j].order # q.order
  <2>1. \A j \in IssuedIds : invoices[j].order # q.order
    BY DEF CreateInvoiceInsert, InvoiceOf, IssuedIds
  <2>2. \A j \in IssuedIds : Bill[j].order = invoices[j].order
    BY DEF Bill, IssuedIds
  <2> QED
    BY <2>1, <2>2, DrawnIsIssued
<1>8. Bill[i] = TheLedger!NoBill
  BY <1>1, BillOfIssued
<1> HIDE DEF q
<1>9. TheLedger!Draw(i, q.order, q.total)
  BY <1>5, <1>6, <1>7, <1>8 DEF TheLedger!Draw
<1> QED
  BY <1>2, <1>9 DEF TheLedger!Next

LEMMA SettlementSettles ==
  ASSUME LedgerInv, NEW r \in Handlers, Settle(r)
  PROVE  TheLedger!Next
<1>1. PICK i \in InvoiceIds : i = breq[r].invoice /\ Issued(i)
  BY DEF Settle, LedgerInv, HandlersHold, Holds
<1>2. invoices' = [invoices EXCEPT
        ![i].status = "PAID", ![i].paidAt = @ + 1,
        ![i].method = IF breq[r].method = "STRIPE" THEN "STRIPE" ELSE @]
  BY <1>1 DEF Settle
<1>3. /\ invoices'[i].status = "PAID" /\ invoices'[i].order = invoices[i].order
      /\ invoices'[i].number = invoices[i].number /\ invoices'[i].total = invoices[i].total
      /\ \A j \in InvoiceIds \ {i} : invoices'[j] = invoices[j]
  BY <1>1, <1>2 DEF LedgerInv, InvoiceRow
<1>4. Bill' = [Bill EXCEPT ![i].state = "PAID"]
  <2>1. Bill'[i] = [Bill[i] EXCEPT !.state = "PAID"]
    BY <1>1, <1>3 DEF Bill, Issued
  <2>2. \A j \in InvoiceIds \ {i} : Bill'[j] = Bill[j]
    BY <1>3 DEF Bill, Issued
  <2> QED
    BY <2>1, <2>2, ViewsAreFunctions
<1>5. UNCHANGED Claim
  BY DEF Settle, Claim
<1>6. i \in TheLedger!Drawn
  BY <1>1, DrawnIsIssued DEF IssuedIds
<1> QED
  BY <1>4, <1>5, <1>6 DEF TheLedger!Settle, TheLedger!Next

LEMMA RequestFiles ==
  ASSUME LedgerInv, NEW r \in Handlers, RequestRefundInsert(r)
  PROVE  TheLedger!Next
<1> DEFINE q == breq[r]
<1>1. /\ q.invoice \in InvoiceIds /\ Settled(q.invoice)
      /\ q.amount \in Amounts /\ q.amount <= invoices[q.invoice].total
      /\ q.by \in Users
  BY DEF RequestRefundInsert, LedgerInv, HandlersHold, Holds
<1>2. PICK f \in RefundIds :
        /\ refunds[f].status = "NONE"
        /\ refunds' = [refunds EXCEPT ![f] =
             [NoRefund EXCEPT !.status = "PENDING", !.invoice = q.invoice,
                              !.amount = q.amount, !.requestedBy = q.by]]
  BY DEF RequestRefundInsert
<1>3. /\ refunds'[f].status = "PENDING" /\ refunds'[f].invoice = q.invoice
      /\ refunds'[f].amount = q.amount /\ refunds'[f].requestedBy = q.by
      /\ refunds'[f].approvedBy = Nobody
      /\ \A g \in RefundIds \ {f} : refunds'[g] = refunds[g]
  BY <1>2 DEF LedgerInv, NoRefund
<1>4. Claim' = [Claim EXCEPT ![f] = [state |-> "PENDING", invoice |-> q.invoice,
                                     amount |-> q.amount, requestedBy |-> q.by,
                                     decidedBy |-> Nobody]]
  <2>1. Claim'[f] = [state |-> "PENDING", invoice |-> q.invoice, amount |-> q.amount,
                     requestedBy |-> q.by, decidedBy |-> Nobody]
    BY <1>3 DEF Claim
  <2>2. \A g \in RefundIds \ {f} : Claim'[g] = Claim[g]
    BY <1>3 DEF Claim
  <2> QED
    BY <2>1, <2>2, ViewsAreFunctions
<1>5. UNCHANGED Bill
  BY DEF RequestRefundInsert, Bill, Issued
<1>6. /\ q.invoice \in TheLedger!Drawn /\ Bill[q.invoice].state # "UNPAID"
      /\ Bill[q.invoice].total = invoices[q.invoice].total
  BY <1>1, DrawnIsIssued DEF IssuedIds, Bill, LedgerInv, PaidStaysPaid, Settled
<1>7. TheLedger!File(f, q.invoice, q.amount, q.by)
  BY <1>1, <1>2, <1>4, <1>5, <1>6, ClaimOfFiled DEF TheLedger!File
<1> QED
  BY <1>1, <1>7 DEF TheLedger!Next

\* Both rows of an approval are written in one step, whose reversal was
\* computed at the read and still fits.
LEMMA ApprovalGrants ==
  ASSUME LedgerInv, NEW r \in Handlers, ApproveRefundCommit(r)
  PROVE  TheLedger!Next
<1>1. PICK f \in RefundIds, u \in Users :
        /\ f = breq[r].refund /\ u = breq[r].by
        /\ refunds[f].status # "NONE" /\ IsManagerOrAdmin(u)
        /\ refunds[f].requestedBy # u
        /\ breq[r].newStatus = ReversalOf(f)
  BY DEF ApproveRefundCommit, LedgerInv, HandlersHold, Holds
<1>2. PICK i \in InvoiceIds : i = refunds[f].invoice /\ Issued(i)
  BY <1>1 DEF LedgerInv, RefundsAreOfPaid, Settled
<1>3. /\ refunds' = [refunds EXCEPT ![f].status = "APPROVED", ![f].approvedBy = u]
      /\ invoices' = [invoices EXCEPT ![i].status = ReversalOf(f)]
  BY <1>1, <1>2 DEF ApproveRefundCommit
<1>4. /\ refunds'[f].status = "APPROVED" /\ refunds'[f].approvedBy = u
      /\ refunds'[f].invoice = refunds[f].invoice
      /\ refunds'[f].amount = refunds[f].amount
      /\ refunds'[f].requestedBy = refunds[f].requestedBy
      /\ \A g \in RefundIds \ {f} : refunds'[g] = refunds[g]
  BY <1>1, <1>3 DEF LedgerInv, RefundRow
<1>5. /\ invoices'[i].status = ReversalOf(f) /\ invoices'[i].order = invoices[i].order
      /\ invoices'[i].number = invoices[i].number /\ invoices'[i].total = invoices[i].total
      /\ \A j \in InvoiceIds \ {i} : invoices'[j] = invoices[j]
  BY <1>2, <1>3 DEF LedgerInv, InvoiceRow
<1>6. /\ Bill[i].total = invoices[i].total
      /\ Claim[f].invoice = i /\ Claim[f].amount = refunds[f].amount
      /\ Claim[f].requestedBy = refunds[f].requestedBy /\ Claim[f] # TheLedger!NoClaim
  <2>1. Bill[i].total = invoices[i].total
    BY <1>2 DEF Bill
  <2>2. refunds[f].status # "NONE"
    BY <1>1
  <2>3. /\ Claim[f].invoice = refunds[f].invoice /\ Claim[f].amount = refunds[f].amount
        /\ Claim[f].requestedBy = refunds[f].requestedBy /\ Claim[f] # TheLedger!NoClaim
    BY <1>1, <2>2 DEF Claim, TheLedger!NoClaim
  <2> QED
    BY <1>2, <2>1, <2>3
<1>7. Claim' = [Claim EXCEPT ![f].state = "APPROVED", ![f].decidedBy = u]
  <2>1. Claim'[f] = [Claim[f] EXCEPT !.state = "APPROVED", !.decidedBy = u]
    <3>1. Claim'[f] = [state |-> "APPROVED", invoice |-> refunds[f].invoice, amount |-> refunds[f].amount,
                       requestedBy |-> refunds[f].requestedBy, decidedBy |-> u]
      BY <1>1, <1>4 DEF Claim
    <3>2. Claim[f] = [state |-> refunds[f].status, invoice |-> refunds[f].invoice,
                      amount |-> refunds[f].amount, requestedBy |-> refunds[f].requestedBy,
                      decidedBy |-> refunds[f].approvedBy]
      BY <1>1, ClaimOfFiled
    <3>3. PICK e : e = [Claim[f] EXCEPT !.state = "APPROVED"]
      OBVIOUS
    <3>4. e = [state |-> "APPROVED", invoice |-> refunds[f].invoice, amount |-> refunds[f].amount,
               requestedBy |-> refunds[f].requestedBy, decidedBy |-> refunds[f].approvedBy]
      BY <3>2, <3>3
    <3>5. [e EXCEPT !.decidedBy = u] =
            [state |-> "APPROVED", invoice |-> refunds[f].invoice, amount |-> refunds[f].amount,
             requestedBy |-> refunds[f].requestedBy, decidedBy |-> u]
      BY <3>4
    <3>6. [Claim[f] EXCEPT !.state = "APPROVED", !.decidedBy = u] =
            [[Claim[f] EXCEPT !.state = "APPROVED"] EXCEPT !.decidedBy = u]
      OBVIOUS
    <3>7. [Claim[f] EXCEPT !.state = "APPROVED", !.decidedBy = u] = [e EXCEPT !.decidedBy = u]
      BY <3>3, <3>6
    <3> QED
      BY <3>1, <3>5, <3>7
  <2>2. \A g \in RefundIds \ {f} : Claim'[g] = Claim[g]
    BY <1>4 DEF Claim
  <2> QED
    BY <2>1, <2>2, ViewsAreFunctions
<1>8. Bill' = [Bill EXCEPT ![i].state = ReversalOf(f)]
  <2>1. ReversalOf(f) # "NONE"
    BY DEF ReversalOf
  <2>2. Bill'[i] = [Bill[i] EXCEPT !.state = ReversalOf(f)]
    BY <1>2, <1>5, <2>1 DEF Bill, Issued
  <2>3. \A j \in InvoiceIds \ {i} : Bill'[j] = Bill[j]
    BY <1>5 DEF Bill, Issued
  <2> QED
    BY <2>2, <2>3, ViewsAreFunctions
<1>9. ReversalOf(f) = IF Claim[f].amount = Bill[i].total THEN "REFUNDED" ELSE "PARTIALLY_REFUNDED"
  BY <1>2, <1>6 DEF ReversalOf
<1>10. TheLedger!Grant(f, u)
  BY <1>1, <1>6, <1>7, <1>8, <1>9 DEF TheLedger!Grant
<1> QED
  BY <1>1, <1>10 DEF TheLedger!Next

LEMMA RejectionDenies ==
  ASSUME LedgerInv, NEW r \in Handlers, RejectRefundWrite(r)
  PROVE  TheLedger!Next
<1>1. PICK f \in RefundIds, u \in Users :
        /\ f = breq[r].refund /\ u = breq[r].by
        /\ refunds[f].status # "NONE" /\ IsManagerOrAdmin(u)
  BY DEF RejectRefundWrite, LedgerInv, HandlersHold, Holds
<1>2. refunds' = [refunds EXCEPT ![f].status = "REJECTED", ![f].approvedBy = u]
  BY <1>1 DEF RejectRefundWrite
<1>3. /\ refunds'[f].status = "REJECTED" /\ refunds'[f].approvedBy = u
      /\ refunds'[f].invoice = refunds[f].invoice
      /\ refunds'[f].amount = refunds[f].amount
      /\ refunds'[f].requestedBy = refunds[f].requestedBy
      /\ \A g \in RefundIds \ {f} : refunds'[g] = refunds[g]
  BY <1>1, <1>2 DEF LedgerInv, RefundRow
<1>4. Claim' = [Claim EXCEPT ![f].state = "REJECTED", ![f].decidedBy = u]
  <2>1. Claim'[f] = [Claim[f] EXCEPT !.state = "REJECTED", !.decidedBy = u]
    <3>1. Claim'[f] = [state |-> "REJECTED", invoice |-> refunds[f].invoice, amount |-> refunds[f].amount,
                       requestedBy |-> refunds[f].requestedBy, decidedBy |-> u]
      BY <1>1, <1>3 DEF Claim
    <3>2. Claim[f] = [state |-> refunds[f].status, invoice |-> refunds[f].invoice,
                      amount |-> refunds[f].amount, requestedBy |-> refunds[f].requestedBy,
                      decidedBy |-> refunds[f].approvedBy]
      BY <1>1, ClaimOfFiled
    <3>3. PICK e : e = [Claim[f] EXCEPT !.state = "REJECTED"]
      OBVIOUS
    <3>4. e = [state |-> "REJECTED", invoice |-> refunds[f].invoice, amount |-> refunds[f].amount,
               requestedBy |-> refunds[f].requestedBy, decidedBy |-> refunds[f].approvedBy]
      BY <3>2, <3>3
    <3>5. [e EXCEPT !.decidedBy = u] =
            [state |-> "REJECTED", invoice |-> refunds[f].invoice, amount |-> refunds[f].amount,
             requestedBy |-> refunds[f].requestedBy, decidedBy |-> u]
      BY <3>4
    <3>6. [Claim[f] EXCEPT !.state = "REJECTED", !.decidedBy = u] =
            [[Claim[f] EXCEPT !.state = "REJECTED"] EXCEPT !.decidedBy = u]
      OBVIOUS
    <3>7. [Claim[f] EXCEPT !.state = "REJECTED", !.decidedBy = u] = [e EXCEPT !.decidedBy = u]
      BY <3>3, <3>6
    <3> QED
      BY <3>1, <3>5, <3>7
  <2>2. \A g \in RefundIds \ {f} : Claim'[g] = Claim[g]
    BY <1>3 DEF Claim
  <2> QED
    BY <2>1, <2>2, ViewsAreFunctions
<1>5. UNCHANGED Bill
  BY DEF RejectRefundWrite, Bill, Issued
<1>6. TheLedger!Deny(f, u)
  BY <1>1, <1>4, <1>5, ClaimOfFiled DEF TheLedger!Deny
<1> QED
  BY <1>1, <1>6 DEF TheLedger!Next

\* The flag of a saved intent is no part of the books.
LEMMA IntentSaveStutters ==
  ASSUME LedgerInv, NEW r \in Handlers, CreateIntentSave(r)
  PROVE  UNCHANGED <<Bill, Claim>>
<1>1. \A i \in InvoiceIds :
        /\ invoices'[i].status = invoices[i].status /\ invoices'[i].order = invoices[i].order
        /\ invoices'[i].number = invoices[i].number /\ invoices'[i].total = invoices[i].total
  BY DEF CreateIntentSave, LedgerInv, InvoiceRow
<1>2. UNCHANGED refunds
  BY DEF CreateIntentSave
<1> QED
  BY <1>1, <1>2 DEF Bill, Claim, Issued

LEMMA LedgerSteps == LedgerInv /\ [BillingNext]_bvars => [TheLedger!Next]_<<Bill, Claim>>
<1> SUFFICES ASSUME LedgerInv, [BillingNext]_bvars PROVE TheLedger!Next \/ UNCHANGED <<Bill, Claim>>
  OBVIOUS
<1>1. ASSUME UNCHANGED <<invoices, refunds>> PROVE UNCHANGED <<Bill, Claim>>
  BY <1>1 DEF Bill, Claim, Issued
<1>2. ASSUME NEW r \in Handlers, InvoiceStep(r)
      PROVE  TheLedger!Next \/ UNCHANGED <<Bill, Claim>>
  BY <1>1, <1>2, InsertDraws DEF InvoiceStep, CreateInvoiceRead, GenerateInvoiceNumber, books
<1>3. ASSUME NEW r \in Handlers, SettleStep(r) \/ AbandonBilling(r)
      PROVE  TheLedger!Next \/ UNCHANGED <<Bill, Claim>>
  BY <1>1, <1>3, SettlementSettles
     DEF SettleStep, ConfirmPaymentRead, WebhookRead, DecrementRead, DecrementOne, DecrementDone,
         Respond, AbandonBilling, books
<1>4. ASSUME NEW r \in Handlers, IntentStep(r)
      PROVE  TheLedger!Next \/ UNCHANGED <<Bill, Claim>>
  BY <1>1, <1>4, IntentSaveStutters DEF IntentStep, CreateIntentRead, CreateIntentCall, books
<1>5. ASSUME NEW r \in Handlers, RefundStep(r)
      PROVE  TheLedger!Next \/ UNCHANGED <<Bill, Claim>>
  BY <1>1, <1>5, RequestFiles, ApprovalGrants, RejectionDenies
     DEF RefundStep, RequestRefundRead, RequestRefundPending, ApproveRefundRead, RejectRefundRead,
         books
<1>6. CASE UNCHANGED bvars \/ (Next /\ UNCHANGED <<books, stripe, breq>>)
  BY <1>1, <1>6 DEF bvars, books
<1>7. ASSUME NEW i \in InvoiceIds, GuestPays(i) PROVE UNCHANGED <<Bill, Claim>>
  BY <1>1, <1>7 DEF GuestPays, books
<1> QED
  BY <1>2, <1>3, <1>4, <1>5, <1>6, <1>7 DEF BillingNext

\* The handlers, which test long before they write, implement books whose
\* every write tests what it finds.
THEOREM BooksAreALedger == BillingSpec => ImplementsLedger
  BY LedgerStarts, LedgerSteps, LedgerInvariance, PTL
     DEF BillingSpec, TheLedger!Spec, TheLedger!ledgerVars, ImplementsLedger
=============================================================================
