------------------------------ MODULE Billing ------------------------------
(***************************************************************************)
(* BillingService beside OrdersService: invoices, settlement by a cashier  *)
(* or by Stripe's webhook, refunds, and the stock a settlement takes.  The *)
(* handlers share the order and table rows with Orders, whose actions are  *)
(* part of the next-state relation here.  As there, a handler reads, tests *)
(* what it read, and writes in a later transaction that tests nothing.     *)
(***************************************************************************)
EXTENDS Orders, Integers, FiniteSets, FiniteSetsExt

CONSTANTS
  InvoiceIds, RefundIds,
  Handlers,     \* slots for billing requests and webhook deliveries in flight
  Amounts,      \* the values of a money column, in cents
  Price,        \* price of each menu item, in cents (the snapshot of the line)
  TaxPercent,   \* TAX_RATE
  Discounts,    \* discounts a cashier may grant
  Ingredients,
  Recipe,       \* what one portion of an item uses: [MenuItems -> SUBSET Ingredients]
  InitialStock,
  PayAtTill     \* whether cashiers confirm payments by hand

ASSUME PayAtTillAssumption == PayAtTill \in BOOLEAN
ASSUME InvoiceIdsAssumption == IsFiniteSet(InvoiceIds)
ASSUME ItemsAssumption == IsFiniteSet(Batches) /\ IsFiniteSet(MenuItems)
ASSUME AmountsAssumption == Amounts \subseteq Nat \ {0}
ASSUME PriceAssumption == Price \in [MenuItems -> Nat] /\ TaxPercent \in Nat
ASSUME DiscountsAssumption == Discounts \subseteq Nat
ASSUME RecipeAssumption == Recipe \in [MenuItems -> SUBSET Ingredients]
ASSUME StockAssumption == InitialStock \in Int

VARIABLES
  invoices,     \* invoice rows; paidAt counts the writes of the column, 0 is null
  refunds,      \* refund request rows
  stock,        \* stockQuantity of each ingredient
  intents,      \* Stripe: the PaymentIntent of an invoice's idempotency key
  undelivered,  \* Stripe: payment_intent.succeeded events not acknowledged yet
  breq          \* what each billing handler in flight has read, and its next step

books == <<invoices, refunds, stock>>
stripe == <<intents, undelivered>>
bvars == <<vars, books, stripe, breq>>

-----------------------------------------------------------------------------
\* Rows and requests

InvoiceRow == [status : {"NONE", "UNPAID", "PAID", "REFUNDED", "PARTIALLY_REFUNDED"},
               order : OrderIds \cup {Nobody}, number : Nat, total : Amounts \cup {0},
               paidAt : Nat, method : {"CASH", "STRIPE"}, intent : BOOLEAN]

RefundRow == [status : {"NONE", "PENDING", "APPROVED", "REJECTED"},
              invoice : InvoiceIds \cup {Nobody}, amount : Amounts \cup {0},
              requestedBy : Users \cup {Nobody}, approvedBy : Users \cup {Nobody}]

NoInvoice == [status |-> "NONE", order |-> Nobody, number |-> 0, total |-> 0,
              paidAt |-> 0, method |-> "CASH", intent |-> FALSE]

NoRefund == [status |-> "NONE", invoice |-> Nobody, amount |-> 0,
             requestedBy |-> Nobody, approvedBy |-> Nobody]

BRequest ==
  {Idle}
  \cup [at : {"invoice.number"}, order : OrderIds, total : Amounts]
  \cup [at : {"invoice.insert"}, order : OrderIds, total : Amounts, number : Nat]
  \cup [at : {"pay.tx", "stock.read", "respond"}, invoice : InvoiceIds,
        method : {"CASH", "STRIPE"}]
  \cup [at : {"stock.take"}, invoice : InvoiceIds, method : {"CASH", "STRIPE"},
        left : SUBSET (Ingredients \X Nat)]
  \cup [at : {"intent.create", "intent.save"}, invoice : InvoiceIds]
  \cup [at : {"refund.pending", "refund.insert"}, invoice : InvoiceIds,
        amount : Amounts, by : Users]
  \cup [at : {"approve.tx"}, refund : RefundIds, by : Users,
        newStatus : {"REFUNDED", "PARTIALLY_REFUNDED"}]
  \cup [at : {"reject.write"}, refund : RefundIds, by : Users]

Issued(i) == invoices[i].status # "NONE"
IssuedIds == {i \in InvoiceIds : Issued(i)}
InvoiceOf(o) == {i \in InvoiceIds : Issued(i) /\ invoices[i].order = o}

\* Money: the snapshot prices of the rows, tax rounded half up to the cent.
Subtotal(items) == MapThenSumSet(LAMBDA x : Price[x[2]], items)
Tax(cents) == (TaxPercent * cents + 50) \div 100
Total(items, discount) == Subtotal(items) + Tax(Subtotal(items)) - discount

\* decrementForOrder accumulates per ingredient before it writes.
Usage(items) ==
  {<<g, Cardinality({x \in items : g \in Recipe[x[2]]})>> :
      g \in UNION {Recipe[x[2]] : x \in items}}

Continue(r, next) == breq' = [breq EXCEPT ![r] = next]
Finish(r) == Continue(r, Idle)

-----------------------------------------------------------------------------
\* createInvoice: read the order, count the invoices for the number, insert.
\* The insert fails on a taken orderId or invoiceNumber (unique columns).

CreateInvoiceRead(r, o, discount) ==
  /\ breq[r] = Idle
  /\ orders[o].status \in BILLABLE_ORDER_STATUSES
  /\ InvoiceOf(o) = {}
  /\ LET total == Total(orders[o].items, discount) IN
     /\ total > 0
     /\ total \in Amounts
     /\ Continue(r, [at |-> "invoice.number", order |-> o, total |-> total])
  /\ UNCHANGED <<vars, books, stripe>>

\* generateInvoiceNumber: count() + 1
GenerateInvoiceNumber(r) ==
  /\ breq[r].at = "invoice.number"
  /\ Continue(r, [at |-> "invoice.insert", order |-> breq[r].order, total |-> breq[r].total,
                  number |-> Cardinality(IssuedIds) + 1])
  /\ UNCHANGED <<vars, books, stripe>>

\* Mutant: invoiceNumber is not a unique column.
CreateInvoiceInsertAnyNumber(r) ==
  /\ breq[r].at = "invoice.insert"
  /\ InvoiceOf(breq[r].order) = {}
  /\ \E i \in InvoiceIds :
       /\ ~ Issued(i)
       /\ invoices' = [invoices EXCEPT ![i] =
            [NoInvoice EXCEPT !.status = "UNPAID", !.order = breq[r].order,
                              !.number = breq[r].number, !.total = breq[r].total]]
  /\ Finish(r)
  /\ UNCHANGED <<vars, refunds, stock, stripe>>

CreateInvoiceInsert(r) ==
  /\ breq[r].at = "invoice.insert"
  /\ InvoiceOf(breq[r].order) = {}
  /\ \A i \in InvoiceIds : Issued(i) => invoices[i].number # breq[r].number
  /\ \E i \in InvoiceIds :
       /\ ~ Issued(i)
       /\ invoices' = [invoices EXCEPT ![i] =
            [NoInvoice EXCEPT !.status = "UNPAID", !.order = breq[r].order,
                              !.number = breq[r].number, !.total = breq[r].total]]
  /\ Finish(r)
  /\ UNCHANGED <<vars, refunds, stock, stripe>>

-----------------------------------------------------------------------------
\* Settlement: confirmPayment by a cashier, handlePaymentSucceeded by Stripe

ConfirmPaymentRead(r, i) ==
  /\ breq[r] = Idle
  /\ PayAtTill
  /\ invoices[i].status = "UNPAID"
  /\ Continue(r, [at |-> "pay.tx", invoice |-> i, method |-> "CASH"])
  /\ UNCHANGED <<vars, books, stripe>>

\* Mutant: the event is acknowledged on receipt, before it is handled.
WebhookReadAcksFirst(r, i) ==
  /\ breq[r] = Idle
  /\ i \in undelivered
  /\ undelivered' = undelivered \ {i}
  /\ IF invoices[i].intent /\ invoices[i].status = "UNPAID"
     THEN Continue(r, [at |-> "pay.tx", invoice |-> i, method |-> "STRIPE"])
     ELSE UNCHANGED breq
  /\ UNCHANGED <<vars, books, intents>>

\* A delivery of payment_intent.succeeded for invoice i's PaymentIntent.
\* Stripe delivers until it is answered 2xx, also while an earlier delivery
\* is still being handled.
WebhookRead(r, i) ==
  /\ breq[r] = Idle
  /\ i \in undelivered
  /\ IF invoices[i].intent /\ invoices[i].status = "UNPAID"
     THEN /\ Continue(r, [at |-> "pay.tx", invoice |-> i, method |-> "STRIPE"])
          /\ UNCHANGED undelivered
     ELSE /\ undelivered' = undelivered \ {i}      \* unknown or settled: 200
          /\ UNCHANGED breq
  /\ UNCHANGED <<vars, books, intents>>

\* Mutant: the statuses of the order and the invoice are swapped.
SettleSwapped(r) ==
  /\ breq[r].at = "pay.tx"
  /\ LET i == breq[r].invoice
         o == invoices[i].order IN
     /\ orders' = [orders EXCEPT ![o].status = "PAID"]
     /\ tables' = [tables EXCEPT ![orders[o].tableId] = "AVAILABLE"]
     /\ invoices' = [invoices EXCEPT ![i].status = "BILLED", ![i].paidAt = @ + 1]
  /\ Continue(r, [at |-> "stock.read", invoice |-> breq[r].invoice, method |-> breq[r].method])
  /\ UNCHANGED <<available, history, audit, req, refunds, stock, stripe>>

\* The transaction of both: order BILLED, table AVAILABLE, invoice PAID.
Settle(r) ==
  /\ breq[r].at = "pay.tx"
  /\ LET i == breq[r].invoice
         o == invoices[i].order IN
     /\ orders' = [orders EXCEPT ![o].status = "BILLED"]
     /\ tables' = [tables EXCEPT ![orders[o].tableId] = "AVAILABLE"]
     /\ invoices' = [invoices EXCEPT
          ![i].status = "PAID",
          ![i].paidAt = @ + 1,
          ![i].method = IF breq[r].method = "STRIPE" THEN "STRIPE" ELSE @]
  /\ Continue(r, [at |-> "stock.read", invoice |-> breq[r].invoice, method |-> breq[r].method])
  /\ UNCHANGED <<available, history, audit, req, refunds, stock, stripe>>

\* decrementForOrder, after the commit: read the items, then one atomic
\* decrement per ingredient, each a transaction of its own.
DecrementRead(r) ==
  /\ breq[r].at = "stock.read"
  /\ Continue(r, [at |-> "stock.take", invoice |-> breq[r].invoice, method |-> breq[r].method,
                  left |-> Usage(orders[invoices[breq[r].invoice].order].items)])
  /\ UNCHANGED <<vars, books, stripe>>

DecrementOne(r) ==
  /\ breq[r].at = "stock.take"
  /\ \E u \in breq[r].left :
       /\ stock' = [stock EXCEPT ![u[1]] = @ - u[2]]
       /\ Continue(r, [at |-> "stock.take", invoice |-> breq[r].invoice, method |-> breq[r].method,
                       left |-> breq[r].left \ {u}])
  /\ UNCHANGED <<vars, invoices, refunds, stripe>>

\* All is taken, or the rest failed: the error is swallowed.
DecrementDone(r) ==
  /\ breq[r].at \in {"stock.read", "stock.take"}
  /\ Continue(r, [at |-> "respond", invoice |-> breq[r].invoice, method |-> breq[r].method])
  /\ UNCHANGED <<vars, books, stripe>>

\* The answer: a 2xx to Stripe ends the deliveries.
Respond(r) ==
  /\ breq[r].at = "respond"
  /\ undelivered' = IF breq[r].method = "STRIPE" THEN undelivered \ {breq[r].invoice}
                    ELSE undelivered
  /\ Finish(r)
  /\ UNCHANGED <<vars, books, intents>>

-----------------------------------------------------------------------------
\* createPaymentIntent: read, call Stripe under the invoice's idempotency
\* key, save the id, answer with the client secret

CreateIntentRead(r, i) ==
  /\ breq[r] = Idle
  /\ invoices[i].status = "UNPAID"
  /\ Continue(r, [at |-> "intent.create", invoice |-> i])
  /\ UNCHANGED <<vars, books, stripe>>

CreateIntentCall(r) ==
  /\ breq[r].at = "intent.create"
  /\ intents' = [intents EXCEPT ![breq[r].invoice] = IF @ = "none" THEN "open" ELSE @]
  /\ Continue(r, [at |-> "intent.save", invoice |-> breq[r].invoice])
  /\ UNCHANGED <<vars, books, undelivered>>

\* Mutant: the save writes back the whole row it read while it was UNPAID.
CreateIntentSaveRow(r) ==
  /\ breq[r].at = "intent.save"
  /\ invoices' = [invoices EXCEPT ![breq[r].invoice].intent = TRUE,
                                  ![breq[r].invoice].status = "UNPAID"]
  /\ Finish(r)
  /\ UNCHANGED <<vars, refunds, stock, stripe>>

CreateIntentSave(r) ==
  /\ breq[r].at = "intent.save"
  /\ invoices' = [invoices EXCEPT ![breq[r].invoice].intent = TRUE]
  /\ Finish(r)
  /\ UNCHANGED <<vars, refunds, stock, stripe>>

\* The guest pays with the client secret, which is answered after the save.
GuestPays(i) ==
  /\ intents[i] = "open"
  /\ invoices[i].intent
  /\ intents' = [intents EXCEPT ![i] = "paid"]
  /\ undelivered' = undelivered \cup {i}
  /\ UNCHANGED <<vars, books, breq>>

-----------------------------------------------------------------------------
\* Refunds

\* Mutant: the amount is not compared with the total.
RequestRefundReadAnyAmount(r, i, amount, u) ==
  /\ breq[r] = Idle
  /\ Role[u] \in {"CASHIER", "MANAGER"}
  /\ invoices[i].status = "PAID"
  /\ Continue(r, [at |-> "refund.pending", invoice |-> i, amount |-> amount, by |-> u])
  /\ UNCHANGED <<vars, books, stripe>>

RequestRefundRead(r, i, amount, u) ==
  /\ breq[r] = Idle
  /\ Role[u] \in {"CASHIER", "MANAGER"}
  /\ invoices[i].status = "PAID"
  /\ amount <= invoices[i].total
  /\ Continue(r, [at |-> "refund.pending", invoice |-> i, amount |-> amount, by |-> u])
  /\ UNCHANGED <<vars, books, stripe>>

RequestRefundPending(r) ==
  /\ breq[r].at = "refund.pending"
  /\ \A f \in RefundIds : ~ (refunds[f].status = "PENDING" /\ refunds[f].invoice = breq[r].invoice)
  /\ Continue(r, [at |-> "refund.insert", invoice |-> breq[r].invoice,
                  amount |-> breq[r].amount, by |-> breq[r].by])
  /\ UNCHANGED <<vars, books, stripe>>

RequestRefundInsert(r) ==
  /\ breq[r].at = "refund.insert"
  /\ \E f \in RefundIds :
       /\ refunds[f].status = "NONE"
       /\ refunds' = [refunds EXCEPT ![f] =
            [NoRefund EXCEPT !.status = "PENDING", !.invoice = breq[r].invoice,
                             !.amount = breq[r].amount, !.requestedBy = breq[r].by]]
  /\ Finish(r)
  /\ UNCHANGED <<vars, invoices, stock, stripe>>

\* A refund of the whole total reverses the invoice, a smaller one in part.
ReversalOf(f) ==
  IF refunds[f].amount = invoices[refunds[f].invoice].total
  THEN "REFUNDED" ELSE "PARTIALLY_REFUNDED"

IsManagerOrAdmin(u) == Role[u] \in {"MANAGER", "ADMIN"}

\* Mutant: requester and approver may be the same person.
ApproveRefundReadOwn(r, f, u) ==
  /\ breq[r] = Idle
  /\ IsManagerOrAdmin(u)
  /\ refunds[f].status = "PENDING"
  /\ Continue(r, [at |-> "approve.tx", refund |-> f, by |-> u,
                  newStatus |-> ReversalOf(f)])
  /\ UNCHANGED <<vars, books, stripe>>

ApproveRefundRead(r, f, u) ==
  /\ breq[r] = Idle
  /\ IsManagerOrAdmin(u)
  /\ refunds[f].status = "PENDING"
  /\ refunds[f].requestedBy # u
  /\ Continue(r, [at |-> "approve.tx", refund |-> f, by |-> u,
                  newStatus |-> ReversalOf(f)])
  /\ UNCHANGED <<vars, books, stripe>>

\* Mutant: the invoice is reversed first, the decision written by a later call.
ApproveRefundCommitInvoice(r) ==
  /\ breq[r].at = "approve.tx"
  /\ invoices' = [invoices EXCEPT ![refunds[breq[r].refund].invoice].status = breq[r].newStatus]
  /\ Finish(r)
  /\ UNCHANGED <<vars, refunds, stock, stripe>>

ApproveRefundCommit(r) ==
  /\ breq[r].at = "approve.tx"
  /\ LET f == breq[r].refund IN
     /\ refunds' = [refunds EXCEPT ![f].status = "APPROVED", ![f].approvedBy = breq[r].by]
     /\ invoices' = [invoices EXCEPT ![refunds[f].invoice].status = breq[r].newStatus]
  /\ Finish(r)
  /\ UNCHANGED <<vars, stock, stripe>>

RejectRefundRead(r, f, u) ==
  /\ breq[r] = Idle
  /\ IsManagerOrAdmin(u)
  /\ refunds[f].status = "PENDING"
  /\ Continue(r, [at |-> "reject.write", refund |-> f, by |-> u])
  /\ UNCHANGED <<vars, books, stripe>>

RejectRefundWrite(r) ==
  /\ breq[r].at = "reject.write"
  /\ LET f == breq[r].refund IN
       refunds' = [refunds EXCEPT ![f].status = "REJECTED", ![f].approvedBy = breq[r].by]
  /\ Finish(r)
  /\ UNCHANGED <<vars, invoices, stock, stripe>>

-----------------------------------------------------------------------------
\* The handler fails at an await or the process dies.  Stripe was not
\* answered, so its event stays undelivered.
AbandonBilling(r) ==
  /\ breq[r] # Idle
  /\ Finish(r)
  /\ UNCHANGED <<vars, books, stripe>>

-----------------------------------------------------------------------------
\* Where the behaviours start: an empty house, or every order just READY.

KitchenDone ==
  \E w \in Users, k \in Users, b \in Batches, t \in TableIds :
    /\ Role[w] = "WAITER" /\ Role[k] = "KITCHEN" /\ MenuItems # {}
    /\ orders = [o \in OrderIds |-> [status |-> "READY", tableId |-> t, createdById |-> w,
                                     items |-> {b} \X MenuItems]]
    /\ tables = [s \in TableIds |-> IF s = t THEN "OCCUPIED" ELSE "AVAILABLE"]
    /\ history = UNION {{ HistoryRow(o, "OPEN", "OPEN", w),
                          HistoryRow(o, "OPEN", "SENT_TO_KITCHEN", w),
                          HistoryRow(o, "SENT_TO_KITCHEN", "PREPARING", k),
                          HistoryRow(o, "PREPARING", "READY", k) } : o \in OrderIds}
    /\ available = MenuItems
    /\ audit = {}
    /\ req = [r \in Requests |-> Idle]

BillingInit ==
  /\ Init \/ KitchenDone
  /\ invoices = [i \in InvoiceIds |-> NoInvoice]
  /\ refunds = [f \in RefundIds |-> NoRefund]
  /\ stock = [g \in Ingredients |-> InitialStock]
  /\ intents = [i \in InvoiceIds |-> "none"]
  /\ undelivered = {}
  /\ breq = [r \in Handlers |-> Idle]

InvoiceStep(r) ==
  \/ \E o \in OrderIds, d \in Discounts : CreateInvoiceRead(r, o, d)
  \/ GenerateInvoiceNumber(r)
  \/ CreateInvoiceInsert(r)

SettleStep(r) ==
  \/ \E i \in InvoiceIds : ConfirmPaymentRead(r, i) \/ WebhookRead(r, i)
  \/ Settle(r)
  \/ DecrementRead(r)
  \/ DecrementOne(r)
  \/ DecrementDone(r)
  \/ Respond(r)

IntentStep(r) ==
  \/ \E i \in InvoiceIds : CreateIntentRead(r, i)
  \/ CreateIntentCall(r)
  \/ CreateIntentSave(r)

RefundStep(r) ==
  \/ \E i \in InvoiceIds, a \in Amounts, u \in Users : RequestRefundRead(r, i, a, u)
  \/ RequestRefundPending(r)
  \/ RequestRefundInsert(r)
  \/ \E f \in RefundIds, u \in Users : ApproveRefundRead(r, f, u) \/ RejectRefundRead(r, f, u)
  \/ ApproveRefundCommit(r)
  \/ RejectRefundWrite(r)

BillingNext ==
  \/ Next /\ UNCHANGED <<books, stripe, breq>>
  \/ \E r \in Handlers :
       InvoiceStep(r) \/ SettleStep(r) \/ IntentStep(r) \/ RefundStep(r) \/ AbandonBilling(r)
  \/ \E i \in InvoiceIds : GuestPays(i)

BillingSpec == BillingInit /\ [][BillingNext]_bvars

\* The server runs every handler it started to an end (WF); a delivery that
\* Stripe repeats for ever is picked up, and does not fail for ever (SF).
Fairness ==
  /\ \A r \in Handlers : WF_bvars(GenerateInvoiceNumber(r) \/ CreateInvoiceInsert(r)
       \/ DecrementRead(r) \/ DecrementDone(r) \/ Respond(r)
       \/ CreateIntentCall(r) \/ CreateIntentSave(r) \/ RequestRefundPending(r)
       \/ RequestRefundInsert(r) \/ ApproveRefundCommit(r) \/ RejectRefundWrite(r)
       \/ AbandonBilling(r))
  /\ \A r \in Handlers : SF_bvars(Settle(r))
  /\ \A i \in InvoiceIds : SF_bvars(\E r \in Handlers : WebhookRead(r, i))

LiveSpec == BillingSpec /\ Fairness

-----------------------------------------------------------------------------
\* Properties

BTypeOK ==
  /\ TypeOK
  /\ invoices \in [InvoiceIds -> InvoiceRow]
  /\ refunds \in [RefundIds -> RefundRow]
  /\ stock \in [Ingredients -> Int]
  /\ intents \in [InvoiceIds -> {"none", "open", "paid"}]
  /\ undelivered \subseteq InvoiceIds
  /\ breq \in [Handlers -> BRequest]

Settled(i) == Issued(i) /\ invoices[i].paidAt # 0

\* Invoice numbers are the numbers 1..n without a gap or a repetition,
\* although each is computed from a count that is stale when it is written:
\* the unique column refuses every number but the next.
NumbersAreSequential ==
  /\ {invoices[i].number : i \in IssuedIds} = 1..Cardinality(IssuedIds)
  /\ \A i, j \in IssuedIds : invoices[i].number = invoices[j].number => i = j

\* A cook finished the order at some time.
Cooked(o) ==
  \E k \in Users : Role[k] = "KITCHEN" /\ HistoryRow(o, "PREPARING", "READY", k) \in history

\* No guest is billed for food the kitchen did not finish, whatever became
\* of the order between createInvoice's read and its insert, and no order
\* has two invoices.
InvoicedWasCooked ==
  \A i \in InvoiceIds : Issued(i) =>
    InvoiceOf(invoices[i].order) = {i} /\ Cooked(invoices[i].order)

\* An order becomes BILLED by a cashier's status change, which its history
\* shows, or because its invoice was settled.
BilledIsExplained ==
  \A o \in OrderIds : orders[o].status = "BILLED" =>
    \/ \E u \in Users : /\ Role[u] = "CASHIER"
                        /\ HistoryRow(o, "SERVED", "BILLED", u) \in history
    \/ \E i \in InvoiceOf(o) : Settled(i)

\* An invoice that was ever settled never looks payable again, in spite of
\* writers that read it before; one that was not has no paidAt.
PaidStaysPaid ==
  \A i \in InvoiceIds : Issued(i) => (invoices[i].status = "UNPAID" <=> ~ Settled(i))

\* Refund requests exist for settled invoices only, within their total.
RefundsAreOfPaid ==
  \A f \in RefundIds : refunds[f].status # "NONE" =>
    /\ refunds[f].invoice \in InvoiceIds /\ Settled(refunds[f].invoice)
    /\ refunds[f].amount <= invoices[refunds[f].invoice].total

\* Separation of duties: nobody approved a request of their own, and every
\* decision is a manager's or an admin's, also when decisions race.
FourEyes ==
  \A f \in RefundIds :
    /\ refunds[f].status = "APPROVED" => refunds[f].approvedBy # refunds[f].requestedBy
    /\ refunds[f].status \in {"APPROVED", "REJECTED"} =>
         refunds[f].approvedBy \in Users /\ IsManagerOrAdmin(refunds[f].approvedBy)

\* Behind a reversed invoice stands a request that somebody decided, and
\* behind a full reversal one for the whole total.
ReversalWasDecided ==
  \A i \in InvoiceIds : invoices[i].status \in {"REFUNDED", "PARTIALLY_REFUNDED"} =>
    \E f \in RefundIds :
      /\ refunds[f].status \in {"APPROVED", "REJECTED"} /\ refunds[f].invoice = i
      /\ invoices[i].status = "REFUNDED" <=> refunds[f].amount = invoices[i].total

\* What billing handlers in flight hold was once true of the books, and
\* nothing the others write makes it false: a number is at most the next one,
\* an invoice in a settlement or a refund exists, a refund to approve was
\* requested by somebody else.
Holds(q) ==
  /\ q.at \in {"invoice.number", "invoice.insert"} => q.order \in OrderIds /\ q.total \in Amounts
  /\ q.at = "invoice.insert" => q.number \in 1..(Cardinality(IssuedIds) + 1)
  /\ q.at = "pay.tx" => q.invoice \in InvoiceIds /\ Issued(q.invoice)
  /\ q.at \in {"intent.create", "intent.save"} => q.invoice \in InvoiceIds
  /\ q.at \in {"refund.pending", "refund.insert"} =>
       /\ q.invoice \in InvoiceIds /\ Settled(q.invoice)
       /\ q.amount \in Amounts /\ q.amount <= invoices[q.invoice].total
       /\ q.by \in Users
  /\ q.at \in {"approve.tx", "reject.write"} =>
       /\ q.refund \in RefundIds /\ refunds[q.refund].status # "NONE"
       /\ q.by \in Users /\ IsManagerOrAdmin(q.by)
  /\ q.at = "approve.tx" =>
       /\ refunds[q.refund].requestedBy # q.by
       /\ q.newStatus = ReversalOf(q.refund)

HandlersHold == \A r \in Handlers : Holds(breq[r])

\* The inductive invariant of the books (BillingProofs).
LedgerInv ==
  /\ invoices \in [InvoiceIds -> InvoiceRow]
  /\ refunds \in [RefundIds -> RefundRow]
  /\ breq = [r \in Handlers |-> breq[r]]
  /\ HandlersHold
  /\ NumbersAreSequential
  /\ PaidStaysPaid
  /\ RefundsAreOfPaid
  /\ FourEyes
  /\ ReversalWasDecided

\* Invoices, and handlers about to insert one, are of orders that exist and
\* were cooked.
BillsAreOfOrders ==
  /\ \A r \in Handlers : breq[r].at \in {"invoice.number", "invoice.insert"} =>
       Exists(breq[r].order) /\ Cooked(breq[r].order)
  /\ \A i \in InvoiceIds : Issued(i) => invoices[i].order \in OrderIds /\ Exists(invoices[i].order)

\* The inductive invariant of orders and books together (HouseProofs).
HouseInv == IInv /\ LedgerInv /\ BillsAreOfOrders /\ InvoicedWasCooked /\ BilledIsExplained

\* Money a guest paid through Stripe is never forgotten: until its invoice is
\* settled Stripe goes on delivering the event, whatever a delivery was
\* answered, since every 2xx comes after a settlement.
ChargeIsKept ==
  \A i \in InvoiceIds : intents[i] = "paid" => Settled(i) \/ i \in undelivered

\* What it rests on: a handler past its settlement has one behind it, and an
\* intent is made, saved and paid of an invoice that was issued.
Behind(q) ==
  /\ q.at \in {"stock.read", "stock.take", "respond"} => q.invoice \in InvoiceIds /\ Settled(q.invoice)
  /\ q.at \in {"intent.create", "intent.save"} => q.invoice \in InvoiceIds /\ Issued(q.invoice)

HandlersAreBehind == \A r \in Handlers : Behind(breq[r])

IntentsAreOfInvoices ==
  /\ intents \in [InvoiceIds -> {"none", "open", "paid"}]
  /\ \A i \in InvoiceIds : /\ invoices[i].intent => Issued(i)
                           /\ intents[i] = "paid" => invoices[i].intent
  /\ \A i \in undelivered : i \in InvoiceIds /\ intents[i] = "paid"

\* With LedgerInv, inductive (BillingProofs).
ChargesInv == HandlersAreBehind /\ IntentsAreOfInvoices /\ ChargeIsKept

\* Money a guest paid through Stripe is booked in the end, although
\* deliveries fail, overlap and race the cashier.
ChargeIsBooked ==
  \A i \in InvoiceIds : intents[i] = "paid" ~> invoices[i].status # "UNPAID"

-----------------------------------------------------------------------------
\* The books as the abstract ledger sees them

Bill == [i \in InvoiceIds |->
  IF Issued(i) THEN [state |-> invoices[i].status, order |-> invoices[i].order,
                     total |-> invoices[i].total, number |-> invoices[i].number]
  ELSE [state |-> "NONE"]]

Claim == [f \in RefundIds |->
  IF refunds[f].status # "NONE"
  THEN [state |-> refunds[f].status, invoice |-> refunds[f].invoice,
        amount |-> refunds[f].amount, requestedBy |-> refunds[f].requestedBy,
        decidedBy |-> refunds[f].approvedBy]
  ELSE [state |-> "NONE"]]

TheLedger == INSTANCE Ledger WITH
  Invoices <- InvoiceIds, Claims <- RefundIds, Orders <- OrderIds, Staff <- Users,
  Deciders <- {u \in Users : IsManagerOrAdmin(u)}, bill <- Bill, claim <- Claim

\* The handlers implement the ledger: each write, of whatever it was tested
\* for so long before, is one the ledger allows in the books as they are now.
ImplementsLedger == TheLedger!Spec

-----------------------------------------------------------------------------
\* What the source and the docs say and concurrent requests break

\* billing.service.ts: the status check "turns a duplicate delivery into a
\* no-op instead of double-decrementing inventory"
StockTakenOnce ==
  \A g \in Ingredients :
    InitialStock - stock[g] <=
      MapThenSumSet(LAMBDA i : IF Settled(i)
                               THEN Cardinality({x \in orders[invoices[i].order].items :
                                                   g \in Recipe[x[2]]})
                               ELSE 0, InvoiceIds)
=============================================================================
