---------------------------- MODULE HouseProofs ----------------------------
(***************************************************************************)
(* Proofs about orders and books together: the order invariant survives    *)
(* settlements, which write order rows without a history row, and what is  *)
(* billed was cooked.                                                      *)
(***************************************************************************)
EXTENDS OrdersProofs, BillingProofs

-----------------------------------------------------------------------------
\* What a step of the order handlers does to the rows the books refer to

\* The history grows, orders stay, and BILLED is entered by a cashier's move.
OrdersGrow ==
  /\ history \subseteq history'
  /\ \A o \in OrderIds : Exists(o) => Exists(o)'
  /\ \A o \in OrderIds : orders'[o].status = "BILLED" =>
       \/ orders[o].status = "BILLED"
       \/ \E u \in Users : Role[u] = "CASHIER" /\ HistoryRow(o, "SERVED", "BILLED", u) \in history'

LEMMA CreateGrows ==
  ASSUME IInv, NEW r \in Requests, CreateCommit(r)
  PROVE  OrdersGrow
<1>1. PICK o \in OrderIds, b \in Batches :
        /\ ~ Exists(o)
        /\ orders' = [orders EXCEPT ![o] =
             [status |-> "OPEN", tableId |-> req[r].table,
              createdById |-> req[r].by, items |-> {b} \X req[r].items]]
  BY DEF CreateCommit
<1>2. history \subseteq history'
  BY DEF CreateCommit
<1>3. /\ orders'[o].status = "OPEN"
      /\ \A p \in OrderIds \ {o} : orders'[p] = orders[p]
  BY <1>1 DEF IInv, TypeOK
<1> QED
  BY <1>1, <1>2, <1>3 DEF OrdersGrow, Exists

LEMMA EditGrows ==
  ASSUME IInv, NEW r \in Requests, UpdateItemsCommit(r)
  PROVE  OrdersGrow
<1>1. PICK b \in Batches :
        orders' = [orders EXCEPT ![req[r].order].items =
                     (@ \ req[r].deleted) \cup ({b} \X req[r].items)]
  BY DEF UpdateItemsCommit
<1>2. \A o \in OrderIds : orders'[o].status = orders[o].status
  BY <1>1 DEF IInv, TypeOK, OrderRow
<1>3. UNCHANGED history
  BY DEF UpdateItemsCommit
<1> QED
  BY <1>2, <1>3 DEF OrdersGrow, Exists

LEMMA MoveGrows ==
  ASSUME IInv, NEW r \in Requests, UpdateStatusCommit(r)
  PROVE  OrdersGrow
<1>1. req[r].move \in Move /\ Earned(req[r].move)
  BY DEF UpdateStatusCommit, IInv, TypeOK, Request, Idle, RequestsAreEarned
<1> PICK m \in Move : m = req[r].move
  BY <1>1
<1>2. history' = history \cup {m} /\ orders' = [orders EXCEPT ![m.order].status = m.to]
  BY DEF UpdateStatusCommit
<1>3. <<m.from, m.to>> \in ALLOWED_TRANSITIONS /\ <<m.from, m.to, Role[m.by]>> \in TRANSITION_ROLES
  BY <1>1 DEF Earned, MayMove
<1>4. m.to # "NONE"
  BY DEF Move, Statuses
<1>5. orders'[m.order].status = m.to /\ \A o \in OrderIds \ {m.order} : orders'[o] = orders[o]
  BY <1>2 DEF IInv, TypeOK, OrderRow, Move
<1>6. ASSUME m.to = "BILLED"
      PROVE  \E u \in Users : Role[u] = "CASHIER" /\ HistoryRow(m.order, "SERVED", "BILLED", u) \in history'
  <2>1. m.from = "SERVED"
    BY <1>3, <1>6 DEF ALLOWED_TRANSITIONS
  <2>2. Role[m.by] = "CASHIER"
    BY <1>3, <1>6, <2>1 DEF TRANSITION_ROLES
  <2>3. m = HistoryRow(m.order, "SERVED", "BILLED", m.by)
    BY <1>6, <2>1 DEF HistoryRow, Move
  <2>4. m.by \in Users
    BY DEF Move
  <2> QED
    BY <1>2, <2>2, <2>3, <2>4
<1> QED
  BY <1>2, <1>4, <1>5, <1>6 DEF OrdersGrow, Exists, Move

LEMMA OrdersStepGrows ==
  ASSUME IInv, [Next]_vars
  PROVE  OrdersGrow
<1>1. ASSUME UNCHANGED <<orders, history>> PROVE OrdersGrow
  BY <1>1 DEF OrdersGrow, Exists
<1>2. ASSUME NEW r \in Requests, Step(r) PROVE OrdersGrow
  <2>1. CASE CreateCommit(r)
    BY <2>1, CreateGrows
  <2>2. CASE UpdateItemsCommit(r)
    BY <2>2, EditGrows
  <2>3. CASE UpdateStatusCommit(r)
    BY <2>3, MoveGrows
  <2> QED
    BY <1>1, <1>2, <2>1, <2>2, <2>3 DEF Step, CreateRead, CreateVerify, UpdateItemsRead,
       UpdateItemsVerify, UpdateItemsDelete, UpdateStatusRead, WriteAudit, Abandon
<1> QED
  BY <1>1, <1>2 DEF Next, vars, ToggleAvailability, SetTableStatus

-----------------------------------------------------------------------------
\* A settlement and the order invariant

LEMMA SettleKeepsOrders ==
  ASSUME IInv, NEW r \in Handlers, Settle(r),
         invoices[breq[r].invoice].order \in OrderIds,
         Exists(invoices[breq[r].invoice].order)
  PROVE  IInv'
<1> PICK o \in OrderIds : o = invoices[breq[r].invoice].order
  OBVIOUS
<1>1. /\ orders' = [orders EXCEPT ![o].status = "BILLED"]
      /\ tables' = [tables EXCEPT ![orders[o].tableId] = "AVAILABLE"]
      /\ UNCHANGED <<available, history, audit, req>>
  BY DEF Settle
<1>2. \A p \in OrderIds :
        /\ orders'[p].createdById = orders[p].createdById
        /\ orders'[p].items = orders[p].items
        /\ orders'[p].status = IF p = o THEN "BILLED" ELSE orders[p].status
  <2>1. orders \in [OrderIds -> OrderRow]
    BY DEF IInv, TypeOK
  <2>2. ASSUME NEW p \in OrderIds, p # o PROVE orders'[p] = orders[p]
    BY <1>1, <2>1, <2>2
  <2>3. orders'[o] = [orders[o] EXCEPT !.status = "BILLED"]
    BY <1>1, <2>1
  <2>4. orders[o] \in OrderRow
    BY <2>1
  <2>5. /\ orders'[o].status = "BILLED"
        /\ orders'[o].createdById = orders[o].createdById
        /\ orders'[o].items = orders[o].items
    BY <2>3, <2>4 DEF OrderRow
  <2> QED
    BY <2>2, <2>5
<1>3. TypeOK'
  <2>1. orders' \in [OrderIds -> OrderRow]
    <3>1. orders[o] \in OrderRow
      BY DEF IInv, TypeOK
    <3>2. [orders[o] EXCEPT !.status = "BILLED"] \in OrderRow
      BY <3>1 DEF OrderRow, Statuses
    <3> QED
      BY <1>1, <3>2 DEF IInv, TypeOK
  <2> QED
    BY <1>1, <2>1 DEF IInv, TypeOK, TableStatuses
<1>4. \A p \in OrderIds : Exists(p)' <=> Exists(p)
  <2>1. Exists(o)
    OBVIOUS
  <2> QED
    BY <1>2, <2>1 DEF Exists
<1>5. HistoryOfOrders'
  <2>1. HistoryOfOrders
    BY DEF IInv
  <2>2. history' = history
    BY <1>1
  <2>3. ASSUME NEW p \in OrderIds
        PROVE  IF Exists(p)'
               THEN HistoryRow(p, "OPEN", "OPEN", orders'[p].createdById) \in history
               ELSE \A h \in history : h.order # p
    <3>1. orders'[p].createdById = orders[p].createdById
      BY <1>2
    <3> QED
      BY <1>4, <2>1, <3>1 DEF HistoryOfOrders
  <2> QED
    BY <2>2, <2>3 DEF HistoryOfOrders
<1>6. HistoryIsEarned'
  <2>1. \A h \in history :
          \/ h.from = "OPEN" /\ h.to = "OPEN"
               /\ Role[h.by] = "WAITER" /\ h.by = orders'[h.order].createdById
          \/ Earned(h)'
    BY <1>1, <1>2, HistoryStays
  <2> QED
    BY <1>1, <2>1 DEF HistoryIsEarned
<1>7. StatusIsRecorded'
  <2>1. StatusIsRecorded
    BY DEF IInv
  <2>2. ASSUME NEW p \in OrderIds, orders'[p].status \notin {"NONE", "BILLED"}
        PROVE  \E h \in history' : h.order = p /\ h.to = orders'[p].status
    <3>1. orders'[p].status = orders[p].status
      BY <1>2, <2>2
    <3>2. \E h \in history : h.order = p /\ h.to = orders[p].status
      BY <2>1, <2>2, <3>1 DEF StatusIsRecorded, Reached
    <3> QED
      BY <1>1, <3>1, <3>2
  <2> QED
    BY <2>2 DEF StatusIsRecorded, Reached
<1>8. RequestsAreEarned'
  <2> SUFFICES ASSUME NEW s \in Requests
               PROVE  /\ req[s].at = "status.tx" => Earned(req[s].move)'
                      /\ req[s].at = "audit" /\ req[s].entry.action # "ORDER_ITEMS_UPDATED"
                           => req[s].entry.row \in history
                      /\ req[s].at \in {"create.verify", "create.tx"} =>
                           Role[req[s].by] = "WAITER" /\ req[s].items # {}
                      /\ req[s].at \in {"items.verify", "items.tx", "items.insert"} =>
                           Exists(req[s].order)' /\ req[s].items # {}
    BY <1>1 DEF RequestsAreEarned, Earned, Reached, Exists
  <2>1. ASSUME req[s].at = "status.tx" PROVE Earned(req[s].move)'
    <3>1. req[s].move \in Move /\ Earned(req[s].move)
      BY <2>1 DEF IInv, TypeOK, Request, Idle, RequestsAreEarned
    <3> PICK m \in Move : m = req[s].move
      BY <3>1
    <3>2. Earned(m)'
      BY <1>1, <1>2, <3>1, EarnedStable
    <3> QED
      BY <1>1, <3>2 DEF Earned, Reached
  <2>2. ASSUME req[s].at \in {"items.verify", "items.tx", "items.insert"}
        PROVE  Exists(req[s].order)' /\ req[s].items # {}
    <3>1. req[s].order \in OrderIds /\ Exists(req[s].order) /\ req[s].items # {}
      BY <2>2 DEF IInv, TypeOK, Request, Idle, RequestsAreEarned
    <3> QED
      BY <1>1, <1>2, <3>1 DEF Exists
  <2> QED
    BY <2>1, <2>2 DEF IInv, RequestsAreEarned
<1>9. OrderNeverEmpty'
  BY <1>2, <1>4 DEF IInv, OrderNeverEmpty
<1>10. AuditIsTrue'
  BY <1>1 DEF IInv, AuditIsTrue
<1> QED
  BY <1>3, <1>5, <1>6, <1>7, <1>8, <1>9, <1>10 DEF IInv
-----------------------------------------------------------------------------
\* The kitchen-done start satisfies the order invariant

LEMMA KitchenDoneStart == KitchenDone => IInv
<1> SUFFICES ASSUME KitchenDone PROVE IInv
  OBVIOUS
<1>1. PICK w \in Users, k \in Users, b \in Batches, t \in TableIds :
        /\ Role[w] = "WAITER" /\ Role[k] = "KITCHEN" /\ MenuItems # {}
        /\ orders = [o \in OrderIds |-> [status |-> "READY", tableId |-> t, createdById |-> w,
                                         items |-> {b} \X MenuItems]]
        /\ tables = [s \in TableIds |-> IF s = t THEN "OCCUPIED" ELSE "AVAILABLE"]
        /\ history = UNION {{ HistoryRow(o, "OPEN", "OPEN", w),
                              HistoryRow(o, "OPEN", "SENT_TO_KITCHEN", w),
                              HistoryRow(o, "SENT_TO_KITCHEN", "PREPARING", k),
                              HistoryRow(o, "PREPARING", "READY", k) } : o \in OrderIds}
        /\ available = MenuItems
        /\ audit = {}
        /\ req = [r \in Requests |-> Idle]
  BY DEF KitchenDone
<1>2. \A o \in OrderIds :
        /\ HistoryRow(o, "OPEN", "OPEN", w) \in history
        /\ HistoryRow(o, "OPEN", "SENT_TO_KITCHEN", w) \in history
        /\ HistoryRow(o, "SENT_TO_KITCHEN", "PREPARING", k) \in history
        /\ HistoryRow(o, "PREPARING", "READY", k) \in history
  BY <1>1
<1>3. \A h \in history : \E o \in OrderIds :
        \/ h = HistoryRow(o, "OPEN", "OPEN", w)
        \/ h = HistoryRow(o, "OPEN", "SENT_TO_KITCHEN", w)
        \/ h = HistoryRow(o, "SENT_TO_KITCHEN", "PREPARING", k)
        \/ h = HistoryRow(o, "PREPARING", "READY", k)
  BY <1>1
<1>4. \A o \in OrderIds : /\ orders[o].status = "READY" /\ orders[o].createdById = w
                          /\ orders[o].items # {}
  <2>1. PICK m \in MenuItems : TRUE
    BY <1>1
  <2>2. <<b, m>> \in {b} \X MenuItems
    OBVIOUS
  <2> QED
    BY <1>1, <2>2
<1>5. TypeOK
  <2>1. orders \in [OrderIds -> OrderRow] /\ tables \in [TableIds -> TableStatuses]
    BY <1>1 DEF OrderRow, Statuses, TableStatuses
  <2>2. history \subseteq Move
    BY <1>3 DEF HistoryRow, Move, Statuses
  <2> QED
    BY <1>1, <2>1, <2>2 DEF TypeOK, Request
<1>6. \A o \in OrderIds : /\ Reached(o, "OPEN") /\ Reached(o, "SENT_TO_KITCHEN")
                          /\ Reached(o, "PREPARING") /\ Reached(o, "READY")
  BY <1>2 DEF Reached, HistoryRow
<1>7. HistoryIsEarned
  <2> SUFFICES ASSUME NEW h \in history
               PROVE  \/ /\ h.from = "OPEN" /\ h.to = "OPEN"
                         /\ Role[h.by] = "WAITER" /\ h.by = orders[h.order].createdById
                      \/ Earned(h)
    BY DEF HistoryIsEarned
  <2>1. PICK o \in OrderIds :
        \/ h = HistoryRow(o, "OPEN", "OPEN", w)
        \/ h = HistoryRow(o, "OPEN", "SENT_TO_KITCHEN", w)
        \/ h = HistoryRow(o, "SENT_TO_KITCHEN", "PREPARING", k)
        \/ h = HistoryRow(o, "PREPARING", "READY", k)
    BY <1>3
  <2>2. CASE h = HistoryRow(o, "OPEN", "OPEN", w)
    BY <1>1, <1>4, <2>2 DEF HistoryRow
  <2>3. CASE h = HistoryRow(o, "OPEN", "SENT_TO_KITCHEN", w)
    BY <1>1, <1>4, <1>6, <2>3 DEF HistoryRow, Earned, MayMove, ALLOWED_TRANSITIONS, TRANSITION_ROLES
  <2>4. CASE h = HistoryRow(o, "SENT_TO_KITCHEN", "PREPARING", k)
    BY <1>1, <1>6, <2>4 DEF HistoryRow, Earned, MayMove, ALLOWED_TRANSITIONS, TRANSITION_ROLES
  <2>5. CASE h = HistoryRow(o, "PREPARING", "READY", k)
    BY <1>1, <1>6, <2>5 DEF HistoryRow, Earned, MayMove, ALLOWED_TRANSITIONS, TRANSITION_ROLES
  <2> QED
    BY <2>1, <2>2, <2>3, <2>4, <2>5
<1>8. HistoryOfOrders
  BY <1>2, <1>4 DEF HistoryOfOrders, Exists
<1>9. StatusIsRecorded
  BY <1>4, <1>6 DEF StatusIsRecorded
<1>10. RequestsAreEarned /\ OrderNeverEmpty /\ AuditIsTrue
  BY <1>1, <1>4 DEF RequestsAreEarned, OrderNeverEmpty, AuditIsTrue, Idle
<1> QED
  BY <1>5, <1>7, <1>8, <1>9, <1>10 DEF IInv

LEMMA HouseInit == BillingInit => HouseInv
<1> SUFFICES ASSUME BillingInit PROVE HouseInv
  OBVIOUS
<1>1. IInv
  BY IInvInit, KitchenDoneStart DEF BillingInit
<1>2. LedgerInv
  BY LedgerInit
<1>3. \A i \in InvoiceIds : ~ Issued(i)
  BY DEF BillingInit, NoInvoice, Issued
<1>4. BillsAreOfOrders /\ InvoicedWasCooked
  BY <1>3 DEF BillingInit, BillsAreOfOrders, InvoicedWasCooked, Idle
<1>5. \A o \in OrderIds : orders[o].status # "BILLED"
  BY DEF BillingInit, Init, NoOrder, KitchenDone
<1> QED
  BY <1>1, <1>2, <1>4, <1>5 DEF HouseInv, BilledIsExplained

-----------------------------------------------------------------------------
\* Every step keeps the invariant of the house

LEMMA CookedStays ==
  ASSUME history \subseteq history', NEW o, Cooked(o)
  PROVE  Cooked(o)'
BY DEF Cooked

\* A step of the order handlers leaves the books alone.
LEMMA OrdersStep ==
  ASSUME HouseInv, [Next]_vars, UNCHANGED <<invoices, refunds, breq>>
  PROVE  HouseInv'
<1>1. IInv' /\ OrdersGrow
  BY IInvStep, OrdersStepGrows DEF HouseInv
<1>2. LedgerInv'
  BY Untouched DEF HouseInv
<1>3. \A o : Cooked(o) => Cooked(o)'
  BY <1>1, CookedStays DEF OrdersGrow
<1>4. BillsAreOfOrders'
  <2>1. ASSUME NEW r \in Handlers, breq[r].at \in {"invoice.number", "invoice.insert"}
        PROVE  Exists(breq[r].order)' /\ Cooked(breq[r].order)'
    <3>1. PICK o \in OrderIds : o = breq[r].order
      BY <2>1 DEF HouseInv, LedgerInv, HandlersHold, Holds
    <3>2. Exists(o)' /\ Cooked(o)'
      BY <1>1, <1>3, <2>1, <3>1 DEF HouseInv, BillsAreOfOrders, OrdersGrow
    <3> QED
      BY <3>1, <3>2 DEF Exists, Cooked
  <2>2. ASSUME NEW i \in InvoiceIds, Issued(i)
        PROVE  invoices[i].order \in OrderIds /\ Exists(invoices[i].order)'
    <3>1. PICK o \in OrderIds : o = invoices[i].order /\ Exists(o)
      BY <2>2 DEF HouseInv, BillsAreOfOrders
    <3> QED
      BY <1>1, <3>1 DEF OrdersGrow, Exists
  <2> QED
    BY <2>1, <2>2 DEF BillsAreOfOrders, Issued, Exists, Cooked
<1>5. InvoicedWasCooked'
  <2>1. ASSUME NEW i \in InvoiceIds, Issued(i)
        PROVE  InvoiceOf(invoices[i].order) = {i} /\ Cooked(invoices[i].order)'
    <3>1. PICK o : o = invoices[i].order
      OBVIOUS
    <3>2. InvoiceOf(o) = {i} /\ Cooked(o)'
      BY <1>3, <2>1, <3>1 DEF HouseInv, InvoicedWasCooked
    <3> QED
      BY <3>1, <3>2 DEF Cooked
  <2> QED
    BY <2>1 DEF InvoicedWasCooked, InvoiceOf, Issued, Cooked
<1>6. BilledIsExplained'
  <2> SUFFICES ASSUME NEW o \in OrderIds, orders'[o].status = "BILLED"
               PROVE  \/ \E u \in Users : /\ Role[u] = "CASHIER"
                                          /\ HistoryRow(o, "SERVED", "BILLED", u) \in history'
                      \/ \E i \in InvoiceOf(o) : Settled(i)
    BY DEF BilledIsExplained, InvoiceOf, Settled, Issued, HistoryRow
  <2> QED
    BY <1>1 DEF OrdersGrow, HouseInv, BilledIsExplained
<1> QED
  BY <1>1, <1>2, <1>4, <1>5, <1>6 DEF HouseInv
\* So does a billing step that touches no order and issues no invoice, if a
\* handler it sends to the insert read an order that was cooked.
LEMMA BooksStep ==
  ASSUME HouseInv, LedgerInv', UNCHANGED vars,
         \A i \in InvoiceIds :
           /\ Issued(i)' <=> Issued(i)
           /\ invoices'[i].order = invoices[i].order
           /\ Settled(i) => Settled(i)',
         NEW r \in Handlers, breq' = [breq EXCEPT ![r] = breq'[r]],
         breq'[r].at \in {"invoice.number", "invoice.insert"} =>
           Exists(breq'[r].order) /\ Cooked(breq'[r].order)
  PROVE  HouseInv'
<1>1. IInv'
  BY IInvStep DEF HouseInv
<1>2. UNCHANGED <<orders, history>>
  BY DEF vars
<1>3. \A s \in Handlers : s # r => breq'[s] = breq[s]
  BY DEF HouseInv, LedgerInv
<1>4. BillsAreOfOrders'
  <2>1. ASSUME NEW s \in Handlers, breq'[s].at \in {"invoice.number", "invoice.insert"}
        PROVE  Exists(breq'[s].order) /\ Cooked(breq'[s].order)
    BY <1>3, <2>1 DEF HouseInv, BillsAreOfOrders
  <2>2. \A i \in InvoiceIds : Issued(i)' => invoices'[i].order \in OrderIds /\ Exists(invoices'[i].order)
    BY DEF HouseInv, BillsAreOfOrders, Issued, Settled
  <2> QED
    BY <1>2, <2>1, <2>2 DEF BillsAreOfOrders, Exists, Cooked
<1>5. \A o : InvoiceOf(o)' = InvoiceOf(o)
  BY DEF InvoiceOf, Issued, Settled
<1>6. InvoicedWasCooked'
  <2>1. ASSUME NEW i \in InvoiceIds, Issued(i)'
        PROVE  InvoiceOf(invoices'[i].order) = {i} /\ Cooked(invoices'[i].order)
    BY <2>1 DEF HouseInv, InvoicedWasCooked, Issued, Settled
  <2>2. ASSUME NEW i \in InvoiceIds, Issued(i)'
        PROVE  (InvoiceOf(invoices[i].order) = {i} /\ Cooked(invoices[i].order))'
    <3>1. PICK o : o = invoices'[i].order
      OBVIOUS
    <3>2. InvoiceOf(o)' = {i} /\ Cooked(o)'
      BY <1>2, <1>5, <2>1, <2>2, <3>1 DEF Cooked
    <3> QED
      BY <3>1, <3>2 DEF InvoiceOf, Cooked, Issued
  <2> QED
    BY <2>2 DEF InvoicedWasCooked
<1>7. BilledIsExplained'
  <2> SUFFICES ASSUME NEW o \in OrderIds, orders[o].status = "BILLED"
               PROVE  \/ \E u \in Users : /\ Role[u] = "CASHIER"
                                          /\ HistoryRow(o, "SERVED", "BILLED", u) \in history
                      \/ \E i \in InvoiceOf(o)' : Settled(i)'
    BY <1>2 DEF BilledIsExplained, InvoiceOf, Settled, Issued, HistoryRow
  <2> QED
    BY <1>5 DEF HouseInv, BilledIsExplained, InvoiceOf
<1> QED
  BY <1>1, <1>4, <1>6, <1>7 DEF HouseInv
\* createInvoice inserts for an order that was cooked and had no invoice.
LEMMA HouseInsert ==
  ASSUME HouseInv, NEW r \in Handlers, CreateInvoiceInsert(r)
  PROVE  HouseInv'
<1>1. LedgerInv'
  BY InsertStep DEF HouseInv
<1>2. UNCHANGED vars /\ breq' = [breq EXCEPT ![r] = Idle]
  BY DEF CreateInvoiceInsert, Finish, Continue
<1>3. IInv'
  BY <1>2, IInvStep DEF HouseInv
<1>4. UNCHANGED <<orders, history>>
  BY <1>2 DEF vars
<1>5. PICK o \in OrderIds : o = breq[r].order /\ Exists(o) /\ Cooked(o) /\ InvoiceOf(o) = {}
  BY DEF CreateInvoiceInsert, HouseInv, LedgerInv, HandlersHold, Holds, BillsAreOfOrders
<1>6. PICK i \in InvoiceIds :
        /\ ~ Issued(i)
        /\ invoices'[i].order = o /\ invoices'[i].status = "UNPAID"
        /\ \A j \in InvoiceIds \ {i} : invoices'[j] = invoices[j]
  BY <1>5 DEF CreateInvoiceInsert, NoInvoice, HouseInv, LedgerInv
<1>7. BillsAreOfOrders'
  <2>1. ASSUME NEW s \in Handlers, breq'[s].at \in {"invoice.number", "invoice.insert"}
        PROVE  Exists(breq'[s].order) /\ Cooked(breq'[s].order)
    BY <1>2, <2>1 DEF HouseInv, LedgerInv, BillsAreOfOrders, Idle
  <2>2. ASSUME NEW j \in InvoiceIds, Issued(j)'
        PROVE  invoices'[j].order \in OrderIds /\ Exists(invoices'[j].order)
    BY <1>5, <1>6, <2>2 DEF HouseInv, BillsAreOfOrders, Issued
  <2> QED
    BY <1>4, <2>1, <2>2 DEF BillsAreOfOrders, Exists, Cooked
<1>8. \A p : InvoiceOf(p)' = IF p = o THEN {i} ELSE InvoiceOf(p)
  BY <1>5, <1>6 DEF InvoiceOf, Issued
<1>9. InvoicedWasCooked'
  <2> SUFFICES ASSUME NEW j \in InvoiceIds, Issued(j)'
               PROVE  (InvoiceOf(invoices[j].order) = {j} /\ Cooked(invoices[j].order))'
    BY DEF InvoicedWasCooked
  <2>1. PICK p : p = invoices'[j].order
    OBVIOUS
  <2>2. CASE j = i
    BY <1>4, <1>5, <1>6, <1>8, <2>1, <2>2 DEF InvoiceOf, Issued, Cooked
  <2>3. CASE j # i
    <3>1. Issued(j) /\ invoices[j].order = p
      BY <1>6, <2>1, <2>3 DEF Issued
    <3>2. InvoiceOf(p) = {j} /\ Cooked(p)
      BY <3>1 DEF HouseInv, InvoicedWasCooked
    <3>3. InvoiceOf(p)' = {j} /\ Cooked(p)'
      BY <1>4, <1>5, <1>8, <3>2 DEF Cooked
    <3> QED
      BY <2>1, <3>3 DEF InvoiceOf, Issued, Cooked
  <2> QED
    BY <2>2, <2>3
<1>10. BilledIsExplained'
  <2> SUFFICES ASSUME NEW p \in OrderIds, orders[p].status = "BILLED"
               PROVE  \/ \E u \in Users : /\ Role[u] = "CASHIER"
                                          /\ HistoryRow(p, "SERVED", "BILLED", u) \in history
                      \/ \E j \in InvoiceOf(p)' : Settled(j)'
    BY <1>4 DEF BilledIsExplained, InvoiceOf, Settled, Issued, HistoryRow
  <2>1. CASE \E j \in InvoiceOf(p) : Settled(j)
    <3>1. PICK j \in InvoiceOf(p) : Settled(j)
      BY <2>1
    <3>2. p # o /\ j \in InvoiceIds /\ j # i
      BY <1>5, <1>6, <3>1 DEF InvoiceOf
    <3>3. j \in InvoiceOf(p)' /\ Settled(j)'
      BY <1>6, <1>8, <3>1, <3>2 DEF Settled, Issued
    <3> QED
      BY <3>3
  <2> QED
    BY <2>1 DEF HouseInv, BilledIsExplained
<1> QED
  BY <1>1, <1>3, <1>7, <1>9, <1>10 DEF HouseInv

\* A settlement makes the order BILLED and its invoice settled at once.
LEMMA HouseSettle ==
  ASSUME HouseInv, NEW r \in Handlers, Settle(r)
  PROVE  HouseInv'
<1>1. LedgerInv'
  BY SettlementStep DEF HouseInv
<1>2. PICK i \in InvoiceIds : i = breq[r].invoice /\ Issued(i)
  BY DEF Settle, HouseInv, LedgerInv, HandlersHold, Holds
<1>3. PICK o \in OrderIds : o = invoices[i].order /\ Exists(o)
  BY <1>2 DEF HouseInv, BillsAreOfOrders
<1>4. IInv'
  BY <1>2, <1>3, SettleKeepsOrders DEF HouseInv
<1>5. /\ UNCHANGED history
      /\ breq' = [breq EXCEPT ![r] = [at |-> "stock.read", invoice |-> i, method |-> breq[r].method]]
      /\ \A p \in OrderIds : orders'[p].status = IF p = o THEN "BILLED" ELSE orders[p].status
  BY <1>2, <1>3 DEF Settle, Continue, HouseInv, IInv, TypeOK, OrderRow
<1>6. \A j \in InvoiceIds : /\ invoices'[j].order = invoices[j].order
                            /\ invoices'[j].status = IF j = i THEN "PAID" ELSE invoices[j].status
                            /\ j # i => invoices'[j].paidAt = invoices[j].paidAt
  <2>1. \A j \in InvoiceIds : invoices[j] \in InvoiceRow
    BY DEF HouseInv, LedgerInv
  <2>2. invoices' = [invoices EXCEPT
          ![i].status = "PAID", ![i].paidAt = @ + 1,
          ![i].method = IF breq[r].method = "STRIPE" THEN "STRIPE" ELSE @]
    BY <1>2 DEF Settle
  <2> QED
    BY <1>2, <2>1, <2>2 DEF InvoiceRow, HouseInv, LedgerInv
<1>7. \A j \in InvoiceIds : Issued(j)' <=> Issued(j)
  BY <1>2, <1>6 DEF Issued
<1>8. invoices'[i].paidAt # 0
  BY <1>1, <1>2, <1>6 DEF LedgerInv, PaidStaysPaid, Issued, Settled
<1>9. BillsAreOfOrders'
  <2>1. ASSUME NEW s \in Handlers, breq'[s].at \in {"invoice.number", "invoice.insert"}
        PROVE  breq'[s] = breq[s] /\ Exists(breq[s].order) /\ Cooked(breq[s].order)
                 /\ breq[s].order \in OrderIds
    BY <1>5, <2>1 DEF HouseInv, LedgerInv, BillsAreOfOrders, HandlersHold, Holds
  <2>2. ASSUME NEW j \in InvoiceIds, Issued(j)'
        PROVE  invoices'[j].order = invoices[j].order
                 /\ invoices[j].order \in OrderIds /\ Exists(invoices[j].order)
    BY <1>6, <1>7, <2>2 DEF HouseInv, BillsAreOfOrders
  <2>3. \A p \in OrderIds : Exists(p) => Exists(p)'
    BY <1>5 DEF Exists
  <2> QED
    BY <1>5, <2>1, <2>2, <2>3 DEF BillsAreOfOrders, Exists, Cooked
<1>10. \A p : InvoiceOf(p)' = InvoiceOf(p)
  BY <1>6, <1>7 DEF InvoiceOf, Issued
<1>11. InvoicedWasCooked'
  <2> SUFFICES ASSUME NEW j \in InvoiceIds, Issued(j)'
               PROVE  (InvoiceOf(invoices[j].order) = {j} /\ Cooked(invoices[j].order))'
    BY DEF InvoicedWasCooked
  <2>1. PICK p : p = invoices'[j].order
    OBVIOUS
  <2>2. InvoiceOf(p) = {j} /\ Cooked(p)
    BY <1>6, <1>7, <2>1 DEF HouseInv, InvoicedWasCooked
  <2>3. InvoiceOf(p)' = {j} /\ Cooked(p)'
    BY <1>5, <1>10, <2>2 DEF Cooked
  <2> QED
    BY <2>1, <2>3 DEF InvoiceOf, Issued, Cooked
<1>12. BilledIsExplained'
  <2> SUFFICES ASSUME NEW p \in OrderIds, orders'[p].status = "BILLED"
               PROVE  \/ \E u \in Users : /\ Role[u] = "CASHIER"
                                          /\ HistoryRow(p, "SERVED", "BILLED", u) \in history
                      \/ \E j \in InvoiceOf(p)' : Settled(j)'
    BY <1>5 DEF BilledIsExplained, InvoiceOf, Settled, Issued, HistoryRow
  <2>1. CASE p = o
    <3>1. i \in InvoiceOf(o)' /\ Settled(i)'
      BY <1>2, <1>3, <1>6, <1>7, <1>8 DEF InvoiceOf, Issued, Settled
    <3> QED
      BY <2>1, <3>1
  <2>2. CASE p # o
    <3>1. \A j \in InvoiceIds : Settled(j) => Settled(j)'
      BY <1>2, <1>6, <1>8 DEF Settled, Issued
    <3>2. InvoiceOf(p) \subseteq InvoiceIds
      BY DEF InvoiceOf
    <3> QED
      BY <1>5, <1>10, <2>2, <3>1, <3>2 DEF HouseInv, BilledIsExplained
  <2> QED
    BY <2>1, <2>2
<1> QED
  BY <1>1, <1>4, <1>9, <1>11, <1>12 DEF HouseInv
-----------------------------------------------------------------------------
\* The invariant of orders and books together

\* Billing steps other than the insert and the settlement.
LEMMA HouseInvoiceReads ==
  ASSUME HouseInv, NEW r \in Handlers,
         \/ \E o \in OrderIds, d \in Discounts : CreateInvoiceRead(r, o, d)
         \/ GenerateInvoiceNumber(r)
  PROVE  HouseInv'
<1>1. LedgerInv'
  BY InvoiceReads DEF HouseInv
<1>2. ASSUME NEW o \in OrderIds, NEW d \in Discounts, CreateInvoiceRead(r, o, d)
      PROVE  HouseInv'
  <2>1. Exists(o) /\ Cooked(o)
    BY <1>2, CookedFromIInv
       DEF CreateInvoiceRead, HouseInv, CookedBeforeServed, BILLABLE_ORDER_STATUSES, Exists, Cooked
  <2>2. /\ UNCHANGED vars /\ UNCHANGED invoices
        /\ breq' = [breq EXCEPT ![r] = breq'[r]] /\ breq'[r].order = o
    BY <1>2 DEF CreateInvoiceRead, Continue, books, HouseInv, LedgerInv
  <2> QED
    BY <1>1, <2>1, <2>2, BooksStep DEF Issued, Settled
<1>3. CASE GenerateInvoiceNumber(r)
  <2>1. Exists(breq[r].order) /\ Cooked(breq[r].order)
    BY <1>3 DEF GenerateInvoiceNumber, HouseInv, BillsAreOfOrders
  <2>2. /\ UNCHANGED vars /\ UNCHANGED invoices
        /\ breq' = [breq EXCEPT ![r] = breq'[r]] /\ breq'[r].order = breq[r].order
    BY <1>3 DEF GenerateInvoiceNumber, Continue, books, HouseInv, LedgerInv
  <2> QED
    BY <1>1, <2>1, <2>2, BooksStep DEF Issued, Settled
<1> QED
  BY <1>2, <1>3

LEMMA HouseQuiet ==
  ASSUME HouseInv, LedgerInv', UNCHANGED vars, UNCHANGED invoices, NEW r \in Handlers,
         \/ UNCHANGED breq
         \/ /\ breq' = [breq EXCEPT ![r] = breq'[r]]
            /\ breq'[r].at \notin {"invoice.number", "invoice.insert"}
  PROVE  HouseInv'
<1>1. CASE UNCHANGED breq
  <2>1. breq' = [breq EXCEPT ![r] = breq'[r]]
    BY <1>1 DEF HouseInv, LedgerInv
  <2>2. breq'[r].at \in {"invoice.number", "invoice.insert"} =>
          Exists(breq'[r].order) /\ Cooked(breq'[r].order)
    BY <1>1 DEF HouseInv, BillsAreOfOrders
  <2> QED
    BY <2>1, <2>2, BooksStep DEF Issued, Settled
<1>2. CASE /\ breq' = [breq EXCEPT ![r] = breq'[r]]
           /\ breq'[r].at \notin {"invoice.number", "invoice.insert"}
  BY <1>2, BooksStep DEF Issued, Settled
<1> QED
  BY <1>1, <1>2

LEMMA HouseSettleReads ==
  ASSUME HouseInv, NEW r \in Handlers,
         \/ \E i \in InvoiceIds : ConfirmPaymentRead(r, i) \/ WebhookRead(r, i)
         \/ DecrementRead(r) \/ DecrementOne(r) \/ DecrementDone(r) \/ Respond(r)
         \/ AbandonBilling(r)
  PROVE  HouseInv'
<1>1. LedgerInv'
  BY SettleReads DEF HouseInv
<1>2. ASSUME NEW i \in InvoiceIds, ConfirmPaymentRead(r, i)
      PROVE  HouseInv'
  BY <1>1, <1>2, HouseQuiet DEF ConfirmPaymentRead, Continue, books, HouseInv, LedgerInv
<1>3. ASSUME NEW i \in InvoiceIds, WebhookRead(r, i)
      PROVE  HouseInv'
  BY <1>1, <1>3, HouseQuiet DEF WebhookRead, Continue, books, HouseInv, LedgerInv
<1>4. CASE DecrementRead(r) \/ DecrementDone(r) \/ Respond(r) \/ AbandonBilling(r)
  BY <1>1, <1>4, HouseQuiet
     DEF DecrementRead, DecrementDone, Respond, AbandonBilling, Finish, Continue, Idle, books,
         HouseInv, LedgerInv
<1>5. CASE DecrementOne(r)
  <2>1. PICK u \in breq[r].left :
          breq' = [breq EXCEPT ![r] =
            [at |-> "stock.take", invoice |-> breq[r].invoice, method |-> breq[r].method,
             left |-> breq[r].left \ {u}]]
    BY <1>5 DEF DecrementOne, Continue
  <2>2. breq = [h \in Handlers |-> breq[h]]
    BY DEF HouseInv, LedgerInv
  <2>3. /\ breq' = [breq EXCEPT ![r] = breq'[r]]
        /\ breq'[r].at \notin {"invoice.number", "invoice.insert"}
    BY <2>1, <2>2
  <2>4. UNCHANGED vars /\ UNCHANGED invoices
    BY <1>5 DEF DecrementOne
  <2> QED
    BY <1>1, <2>3, <2>4, HouseQuiet
<1> QED
  BY <1>2, <1>3, <1>4, <1>5

LEMMA HouseIntent ==
  ASSUME HouseInv, NEW r \in Handlers, IntentStep(r)
  PROVE  HouseInv'
<1>1. LedgerInv'
  BY IntentReads, IntentSaveStep DEF IntentStep, HouseInv
<1>2. ASSUME NEW i \in InvoiceIds, CreateIntentRead(r, i)
      PROVE  HouseInv'
  <2>1. /\ UNCHANGED vars /\ UNCHANGED invoices
        /\ breq' = [breq EXCEPT ![r] = breq'[r]]
        /\ breq'[r].at \notin {"invoice.number", "invoice.insert"}
    BY <1>2 DEF CreateIntentRead, Continue, books, HouseInv, LedgerInv
  <2> QED
    BY <1>1, <2>1, HouseQuiet
<1>3. CASE CreateIntentCall(r)
  <2>1. /\ UNCHANGED vars /\ UNCHANGED invoices
        /\ breq' = [breq EXCEPT ![r] = breq'[r]]
        /\ breq'[r].at \notin {"invoice.number", "invoice.insert"}
    BY <1>3 DEF CreateIntentCall, Continue, books, HouseInv, LedgerInv
  <2> QED
    BY <1>1, <2>1, HouseQuiet
<1>4. CASE CreateIntentSave(r)
  <2>1. \A i \in InvoiceIds :
          /\ invoices'[i].status = invoices[i].status
          /\ invoices'[i].order = invoices[i].order
          /\ invoices'[i].paidAt = invoices[i].paidAt
    BY <1>4 DEF CreateIntentSave, HouseInv, LedgerInv, InvoiceRow
  <2> QED
    BY <1>1, <1>4, <2>1, BooksStep
       DEF CreateIntentSave, Finish, Continue, Idle, HouseInv, LedgerInv, Issued, Settled
<1> QED
  BY <1>2, <1>3, <1>4 DEF IntentStep

LEMMA HouseRefund ==
  ASSUME HouseInv, NEW r \in Handlers, RefundStep(r)
  PROVE  HouseInv'
<1>1. LedgerInv'
  BY RefundReads, RequestRefundStep, ApproveStep, RejectStep DEF RefundStep, HouseInv
<1>2. CASE \/ \E i \in InvoiceIds, a \in Amounts, u \in Users : RequestRefundRead(r, i, a, u)
           \/ \E f \in RefundIds, u \in Users : ApproveRefundRead(r, f, u) \/ RejectRefundRead(r, f, u)
           \/ RequestRefundPending(r) \/ RequestRefundInsert(r) \/ RejectRefundWrite(r)
  <2>1. /\ UNCHANGED vars /\ UNCHANGED invoices
        /\ breq' = [breq EXCEPT ![r] = breq'[r]]
        /\ breq'[r].at \notin {"invoice.number", "invoice.insert"}
    BY <1>2 DEF RequestRefundRead, ApproveRefundRead, RejectRefundRead, RequestRefundPending,
       RequestRefundInsert, RejectRefundWrite, Finish, Continue, Idle, books, HouseInv, LedgerInv
  <2> QED
    BY <1>1, <2>1, HouseQuiet
<1>3. CASE ApproveRefundCommit(r)
  <2>1. /\ breq[r].newStatus \in {"REFUNDED", "PARTIALLY_REFUNDED"}
        /\ refunds[breq[r].refund].invoice \in InvoiceIds
        /\ Issued(refunds[breq[r].refund].invoice)
    BY <1>3 DEF ApproveRefundCommit, HouseInv, LedgerInv, HandlersHold, Holds, ReversalOf,
       RefundsAreOfPaid, Settled
  <2>2. \A i \in InvoiceIds :
          /\ invoices'[i].status # "NONE" <=> invoices[i].status # "NONE"
          /\ invoices'[i].order = invoices[i].order
          /\ invoices'[i].paidAt = invoices[i].paidAt
    BY <1>3, <2>1 DEF ApproveRefundCommit, HouseInv, LedgerInv, InvoiceRow, Issued
  <2> QED
    BY <1>1, <1>3, <2>2, BooksStep
       DEF ApproveRefundCommit, Finish, Continue, Idle, HouseInv, LedgerInv, Issued, Settled
<1> QED
  BY <1>2, <1>3 DEF RefundStep

LEMMA HouseStep == HouseInv /\ [BillingNext]_bvars => HouseInv'
<1> SUFFICES ASSUME HouseInv, [BillingNext]_bvars PROVE HouseInv'
  OBVIOUS
<1>1. CASE UNCHANGED bvars \/ (Next /\ UNCHANGED <<books, stripe, breq>>)
  BY <1>1, OrdersStep DEF bvars, books
<1>2. ASSUME NEW i \in InvoiceIds, GuestPays(i) PROVE HouseInv'
  BY <1>2, OrdersStep DEF GuestPays, books
<1>3. ASSUME NEW r \in Handlers,
             InvoiceStep(r) \/ SettleStep(r) \/ IntentStep(r) \/ RefundStep(r) \/ AbandonBilling(r)
      PROVE  HouseInv'
  <2>1. CASE InvoiceStep(r)
    BY <2>1, HouseInvoiceReads, HouseInsert DEF InvoiceStep
  <2>2. CASE SettleStep(r) \/ AbandonBilling(r)
    BY <2>2, HouseSettleReads, HouseSettle DEF SettleStep
  <2> QED
    BY <1>3, <2>1, <2>2, HouseIntent, HouseRefund
<1> QED
  BY <1>1, <1>2, <1>3 DEF BillingNext

\* Orders and books keep their invariant together.
THEOREM HouseInvariance == BillingSpec => []HouseInv
  BY HouseInit, HouseStep, PTL DEF BillingSpec

\* The order invariant, proved of the order handlers alone, survives the
\* settlements that write order rows beside them.
THEOREM OrdersBesideBilling == BillingSpec => []IInv
<1>1. HouseInv => IInv
  BY DEF HouseInv
<1> QED
  BY <1>1, HouseInvariance, PTL

\* Every invoice is the only one of its order, and the order was cooked.
THEOREM BilledWasCooked == BillingSpec => []InvoicedWasCooked
<1>1. HouseInv => InvoicedWasCooked
  BY DEF HouseInv
<1> QED
  BY <1>1, HouseInvariance, PTL

\* BILLED has a cashier's move or a settlement behind it.
THEOREM BilledHasReason == BillingSpec => []BilledIsExplained
<1>1. HouseInv => BilledIsExplained
  BY DEF HouseInv
<1> QED
  BY <1>1, HouseInvariance, PTL
-----------------------------------------------------------------------------
\* Types of orders and books: what a handler holds is what it may hold.

LEMMA UsageTypes ==
  ASSUME NEW items \in SUBSET (Batches \X MenuItems)
  PROVE  Usage(items) \in SUBSET (Ingredients \X Nat)
<1>1. IsFiniteSet(items)
  <2>1. IsFiniteSet(Batches \X MenuItems)
    BY ItemsAssumption, FS_Product
  <2> QED
    BY <2>1, FS_Subset
<1>2. ASSUME NEW g PROVE Cardinality({x \in items : g \in Recipe[x[2]]}) \in Nat
  <2>1. IsFiniteSet({x \in items : g \in Recipe[x[2]]})
    BY <1>1, FS_Subset
  <2> QED
    BY <2>1, FS_CardinalityType
<1>3. UNION {Recipe[x[2]] : x \in items} \subseteq Ingredients
  BY RecipeAssumption
<1>4. ASSUME NEW u \in Usage(items) PROVE u \in Ingredients \X Nat
  <2>1. PICK g \in UNION {Recipe[x[2]] : x \in items} :
          u = <<g, Cardinality({x \in items : g \in Recipe[x[2]]})>>
    BY DEF Usage
  <2>2. g \in Ingredients /\ Cardinality({x \in items : g \in Recipe[x[2]]}) \in Nat
    BY <1>2, <1>3
  <2> QED
    BY <2>1, <2>2
<1> QED
  BY <1>4

LEMMA BTypeStart == BillingInit => BTypeOK
<1> SUFFICES ASSUME BillingInit PROVE BTypeOK
  OBVIOUS
<1>1. TypeOK
  BY IInvInit, KitchenDoneStart DEF BillingInit, IInv
<1>2. invoices \in [InvoiceIds -> InvoiceRow] /\ refunds \in [RefundIds -> RefundRow]
  BY LedgerInit DEF LedgerInv
<1>3. stock \in [Ingredients -> Int] /\ intents \in [InvoiceIds -> {"none", "open", "paid"}]
      /\ undelivered \subseteq InvoiceIds
  BY StockAssumption DEF BillingInit
<1>4. breq \in [Handlers -> BRequest]
  BY DEF BillingInit, BRequest
<1> QED
  BY <1>1, <1>2, <1>3, <1>4 DEF BTypeOK

\* A handler goes on to something it may hold.
LEMMA NextRequest ==
  ASSUME breq \in [Handlers -> BRequest], NEW r \in Handlers, NEW next \in BRequest,
         Continue(r, next)
  PROVE  breq' \in [Handlers -> BRequest]
BY DEF Continue

LEMMA InvoiceTypes ==
  ASSUME BTypeOK, LedgerInv, NEW r \in Handlers, InvoiceStep(r)
  PROVE  breq' \in [Handlers -> BRequest]
<1>1. ASSUME NEW o \in OrderIds, NEW d \in Discounts, CreateInvoiceRead(r, o, d)
      PROVE  breq' \in [Handlers -> BRequest]
  <2> DEFINE total == Total(orders[o].items, d)
  <2>1. total \in Amounts /\ Continue(r, [at |-> "invoice.number", order |-> o, total |-> total])
    BY <1>1 DEF CreateInvoiceRead
  <2> HIDE DEF total
  <2>2. [at |-> "invoice.number", order |-> o, total |-> total] \in BRequest
    BY <2>1 DEF BRequest
  <2> QED
    BY <2>1, <2>2, NextRequest DEF BTypeOK
<1>2. CASE GenerateInvoiceNumber(r)
  <2>1. breq[r].order \in OrderIds /\ breq[r].total \in Amounts
    BY <1>2 DEF GenerateInvoiceNumber, LedgerInv, HandlersHold, Holds
  <2>2. Cardinality(IssuedIds) + 1 \in Nat
    BY IssuedFinite
  <2>3. [at |-> "invoice.insert", order |-> breq[r].order, total |-> breq[r].total,
         number |-> Cardinality(IssuedIds) + 1] \in BRequest
    BY <2>1, <2>2 DEF BRequest
  <2> QED
    BY <1>2, <2>3, NextRequest DEF GenerateInvoiceNumber, BTypeOK
<1>3. CASE CreateInvoiceInsert(r)
  BY <1>3, NextRequest DEF CreateInvoiceInsert, Finish, BRequest, BTypeOK
<1> QED
  BY <1>1, <1>2, <1>3 DEF InvoiceStep

\* What a handler in a settlement holds.
LEMMA SettleFields ==
  ASSUME BTypeOK, NEW r \in Handlers
  PROVE  /\ breq[r].at \in {"pay.tx", "stock.read", "stock.take", "respond"} =>
              breq[r].invoice \in InvoiceIds /\ breq[r].method \in {"CASH", "STRIPE"}
         /\ breq[r].at = "stock.take" => breq[r].left \in SUBSET (Ingredients \X Nat)
<1> PICK q \in BRequest : q = breq[r]
  BY DEF BTypeOK
<1>1. q.at \in {"pay.tx", "stock.read", "stock.take", "respond"} =>
        q.invoice \in InvoiceIds /\ q.method \in {"CASH", "STRIPE"}
  BY DEF BRequest, Idle
<1>2. q.at = "stock.take" => q.left \in SUBSET (Ingredients \X Nat)
  BY DEF BRequest, Idle
<1> QED
  BY <1>1, <1>2

LEMMA SettleTypes ==
  ASSUME BTypeOK, HouseInv, ChargesInv, NEW r \in Handlers, SettleStep(r)
  PROVE  breq' \in [Handlers -> BRequest] /\ stock' \in [Ingredients -> Int]
<1> USE DEF BTypeOK
<1>1. ASSUME NEW i \in InvoiceIds, ConfirmPaymentRead(r, i) \/ WebhookRead(r, i)
      PROVE  breq' \in [Handlers -> BRequest] /\ stock' = stock
  <2>1. /\ [at |-> "pay.tx", invoice |-> i, method |-> "CASH"] \in BRequest
        /\ [at |-> "pay.tx", invoice |-> i, method |-> "STRIPE"] \in BRequest
    BY DEF BRequest
  <2> QED
    BY <1>1, <2>1, NextRequest DEF ConfirmPaymentRead, WebhookRead, books
<1>2. CASE Settle(r)
  <2>1. [at |-> "stock.read", invoice |-> breq[r].invoice, method |-> breq[r].method] \in BRequest
    BY <1>2, SettleFields DEF Settle, BRequest
  <2> QED
    BY <1>2, <2>1, NextRequest DEF Settle
<1>3. CASE DecrementRead(r)
  <2>1. PICK i \in InvoiceIds : i = breq[r].invoice /\ Issued(i)
    BY <1>3 DEF DecrementRead, ChargesInv, HandlersAreBehind, Behind, Settled
  <2>2. PICK items : items = orders[invoices[i].order].items
    OBVIOUS
  <2>3. items \in SUBSET (Batches \X MenuItems)
    BY <2>1, <2>2 DEF HouseInv, BillsAreOfOrders, TypeOK, OrderRow
  <2>4. PICK left \in SUBSET (Ingredients \X Nat) : left = Usage(items)
    BY <2>3, UsageTypes
  <2>5. [at |-> "stock.take", invoice |-> breq[r].invoice, method |-> breq[r].method,
         left |-> left] \in BRequest
    BY <1>3, SettleFields DEF DecrementRead, BRequest
  <2>6. Continue(r, [at |-> "stock.take", invoice |-> breq[r].invoice, method |-> breq[r].method,
                     left |-> left]) /\ stock' = stock
    BY <1>3, <2>1, <2>2, <2>4 DEF DecrementRead, books
  <2> QED
    BY <2>5, <2>6, NextRequest
<1>4. CASE DecrementOne(r)
  <2>1. PICK u \in breq[r].left :
          /\ stock' = [stock EXCEPT ![u[1]] = @ - u[2]]
          /\ Continue(r, [at |-> "stock.take", invoice |-> breq[r].invoice,
                          method |-> breq[r].method, left |-> breq[r].left \ {u}])
    BY <1>4 DEF DecrementOne
  <2>2. u \in Ingredients \X Nat /\ breq[r].left \ {u} \in SUBSET (Ingredients \X Nat)
    BY <1>4, SettleFields DEF DecrementOne
  <2>3. [at |-> "stock.take", invoice |-> breq[r].invoice, method |-> breq[r].method,
         left |-> breq[r].left \ {u}] \in BRequest
    BY <1>4, <2>2, SettleFields DEF DecrementOne, BRequest
  <2>4. breq' \in [Handlers -> BRequest]
    BY <2>1, <2>3, NextRequest
  <2>5. u[1] \in Ingredients /\ u[2] \in Nat
    BY <2>2
  <2>6. stock' \in [Ingredients -> Int]
    BY <2>1, <2>5
  <2> QED
    BY <2>4, <2>6
<1>5. CASE DecrementDone(r)
  <2>1. [at |-> "respond", invoice |-> breq[r].invoice, method |-> breq[r].method] \in BRequest
    BY <1>5, SettleFields DEF DecrementDone, BRequest
  <2> QED
    BY <1>5, <2>1, NextRequest DEF DecrementDone, books
<1>6. CASE Respond(r)
  BY <1>6, NextRequest DEF Respond, Finish, BRequest, books
<1> QED
  BY <1>1, <1>2, <1>3, <1>4, <1>5, <1>6 DEF SettleStep

LEMMA IntentTypes ==
  ASSUME BTypeOK, LedgerInv, NEW r \in Handlers, IntentStep(r)
  PROVE  breq' \in [Handlers -> BRequest]
<1>1. ASSUME NEW i \in InvoiceIds, CreateIntentRead(r, i) PROVE breq' \in [Handlers -> BRequest]
  BY <1>1, NextRequest DEF CreateIntentRead, BRequest, BTypeOK
<1>2. CASE CreateIntentCall(r)
  <2>1. breq[r].invoice \in InvoiceIds
    BY <1>2 DEF CreateIntentCall, LedgerInv, HandlersHold, Holds
  <2>2. [at |-> "intent.save", invoice |-> breq[r].invoice] \in BRequest
    BY <2>1 DEF BRequest
  <2> QED
    BY <1>2, <2>2, NextRequest DEF CreateIntentCall, BTypeOK
<1>3. CASE CreateIntentSave(r)
  BY <1>3, NextRequest DEF CreateIntentSave, Finish, BRequest, BTypeOK
<1> QED
  BY <1>1, <1>2, <1>3 DEF IntentStep

LEMMA RefundTypes ==
  ASSUME BTypeOK, LedgerInv, NEW r \in Handlers, RefundStep(r)
  PROVE  breq' \in [Handlers -> BRequest]
<1>1. ASSUME NEW i \in InvoiceIds, NEW a \in Amounts, NEW u \in Users, RequestRefundRead(r, i, a, u)
      PROVE  breq' \in [Handlers -> BRequest]
  <2>1. [at |-> "refund.pending", invoice |-> i, amount |-> a, by |-> u] \in BRequest
    BY DEF BRequest
  <2> QED
    BY <1>1, <2>1, NextRequest DEF RequestRefundRead, BTypeOK
<1>2. CASE RequestRefundPending(r)
  <2>1. breq[r].invoice \in InvoiceIds /\ breq[r].amount \in Amounts /\ breq[r].by \in Users
    BY <1>2 DEF RequestRefundPending, LedgerInv, HandlersHold, Holds
  <2>2. [at |-> "refund.insert", invoice |-> breq[r].invoice, amount |-> breq[r].amount,
         by |-> breq[r].by] \in BRequest
    BY <2>1 DEF BRequest
  <2> QED
    BY <1>2, <2>2, NextRequest DEF RequestRefundPending, BTypeOK
<1>3. ASSUME NEW f \in RefundIds, NEW u \in Users, ApproveRefundRead(r, f, u)
      PROVE  breq' \in [Handlers -> BRequest]
  <2>1. ReversalOf(f) \in {"REFUNDED", "PARTIALLY_REFUNDED"}
    BY DEF ReversalOf
  <2>2. [at |-> "approve.tx", refund |-> f, by |-> u, newStatus |-> ReversalOf(f)] \in BRequest
    BY <2>1 DEF BRequest
  <2> QED
    BY <1>3, <2>2, NextRequest DEF ApproveRefundRead, BTypeOK
<1>4. ASSUME NEW f \in RefundIds, NEW u \in Users, RejectRefundRead(r, f, u)
      PROVE  breq' \in [Handlers -> BRequest]
  <2>1. [at |-> "reject.write", refund |-> f, by |-> u] \in BRequest
    BY DEF BRequest
  <2> QED
    BY <1>4, <2>1, NextRequest DEF RejectRefundRead, BTypeOK
<1>5. CASE RequestRefundInsert(r) \/ ApproveRefundCommit(r) \/ RejectRefundWrite(r)
  BY <1>5, NextRequest
     DEF RequestRefundInsert, ApproveRefundCommit, RejectRefundWrite, Finish, BRequest, BTypeOK
<1> QED
  BY <1>1, <1>2, <1>3, <1>4, <1>5 DEF RefundStep

LEMMA BTypeStep ==
  BTypeOK /\ HouseInv /\ HouseInv' /\ ChargesInv /\ ChargesInv' /\ [BillingNext]_bvars => BTypeOK'
<1> SUFFICES ASSUME BTypeOK, HouseInv, HouseInv', ChargesInv, ChargesInv', [BillingNext]_bvars
             PROVE  BTypeOK'
  OBVIOUS
<1>1. TypeOK' /\ (invoices \in [InvoiceIds -> InvoiceRow])' /\ (refunds \in [RefundIds -> RefundRow])'
  BY DEF HouseInv, IInv, LedgerInv
<1>2. (intents \in [InvoiceIds -> {"none", "open", "paid"}])' /\ undelivered' \subseteq InvoiceIds
  BY DEF ChargesInv, IntentsAreOfInvoices
<1>3. breq' \in [Handlers -> BRequest] /\ stock' \in [Ingredients -> Int]
  <2>1. CASE UNCHANGED bvars \/ (Next /\ UNCHANGED <<books, stripe, breq>>)
    BY <2>1 DEF bvars, books, BTypeOK
  <2>2. ASSUME NEW i \in InvoiceIds, GuestPays(i)
        PROVE  breq' \in [Handlers -> BRequest] /\ stock' \in [Ingredients -> Int]
    BY <2>2 DEF GuestPays, books, BTypeOK
  <2>3. ASSUME NEW r \in Handlers, AbandonBilling(r)
        PROVE  breq' \in [Handlers -> BRequest] /\ stock' \in [Ingredients -> Int]
    BY <2>3, NextRequest DEF AbandonBilling, Finish, BRequest, books, BTypeOK
  <2>4. ASSUME NEW r \in Handlers, InvoiceStep(r) \/ IntentStep(r) \/ RefundStep(r)
        PROVE  stock' = stock
    BY <2>4 DEF InvoiceStep, IntentStep, RefundStep, CreateInvoiceRead, GenerateInvoiceNumber,
       CreateInvoiceInsert, CreateIntentRead, CreateIntentCall, CreateIntentSave,
       RequestRefundRead, RequestRefundPending, RequestRefundInsert, ApproveRefundRead,
       RejectRefundRead, ApproveRefundCommit, RejectRefundWrite, books
  <2>5. ASSUME NEW r \in Handlers, InvoiceStep(r) \/ IntentStep(r) \/ RefundStep(r)
        PROVE  breq' \in [Handlers -> BRequest]
    BY <2>5, InvoiceTypes, IntentTypes, RefundTypes DEF HouseInv
  <2> QED
    BY <2>1, <2>2, <2>3, <2>4, <2>5, SettleTypes DEF BillingNext, BTypeOK
<1> QED
  BY <1>1, <1>2, <1>3 DEF BTypeOK

\* Orders, books, stock, intents and every handler keep their types.
THEOREM BillingTypes == BillingSpec => []BTypeOK
<1> QED
  BY BTypeStart, BTypeStep, HouseInvariance, ChargesInvariance, PTL DEF BillingSpec
=============================================================================
