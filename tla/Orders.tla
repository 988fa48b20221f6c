------------------------------- MODULE Orders -------------------------------
(***************************************************************************)
(* OrdersService.  A request is a handler of the API process: a read of    *)
(* the database, the tests on what it read, then a transaction, then the   *)
(* audit row.  The database is PostgreSQL at READ COMMITTED, so what a     *)
(* request read may be stale when its transaction commits.  Between two    *)
(* steps of one request any other request, and any manager, may act, and   *)
(* the request may be lost (process death, aborted transaction, deadlock   *)
(* victim).  `Requests` are the handlers that can be in flight at once.    *)
(***************************************************************************)
EXTENDS OrderStatus

CONSTANTS
  OrderIds,     \* primary keys an order may get
  TableIds,     \* restaurant tables
  MenuItems,    \* rows of the menu
  Users,        \* staff
  Batches,      \* identities of a set of OrderItem rows written by one statement
  Requests,     \* slots for requests in flight
  Role,         \* the role of each user
  TableEdits,   \* statuses a manager may write on a table by hand
  Nobody        \* the null of tableId and createdById

ASSUME RoleAssumption == Role \in [Users -> Roles]
ASSUME NobodyAssumption == Nobody \notin Users /\ Nobody \notin TableIds
ASSUME TableEditsAssumption == TableEdits \subseteq TableStatuses

VARIABLES
  orders,       \* order rows; items is a set of <<batch, menu item>> rows
  tables,       \* RestaurantTable.status
  available,    \* the menu items whose isAvailable is true
  history,      \* OrderStatusHistory rows
  audit,        \* AuditLog rows of this service
  req           \* what each request in flight has read, and its next step

vars == <<orders, tables, available, history, audit, req>>

-----------------------------------------------------------------------------
\* Rows and requests

Move == [order : OrderIds, from : Statuses, to : Statuses, by : Users]

AuditRow == [action : {"ORDER_CREATED", "ORDER_ITEMS_UPDATED", "ORDER_STATUS_UPDATED"},
             row : Move]

OrderRow == [status      : Statuses \cup {"NONE"},
             tableId     : TableIds \cup {Nobody},
             createdById : Users \cup {Nobody},
             items       : SUBSET (Batches \X MenuItems)]

NoOrder == [status |-> "NONE", tableId |-> Nobody, createdById |-> Nobody, items |-> {}]

Idle == [at |-> "idle"]

Request ==
  {Idle}
  \cup [at : {"create.verify", "create.tx"}, table : TableIds,
        by : Users, items : SUBSET MenuItems]
  \cup [at : {"items.verify", "items.tx"}, order : OrderIds,
        by : Users, items : SUBSET MenuItems]
  \cup [at : {"items.insert"}, order : OrderIds, by : Users,
        items : SUBSET MenuItems, deleted : SUBSET (Batches \X MenuItems)]
  \cup [at : {"status.tx"}, move : Move]
  \cup [at : {"audit"}, entry : AuditRow]

HistoryRow(o, from, to, u) == [order |-> o, from |-> from, to |-> to, by |-> u]

Exists(o) == orders[o].status # "NONE"

\* A batch id no row has and no open transaction remembers.
FreshBatch(b) ==
  /\ \A o \in OrderIds : \A i \in MenuItems : <<b, i>> \notin orders[o].items
  /\ \A r \in Requests : req[r].at = "items.insert" =>
        \A i \in MenuItems : <<b, i>> \notin req[r].deleted

Init ==
  /\ orders = [o \in OrderIds |-> NoOrder]
  /\ tables = [t \in TableIds |-> "AVAILABLE"]
  /\ available = MenuItems
  /\ history = {}
  /\ audit = {}
  /\ req = [r \in Requests |-> Idle]

-----------------------------------------------------------------------------
\* create: read the table, verify the items, one transaction

CreateRead(r, t, u, L) ==
  /\ req[r] = Idle
  /\ Role[u] = "WAITER"
  /\ tables[t] \in {"AVAILABLE", "OCCUPIED"}
  /\ req' = [req EXCEPT ![r] = [at |-> "create.verify", table |-> t, by |-> u, items |-> L]]
  /\ UNCHANGED <<orders, tables, available, history, audit>>

CreateVerify(r) ==
  /\ req[r].at = "create.verify"
  /\ req[r].items \subseteq available
  /\ req' = [req EXCEPT ![r].at = "create.tx"]
  /\ UNCHANGED <<orders, tables, available, history, audit>>

CreateCommit(r) ==
  /\ req[r].at = "create.tx"
  /\ \E o \in OrderIds, b \in Batches :
       LET row == HistoryRow(o, "OPEN", "OPEN", req[r].by) IN
       /\ ~ Exists(o)
       /\ FreshBatch(b)
       /\ tables' = [tables EXCEPT ![req[r].table] = "OCCUPIED"]
       /\ orders' = [orders EXCEPT ![o] =
            [status |-> "OPEN", tableId |-> req[r].table,
             createdById |-> req[r].by, items |-> {b} \X req[r].items]]
       /\ history' = history \cup {row}
       /\ req' = [req EXCEPT ![r] =
            [at |-> "audit", entry |-> [action |-> "ORDER_CREATED", row |-> row]]]
  /\ UNCHANGED <<available, audit>>

-----------------------------------------------------------------------------
\* updateItems: read the order, verify the items, then a transaction of two
\* statements.  At READ COMMITTED the DELETE removes the rows its snapshot
\* holds, not rows a concurrent transaction has inserted since.

\* assertCanAccessOrder for the roles the route admits
CanAccessOrder(u, o) ==
  \/ Role[u] = "MANAGER"
  \/ Role[u] = "WAITER" /\ orders[o].createdById = u

UpdateItemsRead(r, o, u, L) ==
  /\ req[r] = Idle
  /\ CanAccessOrder(u, o)
  /\ orders[o].status = "OPEN"
  /\ req' = [req EXCEPT ![r] = [at |-> "items.verify", order |-> o, by |-> u, items |-> L]]
  /\ UNCHANGED <<orders, tables, available, history, audit>>

UpdateItemsVerify(r) ==
  /\ req[r].at = "items.verify"
  /\ req[r].items \subseteq available
  /\ req' = [req EXCEPT ![r].at = "items.tx"]
  /\ UNCHANGED <<orders, tables, available, history, audit>>

\* Mutant: the deletion is not part of the transaction.
UpdateItemsDeleteAtOnce(r) ==
  /\ req[r].at = "items.tx"
  /\ orders' = [orders EXCEPT ![req[r].order].items = {}]
  /\ req' = [req EXCEPT ![r] =
       [at |-> "items.insert", order |-> req[r].order, by |-> req[r].by,
        items |-> req[r].items, deleted |-> {}]]
  /\ UNCHANGED <<tables, available, history, audit>>

\* DELETE: its snapshot is taken; the effect becomes visible at the commit
UpdateItemsDelete(r) ==
  /\ req[r].at = "items.tx"
  /\ req' = [req EXCEPT ![r] =
       [at |-> "items.insert", order |-> req[r].order, by |-> req[r].by,
        items |-> req[r].items, deleted |-> orders[req[r].order].items]]
  /\ UNCHANGED <<orders, tables, available, history, audit>>

UpdateItemsCommit(r) ==
  /\ req[r].at = "items.insert"
  /\ \E b \in Batches :
       /\ FreshBatch(b)
       /\ orders' = [orders EXCEPT ![req[r].order].items =
                       (@ \ req[r].deleted) \cup ({b} \X req[r].items)]
  /\ req' = [req EXCEPT ![r] =
       [at |-> "audit",
        entry |-> [action |-> "ORDER_ITEMS_UPDATED",
                   row |-> HistoryRow(req[r].order, "OPEN", "OPEN", req[r].by)]]]
  /\ UNCHANGED <<tables, available, history, audit>>

-----------------------------------------------------------------------------
\* updateStatus, and cancel, which is updateStatus to CANCELLED

\* Mutant: the role and ownership tests are missing.
UpdateStatusReadAnyRole(r, o, to, u) ==
  /\ req[r] = Idle
  /\ <<orders[o].status, to>> \in ALLOWED_TRANSITIONS
  /\ req' = [req EXCEPT ![r] =
       [at |-> "status.tx", move |-> HistoryRow(o, orders[o].status, to, u)]]
  /\ UNCHANGED <<orders, tables, available, history, audit>>

\* Mutant: the role is tested against the target alone, not the transition.
UpdateStatusReadAnyJump(r, o, to, u) ==
  /\ req[r] = Idle
  /\ Exists(o)
  /\ \E from \in Statuses : MayMove(from, to, u, Role[u], orders[o].createdById)
  /\ req' = [req EXCEPT ![r] =
       [at |-> "status.tx", move |-> HistoryRow(o, orders[o].status, to, u)]]
  /\ UNCHANGED <<orders, tables, available, history, audit>>

\* Mutant: the audit row is written before the transaction.
UpdateStatusReadAudits(r, o, to, u) ==
  /\ req[r] = Idle
  /\ MayMove(orders[o].status, to, u, Role[u], orders[o].createdById)
  /\ LET m == HistoryRow(o, orders[o].status, to, u) IN
     /\ req' = [req EXCEPT ![r] = [at |-> "status.tx", move |-> m]]
     /\ audit' = audit \cup {[action |-> "ORDER_STATUS_UPDATED", row |-> m]}
  /\ UNCHANGED <<orders, tables, available, history>>

UpdateStatusRead(r, o, to, u) ==
  /\ req[r] = Idle
  /\ MayMove(orders[o].status, to, u, Role[u], orders[o].createdById)
  /\ req' = [req EXCEPT ![r] =
       [at |-> "status.tx", move |-> HistoryRow(o, orders[o].status, to, u)]]
  /\ UNCHANGED <<orders, tables, available, history, audit>>

\* Mutant: the history row is missing.
UpdateStatusCommitNoRow(r) ==
  /\ req[r].at = "status.tx"
  /\ LET m == req[r].move IN
     /\ tables' = IF m.to = "CANCELLED"
                  THEN [tables EXCEPT ![orders[m.order].tableId] = "AVAILABLE"]
                  ELSE tables
     /\ orders' = [orders EXCEPT ![m.order].status = m.to]
     /\ req' = [req EXCEPT ![r] =
          [at |-> "audit", entry |-> [action |-> "ORDER_STATUS_UPDATED", row |-> m]]]
  /\ UNCHANGED <<available, history, audit>>

\* Mutant: the order's new status is written to the table as well.
UpdateStatusCommitTable(r) ==
  /\ req[r].at = "status.tx"
  /\ LET m == req[r].move IN
     /\ history' = history \cup {m}
     /\ tables' = [tables EXCEPT ![orders[m.order].tableId] = m.to]
     /\ orders' = [orders EXCEPT ![m.order].status = m.to]
     /\ req' = [req EXCEPT ![r] =
          [at |-> "audit", entry |-> [action |-> "ORDER_STATUS_UPDATED", row |-> m]]]
  /\ UNCHANGED <<available, audit>>

UpdateStatusCommit(r) ==
  /\ req[r].at = "status.tx"
  /\ LET m == req[r].move IN
     /\ history' = history \cup {m}
     /\ tables' = IF m.to = "CANCELLED"
                  THEN [tables EXCEPT ![orders[m.order].tableId] = "AVAILABLE"]
                  ELSE tables
     /\ orders' = [orders EXCEPT ![m.order].status = m.to]
     /\ req' = [req EXCEPT ![r] =
          [at |-> "audit", entry |-> [action |-> "ORDER_STATUS_UPDATED", row |-> m]]]
  /\ UNCHANGED <<available, audit>>

-----------------------------------------------------------------------------
\* The last step of every handler, the loss of a handler, and the two
\* neighbours whose writes these handlers read.

WriteAudit(r) ==
  /\ req[r].at = "audit"
  /\ audit' = audit \cup {req[r].entry}
  /\ req' = [req EXCEPT ![r] = Idle]
  /\ UNCHANGED <<orders, tables, available, history>>

\* A later test fails, the transaction aborts, the audit write fails, or
\* the process dies: the request ends and leaves what it committed.
Abandon(r) ==
  /\ req[r] # Idle
  /\ req' = [req EXCEPT ![r] = Idle]
  /\ UNCHANGED <<orders, tables, available, history, audit>>

\* MenuService flips isAvailable.  Its own read-negate-write can only flip
\* the flag or leave it.
ToggleAvailability(i) ==
  /\ available' = IF i \in available THEN available \ {i} ELSE available \cup {i}
  /\ UNCHANGED <<orders, tables, history, audit, req>>

\* TablesService.update writes the status the manager asked for.
SetTableStatus(t, s) ==
  /\ tables' = [tables EXCEPT ![t] = s]
  /\ UNCHANGED <<orders, available, history, audit, req>>

-----------------------------------------------------------------------------
OrderSets == (SUBSET MenuItems) \ {{}}    \* ArrayMinSize(1)

Step(r) ==
  \/ \E t \in TableIds, u \in Users, L \in OrderSets : CreateRead(r, t, u, L)
  \/ CreateVerify(r)
  \/ CreateCommit(r)
  \/ \E o \in OrderIds, u \in Users, L \in OrderSets : UpdateItemsRead(r, o, u, L)
  \/ UpdateItemsVerify(r)
  \/ UpdateItemsDelete(r)
  \/ UpdateItemsCommit(r)
  \/ \E o \in OrderIds, u \in Users, to \in Statuses : UpdateStatusRead(r, o, to, u)
  \/ UpdateStatusCommit(r)
  \/ WriteAudit(r)
  \/ Abandon(r)

Next ==
  \/ \E r \in Requests : Step(r)
  \/ \E i \in MenuItems : ToggleAvailability(i)
  \/ \E t \in TableIds, s \in TableEdits : SetTableStatus(t, s)

Spec == Init /\ [][Next]_vars

-----------------------------------------------------------------------------
\* Properties

TypeOK ==
  /\ orders \in [OrderIds -> OrderRow]
  /\ tables \in [TableIds -> TableStatuses]
  /\ available \subseteq MenuItems
  /\ history \subseteq Move
  /\ audit \subseteq AuditRow
  /\ req \in [Requests -> Request]

Reached(o, s) == \E h \in history : h.order = o /\ h.to = s

\* A move that passed updateStatus: its tests held of a status the order
\* really had.
Earned(m) ==
  /\ Reached(m.order, m.from)
  /\ MayMove(m.from, m.to, m.by, Role[m.by], orders[m.order].createdById)

\* However requests interleave, every row of the status history other than
\* the placing row is a listed transition, by a role it is listed for, by the
\* order's own waiter if a waiter made it, out of a status that the history
\* shows the order to have entered.
HistoryIsEarned ==
  \A h \in history :
    \/ h.from = "OPEN" /\ h.to = "OPEN"
         /\ Role[h.by] = "WAITER" /\ h.by = orders[h.order].createdById
    \/ Earned(h)

\* The status of an order is one its history shows it to have entered (the
\* row and the history row commit together).  BILLED is left out: payment
\* writes it without a history row.
StatusIsRecorded ==
  \A o \in OrderIds : orders[o].status \notin {"NONE", "BILLED"} => Reached(o, orders[o].status)

\* Nothing reaches the guests or the bill that the kitchen did not finish:
\* behind READY and SERVED stand the waiter who sent the order, the cook who
\* took it up and the cook who finished it.
CookedBeforeServed ==
  \A o \in OrderIds : orders[o].status \in BILLABLE_ORDER_STATUSES =>
    /\ \E u \in Users : /\ HistoryRow(o, "OPEN", "SENT_TO_KITCHEN", u) \in history
                        /\ u = orders[o].createdById
    /\ \E k \in Users : /\ HistoryRow(o, "SENT_TO_KITCHEN", "PREPARING", k) \in history
                        /\ Role[k] = "KITCHEN"
    /\ \E k \in Users : /\ HistoryRow(o, "PREPARING", "READY", k) \in history
                        /\ Role[k] = "KITCHEN"

\* An order that exists has something on it at every moment, whatever edits
\* overlap: the deletion and the insertion of updateItems commit together.
OrderNeverEmpty == \A o \in OrderIds : Exists(o) => orders[o].items # {}

\* The audit log claims no placing and no status change that did not happen,
\* though it is written after the commit and may be lost.
AuditIsTrue ==
  \A a \in audit : a.action # "ORDER_ITEMS_UPDATED" => a.row \in history

\* Requests that still have to commit (or to be audited) hold only what was
\* once true: with the parts above, an inductive invariant.
RequestsAreEarned ==
  \A r \in Requests :
    /\ req[r].at = "status.tx" => Earned(req[r].move)
    /\ req[r].at = "audit" /\ req[r].entry.action # "ORDER_ITEMS_UPDATED"
         => req[r].entry.row \in history
    /\ req[r].at \in {"create.verify", "create.tx"} =>
         Role[req[r].by] = "WAITER" /\ req[r].items # {}
    /\ req[r].at \in {"items.verify", "items.tx", "items.insert"} =>
         Exists(req[r].order) /\ req[r].items # {}

\* Only orders that exist have a history, and each has the row that placed it.
HistoryOfOrders ==
  \A o \in OrderIds :
    IF Exists(o)
    THEN HistoryRow(o, "OPEN", "OPEN", orders[o].createdById) \in history
    ELSE \A h \in history : h.order # o

\* The inductive invariant of the component (OrdersProofs).
IInv ==
  /\ TypeOK
  /\ HistoryOfOrders
  /\ HistoryIsEarned
  /\ StatusIsRecorded
  /\ RequestsAreEarned
  /\ OrderNeverEmpty
  /\ AuditIsTrue

\* The stages an order has entered, and by whom: the abstract state.
Entered == [o \in OrderIds |-> {<<h.to, h.by>> : h \in {g \in history : g.order = o}}]

Pipeline == INSTANCE KitchenPipeline WITH entered <- Entered

\* The handlers implement the pipeline: every commit enters a stage by way
\* of one entered before, or leaves the stages alone.
ImplementsPipeline == Pipeline!Spec

-----------------------------------------------------------------------------
\* What the source says and concurrent requests break (see the findings)

\* orders.service.ts: "Any (from, to) pair not listed here is rejected
\* outright, regardless of role."
OnlyListedTransitions ==
  [][\A o \in OrderIds :
       Exists(o) /\ orders'[o].status # orders[o].status
         => <<orders[o].status, orders'[o].status>> \in ALLOWED_TRANSITIONS]_vars

\* orders.service.ts: "the table intentionally stays OCCUPIED until the
\* invoice is paid"
TableHeldUntilPaid ==
  \A o \in OrderIds :
    orders[o].status = "SERVED" => tables[orders[o].tableId] = "OCCUPIED"
=============================================================================
