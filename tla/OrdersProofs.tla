---------------------------- MODULE OrdersProofs ----------------------------
(***************************************************************************)
(* Proofs about Orders, for every set of orders, tables, staff and any     *)
(* number of requests in flight.                                           *)
(***************************************************************************)
EXTENDS Orders, TLAPS

-----------------------------------------------------------------------------
\* Types

\* Every step keeps the rows and the requests well typed.
LEMMA TypeStep == TypeOK /\ [Next]_vars => TypeOK'
<1> SUFFICES ASSUME TypeOK, [Next]_vars PROVE TypeOK'
  OBVIOUS
<1> USE DEF TypeOK, Idle
<1>1. CASE UNCHANGED vars
  BY <1>1 DEF vars
<1>2. ASSUME NEW i \in MenuItems, ToggleAvailability(i) PROVE TypeOK'
  BY <1>2 DEF ToggleAvailability
<1>3. ASSUME NEW t \in TableIds, NEW s \in TableEdits, SetTableStatus(t, s) PROVE TypeOK'
  BY <1>3, TableEditsAssumption DEF SetTableStatus
<1>4. ASSUME NEW r \in Requests, Step(r) PROVE TypeOK'
  <2>1. ASSUME NEW t \in TableIds, NEW u \in Users, NEW L \in OrderSets, CreateRead(r, t, u, L)
        PROVE TypeOK'
    BY <2>1 DEF CreateRead, OrderSets, Request
  <2>2. CASE CreateVerify(r)
    BY <2>2 DEF CreateVerify, Request
  <2>3. CASE CreateCommit(r)
    <3>1. PICK o \in OrderIds, b \in Batches :
            LET row == HistoryRow(o, "OPEN", "OPEN", req[r].by) IN
            /\ tables' = [tables EXCEPT ![req[r].table] = "OCCUPIED"]
            /\ orders' = [orders EXCEPT ![o] =
                 [status |-> "OPEN", tableId |-> req[r].table,
                  createdById |-> req[r].by, items |-> {b} \X req[r].items]]
            /\ history' = history \cup {row}
            /\ req' = [req EXCEPT ![r] =
                 [at |-> "audit", entry |-> [action |-> "ORDER_CREATED", row |-> row]]]
      BY <2>3 DEF CreateCommit
    <3>2. /\ req[r].table \in TableIds
          /\ req[r].by \in Users
          /\ req[r].items \in SUBSET MenuItems
      BY <2>3 DEF CreateCommit, Request
    <3>3. HistoryRow(o, "OPEN", "OPEN", req[r].by) \in Move
      BY <3>2 DEF HistoryRow, Move, Statuses
    <3>4. orders' \in [OrderIds -> OrderRow]
      BY <3>1, <3>2 DEF OrderRow, Statuses
    <3>5. req' \in [Requests -> Request]
      BY <3>1, <3>3 DEF Request, AuditRow
    <3> QED
      BY <2>3, <3>1, <3>2, <3>3, <3>4, <3>5 DEF CreateCommit, TableStatuses
  <2>4. ASSUME NEW o \in OrderIds, NEW u \in Users, NEW L \in OrderSets,
               UpdateItemsRead(r, o, u, L)
        PROVE TypeOK'
    BY <2>4 DEF UpdateItemsRead, OrderSets, Request
  <2>5. CASE UpdateItemsVerify(r)
    BY <2>5 DEF UpdateItemsVerify, Request
  <2>6. CASE UpdateItemsDelete(r)
    BY <2>6 DEF UpdateItemsDelete, Request, OrderRow
  <2>7. CASE UpdateItemsCommit(r)
    <3>1. /\ req[r].order \in OrderIds
          /\ req[r].by \in Users
          /\ req[r].items \in SUBSET MenuItems
      BY <2>7 DEF UpdateItemsCommit, Request
    <3>2. HistoryRow(req[r].order, "OPEN", "OPEN", req[r].by) \in Move
      BY <3>1 DEF HistoryRow, Move, Statuses
    <3>3. orders' \in [OrderIds -> OrderRow]
      <4>1. PICK b \in Batches :
              orders' = [orders EXCEPT ![req[r].order].items =
                           (@ \ req[r].deleted) \cup ({b} \X req[r].items)]
        BY <2>7 DEF UpdateItemsCommit
      <4> DEFINE new == (orders[req[r].order].items \ req[r].deleted)
                          \cup ({b} \X req[r].items)
      <4>2. orders[req[r].order] \in OrderRow
        BY <3>1
      <4>3. new \in SUBSET (Batches \X MenuItems)
        BY <3>1, <4>2 DEF OrderRow
      <4>4. [orders[req[r].order] EXCEPT !.items = new] \in OrderRow
        BY <4>2, <4>3 DEF OrderRow
      <4> QED
        BY <3>1, <4>1, <4>4
    <3>4. req' \in [Requests -> Request]
      BY <2>7, <3>2 DEF UpdateItemsCommit, Request, AuditRow
    <3> QED
      BY <2>7, <3>3, <3>4 DEF UpdateItemsCommit
  <2>8. ASSUME NEW o \in OrderIds, NEW u \in Users, NEW to \in Statuses,
               UpdateStatusRead(r, o, to, u)
        PROVE TypeOK'
    <3>1. HistoryRow(o, orders[o].status, to, u) \in Move
      BY <2>8 DEF UpdateStatusRead, MayMove, ALLOWED_TRANSITIONS, HistoryRow, Move, Statuses
    <3> QED
      BY <2>8, <3>1 DEF UpdateStatusRead, Request
  <2>9. CASE UpdateStatusCommit(r)
    <3>1. req[r].move \in Move
      BY <2>9 DEF UpdateStatusCommit, Request
    <3>2. orders' \in [OrderIds -> OrderRow]
      BY <2>9, <3>1 DEF UpdateStatusCommit, OrderRow, Move
    <3>3. req' \in [Requests -> Request]
      BY <2>9, <3>1 DEF UpdateStatusCommit, Request, AuditRow
    <3>4. tables' \in [TableIds -> TableStatuses]
      BY <2>9 DEF UpdateStatusCommit, TableStatuses
    <3> QED
      BY <2>9, <3>1, <3>2, <3>3, <3>4 DEF UpdateStatusCommit
  <2>10. CASE WriteAudit(r)
    BY <2>10 DEF WriteAudit, Request
  <2>11. CASE Abandon(r)
    BY <2>11 DEF Abandon, Request
  <2> QED
    BY <1>4, <2>1, <2>2, <2>3, <2>4, <2>5, <2>6, <2>7, <2>8, <2>9, <2>10, <2>11 DEF Step
<1> QED
  BY <1>1, <1>2, <1>3, <1>4 DEF Next

LEMMA TypeInit == Init => TypeOK
  BY DEF Init, TypeOK, NoOrder, OrderRow, TableStatuses, Request, Idle

\* The rows of the database and the requests in flight keep their types.
THEOREM TypeCorrect == Spec => []TypeOK
  BY TypeInit, TypeStep, PTL DEF Spec

-----------------------------------------------------------------------------
\* What a request has earned stays earned

\* A step that keeps the history and the creators keeps what was earned.
LEMMA EarnedStable ==
  ASSUME IInv, history \subseteq history',
         \A o \in OrderIds : Exists(o) => orders'[o].createdById = orders[o].createdById,
         NEW m \in Move, Earned(m)
  PROVE  Earned(m)'
<1>1. Exists(m.order)
  BY DEF IInv, HistoryOfOrders, Earned, Reached, Move
<1>2. m.order \in OrderIds
  BY DEF Move
<1> QED
  BY <1>1, <1>2 DEF Earned, Reached

\* A request's step that writes no row keeps the invariant if what it now
\* remembers is earned.
LEMMA LocalStep ==
  ASSUME IInv, TypeOK', NEW r \in Requests, NEW v, req' = [req EXCEPT ![r] = v],
         UNCHANGED <<orders, history, audit>>,
         /\ v.at = "status.tx" => Earned(v.move)
         /\ v.at = "audit" /\ v.entry.action # "ORDER_ITEMS_UPDATED"
              => v.entry.row \in history
         /\ v.at \in {"create.verify", "create.tx"} =>
              Role[v.by] = "WAITER" /\ v.items # {}
         /\ v.at \in {"items.verify", "items.tx", "items.insert"} =>
              Exists(v.order) /\ v.items # {}
  PROVE  IInv'
<1>1. RequestsAreEarned'
  BY DEF IInv, TypeOK, RequestsAreEarned, Earned, Reached, Exists
<1> QED
  BY <1>1 DEF IInv, HistoryOfOrders, HistoryIsEarned, StatusIsRecorded, OrderNeverEmpty,
              AuditIsTrue, Earned, Reached, Exists

\* A committing step leaves every request earned, itself included.
LEMMA RequestsStay ==
  ASSUME IInv, TypeOK', NEW r \in Requests, NEW v, req' = [req EXCEPT ![r] = v],
         history \subseteq history',
         \A o \in OrderIds : Exists(o) =>
           Exists(o)' /\ orders'[o].createdById = orders[o].createdById,
         v.at \in {"idle", "audit"},
         v.at = "audit" /\ v.entry.action # "ORDER_ITEMS_UPDATED" => v.entry.row \in history'
  PROVE  RequestsAreEarned'
<1> SUFFICES ASSUME NEW q \in Requests
             PROVE  /\ req'[q].at = "status.tx" => Earned(req[q].move)'
                    /\ req'[q].at = "audit" /\ req'[q].entry.action # "ORDER_ITEMS_UPDATED"
                         => req'[q].entry.row \in history'
                    /\ req'[q].at \in {"create.verify", "create.tx"} =>
                         Role[req'[q].by] = "WAITER" /\ req'[q].items # {}
                    /\ req'[q].at \in {"items.verify", "items.tx", "items.insert"} =>
                         Exists(req[q].order)' /\ req'[q].items # {}
  BY DEF RequestsAreEarned
<1>1. CASE q = r
  BY <1>1 DEF IInv, TypeOK
<1>2. CASE q # r
  <2>1. req'[q] = req[q] /\ req[q] \in Request
    BY <1>2 DEF IInv, TypeOK
  <2>2. req[q].at = "status.tx" => req[q].move \in Move /\ Earned(req[q].move)
    BY <2>1 DEF IInv, RequestsAreEarned, Request, Idle
  <2>3. req[q].at = "status.tx" => Earned(req[q].move)'
    BY <2>1, <2>2, EarnedStable DEF Earned, Reached
  <2>4. req[q].at \in {"items.verify", "items.tx", "items.insert"} =>
          Exists(req[q].order)' /\ req[q].items # {}
    BY <2>1 DEF IInv, RequestsAreEarned, Request, Idle, Exists
  <2> QED
    BY <2>1, <2>3, <2>4 DEF IInv, RequestsAreEarned
<1> QED
  BY <1>1, <1>2

\* A row of the history that was earned is earned after the step.
LEMMA HistoryStays ==
  ASSUME IInv, history \subseteq history',
         \A o \in OrderIds : Exists(o) => orders'[o].createdById = orders[o].createdById,
         NEW h \in history
  PROVE  \/ h.from = "OPEN" /\ h.to = "OPEN"
              /\ Role[h.by] = "WAITER" /\ h.by = orders'[h.order].createdById
         \/ Earned(h)'
<1>1. h \in Move /\ h.order \in OrderIds
  BY DEF IInv, TypeOK, Move
<1>2. Exists(h.order)
  BY <1>1 DEF IInv, HistoryOfOrders
<1>3. CASE Earned(h)
  BY <1>1, <1>3, EarnedStable
<1>4. CASE ~ Earned(h)
  BY <1>1, <1>2, <1>4 DEF IInv, HistoryIsEarned
<1> QED
  BY <1>3, <1>4

-----------------------------------------------------------------------------
\* The steps that write

LEMMA CreateCommitStep ==
  ASSUME IInv, TypeOK', NEW r \in Requests, CreateCommit(r)
  PROVE  IInv'
<1>1. PICK o \in OrderIds, b \in Batches :
        LET row == HistoryRow(o, "OPEN", "OPEN", req[r].by) IN
        /\ ~ Exists(o)
        /\ orders' = [orders EXCEPT ![o] =
             [status |-> "OPEN", tableId |-> req[r].table,
              createdById |-> req[r].by, items |-> {b} \X req[r].items]]
        /\ history' = history \cup {row}
        /\ req' = [req EXCEPT ![r] =
             [at |-> "audit", entry |-> [action |-> "ORDER_CREATED", row |-> row]]]
  BY DEF CreateCommit
<1> DEFINE row == HistoryRow(o, "OPEN", "OPEN", req[r].by)
<1>2. req[r] \in Request /\ req[r].at = "create.tx"
  BY DEF CreateCommit, IInv, TypeOK
<1>3. Role[req[r].by] = "WAITER" /\ req[r].items # {}
  BY <1>2 DEF IInv, RequestsAreEarned
<1>4. /\ orders'[o].status = "OPEN" /\ orders'[o].createdById = req[r].by
      /\ orders'[o].items = {b} \X req[r].items
      /\ \A p \in OrderIds : p # o => orders'[p] = orders[p]
  BY <1>1 DEF IInv, TypeOK
<1>5. \A p \in OrderIds : Exists(p) => p # o /\ orders'[p] = orders[p] /\ Exists(p)'
  BY <1>1, <1>4 DEF Exists
<1>6. row.order = o /\ row.from = "OPEN" /\ row.to = "OPEN" /\ row.by = req[r].by
  BY DEF HistoryRow
<1>7. HistoryOfOrders'
  BY <1>1, <1>4, <1>6 DEF IInv, HistoryOfOrders, Exists, HistoryRow
<1>8. HistoryIsEarned'
  <2> SUFFICES ASSUME NEW h \in history'
               PROVE  \/ h.from = "OPEN" /\ h.to = "OPEN" /\ Role[h.by] = "WAITER"
                           /\ h.by = orders'[h.order].createdById
                      \/ Earned(h)'
    BY DEF HistoryIsEarned
  <2>1. CASE h = row
    BY <2>1, <1>3, <1>4, <1>6
  <2>2. CASE h \in history
    BY <2>2, <1>1, <1>5, HistoryStays
  <2> QED
    BY <1>1, <2>1, <2>2
<1>9. StatusIsRecorded'
  BY <1>1, <1>4, <1>6 DEF IInv, StatusIsRecorded, Reached
<1>10. RequestsAreEarned'
  <2> DEFINE v == [at |-> "audit", entry |-> [action |-> "ORDER_CREATED", row |-> row]]
  <2>1. req' = [req EXCEPT ![r] = v] /\ v.at = "audit" /\ v.entry.row \in history'
    BY <1>1
  <2>2. history \subseteq history'
    BY <1>1
  <2>3. \A p \in OrderIds : Exists(p) => Exists(p)' /\ orders'[p].createdById = orders[p].createdById
    BY <1>5
  <2> HIDE DEF v
  <2> QED
    BY <2>1, <2>2, <2>3, RequestsStay
<1>11. OrderNeverEmpty'
  <2>1. PICK i : i \in req[r].items
    BY <1>3
  <2>2. <<b, i>> \in orders'[o].items
    BY <1>4, <2>1
  <2> QED
    BY <1>4, <2>2 DEF IInv, OrderNeverEmpty, Exists
<1>12. AuditIsTrue'
  BY <1>1 DEF CreateCommit, IInv, AuditIsTrue
<1> QED
  BY <1>7, <1>8, <1>9, <1>10, <1>11, <1>12 DEF IInv

LEMMA UpdateItemsCommitStep ==
  ASSUME IInv, TypeOK', NEW r \in Requests, UpdateItemsCommit(r)
  PROVE  IInv'
<1>1. PICK b \in Batches :
        orders' = [orders EXCEPT ![req[r].order].items =
                     (@ \ req[r].deleted) \cup ({b} \X req[r].items)]
  BY DEF UpdateItemsCommit
<1>2. /\ req[r] \in Request /\ req[r].at = "items.insert"
      /\ req[r].order \in OrderIds /\ req[r].items # {}
  BY DEF UpdateItemsCommit, IInv, TypeOK, Request, Idle, RequestsAreEarned
<1>3. /\ history' = history /\ audit' = audit
      /\ \A o \in OrderIds : /\ orders'[o].status = orders[o].status
                            /\ orders'[o].createdById = orders[o].createdById
                            /\ Exists(o)' = Exists(o)
  BY <1>1, <1>2 DEF UpdateItemsCommit, IInv, TypeOK, OrderRow, Exists
<1>4. HistoryOfOrders' /\ StatusIsRecorded' /\ AuditIsTrue'
  BY <1>3 DEF IInv, HistoryOfOrders, StatusIsRecorded, AuditIsTrue, Reached
<1>5. HistoryIsEarned'
  BY <1>3, HistoryStays DEF HistoryIsEarned
<1>6. RequestsAreEarned'
  <2> DEFINE v == [at |-> "audit",
                   entry |-> [action |-> "ORDER_ITEMS_UPDATED",
                              row |-> HistoryRow(req[r].order, "OPEN", "OPEN", req[r].by)]]
  <2>1. /\ req' = [req EXCEPT ![r] = v]
        /\ v.at = "audit" /\ v.entry.action = "ORDER_ITEMS_UPDATED"
    BY DEF UpdateItemsCommit
  <2> HIDE DEF v
  <2> QED
    BY <1>3, <2>1, RequestsStay
<1>7. OrderNeverEmpty'
  <2>1. PICK i : i \in req[r].items
    BY <1>2
  <2>2. <<b, i>> \in orders'[req[r].order].items
    BY <1>1, <1>2, <2>1 DEF IInv, TypeOK, OrderRow
  <2>3. \A o \in OrderIds : o # req[r].order => orders'[o] = orders[o]
    BY <1>1 DEF IInv, TypeOK
  <2> QED
    BY <1>3, <2>2, <2>3 DEF IInv, OrderNeverEmpty, Exists
<1> QED
  BY <1>4, <1>5, <1>6, <1>7 DEF IInv

LEMMA UpdateStatusCommitStep ==
  ASSUME IInv, TypeOK', NEW r \in Requests, UpdateStatusCommit(r)
  PROVE  IInv'
<1>0. req[r].move \in Move /\ Earned(req[r].move)
  BY DEF UpdateStatusCommit, IInv, TypeOK, Request, Idle, RequestsAreEarned
<1> PICK m \in Move : m = req[r].move
  BY <1>0
<1>1. /\ m.order \in OrderIds /\ m.to \in Statuses /\ Earned(m)
  BY <1>0 DEF Move
<1>2. Exists(m.order)
  BY <1>1 DEF IInv, HistoryOfOrders, Earned, Reached
<1>3. /\ history' = history \cup {m} /\ audit' = audit
      /\ orders' = [orders EXCEPT ![m.order].status = m.to]
  BY DEF UpdateStatusCommit
<1>4. \A o \in OrderIds : /\ orders'[o].createdById = orders[o].createdById
                          /\ orders'[o].items = orders[o].items
                          /\ orders'[o].status = IF o = m.order THEN m.to ELSE orders[o].status
                          /\ Exists(o)' = Exists(o)
  BY <1>1, <1>2, <1>3 DEF IInv, TypeOK, OrderRow, Exists, Statuses
<1>5. HistoryOfOrders'
  BY <1>2, <1>3, <1>4 DEF IInv, HistoryOfOrders
<1>6. HistoryIsEarned'
  <2>1. Earned(m)'
    BY <1>1, <1>3, <1>4, EarnedStable
  <2>2. \A h \in history : \/ /\ h.from = "OPEN" /\ h.to = "OPEN"
                              /\ Role[h.by] = "WAITER"
                              /\ h.by = orders'[h.order].createdById
                           \/ Earned(h)'
    BY <1>3, <1>4, HistoryStays
  <2>3. \A h \in history' : h \in history \/ h = m
    BY <1>3
  <2> QED
    BY <2>1, <2>2, <2>3 DEF HistoryIsEarned, Earned, Reached
<1>7. StatusIsRecorded'
  BY <1>1, <1>3, <1>4 DEF IInv, StatusIsRecorded, Reached
<1>8. RequestsAreEarned'
  <2> DEFINE v == [at |-> "audit", entry |-> [action |-> "ORDER_STATUS_UPDATED", row |-> m]]
  <2>1. req' = [req EXCEPT ![r] = v] /\ v.at = "audit" /\ v.entry.row \in history'
    BY <1>3 DEF UpdateStatusCommit
  <2> HIDE DEF v
  <2> QED
    BY <1>3, <1>4, <2>1, RequestsStay
<1>9. OrderNeverEmpty' /\ AuditIsTrue'
  BY <1>3, <1>4 DEF IInv, OrderNeverEmpty, AuditIsTrue
<1> QED
  BY <1>5, <1>6, <1>7, <1>8, <1>9 DEF IInv

LEMMA WriteAuditStep ==
  ASSUME IInv, TypeOK', NEW r \in Requests, WriteAudit(r)
  PROVE  IInv'
<1>1. /\ req' = [req EXCEPT ![r] = Idle] /\ audit' = audit \cup {req[r].entry}
      /\ UNCHANGED <<orders, history>> /\ Idle.at = "idle"
  BY DEF WriteAudit, Idle
<1>2. RequestsAreEarned'
  BY <1>1, RequestsStay DEF Exists
<1>3. AuditIsTrue'
  BY <1>1 DEF WriteAudit, IInv, AuditIsTrue, RequestsAreEarned
<1> QED
  BY <1>1, <1>2, <1>3 DEF IInv, HistoryOfOrders, HistoryIsEarned, StatusIsRecorded,
                          OrderNeverEmpty, Earned, Reached, Exists

-----------------------------------------------------------------------------
\* The inductive invariant

LEMMA IInvInit == Init => IInv
  BY TypeInit DEF Init, IInv, HistoryOfOrders, HistoryIsEarned, StatusIsRecorded,
       RequestsAreEarned, OrderNeverEmpty, AuditIsTrue, NoOrder, Exists, Idle

LEMMA IInvStep == IInv /\ [Next]_vars => IInv'
<1> SUFFICES ASSUME IInv, [Next]_vars PROVE IInv'
  OBVIOUS
<1>1. TypeOK'
  BY TypeStep DEF IInv
<1>2. ASSUME UNCHANGED <<orders, history, audit, req>> PROVE IInv'
  BY <1>1, <1>2 DEF IInv, HistoryOfOrders, HistoryIsEarned, StatusIsRecorded,
       RequestsAreEarned, OrderNeverEmpty, AuditIsTrue, Earned, Reached, Exists
<1>3. ASSUME NEW r \in Requests, Step(r) PROVE IInv'
  <2>1. ASSUME NEW t \in TableIds, NEW u \in Users, NEW L \in OrderSets, CreateRead(r, t, u, L)
        PROVE IInv'
    <3> DEFINE v == [at |-> "create.verify", table |-> t, by |-> u, items |-> L]
    <3>1. v.at = "create.verify" /\ Role[v.by] = "WAITER" /\ v.items # {}
      BY <2>1 DEF CreateRead, OrderSets
    <3>2. req' = [req EXCEPT ![r] = v] /\ UNCHANGED <<orders, history, audit>>
      BY <2>1 DEF CreateRead
    <3> HIDE DEF v
    <3> QED
      BY <1>1, <3>1, <3>2, LocalStep
  <2>2. CASE CreateVerify(r)
    <3> DEFINE v == [req[r] EXCEPT !.at = "create.tx"]
    <3>1. v.at = "create.tx" /\ Role[v.by] = "WAITER" /\ v.items # {}
      BY <2>2 DEF CreateVerify, IInv, TypeOK, Request, Idle, RequestsAreEarned
    <3>2. req' = [req EXCEPT ![r] = v] /\ UNCHANGED <<orders, history, audit>>
      BY <2>2 DEF CreateVerify
    <3> HIDE DEF v
    <3> QED
      BY <1>1, <3>1, <3>2, LocalStep
  <2>3. CASE CreateCommit(r)
    BY <1>1, <2>3, CreateCommitStep
  <2>4. ASSUME NEW o \in OrderIds, NEW u \in Users, NEW L \in OrderSets,
               UpdateItemsRead(r, o, u, L)
        PROVE IInv'
    <3> DEFINE v == [at |-> "items.verify", order |-> o, by |-> u, items |-> L]
    <3>1. v.at = "items.verify" /\ Exists(v.order) /\ v.items # {}
      BY <2>4 DEF UpdateItemsRead, OrderSets, Exists
    <3>2. req' = [req EXCEPT ![r] = v] /\ UNCHANGED <<orders, history, audit>>
      BY <2>4 DEF UpdateItemsRead
    <3> HIDE DEF v
    <3> QED
      BY <1>1, <3>1, <3>2, LocalStep
  <2>5. CASE UpdateItemsVerify(r)
    <3> DEFINE v == [req[r] EXCEPT !.at = "items.tx"]
    <3>1. v.at = "items.tx" /\ Exists(v.order) /\ v.items # {}
      BY <2>5 DEF UpdateItemsVerify, IInv, TypeOK, Request, Idle, RequestsAreEarned
    <3>2. req' = [req EXCEPT ![r] = v] /\ UNCHANGED <<orders, history, audit>>
      BY <2>5 DEF UpdateItemsVerify
    <3> HIDE DEF v
    <3> QED
      BY <1>1, <3>1, <3>2, LocalStep
  <2>6. CASE UpdateItemsDelete(r)
    BY <1>1, <2>6, LocalStep DEF UpdateItemsDelete, IInv, RequestsAreEarned
  <2>7. CASE UpdateItemsCommit(r)
    BY <1>1, <2>7, UpdateItemsCommitStep
  <2>8. ASSUME NEW o \in OrderIds, NEW u \in Users, NEW to \in Statuses,
               UpdateStatusRead(r, o, to, u)
        PROVE IInv'
    <3> DEFINE v == [at |-> "status.tx", move |-> HistoryRow(o, orders[o].status, to, u)]
    <3>1. Reached(o, orders[o].status)
      BY <2>8 DEF UpdateStatusRead, MayMove, ALLOWED_TRANSITIONS, IInv, StatusIsRecorded
    <3>2. v.at = "status.tx" /\ Earned(v.move)
      BY <2>8, <3>1 DEF UpdateStatusRead, Earned, HistoryRow
    <3>3. req' = [req EXCEPT ![r] = v] /\ UNCHANGED <<orders, history, audit>>
      BY <2>8 DEF UpdateStatusRead
    <3> HIDE DEF v
    <3> QED
      BY <1>1, <3>2, <3>3, LocalStep
  <2>9. CASE UpdateStatusCommit(r)
    BY <1>1, <2>9, UpdateStatusCommitStep
  <2>10. CASE WriteAudit(r)
    BY <1>1, <2>10, WriteAuditStep
  <2>11. CASE Abandon(r)
    BY <1>1, <2>11, LocalStep DEF Abandon, Idle
  <2> QED
    BY <1>3, <2>1, <2>2, <2>3, <2>4, <2>5, <2>6, <2>7, <2>8, <2>9, <2>10, <2>11 DEF Step
<1> QED
  BY <1>2, <1>3 DEF Next, vars, ToggleAvailability, SetTableStatus

\* The inductive invariant holds of every behaviour.
THEOREM Invariance == Spec => []IInv
  BY IInvInit, IInvStep, PTL DEF Spec

-----------------------------------------------------------------------------
\* The kitchen is never skipped

\* A row that enters anything but OPEN was earned.
LEMMA Predecessor ==
  ASSUME HistoryIsEarned, NEW h \in history, h.to # "OPEN"
  PROVE  Earned(h)
  BY DEF HistoryIsEarned

LEMMA CookedFromIInv == IInv => CookedBeforeServed
<1> SUFFICES ASSUME IInv, NEW o \in OrderIds, orders[o].status \in BILLABLE_ORDER_STATUSES
             PROVE  /\ \E u \in Users : /\ HistoryRow(o, "OPEN", "SENT_TO_KITCHEN", u) \in history
                                       /\ u = orders[o].createdById
                    /\ \E k \in Users : /\ HistoryRow(o, "SENT_TO_KITCHEN", "PREPARING", k) \in history
                                       /\ Role[k] = "KITCHEN"
                    /\ \E k \in Users : /\ HistoryRow(o, "PREPARING", "READY", k) \in history
                                       /\ Role[k] = "KITCHEN"
  BY DEF CookedBeforeServed
<1> USE DEF MayMove, ALLOWED_TRANSITIONS, TRANSITION_ROLES
<1>1. \A h \in history : h = HistoryRow(h.order, h.from, h.to, h.by) /\ h.by \in Users
  BY DEF IInv, TypeOK, Move, HistoryRow
<1>2. Reached(o, orders[o].status)
  BY DEF IInv, StatusIsRecorded, BILLABLE_ORDER_STATUSES
<1>3. Reached(o, "READY")
  <2>1. CASE orders[o].status = "READY"
    BY <1>2, <2>1
  <2>2. CASE orders[o].status = "SERVED"
    <3>1. PICK h \in history : h.order = o /\ h.to = "SERVED"
      BY <1>2, <2>2 DEF Reached
    <3> QED
      BY <3>1, Predecessor DEF IInv, Earned
  <2> QED
    BY <2>1, <2>2 DEF BILLABLE_ORDER_STATUSES
<1>4. PICK h1 \in history : h1.order = o /\ h1.to = "READY"
  BY <1>3 DEF Reached
<1>5. h1.from = "PREPARING" /\ Role[h1.by] = "KITCHEN" /\ Reached(o, "PREPARING")
  BY <1>4, Predecessor DEF IInv, Earned
<1>6. PICK h2 \in history : h2.order = o /\ h2.to = "PREPARING"
  BY <1>5 DEF Reached
<1>7. h2.from = "SENT_TO_KITCHEN" /\ Role[h2.by] = "KITCHEN" /\ Reached(o, "SENT_TO_KITCHEN")
  BY <1>6, Predecessor DEF IInv, Earned
<1>8. PICK h3 \in history : h3.order = o /\ h3.to = "SENT_TO_KITCHEN"
  BY <1>7 DEF Reached
<1>9. h3.from = "OPEN" /\ h3.by = orders[o].createdById
  BY <1>8, Predecessor DEF IInv, Earned
<1> QED
  BY <1>1, <1>4, <1>5, <1>6, <1>7, <1>8, <1>9

\* Whatever requests race, an order that is READY or SERVED was sent to the
\* kitchen by its own waiter, taken up by a cook and finished by a cook.
THEOREM KitchenNeverSkipped == Spec => []CookedBeforeServed
  BY Invariance, CookedFromIInv, PTL

\* Every row of the status history is one the transition table allows, made
\* by someone it allows, out of a status the order had really entered.
THEOREM HistoryEarned == Spec => []HistoryIsEarned
<1>1. IInv => HistoryIsEarned
  BY DEF IInv
<1> QED
  BY <1>1, Invariance, PTL

\* Overlapping edits never leave an order without items.
THEOREM NeverEmpty == Spec => []OrderNeverEmpty
<1>1. IInv => OrderNeverEmpty
  BY DEF IInv
<1> QED
  BY <1>1, Invariance, PTL

\* The status of an order is one its history shows it to have entered; payment
\* alone writes one (BILLED) without a history row.
THEOREM StatusRecorded == Spec => []StatusIsRecorded
<1>1. IInv => StatusIsRecorded
  BY DEF IInv
<1> QED
  BY <1>1, Invariance, PTL

\* The audit log, written after the commit, claims no placing and no status
\* change that was not made.
THEOREM AuditTrue == Spec => []AuditIsTrue
<1>1. IInv => AuditIsTrue
  BY DEF IInv
<1> QED
  BY <1>1, Invariance, PTL

-----------------------------------------------------------------------------
\* Orders implements KitchenPipeline

LEMMA PipelineInit == Init => Pipeline!Init
  BY DEF Init, Pipeline!Init, Entered

LEMMA PipelinePlace ==
  ASSUME IInv, NEW r \in Requests, CreateCommit(r)
  PROVE  Pipeline!Next
<1>1. PICK o \in OrderIds : /\ ~ Exists(o)
                           /\ history' = history \cup {HistoryRow(o, "OPEN", "OPEN", req[r].by)}
  BY DEF CreateCommit
<1>2. req[r].by \in Users /\ Role[req[r].by] = "WAITER"
  BY DEF CreateCommit, IInv, TypeOK, Request, Idle, RequestsAreEarned
<1>3. Entered[o] = {}
  BY <1>1 DEF IInv, HistoryOfOrders, Entered
<1>4. Entered' = [Entered EXCEPT ![o] = {<<"OPEN", req[r].by>>}]
  <2>1. \A p \in OrderIds : p # o => Entered'[p] = Entered[p]
    BY <1>1 DEF Entered, HistoryRow
  <2>2. Entered'[o] = {<<"OPEN", req[r].by>>}
    <3>1. {g \in history' : g.order = o} = {HistoryRow(o, "OPEN", "OPEN", req[r].by)}
      <4>1. \A h \in history : h.order # o
        BY <1>1 DEF IInv, HistoryOfOrders
      <4>2. HistoryRow(o, "OPEN", "OPEN", req[r].by).order = o
        BY DEF HistoryRow
      <4> QED
        BY <1>1, <4>1, <4>2
    <3>2. Entered'[o] = {<<h.to, h.by>> : h \in {HistoryRow(o, "OPEN", "OPEN", req[r].by)}}
      BY <3>1 DEF Entered
    <3> QED
      BY <3>2 DEF HistoryRow
  <2> QED
    BY <2>1, <2>2 DEF Entered
<1>5. Pipeline!Place(o, req[r].by)
  BY <1>2, <1>3, <1>4 DEF Pipeline!Place
<1> QED
  BY <1>2, <1>5 DEF Pipeline!Next

LEMMA PipelineEnter ==
  ASSUME IInv, NEW r \in Requests, UpdateStatusCommit(r)
  PROVE  Pipeline!Next
<1> DEFINE m == req[r].move
           creator == orders[m.order].createdById
<1>1. m \in Move /\ Earned(m) /\ history' = history \cup {m}
  BY DEF UpdateStatusCommit, IInv, TypeOK, Request, Idle, RequestsAreEarned
<1>2. m.order \in OrderIds /\ m.from \in Statuses /\ m.to \in Statuses /\ m.by \in Users
  BY <1>1 DEF Move
<1>3. HistoryRow(m.order, "OPEN", "OPEN", creator) \in history
  BY <1>1, <1>2 DEF IInv, HistoryOfOrders, Earned, Reached
<1>4. creator \in Users /\ <<"OPEN", creator>> \in Entered[m.order]
  BY <1>2, <1>3 DEF IInv, TypeOK, Move, HistoryRow, Entered
<1>5. m.from \in Pipeline!Stage(m.order)
  <2>1. PICK h \in history : h.order = m.order /\ h.to = m.from
    BY <1>1 DEF Earned, Reached
  <2>2. <<h.to, h.by>> \in Entered[m.order]
    BY <1>2, <2>1 DEF Entered
  <2> QED
    BY <2>1, <2>2 DEF Pipeline!Stage
<1>6. Entered' = [Entered EXCEPT ![m.order] = @ \cup {<<m.to, m.by>>}]
  BY <1>1, <1>2 DEF Entered
<1>7. Pipeline!Enter(m.order, m.from, m.to, m.by)
  BY <1>1, <1>4, <1>5, <1>6 DEF Pipeline!Enter, Earned, MayMove, Pipeline!MayMove,
     ALLOWED_TRANSITIONS, TRANSITION_ROLES, Pipeline!ALLOWED_TRANSITIONS, Pipeline!TRANSITION_ROLES
<1> QED
  BY <1>2, <1>7 DEF Pipeline!Next, Statuses, Pipeline!Statuses

\* A step enters one stage, or leaves the stages alone.
LEMMA PipelineStep == IInv /\ [Next]_vars => [Pipeline!Next]_Entered
<1> SUFFICES ASSUME IInv, [Next]_vars PROVE [Pipeline!Next]_Entered
  OBVIOUS
<1>1. ASSUME history' = history PROVE Entered' = Entered
  BY <1>1 DEF Entered
<1>2. ASSUME NEW r \in Requests, Step(r) PROVE Pipeline!Next \/ history' = history
  BY <1>2, PipelinePlace, PipelineEnter
     DEF Step, CreateRead, CreateVerify, UpdateItemsRead, UpdateItemsVerify,
         UpdateItemsDelete, UpdateItemsCommit, UpdateStatusRead, WriteAudit, Abandon
<1> QED
  BY <1>1, <1>2 DEF Next, vars, ToggleAvailability, SetTableStatus

\* The handlers, at any degree of concurrency, implement the pipeline.
THEOREM Refinement == Spec => ImplementsPipeline
  BY PipelineInit, PipelineStep, Invariance, PTL DEF Spec, Pipeline!Spec, ImplementsPipeline
=============================================================================
