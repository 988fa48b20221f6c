------------------------------- MODULE Routes -------------------------------
(***************************************************************************)
(* Who may call what, and what the web pages call.  A route of the API is  *)
(* represented by the roles its @Roles decorator admits; the web client's  *)
(* functions are names for routes; a page is the set of routes it reads.   *)
(***************************************************************************)
EXTENDS OrderStatus

\* No decorator: every session is admitted, an inactive user's too.
AnySession == Roles \cup {"anyone"}
Management == {"ADMIN", "MANAGER"}

OrdersController ==
  [findAll |-> Roles, findOne |-> Roles, create |-> {"WAITER"},
   updateItems |-> {"WAITER", "MANAGER"},
   updateStatus |-> {"WAITER", "KITCHEN", "MANAGER", "CASHIER"},
   cancel |-> {"WAITER", "MANAGER"}, getStatusHistory |-> Management \cup {"WAITER"}]

BillingController ==
  [findAll |-> Management \cup {"CASHIER"}, getInvoiceByOrder |-> Management \cup {"CASHIER"},
   getInvoice |-> Management \cup {"CASHIER"}, createInvoice |-> {"CASHIER"},
   confirmPayment |-> {"CASHIER"}, createPaymentIntent |-> {"CASHIER"},
   requestRefund |-> {"CASHIER", "MANAGER"}, getPendingRefunds |-> Management,
   getDecidedRefunds |-> Management, approveRefund |-> Management, rejectRefund |-> Management]

TablesController ==
  LET seen == Management \cup {"CASHIER", "WAITER"}  waits == Management \cup {"WAITER"} IN
  [findAll |-> seen, findAvailable |-> seen, findOne |-> seen, create |-> Management,
   update |-> Management, remove |-> Management, assignWaiter |-> waits,
   releaseTable |-> waits, getAssignment |-> waits]

\* Reading the menu is for all staff, writing it for management.
MenuController ==
  LET seen == {"findAllCategories", "findOneCategory", "findAllItems", "findAvailableItems",
               "findOneItem"} IN
  [r \in seen \cup {"createCategory", "updateCategory", "removeCategory", "createItem",
                    "updateItem", "toggleItem", "removeItem"} |->
     IF r \in seen THEN Roles ELSE Management]

\* Decorators on the whole controller.
InventoryController == Management
ReportsController == Management
UploadController == Management
UsersController == {"ADMIN"}
AuditController == {"ADMIN"}

-----------------------------------------------------------------------------
\* lib/api.ts, the functions the pages call

profileApi == [get |-> AnySession, update |-> AnySession]

usersApi ==
  [r \in {"getAll", "create", "update", "deactivate", "unlock"} |-> UsersController]

tablesApi ==
  [getAll |-> TablesController.findAll, getAvailable |-> TablesController.findAvailable,
   create |-> TablesController.create, update |-> TablesController.update,
   delete |-> TablesController.remove, assign |-> TablesController.assignWaiter,
   release |-> TablesController.releaseTable, getAssignment |-> TablesController.getAssignment]

menuApi ==
  [getCategories |-> MenuController.findAllCategories,
   createCategory |-> MenuController.createCategory,
   updateCategory |-> MenuController.updateCategory,
   deleteCategory |-> MenuController.removeCategory, getItems |-> MenuController.findAllItems,
   getAvailableItems |-> MenuController.findAvailableItems,
   createItem |-> MenuController.createItem, updateItem |-> MenuController.updateItem,
   toggleItem |-> MenuController.toggleItem, deleteItem |-> MenuController.removeItem,
   uploadMenuItemImage |-> UploadController, deleteMenuItemImage |-> UploadController]

auditApi == [getLogs |-> AuditController, getActions |-> AuditController]

ordersApi ==
  [getAll |-> OrdersController.findAll, getOne |-> OrdersController.findOne,
   create |-> OrdersController.create, updateItems |-> OrdersController.updateItems,
   updateStatus |-> OrdersController.updateStatus, cancel |-> OrdersController.cancel,
   getHistory |-> OrdersController.getStatusHistory]

billingApi ==
  [getInvoices |-> BillingController.findAll, getInvoice |-> BillingController.getInvoice,
   getInvoiceByOrder |-> BillingController.getInvoiceByOrder,
   createInvoice |-> BillingController.createInvoice,
   confirmPayment |-> BillingController.confirmPayment,
   createPaymentIntent |-> BillingController.createPaymentIntent,
   requestRefund |-> BillingController.requestRefund,
   getPendingRefunds |-> BillingController.getPendingRefunds,
   getDecidedRefunds |-> BillingController.getDecidedRefunds,
   approveRefund |-> BillingController.approveRefund,
   rejectRefund |-> BillingController.rejectRefund]

inventoryApi ==
  [r \in {"getIngredients", "getLowStock", "createIngredient", "updateIngredient",
          "adjustStock", "getSuppliers", "createSupplier", "updateSupplier"} |->
     InventoryController]

reportsApi == [r \in {"getSales", "getInventory", "getStaff", "getRefunds"} |-> ReportsController]

-----------------------------------------------------------------------------
\* The navigation: the roles a link to a page is shown to

ROLE_SECTIONS ==
  [ADMIN |-> {"dashboard", "users", "audit", "tables", "menu", "orders", "billing",
              "inventory", "refunds", "reports"},
   MANAGER |-> {"dashboard", "tables", "menu", "orders", "inventory", "refunds", "reports"},
   CASHIER |-> {"dashboard", "orders", "billing"},
   WAITER |-> {"dashboard", "tables", "orders"},
   KITCHEN |-> {"dashboard", "kitchen"}]

\* The cards of the dashboard and the order page's "New Order" beside them.
NAV_ITEMS ==
  [dashboard |-> Roles, users |-> {"ADMIN"}, audit |-> {"ADMIN"},
   tables |-> Management \cup {"WAITER"}, menu |-> Management,
   orders |-> Management \cup {"CASHIER", "WAITER"}, billing |-> {"ADMIN", "CASHIER"},
   inventory |-> Management, refunds |-> Management, reports |-> Management,
   kitchen |-> {"KITCHEN"}]

Linked(role) ==
  ROLE_SECTIONS[role] \cup {p \in DOMAIN NAV_ITEMS : role \in NAV_ITEMS[p]}
    \cup {"profile"} \cup (IF role = "WAITER" THEN {"new-order"} ELSE {})

StaffPages == DOMAIN NAV_ITEMS \cup {"profile", "new-order"}

\* Where a page sends a role that has no business on it.
Redirect(page, role) ==
  CASE page = "orders" /\ role = "KITCHEN" -> "kitchen"
    [] \/ page = "tables" /\ role = "KITCHEN"
       \/ page \in {"users", "audit"} /\ role # "ADMIN"
       \/ page \in {"inventory", "refunds", "reports"} /\ role \notin Management
       \/ page = "new-order" /\ role \notin Management \cup {"WAITER"} -> "dashboard"
    [] OTHER -> page

\* Mutant: the dashboard asks for the tables whoever looks at it.
DashboardReadsAll(role) ==
  {ordersApi.getAll, tablesApi.getAll}
    \cup (IF role = "ADMIN" THEN {usersApi.getAll} ELSE {})

DashboardReads(role) ==
  {ordersApi.getAll}
    \cup (IF role = "ADMIN" THEN {usersApi.getAll} ELSE {})
    \cup (IF role # "KITCHEN" THEN {tablesApi.getAll} ELSE {})

\* What a page asks for as it appears.  Pages that redirect a role ask nothing
\* for it, except the order screen, which loads in any case.
For(roles, role, reads) == IF role \in roles THEN reads ELSE {}

UsersReads(role) == For({"ADMIN"}, role, {usersApi.getAll})
AuditReads(role) == For({"ADMIN"}, role, {auditApi.getLogs, auditApi.getActions})
TablesReads(role) == For(Roles \ {"KITCHEN"}, role, {tablesApi.getAll})
MenuReads(role) ==
  {menuApi.getCategories,
   IF role = "KITCHEN" THEN menuApi.getAvailableItems ELSE menuApi.getItems}
OrdersReads(role) == For(Roles \ {"KITCHEN"}, role, {ordersApi.getAll})
KitchenReads == {ordersApi.getAll}
BillingReads == {ordersApi.getAll, billingApi.getInvoices}
InventoryReads(role) ==
  For(Management, role,
      {inventoryApi.getIngredients, inventoryApi.getLowStock, inventoryApi.getSuppliers})
RefundsReads(role) ==
  For(Management, role, {billingApi.getPendingRefunds, billingApi.getDecidedRefunds})
ReportsReads(role) ==
  For(Management, role, {reportsApi.getSales, reportsApi.getInventory,
                         reportsApi.getStaff, reportsApi.getRefunds})
NewOrderReads == {tablesApi.getAvailable, menuApi.getCategories, menuApi.getAvailableItems}
ProfileReads == {profileApi.get}

PageReads(page, role) ==
  CASE page = "dashboard" -> DashboardReads(role)
    [] page = "users" -> UsersReads(role)
    [] page = "audit" -> AuditReads(role)
    [] page = "tables" -> TablesReads(role)
    [] page = "menu" -> MenuReads(role)
    [] page = "orders" -> OrdersReads(role)
    [] page = "kitchen" -> KitchenReads
    [] page = "billing" -> BillingReads
    [] page = "inventory" -> InventoryReads(role)
    [] page = "refunds" -> RefundsReads(role)
    [] page = "reports" -> ReportsReads(role)
    [] page = "new-order" -> NewOrderReads
    [] page = "profile" -> ProfileReads
    [] OTHER -> {}
=============================================================================
