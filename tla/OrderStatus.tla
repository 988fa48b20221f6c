---------------------------- MODULE OrderStatus ----------------------------
(***************************************************************************)
(* The order life cycle as the tables of orders.service.ts state it: which *)
(* status may follow which, and which role may perform the step.  "NONE"   *)
(* is not a status of the program: it stands for "no such row".            *)
(***************************************************************************)

Statuses == {"OPEN", "SENT_TO_KITCHEN", "PREPARING", "READY", "SERVED",
             "CANCELLED", "BILLED"}

TableStatuses == {"AVAILABLE", "OCCUPIED", "RESERVED", "OUT_OF_SERVICE"}

Roles == {"WAITER", "KITCHEN", "MANAGER", "CASHIER", "ADMIN"}

\* Mutant: an order is billable as soon as the kitchen works on it.
BILLABLE_FROM_PREPARING == {"PREPARING", "READY", "SERVED"}

BILLABLE_ORDER_STATUSES == {"READY", "SERVED"}

ALLOWED_TRANSITIONS ==
  { <<"OPEN", "SENT_TO_KITCHEN">>, <<"OPEN", "CANCELLED">>,
    <<"SENT_TO_KITCHEN", "PREPARING">>, <<"PREPARING", "READY">>,
    <<"READY", "SERVED">>, <<"SERVED", "BILLED">> }

TRANSITION_ROLES ==
  { <<"OPEN", "SENT_TO_KITCHEN", "WAITER">>,
    <<"SENT_TO_KITCHEN", "PREPARING", "KITCHEN">>,
    <<"PREPARING", "READY", "KITCHEN">>,
    <<"READY", "SERVED", "WAITER">>,
    <<"OPEN", "CANCELLED", "WAITER">>,
    <<"OPEN", "CANCELLED", "MANAGER">>,
    <<"SERVED", "BILLED", "CASHIER">> }

\* The tests updateStatus makes on the status it read, for a requester u of
\* role `role` on an order created by `creator`.
MayMove(from, to, u, role, creator) ==
  /\ <<from, to>> \in ALLOWED_TRANSITIONS
  /\ <<from, to, role>> \in TRANSITION_ROLES
  /\ role = "WAITER" => u = creator
=============================================================================
