-------------------------------- MODULE Boards --------------------------------
(***************************************************************************)
(* The order list and the kitchen queue in one browser: a page that shows  *)
(* orders as they were when a list was fetched, offers buttons for what it *)
(* shows, and sends what a button says to an API that has moved on         *)
(* meanwhile.  Lists are fetched after a press and, in the kitchen, every  *)
(* 30 seconds; their answers come in any order.  The API reads the order   *)
(* first and writes it some awaits later, without looking again.           *)
(***************************************************************************)
EXTENDS OrderStatus, FiniteSets, Naturals

CONSTANTS
  Tickets,       \* orders
  Presses,       \* slots for pressed buttons in flight
  MaxReplies,    \* bound: lists on their way to the page
  NoTicket       \* null of busyId

ASSUME BoardsAssumption == NoTicket \notin Tickets

VARIABLES
  duty,          \* role of the user, and the orders the user created
  ticket,        \* Order.status, "NONE" before the order is placed
  shown,         \* status of each order on the page, "NONE": not on it
  replies,       \* lists fetched and not yet shown
  busyId,        \* the order whose buttons the page holds back
  press          \* pressed buttons in flight

boardVars == <<duty, ticket, shown, replies, busyId, press>>

NoPress == [at |-> "idle"]
Reloading == [at |-> "reload", here |-> TRUE]
NoList == [o \in Tickets |-> "NONE"]
Offline == {"call", "write", "refused"}     \* stages that need no page
Me == "me"
AuthorOf(o) == IF o \in duty.own THEN Me ELSE "colleague"

BoardsInit ==
  /\ duty \in [role : Roles, own : SUBSET Tickets]
  /\ duty.role # "WAITER" => duty.own = {}
  /\ ticket = NoList /\ shown = NoList /\ replies = {}
  /\ busyId = NoTicket
  /\ press = [k \in Presses |-> NoPress]

\* buildListWhere keeps to each role its own.
Listed(o, status) ==
  CASE duty.role \in {"ADMIN", "MANAGER"} -> TRUE
    [] duty.role = "CASHIER" -> status \in BILLABLE_ORDER_STATUSES
    [] duty.role = "WAITER" -> o \in duty.own
    [] duty.role = "KITCHEN" -> status \in {"SENT_TO_KITCHEN", "PREPARING"}

\* `status` is that of every order at the time.
FindAll(status) ==
  [o \in Tickets |-> IF Listed(o, status[o]) THEN status[o] ELSE "NONE"]

StepsOf(o, moves) == {m[2] : m \in {m \in moves : m[1] = shown[o]}}

WaiterMoves == {<<"OPEN", "SENT_TO_KITCHEN">>, <<"OPEN", "CANCELLED">>, <<"READY", "SERVED">>}

\* Mutant: an administrator is offered what a manager is.
OfferedToManagement(o) ==
  CASE duty.role \in {"MANAGER", "ADMIN"} -> StepsOf(o, {<<"OPEN", "CANCELLED">>})
    [] duty.role = "WAITER" -> IF o \in duty.own THEN StepsOf(o, WaiterMoves) ELSE {}
    [] OTHER -> {}

\* The buttons of the order list, by what they ask for.
Offered(o) ==
  CASE duty.role = "MANAGER" -> StepsOf(o, {<<"OPEN", "CANCELLED">>})
    [] duty.role = "WAITER" -> IF o \in duty.own THEN StepsOf(o, WaiterMoves) ELSE {}
    [] OTHER -> {}

\* The kitchen's two columns, one button a card.
Advance(o) ==
  IF duty.role = "KITCHEN"
  THEN StepsOf(o, {<<"SENT_TO_KITCHEN", "PREPARING">>, <<"PREPARING", "READY">>}) ELSE {}

-----------------------------------------------------------------------------

\* A press about an order that is being written is overtaken.
Overtaken(o) ==
  [k \in Presses |-> IF press[k].at = "write" /\ press[k].order = o
                     THEN [press[k] EXCEPT !.overtaken = TRUE] ELSE press[k]]

\* Orders are placed, and move on under the hands of others.  An OPEN order has
\* never been anything else and goes by the table.  Afterwards there may be
\* colleagues, and Billing, who read an earlier status and write what follows it:
\* anything but OPEN.
TicketMoves(o, to) ==
  /\ \/ ticket[o] = "NONE" /\ to = "OPEN"
     \/ <<ticket[o], to>> \in ALLOWED_TRANSITIONS
     \/ ticket[o] \notin {"NONE", "OPEN"} /\ to # "OPEN"
  /\ ticket' = [ticket EXCEPT ![o] = to]
  /\ press' = Overtaken(o)
  /\ UNCHANGED <<duty, shown, replies, busyId>>

\* loadOrders of the kitchen, by its interval or its button.
PollKitchen ==
  /\ duty.role = "KITCHEN" /\ Cardinality(replies) < MaxReplies
  /\ replies' = replies \cup {FindAll(ticket)}
  /\ UNCHANGED <<duty, ticket, shown, busyId, press>>

\* The page is opened, or left and opened again: nothing of the old one comes
\* back, while calls it has sent go on without it.  Before its first list there is
\* nothing to press, so the list is shown as it is read.
OpenPage ==
  /\ shown' = FindAll(ticket) /\ replies' = {} /\ busyId' = NoTicket
  /\ press' = [k \in Presses |-> IF press[k].at \in Offline
                                THEN [press[k] EXCEPT !.here = FALSE] ELSE NoPress]
  /\ UNCHANGED <<duty, ticket>>

ShowOrders(list) ==
  /\ list \in replies
  /\ shown' = list
  /\ replies' = replies \ {list}
  /\ UNCHANGED <<duty, ticket, busyId, press>>

\* handleStatusChange, handleCancel and handleAdvance up to the call.  The page
\* holds back the buttons of the order pressed last, and of no other.
PressButton(k, o, to) ==
  /\ press[k] = NoPress /\ busyId # o
  /\ to \in Offered(o) \cup Advance(o)
  /\ press' = [press EXCEPT ![k] = [at |-> "call", order |-> o, seen |-> shown[o], to |-> to,
                                    here |-> TRUE, overtaken |-> FALSE]]
  /\ busyId' = o
  /\ UNCHANGED <<duty, ticket, shown, replies>>

\* updateStatus: what it reads decides.
UpdateStatusRead(k) ==
  LET r == press[k] IN
  /\ r.at = "call"
  /\ press' = [press EXCEPT ![k] =
                  IF MayMove(ticket[r.order], r.to, Me, duty.role, AuthorOf(r.order))
                  THEN [r EXCEPT !.at = "write"] ELSE [at |-> "refused", here |-> r.here]]
  /\ UNCHANGED <<duty, ticket, shown, replies, busyId>>

\* Its transaction writes the status, whatever it has become.
UpdateStatusCommit(k) ==
  LET r == press[k] IN
  /\ r.at = "write"
  /\ ticket' = [ticket EXCEPT ![r.order] = r.to]
  /\ press' = [Overtaken(r.order) EXCEPT ![k] = IF r.here THEN Reloading ELSE NoPress]
  /\ UNCHANGED <<duty, shown, replies, busyId>>

\* The call fails, or seems to: its request may go on all the same.
LosePress(k) ==
  /\ press[k].at \in {"call", "write"}
  /\ \/ press' = [press EXCEPT ![k] = NoPress]
     \/ press' = [press EXCEPT ![k].here = FALSE]
  /\ busyId' = IF press[k].here THEN NoTicket ELSE busyId
  /\ UNCHANGED <<duty, ticket, shown, replies>>

\* The refusal arrives, or the list fetched after a success, or the news that it
\* could not be; all buttons are released.  A list is read as it arrives here:
\* one that is older by then is one that ages at once.
EndPress(k) ==
  /\ press[k].at \in {"refused", "reload"}
  /\ shown' \in IF press[k].at = "reload" THEN {FindAll(ticket), shown} ELSE {shown}
  /\ busyId' = IF press[k].here THEN NoTicket ELSE busyId
  /\ press' = [press EXCEPT ![k] = NoPress]
  /\ UNCHANGED <<duty, ticket, replies>>

BoardsNext ==
  \/ \E o \in Tickets, to \in Statuses :
       TicketMoves(o, to) \/ \E k \in Presses : PressButton(k, o, to)
  \/ PollKitchen \/ OpenPage
  \/ \E list \in replies : ShowOrders(list)
  \/ \E k \in Presses :
       UpdateStatusRead(k) \/ UpdateStatusCommit(k) \/ LosePress(k) \/ EndPress(k)

BoardsSpec == BoardsInit /\ [][BoardsNext]_boardVars

-----------------------------------------------------------------------------
\* A button does what it says or nothing, however old the list and however often
\* it is pressed.  The API refuses a press exactly when the order is no longer as
\* the page showed it, and what it performs goes to where the button said, from
\* where the page showed it unless the order was changed after the API's read.
Judged(k) == press[k].at = "call" /\ press'[k].at \in {"write", "refused"}
Performed(k) == press[k].at = "write" /\ press'[k].at # "write" /\ ticket' # ticket
ButtonsKeepTheirWord ==
  [][\A k \in Presses : LET r == press[k] IN
       /\ Judged(k) => (press'[k].at = "refused" <=> ticket[r.order] # r.seen)
       /\ Performed(k) =>
            /\ ticket'[r.order] = r.to
            /\ ticket[r.order] = r.seen \/ r.overtaken]_boardVars

\* The variables hold orders, lists and presses.
Lists == [Tickets -> Statuses \cup {"NONE"}]
PressRows ==
  {NoPress, Reloading}
  \cup [at : {"refused"}, here : BOOLEAN]
  \cup [at : {"call", "write"}, order : Tickets, seen : Statuses \cup {"NONE"}, to : Statuses,
        here : BOOLEAN, overtaken : BOOLEAN]
BoardsTypeOK ==
  /\ duty \in [role : Roles, own : SUBSET Tickets]
  /\ ticket \in Lists /\ shown \in Lists /\ replies \subseteq Lists
  /\ press \in [Presses -> PressRows]

\* What ButtonsKeepTheirWord rests on: a press asks for a step its user may take
\* from what the page showed, and what the API has read stands until overtaken.
PressIsOffered ==
  \A k \in Presses : press[k].at \in {"call", "write"} =>
    MayMove(press[k].seen, press[k].to, Me, duty.role, AuthorOf(press[k].order))
ReadsStand ==
  \A k \in Presses : press[k].at = "write" =>
    ticket[press[k].order] = press[k].seen \/ press[k].overtaken
BoardsInv == BoardsTypeOK /\ PressIsOffered /\ ReadsStand
=============================================================================
