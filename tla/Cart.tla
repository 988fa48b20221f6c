--------------------------------- MODULE Cart ---------------------------------
(***************************************************************************)
(* The order screen: a waiter puts dishes on a ticket, picks a table and   *)
(* places the order.  The list of dishes is read once, so a dish may be    *)
(* gone when the order is placed; the ticket stays for another try.  After *)
(* a success the screen is left by router.push, which takes a while, and   *)
(* neither the ticket nor the button is reset until it is gone.  The link  *)
(* back works at any time, and an order in flight goes on without it.      *)
(***************************************************************************)
EXTENDS Naturals, FiniteSets

CONSTANTS
  Dishes,          \* menu items on the screen
  Places,          \* tables on the screen
  NoPlace,         \* nothing chosen: ""
  MaxQuantity,     \* bound: portions of one dish
  MaxPlaced,       \* bound: orders from one ticket
  MaxStrays        \* bound: orders in flight of screens that were left

ASSUME CartAssumption == NoPlace \notin Places

VARIABLES
  offer,         \* dishes isAvailable and the status of each table, now
  onScreen,      \* the dishes and tables to choose from, as loaded
  lines,         \* portions of each dish on the ticket
  place,         \* selectedTableId
  placing,       \* POST /orders in flight: none, or what it carries
  leaving,       \* router.push has been called
  placed,        \* history: orders the API has made of this ticket
  doubted,       \* history: an answer was lost, or Place pressed while leaving
  strays         \* POST /orders in flight of screens that were left

ticketVars == <<onScreen, lines, place, placing, leaving, placed, doubted>>
cartVars == <<offer, strays, ticketVars>>

NoOrder == [at |-> "idle"]
NotLoaded == [dishes |-> {}, places |-> {}]
\* RESERVED stands for OUT_OF_SERVICE too.
Offers == [dishes : SUBSET Dishes, table : [Places -> {"AVAILABLE", "OCCUPIED", "RESERVED"}]]

CartInit ==
  /\ offer = [dishes |-> Dishes, table |-> [t \in Places |-> "AVAILABLE"]]
  /\ onScreen = NotLoaded /\ strays = {}
  /\ lines = [d \in Dishes |-> 0] /\ place = NoPlace
  /\ placing = NoOrder /\ leaving = FALSE
  /\ placed = 0 /\ doubted = FALSE

\* MenuService and the tables, as far as the screen sees them.
OfferChanges(now) ==
  /\ offer' = now
  /\ UNCHANGED <<ticketVars, strays>>

\* loadData, once: tables with guests are not among those to choose from.
LoadData ==
  /\ onScreen = NotLoaded
  /\ onScreen' = [dishes |-> offer.dishes,
                  places |-> {t \in Places : offer.table[t] = "AVAILABLE"}]
  /\ UNCHANGED <<offer, strays, lines, place, placing, leaving, placed, doubted>>

AddOrIncrementItem(d) ==
  /\ d \in onScreen.dishes /\ lines[d] < MaxQuantity
  /\ lines' = [lines EXCEPT ![d] = @ + 1]
  /\ UNCHANGED <<offer, strays, onScreen, place, placing, leaving, placed, doubted>>

\* A line with no portion left goes.
DecrementItem(d) ==
  /\ lines[d] > 0
  /\ lines' = [lines EXCEPT ![d] = @ - 1]
  /\ UNCHANGED <<offer, strays, onScreen, place, placing, leaving, placed, doubted>>

RemoveLine(d) ==
  /\ lines[d] > 0
  /\ lines' = [lines EXCEPT ![d] = 0]
  /\ UNCHANGED <<offer, strays, onScreen, place, placing, leaving, placed, doubted>>

SelectTable(t) ==
  /\ t \in onScreen.places \cup {NoPlace}
  /\ place' = t
  /\ UNCHANGED <<offer, strays, onScreen, lines, placing, leaving, placed, doubted>>

Ordered == {d \in Dishes : lines[d] > 0}

\* The button waits for a dish, a table and isSubmitting.
PlaceEnabled == Ordered # {} /\ place # NoPlace /\ placing = NoOrder

\* handlePlaceOrder up to the call.
HandlePlaceOrder ==
  /\ PlaceEnabled /\ placed < MaxPlaced
  /\ placing' = [at |-> "create", dishes |-> Ordered, table |-> place]
  /\ doubted' = (doubted \/ (leaving /\ placed > 0))
  /\ UNCHANGED <<offer, strays, onScreen, lines, place, leaving, placed>>

\* What POST /orders makes of it: a table with guests will do.
Accepts(order) ==
  offer.table[order.table] \in {"AVAILABLE", "OCCUPIED"} /\ order.dishes \subseteq offer.dishes
Serves(order) ==
  offer' = IF Accepts(order) THEN [offer EXCEPT !.table[order.table] = "OCCUPIED"] ELSE offer

\* Mutant: a success leaves the screen where it is.
CreateOrderStays ==
  /\ placing.at = "create" /\ Serves(placing)
  /\ placed' = IF Accepts(placing) THEN placed + 1 ELSE placed
  /\ placing' = NoOrder
  /\ UNCHANGED <<strays, onScreen, lines, place, leaving, doubted>>

\* The order is made, or refused with the ticket kept.  An answer that is lost
\* looks like a refusal.
CreateOrder ==
  /\ placing.at = "create" /\ Serves(placing)
  /\ IF Accepts(placing)
     THEN /\ placed' = placed + 1
          /\ \/ leaving' = TRUE /\ UNCHANGED doubted
             \/ doubted' = TRUE /\ UNCHANGED leaving
     ELSE UNCHANGED <<placed, leaving, doubted>>
  /\ placing' = NoOrder
  /\ UNCHANGED <<strays, onScreen, lines, place>>

\* The list of orders takes over, by router.push or by the link to it; the
\* screen starts with an empty ticket when it is opened again.
LeaveScreen ==
  /\ placing # NoOrder => Cardinality(strays) < MaxStrays
  /\ strays' = IF placing = NoOrder THEN strays
               ELSE strays \cup {[order |-> placing, placed |-> placed, doubted |-> doubted]}
  /\ onScreen' = NotLoaded /\ placing' = NoOrder
  /\ lines' = [d \in Dishes |-> 0] /\ place' = NoPlace
  /\ leaving' = FALSE /\ placed' = 0 /\ doubted' = FALSE
  /\ UNCHANGED offer

\* The API answers a screen that is gone.  Its router.push still works, and takes
\* the user from whatever screen is open by then.
AnswerStray(s) ==
  /\ s \in strays /\ Serves(s.order)
  /\ strays' = strays \ {s}
  /\ leaving' \in IF Accepts(s.order) THEN {TRUE, leaving} ELSE {leaving}
  /\ UNCHANGED <<onScreen, lines, place, placing, placed, doubted>>

CartNext ==
  \/ \E now \in Offers : OfferChanges(now)
  \/ LoadData \/ HandlePlaceOrder \/ CreateOrder \/ LeaveScreen
  \/ \E s \in strays : AnswerStray(s)
  \/ \E d \in Dishes : AddOrIncrementItem(d) \/ DecrementItem(d) \/ RemoveLine(d)
  \/ \E t \in Places \cup {NoPlace} : SelectTable(t)

CartSpec == CartInit /\ [][CartNext]_cartVars

-----------------------------------------------------------------------------
\* One ticket is one order, however often Place is pressed, whatever is changed
\* or refused on the way and whenever the screen is left, unless an answer was
\* lost or Place was pressed once more before the screen was gone: it has at most
\* one, and an order still in flight for a ticket that was left is its first.
TicketPlacedOnce ==
  /\ placed <= 1 \/ doubted
  /\ \A s \in strays : s.placed = 0 \/ s.doubted

\* What it needs to survive a step: an order made is known by the screen that
\* leaves or is in doubt, and no further one is asked for but in doubt.
MadeIsKnown ==
  /\ placed \in Nat /\ leaving \in BOOLEAN /\ doubted \in BOOLEAN
  /\ placed > 0 => leaving \/ doubted
  /\ placed > 0 /\ placing # NoOrder => doubted
CartInv == MadeIsKnown /\ TicketPlacedOnce
=============================================================================
