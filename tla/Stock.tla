-------------------------------- MODULE Stock --------------------------------
(***************************************************************************)
(* InventoryService and the inventory page.  Three writers share the stock *)
(* of an ingredient: a sale takes its amounts away one ingredient at a     *)
(* time, each in one atomic statement; an adjustment writes a quantity it  *)
(* computed from an earlier read; the edit form writes the quantity the    *)
(* page showed when it was loaded, whatever field was to be changed.       *)
(***************************************************************************)
EXTENDS Integers, FiniteSetsExt, Functions

CONSTANTS
  Ingredients, Suppliers,
  Managers,    \* pages open, each with one form and one request
  Sales,       \* payments confirmed, each for one order
  Uses,        \* what the items of a sale's order use up of each ingredient
  Quantities,  \* bound: quantities the stock may have, and may be set to
  Adjustments  \* what may be added or taken away by hand

ASSUME StockAssumption ==
  /\ IsFiniteSet(Sales) /\ Uses \in [Sales -> [Ingredients -> Nat]]
  /\ "absent" \notin Suppliers /\ Quantities \subseteq Int /\ Adjustments \subseteq Int

VARIABLES
  stock,       \* Ingredient.stockQuantity
  supplier,    \* Ingredient.supplierId, "none", or "absent" without a row
  suppliers,   \* Supplier rows
  form,        \* what a manager's page is about to send, and what it read
  sale,        \* how far decrementForOrder has got for a sale
  books,       \* history: what the stock would be if every change counted
  lost         \* history: a quantity was written over one not read

stockVars == <<stock, supplier, suppliers, form, sale, books, lost>>

NoForm == [at |-> "closed"]
Kept(i) == supplier[i] # "absent"
Needed(s) == {i \in Ingredients : Uses[s][i] > 0 /\ Kept(i)}

StockInit ==
  /\ stock = [i \in Ingredients |-> 0] /\ books = stock
  /\ supplier = [i \in Ingredients |-> "absent"]
  /\ suppliers = {}
  /\ form = [m \in Managers |-> NoForm]
  /\ sale = [s \in Sales |-> [at |-> "unpaid", left |-> {}]]
  /\ lost = [i \in Ingredients |-> FALSE]

-----------------------------------------------------------------------------
CreateSupplier(s) ==
  /\ suppliers' = suppliers \cup {s}
  /\ UNCHANGED <<stock, supplier, form, sale, books, lost>>

\* What the ingredient form takes: no quantity below zero, and not only where it
\* is new; a supplier of the list or none.
EnteredInForm(q, s) == q >= 0 /\ s \in suppliers \cup {"none"}

CreateIngredient(i, q, s) ==
  /\ ~ Kept(i) /\ EnteredInForm(q, s)
  /\ stock' = [stock EXCEPT ![i] = q] /\ books' = [books EXCEPT ![i] = q]
  /\ supplier' = [supplier EXCEPT ![i] = s]
  /\ UNCHANGED <<suppliers, form, sale, lost>>

\* startEditIngredient copies the list the page has loaded.
StartEdit(m, i) ==
  /\ form[m] = NoForm /\ Kept(i)
  /\ form' = [form EXCEPT ![m] = [at |-> "edit", on |-> i, read |-> stock[i]]]
  /\ UNCHANGED <<stock, supplier, suppliers, sale, books, lost>>

\* A write of q by a form that stands for a change of q - read.
Overwrite(m, q) ==
  LET i == form[m].on IN
  /\ stock' = [stock EXCEPT ![i] = q]
  /\ lost' = [lost EXCEPT ![i] = @ \/ stock[i] # form[m].read]
  /\ books' = IF lost'[i] THEN books ELSE [books EXCEPT ![i] = @ + q - form[m].read]
  /\ form' = [form EXCEPT ![m] = NoForm]

\* Every field is sent; "No supplier" is sent as nothing and changes nothing.
UpdateIngredient(m, q, s) ==
  /\ form[m].at = "edit" /\ EnteredInForm(q, s)
  /\ Overwrite(m, q)
  /\ supplier' = IF s = "none" THEN supplier ELSE [supplier EXCEPT ![form[m].on] = s]
  /\ UNCHANGED <<suppliers, sale>>

CloseForm(m) ==
  /\ form[m].at = "edit"
  /\ form' = [form EXCEPT ![m] = NoForm]
  /\ UNCHANGED <<stock, supplier, suppliers, sale, books, lost>>

\* adjustStock, up to its test on the quantity it has read (Quantities is a bound) ...
AdjustRead(m, i, d) ==
  /\ form[m] = NoForm /\ Kept(i)
  /\ stock[i] + d >= 0 /\ stock[i] + d \in Quantities
  /\ form' = [form EXCEPT ![m] = [at |-> "adjust", on |-> i, read |-> stock[i], by |-> d]]
  /\ UNCHANGED <<stock, supplier, suppliers, sale, books, lost>>

\* ... and its write.
AdjustWrite(m) ==
  /\ form[m].at = "adjust"
  /\ Overwrite(m, form[m].read + form[m].by)
  /\ UNCHANGED <<supplier, suppliers, sale>>

-----------------------------------------------------------------------------
\* decrementForOrder, once per payment: the amounts, then a decrement for each.
SaleStart(s) ==
  /\ sale[s].at = "unpaid"
  /\ sale' = [sale EXCEPT ![s] = [at |-> "taking", left |-> Needed(s)]]
  /\ books' = [i \in Ingredients |->
                 IF i \in Needed(s) THEN books[i] - Uses[s][i] ELSE books[i]]
  /\ UNCHANGED <<stock, supplier, suppliers, form, lost>>

\* Mutant: the quantity is never taken below zero.
SaleTakesAtMost(s, i) ==
  /\ sale[s].at = "taking" /\ i \in sale[s].left
  /\ stock' = [stock EXCEPT ![i] = IF @ < Uses[s][i] THEN 0 ELSE @ - Uses[s][i]]
  /\ sale' = [sale EXCEPT ![s].left = @ \ {i}]
  /\ UNCHANGED <<supplier, suppliers, form, books, lost>>

SaleTakes(s, i) ==
  /\ sale[s].at = "taking" /\ i \in sale[s].left
  /\ stock' = [stock EXCEPT ![i] = @ - Uses[s][i]]
  /\ sale' = [sale EXCEPT ![s].left = @ \ {i}]
  /\ UNCHANGED <<supplier, suppliers, form, books, lost>>

\* The error is logged and swallowed, or the process dies: nothing is retried.
SaleFails(s) ==
  /\ sale[s].at = "taking" /\ sale[s].left # {}
  /\ sale' = [sale EXCEPT ![s].at = "failed"]
  /\ UNCHANGED <<stock, supplier, suppliers, form, books, lost>>

StockNext ==
  \/ \E m \in Managers :
       \/ \E i \in Ingredients : StartEdit(m, i) \/ \E d \in Adjustments : AdjustRead(m, i, d)
       \/ \E q \in Quantities, s \in Suppliers \cup {"none"} : UpdateIngredient(m, q, s)
       \/ CloseForm(m) \/ AdjustWrite(m)
  \/ \E s \in Suppliers : CreateSupplier(s)
  \/ \E i \in Ingredients, q \in Quantities, s \in Suppliers \cup {"none"} : CreateIngredient(i, q, s)
  \/ \E s \in Sales : SaleStart(s) \/ SaleFails(s) \/ \E i \in Ingredients : SaleTakes(s, i)

StockSpec == StockInit /\ [][StockNext]_stockVars

-----------------------------------------------------------------------------
\* What sales have still to take of an ingredient, or never will.
Untaken(i) ==
  SumFunctionOnSet([s \in Sales |-> Uses[s][i]], {s \in Sales : i \in sale[s].left})

\* The stock of an ingredient is accounted for: what was counted, added and
\* taken away by hand, less what every sale used, but for what a sale has yet
\* to take or failed to take.  Only a quantity written over one that its writer
\* had not read, by an adjustment or by the edit form, breaks the account.
StockIsAccounted ==
  \A i \in Ingredients : Kept(i) => lost[i] \/ stock[i] = books[i] + Untaken(i)

\* What makes it inductive: a form is on an ingredient that is kept, and a sale
\* takes of ingredients that are kept, from its payment on.
StockForms ==
  {NoForm} \cup [at : {"edit"}, on : Ingredients, read : Int]
           \cup [at : {"adjust"}, on : Ingredients, read : Int, by : Int]

StockTypeOK ==
  /\ stock \in [Ingredients -> Int] /\ books \in [Ingredients -> Int]
  /\ supplier \in [Ingredients -> Suppliers \cup {"none", "absent"}]
  /\ suppliers \subseteq Suppliers
  /\ form \in [Managers -> StockForms]
  /\ sale \in [Sales -> [at : {"unpaid", "taking", "failed"}, left : SUBSET Ingredients]]
  /\ lost \in [Ingredients -> BOOLEAN]

ChangesAreOfKept ==
  /\ \A m \in Managers : form[m] # NoForm => Kept(form[m].on)
  /\ \A s \in Sales :
       /\ \A i \in sale[s].left : Kept(i)
       /\ sale[s].at = "unpaid" => sale[s].left = {}

StockInv == StockTypeOK /\ ChangesAreOfKept /\ StockIsAccounted
=============================================================================
