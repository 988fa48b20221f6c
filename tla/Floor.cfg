\* Two tables, two numbers and one too large for the column, a waiter, two rows
\* and two requests; two ingredients, two sales and one manager at the stock; two
\* dishes, one picture and two managers at the menu.
SPECIFICATION FloorSpec
CONSTANTS
  flour = flour
  oil = oil
  x1 = x1
  x2 = x2
  Tables = {t1, t2}
  Numbers = {1, 2}
  Unfit = {3}
  Waiters = {w1}
  Ids = {a1, a2}
  Askers = {q1, q2}
  Ingredients = {flour, oil}
  Suppliers = {s1}
  Managers = {m1}
  Sales = {x1, x2}
  Uses <- MCUses
  Quantities = {0, 1}
  Adjustments <- MCAdjustments
  Items = {i1, i2}
  Categories = {c1}
  Names = {n1}
  Images = {g1}
  Callers = {p1, p2}
  Pages = {p1}
SYMMETRY Symmetric
INVARIANTS
  OneWaiterPerTable InternalErrorsAreRaces
  StockIsAccounted
  PicturesAreNotShared MenuErrorsAreRaces
\* Every row may be taken or used, and every request answered.
CHECK_DEADLOCK FALSE
