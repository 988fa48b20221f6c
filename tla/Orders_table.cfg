\* Finding: a table is freed under guests who are still being served; one request at a time.
SPECIFICATION Spec
CONSTANTS
  OrderIds = {o1, o2}
  TableIds = {t1}
  MenuItems = {dish}
  Batches = {b1, b2}
  Requests = {r1}
  w1 = w1
  w2 = w2
  cook = cook
  boss = boss
  till = till
  Users = {w1, cook}
  Role <- MCRole
  TableEdits = {}
  Nobody = Nobody
SYMMETRY Symmetric
INVARIANTS
  TableHeldUntilPaid
