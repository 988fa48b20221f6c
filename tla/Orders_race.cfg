\* Two status changes racing over the whole life of one order.
SPECIFICATION Spec
CONSTANTS
  OrderIds = {o1}
  TableIds = {t1}
  MenuItems = {dish}
  Batches = {b1}
  Requests = {r1, r2}
  w1 = w1
  w2 = w2
  cook = cook
  boss = boss
  till = till
  Users = {w1, cook, till}
  Role <- MCRole
  TableEdits = {}
  Nobody = Nobody
SYMMETRY Symmetric
INVARIANTS
  TypeOK
  HistoryIsEarned
  StatusIsRecorded
  CookedBeforeServed
  AuditIsTrue
PROPERTIES
  ImplementsPipeline
