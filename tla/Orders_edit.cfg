\* Two item edits racing, with a cancel, a manager and the kitchen's switch.
SPECIFICATION Spec
CONSTANTS
  OrderIds = {o1}
  TableIds = {t1}
  MenuItems = {dish}
  Batches = {b1, b2, b3}
  Requests = {r1, r2}
  w1 = w1
  w2 = w2
  cook = cook
  boss = boss
  till = till
  Users = {w1, w2, boss}
  Role <- MCRole
  TableEdits = {"RESERVED"}
  Nobody = Nobody
SYMMETRY Symmetric
INVARIANTS
  IInv
  OrderNeverEmpty
