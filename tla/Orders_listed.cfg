\* Finding: a status is left by a transition that is not listed.
SPECIFICATION Spec
CONSTANTS
  OrderIds = {o1}
  TableIds = {t1}
  MenuItems = {dish}
  Batches = {b1}
  Requests = {r1, r2}
  w1 = w1
  w2 = w2
  cook = cook
  boss = boss
  till = till
  Users = {w1}
  Role <- MCRole
  TableEdits = {}
  Nobody = Nobody
SYMMETRY Symmetric
PROPERTIES
  OnlyListedTransitions
