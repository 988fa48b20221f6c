\* Settlement by the till and by Stripe, racing the waiter, from the placing on.
SPECIFICATION BillingSpec
CONSTANTS
  OrderIds = {o1}
  TableIds = {t1}
  MenuItems = {dish}
  Batches = {b1}
  Requests = {r1}
  Handlers = {h1, h2}
  InvoiceIds = {i1}
  RefundIds = {}
  w1 = w1
  cook = cook
  boss = boss
  owner = owner
  till = till
  Users = {w1, cook, till}
  Role <- MCRole
  TableEdits = {}
  Nobody = Nobody
  Amounts = {9}
  Price <- MCPrice
  TaxPercent = 13
  Discounts = {0}
  Ingredients = {}
  Recipe <- MCRecipe
  InitialStock = 0
  PayAtTill = TRUE
SYMMETRY Symmetric
INVARIANTS
  BTypeOK
  InvoicedWasCooked
  BilledIsExplained
  PaidStaysPaid
  ChargeIsKept
  HouseInv

