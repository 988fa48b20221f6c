\* Finding: two deliveries of one Stripe event take the stock twice.
SPECIFICATION BillingSpec
CONSTANTS
  OrderIds = {o1}
  TableIds = {t1}
  MenuItems = {dish}
  Batches = {b1}
  Requests = {}
  Handlers = {h1, h2}
  InvoiceIds = {i1}
  RefundIds = {}
  w1 = w1
  cook = cook
  boss = boss
  owner = owner
  till = till
  Users = {w1, cook, till}
  Role <- MCRole
  TableEdits = {}
  Nobody = Nobody
  Amounts = {9}
  Price <- MCPrice
  TaxPercent = 13
  Discounts = {0}
  Ingredients = {rice}
  Recipe <- MCRecipe
  InitialStock = 0
  PayAtTill = FALSE
SYMMETRY Symmetric
INVARIANTS
  StockTakenOnce

