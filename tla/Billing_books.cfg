\* Refund requests and decisions racing each other, or the invoices of two orders
\* created at once.
SPECIFICATION BillingSpec
CONSTANTS
  OrderIds = {o1, o2}
  TableIds = {t1}
  MenuItems = {dish}
  Batches = {b1}
  Requests = {}
  Handlers = {h1, h2}
  InvoiceIds = {i1, i2}
  RefundIds = {f1, f2}
  w1 = w1
  cook = cook
  boss = boss
  owner = owner
  till = till
  Users = {w1, cook, boss, owner}
  Role <- MCRole
  TableEdits = {}
  Nobody = Nobody
  Amounts = {4, 9}
  Price <- MCPrice
  TaxPercent = 13
  Discounts = {0, 5, 10}
  Ingredients = {}
  Recipe <- MCRecipe
  InitialStock = 0
  PayAtTill = TRUE
CONSTRAINT OneAccount
SYMMETRY Symmetric
INVARIANTS
  RefundsAreOfPaid
  FourEyes
  ReversalWasDecided
  LedgerInv
  NumbersAreSequential
PROPERTIES
  ImplementsLedger
