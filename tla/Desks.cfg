\* One account behind one address, two logins; three passwords, two reset tokens, two
\* requests; two persons, two administrators' requests; two tills and two orders; a
\* ticket of two dishes and one of a screen that was left; a log of two filters and
\* two pages; two invoices over two days.
SPECIFICATION DesksSpec
CONSTANTS
  Accounts = {u}
  Addresses = {ip}
  Logins = {l1, l2}
  MaxFailed = 2
  BlockAfter = 2
  CountBound = 4
  Values = {v1, v2, v3}
  Tokens = {t1, t2}
  Changers = {c1, c2}
  HistoryLimit = 2
  People = {p1, p2}
  Jobs = {j1, j2}
  Tills = {p1, p2}
  Bills = {o1, o2}
  None = None
  Dishes = {d1, d2}
  Places = {t1}
  NoPlace = NoPlace
  MaxQuantity = 2
  MaxPlaced = 2
  MaxStrays = 1
  Filters = {f1, f2}
  MaxPages = 2
  MaxLoads = 3
  NoLogs = NoLogs
  Invoices = {b1, b2}
  Amounts = {1, 2}
  Methods = {"CASH", "CARD", "STRIPE"}
  HoursPerDay = 3
  LastDay = 2
  Zones <- MCZones
INVARIANTS
  LockMatchesCount CountsExpire
  SpentTokenIsClosed RecentIsDistinct
  AdminsRemain
  PanelIsAboutItsOrder PaidOnce
  TicketPlacedOnce
  ListIsCurrent
  ReportsAddUp
\* An administrator-less house and an account without a free password may stop.
CHECK_DEADLOCK FALSE
