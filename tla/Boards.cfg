\* A page of two orders, for each role and each choice of own orders, with two
\* presses and one list in flight: enough to press one order while the other's
\* button is held back, and to have two requests read before either writes.
SPECIFICATION BoardsSpec
CONSTANTS
  Tickets = {o1, o2}
  Presses = {k1, k2}
  MaxReplies = 1
  NoTicket = NoTicket
SYMMETRY Symmetric
PROPERTIES
  ButtonsKeepTheirWord
\* Nothing stops here: orders move on, and pages can be opened again.
