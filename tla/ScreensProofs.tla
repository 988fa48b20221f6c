---------------------------- MODULE ScreensProofs ----------------------------
(***************************************************************************)
(* Proofs about the screens: the billing page's panel (Till), the ticket   *)
(* of a new order (Cart), the audit log (AuditPage) and the buttons of the *)
(* order list and the kitchen queue (Boards), for any number of browsers,  *)
(* orders, presses and answers on their way; about the sales report, for   *)
(* any invoices and any zone; and about the desks as a whole, whose every  *)
(* behaviour is one of each of their screens and accounts.                 *)
(***************************************************************************)
EXTENDS Desks, Boards, AccountsProofs, SumTheorems

-----------------------------------------------------------------------------
\* The ticket

LEMMA NothingMade ==
  ASSUME placed = 0, leaving \in BOOLEAN, doubted \in BOOLEAN
  PROVE  MadeIsKnown /\ placed <= 1
<1>1. placed \in Nat /\ ~ (placed > 0) /\ placed <= 1
  OBVIOUS
<1> QED
  BY <1>1 DEF MadeIsKnown

LEMMA CartStarts == CartInit => CartInv
<1>1. CartInit => placed = 0 /\ leaving \in BOOLEAN /\ doubted \in BOOLEAN /\ strays = {}
  BY DEF CartInit
<1> QED
  BY <1>1, NothingMade DEF CartInv, TicketPlacedOnce

LEMMA CartKeeps == CartInv /\ [CartNext]_cartVars => CartInv'
<1> SUFFICES ASSUME CartInv, [CartNext]_cartVars PROVE CartInv'
  OBVIOUS
<1> USE DEF CartInv, MadeIsKnown, TicketPlacedOnce
<1>1. CASE HandlePlaceOrder
  <2>1. /\ placing = NoOrder /\ UNCHANGED <<leaving, placed, strays>>
        /\ doubted' = (doubted \/ (leaving /\ placed > 0))
    BY <1>1 DEF HandlePlaceOrder, PlaceEnabled
  <2>2. doubted' \in BOOLEAN /\ (placed > 0 => doubted')
    BY <2>1
  <2> QED
    BY <2>1, <2>2
<1>2. CASE CreateOrder
  <2>1. placing # NoOrder /\ placing' = NoOrder /\ strays' = strays
    BY <1>2 DEF CreateOrder, NoOrder
  <2>2. \/ UNCHANGED <<placed, leaving, doubted>>
        \/ placed' = placed + 1 /\ leaving' = TRUE /\ doubted' = doubted
        \/ placed' = placed + 1 /\ doubted' = TRUE /\ leaving' = leaving
    BY <1>2 DEF CreateOrder
  <2>3. leaving' \in BOOLEAN /\ doubted' \in BOOLEAN
    BY <2>2, Zenon
  <2>4. placed' > 0 => leaving' \/ doubted'
    BY <2>1, <2>2
  <2>5. placed' \in Nat
    BY <2>2
  <2>6. placed' <= 1 \/ doubted'
    <3>1. placed > 0 => doubted
      BY <2>1
    <3> QED
      BY <2>2, <3>1
  <2> QED
    BY <2>1, <2>3, <2>4, <2>5, <2>6
<1>3. CASE LeaveScreen
  <2> DEFINE s == [order |-> placing, placed |-> placed, doubted |-> doubted]
  <2>1. /\ placed' = 0 /\ leaving' = FALSE /\ doubted' = FALSE
        /\ strays' = IF placing = NoOrder THEN strays ELSE strays \cup {s}
    BY <1>3 DEF LeaveScreen
  <2>2. placed' \in Nat /\ ~ (placed' > 0) /\ placed' <= 1
    BY <2>1
  <2>3. placing # NoOrder => s.placed = 0 \/ s.doubted
    OBVIOUS
  <2> HIDE DEF s
  <2>4. \A r \in strays' : r.placed = 0 \/ r.doubted
    BY <2>1, <2>3
  <2>5. leaving' \in BOOLEAN /\ doubted' \in BOOLEAN
    BY <2>1
  <2> QED
    BY <2>2, <2>4, <2>5
<1>4. ASSUME NEW s \in strays, AnswerStray(s) PROVE CartInv'
  <2>1. /\ strays' \subseteq strays
        /\ leaving' = TRUE \/ leaving' = leaving
        /\ UNCHANGED <<placing, placed, doubted>>
    BY <1>4 DEF AnswerStray
  <2>2. leaving' \in BOOLEAN /\ (leaving => leaving')
    <3>1. leaving \in BOOLEAN
      OBVIOUS
    <3>2. CASE leaving' = TRUE
      BY <3>2
    <3>3. CASE leaving' = leaving
      BY <3>1, <3>3
    <3> QED
      BY <2>1, <3>2, <3>3
  <2>3. MadeIsKnown'
    BY <2>1, <2>2, Zenon
  <2>4. TicketPlacedOnce'
    BY <2>1, Zenon
  <2> QED
    BY <2>3, <2>4
<1>5. CASE UNCHANGED <<placing, leaving, placed, doubted, strays>>
  BY <1>5
<1> QED
  BY <1>1, <1>2, <1>3, <1>4, <1>5
  DEF CartNext, cartVars, ticketVars, OfferChanges, LoadData, AddOrIncrementItem, DecrementItem,
      RemoveLine, SelectTable

\* However often Place is pressed, one ticket is one order, but for a lost
\* answer or a press while the screen is being left.
THEOREM OneTicketOneOrder == CartSpec => []TicketPlacedOnce
<1>1. CartInv => TicketPlacedOnce
  BY DEF CartInv
<1> QED
  BY <1>1, CartStarts, CartKeeps, PTL DEF CartSpec

-----------------------------------------------------------------------------
\* The till.  A panel's row changes in one field or two; what the three parts of
\* the invariant read of it is said once, in Panels.

Panels == [panel : Bills \cup {None}, secret : Bills \cup {None},
           succeeded : BOOLEAN, strayed : BOOLEAN, submission : Submissions]

LEMMA TillStarts == TillInit => TillInv
<1> SUFFICES ASSUME TillInit PROVE TillInv
  OBVIOUS
<1>1. \A p \in Tills : till[p] = NoPanel(NoSubmission)
  BY DEF TillInit
<1>2. NoPanel(NoSubmission) \in Panels
  BY DEF NoPanel, Panels, Submissions
<1>3. TillTypeOK
  BY <1>2 DEF TillInit, TillTypeOK, Panels
<1>4. OneWay
  BY <1>1, TillAssumption
  DEF TillInit, OneWay, ByCard, ByCash, NoPanel, At, OrderOf, NoSubmission
<1>5. PanelIsAboutItsOrder
  BY <1>1 DEF PanelIsAboutItsOrder, NoPanel
<1> QED
  BY <1>3, <1>4, <1>5 DEF TillInv

\* A step that touches no invoice and no money and whose till goes on with no
\* more than it had.
LEMMA PanelStepKeeps ==
  ASSUME TillInv, NEW p \in Tills, NEW row \in Panels,
         till' = [till EXCEPT ![p] = row],
         UNCHANGED <<invoice, charged, inCash, paying>>,
         row.secret \in {None, till[p].secret},
         \/ row.submission = till[p].submission
         \/ row.submission.at \notin {"createPaymentIntent", "confirmPayment"},
         row.panel # None /\ ~ row.strayed =>
           /\ row.secret \in {None, row.panel}
           /\ row.succeeded => row.panel \in charged
  PROVE  TillInv'
<1> USE DEF TillInv
<1>1. TillTypeOK'
  BY DEF TillTypeOK, Panels
<1>2. \A q \in Tills : till'[q] = IF q = p THEN row ELSE till[q]
  BY DEF TillTypeOK
<1>3. ASSUME NEW o \in Bills
      PROVE  (ByCard(o)' => ByCard(o)) /\ (ByCash(o)' => ByCash(o))
  BY <1>2, TillAssumption DEF ByCard, ByCash, At, OrderOf
<1>4. OneWay'
  BY <1>3 DEF OneWay
<1>5. PanelIsAboutItsOrder'
  BY <1>2 DEF PanelIsAboutItsOrder
<1> QED
  BY <1>1, <1>4, <1>5

LEMMA TillFields ==
  ASSUME TillTypeOK, NEW p \in Tills
  PROVE  /\ till[p] \in Panels
         /\ till[p].submission.at \in {"createInvoice", "confirmPayment", "createPaymentIntent"} =>
              OrderOf(p) \in Bills /\ till[p].submission.method \in PAYMENT_METHODS
BY DEF TillTypeOK, Panels, Submissions, NoSubmission, OrderOf

\* The first call decides the way: the order had no invoice, so nothing is on
\* its way to a charge or a confirmation for it.
LEMMA InvoiceMade ==
  ASSUME TillInv, NEW p \in Tills, NEW o \in Bills, NEW row \in Panels,
         At(p, "createInvoice"), OrderOf(p) = o, invoice[o] = "none",
         invoice' = [invoice EXCEPT ![o] = "UNPAID"],
         till' = [till EXCEPT ![p] = row],
         UNCHANGED <<charged, inCash, paying>>,
         row.panel = till[p].panel, row.secret = till[p].secret,
         row.succeeded = till[p].succeeded, row.strayed = till[p].strayed,
         row.submission.at = "idle" \/ row.submission.order = o
  PROVE  TillInv'
<1> USE DEF TillInv
<1>1. TillTypeOK'
  BY DEF TillTypeOK, Panels
<1>2. \A q \in Tills : till'[q] = IF q = p THEN row ELSE till[q]
  BY DEF TillTypeOK
<1>3. ~ ByCard(o) /\ ~ ByCash(o)
  BY DEF OneWay
<1>4. ASSUME NEW b \in Bills, b # o
      PROVE  (ByCard(b)' => ByCard(b)) /\ (ByCash(b)' => ByCash(b)) /\ invoice'[b] = invoice[b]
  BY <1>2, <1>4 DEF ByCard, ByCash, At, OrderOf, TillTypeOK
<1>5. ByCard(o)' => row.submission.at = "createPaymentIntent"
  BY <1>2, <1>3 DEF ByCard, At, OrderOf
<1>6. ByCash(o)' => row.submission.at = "confirmPayment"
  BY <1>2, <1>3 DEF ByCash, At, OrderOf
<1>7. invoice'[o] = "UNPAID"
  BY DEF TillTypeOK
<1>8. OneWay'
  <2> SUFFICES ASSUME NEW b \in Bills
               PROVE  /\ ~ (ByCard(b)' /\ ByCash(b)')
                      /\ ByCard(b)' \/ ByCash(b)' => invoice'[b] # "none"
    BY DEF OneWay
  <2>1. CASE b = o
    BY <1>5, <1>6, <1>7, <2>1
  <2>2. CASE b # o
    BY <1>4, <2>2 DEF OneWay
  <2> QED
    BY <2>1, <2>2
<1>9. PanelIsAboutItsOrder'
  BY <1>2 DEF PanelIsAboutItsOrder
<1> QED
  BY <1>1, <1>8, <1>9

\* Cash is confirmed by the submission that was on its way to do so.
LEMMA CashConfirmed ==
  ASSUME TillInv, NEW p \in Tills, NEW o \in Bills, NEW row \in Panels,
         At(p, "confirmPayment"), OrderOf(p) = o,
         invoice' = [invoice EXCEPT ![o] = "PAID"],
         inCash' = inCash \cup {o},
         till' = [till EXCEPT ![p] = row],
         UNCHANGED <<charged, paying>>,
         row.submission.at = "idle",
         \/ row.panel = None /\ row.secret = None
         \/ row.panel = till[p].panel /\ row.secret = till[p].secret
            /\ row.succeeded = till[p].succeeded /\ row.strayed = till[p].strayed
  PROVE  TillInv'
<1> USE DEF TillInv
<1>1. TillTypeOK'
  BY DEF TillTypeOK, Panels
<1>2. \A q \in Tills : till'[q] = IF q = p THEN row ELSE till[q]
  BY DEF TillTypeOK
<1>3. ByCash(o) /\ ~ ByCard(o)
  BY DEF ByCash, OneWay
<1>4. ASSUME NEW b \in Bills
      PROVE  (ByCard(b)' => ByCard(b)) /\ (ByCash(b)' => ByCash(b))
  <2>1. ByCard(b)' => ByCard(b)
    BY <1>2, TillAssumption DEF ByCard, At, OrderOf
  <2>2. ByCash(b)' => ByCash(b)
    <3>1. CASE b = o
      BY <1>3, <3>1
    <3>2. CASE b # o
      BY <1>2, <3>2 DEF ByCash, At, OrderOf
    <3> QED
      BY <3>1, <3>2
  <2> QED
    BY <2>1, <2>2
<1>5. ASSUME NEW b \in Bills
      PROVE  invoice'[b] = IF b = o THEN "PAID" ELSE invoice[b]
  BY DEF TillTypeOK
<1>6. OneWay'
  BY <1>4, <1>5 DEF OneWay
<1>7. PanelIsAboutItsOrder'
  BY <1>2 DEF PanelIsAboutItsOrder
<1> QED
  BY <1>1, <1>6, <1>7

\* A secret comes from the submission that was on its way to ask for it.
LEMMA IntentKeeps ==
  ASSUME TillInv, NEW p \in Tills, CreatePaymentIntent(p)
  PROVE  TillInv'
<1> USE DEF TillInv
<1> DEFINE o == OrderOf(p)
           unpaid == invoice[o] = "UNPAID"
           row == [till[p] EXCEPT
                     !.submission = NoSubmission,
                     !.secret = IF unpaid THEN o ELSE @,
                     !.strayed = @ \/ (unpaid /\ till[p].panel # o)]
<1>1. /\ At(p, "createPaymentIntent")
      /\ till' = [till EXCEPT ![p] = row]
      /\ UNCHANGED <<invoice, charged, inCash, paying>>
  BY DEF CreatePaymentIntent
<1>2. o \in Bills /\ till[p] \in Panels
  BY <1>1, TillFields DEF At
<1>3. row \in Panels
  BY <1>2 DEF Panels, Submissions
<1>4. /\ row.submission = NoSubmission /\ row.panel = till[p].panel
      /\ row.succeeded = till[p].succeeded
      /\ row.secret = IF unpaid THEN o ELSE till[p].secret
      /\ ~ row.strayed => ~ till[p].strayed /\ (unpaid => till[p].panel = o)
  BY <1>2 DEF Panels
<1>5. ByCard(o)
  BY <1>1 DEF ByCard
<1> HIDE DEF row, unpaid, o
<1>6. TillTypeOK'
  BY <1>1, <1>3 DEF TillTypeOK, Panels
<1>7. \A q \in Tills : till'[q] = IF q = p THEN row ELSE till[q]
  BY <1>1 DEF TillTypeOK
<1>8. ASSUME NEW b \in Bills
      PROVE  (ByCard(b)' => ByCard(b)) /\ (ByCash(b)' => ByCash(b))
  <2>1. ByCard(b)' => ByCard(b)
    <3>1. CASE b = o
      BY <1>5, <3>1
    <3>2. CASE b # o
      BY <1>1, <1>4, <1>7, <3>2 DEF ByCard, At, OrderOf, NoSubmission
    <3> QED
      BY <3>1, <3>2
  <2>2. ByCash(b)' => ByCash(b)
    BY <1>1, <1>4, <1>7 DEF ByCash, At, OrderOf, NoSubmission
  <2> QED
    BY <2>1, <2>2
<1>9. OneWay'
  BY <1>1, <1>8 DEF OneWay
<1>10. PanelIsAboutItsOrder'
  BY <1>1, <1>4, <1>7 DEF PanelIsAboutItsOrder
<1> QED
  BY <1>6, <1>9, <1>10

\* A charge comes from a card form, and a card form from a secret.
LEMMA ChargeKeeps ==
  ASSUME TillInv, NEW p \in Tills, NEW o \in Bills,
         <<p, o>> \in paying, NEW row \in Panels,
         paying' \subseteq paying, charged' \in {charged, charged \cup {o}},
         till' = [till EXCEPT ![p] = row], UNCHANGED <<invoice, inCash>>,
         row.panel = till[p].panel, row.secret = till[p].secret,
         row.submission = till[p].submission,
         ~ row.strayed => ~ till[p].strayed /\ (row.succeeded /\ ~ till[p].succeeded => row.panel = o),
         row.succeeded /\ ~ till[p].succeeded => o \in charged'
  PROVE  TillInv'
<1> USE DEF TillInv
<1>1. TillTypeOK'
  BY DEF TillTypeOK, Panels
<1>2. \A q \in Tills : till'[q] = IF q = p THEN row ELSE till[q]
  BY DEF TillTypeOK
<1>3. ByCard(o)
  BY DEF ByCard
<1>4. ASSUME NEW b \in Bills
      PROVE  (ByCard(b)' => ByCard(b)) /\ (ByCash(b)' => ByCash(b))
  <2>1. ByCard(b)' => ByCard(b)
    <3>1. CASE b = o
      BY <1>3, <3>1
    <3>2. CASE b # o
      BY <1>2, <3>2 DEF ByCard, At, OrderOf
    <3> QED
      BY <3>1, <3>2
  <2>2. ByCash(b)' => ByCash(b)
    BY <1>2 DEF ByCash, At, OrderOf
  <2> QED
    BY <2>1, <2>2
<1>5. OneWay'
  BY <1>4 DEF OneWay
<1>6. PanelIsAboutItsOrder'
  BY <1>2 DEF PanelIsAboutItsOrder
<1> QED
  BY <1>1, <1>5, <1>6

\* What each action of a till amounts to.

LEMMA SubmitKeeps ==
  ASSUME TillInv, NEW p \in Tills, NEW method \in PAYMENT_METHODS, HandlePanelSubmit(p, method)
  PROVE  TillInv'
<1> DEFINE row == [till[p] EXCEPT !.submission =
                     [at |-> "createInvoice", order |-> till[p].panel, method |-> method]]
<1>1. till[p].panel # None /\ till' = [till EXCEPT ![p] = row]
      /\ UNCHANGED <<invoice, charged, inCash, paying>>
  BY DEF HandlePanelSubmit, InvoiceFormReady
<1>2. till[p] \in Panels
  BY TillFields DEF TillInv
<1>3. row \in Panels
  BY <1>1, <1>2 DEF Panels, Submissions
<1>4. /\ row.panel = till[p].panel /\ row.secret = till[p].secret
      /\ row.succeeded = till[p].succeeded /\ row.strayed = till[p].strayed
      /\ row.submission.at = "createInvoice"
  BY <1>2 DEF Panels
<1> HIDE DEF row
<1> QED
  BY <1>1, <1>3, <1>4, PanelStepKeeps DEF TillInv, PanelIsAboutItsOrder

\* A submission that ends, with nothing else done.
LEMMA GivesUp ==
  ASSUME TillInv, NEW p \in Tills,
         till' = [till EXCEPT ![p].submission = NoSubmission],
         UNCHANGED <<invoice, charged, inCash, paying>>
  PROVE  TillInv'
<1> DEFINE row == [till[p] EXCEPT !.submission = NoSubmission]
<1>1. till[p] \in Panels
  BY TillFields DEF TillInv
<1>2. row \in Panels
  BY <1>1 DEF Panels, Submissions
<1>3. /\ row.panel = till[p].panel /\ row.secret = till[p].secret
      /\ row.succeeded = till[p].succeeded /\ row.strayed = till[p].strayed
      /\ row.submission.at = "idle"
  BY <1>1 DEF Panels, NoSubmission
<1>4. till' = [till EXCEPT ![p] = row]
  OBVIOUS
<1>5. till[p].panel # None /\ ~ till[p].strayed =>
        /\ till[p].secret \in {None, till[p].panel}
        /\ till[p].succeeded => till[p].panel \in charged
  BY DEF TillInv, PanelIsAboutItsOrder
<1> HIDE DEF row
<1> QED
  BY <1>2, <1>3, <1>4, <1>5, PanelStepKeeps

\* A panel that opens or closes holds nothing yet.
LEMMA OpenKeeps ==
  ASSUME TillInv, NEW p \in Tills, NEW o \in Bills, OpenInvoicePanel(p, o)
  PROVE  TillInv'
<1> DEFINE row == [NoPanel(till[p].submission) EXCEPT !.panel = o]
<1>1. till' = [till EXCEPT ![p] = row] /\ UNCHANGED <<invoice, charged, inCash, paying>>
  BY DEF OpenInvoicePanel
<1>2. till[p] \in Panels
  BY TillFields DEF TillInv
<1>3. row \in Panels
  BY <1>2 DEF Panels, NoPanel
<1>4. row.secret = None /\ row.succeeded = FALSE /\ row.submission = till[p].submission
  BY DEF NoPanel
<1> HIDE DEF row
<1> QED
  BY <1>1, <1>3, <1>4, PanelStepKeeps

LEMMA CloseKeeps == ASSUME TillInv, NEW p \in Tills, CloseInvoicePanel(p) PROVE TillInv'
<1> DEFINE row == NoPanel(till[p].submission)
<1>1. till' = [till EXCEPT ![p] = row] /\ UNCHANGED <<invoice, charged, inCash, paying>>
  BY DEF CloseInvoicePanel
<1>2. till[p] \in Panels
  BY TillFields DEF TillInv
<1>3. row \in Panels
  BY <1>2 DEF Panels, NoPanel
<1>4. row.secret = None /\ row.succeeded = FALSE /\ row.submission = till[p].submission
  BY DEF NoPanel
<1> HIDE DEF row
<1> QED
  BY <1>1, <1>3, <1>4, PanelStepKeeps

LEMMA CreateInvoiceKeeps == ASSUME TillInv, NEW p \in Tills, CreateInvoice(p) PROVE TillInv'
<1> DEFINE o == OrderOf(p)
           next == IF till[p].submission.method = "CASH"
                   THEN "confirmPayment" ELSE "createPaymentIntent"
           row == [till[p] EXCEPT !.submission.at = next]
<1>1. At(p, "createInvoice") /\ UNCHANGED <<charged, inCash, paying>>
  BY DEF CreateInvoice
<1>2. till[p] \in Panels /\ o \in Bills /\ till[p].submission.method \in PAYMENT_METHODS
  BY <1>1, TillFields DEF TillInv, At
<1>3. CASE invoice[o] # "none"
  BY <1>1, <1>3, GivesUp DEF CreateInvoice
<1>4. CASE invoice[o] = "none"
  <2>1. /\ invoice' = [invoice EXCEPT ![o] = "UNPAID"]
        /\ till' = [till EXCEPT ![p] = row]
    BY <1>4 DEF CreateInvoice
  <2>2. till[p].submission \in [at : {"createInvoice", "confirmPayment", "createPaymentIntent"},
                                order : Bills, method : PAYMENT_METHODS]
    BY <1>1, <1>2 DEF Panels, Submissions, NoSubmission, At
  <2>3. row \in Panels
    BY <1>2, <2>2 DEF Panels, Submissions
  <2>4. /\ row.panel = till[p].panel /\ row.secret = till[p].secret
        /\ row.succeeded = till[p].succeeded /\ row.strayed = till[p].strayed
        /\ row.submission.order = o
    BY <1>2, <2>2 DEF Panels, OrderOf
  <2>5. OrderOf(p) = o
    OBVIOUS
  <2> HIDE DEF row, o
  <2> QED
    BY <1>1, <1>2, <1>4, <2>1, <2>3, <2>4, <2>5, InvoiceMade
<1> QED
  BY <1>3, <1>4

LEMMA ConfirmKeeps == ASSUME TillInv, NEW p \in Tills, ConfirmPayment(p) PROVE TillInv'
<1> DEFINE o == OrderOf(p)
           row == NoPanel(NoSubmission)
<1>1. At(p, "confirmPayment") /\ UNCHANGED <<charged, paying>>
  BY DEF ConfirmPayment
<1>2. o \in Bills
  BY <1>1, TillFields DEF TillInv, At
<1>3. CASE invoice[o] # "UNPAID"
  BY <1>1, <1>3, GivesUp DEF ConfirmPayment
<1>4. CASE invoice[o] = "UNPAID"
  <2>1. /\ invoice' = [invoice EXCEPT ![o] = "PAID"] /\ inCash' = inCash \cup {o}
        /\ till' = [till EXCEPT ![p] = row]
    BY <1>4 DEF ConfirmPayment
  <2>2. row \in Panels /\ row.submission.at = "idle" /\ row.panel = None /\ row.secret = None
    BY DEF NoPanel, Panels, Submissions, NoSubmission
  <2>3. OrderOf(p) = o
    OBVIOUS
  <2> HIDE DEF row, o
  <2> QED
    BY <1>1, <1>2, <2>1, <2>2, <2>3, CashConfirmed
<1> QED
  BY <1>3, <1>4

LEMMA CallFailsKeeps == ASSUME TillInv, NEW p \in Tills, CallFails(p) PROVE TillInv'
<1> DEFINE o == OrderOf(p)
           row == [till[p] EXCEPT !.submission = NoSubmission]
<1>1. /\ till[p].submission.at # "idle"
      /\ till' = [till EXCEPT ![p].submission = NoSubmission]
      /\ till' = [till EXCEPT ![p] = row]
      /\ UNCHANGED <<charged, paying>>
  BY DEF CallFails
<1>2. till[p] \in Panels
  BY TillFields DEF TillInv
<1>3. row \in Panels
  BY <1>2 DEF Panels, Submissions
<1>4. /\ row.panel = till[p].panel /\ row.secret = till[p].secret
      /\ row.succeeded = till[p].succeeded /\ row.strayed = till[p].strayed
      /\ row.submission.at = "idle"
  BY <1>2 DEF Panels, NoSubmission
<1>5. CASE UNCHANGED <<invoice, inCash>>
  BY <1>1, <1>5, GivesUp
<1>6. CASE /\ till[p].submission.at = "createInvoice" /\ invoice[o] = "none"
           /\ invoice' = [invoice EXCEPT ![o] = "UNPAID"] /\ UNCHANGED inCash
  <2>1. At(p, "createInvoice") /\ o \in Bills /\ OrderOf(p) = o
    BY <1>6, TillFields DEF TillInv, At
  <2> HIDE DEF row, o
  <2> QED
    BY <1>1, <1>3, <1>4, <1>6, <2>1, InvoiceMade
<1>7. CASE /\ till[p].submission.at = "confirmPayment" /\ invoice[o] = "UNPAID"
           /\ invoice' = [invoice EXCEPT ![o] = "PAID"] /\ inCash' = inCash \cup {o}
  <2>1. At(p, "confirmPayment") /\ o \in Bills /\ OrderOf(p) = o
    BY <1>7, TillFields DEF TillInv, At
  <2> HIDE DEF row, o
  <2> QED
    BY <1>1, <1>3, <1>4, <1>7, <2>1, CashConfirmed
<1> QED
  BY <1>5, <1>6, <1>7 DEF CallFails

LEMMA EndKeeps ==
  ASSUME TillInv, NEW p \in Tills, NEW o \in Bills, EndCardPayment(p, o)
  PROVE  TillInv'
<1> DEFINE row == [till[p] EXCEPT !.succeeded = TRUE, !.strayed = @ \/ till[p].panel # o]
<1>1. /\ <<p, o>> \in paying /\ paying' \subseteq paying
      /\ UNCHANGED <<invoice, inCash>>
      /\ charged' \in {charged, charged \cup {o}}
  BY DEF EndCardPayment
<1>2. till[p] \in Panels
  BY TillFields DEF TillInv
<1>3. CASE UNCHANGED till
  <2>1. till' = [till EXCEPT ![p] = till[p]]
    BY <1>3 DEF TillInv, TillTypeOK
  <2> QED
    BY <1>1, <1>2, <2>1, ChargeKeeps
<1>4. CASE till' = [till EXCEPT ![p] = row] /\ charged' = charged \cup {o}
  <2>1. row \in Panels
    BY <1>2 DEF Panels
  <2>2. /\ row.panel = till[p].panel /\ row.secret = till[p].secret
        /\ row.submission = till[p].submission
        /\ ~ row.strayed => ~ till[p].strayed /\ till[p].panel = o
    BY <1>2 DEF Panels
  <2> HIDE DEF row
  <2> QED
    BY <1>1, <1>4, <2>1, <2>2, ChargeKeeps
<1> QED
  BY <1>3, <1>4 DEF EndCardPayment

LEMMA StartKeepsTill == ASSUME TillInv, NEW p \in Tills, StartCardPayment(p) PROVE TillInv'
<1> USE DEF TillInv
<1>1. /\ till[p].secret # None /\ paying' = paying \cup {<<p, till[p].secret>>}
      /\ UNCHANGED <<invoice, charged, inCash, till>>
  BY DEF StartCardPayment, CardFormShown
<1>2. till[p].secret \in Bills
  BY <1>1, TillFields DEF Panels
<1>3. TillTypeOK'
  BY <1>1, <1>2 DEF TillTypeOK
<1>4. \A o \in Bills : (ByCard(o)' => ByCard(o)) /\ (ByCash(o)' => ByCash(o))
  BY <1>1 DEF ByCard, ByCash, At, OrderOf
<1>5. OneWay'
  BY <1>1, <1>4 DEF OneWay
<1>6. PanelIsAboutItsOrder'
  BY <1>1 DEF PanelIsAboutItsOrder
<1> QED
  BY <1>3, <1>5, <1>6

LEMMA WebhookKeeps == ASSUME TillInv, NEW o \in Bills, Webhook(o) PROVE TillInv'
<1> USE DEF TillInv
<1>1. /\ invoice' = [invoice EXCEPT ![o] = "PAID"]
      /\ UNCHANGED <<charged, inCash, till, paying>>
  BY DEF Webhook
<1>2. TillTypeOK'
  BY <1>1 DEF TillTypeOK
<1>3. \A b \in Bills : (ByCard(b)' <=> ByCard(b)) /\ (ByCash(b)' <=> ByCash(b))
  BY <1>1 DEF ByCard, ByCash, At, OrderOf
<1>4. \A b \in Bills : invoice[b] # "none" => invoice'[b] # "none"
  BY <1>1 DEF TillTypeOK
<1>5. OneWay'
  BY <1>3, <1>4 DEF OneWay
<1>6. PanelIsAboutItsOrder'
  BY <1>1 DEF PanelIsAboutItsOrder
<1> QED
  BY <1>2, <1>5, <1>6

LEMMA TillKeeps == TillInv /\ [TillNext]_tillVars => TillInv'
<1> SUFFICES ASSUME TillInv, [TillNext]_tillVars PROVE TillInv'
  OBVIOUS
<1>1. ASSUME NEW p \in Tills, HandleFinalizeCardPayment(p) PROVE TillInv'
  BY <1>1, CloseKeeps DEF HandleFinalizeCardPayment
<1>2. CASE UNCHANGED tillVars
  BY <1>2 DEF tillVars, TillInv, TillTypeOK, OneWay, ByCard, ByCash, At, OrderOf,
              PanelIsAboutItsOrder
<1> QED
  BY <1>1, <1>2, OpenKeeps, CloseKeeps, SubmitKeeps, CreateInvoiceKeeps, ConfirmKeeps, IntentKeeps,
     CallFailsKeeps, StartKeepsTill, EndKeeps, WebhookKeeps DEF TillNext

\* No guest pays twice, whatever the tills, Stripe and the network do.
THEOREM NobodyPaysTwice == TillSpec => []PaidOnce
<1>1. TillInv => PaidOnce
  BY DEF TillInv, TillTypeOK, OneWay, ByCard, ByCash, PaidOnce
<1> QED
  BY <1>1, TillStarts, TillKeeps, PTL DEF TillSpec

\* A panel speaks of its own order, but for answers that strayed into it.
THEOREM PanelsKeepApart == TillSpec => []PanelIsAboutItsOrder
<1>1. TillInv => PanelIsAboutItsOrder
  BY DEF TillInv
<1> QED
  BY <1>1, TillStarts, TillKeeps, PTL DEF TillSpec

-----------------------------------------------------------------------------
\* The audit log

LEMMA IsSequence ==
  ASSUME NEW S, NEW n \in Nat, NEW f \in [1..n -> S]
  PROVE  f \in Seq(S) /\ Len(f) = n /\ DOMAIN f = 1..n
<1>1. f \in Seq(S)
  BY SeqDef
<1> QED
  BY <1>1, LenProperties

LEMMA AuditStarts == AuditPageInit => AuditPageInv
<1> SUFFICES ASSUME AuditPageInit PROVE AuditPageInv
  OBVIOUS
<1>1. /\ pagesOf = [f \in Filters |-> 0] /\ view \in Views /\ view.page = 1
      /\ view.filter \in Filters /\ loads = <<Asking(view)>>
      /\ logs = NoLogs /\ totalPages = 1
      /\ loadError = FALSE /\ hasty = FALSE /\ outrun = FALSE
  BY DEF AuditPageInit, Views
<1>2. /\ Asking(view) \in Requests /\ Asking(view).view = view
      /\ Asking(view).pages = 0 /\ Asking(view).overtaken = FALSE
  BY <1>1 DEF Asking, Requests
<1>3. loads \in Seq(Requests) /\ loads # <<>> /\ loads[Len(loads)] = Asking(view)
  BY <1>1, <1>2
<1>4. AuditPageTypeOK
  BY <1>1, <1>3 DEF AuditPageTypeOK
<1>5. InRange(pagesOf[view.filter]) /\ InRange(0)
  BY <1>1 DEF InRange, AtLeastOne
<1>6. Pending
  BY <1>2, <1>3, <1>5 DEF Pending
<1> QED
  BY <1>1, <1>4, <1>5, <1>6 DEF AuditPageInv, ViewIsAskedFor

\* A request for a page there is, or that was reached in haste, asked last.
LEMMA AskingKeeps ==
  ASSUME AuditPageInv, NEW v \in Views, LoadLogs(v), hasty' \in BOOLEAN,
         UNCHANGED <<pagesOf, logs, totalPages, outrun>>,
         v.page <= AtLeastOne(pagesOf[v.filter]) \/ hasty'
  PROVE  AuditPageInv'
<1> USE DEF AuditPageInv, AuditPageTypeOK
<1>1. view' = v /\ loads' = Append(loads, Asking(v)) /\ loadError' = FALSE
  BY DEF LoadLogs
<1>2. v.filter \in Filters /\ v.page \in Nat
  BY DEF Views
<1>3. /\ Asking(v) \in Requests
      /\ Asking(v).view = v /\ Asking(v).pages = pagesOf[v.filter] /\ Asking(v).overtaken = FALSE
  BY <1>2 DEF Asking, Requests
<1>4. /\ loads' \in Seq(Requests) /\ loads' # <<>> /\ loads'[Len(loads')] = Asking(v)
  BY <1>1, <1>3
<1>5. AuditPageTypeOK'
  BY <1>1, <1>4
<1>6. Pending'
  BY <1>1, <1>3, <1>4 DEF Pending, InRange
<1>7. InRange(pagesOf[view.filter])'
  BY <1>1 DEF InRange
<1>8. (logs # NoLogs => totalPages <= pagesOf[logs.filter])'
  BY DEF ViewIsAskedFor
<1> QED
  BY <1>5, <1>6, <1>7, <1>8 DEF ViewIsAskedFor

LEMMA FilterKeeps ==
  ASSUME AuditPageInv, NEW f \in Filters, ChangeFilter(f)
  PROVE  AuditPageInv'
<1> DEFINE v == [filter |-> f, page |-> 1]
<1>1. LoadLogs(v) /\ hasty' = FALSE /\ UNCHANGED <<pagesOf, logs, totalPages, outrun>>
  BY DEF ChangeFilter
<1>2. v \in Views /\ v.filter = f /\ v.page = 1 /\ pagesOf[f] \in Nat
  BY DEF Views, AuditPageInv, AuditPageTypeOK
<1>3. v.page <= AtLeastOne(pagesOf[v.filter])
  BY <1>2 DEF AtLeastOne
<1> HIDE DEF v
<1> QED
  BY <1>1, <1>2, <1>3, AskingKeeps

LEMMA NextKeeps == ASSUME AuditPageInv, NextPage PROVE AuditPageInv'
<1> DEFINE v == [view EXCEPT !.page = @ + 1]
<1>1. /\ logs # NoLogs /\ view.page < totalPages /\ LoadLogs(v)
      /\ hasty' = (hasty \/ logs.filter # view.filter)
      /\ UNCHANGED <<pagesOf, logs, totalPages, outrun>>
  BY DEF NextPage
<1>2. /\ view \in Views /\ view.page \in Nat /\ view.filter \in Filters /\ totalPages \in Nat
      /\ pagesOf[view.filter] \in Nat /\ hasty' \in BOOLEAN
  BY <1>1 DEF AuditPageInv, AuditPageTypeOK, Views
<1>3. v \in Views /\ v.filter = view.filter /\ v.page = view.page + 1
  BY <1>2 DEF Views
<1>4. ASSUME ~ hasty' PROVE v.page <= AtLeastOne(pagesOf[v.filter])
  <2>1. logs.filter = view.filter
    BY <1>1, <1>4
  <2>2. totalPages <= pagesOf[view.filter]
    BY <1>1, <2>1 DEF AuditPageInv, ViewIsAskedFor
  <2> QED
    BY <1>1, <1>2, <1>3, <2>2 DEF AtLeastOne
<1> HIDE DEF v
<1> QED
  BY <1>1, <1>2, <1>3, <1>4, AskingKeeps

LEMMA PreviousKeeps == ASSUME AuditPageInv, PreviousPage PROVE AuditPageInv'
<1> DEFINE v == [view EXCEPT !.page = @ - 1]
<1>1. /\ view.page > 1 /\ LoadLogs(v)
      /\ hasty' = (hasty /\ view.page > 2)
      /\ UNCHANGED <<pagesOf, logs, totalPages, outrun>>
  BY DEF PreviousPage
<1>2. /\ view \in Views /\ view.page \in Nat /\ view.filter \in Filters
      /\ pagesOf[view.filter] \in Nat /\ hasty' \in BOOLEAN
  BY <1>1 DEF AuditPageInv, AuditPageTypeOK, Views
<1>3. v \in Views /\ v.filter = view.filter /\ v.page = view.page - 1
  BY <1>1, <1>2 DEF Views
<1>4. ASSUME ~ hasty' PROVE v.page <= AtLeastOne(pagesOf[v.filter])
  <2>1. CASE view.page = 2
    BY <1>2, <1>3, <2>1 DEF AtLeastOne
  <2>2. CASE view.page # 2
    <3>1. view.page > 2
      BY <1>1, <1>2, <2>2
    <3>2. ~ hasty
      BY <1>1, <1>4, <3>1
    <3>3. view.page <= AtLeastOne(pagesOf[view.filter])
      BY <3>2 DEF AuditPageInv, ViewIsAskedFor, InRange
    <3> QED
      BY <1>1, <1>2, <1>3, <3>3 DEF AtLeastOne
  <2> QED
    BY <2>1, <2>2
<1> HIDE DEF v
<1> QED
  BY <1>1, <1>2, <1>3, <1>4, AskingKeeps

LEMMA LogKeeps ==
  ASSUME AuditPageInv, NEW f \in Filters, WriteLog(f)
  PROVE  AuditPageInv'
<1> USE DEF AuditPageInv, AuditPageTypeOK
<1>1. /\ pagesOf' = [pagesOf EXCEPT ![f] = @ + 1]
      /\ UNCHANGED <<view, logs, totalPages, loads, loadError, hasty, outrun>>
  BY DEF WriteLog
<1>2. AuditPageTypeOK'
  BY <1>1
<1>3. \A g \in Filters : pagesOf[g] \in Nat /\ pagesOf'[g] \in Nat /\ pagesOf[g] <= pagesOf'[g]
  BY <1>1
<1>4. view.filter \in Filters /\ view.page \in Nat /\ (logs # NoLogs => logs.filter \in Filters)
  BY DEF Views
<1>5. InRange(pagesOf[view.filter])'
  BY <1>1, <1>3, <1>4 DEF ViewIsAskedFor, InRange, AtLeastOne
<1>6. (logs # NoLogs => totalPages <= pagesOf[logs.filter])'
  BY <1>1, <1>3, <1>4 DEF ViewIsAskedFor
<1>7. (loadError \/ Pending \/ Answered)'
  BY <1>1 DEF ViewIsAskedFor, Pending, Answered, InRange
<1> QED
  BY <1>2, <1>5, <1>6, <1>7 DEF ViewIsAskedFor

\* What is left of the requests when the i-th is answered.
LEMMA WithoutShrinks ==
  ASSUME loads \in Seq(Requests), NEW i \in 1 .. Len(loads)
  PROVE  /\ Without(i) \in Seq(Requests) /\ Len(Without(i)) = Len(loads) - 1
         /\ \A k \in 1 .. Len(loads) - 1 :
              Without(i)[k] = IF k < i THEN [loads[k] EXCEPT !.overtaken = TRUE] ELSE loads[k + 1]
<1> DEFINE n == Len(loads) - 1
           f == [k \in 1..n |->
                   IF k < i THEN [loads[k] EXCEPT !.overtaken = TRUE] ELSE loads[k + 1]]
<1>1. Len(loads) \in Nat /\ n \in Nat
  BY LenProperties
<1>2. \A k \in 1..n : loads[k] \in Requests /\ loads[k + 1] \in Requests
  BY <1>1, ElementOfSeq
<1>3. \A k \in 1..n : [loads[k] EXCEPT !.overtaken = TRUE] \in Requests
  BY <1>2 DEF Requests
<1>4. f \in [1..n -> Requests]
  BY <1>2, <1>3
<1>5. Without(i) = f
  BY DEF Without
<1> HIDE DEF n
<1>6. f \in Seq(Requests) /\ Len(f) = n
  BY <1>1, <1>4, IsSequence
<1> QED
  BY <1>5, <1>6 DEF n

LEMMA ListShowKeeps ==
  ASSUME AuditPageInv, NEW i \in 1 .. Len(loads), ShowLogs(i)
  PROVE  AuditPageInv'
<1> USE DEF AuditPageInv, AuditPageTypeOK
<1> DEFINE r == loads[i]
<1>1. /\ logs' = r.view /\ totalPages' \in r.pages .. pagesOf[r.view.filter]
      /\ outrun' = r.overtaken /\ loads' = Without(i)
      /\ UNCHANGED <<pagesOf, view, loadError, hasty>>
  BY DEF ShowLogs
<1>2. Len(loads) \in Nat /\ r \in Requests
  BY LenProperties, ElementOfSeq
<1>3. /\ r.view \in Views /\ r.view.filter \in Filters /\ r.pages \in Nat /\ r.overtaken \in BOOLEAN
      /\ pagesOf[r.view.filter] \in Nat /\ view.page \in Nat
  BY <1>2 DEF Requests, Views
<1> HIDE DEF r
<1>4. totalPages' \in Nat /\ r.pages <= totalPages' /\ totalPages' <= pagesOf[r.view.filter]
  BY <1>1, <1>3
<1>5. /\ loads' \in Seq(Requests) /\ Len(loads') = Len(loads) - 1
      /\ \A k \in 1 .. Len(loads) - 1 :
           loads'[k] = IF k < i THEN [loads[k] EXCEPT !.overtaken = TRUE] ELSE loads[k + 1]
  BY <1>1, WithoutShrinks
<1>6. AuditPageTypeOK'
  BY <1>1, <1>3, <1>4, <1>5
<1>7. (logs # NoLogs => totalPages <= pagesOf[logs.filter])'
  BY <1>1, <1>4
<1>8. InRange(pagesOf[view.filter])'
  BY <1>1 DEF ViewIsAskedFor, InRange
<1>9. \A k \in 1 .. Len(loads) : loads[k] \in Requests
  BY ElementOfSeq
<1>10. CASE Pending /\ i = Len(loads)
  <2>1. r.view = view /\ ~ r.overtaken /\ InRange(r.pages)
    BY <1>10 DEF Pending, r
  <2>2. \A k \in 1 .. Len(loads') : loads'[k].overtaken
    <3> SUFFICES ASSUME NEW k \in 1 .. Len(loads) - 1 PROVE loads'[k].overtaken
      BY <1>5
    <3>1. k < i /\ k \in 1 .. Len(loads)
      BY <1>2, <1>10
    <3>2. loads'[k] = [loads[k] EXCEPT !.overtaken = TRUE]
      BY <1>5, <3>1
    <3> QED
      BY <1>9, <3>1, <3>2 DEF Requests
  <2>3. InRange(totalPages)'
    BY <1>1, <1>3, <1>4, <2>1 DEF InRange, AtLeastOne
  <2>4. Answered'
    BY <1>1, <2>1, <2>2, <2>3 DEF Answered
  <2> QED
    BY <1>6, <1>7, <1>8, <2>4 DEF ViewIsAskedFor
<1>11. CASE Pending /\ i # Len(loads)
  <2>1. Len(loads') \in 1 .. Len(loads) - 1 /\ Len(loads') + 1 = Len(loads) /\ ~ (Len(loads') < i)
    BY <1>2, <1>5, <1>11
  <2>2. loads'[Len(loads')] = loads[Len(loads)]
    BY <1>5, <2>1
  <2>3. loads' # <<>>
    BY <1>2, <1>5, <2>1
  <2>4. Pending'
    BY <1>1, <1>11, <2>2, <2>3 DEF Pending, InRange
  <2> QED
    BY <1>6, <1>7, <1>8, <2>4 DEF ViewIsAskedFor
<1>12. CASE Answered
  <2>1. outrun'
    BY <1>1, <1>12 DEF Answered, r
  <2>2. \A k \in 1 .. Len(loads') : loads'[k].overtaken
    <3> SUFFICES ASSUME NEW k \in 1 .. Len(loads) - 1 PROVE loads'[k].overtaken
      BY <1>5
    <3>1. k \in 1 .. Len(loads) /\ k + 1 \in 1 .. Len(loads)
      BY <1>2
    <3>2. CASE k < i
      <4>1. loads'[k] = [loads[k] EXCEPT !.overtaken = TRUE]
        BY <1>5, <3>2
      <4> QED
        BY <1>9, <3>1, <4>1 DEF Requests
    <3>3. CASE ~ (k < i)
      BY <1>5, <1>12, <3>1, <3>3 DEF Answered
    <3> QED
      BY <3>2, <3>3
  <2>3. Answered'
    BY <2>1, <2>2 DEF Answered
  <2> QED
    BY <1>6, <1>7, <1>8, <2>3 DEF ViewIsAskedFor
<1>13. CASE loadError
  BY <1>1, <1>6, <1>7, <1>8, <1>13 DEF ViewIsAskedFor
<1> QED
  BY <1>10, <1>11, <1>12, <1>13 DEF ViewIsAskedFor

LEMMA FailKeeps ==
  ASSUME AuditPageInv, NEW i \in 1 .. Len(loads), LoadFails(i)
  PROVE  AuditPageInv'
<1> USE DEF AuditPageInv, AuditPageTypeOK
<1>1. /\ loadError' = TRUE
      /\ loads' = SubSeq(loads, 1, i - 1) \o SubSeq(loads, i + 1, Len(loads))
      /\ UNCHANGED <<pagesOf, view, logs, totalPages, hasty, outrun>>
  BY DEF LoadFails
<1>2. Len(loads) \in Nat /\ i \in Nat /\ \A k \in 1 .. Len(loads) : loads[k] \in Requests
  BY LenProperties, ElementOfSeq
<1>3. SubSeq(loads, 1, i - 1) \in Seq(Requests) /\ SubSeq(loads, i + 1, Len(loads)) \in Seq(Requests)
  BY <1>2, SubSeqProperties
<1>4. loads' \in Seq(Requests)
  BY <1>1, <1>3, ConcatProperties
<1>5. AuditPageTypeOK'
  BY <1>1, <1>4
<1> QED
  BY <1>1, <1>5 DEF ViewIsAskedFor, InRange

LEMMA AuditKeeps == AuditPageInv /\ [AuditPageNext]_auditPageVars => AuditPageInv'
<1> SUFFICES ASSUME AuditPageInv, [AuditPageNext]_auditPageVars PROVE AuditPageInv'
  OBVIOUS
<1>1. CASE UNCHANGED auditPageVars
  BY <1>1 DEF auditPageVars, AuditPageInv, AuditPageTypeOK, ViewIsAskedFor, Pending, Answered,
              InRange
<1> QED
  BY <1>1, LogKeeps, FilterKeeps, NextKeeps, PreviousKeeps, ListShowKeeps, FailKeeps
  DEF AuditPageNext

\* Once all is answered the log shown is the log asked for, in whatever order
\* the answers came, but for an answer that crossed a later one.
THEOREM TheLogIsTheOneAskedFor == AuditPageSpec => []ListIsCurrent
<1>1. ASSUME AuditPageInv PROVE ListIsCurrent
  BY <1>1 DEF AuditPageInv, ViewIsAskedFor, Pending, Answered, InRange, ListIsCurrent
<1> QED
  BY <1>1, AuditStarts, AuditKeeps, PTL DEF AuditPageSpec

-----------------------------------------------------------------------------
\* The boards.  Each status is entered from one other only, so a step that may
\* be taken from what the page showed may be taken from nothing else.

LEMMA OneWayIn ==
  ASSUME NEW from, NEW to, NEW seen,
         <<from, to>> \in ALLOWED_TRANSITIONS, <<seen, to>> \in ALLOWED_TRANSITIONS
  PROVE  from = seen
BY DEF ALLOWED_TRANSITIONS

\* Every button is a step of the table, for the role and the author it is shown to.
LEMMA ButtonsAreAllowed ==
  ASSUME BoardsTypeOK, NEW o \in Tickets, NEW to \in Statuses, to \in Offered(o) \cup Advance(o)
  PROVE  MayMove(shown[o], to, Me, duty.role, AuthorOf(o))
<1>1. duty.role \in Roles
  BY DEF BoardsTypeOK
<1>2. CASE to \in Advance(o)
  <2>1. duty.role = "KITCHEN" /\
        <<shown[o], to>> \in {<<"SENT_TO_KITCHEN", "PREPARING">>, <<"PREPARING", "READY">>}
    BY <1>2 DEF Advance, StepsOf
  <2> QED
    BY <2>1 DEF MayMove, ALLOWED_TRANSITIONS, TRANSITION_ROLES
<1>3. CASE to \in Offered(o)
  <2>1. \/ duty.role = "MANAGER" /\ shown[o] = "OPEN" /\ to = "CANCELLED"
        \/ duty.role = "WAITER" /\ o \in duty.own /\ <<shown[o], to>> \in WaiterMoves
    <3>1. CASE duty.role = "MANAGER"
      <4>1. to \in StepsOf(o, {<<"OPEN", "CANCELLED">>})
        BY <1>3, <3>1 DEF Offered
      <4> QED
        BY <3>1, <4>1 DEF StepsOf
    <3>2. CASE duty.role = "WAITER"
      <4>1. o \in duty.own /\ to \in StepsOf(o, WaiterMoves)
        BY <1>3, <3>2 DEF Offered
      <4>2. <<shown[o], to>> \in WaiterMoves
        BY <4>1 DEF StepsOf, WaiterMoves
      <4> QED
        BY <3>2, <4>1, <4>2
    <3>3. CASE duty.role \notin {"MANAGER", "WAITER"}
      <4>1. Offered(o) = {}
        BY <3>3 DEF Offered
      <4> QED
        BY <1>3, <4>1
    <3> QED
      BY <3>1, <3>2, <3>3
  <2>2. CASE duty.role = "MANAGER" /\ shown[o] = "OPEN" /\ to = "CANCELLED"
    BY <2>2 DEF MayMove, ALLOWED_TRANSITIONS, TRANSITION_ROLES
  <2>3. CASE duty.role = "WAITER" /\ o \in duty.own /\ <<shown[o], to>> \in WaiterMoves
    BY <2>3 DEF MayMove, ALLOWED_TRANSITIONS, TRANSITION_ROLES, WaiterMoves, AuthorOf
  <2> QED
    BY <2>1, <2>2, <2>3
<1> QED
  BY <1>2, <1>3

LEMMA ListsAreLists ==
  ASSUME NEW status \in Lists
  PROVE  FindAll(status) \in Lists
BY DEF FindAll, Lists

LEMMA BoardsStarts == BoardsInit => BoardsInv
<1> SUFFICES ASSUME BoardsInit PROVE BoardsInv
  OBVIOUS
<1>1. NoList \in Lists
  BY DEF NoList, Lists
<1>2. BoardsTypeOK
  BY <1>1 DEF BoardsInit, BoardsTypeOK, PressRows
<1>3. PressIsOffered /\ ReadsStand
  BY DEF BoardsInit, PressIsOffered, ReadsStand, NoPress
<1> QED
  BY <1>2, <1>3 DEF BoardsInv

\* What a press holds while the API is at it.
LEMMA PressFields ==
  ASSUME BoardsTypeOK, NEW k \in Presses, press[k].at \in {"call", "write"}
  PROVE  /\ press[k] \in [at : {"call", "write"}, order : Tickets,
                          seen : Statuses \cup {"NONE"}, to : Statuses,
                          here : BOOLEAN, overtaken : BOOLEAN]
         /\ press[k].order \in Tickets /\ press[k].to \in Statuses
<1>1. press[k] \in PressRows
  BY DEF BoardsTypeOK
<1> QED
  BY <1>1 DEF PressRows, NoPress, Reloading

\* A press that stands: offered as shown, and read as it still is.
Stands(row, status) ==
  row.at \in {"call", "write"} =>
    /\ MayMove(row.seen, row.to, Me, duty.role, AuthorOf(row.order))
    /\ row.at = "write" => status[row.order] = row.seen \/ row.overtaken

LEMMA AllStand ==
  ASSUME duty' = duty, press' \in [Presses -> PressRows],
         ticket' \in Lists, shown' \in Lists, replies' \subseteq Lists, BoardsInv,
         \A k \in Presses : Stands(press'[k], ticket')
  PROVE  BoardsInv'
<1>1. BoardsTypeOK'
  BY DEF BoardsInv, BoardsTypeOK
<1>2. PressIsOffered'
  BY DEF PressIsOffered, Stands, AuthorOf
<1>3. ReadsStand'
  BY DEF ReadsStand, Stands
<1> QED
  BY <1>1, <1>2, <1>3 DEF BoardsInv

LEMMA TheyStand == BoardsInv => \A k \in Presses : Stands(press[k], ticket)
BY DEF BoardsInv, PressIsOffered, ReadsStand, Stands

\* A press goes on while no order moves.
LEMMA OnePressMoves ==
  ASSUME BoardsInv, NEW k \in Presses, NEW row \in PressRows, Stands(row, ticket),
         press' = [press EXCEPT ![k] = row], duty' = duty, ticket' = ticket,
         shown' \in Lists, replies' \subseteq Lists
  PROVE  BoardsInv'
<1>1. press \in [Presses -> PressRows] /\ ticket \in Lists
  BY DEF BoardsInv, BoardsTypeOK
<1>2. \A j \in Presses : press'[j] = IF j = k THEN row ELSE press[j]
  BY <1>1
<1>3. \A j \in Presses : Stands(press'[j], ticket')
  BY <1>2, TheyStand
<1>4. press' \in [Presses -> PressRows]
  BY <1>1
<1> QED
  BY <1>1, <1>3, <1>4, AllStand

LEMMA NoPressMoves ==
  ASSUME BoardsInv, press' = press, duty' = duty, ticket' = ticket,
         shown' \in Lists, replies' \subseteq Lists
  PROVE  BoardsInv'
BY DEF BoardsInv, BoardsTypeOK, PressIsOffered, ReadsStand, AuthorOf

\* A press that ends stands.
LEMMA EndedStands ==
  ASSUME NEW row \in {NoPress, Reloading} \cup [at : {"refused"}, here : BOOLEAN], NEW status
  PROVE  row \in PressRows /\ Stands(row, status)
BY DEF NoPress, Reloading, PressRows, Stands

\* Presses that are overtaken stand, wherever their order has gone.
LEMMA OvertakenStand ==
  ASSUME BoardsInv, NEW o \in Tickets, NEW to \in Statuses
  PROVE  /\ Overtaken(o) \in [Presses -> PressRows]
         /\ \A k \in Presses : Stands(Overtaken(o)[k], [ticket EXCEPT ![o] = to])
<1>1. BoardsTypeOK /\ ticket \in Lists /\ press \in [Presses -> PressRows]
  BY DEF BoardsInv, BoardsTypeOK
<1>2. ASSUME NEW k \in Presses
      PROVE  Overtaken(o)[k] \in PressRows /\ Stands(Overtaken(o)[k], [ticket EXCEPT ![o] = to])
  <2>1. Stands(press[k], ticket) /\ press[k] \in PressRows
    BY <1>1, TheyStand
  <2>2. CASE press[k].at = "write" /\ press[k].order = o
    <3> DEFINE late == [press[k] EXCEPT !.overtaken = TRUE]
    <3>1. /\ late \in [at : {"call", "write"}, order : Tickets,
                       seen : Statuses \cup {"NONE"}, to : Statuses,
                       here : BOOLEAN, overtaken : BOOLEAN]
          /\ late.at = "write" /\ late.overtaken = TRUE /\ late.order = press[k].order
          /\ late.seen = press[k].seen /\ late.to = press[k].to
      BY <1>1, <2>2, PressFields
    <3>2. Overtaken(o)[k] = late
      BY <2>2 DEF Overtaken
    <3> HIDE DEF late
    <3>3. late \in PressRows
      BY <3>1 DEF PressRows
    <3>4. MayMove(late.seen, late.to, Me, duty.role, AuthorOf(late.order))
      BY <2>1, <2>2, <3>1 DEF Stands
    <3> QED
      BY <3>1, <3>2, <3>3, <3>4 DEF Stands
  <2>3. CASE ~ (press[k].at = "write" /\ press[k].order = o)
    <3>1. Overtaken(o)[k] = press[k]
      BY <2>3 DEF Overtaken
    <3>2. press[k].at = "write" => [ticket EXCEPT ![o] = to][press[k].order] = ticket[press[k].order]
      BY <1>1, <2>3, PressFields DEF Lists
    <3> QED
      BY <2>1, <3>1, <3>2 DEF Stands
  <2> QED
    BY <2>2, <2>3
<1>3. Overtaken(o) \in [Presses -> PressRows]
  BY <1>2 DEF Overtaken
<1> QED
  BY <1>2, <1>3

LEMMA TicketMovesKeeps ==
  ASSUME BoardsInv, NEW o \in Tickets, NEW to \in Statuses, TicketMoves(o, to)
  PROVE  BoardsInv'
<1>1. /\ ticket' = [ticket EXCEPT ![o] = to] /\ press' = Overtaken(o)
      /\ UNCHANGED <<duty, shown, replies, busyId>>
  BY DEF TicketMoves
<1>2. ticket' \in Lists /\ shown' \in Lists /\ replies' \subseteq Lists
  BY <1>1 DEF BoardsInv, BoardsTypeOK, Lists
<1> QED
  BY <1>1, <1>2, OvertakenStand, AllStand

LEMMA OpenPageKeeps == ASSUME BoardsInv, OpenPage PROVE BoardsInv'
<1>1. /\ shown' = FindAll(ticket) /\ replies' = {} /\ UNCHANGED <<duty, ticket>>
      /\ press' = [k \in Presses |-> IF press[k].at \in Offline
                                      THEN [press[k] EXCEPT !.here = FALSE] ELSE NoPress]
  BY DEF OpenPage
<1>2. BoardsTypeOK /\ ticket \in Lists /\ press \in [Presses -> PressRows]
  BY DEF BoardsInv, BoardsTypeOK
<1>3. FindAll(ticket) \in Lists
  BY <1>2, ListsAreLists
<1>4. ASSUME NEW k \in Presses PROVE press'[k] \in PressRows /\ Stands(press'[k], ticket)
  <2>1. Stands(press[k], ticket) /\ press[k] \in PressRows
    BY <1>2, TheyStand
  <2>2. CASE press[k].at \in {"call", "write"}
    <3> DEFINE gone == [press[k] EXCEPT !.here = FALSE]
    <3>1. /\ gone \in [at : {"call", "write"}, order : Tickets,
                       seen : Statuses \cup {"NONE"}, to : Statuses,
                       here : BOOLEAN, overtaken : BOOLEAN]
          /\ gone.at = press[k].at /\ gone.overtaken = press[k].overtaken
          /\ gone.order = press[k].order /\ gone.seen = press[k].seen /\ gone.to = press[k].to
      BY <1>2, <2>2, PressFields
    <3>2. press'[k] = gone
      BY <1>1, <2>2 DEF Offline
    <3> HIDE DEF gone
    <3> QED
      BY <2>1, <3>1, <3>2 DEF Stands, PressRows
  <2>3. CASE press[k].at = "refused"
    <3>1. press[k] \in [at : {"refused"}, here : BOOLEAN]
      BY <2>1, <2>3 DEF PressRows, NoPress, Reloading
    <3>2. press'[k] = [press[k] EXCEPT !.here = FALSE]
      BY <1>1, <2>3 DEF Offline
    <3>3. press'[k] \in [at : {"refused"}, here : BOOLEAN]
      BY <3>1, <3>2
    <3> QED
      BY <3>3, EndedStands
  <2>4. CASE press[k].at \notin Offline
    <3>1. press'[k] = NoPress
      BY <1>1, <2>4
    <3> QED
      BY <3>1, EndedStands
  <2> QED
    BY <2>2, <2>3, <2>4 DEF Offline
<1>5. press' \in [Presses -> PressRows]
  BY <1>1, <1>4
<1> QED
  BY <1>1, <1>2, <1>3, <1>4, <1>5, AllStand

LEMMA PressKeeps ==
  ASSUME BoardsInv, NEW k \in Presses, NEW o \in Tickets, NEW to \in Statuses,
         PressButton(k, o, to)
  PROVE  BoardsInv'
<1> DEFINE row == [at |-> "call", order |-> o, seen |-> shown[o], to |-> to,
                   here |-> TRUE, overtaken |-> FALSE]
<1>1. /\ to \in Offered(o) \cup Advance(o) /\ press' = [press EXCEPT ![k] = row]
      /\ UNCHANGED <<duty, ticket, shown, replies>>
  BY DEF PressButton
<1>2. BoardsTypeOK /\ shown \in Lists /\ replies \subseteq Lists
  BY DEF BoardsInv, BoardsTypeOK
<1>3. row \in PressRows /\ row.at = "call" /\ row.seen = shown[o] /\ row.to = to /\ row.order = o
  BY <1>2 DEF PressRows, Lists
<1>4. MayMove(shown[o], to, Me, duty.role, AuthorOf(o))
  BY <1>1, <1>2, ButtonsAreAllowed
<1> HIDE DEF row
<1>5. Stands(row, ticket)
  BY <1>3, <1>4 DEF Stands
<1> QED
  BY <1>1, <1>2, <1>3, <1>5, OnePressMoves

\* The API lets a press pass exactly when its order is as the page showed it.
LEMMA JudgedAsShown ==
  ASSUME BoardsInv, NEW k \in Presses, press[k].at = "call"
  PROVE  MayMove(ticket[press[k].order], press[k].to, Me, duty.role, AuthorOf(press[k].order))
           <=> ticket[press[k].order] = press[k].seen
<1>1. MayMove(press[k].seen, press[k].to, Me, duty.role, AuthorOf(press[k].order))
  BY DEF BoardsInv, PressIsOffered
<1> QED
  BY <1>1, OneWayIn DEF MayMove

\* What has passed stands on what was read.
LEMMA PassedStands ==
  ASSUME BoardsInv, NEW k \in Presses, press[k].at = "call",
         ticket[press[k].order] = press[k].seen
  PROVE  /\ [press[k] EXCEPT !.at = "write"] \in PressRows
         /\ Stands([press[k] EXCEPT !.at = "write"], ticket)
<1> DEFINE passed == [press[k] EXCEPT !.at = "write"]
<1>1. /\ passed \in [at : {"call", "write"}, order : Tickets, seen : Statuses \cup {"NONE"},
                     to : Statuses, here : BOOLEAN, overtaken : BOOLEAN]
      /\ passed.seen = press[k].seen /\ passed.to = press[k].to /\ passed.order = press[k].order
  BY PressFields DEF BoardsInv
<1>2. MayMove(press[k].seen, press[k].to, Me, duty.role, AuthorOf(press[k].order))
  BY DEF BoardsInv, PressIsOffered
<1> HIDE DEF passed
<1>3. passed \in PressRows /\ Stands(passed, ticket)
  BY <1>1, <1>2 DEF PressRows, Stands
<1> QED
  BY <1>3 DEF passed

LEMMA UpdateReadKeeps ==
  ASSUME BoardsInv, NEW k \in Presses, UpdateStatusRead(k)
  PROVE  BoardsInv'
<1> DEFINE passes == MayMove(ticket[press[k].order], press[k].to, Me, duty.role,
                             AuthorOf(press[k].order))
           passed == [press[k] EXCEPT !.at = "write"]
           refused == [at |-> "refused", here |-> press[k].here]
<1>1. /\ press[k].at = "call" /\ UNCHANGED <<duty, ticket, shown, replies>>
      /\ press' = [press EXCEPT ![k] = IF passes THEN passed ELSE refused]
  BY DEF UpdateStatusRead
<1>2. BoardsTypeOK /\ shown \in Lists /\ replies \subseteq Lists
  BY DEF BoardsInv, BoardsTypeOK
<1>3. passes <=> ticket[press[k].order] = press[k].seen
  BY <1>1, JudgedAsShown
<1>4. passes => passed \in PressRows /\ Stands(passed, ticket)
  BY <1>1, <1>3, PassedStands
<1>5. refused \in [at : {"refused"}, here : BOOLEAN]
  BY <1>1, <1>2, PressFields
<1> HIDE DEF passes, passed, refused
<1>6. refused \in PressRows /\ Stands(refused, ticket)
  BY <1>5, EndedStands
<1> QED
  BY <1>1, <1>2, <1>4, <1>6, OnePressMoves

LEMMA UpdateCommitKeeps ==
  ASSUME BoardsInv, NEW k \in Presses, UpdateStatusCommit(k)
  PROVE  BoardsInv'
<1> DEFINE o == press[k].order
           row == IF press[k].here THEN Reloading ELSE NoPress
           moved == [ticket EXCEPT ![o] = press[k].to]
<1>1. /\ press[k].at = "write" /\ ticket' = moved
      /\ press' = [Overtaken(o) EXCEPT ![k] = row]
      /\ UNCHANGED <<duty, shown, replies>>
  BY DEF UpdateStatusCommit
<1>2. BoardsTypeOK /\ ticket \in Lists /\ shown \in Lists /\ replies \subseteq Lists
  BY DEF BoardsInv, BoardsTypeOK
<1>3. o \in Tickets /\ press[k].to \in Statuses
  BY <1>1, <1>2, PressFields
<1>4. /\ Overtaken(o) \in [Presses -> PressRows]
      /\ \A j \in Presses : Stands(Overtaken(o)[j], moved)
  BY <1>3, OvertakenStand
<1>5. row \in PressRows /\ Stands(row, moved)
  BY EndedStands
<1>6. moved \in Lists
  BY <1>2, <1>3 DEF Lists
<1> HIDE DEF o, row, moved
<1>7. \A j \in Presses : press'[j] = IF j = k THEN row ELSE Overtaken(o)[j]
  BY <1>1, <1>4
<1>8. press' \in [Presses -> PressRows]
  BY <1>1, <1>4, <1>5
<1> QED
  BY <1>1, <1>2, <1>4, <1>5, <1>6, <1>7, <1>8, AllStand

LEMMA LosePressKeeps == ASSUME BoardsInv, NEW k \in Presses, LosePress(k) PROVE BoardsInv'
<1>1. /\ press[k].at \in {"call", "write"} /\ UNCHANGED <<duty, ticket, shown, replies>>
      /\ \/ press' = [press EXCEPT ![k] = NoPress]
         \/ press' = [press EXCEPT ![k] = [press[k] EXCEPT !.here = FALSE]]
  BY DEF LosePress
<1>2. BoardsTypeOK /\ shown \in Lists /\ replies \subseteq Lists
  BY DEF BoardsInv, BoardsTypeOK
<1> DEFINE gone == [press[k] EXCEPT !.here = FALSE]
<1>3. /\ gone \in [at : {"call", "write"}, order : Tickets, seen : Statuses \cup {"NONE"},
                   to : Statuses, here : BOOLEAN, overtaken : BOOLEAN]
      /\ gone.at = press[k].at /\ gone.overtaken = press[k].overtaken
      /\ gone.order = press[k].order /\ gone.seen = press[k].seen /\ gone.to = press[k].to
  BY <1>1, <1>2, PressFields
<1>4. Stands(press[k], ticket)
  BY TheyStand
<1>5. press' = [press EXCEPT ![k] = NoPress] \/ press' = [press EXCEPT ![k] = gone]
  BY <1>1
<1> HIDE DEF gone
<1>6. gone \in PressRows /\ Stands(gone, ticket)
  BY <1>3, <1>4 DEF Stands, PressRows
<1>7. NoPress \in PressRows /\ Stands(NoPress, ticket)
  BY EndedStands
<1> QED
  BY <1>1, <1>2, <1>5, <1>6, <1>7, OnePressMoves

LEMMA BoardsKeeps == BoardsInv /\ [BoardsNext]_boardVars => BoardsInv'
<1> SUFFICES ASSUME BoardsInv, [BoardsNext]_boardVars PROVE BoardsInv'
  OBVIOUS
<1>1. ticket \in Lists /\ shown \in Lists /\ replies \subseteq Lists
  BY DEF BoardsInv, BoardsTypeOK
<1>2. FindAll(ticket) \in Lists
  BY <1>1, ListsAreLists
<1>3. CASE PollKitchen
  BY <1>1, <1>2, <1>3, NoPressMoves DEF PollKitchen
<1>4. ASSUME NEW list \in replies, ShowOrders(list) PROVE BoardsInv'
  BY <1>1, <1>4, NoPressMoves DEF ShowOrders
<1>5. ASSUME NEW k \in Presses, EndPress(k) PROVE BoardsInv'
  <2>1. /\ shown' \in {FindAll(ticket), shown} /\ press' = [press EXCEPT ![k] = NoPress]
        /\ UNCHANGED <<duty, ticket, replies>>
    BY <1>5 DEF EndPress
  <2>2. NoPress \in PressRows /\ Stands(NoPress, ticket)
    BY EndedStands
  <2> QED
    BY <1>1, <1>2, <2>1, <2>2, OnePressMoves
<1>6. CASE UNCHANGED boardVars
  BY <1>1, <1>6, NoPressMoves DEF boardVars
<1>7. ASSUME NEW o \in Tickets, NEW to \in Statuses, TicketMoves(o, to) PROVE BoardsInv'
  BY <1>7, TicketMovesKeeps
<1>8. ASSUME NEW k \in Presses, NEW o \in Tickets, NEW to \in Statuses, PressButton(k, o, to)
      PROVE  BoardsInv'
  BY <1>8, PressKeeps
<1>9. ASSUME NEW k \in Presses, UpdateStatusRead(k) \/ UpdateStatusCommit(k) \/ LosePress(k)
      PROVE  BoardsInv'
  BY <1>9, UpdateReadKeeps, UpdateCommitKeeps, LosePressKeeps
<1>10. CASE OpenPage
  BY <1>10, OpenPageKeeps
<1> QED
  BY <1>3, <1>4, <1>5, <1>6, <1>7, <1>8, <1>9, <1>10 DEF BoardsNext

\* A step ends the reading of a press, or its writing, in one way each, or is
\* none of its own.
LEMMA WhoMovesAPress ==
  ASSUME BoardsTypeOK, BoardsNext, NEW k \in Presses, press[k].at \in {"call", "write"}
  PROVE  \/ UpdateStatusRead(k) \/ UpdateStatusCommit(k)
         \/ ticket' = ticket /\ press'[k].at \in {press[k].at, "idle"}
         \/ press'[k].at = press[k].at
<1>1. press \in [Presses -> PressRows]
  BY DEF BoardsTypeOK
<1>2. ASSUME NEW o \in Tickets PROVE Overtaken(o)[k].at = press[k].at
  BY PressFields DEF Overtaken
<1>3. [press[k] EXCEPT !.here = FALSE].at = press[k].at
  BY PressFields
<1>4. ASSUME NEW o \in Tickets, NEW to \in Statuses, TicketMoves(o, to)
      PROVE  press'[k].at = press[k].at
  BY <1>2, <1>4 DEF TicketMoves
<1>5. CASE PollKitchen
  BY <1>5 DEF PollKitchen
<1>6. CASE OpenPage
  BY <1>3, <1>6 DEF OpenPage, Offline
<1>7. ASSUME NEW list \in replies, ShowOrders(list) PROVE press'[k].at = press[k].at
  BY <1>7 DEF ShowOrders
<1>8. ASSUME NEW j \in Presses, NEW o \in Tickets, NEW to \in Statuses, PressButton(j, o, to)
      PROVE  press'[k].at = press[k].at
  BY <1>1, <1>8 DEF PressButton, NoPress
<1>9. ASSUME NEW j \in Presses, UpdateStatusRead(j), j # k PROVE press'[k].at = press[k].at
  BY <1>1, <1>9 DEF UpdateStatusRead
<1>10. ASSUME NEW j \in Presses, UpdateStatusCommit(j), j # k PROVE press'[k].at = press[k].at
  <2>1. press[j].order \in Tickets
    BY <1>10, PressFields DEF UpdateStatusCommit
  <2>2. Overtaken(press[j].order)[k].at = press[k].at
    BY <1>2, <2>1
  <2>3. press'[k] = Overtaken(press[j].order)[k]
    BY <1>10 DEF UpdateStatusCommit, Overtaken
  <2> QED
    BY <2>2, <2>3
<1>11. ASSUME NEW j \in Presses, LosePress(j)
       PROVE  ticket' = ticket /\ press'[k].at \in {press[k].at, "idle"}
  <2>1. /\ ticket' = ticket
        /\ \/ press' = [press EXCEPT ![j] = NoPress]
           \/ press' = [press EXCEPT ![j] = [press[j] EXCEPT !.here = FALSE]]
    BY <1>11 DEF LosePress
  <2>2. CASE j # k
    BY <1>1, <2>1, <2>2
  <2>3. CASE j = k
    <3>1. press'[k] = NoPress \/ press'[k] = [press[k] EXCEPT !.here = FALSE]
      BY <1>1, <2>1, <2>3
    <3>2. NoPress.at = "idle"
      BY DEF NoPress
    <3> QED
      BY <1>3, <2>1, <3>1, <3>2, Zenon
  <2> QED
    BY <2>1, <2>2, <2>3
<1>12. ASSUME NEW j \in Presses, EndPress(j) PROVE press'[k].at = press[k].at
  BY <1>1, <1>12 DEF EndPress
<1> QED
  BY <1>4, <1>5, <1>6, <1>7, <1>8, <1>9, <1>10, <1>11, <1>12 DEF BoardsNext

\* The API judges a press by what the page showed, and performs it there.
THEOREM AButtonIsItsWord == BoardsSpec => ButtonsKeepTheirWord
<1>1. ASSUME BoardsInv, BoardsNext, NEW k \in Presses
      PROVE  LET r == press[k] IN
             /\ Judged(k) => (press'[k].at = "refused" <=> ticket[r.order] # r.seen)
             /\ Performed(k) =>
                  /\ ticket'[r.order] = r.to
                  /\ ticket[r.order] = r.seen \/ r.overtaken
  <2>1. BoardsTypeOK /\ ReadsStand /\ press \in [Presses -> PressRows] /\ ticket \in Lists
    BY <1>1 DEF BoardsInv, BoardsTypeOK
  <2>2. ASSUME Judged(k)
        PROVE  press'[k].at = "refused" <=> ticket[press[k].order] # press[k].seen
    <3>1. press[k].at = "call" /\ press'[k].at \in {"write", "refused"}
      BY <2>2 DEF Judged
    <3>2. UpdateStatusRead(k)
      BY <1>1, <2>1, <3>1, WhoMovesAPress DEF UpdateStatusCommit
    <3>3. MayMove(ticket[press[k].order], press[k].to, Me, duty.role, AuthorOf(press[k].order))
            <=> ticket[press[k].order] = press[k].seen
      BY <1>1, <3>1, JudgedAsShown
    <3>4. [press[k] EXCEPT !.at = "write"].at = "write"
      BY <2>1, <3>1, PressFields
    <3>5. press'[k].at =
            IF MayMove(ticket[press[k].order], press[k].to, Me, duty.role, AuthorOf(press[k].order))
            THEN "write" ELSE "refused"
      BY <2>1, <3>2, <3>4 DEF UpdateStatusRead
    <3> QED
      BY <3>3, <3>5
  <2>3. ASSUME Performed(k)
        PROVE  /\ ticket'[press[k].order] = press[k].to
               /\ ticket[press[k].order] = press[k].seen \/ press[k].overtaken
    <3>1. press[k].at = "write" /\ press'[k].at # "write" /\ ticket' # ticket
      BY <2>3 DEF Performed
    <3>2. UpdateStatusCommit(k)
      BY <1>1, <2>1, <3>1, WhoMovesAPress DEF UpdateStatusRead
    <3>3. press[k].order \in Tickets
      BY <2>1, <3>1, PressFields
    <3>4. ticket'[press[k].order] = press[k].to
      BY <2>1, <3>2, <3>3 DEF UpdateStatusCommit, Lists
    <3> QED
      BY <2>1, <3>1, <3>4 DEF ReadsStand
  <2> QED
    BY <2>2, <2>3
<1>2. BoardsInv /\ [BoardsNext]_boardVars =>
        [\A k \in Presses : LET r == press[k] IN
           /\ Judged(k) => (press'[k].at = "refused" <=> ticket[r.order] # r.seen)
           /\ Performed(k) =>
                /\ ticket'[r.order] = r.to
                /\ ticket[r.order] = r.seen \/ r.overtaken]_boardVars
  BY <1>1
<1> QED
  BY <1>2, BoardsStarts, BoardsKeeps, PTL DEF BoardsSpec, ButtonsKeepTheirWord

-----------------------------------------------------------------------------
\* The sales report

LEMMA ReportsStart == ReportsInit => ReportsTypeOK
BY ReportsAssumption DEF ReportsInit, ReportsTypeOK

LEMMA ReportsStep == ReportsTypeOK /\ [ReportsNext]_reportVars => ReportsTypeOK'
<1> SUFFICES ASSUME ReportsTypeOK, [ReportsNext]_reportVars PROVE ReportsTypeOK'
  OBVIOUS
<1> USE DEF ReportsTypeOK
<1>1. CASE TimePasses
  BY <1>1 DEF TimePasses
<1>2. ASSUME NEW i \in Invoices, NEW amount \in Amounts, NEW method \in Methods,
             PayBill(i, amount, method)
      PROVE  ReportsTypeOK'
  BY <1>2, ReportsAssumption DEF PayBill
<1>3. ASSUME NEW i \in Invoices, NEW status \in {"REFUNDED", "PARTIALLY_REFUNDED"},
             RefundBill(i, status)
      PROVE  ReportsTypeOK'
  BY <1>3 DEF RefundBill
<1>4. CASE UNCHANGED reportVars
  BY <1>4 DEF reportVars
<1> QED
  BY <1>1, <1>2, <1>3, <1>4 DEF ReportsNext

-----------------------------------------------------------------------------
\* An hour h is of the day that starts at or before it, and no later day.
LEMMA DayOfHour ==
  ASSUME NEW h \in Int
  PROVE  /\ h \div HoursPerDay \in Int
         /\ HoursPerDay * (h \div HoursPerDay) <= h
         /\ h < HoursPerDay * ((h \div HoursPerDay) + 1)
BY ReportsAssumption

\* Days do not overlap, so an hour has one day.
LEMMA HoursOfDay ==
  ASSUME NEW h \in Int, NEW d \in Int, d * HoursPerDay <= h, h < (d + 1) * HoursPerDay
  PROVE  h \div HoursPerDay = d
BY ReportsAssumption, DayOfHour

\* An hour is of one of the days s to e when it is in the hours they span.
LEMMA HoursOfRange ==
  ASSUME NEW h \in Int, NEW s \in Int, NEW e \in Int
  PROVE  s * HoursPerDay <= h /\ h <= (e + 1) * HoursPerDay - 1
           <=> h \div HoursPerDay \in s .. e
<1> DEFINE d == h \div HoursPerDay
<1>1. d \in Int /\ d * HoursPerDay <= h /\ h < (d + 1) * HoursPerDay
  BY ReportsAssumption, DayOfHour
<1>2. \A a, b \in Int : /\ a * HoursPerDay < b * HoursPerDay => a < b
                        /\ a <= b => a * HoursPerDay <= b * HoursPerDay
  BY ReportsAssumption
<1>3. \A a \in Int : a * HoursPerDay \in Int /\ a + 1 \in Int
  BY ReportsAssumption
<1> HIDE DEF d
<1>4. ASSUME s * HoursPerDay <= h, h <= (e + 1) * HoursPerDay - 1
      PROVE  d \in s .. e
  <2>1. s * HoursPerDay < (d + 1) * HoursPerDay /\ d * HoursPerDay < (e + 1) * HoursPerDay
    BY <1>1, <1>3, <1>4
  <2>2. s < d + 1 /\ d < e + 1
    BY <1>1, <1>2, <2>1
  <2> QED
    BY <1>1, <2>2
<1>5. ASSUME d \in s .. e
      PROVE  s * HoursPerDay <= h /\ h <= (e + 1) * HoursPerDay - 1
  <2>1. s <= d /\ d + 1 <= e + 1
    BY <1>1, <1>5
  <2>2. s * HoursPerDay <= d * HoursPerDay /\ (d + 1) * HoursPerDay <= (e + 1) * HoursPerDay
    BY <1>1, <1>2, <2>1
  <2> QED
    BY <1>1, <1>3, <2>2
<1> QED
  BY <1>4, <1>5 DEF d

\* On a server that keeps UTC, a day is its own local day.
LEMMA UtcDays ==
  ASSUME zone = 0, NEW d \in Int
  PROVE  Midnight(d) = d * HoursPerDay /\ LocalDay(d * HoursPerDay) = d /\ UtcDay(Midnight(d)) = d
<1>1. d * HoursPerDay \in Int /\ d * HoursPerDay < (d + 1) * HoursPerDay
  BY ReportsAssumption
<1>2. (d * HoursPerDay) \div HoursPerDay = d
  BY <1>1, HoursOfDay
<1>3. d * HoursPerDay - zone = d * HoursPerDay /\ d * HoursPerDay + zone = d * HoursPerDay
  BY <1>1
<1> QED
  BY <1>2, <1>3 DEF Midnight, LocalDay, UtcDay

LEMMA UtcRange ==
  ASSUME zone = 0, NEW s \in Int, NEW e \in Int
  PROVE  /\ ParseRange(s, e).start = s * HoursPerDay
         /\ ParseRange(s, e).end = (e + 1) * HoursPerDay - 1
<1>1. LocalDay(e * HoursPerDay) = e /\ Midnight(e + 1) = (e + 1) * HoursPerDay
  BY UtcDays
<1> QED
  BY <1>1 DEF ParseRange

\* The report has the sales of its days ...
LEMMA SalesOfDays ==
  ASSUME ReportsTypeOK, zone = 0, NEW s \in Int, NEW e \in Int
  PROVE  SalesIn(s, e) = {i \in Invoices : bill[i].status = "PAID" /\ UtcDay(bill[i].paidAt) \in s .. e}
<1>1. \A i \in Invoices : bill[i].paidAt \in Int
  BY DEF ReportsTypeOK
<1>2. ASSUME NEW i \in Invoices
      PROVE  ParseRange(s, e).start <= bill[i].paidAt /\ bill[i].paidAt <= ParseRange(s, e).end
               <=> UtcDay(bill[i].paidAt) \in s .. e
  BY <1>1, UtcRange, HoursOfRange DEF UtcDay
<1> QED
  BY <1>2 DEF SalesIn

\* ... and lists these days.
LEMMA DaysListed ==
  ASSUME zone = 0, NEW s \in Days, NEW e \in Days
  PROVE  ListedDays(s, e) = s .. e
<1>1. s \in Int /\ e \in Int /\ 1 <= s /\ e <= LastDay /\ LastDay \in Int
  BY ReportsAssumption DEF Days
<1> DEFINE Shown == {d \in 0 .. LastDay + 1 :
                        LocalDay(s * HoursPerDay) <= d /\ Midnight(d) <= ParseRange(s, e).end}
<1>2. ASSUME NEW d \in Int
      PROVE  d * HoursPerDay <= (e + 1) * HoursPerDay - 1 <=> d <= e
  <2>1. \A a, b \in Int : /\ a * HoursPerDay < b * HoursPerDay <=> a < b
                          /\ a * HoursPerDay \in Int
    BY ReportsAssumption
  <2>2. e + 1 \in Int /\ (d < e + 1 <=> d <= e)
    BY <1>1
  <2>3. d * HoursPerDay < (e + 1) * HoursPerDay <=> d < e + 1
    BY <2>1, <2>2
  <2>4. \A a, b \in Int : a <= b - 1 <=> a < b
    OBVIOUS
  <2> QED
    BY <2>1, <2>2, <2>3, <2>4
<1>3. \A d \in 0 .. LastDay + 1 : d \in Int
  OBVIOUS
<1>4. \A d \in 0 .. LastDay + 1 : d \in Shown <=> d \in s .. e
  <2> TAKE d \in 0 .. LastDay + 1
  <2>1. Midnight(d) = d * HoursPerDay /\ LocalDay(s * HoursPerDay) = s
    BY <1>1, UtcDays
  <2>2. Midnight(d) <= ParseRange(s, e).end <=> d <= e
    <3>1. ParseRange(s, e).end = (e + 1) * HoursPerDay - 1
      BY <1>1, UtcRange
    <3>2. d * HoursPerDay <= (e + 1) * HoursPerDay - 1 <=> d <= e
      BY <1>2, <1>3
    <3> QED
      BY <2>1, <3>1, <3>2
  <2> QED
    BY <1>1, <2>1, <2>2
<1>5. \A d \in s .. e : d \in 0 .. LastDay + 1
  BY <1>1
<1>6. Shown = s .. e
  BY <1>4, <1>5
<1>7. \A d \in s .. e : UtcDay(Midnight(d)) = d
  BY <1>1, UtcDays
<1>8. ListedDays(s, e) = {UtcDay(Midnight(d)) : d \in Shown}
  BY DEF ListedDays
<1> HIDE DEF Shown
<1> QED
  BY <1>6, <1>7, <1>8

\* The days add up to the total.
LEMMA DaysAddUp ==
  ASSUME ReportsTypeOK, zone = 0, NEW s \in Days, NEW e \in Days
  PROVE  SumFunction(RevenueByDay(s, e)) = Revenue(SalesIn(s, e))
<1> DEFINE sold == SalesIn(s, e)
           f == [i \in Invoices |-> bill[i].amount]
           k == [i \in Invoices |-> UtcDay(bill[i].paidAt)]
           D == s .. e
<1>1. s \in Int /\ e \in Int
  BY DEF Days
<1>2. sold \subseteq Invoices /\ \A i \in sold : k[i] \in D
  BY <1>1, SalesOfDays
<1>3. IsFiniteSet(sold) /\ IsFiniteSet(D)
  BY <1>1, <1>2, FS_Subset, FS_Interval, ReportsAssumption
<1>4. \A i \in sold : f[i] \in Int
  BY <1>2 DEF ReportsTypeOK
<1>5. ASSUME NEW d \in D
      PROVE  Revenue({i \in sold : UtcDay(bill[i].paidAt) = d}) =
               SumFunctionOnSet(f, {i \in sold : k[i] = d})
  <2>1. {i \in sold : UtcDay(bill[i].paidAt) = d} = {i \in sold : k[i] = d}
    BY <1>2
  <2> QED
    BY <2>1 DEF Revenue
<1> DEFINE Groups == [d \in D |-> SumFunctionOnSet(f, {i \in sold : k[i] = d})]
<1>6. RevenueByDay(s, e) = Groups
  BY <1>5, DaysListed DEF RevenueByDay
<1>7. SumFunctionOnSet(Groups, D) = SumFunctionOnSet(f, sold)
  <2> HIDE DEF sold, f, k, D
  <2> QED
    BY <1>2, <1>3, <1>4, SumByGroups
<1>8. DOMAIN Groups = D
  OBVIOUS
<1>9. SumFunction(RevenueByDay(s, e)) = SumFunctionOnSet(Groups, D)
  <2> HIDE DEF Groups, D
  <2> QED
    BY <1>6, <1>8 DEF SumFunction
<1>10. Revenue(sold) = SumFunctionOnSet(f, sold)
  BY DEF Revenue
<1> QED
  BY <1>7, <1>9, <1>10

\* The methods that are known add up to the sales that were not Stripe's.
LEMMA MethodsAddUp ==
  ASSUME ReportsTypeOK, NEW s, NEW e
  PROVE  SumFunction(PaymentMethodBreakdown(s, e)) =
           Cardinality({i \in SalesIn(s, e) : bill[i].method # "STRIPE"})
<1> DEFINE sold == SalesIn(s, e)
           Of(M) == {i \in sold : bill[i].method \in M}
           Count == [m \in {"CASH", "CARD", "MOBILE"} |-> Cardinality({i \in sold : bill[i].method = m})]
<1>1. sold \subseteq Invoices /\ IsFiniteSet(sold)
  BY FS_Subset, ReportsAssumption DEF SalesIn
<1>2. \A M : IsFiniteSet(Of(M)) /\ Cardinality(Of(M)) \in Int
  <2> SUFFICES ASSUME NEW M PROVE IsFiniteSet(Of(M)) /\ Cardinality(Of(M)) \in Int
    OBVIOUS
  <2>1. Of(M) \subseteq sold
    OBVIOUS
  <2>2. IsFiniteSet(Of(M))
    <3> HIDE DEF Of, sold
    <3> QED
      BY <1>1, <2>1, FS_Subset
  <2>3. Cardinality(Of(M)) \in Nat
    <3> HIDE DEF Of, sold
    <3> QED
      BY <2>2, FS_CardinalityType
  <2> QED
    BY <2>2, <2>3
<1>3. ASSUME NEW m \in {"CASH", "CARD", "MOBILE"} PROVE Count[m] = Cardinality(Of({m}))
  <2>1. {i \in sold : bill[i].method = m} = Of({m})
    OBVIOUS
  <2> QED
    BY <2>1
<1>4. ASSUME NEW M, NEW m, m \notin M
      PROVE  Cardinality(Of(M \cup {m})) = Cardinality(Of(M)) + Cardinality(Of({m}))
  <2>1. Of(M \cup {m}) = Of(M) \cup Of({m}) /\ Of(M) \cap Of({m}) = {}
    BY <1>4
  <2>2. Cardinality(Of(M) \cup Of({m})) =
          Cardinality(Of(M)) + Cardinality(Of({m})) - Cardinality(Of(M) \cap Of({m}))
    <3> HIDE DEF Of
    <3> QED
      BY <1>2, FS_Union
  <2>3. Cardinality(Of(M) \cap Of({m})) = 0
    BY <2>1, FS_EmptySet
  <2>4. Cardinality(Of(M \cup {m})) = Cardinality(Of(M) \cup Of({m}))
    BY <2>1
  <2> HIDE DEF Of
  <2> QED
    BY <1>2, <2>2, <2>3, <2>4
<1>5. {i \in sold : bill[i].method # "STRIPE"} = Of({"CASH", "CARD", "MOBILE"})
  BY <1>1 DEF ReportsTypeOK
<1>6. PaymentMethodBreakdown(s, e) = Count
  BY DEF PaymentMethodBreakdown
<1>7. SumFunction(Count) = SumFunctionOnSet(Count, {"CASH", "CARD", "MOBILE"})
  BY DEF SumFunction
<1>8. \A m \in {"CASH", "CARD", "MOBILE"} : Count[m] \in Int
  <2> HIDE DEF Count, Of
  <2> QED
    BY <1>2, <1>3
<1>9. SumFunctionOnSet(Count, {"CASH", "CARD", "MOBILE"}) =
        Count["CASH"] + (Count["CARD"] + Count["MOBILE"])
  <2>1. /\ {"CASH", "CARD", "MOBILE"} \ {"CASH"} = {"CARD", "MOBILE"}
        /\ {"CARD", "MOBILE"} \ {"CARD"} = {"MOBILE"} /\ {"MOBILE"} \ {"MOBILE"} = {}
    OBVIOUS
  <2>2. /\ IsFiniteSet({"MOBILE"}) /\ IsFiniteSet({"CARD", "MOBILE"})
        /\ IsFiniteSet({"CASH", "CARD", "MOBILE"})
    BY FS_EmptySet, FS_AddElement, {"CARD", "MOBILE"} = {"MOBILE"} \cup {"CARD"},
       {"CASH", "CARD", "MOBILE"} = {"CARD", "MOBILE"} \cup {"CASH"}, {"MOBILE"} = {} \cup {"MOBILE"}
  <2> HIDE DEF Count
  <2>3. SumFunctionOnSet(Count, {"CASH", "CARD", "MOBILE"}) =
          Count["CASH"] + SumFunctionOnSet(Count, {"CASH", "CARD", "MOBILE"} \ {"CASH"})
    BY <1>8, <2>2, SumWithout
  <2>4. SumFunctionOnSet(Count, {"CARD", "MOBILE"}) =
          Count["CARD"] + SumFunctionOnSet(Count, {"CARD", "MOBILE"} \ {"CARD"})
    BY <1>8, <2>2, SumWithout
  <2>5. SumFunctionOnSet(Count, {"MOBILE"}) =
          Count["MOBILE"] + SumFunctionOnSet(Count, {"MOBILE"} \ {"MOBILE"})
    BY <1>8, <2>2, SumWithout
  <2>6. SumFunctionOnSet(Count, {"MOBILE"} \ {"MOBILE"}) = 0
    BY <2>1, SumOverNothing
  <2>7. SumFunctionOnSet(Count, {"MOBILE"}) = Count["MOBILE"]
    BY <1>8, <2>5, <2>6
  <2> QED
    BY <2>1, <2>3, <2>4, <2>7
<1>10. /\ Cardinality(Of({"MOBILE", "CARD"})) = Cardinality(Of({"MOBILE"})) + Cardinality(Of({"CARD"}))
       /\ Cardinality(Of({"MOBILE", "CARD", "CASH"}))
            = Cardinality(Of({"MOBILE", "CARD"})) + Cardinality(Of({"CASH"}))
  <2>1. {"MOBILE"} \cup {"CARD"} = {"MOBILE", "CARD"}
        /\ {"MOBILE", "CARD"} \cup {"CASH"} = {"MOBILE", "CARD", "CASH"}
    OBVIOUS
  <2>2. "CARD" \notin {"MOBILE"} /\ "CASH" \notin {"MOBILE", "CARD"}
    OBVIOUS
  <2> HIDE DEF Of
  <2>3. /\ Cardinality(Of({"MOBILE"} \cup {"CARD"}))
             = Cardinality(Of({"MOBILE"})) + Cardinality(Of({"CARD"}))
        /\ Cardinality(Of({"MOBILE", "CARD"} \cup {"CASH"}))
             = Cardinality(Of({"MOBILE", "CARD"})) + Cardinality(Of({"CASH"}))
    BY <1>4, <2>2
  <2> QED
    BY <2>1, <2>3
<1>11. {"MOBILE", "CARD", "CASH"} = {"CASH", "CARD", "MOBILE"}
  OBVIOUS
<1>12. Cardinality({i \in sold : bill[i].method # "STRIPE"}) = Cardinality(Of({"MOBILE", "CARD", "CASH"}))
  BY <1>5, <1>11
<1> HIDE DEF sold, Of, Count
<1>13. /\ Count["CASH"] = Cardinality(Of({"CASH"})) /\ Count["CARD"] = Cardinality(Of({"CARD"}))
       /\ Count["MOBILE"] = Cardinality(Of({"MOBILE"}))
  BY <1>3
<1>14. SumFunction(PaymentMethodBreakdown(s, e)) = Count["CASH"] + (Count["CARD"] + Count["MOBILE"])
  BY <1>6, <1>7, <1>9
<1>15. \A a, b, c \in Int : a + (b + c) = (c + b) + a
  OBVIOUS
<1>16. Count["CASH"] \in Int /\ Count["CARD"] \in Int /\ Count["MOBILE"] \in Int
  BY <1>8
<1>17. Cardinality(Of({"MOBILE", "CARD", "CASH"})) = (Count["MOBILE"] + Count["CARD"]) + Count["CASH"]
  BY <1>10, <1>13
<1>18. Cardinality({i \in sold : bill[i].method # "STRIPE"}) = Count["CASH"] + (Count["CARD"] + Count["MOBILE"])
  BY <1>12, <1>15, <1>16, <1>17
<1> QED
  BY <1>14, <1>18 DEF sold

\* Whatever is sold, paid and refunded at whatever hour, the report of a server
\* that keeps UTC has the sales of its days, its days add up to its total, and on
\* any server its methods add up to the sales that were not Stripe's.
THEOREM TheReportAddsUp == ReportsSpec => []ReportsAddUp
<1>1. ReportsSpec => []ReportsTypeOK
  BY ReportsStart, ReportsStep, PTL DEF ReportsSpec
<1>2. ReportsTypeOK => ReportsAddUp
  <2> SUFFICES ASSUME ReportsTypeOK, NEW s \in Days, NEW e \in Days
               PROVE  /\ zone = 0 =>
                           /\ SalesIn(s, e) = {i \in Invoices :
                                bill[i].status = "PAID" /\ UtcDay(bill[i].paidAt) \in s .. e}
                           /\ SumFunction(RevenueByDay(s, e)) = Revenue(SalesIn(s, e))
                      /\ SumFunction(PaymentMethodBreakdown(s, e)) =
                           Cardinality({i \in SalesIn(s, e) : bill[i].method # "STRIPE"})
    BY DEF ReportsAddUp, Ranges
  <2>1. s \in Int /\ e \in Int
    BY DEF Days
  <2> QED
    BY <2>1, SalesOfDays, DaysAddUp, MethodsAddUp
<1> QED
  BY <1>1, <1>2, PTL

-----------------------------------------------------------------------------
\* The desks

\* A behaviour of the desks is one of each of their parts: the part starts as it
\* may, and what moves elsewhere leaves it alone.
LEMMA DesksAreTheirParts ==
  DesksSpec => /\ LoginSpec /\ PasswordsSpec /\ UsersSpec
               /\ AuditPageSpec /\ ReportsSpec /\ TillSpec /\ CartSpec
<1>1. DesksInit => /\ LoginInit /\ PasswordsInit /\ UsersInit
                   /\ AuditPageInit /\ ReportsInit /\ TillInit /\ CartInit
  BY DEF DesksInit
<1>2. [DesksNext]_desksVars => [LoginNext]_loginVars
  BY DEF DesksNext, desksVars, accountVars, listVars, moneyVars
<1>3. [DesksNext]_desksVars => [PasswordsNext]_passwordVars
  BY DEF DesksNext, desksVars, accountVars, listVars, moneyVars
<1>4. [DesksNext]_desksVars => [UsersNext]_userVars
  BY DEF DesksNext, desksVars, accountVars, listVars, moneyVars
<1>5. [DesksNext]_desksVars => [AuditPageNext]_auditPageVars
  BY DEF DesksNext, desksVars, accountVars, listVars, moneyVars
<1>6. [DesksNext]_desksVars => [ReportsNext]_reportVars
  BY DEF DesksNext, desksVars, accountVars, listVars, moneyVars
<1>7. [DesksNext]_desksVars => [TillNext]_tillVars
  BY DEF DesksNext, desksVars, accountVars, listVars, moneyVars
<1>8. [DesksNext]_desksVars => [CartNext]_cartVars
  BY DEF DesksNext, desksVars, accountVars, listVars, moneyVars
<1> QED
  BY <1>1, <1>2, <1>3, <1>4, <1>5, <1>6, <1>7, <1>8, PTL
  DEF DesksSpec, LoginSpec, PasswordsSpec, UsersSpec, AuditPageSpec, ReportsSpec,
      TillSpec, CartSpec

\* What holds of each part holds of the whole: every property of the desks' run,
\* of any desks.
THEOREM TheDesksAreSafe ==
  DesksSpec => /\ []LockMatchesCount /\ []CountsExpire
               /\ []SpentTokenIsClosed /\ []RecentIsDistinct
               /\ []AdminsRemain
               /\ []PanelIsAboutItsOrder /\ []PaidOnce
               /\ []TicketPlacedOnce
               /\ []ListIsCurrent
               /\ []ReportsAddUp
BY DesksAreTheirParts, LockAndCounterAgree, EveryCountExpires, TokensCloseBehindThem,
   HistoryStaysDistinct, AnAdministratorRemains, PanelsKeepApart, NobodyPaysTwice,
   OneTicketOneOrder, TheLogIsTheOneAskedFor, TheReportAddsUp
=============================================================================
