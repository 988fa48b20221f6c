-------------------------------- MODULE Till --------------------------------
(***************************************************************************)
(* The billing page: one panel per browser in which a cashier makes an     *)
(* invoice and takes the money.  A submission goes on when its panel is    *)
(* closed (the cross, Escape, a click beside it) and another is opened,    *)
(* and its answers land in the panel that is open then.  The invoices are  *)
(* those of Billing, each call of the API one step; any answer may be lost.*)
(***************************************************************************)

CONSTANTS
  Tills,         \* browsers that show the page
  Bills,         \* orders on the list, READY or SERVED as it was loaded
  None           \* null

ASSUME TillAssumption == None \notin Bills

VARIABLES
  invoice,       \* invoice of an order: none, UNPAID or PAID
  charged,       \* orders Stripe has charged a card for
  inCash,        \* orders a cashier has confirmed as paid in cash
  till,          \* what the page of a browser keeps
  paying         \* stripe.confirmPayment under way: browser and order

tillVars == <<invoice, charged, inCash, till, paying>>

NoSubmission == [at |-> "idle"]

\* invoiceOrder, cardClientSecret (as the order it charges), cardPaymentSucceeded,
\* handlePanelSubmit in flight; history: an answer about another order landed here.
NoPanel(submission) ==
  [panel |-> None, secret |-> None, succeeded |-> FALSE, strayed |-> FALSE,
   submission |-> submission]

TillInit ==
  /\ invoice = [o \in Bills |-> "none"] /\ charged = {} /\ inCash = {}
  /\ till = [p \in Tills |-> NoPanel(NoSubmission)]
  /\ paying = {}

\* Mutant: opening a panel forgets to clear what the last one held.
OpenInvoicePanelOnly(p, o) ==
  /\ till[p].panel = None
  /\ till' = [till EXCEPT ![p].panel = o, ![p].strayed = FALSE]
  /\ UNCHANGED <<invoice, charged, inCash, paying>>

\* The list may be as old as it likes: it is loaded again only by a settlement.
OpenInvoicePanel(p, o) ==
  /\ till[p].panel = None
  /\ till' = [till EXCEPT ![p] = [NoPanel(@.submission) EXCEPT !.panel = o]]
  /\ UNCHANGED <<invoice, charged, inCash, paying>>

CloseInvoicePanel(p) ==
  /\ till[p].panel # None
  /\ till' = [till EXCEPT ![p] = NoPanel(@.submission)]
  /\ UNCHANGED <<invoice, charged, inCash, paying>>

\* What the open panel holds: the invoice form, whose button waits for isCreating;
\* then the card form; then the word of success.
InvoiceFormReady(p) ==
  till[p].panel # None /\ till[p].secret = None /\ till[p].submission = NoSubmission
CardFormShown(p) ==
  till[p].panel # None /\ till[p].secret # None /\ ~ till[p].succeeded
PAYMENT_METHODS == {"CASH", "CARD"}

\* handlePanelSubmit up to its first call.
HandlePanelSubmit(p, method) ==
  /\ InvoiceFormReady(p)
  /\ till' = [till EXCEPT ![p].submission =
       [at |-> "createInvoice", order |-> till[p].panel, method |-> method]]
  /\ UNCHANGED <<invoice, charged, inCash, paying>>

At(p, call) == till[p].submission.at = call
OrderOf(p) == till[p].submission.order

\* Mutant: an unpaid invoice that is there already is taken up.
CreateInvoiceReused(p) ==
  /\ At(p, "createInvoice")
  /\ IF invoice[OrderOf(p)] # "PAID"
     THEN /\ invoice' = [invoice EXCEPT ![OrderOf(p)] = "UNPAID"]
          /\ till' = [till EXCEPT ![p].submission.at =
               IF till[p].submission.method = "CASH"
               THEN "confirmPayment" ELSE "createPaymentIntent"]
     ELSE /\ till' = [till EXCEPT ![p].submission = NoSubmission]
          /\ UNCHANGED invoice
  /\ UNCHANGED <<charged, inCash, paying>>

\* An order has one invoice: 409 for the second, paid or not.
CreateInvoice(p) ==
  /\ At(p, "createInvoice")
  /\ IF invoice[OrderOf(p)] = "none"
     THEN /\ invoice' = [invoice EXCEPT ![OrderOf(p)] = "UNPAID"]
          /\ till' = [till EXCEPT ![p].submission.at =
               IF till[p].submission.method = "CASH"
               THEN "confirmPayment" ELSE "createPaymentIntent"]
     ELSE /\ till' = [till EXCEPT ![p].submission = NoSubmission]
          /\ UNCHANGED invoice
  /\ UNCHANGED <<charged, inCash, paying>>

\* Cash closes whatever panel is open and loads the lists again.
ConfirmPayment(p) ==
  /\ At(p, "confirmPayment")
  /\ IF invoice[OrderOf(p)] = "UNPAID"
     THEN /\ invoice' = [invoice EXCEPT ![OrderOf(p)] = "PAID"]
          /\ inCash' = inCash \cup {OrderOf(p)}
          /\ till' = [till EXCEPT ![p] = NoPanel(NoSubmission)]
     ELSE /\ till' = [till EXCEPT ![p].submission = NoSubmission]
          /\ UNCHANGED <<invoice, inCash>>
  /\ UNCHANGED <<charged, paying>>

\* The secret turns whatever panel is open into a card form.
CreatePaymentIntent(p) ==
  /\ At(p, "createPaymentIntent")
  /\ LET o == OrderOf(p)
         unpaid == invoice[o] = "UNPAID"
     IN till' = [till EXCEPT ![p].submission = NoSubmission,
                             ![p].secret = IF unpaid THEN o ELSE @,
                             ![p].strayed = @ \/ (unpaid /\ till[p].panel # o)]
  /\ UNCHANGED <<invoice, charged, inCash, paying>>

\* A call fails, or only its answer does; the page shows an error.
CallFails(p) ==
  LET call == till[p].submission.at  IN
  /\ call # "idle"
  /\ till' = [till EXCEPT ![p].submission = NoSubmission]
  /\ \/ UNCHANGED <<invoice, inCash>>
     \/ /\ call = "createInvoice" /\ invoice[OrderOf(p)] = "none"
        /\ invoice' = [invoice EXCEPT ![OrderOf(p)] = "UNPAID"] /\ UNCHANGED inCash
     \/ /\ call = "confirmPayment" /\ invoice[OrderOf(p)] = "UNPAID"
        /\ invoice' = [invoice EXCEPT ![OrderOf(p)] = "PAID"]
        /\ inCash' = inCash \cup {OrderOf(p)}
  /\ UNCHANGED <<charged, paying>>

-----------------------------------------------------------------------------
\* The card form

StartCardPayment(p) ==
  /\ CardFormShown(p)
  /\ <<p, till[p].secret>> \notin paying
  /\ paying' = paying \cup {<<p, till[p].secret>>}
  /\ UNCHANGED <<invoice, charged, inCash, till>>

\* The card is charged; the page hears of it, or of an error.
EndCardPayment(p, o) ==
  /\ <<p, o>> \in paying
  /\ paying' = paying \ {<<p, o>>}
  /\ \/ UNCHANGED <<charged, till>>
     \/ /\ o \notin charged
        /\ charged' = charged \cup {o}
        /\ \/ UNCHANGED till
           \/ till' = [till EXCEPT ![p].succeeded = TRUE,
                                   ![p].strayed = @ \/ till[p].panel # o]
  /\ UNCHANGED <<invoice, inCash>>

Webhook(o) ==
  /\ o \in charged /\ invoice[o] = "UNPAID"
  /\ invoice' = [invoice EXCEPT ![o] = "PAID"]
  /\ UNCHANGED <<charged, inCash, till, paying>>

\* Closes the panel; the polling that follows only loads the lists again.
HandleFinalizeCardPayment(p) ==
  /\ till[p].secret # None /\ till[p].succeeded
  /\ CloseInvoicePanel(p)

TillNext ==
  \/ \E p \in Tills :
       \/ \E o \in Bills : OpenInvoicePanel(p, o) \/ EndCardPayment(p, o)
       \/ CloseInvoicePanel(p)
       \/ \E method \in PAYMENT_METHODS : HandlePanelSubmit(p, method)
       \/ CreateInvoice(p) \/ ConfirmPayment(p) \/ CreatePaymentIntent(p)
       \/ CallFails(p)
       \/ StartCardPayment(p) \/ HandleFinalizeCardPayment(p)
  \/ \E o \in Bills : Webhook(o)

TillSpec == TillInit /\ [][TillNext]_tillVars

-----------------------------------------------------------------------------
\* The card form and the word of success in a panel are about the panel's own
\* order, and success is never claimed for a card that was not charged, unless
\* an answer to an earlier panel has landed in this one.
PanelIsAboutItsOrder ==
  \A p \in Tills : till[p].panel # None /\ ~ till[p].strayed =>
    /\ till[p].secret \in {None, till[p].panel}
    /\ till[p].succeeded => till[p].panel \in charged

\* Whatever the tills and the network do, no guest pays both by card and in
\* cash: the API would confirm cash for an invoice with a charge under way, but
\* only the till that made the invoice can go on with it, and one way only.
PaidOnce == charged \cap inCash = {}

\* The variables hold what the page keeps and the rows hold.
Submissions ==
  {NoSubmission} \cup
  [at : {"createInvoice", "confirmPayment", "createPaymentIntent"}, order : Bills,
   method : PAYMENT_METHODS]
TillTypeOK ==
  /\ invoice \in [Bills -> {"none", "UNPAID", "PAID"}]
  /\ charged \subseteq Bills /\ inCash \subseteq Bills
  /\ till \in [Tills -> [panel : Bills \cup {None}, secret : Bills \cup {None},
                         succeeded : BOOLEAN, strayed : BOOLEAN, submission : Submissions]]
  /\ paying \subseteq Tills \X Bills

\* The way an invoice was made for is the only one taken: an order is on its way
\* to a charge or to a confirmation, never both, and neither without an invoice.
ByCard(o) ==
  \/ o \in charged
  \/ \E p \in Tills : till[p].secret = o \/ <<p, o>> \in paying
  \/ \E p \in Tills : At(p, "createPaymentIntent") /\ OrderOf(p) = o
ByCash(o) ==
  \/ o \in inCash
  \/ \E p \in Tills : At(p, "confirmPayment") /\ OrderOf(p) = o
OneWay ==
  \A o \in Bills : /\ ~ (ByCard(o) /\ ByCash(o))
                   /\ ByCard(o) \/ ByCash(o) => invoice[o] # "none"

TillInv == TillTypeOK /\ OneWay /\ PanelIsAboutItsOrder
=============================================================================
