# TLA+ verification of the restaurant billing system

This directory models the restaurant billing system in TLA+: the server
(`src/api`, a NestJS application over PostgreSQL, Redis and Stripe) and those
pages of its web client (`src/web`, Next.js) whose own state matters. TLC checks
the models on small instances, and TLAPS proves theorems about them for every
value of their constants.

`modules/` and `common/` below mean `src/api/src/modules/` and
`src/api/src/common/`; `web/` means `src/web/src/`.

## 1. The system

### Parts, state and operations

| Part | State it keeps | Operations that change it |
| --- | --- | --- |
| Orders (`modules/orders`) | `Order`, `OrderItem`, `OrderStatusHistory` rows; writes `RestaurantTable.status` | create, updateItems, updateStatus, cancel |
| Billing (`modules/billing`) | `Invoice`, `RefundRequest` rows; writes order and table status | createInvoice, confirmPayment, createPaymentIntent, webhook succeeded / failed, requestRefund, approveRefund, rejectRefund |
| Stripe (external, behind `stripe.service.ts`) | PaymentIntents per idempotency key, events not yet acknowledged | a guest's payment, deliveries and their retries |
| Inventory (`modules/inventory`, its page) | `Ingredient`, `Supplier` rows; the edit form | create, update, adjustStock, decrementForOrder |
| Tables (`modules/tables`) | `RestaurantTable`, `TableAssignment` rows | create, update, remove, assignWaiter, releaseTable |
| Menu and uploads (`modules/menu`, `modules/upload`, their page) | categories, items, stored pictures; the item form | create, update, toggle, remove; upload and removal of a picture |
| Login (`modules/auth/auth.service.ts`, `ip-block.service.ts`) | failed attempts and lock of a user; Redis counter and block of an address | login, unlockAccount, unblockIp, expiry |
| Passwords (`auth.service.ts`) | hash, history of hashes, reset tokens | change, request reset, reset |
| Users (`modules/users`, their page) | `User` rows: role, active flag | create, update, deactivate |
| Sessions, guards, routing (`common/guards`, `web/context`, `web/lib/api.ts`, `web/lib/nav-items.ts`) | the session, the client's copy of the user, the page | login, MFA, `/auth/me`, logout, redirects, refusals |
| Billing page, order list, kitchen queue, order screen, audit page | a panel, lists on their way, a ticket, a filter | their buttons, and answers that arrive late or never |
| Audit log (`common/services`, `modules/audit`) | `AuditLog` rows | append |
| Reports (`modules/reports`) | none: sums over what others wrote | - |

### How the parts interact

Every operation of the server is an HTTP handler: it reads rows, tests what it
read, and then writes in one transaction (`prisma.$transaction`) or in several
statements, with an `await` before each. The handlers share rows and nothing else:

* `create` reads and writes the table's status; cancelling an order writes it
  AVAILABLE; so does a settlement, which also moves the order to BILLED;
* `createInvoice` reads the order's status and items, once;
* a settlement calls `decrementForOrder` after its commit and swallows its error;
* Stripe calls the webhook, again and again until it is answered 2xx; the
  webhook finds the invoice by the PaymentIntent id `createPaymentIntent` saved;
* tables, items and categories are kept from deletion by the rows of others,
  which the services test and the foreign keys decide;
* a page keeps what an earlier answer said, offers what follows from it, and sends
  it to a server that has moved on; its answers arrive in any order, into whatever
  the page shows by then.

### What makes it hard

PostgreSQL runs at READ COMMITTED and no handler locks or re-tests a row, so
whatever a handler tested may be stale when it writes. Two handlers of the same
row, two deliveries of one event, a cashier and Stripe, an edit and a status
change all race. A handler can end at any `await` (process death, an aborted
transaction, a deadlock victim, a failing Stripe call) and leaves what it had
committed. Redis counters and reset tokens are written in statements that are no
transaction. The client adds answers that are lost or cross each other. The
hazards, each with its line and the properties aimed at it, are listed in
`PROJECT.json`. There are no threads and no shared memory: JavaScript interleaves
at `await` only, which is the step granularity of the models.

## 2. Modules

| Module | Models | State and actions |
| --- | --- | --- |
| `OrderStatus` | the status enums, `ALLOWED_TRANSITIONS`, `TRANSITION_ROLES`, the tests of `updateStatus` | nested maps become sets of pairs and triples |
| `Orders` | `orders.service.ts` with the two writers it reads from (`toggleAvailability`, a manager's table update) | below |
| `KitchenPipeline` | the abstract promise of Orders: a stage is entered only by way of an entered stage, by somebody entitled | `entered` |
| `Billing` | `billing.service.ts`, the Stripe calls, the webhook, `decrementForOrder`, composed with all actions of `Orders` | below |
| `Ledger` | the abstract promise of Billing: books whose every write tests the books | `bill`, `claim` |
| `Tables`, `Stock`, `MenuBook` | the three services behind the floor, with the forms of the inventory and menu pages and the picture box | below |
| `Floor` | the three together | lets one of them move, see "Compositions" |
| `Login`, `Passwords`, `Users` | `auth.service.ts`, `ip-block.service.ts`, `users.service.ts` | below |
| `Till`, `Boards`, `Cart`, `AuditPage` | billing page; order list and kitchen queue; order screen; audit page with its listing | below |
| `Reports` | the sales report over moving time and server time zones | rows and a clock; the report is an operator |
| `Desks` | `Login`, `Passwords`, `Users`, `Till`, `Cart`, `AuditPage` and `Reports` together | lets one of them move |
| `Routes` | the `@Roles` decorators, `lib/api.ts`, `nav-items.ts`, what each page reads and where it redirects | constants only |
| `Access` | one browser of one staff member: session, guards, AuthContext, interceptors, redirects | below |
| `OrdersProofs`, `BillingProofs`, `HouseProofs`, `FloorProofs`, `MenuProofs`, `AccountsProofs`, `ScreensProofs` | TLAPS proofs | section 4 |
| `SumTheorems` | what the proofs about stock and reports use of sums over finite sets | section 4 |
| `MCOrders`, `MCBilling`, `MCFloor`, `MCDesks`, `MCBoards` | constants for TLC (`Access` needs none) | - |

### Orders

`orders`, `tables`, `available`, `history`, `audit` are the rows; `req[r]` is
what request `r` has read and the step it is at. One handler is a chain of
actions, one per `await` that separates a read from a write:

| Handler | Actions |
| --- | --- |
| `create` | `CreateRead` (table status), `CreateVerify` (items available), `CreateCommit` (table OCCUPIED, order, items, history row), `WriteAudit` |
| `updateItems` | `UpdateItemsRead` (access, OPEN), `UpdateItemsVerify`, `UpdateItemsDelete`, `UpdateItemsCommit`, `WriteAudit` |
| `updateStatus`, `cancel` | `UpdateStatusRead` (transition, role, ownership), `UpdateStatusCommit` (history row, order status, table freed on CANCELLED), `WriteAudit` |
| any | `Abandon`: an error or the death of the process |

Two details matter. The `deleteMany` of `updateItems` removes the rows its own
snapshot holds: rows a concurrent transaction has inserted and committed since
survive. The model therefore gives the rows written by one statement an identity
(`Batches`), and the transaction takes two steps: the snapshot, then the commit
that makes both statements visible. And the history row records the status that
was *read*, which need not be the status that is overwritten.

The items of an order are a set of (batch, menu item) pairs: quantities and
notes are left out. `Role` is constant. Wording, DTO validation other than "at
least one item", and the read-only handlers are left out.

### Billing

`Billing` extends `Orders`; its next-state relation contains all of `Orders`'
actions, so a waiter's stale status change can commit between any two steps of a
settlement. `breq` holds the billing handlers in flight.

* `CreateInvoiceRead`, `GenerateInvoiceNumber`, `CreateInvoiceInsert`: the number
  is a count taken before the insert; the unique columns `orderId` and
  `invoiceNumber` are guards of the insert (the insert fails otherwise).
* `ConfirmPaymentRead` / `WebhookRead`, then `Settle`, `DecrementRead`,
  `DecrementOne` (one atomic decrement per ingredient), `DecrementDone`,
  `Respond`. `DecrementDone` is also possible early, which is the swallowed error.
* `CreateIntentRead`, `CreateIntentCall`, `CreateIntentSave`; `GuestPays` is
  Stripe's side, possible once the client secret can have been answered. The
  idempotency key makes one PaymentIntent per invoice, hence `intents[i]`.
* `undelivered` holds the events not yet answered 2xx. A delivery does not leave
  the set until `Respond`, so the next delivery can start while the first one is
  being handled, or after it died.
* refunds: read, search for a pending one, insert; approve and reject read and
  then write without testing again.

`paidAt` counts the writes of that column, so that a second settlement shows.
Money is in cents; tax is rounded half up to the cent, as the decimal code does.
`BillingInit` starts from an empty house or from orders that are all READY with
the history they then have (`KitchenDone`): the second start makes the billing
handlers reachable in runs without order requests, and every such state is one
that `Orders` reaches.

### The floor: tables, stock, menu

In `Tables` and `MenuBook` a request is two actions, the tests (`CreateTable`,
`RemoveTable`, `NameCategory`, `SubmitForm`, ...) and the write (`WriteTable`,
`WriteCategory`, `WriteItem`, `WriteButton`). The write has the database's own
guard (unique number or name, foreign keys, row still there), which need not be
what was tested; where it refuses, the service throws what the client sees as a
bare 500. `raced` in a request says whether what it had looked up, a row or who has
a number, has changed since; it exists for the properties `InternalErrorsAreRaces` and
`MenuErrorsAreRaces`. `Unfit` are the table numbers that the DTOs let through and the
column cannot hold: they have a least value and no greatest, and an update takes a null.
`assignWaiter` is its transaction's two statements: `ReleaseHolders` takes the
rows its snapshot holds, `InsertAssignment` inserts and commits; `shared` says
that another assignment of the table committed in between. Orders, which hold
tables and items, are the environment actions `OrderMoves` and `DishIsOrdered`.

`MenuBook` has the item form of a page (`itemForm`) and its picture box (`task`):
saves, uploads and removals are answered later, into the form that is open then.
Names, prices and descriptions of items are left out.

`Stock` has the three writers of a quantity: a sale's atomic decrements, one per
ingredient; `adjustStock`, which writes what it computed from an earlier read;
and the edit form, which sends the quantity it was opened with. `books` is what
the stock would be if every change counted. An ingredient that has no row has the
supplier "absent" and no stock.

### Accounts: login, passwords, users

A login (`login[l]`) goes from `LoginStart` (block of the address) by `LoginFind`
(lock, password) to `LoginSucceeds`, or to `CountFailure` (an atomic increment),
`LockAccount`, `CountLockout` (INCR), `StartWindow` (EXPIRE) or `BlockAddress`.
`LockRunsOut`, `WindowRunsOut` and `BlockRunsOut` let time run, `LoginDies` ends a
login anywhere. `resetPassword` is `ResetFind`, `ResetRead`, `ResetWrite`,
`ResetMark`, `ResetCloseOthers`, which are no transaction. A request of the users
page passes `RolesGuard` and the tests in `UpdateBegin` or `CreateBegin` and writes
later, when the one who asked may have been changed.

### The browser: Access and Routes

`Access` follows one browser: `sess` is the session behind its cookie, `staff` the
`User` row, `me` the client's copy, `page` the address, `reads` the requests its pages
have sent. `ReceiveMe` is the answer of `/auth/me`; `Land` says where the effects of
AuthContext, the layouts and the page leave a browser; `Load` is `window.location`,
`Show` is `router.push`; `ReceiveRefusal` is the response interceptor. `MfaRefused` is
the API's refusal of a code: without a session the page for the code gives way to the
login, with one, of a user who has no secret, it stays. An administrator changes role
and active flag, the password ages, MFA is set up, the session ends, `/auth/me` comes to
nothing (`MeFails`: no connection, 429, 500), addresses are typed by hand (`Meddle`).
After such a failure AuthContext has no user, and a page that was loading gives way to
the login; a form shows the error and stays. `Routes` is the table of who may call what
and which page calls it, from the decorators, `api.ts`, `nav-items.ts` and the pages.

### The pages

`Till`: panel, card form and submission of a browser; each call of the API is one step
that the server performs or refuses, and any answer may be lost. `Boards`: lists fetched
and shown in any order, presses, `busyId`. A press is read and tested by the API in
`UpdateStatusRead` and written, without another look, in `UpdateStatusCommit`;
`TicketMoves` are the other writers of an order, those included who write what they
tested earlier. `busyId` holds one order, so two presses about an order that was not
pressed last can be in flight together; an answer can be lost (`LosePress`), and the
page can be left while its calls go on (`OpenPage`). The list after a press, and a
page's first, are read as they arrive: what is older by then ages at once. `Cart`: the
ticket, `Place` and the time until the screen is gone; the link back works at any time,
and an order in flight goes on as one of `strays`, whose late `router.push` takes
whatever screen is open. `AuditPage`: loads in flight with filter and page. `Reports`:
`parseRange`, the range query and both breakdowns, with the server's zone as an offset.

### Compositions

`Billing` composes orders and books; they share rows. `Floor` and `Desks` put parts side
by side that share no row and no key: each names what the others do to it as environment
actions. `Boards` has a run of its own. In a behaviour of `Floor` or `Desks` one part
moves, so states add up instead of multiplying. Nothing is lost, because no property of
either relates two parts; nothing is gained either but one run for many parts.

## 3. What the runs check

Bounds. `Requests`, `Handlers`, `Askers`, `Callers`, `Logins`, `Changers`, `Jobs`,
`Presses` and `Tills` are slots for what is in flight: with two of each kind every race
of two happens, and every property relates at most two writers of one row. `Batches`
bounds the sets of rows alive at once (a batch is free again when no row and no open
transaction holds it): three for two edits of one placed order, one where edits are not
the question (an edit then ends before its commit). `Methods` are the ways of paying in
use; two that the report's breakdown knows and one that it does not. `Amounts`,
`Discounts` and the price 8 with 13% tax (total 9) let a refund be for the whole and for
a part of it. `PayAtTill` and `TableEdits` switch scenarios off in runs that do not need
them. History and audit are sets and finite for finite constants, so `Orders` and
`Billing` need no bound but for `paidAt` and the stock, which the number of UNPAID reads
in flight bounds. `OneAccount` keeps `Billing_books` to the claims on one invoice or to
two invoices without claims: a claim reads and writes its own invoice only, and numbers
are about invoices only. `Ids` are ids of assignment rows, used again after a release:
two are two holders of one table. Limits of the code (five failures, three lockouts,
five remembered passwords) are the constants `MaxFailed`, `BlockAfter` and
`HistoryLimit`, two in the run; three passwords are one more than the history holds.
`CountBound` stops counters above both limits. `MaxReplies`, `MaxLoads`, `MaxReads`
bound answers on their way, `MaxQuantity`, `MaxPlaced`, `MaxPages` what a user does
again and again, `MaxStrays = 1` the orders in flight of screens that were left;
`MaxMeddling = 3` lets three outside events hit one browser, such as a lost session, a
change of role and a failing `/auth/me`. One unfit table number (`Unfit`) is as good as
many. A day of three hours with zones -1, 0 and 1 has every order of a local and a UTC
midnight and a sale.

| Run | Question | Instance |
| --- | --- | --- |
| `Orders_race` | Do the history, the kitchen's work, the audit log and the refinement of `KitchenPipeline` survive two racing requests over the whole life of an order? | 1 order, waiter, cook, cashier, 2 requests |
| `Orders_edit` | Is the inductive invariant of the proofs true, and an order never empty, with two overlapping edits, cancels, a manager's hand on the table and the availability switch? | 1 order, 3 batches, two waiters and a manager, 2 requests |
| `Billing_settle` | From the placing on: is only finished food billed, BILLED explained, and settled stays settled, with till, Stripe and a stale waiter racing? Is a charge settled or still announced? Is `HouseInv` of the proofs true? | 1 order, 1 request, 2 handlers |
| `Billing_books` | Are invoice numbers 1..n, though counted before the insert? Are refunds of settled invoices, four-eyed, within the total each, and reversals decided? Do the handlers implement `Ledger`? Is `LedgerInv` of the proofs true? | 2 orders, 2 invoices, 2 requests for a refund, 2 deciders |
| `Billing_live` | Is a charge at Stripe booked in the end, whichever deliveries fail or overlap with each other and the cashier? | fair specification, 1 invoice, 1 ingredient, 2 handlers |
| `Access` | Are linked pages served (`LinkedIsServed`), is nobody with a whole session thrown out without a cause (`ThrownOutRightly`), does an active user get back to work (`GetsToWork`)? | all roles, with and without MFA, 3 outside events |
| `Floor` | Which rows can races spoil at tables, stock and menu, and who is answered with a bare 500? | 2 tables, a number beyond the column, 2 ingredients, 2 sales, 2 dishes, 1 picture, 2 requests |
| `Desks` | What do logins, resets, user management, the pages and the report promise under races, deaths and lost answers? | two of almost everything, see `Desks.cfg` |
| `Boards` | Does a button on a list of any age do what it says or nothing, though the API writes what it read earlier? | all roles, 2 orders, 2 presses and 1 list in flight |
| `Orders_listed`, `Orders_table`, `Billing_stock` | Statements of the source that the code does not keep (section 5) | expected violations |

What the properties of the newer runs say, with the exceptions they name (each
exception is a behaviour TLC shows to occur; without it the property fails):

* `ChargeIsKept`: whatever crashes, fails or overlaps, an invoice paid at Stripe is
  settled or its event is still to be delivered (what `ChargeIsBooked` says under
  fairness, without it).
* `ImplementsLedger`: each write of a handler is one that `Ledger` allows in the books
  as they are then: a number is the next one, an order has one invoice, a claim is
  of a settled invoice within its total, a decision is a manager's or an admin's, who
  grants none of their own, and reverses the invoice in the same step. `Ledger` admits
  what the code does: a second settlement and a second decision.
* `OneWaiterPerTable`: one active assignment per table, unless the assignments of
  it overlapped and none has had the table to itself since. `tables.service.ts:138`
  promises "at most one" without the exception.
* `InternalErrorsAreRaces`, `MenuErrorsAreRaces`: a bare 500 goes to requests that
  another overtook, by changing what they had looked up, or that the database refuses
  though the service's own tests pass: a table number beyond the column, the deletion
  (and nothing else) of a table ever assigned, the deletion of an item of past orders.
* `StockIsAccounted`: stock is what was counted, added and taken by hand less all
  sales, but for what a sale has yet to take or failed to take, until a quantity is
  written over one its writer had not read.
* `PicturesAreNotShared`: two items show one picture only after an answer to a save
  was lost. A picture chosen for one item can land in the form of another.
* `LockMatchesCount`, `CountsExpire`: see the modules for the exceptions: a lock
  that ran out keeps its counter, so one more failure locks again; a login that
  dies between INCR and EXPIRE leaves a count for ever.
* `SpentTokenIsClosed`, `RecentIsDistinct`: a token that changed the password is
  closed unless the reset stands or died between its statements; overlapping changes
  never leave a history with repetitions or without the current password.
* `AdminsRemain`: an active administrator remains, unless a change was written in
  the name of somebody no longer administrator.
* `PanelIsAboutItsOrder`, `PaidOnce`, `TicketPlacedOnce`, `ListIsCurrent`,
  `ReportsAddUp`: the pages, with `strayed`, `doubted`, `hasty` and `outrun` naming the
  late or lost answers that break the first ones. `TicketPlacedOnce` includes orders in
  flight of screens that were left: each is the first of its ticket.
* `ButtonsKeepTheirWord`: the API refuses a press exactly when the order is no longer
  as the page showed it when it was pressed; what it performs goes to the status on the
  button, and starts from the one shown unless the order was changed after the API had
  read it (`overtaken`). That exception is real: send one order, press another, and
  cancel the first; both requests read OPEN and both commit.
* `ThrownOutRightly`: in a whole session a page gives way to the login only by a logout,
  a typed address, a refusal that was under way before, or a page load whose `/auth/me`
  comes to nothing (`auth.context.tsx:69`).
* `GetsToWork`: who stays active gets back to work again and again, or is at the page
  that asks for a code with a session and no code to give (`AskedForNoCode`): a user
  without MFA comes there by a typed address only, and it has no way on.

Fairness. `Billing_live`: weak fairness of each handler's steps (the process runs a
handler it started to its end, or the handler fails: `AbandonBilling` is one of
those ends); strong fairness of a delivery being taken up (Stripe repeats a delivery
until it is answered 2xx, and a slot becomes free again and again); strong fairness
of `Settle` (the settlement transaction does not fail every time it is tried; without
it no retry could ever help). Nothing is assumed of staff or guests.
`Access`: weak fairness of the API's and the browser's answers (the server answers
each request, the interceptor runs), and of the user signing in, entering the code,
changing an expired password and following some link. Nothing is assumed of logouts,
administrators, time or typed addresses; these and failures of `/auth/me` are the outside
events that come to an end at their bound: nobody gets to work while every `/auth/me`
fails. `GetsToWork` is about users who in the end stay active.

Deadlock is checked in the runs of orders, books and boards; the availability switch keeps
that system from stopping, so a stuck handler shows only in the liveness run.
`Access`, `Floor` and `Desks` switch it off: a dismissed user, a full floor and an
account with no free password may stop.

Mutants. For each property of a passing run, `PROJECT.json` names a mutation of
one definition that the property catches (written beside it and marked "Mutant"): a
missing role test, a missing history row, an event acknowledged on receipt, a form
that opens as the last one was left, a stock that is never taken below zero, a range
that ends as its last day begins, and so on.

## 4. What is proved

Every theorem is proved for all values of the constants that the named `ASSUME`s
of its module admit; TLC evaluates those on each run. Each argument is by an
inductive invariant that TLC has checked, too. With these, every safety and action
property that a run checks and finds true is a theorem.

| Module | Theorem | Statement | Invariant |
| --- | --- | --- | --- |
| `OrdersProofs` | `TypeCorrect`, `Invariance` | `Spec => []TypeOK`, `[]IInv` | `IInv` |
| | `HistoryEarned` | `Spec => []HistoryIsEarned` | `IInv` |
| | `KitchenNeverSkipped` | `Spec => []CookedBeforeServed` | `IInv` |
| | `NeverEmpty` | `Spec => []OrderNeverEmpty` | `IInv` |
| | `StatusRecorded`, `AuditTrue` | `Spec => []StatusIsRecorded`, `[]AuditIsTrue` | `IInv` |
| | `Refinement` | `Spec => ImplementsPipeline` | `IInv` |
| `BillingProofs` | `LedgerInvariance` | `BillingSpec => []LedgerInv` | `LedgerInv` |
| | `NumbersSequential`, `SettledForGood` | `BillingSpec => []NumbersAreSequential`, `[]PaidStaysPaid` | `LedgerInv` |
| | `RefundsOfPaid`, `SeparationOfDuties`, `ReversalsDecided` | `BillingSpec => []RefundsAreOfPaid`, `[]FourEyes`, `[]ReversalWasDecided` | `LedgerInv` |
| | `NoChargeIsLost` | `BillingSpec => []ChargeIsKept` | `LedgerInv`, `ChargesInv` |
| | `BooksAreALedger` | `BillingSpec => ImplementsLedger` | `LedgerInv` |
| `HouseProofs` | `HouseInvariance`, `OrdersBesideBilling`, `BillingTypes` | `BillingSpec => []HouseInv`, `[]IInv`, `[]BTypeOK` | `HouseInv` |
| | `BilledWasCooked`, `BilledHasReason` | `BillingSpec => []InvoicedWasCooked`, `[]BilledIsExplained` | `HouseInv` |
| `FloorProofs` | `ATableHasOneWaiter`, `TableErrorsAreRaces` | `TablesSpec => []OneWaiterPerTable`, `[]InternalErrorsAreRaces` | `TablesInv` |
| | `TheStockIsAccountedFor` | `StockSpec => []StockIsAccounted` | `StockInv` |
| | `TheFloorIsSafe` | `FloorSpec =>` all five invariants of its run | those of its parts |
| `MenuProofs` | `APictureHasOneHome`, `MenuErrorsAreFromRaces` | `MenuSpec => []PicturesAreNotShared`, `[]MenuErrorsAreRaces` | `MenuInv` |
| `AccountsProofs` | `AnAdministratorRemains` | `UsersSpec => []AdminsRemain` | `UsersInv` |
| | `LockAndCounterAgree`, `EveryCountExpires` | `LoginSpec => []LockMatchesCount`, `[]CountsExpire` | `LoginInv` |
| | `HistoryStaysDistinct`, `TokensCloseBehindThem` | `PasswordsSpec => []RecentIsDistinct`, `[]SpentTokenIsClosed` | `PasswordsInv` |
| | `LinksAreServed`, `NobodyIsThrownOut` | `AccessSpec => []LinkedIsServed`, `ThrownOutRightly` (an action property) | `AccessInv` |
| `ScreensProofs` | `NobodyPaysTwice`, `PanelsKeepApart` | `TillSpec => []PaidOnce`, `[]PanelIsAboutItsOrder` | `TillInv` |
| | `OneTicketOneOrder` | `CartSpec => []TicketPlacedOnce` | `CartInv` |
| | `TheLogIsTheOneAskedFor` | `AuditPageSpec => []ListIsCurrent` | `AuditPageInv` |
| | `AButtonIsItsWord` | `BoardsSpec => ButtonsKeepTheirWord` (an action property) | `BoardsInv` |
| | `TheReportAddsUp` | `ReportsSpec => []ReportsAddUp` | `ReportsTypeOK` |
| | `TheDesksAreSafe` | `DesksSpec =>` all ten properties of its run | those of its parts |
| `SumTheorems` | only lemmas: `SumWithout`, `SumOfUnion`, `SumByGroups`, ... | sums over finite sets go by members, by parts and by groups | - |

`TheFloorIsSafe` and `TheDesksAreSafe` rest on the fact that every behaviour of a
composition is one of each of its parts (`FloorHasTables`, ..., `DesksAreTheirParts`):
a part starts in one of its initial states, and a step either is one of its own or
leaves its variables alone.

**Orders.** A row of `orders` says little, since a stale request may overwrite
any status by any other. What survives a race is the history: it only grows, and
each row joins a status that had been entered before to the one it enters. So a
request in flight carries a move whose source status *is in the history*
(`RequestsAreEarned`); that stays true whatever commits in between; hence the row
it adds is earned (`HistoryIsEarned`); and the status it writes is recorded
(`StatusIsRecorded`). `IInv` is the conjunction of these with `TypeOK`,
`OrderNeverEmpty`, `AuditIsTrue` and the fact that only existing orders have a
history (`HistoryOfOrders`). `CookedBeforeServed` follows without induction: a READY
order has a row into READY, the only listed transition into it is the cook's from
PREPARING, which was entered by the cook's from SENT_TO_KITCHEN, and so on down the
chain. `Refinement` maps the history to the abstract `entered`: commits are `Place`
or `Enter` steps, or stutter when an equal move was made before.

**Books.** The handlers write what they tested earlier, so the invariant has to say
what a handler in flight still knows: `Holds`. Everything in it is of a kind that
later writes cannot take away: an invoice that exists goes on existing for the same
total, one that was settled stays settled, a refund request keeps its invoice, its
amount and who asked for it (`RowsGrow`). Invoice numbers are the one place where the
held value is really stale: the count a handler holds is at most the next number,
every smaller number is taken, and the unique column refuses those, so an insert
that succeeds takes exactly the next one. `HouseInv` joins `IInv` and `LedgerInv` by
`BillsAreOfOrders`: a handler about to insert an invoice read READY or SERVED, so the
cook's row was in the history, and since histories only grow it is there at the
insert, whatever became of the order's status.

`ChargesInv` adds what Stripe's side rests on: a handler that answers 2xx has a
settlement behind it (`HandlersAreBehind`), an intent is saved before it can be paid,
and of an invoice that was issued (`IntentsAreOfInvoices`). So the one step that takes
an event out of `undelivered` finds its invoice settled. `BooksAreALedger` maps rows to
`bill` and `claim` and shows step by step, with `LedgerInv` and `Holds`, that the tests a
handler made long before its write still hold where `Ledger` makes them, at the write;
all other steps stutter.

**Tables.** An assignment that shared its table with nobody has found every holder
of it (`HoldersAreFound`), so it leaves one. A request nobody has overtaken would
still pass its tests (`AsksStand`), and numbers differ (`NumbersDiffer`), so the
database refuses it only what the tests do not look at: assignments of a table, and
whether a number fits (`Foreseeable`).

**Stock.** `Untaken(i)` is a sum over the sales that still owe of ingredient `i`. A sale
that starts books its amounts and joins that set, one that takes leaves it, so the
account moves by the same amount on both sides (`SumWithout`); a sale that fails stays
in it for ever. A form that overwrites what it read is booked as the change it stands
for, any other sets `lost`. The invariant also says that forms and sales are about
ingredients that have a row (`ChangesAreOfKept`), so that a new one starts with nothing
owed.

**Sums.** The library's induction theorems take an operator as parameter, which the
provers cannot instantiate. `SumTheorems` does without: a set of counterexamples among
the subsets of a finite set has a smallest member (`SmallestSubset`, from the
well-foundedness of the strict subset ordering, `WFMin`), and a smallest counterexample
is refuted by the one element it has more. So the fold of the community modules,
`SumFunctionOnSet`, is shown to have one value whatever element its CHOOSE picks.

**Menu.** The same for its requests (`RequestsStand`). For the pictures, each has one
*home* (`PicturesHaveOneHome`): the item that shows it, or the item that a form or a
request is about to give it to; a picture being uploaded has none yet. Saving a new
item moves its picture's home from the page to the item, and only a form that stays
open, its answer lost, keeps the old home beside the new one.

**Accounts.** The guard of the users page keeps people from changing themselves, so
an administrator written about by another leaves that other one, unless he was
changed meanwhile (`crossed`). Lock and counter agree since the step that makes them
differ is either the one to lock or excuses itself. The history a change is about to
write holds different passwords and not the new one, since both were read together. For `Access` the invariant says that every request under way is
one that its page makes for the role the page was loaded with (`ReadsAreOfPages`); that
the API serves those to the roles the page is linked for is then a fact about the
tables of `Routes`, decided page by page (`LinksAreServed`).

**Screens.** An order's only invoice belongs to the submission that made it, and that
goes one way, by card or by cash (`OneWay`); hence nobody pays both. A ticket that was
placed is known to the screen that leaves, or is in doubt. The rows of the audit page
answer the last request unless they were outrun (`ViewIsAskedFor`). A press in flight
was offered for what the page showed (`PressIsOffered`), and of what is offered every
move is one the API performs exactly from there; what it has read then stands until
somebody writes the order, who thereby overtakes the press (`ReadsStand`).

**Reports.** On a server that keeps UTC the range of days `s` to `e` has exactly the hours
whose day is one of them (`HoursOfRange`), and the listed days are these; the sales of a
range fall into groups by day, and a sum by groups is the sum (`SumByGroups`).

Only model-checked: the two liveness properties, `ChargeIsBooked` and `GetsToWork`, which
need fairness and ENABLED, out of the prover's reach; and the three statements that the
code violates. The safety that `ChargeIsBooked` rests on is proved (`NoChargeIsLost`).

## 5. Where the code and its own statements differ

* `Orders_listed`: two status changes that read OPEN both commit; an order leaves
  CANCELLED for SENT_TO_KITCHEN. The statement is `orders.service.ts:10`, "Any
  (from, to) pair not listed here is rejected outright". The same stale test lets an
  edit of items commit after the order was sent (`orders.service.ts:177`).
* `Orders_table`: two orders on one table, one request at a time: cancelling one
  frees the table under the guests of the other (`orders.service.ts:251`).
* `Billing_stock`: two overlapping deliveries of one event both settle and both
  take the stock (`billing.service.ts:250`). The second also writes `paidAt` again.

The models contain these further behaviours, which no run singles out:

* two edits of items overlap: the rows of both stay (`orders.service.ts:183`);
* two refund requests both find none pending and both are approved; an approval and
  a rejection both read PENDING, and the invoice is reversed though the request ends
  REJECTED (`billing.service.ts:337`, `:375`);
* two resets that found one live token both change the password;
* two assignments of a table overlap and leave two holders (`tables.service.ts:138`);
* a table once assigned cannot be deleted, nor an item of past orders: a bare 500
  (`tables.service.ts:93` reads as if the count sufficed);
* a picture removed in the item form is deleted at once, but an item saved without
  one keeps its old column; a picture replaced leaves its old file;
* a panel closed while an invoice is being made, or a lost answer, leaves an UNPAID
  invoice that the page cannot reach any more: it makes a second one and gets 409;
* sales paid through Stripe are missing from the breakdown by method; a partial
  refund takes the whole invoice out of the sales; on a server that does not keep
  UTC, sales near midnight fall out;
* a table number beyond four bytes, or a null in an update, passes the DTO and ends in a
  bare 500 (`tables.dto.ts:5`, `:16`);
* any failure of `/auth/me` while a page loads shows the login in a session that is whole
  (`auth.context.tsx:69`, `layout.tsx:32`);
* a user without MFA who opens the page for the code is refused there, told the code is
  invalid, and stays (`auth.service.ts:443`, `mfa-verify/page.tsx:57`);
* two buttons of one page about one order can both be performed
  (`orders/page.tsx:87` holds back one order's only);
* the order screen and the billing page load for roles whose calls the API refuses
  when their address is typed by hand.

## 6. Not modelled

* Audit rows of the services other than Orders, and the audit interceptor; the
  webhook for failed payments (it only writes an audit row); listings that no page
  above depends on (they change nothing).
* The expiry of Stripe's idempotency keys and the calendar year in an invoice number.
* The captcha, TOTP arithmetic, rate limits, the magic-byte test of uploads: they
  decide success or failure, which the models choose freely.
* Inventory, staff and refund reports and the top items: one query each.
* The refund window of the billing page, expandable histories and notes of the order
  pages, profile edits, the login page's own fields, `register` (no page calls it).
* HTTP plumbing, headers, styling, start-up code and the seed but for its first
  administrator.
* The locks PostgreSQL takes: a victim of its deadlock detection is an abandoned
  request.

## 7. What could follow

The audit rows of the other services; several browsers of one user in `Access`; the
availability that managers wanted of a dish against two toggles that cancel each other.
