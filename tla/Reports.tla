------------------------------- MODULE Reports -------------------------------
(***************************************************************************)
(* The sales report: sums over rows whose timestamps fall into a range of  *)
(* calendar days.  Timestamps are UTC, the names of days are UTC, and the  *)
(* ends of days are those of the server's own zone.  Rows change while     *)
(* time goes on: an invoice is paid, and a refund takes it out of the      *)
(* sales altogether, a partial one too.                                    *)
(***************************************************************************)
EXTENDS Integers, FiniteSets, Functions

CONSTANTS
  Invoices,       \* invoices of orders that have been placed
  Amounts,        \* totals an invoice may have
  Methods,        \* ways of paying in use
  HoursPerDay,    \* bound: hours of the model's day
  LastDay,        \* bound: the last day; days are numbered from 1
  Zones           \* offsets of the server's zone from UTC, in hours

ASSUME ReportsAssumption ==
  /\ HoursPerDay \in Nat \ {0} /\ LastDay \in Nat /\ Zones \subseteq Int
  /\ IsFiniteSet(Invoices) /\ Amounts \subseteq Nat
  /\ Methods \subseteq {"CASH", "CARD", "MOBILE", "STRIPE"}

VARIABLES
  now,            \* the time, in hours
  zone,           \* the server's
  bill            \* invoice row: status, totalAmount, method and paidAt

reportVars == <<now, zone, bill>>

Days == 1 .. LastDay
Ranges == {r \in Days \X Days : r[1] <= r[2]}      \* what parseRange lets through
UtcDay(t) == t \div HoursPerDay
LocalDay(t) == (t + zone) \div HoursPerDay
Midnight(day) == day * HoursPerDay - zone          \* of a local day, in UTC

ReportsInit ==
  /\ now = HoursPerDay /\ zone \in Zones
  /\ bill = [i \in Invoices |-> [status |-> "UNPAID", amount |-> 0, method |-> "CASH", paidAt |-> 0]]

TimePasses ==
  /\ now < (LastDay + 1) * HoursPerDay - 1
  /\ now' = now + 1
  /\ UNCHANGED <<zone, bill>>

\* confirmPayment, of an invoice made out to a method, or the webhook, which
\* writes STRIPE.
PayBill(i, amount, method) ==
  /\ bill[i].status = "UNPAID"
  /\ bill' = [bill EXCEPT ![i] =
       [status |-> "PAID", amount |-> amount, method |-> method, paidAt |-> now]]
  /\ UNCHANGED <<now, zone>>

RefundBill(i, status) ==
  /\ bill[i].status = "PAID"
  /\ bill' = [bill EXCEPT ![i].status = status]
  /\ UNCHANGED <<now, zone>>

ReportsNext ==
  \/ TimePasses
  \/ \E i \in Invoices :
       \/ \E amount \in Amounts, method \in Methods : PayBill(i, amount, method)
       \/ \E status \in {"REFUNDED", "PARTIALLY_REFUNDED"} : RefundBill(i, status)

ReportsSpec == ReportsInit /\ [][ReportsNext]_reportVars

-----------------------------------------------------------------------------
\* Mutant: the range ends as the last day begins.
ParseRangeExclusive(s, e) == [start |-> s * HoursPerDay, end |-> e * HoursPerDay]

\* Both dates are UTC midnights; setHours moves the second to the end of the
\* local day it falls on.
ParseRange(s, e) ==
  [start |-> s * HoursPerDay,
   end |-> Midnight(LocalDay(e * HoursPerDay) + 1) - 1]

SalesIn(s, e) ==
  {i \in Invoices : bill[i].status = "PAID"
     /\ ParseRange(s, e).start <= bill[i].paidAt /\ bill[i].paidAt <= ParseRange(s, e).end}

Revenue(I) == SumFunctionOnSet([i \in Invoices |-> bill[i].amount], I)

\* The days the report lists: the UTC names of the local midnights from that of
\* the start on.
ListedDays(s, e) ==
  {UtcDay(Midnight(day)) : day \in {d \in 0 .. LastDay + 1 :
     LocalDay(s * HoursPerDay) <= d /\ Midnight(d) <= ParseRange(s, e).end}}

\* buildRevenueByDay
RevenueByDay(s, e) ==
  [day \in ListedDays(s, e) |-> Revenue({i \in SalesIn(s, e) : UtcDay(bill[i].paidAt) = day})]

\* buildPaymentMethodBreakdown knows CASH, CARD and MOBILE.
PaymentMethodBreakdown(s, e) ==
  [method \in {"CASH", "CARD", "MOBILE"} |->
     Cardinality({i \in SalesIn(s, e) : bill[i].method = method})]

-----------------------------------------------------------------------------
\* On a server that keeps UTC, a report of any range at any time has the sales
\* of all its days, the last one to its end, and the days add up to the total;
\* elsewhere sales near midnight fall out of the range or of the days.  Sales
\* paid through Stripe, and they only, are missing from the breakdown.
ReportsAddUp ==
  \A r \in Ranges :
    LET days == RevenueByDay(r[1], r[2])
        methods == PaymentMethodBreakdown(r[1], r[2])
        sold == SalesIn(r[1], r[2])
    IN /\ zone = 0 =>
            /\ sold = {i \in Invoices : bill[i].status = "PAID" /\ UtcDay(bill[i].paidAt) \in r[1] .. r[2]}
            /\ SumFunction(days) = Revenue(sold)
       /\ SumFunction(methods) = Cardinality({i \in sold : bill[i].method # "STRIPE"})

\* What the sums rest on: totals and hours are whole numbers, and methods known.
ReportsTypeOK ==
  /\ now \in Int /\ zone \in Zones
  /\ bill \in [Invoices ->
       [status : {"UNPAID", "PAID", "REFUNDED", "PARTIALLY_REFUNDED"}, amount : Nat,
        method : {"CASH", "CARD", "MOBILE", "STRIPE"}, paidAt : Int]]
=============================================================================
