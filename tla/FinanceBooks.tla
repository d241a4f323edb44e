------------------------------ MODULE FinanceBooks ------------------------------
(***************************************************************************)
(* The figures of the back office: the ledger, the commission report, the  *)
(* accounting export (finance.repository.ts), the overview, the reports    *)
(* and the statistics of the administrators (admin.repository.ts,          *)
(* operations.routes.ts) and the dashboard of a host (host.repository.ts), *)
(* each a query of its own over the same bookings, payments and rates.     *)
(* Amounts are whole cents; a currency is its rate to the euro.            *)
(***************************************************************************)
EXTENDS Integers, Sequences, FiniteSets, FiniteSetsExt

CONSTANTS Host,
          Booking,
          Charge,       \* what a stay can cost: [from, to, total, fx]
          Totals,       \* totals an administrator can set
          Percent,      \* commission rates
          DefaultRate,  \* the platform's rate before anybody sets one
          Unit,         \* parts of a cent a euro amount is counted in
          MonthLength,  \* days of a month
          MaxMonth,     \* bound: months
          MaxChanges,   \* bound: commission rates and totals changed
          ShortProducts, \* <<total, rate>> whose product is short as a double
          ShortSums,    \* sums of commissions that are short as a double
          None

VARIABLES booking,      \* rows of booking, with the host of its listing or None
          pay,          \* rows of payment by booking, oldest first
          commission,   \* host_commission, None without a row
          platform,     \* platform_settings.commission_rate
          month,        \* the current month
          changes

vars == <<booking, pay, commission, platform, month, changes>>

Month   == 1 .. MaxMonth
NoRow   == [status |-> "none"]
Exists  == {b \in Booking : booking[b].status # "none"}
Earning == {b \in Booking : booking[b].status \in {"confirmed", "completed"}}

TypeOK ==
    /\ \A b \in Exists :
           /\ booking[b].host \in Host \cup {None} /\ booking[b].month \in Month
           /\ booking[b].rate \in Percent \cup {None}
           /\ booking[b].status \in {"pending", "confirmed", "completed", "cancelled", "declined"}
           /\ Len(pay[b]) \in 1 .. 2
    /\ commission \in [Host -> Percent \cup {None}]
    /\ platform \in Percent
    /\ month \in Month
    /\ changes \in 0 .. MaxChanges

Init ==
    /\ booking = [b \in Booking |-> NoRow]
    /\ pay = [b \in Booking |-> <<>>]
    /\ commission = [h \in Host |-> None]
    /\ platform = DefaultRate
    /\ month = 1
    /\ changes = 0

-------------------------------------------------------------------------------
(* Bookings and payments, as far as the figures read them                  *)

HostRate(h) == IF h \in Host /\ commission[h] # None THEN commission[h] ELSE platform

Row(h, c, rate) ==
    [host |-> h, from |-> c.from, to |-> c.to, total |-> c.total, fx |-> c.fx,
     rate |-> rate, month |-> month, status |-> "pending"]

\* Mutation of InsertBooking: the rate is left to be looked up.
InsertBooking_NotFrozen(b, h, c) ==
    /\ b \notin Exists
    /\ booking' = [booking EXCEPT ![b] = Row(h, c, None)]
    /\ pay' = [pay EXCEPT ![b] = <<[status |-> "pending", refunded |-> 0]>>]
    /\ UNCHANGED <<commission, platform, month, changes>>

\* createBooking: the commission rate of the day is frozen in the row, and a
\* payment row waits for the guest's first attempt.
InsertBooking(b, h, c) ==
    /\ b \notin Exists
    /\ booking' = [booking EXCEPT ![b] = Row(h, c, HostRate(h))]
    /\ pay' = [pay EXCEPT ![b] = <<[status |-> "pending", refunded |-> 0]>>]
    /\ UNCHANGED <<commission, platform, month, changes>>

\* Mutation of RecordIntent: every event of an attempt inserts a row.
RecordIntent_Again(b, status) ==
    /\ b \in Exists /\ booking[b].status = "pending" /\ Len(pay[b]) < 3
    /\ pay' = [pay EXCEPT ![b] = Append(@, [status |-> status, refunded |-> 0])]
    /\ UNCHANGED <<booking, commission, platform, month, changes>>

\* recordStripePayment: the attempt at the payment provider has a row of its own.
RecordIntent(b, status) ==
    /\ b \in Exists /\ booking[b].status = "pending" /\ Len(pay[b]) = 1
    /\ pay' = [pay EXCEPT ![b] = Append(@, [status |-> status, refunded |-> 0])]
    /\ UNCHANGED <<booking, commission, platform, month, changes>>

SetStatus(b, status) == booking' = [booking EXCEPT ![b].status = status]
SetPayment(b, status, refunded) ==
    pay' = [pay EXCEPT ![b][2] = [status |-> status, refunded |-> @.refunded + refunded]]

Confirm(b) ==
    /\ b \in Exists /\ booking[b].status = "pending" /\ Len(pay[b]) = 2
    /\ pay[b][2].status \in {"pending", "authorized", "paid"}
    /\ SetStatus(b, "confirmed") /\ SetPayment(b, "paid", 0)
    /\ UNCHANGED <<commission, platform, month, changes>>

\* A request that is turned down gives the money back; one never paid is swept.
Close(b, status) ==
    /\ b \in Exists /\ booking[b].status = "pending"
    /\ SetStatus(b, status)
    /\ IF Len(pay[b]) = 1 THEN pay' = [pay EXCEPT ![b][1].status = "failed"]
       ELSE IF pay[b][2].status \in {"authorized", "paid"} THEN SetPayment(b, "refunded", booking[b].total)
       ELSE SetPayment(b, "failed", 0)
    /\ UNCHANGED <<commission, platform, month, changes>>

\* A cancellation gives back what the policy says, in full, in part or nothing.
Cancel(b, share) ==
    /\ b \in Exists /\ booking[b].status = "confirmed"
    /\ SetStatus(b, "cancelled")
    /\ IF share = 0 THEN UNCHANGED pay
       ELSE SetPayment(b, "refunded", (booking[b].total * share) \div 100)
    /\ UNCHANGED <<commission, platform, month, changes>>

Complete(b) ==
    /\ b \in Exists /\ booking[b].status = "confirmed"
    /\ SetStatus(b, "completed")
    /\ UNCHANGED <<pay, commission, platform, month, changes>>

\* adjustBooking: a new total, of a booking in any state, not below the refunds.
AdjustBooking(b, total) ==
    /\ b \in Exists /\ changes < MaxChanges
    /\ \A i \in DOMAIN pay[b] : total >= pay[b][i].refunded
    /\ booking' = [booking EXCEPT ![b].total = total]
    /\ changes' = changes + 1
    /\ UNCHANGED <<pay, commission, platform, month>>

\* setHostCommission, None removes the row; and the platform's own rate.
SetHostCommission(h, rate) ==
    /\ changes < MaxChanges
    /\ commission' = [commission EXCEPT ![h] = rate]
    /\ changes' = changes + 1
    /\ UNCHANGED <<booking, pay, platform, month>>

SetPlatformRate(rate) ==
    /\ changes < MaxChanges
    /\ platform' = rate
    /\ changes' = changes + 1
    /\ UNCHANGED <<booking, pay, commission, month>>

\* A host whose account is deleted: its listings stay, without a host, and its
\* own rate goes (the foreign keys of property and host_commission).
RemoveHost(h) ==
    /\ booking' = [b \in Booking |-> IF b \in Exists /\ booking[b].host = h
                                     THEN [booking[b] EXCEPT !.host = None] ELSE booking[b]]
    /\ commission' = [commission EXCEPT ![h] = None]
    /\ UNCHANGED <<pay, platform, month, changes>>

NextMonth ==
    /\ month < MaxMonth
    /\ month' = month + 1
    /\ UNCHANGED <<booking, pay, commission, platform, changes>>

Next ==
    \/ \E b \in Booking :
          \/ \E h \in Host \cup {None}, c \in Charge : InsertBooking(b, h, c)
          \/ \E s \in {"pending", "authorized", "failed"} : RecordIntent(b, s)
          \/ Confirm(b) \/ Complete(b)
          \/ \E s \in {"declined", "cancelled"} : Close(b, s)
          \/ \E share \in {0, 50, 100} : Cancel(b, share)
          \/ \E t \in Totals : AdjustBooking(b, t)
    \/ \E h \in Host, r \in Percent \cup {None} : SetHostCommission(h, r)
    \/ \E r \in Percent : SetPlatformRate(r)
    \/ \E h \in Host : RemoveHost(h)
    \/ NextMonth

Spec == Init /\ [][Next]_vars

-------------------------------------------------------------------------------
(* Sums.  The queries divide by the rate to the euro and round the sum     *)
(* only, so a euro amount is counted in units that every rate divides.     *)

SumOver(S, f(_)) == SumFunction([x \in S |-> f(x)])
ToEur(amount, fx) == (Unit * amount) \div fx
InEur(amount, b) == ToEur(amount, booking[b].fx)
HalfUp(x, unit) == (x + unit \div 2) \div unit

Rate(b) == IF booking[b].rate # None THEN booking[b].rate ELSE HostRate(booking[b].host)
Share(b) == booking[b].total * Rate(b)

\* The queries round exact numbers.
Commission(b) == HalfUp(Share(b), 100)

\* Math.round of a double: a half that comes out short is rounded down.
IsHalf(x) == x % 100 = 50
RoundDouble(x, short) == IF short /\ IsHalf(x) THEN x \div 100 ELSE HalfUp(x, 100)

-------------------------------------------------------------------------------
(* finance.repository.ts: BOOKING_BASE joins the latest payment row        *)

\* Mutation of PaymentOf: every payment row is joined.
PaymentOf_All(b) == DOMAIN pay[b]

PaymentOf(b) == {Len(pay[b])}

\* It joins the host too: a stay without one has no row.
Hosted == {b \in Exists : booking[b].host # None}
BaseRows == {<<b, i>> : b \in Hosted, i \in 1 .. 2}
BookingBase == {row \in BaseRows : row[2] \in PaymentOf(row[1])}

Ledger(h, fx) ==
    {row \in BookingBase : LET b == booking[row[1]] IN b.host = h /\ b.fx = fx /\ b.status # "declined"}

LedgerEarning(h, fx) == {row \in Ledger(h, fx) : row[1] \in Earning}

\* toRow multiplies in doubles.
LedgerCommission(b) == RoundDouble(Share(b), <<booking[b].total, Rate(b)>> \in ShortProducts)

\* The rows, added up by the reader of the ledger.
LedgerSum(h, fx) ==
    [bookings |-> Cardinality(LedgerEarning(h, fx)),
     revenue |-> SumOver(LedgerEarning(h, fx), LAMBDA row : booking[row[1]].total),
     commission |-> SumOver(LedgerEarning(h, fx), LAMBDA row : LedgerCommission(row[1]))]

CommissionReport(h, fx) ==
    LET rows == LedgerEarning(h, fx)
        revenue == SumOver(rows, LAMBDA row : booking[row[1]].total)
        owed == SumOver(rows, LAMBDA row : Commission(row[1]))
        paid == SumOver(rows, LAMBDA row :
                    IF pay[row[1]][row[2]].status = "paid" THEN booking[row[1]].total ELSE 0)
    IN  [bookings |-> Cardinality(rows), revenue |-> revenue, commission |-> owed,
         hostNet |-> revenue - owed, paid |-> paid, unpaid |-> revenue - paid]

\* The accounting export rounds the sum, not its parts, as a double.
Accounting(m, fx) ==
    LET rows == {row \in BookingBase :
                    LET b == booking[row[1]] IN b.month = m /\ b.fx = fx /\ row[1] \in Earning}
    IN  [bookings |-> Cardinality(rows),
         revenue |-> SumOver(rows, LAMBDA row : booking[row[1]].total),
         commission |-> LET sum == SumOver(rows, LAMBDA row : Share(row[1]))
                        IN  RoundDouble(sum, sum \in ShortSums)]

-------------------------------------------------------------------------------
(* admin.repository.ts: the overview, the months, the hosts, the nights    *)

EurSum(S) == [gross |-> SumOver(S, LAMBDA b : InEur(booking[b].total, b)),
              commission |-> SumOver(S, LAMBDA b : InEur(Commission(b), b))]

Overview == EurSum(Earning)
Monthly(m) == EurSum({b \in Earning : booking[b].month = m})
TopHosts(h) == SumOver({b \in Earning : booking[b].host = h}, LAMBDA b : InEur(booking[b].total, b))

\* A stay is clipped to the month it overlaps.
NightsBooked(m) ==
    LET start == (m - 1) * MonthLength
        stop  == m * MonthLength
    IN  SumOver({b \in Earning : booking[b].from < stop /\ booking[b].to > start},
              LAMBDA b : Min({booking[b].to, stop}) - Max({booking[b].from, start}))

\* The months there is a booking of, newest last: the last n and the n before.
Series(n) == {m \in Month : m <= month /\ m >= month - 2 * n /\ \E b \in Exists : booking[b].month = m}
Newest(S, n) == {m \in S : Cardinality({k \in S : k > m}) < n}
Compared(n) ==
    [current |-> Cardinality({b \in Exists : booking[b].month \in Newest(Series(n), n)}),
     previous |-> Cardinality({b \in Exists : booking[b].month \in Newest(Series(n), 2 * n) \ Newest(Series(n), n)})]

-------------------------------------------------------------------------------
(* host.repository.ts: the dashboard and the chart of a host               *)

Latest(b) == pay[b][Len(pay[b])]

\* What a late cancellation leaves the host.
Kept(b) == IF booking[b].status = "cancelled" /\ Latest(b).status \in {"paid", "refunded"}
           THEN Max({booking[b].total - Latest(b).refunded, 0}) ELSE 0

DashboardGross(h) ==
    LET seen == {b \in Exists : /\ booking[b].host = h
                                /\ \/ booking[b].status \notin {"pending", "cancelled"}
                                   \/ Latest(b).status \in {"authorized", "paid", "refunded"}}
    IN  SumOver(seen, LAMBDA b : IF b \in Earning THEN booking[b].total ELSE Kept(b))

EarningsByMonth(h, m) ==
    SumOver({b \in Earning : booking[b].host = h /\ booking[b].from \div MonthLength + 1 = m},
          LAMBDA b : booking[b].total)

-------------------------------------------------------------------------------
(* Properties                                                              *)

Currency == {c.fx : c \in Charge}
Pairs == Host \X Currency
Abs(x) == IF x < 0 THEN -x ELSE x

\* The stays of a host, in a currency, whose commission ends in half a cent.
Halves(h, fx) == {b \in Earning : booking[b].host = h /\ booking[b].fx = fx /\ IsHalf(Share(b))}

\* What the stays of listings without a host have brought: no report by host
\* and no row of the ledger shows them.
Unassigned == EurSum(Earning \ Hosted)

(***************************************************************************)
(* The books agree.  The ledger and the report owed by hosts count the     *)
(* same stays and revenue, and the ledger's commission is short of the     *)
(* report's by at most a cent for each commission that ends in half a      *)
(* cent; the accounting export has the same revenue and a commission off   *)
(* by its rounding only (half a cent a booking).  The overview is the sum  *)
(* of the months; it is also the sum of the hosts, and the report turned   *)
(* into euros, with the stays of the listings that have no host.  A host's *)
(* dashboard is the report, in every currency, and what late cancellations *)
(* left, and the nights of the months are the nights sold.                 *)
(***************************************************************************)
BooksAgree ==
    /\ \A h \in Host, fx \in Currency :
           LET report == CommissionReport(h, fx)
               ledger == LedgerSum(h, fx)
           IN  /\ ledger.bookings = report.bookings /\ ledger.revenue = report.revenue
               /\ report.commission - ledger.commission \in 0 .. Cardinality(Halves(h, fx))
               /\ report.unpaid >= 0
    /\ \A fx \in Currency :
           LET owed == SumOver(Host, LAMBDA h : CommissionReport(h, fx).commission)
               count == SumOver(Month, LAMBDA m : Accounting(m, fx).bookings)
               booked == SumOver(Month, LAMBDA m : Accounting(m, fx).commission)
           IN  /\ SumOver(Month, LAMBDA m : Accounting(m, fx).revenue)
                      = SumOver(Host, LAMBDA h : CommissionReport(h, fx).revenue)
               /\ 2 * Abs(booked - owed) <= count + Cardinality(Month)
    /\ Overview.gross = SumOver(Month, LAMBDA m : Monthly(m).gross)
    /\ Overview.gross = SumOver(Host, TopHosts) + Unassigned.gross
    /\ Overview.gross = SumOver(Pairs, LAMBDA p : ToEur(CommissionReport(p[1], p[2]).revenue, p[2]))
                            + Unassigned.gross
    /\ Overview.commission = SumOver(Month, LAMBDA m : Monthly(m).commission)
    /\ Overview.commission = SumOver(Pairs, LAMBDA p : ToEur(CommissionReport(p[1], p[2]).commission, p[2]))
                                 + Unassigned.commission
    /\ \A h \in Host :
           LET report == SumOver(Currency, LAMBDA fx : CommissionReport(h, fx).revenue) IN
           /\ DashboardGross(h) = report + SumOver({b \in Exists : booking[b].host = h}, Kept)
           /\ report = SumOver(Month, LAMBDA m : EarningsByMonth(h, m))
    /\ SumOver(Month, NightsBooked) = SumOver(Earning, LAMBDA b : booking[b].to - booking[b].from)

(***************************************************************************)
(* What the platform takes of a booking is settled when it is made: no     *)
(* later change of a host's or the platform's rate, no payment and no      *)
(* cancellation moves the commission of its row, only an administrator who *)
(* sets its total (createBooking freezes the rate).                        *)
(***************************************************************************)
BooksAreClosed ==
    [][\A b \in Exists : booking[b].total = booking'[b].total => Commission(b)' = Commission(b)]_vars

===============================================================================
