------------------------------- MODULE MCFaults -------------------------------
(***************************************************************************)
(* The payment of a booking under every fault, and the books that add up   *)
(* the payments of all of them.  The two share no variable, so a behaviour *)
(* is one of either and the state spaces add up.                           *)
(***************************************************************************)
EXTENDS MCBookingMoney

CONSTANTS Host, Trip, Charge, Totals,
          Percent, DefaultRate, Unit, MonthLength, MaxMonth, MaxChanges,
          ShortProducts, ShortSums

\* A commission rate is a rate and a host is a host, not the absence of one.
ASSUME RateAssumption == None \notin Percent \cup {DefaultRate} \cup Host

\* A stay has a first and a last day within the months looked at and a rate to
\* the euro that divides a unit into whole ones.
ASSUME BooksAssumption ==
    /\ IsFiniteSet(Host) /\ IsFiniteSet(Trip) /\ IsFiniteSet({c.fx : c \in Charge})
    /\ MonthLength \in Nat \ {0} /\ MaxMonth \in Nat \ {0} /\ MaxChanges \in Nat
    /\ Unit \in Nat /\ Totals \subseteq Nat /\ Percent \subseteq Nat /\ DefaultRate \in Percent
    /\ \A c \in Charge :
           /\ c.from \in Nat /\ c.to \in Nat /\ c.from < c.to /\ c.to <= MaxMonth * MonthLength
           /\ c.total \in Nat /\ c.fx \in Nat \ {0} /\ Unit % c.fx = 0

VARIABLES part, booksBooking, booksPay, booksCommission, booksPlatform, booksMonth, booksChanges

booksVars == <<booksBooking, booksPay, booksCommission, booksPlatform, booksMonth, booksChanges>>
sumVars == <<part, vars, booksVars>>

Charges == {[from |-> 0, to |-> 3, total |-> 6410, fx |-> 1],
            [from |-> 1, to |-> 2, total |-> 5050, fx |-> 2]}

\* 64.10 * 15 is 961.4999999999999 and 16.025 * 100 is 1602.4999999999998, which
\* Math.round rounds down; the other products and sums that end in half a cent,
\* of these totals and rates, are not short.
ShortOnes == {<<6410, 15>>}
ShortTotals == {160250}

Books == INSTANCE FinanceBooks WITH
    booking <- booksBooking, pay <- booksPay, commission <- booksCommission,
    platform <- booksPlatform, month <- booksMonth, changes <- booksChanges,
    Booking <- Trip

\* The part that does not run stays in one initial state.
SumInit ==
    /\ part \in {"payment", "books"}
    /\ PaidInit /\ Books!Init
    /\ part = "books" => listing.manual /\ mail = {}

SumNext ==
    \/ part = "payment" /\ Next /\ UNCHANGED <<part, booksVars>>
    \/ part = "books" /\ Books!Next /\ UNCHANGED <<part, vars>>

SumSpec == SumInit /\ [][SumNext]_sumVars

TypesOK ==
    /\ part = "payment" => TypeOK
    /\ part = "books" => Books!TypeOK

\* The reports tell the same figures, from bookings and payment rows that keep to
\* their types: the amounts a request of the other part carries stay in the total.
BooksAgree == TypesOK /\ (part = "books" => Books!BooksAgree)

\* The figures of a month that is over stay as they were (FinanceBooks).
BooksAreClosed == Books!BooksAreClosed

-------------------------------------------------------------------------------
(* What a document of the code says and the model refutes (see the README). *)

\* "Compare two periods" (docs/openapi.ts): the current one is the current month.
ComparedIsCurrent ==
    Books!Compared(1).current = Cardinality({b \in Books!Exists : booksBooking[b].month = booksMonth})

\* "Commission owed per host over one period" (commissionReport): what the rows of
\* the ledger owe, to the cent.
LedgerIsTheReport ==
    part = "books" =>
        \A h \in Host, fx \in Books!Currency :
            Books!LedgerSum(h, fx).commission = Books!CommissionReport(h, fx).commission

\* Trips are named by the model values of the requests: one small symmetry group
\* serves both parts.
SumSymmetry == Symmetry \cup Permutations(Host)
===============================================================================
