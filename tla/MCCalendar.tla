------------------------------ MODULE MCCalendar ------------------------------
(***************************************************************************)
(* The nights of a listing: the bookings that hold them, and the calendar  *)
(* the host blocks and guests look at.  The two share no variable, so a    *)
(* behaviour is one of either and the state spaces add up.                 *)
(***************************************************************************)
EXTENDS Reservations, TLC

CONSTANTS Viewer,   \* guests who look at the calendar
          Window,   \* bound: nights of it
          Edits     \* bound: changes of it

ASSUME CalendarAssumption == Window \in Nat /\ Edits \in Nat

VARIABLES part, calendarNight, calendarListed, calendarBooking, calendarReq, calendarSaves

calendarVars ==
    <<calendarNight, calendarListed, calendarBooking, calendarReq, calendarSaves>>
sumVars == <<part, vars, calendarVars>>

Calendar == INSTANCE StayCalendar WITH
    night <- calendarNight, listed <- calendarListed, booking <- calendarBooking,
    req <- calendarReq, saves <- calendarSaves, Guest <- Viewer,
    Booking <- Guest, Horizon <- Window, MaxSaves <- Edits

SumInit == part \in {"bookings", "calendar"} /\ Init /\ Calendar!Init

SumNext ==
    \/ part = "bookings" /\ Next /\ UNCHANGED <<part, calendarVars>>
    \/ part = "calendar" /\ Calendar!Next /\ UNCHANGED <<part, vars>>

SumSpec == SumInit /\ [][SumNext]_sumVars

TypesOK ==
    /\ part = "bookings" => TypeOK
    /\ part = "calendar" => Calendar!TypeOK

\* The calendar the host keeps is the one guests book by: picker, search and
\* checkout agree on the free nights, and no blocked night is sold once a checkout
\* has looked; each part keeps to its types.
CalendarsAgree ==
    /\ TypesOK
    /\ part = "calendar" => Calendar!CalendarsAgree /\ Calendar!SoldNightsWereOpen

\* The fields of a night nobody sent are kept (StayCalendar).
FieldsAreKept == Calendar!FieldsAreKept

\* Who looks at the calendar is named by the model values of the bookings: one
\* small symmetry group serves both parts.
Symmetry == Permutations(Booking) \cup Permutations(Req)
===============================================================================
