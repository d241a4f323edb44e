----------------------------- MODULE StayCalendar -----------------------------
(***************************************************************************)
(* The calendar of one listing as host and guests see it: the nights the   *)
(* host blocks or prices (calendar.repository.ts), the date picker, the    *)
(* search by dates, and the checkout that reads them statement by          *)
(* statement before it takes its lock (bookings.repository.ts).            *)
(* Reservations has the life of the bookings.                              *)
(***************************************************************************)
EXTENDS Integers

CONSTANTS Horizon,    \* bound: nights of the calendar, 0 .. Horizon - 1
          Booking,    \* bound: bookings made
          Guest,
          Req,        \* requests in flight
          MaxSaves,   \* bound: calendar changes
          None

VARIABLES night,      \* the calendar_night rows
          listed,     \* published and approved
          booking,    \* the bookings of the listing, with their payment
          req,        \* requests in flight
          saves       \* calendar changes so far

vars == <<night, listed, booking, req, saves>>

Night == 0 .. Horizon - 1
Stay  == {s \in [from : Night, to : 1 .. Horizon] : s.from < s.to}

Nights(s)      == s.from .. s.to - 1
Overlap(s, t)  == s.from < t.to /\ t.from < s.to

\* A booking is a hold until it is covered by an authorisation or a payment.
\* A field of a save: not sent, cleared or set.
Sent     == {"absent", "clear", "set"}
NoRow    == [exists |-> FALSE, blocked |-> FALSE, priced |-> FALSE]
Free     == [status |-> "free", guest |-> None, stay |-> None, fair |-> TRUE]
Checks   == {"release", "sweep", "listing", "nights", "conflicts", "insert"}
Idle     == [pc |-> "idle", guest |-> None, stay |-> None, nights |-> {}, new |-> {},
             blocked |-> "absent", price |-> "absent", open |-> {}, wasListed |-> FALSE]

TypeOK ==
    /\ night \in [Night -> [exists : BOOLEAN, blocked : BOOLEAN, priced : BOOLEAN]]
    /\ listed \in BOOLEAN
    /\ \A b \in Booking :
         /\ booking[b].status \in {"free", "hold", "covered"}
         /\ booking[b].status # "free" => booking[b].guest \in Guest /\ booking[b].stay \in Stay
    /\ \A r \in Req :
         /\ req[r].pc \in {"idle", "save", "write"} \cup Checks
         /\ req[r].new \subseteq req[r].nights
         /\ req[r].blocked \in Sent /\ req[r].price \in Sent
    /\ saves \in 0 .. MaxSaves

Init ==
    /\ night = [n \in Night |-> NoRow]
    /\ listed = TRUE
    /\ booking = [b \in Booking |-> Free]
    /\ req = [r \in Req |-> Idle]
    /\ saves = 0

At(r, pc) == req[r].pc = pc
Done(r)   == req' = [req EXCEPT ![r] = Idle]

\* What every request in flight has seen open so far, for the properties.
Witness(q, rows, isListed) ==
    [r \in Req |->
        IF q[r].pc \in Checks
        THEN [q[r] EXCEPT !.open = @ \cup {n \in Nights(q[r].stay) : ~rows[n].blocked},
                          !.wasListed = @ \/ isListed]
        ELSE q[r]]

-------------------------------------------------------------------------------
(* The host's calendar: saveCalendarNights, setRangeBlocked, clear         *)

StartSave(r, s, blocked, price) ==
    /\ At(r, "idle") /\ saves < MaxSaves
    /\ saves' = saves + 1
    /\ req' = [req EXCEPT ![r] = [Idle EXCEPT !.pc = "save", !.nights = Nights(s),
                                              !.blocked = blocked, !.price = price]]
    /\ UNCHANGED <<night, listed, booking>>

\* Mutation of SnapshotNights: every night without a row counts as new.
SnapshotNights_Any(r) ==
    /\ At(r, "save")
    /\ req' = [req EXCEPT ![r].pc = "write", ![r].new = {n \in Night : ~night[n].exists}]
    /\ UNCHANGED <<night, listed, booking, saves>>

\* The snapshot of the statement decides which nights are new.
SnapshotNights(r) ==
    /\ At(r, "save")
    /\ req' = [req EXCEPT ![r].pc = "write",
                          ![r].new = {n \in req[r].nights : ~night[n].exists}]
    /\ UNCHANGED <<night, listed, booking, saves>>

Merge(sent, old) == IF sent = "absent" THEN old ELSE sent = "set"

Written(row, q) == [exists |-> TRUE, blocked |-> Merge(q.blocked, row.blocked),
                    priced |-> Merge(q.price, row.priced)]

\* Mutation of Collides: no unique index, the later insert replaces the row.
Collides_Replaced(q) == FALSE

\* A night that was new and is there now: a unique violation fails the statement.
Collides(q) == \E n \in q.new : night[n].exists

\* A night cleared since the snapshot is not updated and thus inserted.
SaveCalendarNights(r) ==
    LET q == req[r]
        row(n) == IF n \in q.new THEN NoRow ELSE night[n]
        rows == [n \in Night |-> IF n \in q.nights THEN Written(row(n), q) ELSE night[n]] IN
    /\ At(r, "write")
    /\ IF Collides(q)
       THEN Done(r) /\ UNCHANGED night
       ELSE night' = rows /\ req' = Witness([req EXCEPT ![r] = Idle], rows, listed)
    /\ UNCHANGED <<listed, booking, saves>>

ClearCalendarNights(s) ==
    LET rows == [n \in Night |-> IF n \in Nights(s) THEN NoRow ELSE night[n]] IN
    /\ saves < MaxSaves /\ rows # night
    /\ saves' = saves + 1
    /\ night' = rows
    /\ req' = Witness(req, rows, listed)
    /\ UNCHANGED <<listed, booking>>

\* The listing leaves the catalogue or returns (ListingModeration).
SetListed ==
    /\ saves < MaxSaves
    /\ saves' = saves + 1
    /\ listed' = ~listed
    /\ req' = Witness(req, night, ~listed)
    /\ UNCHANGED <<night, booking>>

-------------------------------------------------------------------------------
(* What the queries of the calendar return                                 *)

Live(b)      == booking[b].status # "free"
Conflicts(s) == {b \in Booking : Live(b) /\ Overlap(booking[b].stay, s)}
Blocked(s)   == {n \in Nights(s) : night[n].blocked}

\* The viewer's own unpaid hold, which booking again releases.
OwnHold(b, g) == booking[b].status = "hold" /\ booking[b].guest = g

\* calendarForProperty with a viewer: the picker does not grey these nights out.
Pickable(g, s) == Blocked(s) = {} /\ {b \in Conflicts(s) : ~OwnHold(b, g)} = {}

\* The search by dates and unavailablePropertyIds know no viewer.
FreeInSearch(s) == listed /\ Blocked(s) = {} /\ Conflicts(s) = {}

-------------------------------------------------------------------------------
(* createBooking up to its insert                                          *)

StartCheckout(r, g, s) ==
    /\ At(r, "idle")
    /\ req' = Witness([req EXCEPT ![r] = [Idle EXCEPT !.pc = "release", !.guest = g, !.stay = s]],
                      night, listed)
    /\ UNCHANGED <<night, listed, booking, saves>>

\* A cancelled booking is out of every query: its place is used again.
Cancelled(bs) == [b \in Booking |-> IF b \in bs THEN Free ELSE booking[b]]

\* Mutation of Released: only holds on the very same nights are released.
Released_SameStay(g, s) == {b \in Conflicts(s) : OwnHold(b, g) /\ booking[b].stay = s}

Released(g, s) == {b \in Conflicts(s) : OwnHold(b, g)}

ReleaseOwnHolds(r) ==
    /\ At(r, "release")
    /\ booking' = Cancelled(Released(req[r].guest, req[r].stay))
    /\ req' = [req EXCEPT ![r].pc = "sweep"]
    /\ UNCHANGED <<night, listed, saves>>

\* The sweep on the read paths, skipped when one ran in the last 30 seconds; any
\* hold may have expired by then.
SweepExpiredHolds(r) ==
    /\ At(r, "sweep")
    /\ \E expired \in SUBSET {b \in Booking : booking[b].status = "hold"} :
         booking' = Cancelled(expired)
    /\ req' = [req EXCEPT ![r].pc = "listing"]
    /\ UNCHANGED <<night, listed, saves>>

\* Mutation of Passes: the picker is trusted to offer open nights only.
Passes_NotBlocked(pc, s) == CASE pc = "listing" -> listed
                              [] pc = "nights" -> TRUE
                              [] pc = "conflicts" -> Conflicts(s) = {}

\* The reads of checkAvailability, each a statement of its own.
Passes(pc, s) == CASE pc = "listing" -> listed
                   [] pc = "nights" -> Blocked(s) = {}
                   [] pc = "conflicts" -> Conflicts(s) = {}

NextCheck == [listing |-> "nights", nights |-> "conflicts", conflicts |-> "insert"]

CheckAvailability(r) ==
    /\ req[r].pc \in DOMAIN NextCheck
    /\ IF Passes(req[r].pc, req[r].stay)
       THEN req' = [req EXCEPT ![r].pc = NextCheck[req[r].pc]]
       ELSE Done(r)
    /\ UNCHANGED <<night, listed, booking, saves>>

\* Under the advisory lock only the bookings are checked again. fair: the
\* request saw all of the stay open.
InsertBooking(r) ==
    LET q == req[r] IN
    /\ At(r, "insert")
    /\ IF Conflicts(q.stay) # {} THEN UNCHANGED booking
       ELSE \E b \in Booking :
              /\ booking[b].status = "free"
              /\ booking' = [booking EXCEPT ![b] =
                   [status |-> "hold", guest |-> q.guest, stay |-> q.stay,
                    fair |-> q.wasListed /\ Nights(q.stay) \subseteq q.open]]
    /\ Done(r)
    /\ UNCHANGED <<night, listed, saves>>

-------------------------------------------------------------------------------
(* What happens to a booking meanwhile (Reservations, BookingMoney)        *)

CoverBooking(b) ==
    /\ booking[b].status = "hold"
    /\ booking' = [booking EXCEPT ![b].status = "covered"]
    /\ UNCHANGED <<night, listed, req, saves>>

CancelBooking(b) ==
    /\ Live(b)
    /\ booking' = Cancelled({b})
    /\ UNCHANGED <<night, listed, req, saves>>

Next ==
    \/ \E r \in Req :
         \/ \E s \in Stay, p \in Sent : StartSave(r, s, "absent", p) /\ p # "absent"
         \/ \E s \in Stay, b \in {"clear", "set"}, p \in {"absent", "set"} : StartSave(r, s, b, p)
         \/ SnapshotNights(r) \/ SaveCalendarNights(r)
         \/ \E g \in Guest, s \in Stay : StartCheckout(r, g, s)
         \/ ReleaseOwnHolds(r) \/ SweepExpiredHolds(r) \/ CheckAvailability(r) \/ InsertBooking(r)
    \/ \E s \in Stay : ClearCalendarNights(s)
    \/ SetListed
    \/ \E b \in Booking : CoverBooking(b) \/ CancelBooking(b)

Spec == Init /\ [][Next]_vars

-------------------------------------------------------------------------------
(* Properties                                                              *)

\* The picker offers a guest exactly the nights a checkout of theirs gets past
\* its checks, once it has released their own holds, and what the search by dates
\* shows is open to everybody: three queries written apart.
CalendarsAgree ==
    \A s \in Stay, g \in Guest :
        /\ Pickable(g, s) <=> Blocked(s) = {} /\ Conflicts(s) \subseteq Released(g, s)
        /\ FreeInSearch(s) => Pickable(g, s)

\* No night is sold that was blocked during the whole checkout, and none of a
\* listing that was off the catalogue during all of it.
SoldNightsWereOpen == \A b \in Booking : booking[b].fair

\* Blocking a night must not wipe its price override and pricing it must not
\* unblock it, whatever other save of the night runs at the same time.
FieldsAreKept ==
    [][\A n \in Night :
         /\ night[n].priced /\ ~night'[n].priced =>
              ~night'[n].exists \/ \E r \in Req : At(r, "write") /\ req[r].price = "clear"
         /\ night[n].blocked /\ ~night'[n].blocked =>
              ~night'[n].exists \/ \E r \in Req : At(r, "write") /\ req[r].blocked = "clear"]_vars
===============================================================================
