---------------------------- MODULE MCReservations ----------------------------
(* Finite instances of Reservations. *)
EXTENDS Reservations, TLC

\* Requests and bookings are interchangeable, and so are the guests.
Symmetry == Permutations(Booking) \cup Permutations(Req) \cup Permutations(Guest)

\* Bound of the ledger instance: the last day of its calendar never begins, so
\* stays that end there are never over and those that end earlier are.
BeforeLastDay == today' < Horizon

\* What a comment of the code says and the model refutes (see the README).
\* "The money did not move: give the booking its previous status back"
\* (cancelBooking): the status a request may restore is the one its claim replaces.
RestoresPreviousStatus ==
    [][\A r \in Req :
         req[r].pc = "claim" /\ req'[r].pc = "refund"
         => booking[req[r].b].status = req[r].seen]_vars

\* "the update only matches rows that are still pending and still unpaid"
\* (expireUnpaidBookings): what a sweep closes has not been paid.
SweptAreUnpaid ==
    [][\A b \in Booking :
         /\ booking[b].status = "pending" /\ ~Unpaid(b)
         /\ booking'[b].status \notin Live
         => \E r \in Req : req[r].b = b /\ req[r].pc \in {"claim", "adminClose"}]_vars
===============================================================================
