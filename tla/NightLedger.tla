----------------------------- MODULE NightLedger -----------------------------
(***************************************************************************)
(* What the booking tables promise, without requests, payments or          *)
(* statuses: every night of every listing has at most one owner, an owned  *)
(* night is handed back before anybody else can take it, and a booking     *)
(* moves from one set of nights to another in a single step.  Reservations *)
(* is shown to implement this ledger.                                      *)
(***************************************************************************)
CONSTANTS Booking, Property, Night, None

VARIABLE owner          \* owner[p][n]: the booking that holds night n of p

LedgerInit == owner = [p \in Property |-> [n \in Night |-> None]]

(***************************************************************************)
(* Any number of bookings give up their nights at once: the expiry sweep   *)
(* and the release of a guest's own holds are bulk statements.             *)
(***************************************************************************)
Release(B) ==
    owner' = [p \in Property |-> [n \in Night |-> IF owner[p][n] \in B THEN None ELSE owner[p][n]]]

(***************************************************************************)
(* Booking b, which gives up what it had, comes to hold the nights N of p, *)
(* every one of them free or already its own.                              *)
(***************************************************************************)
Hold(b, p, N) ==
    /\ \A n \in N : owner[p][n] \in {None, b}
    /\ owner' = [q \in Property |->
                   [n \in Night |->
                      IF q = p /\ n \in N THEN b
                      ELSE IF owner[q][n] = b THEN None ELSE owner[q][n]]]

LedgerNext ==
    \/ \E B \in SUBSET Booking : Release(B)
    \/ \E b \in Booking, p \in Property :
         \E N \in SUBSET Night : Hold(b, p, N)

LedgerSpec == LedgerInit /\ [][LedgerNext]_owner
===============================================================================
