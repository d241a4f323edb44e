----------------------------- MODULE Reservations -----------------------------
(***************************************************************************)
(* The booking table under concurrent requests: checkout, the host's       *)
(* answer, cancellation, the administrator's tools, the Stripe webhook and *)
(* the maintenance sweep (bookings.repository.ts, payments.webhook.ts,     *)
(* operations.repository.ts).  A request is a sequence of steps, one for   *)
(* each statement or call that other requests can interleave with; it can  *)
(* be lost between any two of them.  Money is reduced here to the payment  *)
(* status of a booking; BookingMoney has the amounts.                      *)
(***************************************************************************)
EXTENDS Integers

CONSTANTS Booking,      \* booking ids
          Guest,        \* members who book (hosts may not book their own stay)
          Property,     \* listings
          InstantBook,  \* the listings whose bookings confirm on payment
          Req,          \* request slots: requests in flight at the same time
          Horizon,      \* last day of the calendar
          None

ASSUME ReservationsAssumption ==
    /\ InstantBook \subseteq Property
    /\ Horizon \in Nat
    /\ None \notin Booking \cup Guest \cup Property \cup Req

VARIABLES booking,  \* the booking table with the status of its payment
          lock,     \* pg_advisory_xact_lock, one per listing
          req,      \* the requests in flight
          worker,   \* what the worker's sweep under way has found expired
          today

vars == <<booking, lock, req, worker, today>>

Day     == 0 .. Horizon
Live    == {"pending", "confirmed", "completed"}
Closed  == {"declined", "cancelled"}
Status  == {"none"} \cup Live \cup Closed
PayStatus == {"pending", "failed", "covered", "refunded"}
Kind    == {"none", "create", "confirm", "decline", "cancel", "adminCancel", "webhook"}
Asking  == {"idle", "release", "releasing", "sweep", "sweeping", "check", "lock", "insert"}
Step    == Asking \cup
           {"capture", "decide",
            "claim", "refund", "unclaim", "finish", "adminClose", "adminPay",
            "record", "instant"}

(***************************************************************************)
(* "covered" stands for a payment row that is authorized or paid.  old: the *)
(* booking was created more than BOOKING_HOLD_MINUTES ago.                 *)
(***************************************************************************)
BookingRow == [status : Status, guest : Guest \cup {None}, prop : Property \cup {None},
               from : Day, to : Day, pay : PayStatus, old : BOOLEAN]

(***************************************************************************)
(* prop, from and to are the stay the request works on: the one asked for, *)
(* or the one of booking b when the request read it.  seen is the status it *)
(* read then, when it may restore it; found is what the UPDATE under way   *)
(* has found unpaid in its snapshot.                                       *)
(***************************************************************************)
Request == [pc : Step, kind : Kind, b : Booking \cup {None},
            guest : Guest \cup {None}, prop : Property \cup {None},
            from : Day, to : Day, seen : Status, found : SUBSET Booking]

NoBooking == [status |-> "none", guest |-> None, prop |-> None,
              from |-> 0, to |-> 0, pay |-> "pending", old |-> FALSE]

Idle == [pc |-> "idle", kind |-> "none", b |-> None, guest |-> None,
         prop |-> None, from |-> 0, to |-> 0, seen |-> "none", found |-> {}]

OnBooking == Kind \ {"none", "create"}
Claiming  == {"decline", "cancel"}

\* Stays are ordered in the table (booking_dates_ordered).
RowsOK ==
    /\ booking \in [Booking -> BookingRow]
    /\ \A b \in Booking : booking[b].status # "none" => booking[b].from < booking[b].to

\* A request asks for an ordered stay; one that is past the availability check
\* acts on a booking, and only a claim is followed by an outcome.
RequestOK(q) ==
    /\ q \in Request
    /\ q.pc # "idle" => q.kind # "none" /\ q.from < q.to
    /\ q.pc \notin Asking => q.kind \in OnBooking
    /\ q.pc \in {"unclaim", "finish"} => q.kind \in Claiming
    /\ q.kind \in OnBooking => q.b \in Booking
    /\ q.kind \in Claiming => q.seen # "none"

\* A request on a booking has read one that exists; rows are never deleted.
RequestsOK ==
    /\ req \in [Req -> Request]
    /\ \A r \in Req : /\ RequestOK(req[r])
                      /\ req[r].kind \in OnBooking => booking[req[r].b].status # "none"

TypeOK ==
    /\ RowsOK
    /\ RequestsOK
    /\ lock \in [Property -> Req \cup {None}]
    /\ worker \subseteq Booking
    /\ today \in Day

Init ==
    /\ booking = [b \in Booking |-> NoBooking]
    /\ lock = [p \in Property |-> None]
    /\ req = [r \in Req |-> Idle]
    /\ worker = {}
    /\ today = 0

-------------------------------------------------------------------------------
(* Half-open stays and the exclusion constraint booking_no_overlap.        *)

Overlaps(s, t) == s.from < t.to /\ t.from < s.to

\* The live bookings other than b that cover a night of stay s.
Conflicts(b, s) ==
    {c \in Booking \ {b} : /\ booking[c].status \in Live
                           /\ booking[c].prop = s.prop
                           /\ Overlaps(booking[c], s)}

\* Neither authorized nor paid: the NOT EXISTS of the sweep and of checkout.
Unpaid(b) == booking[b].pay # "covered"

SetStatus(b, s) == [booking EXCEPT ![b].status = s]

(***************************************************************************)
(* A sweep is an UPDATE under READ COMMITTED: its snapshot says which      *)
(* bookings are unpaid, and it waits for the rows it is to change and looks *)
(* at those again, but not at their payments, before it commits.  Closing  *)
(* the holds B makes their pending payment rows failed.                    *)
(***************************************************************************)
StillPending(B) == {b \in B : booking[b].status = "pending"}

Drop(B) ==
    [b \in Booking |->
        IF b \in B
        THEN [booking[b] EXCEPT !.status = "cancelled",
                                !.pay = IF @ = "pending" THEN "failed" ELSE @]
        ELSE booking[b]]

\* Mutation of ExpiredHolds: the NOT EXISTS on covered payments is dropped.
ExpiredHolds_Paid == {b \in Booking : booking[b].status = "pending" /\ booking[b].old}

\* Mutation of ExpiredHolds: a failed payment is not taken for an unpaid one.
ExpiredHolds_NotFailed ==
    {b \in Booking : booking[b].status = "pending" /\ booking[b].old /\ booking[b].pay = "pending"}

ExpiredHolds == {b \in Booking : booking[b].status = "pending" /\ booking[b].old /\ Unpaid(b)}

Goto(r, pc) == req' = [req EXCEPT ![r].pc = pc]
Done(r)     == req' = [req EXCEPT ![r] = Idle]
At(r, pc)   == req[r].pc = pc

\* A request on booking b has read its row and goes to step pc.
Begin(r, kind, b, pc) ==
    /\ At(r, "idle")
    /\ booking[b].status # "none"
    /\ req' = [req EXCEPT ![r] =
                 [pc |-> pc, kind |-> kind, b |-> b, guest |-> None, prop |-> booking[b].prop,
                  from |-> booking[b].from, to |-> booking[b].to,
                  seen |-> IF kind \in Claiming THEN booking[b].status ELSE "none",
                  found |-> {}]]

-------------------------------------------------------------------------------
(* checkAvailability, for a checkout and for a host who accepts.  It first *)
(* releases the expired holds, at most once every 30 seconds.              *)

\* Its snapshot; nothing is swept again within 30 seconds.
SweepExpiredHolds(r) ==
    /\ At(r, "sweep")
    /\ \/ Goto(r, "check")
       \/ /\ ExpiredHolds # {}
          /\ req' = [req EXCEPT ![r].pc = "sweeping", ![r].found = ExpiredHolds]
    /\ UNCHANGED <<booking, lock, worker, today>>

\* The sweep of a request commits; one that fails has changed nothing, and the
\* request with it (LoseRequest).
CommitSweep(r) ==
    /\ At(r, "sweeping")
    /\ booking' = Drop(StillPending(req[r].found))
    /\ req' = [req EXCEPT ![r].pc = "check", ![r].found = {}]
    /\ UNCHANGED <<lock, worker, today>>

\* A checkout may also be refused for reasons kept outside this module: blocked
\* nights, minimum stay, number of guests, a listing that is not published.
CheckAvailability(r) ==
    LET free == Conflicts(req[r].b, req[r]) = {} IN
    /\ At(r, "check")
    /\ \/ free /\ Goto(r, IF req[r].kind = "create" THEN "lock" ELSE "capture")
       \/ (free => req[r].kind = "create") /\ Done(r)
    /\ UNCHANGED <<booking, lock, worker, today>>

-------------------------------------------------------------------------------
(* createBooking                                                           *)

StartCreate(r, g, p, f, t) ==
    /\ At(r, "idle")
    /\ f < t /\ f >= today
    /\ req' = [req EXCEPT ![r] =
                 [pc |-> "release", kind |-> "create", b |-> None, guest |-> g, prop |-> p,
                  from |-> f, to |-> t, seen |-> "none", found |-> {}]]
    /\ UNCHANGED <<booking, lock, worker, today>>

\* The snapshot of the one statement that closes the guest's own unpaid holds.
OwnHolds(r) ==
    {b \in Booking : /\ booking[b].status = "pending"
                     /\ booking[b].guest = req[r].guest
                     /\ booking[b].prop = req[r].prop
                     /\ Overlaps(booking[b], req[r])
                     /\ Unpaid(b)}

ReleaseOwnHolds(r) ==
    /\ At(r, "release")
    /\ IF OwnHolds(r) = {}
       THEN Goto(r, "sweep")
       ELSE req' = [req EXCEPT ![r].pc = "releasing", ![r].found = OwnHolds(r)]
    /\ UNCHANGED <<booking, lock, worker, today>>

\* A hold that was closed or moved away meanwhile is left alone.
CommitRelease(r) ==
    /\ At(r, "releasing")
    /\ booking' = Drop({b \in StillPending(req[r].found) : Overlaps(booking[b], req[r])})
    /\ req' = [req EXCEPT ![r].pc = "sweep", ![r].found = {}]
    /\ UNCHANGED <<lock, worker, today>>

LockAndRecheck(r) ==
    LET p == req[r].prop IN
    /\ At(r, "lock")
    /\ lock[p] = None
    /\ IF Conflicts(None, req[r]) = {}
       THEN Goto(r, "insert") /\ lock' = [lock EXCEPT ![p] = r]
       ELSE Done(r) /\ UNCHANGED lock
    /\ UNCHANGED <<booking, worker, today>>

\* The INSERT is still subject to the constraint: a restore or an adjustment
\* does not take the advisory lock.
InsertBooking(r) ==
    /\ At(r, "insert")
    /\ IF Conflicts(None, req[r]) = {}
       THEN \E b \in Booking :
              /\ booking[b].status = "none"
              /\ booking' = [booking EXCEPT ![b] =
                               [status |-> "pending", guest |-> req[r].guest, prop |-> req[r].prop,
                                from |-> req[r].from, to |-> req[r].to,
                                pay |-> "pending", old |-> FALSE]]
       ELSE UNCHANGED booking
    /\ lock' = [lock EXCEPT ![req[r].prop] = None]
    /\ Done(r)
    /\ UNCHANGED <<worker, today>>

-------------------------------------------------------------------------------
(* decideBooking, accepting                                                *)

StartConfirm(r, b) ==
    /\ booking[b].status = "pending"
    /\ Begin(r, "confirm", b, "sweep")
    /\ UNCHANGED <<booking, lock, worker, today>>

Capture(r) ==
    /\ At(r, "capture")
    /\ Goto(r, "decide") \/ Done(r)
    /\ UNCHANGED <<booking, lock, worker, today>>

DecideConfirm(r) ==
    LET b == req[r].b IN
    /\ At(r, "decide")
    /\ booking' = IF booking[b].status = "pending" /\ Conflicts(b, req[r]) = {}
                  THEN SetStatus(b, "confirmed")
                  ELSE booking
    /\ Done(r)
    /\ UNCHANGED <<lock, worker, today>>

-------------------------------------------------------------------------------
(* decideBooking, declining, and cancelBooking: claim, move the money, then *)
(* either write the outcome or give the claim back.                        *)

ClosedAs(kind)  == IF kind = "decline" THEN "declined" ELSE "cancelled"
Claimable(kind) == IF kind = "decline" THEN {"pending"} ELSE {"pending", "confirmed"}

StartDecline(r, b) ==
    /\ booking[b].status = "pending"
    /\ Begin(r, "decline", b, "claim")
    /\ UNCHANGED <<booking, lock, worker, today>>

\* The sweep declines a covered request that was not answered in time or
\* whose check-in day has come; the time to answer may have run out any time.
DeclineUnanswered(r, b) == ~Unpaid(b) /\ StartDecline(r, b)

StartCancel(r, b) ==
    /\ booking[b].status \in {"pending", "confirmed"}
    /\ booking[b].to > today
    /\ Begin(r, "cancel", b, "claim")
    /\ UNCHANGED <<booking, lock, worker, today>>

\* Mutation of Claim: the UPDATE has no condition on the status.
Claim_Any(r) ==
    /\ At(r, "claim")
    /\ booking' = SetStatus(req[r].b, ClosedAs(req[r].kind))
    /\ req' = [req EXCEPT ![r].pc = "refund"]
    /\ UNCHANGED <<lock, worker, today>>

Claim(r) ==
    LET b == req[r].b IN
    /\ At(r, "claim")
    /\ IF booking[b].status \in Claimable(req[r].kind)
       THEN /\ booking' = SetStatus(b, ClosedAs(req[r].kind))
            /\ req' = [req EXCEPT ![r].pc = "refund"]
       ELSE Done(r) /\ UNCHANGED booking
    /\ UNCHANGED <<lock, worker, today>>

\* refundThroughStripe returns or throws.
Refund(r) ==
    /\ At(r, "refund")
    /\ req[r].kind \in Claiming
    /\ Goto(r, "finish") \/ Goto(r, "unclaim")
    /\ UNCHANGED <<booking, lock, worker, today>>

\* Mutation of Unclaim: restored although the nights were taken meanwhile.
Unclaim_Taken(r) ==
    LET b == req[r].b IN
    /\ At(r, "unclaim")
    /\ booking' = IF booking[b].status = ClosedAs(req[r].kind) THEN SetStatus(b, req[r].seen) ELSE booking
    /\ Done(r)
    /\ UNCHANGED <<lock, worker, today>>

\* The previous status is the one the request read.  The constraint refuses the
\* restore when the nights were taken meanwhile; the booking then stays closed.
Unclaim(r) ==
    LET b == req[r].b IN
    /\ At(r, "unclaim")
    /\ booking' = IF booking[b].status = ClosedAs(req[r].kind) /\ Conflicts(b, booking[b]) = {}
                  THEN SetStatus(b, req[r].seen)
                  ELSE booking
    /\ Done(r)
    /\ UNCHANGED <<lock, worker, today>>

FinishDecline(r) ==
    LET b == req[r].b IN
    /\ At(r, "finish") /\ req[r].kind = "decline"
    /\ booking' = IF booking[b].status = "declined" /\ ~Unpaid(b)
                  THEN [booking EXCEPT ![b].pay = "refunded"]
                  ELSE booking
    /\ Done(r)
    /\ UNCHANGED <<lock, worker, today>>

\* A guest's policy may refund nothing; then the payment row is left alone.
FinishCancel(r) ==
    LET b == req[r].b IN
    /\ At(r, "finish") /\ req[r].kind = "cancel"
    /\ \E refunds \in BOOLEAN :
         booking' = [booking EXCEPT ![b].status = "cancelled",
                                    ![b].pay = IF refunds /\ @ = "covered" THEN "refunded" ELSE @]
    /\ Done(r)
    /\ UNCHANGED <<lock, worker, today>>

-------------------------------------------------------------------------------
(* The administrator: adminCancelBooking takes no claim and overwrites any  *)
(* status; refundBooking leaves the status alone; adjustBooking moves dates. *)

StartAdminCancel(r, b) ==
    /\ booking[b].status # "cancelled"
    /\ Begin(r, "adminCancel", b, "refund")
    /\ UNCHANGED <<booking, lock, worker, today>>

AdminRefundThroughStripe(r) ==
    /\ At(r, "refund") /\ req[r].kind = "adminCancel"
    /\ Goto(r, "adminClose") \/ Done(r)
    /\ UNCHANGED <<booking, lock, worker, today>>

\* No transaction: the booking and, when something is refunded, its payment
\* rows are written by separate statements.
AdminClose(r) ==
    /\ At(r, "adminClose")
    /\ booking' = SetStatus(req[r].b, "cancelled")
    /\ Goto(r, "adminPay") \/ Done(r)
    /\ UNCHANGED <<lock, worker, today>>

AdminPay(r) ==
    /\ At(r, "adminPay")
    /\ booking' = [booking EXCEPT ![req[r].b].pay = "refunded"]
    /\ Done(r)
    /\ UNCHANGED <<lock, worker, today>>

\* A refunded row stays as it is.
RefundBooking(b) ==
    /\ booking[b].status # "none" /\ booking[b].pay # "refunded"
    /\ booking' = [booking EXCEPT ![b].pay = "refunded"]
    /\ UNCHANGED <<lock, req, worker, today>>

\* Mutation of AdjustBooking: the new dates are not checked for order.
AdjustBooking_Unordered(b, f, t) ==
    /\ booking[b].status # "none"
    /\ \/ booking[b].status \notin Live
       \/ Conflicts(b, [booking[b] EXCEPT !.from = f, !.to = t]) = {}
    /\ booking' = [booking EXCEPT ![b].from = f, ![b].to = t]
    /\ UNCHANGED <<lock, req, worker, today>>

\* Mutation of AdjustBooking: the new dates may be somebody else's.
AdjustBooking_Taken(b, f, t) ==
    /\ booking[b].status # "none"
    /\ f < t
    /\ booking' = [booking EXCEPT ![b].from = f, ![b].to = t]
    /\ UNCHANGED <<lock, req, worker, today>>

\* To the dates it has, nothing changes.
AdjustBooking(b, f, t) ==
    /\ booking[b].status # "none"
    /\ f < t /\ <<f, t>> # <<booking[b].from, booking[b].to>>
    /\ \/ booking[b].status \notin Live
       \/ Conflicts(b, [booking[b] EXCEPT !.from = f, !.to = t]) = {}
    /\ booking' = [booking EXCEPT ![b].from = f, ![b].to = t]
    /\ UNCHANGED <<lock, req, worker, today>>

-------------------------------------------------------------------------------
(* The Stripe webhook: read the status, record the payment, confirm.        *)

StartWebhook(r, b) ==
    /\ booking[b].status # "cancelled"
    /\ Begin(r, "webhook", b, "record")
    /\ UNCHANGED <<booking, lock, worker, today>>

\* A refunded row stays refunded, but the payment may be on another intent and
\* have a row of its own.  An authorisation ends here; a succeeded payment goes
\* on to confirm.
RecordPayment(r) ==
    LET b == req[r].b IN
    /\ At(r, "record")
    /\ \/ booking' = [booking EXCEPT ![b].pay = "covered"]
       \/ booking[b].pay = "refunded" /\ UNCHANGED booking
    /\ Goto(r, "instant") \/ Done(r)
    /\ UNCHANGED <<lock, worker, today>>

\* Mutation of ConfirmInstantBook: the condition on the status is dropped.
ConfirmInstantBook_Any(r) ==
    LET b == req[r].b IN
    /\ At(r, "instant")
    /\ booking' = IF booking[b].prop \in InstantBook THEN SetStatus(b, "confirmed") ELSE booking
    /\ Done(r)
    /\ UNCHANGED <<lock, worker, today>>

ConfirmInstantBook(r) ==
    LET b == req[r].b IN
    /\ At(r, "instant")
    /\ booking' = IF booking[b].status = "pending" /\ booking[b].prop \in InstantBook
                  THEN SetStatus(b, "confirmed")
                  ELSE booking
    /\ Done(r)
    /\ UNCHANGED <<lock, worker, today>>

RecordFailure(b) ==
    /\ booking[b].status # "none"
    /\ booking[b].pay = "pending"
    /\ booking' = [booking EXCEPT ![b].pay = "failed"]
    /\ UNCHANGED <<lock, req, worker, today>>

-------------------------------------------------------------------------------
(* The maintenance worker, the clock and lost requests.                    *)

\* expireUnpaidBookings, as the worker runs it: the snapshot and the commit.  A
\* sweep that fails is one that never ran.
FindUnpaidBookings ==
    /\ worker = {} /\ ExpiredHolds # {}
    /\ worker' = ExpiredHolds
    /\ UNCHANGED <<booking, lock, req, today>>

CommitExpired ==
    /\ worker # {}
    /\ booking' = Drop(StillPending(worker))
    /\ worker' = {}
    /\ UNCHANGED <<lock, req, today>>

ExpireUnpaidBookings == FindUnpaidBookings \/ CommitExpired

\* Mutation of CompleteFinishedStays: the day of check-out is left out.
CompleteFinishedStays_Late ==
    LET finished == {b \in Booking : booking[b].status = "confirmed" /\ booking[b].to < today} IN
    /\ finished # {}
    /\ booking' = [b \in Booking |-> IF b \in finished
                                     THEN [booking[b] EXCEPT !.status = "completed"]
                                     ELSE booking[b]]
    /\ UNCHANGED <<lock, req, worker, today>>

CompleteFinishedStays ==
    LET finished == {b \in Booking : booking[b].status = "confirmed" /\ booking[b].to <= today} IN
    /\ finished # {}
    /\ booking' = [b \in Booking |-> IF b \in finished
                                     THEN [booking[b] EXCEPT !.status = "completed"]
                                     ELSE booking[b]]
    /\ UNCHANGED <<lock, req, worker, today>>

HoldElapses(b) ==
    /\ booking[b].status = "pending" /\ ~booking[b].old
    /\ booking' = [booking EXCEPT ![b].old = TRUE]
    /\ UNCHANGED <<lock, req, worker, today>>

NextDay ==
    /\ today < Horizon
    /\ today' = today + 1
    /\ UNCHANGED <<booking, lock, req, worker>>

\* The process stops, or the connection drops, between two steps.  An open
\* transaction rolls back and its advisory lock is released.
LoseRequest(r) ==
    /\ ~At(r, "idle")
    /\ lock' = [p \in Property |-> IF lock[p] = r THEN None ELSE lock[p]]
    /\ Done(r)
    /\ UNCHANGED <<booking, worker, today>>

-------------------------------------------------------------------------------
CheckStep(r)   == SweepExpiredHolds(r) \/ CommitSweep(r) \/ CheckAvailability(r)
CreateStep(r)  == ReleaseOwnHolds(r) \/ CommitRelease(r) \/ LockAndRecheck(r) \/ InsertBooking(r)
ConfirmStep(r) == Capture(r) \/ DecideConfirm(r)
ClaimStep(r)   == Claim(r) \/ Refund(r) \/ Unclaim(r) \/ FinishDecline(r) \/ FinishCancel(r)
AdminStep(r)   == AdminRefundThroughStripe(r) \/ AdminClose(r) \/ AdminPay(r)
WebhookStep(r) == RecordPayment(r) \/ ConfirmInstantBook(r)

Start(r, b) == StartConfirm(r, b) \/ StartDecline(r, b) \/ DeclineUnanswered(r, b)
               \/ StartCancel(r, b) \/ StartAdminCancel(r, b) \/ StartWebhook(r, b)

Next ==
    \/ \E r \in Req :
         \/ \E g \in Guest, p \in Property, f, t \in Day : StartCreate(r, g, p, f, t)
         \/ \E b \in Booking : Start(r, b)
         \/ CheckStep(r)
         \/ CreateStep(r)
         \/ ConfirmStep(r)
         \/ ClaimStep(r)
         \/ AdminStep(r)
         \/ WebhookStep(r)
         \/ LoseRequest(r)
    \/ \E b \in Booking :
         \/ RefundBooking(b)
         \/ RecordFailure(b)
         \/ HoldElapses(b)
         \/ \E f, t \in Day : AdjustBooking(b, f, t)
    \/ ExpireUnpaidBookings
    \/ CompleteFinishedStays
    \/ NextDay

Spec == Init /\ [][Next]_vars

-------------------------------------------------------------------------------
(* Properties                                                              *)

\* r took the booking out of the calendar and has not settled it yet.
Holds(r) == req[r].kind \in Claiming /\ req[r].pc \in {"refund", "unclaim", "finish"}

\* Two bookings that are live on the same listing never share a night, whatever
\* checkouts, restores and adjustments run at the same time (createBooking's
\* advisory lock and the exclusion constraint booking_no_overlap).
NoDoubleBooking ==
    \A b, c \in Booking :
        /\ b # c
        /\ booking[b].status \in Live /\ booking[c].status \in Live
        /\ booking[b].prop = booking[c].prop
        => ~Overlaps(booking[b], booking[c])

\* Of all the declines and cancellations of one booking that run at once, at
\* most one is past its claim, and the booking is off the calendar as long as
\* that one is moving the money: nobody else can refund, confirm or expire it.
ExclusiveClaim ==
    /\ \A r, s \in Req : Holds(r) /\ Holds(s) /\ req[r].b = req[s].b => r = s
    /\ \A r \in Req : Holds(r) => booking[req[r].b].status \in Closed

\* A booking that was declined or cancelled comes back only through the request
\* whose own claim closed it: no late webhook, acceptance, sweep or second
\* request revives a booking that is settled.
SettledStaysClosed ==
    [][\A b \in Booking :
         booking[b].status \in Closed /\ (\A r \in Req : Holds(r) => req[r].b # b)
         => booking'[b].status \in Closed]_vars

\* The sweeps under way that have found b unpaid: the requests' own, the worker's.
Found(b) == {r \in Req : b \in req[r].found} \cup (IF b \in worker THEN {None} ELSE {})

\* No sweep, nor the guest's own new checkout, takes a pending request whose
\* payment is authorized or paid, and such a request leaves the calendar only
\* under a claim, by the administrator, or by the commit of a sweep that had
\* found it unpaid when its snapshot was taken: a payment is missed only when it
\* is recorded between the two (expireUnpaidBookings, releaseOwnHolds).
CoveredRequestKeepsItsNights ==
    [][\A b \in Booking : booking[b].status = "pending" /\ ~Unpaid(b) =>
         /\ Found(b)' \subseteq Found(b)
         /\ booking'[b].status \notin Live =>
              \/ \E r \in Req : /\ req[r].b = b
                                /\ \/ req[r].pc = "claim" /\ req'[r].pc = "refund"
                                   \/ req[r].pc = "adminClose"
              \/ Found(b)' # Found(b)]_vars

\* No unpaid checkout holds its nights for ever (the sweep in
\* bookings.maintenance.ts), whatever happened to its payment rows.
HoldsAreReleased ==
    \A b \in Booking :
        (booking[b].status = "pending" /\ Unpaid(b)) ~> ~(booking[b].status = "pending" /\ Unpaid(b))

\* A confirmed stay whose last night is over does not stay confirmed.
FinishedStaysComplete ==
    \A b \in Booking :
        (booking[b].status = "confirmed" /\ booking[b].to <= today)
            ~> ~(booking[b].status = "confirmed" /\ booking[b].to <= today)

\* The nights of every listing change hands as NightLedger says.
Night == 0 .. Horizon - 1

Owner == [p \in Property |-> [n \in Night |->
            LET b == {c \in Booking : /\ booking[c].status \in Live /\ booking[c].prop = p
                                      /\ booking[c].from <= n /\ n < booking[c].to}
            IN  IF b = {} THEN None ELSE CHOOSE c \in b : TRUE]]

Ledger == INSTANCE NightLedger WITH owner <- Owner

LedgerRefined == Ledger!LedgerSpec

\* The worker runs as long as the process does (setInterval), and time passes.
FairSpec ==
    /\ Spec
    /\ WF_vars(ExpireUnpaidBookings)
    /\ WF_vars(CompleteFinishedStays)
    /\ \A b \in Booking : WF_vars(HoldElapses(b))
===============================================================================
