--------------------------- MODULE ReservationsProofs ---------------------------
(***************************************************************************)
(* Theorems about the booking table and what MCCalendar and MCProgress run *)
(* beside it.  First those of Spec (Reservations), for every set of        *)
(* bookings, requests, guests and listings and every calendar.  Then those *)
(* of SumSpec, for whatever calendar a host keeps (StayCalendar), and of   *)
(* ProgressSpec, for any callers, objects and pool (SchemaHealing).        *)
(***************************************************************************)
EXTENDS MCCalendar, MCProgress, FiniteSetTheorems, TLAPS

\* Closing the unpaid holds B changes no dates and empties no row: the sweep and
\* the release of a guest's own holds keep the table well-formed.
LEMMA DropType ==
    ASSUME booking \in [Booking -> BookingRow], NEW B
    PROVE  /\ Drop(B) \in [Booking -> BookingRow]
           /\ \A b \in Booking : /\ Drop(B)[b].from = booking[b].from
                                 /\ Drop(B)[b].to = booking[b].to
                                 /\ Drop(B)[b].prop = booking[b].prop
                                 /\ Drop(B)[b].status \in {booking[b].status, "cancelled"}
                                 /\ b \notin B => Drop(B)[b] = booking[b]
  <1>1. ASSUME NEW b \in Booking
        PROVE  /\ Drop(B)[b] \in BookingRow
               /\ Drop(B)[b].from = booking[b].from
               /\ Drop(B)[b].to = booking[b].to
               /\ Drop(B)[b].prop = booking[b].prop
               /\ Drop(B)[b].status \in {booking[b].status, "cancelled"}
               /\ b \notin B => Drop(B)[b] = booking[b]
    <2>1. booking[b] \in BookingRow
      OBVIOUS
    <2>2. CASE b \in B
      BY <2>1, <2>2 DEF Drop, BookingRow, PayStatus, Status, Closed
    <2>3. CASE b \notin B
      BY <2>1, <2>3 DEF Drop
    <2> QED BY <2>2, <2>3
  <1>2. DOMAIN Drop(B) = Booking /\ Drop(B) = [b \in Booking |-> Drop(B)[b]]
    BY DEF Drop
  <1> QED BY <1>1, <1>2

\* What a step does to the table, told row by row.
RowsKept == \A b \in Booking : booking[b].status # "none" => booking'[b].status # "none"

\* A request that moves on keeps what it has read.
LEMMA GotoOK ==
    ASSUME RequestsOK, RowsKept, NEW r \in Req, NEW pc \in Step \ {"idle"}, ~At(r, "idle"),
           pc \notin Asking => req[r].kind \in OnBooking,
           pc \in {"unclaim", "finish"} => req[r].kind \in Claiming,
           Goto(r, pc)
    PROVE  RequestsOK'
  <1> DEFINE q == [req[r] EXCEPT !.pc = pc]
  <1>1. q \in Request /\ q.pc = pc /\ q.kind = req[r].kind /\ q.b = req[r].b
        /\ q.seen = req[r].seen /\ q.from = req[r].from /\ q.to = req[r].to
    BY DEF RequestsOK, Request
  <1>2. RequestOK(q)
    BY <1>1 DEF RequestsOK, RequestOK, At, Asking, Claiming
  <1>3. req' = [req EXCEPT ![r] = q]
    BY DEF Goto
  <1>4. req' \in [Req -> Request]
    BY <1>1, <1>3 DEF RequestsOK
  <1>5. ASSUME NEW s \in Req
        PROVE  RequestOK(req'[s]) /\ (req'[s].kind \in OnBooking => booking'[req'[s].b].status # "none")
    <2> HIDE DEF q
    <2>1. CASE s = r
      BY <1>1, <1>2, <1>3, <2>1 DEF RequestsOK, RowsKept, RequestOK, Asking, Claiming
    <2>2. CASE s # r
      BY <1>3, <2>2 DEF RequestsOK, RowsKept, RequestOK, Asking, Claiming
    <2> QED BY <2>1, <2>2
  <1>6. RequestsOK' = (/\ req' \in [Req -> Request]
                      /\ \A s \in Req : /\ RequestOK(req'[s])
                                        /\ req'[s].kind \in OnBooking => booking'[req'[s].b].status # "none")
    BY DEF RequestsOK, RequestOK, Asking, Claiming
  <1> QED BY <1>4, <1>5, <1>6

\* A sweep of a request takes its snapshot or commits: it goes on asking.
LEMMA FindOK ==
    ASSUME RequestsOK, RowsKept, NEW r \in Req, NEW pc \in Asking \ {"idle"}, ~At(r, "idle"),
           NEW F \in SUBSET Booking, req' = [req EXCEPT ![r].pc = pc, ![r].found = F]
    PROVE  RequestsOK'
  <1> DEFINE q == [req[r] EXCEPT !.pc = pc, !.found = F]
  <1>1. q \in Request /\ q.pc = pc /\ q.kind = req[r].kind /\ q.b = req[r].b
        /\ q.seen = req[r].seen /\ q.from = req[r].from /\ q.to = req[r].to
    BY DEF RequestsOK, Request, Step, Asking
  <1>2. RequestOK(q)
    BY <1>1 DEF RequestsOK, RequestOK, At, Asking, Claiming
  <1>3. req' = [req EXCEPT ![r] = q]
    OBVIOUS
  <1>4. req' \in [Req -> Request]
    BY <1>1, <1>3 DEF RequestsOK
  <1>5. ASSUME NEW s \in Req
        PROVE  RequestOK(req'[s]) /\ (req'[s].kind \in OnBooking => booking'[req'[s].b].status # "none")
    <2> HIDE DEF q
    <2>1. CASE s = r
      BY <1>1, <1>2, <1>3, <2>1 DEF RequestsOK, RowsKept, RequestOK
    <2>2. CASE s # r
      BY <1>3, <2>2 DEF RequestsOK, RowsKept, RequestOK
    <2> QED BY <2>1, <2>2
  <1> QED BY <1>4, <1>5 DEF RequestsOK, RequestOK

\* A slot that is free again asks nothing of the table.
LEMMA DoneOK ==
    ASSUME ReservationsAssumption, RequestsOK, RowsKept, NEW r \in Req, Done(r)
    PROVE  RequestsOK'
  <1>1. Idle \in Request /\ RequestOK(Idle) /\ Idle.kind = "none"
    BY DEF Idle, Request, RequestOK, OnBooking, Kind, Step, Status, Day, ReservationsAssumption, Asking, Claiming
  <1>2. req' = [req EXCEPT ![r] = Idle]
    BY DEF Done
  <1>3. req' \in [Req -> Request]
    BY <1>1, <1>2 DEF RequestsOK
  <1>4. ASSUME NEW s \in Req
        PROVE  RequestOK(req'[s]) /\ (req'[s].kind \in OnBooking => booking'[req'[s].b].status # "none")
    <2>1. CASE s = r
      BY <1>1, <1>2, <2>1 DEF RequestsOK, OnBooking
    <2>2. CASE s # r
      BY <1>2, <2>2 DEF RequestsOK, RowsKept, RequestOK, Asking, Claiming
    <2> QED BY <2>1, <2>2
  <1> QED BY <1>3, <1>4 DEF RequestsOK, RequestOK, Asking, Claiming

\* A request begins on a booking it has just read.
LEMMA BeginOK ==
    ASSUME ReservationsAssumption, TypeOK, NEW r \in Req, NEW b \in Booking, NEW kind \in OnBooking,
           NEW pc \in Step \ {"idle", "unclaim", "finish"}, Begin(r, kind, b, pc), UNCHANGED booking
    PROVE  RequestsOK'
  <1> DEFINE q == [pc |-> pc, kind |-> kind, b |-> b, guest |-> None, prop |-> booking[b].prop,
                  from |-> booking[b].from, to |-> booking[b].to,
                  seen |-> IF kind \in Claiming THEN booking[b].status ELSE "none",
                  found |-> {}]
  <1>1. booking[b] \in BookingRow /\ booking[b].status # "none" /\ booking[b].from < booking[b].to
    BY DEF TypeOK, RowsOK, Begin, Claiming
  <1>2. q \in Request /\ RequestOK(q) /\ q.b = b
    BY <1>1 DEF Request, RequestOK, OnBooking, BookingRow, Status, Asking, Claiming
  <1>3. req' = [req EXCEPT ![r] = q]
    BY DEF Begin, Claiming
  <1>4. req' \in [Req -> Request]
    BY <1>2, <1>3 DEF TypeOK, RequestsOK
  <1>5. ASSUME NEW s \in Req
        PROVE  RequestOK(req'[s]) /\ (req'[s].kind \in OnBooking => booking'[req'[s].b].status # "none")
    <2> HIDE DEF q
    <2>1. CASE s = r
      BY <1>1, <1>2, <1>3, <2>1 DEF TypeOK, RequestsOK
    <2>2. CASE s # r
      BY <1>3, <2>2 DEF TypeOK, RequestsOK
    <2> QED BY <2>1, <2>2
  <1> QED BY <1>4, <1>5 DEF RequestsOK, RequestOK, Asking, Claiming

\* One row gets a new status, which never empties it.
LEMMA SetStatusOK ==
    ASSUME RowsOK, NEW b \in Booking, booking[b].status # "none",
           NEW s \in Status \ {"none"}, booking' = SetStatus(b, s)
    PROVE  RowsOK' /\ RowsKept
  <1>1. booking[b] \in BookingRow
    BY DEF RowsOK
  <1>2. [booking[b] EXCEPT !.status = s] \in BookingRow
    BY <1>1 DEF BookingRow
  <1>3. booking' \in [Booking -> BookingRow]
    BY <1>2 DEF SetStatus, RowsOK
  <1>4. \A c \in Booking : /\ booking'[c].from = booking[c].from /\ booking'[c].to = booking[c].to
                           /\ booking'[c].status # "none" <=> booking[c].status # "none"
    BY <1>1 DEF SetStatus, RowsOK, BookingRow
  <1> QED BY <1>3, <1>4 DEF RowsOK, RowsKept

\* One row gets a new payment status.
LEMMA SetPayOK ==
    ASSUME RowsOK, NEW b \in Booking, NEW pay \in PayStatus,
           booking' = [booking EXCEPT ![b].pay = pay]
    PROVE  RowsOK' /\ RowsKept
  <1>1. booking[b] \in BookingRow
    BY DEF RowsOK
  <1>2. [booking[b] EXCEPT !.pay = pay] \in BookingRow
    BY <1>1 DEF BookingRow
  <1>3. booking' \in [Booking -> BookingRow]
    BY <1>2 DEF RowsOK
  <1>4. \A c \in Booking : /\ booking'[c].from = booking[c].from /\ booking'[c].to = booking[c].to
                           /\ booking'[c].status = booking[c].status
    BY <1>1 DEF RowsOK, BookingRow
  <1> QED BY <1>3, <1>4 DEF RowsOK, RowsKept

\* Closing holds that were pending keeps the rows well-formed and existing.
LEMMA DropOK ==
    ASSUME RowsOK, NEW B, \A b \in B : booking[b].status = "pending", booking' = Drop(B)
    PROVE  RowsOK' /\ RowsKept
  BY DropType DEF RowsOK, RowsKept

\* The empty table and the idle slots are well-typed.
LEMMA InitType == ASSUME ReservationsAssumption, Init PROVE TypeOK
  <1>1. NoBooking \in BookingRow /\ NoBooking.status = "none"
    BY DEF ReservationsAssumption, NoBooking, BookingRow, Status, PayStatus, Day
  <1>2. RowsOK
    BY <1>1 DEF Init, RowsOK
  <1>3. Idle \in Request /\ RequestOK(Idle) /\ Idle.kind = "none"
    BY DEF ReservationsAssumption, Idle, Request, RequestOK, OnBooking, Kind, Step, Status, Day, Asking, Claiming
  <1>4. RequestsOK
    BY <1>3 DEF Init, RequestsOK, OnBooking
  <1> QED BY <1>2, <1>4 DEF ReservationsAssumption, Init, TypeOK, Day

\* The steps of a request that leave the booking table alone.
LEMMA OwnStepType ==
    ASSUME ReservationsAssumption, TypeOK, NEW r \in Req,
           \/ SweepExpiredHolds(r) \/ ReleaseOwnHolds(r)
           \/ CheckAvailability(r) \/ LockAndRecheck(r) \/ Capture(r)
           \/ Refund(r) \/ AdminRefundThroughStripe(r) \/ LoseRequest(r)
    PROVE  TypeOK'
  <1>1. RowsOK' /\ RowsKept
    BY DEF SweepExpiredHolds, ReleaseOwnHolds, CheckAvailability, LockAndRecheck, Capture, Refund,
           AdminRefundThroughStripe, LoseRequest, TypeOK, RowsOK, RowsKept
  <1>2. RequestsOK /\ RequestOK(req[r])
    BY DEF TypeOK, RequestsOK
  <1>3. CASE Done(r)
    BY <1>1, <1>2, <1>3, DoneOK DEF SweepExpiredHolds, ReleaseOwnHolds, CheckAvailability,
       LockAndRecheck, Capture, Refund, AdminRefundThroughStripe, LoseRequest, TypeOK
  <1>4. CASE CheckAvailability(r) /\ ~Done(r)
    <2> DEFINE pc == IF req[r].kind = "create" THEN "lock" ELSE "capture"
    <2>1. pc \in Step \ {"idle"} /\ ~At(r, "idle") /\ Goto(r, pc)
      BY <1>4 DEF CheckAvailability, Step, At, Asking
    <2>2. pc = "capture" => req[r].kind \in OnBooking
      BY <1>2, <2>1 DEF OnBooking, RequestOK, Request, At, Asking, Claiming
    <2>3. RequestsOK'
      <3> HIDE DEF pc
      <3>1. pc \in {"lock", "capture"}
        BY DEF pc
      <3> QED BY <1>1, <1>2, <2>1, <2>2, <3>1, GotoOK DEF Asking
    <2> QED BY <1>1, <1>4, <2>3 DEF CheckAvailability, TypeOK
  <1>5. CASE LockAndRecheck(r) /\ ~Done(r)
    <2>1. Goto(r, "insert") /\ ~At(r, "idle") /\ "insert" \in Step \ {"idle"}
      BY <1>5 DEF LockAndRecheck, Step, At, Asking
    <2>2. RequestsOK'
      BY <1>1, <1>2, <2>1, GotoOK DEF Asking
    <2> QED BY <1>1, <1>5, <2>2 DEF LockAndRecheck, TypeOK
  <1>6. CASE Capture(r) /\ ~Done(r)
    <2>1. Goto(r, "decide") /\ ~At(r, "idle") /\ "decide" \in Step \ {"idle"}
      BY <1>6 DEF Capture, Step, At, Asking
    <2>2. req[r].kind \in OnBooking
      BY <1>2, <1>6 DEF Capture, RequestOK, At, Asking, Claiming
    <2>3. RequestsOK'
      BY <1>1, <1>2, <2>1, <2>2, GotoOK
    <2> QED BY <1>1, <1>6, <2>3 DEF Capture, TypeOK
  <1>7. CASE Refund(r)
    <2>1. ~At(r, "idle") /\ {"finish", "unclaim"} \subseteq Step \ {"idle"}
      BY <1>7 DEF Refund, Step, At, Asking, Claiming
    <2>2. req[r].kind \in Claiming /\ req[r].kind \in OnBooking
      BY <1>7 DEF Refund, OnBooking, Kind, Claiming
    <2>3. RequestsOK'
      <3>1. CASE Goto(r, "finish")
        BY <1>1, <1>2, <2>1, <2>2, <3>1, GotoOK
      <3>2. CASE Goto(r, "unclaim")
        BY <1>1, <1>2, <2>1, <2>2, <3>2, GotoOK
      <3> QED BY <1>7, <3>1, <3>2 DEF Refund, Claiming
    <2> QED BY <1>1, <1>7, <2>3 DEF Refund, TypeOK, Claiming
  <1>8. CASE AdminRefundThroughStripe(r) /\ ~Done(r)
    <2>1. Goto(r, "adminClose") /\ ~At(r, "idle") /\ "adminClose" \in Step \ {"idle"}
      BY <1>8 DEF AdminRefundThroughStripe, Step, At, Asking
    <2>2. req[r].kind \in OnBooking
      BY <1>8 DEF AdminRefundThroughStripe, OnBooking, Kind
    <2>3. RequestsOK'
      BY <1>1, <1>2, <2>1, <2>2, GotoOK
    <2> QED BY <1>1, <1>8, <2>3 DEF AdminRefundThroughStripe, TypeOK
  <1>9. LoseRequest(r) => Done(r)
    BY DEF LoseRequest
  <1>10. CASE SweepExpiredHolds(r)
    <2>1. ~At(r, "idle") /\ {"check", "sweeping"} \subseteq Asking \ {"idle"}
      BY <1>10 DEF SweepExpiredHolds, At, Asking
    <2>2. CASE Goto(r, "check")
      BY <1>1, <1>2, <1>10, <2>1, <2>2, GotoOK DEF SweepExpiredHolds, TypeOK, Step, Asking
    <2>3. CASE req' = [req EXCEPT ![r].pc = "sweeping", ![r].found = ExpiredHolds]
      <3>1. ExpiredHolds \in SUBSET Booking
        BY DEF ExpiredHolds
      <3>2. RequestsOK'
        BY <1>1, <1>2, <2>1, <2>3, <3>1, FindOK
      <3> QED BY <1>1, <1>10, <3>2 DEF SweepExpiredHolds, TypeOK
    <2> QED BY <1>10, <2>2, <2>3 DEF SweepExpiredHolds
  <1>11. CASE ReleaseOwnHolds(r)
    <2>1. ~At(r, "idle") /\ {"sweep", "releasing"} \subseteq Asking \ {"idle"}
      BY <1>11 DEF ReleaseOwnHolds, At, Asking
    <2>2. CASE Goto(r, "sweep")
      BY <1>1, <1>2, <1>11, <2>1, <2>2, GotoOK DEF ReleaseOwnHolds, TypeOK, Step, Asking
    <2>3. CASE req' = [req EXCEPT ![r].pc = "releasing", ![r].found = OwnHolds(r)]
      <3>1. OwnHolds(r) \in SUBSET Booking
        BY DEF OwnHolds
      <3>2. RequestsOK'
        BY <1>1, <1>2, <2>1, <2>3, <3>1, FindOK
      <3> QED BY <1>1, <1>11, <3>2 DEF ReleaseOwnHolds, TypeOK
    <2> QED BY <1>11, <2>2, <2>3 DEF ReleaseOwnHolds
  <1> QED BY <1>3, <1>4, <1>5, <1>6, <1>7, <1>8, <1>9, <1>10, <1>11

\* A request that starts.
LEMMA StartType ==
    ASSUME ReservationsAssumption, TypeOK, NEW r \in Req,
           \/ \E g \in Guest, p \in Property, f, t \in Day : StartCreate(r, g, p, f, t)
           \/ \E b \in Booking : Start(r, b)
    PROVE  TypeOK'
  <1>1. RowsOK' /\ RowsKept /\ UNCHANGED <<booking, lock, worker, today>>
    BY DEF StartCreate, Start, StartConfirm, StartDecline, DeclineUnanswered, StartCancel,
           StartAdminCancel, StartWebhook, TypeOK, RowsOK, RowsKept
  <1>2. ASSUME NEW g \in Guest, NEW p \in Property, NEW f \in Day, NEW t \in Day,
               StartCreate(r, g, p, f, t)
        PROVE  RequestsOK'
    <2> DEFINE q == [pc |-> "release", kind |-> "create", b |-> None, guest |-> g, prop |-> p,
                     from |-> f, to |-> t, seen |-> "none", found |-> {}]
    <2>1. q \in Request /\ RequestOK(q) /\ q.kind \notin OnBooking
      BY <1>2 DEF StartCreate, Request, RequestOK, OnBooking, Kind, Step, Status, Asking, Claiming
    <2>2. req' = [req EXCEPT ![r] = q]
      BY <1>2 DEF StartCreate
    <2>3. req' \in [Req -> Request]
      BY <2>1, <2>2 DEF TypeOK, RequestsOK
    <2>4. ASSUME NEW s \in Req
          PROVE  RequestOK(req'[s]) /\ (req'[s].kind \in OnBooking => booking'[req'[s].b].status # "none")
      <3> HIDE DEF q
      <3>1. CASE s = r
        BY <2>1, <2>2, <3>1 DEF TypeOK, RequestsOK
      <3>2. CASE s # r
        BY <1>1, <2>2, <3>2 DEF TypeOK, RequestsOK
      <3> QED BY <3>1, <3>2
    <2> QED BY <2>3, <2>4 DEF RequestsOK, RequestOK, Asking, Claiming
  <1>3. ASSUME NEW b \in Booking, Start(r, b)
        PROVE  RequestsOK'
    <2>1. \E kind \in OnBooking, pc \in Step \ {"idle", "unclaim", "finish"} : Begin(r, kind, b, pc)
      BY <1>3 DEF Start, StartConfirm, StartDecline, DeclineUnanswered, StartCancel,
                  StartAdminCancel, StartWebhook, OnBooking, Kind, Step, Asking
    <2> QED BY <1>1, <2>1, BeginOK
  <1>4. RequestsOK'
    BY <1>2, <1>3
  <1> QED BY <1>1, <1>4 DEF TypeOK

\* The steps of a request that write the booking table.
LEMMA WriteStepType ==
    ASSUME ReservationsAssumption, TypeOK, NEW r \in Req,
           \/ CommitSweep(r) \/ CommitRelease(r) \/ InsertBooking(r)
           \/ DecideConfirm(r) \/ Claim(r) \/ Unclaim(r) \/ FinishDecline(r) \/ FinishCancel(r)
           \/ AdminClose(r) \/ AdminPay(r) \/ RecordPayment(r) \/ ConfirmInstantBook(r)
    PROVE  TypeOK'
  <1> DEFINE b == req[r].b
  <1>1. RowsOK /\ RequestsOK /\ RequestOK(req[r]) /\ req[r] \in Request
    BY DEF TypeOK, RequestsOK
  <1>2. req[r].kind \in OnBooking => b \in Booking /\ booking[b].status # "none"
    BY <1>1 DEF RequestsOK, RequestOK, Asking, Claiming
  <1>3. RowsOK /\ UNCHANGED booking => RowsOK' /\ RowsKept
    BY DEF RowsOK, RowsKept
  <1> HIDE DEF b
  <1>4. CASE CommitSweep(r)
    <2>1. RowsOK' /\ RowsKept
      BY <1>1, <1>4, DropOK DEF CommitSweep, StillPending
    <2>2. ~At(r, "idle") /\ "check" \in Asking \ {"idle"} /\ {} \in SUBSET Booking
      BY <1>4 DEF CommitSweep, At, Asking
    <2>3. RequestsOK'
      BY <1>1, <1>4, <2>1, <2>2, FindOK DEF CommitSweep
    <2> QED BY <1>4, <2>1, <2>3 DEF CommitSweep, TypeOK
  <1>5. CASE CommitRelease(r)
    <2>1. RowsOK' /\ RowsKept
      BY <1>1, <1>5, DropOK DEF CommitRelease, StillPending
    <2>2. ~At(r, "idle") /\ "sweep" \in Asking \ {"idle"} /\ {} \in SUBSET Booking
      BY <1>5 DEF CommitRelease, At, Asking
    <2>3. RequestsOK'
      BY <1>1, <1>5, <2>1, <2>2, FindOK DEF CommitRelease
    <2> QED BY <1>5, <2>1, <2>3 DEF CommitRelease, TypeOK
  <1>6. CASE InsertBooking(r)
    <2>1. RowsOK' /\ RowsKept
      <3>1. CASE UNCHANGED booking
        BY <1>1, <1>3, <3>1
      <3>2. ASSUME NEW c \in Booking, booking[c].status = "none",
                   booking' = [booking EXCEPT ![c] =
                                 [status |-> "pending", guest |-> req[r].guest, prop |-> req[r].prop,
                                  from |-> req[r].from, to |-> req[r].to,
                                  pay |-> "pending", old |-> FALSE]]
            PROVE  RowsOK' /\ RowsKept
        <4> DEFINE new == [status |-> "pending", guest |-> req[r].guest, prop |-> req[r].prop,
                           from |-> req[r].from, to |-> req[r].to,
                           pay |-> "pending", old |-> FALSE]
        <4>1. new \in BookingRow /\ new.status # "none" /\ new.from < new.to
          BY <1>1, <1>6 DEF InsertBooking, At, RequestOK, Request, BookingRow, Status, Live, PayStatus, Asking, Claiming
        <4>2. booking' = [booking EXCEPT ![c] = new]
          BY <3>2
        <4> HIDE DEF new
        <4> QED BY <1>1, <4>1, <4>2 DEF RowsOK, RowsKept
      <3> QED BY <1>6, <3>1, <3>2 DEF InsertBooking
    <2>2. RequestsOK'
      BY <1>1, <1>6, <2>1, DoneOK DEF InsertBooking
    <2> QED BY <1>6, <2>1, <2>2 DEF InsertBooking, TypeOK
  <1>7. CASE DecideConfirm(r)
    <2>1. b \in Booking /\ booking[b].status # "none"
      BY <1>1, <1>2, <1>7 DEF DecideConfirm, At, RequestOK, Asking, Claiming
    <2>2. RowsOK' /\ RowsKept
      BY <1>1, <1>3, <1>7, <2>1, SetStatusOK DEF DecideConfirm, Status, Live, b
    <2>3. RequestsOK'
      BY <1>1, <1>7, <2>2, DoneOK DEF DecideConfirm
    <2> QED BY <1>7, <2>2, <2>3 DEF DecideConfirm, TypeOK
  <1>8. CASE Claim(r)
    <2>1. b \in Booking /\ booking[b].status # "none" /\ req[r].kind \in OnBooking
      BY <1>1, <1>2, <1>8 DEF Claim, At, RequestOK, Asking, Claiming
    <2>2. ClosedAs(req[r].kind) \in Status \ {"none"}
      BY DEF ClosedAs, Status, Closed
    <2>3. RowsOK' /\ RowsKept
      BY <1>1, <1>3, <1>8, <2>1, <2>2, SetStatusOK DEF Claim, b
    <2>4. CASE Done(r)
      BY <1>1, <1>8, <2>3, <2>4, DoneOK DEF Claim, TypeOK
    <2>5. CASE req' = [req EXCEPT ![r].pc = "refund"]
      <3> DEFINE q == [req[r] EXCEPT !.pc = "refund"]
      <3>1. booking[b].status \in Status
        BY <1>1, <2>1 DEF RowsOK, BookingRow
      <3>2. q \in Request /\ q.pc = "refund" /\ q.kind = req[r].kind /\ q.b = b
            /\ q.seen = req[r].seen /\ q.from = req[r].from /\ q.to = req[r].to
        BY <1>1, <3>1 DEF Request, Step, b, Asking
      <3>3. RequestOK(q) /\ (q.kind \in OnBooking => booking'[q.b].status # "none")
        BY <1>1, <1>8, <2>1, <2>3, <3>2 DEF RequestOK, RowsKept, Claim, At, b, Asking, Claiming
      <3>4. req' = [req EXCEPT ![r] = q]
        BY <2>5 DEF b
      <3>5. req' \in [Req -> Request]
        BY <1>1, <3>2, <3>4 DEF RequestsOK
      <3>6. ASSUME NEW s \in Req
            PROVE  RequestOK(req'[s]) /\ (req'[s].kind \in OnBooking => booking'[req'[s].b].status # "none")
        <4> HIDE DEF q
        <4>1. CASE s = r
          BY <1>1, <3>3, <3>4, <4>1 DEF RequestsOK
        <4>2. CASE s # r
          BY <1>1, <2>3, <3>4, <4>2 DEF RequestsOK, RowsKept, RequestOK, Asking, Claiming
        <4> QED BY <4>1, <4>2
      <3>7. RequestsOK'
        BY <3>5, <3>6 DEF RequestsOK, RequestOK, Asking, Claiming
      <3> QED BY <1>8, <2>3, <3>7 DEF Claim, TypeOK
    <2> QED BY <1>8, <2>4, <2>5 DEF Claim
  <1>9. CASE Unclaim(r)
    <2>1. /\ b \in Booking /\ booking[b].status # "none"
          /\ req[r].seen \in Status \ {"none"}
      BY <1>1, <1>2, <1>9 DEF Unclaim, At, RequestOK, Request, Asking, Claiming
    <2>2. RowsOK' /\ RowsKept
      BY <1>1, <1>3, <1>9, <2>1, SetStatusOK DEF Unclaim, b
    <2>3. RequestsOK'
      BY <1>1, <1>9, <2>2, DoneOK DEF Unclaim
    <2> QED BY <1>9, <2>2, <2>3 DEF Unclaim, TypeOK
  <1>10. CASE FinishDecline(r)
    <2>1. b \in Booking
      BY <1>1, <1>2, <1>10 DEF FinishDecline, At, RequestOK, Asking, Claiming
    <2>2. RowsOK' /\ RowsKept
      BY <1>1, <1>3, <1>10, <2>1, SetPayOK DEF FinishDecline, PayStatus, b
    <2>3. RequestsOK'
      BY <1>1, <1>10, <2>2, DoneOK DEF FinishDecline
    <2> QED BY <1>10, <2>2, <2>3 DEF FinishDecline, TypeOK
  <1>11. CASE FinishCancel(r)
    <2>1. b \in Booking /\ booking[b].status # "none" /\ booking[b] \in BookingRow
      BY <1>1, <1>2, <1>11 DEF FinishCancel, At, RequestOK, RowsOK, Asking, Claiming
    <2>2. PICK refunds \in BOOLEAN :
            booking' = [booking EXCEPT ![b].status = "cancelled",
                                       ![b].pay = IF refunds /\ @ = "covered" THEN "refunded" ELSE @]
      BY <1>11 DEF FinishCancel, b
    <2> DEFINE row == [booking[b] EXCEPT !.status = "cancelled",
                         !.pay = IF refunds /\ @ = "covered" THEN "refunded" ELSE @]
    <2>3. /\ row \in BookingRow /\ row.status = "cancelled"
          /\ row.from = booking[b].from /\ row.to = booking[b].to
      BY <2>1 DEF BookingRow, Status, Closed, PayStatus
    <2>4. booking' = [booking EXCEPT ![b] = row]
      BY <2>2
    <2>5. RowsOK' /\ RowsKept
      <3> HIDE DEF row
      <3> QED BY <1>1, <2>1, <2>3, <2>4 DEF RowsOK, RowsKept
    <2>6. RequestsOK'
      BY <1>1, <1>11, <2>5, DoneOK DEF FinishCancel
    <2> QED BY <1>11, <2>5, <2>6 DEF FinishCancel, TypeOK
  <1>12. CASE AdminClose(r)
    <2>1. b \in Booking /\ booking[b].status # "none" /\ req[r].kind \in OnBooking
      BY <1>1, <1>2, <1>12 DEF AdminClose, At, RequestOK, Asking, Claiming
    <2>2. RowsOK' /\ RowsKept
      BY <1>1, <1>12, <2>1, SetStatusOK DEF AdminClose, Status, Closed, b
    <2>3. CASE Done(r)
      BY <1>1, <1>12, <2>2, <2>3, DoneOK DEF AdminClose, TypeOK
    <2>4. CASE Goto(r, "adminPay")
      <3>1. ~At(r, "idle") /\ "adminPay" \in Step \ {"idle"}
        BY <1>12 DEF AdminClose, At, Step, Asking
      <3>2. RequestsOK'
        BY <1>1, <2>1, <2>2, <2>4, <3>1, GotoOK
      <3> QED BY <1>12, <2>2, <3>2 DEF AdminClose, TypeOK
    <2> QED BY <1>12, <2>3, <2>4 DEF AdminClose
  <1>13. CASE AdminPay(r)
    <2>1. b \in Booking
      BY <1>1, <1>2, <1>13 DEF AdminPay, At, RequestOK, Asking, Claiming
    <2>2. RowsOK' /\ RowsKept
      BY <1>1, <1>13, <2>1, SetPayOK DEF AdminPay, PayStatus, b
    <2>3. RequestsOK'
      BY <1>1, <1>13, <2>2, DoneOK DEF AdminPay
    <2> QED BY <1>13, <2>2, <2>3 DEF AdminPay, TypeOK
  <1>14. CASE RecordPayment(r)
    <2>1. b \in Booking /\ req[r].kind \in OnBooking
      BY <1>1, <1>2, <1>14 DEF RecordPayment, At, RequestOK, Asking, Claiming
    <2>2. RowsOK' /\ RowsKept
      BY <1>1, <1>3, <1>14, <2>1, SetPayOK DEF RecordPayment, PayStatus, b
    <2>3. CASE Done(r)
      BY <1>1, <1>14, <2>2, <2>3, DoneOK DEF RecordPayment, TypeOK
    <2>4. CASE Goto(r, "instant")
      <3>1. ~At(r, "idle") /\ "instant" \in Step \ {"idle"}
        BY <1>14 DEF RecordPayment, At, Step, Asking
      <3>2. RequestsOK'
        BY <1>1, <2>1, <2>2, <2>4, <3>1, GotoOK
      <3> QED BY <1>14, <2>2, <3>2 DEF RecordPayment, TypeOK
    <2> QED BY <1>14, <2>3, <2>4 DEF RecordPayment
  <1>15. CASE ConfirmInstantBook(r)
    <2>1. b \in Booking /\ booking[b].status # "none"
      BY <1>1, <1>2, <1>15 DEF ConfirmInstantBook, At, RequestOK, Asking, Claiming
    <2>2. RowsOK' /\ RowsKept
      BY <1>1, <1>3, <1>15, <2>1, SetStatusOK DEF ConfirmInstantBook, Status, Live, b
    <2>3. RequestsOK'
      BY <1>1, <1>15, <2>2, DoneOK DEF ConfirmInstantBook
    <2> QED BY <1>15, <2>2, <2>3 DEF ConfirmInstantBook, TypeOK
  <1> QED BY <1>4, <1>5, <1>6, <1>7, <1>8, <1>9, <1>10, <1>11, <1>12, <1>13, <1>14, <1>15

\* The statements that are not part of a request, the sweep and the clock.
LEMMA OtherStepType ==
    ASSUME ReservationsAssumption, TypeOK,
           \/ \E b \in Booking : \/ RefundBooking(b) \/ RecordFailure(b) \/ HoldElapses(b)
                                 \/ \E f, t \in Day : AdjustBooking(b, f, t)
           \/ ExpireUnpaidBookings \/ CompleteFinishedStays \/ NextDay \/ UNCHANGED vars
    PROVE  TypeOK'
  <1>1. RowsOK /\ RequestsOK
    BY DEF TypeOK
  <1>2. ASSUME RowsKept, UNCHANGED req PROVE RequestsOK'
    BY <1>1, <1>2 DEF RequestsOK, RequestOK, RowsKept, Asking, Claiming
  <1>3. ASSUME NEW b \in Booking, RefundBooking(b) PROVE TypeOK'
    <2>1. RowsOK' /\ RowsKept
      BY <1>1, <1>3, SetPayOK DEF RefundBooking, PayStatus
    <2> QED BY <1>2, <1>3, <2>1 DEF RefundBooking, TypeOK
  <1>4. ASSUME NEW b \in Booking, RecordFailure(b) PROVE TypeOK'
    <2>1. RowsOK' /\ RowsKept
      BY <1>1, <1>4, SetPayOK DEF RecordFailure, PayStatus
    <2> QED BY <1>2, <1>4, <2>1 DEF RecordFailure, TypeOK
  <1>5. ASSUME NEW b \in Booking, HoldElapses(b) PROVE TypeOK'
    <2> DEFINE row == [booking[b] EXCEPT !.old = TRUE]
    <2>1. booking[b] \in BookingRow /\ booking' = [booking EXCEPT ![b] = row]
      BY <1>1, <1>5 DEF RowsOK, HoldElapses
    <2>2. /\ row \in BookingRow /\ row.status = booking[b].status
          /\ row.from = booking[b].from /\ row.to = booking[b].to
      BY <2>1 DEF BookingRow
    <2>3. RowsOK' /\ RowsKept
      <3> HIDE DEF row
      <3> QED BY <1>1, <2>1, <2>2 DEF RowsOK, RowsKept
    <2> QED BY <1>2, <1>5, <2>3 DEF HoldElapses, TypeOK
  <1>6. ASSUME NEW b \in Booking, NEW f \in Day, NEW t \in Day, AdjustBooking(b, f, t)
        PROVE  TypeOK'
    <2> DEFINE row == [booking[b] EXCEPT !.from = f, !.to = t]
    <2>1. booking[b] \in BookingRow /\ booking' = [booking EXCEPT ![b] = row]
      BY <1>1, <1>6 DEF RowsOK, AdjustBooking
    <2>2. /\ row \in BookingRow /\ row.status = booking[b].status
          /\ row.from < row.to
      BY <1>6, <2>1 DEF BookingRow, AdjustBooking
    <2>3. RowsOK' /\ RowsKept
      <3> HIDE DEF row
      <3> QED BY <1>1, <2>1, <2>2 DEF RowsOK, RowsKept
    <2> QED BY <1>2, <1>6, <2>3 DEF AdjustBooking, TypeOK
  <1>7. CASE ExpireUnpaidBookings
    <2>1. CASE FindUnpaidBookings
      BY <1>1, <1>2, <2>1 DEF FindUnpaidBookings, ExpiredHolds, RowsOK, RowsKept, TypeOK
    <2>2. CASE CommitExpired
      <3>1. RowsOK' /\ RowsKept
        BY <1>1, <2>2, DropOK DEF CommitExpired, StillPending
      <3> QED BY <1>2, <2>2, <3>1 DEF CommitExpired, TypeOK
    <2> QED BY <1>7, <2>1, <2>2 DEF ExpireUnpaidBookings
  <1>8. CASE CompleteFinishedStays
    <2>1. ASSUME NEW b \in Booking
          PROVE  /\ booking'[b] \in BookingRow
                 /\ booking'[b].from = booking[b].from /\ booking'[b].to = booking[b].to
                 /\ booking'[b].status # "none" <=> booking[b].status # "none"
      BY <1>1, <1>8, ZenonT(40) DEF CompleteFinishedStays, RowsOK, BookingRow, Status, Live
    <2>2. booking' \in [Booking -> BookingRow]
      BY <1>8, <2>1 DEF CompleteFinishedStays
    <2>3. RowsOK' /\ RowsKept
      BY <1>1, <2>1, <2>2 DEF RowsOK, RowsKept
    <2> QED BY <1>2, <1>8, <2>3 DEF CompleteFinishedStays, TypeOK
  <1>9. CASE NextDay
    <2>1. RowsOK' /\ RowsKept /\ RequestsOK'
      BY <1>1, <1>9 DEF NextDay, RowsOK, RowsKept, RequestsOK, RequestOK, Asking, Claiming
    <2> QED BY <1>9, <2>1 DEF NextDay, TypeOK, Day, ReservationsAssumption
  <1>10. CASE UNCHANGED vars
    BY <1>10 DEF vars, TypeOK, RowsOK, RequestsOK, RequestOK, Asking, Claiming
  <1> QED BY <1>3, <1>4, <1>5, <1>6, <1>7, <1>8, <1>9, <1>10

\* Every step of the system keeps the types.
LEMMA NextType == ASSUME ReservationsAssumption, TypeOK, [Next]_vars PROVE TypeOK'
  BY OwnStepType, StartType, WriteStepType, OtherStepType
  DEF Next, CheckStep, CreateStep, ConfirmStep, ClaimStep, AdminStep, WebhookStep

\* Whatever requests, sweeps and lost connections do, the booking table and the
\* requests stay well-formed: dates in order, no request on a row that was never
\* written, no outcome without a claim.
THEOREM TypeCorrect == Spec => []TypeOK
  <1>1. Init => TypeOK
    BY ReservationsAssumption, InitType
  <1>2. TypeOK /\ [Next]_vars => TypeOK'
    BY ReservationsAssumption, NextType
  <1> QED BY <1>1, <1>2, PTL DEF Spec

-------------------------------------------------------------------------------
(* No night is sold twice.                                                  *)

\* A step that puts no booking on the calendar and moves none.
Narrows ==
    \A b \in Booking : booking'[b].status \in Live =>
        /\ booking[b].status \in Live
        /\ booking'[b].prop = booking[b].prop
        /\ booking'[b].from = booking[b].from
        /\ booking'[b].to = booking[b].to

\* A step that writes the row of b only, on nights that nobody else has.
Takes(b) ==
    /\ \A c \in Booking \ {b} : booking'[c] = booking[c]
    /\ Conflicts(b, booking'[b]) = {}

\* A step that only gives nights up cannot make two live bookings overlap.
LEMMA NarrowsSafe == ASSUME NoDoubleBooking, Narrows PROVE NoDoubleBooking'
  BY DEF NoDoubleBooking, Narrows, Overlaps

\* Nor can a step by which one booking takes nights no other live booking has.
LEMMA TakesSafe ==
    ASSUME RowsOK, RowsOK', NoDoubleBooking, NEW b \in Booking, Takes(b)
    PROVE  NoDoubleBooking'
  <1> SUFFICES ASSUME NEW c \in Booking, NEW d \in Booking, c # d,
                      booking'[c].status \in Live, booking'[d].status \in Live,
                      booking'[c].prop = booking'[d].prop
               PROVE  ~Overlaps(booking'[c], booking'[d])
    BY DEF NoDoubleBooking, Overlaps
  <1>1. CASE c # b /\ d # b
    BY <1>1 DEF NoDoubleBooking, Takes, Overlaps
  <1>2. CASE c = b
    BY <1>2 DEF Takes, Conflicts, Overlaps
  <1>3. CASE d = b
    <2>1. ~Overlaps(booking'[c], booking'[b])
      BY <1>3 DEF Takes, Conflicts
    <2> QED BY <1>3, <2>1
  <1> QED BY <1>1, <1>2, <1>3

\* Every step is of one of the two kinds: the constraint stands behind the three
\* statements that can put nights into other hands.
LEMMA CalendarStep ==
    ASSUME ReservationsAssumption, TypeOK, [Next]_vars
    PROVE  Narrows \/ \E b \in Booking : Takes(b)
  <1>1. RowsOK /\ RequestsOK
    BY DEF TypeOK
  <1>2. ASSUME UNCHANGED booking PROVE Narrows
    BY <1>2 DEF Narrows
  <1>3. ASSUME NEW B, booking' = Drop(B) PROVE Narrows
    BY <1>1, <1>3, DropType DEF Narrows, RowsOK, Live
  <1>4. ASSUME NEW b \in Booking \cup {None}, NEW s, booking' = SetStatus(b, s),
               booking[b].status \in Live \/ s \notin Live
        PROVE  Narrows
    BY <1>1, <1>4 DEF Narrows, SetStatus, RowsOK, BookingRow
  <1>5. ASSUME NEW b \in Booking \cup {None}, NEW pay, booking' = [booking EXCEPT ![b].pay = pay]
        PROVE  Narrows
    BY <1>1, <1>5 DEF Narrows, RowsOK, BookingRow
  <1>6. ASSUME NEW r \in Req
        PROVE  req[r].b \in Booking \cup {None}
    BY <1>1 DEF RequestsOK, Request
  <1>7. ASSUME NEW r \in Req, InsertBooking(r)
        PROVE  Narrows \/ \E b \in Booking : Takes(b)
    <2>1. CASE UNCHANGED booking
      BY <1>2, <2>1
    <2>2. CASE ~UNCHANGED booking
      <3>1. Conflicts(None, req[r]) = {}
        BY <1>7, <2>2 DEF InsertBooking
      <3>2. PICK b \in Booking :
              booking' = [booking EXCEPT ![b] =
                            [status |-> "pending", guest |-> req[r].guest, prop |-> req[r].prop,
                             from |-> req[r].from, to |-> req[r].to,
                             pay |-> "pending", old |-> FALSE]]
        BY <1>7, <3>1 DEF InsertBooking
      <3>3. /\ booking'[b].prop = req[r].prop
            /\ booking'[b].from = req[r].from /\ booking'[b].to = req[r].to
        BY <1>1, <3>2 DEF RowsOK
      <3>4. Takes(b)
        BY <1>1, <3>1, <3>2, <3>3 DEF Takes, Conflicts, Overlaps, RowsOK, ReservationsAssumption
      <3> QED BY <3>4
    <2> QED BY <2>1, <2>2
  <1>8. ASSUME NEW r \in Req, Unclaim(r)
        PROVE  Narrows \/ \E b \in Booking : Takes(b)
    <2> DEFINE b == req[r].b
    <2>1. CASE UNCHANGED booking
      BY <1>2, <2>1
    <2>2. CASE ~UNCHANGED booking
      <3>1. b \in Booking /\ Conflicts(b, booking[b]) = {} /\ booking' = SetStatus(b, req[r].seen)
        BY <1>1, <1>8, <2>2 DEF Unclaim, At, RequestsOK, RequestOK, OnBooking, Kind, Asking, Claiming
      <3>2. /\ booking'[b].prop = booking[b].prop
            /\ booking'[b].from = booking[b].from /\ booking'[b].to = booking[b].to
        BY <1>1, <3>1 DEF SetStatus, RowsOK, BookingRow
      <3>3. \A c \in Booking \ {b} : booking'[c] = booking[c]
        BY <1>1, <3>1 DEF SetStatus, RowsOK
      <3>4. Takes(b)
        BY <3>1, <3>2, <3>3 DEF Takes, Conflicts, Overlaps
      <3> QED BY <3>1, <3>4
    <2> QED BY <2>1, <2>2
  <1>9. ASSUME NEW b \in Booking, NEW f \in Day, NEW t \in Day, AdjustBooking(b, f, t)
        PROVE  Narrows \/ \E c \in Booking : Takes(c)
    <2>1. /\ booking'[b].status = booking[b].status /\ booking'[b].prop = booking[b].prop
          /\ booking'[b].from = f /\ booking'[b].to = t
      BY <1>1, <1>9 DEF AdjustBooking, RowsOK, BookingRow
    <2>2. \A c \in Booking \ {b} : booking'[c] = booking[c]
      BY <1>1, <1>9 DEF AdjustBooking, RowsOK
    <2>3. CASE booking[b].status \notin Live
      BY <2>1, <2>2, <2>3 DEF Narrows
    <2>4. CASE booking[b].status \in Live
      <3> DEFINE row == [booking[b] EXCEPT !.from = f, !.to = t]
      <3>1. row.prop = booking[b].prop /\ row.from = f /\ row.to = t
        BY <1>1 DEF RowsOK, BookingRow
      <3>2. Conflicts(b, row) = {}
        BY <1>9, <2>4 DEF AdjustBooking
      <3> HIDE DEF row
      <3>3. Takes(b)
        BY <2>1, <2>2, <3>1, <3>2 DEF Takes, Conflicts, Overlaps
      <3> QED BY <3>3
    <2> QED BY <2>3, <2>4
  <1>10. ASSUME NEW b \in Booking, HoldElapses(b) PROVE Narrows
    BY <1>1, <1>10 DEF HoldElapses, Narrows, RowsOK, BookingRow
  <1>11. CASE CompleteFinishedStays
    <2>1. ASSUME NEW b \in Booking
          PROVE  /\ booking'[b].status \in Live => booking[b].status \in Live
                 /\ booking'[b].prop = booking[b].prop
                 /\ booking'[b].from = booking[b].from /\ booking'[b].to = booking[b].to
      BY <1>1, <1>11 DEF CompleteFinishedStays, RowsOK, BookingRow, Live
    <2> QED BY <2>1 DEF Narrows
  <1>12. ASSUME NEW r \in Req, FinishCancel(r) PROVE Narrows
    BY <1>1, <1>6, <1>12 DEF FinishCancel, Narrows, RowsOK, BookingRow, Live
  <1>13. ASSUME NEW r \in Req,
                \/ DecideConfirm(r) \/ Claim(r) \/ AdminClose(r) \/ ConfirmInstantBook(r)
         PROVE  Narrows
    <2>1. "cancelled" \notin Live /\ "declined" \notin Live /\ "pending" \in Live
      BY DEF Live
    <2> QED BY <1>2, <1>4, <1>6, <1>13, <2>1
            DEF DecideConfirm, Claim, AdminClose, ConfirmInstantBook, ClosedAs
  <1>14. ASSUME NEW r \in Req, FinishDecline(r) \/ AdminPay(r) \/ RecordPayment(r)
         PROVE  Narrows
    BY <1>2, <1>5, <1>6, <1>14 DEF FinishDecline, AdminPay, RecordPayment
  <1>15. ASSUME NEW b \in Booking, RefundBooking(b) \/ RecordFailure(b) PROVE Narrows
    BY <1>5, <1>15 DEF RefundBooking, RecordFailure
  <1>16. ASSUME NEW r \in Req, CommitSweep(r) \/ CommitRelease(r) PROVE Narrows
    BY <1>3, <1>16 DEF CommitSweep, CommitRelease
  <1>17. CASE ExpireUnpaidBookings
    BY <1>2, <1>3, <1>17 DEF ExpireUnpaidBookings, FindUnpaidBookings, CommitExpired
  <1>18. ASSUME NEW r \in Req,
                \/ SweepExpiredHolds(r) \/ ReleaseOwnHolds(r) \/ CheckAvailability(r)
                \/ LockAndRecheck(r) \/ Capture(r) \/ Refund(r)
                \/ AdminRefundThroughStripe(r) \/ LoseRequest(r)
         PROVE  UNCHANGED booking
    BY <1>18 DEF SweepExpiredHolds, ReleaseOwnHolds, CheckAvailability, LockAndRecheck, Capture,
                 Refund, AdminRefundThroughStripe, LoseRequest
  <1>19. ASSUME NEW r \in Req,
                \/ \E g \in Guest, p \in Property, f, t \in Day : StartCreate(r, g, p, f, t)
                \/ \E b \in Booking : Start(r, b)
         PROVE  UNCHANGED booking
    BY <1>19 DEF StartCreate, Start, StartConfirm, StartDecline, DeclineUnanswered, StartCancel,
                 StartAdminCancel, StartWebhook
  <1>20. CASE NextDay \/ UNCHANGED vars
    BY <1>2, <1>20 DEF NextDay, vars
  <1> QED
    BY <1>2, <1>7, <1>8, <1>9, <1>10, <1>11, <1>12, <1>13, <1>14, <1>15, <1>16, <1>17, <1>18,
       <1>19, <1>20
    DEF Next, CheckStep, CreateStep, ConfirmStep, ClaimStep, AdminStep, WebhookStep

\* Two live bookings of one listing never share a night: the advisory lock is
\* not even needed for it, the constraint behind InsertBooking, Unclaim and
\* AdjustBooking is enough whatever the requests do.
THEOREM NoNightSoldTwice == Spec => []NoDoubleBooking
  <1>1. Init => NoDoubleBooking
    BY DEF Init, NoDoubleBooking, NoBooking, Live
  <1>2. TypeOK /\ TypeOK' /\ NoDoubleBooking /\ [Next]_vars => NoDoubleBooking'
    BY ReservationsAssumption, CalendarStep, NarrowsSafe, TakesSafe DEF TypeOK
  <1> QED BY <1>1, <1>2, TypeCorrect, PTL DEF Spec

-------------------------------------------------------------------------------
(* At most one claim at a time.                                             *)

\* Request r, which had not claimed, takes the live booking b off the calendar.
Claims(r, b) ==
    /\ req[r].b = b /\ req'[r].b = b
    /\ booking[b].status \notin Closed /\ booking'[b].status \in Closed
    /\ \A s \in Req \ {r} : req'[s] = req[s]
    /\ \A c \in Booking \ {b} : booking'[c] = booking[c]

\* Request r gives its claim on b back and is gone.
GivesBack(r, b) ==
    /\ Holds(r) /\ req[r].b = b /\ ~Holds(r)'
    /\ \A s \in Req \ {r} : req'[s] = req[s]
    /\ \A c \in Booking \ {b} : booking'[c] = booking[c]

StaysClosed == \A b \in Booking : booking[b].status \in Closed => booking'[b].status \in Closed

\* Nobody comes to hold a claim.
NoNewClaim == \A r \in Req : Holds(r)' => Holds(r) /\ req'[r].b = req[r].b

\* A request that moves on holds a claim afterwards only if it held it before.
LEMMA GotoClaim ==
    ASSUME RequestsOK, NEW r \in Req, NEW pc \in Step, Goto(r, pc),
           pc \in {"refund", "unclaim", "finish"} => Holds(r)
    PROVE  NoNewClaim
  <1>1. req'[r] = [req[r] EXCEPT !.pc = pc] /\ \A s \in Req \ {r} : req'[s] = req[s]
    BY DEF RequestsOK, Goto
  <1>2. req'[r].pc = pc /\ req'[r].kind = req[r].kind /\ req'[r].b = req[r].b
    BY <1>1 DEF RequestsOK, Request
  <1>3. ASSUME NEW s \in Req, Holds(s)' PROVE Holds(s) /\ req'[s].b = req[s].b
    BY <1>1, <1>2, <1>3 DEF Holds, Claiming
  <1> QED BY <1>3 DEF NoNewClaim

\* Nor does one whose sweep takes its snapshot or commits.
LEMMA FindClaim ==
    ASSUME RequestsOK, NEW r \in Req, NEW pc \in Asking, NEW F \in SUBSET Booking,
           req' = [req EXCEPT ![r].pc = pc, ![r].found = F]
    PROVE  NoNewClaim
  <1>1. req'[r] = [req[r] EXCEPT !.pc = pc, !.found = F] /\ \A s \in Req \ {r} : req'[s] = req[s]
    BY DEF RequestsOK
  <1>2. req'[r].pc = pc
    BY <1>1 DEF RequestsOK, Request
  <1>3. ASSUME NEW s \in Req, Holds(s)' PROVE Holds(s) /\ req'[s].b = req[s].b
    BY <1>1, <1>2, <1>3 DEF Holds, Claiming, Asking
  <1> QED BY <1>3 DEF NoNewClaim

\* A request that ends holds nothing.
LEMMA DoneClaim ==
    ASSUME RequestsOK, NEW r \in Req, Done(r)
    PROVE  NoNewClaim /\ ~Holds(r)' /\ \A s \in Req \ {r} : req'[s] = req[s]
  BY DEF RequestsOK, Done, Idle, NoNewClaim, Holds, Claiming

\* Every step keeps what is closed and makes no claim, or is a claim on a booking
\* that nobody holds, or is the holder of a claim giving it back.
LEMMA ClaimStepKinds ==
    ASSUME ReservationsAssumption, TypeOK, [Next]_vars
    PROVE  \/ NoNewClaim /\ StaysClosed
           \/ \E r \in Req, b \in Booking : Claims(r, b)
           \/ \E r \in Req, b \in Booking : GivesBack(r, b)
  <1>1. RowsOK /\ RequestsOK
    BY DEF TypeOK
  <1>2. ASSUME UNCHANGED booking PROVE StaysClosed
    BY <1>2 DEF StaysClosed
  <1>3. ASSUME UNCHANGED req PROVE NoNewClaim
    BY <1>3 DEF NoNewClaim, Holds, Claiming
  <1>4. ASSUME NEW B, booking' = Drop(B) PROVE StaysClosed
    BY <1>1, <1>4, DropType DEF StaysClosed, RowsOK, Closed
  <1>5. ASSUME NEW r \in Req PROVE req[r].b \in Booking \cup {None}
    BY <1>1 DEF RequestsOK, Request
  <1>6. ASSUME NEW b \in Booking \cup {None}, NEW s, booking' = SetStatus(b, s),
               booking[b].status \notin Closed \/ s \in Closed
        PROVE  StaysClosed
    BY <1>1, <1>6 DEF StaysClosed, SetStatus, RowsOK, BookingRow
  <1>7. ASSUME NEW b \in Booking \cup {None}, NEW pay, booking' = [booking EXCEPT ![b].pay = pay]
        PROVE  StaysClosed
    BY <1>1, <1>7 DEF StaysClosed, RowsOK, BookingRow
  <1>8. {"idle", "sweep", "check", "lock", "insert", "capture", "decide", "finish", "unclaim",
         "adminClose", "adminPay", "instant"} \subseteq Step
    BY DEF Step, Asking
  <1>9. ASSUME NEW r \in Req,
               \/ SweepExpiredHolds(r) \/ CommitSweep(r) \/ ReleaseOwnHolds(r) \/ CommitRelease(r)
        PROVE  NoNewClaim /\ StaysClosed
    <2>1. StaysClosed
      BY <1>2, <1>4, <1>9 DEF SweepExpiredHolds, CommitSweep, ReleaseOwnHolds, CommitRelease
    <2>2. \/ \E pc \in {"check", "sweep"} : Goto(r, pc)
          \/ \E pc \in {"sweeping", "check", "releasing", "sweep"}, F \in SUBSET Booking :
               req' = [req EXCEPT ![r].pc = pc, ![r].found = F]
      BY <1>9 DEF SweepExpiredHolds, CommitSweep, ReleaseOwnHolds, CommitRelease, ExpiredHolds, OwnHolds
    <2>3. {"sweeping", "check", "releasing", "sweep"} \subseteq Asking
      BY DEF Asking
    <2>4. NoNewClaim
      BY <1>1, <1>8, <2>2, <2>3, GotoClaim, FindClaim
    <2> QED BY <2>1, <2>4
  <1>10. ASSUME NEW r \in Req,
                CheckAvailability(r) \/ LockAndRecheck(r) \/ Capture(r) \/ AdminRefundThroughStripe(r)
         PROVE  NoNewClaim /\ StaysClosed
    <2>1. StaysClosed
      BY <1>2, <1>10 DEF CheckAvailability, LockAndRecheck, Capture, AdminRefundThroughStripe
    <2>2. Done(r) \/ \E pc \in {"lock", "capture", "insert", "decide", "adminClose"} : Goto(r, pc)
      BY <1>10 DEF CheckAvailability, LockAndRecheck, Capture, AdminRefundThroughStripe
    <2>3. NoNewClaim
      BY <1>1, <1>8, <2>2, GotoClaim, DoneClaim
    <2> QED BY <2>1, <2>3
  <1>11. ASSUME NEW r \in Req, Refund(r) PROVE NoNewClaim /\ StaysClosed
    <2>1. Holds(r)
      BY <1>11 DEF Refund, Holds, At, Claiming
    <2>2. NoNewClaim
      BY <1>1, <1>8, <1>11, <2>1, GotoClaim DEF Refund, Claiming
    <2> QED BY <1>2, <1>11, <2>2 DEF Refund, Claiming
  <1>12. ASSUME NEW r \in Req, InsertBooking(r) PROVE NoNewClaim /\ StaysClosed
    <2>1. StaysClosed
      BY <1>1, <1>2, <1>12 DEF InsertBooking, StaysClosed, RowsOK, Closed
    <2> QED BY <1>1, <1>12, <2>1, DoneClaim DEF InsertBooking
  <1>13. ASSUME NEW r \in Req, DecideConfirm(r) \/ ConfirmInstantBook(r)
         PROVE  NoNewClaim /\ StaysClosed
    <2>1. "pending" \notin Closed
      BY DEF Closed
    <2>2. StaysClosed
      BY <1>2, <1>5, <1>6, <1>13, <2>1 DEF DecideConfirm, ConfirmInstantBook
    <2> QED BY <1>1, <1>13, <2>2, DoneClaim DEF DecideConfirm, ConfirmInstantBook
  <1>14. ASSUME NEW r \in Req, AdminClose(r) PROVE NoNewClaim /\ StaysClosed
    <2>1. StaysClosed
      BY <1>5, <1>6, <1>14 DEF AdminClose, Closed
    <2>2. NoNewClaim
      BY <1>1, <1>8, <1>14, GotoClaim, DoneClaim DEF AdminClose
    <2> QED BY <2>1, <2>2
  <1>15. ASSUME NEW r \in Req, FinishDecline(r) \/ AdminPay(r) \/ RecordPayment(r)
         PROVE  NoNewClaim /\ StaysClosed
    <2>1. StaysClosed
      BY <1>2, <1>5, <1>7, <1>15 DEF FinishDecline, AdminPay, RecordPayment
    <2>2. Done(r) \/ Goto(r, "instant")
      BY <1>15 DEF FinishDecline, AdminPay, RecordPayment
    <2> QED BY <1>1, <1>8, <2>1, <2>2, GotoClaim, DoneClaim
  <1>16. ASSUME NEW r \in Req, FinishCancel(r) PROVE NoNewClaim /\ StaysClosed
    <2>1. StaysClosed
      BY <1>1, <1>5, <1>16 DEF FinishCancel, StaysClosed, RowsOK, BookingRow, Closed
    <2> QED BY <1>1, <1>16, <2>1, DoneClaim DEF FinishCancel
  <1>17. ASSUME NEW r \in Req, LoseRequest(r) PROVE NoNewClaim /\ StaysClosed
    BY <1>1, <1>2, <1>17, DoneClaim DEF LoseRequest
  <1>18. ASSUME NEW r \in Req, Claim(r)
         PROVE  (NoNewClaim /\ StaysClosed) \/ \E b \in Booking : Claims(r, b)
    <2> DEFINE b == req[r].b
    <2>1. CASE Done(r) /\ UNCHANGED booking
      BY <1>1, <1>2, <2>1, DoneClaim
    <2>2. CASE ~(Done(r) /\ UNCHANGED booking)
      <3>1. /\ b \in Booking
            /\ booking[b].status \in {"pending", "confirmed"}
            /\ booking' = SetStatus(b, ClosedAs(req[r].kind))
            /\ req' = [req EXCEPT ![r].pc = "refund"]
        BY <1>1, <1>18, <2>2 DEF Claim, Claimable, At, RequestsOK, RequestOK, Asking, Claiming
      <3>2. booking'[b].status \in Closed /\ \A c \in Booking \ {b} : booking'[c] = booking[c]
        BY <1>1, <3>1 DEF SetStatus, ClosedAs, Closed, RowsOK, BookingRow
      <3>3. req'[r].b = b /\ \A s \in Req \ {r} : req'[s] = req[s]
        BY <1>1, <3>1 DEF RequestsOK, Request
      <3>4. Claims(r, b)
        BY <3>1, <3>2, <3>3 DEF Claims, Closed
      <3> QED BY <3>1, <3>4
    <2> QED BY <2>1, <2>2
  <1>19. ASSUME NEW r \in Req, Unclaim(r) PROVE \E b \in Booking : GivesBack(r, b)
    <2> DEFINE b == req[r].b
    <2>1. b \in Booking /\ Holds(r)
      BY <1>1, <1>19 DEF Unclaim, At, RequestsOK, RequestOK, OnBooking, Kind, Holds, Asking, Claiming
    <2>2. ~Holds(r)' /\ \A s \in Req \ {r} : req'[s] = req[s]
      BY <1>1, <1>19, DoneClaim DEF Unclaim
    <2>3. \A c \in Booking \ {b} : booking'[c] = booking[c]
      BY <1>1, <1>19 DEF Unclaim, SetStatus, RowsOK
    <2>4. GivesBack(r, b)
      BY <2>1, <2>2, <2>3 DEF GivesBack
    <2> QED BY <2>1, <2>4
  <1>20. ASSUME NEW r \in Req, NEW g \in Guest, NEW p \in Property, NEW f \in Day, NEW t \in Day,
                StartCreate(r, g, p, f, t)
         PROVE  NoNewClaim /\ StaysClosed
    BY <1>1, <1>2, <1>20 DEF StartCreate, NoNewClaim, Holds, RequestsOK, Claiming
  <1>21. ASSUME NEW r \in Req, NEW b \in Booking, Start(r, b) PROVE NoNewClaim /\ StaysClosed
    <2>1. \E kind \in OnBooking, pc \in Step :
            /\ Begin(r, kind, b, pc)
            /\ ~(kind \in Claiming /\ pc \in {"refund", "unclaim", "finish"})
      BY <1>21 DEF Start, StartConfirm, StartDecline, DeclineUnanswered, StartCancel,
                   StartAdminCancel, StartWebhook, OnBooking, Kind, Step, Asking, Claiming
    <2>2. NoNewClaim
      BY <1>1, <2>1 DEF Begin, NoNewClaim, Holds, RequestsOK, Claiming
    <2>3. StaysClosed
      BY <1>2, <1>21 DEF Start, StartConfirm, StartDecline, DeclineUnanswered, StartCancel,
                         StartAdminCancel, StartWebhook
    <2> QED BY <2>2, <2>3
  <1>22. ASSUME NEW b \in Booking, RefundBooking(b) \/ RecordFailure(b)
         PROVE  NoNewClaim /\ StaysClosed
    BY <1>3, <1>7, <1>22 DEF RefundBooking, RecordFailure
  <1>23. ASSUME NEW b \in Booking, HoldElapses(b) PROVE NoNewClaim /\ StaysClosed
    BY <1>1, <1>3, <1>23 DEF HoldElapses, StaysClosed, RowsOK, BookingRow
  <1>24. ASSUME NEW b \in Booking, NEW f \in Day, NEW t \in Day, AdjustBooking(b, f, t)
         PROVE  NoNewClaim /\ StaysClosed
    BY <1>1, <1>3, <1>24 DEF AdjustBooking, StaysClosed, RowsOK, BookingRow
  <1>25. CASE ExpireUnpaidBookings
    BY <1>2, <1>3, <1>4, <1>25 DEF ExpireUnpaidBookings, FindUnpaidBookings, CommitExpired
  <1>26. CASE CompleteFinishedStays
    BY <1>1, <1>3, <1>26 DEF CompleteFinishedStays, StaysClosed, RowsOK, BookingRow, Closed
  <1>27. CASE NextDay \/ UNCHANGED vars
    BY <1>2, <1>3, <1>27 DEF NextDay, vars
  <1> QED
    BY <1>9, <1>10, <1>11, <1>12, <1>13, <1>14, <1>15, <1>16, <1>17, <1>18, <1>19, <1>20,
       <1>21, <1>22, <1>23, <1>24, <1>25, <1>26, <1>27
    DEF Next, CheckStep, CreateStep, ConfirmStep, ClaimStep, AdminStep, WebhookStep

\* Every step keeps the claims exclusive.
LEMMA ExclusiveNext ==
    ASSUME ReservationsAssumption, TypeOK, ExclusiveClaim, [Next]_vars
    PROVE  ExclusiveClaim'
  <1>1. ASSUME NEW r \in Req, Holds(r) PROVE req[r].b \in Booking
    BY <1>1 DEF TypeOK, RequestsOK, RequestOK, Holds, OnBooking, Kind, Asking, Claiming
  <1>2. CASE NoNewClaim /\ StaysClosed
    BY <1>1, <1>2 DEF ExclusiveClaim, NoNewClaim, StaysClosed, Holds, Claiming
  <1>3. ASSUME NEW r \in Req, NEW b \in Booking, Claims(r, b) PROVE ExclusiveClaim'
    <2>1. \A s \in Req : Holds(s) => req[s].b # b
      BY <1>3 DEF Claims, ExclusiveClaim
    <2>2. \A s \in Req \ {r} : /\ Holds(s)' <=> Holds(s)
                               /\ req'[s].b = req[s].b
      BY <1>3 DEF Claims, Holds, Claiming
    <2>3. Holds(r)' => req'[r].b = b
      BY <1>1, <1>3 DEF Claims, Holds, Claiming
    <2> QED BY <1>1, <1>3, <2>1, <2>2, <2>3 DEF ExclusiveClaim, Claims, Holds, Claiming
  <1>4. ASSUME NEW r \in Req, NEW b \in Booking, GivesBack(r, b) PROVE ExclusiveClaim'
    <2>1. \A s \in Req \ {r} : /\ Holds(s)' <=> Holds(s)
                               /\ req'[s].b = req[s].b
                               /\ Holds(s) => req[s].b # b
      BY <1>4 DEF GivesBack, Holds, ExclusiveClaim, Claiming
    <2> QED BY <1>1, <1>4, <2>1 DEF ExclusiveClaim, GivesBack, Holds, Claiming
  <1> QED BY <1>2, <1>3, <1>4, ClaimStepKinds

\* Of all the declines and cancellations of one booking at most one is moving the
\* money, and the booking is off the calendar meanwhile: the UPDATE ... WHERE
\* status of the claim is a lock that only its holder releases.
THEOREM ClaimsAreExclusive == Spec => []ExclusiveClaim
  <1>1. Init => ExclusiveClaim
    BY DEF Init, ExclusiveClaim, Holds, Idle, Claiming
  <1>2. TypeOK /\ ExclusiveClaim /\ [Next]_vars => ExclusiveClaim'
    BY ReservationsAssumption, ExclusiveNext
  <1> QED BY <1>1, <1>2, TypeCorrect, PTL DEF Spec

\* A booking that is declined or cancelled comes back only through the request
\* whose claim closed it.
THEOREM SettledForGood == Spec => SettledStaysClosed
  <1>1. TypeOK /\ [Next]_vars =>
          [\A b \in Booking :
             booking[b].status \in Closed /\ (\A r \in Req : Holds(r) => req[r].b # b)
             => booking'[b].status \in Closed]_vars
    BY ReservationsAssumption, ClaimStepKinds DEF StaysClosed, Claims, GivesBack
  <1> QED BY <1>1, TypeCorrect, PTL DEF Spec, SettledStaysClosed

-------------------------------------------------------------------------------
(* Covered requests                                                        *)

\* A covered request is pending and its payment authorized or paid; what takes it
\* off the calendar is a claim, the administrator, or a sweep that ends.
Covered(b) == booking[b].status = "pending" /\ ~Unpaid(b)

Answered(b) == \E r \in Req : /\ req[r].b = b
                             /\ \/ req[r].pc = "claim" /\ req'[r].pc = "refund"
                                \/ req[r].pc = "adminClose"

Swept(b) == Found(b)' # Found(b)

CoveredKept ==
    \A b \in Booking : Covered(b) /\ booking'[b].status \notin Live => Answered(b) \/ Swept(b)

\* What a commit drops, its sweep had found.
LEMMA DropCovered ==
    ASSUME RowsOK, NEW B, \A b \in B : Swept(b), booking' = Drop(B)
    PROVE  CoveredKept
  <1>1. ASSUME NEW b \in Booking, b \notin B PROVE booking'[b] = booking[b]
    BY <1>1 DEF Drop
  <1> QED BY <1>1 DEF CoveredKept, Covered, Live

\* The sweep of a request ends with its commit, and so does the worker's.
LEMMA CommitSweeps ==
    ASSUME ReservationsAssumption, TypeOK
    PROVE  /\ \A r \in Req : CommitSweep(r) \/ CommitRelease(r) => \A b \in req[r].found : Swept(b)
           /\ CommitExpired => \A b \in worker : Swept(b)
  <1>1. ASSUME NEW r \in Req, CommitSweep(r) \/ CommitRelease(r), NEW b \in req[r].found
        PROVE  Swept(b)
    <2>1. req'[r].found = {}
      BY <1>1 DEF CommitSweep, CommitRelease, TypeOK, RequestsOK, Request
    <2>2. r \in Found(b)
      BY <1>1 DEF Found
    <2>3. r \notin Found(b)'
      BY <2>1 DEF Found, ReservationsAssumption
    <2> QED BY <2>2, <2>3 DEF Swept
  <1>2. ASSUME CommitExpired, NEW b \in worker PROVE Swept(b)
    <2>1. None \in Found(b)
      BY <1>2 DEF Found
    <2>2. None \notin Found(b)'
      BY <1>2 DEF CommitExpired, Found, ReservationsAssumption
    <2> QED BY <2>1, <2>2 DEF Swept
  <1> QED BY <1>1, <1>2

\* A step that changes the status of one booking only keeps the others.
LEMMA OneStatus ==
    ASSUME RowsOK, NEW b \in Booking \cup {None}, NEW s, booking' = SetStatus(b, s),
           s \in Live \/ ~Covered(b) \/ Answered(b)
    PROVE  CoveredKept
  <1>1. \A c \in Booking : booking'[c].status = IF c = b THEN s ELSE booking[c].status
    BY DEF RowsOK, BookingRow, SetStatus
  <1> QED BY <1>1 DEF CoveredKept, Covered, Live

\* Every step keeps covered requests on the calendar until they are answered.
LEMMA CoveredNext ==
    ASSUME ReservationsAssumption, TypeOK, ExclusiveClaim, [Next]_vars
    PROVE  CoveredKept
  <1>1. RowsOK /\ RequestsOK
    BY DEF TypeOK
  <1>2. ASSUME \A b \in Booking : booking'[b].status = booking[b].status PROVE CoveredKept
    BY <1>2 DEF CoveredKept, Covered, Live
  <1>3. ASSUME UNCHANGED booking PROVE CoveredKept
    BY <1>2, <1>3
  <1>4. ASSUME NEW r \in Req PROVE req[r].b \in Booking \cup {None}
    BY <1>1 DEF RequestsOK, Request
  <1>5. ASSUME NEW b \in Booking \cup {None}, NEW pay, booking' = [booking EXCEPT ![b].pay = pay]
        PROVE  CoveredKept
    BY <1>1, <1>2, <1>5 DEF RowsOK, BookingRow
  <1>6. ASSUME NEW r \in Req, CommitSweep(r) \/ CommitRelease(r) PROVE CoveredKept
    <2>1. \A b \in req[r].found : Swept(b)
      BY <1>6, CommitSweeps
    <2> QED BY <1>1, <1>6, <2>1, DropCovered DEF CommitSweep, CommitRelease, StillPending
  <1>7. ASSUME NEW r \in Req, InsertBooking(r) PROVE CoveredKept
    BY <1>1, <1>3, <1>7 DEF InsertBooking, RowsOK, CoveredKept, Covered, Live
  <1>8. ASSUME NEW r \in Req, DecideConfirm(r) \/ ConfirmInstantBook(r) PROVE CoveredKept
    <2>1. "confirmed" \in Live
      BY DEF Live
    <2> QED BY <1>1, <1>3, <1>4, <1>8, <2>1, OneStatus DEF DecideConfirm, ConfirmInstantBook
  <1>9. ASSUME NEW r \in Req, Claim(r) PROVE CoveredKept
    <2> DEFINE b == req[r].b
    <2>1. CASE UNCHANGED booking
      BY <1>3, <2>1
    <2>2. CASE booking' # booking
      <3>1. /\ booking' = SetStatus(b, ClosedAs(req[r].kind)) /\ req[r].pc = "claim"
            /\ req' = [req EXCEPT ![r].pc = "refund"]
        BY <1>9, <2>2 DEF Claim, At
      <3>2. req'[r].pc = "refund"
        BY <1>1, <3>1 DEF RequestsOK, Request
      <3>3. Answered(b)
        BY <3>1, <3>2 DEF Answered
      <3> QED BY <1>1, <1>4, <3>1, <3>3, OneStatus
    <2> QED BY <2>1, <2>2
  <1>10. ASSUME NEW r \in Req, Unclaim(r) PROVE CoveredKept
    <2>1. booking[req[r].b].status = ClosedAs(req[r].kind) => ~Covered(req[r].b)
      BY DEF Covered, ClosedAs
    <2> QED BY <1>1, <1>3, <1>4, <1>10, <2>1, OneStatus DEF Unclaim
  <1>11. ASSUME NEW r \in Req, FinishDecline(r) \/ AdminPay(r) \/ RecordPayment(r)
         PROVE  CoveredKept
    BY <1>3, <1>4, <1>5, <1>11 DEF FinishDecline, AdminPay, RecordPayment
  <1>12. ASSUME NEW r \in Req, FinishCancel(r) PROVE CoveredKept
    <2>1. Holds(r)
      BY <1>12 DEF FinishCancel, Holds, At, Claiming
    <2>2. booking[req[r].b].status \in Closed
      BY <2>1 DEF ExclusiveClaim
    <2>3. \A c \in Booking : c # req[r].b => booking'[c] = booking[c]
      BY <1>1, <1>12 DEF FinishCancel, RowsOK
    <2> QED BY <2>2, <2>3 DEF CoveredKept, Covered, Closed, Live
  <1>13. ASSUME NEW r \in Req, AdminClose(r) PROVE CoveredKept
    <2>1. Answered(req[r].b)
      BY <1>13 DEF AdminClose, At, Answered
    <2> QED BY <1>1, <1>4, <1>13, <2>1, OneStatus DEF AdminClose
  <1>14. ASSUME NEW r \in Req,
                \/ SweepExpiredHolds(r) \/ ReleaseOwnHolds(r)
                \/ CheckAvailability(r) \/ LockAndRecheck(r) \/ Capture(r)
                \/ AdminRefundThroughStripe(r) \/ Refund(r) \/ LoseRequest(r)
         PROVE  CoveredKept
    BY <1>3, <1>14 DEF SweepExpiredHolds, ReleaseOwnHolds, CheckAvailability, LockAndRecheck,
                       Capture, AdminRefundThroughStripe, Refund, LoseRequest
  <1>15. ASSUME NEW r \in Req, NEW g \in Guest, NEW p \in Property, NEW f \in Day, NEW t \in Day,
                StartCreate(r, g, p, f, t)
         PROVE  CoveredKept
    BY <1>3, <1>15 DEF StartCreate
  <1>16. ASSUME NEW r \in Req, NEW b \in Booking, Start(r, b) PROVE CoveredKept
    BY <1>3, <1>16 DEF Start, StartConfirm, StartDecline, DeclineUnanswered, StartCancel,
                       StartAdminCancel, StartWebhook
  <1>17. ASSUME NEW b \in Booking, RefundBooking(b) \/ RecordFailure(b) PROVE CoveredKept
    BY <1>5, <1>17 DEF RefundBooking, RecordFailure
  <1>18. ASSUME NEW b \in Booking, HoldElapses(b) \/ \E f, t \in Day : AdjustBooking(b, f, t)
         PROVE  CoveredKept
    <2>1. CASE HoldElapses(b)
      BY <1>1, <1>2, <2>1 DEF HoldElapses, RowsOK, BookingRow
    <2>2. ASSUME NEW f \in Day, NEW t \in Day, AdjustBooking(b, f, t) PROVE CoveredKept
      BY <1>1, <1>2, <2>2 DEF AdjustBooking, RowsOK, BookingRow
    <2> QED BY <1>18, <2>1, <2>2
  <1>19. CASE ExpireUnpaidBookings
    <2>1. CASE FindUnpaidBookings
      BY <1>3, <2>1 DEF FindUnpaidBookings
    <2>2. CASE CommitExpired
      <3>1. \A b \in worker : Swept(b)
        BY <2>2, CommitSweeps
      <3> QED BY <1>1, <2>2, <3>1, DropCovered DEF CommitExpired, StillPending
    <2> QED BY <1>19, <2>1, <2>2 DEF ExpireUnpaidBookings
  <1>20. CASE CompleteFinishedStays
    <2>1. \A b \in Booking : booking[b].status # "confirmed" => booking'[b] = booking[b]
      BY <1>20 DEF CompleteFinishedStays
    <2> QED BY <2>1 DEF CoveredKept, Covered, Live
  <1>21. CASE NextDay \/ UNCHANGED vars
    BY <1>3, <1>21 DEF NextDay, vars
  <1> QED
    BY <1>6, <1>7, <1>8, <1>9, <1>10, <1>11, <1>12, <1>13, <1>14, <1>15, <1>16, <1>17, <1>18,
       <1>19, <1>20, <1>21
    DEF Next, CheckStep, CreateStep, ConfirmStep, ClaimStep, AdminStep, WebhookStep

\* No sweep under way gains a booking.
FoundLess == (\A r \in Req : req'[r].found \subseteq req[r].found) /\ worker' \subseteq worker

\* No sweep under way gains a covered request.
NoneFound == \A b \in Booking : Covered(b) => Found(b)' \subseteq Found(b)

\* A request that moves on has found no more than before.
LEMMA GotoLess ==
    ASSUME RequestsOK, UNCHANGED worker, NEW r \in Req, NEW pc, Goto(r, pc)
    PROVE  FoundLess
  <1>1. req'[r] = [req[r] EXCEPT !.pc = pc] /\ \A s \in Req \ {r} : req'[s] = req[s]
    BY DEF Goto, RequestsOK
  <1>2. req'[r].found = req[r].found
    BY <1>1 DEF RequestsOK, Request
  <1> QED BY <1>1, <1>2 DEF FoundLess

\* A request that begins or ends has found nothing.
LEMMA SlotLess ==
    ASSUME RequestsOK, UNCHANGED worker, NEW r \in Req, NEW q, q.found = {},
           req' = [req EXCEPT ![r] = q]
    PROVE  FoundLess
  BY DEF RequestsOK, FoundLess

\* Every step but the three snapshots finds nothing, and a snapshot finds only
\* what is unpaid.
LEMMA FoundNext ==
    ASSUME ReservationsAssumption, TypeOK, [Next]_vars
    PROVE  NoneFound
  <1>1. RequestsOK
    BY DEF TypeOK
  <1>2. ASSUME FoundLess PROVE NoneFound
    BY <1>2 DEF FoundLess, NoneFound, Found
  <1>3. ASSUME UNCHANGED <<req, worker>> PROVE NoneFound
    BY <1>2, <1>3 DEF FoundLess
  <1>4. ASSUME NEW r \in Req, UNCHANGED worker, Done(r) PROVE NoneFound
    <2>1. Idle.found = {} /\ req' = [req EXCEPT ![r] = Idle]
      BY <1>4 DEF Done, Idle
    <2> QED BY <1>1, <1>2, <1>4, <2>1, SlotLess
  <1>5. ASSUME NEW r \in Req, UNCHANGED worker, NEW pc, Goto(r, pc) PROVE NoneFound
    BY <1>1, <1>2, <1>5, GotoLess
  <1>6. ASSUME NEW r \in Req, UNCHANGED worker, NEW pc, NEW F, \A b \in F : ~Covered(b),
               req' = [req EXCEPT ![r].pc = pc, ![r].found = F]
        PROVE  NoneFound
    <2>1. req'[r].found = F /\ \A s \in Req \ {r} : req'[s] = req[s]
      BY <1>1, <1>6 DEF RequestsOK, Request
    <2>2. ASSUME NEW b \in Booking, Covered(b) PROVE Found(b)' \subseteq Found(b)
      <3>1. b \notin F
        BY <1>6, <2>2
      <3>2. \A s \in Req : b \in req'[s].found => b \in req[s].found
        BY <2>1, <3>1
      <3> QED BY <1>6, <3>2 DEF Found
    <2> QED BY <2>2 DEF NoneFound
  <1>8. ASSUME NEW r \in Req, SweepExpiredHolds(r) \/ CommitSweep(r) PROVE NoneFound
    <2>1. \A b \in ExpiredHolds : ~Covered(b)
      BY DEF ExpiredHolds, Covered
    <2> QED BY <1>5, <1>6, <1>8, <2>1 DEF SweepExpiredHolds, CommitSweep
  <1>9. ASSUME NEW r \in Req, ReleaseOwnHolds(r) \/ CommitRelease(r) PROVE NoneFound
    <2>1. \A b \in OwnHolds(r) : ~Covered(b)
      BY DEF OwnHolds, Covered
    <2> QED BY <1>5, <1>6, <1>9, <2>1 DEF ReleaseOwnHolds, CommitRelease
  <1>10. ASSUME NEW r \in Req,
                \/ CheckAvailability(r) \/ LockAndRecheck(r) \/ InsertBooking(r)
                \/ Capture(r) \/ DecideConfirm(r) \/ LoseRequest(r)
         PROVE  NoneFound
    BY <1>4, <1>5, <1>10
    DEF CheckAvailability, LockAndRecheck, InsertBooking, Capture, DecideConfirm, LoseRequest
  <1>11. ASSUME NEW r \in Req, Claim(r) PROVE NoneFound
    <2>1. CASE req' = [req EXCEPT ![r].pc = "refund"]
      <3>1. req'[r].found = req[r].found /\ \A s \in Req \ {r} : req'[s] = req[s]
        BY <1>1, <2>1 DEF RequestsOK, Request
      <3> QED BY <1>2, <1>11, <3>1 DEF FoundLess, Claim
    <2> QED BY <1>4, <1>11, <2>1 DEF Claim
  <1>12. ASSUME NEW r \in Req,
                \/ Refund(r) \/ Unclaim(r) \/ FinishDecline(r) \/ FinishCancel(r)
                \/ AdminRefundThroughStripe(r) \/ AdminClose(r) \/ AdminPay(r)
                \/ RecordPayment(r) \/ ConfirmInstantBook(r)
         PROVE  NoneFound
    BY <1>4, <1>5, <1>12
    DEF Refund, Unclaim, FinishDecline, FinishCancel, AdminRefundThroughStripe, AdminClose, AdminPay,
        RecordPayment, ConfirmInstantBook
  <1>13. ASSUME NEW r \in Req, NEW g \in Guest, NEW p \in Property, NEW f \in Day, NEW t \in Day,
                StartCreate(r, g, p, f, t)
         PROVE  NoneFound
    <2> DEFINE q == [pc |-> "release", kind |-> "create", b |-> None, guest |-> g, prop |-> p,
                     from |-> f, to |-> t, seen |-> "none", found |-> {}]
    <2>1. q.found = {} /\ UNCHANGED worker /\ req' = [req EXCEPT ![r] = q]
      BY <1>13 DEF StartCreate
    <2> HIDE DEF q
    <2> QED BY <1>1, <1>2, <2>1, SlotLess
  <1>14. ASSUME NEW r \in Req, NEW b \in Booking, Start(r, b) PROVE NoneFound
    <2>1. UNCHANGED worker /\ \E kind, pc : Begin(r, kind, b, pc)
      BY <1>14 DEF Start, StartConfirm, StartDecline, DeclineUnanswered, StartCancel,
                   StartAdminCancel, StartWebhook
    <2>2. PICK kind, pc : Begin(r, kind, b, pc)
      BY <2>1
    <2> DEFINE q == [pc |-> pc, kind |-> kind, b |-> b, guest |-> None, prop |-> booking[b].prop,
                     from |-> booking[b].from, to |-> booking[b].to,
                     seen |-> IF kind \in Claiming THEN booking[b].status ELSE "none",
                     found |-> {}]
    <2>3. q.found = {} /\ req' = [req EXCEPT ![r] = q]
      BY <2>2 DEF Begin
    <2> HIDE DEF q
    <2> QED BY <1>1, <1>2, <2>1, <2>3, SlotLess
  <1>15. CASE ExpireUnpaidBookings
    <2>1. CASE FindUnpaidBookings
      BY <2>1 DEF FindUnpaidBookings, ExpiredHolds, NoneFound, Covered, Found
    <2>2. CASE CommitExpired
      BY <1>2, <2>2 DEF CommitExpired, FoundLess
    <2> QED BY <1>15, <2>1, <2>2 DEF ExpireUnpaidBookings
  <1>16. CASE \/ CompleteFinishedStays \/ NextDay \/ UNCHANGED vars
              \/ \E b \in Booking : \/ RefundBooking(b) \/ RecordFailure(b) \/ HoldElapses(b)
                                    \/ \E f, t \in Day : AdjustBooking(b, f, t)
    BY <1>3, <1>16 DEF CompleteFinishedStays, NextDay, vars, RefundBooking, RecordFailure,
                       HoldElapses, AdjustBooking
  <1> QED
    BY <1>8, <1>9, <1>10, <1>11, <1>12, <1>13, <1>14, <1>15, <1>16
    DEF Next, CheckStep, CreateStep, ConfirmStep, ClaimStep, AdminStep, WebhookStep

\* No sweep or new checkout takes a request whose payment is authorized or paid,
\* and such a request leaves the calendar only under a claim, by the administrator
\* or by the commit of a sweep that had found it unpaid: a sweep misses a payment
\* only when it is recorded after the sweep's snapshot.
THEOREM CoveredIsAnswered == Spec => CoveredRequestKeepsItsNights
  <1>1. TypeOK /\ ExclusiveClaim /\ [Next]_vars =>
          [\A b \in Booking : booking[b].status = "pending" /\ ~Unpaid(b) =>
             /\ Found(b)' \subseteq Found(b)
             /\ booking'[b].status \notin Live =>
                  \/ \E r \in Req : /\ req[r].b = b
                                    /\ \/ req[r].pc = "claim" /\ req'[r].pc = "refund"
                                       \/ req[r].pc = "adminClose"
                  \/ Found(b)' # Found(b)]_vars
    BY ReservationsAssumption, CoveredNext, FoundNext
    DEF CoveredKept, NoneFound, Covered, Answered, Swept
  <1> QED BY <1>1, TypeCorrect, ClaimsAreExclusive, PTL DEF Spec, CoveredRequestKeepsItsNights

-------------------------------------------------------------------------------
(* The ledger of nights.                                                    *)

\* A booking with this row holds night n of listing p.
OwnsNight(row, p, n) ==
    row.status \in Live /\ row.prop = p /\ row.from <= n /\ n < row.to

\* What Owner says of one night, for any rows.
Who(rows, p, n) ==
    LET b == {c \in Booking : /\ rows[c].status \in Live /\ rows[c].prop = p
                              /\ rows[c].from <= n /\ n < rows[c].to}
    IN  IF b = {} THEN None ELSE CHOOSE c \in b : TRUE

\* The owners of all nights, for any rows.
Owners(rows) == [p \in Property |-> [n \in Night |-> Who(rows, p, n)]]

\* Owner and its value in the next state.
LEMMA OwnerIs == Owner = Owners(booking) /\ Owner' = Owners(booking')
  BY DEF Owner, Owners, Who

\* No night has two holders.
Alone(rows) ==
    \A p \in Property, n \in Night : \A c, d \in Booking :
        OwnsNight(rows[c], p, n) /\ OwnsNight(rows[d], p, n) => c = d

\* When no night has two holders, the owner of a night is the booking that holds it.
LEMMA WhoHolds ==
    ASSUME NEW rows, Alone(rows), NEW p \in Property, NEW n \in Night
    PROVE  /\ Who(rows, p, n) \in Booking \cup {None}
           /\ \A b \in Booking : Who(rows, p, n) = b <=> OwnsNight(rows[b], p, n)
  <1> DEFINE S == {c \in Booking : /\ rows[c].status \in Live /\ rows[c].prop = p
                                   /\ rows[c].from <= n /\ n < rows[c].to}
  <1>1. \A c \in Booking : c \in S <=> OwnsNight(rows[c], p, n)
    BY DEF OwnsNight
  <1>2. S \subseteq Booking /\ None \notin Booking
    BY ReservationsAssumption
  <1>3. Who(rows, p, n) = IF S = {} THEN None ELSE CHOOSE c \in S : TRUE
    BY DEF Who
  <1>4. \A c, d \in S : c = d
    BY <1>1, <1>2 DEF Alone
  <1> HIDE DEF S
  <1>5. CASE S = {}
    BY <1>1, <1>2, <1>3, <1>5
  <1>6. CASE S # {}
    <2>1. (CHOOSE c \in S : TRUE) \in S
      BY <1>6, Zenon
    <2>2. Who(rows, p, n) \in S
      BY <1>3, <1>6, <2>1
    <2> QED BY <1>1, <1>2, <1>4, <2>2
  <1> QED BY <1>5, <1>6

\* The constraint on the table leaves no night two holders.
LEMMA NobodyShares ==
    ASSUME NEW rows \in [Booking -> BookingRow],
           \A c, d \in Booking :
               /\ c # d /\ rows[c].status \in Live /\ rows[d].status \in Live
               /\ rows[c].prop = rows[d].prop
               => ~Overlaps(rows[c], rows[d])
    PROVE  Alone(rows)
  <1> SUFFICES ASSUME NEW p \in Property, NEW n \in Night, NEW c \in Booking, NEW d \in Booking,
                      OwnsNight(rows[c], p, n), OwnsNight(rows[d], p, n), c # d
               PROVE  FALSE
    BY DEF Alone
  <1>1. /\ rows[c].from \in Int /\ rows[c].to \in Int
        /\ rows[d].from \in Int /\ rows[d].to \in Int /\ n \in Int
    BY ReservationsAssumption DEF BookingRow, Day, Night
  <1>2. rows[c].from < rows[d].to /\ rows[d].from < rows[c].to
    BY <1>1 DEF OwnsNight
  <1> QED BY <1>2 DEF OwnsNight, Overlaps

\* A step that only gives nights up hands back those of the bookings that were live.
LEMMA NarrowsReleases ==
    ASSUME Alone(booking), Alone(booking'), Narrows
    PROVE  Ledger!LedgerNext
  <1> DEFINE B == {b \in Booking : booking'[b].status \notin Live}
  <1>1. ASSUME NEW p \in Property, NEW n \in Night
        PROVE  Who(booking', p, n) = IF Who(booking, p, n) \in B THEN None ELSE Who(booking, p, n)
    <2> DEFINE o == Who(booking, p, n)
               w == Who(booking', p, n)
    <2>1. /\ o \in Booking \cup {None}
          /\ \A b \in Booking : o = b <=> OwnsNight(booking[b], p, n)
      BY WhoHolds
    <2>2. /\ w \in Booking \cup {None}
          /\ \A b \in Booking : w = b <=> OwnsNight(booking'[b], p, n)
      BY WhoHolds
    <2>3. \A b \in Booking : OwnsNight(booking'[b], p, n) <=> OwnsNight(booking[b], p, n) /\ b \notin B
      BY DEF Narrows, OwnsNight
    <2>4. None \notin B
      BY ReservationsAssumption
    <2> HIDE DEF o, w, B
    <2>5. w = IF o \in B THEN None ELSE o
      BY <2>1, <2>2, <2>3, <2>4
    <2> QED BY <2>5 DEF o, w
  <1> HIDE DEF B
  <1>2. Ledger!Release(B)
    BY <1>1, OwnerIs DEF Ledger!Release, Owners
  <1>3. B \in SUBSET Booking
    BY DEF B
  <1> QED BY <1>2, <1>3 DEF Ledger!LedgerNext

\* A step that writes one row hands its nights over: those it left are given
\* back, those it comes to hold were nobody else's.
LEMMA TakesHolds ==
    ASSUME RowsOK', Alone(booking), Alone(booking'),
           booking \in [Booking -> BookingRow], NEW b \in Booking, Takes(b)
    PROVE  Ledger!LedgerNext
  <1>1. booking'[b] \in BookingRow
    BY DEF RowsOK
  <1> DEFINE row == booking'[b]
             N == {n \in Night : row.from <= n /\ n < row.to}
  <1>2. ASSUME NEW p \in Property, NEW n \in Night
        PROVE  /\ Who(booking, p, n) \in Booking \cup {None}
               /\ \A c \in Booking : Who(booking, p, n) = c <=> OwnsNight(booking[c], p, n)
               /\ Who(booking', p, n) \in Booking \cup {None}
               /\ \A c \in Booking : Who(booking', p, n) = c <=> OwnsNight(booking'[c], p, n)
    BY WhoHolds
  <1>3. \A c \in Booking \ {b} : \A p, n : OwnsNight(booking'[c], p, n) <=> OwnsNight(booking[c], p, n)
    BY DEF Takes
  <1>4. None \notin Booking
    BY ReservationsAssumption
  <1>5. ASSUME NEW p \in Property, NEW n \in Night
        PROVE  Who(booking', p, n) =
                 IF OwnsNight(row, p, n) THEN b
                 ELSE IF Who(booking, p, n) = b THEN None ELSE Who(booking, p, n)
    <2> DEFINE o == Who(booking, p, n)
               w == Who(booking', p, n)
    <2>1. /\ o \in Booking \cup {None} /\ w \in Booking \cup {None}
          /\ \A c \in Booking : o = c <=> OwnsNight(booking[c], p, n)
          /\ \A c \in Booking : w = c <=> OwnsNight(booking'[c], p, n)
      BY <1>2
    <2>2. \A c \in Booking \ {b} : OwnsNight(booking'[c], p, n) <=> OwnsNight(booking[c], p, n)
      BY <1>3
    <2> HIDE DEF o, w
    <2>3. w = IF OwnsNight(booking'[b], p, n) THEN b ELSE IF o = b THEN None ELSE o
      BY <1>4, <2>1, <2>2
    <2> QED BY <2>3 DEF o, w
  <1>6. CASE row.status \in Live /\ row.prop \in Property
    <2> DEFINE q == row.prop
    <2>1. \A p \in Property, n \in Night : OwnsNight(row, p, n) <=> p = q /\ n \in N
      BY <1>6 DEF OwnsNight
    <2>2. ASSUME NEW n \in N
          PROVE  Who(booking, q, n) \in {None, b}
      <3> SUFFICES ASSUME NEW c \in Booking \ {b}, Who(booking, q, n) = c
                   PROVE  FALSE
        BY <1>2, <1>6
      <3>1. n \in Night /\ row.from <= n /\ n < row.to
        OBVIOUS
      <3>2. OwnsNight(booking[c], q, n)
        BY <1>2, <1>6, <3>1
      <3>3. /\ booking[c].from \in Int /\ booking[c].to \in Int
            /\ row.from \in Int /\ row.to \in Int /\ n \in Int
        BY <1>1, <3>1, ReservationsAssumption DEF BookingRow, Day, Night
      <3>4. booking[c].from < row.to /\ row.from < booking[c].to
        BY <3>1, <3>2, <3>3 DEF OwnsNight
      <3>5. booking[c].status \in Live /\ booking[c].prop = row.prop
        BY <3>2 DEF OwnsNight
      <3>6. c \in Conflicts(b, row)
        BY <3>4, <3>5 DEF Conflicts, Overlaps
      <3> QED BY <3>6 DEF Takes
    <2>3. ASSUME NEW p \in Property, NEW n \in Night
          PROVE  Who(booking', p, n) =
                   IF p = q /\ n \in N THEN b
                   ELSE IF Who(booking, p, n) = b THEN None ELSE Who(booking, p, n)
      BY <1>5, <2>1
    <2>4. q \in Property /\ N \in SUBSET Night
      BY <1>6
    <2> HIDE DEF q, N, row
    <2>5. Ledger!Hold(b, q, N)
      BY <2>2, <2>3, <2>4, OwnerIs DEF Ledger!Hold, Owners
    <2> QED BY <2>4, <2>5 DEF Ledger!LedgerNext
  <1>7. CASE ~(row.status \in Live /\ row.prop \in Property)
    <2>1. \A p \in Property, n \in Night : ~OwnsNight(row, p, n)
      BY <1>7 DEF OwnsNight
    <2>2. ASSUME NEW p \in Property, NEW n \in Night
          PROVE  Who(booking', p, n) = IF Who(booking, p, n) \in {b} THEN None ELSE Who(booking, p, n)
      BY <1>5, <2>1
    <2>3. Ledger!Release({b})
      BY <2>2, OwnerIs DEF Ledger!Release, Owners
    <2> QED BY <2>3 DEF Ledger!LedgerNext
  <1> QED BY <1>6, <1>7

\* Whatever requests, lost connections and sweeps do, and for any bookings,
\* listings and calendar, the nights of the booking table change hands as in
\* NightLedger: one owner at a time, given back before somebody else takes them,
\* and a booking moves to its new nights in one step.
THEOREM TableIsALedger == Spec => LedgerRefined
  <1>1. Init => Ledger!LedgerInit
    <2> SUFFICES ASSUME Init PROVE Ledger!LedgerInit
      OBVIOUS
    <2>1. \A c \in Booking : booking[c].status \notin Live
      BY DEF Init, NoBooking, Live
    <2>2. \A p \in Property, n \in Night : Who(booking, p, n) = None
      BY <2>1 DEF Who
    <2> QED BY <2>2, OwnerIs DEF Ledger!LedgerInit, Owners
  <1>2. TypeOK /\ TypeOK' /\ NoDoubleBooking /\ NoDoubleBooking' /\ [Next]_vars
          => [Ledger!LedgerNext]_Owner
    <2> SUFFICES ASSUME TypeOK, TypeOK', NoDoubleBooking, NoDoubleBooking', [Next]_vars
                 PROVE  Ledger!LedgerNext
      OBVIOUS
    <2>1. booking \in [Booking -> BookingRow] /\ booking' \in [Booking -> BookingRow]
      BY DEF TypeOK, RowsOK
    <2>2. Alone(booking)
      BY <2>1, NobodyShares DEF NoDoubleBooking
    <2>3. Alone(booking')
      BY <2>1, NobodyShares DEF NoDoubleBooking
    <2>4. Narrows \/ \E b \in Booking : Takes(b)
      BY ReservationsAssumption, CalendarStep
    <2> QED BY <2>1, <2>2, <2>3, <2>4, ReservationsAssumption, NarrowsReleases, TakesHolds DEF TypeOK
  <1>3. Spec => [](TypeOK /\ NoDoubleBooking)
    BY TypeCorrect, NoNightSoldTwice, PTL
  <1> QED BY <1>1, <1>2, <1>3, PTL DEF Spec, LedgerRefined, Ledger!LedgerSpec

-------------------------------------------------------------------------------
(* The calendar of a host (StayCalendar).                                   *)

\* The values the variables of the calendar take.
NightRow    == [exists : BOOLEAN, blocked : BOOLEAN, priced : BOOLEAN]
BookedStay  == [status : {"free", "hold", "covered"}, guest : Viewer \cup {None},
                stay : Calendar!Stay \cup {None}, fair : BOOLEAN]
CalendarReq == [pc : {"idle", "save", "write"} \cup Calendar!Checks,
                guest : Viewer \cup {None}, stay : Calendar!Stay \cup {None},
                nights : SUBSET Calendar!Night, new : SUBSET Calendar!Night,
                blocked : Calendar!Sent, price : Calendar!Sent,
                open : SUBSET Calendar!Night, wasListed : BOOLEAN]

CalendarTyped ==
    /\ calendarNight \in [Calendar!Night -> NightRow]
    /\ calendarListed \in BOOLEAN
    /\ calendarBooking \in [Guest -> BookedStay]
    /\ calendarReq \in [Req -> CalendarReq]
    /\ calendarSaves \in 0 .. Edits

\* A night without a row is neither blocked nor priced.
RowsAreWhole ==
    \A n \in Calendar!Night : ~calendarNight[n].exists => calendarNight[n] = Calendar!NoRow

\* A booking is one of a guest for a stay, and was sold fairly.
BookingsAreFair ==
    \A b \in Guest :
        /\ calendarBooking[b].fair
        /\ calendarBooking[b].status # "free" =>
             calendarBooking[b].guest \in Viewer /\ calendarBooking[b].stay \in Calendar!Stay

\* A checkout has seen what is open now, and once past a check it has seen open
\* what the check is about.
CheckoutSees(q) ==
    q.pc \in Calendar!Checks =>
        /\ q.guest \in Viewer /\ q.stay \in Calendar!Stay
        /\ \A n \in Calendar!Nights(q.stay) : ~calendarNight[n].blocked => n \in q.open
        /\ calendarListed => q.wasListed
        /\ q.pc \in {"nights", "conflicts", "insert"} => q.wasListed
        /\ q.pc \in {"conflicts", "insert"} => Calendar!Nights(q.stay) \subseteq q.open

RequestsSee ==
    \A r \in Req : /\ calendarReq[r].new \subseteq calendarReq[r].nights
                   /\ CheckoutSees(calendarReq[r])

\* The inductive invariant.
CalendarInv == CalendarTyped /\ RowsAreWhole /\ BookingsAreFair /\ RequestsSee

\* The nights of a stay are nights of the calendar.
LEMMA StaysAreHere ==
    ASSUME NEW s \in Calendar!Stay
    PROVE  Calendar!Nights(s) \subseteq Calendar!Night
  <1>1. s.from \in 0 .. Window - 1 /\ s.to \in 1 .. Window
    BY DEF Calendar!Stay, Calendar!Night
  <1> QED BY <1>1, CalendarAssumption DEF Calendar!Nights, Calendar!Night

\* A request that is not in flight is one, and has nothing to look at.
LEMMA NoCheckout ==
    /\ Calendar!Idle \in CalendarReq
    /\ Calendar!Idle.pc = "idle" /\ Calendar!Idle.new \subseteq Calendar!Idle.nights
    /\ \A q : q.pc \in {"idle", "save", "write"} => CheckoutSees(q)
  BY DEF Calendar!Idle, CalendarReq, Calendar!Sent, CheckoutSees, Calendar!Checks

\* A step that changes one request only, into one whose knowledge is sound.
LEMMA RequestMoves ==
    ASSUME CalendarInv, NEW r \in Req, NEW q \in CalendarReq, q.new \subseteq q.nights,
           CheckoutSees(q), calendarReq' = [calendarReq EXCEPT ![r] = q],
           calendarSaves' \in 0 .. Edits,
           calendarBooking' \in [Guest -> BookedStay], BookingsAreFair',
           UNCHANGED <<calendarNight, calendarListed>>
    PROVE  CalendarInv'
  <1>1. calendarReq' \in [Req -> CalendarReq]
    BY DEF CalendarInv, CalendarTyped
  <1>2. CalendarTyped' /\ RowsAreWhole'
    BY <1>1 DEF CalendarInv, CalendarTyped, RowsAreWhole
  <1>3. \A z : CheckoutSees(z)' <=> CheckoutSees(z)
    BY DEF CheckoutSees
  <1>4. ASSUME NEW t \in Req
        PROVE  calendarReq'[t].new \subseteq calendarReq'[t].nights /\ CheckoutSees(calendarReq'[t])
    <2>1. calendarReq'[t] = IF t = r THEN q ELSE calendarReq[t]
      BY DEF CalendarInv, CalendarTyped
    <2> QED BY <2>1 DEF CalendarInv, RequestsSee
  <1>5. RequestsSee'
    <2> SUFFICES ASSUME NEW t \in Req
                 PROVE  calendarReq'[t].new \subseteq calendarReq'[t].nights /\ CheckoutSees(calendarReq[t])'
      BY DEF RequestsSee
    <2>1. PICK z : z = calendarReq'[t]
      OBVIOUS
    <2>2. CheckoutSees(z)'
      BY <1>3, <1>4, <2>1
    <2> QED BY <1>4, <2>1, <2>2
  <1> QED BY <1>2, <1>5 DEF CalendarInv

\* What a request knows of the past: the part of CheckoutSees that no change of
\* the calendar touches.
Remembers(q) ==
    q.pc \in Calendar!Checks =>
        /\ q.guest \in Viewer /\ q.stay \in Calendar!Stay
        /\ q.pc \in {"nights", "conflicts", "insert"} => q.wasListed
        /\ q.pc \in {"conflicts", "insert"} => Calendar!Nights(q.stay) \subseteq q.open

\* A step that changes the calendar or starts a checkout: whoever is checking out
\* looks at it.
LEMMA RequestsLook ==
    ASSUME CalendarInv, NEW rows \in [Calendar!Night -> NightRow], NEW up \in BOOLEAN,
           \A n \in Calendar!Night : ~rows[n].exists => rows[n] = Calendar!NoRow,
           NEW q \in [Req -> CalendarReq],
           \A t \in Req : q[t].new \subseteq q[t].nights /\ Remembers(q[t]),
           calendarNight' = rows, calendarListed' = up,
           calendarReq' = Calendar!Witness(q, rows, up),
           calendarSaves' \in 0 .. Edits, UNCHANGED calendarBooking
    PROVE  CalendarInv'
  <1> DEFINE seen(z) == z.open \cup {n \in Calendar!Nights(z.stay) : ~rows[n].blocked}
             look(z) == IF z.pc \in Calendar!Checks
                        THEN [z EXCEPT !.open = seen(z), !.wasListed = z.wasListed \/ up]
                        ELSE z
  <1>1. calendarReq' = [t \in Req |-> look(q[t])]
    BY DEF Calendar!Witness
  <1>2. ASSUME NEW z \in CalendarReq, z.new \subseteq z.nights, Remembers(z)
        PROVE  /\ look(z) \in CalendarReq /\ look(z).new \subseteq look(z).nights
               /\ look(z).pc = z.pc
               /\ z.pc \in Calendar!Checks =>
                    /\ look(z).guest = z.guest /\ look(z).stay = z.stay
                    /\ look(z).open = seen(z) /\ look(z).wasListed = (z.wasListed \/ up)
    <2>1. CASE z.pc \in Calendar!Checks
      <3>1. seen(z) \in SUBSET Calendar!Night
        BY <1>2, <2>1, StaysAreHere DEF Remembers, CalendarReq
      <3>2. PICK o \in SUBSET Calendar!Night, w \in BOOLEAN : o = seen(z) /\ w = (z.wasListed \/ up)
        BY <3>1
      <3>3. look(z) = [z EXCEPT !.open = o, !.wasListed = w]
        BY <2>1, <3>2
      <3>4. /\ [z EXCEPT !.open = o, !.wasListed = w] \in CalendarReq
            /\ [z EXCEPT !.open = o, !.wasListed = w].new = z.new
            /\ [z EXCEPT !.open = o, !.wasListed = w].nights = z.nights
            /\ [z EXCEPT !.open = o, !.wasListed = w].pc = z.pc
            /\ [z EXCEPT !.open = o, !.wasListed = w].guest = z.guest
            /\ [z EXCEPT !.open = o, !.wasListed = w].stay = z.stay
            /\ [z EXCEPT !.open = o, !.wasListed = w].open = o
            /\ [z EXCEPT !.open = o, !.wasListed = w].wasListed = w
        BY DEF CalendarReq
      <3> HIDE DEF look, seen
      <3> QED BY <1>2, <3>2, <3>3, <3>4
    <2>2. CASE z.pc \notin Calendar!Checks
      BY <1>2, <2>2
    <2> QED BY <2>1, <2>2
  <1> HIDE DEF look
  <1>3. calendarReq' \in [Req -> CalendarReq] /\ \A t \in Req : calendarReq'[t] = look(q[t])
    BY <1>1, <1>2
  <1>4. CalendarTyped' /\ RowsAreWhole' /\ BookingsAreFair'
    BY <1>3 DEF CalendarInv, CalendarTyped, RowsAreWhole, BookingsAreFair
  <1>5. ASSUME NEW t \in Req
        PROVE  calendarReq'[t].new \subseteq calendarReq'[t].nights /\ CheckoutSees(calendarReq[t])'
    <2>1. PICK z \in CalendarReq : z = q[t]
      OBVIOUS
    <2>2. z.new \subseteq z.nights /\ Remembers(z)
      BY <2>1
    <2>3. PICK k : k = look(z)
      OBVIOUS
    <2>4. calendarReq'[t] = k
      BY <1>3, <2>1, <2>3
    <2>6. /\ k.pc = z.pc
          /\ z.pc \in Calendar!Checks =>
               k.guest = z.guest /\ k.stay = z.stay /\ k.open = seen(z) /\ k.wasListed = (z.wasListed \/ up)
      BY <1>2, <2>2, <2>3
    <2>7. /\ z.pc \in Calendar!Checks => z.wasListed \in BOOLEAN
          /\ z.open \subseteq seen(z)
      BY DEF CalendarReq
    <2>8. \A n \in Calendar!Nights(z.stay) : ~calendarNight'[n].blocked => n \in seen(z)
      OBVIOUS
    <2> HIDE DEF seen
    <2>5. CheckoutSees(k)'
      BY <2>2, <2>6, <2>7, <2>8 DEF CheckoutSees, Remembers
    <2> QED BY <1>2, <2>2, <2>3, <2>4, <2>5
  <1>6. RequestsSee'
    BY <1>5 DEF RequestsSee
  <1> QED BY <1>4, <1>6 DEF CalendarInv

\* What is sound now was remembered soundly.
LEMMA SeesRemembers ==
    ASSUME CalendarInv
    PROVE  /\ calendarReq \in [Req -> CalendarReq] /\ calendarNight \in [Calendar!Night -> NightRow]
           /\ calendarListed \in BOOLEAN /\ calendarBooking \in [Guest -> BookedStay]
           /\ calendarSaves \in 0 .. Edits /\ BookingsAreFair
           /\ \A n \in Calendar!Night : ~calendarNight[n].exists => calendarNight[n] = Calendar!NoRow
           /\ \A t \in Req : /\ calendarReq[t].new \subseteq calendarReq[t].nights
                             /\ CheckoutSees(calendarReq[t]) /\ Remembers(calendarReq[t])
  BY DEF CalendarInv, CalendarTyped, RowsAreWhole, RequestsSee, CheckoutSees, Remembers

-------------------------------------------------------------------------------
(* The steps of the host's calendar.                                        *)

\* The first step of a save.
LEMMA StartSaveKeeps ==
    ASSUME CalendarInv, NEW r \in Req, NEW s \in Calendar!Stay, NEW blocked \in Calendar!Sent,
           NEW price \in Calendar!Sent, Calendar!StartSave(r, s, blocked, price)
    PROVE  CalendarInv'
  <1> DEFINE q == [Calendar!Idle EXCEPT !.pc = "save", !.nights = Calendar!Nights(s),
                                        !.blocked = blocked, !.price = price]
  <1>1. q \in CalendarReq /\ q.pc = "save" /\ q.new \subseteq q.nights
    BY StaysAreHere DEF Calendar!Idle, CalendarReq
  <1>2. /\ calendarReq' = [calendarReq EXCEPT ![r] = q] /\ calendarSaves < Edits
        /\ calendarSaves' = calendarSaves + 1
        /\ UNCHANGED <<calendarNight, calendarListed, calendarBooking>>
    BY DEF Calendar!StartSave
  <1>3. calendarSaves' \in 0 .. Edits
    BY <1>2, SeesRemembers, CalendarAssumption
  <1>4. BookingsAreFair' /\ calendarBooking' \in [Guest -> BookedStay]
    BY <1>2, SeesRemembers DEF BookingsAreFair
  <1> HIDE DEF q
  <1>5. CheckoutSees(q)
    BY <1>1, NoCheckout
  <1> QED BY <1>1, <1>2, <1>3, <1>4, <1>5, RequestMoves

\* A step that only moves a request between the steps of a save, or ends it.
LEMMA SaveMoves ==
    ASSUME CalendarInv, NEW r \in Req, NEW q \in CalendarReq, q.new \subseteq q.nights,
           q.pc \in {"idle", "save", "write"}, calendarReq' = [calendarReq EXCEPT ![r] = q],
           UNCHANGED <<calendarNight, calendarListed, calendarBooking, calendarSaves>>
    PROVE  CalendarInv'
  <1>1. BookingsAreFair' /\ calendarBooking' \in [Guest -> BookedStay] /\ calendarSaves' \in 0 .. Edits
    BY SeesRemembers DEF BookingsAreFair
  <1>2. CheckoutSees(q)
    BY NoCheckout
  <1> QED BY <1>1, <1>2, RequestMoves

\* The snapshot of a save.
LEMMA SnapshotKeeps ==
    ASSUME CalendarInv, NEW r \in Req, Calendar!SnapshotNights(r) PROVE CalendarInv'
  <1> DEFINE new == {n \in calendarReq[r].nights : ~calendarNight[n].exists}
  <1>1. PICK q \in CalendarReq : q = calendarReq[r]
    BY SeesRemembers
  <1>2. PICK m \in SUBSET Calendar!Night : m = new /\ m \subseteq q.nights
    BY <1>1 DEF CalendarReq
  <1>3. calendarReq' = [calendarReq EXCEPT ![r] = [q EXCEPT !.pc = "write", !.new = m]]
    BY <1>1, <1>2, SeesRemembers DEF Calendar!SnapshotNights
  <1>4. /\ [q EXCEPT !.pc = "write", !.new = m] \in CalendarReq
        /\ [q EXCEPT !.pc = "write", !.new = m].pc = "write"
        /\ [q EXCEPT !.pc = "write", !.new = m].new = m
        /\ [q EXCEPT !.pc = "write", !.new = m].nights = q.nights
    BY DEF CalendarReq
  <1> QED BY <1>2, <1>3, <1>4, SaveMoves DEF Calendar!SnapshotNights

\* What a save writes in a night.
LEMMA WrittenIs ==
    ASSUME NEW row \in NightRow, NEW q \in CalendarReq
    PROVE  /\ Calendar!Written(row, q) \in NightRow /\ Calendar!Written(row, q).exists
           /\ row.priced /\ ~Calendar!Written(row, q).priced => q.price = "clear"
           /\ row.blocked /\ ~Calendar!Written(row, q).blocked => q.blocked = "clear"
  <1>1. q.price \in Calendar!Sent /\ q.blocked \in Calendar!Sent
    BY DEF CalendarReq
  <1>2. row.priced \in BOOLEAN /\ row.blocked \in BOOLEAN
    BY DEF NightRow
  <1>3. /\ Calendar!Merge(q.price, row.priced) \in BOOLEAN
        /\ Calendar!Merge(q.blocked, row.blocked) \in BOOLEAN
        /\ row.priced /\ ~Calendar!Merge(q.price, row.priced) => q.price = "clear"
        /\ row.blocked /\ ~Calendar!Merge(q.blocked, row.blocked) => q.blocked = "clear"
    BY <1>1, <1>2 DEF Calendar!Merge, Calendar!Sent
  <1> QED BY <1>3 DEF Calendar!Written, NightRow

\* The rows after a save: those it is not about are as they were.
LEMMA SavedRows ==
    ASSUME CalendarInv, NEW q \in CalendarReq, ~Calendar!Collides(q),
           NEW rows, rows = [n \in Calendar!Night |->
                               IF n \in q.nights
                               THEN Calendar!Written(IF n \in q.new THEN Calendar!NoRow ELSE calendarNight[n], q)
                               ELSE calendarNight[n]]
    PROVE  /\ rows \in [Calendar!Night -> NightRow]
           /\ \A n \in Calendar!Night :
                /\ ~rows[n].exists => rows[n] = Calendar!NoRow
                /\ calendarNight[n].priced /\ ~rows[n].priced => q.price = "clear"
                /\ calendarNight[n].blocked /\ ~rows[n].blocked => q.blocked = "clear"
  <1>1. Calendar!NoRow \in NightRow /\ ~Calendar!NoRow.priced /\ ~Calendar!NoRow.blocked
    BY DEF Calendar!NoRow, NightRow
  <1>2. ASSUME NEW n \in Calendar!Night
        PROVE  /\ rows[n] \in NightRow
               /\ ~rows[n].exists => rows[n] = Calendar!NoRow
               /\ calendarNight[n].priced /\ ~rows[n].priced => q.price = "clear"
               /\ calendarNight[n].blocked /\ ~rows[n].blocked => q.blocked = "clear"
    <2>1. calendarNight[n] \in NightRow /\ (~calendarNight[n].exists => calendarNight[n] = Calendar!NoRow)
      BY SeesRemembers
    <2>2. CASE n \in q.nights /\ n \in q.new
      <3>1. calendarNight[n] = Calendar!NoRow
        BY <2>1, <2>2 DEF Calendar!Collides
      <3>2. rows[n] = Calendar!Written(Calendar!NoRow, q)
        BY <2>2
      <3> QED BY <1>1, <3>1, <3>2, WrittenIs
    <2>3. CASE n \in q.nights /\ n \notin q.new
      <3>1. rows[n] = Calendar!Written(calendarNight[n], q)
        BY <2>3
      <3> QED BY <2>1, <3>1, WrittenIs
    <2>4. CASE n \notin q.nights
      BY <2>1, <2>4
    <2> QED BY <2>2, <2>3, <2>4
  <1> QED BY <1>2

\* The write of a save: it collides, or everybody looks at what it wrote.
LEMMA SaveKeeps ==
    ASSUME CalendarInv, NEW r \in Req, Calendar!SaveCalendarNights(r) PROVE CalendarInv'
  <1>0. PICK q \in CalendarReq : q = calendarReq[r]
    BY SeesRemembers
  <1>1. CASE Calendar!Collides(q)
    <2>1. calendarReq' = [calendarReq EXCEPT ![r] = Calendar!Idle] /\ UNCHANGED calendarNight
      BY <1>0, <1>1 DEF Calendar!SaveCalendarNights, Calendar!Done
    <2> QED BY <2>1, NoCheckout, SaveMoves DEF Calendar!SaveCalendarNights
  <1>2. CASE ~Calendar!Collides(q)
    <2>1. PICK rows : rows = [n \in Calendar!Night |->
                               IF n \in q.nights
                               THEN Calendar!Written(IF n \in q.new THEN Calendar!NoRow ELSE calendarNight[n], q)
                               ELSE calendarNight[n]]
      OBVIOUS
    <2>2. PICK reqs : reqs = [calendarReq EXCEPT ![r] = Calendar!Idle]
      OBVIOUS
    <2>3. /\ calendarNight' = rows
          /\ calendarReq' = Calendar!Witness(reqs, rows, calendarListed)
          /\ UNCHANGED <<calendarListed, calendarBooking, calendarSaves>>
      BY <1>0, <1>2, <2>1, <2>2 DEF Calendar!SaveCalendarNights
    <2>4. reqs \in [Req -> CalendarReq] /\ \A t \in Req : reqs[t].new \subseteq reqs[t].nights /\ Remembers(reqs[t])
      BY <2>2, SeesRemembers, NoCheckout DEF Remembers, Calendar!Checks
    <2>5. rows \in [Calendar!Night -> NightRow] /\ \A n \in Calendar!Night : ~rows[n].exists => rows[n] = Calendar!NoRow
      BY <1>2, <2>1, SavedRows
    <2> QED BY <2>3, <2>4, <2>5, SeesRemembers, RequestsLook
  <1> QED BY <1>1, <1>2

\* Nights are cleared, and the listing leaves the catalogue or returns.
LEMMA HostKeeps ==
    ASSUME CalendarInv, Calendar!SetListed \/ \E s \in Calendar!Stay : Calendar!ClearCalendarNights(s)
    PROVE  CalendarInv'
  <1>1. ASSUME Calendar!SetListed PROVE CalendarInv'
    <2>1. PICK up \in BOOLEAN : up = ~calendarListed
      OBVIOUS
    <2>2. /\ calendarListed' = up /\ calendarNight' = calendarNight
          /\ calendarReq' = Calendar!Witness(calendarReq, calendarNight, up)
          /\ calendarSaves' \in 0 .. Edits /\ UNCHANGED calendarBooking
      BY <1>1, <2>1, SeesRemembers, CalendarAssumption DEF Calendar!SetListed
    <2> QED BY <2>2, SeesRemembers, RequestsLook
  <1>2. ASSUME NEW s \in Calendar!Stay, Calendar!ClearCalendarNights(s) PROVE CalendarInv'
    <2>1. PICK rows : rows = [n \in Calendar!Night |-> IF n \in Calendar!Nights(s) THEN Calendar!NoRow ELSE calendarNight[n]]
      OBVIOUS
    <2>2. /\ calendarNight' = rows /\ calendarReq' = Calendar!Witness(calendarReq, rows, calendarListed)
          /\ calendarSaves' \in 0 .. Edits /\ UNCHANGED <<calendarListed, calendarBooking>>
      BY <1>2, <2>1, SeesRemembers, CalendarAssumption DEF Calendar!ClearCalendarNights
    <2>3. rows \in [Calendar!Night -> NightRow] /\ \A n \in Calendar!Night : ~rows[n].exists => rows[n] = Calendar!NoRow
      BY <2>1, SeesRemembers DEF Calendar!NoRow, NightRow
    <2> QED BY <2>2, <2>3, SeesRemembers, RequestsLook
  <1> QED BY <1>1, <1>2

-------------------------------------------------------------------------------
(* The steps of a checkout.                                                 *)

\* A checkout that begins looks at the calendar.
LEMMA StartCheckoutKeeps ==
    ASSUME CalendarInv, NEW r \in Req, NEW g \in Viewer, NEW s \in Calendar!Stay,
           Calendar!StartCheckout(r, g, s)
    PROVE  CalendarInv'
  <1> DEFINE q == [Calendar!Idle EXCEPT !.pc = "release", !.guest = g, !.stay = s]
  <1>1. /\ q \in CalendarReq /\ q.new \subseteq q.nights
        /\ q.pc = "release" /\ q.guest = g /\ q.stay = s
    BY DEF Calendar!Idle, CalendarReq, Calendar!Checks, Calendar!Sent
  <1>2. PICK reqs : reqs = [calendarReq EXCEPT ![r] = q]
    OBVIOUS
  <1>3. /\ calendarReq' = Calendar!Witness(reqs, calendarNight, calendarListed)
        /\ UNCHANGED <<calendarNight, calendarListed, calendarBooking, calendarSaves>>
    BY <1>2 DEF Calendar!StartCheckout
  <1> HIDE DEF q
  <1>4. Remembers(q)
    BY <1>1 DEF Remembers
  <1>5. reqs \in [Req -> CalendarReq] /\ \A t \in Req : reqs[t].new \subseteq reqs[t].nights /\ Remembers(reqs[t])
    BY <1>1, <1>2, <1>4, SeesRemembers
  <1> QED BY <1>3, <1>5, SeesRemembers, RequestsLook

\* A request that goes on to another step, knowing what it knew.
LEMMA Advances ==
    ASSUME NEW q \in CalendarReq, NEW pc \in Calendar!Checks
    PROVE  /\ [q EXCEPT !.pc = pc] \in CalendarReq /\ [q EXCEPT !.pc = pc].pc = pc
           /\ [q EXCEPT !.pc = pc].new = q.new /\ [q EXCEPT !.pc = pc].nights = q.nights
           /\ [q EXCEPT !.pc = pc].guest = q.guest /\ [q EXCEPT !.pc = pc].stay = q.stay
           /\ [q EXCEPT !.pc = pc].open = q.open /\ [q EXCEPT !.pc = pc].wasListed = q.wasListed
  BY DEF CalendarReq

\* Cancelling bookings leaves the others as they were.
LEMMA CancelledIs ==
    ASSUME CalendarInv, NEW bs, calendarBooking' = Calendar!Cancelled(bs)
    PROVE  calendarBooking' \in [Guest -> BookedStay] /\ BookingsAreFair'
  <1>1. Calendar!Free \in BookedStay /\ Calendar!Free.fair /\ Calendar!Free.status = "free"
    BY DEF Calendar!Free, BookedStay
  <1>2. \A b \in Guest : calendarBooking'[b] = Calendar!Free \/ calendarBooking'[b] = calendarBooking[b]
    BY DEF Calendar!Cancelled
  <1>3. calendarBooking' \in [Guest -> BookedStay]
    BY <1>1, SeesRemembers DEF Calendar!Cancelled
  <1> QED BY <1>1, <1>2, <1>3, SeesRemembers DEF BookingsAreFair

\* The two statements before the checks: holds are released and swept.
LEMMA ReleaseKeeps ==
    ASSUME CalendarInv, NEW r \in Req, Calendar!ReleaseOwnHolds(r) \/ Calendar!SweepExpiredHolds(r)
    PROVE  CalendarInv'
  <1>0. PICK q \in CalendarReq : q = calendarReq[r]
    BY SeesRemembers
  <1>1. PICK pc \in {"sweep", "listing"} :
            /\ calendarReq' = [calendarReq EXCEPT ![r].pc = pc]
            /\ q.pc \in {"release", "sweep"}
    BY <1>0 DEF Calendar!ReleaseOwnHolds, Calendar!SweepExpiredHolds, Calendar!At
  <1>2. \E bs : calendarBooking' = Calendar!Cancelled(bs)
    BY DEF Calendar!ReleaseOwnHolds, Calendar!SweepExpiredHolds
  <1>3. calendarBooking' \in [Guest -> BookedStay] /\ BookingsAreFair'
    BY <1>2, CancelledIs
  <1>4. UNCHANGED <<calendarNight, calendarListed, calendarSaves>>
    BY DEF Calendar!ReleaseOwnHolds, Calendar!SweepExpiredHolds
  <1>5. PICK z : z = [q EXCEPT !.pc = pc]
    OBVIOUS
  <1>6. calendarReq' = [calendarReq EXCEPT ![r] = z]
    BY <1>0, <1>1, <1>5, SeesRemembers
  <1>7. /\ z \in CalendarReq /\ z.pc = pc /\ z.new = q.new /\ z.nights = q.nights
        /\ z.guest = q.guest /\ z.stay = q.stay /\ z.open = q.open /\ z.wasListed = q.wasListed
    <2>1. pc \in Calendar!Checks
      BY DEF Calendar!Checks
    <2> QED BY <1>5, <2>1, Advances
  <1>8. CheckoutSees(z) /\ z.new \subseteq z.nights
    BY <1>0, <1>1, <1>7, SeesRemembers DEF CheckoutSees, Calendar!Checks
  <1> QED BY <1>3, <1>4, <1>6, <1>7, <1>8, SeesRemembers, RequestMoves

\* A check that passes has seen what it is about.
LEMMA CheckKeeps ==
    ASSUME CalendarInv, NEW r \in Req, Calendar!CheckAvailability(r) PROVE CalendarInv'
  <1>0. PICK q \in CalendarReq : q = calendarReq[r]
    BY SeesRemembers
  <1>1. q.pc \in {"listing", "nights", "conflicts"}
    BY <1>0 DEF Calendar!CheckAvailability, Calendar!NextCheck
  <1>2. UNCHANGED <<calendarNight, calendarListed, calendarBooking, calendarSaves>>
    BY DEF Calendar!CheckAvailability
  <1>3. BookingsAreFair' /\ calendarBooking' \in [Guest -> BookedStay] /\ calendarSaves' \in 0 .. Edits
    BY <1>2, SeesRemembers DEF BookingsAreFair
  <1>4. CASE ~Calendar!Passes(q.pc, q.stay)
    <2>1. calendarReq' = [calendarReq EXCEPT ![r] = Calendar!Idle]
      BY <1>0, <1>4 DEF Calendar!CheckAvailability, Calendar!Done
    <2> QED BY <1>2, <2>1, NoCheckout, SaveMoves
  <1>5. CASE Calendar!Passes(q.pc, q.stay)
    <2>1. PICK pc : pc = Calendar!NextCheck[q.pc]
      OBVIOUS
    <2>2. /\ q.pc = "listing" => pc = "nights"
          /\ q.pc = "nights" => pc = "conflicts"
          /\ q.pc = "conflicts" => pc = "insert"
      BY <2>1 DEF Calendar!NextCheck
    <2>3. PICK z : z = [q EXCEPT !.pc = pc]
      OBVIOUS
    <2>4. calendarReq' = [calendarReq EXCEPT ![r] = z]
      BY <1>0, <1>5, <2>1, <2>3, SeesRemembers DEF Calendar!CheckAvailability
    <2>5. /\ z \in CalendarReq /\ z.pc = pc /\ z.new = q.new /\ z.nights = q.nights
          /\ z.guest = q.guest /\ z.stay = q.stay /\ z.open = q.open /\ z.wasListed = q.wasListed
      <3>1. pc \in Calendar!Checks
        BY <1>1, <2>2 DEF Calendar!Checks
      <3> QED BY <2>3, <3>1, Advances
    <2>6. CheckoutSees(q) /\ q.new \subseteq q.nights /\ q.pc \in Calendar!Checks
      BY <1>0, <1>1, SeesRemembers DEF Calendar!Checks
    <2>7. q.pc = "listing" => calendarListed
      BY <1>5 DEF Calendar!Passes
    <2>8. q.pc = "nights" => \A n \in Calendar!Nights(q.stay) : ~calendarNight[n].blocked
      BY <1>5 DEF Calendar!Passes, Calendar!Blocked
    <2>9. CheckoutSees(z)
      BY <1>1, <2>2, <2>5, <2>6, <2>7, <2>8 DEF CheckoutSees
    <2> QED BY <1>2, <1>3, <2>4, <2>5, <2>6, <2>9, RequestMoves
  <1> QED BY <1>4, <1>5

\* A booking is inserted by a request that saw its stay open, or by nobody.
LEMMA InsertKeeps ==
    ASSUME CalendarInv, NEW r \in Req, Calendar!InsertBooking(r) PROVE CalendarInv'
  <1>0. PICK q \in CalendarReq : q = calendarReq[r]
    BY SeesRemembers
  <1>1. /\ q.pc = "insert" /\ calendarReq' = [calendarReq EXCEPT ![r] = Calendar!Idle]
        /\ UNCHANGED <<calendarNight, calendarListed, calendarSaves>>
    BY <1>0 DEF Calendar!InsertBooking, Calendar!Done, Calendar!At
  <1>2. q.guest \in Viewer /\ q.stay \in Calendar!Stay /\ q.wasListed /\ Calendar!Nights(q.stay) \subseteq q.open
    BY <1>0, <1>1, SeesRemembers DEF CheckoutSees, Calendar!Checks
  <1>3. calendarBooking' \in [Guest -> BookedStay] /\ BookingsAreFair'
    <2>1. CASE UNCHANGED calendarBooking
      BY <2>1, SeesRemembers DEF BookingsAreFair
    <2>2. CASE ~UNCHANGED calendarBooking
      <3> DEFINE new == [status |-> "hold", guest |-> q.guest, stay |-> q.stay, fair |-> TRUE]
      <3>1. PICK b \in Guest : calendarBooking' = [calendarBooking EXCEPT ![b] = new]
        BY <1>0, <1>2, <2>2 DEF Calendar!InsertBooking
      <3>2. /\ new \in BookedStay /\ new.fair /\ new.guest \in Viewer /\ new.stay \in Calendar!Stay
        BY <1>2 DEF BookedStay
      <3> HIDE DEF new
      <3> QED BY <3>1, <3>2, SeesRemembers DEF BookingsAreFair
    <2> QED BY <2>1, <2>2
  <1>4. CheckoutSees(Calendar!Idle) /\ calendarSaves' \in 0 .. Edits
    BY <1>1, NoCheckout, SeesRemembers
  <1>5. Calendar!Idle \in CalendarReq /\ Calendar!Idle.new \subseteq Calendar!Idle.nights
    BY NoCheckout
  <1> QED BY <1>1, <1>3, <1>4, <1>5, RequestMoves

\* What becomes of a booking is of no interest to the calendar.
LEMMA BookingKeeps ==
    ASSUME CalendarInv, NEW b \in Guest, Calendar!CoverBooking(b) \/ Calendar!CancelBooking(b)
    PROVE  CalendarInv'
  <1>1. UNCHANGED <<calendarNight, calendarListed, calendarReq, calendarSaves>>
    BY DEF Calendar!CoverBooking, Calendar!CancelBooking
  <1>2. calendarBooking' \in [Guest -> BookedStay] /\ BookingsAreFair'
    <2>1. CASE Calendar!CancelBooking(b)
      BY <2>1, CancelledIs DEF Calendar!CancelBooking
    <2>2. CASE Calendar!CoverBooking(b)
      <3>1. PICK z \in BookedStay : z = calendarBooking[b]
        BY SeesRemembers
      <3>2. z.status = "hold" /\ calendarBooking' = [calendarBooking EXCEPT ![b] = [z EXCEPT !.status = "covered"]]
        BY <2>2, <3>1, SeesRemembers DEF Calendar!CoverBooking
      <3>3. /\ [z EXCEPT !.status = "covered"] \in BookedStay
            /\ [z EXCEPT !.status = "covered"].fair = z.fair
            /\ [z EXCEPT !.status = "covered"].guest = z.guest
            /\ [z EXCEPT !.status = "covered"].stay = z.stay
        BY DEF BookedStay
      <3> QED BY <3>1, <3>2, <3>3, SeesRemembers DEF BookingsAreFair
    <2> QED BY <2>1, <2>2
  <1>3. CalendarTyped' /\ RowsAreWhole' /\ RequestsSee'
    BY <1>1, <1>2 DEF CalendarInv, CalendarTyped, RowsAreWhole, RequestsSee, CheckoutSees
  <1> QED BY <1>2, <1>3 DEF CalendarInv

-------------------------------------------------------------------------------
(* The theorems of SumSpec.                                                 *)

\* The calendar starts empty, with nobody looking at it.
LEMMA CalendarStarts == Calendar!Init => CalendarInv
  <1> SUFFICES ASSUME Calendar!Init PROVE CalendarInv
    OBVIOUS
  <1>1. /\ calendarNight = [n \in Calendar!Night |-> Calendar!NoRow] /\ calendarListed = TRUE
        /\ calendarBooking = [b \in Guest |-> Calendar!Free]
        /\ calendarReq = [r \in Req |-> Calendar!Idle] /\ calendarSaves = 0
    BY DEF Calendar!Init
  <1>2. Calendar!NoRow \in NightRow
    BY DEF Calendar!NoRow, NightRow
  <1>3. Calendar!Free \in BookedStay /\ Calendar!Free.fair /\ Calendar!Free.status = "free"
    BY DEF Calendar!Free, BookedStay
  <1>4. 0 \in 0 .. Edits
    BY CalendarAssumption
  <1>5. CalendarTyped /\ RowsAreWhole /\ BookingsAreFair
    BY <1>1, <1>2, <1>3, <1>4, NoCheckout DEF CalendarTyped, RowsAreWhole, BookingsAreFair
  <1>6. RequestsSee
    BY <1>1, NoCheckout DEF RequestsSee
  <1> QED BY <1>5, <1>6 DEF CalendarInv

\* Every step of the calendar keeps the invariant.
LEMMA CalendarGoesOn == CalendarInv /\ [Calendar!Next]_calendarVars => CalendarInv'
  <1> SUFFICES ASSUME CalendarInv, [Calendar!Next]_calendarVars PROVE CalendarInv'
    OBVIOUS
  <1>1. ASSUME UNCHANGED calendarVars PROVE CalendarInv'
    BY <1>1 DEF calendarVars, CalendarInv, CalendarTyped, RowsAreWhole, BookingsAreFair, RequestsSee, CheckoutSees
  <1>2. "absent" \in Calendar!Sent /\ "clear" \in Calendar!Sent /\ "set" \in Calendar!Sent
    BY DEF Calendar!Sent
  <1>3. ASSUME NEW r \in Req, NEW s \in Calendar!Stay, NEW p \in Calendar!Sent,
               Calendar!StartSave(r, s, "absent", p)
        PROVE  CalendarInv'
    BY <1>2, <1>3, StartSaveKeeps
  <1>4. ASSUME NEW r \in Req, NEW s \in Calendar!Stay, NEW b \in {"clear", "set"},
               NEW p \in {"absent", "set"}, Calendar!StartSave(r, s, b, p)
        PROVE  CalendarInv'
    <2>1. b \in Calendar!Sent /\ p \in Calendar!Sent
      BY <1>2
    <2> QED BY <1>4, <2>1, StartSaveKeeps
  <1> QED BY <1>1, <1>3, <1>4, SnapshotKeeps, SaveKeeps, HostKeeps, StartCheckoutKeeps, ReleaseKeeps,
             CheckKeeps, InsertKeeps, BookingKeeps
          DEF Calendar!Next

\* The invariant holds of every state of the sum.
LEMMA CalendarHolds == SumSpec => []CalendarInv
  <1>1. SumInit => CalendarInv
    BY CalendarStarts DEF SumInit
  <1>2. CalendarInv /\ [SumNext]_sumVars => CalendarInv'
    BY CalendarGoesOn DEF SumNext, sumVars, calendarVars
  <1> QED BY <1>1, <1>2, PTL DEF SumSpec

\* For any stays, guests, viewers, saves and checkouts: what the picker offers a
\* guest is what a checkout of theirs gets past, what the search shows the picker
\* offers, and no checkout sells a night that was blocked, or a listing that was
\* off the catalogue, all the while it ran.
THEOREM GuestsSeeTheCalendar == SumSpec => []CalendarsAgree
  <1>1. SumSpec => Spec
    <2>1. SumInit => Init
      BY DEF SumInit
    <2>2. [SumNext]_sumVars => [Next]_vars
      BY DEF SumNext, sumVars
    <2> QED BY <2>1, <2>2, PTL DEF SumSpec, Spec
  <1>2. CalendarInv => Calendar!TypeOK
    BY DEF CalendarInv, CalendarTyped, BookingsAreFair, RequestsSee, Calendar!TypeOK, NightRow, BookedStay, CalendarReq
  <1>3. CalendarInv => Calendar!SoldNightsWereOpen
    BY DEF CalendarInv, BookingsAreFair, Calendar!SoldNightsWereOpen
  <1>4. Calendar!CalendarsAgree
    BY DEF Calendar!CalendarsAgree, Calendar!Pickable, Calendar!FreeInSearch, Calendar!Released
  <1>5. TypeOK /\ CalendarInv => CalendarsAgree
    BY <1>2, <1>3, <1>4 DEF CalendarsAgree, TypesOK
  <1> QED BY <1>1, <1>5, TypeCorrect, CalendarHolds, PTL

\* However many saves of a night run at once: a night that loses its price or its
\* block is deleted, or a save that clears that field is being written.
THEOREM SavesKeepFields == SumSpec => FieldsAreKept
  <1> DEFINE Kept == \A n \in Calendar!Night :
         /\ calendarNight[n].priced /\ ~calendarNight'[n].priced =>
              ~calendarNight'[n].exists \/ \E r \in Req : Calendar!At(r, "write") /\ calendarReq[r].price = "clear"
         /\ calendarNight[n].blocked /\ ~calendarNight'[n].blocked =>
              ~calendarNight'[n].exists \/ \E r \in Req : Calendar!At(r, "write") /\ calendarReq[r].blocked = "clear"
  <1>1. ASSUME UNCHANGED calendarNight PROVE Kept
    BY <1>1
  <1>2. ASSUME CalendarInv, NEW r \in Req, Calendar!SaveCalendarNights(r) PROVE Kept
    <2>0. PICK q \in CalendarReq : q = calendarReq[r]
      BY <1>2, SeesRemembers
    <2>1. CASE Calendar!Collides(q)
      BY <1>1, <1>2, <2>0, <2>1 DEF Calendar!SaveCalendarNights
    <2>2. CASE ~Calendar!Collides(q)
      <3>1. PICK rows : rows = [n \in Calendar!Night |->
                               IF n \in q.nights
                               THEN Calendar!Written(IF n \in q.new THEN Calendar!NoRow ELSE calendarNight[n], q)
                               ELSE calendarNight[n]]
        OBVIOUS
      <3>2. calendarNight' = rows /\ Calendar!At(r, "write")
        BY <1>2, <2>0, <2>2, <3>1 DEF Calendar!SaveCalendarNights
      <3>3. \A n \in Calendar!Night :
                /\ calendarNight[n].priced /\ ~rows[n].priced => q.price = "clear"
                /\ calendarNight[n].blocked /\ ~rows[n].blocked => q.blocked = "clear"
        BY <1>2, <2>2, <3>1, SavedRows
      <3> QED BY <2>0, <3>2, <3>3
    <2> QED BY <2>1, <2>2
  <1>3. ASSUME CalendarInv, NEW s \in Calendar!Stay, Calendar!ClearCalendarNights(s) PROVE Kept
    <2>1. \A n \in Calendar!Night : calendarNight'[n] = calendarNight[n] \/ calendarNight'[n] = Calendar!NoRow
      BY <1>3 DEF Calendar!ClearCalendarNights
    <2>2. ~Calendar!NoRow.exists
      BY DEF Calendar!NoRow
    <2> QED BY <2>1, <2>2
  <1>4. CalendarInv /\ [SumNext]_sumVars => [Kept]_calendarVars
    <2> SUFFICES ASSUME CalendarInv, SumNext \/ UNCHANGED sumVars PROVE Kept
      BY DEF sumVars
    <2>1. Calendar!Next \/ UNCHANGED calendarNight
      BY DEF SumNext, sumVars, calendarVars
    <2> HIDE DEF Kept
    <2>2. ASSUME Calendar!Next PROVE Kept
      <3>1. ASSUME NEW r \in Req, NEW s \in Calendar!Stay, NEW b, NEW p, Calendar!StartSave(r, s, b, p)
            PROVE  Kept
        BY <1>1, <3>1 DEF Calendar!StartSave
      <3>2. ASSUME NEW r \in Req,
                   \/ Calendar!SnapshotNights(r) \/ Calendar!ReleaseOwnHolds(r) \/ Calendar!SweepExpiredHolds(r)
                   \/ Calendar!CheckAvailability(r) \/ Calendar!InsertBooking(r)
            PROVE  Kept
        BY <1>1, <3>2 DEF Calendar!SnapshotNights, Calendar!ReleaseOwnHolds, Calendar!SweepExpiredHolds,
                          Calendar!CheckAvailability, Calendar!InsertBooking
      <3>3. ASSUME NEW r \in Req, NEW g, NEW s, Calendar!StartCheckout(r, g, s) PROVE Kept
        BY <1>1, <3>3 DEF Calendar!StartCheckout
      <3>4. ASSUME NEW b \in Guest, Calendar!CoverBooking(b) \/ Calendar!CancelBooking(b) PROVE Kept
        BY <1>1, <3>4 DEF Calendar!CoverBooking, Calendar!CancelBooking
      <3>5. ASSUME Calendar!SetListed PROVE Kept
        BY <1>1, <3>5 DEF Calendar!SetListed
      <3> QED BY <1>2, <1>3, <2>2, <3>1, <3>2, <3>3, <3>4, <3>5 DEF Calendar!Next
    <2> QED BY <1>1, <2>1, <2>2
  <1>5. [Kept]_calendarVars => [Kept]_(Calendar!vars)
    BY DEF calendarVars, Calendar!vars
  <1> QED BY <1>4, <1>5, CalendarHolds, PTL DEF SumSpec, FieldsAreKept, Calendar!FieldsAreKept

-------------------------------------------------------------------------------
(* The inductive invariant                                                  *)

CallerState == [pc : {"idle", "connect", "statement", "heal", "retry", "commit", "rollback"},
                tx : BOOLEAN, obj : Object \cup {None}, lost : BOOLEAN, outcome : Healing!Outcome]

RepairState == [pc : {"idle", "connect", "check", "create"}, todo : SUBSET Object,
                obj : Object \cup {None}]

\* The repair still sees to object o: it has not looked at it, or is creating it.
SeenTo(o) == o \in healingRepair.todo \/ (healingRepair.pc = "create" /\ healingRepair.obj = o)

\* What a request in state q may count on.
CallerOK(q) ==
    /\ q.pc # "idle" => q.outcome # "missing"
    /\ q.outcome = "missing" => q.lost
    /\ q.pc = "heal" => /\ healingRepair.pc # "idle"
                        /\ q.lost \/ q.obj \notin healingMissing \/ SeenTo(q.obj)
    /\ q.pc = "retry" => q.lost \/ q.obj \notin healingMissing

HealingInv ==
    /\ Healing!TypeOK
    /\ Healing!PoolIsBounded
    /\ \A r \in Caller : CallerOK(healingReq[r])

-------------------------------------------------------------------------------
(* Lemmas                                                                   *)

\* The types, by name.
LEMMA HealingTypes ==
    ASSUME HealingInv
    PROVE  /\ healingMissing \subseteq Object
           /\ healingReq \in [Caller -> CallerState]
           /\ healingRepair \in RepairState
           /\ healingRepair.pc = "create" <=> healingRepair.obj # None
           /\ healingDrops \in 0 .. Drops
           /\ Healing!InUse <= Pool
           /\ \A r \in Caller : CallerOK(healingReq[r])
  BY DEF HealingInv, Healing!TypeOK, CallerState, RepairState, Healing!PoolIsBounded

\* A request that holds a connection of its own.
Has(q) == q.tx /\ q.pc \notin {"idle", "connect"}

\* The gateway counts as everybody does.
LEMMA SameCount == \A S : Healing!Cardinality(S) = Cardinality(S)
  BY Zenon DEF Healing!Cardinality, Cardinality

\* The holders are finitely many, and how many connections are out is a number.
LEMMA HoldersCount ==
    /\ IsFiniteSet(Healing!Holders)
    /\ Cardinality(Healing!Holders) \in Nat
    /\ Healing!InUse = Cardinality(Healing!Holders) + (IF Healing!RepairHolds THEN 1 ELSE 0)
  <1>1. Healing!Holders \subseteq Caller
    BY DEF Healing!Holders
  <1> QED BY <1>1, HealingAssumption, SameCount, FS_Subset, FS_CardinalityType DEF Healing!InUse

\* The same in the next state.
LEMMA HoldersCountNext ==
    /\ IsFiniteSet(Healing!Holders')
    /\ Cardinality(Healing!Holders') \in Nat
    /\ Healing!InUse' = Cardinality(Healing!Holders') + (IF Healing!RepairHolds' THEN 1 ELSE 0)
  <1>1. Healing!Holders' \subseteq Caller
    BY DEF Healing!Holders
  <1> QED BY <1>1, HealingAssumption, SameCount, FS_Subset, FS_CardinalityType DEF Healing!InUse

\* Unless somebody takes a connection the pool stays within its bound.
LEMMA NobodyTakes ==
    ASSUME HealingInv,
           \A r \in Caller : Has(healingReq'[r]) => Has(healingReq[r]),
           Healing!RepairHolds' => Healing!RepairHolds
    PROVE  Healing!InUse' <= Pool
  <1>1. Healing!Holders' \subseteq Healing!Holders
    BY DEF Healing!Holders, Has
  <1>2. Cardinality(Healing!Holders') <= Cardinality(Healing!Holders)
    BY <1>1, HoldersCount, FS_Subset
  <1>3. Healing!InUse <= Pool /\ Pool \in Nat
    BY HealingTypes, HealingAssumption
  <1> QED BY <1>2, <1>3, HoldersCount, HoldersCountNext

\* A step of one request.
LEMMA CallerMoves ==
    ASSUME HealingInv, NEW r \in Caller, NEW q \in CallerState,
           healingReq' = [healingReq EXCEPT ![r] = q], CallerOK(q), Has(q) => Has(healingReq[r]),
           UNCHANGED <<healingMissing, healingRepair, healingDrops>>
    PROVE  HealingInv'
  <1>1. healingReq' \in [Caller -> CallerState] /\ \A t \in Caller : healingReq'[t] = IF t = r THEN q ELSE healingReq[t]
    BY HealingTypes
  <1>2. Healing!TypeOK'
    BY <1>1 DEF HealingInv, Healing!TypeOK, CallerState
  <1>3. Healing!RepairHolds' <=> Healing!RepairHolds
    BY DEF Healing!RepairHolds
  <1>4. Healing!InUse' <= Pool
    BY <1>1, <1>3, NobodyTakes
  <1>5. \A t \in Caller : CallerOK(healingReq[t])'
    BY <1>1, HealingTypes DEF CallerOK, SeenTo
  <1> QED BY <1>2, <1>4, <1>5 DEF HealingInv, Healing!PoolIsBounded

\* A request that rests.
LEMMA Rests ==
    ASSUME NEW outcome \in Healing!Outcome
    PROVE  /\ Healing!Idle(outcome) \in CallerState /\ Healing!Idle(outcome).pc = "idle"
           /\ Healing!Idle(outcome).outcome = outcome
           /\ ~Has(Healing!Idle(outcome)) /\ ~Healing!Idle(outcome).lost
  BY DEF Healing!Idle, CallerState, Has

\* A request that ends, without having met a missing object.
LEMMA CallerEnds ==
    ASSUME HealingInv, NEW r \in Caller, NEW outcome \in Healing!Outcome, outcome # "missing",
           healingReq' = [healingReq EXCEPT ![r] = Healing!Idle(outcome)],
           UNCHANGED <<healingMissing, healingRepair, healingDrops>>
    PROVE  HealingInv'
  <1>1. PICK q : q = Healing!Idle(outcome)
    OBVIOUS
  <1>2. q \in CallerState /\ q.pc = "idle" /\ q.outcome = outcome /\ ~Has(q)
    BY <1>1, Rests
  <1>3. CallerOK(q)
    BY <1>2 DEF CallerOK
  <1> QED BY <1>1, <1>2, <1>3, CallerMoves

\* A request that goes on to another statement on the connection it has.
LEMMA CallerGoes ==
    ASSUME HealingInv, NEW r \in Caller, healingReq[r].pc # "idle",
           NEW pc \in {"statement", "commit", "rollback"}, NEW outcome \in Healing!Outcome, outcome # "missing",
           Has(healingReq[r]),
           healingReq' = [healingReq EXCEPT ![r] = [healingReq[r] EXCEPT !.pc = pc, !.outcome = outcome]],
           UNCHANGED <<healingMissing, healingRepair, healingDrops>>
    PROVE  HealingInv'
  <1>1. PICK z \in CallerState : z = healingReq[r]
    BY HealingTypes
  <1>2. PICK q : q = [z EXCEPT !.pc = pc, !.outcome = outcome]
    OBVIOUS
  <1>3. q \in CallerState /\ q.pc = pc /\ q.outcome = outcome
    BY <1>2 DEF CallerState
  <1>4. CallerOK(q)
    BY <1>3 DEF CallerOK
  <1> QED BY <1>1, <1>2, <1>3, <1>4, CallerMoves

-------------------------------------------------------------------------------
(* The steps of a request                                                   *)

\* A request begins.
LEMMA BeginKeeps ==
    ASSUME HealingInv, NEW r \in Caller, NEW tx \in BOOLEAN, Healing!Begin(r, tx) PROVE HealingInv'
  <1>1. PICK pc \in {"connect", "statement"} : pc = IF tx THEN "connect" ELSE "statement"
    OBVIOUS
  <1>2. PICK q : q = [Healing!Idle("none") EXCEPT !.tx = tx, !.pc = pc]
    OBVIOUS
  <1>3. q \in CallerState /\ q.pc = pc /\ q.tx = tx /\ q.outcome = "none"
    BY <1>2 DEF Healing!Idle, CallerState, Healing!Outcome
  <1>4. CallerOK(q) /\ ~Has(q)
    BY <1>1, <1>3 DEF CallerOK, Has
  <1>5. healingReq' = [healingReq EXCEPT ![r] = q] /\ UNCHANGED <<healingMissing, healingRepair, healingDrops>>
    BY <1>1, <1>2 DEF Healing!Begin
  <1> QED BY <1>3, <1>4, <1>5, CallerMoves

\* A transaction takes one of the connections that are free.
LEMMA ConnectKeeps ==
    ASSUME HealingInv, NEW r \in Caller, Healing!Connect(r) PROVE HealingInv'
  <1>1. PICK z \in CallerState : z = healingReq[r] /\ CallerOK(z)
    BY HealingTypes
  <1>2. PICK q : q = [z EXCEPT !.pc = "statement"]
    OBVIOUS
  <1>3. q \in CallerState /\ q.pc = "statement" /\ q.outcome = z.outcome /\ q.lost = z.lost
    BY <1>2 DEF CallerState
  <1>4. /\ z.pc = "connect" /\ Healing!InUse < Pool
        /\ healingReq' = [healingReq EXCEPT ![r] = q]
        /\ UNCHANGED <<healingMissing, healingRepair, healingDrops>>
    BY <1>1, <1>2, HealingTypes DEF Healing!Connect, Healing!Free
  <1>5. CallerOK(q)
    BY <1>1, <1>3, <1>4 DEF CallerOK
  <1>6. healingReq' \in [Caller -> CallerState] /\ \A t \in Caller : healingReq'[t] = IF t = r THEN q ELSE healingReq[t]
    BY <1>3, <1>4, HealingTypes
  <1>7. Healing!TypeOK'
    BY <1>4, <1>6 DEF HealingInv, Healing!TypeOK, CallerState
  <1>8. \A t \in Caller : CallerOK(healingReq[t])'
    BY <1>4, <1>5, <1>6, HealingTypes DEF CallerOK, SeenTo
  <1>9. Healing!InUse' <= Pool
    <2>1. Healing!Holders' \subseteq Healing!Holders \cup {r}
      BY <1>6 DEF Healing!Holders
    <2>2. IsFiniteSet(Healing!Holders \cup {r}) /\ Cardinality(Healing!Holders \cup {r}) <= Cardinality(Healing!Holders) + 1
      <3>1. PICK held : held = Healing!Holders
        OBVIOUS
      <3>2. IsFiniteSet(held) /\ Cardinality(held) \in Nat
        BY <3>1, HoldersCount
      <3>3. /\ IsFiniteSet(held \cup {r})
            /\ Cardinality(held \cup {r}) = IF r \in held THEN Cardinality(held) ELSE Cardinality(held) + 1
        BY <3>2, FS_AddElement
      <3>4. Cardinality(held \cup {r}) <= Cardinality(held) + 1
        BY <3>2, <3>3
      <3> QED BY <3>1, <3>3, <3>4
    <2>3. Cardinality(Healing!Holders') <= Cardinality(Healing!Holders \cup {r})
      BY <2>1, <2>2, FS_Subset
    <2>4. Cardinality(Healing!Holders \cup {r}) \in Nat /\ Pool \in Nat
      BY <2>2, FS_CardinalityType, HealingAssumption
    <2>5. Healing!RepairHolds' <=> Healing!RepairHolds
      BY <1>4 DEF Healing!RepairHolds
    <2> QED BY <1>4, <2>2, <2>3, <2>4, <2>5, HoldersCount, HoldersCountNext
  <1> QED BY <1>7, <1>8, <1>9 DEF HealingInv, Healing!PoolIsBounded

\* A statement succeeds, fails or has to wait for a connection in vain.
LEMMA StatementKeeps ==
    ASSUME HealingInv, NEW r \in Caller,
           Healing!ConnectTimeout(r) \/ Healing!StatementOk(r) \/ Healing!StatementFails(r)
    PROVE  HealingInv'
  <1>0. /\ "ok" \in Healing!Outcome /\ "failed" \in Healing!Outcome
    BY DEF Healing!Outcome
  <1>1. UNCHANGED <<healingMissing, healingRepair, healingDrops>>
    BY DEF Healing!ConnectTimeout, Healing!StatementOk, Healing!StatementFails
  <1>2. PICK z \in CallerState : z = healingReq[r] /\ CallerOK(z)
    BY HealingTypes
  <1>3. CASE Healing!ConnectTimeout(r)
    BY <1>0, <1>1, <1>3, CallerEnds DEF Healing!ConnectTimeout
  <1>4. CASE Healing!StatementOk(r)
    <2>1. CASE ~z.tx
      <3>1. healingReq' = [healingReq EXCEPT ![r] = Healing!Idle("ok")]
        BY <1>2, <1>4, <2>1, HealingTypes DEF Healing!StatementOk
      <3> QED BY <1>0, <1>1, <3>1, CallerEnds
    <2>2. CASE z.tx
      <3>1. z.pc = "statement" /\ z.outcome # "missing" /\ z.outcome \in Healing!Outcome /\ Has(z)
        BY <1>2, <1>4, <2>2 DEF Healing!StatementOk, CallerOK, CallerState, Has
      <3>2. healingReq' = [healingReq EXCEPT ![r] = [z EXCEPT !.pc = "commit"]]
        BY <1>2, <1>4, <2>2, HealingTypes DEF Healing!StatementOk
      <3>3. [z EXCEPT !.pc = "commit"] = [z EXCEPT !.pc = "commit", !.outcome = z.outcome]
        BY DEF CallerState
      <3> QED BY <1>1, <1>2, <3>1, <3>2, <3>3, CallerGoes
    <2> QED BY <1>2, <2>1, <2>2
  <1>5. CASE Healing!StatementFails(r)
    <2>1. CASE ~z.tx
      <3>1. healingReq' = [healingReq EXCEPT ![r] = Healing!Idle("failed")]
        BY <1>2, <1>5, <2>1, HealingTypes DEF Healing!StatementFails
      <3> QED BY <1>0, <1>1, <3>1, CallerEnds
    <2>2. CASE z.tx
      <3>1. z.pc # "idle" /\ Has(z)
        BY <1>2, <1>5, <2>2 DEF Healing!StatementFails, Has
      <3>2. healingReq' = [healingReq EXCEPT ![r] = [z EXCEPT !.pc = "rollback", !.outcome = "failed"]]
        BY <1>2, <1>5, <2>2, HealingTypes DEF Healing!StatementFails
      <3> QED BY <1>0, <1>1, <1>2, <3>1, <3>2, CallerGoes
    <2> QED BY <1>2, <2>1, <2>2
  <1> QED BY <1>3, <1>4, <1>5

\* The retry after a repair, and the end of a transaction.
LEMMA EndKeeps ==
    ASSUME HealingInv, NEW r \in Caller, Healing!Retry(r) \/ Healing!Commit(r) \/ Healing!Rollback(r)
    PROVE  HealingInv'
  <1>0. "ok" \in Healing!Outcome /\ "aborted" \in Healing!Outcome /\ "missing" \in Healing!Outcome
    BY DEF Healing!Outcome
  <1>1. UNCHANGED <<healingMissing, healingRepair, healingDrops>>
    BY DEF Healing!Retry, Healing!Commit, Healing!Rollback
  <1>2. PICK z \in CallerState : z = healingReq[r] /\ CallerOK(z)
    BY HealingTypes
  <1>3. z.outcome \in Healing!Outcome /\ z.tx \in BOOLEAN
    BY DEF CallerState
  <1>4. CASE Healing!Retry(r)
    <2>1. z.pc = "retry"
      BY <1>2, <1>4 DEF Healing!Retry
    <2>2. CASE z.tx
      <3>1. healingReq' = [healingReq EXCEPT ![r] = [z EXCEPT !.pc = "rollback", !.outcome = "aborted"]]
        BY <1>2, <1>4, <2>2 DEF Healing!Retry
      <3>2. Has(z)
        BY <2>1, <2>2 DEF Has
      <3> QED BY <1>0, <1>1, <1>2, <2>1, <3>1, <3>2, CallerGoes
    <2>3. CASE ~z.tx /\ z.obj \notin healingMissing
      <3>1. healingReq' = [healingReq EXCEPT ![r] = Healing!Idle("ok")]
        BY <1>2, <1>4, <2>3 DEF Healing!Retry
      <3> QED BY <1>0, <1>1, <3>1, CallerEnds
    <2>4. CASE ~z.tx /\ z.obj \in healingMissing
      <3>1. z.lost
        BY <1>2, <2>1, <2>4 DEF CallerOK
      <3>2. PICK q : q = [Healing!Idle("missing") EXCEPT !.lost = z.lost]
        OBVIOUS
      <3>3. q \in CallerState /\ q.pc = "idle" /\ q.lost /\ ~Has(q)
        BY <1>0, <3>1, <3>2 DEF Healing!Idle, CallerState, Has
      <3>4. CallerOK(q)
        BY <3>3 DEF CallerOK
      <3>5. healingReq' = [healingReq EXCEPT ![r] = q]
        BY <1>2, <1>4, <2>4, <3>2 DEF Healing!Retry
      <3> QED BY <1>1, <3>3, <3>4, <3>5, CallerMoves
    <2> QED BY <2>2, <2>3, <2>4
  <1>5. CASE Healing!Commit(r)
    <2>1. z.pc = "commit" /\ z.outcome # "missing"
      BY <1>2, <1>5 DEF Healing!Commit, CallerOK
    <2>2. \/ healingReq' = [healingReq EXCEPT ![r] = Healing!Idle("ok")]
          \/ healingReq' = [healingReq EXCEPT ![r] = [z EXCEPT !.pc = "statement"]]
      BY <1>2, <1>5, HealingTypes DEF Healing!Commit
    <2>3. CASE healingReq' = [healingReq EXCEPT ![r] = Healing!Idle("ok")]
      BY <1>0, <1>1, <2>3, CallerEnds
    <2>4. CASE healingReq' = [healingReq EXCEPT ![r] = [z EXCEPT !.pc = "statement"]]
      <3>1. PICK q : q = [z EXCEPT !.pc = "statement"]
        OBVIOUS
      <3>2. q \in CallerState /\ q.pc = "statement" /\ q.outcome = z.outcome /\ q.tx = z.tx
        BY <3>1 DEF CallerState
      <3>3. CallerOK(q) /\ (Has(q) => Has(z))
        BY <2>1, <3>2 DEF CallerOK, Has
      <3> QED BY <1>1, <1>2, <2>4, <3>1, <3>2, <3>3, CallerMoves
    <2> QED BY <2>2, <2>3, <2>4
  <1>6. CASE Healing!Rollback(r)
    <2>1. z.outcome # "missing" /\ healingReq' = [healingReq EXCEPT ![r] = Healing!Idle(z.outcome)]
      BY <1>2, <1>6, HealingTypes DEF Healing!Rollback, CallerOK
    <2> QED BY <1>1, <1>3, <2>1, CallerEnds
  <1> QED BY <1>4, <1>5, <1>6

-------------------------------------------------------------------------------
(* The steps of the repair                                                  *)

\* A repair starts with everything still to look at.
LEMMA StartedIs ==
    /\ Healing!Started \in RepairState /\ Healing!Started.pc = "connect"
    /\ Healing!Started.obj = None /\ Healing!Started.todo = Object
  BY DEF Healing!Started, RepairState

\* A statement meets a missing object.
LEMMA MissKeeps ==
    ASSUME HealingInv, NEW r \in Caller, NEW o \in Object, Healing!MissObject(r, o) PROVE HealingInv'
  <1>1. PICK z \in CallerState : z = healingReq[r] /\ CallerOK(z)
    BY HealingTypes
  <1>2. PICK lost \in BOOLEAN : lost = (healingRepair.pc # "idle" /\ o \notin healingRepair.todo)
    OBVIOUS
  <1>3. PICK q : q = [z EXCEPT !.pc = "heal", !.obj = o, !.lost = lost]
    OBVIOUS
  <1>4. q \in CallerState /\ q.pc = "heal" /\ q.obj = o /\ q.lost = lost /\ q.tx = z.tx /\ q.outcome = z.outcome
    BY <1>3 DEF CallerState
  <1>5. /\ z.pc = "statement" /\ healingReq' = [healingReq EXCEPT ![r] = q]
        /\ healingRepair' = IF healingRepair.pc = "idle" THEN Healing!Started ELSE healingRepair
        /\ UNCHANGED <<healingMissing, healingDrops>>
    BY <1>1, <1>2, <1>3, HealingTypes DEF Healing!MissObject
  <1>6. healingReq' \in [Caller -> CallerState] /\ \A t \in Caller : healingReq'[t] = IF t = r THEN q ELSE healingReq[t]
    BY <1>4, <1>5, HealingTypes
  <1>7. healingRepair' \in RepairState /\ (healingRepair'.pc = "create" <=> healingRepair'.obj # None)
    BY <1>5, StartedIs, HealingTypes
  <1>8. Healing!TypeOK'
    BY <1>5, <1>6, <1>7 DEF HealingInv, Healing!TypeOK, CallerState, RepairState
  <1>9. Healing!InUse' <= Pool
    <2>1. Has(q) => Has(healingReq[r])
      BY <1>1, <1>4, <1>5 DEF Has
    <2>2. Healing!RepairHolds' => Healing!RepairHolds
      BY <1>5, StartedIs DEF Healing!RepairHolds
    <2> QED BY <1>6, <2>1, <2>2, NobodyTakes
  <1>10. ASSUME NEW t \in Caller PROVE CallerOK(healingReq[t])'
    <2>1. healingRepair'.pc # "idle"
      BY <1>5, StartedIs
    <2>2. CASE t = r
      <3>1. healingReq'[t] = q /\ q.outcome # "missing"
        BY <1>1, <1>4, <1>5, <1>6, <2>2 DEF CallerOK
      <3>2. lost \/ o \in healingRepair'.todo
        BY <1>2, <1>5, StartedIs
      <3> QED BY <1>4, <2>1, <3>1, <3>2 DEF CallerOK, SeenTo
    <2>3. CASE t # r
      <3>1. healingReq'[t] = healingReq[t] /\ CallerOK(healingReq[t])
        BY <1>6, <2>3, HealingTypes
      <3>2. healingReq[t].pc = "heal" => healingRepair' = healingRepair
        BY <1>5, <3>1 DEF CallerOK
      <3> QED BY <1>5, <2>1, <3>1, <3>2 DEF CallerOK, SeenTo
    <2> QED BY <2>2, <2>3
  <1> QED BY <1>8, <1>9, <1>10 DEF HealingInv, Healing!PoolIsBounded

\* A repair is asked for when none is under way, and then nobody waits for one.
LEMMA AskKeeps ==
    ASSUME HealingInv, Healing!AskRepair PROVE HealingInv'
  <1>1. /\ healingRepair.pc = "idle" /\ healingRepair' = Healing!Started
        /\ UNCHANGED <<healingMissing, healingReq, healingDrops>>
    BY DEF Healing!AskRepair
  <1>2. Healing!TypeOK'
    BY <1>1, StartedIs DEF HealingInv, Healing!TypeOK, RepairState
  <1>3. Healing!InUse' <= Pool
    <2>1. ~Healing!RepairHolds'
      BY <1>1, StartedIs DEF Healing!RepairHolds
    <2> QED BY <1>1, <2>1, NobodyTakes
  <1>4. \A t \in Caller : CallerOK(healingReq[t])'
    BY <1>1, HealingTypes DEF CallerOK
  <1> QED BY <1>2, <1>3, <1>4 DEF HealingInv, Healing!PoolIsBounded

\* The repair takes a connection, if there is one.
LEMMA ConnectRepairKeeps ==
    ASSUME HealingInv, Healing!ConnectRepair PROVE HealingInv'
  <1>0. PICK z \in RepairState : z = healingRepair
    BY HealingTypes
  <1>1. PICK q : q = [z EXCEPT !.pc = "check"]
    OBVIOUS
  <1>2. q \in RepairState /\ q.pc = "check" /\ q.obj = z.obj /\ q.todo = z.todo
    BY <1>1 DEF RepairState
  <1>3. /\ z.pc = "connect" /\ Healing!InUse < Pool /\ healingRepair' = q
        /\ UNCHANGED <<healingMissing, healingReq, healingDrops>>
    BY <1>0, <1>1 DEF Healing!ConnectRepair, Healing!Free
  <1>4. Healing!TypeOK'
    BY <1>0, <1>2, <1>3 DEF HealingInv, Healing!TypeOK, RepairState
  <1>5. Healing!InUse' <= Pool
    <2>1. Healing!Holders' = Healing!Holders
      BY <1>3 DEF Healing!Holders
    <2>2. Pool \in Nat /\ ~Healing!RepairHolds
      BY <1>0, <1>3, HealingAssumption DEF Healing!RepairHolds
    <2> QED BY <1>3, <2>1, <2>2, HoldersCount, HoldersCountNext
  <1>6. \A t \in Caller : CallerOK(healingReq[t])'
    BY <1>0, <1>2, <1>3, HealingTypes DEF CallerOK, SeenTo
  <1> QED BY <1>4, <1>5, <1>6 DEF HealingInv, Healing!PoolIsBounded

\* The repair looks at an object: it is there, or it is created next.
LEMMA CheckObjectKeeps ==
    ASSUME HealingInv, NEW o \in Object, Healing!CheckObject(o) PROVE HealingInv'
  <1>0. PICK z \in RepairState : z = healingRepair
    BY HealingTypes
  <1>1. z.pc = "check" /\ z.obj = None /\ UNCHANGED <<healingMissing, healingReq, healingDrops>>
    BY <1>0, HealingTypes DEF Healing!CheckObject
  <1>2. PICK q : q = IF o \in healingMissing THEN [z EXCEPT !.pc = "create", !.obj = o, !.todo = z.todo \ {o}]
                     ELSE [z EXCEPT !.todo = z.todo \ {o}]
    OBVIOUS
  <1>3. /\ q \in RepairState /\ q.todo = z.todo \ {o}
        /\ o \in healingMissing => q.pc = "create" /\ q.obj = o
        /\ o \notin healingMissing => q.pc = "check" /\ q.obj = None
    BY <1>1, <1>2 DEF RepairState
  <1>4. healingRepair' = q
    BY <1>0, <1>2, HealingTypes DEF Healing!CheckObject
  <1>5. q.pc = "create" <=> q.obj # None
    BY <1>3, HealingAssumption
  <1>6. Healing!TypeOK'
    BY <1>1, <1>3, <1>4, <1>5 DEF HealingInv, Healing!TypeOK, RepairState
  <1>7. Healing!InUse' <= Pool
    <2>1. Healing!RepairHolds
      BY <1>0, <1>1 DEF Healing!RepairHolds
    <2> QED BY <1>1, <2>1, NobodyTakes
  <1>8. \A t \in Caller : CallerOK(healingReq[t])'
    BY <1>0, <1>1, <1>3, <1>4, HealingTypes DEF CallerOK, SeenTo
  <1> QED BY <1>6, <1>7, <1>8 DEF HealingInv, Healing!PoolIsBounded

\* The repair creates the object it found missing.
LEMMA CreateObjectKeeps ==
    ASSUME HealingInv, Healing!CreateObject PROVE HealingInv'
  <1>0. PICK z \in RepairState : z = healingRepair
    BY HealingTypes
  <1>1. PICK q : q = [z EXCEPT !.pc = "check", !.obj = None]
    OBVIOUS
  <1>2. q \in RepairState /\ q.pc = "check" /\ q.obj = None /\ q.todo = z.todo
    BY <1>1 DEF RepairState
  <1>3. /\ z.pc = "create" /\ healingMissing' = healingMissing \ {z.obj} /\ healingRepair' = q
        /\ UNCHANGED <<healingReq, healingDrops>>
    BY <1>0, <1>1 DEF Healing!CreateObject
  <1>4. Healing!TypeOK'
    BY <1>2, <1>3 DEF HealingInv, Healing!TypeOK, RepairState
  <1>5. Healing!InUse' <= Pool
    <2>1. Healing!RepairHolds
      BY <1>0, <1>3 DEF Healing!RepairHolds
    <2> QED BY <1>3, <2>1, NobodyTakes
  <1>6. \A t \in Caller : CallerOK(healingReq[t])'
    BY <1>0, <1>2, <1>3, HealingTypes DEF CallerOK, SeenTo
  <1> QED BY <1>4, <1>5, <1>6 DEF HealingInv, Healing!PoolIsBounded

\* The repair at rest.
LEMMA RestingIs ==
    /\ Healing!Resting \in RepairState /\ Healing!Resting.pc = "idle"
    /\ Healing!Resting.obj = None
  BY DEF Healing!Resting, RepairState

\* The repair ends, and nobody waits any more; those that waited are told what
\* leaves them sound.
LEMMA RepairEnds ==
    ASSUME HealingInv, healingRepair' = Healing!Resting, UNCHANGED <<healingMissing, healingDrops>>,
           NEW f, healingReq' = [r \in Caller |-> f[r]],
           \A r \in Caller : /\ f[r] \in CallerState /\ f[r].pc # "heal"
                             /\ CallerOK(f[r]) /\ Has(f[r]) => Has(healingReq[r])
                             /\ CallerOK(f[r])
    PROVE  HealingInv'
  <1>1. healingReq' \in [Caller -> CallerState] /\ \A r \in Caller : healingReq'[r] = f[r]
    OBVIOUS
  <1>2. Healing!TypeOK'
    BY <1>1, RestingIs DEF HealingInv, Healing!TypeOK, CallerState, RepairState
  <1>3. Healing!InUse' <= Pool
    <2>1. ~Healing!RepairHolds'
      BY RestingIs DEF Healing!RepairHolds
    <2> QED BY <1>1, <2>1, NobodyTakes
  <1>4. \A r \in Caller : CallerOK(healingReq[r])'
    BY <1>1 DEF CallerOK
  <1> QED BY <1>2, <1>3, <1>4 DEF HealingInv, Healing!PoolIsBounded

\* It resolves: whoever waited finds its object, unless it was lost.
LEMMA RepairDoneKeeps ==
    ASSUME HealingInv, Healing!RepairDone PROVE HealingInv'
  <1> DEFINE f == [r \in Caller |-> IF healingReq[r].pc = "heal" THEN [healingReq[r] EXCEPT !.pc = "retry"]
                                    ELSE healingReq[r]]
  <1>1. /\ healingReq' = [r \in Caller |-> f[r]] /\ healingRepair' = Healing!Resting
        /\ UNCHANGED <<healingMissing, healingDrops>>
    BY DEF Healing!RepairDone, Healing!Waiting
  <1>2. ASSUME NEW r \in Caller
        PROVE  /\ f[r] \in CallerState /\ f[r].pc # "heal" /\ CallerOK(f[r])
               /\ Has(f[r]) => Has(healingReq[r])
    <2>1. PICK z \in CallerState : z = healingReq[r] /\ CallerOK(z)
      BY HealingTypes
    <2>2. CASE z.pc # "heal"
      BY <2>1, <2>2
    <2>3. CASE z.pc = "heal"
      <3>1. PICK q : q = [z EXCEPT !.pc = "retry"]
        OBVIOUS
      <3>2. /\ q \in CallerState /\ q.pc = "retry" /\ q.lost = z.lost /\ q.obj = z.obj
            /\ q.outcome = z.outcome /\ q.tx = z.tx
        BY <3>1 DEF CallerState
      <3>3. z.lost \/ z.obj \notin healingMissing
        BY <2>1, <2>3 DEF CallerOK, SeenTo, Healing!RepairDone
      <3>4. CallerOK(q) /\ (Has(q) => Has(z))
        BY <2>1, <2>3, <3>2, <3>3 DEF CallerOK, Has
      <3>5. f[r] = q
        BY <2>1, <2>3, <3>1
      <3> HIDE DEF f
      <3> QED BY <2>1, <3>2, <3>4, <3>5
    <2> QED BY <2>2, <2>3
  <1> HIDE DEF f
  <1> QED BY <1>1, <1>2, RepairEnds

\* It rejects, and those that waited fail with it.
LEMMA RepairFailsKeeps ==
    ASSUME HealingInv, Healing!RepairFails PROVE HealingInv'
  <1> DEFINE f == [r \in Caller |-> IF healingReq[r].pc # "heal" THEN healingReq[r]
                                    ELSE IF healingReq[r].tx
                                         THEN [healingReq[r] EXCEPT !.pc = "rollback", !.outcome = "failed"]
                                         ELSE Healing!Idle("failed")]
  <1>1. /\ healingReq' = [r \in Caller |-> f[r]] /\ healingRepair' = Healing!Resting
        /\ UNCHANGED <<healingMissing, healingDrops>>
    BY DEF Healing!RepairFails, Healing!Waiting
  <1>2. ASSUME NEW r \in Caller
        PROVE  /\ f[r] \in CallerState /\ f[r].pc # "heal" /\ CallerOK(f[r])
               /\ Has(f[r]) => Has(healingReq[r])
    <2>0. "failed" \in Healing!Outcome
      BY DEF Healing!Outcome
    <2>1. PICK z \in CallerState : z = healingReq[r] /\ CallerOK(z)
      BY HealingTypes
    <2>2. CASE z.pc # "heal"
      BY <2>1, <2>2
    <2>3. CASE z.pc = "heal" /\ z.tx
      <3>1. PICK q : q = [z EXCEPT !.pc = "rollback", !.outcome = "failed"]
        OBVIOUS
      <3>2. q \in CallerState /\ q.pc = "rollback" /\ q.outcome = "failed" /\ q.tx = z.tx
        BY <2>0, <3>1 DEF CallerState
      <3>4. CallerOK(q) /\ (Has(q) => Has(z))
        BY <2>3, <3>2 DEF CallerOK, Has
      <3>5. f[r] = q
        BY <2>1, <2>3, <3>1
      <3> HIDE DEF f
      <3> QED BY <2>1, <3>2, <3>4, <3>5
    <2>4. CASE z.pc = "heal" /\ ~z.tx
      <3>1. PICK q : q = Healing!Idle("failed")
        OBVIOUS
      <3>2. q \in CallerState /\ q.pc = "idle" /\ q.outcome = "failed" /\ ~Has(q)
        BY <2>0, <3>1, Rests
      <3>4. CallerOK(q)
        BY <3>2 DEF CallerOK
      <3>5. f[r] = q
        BY <2>1, <2>4, <3>1
      <3> HIDE DEF f
      <3> QED BY <3>2, <3>4, <3>5
    <2> QED BY <2>2, <2>3, <2>4
  <1> HIDE DEF f
  <1> QED BY <1>1, <1>2, RepairEnds

\* Another server creates an object, or an operator drops one: those who wait for
\* it and cannot count on the repair any more are marked.
LEMMA OutsideKeeps ==
    ASSUME HealingInv, NEW o \in Object, Healing!CreatedElsewhere(o) \/ Healing!Dropped(o) PROVE HealingInv'
  <1>1. healingMissing' \subseteq Object /\ healingDrops' \in 0 .. Drops /\ UNCHANGED healingRepair
    BY HealingTypes, HealingAssumption DEF Healing!CreatedElsewhere, Healing!Dropped
  <1>2. ASSUME NEW r \in Caller
        PROVE  /\ healingReq'[r] \in CallerState /\ healingReq'[r].pc = healingReq[r].pc
               /\ healingReq'[r].tx = healingReq[r].tx /\ healingReq'[r].obj = healingReq[r].obj
               /\ healingReq'[r].outcome = healingReq[r].outcome
               /\ healingReq[r].lost => healingReq'[r].lost
               /\ healingReq[r].pc \in {"heal", "retry"} /\ ~healingReq'[r].lost =>
                    (healingReq[r].obj \in healingMissing' => healingReq[r].obj \in healingMissing)
    <2>1. PICK z \in CallerState : z = healingReq[r]
      BY HealingTypes
    <2>2. CASE Healing!CreatedElsewhere(o)
      BY <2>1, <2>2 DEF Healing!CreatedElsewhere
    <2>3. CASE Healing!Dropped(o) /\ z.pc \in {"heal", "retry"} /\ z.obj = o
      <3>1. PICK q : q = [z EXCEPT !.lost = TRUE]
        OBVIOUS
      <3>2. /\ q \in CallerState /\ q.pc = z.pc /\ q.tx = z.tx /\ q.obj = z.obj
            /\ q.outcome = z.outcome /\ q.lost
        BY <3>1 DEF CallerState
      <3>3. healingReq'[r] = q
        BY <2>1, <2>3, <3>1 DEF Healing!Dropped
      <3> QED BY <2>1, <3>2, <3>3
    <2>4. CASE Healing!Dropped(o) /\ ~(z.pc \in {"heal", "retry"} /\ z.obj = o)
      BY <2>1, <2>4 DEF Healing!Dropped
    <2> QED BY <2>2, <2>3, <2>4
  <1>3. healingReq' \in [Caller -> CallerState]
    <2>1. DOMAIN healingReq' = Caller /\ healingReq' = [r \in Caller |-> healingReq'[r]]
      BY HealingTypes DEF Healing!CreatedElsewhere, Healing!Dropped
    <2> QED BY <1>2, <2>1
  <1>4. Healing!TypeOK'
    BY <1>1, <1>3 DEF HealingInv, Healing!TypeOK, CallerState
  <1>5. Healing!InUse' <= Pool
    BY <1>1, <1>2, NobodyTakes DEF Has, Healing!RepairHolds
  <1>6. \A r \in Caller : CallerOK(healingReq[r])'
    BY <1>1, <1>2, HealingTypes DEF CallerOK, SeenTo
  <1> QED BY <1>4, <1>5, <1>6 DEF HealingInv, Healing!PoolIsBounded

-------------------------------------------------------------------------------
(* The theorem                                                              *)

\* Nobody has a connection at the start.
LEMMA HealingStarts == Healing!Init => HealingInv
  <1> SUFFICES ASSUME Healing!Init PROVE HealingInv
    OBVIOUS
  <1>0. "none" \in Healing!Outcome /\ "none" # "missing"
    BY DEF Healing!Outcome
  <1>1. /\ healingMissing \subseteq Object /\ healingReq = [r \in Caller |-> Healing!Idle("none")]
        /\ healingRepair = Healing!Resting /\ healingDrops = 0
    BY DEF Healing!Init
  <1>2. Healing!TypeOK
    BY <1>0, <1>1, Rests, RestingIs, HealingAssumption DEF Healing!TypeOK, CallerState, RepairState
  <1>3. \A r \in Caller : CallerOK(healingReq[r])
    BY <1>0, <1>1, Rests DEF CallerOK
  <1>4. Healing!InUse <= Pool
    <2>1. Healing!Holders = {} /\ ~Healing!RepairHolds
      BY <1>0, <1>1, Rests, RestingIs DEF Healing!Holders, Healing!RepairHolds
    <2> QED BY <2>1, SameCount, FS_EmptySet, HealingAssumption DEF Healing!InUse
  <1> QED BY <1>2, <1>3, <1>4 DEF HealingInv, Healing!PoolIsBounded

\* Every step of the gateway keeps the invariant.
LEMMA HealingGoesOn == HealingInv /\ [Healing!Next]_healingVars => HealingInv'
  <1> SUFFICES ASSUME HealingInv, [Healing!Next]_healingVars PROVE HealingInv'
    OBVIOUS
  <1>1. ASSUME UNCHANGED healingVars PROVE HealingInv'
    BY <1>1 DEF healingVars, HealingInv, Healing!TypeOK, Healing!PoolIsBounded, Healing!InUse, Healing!Holders,
                Healing!RepairHolds, CallerOK, SeenTo
  <1>2. ASSUME NEW r \in Caller, Healing!RequestStep(r) PROVE HealingInv'
    BY <1>2, ConnectKeeps, StatementKeeps, MissKeeps, EndKeeps DEF Healing!RequestStep
  <1>3. ASSUME Healing!RepairStep PROVE HealingInv'
    BY <1>3, ConnectRepairKeeps, CheckObjectKeeps, CreateObjectKeeps, RepairDoneKeeps, RepairFailsKeeps DEF Healing!RepairStep
  <1> QED BY <1>1, <1>2, <1>3, BeginKeeps, AskKeeps, OutsideKeeps DEF Healing!Next

\* Whatever statements run, whoever drops or creates objects, and for any callers,
\* objects and size of the pool: no more connections are out than it holds, a
\* request that a repair let go finds its object unless it was dropped again, and
\* nobody waits for a repair that has ended.
THEOREM RepairsReachWaiters == ProgressSpec => []RepairsServe
  <1>1. ProgressSpec => ProgressInit /\ [][ProgressNext]_progressVars
    BY PTL DEF ProgressSpec
  <1>2. ProgressInit => Init /\ HealingInv
    BY HealingStarts DEF ProgressInit
  <1>3. [ProgressNext]_progressVars => [Next]_vars
    BY DEF ProgressNext, progressVars, Booked, Healed
  <1>4. HealingInv /\ [ProgressNext]_progressVars => HealingInv'
    BY HealingGoesOn DEF ProgressNext, progressVars, Booked, Healed
  <1>5. ProgressSpec => Spec
    BY <1>1, <1>2, <1>3, PTL DEF Spec
  <1>6. HealingInv /\ TypeOK => RepairsServe
    BY DEF HealingInv, RepairsServe, ProgressTypes, Healing!PoolIsBounded, Healing!RepairedUnlessLost,
           Healing!WaitersAreServed, Healing!Waiting, CallerOK
  <1>7. ProgressSpec => []TypeOK
    BY <1>5, TypeCorrect, PTL
  <1>8. ProgressSpec => []HealingInv
    BY <1>1, <1>2, <1>4, PTL
  <1> QED BY <1>6, <1>7, <1>8, PTL
===============================================================================
