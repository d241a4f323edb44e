----------------------------- MODULE BookingMoney -----------------------------
(***************************************************************************)
(* The money of one booking: its status, its payment rows, the Stripe      *)
(* PaymentIntents behind them, the webhook deliveries on their way and the *)
(* requests that act on them (bookings.repository.ts, the payments module, *)
(* operations.repository.ts).  Amounts are units of the booking's total; a *)
(* step is one database statement or transaction, or one Stripe call.      *)
(***************************************************************************)
EXTENDS Integers, FiniteSets, FiniteSetsExt

CONSTANTS Req,       \* request slots: requests in flight at the same time
          Intent,    \* PaymentIntents that can be created for the booking
          None,
          Total,     \* units the booking costs
          Modes,     \* how the listing may take bookings: TRUE needs an answer
          MaxRows,   \* bound: payment rows of the booking
          Handlers,  \* the handlers that run in this instance
          Env        \* what the environment may do to them

HandlerNames == {"checkout", "expire", "releaseOwn", "confirm", "decline", "cancel",
                 "adminCancel", "adminRefund", "complete", "webhook"}
EnvNames == {"stripeDown",    \* a Stripe call fails and has no effect
             "answerLost",    \* a Stripe call takes effect, its answer is lost
             "dbDown",        \* the transaction of an acceptance fails
             "crash",         \* a request stops between two steps
             "rebooked",      \* somebody else takes the released nights
             "redelivery",    \* Stripe delivers an event more than once
             "unpaidAnswer"}  \* a host answers a request that is not paid yet

ASSUME MoneyAssumption ==
    /\ Total \in Nat \ {0} /\ MaxRows \in Nat \ {0}
    /\ Modes \subseteq BOOLEAN
    /\ Handlers \subseteq HandlerNames /\ Env \subseteq EnvNames
    /\ None \notin Intent \cup Nat

VARIABLES status,     \* booking.status
          listing,    \* manual: payments are only held until the host accepts;
                      \* rebooked: other bookings hold the nights now
          row,        \* the payment rows, in order of creation
          intent,     \* the PaymentIntents at Stripe (external)
          keys,       \* idempotency keys of the refunds Stripe has made
          mail,       \* webhook events Stripe has still to deliver
          cancelRow,  \* booking_cancellation.refund_usd, None without a row
          granted,    \* sum of the booking_refund rows
          req,        \* the requests in flight
          unpaidEnd   \* history: closed before any payment was recorded

stripeVars == <<intent, keys, mail>>
vars == <<status, listing, row, stripeVars, cancelRow, granted, req, unpaidEnd>>

Live      == {"pending", "confirmed", "completed"}
Status    == Live \cup {"declined", "cancelled"}
PayStatus == {"pending", "authorized", "paid", "failed", "refunded"}
Covered   == {"authorized", "paid"}
RowId     == 1 .. MaxRows
Amount    == 0 .. Total

Row == [st : PayStatus \cup {"none"}, ref : Intent \cup {None}, refunded : Nat]

\* "open" stands for the requires_payment_method, _confirmation and _action.
IntentState == [st : {"none", "open", "held", "succeeded", "canceled"}, refunded : Amount]

Event == [type : {"capturable", "succeeded", "failed", "refunded"}, intent : Intent, amount : Amount]

Key == [intent : Intent, left : Amount, ask : Amount]

(***************************************************************************)
(* share: what the request wants to send back; ask: what it asks Stripe    *)
(* for; left: what it read as left on the charge.  event: the delivery a   *)
(* webhook request is handling.                                            *)
(***************************************************************************)
Step == {"idle", "claim", "look", "stripe", "unclaim", "finish", "decide", "adminClose",
         "adminNote", "adminGrant", "adminPay", "create", "attach", "close", "reverse",
         "record", "instant", "settle", "drop"}
Request == [pc : Step, kind : HandlerNames \cup {"none", "compensate"}, seen : Status,
            share : Amount, call : {"none", "capture", "cancel", "refund"},
            intent : Intent \cup {None}, left : Amount, ask : Amount,
            event : Event \cup {None}]

Idle == [pc |-> "idle", kind |-> "none", seen |-> "pending", share |-> 0, call |-> "none",
         intent |-> None, left |-> 0, ask |-> 0, event |-> None]

NoRow == [st |-> "none", ref |-> None, refunded |-> 0]

TypeOK ==
    /\ status \in Status /\ unpaidEnd \in BOOLEAN
    /\ listing \in [manual : BOOLEAN, rebooked : BOOLEAN]
    /\ row \in [RowId -> Row]
    /\ intent \in [Intent -> IntentState]
    /\ keys \subseteq Key /\ mail \subseteq Event
    /\ cancelRow \in Amount \cup {None}
    /\ granted \in Nat
    /\ req \in [Req -> Request]

\* createBooking has inserted the booking and its pending payment row.
Init ==
    /\ status = "pending" /\ unpaidEnd = FALSE
    /\ listing \in [manual : Modes, rebooked : {FALSE}]
    /\ row = [k \in RowId |-> IF k = 1 THEN [NoRow EXCEPT !.st = "pending"] ELSE NoRow]
    /\ intent = [i \in Intent |-> [st |-> "none", refunded |-> 0]]
    /\ keys = {} /\ mail = {}
    /\ cancelRow = None /\ granted = 0
    /\ req = [r \in Req |-> Idle]

-------------------------------------------------------------------------------
(* Payment rows                                                            *)

Rows(S)   == {k \in RowId : row[k].st \in S}
IsCovered == Rows(Covered) # {}

\* stripePaymentForBooking: the intent of the latest row still covering the stay.
LiveIntent == IF IsCovered THEN row[Max(Rows(Covered))].ref ELSE None

LastRow == row[Max(Rows(PayStatus))]

\* Mutation of Merge: an authorized row takes whatever the event says.
Merge_Late(old, new) ==
    CASE old = "refunded" -> old
      [] old = "paid" /\ new \in {"authorized", "failed", "pending"} -> old
      [] OTHER -> new

\* The status an event leaves on a row: late or reordered events never move it
\* backwards.
Merge(old, new) ==
    CASE old = "refunded" -> old
      [] old = "paid" /\ new \in {"authorized", "failed", "pending"} -> old
      [] old = "authorized" /\ new \in {"failed", "pending"} -> old
      [] OTHER -> new

\* INSERT ... ON CONFLICT (reference) DO UPDATE.
RecordStripePayment(i, st) ==
    LET known == {k \in RowId : row[k].st # "none" /\ row[k].ref = i}
    IN  IF known # {}
        THEN row' = [k \in RowId |-> IF k \in known
                                     THEN [row[k] EXCEPT !.st = Merge(@, st)]
                                     ELSE row[k]]
        ELSE /\ Rows({"none"}) # {}
             /\ row' = [row EXCEPT ![Min(Rows({"none"}))] = [NoRow EXCEPT !.st = st, !.ref = i]]

MarkPaymentRefunded(i, amount) ==
    row' = [k \in RowId |->
              IF row[k].st # "none" /\ row[k].ref = i
              THEN [row[k] EXCEPT !.refunded = amount,
                                  !.st = IF amount >= Total THEN "refunded" ELSE @]
              ELSE row[k]]

\* The rows S take over state st and add amount to what was sent back.
Refunded(S, st, amount) ==
    [k \in RowId |-> IF k \in S
                     THEN [row[k] EXCEPT !.st = st, !.refunded = @ + amount]
                     ELSE row[k]]

FailPending == [k \in RowId |-> IF row[k].st = "pending"
                                THEN [row[k] EXCEPT !.st = "failed"] ELSE row[k]]

-------------------------------------------------------------------------------
(* Stripe (external)                                                       *)

Left(i) == IF intent[i].st = "succeeded" THEN Total - intent[i].refunded ELSE 0

\* A repeated key answers as the first time did; on another charge it is refused.
Replayed(k) == k \in keys
Clashes(k)  == k.left # 0 /\ \E o \in keys : o.left = k.left /\ o.ask = k.ask /\ o.intent # k.intent

StripeCapture(i) ==
    /\ intent[i].st \in {"held", "succeeded"}
    /\ intent' = [intent EXCEPT ![i].st = "succeeded"]
    /\ mail' = IF intent[i].st = "held"
               THEN mail \cup {[type |-> "succeeded", intent |-> i, amount |-> Total]}
               ELSE mail
    /\ UNCHANGED keys

StripeCancel(i) ==
    /\ intent[i].st \in {"open", "held"}
    /\ intent' = [intent EXCEPT ![i].st = "canceled"]
    /\ UNCHANGED <<keys, mail>>

StripeRefund(k, amount) ==
    \/ Replayed(k) /\ UNCHANGED stripeVars
    \/ /\ ~Replayed(k) /\ ~Clashes(k)
       /\ 0 < amount /\ amount <= Left(k.intent)
       /\ intent' = [intent EXCEPT ![k.intent].refunded = @ + amount]
       /\ keys' = keys \cup {k}
       /\ mail' = mail \cup {[type |-> "refunded", intent |-> k.intent,
                              amount |-> intent[k.intent].refunded + amount]}

\* The guest pays, or tries to, with the client secret of the intent.
Pay(i) ==
    /\ intent[i].st = "open"
    /\ intent' = [intent EXCEPT ![i].st = IF listing.manual THEN "held" ELSE "succeeded"]
    /\ mail' = mail \cup {[type |-> IF listing.manual THEN "capturable" ELSE "succeeded",
                           intent |-> i, amount |-> Total]}
    /\ UNCHANGED <<status, listing, row, keys, cancelRow, granted, req, unpaidEnd>>

PayFails(i) ==
    /\ intent[i].st = "open"
    /\ mail' = mail \cup {[type |-> "failed", intent |-> i, amount |-> Total]}
    /\ UNCHANGED <<status, listing, row, intent, keys, cancelRow, granted, req, unpaidEnd>>
-------------------------------------------------------------------------------
(* Requests                                                                *)

At(r, pc)   == req[r].pc = pc
Goto(r, pc) == req' = [req EXCEPT ![r].pc = pc]
Done(r)     == req' = [req EXCEPT ![r] = Idle]

Begin(r, kind, pc, share) ==
    /\ kind \in Handlers /\ At(r, "idle")
    /\ req' = [req EXCEPT ![r] = [Idle EXCEPT !.pc = pc, !.kind = kind,
                                              !.seen = status, !.share = share]]

Answerable == IsCovered \/ "unpaidAnswer" \in Env

\* Mutation of StartConfirm: accepted without capturing the held money.
StartConfirm_NoCapture(r) ==
    /\ status = "pending" /\ Answerable
    /\ Begin(r, "confirm", "decide", 0)

StartConfirm(r) ==
    /\ status = "pending" /\ Answerable
    /\ Begin(r, "confirm", "look", 0)

\* The host declines, or the sweep does when the host did not answer in time.
StartDecline(r) ==
    /\ status = "pending" /\ Answerable
    /\ Begin(r, "decline", "claim", Total)

\* Mutation of StartCancel: what is left is not clamped at zero.
StartCancel_Unclamped(r, share) ==
    /\ status \in {"pending", "confirmed"}
    /\ Begin(r, "cancel", "claim", Min({share, Total - LastRow.refunded}))

\* The share of the total the guest's policy gives back, everything when host
\* or administrator cancel, less what the latest row says was already returned.
StartCancel(r, share) ==
    /\ status \in {"pending", "confirmed"}
    /\ LET rest == Total - LastRow.refunded IN
       Begin(r, "cancel", "claim", IF rest <= 0 THEN 0 ELSE Min({share, rest}))

StartAdminCancel(r, share) ==
    /\ status # "cancelled"
    /\ LET rest == Total - granted IN
       Begin(r, "adminCancel", "look", IF rest <= 0 THEN 0 ELSE Min({share, rest}))

StartAdminRefund(r, share) ==
    /\ 0 < share /\ share <= Total - granted
    /\ Begin(r, "adminRefund", "look", share)

\* The snapshot in which the sweep, or the guest's own next checkout, finds the
\* booking unpaid; what it found is cancelled when the transaction commits.
FindUnpaid(r, kind) ==
    /\ status = "pending" /\ ~IsCovered
    /\ Begin(r, kind, "drop", 0)

\* Mutation of Claim: the booking stays as it is until the money has moved.
Claim_Late(r) ==
    /\ At(r, "claim")
    /\ IF status = "pending" \/ (req[r].kind = "cancel" /\ status = "confirmed")
       THEN Goto(r, "look")
       ELSE Done(r)
    /\ UNCHANGED <<status, unpaidEnd, listing, row, stripeVars, cancelRow, granted>>

Claim(r) ==
    LET closed == IF req[r].kind = "decline" THEN "declined" ELSE "cancelled" IN
    /\ At(r, "claim")
    /\ IF status = "pending" \/ (req[r].kind = "cancel" /\ status = "confirmed")
       THEN status' = closed /\ unpaidEnd' = ~IsCovered /\ Goto(r, "look")
       ELSE Done(r) /\ UNCHANGED <<status, unpaidEnd>>
    /\ UNCHANGED <<listing, row, stripeVars, cancelRow, granted>>

-------------------------------------------------------------------------------
(* refundThroughStripe and capturePaymentForBooking: read the live payment  *)
(* row and retrieve its intent, then make at most one call.                *)

\* Mutation of AfterStripe: the claim of a cancellation is given back in a
\* finally, not in a catch.
AfterStripe_Finally(kind) ==
    CASE kind = "decline"     -> "finish"
      [] kind = "cancel"      -> "unclaim"
      [] kind = "confirm"     -> "decide"
      [] kind = "adminCancel" -> "adminClose"
      [] kind = "adminRefund" -> "adminGrant"
      [] OTHER                -> "idle"

AfterStripe(kind) ==
    CASE kind \in {"decline", "cancel"} -> "finish"
      [] kind = "confirm"               -> "decide"
      [] kind = "adminCancel"           -> "adminClose"
      [] kind = "adminRefund"           -> "adminGrant"
      [] OTHER                          -> "idle"

Call(r, i) ==
    LET sends == i # None /\ req[r].kind # "confirm" /\ req[r].share > 0 IN
    CASE i # None /\ req[r].kind = "confirm" /\ intent[i].st = "held" -> "capture"
      [] sends /\ intent[i].st \in {"open", "held"} -> "cancel"
      [] sends /\ Left(i) > 0 -> "refund"
      [] OTHER -> "none"

Look(r) ==
    LET i == LiveIntent  call == Call(r, i) IN
    /\ At(r, "look")
    /\ IF call = "none"
       THEN req' = [req EXCEPT ![r] =
                      IF AfterStripe(req[r].kind) = "idle" THEN Idle
                      ELSE [@ EXCEPT !.pc = AfterStripe(req[r].kind)]]
       ELSE req' = [req EXCEPT ![r] = [@ EXCEPT
                      !.pc = "stripe", !.call = call, !.intent = i, !.left = Left(i),
                      !.ask = IF call = "refund" THEN Min({req[r].share, Left(i)}) ELSE 0]]
    /\ UNCHANGED <<status, listing, row, stripeVars, cancelRow, granted, unpaidEnd>>

StripeDoes(r) ==
    LET q == req[r] IN
    CASE q.call = "capture" -> StripeCapture(q.intent)
      [] q.call = "cancel"  -> StripeCancel(q.intent)
      [] OTHER -> StripeRefund([intent |-> q.intent, left |-> q.left, ask |-> q.ask], q.ask)

\* StripeDoes(r) is impossible: Stripe rejects the call.
StripeRejects(r) ==
    LET q == req[r]  k == [intent |-> q.intent, left |-> q.left, ask |-> q.ask] IN
    CASE q.call = "capture" -> intent[q.intent].st \notin {"held", "succeeded"}
      [] q.call = "cancel"  -> intent[q.intent].st \notin {"open", "held"}
      [] OTHER -> ~Replayed(k) /\ (Clashes(k) \/ q.ask > Left(q.intent))

Answered(r) == req' = [req EXCEPT ![r] =
                 IF AfterStripe(req[r].kind) = "idle" THEN Idle
                 ELSE [Idle EXCEPT !.pc = AfterStripe(req[r].kind), !.kind = req[r].kind,
                                   !.seen = req[r].seen, !.share = req[r].share]]

\* Mutation of Threw: an error from Stripe is logged and the request goes on.
Threw_Swallowed(r) ==
    req' = [req EXCEPT ![r] =
              IF req[r].kind \in {"decline", "cancel"}
              THEN [Idle EXCEPT !.pc = "finish", !.kind = req[r].kind, !.share = req[r].share]
              ELSE Idle]

\* Mutation of Threw: an error from Stripe leaves the claim where it is.
Threw_KeepsClaim(r) == Done(r)

Threw(r) == req' = [req EXCEPT ![r] =
              IF req[r].kind \in {"decline", "cancel"}
              THEN [Idle EXCEPT !.pc = "unclaim", !.kind = req[r].kind, !.seen = req[r].seen]
              ELSE Idle]

StripeCall(r) ==
    /\ At(r, "stripe")
    /\ \/ StripeDoes(r) /\ Answered(r)
       \/ "answerLost" \in Env /\ StripeDoes(r) /\ Threw(r)
       \/ "stripeDown" \in Env /\ Threw(r) /\ UNCHANGED stripeVars
       \/ StripeRejects(r) /\ Threw(r) /\ UNCHANGED stripeVars
    /\ UNCHANGED <<status, listing, row, cancelRow, granted, unpaidEnd>>

-------------------------------------------------------------------------------
(* What follows the Stripe call                                            *)

\* The constraint refuses to restore a booking whose nights are taken.
Unclaim(r) ==
    LET closed == IF req[r].kind = "decline" THEN "declined" ELSE "cancelled" IN
    /\ At(r, "unclaim")
    /\ IF status = closed /\ ~listing.rebooked
       THEN status' = req[r].seen /\ unpaidEnd' = FALSE
       ELSE UNCHANGED <<status, unpaidEnd>>
    /\ Done(r)
    /\ UNCHANGED <<listing, row, stripeVars, cancelRow, granted>>

FinishDecline(r) ==
    /\ At(r, "finish") /\ req[r].kind = "decline"
    /\ IF status = "declined"
       THEN /\ cancelRow' = Total
            /\ row' = [k \in RowId |-> IF row[k].st \in Covered
                                       THEN [row[k] EXCEPT !.st = "refunded", !.refunded = Total]
                                       ELSE row[k]]
       ELSE UNCHANGED <<cancelRow, row>>
    /\ Done(r)
    /\ UNCHANGED <<status, listing, stripeVars, granted, unpaidEnd>>

FinishCancel(r) ==
    LET share == req[r].share IN
    /\ At(r, "finish") /\ req[r].kind = "cancel"
    /\ status' = "cancelled" /\ cancelRow' = share
    /\ row' = IF share > 0 THEN Refunded(Rows(Covered), "refunded", share) ELSE row
    /\ Done(r)
    /\ UNCHANGED <<listing, stripeVars, granted, unpaidEnd>>

\* When the decision cannot be written the captured money is sent back.
DecideConfirm(r) ==
    LET compensate == req' = [req EXCEPT ![r] = [Idle EXCEPT !.pc = "look",
                                                   !.kind = "compensate", !.share = Total]]
    IN
    /\ At(r, "decide")
    /\ \/ status = "pending" /\ status' = "confirmed" /\ Done(r)
       \/ (status # "pending" \/ "dbDown" \in Env) /\ compensate /\ UNCHANGED status
    /\ UNCHANGED <<listing, row, stripeVars, cancelRow, granted, unpaidEnd>>

\* adminCancelBooking: four statements and no transaction around them.
AdminClose(r) ==
    /\ At(r, "adminClose")
    /\ status' = "cancelled"
    /\ Goto(r, "adminNote")
    /\ UNCHANGED <<listing, row, stripeVars, cancelRow, granted, unpaidEnd>>

AdminNote(r) ==
    /\ At(r, "adminNote")
    /\ cancelRow' = req[r].share
    /\ IF req[r].share > 0 THEN Goto(r, "adminGrant") ELSE Done(r)
    /\ UNCHANGED <<status, listing, row, stripeVars, granted, unpaidEnd>>

AdminGrant(r) ==
    /\ At(r, "adminGrant")
    /\ granted' = granted + req[r].share
    /\ Goto(r, "adminPay")
    /\ UNCHANGED <<status, listing, row, stripeVars, cancelRow, unpaidEnd>>

\* A forced cancellation marks every row refunded, whatever its status was; a
\* plain refund only the rows that are now fully sent back.
AdminPay(r) ==
    LET share == req[r].share
        whole == {k \in Rows(PayStatus) : req[r].kind = "adminCancel" \/ row[k].refunded + share >= Total}
    IN
    /\ At(r, "adminPay")
    /\ row' = [k \in RowId |-> IF row[k].st = "none" THEN row[k]
                               ELSE [row[k] EXCEPT !.refunded = @ + share,
                                       !.st = IF k \in whole THEN "refunded" ELSE @]]
    /\ Done(r)
    /\ UNCHANGED <<status, listing, stripeVars, cancelRow, granted, unpaidEnd>>

-------------------------------------------------------------------------------
(* POST /payments/intents: resume the open intent of the pending row, or     *)
(* create a new one and attach it.  An intent that cannot be retrieved is    *)
(* replaced like one that is used up.                                      *)

StartCheckout(r) ==
    LET mine == {k \in Rows({"pending"}) : row[k].ref # None} IN
    /\ status = "pending"
    /\ mine # {} => "stripeDown" \in Env \/ intent[row[Max(mine)].ref].st # "open"
    /\ Begin(r, "checkout", "create", 0)
    /\ UNCHANGED <<status, listing, row, stripeVars, cancelRow, granted, unpaidEnd>>

CreateIntent(r) ==
    /\ At(r, "create")
    /\ \E i \in Intent :
         /\ intent[i].st = "none"
         /\ intent' = [intent EXCEPT ![i].st = "open"]
         /\ req' = [req EXCEPT ![r].pc = "attach", ![r].intent = i]
    /\ UNCHANGED <<status, listing, row, keys, mail, cancelRow, granted, unpaidEnd>>

\* Two pending rows cannot take the same reference: the statement fails.
AttachIntent(r) ==
    LET pending == Rows({"pending"})  i == req[r].intent IN
    /\ At(r, "attach")
    /\ CASE Cardinality(pending) = 1 ->
              row' = [k \in RowId |-> IF k \in pending THEN [row[k] EXCEPT !.ref = i] ELSE row[k]]
         [] pending = {} -> RecordStripePayment(i, "pending")
         [] OTHER -> UNCHANGED row
    /\ Done(r)
    /\ UNCHANGED <<status, listing, stripeVars, cancelRow, granted, unpaidEnd>>

-------------------------------------------------------------------------------
(* The webhook                                                             *)

\* Mutation of Deliver: the status of the booking is not looked at.
Deliver_Blind(r, e) ==
    /\ "webhook" \in Handlers /\ At(r, "idle") /\ e \in mail
    /\ req' = [req EXCEPT ![r] = [Idle EXCEPT !.pc = "record", !.kind = "webhook", !.event = e]]
    /\ UNCHANGED <<status, listing, row, stripeVars, cancelRow, granted, unpaidEnd>>

\* reverseIfBookingClosed reads the status here and acts on it later.
Deliver(r, e) ==
    /\ "webhook" \in Handlers /\ At(r, "idle") /\ e \in mail
    /\ req' = [req EXCEPT ![r] = [Idle EXCEPT
                 !.pc = IF e.type \in {"succeeded", "capturable"} /\ status = "cancelled"
                        THEN "reverse" ELSE "record",
                 !.kind = "webhook", !.event = e]]
    /\ UNCHANGED <<status, listing, row, stripeVars, cancelRow, granted, unpaidEnd>>

\* A handled event is gone, unless Stripe delivers it again; on an error it
\* stays and is retried.
Acknowledge(e) == mail' \in {mail \ {e}} \cup (IF "redelivery" \in Env THEN {mail} ELSE {})

Reverse(r) ==
    LET e == req[r].event
        i == e.intent
        key == [intent |-> i, left |-> 0, ask |-> 0]
        cancels == e.type = "capturable" /\ intent[i].st \in {"open", "held"}
        refunds == e.type = "succeeded" /\ key \notin keys /\ Left(i) > 0
        settled == e.type = "succeeded" /\ key \in keys
    IN
    /\ At(r, "reverse")
    /\ \/ /\ cancels
          /\ intent' = [intent EXCEPT ![i].st = "canceled"]
          /\ Acknowledge(e)
          /\ UNCHANGED keys
       \/ /\ refunds
          /\ intent' = [intent EXCEPT ![i].refunded = Total]
          /\ keys' = keys \cup {key}
          /\ mail' = (mail \ {e}) \cup {[type |-> "refunded", intent |-> i, amount |-> Total]}
       \/ settled /\ Acknowledge(e) /\ UNCHANGED <<intent, keys>>
       \/ ((~cancels /\ ~refunds /\ ~settled) \/ "stripeDown" \in Env) /\ UNCHANGED stripeVars
    /\ Done(r)
    /\ UNCHANGED <<status, listing, row, cancelRow, granted, unpaidEnd>>

PaymentStatus(type) ==
    CASE type = "succeeded" -> "paid" [] type = "capturable" -> "authorized" [] OTHER -> "failed"

RecordEvent(r) ==
    LET e == req[r].event IN
    /\ At(r, "record")
    /\ IF e.type = "refunded" THEN MarkPaymentRefunded(e.intent, e.amount)
       ELSE RecordStripePayment(e.intent, PaymentStatus(e.type))
    /\ IF e.type = "succeeded" THEN Goto(r, "instant") /\ UNCHANGED mail
       ELSE Done(r) /\ Acknowledge(e)
    /\ UNCHANGED <<status, listing, intent, keys, cancelRow, granted, unpaidEnd>>

ConfirmInstantBook(r) ==
    /\ At(r, "instant")
    /\ status' = IF status = "pending" /\ ~listing.manual THEN "confirmed" ELSE status
    /\ Acknowledge(req[r].event)
    /\ Done(r)
    /\ UNCHANGED <<listing, row, intent, keys, cancelRow, granted, unpaidEnd>>

-------------------------------------------------------------------------------
(* The sweeps and the environment                                          *)

\* expireUnpaidBookings commits: its UPDATE looks at the booking once more, not at
\* the payments.  The intents of the failed rows are closed afterwards, errors
\* being logged only.
ExpireUnpaid(r) ==
    /\ At(r, "drop") /\ req[r].kind = "expire" /\ status = "pending"
    /\ status' = "cancelled" /\ unpaidEnd' = ~IsCovered
    /\ cancelRow' = IF cancelRow = None THEN 0 ELSE cancelRow
    /\ row' = FailPending
    /\ LET open == {k \in Rows({"pending"}) : row[k].ref # None} IN
       req' = [req EXCEPT ![r] =
                 IF open = {} THEN Idle
                 ELSE [Idle EXCEPT !.pc = "close", !.kind = "expire", !.intent = row[Max(open)].ref]]
    /\ UNCHANGED <<listing, stripeVars, granted>>

CloseIntent(r) ==
    /\ At(r, "close")
    /\ \/ StripeCancel(req[r].intent)
       \/ /\ "stripeDown" \in Env \/ intent[req[r].intent].st \notin {"open", "held"}
          /\ UNCHANGED stripeVars
    /\ Done(r)
    /\ UNCHANGED <<status, listing, row, cancelRow, granted, unpaidEnd>>

\* createBooking releases the guest's own unpaid hold; its intent stays open.
ReleaseOwnHold(r) ==
    /\ At(r, "drop") /\ req[r].kind = "releaseOwn" /\ status = "pending"
    /\ status' = "cancelled" /\ unpaidEnd' = ~IsCovered
    /\ row' = FailPending
    /\ Done(r)
    /\ UNCHANGED <<listing, stripeVars, cancelRow, granted>>

\* The booking was answered since the snapshot: the UPDATE matches no row.
DropNothing(r) ==
    /\ At(r, "drop") /\ status # "pending"
    /\ Done(r)
    /\ UNCHANGED <<status, listing, row, stripeVars, cancelRow, granted, unpaidEnd>>

CompleteStay(r) ==
    /\ "complete" \in Handlers /\ At(r, "idle")
    /\ status = "confirmed" /\ status' = "completed"
    /\ req' = [req EXCEPT ![r] = [Idle EXCEPT !.pc = "settle", !.kind = "complete"]]
    /\ UNCHANGED <<listing, row, stripeVars, cancelRow, granted, unpaidEnd>>

SettlePayment(r) ==
    /\ At(r, "settle")
    /\ row' = [k \in RowId |-> IF row[k].st = "authorized"
                               THEN [row[k] EXCEPT !.st = "paid"] ELSE row[k]]
    /\ Done(r)
    /\ UNCHANGED <<status, listing, stripeVars, cancelRow, granted, unpaidEnd>>

Rebook ==
    /\ "rebooked" \in Env /\ ~listing.rebooked /\ status \notin Live
    /\ listing' = [listing EXCEPT !.rebooked = TRUE]
    /\ UNCHANGED <<status, row, stripeVars, cancelRow, granted, req, unpaidEnd>>

LoseRequest(r) ==
    /\ "crash" \in Env /\ ~At(r, "idle")
    /\ Done(r)
    /\ UNCHANGED <<status, listing, row, stripeVars, cancelRow, granted, unpaidEnd>>

-------------------------------------------------------------------------------
Start(r) ==
    /\ \/ StartConfirm(r)
       \/ StartDecline(r)
       \/ \E kind \in {"expire", "releaseOwn"} : FindUnpaid(r, kind)
       \/ \E share \in Amount :
            StartCancel(r, share) \/ StartAdminCancel(r, share) \/ StartAdminRefund(r, share)
    /\ UNCHANGED <<status, listing, row, stripeVars, cancelRow, granted, unpaidEnd>>

RefundStep(r)   == Claim(r) \/ Look(r) \/ StripeCall(r) \/ Unclaim(r)
                   \/ FinishDecline(r) \/ FinishCancel(r)
DecideStep(r)   == DecideConfirm(r) \/ AdminClose(r) \/ AdminNote(r) \/ AdminGrant(r) \/ AdminPay(r)
CheckoutStep(r) == StartCheckout(r) \/ CreateIntent(r) \/ AttachIntent(r)
WebhookStep(r)  == (\E e \in mail : Deliver(r, e)) \/ Reverse(r) \/ RecordEvent(r)
                   \/ ConfirmInstantBook(r)
SweepStep(r)    == ExpireUnpaid(r) \/ CloseIntent(r) \/ ReleaseOwnHold(r) \/ DropNothing(r)
                   \/ CompleteStay(r) \/ SettlePayment(r)

Next ==
    \/ \E r \in Req : \/ Start(r)
                      \/ RefundStep(r)
                      \/ DecideStep(r)
                      \/ CheckoutStep(r)
                      \/ WebhookStep(r)
                      \/ SweepStep(r)
                      \/ LoseRequest(r)
    \/ \E i \in Intent : Pay(i) \/ PayFails(i)
    \/ Rebook

Spec == Init /\ [][Next]_vars

-------------------------------------------------------------------------------
(* Properties                                                              *)

Quiet == mail = {} /\ \A r \in Req : req[r].pc = "idle"

\* What the guest has got back of what the intent took or held.
Returned(i) == IF intent[i].st \in {"held", "succeeded"} THEN intent[i].refunded ELSE Total

\* "Stripe may deliver events late or out of order: never move a payment
\* backwards" (recordStripePayment): whatever the order, the copies and the
\* requests in between, a row only goes from unpaid to authorized to paid to
\* refunded.
Rank(st) == CASE st = "authorized" -> 1 [] st = "paid" -> 2 [] st = "refunded" -> 3 [] OTHER -> 0

NeverBackwards == [][\A k \in RowId : Rank(row'[k].st) >= Rank(row[k].st)]_vars

\* "A declined request gives the guest everything back" (decideBooking): once
\* the requests and deliveries are through, a declined booking keeps no money
\* (unless an administrator's refund has moved it in the register).
DeclinedGivesBack == Quiet /\ status = "declined" /\ granted = 0 => \A i \in Intent : Returned(i) = Total

\* "A payment that lands after its booking was cancelled must not keep the
\* guest's money" (reverseIfBookingClosed).
LatePaymentReversed ==
    Quiet /\ status = "cancelled" /\ unpaidEnd => \A i \in Intent : Returned(i) = Total

\* A confirmed stay has its money: taken, or held for the host's answer, and
\* none of it sent back unless an administrator did.
ConfirmedStaysPaid ==
    status = "confirmed" /\ granted = 0 =>
        \E i \in Intent : intent[i].st \in {"held", "succeeded"} /\ intent[i].refunded = 0

\* "the payment row can never claim a refund the card never received"
\* (cancelBooking): no row says more was sent back than Stripe returned.
RegisterIsHonest ==
    \A k \in RowId : row[k].st # "none" /\ row[k].ref # None => row[k].refunded <= Returned(row[k].ref)

\* A booking that is still on the calendar after a failed attempt to decline or
\* cancel it has lost none of its money.
FailedCloseKeepsMoney ==
    Quiet /\ status \in {"pending", "confirmed"} /\ granted = 0 =>
        \A i \in Intent : intent[i].st \in {"held", "succeeded"} => intent[i].refunded = 0

\* The money of a stay is taken, not only held, before its payment counts as
\* paid: "Accepting is the moment the money is actually taken" (decideBooking).
PaidMeansTaken ==
    \A k \in RowId : row[k].st = "paid" => intent[row[k].ref].st = "succeeded"

\* The checkout of the booking was opened at Stripe at most once so far.
OneIntent == \A i, j \in Intent : intent[i].st # "none" /\ intent[j].st # "none" => i = j

\* "a retried identical request is deduplicated by Stripe" (refundThroughStripe):
\* when the register takes a refund over, two refunds that Stripe made of one
\* amount are two grants, and none of them is the retry of a lost answer.
RetriesAreDeduplicated ==
    (\E r \in Req : req[r].pc = "adminPay") =>
        \A k, l \in keys : k # l /\ k.ask = l.ask => k.ask + l.ask <= granted
===============================================================================
