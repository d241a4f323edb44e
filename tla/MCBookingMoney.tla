---------------------------- MODULE MCBookingMoney ----------------------------
(* Finite instances of BookingMoney. *)
EXTENDS BookingMoney, TLC

Symmetry == Permutations(Req) \cup Permutations(Intent)

\* The booking has been paid and the events of the payment are handled; Stripe
\* may deliver them once more.
PaidInit ==
    \E i \in Intent, m \in Modes :
        /\ status = IF m THEN "pending" ELSE "confirmed"
        /\ listing = [manual |-> m, rebooked |-> FALSE] /\ unpaidEnd = FALSE
        /\ row = [k \in RowId |-> IF k = 1
                                  THEN [st |-> IF m THEN "authorized" ELSE "paid",
                                        ref |-> i, refunded |-> 0]
                                  ELSE NoRow]
        /\ intent = [j \in Intent |-> [st |-> IF j # i THEN "none"
                                              ELSE IF m THEN "held" ELSE "succeeded",
                                       refunded |-> 0]]
        /\ keys = {}
        /\ mail \in IF "redelivery" \in Env
                    THEN SUBSET [type : {"failed"} \cup (IF m THEN {"capturable"} ELSE {}),
                                 intent : {i}, amount : {Total}]
                    ELSE {{}}
        /\ cancelRow = None /\ granted = 0
        /\ req = [r \in Req |-> Idle]

PaidSpec == PaidInit /\ [][Next]_vars

-------------------------------------------------------------------------------
(* What comments of the code say and the model refutes; the README has the  *)
(* constants and the story of each.                                        *)

\* "Cancels a booking and records the refund the policy allows": the refund
\* recorded for a cancelled booking is what the guest got back on the payment.
CancelPaysWhatItRecords ==
    Quiet /\ status = "cancelled" /\ ~unpaidEnd /\ granted = 0 /\ cancelRow # None =>
        \A i \in Intent : intent[i].st = "succeeded" => intent[i].refunded = cancelRow

\* "A guest who reloads the checkout resumes the intent already attached to this
\* booking, instead of leaving an unused hold behind on their card" (POST
\* /payments/intents): a booking never has money on two intents.
OneChargePerBooking ==
    \A i, j \in Intent : i # j => Returned(i) = Total \/ Returned(j) = Total

\* "A payment that still slips through is refunded by the webhook"
\* (expireUnpaidBookings): a booking that only the sweep can have cancelled keeps no
\* money.
SlippedPaymentIsReversed ==
    Quiet /\ status = "cancelled" => \A i \in Intent : Returned(i) = Total
===============================================================================
