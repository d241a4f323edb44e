-------------------------- MODULE BookingMoneyProofs --------------------------
(***************************************************************************)
(* No payment row ever moves backwards, whatever the requests, the order   *)
(* and the copies of the events, and what a booking's payment is made of   *)
(* keeps to its types.  When requests overlap and Stripe may be down, a    *)
(* booking of one intent that was declined has given everything back; when *)
(* no more than two requests meet, what counts as paid was taken.  All of  *)
(* this for any number of requests, intents and rows, within the bounds    *)
(* that the theorems name, and any price.                                  *)
(***************************************************************************)
EXTENDS MCBookingMoney, WellFoundedInduction, TLAPS

-------------------------------------------------------------------------------
(* The rows of the payment (BookingMoney)                                  *)

\* The rows keep to their type, and the booking never loses its first one.
RowsOK == row \in [RowId -> Row] /\ row[1].st # "none"

\* What a step does to the rows.
Forward == \A k \in RowId : Rank(row'[k].st) >= Rank(row[k].st)

\* A rank is a number.
LEMMA Ranks == ASSUME NEW st PROVE Rank(st) \in 0 .. 3
  BY DEF Rank

\* The least of some numbers is one of them.
LEMMA MinIn == ASSUME NEW S, S \subseteq Nat, S # {} PROVE Min(S) \in S /\ \A y \in S : Min(S) <= y
  <1> DEFINE R == OpToRel(<, Nat)
  <1>1. \E x \in S : \A y \in S : ~(<<y, x>> \in R)
    BY NatLessThanWellFounded, WFMin
  <1>2. PICK x \in S : \A y \in S : ~(<<y, x>> \in R)
    BY <1>1
  <1>3. \A y \in S : <<y, x>> \in R <=> y < x
    BY DEF OpToRel
  <1> HIDE DEF R
  <1>4. ASSUME NEW y \in S PROVE x =< y
    <2>1. x \in Nat /\ y \in Nat
      OBVIOUS
    <2>2. ~(y < x)
      BY <1>2, <1>3
    <2> QED BY <2>1, <2>2
  <1> QED BY <1>4 DEF Min

\* So is the greatest of some rows: the least of what they leave to the last.
LEMMA MaxIn == ASSUME NEW S, S \subseteq RowId, S # {} PROVE Max(S) \in S
  <1> DEFINE T == {MaxRows - y : y \in S}
  <1>0. MaxRows \in Nat /\ \A y \in S : y \in Nat /\ MaxRows - y \in Nat
    BY MoneyAssumption DEF RowId
  <1>1. T \subseteq Nat /\ T # {}
    BY <1>0
  <1>2. Min(T) \in T /\ \A y \in T : Min(T) <= y
    BY <1>1, MinIn
  <1>3. PICK z \in S : Min(T) = MaxRows - z
    BY <1>2
  <1>4. ASSUME NEW y \in S PROVE z >= y
    <2>1. MaxRows - y \in T
      OBVIOUS
    <2>2. MaxRows - z <= MaxRows - y
      BY <1>2, <1>3, <2>1
    <2> HIDE DEF T
    <2> QED BY <1>0, <2>2
  <1> HIDE DEF T
  <1> QED BY <1>4 DEF Max

\* The merge of an event into a row gives a status and moves it forward.
LEMMA MergeForward ==
    ASSUME NEW old \in PayStatus, NEW new \in {"paid", "authorized", "failed", "pending"}
    PROVE  Merge(old, new) \in PayStatus /\ Rank(Merge(old, new)) >= Rank(old)
  <1>0. Merge(old, new) \in PayStatus
    BY DEF Merge, PayStatus
  <1>1. CASE old = "refunded"
    BY <1>0, <1>1, Ranks DEF Merge
  <1>2. CASE old = "paid"
    <2>1. Merge(old, new) = "paid"
      BY <1>2 DEF Merge
    <2> QED BY <1>0, <1>2, <2>1, Ranks
  <1>3. CASE old = "authorized"
    <2>1. Merge(old, new) \in {"authorized", "paid"}
      BY <1>3 DEF Merge
    <2> QED BY <1>0, <1>3, <2>1 DEF Rank
  <1>4. CASE old \notin {"refunded", "paid", "authorized"}
    <2>1. Rank(old) = 0
      BY <1>4 DEF Rank
    <2> QED BY <1>0, <2>1, Ranks
  <1> QED BY <1>1, <1>2, <1>3, <1>4

\* Rows that are left alone.
LEMMA Untouched == ASSUME RowsOK, UNCHANGED row PROVE Forward /\ RowsOK'
  <1>1. \A k \in RowId : Rank(row[k].st) \in 0 .. 3
    BY Ranks
  <1> QED BY <1>1 DEF Forward, RowsOK

\* Rows that are written one by one, each forward.
LEMMA Mapped ==
    ASSUME RowsOK, NEW new, row' = [k \in RowId |-> new[k]],
           \A k \in RowId : /\ new[k] \in Row /\ Rank(new[k].st) >= Rank(row[k].st)
                            /\ row[k].st # "none" => new[k].st # "none"
    PROVE  Forward /\ RowsOK'
  <1>1. 1 \in RowId
    BY MoneyAssumption DEF RowId
  <1> QED BY <1>1 DEF Forward, RowsOK

\* A status moves forward when it is the same or refunded, or was pending, or goes
\* from authorized to paid.
LEMMA Onwards ==
    ASSUME NEW old, NEW new,
           \/ new = old \/ new = "refunded" \/ old \in {"none", "pending"}
           \/ old = "authorized" /\ new = "paid"
    PROVE  Rank(new) >= Rank(old)
  <1>1. CASE new = old
    BY <1>1, Ranks
  <1>2. CASE new = "refunded"
    <2>1. Rank(new) = 3
      BY <1>2 DEF Rank
    <2> QED BY <2>1, Ranks
  <1>3. CASE old \in {"none", "pending"}
    <2>1. Rank(old) = 0
      BY <1>3 DEF Rank
    <2> QED BY <2>1, Ranks
  <1>4. CASE old = "authorized" /\ new = "paid"
    BY <1>4 DEF Rank
  <1> QED BY <1>1, <1>2, <1>3, <1>4

\* Rows of which some get a status, and perhaps a reference or a refund.
LEMMA SomeForward ==
    ASSUME RowsOK, NEW new, row' = [k \in RowId |-> new[k]],
           \A k \in RowId :
               \/ new[k] = row[k]
               \/ /\ new[k] \in Row /\ row[k].st # "none" /\ new[k].st # "none"
                  /\ \/ new[k].st = row[k].st \/ new[k].st = "refunded"
                     \/ row[k].st = "pending"
                     \/ row[k].st = "authorized" /\ new[k].st = "paid"
    PROVE  Forward /\ RowsOK'
  <1>1. \A k \in RowId : row[k] \in Row
    BY DEF RowsOK
  <1>2. \A k \in RowId : /\ new[k] \in Row /\ Rank(new[k].st) >= Rank(row[k].st)
                         /\ row[k].st # "none" => new[k].st # "none"
    BY <1>1, Onwards
  <1> QED BY <1>2, Mapped

-------------------------------------------------------------------------------
(* The operations on the rows                                              *)

\* An event is recorded.
LEMMA RecordForward ==
    ASSUME RowsOK, NEW i \in Intent \cup {None}, NEW st \in {"paid", "authorized", "failed", "pending"},
           RecordStripePayment(i, st)
    PROVE  Forward /\ RowsOK'
  <1> DEFINE known == {k \in RowId : row[k].st # "none" /\ row[k].ref = i}
  <1>1. CASE known # {}
    <2> DEFINE new == [k \in RowId |-> IF k \in known
                                      THEN [row[k] EXCEPT !.st = Merge(row[k].st, st)]
                                      ELSE row[k]]
    <2>1. row' = new
      BY <1>1 DEF RecordStripePayment
    <2>2. ASSUME NEW k \in RowId
          PROVE  /\ new[k] \in Row /\ Rank(new[k].st) >= Rank(row[k].st)
                 /\ row[k].st # "none" => new[k].st # "none"
      <3>1. row[k] \in Row
        BY DEF RowsOK
      <3>2. CASE k \in known
        <4>1. new[k] = [row[k] EXCEPT !.st = Merge(row[k].st, st)]
          BY <3>2
        <4>2. row[k].st \in PayStatus
          BY <3>1, <3>2 DEF Row
        <4>3. PICK s \in PayStatus : s = Merge(row[k].st, st) /\ Rank(s) >= Rank(row[k].st)
          BY <4>2, MergeForward
        <4>4. PICK x : x = [row[k] EXCEPT !.st = s]
          OBVIOUS
        <4>5. x \in Row /\ x.st = s
          BY <3>1, <4>3, <4>4 DEF Row
        <4>6. new[k] = x /\ s # "none"
          BY <4>1, <4>3, <4>4 DEF PayStatus
        <4> HIDE DEF new
        <4> QED BY <4>3, <4>5, <4>6
      <3>3. CASE k \notin known
        BY <3>1, <3>3, Onwards
      <3> QED BY <3>2, <3>3
    <2>3. row' = [k \in RowId |-> new[k]]
      BY <2>1
    <2> HIDE DEF new
    <2> QED BY <2>2, <2>3, Mapped
  <1>2. CASE known = {}
    <2> DEFINE j == Min(Rows({"none"}))
               x == [NoRow EXCEPT !.st = st, !.ref = i]
    <2>1. Rows({"none"}) # {} /\ row' = [row EXCEPT ![j] = x]
      BY <1>2 DEF RecordStripePayment
    <2>2. j \in RowId /\ row[j].st = "none"
      <3>1. Rows({"none"}) \subseteq Nat
        BY MoneyAssumption DEF Rows, RowId
      <3>2. j \in Rows({"none"})
        BY <2>1, <3>1, MinIn
      <3> QED BY <3>2 DEF Rows
    <2>3. x \in Row /\ x.st # "none"
      BY DEF NoRow, Row, PayStatus
    <2> HIDE DEF j, x
    <2> DEFINE new == [k \in RowId |-> IF k = j THEN x ELSE row[k]]
    <2>4. row' = new /\ row' = [k \in RowId |-> new[k]]
      BY <2>1, <2>2 DEF RowsOK
    <2>5. ASSUME NEW k \in RowId
          PROVE  /\ new[k] \in Row /\ Rank(new[k].st) >= Rank(row[k].st)
                 /\ row[k].st # "none" => new[k].st # "none"
      <3>1. row[k] \in Row
        BY DEF RowsOK
      <3>2. CASE k = j
        BY <2>2, <2>3, <3>2, Onwards
      <3>3. CASE k # j
        BY <3>1, <3>3, Onwards
      <3> QED BY <3>2, <3>3
    <2> HIDE DEF new
    <2> QED BY <2>4, <2>5, Mapped
  <1> QED BY <1>1, <1>2

\* Pending rows fail.
LEMMA FailForward == ASSUME RowsOK, row' = FailPending PROVE Forward /\ RowsOK'
  <1> DEFINE new == FailPending
  <1>1. ASSUME NEW k \in RowId
        PROVE  new[k] = row[k] \/ (new[k] \in Row /\ row[k].st = "pending" /\ new[k].st # "none")
    <2>1. CASE row[k].st = "pending"
      <3>1. new[k] = [row[k] EXCEPT !.st = "failed"]
        BY <2>1 DEF FailPending
      <3>2. row[k] \in Row /\ "failed" \in PayStatus
        BY DEF RowsOK, PayStatus
      <3>3. new[k] \in Row /\ new[k].st = "failed"
        BY <3>1, <3>2 DEF Row
      <3> QED BY <2>1, <3>3
    <2>2. CASE row[k].st # "pending"
      BY <2>2 DEF FailPending
    <2> QED BY <2>1, <2>2
  <1>2. row' = [k \in RowId |-> new[k]]
    BY DEF FailPending
  <1> HIDE DEF new
  <1> QED BY <1>1, <1>2, SomeForward

\* A refund Stripe tells of is written into the row.
LEMMA MarkForward ==
    ASSUME RowsOK, NEW i, NEW amount \in Nat, MarkPaymentRefunded(i, amount)
    PROVE  Forward /\ RowsOK'
  <1> DEFINE status2(k) == IF amount >= Total THEN "refunded" ELSE row[k].st
             new == [k \in RowId |->
                       IF row[k].st # "none" /\ row[k].ref = i
                       THEN [row[k] EXCEPT !.refunded = amount, !.st = status2(k)]
                       ELSE row[k]]
  <1>1. ASSUME NEW k \in RowId
        PROVE  \/ new[k] = row[k]
               \/ /\ new[k] \in Row /\ row[k].st # "none" /\ new[k].st # "none"
                  /\ (new[k].st = row[k].st \/ new[k].st = "refunded")
    <2> DEFINE st == status2(k)
    <2> DEFINE x == [row[k] EXCEPT !.refunded = amount, !.st = st]
    <2>1. new[k] = row[k] \/ (row[k].st # "none" /\ new[k] = x)
      OBVIOUS
    <2>2. row[k] \in Row /\ (row[k].st # "none" => row[k].st \in PayStatus)
      BY DEF RowsOK, Row
    <2>3. (st = row[k].st \/ st = "refunded") /\ "refunded" \in PayStatus /\ "none" \notin PayStatus
      BY DEF PayStatus
    <2> HIDE DEF st
    <2>4. row[k].st # "none" => x \in Row /\ x.st = st
      BY <2>2, <2>3 DEF Row
    <2> HIDE DEF x, new
    <2> QED BY <2>1, <2>2, <2>3, <2>4
  <1>2. row' = [k \in RowId |-> new[k]]
    BY DEF MarkPaymentRefunded
  <1> HIDE DEF new
  <1> QED BY <1>1, <1>2, SomeForward

\* A decline writes the covered rows off.
LEMMA DeclineForward ==
    ASSUME RowsOK, NEW r \in Req, FinishDecline(r)
    PROVE  Forward /\ RowsOK'
  <1> DEFINE new == [k \in RowId |-> IF row[k].st \in Covered
                                     THEN [row[k] EXCEPT !.st = "refunded", !.refunded = Total]
                                     ELSE row[k]]
  <1>1. ASSUME NEW k \in RowId
        PROVE  new[k] = row[k] \/ (new[k] \in Row /\ row[k].st # "none" /\ new[k].st = "refunded")
    <2> DEFINE x == [row[k] EXCEPT !.st = "refunded", !.refunded = Total]
    <2>1. new[k] = row[k] \/ (row[k].st # "none" /\ new[k] = x)
      BY DEF Covered
    <2>2. row[k] \in Row /\ "refunded" \in PayStatus /\ Total \in Nat
      BY MoneyAssumption DEF RowsOK, PayStatus
    <2>3. x \in Row /\ x.st = "refunded"
      BY <2>2 DEF Row
    <2> HIDE DEF x, new
    <2> QED BY <2>1, <2>3
  <1>2. row' = [k \in RowId |-> new[k]] \/ UNCHANGED row
    BY DEF FinishDecline
  <1> HIDE DEF new
  <1> QED BY <1>1, <1>2, SomeForward, Untouched

\* A cancellation takes the covered rows over as refunded.
LEMMA CancelForward ==
    ASSUME RowsOK, NEW r \in Req, req[r].share \in Nat, FinishCancel(r)
    PROVE  Forward /\ RowsOK'
  <1> DEFINE new == Refunded(Rows(Covered), "refunded", req[r].share)
  <1>1. ASSUME NEW k \in RowId
        PROVE  new[k] = row[k] \/ (new[k] \in Row /\ row[k].st # "none" /\ new[k].st = "refunded")
    <2> DEFINE amount == row[k].refunded + req[r].share
    <2> DEFINE x == [row[k] EXCEPT !.st = "refunded", !.refunded = amount]
    <2>1. new[k] = row[k] \/ (row[k].st # "none" /\ new[k] = x)
      BY DEF Refunded, Rows, Covered
    <2>2. row[k] \in Row /\ "refunded" \in PayStatus /\ amount \in Nat
      BY DEF RowsOK, PayStatus, Row
    <2> HIDE DEF amount
    <2>3. x \in Row /\ x.st = "refunded"
      BY <2>2 DEF Row
    <2> HIDE DEF x, new
    <2> QED BY <2>1, <2>3
  <1>2. row' = [k \in RowId |-> new[k]] \/ UNCHANGED row
    BY DEF FinishCancel, Refunded
  <1> HIDE DEF new
  <1> QED BY <1>1, <1>2, SomeForward, Untouched

\* The administrator's refund is added to every row, and the rows that are whole are
\* refunded.
LEMMA AdminForward ==
    ASSUME RowsOK, NEW r \in Req, req[r].share \in Nat, AdminPay(r)
    PROVE  Forward /\ RowsOK'
  <1> DEFINE share == req[r].share
             whole == {k \in Rows(PayStatus) :
                         req[r].kind = "adminCancel" \/ row[k].refunded + share >= Total}
             new == [k \in RowId |-> IF row[k].st = "none" THEN row[k]
                       ELSE [row[k] EXCEPT !.refunded = row[k].refunded + share,
                               !.st = IF k \in whole THEN "refunded" ELSE row[k].st]]
  <1>1. ASSUME NEW k \in RowId
        PROVE  \/ new[k] = row[k]
               \/ /\ new[k] \in Row /\ row[k].st # "none" /\ new[k].st # "none"
                  /\ (new[k].st = row[k].st \/ new[k].st = "refunded")
    <2> DEFINE amount == row[k].refunded + share
               st == IF k \in whole THEN "refunded" ELSE row[k].st
    <2> DEFINE x == [row[k] EXCEPT !.refunded = amount, !.st = st]
    <2>1. new[k] = row[k] \/ (row[k].st # "none" /\ new[k] = x)
      OBVIOUS
    <2>2. row[k] \in Row /\ amount \in Nat /\ (row[k].st # "none" => row[k].st \in PayStatus)
      BY DEF RowsOK, Row
    <2>3. (st = row[k].st \/ st = "refunded") /\ "refunded" \in PayStatus /\ "none" \notin PayStatus
      BY DEF PayStatus
    <2> HIDE DEF st, amount
    <2>4. row[k].st # "none" => x \in Row /\ x.st = st
      BY <2>2, <2>3 DEF Row
    <2> HIDE DEF x, new
    <2> QED BY <2>1, <2>2, <2>3, <2>4
  <1>2. row' = [k \in RowId |-> new[k]]
    BY DEF AdminPay
  <1> HIDE DEF new
  <1> QED BY <1>1, <1>2, SomeForward

\* Checkout writes the intent into the pending row, or a row of its own.
LEMMA AttachForward ==
    ASSUME RowsOK, NEW r \in Req, req[r].intent \in Intent \cup {None}, AttachIntent(r)
    PROVE  Forward /\ RowsOK'
  <1> DEFINE pending == Rows({"pending"})
             i == req[r].intent
             new == [k \in RowId |-> IF k \in pending THEN [row[k] EXCEPT !.ref = i] ELSE row[k]]
  <1>1. CASE row' = new
    <2>1. ASSUME NEW k \in RowId
          PROVE  new[k] = row[k] \/ (new[k] \in Row /\ row[k].st # "none" /\ new[k].st = row[k].st)
      <3>1. new[k] = row[k] \/ (row[k].st # "none" /\ new[k] = [row[k] EXCEPT !.ref = i])
        BY DEF Rows
      <3>2. row[k] \in Row
        BY DEF RowsOK
      <3>3. [row[k] EXCEPT !.ref = i] \in Row /\ [row[k] EXCEPT !.ref = i].st = row[k].st
        BY <3>2 DEF Row
      <3> QED BY <3>1, <3>3
    <2>2. row' = [k \in RowId |-> new[k]]
      BY <1>1
    <2> HIDE DEF new
    <2> QED BY <2>1, <2>2, SomeForward
  <1>2. CASE RecordStripePayment(i, "pending")
    BY <1>2, RecordForward
  <1>3. CASE UNCHANGED row
    BY <1>3, Untouched
  <1>4. row' = new \/ RecordStripePayment(i, "pending") \/ UNCHANGED row
    BY Zenon DEF AttachIntent
  <1> QED BY <1>1, <1>2, <1>3, <1>4

\* The webhook records an event.
LEMMA EventForward ==
    ASSUME RowsOK, NEW r \in Req, req[r].event \in Event, RecordEvent(r)
    PROVE  Forward /\ RowsOK'
  <1> DEFINE e == req[r].event
  <1>0. e.intent \in Intent /\ e.amount \in Nat
    BY MoneyAssumption DEF Event, Amount
  <1>1. CASE e.type = "refunded"
    <2>1. MarkPaymentRefunded(e.intent, e.amount)
      BY <1>1 DEF RecordEvent
    <2> QED BY <1>0, <2>1, MarkForward
  <1>2. CASE e.type # "refunded"
    <2>1. RecordStripePayment(e.intent, PaymentStatus(e.type))
      BY <1>2 DEF RecordEvent
    <2>2. PaymentStatus(e.type) \in {"paid", "authorized", "failed", "pending"}
      BY DEF PaymentStatus
    <2> QED BY <1>0, <2>1, <2>2, RecordForward
  <1> QED BY <1>1, <1>2

\* What was held counts as paid when the stay is over.
LEMMA SettleForward ==
    ASSUME RowsOK, NEW r \in Req, SettlePayment(r)
    PROVE  Forward /\ RowsOK'
  <1> DEFINE new == [k \in RowId |-> IF row[k].st = "authorized"
                                     THEN [row[k] EXCEPT !.st = "paid"] ELSE row[k]]
  <1>1. ASSUME NEW k \in RowId
        PROVE  \/ new[k] = row[k]
               \/ new[k] \in Row /\ row[k].st = "authorized" /\ new[k].st = "paid"
    <2>1. CASE row[k].st = "authorized"
      <3>1. new[k] = [row[k] EXCEPT !.st = "paid"]
        BY <2>1
      <3>2. row[k] \in Row /\ "paid" \in PayStatus
        BY DEF RowsOK, PayStatus
      <3>3. new[k] \in Row /\ new[k].st = "paid"
        BY <3>1, <3>2 DEF Row
      <3> HIDE DEF new
      <3> QED BY <2>1, <3>3
    <2>2. CASE row[k].st # "authorized"
      BY <2>2
    <2> QED BY <2>1, <2>2
  <1>2. row' = [k \in RowId |-> new[k]]
    BY DEF SettlePayment
  <1> HIDE DEF new
  <1> QED BY <1>1, <1>2, SomeForward

-------------------------------------------------------------------------------
(* The requests on the payment, and the types of its state                 *)

\* A request that asks Stripe has an intent, one that handles an event has one.
Equipped(q) == /\ q.pc \in {"stripe", "attach", "close"} => q.intent \in Intent
               /\ q.pc \in {"reverse", "record", "instant"} => q.event \in Event

\* The inductive invariant.
MoneyInv == TypeOK /\ RowsOK /\ \A r \in Req : Equipped(req[r])

\* What does not change with the requests and the rows.
RestOK ==
    /\ status \in Status /\ unpaidEnd \in BOOLEAN
    /\ listing \in [manual : BOOLEAN, rebooked : BOOLEAN]
    /\ intent \in [Intent -> IntentState] /\ keys \subseteq Key /\ mail \subseteq Event
    /\ cancelRow \in Amount \cup {None} /\ granted \in Nat
ReqsOK == req \in [Req -> Request] /\ \A r \in Req : Equipped(req[r])

\* The invariant, part by part.
LEMMA MoneyParts == ASSUME MoneyInv PROVE RestOK /\ RowsOK /\ ReqsOK
  BY DEF MoneyInv, TypeOK, RestOK, RowsOK, ReqsOK

\* The same in the next state.
LEMMA MoneyNext == ASSUME RestOK', RowsOK', ReqsOK' PROVE MoneyInv'
  BY DEF MoneyInv, TypeOK, RestOK, RowsOK, ReqsOK

\* The amounts are numbers and reach from nothing to the whole.
LEMMA Amounts == /\ Total \in Nat \ {0} /\ \A a \in Amount : a \in Nat /\ a <= Total
                 /\ 0 \in Amount /\ Total \in Amount
                 /\ \A a \in Nat : a <= Total => a \in Amount
  BY MoneyAssumption DEF Amount

\* A request is put.
LEMMA PutReq ==
    ASSUME ReqsOK, NEW r \in Req, NEW x \in Request, Equipped(x), req' = [req EXCEPT ![r] = x]
    PROVE  ReqsOK'
  <1>1. req' \in [Req -> Request]
    BY DEF ReqsOK
  <1>2. \A p \in Req : req'[p] = IF p = r THEN x ELSE req[p]
    BY DEF ReqsOK
  <1> QED BY <1>1, <1>2 DEF ReqsOK, Equipped

\* A request that rests.
LEMMA IdleIs == Idle \in Request /\ Equipped(Idle) /\ Idle.pc = "idle"
  <1>1. "idle" \in Step /\ "pending" \in Status /\ 0 \in Amount
    BY Amounts DEF Step, Status, Live
  <1> QED BY <1>1 DEF Idle, Request, Equipped

\* Requests that stay as they are.
LEMMA ReqStays == ASSUME ReqsOK, UNCHANGED req PROVE ReqsOK'
  BY DEF ReqsOK, Equipped

\* A request ends, or stays.
LEMMA ReqDone == ASSUME ReqsOK, NEW r \in Req, Done(r) \/ UNCHANGED req PROVE ReqsOK'
  <1>1. CASE Done(r)
    BY <1>1, IdleIs, PutReq DEF Done
  <1>2. CASE UNCHANGED req
    BY <1>2 DEF ReqsOK, Equipped
  <1> QED BY <1>1, <1>2

\* A request goes on at a point that asks for nothing more than it has.
LEMMA ReqGoes ==
    ASSUME ReqsOK, NEW r \in Req, NEW pc \in Step, Goto(r, pc),
           Equipped([req[r] EXCEPT !.pc = pc])
    PROVE  ReqsOK'
  <1>1. PICK q \in Request : q = req[r]
    BY DEF ReqsOK
  <1>2. PICK x : x = [q EXCEPT !.pc = pc]
    OBVIOUS
  <1>3. x \in Request
    BY <1>2 DEF Request
  <1>4. req' = [req EXCEPT ![r] = x]
    BY <1>1, <1>2 DEF Goto, ReqsOK
  <1> QED BY <1>1, <1>2, <1>3, <1>4, PutReq

\* A point at which a request has nothing to rely on.
LEMMA Easy ==
    ASSUME NEW q \in Request, NEW pc, pc \notin {"stripe", "attach", "close", "reverse", "record", "instant"}
    PROVE  Equipped([q EXCEPT !.pc = pc])
  BY DEF Request, Equipped

\* The lesser of what a request asks for and what is left is an amount.
LEMMA ShareIs ==
    ASSUME NEW share \in Amount, NEW back \in Nat
    PROVE  (IF Total - back <= 0 THEN 0 ELSE Min({share, Total - back})) \in Amount
  <1>1. CASE Total - back <= 0
    BY <1>1, Amounts
  <1>2. CASE ~(Total - back <= 0)
    <2>1. PICK left \in Amount : left = Total - back
      BY <1>2, Amounts
    <2>2. {share, left} \subseteq Nat
      BY Amounts
    <2>3. Min({share, left}) \in {share, left}
      BY <2>2, MinIn
    <2> QED BY <1>2, <2>1, <2>3
  <1> QED BY <1>1, <1>2

\* A request begins.
LEMMA ReqBegins ==
    ASSUME RestOK, ReqsOK, NEW r \in Req, NEW kind \in HandlerNames, NEW pc \in Step, NEW share \in Amount,
           Begin(r, kind, pc, share),
           pc \notin {"stripe", "attach", "close", "reverse", "record", "instant"}
    PROVE  ReqsOK'
  <1>1. PICK x : x = [Idle EXCEPT !.pc = pc, !.kind = kind, !.seen = status, !.share = share]
    OBVIOUS
  <1>2. x \in Request /\ x.pc = pc
    BY <1>1, IdleIs DEF Request, RestOK
  <1>3. Equipped(x)
    BY <1>2 DEF Equipped
  <1>4. req' = [req EXCEPT ![r] = x]
    BY <1>1 DEF Begin
  <1> QED BY <1>2, <1>3, <1>4, PutReq

\* The latest row is a row.
LEMMA LastIs == ASSUME RowsOK PROVE LastRow \in Row
  <1>1. 1 \in RowId
    BY MoneyAssumption DEF RowId
  <1>2. 1 \in Rows(PayStatus)
    BY <1>1 DEF RowsOK, Rows, Row
  <1>3. Max(Rows(PayStatus)) \in RowId
    BY <1>2, MaxIn DEF Rows
  <1> QED BY <1>3 DEF LastRow, RowsOK

\* The intent of the latest covered row, if any.
LEMMA LiveIs == ASSUME RowsOK PROVE LiveIntent \in Intent \cup {None}
  <1>1. CASE IsCovered
    <2>1. Max(Rows(Covered)) \in RowId
      BY <1>1, MaxIn DEF IsCovered, Rows
    <2> QED BY <1>1, <2>1 DEF LiveIntent, RowsOK, Row
  <1>2. CASE ~IsCovered
    BY <1>2 DEF LiveIntent
  <1> QED BY <1>1, <1>2

\* A handler starts.
LEMMA StartTypes == ASSUME MoneyInv, NEW r \in Req, Start(r) PROVE MoneyInv'
  <1>0. RestOK /\ RowsOK /\ ReqsOK
    BY MoneyParts
  <1>1. RestOK' /\ RowsOK'
    <2>1. UNCHANGED <<status, listing, row, stripeVars, cancelRow, granted, unpaidEnd>>
      BY Zenon DEF Start
    <2> QED BY <1>0, <2>1 DEF RestOK, RowsOK, stripeVars
  <1>2. /\ {"confirm", "decline", "cancel", "adminCancel", "adminRefund", "expire", "releaseOwn"}
                \subseteq HandlerNames
        /\ {"look", "claim", "drop"} \subseteq Step /\ 0 \in Amount /\ Total \in Amount
    BY Amounts DEF HandlerNames, Step
  <1>3. ASSUME StartConfirm(r) \/ StartDecline(r) PROVE ReqsOK'
    BY <1>0, <1>2, <1>3, ReqBegins DEF StartConfirm, StartDecline
  <1>8. ASSUME NEW kind \in {"expire", "releaseOwn"}, FindUnpaid(r, kind) PROVE ReqsOK'
    BY <1>0, <1>2, <1>8, ReqBegins DEF FindUnpaid
  <1>4. ASSUME NEW share \in Amount, StartCancel(r, share) PROVE ReqsOK'
    <2>1. LastRow.refunded \in Nat
      BY <1>0, LastIs DEF Row
    <2>2. PICK given \in Amount :
              given = IF Total - LastRow.refunded <= 0 THEN 0 ELSE Min({share, Total - LastRow.refunded})
      BY <2>1, ShareIs
    <2>3. Begin(r, "cancel", "claim", given)
      BY <1>4, <2>2 DEF StartCancel
    <2> QED BY <1>0, <1>2, <2>3, ReqBegins
  <1>5. ASSUME NEW share \in Amount, StartAdminCancel(r, share) PROVE ReqsOK'
    <2>1. granted \in Nat
      BY <1>0 DEF RestOK
    <2>2. PICK given \in Amount :
              given = IF Total - granted <= 0 THEN 0 ELSE Min({share, Total - granted})
      BY <2>1, ShareIs
    <2>3. Begin(r, "adminCancel", "look", given)
      BY <1>5, <2>2 DEF StartAdminCancel
    <2> QED BY <1>0, <1>2, <2>3, ReqBegins
  <1>6. ASSUME NEW share \in Amount, StartAdminRefund(r, share) PROVE ReqsOK'
    BY <1>0, <1>2, <1>6, ReqBegins DEF StartAdminRefund
  <1>7. ReqsOK'
    BY <1>3, <1>4, <1>5, <1>6, <1>8 DEF Start
  <1> QED BY <1>1, <1>7, MoneyNext

\* A claim takes the booking off the calendar.
LEMMA ClaimTypes == ASSUME MoneyInv, NEW r \in Req, Claim(r) PROVE MoneyInv'
  <1>0. RestOK /\ RowsOK /\ ReqsOK
    BY MoneyParts
  <1>1. "declined" \in Status /\ "cancelled" \in Status /\ "look" \in Step /\ IsCovered \in BOOLEAN
    BY DEF Status, Step, IsCovered
  <1>2. RestOK' /\ RowsOK'
    BY <1>0, <1>1 DEF Claim, RestOK, RowsOK, stripeVars
  <1>3. req[r] \in Request
    BY <1>0 DEF ReqsOK
  <1>4. ReqsOK'
    <2>1. Goto(r, "look") \/ Done(r)
      BY Zenon DEF Claim
    <2> QED BY <1>0, <1>1, <1>3, <2>1, Easy, ReqGoes, ReqDone
  <1> QED BY <1>2, <1>4, MoneyNext

\* Where a request goes on after Stripe has answered needs nothing of it.
LEMMA AfterIs ==
    ASSUME NEW kind
    PROVE  AfterStripe(kind) \in {"finish", "decide", "adminClose", "adminGrant", "idle"}
  BY DEF AfterStripe

\* A request reads the payment row and the intent.
LEMMA LookTypes == ASSUME MoneyInv, NEW r \in Req, Look(r) PROVE MoneyInv'
  <1>0. RestOK /\ RowsOK /\ ReqsOK
    BY MoneyParts
  <1>1. RestOK' /\ RowsOK'
    BY <1>0 DEF Look, RestOK, RowsOK, stripeVars
  <1>2. PICK i \in Intent \cup {None} : i = LiveIntent
    BY <1>0, LiveIs
  <1>3. PICK call : call = Call(r, i)
    OBVIOUS
  <1>4. PICK q \in Request : q = req[r]
    BY <1>0 DEF ReqsOK
  <1>5. CASE call = "none"
    <2>1. PICK after : after = AfterStripe(q.kind)
      OBVIOUS
    <2>2. req' = [req EXCEPT ![r] = IF after = "idle" THEN Idle ELSE [q EXCEPT !.pc = after]]
      BY <1>2, <1>3, <1>4, <1>5, <2>1 DEF Look, ReqsOK
    <2>3. CASE after = "idle"
      <3>1. Done(r)
        BY <2>2, <2>3 DEF Done
      <3> QED BY <1>0, <1>1, <3>1, ReqDone, MoneyNext
    <2>4. CASE after # "idle"
      <3>1. after \in {"finish", "decide", "adminClose", "adminGrant"} /\ after \in Step
        BY <2>1, <2>4, AfterIs DEF Step
      <3>2. Goto(r, after)
        BY <1>4, <2>2, <2>4 DEF Goto, ReqsOK
      <3>3. Equipped([req[r] EXCEPT !.pc = after])
        BY <1>4, <3>1, Easy
      <3>4. ReqsOK'
        BY <1>0, <3>1, <3>2, <3>3, ReqGoes
      <3> QED BY <1>1, <3>4, MoneyNext
    <2> QED BY <2>3, <2>4
  <1>6. CASE call # "none"
    <2>1. i \in Intent /\ call \in {"capture", "cancel", "refund"}
      <3>1. i # None
        BY <1>3, <1>6 DEF Call
      <3>2. call \in {"capture", "cancel", "refund", "none"}
        BY <1>3, Zenon DEF Call
      <3> QED BY <1>2, <1>6, <3>1, <3>2
    <2>2. Left(i) \in Amount
      <3>1. intent[i].refunded \in Amount
        BY <1>0, <2>1 DEF RestOK, IntentState
      <3>2. PICK back \in Nat : back = intent[i].refunded /\ back <= Total
        BY <3>1, Amounts
      <3>3. Total - back \in Amount
        BY <3>2, Amounts
      <3> QED BY <3>2, <3>3, Amounts DEF Left
    <2>3. PICK ask \in Amount : ask = IF call = "refund" THEN Min({q.share, Left(i)}) ELSE 0
      <3>1. q.share \in Amount
        BY DEF Request
      <3>2. {q.share, Left(i)} \subseteq Nat
        BY <2>2, <3>1, Amounts
      <3>3. Min({q.share, Left(i)}) \in Amount
        BY <2>2, <3>1, <3>2, MinIn
      <3> QED BY <3>3, Amounts
    <2>4. PICK left \in Amount : left = Left(i)
      BY <2>2
    <2>5. PICK x : x = [q EXCEPT !.pc = "stripe", !.call = call, !.intent = i, !.left = left, !.ask = ask]
      OBVIOUS
    <2>6. req' = [req EXCEPT ![r] = x]
      BY <1>2, <1>3, <1>4, <1>6, <2>3, <2>4, <2>5 DEF Look, ReqsOK
    <2>7. x \in Request /\ x.pc = "stripe" /\ x.intent = i
      BY <2>1, <2>5 DEF Request, Step
    <2>8. Equipped(x)
      BY <2>1, <2>7 DEF Equipped
    <2>9. ReqsOK'
      BY <1>0, <2>6, <2>7, <2>8, PutReq
    <2> QED BY <1>1, <2>9, MoneyNext
  <1> QED BY <1>5, <1>6

\* A call to Stripe that takes effect leaves intents, keys and events of their types.
LEMMA StripeTypes ==
    ASSUME RestOK, NEW r \in Req, req[r] \in Request, req[r].intent \in Intent, StripeDoes(r)
    PROVE  intent' \in [Intent -> IntentState] /\ keys' \subseteq Key /\ mail' \subseteq Event
  <1>1. PICK q \in Request : q = req[r] /\ q.intent \in Intent
    OBVIOUS
  <1>2. PICK i \in Intent : i = q.intent
    BY <1>1
  <1>3. intent[i] \in IntentState /\ intent \in [Intent -> IntentState]
    BY DEF RestOK
  <1>4. CASE q.call = "capture"
    <2>1. StripeCapture(i)
      BY <1>1, <1>2, <1>4 DEF StripeDoes
    <2>2. PICK x : x = [intent[i] EXCEPT !.st = "succeeded"]
      OBVIOUS
    <2>3. x \in IntentState /\ intent' = [intent EXCEPT ![i] = x]
      BY <1>3, <2>1, <2>2 DEF StripeCapture, IntentState
    <2>4. PICK e : e = [type |-> "succeeded", intent |-> i, amount |-> Total]
      OBVIOUS
    <2>5. e \in Event
      BY <2>4, Amounts DEF Event
    <2>6. mail' \subseteq mail \cup {e} /\ UNCHANGED keys
      BY <2>1, <2>4 DEF StripeCapture
    <2> QED BY <1>3, <2>3, <2>5, <2>6 DEF RestOK
  <1>5. CASE q.call = "cancel"
    <2>1. StripeCancel(i)
      BY <1>1, <1>2, <1>5 DEF StripeDoes
    <2>2. PICK x : x = [intent[i] EXCEPT !.st = "canceled"]
      OBVIOUS
    <2>3. x \in IntentState /\ intent' = [intent EXCEPT ![i] = x] /\ UNCHANGED <<keys, mail>>
      BY <1>3, <2>1, <2>2 DEF StripeCancel, IntentState
    <2> QED BY <1>3, <2>3 DEF RestOK
  <1>6. CASE q.call \notin {"capture", "cancel"}
    <2>1. PICK k : k = [intent |-> i, left |-> q.left, ask |-> q.ask]
      OBVIOUS
    <2>2. k \in Key /\ q.ask \in Amount /\ k.intent = i
      BY <2>1 DEF Key, Request
    <2>3. StripeRefund(k, q.ask)
      BY <1>1, <1>2, <1>6, <2>1 DEF StripeDoes
    <2>4. CASE UNCHANGED stripeVars
      BY <2>4 DEF stripeVars, RestOK
    <2>5. CASE ~UNCHANGED stripeVars
      <3>1. /\ 0 < q.ask /\ q.ask <= Left(i)
            /\ intent' = [intent EXCEPT ![i].refunded = intent[i].refunded + q.ask]
            /\ keys' = keys \cup {k}
            /\ mail' = mail \cup {[type |-> "refunded", intent |-> i,
                                   amount |-> intent[i].refunded + q.ask]}
        BY <2>2, <2>3, <2>5 DEF StripeRefund
      <3>2. PICK back \in Amount : back = intent[i].refunded + q.ask
        <4>1. intent[i].refunded \in Amount /\ intent[i].refunded \in Nat /\ q.ask \in Nat
          BY <1>3, <2>2, Amounts DEF IntentState
        <4>2. intent[i].refunded + q.ask <= Total
          <5>1. Left(i) = 0 \/ Left(i) = Total - intent[i].refunded
            BY DEF Left
          <5> QED BY <3>1, <4>1, <5>1, Amounts
        <4> QED BY <4>1, <4>2, Amounts
      <3>3. PICK x : x = [intent[i] EXCEPT !.refunded = back]
        OBVIOUS
      <3>4. x \in IntentState /\ intent' = [intent EXCEPT ![i] = x]
        BY <1>3, <3>1, <3>2, <3>3 DEF IntentState
      <3>5. PICK e : e = [type |-> "refunded", intent |-> i, amount |-> back]
        OBVIOUS
      <3>6. e \in Event /\ mail' = mail \cup {e}
        BY <3>1, <3>2, <3>5 DEF Event
      <3> QED BY <1>3, <2>2, <3>1, <3>4, <3>6 DEF RestOK
    <2> QED BY <2>4, <2>5
  <1> QED BY <1>4, <1>5, <1>6

\* What a request keeps of itself when Stripe has answered, or thrown.
LEMMA Kept ==
    ASSUME NEW q \in Request, NEW pc \in Step, NEW share \in Amount, NEW seen \in Status, NEW x,
           pc \notin {"stripe", "attach", "close", "reverse", "record", "instant"},
           x = [Idle EXCEPT !.pc = pc, !.kind = q.kind, !.seen = seen, !.share = share]
    PROVE  x \in Request /\ Equipped(x)
  <1>1. x \in Request /\ x.pc = pc
    BY IdleIs DEF Request
  <1> QED BY <1>1 DEF Equipped

\* Stripe is called, and answers or not.
LEMMA CallTypes == ASSUME MoneyInv, NEW r \in Req, StripeCall(r) PROVE MoneyInv'
  <1>0. RestOK /\ RowsOK /\ ReqsOK
    BY MoneyParts
  <1>1. PICK q \in Request : q = req[r] /\ q.intent \in Intent
    BY <1>0 DEF ReqsOK, Equipped, StripeCall, At
  <1>2. RestOK' /\ RowsOK'
    <2>1. StripeDoes(r) \/ UNCHANGED stripeVars
      BY Zenon DEF StripeCall
    <2>2. intent' \in [Intent -> IntentState] /\ keys' \subseteq Key /\ mail' \subseteq Event
      <3>1. CASE StripeDoes(r)
        BY <1>0, <1>1, <3>1, StripeTypes
      <3>2. CASE UNCHANGED stripeVars
        BY <1>0, <3>2 DEF stripeVars, RestOK
      <3> QED BY <2>1, <3>1, <3>2
    <2>3. UNCHANGED <<status, listing, row, cancelRow, granted, unpaidEnd>>
      BY Zenon DEF StripeCall
    <2> QED BY <1>0, <2>2, <2>3 DEF RestOK, RowsOK
  <1>3. 0 \in Amount /\ "pending" \in Status /\ q.share \in Amount /\ q.seen \in Status
    BY Amounts DEF Status, Live, Request
  <1>4. ASSUME Answered(r) PROVE ReqsOK'
    <2>1. PICK after : after = AfterStripe(q.kind)
      OBVIOUS
    <2>2. CASE after = "idle"
      <3>1. Done(r)
        BY <1>1, <1>4, <2>1, <2>2 DEF Done, Answered
      <3> QED BY <1>0, <3>1, ReqDone
    <2>3. CASE after # "idle"
      <3>1. after \in {"finish", "decide", "adminClose", "adminGrant"} /\ after \in Step
        BY <2>1, <2>3, AfterIs DEF Step
      <3>2. PICK x : x = [Idle EXCEPT !.pc = after, !.kind = q.kind, !.seen = q.seen, !.share = q.share]
        OBVIOUS
      <3>3. req' = [req EXCEPT ![r] = x]
        BY <1>1, <1>4, <2>1, <2>3, <3>2 DEF Answered
      <3>4. x \in Request /\ Equipped(x)
        BY <1>3, <3>1, <3>2, Kept
      <3> QED BY <1>0, <3>3, <3>4, PutReq
    <2> QED BY <2>2, <2>3
  <1>5. ASSUME Threw(r) PROVE ReqsOK'
    <2>1. CASE q.kind \in {"decline", "cancel"}
      <3>1. PICK x : x = [Idle EXCEPT !.pc = "unclaim", !.kind = q.kind, !.seen = q.seen]
        OBVIOUS
      <3>2. "unclaim" \in Step
        BY DEF Step
      <3>3. x \in Request /\ x.pc = "unclaim"
        BY <1>3, <3>1, <3>2, IdleIs DEF Request
      <3>4. x \in Request /\ Equipped(x)
        BY <3>3 DEF Equipped
      <3>5. req' = [req EXCEPT ![r] = x]
        BY <1>1, <1>5, <2>1, <3>1 DEF Threw
      <3> QED BY <1>0, <3>4, <3>5, PutReq
    <2>2. CASE q.kind \notin {"decline", "cancel"}
      <3>1. Done(r)
        BY <1>1, <1>5, <2>2 DEF Done, Threw
      <3> QED BY <1>0, <3>1, ReqDone
    <2> QED BY <2>1, <2>2
  <1>6. Answered(r) \/ Threw(r)
    BY Zenon DEF StripeCall
  <1> QED BY <1>2, <1>4, <1>5, <1>6, MoneyNext

\* What follows the call: the booking is restored, declined or cancelled.
LEMMA FinishTypes ==
    ASSUME MoneyInv, NEW r \in Req, Unclaim(r) \/ FinishDecline(r) \/ FinishCancel(r)
    PROVE  MoneyInv'
  <1>0. RestOK /\ RowsOK /\ ReqsOK
    BY MoneyParts
  <1>1. PICK q \in Request : q = req[r] /\ q.share \in Amount /\ q.share \in Nat /\ q.seen \in Status
    BY <1>0, Amounts DEF ReqsOK, Request
  <1>2. "cancelled" \in Status
    BY DEF Status
  <1>3. Done(r)
    BY Zenon DEF Unclaim, FinishDecline, FinishCancel
  <1>4. ReqsOK'
    BY <1>0, <1>3, ReqDone
  <1>5. RestOK'
    BY <1>0, <1>1, <1>2, Amounts DEF Unclaim, FinishDecline, FinishCancel, RestOK, stripeVars
  <1>6. RowsOK'
    <2>1. CASE Unclaim(r)
      BY <1>0, <2>1, Untouched DEF Unclaim
    <2> QED BY <1>0, <1>1, <2>1, DeclineForward, CancelForward
  <1> QED BY <1>4, <1>5, <1>6, MoneyNext

\* The host's decision and the administrator's statements.
LEMMA DecideTypes == ASSUME MoneyInv, NEW r \in Req, DecideStep(r) PROVE MoneyInv'
  <1>0. RestOK /\ RowsOK /\ ReqsOK
    BY MoneyParts
  <1>1. PICK q \in Request : q = req[r] /\ q.share \in Amount /\ q.share \in Nat
    BY <1>0, Amounts DEF ReqsOK, Request
  <1>2. {"confirmed", "cancelled"} \subseteq Status /\ {"adminNote", "adminGrant", "adminPay", "look"} \subseteq Step
    BY DEF Status, Live, Step
  <1>3. RestOK'
    <2>1. UNCHANGED <<listing, intent, keys, mail, unpaidEnd>>
      BY Zenon DEF DecideStep, DecideConfirm, AdminClose, AdminNote, AdminGrant, AdminPay, stripeVars
    <2>2. status' \in {status, "confirmed", "cancelled"}
      BY Zenon DEF DecideStep, DecideConfirm, AdminClose, AdminNote, AdminGrant, AdminPay
    <2>3. cancelRow' \in {cancelRow, req[r].share}
      BY Zenon DEF DecideStep, DecideConfirm, AdminClose, AdminNote, AdminGrant, AdminPay
    <2>4. granted' \in {granted, granted + req[r].share}
      BY Zenon DEF DecideStep, DecideConfirm, AdminClose, AdminNote, AdminGrant, AdminPay
    <2> QED BY <1>0, <1>1, <1>2, <2>1, <2>2, <2>3, <2>4 DEF RestOK
  <1>4. RowsOK'
    <2>1. CASE AdminPay(r)
      BY <1>0, <1>1, <2>1, AdminForward
    <2>2. CASE ~AdminPay(r)
      <3>1. UNCHANGED row
        BY <2>2, Zenon DEF DecideStep, DecideConfirm, AdminClose, AdminNote, AdminGrant
      <3> QED BY <1>0, <3>1, Untouched
    <2> QED BY <2>1, <2>2
  <1>5. ReqsOK'
    <2>1. PICK x : x = [Idle EXCEPT !.pc = "look", !.kind = "compensate", !.share = Total]
      OBVIOUS
    <2>2. x \in Request /\ Equipped(x)
      BY <1>2, <2>1, IdleIs, Amounts DEF Request, Equipped
    <2>3. \/ Done(r) \/ req' = [req EXCEPT ![r] = x]
          \/ \E pc \in {"adminNote", "adminGrant", "adminPay"} : Goto(r, pc)
      BY <2>1, Zenon DEF DecideStep, DecideConfirm, AdminClose, AdminNote, AdminGrant, AdminPay
    <2>4. \A pc \in {"adminNote", "adminGrant", "adminPay"} : Goto(r, pc) => ReqsOK'
      BY <1>0, <1>1, <1>2, Easy, ReqGoes
    <2> QED BY <1>0, <2>2, <2>3, <2>4, ReqDone, PutReq
  <1> QED BY <1>3, <1>4, <1>5, MoneyNext

\* Checkout.
LEMMA CheckoutTypes == ASSUME MoneyInv, NEW r \in Req, CheckoutStep(r) PROVE MoneyInv'
  <1>0. RestOK /\ RowsOK /\ ReqsOK
    BY MoneyParts
  <1>1. req[r] \in Request /\ req[r].intent \in Intent \cup {None}
    BY <1>0 DEF ReqsOK, Request
  <1>2. CASE StartCheckout(r)
    <2>1. Begin(r, "checkout", "create", 0) /\ "checkout" \in HandlerNames /\ "create" \in Step
      BY <1>2 DEF StartCheckout, HandlerNames, Step
    <2>2. ReqsOK'
      BY <1>0, <2>1, ReqBegins, Amounts
    <2>3. RestOK' /\ RowsOK'
      BY <1>0, <1>2 DEF StartCheckout, RestOK, RowsOK, stripeVars
    <2> QED BY <2>2, <2>3, MoneyNext
  <1>3. CASE CreateIntent(r)
    <2>1. PICK i \in Intent : /\ intent' = [intent EXCEPT ![i].st = "open"]
                              /\ req' = [req EXCEPT ![r].pc = "attach", ![r].intent = i]
      BY <1>3 DEF CreateIntent
    <2>2. PICK x : x = [intent[i] EXCEPT !.st = "open"]
      OBVIOUS
    <2>3. x \in IntentState /\ intent' = [intent EXCEPT ![i] = x]
      BY <1>0, <2>1, <2>2 DEF RestOK, IntentState
    <2>4. PICK q \in Request : q = req[r]
      BY <1>1
    <2>5. PICK y : y = [q EXCEPT !.pc = "attach", !.intent = i]
      OBVIOUS
    <2>6. y \in Request /\ y.pc = "attach" /\ y.intent = i
      BY <2>5 DEF Request, Step
    <2>7. req' = [req EXCEPT ![r] = y]
      BY <1>0, <2>1, <2>4, <2>5 DEF ReqsOK
    <2>8. Equipped(y)
      BY <2>6 DEF Equipped
    <2>9. ReqsOK'
      BY <1>0, <2>6, <2>7, <2>8, PutReq
    <2>10. RestOK' /\ RowsOK'
      BY <1>0, <1>3, <2>3 DEF CreateIntent, RestOK, RowsOK
    <2> QED BY <2>9, <2>10, MoneyNext
  <1>4. CASE AttachIntent(r)
    <2>1. RowsOK' /\ Done(r)
      BY <1>0, <1>1, <1>4, AttachForward DEF AttachIntent
    <2>2. RestOK'
      <3>1. UNCHANGED <<status, listing, stripeVars, cancelRow, granted, unpaidEnd>>
        BY <1>4, Zenon DEF AttachIntent
      <3> QED BY <1>0, <3>1 DEF RestOK, stripeVars
    <2> QED BY <1>0, <2>1, <2>2, ReqDone, MoneyNext
  <1> QED BY <1>2, <1>3, <1>4 DEF CheckoutStep

\* A webhook request takes an event.
LEMMA DeliverTypes == ASSUME MoneyInv, NEW r \in Req, NEW e \in mail, Deliver(r, e) PROVE MoneyInv'
  <1>0. RestOK /\ RowsOK /\ ReqsOK
    BY MoneyParts
  <1>1. PICK pc : pc = IF e.type \in {"succeeded", "capturable"} /\ status = "cancelled"
                       THEN "reverse" ELSE "record"
    OBVIOUS
  <1>2. pc \in Step /\ "webhook" \in HandlerNames /\ e \in Event /\ pc \in {"reverse", "record"}
    BY <1>0, <1>1 DEF Step, HandlerNames, RestOK
  <1>3. PICK x : x = [Idle EXCEPT !.pc = pc, !.kind = "webhook", !.event = e]
    OBVIOUS
  <1>4. x \in Request /\ x.pc = pc /\ x.event = e
    BY <1>2, <1>3, IdleIs DEF Request
  <1>5. Equipped(x)
    BY <1>2, <1>4 DEF Equipped
  <1>6. req' = [req EXCEPT ![r] = x]
    BY <1>1, <1>3 DEF Deliver
  <1>7. ReqsOK'
    BY <1>0, <1>4, <1>5, <1>6, PutReq
  <1>8. RestOK' /\ RowsOK'
    BY <1>0 DEF Deliver, RestOK, RowsOK, stripeVars
  <1> QED BY <1>7, <1>8, MoneyNext

\* A handled event goes, or stays.
LEMMA AckTypes == ASSUME RestOK, NEW e, Acknowledge(e) PROVE mail' \subseteq Event
  <1>1. mail' = mail \ {e} \/ mail' = mail
    BY DEF Acknowledge
  <1> QED BY <1>1 DEF RestOK

\* A payment that lands after the booking was cancelled is reversed.
LEMMA ReverseTypes == ASSUME MoneyInv, NEW r \in Req, Reverse(r) PROVE MoneyInv'
  <1>0. RestOK /\ RowsOK /\ ReqsOK
    BY MoneyParts
  <1>1. PICK e \in Event : e = req[r].event
    BY <1>0 DEF Reverse, At, ReqsOK, Equipped
  <1>2. PICK i \in Intent : i = e.intent
    BY DEF Event
  <1>3. PICK key : key = [intent |-> i, left |-> 0, ask |-> 0]
    OBVIOUS
  <1>4. key \in Key
    BY <1>3, Amounts DEF Key
  <1>5. PICK gone : gone = [type |-> "refunded", intent |-> i, amount |-> Total]
    OBVIOUS
  <1>6. gone \in Event
    BY <1>5, Amounts DEF Event
  <1>7. /\ \/ intent' = [intent EXCEPT ![i].st = "canceled"] /\ Acknowledge(e) /\ UNCHANGED keys
           \/ /\ intent' = [intent EXCEPT ![i].refunded = Total] /\ keys' = keys \cup {key}
              /\ mail' = (mail \ {e}) \cup {gone}
           \/ Acknowledge(e) /\ UNCHANGED <<intent, keys>>
           \/ UNCHANGED stripeVars
        /\ Done(r) /\ UNCHANGED <<status, listing, row, cancelRow, granted, unpaidEnd>>
    BY <1>1, <1>2, <1>3, <1>5, Zenon DEF Reverse
  <1>8. intent[i] \in IntentState /\ intent \in [Intent -> IntentState]
    BY <1>0 DEF RestOK
  <1>9. intent' \in [Intent -> IntentState] /\ keys' \subseteq Key /\ mail' \subseteq Event
    <2>1. CASE intent' = [intent EXCEPT ![i].st = "canceled"] /\ Acknowledge(e) /\ UNCHANGED keys
      <3>1. PICK x : x = [intent[i] EXCEPT !.st = "canceled"]
        OBVIOUS
      <3>2. x \in IntentState /\ intent' = [intent EXCEPT ![i] = x]
        BY <1>8, <2>1, <3>1 DEF IntentState
      <3>3. mail' \subseteq Event
        BY <1>0, <2>1, AckTypes
      <3> QED BY <1>0, <1>8, <2>1, <3>2, <3>3 DEF RestOK
    <2>2. CASE /\ intent' = [intent EXCEPT ![i].refunded = Total] /\ keys' = keys \cup {key}
               /\ mail' = (mail \ {e}) \cup {gone}
      <3>1. PICK x : x = [intent[i] EXCEPT !.refunded = Total]
        OBVIOUS
      <3>2. x \in IntentState /\ intent' = [intent EXCEPT ![i] = x]
        BY <1>8, <2>2, <3>1, Amounts DEF IntentState
      <3> QED BY <1>0, <1>4, <1>6, <1>8, <2>2, <3>2 DEF RestOK
    <2>3. CASE Acknowledge(e) /\ UNCHANGED <<intent, keys>>
      <3>1. mail' \subseteq Event
        BY <1>0, <2>3, AckTypes
      <3> QED BY <1>0, <2>3, <3>1 DEF RestOK
    <2>4. CASE UNCHANGED stripeVars
      BY <1>0, <2>4 DEF RestOK, stripeVars
    <2> QED BY <1>7, <2>1, <2>2, <2>3, <2>4
  <1>10. RestOK' /\ RowsOK'
    BY <1>0, <1>7, <1>9 DEF RestOK, RowsOK
  <1> QED BY <1>0, <1>7, <1>10, ReqDone, MoneyNext

\* The webhook.
LEMMA WebhookTypes == ASSUME MoneyInv, NEW r \in Req, WebhookStep(r) PROVE MoneyInv'
  <1>0. RestOK /\ RowsOK /\ ReqsOK
    BY MoneyParts
  <1>1. CASE RecordEvent(r)
    <2>1. PICK q \in Request : q = req[r] /\ q.event \in Event
      BY <1>0, <1>1 DEF RecordEvent, At, ReqsOK, Equipped
    <2>2. RowsOK'
      BY <1>0, <1>1, <2>1, EventForward
    <2>3. (Goto(r, "instant") /\ UNCHANGED mail) \/ (Done(r) /\ Acknowledge(q.event))
      BY <1>1, <2>1, Zenon DEF RecordEvent
    <2>4. ReqsOK'
      <3>1. ASSUME Goto(r, "instant") PROVE ReqsOK'
        <4>1. PICK x : x = [q EXCEPT !.pc = "instant"]
          OBVIOUS
        <4>2. x.pc = "instant" /\ x.event = q.event
          BY <4>1 DEF Request
        <4>3. Equipped(x)
          BY <2>1, <4>2 DEF Equipped
        <4>4. "instant" \in Step
          BY DEF Step
        <4> QED BY <1>0, <2>1, <3>1, <4>1, <4>3, <4>4, ReqGoes
      <3> QED BY <1>0, <2>3, <3>1, ReqDone
    <2>5. mail' \subseteq Event
      <3>1. CASE UNCHANGED mail
        BY <1>0, <3>1 DEF RestOK
      <3>2. CASE Acknowledge(q.event)
        BY <1>0, <3>2, AckTypes
      <3> QED BY <2>3, <3>1, <3>2
    <2>6. UNCHANGED <<status, listing, intent, keys, cancelRow, granted, unpaidEnd>>
      BY <1>1, Zenon DEF RecordEvent
    <2>7. RestOK'
      BY <1>0, <2>5, <2>6 DEF RestOK
    <2> QED BY <2>2, <2>4, <2>7, MoneyNext
  <1>2. CASE ConfirmInstantBook(r)
    <2>1. ReqsOK' /\ RowsOK'
      BY <1>0, <1>2, ReqDone DEF ConfirmInstantBook, RowsOK
    <2>2. mail' \subseteq Event
      BY <1>0, <1>2, AckTypes DEF ConfirmInstantBook
    <2>3. RestOK'
      BY <1>0, <1>2, <2>2 DEF ConfirmInstantBook, RestOK, Status, Live
    <2> QED BY <2>1, <2>3, MoneyNext
  <1> QED BY <1>1, <1>2, DeliverTypes, ReverseTypes DEF WebhookStep

\* The sweeps: an unpaid hold expires or is released, a stay ends.
LEMMA SweepTypes == ASSUME MoneyInv, NEW r \in Req, SweepStep(r) PROVE MoneyInv'
  <1>0. RestOK /\ RowsOK /\ ReqsOK
    BY MoneyParts
  <1>1. {"cancelled", "completed"} \subseteq Status /\ 0 \in Amount /\ IsCovered \in BOOLEAN
    BY Amounts DEF Status, Live, IsCovered
  <1>2. CASE ExpireUnpaid(r)
    <2>1. RowsOK'
      BY <1>0, <1>2, FailForward DEF ExpireUnpaid
    <2>2. RestOK'
      BY <1>0, <1>1, <1>2 DEF ExpireUnpaid, RestOK, stripeVars
    <2>3. ReqsOK'
      <3> DEFINE open == {k \in Rows({"pending"}) : row[k].ref # None}
      <3>1. CASE open = {}
        BY <1>0, <1>2, <3>1, ReqDone DEF ExpireUnpaid, Done
      <3>2. CASE open # {}
        <4>1. open \subseteq RowId
          BY DEF Rows
        <4>2. Max(open) \in open
          BY <3>2, <4>1, MaxIn
        <4>3. PICK i \in Intent : i = row[Max(open)].ref
          BY <1>0, <4>1, <4>2 DEF RowsOK, Row
        <4>4. PICK x : x = [Idle EXCEPT !.pc = "close", !.kind = "expire", !.intent = i]
          OBVIOUS
        <4>5. x \in Request /\ x.pc = "close" /\ x.intent = i
          BY <4>4, IdleIs DEF Request, Step, HandlerNames
        <4>6. Equipped(x)
          BY <4>5 DEF Equipped
        <4>7. req' = [req EXCEPT ![r] = x]
          BY <1>2, <3>2, <4>3, <4>4 DEF ExpireUnpaid
        <4> QED BY <1>0, <4>5, <4>6, <4>7, PutReq
      <3> QED BY <3>1, <3>2
    <2> QED BY <2>1, <2>2, <2>3, MoneyNext
  <1>3. CASE CloseIntent(r)
    <2>1. PICK i \in Intent : i = req[r].intent
      BY <1>0, <1>3 DEF CloseIntent, At, ReqsOK, Equipped
    <2>2. StripeCancel(i) \/ UNCHANGED stripeVars
      BY <1>3, <2>1 DEF CloseIntent
    <2>3. intent' \in [Intent -> IntentState] /\ UNCHANGED <<keys, mail>>
      <3>1. CASE StripeCancel(i)
        <4>1. PICK x : x = [intent[i] EXCEPT !.st = "canceled"]
          OBVIOUS
        <4>2. x \in IntentState /\ intent' = [intent EXCEPT ![i] = x] /\ UNCHANGED <<keys, mail>>
          BY <1>0, <3>1, <4>1 DEF StripeCancel, IntentState, RestOK
        <4> QED BY <1>0, <4>2 DEF RestOK
      <3>2. CASE UNCHANGED stripeVars
        BY <1>0, <3>2 DEF RestOK, stripeVars
      <3> QED BY <2>2, <3>1, <3>2
    <2>4. Done(r) /\ UNCHANGED <<status, listing, row, cancelRow, granted, unpaidEnd>>
      BY <1>3, Zenon DEF CloseIntent
    <2>5. RestOK' /\ RowsOK'
      BY <1>0, <2>3, <2>4 DEF RestOK, RowsOK
    <2> QED BY <1>0, <2>4, <2>5, ReqDone, MoneyNext
  <1>4. CASE ReleaseOwnHold(r)
    <2>1. RowsOK' /\ ReqsOK'
      BY <1>0, <1>4, FailForward, ReqDone DEF ReleaseOwnHold
    <2>2. RestOK'
      BY <1>0, <1>1, <1>4 DEF ReleaseOwnHold, RestOK, stripeVars
    <2> QED BY <2>1, <2>2, MoneyNext
  <1>5. CASE CompleteStay(r)
    <2>1. PICK x : x = [Idle EXCEPT !.pc = "settle", !.kind = "complete"]
      OBVIOUS
    <2>2. x \in Request /\ x.pc = "settle"
      BY <2>1, IdleIs DEF Request, Step, HandlerNames
    <2>3. Equipped(x)
      BY <2>2 DEF Equipped
    <2>4. ReqsOK'
      BY <1>0, <1>5, <2>1, <2>2, <2>3, PutReq DEF CompleteStay
    <2>5. RestOK' /\ RowsOK'
      BY <1>0, <1>1, <1>5 DEF CompleteStay, RestOK, RowsOK, stripeVars
    <2> QED BY <2>4, <2>5, MoneyNext
  <1>6. CASE SettlePayment(r)
    <2>1. RowsOK' /\ Done(r) /\ UNCHANGED <<status, listing, stripeVars, cancelRow, granted, unpaidEnd>>
      BY <1>0, <1>6, SettleForward DEF SettlePayment
    <2>2. RestOK'
      BY <1>0, <2>1 DEF RestOK, stripeVars
    <2> QED BY <1>0, <2>1, <2>2, ReqDone, MoneyNext
  <1>7. CASE DropNothing(r)
    <2>1. RestOK' /\ RowsOK'
      BY <1>0, <1>7 DEF DropNothing, RestOK, RowsOK, stripeVars
    <2> QED BY <1>0, <1>7, <2>1, ReqDone, MoneyNext DEF DropNothing
  <1> QED BY <1>2, <1>3, <1>4, <1>5, <1>6, <1>7 DEF SweepStep

\* The guest pays, or tries to; the nights are taken by somebody else.
LEMMA WorldTypes ==
    ASSUME MoneyInv, (\E i \in Intent : Pay(i) \/ PayFails(i)) \/ Rebook
    PROVE  MoneyInv'
  <1>0. RestOK /\ RowsOK /\ ReqsOK
    BY MoneyParts
  <1>1. ASSUME NEW i \in Intent, Pay(i) PROVE MoneyInv'
    <2>1. PICK st : st = IF listing.manual THEN "held" ELSE "succeeded"
      OBVIOUS
    <2>2. PICK x : x = [intent[i] EXCEPT !.st = st]
      OBVIOUS
    <2>3. x \in IntentState /\ intent' = [intent EXCEPT ![i] = x]
      BY <1>0, <1>1, <2>1, <2>2 DEF Pay, IntentState, RestOK
    <2>4. PICK type : type = IF listing.manual THEN "capturable" ELSE "succeeded"
      OBVIOUS
    <2>5. PICK e : e = [type |-> type, intent |-> i, amount |-> Total]
      OBVIOUS
    <2>6. e \in Event /\ mail' = mail \cup {e}
      BY <1>1, <2>4, <2>5, Amounts DEF Pay, Event
    <2>7. RestOK' /\ RowsOK'
      BY <1>0, <1>1, <2>3, <2>6 DEF Pay, RestOK, RowsOK
    <2> QED BY <1>0, <1>1, <2>7, ReqStays, MoneyNext DEF Pay
  <1>2. ASSUME NEW i \in Intent, PayFails(i) PROVE MoneyInv'
    <2>1. PICK e : e = [type |-> "failed", intent |-> i, amount |-> Total]
      OBVIOUS
    <2>2. e \in Event /\ mail' = mail \cup {e}
      BY <1>2, <2>1, Amounts DEF PayFails, Event
    <2>3. RestOK' /\ RowsOK'
      BY <1>0, <1>2, <2>2 DEF PayFails, RestOK, RowsOK
    <2> QED BY <1>0, <1>2, <2>3, ReqStays, MoneyNext DEF PayFails
  <1>3. ASSUME Rebook PROVE MoneyInv'
    <2>1. RestOK' /\ RowsOK'
      BY <1>0, <1>3 DEF Rebook, RestOK, RowsOK, stripeVars
    <2> QED BY <1>0, <1>3, <2>1, ReqStays, MoneyNext DEF Rebook
  <1> QED BY <1>1, <1>2, <1>3

\* Every step moves the rows forward; most leave them alone.
LEMMA StepForward == ASSUME MoneyInv, [Next]_vars PROVE Forward
  <1>0. RestOK /\ RowsOK /\ ReqsOK
    BY MoneyParts
  <1>1. ASSUME UNCHANGED row PROVE Forward
    BY <1>0, <1>1, Untouched
  <1>2. ASSUME NEW r \in Req, Start(r) \/ LoseRequest(r) PROVE UNCHANGED row
    BY <1>2 DEF Start, LoseRequest
  <1>3. ASSUME NEW r \in Req
        PROVE  /\ req[r].share \in Nat /\ req[r].intent \in Intent \cup {None}
               /\ req[r].pc = "record" => req[r].event \in Event
    BY <1>0, Amounts DEF ReqsOK, Request, Equipped
  <1>4. ASSUME NEW r \in Req, RefundStep(r) PROVE Forward
    <2>1. Claim(r) \/ Look(r) \/ StripeCall(r) \/ Unclaim(r) => UNCHANGED row
      BY Zenon DEF Claim, Look, StripeCall, Unclaim
    <2> QED BY <1>0, <1>1, <1>3, <1>4, <2>1, DeclineForward, CancelForward DEF RefundStep
  <1>5. ASSUME NEW r \in Req, DecideStep(r) PROVE Forward
    <2>1. DecideConfirm(r) \/ AdminClose(r) \/ AdminNote(r) \/ AdminGrant(r) => UNCHANGED row
      BY Zenon DEF DecideConfirm, AdminClose, AdminNote, AdminGrant
    <2> QED BY <1>0, <1>1, <1>3, <1>5, <2>1, AdminForward DEF DecideStep
  <1>6. ASSUME NEW r \in Req, CheckoutStep(r) PROVE Forward
    <2>1. StartCheckout(r) \/ CreateIntent(r) => UNCHANGED row
      BY Zenon DEF StartCheckout, CreateIntent
    <2> QED BY <1>0, <1>1, <1>3, <1>6, <2>1, AttachForward DEF CheckoutStep
  <1>7. ASSUME NEW r \in Req, WebhookStep(r) PROVE Forward
    <2>1. (\E e \in mail : Deliver(r, e)) \/ Reverse(r) \/ ConfirmInstantBook(r) => UNCHANGED row
      BY Zenon DEF Deliver, Reverse, ConfirmInstantBook
    <2>2. RecordEvent(r) => req[r].pc = "record"
      BY DEF RecordEvent, At
    <2> QED BY <1>0, <1>1, <1>3, <1>7, <2>1, <2>2, EventForward DEF WebhookStep
  <1>8. ASSUME NEW r \in Req, SweepStep(r) PROVE Forward
    <2>1. CloseIntent(r) \/ CompleteStay(r) \/ DropNothing(r) => UNCHANGED row
      BY Zenon DEF CloseIntent, CompleteStay, DropNothing
    <2>2. ExpireUnpaid(r) \/ ReleaseOwnHold(r) => row' = FailPending
      BY Zenon DEF ExpireUnpaid, ReleaseOwnHold
    <2> QED BY <1>0, <1>1, <1>8, <2>1, <2>2, FailForward, SettleForward DEF SweepStep
  <1>9. CASE (\E i \in Intent : Pay(i) \/ PayFails(i)) \/ Rebook \/ UNCHANGED vars
    <2>1. UNCHANGED row
      BY <1>9 DEF Pay, PayFails, Rebook, vars
    <2> QED BY <1>1, <2>1
  <1> QED BY <1>1, <1>2, <1>4, <1>5, <1>6, <1>7, <1>8, <1>9 DEF Next

\* Every step keeps to the types.
LEMMA StepTypes == ASSUME MoneyInv, [Next]_vars PROVE MoneyInv'
  <1>1. ASSUME NEW r \in Req, RefundStep(r) PROVE MoneyInv'
    BY <1>1, ClaimTypes, LookTypes, CallTypes, FinishTypes DEF RefundStep
  <1>2. ASSUME NEW r \in Req, LoseRequest(r) PROVE MoneyInv'
    <2>1. RestOK /\ RowsOK /\ ReqsOK
      BY MoneyParts
    <2>2. RestOK' /\ RowsOK' /\ Done(r)
      BY <1>2, <2>1 DEF LoseRequest, RestOK, RowsOK, stripeVars
    <2> QED BY <2>1, <2>2, ReqDone, MoneyNext
  <1>3. CASE UNCHANGED vars
    <2>1. RestOK /\ RowsOK /\ ReqsOK
      BY MoneyParts
    <2>2. RestOK' /\ RowsOK' /\ UNCHANGED req
      BY <1>3, <2>1 DEF vars, RestOK, RowsOK, stripeVars
    <2> QED BY <2>1, <2>2, ReqStays, MoneyNext
  <1> QED BY <1>1, <1>2, <1>3, StartTypes, DecideTypes, CheckoutTypes, WebhookTypes, SweepTypes, WorldTypes
          DEF Next

\* The first row is pending, the others are free.
LEMMA InitTypes == Init => MoneyInv
  <1> SUFFICES ASSUME Init PROVE MoneyInv
    OBVIOUS
  <1>1. {"pending"} \subseteq Status /\ 0 \in Amount /\ 1 \in RowId /\ Modes \subseteq BOOLEAN
    BY Amounts, MoneyAssumption DEF Status, Live, RowId
  <1>2. NoRow \in Row /\ [NoRow EXCEPT !.st = "pending"] \in Row /\ [NoRow EXCEPT !.st = "pending"].st = "pending"
    BY DEF NoRow, Row, PayStatus
  <1>3. RowsOK
    BY <1>1, <1>2 DEF Init, RowsOK
  <1>4. RestOK
    BY <1>1 DEF Init, RestOK, IntentState
  <1>5. ReqsOK
    BY IdleIs DEF Init, ReqsOK
  <1> QED BY <1>3, <1>4, <1>5 DEF MoneyInv, TypeOK, RestOK, RowsOK, ReqsOK

\* So it is when the booking has been paid.
LEMMA PaidTypes == PaidInit => MoneyInv
  <1> SUFFICES ASSUME PaidInit PROVE MoneyInv
    OBVIOUS
  <1>1. PICK i \in Intent, m \in Modes :
           /\ status = IF m THEN "pending" ELSE "confirmed"
           /\ listing = [manual |-> m, rebooked |-> FALSE] /\ unpaidEnd = FALSE
           /\ row = [k \in RowId |-> IF k = 1
                                     THEN [st |-> IF m THEN "authorized" ELSE "paid",
                                           ref |-> i, refunded |-> 0]
                                     ELSE NoRow]
           /\ intent = [j \in Intent |-> [st |-> IF j # i THEN "none"
                                                 ELSE IF m THEN "held" ELSE "succeeded",
                                          refunded |-> 0]]
           /\ keys = {}
           /\ mail \in IF "redelivery" \in Env
                       THEN SUBSET [type : {"failed"} \cup (IF m THEN {"capturable"} ELSE {}),
                                    intent : {i}, amount : {Total}]
                       ELSE {{}}
           /\ cancelRow = None /\ granted = 0
           /\ req = [r \in Req |-> Idle]
    BY DEF PaidInit
  <1>2. {"pending", "confirmed"} \subseteq Status /\ 0 \in Amount /\ Total \in Amount /\ 1 \in RowId /\ m \in BOOLEAN
    BY Amounts, MoneyAssumption DEF Status, Live, RowId
  <1>3. RowsOK
    <2>1. PICK st : st = IF m THEN "authorized" ELSE "paid"
      OBVIOUS
    <2>2. PICK x : x = [st |-> st, ref |-> i, refunded |-> 0]
      OBVIOUS
    <2>3. x \in Row /\ x.st # "none" /\ NoRow \in Row
      BY <2>1, <2>2 DEF NoRow, Row, PayStatus
    <2>4. row = [k \in RowId |-> IF k = 1 THEN x ELSE NoRow]
      BY <1>1, <2>1, <2>2
    <2> QED BY <1>2, <2>3, <2>4 DEF RowsOK
  <1>4. mail \subseteq Event
    <2>1. \A e \in mail : e \in [type : {"failed", "capturable"}, intent : {i}, amount : {Total}]
      BY <1>1
    <2> QED BY <1>2, <2>1 DEF Event
  <1>5. intent \in [Intent -> IntentState]
    BY <1>1, <1>2 DEF IntentState
  <1>6. RestOK
    BY <1>1, <1>2, <1>4, <1>5 DEF RestOK
  <1>7. ReqsOK
    BY <1>1, IdleIs DEF ReqsOK
  <1> QED BY <1>3, <1>6, <1>7 DEF MoneyInv, TypeOK, RestOK, RowsOK, ReqsOK

-------------------------------------------------------------------------------
(* Requests that overlap while Stripe may be down                          *)

\* The environment of these theorems: nothing but Stripe fails, every event is
\* delivered once, and administrators keep off the booking.
Calm == Env \subseteq {"stripeDown"} /\ Handlers \cap {"adminCancel", "adminRefund"} = {}

\* The booking has one intent.
OneOf(a) == \A i, j \in Intent : a[i].st # "none" /\ a[j].st # "none" => i = j

\* An intent that was made, that was paid, and whose money is with the guest.
Created(x)  == x.st # "none"
Charged(x)  == x.st \in {"held", "succeeded", "canceled"}
GoneBack(x) == x.st = "canceled" \/ (x.st = "succeeded" /\ x.refunded = Total)

\* What becomes of an intent: it is never unmade, and what was taken, let go or sent
\* back stays so.
Later(x, y) ==
    /\ Created(x) => Created(y)
    /\ Charged(x) => Charged(y)
    /\ x.st = "canceled" => y.st = "canceled"
    /\ x.st = "succeeded" => y.st = "succeeded" /\ x.refunded <= y.refunded
Grown(a, b) == \A i \in Intent : Later(a[i], b[i])

\* What an event reports, and what an idempotency key answers for, was done.
Honest(e, a) ==
    /\ e.type = "capturable" => Charged(a[e.intent]) /\ e.amount = Total
    /\ e.type = "succeeded" => a[e.intent].st = "succeeded"
    /\ e.type = "refunded" => a[e.intent].st = "succeeded" /\ e.amount <= a[e.intent].refunded
Sent(k, a) == a[k.intent].st = "succeeded" /\ a[k.intent].refunded + k.left >= Total + k.ask

\* The payment is recorded, perhaps as sent back; its rows were charged, and those
\* that are refunded have been.
Recorded(st)       == st \in {"authorized", "paid", "refunded"}
Told(rows)         == \E k \in RowId : Recorded(rows[k].st)
RowsFit(rows, a)   == \A k \in RowId : Recorded(rows[k].st) => rows[k].ref \in Intent /\ Charged(a[rows[k].ref])
RefundsFit(rows, a) == \A k \in RowId : rows[k].st = "refunded" => GoneBack(a[rows[k].ref])

\* A request that took the booking off the calendar and may still give it back, and
\* one that may write what it took it for; the booking is off for good.
Closing(q) == q.kind \in {"decline", "cancel"} /\ q.pc \in {"look", "stripe", "unclaim"}
Claims(q)  == Closing(q) \/ q.pc = "finish"
Shut(s, qs) == s \in {"declined", "cancelled"} /\ \A r \in Req : ~Closing(qs[r])

\* What a request may count on.
Fits(q, s, told, a) ==
    /\ q.pc \notin {"adminClose", "adminNote", "adminGrant", "adminPay"}
    /\ q.pc \in {"look", "stripe"} => q.kind \in {"confirm", "compensate", "decline", "cancel"}
    /\ q.pc \in {"claim", "unclaim", "finish"} => q.kind \in {"decline", "cancel"}
    /\ q.pc = "decide" => q.kind = "confirm"
    /\ q.kind \in {"decline", "confirm", "compensate"} \/ q.pc \in {"stripe", "unclaim"} => told
    /\ q.kind = "decline" /\ q.pc \in {"claim", "look"} => q.share = Total
    /\ q.pc = "claim" \/ Closing(q) => q.seen \in {"pending", "confirmed"}
    /\ q.kind \in {"decline", "cancel"} => q.pc \in {"claim", "look", "stripe", "unclaim", "finish"}
    /\ Claims(q) => s = IF q.kind = "decline" THEN "declined" ELSE "cancelled"
    /\ q.pc = "stripe" =>
           /\ q.call = "capture" <=> q.kind = "confirm"
           /\ q.call \notin {"capture", "cancel"} =>
                  /\ a[q.intent].st = "succeeded" /\ a[q.intent].refunded + q.left >= Total
                  /\ q.kind = "decline" => q.ask = q.left
    /\ q.pc \in {"reverse", "record", "instant"} => Honest(q.event, a)
    /\ q.pc = "instant" => q.event.type = "succeeded"

\* The money of a declined booking is with the guest once nobody is at it.
Repaid(s, qs, a) ==
    s = "declined" /\ Shut(s, qs) => \A i \in Intent : Created(a[i]) => GoneBack(a[i])
Marked(s, qs, rows, a) == s # "cancelled" \/ ~Shut(s, qs) => RefundsFit(rows, a)

BackInv ==
    /\ ~listing.rebooked
    /\ \A r \in Req : Fits(req[r], status, Told(row), intent)
    /\ \A p, r \in Req : Claims(req[p]) /\ Claims(req[r]) => p = r
    /\ \A e \in mail : Honest(e, intent)
    /\ \A k \in keys : Sent(k, intent)
    /\ RowsFit(row, intent) /\ Marked(status, req, row, intent)
    /\ status = "declined" => Told(row)
    /\ Repaid(status, req, intent)

\* What is sent back of an intent is an amount, and amounts are numbers.
LEMMA IntentIs ==
    ASSUME NEW x \in IntentState
    PROVE  x.refunded \in Nat /\ x.refunded <= Total /\ Total \in Nat
  <1>1. x.refunded \in Amount
    BY DEF IntentState
  <1> QED BY <1>1, Amounts

\* What was sent back stays with the guest.
LEMMA BackStays ==
    ASSUME NEW x \in IntentState, NEW y \in IntentState, Later(x, y), GoneBack(x)
    PROVE  GoneBack(y)
  <1>1. x.refunded \in Nat /\ y.refunded \in Nat /\ y.refunded <= Total /\ Total \in Nat
    BY IntentIs
  <1> QED BY <1>1 DEF Later, GoneBack

\* Intents that stay as they are.
LEMMA SameIsLater == ASSUME NEW a \in [Intent -> IntentState] PROVE Grown(a, a)
  <1>1. ASSUME NEW i \in Intent PROVE a[i].refunded <= a[i].refunded
    <2>1. a[i].refunded \in Nat
      BY IntentIs
    <2> QED BY <2>1
  <1> QED BY <1>1 DEF Grown, Later

\* One intent that is put.
LEMMA PutIntent ==
    ASSUME NEW a \in [Intent -> IntentState], NEW b, NEW i \in Intent, NEW x \in IntentState,
           b = [a EXCEPT ![i] = x], Later(a[i], x)
    PROVE  Grown(a, b) /\ b[i] = x /\ \A j \in Intent : j # i => b[j] = a[j]
  <1>1. Grown(a, a)
    BY SameIsLater
  <1> QED BY <1>1 DEF Grown

\* An event and a key stay true.
LEMMA HonestStays ==
    ASSUME NEW a \in [Intent -> IntentState], NEW b \in [Intent -> IntentState], Grown(a, b),
           NEW e \in Event, Honest(e, a)
    PROVE  Honest(e, b)
  <1>1. PICK x \in IntentState, y \in IntentState : x = a[e.intent] /\ y = b[e.intent] /\ Later(x, y)
    BY DEF Grown, Event
  <1>2. e.amount \in Nat /\ x.refunded \in Nat /\ y.refunded \in Nat
    BY Amounts DEF Event, IntentState
  <1> QED BY <1>1, <1>2 DEF Honest, Later

LEMMA SentStays ==
    ASSUME NEW a \in [Intent -> IntentState], NEW b \in [Intent -> IntentState], Grown(a, b),
           NEW k \in Key, Sent(k, a)
    PROVE  Sent(k, b)
  <1>1. PICK x \in IntentState, y \in IntentState : x = a[k.intent] /\ y = b[k.intent] /\ Later(x, y)
    BY DEF Grown, Key
  <1>2. /\ k.left \in Nat /\ k.ask \in Nat /\ x.refunded \in Nat /\ y.refunded \in Nat
        /\ Total \in Nat
    BY Amounts DEF Key, IntentState
  <1> QED BY <1>1, <1>2 DEF Sent, Later

\* What a request counts on stays so when the status does, or it claims nothing.
LEMMA FitsStays ==
    ASSUME NEW a \in [Intent -> IntentState], NEW b \in [Intent -> IntentState], Grown(a, b),
           NEW q \in Request, Equipped(q), NEW s, NEW t, s = t \/ ~Claims(q),
           NEW told, NEW still, told => still, Fits(q, s, told, a)
    PROVE  Fits(q, t, still, b)
  <1>1. q.pc \in {"reverse", "record", "instant"} => Honest(q.event, b)
    BY HonestStays DEF Fits, Equipped
  <1>2. q.pc = "stripe" =>
           /\ q.call = "capture" <=> q.kind = "confirm"
           /\ q.call \notin {"capture", "cancel"} =>
                  /\ b[q.intent].st = "succeeded" /\ b[q.intent].refunded + q.left >= Total
                  /\ q.kind = "decline" => q.ask = q.left
    <2> SUFFICES ASSUME q.pc = "stripe", q.call \notin {"capture", "cancel"}
                 PROVE  b[q.intent].st = "succeeded" /\ b[q.intent].refunded + q.left >= Total
      BY DEF Fits
    <2>1. PICK x \in IntentState, y \in IntentState : x = a[q.intent] /\ y = b[q.intent] /\ Later(x, y)
      BY DEF Grown, Equipped
    <2>2. q.left \in Nat /\ x.refunded \in Nat /\ y.refunded \in Nat /\ Total \in Nat
      BY Amounts DEF Request, IntentState
    <2>3. x.st = "succeeded" /\ x.refunded + q.left >= Total
      BY <2>1 DEF Fits
    <2> QED BY <2>1, <2>2, <2>3 DEF Later
  <1>3. Claims(q) => t = IF q.kind = "decline" THEN "declined" ELSE "cancelled"
    BY DEF Fits
  <1> QED BY <1>1, <1>2, <1>3 DEF Fits

\* The types, in the form the steps need them.
LEMMA BackTypes ==
    ASSUME MoneyInv
    PROVE  /\ intent \in [Intent -> IntentState] /\ mail \subseteq Event /\ keys \subseteq Key
           /\ row \in [RowId -> Row] /\ req \in [Req -> Request] /\ \A r \in Req : Equipped(req[r])
  BY DEF MoneyInv, TypeOK

\* The intents of the next state.
LEMMA BackTypesNext == ASSUME MoneyInv' PROVE intent' \in [Intent -> IntentState]
  BY DEF MoneyInv, TypeOK

\* A step of one request keeps the invariant when the request may count on what it
\* needs and what it writes fits.
LEMMA BackMoves ==
    ASSUME MoneyInv, MoneyInv', BackInv, NEW r \in Req, NEW x \in Request,
           req' = [req EXCEPT ![r] = x], UNCHANGED listing, Grown(intent, intent'),
           Fits(x, status', Told(row'), intent'), Told(row) => Told(row'),
           status' = status \/ \A p \in Req : p # r => ~Claims(req[p]),
           Claims(x) => Claims(req[r]) \/ \A p \in Req : ~Claims(req[p]),
           \A e \in mail' : e \in mail \/ Honest(e, intent'),
           \A k \in keys' : k \in keys \/ Sent(k, intent'),
           RowsFit(row', intent'), Marked(status', req', row', intent'),
           status' = "declined" => Told(row'), Repaid(status', req', intent')
    PROVE  BackInv'
  <1>0. /\ intent \in [Intent -> IntentState] /\ intent' \in [Intent -> IntentState]
        /\ mail \subseteq Event /\ keys \subseteq Key /\ req \in [Req -> Request]
        /\ \A p \in Req : Equipped(req[p])
    BY BackTypes, BackTypesNext
  <1>1. \A p \in Req : req'[p] = IF p = r THEN x ELSE req[p]
    BY <1>0
  <1>2. ASSUME NEW p \in Req, p # r PROVE Fits(req[p], status', Told(row'), intent')
    BY <1>0, <1>2, FitsStays DEF BackInv
  <1>3. \A p \in Req : Fits(req'[p], status', Told(row'), intent')
    BY <1>1, <1>2
  <1>4. \A p, q \in Req : Claims(req'[p]) /\ Claims(req'[q]) => p = q
    BY <1>1 DEF BackInv
  <1>5. \A e \in mail' : Honest(e, intent')
    BY <1>0, HonestStays DEF BackInv
  <1>6. \A k \in keys' : Sent(k, intent')
    BY <1>0, SentStays DEF BackInv
  <1>7. ~listing'.rebooked
    BY DEF BackInv
  <1> QED BY <1>3, <1>4, <1>5, <1>6, <1>7 DEF BackInv

\* Rows that stay keep fitting intents that grow.
LEMMA RowsStay ==
    ASSUME MoneyInv, MoneyInv', BackInv, UNCHANGED row, Grown(intent, intent')
    PROVE  /\ RowsFit(row', intent') /\ Told(row) = Told(row')
           /\ RefundsFit(row, intent) => RefundsFit(row', intent')
  <1>0. intent \in [Intent -> IntentState] /\ intent' \in [Intent -> IntentState]
    BY BackTypes, BackTypesNext
  <1>1. RowsFit(row, intent)
    BY DEF BackInv
  <1>2. RowsFit(row', intent')
    BY <1>1 DEF RowsFit, Grown, Later
  <1>3. ASSUME RefundsFit(row, intent), NEW k \in RowId, row[k].st = "refunded"
        PROVE  GoneBack(intent'[row[k].ref])
    <2>1. row[k].ref \in Intent
      BY <1>1, <1>3 DEF RowsFit, Recorded
    <2>2. PICK i \in Intent : i = row[k].ref
      BY <2>1
    <2>3. GoneBack(intent[i])
      BY <1>3, <2>2 DEF RefundsFit
    <2>4. Later(intent[i], intent'[i])
      BY DEF Grown
    <2>5. GoneBack(intent'[i])
      BY <1>0, <2>3, <2>4, BackStays
    <2> QED BY <2>2, <2>5
  <1> QED BY <1>2, <1>3 DEF RefundsFit

\* A booking stays shut, or open, with a request that closes as much as it did.
LEMMA ShutStays ==
    ASSUME req \in [Req -> Request], NEW r \in Req, NEW x, req' = [req EXCEPT ![r] = x],
           UNCHANGED status, Closing(x) <=> Closing(req[r])
    PROVE  Shut(status', req') = Shut(status, req)
  <1>1. \A p \in Req : req'[p] = IF p = r THEN x ELSE req[p]
    OBVIOUS
  <1>2. Shut(status', req') <=> Shut(status, req)
    BY <1>1 DEF Shut
  <1> QED BY <1>2 DEF Shut

\* A step of one request that leaves booking and rows alone and closes as much as before.
LEMMA BackAsks ==
    ASSUME MoneyInv, MoneyInv', BackInv, NEW r \in Req, NEW x \in Request,
           req' = [req EXCEPT ![r] = x], UNCHANGED <<status, listing, row>>,
           Grown(intent, intent'), Fits(x, status, Told(row), intent'),
           Closing(x) <=> Closing(req[r]), Claims(x) => Claims(req[r]),
           \A e \in mail' : e \in mail \/ Honest(e, intent'),
           \A k \in keys' : k \in keys \/ Sent(k, intent'),
           status = "declined" => \A i \in Intent : Created(intent'[i]) => Created(intent[i])
    PROVE  BackInv'
  <1>0. intent \in [Intent -> IntentState] /\ intent' \in [Intent -> IntentState] /\ req \in [Req -> Request]
    BY BackTypes, BackTypesNext
  <1>1. Shut(status', req') = Shut(status, req)
    BY <1>0, ShutStays
  <1>2. RowsFit(row', intent') /\ (RefundsFit(row, intent) => RefundsFit(row', intent'))
    BY RowsStay
  <1>3. Marked(status', req', row', intent')
    BY <1>1, <1>2 DEF BackInv, Marked
  <1>4. Repaid(status', req', intent')
    <2> SUFFICES ASSUME status = "declined", Shut(status, req), NEW i \in Intent, Created(intent'[i])
                 PROVE  GoneBack(intent'[i])
      BY <1>1 DEF Repaid
    <2>1. GoneBack(intent[i])
      BY DEF BackInv, Repaid
    <2> QED BY <1>0, <2>1, BackStays DEF Grown
  <1> QED BY <1>2, <1>3, <1>4, BackMoves DEF BackInv

\* The same of a request that closed and is about to write what it closed for: the
\* money of a declined booking is with the guest by then.
LEMMA BackEnds ==
    ASSUME MoneyInv, MoneyInv', BackInv, NEW r \in Req, NEW x \in Request,
           req' = [req EXCEPT ![r] = x], UNCHANGED <<status, listing, row>>,
           Grown(intent, intent'), Fits(x, status, Told(row), intent'),
           Closing(req[r]), ~Closing(x),
           \A e \in mail' : e \in mail \/ Honest(e, intent'),
           \A k \in keys' : k \in keys \/ Sent(k, intent'),
           status = "declined" => \A i \in Intent : Created(intent'[i]) => GoneBack(intent'[i])
    PROVE  BackInv'
  <1>1. RowsFit(row', intent') /\ (RefundsFit(row, intent) => RefundsFit(row', intent'))
    BY RowsStay
  <1>2. RefundsFit(row, intent)
    BY DEF BackInv, Marked, Shut
  <1>3. Marked(status', req', row', intent') /\ Repaid(status', req', intent')
    BY <1>1, <1>2 DEF Marked, Repaid
  <1> QED BY <1>1, <1>3, BackMoves DEF BackInv, Claims

\* A step of one request that leaves what Stripe knows alone, or takes an event off.
LEMMA BackBooks ==
    ASSUME MoneyInv, MoneyInv', BackInv, NEW r \in Req, NEW x \in Request,
           req' = [req EXCEPT ![r] = x], UNCHANGED <<listing, intent, keys>>, mail' \subseteq mail,
           Fits(x, status', Told(row'), intent), Told(row) => Told(row'),
           status' = status \/ \A p \in Req : p # r => ~Claims(req[p]),
           Claims(x) => Claims(req[r]) \/ \A p \in Req : ~Claims(req[p]),
           RowsFit(row', intent), Marked(status', req', row', intent),
           status' = "declined" => Told(row'), Repaid(status', req', intent)
    PROVE  BackInv'
  <1>0. intent \in [Intent -> IntentState]
    BY BackTypes
  <1>1. Grown(intent, intent')
    BY <1>0, SameIsLater
  <1> QED BY <1>1, BackMoves

\* A request at rest counts on nothing.
LEMMA IdleFits ==
    ASSUME NEW s, NEW told, NEW a
    PROVE  Idle \in Request /\ Fits(Idle, s, told, a) /\ ~Claims(Idle) /\ ~Closing(Idle)
  <1>1. Idle.pc = "idle" /\ Idle.kind = "none"
    BY DEF Idle
  <1> QED BY <1>1, IdleIs DEF Fits, Claims, Closing

\* A step of one request alone, which closes as much as before.
LEMMA BackGoes ==
    ASSUME MoneyInv, MoneyInv', BackInv, NEW r \in Req, NEW x \in Request,
           req' = [req EXCEPT ![r] = x], UNCHANGED <<status, listing, row, stripeVars>>,
           Fits(x, status, Told(row), intent), Closing(x) <=> Closing(req[r]), Claims(x) => Claims(req[r])
    PROVE  BackInv'
  <1>1. UNCHANGED <<intent, keys, mail>>
    BY DEF stripeVars
  <1>2. Grown(intent, intent')
    BY <1>1, BackTypes, SameIsLater
  <1> QED BY <1>1, <1>2, BackAsks

\* A request that was closing nothing ends.
LEMMA BackDone ==
    ASSUME MoneyInv, MoneyInv', BackInv, NEW r \in Req, Done(r), ~Closing(req[r]),
           UNCHANGED <<status, listing, row, stripeVars>>
    PROVE  BackInv'
  <1>1. req' = [req EXCEPT ![r] = Idle]
    BY DEF Done
  <1> QED BY <1>1, IdleFits, BackGoes

\* A covered booking has its payment recorded.
LEMMA CoveredTold == IsCovered => Told(row)
  BY DEF IsCovered, Rows, Covered, Told, Recorded

\* A handler begins.
LEMMA BackBegins ==
    ASSUME MoneyInv, MoneyInv', BackInv, NEW r \in Req, NEW kind \in HandlerNames, NEW pc \in Step,
           NEW share \in Amount, Begin(r, kind, pc, share), UNCHANGED <<status, listing, row, stripeVars>>,
           \/ kind = "confirm" /\ pc = "look" /\ Told(row)
           \/ kind = "decline" /\ pc = "claim" /\ Told(row) /\ share = Total /\ status = "pending"
           \/ kind = "cancel" /\ pc = "claim" /\ status \in {"pending", "confirmed"}
           \/ kind = "checkout" /\ pc = "create"
           \/ kind \in {"expire", "releaseOwn"} /\ pc = "drop"
    PROVE  BackInv'
  <1>1. PICK x : x = [Idle EXCEPT !.pc = pc, !.kind = kind, !.seen = status, !.share = share]
    OBVIOUS
  <1>2. status \in Status
    BY DEF MoneyInv, TypeOK
  <1>3. /\ x \in Request /\ x.pc = pc /\ x.kind = kind /\ x.seen = status /\ x.share = share
    BY <1>1, <1>2, IdleIs DEF Request
  <1>4. req' = [req EXCEPT ![r] = x] /\ req[r].pc = "idle"
    BY <1>1 DEF Begin, At
  <1>5. ~Closing(x) /\ ~Claims(x) /\ ~Closing(req[r])
    BY <1>3, <1>4 DEF Closing, Claims
  <1>6. Fits(x, status, Told(row), intent)
    BY <1>3, <1>5 DEF Fits
  <1> QED BY <1>3, <1>4, <1>5, <1>6, BackGoes

\* The handlers of guest and host start; those of the administrator do not here.
LEMMA StartBack == ASSUME Calm, MoneyInv, MoneyInv', BackInv, NEW r \in Req, Start(r) PROVE BackInv'
  <1>1. UNCHANGED <<status, listing, row, stripeVars>>
    BY Zenon DEF Start
  <1>2. /\ {"confirm", "decline", "cancel", "adminCancel", "adminRefund", "expire", "releaseOwn"}
                \subseteq HandlerNames
        /\ {"look", "claim", "drop"} \subseteq Step /\ 0 \in Amount /\ Total \in Amount
    BY Amounts DEF HandlerNames, Step
  <1>3. Answerable => Told(row)
    BY CoveredTold DEF Answerable, Calm
  <1>4. ASSUME StartConfirm(r) \/ StartDecline(r) PROVE BackInv'
    BY <1>1, <1>2, <1>3, <1>4, BackBegins DEF StartConfirm, StartDecline
  <1>5. ASSUME NEW share \in Amount, StartCancel(r, share) PROVE BackInv'
    <2>1. LastRow.refunded \in Nat
      BY LastIs, MoneyParts DEF Row
    <2>2. PICK given \in Amount :
              given = IF Total - LastRow.refunded <= 0 THEN 0 ELSE Min({share, Total - LastRow.refunded})
      BY <2>1, ShareIs
    <2>3. Begin(r, "cancel", "claim", given) /\ status \in {"pending", "confirmed"}
      BY <1>5, <2>2 DEF StartCancel
    <2> QED BY <1>1, <1>2, <2>3, BackBegins
  <1>6. ASSUME NEW share \in Amount, StartAdminCancel(r, share) \/ StartAdminRefund(r, share) PROVE FALSE
    BY <1>6 DEF StartAdminCancel, StartAdminRefund, Begin, Calm
  <1>7. ASSUME NEW kind \in {"expire", "releaseOwn"}, FindUnpaid(r, kind) PROVE BackInv'
    BY <1>1, <1>2, <1>7, BackBegins DEF FindUnpaid
  <1> QED BY <1>4, <1>5, <1>6, <1>7 DEF Start

\* A claim takes the booking off the calendar, which nobody else has then.
LEMMA ClaimBack == ASSUME MoneyInv, MoneyInv', BackInv, NEW r \in Req, Claim(r) PROVE BackInv'
  <1>0. req \in [Req -> Request]
    BY BackTypes
  <1>1. PICK q \in Request : q = req[r] /\ q.pc = "claim" /\ Fits(q, status, Told(row), intent)
    BY <1>0 DEF Claim, At, BackInv
  <1>2. q.kind \in {"decline", "cancel"} /\ ~Closing(q)
    BY <1>1 DEF Fits, Closing
  <1>3. CASE status = "pending" \/ (q.kind = "cancel" /\ status = "confirmed")
    <2>1. PICK x : x = [q EXCEPT !.pc = "look"]
      OBVIOUS
    <2>2. x \in Request /\ x.pc = "look" /\ x.kind = q.kind /\ x.seen = q.seen /\ x.share = q.share
      BY <2>1 DEF Request, Step
    <2>3. /\ status' = IF q.kind = "decline" THEN "declined" ELSE "cancelled"
          /\ req' = [req EXCEPT ![r] = x] /\ UNCHANGED <<listing, row, stripeVars>>
      BY <1>0, <1>1, <1>3, <2>1 DEF Claim, Goto
    <2>4. UNCHANGED <<intent, keys, mail>> /\ Told(row') = Told(row)
      BY <2>3 DEF stripeVars
    <2>5. \A p \in Req : ~Claims(req[p])
      BY <1>3 DEF BackInv, Fits
    <2>6. Closing(x)
      BY <1>2, <2>2 DEF Closing
    <2>7. Fits(x, status', Told(row), intent)
      BY <1>1, <1>2, <2>2, <2>3 DEF Fits, Closing, Claims
    <2>8. ~Shut(status', req')
      BY <1>0, <2>3, <2>6 DEF Shut
    <2>9. Marked(status', req', row', intent) /\ Repaid(status', req', intent)
      BY <1>3, <2>3, <2>8 DEF Marked, Repaid, BackInv
    <2>10. q.kind = "decline" => Told(row)
      BY <1>1 DEF Fits
    <2> QED BY <2>2, <2>3, <2>4, <2>5, <2>7, <2>9, <2>10, BackBooks DEF BackInv
  <1>4. CASE ~(status = "pending" \/ (q.kind = "cancel" /\ status = "confirmed"))
    <2>1. Done(r) /\ UNCHANGED <<status, listing, row, stripeVars>>
      BY <1>1, <1>4 DEF Claim
    <2> QED BY <1>1, <1>2, <2>1, BackDone
  <1> QED BY <1>3, <1>4

\* The intent of the latest covering row was charged.
LEMMA LiveFits ==
    ASSUME MoneyInv, BackInv
    PROVE  /\ IsCovered => LiveIntent \in Intent /\ Charged(intent[LiveIntent])
           /\ ~IsCovered => LiveIntent = None
  <1>1. CASE IsCovered
    <2>1. Max(Rows(Covered)) \in Rows(Covered)
      BY <1>1, MaxIn DEF IsCovered, Rows
    <2>2. PICK k \in RowId : k = Max(Rows(Covered)) /\ row[k].st \in Covered
      BY <2>1 DEF Rows
    <2>3. row[k].ref \in Intent /\ Charged(intent[row[k].ref])
      BY <2>2 DEF BackInv, RowsFit, Recorded, Covered
    <2> QED BY <1>1, <2>2, <2>3 DEF LiveIntent
  <1>2. CASE ~IsCovered
    BY <1>2 DEF LiveIntent
  <1> QED BY <1>1, <1>2

\* All intents of a booking are back when one that was made is.
LEMMA OneBack ==
    ASSUME NEW a, OneOf(a), NEW i \in Intent, GoneBack(a[i])
    PROVE  \A j \in Intent : Created(a[j]) => GoneBack(a[j])
  BY DEF OneOf, Created, GoneBack

\* What is left on an intent.
LEMMA LeftIs ==
    ASSUME NEW i \in Intent, intent[i] \in IntentState
    PROVE  /\ Left(i) \in Amount /\ Left(i) \in Nat
           /\ Left(i) > 0 => intent[i].st = "succeeded" /\ intent[i].refunded + Left(i) = Total
           /\ intent[i].st = "succeeded" => Left(i) = Total - intent[i].refunded
  <1>1. intent[i].refunded \in Nat /\ intent[i].refunded <= Total /\ Total \in Nat
    BY IntentIs
  <1>2. Left(i) = IF intent[i].st = "succeeded" THEN Total - intent[i].refunded ELSE 0
    BY DEF Left
  <1>3. Left(i) \in Nat /\ Left(i) <= Total
    BY <1>1, <1>2
  <1> QED BY <1>1, <1>2, <1>3, Amounts

\* A request that closes finds nothing to send back: what a declined booking was paid
\* is with the guest.
LEMMA NothingLeft ==
    ASSUME MoneyInv, BackInv, OneOf(intent), NEW r \in Req, Closing(req[r]), At(r, "look"),
           status = "declined", Call(r, LiveIntent) = "none"
    PROVE  \A i \in Intent : Created(intent[i]) => GoneBack(intent[i])
  <1>0. req[r].kind = "decline" /\ req[r].share = Total
    BY DEF BackInv, Fits, Claims, Closing, At
  <1>1. CASE IsCovered
    <2>1. PICK i \in Intent : i = LiveIntent /\ Charged(intent[i]) /\ i # None
      BY <1>1, LiveFits, MoneyAssumption
    <2>2. PICK x \in IntentState : x = intent[i]
      BY BackTypes
    <2>3. x.st \notin {"open", "held"} /\ ~(Left(i) > 0)
      BY <1>0, <2>1, <2>2, MoneyAssumption, Amounts DEF Call
    <2>4. x.st = "succeeded" => x.refunded = Total
      BY <2>2, <2>3, LeftIs, IntentIs
    <2>5. GoneBack(intent[i])
      BY <2>1, <2>2, <2>3, <2>4 DEF GoneBack, Charged
    <2> QED BY <2>5, OneBack
  <1>2. CASE ~IsCovered
    <2>1. PICK k \in RowId : Recorded(row[k].st)
      BY DEF BackInv, Told
    <2>2. row[k].st = "refunded"
      BY <1>2, <2>1 DEF IsCovered, Rows, Covered, Recorded
    <2>3. row[k].ref \in Intent
      BY <2>1 DEF BackInv, RowsFit
    <2>4. RefundsFit(row, intent)
      BY DEF BackInv, Marked, Shut
    <2>5. GoneBack(intent[row[k].ref])
      BY <2>2, <2>4 DEF RefundsFit
    <2> QED BY <2>3, <2>5, OneBack
  <1> QED BY <1>1, <1>2

\* A request reads row and intent and chooses its call.
LEMMA LookBack ==
    ASSUME MoneyInv, MoneyInv', BackInv, OneOf(intent), NEW r \in Req, Look(r)
    PROVE  BackInv'
  <1>0. req \in [Req -> Request] /\ intent \in [Intent -> IntentState]
    BY BackTypes
  <1>1. PICK q \in Request : q = req[r] /\ q.pc = "look" /\ Fits(q, status, Told(row), intent)
    BY <1>0 DEF Look, At, BackInv
  <1>2. q.kind \in {"confirm", "compensate", "decline", "cancel"}
    BY <1>1 DEF Fits
  <1>3. UNCHANGED <<status, listing, row, stripeVars>>
    BY Zenon DEF Look
  <1>4. PICK i : i = LiveIntent
    OBVIOUS
  <1>5. PICK call : call = Call(r, i)
    OBVIOUS
  <1>6. CASE call = "none"
    <2>1. PICK after : after = AfterStripe(q.kind)
      OBVIOUS
    <2>2. req' = [req EXCEPT ![r] = IF after = "idle" THEN Idle ELSE [q EXCEPT !.pc = after]]
      BY <1>0, <1>1, <1>4, <1>5, <1>6, <2>1 DEF Look
    <2>3. CASE q.kind = "compensate"
      <3>1. Done(r) /\ ~Closing(q)
        BY <2>1, <2>2, <2>3 DEF Done, AfterStripe, Closing
      <3> QED BY <1>1, <1>3, <3>1, BackDone
    <2>4. CASE q.kind = "confirm"
      <3>1. PICK x : x = [q EXCEPT !.pc = "decide"]
        OBVIOUS
      <3>2. x \in Request /\ x.pc = "decide" /\ x.kind = "confirm" /\ req' = [req EXCEPT ![r] = x]
        BY <2>1, <2>2, <2>4, <3>1 DEF AfterStripe, Request, Step
      <3>3. ~Closing(x) /\ ~Claims(x) /\ ~Closing(q)
        BY <2>4, <3>2 DEF Closing, Claims
      <3>4. Fits(x, status, Told(row), intent)
        BY <1>1, <2>4, <3>2, <3>3 DEF Fits
      <3> QED BY <1>1, <1>3, <3>2, <3>3, <3>4, BackGoes
    <2>5. CASE q.kind \in {"decline", "cancel"}
      <3>1. PICK x : x = [q EXCEPT !.pc = "finish"]
        OBVIOUS
      <3>2. x \in Request /\ x.pc = "finish" /\ x.kind = q.kind /\ req' = [req EXCEPT ![r] = x]
        BY <2>1, <2>2, <2>5, <3>1 DEF AfterStripe, Request, Step
      <3>3. ~Closing(x) /\ Closing(q)
        BY <1>1, <2>5, <3>2 DEF Closing
      <3>4. Fits(x, status, Told(row), intent)
        BY <1>1, <2>5, <3>2, <3>3 DEF Fits, Claims
      <3>5. UNCHANGED <<intent, keys, mail>>
        BY <1>3 DEF stripeVars
      <3>6. Grown(intent, intent')
        BY <1>0, <3>5, SameIsLater
      <3>7. status = "declined" => \A j \in Intent : Created(intent[j]) => GoneBack(intent[j])
        BY <1>1, <1>4, <1>5, <1>6, <3>3, NothingLeft DEF At
      <3> QED BY <1>1, <1>3, <3>2, <3>3, <3>4, <3>5, <3>6, <3>7, BackEnds
    <2> QED BY <1>2, <2>3, <2>4, <2>5
  <1>7. CASE call # "none"
    <2>1. i # None /\ call \in {"capture", "cancel", "refund"} /\ (call = "capture" <=> q.kind = "confirm")
      BY <1>1, <1>5, <1>7 DEF Call
    <2>2. i \in Intent /\ Told(row)
      BY <1>4, <2>1, LiveFits, CoveredTold
    <2>3. PICK left \in Amount : left = Left(i) /\ left \in Nat
      BY <1>0, <2>2, LeftIs
    <2>4. PICK ask : ask = IF call = "refund" THEN Min({q.share, left}) ELSE 0
      OBVIOUS
    <2>5. ask \in Amount /\ (call = "refund" /\ q.share = Total => ask = left)
      <3>1. q.share \in Nat /\ q.share \in Amount /\ {q.share, left} \subseteq Nat
        BY <2>3, Amounts DEF Request
      <3>2. Min({q.share, left}) \in {q.share, left} /\ Min({q.share, left}) <= left /\ Min({q.share, left}) <= q.share
        BY <3>1, MinIn
      <3>3. left <= Total
        BY <2>3, Amounts
      <3> QED BY <2>3, <2>4, <3>1, <3>2, <3>3, Amounts
    <2>6. PICK x : x = [q EXCEPT !.pc = "stripe", !.call = call, !.intent = i, !.left = left, !.ask = ask]
      OBVIOUS
    <2>7. req' = [req EXCEPT ![r] = x]
      BY <1>0, <1>1, <1>4, <1>5, <1>7, <2>3, <2>4, <2>6 DEF Look
    <2>8. /\ x \in Request /\ x.pc = "stripe" /\ x.intent = i /\ x.kind = q.kind /\ x.call = call
          /\ x.left = left /\ x.ask = ask /\ x.seen = q.seen /\ x.share = q.share
      BY <2>1, <2>2, <2>3, <2>5, <2>6 DEF Request, Step
    <2>9. Closing(x) = Closing(q) /\ Claims(x) = Claims(q)
      BY <1>1, <2>8 DEF Closing, Claims
    <2>10. call = "refund" => /\ intent[i].st = "succeeded" /\ intent[i].refunded + left >= Total
                              /\ q.kind = "decline" => ask = left
      <3>1. call = "refund" => left > 0
        BY <1>1, <1>5, <2>2, <2>3 DEF Call
      <3>2. q.kind = "decline" => q.share = Total
        BY <1>1 DEF Fits
      <3>3. left > 0 => intent[i].st = "succeeded" /\ intent[i].refunded + left = Total
        BY <1>0, <2>2, <2>3, LeftIs
      <3> QED BY <2>5, <3>1, <3>2, <3>3, Amounts
    <2>11. Fits(x, status, Told(row), intent)
      BY <1>1, <1>2, <2>1, <2>2, <2>8, <2>9, <2>10 DEF Fits
    <2> QED BY <1>1, <1>3, <2>7, <2>8, <2>9, <2>11, BackGoes
  <1> QED BY <1>6, <1>7

\* What Stripe does for a request: intents grow, events and keys are true, and a call
\* that declines leaves nothing on the intent.
LEMMA DoesBack ==
    ASSUME MoneyInv, BackInv, NEW r \in Req, At(r, "stripe"), StripeDoes(r)
    PROVE  /\ Grown(intent, intent')
           /\ \A e \in mail' : e \in mail \/ Honest(e, intent')
           /\ \A k \in keys' : k \in keys \/ Sent(k, intent')
           /\ \A i \in Intent : Created(intent'[i]) => Created(intent[i])
           /\ req[r].kind = "decline" => GoneBack(intent'[req[r].intent])
  <1>0. req \in [Req -> Request] /\ intent \in [Intent -> IntentState] /\ Equipped(req[r])
    BY BackTypes
  <1>1. PICK q \in Request : q = req[r] /\ q.pc = "stripe" /\ Fits(q, status, Told(row), intent)
    BY <1>0 DEF At, BackInv
  <1>2. PICK i \in Intent : i = q.intent
    BY <1>0, <1>1 DEF Equipped
  <1>3. PICK x \in IntentState : x = intent[i]
    BY <1>0
  <1>4. x.refunded \in Nat /\ x.refunded <= Total /\ Total \in Nat /\ x.refunded <= x.refunded
    BY IntentIs
  <1>5. CASE q.call = "capture"
    <2>1. StripeCapture(i)
      BY <1>1, <1>2, <1>5 DEF StripeDoes
    <2>2. PICK y : y = [x EXCEPT !.st = "succeeded"]
      OBVIOUS
    <2>3. y \in IntentState /\ y.st = "succeeded" /\ y.refunded = x.refunded
      BY <2>2 DEF IntentState
    <2>4. intent' = [intent EXCEPT ![i] = y] /\ x.st \in {"held", "succeeded"}
      BY <1>0, <1>3, <2>1, <2>2 DEF StripeCapture
    <2>5. Later(intent[i], y)
      BY <1>3, <1>4, <2>3, <2>4 DEF Later, Created, Charged
    <2>6. Grown(intent, intent') /\ intent'[i] = y /\ \A j \in Intent : j # i => intent'[j] = intent[j]
      BY <1>0, <2>3, <2>4, <2>5, PutIntent
    <2>7. PICK e : e = [type |-> "succeeded", intent |-> i, amount |-> Total]
      OBVIOUS
    <2>8. mail' \subseteq mail \cup {e} /\ UNCHANGED keys
      BY <2>1, <2>7 DEF StripeCapture
    <2>9. e.type = "succeeded" /\ e.intent = i
      BY <2>7
    <2>10. Honest(e, intent')
      BY <2>3, <2>6, <2>9 DEF Honest
    <2>11. q.kind # "decline"
      BY <1>1, <1>5 DEF Fits
    <2> QED BY <1>1, <1>3, <2>4, <2>6, <2>8, <2>10, <2>11 DEF Created
  <1>6. CASE q.call = "cancel"
    <2>1. StripeCancel(i)
      BY <1>1, <1>2, <1>6 DEF StripeDoes
    <2>2. PICK y : y = [x EXCEPT !.st = "canceled"]
      OBVIOUS
    <2>3. y \in IntentState /\ y.st = "canceled" /\ y.refunded = x.refunded
      BY <2>2 DEF IntentState
    <2>4. intent' = [intent EXCEPT ![i] = y] /\ x.st \in {"open", "held"} /\ UNCHANGED <<keys, mail>>
      BY <1>0, <1>3, <2>1, <2>2 DEF StripeCancel
    <2>5. Later(intent[i], y)
      BY <1>3, <1>4, <2>3, <2>4 DEF Later, Created, Charged
    <2>6. Grown(intent, intent') /\ intent'[i] = y /\ \A j \in Intent : j # i => intent'[j] = intent[j]
      BY <1>0, <2>3, <2>4, <2>5, PutIntent
    <2> QED BY <1>1, <1>2, <1>3, <2>3, <2>4, <2>6 DEF Created, GoneBack
  <1>7. CASE q.call \notin {"capture", "cancel"}
    <2>1. PICK k : k = [intent |-> i, left |-> q.left, ask |-> q.ask]
      OBVIOUS
    <2>2. k.intent = i /\ k.left = q.left /\ k.ask = q.ask
      BY <2>1
    <2>3. StripeRefund(k, q.ask)
      BY <1>1, <1>2, <1>7, <2>1 DEF StripeDoes
    <2>4. /\ x.st = "succeeded" /\ x.refunded + q.left >= Total
          /\ q.kind = "decline" => q.ask = q.left
          /\ q.left \in Nat /\ q.ask \in Nat
      BY <1>1, <1>2, <1>3, <1>7, Amounts DEF Fits, Request
    <2>5. CASE Replayed(k) /\ UNCHANGED stripeVars
      <3>1. UNCHANGED <<intent, keys, mail>>
        BY <2>5 DEF stripeVars
      <3>2. Grown(intent, intent')
        BY <1>0, <3>1, SameIsLater
      <3>3. Sent(k, intent)
        BY <2>5 DEF Replayed, BackInv
      <3>4. q.kind = "decline" => GoneBack(x)
        BY <1>3, <1>4, <2>2, <2>4, <3>3 DEF Sent, GoneBack
      <3> QED BY <1>1, <1>2, <1>3, <3>1, <3>2, <3>4
    <2>6. CASE ~(Replayed(k) /\ UNCHANGED stripeVars)
      <3>1. /\ 0 < q.ask /\ q.ask <= Left(i)
            /\ intent' = [intent EXCEPT ![i].refunded = intent[i].refunded + q.ask]
            /\ keys' = keys \cup {k}
            /\ mail' = mail \cup {[type |-> "refunded", intent |-> i,
                                   amount |-> intent[i].refunded + q.ask]}
        BY <2>2, <2>3, <2>6 DEF StripeRefund
      <3>2. PICK back : back = x.refunded + q.ask
        OBVIOUS
      <3>3. Left(i) = Total - x.refunded
        BY <1>3, <2>4, LeftIs
      <3>4. back \in Nat /\ back <= Total /\ x.refunded <= back /\ back \in Amount
        BY <1>4, <2>4, <3>1, <3>2, <3>3, Amounts
      <3>5. PICK y : y = [x EXCEPT !.refunded = back]
        OBVIOUS
      <3>6. y \in IntentState /\ y.st = "succeeded" /\ y.refunded = back
        BY <2>4, <3>4, <3>5 DEF IntentState
      <3>7. intent' = [intent EXCEPT ![i] = y]
        BY <1>0, <1>3, <3>1, <3>2, <3>5
      <3>8. Later(intent[i], y)
        BY <1>3, <2>4, <3>4, <3>6 DEF Later, Created, Charged
      <3>9. Grown(intent, intent') /\ intent'[i] = y /\ \A j \in Intent : j # i => intent'[j] = intent[j]
        BY <1>0, <3>6, <3>7, <3>8, PutIntent
      <3>10. PICK e : e = [type |-> "refunded", intent |-> i, amount |-> back]
        OBVIOUS
      <3>11. mail' = mail \cup {e} /\ e.type = "refunded" /\ e.intent = i /\ e.amount = back
        BY <1>3, <3>1, <3>2, <3>10
      <3>12. Honest(e, intent')
        BY <3>4, <3>6, <3>9, <3>11 DEF Honest
      <3>13. Sent(k, intent')
        BY <1>4, <2>2, <2>4, <3>2, <3>6, <3>9 DEF Sent
      <3>14. q.kind = "decline" => GoneBack(y)
        BY <1>4, <2>4, <3>2, <3>4, <3>6 DEF GoneBack
      <3> QED BY <1>1, <1>2, <1>3, <2>4, <3>1, <3>9, <3>11, <3>12, <3>13, <3>14 DEF Created
    <2> QED BY <2>5, <2>6
  <1> QED BY <1>5, <1>6, <1>7

\* The call is made and answered, or fails without an effect.
LEMMA CallBack ==
    ASSUME Calm, MoneyInv, MoneyInv', BackInv, OneOf(intent'), NEW r \in Req, StripeCall(r)
    PROVE  BackInv'
  <1>0. req \in [Req -> Request] /\ intent \in [Intent -> IntentState] /\ Equipped(req[r])
    BY BackTypes
  <1>1. PICK q \in Request : q = req[r] /\ q.pc = "stripe" /\ Fits(q, status, Told(row), intent)
    BY <1>0 DEF StripeCall, At, BackInv
  <1>2. /\ q.kind \in {"confirm", "compensate", "decline", "cancel"} /\ Told(row)
        /\ q.seen \in Status /\ q.share \in Amount
    BY <1>1 DEF Fits, Request
  <1>3. UNCHANGED <<status, listing, row>>
    BY Zenon DEF StripeCall
  <1>4. Told(row') = Told(row)
    BY <1>3
  <1>5. (StripeDoes(r) /\ Answered(r)) \/ (Threw(r) /\ UNCHANGED stripeVars)
    <2>1. "answerLost" \notin Env
      BY DEF Calm
    <2> QED BY <2>1 DEF StripeCall
  <1>6. ASSUME StripeDoes(r), Answered(r) PROVE BackInv'
    <2>0. /\ Grown(intent, intent')
          /\ \A e \in mail' : e \in mail \/ Honest(e, intent')
          /\ \A k \in keys' : k \in keys \/ Sent(k, intent')
          /\ \A i \in Intent : Created(intent'[i]) => Created(intent[i])
          /\ q.kind = "decline" => GoneBack(intent'[q.intent])
      BY <1>1, <1>6, DoesBack DEF At
    <2>1. PICK after : after = AfterStripe(q.kind)
      OBVIOUS
    <2>2. CASE q.kind = "compensate"
      <3>1. req' = [req EXCEPT ![r] = Idle] /\ ~Closing(q)
        BY <1>1, <1>6, <2>1, <2>2 DEF Answered, AfterStripe, Closing
      <3> QED BY <1>1, <1>3, <1>4, <2>0, <3>1, IdleFits, BackAsks
    <2>3. CASE q.kind # "compensate"
      <3>1. PICK x : x = [Idle EXCEPT !.pc = after, !.kind = q.kind, !.seen = q.seen, !.share = q.share]
        OBVIOUS
      <3>2. after = (IF q.kind = "confirm" THEN "decide" ELSE "finish") /\ after \in Step
        BY <1>2, <2>1, <2>3 DEF AfterStripe, Step
      <3>3. /\ x \in Request /\ x.pc = after /\ x.kind = q.kind /\ x.seen = q.seen
            /\ x.share = q.share /\ req' = [req EXCEPT ![r] = x]
        BY <1>1, <1>2, <1>6, <2>1, <3>1, <3>2, IdleIs DEF Answered, Request
      <3>4. ~Closing(x)
        BY <3>2, <3>3 DEF Closing
      <3>5. CASE q.kind = "confirm"
        <4>1. ~Claims(x) /\ ~Closing(q)
          BY <3>2, <3>3, <3>4, <3>5 DEF Claims, Closing
        <4>2. Fits(x, status, Told(row), intent')
          BY <1>2, <3>2, <3>3, <3>4, <3>5, <4>1 DEF Fits
        <4> QED BY <1>1, <1>3, <1>4, <2>0, <3>3, <3>4, <4>1, <4>2, BackAsks
      <3>6. CASE q.kind \in {"decline", "cancel"}
        <4>1. Closing(q)
          BY <1>1, <3>6 DEF Closing
        <4>2. Claims(x) /\ status = IF q.kind = "decline" THEN "declined" ELSE "cancelled"
          BY <1>1, <3>2, <3>3, <3>6, <4>1 DEF Claims, Fits
        <4>3. Fits(x, status, Told(row), intent')
          BY <1>2, <3>2, <3>3, <3>4, <3>6, <4>2 DEF Fits
        <4>4. q.intent \in Intent
          BY <1>0, <1>1 DEF Equipped
        <4>5. status = "declined" => \A i \in Intent : Created(intent'[i]) => GoneBack(intent'[i])
          BY <2>0, <4>2, <4>4, OneBack
        <4> QED BY <1>1, <1>3, <1>4, <2>0, <3>3, <3>4, <4>1, <4>3, <4>5, BackEnds
      <3> QED BY <1>2, <2>3, <3>5, <3>6
    <2> QED BY <2>2, <2>3
  <1>7. ASSUME Threw(r), UNCHANGED stripeVars PROVE BackInv'
    <2>1. CASE q.kind \in {"decline", "cancel"}
      <3>1. PICK x : x = [Idle EXCEPT !.pc = "unclaim", !.kind = q.kind, !.seen = q.seen]
        OBVIOUS
      <3>2. x \in Request /\ x.pc = "unclaim" /\ x.kind = q.kind /\ x.seen = q.seen
        BY <1>2, <3>1, IdleIs DEF Request, Step
      <3>3. req' = [req EXCEPT ![r] = x]
        BY <1>1, <1>7, <2>1, <3>1 DEF Threw
      <3>4. Closing(x) /\ Claims(x) /\ Closing(q) /\ Claims(q)
        BY <1>1, <2>1, <3>2 DEF Closing, Claims
      <3>5. Fits(x, status, Told(row), intent)
        BY <1>1, <1>2, <2>1, <3>2, <3>4 DEF Fits
      <3> QED BY <1>1, <1>3, <1>7, <3>2, <3>3, <3>4, <3>5, BackGoes
    <2>2. CASE q.kind \notin {"decline", "cancel"}
      <3>1. Done(r) /\ ~Closing(q)
        BY <1>1, <1>7, <2>2 DEF Threw, Done, Closing
      <3> QED BY <1>1, <1>3, <1>7, <3>1, BackDone
    <2> QED BY <2>1, <2>2
  <1> QED BY <1>5, <1>6, <1>7

\* A claim is given back: the booking is what it was, and nobody else is at it.
LEMMA UnclaimBack == ASSUME MoneyInv, MoneyInv', BackInv, NEW r \in Req, Unclaim(r) PROVE BackInv'
  <1>0. req \in [Req -> Request]
    BY BackTypes
  <1>1. PICK q \in Request : q = req[r] /\ q.pc = "unclaim" /\ Fits(q, status, Told(row), intent)
    BY <1>0 DEF Unclaim, At, BackInv
  <1>2. q.kind \in {"decline", "cancel"} /\ Closing(q) /\ Claims(q)
    BY <1>1 DEF Fits, Closing, Claims
  <1>3. status = (IF q.kind = "decline" THEN "declined" ELSE "cancelled") /\ q.seen \in {"pending", "confirmed"}
    BY <1>1, <1>2 DEF Fits
  <1>4. status' = q.seen /\ Done(r) /\ UNCHANGED <<listing, row, stripeVars>>
    BY <1>1, <1>3 DEF Unclaim, BackInv
  <1>5. UNCHANGED <<intent, keys, mail>> /\ req' = [req EXCEPT ![r] = Idle]
    BY <1>4 DEF stripeVars, Done
  <1>6. \A p \in Req : p # r => ~Claims(req[p])
    BY <1>1, <1>2 DEF BackInv
  <1>7. RefundsFit(row, intent)
    BY <1>1, <1>2 DEF BackInv, Marked, Shut
  <1>8. Marked(status', req', row', intent) /\ Repaid(status', req', intent)
    BY <1>3, <1>4, <1>7 DEF Marked, Repaid
  <1>9. RowsFit(row', intent) /\ status' # "declined" /\ Told(row') = Told(row)
    BY <1>3, <1>4 DEF BackInv
  <1> QED BY <1>4, <1>5, <1>6, <1>8, <1>9, IdleFits, BackBooks

\* Rows that are closed keep their intents, and tell what they told.
LEMMA RowsClosed ==
    ASSUME RowsFit(row, intent),
           \A k \in RowId : /\ row'[k].ref = row[k].ref
                            /\ \/ row'[k].st = row[k].st
                               \/ row[k].st \in Covered /\ row'[k].st = "refunded"
    PROVE  RowsFit(row', intent) /\ Told(row') = Told(row)
  <1>1. \A k \in RowId : Recorded(row'[k].st) = Recorded(row[k].st)
    BY DEF Recorded, Covered
  <1> QED BY <1>1 DEF RowsFit, Told

\* What a decline or a cancellation writes in the end.
LEMMA FinishBack ==
    ASSUME MoneyInv, MoneyInv', BackInv, NEW r \in Req, FinishDecline(r) \/ FinishCancel(r)
    PROVE  BackInv'
  <1>0. req \in [Req -> Request] /\ row \in [RowId -> Row]
    BY BackTypes
  <1>1. PICK q \in Request : q = req[r] /\ q.pc = "finish" /\ Fits(q, status, Told(row), intent)
    BY <1>0 DEF FinishDecline, FinishCancel, At, BackInv
  <1>2. Claims(q) /\ status = IF q.kind = "decline" THEN "declined" ELSE "cancelled"
    BY <1>1 DEF Fits, Claims
  <1>3. Done(r) /\ UNCHANGED <<listing, intent, keys, mail>>
    BY DEF FinishDecline, FinishCancel, stripeVars
  <1>4. req' = [req EXCEPT ![r] = Idle]
    BY <1>3 DEF Done
  <1>5. \A p \in Req : ~Closing(req[p])
    BY <1>1, <1>2 DEF BackInv, Claims, Closing
  <1>6. \A p \in Req : ~Closing(req'[p])
    BY <1>0, <1>4, <1>5, IdleFits
  <1>7. RowsFit(row, intent)
    BY DEF BackInv
  <1>8. ASSUME FinishDecline(r) PROVE BackInv'
    <2>1. q.kind = "decline" /\ status = "declined" /\ UNCHANGED status
      BY <1>1, <1>2, <1>8 DEF FinishDecline
    <2>2. row' = [k \in RowId |-> IF row[k].st \in Covered
                                  THEN [row[k] EXCEPT !.st = "refunded", !.refunded = Total]
                                  ELSE row[k]]
      BY <1>8, <2>1 DEF FinishDecline
    <2>3. ASSUME NEW k \in RowId
          PROVE  /\ row'[k].ref = row[k].ref
                 /\ \/ row'[k].st = row[k].st
                    \/ row[k].st \in Covered /\ row'[k].st = "refunded"
      BY <1>0, <2>2 DEF Row
    <2>4. RowsFit(row', intent) /\ Told(row') = Told(row)
      BY <1>7, <2>3, RowsClosed
    <2>5. \A i \in Intent : Created(intent[i]) => GoneBack(intent[i])
      BY <1>5, <2>1 DEF BackInv, Repaid, Shut
    <2>6. RefundsFit(row', intent)
      BY <2>4, <2>5 DEF RefundsFit, RowsFit, Recorded, Charged, Created
    <2>7. Marked(status', req', row', intent) /\ Repaid(status', req', intent)
      BY <2>5, <2>6 DEF Marked, Repaid
    <2> QED BY <1>3, <1>4, <2>1, <2>4, <2>7, IdleFits, BackBooks DEF BackInv
  <1>9. ASSUME FinishCancel(r) PROVE BackInv'
    <2>1. status = "cancelled" /\ status' = "cancelled"
      BY <1>1, <1>2, <1>9 DEF FinishCancel
    <2>2. row' = (IF q.share > 0 THEN Refunded(Rows(Covered), "refunded", q.share) ELSE row)
      BY <1>1, <1>9 DEF FinishCancel
    <2>3. ASSUME NEW k \in RowId
          PROVE  /\ row'[k].ref = row[k].ref
                 /\ \/ row'[k].st = row[k].st
                    \/ row[k].st \in Covered /\ row'[k].st = "refunded"
      BY <1>0, <2>2 DEF Row, Refunded, Rows
    <2>4. RowsFit(row', intent) /\ Told(row') = Told(row)
      BY <1>7, <2>3, RowsClosed
    <2>5. Marked(status', req', row', intent) /\ Repaid(status', req', intent)
      BY <1>6, <2>1 DEF Marked, Repaid, Shut
    <2> QED BY <1>3, <1>4, <2>1, <2>4, <2>5, IdleFits, BackBooks
  <1> QED BY <1>8, <1>9

\* The decision is written, or the captured money is to be sent back.
LEMMA DecideBack ==
    ASSUME Calm, MoneyInv, MoneyInv', BackInv, NEW r \in Req, DecideStep(r)
    PROVE  BackInv'
  <1>0. req \in [Req -> Request]
    BY BackTypes
  <1>1. PICK q \in Request : q = req[r] /\ Fits(q, status, Told(row), intent)
    BY <1>0 DEF BackInv
  <1>2. q.pc \notin {"adminClose", "adminNote", "adminGrant", "adminPay"}
    BY <1>1 DEF Fits
  <1>3. DecideConfirm(r) /\ q.pc = "decide" /\ q.kind = "confirm" /\ Told(row) /\ ~Closing(q)
    BY <1>1, <1>2 DEF DecideStep, AdminClose, AdminNote, AdminGrant, AdminPay, DecideConfirm, At, Fits, Closing
  <1>4. UNCHANGED <<listing, row, stripeVars>>
    BY <1>3 DEF DecideConfirm
  <1>5. CASE status = "pending" /\ status' = "confirmed" /\ Done(r)
    <2>1. UNCHANGED <<intent, keys, mail>> /\ req' = [req EXCEPT ![r] = Idle]
      BY <1>4, <1>5 DEF stripeVars, Done
    <2>2. RefundsFit(row, intent) /\ \A p \in Req : ~Claims(req[p])
      BY <1>5 DEF BackInv, Marked, Fits
    <2>3. Marked(status', req', row', intent) /\ Repaid(status', req', intent)
      BY <1>4, <1>5, <2>2 DEF Marked, Repaid
    <2> QED BY <1>4, <1>5, <2>1, <2>2, <2>3, IdleFits, BackBooks DEF BackInv
  <1>6. CASE ~(status = "pending" /\ status' = "confirmed" /\ Done(r))
    <2>1. PICK x : x = [Idle EXCEPT !.pc = "look", !.kind = "compensate", !.share = Total]
      OBVIOUS
    <2>2. req' = [req EXCEPT ![r] = x] /\ UNCHANGED status
      BY <1>3, <1>6, <2>1 DEF DecideConfirm, Calm
    <2>3. x \in Request /\ x.pc = "look" /\ x.kind = "compensate"
      BY <2>1, IdleIs, Amounts DEF Request, Step
    <2>4. ~Closing(x) /\ ~Claims(x)
      BY <2>3 DEF Closing, Claims
    <2>5. Fits(x, status, Told(row), intent)
      BY <1>3, <2>3, <2>4 DEF Fits
    <2> QED BY <1>1, <1>3, <1>4, <2>2, <2>3, <2>4, <2>5, BackGoes
  <1> QED BY <1>5, <1>6

\* What recording an event does to a row: nothing, or it merges into the row of the
\* intent, or into a new one.
LEMMA RecordIs ==
    ASSUME RowsOK, NEW i \in Intent, NEW st \in {"paid", "authorized", "failed", "pending"},
           RecordStripePayment(i, st), NEW k \in RowId
    PROVE  \/ row'[k] = row[k]
           \/ /\ row[k].st # "none" /\ row[k].ref = i /\ row'[k].ref = i
              /\ row'[k].st = Merge(row[k].st, st) /\ row'[k].refunded = row[k].refunded
           \/ row[k].st = "none" /\ row'[k].ref = i /\ row'[k].st = st /\ row'[k].refunded = 0
  <1> DEFINE known == {j \in RowId : row[j].st # "none" /\ row[j].ref = i}
  <1>0. row[k] \in Row
    BY DEF RowsOK
  <1>1. CASE known # {}
    <2>1. row'[k] = IF k \in known THEN [row[k] EXCEPT !.st = Merge(row[k].st, st)] ELSE row[k]
      BY <1>1 DEF RecordStripePayment
    <2>2. CASE k \in known
      <3>1. row'[k] = [row[k] EXCEPT !.st = Merge(row[k].st, st)]
        BY <2>1, <2>2
      <3> QED BY <1>0, <2>2, <3>1 DEF Row
    <2> QED BY <2>1, <2>2
  <1>2. CASE known = {}
    <2>1. PICK j, x : /\ j = Min(Rows({"none"})) /\ x = [NoRow EXCEPT !.st = st, !.ref = i]
                      /\ Rows({"none"}) # {} /\ row' = [row EXCEPT ![j] = x]
      BY <1>2 DEF RecordStripePayment
    <2>2. j \in Rows({"none"})
      <3>1. Rows({"none"}) \subseteq Nat
        BY MoneyAssumption DEF Rows, RowId
      <3> QED BY <2>1, <3>1, MinIn
    <2>3. x.st = st /\ x.ref = i /\ x.refunded = 0
      BY <2>1 DEF NoRow
    <2>4. row[j].st = "none" /\ row'[k] = IF k = j THEN x ELSE row[k]
      BY <2>1, <2>2 DEF RowsOK, Rows
    <2> QED BY <2>3, <2>4
  <1> QED BY <1>1, <1>2

\* Rows of which only those change that record no payment, and that record none then.
LEMMA RowsHeld ==
    ASSUME MoneyInv, BackInv,
           \A k \in RowId : \/ row'[k].st = row[k].st /\ row'[k].ref = row[k].ref
                            \/ ~Recorded(row[k].st) /\ ~Recorded(row'[k].st)
    PROVE  /\ RowsFit(row', intent) /\ Told(row') = Told(row)
           /\ RefundsFit(row, intent) => RefundsFit(row', intent)
  <1>1. \A k \in RowId : Recorded(row'[k].st) <=> Recorded(row[k].st)
    BY DEF Recorded
  <1>2. Told(row') <=> Told(row)
    BY <1>1 DEF Told
  <1>3. RowsFit(row', intent)
    BY DEF BackInv, RowsFit
  <1>4. RefundsFit(row, intent) => RefundsFit(row', intent)
    BY DEF RefundsFit, Recorded
  <1> QED BY <1>2, <1>3, <1>4 DEF Told

\* A request that ends and writes rows that record no payment.
LEMMA BackWrites ==
    ASSUME MoneyInv, MoneyInv', BackInv, NEW r \in Req, Done(r), ~Closing(req[r]),
           UNCHANGED <<status, listing, intent, keys>>, mail' \subseteq mail,
           \A k \in RowId : \/ row'[k].st = row[k].st /\ row'[k].ref = row[k].ref
                            \/ ~Recorded(row[k].st) /\ ~Recorded(row'[k].st)
    PROVE  BackInv'
  <1>1. req' = [req EXCEPT ![r] = Idle] /\ req \in [Req -> Request]
    BY BackTypes DEF Done
  <1>2. /\ RowsFit(row', intent) /\ Told(row') = Told(row)
        /\ RefundsFit(row, intent) => RefundsFit(row', intent)
    BY RowsHeld
  <1>3. Shut(status', req') = Shut(status, req)
    BY <1>1, IdleFits, ShutStays
  <1>4. Marked(status', req', row', intent) /\ Repaid(status', req', intent)
    BY <1>2, <1>3 DEF BackInv, Marked, Repaid
  <1> QED BY <1>1, <1>2, <1>4, IdleFits, BackBooks DEF BackInv

\* Checkout writes rows that record no payment.
LEMMA AttachRows ==
    ASSUME MoneyInv, NEW r \in Req, AttachIntent(r), NEW k \in RowId
    PROVE  \/ row'[k].st = row[k].st /\ row'[k].ref = row[k].ref
           \/ ~Recorded(row[k].st) /\ ~Recorded(row'[k].st)
  <1>0. row \in [RowId -> Row] /\ RowsOK /\ Equipped(req[r])
    BY BackTypes DEF MoneyInv
  <1>1. PICK i \in Intent : i = req[r].intent
    BY <1>0 DEF AttachIntent, At, Equipped
  <1>2. CASE row' = [j \in RowId |-> IF j \in Rows({"pending"}) THEN [row[j] EXCEPT !.ref = i] ELSE row[j]]
    <2>1. row'[k] = IF k \in Rows({"pending"}) THEN [row[k] EXCEPT !.ref = i] ELSE row[k]
      BY <1>2
    <2>2. k \in Rows({"pending"}) => row[k].st = "pending" /\ row'[k].st = "pending"
      BY <1>0, <2>1 DEF Rows, Row
    <2> QED BY <2>1, <2>2 DEF Recorded
  <1>3. CASE RecordStripePayment(i, "pending")
    <2>1. \/ row'[k] = row[k]
          \/ /\ row[k].st # "none" /\ row[k].ref = i /\ row'[k].ref = i
             /\ row'[k].st = Merge(row[k].st, "pending") /\ row'[k].refunded = row[k].refunded
          \/ row[k].st = "none" /\ row'[k].ref = i /\ row'[k].st = "pending" /\ row'[k].refunded = 0
      BY <1>0, <1>3, RecordIs
    <2>2. \/ Merge(row[k].st, "pending") = row[k].st
          \/ ~Recorded(row[k].st) /\ Merge(row[k].st, "pending") = "pending"
      BY DEF Merge, Recorded
    <2> QED BY <2>1, <2>2 DEF Recorded
  <1>4. CASE UNCHANGED row
    BY <1>4
  <1>5. \/ row' = [j \in RowId |-> IF j \in Rows({"pending"}) THEN [row[j] EXCEPT !.ref = i] ELSE row[j]]
        \/ RecordStripePayment(i, "pending") \/ UNCHANGED row
    BY <1>1, Zenon DEF AttachIntent
  <1> QED BY <1>2, <1>3, <1>4, <1>5

\* The guest goes to checkout: a booking that was declined has its one intent already.
LEMMA CheckoutBack ==
    ASSUME Calm, MoneyInv, MoneyInv', BackInv, OneOf(intent'), NEW r \in Req, CheckoutStep(r)
    PROVE  BackInv'
  <1>0. req \in [Req -> Request] /\ intent \in [Intent -> IntentState] /\ row \in [RowId -> Row] /\ RowsOK
    BY BackTypes DEF MoneyInv
  <1>1. PICK q \in Request : q = req[r] /\ Fits(q, status, Told(row), intent) /\ Equipped(q)
    BY <1>0, BackTypes DEF BackInv
  <1>2. ASSUME StartCheckout(r) PROVE BackInv'
    <2>1. Begin(r, "checkout", "create", 0) /\ "checkout" \in HandlerNames /\ "create" \in Step /\ 0 \in Amount
      BY <1>2, Amounts DEF StartCheckout, HandlerNames, Step
    <2>2. UNCHANGED <<status, listing, row, stripeVars>>
      BY <1>2 DEF StartCheckout
    <2> QED BY <2>1, <2>2, BackBegins
  <1>3. ASSUME CreateIntent(r) PROVE BackInv'
    <2>1. PICK i \in Intent : /\ intent[i].st = "none" /\ intent' = [intent EXCEPT ![i].st = "open"]
                              /\ req' = [req EXCEPT ![r].pc = "attach", ![r].intent = i]
      BY <1>3 DEF CreateIntent
    <2>2. PICK y : y = [intent[i] EXCEPT !.st = "open"]
      OBVIOUS
    <2>3. y \in IntentState /\ intent' = [intent EXCEPT ![i] = y] /\ y.st = "open" /\ y.refunded = intent[i].refunded
      BY <1>0, <2>1, <2>2 DEF IntentState
    <2>4. intent[i].refunded <= intent[i].refunded
      BY <1>0, IntentIs
    <2>5. Later(intent[i], y)
      BY <2>1, <2>3, <2>4 DEF Later, Created, Charged
    <2>6. Grown(intent, intent') /\ intent'[i] = y /\ \A j \in Intent : j # i => intent'[j] = intent[j]
      BY <1>0, <2>3, <2>5, PutIntent
    <2>7. PICK x : x = [q EXCEPT !.pc = "attach", !.intent = i]
      OBVIOUS
    <2>8. /\ x \in Request /\ x.pc = "attach" /\ x.kind = q.kind /\ q.pc = "create"
          /\ req' = [req EXCEPT ![r] = x]
      BY <1>0, <1>1, <1>3, <2>1, <2>7 DEF Request, Step, CreateIntent, At
    <2>9. ~Closing(x) /\ ~Claims(x) /\ ~Closing(q)
      BY <2>8 DEF Closing, Claims
    <2>10. Fits(x, status, Told(row), intent')
      BY <1>1, <2>8, <2>9 DEF Fits
    <2>11. status # "declined"
      <3>1. SUFFICES ASSUME status = "declined" PROVE FALSE
        OBVIOUS
      <3>2. PICK k \in RowId : Recorded(row[k].st)
        BY <3>1 DEF BackInv, Told
      <3>3. row[k].ref \in Intent /\ Charged(intent[row[k].ref])
        BY <3>2 DEF BackInv, RowsFit
      <3>4. row[k].ref = i
        BY <2>1, <2>3, <2>6, <3>3 DEF OneOf, Charged
      <3> QED BY <2>1, <3>3, <3>4 DEF Charged
    <2>12. UNCHANGED <<status, listing, row, keys, mail>> /\ Told(row') = Told(row)
      BY <1>3 DEF CreateIntent
    <2> QED BY <1>1, <2>6, <2>8, <2>9, <2>10, <2>11, <2>12, BackAsks
  <1>4. ASSUME AttachIntent(r) PROVE BackInv'
    <2>1. q.pc = "attach" /\ q.intent \in Intent /\ ~Closing(q)
      BY <1>1, <1>4 DEF AttachIntent, At, Equipped, Closing
    <2>2. Done(r) /\ UNCHANGED <<status, listing, stripeVars>>
      BY <1>4, Zenon DEF AttachIntent
    <2>3. UNCHANGED <<intent, keys, mail>>
      BY <2>2 DEF stripeVars
    <2> QED BY <1>1, <1>4, <2>1, <2>2, <2>3, AttachRows, BackWrites
  <1> QED BY <1>2, <1>3, <1>4 DEF CheckoutStep

\* A webhook request takes an event, which is true.
LEMMA DeliverBack ==
    ASSUME MoneyInv, MoneyInv', BackInv, NEW r \in Req, NEW e \in mail, Deliver(r, e)
    PROVE  BackInv'
  <1>0. req \in [Req -> Request] /\ e \in Event
    BY BackTypes
  <1>1. PICK pc : pc = IF e.type \in {"succeeded", "capturable"} /\ status = "cancelled"
                       THEN "reverse" ELSE "record"
    OBVIOUS
  <1>2. PICK x : x = [Idle EXCEPT !.pc = pc, !.kind = "webhook", !.event = e]
    OBVIOUS
  <1>3. pc \in {"reverse", "record"} /\ pc \in Step /\ "webhook" \in HandlerNames
    BY <1>1 DEF Step, HandlerNames
  <1>4. x \in Request /\ x.pc = pc /\ x.kind = "webhook" /\ x.event = e
    BY <1>0, <1>2, <1>3, IdleIs DEF Request
  <1>5. /\ req' = [req EXCEPT ![r] = x] /\ req[r].pc = "idle"
        /\ UNCHANGED <<status, listing, row, stripeVars>>
    BY <1>1, <1>2 DEF Deliver, At
  <1>6. ~Closing(x) /\ ~Claims(x) /\ ~Closing(req[r])
    BY <1>3, <1>4, <1>5 DEF Closing, Claims
  <1>7. Fits(x, status, Told(row), intent)
    BY <1>3, <1>4, <1>6 DEF Fits, BackInv
  <1> QED BY <1>4, <1>5, <1>6, <1>7, BackGoes

\* A handled event is gone.
LEMMA Acked == ASSUME Calm, NEW e, Acknowledge(e) PROVE mail' = mail \ {e}
  BY DEF Acknowledge, Calm

\* A payment that came too late is let go, or sent back.
LEMMA ReverseBack ==
    ASSUME Calm, MoneyInv, MoneyInv', BackInv, NEW r \in Req, Reverse(r)
    PROVE  BackInv'
  <1>0. req \in [Req -> Request] /\ intent \in [Intent -> IntentState]
    BY BackTypes
  <1>1. PICK q \in Request : q = req[r] /\ q.pc = "reverse" /\ Equipped(q) /\ ~Closing(q)
    BY <1>0, BackTypes DEF Reverse, At, Closing
  <1>2. PICK e \in Event : e = q.event
    BY <1>1 DEF Equipped
  <1>3. PICK i \in Intent : i = e.intent
    BY DEF Event
  <1>4. PICK key : key = [intent |-> i, left |-> 0, ask |-> 0]
    OBVIOUS
  <1>5. PICK gone : gone = [type |-> "refunded", intent |-> i, amount |-> Total]
    OBVIOUS
  <1>6. PICK a \in IntentState : a = intent[i]
    BY <1>0
  <1>7. a.refunded \in Nat /\ a.refunded <= Total /\ Total \in Nat /\ a.refunded <= a.refunded
    BY IntentIs
  <1>8. Done(r) /\ UNCHANGED <<status, listing, row>>
    BY Zenon DEF Reverse
  <1>9. req' = [req EXCEPT ![r] = Idle] /\ Told(row') = Told(row)
    BY <1>8 DEF Done
  <1>10. \/ /\ a.st \in {"open", "held"} /\ intent' = [intent EXCEPT ![i].st = "canceled"]
            /\ Acknowledge(e) /\ UNCHANGED keys
         \/ /\ Left(i) > 0 /\ intent' = [intent EXCEPT ![i].refunded = Total]
            /\ keys' = keys \cup {key} /\ mail' = (mail \ {e}) \cup {gone}
         \/ Acknowledge(e) /\ UNCHANGED <<intent, keys>>
         \/ UNCHANGED stripeVars
    BY <1>1, <1>2, <1>3, <1>4, <1>5, <1>6, Zenon DEF Reverse
  <1>11. Acknowledge(e) => mail' \subseteq mail
    BY Acked
  <1>12. ASSUME NEW y \in IntentState, intent' = [intent EXCEPT ![i] = y], Later(a, y), Created(a),
                \A d \in mail' : d \in mail \/ Honest(d, intent'),
                \A k \in keys' : k \in keys \/ Sent(k, intent')
         PROVE  BackInv'
    <2>1. Grown(intent, intent') /\ intent'[i] = y /\ \A j \in Intent : j # i => intent'[j] = intent[j]
      BY <1>0, <1>6, <1>12, PutIntent
    <2>2. \A j \in Intent : Created(intent'[j]) => Created(intent[j])
      BY <1>6, <1>12, <2>1
    <2> QED BY <1>1, <1>8, <1>9, <1>12, <2>1, <2>2, IdleFits, BackAsks
  <1>13. CASE /\ a.st \in {"open", "held"} /\ intent' = [intent EXCEPT ![i].st = "canceled"]
              /\ Acknowledge(e) /\ UNCHANGED keys
    <2>1. PICK y : y = [a EXCEPT !.st = "canceled"]
      OBVIOUS
    <2>2. y \in IntentState /\ y.st = "canceled" /\ y.refunded = a.refunded
      BY <2>1 DEF IntentState
    <2>3. intent' = [intent EXCEPT ![i] = y]
      BY <1>0, <1>6, <1>13, <2>1
    <2>4. Later(a, y) /\ Created(a)
      BY <1>7, <1>13, <2>2 DEF Later, Created, Charged
    <2> QED BY <1>11, <1>12, <1>13, <2>2, <2>3, <2>4
  <1>14. CASE /\ Left(i) > 0 /\ intent' = [intent EXCEPT ![i].refunded = Total]
              /\ keys' = keys \cup {key} /\ mail' = (mail \ {e}) \cup {gone}
    <2>1. a.st = "succeeded"
      BY <1>6, <1>14, LeftIs
    <2>2. PICK y : y = [a EXCEPT !.refunded = Total]
      OBVIOUS
    <2>3. y \in IntentState /\ y.st = "succeeded" /\ y.refunded = Total
      BY <2>1, <2>2, Amounts DEF IntentState
    <2>4. intent' = [intent EXCEPT ![i] = y]
      BY <1>0, <1>6, <1>14, <2>2
    <2>5. Later(a, y) /\ Created(a) /\ intent'[i] = y
      BY <1>0, <1>7, <2>1, <2>3, <2>4 DEF Later, Created, Charged
    <2>6. gone.type = "refunded" /\ gone.intent = i /\ gone.amount = Total
      BY <1>5
    <2>7. Honest(gone, intent')
      BY <1>7, <2>3, <2>5, <2>6 DEF Honest
    <2>8. key.intent = i /\ key.left = 0 /\ key.ask = 0
      BY <1>4
    <2>9. Sent(key, intent')
      BY <1>7, <2>3, <2>5, <2>8 DEF Sent
    <2> QED BY <1>12, <1>14, <2>3, <2>4, <2>5, <2>7, <2>9
  <1>15. CASE UNCHANGED <<intent, keys>> /\ mail' \subseteq mail
    <2>1. Grown(intent, intent')
      BY <1>0, <1>15, SameIsLater
    <2> QED BY <1>1, <1>8, <1>9, <1>15, <2>1, IdleFits, BackAsks
  <1> QED BY <1>10, <1>11, <1>13, <1>14, <1>15 DEF stripeVars

\* What an event that is true makes of the rows.
LEMMA EventRows ==
    ASSUME MoneyInv, BackInv, NEW r \in Req, RecordEvent(r), NEW k \in RowId
    PROVE  /\ Recorded(row[k].st) => Recorded(row'[k].st) /\ row'[k].ref = row[k].ref
           /\ Recorded(row'[k].st) => row'[k].ref \in Intent /\ Charged(intent[row'[k].ref])
           /\ row'[k].st = "refunded" =>
                  \/ row[k].st = "refunded" /\ row'[k].ref = row[k].ref
                  \/ GoneBack(intent[row'[k].ref])
  <1>0. req \in [Req -> Request] /\ intent \in [Intent -> IntentState] /\ row \in [RowId -> Row] /\ RowsOK
    BY BackTypes DEF MoneyInv
  <1>1. PICK q \in Request : q = req[r] /\ Fits(q, status, Told(row), intent) /\ Equipped(q) /\ q.pc = "record"
    BY <1>0, BackTypes DEF BackInv, RecordEvent, At
  <1>2. PICK e \in Event : e = q.event /\ Honest(e, intent)
    BY <1>1 DEF Equipped, Fits
  <1>3. PICK i \in Intent : i = e.intent
    BY DEF Event
  <1>4. PICK a \in IntentState : a = intent[i]
    BY <1>0
  <1>5. a.refunded \in Nat /\ a.refunded <= Total /\ Total \in Nat /\ e.amount \in Nat
    BY IntentIs, Amounts DEF Event
  <1>6. Recorded(row[k].st) => row[k].ref \in Intent /\ Charged(intent[row[k].ref])
    BY DEF BackInv, RowsFit
  <1>7. CASE e.type = "refunded"
    <2>1. MarkPaymentRefunded(i, e.amount)
      BY <1>1, <1>2, <1>3, <1>7 DEF RecordEvent
    <2>2. row'[k] = IF row[k].st # "none" /\ row[k].ref = i
                    THEN [row[k] EXCEPT !.refunded = e.amount,
                                        !.st = IF e.amount >= Total THEN "refunded" ELSE row[k].st]
                    ELSE row[k]
      BY <2>1 DEF MarkPaymentRefunded
    <2>3. row[k] \in Row
      BY <1>0
    <2>4. CASE row[k].st # "none" /\ row[k].ref = i
      <3>1. row'[k].ref = i /\ row'[k].st = IF e.amount >= Total THEN "refunded" ELSE row[k].st
        BY <2>2, <2>3, <2>4 DEF Row
      <3>2. a.st = "succeeded" /\ e.amount <= a.refunded
        BY <1>2, <1>3, <1>4, <1>7 DEF Honest
      <3>3. e.amount >= Total => GoneBack(a)
        BY <1>5, <3>2 DEF GoneBack
      <3> QED BY <1>4, <2>4, <3>1, <3>2, <3>3 DEF Recorded, Charged
    <2>5. CASE ~(row[k].st # "none" /\ row[k].ref = i)
      BY <1>6, <2>2, <2>5
    <2> QED BY <2>4, <2>5
  <1>8. CASE e.type # "refunded"
    <2>1. PICK st : st = PaymentStatus(e.type)
      OBVIOUS
    <2>2. /\ st \in {"paid", "authorized", "failed", "pending"} /\ RecordStripePayment(i, st)
          /\ st \in {"paid", "authorized"} => e.type \in {"succeeded", "capturable"}
      BY <1>1, <1>2, <1>3, <1>8, <2>1 DEF RecordEvent, PaymentStatus
    <2>3. st \in {"paid", "authorized"} => Charged(intent[i])
      BY <1>2, <1>3, <2>2 DEF Honest, Charged
    <2>4. \/ row'[k] = row[k]
          \/ /\ row[k].st # "none" /\ row[k].ref = i /\ row'[k].ref = i
             /\ row'[k].st = Merge(row[k].st, st) /\ row'[k].refunded = row[k].refunded
          \/ row[k].st = "none" /\ row'[k].ref = i /\ row'[k].st = st /\ row'[k].refunded = 0
      BY <1>0, <2>2, RecordIs
    <2>5. /\ Recorded(row[k].st) => Recorded(Merge(row[k].st, st))
          /\ Recorded(Merge(row[k].st, st)) => Recorded(row[k].st) \/ st \in {"paid", "authorized"}
          /\ Merge(row[k].st, st) = "refunded" => row[k].st = "refunded"
      BY <2>2 DEF Merge, Recorded
    <2> QED BY <1>6, <2>2, <2>3, <2>4, <2>5 DEF Recorded
  <1> QED BY <1>7, <1>8

\* An event is recorded.
LEMMA RecordBack ==
    ASSUME Calm, MoneyInv, MoneyInv', BackInv, NEW r \in Req, RecordEvent(r)
    PROVE  BackInv'
  <1>0. req \in [Req -> Request]
    BY BackTypes
  <1>1. PICK q \in Request : q = req[r] /\ q.pc = "record" /\ Fits(q, status, Told(row), intent)
    BY <1>0 DEF BackInv, RecordEvent, At
  <1>2. ~Closing(q)
    BY <1>1 DEF Closing
  <1>3. UNCHANGED <<status, listing, intent, keys>>
    BY DEF RecordEvent
  <1>4. /\ Told(row) => Told(row')
        /\ RowsFit(row', intent)
        /\ RefundsFit(row, intent) => RefundsFit(row', intent)
    BY EventRows DEF Told, RowsFit, RefundsFit
  <1>5. ASSUME NEW x \in Request, req' = [req EXCEPT ![r] = x], ~Closing(x), ~Claims(x),
               Fits(x, status, Told(row'), intent), mail' \subseteq mail
        PROVE  BackInv'
    <2>1. Shut(status', req') = Shut(status, req)
      BY <1>0, <1>1, <1>2, <1>3, <1>5, ShutStays
    <2>2. Marked(status', req', row', intent) /\ Repaid(status', req', intent)
      BY <1>3, <1>4, <2>1 DEF BackInv, Marked, Repaid
    <2> QED BY <1>3, <1>4, <1>5, <2>2, BackBooks DEF BackInv
  <1>6. CASE q.event.type = "succeeded"
    <2>1. PICK x : x = [q EXCEPT !.pc = "instant"]
      OBVIOUS
    <2>2. x \in Request /\ x.pc = "instant" /\ x.kind = q.kind /\ x.event = q.event
      BY <2>1 DEF Request, Step
    <2>3. req' = [req EXCEPT ![r] = x] /\ UNCHANGED mail
      BY <1>0, <1>1, <1>6, <2>1 DEF RecordEvent, Goto
    <2>4. ~Closing(x) /\ ~Claims(x)
      BY <2>2 DEF Closing, Claims
    <2>5. Fits(x, status, Told(row'), intent)
      BY <1>1, <1>4, <1>6, <2>2, <2>4 DEF Fits
    <2> QED BY <1>5, <2>2, <2>3, <2>4, <2>5
  <1>7. CASE q.event.type # "succeeded"
    <2>1. Done(r) /\ Acknowledge(q.event)
      BY <1>1, <1>7 DEF RecordEvent
    <2>2. req' = [req EXCEPT ![r] = Idle] /\ mail' \subseteq mail
      BY <2>1, Acked DEF Done
    <2> QED BY <1>5, <2>2, IdleFits
  <1> QED BY <1>6, <1>7

\* A payment in full confirms a booking that needs no answer.
LEMMA InstantBack ==
    ASSUME Calm, MoneyInv, MoneyInv', BackInv, NEW r \in Req, ConfirmInstantBook(r)
    PROVE  BackInv'
  <1>1. /\ req[r].pc = "instant" /\ ~Closing(req[r]) /\ Done(r)
        /\ UNCHANGED <<listing, row, intent, keys>> /\ mail' \subseteq mail
    BY Acked DEF ConfirmInstantBook, At, Closing
  <1>2. CASE UNCHANGED status
    BY <1>1, <1>2, BackWrites
  <1>3. CASE ~UNCHANGED status
    <2>1. status = "pending" /\ status' = "confirmed"
      BY <1>3 DEF ConfirmInstantBook
    <2>2. RefundsFit(row, intent) /\ \A p \in Req : ~Claims(req[p])
      BY <2>1 DEF BackInv, Marked, Fits
    <2>3. Marked(status', req', row', intent) /\ Repaid(status', req', intent)
      BY <1>1, <2>1, <2>2 DEF Marked, Repaid
    <2>4. req' = [req EXCEPT ![r] = Idle] /\ Told(row') = Told(row)
      BY <1>1 DEF Done
    <2> QED BY <1>1, <2>1, <2>2, <2>3, <2>4, IdleFits, BackBooks DEF BackInv
  <1> QED BY <1>2, <1>3

\* The webhook.
LEMMA WebhookBack ==
    ASSUME Calm, MoneyInv, MoneyInv', BackInv, NEW r \in Req, WebhookStep(r)
    PROVE  BackInv'
  BY DeliverBack, ReverseBack, RecordBack, InstantBack DEF WebhookStep

\* A hold ends that nobody has claimed.
LEMMA HoldEndsBack ==
    ASSUME MoneyInv, MoneyInv', BackInv, NEW r \in Req, NEW x \in Request,
           req' = [req EXCEPT ![r] = x], ~Claims(x), Fits(x, "cancelled", Told(row), intent),
           status = "pending", status' = "cancelled", row' = FailPending,
           UNCHANGED <<listing, stripeVars>>
    PROVE  BackInv'
  <1>0. req \in [Req -> Request] /\ row \in [RowId -> Row]
    BY BackTypes
  <1>1. UNCHANGED <<intent, keys, mail>>
    BY DEF stripeVars
  <1>2. ASSUME NEW k \in RowId
        PROVE  \/ row'[k].st = row[k].st /\ row'[k].ref = row[k].ref
               \/ ~Recorded(row[k].st) /\ ~Recorded(row'[k].st)
    <2>1. row'[k] = IF row[k].st = "pending" THEN [row[k] EXCEPT !.st = "failed"] ELSE row[k]
      BY DEF FailPending
    <2>2. row[k] \in Row
      BY <1>0
    <2> QED BY <2>1, <2>2 DEF Row, Recorded
  <1>3. RowsFit(row', intent) /\ Told(row') = Told(row)
    BY <1>2, RowsHeld
  <1>4. \A p \in Req : ~Claims(req[p])
    BY DEF BackInv, Fits
  <1>5. Shut(status', req')
    BY <1>0, <1>4 DEF Shut, Claims
  <1>6. Marked(status', req', row', intent) /\ Repaid(status', req', intent)
    BY <1>5 DEF Marked, Repaid
  <1>7. mail' \subseteq mail /\ Fits(x, status', Told(row'), intent) /\ UNCHANGED <<listing, intent, keys>>
    BY <1>1, <1>3
  <1> QED BY <1>3, <1>4, <1>6, <1>7, BackBooks

\* The sweep over the unpaid holds.
LEMMA ExpireBack ==
    ASSUME MoneyInv, MoneyInv', BackInv, NEW r \in Req, ExpireUnpaid(r) \/ ReleaseOwnHold(r)
    PROVE  BackInv'
  <1>0. req \in [Req -> Request] /\ row \in [RowId -> Row]
    BY BackTypes
  <1>1. /\ status = "pending" /\ status' = "cancelled" /\ row' = FailPending
        /\ UNCHANGED <<listing, stripeVars>>
    BY DEF ExpireUnpaid, ReleaseOwnHold
  <1>2. CASE Done(r)
    BY <1>1, <1>2, IdleFits, HoldEndsBack DEF Done
  <1>3. CASE ~Done(r)
    <2> DEFINE open == {k \in Rows({"pending"}) : row[k].ref # None}
    <2>1. open # {} /\ ExpireUnpaid(r)
      BY <1>3 DEF ExpireUnpaid, ReleaseOwnHold, Done
    <2>2. open \subseteq RowId
      BY DEF Rows
    <2>3. Max(open) \in open
      BY <2>1, <2>2, MaxIn
    <2>4. PICK i \in Intent : i = row[Max(open)].ref
      BY <1>0, <2>2, <2>3 DEF Row
    <2>5. PICK x : x = [Idle EXCEPT !.pc = "close", !.kind = "expire", !.intent = i]
      OBVIOUS
    <2>6. x \in Request /\ x.pc = "close" /\ x.kind = "expire"
      BY <2>5, IdleIs DEF Request, Step, HandlerNames
    <2>7. req' = [req EXCEPT ![r] = x]
      BY <2>1, <2>4, <2>5 DEF ExpireUnpaid
    <2>8. ~Claims(x) /\ ~Closing(x)
      BY <2>6 DEF Claims, Closing
    <2>9. Fits(x, "cancelled", Told(row), intent)
      BY <2>6, <2>8 DEF Fits
    <2> QED BY <1>1, <2>6, <2>7, <2>8, <2>9, HoldEndsBack
  <1> QED BY <1>2, <1>3

\* The sweep drops nothing of a booking that was answered.
LEMMA DropBack == ASSUME MoneyInv, MoneyInv', BackInv, NEW r \in Req, DropNothing(r) PROVE BackInv'
  <1>1. Done(r) /\ ~Closing(req[r]) /\ UNCHANGED <<status, listing, row, stripeVars>>
    BY DEF DropNothing, At, Closing
  <1> QED BY <1>1, BackDone

\* The intent of a hold that ended is closed, or not.
LEMMA CloseBack == ASSUME MoneyInv, MoneyInv', BackInv, NEW r \in Req, CloseIntent(r) PROVE BackInv'
  <1>0. intent \in [Intent -> IntentState] /\ Equipped(req[r])
    BY BackTypes
  <1>1. req[r].pc = "close" /\ ~Closing(req[r]) /\ Done(r) /\ UNCHANGED <<status, listing, row>>
    BY DEF CloseIntent, At, Closing
  <1>2. PICK i \in Intent : i = req[r].intent
    BY <1>0, <1>1 DEF Equipped
  <1>3. req' = [req EXCEPT ![r] = Idle] /\ Told(row') = Told(row)
    BY <1>1 DEF Done
  <1>4. CASE UNCHANGED stripeVars
    BY <1>1, <1>4, BackDone
  <1>5. CASE StripeCancel(i)
    <2>1. PICK x \in IntentState : x = intent[i]
      BY <1>0
    <2>2. PICK y : y = [x EXCEPT !.st = "canceled"]
      OBVIOUS
    <2>3. y \in IntentState /\ y.st = "canceled" /\ y.refunded = x.refunded
      BY <2>2 DEF IntentState
    <2>4. intent' = [intent EXCEPT ![i] = y] /\ x.st \in {"open", "held"} /\ UNCHANGED <<keys, mail>>
      BY <1>0, <1>5, <2>1, <2>2 DEF StripeCancel
    <2>5. x.refunded <= x.refunded
      BY IntentIs
    <2>6. Later(intent[i], y)
      BY <2>1, <2>3, <2>4, <2>5 DEF Later, Created, Charged
    <2>7. Grown(intent, intent') /\ intent'[i] = y /\ \A j \in Intent : j # i => intent'[j] = intent[j]
      BY <1>0, <2>3, <2>4, <2>6, PutIntent
    <2>8. \A j \in Intent : Created(intent'[j]) => Created(intent[j])
      BY <2>1, <2>4, <2>7 DEF Created
    <2> QED BY <1>1, <1>3, <2>4, <2>7, <2>8, IdleFits, BackAsks
  <1> QED BY <1>2, <1>4, <1>5 DEF CloseIntent

\* A stay ends, and what was held for it counts as paid.
LEMMA CompleteBack ==
    ASSUME MoneyInv, MoneyInv', BackInv, NEW r \in Req, CompleteStay(r) \/ SettlePayment(r)
    PROVE  BackInv'
  <1>0. req \in [Req -> Request] /\ row \in [RowId -> Row]
    BY BackTypes
  <1>1. ASSUME CompleteStay(r) PROVE BackInv'
    <2>1. PICK x : x = [Idle EXCEPT !.pc = "settle", !.kind = "complete"]
      OBVIOUS
    <2>2. x \in Request /\ x.pc = "settle" /\ x.kind = "complete"
      BY <2>1, IdleIs DEF Request, Step, HandlerNames
    <2>3. /\ req' = [req EXCEPT ![r] = x] /\ req[r].pc = "idle" /\ status = "confirmed" /\ status' = "completed"
          /\ UNCHANGED <<listing, row, intent, keys, mail>>
      BY <1>1, <2>1 DEF CompleteStay, At, stripeVars
    <2>4. ~Closing(x) /\ ~Claims(x) /\ Told(row') = Told(row)
      BY <2>2, <2>3 DEF Closing, Claims
    <2>5. Fits(x, status', Told(row'), intent)
      BY <2>2, <2>4 DEF Fits
    <2>6. RefundsFit(row, intent) /\ \A p \in Req : ~Claims(req[p])
      BY <2>3 DEF BackInv, Marked, Fits
    <2>7. Marked(status', req', row', intent) /\ Repaid(status', req', intent)
      BY <2>3, <2>6 DEF Marked, Repaid
    <2> QED BY <2>2, <2>3, <2>4, <2>5, <2>6, <2>7, BackBooks DEF BackInv
  <1>2. ASSUME SettlePayment(r) PROVE BackInv'
    <2>1. /\ req[r].pc = "settle" /\ ~Closing(req[r]) /\ Done(r)
          /\ UNCHANGED <<status, listing, intent, keys, mail>>
      BY <1>2 DEF SettlePayment, At, Closing, stripeVars
    <2>2. req' = [req EXCEPT ![r] = Idle]
      BY <2>1 DEF Done
    <2>3. ASSUME NEW k \in RowId
          PROVE  /\ row'[k].ref = row[k].ref /\ Recorded(row'[k].st) = Recorded(row[k].st)
                 /\ row'[k].st = "refunded" => row[k].st = "refunded"
      <3>1. row'[k] = IF row[k].st = "authorized" THEN [row[k] EXCEPT !.st = "paid"] ELSE row[k]
        BY <1>2 DEF SettlePayment
      <3>2. row[k] \in Row
        BY <1>0
      <3> QED BY <3>1, <3>2 DEF Row, Recorded
    <2>4. Told(row') = Told(row) /\ RowsFit(row', intent) /\ (RefundsFit(row, intent) => RefundsFit(row', intent))
      BY <2>3 DEF BackInv, Told, RowsFit, RefundsFit
    <2>5. Shut(status', req') = Shut(status, req)
      BY <1>0, <2>1, <2>2, IdleFits, ShutStays
    <2>6. Marked(status', req', row', intent) /\ Repaid(status', req', intent)
      BY <2>1, <2>4, <2>5 DEF BackInv, Marked, Repaid
    <2> QED BY <2>1, <2>2, <2>4, <2>6, IdleFits, BackBooks DEF BackInv
  <1> QED BY <1>1, <1>2

\* The guest pays, or tries to: a declined booking that is shut has no intent open.
LEMMA PayBack ==
    ASSUME MoneyInv, MoneyInv', BackInv, NEW i \in Intent, Pay(i) \/ PayFails(i)
    PROVE  BackInv'
  <1>0. /\ req \in [Req -> Request] /\ intent \in [Intent -> IntentState] /\ \A p \in Req : Equipped(req[p])
        /\ mail \subseteq Event /\ keys \subseteq Key /\ intent' \in [Intent -> IntentState]
    BY BackTypes, BackTypesNext
  <1>1. UNCHANGED <<status, listing, row, keys, req>> /\ intent[i].st = "open"
    BY DEF Pay, PayFails
  <1>2. PICK x \in IntentState : x = intent[i]
    BY <1>0
  <1>3. x.refunded \in Nat /\ x.refunded <= x.refunded
    BY IntentIs
  <1>4. /\ Grown(intent, intent')
        /\ \A j \in Intent : j # i => intent'[j] = intent[j]
        /\ \A e \in mail' : e \in mail \/ Honest(e, intent')
    <2>1. ASSUME Pay(i)
          PROVE  /\ Grown(intent, intent')
                 /\ \A j \in Intent : j # i => intent'[j] = intent[j]
                 /\ \A e \in mail' : e \in mail \/ Honest(e, intent')
      <3>1. PICK st : st = IF listing.manual THEN "held" ELSE "succeeded"
        OBVIOUS
      <3>2. PICK type : type = IF listing.manual THEN "capturable" ELSE "succeeded"
        OBVIOUS
      <3>3. PICK y : y = [x EXCEPT !.st = st]
        OBVIOUS
      <3>4. y \in IntentState /\ y.st = st /\ y.refunded = x.refunded
        BY <3>1, <3>3 DEF IntentState
      <3>5. intent' = [intent EXCEPT ![i] = y]
        BY <1>0, <1>2, <2>1, <3>1, <3>3 DEF Pay
      <3>6. Later(intent[i], y)
        BY <1>1, <1>2, <1>3, <3>1, <3>4 DEF Later, Created, Charged
      <3>7. Grown(intent, intent') /\ intent'[i] = y /\ \A j \in Intent : j # i => intent'[j] = intent[j]
        BY <1>0, <3>4, <3>5, <3>6, PutIntent
      <3>8. PICK e : e = [type |-> type, intent |-> i, amount |-> Total]
        OBVIOUS
      <3>9. mail' = mail \cup {e} /\ e.type = type /\ e.intent = i /\ e.amount = Total
        BY <2>1, <3>2, <3>8 DEF Pay
      <3>10. Honest(e, intent')
        BY <3>1, <3>2, <3>4, <3>7, <3>9 DEF Honest, Charged
      <3> QED BY <3>7, <3>9, <3>10
    <2>2. ASSUME PayFails(i)
          PROVE  /\ Grown(intent, intent')
                 /\ \A j \in Intent : j # i => intent'[j] = intent[j]
                 /\ \A e \in mail' : e \in mail \/ Honest(e, intent')
      <3>1. PICK e : e = [type |-> "failed", intent |-> i, amount |-> Total]
        OBVIOUS
      <3>2. mail' = mail \cup {e} /\ UNCHANGED intent /\ e.type = "failed"
        BY <2>2, <3>1 DEF PayFails
      <3>3. Honest(e, intent')
        BY <3>2 DEF Honest
      <3> QED BY <1>0, <3>2, <3>3, SameIsLater
    <2> QED BY <2>1, <2>2
  <1>5. \A p \in Req : Fits(req'[p], status', Told(row'), intent')
    <2>1. ASSUME NEW p \in Req PROVE Fits(req[p], status, Told(row), intent')
      BY <1>0, <1>4, FitsStays DEF BackInv
    <2> QED BY <1>1, <2>1
  <1>6. \A e \in mail' : Honest(e, intent')
    BY <1>0, <1>4, HonestStays DEF BackInv
  <1>7. \A k \in keys' : Sent(k, intent')
    BY <1>0, <1>1, <1>4, SentStays DEF BackInv
  <1>8. RowsFit(row', intent') /\ Told(row) = Told(row') /\ (RefundsFit(row, intent) => RefundsFit(row', intent'))
    BY <1>1, <1>4, RowsStay
  <1>9. Marked(status', req', row', intent')
    BY <1>1, <1>8 DEF BackInv, Marked
  <1>10. ~(status = "declined" /\ Shut(status, req))
    BY <1>1 DEF BackInv, Repaid, Created, GoneBack
  <1>11. Repaid(status', req', intent')
    BY <1>1, <1>10 DEF Repaid
  <1>12. /\ ~listing'.rebooked /\ (status' = "declined" => Told(row'))
         /\ \A p, r \in Req : Claims(req'[p]) /\ Claims(req'[r]) => p = r
    BY <1>1 DEF BackInv
  <1> QED BY <1>5, <1>6, <1>7, <1>8, <1>9, <1>11, <1>12 DEF BackInv

\* A booking that was just made.
LEMMA BackInit == Init => BackInv
  <1> SUFFICES ASSUME Init PROVE BackInv
    OBVIOUS
  <1>1. \A r \in Req : Fits(req[r], status, Told(row), intent) /\ ~Claims(req[r])
    BY IdleFits DEF Init
  <1>2. \A k \in RowId : ~Recorded(row[k].st)
    BY DEF Init, NoRow, Recorded
  <1>3. RowsFit(row, intent) /\ RefundsFit(row, intent)
    BY <1>2 DEF RowsFit, RefundsFit, Recorded
  <1> QED BY <1>1, <1>3 DEF BackInv, Init, Marked, Repaid

\* Whatever a step does, intents grow: none is unmade, and what was taken, let go or
\* sent back stays so.
LEMMA StepGrows == ASSUME MoneyInv, [Next]_vars PROVE Grown(intent, intent')
  <1>0. intent \in [Intent -> IntentState] /\ req \in [Req -> Request] /\ \A r \in Req : Equipped(req[r])
    BY BackTypes
  <1>1. ASSUME NEW i \in Intent, NEW x \in IntentState, intent' = [intent EXCEPT ![i] = x], Later(intent[i], x)
        PROVE  Grown(intent, intent')
    BY <1>0, <1>1, PutIntent
  <1>2. ASSUME NEW i \in Intent, NEW st \in {"open", "held", "succeeded", "canceled"},
               intent' = [intent EXCEPT ![i].st = st],
               \/ intent[i].st = st
               \/ intent[i].st = "none"
               \/ intent[i].st = "open" /\ st # "open"
               \/ intent[i].st = "held" /\ st \in {"succeeded", "canceled"}
        PROVE  Grown(intent, intent')
    <2>1. PICK a \in IntentState : a = intent[i]
      BY <1>0
    <2>2. PICK x : x = [a EXCEPT !.st = st]
      OBVIOUS
    <2>3. x \in IntentState /\ x.st = st /\ x.refunded = a.refunded /\ intent' = [intent EXCEPT ![i] = x]
      BY <1>0, <1>2, <2>1, <2>2 DEF IntentState
    <2>4. a.refunded <= a.refunded
      BY IntentIs
    <2>5. Later(intent[i], x)
      BY <1>2, <2>1, <2>3, <2>4 DEF Later, Created, Charged
    <2> QED BY <1>1, <2>3, <2>5
  <1>3. ASSUME NEW i \in Intent, NEW back \in Amount, intent' = [intent EXCEPT ![i].refunded = back],
               intent[i].refunded <= back
        PROVE  Grown(intent, intent')
    <2>1. PICK a \in IntentState : a = intent[i]
      BY <1>0
    <2>2. PICK x : x = [a EXCEPT !.refunded = back]
      OBVIOUS
    <2>3. x \in IntentState /\ x.st = a.st /\ x.refunded = back /\ intent' = [intent EXCEPT ![i] = x]
      BY <1>0, <1>3, <2>1, <2>2 DEF IntentState
    <2>4. Later(intent[i], x)
      BY <1>3, <2>1, <2>3 DEF Later, Created, Charged
    <2> QED BY <1>1, <2>3, <2>4
  <1>4. ASSUME UNCHANGED intent PROVE Grown(intent, intent')
    BY <1>0, <1>4, SameIsLater
  <1>5. ASSUME NEW r \in Req, RefundStep(r) PROVE Grown(intent, intent')
    <2>1. CASE UNCHANGED stripeVars
      BY <1>4, <2>1 DEF stripeVars
    <2>2. CASE ~UNCHANGED stripeVars
      <3>1. StripeCall(r)
        BY <1>5, <2>2, Zenon DEF RefundStep, Claim, Look, Unclaim, FinishDecline, FinishCancel
      <3>2. StripeDoes(r)
        BY <2>2, <3>1, Zenon DEF StripeCall
      <3>3. PICK q \in Request : q = req[r]
        BY <1>0
      <3>4. PICK i \in Intent : i = q.intent
        BY <1>0, <3>1, <3>3 DEF StripeCall, At, Equipped
      <3>5. CASE q.call = "capture"
        <4>1. StripeCapture(i)
          BY <3>2, <3>3, <3>4, <3>5 DEF StripeDoes
        <4> QED BY <1>2, <4>1 DEF StripeCapture
      <3>6. CASE q.call = "cancel"
        <4>1. StripeCancel(i)
          BY <3>2, <3>3, <3>4, <3>6 DEF StripeDoes
        <4> QED BY <1>2, <4>1 DEF StripeCancel
      <3>7. CASE q.call \notin {"capture", "cancel"}
        <4>1. PICK k : k = [intent |-> i, left |-> q.left, ask |-> q.ask]
          OBVIOUS
        <4>2. StripeRefund(k, q.ask) /\ k.intent = i
          BY <3>2, <3>3, <3>4, <3>7, <4>1 DEF StripeDoes
        <4>3. intent' = [intent EXCEPT ![i].refunded = intent[i].refunded + q.ask] /\ q.ask <= Left(i) /\ 0 < q.ask
          BY <2>2, <4>2 DEF StripeRefund
        <4>4. PICK a \in IntentState : a = intent[i]
          BY <1>0
        <4>5. a.refunded \in Nat /\ a.refunded <= Total /\ Total \in Nat /\ q.ask \in Nat
          BY IntentIs, Amounts DEF Request
        <4>6. Left(i) \in Nat /\ (Left(i) > 0 => a.refunded + Left(i) = Total)
          BY <4>4, LeftIs
        <4>7. PICK back : back = a.refunded + q.ask
          OBVIOUS
        <4>8. back \in Nat /\ back <= Total /\ a.refunded <= back
          BY <4>3, <4>5, <4>6, <4>7
        <4>9. back \in Amount
          BY <4>8, Amounts
        <4> QED BY <1>3, <4>3, <4>4, <4>7, <4>8, <4>9
      <3> QED BY <3>5, <3>6, <3>7
    <2> QED BY <2>1, <2>2
  <1>6. ASSUME NEW r \in Req, CheckoutStep(r) PROVE Grown(intent, intent')
    <2>1. CASE UNCHANGED intent
      BY <1>4, <2>1
    <2>2. CASE ~UNCHANGED intent
      <3>1. CreateIntent(r)
        BY <1>6, <2>2 DEF CheckoutStep, StartCheckout, AttachIntent, stripeVars
      <3> QED BY <1>2, <3>1 DEF CreateIntent
    <2> QED BY <2>1, <2>2
  <1>7. ASSUME NEW r \in Req, WebhookStep(r) PROVE Grown(intent, intent')
    <2>1. CASE UNCHANGED intent
      BY <1>4, <2>1
    <2>2. CASE ~UNCHANGED intent
      <3>1. Reverse(r)
        BY <1>7, <2>2 DEF WebhookStep, Deliver, RecordEvent, ConfirmInstantBook, stripeVars
      <3>2. PICK e \in Event : e = req[r].event
        BY <1>0, <3>1 DEF Reverse, At, Equipped
      <3>3. PICK i \in Intent : i = e.intent
        BY DEF Event
      <3>4. \/ intent' = [intent EXCEPT ![i].st = "canceled"] /\ intent[i].st \in {"open", "held"}
            \/ intent' = [intent EXCEPT ![i].refunded = Total]
        BY <2>2, <3>1, <3>2, <3>3, Zenon DEF Reverse, stripeVars
      <3>5. intent[i] \in IntentState
        BY <1>0
      <3>6. intent[i].refunded <= Total
        BY <3>5, IntentIs
      <3> QED BY <1>2, <1>3, <3>4, <3>6, Amounts
    <2> QED BY <2>1, <2>2
  <1>8. ASSUME NEW r \in Req, SweepStep(r) PROVE Grown(intent, intent')
    <2>1. CASE UNCHANGED intent
      BY <1>4, <2>1
    <2>2. CASE ~UNCHANGED intent
      <3>1. CloseIntent(r)
        BY <1>8, <2>2 DEF SweepStep, ExpireUnpaid, ReleaseOwnHold, DropNothing, CompleteStay, SettlePayment,
                              stripeVars
      <3>2. PICK i \in Intent : i = req[r].intent
        BY <1>0, <3>1 DEF CloseIntent, At, Equipped
      <3>3. intent' = [intent EXCEPT ![i].st = "canceled"] /\ intent[i].st \in {"open", "held"}
        BY <2>2, <3>1, <3>2 DEF CloseIntent, StripeCancel, stripeVars
      <3> QED BY <1>2, <3>3
    <2> QED BY <2>1, <2>2
  <1>9. ASSUME NEW r \in Req, Start(r) \/ DecideStep(r) \/ LoseRequest(r) PROVE UNCHANGED intent
    BY <1>9, Zenon DEF Start, DecideStep, DecideConfirm, AdminClose, AdminNote, AdminGrant, AdminPay, LoseRequest, stripeVars
  <1>10. ASSUME NEW i \in Intent, Pay(i) \/ PayFails(i) PROVE Grown(intent, intent')
    <2>1. PICK st : st = IF listing.manual THEN "held" ELSE "succeeded"
      OBVIOUS
    <2>2. UNCHANGED intent \/ intent' = [intent EXCEPT ![i].st = st]
      BY <1>10, <2>1 DEF Pay, PayFails
    <2>3. st \in {"held", "succeeded"} /\ intent[i].st = "open"
      BY <1>10, <2>1 DEF Pay, PayFails
    <2> QED BY <1>2, <1>4, <2>2, <2>3
  <1>11. CASE Rebook \/ UNCHANGED vars
    BY <1>4, <1>11 DEF Rebook, vars, stripeVars
  <1> QED BY <1>4, <1>5, <1>6, <1>7, <1>8, <1>9, <1>10, <1>11 DEF Next

\* A booking of one intent had no more before.
LEMMA OneBefore == ASSUME MoneyInv, [Next]_vars, OneOf(intent') PROVE OneOf(intent)
  BY StepGrows DEF OneOf, Grown, Later, Created

\* Every step keeps the invariant of a booking of one intent.
LEMMA BackKeeps ==
    ASSUME Calm, MoneyInv, [Next]_vars, BackInv, OneOf(intent')
    PROVE  BackInv'
  <1>0. MoneyInv' /\ OneOf(intent)
    BY StepTypes, OneBefore
  <1>1. ASSUME NEW r \in Req, RefundStep(r) PROVE BackInv'
    BY <1>0, <1>1, ClaimBack, LookBack, CallBack, UnclaimBack, FinishBack DEF RefundStep
  <1>2. ASSUME NEW r \in Req, Start(r) \/ DecideStep(r) \/ CheckoutStep(r) \/ WebhookStep(r) PROVE BackInv'
    BY <1>0, <1>2, StartBack, DecideBack, CheckoutBack, WebhookBack
  <1>3. ASSUME NEW r \in Req, SweepStep(r) PROVE BackInv'
    BY <1>0, <1>3, ExpireBack, DropBack, CloseBack, CompleteBack DEF SweepStep
  <1>4. ASSUME NEW r \in Req, LoseRequest(r) PROVE FALSE
    BY <1>4 DEF LoseRequest, Calm
  <1>5. ~Rebook
    BY DEF Rebook, Calm
  <1>6. CASE UNCHANGED vars
    <2>1. UNCHANGED <<status, listing, row, intent, keys, mail, req>>
      BY <1>6 DEF vars, stripeVars
    <2> QED BY <2>1 DEF BackInv
  <1> QED BY <1>0, <1>1, <1>2, <1>3, <1>4, <1>5, <1>6, PayBack DEF Next

\* Once nobody is at a booking that was declined, its money is with the guest.
LEMMA DeclinedIsBack == ASSUME MoneyInv, BackInv PROVE DeclinedGivesBack
  <1> SUFFICES ASSUME Quiet, status = "declined", NEW i \in Intent PROVE Returned(i) = Total
    BY DEF DeclinedGivesBack
  <1>1. Shut(status, req)
    BY DEF Quiet, Shut, Closing
  <1>2. Created(intent[i]) => GoneBack(intent[i])
    BY <1>1 DEF BackInv, Repaid
  <1> QED BY <1>2 DEF Returned, Created, GoneBack

-------------------------------------------------------------------------------
(* The same of what was taken, where at most two requests meet              *)

\* An intent was captured; none was let go; news of a held payment is on its way.
Captured(a)     == \E i \in Intent : a[i].st = "succeeded"
Standing(a)     == \A i \in Intent : a[i].st # "canceled"
Announced(m)    == \E e \in m : e.type = "capturable"
Recording(q)    == q.pc = "record" /\ q.event.type = "capturable"
Reversing(q)    == q.pc = "reverse" /\ q.event.type = "capturable"
HoldNews(m, qs) == Announced(m) \/ \E r \in Req : Recording(qs[r])

\* What a request may count on besides: money that was taken, or a booking shut.
Backed(q, shut, taken) ==
    /\ q.pc = "decide" \/ q.kind = "compensate" => shut \/ taken
    /\ (q.pc = "claim" \/ Closing(q)) /\ q.seen = "confirmed" => taken
    /\ q.pc = "settle" => taken
    /\ q.pc = "close" => shut

\* A held payment is reversed of a booking that is shut, or that is about to be by a
\* request that finds no payment recorded.
Late(s, qs, told) == Shut(s, qs) \/ (~told /\ \E p \in Req : Closing(qs[p]) /\ qs[p].pc = "look")

\* Rows that are paid were taken.
PaidFit(rows, a) == \A k \in RowId : rows[k].st = "paid" => rows[k].ref \in Intent /\ a[rows[k].ref].st = "succeeded"

TakenInv ==
    /\ ~Shut(status, req) /\ (Told(row) \/ HoldNews(mail, req)) => Standing(intent)
    /\ \A r \in Req : Backed(req[r], Shut(status, req), Captured(intent))
    /\ \A r \in Req : Reversing(req[r]) => Late(status, req, Told(row))
    /\ status \in {"confirmed", "completed"} => Captured(intent)
    /\ Told(row) \/ Captured(intent) => ~Announced(mail)
    /\ PaidFit(row, intent)

\* What was taken stays taken, and a paid row too.
LEMMA TakenStays ==
    ASSUME NEW a, NEW b, Grown(a, b)
    PROVE  /\ Captured(a) => Captured(b)
           /\ \A rows : PaidFit(rows, a) => PaidFit(rows, b)
  BY DEF Captured, PaidFit, Grown, Later

\* What a request may count on stays.
LEMMA BackedStays ==
    ASSUME NEW q, NEW shut, NEW close, shut => close, NEW taken, NEW more, taken => more,
           Backed(q, shut, taken)
    PROVE  Backed(q, close, more)
  BY DEF Backed

\* The invariant of a booking of one intent.
OneInv == MoneyInv /\ BackInv /\ OneOf(intent)

\* At most two requests meet.
Two == \A p, q, r \in Req : p = q \/ q = r \/ p = r

\* A step of one request keeps the invariant when what it writes fits.
LEMMA TakenMoves ==
    ASSUME Two, OneInv, OneInv', TakenInv, Grown(intent, intent'),
           NEW r \in Req, NEW x \in Request, req' = [req EXCEPT ![r] = x],
           Shut(status, req) => Shut(status', req'),
           Closing(req[r]) /\ req[r].pc = "look" /\ ~Told(row) => Shut(status', req'),
           ~Shut(status', req') /\ (Told(row') \/ HoldNews(mail', req')) => Standing(intent'),
           Backed(x, Shut(status', req'), Captured(intent')),
           Reversing(x) => Late(status', req', Told(row')),
           status' \in {"confirmed", "completed"} => Captured(intent'),
           Told(row') \/ Captured(intent') => ~Announced(mail'),
           PaidFit(row', intent')
    PROVE  TakenInv'
  <1>0. req \in [Req -> Request]
    BY BackTypes DEF OneInv
  <1>1. \A p \in Req : req'[p] = IF p = r THEN x ELSE req[p]
    BY <1>0
  <1>2. Captured(intent) => Captured(intent')
    BY TakenStays
  <1>3. ASSUME NEW p \in Req, p # r PROVE Backed(req[p], Shut(status', req'), Captured(intent'))
    BY <1>2, <1>3, BackedStays DEF TakenInv
  <1>4. \A p \in Req : Backed(req'[p], Shut(status', req'), Captured(intent'))
    BY <1>1, <1>3
  <1>5. ASSUME NEW p \in Req, p # r, Reversing(req[p]) PROVE Late(status', req', Told(row'))
    <2>1. CASE Shut(status, req)
      BY <2>1 DEF Late
    <2>2. CASE ~Shut(status, req)
      <3>1. ~Told(row) /\ \E o \in Req : Closing(req[o]) /\ req[o].pc = "look"
        BY <1>5, <2>2 DEF TakenInv, Late
      <3>2. PICK o \in Req : Closing(req[o]) /\ req[o].pc = "look"
        BY <3>1
      <3>3. o # p
        BY <1>5, <3>2 DEF Reversing
      <3>4. o = r
        BY <1>5, <3>3 DEF Two
      <3> QED BY <3>1, <3>2, <3>4 DEF Late
    <2> QED BY <2>1, <2>2
  <1>6. \A p \in Req : Reversing(req'[p]) => Late(status', req', Told(row'))
    BY <1>1, <1>5
  <1> QED BY <1>4, <1>6 DEF TakenInv

\* A payment that is recorded, or a held one announced, is the one intent's.
LEMMA PaidOne ==
    ASSUME MoneyInv, BackInv, OneOf(intent), Told(row) \/ HoldNews(mail, req)
    PROVE  \E i \in Intent : Charged(intent[i]) /\ \A j \in Intent : j # i => intent[j].st = "none"
  <1>0. req \in [Req -> Request] /\ mail \subseteq Event /\ \A r \in Req : Equipped(req[r])
    BY BackTypes
  <1>1. \E i \in Intent : Charged(intent[i])
    <2>1. CASE Told(row)
      BY <2>1 DEF Told, BackInv, RowsFit
    <2>2. CASE Announced(mail)
      BY <1>0, <2>2 DEF Announced, BackInv, Honest, Event
    <2>3. CASE \E r \in Req : Recording(req[r])
      <3>1. PICK r \in Req : Recording(req[r])
        BY <2>3
      <3>2. PICK e \in Event : e = req[r].event
        BY <1>0, <3>1 DEF Equipped, Recording
      <3>3. Honest(e, intent)
        BY <3>1, <3>2 DEF BackInv, Fits, Recording
      <3> QED BY <3>1, <3>2, <3>3 DEF Recording, Honest, Event
    <2> QED BY <2>1, <2>2, <2>3 DEF HoldNews
  <1>2. PICK i \in Intent : Charged(intent[i])
    BY <1>1
  <1> QED BY <1>2 DEF OneOf, Charged

\* The same in the next state.
LEMMA PaidOneNext ==
    ASSUME MoneyInv', BackInv', OneOf(intent'), Told(row') \/ HoldNews(mail', req')
    PROVE  \E i \in Intent : Charged(intent'[i]) /\ \A j \in Intent : j # i => intent'[j].st = "none"
  <1>0. req' \in [Req -> Request] /\ mail' \subseteq Event /\ \A r \in Req : Equipped(req'[r])
    BY DEF MoneyInv, TypeOK
  <1>1. \E i \in Intent : Charged(intent'[i])
    <2>1. CASE Told(row')
      BY <2>1 DEF Told, BackInv, RowsFit
    <2>2. CASE Announced(mail')
      BY <1>0, <2>2 DEF Announced, BackInv, Honest, Event
    <2>3. CASE \E r \in Req : Recording(req'[r])
      <3>1. PICK r \in Req : Recording(req'[r])
        BY <2>3
      <3>2. PICK e \in Event : e = req'[r].event
        BY <1>0, <3>1 DEF Equipped, Recording
      <3>3. Honest(e, intent')
        BY <3>1, <3>2 DEF BackInv, Fits, Recording
      <3> QED BY <3>1, <3>2, <3>3 DEF Recording, Honest, Event
    <2> QED BY <2>1, <2>2, <2>3 DEF HoldNews
  <1>2. PICK i \in Intent : Charged(intent'[i])
    BY <1>1
  <1> QED BY <1>2 DEF OneOf, Charged

\* A step of one request alone, which announces nothing and begins no closing.
LEMMA TakenRests ==
    ASSUME Two, OneInv, OneInv', TakenInv, NEW r \in Req, NEW x \in Request,
           req' = [req EXCEPT ![r] = x], UNCHANGED <<status, row, stripeVars>>,
           Closing(x) => Closing(req[r]),
           Closing(req[r]) /\ req[r].pc = "look" /\ ~Told(row) => ~Closing(x),
           Recording(x) => Announced(mail),
           Backed(x, Shut(status, req), Captured(intent)),
           Reversing(x) => Late(status', req', Told(row'))
    PROVE  TakenInv'
  <1>0. req \in [Req -> Request] /\ intent \in [Intent -> IntentState] /\ UNCHANGED <<intent, keys, mail>>
    BY BackTypes DEF OneInv, stripeVars
  <1>1. Grown(intent, intent')
    BY <1>0, SameIsLater
  <1>2. \A p \in Req : req'[p] = IF p = r THEN x ELSE req[p]
    BY <1>0
  <1>3. Shut(status, req) => Shut(status', req')
    BY <1>2 DEF Shut
  <1>4. Closing(req[r]) /\ req[r].pc = "look" /\ ~Told(row) => Shut(status', req')
    <2> SUFFICES ASSUME Closing(req[r]), req[r].pc = "look", ~Told(row) PROVE Shut(status', req')
      OBVIOUS
    <2>1. \A p \in Req : p # r => ~Closing(req[p])
      BY DEF OneInv, BackInv, Claims
    <2>2. status \in {"declined", "cancelled"}
      BY DEF OneInv, BackInv, Fits, Claims
    <2> QED BY <1>2, <2>1, <2>2 DEF Shut
  <1>5. HoldNews(mail', req') => HoldNews(mail, req)
    BY <1>0, <1>2 DEF HoldNews
  <1>6. ~Shut(status', req') /\ (Told(row') \/ HoldNews(mail', req')) => Standing(intent')
    BY <1>0, <1>3, <1>5 DEF TakenInv
  <1>7. Backed(x, Shut(status', req'), Captured(intent'))
    BY <1>0, <1>3, BackedStays
  <1>8. /\ status' \in {"confirmed", "completed"} => Captured(intent')
        /\ Told(row') \/ Captured(intent') => ~Announced(mail')
        /\ PaidFit(row', intent')
    BY <1>0 DEF TakenInv
  <1> QED BY <1>1, <1>3, <1>4, <1>6, <1>7, <1>8, TakenMoves

\* A request at rest is backed, and records and reverses nothing.
LEMMA IdleBacked == \A shut, taken : Backed(Idle, shut, taken) /\ ~Recording(Idle) /\ ~Reversing(Idle)
  BY DEF Idle, Backed, Closing, Recording, Reversing

\* A request that was closing nothing ends.
LEMMA TakenDone ==
    ASSUME Two, OneInv, OneInv', TakenInv, NEW r \in Req, Done(r), UNCHANGED <<status, row, stripeVars>>
    PROVE  TakenInv'
  BY IdleFits, IdleBacked, TakenRests DEF Done

\* A handler begins: one that cancels a confirmed booking knows that it was paid.
LEMMA StartTaken ==
    ASSUME Calm, Two, OneInv, OneInv', TakenInv, NEW r \in Req, Start(r) \/ StartCheckout(r)
    PROVE  TakenInv'
  <1>0. UNCHANGED <<status, row, stripeVars>> /\ status \in Status /\ RowsOK
    BY Zenon DEF Start, StartCheckout, OneInv, MoneyInv, TypeOK
  <1>1. ASSUME NEW kind \in HandlerNames, NEW pc \in Step, NEW share \in Amount, Begin(r, kind, pc, share),
               kind # "cancel" => status # "confirmed",
               pc \in {"look", "claim", "create", "drop"}, kind \in {"decline", "cancel"} => pc = "claim"
        PROVE  TakenInv'
    <2>1. PICK x : x = [Idle EXCEPT !.pc = pc, !.kind = kind, !.seen = status, !.share = share]
      OBVIOUS
    <2>2. x \in Request /\ x.pc = pc /\ x.kind = kind /\ x.seen = status
      BY <1>0, <2>1, IdleIs DEF Request
    <2>3. req' = [req EXCEPT ![r] = x]
      BY <1>1, <2>1 DEF Begin
    <2>4. ~Closing(x) /\ ~Recording(x) /\ ~Reversing(x)
      BY <1>1, <2>2 DEF Closing, Recording, Reversing
    <2>5. status = "confirmed" => Captured(intent)
      BY DEF TakenInv
    <2>6. Backed(x, Shut(status, req), Captured(intent))
      BY <1>1, <2>2, <2>4, <2>5 DEF Backed, HandlerNames
    <2> QED BY <1>0, <2>2, <2>3, <2>4, <2>6, TakenRests
  <1>2. /\ {"confirm", "decline", "cancel", "checkout", "expire", "releaseOwn"} \subseteq HandlerNames
        /\ {"look", "claim", "create", "drop"} \subseteq Step /\ 0 \in Amount /\ Total \in Amount
    BY Amounts DEF HandlerNames, Step
  <1>3. ASSUME StartConfirm(r) PROVE TakenInv'
    BY <1>1, <1>2, <1>3 DEF StartConfirm
  <1>4. ASSUME StartDecline(r) PROVE TakenInv'
    BY <1>1, <1>2, <1>4 DEF StartDecline
  <1>5. ASSUME StartCheckout(r) PROVE TakenInv'
    BY <1>1, <1>2, <1>5 DEF StartCheckout
  <1>6. ASSUME NEW share \in Amount, StartCancel(r, share) PROVE TakenInv'
    <2>1. LastRow.refunded \in Nat
      BY <1>0, LastIs DEF Row
    <2>2. PICK given \in Amount :
              given = IF Total - LastRow.refunded <= 0 THEN 0 ELSE Min({share, Total - LastRow.refunded})
      BY <2>1, ShareIs
    <2>3. Begin(r, "cancel", "claim", given)
      BY <1>6, <2>2 DEF StartCancel
    <2> QED BY <1>1, <1>2, <2>3
  <1>7. ASSUME NEW share \in Amount, StartAdminCancel(r, share) \/ StartAdminRefund(r, share) PROVE FALSE
    BY <1>7 DEF StartAdminCancel, StartAdminRefund, Begin, Calm
  <1>8. ASSUME NEW kind \in {"expire", "releaseOwn"}, FindUnpaid(r, kind) PROVE TakenInv'
    BY <1>1, <1>2, <1>8 DEF FindUnpaid
  <1> QED BY <1>3, <1>4, <1>5, <1>6, <1>7, <1>8 DEF Start

\* A claim takes a booking off the calendar that was not shut.
LEMMA ClaimTaken ==
    ASSUME Two, OneInv, OneInv', TakenInv, NEW r \in Req, Claim(r)
    PROVE  TakenInv'
  <1>0. req \in [Req -> Request] /\ intent \in [Intent -> IntentState]
    BY BackTypes DEF OneInv
  <1>1. PICK q \in Request : q = req[r] /\ q.pc = "claim" /\ Fits(q, status, Told(row), intent)
                             /\ Backed(q, Shut(status, req), Captured(intent))
    BY <1>0 DEF Claim, At, OneInv, BackInv, TakenInv
  <1>2. CASE status = "pending" \/ (q.kind = "cancel" /\ status = "confirmed")
    <2>1. PICK x : x = [q EXCEPT !.pc = "look"]
      OBVIOUS
    <2>2. x \in Request /\ x.pc = "look" /\ x.kind = q.kind /\ x.seen = q.seen
      BY <2>1 DEF Request, Step
    <2>3. /\ status' \in {"declined", "cancelled"}
          /\ req' = [req EXCEPT ![r] = x] /\ UNCHANGED <<row, stripeVars>>
      BY <1>0, <1>1, <1>2, <2>1 DEF Claim, Goto
    <2>4. UNCHANGED <<row, intent, keys, mail>>
      BY <2>3 DEF stripeVars
    <2>5. \A p \in Req : req'[p] = IF p = r THEN x ELSE req[p]
      BY <1>0, <2>3
    <2>6. ~Shut(status, req)
      BY <1>2 DEF Shut
    <2>7. ~Recording(x) /\ ~Reversing(x) /\ req[r].pc # "look"
      BY <1>1, <2>2 DEF Recording, Reversing
    <2>8. HoldNews(mail', req') => HoldNews(mail, req)
      BY <2>4, <2>5, <2>7 DEF HoldNews
    <2>9. ~Shut(status', req') /\ (Told(row') \/ HoldNews(mail', req')) => Standing(intent')
      BY <2>4, <2>6, <2>8 DEF TakenInv
    <2>10. Backed(x, Shut(status', req'), Captured(intent'))
      BY <1>1, <2>2, <2>4 DEF Backed, Fits
    <2>11. /\ status' \in {"confirmed", "completed"} => Captured(intent')
           /\ Told(row') \/ Captured(intent') => ~Announced(mail')
           /\ PaidFit(row', intent')
      BY <2>3, <2>4 DEF TakenInv
    <2>12. Grown(intent, intent')
      BY <1>0, <2>4, SameIsLater
    <2> QED BY <2>2, <2>3, <2>6, <2>7, <2>9, <2>10, <2>11, <2>12, TakenMoves
  <1>3. CASE ~(status = "pending" \/ (q.kind = "cancel" /\ status = "confirmed"))
    <2>1. Done(r) /\ UNCHANGED <<status, row, stripeVars>>
      BY <1>1, <1>3 DEF Claim
    <2> QED BY <2>1, TakenDone
  <1> QED BY <1>2, <1>3

\* An acceptance that finds nothing to capture finds the money taken, or the booking
\* shut.
LEMMA NothingToCapture ==
    ASSUME OneInv, TakenInv, NEW r \in Req, At(r, "look"), req[r].kind = "confirm",
           Call(r, LiveIntent) = "none"
    PROVE  Shut(status, req) \/ Captured(intent)
  <1> SUFFICES ASSUME ~Shut(status, req) PROVE Captured(intent)
    OBVIOUS
  <1>0. Told(row) /\ Standing(intent) /\ RefundsFit(row, intent) /\ RowsFit(row, intent)
    BY DEF OneInv, BackInv, Fits, At, TakenInv, Marked
  <1>1. CASE IsCovered
    <2>1. PICK i \in Intent : i = LiveIntent /\ Charged(intent[i]) /\ i # None
      BY <1>1, LiveFits, MoneyAssumption DEF OneInv
    <2>2. intent[i].st \in {"held", "succeeded"}
      BY <1>0, <2>1 DEF Standing, Charged
    <2>3. intent[i].st # "held"
      BY <2>1 DEF Call
    <2> QED BY <2>2, <2>3 DEF Captured
  <1>2. CASE ~IsCovered
    <2>1. PICK k \in RowId : Recorded(row[k].st)
      BY <1>0 DEF Told
    <2>2. row[k].st = "refunded"
      BY <1>2, <2>1 DEF IsCovered, Rows, Covered, Recorded
    <2>3. row[k].ref \in Intent /\ GoneBack(intent[row[k].ref])
      BY <1>0, <2>1, <2>2 DEF RowsFit, RefundsFit
    <2> QED BY <1>0, <2>3 DEF GoneBack, Standing, Captured
  <1> QED BY <1>1, <1>2

\* A request reads row and intent.
LEMMA LookTaken ==
    ASSUME Two, OneInv, OneInv', TakenInv, NEW r \in Req, Look(r)
    PROVE  TakenInv'
  <1>0. req \in [Req -> Request] /\ intent \in [Intent -> IntentState]
    BY BackTypes DEF OneInv
  <1>1. PICK q \in Request : q = req[r] /\ q.pc = "look" /\ Fits(q, status, Told(row), intent)
                             /\ Backed(q, Shut(status, req), Captured(intent))
    BY <1>0 DEF Look, At, OneInv, BackInv, TakenInv
  <1>2. q.kind \in {"confirm", "compensate", "decline", "cancel"}
    BY <1>1 DEF Fits
  <1>3. UNCHANGED <<status, row, stripeVars>>
    BY Zenon DEF Look
  <1>4. PICK i : i = LiveIntent
    OBVIOUS
  <1>5. PICK call : call = Call(r, i)
    OBVIOUS
  <1>6. CASE call = "none"
    <2>1. CASE q.kind = "compensate"
      <3>1. Done(r)
        BY <1>1, <1>4, <1>5, <1>6, <2>1 DEF Done, Look, AfterStripe
      <3> QED BY <1>3, <3>1, TakenDone
    <2>2. CASE q.kind # "compensate"
      <3>1. PICK pc : pc = IF q.kind = "confirm" THEN "decide" ELSE "finish"
        OBVIOUS
      <3>2. PICK x : x = [q EXCEPT !.pc = pc]
        OBVIOUS
      <3>3. pc = AfterStripe(q.kind)
        BY <1>2, <2>2, <3>1 DEF AfterStripe
      <3>4. pc \in {"decide", "finish"} /\ req' = [req EXCEPT ![r] = x]
        BY <1>0, <1>1, <1>4, <1>5, <1>6, <3>1, <3>2, <3>3 DEF Look
      <3>5. x \in Request /\ x.pc = pc /\ x.kind = q.kind
        BY <3>2, <3>4 DEF Request, Step
      <3>6. ~Closing(x) /\ ~Recording(x) /\ ~Reversing(x)
        BY <3>4, <3>5 DEF Closing, Recording, Reversing
      <3>7. q.kind = "confirm" => Shut(status, req) \/ Captured(intent)
        BY <1>1, <1>4, <1>5, <1>6, NothingToCapture DEF At
      <3>8. Backed(x, Shut(status, req), Captured(intent))
        BY <2>2, <3>1, <3>4, <3>5, <3>6, <3>7 DEF Backed
      <3> QED BY <1>3, <3>4, <3>5, <3>6, <3>8, TakenRests
    <2> QED BY <2>1, <2>2
  <1>7. CASE call # "none"
    <2>1. i # None
      BY <1>5, <1>7 DEF Call
    <2>2. Told(row) /\ i \in Intent
      BY <1>4, <2>1, LiveFits, CoveredTold DEF OneInv
    <2>3. PICK x : x = req'[r]
      OBVIOUS
    <2>4. x \in Request /\ req' = [req EXCEPT ![r] = x] /\ x.pc = "stripe" /\ x.kind = q.kind /\ x.seen = q.seen
      <3>1. PICK left, ask : left = Left(i) /\ ask = IF call = "refund" THEN Min({q.share, left}) ELSE 0
        OBVIOUS
      <3>2. PICK y : y = [q EXCEPT !.pc = "stripe", !.call = call, !.intent = i, !.left = left, !.ask = ask]
        OBVIOUS
      <3>3. req' = [req EXCEPT ![r] = y]
        BY <1>0, <1>1, <1>4, <1>5, <1>7, <3>1, <3>2 DEF Look
      <3>4. req'[r] = y /\ req' \in [Req -> Request]
        BY <1>0, <3>3 DEF OneInv, MoneyInv, TypeOK
      <3> QED BY <2>3, <3>2, <3>3, <3>4 DEF Request
    <2>5. (Closing(x) => Closing(q)) /\ ~Recording(x) /\ ~Reversing(x)
      BY <1>1, <2>4 DEF Closing, Recording, Reversing
    <2>6. Backed(x, Shut(status, req), Captured(intent))
      BY <1>1, <2>4, <2>5 DEF Backed
    <2> QED BY <1>1, <1>3, <2>2, <2>4, <2>5, <2>6, TakenRests
  <1> QED BY <1>6, <1>7

\* What a call does to the money: an acceptance takes it, and only a request that
\* closes the booking lets a hold go.
LEMMA DoesTaken ==
    ASSUME OneInv, TakenInv, NEW r \in Req, At(r, "stripe"), StripeDoes(r)
    PROVE  /\ Announced(mail') => Announced(mail)
           /\ req[r].kind = "confirm" => Captured(intent')
           /\ req[r].kind \in {"confirm", "compensate"} /\ ~Shut(status, req) => Standing(intent')
  <1>0. req \in [Req -> Request] /\ intent \in [Intent -> IntentState] /\ Equipped(req[r])
    BY BackTypes DEF OneInv
  <1>1. PICK q \in Request : q = req[r] /\ q.pc = "stripe" /\ Fits(q, status, Told(row), intent)
                             /\ Backed(q, Shut(status, req), Captured(intent))
    BY <1>0 DEF At, OneInv, BackInv, TakenInv
  <1>2. PICK i \in Intent : i = q.intent
    BY <1>0, <1>1 DEF Equipped
  <1>3. ~Shut(status, req) => Standing(intent)
    BY <1>1 DEF Fits, TakenInv
  <1>4. CASE q.call = "capture"
    <2>1. StripeCapture(i)
      BY <1>1, <1>2, <1>4 DEF StripeDoes
    <2>2. PICK y : y = [intent[i] EXCEPT !.st = "succeeded"]
      OBVIOUS
    <2>3. y.st = "succeeded" /\ intent' = [intent EXCEPT ![i] = y]
      BY <1>0, <2>1, <2>2 DEF StripeCapture, IntentState
    <2>4. \A j \in Intent : intent'[j] = IF j = i THEN y ELSE intent[j]
      BY <1>0, <2>3
    <2>5. PICK e : e = [type |-> "succeeded", intent |-> i, amount |-> Total]
      OBVIOUS
    <2>6. mail' \subseteq mail \cup {e} /\ e.type # "capturable"
      BY <2>1, <2>5 DEF StripeCapture
    <2> QED BY <1>3, <2>3, <2>4, <2>6 DEF Announced, Captured, Standing
  <1>5. CASE q.call = "cancel"
    <2>1. StripeCancel(i) /\ q.kind # "confirm"
      BY <1>1, <1>2, <1>5 DEF StripeDoes, Fits
    <2>2. intent[i].st \in {"open", "held"} /\ UNCHANGED mail
      BY <2>1 DEF StripeCancel
    <2>3. ~Captured(intent)
      BY <2>2 DEF Captured, OneInv, OneOf
    <2>4. q.kind = "compensate" => Shut(status, req)
      BY <1>1, <2>3 DEF Backed
    <2> QED BY <1>1, <2>1, <2>2, <2>4 DEF Announced
  <1>6. CASE q.call \notin {"capture", "cancel"}
    <2>1. PICK k : k = [intent |-> i, left |-> q.left, ask |-> q.ask]
      OBVIOUS
    <2>2. StripeRefund(k, q.ask) /\ k.intent = i /\ q.kind # "confirm"
      BY <1>1, <1>2, <1>6, <2>1 DEF StripeDoes, Fits
    <2>3. CASE UNCHANGED stripeVars
      BY <1>1, <1>3, <2>2, <2>3 DEF stripeVars
    <2>4. CASE ~UNCHANGED stripeVars
      <3>1. PICK back, e : /\ intent' = [intent EXCEPT ![i].refunded = back]
                           /\ e = [type |-> "refunded", intent |-> i, amount |-> back]
                           /\ mail' = mail \cup {e}
        BY <2>2, <2>4 DEF StripeRefund
      <3>2. PICK y : y = [intent[i] EXCEPT !.refunded = back]
        OBVIOUS
      <3>3. y.st = intent[i].st /\ intent' = [intent EXCEPT ![i] = y]
        BY <1>0, <3>1, <3>2 DEF IntentState
      <3>4. \A j \in Intent : intent'[j].st = intent[j].st
        BY <1>0, <3>3
      <3>5. e.type # "capturable"
        BY <3>1
      <3> QED BY <1>1, <1>3, <2>2, <3>1, <3>4, <3>5 DEF Announced, Standing
    <2> QED BY <2>3, <2>4
  <1> QED BY <1>4, <1>5, <1>6

\* The call is made and answered, or fails without an effect.
LEMMA CallTaken ==
    ASSUME Calm, Two, OneInv, OneInv', TakenInv, NEW r \in Req, StripeCall(r)
    PROVE  TakenInv'
  <1>0. req \in [Req -> Request] /\ intent \in [Intent -> IntentState] /\ Equipped(req[r])
    BY BackTypes DEF OneInv
  <1>1. PICK q \in Request : q = req[r] /\ q.pc = "stripe" /\ Fits(q, status, Told(row), intent)
                             /\ Backed(q, Shut(status, req), Captured(intent))
    BY <1>0 DEF StripeCall, At, OneInv, BackInv, TakenInv
  <1>2. /\ q.kind \in {"confirm", "compensate", "decline", "cancel"} /\ Told(row)
        /\ q.seen \in Status /\ q.share \in Amount
    BY <1>1 DEF Fits, Request
  <1>3. UNCHANGED <<status, row>>
    BY Zenon DEF StripeCall
  <1>4. (StripeDoes(r) /\ Answered(r)) \/ (Threw(r) /\ UNCHANGED stripeVars)
    <2>1. "answerLost" \notin Env
      BY DEF Calm
    <2> QED BY <2>1 DEF StripeCall
  <1>5. ASSUME StripeDoes(r), Answered(r) PROVE TakenInv'
    <2>1. /\ Grown(intent, intent')
          /\ Announced(mail') => Announced(mail)
          /\ q.kind = "confirm" => Captured(intent')
          /\ q.kind \in {"confirm", "compensate"} /\ ~Shut(status, req) => Standing(intent')
      BY <1>1, <1>5, DoesBack, DoesTaken DEF At, OneInv
    <2>2. PICK after : after = AfterStripe(q.kind)
      OBVIOUS
    <2>3. PICK x : x = IF after = "idle" THEN Idle
                       ELSE [Idle EXCEPT !.pc = after, !.kind = q.kind, !.seen = q.seen, !.share = q.share]
      OBVIOUS
    <2>4. /\ after \in {"idle", "decide", "finish"} /\ after \in Step
          /\ after = "decide" => q.kind = "confirm"
          /\ after = "idle" <=> q.kind = "compensate"
      BY <1>2, <2>2 DEF AfterStripe, Step
    <2>5. x \in Request /\ x.pc = after /\ x.kind # "compensate" /\ req' = [req EXCEPT ![r] = x]
      <3>1. req' = [req EXCEPT ![r] = x]
        BY <1>1, <1>5, <2>2, <2>3 DEF Answered
      <3>2. CASE after = "idle"
        <4>1. Idle.kind = "none"
          BY DEF Idle
        <4> QED BY <2>3, <3>1, <3>2, <4>1, IdleIs
      <3>3. CASE after # "idle"
        <4>1. x = [Idle EXCEPT !.pc = after, !.kind = q.kind, !.seen = q.seen, !.share = q.share]
          BY <2>3, <3>3
        <4>2. x \in Request /\ x.pc = after /\ x.kind = q.kind
          BY <1>2, <2>4, <4>1, IdleIs DEF Request
        <4> QED BY <2>4, <3>1, <3>3, <4>2
      <3> QED BY <3>2, <3>3
    <2>6. ~Closing(x) /\ ~Recording(x) /\ ~Reversing(x)
      BY <2>4, <2>5 DEF Closing, Recording, Reversing
    <2>7. \A p \in Req : req'[p] = IF p = r THEN x ELSE req[p]
      BY <1>0, <2>5
    <2>8. Shut(status, req) => Shut(status', req')
      BY <1>3, <2>6, <2>7 DEF Shut
    <2>9. q.kind \in {"decline", "cancel"} => Shut(status', req')
      <3> SUFFICES ASSUME q.kind \in {"decline", "cancel"} PROVE Shut(status', req')
        OBVIOUS
      <3>1. Claims(q) /\ status \in {"declined", "cancelled"}
        BY <1>1 DEF Claims, Closing, Fits
      <3>2. \A p \in Req : p # r => ~Closing(req[p])
        BY <1>1, <3>1 DEF OneInv, BackInv, Claims
      <3> QED BY <1>3, <2>6, <2>7, <3>1, <3>2 DEF Shut
    <2>10. ~Shut(status', req') => Standing(intent')
      BY <1>2, <2>1, <2>8, <2>9
    <2>11. Backed(x, Shut(status', req'), Captured(intent'))
      BY <2>1, <2>4, <2>5, <2>6 DEF Backed
    <2>12. /\ status' \in {"confirmed", "completed"} => Captured(intent')
           /\ Told(row') \/ Captured(intent') => ~Announced(mail')
           /\ PaidFit(row', intent')
      BY <1>2, <1>3, <2>1, TakenStays DEF TakenInv
    <2>13. req[r].pc # "look"
      BY <1>1
    <2> QED BY <2>1, <2>5, <2>6, <2>8, <2>10, <2>11, <2>12, <2>13, TakenMoves
  <1>6. ASSUME Threw(r), UNCHANGED stripeVars PROVE TakenInv'
    <2>1. CASE q.kind \in {"decline", "cancel"}
      <3>1. PICK x : x = [Idle EXCEPT !.pc = "unclaim", !.kind = q.kind, !.seen = q.seen]
        OBVIOUS
      <3>2. x \in Request /\ x.pc = "unclaim" /\ x.kind = q.kind /\ x.seen = q.seen
        BY <1>2, <3>1, IdleIs DEF Request, Step
      <3>3. req' = [req EXCEPT ![r] = x]
        BY <1>1, <1>6, <2>1, <3>1 DEF Threw
      <3>4. Closing(x) /\ Closing(q) /\ ~Recording(x) /\ ~Reversing(x) /\ q.pc # "look"
        BY <1>1, <2>1, <3>2 DEF Closing, Recording, Reversing
      <3>5. Backed(x, Shut(status, req), Captured(intent))
        BY <1>1, <2>1, <3>2, <3>4 DEF Backed
      <3> QED BY <1>1, <1>3, <1>6, <3>2, <3>3, <3>4, <3>5, TakenRests
    <2>2. CASE q.kind \notin {"decline", "cancel"}
      <3>1. Done(r)
        BY <1>1, <1>6, <2>2 DEF Threw, Done
      <3> QED BY <1>3, <1>6, <3>1, TakenDone
    <2> QED BY <2>1, <2>2
  <1> QED BY <1>4, <1>5, <1>6

\* A step of one request that ends and leaves what Stripe knows alone.
LEMMA TakenEnds ==
    ASSUME Two, OneInv, OneInv', TakenInv, NEW r \in Req, Done(r), UNCHANGED intent, mail' \subseteq mail,
           Shut(status, req) => Shut(status', req'),
           ~Shut(status', req') => ~Shut(status, req), Told(row') => Told(row), req[r].pc # "look",
           status' \in {"confirmed", "completed"} => Captured(intent), PaidFit(row', intent)
    PROVE  TakenInv'
  <1>0. req \in [Req -> Request] /\ intent \in [Intent -> IntentState] /\ req' = [req EXCEPT ![r] = Idle]
    BY BackTypes DEF OneInv, Done
  <1>1. Grown(intent, intent')
    BY <1>0, SameIsLater
  <1>2. \A p \in Req : req'[p] = IF p = r THEN Idle ELSE req[p]
    BY <1>0
  <1>3. (HoldNews(mail', req') => HoldNews(mail, req)) /\ (Announced(mail') => Announced(mail))
    BY <1>2, IdleBacked DEF HoldNews, Announced
  <1>4. ~Shut(status', req') /\ (Told(row') \/ HoldNews(mail', req')) => Standing(intent')
    BY <1>3 DEF TakenInv
  <1>5. /\ status' \in {"confirmed", "completed"} => Captured(intent')
        /\ Told(row') \/ Captured(intent') => ~Announced(mail')
        /\ PaidFit(row', intent')
    BY <1>3 DEF TakenInv
  <1> QED BY <1>0, <1>1, <1>4, <1>5, IdleFits, IdleBacked, TakenMoves

\* A claim is given back: a stay that was confirmed has its money.
LEMMA UnclaimTaken ==
    ASSUME Two, OneInv, OneInv', TakenInv, NEW r \in Req, Unclaim(r)
    PROVE  TakenInv'
  <1>0. req \in [Req -> Request]
    BY BackTypes DEF OneInv
  <1>1. PICK q \in Request : q = req[r] /\ q.pc = "unclaim" /\ Fits(q, status, Told(row), intent)
                             /\ Backed(q, Shut(status, req), Captured(intent))
    BY <1>0 DEF Unclaim, At, OneInv, BackInv, TakenInv
  <1>2. q.kind \in {"decline", "cancel"} /\ Closing(q) /\ Claims(q)
    BY <1>1 DEF Fits, Closing, Claims
  <1>3. status = (IF q.kind = "decline" THEN "declined" ELSE "cancelled") /\ q.seen \in {"pending", "confirmed"}
    BY <1>1, <1>2 DEF Fits
  <1>4. status' = q.seen /\ Done(r) /\ UNCHANGED <<row, stripeVars>>
    BY <1>1, <1>3 DEF Unclaim, OneInv, BackInv
  <1>5. ~Shut(status, req) /\ q.pc # "look" /\ (q.seen = "confirmed" => Captured(intent))
    BY <1>1, <1>2 DEF Shut, Backed
  <1>6. UNCHANGED <<intent, keys, mail>> /\ Told(row') = Told(row) /\ PaidFit(row', intent)
    BY <1>4 DEF stripeVars, TakenInv
  <1> QED BY <1>1, <1>3, <1>4, <1>5, <1>6, TakenEnds

\* What a decline or a cancellation writes: rows are closed, of a booking that is shut.
LEMMA FinishTaken ==
    ASSUME Two, OneInv, OneInv', TakenInv, NEW r \in Req, FinishDecline(r) \/ FinishCancel(r)
    PROVE  TakenInv'
  <1>0. req \in [Req -> Request] /\ row \in [RowId -> Row]
    BY BackTypes DEF OneInv
  <1>1. PICK q \in Request : q = req[r] /\ q.pc = "finish" /\ Fits(q, status, Told(row), intent)
    BY <1>0 DEF FinishDecline, FinishCancel, At, OneInv, BackInv
  <1>2. Claims(q) /\ status \in {"declined", "cancelled"}
    BY <1>1 DEF Fits, Claims
  <1>3. Done(r) /\ UNCHANGED <<intent, keys, mail>> /\ status' \in {status, "cancelled"}
    BY DEF FinishDecline, FinishCancel, stripeVars
  <1>4. \A p \in Req : ~Closing(req[p])
    BY <1>1, <1>2 DEF OneInv, BackInv, Claims, Closing
  <1>5. \A p \in Req : ~Closing(req'[p])
    BY <1>0, <1>3, <1>4, IdleFits DEF Done
  <1>6. ASSUME NEW k \in RowId
        PROVE  /\ row'[k].ref = row[k].ref
               /\ \/ row'[k].st = row[k].st
                  \/ row[k].st \in Covered /\ row'[k].st = "refunded"
    <2>1. CASE FinishDecline(r)
      <3>1. \/ row' = row
            \/ row' = [j \in RowId |-> IF row[j].st \in Covered
                                       THEN [row[j] EXCEPT !.st = "refunded", !.refunded = Total]
                                       ELSE row[j]]
        BY <2>1 DEF FinishDecline
      <3> QED BY <1>0, <3>1 DEF Row
    <2>2. CASE FinishCancel(r)
      <3>1. row' = row \/ row' = Refunded(Rows(Covered), "refunded", q.share)
        BY <1>1, <2>2 DEF FinishCancel
      <3> QED BY <1>0, <3>1 DEF Row, Refunded, Rows
    <2> QED BY <2>1, <2>2
  <1>7. Told(row') = Told(row)
    BY <1>6, RowsClosed DEF OneInv, BackInv
  <1>8. PaidFit(row', intent)
    BY <1>6 DEF TakenInv, PaidFit
  <1>9. Shut(status, req) /\ Shut(status', req') /\ status' \notin {"confirmed", "completed"}
    BY <1>2, <1>3, <1>4, <1>5 DEF Shut
  <1> QED BY <1>1, <1>3, <1>7, <1>8, <1>9, TakenEnds

\* A booking is accepted that has its money, or the money is to be sent back.
LEMMA DecideTaken ==
    ASSUME Calm, Two, OneInv, OneInv', TakenInv, NEW r \in Req, DecideStep(r)
    PROVE  TakenInv'
  <1>0. req \in [Req -> Request]
    BY BackTypes DEF OneInv
  <1>1. PICK q \in Request : q = req[r] /\ Fits(q, status, Told(row), intent)
                             /\ Backed(q, Shut(status, req), Captured(intent))
    BY <1>0 DEF OneInv, BackInv, TakenInv
  <1>2. q.pc \notin {"adminClose", "adminNote", "adminGrant", "adminPay"}
    BY <1>1 DEF Fits
  <1>3. DecideConfirm(r) /\ q.pc = "decide"
    BY <1>1, <1>2 DEF DecideStep, AdminClose, AdminNote, AdminGrant, AdminPay, DecideConfirm, At
  <1>4. UNCHANGED <<row, stripeVars>>
    BY <1>3 DEF DecideConfirm
  <1>5. CASE status = "pending" /\ status' = "confirmed" /\ Done(r)
    <2>1. ~Shut(status, req)
      BY <1>5 DEF Shut
    <2>2. Captured(intent)
      BY <1>1, <1>3, <2>1 DEF Backed
    <2>3. UNCHANGED <<intent, keys, mail>> /\ Told(row') = Told(row) /\ PaidFit(row', intent)
      BY <1>4 DEF stripeVars, TakenInv
    <2> QED BY <1>1, <1>3, <1>5, <2>1, <2>2, <2>3, TakenEnds
  <1>6. CASE ~(status = "pending" /\ status' = "confirmed" /\ Done(r))
    <2>1. PICK x : x = [Idle EXCEPT !.pc = "look", !.kind = "compensate", !.share = Total]
      OBVIOUS
    <2>2. req' = [req EXCEPT ![r] = x] /\ UNCHANGED status
      BY <1>3, <1>6, <2>1 DEF DecideConfirm, Calm
    <2>3. x \in Request /\ x.pc = "look" /\ x.kind = "compensate"
      BY <2>1, IdleIs, Amounts DEF Request, Step
    <2>4. ~Closing(x) /\ ~Recording(x) /\ ~Reversing(x)
      BY <2>3 DEF Closing, Recording, Reversing
    <2>5. Backed(x, Shut(status, req), Captured(intent))
      BY <1>1, <1>3, <2>3, <2>4 DEF Backed
    <2> QED BY <1>4, <2>2, <2>3, <2>4, <2>5, TakenRests
  <1> QED BY <1>5, <1>6

\* Checkout: no payment is recorded of a booking that gets an intent.
LEMMA CheckoutTaken ==
    ASSUME Two, OneInv, OneInv', TakenInv, Grown(intent, intent'), NEW r \in Req,
           CreateIntent(r) \/ AttachIntent(r)
    PROVE  TakenInv'
  <1>0. req \in [Req -> Request] /\ intent \in [Intent -> IntentState] /\ row \in [RowId -> Row]
    BY BackTypes DEF OneInv
  <1>1. PICK q \in Request : q = req[r] /\ Fits(q, status, Told(row), intent)
                             /\ Backed(q, Shut(status, req), Captured(intent))
    BY <1>0 DEF OneInv, BackInv, TakenInv
  <1>2. ASSUME CreateIntent(r) PROVE TakenInv'
    <2>1. PICK i \in Intent : /\ intent[i].st = "none" /\ intent' = [intent EXCEPT ![i].st = "open"]
                              /\ req' = [req EXCEPT ![r].pc = "attach", ![r].intent = i]
      BY <1>2 DEF CreateIntent
    <2>2. PICK y : y = [intent[i] EXCEPT !.st = "open"]
      OBVIOUS
    <2>3. y.st = "open" /\ intent' = [intent EXCEPT ![i] = y]
      BY <1>0, <2>1, <2>2 DEF IntentState
    <2>4. \A j \in Intent : intent'[j] = IF j = i THEN y ELSE intent[j]
      BY <1>0, <2>3
    <2>5. PICK x : x = [q EXCEPT !.pc = "attach", !.intent = i]
      OBVIOUS
    <2>6. /\ x \in Request /\ x.pc = "attach" /\ x.kind = q.kind /\ q.pc = "create"
          /\ req' = [req EXCEPT ![r] = x]
      BY <1>0, <1>1, <1>2, <2>1, <2>5 DEF Request, Step, CreateIntent, At
    <2>7. ~Closing(x) /\ ~Recording(x) /\ ~Reversing(x) /\ ~Closing(q)
      BY <2>6 DEF Closing, Recording, Reversing
    <2>8. UNCHANGED <<status, row, mail>>
      BY <1>2 DEF CreateIntent
    <2>9. Shut(status', req') = Shut(status, req)
      BY <1>0, <1>1, <2>6, <2>7, <2>8, ShutStays
    <2>10. ~(Told(row') \/ HoldNews(mail', req'))
      <3>1. ASSUME NEW j \in Intent, Charged(intent'[j]), \A l \in Intent : l # j => intent'[l].st = "none"
            PROVE  FALSE
        BY <2>3, <2>4, <3>1 DEF Charged
      <3> QED BY <3>1, PaidOneNext DEF OneInv
    <2>11. Captured(intent') => Captured(intent)
      BY <2>3, <2>4 DEF Captured
    <2>12. Captured(intent) => Captured(intent')
      BY TakenStays
    <2>13. Backed(x, Shut(status', req'), Captured(intent'))
      BY <1>1, <2>6, <2>7, <2>9, <2>12 DEF Backed
    <2>14. /\ status' \in {"confirmed", "completed"} => Captured(intent')
           /\ Told(row') \/ Captured(intent') => ~Announced(mail')
           /\ PaidFit(row', intent')
      BY <2>8, <2>11, <2>12, TakenStays DEF TakenInv
    <2>15. q.pc # "look"
      BY <2>6
    <2> QED BY <1>1, <2>6, <2>7, <2>9, <2>10, <2>13, <2>14, <2>15, TakenMoves
  <1>3. ASSUME AttachIntent(r) PROVE TakenInv'
    <2>1. q.pc = "attach" /\ ~Closing(q)
      BY <1>1, <1>3 DEF AttachIntent, At, Closing
    <2>2. Done(r) /\ UNCHANGED <<status, stripeVars>>
      BY <1>3, Zenon DEF AttachIntent
    <2>3. UNCHANGED <<intent, keys, mail>> /\ req' = [req EXCEPT ![r] = Idle]
      BY <2>2 DEF stripeVars, Done
    <2>4. \A k \in RowId : \/ row'[k].st = row[k].st /\ row'[k].ref = row[k].ref
                           \/ ~Recorded(row[k].st) /\ ~Recorded(row'[k].st)
      BY <1>3, AttachRows DEF OneInv
    <2>5. Told(row') = Told(row)
      BY <2>4, RowsHeld DEF OneInv
    <2>6. PaidFit(row', intent)
      BY <2>4 DEF TakenInv, PaidFit, Recorded
    <2>7. Shut(status', req') = Shut(status, req)
      BY <1>0, <1>1, <2>1, <2>2, <2>3, IdleFits, ShutStays
    <2>8. status' \in {"confirmed", "completed"} => Captured(intent)
      BY <2>2 DEF TakenInv
    <2> QED BY <1>1, <2>1, <2>2, <2>3, <2>5, <2>6, <2>7, <2>8, TakenEnds
  <1> QED BY <1>2, <1>3

\* A webhook request takes an event: one that it is to reverse while the booking is not
\* shut is of a payment that is not recorded.
LEMMA DeliverTaken ==
    ASSUME Two, OneInv, OneInv', TakenInv, NEW r \in Req, NEW e \in mail, Deliver(r, e)
    PROVE  TakenInv'
  <1>0. req \in [Req -> Request] /\ e \in Event
    BY BackTypes DEF OneInv
  <1>1. PICK pc : pc = IF e.type \in {"succeeded", "capturable"} /\ status = "cancelled"
                       THEN "reverse" ELSE "record"
    OBVIOUS
  <1>2. PICK x : x = [Idle EXCEPT !.pc = pc, !.kind = "webhook", !.event = e]
    OBVIOUS
  <1>3. pc \in {"reverse", "record"} /\ pc \in Step /\ "webhook" \in HandlerNames
    BY <1>1 DEF Step, HandlerNames
  <1>4. x \in Request /\ x.pc = pc /\ x.kind = "webhook" /\ x.event = e
    BY <1>0, <1>2, <1>3, IdleIs DEF Request
  <1>5. /\ req' = [req EXCEPT ![r] = x] /\ req[r].pc = "idle"
        /\ UNCHANGED <<status, listing, row, stripeVars>>
    BY <1>1, <1>2 DEF Deliver, At
  <1>6. ~Closing(x) /\ ~Closing(req[r])
    BY <1>3, <1>4, <1>5 DEF Closing
  <1>7. Recording(x) => Announced(mail)
    BY <1>4 DEF Recording, Announced
  <1>8. Backed(x, Shut(status, req), Captured(intent))
    BY <1>3, <1>4, <1>6 DEF Backed
  <1>9. \A p \in Req : req'[p] = IF p = r THEN x ELSE req[p]
    BY <1>0, <1>5
  <1>10. ASSUME Reversing(x) PROVE Late(status', req', Told(row'))
    <2>1. status = "cancelled" /\ Announced(mail)
      BY <1>1, <1>4, <1>10 DEF Reversing, Announced
    <2>2. ~Told(row)
      BY <2>1 DEF TakenInv
    <2>3. CASE \A p \in Req : ~Closing(req[p])
      BY <1>5, <1>6, <1>9, <2>1, <2>3 DEF Late, Shut
    <2>4. CASE \E p \in Req : Closing(req[p])
      <3>1. PICK p \in Req : Closing(req[p])
        BY <2>4
      <3>2. req[p].pc = "look"
        BY <2>2, <3>1 DEF OneInv, BackInv, Fits, Closing
      <3>3. req'[p] = req[p]
        BY <1>6, <1>9, <3>1
      <3> QED BY <1>5, <2>2, <3>1, <3>2, <3>3 DEF Late
    <2> QED BY <2>3, <2>4
  <1> QED BY <1>4, <1>5, <1>6, <1>7, <1>8, <1>10, TakenRests

\* Two announcements of a held payment are one.
LEMMA OneHold ==
    ASSUME OneInv, NEW d \in Event, NEW e \in Event, d.type = "capturable", e.type = "capturable",
           Honest(d, intent), Honest(e, intent)
    PROVE  d = e
  <1>1. d.intent \in Intent /\ e.intent \in Intent
    BY DEF Event
  <1>2. d.intent = e.intent /\ d.amount = e.amount
    BY <1>1 DEF Honest, Charged, OneInv, OneOf
  <1> QED BY <1>2 DEF Event

\* A payment that came too late is let go only of a booking that nobody counts on.
LEMMA ReverseTaken ==
    ASSUME Calm, Two, OneInv, OneInv', TakenInv, Grown(intent, intent'), NEW r \in Req, Reverse(r)
    PROVE  TakenInv'
  <1>0. req \in [Req -> Request] /\ intent \in [Intent -> IntentState] /\ mail \subseteq Event
        /\ \A p \in Req : Equipped(req[p])
    BY BackTypes DEF OneInv
  <1>1. PICK q \in Request : q = req[r] /\ q.pc = "reverse" /\ ~Closing(q) /\ Equipped(q)
                             /\ Fits(q, status, Told(row), intent)
    BY <1>0 DEF Reverse, At, Closing, OneInv, BackInv
  <1>2. PICK e \in Event : e = q.event /\ Honest(e, intent)
    BY <1>1 DEF Equipped, Fits
  <1>3. PICK i \in Intent : i = e.intent
    BY DEF Event
  <1>4. PICK gone : gone = [type |-> "refunded", intent |-> i, amount |-> Total]
    OBVIOUS
  <1>5. UNCHANGED <<status, row>> /\ req' = [req EXCEPT ![r] = Idle]
    BY Zenon DEF Reverse, Done
  <1>6. \/ /\ e.type = "capturable" /\ intent' = [intent EXCEPT ![i].st = "canceled"] /\ Acknowledge(e)
        \/ /\ intent' = [intent EXCEPT ![i].refunded = Total]
           /\ mail' = (mail \ {e}) \cup {gone}
        \/ Acknowledge(e) /\ UNCHANGED intent
        \/ UNCHANGED stripeVars
    BY <1>1, <1>2, <1>3, <1>4, Zenon DEF Reverse
  <1>7. \A p \in Req : req'[p] = IF p = r THEN Idle ELSE req[p]
    BY <1>0, <1>5
  <1>8. Shut(status', req') = Shut(status, req)
    BY <1>0, <1>1, <1>5, IdleFits, ShutStays
  <1>9. gone.type # "capturable" /\ (Acknowledge(e) => mail' = mail \ {e})
    BY <1>4, Acked
  <1>10. /\ Announced(mail') => Announced(mail)
         /\ HoldNews(mail', req') => HoldNews(mail, req)
    BY <1>6, <1>7, <1>9, IdleBacked DEF Announced, HoldNews, stripeVars
  <1>11. /\ Captured(intent') => Captured(intent)
         /\ ~Shut(status', req') /\ (Told(row') \/ HoldNews(mail', req')) => Standing(intent')
    <2>1. CASE e.type = "capturable" /\ intent' = [intent EXCEPT ![i].st = "canceled"] /\ Acknowledge(e)
      <3>1. PICK y : y = [intent[i] EXCEPT !.st = "canceled"]
        OBVIOUS
      <3>2. y.st = "canceled" /\ intent' = [intent EXCEPT ![i] = y]
        BY <1>0, <2>1, <3>1 DEF IntentState
      <3>3. \A j \in Intent : intent'[j] = IF j = i THEN y ELSE intent[j]
        BY <1>0, <3>2
      <3>4. Captured(intent') => Captured(intent)
        BY <3>2, <3>3 DEF Captured
      <3>5. ASSUME ~Shut(status, req) PROVE ~(Told(row) \/ HoldNews(mail', req'))
        <4>1. Reversing(req[r])
          BY <1>1, <1>2, <2>1 DEF Reversing
        <4>2. ~Told(row) /\ \E p \in Req : Closing(req[p]) /\ req[p].pc = "look"
          BY <3>5, <4>1 DEF TakenInv, Late
        <4>3. PICK p \in Req : req[p].pc = "look"
          BY <4>2
        <4>4. ~Announced(mail')
          <5>1. ASSUME NEW d \in mail', d.type = "capturable" PROVE FALSE
            <6>1. d \in mail /\ d # e
              BY <1>9, <2>1, <5>1
            <6>2. d \in Event /\ Honest(d, intent)
              BY <1>0, <6>1 DEF OneInv, BackInv
            <6> QED BY <1>2, <2>1, <5>1, <6>1, <6>2, OneHold
          <5> QED BY <5>1 DEF Announced
        <4>5. \A o \in Req : ~Recording(req'[o])
          <5>1. ASSUME NEW o \in Req, Recording(req'[o]) PROVE FALSE
            <6>1. o # r /\ o # p /\ p # r
              BY <1>1, <1>7, <4>3, <5>1, IdleBacked DEF Recording
            <6> QED BY <6>1 DEF Two
          <5> QED BY <5>1
        <4> QED BY <4>2, <4>4, <4>5 DEF HoldNews
      <3> QED BY <1>5, <1>8, <3>4, <3>5
    <2>2. CASE \A j \in Intent : intent'[j].st = intent[j].st
      BY <1>5, <1>8, <1>10, <2>2 DEF Captured, Standing, TakenInv
    <2>3. CASE intent' = [intent EXCEPT ![i].refunded = Total]
      <3>1. PICK y : y = [intent[i] EXCEPT !.refunded = Total]
        OBVIOUS
      <3>2. y.st = intent[i].st /\ intent' = [intent EXCEPT ![i] = y]
        BY <1>0, <2>3, <3>1 DEF IntentState
      <3> QED BY <1>0, <2>2, <3>2
    <2>4. CASE UNCHANGED intent
      BY <2>2, <2>4
    <2> QED BY <1>6, <2>1, <2>3, <2>4 DEF stripeVars
  <1>12. /\ status' \in {"confirmed", "completed"} => Captured(intent')
         /\ Told(row') \/ Captured(intent') => ~Announced(mail')
         /\ PaidFit(row', intent')
    BY <1>5, <1>10, <1>11, TakenStays DEF TakenInv
  <1>13. req[r].pc # "look"
    BY <1>1
  <1> QED BY <1>5, <1>8, <1>11, <1>12, <1>13, IdleFits, IdleBacked, TakenMoves

\* What an event makes of the rows: a row that is paid was, or the event says so; a
\* payment that fails records nothing.
LEMMA PaidRows ==
    ASSUME MoneyInv, NEW r \in Req, NEW e \in Event, e = req[r].event, RecordEvent(r), NEW k \in RowId
    PROVE  /\ row'[k].st = "paid" =>
                  \/ row[k].st = "paid" /\ row'[k].ref = row[k].ref
                  \/ e.type = "succeeded" /\ row'[k].ref = e.intent
           /\ e.type = "failed" /\ Recorded(row'[k].st) => Recorded(row[k].st)
  <1>0. row \in [RowId -> Row] /\ RowsOK
    BY BackTypes DEF MoneyInv
  <1>1. PICK i \in Intent : i = e.intent
    BY DEF Event
  <1>2. CASE e.type = "refunded"
    <2>1. MarkPaymentRefunded(i, e.amount)
      BY <1>1, <1>2 DEF RecordEvent
    <2>2. row'[k] = IF row[k].st # "none" /\ row[k].ref = i
                    THEN [row[k] EXCEPT !.refunded = e.amount,
                                        !.st = IF e.amount >= Total THEN "refunded" ELSE row[k].st]
                    ELSE row[k]
      BY <2>1 DEF MarkPaymentRefunded
    <2>3. row[k] \in Row
      BY <1>0
    <2> QED BY <1>2, <2>2, <2>3 DEF Row
  <1>3. CASE e.type # "refunded"
    <2>1. PICK st : st = PaymentStatus(e.type)
      OBVIOUS
    <2>2. /\ st \in {"paid", "authorized", "failed", "pending"} /\ RecordStripePayment(i, st)
          /\ st = "paid" => e.type = "succeeded"
          /\ e.type = "failed" => st = "failed"
      BY <1>1, <1>3, <2>1 DEF RecordEvent, PaymentStatus
    <2>3. \/ row'[k] = row[k]
          \/ /\ row[k].st # "none" /\ row[k].ref = i /\ row'[k].ref = i
             /\ row'[k].st = Merge(row[k].st, st) /\ row'[k].refunded = row[k].refunded
          \/ row[k].st = "none" /\ row'[k].ref = i /\ row'[k].st = st /\ row'[k].refunded = 0
      BY <1>0, <2>2, RecordIs
    <2>4. /\ Merge(row[k].st, st) = "paid" => row[k].st = "paid" \/ st = "paid"
          /\ st = "failed" /\ Recorded(Merge(row[k].st, st)) => Recorded(row[k].st)
      BY DEF Merge, Recorded
    <2> QED BY <1>1, <2>2, <2>3, <2>4 DEF Recorded
  <1> QED BY <1>2, <1>3

\* An event is recorded: that of a held payment, which nobody has let go, is the last
\* of its kind.
LEMMA RecordTaken ==
    ASSUME Calm, Two, OneInv, OneInv', TakenInv, NEW r \in Req, RecordEvent(r)
    PROVE  TakenInv'
  <1>0. req \in [Req -> Request] /\ intent \in [Intent -> IntentState] /\ mail \subseteq Event
        /\ Equipped(req[r])
    BY BackTypes DEF OneInv
  <1>1. PICK q \in Request : q = req[r] /\ q.pc = "record" /\ ~Closing(q) /\ Equipped(q)
                             /\ Fits(q, status, Told(row), intent)
                             /\ Backed(q, Shut(status, req), Captured(intent))
    BY <1>0 DEF RecordEvent, At, Closing, OneInv, BackInv, TakenInv
  <1>2. PICK e \in Event : e = q.event /\ Honest(e, intent) /\ e.intent \in Intent
    BY <1>1 DEF Equipped, Fits, Event
  <1>3. UNCHANGED <<status, intent>> /\ mail' \subseteq mail
    BY <1>1, <1>2, Acked DEF RecordEvent
  <1>4. Grown(intent, intent')
    BY <1>0, <1>3, SameIsLater
  <1>5. PICK x \in Request : req' = [req EXCEPT ![r] = x] /\ x.pc \in {"instant", "idle"}
                             /\ (x.kind = q.kind \/ x = Idle)
    <2>1. CASE e.type = "succeeded"
      <3>1. PICK x : x = [q EXCEPT !.pc = "instant"]
        OBVIOUS
      <3>2. x \in Request /\ x.pc = "instant" /\ x.kind = q.kind
        BY <3>1 DEF Request, Step
      <3>3. req' = [req EXCEPT ![r] = x]
        BY <1>0, <1>1, <1>2, <2>1, <3>1 DEF RecordEvent, Goto
      <3> QED BY <3>2, <3>3
    <2>2. CASE e.type # "succeeded"
      <3>1. req' = [req EXCEPT ![r] = Idle]
        BY <1>1, <1>2, <2>2 DEF RecordEvent, Done
      <3> QED BY <3>1, IdleIs DEF Idle
    <2> QED BY <2>1, <2>2
  <1>6. ~Closing(x) /\ ~Recording(x) /\ ~Reversing(x)
    BY <1>5 DEF Closing, Recording, Reversing
  <1>7. \A p \in Req : req'[p] = IF p = r THEN x ELSE req[p]
    BY <1>0, <1>5
  <1>8. Shut(status', req') = Shut(status, req)
    BY <1>0, <1>1, <1>3, <1>5, <1>6, ShutStays
  <1>9. /\ Announced(mail') => Announced(mail)
        /\ HoldNews(mail', req') => HoldNews(mail, req)
    BY <1>3, <1>6, <1>7 DEF Announced, HoldNews
  <1>10. e.type = "failed" => (Told(row') => Told(row))
    BY <1>1, <1>2, PaidRows DEF Told, OneInv
  <1>11. e.type \in {"succeeded", "refunded"} => Captured(intent) /\ Standing(intent)
    BY <1>2 DEF Honest, Captured, Standing, OneInv, OneOf
  <1>12. e.type = "capturable" => HoldNews(mail, req) /\ mail' = mail \ {e}
    BY <1>1, <1>2, Acked DEF HoldNews, Recording, RecordEvent
  <1>13. e.type \in {"capturable", "succeeded", "failed", "refunded"}
    BY DEF Event
  <1>14. ~Shut(status', req') /\ (Told(row') \/ HoldNews(mail', req')) => Standing(intent')
    BY <1>3, <1>8, <1>9, <1>10, <1>11, <1>12, <1>13 DEF TakenInv
  <1>15. Told(row') \/ Captured(intent') => ~Announced(mail')
    <2>1. CASE e.type = "capturable"
      <3>1. ASSUME NEW d \in mail', d.type = "capturable" PROVE FALSE
        <4>1. d \in mail /\ d # e
          BY <1>12, <2>1, <3>1
        <4>2. d \in Event /\ Honest(d, intent)
          BY <1>0, <4>1 DEF OneInv, BackInv
        <4> QED BY <1>2, <2>1, <3>1, <4>1, <4>2, OneHold
      <3> QED BY <3>1 DEF Announced
    <2>2. CASE e.type # "capturable"
      BY <1>3, <1>9, <1>10, <1>11, <1>13, <2>2 DEF TakenInv
    <2> QED BY <2>1, <2>2
  <1>16. PaidFit(row', intent')
    <2>1. ASSUME NEW k \in RowId, row'[k].st = "paid"
          PROVE  row'[k].ref \in Intent /\ intent[row'[k].ref].st = "succeeded"
      <3>1. \/ row[k].st = "paid" /\ row'[k].ref = row[k].ref
            \/ e.type = "succeeded" /\ row'[k].ref = e.intent
        BY <1>1, <1>2, <2>1, PaidRows DEF OneInv
      <3> QED BY <1>2, <3>1 DEF TakenInv, PaidFit, Honest
    <2> QED BY <1>3, <2>1 DEF PaidFit
  <1>17. Backed(x, Shut(status', req'), Captured(intent'))
    <2>1. CASE x = Idle
      BY <2>1, IdleBacked
    <2>2. CASE x.kind = q.kind
      BY <1>1, <1>3, <1>5, <1>6, <1>8, <2>2 DEF Backed
    <2> QED BY <1>5, <2>1, <2>2
  <1>18. status' \in {"confirmed", "completed"} => Captured(intent')
    BY <1>3 DEF TakenInv
  <1>19. ~Closing(req[r])
    BY <1>1
  <1> QED BY <1>4, <1>5, <1>6, <1>8, <1>14, <1>15, <1>16, <1>17, <1>18, <1>19, TakenMoves

\* A payment that was taken confirms a booking that needs no answer.
LEMMA InstantTaken ==
    ASSUME Calm, Two, OneInv, OneInv', TakenInv, NEW r \in Req, ConfirmInstantBook(r)
    PROVE  TakenInv'
  <1>0. req \in [Req -> Request] /\ Equipped(req[r])
    BY BackTypes DEF OneInv
  <1>1. PICK q \in Request : q = req[r] /\ q.pc = "instant" /\ ~Closing(q) /\ Equipped(q)
                             /\ Fits(q, status, Told(row), intent)
    BY <1>0 DEF ConfirmInstantBook, At, Closing, OneInv, BackInv
  <1>2. PICK e \in Event : e = q.event /\ Honest(e, intent) /\ e.type = "succeeded" /\ e.intent \in Intent
    BY <1>1 DEF Equipped, Fits, Event
  <1>3. Done(r) /\ UNCHANGED <<row, intent>> /\ mail' \subseteq mail
    BY Acked DEF ConfirmInstantBook
  <1>4. Captured(intent) /\ req[r].pc # "look" /\ Told(row') = Told(row) /\ PaidFit(row', intent)
    BY <1>1, <1>2, <1>3 DEF Honest, Captured, TakenInv
  <1>5. CASE UNCHANGED status
    <2>1. Shut(status', req') = Shut(status, req)
      BY <1>0, <1>1, <1>3, <1>5, IdleFits, ShutStays DEF Done
    <2> QED BY <1>3, <1>4, <2>1, TakenEnds
  <1>6. CASE ~UNCHANGED status
    <2>1. status = "pending" /\ status' = "confirmed"
      BY <1>6 DEF ConfirmInstantBook
    <2>2. ~Shut(status, req)
      BY <2>1 DEF Shut
    <2> QED BY <1>3, <1>4, <2>2, TakenEnds
  <1> QED BY <1>5, <1>6

\* The webhook.
LEMMA WebhookTaken ==
    ASSUME Calm, Two, OneInv, OneInv', TakenInv, Grown(intent, intent'), NEW r \in Req, WebhookStep(r)
    PROVE  TakenInv'
  BY DeliverTaken, ReverseTaken, RecordTaken, InstantTaken DEF WebhookStep

\* A hold ends that nobody has claimed: the booking is shut.
LEMMA HoldEndsTaken ==
    ASSUME Two, OneInv, OneInv', TakenInv, NEW r \in Req, NEW x \in Request,
           req' = [req EXCEPT ![r] = x], ~Closing(x), Backed(x, TRUE, Captured(intent)),
           status = "pending", status' = "cancelled", row' = FailPending, UNCHANGED stripeVars
    PROVE  TakenInv'
  <1>0. req \in [Req -> Request] /\ row \in [RowId -> Row] /\ intent \in [Intent -> IntentState]
    BY BackTypes DEF OneInv
  <1>1. UNCHANGED <<intent, keys, mail>>
    BY DEF stripeVars
  <1>2. Grown(intent, intent')
    BY <1>0, <1>1, SameIsLater
  <1>3. ASSUME NEW k \in RowId
        PROVE  \/ row'[k].st = row[k].st /\ row'[k].ref = row[k].ref
               \/ ~Recorded(row[k].st) /\ ~Recorded(row'[k].st)
    <2>1. row'[k] = IF row[k].st = "pending" THEN [row[k] EXCEPT !.st = "failed"] ELSE row[k]
      BY DEF FailPending
    <2>2. row[k] \in Row
      BY <1>0
    <2> QED BY <2>1, <2>2 DEF Row, Recorded
  <1>4. Told(row') = Told(row)
    BY <1>3, RowsHeld DEF OneInv
  <1>5. PaidFit(row', intent')
    BY <1>1, <1>3 DEF TakenInv, PaidFit, Recorded
  <1>6. \A p \in Req : ~Closing(req[p])
    BY DEF OneInv, BackInv, Fits, Claims
  <1>7. Shut(status', req')
    BY <1>0, <1>6 DEF Shut
  <1>8. Backed(x, Shut(status', req'), Captured(intent'))
    BY <1>1, <1>7 DEF Backed
  <1>9. Told(row') \/ Captured(intent') => ~Announced(mail')
    BY <1>1, <1>4 DEF TakenInv
  <1>10. Late(status', req', Told(row'))
    BY <1>7 DEF Late
  <1> QED BY <1>2, <1>5, <1>7, <1>8, <1>9, <1>10, TakenMoves

\* The sweep over the unpaid holds.
LEMMA ExpireTaken ==
    ASSUME Two, OneInv, OneInv', TakenInv, NEW r \in Req, ExpireUnpaid(r) \/ ReleaseOwnHold(r)
    PROVE  TakenInv'
  <1>0. req \in [Req -> Request] /\ row \in [RowId -> Row]
    BY BackTypes DEF OneInv
  <1>1. /\ status = "pending" /\ status' = "cancelled" /\ row' = FailPending
        /\ UNCHANGED stripeVars
    BY DEF ExpireUnpaid, ReleaseOwnHold
  <1>2. CASE Done(r)
    BY <1>1, <1>2, IdleFits, IdleBacked, HoldEndsTaken DEF Done
  <1>3. CASE ~Done(r)
    <2> DEFINE open == {k \in Rows({"pending"}) : row[k].ref # None}
    <2>1. open # {} /\ ExpireUnpaid(r)
      BY <1>3 DEF ExpireUnpaid, ReleaseOwnHold, Done
    <2>2. open \subseteq RowId
      BY DEF Rows
    <2>3. Max(open) \in open
      BY <2>1, <2>2, MaxIn
    <2>4. PICK i \in Intent : i = row[Max(open)].ref
      BY <1>0, <2>2, <2>3 DEF Row
    <2>5. PICK x : x = [Idle EXCEPT !.pc = "close", !.kind = "expire", !.intent = i]
      OBVIOUS
    <2>6. x \in Request /\ x.pc = "close" /\ x.kind = "expire"
      BY <2>5, IdleIs DEF Request, Step, HandlerNames
    <2>7. req' = [req EXCEPT ![r] = x]
      BY <2>1, <2>4, <2>5 DEF ExpireUnpaid
    <2>8. ~Closing(x) /\ Backed(x, TRUE, Captured(intent))
      BY <2>6 DEF Closing, Backed
    <2> QED BY <1>1, <2>6, <2>7, <2>8, HoldEndsTaken
  <1> QED BY <1>2, <1>3

\* The sweep drops nothing of a booking that was answered.
LEMMA DropTaken ==
    ASSUME Two, OneInv, OneInv', TakenInv, NEW r \in Req, DropNothing(r)
    PROVE  TakenInv'
  <1>1. Done(r) /\ UNCHANGED <<status, row, stripeVars>>
    BY DEF DropNothing
  <1> QED BY <1>1, TakenDone

\* The intent of a hold that ended is closed: of a booking that is shut.
LEMMA CloseTaken ==
    ASSUME Two, OneInv, OneInv', TakenInv, Grown(intent, intent'), NEW r \in Req, CloseIntent(r)
    PROVE  TakenInv'
  <1>0. req \in [Req -> Request] /\ intent \in [Intent -> IntentState] /\ Equipped(req[r])
    BY BackTypes DEF OneInv
  <1>1. req[r].pc = "close" /\ ~Closing(req[r]) /\ Done(r) /\ UNCHANGED <<status, row>>
    BY DEF CloseIntent, At, Closing
  <1>2. PICK i \in Intent : i = req[r].intent
    BY <1>0, <1>1 DEF Equipped
  <1>3. CASE UNCHANGED stripeVars
    BY <1>1, <1>3, TakenDone
  <1>4. CASE StripeCancel(i)
    <2>1. PICK y : y = [intent[i] EXCEPT !.st = "canceled"]
      OBVIOUS
    <2>2. y.st = "canceled" /\ intent' = [intent EXCEPT ![i] = y] /\ UNCHANGED mail
      BY <1>0, <1>4, <2>1 DEF StripeCancel, IntentState
    <2>3. \A j \in Intent : intent'[j] = IF j = i THEN y ELSE intent[j]
      BY <1>0, <2>2
    <2>4. Captured(intent') => Captured(intent)
      BY <2>2, <2>3 DEF Captured
    <2>5. req' = [req EXCEPT ![r] = Idle]
      BY <1>1 DEF Done
    <2>6. Shut(status, req)
      BY <1>1 DEF TakenInv, Backed
    <2>7. Shut(status', req') = Shut(status, req)
      BY <1>0, <1>1, <2>5, IdleFits, ShutStays
    <2>8. status' \notin {"confirmed", "completed"}
      BY <1>1, <2>6 DEF Shut
    <2>9. (Told(row') \/ Captured(intent') => ~Announced(mail')) /\ PaidFit(row', intent')
      BY <1>1, <2>2, <2>4, TakenStays DEF TakenInv
    <2> QED BY <1>1, <2>5, <2>6, <2>7, <2>8, <2>9, IdleFits, IdleBacked, TakenMoves
  <1> QED BY <1>2, <1>3, <1>4 DEF CloseIntent

\* A stay ends that was confirmed, and its payment counts as paid: it was taken.
LEMMA CompleteTaken ==
    ASSUME Two, OneInv, OneInv', TakenInv, NEW r \in Req, CompleteStay(r) \/ SettlePayment(r)
    PROVE  TakenInv'
  <1>0. req \in [Req -> Request] /\ row \in [RowId -> Row] /\ intent \in [Intent -> IntentState]
    BY BackTypes DEF OneInv
  <1>1. ASSUME CompleteStay(r) PROVE TakenInv'
    <2>1. PICK x : x = [Idle EXCEPT !.pc = "settle", !.kind = "complete"]
      OBVIOUS
    <2>2. x \in Request /\ x.pc = "settle" /\ x.kind = "complete"
      BY <2>1, IdleIs DEF Request, Step, HandlerNames
    <2>3. /\ req' = [req EXCEPT ![r] = x] /\ req[r].pc = "idle" /\ status = "confirmed" /\ status' = "completed"
          /\ UNCHANGED <<row, intent, keys, mail>>
      BY <1>1, <2>1 DEF CompleteStay, At, stripeVars
    <2>4. ~Closing(x) /\ ~Recording(x) /\ ~Reversing(x) /\ ~Closing(req[r])
      BY <2>2, <2>3 DEF Closing, Recording, Reversing
    <2>5. Captured(intent) /\ ~Shut(status, req)
      BY <2>3 DEF TakenInv, Shut
    <2>6. \A p \in Req : req'[p] = IF p = r THEN x ELSE req[p]
      BY <1>0, <2>3
    <2>7. HoldNews(mail', req') => HoldNews(mail, req)
      BY <2>3, <2>4, <2>6 DEF HoldNews
    <2>8. ~Shut(status', req') /\ (Told(row') \/ HoldNews(mail', req')) => Standing(intent')
      BY <2>3, <2>5, <2>7 DEF TakenInv
    <2>9. Backed(x, Shut(status', req'), Captured(intent'))
      BY <2>2, <2>3, <2>4, <2>5 DEF Backed
    <2>10. (Told(row') \/ Captured(intent') => ~Announced(mail')) /\ PaidFit(row', intent') /\ Captured(intent')
      BY <2>3, <2>5 DEF TakenInv
    <2>11. Grown(intent, intent')
      BY <1>0, <2>3, SameIsLater
    <2> QED BY <2>2, <2>3, <2>4, <2>5, <2>8, <2>9, <2>10, <2>11, TakenMoves
  <1>2. ASSUME SettlePayment(r) PROVE TakenInv'
    <2>1. /\ req[r].pc = "settle" /\ ~Closing(req[r]) /\ Done(r)
          /\ UNCHANGED <<status, intent, mail>>
      BY <1>2 DEF SettlePayment, At, Closing, stripeVars
    <2>2. ASSUME NEW k \in RowId
          PROVE  /\ row'[k].ref = row[k].ref /\ Recorded(row'[k].st) = Recorded(row[k].st)
                 /\ row'[k].st = "paid" => Recorded(row[k].st)
      <3>1. row'[k] = IF row[k].st = "authorized" THEN [row[k] EXCEPT !.st = "paid"] ELSE row[k]
        BY <1>2 DEF SettlePayment
      <3>2. row[k] \in Row
        BY <1>0
      <3> QED BY <3>1, <3>2 DEF Row, Recorded
    <2>3. Captured(intent)
      BY <2>1 DEF TakenInv, Backed
    <2>4. PaidFit(row', intent)
      <3>1. ASSUME NEW k \in RowId, Recorded(row[k].st)
            PROVE  row[k].ref \in Intent /\ intent[row[k].ref].st = "succeeded"
        <4>1. row[k].ref \in Intent /\ Charged(intent[row[k].ref])
          BY <3>1 DEF OneInv, BackInv, RowsFit
        <4> QED BY <2>3, <4>1 DEF Captured, Charged, OneInv, OneOf
      <3> QED BY <2>2, <3>1 DEF PaidFit
    <2>5. Told(row') => Told(row)
      BY <2>2 DEF Told
    <2>6. Shut(status', req') = Shut(status, req)
      BY <1>0, <2>1, IdleFits, ShutStays DEF Done
    <2>7. status' \in {"confirmed", "completed"} => Captured(intent)
      BY <2>3
    <2> QED BY <2>1, <2>4, <2>5, <2>6, <2>7, TakenEnds
  <1> QED BY <1>1, <1>2

\* The guest pays, or tries to: nothing was known of the payment, which stands now.
LEMMA PayTaken ==
    ASSUME OneInv, OneInv', TakenInv, Grown(intent, intent'), NEW i \in Intent, Pay(i) \/ PayFails(i)
    PROVE  TakenInv'
  <1>0. req \in [Req -> Request] /\ intent \in [Intent -> IntentState]
    BY BackTypes DEF OneInv
  <1>1. UNCHANGED <<status, row, req>> /\ intent[i].st = "open"
    BY DEF Pay, PayFails
  <1>2. \A j \in Intent : j # i => intent[j].st = "none"
    BY <1>1 DEF OneInv, OneOf
  <1>3. ~Captured(intent) /\ Standing(intent)
    BY <1>1, <1>2 DEF Captured, Standing
  <1>4. Captured(intent) => Captured(intent')
    BY TakenStays
  <1>5. Shut(status', req') = Shut(status, req) /\ Told(row') = Told(row)
    BY <1>1
  <1>6. \A r \in Req : Backed(req'[r], Shut(status', req'), Captured(intent'))
    BY <1>1, <1>4, <1>5, BackedStays DEF TakenInv
  <1>7. \A r \in Req : Reversing(req'[r]) => Late(status', req', Told(row'))
    BY <1>1, <1>5 DEF TakenInv
  <1>8. status' \in {"confirmed", "completed"} => Captured(intent')
    BY <1>1, <1>4 DEF TakenInv
  <1>9. PaidFit(row', intent')
    BY <1>1, TakenStays DEF TakenInv
  <1>10. ~Told(row)
    BY <1>1, <1>2, PaidOne DEF OneInv, Charged
  <1>11. CASE Pay(i)
    <2>1. PICK st, type : /\ st = (IF listing.manual THEN "held" ELSE "succeeded")
                          /\ type = (IF listing.manual THEN "capturable" ELSE "succeeded")
      OBVIOUS
    <2>2. PICK y : y = [intent[i] EXCEPT !.st = st]
      OBVIOUS
    <2>3. y.st = st /\ intent' = [intent EXCEPT ![i] = y]
      BY <1>0, <1>11, <2>1, <2>2 DEF Pay, IntentState
    <2>4. \A j \in Intent : intent'[j] = IF j = i THEN y ELSE intent[j]
      BY <1>0, <2>3
    <2>5. PICK e : e = [type |-> type, intent |-> i, amount |-> Total]
      OBVIOUS
    <2>6. mail' = mail \cup {e} /\ e.type = type
      BY <1>11, <2>1, <2>5 DEF Pay
    <2>7. Standing(intent')
      BY <1>3, <2>1, <2>3, <2>4 DEF Standing
    <2>8. ~Announced(mail)
      BY <1>1, <1>2, PaidOne DEF OneInv, Charged, HoldNews
    <2>9. Captured(intent') => ~Announced(mail')
      <3>1. CASE listing.manual
        BY <1>3, <2>1, <2>3, <2>4, <3>1 DEF Captured
      <3>2. CASE ~listing.manual
        BY <2>1, <2>6, <2>8, <3>2 DEF Announced
      <3> QED BY <3>1, <3>2
    <2> QED BY <1>5, <1>6, <1>7, <1>8, <1>9, <1>10, <2>7, <2>9 DEF TakenInv
  <1>12. CASE PayFails(i)
    <2>1. PICK e : e = [type |-> "failed", intent |-> i, amount |-> Total]
      OBVIOUS
    <2>2. mail' = mail \cup {e} /\ UNCHANGED intent /\ e.type # "capturable"
      BY <1>12, <2>1 DEF PayFails
    <2> QED BY <1>3, <1>5, <1>6, <1>7, <1>8, <1>9, <1>10, <2>2 DEF TakenInv
  <1> QED BY <1>11, <1>12

\* A booking that was just made.
LEMMA TakenInit == Init => TakenInv
  <1> SUFFICES ASSUME Init PROVE TakenInv
    OBVIOUS
  <1>1. \A r \in Req : req[r] = Idle
    BY DEF Init
  <1>2. \A r \in Req : Backed(req[r], Shut(status, req), Captured(intent)) /\ ~Recording(req[r]) /\ ~Reversing(req[r])
    BY <1>1, IdleBacked
  <1>3. \A k \in RowId : row[k].st # "paid" /\ ~Recorded(row[k].st)
    BY DEF Init, NoRow, Recorded
  <1>4. PaidFit(row, intent) /\ ~Told(row)
    BY <1>3 DEF PaidFit, Told
  <1>5. ~Announced(mail) /\ status = "pending"
    BY DEF Init, Announced
  <1>6. ~HoldNews(mail, req)
    BY <1>2, <1>5 DEF HoldNews
  <1> QED BY <1>2, <1>4, <1>5, <1>6 DEF TakenInv

\* Every step keeps it where at most two requests meet.
LEMMA TakenKeeps ==
    ASSUME Calm, Two, MoneyInv, [Next]_vars, BackInv, TakenInv, OneOf(intent')
    PROVE  TakenInv'
  <1>0. OneInv /\ OneInv' /\ Grown(intent, intent')
    BY StepTypes, OneBefore, BackKeeps, StepGrows DEF OneInv
  <1>1. ASSUME NEW r \in Req, RefundStep(r) PROVE TakenInv'
    BY <1>0, <1>1, ClaimTaken, LookTaken, CallTaken, UnclaimTaken, FinishTaken DEF RefundStep
  <1>2. ASSUME NEW r \in Req, Start(r) \/ CheckoutStep(r) PROVE TakenInv'
    BY <1>0, <1>2, StartTaken, CheckoutTaken DEF CheckoutStep
  <1>3. ASSUME NEW r \in Req, DecideStep(r) \/ WebhookStep(r) PROVE TakenInv'
    BY <1>0, <1>3, DecideTaken, WebhookTaken
  <1>4. ASSUME NEW r \in Req, SweepStep(r) PROVE TakenInv'
    BY <1>0, <1>4, ExpireTaken, DropTaken, CloseTaken, CompleteTaken DEF SweepStep
  <1>5. ASSUME NEW r \in Req, LoseRequest(r) PROVE FALSE
    BY <1>5 DEF LoseRequest, Calm
  <1>6. ~Rebook
    BY DEF Rebook, Calm
  <1>7. CASE UNCHANGED vars
    <2>1. UNCHANGED <<status, row, intent, mail, req>>
      BY <1>7 DEF vars, stripeVars
    <2> QED BY <2>1 DEF TakenInv
  <1> QED BY <1>0, <1>1, <1>2, <1>3, <1>4, <1>5, <1>6, <1>7, PayTaken DEF Next

\* What is recorded as paid was taken.
LEMMA PaidIsTaken == ASSUME TakenInv PROVE PaidMeansTaken
  BY DEF TakenInv, PaidFit, PaidMeansTaken

-------------------------------------------------------------------------------
(* The theorems                                                            *)

\* "Stripe may deliver events late or out of order: never move a payment backwards":
\* no step of any handler does, in any order.
THEOREM PaymentsMoveForward == Spec => NeverBackwards
  <1>1. MoneyInv /\ [Next]_vars => MoneyInv'
    BY StepTypes
  <1>2. MoneyInv /\ [Next]_vars => [\A k \in RowId : Rank(row'[k].st) >= Rank(row[k].st)]_vars
    BY StepForward DEF Forward
  <1> QED BY InitTypes, <1>1, <1>2, PTL DEF Spec, NeverBackwards

\* "A declined request gives the guest everything back": so it does of a booking of one
\* intent, whatever requests overlap, while Stripe may be down (DeclinedGivesBack).
THEOREM DeclinedIsRepaid == ASSUME Calm PROVE Spec => [](OneIntent => DeclinedGivesBack)
  <1> DEFINE Inv == MoneyInv /\ (OneOf(intent) => BackInv)
  <1>1. Init => Inv
    BY InitTypes, BackInit
  <1>2. Inv /\ [Next]_vars => Inv'
    <2> SUFFICES ASSUME Inv, [Next]_vars PROVE Inv'
      OBVIOUS
    <2>1. MoneyInv'
      BY StepTypes
    <2>2. ASSUME OneOf(intent') PROVE BackInv'
      BY <2>2, OneBefore, BackKeeps
    <2> QED BY <2>1, <2>2
  <1>3. Inv => (OneIntent => DeclinedGivesBack)
    BY DeclinedIsBack DEF OneIntent, OneOf
  <1>4. Spec => []Inv
    <2> HIDE DEF Inv
    <2> QED BY <1>1, <1>2, PTL DEF Spec
  <1> QED BY <1>3, <1>4, PTL

\* "Accepting is the moment the money is actually taken": what counts as paid of a
\* booking of one intent was taken, when at most two requests meet (PaidMeansTaken).
THEOREM PaidWasTaken == ASSUME Calm, Two PROVE Spec => [](OneIntent => PaidMeansTaken)
  <1> DEFINE Inv == MoneyInv /\ (OneOf(intent) => BackInv /\ TakenInv)
  <1>1. Init => Inv
    BY InitTypes, BackInit, TakenInit
  <1>2. Inv /\ [Next]_vars => Inv'
    <2> SUFFICES ASSUME Inv, [Next]_vars PROVE Inv'
      OBVIOUS
    <2>1. MoneyInv'
      BY StepTypes
    <2>2. ASSUME OneOf(intent') PROVE BackInv' /\ TakenInv'
      BY <2>2, OneBefore, BackKeeps, TakenKeeps
    <2> QED BY <2>1, <2>2
  <1>3. Inv => (OneIntent => PaidMeansTaken)
    BY PaidIsTaken DEF OneIntent, OneOf
  <1>4. Spec => []Inv
    <2> HIDE DEF Inv
    <2> QED BY <1>1, <1>2, PTL DEF Spec
  <1> QED BY <1>3, <1>4, PTL
===============================================================================
