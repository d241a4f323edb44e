------------------------------ MODULE MoneyProofs ------------------------------
(***************************************************************************)
(* Theorems about what stays cost and where the money goes: the payouts,   *)
(* for every set of stays, payouts, currencies and requests and every      *)
(* fault; the prices, for any rules, prices and stays; and the copies of   *)
(* the settings, the credentials and the exchange rates, for any number of *)
(* calls, keys and saves and any times.                                    *)
(***************************************************************************)
EXTENDS MCMoney, FiniteSetTheorems, WellFoundedInduction, TLAPS

\* A request that is about to insert has chosen stays of one currency; one that
\* pays works on a payout that exists, and has sent it when it marks it.
RequestsAgree ==
    \A r \in Req :
        /\ At(r, "insert") => req[r].cur \in Currency /\ OneCurrency(req[r])
        /\ req[r].pc \in {"transfer", "mark"} => req[r].p \in Payout /\ payout[req[r].p].status # "none"
        /\ At(r, "mark") => sent[req[r].p] > 0 \/ ~WorthSending(req[r].p)

\* The inductive invariant of the register.
RegisterInv == TypeOK /\ RequestsAgree /\ TransferredOnce /\ RegisterMeansSent

\* An idle request fits anywhere.
LEMMA IdleOK == Idle \in Request /\ Idle.pc = "idle"
  BY DEF Idle, Request

\* The register starts empty.
LEMMA RegisterInit == Init => RegisterInv
  <1> SUFFICES ASSUME Init PROVE RegisterInv
    OBVIOUS
  <1>1. TypeOK
    BY IdleOK DEF Init, TypeOK, NoPayout, PayoutRow, OneCurrency
  <1>2. RequestsAgree
    BY IdleOK DEF Init, RequestsAgree, At
  <1>3. TransferredOnce /\ RegisterMeansSent
    BY DEF Init, TransferredOnce, RegisterMeansSent, NoPayout
  <1> QED BY <1>1, <1>2, <1>3 DEF RegisterInv

\* When stays keep currency and share, nothing is sent twice and a payout that
\* exists keeps its stays, the rest of the invariant is about the requests.
LEMMA ReadEligibleStep ==
    ASSUME RegisterInv, NEW r \in Req, ReadEligible(r) PROVE RegisterInv'
  <1>1. PICK s \in Eligible :
          req' = [req EXCEPT ![r] = [pc |-> "insert", p |-> None, cur |-> stay[s].cur,
                                     items |-> {t \in Eligible : stay[t].cur = stay[s].cur}]]
    BY DEF ReadEligible
  <1>2. /\ UNCHANGED <<stay, payout, ready, sent>>
        /\ s \in Stay /\ Eligible \subseteq Stay /\ stay[s].cur \in Currency
    BY <1>1 DEF ReadEligible, Eligible, RegisterInv, TypeOK, StayRow
  <1> DEFINE q == [pc |-> "insert", p |-> None, cur |-> stay[s].cur,
                   items |-> {t \in Eligible : stay[t].cur = stay[s].cur}]
  <1>3. q \in Request /\ q.pc = "insert" /\ q.cur \in Currency /\ OneCurrency(q)
    BY <1>2 DEF Request, OneCurrency
  <1>4. req' = [req EXCEPT ![r] = q] /\ req' \in [Req -> Request]
    BY <1>1, <1>3 DEF RegisterInv, TypeOK
  <1> HIDE DEF q
  <1>c. crossed' \subseteq Stay
    BY DEF ReadEligible, RegisterInv, TypeOK
  <1>5. TypeOK'
    BY <1>c, <1>2, <1>4 DEF RegisterInv, TypeOK, OneCurrency
  <1>6. RequestsAgree'
    BY <1>2, <1>3, <1>4 DEF RegisterInv, TypeOK, RequestsAgree, At, OneCurrency, WorthSending
  <1>7. TransferredOnce' /\ RegisterMeansSent'
    BY <1>2 DEF RegisterInv, TransferredOnce, RegisterMeansSent, WorthSending
  <1> QED BY <1>5, <1>6, <1>7 DEF RegisterInv

\* A payout is inserted in a place that was free.
LEMMA InsertPayoutStep ==
    ASSUME RegisterInv, NEW r \in Req, InsertPayout(r) PROVE RegisterInv'
  <1> DEFINE row == [status |-> "scheduled", cur |-> req[r].cur, items |-> req[r].items]
  <1>1. PICK p \in Payout : payout[p].status = "none" /\ payout' = [payout EXCEPT ![p] = row]
    BY DEF InsertPayout
  <1>2. req' = [req EXCEPT ![r] = Idle] /\ UNCHANGED <<stay, ready, sent>>
    BY DEF InsertPayout, Done
  <1>3. row \in PayoutRow /\ OneCurrency(row) /\ row.status = "scheduled"
    BY DEF InsertPayout, At, RegisterInv, TypeOK, RequestsAgree, Request, PayoutRow, OneCurrency
  <1> HIDE DEF row
  <1>4. payout' \in [Payout -> PayoutRow] /\ req' \in [Req -> Request]
    BY <1>1, <1>2, <1>3, IdleOK DEF RegisterInv, TypeOK
  <1>c. crossed' \subseteq Stay
    BY DEF InsertPayout, ChosenTwice, RegisterInv, TypeOK, Request
  <1>5. TypeOK'
    BY <1>c, <1>1, <1>2, <1>3, <1>4 DEF RegisterInv, TypeOK, OneCurrency
  <1>6. RequestsAgree'
    <2>1. ASSUME NEW q \in Req, q # r, req[q].pc \in {"transfer", "mark"}
          PROVE  req[q].p # p /\ payout'[req[q].p] = payout[req[q].p]
      BY <1>1, <2>1 DEF RegisterInv, TypeOK, RequestsAgree
    <2> QED BY <1>2, <2>1, IdleOK DEF RegisterInv, TypeOK, RequestsAgree, At, OneCurrency, WorthSending
  <1>7. TransferredOnce' /\ RegisterMeansSent'
    BY <1>1, <1>2, <1>3 DEF RegisterInv, TypeOK, TransferredOnce, RegisterMeansSent, WorthSending
  <1> QED BY <1>5, <1>6, <1>7 DEF RegisterInv

\* A payout that is paid was scheduled.
LEMMA StartPayingStep ==
    ASSUME RegisterInv, NEW r \in Req, NEW p \in Payout, StartPaying(r, p) PROVE RegisterInv'
  <1> DEFINE q == [Idle EXCEPT !.pc = "transfer", !.p = p]
  <1>1. q \in Request /\ q.pc = "transfer" /\ q.p = p
    BY DEF Idle, Request
  <1>2. req' = [req EXCEPT ![r] = q] /\ UNCHANGED <<stay, payout, ready, sent>> /\ payout[p].status = "scheduled"
    BY DEF StartPaying
  <1> HIDE DEF q
  <1>c. crossed' \subseteq Stay
    BY DEF StartPaying, RegisterInv, TypeOK
  <1>3. TypeOK'
    BY <1>c, <1>1, <1>2 DEF RegisterInv, TypeOK, OneCurrency
  <1>4. RequestsAgree'
    BY <1>1, <1>2 DEF RegisterInv, TypeOK, RequestsAgree, At, OneCurrency, WorthSending
  <1>5. TransferredOnce' /\ RegisterMeansSent'
    BY <1>2 DEF RegisterInv, TransferredOnce, RegisterMeansSent, WorthSending
  <1> QED BY <1>3, <1>4, <1>5 DEF RegisterInv

\* The idempotency key: whatever was sent before, one transfer stands.
LEMMA TransferStep ==
    ASSUME RegisterInv, NEW r \in Req, Transfer(r) PROVE RegisterInv'
  <1> DEFINE p == req[r].p
  <1>1. p \in Payout /\ UNCHANGED <<stay, payout, ready>>
    BY DEF Transfer, At, RegisterInv, RequestsAgree
  <1>2. /\ sent' \in [Payout -> Nat]
        /\ \A o \in Payout : sent'[o] <= 1 /\ sent'[o] >= sent[o]
    BY <1>1 DEF Transfer, MakeTransfer, RegisterInv, TypeOK, TransferredOnce
  <1>3. \/ req' = [req EXCEPT ![r] = Idle]
        \/ req' = [req EXCEPT ![r].pc = "mark"] /\ (sent'[p] > 0 \/ ~WorthSending(p))
    BY <1>1 DEF Transfer, MakeTransfer, Done, RegisterInv, TypeOK
  <1>4. req' \in [Req -> Request]
    BY <1>3, IdleOK DEF RegisterInv, TypeOK, Request
  <1>c. crossed' \subseteq Stay
    BY DEF Transfer, RegisterInv, TypeOK
  <1>5. TypeOK'
    BY <1>c, <1>1, <1>2, <1>4 DEF RegisterInv, TypeOK, OneCurrency
  <1>6. ASSUME NEW q \in Req PROVE
          /\ req'[q].pc = "insert" => req'[q] = req[q]
          /\ req'[q].pc \in {"transfer", "mark"} =>
               req'[q].p = req[q].p /\ req[q].pc \in {"transfer", "mark"}
          /\ req'[q].pc = "mark" => req[q].pc = "mark" \/ sent'[req[q].p] > 0 \/ ~WorthSending(req[q].p)
    <2>1. CASE q = r
      BY <1>3, <2>1, IdleOK DEF Transfer, At, RegisterInv, TypeOK, Request
    <2>2. CASE q # r
      BY <1>3, <2>2 DEF RegisterInv, TypeOK
    <2> QED BY <2>1, <2>2
  <1>7. RequestsAgree'
    <2> SUFFICES ASSUME NEW q \in Req
                 PROVE  /\ At(q, "insert")' => req'[q].cur \in Currency /\ OneCurrency(req[q])'
                        /\ req'[q].pc \in {"transfer", "mark"} =>
                             req'[q].p \in Payout /\ payout'[req'[q].p].status # "none"
                        /\ At(q, "mark")' => sent'[req'[q].p] > 0 \/ ~WorthSending(req[q].p)'
      BY DEF RequestsAgree
    <2>1. At(q, "insert")' => req'[q].cur \in Currency /\ OneCurrency(req[q])'
      BY <1>1, <1>6 DEF RegisterInv, RequestsAgree, At, OneCurrency
    <2>2. req'[q].pc \in {"transfer", "mark"} => req'[q].p \in Payout /\ payout'[req'[q].p].status # "none"
      BY <1>1, <1>6 DEF RegisterInv, RequestsAgree
    <2>3. ASSUME At(q, "mark")' PROVE sent'[req'[q].p] > 0 \/ ~WorthSending(req[q].p)'
      <3>1. req'[q].p = req[q].p /\ req[q].p \in Payout
        BY <1>6, <2>3 DEF RegisterInv, RequestsAgree, At
      <3>2. sent'[req[q].p] > 0 \/ ~WorthSending(req[q].p)
        <4>1. CASE req[q].pc = "mark"
          BY <1>2, <3>1, <4>1 DEF RegisterInv, RequestsAgree, At, TypeOK
        <4>2. CASE req[q].pc # "mark"
          BY <1>6, <2>3, <4>2 DEF At
        <4> QED BY <4>1, <4>2
      <3> QED BY <1>1, <3>1, <3>2 DEF WorthSending
    <2> QED BY <2>1, <2>2, <2>3
  <1>8. TransferredOnce' /\ RegisterMeansSent'
    BY <1>1, <1>2 DEF RegisterInv, TypeOK, TransferredOnce, RegisterMeansSent, WorthSending
  <1> QED BY <1>5, <1>7, <1>8 DEF RegisterInv

\* The register is written only after the money was sent.
LEMMA MarkPayoutPaidStep ==
    ASSUME RegisterInv, NEW r \in Req, MarkPayoutPaid(r) PROVE RegisterInv'
  <1> DEFINE p == req[r].p
  <1>1. /\ p \in Payout /\ payout[p].status # "none" /\ (sent[p] > 0 \/ ~WorthSending(p))
        /\ payout' = [payout EXCEPT ![p].status = "paid"]
        /\ req' = [req EXCEPT ![r] = Idle] /\ UNCHANGED <<stay, ready, sent>>
    BY DEF MarkPayoutPaid, At, Done, RegisterInv, RequestsAgree
  <1>2. payout' \in [Payout -> PayoutRow] /\ req' \in [Req -> Request]
    BY <1>1, IdleOK DEF RegisterInv, TypeOK, PayoutRow
  <1>3. \A o \in Payout : /\ payout'[o].items = payout[o].items /\ payout'[o].cur = payout[o].cur
                          /\ payout'[o].status = (IF o = p THEN "paid" ELSE payout[o].status)
    BY <1>1 DEF RegisterInv, TypeOK, PayoutRow
  <1>c. crossed' \subseteq Stay
    BY DEF MarkPayoutPaid, RegisterInv, TypeOK
  <1>4. TypeOK'
    BY <1>c, <1>1, <1>2, <1>3 DEF RegisterInv, TypeOK, OneCurrency
  <1>5. RequestsAgree'
    BY <1>1, <1>3, IdleOK DEF RegisterInv, TypeOK, RequestsAgree, At, OneCurrency, WorthSending
  <1>6. TransferredOnce' /\ RegisterMeansSent'
    BY <1>1, <1>3 DEF RegisterInv, TypeOK, TransferredOnce, RegisterMeansSent, WorthSending
  <1> QED BY <1>4, <1>5, <1>6 DEF RegisterInv

\* The rest of the system changes neither currency nor share of a stay.
LEMMA StayStep ==
    ASSUME RegisterInv, NEW s \in Stay, CompleteStay(s) \/ RefundStay(s) PROVE RegisterInv'
  <1>1. /\ UNCHANGED <<payout, ready, sent, req>>
        /\ stay' \in [Stay -> StayRow]
        /\ \A t \in Stay : stay'[t].cur = stay[t].cur /\ stay'[t].share = stay[t].share
    <2>1. ASSUME CompleteStay(s)
          PROVE  /\ UNCHANGED <<payout, ready, sent, req>>
                 /\ stay' = [stay EXCEPT ![s].status = "completed"]
      BY <2>1 DEF CompleteStay
    <2>2. ASSUME RefundStay(s)
          PROVE  /\ UNCHANGED <<payout, ready, sent, req>>
                 /\ stay' = [stay EXCEPT ![s].covered = FALSE]
      BY <2>2 DEF RefundStay
    <2>3. CASE CompleteStay(s)
      BY <2>1, <2>3 DEF RegisterInv, TypeOK, StayRow
    <2>4. CASE RefundStay(s)
      <3> DEFINE old == stay[s]
                 row == [old EXCEPT !.covered = FALSE]
      <3>1. stay \in [Stay -> StayRow] /\ old \in StayRow
        BY DEF RegisterInv, TypeOK
      <3>2. row \in StayRow /\ row.cur = old.cur /\ row.share = old.share
        <4> HIDE DEF old
        <4> QED BY <3>1 DEF StayRow
      <3>3. stay' = [stay EXCEPT ![s] = row] /\ UNCHANGED <<payout, ready, sent, req>>
        BY <2>2, <2>4
      <3> HIDE DEF row
      <3> QED BY <3>1, <3>2, <3>3
    <2> QED BY <2>3, <2>4
  <1>2. \A p \in Payout : payout[p].items \subseteq Stay
    BY DEF RegisterInv, TypeOK, PayoutRow
  <1>3. \A r \in Req : req[r].items \subseteq Stay
    BY DEF RegisterInv, TypeOK, Request
  <1>c. crossed' \subseteq Stay
    BY DEF CompleteStay, RefundStay, RegisterInv, TypeOK
  <1>4. TypeOK'
    BY <1>c, <1>1, <1>2 DEF RegisterInv, TypeOK, OneCurrency
  <1>5. RequestsAgree'
    BY <1>1, <1>2, <1>3 DEF RegisterInv, RequestsAgree, At, OneCurrency, WorthSending
  <1>6. TransferredOnce' /\ RegisterMeansSent'
    BY <1>1, <1>2 DEF RegisterInv, TransferredOnce, RegisterMeansSent, WorthSending
  <1> QED BY <1>4, <1>5, <1>6 DEF RegisterInv

\* A lost request leaves the tables alone, and so does onboarding.
LEMMA OtherStep ==
    ASSUME RegisterInv, SetHostStripeAccount \/ (\E r \in Req : LoseRequest(r)) \/ UNCHANGED vars
    PROVE  RegisterInv'
  <1>1. /\ UNCHANGED <<stay, payout, sent>> /\ ready' \in BOOLEAN
        /\ UNCHANGED req \/ (\E r \in Req : req' = [req EXCEPT ![r] = Idle])
    BY DEF SetHostStripeAccount, LoseRequest, Done, vars, RegisterInv, TypeOK
  <1>c. crossed' \subseteq Stay
    BY DEF SetHostStripeAccount, LoseRequest, vars, RegisterInv, TypeOK
  <1>2. TypeOK'
    BY <1>c, <1>1, IdleOK DEF RegisterInv, TypeOK, OneCurrency
  <1>3. RequestsAgree'
    BY <1>1, IdleOK DEF RegisterInv, TypeOK, RequestsAgree, At, OneCurrency, WorthSending
  <1>4. TransferredOnce' /\ RegisterMeansSent'
    BY <1>1 DEF RegisterInv, TransferredOnce, RegisterMeansSent, WorthSending
  <1> QED BY <1>2, <1>3, <1>4 DEF RegisterInv

\* Every step keeps the register right.
LEMMA RegisterStep == RegisterInv /\ [Next]_vars => RegisterInv'
  BY ReadEligibleStep, InsertPayoutStep, StartPayingStep, TransferStep, MarkPayoutPaidStep,
     StayStep, OtherStep DEF Next

\* The register's invariant holds in every reachable state.
THEOREM RegisterCorrect == Spec => []RegisterInv
  BY RegisterInit, RegisterStep, PTL DEF Spec

\* Every reachable state has its type, and every payout one currency.
THEOREM PayoutsTyped == Spec => []TypeOK
  BY RegisterCorrect, PTL DEF RegisterInv

\* However often administrators repeat themselves, and whatever answers and
\* writes are lost, a payout is transferred at most once.
THEOREM OneTransfer == Spec => []TransferredOnce
  BY RegisterCorrect, PTL DEF RegisterInv

\* A payout that is marked paid was sent, or there was nothing to send.
THEOREM PaidWasSent == Spec => []RegisterMeansSent
  BY RegisterCorrect, PTL DEF RegisterInv

-------------------------------------------------------------------------------
(* A stay is paid out once, unless two requests had chosen it.             *)

\* The stays a request has chosen are in no payout, unless another request had chosen
\* them too when it stored its own, and were not paid at checkout.
ChosenAreFree ==
    \A r \in Req : At(r, "insert") =>
        \A s \in req[r].items : s \notin Items \ crossed /\ ~(stay[s].settled /\ stay[s].covered)

OnceInv == HostPaidOnce /\ ChosenAreFree

\* No payouts, no stays paid out.
LEMMA OnceInit == Init => OnceInv
  BY IdleOK DEF Init, OnceInv, HostPaidOnce, ChosenAreFree, Items, NoPayout, At

\* A step that moves no stay into or out of a payout, and starts no insertion,
\* can only end the coverage of stays.
LEMMA OnceKept ==
    ASSUME OnceInv, TypeOK,
           \A p \in Payout : payout'[p].items = payout[p].items,
           \A s \in Stay : /\ stay'[s].settled = stay[s].settled
                           /\ stay'[s].covered => stay[s].covered,
           \A r \in Req : At(r, "insert")' => At(r, "insert") /\ req'[r].items = req[r].items,
           UNCHANGED crossed
    PROVE  OnceInv'
  <1>1. Items' = Items /\ Items \subseteq Stay
    BY DEF Items, TypeOK, PayoutRow
  <1>2. HostPaidOnce'
    BY <1>1 DEF OnceInv, HostPaidOnce
  <1>3. ChosenAreFree'
    BY <1>1 DEF OnceInv, ChosenAreFree, TypeOK, Request, At
  <1> QED BY <1>2, <1>3 DEF OnceInv

\* What is chosen was free.
LEMMA OnceRead ==
    ASSUME OnceInv, TypeOK, NEW r \in Req, ReadEligible(r) PROVE OnceInv'
  <1>1. PICK s \in Eligible :
          req' = [req EXCEPT ![r] = [pc |-> "insert", p |-> None, cur |-> stay[s].cur,
                                     items |-> {t \in Eligible : stay[t].cur = stay[s].cur}]]
    BY DEF ReadEligible
  <1>2. UNCHANGED <<stay, payout, crossed>> /\ Items' = Items
    BY DEF ReadEligible, Items
  <1>3. \A t \in req'[r].items : t \notin Items /\ ~(stay[t].settled /\ stay[t].covered)
    BY <1>1 DEF TypeOK, Eligible
  <1>4. ChosenAreFree'
    BY <1>1, <1>2, <1>3 DEF OnceInv, ChosenAreFree, TypeOK, At
  <1> QED BY <1>2, <1>4 DEF OnceInv, HostPaidOnce

\* A request puts stays into its payout that are free, or were crossed; those another
\* request has chosen too are crossed from then on.
LEMMA OnceInsert ==
    ASSUME OnceInv, TypeOK, NEW r \in Req, InsertPayout(r) PROVE OnceInv'
  <1>1. PICK p \in Payout :
          /\ payout[p].status = "none"
          /\ payout' = [payout EXCEPT ![p] = [status |-> "scheduled", cur |-> req[r].cur,
                                              items |-> req[r].items]]
    BY DEF InsertPayout
  <1>2. /\ UNCHANGED stay /\ req' = [req EXCEPT ![r] = Idle] /\ At(r, "insert")
        /\ crossed' = crossed \cup ChosenTwice(r)
    BY DEF InsertPayout, Done
  <1>3. \A q \in Req : At(q, "insert")' => q # r /\ At(q, "insert") /\ req'[q].items = req[q].items
    BY <1>2, IdleOK DEF TypeOK, At
  <1>4. \A o \in Payout : payout'[o].items = IF o = p THEN req[r].items ELSE payout[o].items
    BY <1>1 DEF TypeOK
  <1>5. \A s \in req[r].items : s \notin Items \ crossed /\ ~(stay[s].settled /\ stay[s].covered)
    BY <1>2 DEF OnceInv, ChosenAreFree
  <1>6. \A s \in Items' : s \in Items \/ s \in req[r].items
    BY <1>4 DEF Items
  <1>7. \A o \in Payout : payout[o].items \subseteq Items
    BY DEF Items
  <1>8. HostPaidOnce'
    <2>1. \A s \in Items' : ~(stay'[s].settled /\ stay'[s].covered)
      BY <1>2, <1>5, <1>6 DEF OnceInv, HostPaidOnce
    <2>2. \A o, q \in Payout : o # q => payout'[o].items \cap payout'[q].items \subseteq crossed'
      BY <1>2, <1>4, <1>5, <1>7 DEF OnceInv, HostPaidOnce
    <2> QED BY <2>1, <2>2 DEF HostPaidOnce
  <1>9. ChosenAreFree'
    <2> SUFFICES ASSUME NEW q \in Req, At(q, "insert")', NEW s \in req'[q].items
                 PROVE  s \notin Items' \ crossed' /\ ~(stay'[s].settled /\ stay'[s].covered)
      BY DEF ChosenAreFree
    <2>1. q # r /\ At(q, "insert") /\ s \in req[q].items
      BY <1>3
    <2>2. s \notin Items \ crossed /\ ~(stay[s].settled /\ stay[s].covered)
      BY <2>1 DEF OnceInv, ChosenAreFree
    <2>3. s \in req[r].items => s \in crossed'
      BY <1>2, <2>1 DEF ChosenTwice
    <2> QED BY <1>2, <1>6, <2>2, <2>3
  <1> QED BY <1>8, <1>9 DEF OnceInv

\* The other steps move no stay.
LEMMA OnceStep == OnceInv /\ RegisterInv /\ [Next]_vars => OnceInv'
  <1> SUFFICES ASSUME OnceInv, RegisterInv, [Next]_vars PROVE OnceInv'
    OBVIOUS
  <1>0. TypeOK /\ RequestsAgree
    BY DEF RegisterInv
  <1>1. ASSUME NEW r \in Req, ReadEligible(r) PROVE OnceInv'
    BY <1>0, <1>1, OnceRead
  <1>2. ASSUME NEW r \in Req, InsertPayout(r) PROVE OnceInv'
    BY <1>0, <1>2, OnceInsert
  <1>3. ASSUME NEW r \in Req, NEW p \in Payout, StartPaying(r, p) PROVE OnceInv'
    <2>1. UNCHANGED <<stay, payout, crossed>>
          /\ \A q \in Req : At(q, "insert")' => At(q, "insert") /\ req'[q].items = req[q].items
      BY <1>0, <1>3 DEF StartPaying, TypeOK, At, Idle
    <2> QED BY <1>0, <2>1, OnceKept
  <1>4. ASSUME NEW r \in Req, Transfer(r) PROVE OnceInv'
    <2>1. UNCHANGED <<stay, payout, crossed>>
          /\ \A q \in Req : At(q, "insert")' => At(q, "insert") /\ req'[q].items = req[q].items
      BY <1>0, <1>4, IdleOK DEF Transfer, Done, TypeOK, Request, At
    <2> QED BY <1>0, <2>1, OnceKept
  <1>5. ASSUME NEW r \in Req, MarkPayoutPaid(r) PROVE OnceInv'
    <2>1. /\ UNCHANGED <<stay, crossed>>
          /\ \A p \in Payout : payout'[p].items = payout[p].items
          /\ \A q \in Req : At(q, "insert")' => At(q, "insert") /\ req'[q].items = req[q].items
      BY <1>0, <1>5, IdleOK DEF MarkPayoutPaid, Done, TypeOK, PayoutRow, At
    <2> QED BY <1>0, <2>1, OnceKept
  <1>6. ASSUME NEW r \in Req, LoseRequest(r) PROVE OnceInv'
    <2>1. UNCHANGED <<stay, payout, crossed>>
          /\ \A q \in Req : At(q, "insert")' => At(q, "insert") /\ req'[q].items = req[q].items
      BY <1>0, <1>6, IdleOK DEF LoseRequest, Done, TypeOK, At
    <2> QED BY <1>0, <2>1, OnceKept
  <1>7. ASSUME NEW s \in Stay, CompleteStay(s) \/ RefundStay(s) PROVE OnceInv'
    <2>1. /\ UNCHANGED <<payout, req, crossed>>
          /\ \A t \in Stay : stay'[t].settled = stay[t].settled /\ (stay'[t].covered => stay[t].covered)
      BY <1>0, <1>7 DEF CompleteStay, RefundStay, TypeOK, StayRow
    <2> QED BY <1>0, <2>1, OnceKept DEF At
  <1>8. ASSUME SetHostStripeAccount \/ UNCHANGED vars PROVE OnceInv'
    <2>1. UNCHANGED <<stay, payout, req, crossed>>
      BY <1>8 DEF SetHostStripeAccount, vars
    <2> QED BY <1>0, <2>1, OnceKept DEF At
  <1> QED BY <1>1, <1>2, <1>3, <1>4, <1>5, <1>6, <1>7, <1>8 DEF Next

\* However many requests create payouts, the host's share of a stay is paid out once,
\* and never on top of a checkout that paid the host, except where two requests had
\* both chosen the stay before either stored its payout (HostPaidOnce).
THEOREM PayoutsPayOnce == Spec => []HostPaidOnce
  <1>1. OnceInv => HostPaidOnce
    BY DEF OnceInv
  <1> QED BY <1>1, OnceInit, OnceStep, RegisterCorrect, PTL DEF Spec

-------------------------------------------------------------------------------
(* The prices                                                              *)

\* The two bounds of a host stand apart.
BoundsApart(s) == s.floor # None /\ s.ceiling # None => s.floor <= s.ceiling

PricingInv == Pricing!TypeOK /\ BoundsApart(pricingRules.smart)

\* A host starts without rules and prices.
LEMMA PricingInit == Pricing!Init => PricingInv
  <1> SUFFICES ASSUME Pricing!Init PROVE PricingInv
    OBVIOUS
  <1>1. Pricing!NoRules = NoRules
    BY DEF Pricing!NoRules, NoRules
  <1>2. pricingRules \in [smart : SmartRules, lastMinute : RateRules, longStay : Discounts, mobile : Discounts]
    BY <1>1, MoneyAssumption DEF Pricing!Init
  <1>3. 0 \in Pricing!Day
    BY MoneyAssumption DEF Pricing!Day
  <1>4. pricingRules.smart.floor = None
    BY DEF Pricing!Init, Pricing!NoRules
  <1> QED BY <1>2, <1>3, <1>4 DEF Pricing!Init, PricingInv, Pricing!TypeOK, BoundsApart

\* Every edit, booking and day keeps the bounds apart.
LEMMA PricingStep == PricingInv /\ [Pricing!Next]_(Pricing!vars) => PricingInv'
  <1> SUFFICES ASSUME PricingInv, [Pricing!Next]_(Pricing!vars) PROVE PricingInv'
    OBVIOUS
  <1> USE DEF PricingInv, Pricing!TypeOK, BoundsApart
  <1>1. ASSUME NEW s \in SmartRules, Pricing!SaveSmartRules(s) PROVE PricingInv'
    BY <1>1 DEF Pricing!SaveSmartRules
  <1>2. ASSUME NEW l \in RateRules, NEW d \in Discounts, NEW m \in Discounts, Pricing!SaveDiscounts(l, d, m)
        PROVE  PricingInv'
    BY <1>2 DEF Pricing!SaveDiscounts
  <1>3. ASSUME NEW n \in Pricing!Night, NEW p \in Overrides \cup {None}, Pricing!SetPrice(n, p)
        PROVE  PricingInv'
    BY <1>3 DEF Pricing!SetPrice
  <1>4. ASSUME NEW s \in Pricing!Dates, Pricing!BookStay(s) \/ Pricing!CancelStay(s) PROVE PricingInv'
    BY <1>4 DEF Pricing!BookStay, Pricing!CancelStay
  <1>5. CASE Pricing!PassDay
    <2>1. Horizon \in Nat
      BY MoneyAssumption
    <2> QED BY <1>5, <2>1 DEF Pricing!PassDay, Pricing!Day
  <1>6. CASE UNCHANGED Pricing!vars
    BY <1>6 DEF Pricing!vars
  <1> QED BY <1>1, <1>2, <1>3, <1>4, <1>5, <1>6 DEF Pricing!Next

-------------------------------------------------------------------------------
(* Sums                                                                    *)

\* A sum over a set takes one of its members off, again and again.
Unfolds(g, f, S) ==
    \A s \in SUBSET S : g[s] = IF s = {} THEN 0
                               ELSE f[CHOOSE x \in s : TRUE] + g[s \ {CHOOSE x \in s : TRUE}]

LEMMA SumUnfolds ==
    ASSUME NEW S, IsFiniteSet(S), NEW f, DOMAIN f = S
    PROVE  \E g : Unfolds(g, f, S) /\ Pricing!SumFunction(f) = g[S]
  <1> DEFINE term(g, s) == IF s = {} THEN 0
                           ELSE f[CHOOSE x \in s : TRUE] + g[s \ {CHOOSE x \in s : TRUE}]
             body(g) == [s \in SUBSET S |-> term(g, s)]
             Upto(g, n) == \A s \in SUBSET S : Cardinality(s) <= n => g[s] = term(g, s)
             iter == CHOOSE g : g = body(g)
             bad == {n \in Nat : ~\E g : Upto(g, n)}
  <1>1. \A s \in SUBSET S : IsFiniteSet(s) /\ Cardinality(s) \in Nat /\ Cardinality(s) <= Cardinality(S)
    BY FS_Subset, FS_CardinalityType
  <1>2. \A s \in SUBSET S : s # {} =>
            /\ s \ {CHOOSE x \in s : TRUE} \in SUBSET S
            /\ Cardinality(s \ {CHOOSE x \in s : TRUE}) = Cardinality(s) - 1
    BY <1>1, FS_RemoveElement
  <1>3. \A s \in SUBSET S : Cardinality(s) <= 0 => s = {}
    BY <1>1, FS_EmptySet
  <1>4. ASSUME NEW g, NEW h, NEW n \in Nat, Upto(g, n - 1),
               h = [s \in SUBSET S |-> IF Cardinality(s) <= n - 1 THEN g[s] ELSE term(g, s)]
        PROVE  Upto(h, n)
    <2> SUFFICES ASSUME NEW s \in SUBSET S, Cardinality(s) <= n PROVE h[s] = term(h, s)
      OBVIOUS
    <2>1. h[s] = term(g, s)
      <3> HIDE DEF term
      <3> QED BY <1>4
    <2>2. ASSUME s # {} PROVE h[s \ {CHOOSE x \in s : TRUE}] = g[s \ {CHOOSE x \in s : TRUE}]
      <3>1. PICK t \in SUBSET S : t = s \ {CHOOSE x \in s : TRUE}
        BY <1>2, <2>2
      <3>2. Cardinality(t) = Cardinality(s) - 1 /\ Cardinality(s) \in Nat
        BY <1>1, <1>2, <2>2, <3>1
      <3>3. h[t] = g[t]
        <4> HIDE DEF term
        <4> QED BY <1>4, <3>2
      <3> QED BY <3>1, <3>3
    <2> QED BY <2>1, <2>2
  <1>5. \E g : Upto(g, 0)
    <2>1. PICK g : g = [s \in SUBSET S |-> 0]
      OBVIOUS
    <2>2. \A s \in SUBSET S : s = {} => g[s] = term(g, s)
      BY <2>1
    <2>3. Upto(g, 0)
      <3> HIDE DEF term
      <3> QED BY <1>3, <2>2
    <2> HIDE DEF Upto
    <2> QED BY <2>3
  <1>6. bad = {}
    <2> HIDE DEF Upto
    <2> SUFFICES ASSUME bad # {} PROVE FALSE
      OBVIOUS
    <2>1. PICK n \in bad : \A m \in bad : <<m, n>> \notin OpToRel(<, Nat)
      <3>1. IsWellFoundedOn(OpToRel(<, Nat), Nat) /\ bad \subseteq Nat
        BY NatLessThanWellFounded
      <3> QED BY <3>1, WFMin
    <2>2. n \in Nat /\ n # 0 /\ n - 1 \in Nat /\ n - 1 < n
      <3>1. n \in Nat /\ ~\E g : Upto(g, n)
        BY <2>1
      <3>2. n # 0
        BY <1>5, <3>1, Zenon
      <3> QED BY <3>1, <3>2
    <2>3. <<n - 1, n>> \in OpToRel(<, Nat)
      BY <2>2 DEF OpToRel
    <2>4. PICK g : Upto(g, n - 1)
      BY <2>1, <2>2, <2>3
    <2>5. PICK h : h = [s \in SUBSET S |-> IF Cardinality(s) <= n - 1 THEN g[s] ELSE term(g, s)]
      OBVIOUS
    <2>6. Upto(h, n)
      BY <1>4, <2>2, <2>4, <2>5
    <2> QED BY <2>1, <2>6
  <1>7. \E g : g = body(g)
    <2>1. Cardinality(S) \in Nat
      BY <1>1
    <2>2. PICK g : Upto(g, Cardinality(S))
      <3> HIDE DEF Upto
      <3> QED BY <1>6, <2>1
    <2>3. PICK h : h = [s \in SUBSET S |-> g[s]]
      OBVIOUS
    <2>4. \A s \in SUBSET S : g[s] = term(g, s) /\ term(h, s) = term(g, s)
      <3>1. \A s \in SUBSET S : g[s] = term(g, s)
        <4> HIDE DEF term
        <4> QED BY <1>1, <2>2
      <3>2. \A s \in SUBSET S : term(h, s) = term(g, s)
        BY <1>2, <2>3
      <3> QED BY <3>1, <3>2
    <2>5. h = body(h)
      <3> HIDE DEF term
      <3> QED BY <2>3, <2>4
    <2> HIDE DEF body
    <2> QED BY <2>5
  <1>8. iter = body(iter)
    <2> HIDE DEF body
    <2> QED BY <1>7
  <1>9. Pricing!SumFunction(f) = iter[S]
    BY Zenon DEF Pricing!SumFunction, Pricing!SumFunctionOnSet, Pricing!FoldFunctionOnSet, Pricing!MapThenFoldSet
  <1>10. Unfolds(iter, f, S)
    <2>1. \A s \in SUBSET S : iter[s] = term(iter, s)
      <3> HIDE DEF term, iter
      <3> QED BY <1>8
    <2> HIDE DEF iter
    <2> QED BY <2>1 DEF Unfolds
  <1> HIDE DEF iter
  <1> QED BY <1>9, <1>10

\* A sum lies between as many of the least and as many of the greatest of its terms.
LEMMA SumBounds ==
    ASSUME NEW S, IsFiniteSet(S), NEW f, DOMAIN f = S, \A x \in S : f[x] \in Int, NEW lo \in Int, NEW hi \in Int
    PROVE  /\ Pricing!SumFunction(f) \in Int
           /\ (\A x \in S : f[x] >= lo) => Pricing!SumFunction(f) >= Cardinality(S) * lo
           /\ (\A x \in S : f[x] <= hi) => Pricing!SumFunction(f) <= Cardinality(S) * hi
  <1>0. PICK g : Unfolds(g, f, S) /\ Pricing!SumFunction(f) = g[S]
    BY SumUnfolds
  <1> DEFINE Low == \A x \in S : f[x] >= lo
             High == \A x \in S : f[x] <= hi
             Fits(s) == /\ g[s] \in Int
                        /\ Low => g[s] >= Cardinality(s) * lo
                        /\ High => g[s] <= Cardinality(s) * hi
             bad == {n \in Nat : \E s \in SUBSET S : Cardinality(s) = n /\ ~Fits(s)}
  <1>1. \A s \in SUBSET S : IsFiniteSet(s) /\ Cardinality(s) \in Nat
    BY FS_Subset, FS_CardinalityType
  <1>2. bad = {}
    <2> SUFFICES ASSUME bad # {} PROVE FALSE
      OBVIOUS
    <2>1. PICK n \in bad : \A m \in bad : <<m, n>> \notin OpToRel(<, Nat)
      <3>1. IsWellFoundedOn(OpToRel(<, Nat), Nat) /\ bad \subseteq Nat
        BY NatLessThanWellFounded
      <3> QED BY <3>1, WFMin
    <2>2. PICK s \in SUBSET S : Cardinality(s) = n /\ ~Fits(s)
      BY <2>1
    <2>3. s # {}
      <3>1. ASSUME s = {} PROVE Fits(s)
        <4>1. g[s] = 0 /\ Cardinality(s) = 0
          BY <1>0, <3>1, FS_EmptySet DEF Unfolds
        <4> QED BY <4>1
      <3> QED BY <3>1, <2>2
    <2>4. PICK x \in s : x = CHOOSE y \in s : TRUE
      BY <2>3
    <2>5. PICK t \in SUBSET S : t = s \ {x}
      OBVIOUS
    <2>6. Cardinality(t) = n - 1 /\ n - 1 \in Nat
      <3>1. IsFiniteSet(s) /\ Cardinality(s) \in Nat /\ Cardinality(t) \in Nat
        BY <1>1
      <3>2. Cardinality(t) = Cardinality(s) - 1
        BY <2>4, <2>5, <3>1, FS_RemoveElement
      <3> QED BY <2>2, <3>1, <3>2
    <2>7. Fits(t)
      <3>1. n \in Nat
        BY <2>1
      <3>2. <<n - 1, n>> \in OpToRel(<, Nat)
        BY <2>6, <3>1 DEF OpToRel
      <3>3. n - 1 \notin bad
        BY <2>1, <3>2
      <3> QED BY <2>6, <3>3
    <2>8. g[s] = f[x] + g[t] /\ f[x] \in Int /\ n \in Nat
      BY <1>0, <2>1, <2>3, <2>4, <2>5 DEF Unfolds
    <2>9. Fits(s)
      <3>1. (n - 1) * lo + lo = n * lo /\ (n - 1) * hi + hi = n * hi
        BY <2>8
      <3>2. PICK a \in Int : a = (n - 1) * lo
        BY <2>8
      <3>3. PICK b \in Int : b = (n - 1) * hi
        BY <2>8
      <3>4. n * lo = a + lo /\ n * hi = b + hi
        BY <3>1, <3>2, <3>3
      <3>5. g[t] \in Int /\ (Low => g[t] >= a) /\ (High => g[t] <= b)
        BY <2>6, <2>7, <3>2, <3>3
      <3>6. (Low => f[x] >= lo) /\ (High => f[x] <= hi)
        OBVIOUS
      <3>7. g[s] \in Int /\ (Low => g[s] >= a + lo) /\ (High => g[s] <= b + hi)
        <4> HIDE DEF Low, High
        <4> QED BY <2>8, <3>5, <3>6
      <3> QED BY <2>2, <3>4, <3>7
    <2> QED BY <2>2, <2>9
  <1>3. Fits(S)
    BY <1>1, <1>2
  <1> QED BY <1>0, <1>3

-------------------------------------------------------------------------------
(* What a night costs                                                      *)

\* Rounding keeps the order of two numbers.
LEMMA RoundKeepsOrder ==
    ASSUME NEW u \in Nat \ {0}, NEW x \in Int, NEW y \in Int, x <= y
    PROVE  /\ Pricing!RoundTo(x, u) \in Int /\ Pricing!RoundTo(y, u) \in Int
           /\ Pricing!RoundTo(x, u) <= Pricing!RoundTo(y, u)
  <1>1. PICK h \in Int : h = u \div 2
    OBVIOUS
  <1>2. PICK a \in Int, b \in Int : a = (x + h) \div u /\ b = (y + h) \div u
    OBVIOUS
  <1>3. u * a <= x + h /\ x + h < u * a + u /\ u * b <= y + h /\ y + h < u * b + u
    BY <1>2
  <1>4. a <= b
    <2>1. ASSUME b + 1 <= a PROVE FALSE
      <3>1. u * b + u <= u * a
        BY <2>1
      <3>2. u * a \in Int /\ u * b \in Int
        OBVIOUS
      <3> QED BY <1>3, <3>1, <3>2
    <2> QED BY <2>1
  <1>5. a * u <= b * u /\ a * u \in Int /\ b * u \in Int
    BY <1>4
  <1> QED BY <1>1, <1>2, <1>5 DEF Pricing!RoundTo

\* A cent is a whole number of parts.
LEMMA CentIsWhole == Unit \in Nat \ {0} /\ Unit \div 100 \in Nat \ {0} /\ Unit = 100 * (Unit \div 100)
  BY PricesAssumption

\* To the cent, and to the whole amount, the order of two numbers is kept.
LEMMA RoundedInOrder ==
    ASSUME NEW x \in Int, NEW y \in Int, x <= y
    PROVE  /\ Pricing!Round2(x) \in Int /\ Pricing!Round2(y) \in Int
           /\ Pricing!Round2(x) <= Pricing!Round2(y)
           /\ Pricing!Round(x) \in Int /\ Pricing!Round(y) \in Int
           /\ Pricing!Round(x) <= Pricing!Round(y)
  BY CentIsWhole, RoundKeepsOrder DEF Pricing!Round2, Pricing!Round

\* Rounding moves a number by half a unit at most.
LEMMA RoundsNear ==
    ASSUME NEW u \in Nat \ {0}, NEW x \in Int
    PROVE  /\ Pricing!RoundTo(x, u) \in Int
           /\ 2 * Pricing!RoundTo(x, u) - u <= 2 * x /\ 2 * x <= 2 * Pricing!RoundTo(x, u) + u
  <1>1. PICK h \in Int : h = u \div 2
    OBVIOUS
  <1>2. 2 * h <= u /\ u <= 2 * h + 1
    BY <1>1
  <1>3. PICK a \in Int : a = (x + h) \div u
    OBVIOUS
  <1>4. PICK z \in Int : z = a * u
    OBVIOUS
  <1>5. z <= x + h /\ x + h < z + u
    BY <1>3, <1>4
  <1>6. Pricing!RoundTo(x, u) = z
    BY <1>1, <1>3, <1>4 DEF Pricing!RoundTo
  <1> QED BY <1>2, <1>5, <1>6

\* To the cent it is half a cent, and to the whole amount half of one.
LEMMA RoundedNear ==
    ASSUME NEW x \in Int
    PROVE  /\ 2 * Pricing!Round2(x) - Unit \div 100 <= 2 * x /\ 2 * x <= 2 * Pricing!Round2(x) + Unit \div 100
           /\ 2 * Pricing!Round(x) - Unit <= 2 * x /\ 2 * x <= 2 * Pricing!Round(x) + Unit
  BY CentIsWhole, RoundsNear DEF Pricing!Round2, Pricing!Round

\* A set of numbers has a least one.
LEMMA LeastNumber == ASSUME NEW T \in SUBSET Nat, T # {} PROVE \E x \in T : \A y \in T : x <= y
  <1>1. PICK x \in T : \A y \in T : <<y, x>> \notin OpToRel(<, Nat)
    BY NatLessThanWellFounded, WFMin
  <1>2. ASSUME NEW y \in T PROVE x <= y
    <2>1. x \in Nat /\ y \in Nat
      OBVIOUS
    <2>2. ASSUME y < x PROVE FALSE
      <3>1. <<y, x>> \in OpToRel(<, Nat)
        BY <2>1, <2>2 DEF OpToRel
      <3>2. <<y, x>> \notin OpToRel(<, Nat)
        BY <1>1, Zenon
      <3> QED BY <3>1, <3>2
    <2> QED BY <2>1, <2>2
  <1> QED BY <1>2

\* The percent of a night is that of one of its periods.
LEMMA SeasonPercent ==
    ASSUME NEW s \in SentRules, NEW n \in Int PROVE Pricing!Season(s, n) \in Int
  <1> DEFINE in == {k \in DOMAIN s.seasons : n \in s.seasons[k].from .. s.seasons[k].to}
             length(k) == s.seasons[k].to - s.seasons[k].from
             best == {k \in in : \A j \in in : length(k) <= length(j)}
  <1>0. s.seasons \in Seq([from : Int, to : Int, percent : Int])
    BY DEF SentRules
  <1>1. /\ DOMAIN s.seasons \subseteq Nat
        /\ \A k \in DOMAIN s.seasons : s.seasons[k] \in [from : Int, to : Int, percent : Int]
    <2>0. PICK R : R = [from : Int, to : Int, percent : Int]
      OBVIOUS
    <2>1. PICK q \in Seq(R) : q = s.seasons
      BY <1>0, <2>0
    <2>2. DOMAIN q = 1 .. Len(q) /\ Len(q) \in Nat
      OBVIOUS
    <2>3. \A k \in 1 .. Len(q) : q[k] \in R
      OBVIOUS
    <2> QED BY <2>0, <2>1, <2>2, <2>3
  <1>2. CASE in = {}
    BY <1>2 DEF Pricing!Season
  <1>3. CASE in # {}
    <2>1. \A k \in in : length(k) \in Nat
      BY <1>1
    <2>2. PICK x \in {length(k) : k \in in} : \A y \in {length(k) : k \in in} : x <= y
      <3>1. {length(k) : k \in in} \in SUBSET Nat /\ {length(k) : k \in in} # {}
        BY <1>3, <2>1
      <3> HIDE DEF in, length
      <3> QED BY <3>1, LeastNumber
    <2>3. best \in SUBSET Nat /\ best # {}
      BY <1>1, <2>2
    <2>4. Pricing!Min(best) \in best
      <3>1. \E z \in best : \A y \in best : z <= y
        <4> HIDE DEF best
        <4> QED BY <2>3, LeastNumber
      <3> HIDE DEF best
      <3> QED BY <3>1, Zenon DEF Pricing!Min
    <2>5. s.seasons[Pricing!Min(best)].percent \in Int
      BY <1>1, <2>4
    <2>6. Pricing!Season(s, n) = s.seasons[Pricing!Min(best)].percent
      BY <1>3, Zenon DEF Pricing!Season
    <2> QED BY <2>5, <2>6
  <1> QED BY <1>2, <1>3

\* A percent more or less of a whole number.
LEMMA Adjusts == ASSUME NEW p \in Int, NEW percent \in Int PROVE Pricing!Adjusted(p, percent) \in Int
  <1>1. p * (100 + percent) \in Int
    OBVIOUS
  <1> QED BY <1>1 DEF Pricing!Adjusted, Pricing!Percent

\* Whatever the rules make of a night is a number.
LEMMA RuledIsNumber ==
    ASSUME NEW s \in SentRules, NEW n \in Int, NEW ahead, NEW occupancy, NEW isGap
    PROVE  Pricing!Ruled(s, n, ahead, occupancy, isGap) \in Int
  <1>1. /\ s.weekend # None => s.weekend \in Int
        /\ s.gap # None => s.gap.percent \in Int
        /\ s.last # None => s.last.percent \in Int
        /\ s.early # None => s.early.percent \in Int
        /\ s.occupancy # None => s.occupancy.highPercent \in Int /\ s.occupancy.lowPercent \in Int
    BY DEF SentRules
  <1>2. Pricing!OccupancyPercent(s, occupancy) \in Int
    BY <1>1 DEF Pricing!OccupancyPercent
  <1>3. Pricing!LeadPercent(s, ahead) \in Int
    BY <1>1 DEF Pricing!LeadPercent
  <1> DEFINE w == IF s.weekend # None /\ n \in Weekend THEN s.weekend ELSE 0
             g == IF s.gap # None /\ isGap THEN -s.gap.percent ELSE 0
             a == Pricing!Adjusted(Nightly, Pricing!Season(s, n))
             b == Pricing!Adjusted(a, w)
             c == Pricing!Adjusted(b, Pricing!OccupancyPercent(s, occupancy))
             d == Pricing!Adjusted(c, Pricing!LeadPercent(s, ahead))
  <1>4. w \in Int /\ g \in Int
    BY <1>1
  <1>5. a \in Int
    BY SeasonPercent, Adjusts, PricesAssumption
  <1>6. b \in Int
    BY <1>4, <1>5, Adjusts
  <1>7. c \in Int
    <2> HIDE DEF b
    <2> QED BY <1>2, <1>6, Adjusts
  <1>8. d \in Int
    <2> HIDE DEF c
    <2> QED BY <1>3, <1>7, Adjusts
  <1>9. Pricing!Adjusted(d, g) \in Int
    <2> HIDE DEF d
    <2> QED BY <1>4, <1>8, Adjusts
  <1> QED BY <1>9, Zenon DEF Pricing!Ruled

\* The greater and the lesser of two numbers.
LEMMA MaxOfTwo ==
    ASSUME NEW a \in Int, NEW b \in Int
    PROVE  /\ Pricing!Max({a, b}) \in {a, b} /\ Pricing!Max({a, b}) >= a /\ Pricing!Max({a, b}) >= b
           /\ Pricing!Min({a, b}) \in {a, b} /\ Pricing!Min({a, b}) <= a /\ Pricing!Min({a, b}) <= b
  <1>1. /\ \E x \in {a, b} : \A y \in {a, b} : x >= y
        /\ \E x \in {a, b} : \A y \in {a, b} : x =< y
    OBVIOUS
  <1>2. /\ Pricing!Max({a, b}) \in {a, b} /\ \A y \in {a, b} : Pricing!Max({a, b}) >= y
        /\ Pricing!Min({a, b}) \in {a, b} /\ \A y \in {a, b} : Pricing!Min({a, b}) =< y
    BY <1>1, Zenon DEF Pricing!Max, Pricing!Min
  <1> QED BY <1>2

\* A night costs no less than the floor and no more than the ceiling, to the cent,
\* whatever its rules and the price the host gave it.
LEMMA NightFits ==
    ASSUME PricingInv, NEW n \in Pricing!Night, NEW ahead, NEW occupancy, NEW isGap
    PROVE  LET s == pricingRules.smart
               p == Pricing!NightPrice(s, n, ahead, occupancy, isGap)
           IN  /\ p \in Int
               /\ s.floor # None => p >= Pricing!Round2(s.floor)
               /\ s.ceiling # None => p <= Pricing!Round2(s.ceiling)
  <1> PICK s : s = pricingRules.smart
    OBVIOUS
  <1>1. s \in SmartRules /\ s \in SentRules /\ n \in Int /\ BoundsApart(s)
    BY PricesAssumption, MoneyAssumption DEF PricingInv, Pricing!TypeOK, Pricing!Night
  <1>2. PICK x \in Int : x = IF pricingPrice[n] # None THEN pricingPrice[n]
                             ELSE Pricing!Ruled(s, n, ahead, occupancy, isGap)
    BY <1>1, RuledIsNumber, PricesAssumption DEF PricingInv, Pricing!TypeOK
  <1>3. /\ s.floor # None => s.floor \in Nat
        /\ s.ceiling # None => s.ceiling \in Nat
    BY <1>1 DEF SentRules
  <1>4. PICK raised \in Int : /\ raised = IF s.floor # None THEN Pricing!Max({x, s.floor}) ELSE x
                              /\ s.floor # None => raised >= s.floor
    <2>1. ASSUME s.floor # None
          PROVE  Pricing!Max({x, s.floor}) \in Int /\ Pricing!Max({x, s.floor}) >= s.floor
      <3>1. PICK z \in Int : z = s.floor
        BY <1>3, <2>1
      <3>2. Pricing!Max({x, z}) \in {x, z} /\ Pricing!Max({x, z}) >= z
        BY MaxOfTwo
      <3> QED BY <3>1, <3>2
    <2> QED BY <2>1
  <1>5. PICK clamped \in Int : /\ clamped = Pricing!Clamp(s, x)
                               /\ s.floor # None => clamped >= s.floor
                               /\ s.ceiling # None => clamped <= s.ceiling
    <2>1. ASSUME s.ceiling # None
          PROVE  /\ Pricing!Min({raised, s.ceiling}) \in Int
                 /\ Pricing!Min({raised, s.ceiling}) <= s.ceiling
                 /\ Pricing!Min({raised, s.ceiling}) \in {raised, s.ceiling}
      <3>1. PICK z \in Int : z = s.ceiling
        BY <1>3, <2>1
      <3>2. \A c, d \in Int : Pricing!Min({c, d}) \in {c, d} /\ Pricing!Min({c, d}) <= d
        BY MaxOfTwo
      <3>3. Pricing!Min({raised, z}) \in {raised, z} /\ Pricing!Min({raised, z}) <= z
        BY <3>2, Zenon
      <3> QED BY <3>1, <3>3
    <2>2. Pricing!Clamp(s, x) = IF s.ceiling # None THEN Pricing!Min({raised, s.ceiling}) ELSE raised
      BY <1>4, Zenon DEF Pricing!Clamp
    <2> QED BY <1>1, <1>3, <1>4, <2>1, <2>2 DEF BoundsApart
  <1>6. PICK y \in Int : /\ y = Pricing!Max({0, clamped})
                         /\ s.floor # None => y >= s.floor
                         /\ s.ceiling # None => y <= s.ceiling
    <2>1. /\ Pricing!Max({0, clamped}) \in {0, clamped}
          /\ Pricing!Max({0, clamped}) >= clamped
      BY MaxOfTwo
    <2> QED BY <1>3, <1>5, <2>1
  <1>7. Pricing!NightPrice(s, n, ahead, occupancy, isGap) = Pricing!Round2(y)
    BY <1>2, <1>5, <1>6, Zenon DEF Pricing!NightPrice
  <1>8. Pricing!Round2(y) \in Int
    BY RoundedInOrder
  <1>9. s.floor # None => Pricing!Round2(y) >= Pricing!Round2(s.floor)
    <2>1. ASSUME s.floor # None PROVE Pricing!Round2(y) >= Pricing!Round2(s.floor)
      <3>1. PICK m \in Int : m = s.floor /\ m <= y
        BY <1>3, <1>6, <2>1
      <3>2. Pricing!Round2(m) \in Int /\ Pricing!Round2(m) <= Pricing!Round2(y)
        BY <3>1, RoundedInOrder
      <3> QED BY <1>8, <3>1, <3>2
    <2> QED BY <2>1
  <1>10. s.ceiling # None => Pricing!Round2(y) <= Pricing!Round2(s.ceiling)
    <2>1. ASSUME s.ceiling # None PROVE Pricing!Round2(y) <= Pricing!Round2(s.ceiling)
      <3>1. PICK m \in Int : m = s.ceiling /\ y <= m
        BY <1>3, <1>6, <2>1
      <3> QED BY <3>1, RoundedInOrder
    <2> QED BY <2>1
  <1> QED BY <1>7, <1>8, <1>9, <1>10

\* The nights of a stay are as many as its length, and nights of the calendar.
LEMMA StayNights ==
    ASSUME NEW visit \in Pricing!Dates
    PROVE  /\ visit.from \in Nat /\ visit.to \in Nat /\ visit.from < visit.to
           /\ Pricing!Nights(visit) \subseteq Pricing!Night
           /\ IsFiniteSet(Pricing!Nights(visit))
           /\ Cardinality(Pricing!Nights(visit)) = visit.to - visit.from
  <1>1. /\ visit.from \in Pricing!Night /\ visit.to \in Pricing!Day /\ visit.from < visit.to
    BY DEF Pricing!Dates
  <1>2. PICK a \in Int, b \in Int : /\ a = visit.from /\ b = visit.to /\ 0 <= a /\ a < b /\ b <= Horizon
    BY <1>1, MoneyAssumption DEF Pricing!Night, Pricing!Day
  <1>3. IsFiniteSet(a .. (b - 1)) /\ Cardinality(a .. (b - 1)) = b - a
    <2>1. b - 1 \in Int
      OBVIOUS
    <2>2. /\ IsFiniteSet(a .. (b - 1))
          /\ Cardinality(a .. (b - 1)) = IF a > b - 1 THEN 0 ELSE (b - 1) - a + 1
      BY <2>1, FS_Interval
    <2> QED BY <1>2, <2>2
  <1>4. Pricing!Nights(visit) = a .. (b - 1)
    BY <1>2 DEF Pricing!Nights
  <1>5. Pricing!Nights(visit) \subseteq Pricing!Night
    <2>1. Horizon \in Int /\ Pricing!Night = 0 .. (Horizon - 1)
      BY MoneyAssumption DEF Pricing!Night
    <2> QED BY <1>2, <1>4, <2>1
  <1>6. a \in Nat /\ b \in Nat
    BY <1>2
  <1> QED BY <1>2, <1>3, <1>4, <1>5, <1>6

\* What the rules make of a stay is the rounded sum of its nights.
LEMMA ActiveBase ==
    ASSUME NEW visit \in Pricing!Dates, pricingRules.smart # Pricing!NoRules
    PROVE  Pricing!Quote(visit, FALSE, pricingStays).base =
             Pricing!Round(Pricing!SumFunction(
                 [n \in Pricing!Nights(visit) |-> Pricing!SmartNight(visit, n, pricingStays)]))
  <1>1. Pricing!Quote(visit, FALSE, pricingStays).base = Pricing!BaseSubtotal(visit, pricingStays)
    BY DEF Pricing!Quote
  <1>2. Pricing!SmartActive(pricingRules.smart)
    BY DEF Pricing!SmartActive
  <1> QED BY <1>1, <1>2, Zenon DEF Pricing!BaseSubtotal

\* No stay costs less than its nights at the floor, nor more than at the ceiling, but
\* for what rounding takes.
LEMMA StaysFit == PricingInv => Pricing!NightsWithinBounds
  <1> PICK s : s = pricingRules.smart
    OBVIOUS
  <1> SUFFICES ASSUME PricingInv, s.floor # None \/ s.ceiling # None,
                      NEW visit \in Pricing!Dates
               PROVE  LET nights == visit.to - visit.from
                          base == Pricing!Quote(visit, FALSE, pricingStays).base
                          cent == Unit \div 100
                      IN  /\ s.floor # None => 2 * base + Unit >= nights * (2 * s.floor - cent)
                          /\ s.ceiling # None => 2 * base - Unit <= nights * (2 * s.ceiling + cent)
    BY DEF Pricing!NightsWithinBounds, Pricing!Bookable
  <1>1. s # Pricing!NoRules
    BY DEF Pricing!NoRules
  <1>2. s \in SentRules
    BY PricesAssumption DEF PricingInv, Pricing!TypeOK
  <1>3. PICK S : S = Pricing!Nights(visit)
    OBVIOUS
  <1>4. IsFiniteSet(S) /\ S \subseteq Pricing!Night
    BY <1>3, StayNights
  <1>5. PICK k \in Nat : k = visit.to - visit.from /\ Cardinality(S) = k
    BY <1>3, StayNights
  <1>6. PICK f : f = [n \in S |-> Pricing!SmartNight(visit, n, pricingStays)]
    OBVIOUS
  <1>7. \A n \in S : /\ f[n] \in Int
                     /\ s.floor # None => f[n] >= Pricing!Round2(s.floor)
                     /\ s.ceiling # None => f[n] <= Pricing!Round2(s.ceiling)
    <2> SUFFICES ASSUME NEW n \in S
                 PROVE  /\ f[n] \in Int
                        /\ s.floor # None => f[n] >= Pricing!Round2(s.floor)
                        /\ s.ceiling # None => f[n] <= Pricing!Round2(s.ceiling)
      OBVIOUS
    <2>1. f[n] = Pricing!NightPrice(pricingRules.smart, n, visit.from - pricingToday,
                     Pricing!Occupancy(pricingRules.smart, pricingStays),
                     Pricing!IsGap(pricingRules.smart, visit, pricingStays))
      BY <1>6, Zenon DEF Pricing!SmartNight
    <2> QED BY <1>4, <2>1, NightFits
  <1>8. PICK lo \in Int, hi \in Int : /\ s.floor # None => lo = Pricing!Round2(s.floor)
                                      /\ s.ceiling # None => hi = Pricing!Round2(s.ceiling)
    <2>1. \A m \in Int : Pricing!Round2(m) \in Int
      BY RoundedInOrder
    <2>2. (s.floor # None => s.floor \in Int) /\ (s.ceiling # None => s.ceiling \in Int)
      BY <1>2 DEF SentRules
    <2>3. s.floor # None => Pricing!Round2(s.floor) \in Int
      BY <2>1, <2>2
    <2>4. s.ceiling # None => Pricing!Round2(s.ceiling) \in Int
      BY <2>1, <2>2
    <2> QED BY <2>3, <2>4
  <1>9. DOMAIN f = S
    BY <1>6
  <1>10. PICK sum \in Int : /\ sum = Pricing!SumFunction(f)
                            /\ s.floor # None => sum >= k * lo
                            /\ s.ceiling # None => sum <= k * hi
    <2>1. /\ Pricing!SumFunction(f) \in Int
          /\ (\A x \in S : f[x] >= lo) => Pricing!SumFunction(f) >= Cardinality(S) * lo
          /\ (\A x \in S : f[x] <= hi) => Pricing!SumFunction(f) <= Cardinality(S) * hi
      BY <1>4, <1>7, <1>9, SumBounds
    <2> QED BY <1>5, <1>7, <1>8, <2>1
  <1>11. Pricing!Quote(visit, FALSE, pricingStays).base = Pricing!Round(sum)
    BY <1>1, <1>3, <1>6, <1>10, ActiveBase
  <1>12. PICK base \in Int : /\ base = Pricing!Round(sum)
                             /\ 2 * base - Unit <= 2 * sum /\ 2 * sum <= 2 * base + Unit
    <2>1. Pricing!Round(sum) \in Int
      BY RoundedInOrder
    <2> QED BY <2>1, RoundedNear
  <1>13. PICK cent \in Int : cent = Unit \div 100
    BY CentIsWhole
  <1>14. ASSUME s.floor # None PROVE 2 * base + Unit >= k * (2 * s.floor - cent)
    <2>1. PICK m \in Int : m = s.floor /\ lo = Pricing!Round2(m)
      BY <1>2, <1>8, <1>14 DEF SentRules
    <2>2. 2 * m - cent <= 2 * lo
      BY <1>13, <2>1, RoundedNear
    <2>3. k * (2 * m - cent) <= k * (2 * lo)
      BY <2>2
    <2>4. k * (2 * lo) = 2 * (k * lo)
      OBVIOUS
    <2>5. PICK v \in Int : v = k * lo /\ v <= sum
      BY <1>10, <1>14
    <2>6. PICK w \in Int : w = k * (2 * m - cent) /\ w <= 2 * v
      BY <2>3, <2>4, <2>5
    <2>7. w <= 2 * base + Unit
      BY <1>12, <2>5, <2>6, CentIsWhole
    <2> QED BY <2>1, <2>6, <2>7, CentIsWhole
  <1>15. ASSUME s.ceiling # None PROVE 2 * base - Unit <= k * (2 * s.ceiling + cent)
    <2>1. PICK m \in Int : m = s.ceiling /\ hi = Pricing!Round2(m)
      BY <1>2, <1>8, <1>15 DEF SentRules
    <2>2. 2 * hi <= 2 * m + cent
      BY <1>13, <2>1, RoundedNear
    <2>3. k * (2 * hi) <= k * (2 * m + cent)
      BY <2>2
    <2>4. k * (2 * hi) = 2 * (k * hi)
      OBVIOUS
    <2>5. PICK v \in Int : v = k * hi /\ sum <= v
      BY <1>10, <1>15
    <2>6. PICK w \in Int : w = k * (2 * m + cent) /\ 2 * v <= w
      BY <2>3, <2>4, <2>5
    <2>7. 2 * base - Unit <= w
      BY <1>12, <2>5, <2>6, CentIsWhole
    <2> QED BY <2>1, <2>6, <2>7, CentIsWhole
  <1> QED BY <1>5, <1>11, <1>12, <1>13, <1>14, <1>15

\* A sum of one term is the term.
LEMMA OneTerm ==
    ASSUME NEW x, NEW f, DOMAIN f = {x}, f[x] \in Int PROVE Pricing!SumFunction(f) = f[x]
  <1>1. IsFiniteSet({x}) /\ Cardinality({x}) = 1
    BY FS_Singleton
  <1>2. PICK v \in Int : v = f[x]
    OBVIOUS
  <1>3. /\ Pricing!SumFunction(f) \in Int
        /\ Pricing!SumFunction(f) >= Cardinality({x}) * v
        /\ Pricing!SumFunction(f) <= Cardinality({x}) * v
    <2>1. \A y \in {x} : f[y] \in Int /\ f[y] >= v /\ f[y] <= v
      BY <1>2
    <2> QED BY <1>1, <2>1, SumBounds
  <1> QED BY <1>1, <1>2, <1>3

\* The preview of a night that is no gap is what the night costs.
LEMMA PreviewHolds == PricingInv => Pricing!PreviewIsCharged
  <1> PICK s : s = pricingRules.smart
    OBVIOUS
  <1> SUFFICES ASSUME PricingInv, s # Pricing!NoRules, NEW visit \in Pricing!Dates,
                      visit.to = visit.from + 1, ~Pricing!IsGap(s, visit, pricingStays)
               PROVE  Pricing!Quote(visit, FALSE, pricingStays).base = Pricing!Round(Pricing!Preview(visit.from))
    BY DEF Pricing!PreviewIsCharged, Pricing!Bookable, Pricing!SmartActive
  <1>1. PICK x \in Nat : x = visit.from
    BY StayNights
  <1>2. Pricing!Nights(visit) = {x} /\ x \in Pricing!Night
    <2>1. Pricing!Nights(visit) = x .. x
      BY <1>1 DEF Pricing!Nights
    <2> QED BY <1>1, <2>1, StayNights
  <1>3. PICK f : f = [n \in Pricing!Nights(visit) |-> Pricing!SmartNight(visit, n, pricingStays)]
    OBVIOUS
  <1>4. Pricing!IsGap(s, visit, pricingStays) = FALSE
    BY DEF Pricing!IsGap
  <1>5. Pricing!Occupancy(s, pricingStays) = Pricing!PreviewOccupancy(s)
    <2> DEFINE coming == pricingToday .. pricingToday + s.occupancy.window - 1
    <2>1. \A t \in pricingStays : t \in Pricing!Dates /\ Pricing!Nights(t) \subseteq Pricing!Night
      BY StayNights DEF PricingInv, Pricing!TypeOK
    <2>2. Pricing!TakenNights(pricingStays) \cap coming
            = {d \in coming : \E t \in pricingStays : d \in t.from .. t.to - 1}
      <3> HIDE DEF coming
      <3> QED BY <2>1 DEF Pricing!TakenNights, Pricing!Nights
    <2> QED BY <2>2, Zenon DEF Pricing!Occupancy, Pricing!PreviewOccupancy
  <1>6. f[x] = Pricing!Preview(x)
    <2>1. f[x] = Pricing!NightPrice(s, x, visit.from - pricingToday, Pricing!Occupancy(s, pricingStays),
                     Pricing!IsGap(s, visit, pricingStays))
      BY <1>2, <1>3, Zenon DEF Pricing!SmartNight
    <2>2. Pricing!Preview(x) = Pricing!NightPrice(s, x, x - pricingToday, Pricing!PreviewOccupancy(s), FALSE)
      BY Zenon DEF Pricing!Preview
    <2> QED BY <1>1, <1>4, <1>5, <2>1, <2>2
  <1>7. f[x] \in Int
    BY <1>2, <1>6, NightFits DEF Pricing!Preview
  <1>8. Pricing!SumFunction(f) = f[x]
    BY <1>2, <1>3, <1>7, OneTerm
  <1> QED BY <1>1, <1>3, <1>6, <1>8, ActiveBase

\* A guest who waits gets no more of a stay back.
LEMMA WaitingCosts == PricingInv => Pricing!WaitingNeverPays
  <1> SUFFICES ASSUME PricingInv, NEW s \in pricingStays, NEW day \in 0 .. pricingToday,
                      NEW policy \in {"flexible", "moderate", "strict"}
               PROVE  Pricing!RefundFor(policy, s, pricingToday, 101 * Unit, "guest")
                        <= Pricing!RefundFor(policy, s, day, 101 * Unit, "guest")
    BY DEF Pricing!WaitingNeverPays
  <1>1. s.from \in Nat /\ pricingToday \in Nat /\ day \in Nat /\ day <= pricingToday
    BY StayNights, MoneyAssumption DEF PricingInv, Pricing!TypeOK, Pricing!Day
  <1>2. PICK late \in Int, soon \in Int :
            /\ late = Pricing!Max({0, s.from - pricingToday})
            /\ soon = Pricing!Max({0, s.from - day})
            /\ late <= soon
    <2>1. PICK a \in Int, b \in Int : a = s.from - pricingToday /\ b = s.from - day /\ a <= b
      BY <1>1
    <2>2. /\ Pricing!Max({0, a}) \in {0, a} /\ Pricing!Max({0, a}) >= 0 /\ Pricing!Max({0, a}) >= a
          /\ Pricing!Max({0, b}) \in {0, b} /\ Pricing!Max({0, b}) >= 0 /\ Pricing!Max({0, b}) >= b
      <3>1. \A c \in Int : /\ Pricing!Max({0, c}) \in {0, c}
                           /\ Pricing!Max({0, c}) >= 0 /\ Pricing!Max({0, c}) >= c
        BY MaxOfTwo
      <3> QED BY <3>1, Zenon
    <2> QED BY <2>1, <2>2
  <1>3. PICK p \in {0, 50, 100}, q \in {0, 50, 100} :
            /\ p = Pricing!RefundShare(policy, late) /\ q = Pricing!RefundShare(policy, soon)
            /\ p <= q
    BY <1>2 DEF Pricing!RefundShare
  <1>4. PICK all \in Int : all = 101 * Unit /\ all >= 0
    BY CentIsWhole
  <1>5. /\ Pricing!RefundFor(policy, s, pricingToday, all, "guest") = Pricing!Round(Pricing!Percent(all, p))
        /\ Pricing!RefundFor(policy, s, day, all, "guest") = Pricing!Round(Pricing!Percent(all, q))
    BY <1>2, <1>3 DEF Pricing!RefundFor
  <1>6. /\ Pricing!Percent(all, p) \in Int /\ Pricing!Percent(all, q) \in Int
        /\ Pricing!Percent(all, p) <= Pricing!Percent(all, q)
    BY <1>3, <1>4 DEF Pricing!Percent
  <1> QED BY <1>4, <1>5, <1>6, RoundedInOrder

-------------------------------------------------------------------------------
(* The settings of the platform                                            *)

\* The row had this version at a time or later.
SettingStands(v, x) == v \in 0 .. settingsRow /\ Settings!CurrentUntil(v) >= x

\* What a call has is of a version that was in force when it asked, and a call is
\* answered within its time; what a call was served, and the copy until it expires,
\* was in force no longer ago than that and the time the copy is kept.
SettingCall(q) ==
    /\ q.since <= settingsNow
    /\ q.pc \notin {"idle", "served"} => settingsNow - q.since <= QueryTime
    /\ q.pc \in {"read", "updated"} => SettingStands(q.value, q.since)
    /\ q.pc = "served" => SettingStands(q.value, q.since - CacheTime - QueryTime)

SettingsInv ==
    /\ Settings!TypeOK
    /\ \A v \in 1 .. settingsRow : settingsChangedAt[v] \in Nat
    /\ \A r \in Call : SettingCall(settingsReq[r])
    /\ settingsCache # None =>
           SettingStands(settingsCache.value, settingsCache.expiresAt - CacheTime - QueryTime)

SettingPc == {"idle", "reading", "read", "updating", "updated", "served"}
SettingRecord == [pc : SettingPc, value : Nat, since : Nat]

\* The numbers of the settings.
LEMMA SettingNumbers ==
    ASSUME Settings!TypeOK
    PROVE  /\ settingsRow \in Nat /\ settingsRow <= MaxChanges /\ settingsNow \in Nat
           /\ CacheTime \in Nat /\ QueryTime \in Nat /\ MaxChanges \in Nat /\ SettingsTime \in Nat
           /\ \A r \in Call : settingsReq[r] \in SettingRecord
  <1>1. CacheTime \in Nat /\ QueryTime \in Nat /\ MaxChanges \in Nat /\ SettingsTime \in Nat
    BY MoneyAssumption
  <1> QED BY <1>1 DEF Settings!TypeOK, Settings!Version, Settings!Time, SettingRecord, SettingPc

\* When a version was in force last is a time.
LEMMA SettingTimes ==
    ASSUME SettingsInv, NEW v \in 0 .. settingsRow PROVE Settings!CurrentUntil(v) \in Nat
  <1>1. settingsRow \in Nat /\ settingsNow \in Nat
    BY SettingNumbers DEF SettingsInv
  <1>2. v # settingsRow => v + 1 \in 1 .. settingsRow
    BY <1>1
  <1> QED BY <1>1, <1>2 DEF SettingsInv, Settings!CurrentUntil

\* While the row is as it is and time passes, it stands as long or longer.
LEMMA SettingLasts ==
    ASSUME SettingsInv, UNCHANGED <<settingsRow, settingsChangedAt>>,
           settingsNow' \in Nat, settingsNow' >= settingsNow
    PROVE  \A v, x \in Int : SettingStands(v, x) => SettingStands(v, x)'
  <1>1. settingsRow \in Nat /\ settingsNow \in Nat
    BY SettingNumbers DEF SettingsInv
  <1> SUFFICES ASSUME NEW v \in Int, NEW x \in Int, SettingStands(v, x) PROVE SettingStands(v, x)'
    OBVIOUS
  <1>2. v \in 0 .. settingsRow /\ Settings!CurrentUntil(v) >= x /\ Settings!CurrentUntil(v) \in Nat
    BY SettingTimes DEF SettingStands
  <1>3. (Settings!CurrentUntil(v))' \in Nat /\ (Settings!CurrentUntil(v))' >= Settings!CurrentUntil(v)
    BY <1>1, <1>2 DEF Settings!CurrentUntil
  <1> QED BY <1>2, <1>3 DEF SettingStands

\* A step of one call that leaves the row and the time alone: the others are as
\* they were.
LEMMA SettingCallMoves ==
    ASSUME SettingsInv, NEW r \in Call, NEW pc \in SettingPc, NEW value \in Settings!Version,
           NEW since \in Settings!Time,
           settingsReq' = [settingsReq EXCEPT ![r] = [pc |-> pc, value |-> value, since |-> since]],
           UNCHANGED <<settingsRow, settingsChangedAt, settingsNow>>,
           settingsCache' \in [value : Settings!Version, expiresAt : Nat] \cup {None},
           settingsCache' # None =>
               SettingStands(settingsCache'.value, settingsCache'.expiresAt - CacheTime - QueryTime),
           SettingCall([pc |-> pc, value |-> value, since |-> since])
    PROVE  SettingsInv'
  <1>1. Settings!TypeOK'
    BY DEF SettingsInv, Settings!TypeOK, SettingPc, Settings!Time, Settings!Version
  <1>2. (\A v \in 1 .. settingsRow : settingsChangedAt[v] \in Nat)'
    BY DEF SettingsInv
  <1>3. \A v : (Settings!CurrentUntil(v))' = Settings!CurrentUntil(v)
    BY DEF Settings!CurrentUntil
  <1>4. \A v, x : SettingStands(v, x)' <=> SettingStands(v, x)
    BY <1>3 DEF SettingStands
  <1>5. \A q : SettingCall(q)' <=> SettingCall(q)
    BY <1>4 DEF SettingCall
  <1>6. \A s \in Call : SettingCall(settingsReq'[s])
    BY DEF SettingsInv, Settings!TypeOK
  <1>7. \A s \in Call : SettingCall(settingsReq[s])'
    BY <1>5, <1>6
  <1>8. (settingsCache # None =>
             SettingStands(settingsCache.value, settingsCache.expiresAt - CacheTime - QueryTime))'
    BY <1>4
  <1> QED BY <1>1, <1>2, <1>7, <1>8 DEF SettingsInv

\* The settings are read, from the copy or from the row.
LEMMA GetKeeps ==
    ASSUME SettingsInv, NEW r \in Call, NEW fresh \in BOOLEAN, Settings!Get(r, fresh) PROVE SettingsInv'
  <1>1. settingsRow \in Nat /\ settingsNow \in Nat /\ settingsNow \in Settings!Time /\ settingsRow <= MaxChanges
        /\ CacheTime \in Nat /\ QueryTime \in Nat /\ MaxChanges \in Nat
    BY SettingNumbers DEF SettingsInv, Settings!TypeOK
  <1>2. UNCHANGED <<settingsRow, settingsChangedAt, settingsNow, settingsCache>>
        /\ settingsCache \in [value : Settings!Version, expiresAt : Nat] \cup {None}
        /\ (settingsCache # None =>
               SettingStands(settingsCache.value, settingsCache.expiresAt - CacheTime - QueryTime))
    BY DEF Settings!Get, Settings!CacheHit, SettingsInv, Settings!TypeOK
  <1>3. CASE Settings!CacheServes(fresh) /\ Settings!Step(r, "served", settingsCache.value)
    <2> PICK v : v = settingsCache.value
      OBVIOUS
    <2>1. settingsReq' = [settingsReq EXCEPT ![r] = [pc |-> "served", value |-> v, since |-> settingsNow]]
      BY <1>3 DEF Settings!Step
    <2>2. v \in Settings!Version /\ settingsCache.expiresAt \in Nat /\ settingsCache.expiresAt > settingsNow
          /\ SettingStands(v, settingsCache.expiresAt - CacheTime - QueryTime)
      BY <1>2, <1>3 DEF Settings!CacheServes
    <2>3. Settings!CurrentUntil(v) \in Nat
      BY <2>2, SettingTimes DEF SettingStands
    <2>4. SettingStands(v, settingsNow - CacheTime - QueryTime)
      BY <1>1, <2>2, <2>3 DEF SettingStands
    <2>5. SettingCall([pc |-> "served", value |-> v, since |-> settingsNow])
      BY <1>1, <2>4 DEF SettingCall
    <2> QED BY <1>1, <1>2, <2>1, <2>2, <2>5, SettingCallMoves DEF SettingPc
  <1>4. CASE Settings!Step(r, "reading", 0)
    <2>1. settingsReq' = [settingsReq EXCEPT ![r] = [pc |-> "reading", value |-> 0, since |-> settingsNow]]
      BY <1>4 DEF Settings!Step
    <2>2. SettingCall([pc |-> "reading", value |-> 0, since |-> settingsNow])
      BY <1>1 DEF SettingCall
    <2>3. 0 \in Settings!Version
      BY <1>1 DEF Settings!Version
    <2> QED BY <1>1, <1>2, <2>1, <2>2, <2>3, SettingCallMoves DEF SettingPc
  <1> QED BY <1>3, <1>4 DEF Settings!Get

\* The row is read.
LEMMA ReadRowKeeps == ASSUME SettingsInv, NEW r \in Call, Settings!ReadRow(r) PROVE SettingsInv'
  <1>1. settingsRow \in Nat /\ settingsNow \in Nat /\ settingsNow \in Settings!Time
        /\ QueryTime \in Nat /\ settingsRow \in Settings!Version
    BY SettingNumbers DEF SettingsInv, Settings!TypeOK
  <1>2. UNCHANGED <<settingsRow, settingsChangedAt, settingsNow, settingsCache>>
        /\ settingsCache \in [value : Settings!Version, expiresAt : Nat] \cup {None}
        /\ (settingsCache # None =>
               SettingStands(settingsCache.value, settingsCache.expiresAt - CacheTime - QueryTime))
    BY DEF Settings!ReadRow, SettingsInv, Settings!TypeOK
  <1>3. settingsReq' = [settingsReq EXCEPT ![r] = [pc |-> "read", value |-> settingsRow, since |-> settingsNow]]
    BY DEF Settings!ReadRow, Settings!Step
  <1>4. SettingStands(settingsRow, settingsNow)
    BY <1>1 DEF SettingStands, Settings!CurrentUntil
  <1>5. SettingCall([pc |-> "read", value |-> settingsRow, since |-> settingsNow])
    BY <1>1, <1>4 DEF SettingCall
  <1> QED BY <1>1, <1>2, <1>3, <1>5, SettingCallMoves DEF SettingPc

\* What was read is kept and served, or what was changed is served and the copy dropped.
LEMMA AnswerKeeps ==
    ASSUME SettingsInv, NEW r \in Call, Settings!KeepCopy(r) \/ Settings!DropCopy(r) PROVE SettingsInv'
  <1> PICK q : q = settingsReq[r]
    OBVIOUS
  <1>1. settingsRow \in Nat /\ settingsNow \in Nat /\ settingsNow \in Settings!Time
        /\ CacheTime \in Nat /\ QueryTime \in Nat
    BY SettingNumbers DEF SettingsInv, Settings!TypeOK
  <1>2. q.pc \in {"read", "updated"} /\ SettingCall(q) /\ q.value \in Settings!Version /\ q.since \in Nat
    BY DEF SettingsInv, Settings!KeepCopy, Settings!DropCopy, Settings!TypeOK, Settings!Time
  <1>3. settingsReq' = [settingsReq EXCEPT ![r] = [pc |-> "served", value |-> q.value, since |-> settingsNow]]
        /\ UNCHANGED <<settingsRow, settingsChangedAt, settingsNow>>
        /\ settingsCache' \in {None, [value |-> q.value, expiresAt |-> settingsNow + CacheTime]}
    BY DEF Settings!KeepCopy, Settings!DropCopy, Settings!Step
  <1>4. SettingStands(q.value, q.since) /\ settingsNow - q.since <= QueryTime
    BY <1>2 DEF SettingCall
  <1>5. Settings!CurrentUntil(q.value) \in Nat
    BY <1>4, SettingTimes DEF SettingStands
  <1>6. SettingStands(q.value, settingsNow - QueryTime)
    BY <1>1, <1>2, <1>4, <1>5 DEF SettingStands
  <1>7. SettingStands(q.value, settingsNow - CacheTime - QueryTime)
    BY <1>1, <1>5, <1>6 DEF SettingStands
  <1>8. settingsNow + CacheTime - CacheTime - QueryTime = settingsNow - QueryTime
        /\ settingsNow + CacheTime \in Nat
    BY <1>1
  <1>9. SettingCall([pc |-> "served", value |-> q.value, since |-> settingsNow])
    BY <1>1, <1>7 DEF SettingCall
  <1>10. settingsCache' # None =>
             SettingStands(settingsCache'.value, settingsCache'.expiresAt - CacheTime - QueryTime)
    <2> SUFFICES ASSUME settingsCache' # None
                 PROVE  SettingStands(settingsCache'.value, settingsCache'.expiresAt - CacheTime - QueryTime)
      OBVIOUS
    <2> PICK e \in Nat : e = settingsNow + CacheTime
      BY <1>8
    <2>1. settingsCache' = [value |-> q.value, expiresAt |-> e]
      BY <1>3
    <2>2. e - CacheTime - QueryTime = settingsNow - QueryTime
      BY <1>1
    <2>3. SettingStands(q.value, e - CacheTime - QueryTime)
      BY <1>6, <2>2
    <2> QED BY <2>1, <2>3
  <1>11. settingsCache' \in [value : Settings!Version, expiresAt : Nat] \cup {None}
    BY <1>2, <1>3, <1>8
  <1> QED BY <1>1, <1>2, <1>3, <1>9, <1>10, <1>11, SettingCallMoves DEF SettingPc

\* A change begins, or a call ends in an error.
LEMMA SettingRestKeeps ==
    ASSUME SettingsInv, NEW r \in Call, Settings!Update(r) \/ Settings!QueryFails(r) PROVE SettingsInv'
  <1>1. settingsRow \in Nat /\ settingsNow \in Nat /\ settingsNow \in Settings!Time
        /\ QueryTime \in Nat /\ 0 \in Settings!Version /\ 0 \in Settings!Time
    BY SettingNumbers DEF SettingsInv, Settings!TypeOK, Settings!Version, Settings!Time
  <1>2. UNCHANGED <<settingsRow, settingsChangedAt, settingsNow, settingsCache>>
        /\ settingsCache \in [value : Settings!Version, expiresAt : Nat] \cup {None}
        /\ (settingsCache # None =>
               SettingStands(settingsCache.value, settingsCache.expiresAt - CacheTime - QueryTime))
    BY DEF Settings!Update, Settings!QueryFails, SettingsInv, Settings!TypeOK
  <1>3. CASE Settings!Update(r)
    <2>1. settingsReq' = [settingsReq EXCEPT ![r] = [pc |-> "updating", value |-> 0, since |-> settingsNow]]
      BY <1>3 DEF Settings!Update, Settings!Step
    <2>2. SettingCall([pc |-> "updating", value |-> 0, since |-> settingsNow])
      BY <1>1 DEF SettingCall
    <2> QED BY <1>1, <1>2, <2>1, <2>2, SettingCallMoves DEF SettingPc
  <1>4. CASE Settings!QueryFails(r)
    <2>1. settingsReq' = [settingsReq EXCEPT ![r] = [pc |-> "idle", value |-> 0, since |-> 0]]
      BY <1>4 DEF Settings!QueryFails, Settings!Idle
    <2>2. SettingCall([pc |-> "idle", value |-> 0, since |-> 0])
      BY <1>1 DEF SettingCall
    <2> QED BY <1>1, <1>2, <2>1, <2>2, SettingCallMoves DEF SettingPc
  <1> QED BY <1>3, <1>4

\* The row is changed: every version that was in force still was, and the one before
\* was until now.
LEMMA ChangeRowKeeps == ASSUME SettingsInv, NEW r \in Call, Settings!ChangeRow(r) PROVE SettingsInv'
  <1>1. /\ settingsRow \in Nat /\ settingsNow \in Nat /\ settingsNow \in Settings!Time
        /\ QueryTime \in Nat /\ CacheTime \in Nat /\ MaxChanges \in Nat /\ SettingsTime \in Nat
        /\ settingsChangedAt \in [1 .. MaxChanges -> Settings!Time \cup {None}]
        /\ settingsReq \in [Call -> [pc : SettingPc, value : Settings!Version, since : Settings!Time]]
        /\ settingsCache \in [value : Settings!Version, expiresAt : Nat] \cup {None}
    BY SettingNumbers DEF SettingsInv, Settings!TypeOK, SettingPc
  <1> PICK new : new = [pc |-> "updated", value |-> settingsRow + 1, since |-> settingsNow]
    OBVIOUS
  <1>2. /\ settingsRow < MaxChanges /\ settingsRow' = settingsRow + 1
        /\ settingsChangedAt' = [settingsChangedAt EXCEPT ![settingsRow + 1] = settingsNow]
        /\ settingsReq' = [settingsReq EXCEPT ![r] = new]
        /\ UNCHANGED <<settingsCache, settingsNow>>
    BY DEF Settings!ChangeRow, Settings!Step
  <1>3. settingsRow + 1 \in 1 .. MaxChanges /\ settingsRow + 1 \in Settings!Version
    BY <1>1, <1>2 DEF Settings!Version
  <1>4. new \in [pc : SettingPc, value : Settings!Version, since : Settings!Time]
    BY <1>1, <1>3 DEF SettingPc
  <1>5. Settings!TypeOK'
    BY <1>1, <1>2, <1>3, <1>4 DEF Settings!TypeOK, SettingPc, Settings!Version, Settings!Time
  <1>6. settingsChangedAt'[settingsRow + 1] = settingsNow
        /\ \A v \in 1 .. settingsRow : settingsChangedAt'[v] = settingsChangedAt[v]
    BY <1>1, <1>2, <1>3
  <1>7. \A v \in 1 .. settingsRow' : settingsChangedAt'[v] \in Nat
    BY <1>1, <1>2, <1>6 DEF SettingsInv
  <1>8. \A v, x \in Int : SettingStands(v, x) => SettingStands(v, x)'
    <2> SUFFICES ASSUME NEW v \in Int, NEW x \in Int, SettingStands(v, x) PROVE SettingStands(v, x)'
      OBVIOUS
    <2>1. v \in 0 .. settingsRow
      BY DEF SettingStands
    <2>2. CASE v = settingsRow
      BY <1>1, <1>2, <1>6, <2>2 DEF SettingStands, Settings!CurrentUntil
    <2>3. CASE v # settingsRow
      <3>1. v + 1 \in 1 .. settingsRow /\ v # settingsRow + 1 /\ v \in 0 .. settingsRow'
        BY <1>1, <1>2, <2>1, <2>3
      <3>2. (Settings!CurrentUntil(v))' = Settings!CurrentUntil(v)
        BY <1>2, <1>6, <2>3, <3>1 DEF Settings!CurrentUntil
      <3> QED BY <3>1, <3>2 DEF SettingStands
    <2> QED BY <2>2, <2>3
  <1>9. \A q \in SettingRecord : SettingCall(q) => SettingCall(q)'
    <2> SUFFICES ASSUME NEW q \in SettingRecord, SettingCall(q) PROVE SettingCall(q)'
      OBVIOUS
    <2>1. q.value \in Int /\ q.since \in Int /\ q.since - CacheTime - QueryTime \in Int
      BY <1>1 DEF SettingRecord
    <2> QED BY <1>2, <1>8, <2>1 DEF SettingCall
  <1>10. SettingCall(new)'
    <2>1. new.pc = "updated" /\ new.value = settingsRow + 1 /\ new.since = settingsNow
      OBVIOUS
    <2>2. new.value \in 0 .. settingsRow' /\ new.value = settingsRow' /\ settingsNow' >= new.since
      BY <1>1, <1>2, <2>1
    <2>3. SettingStands(new.value, new.since)'
      BY <2>2 DEF SettingStands, Settings!CurrentUntil
    <2> QED BY <1>1, <1>2, <2>1, <2>3 DEF SettingCall
  <1>11. \A s \in Call : SettingCall(settingsReq[s])'
    <2> SUFFICES ASSUME NEW s \in Call PROVE SettingCall(settingsReq[s])'
      OBVIOUS
    <2>1. CASE s = r
      BY <1>1, <1>2, <1>10, <2>1 DEF SettingCall, SettingStands, Settings!CurrentUntil
    <2>2. CASE s # r
      <3>1. settingsReq'[s] = settingsReq[s] /\ settingsReq[s] \in SettingRecord
        BY <1>1, <1>2, <2>2, SettingNumbers DEF SettingsInv
      <3>2. SettingCall(settingsReq[s]) 
        BY DEF SettingsInv
      <3> PICK q \in SettingRecord : q = settingsReq[s]
        BY <3>1
      <3>3. SettingCall(q)'
        BY <1>9, <3>2
      <3> QED BY <3>1, <3>3 DEF SettingCall, SettingStands, Settings!CurrentUntil
    <2> QED BY <2>1, <2>2
  <1>12. settingsCache # None =>
             SettingStands(settingsCache.value, settingsCache.expiresAt - CacheTime - QueryTime)'
    <2> SUFFICES ASSUME settingsCache # None
                 PROVE  SettingStands(settingsCache.value, settingsCache.expiresAt - CacheTime - QueryTime)'
      OBVIOUS
    <2> PICK v, x : v = settingsCache.value /\ x = settingsCache.expiresAt - CacheTime - QueryTime
      OBVIOUS
    <2>1. v \in Int /\ x \in Int
      BY <1>1 DEF Settings!Version
    <2>2. SettingStands(v, x)'
      BY <1>8, <2>1 DEF SettingsInv
    <2>3. settingsCache'.value = v /\ settingsCache'.expiresAt - CacheTime - QueryTime = x
      BY <1>2
    <2> QED BY <2>2, <2>3 DEF SettingStands, Settings!CurrentUntil
  <1>13. (settingsCache # None =>
              SettingStands(settingsCache.value, settingsCache.expiresAt - CacheTime - QueryTime))'
    BY <1>2, <1>12
  <1> QED BY <1>5, <1>7, <1>11, <1>13 DEF SettingsInv

\* Time passes, while every query is answered in time.
LEMMA SettingTickKeeps == ASSUME SettingsInv, Settings!Tick PROVE SettingsInv'
  <1>1. /\ settingsNow \in Nat /\ settingsNow < SettingsTime /\ settingsNow' = settingsNow + 1
        /\ SettingsTime \in Nat /\ CacheTime \in Nat /\ QueryTime \in Nat
        /\ UNCHANGED <<settingsRow, settingsChangedAt, settingsCache, settingsReq>>
        /\ \A r \in Call : settingsReq[r].pc \in {"idle", "served"} \/ settingsNow - settingsReq[r].since < QueryTime
    BY SettingNumbers DEF SettingsInv, Settings!Tick
  <1>2. Settings!TypeOK'
    BY <1>1 DEF SettingsInv, Settings!TypeOK, Settings!Time
  <1>3. \A v, x \in Int : SettingStands(v, x) => SettingStands(v, x)'
    BY <1>1, SettingLasts
  <1>4. ASSUME NEW s \in Call PROVE SettingCall(settingsReq[s])'
    <2> PICK q \in SettingRecord : q = settingsReq[s]
      BY SettingNumbers DEF SettingsInv
    <2>1. SettingCall(q) /\ (q.pc \in {"idle", "served"} \/ settingsNow - q.since < QueryTime)
      BY <1>1 DEF SettingsInv
    <2>2. q.value \in Int /\ q.since \in Int /\ q.since - CacheTime - QueryTime \in Int
      BY <1>1 DEF SettingRecord
    <2>3. /\ q.since <= settingsNow'
          /\ q.pc \notin {"idle", "served"} => settingsNow' - q.since <= QueryTime
      BY <1>1, <2>1, <2>2 DEF SettingCall
    <2>4. SettingCall(q)'
      BY <1>3, <2>1, <2>2, <2>3 DEF SettingCall
    <2>5. settingsReq'[s] = q
      BY <1>1
    <2> QED BY <2>4, <2>5 DEF SettingCall, SettingStands, Settings!CurrentUntil
  <1>5. (settingsCache # None =>
             SettingStands(settingsCache.value, settingsCache.expiresAt - CacheTime - QueryTime))'
    <2> SUFFICES ASSUME settingsCache' # None
                 PROVE  (SettingStands(settingsCache.value, settingsCache.expiresAt - CacheTime - QueryTime))'
      OBVIOUS
    <2> PICK v, x : v = settingsCache.value /\ x = settingsCache.expiresAt - CacheTime - QueryTime
      OBVIOUS
    <2>1. v \in Int /\ x \in Int /\ settingsCache # None
      BY <1>1 DEF Settings!Version, SettingsInv, Settings!TypeOK
    <2>2. SettingStands(v, x)'
      BY <1>3, <2>1 DEF SettingsInv
    <2>3. settingsCache'.value = v /\ settingsCache'.expiresAt - CacheTime - QueryTime = x
      BY <1>1
    <2> QED BY <2>2, <2>3 DEF SettingStands, Settings!CurrentUntil
  <1>6. (\A v \in 1 .. settingsRow : settingsChangedAt[v] \in Nat)'
    BY <1>1 DEF SettingsInv
  <1> QED BY <1>2, <1>4, <1>5, <1>6 DEF SettingsInv

\* No call has been made, there is no copy.
LEMMA SettingsInit == Settings!Init => SettingsInv
  <1> SUFFICES ASSUME Settings!Init PROVE SettingsInv
    OBVIOUS
  <1>1. 0 \in Settings!Version /\ 0 \in Settings!Time
    BY MoneyAssumption DEF Settings!Version, Settings!Time
  <1>2. Settings!TypeOK
    BY <1>1 DEF Settings!Init, Settings!TypeOK, Settings!Idle
  <1>3. \A r \in Call : SettingCall(settingsReq[r])
    BY DEF Settings!Init, Settings!Idle, SettingCall
  <1> QED BY <1>2, <1>3 DEF Settings!Init, SettingsInv

\* Every step keeps the invariant of the settings.
LEMMA SettingsStep == SettingsInv /\ [Settings!Next]_(Settings!vars) => SettingsInv'
  <1> SUFFICES ASSUME SettingsInv, [Settings!Next]_(Settings!vars) PROVE SettingsInv'
    OBVIOUS
  <1>1. ASSUME NEW r \in Call, NEW fresh \in BOOLEAN, Settings!Get(r, fresh) PROVE SettingsInv'
    BY <1>1, GetKeeps
  <1>2. ASSUME NEW r \in Call,
               \/ Settings!ReadRow(r) \/ Settings!KeepCopy(r) \/ Settings!Update(r)
               \/ Settings!ChangeRow(r) \/ Settings!DropCopy(r) \/ Settings!QueryFails(r)
        PROVE  SettingsInv'
    BY <1>2, ReadRowKeeps, AnswerKeeps, SettingRestKeeps, ChangeRowKeeps
  <1>3. CASE Settings!Tick
    BY <1>3, SettingTickKeeps
  <1>4. CASE UNCHANGED Settings!vars
    <2>1. UNCHANGED <<settingsRow, settingsChangedAt, settingsCache, settingsReq, settingsNow>>
      BY <1>4 DEF Settings!vars
    <2>2. \A v : (Settings!CurrentUntil(v))' = Settings!CurrentUntil(v)
      BY <2>1 DEF Settings!CurrentUntil
    <2>3. \A v, x : SettingStands(v, x)' <=> SettingStands(v, x)
      BY <2>1, <2>2 DEF SettingStands
    <2>4. \A q : SettingCall(q)' <=> SettingCall(q)
      BY <2>1, <2>3 DEF SettingCall
    <2>5. Settings!TypeOK'
      BY <2>1 DEF SettingsInv, Settings!TypeOK
    <2>6. \A r \in Call : SettingCall(settingsReq[r])'
      BY <2>1, <2>4 DEF SettingsInv
    <2>7. (settingsCache # None =>
               SettingStands(settingsCache.value, settingsCache.expiresAt - CacheTime - QueryTime))'
      BY <2>1, <2>3 DEF SettingsInv
    <2>8. (\A v \in 1 .. settingsRow : settingsChangedAt[v] \in Nat)'
      BY <2>1 DEF SettingsInv
    <2> QED BY <2>5, <2>6, <2>7, <2>8 DEF SettingsInv
  <1> QED BY <1>1, <1>2, <1>3, <1>4 DEF Settings!Next

\* The settings a call was served were in force not long ago.
LEMMA SettingsImply == SettingsInv => Settings!RatesAreRecent
  <1> SUFFICES ASSUME SettingsInv, NEW r \in Call, settingsReq[r].pc = "served"
               PROVE  Settings!CurrentUntil(settingsReq[r].value) >= settingsReq[r].since - CacheTime - QueryTime
    BY DEF Settings!RatesAreRecent
  <1> QED BY DEF SettingsInv, SettingCall, SettingStands

-------------------------------------------------------------------------------
(* The credentials                                                         *)

\* A load that is still to read the rows, or has read them as they are.
Coming(q) == q.pc \in {"saving", "loading"} \/ (q.pc = "taking" /\ q.seen = configChanges)

\* The copy, and what a load has read, are the rows as they were after so many
\* changes; where the copy is behind for no reason, somebody is about to load it.
ConfigInv ==
    /\ Config!TypeOK
    /\ configShown <= configChanges
    /\ configChanges = 0 => configRows = [k \in Key |-> None]
    /\ configShown = configChanges => configStored = configRows
    /\ \A r \in Call : configReq[r].pc = "taking" =>
           /\ configReq[r].seen <= configChanges
           /\ configReq[r].seen = configChanges => configReq[r].read = configRows
    /\ \A r \in Call : configReq[r].pc = "saving" => configReq[r].save \in Config!Save
    /\ configExcuse = {} /\ configShown # configChanges => \E r \in Call : Coming(configReq[r])

ConfigRequest == [pc : {"idle", "saving", "loading", "taking"}, save : Config!Save \cup {0},
                  set : SUBSET Key, clear : SUBSET Key,
                  read : [Key -> Config!Save \cup {None}], seen : Nat]

\* An idle call.
LEMMA ConfigIdle == Config!Idle \in ConfigRequest /\ Config!Idle.pc = "idle"
  BY DEF Config!Idle, ConfigRequest

\* A step of one call that leaves the rows and the copy alone: it takes nothing but
\* the rows as they are, and hands on what it was about to do, or there is an excuse.
LEMMA ConfigMoves ==
    ASSUME ConfigInv, NEW r \in Call, NEW q \in ConfigRequest,
           configReq' = [configReq EXCEPT ![r] = q],
           UNCHANGED <<configRows, configStored, configChanges, configShown>>,
           configSaves' \in 0 .. MaxSaves, configExcuse' \subseteq {"failed", "overtaken"},
           q.pc = "taking" => q.seen = configChanges /\ q.read = configRows,
           q.pc = "saving" => q.save \in Config!Save,
           configExcuse' = {} => configExcuse = {} /\ (Coming(configReq[r]) => Coming(q))
    PROVE  ConfigInv'
  <1>1. Config!TypeOK'
    BY DEF ConfigInv, Config!TypeOK, ConfigRequest
  <1>2. \A s \in Call : configReq'[s] = IF s = r THEN q ELSE configReq[s]
    BY DEF ConfigInv, Config!TypeOK
  <1>3. \A s \in Call : configReq'[s].pc = "taking" =>
            /\ configReq'[s].seen <= configChanges
            /\ configReq'[s].seen = configChanges => configReq'[s].read = configRows
    <2> SUFFICES ASSUME NEW s \in Call, configReq'[s].pc = "taking"
                 PROVE  /\ configReq'[s].seen <= configChanges
                        /\ configReq'[s].seen = configChanges => configReq'[s].read = configRows
      OBVIOUS
    <2>1. CASE s = r
      BY <1>2, <2>1 DEF ConfigInv, Config!TypeOK
    <2>2. CASE s # r
      BY <1>2, <2>2 DEF ConfigInv
    <2> QED BY <2>1, <2>2
  <1>4. ASSUME configExcuse' = {}, configShown # configChanges PROVE \E s \in Call : Coming(configReq'[s])
    <2>1. PICK s \in Call : Coming(configReq[s])
      BY <1>4 DEF ConfigInv
    <2>2. CASE s = r
      BY <1>2, <1>4, <2>1, <2>2
    <2>3. CASE s # r
      BY <1>2, <2>1, <2>3
    <2> QED BY <2>2, <2>3
  <1>5. \A z : Coming(z)' <=> Coming(z)
    BY DEF Coming
  <1>6. (configExcuse = {} /\ configShown # configChanges => \E s \in Call : Coming(configReq[s]))'
    BY <1>4 DEF Coming
  <1>7. \A s \in Call : configReq'[s].pc = "saving" => configReq'[s].save \in Config!Save
    BY <1>2 DEF ConfigInv
  <1> QED BY <1>1, <1>3, <1>6, <1>7 DEF ConfigInv

\* An administrator saves some keys.
LEMMA PutKeeps ==
    ASSUME ConfigInv, NEW r \in Call, NEW set \in SUBSET Key, NEW clear \in SUBSET Key, Config!Put(r, set, clear)
    PROVE  ConfigInv'
  <1> PICK q : q = [Config!Idle EXCEPT !.pc = "saving", !.save = configSaves + 1, !.set = set, !.clear = clear]
    OBVIOUS
  <1>1. MaxSaves \in Nat /\ configSaves + 1 \in Config!Save /\ configSaves + 1 \in 0 .. MaxSaves
    BY MoneyAssumption DEF ConfigInv, Config!TypeOK, Config!Put, Config!Save
  <1>2. q \in ConfigRequest /\ q.pc = "saving" /\ q.save \in Config!Save
    BY <1>1, ConfigIdle DEF ConfigRequest
  <1>3. /\ configReq' = [configReq EXCEPT ![r] = q] /\ configSaves' = configSaves + 1
        /\ UNCHANGED <<configRows, configStored, configChanges, configShown, configExcuse>>
    BY DEF Config!Put
  <1>4. Coming(q)
    BY <1>2 DEF Coming
  <1> QED BY <1>1, <1>2, <1>3, <1>4, ConfigMoves DEF ConfigInv, Config!TypeOK

\* A load starts, reads, or is given up.
LEMMA LoadKeepsConfig ==
    ASSUME ConfigInv, NEW r \in Call,
           Config!StartLoad(r) \/ Config!ReadRows(r) \/ Config!QueryFails(r)
    PROVE  ConfigInv'
  <1> PICK p : p = configReq[r]
    OBVIOUS
  <1>1. p \in ConfigRequest /\ configRows \in [Key -> Config!Save \cup {None}] /\ configChanges \in Nat
        /\ configSaves \in 0 .. MaxSaves /\ configExcuse \subseteq {"failed", "overtaken"}
    BY DEF ConfigInv, Config!TypeOK, ConfigRequest
  <1>2. CASE Config!StartLoad(r)
    <2> PICK q : q = [p EXCEPT !.pc = "loading"]
      OBVIOUS
    <2>1. /\ configReq' = [configReq EXCEPT ![r] = q]
          /\ UNCHANGED <<configRows, configStored, configSaves, configChanges, configShown, configExcuse>>
      BY <1>2 DEF Config!StartLoad
    <2>2. q \in ConfigRequest /\ q.pc = "loading" /\ Coming(q)
      BY <1>1 DEF ConfigRequest, Coming
    <2> QED BY <1>1, <2>1, <2>2, ConfigMoves
  <1>3. CASE Config!ReadRows(r)
    <2> PICK q : q = [p EXCEPT !.pc = "taking", !.read = configRows, !.seen = configChanges]
      OBVIOUS
    <2>1. /\ configReq' = [configReq EXCEPT ![r] = q]
          /\ UNCHANGED <<configRows, configStored, configSaves, configChanges, configShown, configExcuse>>
      BY <1>3 DEF Config!ReadRows
    <2>2. q \in ConfigRequest /\ q.pc = "taking" /\ q.seen = configChanges /\ q.read = configRows
      BY <1>1 DEF ConfigRequest
    <2>3. Coming(q)
      BY <2>2 DEF Coming
    <2> QED BY <1>1, <2>1, <2>2, <2>3, ConfigMoves
  <1>4. CASE Config!QueryFails(r)
    <2>1. /\ configReq' = [configReq EXCEPT ![r] = Config!Idle]
          /\ configExcuse' = configExcuse \cup {"failed"}
          /\ UNCHANGED <<configRows, configStored, configSaves, configChanges, configShown>>
      BY <1>4 DEF Config!QueryFails
    <2>2. configExcuse' # {} /\ configExcuse' \subseteq {"failed", "overtaken"}
      BY <1>1, <2>1
    <2> QED BY <1>1, <2>1, <2>2, ConfigIdle, ConfigMoves
  <1> QED BY <1>2, <1>3, <1>4

\* A key is saved: whoever saves it is going to load.
LEMMA SaveKeyKeeps ==
    ASSUME ConfigInv, NEW r \in Call, NEW k \in Key, Config!SaveKey(r, k) PROVE ConfigInv'
  <1> PICK p : p = configReq[r]
    OBVIOUS
  <1>1. p \in ConfigRequest /\ configRows \in [Key -> Config!Save \cup {None}] /\ configChanges \in Nat
        /\ configShown \in Nat /\ configShown <= configChanges
    BY DEF ConfigInv, Config!TypeOK, ConfigRequest
  <1> PICK x : x = IF k \in p.set THEN p.save ELSE None
    OBVIOUS
  <1> PICK q : q = [p EXCEPT !.set = p.set \ {k}, !.clear = p.clear \ {k}]
    OBVIOUS
  <1>2. /\ p.pc = "saving" /\ configRows' = [configRows EXCEPT ![k] = x]
        /\ configChanges' = configChanges + 1
        /\ configReq' = [configReq EXCEPT ![r] = q]
        /\ UNCHANGED <<configStored, configSaves, configShown, configExcuse>>
    BY DEF Config!SaveKey
  <1>3. p.save \in Config!Save /\ x \in Config!Save \cup {None}
    BY <1>2 DEF ConfigInv
  <1>4. q \in ConfigRequest /\ q.pc = "saving" /\ q.save = p.save
    BY <1>1, <1>2 DEF ConfigRequest
  <1>5. \A s \in Call : configReq'[s] = IF s = r THEN q ELSE configReq[s]
    BY <1>2 DEF ConfigInv, Config!TypeOK
  <1>6. Config!TypeOK'
    BY <1>1, <1>2, <1>3, <1>4 DEF ConfigInv, Config!TypeOK, ConfigRequest
  <1>7. configShown' <= configChanges' /\ configShown' # configChanges' /\ configChanges' # 0
    BY <1>1, <1>2
  <1>8. \A s \in Call : configReq'[s].pc = "taking" =>
            configReq'[s].seen <= configChanges' /\ configReq'[s].seen # configChanges'
    <2> SUFFICES ASSUME NEW s \in Call, configReq'[s].pc = "taking"
                 PROVE  configReq'[s].seen <= configChanges' /\ configReq'[s].seen # configChanges'
      OBVIOUS
    <2>1. configReq'[s] = configReq[s]
      BY <1>4, <1>5
    <2>2. configReq[s].seen \in Nat /\ configReq[s].seen <= configChanges
      BY <2>1 DEF ConfigInv, Config!TypeOK
    <2> QED BY <1>1, <1>2, <2>1, <2>2
  <1>9. \A s \in Call : configReq'[s].pc = "saving" => configReq'[s].save \in Config!Save
    BY <1>3, <1>4, <1>5 DEF ConfigInv
  <1>10. (\E s \in Call : Coming(configReq[s]))'
    BY <1>4, <1>5 DEF Coming
  <1> QED BY <1>6, <1>7, <1>8, <1>9, <1>10 DEF ConfigInv

\* A load puts what it read in the copy.
LEMMA TakeRowsKeeps == ASSUME ConfigInv, NEW r \in Call, Config!TakeRows(r) PROVE ConfigInv'
  <1> PICK p : p = configReq[r]
    OBVIOUS
  <1>1. /\ p.pc = "taking" /\ p.seen \in Nat /\ p.read \in [Key -> Config!Save \cup {None}]
        /\ p.seen <= configChanges
        /\ p.seen = configChanges => p.read = configRows
        /\ configChanges \in Nat /\ configShown \in Nat /\ configShown <= configChanges
        /\ configExcuse \subseteq {"failed", "overtaken"}
    BY DEF ConfigInv, Config!TypeOK, Config!TakeRows
  <1>2. /\ configStored' = p.read /\ configShown' = p.seen
        /\ configExcuse' = IF p.seen < configShown THEN configExcuse \cup {"overtaken"}
                           ELSE IF p.seen = configChanges THEN {} ELSE configExcuse
        /\ configReq' = [configReq EXCEPT ![r] = Config!Idle]
        /\ UNCHANGED <<configRows, configSaves, configChanges>>
    BY DEF Config!TakeRows
  <1>3. \A s \in Call : configReq'[s] = IF s = r THEN Config!Idle ELSE configReq[s]
    BY <1>2 DEF ConfigInv, Config!TypeOK
  <1>4. Config!TypeOK'
    <2>1. configExcuse' \subseteq {"failed", "overtaken"}
      BY <1>1, <1>2
    <2>2. configReq' \in [Call -> ConfigRequest]
      BY <1>2, ConfigIdle DEF ConfigInv, Config!TypeOK, ConfigRequest
    <2> QED BY <1>1, <1>2, <2>1, <2>2 DEF ConfigInv, Config!TypeOK, ConfigRequest
  <1>5. configExcuse' = {} /\ configShown' # configChanges' => \E s \in Call : Coming(configReq'[s])
    <2> SUFFICES ASSUME configExcuse' = {}, p.seen # configChanges PROVE \E s \in Call : Coming(configReq'[s])
      BY <1>2
    <2>1. configExcuse = {} /\ configShown # configChanges
      BY <1>1, <1>2
    <2>2. PICK s \in Call : Coming(configReq[s])
      BY <2>1 DEF ConfigInv
    <2>3. s # r
      BY <1>1, <2>2 DEF Coming
    <2> QED BY <1>3, <2>2, <2>3
  <1>6. (configExcuse = {} /\ configShown # configChanges => \E s \in Call : Coming(configReq[s]))'
    BY <1>2, <1>5 DEF Coming
  <1>7. \A s \in Call : configReq'[s].pc = "taking" =>
            /\ configReq'[s].seen <= configChanges'
            /\ configReq'[s].seen = configChanges' => configReq'[s].read = configRows'
    BY <1>2, <1>3, ConfigIdle DEF ConfigInv
  <1>8. \A s \in Call : configReq'[s].pc = "saving" => configReq'[s].save \in Config!Save
    BY <1>3, ConfigIdle DEF ConfigInv
  <1>9. /\ configShown' <= configChanges'
        /\ configChanges' = 0 => configRows' = [k \in Key |-> None]
        /\ configShown' = configChanges' => configStored' = configRows'
    BY <1>1, <1>2 DEF ConfigInv
  <1> QED BY <1>4, <1>6, <1>7, <1>8, <1>9 DEF ConfigInv

\* The server starts again, and loads.
LEMMA CrashKeepsConfig == ASSUME ConfigInv, NEW r \in Call, Config!Crash(r) PROVE ConfigInv'
  <1> PICK q : q = [Config!Idle EXCEPT !.pc = "loading"]
    OBVIOUS
  <1>1. q \in ConfigRequest /\ q.pc = "loading"
    BY ConfigIdle DEF ConfigRequest
  <1>2. /\ configReq' = [s \in Call |-> IF s = r THEN q ELSE Config!Idle]
        /\ configStored' = [k \in Key |-> None] /\ configShown' = 0 /\ configExcuse' = {}
        /\ UNCHANGED <<configRows, configSaves, configChanges>>
    BY DEF Config!Crash
  <1>3. \A s \in Call : configReq'[s] = (IF s = r THEN q ELSE Config!Idle)
    BY <1>2
  <1>4. Config!TypeOK'
    <2>1. configReq' \in [Call -> ConfigRequest]
      BY <1>1, <1>2, ConfigIdle
    <2> QED BY <1>2, <2>1 DEF ConfigInv, Config!TypeOK, ConfigRequest
  <1>5. (\E s \in Call : Coming(configReq[s]))'
    BY <1>1, <1>3 DEF Coming
  <1>6. \A s \in Call : configReq'[s].pc \in {"idle", "loading"}
    BY <1>1, <1>3, ConfigIdle
  <1>7. configShown' <= configChanges'
    BY <1>2 DEF ConfigInv, Config!TypeOK
  <1>8. configShown' = configChanges' => configStored' = configRows'
    BY <1>2 DEF ConfigInv
  <1>9. configChanges' = 0 => configRows' = [k \in Key |-> None]
    BY <1>2 DEF ConfigInv
  <1> QED BY <1>4, <1>5, <1>6, <1>7, <1>8, <1>9 DEF ConfigInv

\* Nothing is saved.
LEMMA ConfigInit == Config!Init => ConfigInv
  <1> SUFFICES ASSUME Config!Init PROVE ConfigInv
    OBVIOUS
  <1>1. MaxSaves \in Nat
    BY MoneyAssumption
  <1>2. configReq \in [Call -> ConfigRequest] /\ \A r \in Call : configReq[r].pc = "idle"
    BY ConfigIdle DEF Config!Init
  <1> QED BY <1>1, <1>2 DEF Config!Init, ConfigInv, Config!TypeOK, ConfigRequest

\* Every step keeps the invariant of the credentials.
LEMMA ConfigStep == ConfigInv /\ [Config!Next]_(Config!vars) => ConfigInv'
  <1> SUFFICES ASSUME ConfigInv, [Config!Next]_(Config!vars) PROVE ConfigInv'
    OBVIOUS
  <1>1. ASSUME NEW r \in Call, NEW set \in SUBSET Key, NEW clear \in SUBSET Key, Config!Put(r, set, clear)
        PROVE  ConfigInv'
    BY <1>1, PutKeeps
  <1>2. ASSUME NEW r \in Call, NEW k \in Key, Config!SaveKey(r, k) PROVE ConfigInv'
    BY <1>2, SaveKeyKeeps
  <1>3. ASSUME NEW r \in Call, \/ Config!StartLoad(r) \/ Config!ReadRows(r) \/ Config!TakeRows(r)
                              \/ Config!QueryFails(r) \/ Config!Crash(r)
        PROVE  ConfigInv'
    BY <1>3, LoadKeepsConfig, TakeRowsKeeps, CrashKeepsConfig
  <1>4. CASE UNCHANGED Config!vars
    <2>1. UNCHANGED <<configRows, configStored, configReq, configSaves, configChanges, configShown, configExcuse>>
      BY <1>4 DEF Config!vars
    <2>2. \A z : Coming(z)' <=> Coming(z)
      BY <2>1 DEF Coming
    <2>3. (\E s \in Call : Coming(configReq[s]))' <=> \E s \in Call : Coming(configReq[s])
      BY <2>1 DEF Coming
    <2> QED BY <2>1, <2>3 DEF ConfigInv, Config!TypeOK
  <1> QED BY <1>1, <1>2, <1>3, <1>4 DEF Config!Next

\* When no call is under way the copy is the rows.
LEMMA ConfigImplies == ConfigInv => Config!CopyIsCurrent
  <1> SUFFICES ASSUME ConfigInv, Config!Quiet, configExcuse = {} PROVE configStored = configRows
    BY DEF Config!CopyIsCurrent
  <1>1. configShown = configChanges
    BY DEF ConfigInv, Config!Quiet, Coming
  <1> QED BY <1>1 DEF ConfigInv

-------------------------------------------------------------------------------
(* The exchange rates                                                      *)

\* A row was saved within an answer time of the market it shows.
RowOK(row) == row # None => row.at <= ratesNow /\ row.at - row.rate <= StepTime

FailedSince(t) == ratesLastFail # None /\ ratesLastFail >= t

\* A rate used at a time is no older than the refresh age and an answer time, or the
\* provider has failed since.
RateOK(value, t) == t - value <= MaxAge + StepTime \/ FailedSince(t)

RateCall(q) ==
    /\ q.since <= ratesNow
    /\ RowOK(q.row)
    /\ q.pc \notin {"idle", "served"} => ratesNow - q.since <= StepTime
    /\ q.pc = "saving" => q.value # None /\ q.value = q.since
    /\ q.pc = "served" =>
           IF q.value = None THEN FailedSince(q.since)
           ELSE q.since - q.value <= MaxAge + Memo + StepTime \/ FailedSince(q.since - Memo)

MemoOK == ratesMemo # None => /\ ratesMemo.value # None /\ ratesMemo.at <= ratesNow
                              /\ RateOK(ratesMemo.value, ratesMemo.at)

RatesInv ==
    /\ Rates!TypeOK
    /\ ratesLastFail # None => ratesLastFail <= ratesNow
    /\ RowOK(ratesTable["USD"])
    /\ MemoOK
    /\ \A r \in Call : RateCall(ratesReq[r])

RatePc == {"idle", "reading", "deciding", "fetching", "saving", "served"}
RateRecord == [pc : RatePc, force : BOOLEAN, row : Rates!Row \cup {None}, value : Rates!Value, since : Rates!Time]

\* The numbers of the rates.
LEMMA RateNumbers ==
    /\ MaxAge \in Nat /\ Memo \in Nat /\ StepTime \in Nat /\ RatesTime \in Nat
    /\ None \notin Nat /\ None \notin Rates!Row /\ None \notin [at : Rates!Time, value : Rates!Value]
    /\ Rates!Time = 0 .. RatesTime /\ Rates!Value = Rates!Time \cup {None}
  <1>1. Rates!Row \subseteq [rate : Nat, at : Nat]
    BY DEF Rates!Row, Rates!Time
  <1>2. [at : Rates!Time, value : Rates!Value] \subseteq [at : Nat, value : Nat \cup {None}]
    BY DEF Rates!Value, Rates!Time
  <1> QED BY <1>1, <1>2, MoneyAssumption DEF Rates!Time, Rates!Value

\* What holds of the rows and the calls, once it does, as time passes and the provider
\* fails again.
LEMMA RatesLast ==
    ASSUME RatesInv, ratesNow' \in Nat, ratesNow' >= ratesNow,
           ratesLastFail' = ratesLastFail \/ (ratesLastFail' = ratesNow /\ ratesNow' = ratesNow)
    PROVE  /\ \A t \in Int : FailedSince(t) => FailedSince(t)'
           /\ \A row \in Rates!Row \cup {None} : RowOK(row) => RowOK(row)'
           /\ \A v \in Nat, t \in Nat : RateOK(v, t) => RateOK(v, t)'
           /\ ratesLastFail' # None => ratesLastFail' <= ratesNow'
  <1>1. ratesNow \in Nat /\ ratesLastFail \in Nat \cup {None} /\ StepTime \in Nat
        /\ (ratesLastFail # None => ratesLastFail <= ratesNow)
    BY RateNumbers DEF RatesInv, Rates!TypeOK
  <1>2. ASSUME NEW t \in Int, FailedSince(t) PROVE FailedSince(t)'
    BY <1>1, <1>2, RateNumbers DEF FailedSince
  <1>3. ASSUME NEW row \in Rates!Row \cup {None}, RowOK(row) PROVE RowOK(row)'
    <2>1. row # None => row.at \in Nat
      BY RateNumbers DEF Rates!Row
    <2> QED BY <1>1, <1>3, <2>1 DEF RowOK
  <1>4. ASSUME NEW v \in Nat, NEW t \in Nat, RateOK(v, t) PROVE RateOK(v, t)'
    BY <1>2, <1>4 DEF RateOK
  <1>5. ratesLastFail' # None => ratesLastFail' <= ratesNow'
    BY <1>1
  <1> QED BY <1>2, <1>3, <1>4, <1>5

\* A call that holds what it should still does.
LEMMA RateCallLasts ==
    ASSUME RatesInv, ratesNow' \in Nat, ratesNow' >= ratesNow,
           ratesLastFail' = ratesLastFail \/ (ratesLastFail' = ratesNow /\ ratesNow' = ratesNow)
    PROVE  \A q \in RateRecord :
               RateCall(q) /\ (q.pc \notin {"idle", "served"} => ratesNow' - q.since <= StepTime)
                   => RateCall(q)'
  <1> SUFFICES ASSUME NEW q \in RateRecord, RateCall(q),
                      q.pc \notin {"idle", "served"} => ratesNow' - q.since <= StepTime
               PROVE  RateCall(q)'
    OBVIOUS
  <1>1. ratesNow \in Nat /\ q.since \in Nat /\ Memo \in Nat /\ q.row \in Rates!Row \cup {None}
    BY RateNumbers DEF RateRecord, RatesInv, Rates!TypeOK
  <1>2. q.since <= ratesNow'
    BY <1>1 DEF RateCall
  <1>3. RowOK(q.row)'
    BY <1>1, RatesLast DEF RateCall
  <1>4. q.since - Memo \in Int
    BY <1>1
  <1>5. q.pc = "served" =>
           IF q.value = None THEN FailedSince(q.since)'
           ELSE q.since - q.value <= MaxAge + Memo + StepTime \/ FailedSince(q.since - Memo)'
    BY <1>1, <1>4, RatesLast DEF RateCall
  <1> QED BY <1>2, <1>3, <1>5 DEF RateCall

\* A step of one call: the table keeps to its rows, and the others are as they were.
LEMMA RateMoves ==
    ASSUME RatesInv, NEW r \in Call, NEW q \in RateRecord,
           ratesReq' = [ratesReq EXCEPT ![r] = q], UNCHANGED ratesNow,
           ratesLastFail' = ratesLastFail \/ ratesLastFail' = ratesNow,
           ratesTable' \in [Rates!Base -> Rates!Row \cup {None}], RowOK(ratesTable'["USD"]),
           ratesMemo' \in [at : Rates!Time, value : Rates!Value] \cup {None},
           ratesMemo' = ratesMemo \/ MemoOK',
           RateCall(q)'
    PROVE  RatesInv'
  <1>1. ratesNow \in Nat /\ ratesNow \in Rates!Time
    BY RateNumbers DEF RatesInv, Rates!TypeOK
  <1>2. Rates!TypeOK'
    BY <1>1, RateNumbers DEF RatesInv, Rates!TypeOK, RateRecord, RatePc, Rates!NoRow
  <1>3. ratesLastFail' # None => ratesLastFail' <= ratesNow'
    BY <1>1, RatesLast
  <1>4. RowOK(ratesTable["USD"])'
    BY DEF RowOK
  <1>5. MemoOK'
    <2>1. CASE ratesMemo' = ratesMemo
      <3> PICK v, t : v = ratesMemo.value /\ t = ratesMemo.at
        OBVIOUS
      <3>1. ratesMemo # None => v \in Nat /\ v # None /\ t \in Nat /\ t <= ratesNow /\ RateOK(v, t)
        BY RateNumbers DEF RatesInv, Rates!TypeOK, MemoOK
      <3>2. ratesMemo # None => RateOK(v, t)'
        BY <1>1, <3>1, RatesLast
      <3>3. ratesMemo'.value = v /\ ratesMemo'.at = t /\ ratesNow' = ratesNow
        BY <2>1
      <3>4. RateOK(v, t)' => RateOK(ratesMemo.value, ratesMemo.at)'
        BY <3>3 DEF RateOK, FailedSince
      <3> QED BY <2>1, <3>1, <3>2, <3>3, <3>4 DEF MemoOK
    <2>2. CASE ratesMemo' # ratesMemo
      BY <2>2
    <2> QED BY <2>1, <2>2
  <1>6. ASSUME NEW s \in Call PROVE RateCall(ratesReq[s])'
    <2>1. CASE s = r
      <3>1. ratesReq'[s] = q
        BY <2>1 DEF RatesInv, Rates!TypeOK
      <3> QED BY <3>1 DEF RateCall, RowOK, FailedSince
    <2>2. CASE s # r
      <3> PICK p \in RateRecord : p = ratesReq[s]
        BY DEF RatesInv, Rates!TypeOK, RateRecord, RatePc, Rates!NoRow
      <3>1. RateCall(p) /\ ratesReq'[s] = p
        BY <2>2 DEF RatesInv, Rates!TypeOK
      <3>2. RateCall(p)'
        <4>1. p.pc \notin {"idle", "served"} => ratesNow' - p.since <= StepTime
          BY <3>1 DEF RateCall
        <4>2. ratesNow' \in Nat /\ ratesNow' >= ratesNow
          BY <1>1
        <4> QED BY <3>1, <4>1, <4>2, RateCallLasts
      <3> QED BY <3>1, <3>2 DEF RateCall, RowOK, FailedSince
    <2> QED BY <2>1, <2>2
  <1> QED BY <1>2, <1>3, <1>4, <1>5, <1>6 DEF RatesInv

\* An idle call.
LEMMA RateIdle ==
    /\ Rates!Idle \in RateRecord /\ Rates!Idle.pc = "idle" /\ Rates!Idle.row = None /\ Rates!Idle.since = 0
  BY RateNumbers DEF Rates!Idle, Rates!NoRow, RateRecord, RatePc

\* A step of a call, at its time.
LEMMA RateStamped ==
    ASSUME NEW z \in RateRecord, NEW t \in Rates!Time
    PROVE  \E q \in RateRecord : /\ q = [z EXCEPT !.since = t]
                                /\ q.pc = z.pc /\ q.row = z.row /\ q.value = z.value /\ q.force = z.force
                                /\ q.since = t
  <1> PICK q : q = [z EXCEPT !.since = t]
    OBVIOUS
  <1>1. q \in RateRecord /\ q.pc = z.pc /\ q.row = z.row /\ q.value = z.value /\ q.force = z.force /\ q.since = t
    BY DEF RateRecord
  <1> QED BY <1>1

\* Somebody asks: the answer in memory while it may be, the table after it.
LEMMA AskRatesKeeps ==
    ASSUME RatesInv, NEW r \in Call, NEW force \in BOOLEAN, Rates!Ask(r, force) PROVE RatesInv'
  <1>1. /\ ratesNow \in Nat /\ ratesNow \in Rates!Time /\ MaxAge \in Nat /\ Memo \in Nat /\ StepTime \in Nat
        /\ ratesTable \in [Rates!Base -> Rates!Row \cup {None}] /\ RowOK(ratesTable["USD"])
        /\ ratesMemo \in [at : Rates!Time, value : Rates!Value] \cup {None} /\ MemoOK
        /\ None \in Rates!Value
    BY RateNumbers DEF RatesInv, Rates!TypeOK, Rates!NoRow
  <1>2. UNCHANGED <<ratesTable, ratesMemo, ratesLastFail, ratesNow>>
    BY DEF Rates!Ask
  <1>3. CASE Rates!MemoServes(force)
    <2> PICK v : v = ratesMemo.value
      OBVIOUS
    <2>0. PICK z : z = [Rates!Idle EXCEPT !.pc = "served", !.value = v]
      OBVIOUS
    <2>2. /\ ratesMemo # None /\ ratesNow - ratesMemo.at < Memo
          /\ v # None /\ v \in Rates!Value /\ RateOK(v, ratesMemo.at) /\ ratesMemo.at \in Rates!Time
          /\ ratesMemo.at <= ratesNow
      BY <1>1, <1>3 DEF Rates!MemoServes, MemoOK
    <2>3. z \in RateRecord /\ z.pc = "served" /\ z.value = v /\ z.row = None
      BY <2>0, <2>2, RateIdle DEF RateRecord, RatePc
    <2> PICK q \in RateRecord : /\ q = [z EXCEPT !.since = ratesNow]
                                /\ q.pc = z.pc /\ q.row = z.row /\ q.value = z.value /\ q.force = z.force
                                /\ q.since = ratesNow
      BY <1>1, <2>3, RateStamped
    <2>1. ratesReq' = [ratesReq EXCEPT ![r] = q]
      BY <1>3, <2>0 DEF Rates!Ask, Rates!Step
    <2>4. ratesNow - v <= MaxAge + Memo + StepTime \/ FailedSince(ratesNow - Memo)
      <3>1. v \in Nat /\ ratesMemo.at \in Nat
        BY <2>2, RateNumbers
      <3>2. ratesLastFail # None => ratesLastFail \in Nat
        BY RateNumbers DEF RatesInv, Rates!TypeOK
      <3> QED BY <1>1, <2>2, <3>1, <3>2 DEF RateOK, FailedSince
    <2>5. RateCall(q)
      BY <1>1, <2>2, <2>3, <2>4 DEF RateCall, RowOK
    <2>6. RateCall(q)'
      BY <1>2, <2>5 DEF RateCall, RowOK, FailedSince
    <2> QED BY <1>1, <1>2, <2>1, <2>6, RateMoves
  <1>4. CASE ~Rates!MemoServes(force)
    <2>0. PICK z : z = [Rates!Idle EXCEPT !.pc = "reading", !.force = force]
      OBVIOUS
    <2>1. z \in RateRecord /\ z.pc = "reading" /\ z.row = None
      BY <2>0, RateIdle DEF RateRecord, RatePc
    <2> PICK q \in RateRecord : /\ q = [z EXCEPT !.since = ratesNow]
                                /\ q.pc = z.pc /\ q.row = z.row /\ q.value = z.value /\ q.force = z.force
                                /\ q.since = ratesNow
      BY <1>1, <2>1, RateStamped
    <2>2. ratesReq' = [ratesReq EXCEPT ![r] = q]
      BY <1>4, <2>0 DEF Rates!Ask, Rates!Step
    <2>3. RateCall(q)'
      BY <1>1, <1>2, <2>1 DEF RateCall, RowOK
    <2> QED BY <1>1, <1>2, <2>2, <2>3, RateMoves
  <1> QED BY <1>3, <1>4

\* The answer is kept, unless there is none: what is said of it then holds of the copy.
LEMMA FinishMemo ==
    ASSUME NEW value \in Rates!Value, NEW t, ratesMemo' = IF value = None THEN None ELSE [at |-> t, value |-> value],
           t \in Rates!Time, t = ratesNow, UNCHANGED ratesNow, value # None => RateOK(value, t)'
    PROVE  /\ ratesMemo' \in [at : Rates!Time, value : Rates!Value] \cup {None}
           /\ MemoOK'
  <1>1. t <= ratesNow'
    BY RateNumbers
  <1>2. CASE value = None
    BY <1>2 DEF MemoOK
  <1>3. CASE value # None
    <2>1. ratesMemo' = [at |-> t, value |-> value]
      BY <1>3
    <2>2. ratesMemo'.at = t /\ ratesMemo'.value = value
      BY <2>1
    <2>3. RateOK(ratesMemo.value, ratesMemo.at)'
      BY <1>3, <2>2 DEF RateOK, FailedSince
    <2> QED BY <1>1, <1>3, <2>1, <2>2, <2>3 DEF MemoOK
  <1> QED BY <1>2, <1>3

\* The rows are read.
LEMMA ReadRatesKeeps == ASSUME RatesInv, NEW r \in Call, Rates!ReadRows(r) PROVE RatesInv'
  <1> PICK p \in RateRecord : p = ratesReq[r]
    BY DEF RatesInv, Rates!TypeOK, RateRecord, RatePc, Rates!NoRow
  <1>1. /\ ratesNow \in Nat /\ ratesNow \in Rates!Time /\ StepTime \in Nat
        /\ ratesTable \in [Rates!Base -> Rates!Row \cup {None}] /\ RowOK(ratesTable["USD"])
        /\ ratesMemo \in [at : Rates!Time, value : Rates!Value] \cup {None}
    BY RateNumbers DEF RatesInv, Rates!TypeOK, Rates!NoRow
  <1>2. UNCHANGED <<ratesTable, ratesMemo, ratesLastFail, ratesNow>>
    BY DEF Rates!ReadRows
  <1> PICK row \in Rates!Row \cup {None} : row = ratesTable["USD"]
    BY <1>1 DEF Rates!Base
  <1>0. PICK z : z = [p EXCEPT !.pc = "deciding", !.row = row]
    OBVIOUS
  <1>3. z \in RateRecord /\ z.pc = "deciding" /\ z.row = row
    BY <1>0 DEF RateRecord, RatePc
  <1> PICK q \in RateRecord : /\ q = [z EXCEPT !.since = ratesNow]
                              /\ q.pc = z.pc /\ q.row = z.row /\ q.value = z.value /\ q.force = z.force
                              /\ q.since = ratesNow
    BY <1>1, <1>3, RateStamped
  <1>4. ratesReq' = [ratesReq EXCEPT ![r] = q]
    BY <1>0 DEF Rates!ReadRows, Rates!Step
  <1>5. RateCall(q)'
    BY <1>1, <1>2, <1>3 DEF RateCall, RowOK
  <1> QED BY <1>1, <1>2, <1>4, <1>5, RateMoves

\* A call ends with an answer: what it serves, the copy keeps.
LEMMA FinishKeeps ==
    ASSUME RatesInv, NEW r \in Call, NEW p \in RateRecord, p = ratesReq[r],
           NEW value \in Rates!Value, Rates!Finish(r, value), UNCHANGED ratesNow,
           ratesLastFail' = ratesLastFail \/ ratesLastFail' = ratesNow,
           ratesTable' \in [Rates!Base -> Rates!Row \cup {None}], RowOK(ratesTable'["USD"]),
           IF value = None THEN ratesLastFail' = ratesNow ELSE RateOK(value, ratesNow)'
    PROVE  RatesInv'
  <1>1. /\ ratesNow \in Nat /\ ratesNow \in Rates!Time /\ StepTime \in Nat /\ Memo \in Nat /\ MaxAge \in Nat
        /\ RateCall(p) /\ None \notin Nat
    BY RateNumbers DEF RatesInv, Rates!TypeOK
  <1>2. PICK z : z = [p EXCEPT !.pc = "served", !.value = value]
    OBVIOUS
  <1>3. z \in RateRecord /\ z.pc = "served" /\ z.value = value /\ z.row = p.row
    BY <1>2 DEF RateRecord, RatePc
  <1> PICK q \in RateRecord : /\ q = [z EXCEPT !.since = ratesNow]
                              /\ q.pc = z.pc /\ q.row = z.row /\ q.value = z.value /\ q.force = z.force
                              /\ q.since = ratesNow
    BY <1>1, <1>3, RateStamped
  <1>4. ratesReq' = [ratesReq EXCEPT ![r] = q]
    BY <1>2 DEF Rates!Finish, Rates!Step
  <1>5. IF value = None THEN FailedSince(ratesNow)'
        ELSE ratesNow - value <= MaxAge + Memo + StepTime \/ FailedSince(ratesNow - Memo)'
    <2>1. CASE value = None
      BY <1>1, <2>1 DEF FailedSince
    <2>2. CASE value # None
      <3>1. value \in Nat
        BY <2>2, RateNumbers
      <3>2. ratesLastFail' \in Nat \cup {None}
        BY <1>1, RateNumbers DEF RatesInv, Rates!TypeOK
      <3> QED BY <1>1, <2>2, <3>1, <3>2 DEF RateOK, FailedSince
    <2> QED BY <2>1, <2>2
  <1>6. RateCall(q)'
    <2>1. RowOK(q.row)'
      BY <1>1, <1>3 DEF RateCall, RowOK
    <2>2. q.since <= ratesNow'
      BY <1>1
    <2>3. (q.pc = "served" =>
             IF q.value = None THEN FailedSince(q.since)
             ELSE q.since - q.value <= MaxAge + Memo + StepTime \/ FailedSince(q.since - Memo))'
      BY <1>3, <1>5 DEF FailedSince
    <2> QED BY <1>3, <2>1, <2>2, <2>3 DEF RateCall
  <1>7. ratesMemo' = IF value = None THEN None ELSE [at |-> ratesNow, value |-> value]
    BY DEF Rates!Finish
  <1>8. /\ ratesMemo' \in [at : Rates!Time, value : Rates!Value] \cup {None}
        /\ MemoOK'
    <2>1. PICK t : t = ratesNow
      OBVIOUS
    <2>2. value # None => RateOK(value, t)'
      BY <2>1 DEF RateOK, FailedSince
    <2>3. ratesMemo' = IF value = None THEN None ELSE [at |-> t, value |-> value]
      BY <1>7, <2>1
    <2> QED BY <1>1, <2>1, <2>2, <2>3, FinishMemo
  <1> QED BY <1>1, <1>4, <1>6, <1>8, RateMoves

\* What a call knows of itself.
LEMMA RateCaller ==
    ASSUME RatesInv, NEW r \in Call
    PROVE  /\ ratesReq[r] \in RateRecord /\ RateCall(ratesReq[r])
           /\ ratesNow \in Nat /\ ratesNow \in Rates!Time
           /\ MaxAge \in Nat /\ Memo \in Nat /\ StepTime \in Nat
           /\ ratesTable \in [Rates!Base -> Rates!Row \cup {None}] /\ RowOK(ratesTable["USD"])
           /\ ratesMemo \in [at : Rates!Time, value : Rates!Value] \cup {None}
           /\ None \notin Nat
  BY RateNumbers DEF RatesInv, Rates!TypeOK, RateRecord, RatePc, Rates!NoRow

\* The rows are fresh and serve, or the provider is asked.
LEMMA DecideKeeps == ASSUME RatesInv, NEW r \in Call, Rates!Decide(r) PROVE RatesInv'
  <1> PICK p \in RateRecord : p = ratesReq[r]
    BY RateCaller
  <1>1. RateCall(p) /\ UNCHANGED <<ratesTable, ratesLastFail, ratesNow>>
    BY RateCaller DEF Rates!Decide
  <1>2. CASE Rates!Step(r, [p EXCEPT !.pc = "fetching"]) /\ UNCHANGED ratesMemo
    <2>1. PICK z : z = [p EXCEPT !.pc = "fetching"]
      OBVIOUS
    <2>2. z \in RateRecord /\ z.pc = "fetching" /\ z.row = p.row
      BY <2>1 DEF RateRecord, RatePc
    <2> PICK q \in RateRecord : /\ q = [z EXCEPT !.since = ratesNow]
                                /\ q.pc = z.pc /\ q.row = z.row /\ q.value = z.value /\ q.force = z.force
                                /\ q.since = ratesNow
      BY <2>2, RateCaller, RateStamped
    <2>3. ratesReq' = [ratesReq EXCEPT ![r] = q]
      BY <1>2, <2>1 DEF Rates!Step
    <2>4. RateCall(q)'
      BY <1>1, <2>2, RateCaller DEF RateCall, RowOK
    <2> QED BY <1>1, <1>2, <2>3, <2>4, RateCaller, RateMoves
  <1>3. CASE Rates!Fresh(p.row) /\ Rates!Finish(r, p.row.rate)
    <2>1. p.row \in Rates!Row /\ p.row # None /\ ratesNow - p.row.at <= MaxAge
      BY <1>3 DEF Rates!Fresh, Rates!NoRow, RateRecord
    <2> PICK value \in Rates!Time : value = p.row.rate
      BY <2>1 DEF Rates!Row
    <2>2. value \in Nat /\ value # None /\ value \in Rates!Value /\ p.row.at \in Nat
      BY <2>1, RateNumbers DEF Rates!Row
    <2>3. p.row.at - value <= StepTime
      BY <1>1, <2>1 DEF RateCall, RowOK
    <2>4. ratesNow - value <= MaxAge + StepTime
      BY <2>1, <2>2, <2>3, RateCaller
    <2>5. RateOK(value, ratesNow)'
      BY <1>1, <2>4 DEF RateOK
    <2> QED BY <1>1, <1>3, <2>2, <2>5, RateCaller, FinishKeeps
  <1> QED BY <1>2, <1>3 DEF Rates!Decide

\* The provider answers with the market's rates.
LEMMA ProviderAnswersKeeps == ASSUME RatesInv, NEW r \in Call, Rates!ProviderAnswers(r) PROVE RatesInv'
  <1> PICK p \in RateRecord : p = ratesReq[r]
    BY RateCaller
  <1>1. RateCall(p) /\ UNCHANGED <<ratesTable, ratesMemo, ratesLastFail, ratesNow>>
    BY RateCaller DEF Rates!ProviderAnswers
  <1>2. PICK z : z = [p EXCEPT !.pc = "saving", !.value = ratesNow]
    OBVIOUS
  <1>3. z \in RateRecord /\ z.pc = "saving" /\ z.row = p.row /\ z.value = ratesNow
    BY <1>2, RateCaller, RateNumbers DEF RateRecord, RatePc
  <1> PICK q \in RateRecord : /\ q = [z EXCEPT !.since = ratesNow]
                              /\ q.pc = z.pc /\ q.row = z.row /\ q.value = z.value /\ q.force = z.force
                              /\ q.since = ratesNow
    BY <1>3, RateCaller, RateStamped
  <1>4. ratesReq' = [ratesReq EXCEPT ![r] = q]
    BY <1>2 DEF Rates!ProviderAnswers, Rates!Step
  <1>5. RateCall(q)'
    BY <1>1, <1>3, RateCaller DEF RateCall, RowOK
  <1> QED BY <1>1, <1>4, <1>5, RateCaller, RateMoves

\* It fails: the call has to do with what it read.
LEMMA ProviderFailsKeeps == ASSUME RatesInv, NEW r \in Call, Rates!ProviderFails(r) PROVE RatesInv'
  <1> PICK p \in RateRecord : p = ratesReq[r]
    BY RateCaller
  <1>1. /\ Rates!Finish(r, Rates!StoredRate(p.row)) /\ ratesLastFail' = ratesNow
        /\ UNCHANGED <<ratesTable, ratesNow>>
    BY DEF Rates!ProviderFails
  <1>2. Rates!StoredRate(p.row) \in Rates!Value
    BY RateNumbers DEF Rates!StoredRate, Rates!NoRow, RateRecord, Rates!Row
  <1> PICK value \in Rates!Value : value = Rates!StoredRate(p.row)
    BY <1>2
  <1>3. RateOK(value, ratesNow)'
    BY <1>1, RateCaller DEF RateOK, FailedSince
  <1> QED BY <1>1, <1>3, RateCaller, FinishKeeps

\* The rates are saved and served.
LEMMA SaveRatesKeeps == ASSUME RatesInv, NEW r \in Call, Rates!SaveRates(r) PROVE RatesInv'
  <1> PICK p \in RateRecord : p = ratesReq[r]
    BY RateCaller
  <1>1. /\ p.pc = "saving" /\ Rates!Finish(r, p.value)
        /\ ratesTable' = [ratesTable EXCEPT !["USD"] = [rate |-> p.value, at |-> ratesNow]]
        /\ UNCHANGED <<ratesLastFail, ratesNow>>
    BY DEF Rates!SaveRates
  <1> PICK value \in Rates!Value : value = p.value
    BY DEF RateRecord
  <1>2. value # None /\ value = p.since /\ ratesNow - p.since <= StepTime /\ p.since \in Rates!Time
    BY <1>1, RateCaller DEF RateCall, RateRecord
  <1>3. value \in Nat /\ value \in Rates!Time
    BY <1>2, RateNumbers
  <1>4. PICK row \in Rates!Row : row = [rate |-> value, at |-> ratesNow]
    BY <1>3, RateCaller DEF Rates!Row
  <1>5. row.at = ratesNow /\ row.rate = value
    BY <1>4
  <1>6. RowOK(row)
    BY <1>2, <1>5, RateCaller DEF RowOK
  <1>7. ratesTable' = [ratesTable EXCEPT !["USD"] = row]
    BY <1>1, <1>4
  <1>8. ratesTable' \in [Rates!Base -> Rates!Row \cup {None}] /\ ratesTable'["USD"] = row
    BY <1>7, RateCaller DEF Rates!Base
  <1>9. ratesNow - value <= MaxAge + StepTime
    BY <1>2, <1>3, RateCaller
  <1>10. RateOK(value, ratesNow)'
    BY <1>1, <1>9 DEF RateOK
  <1> QED BY <1>1, <1>2, <1>6, <1>8, <1>10, FinishKeeps

\* A query fails.
LEMMA RateQueryFailsKeeps == ASSUME RatesInv, NEW r \in Call, Rates!QueryFails(r) PROVE RatesInv'
  <1>1. /\ ratesReq' = [ratesReq EXCEPT ![r] = Rates!Idle]
        /\ UNCHANGED <<ratesTable, ratesMemo, ratesLastFail, ratesNow>>
    BY DEF Rates!QueryFails
  <1>2. RateCall(Rates!Idle)'
    BY <1>1, RateIdle, RateCaller DEF RateCall, RowOK
  <1> QED BY <1>1, <1>2, RateIdle, RateCaller, RateMoves

\* Time passes, while everybody is answered in time.
LEMMA RateTickKeeps == ASSUME RatesInv, Rates!Tick PROVE RatesInv'
  <1>1. /\ ratesNow \in Nat /\ ratesNow < RatesTime /\ ratesNow' = ratesNow + 1 /\ RatesTime \in Nat
        /\ StepTime \in Nat
        /\ UNCHANGED <<ratesTable, ratesMemo, ratesReq, ratesLastFail>>
        /\ \A r \in Call : ratesReq[r].pc \in {"idle", "served"} \/ ratesNow - ratesReq[r].since < StepTime
    BY RateNumbers DEF RatesInv, Rates!TypeOK, Rates!Tick
  <1>2. ratesNow' \in Nat /\ ratesNow' >= ratesNow
    BY <1>1
  <1>3. Rates!TypeOK'
    BY <1>1, RateNumbers DEF RatesInv, Rates!TypeOK
  <1>4. ratesLastFail' # None => ratesLastFail' <= ratesNow'
    BY <1>1, <1>2, RatesLast
  <1>5. RowOK(ratesTable["USD"])'
    <2>1. PICK row \in Rates!Row \cup {None} : row = ratesTable["USD"]
      BY DEF RatesInv, Rates!TypeOK, Rates!NoRow, Rates!Base
    <2>2. RowOK(row)'
      BY <1>1, <1>2, <2>1, RatesLast DEF RatesInv
    <2> QED BY <1>1, <2>1, <2>2 DEF RowOK
  <1>6. MemoOK'
    <2>1. PICK v, t : v = ratesMemo.value /\ t = ratesMemo.at
      OBVIOUS
    <2>2. ratesMemo # None => v \in Nat /\ v # None /\ t \in Nat /\ t <= ratesNow /\ RateOK(v, t)
      BY <2>1, RateNumbers DEF RatesInv, Rates!TypeOK, MemoOK
    <2>3. ratesMemo # None => RateOK(v, t)'
      BY <1>1, <1>2, <2>2, RatesLast
    <2>4. ratesMemo'.value = v /\ ratesMemo'.at = t
      BY <1>1, <2>1
    <2>5. RateOK(v, t)' => RateOK(ratesMemo.value, ratesMemo.at)'
      BY <2>4 DEF RateOK, FailedSince
    <2>6. t \in Nat /\ t <= ratesNow => t <= ratesNow'
      BY <1>1
    <2> QED BY <1>1, <2>2, <2>3, <2>4, <2>5, <2>6 DEF MemoOK
  <1>7. ASSUME NEW s \in Call PROVE RateCall(ratesReq[s])'
    <2>1. PICK p \in RateRecord : p = ratesReq[s]
      BY RateCaller
    <2>2. p.pc \notin {"idle", "served"} => ratesNow' - p.since <= StepTime
      <3>1. p.since \in Nat
        BY RateNumbers DEF RateRecord
      <3> QED BY <1>1, <2>1, <3>1
    <2>3. RateCall(p)'
      BY <1>1, <1>2, <2>1, <2>2, RateCaller, RateCallLasts
    <2> QED BY <1>1, <2>1, <2>3 DEF RateCall, RowOK, FailedSince
  <1> QED BY <1>3, <1>4, <1>5, <1>6, <1>7 DEF RatesInv

\* Nothing is known of the market.
LEMMA RatesInit == Rates!Init => RatesInv
  <1> SUFFICES ASSUME Rates!Init PROVE RatesInv
    OBVIOUS
  <1>1. 0 \in Rates!Time /\ None \in Rates!Value
    BY RateNumbers
  <1>2. ratesReq \in [Call -> RateRecord]
    BY RateIdle DEF Rates!Init
  <1>3. Rates!TypeOK
    BY <1>1, <1>2 DEF Rates!Init, Rates!TypeOK, RateRecord, RatePc, Rates!NoRow
  <1>4. \A r \in Call : RateCall(ratesReq[r])
    BY RateIdle DEF Rates!Init, RateCall, RowOK
  <1>5. RowOK(ratesTable["USD"])
    BY DEF Rates!Init, RowOK, Rates!NoRow, Rates!Base
  <1> QED BY <1>3, <1>4, <1>5 DEF Rates!Init, RatesInv, MemoOK

\* Every step keeps the invariant of the rates.
LEMMA RatesStep == RatesInv /\ [Rates!Next]_(Rates!vars) => RatesInv'
  <1> SUFFICES ASSUME RatesInv, [Rates!Next]_(Rates!vars) PROVE RatesInv'
    OBVIOUS
  <1>1. ASSUME NEW r \in Call, NEW force \in BOOLEAN, Rates!Ask(r, force) PROVE RatesInv'
    BY <1>1, AskRatesKeeps
  <1>2. ASSUME NEW r \in Call,
               \/ Rates!ReadRows(r) \/ Rates!Decide(r) \/ Rates!ProviderAnswers(r)
               \/ Rates!ProviderFails(r) \/ Rates!SaveRates(r) \/ Rates!QueryFails(r)
        PROVE  RatesInv'
    BY <1>2, ReadRatesKeeps, DecideKeeps, ProviderAnswersKeeps, ProviderFailsKeeps, SaveRatesKeeps,
       RateQueryFailsKeeps
  <1>3. CASE Rates!Tick
    BY <1>3, RateTickKeeps
  <1>4. CASE UNCHANGED Rates!vars
    <2>1. UNCHANGED <<ratesTable, ratesMemo, ratesReq, ratesLastFail, ratesNow>>
      BY <1>4 DEF Rates!vars
    <2>2. Rates!TypeOK' /\ (ratesLastFail # None => ratesLastFail <= ratesNow)'
      BY <2>1 DEF RatesInv, Rates!TypeOK
    <2>3. \A row : RowOK(row)' <=> RowOK(row)
      BY <2>1 DEF RowOK
    <2>4. \A t : FailedSince(t)' <=> FailedSince(t)
      BY <2>1 DEF FailedSince
    <2>5. \A q : RateCall(q)' <=> RateCall(q)
      BY <2>1, <2>3, <2>4 DEF RateCall
    <2>6. \A v, t : RateOK(v, t)' <=> RateOK(v, t)
      BY <2>4 DEF RateOK
    <2>7. MemoOK'
      BY <2>1, <2>6 DEF RatesInv, MemoOK
    <2>8. RowOK(ratesTable["USD"])'
      BY <2>1, <2>3 DEF RatesInv
    <2>9. \A r \in Call : RateCall(ratesReq[r])'
      BY <2>1, <2>5 DEF RatesInv
    <2> QED BY <2>2, <2>7, <2>8, <2>9 DEF RatesInv
  <1> QED BY <1>1, <1>2, <1>3, <1>4 DEF Rates!Next

\* What a call is served is of the market within the times, or the provider failed.
LEMMA RatesImply == RatesInv => Rates!OldRatesAreExcused /\ Rates!OutageIsNotKept
  <1> SUFFICES ASSUME RatesInv, NEW r \in Call, ratesReq[r].pc = "served"
               PROVE  /\ ratesReq[r].value # None =>
                            \/ ~Rates!OverAge(ratesReq[r].value, ratesReq[r].since)
                            \/ ratesLastFail # None /\ ratesLastFail >= ratesReq[r].since - Memo
                      /\ ratesReq[r].value = None =>
                            ratesLastFail # None /\ ratesReq[r].since <= ratesLastFail
    BY DEF Rates!OldRatesAreExcused, Rates!OutageIsNotKept
  <1> PICK p \in RateRecord : p = ratesReq[r]
    BY RateCaller
  <1>1. RateCall(p) /\ p.since \in Nat /\ p.value \in Nat \cup {None}
    BY RateCaller, RateNumbers DEF RateRecord
  <1>2. MaxAge \in Nat /\ Memo \in Nat /\ StepTime \in Nat /\ None \notin Nat
    BY RateCaller
  <1>3. ratesLastFail # None => ratesLastFail \in Nat
    BY RateNumbers DEF RatesInv, Rates!TypeOK
  <1>4. CASE p.value = None
    BY <1>1, <1>3, <1>4 DEF RateCall, FailedSince
  <1>5. CASE p.value # None
    BY <1>1, <1>2, <1>3, <1>5 DEF RateCall, FailedSince, Rates!OverAge
  <1> QED BY <1>4, <1>5

-------------------------------------------------------------------------------
(* The parts together                                                      *)

PartsInv ==
    /\ part = "payouts" => RegisterInv
    /\ part = "pricing" => PricingInv
    /\ part = "settings" => SettingsInv
    /\ part = "config" => ConfigInv
    /\ part = "rates" => RatesInv

\* Each part keeps its invariant.
LEMMA PartsHold == SumSpec => []PartsInv
  <1>1. SumInit => PartsInv
    BY RegisterInit, PricingInit, SettingsInit, ConfigInit, RatesInit DEF SumInit, PartsInv
  <1>2. PartsInv /\ [SumNext]_sumVars => PartsInv'
    <2> SUFFICES ASSUME PartsInv, [SumNext]_sumVars PROVE PartsInv'
      OBVIOUS
    <2>1. part' = part
      BY DEF SumNext, sumVars
    <2>2. part = "payouts" => RegisterInv'
      <3>1. part = "payouts" => RegisterInv /\ [Next]_vars
        BY DEF SumNext, sumVars, PartsInv
      <3> QED BY <3>1, RegisterStep
    <2>3. part = "pricing" => PricingInv'
      <3>1. part = "pricing" => PricingInv /\ [Pricing!Next]_(Pricing!vars)
        BY DEF SumNext, sumVars, PartsInv, pricingVars, Pricing!vars
      <3> QED BY <3>1, PricingStep
    <2>4. part = "settings" => SettingsInv'
      <3>1. part = "settings" => SettingsInv /\ [Settings!Next]_(Settings!vars)
        BY DEF SumNext, sumVars, PartsInv, settingsVars, Settings!vars
      <3> QED BY <3>1, SettingsStep
    <2>5. part = "config" => ConfigInv'
      <3>1. part = "config" => ConfigInv /\ [Config!Next]_(Config!vars)
        BY DEF SumNext, sumVars, PartsInv, configVars, Config!vars
      <3> QED BY <3>1, ConfigStep
    <2>6. part = "rates" => RatesInv'
      <3>1. part = "rates" => RatesInv /\ [Rates!Next]_(Rates!vars)
        BY DEF SumNext, sumVars, PartsInv, ratesVars, Rates!vars
      <3> QED BY <3>1, RatesStep
    <2> QED BY <2>1, <2>2, <2>3, <2>4, <2>5, <2>6 DEF PartsInv
  <1> QED BY <1>1, <1>2, PTL DEF SumSpec

\* The copies of the settings, the credentials and the exchange rates follow their
\* rows, for any number of calls, keys and saves and any times (CopiesAreCurrent).
THEOREM CopiesFollowRows == SumSpec => []CopiesAreCurrent
  <1>1. RegisterInv => TypeOK
    BY DEF RegisterInv
  <1>2. PricingInv => Pricing!TypeOK
    BY DEF PricingInv
  <1>3. SettingsInv => Settings!TypeOK
    BY DEF SettingsInv
  <1>4. ConfigInv => Config!TypeOK
    BY DEF ConfigInv
  <1>5. RatesInv => Rates!TypeOK
    BY DEF RatesInv
  <1>6. PartsInv => CopiesAreCurrent
    BY <1>1, <1>2, <1>3, <1>4, <1>5, SettingsImply, ConfigImplies, RatesImply
    DEF PartsInv, CopiesAreCurrent, TypesOK
  <1> QED BY <1>6, PartsHold, PTL

\* For any rules, prices, stays and days, and however fine the parts of a cent, what a
\* stay costs is within the bounds of the host but for the rounding, a night costs what
\* the preview said, and no guest gains by waiting (PricesHold).
THEOREM PricesAreAgreed == SumSpec => []PricesHold
  <1>1. PartsInv => PricesHold
    BY StaysFit, PreviewHolds, WaitingCosts DEF PartsInv, PricesHold
  <1> QED BY <1>1, PartsHold, PTL
===============================================================================
