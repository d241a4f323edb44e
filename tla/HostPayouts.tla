------------------------------ MODULE HostPayouts ------------------------------
(***************************************************************************)
(* What the platform owes one host: the register of payouts and the Stripe *)
(* transfers behind it (createPayoutForHost and markPayoutPaid in          *)
(* admin.repository.ts, payouts.ts).  Stripe is configured; the host share *)
(* of a stay is reduced to whether there is anything to send.              *)
(***************************************************************************)
EXTENDS Naturals

CONSTANTS Stay,      \* bookings of the host
          Payout,    \* payout ids
          Currency,
          Req,       \* administrator requests in flight at the same time
          Env,       \* what the environment may do
          None

EnvNames == {"stripeDown",   \* the transfer fails and has no effect
             "answerLost",   \* the transfer is made, its answer is lost
             "crash",        \* a request stops between two steps
             "refund"}       \* an administrator refunds a stay in full

ASSUME PayoutsAssumption ==
    /\ Env \subseteq EnvNames
    /\ None \notin Payout \cup Currency

VARIABLES stay,     \* the bookings with what their payments say
          payout,   \* the payout and payout_item tables
          ready,    \* the host's Stripe account takes payouts
          sent,     \* transfers Stripe has made for a payout (external)
          req,      \* the requests in flight
          crossed   \* stays two requests had chosen when one stored its payout (history)

vars == <<stay, payout, ready, sent, req, crossed>>

(***************************************************************************)
(* settled: a destination charge has paid the host at checkout; covered:   *)
(* that payment is still authorized or paid.                               *)
(***************************************************************************)
StayRow == [status : {"confirmed", "completed"}, cur : Currency, share : {0, 1},
            settled : BOOLEAN, covered : BOOLEAN]

PayoutRow == [status : {"none", "scheduled", "paid"}, cur : Currency \cup {None},
              items : SUBSET Stay]

NoPayout == [status |-> "none", cur |-> None, items |-> {}]

Request == [pc : {"idle", "insert", "transfer", "mark"}, p : Payout \cup {None},
            cur : Currency \cup {None}, items : SUBSET Stay]

Idle == [pc |-> "idle", p |-> None, cur |-> None, items |-> {}]

\* A payout carries one currency: that of all its stays.
OneCurrency(q) == \A s \in q.items : stay[s].cur = q.cur

TypeOK ==
    /\ stay \in [Stay -> StayRow]
    /\ payout \in [Payout -> PayoutRow]
    /\ \A p \in Payout : OneCurrency(payout[p])
    /\ ready \in BOOLEAN
    /\ sent \in [Payout -> Nat]
    /\ req \in [Req -> Request]
    /\ crossed \subseteq Stay

Init ==
    /\ stay \in [Stay -> {s \in StayRow : s.status = "confirmed" /\ s.covered}]
    /\ payout = [p \in Payout |-> NoPayout]
    /\ ready = FALSE
    /\ sent = [p \in Payout |-> 0]
    /\ req = [r \in Req |-> Idle]
    /\ crossed = {}

-------------------------------------------------------------------------------
At(r, pc) == req[r].pc = pc
Done(r)   == req' = [req EXCEPT ![r] = Idle]

Items == UNION {payout[p].items : p \in Payout}

\* Mutation of Eligible: stays that are in a payout already are not left out.
Eligible_Again == {s \in Stay : stay[s].status = "completed" /\ ~(stay[s].settled /\ stay[s].covered)}

\* Completed, in no payout yet, and not paid straight to the host at checkout.
Eligible ==
    {s \in Stay : /\ stay[s].status = "completed"
                  /\ s \notin Items
                  /\ ~(stay[s].settled /\ stay[s].covered)}

\* Mutation of ReadEligible: the stays are not restricted to one currency.
ReadEligible_Mixed(r) ==
    /\ At(r, "idle")
    /\ \E s \in Eligible :
         req' = [req EXCEPT ![r] = [pc |-> "insert", p |-> None, cur |-> stay[s].cur, items |-> Eligible]]
    /\ UNCHANGED <<stay, payout, ready, sent, crossed>>

\* createPayoutForHost reads under READ COMMITTED and takes no lock.  The
\* currency is that of the stay that ended first, which may be any.
ReadEligible(r) ==
    /\ At(r, "idle")
    /\ \E s \in Eligible :
         req' = [req EXCEPT ![r] = [pc |-> "insert", p |-> None, cur |-> stay[s].cur,
                                    items |-> {t \in Eligible : stay[t].cur = stay[s].cur}]]
    /\ UNCHANGED <<stay, payout, ready, sent, crossed>>

\* Stays another request is about to store a payout of too.
ChosenTwice(r) == {s \in req[r].items : \E q \in Req \ {r} : At(q, "insert") /\ s \in req[q].items}

InsertPayout(r) ==
    /\ At(r, "insert")
    /\ \E p \in Payout :
         /\ payout[p].status = "none"
         /\ payout' = [payout EXCEPT ![p] = [status |-> "scheduled", cur |-> req[r].cur,
                                             items |-> req[r].items]]
    /\ Done(r)
    /\ crossed' = crossed \cup ChosenTwice(r)
    /\ UNCHANGED <<stay, ready, sent>>

\* Mutation of StartPaying: the register is written before the money is sent.
StartPaying_Early(r, p) ==
    /\ At(r, "idle")
    /\ payout[p].status = "scheduled"
    /\ payout' = [payout EXCEPT ![p].status = "paid"]
    /\ req' = [req EXCEPT ![r] = [Idle EXCEPT !.pc = "transfer", !.p = p]]
    /\ UNCHANGED <<stay, ready, sent, crossed>>

StartPaying(r, p) ==
    /\ At(r, "idle")
    /\ payout[p].status = "scheduled"
    /\ req' = [req EXCEPT ![r] = [Idle EXCEPT !.pc = "transfer", !.p = p]]
    /\ UNCHANGED <<stay, payout, ready, sent, crossed>>

WorthSending(p) == \E s \in payout[p].items : stay[s].share > 0

\* Mutation of MakeTransfer: every attempt has an idempotency key of its own.
MakeTransfer_NewKey(p) == sent' = [sent EXCEPT ![p] = @ + 1]

\* The idempotency key is payout_<id>: a repeated transfer answers as the first.
MakeTransfer(p) == sent' = [sent EXCEPT ![p] = IF @ = 0 THEN 1 ELSE @]

Transfer(r) ==
    LET p == req[r].p
        mark == req' = [req EXCEPT ![r].pc = "mark"]
    IN
    /\ At(r, "transfer")
    /\ \/ ~WorthSending(p) /\ mark /\ UNCHANGED sent
       \/ WorthSending(p) /\ ready /\ MakeTransfer(p) /\ mark
       \/ WorthSending(p) /\ ready /\ "answerLost" \in Env /\ MakeTransfer(p) /\ Done(r)
       \/ WorthSending(p) /\ (~ready \/ "stripeDown" \in Env) /\ Done(r) /\ UNCHANGED sent
    /\ UNCHANGED <<stay, payout, ready, crossed>>

MarkPayoutPaid(r) ==
    /\ At(r, "mark")
    /\ payout' = [payout EXCEPT ![req[r].p].status = "paid"]
    /\ Done(r)
    /\ UNCHANGED <<stay, ready, sent, crossed>>

-------------------------------------------------------------------------------
(* The rest of the system as far as payouts see it.                        *)

CompleteStay(s) ==
    /\ stay[s].status = "confirmed"
    /\ stay' = [stay EXCEPT ![s].status = "completed"]
    /\ UNCHANGED <<payout, ready, sent, req, crossed>>

\* A full refund: the payment rows are marked refunded, the stay keeps its status.
RefundStay(s) ==
    /\ "refund" \in Env /\ stay[s].covered
    /\ stay' = [stay EXCEPT ![s].covered = FALSE]
    /\ UNCHANGED <<payout, ready, sent, req, crossed>>

\* account.updated and the return from onboarding store what Stripe says.
SetHostStripeAccount ==
    /\ ready' = ~ready
    /\ UNCHANGED <<stay, payout, sent, req, crossed>>

LoseRequest(r) ==
    /\ "crash" \in Env /\ ~At(r, "idle")
    /\ Done(r)
    /\ UNCHANGED <<stay, payout, ready, sent, crossed>>

Next ==
    \/ \E r \in Req : \/ ReadEligible(r)
                      \/ InsertPayout(r)
                      \/ \E p \in Payout : StartPaying(r, p)
                      \/ Transfer(r)
                      \/ MarkPayoutPaid(r)
                      \/ LoseRequest(r)
    \/ \E s \in Stay : CompleteStay(s) \/ RefundStay(s)
    \/ SetHostStripeAccount

Spec == Init /\ [][Next]_vars

-------------------------------------------------------------------------------
(* Properties                                                              *)

\* "Replaying the same payout can never send the money twice" (payouts.ts): two
\* administrators, a retry after a lost answer or a crash before the register is
\* written make one transfer at most.
TransferredOnce == \A p \in Payout : sent[p] <= 1

\* "a Stripe failure never leaves the register claiming money left the platform"
\* (payouts.ts): a payout marked paid was sent, or had nothing to send.
RegisterMeansSent ==
    \A p \in Payout : payout[p].status = "paid" => sent[p] > 0 \/ ~WorthSending(p)

\* "Groups every completed, not-yet-paid stay of a host into one payout": however
\* many requests create payouts, the host's share of a stay is in one payout at most
\* and in none as long as the charge that paid the host at checkout stands, except
\* where two of them had both chosen the stay before either stored its payout.
HostPaidOnce ==
    /\ \A p, q \in Payout : p # q => payout[p].items \cap payout[q].items \subseteq crossed
    /\ \A s \in Items : ~(stay[s].settled /\ stay[s].covered)

-------------------------------------------------------------------------------
(* What comments of the code say and the model refutes (see the README).   *)

\* The exception is real: createPayoutForHost takes no lock between its statements.
StaysAreInOnePayout == \A p, q \in Payout : p # q => payout[p].items \cap payout[q].items = {}
===============================================================================
