----------------------------- MODULE ExchangeRates -----------------------------
(***************************************************************************)
(* The exchange rates (currency.repository.ts, settings.repository.ts):    *)
(* rows of exchange_rate that are refreshed from a provider when they are  *)
(* an hour old, a copy in memory for five minutes, and the queries that    *)
(* read the table on their own (properties.repository.ts,                  *)
(* admin.repository.ts).  A rate is the time at which it was the market's; *)
(* all quotes are fetched and saved together, so one stands for all.       *)
(***************************************************************************)
EXTENDS Integers

CONSTANTS Req,       \* calls of getRates
          MaxAge,    \* MAX_AGE_MS
          Memo,      \* MEMO_MS
          StepTime,  \* a query or the provider answers within this time, or fails
          MaxTime,   \* bound: the clock
          Env,       \* what may fail: subset of {"provider", "dbDown"}
          None

VARIABLES table,     \* exchange_rate, by base currency: None or a row
          memo,      \* None or the answer in memory
          req,       \* calls in flight, each with what it read
          lastFail,  \* when the provider last failed a call, None before (a history variable)
          now

vars == <<table, memo, req, lastFail, now>>

Time   == 0 .. MaxTime
Base   == {"EUR", "USD"}
Row    == [rate : Time, at : Time]
NoRow  == None
Value  == Time \cup {None}      \* None: source 'unavailable', only EUR is quoted

Idle == [pc |-> "idle", force |-> FALSE, row |-> NoRow, value |-> None, since |-> 0]

TypeOK ==
    /\ table \in [Base -> Row \cup {NoRow}]
    /\ memo \in [at : Time, value : Value] \cup {None}
    /\ req \in [Req -> [pc : {"idle", "reading", "deciding", "fetching", "saving", "served"},
                        force : BOOLEAN, row : Row \cup {NoRow}, value : Value, since : Time]]
    /\ lastFail \in Value
    /\ now \in Time

Init ==
    /\ table = [b \in Base |-> NoRow]
    /\ memo = None
    /\ req = [r \in Req |-> Idle]
    /\ lastFail = None
    /\ now = 0

Step(r, new) == req' = [req EXCEPT ![r] = [new EXCEPT !.since = now]]

\* Mutation of Finish: an outage is kept in memory as well.
Finish_KeepsOutage(r, value) ==
    /\ Step(r, [req[r] EXCEPT !.pc = "served", !.value = value])
    /\ memo' = [at |-> now, value |-> value]

\* The answer is kept in memory unless there are no rates at all.
Finish(r, value) ==
    /\ Step(r, [req[r] EXCEPT !.pc = "served", !.value = value])
    /\ memo' = IF value = None THEN None ELSE [at |-> now, value |-> value]

\* Mutation of MemoServes: an answer in memory is good until a refresh.
MemoServes_Forever(force) == ~force /\ memo # None

MemoServes(force) == ~force /\ memo # None /\ now - memo.at < Memo

Ask(r, force) ==
    /\ req[r].pc \in {"idle", "served"}
    /\ Step(r, IF MemoServes(force) THEN [Idle EXCEPT !.pc = "served", !.value = memo.value]
               ELSE [Idle EXCEPT !.pc = "reading", !.force = force])
    /\ UNCHANGED <<table, memo, lastFail, now>>

\* listExchangeRates: the rows under the base USD.
ReadRows(r) ==
    /\ req[r].pc = "reading"
    /\ Step(r, [req[r] EXCEPT !.pc = "deciding", !.row = table["USD"]])
    /\ UNCHANGED <<table, memo, lastFail, now>>

Fresh(row) == row # NoRow /\ now - row.at <= MaxAge

StoredRate(row) == IF row = NoRow THEN None ELSE row.rate

Decide(r) ==
    LET row == req[r].row IN
    /\ req[r].pc = "deciding"
    /\ \/ /\ req[r].force \/ ~Fresh(row)
          /\ Step(r, [req[r] EXCEPT !.pc = "fetching"])
          /\ UNCHANGED memo
       \/ ~req[r].force /\ Fresh(row) /\ Finish(r, row.rate)
    /\ UNCHANGED <<table, lastFail, now>>

ProviderAnswers(r) ==
    /\ req[r].pc = "fetching"
    /\ Step(r, [req[r] EXCEPT !.pc = "saving", !.value = now])
    /\ UNCHANGED <<table, memo, lastFail, now>>

\* An error status, an unexpected payload or the timeout: the last known rates.
ProviderFails(r) ==
    /\ "provider" \in Env /\ req[r].pc = "fetching"
    /\ Finish(r, StoredRate(req[r].row))
    /\ lastFail' = now
    /\ UNCHANGED <<table, now>>

\* saveExchangeRates: the rates of the provider, saved under the base USD.
SaveRates(r) ==
    /\ req[r].pc = "saving"
    /\ table' = [table EXCEPT !["USD"] = [rate |-> req[r].value, at |-> now]]
    /\ Finish(r, req[r].value)
    /\ UNCHANGED <<lastFail, now>>

\* A query fails: the call ends with an error, memory is left as it is.
QueryFails(r) ==
    /\ "dbDown" \in Env /\ req[r].pc \in {"reading", "saving"}
    /\ req' = [req EXCEPT ![r] = Idle]
    /\ UNCHANGED <<table, memo, lastFail, now>>

Tick ==
    /\ now < MaxTime
    /\ \A r \in Req : req[r].pc \in {"idle", "served"} \/ now - req[r].since < StepTime
    /\ now' = now + 1
    /\ UNCHANGED <<table, memo, req, lastFail>>

Next ==
    \/ \E r \in Req : \/ \E force \in BOOLEAN : Ask(r, force)
                      \/ ReadRows(r) \/ Decide(r) \/ ProviderAnswers(r) \/ ProviderFails(r)
                      \/ SaveRates(r) \/ QueryFails(r)
    \/ Tick

Spec == Init /\ [][Next]_vars

-------------------------------------------------------------------------------
(* What the queries of the search and of the overview divide a price by    *)
SearchRate == IF table["EUR"] = NoRow THEN 1 ELSE table["EUR"].rate

-------------------------------------------------------------------------------
(* Properties                                                              *)

OverAge(value, at) == at - value > MaxAge + Memo + StepTime

(***************************************************************************)
(* A rate that is older than the refresh age, the time in memory and one   *)
(* answer time is only served on account of a provider that failed within  *)
(* the memory's time: getRates and loadRates, with calls that overtake one *)
(* another.                                                                *)
(***************************************************************************)
OldRatesAreExcused ==
    \A r \in Req : req[r].pc = "served" /\ req[r].value # None =>
        \/ ~OverAge(req[r].value, req[r].since)
        \/ lastFail # None /\ lastFail >= req[r].since - Memo

(***************************************************************************)
(* "Only EUR is quoted" is said only while the table the call read was     *)
(* empty and the provider failed; an outage is not kept in memory, so the  *)
(* first call after it gets rates (currency.repository.ts: memo).          *)
(***************************************************************************)
OutageIsNotKept ==
    \A r \in Req : req[r].pc = "served" /\ req[r].value = None =>
        lastFail # None /\ req[r].since <= lastFail
===============================================================================
