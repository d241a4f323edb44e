----------------------------- MODULE PasswordReset -----------------------------
(***************************************************************************)
(* The forgotten password of one member (accounts.repository.ts): a code   *)
(* is mailed, traded for a ticket, and the ticket sets a new password.     *)
(* Codes and tickets are rows of password_reset_token; wrong codes are     *)
(* counted in the memory of the process.  The rate limits of the routes    *)
(* are left out: they only remove behaviours.                              *)
(***************************************************************************)
EXTENDS AccountConstants, Sequences

VARIABLES token,     \* the rows of password_reset_token, in order of creation
          failures,  \* resetFailures
          req,       \* the requests in flight
          history    \* what the rows have seen, for the properties; the faults

vars == <<token, failures, req, history>>

TokenRow == [hash : Code \cup Ticket, used : BOOLEAN, expired : BOOLEAN]

\* row: the row the request read and writes in its next statement.
RequestState ==
    [pc : {"idle", "insert", "exchange", "clear", "count", "burn", "reset"},
     row : 0..MaxTokens]

\* wrong: wrong codes tried in a row while the row was a code that could be
\* used; resets: passwords its ticket set.
RowHistory == [wrong : Nat, resets : Nat]

Idle == [pc |-> "idle", row |-> 0]

Init ==
    /\ token = <<>>
    /\ failures = 0
    /\ req = [r \in Request |-> Idle]
    /\ history = [rows |-> <<>>, faults |-> 0]

-------------------------------------------------------------------------------
Rows == DOMAIN token

At(r, pc) == req[r].pc = pc

Goto(r, pc) == req' = [req EXCEPT ![r].pc = pc]

Finish(r) == req' = [req EXCEPT ![r] = Idle]

\* used_at IS NULL AND expires_at > now().
Usable(i) == ~token[i].used /\ ~token[i].expired

\* Mutation of Retired: nothing is retired.
Retired_None == token

\* Every pending row of the account is marked used.
Retired == [i \in Rows |-> [token[i] EXCEPT !.used = TRUE]]

(***************************************************************************)
(* createPasswordResetCode: the pending rows are retired, then a new one   *)
(* is inserted.  token_hash is unique over all rows, so the INSERT fails   *)
(* on a code the member was once sent and did not trade.                   *)
(***************************************************************************)
RetireCodes(r) ==
    /\ At(r, "idle") /\ Len(token) < MaxTokens
    /\ token' = Retired
    /\ Goto(r, "insert")
    /\ UNCHANGED <<failures, history>>

NewRow(c) == [hash |-> c, used |-> FALSE, expired |-> FALSE]

InsertCode(r) ==
    /\ At(r, "insert") /\ Len(token) < MaxTokens
    /\ \E c \in Code :
         IF \E i \in Rows : token[i].hash = c
         THEN UNCHANGED <<token, history>>
         ELSE /\ token' = Append(token, NewRow(c))
              /\ history' = [history EXCEPT !.rows = Append(@, [wrong |-> 0, resets |-> 0])]
    /\ Finish(r)
    /\ UNCHANGED failures

(***************************************************************************)
(* exchangeResetCodeForTicket.  The subquery of its UPDATE picks the row   *)
(* and is not evaluated again when the row turns out to be locked: another *)
(* statement may come in between.                                          *)
(***************************************************************************)
MatchCode(r) ==
    /\ At(r, "idle")
    /\ \E i \in Rows :
         /\ Usable(i) /\ token[i].hash \in Code
         /\ req' = [req EXCEPT ![r] = [pc |-> "exchange", row |-> i]]
    /\ UNCHANGED <<token, failures, history>>

ExchangeCode(r) ==
    /\ At(r, "exchange")
    /\ \E t \in Ticket :
         /\ \A i \in Rows : token[i].hash # t
         /\ token' = [token EXCEPT ![req[r].row].hash = t, ![req[r].row].expired = FALSE]
    /\ Goto(r, "clear")
    /\ UNCHANGED <<failures, history>>

\* The count of wrong codes in a row starts again.
AFreshCount == [i \in Rows |-> [history.rows[i] EXCEPT !.wrong = 0]]

ClearFailures(r) ==
    /\ At(r, "clear")
    /\ failures' = 0
    /\ history' = [history EXCEPT !.rows = AFreshCount]
    /\ Finish(r)
    /\ UNCHANGED token

\* A wrong code counts in row i while that is a code that can be used.
OneMoreWrong(i) ==
    IF Usable(i) /\ token[i].hash \in Code
    THEN [history.rows[i] EXCEPT !.wrong = @ + 1]
    ELSE history.rows[i]

\* A code no usable row has: the UPDATE writes nothing.
WrongCode(r) ==
    /\ At(r, "idle")
    /\ \E c \in Code : \A i \in Rows : Usable(i) => token[i].hash # c
    /\ history' = [history EXCEPT !.rows = [i \in Rows |-> OneMoreWrong(i)]]
    /\ Goto(r, "count")
    /\ UNCHANGED <<token, failures>>

\* Mutation of CountFailure: the count is dropped but nothing is burned.
CountFailure_NoBurn(r) ==
    /\ At(r, "count")
    /\ failures' = IF failures + 1 >= MaxGuesses THEN 0 ELSE failures + 1
    /\ Finish(r)
    /\ UNCHANGED <<token, history>>

\* Mutation of CountFailure: one guess too many.
CountFailure_Late(r) ==
    /\ At(r, "count")
    /\ IF failures + 1 > MaxGuesses
       THEN failures' = 0 /\ Goto(r, "burn")
       ELSE failures' = failures + 1 /\ Finish(r)
    /\ UNCHANGED <<token, history>>

CountFailure(r) ==
    /\ At(r, "count")
    /\ IF failures + 1 >= MaxGuesses
       THEN failures' = 0 /\ Goto(r, "burn")
       ELSE failures' = failures + 1 /\ Finish(r)
    /\ UNCHANGED <<token, history>>

BurnCodes(r) ==
    /\ At(r, "burn")
    /\ token' = Retired
    /\ Finish(r)
    /\ UNCHANGED <<failures, history>>

(***************************************************************************)
(* resetPasswordWithToken: a SELECT, then a transaction that sets the      *)
(* password and marks the row, whatever has become of it.                  *)
(***************************************************************************)
FindTicket(r) ==
    /\ At(r, "idle")
    /\ \E i \in Rows :
         /\ Usable(i) /\ token[i].hash \in Ticket
         /\ req' = [req EXCEPT ![r] = [pc |-> "reset", row |-> i]]
    /\ UNCHANGED <<token, failures, history>>

\* Mutation of ResetPassword: the ticket is not consumed.
ResetPassword_Keeps(r) ==
    /\ At(r, "reset")
    /\ history' = [history EXCEPT !.rows[req[r].row].resets = @ + 1]
    /\ Finish(r)
    /\ UNCHANGED <<token, failures>>

ResetPassword(r) ==
    /\ At(r, "reset")
    /\ token' = [token EXCEPT ![req[r].row].used = TRUE]
    /\ history' = [history EXCEPT !.rows[req[r].row].resets = @ + 1]
    /\ Finish(r)
    /\ UNCHANGED failures

\* Fifteen minutes pass.
Expire(i) ==
    /\ ~token[i].expired
    /\ token' = [token EXCEPT ![i].expired = TRUE]
    /\ UNCHANGED <<failures, req, history>>

\* A request ends between two statements: the database does not answer.  A
\* wrong code it had not counted, or not acted on, is forgotten.
LoseRequest(r) ==
    /\ req[r] # Idle /\ history.faults < MaxFaults
    /\ history' = [rows   |-> IF At(r, "count") \/ At(r, "burn") THEN AFreshCount ELSE history.rows,
                   faults |-> history.faults + 1]
    /\ Finish(r)
    /\ UNCHANGED <<token, failures>>

\* The process restarts: its memory and its requests are gone.
Restart ==
    /\ history.faults < MaxFaults
    /\ history' = [rows |-> AFreshCount, faults |-> history.faults + 1]
    /\ failures' = 0
    /\ req' = [r \in Request |-> Idle]
    /\ UNCHANGED token

Step(r) ==
    \/ RetireCodes(r) \/ InsertCode(r)
    \/ MatchCode(r) \/ ExchangeCode(r) \/ ClearFailures(r)
    \/ WrongCode(r) \/ CountFailure(r) \/ BurnCodes(r)
    \/ FindTicket(r) \/ ResetPassword(r)
    \/ LoseRequest(r)

Next ==
    \/ \E r \in Request : Step(r)
    \/ \E i \in Rows : Expire(i)
    \/ Restart

Spec == Init /\ [][Next]_vars

-------------------------------------------------------------------------------
\* Types; a request that writes a row has one.
TypeOK ==
    /\ token \in Seq(TokenRow) /\ Len(token) \in 0..MaxTokens
    /\ failures \in 0..(MaxGuesses - 1)
    /\ req \in [Request -> RequestState]
    /\ \A r \in Request : req[r].pc \in {"exchange", "reset"} => req[r].row \in Rows
    /\ history \in [rows : Seq(RowHistory), faults : 0..MaxFaults]
    /\ Len(history.rows) = Len(token)

\* "Any code still pending for the account is retired first"
\* (createPasswordResetCode): there are never more rows in force than requests
\* that can be issuing one at the same time, so one when they come one by one.
CodesAreRetired ==
    Cardinality({i \in Rows : ~token[i].used}) <= Cardinality(Request)

\* "after 5 wrong codes the active code is burned" (exchangeResetCodeForTicket):
\* a code meets at most MaxGuesses wrong ones in a row for each request the
\* server handles at a time, as long as no fault makes it forget one.
GuessLimit ==
    \A i \in Rows : history.rows[i].wrong <= MaxGuesses * Cardinality(Request)

\* "a single-use ticket": it sets a password once for each request that had
\* found it before it was marked, and never again.
TicketIsSpent ==
    \A i \in Rows : history.rows[i].resets <= Cardinality(Request)
===============================================================================
