----------------------------- MODULE AccountsProofs -----------------------------
(***************************************************************************)
(* Theorems about the accounts.  First those of Spec, the recovery codes   *)
(* (PasswordReset), for any requests, codes, tickets, guesses and faults.  *)
(* Then those of SumSpec, the stores that MCAccounts puts together, for    *)
(* any number of requests, members, tickets and instances, whatever        *)
(* secrets and links there are and however long the windows of the limiter:*)
(* an inductive invariant of each part, then of their sum.                 *)
(***************************************************************************)
EXTENDS MCAccounts, FiniteSetTheorems, SequenceTheorems, TLAPS

-------------------------------------------------------------------------------
(* Rows and requests.                                                      *)

\* The assumption on the constants, taken apart.
LEMMA ResetFacts ==
    /\ IsFiniteSet(Request)
    /\ MaxGuesses \in Nat /\ MaxGuesses > 0 /\ MaxTokens \in Nat /\ MaxFaults \in Nat
    /\ Code # {} /\ Code \cap Ticket = {}
  BY AccountAssumption

\* A function over the positions of a sequence is a sequence as long.
LEMMA OverPositions ==
    ASSUME NEW S, NEW T, NEW s \in Seq(S), NEW f \in [DOMAIN s -> T]
    PROVE  f \in Seq(T) /\ Len(f) = Len(s) /\ DOMAIN f = DOMAIN s
  <1>1. DOMAIN s = 1..Len(s) /\ Len(s) \in Nat
    BY LenProperties
  <1>2. f \in Seq(T)
    BY <1>1, IsASeq, SeqDef
  <1> QED BY <1>1, <1>2, LenProperties

\* What TypeOK says of one position.
LEMMA RowsAre ==
    ASSUME TypeOK
    PROVE  /\ Rows = 1..Len(token) /\ Len(token) \in Nat
           /\ Rows = DOMAIN history.rows
           /\ token \in [Rows -> TokenRow]
           /\ history.rows \in [Rows -> RowHistory]
  <1>1. history.rows \in Seq(RowHistory) /\ Len(history.rows) = Len(token)
    BY DEF TypeOK
  <1>2. token \in Seq(TokenRow)
    BY DEF TypeOK
  <1> QED BY <1>1, <1>2, LenProperties DEF Rows

\* Marking a row leaves the rest of it alone.
LEMMA MarkUsed ==
    ASSUME NEW row \in TokenRow
    PROVE  /\ [row EXCEPT !.used = TRUE] \in TokenRow
           /\ [row EXCEPT !.used = TRUE].used
           /\ [row EXCEPT !.used = TRUE].hash = row.hash
  BY DEF TokenRow

\* The retired rows are the rows, all used.
LEMMA RetiredRows ==
    ASSUME TypeOK
    PROVE  /\ Retired \in Seq(TokenRow) /\ Len(Retired) = Len(token) /\ DOMAIN Retired = Rows
           /\ \A i \in Rows : Retired[i].used
  <1>1. Retired \in [Rows -> TokenRow]
    BY RowsAre, MarkUsed DEF Retired
  <1>2. token \in Seq(TokenRow)
    BY DEF TypeOK
  <1>3. Retired \in Seq(TokenRow) /\ Len(Retired) = Len(token) /\ DOMAIN Retired = Rows
    BY <1>1, <1>2, OverPositions DEF Rows
  <1>4. \A i \in Rows : Retired[i].used
    BY RowsAre, MarkUsed DEF Retired
  <1> QED BY <1>3, <1>4

\* A count that starts again is still a history of the rows.
LEMMA FreshRows ==
    ASSUME TypeOK
    PROVE  /\ AFreshCount \in Seq(RowHistory) /\ Len(AFreshCount) = Len(token)
           /\ DOMAIN AFreshCount = Rows
           /\ \A i \in Rows : AFreshCount[i].wrong = 0 /\ AFreshCount[i].resets = history.rows[i].resets
  <1>1. AFreshCount \in [Rows -> RowHistory]
    BY RowsAre DEF AFreshCount, RowHistory
  <1>2. token \in Seq(TokenRow)
    BY DEF TypeOK
  <1>3. AFreshCount \in Seq(RowHistory) /\ Len(AFreshCount) = Len(token) /\ DOMAIN AFreshCount = Rows
    BY <1>1, <1>2, OverPositions DEF Rows
  <1>4. \A i \in Rows : AFreshCount[i].wrong = 0 /\ AFreshCount[i].resets = history.rows[i].resets
    BY RowsAre DEF AFreshCount, RowHistory
  <1> QED BY <1>3, <1>4

\* An idle request fits anywhere.
LEMMA IdleOK == Idle \in RequestState /\ Idle.pc = "idle"
  BY ResetFacts DEF Idle, RequestState

\* What a request's step does to the requests.
LEMMA GotoMoves ==
    ASSUME TypeOK, NEW r \in Request, NEW pc \in {"insert", "clear", "count", "burn"}, Goto(r, pc)
    PROVE  /\ req' \in [Request -> RequestState]
           /\ req'[r].pc = pc
           /\ \A o \in Request \ {r} : req'[o] = req[o]
  BY DEF Goto, TypeOK, RequestState

\* A request that is done is idle.
LEMMA FinishMoves ==
    ASSUME TypeOK, NEW r \in Request, Finish(r)
    PROVE  /\ req' \in [Request -> RequestState]
           /\ req'[r].pc = "idle"
           /\ \A o \in Request \ {r} : req'[o] = req[o]
  BY IdleOK DEF Finish, TypeOK

\* A request takes up a row to write it in its next statement.
LEMMA TakeMoves ==
    ASSUME TypeOK, NEW r \in Request, NEW pc \in {"exchange", "reset"}, NEW i \in Rows,
           req' = [req EXCEPT ![r] = [pc |-> pc, row |-> i]]
    PROVE  /\ req' \in [Request -> RequestState]
           /\ req'[r].pc = pc /\ req'[r].row = i
           /\ \A o \in Request \ {r} : req'[o] = req[o]
  <1>1. i \in 0..MaxTokens
    BY RowsAre, ResetFacts DEF TypeOK
  <1> QED BY <1>1 DEF TypeOK, RequestState

-------------------------------------------------------------------------------
(* Types.                                                                  *)

\* The table starts empty.
LEMMA TypeInit == Init => TypeOK
  <1> SUFFICES ASSUME Init PROVE TypeOK
    OBVIOUS
  <1>1. token \in Seq(TokenRow) /\ history.rows \in Seq(RowHistory) /\ Len(token) = 0 /\ Len(history.rows) = 0
    BY EmptySeq DEF Init
  <1> QED BY <1>1, IdleOK, ResetFacts DEF Init, TypeOK

\* A step of a request that keeps the number of rows.
LEMMA SameRowsTyped ==
    ASSUME TypeOK, NEW r \in Request,
           token' \in Seq(TokenRow), Len(token') = Len(token),
           failures' \in 0..(MaxGuesses - 1),
           req' \in [Request -> RequestState],
           req'[r].pc \in {"exchange", "reset"} => req'[r].row \in Rows,
           \A o \in Request \ {r} : req'[o] = req[o],
           history' \in [rows : Seq(RowHistory), faults : 0..MaxFaults],
           Len(history'.rows) = Len(token)
    PROVE  TypeOK'
  <1>1. Rows' = Rows
    BY LenProperties, RowsAre DEF Rows
  <1> QED BY <1>1 DEF TypeOK

\* Retiring keeps the types.
LEMMA RetireCodesTyped == ASSUME TypeOK, NEW r \in Request, RetireCodes(r) PROVE TypeOK'
  <1>1. /\ token' = Retired /\ Goto(r, "insert") /\ UNCHANGED <<failures, history>>
    BY DEF RetireCodes
  <1> QED BY <1>1, RetiredRows, GotoMoves, SameRowsTyped DEF TypeOK

\* A new row and a new history of it.
LEMMA NewRows ==
    ASSUME TypeOK, NEW c \in Code
    PROVE  /\ Append(token, NewRow(c)) \in Seq(TokenRow)
           /\ Len(Append(token, NewRow(c))) = Len(token) + 1
           /\ DOMAIN Append(token, NewRow(c)) = Rows \cup {Len(token) + 1}
           /\ \A i \in Rows : Append(token, NewRow(c))[i] = token[i]
           /\ Append(token, NewRow(c))[Len(token) + 1] = NewRow(c)
           /\ Append(history.rows, [wrong |-> 0, resets |-> 0]) \in Seq(RowHistory)
           /\ Len(Append(history.rows, [wrong |-> 0, resets |-> 0])) = Len(token) + 1
           /\ \A i \in Rows : Append(history.rows, [wrong |-> 0, resets |-> 0])[i] = history.rows[i]
           /\ Append(history.rows, [wrong |-> 0, resets |-> 0])[Len(token) + 1]
                = [wrong |-> 0, resets |-> 0]
  <1>1. token \in Seq(TokenRow) /\ history.rows \in Seq(RowHistory) /\ Len(history.rows) = Len(token)
    BY DEF TypeOK
  <1>2. NewRow(c) \in TokenRow /\ [wrong |-> 0, resets |-> 0] \in RowHistory
    BY DEF NewRow, TokenRow, RowHistory
  <1>3. /\ Append(token, NewRow(c)) \in Seq(TokenRow)
        /\ Len(Append(token, NewRow(c))) = Len(token) + 1
        /\ \A i \in 1..Len(token) : Append(token, NewRow(c))[i] = token[i]
        /\ Append(token, NewRow(c))[Len(token) + 1] = NewRow(c)
    BY <1>1, <1>2, AppendProperties
  <1> DEFINE h == [wrong |-> 0, resets |-> 0]
  <1> HIDE DEF h
  <1>4. /\ Append(history.rows, h) \in Seq(RowHistory)
        /\ Len(Append(history.rows, h)) = Len(token) + 1
        /\ \A i \in 1..Len(token) : Append(history.rows, h)[i] = history.rows[i]
        /\ Append(history.rows, h)[Len(token) + 1] = h
    BY <1>1, <1>2, AppendProperties DEF h
  <1>5. DOMAIN Append(token, NewRow(c)) = Rows \cup {Len(token) + 1}
    BY <1>3, RowsAre, LenProperties
  <1> QED BY <1>3, <1>4, <1>5, RowsAre DEF h

\* An insertion keeps the types: there was room for the row.
LEMMA InsertCodeTyped == ASSUME TypeOK, NEW r \in Request, InsertCode(r) PROVE TypeOK'
  <1>1. Finish(r) /\ UNCHANGED failures /\ Len(token) < MaxTokens
    BY DEF InsertCode
  <1>2. CASE UNCHANGED <<token, history>>
    BY <1>1, <1>2, FinishMoves, SameRowsTyped DEF TypeOK
  <1>3. ASSUME NEW c \in Code, token' = Append(token, NewRow(c)),
               history' = [history EXCEPT !.rows = Append(@, [wrong |-> 0, resets |-> 0])]
        PROVE  TypeOK'
    <2>1. /\ token' \in Seq(TokenRow) /\ Len(token') = Len(token) + 1 /\ Rows \subseteq Rows'
      BY <1>3, NewRows DEF Rows
    <2>2. /\ history' \in [rows : Seq(RowHistory), faults : 0..MaxFaults]
          /\ Len(history'.rows) = Len(token) + 1
      BY <1>3, NewRows DEF TypeOK
    <2>3. Len(token') \in 0..MaxTokens
      BY <1>1, <2>1, RowsAre, ResetFacts DEF TypeOK
    <2> QED BY <1>1, <2>1, <2>2, <2>3, FinishMoves DEF TypeOK
  <1> QED BY <1>2, <1>3 DEF InsertCode

\* A request takes up a row that exists.
LEMMA TakeTyped ==
    ASSUME TypeOK, NEW r \in Request, MatchCode(r) \/ FindTicket(r) PROVE TypeOK'
  <1>1. PICK i \in Rows, pc \in {"exchange", "reset"} :
          req' = [req EXCEPT ![r] = [pc |-> pc, row |-> i]]
    BY DEF MatchCode, FindTicket
  <1>2. UNCHANGED <<token, failures, history>>
    BY DEF MatchCode, FindTicket
  <1> QED BY <1>1, <1>2, TakeMoves, SameRowsTyped DEF TypeOK

\* A row that becomes a ticket.
LEMMA TicketRow ==
    ASSUME NEW row \in TokenRow, NEW t \in Ticket
    PROVE  /\ [row EXCEPT !.hash = t, !.expired = FALSE] \in TokenRow
           /\ [row EXCEPT !.hash = t, !.expired = FALSE].used = row.used
  BY DEF TokenRow

\* An exchanged row is used if it was.
LEMMA ExchangeCodeRows ==
    ASSUME TypeOK, NEW r \in Request, ExchangeCode(r)
    PROVE  /\ token' \in Seq(TokenRow) /\ Len(token') = Len(token) /\ DOMAIN token' = Rows
           /\ \A i \in Rows : token'[i].used = token[i].used
  <1> DEFINE k == req[r].row
             old == token[k]
  <1>1. k \in Rows /\ old \in TokenRow
    BY RowsAre DEF ExchangeCode, At, TypeOK
  <1>2. PICK t \in Ticket : token' = [token EXCEPT ![k] = [old EXCEPT !.hash = t, !.expired = FALSE]]
    BY DEF ExchangeCode
  <1> DEFINE row == [old EXCEPT !.hash = t, !.expired = FALSE]
  <1>3. row \in TokenRow /\ row.used = old.used
    BY <1>1, TicketRow
  <1>4. token' = [token EXCEPT ![k] = row]
    BY <1>2
  <1> HIDE DEF row, k
  <1>5. token' \in [Rows -> TokenRow] /\ \A i \in Rows : token'[i].used = token[i].used
    BY <1>1, <1>3, <1>4, RowsAre
  <1>6. token \in Seq(TokenRow) /\ token' \in [DOMAIN token -> TokenRow]
    BY <1>5 DEF TypeOK, Rows
  <1>7. token' \in Seq(TokenRow) /\ Len(token') = Len(token) /\ DOMAIN token' = DOMAIN token
    BY <1>6, OverPositions
  <1> QED BY <1>5, <1>7 DEF Rows

\* An exchange keeps the types.
LEMMA ExchangeCodeTyped == ASSUME TypeOK, NEW r \in Request, ExchangeCode(r) PROVE TypeOK'
  <1>1. Goto(r, "clear") /\ UNCHANGED <<failures, history>>
    BY DEF ExchangeCode
  <1> QED BY <1>1, ExchangeCodeRows, GotoMoves, SameRowsTyped DEF TypeOK

\* A fresh count keeps the types.
LEMMA ClearFailuresTyped == ASSUME TypeOK, NEW r \in Request, ClearFailures(r) PROVE TypeOK'
  <1>1. /\ failures' = 0 /\ history' = [history EXCEPT !.rows = AFreshCount]
        /\ Finish(r) /\ UNCHANGED token
    BY DEF ClearFailures
  <1> QED BY <1>1, FreshRows, FinishMoves, SameRowsTyped, ResetFacts DEF TypeOK

\* A count that is not full stays below the limit.
LEMMA CountFailureTyped == ASSUME TypeOK, NEW r \in Request, CountFailure(r) PROVE TypeOK'
  <1>1. failures' \in 0..(MaxGuesses - 1) /\ UNCHANGED <<token, history>>
    BY ResetFacts DEF CountFailure, TypeOK
  <1>2. Goto(r, "burn") \/ Finish(r)
    BY DEF CountFailure
  <1> QED BY <1>1, <1>2, GotoMoves, FinishMoves, SameRowsTyped DEF TypeOK

\* Burning keeps the types.
LEMMA BurnCodesTyped == ASSUME TypeOK, NEW r \in Request, BurnCodes(r) PROVE TypeOK'
  <1>1. token' = Retired /\ Finish(r) /\ UNCHANGED <<failures, history>>
    BY DEF BurnCodes
  <1> QED BY <1>1, RetiredRows, FinishMoves, SameRowsTyped DEF TypeOK

\* A lost request leaves the bound of faults.
LEMMA LoseRequestTyped == ASSUME TypeOK, NEW r \in Request, LoseRequest(r) PROVE TypeOK'
  <1>1. /\ Finish(r) /\ UNCHANGED <<token, failures>> /\ history.faults < MaxFaults
        /\ history'.rows = AFreshCount \/ history'.rows = history.rows
        /\ history' = [rows |-> history'.rows, faults |-> history.faults + 1]
    BY DEF LoseRequest
  <1>2. history.faults + 1 \in 0..MaxFaults
    BY <1>1, ResetFacts DEF TypeOK
  <1>3. history' \in [rows : Seq(RowHistory), faults : 0..MaxFaults] /\ Len(history'.rows) = Len(token)
    BY <1>1, <1>2, FreshRows DEF TypeOK
  <1> QED BY <1>1, <1>3, FinishMoves, SameRowsTyped DEF TypeOK

\* After a restart every request is idle.
LEMMA RestartTyped == ASSUME TypeOK, Restart PROVE TypeOK'
  <1>1. /\ history' = [rows |-> AFreshCount, faults |-> history.faults + 1]
        /\ history.faults < MaxFaults /\ failures' = 0
        /\ req' = [r \in Request |-> Idle] /\ UNCHANGED token
    BY DEF Restart
  <1>2. history.faults + 1 \in 0..MaxFaults
    BY <1>1, ResetFacts DEF TypeOK
  <1>3. history' \in [rows : Seq(RowHistory), faults : 0..MaxFaults] /\ Len(history'.rows) = Len(token)
    BY <1>1, <1>2, FreshRows DEF TypeOK
  <1> QED BY <1>1, <1>3, IdleOK, ResetFacts DEF TypeOK

\* A wrong code is counted in the codes that can be used, once.
LEMMA WrongCodeRows ==
    ASSUME TypeOK, NEW r \in Request, WrongCode(r)
    PROVE  /\ history' \in [rows : Seq(RowHistory), faults : 0..MaxFaults]
           /\ Len(history'.rows) = Len(token)
           /\ \A i \in Rows :
                /\ history'.rows[i].resets = history.rows[i].resets
                /\ \/ history'.rows[i].wrong = history.rows[i].wrong
                   \/ ~token[i].used /\ history'.rows[i].wrong = history.rows[i].wrong + 1
  <1> DEFINE rows == [i \in Rows |-> OneMoreWrong(i)]
  <1>1. history' = [history EXCEPT !.rows = rows]
    BY DEF WrongCode
  <1>2. \A i \in Rows :
          /\ OneMoreWrong(i) \in RowHistory
          /\ OneMoreWrong(i).resets = history.rows[i].resets
          /\ \/ OneMoreWrong(i).wrong = history.rows[i].wrong
             \/ ~token[i].used /\ OneMoreWrong(i).wrong = history.rows[i].wrong + 1
    BY RowsAre DEF RowHistory, OneMoreWrong, Usable
  <1>3. rows \in [Rows -> RowHistory] /\ \A i \in Rows : rows[i] = OneMoreWrong(i)
    BY <1>2
  <1> HIDE DEF rows
  <1>4. rows \in Seq(RowHistory) /\ Len(rows) = Len(token)
    <2>1. token \in Seq(TokenRow) /\ rows \in [DOMAIN token -> RowHistory]
      BY <1>3 DEF TypeOK, Rows
    <2> QED BY <2>1, OverPositions
  <1> QED BY <1>1, <1>2, <1>3, <1>4 DEF TypeOK

\* A wrong code keeps the types.
LEMMA WrongCodeTyped == ASSUME TypeOK, NEW r \in Request, WrongCode(r) PROVE TypeOK'
  <1>1. Goto(r, "count") /\ UNCHANGED <<token, failures>>
    BY DEF WrongCode
  <1> QED BY <1>1, WrongCodeRows, GotoMoves, SameRowsTyped DEF TypeOK

\* One row is marked and its password counted.
LEMMA ResetPasswordRows ==
    ASSUME TypeOK, NEW r \in Request, ResetPassword(r)
    PROVE  /\ req[r].row \in Rows
           /\ token' \in Seq(TokenRow) /\ Len(token') = Len(token)
           /\ token'[req[r].row].used
           /\ \A i \in Rows \ {req[r].row} : token'[i] = token[i]
           /\ history' \in [rows : Seq(RowHistory), faults : 0..MaxFaults]
           /\ Len(history'.rows) = Len(token)
           /\ history'.rows[req[r].row].resets = history.rows[req[r].row].resets + 1
           /\ \A i \in Rows \ {req[r].row} : history'.rows[i].resets = history.rows[i].resets
           /\ \A i \in Rows : history'.rows[i].wrong = history.rows[i].wrong
  <1> DEFINE k == req[r].row
             row == [token[k] EXCEPT !.used = TRUE]
             past == [history.rows[k] EXCEPT !.resets = @ + 1]
  <1>1. k \in Rows
    BY DEF ResetPassword, At, TypeOK
  <1>2. row \in TokenRow /\ row.used
    BY <1>1, RowsAre, MarkUsed
  <1>3. /\ past \in RowHistory /\ past.resets = history.rows[k].resets + 1
        /\ past.wrong = history.rows[k].wrong
    BY <1>1, RowsAre DEF RowHistory
  <1>4. token' = [token EXCEPT ![k] = row]
        /\ history' = [history EXCEPT !.rows = [history.rows EXCEPT ![k] = past]]
    BY DEF ResetPassword
  <1> HIDE DEF row, past, k
  <1>5. token' \in [Rows -> TokenRow] /\ token'[k] = row /\ \A i \in Rows \ {k} : token'[i] = token[i]
    BY <1>1, <1>2, <1>4, RowsAre
  <1>6. [history.rows EXCEPT ![k] = past] \in [Rows -> RowHistory]
    BY <1>1, <1>3, RowsAre
  <1>7. token' \in Seq(TokenRow) /\ Len(token') = Len(token)
    <2>1. token \in Seq(TokenRow) /\ token' \in [DOMAIN token -> TokenRow]
      BY <1>5 DEF TypeOK, Rows
    <2> QED BY <2>1, OverPositions
  <1>8. [history.rows EXCEPT ![k] = past] \in Seq(RowHistory)
        /\ Len([history.rows EXCEPT ![k] = past]) = Len(token)
    BY <1>6, OverPositions DEF TypeOK, Rows
  <1>9. history' \in [rows : Seq(RowHistory), faults : 0..MaxFaults]
        /\ history'.rows = [history.rows EXCEPT ![k] = past]
    BY <1>4, <1>8 DEF TypeOK
  <1> QED BY <1>1, <1>2, <1>3, <1>5, <1>7, <1>8, <1>9, RowsAre DEF k

\* A reset keeps the types.
LEMMA ResetPasswordTyped == ASSUME TypeOK, NEW r \in Request, ResetPassword(r) PROVE TypeOK'
  <1>1. Finish(r) /\ UNCHANGED failures
    BY DEF ResetPassword
  <1> QED BY <1>1, ResetPasswordRows, FinishMoves, SameRowsTyped DEF TypeOK

\* An expired row is used if it was.
LEMMA ExpireRows ==
    ASSUME TypeOK, NEW k \in Rows, Expire(k)
    PROVE  /\ token' \in Seq(TokenRow) /\ Len(token') = Len(token)
           /\ \A i \in Rows : token'[i].used = token[i].used
  <1> DEFINE old == token[k]
             row == [old EXCEPT !.expired = TRUE]
  <1>1. old \in TokenRow
    BY RowsAre
  <1>2. token' = [token EXCEPT ![k] = row]
    BY DEF Expire
  <1> HIDE DEF old
  <1>3. row \in TokenRow /\ row.used = old.used
    BY <1>1 DEF TokenRow
  <1> HIDE DEF row
  <1>4. token' \in [Rows -> TokenRow] /\ \A i \in Rows : token'[i].used = token[i].used
    BY <1>2, <1>3, RowsAre DEF old
  <1> QED BY <1>4, OverPositions DEF TypeOK, Rows

\* Expiry keeps the types.
LEMMA ExpireTyped == ASSUME TypeOK, NEW i \in Rows, Expire(i) PROVE TypeOK'
  <1>1. UNCHANGED <<failures, req, history>>
    BY DEF Expire
  <1>2. Rows' = Rows
    BY ExpireRows, RowsAre, LenProperties DEF Rows
  <1> QED BY <1>1, <1>2, ExpireRows DEF TypeOK

\* Every step keeps the types.
LEMMA TypeStep == TypeOK /\ [Next]_vars => TypeOK'
  <1> SUFFICES ASSUME TypeOK, [Next]_vars PROVE TypeOK'
    OBVIOUS
  <1>1. CASE UNCHANGED vars
    BY <1>1 DEF vars, TypeOK, Rows
  <1>2. ASSUME NEW r \in Request, Step(r) PROVE TypeOK'
    BY <1>2, RetireCodesTyped, InsertCodeTyped, TakeTyped, ExchangeCodeTyped, ClearFailuresTyped,
       WrongCodeTyped, CountFailureTyped, BurnCodesTyped, ResetPasswordTyped, LoseRequestTyped
       DEF Step
  <1> QED BY <1>1, <1>2, ExpireTyped, RestartTyped DEF Next

\* Every reachable state has its type, and a request that writes a row has one
\* (TypeOK).
THEOREM ResetTyped == Spec => []TypeOK
  BY TypeInit, TypeStep, PTL DEF Spec

-------------------------------------------------------------------------------
(* Counting.                                                               *)

Waiting(pc)  == {r \in Request : req[r].pc = pc}
Resetting(i) == {r \in Request : req[r].pc = "reset" /\ req[r].row = i}
Unused       == {i \in Rows : ~token[i].used}

\* A request enters and leaves the sets of those that wait.
LEMMA WaitingMoves ==
    ASSUME NEW r \in Request, \A o \in Request \ {r} : req'[o] = req[o], NEW pc
    PROVE  /\ req'[r].pc = pc => Waiting(pc)' = Waiting(pc) \cup {r}
           /\ req'[r].pc # pc => Waiting(pc)' = Waiting(pc) \ {r}
           /\ req[r].pc = pc <=> r \in Waiting(pc)
  BY DEF Waiting

\* Some of the requests.
LEMMA SomeRequests ==
    ASSUME NEW S \in SUBSET Request
    PROVE  /\ IsFiniteSet(S) /\ Cardinality(S) \in Nat
           /\ Cardinality(Request) \in Nat /\ Cardinality(S) <= Cardinality(Request)
           /\ Cardinality(S) = Cardinality(Request) => S = Request
           /\ \A r \in S : Cardinality(S \ {r}) = Cardinality(S) - 1
           /\ \A r \in Request \ S : Cardinality(S \cup {r}) = Cardinality(S) + 1
  <1>1. IsFiniteSet(Request)
    BY ResetFacts
  <1>2. /\ IsFiniteSet(S) /\ Cardinality(S) <= Cardinality(Request)
        /\ Cardinality(Request) = Cardinality(S) => S = Request
    BY <1>1, FS_Subset
  <1>3. Cardinality(S) \in Nat /\ Cardinality(Request) \in Nat
    BY <1>1, <1>2, FS_CardinalityType
  <1>4. \A r \in S : Cardinality(S \ {r}) = Cardinality(S) - 1
    BY <1>2, FS_RemoveElement
  <1>5. \A r \in Request \ S : Cardinality(S \cup {r}) = Cardinality(S) + 1
    BY <1>2, FS_AddElement
  <1> QED BY <1>2, <1>3, <1>4, <1>5

\* Where a step leaves its request, and that it leaves the others alone.
LEMMA StepMoves ==
    ASSUME TypeOK, NEW r \in Request, Step(r)
    PROVE  /\ \A o \in Request \ {r} : req'[o] = req[o]
           /\ req'[r].pc = "insert" => RetireCodes(r)
           /\ req'[r].pc = "count" => WrongCode(r)
           /\ req'[r].pc = "burn" => CountFailure(r)
           /\ req'[r].pc = "reset" => FindTicket(r)
  <1>1. CASE RetireCodes(r)
    BY <1>1, GotoMoves DEF RetireCodes
  <1>2. CASE ExchangeCode(r)
    BY <1>2, GotoMoves DEF ExchangeCode
  <1>3. CASE WrongCode(r)
    BY <1>3, GotoMoves DEF WrongCode
  <1>4. CASE CountFailure(r)
    BY <1>4, GotoMoves, FinishMoves DEF CountFailure
  <1>5. CASE MatchCode(r) \/ FindTicket(r)
    BY <1>5, TakeMoves DEF MatchCode, FindTicket
  <1>6. CASE InsertCode(r) \/ ClearFailures(r) \/ BurnCodes(r) \/ ResetPassword(r) \/ LoseRequest(r)
    BY <1>6, FinishMoves DEF InsertCode, ClearFailures, BurnCodes, ResetPassword, LoseRequest
  <1> QED BY <1>1, <1>2, <1>3, <1>4, <1>5, <1>6 DEF Step

\* Only an insertion adds a row, and a used row stays used.
LEMMA UsedStays ==
    ASSUME TypeOK, NEW r \in Request, Step(r), ~InsertCode(r)
    PROVE  Rows' = Rows /\ \A i \in Rows : token[i].used => token'[i].used
  <1>1. CASE UNCHANGED token
    BY <1>1 DEF Rows
  <1>2. CASE token' = Retired
    BY <1>2, RetiredRows DEF Rows
  <1>3. CASE ExchangeCode(r)
    BY <1>3, ExchangeCodeRows DEF Rows
  <1>4. CASE ResetPassword(r)
    BY <1>4, ResetPasswordRows, RowsAre, LenProperties DEF Rows
  <1> QED BY <1>1, <1>2, <1>3, <1>4
      DEF Step, RetireCodes, MatchCode, ClearFailures, WrongCode, CountFailure, BurnCodes,
          FindTicket, LoseRequest

\* An insertion adds at most one row, which is in force.
LEMMA InsertCodeRows ==
    ASSUME TypeOK, NEW r \in Request, InsertCode(r)
    PROVE  \/ UNCHANGED <<token, history>>
           \/ /\ Rows' = Rows \cup {Len(token) + 1} /\ Len(token) + 1 \notin Rows
              /\ \A i \in Rows : token'[i] = token[i] /\ history'.rows[i] = history.rows[i]
              /\ ~token'[Len(token) + 1].used
              /\ history'.rows[Len(token) + 1] = [wrong |-> 0, resets |-> 0]
  <1>1. ASSUME NEW c \in Code, token' = Append(token, NewRow(c)),
               history' = [history EXCEPT !.rows = Append(@, [wrong |-> 0, resets |-> 0])]
        PROVE  /\ Rows' = Rows \cup {Len(token) + 1} /\ Len(token) + 1 \notin Rows
               /\ \A i \in Rows : token'[i] = token[i] /\ history'.rows[i] = history.rows[i]
               /\ ~token'[Len(token) + 1].used
               /\ history'.rows[Len(token) + 1] = [wrong |-> 0, resets |-> 0]
    <2>1. history'.rows = Append(history.rows, [wrong |-> 0, resets |-> 0])
      BY <1>1 DEF TypeOK
    <2>2. ~NewRow(c).used
      BY DEF NewRow
    <2>3. Len(token) + 1 \notin Rows
      BY RowsAre
    <2> QED BY <1>1, <2>1, <2>2, <2>3, NewRows DEF Rows
  <1> QED BY <1>1 DEF InsertCode

-------------------------------------------------------------------------------
(* Codes.                                                                  *)

\* A row in force and a request that will insert one both stand for a request
\* that retired what was there.
CodesInv == Cardinality(Unused) + Cardinality(Waiting("insert")) <= Cardinality(Request)

\* The rows in force are finitely many.
LEMMA UnusedFinite == TypeOK => IsFiniteSet(Unused) /\ Cardinality(Unused) \in Nat
  <1> SUFFICES ASSUME TypeOK PROVE IsFiniteSet(Unused) /\ Cardinality(Unused) \in Nat
    OBVIOUS
  <1>1. IsFiniteSet(Rows)
    BY RowsAre, FS_Interval
  <1>2. IsFiniteSet(Unused)
    BY <1>1, FS_Subset DEF Unused
  <1> QED BY <1>2, FS_CardinalityType

\* Fewer of either keep the bound.
LEMMA FewerCodes ==
    ASSUME TypeOK, CodesInv, Unused' \subseteq Unused, Waiting("insert")' \subseteq Waiting("insert")
    PROVE  CodesInv'
  <1>1. /\ Waiting("insert") \in SUBSET Request
        /\ Waiting("insert")' \in SUBSET Waiting("insert")
    BY DEF Waiting
  <1>2. /\ Cardinality(Waiting("insert")) \in Nat /\ Cardinality(Waiting("insert")') \in Nat
        /\ Cardinality(Waiting("insert")') <= Cardinality(Waiting("insert"))
        /\ Cardinality(Request) \in Nat
    BY <1>1, SomeRequests, FS_Subset
  <1>3. Cardinality(Unused) \in Nat /\ Cardinality(Unused') \in Nat /\ Cardinality(Unused') <= Cardinality(Unused)
    BY UnusedFinite, FS_Subset, FS_CardinalityType
  <1> QED BY <1>2, <1>3 DEF CodesInv

\* After a retirement no row is in force.
LEMMA RetireCodesBound == ASSUME TypeOK, NEW r \in Request, RetireCodes(r) PROVE CodesInv'
  <1>1. Unused' = {}
    BY RetiredRows DEF RetireCodes, Unused, Rows
  <1>2. Waiting("insert")' \in SUBSET Request
    BY DEF Waiting
  <1> QED BY <1>1, <1>2, SomeRequests, FS_EmptySet DEF CodesInv

\* An insertion puts a row in the place of its request.
LEMMA InsertCodeBound ==
    ASSUME TypeOK, CodesInv, NEW r \in Request, InsertCode(r) PROVE CodesInv'
  <1>1. req[r].pc = "insert" /\ req'[r].pc = "idle" /\ \A o \in Request \ {r} : req'[o] = req[o]
    BY FinishMoves DEF InsertCode, At
  <1>2. Waiting("insert")' = Waiting("insert") \ {r} /\ r \in Waiting("insert")
    BY <1>1, WaitingMoves
  <1>3. CASE UNCHANGED <<token, history>>
    <2>1. Unused' = Unused
      BY <1>3 DEF Unused, Rows
    <2> QED BY <1>2, <2>1, FewerCodes
  <1>4. CASE ~UNCHANGED <<token, history>>
    <2>1. Unused' = Unused \cup {Len(token) + 1} /\ Len(token) + 1 \notin Unused
      BY <1>4, InsertCodeRows DEF Unused
    <2>2. Cardinality(Unused') = Cardinality(Unused) + 1 /\ Cardinality(Unused) \in Nat
      BY <2>1, UnusedFinite, FS_AddElement
    <2>3. Waiting("insert") \in SUBSET Request
      BY DEF Waiting
    <2>4. Cardinality(Waiting("insert")') = Cardinality(Waiting("insert")) - 1
          /\ Cardinality(Waiting("insert")) \in Nat
      BY <1>2, <2>3, SomeRequests
    <2> QED BY <2>2, <2>4 DEF CodesInv
  <1> QED BY <1>3, <1>4

\* Every step keeps the bound of the codes.
LEMMA CodesStep == TypeOK /\ CodesInv /\ [Next]_vars => CodesInv'
  <1> SUFFICES ASSUME TypeOK, CodesInv, [Next]_vars PROVE CodesInv'
    OBVIOUS
  <1>1. ASSUME NEW r \in Request, Step(r), ~InsertCode(r), ~RetireCodes(r) PROVE CodesInv'
    <2>1. Unused' \subseteq Unused
      BY <1>1, UsedStays DEF Unused
    <2>2. Waiting("insert")' \subseteq Waiting("insert")
      BY <1>1, StepMoves, WaitingMoves
    <2> QED BY <2>1, <2>2, FewerCodes
  <1>2. ASSUME NEW i \in Rows, Expire(i) PROVE CodesInv'
    <2>1. Unused' \subseteq Unused
      BY <1>2, ExpireRows, RowsAre, LenProperties DEF Unused, Rows
    <2> QED BY <1>2, <2>1, FewerCodes DEF Expire, Waiting
  <1>3. CASE Restart
    <2>1. Unused' = Unused /\ Waiting("insert")' = {}
      BY <1>3, IdleOK DEF Restart, Unused, Rows, Waiting
    <2> QED BY <2>1, FewerCodes
  <1>4. CASE UNCHANGED vars
    BY <1>4, FewerCodes DEF vars, Unused, Rows, Waiting
  <1> QED BY <1>1, <1>2, <1>3, <1>4, RetireCodesBound, InsertCodeBound DEF Next

\* However requests for a code overlap, fail or are lost, and whatever codes and
\* tickets are used, there are never more rows in force than requests at a time
\* (CodesAreRetired).
THEOREM FewCodesInForce == Spec => []CodesAreRetired
  <1>1. Init => CodesInv
    <2> SUFFICES ASSUME Init PROVE CodesInv
      OBVIOUS
    <2>1. Unused = {} /\ Waiting("insert") = {}
      BY IdleOK DEF Init, Unused, Rows, Waiting
    <2>2. Waiting("insert") \in SUBSET Request
      BY DEF Waiting
    <2> QED BY <2>1, <2>2, SomeRequests, FS_EmptySet DEF CodesInv
  <1>2. TypeOK /\ CodesInv => CodesAreRetired
    <2> SUFFICES ASSUME TypeOK, CodesInv PROVE CodesAreRetired
      OBVIOUS
    <2>1. Waiting("insert") \in SUBSET Request
      BY DEF Waiting
    <2> QED BY <2>1, SomeRequests, UnusedFinite DEF CodesInv, CodesAreRetired, Unused
  <1> QED BY <1>1, <1>2, CodesStep, ResetTyped, PTL DEF Spec

-------------------------------------------------------------------------------
(* Tickets.                                                                *)

\* A password a ticket set and a request that is about to set another both stand
\* for a request that found the ticket before it was marked.
TicketInv ==
    \A i \in Rows :
        /\ token[i].used => history.rows[i].resets + Cardinality(Resetting(i)) <= Cardinality(Request)
        /\ ~token[i].used => history.rows[i].resets = 0

\* Steps that set no password, keep what is used used, and send no request to a
\* used row.
LEMMA TicketsKept ==
    ASSUME TypeOK, TicketInv,
           \A i \in Rows' : i \in Rows \/ (~token'[i].used /\ history'.rows[i].resets = 0),
           \A i \in Rows' \cap Rows :
               /\ history'.rows[i].resets = history.rows[i].resets
               /\ token[i].used => token'[i].used /\ Resetting(i)' \subseteq Resetting(i)
    PROVE  TicketInv'
  <1> SUFFICES ASSUME NEW i \in Rows'
               PROVE /\ token'[i].used
                          => history'.rows[i].resets + Cardinality(Resetting(i)') <= Cardinality(Request)
                     /\ ~token'[i].used => history'.rows[i].resets = 0
    BY DEF TicketInv
  <1>1. Resetting(i) \in SUBSET Request /\ Resetting(i)' \in SUBSET Request
    BY DEF Resetting
  <1>2. /\ Cardinality(Request) \in Nat
        /\ IsFiniteSet(Resetting(i)) /\ Cardinality(Resetting(i)) \in Nat
        /\ Cardinality(Resetting(i)') \in Nat
        /\ Cardinality(Resetting(i)') <= Cardinality(Request)
    BY <1>1, SomeRequests
  <1>3. CASE i \notin Rows
    BY <1>3
  <1>4. CASE i \in Rows /\ token[i].used
    <2>1. Cardinality(Resetting(i)') <= Cardinality(Resetting(i))
      BY <1>2, <1>4, FS_Subset
    <2>2. history.rows[i].resets \in Nat
      BY <1>4, RowsAre DEF RowHistory
    <2> QED BY <1>2, <1>4, <2>1, <2>2 DEF TicketInv
  <1>5. CASE i \in Rows /\ ~token[i].used
    BY <1>2, <1>5 DEF TicketInv
  <1> QED BY <1>3, <1>4, <1>5

\* A ticket sets a password: one request less that may.
LEMMA ResetPasswordTickets ==
    ASSUME TypeOK, TicketInv, NEW r \in Request, ResetPassword(r) PROVE TicketInv'
  <1>1. PICK k \in Rows : k = req[r].row
    BY ResetPasswordRows
  <1>2. /\ req[r].pc = "reset" /\ req'[r].pc = "idle" /\ \A o \in Request \ {r} : req'[o] = req[o]
        /\ Rows' = Rows
    BY FinishMoves, ResetPasswordRows, RowsAre, LenProperties DEF ResetPassword, At, Rows
  <1>3. Resetting(k)' = Resetting(k) \ {r} /\ r \in Resetting(k)
    BY <1>1, <1>2 DEF Resetting
  <1>4. \A i \in Rows \ {k} : Resetting(i)' = Resetting(i)
    BY <1>1, <1>2 DEF Resetting
  <1>5. Resetting(k) \in SUBSET Request
    BY DEF Resetting
  <1>6. /\ Cardinality(Resetting(k)') = Cardinality(Resetting(k)) - 1
        /\ Cardinality(Resetting(k)) \in Nat /\ Cardinality(Request) \in Nat
        /\ Cardinality(Resetting(k)) <= Cardinality(Request)
    BY <1>3, <1>5, SomeRequests
  <1>7. history.rows[k].resets \in Nat /\ history'.rows[k].resets = history.rows[k].resets + 1 /\ token'[k].used
    BY <1>1, RowsAre, ResetPasswordRows DEF RowHistory
  <1>8. history'.rows[k].resets + Cardinality(Resetting(k)') <= Cardinality(Request)
    BY <1>6, <1>7 DEF TicketInv
  <1>9. \A i \in Rows \ {k} : token'[i] = token[i] /\ history'.rows[i].resets = history.rows[i].resets
    BY <1>1, ResetPasswordRows
  <1> QED BY <1>2, <1>4, <1>7, <1>8, <1>9 DEF TicketInv

\* What a step does to what the rows have seen.
LEMMA PastKept ==
    ASSUME TypeOK, NEW r \in Request, Step(r), ~InsertCode(r), ~ResetPassword(r)
    PROVE  \A i \in Rows : history'.rows[i].resets = history.rows[i].resets
  <1>1. CASE UNCHANGED history
    BY <1>1
  <1>2. CASE ClearFailures(r) \/ LoseRequest(r)
    <2>1. history'.rows = AFreshCount \/ history'.rows = history.rows
      BY <1>2 DEF ClearFailures, LoseRequest, TypeOK
    <2> QED BY <2>1, FreshRows
  <1>3. CASE WrongCode(r)
    BY <1>3, WrongCodeRows
  <1> QED BY <1>1, <1>2, <1>3
      DEF Step, RetireCodes, MatchCode, ExchangeCode, CountFailure, BurnCodes, FindTicket

\* A request is sent to reset with a row that is not used, and comes from there
\* with any.
LEMMA ResettingMoves ==
    ASSUME TypeOK, NEW r \in Request, Step(r)
    PROVE  \A i \in Rows : token[i].used => Resetting(i)' \subseteq Resetting(i)
  <1>1. CASE FindTicket(r)
    <2>1. PICK k \in Rows : Usable(k) /\ req' = [req EXCEPT ![r] = [pc |-> "reset", row |-> k]]
      BY <1>1 DEF FindTicket
    <2>2. /\ \A o \in Request \ {r} : req'[o] = req[o]
          /\ req'[r].row = k /\ ~token[k].used
      BY <2>1, TakeMoves DEF Usable
    <2> QED BY <2>2 DEF Resetting
  <1>2. CASE ~FindTicket(r)
    BY <1>2, StepMoves DEF Resetting
  <1> QED BY <1>1, <1>2

\* Every step keeps the bound of the tickets.
LEMMA TicketStep == TypeOK /\ TicketInv /\ [Next]_vars => TicketInv'
  <1> SUFFICES ASSUME TypeOK, TicketInv, [Next]_vars PROVE TicketInv'
    OBVIOUS
  <1>1. ASSUME NEW r \in Request, Step(r), ~InsertCode(r), ~ResetPassword(r) PROVE TicketInv'
    BY <1>1, UsedStays, PastKept, ResettingMoves, TicketsKept
  <1>2. ASSUME NEW r \in Request, InsertCode(r) PROVE TicketInv'
    <2>1. \A i \in Rows : token[i].used => Resetting(i)' \subseteq Resetting(i)
      BY <1>2, ResettingMoves DEF Step
    <2>2. CASE UNCHANGED <<token, history>>
      BY <2>1, <2>2, TicketsKept DEF Rows
    <2>3. CASE ~UNCHANGED <<token, history>>
      BY <1>2, <2>1, <2>3, InsertCodeRows, TicketsKept
    <2> QED BY <2>2, <2>3
  <1>3. ASSUME NEW i \in Rows, Expire(i) PROVE TicketInv'
    <2>1. Rows' = Rows /\ UNCHANGED <<req, history>>
      BY <1>3, ExpireRows, RowsAre, LenProperties DEF Rows, Expire
    <2> QED BY <1>3, <2>1, ExpireRows, TicketsKept DEF Resetting
  <1>4. CASE Restart
    <2>1. /\ Rows' = Rows /\ UNCHANGED token
          /\ history'.rows = AFreshCount /\ \A i \in Rows : Resetting(i)' = {}
      BY <1>4, IdleOK DEF Restart, Rows, Resetting
    <2> QED BY <2>1, FreshRows, TicketsKept
  <1>5. CASE UNCHANGED vars
    BY <1>5, TicketsKept DEF vars, Rows, Resetting
  <1> QED BY <1>1, <1>2, <1>3, <1>4, <1>5, ResetPasswordTickets DEF Next

\* A ticket sets at most one password for each request the server handles at a
\* time, whatever faults there are (TicketIsSpent).
THEOREM TicketsAreSpent == Spec => []TicketIsSpent
  <1>1. Init => TicketInv
    BY DEF Init, TicketInv, Rows
  <1>2. TypeOK /\ TicketInv => TicketIsSpent
    <2> SUFFICES ASSUME TypeOK, TicketInv, NEW i \in Rows
                 PROVE  history.rows[i].resets <= Cardinality(Request)
      BY DEF TicketIsSpent
    <2>1. Resetting(i) \in SUBSET Request
      BY DEF Resetting
    <2>2. Cardinality(Resetting(i)) \in Nat /\ Cardinality(Request) \in Nat
      BY <2>1, SomeRequests
    <2>3. history.rows[i].resets \in Nat
      BY RowsAre DEF RowHistory
    <2> QED BY <2>2, <2>3 DEF TicketInv
  <1> QED BY <1>1, <1>2, TicketStep, ResetTyped, PTL DEF Spec

-------------------------------------------------------------------------------
(* Guesses.                                                                *)

\* The wrong codes the process knows of: counted, about to be counted, or in a
\* count that is full and about to burn the codes.
Guesses == failures + Cardinality(Waiting("count")) + MaxGuesses * Cardinality(Waiting("burn"))

\* A code in force met no more than those; when every request is about to burn,
\* the last of them emptied the count.
GuessInv ==
    /\ \A i \in Rows :
         /\ history.rows[i].wrong <= MaxGuesses * Cardinality(Request)
         /\ ~token[i].used => history.rows[i].wrong <= Guesses
    /\ Waiting("burn") = Request => failures = 0

\* m full counts cost m, and one that is not full costs less.
LEMMA GuessArithmetic ==
    ASSUME NEW m \in Nat, m > 0, NEW n \in Nat, NEW c \in Nat, NEW b \in Nat,
           NEW f \in 0..(m - 1), c + b <= n, b = n => f = 0
    PROVE  f + c + m * b \in Nat /\ f + c + m * b <= m * n
  <1>1. m * b \in Nat /\ m * n \in Nat
    OBVIOUS
  <1>2. CASE b = n
    BY <1>1, <1>2
  <1>3. CASE b < n
    <2>1. PICK d \in Nat : n = b + 1 + d
      <3>1. n - b - 1 \in Nat
        BY <1>3
      <3> QED BY <3>1
    <2>2. m * n = m * b + m + m * d
      BY <2>1
    <2>3. d <= m * d
      <3>1. PICK k \in Nat : m = 1 + k
        <4>1. m - 1 \in Nat
          OBVIOUS
        <4> QED BY <4>1
      <3>2. m * d = d + k * d /\ k * d \in Nat
        BY <3>1
      <3> QED BY <3>2
    <2>4. m * d \in Nat
      OBVIOUS
    <2>5. c <= 1 + d /\ f <= m - 1
      BY <2>1
    <2> QED BY <1>1, <2>2, <2>3, <2>4, <2>5
  <1> QED BY <1>2, <1>3

\* What may be pending never exceeds the bound.
LEMMA GuessBound ==
    ASSUME NEW f \in 0..(MaxGuesses - 1), NEW S \in SUBSET Request, NEW T \in SUBSET Request,
           S \cap T = {}, T = Request => f = 0
    PROVE  /\ f + Cardinality(S) + MaxGuesses * Cardinality(T) \in Nat
           /\ f + Cardinality(S) + MaxGuesses * Cardinality(T) <= MaxGuesses * Cardinality(Request)
           /\ MaxGuesses * Cardinality(Request) \in Nat
  <1>1. /\ IsFiniteSet(S) /\ IsFiniteSet(T) /\ Cardinality(S) \in Nat /\ Cardinality(T) \in Nat
        /\ Cardinality(Request) \in Nat
        /\ Cardinality(T) = Cardinality(Request) => T = Request
    BY SomeRequests
  <1>2. Cardinality(S \cup T) <= Cardinality(Request) /\ Cardinality(S \cup T) \in Nat
    <2>1. S \cup T \in SUBSET Request
      OBVIOUS
    <2> QED BY <2>1, SomeRequests
  <1>3. Cardinality(S \cup T) = Cardinality(S) + Cardinality(T) - Cardinality(S \cap T)
    BY <1>1, FS_Union
  <1>4. Cardinality(S) + Cardinality(T) <= Cardinality(Request)
    <2>1. Cardinality(S \cap T) = 0
      BY FS_EmptySet
    <2> QED BY <1>1, <1>2, <1>3, <2>1
  <1>5. MaxGuesses \in Nat /\ MaxGuesses > 0
    BY ResetFacts
  <1>6. MaxGuesses * Cardinality(Request) \in Nat
    BY <1>1, <1>5
  <1> QED BY <1>1, <1>4, <1>5, <1>6, GuessArithmetic

\* The bound in the current state.
LEMMA GuessesBounded ==
    ASSUME TypeOK, Waiting("burn") = Request => failures = 0
    PROVE  /\ Guesses \in Nat /\ Guesses <= MaxGuesses * Cardinality(Request)
           /\ MaxGuesses * Cardinality(Request) \in Nat
  <1>1. /\ Waiting("count") \in SUBSET Request /\ Waiting("burn") \in SUBSET Request
        /\ Waiting("count") \cap Waiting("burn") = {}
    BY DEF Waiting
  <1>2. failures \in 0..(MaxGuesses - 1)
    BY DEF TypeOK
  <1> QED BY <1>1, <1>2, GuessBound DEF Guesses

\* Steps after which a code in force met no more wrong ones, and the process
\* knows of no fewer.
LEMMA GuessesKept ==
    ASSUME TypeOK, TypeOK', GuessInv,
           Waiting("burn")' = Request => failures' = 0,
           \A i \in Rows' : i \in Rows \/ history'.rows[i].wrong = 0,
           \A i \in Rows' \cap Rows :
               \/ history'.rows[i].wrong = 0
               \/ /\ history'.rows[i].wrong = history.rows[i].wrong
                  /\ token[i].used => token'[i].used
                  /\ token'[i].used \/ Guesses <= Guesses'
    PROVE  GuessInv'
  <1>1. /\ Guesses' \in Nat /\ Guesses \in Nat
        /\ MaxGuesses * Cardinality(Request) \in Nat
    <2>1. Guesses \in Nat /\ MaxGuesses * Cardinality(Request) \in Nat
      BY GuessesBounded DEF GuessInv
    <2>2. /\ Waiting("count")' \in SUBSET Request /\ Waiting("burn")' \in SUBSET Request
          /\ Waiting("count")' \cap Waiting("burn")' = {}
      BY DEF Waiting
    <2>3. failures' \in 0..(MaxGuesses - 1)
      BY DEF TypeOK
    <2> QED BY <2>1, <2>2, <2>3, GuessBound DEF Guesses
  <1>2. ASSUME NEW i \in Rows'
        PROVE  /\ history'.rows[i].wrong <= MaxGuesses * Cardinality(Request)
               /\ ~token'[i].used => history'.rows[i].wrong <= Guesses'
    <2>1. CASE history'.rows[i].wrong = 0
      BY <1>1, <2>1
    <2>2. CASE history'.rows[i].wrong # 0
      <3>1. i \in Rows /\ history.rows[i].wrong \in Nat
        BY <1>2, <2>2, RowsAre DEF RowHistory
      <3> QED BY <1>1, <1>2, <2>2, <3>1 DEF GuessInv
    <2> QED BY <2>1, <2>2
  <1> QED BY <1>2 DEF GuessInv

\* A wrong code is about to be counted: the bound leaves room for it, since its
\* request is not burning.
LEMMA WrongCodeGuess ==
    ASSUME TypeOK, TypeOK', GuessInv, NEW r \in Request, WrongCode(r) PROVE GuessInv'
  <1>1. /\ req[r].pc = "idle" /\ req'[r].pc = "count" /\ \A o \in Request \ {r} : req'[o] = req[o]
        /\ UNCHANGED <<token, failures>> /\ Rows' = Rows
    BY GotoMoves DEF WrongCode, At, Rows
  <1>2. /\ Waiting("count")' = Waiting("count") \cup {r} /\ r \notin Waiting("count")
        /\ Waiting("burn")' = Waiting("burn") /\ r \notin Waiting("burn")
    BY <1>1, WaitingMoves DEF Waiting
  <1>3. /\ Waiting("count") \in SUBSET Request /\ Waiting("burn")' \in SUBSET Request
        /\ Waiting("count")' \in SUBSET Request
        /\ Waiting("count")' \cap Waiting("burn")' = {}
        /\ Waiting("burn")' # Request
    BY <1>2 DEF Waiting
  <1>4. Cardinality(Waiting("count")') = Cardinality(Waiting("count")) + 1
        /\ Cardinality(Waiting("count")) \in Nat
    BY <1>2, <1>3, SomeRequests
  <1>5. failures' \in 0..(MaxGuesses - 1)
    BY DEF TypeOK
  <1>6. Guesses \in Nat
    BY GuessesBounded DEF GuessInv
  <1>7. /\ Guesses' <= MaxGuesses * Cardinality(Request)
        /\ MaxGuesses * Cardinality(Request) \in Nat /\ Guesses' \in Nat
    BY <1>3, <1>5, GuessBound DEF Guesses
  <1>8. Guesses' = Guesses + 1
    <2>1. MaxGuesses * Cardinality(Waiting("burn")) \in Int /\ failures \in Int
      <3>1. Waiting("burn") \in SUBSET Request
        BY DEF Waiting
      <3> QED BY <3>1, SomeRequests, ResetFacts DEF TypeOK
    <2> QED BY <1>1, <1>2, <1>4, <2>1 DEF Guesses
  <1>9. ASSUME NEW i \in Rows'
        PROVE  /\ history'.rows[i].wrong <= MaxGuesses * Cardinality(Request)
               /\ ~token'[i].used => history'.rows[i].wrong <= Guesses'
    <2>1. i \in Rows /\ history.rows[i].wrong \in Nat
      BY <1>1, <1>9, RowsAre DEF RowHistory
    <2>2. CASE history'.rows[i].wrong = history.rows[i].wrong
      BY <1>1, <1>6, <1>7, <1>8, <2>1, <2>2 DEF GuessInv
    <2>3. CASE ~token[i].used /\ history'.rows[i].wrong = history.rows[i].wrong + 1
      BY <1>1, <1>6, <1>7, <1>8, <2>1, <2>3 DEF GuessInv
    <2> QED BY <2>1, <2>2, <2>3, WrongCodeRows
  <1> QED BY <1>3, <1>9 DEF GuessInv

\* Counting moves a guess from the requests to the count, and from a full count
\* to the request that burns.
LEMMA CountFailureGuess ==
    ASSUME TypeOK, TypeOK', GuessInv, NEW r \in Request, CountFailure(r) PROVE GuessInv'
  <1>1. /\ req[r].pc = "count" /\ UNCHANGED <<token, history>> /\ Rows' = Rows
        /\ failures \in 0..(MaxGuesses - 1)
    BY DEF CountFailure, At, Rows, TypeOK
  <1>2. \A o \in Request \ {r} : req'[o] = req[o]
    BY StepMoves DEF Step
  <1>3. Waiting("count") \in SUBSET Request /\ Waiting("burn") \in SUBSET Request
    BY DEF Waiting
  <1>4. /\ Cardinality(Waiting("count")) \in Nat /\ Cardinality(Waiting("burn")) \in Nat
        /\ r \in Waiting("count") /\ r \in Request \ Waiting("burn")
        /\ Cardinality(Waiting("count") \ {r}) = Cardinality(Waiting("count")) - 1
        /\ Cardinality(Waiting("burn") \cup {r}) = Cardinality(Waiting("burn")) + 1
    <2>1. r \in Waiting("count") /\ r \in Request \ Waiting("burn")
      BY <1>1 DEF Waiting
    <2> QED BY <1>3, <2>1, SomeRequests
  <1>5. MaxGuesses * (Cardinality(Waiting("burn")) + 1) = MaxGuesses * Cardinality(Waiting("burn")) + MaxGuesses
        /\ MaxGuesses * Cardinality(Waiting("burn")) \in Nat /\ MaxGuesses \in Nat
    BY <1>4, ResetFacts
  <1>6. CASE failures + 1 >= MaxGuesses
    <2>1. failures' = 0 /\ req'[r].pc = "burn"
      BY <1>6, GotoMoves DEF CountFailure
    <2>2. Waiting("count")' = Waiting("count") \ {r} /\ Waiting("burn")' = Waiting("burn") \cup {r}
      BY <1>2, <2>1, WaitingMoves
    <2>3. Guesses' = Guesses
      <3>1. Guesses' = 0 + (Cardinality(Waiting("count")) - 1)
                         + (MaxGuesses * Cardinality(Waiting("burn")) + MaxGuesses)
        BY <1>4, <1>5, <2>1, <2>2 DEF Guesses
      <3>2. failures = MaxGuesses - 1
        BY <1>1, <1>5, <1>6
      <3> QED BY <1>4, <1>5, <3>1, <3>2 DEF Guesses
    <2>4. Guesses \in Nat
      BY GuessesBounded DEF GuessInv
    <2> QED BY <1>1, <2>1, <2>3, <2>4, GuessesKept
  <1>7. CASE ~(failures + 1 >= MaxGuesses)
    <2>1. failures' = failures + 1 /\ req'[r].pc = "idle"
      BY <1>7, FinishMoves DEF CountFailure
    <2>2. Waiting("count")' = Waiting("count") \ {r} /\ Waiting("burn")' = Waiting("burn") \ {r}
      BY <1>2, <2>1, WaitingMoves
    <2>3. Waiting("burn")' = Waiting("burn") /\ Waiting("burn")' # Request
      BY <1>4, <2>2
    <2>4. Guesses' = Guesses
      <3>1. Guesses' = (failures + 1) + (Cardinality(Waiting("count")) - 1)
                         + MaxGuesses * Cardinality(Waiting("burn"))
        BY <1>4, <2>1, <2>2, <2>3 DEF Guesses
      <3> QED BY <1>1, <1>4, <1>5, <3>1 DEF Guesses
    <2>5. Guesses \in Nat
      BY GuessesBounded DEF GuessInv
    <2> QED BY <1>1, <2>3, <2>4, <2>5, GuessesKept
  <1> QED BY <1>6, <1>7

\* Steps of requests that neither count nor burn.
LEMMA OtherGuess ==
    ASSUME TypeOK, TypeOK', GuessInv, NEW r \in Request,
           RetireCodes(r) \/ InsertCode(r) \/ MatchCode(r) \/ ExchangeCode(r) \/ FindTicket(r)
             \/ ResetPassword(r) \/ (LoseRequest(r) /\ req[r].pc \notin {"count", "burn"})
    PROVE  GuessInv'
  <1>1. req[r].pc \notin {"count", "burn"} /\ UNCHANGED failures
    BY DEF RetireCodes, InsertCode, MatchCode, ExchangeCode, FindTicket, ResetPassword,
           LoseRequest, At
  <1>2. req'[r].pc \notin {"count", "burn"} /\ \A o \in Request \ {r} : req'[o] = req[o]
    <2>1. CASE RetireCodes(r)
      BY <2>1, GotoMoves DEF RetireCodes
    <2>2. CASE ExchangeCode(r)
      BY <2>2, GotoMoves DEF ExchangeCode
    <2>3. CASE MatchCode(r) \/ FindTicket(r)
      BY <2>3, TakeMoves DEF MatchCode, FindTicket
    <2>4. CASE InsertCode(r) \/ ResetPassword(r) \/ LoseRequest(r)
      BY <2>4, FinishMoves DEF InsertCode, ResetPassword, LoseRequest
    <2> QED BY <2>1, <2>2, <2>3, <2>4
  <1>3. Waiting("count")' = Waiting("count") /\ Waiting("burn")' = Waiting("burn")
    BY <1>1, <1>2 DEF Waiting
  <1>4. Guesses' = Guesses /\ Guesses \in Nat
    BY <1>1, <1>3, GuessesBounded DEF Guesses, GuessInv
  <1>5. Waiting("burn")' = Request => failures' = 0
    BY <1>1, <1>3 DEF GuessInv
  <1>6. CASE InsertCode(r) /\ ~UNCHANGED <<token, history>>
    BY <1>4, <1>5, <1>6, InsertCodeRows, GuessesKept
  <1>7. CASE UNCHANGED <<token, history>>
    BY <1>4, <1>5, <1>7, GuessesKept DEF Rows
  <1>8. CASE ~InsertCode(r)
    <2>1. Rows' = Rows /\ \A i \in Rows : token[i].used => token'[i].used
      BY <1>8, UsedStays DEF Step
    <2>2. \A i \in Rows : history'.rows[i].wrong = history.rows[i].wrong
      <3>1. CASE UNCHANGED history
        BY <3>1
      <3>2. CASE ResetPassword(r)
        BY <3>2, ResetPasswordRows
      <3>3. CASE LoseRequest(r) /\ req[r].pc \notin {"count", "burn"}
        <4>1. history'.rows = history.rows
          BY <3>3 DEF LoseRequest, At
        <4> QED BY <4>1
      <3> QED BY <1>8, <3>1, <3>2, <3>3 DEF RetireCodes, MatchCode, ExchangeCode, FindTicket
    <2> QED BY <1>4, <1>5, <2>1, <2>2, GuessesKept
  <1> QED BY <1>6, <1>7, <1>8

\* Steps after which a code that is in force starts with a fresh count, or none is
\* in force.
LEMMA ForgottenGuess ==
    ASSUME TypeOK, TypeOK', GuessInv, NEW r \in Request,
           ClearFailures(r) \/ BurnCodes(r) \/ (LoseRequest(r) /\ req[r].pc \in {"count", "burn"})
    PROVE  GuessInv'
  <1>1. req'[r].pc = "idle"
    BY FinishMoves DEF ClearFailures, BurnCodes, LoseRequest
  <1>2. Waiting("burn")' # Request
    BY <1>1 DEF Waiting
  <1>3. CASE BurnCodes(r)
    <2>1. /\ Rows' = Rows /\ \A i \in Rows : token'[i].used
          /\ history' = history
      BY <1>3, RetiredRows DEF BurnCodes, Rows
    <2> QED BY <1>2, <2>1, GuessesKept
  <1>4. CASE ClearFailures(r) \/ (LoseRequest(r) /\ req[r].pc \in {"count", "burn"})
    <2>1. history'.rows = AFreshCount /\ Rows' = Rows
      BY <1>4 DEF ClearFailures, LoseRequest, At, TypeOK, Rows
    <2> QED BY <1>2, <2>1, FreshRows, GuessesKept
  <1> QED BY <1>3, <1>4

\* Every step keeps the bound of the guesses.
LEMMA GuessStep == TypeOK /\ TypeOK' /\ GuessInv /\ [Next]_vars => GuessInv'
  <1> SUFFICES ASSUME TypeOK, TypeOK', GuessInv, [Next]_vars PROVE GuessInv'
    OBVIOUS
  <1>1. ASSUME NEW r \in Request, Step(r) PROVE GuessInv'
    BY <1>1, WrongCodeGuess, CountFailureGuess, OtherGuess, ForgottenGuess DEF Step
  <1>2. ASSUME UNCHANGED <<failures, req, history>>, Rows' = Rows,
               \A i \in Rows : token'[i].used = token[i].used
        PROVE  GuessInv'
    <2>1. Guesses' = Guesses /\ Waiting("burn")' = Waiting("burn")
      BY <1>2 DEF Guesses, Waiting
    <2>2. Guesses \in Nat
      BY GuessesBounded DEF GuessInv
    <2>3. Waiting("burn")' = Request => failures' = 0
      BY <1>2, <2>1 DEF GuessInv
    <2> QED BY <1>2, <2>1, <2>2, <2>3, GuessesKept
  <1>3. ASSUME NEW i \in Rows, Expire(i) PROVE GuessInv'
    BY <1>2, <1>3, ExpireRows, RowsAre, LenProperties DEF Expire, Rows
  <1>4. CASE Restart
    <2>1. history'.rows = AFreshCount /\ Rows' = Rows /\ failures' = 0
      BY <1>4 DEF Restart, Rows
    <2> QED BY <2>1, FreshRows, GuessesKept
  <1>5. CASE UNCHANGED vars
    BY <1>2, <1>5 DEF vars, Rows
  <1> QED BY <1>1, <1>3, <1>4, <1>5 DEF Next

\* A code meets at most MAX_RESET_GUESSES wrong ones in a row for each request
\* the server handles at a time, as long as no fault makes it forget one
\* (GuessLimit).
THEOREM GuessesAreLimited == Spec => []GuessLimit
  <1>1. Init => GuessInv
    BY DEF Init, GuessInv, Rows
  <1>2. GuessInv => GuessLimit
    BY DEF GuessInv, GuessLimit
  <1> QED BY <1>1, <1>2, GuessStep, ResetTyped, PTL DEF Spec

-------------------------------------------------------------------------------
(* The administrators (AdminRoles)                                         *)

\* A request in flight is about a member.
AboutMembers == \A r \in Ticket : ~Roles!At(r, "idle") => rolesReq[r].of \in Request

\* The inductive invariant.
RolesInv == Roles!TypeOK /\ AboutMembers /\ Roles!AdministratorsRemain

\* The platform starts with an administrator.
LEMMA RolesInit == Roles!Init => RolesInv
  <1> SUFFICES ASSUME Roles!Init PROVE RolesInv
    OBVIOUS
  <1>1. Roles!Active # {}
    BY DEF Roles!Init, Roles!Active, Roles!HasCapability
  <1>2. {{}, {"admin"}} \subseteq SUBSET {"admin", "moderator"}
    OBVIOUS
  <1>3. Roles!TypeOK
    BY <1>2 DEF Roles!Init, Roles!TypeOK, Roles!Idle
  <1>4. AboutMembers
    BY DEF Roles!Init, AboutMembers, Roles!At, Roles!Idle
  <1> QED BY <1>1, <1>3, <1>4 DEF RolesInv, Roles!AdministratorsRemain

\* A step of a request that leaves an administrator, or whose sender was none any
\* more, says how the last one went.
LEMMA WitnessedLoss ==
    ASSUME RolesInv, NEW r \in Ticket, Roles!Witness(r),
           rolesReq[r].by \in Roles!Active => Roles!Active' # {}
    PROVE  Roles!AdministratorsRemain' /\ rolesLost' \in {"no", "crossed", "erased", "banned"}
  BY DEF RolesInv, Roles!TypeOK, Roles!Witness, Roles!AdministratorsRemain

\* A request that ends leaves the others alone.
LEMMA RolesDone ==
    ASSUME RolesInv, NEW r \in Ticket, Roles!Done(r)
    PROVE  /\ rolesReq' \in [Ticket -> [pc : {"idle", "grant", "revoke", "suspend", "ban", "restore"},
                                        by : Request \cup {None}, of : Request \cup {None}]]
            /\ AboutMembers'
  <1>1. rolesReq' = [rolesReq EXCEPT ![r] = Roles!Idle]
    BY DEF Roles!Done
  <1> QED BY <1>1 DEF RolesInv, Roles!TypeOK, AboutMembers, Roles!At, Roles!Idle

\* Requests are sent, and roles and accounts given back, without loss.
LEMMA GainStep ==
    ASSUME RolesInv, NEW r \in Ticket,
           \/ \E a, m \in Request, pc \in {"grant", "revoke", "suspend", "ban", "restore"} : Roles!Ask(r, a, pc, m)
           \/ \E role \in {"admin", "moderator"} : Roles!GrantRole(r, role)
           \/ Roles!RestoreUser(r)
    PROVE  RolesInv'
  <1>1. CASE \E a, m \in Request, pc \in {"grant", "revoke", "suspend", "ban", "restore"} : Roles!Ask(r, a, pc, m)
    <2>1. Roles!TypeOK' /\ AboutMembers'
      BY <1>1 DEF Roles!Ask, RolesInv, Roles!TypeOK, AboutMembers, Roles!At
    <2>2. Roles!Active' = Roles!Active /\ rolesLost' = rolesLost
      BY <1>1 DEF Roles!Ask, Roles!Active, Roles!HasCapability
    <2> QED BY <2>1, <2>2 DEF RolesInv, Roles!AdministratorsRemain
  <1>2. CASE \E role \in {"admin", "moderator"} : Roles!GrantRole(r, role)
    <2>1. PICK role \in {"admin", "moderator"} : Roles!GrantRole(r, role)
      BY <1>2
    <2>2. Roles!TypeOK' /\ AboutMembers'
      BY <2>1, RolesDone DEF Roles!GrantRole, RolesInv, Roles!TypeOK
    <2>3. Roles!Active \subseteq Roles!Active' /\ rolesLost' = rolesLost
      BY <2>1 DEF Roles!GrantRole, Roles!Active, Roles!HasCapability, RolesInv, Roles!TypeOK
    <2> QED BY <2>2, <2>3 DEF RolesInv, Roles!AdministratorsRemain
  <1>3. CASE Roles!RestoreUser(r)
    <2>1. Roles!TypeOK' /\ AboutMembers'
      BY <1>3, RolesDone DEF Roles!RestoreUser, RolesInv, Roles!TypeOK
    <2>2. Roles!Active \subseteq Roles!Active' /\ rolesLost' = rolesLost
      BY <1>3 DEF Roles!RestoreUser, Roles!Active, Roles!HasCapability
    <2> QED BY <2>1, <2>2 DEF RolesInv, Roles!AdministratorsRemain
  <1> QED BY <1>1, <1>2, <1>3

\* An administrator cannot take their own role.
LEMMA RevokeStep ==
    ASSUME RolesInv, NEW r \in Ticket, NEW role \in {"admin", "moderator"}, Roles!RevokeRole(r, role)
    PROVE  RolesInv'
  <1> DEFINE by == rolesReq[r].by
             of == rolesReq[r].of
  <1>1. /\ rolesRoles' = IF Roles!MayRevoke(by, of, role)
                         THEN [rolesRoles EXCEPT ![of] = @ \ {role}] ELSE rolesRoles
        /\ UNCHANGED <<rolesSuspended, rolesErased>> /\ Roles!Witness(r) /\ Roles!Done(r)
    BY DEF Roles!RevokeRole
  <1>2. rolesRoles' \in [Request -> SUBSET {"admin", "moderator"}]
    BY <1>1 DEF RolesInv, Roles!TypeOK
  <1>3. ASSUME by \in Roles!Active PROVE by \in Roles!Active'
    <2>1. by \in Request /\ by \notin rolesSuspended /\ "admin" \in rolesRoles[by]
      BY <1>3 DEF Roles!Active, Roles!HasCapability
    <2>2. "admin" \in rolesRoles'[by]
      BY <1>1, <2>1 DEF Roles!MayRevoke, RolesInv, Roles!TypeOK
    <2> QED BY <1>1, <2>1, <2>2 DEF Roles!Active, Roles!HasCapability
  <1>4. Roles!AdministratorsRemain' /\ rolesLost' \in {"no", "crossed", "erased", "banned"}
    BY <1>1, <1>3, WitnessedLoss
  <1> QED BY <1>1, <1>2, <1>4, RolesDone DEF RolesInv, Roles!TypeOK

\* Nor suspend the own account.
LEMMA SuspendStep ==
    ASSUME RolesInv, NEW r \in Ticket, Roles!SetUserSuspended(r) PROVE RolesInv'
  <1> DEFINE by == rolesReq[r].by
             of == rolesReq[r].of
  <1>1. /\ rolesSuspended' = IF by = of THEN rolesSuspended ELSE rolesSuspended \cup {of}
        /\ UNCHANGED <<rolesRoles, rolesErased>> /\ Roles!Witness(r) /\ Roles!Done(r)
    BY DEF Roles!SetUserSuspended
  <1>2. ASSUME by \in Roles!Active PROVE by \in Roles!Active'
    BY <1>1, <1>2 DEF Roles!Active, Roles!HasCapability
  <1>3. Roles!AdministratorsRemain' /\ rolesLost' \in {"no", "crossed", "erased", "banned"}
    BY <1>1, <1>2, WitnessedLoss
  <1>4. rolesSuspended' \in SUBSET Request
    BY <1>1 DEF RolesInv, Roles!TypeOK, AboutMembers, Roles!At, Roles!SetUserSuspended
  <1> QED BY <1>1, <1>3, <1>4, RolesDone DEF RolesInv, Roles!TypeOK

\* The last administrator may ban the own account, and is said to.
LEMMA BanStep ==
    ASSUME RolesInv, NEW r \in Ticket, Roles!SetUserBanned(r) PROVE RolesInv'
  <1> DEFINE by == rolesReq[r].by
             of == rolesReq[r].of
  <1>1. /\ rolesSuspended' = rolesSuspended \cup {of}
        /\ UNCHANGED <<rolesRoles, rolesErased>> /\ Roles!Done(r)
        /\ IF by = of /\ Roles!Active = {of} THEN rolesLost' = "banned" ELSE Roles!Witness(r)
    BY DEF Roles!SetUserBanned
  <1>2. Roles!Active \ {of} \subseteq Roles!Active'
    BY <1>1 DEF Roles!Active, Roles!HasCapability
  <1>3. Roles!AdministratorsRemain' /\ rolesLost' \in {"no", "crossed", "erased", "banned"}
    <2>1. CASE by = of /\ Roles!Active = {of}
      BY <1>1, <2>1 DEF Roles!AdministratorsRemain
    <2>2. CASE ~(by = of /\ Roles!Active = {of})
      <3>1. by \in Roles!Active => Roles!Active' # {}
        BY <1>2, <2>2
      <3> QED BY <1>1, <2>2, <3>1, WitnessedLoss
    <2> QED BY <2>1, <2>2
  <1>4. rolesSuspended' \in SUBSET Request
    BY <1>1 DEF RolesInv, Roles!TypeOK, AboutMembers, Roles!At, Roles!SetUserBanned
  <1> QED BY <1>1, <1>3, <1>4, RolesDone DEF RolesInv, Roles!TypeOK

\* Erasing the own account ends the platform's administration only for the last one.
LEMMA EraseOwnStep ==
    ASSUME RolesInv, NEW m \in Request, Roles!EraseOwn(m) PROVE RolesInv'
  <1>1. /\ rolesRoles' = [rolesRoles EXCEPT ![m] = {}]
        /\ rolesSuspended' = rolesSuspended \cup {m}
        /\ rolesErased' = rolesErased \cup {m}
        /\ rolesLost' = IF Roles!Active = {m} THEN "erased" ELSE rolesLost
        /\ rolesReq' = rolesReq
    BY DEF Roles!EraseOwn
  <1>2. Roles!TypeOK' /\ AboutMembers'
    BY <1>1 DEF RolesInv, Roles!TypeOK, AboutMembers, Roles!At
  <1>3. Roles!Active \ {m} \subseteq Roles!Active'
    BY <1>1 DEF Roles!Active, Roles!HasCapability, RolesInv, Roles!TypeOK
  <1>4. Roles!AdministratorsRemain'
    BY <1>1, <1>3 DEF RolesInv, Roles!AdministratorsRemain
  <1> QED BY <1>2, <1>4 DEF RolesInv

\* Every step of an administrator or a member keeps the invariant.
LEMMA RolesStep == RolesInv /\ (Roles!Next \/ UNCHANGED rolesVars) => RolesInv'
  <1> SUFFICES ASSUME RolesInv, Roles!Next \/ UNCHANGED rolesVars PROVE RolesInv'
    OBVIOUS
  <1>1. CASE Roles!Next
    BY <1>1, GainStep, RevokeStep, SuspendStep, BanStep, EraseOwnStep DEF Roles!Next
  <1>2. CASE UNCHANGED rolesVars
    <2>1. Roles!Active' = Roles!Active
      BY <1>2 DEF rolesVars, Roles!Active, Roles!HasCapability
    <2> QED BY <1>2, <2>1 DEF rolesVars, RolesInv, Roles!TypeOK, AboutMembers, Roles!At,
                             Roles!AdministratorsRemain
  <1> QED BY <1>1, <1>2

-------------------------------------------------------------------------------
(* The documents of the hosts (IdentityCheck)                              *)

\* A mark is backed by a row, and so is one about to be made.
DecidedOnFile ==
    /\ \A m \in Ticket : m \in checkVerified => checkDocument[m] # "none"
    /\ \A r \in Request : Check!At(r, "sync") => checkDocument[checkReq[r].of] # "none"

\* The one decision under way about a member is what the document says: one that is
\* sent again keeps "verified" and makes "pending" of the others.
OneDecision ==
    \A m \in Ticket \ checkAstray : \A r \in Check!Deciding(m) :
        /\ Check!Deciding(m) = {r}
        /\ checkReq[r].status = "verified" <=> checkDocument[m] = "verified"

\* A request in flight is about a member.
OfMembers == \A r \in Request : ~Check!At(r, "idle") => checkReq[r].of \in Ticket

\* The inductive invariant.
CheckInv == Check!TypeOK /\ OfMembers /\ DecidedOnFile /\ OneDecision /\ Check!StandingAgrees

\* The requests in flight, and what a step makes of one of them.
CheckRequest == [pc : {"idle", "become", "file", "verify", "sync"}, of : Ticket \cup {None},
                 status : {"pending", "verified", "rejected", "none"}]

LEMMA CheckTyped ==
    Check!TypeOK <=> /\ checkHost \in SUBSET Ticket /\ checkVerified \in SUBSET Ticket
                     /\ checkErased \in SUBSET Ticket /\ checkAstray \in SUBSET Ticket
                     /\ checkDocument \in [Ticket -> {"pending", "verified", "rejected", "none"}]
                     /\ checkReq \in [Request -> CheckRequest]
  <1>1. Check!Decision \cup {"none"} = {"pending", "verified", "rejected", "none"}
    BY DEF Check!Decision
  <1> QED BY <1>1 DEF Check!TypeOK, CheckRequest

\* Nothing is decided at first.
LEMMA CheckInit == Check!Init => CheckInv
  <1> SUFFICES ASSUME Check!Init PROVE CheckInv
    OBVIOUS
  <1>1. Check!TypeOK
    BY CheckTyped DEF Check!Init, Check!Idle, CheckRequest
  <1>2. \A r \in Request : checkReq[r].pc = "idle"
    BY DEF Check!Init, Check!Idle
  <1> QED BY <1>1, <1>2 DEF CheckInv, Check!Init, OfMembers, DecidedOnFile, OneDecision, Check!At,
                            Check!Deciding, Check!StandingAgrees, Check!Shown

\* A step that neither decides, marks nor files leaves the standing of everybody.
LEMMA StandingKept ==
    ASSUME CheckInv, Check!TypeOK', OfMembers',
           UNCHANGED checkDocument, checkErased \subseteq checkErased',
           \A m \in Ticket \ checkErased' : m \in checkVerified' <=> m \in checkVerified,
           checkVerified' \subseteq checkVerified,
           \A r \in Request : Check!At(r, "sync")' => checkReq'[r] = checkReq[r],
           \A r \in Request : Check!At(r, "sync") /\ ~Check!At(r, "sync")' => checkReq[r].of \in checkAstray',
           checkAstray \subseteq checkAstray'
    PROVE  CheckInv'
  <1>1. \A m \in Ticket : Check!Deciding(m)' \subseteq Check!Deciding(m)
    BY DEF Check!Deciding, Check!At
  <1>2. \A m \in Ticket \ checkAstray' : Check!Deciding(m)' = Check!Deciding(m)
    BY DEF Check!Deciding, Check!At
  <1>3. DecidedOnFile'
    BY DEF CheckInv, DecidedOnFile, Check!At
  <1>4. OneDecision'
    BY <1>2 DEF CheckInv, OneDecision, Check!Deciding, Check!At
  <1>5. Check!StandingAgrees'
    BY <1>2 DEF CheckInv, Check!StandingAgrees, Check!Shown
  <1> QED BY <1>3, <1>4, <1>5 DEF CheckInv

\* Requests that come in, a new host, a lost request and an erased account.
LEMMA StandingStep ==
    ASSUME CheckInv,
           \/ \E r \in Request, m \in Ticket, pc \in {"become", "verify"} : Check!Start(r, pc, m)
           \/ \E r \in Request : Check!GrantHost(r) \/ Check!LoseRequest(r)
           \/ \E m \in Ticket : Check!EraseOwn(m)
    PROVE  CheckInv'
  <1>1. ASSUME NEW r \in Request, NEW m \in Ticket, NEW pc \in {"become", "verify"}, Check!Start(r, pc, m)
        PROVE  CheckInv'
    <2>1. /\ checkReq' = [checkReq EXCEPT ![r] = [pc |-> pc, of |-> m, status |-> "none"]]
          /\ checkReq[r].pc = "idle"
          /\ UNCHANGED <<checkHost, checkDocument, checkVerified, checkErased, checkAstray>>
      BY <1>1 DEF Check!Start, Check!At
    <2>2. Check!TypeOK' /\ OfMembers'
      BY <2>1, CheckTyped DEF CheckInv, Check!TypeOK, CheckRequest, OfMembers, Check!At, Check!Decision
    <2> QED BY <2>1, <2>2, CheckTyped, StandingKept DEF CheckInv, CheckRequest, Check!At
  <1>2. ASSUME NEW r \in Request, Check!GrantHost(r) PROVE CheckInv'
    <2>1. /\ checkReq' = [checkReq EXCEPT ![r].pc = "file"]
          /\ checkReq[r].pc = "become" /\ checkHost' = checkHost \cup {checkReq[r].of}
          /\ UNCHANGED <<checkDocument, checkVerified, checkErased, checkAstray>>
      BY <1>2 DEF Check!GrantHost, Check!At
    <2>2. Check!TypeOK' /\ OfMembers'
      BY <2>1, CheckTyped DEF CheckInv, Check!TypeOK, CheckRequest, OfMembers, Check!At, Check!Decision
    <2> QED BY <2>1, <2>2, CheckTyped, StandingKept DEF CheckInv, CheckRequest, Check!At
  <1>3. ASSUME NEW r \in Request, Check!LoseRequest(r) PROVE CheckInv'
    <2>1. /\ checkReq' = [checkReq EXCEPT ![r] = Check!Idle]
          /\ checkAstray' = IF checkReq[r].pc = "sync" THEN checkAstray \cup {checkReq[r].of} ELSE checkAstray
          /\ UNCHANGED <<checkHost, checkDocument, checkVerified, checkErased>>
      BY <1>3 DEF Check!LoseRequest, Check!At, Check!Done
    <2>2. Check!TypeOK' /\ OfMembers'
      BY <2>1, CheckTyped DEF CheckInv, Check!TypeOK, CheckRequest, OfMembers, Check!At, Check!Decision,
                              Check!Idle
    <2> QED BY <2>1, <2>2, CheckTyped, StandingKept DEF CheckInv, CheckRequest, Check!At, Check!Idle
  <1>4. ASSUME NEW m \in Ticket, Check!EraseOwn(m) PROVE CheckInv'
    <2>1. Check!TypeOK' /\ OfMembers'
      BY <1>4, CheckTyped DEF Check!EraseOwn, CheckInv, Check!TypeOK, OfMembers, Check!At
    <2> QED BY <1>4, <2>1, StandingKept DEF Check!EraseOwn, Check!At
  <1> QED BY <1>1, <1>2, <1>3, <1>4

\* A document sent again stays verified, or has to be looked at.
LEMMA SubmitStep ==
    ASSUME CheckInv, NEW r \in Request, Check!SubmitIdentityDocument(r) PROVE CheckInv'
  <1>0. PICK of \in Ticket : of = checkReq[r].of
    BY DEF Check!SubmitIdentityDocument, CheckInv, OfMembers, Check!At
  <1>1. /\ checkReq[r].pc = "file" /\ of = checkReq[r].of
        /\ checkDocument' = [checkDocument EXCEPT ![of] = IF @ = "verified" THEN @ ELSE "pending"]
        /\ checkReq' = [checkReq EXCEPT ![r] = Check!Idle]
        /\ UNCHANGED <<checkHost, checkVerified, checkErased, checkAstray>>
    BY <1>0 DEF Check!SubmitIdentityDocument, Check!Filed, Check!Done, CheckInv, OfMembers, Check!At
  <1>a. checkDocument' \in [Ticket -> {"pending", "verified", "rejected", "none"}]
    BY <1>1, CheckTyped DEF CheckInv
  <1>b. checkReq' \in [Request -> CheckRequest]
    BY <1>1, CheckTyped DEF CheckInv, CheckRequest, Check!Idle
  <1>c. Check!TypeOK'
    BY <1>1, <1>a, <1>b DEF CheckInv, Check!TypeOK, CheckRequest, Check!Decision
  <1>d. OfMembers'
    BY <1>1, CheckTyped DEF CheckInv, OfMembers, Check!At, Check!Idle
  <1>2. Check!TypeOK' /\ OfMembers'
    BY <1>c, <1>d
  <1>3. \A q \in Request : /\ Check!At(q, "sync")' <=> Check!At(q, "sync")
                           /\ Check!At(q, "sync") => checkReq'[q] = checkReq[q]
    BY <1>1, CheckTyped DEF CheckInv, Check!At, Check!Idle
  <1>4. \A m \in Ticket : /\ Check!Deciding(m)' = Check!Deciding(m)
                          /\ checkDocument'[m] = "verified" <=> checkDocument[m] = "verified"
                          /\ checkDocument[m] # "none" => checkDocument'[m] # "none"
    BY <1>1, <1>3, CheckTyped DEF CheckInv, Check!Deciding
  <1>5. DecidedOnFile'
    BY <1>1, <1>3, <1>4 DEF CheckInv, DecidedOnFile, OfMembers, Check!At
  <1>6. OneDecision'
    BY <1>1, <1>3, <1>4 DEF CheckInv, OneDecision, Check!Deciding
  <1>7. Check!StandingAgrees'
    BY <1>1, <1>4 DEF CheckInv, Check!StandingAgrees, Check!Shown, DecidedOnFile
  <1> QED BY <1>2, <1>5, <1>6, <1>7 DEF CheckInv

\* A row that Stripe's report opens is not verified, and a decision is left alone.
LEMMA ReportStep == ASSUME CheckInv, NEW h \in Ticket, Check!RecordStripeIdentity(h) PROVE CheckInv'
  <1>1. /\ checkDocument' = [checkDocument EXCEPT ![h] = IF @ = "none" THEN "pending" ELSE @]
        /\ UNCHANGED <<checkHost, checkVerified, checkErased, checkReq, checkAstray>>
    BY DEF Check!RecordStripeIdentity
  <1>2. checkDocument' \in [Ticket -> {"pending", "verified", "rejected", "none"}]
    BY <1>1, CheckTyped DEF CheckInv
  <1>3. Check!TypeOK' /\ OfMembers'
    BY <1>1, <1>2 DEF CheckInv, Check!TypeOK, Check!Decision, OfMembers, Check!At
  <1>4. \A m \in Ticket : /\ Check!Deciding(m)' = Check!Deciding(m)
                          /\ checkDocument'[m] = "verified" <=> checkDocument[m] = "verified"
                          /\ checkDocument[m] # "none" => checkDocument'[m] # "none"
    BY <1>1, CheckTyped DEF CheckInv, Check!Deciding, Check!At
  <1>5. DecidedOnFile'
    BY <1>1, <1>4 DEF CheckInv, DecidedOnFile, OfMembers, Check!At
  <1>6. OneDecision'
    BY <1>1, <1>4 DEF CheckInv, OneDecision
  <1>7. Check!StandingAgrees'
    BY <1>1, <1>4 DEF CheckInv, Check!StandingAgrees, Check!Shown, DecidedOnFile
  <1> QED BY <1>3, <1>5, <1>6, <1>7 DEF CheckInv

\* A decision is under way alone, or its member is astray.
LEMMA DecideStep ==
    ASSUME CheckInv, NEW r \in Request, NEW s \in Check!Decision, Check!SetVerification(r, s)
    PROVE  CheckInv'
  <1>0. PICK of \in Ticket : of = checkReq[r].of
    BY DEF Check!SetVerification, CheckInv, OfMembers, Check!At
  <1>1. /\ checkReq[r].pc = "verify" /\ of = checkReq[r].of /\ s \in {"pending", "verified", "rejected"}
        /\ checkDocument' = [checkDocument EXCEPT ![of] = s]
        /\ checkReq' = [checkReq EXCEPT ![r].pc = "sync", ![r].status = s]
        /\ checkAstray' = IF Check!Deciding(of) = {} THEN checkAstray \ {of} ELSE checkAstray \cup {of}
        /\ UNCHANGED <<checkHost, checkVerified, checkErased>>
    BY <1>0 DEF Check!SetVerification, CheckInv, OfMembers, Check!At, Check!Decision
  <1>2. /\ checkReq'[r].pc = "sync" /\ checkReq'[r].of = of /\ checkReq'[r].status = s
        /\ \A q \in Request \ {r} : checkReq'[q] = checkReq[q]
        /\ checkReq' \in [Request -> CheckRequest]
    BY <1>1, CheckTyped, ZenonT(40) DEF CheckInv, CheckRequest
  <1>3. Check!TypeOK'
    BY <1>1, <1>2, CheckTyped, ZenonT(40) DEF CheckInv, Check!TypeOK
  <1>4. OfMembers'
    BY <1>1, <1>2 DEF CheckInv, OfMembers, Check!At
  <1>5. /\ \A m \in Ticket \ {of} : Check!Deciding(m)' = Check!Deciding(m) /\ checkDocument'[m] = checkDocument[m]
        /\ Check!Deciding(of)' = Check!Deciding(of) \cup {r}
        /\ checkDocument'[of] = s
    BY <1>1, <1>2, CheckTyped DEF CheckInv, Check!Deciding, Check!At
  <1>6. DecidedOnFile'
    BY <1>1, <1>2, <1>5 DEF CheckInv, DecidedOnFile, OfMembers, Check!At
  <1>7. OneDecision'
    BY <1>1, <1>2, <1>5 DEF CheckInv, OneDecision, Check!Deciding
  <1>8. Check!StandingAgrees'
    <2> SUFFICES ASSUME NEW m \in Ticket \ (checkErased \cup checkAstray'), Check!Deciding(m)' = {}
                 PROVE  m \in checkVerified <=> Check!Shown(m)' = "verified"
      BY <1>1 DEF Check!StandingAgrees
    <2>0. m # of
      BY <1>1, <1>5
    <2>1. m # of /\ m \notin checkAstray /\ Check!Deciding(m) = {} /\ checkDocument'[m] = checkDocument[m]
      BY <1>1, <1>5, <2>0
    <2> QED BY <1>1, <2>1 DEF CheckInv, Check!StandingAgrees, Check!Shown
  <1> QED BY <1>3, <1>4, <1>6, <1>7, <1>8 DEF CheckInv

\* The mark follows the one decision under way.
LEMMA SyncStep ==
    ASSUME CheckInv, NEW r \in Request, Check!SyncVerified(r) PROVE CheckInv'
  <1>0. PICK of \in Ticket : of = checkReq[r].of
    BY DEF Check!SyncVerified, CheckInv, OfMembers, Check!At
  <1>1. /\ checkReq[r].pc = "sync" /\ of = checkReq[r].of
        /\ checkVerified' = IF checkReq[r].status = "verified" THEN checkVerified \cup {of} ELSE checkVerified \ {of}
        /\ checkReq' = [checkReq EXCEPT ![r] = Check!Idle]
        /\ UNCHANGED <<checkHost, checkDocument, checkErased, checkAstray>>
    BY <1>0 DEF Check!SyncVerified, Check!Done, CheckInv, OfMembers, Check!At
  <1>2. Check!TypeOK' /\ OfMembers'
    BY <1>1, CheckTyped DEF CheckInv, Check!TypeOK, CheckRequest, OfMembers, Check!At, Check!Idle
  <1>3. \A q \in Request : Check!At(q, "sync")' <=> Check!At(q, "sync") /\ q # r
    BY <1>1, CheckTyped DEF CheckInv, Check!At, Check!Idle
  <1>4. \A q \in Request \ {r} : checkReq'[q] = checkReq[q]
    BY <1>1, CheckTyped DEF CheckInv
  <1>5. \A m \in Ticket : Check!Deciding(m)' = Check!Deciding(m) \ {r}
    BY <1>3, <1>4 DEF Check!Deciding
  <1>6. r \in Check!Deciding(of) /\ \A m \in Ticket : r \in Check!Deciding(m) => m = of
    BY <1>1 DEF Check!Deciding, Check!At
  <1>7. DecidedOnFile'
    BY <1>1, <1>3, <1>4 DEF CheckInv, DecidedOnFile, Check!At
  <1>8. OneDecision'
    BY <1>1, <1>4, <1>5, <1>6 DEF CheckInv, OneDecision
  <1>9. Check!StandingAgrees'
    <2> SUFFICES ASSUME NEW m \in Ticket \ (checkErased \cup checkAstray), Check!Deciding(m) \ {r} = {}
                 PROVE  m \in checkVerified' <=> Check!Shown(m)' = "verified"
      BY <1>1, <1>5 DEF Check!StandingAgrees
    <2>1. CASE m = of
      <3>1. checkDocument[m] # "none" /\ (checkReq[r].status = "verified" <=> checkDocument[m] = "verified")
        BY <1>1, <1>6, <2>1 DEF CheckInv, OneDecision, DecidedOnFile, Check!At
      <3> QED BY <1>1, <2>1, <3>1 DEF Check!Shown
    <2>2. CASE m # of
      BY <1>1, <1>6, <2>2 DEF CheckInv, Check!StandingAgrees, Check!Shown
    <2> QED BY <2>1, <2>2
  <1> QED BY <1>2, <1>7, <1>8, <1>9 DEF CheckInv

\* Every step about a document keeps the invariant.
LEMMA CheckStep == CheckInv /\ (Check!Next \/ UNCHANGED checkVars) => CheckInv'
  <1> SUFFICES ASSUME CheckInv, Check!Next \/ UNCHANGED checkVars PROVE CheckInv'
    OBVIOUS
  <1>1. CASE Check!Next
    BY <1>1, StandingStep, SubmitStep, ReportStep, DecideStep, SyncStep DEF Check!Next
  <1>2. CASE UNCHANGED checkVars
    <2>1. Check!TypeOK' /\ OfMembers'
      BY <1>2 DEF checkVars, CheckInv, Check!TypeOK, OfMembers, Check!At
    <2> QED BY <1>2, <2>1, StandingKept DEF checkVars, Check!At
  <1> QED BY <1>1, <1>2

-------------------------------------------------------------------------------
(* The support desk (SupportDesk)                                          *)

\* A request in flight is about a ticket that was opened.
AboutTickets ==
    \A r \in Agent : ~Desk!At(r, "idle") =>
        deskReq[r].t \in Case /\ deskTicket[deskReq[r].t].status # "none"

\* A ticket that was not opened is not closed.
Unopened == \A t \in Case : deskTicket[t].status = "none" => deskTicket[t] = Desk!NoTicket

\* The inductive invariant.
DeskInv == Desk!TypeOK /\ AboutTickets /\ Unopened /\ Desk!WaitingIsQueued

\* Nobody has written yet.
LEMMA DeskInit == Desk!Init => DeskInv
  <1> SUFFICES ASSUME Desk!Init PROVE DeskInv
    OBVIOUS
  <1>1. Desk!TypeOK
    BY SumAssumption DEF Desk!Init, Desk!TypeOK, Desk!NoTicket, Desk!Idle, Desk!Nobody, Desk!DeskRequest,
                         Desk!Step, Desk!Role
  <1> QED BY <1>1 DEF DeskInv, Desk!Init, AboutTickets, Unopened, Desk!At, Desk!Idle, Desk!WaitingIsQueued, Desk!Nobody

\* A step of one request that leaves the tickets alone.
LEMMA TicketsKeep ==
    ASSUME DeskInv, Desk!TypeOK', NEW r \in Agent,
           deskTicket' = deskTicket,
           \A q \in Agent \ {r} : deskReq'[q] = deskReq[q],
           deskReq'[r].pc = "idle" \/
             (deskReq'[r].t \in Case /\ deskTicket[deskReq'[r].t].status # "none"),
           \A t \in Case : deskHistory'[t].touched = deskHistory[t].touched
    PROVE  DeskInv'
  BY DEF DeskInv, AboutTickets, Unopened, Desk!At, Desk!WaitingIsQueued

\* A request goes on, or ends.
LEMMA DeskMoves ==
    ASSUME DeskInv, NEW r \in Agent, Desk!Done(r) \/ \E pc \in Desk!Step : Desk!Goto(r, pc)
    PROVE  /\ deskReq' \in [Agent -> Desk!DeskRequest]
           /\ \A q \in Agent \ {r} : deskReq'[q] = deskReq[q]
           /\ deskReq'[r].pc = "idle" \/ deskReq'[r].t = deskReq[r].t
  <1>1. deskReq \in [Agent -> Desk!DeskRequest]
    BY DEF DeskInv, Desk!TypeOK
  <1>2. CASE Desk!Done(r)
    <2>1. Desk!Idle \in Desk!DeskRequest /\ Desk!Idle.pc = "idle"
      BY DEF Desk!Idle, Desk!DeskRequest, Desk!Step
    <2> QED BY <1>1, <1>2, <2>1 DEF Desk!Done
  <1>3. ASSUME NEW pc \in Desk!Step, Desk!Goto(r, pc)
        PROVE  /\ deskReq' \in [Agent -> Desk!DeskRequest]
               /\ \A q \in Agent \ {r} : deskReq'[q] = deskReq[q]
               /\ deskReq'[r].t = deskReq[r].t
    BY <1>1, <1>3 DEF Desk!Goto, Desk!DeskRequest
  <1> QED BY <1>2, <1>3

\* What is asked of the desk, up to the step that writes a message.
LEMMA AskStep ==
    ASSUME DeskInv, NEW r \in Agent, NEW t \in Case,
           \/ \E role \in {"member", "admin", "note"} : Desk!Answer(r, t, role)
           \/ Desk!StartAction(r, t) \/ Desk!AssignTicket(r, t)
    PROVE  DeskInv'
  <1>1. PICK pc \in {"message", "act", "audit"}, role \in {"member", "admin", "note", "system"} :
            deskReq' = [deskReq EXCEPT ![r] = [pc |-> pc, role |-> role, t |-> t]]
    <2>1. CASE \E role \in {"member", "admin", "note"} : Desk!Answer(r, t, role)
      BY <2>1 DEF Desk!Answer
    <2>2. CASE Desk!StartAction(r, t)
      BY <2>2 DEF Desk!StartAction
    <2>3. CASE Desk!AssignTicket(r, t)
      BY <2>3 DEF Desk!AssignTicket
    <2> QED BY <2>1, <2>2, <2>3
  <1>2. /\ UNCHANGED <<deskTicket, deskTrace, deskHistory>>
        /\ deskTicket[t] # Desk!NoTicket
    BY DEF Desk!Answer, Desk!StartAction, Desk!AssignTicket
  <1>3. [pc |-> pc, role |-> role, t |-> t] \in Desk!DeskRequest
    BY DEF Desk!DeskRequest, Desk!Step, Desk!Role
  <1>4. deskReq' \in [Agent -> Desk!DeskRequest]
    BY <1>1, <1>3 DEF DeskInv, Desk!TypeOK
  <1>5. Desk!TypeOK'
    BY <1>2, <1>4 DEF DeskInv, Desk!TypeOK
  <1>6. \A q \in Agent \ {r} : deskReq'[q] = deskReq[q]
    BY <1>1
  <1>7. deskReq'[r].t = t
    BY <1>1 DEF DeskInv, Desk!TypeOK
  <1>8. deskTicket[t].status # "none"
    BY <1>2 DEF DeskInv, Unopened
  <1> QED BY <1>2, <1>5, <1>6, <1>7, <1>8, TicketsKeep

\* A request goes on about its ticket, or ends.
LEMMA GoOnStep ==
    ASSUME DeskInv, NEW r \in Agent, ~Desk!At(r, "idle"), Desk!TypeOK',
           deskTicket' = deskTicket,
           \/ Desk!Done(r) \/ \E pc \in Desk!Step : Desk!Goto(r, pc),
           \A t \in Case : deskHistory'[t].touched = deskHistory[t].touched
    PROVE  DeskInv'
  <1>1. /\ \A q \in Agent \ {r} : deskReq'[q] = deskReq[q]
        /\ deskReq'[r].pc = "idle" \/ deskReq'[r].t = deskReq[r].t
    BY DeskMoves
  <1> QED BY <1>1, TicketsKeep DEF DeskInv, AboutTickets

\* A ticket is opened once.
LEMMA CreateTicketStep ==
    ASSUME DeskInv, NEW r \in Agent, NEW t \in Case, Desk!CreateTicket(r, t) PROVE DeskInv'
  <1>1. /\ deskTicket[t] = Desk!NoTicket
        /\ deskTicket' = [deskTicket EXCEPT ![t] = Desk!NewTicket]
        /\ deskReq' = [deskReq EXCEPT ![r] = [pc |-> "message", role |-> "member", t |-> t]]
        /\ UNCHANGED <<deskTrace, deskHistory>>
    BY DEF Desk!CreateTicket
  <1>2. [pc |-> "message", role |-> "member", t |-> t] \in Desk!DeskRequest
    BY DEF Desk!DeskRequest, Desk!Step, Desk!Role
  <1>3. Desk!NewTicket \in [status : Desk!Status \cup {"none"}, closedAt : BOOLEAN]
        /\ Desk!NewTicket.status = "open"
    BY DEF Desk!NewTicket, Desk!Status, Desk!Queue
  <1>4. Desk!TypeOK'
    BY <1>1, <1>2, <1>3 DEF DeskInv, Desk!TypeOK
  <1>5. AboutTickets'
    BY <1>1, <1>3 DEF DeskInv, Desk!TypeOK, AboutTickets, Desk!At
  <1>6. Unopened' /\ Desk!WaitingIsQueued'
    BY <1>1, <1>3 DEF DeskInv, Desk!TypeOK, Unopened, Desk!WaitingIsQueued, Desk!Queue
  <1> QED BY <1>4, <1>5, <1>6 DEF DeskInv

\* The status of a ticket and who made it so last, by a message or a decision.
LEMMA StatusStep ==
    ASSUME DeskInv, NEW r \in Agent, NEW t \in Case, NEW x \in [status : Desk!Status, closedAt : BOOLEAN],
           deskTicket' = [deskTicket EXCEPT ![t] = x],
           deskReq' \in [Agent -> Desk!DeskRequest],
           \A q \in Agent \ {r} : deskReq'[q] = deskReq[q],
           deskReq'[r].pc = "idle" \/ deskReq'[r].t = t,
           deskTrace' = deskTrace,
           deskHistory' \in [Case -> [touched : {"none", "member", "desk"}, newest : {"none", "member", "desk"}]],
           \A i \in Case \ {t} : deskHistory'[i] = deskHistory[i],
           deskHistory'[t].touched = "member" => x.status \in Desk!Queue
    PROVE  DeskInv'
  <1>1. x.status # "none" /\ x \in [status : Desk!Status \cup {"none"}, closedAt : BOOLEAN]
    BY DEF Desk!Status, Desk!Queue, Desk!Closed
  <1>2. Desk!TypeOK'
    BY <1>1 DEF DeskInv, Desk!TypeOK
  <1>3. AboutTickets'
    BY <1>1 DEF DeskInv, Desk!TypeOK, AboutTickets, Desk!At
  <1>4. Unopened'
    BY <1>1 DEF DeskInv, Desk!TypeOK, Unopened
  <1>5. Desk!WaitingIsQueued'
    BY DEF DeskInv, Desk!TypeOK, Desk!WaitingIsQueued
  <1> QED BY <1>2, <1>3, <1>4, <1>5 DEF DeskInv

\* A message's status: the member's brings a ticket back to the queue, an
\* administrator's takes it out unless it was escalated, the others leave it.
LEMMA TouchStep == ASSUME DeskInv, NEW r \in Agent, Desk!TouchTicket(r) PROVE DeskInv'
  <1>0. PICK t \in Case : t = deskReq[r].t /\ deskTicket[t].status # "none"
    BY DEF Desk!TouchTicket, DeskInv, AboutTickets, Desk!At
  <1> DEFINE s == Desk!StatusAfter(deskReq[r].role, deskTicket[t].status)
             who == IF deskReq[r].role = "member" THEN "member"
                    ELSE IF deskReq[r].role = "admin" THEN "desk" ELSE deskHistory[t].touched
  <1>1. /\ deskTicket' = [deskTicket EXCEPT ![t].status = s]
        /\ deskHistory' = IF deskReq[r].role \in {"member", "admin"}
                          THEN [deskHistory EXCEPT ![t].touched = who] ELSE deskHistory
        /\ deskTrace' = deskTrace
    BY <1>0 DEF Desk!TouchTicket, Desk!Speaker
  <1>2. deskTicket[t].status \in Desk!Status
    BY <1>0 DEF DeskInv, Desk!TypeOK
  <1>3. s \in Desk!Status
    BY <1>2 DEF Desk!StatusAfter, Desk!Status, Desk!Queue
  <1>4. who \in {"none", "member", "desk"} /\ deskHistory[t].newest \in {"none", "member", "desk"}
    BY DEF DeskInv, Desk!TypeOK
  <1>5. who = "member" => s \in Desk!Queue
    BY <1>2 DEF Desk!StatusAfter, Desk!Status, Desk!Queue, Desk!Closed, DeskInv, Desk!WaitingIsQueued
  <1> HIDE DEF s, who
  <1>6. PICK x \in [status : Desk!Status, closedAt : BOOLEAN] :
            x.status = s /\ deskTicket' = [deskTicket EXCEPT ![t] = x]
    <2> DEFINE x == [deskTicket[t] EXCEPT !.status = s]
    <2>1. x \in [status : Desk!Status, closedAt : BOOLEAN] /\ x.status = s
      BY <1>3 DEF DeskInv, Desk!TypeOK
    <2>2. deskTicket' = [deskTicket EXCEPT ![t] = x]
      BY <1>1
    <2> QED BY <2>1, <2>2
  <1>7. /\ deskHistory' \in [Case -> [touched : {"none", "member", "desk"}, newest : {"none", "member", "desk"}]]
        /\ \A i \in Case \ {t} : deskHistory'[i] = deskHistory[i]
        /\ deskHistory'[t].touched = who
    <2>1. deskReq[r].role \notin {"member", "admin"} => who = deskHistory[t].touched
      BY DEF who
    <2> QED BY <1>1, <1>4, <2>1 DEF DeskInv, Desk!TypeOK
  <1>8. /\ deskReq' \in [Agent -> Desk!DeskRequest]
        /\ \A q \in Agent \ {r} : deskReq'[q] = deskReq[q]
        /\ deskReq'[r].pc = "idle" \/ deskReq'[r].t = t
    <2>1. Desk!Done(r) \/ \E pc \in Desk!Step : Desk!Goto(r, pc)
      BY DEF Desk!TouchTicket, Desk!Step
    <2> QED BY <1>0, <2>1, DeskMoves
  <1>9. deskTrace' = deskTrace /\ (deskHistory'[t].touched = "member" => x.status \in Desk!Queue)
    BY <1>1, <1>5, <1>6, <1>7
  <1> QED BY <1>6, <1>7, <1>8, <1>9, StatusStep

\* A decision of the desk.
LEMMA DecisionStep ==
    ASSUME DeskInv, NEW r \in Agent, NEW t \in Case, NEW s \in Desk!Status, Desk!SetTicketStatus(r, t, s)
    PROVE  DeskInv'
  <1>1. /\ deskTicket' = [deskTicket EXCEPT ![t] = [status |-> s, closedAt |-> s \in Desk!Closed]]
        /\ deskHistory' = [deskHistory EXCEPT ![t] = [touched |-> "desk", newest |-> "desk"]]
        /\ deskReq' = [deskReq EXCEPT ![r] = [pc |-> "audit", role |-> "admin", t |-> t]]
        /\ deskTrace' = deskTrace
    BY DEF Desk!SetTicketStatus
  <1>2. [pc |-> "audit", role |-> "admin", t |-> t] \in Desk!DeskRequest
    BY DEF Desk!DeskRequest, Desk!Step, Desk!Role
  <1>3. /\ deskReq' \in [Agent -> Desk!DeskRequest]
        /\ \A q \in Agent \ {r} : deskReq'[q] = deskReq[q]
        /\ deskReq'[r].t = t
    BY <1>1, <1>2 DEF DeskInv, Desk!TypeOK
  <1>4. [status |-> s, closedAt |-> s \in Desk!Closed] \in [status : Desk!Status, closedAt : BOOLEAN]
    <2> DEFINE closed == s \in Desk!Closed
    <2>1. closed \in BOOLEAN
      OBVIOUS
    <2> HIDE DEF closed
    <2>2. [status |-> s, closedAt |-> closed] \in [status : Desk!Status, closedAt : BOOLEAN]
      BY <2>1
    <2> QED BY <2>2 DEF closed
  <1>5. /\ deskHistory' \in [Case -> [touched : {"none", "member", "desk"}, newest : {"none", "member", "desk"}]]
        /\ \A i \in Case \ {t} : deskHistory'[i] = deskHistory[i]
        /\ deskHistory'[t].touched = "desk"
    BY <1>1 DEF DeskInv, Desk!TypeOK
  <1>6. PICK x \in [status : Desk!Status, closedAt : BOOLEAN] : deskTicket' = [deskTicket EXCEPT ![t] = x]
    BY <1>1, <1>4
  <1>7. deskHistory'[t].touched = "member" => x.status \in Desk!Queue
    BY <1>5
  <1>8. deskTrace' = deskTrace
    BY <1>1
  <1> QED BY <1>3, <1>5, <1>6, <1>7, <1>8, StatusStep

\* The steps that go on about a ticket without touching it.
LEMMA TalkStep ==
    ASSUME DeskInv, NEW r \in Agent,
           \/ Desk!TakeAction(r) \/ Desk!InsertMessage(r) \/ Desk!QueueReplyMail(r)
           \/ Desk!RecordAction(r) \/ Desk!LoseRequest(r)
    PROVE  DeskInv'
  <1>1. ~Desk!At(r, "idle") /\ deskTicket' = deskTicket
    BY DEF Desk!TakeAction, Desk!InsertMessage, Desk!QueueReplyMail, Desk!RecordAction, Desk!LoseRequest,
           Desk!At
  <1>2. Desk!Done(r) \/ \E pc \in Desk!Step : Desk!Goto(r, pc)
    BY DEF Desk!TakeAction, Desk!InsertMessage, Desk!QueueReplyMail, Desk!RecordAction, Desk!LoseRequest,
           Desk!Step
  <1>3. deskReq' \in [Agent -> Desk!DeskRequest]
    BY <1>2, DeskMoves
  <1>0. PICK t \in Case : t = deskReq[r].t
    BY <1>1 DEF DeskInv, AboutTickets
  <1>4. deskTrace' \in [Case -> [done : 0 .. MaxActs, told : Nat]]
    <2>1. CASE deskTrace' = deskTrace
      BY <2>1 DEF DeskInv, Desk!TypeOK
    <2>2. CASE Desk!TakeAction(r) /\ deskTrace[t].done < MaxActs
                 /\ deskTrace' = [deskTrace EXCEPT ![t].done = @ + 1]
      BY <2>2, SumAssumption DEF DeskInv, Desk!TypeOK
    <2>3. CASE deskTrace' = [deskTrace EXCEPT ![t].told = @ + 1]
      BY <2>3 DEF DeskInv, Desk!TypeOK
    <2> QED BY <1>0, <2>1, <2>2, <2>3 DEF Desk!TakeAction, Desk!InsertMessage, Desk!QueueReplyMail,
                                    Desk!RecordAction, Desk!LoseRequest
  <1>5. /\ deskHistory' \in [Case -> [touched : {"none", "member", "desk"}, newest : {"none", "member", "desk"}]]
        /\ \A i \in Case : deskHistory'[i].touched = deskHistory[i].touched
    <2>1. CASE deskHistory' = deskHistory
      BY <2>1 DEF DeskInv, Desk!TypeOK
    <2>2. CASE \E who \in {"member", "desk"} : deskHistory' = [deskHistory EXCEPT ![t].newest = who]
      BY <2>2 DEF DeskInv, Desk!TypeOK
    <2> QED BY <1>0, <2>1, <2>2 DEF Desk!TakeAction, Desk!InsertMessage, Desk!QueueReplyMail,
                              Desk!RecordAction, Desk!LoseRequest, Desk!Speaker
  <1>6. Desk!TypeOK'
    BY <1>1, <1>3, <1>4, <1>5 DEF DeskInv, Desk!TypeOK
  <1> QED BY <1>1, <1>2, <1>5, <1>6, GoOnStep

\* Every step at the desk keeps the invariant.
LEMMA DeskStep == DeskInv /\ (Desk!Next \/ UNCHANGED deskVars) => DeskInv'
  <1> SUFFICES ASSUME DeskInv, Desk!Next \/ UNCHANGED deskVars PROVE DeskInv'
    OBVIOUS
  <1>1. ASSUME NEW r \in Agent, NEW t \in Case,
               Desk!MemberAnswers(r, t) \/ \E note \in BOOLEAN : Desk!AdminAnswers(r, t, note)
        PROVE  DeskInv'
    <2>1. \E role \in {"member", "admin", "note"} : Desk!Answer(r, t, role)
      BY <1>1 DEF Desk!MemberAnswers, Desk!AdminAnswers
    <2> QED BY <2>1, AskStep
  <1>2. CASE Desk!Next
    BY <1>1, <1>2, CreateTicketStep, AskStep, DecisionStep, TouchStep, TalkStep DEF Desk!Next
  <1>3. CASE UNCHANGED deskVars
    BY <1>3 DEF deskVars, DeskInv, Desk!TypeOK, AboutTickets, Unopened, Desk!At, Desk!WaitingIsQueued
  <1> QED BY <1>2, <1>3

-------------------------------------------------------------------------------
(* The confirmation of the address (EmailVerification)                     *)

\* A link that is used up has verified the member.
UsedVerifies == \A l \in Link : linkLink[l].used => linkVerified

\* The inductive invariant.
LinkInv == Links!TypeOK /\ UsedVerifies /\ Links!LinkConfirms

\* No link is mailed yet.
LEMMA LinkInit == Links!Init => LinkInv
  <1> SUFFICES ASSUME Links!Init PROVE LinkInv
    OBVIOUS
  <1>1. linkLink \in [Link -> Links!LinkRow] /\ \A l \in Link : ~linkLink[l].used
    BY DEF Links!Init, Links!LinkRow
  <1>2. /\ linkReq \in [Request -> Links!RequestState]
        /\ \A r \in Request : linkReq[r].pc = "idle" /\ linkReq[r].link = None
    BY DEF Links!Init, Links!Idle, Links!RequestState
  <1>3. linkVerified = FALSE /\ linkRefused = FALSE
    BY DEF Links!Init
  <1> QED BY <1>1, <1>2, <1>3 DEF LinkInv, Links!TypeOK, UsedVerifies, Links!LinkConfirms

\* A request that ends, or is lost.
LEMMA LinkFinish ==
    ASSUME LinkInv, NEW r \in Request, Links!Finish(r)
    PROVE  /\ linkReq' \in [Request -> Links!RequestState]
           /\ \A q \in Request : (linkReq'[q].pc = "apply") <=> (linkReq'[q].link # None)
  BY DEF LinkInv, Links!TypeOK, Links!Finish, Links!Idle, Links!RequestState

\* Links that are mailed, expire or were lost on the way.
LEMMA MailStep ==
    ASSUME LinkInv,
           \/ \E r \in Request : Links!CheckUnverified(r) \/ Links!IssueLink(r) \/ Links!LoseRequest(r)
           \/ \E l \in Link : Links!Expire(l)
    PROVE  LinkInv'
  <1>1. ASSUME NEW r \in Request, Links!CheckUnverified(r) PROVE LinkInv'
    BY <1>1 DEF Links!CheckUnverified, LinkInv, Links!TypeOK, Links!RequestState, UsedVerifies,
                Links!LinkConfirms
  <1>2. ASSUME NEW r \in Request, Links!IssueLink(r) PROVE LinkInv'
    <2>1. PICK l \in Link : linkLink' = [linkLink EXCEPT ![l].issued = TRUE]
      BY <1>2 DEF Links!IssueLink
    <2>2. linkLink' \in [Link -> Links!LinkRow] /\ \A k \in Link : linkLink'[k].used = linkLink[k].used
      BY <2>1 DEF LinkInv, Links!TypeOK, Links!LinkRow
    <2> QED BY <1>2, <2>2, LinkFinish DEF Links!IssueLink, LinkInv, Links!TypeOK, UsedVerifies, Links!LinkConfirms
  <1>3. ASSUME NEW r \in Request, Links!LoseRequest(r) PROVE LinkInv'
    BY <1>3, LinkFinish DEF Links!LoseRequest, LinkInv, Links!TypeOK, UsedVerifies, Links!LinkConfirms
  <1>4. ASSUME NEW l \in Link, Links!Expire(l) PROVE LinkInv'
    <2>1. linkLink' \in [Link -> Links!LinkRow] /\ \A k \in Link : linkLink'[k].used = linkLink[k].used
      BY <1>4 DEF Links!Expire, LinkInv, Links!TypeOK, Links!LinkRow
    <2> QED BY <1>4, <2>1 DEF Links!Expire, LinkInv, Links!TypeOK, UsedVerifies, Links!LinkConfirms
  <1> QED BY <1>1, <1>2, <1>3, <1>4

\* Whoever opens a link that is used up is verified already.
LEMMA OpenStep == ASSUME LinkInv, NEW r \in Request, Links!OpenLink(r) PROVE LinkInv'
  <1>1. PICK l \in Link : /\ linkRefused' = (linkRefused \/ ~Links!Accepted(l))
                          /\ linkReq' = linkReq \/ linkReq' = [linkReq EXCEPT ![r] = [pc |-> "apply", link |-> l]]
    BY DEF Links!OpenLink
  <1>2. /\ linkReq' \in [Request -> Links!RequestState]
        /\ \A q \in Request : (linkReq'[q].pc = "apply") <=> (linkReq'[q].link # None)
    BY <1>1, AccountAssumption DEF LinkInv, Links!TypeOK, Links!RequestState
  <1>3. ~linkRefused'
    BY <1>1 DEF Links!Accepted, LinkInv, UsedVerifies, Links!LinkConfirms
  <1> QED BY <1>2, <1>3 DEF Links!OpenLink, LinkInv, Links!TypeOK, UsedVerifies, Links!LinkConfirms

\* The transaction marks the row and the member.
LEMMA ApplyStep == ASSUME LinkInv, NEW r \in Request, Links!ApplyLink(r) PROVE LinkInv'
  <1>1. PICK l \in Link : linkLink' = [linkLink EXCEPT ![l].used = TRUE]
    BY DEF Links!ApplyLink, LinkInv, Links!TypeOK, Links!RequestState
  <1>2. linkLink' \in [Link -> Links!LinkRow]
    BY <1>1 DEF LinkInv, Links!TypeOK, Links!LinkRow
  <1> QED BY <1>2, LinkFinish DEF Links!ApplyLink, LinkInv, Links!TypeOK, UsedVerifies, Links!LinkConfirms

\* Every step about a link keeps the invariant.
LEMMA LinkStep == LinkInv /\ (Links!Next \/ UNCHANGED linkVars) => LinkInv'
  <1> SUFFICES ASSUME LinkInv, Links!Next \/ UNCHANGED linkVars PROVE LinkInv'
    OBVIOUS
  <1>1. CASE Links!Next
    BY <1>1, MailStep, OpenStep, ApplyStep DEF Links!Next, Links!Step
  <1>2. CASE UNCHANGED linkVars
    BY <1>2 DEF linkVars, LinkInv, Links!TypeOK, UsedVerifies, Links!LinkConfirms
  <1> QED BY <1>1, <1>2

-------------------------------------------------------------------------------
(* Two-step sign-in (TwoFactor)                                            *)

\* A request that has verified a code and whose proof still counts is about to
\* enable the secret it verified.
ProofsStand ==
    \A r \in Request :
        factorReq[r] = "enrol" /\ r \notin factorHistory.torn => factorFactor.pending \in factorHistory.proven

\* The inductive invariant.
FactorInv == Factor!TypeOK /\ ProofsStand /\ Factor!EnabledIsProven

\* Two-step sign-in starts switched off.
LEMMA FactorInit == Factor!Init => FactorInv
  BY DEF Factor!Init, FactorInv, Factor!TypeOK, ProofsStand, Factor!EnabledIsProven, Factor!Off,
         Factor!Factor, Factor!RequestStep, Factor!History

\* A new pending secret tears the proofs of all who verified the old one.
LEMMA BeginSetupStep ==
    ASSUME FactorInv, NEW r \in Request, Factor!BeginSetup(r) PROVE FactorInv'
  <1>1. PICK s \in Secret : factorFactor' = [factorFactor EXCEPT !.pending = s]
    BY DEF Factor!BeginSetup
  <1>2. /\ factorHistory' = [factorHistory EXCEPT !.torn = @ \cup Factor!Enrolling(r)]
        /\ factorReq' = factorReq /\ factorReq[r] = "idle"
    BY DEF Factor!BeginSetup
  <1>3. Factor!TypeOK'
    BY <1>1, <1>2 DEF FactorInv, Factor!TypeOK, Factor!Factor, Factor!History, Factor!Enrolling
  <1>4. ProofsStand'
    BY <1>2 DEF FactorInv, Factor!TypeOK, Factor!History, ProofsStand, Factor!Enrolling
  <1>5. Factor!EnabledIsProven'
    BY <1>1, <1>2 DEF FactorInv, Factor!TypeOK, Factor!Factor, Factor!History, Factor!EnabledIsProven
  <1> QED BY <1>3, <1>4, <1>5 DEF FactorInv

\* What was verified is proven.
LEMMA VerifySetupStep ==
    ASSUME FactorInv, NEW r \in Request, Factor!VerifySetup(r) PROVE FactorInv'
  <1>1. /\ factorFactor' = factorFactor /\ factorFactor.pending \in Secret
        /\ factorHistory' = [factorHistory EXCEPT !.proven = @ \cup {factorFactor.pending}]
        /\ factorReq' = [factorReq EXCEPT ![r] = "enrol"]
    BY DEF Factor!VerifySetup, Factor!Goto, FactorInv, Factor!TypeOK, Factor!Factor
  <1>2. Factor!TypeOK'
    BY <1>1 DEF FactorInv, Factor!TypeOK, Factor!RequestStep, Factor!History
  <1>3. ProofsStand'
    BY <1>1 DEF FactorInv, Factor!TypeOK, Factor!History, ProofsStand
  <1>4. Factor!EnabledIsProven'
    BY <1>1 DEF FactorInv, Factor!TypeOK, Factor!History, Factor!EnabledIsProven
  <1> QED BY <1>2, <1>3, <1>4 DEF FactorInv

\* A request whose proof stands stores a proven secret; whose does not, is shaky.
LEMMA EnableFactorStep ==
    ASSUME FactorInv, NEW r \in Request, Factor!EnableFactor(r) PROVE FactorInv'
  <1>1. /\ factorReq[r] = "enrol" /\ factorReq' = [factorReq EXCEPT ![r] = "idle"]
        /\ factorFactor' = [enabled |-> TRUE, secret |-> factorFactor.pending, pending |-> None]
    BY DEF Factor!EnableFactor, Factor!Goto
  <1>2. /\ factorHistory'.proven = factorHistory.proven
        /\ factorHistory'.torn = (factorHistory.torn \ {r}) \cup Factor!Enrolling(r)
        /\ factorHistory'.shaky = (r \in factorHistory.torn)
    BY DEF Factor!EnableFactor, FactorInv, Factor!TypeOK, Factor!History
  <1> DEFINE torn == (factorHistory.torn \ {r}) \cup Factor!Enrolling(r)
             shaky == r \in factorHistory.torn
  <1>a. torn \in SUBSET Request /\ shaky \in BOOLEAN
    BY DEF FactorInv, Factor!TypeOK, Factor!History, Factor!Enrolling
  <1>b. factorHistory' = [factorHistory EXCEPT !.shaky = shaky, !.torn = torn]
    BY DEF Factor!EnableFactor
  <1> HIDE DEF torn, shaky
  <1>3. factorHistory' \in Factor!History
    BY <1>a, <1>b DEF FactorInv, Factor!TypeOK, Factor!History
  <1>4. Factor!TypeOK'
    BY <1>1, <1>3 DEF FactorInv, Factor!TypeOK, Factor!Factor, Factor!RequestStep
  <1>5. ProofsStand'
    BY <1>1, <1>2 DEF FactorInv, Factor!TypeOK, ProofsStand, Factor!Enrolling
  <1>6. Factor!EnabledIsProven'
    BY <1>1, <1>2 DEF FactorInv, ProofsStand, Factor!EnabledIsProven
  <1> QED BY <1>4, <1>5, <1>6 DEF FactorInv

\* Switching off tears the proofs of the others; the request itself is done.
LEMMA SwitchOffStep ==
    ASSUME FactorInv, NEW r \in Request, Factor!DisableFactor(r) \/ Factor!AdminReset(r) PROVE FactorInv'
  <1>1. /\ factorFactor' = Factor!Off
        /\ factorHistory' = [factorHistory EXCEPT !.shaky = FALSE, !.torn = @ \cup Factor!Enrolling(r)]
        /\ factorReq' \in [Request -> Factor!RequestStep]
        /\ factorReq'[r] = "idle" /\ \A q \in Request \ {r} : factorReq'[q] = factorReq[q]
    BY DEF Factor!DisableFactor, Factor!AdminReset, Factor!SwitchOff, Factor!Goto, FactorInv,
           Factor!TypeOK, Factor!RequestStep
  <1>2. /\ factorHistory' \in Factor!History
        /\ factorHistory'.torn = factorHistory.torn \cup Factor!Enrolling(r)
    BY <1>1 DEF FactorInv, Factor!TypeOK, Factor!History, Factor!Enrolling
  <1>3. Factor!TypeOK' /\ Factor!EnabledIsProven'
    BY <1>1, <1>2 DEF Factor!TypeOK, Factor!EnabledIsProven, Factor!Off, Factor!Factor
  <1>4. ProofsStand'
    BY <1>1, <1>2 DEF ProofsStand, Factor!Enrolling
  <1> QED BY <1>3, <1>4 DEF FactorInv

\* The other steps touch neither the pending secret nor the proofs.
LEMMA FactorKept ==
    ASSUME FactorInv, NEW r \in Request, Factor!VerifyDisable(r) \/ Factor!EraseMember(r) \/ Factor!LoseRequest(r)
    PROVE  FactorInv'
  <1>1. /\ factorFactor' = factorFactor \/ factorFactor' = [factorFactor EXCEPT !.enabled = FALSE]
        /\ factorHistory' = factorHistory \/ factorHistory' = [factorHistory EXCEPT !.torn = @ \ {r}]
    BY DEF Factor!VerifyDisable, Factor!EraseMember, Factor!LoseRequest
  <1>2. /\ factorReq' \in [Request -> Factor!RequestStep]
        /\ \A q \in Request : factorReq'[q] = "enrol" => factorReq[q] = "enrol"
        /\ factorHistory' # factorHistory => factorReq'[r] = "idle"
    BY DEF Factor!VerifyDisable, Factor!EraseMember, Factor!LoseRequest, Factor!Goto, FactorInv,
           Factor!TypeOK, Factor!RequestStep
  <1>3. /\ factorFactor' \in Factor!Factor /\ factorFactor'.pending = factorFactor.pending /\ factorFactor'.secret = factorFactor.secret
        /\ factorFactor'.enabled => factorFactor.enabled
    BY <1>1 DEF FactorInv, Factor!TypeOK, Factor!Factor
  <1>4. /\ factorHistory' \in Factor!History /\ factorHistory'.proven = factorHistory.proven
        /\ factorHistory'.shaky = factorHistory.shaky
        /\ \A q \in Request : q \in factorHistory.torn /\ q \notin factorHistory'.torn => factorReq'[q] = "idle"
    BY <1>1, <1>2 DEF FactorInv, Factor!TypeOK, Factor!History
  <1>5. Factor!TypeOK' /\ ProofsStand' /\ Factor!EnabledIsProven'
    BY <1>2, <1>3, <1>4 DEF FactorInv, Factor!TypeOK, ProofsStand, Factor!EnabledIsProven
  <1> QED BY <1>5 DEF FactorInv

\* Every step keeps the invariant.
LEMMA FactorStep == FactorInv /\ (Factor!Next \/ UNCHANGED factorVars) => FactorInv'
  <1> SUFFICES ASSUME FactorInv, (Factor!Next \/ UNCHANGED factorVars) PROVE FactorInv'
    OBVIOUS
  <1>1. CASE UNCHANGED factorVars
    BY <1>1 DEF factorVars, FactorInv, Factor!TypeOK, ProofsStand, Factor!EnabledIsProven
  <1>2. ASSUME NEW r \in Request, Factor!Step(r) PROVE FactorInv'
    BY <1>2, BeginSetupStep, VerifySetupStep, EnableFactorStep, SwitchOffStep, FactorKept DEF Factor!Step
  <1> QED BY <1>1, <1>2 DEF Factor!Next

-------------------------------------------------------------------------------
(* The erased member (MemberErasure)                                       *)

\* A suspension for a time is a suspension, and one that was ordered while an
\* erasure was past its sign-in is known of.
SuspensionsEnd ==
    /\ memberMember.until # "none" => memberMember.suspended
    /\ Erasure!InFlight({"load", "check", "erase"}) /\ memberMember.until # "none" =>
           "suspend" \in memberHistory.beside

\* Between the check and the erasure the member only comes to owe a stay by a
\* booking that is known of.
ChecksHold == Erasure!InFlight({"erase"}) /\ memberHistory.beside = {} => memberStay.stage # "live"

\* An erased member has no suspension that ends, is let into no handler that writes
\* data or books, and has no listing that can be booked.
ErasedIsOver ==
    /\ Erasure!Gone /\ "suspend" \notin memberHistory.beside =>
           memberMember.suspended /\ memberMember.until = "none"
    /\ Erasure!Gone /\ memberHistory.beside \cap {"save", "suspend"} = {} =>
           memberMember.data = {} /\ ~Erasure!InFlight({"save"})
    /\ Erasure!Gone /\ memberHistory.beside = {} =>
           memberStay.stage # "live" /\ ~memberListing /\ ~Erasure!InFlight({"insert", "sale", "show"})

\* The inductive invariant.
ErasureInv == Erasure!TypeOK /\ SuspensionsEnd /\ ChecksHold /\ ErasedIsOver /\ Erasure!BannedStaysOut

\* Nothing is asked of the member yet.
LEMMA ErasureInit == Erasure!Init => ErasureInv
  <1> SUFFICES ASSUME Erasure!Init PROVE ErasureInv
    OBVIOUS
  <1>1. Erasure!TypeOK
    <2>1. memberMember \in Erasure!Member
      BY DEF Erasure!Init, Erasure!Member, Erasure!Kind
    <2>2. memberHistory \in Erasure!History
      BY DEF Erasure!Init, Erasure!History
    <2>3. memberStay \in Erasure!Stay /\ memberListing \in BOOLEAN /\ memberReq \in [Request -> Erasure!RequestStep]
      BY DEF Erasure!Init, Erasure!Stay, Erasure!NoStay, Erasure!RequestStep
    <2> QED BY <2>1, <2>2, <2>3 DEF Erasure!TypeOK
  <1>2. memberMember.until = "none" /\ ~memberMember.deleted /\ ~memberMember.banned
    BY DEF Erasure!Init
  <1>3. memberStay.stage = "none"
    BY DEF Erasure!Init, Erasure!NoStay
  <1> QED BY <1>1, <1>2, <1>3 DEF ErasureInv, SuspensionsEnd, ChecksHold, ErasedIsOver, Erasure!Gone,
                                  Erasure!BannedStaysOut

\* A request goes on, and the rows stay as they are.
LEMMA ErasureMoves ==
    ASSUME ErasureInv, NEW r \in Request, NEW pc \in Erasure!RequestStep, Erasure!Goto(r, pc),
           UNCHANGED <<memberMember, memberListing, memberStay, memberHistory>>,
           pc \in {"load", "check", "erase"} =>
               memberReq[r] \in {"load", "check", "erase"} \/ ~memberMember.suspended,
           pc = "erase" => memberReq[r] = "erase" \/ memberStay.stage # "live",
           pc = "save" => memberReq[r] = "save" \/ ~memberMember.suspended,
           pc \in {"insert", "sale", "show"} =>
               memberReq[r] \in {"insert", "sale", "show"} \/ ~memberMember.suspended \/ memberListing
    PROVE  ErasureInv'
  <1>1. memberReq' = [memberReq EXCEPT ![r] = pc] /\ memberReq \in [Request -> Erasure!RequestStep]
    BY DEF Erasure!Goto, ErasureInv, Erasure!TypeOK
  <1>2. Erasure!TypeOK'
    BY <1>1 DEF ErasureInv, Erasure!TypeOK
  <1>3. Erasure!Gone' = Erasure!Gone
    BY DEF Erasure!Gone
  <1>4. SuspensionsEnd'
    BY <1>1 DEF ErasureInv, SuspensionsEnd, Erasure!InFlight
  <1>5. ChecksHold'
    BY <1>1 DEF ErasureInv, ChecksHold, Erasure!InFlight
  <1>6. ErasedIsOver'
    BY <1>1, <1>3 DEF ErasureInv, ErasedIsOver, Erasure!InFlight
  <1> QED BY <1>2, <1>4, <1>5, <1>6 DEF ErasureInv, Erasure!BannedStaysOut

\* The steps that only look: a member is let in unless suspended, and the check of an
\* erasure finds no stay to come.
LEMMA LookStep ==
    ASSUME ErasureInv, NEW r \in Request,
           \/ Erasure!Begin(r) \/ Erasure!CheckGuest(r) \/ Erasure!CheckListing(r)
           \/ Erasure!LoadMember(r) \/ Erasure!CheckObligations(r) \/ Erasure!LoseRequest(r)
    PROVE  ErasureInv'
  <1>1. CASE Erasure!Begin(r)
    <2>1. PICK pc \in {"save", "book", "load"} : Erasure!Goto(r, pc)
      BY <1>1 DEF Erasure!Begin
    <2> QED BY <1>1, <2>1, ErasureMoves DEF Erasure!Begin, Erasure!LetIn, Erasure!RequestStep
  <1>2. CASE Erasure!CheckGuest(r)
    BY <1>2, ErasureMoves DEF Erasure!CheckGuest, Erasure!RequestStep
  <1>3. CASE Erasure!CheckListing(r)
    BY <1>3, ErasureMoves DEF Erasure!CheckListing, Erasure!RequestStep
  <1>4. CASE Erasure!LoadMember(r)
    BY <1>4, ErasureMoves DEF Erasure!LoadMember, Erasure!RequestStep
  <1>5. CASE Erasure!CheckObligations(r)
    BY <1>5, ErasureMoves DEF Erasure!CheckObligations, Erasure!Obliged, Erasure!RequestStep
  <1>6. CASE Erasure!LoseRequest(r)
    BY <1>6, ErasureMoves DEF Erasure!LoseRequest, Erasure!RequestStep
  <1> QED BY <1>1, <1>2, <1>3, <1>4, <1>5, <1>6

\* A request comes to its last write, and goes idle or on to the listings.
LEMMA RequestEnds ==
    ASSUME ErasureInv, NEW r \in Request, NEW pc \in Erasure!RequestStep, Erasure!Goto(r, pc)
    PROVE  /\ memberReq' \in [Request -> Erasure!RequestStep]
           /\ memberReq'[r] = pc
           /\ \A q \in Request \ {r} : memberReq'[q] = memberReq[q]
  BY DEF Erasure!Goto, ErasureInv, Erasure!TypeOK

\* Data are written for an erased member only by a request it was let in with before.
LEMMA SaveStep == ASSUME ErasureInv, NEW r \in Request, Erasure!SaveData(r) PROVE ErasureInv'
  <1>1. PICK k \in Erasure!Kind : memberMember' = [memberMember EXCEPT !.data = @ \cup {k}]
    BY DEF Erasure!SaveData
  <1>2. /\ memberReq[r] = "save" /\ Erasure!Goto(r, "idle")
        /\ UNCHANGED <<memberListing, memberStay, memberHistory>>
    BY DEF Erasure!SaveData
  <1>3. /\ memberReq' \in [Request -> Erasure!RequestStep] /\ memberReq'[r] = "idle"
        /\ \A q \in Request \ {r} : memberReq'[q] = memberReq[q]
    BY <1>2, RequestEnds DEF Erasure!RequestStep
  <1>4. /\ memberMember' \in Erasure!Member
        /\ memberMember'.until = memberMember.until
        /\ memberMember'.suspended = memberMember.suspended
        /\ memberMember'.deleted = memberMember.deleted
        /\ memberMember'.banned = memberMember.banned
    BY <1>1 DEF ErasureInv, Erasure!TypeOK, Erasure!Member
  <1>5. Erasure!TypeOK'
    BY <1>2, <1>3, <1>4 DEF ErasureInv, Erasure!TypeOK
  <1>6. SuspensionsEnd' /\ ChecksHold' /\ Erasure!BannedStaysOut'
    BY <1>2, <1>3, <1>4 DEF ErasureInv, SuspensionsEnd, ChecksHold, Erasure!BannedStaysOut, Erasure!InFlight
  <1>7. ErasedIsOver'
    BY <1>2, <1>3, <1>4 DEF ErasureInv, ErasedIsOver, Erasure!Gone, Erasure!InFlight
  <1> QED BY <1>5, <1>6, <1>7 DEF ErasureInv

\* A booking while an erasure is past its check is known of.
LEMMA InsertStep == ASSUME ErasureInv, NEW r \in Request, Erasure!BookStay(r) \/ Erasure!SellStay(r) PROVE ErasureInv'
  <1>1. PICK party \in {"guest", "host"} :
            /\ memberReq[r] \in {"insert", "sale"} /\ memberStay' = [party |-> party, stage |-> "live"]
            /\ memberHistory' = [memberHistory EXCEPT !.beside =
                                   IF Erasure!InFlight({"erase"}) THEN @ \cup {"deal"} ELSE @]
            /\ Erasure!Goto(r, "idle")
            /\ UNCHANGED <<memberMember, memberListing>>
    BY DEF Erasure!BookStay, Erasure!SellStay, Erasure!InsertBooking
  <1>2. /\ memberReq' \in [Request -> Erasure!RequestStep] /\ memberReq'[r] = "idle"
        /\ \A q \in Request \ {r} : memberReq'[q] = memberReq[q]
    BY <1>1, RequestEnds DEF Erasure!RequestStep
  <1>3. /\ memberHistory' \in Erasure!History
        /\ memberHistory.beside \subseteq memberHistory'.beside
        /\ memberHistory'.beside \subseteq memberHistory.beside \cup {"deal"}
        /\ Erasure!InFlight({"erase"}) => memberHistory'.beside # {}
        /\ memberHistory'.readmitted = memberHistory.readmitted
        /\ memberHistory'.restored = memberHistory.restored
    BY <1>1 DEF ErasureInv, Erasure!TypeOK, Erasure!History
  <1>4. memberStay' \in Erasure!Stay
    BY <1>1 DEF Erasure!Stay
  <1>5. Erasure!TypeOK'
    BY <1>1, <1>2, <1>3, <1>4 DEF ErasureInv, Erasure!TypeOK
  <1>6. SuspensionsEnd' /\ ChecksHold' /\ Erasure!BannedStaysOut'
    BY <1>1, <1>2, <1>3 DEF ErasureInv, SuspensionsEnd, ChecksHold, Erasure!BannedStaysOut, Erasure!InFlight
  <1>7. Erasure!Gone' => Erasure!Gone
    BY <1>1, <1>3 DEF Erasure!Gone
  <1>8. ErasedIsOver'
    BY <1>1, <1>2, <1>3, <1>7 DEF ErasureInv, ErasedIsOver, Erasure!InFlight
  <1> QED BY <1>5, <1>6, <1>8 DEF ErasureInv

\* A stay ends, and what it earned is paid out.
LEMMA StayStep ==
    ASSUME ErasureInv, Erasure!EndStay \/ Erasure!SchedulePayout \/ Erasure!PayOut PROVE ErasureInv'
  <1>1. memberStay' \in Erasure!Stay /\ memberStay'.stage # "live"
    BY DEF Erasure!EndStay, Erasure!SchedulePayout, Erasure!PayOut, Erasure!NoStay, ErasureInv, Erasure!TypeOK,
           Erasure!Stay
  <1>2. UNCHANGED <<memberMember, memberListing, memberReq, memberHistory>>
    BY DEF Erasure!EndStay, Erasure!SchedulePayout, Erasure!PayOut
  <1> QED BY <1>1, <1>2 DEF ErasureInv, Erasure!TypeOK, SuspensionsEnd, ChecksHold, ErasedIsOver, Erasure!Gone,
                            Erasure!InFlight, Erasure!BannedStaysOut

\* A password and a ticket let nobody in that is suspended.
LEMMA PasswordStep ==
    ASSUME ErasureInv, Erasure!TakeTicket \/ Erasure!ResetPassword PROVE ErasureInv'
  <1>1. /\ memberMember' \in Erasure!Member
        /\ memberMember'.until = memberMember.until
        /\ memberMember'.suspended = memberMember.suspended
        /\ memberMember'.deleted = memberMember.deleted
        /\ memberMember'.banned = memberMember.banned
        /\ memberMember'.data = memberMember.data
    BY DEF Erasure!TakeTicket, Erasure!ResetPassword, ErasureInv, Erasure!TypeOK, Erasure!Member
  <1>2. UNCHANGED <<memberListing, memberStay, memberReq, memberHistory>>
    BY DEF Erasure!TakeTicket, Erasure!ResetPassword
  <1> QED BY <1>1, <1>2 DEF ErasureInv, Erasure!TypeOK, SuspensionsEnd, ChecksHold, ErasedIsOver, Erasure!Gone,
                            Erasure!InFlight, Erasure!BannedStaysOut

\* The erasure itself: what is still to come of requests past their checks is known of.
LEMMA EraseStep == ASSUME ErasureInv, NEW r \in Request, Erasure!Erase(r) PROVE ErasureInv'
  <1>1. /\ memberReq[r] = "erase" /\ Erasure!Goto(r, "idle")
        /\ memberMember' = Erasure!Erased /\ memberListing' = FALSE /\ memberStay' = memberStay
        /\ memberHistory' = [memberHistory EXCEPT !.beside = @ \cup Erasure!StillToCome]
    BY DEF Erasure!Erase
  <1>2. /\ memberReq' \in [Request -> Erasure!RequestStep] /\ memberReq'[r] = "idle"
        /\ \A q \in Request \ {r} : memberReq'[q] = memberReq[q]
    BY <1>1, RequestEnds DEF Erasure!RequestStep
  <1>3. /\ memberMember' \in Erasure!Member
        /\ memberMember'.until = memberMember.until
        /\ memberMember'.suspended = TRUE
        /\ memberMember'.data = {}
        /\ memberMember'.banned = memberMember.banned
    BY <1>1 DEF Erasure!Erased, ErasureInv, Erasure!TypeOK, Erasure!Member
  <1>4. /\ memberHistory' \in Erasure!History
        /\ memberHistory'.beside = memberHistory.beside \cup Erasure!StillToCome
        /\ memberHistory'.readmitted = memberHistory.readmitted
        /\ memberHistory'.restored = memberHistory.restored
    BY <1>1 DEF ErasureInv, Erasure!TypeOK, Erasure!History, Erasure!StillToCome
  <1>5. /\ Erasure!InFlight({"save"}) => "save" \in memberHistory'.beside
        /\ Erasure!InFlight({"insert", "sale", "show"}) => "deal" \in memberHistory'.beside
        /\ memberHistory.beside \subseteq memberHistory'.beside
        /\ "suspend" \in memberHistory'.beside => "suspend" \in memberHistory.beside
    BY <1>4 DEF Erasure!StillToCome
  <1>6. \A pcs : Erasure!InFlight(pcs)' => "idle" \in pcs \/ Erasure!InFlight(pcs)
    BY <1>2 DEF Erasure!InFlight
  <1>7. Erasure!TypeOK'
    BY <1>1, <1>2, <1>3, <1>4 DEF ErasureInv, Erasure!TypeOK
  <1>8. SuspensionsEnd' /\ Erasure!BannedStaysOut'
    BY <1>3, <1>5, <1>6 DEF ErasureInv, SuspensionsEnd, Erasure!BannedStaysOut
  <1>9. Erasure!InFlight({"load", "check", "erase"}) /\ Erasure!InFlight({"erase"})
    BY <1>1 DEF Erasure!InFlight
  <1>10. ChecksHold'
    BY <1>1, <1>5, <1>9 DEF ErasureInv, ChecksHold
  <1>11. "suspend" \notin memberHistory'.beside => memberMember'.until = "none"
    BY <1>3, <1>5, <1>9 DEF ErasureInv, SuspensionsEnd
  <1>12. memberHistory'.beside = {} => memberStay'.stage # "live" /\ ~Erasure!InFlight({"insert", "sale", "show"})'
    BY <1>1, <1>5, <1>6, <1>9 DEF ErasureInv, ChecksHold
  <1>13. memberHistory'.beside \cap {"save", "suspend"} = {} => ~Erasure!InFlight({"save"})'
    BY <1>5, <1>6
  <1>14. ErasedIsOver'
    BY <1>1, <1>3, <1>11, <1>12, <1>13 DEF ErasedIsOver
  <1> QED BY <1>7, <1>8, <1>10, <1>14 DEF ErasureInv

\* A suspension while an erasure is past its sign-in is known of, and one for a time
\* lets an erased member back in.
LEMMA SuspendMemberStep ==
    ASSUME ErasureInv, NEW until \in {"none", "ahead"}, Erasure!SuspendMember(until) PROVE ErasureInv'
  <1> DEFINE readmitted == memberHistory.readmitted \/ (memberMember.deleted /\ until = "ahead")
             beside == IF Erasure!InFlight({"load", "check", "erase"})
                       THEN memberHistory.beside \cup {"suspend"} ELSE memberHistory.beside
  <1>1. /\ memberMember' = [memberMember EXCEPT !.suspended = TRUE, !.until = until]
        /\ memberHistory' = [memberHistory EXCEPT !.readmitted = readmitted, !.beside = beside]
        /\ UNCHANGED <<memberListing, memberStay, memberReq>>
    BY DEF Erasure!SuspendMember
  <1>2. /\ memberMember' \in Erasure!Member
        /\ memberMember'.suspended = TRUE /\ memberMember'.until = until
        /\ memberMember'.banned = memberMember.banned /\ memberMember'.deleted = memberMember.deleted
        /\ memberMember'.data = memberMember.data
    BY <1>1 DEF ErasureInv, Erasure!TypeOK, Erasure!Member
  <1>3. readmitted \in BOOLEAN /\ beside \in SUBSET {"save", "deal", "suspend"}
    BY DEF ErasureInv, Erasure!TypeOK, Erasure!History, Erasure!Member
  <1>4. /\ memberHistory.readmitted => readmitted
        /\ memberMember.deleted /\ until = "ahead" => readmitted
        /\ memberHistory.beside \subseteq beside
        /\ Erasure!InFlight({"load", "check", "erase"}) => "suspend" \in beside
    OBVIOUS
  <1> HIDE DEF readmitted, beside
  <1>5. /\ memberHistory' \in Erasure!History
        /\ memberHistory'.readmitted = readmitted /\ memberHistory'.beside = beside
        /\ memberHistory'.restored = memberHistory.restored
    BY <1>1, <1>3 DEF ErasureInv, Erasure!TypeOK, Erasure!History
  <1>6. Erasure!TypeOK'
    BY <1>1, <1>2, <1>5 DEF ErasureInv, Erasure!TypeOK
  <1>7. \A pcs : Erasure!InFlight(pcs)' <=> Erasure!InFlight(pcs)
    BY <1>1 DEF Erasure!InFlight
  <1>8. SuspensionsEnd' /\ Erasure!BannedStaysOut'
    BY <1>2, <1>4, <1>5, <1>7 DEF SuspensionsEnd, Erasure!BannedStaysOut
  <1>9. ChecksHold'
    BY <1>1, <1>4, <1>5, <1>7 DEF ErasureInv, ChecksHold
  <1>10. Erasure!Gone' => Erasure!Gone /\ until = "none"
    BY <1>2, <1>4, <1>5 DEF Erasure!Gone
  <1>11. ErasedIsOver'
    BY <1>1, <1>2, <1>4, <1>5, <1>7, <1>10 DEF ErasureInv, ErasedIsOver
  <1> QED BY <1>6, <1>8, <1>9, <1>11 DEF ErasureInv

\* A member who is let back in is not gone any more.
LEMMA BackInStep ==
    ASSUME ErasureInv, NEW readmitted \in BOOLEAN, NEW restored \in BOOLEAN, NEW banned \in BOOLEAN,
           memberMember' = [memberMember EXCEPT !.banned = banned, !.suspended = FALSE, !.until = "none"],
           memberHistory' = [memberHistory EXCEPT !.readmitted = readmitted, !.restored = restored],
           memberMember.deleted => readmitted, banned => restored,
           UNCHANGED <<memberListing, memberStay>>,
           memberReq' \in [Request -> Erasure!RequestStep],
           \A q \in Request : memberReq'[q] # "show" => memberReq'[q] = memberReq[q]
    PROVE  ErasureInv'
  <1>1. /\ memberMember' \in Erasure!Member
        /\ memberMember'.until = "none" /\ memberMember'.banned = banned
        /\ memberMember'.deleted = memberMember.deleted
    BY DEF ErasureInv, Erasure!TypeOK, Erasure!Member
  <1>2. /\ memberHistory' \in Erasure!History
        /\ memberHistory'.readmitted = readmitted /\ memberHistory'.restored = restored
        /\ memberHistory'.beside = memberHistory.beside
    BY DEF ErasureInv, Erasure!TypeOK, Erasure!History
  <1>3. ~Erasure!Gone'
    BY <1>1, <1>2 DEF Erasure!Gone
  <1>4. Erasure!InFlight({"erase"})' => Erasure!InFlight({"erase"})
    BY DEF Erasure!InFlight
  <1>5. Erasure!TypeOK' /\ SuspensionsEnd' /\ ChecksHold' /\ ErasedIsOver' /\ Erasure!BannedStaysOut'
    BY <1>1, <1>2, <1>3, <1>4 DEF ErasureInv, Erasure!TypeOK, SuspensionsEnd, ChecksHold, ErasedIsOver,
                                  Erasure!BannedStaysOut
  <1> QED BY <1>5 DEF ErasureInv

\* A member restored, or whose ban is lifted, is let back in.
LEMMA RestoreStep ==
    ASSUME ErasureInv, Erasure!RestoreMember \/ \E r \in Request : Erasure!LiftBan(r) PROVE ErasureInv'
  <1> DEFINE readmitted == memberHistory.readmitted \/ memberMember.deleted
             restored == memberHistory.restored \/ memberMember.banned
  <1>1. /\ readmitted \in BOOLEAN /\ (memberMember.deleted => readmitted)
        /\ restored \in BOOLEAN /\ (memberMember.banned => restored) /\ memberMember.banned \in BOOLEAN
    BY DEF ErasureInv, Erasure!TypeOK, Erasure!History, Erasure!Member
  <1>2. CASE Erasure!RestoreMember
    <2>1. /\ memberMember' = [memberMember EXCEPT !.suspended = FALSE, !.until = "none"]
          /\ memberHistory' = [memberHistory EXCEPT !.readmitted = readmitted, !.restored = restored]
          /\ UNCHANGED <<memberListing, memberStay, memberReq>>
      BY <1>2 DEF Erasure!RestoreMember, Erasure!LetBackIn
    <2> HIDE DEF readmitted, restored
    <2>2. memberMember' = [memberMember EXCEPT !.banned = memberMember.banned, !.suspended = FALSE, !.until = "none"]
      BY <2>1 DEF ErasureInv, Erasure!TypeOK, Erasure!Member
    <2>3. memberReq' \in [Request -> Erasure!RequestStep]
      BY <2>1 DEF ErasureInv, Erasure!TypeOK
    <2> QED BY <1>1, <2>1, <2>2, <2>3, BackInStep
  <1>3. ASSUME NEW r \in Request, Erasure!LiftBan(r) PROVE ErasureInv'
    <2>1. /\ memberMember' = [memberMember EXCEPT !.banned = FALSE, !.suspended = FALSE, !.until = "none"]
          /\ memberHistory' = [memberHistory EXCEPT !.readmitted = readmitted, !.restored = FALSE]
          /\ UNCHANGED <<memberListing, memberStay>> /\ Erasure!Goto(r, "show")
      BY <1>3 DEF Erasure!LiftBan
    <2> HIDE DEF readmitted, restored
    <2>2. /\ memberReq' \in [Request -> Erasure!RequestStep]
          /\ \A q \in Request : memberReq'[q] # "show" => memberReq'[q] = memberReq[q]
      BY <2>1, RequestEnds DEF Erasure!RequestStep
    <2>3. FALSE \in BOOLEAN
      OBVIOUS
    <2> QED BY <1>1, <2>1, <2>2, <2>3, BackInStep
  <1> QED BY <1>2, <1>3

\* The end of a suspension, which neither an erased member has nor a banned one.
LEMMA SuspensionEndStep ==
    ASSUME ErasureInv, Erasure!LiftExpiredSuspensions \/ Erasure!SuspensionEnds PROVE ErasureInv'
  <1>1. /\ memberMember' \in Erasure!Member
        /\ memberMember.until # "none" /\ (memberMember'.until = "none" \/ memberMember'.suspended = memberMember.suspended)
        /\ memberMember'.suspended \/ ~memberMember.banned \/ memberMember'.suspended = memberMember.suspended
        /\ memberMember'.deleted = memberMember.deleted
        /\ memberMember'.banned = memberMember.banned
        /\ memberMember'.data = memberMember.data
    BY DEF Erasure!LiftExpiredSuspensions, Erasure!SuspensionEnds, ErasureInv, Erasure!TypeOK, Erasure!Member
  <1>2. UNCHANGED <<memberListing, memberStay, memberReq, memberHistory>>
    BY DEF Erasure!LiftExpiredSuspensions, Erasure!SuspensionEnds
  <1>3. Erasure!TypeOK' /\ SuspensionsEnd' /\ ChecksHold' /\ Erasure!BannedStaysOut'
    BY <1>1, <1>2 DEF ErasureInv, Erasure!TypeOK, SuspensionsEnd, ChecksHold, Erasure!InFlight,
                      Erasure!BannedStaysOut
  <1>4. ErasedIsOver'
    BY <1>1, <1>2 DEF ErasureInv, ErasedIsOver, Erasure!Gone, Erasure!InFlight
  <1> QED BY <1>3, <1>4 DEF ErasureInv

\* A ban, and what it and its end do to the listings.
LEMMA BanMemberStep ==
    ASSUME ErasureInv, NEW r \in Request,
           Erasure!BanMember(r) \/ Erasure!HideListings(r) \/ Erasure!ShowListings(r)
    PROVE  ErasureInv'
  <1>1. PICK pc \in {"hide", "idle"} : Erasure!Goto(r, pc)
    BY DEF Erasure!BanMember, Erasure!HideListings, Erasure!ShowListings
  <1>2. /\ memberReq' \in [Request -> Erasure!RequestStep] /\ memberReq'[r] \in {"hide", "idle"}
        /\ \A q \in Request \ {r} : memberReq'[q] = memberReq[q]
    BY <1>1, RequestEnds DEF Erasure!RequestStep
  <1>3. UNCHANGED <<memberStay, memberHistory>>
    BY DEF Erasure!BanMember, Erasure!HideListings, Erasure!ShowListings
  <1>4. /\ memberMember' \in Erasure!Member
        /\ memberMember' # memberMember => memberMember'.suspended /\ memberMember'.until = "none"
        /\ memberMember'.deleted = memberMember.deleted
        /\ memberMember'.data = memberMember.data
    <2>1. CASE Erasure!BanMember(r)
      BY <2>1 DEF Erasure!BanMember, ErasureInv, Erasure!TypeOK, Erasure!Member
    <2>2. CASE memberMember' = memberMember
      BY <2>2 DEF ErasureInv, Erasure!TypeOK
    <2> QED BY <2>1, <2>2 DEF Erasure!HideListings, Erasure!ShowListings
  <1>5. /\ memberListing' \in BOOLEAN
        /\ memberListing' => memberListing \/ memberReq[r] = "show"
    <2>1. CASE memberListing' = memberListing
      BY <2>1 DEF ErasureInv, Erasure!TypeOK
    <2>2. CASE memberListing' = FALSE
      BY <2>2
    <2>3. CASE memberListing' = TRUE /\ memberReq[r] = "show"
      BY <2>3
    <2> QED BY <2>1, <2>2, <2>3 DEF Erasure!BanMember, Erasure!HideListings, Erasure!ShowListings
  <1>6. Erasure!TypeOK'
    BY <1>2, <1>3, <1>4, <1>5 DEF ErasureInv, Erasure!TypeOK
  <1>7. SuspensionsEnd' /\ ChecksHold' /\ Erasure!BannedStaysOut'
    BY <1>2, <1>3, <1>4 DEF ErasureInv, SuspensionsEnd, ChecksHold, Erasure!InFlight, Erasure!BannedStaysOut
  <1>8. ErasedIsOver'
    BY <1>2, <1>3, <1>4, <1>5 DEF ErasureInv, ErasedIsOver, Erasure!Gone, Erasure!InFlight
  <1> QED BY <1>6, <1>7, <1>8 DEF ErasureInv

\* Every step about the member keeps the invariant.
LEMMA ErasureStep == ErasureInv /\ (Erasure!Next \/ UNCHANGED memberVars) => ErasureInv'
  <1> SUFFICES ASSUME ErasureInv, Erasure!Next \/ UNCHANGED memberVars PROVE ErasureInv'
    OBVIOUS
  <1>1. ASSUME NEW r \in Request, Erasure!Step(r) PROVE ErasureInv'
    BY <1>1, LookStep, SaveStep, InsertStep, EraseStep, RestoreStep, BanMemberStep DEF Erasure!Step
  <1>2. CASE Erasure!Next
    BY <1>1, <1>2, StayStep, PasswordStep, SuspendMemberStep, RestoreStep, SuspensionEndStep DEF Erasure!Next
  <1>3. CASE UNCHANGED memberVars
    BY <1>3 DEF memberVars, ErasureInv, Erasure!TypeOK, SuspensionsEnd, ChecksHold, ErasedIsOver, Erasure!Gone,
                Erasure!InFlight, Erasure!BannedStaysOut
  <1> QED BY <1>2, <1>3

-------------------------------------------------------------------------------
(* The limiter (RateLimiter)                                               *)

\* The attempts a counter let through fall into windows that do not overlap, and in
\* one of them no two are the same hit.
HitsAreCounted ==
    \A s \in Limiter!Counter : \A h \in limitLet[s] :
        /\ h.nth \in 1 .. MaxHits
        /\ h.end - Window <= h.at /\ h.at < h.end /\ h.at <= limitNow
        /\ \A k \in limitLet[s] :
              /\ h.end = k.end \/ h.end + Window <= k.end \/ k.end + Window <= h.end
              /\ h.end = k.end /\ h.nth = k.nth => h = k

\* The bucket counts the hits of the last window; without one that window is over.
BucketCounts ==
    \A s \in Limiter!Counter : \A h \in limitLet[s] :
        IF limitBucket[s] = None THEN h.end <= limitNow
        ELSE \/ h.end = limitBucket[s].resetAt /\ h.nth <= limitBucket[s].count
             \/ h.end + Window <= limitBucket[s].resetAt

\* A window is not longer than it is said to be.
WindowsEnd == \A s \in Limiter!Counter : limitBucket[s] # None => limitBucket[s].resetAt <= limitNow + Window

\* What a refused caller was told has passed when there is no bucket.
ToldHasPassed ==
    \A s \in Limiter!Counter : limitBucket[s] = None /\ limitTold[s] # None => limitTold[s] <= limitNow

\* The inductive invariant.
LimitInv ==
    /\ Limiter!TypeOK
    /\ HitsAreCounted /\ BucketCounts /\ WindowsEnd /\ ToldHasPassed
    /\ Limiter!RefusalsDoNotExtend

\* No attempt was let through yet.
LEMMA LimitInit == Limiter!Init => LimitInv
  <1> SUFFICES ASSUME Limiter!Init PROVE LimitInv
    OBVIOUS
  <1>1. Limiter!TypeOK
    BY SumAssumption DEF Limiter!Init, Limiter!TypeOK, Limiter!Time
  <1>2. \A s \in Limiter!Counter : limitLet[s] = {} /\ limitTold[s] = None /\ limitBucket[s] = None
    BY DEF Limiter!Init
  <1> QED BY <1>1, <1>2 DEF LimitInv, HitsAreCounted, BucketCounts, WindowsEnd, ToldHasPassed,
                            Limiter!RefusalsDoNotExtend

\* A hit of the window that runs, or the first of a new one that begins after it.
LEMMA CountedHit ==
    ASSUME LimitInv, NEW s \in Limiter!Counter
    PROVE  LET hit == Limiter!Counted(limitBucket[s])
           IN  /\ hit \in Limiter!Hit
               /\ hit.count > 0 /\ hit.resetAt > limitNow
               /\ \A h \in limitLet[s] :
                     \/ h.end = hit.resetAt /\ h.nth < hit.count
                     \/ h.end + Window <= hit.resetAt
  <1> DEFINE b == limitBucket[s]
             hit == Limiter!Counted(b)
  <1>1. b \in Limiter!Hit \cup {None} /\ limitNow \in Nat
    BY SumAssumption DEF LimitInv, Limiter!TypeOK, Limiter!Time
  <1>2. \A h \in limitLet[s] : h \in Limiter!Let /\ h.nth \in 1 .. MaxHits /\ h.end \in Nat /\ h.at \in Nat
    BY SumAssumption DEF LimitInv, Limiter!TypeOK, Limiter!Let, Limiter!Time, HitsAreCounted
  <1>3. CASE Limiter!Running(b)
    <2>1. b \in Limiter!Hit /\ b.resetAt > limitNow /\ b # None
      BY <1>1, <1>3 DEF Limiter!Running
    <2>2. hit = [b EXCEPT !.count = @ + 1]
      BY <1>3 DEF Limiter!Counted
    <2>3. hit \in Limiter!Hit /\ hit.count = b.count + 1 /\ hit.resetAt = b.resetAt
      BY <2>1, <2>2 DEF Limiter!Hit
    <2>4. \A h \in limitLet[s] : \/ h.end = b.resetAt /\ h.nth <= b.count
                                 \/ h.end + Window <= b.resetAt
      BY <2>1 DEF LimitInv, BucketCounts
    <2> QED BY <1>2, <2>1, <2>3, <2>4 DEF Limiter!Hit
  <1>4. CASE ~Limiter!Running(b)
    <2>1. hit = [count |-> 1, resetAt |-> limitNow + Window]
      BY <1>4 DEF Limiter!Counted
    <2>2. hit \in Limiter!Hit /\ hit.count = 1 /\ hit.resetAt = limitNow + Window
      BY <1>1, <2>1, SumAssumption DEF Limiter!Hit
    <2>3. \A h \in limitLet[s] : h.end <= limitNow
      <3>1. CASE b = None
        BY <3>1 DEF LimitInv, BucketCounts
      <3>2. CASE b # None
        <4>1. b.resetAt <= limitNow /\ b.resetAt \in Nat
          BY <1>1, <1>4, <3>2 DEF Limiter!Running, Limiter!Hit
        <4>2. \A h \in limitLet[s] : h.end = b.resetAt \/ h.end + Window <= b.resetAt
          BY <3>2 DEF LimitInv, BucketCounts
        <4> QED BY <1>1, <1>2, <4>1, <4>2, SumAssumption
      <3> QED BY <3>1, <3>2
    <2> QED BY <1>1, <1>2, <2>2, <2>3, SumAssumption
  <1> QED BY <1>3, <1>4

\* What an attempt leaves in the bucket.
LEMMA BucketAfter ==
    ASSUME LimitInv, NEW p \in Process, Limiter!Attempt(p)
    PROVE  \E s \in Limiter!Counter, b \in Limiter!Hit :
             LET hit == Limiter!Counted(limitBucket[s]) IN
             /\ limitBucket' = [limitBucket EXCEPT ![s] = b]
             /\ b.resetAt = hit.resetAt
             /\ b.count = hit.count \/ (hit.count > MaxHits + 2 /\ b.count = MaxHits + 2)
             /\ \/ /\ hit.count > MaxHits /\ UNCHANGED limitLet
                   /\ limitTold' = [limitTold EXCEPT ![s] = IF @ # None /\ @ > limitNow THEN @ ELSE hit.resetAt]
                \/ /\ hit.count <= MaxHits /\ UNCHANGED limitTold
                   /\ limitLet' = [limitLet EXCEPT ![s] =
                                     @ \cup {[at |-> limitNow, end |-> hit.resetAt, nth |-> hit.count]}]
             /\ UNCHANGED <<limitUp, limitRun, limitNow>>
  <1> DEFINE s == Limiter!CounterOf(p)
             hit == Limiter!Counted(limitBucket[s])
             count == IF hit.count > MaxHits + 2 THEN MaxHits + 2 ELSE hit.count
             b == [hit EXCEPT !.count = count]
  <1>1. s \in Limiter!Counter
    <2>1. limitRun[p] \in 1 .. MaxRuns
      BY DEF LimitInv, Limiter!TypeOK
    <2> QED BY <2>1 DEF Limiter!CounterOf, Limiter!Counter, Limiter!Memory
  <1>2. hit \in Limiter!Hit
    BY <1>1, CountedHit
  <1>3. count \in Nat /\ (count = hit.count \/ (hit.count > MaxHits + 2 /\ count = MaxHits + 2))
    BY <1>2, SumAssumption DEF Limiter!Hit
  <1>4. limitBucket' = [limitBucket EXCEPT ![s] = b]
    BY DEF Limiter!Attempt
  <1>5. /\ \/ /\ ~(hit.count <= MaxHits) /\ UNCHANGED limitLet
              /\ limitTold' = [limitTold EXCEPT ![s] = IF @ # None /\ @ > limitNow THEN @ ELSE hit.resetAt]
           \/ /\ hit.count <= MaxHits /\ UNCHANGED limitTold
              /\ limitLet' = [limitLet EXCEPT ![s] =
                                @ \cup {[at |-> limitNow, end |-> hit.resetAt, nth |-> hit.count]}]
        /\ UNCHANGED <<limitUp, limitRun, limitNow>>
    BY DEF Limiter!Attempt, Limiter!Allowed
  <1> HIDE DEF count, hit
  <1>6. b \in Limiter!Hit /\ b.count = count /\ b.resetAt = hit.resetAt
    BY <1>2, <1>3 DEF Limiter!Hit
  <1>7. hit.count > MaxHits \/ hit.count <= MaxHits
    BY <1>2, SumAssumption DEF Limiter!Hit
  <1>8. ~(hit.count <= MaxHits) => hit.count > MaxHits
    BY <1>7
  <1> HIDE DEF b, s
  <1> QED BY <1>1, <1>3, <1>4, <1>5, <1>6, <1>8 DEF hit

\* A refused attempt leaves the time that was told; one let through is a hit of its own.
LEMMA AttemptStep == ASSUME LimitInv, NEW p \in Process, Limiter!Attempt(p) PROVE LimitInv'
  <1>1. PICK s \in Limiter!Counter, b \in Limiter!Hit :
             LET hit == Limiter!Counted(limitBucket[s]) IN
             /\ limitBucket' = [limitBucket EXCEPT ![s] = b]
             /\ b.resetAt = hit.resetAt
             /\ b.count = hit.count \/ (hit.count > MaxHits + 2 /\ b.count = MaxHits + 2)
             /\ \/ /\ hit.count > MaxHits /\ UNCHANGED limitLet
                   /\ limitTold' = [limitTold EXCEPT ![s] = IF @ # None /\ @ > limitNow THEN @ ELSE hit.resetAt]
                \/ /\ hit.count <= MaxHits /\ UNCHANGED limitTold
                   /\ limitLet' = [limitLet EXCEPT ![s] =
                                     @ \cup {[at |-> limitNow, end |-> hit.resetAt, nth |-> hit.count]}]
             /\ UNCHANGED <<limitUp, limitRun, limitNow>>
    BY BucketAfter
  <1>2. PICK hit \in Limiter!Hit :
            /\ hit = Limiter!Counted(limitBucket[s])
            /\ hit.count > 0 /\ hit.resetAt > limitNow
            /\ \A h \in limitLet[s] : \/ h.end = hit.resetAt /\ h.nth < hit.count
                                      \/ h.end + Window <= hit.resetAt
    BY CountedHit
  <1>3. /\ limitNow \in Nat /\ limitNow \in Limiter!Time
        /\ hit.count \in Nat /\ hit.resetAt \in Nat /\ b.count \in Nat /\ b.resetAt = hit.resetAt
        /\ hit.resetAt <= limitNow + Window
    <2>1. limitNow \in Nat /\ limitNow \in Limiter!Time
      BY SumAssumption DEF LimitInv, Limiter!TypeOK, Limiter!Time
    <2>2. limitBucket[s] # None => limitBucket[s] \in Limiter!Hit /\ limitBucket[s].resetAt <= limitNow + Window
      BY DEF LimitInv, Limiter!TypeOK, WindowsEnd
    <2>3. hit.resetAt <= limitNow + Window
      <3>1. CASE Limiter!Running(limitBucket[s])
        <4>1. hit = [limitBucket[s] EXCEPT !.count = @ + 1] /\ limitBucket[s] # None
          BY <1>2, <3>1 DEF Limiter!Counted, Limiter!Running
        <4> QED BY <2>2, <4>1 DEF Limiter!Hit
      <3>2. CASE ~Limiter!Running(limitBucket[s])
        BY <1>2, <2>1, <3>2, SumAssumption DEF Limiter!Counted
      <3> QED BY <3>1, <3>2
    <2> QED BY <1>1, <1>2, <2>1, <2>3 DEF Limiter!Hit
  <1>4. None \notin Limiter!Hit /\ b # None
    BY <1>1, SumAssumption DEF Limiter!Hit
  <1>5. /\ limitBucket' \in [Limiter!Counter -> Limiter!Hit \cup {None}]
        /\ limitBucket'[s] = b
        /\ \A i \in Limiter!Counter \ {s} : limitBucket'[i] = limitBucket[i]
        /\ UNCHANGED <<limitUp, limitRun, limitNow>>
    BY <1>1 DEF LimitInv, Limiter!TypeOK
  <1> DEFINE new == [at |-> limitNow, end |-> hit.resetAt, nth |-> hit.count]
  <1>6. new \in Limiter!Let
    BY <1>3 DEF Limiter!Let
  <1>7. /\ limitLet' \in [Limiter!Counter -> SUBSET Limiter!Let]
        /\ \A i \in Limiter!Counter \ {s} : limitLet'[i] = limitLet[i]
        /\ limitLet'[s] \subseteq limitLet[s] \cup {new}
        /\ new \in limitLet'[s] \ limitLet[s] => hit.count <= MaxHits
    BY <1>1, <1>2, <1>6 DEF LimitInv, Limiter!TypeOK
  <1>8. /\ limitTold' \in [Limiter!Counter -> Nat \cup {None}]
        /\ \A i \in Limiter!Counter \ {s} : limitTold'[i] = limitTold[i]
        /\ \/ limitTold'[s] = limitTold[s] /\ ((limitTold[s] # None /\ limitTold[s] > limitNow) \/ hit.count <= MaxHits)
           \/ limitTold'[s] = hit.resetAt
    BY <1>1, <1>2, <1>3 DEF LimitInv, Limiter!TypeOK
  <1>9. new.at = limitNow /\ new.end = hit.resetAt /\ new.nth = hit.count
    OBVIOUS
  <1> HIDE DEF new
  <1>10. Limiter!TypeOK'
    BY <1>5, <1>7, <1>8 DEF LimitInv, Limiter!TypeOK
  <1>11. \A h \in limitLet[s] : h.end \in Nat /\ h.nth \in 1 .. MaxHits /\ h.at \in Nat
    BY SumAssumption DEF LimitInv, Limiter!TypeOK, Limiter!Let, Limiter!Time, HitsAreCounted
  <1>12. HitsAreCounted'
    <2> SUFFICES ASSUME NEW i \in Limiter!Counter, NEW h \in limitLet'[i]
                 PROVE  /\ h.nth \in 1 .. MaxHits
                        /\ h.end - Window <= h.at /\ h.at < h.end /\ h.at <= limitNow
                        /\ \A k \in limitLet'[i] :
                              /\ h.end = k.end \/ h.end + Window <= k.end \/ k.end + Window <= h.end
                              /\ h.end = k.end /\ h.nth = k.nth => h = k
      BY <1>5 DEF HitsAreCounted
    <2>1. CASE i # s
      BY <1>7, <2>1 DEF LimitInv, HitsAreCounted
    <2>2. CASE i = s /\ h \in limitLet[s]
      <3>1. \A k \in limitLet[s] :
               /\ h.end = k.end \/ h.end + Window <= k.end \/ k.end + Window <= h.end
               /\ h.end = k.end /\ h.nth = k.nth => h = k
        BY <2>2 DEF LimitInv, HitsAreCounted
      <3>2. h.nth \in 1 .. MaxHits /\ h.end - Window <= h.at /\ h.at < h.end /\ h.at <= limitNow
        BY <2>2 DEF LimitInv, HitsAreCounted
      <3>3. /\ h.end = new.end \/ h.end + Window <= new.end
            /\ ~(h.end = new.end /\ h.nth = new.nth)
        BY <1>2, <1>3, <1>9, <1>11, <2>2, SumAssumption
      <3> QED BY <1>7, <2>2, <3>1, <3>2, <3>3
    <2>3. CASE i = s /\ h = new /\ h \notin limitLet[s]
      <3>1. h.nth \in 1 .. MaxHits /\ h.end - Window <= h.at /\ h.at < h.end /\ h.at <= limitNow
        BY <1>2, <1>3, <1>7, <1>9, <2>3, SumAssumption
      <3>2. \A k \in limitLet[s] : /\ h.end = k.end \/ k.end + Window <= h.end
                                   /\ ~(h.end = k.end /\ h.nth = k.nth)
        BY <1>2, <1>3, <1>9, <1>11, <2>3, SumAssumption
      <3> QED BY <1>7, <2>3, <3>1, <3>2
    <2> QED BY <1>7, <2>1, <2>2, <2>3
  <1>13. BucketCounts'
    <2> SUFFICES ASSUME NEW i \in Limiter!Counter, NEW h \in limitLet'[i]
                 PROVE  IF limitBucket'[i] = None THEN h.end <= limitNow
                        ELSE \/ h.end = limitBucket'[i].resetAt /\ h.nth <= limitBucket'[i].count
                             \/ h.end + Window <= limitBucket'[i].resetAt
      BY <1>5 DEF BucketCounts
    <2>1. CASE i # s
      BY <1>5, <1>7, <2>1 DEF LimitInv, BucketCounts
    <2>2. CASE i = s /\ h \in limitLet[s]
      <3>1. b.count = hit.count \/ b.count = MaxHits + 2
        BY <1>1, <1>2
      <3>2. h.nth \in Nat /\ h.nth <= MaxHits /\ MaxHits \in Nat
        BY <1>11, <2>2, SumAssumption
      <3>3. \/ h.end = b.resetAt /\ h.nth <= b.count
            \/ h.end + Window <= b.resetAt
        BY <1>2, <1>3, <2>2, <3>1, <3>2
      <3> QED BY <1>4, <1>5, <2>2, <3>3
    <2>3. CASE i = s /\ h = new /\ h \notin limitLet[s]
      <3>1. hit.count <= MaxHits
        BY <1>7, <2>3
      <3>2. b.count = hit.count
        BY <1>1, <1>2, <1>3, <3>1, SumAssumption
      <3> QED BY <1>3, <1>4, <1>5, <1>9, <2>3, <3>2
    <2> QED BY <1>7, <2>1, <2>2, <2>3
  <1>14. WindowsEnd' /\ ToldHasPassed'
    BY <1>3, <1>4, <1>5, <1>8 DEF LimitInv, WindowsEnd, ToldHasPassed
  <1>15. Limiter!RefusalsDoNotExtend'
    <2> SUFFICES ASSUME NEW i \in Limiter!Counter, limitTold'[i] # None, limitBucket'[i] # None
                 PROVE  \/ limitBucket'[i].resetAt = limitTold'[i]
                        \/ limitBucket'[i].resetAt >= limitTold'[i] + Window
      BY DEF Limiter!RefusalsDoNotExtend
    <2>1. CASE i # s
      BY <1>5, <1>8, <2>1 DEF LimitInv, Limiter!RefusalsDoNotExtend
    <2>2. CASE i = s /\ limitTold'[s] = hit.resetAt
      BY <1>3, <1>5, <2>2
    <2>3. CASE i = s /\ limitTold'[s] = limitTold[s] /\ limitTold[s] # None
      <3>1. limitTold[s] \in Nat
        BY <2>3 DEF LimitInv, Limiter!TypeOK
      <3>2. limitBucket[s] = None => limitTold[s] <= limitNow
        BY <2>3 DEF LimitInv, ToldHasPassed
      <3>3. limitBucket[s] # None => \/ limitBucket[s].resetAt = limitTold[s]
                                     \/ limitBucket[s].resetAt >= limitTold[s] + Window
        BY <2>3 DEF LimitInv, Limiter!RefusalsDoNotExtend
      <3>4. CASE Limiter!Running(limitBucket[s])
        <4>1. limitBucket[s] # None /\ limitBucket[s] \in Limiter!Hit
          BY <3>4 DEF Limiter!Running, LimitInv, Limiter!TypeOK
        <4>2. hit.resetAt = limitBucket[s].resetAt
          BY <1>2, <3>4, <4>1 DEF Limiter!Counted, Limiter!Hit
        <4> QED BY <1>3, <1>5, <2>3, <3>3, <4>1, <4>2
      <3>5. CASE ~Limiter!Running(limitBucket[s])
        <4>1. hit.resetAt = limitNow + Window
          BY <1>2, <3>5 DEF Limiter!Counted
        <4>2. limitTold[s] <= limitNow
          <5>1. CASE limitBucket[s] = None
            BY <3>2, <5>1
          <5>2. CASE limitBucket[s] # None
            <6>1. limitBucket[s].resetAt \in Nat /\ limitBucket[s].resetAt <= limitNow
              BY <1>3, <3>5, <5>2 DEF Limiter!Running, LimitInv, Limiter!TypeOK, Limiter!Hit
            <6> QED BY <1>3, <3>1, <3>3, <5>2, <6>1, SumAssumption
          <5> QED BY <5>1, <5>2
        <4> QED BY <1>3, <1>5, <2>3, <3>1, <4>1, <4>2, SumAssumption
      <3> QED BY <3>4, <3>5
    <2> QED BY <1>8, <2>1, <2>2, <2>3
  <1> QED BY <1>10, <1>12, <1>13, <1>14, <1>15 DEF LimitInv

\* A bucket is swept when the windows it counted do not matter any more; a process
\* that starts again, time and the database's coming and going change no counter.
LEMMA ForgetStep ==
    ASSUME LimitInv,
           \/ Limiter!Sweep \/ Limiter!DatabaseGoesOrReturns \/ Limiter!Tick
           \/ \E p \in Process : Limiter!Restart(p)
    PROVE  LimitInv'
  <1>0. limitNow \in Nat /\ limitNow \in Limiter!Time
    BY SumAssumption DEF LimitInv, Limiter!TypeOK, Limiter!Time
  <1>1. CASE Limiter!Sweep
    <2>1. /\ limitBucket[Limiter!Database] # None /\ limitBucket[Limiter!Database].resetAt < limitNow - Keep
          /\ limitBucket' = [limitBucket EXCEPT ![Limiter!Database] = None]
          /\ UNCHANGED <<limitUp, limitRun, limitLet, limitTold, limitNow>>
      BY <1>1 DEF Limiter!Sweep
    <2>2. Limiter!Database \in Limiter!Counter
      BY DEF Limiter!Counter
    <2>3. limitBucket[Limiter!Database].resetAt \in Nat /\ limitBucket[Limiter!Database].resetAt <= limitNow
      BY <1>0, <2>1, <2>2, SumAssumption DEF LimitInv, Limiter!TypeOK, Limiter!Hit
    <2>4. /\ limitBucket' \in [Limiter!Counter -> Limiter!Hit \cup {None}]
          /\ limitBucket'[Limiter!Database] = None
          /\ \A i \in Limiter!Counter \ {Limiter!Database} : limitBucket'[i] = limitBucket[i]
      BY <2>1, <2>2 DEF LimitInv, Limiter!TypeOK
    <2>5. \A h \in limitLet[Limiter!Database] : h.end \in Nat /\ h.end <= limitNow
      <3> SUFFICES ASSUME NEW h \in limitLet[Limiter!Database] PROVE h.end \in Nat /\ h.end <= limitNow
        OBVIOUS
      <3>1. h.end \in Nat
        BY <2>2 DEF LimitInv, Limiter!TypeOK, Limiter!Let
      <3>2. h.end = limitBucket[Limiter!Database].resetAt \/ h.end + Window <= limitBucket[Limiter!Database].resetAt
        BY <2>1, <2>2 DEF LimitInv, BucketCounts
      <3> QED BY <1>0, <2>3, <3>1, <3>2, SumAssumption
    <2>6. limitTold[Limiter!Database] # None => limitTold[Limiter!Database] <= limitNow
      <3>1. limitTold[Limiter!Database] # None => /\ limitTold[Limiter!Database] \in Nat
                                            /\ \/ limitBucket[Limiter!Database].resetAt = limitTold[Limiter!Database]
                                               \/ limitBucket[Limiter!Database].resetAt >= limitTold[Limiter!Database] + Window
        BY <2>1, <2>2 DEF LimitInv, Limiter!TypeOK, Limiter!RefusalsDoNotExtend
      <3> QED BY <1>0, <2>3, <3>1, SumAssumption
    <2>7. Limiter!TypeOK' /\ HitsAreCounted'
      BY <2>1, <2>4 DEF LimitInv, Limiter!TypeOK, HitsAreCounted
    <2>8. BucketCounts'
      BY <2>1, <2>4, <2>5 DEF LimitInv, BucketCounts
    <2>9. WindowsEnd' /\ ToldHasPassed' /\ Limiter!RefusalsDoNotExtend'
      BY <2>1, <2>4, <2>6 DEF LimitInv, WindowsEnd, ToldHasPassed, Limiter!RefusalsDoNotExtend
    <2> QED BY <2>7, <2>8, <2>9 DEF LimitInv
  <1>2. CASE Limiter!DatabaseGoesOrReturns
    BY <1>2 DEF Limiter!DatabaseGoesOrReturns, LimitInv, Limiter!TypeOK, HitsAreCounted, BucketCounts, WindowsEnd,
                ToldHasPassed, Limiter!RefusalsDoNotExtend
  <1>3. CASE Limiter!Tick
    <2>1. limitNow' = limitNow + 1 /\ limitNow' \in Limiter!Time /\ limitNow' \in Nat
      BY <1>0, <1>3, SumAssumption DEF Limiter!Tick, Limiter!Time
    <2>2. UNCHANGED <<limitBucket, limitUp, limitRun, limitLet, limitTold>>
      BY <1>3 DEF Limiter!Tick
    <2>3. Limiter!TypeOK' /\ Limiter!RefusalsDoNotExtend'
      BY <2>1, <2>2 DEF LimitInv, Limiter!TypeOK, Limiter!RefusalsDoNotExtend
    <2>4. \A i \in Limiter!Counter : \A h \in limitLet[i] : h.at \in Nat /\ h.end \in Nat
      BY SumAssumption DEF LimitInv, Limiter!TypeOK, Limiter!Let, Limiter!Time
    <2>5. HitsAreCounted'
      <3> SUFFICES ASSUME NEW i \in Limiter!Counter, NEW h \in limitLet[i]
                   PROVE  /\ h.nth \in 1 .. MaxHits
                          /\ h.end - Window <= h.at /\ h.at < h.end /\ h.at <= limitNow'
                          /\ \A k \in limitLet[i] :
                                /\ h.end = k.end \/ h.end + Window <= k.end \/ k.end + Window <= h.end
                                /\ h.end = k.end /\ h.nth = k.nth => h = k
        BY <2>2 DEF HitsAreCounted
      <3>1. h.at <= limitNow'
        BY <1>0, <2>1, <2>4 DEF LimitInv, HitsAreCounted
      <3> QED BY <3>1 DEF LimitInv, HitsAreCounted
    <2>6. BucketCounts'
      BY <1>0, <2>1, <2>2, <2>4 DEF LimitInv, BucketCounts
    <2>7. \A i \in Limiter!Counter : limitBucket[i] # None => limitBucket[i].resetAt \in Nat
      BY DEF LimitInv, Limiter!TypeOK, Limiter!Hit
    <2>8. WindowsEnd'
      BY <1>0, <2>1, <2>2, <2>7, SumAssumption DEF LimitInv, WindowsEnd
    <2>9. ToldHasPassed'
      BY <1>0, <2>1, <2>2 DEF LimitInv, Limiter!TypeOK, ToldHasPassed
    <2> QED BY <2>3, <2>5, <2>6, <2>8, <2>9 DEF LimitInv
  <1>4. ASSUME NEW p \in Process, Limiter!Restart(p) PROVE LimitInv'
    <2>1. /\ limitRun[p] < MaxRuns /\ limitRun' = [limitRun EXCEPT ![p] = @ + 1]
          /\ UNCHANGED <<limitBucket, limitUp, limitLet, limitTold, limitNow>>
      BY <1>4 DEF Limiter!Restart
    <2>2. limitRun[p] \in 1 .. MaxRuns /\ limitRun \in [Process -> 1 .. MaxRuns]
      BY DEF LimitInv, Limiter!TypeOK
    <2>3. limitRun[p] + 1 \in 1 .. MaxRuns
      BY <2>1, <2>2, SumAssumption
    <2>4. limitRun' \in [Process -> 1 .. MaxRuns]
      BY <2>1, <2>2, <2>3
    <2>5. Limiter!TypeOK'
      BY <2>1, <2>4 DEF LimitInv, Limiter!TypeOK
    <2> QED BY <2>1, <2>5 DEF LimitInv, HitsAreCounted, BucketCounts, WindowsEnd, ToldHasPassed,
                              Limiter!RefusalsDoNotExtend
  <1> QED BY <1>1, <1>2, <1>3, <1>4

\* Every step of the limiter keeps the invariant.
LEMMA LimitStep == LimitInv /\ (Limiter!Next \/ UNCHANGED limitVars) => LimitInv'
  <1> SUFFICES ASSUME LimitInv, Limiter!Next \/ UNCHANGED limitVars PROVE LimitInv'
    OBVIOUS
  <1>1. CASE Limiter!Next
    BY <1>1, AttemptStep, ForgetStep DEF Limiter!Next
  <1>2. CASE UNCHANGED limitVars
    BY <1>2 DEF limitVars, LimitInv, Limiter!TypeOK, HitsAreCounted, BucketCounts, WindowsEnd,
                ToldHasPassed, Limiter!RefusalsDoNotExtend
  <1> QED BY <1>1, <1>2

\* The limiter counts as everybody does.
LEMMA SameCount == \A S : Limiter!Cardinality(S) = Cardinality(S)
  BY DEF Limiter!Cardinality, Cardinality

\* Attempts that are numbered within two windows are at most two windows full.
LEMMA TwoWindows ==
    ASSUME NEW L, NEW C, IsFiniteSet(C), NEW max \in Nat,
           NEW f \in [L -> C \X (1 .. 2 * max)],
           \A h, k \in L : f[h] = f[k] => h = k
    PROVE  Cardinality(L) <= 2 * max * Cardinality(C)
  <1> DEFINE I == 1 .. 2 * max
             P == C \X I
  <1>1. IsFiniteSet(I) /\ Cardinality(I) = 2 * max
    BY FS_Interval
  <1>2. IsFiniteSet(P) /\ Cardinality(P) = Cardinality(C) * Cardinality(I)
    BY <1>1, FS_Product
  <1>3. f \in Injection(L, P)
    BY DEF Injection, IsInjective
  <1>4. Cardinality(L) <= Cardinality(P)
    <2> HIDE DEF P
    <2> QED BY <1>2, <1>3, FS_Injection
  <1>5. Cardinality(C) \in Nat
    BY FS_CardinalityType
  <1>6. Cardinality(C) * (2 * max) = 2 * max * Cardinality(C)
    BY <1>5
  <1> QED BY <1>1, <1>2, <1>4, <1>6

\* A stretch of one window's length meets two windows of a counter at most: those
\* that end in it and those that end after it.
LEMMA LimitBound == LimitInv => Limiter!GuessesAreBounded
  <1> SUFFICES ASSUME LimitInv, NEW t \in Limiter!Time
               PROVE  Cardinality(Limiter!LetWithin(t)) <= 2 * MaxHits * Cardinality(Limiter!Counting(t))
    BY SameCount DEF Limiter!GuessesAreBounded
  <1> DEFINE L == Limiter!LetWithin(t)
             C == Limiter!Counting(t)
             nth(h) == IF h.end <= t THEN h.nth ELSE MaxHits + h.nth
             f == [l \in L |-> <<l[1], nth(l[2])>>]
  <1>1. t \in Nat /\ MaxHits \in Nat /\ Window \in Nat \ {0} /\ MaxRuns \in Nat
    BY SumAssumption DEF Limiter!Time
  <1>2. IsFiniteSet(C)
    <2>1. IsFiniteSet(1 .. MaxRuns)
      BY <1>1, FS_Interval
    <2>2. IsFiniteSet(Limiter!Memory)
      BY <2>1, SumAssumption, FS_Product DEF Limiter!Memory
    <2>3. IsFiniteSet({Limiter!Database})
      BY FS_Singleton
    <2>4. IsFiniteSet(Limiter!Counter)
      BY <2>2, <2>3, FS_Union DEF Limiter!Counter
    <2> QED BY <2>4, FS_Subset DEF Limiter!Counting
  <1>3. \A l \in L : \E c \in C : \E h \in Limiter!LetBy(c, t) : l = <<c, h>>
    BY DEF Limiter!LetWithin, Limiter!Counting
  <1>4. \A c \in C : \A h \in Limiter!LetBy(c, t) :
           /\ c \in Limiter!Counter /\ h \in limitLet[c]
           /\ h.at <= t /\ h.at > t - Window
           /\ h.at \in Nat /\ h.end \in Nat /\ h.nth \in 1 .. MaxHits
           /\ h.end - Window <= h.at /\ h.at < h.end
    BY SumAssumption DEF Limiter!LetBy, Limiter!Counting, LimitInv, HitsAreCounted, Limiter!TypeOK,
                         Limiter!Let, Limiter!Time
  <1> HIDE DEF L, C
  <1>5. \A c \in C : \A h \in Limiter!LetBy(c, t) : nth(h) \in 1 .. 2 * MaxHits
    BY <1>1, <1>4
  <1>6. f \in [L -> C \X (1 .. 2 * MaxHits)]
    <2> SUFFICES ASSUME NEW l \in L PROVE <<l[1], nth(l[2])>> \in C \X (1 .. 2 * MaxHits)
      OBVIOUS
    <2>1. PICK c, h : c \in C /\ h \in Limiter!LetBy(c, t) /\ l = <<c, h>>
      BY <1>3
    <2>2. nth(h) \in 1 .. 2 * MaxHits
      BY <1>5, <2>1
    <2> HIDE DEF nth
    <2> QED BY <2>1, <2>2
  <1>7. ASSUME NEW l \in L, NEW m \in L, f[l] = f[m] PROVE l = m
    <2>1. PICK c, h : c \in C /\ h \in Limiter!LetBy(c, t) /\ l = <<c, h>>
      BY <1>3
    <2>2. PICK d, k : d \in C /\ k \in Limiter!LetBy(d, t) /\ m = <<d, k>>
      BY <1>3
    <2>3. c = d /\ nth(h) = nth(k)
      <3> HIDE DEF nth
      <3> QED BY <1>7, <2>1, <2>2
    <2>4. (h.end <= t <=> k.end <= t) /\ h.nth = k.nth
      BY <1>1, <1>4, <2>1, <2>2, <2>3
    <2>5. h.end = k.end \/ h.end + Window <= k.end \/ k.end + Window <= h.end
      BY <1>4, <2>1, <2>2, <2>3 DEF LimitInv, HitsAreCounted
    <2>6. h.end = k.end
      BY <1>1, <1>4, <2>1, <2>2, <2>3, <2>4, <2>5
    <2>7. h = k
      BY <1>4, <2>1, <2>2, <2>3, <2>4, <2>6 DEF LimitInv, HitsAreCounted
    <2> QED BY <2>1, <2>2, <2>3, <2>7
  <1> HIDE DEF f
  <1>8. Cardinality(L) <= 2 * MaxHits * Cardinality(C)
    BY <1>1, <1>2, <1>6, <1>7, TwoWindows
  <1> QED BY <1>8 DEF L, C

-------------------------------------------------------------------------------
(* The sum: a part keeps its invariant while it runs, and no other part     *)
(* touches its variables.                                                  *)

PartsInv ==
    /\ part = "reset" => TypeOK
    /\ part = "factor" => FactorInv
    /\ part = "link" => LinkInv
    /\ part = "member" => ErasureInv
    /\ part = "limit" => LimitInv
    /\ part = "desk" => DeskInv
    /\ part = "roles" => RolesInv
    /\ part = "check" => CheckInv

\* Each part starts in its invariant.
LEMMA PartsInit == SumInit => PartsInv
  BY TypeInit, FactorInit, LinkInit, ErasureInit, LimitInit, DeskInit, RolesInit, CheckInit
  DEF SumInit, PartsInv

\* Every step keeps the invariant of the part that runs.
LEMMA PartsStep == PartsInv /\ [SumNext]_sumVars => PartsInv'
  <1> SUFFICES ASSUME PartsInv, [SumNext]_sumVars PROVE PartsInv'
    OBVIOUS
  <1>1. part' = part
    BY DEF SumNext, sumVars
  <1>2. ASSUME part = "reset" PROVE TypeOK'
    <2>1. TypeOK /\ [Next]_vars
      BY <1>2 DEF PartsInv, SumNext, sumVars
    <2> QED BY <2>1, TypeStep
  <1>3. ASSUME part = "factor" PROVE FactorInv'
    <2>1. FactorInv /\ (Factor!Next \/ UNCHANGED factorVars)
      BY <1>3 DEF PartsInv, SumNext, sumVars
    <2> QED BY <2>1, FactorStep
  <1>4. ASSUME part = "link" PROVE LinkInv'
    <2>1. LinkInv /\ (Links!Next \/ UNCHANGED linkVars)
      BY <1>4 DEF PartsInv, SumNext, sumVars
    <2> QED BY <2>1, LinkStep
  <1>5. ASSUME part = "member" PROVE ErasureInv'
    <2>1. ErasureInv /\ (Erasure!Next \/ UNCHANGED memberVars)
      BY <1>5 DEF PartsInv, SumNext, sumVars
    <2> QED BY <2>1, ErasureStep
  <1>6. ASSUME part = "limit" PROVE LimitInv'
    <2>1. LimitInv /\ (Limiter!Next \/ UNCHANGED limitVars)
      BY <1>6 DEF PartsInv, SumNext, sumVars
    <2> QED BY <2>1, LimitStep
  <1>7. ASSUME part = "desk" PROVE DeskInv'
    <2>1. DeskInv /\ (Desk!Next \/ UNCHANGED deskVars)
      BY <1>7 DEF PartsInv, SumNext, sumVars
    <2> QED BY <2>1, DeskStep
  <1>8. ASSUME part = "roles" PROVE RolesInv'
    <2>1. RolesInv /\ (Roles!Next \/ UNCHANGED rolesVars)
      BY <1>8 DEF PartsInv, SumNext, sumVars, idVars
    <2> QED BY <2>1, RolesStep
  <1>9. ASSUME part = "check" PROVE CheckInv'
    <2>1. CheckInv /\ (Check!Next \/ UNCHANGED checkVars)
      BY <1>9 DEF PartsInv, SumNext, sumVars, idVars
    <2> QED BY <2>1, CheckStep
  <1> QED BY <1>1, <1>2, <1>3, <1>4, <1>5, <1>6, <1>7, <1>8, <1>9 DEF PartsInv

\* The invariant holds of every reachable state.
LEMMA PartsHold == SumSpec => []PartsInv
  BY PartsInit, PartsStep, PTL DEF SumSpec

\* Whatever number of setups, confirmations, resets and lost requests overlap, a
\* member is asked for codes of an authenticator that proved itself, unless the
\* pending secret changed under the confirmation; a link that was opened in time
\* confirms however its openings overlap; each store keeps to its types
\* (EnabledIsProven).
THEOREM SecretIsProven == SumSpec => []EnabledIsProven
  <1>1. PartsInv => EnabledIsProven
    BY DEF PartsInv, EnabledIsProven, TypesOK, FactorInv, LinkInv, ErasureInv, LimitInv, DeskInv, RolesInv, CheckInv
  <1> QED BY <1>1, PartsHold, PTL

\* An erased member stays out, its data erased, and owes no stay, and a banned one
\* stays suspended, whatever requests were past their checks (ErasureHolds).
THEOREM ErasedIsErased == SumSpec => []ErasureHolds
  <1>1. ErasureInv => /\ Erasure!ErasedStaysOut /\ Erasure!ErasedStaysErased
                      /\ Erasure!ErasedOwesNoStay /\ Erasure!BannedStaysOut
    BY DEF ErasureInv, ErasedIsOver, Erasure!ErasedStaysOut, Erasure!ErasedStaysErased, Erasure!ErasedOwesNoStay
  <1>2. PartsInv => ErasureHolds
    BY <1>1 DEF PartsInv, ErasureHolds
  <1> QED BY <1>2, PartsHold, PTL

\* In any stretch of one window's length a subject is let through twice the limit at
\* most for each counter that counted in it, the database's and those of the runs of
\* the processes, and nobody is held back by one longer than told (LimitHolds).
THEOREM LimitIsKept == SumSpec => []LimitHolds
  <1>1. PartsInv => LimitHolds
    BY LimitBound DEF PartsInv, LimitHolds, LimitInv
  <1> QED BY <1>1, PartsHold, PTL

\* A ticket whose member spoke last waits in the desk's queue (WaitingIsQueued).
THEOREM MembersAreHeard == SumSpec => []WaitingIsQueued
  <1>1. PartsInv => WaitingIsQueued
    BY DEF PartsInv, WaitingIsQueued, DeskInv
  <1> QED BY <1>1, PartsHold, PTL

\* Somebody administers the platform until the last one bans or erases the own
\* account, or two dismiss one another (AdministratorsRemain).
THEOREM SomebodyAdministers == SumSpec => []AdministratorsRemain
  <1>1. PartsInv => AdministratorsRemain
    BY DEF PartsInv, AdministratorsRemain, RolesInv
  <1> QED BY <1>1, PartsHold, PTL

\* An account is marked as its document was decided (StandingAgrees).
THEOREM MarksFollowDecisions == SumSpec => []StandingAgrees
  <1>1. PartsInv => StandingAgrees
    BY DEF PartsInv, StandingAgrees, CheckInv
  <1> QED BY <1>1, PartsHold, PTL
===============================================================================
