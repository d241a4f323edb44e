----------------------------- MODULE ReviewRatings -----------------------------
(***************************************************************************)
(* The reviews of one listing and the rating the property row caches       *)
(* (reviews.repository.ts, the review handlers of admin.routes.ts and the  *)
(* trigger of registry/functions.ts), at the isolation the pool runs at:   *)
(* READ COMMITTED.  A statement reads a snapshot taken when it starts; an  *)
(* UPDATE that waited for a row takes the new version of that row, but     *)
(* keeps its old snapshot for the rows its subqueries read.                *)
(***************************************************************************)
EXTENDS Integers, FiniteSets, FiniteSetsExt

CONSTANTS Stay,    \* finished stays of the listing: a review is keyed by its stay
          Stars,   \* ratings given
          Req,     \* requests in flight
          Ops,     \* the handlers in use
          Env,     \* "dbDown": a transaction may fail at any statement
          None

VARIABLES review,    \* committed review rows
          rating,    \* committed rating and review_count of the property
          holder,    \* the transaction that has the property row
          req,       \* requests in flight
          blind      \* the last transaction to commit recomputed the rating once

vars == <<review, rating, holder, req, blind>>

Review   == [stars : Stars, hidden : BOOLEAN]
NoReview == [stars |-> 0, hidden |-> FALSE]
Op       == {"create", "edit", "reply", "hide", "restore", "delete"}
Step     == {"idle", "write", "trigger", "triggerSet", "refresh", "refreshSet", "commit"}

\* The sum and the number of the ratings determine the average and the count.
Aggregate(rows) ==
    LET shown == {s \in Stay : rows[s] # NoReview /\ ~rows[s].hidden}
    IN  [sum   |-> MapThenSumSet(LAMBDA s : rows[s].stars, shown),
         count |-> Cardinality(shown)]

Nothing == [sum |-> 0, count |-> 0]
Total   == {Nothing} \cup {Aggregate(rows) : rows \in [Stay -> Review \cup {NoReview}]}

(***************************************************************************)
(* row is what the transaction wrote to the review of its stay, when it    *)
(* wrote; seen is the aggregate its statement computed, and the one it set *)
(* once it has the property row.                                           *)
(***************************************************************************)
Idle == [pc |-> "idle", op |-> "none", stay |-> None, stars |-> 0,
         wrote |-> FALSE, row |-> NoReview, seen |-> Nothing]

Request == [pc : Step, op : Op \cup {"none"}, stay : Stay \cup {None}, stars : Stars \cup {0},
            wrote : BOOLEAN, row : Review \cup {NoReview}, seen : Total]

TypeOK ==
    /\ review \in [Stay -> Review \cup {NoReview}]
    /\ rating \in Total
    /\ holder \in Req \cup {None}
    /\ req \in [Req -> Request]
    /\ blind \in BOOLEAN

Init ==
    /\ review = [s \in Stay |-> NoReview]
    /\ rating = Nothing
    /\ holder = None
    /\ req = [r \in Req |-> Idle]
    /\ blind = FALSE

At(r, pc)   == req[r].pc = pc
Goto(r, pc) == req' = [req EXCEPT ![r].pc = pc]

\* The review row of a stay is locked by the transaction that wrote it.
RowFree(s) == \A r \in Req : ~(req[r].stay = s /\ req[r].wrote)

-------------------------------------------------------------------------------
(* The handlers up to their transaction.  A review is written by the guest *)
(* of a stay that is over and has none; the rest act on one that is there. *)
(* Owner and role, and the end of the stay, refuse requests outside.       *)

Begin(r, op, s, n) ==
    /\ op \in Ops
    /\ At(r, "idle")
    /\ (op = "create") = (review[s] = NoReview)
    /\ req' = [req EXCEPT ![r] = [Idle EXCEPT !.pc = "write", !.op = op, !.stay = s, !.stars = n]]
    /\ UNCHANGED <<review, rating, holder, blind>>

CreateReview(r, s, n) == Begin(r, "create", s, n)

\* A wording or another number of stars; the row keeps what is not sent.
UpdateReview(r, s, n) == Begin(r, "edit", s, n)

ReplyToReview(r, s)   == Begin(r, "reply", s, 0)
HideReview(r, s)      == Begin(r, "hide", s, 0)
RestoreReview(r, s)   == Begin(r, "restore", s, 0)
DeleteReview(r, s)    == Begin(r, "delete", s, 0)

-------------------------------------------------------------------------------
(* The transactions                                                        *)

\* What the statement of a request makes of the newest version of its row; a
\* reply leaves what is modelled of it alone.
After(op, n, old) ==
    CASE op = "create"  -> [stars |-> n, hidden |-> FALSE]
      [] op = "edit"    -> [old EXCEPT !.stars = IF n = 0 THEN @ ELSE n]
      [] op = "reply"   -> old
      [] op = "hide"    -> [old EXCEPT !.hidden = TRUE]
      [] op = "restore" -> [old EXCEPT !.hidden = FALSE]
      [] op = "delete"  -> NoReview

\* Mutation of AfterWrite: the transactions leave the rating to the trigger.
AfterWrite_TriggerOnly(op) == "commit"

\* The statement that follows a write that found its row, and one that did not:
\* the transactions recompute the rating in both cases, the reply in neither.
AfterWrite(op) == IF op = "reply" THEN "commit" ELSE "refresh"

\* INSERT, UPDATE or DELETE of the review row, once no other transaction has it.
\* A second review of a stay violates its key; a row that is gone is not written.
WriteReview(r) ==
    LET q == req[r] IN
    /\ At(r, "write")
    /\ RowFree(q.stay)
    /\ IF q.op = "create" /\ review[q.stay] # NoReview
       THEN req' = [req EXCEPT ![r] = Idle]
       ELSE IF q.op # "create" /\ review[q.stay] = NoReview
       THEN req' = [req EXCEPT ![r] = [q EXCEPT !.pc = AfterWrite(q.op)]]
       ELSE req' = [req EXCEPT ![r] = [q EXCEPT !.pc = "trigger", !.wrote = TRUE,
                                                !.row = After(q.op, q.stars, review[q.stay])]]
    /\ UNCHANGED <<review, rating, holder, blind>>

\* What the transaction of r sees: the committed rows and its own.
Visible(r) == IF req[r].wrote THEN [review EXCEPT ![req[r].stay] = req[r].row] ELSE review

\* A recomputation starts: its snapshot is taken.  The trigger and
\* refreshPropertyRating run the same UPDATE.
Snapshot(r, from, to) ==
    /\ At(r, from)
    /\ req' = [req EXCEPT ![r].pc = to, ![r].seen = Aggregate(Visible(r))]
    /\ UNCHANGED <<review, rating, holder, blind>>

\* It gets the property row, which may have changed hands since.
SetRating(r, from, to) ==
    /\ At(r, from)
    /\ holder \in {None, r}
    /\ holder' = r
    /\ Goto(r, to)
    /\ UNCHANGED <<review, rating, blind>>

StartTrigger(r) == Snapshot(r, "trigger", "triggerSet")
StartRefresh(r) == Snapshot(r, "refresh", "refreshSet")
Refresh(r)      == SetRating(r, "refreshSet", "commit")
Trigger(r)      == SetRating(r, "triggerSet", AfterWrite(req[r].op))

Commit(r) ==
    /\ At(r, "commit")
    /\ review' = Visible(r)
    /\ rating' = IF holder = r THEN req[r].seen ELSE rating
    /\ holder' = IF holder = r THEN None ELSE holder
    /\ req' = [req EXCEPT ![r] = Idle]
    /\ blind' = IF holder = r THEN req[r].op = "reply" \/ ~req[r].wrote ELSE blind

\* A statement fails or the connection is lost: everything is rolled back.
Rollback(r) ==
    /\ "dbDown" \in Env
    /\ req[r].pc # "idle"
    /\ holder' = IF holder = r THEN None ELSE holder
    /\ req' = [req EXCEPT ![r] = Idle]
    /\ UNCHANGED <<review, rating, blind>>

Next ==
    \E r \in Req :
        \/ \E s \in Stay : \/ \E n \in Stars : CreateReview(r, s, n) \/ UpdateReview(r, s, n)
                           \/ UpdateReview(r, s, 0)
                           \/ ReplyToReview(r, s)
                           \/ HideReview(r, s) \/ RestoreReview(r, s) \/ DeleteReview(r, s)
        \/ WriteReview(r)
        \/ StartTrigger(r) \/ Trigger(r) \/ StartRefresh(r) \/ Refresh(r)
        \/ Commit(r) \/ Rollback(r)

Spec == Init /\ [][Next]_vars

-------------------------------------------------------------------------------
(* Properties                                                              *)

\* The rating and the number of reviews a stay page shows are those of its
\* visible reviews, however the transactions that change them interleave: the
\* trigger's UPDATE takes the property row, perhaps with a stale aggregate, and
\* refreshPropertyRating recomputes it while that row is held.  A host's reply
\* only fires the trigger, and a change of a review that was deleted only
\* refreshes: after those the next transaction puts the rating right.
RatingIsHonest == ~blind => rating = Aggregate(review)

\* The same without the exception.
RatingIsTrue == rating = Aggregate(review)
===============================================================================
