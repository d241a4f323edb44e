---------------------------- MODULE SchemaHealing ----------------------------
(***************************************************************************)
(* The query gateway: statements on a bounded pool of connections, alone   *)
(* or in a transaction; a statement that meets a missing table or column   *)
(* waits for the one schema repair in flight and is tried once more.  The  *)
(* repair needs a connection of the same pool.                             *)
(*                                                                         *)
(* `lost` is history: an object was dropped where the repair a request     *)
(* waits for could no longer see it.                                       *)
(***************************************************************************)
EXTENDS Naturals, FiniteSets

CONSTANTS Req,          \* requests, one statement at a time each
          Object,       \* schema objects that may be missing
          PoolMax,      \* PG_POOL_MAX, at least 1
          MaxDrops,     \* bound: objects dropped behind the server's back
          None

VARIABLES missing,      \* objects the database does not have
          req,          \* requests
          repair,       \* the reconciler: the promise `running`
          drops

vars == <<missing, req, repair, drops>>

Outcome == {"none", "ok", "missing", "aborted", "failed"}

Idle(outcome) == [pc |-> "idle", tx |-> FALSE, obj |-> None, lost |-> FALSE,
                  outcome |-> outcome]
Resting == [pc |-> "idle", todo |-> {}, obj |-> None]

\* Connections in use: a transaction's from connect to release, the repair's.
Holders    == {r \in Req : req[r].tx /\ req[r].pc \notin {"idle", "connect"}}
RepairHolds == repair.pc \in {"check", "create"}
InUse == Cardinality(Holders) + (IF RepairHolds THEN 1 ELSE 0)

\* Mutation of Free: one connection more than the pool has.
Free_OffByOne == InUse <= PoolMax

Free == InUse < PoolMax

Init ==
    /\ missing \in SUBSET Object
    /\ req = [r \in Req |-> Idle("none")]
    /\ repair = Resting
    /\ drops = 0

-----------------------------------------------------------------------------
(* Requests.                                                               *)

Begin(r, tx) ==
    /\ req[r].pc = "idle"
    /\ req' = [req EXCEPT ![r] = [Idle("none") EXCEPT
            !.tx = tx, !.pc = IF tx THEN "connect" ELSE "statement"]]
    /\ UNCHANGED <<missing, repair, drops>>

\* withClient: the transaction takes a connection.
Connect(r) ==
    /\ req[r].pc = "connect" /\ Free
    /\ req' = [req EXCEPT ![r].pc = "statement"]
    /\ UNCHANGED <<missing, repair, drops>>

\* connectionTimeoutMillis: a request that gets no connection fails.
ConnectTimeout(r) ==
    /\ ~Free
    /\ \/ req[r].pc = "connect"
       \/ ~req[r].tx /\ req[r].pc \in {"statement", "retry"}
    /\ req' = [req EXCEPT ![r] = Idle("failed")]
    /\ UNCHANGED <<missing, repair, drops>>

\* A statement runs on the transaction's connection, or on one it takes for
\* the time of the statement.
CanRun(r) == req[r].tx \/ Free

\* A statement that succeeds is the last, or the transaction goes on.
StatementOk(r) ==
    /\ req[r].pc = "statement" /\ CanRun(r)
    /\ missing # Object
    /\ req' = [req EXCEPT ![r] = IF @.tx THEN [@ EXCEPT !.pc = "commit"] ELSE Idle("ok")]
    /\ UNCHANGED <<missing, repair, drops>>

\* Any other error is translated and thrown.
StatementFails(r) ==
    /\ req[r].pc \in {"statement", "retry"} /\ CanRun(r)
    /\ req' = [req EXCEPT ![r] = IF @.tx THEN [@ EXCEPT !.pc = "rollback", !.outcome = "failed"]
                                 ELSE Idle("failed")]
    /\ UNCHANGED <<missing, repair, drops>>

\* The reconciler looks at every object of the registry once.
Started == [pc |-> "connect", todo |-> Object, obj |-> None]

\* Mutation of MissObject: a repair in flight is not waited for.
MissObject_Impatient(r, o) ==
    /\ req[r].pc = "statement" /\ CanRun(r)
    /\ o \in missing
    /\ req' = [req EXCEPT ![r].pc = IF repair.pc = "idle" THEN "heal" ELSE "retry", ![r].obj = o,
                          ![r].lost = repair.pc # "idle" /\ o \notin repair.todo]
    /\ repair' = IF repair.pc = "idle" THEN Started ELSE repair
    /\ UNCHANGED <<missing, drops>>

\* healOnce: the request joins the repair in flight, or starts one.
MissObject(r, o) ==
    /\ req[r].pc = "statement" /\ CanRun(r)
    /\ o \in missing
    /\ req' = [req EXCEPT ![r].pc = "heal", ![r].obj = o,
                          ![r].lost = repair.pc # "idle" /\ o \notin repair.todo]
    /\ repair' = IF repair.pc = "idle" THEN Started ELSE repair
    /\ UNCHANGED <<missing, drops>>

\* The second and last try.  In a transaction the first error has aborted it,
\* and every further statement is refused.
Retry(r) ==
    LET q == req[r] IN
    /\ q.pc = "retry" /\ CanRun(r)
    /\ req' = [req EXCEPT ![r] =
            IF q.tx THEN [q EXCEPT !.pc = "rollback", !.outcome = "aborted"]
            ELSE IF q.obj \in missing THEN [Idle("missing") EXCEPT !.lost = q.lost]
            ELSE Idle("ok")]
    /\ UNCHANGED <<missing, repair, drops>>

\* COMMIT or ROLLBACK, and the connection goes back to the pool.
Commit(r) ==
    /\ req[r].pc = "commit"
    /\ \E pc \in {"commit", "statement"} :
           req' = [req EXCEPT ![r] = IF pc = "commit" THEN Idle("ok") ELSE [@ EXCEPT !.pc = pc]]
    /\ UNCHANGED <<missing, repair, drops>>

Rollback(r) ==
    /\ req[r].pc = "rollback"
    /\ req' = [req EXCEPT ![r] = Idle(@.outcome)]
    /\ UNCHANGED <<missing, repair, drops>>

-----------------------------------------------------------------------------
(* The repair.                                                             *)

\* At boot or on demand.
AskRepair ==
    /\ repair.pc = "idle"
    /\ repair' = Started
    /\ UNCHANGED <<missing, req, drops>>

ConnectRepair ==
    /\ repair.pc = "connect" /\ Free
    /\ repair' = [repair EXCEPT !.pc = "check"]
    /\ UNCHANGED <<missing, req, drops>>

\* An object is looked up; the statement that creates it comes after.
CheckObject(o) ==
    /\ repair.pc = "check" /\ o \in repair.todo
    /\ repair' = IF o \in missing THEN [repair EXCEPT !.pc = "create", !.obj = o,
                                                      !.todo = @ \ {o}]
                 ELSE [repair EXCEPT !.todo = @ \ {o}]
    /\ UNCHANGED <<missing, req, drops>>

\* Mutation of CreateObject: the reconciler still names the object.
CreateObject_Keeps ==
    /\ repair.pc = "create" /\ repair.obj \in missing
    /\ missing' = missing \ {repair.obj}
    /\ repair' = [repair EXCEPT !.pc = "check"]
    /\ UNCHANGED <<req, drops>>

CreateObject ==
    /\ repair.pc = "create" /\ repair.obj \in missing
    /\ missing' = missing \ {repair.obj}
    /\ repair' = [repair EXCEPT !.pc = "check", !.obj = None]
    /\ UNCHANGED <<req, drops>>

Waiting == {r \in Req : req[r].pc = "heal"}

\* The promise resolves: every request that waits tries again.
RepairDone ==
    /\ repair.pc = "check" /\ repair.todo = {}
    /\ repair' = Resting
    /\ req' = [r \in Req |-> IF r \in Waiting THEN [req[r] EXCEPT !.pc = "retry"] ELSE req[r]]
    /\ UNCHANGED <<missing, drops>>

\* Mutation of RepairFails: the requests that wait are not told.
RepairFails_Swallowed ==
    /\ \/ repair.pc = "connect" /\ ~Free
       \/ RepairHolds
    /\ repair' = Resting
    /\ UNCHANGED <<missing, req, drops>>

\* Mutation of RepairFails: the repair waits for its connection for ever.
RepairFails_NoTimeout ==
    /\ RepairHolds
    /\ repair' = Resting
    /\ req' = [r \in Req |->
            IF r \notin Waiting THEN req[r]
            ELSE IF req[r].tx THEN [req[r] EXCEPT !.pc = "rollback", !.outcome = "failed"]
            ELSE Idle("failed")]
    /\ UNCHANGED <<missing, drops>>

\* It rejects: no connection in time, or a statement failed (another server may
\* have created the object first).  The requests that wait fail with it.
RepairFails ==
    /\ \/ repair.pc = "connect" /\ ~Free
       \/ RepairHolds
    /\ repair' = Resting
    /\ req' = [r \in Req |->
            IF r \notin Waiting THEN req[r]
            ELSE IF req[r].tx THEN [req[r] EXCEPT !.pc = "rollback", !.outcome = "failed"]
            ELSE Idle("failed")]
    /\ UNCHANGED <<missing, drops>>

\* Another server repairs an object, or an operator drops one.
CreatedElsewhere(o) ==
    /\ o \in missing
    /\ missing' = missing \ {o}
    /\ UNCHANGED <<req, repair, drops>>

Dropped(o) ==
    /\ drops < MaxDrops /\ o \notin missing
    /\ missing' = missing \cup {o}
    /\ drops' = drops + 1
    /\ req' = [r \in Req |-> IF req[r].pc \in {"heal", "retry"} /\ req[r].obj = o
                             THEN [req[r] EXCEPT !.lost = TRUE] ELSE req[r]]
    /\ UNCHANGED repair

RequestStep(r) ==
    \/ Connect(r) \/ ConnectTimeout(r) \/ StatementOk(r) \/ StatementFails(r)
    \/ \E o \in Object : MissObject(r, o)
    \/ Retry(r) \/ Commit(r) \/ Rollback(r)

RepairStep ==
    \/ ConnectRepair \/ (\E o \in Object : CheckObject(o))
    \/ CreateObject \/ RepairDone \/ RepairFails

Next ==
    \/ \E r \in Req : (\E tx \in BOOLEAN : Begin(r, tx)) \/ RequestStep(r)
    \/ AskRepair \/ RepairStep
    \/ \E o \in Object : CreatedElsewhere(o) \/ Dropped(o)

Spec == Init /\ [][Next]_vars

\* The transaction is at its last statement.
Ends(r) == Commit(r) /\ req'[r].pc = "idle"

\* Statements end (statement_timeout), waits for a connection end
\* (connectionTimeoutMillis), and a transaction commits after a while.
Fairness ==
    /\ \A r \in Req : WF_vars(RequestStep(r)) /\ SF_vars(Ends(r))
    /\ WF_vars(RepairStep)

FairSpec == Spec /\ Fairness

-----------------------------------------------------------------------------
TypeOK ==
    /\ missing \subseteq Object
    /\ req \in [Req -> [pc: {"idle", "connect", "statement", "heal", "retry", "commit",
                             "rollback"},
                        tx: BOOLEAN, obj: Object \cup {None}, lost: BOOLEAN,
                        outcome: Outcome]]
    /\ repair \in [pc: {"idle", "connect", "check", "create"}, todo: SUBSET Object,
                   obj: Object \cup {None}]
    /\ repair.pc = "create" <=> repair.obj # None
    /\ drops \in 0..MaxDrops

\* The pool is never overdrawn, by requests or by the repair they wait for.
PoolIsBounded == InUse <= PoolMax

\* A statement that a successful repair sends out again fails for the same
\* reason only when the object was dropped out of the repair's sight.
RepairedUnlessLost ==
    \A r \in Req : req[r].outcome = "missing" => req[r].lost

\* Somebody works on the repair requests wait for: none waits for a promise
\* that was settled.
WaitersAreServed == Waiting # {} => repair.pc # "idle"

\* The gateway's comment: a missing object is repaired and the statement tried
\* again, and succeeds.  In a transaction it cannot.
HealedStatementSucceeds == \A r \in Req : req[r].outcome # "aborted"

\* Every request is answered, also when transactions hold the whole pool and
\* wait for a repair that needs a connection.
Settles(r) == req[r].pc # "idle" ~> req[r].pc = "idle"
===============================================================================
