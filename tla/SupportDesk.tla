------------------------------ MODULE SupportDesk ------------------------------
(***************************************************************************)
(* Support tickets (support.repository.ts, support.routes.ts, the ticket   *)
(* handlers of operations.routes.ts, the report of reviews.routes.ts): a   *)
(* message is one statement and the status it leads to another, without a  *)
(* transaction, and the member, the desk and the one-click actions work on *)
(* one ticket at the same time.                                            *)
(***************************************************************************)
EXTENDS Integers

CONSTANTS Ticket,
          Req,        \* requests in flight
          MaxActs,    \* bound: one-click actions taken on a ticket
          Env,        \* "dbDown": a statement fails, or the process stops
          None

VARIABLES ticket,     \* support_ticket
          trace,      \* what one-click actions did, and what was written of it
          req,        \* requests in flight
          history     \* who spoke or decided last, for the properties

vars == <<ticket, trace, req, history>>

Queue  == {"open", "pending", "escalated"}      \* tickets that wait for the desk
Closed == {"resolved", "closed"}
Status == Queue \cup Closed \cup {"awaiting_reply"}
Role   == {"member", "admin", "note", "system"} \* note: an internal note of an administrator
Step   == {"idle", "message", "touch", "mail", "act", "audit"}

NoTicket  == [status |-> "none", closedAt |-> FALSE]
NewTicket == [status |-> "open", closedAt |-> FALSE]
Idle      == [pc |-> "idle", role |-> "none", t |-> None]
DeskRequest == [pc : Step, role : Role \cup {"none"}, t : Ticket \cup {None}]
Nobody    == [touched |-> "none", newest |-> "none"]

TypeOK ==
    /\ ticket \in [Ticket -> [status : Status \cup {"none"}, closedAt : BOOLEAN]]
    /\ trace \in [Ticket -> [done : 0 .. MaxActs, told : Nat]]
    /\ req \in [Req -> DeskRequest]
    /\ history \in [Ticket -> [touched : {"none", "member", "desk"}, newest : {"none", "member", "desk"}]]

Init ==
    /\ ticket = [t \in Ticket |-> NoTicket]
    /\ trace = [t \in Ticket |-> [done |-> 0, told |-> 0]]
    /\ req = [r \in Req |-> Idle]
    /\ history = [t \in Ticket |-> Nobody]

At(r, pc)   == req[r].pc = pc
Goto(r, pc) == req' = [req EXCEPT ![r].pc = pc]
Done(r)     == req' = [req EXCEPT ![r] = Idle]

-------------------------------------------------------------------------------
(* Handlers up to the message they write                                   *)

\* createTicket, of a member or of a reported review; its message follows.
CreateTicket(r, t) ==
    /\ At(r, "idle")
    /\ ticket[t] = NoTicket
    /\ ticket' = [ticket EXCEPT ![t] = NewTicket]
    /\ req' = [req EXCEPT ![r] = [pc |-> "message", role |-> "member", t |-> t]]
    /\ UNCHANGED <<trace, history>>

\* The one who opened the ticket answers, or an administrator does.
Answer(r, t, role) ==
    /\ At(r, "idle")
    /\ ticket[t] # NoTicket
    /\ req' = [req EXCEPT ![r] = [pc |-> "message", role |-> role, t |-> t]]
    /\ UNCHANGED <<ticket, trace, history>>

MemberAnswers(r, t)      == Answer(r, t, "member")
AdminAnswers(r, t, note) == Answer(r, t, IF note THEN "note" ELSE "admin")

\* The ticket is linked to a stay or a member and the role allows the action.
StartAction(r, t) ==
    /\ At(r, "idle")
    /\ ticket[t] # NoTicket
    /\ trace[t].done < MaxActs
    /\ req' = [req EXCEPT ![r] = [pc |-> "act", role |-> "system", t |-> t]]
    /\ UNCHANGED <<ticket, trace, history>>

\* Cancels the stay, refunds it or suspends the member; a refusal ends the request.
TakeAction(r) ==
    LET t == req[r].t IN
    /\ At(r, "act")
    /\ \/ trace[t].done < MaxActs /\ trace' = [trace EXCEPT ![t].done = @ + 1] /\ Goto(r, "message")
       \/ UNCHANGED trace /\ Done(r)
    /\ UNCHANGED <<ticket, history>>

-------------------------------------------------------------------------------
(* addTicketMessage                                                        *)

Speaker(role) == IF role = "member" THEN "member" ELSE "desk"

InsertMessage(r) ==
    LET q == req[r] IN
    /\ At(r, "message")
    /\ Goto(r, "touch")
    /\ trace' = IF q.role = "system" THEN [trace EXCEPT ![q.t].told = @ + 1] ELSE trace
    /\ history' = IF q.role \in {"member", "admin"}
                  THEN [history EXCEPT ![q.t].newest = Speaker(q.role)] ELSE history
    /\ UNCHANGED ticket

\* Mutation of StatusAfter: an internal note counts as an answer.
StatusAfter_NoteAnswers(role, s) ==
    IF role = "member" THEN IF s \in Closed \cup {"awaiting_reply"} THEN "open" ELSE s
    ELSE IF role \in {"admin", "note"} /\ s # "escalated" THEN "awaiting_reply" ELSE s

\* The CASE of the UPDATE; a system message and an internal note keep the status.
StatusAfter(role, s) ==
    IF role = "member" THEN IF s \in Closed \cup {"awaiting_reply"} THEN "open" ELSE s
    ELSE IF role = "admin" /\ s # "escalated" THEN "awaiting_reply" ELSE s

\* closed_at stays as it was.
TouchTicket(r) ==
    LET q == req[r] IN
    /\ At(r, "touch")
    /\ ticket' = [ticket EXCEPT ![q.t].status = StatusAfter(q.role, @)]
    /\ history' = IF q.role \in {"member", "admin"}
                  THEN [history EXCEPT ![q.t].touched = Speaker(q.role)] ELSE history
    /\ CASE q.role = "admin"  -> Goto(r, "mail")
         [] q.role = "system" -> Goto(r, "audit")
         [] OTHER             -> Done(r)
    /\ UNCHANGED trace

\* queueNotification: the support_reply mail.
QueueReplyMail(r) ==
    /\ At(r, "mail")
    /\ Done(r)
    /\ UNCHANGED <<ticket, trace, history>>

-------------------------------------------------------------------------------
(* Decisions of the desk                                                   *)

SetTicketStatus(r, t, s) ==
    /\ At(r, "idle")
    /\ ticket[t] # NoTicket
    /\ ticket' = [ticket EXCEPT ![t] = [status |-> s, closedAt |-> s \in Closed]]
    /\ history' = [history EXCEPT ![t] = [touched |-> "desk", newest |-> "desk"]]
    /\ req' = [req EXCEPT ![r] = [pc |-> "audit", role |-> "admin", t |-> t]]
    /\ UNCHANGED trace

\* The assignee is not modelled: an assignment leaves the status alone.
AssignTicket(r, t) ==
    /\ At(r, "idle")
    /\ ticket[t] # NoTicket
    /\ req' = [req EXCEPT ![r] = [pc |-> "audit", role |-> "admin", t |-> t]]
    /\ UNCHANGED <<ticket, trace, history>>

\* recordModeration of a decision or of a one-click action.
RecordAction(r) ==
    /\ At(r, "audit")
    /\ Done(r)
    /\ UNCHANGED <<ticket, trace, history>>

\* A statement fails, or the process stops between two of them.
LoseRequest(r) ==
    /\ "dbDown" \in Env
    /\ req[r].pc # "idle"
    /\ Done(r)
    /\ UNCHANGED <<ticket, trace, history>>

Next ==
    \E r \in Req :
        \/ \E t \in Ticket : \/ CreateTicket(r, t) \/ MemberAnswers(r, t)
                             \/ \E note \in BOOLEAN : AdminAnswers(r, t, note)
                             \/ StartAction(r, t) \/ AssignTicket(r, t)
                             \/ \E s \in Status : SetTicketStatus(r, t, s)
        \/ TakeAction(r)
        \/ InsertMessage(r) \/ TouchTicket(r) \/ QueueReplyMail(r)
        \/ RecordAction(r) \/ LoseRequest(r)

Spec == Init /\ [][Next]_vars

-------------------------------------------------------------------------------
(* Properties                                                              *)

\* A ticket whose member answered is in the desk's queue until an answer or a
\* decision of the desk: not a closed one's late answer, nor an internal note, an
\* assignment or the note of a one-click action that runs meanwhile, takes it out.
WaitingIsQueued ==
    \A t \in Ticket : history[t].touched = "member" => ticket[t].status \in Queue

\* "an answer from the guest or host brings it back to the queue, even if it was
\* closed" (support.repository.ts:210-211), read of the newest message.
NewestAnswerIsQueued ==
    \A t \in Ticket :
        /\ history[t].newest = "member"
        /\ \A r \in Req : req[r].t # t
        => ticket[t].status \in Queue

\* "The outcome is written back into the conversation so the desk keeps a full
\* trace" (operations.routes.ts:518-520).
ActionsAreTold ==
    \A t \in Ticket : (\A r \in Req : req[r].t # t) => trace[t].told = trace[t].done
===============================================================================
