------------------------------- MODULE Messaging -------------------------------
(***************************************************************************)
(* The conversation of a guest and a host about a listing                  *)
(* (messaging.repository.ts, messaging.routes.ts): found or created on     *)
(* first contact, answered, read, closed and reopened by requests that     *)
(* each read it first and act on what they read.                           *)
(***************************************************************************)
EXTENDS Integers

CONSTANTS Message,    \* bound: messages written
          Booking,    \* bookings a conversation can be about
          Req,        \* requests in flight
          Env,        \* "dbDown": a statement fails, or the process stops
          None

VARIABLES thread,     \* the message_thread row of the guest and the listing
          message,    \* its messages
          req,        \* requests in flight
          shown       \* who got which message in an answer, for the properties

vars == <<thread, message, req, shown>>

Person == {"guest", "host", "admin"}
Step   == {"idle", "find", "attach", "create", "reload", "loadToSend", "send", "notify",
           "load", "mark", "list", "loadToMark", "markOnly", "loadToClose", "close"}

\* then is what follows the conversation being found: a first message or nothing.
Request == [pc : Step, who : Person \cup {None}, booking : Booking \cup {None},
            then : {"none", "post", "open"}, close : BOOLEAN]
Idle    == [pc |-> "idle", who |-> None, booking |-> None, then |-> "none", close |-> FALSE]

\* read: None while unread, then who read it; "badge": marked without an answer
\* that shows it; "lost": the answer failed.
MessageRow == [from : Person \cup {None}, read : Person \cup {None, "badge", "lost"}]
NoMessage  == [from |-> None, read |-> None]
NoThread   == [exists |-> FALSE, closed |-> FALSE, booking |-> None]

TypeOK ==
    /\ thread \in [exists : BOOLEAN, closed : BOOLEAN, booking : Booking \cup {None}]
    /\ message \in [Message -> MessageRow]
    /\ req \in [Req -> Request]
    /\ shown \in [Message -> SUBSET Person]

Init ==
    /\ thread = NoThread
    /\ message = [m \in Message |-> NoMessage]
    /\ req = [r \in Req |-> Idle]
    /\ shown = [m \in Message |-> {}]

At(r, pc)   == req[r].pc = pc
Goto(r, pc) == req' = [req EXCEPT ![r].pc = pc]
Done(r)     == req' = [req EXCEPT ![r] = Idle]
Start(r, who, pc) == At(r, "idle") /\ req' = [req EXCEPT ![r] = [Idle EXCEPT !.pc = pc, !.who = who]]

-------------------------------------------------------------------------------
(* ensureThread, by startConversation, openThread and postBookingNote      *)

Contact(r, b, then) ==
    /\ At(r, "idle")
    /\ req' = [req EXCEPT ![r] = [Idle EXCEPT !.pc = "find", !.who = "guest",
                                              !.booking = b, !.then = then]]
    /\ UNCHANGED <<thread, message, shown>>

\* What follows the conversation: sendMessage, or the answer that lists it.
Found(q) == IF q.then = "post" THEN "loadToSend" ELSE "list"

FindThread(r) ==
    LET q == req[r] IN
    /\ At(r, "find")
    /\ Goto(r, IF ~thread.exists THEN "create"
               ELSE IF q.booking \notin {None, thread.booking} THEN "attach"
               ELSE Found(q))
    /\ UNCHANGED <<thread, message, shown>>

AttachBooking(r) ==
    /\ At(r, "attach")
    /\ thread' = [thread EXCEPT !.booking = req[r].booking]
    /\ Goto(r, Found(req[r]))
    /\ UNCHANGED <<message, shown>>

\* The id is made of the listing and the guest: ON CONFLICT (id) DO NOTHING.
CreateThread(r) ==
    /\ At(r, "create")
    /\ thread' = IF thread.exists THEN thread
                 ELSE [exists |-> TRUE, closed |-> FALSE, booking |-> req[r].booking]
    /\ Goto(r, Found(req[r]))
    /\ UNCHANGED <<message, shown>>

-------------------------------------------------------------------------------
(* sendMessage                                                             *)

SendMessage(r, who) ==
    /\ thread.exists
    /\ Start(r, who, "loadToSend")
    /\ UNCHANGED <<thread, message, shown>>

CheckOpen(r) ==
    /\ At(r, "loadToSend")
    /\ IF thread.closed THEN Done(r) ELSE Goto(r, "send")
    /\ UNCHANGED <<thread, message, shown>>

\* The message and the time of the last one, in a transaction.
InsertMessage(r) ==
    /\ At(r, "send")
    /\ \E m \in Message :
         /\ message[m] = NoMessage
         /\ message' = [message EXCEPT ![m].from = req[r].who]
    /\ Goto(r, "notify")
    /\ UNCHANGED <<thread, shown>>

\* The mail to the other one is queued aside; a first contact lists the thread.
NotifyNewMessage(r) ==
    /\ At(r, "notify")
    /\ IF req[r].then = "post" THEN Goto(r, "list") ELSE Done(r)
    /\ UNCHANGED <<thread, message, shown>>

-------------------------------------------------------------------------------
(* getThread, markThreadRead                                               *)

OpenThread(r, who) ==
    /\ thread.exists
    /\ Start(r, who, "load")
    /\ UNCHANGED <<thread, message, shown>>

MarkOnly(r, who) ==
    /\ thread.exists
    /\ Start(r, who, "loadToMark")
    /\ UNCHANGED <<thread, message, shown>>

\* Mutation of ViewStep: the messages are listed before they are marked.
ViewStep_ListFirst == [load |-> "list", list |-> "mark", mark |-> "idle"]

\* The order of the statements that answer an opened conversation.
ViewStep == [load |-> "mark", mark |-> "list", list |-> "idle"]

LoadThread(r) ==
    /\ \/ At(r, "load") /\ (Goto(r, ViewStep["load"]) \/ Goto(r, "list"))
       \/ At(r, "loadToMark") /\ Goto(r, "markOnly")
    /\ UNCHANGED <<thread, message, shown>>

\* An administrator wrote none of them and marks those of both sides.
Marked(who, by) ==
    [m \in Message |-> IF message[m].from \notin {None, who} /\ message[m].read = None
                       THEN [message[m] EXCEPT !.read = by] ELSE message[m]]

MarkThreadRead(r) ==
    /\ \/ /\ At(r, "mark")
          /\ message' = Marked(req[r].who, req[r].who)
          /\ IF ViewStep["mark"] = "idle" THEN Done(r) ELSE Goto(r, ViewStep["mark"])
       \/ /\ At(r, "markOnly")
          /\ message' = Marked(req[r].who, "badge")
          /\ Done(r)
    /\ UNCHANGED <<thread, shown>>

ListMessages(r) ==
    /\ At(r, "list")
    /\ shown' = [m \in Message |-> IF message[m] # NoMessage THEN shown[m] \cup {req[r].who}
                                   ELSE shown[m]]
    /\ IF ViewStep["list"] = "idle" \/ req[r].then # "none" THEN Done(r)
       ELSE Goto(r, ViewStep["list"])
    /\ UNCHANGED <<thread, message>>

-------------------------------------------------------------------------------
(* setThreadClosed                                                         *)

CloseOrReopen(r, who, close) ==
    /\ thread.exists
    /\ At(r, "idle")
    /\ req' = [req EXCEPT ![r] = [Idle EXCEPT !.pc = "close", !.who = who, !.close = close]]
    /\ UNCHANGED <<thread, message, shown>>

SetThreadClosed(r) ==
    /\ At(r, "close")
    /\ thread' = [thread EXCEPT !.closed = req[r].close]
    /\ Done(r)
    /\ UNCHANGED <<message, shown>>

-------------------------------------------------------------------------------
(* A statement fails or the process stops; what was marked stays marked.   *)

LoseRequest(r) ==
    /\ "dbDown" \in Env
    /\ ~At(r, "idle")
    /\ message' = [m \in Message |->
                     IF At(r, "list") /\ message[m].read = req[r].who /\ req[r].who \notin shown[m]
                     THEN [message[m] EXCEPT !.read = "lost"] ELSE message[m]]
    /\ Done(r)
    /\ UNCHANGED <<thread, shown>>

Next ==
    \E r \in Req :
        \/ \E b \in Booking \cup {None}, then \in {"post", "open"} : Contact(r, b, then)
        \/ FindThread(r) \/ AttachBooking(r) \/ CreateThread(r)
        \/ \E who \in Person : \/ SendMessage(r, who) \/ OpenThread(r, who) \/ MarkOnly(r, who)
                               \/ \E close \in BOOLEAN : CloseOrReopen(r, who, close)
        \/ CheckOpen(r) \/ InsertMessage(r) \/ NotifyNewMessage(r)
        \/ LoadThread(r) \/ MarkThreadRead(r) \/ ListMessages(r)
        \/ SetThreadClosed(r) \/ LoseRequest(r)

Spec == Init /\ [][Next]_vars

-------------------------------------------------------------------------------
(* Properties                                                              *)

\* Who has a message marked read by opening the conversation gets it in that
\* answer, also when it was sent while the conversation was being opened: marking
\* comes first, so what the list has in addition stays unread.
ReadIsShown ==
    \A m \in Message, p \in Person :
        message[m].read = p =>
            p \in shown[m] \/ \E r \in Req : req[r].who = p /\ At(r, "list")
===============================================================================
