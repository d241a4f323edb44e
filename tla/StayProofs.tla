------------------------------ MODULE StayProofs ------------------------------
(***************************************************************************)
(* Theorems about the money of a stay, its conversation, the wizard that   *)
(* saves it and the lists it is taken from, as MCStay puts them together:  *)
(* for any number of intents, payment rows, requests, hosts, stays,        *)
(* messages and items.  An inductive invariant of each part, then of their *)
(* sum; that of the requests that meet is the one of BookingMoneyProofs.   *)
(***************************************************************************)
EXTENDS MCStay, FiniteSetTheorems, WellFoundedInduction, TLAPS

-------------------------------------------------------------------------------
(* The conversation (Messaging)                                            *)

\* A request in flight is somebody's.
Asked == \A r \in Req : ~Chat!At(r, "idle") => chatReq[r].who \in Chat!Person

\* The inductive invariant.
ChatInv == Chat!TypeOK /\ Asked /\ Chat!ReadIsShown

\* Nothing is written, nothing is read.
LEMMA ChatInit == Chat!Init => ChatInv
  <1> SUFFICES ASSUME Chat!Init PROVE ChatInv
    OBVIOUS
  <1>1. Chat!TypeOK
    BY DEF Chat!Init, Chat!TypeOK, Chat!NoThread, Chat!NoMessage, Chat!MessageRow, Chat!Idle,
           Chat!Request, Chat!Step
  <1>2. Chat!ReadIsShown
    BY StayAssumption DEF Chat!Init, Chat!ReadIsShown, Chat!NoMessage, Chat!Person
  <1>3. Asked
    BY DEF Chat!Init, Asked, Chat!At, Chat!Idle
  <1> QED BY <1>1, <1>2, <1>3 DEF ChatInv

\* A request that ends, or goes on, is a request.
LEMMA ChatRequests ==
    ASSUME ChatInv, NEW r \in Req,
           \/ Chat!Done(r)
           \/ ~Chat!At(r, "idle") /\ \E pc \in Chat!Step : Chat!Goto(r, pc)
           \/ \E who \in Chat!Person, pc \in Chat!Step : Chat!Start(r, who, pc)
    PROVE  chatReq' \in [Req -> Chat!Request] /\ Asked' /\ \A q \in Req \ {r} : chatReq'[q] = chatReq[q]
  <1>0. chatReq \in [Req -> Chat!Request] /\ Asked
    BY DEF ChatInv, Chat!TypeOK
  <1>1. Chat!Idle \in Chat!Request
    BY DEF Chat!Idle, Chat!Request, Chat!Step
  <1>2. CASE Chat!Done(r)
    BY <1>0, <1>1, <1>2 DEF Chat!Done, Asked, Chat!At, Chat!Idle
  <1>3. CASE ~Chat!At(r, "idle") /\ \E pc \in Chat!Step : Chat!Goto(r, pc)
    <2>1. \A pc \in Chat!Step, q \in Chat!Request :
             [q EXCEPT !.pc = pc] \in Chat!Request /\ [q EXCEPT !.pc = pc].who = q.who
      BY DEF Chat!Request
    <2> QED BY <1>0, <1>3, <2>1 DEF Chat!Goto, Asked, Chat!At
  <1>4. CASE \E who \in Chat!Person, pc \in Chat!Step : Chat!Start(r, who, pc)
    <2>1. PICK who \in Chat!Person, pc \in Chat!Step : Chat!Start(r, who, pc)
      BY <1>4
    <2> DEFINE q == [Chat!Idle EXCEPT !.pc = pc, !.who = who]
    <2>0. \A z \in Chat!Request : /\ [z EXCEPT !.pc = pc, !.who = who] \in Chat!Request
                                 /\ [z EXCEPT !.pc = pc, !.who = who].who = who
      BY DEF Chat!Request
    <2>2. q \in Chat!Request /\ q.who = who
      BY <1>1, <2>0
    <2>3. chatReq' = [chatReq EXCEPT ![r] = q]
      BY <2>1, <2>2 DEF Chat!Start
    <2> QED BY <1>0, <2>2, <2>3 DEF Asked, Chat!At
  <1> QED BY <1>2, <1>3, <1>4

\* A step that leaves the marks and the answers alone, of a request that is not
\* listing the messages.
LEMMA ChatKeeps ==
    ASSUME ChatInv, NEW r \in Req, ~Chat!At(r, "list"), UNCHANGED chatShown,
           \A q \in Req \ {r} : chatReq'[q] = chatReq[q],
           \A m \in Message : chatMessage'[m].read = chatMessage[m].read
    PROVE  Chat!ReadIsShown'
  BY DEF ChatInv, Chat!ReadIsShown, Chat!At

\* A first contact finds or makes the conversation.
LEMMA ContactStep ==
    ASSUME ChatInv, NEW r \in Req,
           \/ \E b \in Booking \cup {None}, then \in {"post", "open"} : Chat!Contact(r, b, then)
           \/ Chat!FindThread(r) \/ Chat!AttachBooking(r) \/ Chat!CreateThread(r)
    PROVE  ChatInv'
  <1> USE DEF ChatInv
  <1>0. Chat!TypeOK /\ chatReq \in [Req -> Chat!Request]
    BY DEF Chat!TypeOK
  <1>f. \A q : Chat!Found(q) \in Chat!Step
    BY DEF Chat!Found, Chat!Step
  <1>1. CASE \E b \in Booking \cup {None}, then \in {"post", "open"} : Chat!Contact(r, b, then)
    <2>1. PICK b \in Booking \cup {None}, then \in {"post", "open"} : Chat!Contact(r, b, then)
      BY <1>1
    <2>2. [Chat!Idle EXCEPT !.pc = "find", !.who = "guest", !.booking = b, !.then = then] \in Chat!Request
      BY DEF Chat!Idle, Chat!Request, Chat!Step, Chat!Person
    <2>3. chatReq' \in [Req -> Chat!Request] /\ Asked' /\ \A q \in Req \ {r} : chatReq'[q] = chatReq[q]
      BY <1>0, <2>1, <2>2 DEF Chat!Contact, ChatInv, Asked, Chat!At, Chat!Person, Chat!Idle
    <2> QED BY <2>1, <2>3, ChatKeeps DEF Chat!TypeOK, Chat!Contact, Chat!At
  <1>2. CASE Chat!FindThread(r)
    <2>1. PICK pc \in Chat!Step : Chat!Goto(r, pc)
      BY <1>2, <1>f DEF Chat!FindThread, Chat!Step
    <2>2. chatReq' \in [Req -> Chat!Request] /\ Asked' /\ \A q \in Req \ {r} : chatReq'[q] = chatReq[q]
      BY <1>2, <2>1, ChatRequests DEF Chat!FindThread, Chat!At
    <2> QED BY <1>2, <2>2, ChatKeeps DEF Chat!TypeOK, Chat!FindThread, Chat!At
  <1>3. CASE Chat!AttachBooking(r)
    <2>2. chatReq' \in [Req -> Chat!Request] /\ Asked' /\ \A q \in Req \ {r} : chatReq'[q] = chatReq[q]
      BY <1>3, <1>f, ChatRequests DEF Chat!AttachBooking, Chat!At
    <2>3. chatReq[r].booking \in Booking \cup {None}
      BY <1>0 DEF Chat!Request
    <2>4. chatThread' \in [exists : BOOLEAN, closed : BOOLEAN, booking : Booking \cup {None}]
      BY <1>3, <2>3 DEF Chat!TypeOK, Chat!AttachBooking
    <2> QED BY <1>3, <2>2, <2>4, ChatKeeps DEF Chat!TypeOK, Chat!AttachBooking, Chat!At
  <1>4. CASE Chat!CreateThread(r)
    <2>2. chatReq' \in [Req -> Chat!Request] /\ Asked' /\ \A q \in Req \ {r} : chatReq'[q] = chatReq[q]
      BY <1>4, <1>f, ChatRequests DEF Chat!CreateThread, Chat!At
    <2>3. chatReq[r].booking \in Booking \cup {None}
      BY <1>0 DEF Chat!Request
    <2>4. chatThread' \in [exists : BOOLEAN, closed : BOOLEAN, booking : Booking \cup {None}]
      BY <1>4, <2>3 DEF Chat!TypeOK, Chat!CreateThread
    <2> QED BY <1>4, <2>2, <2>4, ChatKeeps DEF Chat!TypeOK, Chat!CreateThread, Chat!At
  <1> QED BY <1>1, <1>2, <1>3, <1>4

\* A message is written by a request that found the conversation open, and the
\* conversation is closed and reopened.
LEMMA WriteStep ==
    ASSUME ChatInv, NEW r \in Req,
           \/ \E who \in Chat!Person : \/ Chat!SendMessage(r, who) \/ Chat!OpenThread(r, who)
                                       \/ Chat!MarkOnly(r, who)
                                       \/ \E close \in BOOLEAN : Chat!CloseOrReopen(r, who, close)
           \/ Chat!CheckOpen(r) \/ Chat!InsertMessage(r) \/ Chat!NotifyNewMessage(r)
           \/ Chat!LoadThread(r) \/ Chat!SetThreadClosed(r)
    PROVE  ChatInv'
  <1> USE DEF ChatInv
  <1>0. Chat!TypeOK /\ chatReq \in [Req -> Chat!Request]
    BY DEF Chat!TypeOK
  <1>1. CASE \E who \in Chat!Person : \/ Chat!SendMessage(r, who) \/ Chat!OpenThread(r, who)
                                       \/ Chat!MarkOnly(r, who)
    <2>1. PICK who \in Chat!Person, pc \in Chat!Step : Chat!Start(r, who, pc)
      BY <1>1 DEF Chat!SendMessage, Chat!OpenThread, Chat!MarkOnly, Chat!Step
    <2>2. chatReq' \in [Req -> Chat!Request] /\ Asked' /\ \A q \in Req \ {r} : chatReq'[q] = chatReq[q]
      BY <2>1, ChatRequests
    <2>3. UNCHANGED <<chatThread, chatMessage, chatShown>> /\ ~Chat!At(r, "list")
      BY <1>1 DEF Chat!SendMessage, Chat!OpenThread, Chat!MarkOnly, Chat!Start, Chat!At
    <2> QED BY <2>2, <2>3, ChatKeeps DEF Chat!TypeOK
  <1>2. CASE \E who \in Chat!Person, close \in BOOLEAN : Chat!CloseOrReopen(r, who, close)
    <2>1. PICK who \in Chat!Person, close \in BOOLEAN : Chat!CloseOrReopen(r, who, close)
      BY <1>2
    <2>2. [Chat!Idle EXCEPT !.pc = "close", !.who = who, !.close = close] \in Chat!Request
      BY DEF Chat!Idle, Chat!Request, Chat!Step
    <2>3. chatReq' \in [Req -> Chat!Request] /\ Asked' /\ \A q \in Req \ {r} : chatReq'[q] = chatReq[q]
      BY <1>0, <2>1, <2>2 DEF Chat!CloseOrReopen, ChatInv, Asked, Chat!At, Chat!Idle
    <2> QED BY <2>1, <2>3, ChatKeeps DEF Chat!TypeOK, Chat!CloseOrReopen, Chat!At
  <1>3. CASE Chat!CheckOpen(r) \/ Chat!NotifyNewMessage(r)
    <2>1. Chat!Done(r) \/ \E pc \in Chat!Step : Chat!Goto(r, pc)
      BY <1>3 DEF Chat!CheckOpen, Chat!NotifyNewMessage, Chat!Step
    <2>2. chatReq' \in [Req -> Chat!Request] /\ Asked' /\ \A q \in Req \ {r} : chatReq'[q] = chatReq[q]
      BY <1>3, <2>1, ChatRequests DEF Chat!CheckOpen, Chat!NotifyNewMessage, Chat!At
    <2>3. UNCHANGED <<chatThread, chatMessage, chatShown>> /\ ~Chat!At(r, "list")
      BY <1>3 DEF Chat!CheckOpen, Chat!NotifyNewMessage, Chat!At
    <2> QED BY <2>2, <2>3, ChatKeeps DEF Chat!TypeOK
  <1>4. CASE Chat!InsertMessage(r)
    <2>1. PICK m \in Message : chatMessage' = [chatMessage EXCEPT ![m].from = chatReq[r].who]
      BY <1>4 DEF Chat!InsertMessage
    <2>2. chatReq' \in [Req -> Chat!Request] /\ Asked' /\ \A q \in Req \ {r} : chatReq'[q] = chatReq[q]
      BY <1>4, ChatRequests DEF Chat!InsertMessage, Chat!At, Chat!Step
    <2>3. chatReq[r].who \in Chat!Person \cup {None}
      BY <1>0 DEF Chat!Request
    <2>4. /\ chatMessage' \in [Message -> Chat!MessageRow]
          /\ \A n \in Message : chatMessage'[n].read = chatMessage[n].read
      BY <2>1, <2>3 DEF Chat!TypeOK, Chat!MessageRow
    <2>5. UNCHANGED <<chatThread, chatShown>> /\ ~Chat!At(r, "list")
      BY <1>4 DEF Chat!InsertMessage, Chat!At
    <2> QED BY <2>2, <2>4, <2>5, ChatKeeps DEF Chat!TypeOK
  <1>5. CASE Chat!LoadThread(r)
    <2>1. PICK pc \in Chat!Step : Chat!Goto(r, pc)
      BY <1>5 DEF Chat!LoadThread, Chat!ViewStep, Chat!Step
    <2>2. chatReq' \in [Req -> Chat!Request] /\ Asked' /\ \A q \in Req \ {r} : chatReq'[q] = chatReq[q]
      BY <1>5, <2>1, ChatRequests DEF Chat!LoadThread, Chat!At
    <2>3. UNCHANGED <<chatThread, chatMessage, chatShown>> /\ ~Chat!At(r, "list")
      BY <1>5 DEF Chat!LoadThread, Chat!At
    <2> QED BY <2>2, <2>3, ChatKeeps DEF Chat!TypeOK
  <1>6. CASE Chat!SetThreadClosed(r)
    <2>2. chatReq' \in [Req -> Chat!Request] /\ Asked' /\ \A q \in Req \ {r} : chatReq'[q] = chatReq[q]
      BY <1>6, ChatRequests DEF Chat!SetThreadClosed
    <2>3. chatReq[r].close \in BOOLEAN
      BY <1>0 DEF Chat!Request
    <2>4. chatThread' \in [exists : BOOLEAN, closed : BOOLEAN, booking : Booking \cup {None}]
      BY <1>6, <2>3 DEF Chat!TypeOK, Chat!SetThreadClosed
    <2> QED BY <1>6, <2>2, <2>4, ChatKeeps DEF Chat!TypeOK, Chat!SetThreadClosed, Chat!At
  <1> QED BY <1>1, <1>2, <1>3, <1>4, <1>5, <1>6

\* Who marks messages by opening the conversation is about to list them.
LEMMA MarkStep ==
    ASSUME ChatInv, NEW r \in Req, Chat!MarkThreadRead(r) PROVE ChatInv'
  <1>0. Chat!TypeOK /\ chatReq \in [Req -> Chat!Request] /\ chatMessage \in [Message -> Chat!MessageRow]
    BY DEF Chat!TypeOK, ChatInv
  <1>1. PICK who \in Chat!Person \cup {None} : who = chatReq[r].who
    BY <1>0 DEF Chat!Request
  <1>2. \A by \in Chat!Person \cup {None, "badge"} :
           /\ Chat!Marked(who, by) \in [Message -> Chat!MessageRow]
           /\ \A m \in Message : Chat!Marked(who, by)[m].read \in {chatMessage[m].read, by}
    BY <1>0 DEF Chat!Marked, Chat!MessageRow
  <1>3. CASE Chat!At(r, "mark") /\ chatMessage' = Chat!Marked(who, who) /\ Chat!Goto(r, "list")
    <2>1. chatReq' \in [Req -> Chat!Request] /\ Asked'
      BY <1>3, ChatRequests DEF Chat!Step, Chat!At
    <2>2. chatReq'[r].pc = "list" /\ chatReq'[r].who = who
          /\ \A q \in Req \ {r} : chatReq'[q] = chatReq[q]
      BY <1>0, <1>1, <1>3 DEF Chat!Goto, Chat!Request
    <2>3. chatShown' = chatShown /\ chatThread' = chatThread
      BY DEF Chat!MarkThreadRead
    <2>4. ASSUME NEW m \in Message, NEW p \in Chat!Person, chatMessage'[m].read = p
          PROVE  p \in chatShown'[m] \/ \E q \in Req : chatReq'[q].who = p /\ Chat!At(q, "list")'
      <3>1. p = who \/ chatMessage[m].read = p
        BY <1>2, <1>3, <2>4
      <3>2. CASE p = who
        BY <2>2, <3>2 DEF Chat!At
      <3>3. CASE chatMessage[m].read = p
        <4>1. p \in chatShown[m] \/ \E q \in Req : chatReq[q].who = p /\ chatReq[q].pc = "list"
          BY <3>3 DEF ChatInv, Chat!ReadIsShown, Chat!At
        <4> QED BY <4>1, <2>2, <2>3, <1>3 DEF Chat!At
      <3> QED BY <3>1, <3>2, <3>3
    <2>5. Chat!ReadIsShown'
      BY <2>4 DEF Chat!ReadIsShown
    <2> QED BY <1>0, <1>2, <1>3, <2>1, <2>3, <2>5 DEF ChatInv, Chat!TypeOK
  <1>4. CASE Chat!At(r, "markOnly") /\ chatMessage' = Chat!Marked(who, "badge") /\ Chat!Done(r)
    <2>1. chatReq' \in [Req -> Chat!Request] /\ Asked' /\ \A q \in Req \ {r} : chatReq'[q] = chatReq[q]
      BY <1>4, ChatRequests
    <2>2. chatShown' = chatShown /\ chatThread' = chatThread
      BY DEF Chat!MarkThreadRead
    <2>3. \A m \in Message, p \in Chat!Person : chatMessage'[m].read = p => chatMessage[m].read = p
      BY <1>2, <1>4 DEF Chat!Person
    <2>4. Chat!ReadIsShown'
      BY <1>4, <2>1, <2>2, <2>3 DEF ChatInv, Chat!ReadIsShown, Chat!At
    <2> QED BY <1>0, <1>2, <1>4, <2>1, <2>2, <2>4 DEF ChatInv, Chat!TypeOK
  <1> QED BY <1>1, <1>3, <1>4 DEF Chat!MarkThreadRead, Chat!ViewStep

\* Who lists the messages is shown those that are there.
LEMMA ListStep ==
    ASSUME ChatInv, NEW r \in Req, Chat!ListMessages(r) PROVE ChatInv'
  <1>0. /\ Chat!TypeOK /\ chatReq \in [Req -> Chat!Request] /\ chatMessage \in [Message -> Chat!MessageRow]
        /\ chatShown \in [Message -> SUBSET Chat!Person]
    BY DEF Chat!TypeOK, ChatInv
  <1>1. /\ chatShown' = [m \in Message |-> IF chatMessage[m] # Chat!NoMessage
                                           THEN chatShown[m] \cup {chatReq[r].who} ELSE chatShown[m]]
        /\ Chat!Done(r) /\ UNCHANGED <<chatThread, chatMessage>>
    BY DEF Chat!ListMessages, Chat!ViewStep
  <1>2. chatReq' \in [Req -> Chat!Request] /\ Asked' /\ \A q \in Req \ {r} : chatReq'[q] = chatReq[q]
    BY <1>1, ChatRequests
  <1>3. Chat!ReadIsShown'
    <2> SUFFICES ASSUME NEW m \in Message, NEW p \in Chat!Person, chatMessage[m].read = p
                 PROVE  p \in chatShown'[m] \/ \E q \in Req : chatReq'[q].who = p /\ Chat!At(q, "list")'
      BY <1>1 DEF Chat!ReadIsShown
    <2>1. chatMessage[m] # Chat!NoMessage
      BY StayAssumption DEF Chat!NoMessage, Chat!Person
    <2>2. CASE p \in chatShown[m]
      BY <1>0, <1>1, <2>2
    <2>3. CASE \E q \in Req : chatReq[q].who = p /\ Chat!At(q, "list")
      <3>1. PICK q \in Req : chatReq[q].who = p /\ chatReq[q].pc = "list"
        BY <2>3 DEF Chat!At
      <3>2. CASE q = r
        BY <1>1, <2>1, <3>1, <3>2
      <3>3. CASE q # r
        BY <1>2, <3>1, <3>3 DEF Chat!At
      <3> QED BY <3>2, <3>3
    <2> QED BY <2>2, <2>3 DEF ChatInv, Chat!ReadIsShown
  <1>4. chatReq[r].who \in Chat!Person
    BY DEF ChatInv, Asked, Chat!ListMessages, Chat!At
  <1> QED BY <1>0, <1>1, <1>2, <1>3, <1>4 DEF ChatInv, Chat!TypeOK

\* Who is not told what was marked for them leaves it marked as lost.
LEMMA LoseStep ==
    ASSUME ChatInv, NEW r \in Req, Chat!LoseRequest(r) PROVE ChatInv'
  <1>0. /\ Chat!TypeOK /\ chatReq \in [Req -> Chat!Request] /\ chatMessage \in [Message -> Chat!MessageRow]
    BY DEF Chat!TypeOK, ChatInv
  <1>1. PICK who \in Chat!Person \cup {None} : who = chatReq[r].who
    BY <1>0 DEF Chat!Request
  <1>2. /\ chatMessage' = [m \in Message |->
                 IF Chat!At(r, "list") /\ chatMessage[m].read = who /\ who \notin chatShown[m]
                 THEN [chatMessage[m] EXCEPT !.read = "lost"] ELSE chatMessage[m]]
        /\ Chat!Done(r) /\ UNCHANGED <<chatThread, chatShown>>
    BY <1>1 DEF Chat!LoseRequest
  <1>3. chatReq' \in [Req -> Chat!Request] /\ Asked' /\ \A q \in Req \ {r} : chatReq'[q] = chatReq[q]
    BY <1>2, ChatRequests
  <1>4. chatMessage' \in [Message -> Chat!MessageRow]
    <2>1. \A m \in Message : [chatMessage[m] EXCEPT !.read = "lost"] \in Chat!MessageRow
      BY <1>0 DEF Chat!MessageRow
    <2> QED BY <1>0, <1>2, <2>1
  <1>5. ASSUME NEW m \in Message, NEW p \in Chat!Person, chatMessage'[m].read = p
        PROVE  p \in chatShown[m] \/ \E q \in Req : chatReq'[q].who = p /\ chatReq'[q].pc = "list"
    <2>1. /\ chatMessage[m].read = p
          /\ ~(Chat!At(r, "list") /\ p = who /\ who \notin chatShown[m])
      <3>1. [chatMessage[m] EXCEPT !.read = "lost"].read = "lost"
        BY <1>0 DEF Chat!MessageRow
      <3>2. p # "lost"
        BY DEF Chat!Person
      <3> QED BY <1>2, <1>5, <3>1, <3>2
    <2>2. p \in chatShown[m] \/ \E q \in Req : chatReq[q].who = p /\ chatReq[q].pc = "list"
      BY <2>1 DEF ChatInv, Chat!ReadIsShown, Chat!At
    <2> QED BY <1>1, <1>3, <2>1, <2>2 DEF Chat!At
  <1>6. Chat!ReadIsShown'
    BY <1>2, <1>5 DEF Chat!ReadIsShown, Chat!At
  <1> QED BY <1>0, <1>2, <1>3, <1>4, <1>6 DEF ChatInv, Chat!TypeOK

\* Every step of the conversation.
LEMMA ChatStep == ChatInv /\ [Chat!Next]_chatVars => ChatInv'
  <1> SUFFICES ASSUME ChatInv, [Chat!Next]_chatVars PROVE ChatInv'
    OBVIOUS
  <1>1. CASE UNCHANGED chatVars
    BY <1>1 DEF chatVars, ChatInv, Chat!TypeOK, Asked, Chat!ReadIsShown, Chat!At
  <1>2. CASE Chat!Next
    BY <1>2, ContactStep, WriteStep, MarkStep, ListStep, LoseStep DEF Chat!Next
  <1> QED BY <1>1, <1>2

-------------------------------------------------------------------------------
(* The countries and the cities (DefaultPlaces)                            *)

\* What a server still has to insert, with what there is and what was taken away,
\* is every default place.
SeedsTheRest ==
    \A s \in Guest : Places!At(s, "seed") =>
        DefaultPlace \ placePlace \subseteq placeBoot[s].left \cup placeDropped

\* Once there are places, or a server is up, the default places are there, somebody
\* is at it, or a seeding was cut short.
PlacesCovered ==
    (placePlace # {} \/ \E s \in Guest : Places!At(s, "up")) /\ ~placeHalted =>
        \/ DefaultPlace \ placePlace \subseteq placeDropped
        \/ \E s \in Guest : Places!At(s, "seed")

\* The inductive invariant.
PlacesInv == Places!TypeOK /\ SeedsTheRest /\ PlacesCovered

\* No place, and no server.
LEMMA PlacesInit == Places!Init => PlacesInv
  <1> SUFFICES ASSUME Places!Init PROVE PlacesInv
    OBVIOUS
  <1>1. \A s \in Guest : placeBoot[s].pc = "off"
    BY DEF Places!Init, Places!Off
  <1>2. Places!TypeOK
    BY DEF Places!Init, Places!TypeOK, Places!Off
  <1>3. SeedsTheRest /\ PlacesCovered
    BY <1>1 DEF Places!Init, SeedsTheRest, PlacesCovered, Places!At
  <1> QED BY <1>2, <1>3 DEF PlacesInv

\* A server that starts, counts, inserts, fails or stops.
LEMMA ServerStep ==
    ASSUME PlacesInv, NEW s \in Guest,
           Places!Start(s) \/ Places!CountPlaces(s) \/ Places!SeedPlace(s) \/ Places!QueryFails(s) \/ Places!Stop(s)
    PROVE  PlacesInv'
  <1> USE DEF PlacesInv
  <1>0. /\ placeBoot \in [Guest -> [pc : {"off", "count", "seed", "up"}, left : SUBSET DefaultPlace]]
        /\ placePlace \subseteq Place /\ DefaultPlace \subseteq Place /\ placeHalted \in BOOLEAN
    BY StayAssumption DEF Places!TypeOK
  <1>g. ASSUME NEW pc \in {"off", "count", "seed", "up"}, NEW left \in SUBSET DefaultPlace, Places!Goto(s, pc, left)
        PROVE  /\ placeBoot' \in [Guest -> [pc : {"off", "count", "seed", "up"}, left : SUBSET DefaultPlace]]
               /\ placeBoot'[s].pc = pc /\ placeBoot'[s].left = left
               /\ \A z \in Guest \ {s} : placeBoot'[z] = placeBoot[z]
    BY <1>0, <1>g DEF Places!Goto
  <1>1. CASE Places!Start(s)
    <2>1. /\ placeBoot' \in [Guest -> [pc : {"off", "count", "seed", "up"}, left : SUBSET DefaultPlace]]
          /\ placeBoot'[s].pc = "count" /\ \A z \in Guest \ {s} : placeBoot'[z] = placeBoot[z]
      BY <1>1, <1>g DEF Places!Start
    <2> QED BY <1>1, <2>1 DEF Places!Start, Places!TypeOK, SeedsTheRest, PlacesCovered, Places!At
  <1>2. CASE Places!CountPlaces(s)
    <2>1. CASE placePlace = {}
      <3>1. /\ placeBoot' \in [Guest -> [pc : {"off", "count", "seed", "up"}, left : SUBSET DefaultPlace]]
            /\ placeBoot'[s].pc = "seed" /\ placeBoot'[s].left = DefaultPlace
            /\ \A z \in Guest \ {s} : placeBoot'[z] = placeBoot[z]
        BY <1>2, <2>1, <1>g DEF Places!CountPlaces
      <3> QED BY <1>2, <2>1, <3>1 DEF Places!CountPlaces, Places!TypeOK, SeedsTheRest, PlacesCovered, Places!At
    <2>2. CASE placePlace # {}
      <3>1. /\ placeBoot' \in [Guest -> [pc : {"off", "count", "seed", "up"}, left : SUBSET DefaultPlace]]
            /\ placeBoot'[s].pc = "up" /\ \A z \in Guest \ {s} : placeBoot'[z] = placeBoot[z]
        BY <1>2, <2>2, <1>g DEF Places!CountPlaces
      <3> QED BY <1>0, <1>2, <2>2, <3>1 DEF Places!CountPlaces, Places!TypeOK, SeedsTheRest, PlacesCovered, Places!At
    <2> QED BY <2>1, <2>2
  <1>3. CASE Places!SeedPlace(s)
    <2>1. CASE placeBoot[s].left = {}
      <3>1. /\ placeBoot' \in [Guest -> [pc : {"off", "count", "seed", "up"}, left : SUBSET DefaultPlace]]
            /\ placeBoot'[s].pc = "up" /\ \A z \in Guest \ {s} : placeBoot'[z] = placeBoot[z]
        BY <1>3, <2>1, <1>g DEF Places!SeedPlace
      <3>2. DefaultPlace \ placePlace \subseteq placeDropped
        BY <1>3, <2>1 DEF Places!SeedPlace, SeedsTheRest
      <3> QED BY <1>3, <2>1, <3>1, <3>2 DEF Places!SeedPlace, Places!TypeOK, SeedsTheRest, PlacesCovered, Places!At
    <2>2. CASE placeBoot[s].left # {}
      <3>1. PICK p \in placeBoot[s].left : placePlace' = placePlace \cup {p}
                                           /\ Places!Goto(s, "seed", placeBoot[s].left \ {p})
        BY <1>3, <2>2 DEF Places!SeedPlace
      <3>2. p \in Place /\ placeBoot[s].left \ {p} \in SUBSET DefaultPlace
        BY <1>0
      <3>3. /\ placeBoot' \in [Guest -> [pc : {"off", "count", "seed", "up"}, left : SUBSET DefaultPlace]]
            /\ placeBoot'[s].pc = "seed" /\ placeBoot'[s].left = placeBoot[s].left \ {p}
            /\ \A z \in Guest \ {s} : placeBoot'[z] = placeBoot[z]
        BY <1>g, <3>1, <3>2
      <3> QED BY <1>0, <1>3, <3>1, <3>2, <3>3 DEF Places!SeedPlace, Places!TypeOK, SeedsTheRest, PlacesCovered, Places!At
    <2> QED BY <2>1, <2>2
  <1>4. CASE Places!QueryFails(s)
    <2>1. /\ placeBoot' \in [Guest -> [pc : {"off", "count", "seed", "up"}, left : SUBSET DefaultPlace]]
          /\ placeBoot'[s].pc = "up" /\ \A z \in Guest \ {s} : placeBoot'[z] = placeBoot[z]
      BY <1>4, <1>g DEF Places!QueryFails
    <2> QED BY <1>4, <2>1 DEF Places!QueryFails, Places!TypeOK, SeedsTheRest, PlacesCovered, Places!At
  <1>5. CASE Places!Stop(s)
    <2>1. /\ placeBoot' \in [Guest -> [pc : {"off", "count", "seed", "up"}, left : SUBSET DefaultPlace]]
          /\ placeBoot'[s].pc = "off" /\ \A z \in Guest \ {s} : placeBoot'[z] = placeBoot[z]
      BY <1>5, <1>g DEF Places!Stop
    <2>2. placeHalted' = (placeHalted \/ (Places!At(s, "seed") /\ placeBoot[s].left # {}))
          /\ placePlace' = placePlace /\ placeDropped' = placeDropped
      BY <1>5 DEF Places!Stop
    <2>3. Places!At(s, "seed") /\ ~placeHalted' => DefaultPlace \ placePlace \subseteq placeDropped
      BY <2>2 DEF SeedsTheRest
    <2>4. PlacesCovered'
      BY <2>1, <2>2, <2>3 DEF PlacesCovered, Places!At
    <2>5. placeHalted' \in BOOLEAN
      BY <2>2
    <2> QED BY <2>1, <2>2, <2>4, <2>5 DEF Places!TypeOK, SeedsTheRest, Places!At
  <1> QED BY <1>1, <1>2, <1>3, <1>4, <1>5

\* An administrator who saves, deletes or renames a place, by way of a server that
\* is up.
LEMMA AdministratorStep ==
    ASSUME PlacesInv, NEW p \in Place,
           \/ Places!SavePlace(p) \/ Places!DeletePlace(p)
           \/ \E q \in Place : Places!RenamePlace(p, q)
    PROVE  PlacesInv'
  <1>1. (\E s \in Guest : Places!At(s, "up")) /\ UNCHANGED <<placeBoot, placeHalted>>
    BY DEF Places!SavePlace, Places!DeletePlace, Places!RenamePlace
  <1>2. placePlace' \subseteq Place /\ placeDropped' \subseteq Place
    BY DEF PlacesInv, Places!TypeOK, Places!SavePlace, Places!DeletePlace, Places!RenamePlace
  <1>3. placePlace \subseteq placePlace' \cup placeDropped' /\ placeDropped \subseteq placeDropped'
    BY DEF Places!SavePlace, Places!DeletePlace, Places!RenamePlace
  <1> QED BY <1>1, <1>2, <1>3 DEF PlacesInv, Places!TypeOK, SeedsTheRest, PlacesCovered, Places!At

\* Every step of the places.
LEMMA PlacesStep == PlacesInv /\ [Places!Next]_placeVars => PlacesInv'
  <1> SUFFICES ASSUME PlacesInv, [Places!Next]_placeVars PROVE PlacesInv'
    OBVIOUS
  <1>1. CASE UNCHANGED placeVars
    BY <1>1 DEF placeVars, PlacesInv, Places!TypeOK, SeedsTheRest, PlacesCovered, Places!At
  <1>2. CASE Places!Next
    BY <1>2, ServerStep, AdministratorStep DEF Places!Next
  <1> QED BY <1>1, <1>2

-------------------------------------------------------------------------------
(* The types and the amenities (CatalogItems)                              *)

\* What a request is about.
AboutItems ==
    \A r \in Guest :
        /\ Items!At(r, "equipment") \/ Items!At(r, "save") => itemReq[r].type \in Type
        /\ Items!At(r, "retire") \/ Items!At(r, "delete") => itemReq[r].item \in Type \cup Equipment

\* A type that is missing while a save takes it was deleted meanwhile, and a deletion
\* knows when its type was taken after it looked.
OverlapsAreKnown ==
    \A r \in Guest :
        /\ Items!At(r, "equipment") \/ Items!At(r, "save") =>
              (itemRow[itemReq[r].type] = "none" => itemReq[r].type \in itemCrossed)
        /\ Items!At(r, "delete") /\ itemReq[r].item = itemListing.type => itemReq[r].stale

\* The inductive invariant.
ItemsInv ==
    /\ Items!TypeOK /\ AboutItems /\ OverlapsAreKnown
    /\ Items!UsedAmenitiesExist /\ Items!UsedTypesExist

\* The default items are there, and nothing uses them.
LEMMA ItemsInit == Items!Init => ItemsInv
  <1> SUFFICES ASSUME Items!Init PROVE ItemsInv
    OBVIOUS
  <1>1. \A r \in Guest : itemReq[r].pc = "idle"
    BY DEF Items!Init, Items!Idle
  <1>2. Items!TypeOK
    BY DEF Items!Init, Items!TypeOK, Items!Idle, Items!Item
  <1>3. AboutItems /\ OverlapsAreKnown
    BY <1>1 DEF AboutItems, OverlapsAreKnown, Items!At
  <1>4. Items!UsedAmenitiesExist /\ Items!UsedTypesExist
    BY DEF Items!Init, Items!UsedAmenitiesExist, Items!UsedTypesExist
  <1> QED BY <1>2, <1>3, <1>4 DEF ItemsInv

\* A request that ends leaves the others alone.
LEMMA ItemsDone ==
    ASSUME ItemsInv, NEW r \in Guest, Items!Done(r)
    PROVE  /\ itemReq' \in [Guest -> [pc : {"idle", "equipment", "save", "retire", "delete"}, type : Type \cup {None},
                              equipment : SUBSET Equipment, item : Type \cup Equipment \cup {None}, stale : BOOLEAN]]
           /\ itemReq'[r].pc = "idle" /\ \A q \in Guest \ {r} : itemReq'[q] = itemReq[q]
  <1>1. Items!Idle \in [pc : {"idle", "equipment", "save", "retire", "delete"}, type : Type \cup {None},
                equipment : SUBSET Equipment, item : Type \cup Equipment \cup {None}, stale : BOOLEAN]
        /\ Items!Idle.pc = "idle"
    BY DEF Items!Idle
  <1> QED BY <1>1 DEF Items!Done, ItemsInv, Items!TypeOK, Items!Item

\* A step of the requests alone: what they are about and what overlaps stays known.
LEMMA ItemsKeep ==
    ASSUME ItemsInv, UNCHANGED <<itemRow, itemListing, itemCrossed>>, NEW r \in Guest,
           itemReq' \in [Guest -> [pc : {"idle", "equipment", "save", "retire", "delete"}, type : Type \cup {None},
                              equipment : SUBSET Equipment, item : Type \cup Equipment \cup {None}, stale : BOOLEAN]],
           \A q \in Guest \ {r} : itemReq'[q] = itemReq[q],
           \/ itemReq'[r].pc = "idle"
           \/ /\ itemReq'[r].pc \in {"equipment", "save"}
              /\ itemReq'[r].type \in Type /\ (itemRow[itemReq'[r].type] = "none" => itemReq'[r].type \in itemCrossed)
           \/ /\ itemReq'[r].pc \in {"retire", "delete"} /\ itemReq'[r].item \in Type \cup Equipment
              /\ itemReq'[r].pc = "delete" => itemReq'[r].item # itemListing.type
    PROVE  ItemsInv'
  <1>1. Items!TypeOK'
    BY DEF ItemsInv, Items!TypeOK, Items!Item
  <1>2. AboutItems' /\ OverlapsAreKnown'
    BY DEF ItemsInv, AboutItems, OverlapsAreKnown, Items!At
  <1> QED BY <1>1, <1>2 DEF ItemsInv, Items!UsedAmenitiesExist, Items!UsedTypesExist

\* A save is checked.
LEMMA CheckSaveStep ==
    ASSUME ItemsInv, NEW r \in Guest,
           \/ \E t \in Type, e \in SUBSET Equipment : Items!StartSave(r, t, e)
           \/ Items!AssertEquipmentExists(r)
    PROVE  ItemsInv'
  <1> DEFINE R == [pc : {"idle", "equipment", "save", "retire", "delete"}, type : Type \cup {None},
                   equipment : SUBSET Equipment, item : Type \cup Equipment \cup {None}, stale : BOOLEAN]
  <1>0. itemReq \in [Guest -> R] /\ Items!Idle \in R
    BY DEF ItemsInv, Items!TypeOK, Items!Item, Items!Idle
  <1>1. CASE \E t \in Type, e \in SUBSET Equipment : Items!StartSave(r, t, e)
    <2>1. PICK t \in Type, e \in SUBSET Equipment : Items!StartSave(r, t, e)
      BY <1>1
    <2> DEFINE Saving(z) == [z EXCEPT !.pc = "equipment", !.type = t, !.equipment = e]
               q == Saving(Items!Idle)
    <2>0. \A z \in R : Saving(z) \in R /\ Saving(z).pc = "equipment" /\ Saving(z).type = t
      OBVIOUS
    <2>2. q \in R /\ q.pc = "equipment" /\ q.type = t
      BY <1>0, <2>0
    <2>3. itemReq' = [itemReq EXCEPT ![r] = q] /\ itemRow[t] = "active"
          /\ UNCHANGED <<itemRow, itemListing, itemCrossed>>
      BY <2>1, <2>2 DEF Items!StartSave
    <2> QED BY <1>0, <2>2, <2>3, ItemsKeep
  <1>2. CASE Items!AssertEquipmentExists(r)
    <2>1. PICK q \in R : q \in {[itemReq[r] EXCEPT !.pc = "save"], Items!Idle}
                         /\ itemReq' = [itemReq EXCEPT ![r] = q]
      BY <1>0, <1>2 DEF Items!AssertEquipmentExists
    <2>2. itemReq' \in [Guest -> R] /\ itemReq'[r] = q /\ \A z \in Guest \ {r} : itemReq'[z] = itemReq[z]
      BY <1>0, <2>1
    <2>3. UNCHANGED <<itemRow, itemListing, itemCrossed>> /\ Items!At(r, "equipment")
      BY <1>2 DEF Items!AssertEquipmentExists
    <2>4. q.pc = "idle" \/ (q.pc = "save" /\ q.type = itemReq[r].type)
      BY <1>0, <2>1 DEF Items!Idle
    <2>5. itemReq[r].type \in Type /\ (itemRow[itemReq[r].type] = "none" => itemReq[r].type \in itemCrossed)
      BY <2>3 DEF ItemsInv, AboutItems, OverlapsAreKnown
    <2> QED BY <2>2, <2>3, <2>4, <2>5, ItemsKeep
  <1> QED BY <1>1, <1>2

\* A save takes its type and its amenities: who deletes the type comes to know.
LEMMA TakeStep ==
    ASSUME ItemsInv, NEW r \in Guest, Items!SaveListing(r) PROVE ItemsInv'
  <1> DEFINE R == [pc : {"idle", "equipment", "save", "retire", "delete"}, type : Type \cup {None},
                   equipment : SUBSET Equipment, item : Type \cup Equipment \cup {None}, stale : BOOLEAN]
  <1>0. itemReq \in [Guest -> R] /\ Items!Idle \in R /\ Items!Idle.pc = "idle" /\ Items!At(r, "save")
    BY DEF ItemsInv, Items!TypeOK, Items!Item, Items!Idle, Items!SaveListing
  <1>1. PICK t \in Type : t = itemReq[r].type
    BY <1>0 DEF ItemsInv, AboutItems
  <1>2. CASE \A e \in itemReq[r].equipment : itemRow[e] # "none"
    <2>1. /\ itemListing' = [type |-> t, equipment |-> itemReq[r].equipment]
          /\ itemReq' = [q \in Guest |-> IF q = r THEN Items!Idle
                                         ELSE IF q \in Items!Deleting(t) THEN [itemReq[q] EXCEPT !.stale = TRUE]
                                         ELSE itemReq[q]]
          /\ UNCHANGED <<itemRow, itemCrossed>>
      BY <1>1, <1>2 DEF Items!SaveListing
    <2>2. \A q \in R : /\ [q EXCEPT !.stale = TRUE] \in R /\ [q EXCEPT !.stale = TRUE].stale
                       /\ [q EXCEPT !.stale = TRUE].pc = q.pc
                       /\ [q EXCEPT !.stale = TRUE].type = q.type /\ [q EXCEPT !.stale = TRUE].item = q.item
      OBVIOUS
    <2>3. itemReq' \in [Guest -> R] /\ itemReq'[r].pc = "idle"
      BY <1>0, <2>1, <2>2
    <2>4. \A q \in Guest \ {r} : /\ itemReq'[q].pc = itemReq[q].pc /\ itemReq'[q].type = itemReq[q].type
                                 /\ itemReq'[q].item = itemReq[q].item
                                 /\ itemReq[q].pc = "delete" /\ itemReq[q].item = t => itemReq'[q].stale
      BY <1>0, <2>1, <2>2 DEF Items!Deleting, Items!At
    <2>5. itemReq[r].equipment \in SUBSET Equipment
      BY <1>0
    <2>6. Items!TypeOK'
      BY <2>1, <2>3, <2>5 DEF ItemsInv, Items!TypeOK, Items!Item
    <2>7. itemListing'.type = t /\ itemListing'.equipment = itemReq[r].equipment
      BY <2>1
    <2>8. AboutItems'
      BY <2>3, <2>4 DEF ItemsInv, AboutItems, Items!At
    <2>9. OverlapsAreKnown'
      BY <2>1, <2>3, <2>4, <2>7 DEF ItemsInv, OverlapsAreKnown, Items!At
    <2>10. Items!UsedAmenitiesExist'
      BY <1>2, <2>1, <2>7 DEF Items!UsedAmenitiesExist
    <2>11. Items!UsedTypesExist'
      BY <1>0, <1>1, <2>1, <2>7 DEF ItemsInv, OverlapsAreKnown, Items!UsedTypesExist
    <2> QED BY <2>6, <2>8, <2>9, <2>10, <2>11 DEF ItemsInv
  <1>3. CASE ~\A e \in itemReq[r].equipment : itemRow[e] # "none"
    <2>1. Items!Done(r) /\ UNCHANGED <<itemRow, itemListing, itemCrossed>>
      BY <1>3 DEF Items!SaveListing
    <2> QED BY <2>1, ItemsDone, ItemsKeep
  <1> QED BY <1>2, <1>3

\* A listing that is gone uses nothing.
LEMMA UnuseStep == ASSUME ItemsInv, Items!DeleteListing PROVE ItemsInv'
  <1>1. itemListing' = [type |-> None, equipment |-> {}] /\ UNCHANGED <<itemRow, itemReq, itemCrossed>>
    BY DEF Items!DeleteListing
  <1>2. itemListing'.type = None /\ itemListing'.equipment = {}
    BY <1>1
  <1>3. Items!TypeOK'
    BY <1>1 DEF ItemsInv, Items!TypeOK
  <1>4. AboutItems' /\ OverlapsAreKnown'
    BY <1>1, <1>2, StayAssumption DEF ItemsInv, AboutItems, OverlapsAreKnown, Items!At
  <1> QED BY <1>2, <1>3, <1>4 DEF ItemsInv, Items!UsedAmenitiesExist, Items!UsedTypesExist

\* An item that is written again is there.
LEMMA WriteItem ==
    ASSUME ItemsInv, NEW i \in Type \cup Equipment, NEW state \in {"active", "retired"},
           Items!Write(i, state), UNCHANGED <<itemListing, itemReq>>
    PROVE  ItemsInv'
  <1>1. /\ itemRow' \in [Type \cup Equipment -> {"none", "active", "retired"}]
        /\ itemRow'[i] # "none" /\ \A j \in (Type \cup Equipment) \ {i} : itemRow'[j] = itemRow[j]
        /\ itemCrossed' = itemCrossed \ {i}
    BY DEF Items!Write, ItemsInv, Items!TypeOK, Items!Item
  <1>2. Items!TypeOK'
    BY <1>1 DEF ItemsInv, Items!TypeOK, Items!Item
  <1>3. AboutItems'
    BY DEF ItemsInv, AboutItems, Items!At
  <1>4. OverlapsAreKnown'
    BY <1>1 DEF ItemsInv, AboutItems, OverlapsAreKnown, Items!At
  <1>5. Items!UsedAmenitiesExist'
    BY <1>1 DEF ItemsInv, Items!TypeOK, Items!UsedAmenitiesExist
  <1>6. Items!UsedTypesExist'
    BY <1>1 DEF ItemsInv, Items!TypeOK, Items!UsedTypesExist
  <1> QED BY <1>2, <1>3, <1>4, <1>5, <1>6 DEF ItemsInv

\* An administrator asks to remove an item: what is used is switched off.
LEMMA AskRemovalStep ==
    ASSUME ItemsInv, NEW r \in Guest, NEW i \in Type \cup Equipment, Items!StartRemove(r, i) PROVE ItemsInv'
  <1> DEFINE R == [pc : {"idle", "equipment", "save", "retire", "delete"}, type : Type \cup {None},
                   equipment : SUBSET Equipment, item : Type \cup Equipment \cup {None}, stale : BOOLEAN]
  <1>0. itemReq \in [Guest -> R] /\ Items!Idle \in R
    BY DEF ItemsInv, Items!TypeOK, Items!Item, Items!Idle
  <1>1. PICK pc \in {"retire", "delete"} :
           /\ itemReq' = [itemReq EXCEPT ![r] = [Items!Idle EXCEPT !.pc = pc, !.item = i]]
           /\ pc = "delete" => ~Items!Used(i)
    BY DEF Items!StartRemove
  <1> DEFINE Removing(z) == [z EXCEPT !.pc = pc, !.item = i]
             q == Removing(Items!Idle)
  <1>2. q \in R /\ q.pc = pc /\ q.item = i
    <2>1. \A z \in R : Removing(z) \in R /\ Removing(z).pc = pc /\ Removing(z).item = i
      OBVIOUS
    <2> QED BY <1>0, <2>1
  <1>3. pc = "delete" => i # itemListing.type
    BY <1>1 DEF Items!Used, Items!Uses
  <1>4. itemReq' \in [Guest -> R] /\ itemReq'[r] = q /\ \A z \in Guest \ {r} : itemReq'[z] = itemReq[z]
    BY <1>0, <1>1, <1>2
  <1>5. UNCHANGED <<itemRow, itemListing, itemCrossed>>
    BY DEF Items!StartRemove
  <1> QED BY <1>2, <1>3, <1>4, <1>5, ItemsKeep, ZenonT(40)

\* What is switched off is still there.
LEMMA RetireStep ==
    ASSUME ItemsInv, NEW r \in Guest, Items!Retire(r) PROVE ItemsInv'
  <1>1. PICK i \in Type \cup Equipment : i = itemReq[r].item
    BY DEF ItemsInv, AboutItems, Items!Retire
  <1>2. /\ itemRow' = [itemRow EXCEPT ![i] = IF @ = "none" THEN "none" ELSE "retired"]
        /\ Items!Done(r) /\ UNCHANGED <<itemListing, itemCrossed>>
    BY <1>1 DEF Items!Retire
  <1>3. /\ itemRow' \in [Type \cup Equipment -> {"none", "active", "retired"}]
        /\ \A j \in Type \cup Equipment : itemRow'[j] = "none" <=> itemRow[j] = "none"
    BY <1>2 DEF ItemsInv, Items!TypeOK, Items!Item
  <1>4. Items!TypeOK'
    BY <1>2, <1>3, ItemsDone DEF ItemsInv, Items!TypeOK, Items!Item
  <1>5. AboutItems' /\ OverlapsAreKnown'
    BY <1>2, <1>3, ItemsDone DEF ItemsInv, AboutItems, OverlapsAreKnown, Items!At
  <1>6. Items!UsedAmenitiesExist' /\ Items!UsedTypesExist'
    BY <1>2, <1>3 DEF ItemsInv, Items!TypeOK, Items!UsedAmenitiesExist, Items!UsedTypesExist
  <1> QED BY <1>4, <1>5, <1>6 DEF ItemsInv

\* What is deleted no listing uses, unless it was taken meanwhile.
LEMMA DeleteItemStep ==
    ASSUME ItemsInv, NEW r \in Guest, Items!Delete(r) PROVE ItemsInv'
  <1>1. PICK i \in Type \cup Equipment : i = itemReq[r].item
    BY DEF ItemsInv, AboutItems, Items!Delete
  <1>2. Items!Done(r) /\ itemListing' = itemListing /\ Items!At(r, "delete")
    BY DEF Items!Delete
  <1>3. CASE Items!Restricted(i)
    <2>1. UNCHANGED <<itemRow, itemCrossed>>
      BY <1>1, <1>3 DEF Items!Delete
    <2> QED BY <1>2, <2>1, ItemsDone, ItemsKeep
  <1>4. CASE ~Items!Restricted(i)
    <2>1. /\ itemRow' = [itemRow EXCEPT ![i] = "none"]
          /\ itemCrossed' = IF i \in Type /\ (itemReq[r].stale \/ Items!Taking(i) # {})
                            THEN itemCrossed \cup {i} ELSE itemCrossed
      BY <1>1, <1>4 DEF Items!Delete
    <2>2. /\ itemRow' \in [Type \cup Equipment -> {"none", "active", "retired"}]
          /\ \A j \in (Type \cup Equipment) \ {i} : itemRow'[j] = itemRow[j]
          /\ itemCrossed \subseteq itemCrossed' /\ itemCrossed' \subseteq Type
      BY <2>1 DEF ItemsInv, Items!TypeOK, Items!Item
    <2>3. Items!TypeOK'
      BY <1>2, <2>2, ItemsDone DEF ItemsInv, Items!TypeOK, Items!Item
    <2>4. AboutItems'
      BY <1>2, ItemsDone DEF ItemsInv, AboutItems, Items!At
    <2>5. OverlapsAreKnown'
      <3>1. ASSUME NEW q \in Guest \ {r}, itemReq[q].pc \in {"equipment", "save"}, itemReq[q].type = i
            PROVE  i \in itemCrossed'
        <4>1. q \in Items!Taking(i) /\ i \in Type
          BY <3>1 DEF Items!Taking, Items!At, ItemsInv, AboutItems
        <4> QED BY <2>1, <4>1
      <3>2. itemReq'[r].pc = "idle" /\ \A q \in Guest \ {r} : itemReq'[q] = itemReq[q]
        BY <1>2, ItemsDone
      <3>3. ASSUME NEW q \in Guest, itemReq'[q].pc \in {"equipment", "save"}, itemRow'[itemReq'[q].type] = "none"
            PROVE  itemReq'[q].type \in itemCrossed'
        BY <2>2, <3>1, <3>2, <3>3 DEF ItemsInv, AboutItems, OverlapsAreKnown, Items!At
      <3>4. ASSUME NEW q \in Guest, itemReq'[q].pc = "delete", itemReq'[q].item = itemListing'.type
            PROVE  itemReq'[q].stale
        BY <1>2, <3>2, <3>4 DEF ItemsInv, OverlapsAreKnown, Items!At
      <3> QED BY <3>3, <3>4 DEF OverlapsAreKnown, Items!At
    <2>6. Items!UsedAmenitiesExist'
      BY <1>2, <1>4, <2>2 DEF ItemsInv, Items!TypeOK, Items!UsedAmenitiesExist, Items!Restricted, Items!Uses
    <2>7. Items!UsedTypesExist'
      <3> SUFFICES ASSUME itemListing.type # None, itemRow'[itemListing.type] = "none"
                   PROVE  itemListing.type \in itemCrossed'
        BY <1>2 DEF Items!UsedTypesExist
      <3>1. itemListing.type \in Type
        BY DEF ItemsInv, Items!TypeOK
      <3>2. CASE itemListing.type = i
        BY <1>1, <1>2, <2>1, <3>1, <3>2 DEF ItemsInv, OverlapsAreKnown
      <3>3. CASE itemListing.type # i
        BY <2>2, <3>1, <3>3 DEF ItemsInv, Items!UsedTypesExist
      <3> QED BY <3>2, <3>3
    <2> QED BY <2>3, <2>4, <2>5, <2>6, <2>7 DEF ItemsInv
  <1> QED BY <1>3, <1>4

\* Every step of the lists.
LEMMA ItemsStep == ItemsInv /\ [Items!Next]_itemVars => ItemsInv'
  <1> SUFFICES ASSUME ItemsInv, [Items!Next]_itemVars PROVE ItemsInv'
    OBVIOUS
  <1>1. CASE UNCHANGED itemVars
    BY <1>1 DEF itemVars, ItemsInv, Items!TypeOK, AboutItems, OverlapsAreKnown, Items!At,
                Items!UsedAmenitiesExist, Items!UsedTypesExist
  <1>2. ASSUME NEW r \in Guest,
               \/ \E t \in Type, e \in SUBSET Equipment : Items!StartSave(r, t, e)
               \/ Items!AssertEquipmentExists(r) \/ Items!SaveListing(r)
               \/ \E i \in Items!Item : Items!StartRemove(r, i)
               \/ Items!Retire(r) \/ Items!Delete(r) \/ Items!LoseRequest(r)
        PROVE  ItemsInv'
    <2>1. CASE Items!LoseRequest(r)
      BY <2>1, ItemsDone, ItemsKeep DEF Items!LoseRequest
    <2> QED BY <1>2, <2>1, CheckSaveStep, TakeStep, AskRemovalStep, RetireStep, DeleteItemStep DEF Items!Item
  <1>3. ASSUME NEW i \in Items!Item, Items!SaveItem(i) PROVE ItemsInv'
    BY <1>3, WriteItem DEF Items!SaveItem, Items!Item
  <1>4. ASSUME NEW e \in Equipment, Items!SyncEquipment(e) PROVE ItemsInv'
    BY <1>4, WriteItem DEF Items!SyncEquipment
  <1>5. ASSUME NEW t \in Type, Items!SeedType(t) PROVE ItemsInv'
    BY <1>5, WriteItem DEF Items!SeedType
  <1> QED BY <1>1, <1>2, <1>3, <1>4, <1>5, UnuseStep DEF Items!Next

-------------------------------------------------------------------------------
(* The wizard (ListingOwnership): its invariant is its TypeOK, of which     *)
(* that every listing is of a stay that exists, and a stay has one, matters *)

\* The records of a stay, a listing and a save.
StayRow == [owner : Guest \cup Admin \cup {None}, text : 0 .. MaxSaves]
ListingRecord ==
    [property : Guest, status : {"draft", "published", "suspended"}, approved : BOOLEAN]
Checking ==
    [pc : {"slug", "forProperty"}, who : Guest \cup Admin, property : Guest, listing : {None}, at : {0}]
Saving ==
    [pc : {"owner", "begin", "save"}, who : Guest \cup Admin, property : Guest, listing : ListingId,
     at : 0 .. MaxSaves]

\* The inductive invariant.
WizardInv ==
    /\ wizardProperty \in [Guest -> StayRow \cup {None}]
    /\ wizardListing \in [ListingId -> ListingRecord \cup {None}]
    /\ \A l \in ListingId : wizardListing[l] # None => wizardProperty[wizardListing[l].property] # None
    /\ \A k, l \in ListingId : k # l /\ wizardListing[k] # None /\ wizardListing[l] # None =>
          wizardListing[k].property # wizardListing[l].property
    /\ wizardLatest \in [Guest -> [at : 0 .. MaxSaves, text : 0 .. MaxSaves] \cup {None}]
    /\ wizardBegun \in 0 .. MaxSaves
    /\ wizardReq \in [Req -> {Wizard!Idle} \cup Checking \cup Saving]

\* It is TypeOK, in those names.
LEMMA WizardTypes == WizardInv => Wizard!TypeOK
  <1>1. {"draft", "published"} \cup {"suspended"} = {"draft", "published", "suspended"}
    OBVIOUS
  <1> QED BY <1>1 DEF WizardInv, Wizard!TypeOK, Wizard!Member, Wizard!Version, Wizard!Status,
                      StayRow, ListingRecord, Checking, Saving

\* A save that is under way is of a kind its place tells.
LEMMA SavesAre ==
    ASSUME wizardReq \in [Req -> {Wizard!Idle} \cup Checking \cup Saving], NEW r \in Req
    PROVE  /\ wizardReq[r].pc \in {"slug", "forProperty"} => wizardReq[r] \in Checking
           /\ wizardReq[r].pc \in {"owner", "begin", "save"} => wizardReq[r] \in Saving
  BY DEF Wizard!Idle, Checking, Saving

\* An empty catalogue, or a seeded stay with its listing.
LEMMA WizardInit == Wizard!Init => WizardInv
  <1> SUFFICES ASSUME Wizard!Init PROVE WizardInv
    OBVIOUS
  <1>1. /\ wizardLatest \in [Guest -> [at : 0 .. MaxSaves, text : 0 .. MaxSaves] \cup {None}]
        /\ wizardBegun \in 0 .. MaxSaves
        /\ wizardReq \in [Req -> {Wizard!Idle} \cup Checking \cup Saving]
    BY StayAssumption DEF Wizard!Init
  <1>2. CASE wizardProperty = [p \in Guest |-> None] /\ wizardListing = [l \in ListingId |-> None]
    BY <1>1, <1>2 DEF WizardInv
  <1>3. ASSUME NEW p \in Guest, NEW l \in ListingId,
               wizardProperty = [q \in Guest |-> IF q = p THEN [owner |-> None, text |-> 0] ELSE None],
               wizardListing = [k \in ListingId |->
                    IF k = l THEN [property |-> p, status |-> "published", approved |-> TRUE] ELSE None]
        PROVE  WizardInv
    <2>1. [owner |-> None, text |-> 0] \in StayRow
      BY StayAssumption DEF StayRow
    <2>2. [property |-> p, status |-> "published", approved |-> TRUE] \in ListingRecord
      BY DEF ListingRecord
    <2>3. [owner |-> None, text |-> 0] # None
      BY StayAssumption
    <2>4. \A k \in ListingId : wizardListing[k] # None => k = l /\ wizardListing[k].property = p
      BY <1>3
    <2>5. wizardProperty[p] # None
      BY <1>3, <2>3
    <2> QED BY <1>1, <1>3, <2>1, <2>2, <2>4, <2>5 DEF WizardInv
  <1> QED BY <1>2, <1>3 DEF Wizard!Init

\* A save that starts, checks whose the ids are and begins its transaction.
LEMMA ChecksStep ==
    ASSUME WizardInv, NEW r \in Req,
           \/ \E m \in Wizard!Member, p \in Guest : Wizard!Start(r, m, p)
           \/ \E l \in ListingId : Wizard!ListingForProperty(r, l)
           \/ Wizard!SlugCheck(r) \/ Wizard!ListingOwnerCheck(r) \/ Wizard!BeginTransaction(r)
    PROVE  WizardInv' /\ UNCHANGED <<wizardProperty, wizardListing>>
  <1> DEFINE R == {Wizard!Idle} \cup Checking \cup Saving
  <1>0. wizardReq \in [Req -> R] /\ wizardBegun \in 0 .. MaxSaves /\ MaxSaves \in Nat
    BY StayAssumption DEF WizardInv
  <1>1. UNCHANGED <<wizardProperty, wizardListing, wizardLatest>>
    BY DEF Wizard!Start, Wizard!ListingForProperty, Wizard!SlugCheck, Wizard!ListingOwnerCheck,
           Wizard!BeginTransaction
  <1>2. wizardBegun' \in 0 .. MaxSaves
    BY <1>0 DEF Wizard!Start, Wizard!ListingForProperty, Wizard!SlugCheck, Wizard!ListingOwnerCheck,
                Wizard!BeginTransaction
  <1>3. CASE \E m \in Wizard!Member, p \in Guest : Wizard!Start(r, m, p)
    <2>1. PICK m \in Guest \cup Admin, p \in Guest :
             wizardReq' = [wizardReq EXCEPT ![r] =
                 [pc |-> "slug", who |-> m, property |-> p, listing |-> None, at |-> 0]]
      BY <1>3 DEF Wizard!Start, Wizard!Member
    <2>2. [pc |-> "slug", who |-> m, property |-> p, listing |-> None, at |-> 0] \in Checking
      BY DEF Checking
    <2>3. wizardReq' \in [Req -> R]
      BY <1>0, <2>1, <2>2
    <2> QED BY <1>1, <1>2, <2>3 DEF WizardInv
  <1>4. CASE \E l \in ListingId : Wizard!ListingForProperty(r, l)
    <2>1. PICK l \in ListingId : wizardReq' = [wizardReq EXCEPT ![r].pc = "owner", ![r].listing = l]
                                 /\ wizardReq[r].pc = "forProperty"
      BY <1>4 DEF Wizard!ListingForProperty, Wizard!ListingOf, Wizard!At
    <2>2. wizardReq[r] \in Checking
      BY <1>0, <2>1, SavesAre
    <2>3. [wizardReq[r] EXCEPT !.pc = "owner", !.listing = l] \in Saving
      <3>1. 0 \in 0 .. MaxSaves
        BY StayAssumption
      <3>2. \A z \in Checking : [z EXCEPT !.pc = "owner", !.listing = l] \in Saving
        BY <3>1 DEF Checking, Saving
      <3> QED BY <2>2, <3>2
    <2>4. wizardReq' \in [Req -> R]
      BY <1>0, <2>1, <2>3
    <2> QED BY <1>1, <1>2, <2>4 DEF WizardInv
  <1>5. CASE Wizard!SlugCheck(r) \/ Wizard!ListingOwnerCheck(r)
    <2>1. PICK pc \in {"forProperty", "begin"} :
             /\ Wizard!Done(r) \/ Wizard!Goto(r, pc)
             /\ wizardReq[r].pc = IF pc = "forProperty" THEN "slug" ELSE "owner"
      BY <1>5 DEF Wizard!SlugCheck, Wizard!ListingOwnerCheck, Wizard!At
    <2>2. wizardReq[r] \in IF pc = "forProperty" THEN Checking ELSE Saving
      BY <1>0, <2>1, SavesAre
    <2>3. [wizardReq[r] EXCEPT !.pc = pc] \in R
      BY <2>2 DEF Checking, Saving
    <2>4. wizardReq' \in [Req -> R]
      BY <1>0, <2>1, <2>3 DEF Wizard!Done, Wizard!Goto
    <2> QED BY <1>1, <1>2, <2>4 DEF WizardInv
  <1>6. CASE Wizard!BeginTransaction(r)
    <2>1. wizardReq' = [wizardReq EXCEPT ![r].pc = "save", ![r].at = wizardBegun']
          /\ wizardReq[r].pc = "begin"
      BY <1>6 DEF Wizard!BeginTransaction, Wizard!At
    <2>2. wizardReq[r] \in Saving
      BY <1>0, <2>1, SavesAre
    <2>3. [wizardReq[r] EXCEPT !.pc = "save", !.at = wizardBegun'] \in Saving
      BY <1>2, <2>2 DEF Saving
    <2>4. wizardReq' \in [Req -> R]
      BY <1>0, <2>1, <2>3
    <2> QED BY <1>1, <1>2, <2>4 DEF WizardInv
  <1> QED BY <1>1, <1>3, <1>4, <1>5, <1>6

\* What the upsert of a stay returns: the host it has stays, and only that host and
\* the administrators write it.
LEMMA UpsertKeeps ==
    ASSUME NEW row \in StayRow \cup {None}, NEW who \in Guest \cup Admin, NEW text \in 0 .. MaxSaves,
           Wizard!Upserted(row, who, text) # None
    PROVE  /\ Wizard!Upserted(row, who, text) \in StayRow
           /\ row # None => /\ row.owner = who \/ who \in Admin
                            /\ row.owner # None => Wizard!Upserted(row, who, text).owner = row.owner
  <1>1. CASE row = None
    BY <1>1 DEF Wizard!Upserted, StayRow
  <1>2. CASE row # None /\ row.owner = who
    <2>1. Wizard!Upserted(row, who, text) = [row EXCEPT !.text = text] /\ row \in StayRow
      BY <1>2 DEF Wizard!Upserted
    <2> QED BY <1>2, <2>1 DEF StayRow
  <1>3. CASE row # None /\ row.owner # who
    <2>1. /\ Wizard!Upserted(row, who, text) =
                [owner |-> IF row.owner = None THEN who ELSE row.owner, text |-> text]
          /\ row \in StayRow /\ who \in Admin
      BY <1>3 DEF Wizard!Upserted
    <2>2. (IF row.owner = None THEN who ELSE row.owner) \in Guest \cup Admin \cup {None}
      BY <2>1 DEF StayRow
    <2> QED BY <1>3, <2>1, <2>2 DEF StayRow
  <1> QED BY <1>1, <1>2, <1>3

\* A transaction writes its stay and its listing, or nothing.
LEMMA SaveStep ==
    ASSUME WizardInv, NEW r \in Req, NEW s \in Wizard!Status, Wizard!SaveListing(r, s)
    PROVE  /\ WizardInv'
           /\ \/ UNCHANGED wizardProperty
              \/ /\ wizardReq[r].pc = "save" /\ wizardReq' = [wizardReq EXCEPT ![r] = Wizard!Idle]
                 /\ wizardReq[r].property \in Guest /\ wizardReq[r].who \in Guest \cup Admin
                 /\ wizardReq[r].at \in 0 .. MaxSaves
                 /\ LET row == Wizard!Upserted(wizardProperty[wizardReq[r].property], wizardReq[r].who, wizardReq[r].at)
                    IN  /\ row # None
                        /\ wizardProperty' = [wizardProperty EXCEPT ![wizardReq[r].property] = row]
  <1> DEFINE R == {Wizard!Idle} \cup Checking \cup Saving
  <1>0. /\ wizardReq \in [Req -> R] /\ wizardReq[r].pc = "save"
        /\ wizardProperty \in [Guest -> StayRow \cup {None}]
        /\ wizardListing \in [ListingId -> ListingRecord \cup {None}]
        /\ wizardLatest \in [Guest -> [at : 0 .. MaxSaves, text : 0 .. MaxSaves] \cup {None}]
    BY DEF WizardInv, Wizard!SaveListing, Wizard!At
  <1>1. wizardReq[r] \in Saving
    BY <1>0, SavesAre
  <1>2. PICK who \in Guest \cup Admin, p \in Guest, l \in ListingId, at \in 0 .. MaxSaves :
           who = wizardReq[r].who /\ p = wizardReq[r].property /\ l = wizardReq[r].listing
           /\ at = wizardReq[r].at
    BY <1>1 DEF Saving
  <1>3. wizardReq' \in [Req -> R] /\ wizardReq' = [wizardReq EXCEPT ![r] = Wizard!Idle]
        /\ wizardBegun' = wizardBegun
    BY <1>0 DEF Wizard!SaveListing, Wizard!Done
  <1> DEFINE row == Wizard!Upserted(wizardProperty[p], who, at)
  <1>4. CASE row = None \/ Wizard!Collides(p, l)
    <2>1. UNCHANGED <<wizardProperty, wizardListing, wizardLatest>>
      BY <1>2, <1>4 DEF Wizard!SaveListing
    <2> QED BY <1>3, <2>1 DEF WizardInv
  <1>5. CASE ~(row = None \/ Wizard!Collides(p, l))
    <2>1. /\ wizardProperty' = [wizardProperty EXCEPT ![p] = row]
          /\ wizardListing' = [wizardListing EXCEPT ![l] = Wizard!ListingRow(wizardListing[l], p, s)]
          /\ wizardLatest' = IF wizardLatest[p] # None /\ wizardLatest[p].at > at THEN wizardLatest
                             ELSE [wizardLatest EXCEPT ![p] = [at |-> at, text |-> at]]
      BY <1>2, <1>5 DEF Wizard!SaveListing
    <2>2. row \in StayRow /\ row # None
      BY <1>0, <1>5, UpsertKeeps
    <2> DEFINE new == Wizard!ListingRow(wizardListing[l], p, s)
    <2>3. /\ new \in ListingRecord
          /\ new.property = IF wizardListing[l] = None THEN p ELSE wizardListing[l].property
      <3>1. CASE wizardListing[l] = None
        BY <3>1 DEF Wizard!ListingRow, ListingRecord, Wizard!Status
      <3>2. CASE wizardListing[l] # None
        <4> DEFINE old == wizardListing[l]
        <4>1. old \in ListingRecord
          BY <1>0, <3>2
        <4>2. PICK b \in BOOLEAN : b = (s # "published" /\ old.approved)
          OBVIOUS
        <4>5. Wizard!ListingRow(old, p, s) = [old EXCEPT !.status = s, !.approved = b]
          BY <3>2, <4>2 DEF Wizard!ListingRow
        <4>3. \A z \in ListingRecord, c \in BOOLEAN :
                 /\ [z EXCEPT !.status = s, !.approved = c] \in ListingRecord
                 /\ [z EXCEPT !.status = s, !.approved = c].property = z.property
          BY DEF ListingRecord, Wizard!Status
        <4> HIDE DEF old
        <4>4. /\ Wizard!ListingRow(old, p, s) \in ListingRecord
              /\ Wizard!ListingRow(old, p, s).property = old.property
          BY <4>1, <4>3, <4>5
        <4> QED BY <3>2, <4>4 DEF old
      <3> QED BY <3>1, <3>2
    <2>0. wizardListing' = [wizardListing EXCEPT ![l] = new]
      BY <2>1
    <2> HIDE DEF new
    <2>4. wizardProperty' \in [Guest -> StayRow \cup {None}]
          /\ wizardListing' \in [ListingId -> ListingRecord \cup {None}]
      BY <1>0, <2>0, <2>1, <2>2, <2>3
    <2>5. wizardLatest' \in [Guest -> [at : 0 .. MaxSaves, text : 0 .. MaxSaves] \cup {None}]
      BY <1>0, <2>1
    <2>6. wizardProperty'[p] # None /\ \A q \in Guest : wizardProperty[q] # None => wizardProperty'[q] # None
      BY <1>0, <2>1, <2>2
    <2>7. wizardListing'[l] = new /\ \A k \in ListingId \ {l} : wizardListing'[k] = wizardListing[k]
      BY <1>0, <2>0
    <2>8. ASSUME NEW k \in ListingId, wizardListing'[k] # None
          PROVE  wizardProperty'[wizardListing'[k].property] # None
      <3>1. CASE k = l /\ wizardListing[l] = None
        BY <2>3, <2>6, <2>7, <3>1
      <3>2. CASE wizardListing[k] # None
        <4>1. wizardListing'[k].property = wizardListing[k].property
          BY <2>3, <2>7, <3>2
        <4>2. wizardListing[k].property \in Guest /\ wizardProperty[wizardListing[k].property] # None
          BY <1>0, <3>2 DEF WizardInv, ListingRecord
        <4> QED BY <2>6, <4>1, <4>2
      <3> QED BY <2>7, <2>8, <3>1, <3>2
    <2>9. ASSUME NEW j \in ListingId, NEW k \in ListingId, j # k,
                 wizardListing'[j] # None, wizardListing'[k] # None
          PROVE  wizardListing'[j].property # wizardListing'[k].property
      <3>1. \A i \in ListingId \ {l} : wizardListing[i] # None =>
               wizardListing[i].property # new.property
        <4>1. CASE wizardListing[l] = None
          <5>1. Wizard!ListingOf(p) = {}
            BY <1>5, <4>1 DEF Wizard!Collides
          <5> QED BY <2>3, <4>1, <5>1 DEF Wizard!ListingOf
        <4>2. CASE wizardListing[l] # None
          BY <2>3, <4>2 DEF WizardInv
        <4> QED BY <4>1, <4>2
      <3>2. CASE j = l \/ k = l
        BY <2>7, <2>9, <3>1, <3>2
      <3>3. CASE j # l /\ k # l
        BY <2>7, <2>9, <3>3 DEF WizardInv
      <3> QED BY <3>2, <3>3
    <2>10. wizardBegun \in 0 .. MaxSaves
      BY DEF WizardInv
    <2>11. WizardInv'
      BY <1>3, <2>4, <2>5, <2>8, <2>9, <2>10 DEF WizardInv
    <2> QED BY <1>0, <1>2, <1>3, <2>1, <2>2, <2>11
  <1> QED BY <1>4, <1>5

\* A stay goes with its listing, and moderation changes no stay.
LEMMA ModeratorStep ==
    ASSUME WizardInv, NEW l \in ListingId,
           \/ Wizard!DeleteListing(l)
           \/ \E s \in {"draft", "published", "suspended"}, b \in BOOLEAN : Wizard!Moderate(l, s, b)
    PROVE  /\ WizardInv'
           /\ \A p \in Guest : wizardProperty'[p] \in {None, wizardProperty[p]}
  <1>0. /\ wizardProperty \in [Guest -> StayRow \cup {None}]
        /\ wizardListing \in [ListingId -> ListingRecord \cup {None}]
        /\ wizardLatest \in [Guest -> [at : 0 .. MaxSaves, text : 0 .. MaxSaves] \cup {None}]
        /\ wizardListing[l] # None
    BY DEF WizardInv, Wizard!DeleteListing, Wizard!Moderate
  <1>1. PICK p \in Guest : p = wizardListing[l].property
    BY <1>0 DEF ListingRecord
  <1>2. CASE Wizard!DeleteListing(l)
    <2>1. /\ wizardProperty' = [wizardProperty EXCEPT ![p] = None]
          /\ wizardLatest' = [wizardLatest EXCEPT ![p] = None]
          /\ wizardListing' = [wizardListing EXCEPT ![l] = None]
          /\ UNCHANGED <<wizardBegun, wizardReq>>
      BY <1>1, <1>2 DEF Wizard!DeleteListing
    <2>2. /\ wizardProperty' \in [Guest -> StayRow \cup {None}]
          /\ wizardListing' \in [ListingId -> ListingRecord \cup {None}]
          /\ wizardLatest' \in [Guest -> [at : 0 .. MaxSaves, text : 0 .. MaxSaves] \cup {None}]
          /\ \A q \in Guest \ {p} : wizardProperty'[q] = wizardProperty[q]
          /\ wizardProperty'[p] = None
          /\ \A k \in ListingId : wizardListing'[k] # None => k # l /\ wizardListing'[k] = wizardListing[k]
      BY <1>0, <2>1
    <2>3. \A k \in ListingId : wizardListing'[k] # None =>
             wizardListing[k].property \in Guest \ {p} /\ wizardProperty[wizardListing[k].property] # None
      BY <1>0, <1>1, <2>2 DEF WizardInv, ListingRecord
    <2>4. wizardBegun \in 0 .. MaxSaves /\ wizardReq \in [Req -> {Wizard!Idle} \cup Checking \cup Saving]
          /\ \A i, k \in ListingId : i # k /\ wizardListing[i] # None /\ wizardListing[k] # None =>
              wizardListing[i].property # wizardListing[k].property
      BY DEF WizardInv
    <2>5. \A k \in ListingId : wizardListing'[k] # None => wizardProperty'[wizardListing'[k].property] # None
      BY <2>2, <2>3
    <2>6. \A i, k \in ListingId : i # k /\ wizardListing'[i] # None /\ wizardListing'[k] # None =>
              wizardListing'[i].property # wizardListing'[k].property
      BY <2>2, <2>4
    <2>7. WizardInv'
      BY <2>1, <2>2, <2>4, <2>5, <2>6 DEF WizardInv
    <2> QED BY <2>2, <2>7
  <1>3. CASE \E s \in {"draft", "published", "suspended"}, b \in BOOLEAN : Wizard!Moderate(l, s, b)
    <2>1. PICK s \in {"draft", "published", "suspended"}, b \in BOOLEAN : Wizard!Moderate(l, s, b)
      BY <1>3
    <2>2. PICK new \in ListingRecord :
             new = [wizardListing[l] EXCEPT !.status = s, !.approved = b] /\ new.property = p
      <3>1. \A z \in ListingRecord : /\ [z EXCEPT !.status = s, !.approved = b] \in ListingRecord
                                     /\ [z EXCEPT !.status = s, !.approved = b].property = z.property
        BY DEF ListingRecord
      <3> QED BY <1>0, <1>1, <3>1
    <2>3. wizardListing' = [wizardListing EXCEPT ![l] = new]
          /\ UNCHANGED <<wizardProperty, wizardLatest, wizardBegun, wizardReq>>
      BY <1>0, <2>1, <2>2 DEF Wizard!Moderate
    <2>4. /\ wizardListing' \in [ListingId -> ListingRecord \cup {None}]
          /\ \A k \in ListingId : wizardListing'[k] # None =>
                wizardListing[k] # None /\ wizardListing'[k].property = wizardListing[k].property
      BY <1>0, <1>1, <2>2, <2>3
    <2>5. /\ \A k \in ListingId : wizardListing[k] # None => wizardProperty[wizardListing[k].property] # None
          /\ \A i, k \in ListingId : i # k /\ wizardListing[i] # None /\ wizardListing[k] # None =>
              wizardListing[i].property # wizardListing[k].property
          /\ wizardBegun \in 0 .. MaxSaves /\ wizardReq \in [Req -> {Wizard!Idle} \cup Checking \cup Saving]
      BY DEF WizardInv
    <2>6. /\ \A k \in ListingId : wizardListing'[k] # None => wizardProperty[wizardListing'[k].property] # None
          /\ \A i, k \in ListingId : i # k /\ wizardListing'[i] # None /\ wizardListing'[k] # None =>
              wizardListing'[i].property # wizardListing'[k].property
      BY <2>4, <2>5
    <2>7. WizardInv'
      BY <1>0, <2>3, <2>4, <2>5, <2>6 DEF WizardInv
    <2> QED BY <2>3, <2>7
  <1> QED BY <1>2, <1>3

\* The steps of the wizard that are of no save are a moderator's.
LEMMA WizardSteps ==
    Wizard!Next =>
        \/ \E r \in Req :
              \/ \E m \in Wizard!Member, p \in Guest : Wizard!Start(r, m, p)
              \/ \E l \in ListingId : Wizard!ListingForProperty(r, l)
              \/ Wizard!SlugCheck(r) \/ Wizard!ListingOwnerCheck(r) \/ Wizard!BeginTransaction(r)
        \/ \E r \in Req, s \in Wizard!Status : Wizard!SaveListing(r, s)
        \/ \E l \in ListingId :
              \/ Wizard!DeleteListing(l)
              \/ \E s \in {"draft", "published", "suspended"}, b \in BOOLEAN : Wizard!Moderate(l, s, b)
  <1>1. \A l \in ListingId, s \in Wizard!Status \cup {"suspended"} :
           Wizard!Moderate(l, s, wizardListing[l] # None /\ wizardListing[l].approved) =>
               \E b \in BOOLEAN : Wizard!Moderate(l, s, b)
    <2> TAKE l \in ListingId, s \in Wizard!Status \cup {"suspended"}
    <2>1. PICK b \in BOOLEAN : b = (wizardListing[l] # None /\ wizardListing[l].approved)
      OBVIOUS
    <2> QED BY <2>1
  <1>2. Wizard!Status \cup {"suspended"} = {"draft", "published", "suspended"}
    BY DEF Wizard!Status
  <1> QED BY <1>1, <1>2 DEF Wizard!Next

\* Every step of the wizard.
LEMMA WizardStep == WizardInv /\ [Wizard!Next]_wizardVars => WizardInv'
  <1> SUFFICES ASSUME WizardInv, [Wizard!Next]_wizardVars PROVE WizardInv'
    OBVIOUS
  <1>1. CASE UNCHANGED wizardVars
    BY <1>1 DEF wizardVars, WizardInv
  <1>2. CASE Wizard!Next
    BY <1>2, WizardSteps, ChecksStep, SaveStep, ModeratorStep
  <1> QED BY <1>1, <1>2

\* A step that touches a stay that stays is a save of its host or an administrator.
LEMMA HostStep ==
    ASSUME WizardInv, [Wizard!Next]_wizardVars, NEW p \in Guest,
           wizardProperty[p] # None, wizardProperty'[p] # None, wizardProperty[p].owner # None
    PROVE  /\ wizardProperty'[p].owner = wizardProperty[p].owner
           /\ wizardProperty'[p].text # wizardProperty[p].text =>
                 \E r \in Req : /\ wizardReq[r].pc = "save" /\ wizardReq'[r] = Wizard!Idle
                                /\ wizardReq[r].property = p
                                /\ wizardReq[r].who \in Admin \cup {wizardProperty[p].owner}
  <1>1. CASE wizardProperty'[p] = wizardProperty[p]
    BY <1>1
  <1>2. CASE wizardProperty'[p] # wizardProperty[p]
    <2>1. PICK r \in Req, s \in Wizard!Status : Wizard!SaveListing(r, s)
      <3>1. Wizard!Next
        BY <1>2 DEF wizardVars
      <3> QED BY <1>2, <3>1, WizardSteps, ChecksStep, ModeratorStep
    <2>2. /\ wizardReq[r].pc = "save" /\ wizardReq' = [wizardReq EXCEPT ![r] = Wizard!Idle]
          /\ wizardReq[r].property \in Guest /\ wizardReq[r].who \in Guest \cup Admin
          /\ wizardReq[r].at \in 0 .. MaxSaves
      BY <1>2, <2>1, SaveStep
    <2>3. PICK row : /\ row = Wizard!Upserted(wizardProperty[wizardReq[r].property],
                                              wizardReq[r].who, wizardReq[r].at)
                     /\ row # None
                     /\ wizardProperty' = [wizardProperty EXCEPT ![wizardReq[r].property] = row]
      BY <1>2, <2>1, SaveStep
    <2>4. wizardProperty \in [Guest -> StayRow \cup {None}] /\ wizardReq'[r] = Wizard!Idle
      BY <2>2 DEF WizardInv
    <2>5. wizardReq[r].property = p /\ wizardProperty'[p] = row
      BY <1>2, <2>2, <2>3, <2>4
    <2>6. /\ wizardProperty[p].owner = wizardReq[r].who \/ wizardReq[r].who \in Admin
          /\ row.owner = wizardProperty[p].owner
      BY <2>2, <2>3, <2>4, <2>5, UpsertKeeps
    <2> QED BY <2>2, <2>4, <2>5, <2>6
  <1> QED BY <1>1, <1>2

\* The Cardinality of the instance is the one the library speaks of.
LEMMA SameCount == \A S : Wizard!Cardinality(S) = Cardinality(S)
  BY DEF Wizard!Cardinality, Cardinality

\* The lists count finite sets.
LEMMA RowsAreFinite == IsFiniteSet(Wizard!Rows) /\ \A S \in SUBSET Wizard!Rows : IsFiniteSet(S)
  <1>1. Wizard!Rows \in SUBSET ListingId /\ IsFiniteSet(ListingId)
    BY StayAssumption DEF Wizard!Rows
  <1>2. IsFiniteSet(Wizard!Rows)
    BY <1>1, FS_Subset
  <1> QED BY <1>2, FS_Subset

\* Two sets that have nothing in common count together.
LEMMA CountUnion ==
    ASSUME NEW S, NEW T, IsFiniteSet(S), IsFiniteSet(T), S \cap T = {}
    PROVE  IsFiniteSet(S \cup T) /\ Cardinality(S \cup T) = Cardinality(S) + Cardinality(T)
  <1>1. Cardinality(S) \in Nat /\ Cardinality(T) \in Nat
    BY FS_CardinalityType
  <1>2. Cardinality(S \cap T) = 0
    BY FS_EmptySet
  <1>3. IsFiniteSet(S \cup T) /\ Cardinality(S \cup T) = Cardinality(S) + Cardinality(T) - Cardinality(S \cap T)
    BY FS_Union
  <1> QED BY <1>1, <1>2, <1>3

\* What guests find is what is published, each stay by its one listing.
LEMMA SearchIsPublished ==
    ASSUME WizardInv
    PROVE  /\ {wizardListing[l].property : l \in Wizard!ReviewQueue("published")} = Wizard!Search
           /\ Cardinality(Wizard!Search) = Cardinality(Wizard!ReviewQueue("published"))
  <1> DEFINE P == Wizard!ReviewQueue("published")
             f == [l \in P |-> wizardListing[l].property]
  <1>1. P = {l \in Wizard!Rows : wizardListing[l].status = "published" /\ wizardListing[l].approved}
    BY DEF Wizard!ReviewQueue
  <1>2. \A l \in P : l \in ListingId /\ wizardListing[l] # None /\ wizardListing[l].property \in Guest
    BY <1>1 DEF WizardInv, ListingRecord, Wizard!Rows
  <1>3. {wizardListing[l].property : l \in P} = Wizard!Search
    BY <1>1, <1>2 DEF Wizard!Search
  <1>4. f \in Bijection(P, Wizard!Search)
    <2>1. f \in [P -> Wizard!Search] /\ \A s \in Wizard!Search : \E l \in P : f[l] = s
      BY <1>3
    <2>2. \A k, l \in P : f[k] = f[l] => k = l
      BY <1>2 DEF WizardInv
    <2> HIDE DEF f, P
    <2> QED BY <2>1, <2>2 DEF Bijection, Injection, Surjection, IsInjective
  <1>5. IsFiniteSet(P)
    BY <1>1, RowsAreFinite
  <1>6. ExistsBijection(P, Wizard!Search)
    BY <1>4 DEF ExistsBijection
  <1> HIDE DEF P
  <1>7. Cardinality(Wizard!Search) = Cardinality(P)
    BY <1>5, <1>6, FS_Bijection
  <1> QED BY <1>3, <1>7 DEF P

\* The parts of a dashboard are the listings of its host.
LEMMA DashboardAddsUp ==
    ASSUME WizardInv, NEW h
    PROVE  LET board == Wizard!Dashboard(h) IN
           board.published + board.awaiting + board.drafts + board.suspended
               = Cardinality(Wizard!HostListings(h))
  <1> DEFINE O == Wizard!Owned(h)
             A == {l \in O : wizardListing[l].status = "published" /\ wizardListing[l].approved}
             B == {l \in O : wizardListing[l].status = "published" /\ ~wizardListing[l].approved}
             C == {l \in O : wizardListing[l].status = "draft"}
             D == {l \in O : wizardListing[l].status = "suspended"}
  <1>1. \A l \in O : l \in Wizard!Rows /\ wizardListing[l].status \in {"draft", "published", "suspended"}
    BY DEF WizardInv, ListingRecord, Wizard!Owned, Wizard!Rows
  <1>2. O = ((A \cup B) \cup C) \cup D
    BY <1>1
  <1>3. A \cap B = {} /\ (A \cup B) \cap C = {} /\ ((A \cup B) \cup C) \cap D = {}
    OBVIOUS
  <1>4. IsFiniteSet(A) /\ IsFiniteSet(B) /\ IsFiniteSet(C) /\ IsFiniteSet(D)
    <2>1. A \in SUBSET Wizard!Rows /\ B \in SUBSET Wizard!Rows /\ C \in SUBSET Wizard!Rows
          /\ D \in SUBSET Wizard!Rows
      BY <1>1
    <2> HIDE DEF A, B, C, D
    <2> QED BY <2>1, RowsAreFinite
  <1>5. LET board == Wizard!Dashboard(h) IN
           /\ board.published = Cardinality(A) /\ board.awaiting = Cardinality(B)
           /\ board.drafts = Cardinality(C) /\ board.suspended = Cardinality(D)
    BY SameCount DEF Wizard!Dashboard
  <1>6. Wizard!HostListings(h) = O
    BY DEF Wizard!HostListings
  <1> HIDE DEF A, B, C, D, O
  <1>7. IsFiniteSet(A \cup B) /\ Cardinality(A \cup B) = Cardinality(A) + Cardinality(B)
    BY <1>3, <1>4, CountUnion
  <1>8. /\ IsFiniteSet((A \cup B) \cup C)
        /\ Cardinality((A \cup B) \cup C) = Cardinality(A) + Cardinality(B) + Cardinality(C)
    BY <1>3, <1>4, <1>7, CountUnion
  <1>9. Cardinality(O) = Cardinality(A) + Cardinality(B) + Cardinality(C) + Cardinality(D)
    BY <1>2, <1>3, <1>4, <1>8, CountUnion
  <1> QED BY <1>5, <1>6, <1>9

\* Every list has a listing in the same place.
LEMMA ListsFollow == WizardInv => Wizard!ListsAgree
  <1> SUFFICES ASSUME WizardInv PROVE Wizard!ListsAgree
    OBVIOUS
  <1>1. \A l \in Wizard!Rows : wizardProperty[wizardListing[l].property] # None
    BY DEF WizardInv, Wizard!Rows
  <1>2. Wizard!Overview.awaiting = Cardinality(Wizard!ReviewQueue("pending"))
    <2>1. {l \in Wizard!Rows : /\ ~wizardListing[l].approved /\ wizardListing[l].status = "published"
                               /\ wizardProperty[wizardListing[l].property] # None}
             = Wizard!ReviewQueue("pending")
      BY <1>1 DEF Wizard!ReviewQueue
    <2> QED BY <2>1, SameCount DEF Wizard!Overview
  <1>3. Wizard!Overview.suspended = Cardinality(Wizard!ReviewQueue("suspended"))
    <2>1. {l \in Wizard!Rows : wizardListing[l].status = "suspended"} = Wizard!ReviewQueue("suspended")
      BY DEF Wizard!ReviewQueue
    <2> QED BY <2>1, SameCount DEF Wizard!Overview
  <1>4. Wizard!Overview.published = Cardinality(Wizard!Search)
    <2>1. {l \in Wizard!Rows : wizardListing[l].status = "published" /\ wizardListing[l].approved}
             = Wizard!ReviewQueue("published")
      BY DEF Wizard!ReviewQueue
    <2> QED BY <2>1, SameCount, SearchIsPublished DEF Wizard!Overview
  <1>5. Wizard!ReviewQueue("pending") \cap Wizard!ReviewQueue("published") = {}
    BY DEF Wizard!ReviewQueue
  <1>6. Wizard!Overview.total = Cardinality(Wizard!ReviewQueue("all"))
    <2>1. Wizard!Rows = Wizard!ReviewQueue("all")
      BY DEF Wizard!ReviewQueue
    <2> QED BY <2>1, SameCount DEF Wizard!Overview
  <1>7. \A h \in Wizard!Member :
           LET board == Wizard!Dashboard(h) IN
           board.published + board.awaiting + board.drafts + board.suspended
               = Cardinality(Wizard!HostListings(h))
    BY DashboardAddsUp
  <1> QED BY <1>2, <1>3, <1>4, <1>5, <1>6, <1>7, SearchIsPublished, SameCount DEF Wizard!ListsAgree

-------------------------------------------------------------------------------
(* The money, one request at a time (BookingMoney)                         *)

\* The request, and what it is said to have claimed: it took the booking off the
\* calendar and has not moved money yet.
Asking     == serialReq[Slot]
Claimed(q) == q.kind \in {"decline", "cancel"} /\ q.pc \in {"look", "stripe", "unclaim"}

\* Nothing was sent back so far.
Open == serialStatus \in Serial!Live \/ Claimed(Asking)

Taken(i)   == serialIntent[i].st \in {"held", "succeeded"}
Charged(i) == serialIntent[i].st \in {"held", "succeeded", "canceled"}
Pays(e)    == e.type \in {"capturable", "succeeded"}

\* An event that says intent i took money is still to be handled.
Awaited(i) == \E e \in serialMail : e.intent = i /\ Pays(e)

\* What a request in state q may count on.
Fits(q) ==
    /\ q.pc \notin {"adminClose", "adminNote", "adminGrant", "adminPay"}
    /\ q.pc \in {"look", "stripe"} => q.kind \in {"confirm", "decline", "cancel"}
    /\ q.pc \in {"stripe", "attach", "close"} => q.intent \in Intent
    /\ q.pc = "stripe" => (q.call = "capture" <=> q.kind = "confirm")
    /\ q.pc = "decide" => q.kind = "confirm"
    /\ q.kind = "confirm" /\ q.pc \in {"look", "stripe", "decide"} =>
           serialStatus = "pending" /\ \E i \in Intent : Taken(i)
    /\ q.pc = "claim" => /\ q.kind \in {"decline", "cancel"} /\ q.seen = serialStatus
                         /\ serialStatus \in {"pending", "confirmed"}
    /\ q.pc \in {"unclaim", "finish"} => q.kind \in {"decline", "cancel"}
    /\ Claimed(q) \/ q.pc = "finish" =>
           serialStatus = IF q.kind = "decline" THEN "declined" ELSE "cancelled"
    /\ Claimed(q) => q.seen \in {"pending", "confirmed"}
    /\ q.pc \in {"record", "reverse", "instant"} => q.event \in serialMail
    /\ q.pc = "reverse" => serialStatus = "cancelled" /\ Pays(q.event)
    /\ q.pc \in {"record", "instant"} /\ Pays(q.event) => serialStatus # "cancelled"
    /\ q.pc = "instant" => q.event.type = "succeeded" /\ (serialStatus \in Serial!Live => Serial!IsCovered)
    /\ q.pc = "close" => serialStatus = "cancelled"
    /\ q.pc = "drop" => serialStatus = "pending" /\ ~Serial!IsCovered

\* A payment that is reported, or recorded, was made; the first row is never gone.
MoneyFits ==
    /\ serialRow[1].st # "none"
    /\ \A e \in serialMail : Pays(e) => Charged(e.intent)
    /\ \A k \in Serial!Rows(Serial!Covered) : serialRow[k].ref \in Intent /\ Charged(serialRow[k].ref)
    /\ \A k \in serialKeys : k.left = 0 /\ k.ask = 0 => serialIntent[k.intent].refunded = Total

\* While the booking is on the calendar no money went back, and a payment is recorded
\* or all that were made are still to be handled.
Intact ==
    /\ serialKeys = {}
    /\ \A i \in Intent : serialIntent[i].refunded = 0 /\ serialIntent[i].st # "canceled"
    /\ \A e \in serialMail : e.type # "refunded"
    /\ \A k \in 1 .. MaxRows : serialRow[k].st # "refunded"
    /\ Serial!IsCovered \/ \A i \in Intent : Taken(i) => Awaited(i)

\* A confirmed booking, or one that an attempt to cancel may restore, has its money.
ConfirmedFits ==
    serialStatus = "confirmed" \/ (Claimed(Asking) /\ Asking.seen = "confirmed") => \E i \in Intent : Taken(i)

\* What a booking that was closed unpaid has taken went back, or will.
LateFits ==
    serialStatus = "cancelled" /\ serialUnpaidEnd =>
        \A i \in Intent : Taken(i) => serialIntent[i].refunded = Total \/ Awaited(i)

SerialInv ==
    /\ Serial!TypeOK /\ Fits(Asking) /\ MoneyFits /\ (Open => Intact)
    /\ ConfirmedFits /\ LateFits

\* The types, by name.
LEMMA SerialTypes ==
    ASSUME Serial!TypeOK
    PROVE  /\ serialStatus \in {"pending", "confirmed", "completed", "declined", "cancelled"}
           /\ serialUnpaidEnd \in BOOLEAN
           /\ serialListing \in [manual : BOOLEAN, rebooked : BOOLEAN]
           /\ serialRow \in [1 .. MaxRows -> Serial!Row]
           /\ serialIntent \in [Intent -> Serial!IntentState]
           /\ serialKeys \subseteq Serial!Key /\ serialMail \subseteq Serial!Event
           /\ serialCancelRow \in Serial!Amount \cup {None} /\ serialGranted \in Nat
           /\ serialReq \in [{Slot} -> Serial!Request] /\ Asking \in Serial!Request
           /\ Serial!RowId = 1 .. MaxRows
  BY DEF Serial!TypeOK, Serial!Status, Serial!Live, Serial!RowId, Asking

\* A request that rests counts on nothing.
LEMMA IdleFits == Serial!Idle \in Serial!Request /\ Fits(Serial!Idle) /\ ~Claimed(Serial!Idle)
  <1>1. /\ Serial!Idle.pc = "idle" /\ Serial!Idle.kind = "none" /\ "idle" \in Serial!Step
        /\ "pending" \in Serial!Status /\ 0 \in Serial!Amount
    BY StayAssumption DEF Serial!Idle, Serial!Step, Serial!Status, Serial!Live, Serial!Amount
  <1>2. Serial!Idle \in Serial!Request
    BY <1>1 DEF Serial!Idle, Serial!Request
  <1> QED BY <1>1, <1>2 DEF Fits, Claimed

\* The same in the next state.
LEMMA IdleFitsNext == Fits(Serial!Idle)'
  <1>1. Serial!Idle.pc = "idle" /\ Serial!Idle.kind = "none"
    BY DEF Serial!Idle
  <1> QED BY <1>1 DEF Fits, Claimed

\* The request is put.
LEMMA Put ==
    ASSUME Serial!TypeOK, NEW x \in Serial!Request, serialReq' = [serialReq EXCEPT ![Slot] = x]
    PROVE  serialReq' \in [{Slot} -> Serial!Request] /\ Asking' = x
  BY SerialTypes DEF Asking

\* A step of the request alone, which claims no more than it had.
LEMMA RequestMoves ==
    ASSUME SerialInv, NEW x \in Serial!Request, serialReq' = [serialReq EXCEPT ![Slot] = x],
           Fits(x), Claimed(x) => Claimed(Asking) /\ x.seen = Asking.seen,
           UNCHANGED <<serialStatus, serialListing, serialRow, serialIntent, serialKeys, serialMail,
                       serialCancelRow, serialGranted, serialUnpaidEnd>>
    PROVE  SerialInv'
  <1>1. serialReq' \in [{Slot} -> Serial!Request] /\ Asking' = x
    BY Put DEF SerialInv
  <1>2. Serial!TypeOK'
    BY <1>1 DEF SerialInv, Serial!TypeOK
  <1>3. Fits(Asking)'
    BY <1>1 DEF Fits, Taken, Serial!IsCovered, Serial!Rows
  <1>4. MoneyFits' /\ LateFits'
    BY DEF SerialInv, MoneyFits, LateFits, Charged, Taken, Awaited, Serial!Rows
  <1>5. Open' => Open
    BY <1>1 DEF Open
  <1>6. (Open => Intact)'
    BY <1>5 DEF SerialInv, Intact, Taken, Awaited, Serial!IsCovered, Serial!Rows
  <1>7. ConfirmedFits'
    BY <1>1 DEF SerialInv, ConfirmedFits, Taken
  <1> QED BY <1>2, <1>3, <1>4, <1>6, <1>7 DEF SerialInv

\* A request that ends and leaves the booking alone.
LEMMA RequestEnds ==
    ASSUME SerialInv, Serial!Done(Slot),
           UNCHANGED <<serialStatus, serialListing, serialRow, serialIntent, serialKeys, serialMail,
                       serialCancelRow, serialGranted, serialUnpaidEnd>>
    PROVE  SerialInv'
  BY IdleFits, RequestMoves DEF Serial!Done

\* The least of some numbers is one of them.
LEMMA LeastIn == ASSUME NEW S, S \subseteq Nat, S # {} PROVE Serial!Min(S) \in S /\ \A y \in S : Serial!Min(S) <= y
  <1> DEFINE R == OpToRel(<, Nat)
  <1>1. \E x \in S : \A y \in S : ~(<<y, x>> \in R)
    BY NatLessThanWellFounded, WFMin
  <1>2. PICK x \in S : \A y \in S : ~(<<y, x>> \in R)
    BY <1>1
  <1>3. \A y \in S : <<y, x>> \in R <=> y < x
    BY DEF OpToRel
  <1> HIDE DEF R
  <1>4. ASSUME NEW y \in S PROVE x <= y
    <2>1. x \in Nat /\ y \in Nat
      OBVIOUS
    <2>2. ~(y < x)
      BY <1>2, <1>3
    <2> QED BY <2>1, <2>2
  <1> QED BY <1>4 DEF Serial!Min

\* So is the greatest of some rows: the least of what they leave to the last.
LEMMA LastIn == ASSUME NEW S, S \subseteq 1 .. MaxRows, S # {} PROVE Serial!Max(S) \in S
  <1> DEFINE T == {MaxRows - y : y \in S}
  <1>0. MaxRows \in Nat /\ \A y \in S : y \in Nat /\ MaxRows - y \in Nat
    BY StayAssumption
  <1>1. T \subseteq Nat
    BY <1>0
  <1>2. T # {}
    OBVIOUS
  <1>3. Serial!Min(T) \in T /\ \A y \in T : Serial!Min(T) <= y
    BY <1>1, <1>2, LeastIn
  <1>4. PICK z \in S : Serial!Min(T) = MaxRows - z
    BY <1>3
  <1>5. ASSUME NEW y \in S PROVE z >= y
    <2>1. MaxRows - y \in T
      OBVIOUS
    <2>2. MaxRows - z <= MaxRows - y
      BY <1>3, <1>4, <2>1
    <2> HIDE DEF T
    <2> QED BY <1>0, <2>2
  <1> HIDE DEF T
  <1> QED BY <1>5 DEF Serial!Max

\* The lesser of two amounts is an amount.
LEMMA LesserIn == \A a, b \in Nat : Serial!Min({a, b}) \in {a, b} /\ Serial!Min({a, b}) <= a /\ Serial!Min({a, b}) <= b
  <1> SUFFICES ASSUME NEW a \in Nat, NEW b \in Nat
               PROVE  Serial!Min({a, b}) \in {a, b} /\ Serial!Min({a, b}) <= a /\ Serial!Min({a, b}) <= b
    OBVIOUS
  <1> QED BY LeastIn

\* What a request asks a cancellation to give back is an amount.
LEMMA ShareIs ==
    ASSUME NEW share \in Serial!Amount, NEW refunded \in Nat
    PROVE  (IF Total - refunded <= 0 THEN 0 ELSE Serial!Min({share, Total - refunded})) \in Serial!Amount
  <1>1. Total \in Nat /\ share \in Nat /\ share <= Total
    BY StayAssumption DEF Serial!Amount
  <1>2. CASE Total - refunded <= 0
    BY <1>1, <1>2 DEF Serial!Amount
  <1>3. CASE ~(Total - refunded <= 0)
    <2>1. PICK left \in Nat : left = Total - refunded
      BY <1>1, <1>3
    <2>2. Serial!Min({share, left}) \in {share, left} /\ Serial!Min({share, left}) <= share
      BY <1>1, LesserIn
    <2>3. Serial!Min({share, left}) \in 0 .. Total
      BY <1>1, <2>1, <2>2
    <2> QED BY <1>3, <2>1, <2>3 DEF Serial!Amount
  <1> QED BY <1>2, <1>3

\* A request that begins.
LEMMA Begun ==
    ASSUME SerialInv, NEW kind \in Serial!HandlerNames, NEW pc \in Serial!Step, NEW share \in Serial!Amount,
           Serial!Begin(Slot, kind, pc, share)
    PROVE  \E x \in Serial!Request :
              /\ serialReq' = [serialReq EXCEPT ![Slot] = x]
              /\ x.pc = pc /\ x.kind = kind /\ x.seen = serialStatus /\ x.share = share
  <1>1. PICK x : x = [Serial!Idle EXCEPT !.pc = pc, !.kind = kind, !.seen = serialStatus, !.share = share]
    OBVIOUS
  <1>2. Serial!Idle \in Serial!Request /\ serialStatus \in Serial!Status
    BY IdleFits DEF SerialInv, Serial!TypeOK
  <1>3. /\ x \in Serial!Request /\ x.pc = pc /\ x.kind = kind /\ x.seen = serialStatus /\ x.share = share
    BY <1>1, <1>2 DEF Serial!Request
  <1>4. serialReq' = [serialReq EXCEPT ![Slot] = x]
    BY <1>1 DEF Serial!Begin
  <1> QED BY <1>3, <1>4

\* The handlers start: an acceptance has a payment to take, a decline and a
\* cancellation find the booking as they will claim it, a sweep as it will drop it.
LEMMA StartKeeps == ASSUME SerialInv, Serial!Start(Slot) PROVE SerialInv'
  <1>0. /\ UNCHANGED <<serialStatus, serialListing, serialRow, serialIntent, serialKeys, serialMail,
                       serialCancelRow, serialGranted, serialUnpaidEnd>>
        /\ Total \in Serial!Amount /\ 0 \in Serial!Amount
    BY StayAssumption DEF Serial!Start, Serial!Amount, Serial!stripeVars
  <1>1. CASE Serial!StartConfirm(Slot)
    <2>1. serialStatus = "pending" /\ Serial!IsCovered /\ Serial!Begin(Slot, "confirm", "look", 0)
      BY <1>1 DEF Serial!StartConfirm, Serial!Answerable
    <2>2. PICK x \in Serial!Request : /\ serialReq' = [serialReq EXCEPT ![Slot] = x]
                                      /\ x.pc = "look" /\ x.kind = "confirm"
      BY <1>0, <2>1, Begun DEF Serial!HandlerNames, Serial!Step
    <2>3. \E i \in Intent : Taken(i)
      BY <2>1 DEF SerialInv, Open, Serial!Live, MoneyFits, Intact, Serial!IsCovered, Taken, Charged
    <2>4. Fits(x) /\ ~Claimed(x)
      BY <2>1, <2>2, <2>3 DEF Fits, Claimed
    <2> QED BY <1>0, <2>2, <2>4, RequestMoves
  <1>2. CASE Serial!StartDecline(Slot)
    <2>1. serialStatus = "pending" /\ Serial!Begin(Slot, "decline", "claim", Total)
      BY <1>2 DEF Serial!StartDecline
    <2>2. PICK x \in Serial!Request : /\ serialReq' = [serialReq EXCEPT ![Slot] = x]
                                      /\ x.pc = "claim" /\ x.kind = "decline" /\ x.seen = serialStatus
      BY <1>0, <2>1, Begun DEF Serial!HandlerNames, Serial!Step
    <2>4. Fits(x) /\ ~Claimed(x)
      BY <2>1, <2>2 DEF Fits, Claimed
    <2> QED BY <1>0, <2>2, <2>4, RequestMoves
  <1>3. ASSUME NEW share \in Serial!Amount, Serial!StartCancel(Slot, share) PROVE SerialInv'
    <2> DEFINE rest == Total - Serial!LastRow.refunded
               sends == IF rest <= 0 THEN 0 ELSE Serial!Min({share, rest})
    <2>1. serialStatus \in {"pending", "confirmed"} /\ Serial!Begin(Slot, "cancel", "claim", sends)
      BY <1>3 DEF Serial!StartCancel
    <2>2. Serial!LastRow.refunded \in Nat
      <3>1. Serial!Rows(Serial!PayStatus) \subseteq 1 .. MaxRows
        BY DEF Serial!Rows, Serial!RowId
      <3>2. Serial!Rows(Serial!PayStatus) # {}
        <4>1. 1 \in 1 .. MaxRows
          BY StayAssumption
        <4> QED BY <4>1, SerialTypes DEF SerialInv, MoneyFits, Serial!Rows, Serial!Row
      <3> QED BY <3>1, <3>2, LastIn, SerialTypes DEF Serial!LastRow, Serial!Row, SerialInv
    <2>3. sends \in Serial!Amount
      BY <2>2, ShareIs
    <2> HIDE DEF sends
    <2>4. PICK x \in Serial!Request : /\ serialReq' = [serialReq EXCEPT ![Slot] = x]
                                      /\ x.pc = "claim" /\ x.kind = "cancel" /\ x.seen = serialStatus
      BY <2>1, <2>3, Begun DEF Serial!HandlerNames, Serial!Step
    <2>5. Fits(x) /\ ~Claimed(x)
      BY <2>1, <2>4 DEF Fits, Claimed
    <2> QED BY <1>0, <2>4, <2>5, RequestMoves
  <1>4. ASSUME NEW share \in Serial!Amount PROVE ~Serial!StartAdminCancel(Slot, share) /\ ~Serial!StartAdminRefund(Slot, share)
    BY DEF Serial!StartAdminCancel, Serial!StartAdminRefund, Serial!Begin, Handled
  <1>5. ASSUME NEW kind \in {"expire", "releaseOwn"}, Serial!FindUnpaid(Slot, kind) PROVE SerialInv'
    <2>1. serialStatus = "pending" /\ ~Serial!IsCovered /\ Serial!Begin(Slot, kind, "drop", 0)
      BY <1>5 DEF Serial!FindUnpaid
    <2>2. kind \in Serial!HandlerNames /\ "drop" \in Serial!Step
      BY DEF Serial!HandlerNames, Serial!Step
    <2>3. PICK x \in Serial!Request : /\ serialReq' = [serialReq EXCEPT ![Slot] = x]
                                      /\ x.pc = "drop" /\ x.kind = kind
      BY <1>0, <2>1, <2>2, Begun
    <2>4. Fits(x) /\ ~Claimed(x)
      BY <2>1, <2>3 DEF Fits, Claimed
    <2> QED BY <1>0, <2>3, <2>4, RequestMoves
  <1> QED BY <1>1, <1>2, <1>3, <1>4, <1>5 DEF Serial!Start

-------------------------------------------------------------------------------
(* The claim and the Stripe call                                            *)

\* Intents that go on, and events that come, of a booking whose status and rows stay.
LEMMA MoneyMoves ==
    ASSUME SerialInv, UNCHANGED <<serialStatus, serialRow, serialUnpaidEnd>>,
           Serial!TypeOK', Fits(Asking)', ConfirmedFits', (Open => Intact)',
           \A e \in serialMail : e \in serialMail' \/ (Taken(e.intent)' => serialIntent'[e.intent].refunded = Total),
           \A e \in serialMail' : e \in serialMail \/ (Pays(e) => Charged(e.intent)'),
           \A i \in Intent : Charged(i) => Charged(i)',
           \A i \in Intent : Taken(i)' =>
               \/ Taken(i) /\ (serialIntent[i].refunded = Total => serialIntent'[i].refunded = Total)
               \/ Awaited(i)',
           \A k \in serialKeys' : k.left = 0 /\ k.ask = 0 => serialIntent'[k.intent].refunded = Total
    PROVE  SerialInv'
  <1>1. serialMail \subseteq Serial!Event /\ \A e \in serialMail : e.intent \in Intent
    BY SerialTypes DEF SerialInv, Serial!Event
  <1>2. MoneyFits'
    BY <1>1 DEF SerialInv, MoneyFits, Charged, Serial!Rows, Serial!RowId
  <1>3. \A i \in Intent : Awaited(i) => Awaited(i)' \/ (Taken(i)' => serialIntent'[i].refunded = Total)
    BY DEF Awaited
  <1>4. LateFits'
    BY <1>3 DEF SerialInv, LateFits
  <1> QED BY <1>2, <1>4 DEF SerialInv

\* A claim takes the booking off the calendar, with all its money as it was.
LEMMA ClaimKeeps == ASSUME SerialInv, Serial!Claim(Slot) PROVE SerialInv'
  <1>1. PICK q \in Serial!Request : q = Asking /\ Fits(q)
    BY SerialTypes DEF SerialInv
  <1>2. /\ q.pc = "claim" /\ q.kind \in {"decline", "cancel"} /\ q.seen = serialStatus
        /\ serialStatus \in {"pending", "confirmed"}
    BY <1>1 DEF Fits, Serial!Claim, Serial!At, Asking
  <1>3. UNCHANGED <<serialListing, serialRow, serialIntent, serialKeys, serialMail, serialCancelRow, serialGranted>>
    BY DEF Serial!Claim, Serial!stripeVars
  <1>4. CASE Serial!Done(Slot) /\ UNCHANGED <<serialStatus, serialUnpaidEnd>>
    BY <1>3, <1>4, RequestEnds
  <1>5. CASE /\ serialStatus' = (IF q.kind = "decline" THEN "declined" ELSE "cancelled")
             /\ serialUnpaidEnd' = ~Serial!IsCovered /\ Serial!Goto(Slot, "look")
    <2>1. PICK x : x = [q EXCEPT !.pc = "look"]
      OBVIOUS
    <2>2. x \in Serial!Request /\ x.pc = "look" /\ x.kind = q.kind /\ x.seen = q.seen
      BY <2>1 DEF Serial!Request, Serial!Step
    <2>3. serialReq' = [serialReq EXCEPT ![Slot] = x]
      BY <1>1, <1>5, <2>1, SerialTypes DEF Serial!Goto, Asking, SerialInv
    <2>4. serialReq' \in [{Slot} -> Serial!Request] /\ Asking' = x
      BY <2>2, <2>3, Put DEF SerialInv
    <2>5. Serial!TypeOK'
      BY <1>3, <1>5, <2>4 DEF SerialInv, Serial!TypeOK, Serial!Status
    <2>6. Fits(Asking)'
      BY <1>2, <1>5, <2>2, <2>4 DEF Fits, Claimed
    <2>7. Open /\ Intact
      BY <1>2 DEF SerialInv, Open, Serial!Live
    <2>8. Intact' /\ (Serial!IsCovered' <=> Serial!IsCovered)
      BY <1>3, <2>7 DEF Intact, Taken, Awaited, Serial!IsCovered, Serial!Rows
    <2>9. MoneyFits'
      BY <1>3 DEF SerialInv, MoneyFits, Charged, Serial!Rows
    <2>10. ConfirmedFits'
      BY <1>2, <1>3, <1>5, <2>2, <2>4 DEF SerialInv, ConfirmedFits, Taken
    <2>11. LateFits'
      BY <1>3, <1>5, <2>7 DEF Intact, LateFits, Taken, Awaited
    <2> QED BY <2>5, <2>6, <2>8, <2>9, <2>10, <2>11 DEF SerialInv
  <1> QED BY <1>1, <1>4, <1>5 DEF Serial!Claim, Asking

\* The payment that covers the stay is of an intent.
LEMMA LiveIntentIs == SerialInv => Serial!LiveIntent \in Intent \cup {None}
  <1> SUFFICES ASSUME SerialInv, Serial!IsCovered PROVE Serial!LiveIntent \in Intent
    BY DEF Serial!LiveIntent
  <1>1. Serial!Rows(Serial!Covered) \subseteq 1 .. MaxRows /\ Serial!Rows(Serial!Covered) # {}
    BY DEF Serial!IsCovered, Serial!Rows, Serial!RowId
  <1>2. Serial!Max(Serial!Rows(Serial!Covered)) \in Serial!Rows(Serial!Covered)
    BY <1>1, LastIn
  <1> QED BY <1>2 DEF Serial!LiveIntent, SerialInv, MoneyFits

\* What is left of a charge is an amount.
LEMMA LeftIs == ASSUME Serial!TypeOK, NEW i \in Intent PROVE Serial!Left(i) \in Serial!Amount
  <1>1. serialIntent[i].refunded \in 0 .. Total /\ Total \in Nat
    BY SerialTypes, StayAssumption DEF Serial!IntentState, Serial!Amount
  <1>2. Total - serialIntent[i].refunded \in 0 .. Total /\ 0 \in 0 .. Total
    BY <1>1
  <1> QED BY <1>2 DEF Serial!Left, Serial!Amount

\* Reading the payment and its intent: there is nothing to do, or one call to make.
LEMMA LookKeeps == ASSUME SerialInv, Serial!Look(Slot) PROVE SerialInv'
  <1> DEFINE i == Serial!LiveIntent
             call == Serial!Call(Slot, i)
  <1>1. PICK q \in Serial!Request : q = Asking /\ Fits(q)
    BY SerialTypes DEF SerialInv
  <1>2. /\ q.pc = "look" /\ q.kind \in {"confirm", "decline", "cancel"}
        /\ UNCHANGED <<serialStatus, serialListing, serialRow, serialIntent, serialKeys, serialMail,
                       serialCancelRow, serialGranted, serialUnpaidEnd>>
    BY <1>1 DEF Fits, Serial!Look, Serial!At, Serial!stripeVars, Asking
  <1>3. CASE call = "none"
    <2>1. PICK pc \in {"finish", "decide"} : pc = Serial!AfterStripe(q.kind)
      BY <1>2 DEF Serial!AfterStripe
    <2>2. pc = "finish" <=> q.kind \in {"decline", "cancel"}
      BY <1>2, <2>1 DEF Serial!AfterStripe
    <2>3. PICK x : x = [q EXCEPT !.pc = pc]
      OBVIOUS
    <2>4. x \in Serial!Request /\ x.pc = pc /\ x.kind = q.kind
      BY <2>3 DEF Serial!Request, Serial!Step
    <2>5. serialReq' = [serialReq EXCEPT ![Slot] = x]
      BY <1>1, <1>3, <2>1, <2>3, SerialTypes DEF Serial!Look, Asking, SerialInv
    <2>6. Fits(x) /\ ~Claimed(x)
      BY <1>1, <1>2, <2>1, <2>2, <2>4 DEF Fits, Claimed
    <2> QED BY <1>2, <2>4, <2>5, <2>6, RequestMoves
  <1>4. CASE call # "none"
    <2>1. i \in Intent
      BY <1>4, LiveIntentIs DEF Serial!Call
    <2>2. /\ call \in {"capture", "cancel", "refund"}
          /\ call = "capture" <=> q.kind = "confirm"
      BY <1>1, <1>4 DEF Serial!Call, Asking
    <2>3. PICK left \in Serial!Amount : left = Serial!Left(i)
      BY <2>1, LeftIs DEF SerialInv
    <2>4. PICK ask : ask = IF call = "refund" THEN Serial!Min({q.share, left}) ELSE 0
      OBVIOUS
    <2>5. ask \in Serial!Amount
      <3>1. q.share \in Nat /\ left \in Nat /\ Total \in Nat /\ q.share <= Total /\ left <= Total
        BY StayAssumption DEF Serial!Request, Serial!Amount
      <3>2. Serial!Min({q.share, left}) \in {q.share, left}
        BY <3>1, LesserIn
      <3> QED BY <2>4, <3>1, <3>2 DEF Serial!Amount
    <2> HIDE DEF call
    <2>6. PICK x : x = [q EXCEPT !.pc = "stripe", !.call = call, !.intent = i, !.left = left, !.ask = ask]
      OBVIOUS
    <2>7. /\ x \in Serial!Request /\ x.pc = "stripe" /\ x.kind = q.kind /\ x.seen = q.seen /\ x.intent = i
          /\ x.call = call
      BY <2>1, <2>2, <2>5, <2>6 DEF Serial!Request, Serial!Step
    <2>8. serialReq' = [serialReq EXCEPT ![Slot] = x]
      BY <1>1, <1>4, <2>3, <2>4, <2>6, SerialTypes DEF Serial!Look, Asking, SerialInv, call
    <2>9. Fits(x) /\ (Claimed(x) => Claimed(q))
      BY <1>1, <1>2, <2>1, <2>2, <2>7 DEF Fits, Claimed
    <2> QED BY <1>1, <1>2, <2>7, <2>8, <2>9, RequestMoves
  <1> QED BY <1>3, <1>4

\* A call that fails: a claim is given back next.
LEMMA ThrewKeeps ==
    ASSUME SerialInv, Serial!At(Slot, "stripe"), Serial!Threw(Slot), UNCHANGED Serial!stripeVars,
           UNCHANGED <<serialStatus, serialListing, serialRow, serialCancelRow, serialGranted, serialUnpaidEnd>>
    PROVE  SerialInv'
  <1>1. PICK q \in Serial!Request : q = Asking /\ Fits(q) /\ q.pc = "stripe"
    BY SerialTypes DEF SerialInv, Serial!At, Asking
  <1>2. UNCHANGED <<serialIntent, serialKeys, serialMail>>
    BY DEF Serial!stripeVars
  <1>3. CASE q.kind \in {"decline", "cancel"}
    <2>1. PICK x : x = [Serial!Idle EXCEPT !.pc = "unclaim", !.kind = q.kind, !.seen = q.seen]
      OBVIOUS
    <2>2. x \in Serial!Request /\ x.pc = "unclaim" /\ x.kind = q.kind /\ x.seen = q.seen
      BY <2>1, IdleFits DEF Serial!Request, Serial!Step
    <2>3. serialReq' = [serialReq EXCEPT ![Slot] = x]
      BY <1>1, <1>3, <2>1, SerialTypes DEF Serial!Threw, Asking, SerialInv
    <2>4. Fits(x) /\ (Claimed(x) => Claimed(q))
      BY <1>1, <1>3, <2>2 DEF Fits, Claimed
    <2> QED BY <1>1, <1>2, <2>2, <2>3, <2>4, RequestMoves
  <1>4. CASE q.kind \notin {"decline", "cancel"}
    <2>1. Serial!Done(Slot)
      BY <1>1, <1>4, SerialTypes DEF Serial!Threw, Serial!Done, Asking, SerialInv
    <2> QED BY <1>2, <2>1, RequestEnds
  <1> QED BY <1>3, <1>4


\* Rows, deliveries that are through and a status that leave a booking on the calendar
\* only where it was, and its payment recorded.
LEMMA RowsMove ==
    ASSUME SerialInv, UNCHANGED <<serialIntent, serialKeys, serialUnpaidEnd>>,
           Serial!TypeOK', Fits(Asking)', ConfirmedFits',
           serialRow'[1].st # "none",
           \A k \in 1 .. MaxRows :
               /\ serialRow'[k].st \in Serial!Covered => serialRow'[k].ref \in Intent /\ Charged(serialRow'[k].ref)
               /\ Open => serialRow'[k].st # "refunded",
           Open' => Open /\ (Serial!IsCovered => Serial!IsCovered'),
           serialStatus' = "cancelled" => serialStatus = "cancelled",
           serialMail' \subseteq serialMail,
           \A e \in serialMail : Pays(e) /\ e \notin serialMail' =>
               serialStatus # "cancelled" /\ (Open' => Serial!IsCovered')
    PROVE  SerialInv'
  <1>1. MoneyFits'
    BY DEF SerialInv, MoneyFits, Charged, Serial!Rows, Serial!RowId
  <1>2. \A i \in Intent : Awaited(i) => \/ Awaited(i)'
                                        \/ serialStatus # "cancelled" /\ (Open' => Serial!IsCovered')
    BY DEF Awaited
  <1>3. LateFits'
    BY <1>2 DEF SerialInv, LateFits, Taken
  <1>4. (Open => Intact)'
    <2> SUFFICES ASSUME Open' PROVE Intact'
      OBVIOUS
    <2>1. Open /\ Intact
      BY DEF SerialInv
    <2>2. Serial!IsCovered' \/ \A i \in Intent : Taken(i)' => Awaited(i)'
      BY <1>2, <2>1 DEF Intact, Taken
    <2> QED BY <2>1, <2>2 DEF Intact
  <1> QED BY <1>1, <1>3, <1>4 DEF SerialInv

\* The intents of a booking that is off the calendar: one of them is canceled.
LEMMA CancelKeeps ==
    ASSUME SerialInv, NEW i \in Intent, serialIntent[i].st \in {"open", "held"},
           serialIntent' = [serialIntent EXCEPT ![i].st = "canceled"],
           UNCHANGED <<serialStatus, serialListing, serialRow, serialKeys, serialCancelRow,
                       serialGranted, serialUnpaidEnd>>,
           serialMail' \subseteq serialMail, \A e \in serialMail : e \in serialMail' \/ e.intent = i,
           serialReq' \in [{Slot} -> Serial!Request], Fits(Asking)', ~Claimed(Asking)',
           serialStatus \in {"declined", "cancelled"}
    PROVE  SerialInv'
  <1>1. serialIntent \in [Intent -> Serial!IntentState] /\ serialMail \subseteq Serial!Event
    BY SerialTypes DEF SerialInv
  <1>2. serialIntent' \in [Intent -> Serial!IntentState]
    BY <1>1 DEF Serial!IntentState
  <1>3. Serial!TypeOK'
    BY <1>2 DEF SerialInv, Serial!TypeOK
  <1>4. ~Open' /\ ConfirmedFits'
    BY DEF Open, ConfirmedFits, Serial!Live
  <1>5. /\ serialIntent'[i].st = "canceled"
        /\ \A j \in Intent : serialIntent'[j].refunded = serialIntent[j].refunded
        /\ \A j \in Intent : j # i => serialIntent'[j].st = serialIntent[j].st
    BY <1>1 DEF Serial!IntentState
  <1>6. \A j \in Intent : (Charged(j) => Charged(j)') /\ (Taken(j)' => Taken(j) /\ j # i)
    BY <1>5 DEF Charged, Taken
  <1>7. \A e \in serialMail : e \in serialMail' \/ (Taken(e.intent)' => serialIntent'[e.intent].refunded = Total)
    BY <1>6
  <1>8. \A k \in serialKeys : k.intent \in Intent
    BY SerialTypes DEF SerialInv, Serial!Key
  <1>9. \A k \in serialKeys' : k.left = 0 /\ k.ask = 0 => serialIntent'[k.intent].refunded = Total
    BY <1>5, <1>8 DEF SerialInv, MoneyFits
  <1> QED BY <1>3, <1>4, <1>5, <1>6, <1>7, <1>9, MoneyMoves

\* A capture or a refund that Stripe made is followed by what is written.
LEMMA AnsweredKeeps ==
    ASSUME SerialInv, Serial!At(Slot, "stripe"), Serial!StripeDoes(Slot), Serial!Answered(Slot),
           UNCHANGED <<serialStatus, serialListing, serialRow, serialCancelRow, serialGranted, serialUnpaidEnd>>
    PROVE  SerialInv'
  <1>1. PICK q \in Serial!Request : q = Asking /\ Fits(q) /\ q.pc = "stripe"
    BY SerialTypes DEF SerialInv, Serial!At, Asking
  <1>2. PICK i \in Intent : i = q.intent
    BY <1>1 DEF Fits
  <1>3. q.kind \in {"confirm", "decline", "cancel"} /\ (q.call = "capture" <=> q.kind = "confirm")
    BY <1>1 DEF Fits
  <1>4. PICK pc \in {"finish", "decide"} : pc = Serial!AfterStripe(q.kind)
    BY <1>3 DEF Serial!AfterStripe
  <1>5. pc = "decide" <=> q.kind = "confirm"
    BY <1>3, <1>4 DEF Serial!AfterStripe
  <1>6. PICK x : x = [Serial!Idle EXCEPT !.pc = pc, !.kind = q.kind, !.seen = q.seen, !.share = q.share]
    OBVIOUS
  <1>7. x \in Serial!Request /\ x.pc = pc /\ x.kind = q.kind /\ x.seen = q.seen
    BY <1>6, IdleFits DEF Serial!Request, Serial!Step
  <1>8. serialReq' = [serialReq EXCEPT ![Slot] = x]
    BY <1>1, <1>4, <1>6, SerialTypes DEF Serial!Answered, Asking, SerialInv
  <1>9. serialReq' \in [{Slot} -> Serial!Request] /\ Asking' = x
    BY <1>7, <1>8, Put DEF SerialInv
  <1>10. ~Claimed(Asking)'
    BY <1>7, <1>9 DEF Claimed
  <1>11. /\ serialIntent \in [Intent -> Serial!IntentState] /\ serialMail \subseteq Serial!Event
         /\ serialKeys \subseteq Serial!Key /\ serialStatus \in Serial!Status
    BY DEF SerialInv, Serial!TypeOK
  <1>12. CASE q.kind = "confirm"
    <2>1. Serial!StripeCapture(i)
      BY <1>1, <1>2, <1>3, <1>12 DEF Serial!StripeDoes, Asking
    <2>2. PICK e : e = [type |-> "succeeded", intent |-> i, amount |-> Total]
      OBVIOUS
    <2>3. e \in Serial!Event /\ e.type = "succeeded" /\ e.intent = i
      BY <2>2, StayAssumption DEF Serial!Event, Serial!Amount
    <2>4. /\ serialIntent[i].st \in {"held", "succeeded"} /\ serialKeys' = serialKeys
          /\ serialIntent' = [serialIntent EXCEPT ![i].st = "succeeded"]
          /\ serialMail' \in {serialMail, serialMail \cup {e}}
      BY <2>1, <2>2 DEF Serial!StripeCapture
    <2>5. /\ serialIntent' \in [Intent -> Serial!IntentState]
          /\ serialIntent'[i].st = "succeeded"
          /\ \A j \in Intent : serialIntent'[j].refunded = serialIntent[j].refunded
          /\ \A j \in Intent : j # i => serialIntent'[j].st = serialIntent[j].st
      BY <1>11, <2>4 DEF Serial!IntentState
    <2>6. Serial!TypeOK'
      BY <1>9, <1>11, <2>3, <2>4, <2>5 DEF SerialInv, Serial!TypeOK
    <2>7. \A j \in Intent : (Charged(j) => Charged(j)') /\ (Taken(j)' <=> Taken(j)) /\ Taken(i) /\ Charged(i)'
      BY <2>4, <2>5 DEF Charged, Taken
    <2>8. serialStatus = "pending"
      BY <1>1, <1>12 DEF Fits
    <2>9. Fits(Asking)'
      BY <1>5, <1>7, <1>9, <1>12, <2>7, <2>8 DEF Fits, Claimed
    <2>10. ConfirmedFits'
      BY <1>10, <2>8 DEF ConfirmedFits
    <2>11. Intact
      BY <2>8 DEF SerialInv, Open, Serial!Live
    <2>12. \A j \in Intent : Awaited(j) => Awaited(j)'
      BY <2>4 DEF Awaited
    <2>13. Intact'
      BY <2>3, <2>4, <2>5, <2>7, <2>11, <2>12 DEF Intact, Serial!IsCovered, Serial!Rows
    <2>14. \A k \in serialKeys' : k.left = 0 /\ k.ask = 0 => serialIntent'[k.intent].refunded = Total
      BY <2>4, <2>11 DEF Intact
    <2>15. \A f \in serialMail' : f \in serialMail \/ (Pays(f) => Charged(f.intent)')
      BY <2>3, <2>4, <2>7
    <2>16. \A j \in Intent : Taken(j)' =>
               Taken(j) /\ (serialIntent[j].refunded = Total => serialIntent'[j].refunded = Total)
      BY <2>5, <2>7
    <2>17. \A f \in serialMail : f \in serialMail'
      BY <2>4
    <2> QED BY <2>6, <2>7, <2>9, <2>10, <2>13, <2>14, <2>15, <2>16, <2>17, MoneyMoves
  <1>13. CASE q.kind # "confirm"
    <2>1. serialStatus = (IF q.kind = "decline" THEN "declined" ELSE "cancelled")
      BY <1>1, <1>3, <1>13 DEF Fits, Claimed
    <2>2. Fits(Asking)'
      BY <1>3, <1>5, <1>7, <1>9, <1>13, <2>1 DEF Fits, Claimed
    <2>3. CASE q.call = "cancel"
      <3>1. Serial!StripeCancel(i)
        BY <1>1, <1>2, <2>3 DEF Serial!StripeDoes, Asking
      <3> QED BY <1>9, <1>10, <2>1, <2>2, <3>1, CancelKeeps DEF Serial!StripeCancel
    <2>4. CASE q.call # "cancel"
      <3>1. PICK k : k = [intent |-> i, left |-> q.left, ask |-> q.ask]
        OBVIOUS
      <3>2. Serial!StripeRefund(k, q.ask)
        BY <1>1, <1>2, <1>3, <1>13, <2>4, <3>1 DEF Serial!StripeDoes, Asking
      <3>3. ~Open' /\ ConfirmedFits'
        BY <1>10, <2>1 DEF Open, ConfirmedFits, Serial!Live
      <3>4. CASE UNCHANGED Serial!stripeVars
        <4>1. Claimed(x) => Claimed(Asking) /\ x.seen = Asking.seen
          BY <1>9, <1>10
        <4>2. Fits(x)
          BY <1>3, <1>5, <1>7, <1>13, <2>1 DEF Fits, Claimed
        <4> QED BY <1>7, <1>8, <3>4, <4>1, <4>2, RequestMoves DEF Serial!stripeVars
      <3>5. CASE /\ 0 < q.ask /\ q.ask <= Serial!Left(i)
                 /\ serialIntent' = [serialIntent EXCEPT ![i].refunded = @ + q.ask]
                 /\ serialKeys' = serialKeys \cup {k}
                 /\ serialMail' = serialMail \cup {[type |-> "refunded", intent |-> i,
                                                    amount |-> serialIntent[i].refunded + q.ask]}
        <4>1. PICK a \in Nat : a = serialIntent[i].refunded
          BY <1>11, StayAssumption DEF Serial!IntentState, Serial!Amount
        <4>2. q.ask \in Nat /\ Total \in Nat /\ q.left \in Serial!Amount
          BY StayAssumption DEF Serial!Request, Serial!Amount
        <4>3. Serial!Left(i) = Total - a \/ Serial!Left(i) = 0
          BY <4>1 DEF Serial!Left
        <4>4. a # Total /\ q.ask # 0 /\ a + q.ask \in 0 .. Total /\ q.ask \in 0 .. Total
          BY <3>5, <4>1, <4>2, <4>3
        <4>5. /\ serialIntent' \in [Intent -> Serial!IntentState]
              /\ \A j \in Intent : serialIntent'[j].st = serialIntent[j].st
              /\ \A j \in Intent : j # i => serialIntent'[j].refunded = serialIntent[j].refunded
          <5>1. serialIntent' = [serialIntent EXCEPT ![i] = [@ EXCEPT !.refunded = a + q.ask]]
            BY <3>5, <4>1, <1>11
          <5> QED BY <1>11, <4>4, <5>1 DEF Serial!IntentState, Serial!Amount
        <4>6. PICK e : e = [type |-> "refunded", intent |-> i, amount |-> a + q.ask]
          OBVIOUS
        <4>7. e \in Serial!Event /\ ~Pays(e) /\ serialMail' = serialMail \cup {e}
          BY <3>5, <4>1, <4>4, <4>6 DEF Serial!Event, Serial!Amount, Pays
        <4>8. k \in Serial!Key /\ k.ask # 0
          BY <3>1, <4>2, <4>4 DEF Serial!Key, Serial!Amount
        <4>9. Serial!TypeOK'
          BY <1>9, <1>11, <3>5, <4>5, <4>7, <4>8 DEF SerialInv, Serial!TypeOK
        <4>10. \A l \in serialKeys : l.intent \in Intent
          BY <1>11 DEF Serial!Key
        <4>11. \A l \in serialKeys' : l.left = 0 /\ l.ask = 0 => serialIntent'[l.intent].refunded = Total
          BY <3>5, <4>1, <4>4, <4>5, <4>8, <4>10 DEF SerialInv, MoneyFits
        <4>12. \A j \in Intent : (Charged(j) => Charged(j)') /\ (Taken(j)' <=> Taken(j))
          BY <4>5 DEF Charged, Taken
        <4>13. \A j \in Intent : serialIntent[j].refunded = Total => serialIntent'[j].refunded = Total
          BY <4>1, <4>4, <4>5
        <4>14. \A f \in serialMail : f \in serialMail'
          BY <4>7
        <4>15. \A f \in serialMail' : f \in serialMail \/ (Pays(f) => Charged(f.intent)')
          BY <4>7
        <4> QED BY <2>2, <3>3, <4>9, <4>11, <4>12, <4>13, <4>14, <4>15, MoneyMoves
      <3>6. k.intent = i
        BY <3>1
      <3> QED BY <3>2, <3>4, <3>5, <3>6 DEF Serial!StripeRefund
    <2> QED BY <2>3, <2>4
  <1> QED BY <1>12, <1>13

\* The Stripe call: no answer of a call that was made is lost here.
LEMMA StripeCallKeeps == ASSUME SerialInv, Serial!StripeCall(Slot) PROVE SerialInv'
  <1>1. /\ Serial!At(Slot, "stripe")
        /\ UNCHANGED <<serialStatus, serialListing, serialRow, serialCancelRow, serialGranted, serialUnpaidEnd>>
    BY DEF Serial!StripeCall
  <1>2. \/ Serial!StripeDoes(Slot) /\ Serial!Answered(Slot)
        \/ Serial!Threw(Slot) /\ UNCHANGED Serial!stripeVars
    BY DEF Serial!StripeCall
  <1> QED BY <1>1, <1>2, AnsweredKeeps, ThrewKeeps

-------------------------------------------------------------------------------
(* What follows the call                                                   *)

\* A claim that is given back finds the money as the claim had found it.
LEMMA UnclaimKeeps == ASSUME SerialInv, Serial!Unclaim(Slot) PROVE SerialInv'
  <1>1. PICK q \in Serial!Request : q = Asking /\ Fits(q) /\ q.pc = "unclaim"
    BY SerialTypes DEF SerialInv, Serial!Unclaim, Serial!At, Asking
  <1>2. /\ q.kind \in {"decline", "cancel"} /\ q.seen \in {"pending", "confirmed"} /\ Claimed(Asking)
        /\ serialStatus = IF q.kind = "decline" THEN "declined" ELSE "cancelled"
    BY <1>1 DEF Fits, Claimed
  <1>3. /\ Serial!Done(Slot)
        /\ UNCHANGED <<serialListing, serialRow, serialIntent, serialKeys, serialMail, serialCancelRow, serialGranted>>
    BY DEF Serial!Unclaim, Serial!stripeVars
  <1>4. CASE UNCHANGED <<serialStatus, serialUnpaidEnd>>
    BY <1>3, <1>4, RequestEnds
  <1>5. CASE serialStatus' = q.seen /\ serialUnpaidEnd' = FALSE
    <2>1. serialReq' \in [{Slot} -> Serial!Request] /\ Asking' = Serial!Idle
      BY <1>3, Put, IdleFits DEF SerialInv, Serial!Done
    <2>2. Serial!TypeOK'
      BY <1>2, <1>3, <1>5, <2>1 DEF SerialInv, Serial!TypeOK, Serial!Status, Serial!Live
    <2>3. Fits(Asking)'
      BY <2>1, IdleFitsNext
    <2>4. Intact
      BY <1>2 DEF SerialInv, Open
    <2>5. Intact'
      BY <1>3, <2>4 DEF Intact, Taken, Awaited, Serial!IsCovered, Serial!Rows
    <2>6. MoneyFits'
      BY <1>3 DEF SerialInv, MoneyFits, Charged, Serial!Rows
    <2>7. ~Claimed(Asking)'
      BY <2>1, IdleFits DEF Claimed
    <2>8. ConfirmedFits'
      BY <1>1, <1>2, <1>3, <1>5, <2>7 DEF SerialInv, ConfirmedFits, Taken
    <2>9. LateFits'
      BY <1>5 DEF LateFits
    <2> QED BY <2>2, <2>3, <2>5, <2>6, <2>8, <2>9 DEF SerialInv
  <1> QED BY <1>1, <1>2, <1>4, <1>5 DEF Serial!Unclaim, Asking

\* Rows that are marked refunded of a booking that is closed.
LEMMA RowsClose ==
    ASSUME SerialInv, Serial!Done(Slot), serialRow' \in [1 .. MaxRows -> Serial!Row],
           \A k \in 1 .. MaxRows : /\ serialRow'[k].st \in {serialRow[k].st, "refunded"}
                                  /\ serialRow'[k].ref = serialRow[k].ref,
           serialCancelRow' \in Serial!Amount, serialStatus \in {"declined", "cancelled"},
           UNCHANGED <<serialStatus, serialListing, serialIntent, serialKeys, serialMail, serialGranted, serialUnpaidEnd>>,
           ~Claimed(Asking)
    PROVE  SerialInv'
  <1>1. serialReq' \in [{Slot} -> Serial!Request] /\ Asking' = Serial!Idle
    BY Put, IdleFits DEF SerialInv, Serial!Done
  <1>5. Serial!TypeOK'
    BY <1>1 DEF SerialInv, Serial!TypeOK, Serial!RowId
  <1>6. Fits(Asking)' /\ ~Claimed(Asking)'
    BY <1>1, IdleFitsNext, IdleFits DEF Claimed
  <1>7. ~Open /\ ~Open' /\ ConfirmedFits'
    BY <1>6 DEF Open, ConfirmedFits, Serial!Live
  <1>8. 1 \in 1 .. MaxRows /\ serialRow'[1].st # "none"
    <2>1. 1 \in 1 .. MaxRows
      BY StayAssumption
    <2> QED BY <2>1 DEF SerialInv, MoneyFits
  <1>9. \A k \in 1 .. MaxRows : serialRow'[k].st \in Serial!Covered =>
            serialRow'[k].ref \in Intent /\ Charged(serialRow'[k].ref)
    BY DEF SerialInv, MoneyFits, Serial!Rows, Serial!RowId, Serial!Covered
  <1> QED BY <1>5, <1>6, <1>7, <1>8, <1>9, RowsMove

\* A decline, and a cancellation, that is through.
LEMMA FinishKeeps ==
    ASSUME SerialInv, Serial!FinishDecline(Slot) \/ Serial!FinishCancel(Slot)
    PROVE  SerialInv'
  <1>1. PICK q \in Serial!Request : q = Asking /\ Fits(q) /\ q.pc = "finish"
    BY SerialTypes DEF SerialInv, Serial!FinishDecline, Serial!FinishCancel, Serial!At, Asking
  <1>2. /\ serialStatus = IF q.kind = "decline" THEN "declined" ELSE "cancelled"
        /\ ~Claimed(Asking)
        /\ q.share \in Serial!Amount /\ q.share \in Nat /\ Total \in Serial!Amount /\ Total \in Nat
    BY <1>1, StayAssumption DEF Fits, Claimed, Serial!Request, Serial!Amount
  <1>3. /\ Serial!Done(Slot)
        /\ UNCHANGED <<serialListing, serialIntent, serialKeys, serialMail, serialGranted, serialUnpaidEnd>>
    BY DEF Serial!FinishDecline, Serial!FinishCancel, Serial!stripeVars
  <1>4. Serial!RowId = 1 .. MaxRows /\ serialRow \in [1 .. MaxRows -> Serial!Row]
    BY SerialTypes DEF SerialInv, Serial!Rows
  <1>5. CASE Serial!FinishDecline(Slot)
    <2>1. q.kind = "decline" /\ serialStatus = "declined"
      BY <1>1, <1>2, <1>5 DEF Serial!FinishDecline, Asking
    <2>2. UNCHANGED serialStatus /\ serialCancelRow' = Total
      BY <1>5, <2>1 DEF Serial!FinishDecline
    <2>3. serialRow' = [k \in 1 .. MaxRows |-> IF serialRow[k].st \in Serial!Covered
                                               THEN [serialRow[k] EXCEPT !.st = "refunded", !.refunded = Total]
                                               ELSE serialRow[k]]
      BY <1>4, <1>5, <2>1 DEF Serial!FinishDecline
    <2>4. ASSUME NEW k \in 1 .. MaxRows
          PROVE  /\ serialRow'[k] \in Serial!Row /\ serialRow'[k].ref = serialRow[k].ref
                 /\ serialRow'[k].st \in {serialRow[k].st, "refunded"}
      <3>1. PICK old \in Serial!Row : old = serialRow[k]
        BY <1>4
      <3>2. serialRow'[k] = old \/ serialRow'[k] = [old EXCEPT !.st = "refunded", !.refunded = Total]
        BY <2>3, <3>1
      <3> HIDE <2>3
      <3> QED BY <1>2, <3>1, <3>2 DEF Serial!Row, Serial!PayStatus
    <2>5. serialRow' \in [1 .. MaxRows -> Serial!Row]
      BY <2>3, <2>4
    <2> QED BY <1>2, <1>3, <2>1, <2>2, <2>4, <2>5, RowsClose
  <1>6. CASE Serial!FinishCancel(Slot)
    <2>1. q.kind = "cancel" /\ serialStatus = "cancelled"
      BY <1>1, <1>2, <1>6 DEF Serial!FinishCancel, Asking
    <2>2. UNCHANGED serialStatus /\ serialCancelRow' = q.share
      BY <1>1, <1>6, <2>1 DEF Serial!FinishCancel, Asking
    <2>3. serialRow' = IF q.share > 0 THEN Serial!Refunded(Serial!Rows(Serial!Covered), "refunded", q.share)
                       ELSE serialRow
      BY <1>1, <1>6 DEF Serial!FinishCancel, Asking
    <2>4. CASE q.share > 0
      <3>1. serialRow' = [k \in 1 .. MaxRows |->
                              IF k \in Serial!Rows(Serial!Covered)
                              THEN [serialRow[k] EXCEPT !.st = "refunded", !.refunded = @ + q.share]
                              ELSE serialRow[k]]
        BY <1>4, <2>3, <2>4 DEF Serial!Refunded
      <3>2. ASSUME NEW k \in 1 .. MaxRows
            PROVE  /\ serialRow'[k] \in Serial!Row /\ serialRow'[k].ref = serialRow[k].ref
                   /\ serialRow'[k].st \in {serialRow[k].st, "refunded"}
        <4>1. PICK old \in Serial!Row : old = serialRow[k] /\ old.refunded \in Nat
          BY <1>4 DEF Serial!Row
        <4>2. PICK n \in Nat : n = old.refunded + q.share
          BY <1>2, <4>1
        <4>3. serialRow'[k] = old \/ serialRow'[k] = [old EXCEPT !.st = "refunded", !.refunded = n]
          BY <3>1, <4>1, <4>2
        <4> HIDE <3>1
        <4> QED BY <4>1, <4>3 DEF Serial!Row, Serial!PayStatus
      <3>3. serialRow' \in [1 .. MaxRows -> Serial!Row]
        BY <3>1, <3>2
      <3> QED BY <1>2, <1>3, <2>1, <2>2, <3>2, <3>3, RowsClose
    <2>5. CASE ~(q.share > 0)
      <3>1. serialRow' = serialRow
        BY <2>3, <2>5
      <3> QED BY <1>2, <1>3, <1>4, <2>1, <2>2, <3>1, RowsClose
    <2> QED BY <2>4, <2>5
  <1> QED BY <1>5, <1>6

\* An acceptance that is written; the request has waited for nobody.
LEMMA DecideKeeps == ASSUME SerialInv, Serial!DecideConfirm(Slot) PROVE SerialInv'
  <1>1. PICK q \in Serial!Request : q = Asking /\ Fits(q) /\ q.pc = "decide"
    BY SerialTypes DEF SerialInv, Serial!DecideConfirm, Serial!At, Asking
  <1>2. q.kind = "confirm" /\ serialStatus = "pending" /\ ~Claimed(Asking) /\ \E i \in Intent : Taken(i)
    BY <1>1 DEF Fits, Claimed
  <1>3. /\ serialStatus' = "confirmed" /\ Serial!Done(Slot)
        /\ UNCHANGED <<serialListing, serialRow, serialIntent, serialKeys, serialMail, serialCancelRow,
                       serialGranted, serialUnpaidEnd>>
    BY <1>2 DEF Serial!DecideConfirm, Serial!stripeVars
  <1>4. serialReq' \in [{Slot} -> Serial!Request] /\ Asking' = Serial!Idle
    BY <1>3, Put, IdleFits DEF SerialInv, Serial!Done
  <1>5. Serial!TypeOK'
    BY <1>3, <1>4 DEF SerialInv, Serial!TypeOK, Serial!Status, Serial!Live
  <1>6. Fits(Asking)' /\ ConfirmedFits'
    BY <1>2, <1>3, <1>4, IdleFitsNext DEF ConfirmedFits, Taken
  <1>7. Open
    BY <1>2 DEF Open, Serial!Live
  <1>8. serialRow'[1].st # "none" /\ (Serial!IsCovered' <=> Serial!IsCovered)
    BY <1>3 DEF SerialInv, MoneyFits, Serial!IsCovered, Serial!Rows
  <1>9. \A k \in 1 .. MaxRows :
            /\ serialRow'[k].st \in Serial!Covered => serialRow'[k].ref \in Intent /\ Charged(serialRow'[k].ref)
            /\ Open => serialRow'[k].st # "refunded"
    BY <1>3 DEF SerialInv, MoneyFits, Intact, Serial!Rows, Serial!RowId
  <1> QED BY <1>3, <1>5, <1>6, <1>7, <1>8, <1>9, RowsMove

\* No administrator acts here, and no request is one of his.
LEMMA NoAdmin ==
    SerialInv => /\ ~Serial!AdminClose(Slot) /\ ~Serial!AdminNote(Slot)
                 /\ ~Serial!AdminGrant(Slot) /\ ~Serial!AdminPay(Slot)
  BY DEF SerialInv, Fits, Asking, Serial!AdminClose, Serial!AdminNote, Serial!AdminGrant, Serial!AdminPay, Serial!At

-------------------------------------------------------------------------------
(* The checkout                                                            *)

\* A checkout begins.
LEMMA CheckoutKeeps == ASSUME SerialInv, Serial!StartCheckout(Slot) PROVE SerialInv'
  <1>1. /\ Serial!Begin(Slot, "checkout", "create", 0)
        /\ UNCHANGED <<serialStatus, serialListing, serialRow, serialIntent, serialKeys, serialMail,
                       serialCancelRow, serialGranted, serialUnpaidEnd>>
    BY DEF Serial!StartCheckout, Serial!stripeVars
  <1>2. 0 \in Serial!Amount
    BY StayAssumption DEF Serial!Amount
  <1>3. PICK x \in Serial!Request : serialReq' = [serialReq EXCEPT ![Slot] = x] /\ x.pc = "create"
    BY <1>1, <1>2, Begun DEF Serial!HandlerNames, Serial!Step
  <1>4. Fits(x) /\ ~Claimed(x)
    BY <1>3 DEF Fits, Claimed
  <1> QED BY <1>1, <1>3, <1>4, RequestMoves

\* An intent is created: nothing was paid with it.
LEMMA CreateKeeps == ASSUME SerialInv, Serial!CreateIntent(Slot) PROVE SerialInv'
  <1>1. PICK q \in Serial!Request : q = Asking /\ q.pc = "create"
    BY SerialTypes DEF SerialInv, Serial!CreateIntent, Serial!At, Asking
  <1>2. PICK i \in Intent :
            /\ serialIntent[i].st = "none"
            /\ serialIntent' = [serialIntent EXCEPT ![i].st = "open"]
            /\ serialReq' = [serialReq EXCEPT ![Slot].pc = "attach", ![Slot].intent = i]
    BY DEF Serial!CreateIntent
  <1>3. UNCHANGED <<serialStatus, serialListing, serialRow, serialKeys, serialMail, serialCancelRow,
                    serialGranted, serialUnpaidEnd>>
    BY DEF Serial!CreateIntent
  <1>4. PICK x : x = [q EXCEPT !.pc = "attach", !.intent = i]
    OBVIOUS
  <1>5. x \in Serial!Request /\ x.pc = "attach" /\ x.intent = i
    BY <1>4 DEF Serial!Request, Serial!Step
  <1>6. serialReq' = [serialReq EXCEPT ![Slot] = x]
    BY <1>1, <1>2, <1>4, SerialTypes DEF Asking, SerialInv
  <1>7. serialReq' \in [{Slot} -> Serial!Request] /\ Asking' = x
    BY <1>5, <1>6, Put DEF SerialInv
  <1>8. serialIntent \in [Intent -> Serial!IntentState]
    BY SerialTypes DEF SerialInv
  <1>9. /\ serialIntent' \in [Intent -> Serial!IntentState] /\ serialIntent'[i].st = "open"
        /\ \A j \in Intent : serialIntent'[j].refunded = serialIntent[j].refunded
        /\ \A j \in Intent : j # i => serialIntent'[j].st = serialIntent[j].st
    BY <1>2, <1>8 DEF Serial!IntentState
  <1>10. Serial!TypeOK'
    BY <1>3, <1>7, <1>9 DEF SerialInv, Serial!TypeOK
  <1>11. Fits(Asking)' /\ ~Claimed(Asking)' /\ ~Claimed(Asking)
    BY <1>1, <1>5, <1>7 DEF Fits, Claimed
  <1>12. \A j \in Intent : (Charged(j) => Charged(j)') /\ (Taken(j)' <=> Taken(j))
    BY <1>2, <1>9 DEF Charged, Taken
  <1>13. ConfirmedFits'
    BY <1>3, <1>11, <1>12 DEF SerialInv, ConfirmedFits
  <1>14. Open' => Open
    BY <1>3, <1>11 DEF Open
  <1>15. (Open => Intact)'
    BY <1>3, <1>9, <1>12, <1>14 DEF SerialInv, Intact, Awaited, Serial!IsCovered, Serial!Rows
  <1>16. \A k \in serialKeys' : k.left = 0 /\ k.ask = 0 => serialIntent'[k.intent].refunded = Total
    BY <1>3, <1>9, SerialTypes DEF SerialInv, MoneyFits, Serial!Key
  <1> QED BY <1>3, <1>9, <1>10, <1>11, <1>12, <1>13, <1>15, <1>16, MoneyMoves

\* What an event leaves of a row.
LEMMA Merged ==
    ASSUME NEW old \in Serial!PayStatus, NEW new \in {"pending", "failed", "authorized", "paid"}
    PROVE  /\ Serial!Merge(old, new) \in Serial!PayStatus
           /\ Serial!Merge(old, new) = "refunded" <=> old = "refunded"
           /\ new \in {"pending", "failed"} => (Serial!Merge(old, new) \in Serial!Covered <=> old \in Serial!Covered)
           /\ new \in Serial!Covered /\ old # "refunded" => Serial!Merge(old, new) \in Serial!Covered
  BY DEF Serial!Merge, Serial!PayStatus, Serial!Covered

\* A payment row that is written, of an intent that paid if it says so: what was
\* recorded stays, and a payment is recorded unless it was sent back.
LEMMA Recorded ==
    ASSUME SerialInv, NEW i \in Intent, NEW st \in {"pending", "failed", "authorized", "paid"},
           st \in Serial!Covered => Charged(i), Serial!RecordStripePayment(i, st)
    PROVE  /\ serialRow' \in [1 .. MaxRows -> Serial!Row] /\ serialRow'[1].st # "none"
           /\ \A k \in 1 .. MaxRows :
                  /\ serialRow'[k].st \in Serial!Covered => serialRow'[k].ref \in Intent /\ Charged(serialRow'[k].ref)
                  /\ Open => serialRow'[k].st # "refunded"
           /\ Serial!IsCovered => Serial!IsCovered'
           /\ Open /\ st \in Serial!Covered => Serial!IsCovered'
  <1> DEFINE known == {k \in Serial!RowId : serialRow[k].st # "none" /\ serialRow[k].ref = i}
  <1>1. serialRow \in [1 .. MaxRows -> Serial!Row] /\ Serial!RowId = 1 .. MaxRows /\ 1 \in 1 .. MaxRows
    BY SerialTypes, StayAssumption DEF SerialInv
  <1>2. /\ \A k \in 1 .. MaxRows : serialRow[k].st \in Serial!Covered =>
               serialRow[k].ref \in Intent /\ Charged(serialRow[k].ref)
        /\ \A k \in 1 .. MaxRows : Open => serialRow[k].st # "refunded"
        /\ serialRow[1].st # "none"
    BY DEF SerialInv, MoneyFits, Intact, Serial!Rows, Serial!RowId
  <1>3. CASE known # {}
    <2>1. serialRow' = [k \in 1 .. MaxRows |-> IF k \in known
                                               THEN [serialRow[k] EXCEPT !.st = Serial!Merge(@, st)]
                                               ELSE serialRow[k]]
      BY <1>1, <1>3 DEF Serial!RecordStripePayment
    <2>2. ASSUME NEW k \in known
          PROVE  /\ k \in 1 .. MaxRows /\ serialRow[k].st \in Serial!PayStatus /\ serialRow[k].ref = i
                 /\ serialRow'[k] = [serialRow[k] EXCEPT !.st = Serial!Merge(serialRow[k].st, st)]
      BY <1>1, <2>1 DEF Serial!Row
    <2>3. ASSUME NEW k \in known
          PROVE  /\ serialRow'[k] \in Serial!Row /\ serialRow'[k].ref = i
                 /\ serialRow'[k].st \in Serial!PayStatus
                 /\ serialRow'[k].st = "refunded" <=> serialRow[k].st = "refunded"
                 /\ st \in {"pending", "failed"} => (serialRow'[k].st \in Serial!Covered <=> serialRow[k].st \in Serial!Covered)
                 /\ st \in Serial!Covered /\ serialRow[k].st # "refunded" => serialRow'[k].st \in Serial!Covered
      <3>1. serialRow[k] \in Serial!Row
        BY <1>1, <2>2
      <3>2. PICK new : new = Serial!Merge(serialRow[k].st, st)
        OBVIOUS
      <3>3. serialRow'[k] = [serialRow[k] EXCEPT !.st = new] /\ new \in Serial!PayStatus
        BY <2>2, <3>2, Merged
      <3>4. serialRow'[k] \in Serial!Row /\ serialRow'[k].st = new /\ serialRow'[k].ref = i
        BY <2>2, <3>1, <3>3 DEF Serial!Row
      <3> QED BY <2>2, <3>2, <3>3, <3>4, Merged
    <2>4. \A k \in 1 .. MaxRows : k \notin known => serialRow'[k] = serialRow[k]
      BY <2>1
    <2> HIDE DEF known
    <2>5. \A k \in 1 .. MaxRows : serialRow'[k] \in Serial!Row
      BY <1>1, <2>3, <2>4
    <2>6. serialRow' \in [1 .. MaxRows -> Serial!Row]
      BY <2>1, <2>5
    <2>7. serialRow'[1].st # "none"
      BY <1>1, <1>2, <2>3, <2>4 DEF Serial!PayStatus
    <2>8. ASSUME NEW k \in 1 .. MaxRows, serialRow[k].st \in Serial!Covered PROVE serialRow'[k].st \in Serial!Covered
      BY <2>3, <2>4, <2>8 DEF Serial!Covered
    <2>9. ASSUME NEW k \in 1 .. MaxRows, serialRow'[k].st \in Serial!Covered
          PROVE  serialRow'[k].ref \in Intent /\ Charged(serialRow'[k].ref)
      <3>1. CASE k \in known /\ st \in {"pending", "failed"}
        BY <1>2, <2>2, <2>3, <2>9, <3>1
      <3>2. CASE k \in known /\ st \in Serial!Covered
        BY <2>3, <3>2
      <3>3. CASE k \notin known
        BY <1>2, <2>4, <2>9, <3>3
      <3> QED BY <3>1, <3>2, <3>3 DEF Serial!Covered
    <2>10. ASSUME NEW k \in 1 .. MaxRows, Open PROVE serialRow'[k].st # "refunded"
      BY <1>2, <2>3, <2>4, <2>10
    <2>11. ASSUME Open, st \in Serial!Covered PROVE Serial!IsCovered'
      <3>1. PICK k \in known : TRUE
        BY <1>3
      <3>2. k \in 1 .. MaxRows /\ serialRow'[k].st \in Serial!Covered
        BY <1>2, <2>2, <2>3, <2>11
      <3> QED BY <1>1, <3>2 DEF Serial!IsCovered, Serial!Rows, Serial!RowId
    <2>12. Serial!IsCovered => Serial!IsCovered'
      BY <2>8 DEF Serial!IsCovered, Serial!Rows, Serial!RowId
    <2> QED BY <2>6, <2>7, <2>9, <2>10, <2>11, <2>12
  <1>4. CASE known = {}
    <2>1. PICK n : n = Serial!Min(Serial!Rows({"none"}))
      OBVIOUS
    <2>2. Serial!Rows({"none"}) \subseteq 1 .. MaxRows /\ Serial!Rows({"none"}) # {}
      BY <1>1, <1>4 DEF Serial!RecordStripePayment, Serial!Rows
    <2>3. Serial!Rows({"none"}) \subseteq Nat
      BY <2>2, StayAssumption
    <2>4. n \in Serial!Rows({"none"})
      BY <2>1, <2>2, <2>3, LeastIn
    <2>5. n \in 1 .. MaxRows /\ serialRow[n].st = "none"
      BY <1>1, <2>4 DEF Serial!Rows
    <2>6. PICK new : new = [Serial!NoRow EXCEPT !.st = st, !.ref = i]
      OBVIOUS
    <2>7. new \in Serial!Row /\ new.st = st /\ new.ref = i
      BY <2>6 DEF Serial!NoRow, Serial!Row, Serial!PayStatus
    <2>8. serialRow' = [serialRow EXCEPT ![n] = new]
      BY <1>4, <2>1, <2>6 DEF Serial!RecordStripePayment
    <2>9. serialRow' \in [1 .. MaxRows -> Serial!Row] /\ serialRow'[n] = new
          /\ \A k \in 1 .. MaxRows : k # n => serialRow'[k] = serialRow[k]
      BY <1>1, <2>5, <2>7, <2>8
    <2>10. n # 1 /\ serialRow'[1].st # "none"
      BY <1>1, <1>2, <2>5, <2>9
    <2>11. ASSUME NEW k \in 1 .. MaxRows
           PROVE  /\ serialRow'[k].st \in Serial!Covered => serialRow'[k].ref \in Intent /\ Charged(serialRow'[k].ref)
                  /\ Open => serialRow'[k].st # "refunded"
                  /\ serialRow[k].st \in Serial!Covered => serialRow'[k].st \in Serial!Covered
      BY <1>2, <2>5, <2>7, <2>9 DEF Serial!Covered
    <2>12. Serial!IsCovered => Serial!IsCovered'
      BY <2>11 DEF Serial!IsCovered, Serial!Rows, Serial!RowId
    <2>13. st \in Serial!Covered => Serial!IsCovered'
      BY <1>1, <2>5, <2>7, <2>9 DEF Serial!IsCovered, Serial!Rows, Serial!RowId
    <2> QED BY <2>9, <2>10, <2>11, <2>12, <2>13
  <1> QED BY <1>3, <1>4

\* A request that ends with the rows it wrote, of a booking whose status and intents stay.
LEMMA RowsWritten ==
    ASSUME SerialInv, Serial!Done(Slot), serialRow' \in [1 .. MaxRows -> Serial!Row],
           serialRow'[1].st # "none",
           \A k \in 1 .. MaxRows :
               /\ serialRow'[k].st \in Serial!Covered => serialRow'[k].ref \in Intent /\ Charged(serialRow'[k].ref)
               /\ Open => serialRow'[k].st # "refunded",
           ~Claimed(Asking), Open /\ Serial!IsCovered => Serial!IsCovered',
           serialMail' \subseteq serialMail,
           \A e \in serialMail : Pays(e) /\ e \notin serialMail' =>
               serialStatus # "cancelled" /\ (Open => Serial!IsCovered'),
           UNCHANGED <<serialStatus, serialListing, serialIntent, serialKeys, serialCancelRow, serialGranted, serialUnpaidEnd>>
    PROVE  SerialInv'
  <1>1. serialReq' \in [{Slot} -> Serial!Request] /\ Asking' = Serial!Idle
    BY Put, IdleFits DEF SerialInv, Serial!Done
  <1>2. Serial!TypeOK'
    BY <1>1 DEF SerialInv, Serial!TypeOK, Serial!RowId
  <1>3. Fits(Asking)' /\ ~Claimed(Asking)'
    BY <1>1, IdleFitsNext, IdleFits DEF Claimed
  <1>4. ConfirmedFits' /\ (Open' <=> Open)
    BY <1>3 DEF SerialInv, ConfirmedFits, Taken, Open
  <1> QED BY <1>2, <1>3, <1>4, RowsMove

\* The intent is attached to the row that waits for it.
LEMMA AttachKeeps == ASSUME SerialInv, Serial!AttachIntent(Slot) PROVE SerialInv'
  <1>1. PICK q \in Serial!Request : q = Asking /\ Fits(q) /\ q.pc = "attach"
    BY SerialTypes DEF SerialInv, Serial!AttachIntent, Serial!At, Asking
  <1>2. PICK i \in Intent : i = q.intent
    BY <1>1 DEF Fits
  <1>3. /\ Serial!Done(Slot) /\ ~Claimed(Asking)
        /\ UNCHANGED <<serialStatus, serialListing, serialIntent, serialKeys, serialMail, serialCancelRow,
                       serialGranted, serialUnpaidEnd>>
    BY <1>1 DEF Serial!AttachIntent, Serial!stripeVars, Claimed
  <1>4. serialRow \in [1 .. MaxRows -> Serial!Row] /\ Serial!RowId = 1 .. MaxRows /\ 1 \in 1 .. MaxRows
    BY SerialTypes, StayAssumption DEF SerialInv
  <1>5. /\ \A k \in 1 .. MaxRows : serialRow[k].st \in Serial!Covered =>
               serialRow[k].ref \in Intent /\ Charged(serialRow[k].ref)
        /\ \A k \in 1 .. MaxRows : Open => serialRow[k].st # "refunded"
        /\ serialRow[1].st # "none"
    BY DEF SerialInv, MoneyFits, Intact, Serial!Rows, Serial!RowId
  <1>6. CASE serialRow' = [k \in Serial!RowId |-> IF k \in Serial!Rows({"pending"})
                                                  THEN [serialRow[k] EXCEPT !.ref = i] ELSE serialRow[k]]
    <2>1. ASSUME NEW k \in 1 .. MaxRows
          PROVE  /\ serialRow'[k] \in Serial!Row /\ serialRow'[k].st = serialRow[k].st
                 /\ serialRow'[k].ref = serialRow[k].ref \/ serialRow'[k].st = "pending"
      <3>1. PICK old \in Serial!Row : old = serialRow[k]
        BY <1>4
      <3>2. serialRow'[k] = old \/ (old.st = "pending" /\ serialRow'[k] = [old EXCEPT !.ref = i])
        BY <1>4, <1>6, <3>1 DEF Serial!Rows
      <3> HIDE <1>6
      <3> QED BY <3>1, <3>2 DEF Serial!Row
    <2>2. serialRow' \in [1 .. MaxRows -> Serial!Row]
      BY <1>4, <1>6, <2>1
    <2>3. serialRow'[1].st # "none"
      BY <1>4, <1>5, <2>1
    <2>4. \A k \in 1 .. MaxRows :
              /\ serialRow'[k].st \in Serial!Covered => serialRow'[k].ref \in Intent /\ Charged(serialRow'[k].ref)
              /\ Open => serialRow'[k].st # "refunded"
      BY <1>5, <2>1 DEF Serial!Covered
    <2>5. Serial!IsCovered' <=> Serial!IsCovered
      BY <2>1 DEF Serial!IsCovered, Serial!Rows, Serial!RowId
    <2> QED BY <1>3, <2>2, <2>3, <2>4, <2>5, RowsWritten
  <1>7. CASE Serial!RecordStripePayment(i, "pending")
    BY <1>3, <1>7, Recorded, RowsWritten DEF Serial!Covered
  <1>8. CASE UNCHANGED serialRow
    <2>1. Serial!IsCovered' <=> Serial!IsCovered
      BY <1>8 DEF Serial!IsCovered, Serial!Rows
    <2> QED BY <1>3, <1>4, <1>5, <1>8, <2>1, RowsWritten
  <1> QED BY <1>1, <1>2, <1>6, <1>7, <1>8 DEF Serial!AttachIntent, Asking

-------------------------------------------------------------------------------
(* The webhook                                                             *)

\* A delivery that is acknowledged may be gone.
LEMMA Acknowledged == ASSUME NEW e, Serial!Acknowledge(e) PROVE serialMail' = serialMail \ {e}
  BY DEF Serial!Acknowledge

\* A delivery is taken up.
LEMMA DeliverKeeps == ASSUME SerialInv, NEW e \in serialMail, Serial!Deliver(Slot, e) PROVE SerialInv'
  <1>1. PICK pc \in {"reverse", "record"} :
            /\ pc = IF e.type \in {"succeeded", "capturable"} /\ serialStatus = "cancelled" THEN "reverse" ELSE "record"
            /\ serialReq' = [serialReq EXCEPT ![Slot] =
                   [Serial!Idle EXCEPT !.pc = pc, !.kind = "webhook", !.event = e]]
    BY DEF Serial!Deliver
  <1>2. PICK x : x = [Serial!Idle EXCEPT !.pc = pc, !.kind = "webhook", !.event = e]
    OBVIOUS
  <1>3. e \in Serial!Event
    BY SerialTypes DEF SerialInv
  <1>4. x \in Serial!Request /\ x.pc = pc /\ x.kind = "webhook" /\ x.event = e
    BY <1>2, <1>3, IdleFits DEF Serial!Request, Serial!Step, Serial!HandlerNames
  <1>5. Fits(x) /\ ~Claimed(x)
    BY <1>1, <1>4 DEF Fits, Claimed, Pays
  <1>6. UNCHANGED <<serialStatus, serialListing, serialRow, serialIntent, serialKeys, serialMail,
                    serialCancelRow, serialGranted, serialUnpaidEnd>>
    BY DEF Serial!Deliver, Serial!stripeVars
  <1> QED BY <1>1, <1>2, <1>4, <1>5, <1>6, RequestMoves

\* A payment that came too late is released or sent back before its delivery is gone.
LEMMA ReverseKeeps == ASSUME SerialInv, Serial!Reverse(Slot) PROVE SerialInv'
  <1>1. PICK q \in Serial!Request : q = Asking /\ Fits(q) /\ q.pc = "reverse"
    BY SerialTypes DEF SerialInv, Serial!Reverse, Serial!At, Asking
  <1>2. PICK e \in Serial!Event : e = q.event /\ e \in serialMail
    BY <1>1, SerialTypes DEF Fits, SerialInv
  <1>3. PICK i \in Intent : i = e.intent
    BY DEF Serial!Event
  <1>4. /\ serialStatus = "cancelled" /\ Serial!Done(Slot) /\ ~Claimed(Asking)
        /\ UNCHANGED <<serialStatus, serialListing, serialRow, serialCancelRow, serialGranted, serialUnpaidEnd>>
    BY <1>1 DEF Fits, Claimed, Serial!Reverse
  <1>5. serialReq' \in [{Slot} -> Serial!Request] /\ Asking' = Serial!Idle
    BY <1>4, Put, IdleFits DEF SerialInv, Serial!Done
  <1>6. Fits(Asking)' /\ ~Claimed(Asking)'
    BY <1>5, IdleFitsNext, IdleFits DEF Claimed
  <1>7. ~Open' /\ ConfirmedFits'
    BY <1>4, <1>6 DEF Open, ConfirmedFits, Serial!Live
  <1>8. /\ serialIntent \in [Intent -> Serial!IntentState] /\ serialMail \subseteq Serial!Event
        /\ serialKeys \subseteq Serial!Key
    BY SerialTypes DEF SerialInv
  <1>9. PICK key : key = [intent |-> i, left |-> 0, ask |-> 0]
    OBVIOUS
  <1>10. /\ key \in Serial!Key /\ key.intent = i /\ key.left = 0 /\ key.ask = 0
         /\ 0 \in Serial!Amount /\ Total \in Serial!Amount
    BY <1>9, StayAssumption DEF Serial!Key, Serial!Amount
  <1>11. \A l \in serialKeys : l.intent \in Intent /\ (l.left = 0 /\ l.ask = 0 => serialIntent[l.intent].refunded = Total)
    BY <1>8 DEF SerialInv, MoneyFits, Serial!Key
  <1>12. CASE serialIntent[i].st \in {"open", "held"}
              /\ serialIntent' = [serialIntent EXCEPT ![i].st = "canceled"]
              /\ Serial!Acknowledge(e) /\ UNCHANGED serialKeys
    <2>1. serialMail' = serialMail \ {e}
      BY <1>12, Acknowledged
    <2> QED BY <1>3, <1>4, <1>5, <1>6, <1>12, <2>1, CancelKeeps
  <1>13. CASE /\ serialIntent' = [serialIntent EXCEPT ![i].refunded = Total]
              /\ serialKeys' = serialKeys \cup {key}
              /\ serialMail' = (serialMail \ {e}) \cup {[type |-> "refunded", intent |-> i, amount |-> Total]}
    <2>1. /\ serialIntent' \in [Intent -> Serial!IntentState] /\ serialIntent'[i].refunded = Total
          /\ \A j \in Intent : serialIntent'[j].st = serialIntent[j].st
          /\ \A j \in Intent : j # i => serialIntent'[j].refunded = serialIntent[j].refunded
      BY <1>8, <1>10, <1>13 DEF Serial!IntentState
    <2>2. PICK f : f = [type |-> "refunded", intent |-> i, amount |-> Total]
      OBVIOUS
    <2>3. f \in Serial!Event /\ ~Pays(f) /\ serialMail' = (serialMail \ {e}) \cup {f}
      BY <1>10, <1>13, <2>2 DEF Serial!Event, Pays
    <2>4. Serial!TypeOK'
      BY <1>4, <1>5, <1>8, <1>10, <1>13, <2>1, <2>3 DEF SerialInv, Serial!TypeOK
    <2>5. \A j \in Intent : (Charged(j) => Charged(j)') /\ (Taken(j)' <=> Taken(j))
      BY <2>1 DEF Charged, Taken
    <2>6. \A j \in Intent : serialIntent[j].refunded = Total => serialIntent'[j].refunded = Total
      BY <2>1
    <2>7. \A l \in serialKeys' : l.left = 0 /\ l.ask = 0 => serialIntent'[l.intent].refunded = Total
      BY <1>10, <1>11, <1>13, <2>1, <2>6
    <2>8. \A g \in serialMail : g \in serialMail' \/ (Taken(g.intent)' => serialIntent'[g.intent].refunded = Total)
      BY <1>3, <2>1, <2>3
    <2>9. \A g \in serialMail' : g \in serialMail \/ (Pays(g) => Charged(g.intent)')
      BY <2>3
    <2> QED BY <1>4, <1>6, <1>7, <2>4, <2>5, <2>6, <2>7, <2>8, <2>9, MoneyMoves
  <1>14. CASE key \in serialKeys /\ Serial!Acknowledge(e) /\ UNCHANGED <<serialIntent, serialKeys>>
    <2>1. serialMail' = serialMail \ {e} /\ serialIntent[i].refunded = Total
      BY <1>10, <1>11, <1>14, Acknowledged
    <2>2. Serial!TypeOK'
      BY <1>4, <1>5, <1>8, <1>14, <2>1 DEF SerialInv, Serial!TypeOK
    <2>3. \A j \in Intent : (Charged(j) => Charged(j)') /\ (Taken(j)' <=> Taken(j))
      BY <1>14 DEF Charged, Taken
    <2>4. \A g \in serialMail : g \in serialMail' \/ (Taken(g.intent)' => serialIntent'[g.intent].refunded = Total)
      BY <1>3, <1>14, <2>1
    <2>5. \A l \in serialKeys' : l.left = 0 /\ l.ask = 0 => serialIntent'[l.intent].refunded = Total
      BY <1>11, <1>14
    <2>6. \A g \in serialMail' : g \in serialMail
      BY <2>1
    <2> QED BY <1>4, <1>6, <1>7, <1>14, <2>2, <2>3, <2>4, <2>5, <2>6, MoneyMoves
  <1>15. CASE UNCHANGED Serial!stripeVars
    BY <1>4, <1>15, RequestEnds DEF Serial!stripeVars
  <1>16. serialReq[Slot].event = e
    BY <1>1, <1>2 DEF Asking
  <1>17. \/ /\ serialIntent[i].st \in {"open", "held"} /\ serialIntent' = [serialIntent EXCEPT ![i].st = "canceled"]
            /\ Serial!Acknowledge(e) /\ UNCHANGED serialKeys
         \/ /\ serialIntent' = [serialIntent EXCEPT ![i].refunded = Total] /\ serialKeys' = serialKeys \cup {key}
            /\ serialMail' = (serialMail \ {e}) \cup {[type |-> "refunded", intent |-> i, amount |-> Total]}
         \/ key \in serialKeys /\ Serial!Acknowledge(e) /\ UNCHANGED <<serialIntent, serialKeys>>
         \/ UNCHANGED Serial!stripeVars
    BY <1>3, <1>9, <1>16 DEF Serial!Reverse
  <1> QED BY <1>12, <1>13, <1>14, <1>15, <1>17

\* What a delivery says is recorded: a payment of a booking on the calendar covers it.
LEMMA RecordKeeps == ASSUME SerialInv, Serial!RecordEvent(Slot) PROVE SerialInv'
  <1>1. PICK q \in Serial!Request : q = Asking /\ Fits(q) /\ q.pc = "record"
    BY SerialTypes DEF SerialInv, Serial!RecordEvent, Serial!At, Asking
  <1>2. PICK e \in Serial!Event : e = q.event /\ e \in serialMail
    BY <1>1, SerialTypes DEF Fits, SerialInv
  <1>3. PICK i \in Intent : i = e.intent
    BY DEF Serial!Event
  <1>4. /\ Pays(e) => serialStatus # "cancelled" /\ Charged(i)
        /\ ~Claimed(Asking) /\ serialReq[Slot].event = e
    BY <1>1, <1>2, <1>3 DEF Fits, Claimed, SerialInv, MoneyFits, Asking
  <1>5. UNCHANGED <<serialStatus, serialListing, serialIntent, serialKeys, serialCancelRow, serialGranted, serialUnpaidEnd>>
    BY DEF Serial!RecordEvent
  <1>6. serialRow \in [1 .. MaxRows -> Serial!Row] /\ Serial!RowId = 1 .. MaxRows /\ 1 \in 1 .. MaxRows
    BY SerialTypes, StayAssumption DEF SerialInv
  <1>7. CASE e.type = "refunded"
    <2>1. ~Open
      BY <1>2, <1>7 DEF SerialInv, Intact
    <2>2. Serial!MarkPaymentRefunded(i, e.amount) /\ Serial!Done(Slot) /\ Serial!Acknowledge(e)
      BY <1>3, <1>4, <1>7 DEF Serial!RecordEvent
    <2>3. e.amount \in Nat
      BY StayAssumption DEF Serial!Event, Serial!Amount
    <2>4. serialRow' = [k \in 1 .. MaxRows |->
                            IF serialRow[k].st # "none" /\ serialRow[k].ref = i
                            THEN [serialRow[k] EXCEPT !.refunded = e.amount,
                                                      !.st = IF e.amount >= Total THEN "refunded" ELSE @]
                            ELSE serialRow[k]]
      BY <1>6, <2>2 DEF Serial!MarkPaymentRefunded
    <2>5. ASSUME NEW k \in 1 .. MaxRows
          PROVE  /\ serialRow'[k] \in Serial!Row /\ serialRow'[k].ref = serialRow[k].ref
                 /\ serialRow'[k].st \in {serialRow[k].st, "refunded"}
      <3>1. PICK old \in Serial!Row : old = serialRow[k]
        BY <1>6
      <3>2. PICK st : st = IF e.amount >= Total THEN "refunded" ELSE old.st
        OBVIOUS
      <3>3. serialRow'[k] = old \/ serialRow'[k] = [old EXCEPT !.refunded = e.amount, !.st = st]
        BY <2>4, <3>1, <3>2
      <3> HIDE <2>4
      <3> QED BY <2>3, <3>1, <3>2, <3>3 DEF Serial!Row, Serial!PayStatus
    <2>6. serialRow' \in [1 .. MaxRows -> Serial!Row]
      BY <2>4, <2>5
    <2>7. serialRow'[1].st # "none"
      BY <1>6, <2>5 DEF SerialInv, MoneyFits
    <2>8. \A k \in 1 .. MaxRows : serialRow'[k].st \in Serial!Covered =>
              serialRow'[k].ref \in Intent /\ Charged(serialRow'[k].ref)
      BY <1>6, <2>5 DEF SerialInv, MoneyFits, Serial!Rows, Serial!Covered
    <2>9. serialMail' = serialMail \ {e} /\ ~Pays(e)
      BY <1>7, <2>2, Acknowledged DEF Pays
    <2> QED BY <1>4, <1>5, <2>1, <2>2, <2>6, <2>7, <2>8, <2>9, RowsWritten
  <1>8. CASE e.type # "refunded"
    <2>1. PICK st \in {"pending", "failed", "authorized", "paid"} : st = Serial!PaymentStatus(e.type)
      BY DEF Serial!PaymentStatus
    <2>2. st \in Serial!Covered <=> Pays(e)
      BY <1>8, <2>1 DEF Serial!PaymentStatus, Serial!Covered, Pays, Serial!Event
    <2>3. Serial!RecordStripePayment(i, st)
      BY <1>3, <1>4, <1>8, <2>1 DEF Serial!RecordEvent
    <2>4. /\ serialRow' \in [1 .. MaxRows -> Serial!Row] /\ serialRow'[1].st # "none"
          /\ \A k \in 1 .. MaxRows :
                 /\ serialRow'[k].st \in Serial!Covered => serialRow'[k].ref \in Intent /\ Charged(serialRow'[k].ref)
                 /\ Open => serialRow'[k].st # "refunded"
          /\ Serial!IsCovered => Serial!IsCovered'
          /\ Open /\ Pays(e) => Serial!IsCovered'
      BY <1>4, <2>2, <2>3, Recorded
    <2>5. CASE e.type # "succeeded"
      <3>1. Serial!Done(Slot) /\ serialMail' = serialMail \ {e}
        BY <1>4, <2>5, Acknowledged DEF Serial!RecordEvent
      <3> QED BY <1>4, <1>5, <2>4, <3>1, RowsWritten
    <2>6. CASE e.type = "succeeded"
      <3>1. Serial!Goto(Slot, "instant") /\ UNCHANGED serialMail
        BY <1>4, <2>6 DEF Serial!RecordEvent
      <3>2. PICK x : x = [q EXCEPT !.pc = "instant"]
        OBVIOUS
      <3>3. x \in Serial!Request /\ x.pc = "instant" /\ x.kind = q.kind /\ x.event = e
        BY <1>2, <3>2 DEF Serial!Request, Serial!Step
      <3>4. serialReq' = [serialReq EXCEPT ![Slot] = x]
        BY <1>1, <3>1, <3>2, SerialTypes DEF Serial!Goto, Asking, SerialInv
      <3>5. serialReq' \in [{Slot} -> Serial!Request] /\ Asking' = x
        BY <3>3, <3>4, Put DEF SerialInv
      <3>6. Serial!TypeOK'
        BY <1>5, <2>4, <3>1, <3>5 DEF SerialInv, Serial!TypeOK, Serial!RowId
      <3>7. ~Claimed(Asking)' /\ Pays(e)
        BY <2>6, <3>3, <3>5 DEF Claimed, Pays
      <3>8. Open' <=> Open
        BY <1>4, <1>5, <3>7 DEF Open
      <3>9. serialStatus \in Serial!Live => Open
        BY DEF Open
      <3>10. Fits(Asking)'
        BY <1>2, <1>4, <1>5, <2>4, <2>6, <3>1, <3>3, <3>5, <3>7, <3>9 DEF Fits, Claimed
      <3>11. ConfirmedFits'
        BY <1>5, <3>7 DEF SerialInv, ConfirmedFits, Taken
      <3> QED BY <1>5, <2>4, <3>1, <3>6, <3>8, <3>10, <3>11, RowsMove
    <2> QED BY <2>5, <2>6
  <1> QED BY <1>7, <1>8

\* A booking that needs no answer is confirmed by its payment.
LEMMA InstantKeeps == ASSUME SerialInv, Serial!ConfirmInstantBook(Slot) PROVE SerialInv'
  <1>1. PICK q \in Serial!Request : q = Asking /\ Fits(q) /\ q.pc = "instant"
    BY SerialTypes DEF SerialInv, Serial!ConfirmInstantBook, Serial!At, Asking
  <1>2. PICK e \in serialMail : e = q.event /\ Pays(e) /\ serialReq[Slot].event = e
    BY <1>1 DEF Fits, Pays, Asking
  <1>3. /\ serialStatus # "cancelled" /\ (serialStatus \in Serial!Live => Serial!IsCovered) /\ ~Claimed(Asking)
        /\ Serial!Done(Slot) /\ serialMail' = serialMail \ {e}
        /\ UNCHANGED <<serialListing, serialRow, serialIntent, serialKeys, serialCancelRow, serialGranted, serialUnpaidEnd>>
    BY <1>1, <1>2, Acknowledged DEF Fits, Claimed, Serial!ConfirmInstantBook
  <1>4. serialStatus' = serialStatus \/ (serialStatus = "pending" /\ serialStatus' = "confirmed")
    BY DEF Serial!ConfirmInstantBook
  <1>5. serialReq' \in [{Slot} -> Serial!Request] /\ Asking' = Serial!Idle
    BY <1>3, Put, IdleFits DEF SerialInv, Serial!Done
  <1>6. Serial!TypeOK'
    BY <1>3, <1>4, <1>5 DEF SerialInv, Serial!TypeOK, Serial!Status, Serial!Live
  <1>7. Fits(Asking)' /\ ~Claimed(Asking)'
    BY <1>5, IdleFitsNext, IdleFits DEF Claimed
  <1>8. (Open' <=> Open) /\ (Open => Serial!IsCovered)
    BY <1>3, <1>4, <1>7 DEF Open, Serial!Live
  <1>9. \A k \in 1 .. MaxRows :
            /\ serialRow[k].st \in Serial!Covered => serialRow[k].ref \in Intent /\ Charged(serialRow[k].ref)
            /\ Open => serialRow[k].st # "refunded"
    BY DEF SerialInv, MoneyFits, Intact, Serial!Rows, Serial!RowId
  <1>10. ConfirmedFits'
    <2>1. CASE serialStatus' = serialStatus
      BY <1>3, <1>7, <2>1 DEF SerialInv, ConfirmedFits, Taken
    <2>2. CASE serialStatus = "pending"
      <3>1. Open /\ Serial!IsCovered /\ Intact
        BY <1>3, <2>2 DEF SerialInv, Open, Serial!Live
      <3>2. PICK k \in 1 .. MaxRows : serialRow[k].st \in Serial!Covered
        BY <3>1 DEF Serial!IsCovered, Serial!Rows, Serial!RowId
      <3>3. Taken(serialRow[k].ref) /\ serialRow[k].ref \in Intent
        BY <1>9, <3>1, <3>2 DEF Intact, Charged, Taken
      <3> QED BY <1>3, <3>3 DEF ConfirmedFits, Taken
    <2> QED BY <1>4, <2>1, <2>2
  <1>11. Serial!IsCovered' <=> Serial!IsCovered
    BY <1>3 DEF Serial!IsCovered, Serial!Rows
  <1>12. serialRow'[1].st # "none" /\ serialMail' \subseteq serialMail
    BY <1>3 DEF SerialInv, MoneyFits
  <1>13. serialStatus' = "cancelled" => serialStatus = "cancelled"
    BY <1>4
  <1> QED BY <1>3, <1>6, <1>7, <1>8, <1>9, <1>10, <1>11, <1>12, <1>13, RowsMove

-------------------------------------------------------------------------------
(* The sweeps and the environment                                          *)

\* An unpaid booking leaves the calendar: what was paid for it is still to be handled.
LEMMA HoldEnds ==
    ASSUME SerialInv, serialStatus = "pending", ~Serial!IsCovered,
           serialStatus' = "cancelled", serialUnpaidEnd' = TRUE, serialRow' = Serial!FailPending,
           serialCancelRow' \in Serial!Amount \cup {None},
           serialReq' \in [{Slot} -> Serial!Request], Fits(Asking)', ~Claimed(Asking)',
           UNCHANGED <<serialListing, serialIntent, serialKeys, serialMail, serialGranted>>
    PROVE  SerialInv'
  <1>1. serialRow \in [1 .. MaxRows -> Serial!Row] /\ Serial!RowId = 1 .. MaxRows /\ 1 \in 1 .. MaxRows
    BY SerialTypes, StayAssumption DEF SerialInv
  <1>2. serialRow' = [k \in 1 .. MaxRows |-> IF serialRow[k].st = "pending"
                                             THEN [serialRow[k] EXCEPT !.st = "failed"] ELSE serialRow[k]]
    BY <1>1 DEF Serial!FailPending
  <1>3. ASSUME NEW k \in 1 .. MaxRows
        PROVE  /\ serialRow'[k] \in Serial!Row /\ serialRow'[k].ref = serialRow[k].ref
               /\ serialRow'[k].st = serialRow[k].st \/ serialRow'[k].st = "failed"
    <2>1. PICK old \in Serial!Row : old = serialRow[k]
      BY <1>1
    <2>2. serialRow'[k] = old \/ serialRow'[k] = [old EXCEPT !.st = "failed"]
      BY <1>2, <2>1
    <2> HIDE <1>2
    <2> QED BY <2>1, <2>2 DEF Serial!Row, Serial!PayStatus
  <1>4. serialRow' \in [1 .. MaxRows -> Serial!Row]
    BY <1>2, <1>3
  <1>5. Serial!TypeOK'
    BY <1>1, <1>4 DEF SerialInv, Serial!TypeOK, Serial!Status
  <1>6. serialRow'[1].st # "none"
    BY <1>1, <1>3 DEF SerialInv, MoneyFits
  <1>7. \A k \in 1 .. MaxRows : serialRow'[k].st \in Serial!Covered =>
            serialRow'[k].ref \in Intent /\ Charged(serialRow'[k].ref)
    BY <1>1, <1>3 DEF SerialInv, MoneyFits, Serial!Rows, Serial!Covered
  <1>8. MoneyFits'
    BY <1>1, <1>6, <1>7 DEF SerialInv, MoneyFits, Charged, Serial!Rows, Serial!RowId
  <1>9. Intact
    BY DEF SerialInv, Open, Serial!Live
  <1>10. LateFits'
    BY <1>9 DEF Intact, LateFits, Taken, Awaited
  <1>11. ~Open' /\ ConfirmedFits'
    BY DEF Open, ConfirmedFits, Serial!Live
  <1> QED BY <1>5, <1>8, <1>10, <1>11 DEF SerialInv

\* Unpaid bookings that expire, or that their guest gives up for another.
LEMMA ExpireKeeps ==
    ASSUME SerialInv, Serial!ExpireUnpaid(Slot) \/ Serial!ReleaseOwnHold(Slot)
    PROVE  SerialInv'
  <1>0. Asking.pc = "drop" /\ ~Serial!IsCovered
    BY DEF SerialInv, Fits, Serial!ExpireUnpaid, Serial!ReleaseOwnHold, Serial!At, Asking
  <1>1. /\ serialStatus = "pending" /\ ~Serial!IsCovered
        /\ serialStatus' = "cancelled" /\ serialUnpaidEnd' = TRUE /\ serialRow' = Serial!FailPending
        /\ UNCHANGED <<serialListing, serialIntent, serialKeys, serialMail, serialGranted>>
    BY <1>0 DEF Serial!ExpireUnpaid, Serial!ReleaseOwnHold, Serial!stripeVars
  <1>2. serialCancelRow' \in Serial!Amount \cup {None}
    BY StayAssumption, SerialTypes DEF SerialInv, Serial!ExpireUnpaid, Serial!ReleaseOwnHold, Serial!Amount
  <1>4. CASE Serial!Done(Slot)
    <2>1. Asking' = Serial!Idle /\ serialReq' \in [{Slot} -> Serial!Request]
      BY <1>4, Put, IdleFits DEF SerialInv, Serial!Done
    <2>2. Fits(Asking)' /\ ~Claimed(Asking)'
      BY <2>1, IdleFitsNext, IdleFits DEF Claimed
    <2> QED BY <1>1, <1>2, <2>1, <2>2, HoldEnds
  <1>5. CASE Serial!ExpireUnpaid(Slot)
    <2> DEFINE open == {k \in Serial!Rows({"pending"}) : serialRow[k].ref # None}
    <2>1. CASE open = {}
      BY <1>4, <1>5, <2>1 DEF Serial!ExpireUnpaid, Serial!Done
    <2>2. CASE open # {}
      <3>1. open \subseteq 1 .. MaxRows
        BY SerialTypes DEF SerialInv, Serial!Rows
      <3>2. PICK k \in 1 .. MaxRows : k = Serial!Max(open) /\ serialRow[k].ref # None
        BY <2>2, <3>1, LastIn
      <3>3. PICK i \in Intent : i = serialRow[k].ref
        BY <3>2, SerialTypes DEF SerialInv, Serial!Row
      <3>4. PICK x : x = [Serial!Idle EXCEPT !.pc = "close", !.kind = "expire", !.intent = i]
        OBVIOUS
      <3>5. x \in Serial!Request /\ x.pc = "close" /\ x.intent = i
        BY <3>4, IdleFits DEF Serial!Request, Serial!Step, Serial!HandlerNames
      <3>6. serialReq' = [serialReq EXCEPT ![Slot] = x]
        BY <1>5, <2>2, <3>2, <3>3, <3>4 DEF Serial!ExpireUnpaid
      <3>7. serialReq' \in [{Slot} -> Serial!Request] /\ Asking' = x
        BY <3>5, <3>6, Put DEF SerialInv
      <3>8. Fits(Asking)' /\ ~Claimed(Asking)'
        BY <1>1, <3>5, <3>7 DEF Fits, Claimed
      <3> QED BY <1>1, <1>2, <3>7, <3>8, HoldEnds
    <2> QED BY <2>1, <2>2
  <1> QED BY <1>4, <1>5 DEF Serial!ReleaseOwnHold

\* A sweep that finds the booking answered.
LEMMA DropKeeps == ASSUME SerialInv, Serial!DropNothing(Slot) PROVE SerialInv'
  BY RequestEnds DEF Serial!DropNothing, Serial!stripeVars

\* The intent of a booking that expired is closed.
LEMMA CloseKeeps == ASSUME SerialInv, Serial!CloseIntent(Slot) PROVE SerialInv'
  <1>1. PICK q \in Serial!Request : q = Asking /\ Fits(q) /\ q.pc = "close"
    BY SerialTypes DEF SerialInv, Serial!CloseIntent, Serial!At, Asking
  <1>2. PICK i \in Intent : i = q.intent /\ serialReq[Slot].intent = i
    BY <1>1 DEF Fits, Asking
  <1>3. /\ serialStatus = "cancelled" /\ Serial!Done(Slot)
        /\ UNCHANGED <<serialStatus, serialListing, serialRow, serialCancelRow, serialGranted, serialUnpaidEnd>>
    BY <1>1 DEF Fits, Serial!CloseIntent
  <1>4. serialReq' \in [{Slot} -> Serial!Request] /\ Asking' = Serial!Idle
    BY <1>3, Put, IdleFits DEF SerialInv, Serial!Done
  <1>5. Fits(Asking)' /\ ~Claimed(Asking)'
    BY <1>4, IdleFitsNext, IdleFits DEF Claimed
  <1>6. Serial!StripeCancel(i) \/ UNCHANGED Serial!stripeVars
    BY <1>2 DEF Serial!CloseIntent
  <1>7. CASE Serial!StripeCancel(i)
    BY <1>3, <1>4, <1>5, <1>7, CancelKeeps DEF Serial!StripeCancel
  <1>8. CASE UNCHANGED Serial!stripeVars
    BY <1>3, <1>8, RequestEnds DEF Serial!stripeVars
  <1> QED BY <1>6, <1>7, <1>8

\* A stay that is over, and its payment that is settled.
LEMMA CompleteKeeps == ASSUME SerialInv, Serial!CompleteStay(Slot) \/ Serial!SettlePayment(Slot) PROVE SerialInv'
  <1>1. serialRow \in [1 .. MaxRows -> Serial!Row] /\ Serial!RowId = 1 .. MaxRows
    BY SerialTypes DEF SerialInv
  <1>2. /\ \A k \in 1 .. MaxRows : serialRow[k].st \in Serial!Covered =>
               serialRow[k].ref \in Intent /\ Charged(serialRow[k].ref)
        /\ \A k \in 1 .. MaxRows : Open => serialRow[k].st # "refunded"
        /\ serialRow[1].st # "none"
    BY <1>1 DEF SerialInv, MoneyFits, Intact, Serial!Rows
  <1>3. CASE Serial!CompleteStay(Slot)
    <2>1. PICK x : x = [Serial!Idle EXCEPT !.pc = "settle", !.kind = "complete"]
      OBVIOUS
    <2>2. x \in Serial!Request /\ x.pc = "settle"
      BY <2>1, IdleFits DEF Serial!Request, Serial!Step, Serial!HandlerNames
    <2>3. /\ serialReq' = [serialReq EXCEPT ![Slot] = x]
          /\ serialStatus = "confirmed" /\ serialStatus' = "completed"
          /\ UNCHANGED <<serialListing, serialRow, serialIntent, serialKeys, serialMail, serialCancelRow,
                         serialGranted, serialUnpaidEnd>>
      BY <1>3, <2>1 DEF Serial!CompleteStay, Serial!stripeVars
    <2>4. serialReq' \in [{Slot} -> Serial!Request] /\ Asking' = x
      BY <2>2, <2>3, Put DEF SerialInv
    <2>5. Serial!TypeOK'
      BY <2>3, <2>4 DEF SerialInv, Serial!TypeOK, Serial!Status, Serial!Live
    <2>6. Fits(Asking)' /\ ~Claimed(Asking)'
      BY <2>2, <2>4 DEF Fits, Claimed
    <2>7. ConfirmedFits' /\ Open
      BY <2>3, <2>6 DEF ConfirmedFits, Open, Serial!Live
    <2>8. Serial!IsCovered' <=> Serial!IsCovered
      BY <2>3 DEF Serial!IsCovered, Serial!Rows
    <2> QED BY <1>2, <2>3, <2>5, <2>6, <2>7, <2>8, RowsMove
  <1>4. CASE Serial!SettlePayment(Slot)
    <2>1. /\ Serial!Done(Slot) /\ ~Claimed(Asking)
          /\ UNCHANGED <<serialStatus, serialListing, serialIntent, serialKeys, serialMail, serialCancelRow,
                         serialGranted, serialUnpaidEnd>>
      BY <1>4 DEF Serial!SettlePayment, Serial!At, Serial!stripeVars, Claimed, Asking
    <2>2. serialRow' = [k \in 1 .. MaxRows |-> IF serialRow[k].st = "authorized"
                                               THEN [serialRow[k] EXCEPT !.st = "paid"] ELSE serialRow[k]]
      BY <1>1, <1>4 DEF Serial!SettlePayment
    <2>3. ASSUME NEW k \in 1 .. MaxRows
          PROVE  /\ serialRow'[k] \in Serial!Row /\ serialRow'[k].ref = serialRow[k].ref
                 /\ \/ serialRow'[k].st = serialRow[k].st
                    \/ serialRow[k].st = "authorized" /\ serialRow'[k].st = "paid"
      <3>1. PICK old \in Serial!Row : old = serialRow[k]
        BY <1>1
      <3>2. serialRow'[k] = old \/ (old.st = "authorized" /\ serialRow'[k] = [old EXCEPT !.st = "paid"])
        BY <2>2, <3>1
      <3> HIDE <2>2
      <3> QED BY <3>1, <3>2 DEF Serial!Row, Serial!PayStatus
    <2>4. serialRow' \in [1 .. MaxRows -> Serial!Row]
      BY <2>2, <2>3
    <2>5. serialRow'[1].st # "none"
      <3>1. 1 \in 1 .. MaxRows
        BY StayAssumption
      <3> HIDE <2>2
      <3> QED BY <1>2, <2>3, <3>1
    <2>6. /\ \A k \in 1 .. MaxRows : serialRow'[k].st \in Serial!Covered <=> serialRow[k].st \in Serial!Covered
          /\ \A k \in 1 .. MaxRows : serialRow[k].st # "refunded" => serialRow'[k].st # "refunded"
      BY <2>3 DEF Serial!Covered
    <2>7. Serial!IsCovered' <=> Serial!IsCovered
      BY <1>1, <2>6 DEF Serial!IsCovered, Serial!Rows, Serial!RowId
    <2>8. \A k \in 1 .. MaxRows :
              /\ serialRow'[k].st \in Serial!Covered => serialRow'[k].ref \in Intent /\ Charged(serialRow'[k].ref)
              /\ Open => serialRow'[k].st # "refunded"
      <3> HIDE <2>2
      <3> QED BY <1>2, <2>3, <2>6
    <2> HIDE <2>2
    <2> QED BY <2>1, <2>4, <2>5, <2>7, <2>8, RowsWritten
  <1> QED BY <1>3, <1>4

\* A request is lost wherever it was; a claim stays then.
LEMMA LoseKeeps == ASSUME SerialInv, Serial!LoseRequest(Slot) PROVE SerialInv'
  BY RequestEnds DEF Serial!LoseRequest, Serial!stripeVars

\* The guest pays, or fails to: Stripe reports either.
LEMMA PayKeeps == ASSUME SerialInv, NEW i \in Intent, Serial!Pay(i) \/ Serial!PayFails(i) PROVE SerialInv'
  <1>1. /\ serialIntent[i].st = "open"
        /\ UNCHANGED <<serialStatus, serialListing, serialRow, serialKeys, serialCancelRow, serialGranted,
                       serialReq, serialUnpaidEnd>>
    BY DEF Serial!Pay, Serial!PayFails
  <1>2. /\ serialIntent \in [Intent -> Serial!IntentState] /\ serialMail \subseteq Serial!Event
        /\ serialKeys \subseteq Serial!Key
    BY SerialTypes DEF SerialInv
  <1>3. PICK e : /\ e \in Serial!Event /\ e.intent = i /\ e.type # "refunded" /\ serialMail' = serialMail \cup {e}
                 /\ \/ UNCHANGED serialIntent /\ ~Pays(e)
                    \/ /\ Pays(e)
                       /\ \E st \in {"held", "succeeded"} : serialIntent' = [serialIntent EXCEPT ![i].st = st]
    <2>1. Total \in Serial!Amount
      BY StayAssumption DEF Serial!Amount
    <2>2. CASE Serial!Pay(i)
      <3>1. PICK e : e = [type |-> IF serialListing.manual THEN "capturable" ELSE "succeeded",
                          intent |-> i, amount |-> Total]
        OBVIOUS
      <3>2. e \in Serial!Event /\ e.intent = i /\ e.type \in {"capturable", "succeeded"}
        BY <2>1, <3>1 DEF Serial!Event
      <3>3. PICK st \in {"held", "succeeded"} : st = IF serialListing.manual THEN "held" ELSE "succeeded"
        OBVIOUS
      <3> QED BY <2>2, <3>1, <3>2, <3>3 DEF Serial!Pay, Pays
    <2>3. CASE Serial!PayFails(i)
      <3>1. PICK e : e = [type |-> "failed", intent |-> i, amount |-> Total]
        OBVIOUS
      <3> QED BY <2>1, <2>3, <3>1 DEF Serial!PayFails, Serial!Event, Pays
    <2> QED BY <2>2, <2>3
  <1>4. /\ serialIntent' \in [Intent -> Serial!IntentState]
        /\ \A j \in Intent : serialIntent'[j].refunded = serialIntent[j].refunded
        /\ \A j \in Intent : j # i => serialIntent'[j].st = serialIntent[j].st
        /\ serialIntent'[i].st \in {"open", "held", "succeeded"}
        /\ serialIntent'[i].st # "open" => Pays(e)
        /\ Pays(e) => serialIntent'[i].st \in {"held", "succeeded"}
    BY <1>1, <1>2, <1>3 DEF Serial!IntentState
  <1>5. Serial!TypeOK'
    BY <1>1, <1>2, <1>3, <1>4 DEF SerialInv, Serial!TypeOK
  <1>6. /\ \A j \in Intent : (Charged(j) => Charged(j)') /\ (Taken(j) => Taken(j)')
        /\ \A j \in Intent : Taken(j)' => Taken(j) \/ (j = i /\ Pays(e))
        /\ Pays(e) => Charged(i)'
    BY <1>1, <1>4 DEF Charged, Taken
  <1>7. Asking' = Asking /\ (Claimed(Asking)' <=> Claimed(Asking)) /\ (Serial!IsCovered' <=> Serial!IsCovered)
    BY <1>1 DEF Asking, Claimed, Serial!IsCovered, Serial!Rows
  <1>8. Fits(Asking)'
    <2>1. PICK q : q = Asking /\ Fits(q) /\ q = Asking'
      BY <1>7 DEF SerialInv
    <2>2. \A f \in serialMail : f \in serialMail'
      BY <1>3
    <2>3. (\E j \in Intent : Taken(j)) => \E j \in Intent : Taken(j)'
      BY <1>6
    <2>4. Fits(q)'
      BY <1>1, <1>7, <2>1, <2>2, <2>3 DEF Fits
    <2> QED BY <2>1, <2>4
  <1>9. ConfirmedFits'
    BY <1>1, <1>6, <1>7 DEF SerialInv, ConfirmedFits
  <1>10. \A j \in Intent : (Awaited(j) => Awaited(j)') /\ (Pays(e) => Awaited(i)')
    BY <1>3 DEF Awaited
  <1>11. Open' <=> Open
    BY <1>1, <1>7 DEF Open
  <1>12. (Open => Intact)'
    <2> SUFFICES ASSUME Intact PROVE Intact'
      BY <1>11 DEF SerialInv
    <2>1. \A j \in Intent : serialIntent'[j].refunded = 0 /\ serialIntent'[j].st # "canceled"
      BY <1>4 DEF Intact
    <2>2. \A f \in serialMail' : f.type # "refunded"
      BY <1>3 DEF Intact
    <2>3. Serial!IsCovered' \/ \A j \in Intent : Taken(j)' => Awaited(j)'
      BY <1>6, <1>7, <1>10 DEF Intact
    <2> QED BY <1>1, <2>1, <2>2, <2>3 DEF Intact
  <1>13. \A j \in Intent : Taken(j)' =>
             \/ Taken(j) /\ (serialIntent[j].refunded = Total => serialIntent'[j].refunded = Total)
             \/ Awaited(j)'
    BY <1>4, <1>6, <1>10
  <1>14. \A f \in serialMail' : f \in serialMail \/ (Pays(f) => Charged(f.intent)')
    BY <1>3, <1>6
  <1>15. \A k \in serialKeys' : k.left = 0 /\ k.ask = 0 => serialIntent'[k.intent].refunded = Total
    BY <1>1, <1>2, <1>4 DEF SerialInv, MoneyFits, Serial!Key
  <1>16. \A f \in serialMail : f \in serialMail'
    BY <1>3
  <1> QED BY <1>1, <1>5, <1>6, <1>8, <1>9, <1>12, <1>13, <1>14, <1>15, <1>16, MoneyMoves

\* Somebody takes the nights of a booking that is off the calendar.
LEMMA RebookKeeps == ASSUME SerialInv, Serial!Rebook PROVE SerialInv'
  <1>1. UNCHANGED <<serialStatus, serialRow, serialIntent, serialKeys, serialMail, serialCancelRow,
                    serialGranted, serialReq, serialUnpaidEnd>>
    BY DEF Serial!Rebook, Serial!stripeVars
  <1>2. serialListing' \in [manual : BOOLEAN, rebooked : BOOLEAN]
    BY SerialTypes DEF SerialInv, Serial!Rebook
  <1>3. Serial!TypeOK'
    BY <1>1, <1>2 DEF SerialInv, Serial!TypeOK
  <1>4. Asking' = Asking /\ (Fits(Asking)' <=> Fits(Asking)) /\ (Open' <=> Open)
    BY <1>1 DEF Asking, Fits, Claimed, Open, Taken, Serial!IsCovered, Serial!Rows
  <1>5. (MoneyFits' <=> MoneyFits) /\ (Intact' <=> Intact)
    BY <1>1 DEF MoneyFits, Intact, Taken, Charged, Awaited, Serial!IsCovered, Serial!Rows
  <1>6. (ConfirmedFits' <=> ConfirmedFits) /\ (LateFits' <=> LateFits)
    BY <1>1 DEF ConfirmedFits, LateFits, Claimed, Asking, Taken, Awaited
  <1> QED BY <1>3, <1>4, <1>5, <1>6 DEF SerialInv

-------------------------------------------------------------------------------

\* The booking starts with a row that waits for its payment.
LEMMA SerialStarts == Serial!Init => SerialInv
  <1> SUFFICES ASSUME Serial!Init PROVE SerialInv
    OBVIOUS
  <1>1. Serial!RowId = 1 .. MaxRows /\ 1 \in 1 .. MaxRows /\ 0 \in Serial!Amount /\ Serial!Amount \subseteq Nat
    BY StayAssumption DEF Serial!RowId, Serial!Amount
  <1>2. Asking = Serial!Idle /\ serialReq \in [{Slot} -> Serial!Request]
    BY IdleFits DEF Serial!Init, Asking
  <1>3. PICK first : first = [Serial!NoRow EXCEPT !.st = "pending"]
    OBVIOUS
  <1>4. /\ Serial!NoRow \in Serial!Row /\ Serial!NoRow.st = "none"
        /\ first \in Serial!Row /\ first.st = "pending"
    BY <1>3 DEF Serial!NoRow, Serial!Row, Serial!PayStatus
  <1>5. serialRow = [k \in 1 .. MaxRows |-> IF k = 1 THEN first ELSE Serial!NoRow]
    BY <1>1, <1>3 DEF Serial!Init
  <1>6. serialRow \in [1 .. MaxRows -> Serial!Row] /\ serialRow[1].st = "pending"
        /\ \A k \in 1 .. MaxRows : serialRow[k].st \in {"none", "pending"}
    BY <1>1, <1>4, <1>5
  <1>7. /\ serialIntent \in [Intent -> Serial!IntentState]
        /\ \A i \in Intent : serialIntent[i].st = "none" /\ serialIntent[i].refunded = 0
    BY <1>1 DEF Serial!Init, Serial!IntentState
  <1>8. /\ serialStatus = "pending" /\ serialUnpaidEnd = FALSE /\ serialKeys = {} /\ serialMail = {}
        /\ serialCancelRow = None /\ serialGranted = 0
        /\ serialListing \in [manual : BOOLEAN, rebooked : BOOLEAN]
    BY DEF Serial!Init
  <1>9. Serial!TypeOK
    BY <1>1, <1>2, <1>6, <1>7, <1>8 DEF Serial!TypeOK, Serial!Status, Serial!Live
  <1>10. Fits(Asking) /\ ~Claimed(Asking)
    BY <1>2, IdleFits
  <1>11. MoneyFits
    BY <1>1, <1>6, <1>8 DEF MoneyFits, Serial!Rows, Serial!Covered
  <1>12. Intact
    BY <1>6, <1>7, <1>8 DEF Intact, Taken
  <1>13. ConfirmedFits /\ LateFits
    BY <1>8, <1>10 DEF ConfirmedFits, LateFits
  <1> QED BY <1>9, <1>10, <1>11, <1>12, <1>13 DEF SerialInv

\* Every step keeps the money where the status says.
LEMMA SerialKeeps == ASSUME SerialInv, Serial!Next PROVE SerialInv'
  <1>1. ASSUME Serial!RefundStep(Slot) PROVE SerialInv'
    BY <1>1, ClaimKeeps, LookKeeps, StripeCallKeeps, UnclaimKeeps, FinishKeeps DEF Serial!RefundStep
  <1>2. ASSUME Serial!DecideStep(Slot) PROVE SerialInv'
    BY <1>2, DecideKeeps, NoAdmin DEF Serial!DecideStep
  <1>3. ASSUME Serial!CheckoutStep(Slot) PROVE SerialInv'
    BY <1>3, CheckoutKeeps, CreateKeeps, AttachKeeps DEF Serial!CheckoutStep
  <1>4. ASSUME Serial!WebhookStep(Slot) PROVE SerialInv'
    BY <1>4, DeliverKeeps, ReverseKeeps, RecordKeeps, InstantKeeps DEF Serial!WebhookStep
  <1>5. ASSUME Serial!SweepStep(Slot) PROVE SerialInv'
    BY <1>5, ExpireKeeps, DropKeeps, CloseKeeps, CompleteKeeps DEF Serial!SweepStep
  <1> QED BY <1>1, <1>2, <1>3, <1>4, <1>5, StartKeeps, LoseKeeps, PayKeeps, RebookKeeps DEF Serial!Next

\* A step of the part, or none.
LEMMA SerialStep == ASSUME SerialInv, [Serial!Next]_serialVars PROVE SerialInv'
  <1>1. CASE UNCHANGED serialVars
    <2>1. /\ UNCHANGED <<serialStatus, serialListing, serialRow, serialIntent, serialKeys, serialMail,
                         serialCancelRow, serialGranted, serialUnpaidEnd>>
          /\ UNCHANGED serialReq
      BY <1>1 DEF serialVars
    <2>2. serialReq' = [serialReq EXCEPT ![Slot] = Asking] /\ Asking \in Serial!Request
      BY <2>1, SerialTypes DEF SerialInv, Asking
    <2> QED BY <2>1, <2>2, RequestMoves DEF SerialInv
  <1> QED BY <1>1, SerialKeeps

\* What the invariant says of the money.
LEMMA SerialHolds ==
    SerialInv => Serial!LatePaymentReversed /\ Serial!ConfirmedStaysPaid /\ Serial!FailedCloseKeepsMoney
  <1> SUFFICES ASSUME SerialInv
               PROVE  Serial!LatePaymentReversed /\ Serial!ConfirmedStaysPaid /\ Serial!FailedCloseKeepsMoney
    OBVIOUS
  <1>1. Serial!LatePaymentReversed
    BY DEF SerialInv, LateFits, Taken, Awaited, Serial!LatePaymentReversed, Serial!Quiet, Serial!Returned
  <1>2. serialStatus \in {"pending", "confirmed"} => Intact
    BY DEF SerialInv, Open, Serial!Live
  <1>3. Serial!ConfirmedStaysPaid
    BY <1>2 DEF SerialInv, ConfirmedFits, Intact, Taken, Serial!ConfirmedStaysPaid
  <1>4. Serial!FailedCloseKeepsMoney
    BY <1>2 DEF Intact, Serial!FailedCloseKeepsMoney
  <1> QED BY <1>1, <1>3, <1>4

-------------------------------------------------------------------------------
(* What the register claims, of a booking with one intent                  *)

\* That much of what intent i took is with the guest.
SentBack(i, n) ==
    \/ serialIntent[i].st = "canceled" /\ n <= Total
    \/ serialIntent[i].st = "succeeded" /\ n <= serialIntent[i].refunded

\* No row claims more than went back.
RowsHonest ==
    \A k \in 1 .. MaxRows :
        \/ serialRow[k].refunded = 0
        \/ serialRow[k].ref \in Intent /\ SentBack(serialRow[k].ref, serialRow[k].refunded)

\* Nor does an event.
MailHonest ==
    \A e \in serialMail : e.type = "refunded" =>
        serialIntent[e.intent].st = "succeeded" /\ e.amount <= serialIntent[e.intent].refunded

\* Nor will a request in state q: it asks for what it wants to write, and finds the
\* rows as they were.
AskHonest(q) ==
    /\ q.pc = "attach" => serialIntent[q.intent].st # "none"
    /\ q.kind = "decline" /\ q.pc \in {"claim", "look", "stripe", "finish"} => q.share = Total
    /\ q.pc = "stripe" /\ q.kind # "confirm" => q.call = "cancel" \/ q.ask = q.share
    /\ q.pc = "finish" /\ q.share > 0 =>
           \A k \in Serial!Rows(Serial!Covered) :
               serialRow[k].refunded = 0 /\ SentBack(serialRow[k].ref, q.share)

HonestInv == RowsHonest /\ MailHonest /\ AskHonest(Asking)

\* What intent i has sent back it has sent back in the next state.
Keeps(i) ==
    /\ serialIntent[i].st = "canceled" => serialIntent'[i].st = "canceled"
    /\ serialIntent[i].st = "succeeded" =>
           serialIntent'[i].st = "succeeded" /\ serialIntent[i].refunded <= serialIntent'[i].refunded

\* The numbers of rows, intents and events.
LEMMA Numbers ==
    ASSUME Serial!TypeOK
    PROVE  /\ Total \in Nat /\ Total > 0 /\ Serial!Amount \subseteq Nat /\ \A n \in Serial!Amount : n <= Total
           /\ \A k \in 1 .. MaxRows : serialRow[k].refunded \in Nat /\ serialRow[k].ref \in Intent \cup {None}
           /\ \A i \in Intent : serialIntent[i].refunded \in Nat /\ serialIntent[i].refunded <= Total
           /\ \A e \in serialMail : e.intent \in Intent /\ e.amount \in Nat
           /\ Asking.share \in Nat /\ Asking.ask \in Nat /\ Asking.left \in Nat
           /\ Asking.share <= Total
           /\ None \notin Intent
  <1>1. Total \in Nat /\ Total > 0 /\ Serial!Amount = 0 .. Total /\ None \notin Intent
    BY StayAssumption DEF Serial!Amount
  <1>2. \A k \in 1 .. MaxRows : serialRow[k] \in Serial!Row
    BY SerialTypes
  <1>3. \A i \in Intent : serialIntent[i] \in Serial!IntentState
    BY SerialTypes
  <1>4. \A e \in serialMail : e \in Serial!Event
    BY SerialTypes
  <1>5. Asking \in Serial!Request
    BY SerialTypes
  <1>6. Asking.share \in Serial!Amount /\ Asking.ask \in Serial!Amount /\ Asking.left \in Serial!Amount
    BY <1>5 DEF Serial!Request
  <1>7. /\ Asking.share \in Nat /\ Asking.ask \in Nat /\ Asking.left \in Nat
        /\ Asking.share <= Total /\ Serial!Amount \subseteq Nat /\ \A n \in Serial!Amount : n <= Total
    BY <1>1, <1>6
  <1>8. \A k \in 1 .. MaxRows : serialRow[k].refunded \in Nat /\ serialRow[k].ref \in Intent \cup {None}
    BY <1>2 DEF Serial!Row
  <1>9. \A i \in Intent : serialIntent[i].refunded \in Nat /\ serialIntent[i].refunded <= Total
    BY <1>1, <1>3 DEF Serial!IntentState
  <1>10. \A e \in serialMail : e.intent \in Intent /\ e.amount \in Nat
    BY <1>1, <1>4 DEF Serial!Event
  <1> QED BY <1>1, <1>7, <1>8, <1>9, <1>10

\* The same in the next state.
LEMMA NumbersNext ==
    ASSUME Serial!TypeOK'
    PROVE  /\ \A k \in 1 .. MaxRows : serialRow'[k].refunded \in Nat /\ serialRow'[k].ref \in Intent \cup {None}
           /\ \A i \in Intent : serialIntent'[i].refunded \in Nat /\ serialIntent'[i].refunded <= Total
           /\ \A e \in serialMail' : e.intent \in Intent /\ e.amount \in Nat
  <1>1. Total \in Nat /\ Serial!Amount = 0 .. Total
    BY StayAssumption DEF Serial!Amount
  <1>2. \A k \in 1 .. MaxRows : serialRow'[k] \in Serial!Row
    BY DEF Serial!TypeOK, Serial!RowId
  <1>3. \A i \in Intent : serialIntent'[i] \in Serial!IntentState
    BY DEF Serial!TypeOK
  <1>4. \A e \in serialMail' : e \in Serial!Event
    BY DEF Serial!TypeOK
  <1> QED BY <1>1, <1>2, <1>3, <1>4 DEF Serial!Row, Serial!IntentState, Serial!Event

\* Intents that keep what they sent back, and rows and events that claim no more.
LEMMA HonestMoves ==
    ASSUME Serial!TypeOK, Serial!TypeOK', HonestInv, \A i \in Intent : Keeps(i),
           \A k \in 1 .. MaxRows :
               \/ serialRow'[k].refunded = serialRow[k].refunded /\ serialRow'[k].ref = serialRow[k].ref
               \/ serialRow'[k].refunded = 0
               \/ serialRow'[k].ref \in Intent /\ SentBack(serialRow[k].ref, serialRow[k].refunded)',
           \A e \in serialMail' :
               \/ e \in serialMail \/ e.type # "refunded"
               \/ serialIntent'[e.intent].st = "succeeded" /\ e.amount <= serialIntent'[e.intent].refunded,
           AskHonest(Asking)'
    PROVE  HonestInv'
  <1>1. RowsHonest'
    <2> SUFFICES ASSUME NEW k \in 1 .. MaxRows
                 PROVE  \/ serialRow'[k].refunded = 0
                        \/ serialRow'[k].ref \in Intent /\ SentBack(serialRow[k].ref, serialRow[k].refunded)'
      BY DEF RowsHonest
    <2>1. CASE serialRow'[k].refunded = serialRow[k].refunded /\ serialRow'[k].ref = serialRow[k].ref
      <3>1. CASE serialRow[k].refunded = 0
        BY <2>1, <3>1
      <3>2. CASE serialRow[k].ref \in Intent /\ SentBack(serialRow[k].ref, serialRow[k].refunded)
        <4>1. PICK i \in Intent : i = serialRow[k].ref
          BY <3>2
        <4>2. Keeps(i) /\ serialIntent[i].refunded \in Nat /\ serialIntent'[i].refunded \in Nat
              /\ serialRow[k].refunded \in Nat
          BY Numbers, NumbersNext
        <4> QED BY <2>1, <3>2, <4>1, <4>2 DEF SentBack, Keeps
      <3> QED BY <3>1, <3>2 DEF HonestInv, RowsHonest
    <2> QED BY <2>1
  <1>2. MailHonest'
    <2> SUFFICES ASSUME NEW e \in serialMail', e.type = "refunded"
                 PROVE  serialIntent'[e.intent].st = "succeeded" /\ e.amount <= serialIntent'[e.intent].refunded
      BY DEF MailHonest
    <2>1. CASE e \in serialMail
      <3>1. PICK i \in Intent : i = e.intent
        BY Numbers, <2>1
      <3>2. Keeps(i) /\ serialIntent[i].refunded \in Nat /\ serialIntent'[i].refunded \in Nat /\ e.amount \in Nat
        BY Numbers, NumbersNext
      <3> QED BY <2>1, <3>1, <3>2 DEF HonestInv, MailHonest, Keeps
    <2> QED BY <2>1
  <1> QED BY <1>1, <1>2 DEF HonestInv

\* Intents that stay keep what they sent back.
LEMMA StayKeeps == ASSUME Serial!TypeOK, UNCHANGED serialIntent PROVE \A i \in Intent : Keeps(i)
  BY Numbers DEF Keeps

\* A request that writes no refund.
LEMMA HonestRests ==
    ASSUME Serial!TypeOK, Serial!TypeOK', HonestInv, UNCHANGED serialIntent, serialMail' \subseteq serialMail,
           \A k \in 1 .. MaxRows :
               \/ serialRow'[k].refunded = serialRow[k].refunded /\ serialRow'[k].ref = serialRow[k].ref
               \/ serialRow'[k].refunded = 0,
           AskHonest(Asking)'
    PROVE  HonestInv'
  BY StayKeeps, HonestMoves

\* A request that rests claims nothing.
LEMMA IdleHonest == AskHonest(Serial!Idle)'
  BY DEF Serial!Idle, AskHonest

\* A request that ends and writes nothing.
LEMMA HonestEnds ==
    ASSUME Serial!TypeOK, Serial!TypeOK', HonestInv, Serial!Done(Slot), serialMail' \subseteq serialMail,
           UNCHANGED <<serialIntent, serialRow>>
    PROVE  HonestInv'
  <1>1. Asking' = Serial!Idle
    BY Put, IdleFits DEF Serial!Done
  <1>2. AskHonest(Asking)'
    BY <1>1, IdleHonest
  <1> QED BY <1>2, HonestRests

\* A request that begins has what it began with.
LEMMA BegunAs ==
    ASSUME Serial!TypeOK, NEW kind, NEW pc, NEW share, Serial!Begin(Slot, kind, pc, share)
    PROVE  Asking'.pc = pc /\ Asking'.kind = kind /\ Asking'.share = share
  <1>1. PICK x : x = [Serial!Idle EXCEPT !.pc = pc, !.kind = kind, !.seen = serialStatus, !.share = share]
    OBVIOUS
  <1>2. Asking' = x
    BY <1>1, SerialTypes DEF Serial!Begin, Asking
  <1> QED BY <1>1, <1>2 DEF Serial!Idle

\* The handlers start: a decline wants everything back.
LEMMA StartHonest ==
    ASSUME SerialInv, SerialInv', HonestInv, Serial!Start(Slot)
    PROVE  HonestInv'
  <1>1. UNCHANGED <<serialRow, serialIntent, serialMail>>
    BY DEF Serial!Start, Serial!stripeVars
  <1>2. \/ Asking'.pc = "look" /\ Asking'.kind = "confirm"
        \/ Asking'.pc = "claim" /\ Asking'.kind = "decline" /\ Asking'.share = Total
        \/ Asking'.pc = "claim" /\ Asking'.kind = "cancel"
        \/ Asking'.pc = "drop" /\ Asking'.kind \in {"expire", "releaseOwn"}
    <2>1. CASE Serial!StartConfirm(Slot)
      <3>1. Serial!Begin(Slot, "confirm", "look", 0)
        BY <2>1 DEF Serial!StartConfirm
      <3> QED BY <3>1, BegunAs DEF SerialInv
    <2>2. CASE Serial!StartDecline(Slot)
      <3>1. Serial!Begin(Slot, "decline", "claim", Total)
        BY <2>2 DEF Serial!StartDecline
      <3> QED BY <3>1, BegunAs DEF SerialInv
    <2>3. ASSUME NEW share \in Serial!Amount, Serial!StartCancel(Slot, share)
          PROVE  Asking'.pc = "claim" /\ Asking'.kind = "cancel"
      <3>1. PICK sends : Serial!Begin(Slot, "cancel", "claim", sends)
        BY <2>3 DEF Serial!StartCancel
      <3> QED BY <3>1, BegunAs DEF SerialInv
    <2>4. ASSUME NEW share \in Serial!Amount
          PROVE  ~Serial!StartAdminCancel(Slot, share) /\ ~Serial!StartAdminRefund(Slot, share)
      BY DEF Serial!StartAdminCancel, Serial!StartAdminRefund, Serial!Begin, Handled
    <2>5. ASSUME NEW kind \in {"expire", "releaseOwn"}, Serial!FindUnpaid(Slot, kind)
          PROVE  Asking'.pc = "drop" /\ Asking'.kind = kind
      <3>1. Serial!Begin(Slot, kind, "drop", 0)
        BY <2>5 DEF Serial!FindUnpaid
      <3> QED BY <3>1, BegunAs DEF SerialInv
    <2> QED BY <2>1, <2>2, <2>3, <2>4, <2>5 DEF Serial!Start
  <1>3. AskHonest(Asking)'
    BY <1>2 DEF AskHonest
  <1> QED BY <1>1, <1>3, HonestRests DEF SerialInv

\* A claim takes the wish over.
LEMMA ClaimHonest ==
    ASSUME SerialInv, SerialInv', HonestInv, Serial!Claim(Slot)
    PROVE  HonestInv'
  <1>1. UNCHANGED <<serialRow, serialIntent, serialMail>> /\ Asking.pc = "claim"
    BY DEF Serial!Claim, Serial!stripeVars, Serial!At, Asking
  <1>2. CASE Serial!Done(Slot)
    BY <1>1, <1>2, HonestEnds DEF SerialInv
  <1>3. CASE Serial!Goto(Slot, "look")
    <2>1. PICK q \in Serial!Request : q = Asking
      BY SerialTypes DEF SerialInv
    <2>2. PICK x : x = [q EXCEPT !.pc = "look"]
      OBVIOUS
    <2>3. Asking' = x
      BY <1>3, <2>1, <2>2, SerialTypes DEF Serial!Goto, Asking, SerialInv
    <2>4. x.pc = "look" /\ x.kind = q.kind /\ x.share = q.share
      BY <2>1, <2>2 DEF Serial!Request
    <2>5. AskHonest(Asking)'
      BY <1>1, <2>1, <2>3, <2>4 DEF HonestInv, AskHonest
    <2> QED BY <1>1, <2>5, HonestRests DEF SerialInv
  <1> QED BY <1>2, <1>3 DEF Serial!Claim

\* While the booking is on the calendar the register claims nothing.
LEMMA OpenHonest ==
    ASSUME SerialInv, HonestInv, Open
    PROVE  /\ \A k \in 1 .. MaxRows : serialRow[k].refunded = 0
           /\ \A i \in Intent : serialIntent[i].refunded = 0 /\ serialIntent[i].st # "canceled"
  <1>1. \A i \in Intent : serialIntent[i].refunded = 0 /\ serialIntent[i].st # "canceled"
    BY DEF SerialInv, Intact
  <1>2. ASSUME NEW k \in 1 .. MaxRows PROVE serialRow[k].refunded = 0
    <2>1. serialRow[k].refunded \in Nat
      BY Numbers DEF SerialInv
    <2> QED BY <1>1, <2>1 DEF HonestInv, RowsHonest, SentBack
  <1> QED BY <1>1, <1>2

\* The intent of the payment that covers the stay was paid.
LEMMA LiveCharged ==
    ASSUME SerialInv, Serial!IsCovered
    PROVE  Serial!LiveIntent \in Intent /\ Charged(Serial!LiveIntent)
  <1>1. Serial!Rows(Serial!Covered) \subseteq 1 .. MaxRows /\ Serial!Rows(Serial!Covered) # {}
    BY DEF Serial!IsCovered, Serial!Rows, Serial!RowId
  <1>2. Serial!Max(Serial!Rows(Serial!Covered)) \in Serial!Rows(Serial!Covered)
    BY <1>1, LastIn
  <1> QED BY <1>2 DEF Serial!LiveIntent, SerialInv, MoneyFits

\* The request looks at the intent: it asks for what it wants, or there is nothing to
\* send back.
LEMMA LookHonest ==
    ASSUME SerialInv, SerialInv', HonestInv, Serial!Look(Slot)
    PROVE  HonestInv'
  <1> DEFINE i == Serial!LiveIntent
             call == Serial!Call(Slot, i)
  <1>1. PICK q \in Serial!Request : q = Asking /\ Fits(q)
    BY SerialTypes DEF SerialInv
  <1>2. /\ q.pc = "look" /\ q.kind \in {"confirm", "decline", "cancel"}
        /\ UNCHANGED <<serialRow, serialIntent, serialMail>>
    BY <1>1 DEF Fits, Serial!Look, Serial!At, Serial!stripeVars, Asking
  <1>3. q.kind = "decline" => q.share = Total
    BY <1>1, <1>2 DEF HonestInv, AskHonest
  <1>4. /\ q.share \in Nat /\ q.share <= Total /\ Total \in Nat /\ Total > 0
    BY <1>1, Numbers DEF SerialInv
  <1>5. q.kind # "confirm" => Open
    BY <1>1, <1>2 DEF Open, Claimed
  <1>6. CASE call = "none"
    <2>1. PICK pc \in {"finish", "decide"} : pc = Serial!AfterStripe(q.kind)
      BY <1>2 DEF Serial!AfterStripe
    <2>2. pc = "finish" <=> q.kind \in {"decline", "cancel"}
      BY <1>2, <2>1 DEF Serial!AfterStripe
    <2>3. PICK x : x = [q EXCEPT !.pc = pc]
      OBVIOUS
    <2>4. x.pc = pc /\ x.kind = q.kind /\ x.share = q.share
      BY <2>3 DEF Serial!Request
    <2>5. Asking' = x
      BY <1>1, <1>6, <2>1, <2>3, SerialTypes DEF Serial!Look, Asking, SerialInv
    <2>6. pc = "finish" /\ q.share > 0 => Serial!Rows(Serial!Covered) = {}
      <3> SUFFICES ASSUME q.kind # "confirm", q.share > 0, Serial!IsCovered PROVE FALSE
        BY <2>2 DEF Serial!IsCovered
      <3>1. i \in Intent /\ Charged(i)
        BY LiveCharged
      <3>2. serialIntent[i].refunded = 0 /\ serialIntent[i].st # "canceled"
        BY <1>5, <3>1, OpenHonest
      <3>3. serialIntent[i].st \in {"held", "succeeded"}
        BY <3>1, <3>2 DEF Charged
      <3>4. i # None
        BY <3>1, Numbers DEF SerialInv
      <3>5. serialIntent[i].st = "succeeded" => Serial!Left(i) > 0
        BY <1>4, <3>2 DEF Serial!Left
      <3> HIDE DEF i
      <3> QED BY <1>1, <1>6, <3>3, <3>4, <3>5 DEF Serial!Call, Asking
    <2>7. pc = "finish" /\ q.share > 0 => Serial!Rows(Serial!Covered)' = {}
      BY <1>2, <2>6 DEF Serial!Rows
    <2>8. AskHonest(Asking)'
      BY <1>2, <1>3, <2>1, <2>4, <2>5, <2>7 DEF AskHonest
    <2> QED BY <1>2, <2>8, HonestRests DEF SerialInv
  <1>7. CASE call # "none"
    <2>1. i \in Intent
      BY <1>7, LiveIntentIs DEF Serial!Call
    <2>2. call \in {"capture", "cancel", "refund"} /\ (call = "capture" <=> q.kind = "confirm")
          /\ (call = "refund" => Serial!Left(i) > 0)
      BY <1>1, <1>7 DEF Serial!Call, Asking
    <2>3. PICK ask : ask = IF call = "refund" THEN Serial!Min({q.share, Serial!Left(i)}) ELSE 0
      OBVIOUS
    <2>4. PICK left : left = Serial!Left(i)
      OBVIOUS
    <2>5. call = "refund" /\ q.kind # "confirm" => ask = q.share
      <3> SUFFICES ASSUME call = "refund", q.kind # "confirm" PROVE ask = q.share
        OBVIOUS
      <3>1. serialIntent[i].refunded = 0
        BY <1>5, <2>1, OpenHonest
      <3>2. Serial!Left(i) = Total
        BY <1>4, <2>2, <3>1 DEF Serial!Left
      <3>3. Serial!Min({q.share, Total}) \in {q.share, Total} /\ Serial!Min({q.share, Total}) <= q.share
        BY <1>4, LesserIn
      <3>4. Serial!Min({q.share, Total}) = q.share
        BY <1>4, <3>3
      <3> QED BY <2>3, <3>2, <3>4
    <2> HIDE DEF call
    <2>6. PICK x : x = [q EXCEPT !.pc = "stripe", !.call = call, !.intent = i, !.left = left, !.ask = ask]
      OBVIOUS
    <2>7. x.pc = "stripe" /\ x.kind = q.kind /\ x.share = q.share /\ x.call = call /\ x.ask = ask
      BY <2>6 DEF Serial!Request
    <2>8. Asking' = x
      BY <1>1, <1>7, <2>3, <2>4, <2>6, SerialTypes DEF Serial!Look, Asking, SerialInv, call
    <2>9. AskHonest(Asking)'
      BY <1>3, <2>2, <2>5, <2>7, <2>8 DEF AskHonest
    <2> QED BY <1>2, <2>9, HonestRests DEF SerialInv
  <1> QED BY <1>6, <1>7

\* Money that goes back, of intent i alone.
LEMMA HonestMoney ==
    ASSUME SerialInv, SerialInv', HonestInv, NEW i \in Intent, Keeps(i),
           \A j \in Intent : j # i => serialIntent'[j] = serialIntent[j],
           UNCHANGED serialRow, AskHonest(Asking)',
           \A e \in serialMail' :
               \/ e \in serialMail \/ e.type # "refunded"
               \/ serialIntent'[e.intent].st = "succeeded" /\ e.amount <= serialIntent'[e.intent].refunded
    PROVE  HonestInv'
  <1>1. \A j \in Intent : serialIntent[j].refunded \in Nat
    BY Numbers DEF SerialInv
  <1>2. \A j \in Intent : Keeps(j)
    BY <1>1 DEF Keeps
  <1> QED BY <1>2, HonestMoves DEF SerialInv

\* An intent that is released.
LEMMA CancelHonest ==
    ASSUME SerialInv, SerialInv', HonestInv, NEW i \in Intent, serialIntent[i].st \in {"open", "held"},
           serialIntent' = [serialIntent EXCEPT ![i].st = "canceled"], serialMail' \subseteq serialMail,
           UNCHANGED serialRow, AskHonest(Asking)'
    PROVE  HonestInv'
  <1>1. Keeps(i)
    BY DEF Keeps
  <1>2. \A j \in Intent : j # i => serialIntent'[j] = serialIntent[j]
    BY SerialTypes DEF SerialInv
  <1> QED BY <1>1, <1>2, HonestMoney

\* The call is made: what was asked for went back, of the one intent the rows name.
LEMMA AnsweredHonest ==
    ASSUME SerialInv, SerialInv', HonestInv, Serial!OneIntent, Serial!At(Slot, "stripe"),
           Serial!StripeDoes(Slot), Serial!Answered(Slot), UNCHANGED serialRow
    PROVE  HonestInv'
  <1>1. PICK q \in Serial!Request : q = Asking /\ Fits(q) /\ q.pc = "stripe"
    BY SerialTypes DEF SerialInv, Serial!At, Asking
  <1>2. PICK i \in Intent : i = q.intent
    BY <1>1 DEF Fits
  <1>3. q.kind \in {"confirm", "decline", "cancel"} /\ (q.call = "capture" <=> q.kind = "confirm")
    BY <1>1 DEF Fits
  <1>4. PICK pc \in {"finish", "decide"} : pc = Serial!AfterStripe(q.kind)
    BY <1>3 DEF Serial!AfterStripe
  <1>5. pc = "decide" <=> q.kind = "confirm"
    BY <1>3, <1>4 DEF Serial!AfterStripe
  <1>6. PICK x : x = [Serial!Idle EXCEPT !.pc = pc, !.kind = q.kind, !.seen = q.seen, !.share = q.share]
    OBVIOUS
  <1>7. x.pc = pc /\ x.kind = q.kind /\ x.share = q.share
    BY <1>6 DEF Serial!Idle
  <1>8. Asking' = x
    BY <1>1, <1>4, <1>6, SerialTypes DEF Serial!Answered, Asking, SerialInv
  <1>9. q.kind = "decline" => q.share = Total
    BY <1>1 DEF HonestInv, AskHonest
  <1>10. /\ q.share \in Nat /\ q.ask \in Nat /\ q.share <= Total /\ Total \in Nat
         /\ serialIntent[i].refunded \in Nat
    BY <1>1, Numbers DEF SerialInv
  <1>11. q.kind # "confirm" => Open
    BY <1>1, <1>3 DEF Open, Claimed
  <1>12. serialIntent \in [Intent -> Serial!IntentState] /\ Serial!RowId = 1 .. MaxRows
    BY SerialTypes DEF SerialInv
  <1>13. ASSUME q.kind # "confirm", serialIntent[i].st # "none", SentBack(i, q.share)'
         PROVE  AskHonest(Asking)'
    <2>1. ASSUME NEW k \in Serial!Rows(Serial!Covered)'
          PROVE  serialRow'[k].refunded = 0 /\ serialRow'[k].ref = i
      <3>1. k \in 1 .. MaxRows /\ k \in Serial!Rows(Serial!Covered)
        BY <1>12, <2>1 DEF Serial!Rows
      <3>2. serialRow[k].ref \in Intent /\ Charged(serialRow[k].ref)
        BY <3>1 DEF SerialInv, MoneyFits
      <3>3. serialRow[k].ref = i
        BY <1>13, <3>2 DEF Charged, Serial!OneIntent
      <3>4. serialRow[k].refunded = 0
        BY <1>11, <1>13, <3>1, OpenHonest
      <3> QED BY <3>3, <3>4
    <2>2. ASSUME NEW k \in Serial!Rows(Serial!Covered)'
          PROVE  serialRow'[k].refunded = 0 /\ SentBack(serialRow[k].ref, q.share)'
      BY <1>13, <2>1 DEF SentBack
    <2> QED BY <1>4, <1>5, <1>7, <1>8, <1>9, <2>2 DEF AskHonest
  <1>14. CASE q.kind = "confirm"
    <2>1. Serial!StripeCapture(i)
      BY <1>1, <1>2, <1>3, <1>14 DEF Serial!StripeDoes, Asking
    <2>2. /\ serialIntent[i].st \in {"held", "succeeded"}
          /\ serialIntent' = [serialIntent EXCEPT ![i].st = "succeeded"]
          /\ \A e \in serialMail' : e \in serialMail \/ e.type = "succeeded"
      BY <2>1 DEF Serial!StripeCapture
    <2>3. Keeps(i) /\ \A j \in Intent : j # i => serialIntent'[j] = serialIntent[j]
      BY <1>10, <1>12, <2>2 DEF Keeps, Serial!IntentState
    <2>4. AskHonest(Asking)'
      BY <1>5, <1>7, <1>8, <1>14 DEF AskHonest
    <2> QED BY <2>2, <2>3, <2>4, HonestMoney
  <1>15. CASE q.kind # "confirm" /\ q.call = "cancel"
    <2>1. Serial!StripeCancel(i)
      BY <1>1, <1>2, <1>15 DEF Serial!StripeDoes, Asking
    <2>2. /\ serialIntent[i].st \in {"open", "held"} /\ serialIntent[i].st # "none"
          /\ serialIntent' = [serialIntent EXCEPT ![i].st = "canceled"]
          /\ serialMail' \subseteq serialMail
      BY <2>1 DEF Serial!StripeCancel
    <2>3. serialIntent'[i].st = "canceled"
      BY <1>12, <2>2 DEF Serial!IntentState
    <2>4. SentBack(i, q.share)'
      BY <1>10, <2>3 DEF SentBack
    <2>5. AskHonest(Asking)'
      BY <1>13, <1>15, <2>2, <2>4
    <2> QED BY <2>2, <2>5, CancelHonest
  <1>16. CASE q.kind # "confirm" /\ q.call # "cancel"
    <2>1. PICK k : k = [intent |-> i, left |-> q.left, ask |-> q.ask]
      OBVIOUS
    <2>2. Serial!StripeRefund(k, q.ask)
      BY <1>1, <1>2, <1>3, <1>16, <2>1 DEF Serial!StripeDoes, Asking
    <2>3. ~Serial!Replayed(k)
      BY <1>11, <1>16 DEF SerialInv, Intact, Serial!Replayed
    <2>4. k.intent = i /\ q.ask = q.share
      BY <1>1, <1>16, <2>1 DEF HonestInv, AskHonest
    <2>5. PICK e : e = [type |-> "refunded", intent |-> i, amount |-> serialIntent[i].refunded + q.ask]
      OBVIOUS
    <2>6. /\ 0 < q.ask /\ q.ask <= Serial!Left(i)
          /\ serialIntent' = [serialIntent EXCEPT ![i].refunded = @ + q.ask]
          /\ serialMail' = serialMail \cup {e}
      BY <2>2, <2>3, <2>4, <2>5 DEF Serial!StripeRefund
    <2>7. serialIntent[i].st = "succeeded" /\ serialIntent[i].refunded = 0
      <3>1. serialIntent[i].refunded = 0
        BY <1>11, <1>16, OpenHonest
      <3>2. Serial!Left(i) # 0
        BY <1>10, <2>6
      <3> QED BY <3>1, <3>2 DEF Serial!Left
    <2>8. PICK n \in Nat : n = serialIntent[i].refunded + q.ask /\ n = q.share
      BY <1>10, <2>4, <2>7
    <2>9. serialIntent' = [serialIntent EXCEPT ![i] = [@ EXCEPT !.refunded = n]]
      BY <2>6, <2>8
    <2>10. /\ serialIntent'[i].st = "succeeded" /\ serialIntent'[i].refunded = n
           /\ \A j \in Intent : j # i => serialIntent'[j] = serialIntent[j]
      BY <1>12, <2>7, <2>9 DEF Serial!IntentState
    <2>11. Keeps(i) /\ SentBack(i, q.share)'
      BY <1>10, <2>7, <2>8, <2>10 DEF Keeps, SentBack
    <2>12. e.intent = i /\ e.amount = n
      BY <2>5, <2>8
    <2>13. \A f \in serialMail' :
               \/ f \in serialMail
               \/ serialIntent'[f.intent].st = "succeeded" /\ f.amount <= serialIntent'[f.intent].refunded
      BY <2>6, <2>8, <2>10, <2>12
    <2>14. AskHonest(Asking)'
      BY <1>13, <1>16, <2>7, <2>11
    <2> QED BY <2>10, <2>11, <2>13, <2>14, HonestMoney
  <1> QED BY <1>14, <1>15, <1>16

\* The Stripe call, or its failure.
LEMMA StripeHonest ==
    ASSUME SerialInv, SerialInv', HonestInv, Serial!OneIntent, Serial!StripeCall(Slot)
    PROVE  HonestInv'
  <1>1. Serial!At(Slot, "stripe") /\ UNCHANGED serialRow
    BY DEF Serial!StripeCall
  <1>2. \/ Serial!StripeDoes(Slot) /\ Serial!Answered(Slot)
        \/ Serial!Threw(Slot) /\ UNCHANGED Serial!stripeVars
    BY DEF Serial!StripeCall
  <1>3. CASE Serial!Threw(Slot) /\ UNCHANGED Serial!stripeVars
    <2>1. UNCHANGED <<serialIntent, serialMail>>
      BY <1>3 DEF Serial!stripeVars
    <2>2. Asking' = Serial!Idle \/ Asking'.pc = "unclaim"
      <3>1. Asking' = IF serialReq[Slot].kind \in {"decline", "cancel"}
                      THEN [Serial!Idle EXCEPT !.pc = "unclaim", !.kind = serialReq[Slot].kind,
                                               !.seen = serialReq[Slot].seen]
                      ELSE Serial!Idle
        BY <1>3, SerialTypes DEF Serial!Threw, Asking, SerialInv
      <3> QED BY <3>1 DEF Serial!Idle
    <2>3. AskHonest(Asking)'
      BY <2>2, IdleHonest DEF AskHonest
    <2> QED BY <1>1, <2>1, <2>3, HonestRests DEF SerialInv
  <1> QED BY <1>1, <1>2, <1>3, AnsweredHonest

\* A decline, and a cancellation, that is through: the rows take over what went back.
LEMMA FinishHonest ==
    ASSUME SerialInv, SerialInv', HonestInv, Serial!FinishDecline(Slot) \/ Serial!FinishCancel(Slot)
    PROVE  HonestInv'
  <1>1. PICK q \in Serial!Request : q = Asking /\ Fits(q) /\ q.pc = "finish"
    BY SerialTypes DEF SerialInv, Serial!FinishDecline, Serial!FinishCancel, Serial!At, Asking
  <1>2. Serial!Done(Slot) /\ UNCHANGED <<serialIntent, serialMail>>
    BY DEF Serial!FinishDecline, Serial!FinishCancel, Serial!stripeVars
  <1>3. Asking' = Serial!Idle
    BY <1>2, Put, IdleFits DEF SerialInv, Serial!Done
  <1>4. AskHonest(Asking)'
    BY <1>3, IdleHonest
  <1>5. q.share \in Nat /\ Total \in Nat /\ Total > 0
    BY <1>1, Numbers DEF SerialInv
  <1>6. Serial!RowId = 1 .. MaxRows /\ serialRow \in [1 .. MaxRows -> Serial!Row]
    BY SerialTypes DEF SerialInv
  <1>7. q.share > 0 => \A k \in 1 .. MaxRows : serialRow[k].st \in Serial!Covered =>
            /\ serialRow[k].refunded = 0 /\ SentBack(serialRow[k].ref, q.share)
            /\ serialRow[k].ref \in Intent
    BY <1>1, <1>6 DEF HonestInv, AskHonest, SerialInv, MoneyFits, Serial!Rows
  <1>8. \A k \in 1 .. MaxRows :
            \/ serialRow'[k] = serialRow[k]
            \/ /\ q.share > 0 /\ serialRow[k].st \in Serial!Covered
               /\ serialRow'[k].ref = serialRow[k].ref /\ serialRow'[k].refunded = q.share
    <2> SUFFICES ASSUME NEW k \in 1 .. MaxRows
                 PROVE  \/ serialRow'[k] = serialRow[k]
                        \/ /\ q.share > 0 /\ serialRow[k].st \in Serial!Covered
                           /\ serialRow'[k].ref = serialRow[k].ref /\ serialRow'[k].refunded = q.share
      OBVIOUS
    <2>1. PICK old \in Serial!Row : old = serialRow[k]
      BY <1>6
    <2>2. CASE Serial!FinishDecline(Slot)
      <3>1. q.kind = "decline" /\ q.share = Total
        BY <1>1, <2>2 DEF Serial!FinishDecline, Asking, HonestInv, AskHonest
      <3>2. \/ serialRow'[k] = old
            \/ old.st \in Serial!Covered /\ serialRow'[k] = [old EXCEPT !.st = "refunded", !.refunded = Total]
        BY <1>6, <2>1, <2>2 DEF Serial!FinishDecline
      <3> QED BY <1>5, <2>1, <3>1, <3>2 DEF Serial!Row
    <2>3. CASE Serial!FinishCancel(Slot)
      <3>1. serialRow' = IF q.share > 0 THEN Serial!Refunded(Serial!Rows(Serial!Covered), "refunded", q.share)
                         ELSE serialRow
        BY <1>1, <2>3 DEF Serial!FinishCancel, Asking
      <3>2. PICK n : n = old.refunded + q.share
        OBVIOUS
      <3>3. \/ serialRow'[k] = old
            \/ /\ q.share > 0 /\ old.st \in Serial!Covered
               /\ serialRow'[k] = [old EXCEPT !.st = "refunded", !.refunded = n]
        BY <1>6, <2>1, <3>1, <3>2 DEF Serial!Refunded, Serial!Rows
      <3>4. q.share > 0 /\ old.st \in Serial!Covered => n = q.share
        BY <1>5, <1>7, <2>1, <3>2
      <3> QED BY <2>1, <3>3, <3>4 DEF Serial!Row
    <2> QED BY <2>2, <2>3
  <1>9. ASSUME NEW k \in 1 .. MaxRows
        PROVE  \/ serialRow'[k].refunded = serialRow[k].refunded /\ serialRow'[k].ref = serialRow[k].ref
               \/ serialRow'[k].ref \in Intent /\ SentBack(serialRow[k].ref, serialRow[k].refunded)'
    BY <1>2, <1>7, <1>8 DEF SentBack
  <1> QED BY <1>2, <1>4, <1>9, StayKeeps, HonestMoves DEF SerialInv

\* An acceptance is written.
LEMMA DecideHonest ==
    ASSUME SerialInv, SerialInv', HonestInv, Serial!DecideConfirm(Slot)
    PROVE  HonestInv'
  <1>1. UNCHANGED <<serialRow, serialIntent, serialMail>>
    BY DEF Serial!DecideConfirm, Serial!stripeVars
  <1>2. PICK x : x = [Serial!Idle EXCEPT !.pc = "look", !.kind = "compensate", !.share = Total]
    OBVIOUS
  <1>3. Asking' = Serial!Idle \/ Asking' = x
    BY <1>2, SerialTypes DEF Serial!DecideConfirm, Serial!Done, Asking, SerialInv
  <1>4. x.pc = "look" /\ x.kind = "compensate"
    BY <1>2 DEF Serial!Idle
  <1>5. AskHonest(Asking)'
    BY <1>3, <1>4, IdleHonest DEF AskHonest
  <1> QED BY <1>1, <1>5, HonestRests DEF SerialInv

\* A checkout begins.
LEMMA CheckoutHonest ==
    ASSUME SerialInv, SerialInv', HonestInv, Serial!StartCheckout(Slot)
    PROVE  HonestInv'
  <1>1. Serial!Begin(Slot, "checkout", "create", 0) /\ UNCHANGED <<serialRow, serialIntent, serialMail>>
    BY DEF Serial!StartCheckout, Serial!stripeVars
  <1>2. Asking'.pc = "create" /\ Asking'.kind = "checkout"
    BY <1>1, BegunAs DEF SerialInv
  <1>3. AskHonest(Asking)'
    BY <1>2 DEF AskHonest
  <1> QED BY <1>1, <1>3, HonestRests DEF SerialInv

\* An intent is created.
LEMMA CreateHonest ==
    ASSUME SerialInv, SerialInv', HonestInv, Serial!CreateIntent(Slot)
    PROVE  HonestInv'
  <1>1. PICK q \in Serial!Request : q = Asking /\ q.pc = "create"
    BY SerialTypes DEF SerialInv, Serial!CreateIntent, Serial!At, Asking
  <1>2. PICK i \in Intent :
            /\ serialIntent[i].st = "none"
            /\ serialIntent' = [serialIntent EXCEPT ![i].st = "open"]
            /\ serialReq' = [serialReq EXCEPT ![Slot].pc = "attach", ![Slot].intent = i]
    BY DEF Serial!CreateIntent
  <1>3. PICK x : x = [q EXCEPT !.pc = "attach", !.intent = i]
    OBVIOUS
  <1>4. x.pc = "attach" /\ x.intent = i /\ x.kind = q.kind
    BY <1>3 DEF Serial!Request
  <1>5. Asking' = x
    BY <1>1, <1>2, <1>3, SerialTypes DEF Asking, SerialInv
  <1>6. serialIntent \in [Intent -> Serial!IntentState]
    BY SerialTypes DEF SerialInv
  <1>7. serialIntent'[i].st = "open" /\ \A j \in Intent : j # i => serialIntent'[j] = serialIntent[j]
    BY <1>2, <1>6 DEF Serial!IntentState
  <1>8. Keeps(i)
    BY <1>2 DEF Keeps
  <1>9. AskHonest(Asking)'
    BY <1>4, <1>5, <1>7 DEF AskHonest
  <1>10. UNCHANGED <<serialRow, serialMail>>
    BY DEF Serial!CreateIntent
  <1> QED BY <1>7, <1>8, <1>9, <1>10, HonestMoney

\* What a payment row that is written keeps of the rows.
LEMMA RecordedHonest ==
    ASSUME SerialInv, NEW i \in Intent, NEW st, Serial!RecordStripePayment(i, st)
    PROVE  \A k \in 1 .. MaxRows :
               \/ serialRow'[k].refunded = serialRow[k].refunded /\ serialRow'[k].ref = serialRow[k].ref
               \/ serialRow'[k].refunded = 0
  <1> DEFINE known == {k \in Serial!RowId : serialRow[k].st # "none" /\ serialRow[k].ref = i}
  <1>1. serialRow \in [1 .. MaxRows -> Serial!Row] /\ Serial!RowId = 1 .. MaxRows
    BY SerialTypes DEF SerialInv
  <1> SUFFICES ASSUME NEW k \in 1 .. MaxRows
               PROVE  \/ serialRow'[k].refunded = serialRow[k].refunded /\ serialRow'[k].ref = serialRow[k].ref
                      \/ serialRow'[k].refunded = 0
    OBVIOUS
  <1>2. PICK old \in Serial!Row : old = serialRow[k]
    BY <1>1
  <1>3. CASE known # {}
    <2>1. PICK new : new = Serial!Merge(old.st, st)
      OBVIOUS
    <2>2. serialRow'[k] = old \/ serialRow'[k] = [old EXCEPT !.st = new]
      BY <1>1, <1>2, <1>3, <2>1 DEF Serial!RecordStripePayment
    <2> QED BY <1>2, <2>2 DEF Serial!Row
  <1>4. CASE known = {}
    <2>1. PICK n : n = Serial!Min(Serial!Rows({"none"}))
      OBVIOUS
    <2>2. PICK new : new = [Serial!NoRow EXCEPT !.st = st, !.ref = i]
      OBVIOUS
    <2>3. serialRow' = [serialRow EXCEPT ![n] = new]
      BY <1>4, <2>1, <2>2 DEF Serial!RecordStripePayment
    <2>4. new.refunded = 0
      BY <2>2 DEF Serial!NoRow
    <2> QED BY <1>1, <2>3, <2>4
  <1> QED BY <1>3, <1>4

\* The intent is attached: a row that had a refund was of this intent before.
LEMMA AttachHonest ==
    ASSUME SerialInv, SerialInv', HonestInv, Serial!OneIntent, Serial!AttachIntent(Slot)
    PROVE  HonestInv'
  <1>1. PICK q \in Serial!Request : q = Asking /\ Fits(q) /\ q.pc = "attach"
    BY SerialTypes DEF SerialInv, Serial!AttachIntent, Serial!At, Asking
  <1>2. PICK i \in Intent : i = q.intent
    BY <1>1 DEF Fits
  <1>3. serialIntent[i].st # "none"
    BY <1>1, <1>2 DEF HonestInv, AskHonest
  <1>4. Serial!Done(Slot) /\ UNCHANGED <<serialIntent, serialMail>>
    BY DEF Serial!AttachIntent, Serial!stripeVars
  <1>5. Asking' = Serial!Idle
    BY <1>4, Put, IdleFits DEF SerialInv, Serial!Done
  <1>6. AskHonest(Asking)'
    BY <1>5, IdleHonest
  <1>7. serialRow \in [1 .. MaxRows -> Serial!Row] /\ Serial!RowId = 1 .. MaxRows
    BY SerialTypes DEF SerialInv
  <1>8. \A k \in 1 .. MaxRows :
            \/ serialRow'[k].refunded = serialRow[k].refunded /\ serialRow'[k].ref = serialRow[k].ref
            \/ serialRow'[k].refunded = 0
    <2>1. CASE serialRow' = [k \in Serial!RowId |-> IF k \in Serial!Rows({"pending"})
                                                    THEN [serialRow[k] EXCEPT !.ref = i] ELSE serialRow[k]]
      <3> SUFFICES ASSUME NEW k \in 1 .. MaxRows, serialRow[k].refunded # 0
                   PROVE  serialRow'[k].refunded = serialRow[k].refunded /\ serialRow'[k].ref = serialRow[k].ref
        <4>1. ASSUME NEW k \in 1 .. MaxRows PROVE serialRow'[k].refunded = serialRow[k].refunded
          <5>1. PICK old \in Serial!Row : old = serialRow[k]
            BY <1>7
          <5>2. serialRow'[k] = old \/ serialRow'[k] = [old EXCEPT !.ref = i]
            BY <1>7, <2>1, <5>1
          <5> QED BY <5>1, <5>2 DEF Serial!Row
        <4> QED BY <4>1
      <3>1. PICK old \in Serial!Row : old = serialRow[k]
        BY <1>7
      <3>2. serialRow'[k] = old \/ serialRow'[k] = [old EXCEPT !.ref = i]
        BY <1>7, <2>1, <3>1
      <3>3. old.ref \in Intent /\ serialIntent[old.ref].st # "none"
        BY <3>1 DEF HonestInv, RowsHonest, SentBack
      <3>4. old.ref = i
        BY <1>3, <3>3 DEF Serial!OneIntent
      <3> QED BY <3>1, <3>2, <3>4 DEF Serial!Row
    <2>2. CASE Serial!RecordStripePayment(i, "pending")
      BY <2>2, RecordedHonest
    <2>3. CASE UNCHANGED serialRow
      BY <2>3
    <2> QED BY <1>1, <1>2, <2>1, <2>2, <2>3 DEF Serial!AttachIntent, Asking
  <1> QED BY <1>4, <1>6, <1>8, HonestRests DEF SerialInv

\* A delivery is taken up.
LEMMA DeliverHonest ==
    ASSUME SerialInv, SerialInv', HonestInv, NEW e \in serialMail, Serial!Deliver(Slot, e)
    PROVE  HonestInv'
  <1>1. PICK pc \in {"reverse", "record"} :
            serialReq' = [serialReq EXCEPT ![Slot] =
                              [Serial!Idle EXCEPT !.pc = pc, !.kind = "webhook", !.event = e]]
    BY DEF Serial!Deliver
  <1>2. PICK x : x = [Serial!Idle EXCEPT !.pc = pc, !.kind = "webhook", !.event = e]
    OBVIOUS
  <1>3. Asking' = x
    BY <1>1, <1>2, SerialTypes DEF Asking, SerialInv
  <1>4. x.pc = pc /\ x.kind = "webhook"
    BY <1>2 DEF Serial!Idle
  <1>5. AskHonest(Asking)'
    BY <1>3, <1>4 DEF AskHonest
  <1>6. UNCHANGED <<serialRow, serialIntent, serialMail>>
    BY DEF Serial!Deliver, Serial!stripeVars
  <1> QED BY <1>5, <1>6, HonestRests DEF SerialInv

\* A payment that came too late is released or sent back: all of it.
LEMMA ReverseHonest ==
    ASSUME SerialInv, SerialInv', HonestInv, Serial!Reverse(Slot)
    PROVE  HonestInv'
  <1>1. PICK q \in Serial!Request : q = Asking /\ Fits(q) /\ q.pc = "reverse"
    BY SerialTypes DEF SerialInv, Serial!Reverse, Serial!At, Asking
  <1>2. PICK e \in Serial!Event : e = q.event /\ serialReq[Slot].event = e
    BY <1>1, SerialTypes DEF Fits, SerialInv, Asking
  <1>3. PICK i \in Intent : i = e.intent
    BY DEF Serial!Event
  <1>4. Serial!Done(Slot) /\ UNCHANGED serialRow
    BY DEF Serial!Reverse
  <1>5. Asking' = Serial!Idle
    BY <1>4, Put, IdleFits DEF SerialInv, Serial!Done
  <1>6. AskHonest(Asking)'
    BY <1>5, IdleHonest
  <1>7. serialIntent \in [Intent -> Serial!IntentState]
    BY SerialTypes DEF SerialInv
  <1>8. CASE /\ serialIntent[i].st \in {"open", "held"}
             /\ serialIntent' = [serialIntent EXCEPT ![i].st = "canceled"]
             /\ Serial!Acknowledge(e)
    <2>1. serialMail' \subseteq serialMail
      BY <1>8, Acknowledged
    <2> QED BY <1>4, <1>6, <1>8, <2>1, CancelHonest
  <1>9. CASE /\ Serial!Left(i) > 0
             /\ serialIntent' = [serialIntent EXCEPT ![i].refunded = Total]
             /\ serialMail' = (serialMail \ {e}) \cup {[type |-> "refunded", intent |-> i, amount |-> Total]}
    <2>1. serialIntent[i].st = "succeeded" /\ serialIntent[i].refunded <= Total /\ Total \in Nat
      BY <1>9, Numbers DEF Serial!Left, SerialInv
    <2>2. /\ serialIntent'[i].st = "succeeded" /\ serialIntent'[i].refunded = Total
          /\ \A j \in Intent : j # i => serialIntent'[j] = serialIntent[j]
      BY <1>7, <1>9, <2>1 DEF Serial!IntentState
    <2>3. Keeps(i)
      BY <2>1, <2>2 DEF Keeps
    <2>4. PICK f : f = [type |-> "refunded", intent |-> i, amount |-> Total]
      OBVIOUS
    <2>5. f.intent = i /\ f.amount = Total /\ serialMail' = (serialMail \ {e}) \cup {f}
      BY <1>9, <2>4
    <2>6. \A g \in serialMail' :
              \/ g \in serialMail
              \/ serialIntent'[g.intent].st = "succeeded" /\ g.amount <= serialIntent'[g.intent].refunded
      BY <2>1, <2>2, <2>5
    <2> QED BY <1>4, <1>6, <2>2, <2>3, <2>6, HonestMoney
  <1>10. CASE Serial!Acknowledge(e) /\ UNCHANGED serialIntent
    <2>1. serialMail' \subseteq serialMail
      BY <1>10, Acknowledged
    <2> QED BY <1>4, <1>6, <1>10, <2>1, HonestRests DEF SerialInv
  <1>11. CASE UNCHANGED Serial!stripeVars
    BY <1>4, <1>6, <1>11, HonestRests DEF SerialInv, Serial!stripeVars
  <1>12. \/ /\ serialIntent[i].st \in {"open", "held"} /\ serialIntent' = [serialIntent EXCEPT ![i].st = "canceled"]
            /\ Serial!Acknowledge(e)
         \/ /\ Serial!Left(i) > 0
            /\ serialIntent' = [serialIntent EXCEPT ![i].refunded = Total]
            /\ serialMail' = (serialMail \ {e}) \cup {[type |-> "refunded", intent |-> i, amount |-> Total]}
         \/ Serial!Acknowledge(e) /\ UNCHANGED serialIntent
         \/ UNCHANGED Serial!stripeVars
    BY <1>2, <1>3 DEF Serial!Reverse
  <1> QED BY <1>8, <1>9, <1>10, <1>11, <1>12

\* An event is recorded: a refund as far as it went.
LEMMA RecordHonest ==
    ASSUME SerialInv, SerialInv', HonestInv, Serial!RecordEvent(Slot)
    PROVE  HonestInv'
  <1>1. PICK q \in Serial!Request : q = Asking /\ Fits(q) /\ q.pc = "record"
    BY SerialTypes DEF SerialInv, Serial!RecordEvent, Serial!At, Asking
  <1>2. PICK e \in Serial!Event : e = q.event /\ e \in serialMail /\ serialReq[Slot].event = e
    BY <1>1, SerialTypes DEF Fits, SerialInv, Asking
  <1>3. PICK i \in Intent : i = e.intent
    BY DEF Serial!Event
  <1>4. UNCHANGED serialIntent
    BY DEF Serial!RecordEvent
  <1>5. serialMail' \subseteq serialMail
    BY <1>2, Acknowledged DEF Serial!RecordEvent
  <1>6. AskHonest(Asking)'
    <2>1. CASE Serial!Done(Slot)
      <3>1. Asking' = Serial!Idle
        BY <2>1, Put, IdleFits DEF SerialInv, Serial!Done
      <3> QED BY <3>1, IdleHonest
    <2>2. CASE Serial!Goto(Slot, "instant")
      <3>1. PICK x : x = [q EXCEPT !.pc = "instant"]
        OBVIOUS
      <3>2. Asking' = x
        BY <1>1, <2>2, <3>1, SerialTypes DEF Serial!Goto, Asking, SerialInv
      <3>3. x.pc = "instant"
        BY <3>1 DEF Serial!Request
      <3> QED BY <3>2, <3>3 DEF AskHonest
    <2> QED BY <2>1, <2>2 DEF Serial!RecordEvent
  <1>7. serialRow \in [1 .. MaxRows -> Serial!Row] /\ Serial!RowId = 1 .. MaxRows
    BY SerialTypes DEF SerialInv
  <1>8. CASE e.type = "refunded"
    <2>1. Serial!MarkPaymentRefunded(i, e.amount)
      BY <1>2, <1>3, <1>8 DEF Serial!RecordEvent
    <2>2. serialIntent[i].st = "succeeded" /\ e.amount <= serialIntent[i].refunded
      BY <1>2, <1>3, <1>8 DEF HonestInv, MailHonest
    <2>3. ASSUME NEW k \in 1 .. MaxRows
          PROVE  \/ serialRow'[k] = serialRow[k]
                 \/ serialRow'[k].ref = i /\ serialRow'[k].refunded = e.amount
      <3>1. PICK old \in Serial!Row : old = serialRow[k]
        BY <1>7
      <3>2. PICK st : st = IF e.amount >= Total THEN "refunded" ELSE old.st
        OBVIOUS
      <3>3. serialRow'[k] = old
            \/ (old.ref = i /\ serialRow'[k] = [old EXCEPT !.refunded = e.amount, !.st = st])
        BY <1>7, <2>1, <3>1, <3>2 DEF Serial!MarkPaymentRefunded
      <3> QED BY <3>1, <3>3 DEF Serial!Row
    <2>4. ASSUME NEW k \in 1 .. MaxRows
          PROVE  \/ serialRow'[k].refunded = serialRow[k].refunded /\ serialRow'[k].ref = serialRow[k].ref
                 \/ serialRow'[k].ref \in Intent /\ SentBack(serialRow[k].ref, serialRow[k].refunded)'
      BY <1>4, <2>2, <2>3 DEF SentBack
    <2> QED BY <1>4, <1>5, <1>6, <2>4, StayKeeps, HonestMoves DEF SerialInv
  <1>9. CASE e.type # "refunded"
    <2>1. PICK st : st = Serial!PaymentStatus(e.type)
      OBVIOUS
    <2>2. Serial!RecordStripePayment(i, st)
      BY <1>2, <1>3, <1>9, <2>1 DEF Serial!RecordEvent
    <2> QED BY <1>4, <1>5, <1>6, <2>2, RecordedHonest, HonestRests DEF SerialInv
  <1> QED BY <1>8, <1>9

\* Requests that end and write nothing, or only a status.
LEMMA EndHonest ==
    ASSUME SerialInv, SerialInv', HonestInv,
           \/ Serial!Unclaim(Slot) \/ Serial!ConfirmInstantBook(Slot)
           \/ Serial!DropNothing(Slot) \/ Serial!LoseRequest(Slot)
    PROVE  HonestInv'
  <1>1. Serial!Done(Slot) /\ UNCHANGED <<serialRow, serialIntent>>
    BY DEF Serial!Unclaim, Serial!ConfirmInstantBook, Serial!DropNothing, Serial!LoseRequest, Serial!stripeVars
  <1>2. serialMail' \subseteq serialMail
    BY Acknowledged DEF Serial!Unclaim, Serial!ConfirmInstantBook, Serial!DropNothing, Serial!LoseRequest,
                        Serial!stripeVars
  <1> QED BY <1>1, <1>2, HonestEnds DEF SerialInv

\* A hold that runs out, or is given up.
LEMMA ExpireHonest ==
    ASSUME SerialInv, SerialInv', HonestInv, Serial!ExpireUnpaid(Slot) \/ Serial!ReleaseOwnHold(Slot)
    PROVE  HonestInv'
  <1>1. serialRow' = Serial!FailPending /\ UNCHANGED <<serialIntent, serialMail>>
    BY DEF Serial!ExpireUnpaid, Serial!ReleaseOwnHold, Serial!stripeVars
  <1>2. serialRow \in [1 .. MaxRows -> Serial!Row] /\ Serial!RowId = 1 .. MaxRows
    BY SerialTypes DEF SerialInv
  <1>3. ASSUME NEW k \in 1 .. MaxRows
        PROVE  serialRow'[k].refunded = serialRow[k].refunded /\ serialRow'[k].ref = serialRow[k].ref
    <2>1. PICK old \in Serial!Row : old = serialRow[k]
      BY <1>2
    <2>2. serialRow'[k] = old \/ serialRow'[k] = [old EXCEPT !.st = "failed"]
      BY <1>1, <1>2, <2>1 DEF Serial!FailPending
    <2> QED BY <2>1, <2>2 DEF Serial!Row
  <1>4. CASE Serial!Done(Slot)
    <2>1. Asking' = Serial!Idle
      BY <1>4, Put, IdleFits DEF SerialInv, Serial!Done
    <2>2. AskHonest(Asking)'
      BY <2>1, IdleHonest
    <2> QED BY <1>1, <1>3, <2>2, HonestRests DEF SerialInv
  <1>5. CASE Serial!ExpireUnpaid(Slot) /\ ~Serial!Done(Slot)
    <2>1. PICK i : serialReq' = [serialReq EXCEPT ![Slot] =
                                    [Serial!Idle EXCEPT !.pc = "close", !.kind = "expire", !.intent = i]]
      BY <1>5 DEF Serial!ExpireUnpaid, Serial!Done
    <2>2. PICK x : x = [Serial!Idle EXCEPT !.pc = "close", !.kind = "expire", !.intent = i]
      OBVIOUS
    <2>3. Asking' = x
      BY <2>1, <2>2, SerialTypes DEF Asking, SerialInv
    <2>4. x.pc = "close" /\ x.kind = "expire"
      BY <2>2 DEF Serial!Idle
    <2>5. AskHonest(Asking)'
      BY <2>3, <2>4 DEF AskHonest
    <2> QED BY <1>1, <1>3, <2>5, HonestRests DEF SerialInv
  <1> QED BY <1>4, <1>5 DEF Serial!ReleaseOwnHold

\* The intent of a hold that ran out is closed, or stays.
LEMMA CloseHonest ==
    ASSUME SerialInv, SerialInv', HonestInv, Serial!CloseIntent(Slot)
    PROVE  HonestInv'
  <1>1. PICK q \in Serial!Request : q = Asking /\ Fits(q) /\ q.pc = "close"
    BY SerialTypes DEF SerialInv, Serial!CloseIntent, Serial!At, Asking
  <1>2. PICK i \in Intent : i = q.intent /\ serialReq[Slot].intent = i
    BY <1>1 DEF Fits, Asking
  <1>3. Serial!Done(Slot) /\ UNCHANGED serialRow
    BY DEF Serial!CloseIntent
  <1>4. Asking' = Serial!Idle
    BY <1>3, Put, IdleFits DEF SerialInv, Serial!Done
  <1>5. AskHonest(Asking)'
    BY <1>4, IdleHonest
  <1>6. Serial!StripeCancel(i) \/ UNCHANGED Serial!stripeVars
    BY <1>2 DEF Serial!CloseIntent
  <1>7. CASE Serial!StripeCancel(i)
    BY <1>3, <1>5, <1>7, CancelHonest DEF Serial!StripeCancel
  <1>8. CASE UNCHANGED Serial!stripeVars
    BY <1>3, <1>5, <1>8, HonestRests DEF SerialInv, Serial!stripeVars
  <1> QED BY <1>6, <1>7, <1>8

\* A stay that is over, and its payment.
LEMMA CompleteHonest ==
    ASSUME SerialInv, SerialInv', HonestInv, Serial!CompleteStay(Slot) \/ Serial!SettlePayment(Slot)
    PROVE  HonestInv'
  <1>1. serialRow \in [1 .. MaxRows -> Serial!Row] /\ Serial!RowId = 1 .. MaxRows
    BY SerialTypes DEF SerialInv
  <1>2. UNCHANGED <<serialIntent, serialMail>>
    BY DEF Serial!CompleteStay, Serial!SettlePayment, Serial!stripeVars
  <1>3. CASE Serial!CompleteStay(Slot)
    <2>1. PICK x : x = [Serial!Idle EXCEPT !.pc = "settle", !.kind = "complete"]
      OBVIOUS
    <2>2. Asking' = x /\ UNCHANGED serialRow
      BY <1>3, <2>1, SerialTypes DEF Serial!CompleteStay, Asking, SerialInv
    <2>3. x.pc = "settle" /\ x.kind = "complete"
      BY <2>1 DEF Serial!Idle
    <2>4. AskHonest(Asking)'
      BY <2>2, <2>3 DEF AskHonest
    <2> QED BY <1>2, <2>2, <2>4, HonestRests DEF SerialInv
  <1>4. CASE Serial!SettlePayment(Slot)
    <2>1. Serial!Done(Slot)
      BY <1>4 DEF Serial!SettlePayment
    <2>2. Asking' = Serial!Idle
      BY <2>1, Put, IdleFits DEF SerialInv, Serial!Done
    <2>3. AskHonest(Asking)'
      BY <2>2, IdleHonest
    <2>4. ASSUME NEW k \in 1 .. MaxRows
          PROVE  serialRow'[k].refunded = serialRow[k].refunded /\ serialRow'[k].ref = serialRow[k].ref
      <3>1. PICK old \in Serial!Row : old = serialRow[k]
        BY <1>1
      <3>2. serialRow'[k] = old \/ serialRow'[k] = [old EXCEPT !.st = "paid"]
        BY <1>1, <1>4, <3>1 DEF Serial!SettlePayment
      <3> QED BY <3>1, <3>2 DEF Serial!Row
    <2> QED BY <1>2, <2>3, <2>4, HonestRests DEF SerialInv
  <1> QED BY <1>3, <1>4

\* What a request may claim while the money goes on without it.
LEMMA AskStays ==
    ASSUME SerialInv, SerialInv', HonestInv, UNCHANGED <<serialReq, serialRow>>, \A i \in Intent : Keeps(i),
           \A i \in Intent : serialIntent[i].st # "none" => serialIntent'[i].st # "none"
    PROVE  AskHonest(Asking)'
  <1>1. PICK q : q = Asking /\ q = Asking' /\ AskHonest(q) /\ Fits(q)
    BY DEF Asking, HonestInv, SerialInv
  <1>2. q.pc = "attach" => serialIntent'[q.intent].st # "none"
    BY <1>1 DEF AskHonest, Fits
  <1>3. q.pc = "finish" /\ q.share > 0 =>
            \A k \in Serial!Rows(Serial!Covered)' : serialRow'[k].refunded = 0 /\ SentBack(serialRow[k].ref, q.share)'
    <2> SUFFICES ASSUME q.pc = "finish", q.share > 0, NEW k \in Serial!Rows(Serial!Covered)
                 PROVE  serialRow[k].refunded = 0 /\ SentBack(serialRow[k].ref, q.share)'
      BY DEF Serial!Rows
    <2>1. serialRow[k].refunded = 0 /\ SentBack(serialRow[k].ref, q.share)
      BY <1>1 DEF AskHonest
    <2>2. PICK i \in Intent : i = serialRow[k].ref
      BY DEF SerialInv, MoneyFits
    <2>3. Keeps(i) /\ SentBack(i, q.share) /\ q.share \in Nat /\ q.share <= Total
          /\ serialIntent[i].refunded \in Nat /\ serialIntent'[i].refunded \in Nat
      BY <1>1, <2>1, <2>2, Numbers, NumbersNext DEF SerialInv
    <2>4. SentBack(i, q.share)'
      BY <2>3 DEF Keeps, SentBack
    <2>5. serialRow'[k].ref = i
      BY <2>2
    <2> QED BY <2>1, <2>4, <2>5 DEF SentBack
  <1>4. AskHonest(q)'
    BY <1>1, <1>2, <1>3 DEF AskHonest
  <1> QED BY <1>1, <1>4

\* The guest pays, or fails to.
LEMMA PayHonest ==
    ASSUME SerialInv, SerialInv', HonestInv, NEW i \in Intent, Serial!Pay(i) \/ Serial!PayFails(i)
    PROVE  HonestInv'
  <1>1. serialIntent[i].st = "open" /\ UNCHANGED <<serialRow, serialReq>>
    BY DEF Serial!Pay, Serial!PayFails
  <1>2. serialIntent \in [Intent -> Serial!IntentState]
    BY SerialTypes DEF SerialInv
  <1>3. UNCHANGED serialIntent \/ \E st \in {"held", "succeeded"} : serialIntent' = [serialIntent EXCEPT ![i].st = st]
    BY DEF Serial!Pay, Serial!PayFails
  <1>4. /\ \A j \in Intent : j # i => serialIntent'[j] = serialIntent[j]
        /\ serialIntent'[i].st \in {"open", "held", "succeeded"}
    BY <1>1, <1>2, <1>3 DEF Serial!IntentState
  <1>5. \A j \in Intent : serialIntent[j].refunded \in Nat
    BY Numbers DEF SerialInv
  <1>6. \A j \in Intent : Keeps(j) /\ (serialIntent[j].st # "none" => serialIntent'[j].st # "none")
    BY <1>1, <1>4, <1>5 DEF Keeps
  <1>7. AskHonest(Asking)'
    BY <1>1, <1>6, AskStays
  <1>8. \A e \in serialMail' : e \in serialMail \/ e.type # "refunded"
    BY DEF Serial!Pay, Serial!PayFails
  <1> QED BY <1>1, <1>4, <1>6, <1>7, <1>8, HonestMoney

\* Nothing of the money moves.
LEMMA StillHonest ==
    ASSUME SerialInv, HonestInv, UNCHANGED <<serialReq, serialRow, serialIntent, serialMail>>
    PROVE  HonestInv'
  <1>1. Asking' = Asking
    BY DEF Asking
  <1> QED BY <1>1 DEF HonestInv, RowsHonest, MailHonest, AskHonest, SentBack, Serial!Rows

-------------------------------------------------------------------------------

\* The booking starts with rows and a mail that claim nothing.
LEMMA HonestStarts == Serial!Init => HonestInv
  <1> SUFFICES ASSUME Serial!Init PROVE HonestInv
    OBVIOUS
  <1>1. Asking = Serial!Idle /\ serialMail = {}
    BY DEF Serial!Init, Asking
  <1>2. AskHonest(Asking)
    BY <1>1 DEF Serial!Idle, AskHonest
  <1>3. PICK first : first = [Serial!NoRow EXCEPT !.st = "pending"]
    OBVIOUS
  <1>4. first.refunded = 0 /\ Serial!NoRow.refunded = 0
    BY <1>3 DEF Serial!NoRow
  <1>5. \A k \in 1 .. MaxRows : serialRow[k].refunded = 0
    BY <1>3, <1>4 DEF Serial!Init, Serial!RowId
  <1> QED BY <1>1, <1>2, <1>5 DEF HonestInv, RowsHonest, MailHonest

\* An intent that was made stays made.
MadeStays == \A i \in Intent : serialIntent[i].st # "none" => serialIntent'[i].st # "none"

\* A call to Stripe unmakes none.
LEMMA StripeMakes ==
    ASSUME Serial!TypeOK, NEW i \in Intent,
           \/ UNCHANGED serialIntent
           \/ \E st \in {"open", "held", "succeeded", "canceled"} : serialIntent' = [serialIntent EXCEPT ![i].st = st]
           \/ \E n : serialIntent' = [serialIntent EXCEPT ![i].refunded = n]
    PROVE  MadeStays
  <1>1. serialIntent \in [Intent -> Serial!IntentState]
    BY SerialTypes
  <1>2. ASSUME NEW st \in {"open", "held", "succeeded", "canceled"}, serialIntent' = [serialIntent EXCEPT ![i].st = st]
        PROVE  MadeStays
    BY <1>1, <1>2 DEF MadeStays, Serial!IntentState
  <1>3. ASSUME NEW n, serialIntent' = [serialIntent EXCEPT ![i].refunded = n]
        PROVE  MadeStays
    BY <1>1, <1>3 DEF MadeStays, Serial!IntentState
  <1>4. CASE UNCHANGED serialIntent
    BY <1>4 DEF MadeStays
  <1> QED BY <1>2, <1>3, <1>4

\* Nor does a step.
LEMMA StepMakes == ASSUME SerialInv, Serial!Next PROVE MadeStays
  <1>1. ASSUME UNCHANGED serialIntent PROVE MadeStays
    BY <1>1 DEF MadeStays
  <1>2. ASSUME Serial!StripeCall(Slot) PROVE MadeStays
    <2>1. PICK q : q = Asking /\ Fits(q) /\ q.pc = "stripe"
      BY <1>2 DEF SerialInv, Serial!StripeCall, Serial!At, Asking
    <2>2. PICK i \in Intent : i = q.intent
      BY <2>1 DEF Fits
    <2>3. Serial!StripeDoes(Slot) \/ UNCHANGED serialIntent
      BY <1>2 DEF Serial!StripeCall, Serial!stripeVars
    <2>4. CASE Serial!StripeDoes(Slot)
      <3>1. PICK k : k = [intent |-> i, left |-> q.left, ask |-> q.ask]
        OBVIOUS
      <3>2. Serial!StripeCapture(i) \/ Serial!StripeCancel(i) \/ Serial!StripeRefund(k, q.ask)
        BY <2>1, <2>2, <2>4, <3>1 DEF Serial!StripeDoes, Asking
      <3>3. k.intent = i
        BY <3>1
      <3>4. CASE Serial!StripeCapture(i) \/ Serial!StripeCancel(i)
        BY <3>4, StripeMakes DEF Serial!StripeCapture, Serial!StripeCancel, SerialInv
      <3>5. CASE Serial!StripeRefund(k, q.ask)
        BY <1>1, <3>3, <3>5, StripeMakes DEF Serial!StripeRefund, Serial!stripeVars, SerialInv
      <3> QED BY <3>2, <3>4, <3>5
    <2> QED BY <1>1, <2>3, <2>4
  <1>3. ASSUME Serial!RefundStep(Slot) PROVE MadeStays
    BY <1>1, <1>2, <1>3 DEF Serial!RefundStep, Serial!Claim, Serial!Look, Serial!Unclaim, Serial!FinishDecline,
                            Serial!FinishCancel, Serial!stripeVars
  <1>4. ASSUME Serial!DecideStep(Slot) PROVE MadeStays
    BY <1>1, <1>4, NoAdmin DEF Serial!DecideStep, Serial!DecideConfirm, Serial!stripeVars
  <1>5. ASSUME Serial!CheckoutStep(Slot) PROVE MadeStays
    <2>1. ASSUME Serial!CreateIntent(Slot) PROVE MadeStays
      BY <2>1, StripeMakes DEF Serial!CreateIntent, SerialInv
    <2> QED BY <1>1, <1>5, <2>1 DEF Serial!CheckoutStep, Serial!StartCheckout, Serial!AttachIntent, Serial!stripeVars
  <1>6. ASSUME Serial!WebhookStep(Slot) PROVE MadeStays
    <2>1. ASSUME Serial!Reverse(Slot) PROVE MadeStays
      <3>1. PICK e \in Serial!Event : e = serialReq[Slot].event
        BY <2>1, SerialTypes DEF SerialInv, Fits, Serial!Reverse, Serial!At, Asking
      <3>2. PICK i \in Intent : i = e.intent
        BY DEF Serial!Event
      <3>3. \/ UNCHANGED serialIntent
            \/ serialIntent' = [serialIntent EXCEPT ![i].st = "canceled"]
            \/ serialIntent' = [serialIntent EXCEPT ![i].refunded = Total]
        BY <2>1, <3>1, <3>2 DEF Serial!Reverse, Serial!stripeVars
      <3> QED BY <3>3, StripeMakes DEF SerialInv
    <2>2. ASSUME NEW e \in serialMail, Serial!Deliver(Slot, e) PROVE MadeStays
      BY <1>1, <2>2 DEF Serial!Deliver, Serial!stripeVars
    <2> QED BY <1>1, <1>6, <2>1, <2>2 DEF Serial!WebhookStep, Serial!RecordEvent, Serial!ConfirmInstantBook
  <1>7. ASSUME Serial!SweepStep(Slot) PROVE MadeStays
    <2>1. ASSUME Serial!CloseIntent(Slot) PROVE MadeStays
      <3>1. PICK i \in Intent : i = serialReq[Slot].intent
        BY <2>1 DEF SerialInv, Fits, Serial!CloseIntent, Serial!At, Asking
      <3>2. Serial!StripeCancel(i) \/ UNCHANGED serialIntent
        BY <2>1, <3>1 DEF Serial!CloseIntent, Serial!stripeVars
      <3> QED BY <3>2, StripeMakes DEF Serial!StripeCancel, SerialInv
    <2> QED BY <1>1, <1>7, <2>1 DEF Serial!SweepStep, Serial!ExpireUnpaid, Serial!ReleaseOwnHold, Serial!DropNothing,
                                    Serial!CompleteStay, Serial!SettlePayment, Serial!stripeVars
  <1>8. ASSUME NEW i \in Intent, Serial!Pay(i) \/ Serial!PayFails(i) PROVE MadeStays
    BY <1>8, StripeMakes DEF Serial!Pay, Serial!PayFails, SerialInv
  <1>9. ASSUME Serial!Start(Slot) \/ Serial!LoseRequest(Slot) \/ Serial!Rebook PROVE MadeStays
    BY <1>1, <1>9 DEF Serial!Start, Serial!LoseRequest, Serial!Rebook, Serial!stripeVars
  <1> QED BY <1>3, <1>4, <1>5, <1>6, <1>7, <1>8, <1>9 DEF Serial!Next

\* Every step keeps the register honest, as long as the booking has one intent.
LEMMA HonestKeeps ==
    ASSUME SerialInv, SerialInv', HonestInv, Serial!OneIntent, Serial!Next
    PROVE  HonestInv'
  <1>1. ASSUME Serial!RefundStep(Slot) PROVE HonestInv'
    BY <1>1, ClaimHonest, LookHonest, StripeHonest, EndHonest, FinishHonest DEF Serial!RefundStep
  <1>2. ASSUME Serial!DecideStep(Slot) PROVE HonestInv'
    BY <1>2, DecideHonest, NoAdmin DEF Serial!DecideStep
  <1>3. ASSUME Serial!CheckoutStep(Slot) PROVE HonestInv'
    BY <1>3, CheckoutHonest, CreateHonest, AttachHonest DEF Serial!CheckoutStep
  <1>4. ASSUME Serial!WebhookStep(Slot) PROVE HonestInv'
    BY <1>4, DeliverHonest, ReverseHonest, RecordHonest, EndHonest DEF Serial!WebhookStep
  <1>5. ASSUME Serial!SweepStep(Slot) PROVE HonestInv'
    BY <1>5, ExpireHonest, EndHonest, CloseHonest, CompleteHonest DEF Serial!SweepStep
  <1>6. ASSUME Serial!Rebook PROVE HonestInv'
    BY <1>6, StillHonest DEF Serial!Rebook, Serial!stripeVars
  <1> QED BY <1>1, <1>2, <1>3, <1>4, <1>5, <1>6, StartHonest, EndHonest, PayHonest DEF Serial!Next

\* A step of the part, or none.
LEMMA HonestStep ==
    ASSUME SerialInv, Serial!OneIntent => HonestInv, [Serial!Next]_serialVars
    PROVE  (Serial!OneIntent => HonestInv)'
  <1>1. CASE UNCHANGED serialVars
    <2>1. UNCHANGED <<serialReq, serialRow, serialIntent, serialMail>>
      BY <1>1 DEF serialVars
    <2>2. Serial!OneIntent' => Serial!OneIntent
      BY <2>1 DEF Serial!OneIntent
    <2> QED BY <2>1, <2>2, StillHonest
  <1>2. CASE Serial!Next
    <2>1. Serial!OneIntent' => Serial!OneIntent
      BY <1>2, StepMakes DEF MadeStays, Serial!OneIntent
    <2> QED BY <1>2, <2>1, SerialKeeps, HonestKeeps
  <1> QED BY <1>1, <1>2

\* What the invariant says of the register.
LEMMA HonestHolds == SerialInv /\ HonestInv => Serial!RegisterIsHonest
  <1> SUFFICES ASSUME SerialInv, HonestInv, NEW k \in 1 .. MaxRows, serialRow[k].ref # None
               PROVE  serialRow[k].refunded <= Serial!Returned(serialRow[k].ref)
    BY DEF Serial!RegisterIsHonest, Serial!RowId
  <1>1. PICK i \in Intent : i = serialRow[k].ref
    BY Numbers DEF SerialInv
  <1>2. /\ serialRow[k].refunded \in Nat /\ serialIntent[i].refunded \in Nat /\ Total \in Nat
        /\ serialIntent[i].refunded <= Total
    BY Numbers DEF SerialInv
  <1>3. serialRow[k].refunded = 0 \/ SentBack(i, serialRow[k].refunded)
    BY <1>1 DEF HonestInv, RowsHonest
  <1> QED BY <1>1, <1>2, <1>3 DEF SentBack, Serial!Returned

-------------------------------------------------------------------------------
(* The money, when requests meet: the lemmas of BookingMoneyProofs         *)

Meet == INSTANCE BookingMoneyProofs WITH
    status <- racesStatus, listing <- racesListing, row <- racesRow,
    intent <- racesIntent, keys <- racesKeys, mail <- racesMail,
    cancelRow <- racesCancelRow, granted <- racesGranted, req <- racesReq,
    unpaidEnd <- racesUnpaidEnd, Handlers <- Handled, Env <- {"stripeDown"},
    Modes <- {TRUE}

\* The assumptions and the bounds of those lemmas hold here.
LEMMA MeetAssumption ==
    /\ Total \in Nat \ {0} /\ MaxRows \in Nat \ {0} /\ {TRUE} \subseteq BOOLEAN
    /\ Handled \subseteq Meet!HandlerNames /\ {"stripeDown"} \subseteq Meet!EnvNames
    /\ None \notin Intent \cup Nat
    /\ Meet!Calm
  BY StayAssumption DEF Handled, Meet!HandlerNames, Meet!EnvNames, Meet!Calm

\* They speak of the same booking: both are BookingMoney under the same names.
LEMMA SameStart == Meet!Init <=> Races!Init
  BY Zenon DEF Meet!Idle, Races!Idle, Meet!Init, Races!Init, Meet!NoRow, Races!NoRow, Meet!RowId,
         Races!RowId

\* And of the same steps.
LEMMA SameStep == Meet!Next <=> Races!Next
  BY Zenon DEF Meet!Acknowledge, Races!Acknowledge, Meet!AdminClose, Races!AdminClose, Meet!AdminGrant,
         Races!AdminGrant, Meet!AdminNote, Races!AdminNote, Meet!AdminPay, Races!AdminPay,
         Meet!AfterStripe, Races!AfterStripe, Meet!Amount, Races!Amount, Meet!Answerable,
         Races!Answerable, Meet!Answered, Races!Answered, Meet!At, Races!At, Meet!AttachIntent,
         Races!AttachIntent, Meet!Begin, Races!Begin, Meet!Call, Races!Call, Meet!Cardinality,
         Races!Cardinality, Meet!CheckoutStep, Races!CheckoutStep, Meet!Claim, Races!Claim, Meet!Clashes,
         Races!Clashes, Meet!CloseIntent, Races!CloseIntent, Meet!CompleteStay, Races!CompleteStay,
         Meet!ConfirmInstantBook, Races!ConfirmInstantBook, Meet!Covered, Races!Covered,
         Meet!CreateIntent, Races!CreateIntent, Meet!DecideConfirm, Races!DecideConfirm, Meet!DecideStep,
         Races!DecideStep, Meet!Deliver, Races!Deliver, Meet!Done, Races!Done, Meet!DropNothing,
         Races!DropNothing, Meet!ExpireUnpaid, Races!ExpireUnpaid, Meet!FindUnpaid, Races!FindUnpaid,
         Meet!FailPending, Races!FailPending, Meet!FinishCancel, Races!FinishCancel,
         Meet!FinishDecline, Races!FinishDecline, Meet!Goto, Races!Goto, Meet!Idle, Races!Idle,
         Meet!IsCovered, Races!IsCovered, Meet!IsFiniteSet, Races!IsFiniteSet, Meet!LastRow,
         Races!LastRow, Meet!Left, Races!Left, Meet!Live, Races!Live, Meet!LiveIntent, Races!LiveIntent,
         Meet!Look, Races!Look, Meet!LoseRequest, Races!LoseRequest, Meet!MarkPaymentRefunded,
         Races!MarkPaymentRefunded, Meet!Max, Races!Max, Meet!Merge, Races!Merge, Meet!Min, Races!Min,
         Meet!Next, Races!Next, Meet!NoRow, Races!NoRow, Meet!Pay, Races!Pay, Meet!PayFails,
         Races!PayFails, Meet!PaymentStatus, Races!PaymentStatus, Meet!PayStatus, Races!PayStatus,
         Meet!Rebook, Races!Rebook, Meet!RecordEvent, Races!RecordEvent, Meet!RecordStripePayment,
         Races!RecordStripePayment, Meet!Refunded, Races!Refunded, Meet!RefundStep, Races!RefundStep,
         Meet!ReleaseOwnHold, Races!ReleaseOwnHold, Meet!Replayed, Races!Replayed, Meet!Reverse,
         Races!Reverse, Meet!RowId, Races!RowId, Meet!Rows, Races!Rows, Meet!SettlePayment,
         Races!SettlePayment, Meet!Start, Races!Start, Meet!StartAdminCancel, Races!StartAdminCancel,
         Meet!StartAdminRefund, Races!StartAdminRefund, Meet!StartCancel, Races!StartCancel,
         Meet!StartCheckout, Races!StartCheckout, Meet!StartConfirm, Races!StartConfirm,
         Meet!StartDecline, Races!StartDecline, Meet!StripeCall, Races!StripeCall, Meet!StripeCancel,
         Races!StripeCancel, Meet!StripeCapture, Races!StripeCapture, Meet!StripeDoes, Races!StripeDoes,
         Meet!StripeRefund, Races!StripeRefund, Meet!StripeRejects, Races!StripeRejects, Meet!stripeVars,
         Races!stripeVars, Meet!SweepStep, Races!SweepStep, Meet!Threw, Races!Threw, Meet!Unclaim,
         Races!Unclaim, Meet!WebhookStep, Races!WebhookStep

\* The same types.
LEMMA SameTypes == Meet!TypeOK <=> Races!TypeOK
  BY Zenon DEF Meet!Amount, Races!Amount, Meet!Event, Races!Event, Meet!HandlerNames, Races!HandlerNames,
         Meet!IntentState, Races!IntentState, Meet!Key, Races!Key, Meet!Live, Races!Live, Meet!PayStatus,
         Races!PayStatus, Meet!Request, Races!Request, Meet!Row, Races!Row, Meet!RowId, Races!RowId,
         Meet!Status, Races!Status, Meet!Step, Races!Step, Meet!TypeOK, Races!TypeOK

\* And the same properties.
LEMMA SameProperties ==
    /\ Meet!OneIntent <=> Races!OneIntent
    /\ Meet!DeclinedGivesBack <=> Races!DeclinedGivesBack
    /\ Meet!PaidMeansTaken <=> Races!PaidMeansTaken
  BY Zenon DEF Meet!DeclinedGivesBack, Races!DeclinedGivesBack, Meet!OneIntent, Races!OneIntent,
         Meet!PaidMeansTaken, Races!PaidMeansTaken, Meet!Quiet, Races!Quiet, Meet!Returned,
         Races!Returned, Meet!RowId, Races!RowId

\* The invariant that is kept: types, and of one intent what went back and what was taken.
RacesInv ==
    /\ Meet!MoneyInv
    /\ Meet!OneOf(racesIntent) => Meet!BackInv /\ (AtMostTwo => Meet!TakenInv)

\* The booking starts so.
LEMMA RacesStart == Races!Init => RacesInv
  BY SameStart, MeetAssumption, Meet!InitTypes, Meet!BackInit, Meet!TakenInit DEF RacesInv

\* A step of the part, or none, keeps it.
LEMMA RacesStep == ASSUME RacesInv, [Races!Next]_racesVars PROVE RacesInv'
  <1>1. [Meet!Next]_(Meet!vars)
    BY SameStep DEF racesVars, Meet!vars, Meet!stripeVars
  <1>2. Meet!MoneyInv /\ Meet!MoneyInv'
    BY <1>1, MeetAssumption, Meet!StepTypes DEF RacesInv
  <1>3. ASSUME Meet!OneOf(racesIntent') PROVE Meet!BackInv' /\ (AtMostTwo => Meet!TakenInv')
    <2>1. Meet!OneOf(racesIntent)
      BY <1>1, <1>2, <1>3, MeetAssumption, Meet!OneBefore
    <2>2. Meet!BackInv /\ (AtMostTwo => Meet!TakenInv)
      BY <2>1 DEF RacesInv
    <2>3. Meet!BackInv'
      BY <1>1, <1>2, <1>3, <2>2, MeetAssumption, Meet!BackKeeps
    <2>4. ASSUME AtMostTwo PROVE Meet!TakenInv'
      <3>1. Meet!Two
        BY <2>4 DEF AtMostTwo, Meet!Two
      <3> QED BY <1>1, <1>2, <1>3, <2>2, <2>4, <3>1, MeetAssumption, Meet!TakenKeeps
    <2> QED BY <2>3, <2>4
  <1> QED BY <1>2, <1>3 DEF RacesInv

\* What the invariant says.
LEMMA RacesHold ==
    RacesInv => /\ Races!TypeOK
                /\ Races!OneIntent => Races!DeclinedGivesBack
                /\ Races!OneIntent /\ AtMostTwo => Races!PaidMeansTaken
  <1> SUFFICES ASSUME RacesInv
               PROVE  /\ Races!TypeOK
                      /\ Races!OneIntent => Races!DeclinedGivesBack
                      /\ Races!OneIntent /\ AtMostTwo => Races!PaidMeansTaken
    OBVIOUS
  <1>1. Meet!MoneyInv
    BY DEF RacesInv
  <1>2. Races!TypeOK
    BY <1>1, SameTypes DEF Meet!MoneyInv
  <1>3. ASSUME Races!OneIntent PROVE Meet!BackInv /\ (AtMostTwo => Meet!TakenInv)
    BY <1>3 DEF RacesInv, Races!OneIntent, Meet!OneOf
  <1>4. Races!OneIntent => Races!DeclinedGivesBack
    BY <1>1, <1>3, SameProperties, MeetAssumption, Meet!DeclinedIsBack
  <1>5. Races!OneIntent /\ AtMostTwo => Races!PaidMeansTaken
    BY <1>3, SameProperties, MeetAssumption, Meet!PaidIsTaken
  <1> QED BY <1>2, <1>4, <1>5

-------------------------------------------------------------------------------
(* The parts together                                                      *)

\* The inductive invariant of each part, where it runs.
PartsInv ==
    /\ part = "races" => RacesInv
    /\ part = "serial" => SerialInv /\ (Serial!OneIntent => HonestInv)
    /\ part = "chat" => ChatInv
    /\ part = "wizard" => WizardInv
    /\ part = "items" => ItemsInv
    /\ part = "places" => PlacesInv

\* Each part keeps its invariant.
LEMMA PartsHold == SumSpec => []PartsInv
  <1>1. SumInit => PartsInv
    BY RacesStart, SerialStarts, HonestStarts, ChatInit, WizardInit, ItemsInit, PlacesInit DEF SumInit, PartsInv
  <1>2. PartsInv /\ [SumNext]_sumVars => PartsInv'
    <2> SUFFICES ASSUME PartsInv, [SumNext]_sumVars PROVE PartsInv'
      OBVIOUS
    <2>1. part' = part
      BY DEF SumNext, sumVars
    <2>2. part = "chat" => ChatInv'
      <3>1. part = "chat" => ChatInv /\ [Chat!Next]_chatVars
        BY DEF SumNext, sumVars, PartsInv
      <3> QED BY <3>1, ChatStep
    <2>3. part = "wizard" => WizardInv'
      <3>1. part = "wizard" => WizardInv /\ [Wizard!Next]_wizardVars
        BY DEF SumNext, sumVars, PartsInv
      <3> QED BY <3>1, WizardStep
    <2>4. part = "items" => ItemsInv'
      <3>1. part = "items" => ItemsInv /\ [Items!Next]_itemVars
        BY DEF SumNext, sumVars, listVars, PartsInv
      <3> QED BY <3>1, ItemsStep
    <2>5. part = "places" => PlacesInv'
      <3>1. part = "places" => PlacesInv /\ [Places!Next]_placeVars
        BY DEF SumNext, sumVars, listVars, PartsInv
      <3> QED BY <3>1, PlacesStep
    <2>6. part = "serial" => SerialInv' /\ (Serial!OneIntent => HonestInv)'
      <3>1. part = "serial" => SerialInv /\ (Serial!OneIntent => HonestInv) /\ [Serial!Next]_serialVars
        BY DEF SumNext, sumVars, PartsInv
      <3> QED BY <3>1, SerialStep, HonestStep
    <2>7. part = "races" => RacesInv'
      <3>1. part = "races" => RacesInv /\ [Races!Next]_racesVars
        BY DEF SumNext, sumVars, PartsInv
      <3> QED BY <3>1, RacesStep
    <2> QED BY <2>1, <2>2, <2>3, <2>4, <2>5, <2>6, <2>7 DEF PartsInv
  <1> QED BY <1>1, <1>2, PTL DEF SumSpec

\* The register is right: of a booking with one intent a decline has given everything
\* back, what counts as paid was taken when no more than two requests meet, and no row
\* claims more than went back when they follow each other; and every part keeps to its
\* types (RefundsRegistered).
THEOREM RegisterIsRight == SumSpec => []RefundsRegistered
  <1>1. PartsInv => RefundsRegistered
    <2> SUFFICES ASSUME PartsInv PROVE RefundsRegistered
      OBVIOUS
    <2>1. part = "races" => RacesInv
      BY DEF PartsInv
    <2>2. part = "serial" => SerialInv /\ (Serial!OneIntent => HonestInv)
      BY DEF PartsInv
    <2>3. TypesOK
      BY <2>1, <2>2, RacesHold, WizardTypes DEF PartsInv, TypesOK, SerialInv, ChatInv, ItemsInv, PlacesInv
    <2> QED BY <2>1, <2>2, <2>3, RacesHold, HonestHolds DEF RefundsRegistered
  <1> QED BY <1>1, PartsHold, PTL

\* While requests follow each other, the money is where the status of the booking says:
\* back with the guest when he paid too late, taken or held for a confirmed stay, and
\* untouched when an attempt to close the booking failed (MoneyFollowsStatus).
THEOREM MoneyStaysWithStatus == SumSpec => []MoneyFollowsStatus
  <1>1. PartsInv => MoneyFollowsStatus
    BY SerialHolds DEF PartsInv, MoneyFollowsStatus
  <1> QED BY <1>1, PartsHold, PTL

\* What is marked read by opening the conversation is in that answer, however it is
\* interleaved with messages and other readers (ReadIsShown).
THEOREM MarkedIsShown == SumSpec => []ReadIsShown
  <1>1. PartsInv => ReadIsShown
    BY DEF PartsInv, ReadIsShown, ChatInv
  <1> QED BY <1>1, PartsHold, PTL

\* An overview, a queue, a search and the dashboards place a listing alike (ListsAgree).
THEOREM ListsPlaceAlike == SumSpec => []ListsAgree
  <1>1. PartsInv => ListsAgree
    BY ListsFollow DEF PartsInv, ListsAgree
  <1> QED BY <1>1, PartsHold, PTL

\* What a listing uses is in the lists, its type unless its deletion and the save
\* overlapped (UsedItemsExist).
THEOREM UsedIsKept == SumSpec => []UsedItemsExist
  <1>1. PartsInv => UsedItemsExist
    BY DEF PartsInv, UsedItemsExist, ItemsInv
  <1> QED BY <1>1, PartsHold, PTL

\* Servers that start together leave every default place that nobody took away, unless
\* a seeding was cut short (DefaultsAreThere).
THEOREM SeedingIsComplete == SumSpec => []DefaultsAreThere
  <1>1. PlacesInv => Places!DefaultsAreThere
    BY DEF PlacesInv, PlacesCovered, Places!DefaultsAreThere, Places!Seeding
  <1>2. PartsInv => DefaultsAreThere
    BY <1>1 DEF PartsInv, DefaultsAreThere
  <1> QED BY <1>2, PartsHold, PTL

\* However saves of one id overlap, a stay keeps its host and only the host and the
\* administrators rewrite it (StaysKeepTheirHost).
THEOREM HostsKeepTheirStays == SumSpec => StaysKeepTheirHost
  <1>1. PartsInv /\ [SumNext]_sumVars => [Wizard!HostKept]_(Wizard!vars)
    <2> SUFFICES ASSUME PartsInv, [SumNext]_sumVars, ~UNCHANGED Wizard!vars PROVE Wizard!HostKept
      OBVIOUS
    <2>1. WizardInv /\ [Wizard!Next]_wizardVars
      BY DEF SumNext, sumVars, PartsInv, Wizard!vars, wizardVars
    <2> QED BY <2>1, HostStep DEF Wizard!HostKept, Wizard!At
  <1> QED BY <1>1, PartsHold, PTL DEF SumSpec, StaysKeepTheirHost, Wizard!StaysKeepTheirHost
===============================================================================
