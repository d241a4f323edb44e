----------------------------- MODULE MemberErasure -----------------------------
(***************************************************************************)
(* One member, who is let in (middleware/auth.ts), writes personal data,   *)
(* books a stay and hosts one, is suspended or banned, and has the account *)
(* erased (deleteOwnAccount).  Nothing locks a member's row between the    *)
(* checks of a handler and its writes.                                     *)
(*                                                                         *)
(* The erasing transaction is one step.  What is written while it is open  *)
(* and it does not see stays, as what is written after it.                 *)
(***************************************************************************)
EXTENDS AccountConstants

VARIABLES member,   \* the member's rows
          listing,  \* the member's listing, approved: can it be booked
          stay,     \* one stay, and what the host is owed for it
          req,      \* the requests in flight
          history   \* what the properties refer to

vars == <<member, listing, stay, req, history>>

\* Personal data the erasure covers: columns of app_user, and rows that only serve
\* the member (user_avatar, user_role_grant).  IdentityCheck has the documents.
Kind == {"profile", "rows"}

\* until: the end of the suspension, if it has one.
Member == [deleted : BOOLEAN, suspended : BOOLEAN, banned : BOOLEAN,
           until : {"none", "ahead", "passed"}, password : BOOLEAN,
           ticket : BOOLEAN, data : SUBSET Kind]

\* live: pending or confirmed and not over yet; over: what it earned is not in a
\* payout; scheduled: it is.
Stay == [party : {"guest", "host"}, stage : {"none", "live", "over", "scheduled"}]

RequestStep == {"idle", "save", "book", "insert", "sale", "load", "check", "erase",
                "hide", "show"}

\* beside: what others did to a member whose erasure was past the check of it;
\* readmitted: an administrator restored a deleted member, or suspended one for a
\* time; restored: restored a banned one.
History == [beside : SUBSET {"save", "deal", "suspend"}, readmitted : BOOLEAN,
            restored : BOOLEAN]

NoStay == [party |-> "guest", stage |-> "none"]

Init ==
    /\ member = [deleted |-> FALSE, suspended |-> FALSE, banned |-> FALSE, until |-> "none",
                 password |-> TRUE, ticket |-> FALSE, data |-> {"profile"}]
    /\ listing = TRUE
    /\ stay = NoStay
    /\ req = [r \in Request |-> "idle"]
    /\ history = [beside |-> {}, readmitted |-> FALSE, restored |-> FALSE]

-------------------------------------------------------------------------------
Goto(r, pc) == req' = [req EXCEPT ![r] = pc]

InFlight(pcs) == \E r \in Request : req[r] \in pcs

\* Mutation of LetIn: the session is taken at its word.
LetIn_Any == TRUE

\* contextFromToken: of the account only the suspension is looked at.
LetIn == ~member.suspended

Begin(r) ==
    /\ req[r] = "idle" /\ LetIn
    /\ \E pc \in {"save", "book", "load"} : Goto(r, pc)
    /\ UNCHANGED <<member, listing, stay, history>>

\* updateProfile, saveAvatar or grantRole: none looks at deleted_at before it writes.
SaveData(r) ==
    /\ req[r] = "save"
    /\ \E k \in Kind : member' = [member EXCEPT !.data = @ \cup {k}]
    /\ Goto(r, "idle")
    /\ UNCHANGED <<listing, stay, history>>

\* createBooking looks at the guest's suspension again ...
CheckGuest(r) ==
    /\ req[r] = "book"
    /\ Goto(r, IF member.suspended THEN "idle" ELSE "insert")
    /\ UNCHANGED <<member, listing, stay, history>>

\* ... and inserts later.
InsertBooking(r, pc, party) ==
    /\ req[r] = pc /\ stay.stage = "none"
    /\ stay' = [party |-> party, stage |-> "live"]
    /\ history' = [history EXCEPT !.beside = IF InFlight({"erase"}) THEN @ \cup {"deal"} ELSE @]
    /\ Goto(r, "idle")
    /\ UNCHANGED <<member, listing>>

BookStay(r) == InsertBooking(r, "insert", "guest")

\* Somebody else's createBooking reads the listing of the member.
CheckListing(r) ==
    /\ req[r] = "idle" /\ listing
    /\ Goto(r, "sale")
    /\ UNCHANGED <<member, listing, stay, history>>

SellStay(r) == InsertBooking(r, "sale", "host")

\* Cancelled, or over: the guest is through with it, the host is owed for it.
EndStay ==
    /\ stay.stage = "live"
    /\ \/ stay' = NoStay
       \/ stay.party = "host" /\ stay' = [stay EXCEPT !.stage = "over"]
    /\ UNCHANGED <<member, listing, req, history>>

\* createPayoutForHost.
SchedulePayout ==
    /\ stay.stage = "over"
    /\ stay' = [stay EXCEPT !.stage = "scheduled"]
    /\ UNCHANGED <<member, listing, req, history>>

\* markPayoutPaid.
PayOut ==
    /\ stay.stage = "scheduled"
    /\ stay' = NoStay
    /\ UNCHANGED <<member, listing, req, history>>

-------------------------------------------------------------------------------
\* exchangeResetCodeForTicket: the member is found by the address, which the
\* erasure replaces.
TakeTicket ==
    /\ ~member.deleted /\ ~member.ticket
    /\ member' = [member EXCEPT !.ticket = TRUE]
    /\ UNCHANGED <<listing, stay, req, history>>

\* resetPasswordWithToken finds the member by the ticket alone.
ResetPassword ==
    /\ member.ticket
    /\ member' = [member EXCEPT !.ticket = FALSE, !.password = TRUE]
    /\ UNCHANGED <<listing, stay, req, history>>

\* deleteOwnAccount: the row is loaded and the password compared,
LoadMember(r) ==
    /\ req[r] = "load"
    /\ Goto(r, IF member.deleted \/ ~member.password THEN "idle" ELSE "check")
    /\ UNCHANGED <<member, listing, stay, history>>

\* Mutation of Obliged: only the member's own stays count.
Obliged_GuestOnly == stay.stage = "scheduled" \/ (stay.stage = "live" /\ stay.party = "guest")

Obliged == stay.stage \in {"live", "scheduled"}

\* then what is still owed is looked up,
CheckObligations(r) ==
    /\ req[r] = "check"
    /\ Goto(r, IF Obliged THEN "idle" ELSE "erase")
    /\ UNCHANGED <<member, listing, stay, history>>

\* Mutation of Erased: the rows beside app_user are left.
Erased_ProfileOnly ==
    [member EXCEPT !.deleted = TRUE, !.suspended = TRUE, !.password = FALSE,
                   !.data = @ \ {"profile"}]

\* Mutation of Erased: the account stays open.
Erased_Open == [member EXCEPT !.deleted = TRUE, !.password = FALSE, !.data = {}]

\* host_profile and suspended_until are not touched.
Erased == [member EXCEPT !.deleted = TRUE, !.suspended = TRUE, !.password = FALSE,
                         !.data = {}]

\* What requests that are past their checks will do to the erased member.
StillToCome ==
    (IF InFlight({"save"}) THEN {"save"} ELSE {})
    \cup (IF InFlight({"insert", "sale", "show"}) THEN {"deal"} ELSE {})

\* and one transaction erases.
Erase(r) ==
    /\ req[r] = "erase"
    /\ member' = Erased
    /\ listing' = FALSE
    /\ history' = [history EXCEPT !.beside = @ \cup StillToCome]
    /\ Goto(r, "idle")
    /\ UNCHANGED stay

-------------------------------------------------------------------------------
(***************************************************************************)
(* Moderation.  Each is one UPDATE; a ban and its end touch the listings   *)
(* in a second one.                                                        *)
(***************************************************************************)
SuspendMember(until) ==
    /\ member' = [member EXCEPT !.suspended = TRUE, !.until = until]
    /\ history' = [history EXCEPT
         !.readmitted = @ \/ (member.deleted /\ until = "ahead"),
         !.beside = IF InFlight({"load", "check", "erase"}) THEN @ \cup {"suspend"} ELSE @]
    /\ UNCHANGED <<listing, stay, req>>

LetBackIn ==
    history' = [history EXCEPT !.readmitted = @ \/ member.deleted,
                               !.restored   = @ \/ member.banned]

RestoreMember ==
    /\ member' = [member EXCEPT !.suspended = FALSE, !.until = "none"]
    /\ LetBackIn
    /\ UNCHANGED <<listing, stay, req>>

\* Mutation of LiftExpiredSuspensions: a ban is not looked at.
LiftExpiredSuspensions_Banned ==
    /\ member.suspended /\ member.until = "passed"
    /\ member' = [member EXCEPT !.suspended = FALSE, !.until = "none"]
    /\ UNCHANGED <<listing, stay, req, history>>

LiftExpiredSuspensions ==
    /\ member.suspended /\ ~member.banned /\ member.until = "passed"
    /\ member' = [member EXCEPT !.suspended = FALSE, !.until = "none"]
    /\ UNCHANGED <<listing, stay, req, history>>

SuspensionEnds ==
    /\ member.until = "ahead"
    /\ member' = [member EXCEPT !.until = "passed"]
    /\ UNCHANGED <<listing, stay, req, history>>

BanMember(r) ==
    /\ req[r] = "idle"
    /\ member' = [member EXCEPT !.banned = TRUE, !.suspended = TRUE, !.until = "none"]
    /\ Goto(r, "hide")
    /\ UNCHANGED <<listing, stay, history>>

HideListings(r) ==
    /\ req[r] = "hide"
    /\ listing' = FALSE
    /\ Goto(r, "idle")
    /\ UNCHANGED <<member, stay, history>>

LiftBan(r) ==
    /\ req[r] = "idle"
    /\ member' = [member EXCEPT !.banned = FALSE, !.suspended = FALSE, !.until = "none"]
    /\ history' = [history EXCEPT !.readmitted = @ \/ member.deleted, !.restored = FALSE]
    /\ Goto(r, "show")
    /\ UNCHANGED <<listing, stay>>

\* Every suspended listing that is approved is published, whoever took it down.
ShowListings(r) ==
    /\ req[r] = "show"
    /\ listing' = TRUE
    /\ Goto(r, "idle")
    /\ UNCHANGED <<member, stay, history>>

\* A request ends between two statements.
LoseRequest(r) ==
    /\ req[r] # "idle"
    /\ Goto(r, "idle")
    /\ UNCHANGED <<member, listing, stay, history>>

Step(r) ==
    \/ Begin(r) \/ SaveData(r)
    \/ CheckGuest(r) \/ BookStay(r) \/ CheckListing(r) \/ SellStay(r)
    \/ LoadMember(r) \/ CheckObligations(r) \/ Erase(r)
    \/ BanMember(r) \/ HideListings(r) \/ LiftBan(r) \/ ShowListings(r)
    \/ LoseRequest(r)

Next ==
    \/ \E r \in Request : Step(r)
    \/ EndStay \/ SchedulePayout \/ PayOut
    \/ TakeTicket \/ ResetPassword
    \/ \E until \in {"none", "ahead"} : SuspendMember(until)
    \/ RestoreMember \/ SuspensionEnds \/ LiftExpiredSuspensions

Spec == Init /\ [][Next]_vars

-------------------------------------------------------------------------------
TypeOK ==
    /\ member \in Member /\ listing \in BOOLEAN /\ stay \in Stay
    /\ req \in [Request -> RequestStep]
    /\ history \in History

\* The erased member is not let in again, as long as no administrator does.
Gone == member.deleted /\ ~history.readmitted

\* "the account can never be used again" (deleteOwnAccount): an erased account
\* stays suspended, unless it was being suspended for a time while it was erased
\* (the end of that suspension is kept).
ErasedStaysOut == Gone /\ "suspend" \notin history.beside => member.suspended

\* "every piece of personal data is removed": of what the erasure covers nothing
\* is left and nothing comes back, unless a request was writing it meanwhile.
ErasedStaysErased ==
    Gone /\ history.beside \cap {"save", "suspend"} = {} => member.data = {}

\* "Live obligations block the erasure": an erased member has no stay to come,
\* neither as guest nor as host, unless one was being booked meanwhile.
ErasedOwesNoStay ==
    Gone /\ history.beside = {} => stay.stage # "live"

\* "Banned accounts stay suspended" (liftExpiredSuspensions), unless an
\* administrator restores one.
BannedStaysOut == member.banned /\ ~history.restored => member.suspended
===============================================================================
