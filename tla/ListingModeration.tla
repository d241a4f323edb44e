--------------------------- MODULE ListingModeration ---------------------------
(***************************************************************************)
(* A host's stays and the moderators: saving and publishing a listing,     *)
(* approval, refusal, suspension, the ban of the host and its end, and     *)
(* deletion while guests book.  Each handler is a script of statements,    *)
(* and the scripts of concurrent requests interleave.                      *)
(*                                                                         *)
(* What a listing says is abstracted to how it stands with the moderators: *)
(*   none       nothing was saved yet                                      *)
(*   private    saved as a draft or suspended, never approved              *)
(*   published  saved as published, and not approved since                 *)
(*   reviewed   what an administrator approved                             *)
(*   amended    saved as a draft or suspended after an approval            *)
(* `ban` is history: it says how the last ban was carried out.             *)
(***************************************************************************)
EXTENDS Naturals, Sequences, FiniteSets

CONSTANTS Listing,      \* the stays of one host
          Req,          \* request handlers
          Ops,          \* the operations requests may ask for
          Env,          \* subset of {"dbDown", "guest"}
          None

VARIABLES listing,      \* rows of listing and property
          host,         \* the host's account and identity document
          stays,        \* a listing's bookings: none, or booked
          log,          \* last decision in moderation_log, per listing; "astray"
                        \* once the order of the decisions is lost
          req,          \* requests in flight
          ban

vars == <<listing, host, stays, log, req, ban>>

Status  == {"draft", "published", "suspended"}
Text    == {"private", "published", "reviewed", "amended"}
ListingRow == [status: Status, approved: BOOLEAN, photos: BOOLEAN, text: Text]

OpNames == {"save", "status", "delete", "approve", "reject", "suspend", "restore",
            "ban", "unban"}

ASSUME ModerationAssumption == Ops \subseteq OpNames /\ None \notin ListingRow

Actions == {"listing_approved", "listing_rejected", "listing_suspended",
            "listing_published"}

\* The statements of each route, in order.
SaveRoute      == <<"identity", "save">>
StatusRoute    == <<"owner", "setStatus">>
DeleteRoute    == <<"countStays", "delete">>
ApproveRoute   == <<"loadApproval", "approve", "log">>
RejectRoute    == <<"load", "reject", "log">>
SuspendRoute   == <<"loadLive", "suspend", "log">>
RestoreRoute   == <<"loadSuspended", "restore", "log">>
BanRoute       == <<"banUser", "banListings">>
UnbanRoute     == <<"unbanUser", "unbanListings">>

Script(op) ==
    CASE op = "save"      -> SaveRoute
      [] op = "status"    -> StatusRoute
      [] op = "delete"    -> DeleteRoute
      [] op = "approve"   -> ApproveRoute
      [] op = "reject"    -> RejectRoute
      [] op = "suspend"   -> SuspendRoute
      [] op = "restore"   -> RestoreRoute
      [] op = "ban"       -> BanRoute
      [] op = "unban"     -> UnbanRoute

HostOps  == {"save", "status", "delete"}
Decision == [approve |-> "listing_approved", reject |-> "listing_rejected",
             suspend |-> "listing_suspended", restore |-> "listing_published"]

Idle == [op |-> "none"]

InFlight == {r \in Req : req[r] # Idle}

\* The request stands before the statement.
At(r, step) == req[r] # Idle /\ Script(req[r].op)[req[r].at] = step

\* The request goes on to its next statement, or answers.
Goes(q) == IF q.at = Len(Script(q.op)) THEN Idle ELSE [q EXCEPT !.at = @ + 1]

Proceed(r)    == req' = [req EXCEPT ![r] = Goes(@)]
Remember(r, x) == req' = [req EXCEPT ![r] = Goes([@ EXCEPT !.approved = x])]
Refuse(r)     == /\ req' = [req EXCEPT ![r] = Idle]
                 /\ UNCHANGED <<listing, host, stays, log, ban>>

Exists(l) == listing[l] # None

\* Guest search and the public stay page show published, approved listings.
VisibleRow(row) == row.status = "published" /\ row.approved
Visible(l)      == Exists(l) /\ VisibleRow(listing[l])

Moderating(l) == {r \in InFlight : req[r].l = l /\ req[r].op \in DOMAIN Decision}

-----------------------------------------------------------------------------
Init ==
    /\ listing = [l \in Listing |-> None]
    /\ host = [banned |-> FALSE, filed |-> FALSE]
    /\ stays = [l \in Listing |-> "none"]
    /\ log = [l \in Listing |-> None]
    /\ req = [r \in Req |-> Idle]
    /\ ban = "none"

\* Mutation of Authenticated: sessions outlive the ban.
Authenticated_Any(op) == TRUE

\* The session of a suspended account is refused before the handler runs.
Authenticated(op) == op \in HostOps => ~host.banned

\* A request arrives.  The audit trail is ordered by when each decision is
\* logged: two decisions on one listing at once may be logged in either order.
Arrive(r, op, l, status, photos) ==
    /\ req[r] = Idle
    /\ Authenticated(op)
    /\ req' = [req EXCEPT ![r] = [op |-> op, l |-> l, at |-> 1, status |-> status,
                                  photos |-> photos, approved |-> FALSE]]
    /\ log' = IF op \in DOMAIN Decision /\ Moderating(l) # {}
              THEN [log EXCEPT ![l] = "astray"] ELSE log
    /\ UNCHANGED <<listing, host, stays, ban>>

\* The inputs that matter to an operation: publishBlockers asks for photos of a
\* save as published.
Ask(r) ==
    \E op \in Ops, l \in Listing, status \in Status, photos \in BOOLEAN :
        /\ op \notin {"save", "status"} => status = "draft"
        /\ op # "save" => photos = FALSE
        /\ op \in {"ban", "unban"} => l = CHOOSE x \in Listing : TRUE
        /\ op = "save" /\ status = "published" => photos
        /\ Arrive(r, op, l, status, photos)

-----------------------------------------------------------------------------
(* The host.                                                               *)

\* A save as published that names no listing needs an identity document on file.
\* Naming one is up to the client, whether the listing is there or not.
CheckIdentity(r) ==
    /\ At(r, "identity")
    /\ \E named \in BOOLEAN : ~named /\ req[r].status = "published" => host.filed
    /\ Proceed(r)
    /\ UNCHANGED <<listing, host, stays, log, ban>>

IdentityMissing(r) ==
    /\ At(r, "identity")
    /\ req[r].status = "published" /\ ~host.filed
    /\ Refuse(r)

\* What a saved text is to the moderators.
Saved(row, status) ==
    IF status = "published" THEN "published"
    ELSE IF row # None /\ row.text \in {"reviewed", "amended"} THEN "amended"
    ELSE "private"

\* Mutation of Approval: a listing that was approved stays approved.
Approval_Kept(row, status) == row # None /\ row.approved

\* Saving as published asks for a new approval, other saves keep the approval the
\* listing has.
Approval(row, status) == row # None /\ status # "published" /\ row.approved

SaveListing(r) ==
    LET q == req[r]  row == listing[q.l] IN
    /\ At(r, "save")
    /\ listing' = [listing EXCEPT ![q.l] =
            [status   |-> q.status,
             approved |-> Approval(row, q.status),
             photos   |-> q.photos,
             text     |-> Saved(row, q.status)]]
    /\ Proceed(r)
    /\ UNCHANGED <<host, stays, log, ban>>

\* The owner check of the host routes, which reads the row.
CheckOwner(r) ==
    /\ At(r, "owner")
    /\ IF Exists(req[r].l)
       THEN Proceed(r) /\ UNCHANGED <<listing, host, stays, log, ban>>
       ELSE Refuse(r)

SetListingStatus(r) ==
    LET q == req[r] IN
    /\ At(r, "setStatus")
    /\ IF Exists(q.l)
       THEN /\ listing' = [listing EXCEPT ![q.l].status = q.status]
            /\ Proceed(r)
            /\ UNCHANGED <<host, stays, log, ban>>
       ELSE Refuse(r)

\* Deletion counts the bookings first.
CountStays(r) ==
    /\ At(r, "countStays")
    /\ IF Exists(req[r].l) /\ stays[req[r].l] = "none"
       THEN Proceed(r) /\ UNCHANGED <<listing, host, stays, log, ban>>
       ELSE Refuse(r)

\* Mutation of HeldByBooking: the count is relied upon.
HeldByBooking_Counted(l) == FALSE

\* booking.property_id is ON DELETE RESTRICT: the statement fails when a
\* booking was made since the count.
HeldByBooking(l) == stays[l] # "none"

DeleteListing(r) ==
    LET l == req[r].l IN
    /\ At(r, "delete")
    /\ IF HeldByBooking(l) THEN Refuse(r)
       ELSE /\ listing' = [listing EXCEPT ![l] = None]
            /\ log' = [log EXCEPT ![l] =
                    IF @ = "astray" /\ Moderating(l) # {} THEN @ ELSE None]
            /\ Proceed(r)
            /\ UNCHANGED <<host, stays, ban>>

-----------------------------------------------------------------------------
(* The moderators.  Each handler loads the listing, decides and updates it. *)

\* What each handler refuses to act on.
Refused(step, row) ==
    CASE step = "load"          -> FALSE
      [] step = "loadApproval"  -> VisibleRow(row) \/ ~row.photos
      [] step = "loadLive"      -> row.status = "suspended"
      [] step = "loadSuspended" -> row.status # "suspended"

LoadListing(r) ==
    \E step \in {"load", "loadApproval", "loadLive", "loadSuspended"} :
        /\ At(r, step)
        /\ IF Exists(req[r].l) /\ ~Refused(step, listing[req[r].l])
           THEN /\ Remember(r, step = "loadSuspended" /\ listing[req[r].l].approved)
                /\ UNCHANGED <<listing, host, stays, log, ban>>
           ELSE Refuse(r)

\* A decision is carried out; a listing deleted since the load is not found
\* when the row is loaded again, and the request fails.
Decide(r, row) ==
    LET l == req[r].l IN
    IF ~Exists(l) THEN Refuse(r)
    ELSE /\ listing' = [listing EXCEPT ![l] = row]
         /\ Proceed(r)
         /\ ban' = IF host.banned /\ VisibleRow(row) THEN "crossed" ELSE ban
         /\ UNCHANGED <<host, stays, log>>

ApproveListing(r) ==
    /\ At(r, "approve")
    /\ Decide(r, [listing[req[r].l] EXCEPT !.approved = TRUE, !.status = "published",
                                           !.text = "reviewed"])

\* Mutation of RejectListing: the approval of an earlier version is left.
RejectListing_Draft(r) ==
    /\ At(r, "reject")
    /\ Decide(r, [listing[req[r].l] EXCEPT !.status = "draft"])

RejectListing(r) ==
    /\ At(r, "reject")
    /\ Decide(r, [listing[req[r].l] EXCEPT !.approved = FALSE, !.status = "draft"])

SuspendListing(r) ==
    /\ At(r, "suspend")
    /\ Decide(r, [listing[req[r].l] EXCEPT !.status = "suspended"])

\* Where a suspended listing goes depends on the approval that was loaded.
RestoreListing(r) ==
    /\ At(r, "restore")
    /\ Decide(r, [listing[req[r].l] EXCEPT
            !.status = IF req[r].approved THEN "published" ELSE "draft"])

\* The audit entry is a statement of its own, after the decision.
RecordModeration(r) ==
    /\ At(r, "log")
    /\ log' = [log EXCEPT ![req[r].l] = IF @ = "astray" THEN @ ELSE Decision[req[r].op]]
    /\ Proceed(r)
    /\ UNCHANGED <<listing, host, stays, ban>>

-----------------------------------------------------------------------------
(* The ban: the account first, then its listings, in two statements.       *)

Others(r) == InFlight \ {r}

BanUser(r) ==
    /\ At(r, "banUser")
    /\ host' = [host EXCEPT !.banned = TRUE]
    /\ ban' = IF Others(r) = {} THEN "sealing" ELSE "crossed"
    /\ Proceed(r)
    /\ UNCHANGED <<listing, stays, log>>

WithStatus(row, from, to) ==
    IF row # None /\ row.status = from THEN [row EXCEPT !.status = to] ELSE row

BanListings(r) ==
    /\ At(r, "banListings")
    /\ listing' = [l \in Listing |-> WithStatus(listing[l], "published", "suspended")]
    /\ ban' = IF ban = "sealing" /\ Others(r) = {} THEN "sealed" ELSE "crossed"
    /\ Proceed(r)
    /\ UNCHANGED <<host, stays, log>>

UnbanUser(r) ==
    /\ At(r, "unbanUser")
    /\ host' = [host EXCEPT !.banned = FALSE]
    /\ ban' = "none"
    /\ Proceed(r)
    /\ UNCHANGED <<listing, stays, log>>

UnbanListings(r) ==
    /\ At(r, "unbanListings")
    /\ listing' = [l \in Listing |->
            IF listing[l] # None /\ listing[l].approved
            THEN WithStatus(listing[l], "suspended", "published") ELSE listing[l]]
    /\ ban' = IF host.banned THEN "crossed" ELSE ban
    /\ Proceed(r)
    /\ UNCHANGED <<host, stays, log>>

-----------------------------------------------------------------------------
(* The rest of the system.                                                 *)

\* The host files an identity document.
FileIdentity ==
    /\ ~host.banned /\ ~host.filed
    /\ host' = [host EXCEPT !.filed = TRUE]
    /\ UNCHANGED <<listing, stays, log, req, ban>>

\* A guest books a stay that is shown; the booking is kept for good.
GuestBooks(l) ==
    /\ "guest" \in Env
    /\ Visible(l)
    /\ stays' = [stays EXCEPT ![l] = "booked"]
    /\ UNCHANGED <<listing, host, log, req, ban>>

\* A statement fails: the request answers 500 and what it did before stays.
StatementFails(r) ==
    /\ "dbDown" \in Env
    /\ req[r] # Idle
    /\ req' = [req EXCEPT ![r] = Idle]
    /\ log' = IF At(r, "log") THEN [log EXCEPT ![req[r].l] = "astray"] ELSE log
    /\ ban' = IF At(r, "banListings") THEN "crossed" ELSE ban
    /\ UNCHANGED <<listing, host, stays>>

HandlerStep(r) ==
    \/ Ask(r)
    \/ CheckIdentity(r) \/ IdentityMissing(r) \/ SaveListing(r)
    \/ CheckOwner(r) \/ SetListingStatus(r) \/ CountStays(r) \/ DeleteListing(r)
    \/ LoadListing(r) \/ ApproveListing(r) \/ RejectListing(r) \/ SuspendListing(r)
    \/ RestoreListing(r) \/ RecordModeration(r)
    \/ BanUser(r) \/ BanListings(r) \/ UnbanUser(r) \/ UnbanListings(r)
    \/ StatementFails(r)

Next ==
    \/ \E r \in Req : HandlerStep(r)
    \/ FileIdentity
    \/ \E l \in Listing : GuestBooks(l)

Spec == Init /\ [][Next]_vars

-----------------------------------------------------------------------------
TypeOK ==
    /\ listing \in [Listing -> ListingRow \cup {None}]
    /\ host \in [banned: BOOLEAN, filed: BOOLEAN]
    /\ stays \in [Listing -> {"none", "booked"}]
    /\ log \in [Listing -> Actions \cup {"astray", None}]
    /\ ban \in {"none", "sealing", "sealed", "crossed"}

\* A text the host saved as published is shown to guests only after an approval
\* made later than the save, whatever drafts, suspensions, bans and restorations
\* come in between.
ShownWasApproved ==
    \A l \in Listing : Visible(l) => listing[l].text \in {"reviewed", "amended"}

\* What the comment of the upsert says: an edited version only goes public once
\* an administrator approves it again.
EditedIsReviewed == \A l \in Listing : Visible(l) => listing[l].text = "reviewed"

\* A ban that no other request crossed takes the host's stays offline, and they
\* stay so until an administrator readmits one or lifts the ban.
BannedIsOffline ==
    host.banned /\ ban = "sealed" => \A l \in Listing : ~Visible(l)

\* A guest never loses the stay of a booking: a listing with bookings is there.
BookedStaysListed == \A l \in Listing : stays[l] # "none" => Exists(l)

\* What guests are shown is fit to be: each of the three above.
PublicIsFit == ShownWasApproved /\ BannedIsOffline /\ BookedStaysListed

\* The audit trail tells the truth: a listing whose last logged decision is a
\* refusal is not live, unless two decisions crossed or an entry was lost.
TrailIsTrue ==
    \A l \in Listing :
        log[l] = "listing_rejected" /\ Moderating(l) = {} => ~Visible(l)
===============================================================================
