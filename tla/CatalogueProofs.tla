-------------------------- MODULE CatalogueProofs --------------------------
(***************************************************************************)
(* What guests are shown of the catalogue, for any number of listings,     *)
(* requests, keys, searches, writes and reviews: only texts that were      *)
(* approved (PublicIsFit) and the state the audit trail tells              *)
(* (TrailIsTrue), both of ListingModeration; answers of the cache no       *)
(* older than the last answered write (AnswersAreCurrent); and the rating  *)
(* of the reviews there are (RatingIsHonest).  One inductive invariant     *)
(* for each: FitInv with TrailInv, CacheInv and RatingInv.                 *)
(***************************************************************************)
EXTENDS MCCatalogue, FiniteSetTheorems, WellFoundedInduction, TLAPS

-------------------------------------------------------------------------------
(* Moderation                                                              *)

\* A request in flight stands before one of the statements of its route.
Asked == [op: OpNames, l: Listing, at: Nat, status: Status, photos: BOOLEAN, approved: BOOLEAN]
Placed(q) == q.at \in 1 .. Len(Script(q.op))

RequestsOK == /\ req \in [Req -> {Idle} \cup Asked]
              /\ \A r \in Req : req[r] # Idle => Placed(req[r])

RowsOK ==
    /\ listing \in [Listing -> ListingRow \cup {None}]
    /\ \A l \in Listing : Exists(l) /\ listing[l].approved => listing[l].text \in {"reviewed", "amended"}
    /\ stays \in [Listing -> {"none", "booked"}]
    /\ BookedStaysListed

\* While a ban is being carried out, or has been, by itself, no request of the host
\* is in flight.
BanOK ==
    /\ ban \in {"sealing", "sealed"} =>
           host.banned /\ \A r \in Req : req[r] # Idle => req[r].op \notin HostOps
    /\ ban = "sealed" => \A l \in Listing : ~Visible(l)

FitInv == RequestsOK /\ RowsOK /\ BanOK

-------------------------------------------------------------------------------
(* Routes                                                                  *)

HostSteps == {"identity", "save", "owner", "setStatus", "countStays", "delete"}

\* The statements of the host's routes are of no other route.
LEMMA HostScripts ==
    ASSUME NEW op \in OpNames, NEW n \in 1 .. Len(Script(op)), Script(op)[n] \in HostSteps
    PROVE  op \in HostOps
  <1>1. CASE op \in {"save", "status", "delete"}
    BY <1>1 DEF HostOps
  <1>2. CASE op = "approve"
    BY <1>2 DEF Script, ApproveRoute, HostSteps
  <1>3. CASE op = "reject"
    BY <1>3 DEF Script, RejectRoute, HostSteps
  <1>4. CASE op = "suspend"
    BY <1>4 DEF Script, SuspendRoute, HostSteps
  <1>5. CASE op = "restore"
    BY <1>5 DEF Script, RestoreRoute, HostSteps
  <1>6. CASE op = "ban"
    BY <1>6 DEF Script, BanRoute, HostSteps
  <1>7. CASE op = "unban"
    BY <1>7 DEF Script, UnbanRoute, HostSteps
  <1> QED BY <1>1, <1>2, <1>3, <1>4, <1>5, <1>6, <1>7 DEF OpNames

\* Every statement of the host's routes is one of those.
LEMMA HostStatements ==
    ASSUME NEW op \in HostOps, NEW n \in 1 .. Len(Script(op))
    PROVE  Script(op)[n] \in HostSteps
  <1>1. CASE op = "save"     BY <1>1 DEF Script, SaveRoute, HostSteps
  <1>2. CASE op = "status"   BY <1>2 DEF Script, StatusRoute, HostSteps
  <1>3. CASE op = "delete"   BY <1>3 DEF Script, DeleteRoute, HostSteps
  <1> QED BY <1>1, <1>2, <1>3 DEF HostOps

\* A route has statements.
LEMMA ScriptLengths == ASSUME NEW op \in OpNames PROVE Len(Script(op)) \in Nat /\ Len(Script(op)) >= 1
  <1>1. CASE op = "save"      BY <1>1 DEF Script, SaveRoute
  <1>2. CASE op = "status"    BY <1>2 DEF Script, StatusRoute
  <1>3. CASE op = "delete"    BY <1>3 DEF Script, DeleteRoute
  <1>4. CASE op = "approve"   BY <1>4 DEF Script, ApproveRoute
  <1>5. CASE op = "reject"    BY <1>5 DEF Script, RejectRoute
  <1>6. CASE op = "suspend"   BY <1>6 DEF Script, SuspendRoute
  <1>7. CASE op = "restore"   BY <1>7 DEF Script, RestoreRoute
  <1>8. CASE op = "ban"       BY <1>8 DEF Script, BanRoute
  <1>9. CASE op = "unban"     BY <1>9 DEF Script, UnbanRoute
  <1> QED BY <1>1, <1>2, <1>3, <1>4, <1>5, <1>6, <1>7, <1>8, <1>9 DEF OpNames

\* A request at a statement is in flight, and of the host at one of the host's.
LEMMA Standing ==
    ASSUME RequestsOK, NEW r \in Req, NEW step, At(r, step)
    PROVE  /\ req[r] # Idle /\ req[r] \in Asked /\ req[r].l \in Listing
           /\ step \in HostSteps <=> req[r].op \in HostOps
  <1>1. req[r] # Idle /\ req[r] \in Asked /\ Placed(req[r])
    BY DEF At, RequestsOK
  <1>2. req[r].op \in OpNames /\ req[r].l \in Listing
    BY <1>1 DEF Asked
  <1> QED BY <1>1, <1>2, HostScripts, HostStatements DEF At, Placed

-------------------------------------------------------------------------------
(* How requests move                                                       *)

\* The next statement is one of the same route.
LEMMA Onward ==
    ASSUME NEW q \in Asked, Placed(q)
    PROVE  Goes(q) = Idle \/ (Goes(q) \in Asked /\ Placed(Goes(q)) /\ Goes(q).op = q.op)
  <1>1. q.op \in OpNames /\ q.at \in Nat /\ Len(Script(q.op)) \in Nat
    BY ScriptLengths DEF Asked
  <1>2. CASE q.at = Len(Script(q.op))
    BY <1>2 DEF Goes
  <1>3. CASE q.at # Len(Script(q.op))
    <2> DEFINE p == [q EXCEPT !.at = @ + 1]
    <2>1. Goes(q) = p
      BY <1>3 DEF Goes
    <2>2. p \in Asked /\ p.op = q.op /\ p.at = q.at + 1
      BY <1>1 DEF Asked
    <2>3. p.at \in 1 .. Len(Script(q.op))
      BY <1>1, <1>3, <2>2 DEF Placed
    <2> QED BY <2>1, <2>2, <2>3 DEF Placed
  <1> QED BY <1>2, <1>3

\* What a request does to the requests: it ends or goes on, and no other moves.
Stepped(r) ==
    /\ req' \in [Req -> {Idle} \cup Asked]
    /\ \A s \in Req \ {r} : req'[s] = req[s]
    /\ req'[r] # Idle => Placed(req'[r]) /\ req'[r].op = req[r].op

\* Such a move leaves the requests at statements of their routes.
LEMMA SteppedOK ==
    ASSUME RequestsOK, NEW r \in Req, Stepped(r)
    PROVE  RequestsOK'
  BY DEF RequestsOK, Stepped

\* Going on is such a move.
LEMMA ProceedSteps ==
    ASSUME RequestsOK, NEW r \in Req, req[r] # Idle, Proceed(r)
    PROVE  Stepped(r)
  <1>1. req[r] \in Asked /\ Placed(req[r])
    BY DEF RequestsOK
  <1> DEFINE new == Goes(req[r])
  <1>2. req' = [req EXCEPT ![r] = new]
    BY DEF Proceed
  <1>3. new = Idle \/ (new \in Asked /\ Placed(new) /\ new.op = req[r].op)
    BY <1>1, Onward
  <1> HIDE DEF new
  <1> QED BY <1>2, <1>3 DEF Stepped, RequestsOK

\* So is going on with what was loaded.
LEMMA RememberSteps ==
    ASSUME RequestsOK, NEW r \in Req, req[r] # Idle, NEW x \in BOOLEAN, Remember(r, x)
    PROVE  Stepped(r)
  <1>1. req[r] \in Asked /\ Placed(req[r])
    BY DEF RequestsOK
  <1> DEFINE q == [req[r] EXCEPT !.approved = x]
             new == Goes(q)
  <1>2. req' = [req EXCEPT ![r] = new]
    BY DEF Remember
  <1>3. q \in Asked /\ q.op = req[r].op /\ q.at = req[r].at
    BY <1>1, Zenon DEF Asked
  <1>4. Placed(q)
    BY <1>1, <1>3 DEF Placed
  <1> HIDE DEF q
  <1>5. new = Idle \/ (new \in Asked /\ Placed(new) /\ new.op = req[r].op)
    BY <1>3, <1>4, Onward
  <1> HIDE DEF new
  <1> QED BY <1>2, <1>5 DEF Stepped, RequestsOK

\* So is giving up.
LEMMA RefuseSteps ==
    ASSUME RequestsOK, NEW r \in Req, Refuse(r)
    PROVE  Stepped(r)
  BY DEF Stepped, RequestsOK, Refuse

-------------------------------------------------------------------------------
(* Rows                                                                    *)

\* A row that may be written: an approval it carries is of its text.
Sound(row) == row \in ListingRow /\ (row.approved => row.text \in {"reviewed", "amended"})

\* Writing such a row keeps the rows sound.
LEMMA PutOK ==
    ASSUME RowsOK, NEW l \in Listing, NEW row, Sound(row),
           listing' = [listing EXCEPT ![l] = row], UNCHANGED stays
    PROVE  RowsOK'
  <1>1. row # None
    BY ModerationAssumption DEF Sound
  <1> QED BY <1>1 DEF RowsOK, Sound, BookedStaysListed, Exists

\* The row of a listing is sound.
LEMMA RowSound ==
    ASSUME RowsOK, NEW l \in Listing, Exists(l)
    PROVE  Sound(listing[l])
  BY DEF RowsOK, Sound, Exists

\* So is the row with another status,
LEMMA StatusSound ==
    ASSUME NEW row, Sound(row), NEW status \in Status
    PROVE  LET new == [row EXCEPT !.status = status] IN
           /\ Sound(new)
           /\ new.status = status /\ new.approved = row.approved
  BY Zenon DEF Sound, ListingRow

\* the refused row,
LEMMA RejectedSound ==
    ASSUME NEW row, Sound(row)
    PROVE  LET new == [row EXCEPT !.approved = FALSE, !.status = "draft"] IN
           Sound(new) /\ ~new.approved
  <1> DEFINE new == [row EXCEPT !.approved = FALSE, !.status = "draft"]
  <1>1. row \in ListingRow /\ "draft" \in Status
    BY DEF Sound, Status
  <1>2. new \in ListingRow /\ new.approved = FALSE
    BY <1>1, Zenon DEF ListingRow
  <1> QED BY <1>2, Zenon DEF Sound

\* and the approved row.
LEMMA ApprovedSound ==
    ASSUME NEW row, Sound(row)
    PROVE  Sound([row EXCEPT !.approved = TRUE, !.status = "published", !.text = "reviewed"])
  <1> DEFINE new == [row EXCEPT !.approved = TRUE, !.status = "published", !.text = "reviewed"]
  <1>1. row \in ListingRow /\ "published" \in Status /\ "reviewed" \in Text
    BY DEF Sound, Status, Text
  <1>2. new \in ListingRow /\ new.text = "reviewed"
    BY <1>1, Zenon DEF ListingRow
  <1> QED BY <1>2, Zenon DEF Sound

-------------------------------------------------------------------------------
(* The steps of requests                                                   *)

\* No step of the host's own requests is taken while a ban stands by itself, so
\* whatever it writes says nothing of the ban.
LEMMA HostMoves ==
    ASSUME FitInv, NEW r \in Req, NEW step \in HostSteps, At(r, step), Stepped(r),
           UNCHANGED <<host, ban>>
    PROVE  RequestsOK' /\ BanOK'
  <1>1. req[r] # Idle /\ req[r].op \in HostOps
    BY Standing DEF FitInv
  <1>2. ban \notin {"sealing", "sealed"}
    BY <1>1 DEF FitInv, BanOK
  <1> QED BY <1>2, SteppedOK DEF FitInv, BanOK

\* A step that shows guests nothing new leaves what is said of the ban.
LEMMA QuietMoves ==
    ASSUME FitInv, NEW r \in Req, Stepped(r), req[r] # Idle, UNCHANGED <<host, ban>>,
           ban = "sealed" => \A l \in Listing : Visible(l)' => Visible(l)
    PROVE  RequestsOK' /\ BanOK'
  <1>1. \A s \in Req : req'[s] # Idle => req[s] # Idle /\ req'[s].op = req[s].op
    BY DEF Stepped
  <1>2. RequestsOK'
    BY SteppedOK DEF FitInv
  <1>3. (ban \in {"sealing", "sealed"} =>
             host.banned /\ \A s \in Req : req[s] # Idle => req[s].op \notin HostOps)'
    BY <1>1 DEF FitInv, BanOK
  <1>4. (ban = "sealed" => \A l \in Listing : ~Visible(l))'
    BY DEF FitInv, BanOK
  <1> QED BY <1>2, <1>3, <1>4 DEF BanOK

\* A request that gives up changes nothing else.
LEMMA RefuseKeeps ==
    ASSUME FitInv, NEW r \in Req, req[r] # Idle, Refuse(r)
    PROVE  FitInv'
  <1>1. Stepped(r)
    BY RefuseSteps DEF FitInv
  <1>2. UNCHANGED <<listing, host, stays, ban>>
    BY DEF Refuse
  <1>3. RequestsOK' /\ BanOK'
    BY <1>1, <1>2, QuietMoves DEF Visible, Exists
  <1> QED BY <1>2, <1>3 DEF FitInv, RowsOK, BookedStaysListed, Exists

\* So does one that goes on without writing.
LEMMA LookKeeps ==
    ASSUME FitInv, NEW r \in Req, req[r] # Idle, Stepped(r), UNCHANGED <<listing, host, stays, ban>>
    PROVE  FitInv'
  <1>1. RequestsOK' /\ BanOK'
    BY QuietMoves DEF Visible, Exists
  <1> QED BY <1>1 DEF FitInv, RowsOK, BookedStaysListed, Exists

\* A request arrives: the host's own do not while the account is suspended.
LEMMA AskKeeps ==
    ASSUME FitInv, NEW r \in Req, Ask(r)
    PROVE  FitInv'
  <1>1. PICK op \in Ops, l \in Listing, status \in Status, photos \in BOOLEAN :
            Arrive(r, op, l, status, photos)
    BY DEF Ask
  <1> DEFINE q == [op |-> op, l |-> l, at |-> 1, status |-> status,
                   photos |-> photos, approved |-> FALSE]
  <1>2. op \in OpNames /\ q \in Asked /\ q.op = op /\ Placed(q)
    <2>1. op \in OpNames
      BY ModerationAssumption
    <2>2. q \in Asked
      BY <2>1 DEF Asked
    <2> QED BY <2>1, <2>2, ScriptLengths DEF Placed
  <1>3. /\ req' = [req EXCEPT ![r] = q]
        /\ op \in HostOps => ~host.banned
        /\ UNCHANGED <<listing, host, stays, ban>>
    BY <1>1 DEF Arrive, Authenticated
  <1> HIDE DEF q
  <1>4. RequestsOK'
    BY <1>2, <1>3 DEF FitInv, RequestsOK
  <1>5. BanOK'
    BY <1>2, <1>3 DEF FitInv, BanOK, RequestsOK, Visible, Exists
  <1> QED BY <1>3, <1>4, <1>5 DEF FitInv, RowsOK, BookedStaysListed, Exists

\* The host saves: an approval the row keeps is of a text that was approved.
LEMMA SaveKeeps ==
    ASSUME FitInv, NEW r \in Req, SaveListing(r)
    PROVE  FitInv'
  <1> DEFINE l == req[r].l
             row == [status   |-> req[r].status,
                     approved |-> Approval(listing[l], req[r].status),
                     photos   |-> req[r].photos,
                     text     |-> Saved(listing[l], req[r].status)]
  <1>1. /\ At(r, "save") /\ Proceed(r) /\ UNCHANGED <<host, stays, ban>>
        /\ listing' = [listing EXCEPT ![l] = row]
    BY DEF SaveListing
  <1>2. req[r] # Idle /\ req[r] \in Asked /\ l \in Listing
    BY <1>1, Standing DEF FitInv
  <1>3. Sound(row)
    <2>1. listing[l] # None => Sound(listing[l])
      BY <1>2, RowSound DEF FitInv, Exists
    <2>2. Saved(listing[l], req[r].status) \in Text
      BY DEF Saved, Text
    <2>3. Approval(listing[l], req[r].status) \in BOOLEAN
      BY <2>1, Zenon DEF Approval, Sound, ListingRow
    <2>4. Approval(listing[l], req[r].status) => Saved(listing[l], req[r].status) = "amended"
      BY <2>1 DEF Approval, Saved, Sound
    <2>5. row \in ListingRow
      BY <1>2, <2>2, <2>3 DEF ListingRow, Asked
    <2> QED BY <2>4, <2>5 DEF Sound
  <1> HIDE DEF row
  <1>4. RowsOK'
    BY <1>1, <1>2, <1>3, PutOK DEF FitInv
  <1>5. RequestsOK' /\ BanOK'
    BY <1>1, <1>2, HostMoves, ProceedSteps DEF FitInv, HostSteps
  <1> QED BY <1>4, <1>5 DEF FitInv

\* The host changes the status only.
LEMMA SetStatusKeeps ==
    ASSUME FitInv, NEW r \in Req, SetListingStatus(r)
    PROVE  FitInv'
  <1>1. At(r, "setStatus") /\ req[r] # Idle /\ req[r] \in Asked /\ req[r].l \in Listing
    BY Standing DEF FitInv, SetListingStatus
  <1>2. CASE Exists(req[r].l)
    <2> DEFINE row == [listing[req[r].l] EXCEPT !.status = req[r].status]
    <2>1. /\ listing' = [listing EXCEPT ![req[r].l] = row]
          /\ Proceed(r) /\ UNCHANGED <<host, stays, ban>>
      BY <1>2 DEF SetListingStatus
    <2>2. req[r].status \in Status
      BY <1>1 DEF Asked
    <2>3. Sound(row)
      BY <1>1, <1>2, <2>2, RowSound, StatusSound DEF FitInv
    <2> HIDE DEF row
    <2>4. RowsOK'
      BY <1>1, <2>1, <2>3, PutOK DEF FitInv
    <2>5. RequestsOK' /\ BanOK'
      BY <1>1, <2>1, HostMoves, ProceedSteps DEF FitInv, HostSteps
    <2> QED BY <2>4, <2>5 DEF FitInv
  <1>3. CASE ~Exists(req[r].l)
    BY <1>1, <1>3, RefuseKeeps DEF SetListingStatus
  <1> QED BY <1>2, <1>3

\* The host deletes a listing nobody booked.
LEMMA DeleteKeeps ==
    ASSUME FitInv, NEW r \in Req, DeleteListing(r)
    PROVE  FitInv'
  <1>1. At(r, "delete") /\ req[r] # Idle /\ req[r].l \in Listing
    BY Standing DEF FitInv, DeleteListing
  <1>2. CASE ~HeldByBooking(req[r].l)
    <2>1. /\ listing' = [listing EXCEPT ![req[r].l] = None]
          /\ Proceed(r) /\ UNCHANGED <<host, stays, ban>>
      BY <1>2 DEF DeleteListing
    <2>2. RowsOK'
      BY <1>1, <1>2, <2>1 DEF FitInv, RowsOK, HeldByBooking, BookedStaysListed, Exists
    <2>3. RequestsOK' /\ BanOK'
      BY <1>1, <2>1, HostMoves, ProceedSteps DEF FitInv, HostSteps
    <2> QED BY <2>2, <2>3 DEF FitInv
  <1>3. CASE HeldByBooking(req[r].l)
    BY <1>1, <1>3, RefuseKeeps DEF DeleteListing
  <1> QED BY <1>2, <1>3

\* A moderator's decision: one that would show a stay of a suspended account
\* crosses the ban.
LEMMA DecideKeeps ==
    ASSUME FitInv, NEW r \in Req, req[r] # Idle, req[r].l \in Listing, NEW row,
           Exists(req[r].l) => Sound(row), Decide(r, row)
    PROVE  FitInv'
  <1>1. CASE ~Exists(req[r].l)
    BY <1>1, RefuseKeeps DEF Decide
  <1>2. CASE Exists(req[r].l)
    <2>1. /\ listing' = [listing EXCEPT ![req[r].l] = row]
          /\ Proceed(r) /\ UNCHANGED <<host, stays>>
          /\ ban' = IF host.banned /\ VisibleRow(row) THEN "crossed" ELSE ban
      BY <1>2 DEF Decide
    <2>2. RowsOK'
      BY <1>2, <2>1, PutOK DEF FitInv
    <2>3. Stepped(r)
      BY <2>1, ProceedSteps DEF FitInv
    <2>4. CASE host.banned /\ VisibleRow(row)
      BY <2>1, <2>2, <2>3, <2>4, SteppedOK DEF FitInv, BanOK
    <2>5. CASE ~(host.banned /\ VisibleRow(row))
      <3>1. ban' = ban
        BY <2>1, <2>5
      <3>2. ban = "sealed" => \A l \in Listing : Visible(l)' => Visible(l)
        BY <2>1, <2>5 DEF FitInv, BanOK, RowsOK, Visible, Exists
      <3>3. RequestsOK' /\ BanOK'
        BY <2>1, <2>3, <3>1, <3>2, QuietMoves
      <3> QED BY <2>2, <3>3 DEF FitInv
    <2> QED BY <2>4, <2>5
  <1> QED BY <1>1, <1>2

\* The checks before a host's statement, and the loads of the moderators, read only.
LEMMA CheckKeeps ==
    ASSUME FitInv, NEW r \in Req,
           \/ CheckIdentity(r) \/ IdentityMissing(r) \/ CheckOwner(r) \/ CountStays(r)
           \/ RecordModeration(r)
    PROVE  FitInv'
  <1>1. req[r] # Idle
    BY DEF CheckIdentity, IdentityMissing, CheckOwner, CountStays, RecordModeration, At
  <1>2. \/ Proceed(r) /\ UNCHANGED <<listing, host, stays, ban>>
        \/ Refuse(r)
    BY DEF CheckIdentity, IdentityMissing, CheckOwner, CountStays, RecordModeration
  <1> QED BY <1>1, <1>2, ProceedSteps, LookKeeps, RefuseKeeps DEF FitInv

\* A moderator loads a listing.
LEMMA LoadKeeps ==
    ASSUME FitInv, NEW r \in Req, LoadListing(r)
    PROVE  FitInv'
  <1>1. req[r] # Idle
    BY DEF LoadListing, At
  <1>2. CASE Refuse(r)
    BY <1>1, <1>2, RefuseKeeps
  <1>3. CASE ~Refuse(r)
    <2>1. PICK x \in BOOLEAN : Remember(r, x)
      <3>1. PICK step \in {"load", "loadApproval", "loadLive", "loadSuspended"} :
                /\ Exists(req[r].l)
                /\ Remember(r, step = "loadSuspended" /\ listing[req[r].l].approved)
        BY <1>3 DEF LoadListing
      <3>2. At(r, "load") \/ At(r, "loadApproval") \/ At(r, "loadLive") \/ At(r, "loadSuspended")
        BY DEF LoadListing
      <3>3. req[r].l \in Listing
        BY <3>2, Standing DEF FitInv
      <3>4. listing[req[r].l].approved \in BOOLEAN
        BY <3>1, <3>3, RowSound, Zenon DEF FitInv, Sound, ListingRow
      <3>5. (step = "loadSuspended" /\ listing[req[r].l].approved) \in BOOLEAN
        BY Zenon
      <3> QED BY <3>1, <3>5, Zenon
    <2>2. UNCHANGED <<listing, host, stays, ban>>
      BY <1>3 DEF LoadListing
    <2> QED BY <1>1, <2>1, <2>2, RememberSteps, LookKeeps DEF FitInv
  <1> QED BY <1>2, <1>3

\* A moderator decides.
LEMMA ModerationKeeps ==
    ASSUME FitInv, NEW r \in Req,
           ApproveListing(r) \/ RejectListing(r) \/ SuspendListing(r) \/ RestoreListing(r)
    PROVE  FitInv'
  <1> DEFINE l == req[r].l
  <1>1. req[r] # Idle /\ l \in Listing
    BY Standing DEF FitInv, ApproveListing, RejectListing, SuspendListing, RestoreListing
  <1>2. Exists(l) => Sound(listing[l])
    BY <1>1, RowSound DEF FitInv
  <1>3. CASE ApproveListing(r)
    <2> DEFINE row == [listing[l] EXCEPT !.approved = TRUE, !.status = "published", !.text = "reviewed"]
    <2>1. Exists(l) => Sound(row)
      BY <1>2, ApprovedSound
    <2>2. Decide(r, row)
      BY <1>3 DEF ApproveListing
    <2> HIDE DEF row
    <2> QED BY <1>1, <2>1, <2>2, DecideKeeps
  <1>4. CASE RejectListing(r)
    <2> DEFINE row == [listing[l] EXCEPT !.approved = FALSE, !.status = "draft"]
    <2>1. Exists(l) => Sound(row)
      BY <1>2, RejectedSound
    <2>2. Decide(r, row)
      BY <1>4 DEF RejectListing
    <2> HIDE DEF row
    <2> QED BY <1>1, <2>1, <2>2, DecideKeeps
  <1>5. CASE SuspendListing(r)
    <2> DEFINE row == [listing[l] EXCEPT !.status = "suspended"]
    <2>1. "suspended" \in Status
      BY DEF Status
    <2>2. Exists(l) => Sound(row)
      BY <1>2, <2>1, StatusSound
    <2>3. Decide(r, row)
      BY <1>5 DEF SuspendListing
    <2> HIDE DEF row
    <2> QED BY <1>1, <2>2, <2>3, DecideKeeps
  <1>6. CASE RestoreListing(r)
    <2> DEFINE status == IF req[r].approved THEN "published" ELSE "draft"
               row == [listing[l] EXCEPT !.status = status]
    <2>1. status \in Status
      BY DEF Status
    <2>2. Decide(r, row)
      BY <1>6 DEF RestoreListing
    <2> HIDE DEF status
    <2>3. Exists(l) => Sound(row)
      BY <1>2, <2>1, StatusSound
    <2> HIDE DEF row
    <2> QED BY <1>1, <2>2, <2>3, DecideKeeps
  <1> QED BY <1>3, <1>4, <1>5, <1>6

\* The account is suspended: by itself only when no other request is in flight.
LEMMA BanUserKeeps ==
    ASSUME FitInv, NEW r \in Req, BanUser(r)
    PROVE  FitInv'
  <1>1. At(r, "banUser") /\ Proceed(r) /\ UNCHANGED <<listing, stays>> /\ host'.banned
        /\ ban' = IF Others(r) = {} THEN "sealing" ELSE "crossed"
    <2>1. host \in [banned: BOOLEAN, filed: BOOLEAN] => [host EXCEPT !.banned = TRUE].banned
      OBVIOUS
    <2> QED BY <2>1 DEF BanUser, FitInv, BanOK
  <1>2. req[r] # Idle /\ req[r].op \notin HostOps
    BY <1>1, Standing DEF FitInv, HostSteps
  <1>3. Stepped(r)
    BY <1>1, <1>2, ProceedSteps DEF FitInv
  <1>4. RequestsOK'
    BY <1>3, SteppedOK DEF FitInv
  <1>5. Others(r) = {} => \A s \in Req : req'[s] # Idle => req'[s].op \notin HostOps
    BY <1>2, <1>3 DEF Others, InFlight, Stepped
  <1>6. BanOK'
    BY <1>1, <1>5 DEF BanOK
  <1> QED BY <1>1, <1>4, <1>6 DEF FitInv, RowsOK, BookedStaysListed, Exists

\* A row whose status is switched is sound, and shown only if switched to published.
LEMMA SwitchSound ==
    ASSUME NEW row, row = None \/ Sound(row), NEW from \in Status, NEW to \in Status
    PROVE  LET new == WithStatus(row, from, to) IN
           /\ new = None <=> row = None
           /\ row # None => Sound(new)
           /\ row # None /\ from = "published" /\ to # "published" => ~VisibleRow(new)
  <1>1. CASE row # None /\ row.status = from
    <2> DEFINE new == [row EXCEPT !.status = to]
    <2>1. Sound(new) /\ new.status = to
      BY <1>1, StatusSound
    <2>2. new # None
      BY <2>1, ModerationAssumption DEF Sound
    <2>3. WithStatus(row, from, to) = new
      BY <1>1 DEF WithStatus
    <2> HIDE DEF new
    <2> QED BY <1>1, <2>1, <2>2, <2>3 DEF VisibleRow
  <1>2. CASE ~(row # None /\ row.status = from)
    BY <1>2 DEF WithStatus, VisibleRow
  <1> QED BY <1>1, <1>2

\* Rows that are switched one by one stay sound.
LEMMA SwitchAll ==
    ASSUME RowsOK, UNCHANGED stays, DOMAIN listing' = Listing,
           listing' = [l \in Listing |-> listing'[l]],
           \A l \in Listing : /\ listing'[l] = None <=> listing[l] = None
                              /\ listing[l] # None => Sound(listing'[l])
    PROVE  RowsOK'
  <1>1. \A l \in Listing : listing'[l] \in ListingRow \cup {None}
    BY DEF Sound
  <1>2. listing' \in [Listing -> ListingRow \cup {None}]
    BY <1>1
  <1>3. \A l \in Listing : Exists(l)' <=> Exists(l)
    BY DEF Exists
  <1>4. \A l \in Listing : Exists(l)' /\ listing'[l].approved => listing'[l].text \in {"reviewed", "amended"}
    BY <1>3 DEF Sound, Exists
  <1>5. BookedStaysListed'
    BY <1>3 DEF RowsOK, BookedStaysListed
  <1> QED BY <1>2, <1>4, <1>5 DEF RowsOK

\* The listings go offline, every one: none is shown when the ban is sealed.
LEMMA BanListingsKeeps ==
    ASSUME FitInv, NEW r \in Req, BanListings(r)
    PROVE  FitInv'
  <1> DEFINE F(l) == WithStatus(listing[l], "published", "suspended")
  <1>1. /\ At(r, "banListings") /\ Proceed(r) /\ UNCHANGED <<host, stays>>
        /\ ban' = IF ban = "sealing" /\ Others(r) = {} THEN "sealed" ELSE "crossed"
        /\ listing' = [l \in Listing |-> F(l)]
    BY DEF BanListings
  <1>2. req[r] # Idle /\ req[r].op \notin HostOps
    BY <1>1, Standing DEF FitInv, HostSteps
  <1>3. \A l \in Listing : /\ F(l) = None <=> listing[l] = None
                           /\ listing[l] # None => Sound(F(l)) /\ ~VisibleRow(F(l))
    <2> TAKE l \in Listing
    <2>1. listing[l] = None \/ Sound(listing[l])
      BY RowSound DEF FitInv, Exists
    <2>2. "published" \in Status /\ "suspended" \in Status
      BY DEF Status
    <2> QED BY <2>1, <2>2, SwitchSound
  <1>a. DOMAIN listing' = Listing /\ listing' = [l \in Listing |-> listing'[l]]
    BY <1>1
  <1>b. \A l \in Listing : listing'[l] = F(l)
    BY <1>1
  <1>4. RowsOK'
    BY <1>1, <1>3, <1>a, <1>b, SwitchAll DEF FitInv
  <1>5. \A l \in Listing : ~Visible(l)'
    BY <1>3, <1>b DEF Visible, Exists
  <1>6. Stepped(r)
    BY <1>1, <1>2, ProceedSteps DEF FitInv
  <1>7. Others(r) = {} => \A s \in Req : req'[s] # Idle => req'[s].op \notin HostOps
    BY <1>2, <1>6 DEF Others, InFlight, Stepped
  <1>8. BanOK'
    BY <1>1, <1>5, <1>7 DEF FitInv, BanOK
  <1> QED BY <1>4, <1>6, <1>8, SteppedOK DEF FitInv

\* The account is readmitted: the ban is over.
LEMMA UnbanUserKeeps ==
    ASSUME FitInv, NEW r \in Req, UnbanUser(r)
    PROVE  FitInv'
  <1>1. req[r] # Idle /\ Proceed(r) /\ UNCHANGED <<listing, stays>> /\ ban' = "none"
    BY DEF UnbanUser, At
  <1>2. RequestsOK'
    BY <1>1, ProceedSteps, SteppedOK DEF FitInv
  <1> QED BY <1>1, <1>2 DEF FitInv, RowsOK, BanOK, BookedStaysListed, Exists

\* Its listings come back: under a new ban that crosses it.
LEMMA UnbanListingsKeeps ==
    ASSUME FitInv, NEW r \in Req, UnbanListings(r)
    PROVE  FitInv'
  <1> DEFINE F(l) == IF listing[l] # None /\ listing[l].approved
                     THEN WithStatus(listing[l], "suspended", "published") ELSE listing[l]
  <1>1. /\ req[r] # Idle /\ Proceed(r) /\ UNCHANGED <<host, stays>>
        /\ ban' = IF host.banned THEN "crossed" ELSE ban
        /\ listing' = [l \in Listing |-> F(l)]
    BY DEF UnbanListings, At
  <1>2. \A l \in Listing : /\ F(l) = None <=> listing[l] = None
                           /\ listing[l] # None => Sound(F(l))
    <2> TAKE l \in Listing
    <2>1. listing[l] = None \/ Sound(listing[l])
      BY RowSound DEF FitInv, Exists
    <2>2. "published" \in Status /\ "suspended" \in Status
      BY DEF Status
    <2> QED BY <2>1, <2>2, SwitchSound
  <1>a. DOMAIN listing' = Listing /\ listing' = [l \in Listing |-> listing'[l]]
    BY <1>1
  <1>b. \A l \in Listing : listing'[l] = F(l)
    BY <1>1
  <1>3. RowsOK'
    BY <1>1, <1>2, <1>a, <1>b, SwitchAll DEF FitInv
  <1>4. RequestsOK'
    BY <1>1, ProceedSteps, SteppedOK DEF FitInv
  <1>5. BanOK'
    BY <1>1 DEF FitInv, BanOK
  <1> QED BY <1>3, <1>4, <1>5 DEF FitInv

\* A request dies between two statements: a ban half carried out is crossed.
LEMMA FailureKeeps ==
    ASSUME FitInv, NEW r \in Req, StatementFails(r)
    PROVE  FitInv'
  <1>1. /\ req' = [req EXCEPT ![r] = Idle] /\ UNCHANGED <<listing, host, stays>>
        /\ ban' = "crossed" \/ ban' = ban
    BY DEF StatementFails
  <1>2. RequestsOK'
    BY <1>1 DEF FitInv, RequestsOK
  <1>3. BanOK'
    BY <1>1 DEF FitInv, BanOK, RequestsOK, Visible, Exists
  <1> QED BY <1>1, <1>2, <1>3 DEF FitInv, RowsOK, BookedStaysListed, Exists

\* The host files a document, and a guest books a stay that is shown.
LEMMA RestKeeps ==
    ASSUME FitInv, FileIdentity \/ \E l \in Listing : GuestBooks(l)
    PROVE  FitInv'
  <1>1. CASE FileIdentity
    <2>1. ~host.banned /\ UNCHANGED <<listing, stays, req, ban>>
      BY <1>1 DEF FileIdentity
    <2>2. ban \notin {"sealing", "sealed"}
      BY <2>1 DEF FitInv, BanOK
    <2> QED BY <2>1, <2>2 DEF FitInv, RequestsOK, RowsOK, BanOK, BookedStaysListed, Exists
  <1>2. CASE \E l \in Listing : GuestBooks(l)
    <2>1. UNCHANGED <<listing, host, req, ban>>
      BY <1>2 DEF GuestBooks
    <2>2. RowsOK'
      BY <1>2 DEF FitInv, RowsOK, GuestBooks, BookedStaysListed, Visible, Exists
    <2> QED BY <2>1, <2>2 DEF FitInv, RequestsOK, BanOK, Visible, Exists
  <1> QED BY <1>1, <1>2

-------------------------------------------------------------------------------
(* The theorem                                                             *)

\* Nothing is saved yet, nobody asks.
LEMMA FitInit == Init => FitInv
  <1> SUFFICES ASSUME Init PROVE FitInv
    OBVIOUS
  <1>1. RequestsOK
    BY DEF Init, RequestsOK
  <1>2. RowsOK
    BY DEF Init, RowsOK, BookedStaysListed, Exists
  <1>3. BanOK
    BY DEF Init, BanOK
  <1> QED BY <1>1, <1>2, <1>3 DEF FitInv

\* The invariant is inductive.
LEMMA FitStep == FitInv /\ [Next]_vars => FitInv'
  <1> SUFFICES ASSUME FitInv, [Next]_vars PROVE FitInv'
    OBVIOUS
  <1>1. ASSUME NEW r \in Req, HandlerStep(r) PROVE FitInv'
    <2>1. CASE Ask(r)                BY <2>1, AskKeeps
    <2>2. CASE \/ CheckIdentity(r) \/ IdentityMissing(r) \/ CheckOwner(r) \/ CountStays(r)
               \/ RecordModeration(r)
      BY <2>2, CheckKeeps
    <2>3. CASE SaveListing(r)        BY <2>3, SaveKeeps
    <2>4. CASE SetListingStatus(r)   BY <2>4, SetStatusKeeps
    <2>5. CASE DeleteListing(r)      BY <2>5, DeleteKeeps
    <2>6. CASE LoadListing(r)        BY <2>6, LoadKeeps
    <2>7. CASE ApproveListing(r) \/ RejectListing(r) \/ SuspendListing(r) \/ RestoreListing(r)
      BY <2>7, ModerationKeeps
    <2>8. CASE BanUser(r)            BY <2>8, BanUserKeeps
    <2>9. CASE BanListings(r)        BY <2>9, BanListingsKeeps
    <2>10. CASE UnbanUser(r)         BY <2>10, UnbanUserKeeps
    <2>11. CASE UnbanListings(r)     BY <2>11, UnbanListingsKeeps
    <2>12. CASE StatementFails(r)    BY <2>12, FailureKeeps
    <2> QED BY <1>1, <2>1, <2>2, <2>3, <2>4, <2>5, <2>6, <2>7, <2>8, <2>9, <2>10, <2>11, <2>12
            DEF HandlerStep
  <1>2. CASE FileIdentity \/ \E l \in Listing : GuestBooks(l)
    BY <1>2, RestKeeps
  <1>3. CASE UNCHANGED vars
    BY <1>3 DEF vars, FitInv, RequestsOK, RowsOK, BanOK, BookedStaysListed, Visible, Exists
  <1> QED BY <1>1, <1>2, <1>3 DEF Next

\* The invariant gives the property.
LEMMA FitImplies == FitInv => PublicIsFit
  BY DEF FitInv, RowsOK, BanOK, PublicIsFit, ShownWasApproved, BannedIsOffline, Visible,
         VisibleRow, Exists

\* The invariant holds.
LEMMA FitAlways == Spec => []FitInv
  BY FitInit, FitStep, PTL DEF Spec

\* Guests are shown only texts an administrator approved, no stay of a host banned
\* without interference, and never lose a stay they booked: for any listings,
\* requests in flight and faults.
THEOREM PublicIsAlwaysFit == Spec => []PublicIsFit
  BY FitAlways, FitImplies, PTL

-------------------------------------------------------------------------------
(* The audit trail                                                         *)

Deciding == {"approve", "reject", "suspend", "restore"}
Loads    == {"load", "loadApproval", "loadLive", "loadSuspended"}

\* The requests that moderate a listing, and whether guests could be shown it.
Handles(l)  == {r \in Req : req[r] # Idle /\ req[r].l = l /\ req[r].op \in Deciding}
Approved(l) == Exists(l) /\ listing[l].approved

\* Unless decisions crossed, one moderator at a time handles a listing; a logged
\* refusal stands until the next decision is carried out; and so does one that
\* is carried out and not logged yet.
TrailInv ==
    \A l \in Listing :
        log[l] # "astray" =>
            /\ \A r, s \in Handles(l) : r = s
            /\ log[l] = "listing_rejected" /\ (\A r \in Handles(l) : req[r].at < 3)
                   => ~Approved(l)
            /\ \A r \in Handles(l) : req[r].op = "reject" /\ req[r].at = 3 => ~Approved(l)

LogOK == log \in [Listing -> Actions \cup {"astray", None}]

\* A decision is loaded, carried out and logged, in this order.
LEMMA DecisionScripts ==
    ASSUME NEW op \in Deciding
    PROVE  /\ Len(Script(op)) = 3
           /\ Script(op)[1] \in Loads /\ Script(op)[2] = op /\ Script(op)[3] = "log"
  <1>1. CASE op = "approve"   BY <1>1 DEF Script, ApproveRoute, Loads
  <1>2. CASE op = "reject"    BY <1>2 DEF Script, RejectRoute, Loads
  <1>3. CASE op = "suspend"   BY <1>3 DEF Script, SuspendRoute, Loads
  <1>4. CASE op = "restore"   BY <1>4 DEF Script, RestoreRoute, Loads
  <1> QED BY <1>1, <1>2, <1>3, <1>4 DEF Deciding

\* No other route has one of these statements.
LEMMA OtherScripts ==
    ASSUME NEW op \in OpNames, op \notin Deciding, NEW n \in 1 .. Len(Script(op))
    PROVE  Script(op)[n] \notin Loads \cup Deciding \cup {"log"}
  <1>1. CASE op = "save"      BY <1>1 DEF Script, SaveRoute, Loads, Deciding
  <1>2. CASE op = "status"    BY <1>2 DEF Script, StatusRoute, Loads, Deciding
  <1>3. CASE op = "delete"    BY <1>3 DEF Script, DeleteRoute, Loads, Deciding
  <1>4. CASE op = "ban"       BY <1>4 DEF Script, BanRoute, Loads, Deciding
  <1>5. CASE op = "unban"     BY <1>5 DEF Script, UnbanRoute, Loads, Deciding
  <1> QED BY <1>1, <1>2, <1>3, <1>4, <1>5 DEF OpNames, Deciding

\* A moderator's request stands at the statement its place says.
LEMMA Handling ==
    ASSUME RequestsOK, NEW r \in Req, NEW step, At(r, step)
    PROVE  /\ req[r].op \in Deciding <=> step \in Loads \cup Deciding \cup {"log"}
           /\ step \in Loads => req[r].at = 1
           /\ step \in Deciding => req[r].at = 2 /\ req[r].op = step
           /\ step = "log" => req[r].at = 3
  <1>1. /\ req[r] # Idle /\ req[r] \in Asked /\ Placed(req[r])
        /\ Script(req[r].op)[req[r].at] = step
    BY DEF At, RequestsOK
  <1>2. req[r].op \in OpNames
    BY <1>1 DEF Asked
  <1>3. CASE req[r].op \notin Deciding
    BY <1>1, <1>2, <1>3, OtherScripts DEF Placed
  <1>4. CASE req[r].op \in Deciding
    <2>1. req[r].at \in {1, 2, 3}
      BY <1>1, <1>4, DecisionScripts DEF Placed
    <2>2. req[r].at = 1 => step \in Loads
      BY <1>1, <1>4, DecisionScripts
    <2>3. req[r].at = 2 => step = req[r].op
      BY <1>1, <1>4, DecisionScripts
    <2>4. req[r].at = 3 => step = "log"
      BY <1>1, <1>4, DecisionScripts
    <2> QED BY <1>4, <2>1, <2>2, <2>3, <2>4 DEF Loads, Deciding
  <1> QED BY <1>3, <1>4

\* How a request that goes on moves.
LEMMA MovesOn ==
    ASSUME RequestsOK, NEW r \in Req, req[r] # Idle, Proceed(r) \/ \E x \in BOOLEAN : Remember(r, x)
    PROVE  /\ \A s \in Req \ {r} : req'[s] = req[s]
           /\ req'[r] # Idle => /\ req'[r].op = req[r].op /\ req'[r].l = req[r].l
                                /\ req'[r].at = req[r].at + 1
           /\ req[r].at # Len(Script(req[r].op)) => req'[r] # Idle
           /\ req[r].at = Len(Script(req[r].op)) => req'[r] = Idle
  <1>1. req[r] \in Asked
    BY DEF RequestsOK
  <1>2. PICK q \in Asked : /\ req' = [req EXCEPT ![r] = Goes(q)]
                           /\ q.op = req[r].op /\ q.l = req[r].l /\ q.at = req[r].at
    <2>1. CASE Proceed(r)
      BY <1>1, <2>1 DEF Proceed
    <2>2. CASE \E x \in BOOLEAN : Remember(r, x)
      <3>1. PICK x \in BOOLEAN : Remember(r, x)
        BY <2>2
      <3> DEFINE q == [req[r] EXCEPT !.approved = x]
      <3>2. q \in Asked /\ q.op = req[r].op /\ q.l = req[r].l /\ q.at = req[r].at
        BY <1>1, Zenon DEF Asked
      <3>3. req' = [req EXCEPT ![r] = Goes(q)]
        BY <3>1 DEF Remember
      <3> QED BY <3>2, <3>3
    <2> QED BY <2>1, <2>2
  <1> DEFINE new == [q EXCEPT !.at = @ + 1]
  <1>3. new \in Asked /\ new.op = q.op /\ new.l = q.l /\ new.at = q.at + 1
    BY <1>2 DEF Asked
  <1>4. new # Idle
    <2>1. new.at = q.at + 1 /\ DOMAIN new = {"op", "l", "at", "status", "photos", "approved"}
      BY <1>3 DEF Asked
    <2> QED BY <2>1 DEF Idle
  <1>5. Goes(q) = IF q.at = Len(Script(q.op)) THEN Idle ELSE new
    BY DEF Goes
  <1> HIDE DEF new
  <1> QED BY <1>2, <1>3, <1>4, <1>5 DEF RequestsOK

\* A step of a request that moderates nothing, by which no listing is approved,
\* leaves the trail.
LEMMA TrailAside ==
    ASSUME RequestsOK, TrailInv, NEW r \in Req, req[r].op \notin Deciding, UNCHANGED log,
           Stepped(r), \A l \in Listing : Approved(l)' => Approved(l)
    PROVE  TrailInv'
  <1>1. \A l \in Listing : Handles(l)' = Handles(l) /\ \A s \in Handles(l) : req'[s] = req[s]
    BY DEF Handles, Stepped
  <1> QED BY <1>1 DEF TrailInv

\* So does the end of a request that has not carried out its decision.
LEMMA TrailGone ==
    ASSUME RequestsOK, TrailInv, NEW r \in Req, req[r].op \in Deciding => req[r].at < 3,
           UNCHANGED <<listing, log>>, req' = [req EXCEPT ![r] = Idle]
    PROVE  TrailInv'
  <1>1. \A l \in Listing : Handles(l)' = Handles(l) \ {r} /\ \A s \in Handles(l)' : req'[s] = req[s]
    BY DEF Handles, RequestsOK
  <1>2. \A l \in Listing : Approved(l)' <=> Approved(l)
    BY DEF Approved, Exists
  <1>3. \A l \in Listing : r \in Handles(l) => req[r].at < 3
    BY DEF Handles
  <1> QED BY <1>1, <1>2, <1>3 DEF TrailInv

\* A request arrives: one that crosses another decision loses the order.
LEMMA AskTrail ==
    ASSUME FitInv, LogOK, TrailInv, NEW r \in Req, Ask(r)
    PROVE  TrailInv'
  <1>1. PICK op \in Ops, l \in Listing, status \in Status, photos \in BOOLEAN :
            Arrive(r, op, l, status, photos)
    BY DEF Ask
  <1> DEFINE q == [op |-> op, l |-> l, at |-> 1, status |-> status,
                   photos |-> photos, approved |-> FALSE]
  <1>2. q.op = op /\ q.l = l /\ q.at = 1
    OBVIOUS
  <1>3. /\ req[r] = Idle /\ req' = [req EXCEPT ![r] = q] /\ UNCHANGED listing
        /\ log' = IF op \in DOMAIN Decision /\ Moderating(l) # {}
                  THEN [log EXCEPT ![l] = "astray"] ELSE log
    BY <1>1 DEF Arrive
  <1> HIDE DEF q
  <1>4. op \in DOMAIN Decision <=> op \in Deciding
    BY DEF Decision, Deciding
  <1>5. Moderating(l) = Handles(l)
    BY DEF Moderating, Handles, InFlight, Decision, Deciding
  <1>6. \A k \in Listing : /\ \A s \in Handles(k) : s # r /\ req'[s] = req[s] /\ s \in Handles(k)'
                           /\ \A s \in Handles(k)' : s # r => s \in Handles(k) /\ req'[s] = req[s]
                           /\ r \in Handles(k)' => k = l /\ op \in Deciding /\ req'[r].at = 1
    BY <1>2, <1>3 DEF Handles, FitInv, RequestsOK
  <1>7. \A k \in Listing : Approved(k)' <=> Approved(k)
    BY <1>3 DEF Approved, Exists
  <1>8. \A k \in Listing : log'[k] # "astray" => log'[k] = log[k] /\ (r \in Handles(k)' => Handles(k) = {})
    BY <1>3, <1>4, <1>5, <1>6 DEF LogOK
  <1> QED
    <2> SUFFICES ASSUME NEW k \in Listing, log'[k] # "astray"
                 PROVE  /\ \A s, t \in Handles(k)' : s = t
                        /\ log'[k] = "listing_rejected" /\ (\A s \in Handles(k)' : req'[s].at < 3)
                               => ~Approved(k)'
                        /\ \A s \in Handles(k)' : req'[s].op = "reject" /\ req'[s].at = 3 => ~Approved(k)'
      BY DEF TrailInv
    <2>1. log[k] # "astray" /\ log'[k] = log[k]
      BY <1>8
    <2>2. CASE r \in Handles(k)'
      <3>1. Handles(k) = {}
        BY <1>8, <2>2
      <3>2. \A s \in Handles(k)' : s = r /\ req'[s].at = 1
        BY <1>6, <3>1
      <3> QED BY <1>7, <2>1, <3>1, <3>2 DEF TrailInv
    <2>3. CASE r \notin Handles(k)'
      BY <1>6, <1>7, <2>1, <2>3 DEF TrailInv
    <2> QED BY <2>2, <2>3

\* A moderator loads a listing.
LEMMA LoadTrail ==
    ASSUME FitInv, TrailInv, NEW r \in Req, LoadListing(r)
    PROVE  TrailInv'
  <1>1. PICK step \in Loads : At(r, step)
    BY DEF LoadListing, Loads
  <1>2. req[r] # Idle /\ req[r].op \in Deciding /\ req[r].at = 1
    BY <1>1, Handling, Standing DEF FitInv
  <1>3. CASE Refuse(r)
    <2>1. UNCHANGED <<listing, log>> /\ req' = [req EXCEPT ![r] = Idle]
      BY <1>3 DEF Refuse
    <2>2. req[r].op \in Deciding => req[r].at < 3
      BY <1>2
    <2>3. RequestsOK
      BY DEF FitInv
    <2> QED BY <2>1, <2>2, <2>3, TrailGone
  <1>4. CASE ~Refuse(r)
    <2>1. (\E x : Remember(r, x)) /\ UNCHANGED <<listing, log>>
      BY <1>4 DEF LoadListing
    <2>2. \E x \in BOOLEAN : Remember(r, x)
      <3>1. PICK s \in Loads : /\ At(r, s) /\ Exists(req[r].l)
                               /\ Remember(r, s = "loadSuspended" /\ listing[req[r].l].approved)
        BY <1>4 DEF LoadListing, Loads
      <3>2. (s = "loadSuspended" /\ listing[req[r].l].approved) \in BOOLEAN
        BY Zenon
      <3> QED BY <3>1, <3>2, Zenon
    <2>3. /\ \A s \in Req \ {r} : req'[s] = req[s]
          /\ req'[r] # Idle /\ req'[r].op = req[r].op /\ req'[r].l = req[r].l /\ req'[r].at = 2
      BY <1>2, <2>2, MovesOn, DecisionScripts DEF FitInv
    <2>4. \A l \in Listing : /\ Handles(l)' = Handles(l)
                             /\ \A s \in Handles(l) : req'[s] = req[s] \/ (s = r /\ req'[s].at = 2)
      BY <1>2, <2>3 DEF Handles
    <2>5. \A l \in Listing : Approved(l)' <=> Approved(l)
      BY <2>1 DEF Approved, Exists
    <2>6. \A l \in Listing : r \in Handles(l) => req[r].at < 3
      BY <1>2
    <2> QED BY <2>1, <2>4, <2>5, <2>6 DEF TrailInv
  <1> QED BY <1>3, <1>4

\* A decision is carried out; a refusal withdraws the approval.
LEMMA DecideTrail ==
    ASSUME FitInv, TrailInv, NEW r \in Req, req[r] # Idle, req[r].l \in Listing,
           req[r].op \in Deciding, req[r].at = 2, NEW row, Decide(r, row),
           Exists(req[r].l) /\ req[r].op = "reject" => ~row.approved
    PROVE  TrailInv'
  <1>1. CASE ~Exists(req[r].l)
    BY <1>1, TrailGone DEF Decide, Refuse, FitInv
  <1>2. CASE Exists(req[r].l)
    <2>0. PICK l \in Listing : l = req[r].l
      OBVIOUS
    <2>1. Proceed(r) /\ UNCHANGED log /\ listing' = [listing EXCEPT ![l] = row]
      BY <2>0, <1>2 DEF Decide
    <2>2. /\ \A s \in Req \ {r} : req'[s] = req[s]
          /\ req'[r] # Idle /\ req'[r].op = req[r].op /\ req'[r].l = l /\ req'[r].at = 3
      BY <2>0, <2>1, MovesOn, DecisionScripts DEF FitInv
    <2>3. \A k \in Listing : /\ Handles(k)' = Handles(k)
                             /\ \A s \in Handles(k) : s # r => req'[s] = req[s]
      BY <2>0, <2>2 DEF Handles
    <2>4. \A k \in Listing : k # l => (Approved(k)' <=> Approved(k)) /\ r \notin Handles(k)
      BY <2>0, <2>1 DEF Approved, Exists, Handles, FitInv, RowsOK
    <2>5. req[r].op = "reject" => ~Approved(l)'
      <3>1. listing'[l] = row
        BY <2>0, <2>1 DEF FitInv, RowsOK
      <3> QED BY <2>0, <1>2, <3>1, Zenon DEF Approved
    <2>6. r \in Handles(l)
      BY <2>0 DEF Handles
    <2> SUFFICES ASSUME NEW k \in Listing, log'[k] # "astray"
                 PROVE  /\ \A s, t \in Handles(k)' : s = t
                        /\ log'[k] = "listing_rejected" /\ (\A s \in Handles(k)' : req'[s].at < 3)
                               => ~Approved(k)'
                        /\ \A s \in Handles(k)' : req'[s].op = "reject" /\ req'[s].at = 3 => ~Approved(k)'
      BY <2>0 DEF TrailInv
    <2>7. CASE k = l
      <3>1. \A s \in Handles(k)' : s = r
        BY <2>0, <2>1, <2>3, <2>6, <2>7 DEF TrailInv
      <3> QED BY <2>0, <2>2, <2>3, <2>5, <2>6, <2>7, <3>1
    <2>8. CASE k # l
      BY <2>0, <2>1, <2>3, <2>4, <2>8 DEF TrailInv
    <2> QED BY <2>0, <2>7, <2>8
  <1> QED BY <1>1, <1>2

\* Each moderator's decision is of this kind.
LEMMA ModerationTrail ==
    ASSUME FitInv, TrailInv, NEW r \in Req,
           ApproveListing(r) \/ RejectListing(r) \/ SuspendListing(r) \/ RestoreListing(r)
    PROVE  TrailInv'
  <1> DEFINE l == req[r].l
  <1>1. PICK step \in Deciding : /\ At(r, step)
                                 /\ \E row : Decide(r, row) /\ (step = "reject" =>
                                        row = [listing[l] EXCEPT !.approved = FALSE, !.status = "draft"])
    BY Zenon DEF ApproveListing, RejectListing, SuspendListing, RestoreListing, Deciding
  <1>2. /\ req[r] # Idle /\ l \in Listing /\ req[r].op \in Deciding /\ req[r].at = 2
        /\ req[r].op = step
    BY <1>1, Handling, Standing DEF FitInv
  <1>3. PICK row : Decide(r, row) /\ (step = "reject" =>
                       row = [listing[l] EXCEPT !.approved = FALSE, !.status = "draft"])
    BY <1>1
  <1>4. Exists(l) /\ req[r].op = "reject" => ~row.approved
    BY <1>2, <1>3, RowSound, RejectedSound DEF FitInv
  <1> QED BY <1>2, <1>3, <1>4, DecideTrail

\* The decision is logged: a refusal that is logged withdrew the approval.
LEMMA RecordTrail ==
    ASSUME FitInv, LogOK, TrailInv, NEW r \in Req, RecordModeration(r)
    PROVE  TrailInv'
  <1>0. PICK l \in Listing : l = req[r].l
    BY Standing DEF FitInv, RecordModeration
  <1>1. /\ Proceed(r) /\ UNCHANGED listing
        /\ log' = [log EXCEPT ![l] = IF log[l] = "astray" THEN log[l] ELSE Decision[req[r].op]]
    BY <1>0 DEF RecordModeration
  <1>2. req[r] # Idle /\ l \in Listing /\ req[r].op \in Deciding /\ req[r].at = 3
    BY <1>0, Handling, Standing DEF FitInv, RecordModeration
  <1>3. req'[r] = Idle /\ \A s \in Req \ {r} : req'[s] = req[s]
    BY <1>0, <1>1, <1>2, MovesOn, DecisionScripts DEF FitInv
  <1>4. \A k \in Listing : /\ Handles(k)' = Handles(k) \ {r}
                           /\ \A s \in Handles(k)' : req'[s] = req[s]
    BY <1>0, <1>3 DEF Handles
  <1>5. \A k \in Listing : Approved(k)' <=> Approved(k)
    BY <1>0, <1>1 DEF Approved, Exists
  <1>6. r \in Handles(l)
    BY <1>0, <1>2 DEF Handles
  <1>7. Decision[req[r].op] = "listing_rejected" => req[r].op = "reject"
    BY <1>0, <1>2 DEF Decision, Deciding
  <1> SUFFICES ASSUME NEW k \in Listing, log'[k] # "astray"
               PROVE  /\ \A s, t \in Handles(k)' : s = t
                      /\ log'[k] = "listing_rejected" /\ (\A s \in Handles(k)' : req'[s].at < 3)
                             => ~Approved(k)'
                      /\ \A s \in Handles(k)' : req'[s].op = "reject" /\ req'[s].at = 3 => ~Approved(k)'
    BY <1>0 DEF TrailInv
  <1>8. CASE k = l
    <2>1. log[l] # "astray" /\ log'[l] = Decision[req[r].op]
      BY <1>0, <1>1, <1>8 DEF LogOK
    <2>2. Handles(l)' = {}
      BY <1>0, <1>2, <1>4, <1>6, <2>1 DEF TrailInv
    <2>3. req[r].op = "reject" => ~Approved(l)
      BY <1>0, <1>2, <1>6, <2>1 DEF TrailInv
    <2> QED BY <1>0, <1>2, <1>5, <1>7, <1>8, <2>1, <2>2, <2>3
  <1>9. CASE k # l
    <2>1. log'[k] = log[k] /\ r \notin Handles(k)
      BY <1>0, <1>1, <1>2, <1>9 DEF LogOK, Handles
    <2> QED BY <1>0, <1>4, <1>5, <2>1 DEF TrailInv
  <1> QED BY <1>0, <1>8, <1>9

\* A request dies: a decision that is carried out and not logged is lost.
LEMMA FailureTrail ==
    ASSUME FitInv, LogOK, TrailInv, NEW r \in Req, StatementFails(r)
    PROVE  TrailInv'
  <1>1. /\ req[r] # Idle /\ req' = [req EXCEPT ![r] = Idle] /\ UNCHANGED listing
        /\ log' = IF At(r, "log") THEN [log EXCEPT ![req[r].l] = "astray"] ELSE log
    BY DEF StatementFails
  <1>2. CASE ~At(r, "log")
    <2>1. req[r].op \in Deciding => req[r].at < 3
      <3> SUFFICES ASSUME req[r].op \in Deciding PROVE req[r].at < 3
        OBVIOUS
      <3>1. req[r] \in Asked /\ Placed(req[r])
        BY <1>1 DEF FitInv, RequestsOK
      <3>2. req[r].at \in 1 .. 3
        BY <3>1, DecisionScripts DEF Placed
      <3>3. req[r].at # 3
        BY <1>1, <1>2, DecisionScripts DEF At
      <3> QED BY <3>2, <3>3
    <2> QED BY <1>1, <1>2, <2>1, TrailGone DEF FitInv
  <1>3. CASE At(r, "log")
    <2> DEFINE l == req[r].l
    <2>1. l \in Listing
      BY <1>3, Standing DEF FitInv
    <2>2. log' = [log EXCEPT ![l] = "astray"]
      BY <1>1, <1>3
    <2>3. \A k \in Listing : /\ Handles(k)' = Handles(k) \ {r}
                             /\ \A s \in Handles(k)' : req'[s] = req[s]
      BY <1>1 DEF Handles, FitInv, RequestsOK
    <2>4. \A k \in Listing : Approved(k)' <=> Approved(k)
      BY <1>1 DEF Approved, Exists
    <2>5. \A k \in Listing : log'[k] # "astray" => log'[k] = log[k] /\ r \notin Handles(k)
      BY <2>1, <2>2 DEF LogOK, Handles
    <2> QED BY <2>3, <2>4, <2>5 DEF TrailInv
  <1> QED BY <1>2, <1>3

\* Steps that write rows without approving any, and steps that write none.
LEMMA AsideTrail ==
    ASSUME FitInv, LogOK, TrailInv, NEW r \in Req,
           \/ CheckIdentity(r) \/ IdentityMissing(r) \/ CheckOwner(r) \/ CountStays(r)
           \/ SaveListing(r) \/ SetListingStatus(r)
           \/ BanUser(r) \/ BanListings(r) \/ UnbanUser(r) \/ UnbanListings(r)
    PROVE  TrailInv'
  <1> DEFINE Steps == {"identity", "save", "owner", "setStatus", "countStays",
                       "banUser", "banListings", "unbanUser", "unbanListings"}
  <1>1. PICK step \in Steps : At(r, step)
    BY Zenon DEF CheckIdentity, IdentityMissing, CheckOwner, CountStays, SaveListing,
           SetListingStatus, BanUser, BanListings, UnbanUser, UnbanListings
  <1>2. step \notin Loads \cup Deciding \cup {"log"}
    BY DEF Loads, Deciding
  <1>3. req[r] # Idle /\ req[r].op \notin Deciding /\ req[r].l \in Listing
    BY <1>1, <1>2, Handling, Standing DEF FitInv
  <1>4. (Proceed(r) \/ Refuse(r)) /\ UNCHANGED log
    BY DEF CheckIdentity, IdentityMissing, CheckOwner, CountStays, SaveListing,
           SetListingStatus, BanUser, BanListings, UnbanUser, UnbanListings, Refuse
  <1>5. Stepped(r)
    BY <1>3, <1>4, ProceedSteps, RefuseSteps DEF FitInv
  <1>6. \A l \in Listing : Approved(l)' => Approved(l)
    <2>1. CASE UNCHANGED listing
      BY <2>1 DEF Approved, Exists
    <2>2. CASE SaveListing(r)
      <3> DEFINE row == [status   |-> req[r].status,
                         approved |-> Approval(listing[req[r].l], req[r].status),
                         photos   |-> req[r].photos,
                         text     |-> Saved(listing[req[r].l], req[r].status)]
      <3>1. listing' = [listing EXCEPT ![req[r].l] = row]
        BY <2>2 DEF SaveListing
      <3>2. row.approved = Approval(listing[req[r].l], req[r].status)
        OBVIOUS
      <3> HIDE DEF row
      <3>3. \A l \in Listing : listing'[l] = listing[l] \/ (l = req[r].l /\ listing'[l] = row)
        BY <3>1 DEF FitInv, RowsOK
      <3>4. row.approved => Approved(req[r].l)
        BY <3>2, Zenon DEF Approval, Approved, Exists
      <3> QED BY <3>3, <3>4, Zenon DEF Approved, Exists
    <2>3. CASE SetListingStatus(r) /\ Exists(req[r].l)
      <3> DEFINE row == [listing[req[r].l] EXCEPT !.status = req[r].status]
      <3>1. listing' = [listing EXCEPT ![req[r].l] = row]
        BY <2>3 DEF SetListingStatus
      <3>2. req[r].status \in Status
        BY <1>3 DEF FitInv, RequestsOK, Asked
      <3>3. row.approved = listing[req[r].l].approved
        BY <1>3, <2>3, <3>2, RowSound, StatusSound DEF FitInv
      <3> HIDE DEF row
      <3>4. \A l \in Listing : listing'[l] = listing[l] \/ (l = req[r].l /\ listing'[l] = row)
        BY <3>1 DEF FitInv, RowsOK
      <3> QED BY <2>3, <3>3, <3>4, Zenon DEF Approved, Exists
    <2>4. CASE BanListings(r) \/ UnbanListings(r)
      <3>1. \A l \in Listing : \/ listing'[l] = listing[l]
                              \/ \E from, to \in Status : listing'[l] = WithStatus(listing[l], from, to)
        BY <2>4 DEF BanListings, UnbanListings, Status
      <3> SUFFICES ASSUME NEW l \in Listing, Approved(l)' PROVE Approved(l)
        OBVIOUS
      <3>2. CASE listing'[l] = listing[l]
        BY <3>2 DEF Approved, Exists
      <3>3. CASE listing'[l] # listing[l]
        <4>1. PICK from, to \in Status : listing'[l] = WithStatus(listing[l], from, to)
          BY <3>1, <3>3
        <4>2. listing[l] # None /\ listing'[l] = [listing[l] EXCEPT !.status = to]
          BY <3>3, <4>1 DEF WithStatus
        <4>3. Sound(listing[l])
          BY <4>2, RowSound DEF FitInv, Exists
        <4>4. listing'[l].approved = listing[l].approved
          BY <4>2, <4>3, StatusSound
        <4> QED BY <4>2, <4>4, Zenon DEF Approved, Exists
      <3> QED BY <3>2, <3>3
    <2>5. CASE SetListingStatus(r) /\ ~Exists(req[r].l)
      <3>1. UNCHANGED listing
        BY <2>5 DEF SetListingStatus, Refuse
      <3> QED BY <2>1, <3>1
    <2>6. CASE \/ CheckIdentity(r) \/ IdentityMissing(r) \/ CheckOwner(r) \/ CountStays(r)
               \/ BanUser(r) \/ UnbanUser(r)
      <3>1. UNCHANGED listing
        BY <2>6 DEF CheckIdentity, IdentityMissing, CheckOwner, CountStays, BanUser, UnbanUser, Refuse
      <3> QED BY <2>1, <3>1
    <2> QED BY <2>2, <2>3, <2>4, <2>5, <2>6
  <1> QED BY <1>3, <1>4, <1>5, <1>6, TrailAside DEF FitInv

\* The host deletes a listing, and its trail with it.
LEMMA DeleteTrail ==
    ASSUME FitInv, LogOK, TrailInv, NEW r \in Req, DeleteListing(r)
    PROVE  TrailInv'
  <1>0. PICK l \in Listing : l = req[r].l
    BY Standing DEF FitInv, DeleteListing
  <1>1. "delete" \notin Loads \cup Deciding \cup {"log"}
    BY <1>0 DEF Loads, Deciding
  <1>2. req[r] # Idle /\ req[r].op \notin Deciding /\ l \in Listing
    BY <1>0, <1>1, Handling, Standing DEF FitInv, DeleteListing
  <1>3. CASE HeldByBooking(l)
    <2>1. Refuse(r)
      BY <1>0, <1>3 DEF DeleteListing
    <2>2. UNCHANGED log /\ \A k \in Listing : Approved(k)' => Approved(k)
      BY <1>0, <2>1 DEF Refuse, Approved, Exists
    <2> QED BY <1>0, <1>2, <2>1, <2>2, TrailAside, RefuseSteps DEF FitInv
  <1>4. CASE ~HeldByBooking(l)
    <2>1. /\ listing' = [listing EXCEPT ![l] = None] /\ Proceed(r)
          /\ log' = [log EXCEPT ![l] = IF log[l] = "astray" /\ Moderating(l) # {} THEN log[l] ELSE None]
      BY <1>0, <1>4 DEF DeleteListing
    <2>2. Stepped(r)
      BY <1>0, <1>2, <2>1, ProceedSteps DEF FitInv
    <2>3. \A k \in Listing : Handles(k)' = Handles(k) /\ \A s \in Handles(k) : req'[s] = req[s]
      BY <1>0, <1>2, <2>2 DEF Handles, Stepped
    <2>4. ~Approved(l)' /\ \A k \in Listing : k # l => (Approved(k)' <=> Approved(k))
      BY <1>0, <1>2, <2>1 DEF FitInv, RowsOK, Approved, Exists
    <2>5. Moderating(l) = Handles(l)
      BY <1>0 DEF Moderating, Handles, InFlight, Decision, Deciding
    <2>6. log'[l] = "astray" \/ (log[l] = "astray" => Handles(l) = {})
      BY <1>0, <1>2, <2>1, <2>5 DEF LogOK
    <2>7. \A k \in Listing : k # l => log'[k] = log[k]
      BY <1>0, <2>1 DEF LogOK
    <2> QED BY <1>0, <2>3, <2>4, <2>6, <2>7 DEF TrailInv
  <1> QED BY <1>0, <1>3, <1>4

\* The audit trail's values.
LEMMA LogStep == LogOK /\ FitInv /\ [Next]_vars => LogOK'
  <1> SUFFICES ASSUME LogOK, FitInv, [Next]_vars PROVE LogOK'
    OBVIOUS
  <1>1. \/ UNCHANGED log
        \/ \E l \in Listing, x \in Actions \cup {"astray", None} : log' = [log EXCEPT ![l] = x]
    <2>1. ASSUME NEW r \in Req, Ask(r) PROVE <1>1!1 \/ <1>1!2
      BY <2>1 DEF Ask, Arrive
    <2>2. ASSUME NEW r \in Req, DeleteListing(r) PROVE <1>1!1 \/ <1>1!2
      <3>1. req[r].l \in Listing
        BY <2>2, Standing DEF FitInv, DeleteListing
      <3> QED BY <2>2, <3>1 DEF DeleteListing, Refuse, LogOK
    <2>3. ASSUME NEW r \in Req, RecordModeration(r) PROVE <1>1!1 \/ <1>1!2
      <3>1. req[r].l \in Listing /\ req[r].op \in Deciding
        BY <2>3, Handling, Standing DEF FitInv, RecordModeration
      <3>2. Decision[req[r].op] \in Actions
        BY <3>1 DEF Decision, Deciding, Actions
      <3> QED BY <2>3, <3>1, <3>2 DEF RecordModeration, LogOK
    <2>4. ASSUME NEW r \in Req, StatementFails(r) PROVE <1>1!1 \/ <1>1!2
      <3>1. At(r, "log") => req[r].l \in Listing
        BY Standing DEF FitInv
      <3> QED BY <2>4, <3>1 DEF StatementFails
    <2>5. ASSUME NEW r \in Req,
                 \/ CheckIdentity(r) \/ IdentityMissing(r) \/ SaveListing(r)
                 \/ CheckOwner(r) \/ SetListingStatus(r) \/ CountStays(r)
                 \/ LoadListing(r) \/ ApproveListing(r) \/ RejectListing(r) \/ SuspendListing(r)
                 \/ RestoreListing(r)
                 \/ BanUser(r) \/ BanListings(r) \/ UnbanUser(r) \/ UnbanListings(r)
          PROVE  UNCHANGED log
      BY <2>5 DEF CheckIdentity, IdentityMissing, SaveListing, CheckOwner, SetListingStatus,
         CountStays, LoadListing, ApproveListing, RejectListing, SuspendListing, RestoreListing,
         BanUser, BanListings, UnbanUser, UnbanListings, Decide, Refuse
    <2>6. CASE FileIdentity \/ (\E l \in Listing : GuestBooks(l)) \/ UNCHANGED vars
      BY <2>6 DEF FileIdentity, GuestBooks, vars
    <2> QED BY <2>1, <2>2, <2>3, <2>4, <2>5, <2>6 DEF Next, HandlerStep
  <1> QED BY <1>1 DEF LogOK

\* The trail's invariant is kept by every step.
LEMMA TrailStep == FitInv /\ LogOK /\ TrailInv /\ [Next]_vars => TrailInv'
  <1> SUFFICES ASSUME FitInv, LogOK, TrailInv, [Next]_vars PROVE TrailInv'
    OBVIOUS
  <1>1. ASSUME NEW r \in Req, HandlerStep(r) PROVE TrailInv'
    <2>1. CASE Ask(r)                 BY <2>1, AskTrail
    <2>2. CASE \/ CheckIdentity(r) \/ IdentityMissing(r) \/ CheckOwner(r) \/ CountStays(r)
               \/ SaveListing(r) \/ SetListingStatus(r)
               \/ BanUser(r) \/ BanListings(r) \/ UnbanUser(r) \/ UnbanListings(r)
      BY <2>2, AsideTrail
    <2>3. CASE DeleteListing(r)       BY <2>3, DeleteTrail
    <2>4. CASE LoadListing(r)         BY <2>4, LoadTrail
    <2>5. CASE ApproveListing(r) \/ RejectListing(r) \/ SuspendListing(r) \/ RestoreListing(r)
      BY <2>5, ModerationTrail
    <2>6. CASE RecordModeration(r)    BY <2>6, RecordTrail
    <2>7. CASE StatementFails(r)      BY <2>7, FailureTrail
    <2> QED BY <1>1, <2>1, <2>2, <2>3, <2>4, <2>5, <2>6, <2>7 DEF HandlerStep
  <1>2. CASE FileIdentity \/ (\E l \in Listing : GuestBooks(l)) \/ UNCHANGED vars
    <2>1. UNCHANGED <<listing, log, req>>
      BY <1>2 DEF FileIdentity, GuestBooks, vars
    <2> QED BY <2>1 DEF TrailInv, Handles, Approved, Exists
  <1> QED BY <1>1, <1>2 DEF Next

\* A listing nobody moderates whose last logged decision is a refusal is not shown
\* to guests (TrailIsTrue); of other decisions, and of a trail that is astray, this
\* says nothing.  For any listings, requests in flight and faults.
THEOREM TrailIsAlwaysTrue == Spec => []TrailIsTrue
  <1>1. Init => LogOK /\ TrailInv
    <2> SUFFICES ASSUME Init PROVE LogOK /\ TrailInv
      OBVIOUS
    <2>1. LogOK
      BY DEF Init, LogOK
    <2>2. \A l \in Listing : Handles(l) = {} /\ ~Approved(l)
      BY DEF Init, Handles, Approved, Exists
    <2> QED BY <2>1, <2>2 DEF TrailInv
  <1>2. FitInv /\ LogOK /\ TrailInv => TrailIsTrue
    <2> SUFFICES ASSUME FitInv, TrailInv, NEW l \in Listing, log[l] = "listing_rejected",
                        Moderating(l) = {}
                 PROVE  ~Visible(l)
      BY DEF TrailIsTrue
    <2>1. Handles(l) = {}
      BY DEF Moderating, Handles, InFlight, Decision, Deciding
    <2> QED BY <2>1 DEF TrailInv, Approved, Visible, VisibleRow
  <1> QED BY <1>1, <1>2, FitAlways, LogStep, TrailStep, PTL DEF Spec

-------------------------------------------------------------------------------
(* The cache                                                               *)

\* What a request knows: a search that loads, one that has its rows, an answer; a
\* write that is not answered yet.
Loading   == [pc : {"loading"}, key : Key, startedAt : Nat, since : Nat, at : Nat]
HasRows   == [pc : {"read"}, key : Key, startedAt : Nat, value : Nat, since : Nat, at : Nat, read : Nat]
Answer    == [pc : {"done"}, value : Nat, since : Nat]
Promise   == [pc : {"committed"}, change : Cache!Change]

SearchState == {Cache!Waiting} \cup Loading \cup HasRows \cup Answer

CacheTyped ==
    /\ Cache!TypeOK
    /\ cacheSearch \in [Search -> SearchState]
    /\ cacheWrite \in [Write -> {Cache!NoWrite} \cup Promise]

\* A value read at that time shows every change that was made before.
Shows(value, read) ==
    /\ value \in 0 .. cacheDb
    /\ read \in 0 .. cacheNow
    /\ \A c \in 1 .. cacheDb : c > value => cacheMadeAt[c] >= read

\* A value shows what was answered.
Answered(value) == \A c \in cacheAnswered : c <= value

\* Writes in flight made changes of their own, and the version counts the answers.
WritesOK ==
    /\ cacheAnswered \subseteq 1 .. cacheDb
    /\ \A w \in Write : cacheWrite[w] # Cache!NoWrite =>
           /\ cacheWrite[w].change \in (1 .. cacheDb) \ cacheAnswered
           /\ \A v \in Write \ {w} : cacheWrite[v] # Cache!NoWrite =>
                  cacheWrite[v].change # cacheWrite[w].change
    /\ cacheVersion = Cardinality(cacheAnswered)

\* A search that loads knows what was answered when it began, and unless a write
\* was answered since, that is all that was.
LoadOK(q) ==
    /\ q.startedAt <= cacheVersion
    /\ q.since <= cacheDb
    /\ q.startedAt = cacheVersion => Answered(q.since)
    /\ q.at <= cacheNow /\ cacheNow <= q.at + QueryTime

SearchOK(q) ==
    /\ q \in Loading \cup HasRows => LoadOK(q)
    /\ q \in HasRows => q.since <= q.value /\ Shows(q.value, q.read) /\ q.at <= q.read
    /\ q \in Answer => q.since <= q.value

SearchesOK == \A s \in Search : SearchOK(cacheSearch[s])

\* A stored result shows what was answered, and was stored soon after it was read.
EntryOK(e) ==
    /\ e.version = cacheVersion
    /\ Shows(e.value, e.read)
    /\ Answered(e.value)
    /\ e.read <= e.at /\ e.at <= cacheNow /\ e.at <= e.read + QueryTime

EntriesOK ==
    /\ \A k \in Cache!Stored : EntryOK(cacheEntries[k])
    /\ IsFiniteSet(Cache!Stored) /\ Cardinality(Cache!Stored) <= MaxEntries

CacheInv == CacheTyped /\ WritesOK /\ SearchesOK /\ EntriesOK

\* The shapes of a search exclude one another.
LEMMA Shapes ==
    ASSUME NEW q
    PROVE  /\ q \in Loading => q.pc = "loading" /\ q.startedAt \in Nat /\ q.since \in Nat /\ q.at \in Nat /\ q.key \in Key
           /\ q \in HasRows => /\ q.pc = "read" /\ q.startedAt \in Nat /\ q.since \in Nat /\ q.at \in Nat
                               /\ q.value \in Nat /\ q.read \in Nat /\ q.key \in Key
           /\ q \in Answer => q.pc = "done" /\ q.since \in Nat /\ q.value \in Nat
           /\ Cache!Waiting.pc = "idle"
  BY DEF Loading, HasRows, Answer, Cache!Waiting

\* The latest of some changes is one of them, and none is later.
LEMMA LatestIs ==
    ASSUME NEW m \in Nat, NEW S, S \subseteq 1 .. m
    PROVE  /\ Cache!Latest(S) \in 0 .. m
           /\ \A c \in S : c <= Cache!Latest(S)
           /\ S # {} => Cache!Latest(S) \in S
  <1>1. CASE S = {}
    BY <1>1 DEF Cache!Latest
  <1>2. CASE S # {}
    <2> DEFINE T == {m - c : c \in S}
               R == OpToRel(<, Nat)
    <2>1. T \subseteq Nat /\ T # {}
      <3>1. \A c \in S : m - c \in Nat
        OBVIOUS
      <3>2. PICK c \in S : TRUE
        BY <1>2
      <3>3. m - c \in T
        OBVIOUS
      <3> QED BY <3>1, <3>3
    <2>2. \E x \in T : \A y \in T : ~(<<y, x>> \in R)
      BY <2>1, NatLessThanWellFounded, WFMin
    <2>3. PICK x \in T : \A y \in T : ~(<<y, x>> \in R)
      BY <2>2
    <2>4. \A y \in T : <<y, x>> \in R <=> y < x
      BY <2>1 DEF OpToRel
    <2>5. PICK c \in S : x = m - c
      OBVIOUS
    <2> HIDE DEF R
    <2>6. \A d \in S : d <= c
      <3> TAKE d \in S
      <3>1. m - d \in T
        OBVIOUS
      <3>2. ~(m - d < x)
        BY <2>3, <2>4, <3>1
      <3>3. d \in Int /\ c \in Int /\ m \in Int
        OBVIOUS
      <3> HIDE DEF T
      <3> QED BY <2>5, <3>2, <3>3
    <2> HIDE DEF T
    <2>7. \E b \in S : \A d \in S : d <= b
      BY <2>6
    <2>8. Cache!Latest(S) = CHOOSE b \in S : \A d \in S : d <= b
      BY <1>2 DEF Cache!Latest
    <2>9. /\ (CHOOSE b \in S : \A d \in S : d <= b) \in S
          /\ \A d \in S : d <= (CHOOSE b \in S : \A e \in S : e <= b)
      BY <2>7, Zenon
    <2>10. Cache!Latest(S) \in S /\ \A d \in S : d <= Cache!Latest(S)
      BY <2>8, <2>9, Zenon
    <2>11. \A d \in S : d \in 0 .. m
      OBVIOUS
    <2>12. Cache!Latest(S) \in 0 .. m
      BY <2>10, <2>11, Zenon
    <2> QED BY <2>10, <2>12, Zenon
  <1> QED BY <1>1, <1>2

\* The cache counts its entries with the operator of FiniteSets.
LEMMA SameCount == \A S : Cache!Cardinality(S) = Cardinality(S)
  BY DEF Cache!Cardinality, Cardinality

\* The clock, the changes and the entries of the cache are numbers in their bounds.
LEMMA CacheNumbers ==
    ASSUME CacheInv
    PROVE  /\ cacheDb \in 0 .. MaxChanges /\ cacheNow \in 0 .. MaxTime /\ cacheVersion \in Nat
           /\ MaxChanges \in Nat /\ MaxTime \in Nat /\ QueryTime \in Nat /\ SafetyTtl \in Nat
           /\ cacheMadeAt \in [1 .. MaxChanges -> 0 .. MaxTime]
           /\ cacheAnswered \subseteq 1 .. cacheDb
  BY CatalogueAssumption DEF CacheInv, CacheTyped, WritesOK, Cache!TypeOK, Cache!Change

\* What a value shows it goes on showing: changes come later than its reading.
LEMMA ShowsStays ==
    ASSUME CacheInv,
           \/ Cache!Committed /\ UNCHANGED cacheNow
           \/ UNCHANGED <<cacheDb, cacheMadeAt>> /\ cacheNow' \in {cacheNow, cacheNow + 1},
           NEW v, NEW t, Shows(v, t)
    PROVE  Shows(v, t)'
  <1>1. CASE Cache!Committed /\ UNCHANGED cacheNow
    <2>1. cacheDb' = cacheDb + 1 /\ cacheMadeAt' = [cacheMadeAt EXCEPT ![cacheDb + 1] = cacheNow] /\ cacheDb < MaxChanges
      BY <1>1 DEF Cache!Committed
    <2>2. \A c \in 1 .. cacheDb' : cacheMadeAt'[c] = IF c = cacheDb + 1 THEN cacheNow ELSE cacheMadeAt[c]
      BY <2>1, CacheNumbers
    <2>3. \A c \in 1 .. cacheDb' : c = cacheDb + 1 \/ c \in 1 .. cacheDb
      BY <2>1, CacheNumbers
    <2>4. v \in 0 .. cacheDb' /\ t \in 0 .. cacheNow'
      BY <1>1, <2>1, CacheNumbers DEF Shows
    <2>5. \A c \in 1 .. cacheDb' : c > v => cacheMadeAt'[c] >= t
      BY <2>2, <2>3, CacheNumbers DEF Shows
    <2> QED BY <2>4, <2>5 DEF Shows
  <1>2. CASE UNCHANGED <<cacheDb, cacheMadeAt>> /\ cacheNow' \in {cacheNow, cacheNow + 1}
    BY <1>2, CacheNumbers DEF Shows
  <1> QED BY <1>1, <1>2

\* As long as nothing is answered and the clock stands still, searches and entries
\* stay sound.
LEMMA SoundStays ==
    ASSUME CacheInv, UNCHANGED <<cacheAnswered, cacheVersion, cacheNow>>,
           Cache!Committed \/ UNCHANGED <<cacheDb, cacheMadeAt>>
    PROVE  /\ \A q \in SearchState : SearchOK(q) => SearchOK(q)'
           /\ \A e : EntryOK(e) => EntryOK(e)'
           /\ cacheDb <= cacheDb' /\ cacheDb' \in Nat
  <1>1. \A v, t : Shows(v, t) => Shows(v, t)'
    BY ShowsStays
  <1>2. cacheDb <= cacheDb' /\ cacheDb' \in Nat
    BY CacheNumbers DEF Cache!Committed
  <1>3. \A v : Answered(v) => Answered(v)'
    BY DEF Answered
  <1>4. ASSUME NEW q \in SearchState, SearchOK(q) PROVE SearchOK(q)'
    <2>1. q \in Loading \cup HasRows => LoadOK(q)'
      BY <1>2, <1>3, <1>4, Shapes, CacheNumbers DEF SearchOK, LoadOK
    <2> QED BY <1>1, <1>4, <2>1 DEF SearchOK
  <1>5. ASSUME NEW e, EntryOK(e) PROVE EntryOK(e)'
    BY <1>1, <1>3, <1>5 DEF EntryOK
  <1> QED BY <1>2, <1>4, <1>5

\* A step of one search that stores nothing keeps the invariant.
LEMMA SearchMoves ==
    ASSUME CacheInv, NEW s \in Search, NEW q \in SearchState, SearchOK(q),
           cacheSearch' = [cacheSearch EXCEPT ![s] = q],
           UNCHANGED <<cacheDb, cacheMadeAt, cacheAnswered, cacheVersion, cacheEntries, cacheWrite, cacheNow>>
    PROVE  CacheInv'
  <1>1. CacheTyped'
    BY DEF CacheInv, CacheTyped, Cache!TypeOK, Cache!Stored
  <1>2. WritesOK'
    BY DEF CacheInv, WritesOK
  <1>3. SearchOK(q)' /\ \A t \in Search : SearchOK(cacheSearch[t])'
    BY SoundStays DEF CacheInv, CacheTyped, SearchesOK
  <1>4. SearchesOK'
    <2> SUFFICES ASSUME NEW t \in Search PROVE SearchOK(cacheSearch[t])'
      BY DEF SearchesOK
    <2>1. cacheSearch'[t] = IF t = s THEN q ELSE cacheSearch[t]
      BY DEF CacheInv, CacheTyped
    <2> QED BY <1>3, <2>1
  <1>5. EntriesOK'
    BY SoundStays DEF CacheInv, EntriesOK, Cache!Stored
  <1> QED BY <1>1, <1>2, <1>4, <1>5 DEF CacheInv

\* A hit answers with what is stored, which shows all that was answered; a search
\* that loads remembers what was.
LEMMA StartSearchKeeps ==
    ASSUME CacheInv, NEW s \in Search, NEW k \in Key, Cache!StartSearch(s, k) PROVE CacheInv'
  <1> DEFINE latest == Cache!Latest(cacheAnswered)
             e == cacheEntries[k]
  <1>1. latest \in Nat /\ latest <= cacheDb /\ Answered(latest) /\ (cacheAnswered # {} => latest \in cacheAnswered)
    BY CacheNumbers, LatestIs DEF Answered
  <1>2. CASE Cache!Servable(e)
    <2> DEFINE q == [pc |-> "done", value |-> e.value, since |-> latest]
    <2>1. e \in Cache!Entry /\ EntryOK(e)
      BY <1>2 DEF Cache!Servable, CacheInv, CacheTyped, Cache!TypeOK, EntriesOK, Cache!Stored
    <2>2. e.value \in Nat /\ latest <= e.value
      <3>1. e.value \in 0 .. cacheDb /\ cacheDb \in Nat /\ Answered(e.value)
        BY <2>1, CacheNumbers DEF EntryOK, Shows
      <3>2. e.value \in Nat
        BY <3>1
      <3>3. CASE cacheAnswered = {}
        <4>1. latest = 0
          BY <3>3 DEF Cache!Latest
        <4> QED BY <3>2, <4>1
      <3>4. CASE cacheAnswered # {}
        BY <1>1, <3>1, <3>4 DEF Answered
      <3> QED BY <3>2, <3>3, <3>4
    <2>3. q \in Answer
      BY <1>1, <2>2 DEF Answer
    <2>4. SearchOK(q)
      BY <2>2, <2>3, Shapes DEF SearchOK
    <2>5. cacheSearch' = [cacheSearch EXCEPT ![s] = q]
      BY <1>2 DEF Cache!StartSearch
    <2> HIDE DEF q
    <2> QED BY <2>3, <2>4, <2>5, SearchMoves DEF Cache!StartSearch, SearchState
  <1>3. CASE ~Cache!Servable(e)
    <2> DEFINE q == [pc |-> "loading", key |-> k, startedAt |-> cacheVersion, since |-> latest, at |-> cacheNow]
    <2>1. q \in Loading
      BY <1>1, CacheNumbers DEF Loading
    <2>2. SearchOK(q)
      BY <1>1, <2>1, CacheNumbers, Shapes DEF SearchOK, LoadOK
    <2>3. cacheSearch' = [cacheSearch EXCEPT ![s] = q]
      BY <1>3 DEF Cache!StartSearch
    <2> HIDE DEF q
    <2> QED BY <2>1, <2>2, <2>3, SearchMoves DEF Cache!StartSearch, SearchState
  <1> QED BY <1>2, <1>3

\* The state of a search by its step.
LEMMA ByStep ==
    ASSUME CacheInv, NEW s \in Search
    PROVE  /\ cacheSearch[s].pc = "loading" => cacheSearch[s] \in Loading
           /\ cacheSearch[s].pc = "read" => cacheSearch[s] \in HasRows
           /\ cacheSearch[s] \in SearchState /\ SearchOK(cacheSearch[s])
  BY Shapes DEF CacheInv, CacheTyped, SearchState, SearchesOK

\* The rows are all there is when they are read.
LEMMA ReadRowsKeeps ==
    ASSUME CacheInv, NEW s \in Search, Cache!ReadRows(s) PROVE CacheInv'
  <1> DEFINE p == cacheSearch[s]
             q == [pc |-> "read", key |-> p.key, startedAt |-> p.startedAt, value |-> cacheDb,
                   since |-> p.since, at |-> p.at, read |-> cacheNow]
  <1>1. p \in Loading /\ LoadOK(p)
    BY ByStep DEF Cache!ReadRows, SearchOK
  <1>2. q \in HasRows
    BY <1>1, Shapes, CacheNumbers DEF HasRows
  <1>3. Shows(cacheDb, cacheNow)
    BY CacheNumbers DEF Shows
  <1>4. SearchOK(q)
    BY <1>1, <1>2, <1>3, Shapes, CacheNumbers DEF SearchOK, LoadOK
  <1>5. cacheSearch' = [cacheSearch EXCEPT ![s] = q]
    BY DEF Cache!ReadRows
  <1> HIDE DEF q
  <1> QED BY <1>2, <1>4, <1>5, SearchMoves DEF Cache!ReadRows, SearchState

\* Nothing is said of a search that ended without an answer.
LEMMA SearchFailsKeeps ==
    ASSUME CacheInv, NEW s \in Search, Cache!SearchFails(s) PROVE CacheInv'
  <1>1. Cache!Waiting \in SearchState /\ SearchOK(Cache!Waiting)
    BY Shapes DEF SearchState, SearchOK
  <1> QED BY <1>1, SearchMoves DEF Cache!SearchFails

\* What is stored was read by a search nothing was answered since the start of.
LEMMA StoreResultKeeps ==
    ASSUME CacheInv, NEW s \in Search, Cache!StoreResult(s) PROVE CacheInv'
  <1> PICK p : p = cacheSearch[s]
    OBVIOUS
  <1> PICK q : q = [pc |-> "done", value |-> p.value, since |-> p.since]
    OBVIOUS
  <1> PICK e : e = [at |-> cacheNow, version |-> cacheVersion, value |-> p.value, read |-> p.read]
    OBVIOUS
  <1> PICK base : base = IF Cache!Full THEN Cache!Emptied ELSE cacheEntries
    OBVIOUS
  <1>1. p \in HasRows /\ SearchOK(p) /\ p.pc = "read"
    BY ByStep DEF Cache!StoreResult
  <1>2. /\ p.value \in Nat /\ p.since \in Nat /\ p.key \in Key /\ p.read \in Nat /\ p.at \in Nat
        /\ p.since <= p.value /\ Shows(p.value, p.read) /\ LoadOK(p) /\ p.at <= p.read /\ p.startedAt \in Nat
    BY <1>1, Shapes DEF SearchOK
  <1>3. q \in Answer /\ SearchOK(q) /\ q \in SearchState
    BY <1>2, Shapes DEF Answer, SearchOK, SearchState
  <1>4. cacheSearch' = [cacheSearch EXCEPT ![s] = q]
    BY DEF Cache!StoreResult
  <1>5. UNCHANGED <<cacheDb, cacheMadeAt, cacheAnswered, cacheVersion, cacheWrite, cacheNow>>
    BY DEF Cache!StoreResult
  <1>6. SearchesOK'
    <2> SUFFICES ASSUME NEW t \in Search PROVE SearchOK(cacheSearch[t])'
      BY DEF SearchesOK
    <2>1. cacheSearch'[t] = IF t = s THEN q ELSE cacheSearch[t]
      BY <1>4 DEF CacheInv, CacheTyped
    <2>2. \A z \in SearchState : SearchOK(z) => SearchOK(z)'
      BY <1>5, SoundStays
    <2> QED BY <1>3, <2>1, <2>2, ByStep
  <1>7. CASE ~Cache!MayStore(p)
    <2>1. cacheEntries' = cacheEntries
      BY <1>7 DEF Cache!StoreResult
    <2>2. CacheTyped'
      BY <1>3, <1>4, <1>5, <2>1 DEF CacheInv, CacheTyped, Cache!TypeOK, Cache!Stored, SearchState
    <2>3. EntriesOK'
      BY <1>5, <2>1, SoundStays DEF CacheInv, EntriesOK, Cache!Stored
    <2>4. WritesOK'
      BY <1>5 DEF CacheInv, WritesOK
    <2> QED BY <1>6, <2>2, <2>3, <2>4 DEF CacheInv
  <1>8. CASE Cache!MayStore(p)
    <2>1. cacheEntries' = [base EXCEPT ![p.key] = e]
      BY <1>8 DEF Cache!StoreResult
    <2>2. base \in [Key -> Cache!Entry \cup {None}]
      BY DEF Cache!Emptied, CacheInv, CacheTyped, Cache!TypeOK
    <2>3. EntryOK(e)
      <3>1. Answered(p.since)
        BY <1>2, <1>8 DEF Cache!MayStore, LoadOK
      <3>2. Answered(p.value)
        BY <1>2, <3>1, CacheNumbers DEF Answered
      <3>3. cacheNow <= p.read + QueryTime /\ p.read <= cacheNow
        BY <1>2, CacheNumbers DEF LoadOK, Shows
      <3>4. e.value = p.value /\ e.read = p.read /\ e.at = cacheNow /\ e.version = cacheVersion
        OBVIOUS
      <3> QED BY <1>2, <3>2, <3>3, <3>4, CacheNumbers DEF EntryOK
    <2>4. e \in Cache!Entry /\ e # None
      BY <1>2, CacheNumbers, CatalogueAssumption DEF Cache!Entry, Shows, CacheInv, CacheTyped, Cache!TypeOK
    <2>5. \A k \in Key : base[k] # None => base[k] = cacheEntries[k]
      BY DEF Cache!Emptied
    <2> DEFINE kept == {k \in Key : base[k] # None}
    <2>6. IsFiniteSet(kept) /\ Cardinality(kept) \in Nat /\ Cardinality(kept) < MaxEntries
      <3>1. CASE Cache!Full
        <4>1. kept = {}
          BY <3>1 DEF Cache!Emptied
        <4> QED BY <4>1, FS_EmptySet, CatalogueAssumption
      <3>2. CASE ~Cache!Full
        <4>1. kept = Cache!Stored
          BY <3>2 DEF Cache!Stored
        <4>2. IsFiniteSet(Cache!Stored) /\ Cardinality(Cache!Stored) \in Nat
          BY FS_CardinalityType DEF CacheInv, EntriesOK
        <4>3. ~(Cardinality(Cache!Stored) >= MaxEntries)
          BY <3>2, SameCount DEF Cache!Full
        <4>4. MaxEntries \in Nat
          BY CatalogueAssumption
        <4> HIDE DEF kept
        <4> QED BY <4>1, <4>2, <4>3, <4>4
      <3> QED BY <3>1, <3>2
    <2>7. \A k \in Key : cacheEntries'[k] = IF k = p.key THEN e ELSE base[k]
      BY <2>1, <2>2
    <2>8. cacheEntries' \in [Key -> Cache!Entry \cup {None}]
      BY <2>1, <2>2, <2>4
    <2>9. Cache!Stored' = kept \cup {p.key}
      BY <1>2, <2>4, <2>7 DEF Cache!Stored
    <2>10. IsFiniteSet(Cache!Stored') /\ Cardinality(Cache!Stored') <= MaxEntries
      <3> HIDE DEF kept
      <3>1. /\ IsFiniteSet(kept \cup {p.key})
            /\ Cardinality(kept \cup {p.key}) \in {Cardinality(kept), Cardinality(kept) + 1}
        BY <2>6, FS_AddElement
      <3>2. Cardinality(kept \cup {p.key}) <= MaxEntries
        BY <2>6, <3>1, CatalogueAssumption
      <3> QED BY <2>9, <3>1, <3>2
    <2>11. EntryOK(e)'
      BY <1>5, <2>3, SoundStays
    <2>12. ASSUME NEW k \in Cache!Stored' PROVE EntryOK(cacheEntries[k])'
      <3>1. k \in Key
        BY DEF Cache!Stored
      <3>2. CASE k = p.key
        BY <2>7, <2>11, <3>1, <3>2
      <3>3. CASE k # p.key
        <4>1. cacheEntries'[k] = cacheEntries[k] /\ k \in Cache!Stored
          BY <2>5, <2>7, <3>1, <3>3 DEF Cache!Stored
        <4>2. EntryOK(cacheEntries[k])
          BY <4>1 DEF CacheInv, EntriesOK
        <4>3. PICK f : f = cacheEntries[k]
          OBVIOUS
        <4>4. EntryOK(f)'
          BY <1>5, <4>2, <4>3, SoundStays
        <4> QED BY <4>1, <4>3, <4>4 DEF EntryOK
      <3> QED BY <3>2, <3>3
    <2>13. EntriesOK'
      BY <2>10, <2>12 DEF EntriesOK
    <2>14. \A k \in Cache!Stored' : (cacheEntries'[k]).version = cacheVersion'
      BY <2>12 DEF EntryOK
    <2>15. cacheSearch' \in [Search -> SearchState]
      BY <1>3, <1>4 DEF CacheInv, CacheTyped
    <2>16. CacheTyped'
      BY <1>5, <2>8, <2>14, <2>15 DEF CacheInv, CacheTyped, Cache!TypeOK, SearchState
    <2>17. WritesOK'
      BY <1>5 DEF CacheInv, WritesOK
    <2> QED BY <1>6, <2>13, <2>16, <2>17 DEF CacheInv
  <1> QED BY <1>7, <1>8

\* A change, also one of another server, is in no answer yet.
LEMMA CommitKeeps ==
    ASSUME CacheInv, Cache!Committed,
           UNCHANGED <<cacheAnswered, cacheVersion, cacheEntries, cacheSearch, cacheNow>>,
           \/ UNCHANGED cacheWrite
           \/ \E w \in Write :
                  /\ cacheWrite[w] = Cache!NoWrite
                  /\ cacheWrite' = [cacheWrite EXCEPT ![w] = [pc |-> "committed", change |-> cacheDb + 1]]
    PROVE  CacheInv'
  <1>1. cacheDb < MaxChanges /\ cacheDb' = cacheDb + 1 /\ cacheMadeAt' = [cacheMadeAt EXCEPT ![cacheDb + 1] = cacheNow]
    BY DEF Cache!Committed
  <1>2. cacheDb + 1 \in Cache!Change /\ cacheDb' \in 0 .. MaxChanges /\ cacheMadeAt' \in [Cache!Change -> 0 .. MaxTime]
    BY <1>1, CacheNumbers DEF Cache!Change
  <1>3. cacheWrite' \in [Write -> {Cache!NoWrite} \cup Promise]
    BY <1>2 DEF CacheInv, CacheTyped, Promise
  <1>4. CacheTyped'
    BY <1>2, <1>3 DEF CacheInv, CacheTyped, Cache!TypeOK, Cache!Stored
  <1>5. \A w \in Write : cacheWrite[w] # Cache!NoWrite =>
            cacheWrite[w].change \in 1 .. cacheDb /\ cacheWrite[w].change # cacheDb + 1
    BY CacheNumbers DEF CacheInv, WritesOK
  <1>6. \A c \in 1 .. cacheDb : c \in 1 .. cacheDb'
    BY <1>1, CacheNumbers
  <1>7. cacheDb + 1 \notin cacheAnswered /\ cacheDb + 1 \in 1 .. cacheDb'
    BY <1>1, CacheNumbers
  <1>8. WritesOK'
    <2>1. CASE UNCHANGED cacheWrite
      BY <1>6, <2>1, CacheNumbers DEF CacheInv, WritesOK
    <2>2. ASSUME NEW w \in Write, cacheWrite[w] = Cache!NoWrite,
                 cacheWrite' = [cacheWrite EXCEPT ![w] = [pc |-> "committed", change |-> cacheDb + 1]]
          PROVE  WritesOK'
      <3>1. \A v \in Write : v # w => cacheWrite'[v] = cacheWrite[v]
        BY <2>2 DEF CacheInv, CacheTyped
      <3>2. cacheWrite'[w].change = cacheDb + 1
        BY <2>2 DEF CacheInv, CacheTyped
      <3>3. ASSUME NEW v \in Write, cacheWrite'[v] # Cache!NoWrite
            PROVE  /\ cacheWrite'[v].change \in (1 .. cacheDb') \ cacheAnswered'
                   /\ \A u \in Write \ {v} : cacheWrite'[u] # Cache!NoWrite =>
                          cacheWrite'[u].change # cacheWrite'[v].change
        <4>1. CASE v = w
          BY <1>5, <1>7, <3>1, <3>2, <4>1
        <4>2. CASE v # w
          BY <1>5, <1>6, <3>1, <3>2, <3>3, <4>2 DEF CacheInv, WritesOK
        <4> QED BY <4>1, <4>2
      <3> QED BY <1>6, <3>3, CacheNumbers DEF CacheInv, WritesOK
    <2> QED BY <2>1, <2>2
  <1>9. /\ \A z \in SearchState : SearchOK(z) => SearchOK(z)'
        /\ \A z : EntryOK(z) => EntryOK(z)'
    BY SoundStays
  <1>10. SearchesOK'
    BY <1>9, ByStep DEF SearchesOK
  <1>11. EntriesOK'
    BY <1>9 DEF CacheInv, EntriesOK, Cache!Stored
  <1> QED BY <1>4, <1>8, <1>10, <1>11 DEF CacheInv

\* An answer drops every entry: what comes after is read anew.
LEMMA FinishWriteKeeps ==
    ASSUME CacheInv, NEW w \in Write, Cache!FinishWrite(w) PROVE CacheInv'
  <1>1. /\ cacheVersion' = cacheVersion + 1
        /\ cacheEntries' = [k \in Key |-> None]
        /\ cacheAnswered' = cacheAnswered \cup {cacheWrite[w].change}
        /\ cacheWrite' = [cacheWrite EXCEPT ![w] = Cache!NoWrite]
        /\ UNCHANGED <<cacheDb, cacheMadeAt, cacheSearch, cacheNow>>
    BY DEF Cache!FinishWrite, Cache!Invalidate, Cache!Emptied
  <1>2. cacheWrite[w] # Cache!NoWrite
    BY DEF Cache!FinishWrite, Cache!NoWrite
  <1>3. cacheWrite[w].change \in (1 .. cacheDb) \ cacheAnswered
    BY <1>2 DEF CacheInv, WritesOK
  <1>4. /\ cacheAnswered' \subseteq 1 .. cacheDb /\ cacheAnswered \subseteq 1 .. cacheDb
        /\ IsFiniteSet(1 .. cacheDb) /\ Cardinality(1 .. cacheDb) <= MaxChanges
    <2>1. 1 \in Int /\ cacheDb \in Int /\ cacheDb \in Nat /\ cacheDb <= MaxChanges
      BY CacheNumbers
    <2>2. /\ IsFiniteSet(1 .. cacheDb)
          /\ Cardinality(1 .. cacheDb) = IF 1 > cacheDb THEN 0 ELSE cacheDb - 1 + 1
      BY <2>1, FS_Interval
    <2>3. Cardinality(1 .. cacheDb) <= MaxChanges
      BY <2>1, <2>2, CacheNumbers
    <2> QED BY <1>1, <1>3, <2>2, <2>3, CacheNumbers
  <1>5. IsFiniteSet(cacheAnswered) /\ cacheVersion = Cardinality(cacheAnswered)
    BY <1>4, FS_Subset DEF CacheInv, WritesOK
  <1>6. cacheVersion' = Cardinality(cacheAnswered')
    BY <1>1, <1>3, <1>5, FS_AddElement
  <1>7. Cardinality(cacheAnswered') <= Cardinality(1 .. cacheDb) /\ Cardinality(1 .. cacheDb) \in Nat
    BY <1>4, FS_Subset, FS_CardinalityType
  <1>8. cacheVersion' \in 0 .. MaxChanges
    BY <1>1, <1>4, <1>6, <1>7, CacheNumbers
  <1>9. Cache!Stored' = {}
    BY <1>1 DEF Cache!Stored
  <1>10. CacheTyped'
    <2>1. cacheEntries' \in [Key -> Cache!Entry \cup {None}] /\ cacheWrite' \in [Write -> {Cache!NoWrite} \cup Promise]
      BY <1>1 DEF CacheInv, CacheTyped
    <2>2. cacheAnswered' \subseteq Cache!Change
      BY <1>4, CacheNumbers DEF Cache!Change
    <2> QED BY <1>1, <1>8, <1>9, <2>1, <2>2 DEF CacheInv, CacheTyped, Cache!TypeOK
  <1>11. WritesOK'
    <2>1. \A v \in Write : v # w => cacheWrite'[v] = cacheWrite[v]
      BY <1>1 DEF CacheInv, CacheTyped
    <2>2. cacheWrite'[w] = Cache!NoWrite
      BY <1>1 DEF CacheInv, CacheTyped
    <2> QED BY <1>1, <1>2, <1>4, <1>6, <2>1, <2>2 DEF CacheInv, WritesOK
  <1>12. SearchesOK'
    <2> SUFFICES ASSUME NEW s \in Search PROVE SearchOK(cacheSearch[s])'
      BY DEF SearchesOK
    <2>1. PICK q : q = cacheSearch[s]
      OBVIOUS
    <2>2. q \in SearchState /\ SearchOK(q)
      BY <2>1, ByStep
    <2>3. \A v, t : Shows(v, t) => Shows(v, t)'
      BY <1>1 DEF Shows
    <2>4. LoadOK(q) /\ q.startedAt \in Nat => LoadOK(q)'
      BY <1>1, CacheNumbers DEF LoadOK
    <2>5. SearchOK(q)'
      BY <2>2, <2>3, <2>4, Shapes DEF SearchOK
    <2> QED BY <1>1, <2>1, <2>5
  <1>13. EntriesOK'
    BY <1>9, FS_EmptySet, CatalogueAssumption DEF EntriesOK
  <1> QED BY <1>10, <1>11, <1>12, <1>13 DEF CacheInv

\* A write whose answer is lost drops nothing.
LEMMA LoseAnswerKeeps ==
    ASSUME CacheInv, NEW w \in Write, Cache!LoseAnswer(w) PROVE CacheInv'
  <1>1. /\ cacheWrite' = [cacheWrite EXCEPT ![w] = Cache!NoWrite]
        /\ UNCHANGED <<cacheDb, cacheMadeAt, cacheAnswered, cacheVersion, cacheEntries, cacheSearch, cacheNow>>
    BY DEF Cache!LoseAnswer
  <1>2. CacheTyped'
    BY <1>1 DEF CacheInv, CacheTyped, Cache!TypeOK, Cache!Stored
  <1>3. \A v \in Write : cacheWrite'[v] = IF v = w THEN Cache!NoWrite ELSE cacheWrite[v]
    BY <1>1 DEF CacheInv, CacheTyped
  <1>4. WritesOK'
    BY <1>1, <1>3 DEF CacheInv, WritesOK
  <1>5. /\ \A z \in SearchState : SearchOK(z) => SearchOK(z)'
        /\ \A z : EntryOK(z) => EntryOK(z)'
    BY <1>1, SoundStays
  <1>6. SearchesOK' /\ EntriesOK'
    BY <1>1, <1>5, ByStep DEF CacheInv, SearchesOK, EntriesOK, Cache!Stored
  <1> QED BY <1>2, <1>4, <1>6 DEF CacheInv

\* The clock waits for a search that has taken all the time it may.
LEMMA TickKeeps ==
    ASSUME CacheInv, Cache!Tick PROVE CacheInv'
  <1>1. /\ cacheNow < MaxTime /\ cacheNow' = cacheNow + 1
        /\ UNCHANGED <<cacheDb, cacheMadeAt, cacheAnswered, cacheVersion, cacheEntries, cacheSearch, cacheWrite>>
        /\ \A s \in Search : cacheSearch[s].pc \in {"loading", "read"} => cacheNow - cacheSearch[s].at < QueryTime
    BY DEF Cache!Tick
  <1>2. CacheTyped'
    BY <1>1, CacheNumbers DEF CacheInv, CacheTyped, Cache!TypeOK, Cache!Stored
  <1>3. WritesOK'
    BY <1>1 DEF CacheInv, WritesOK
  <1>4. \A v, t : Shows(v, t) => Shows(v, t)'
    BY <1>1, ShowsStays
  <1>5. SearchesOK'
    <2> SUFFICES ASSUME NEW s \in Search PROVE SearchOK(cacheSearch[s])'
      BY DEF SearchesOK
    <2>1. PICK q : q = cacheSearch[s]
      OBVIOUS
    <2>2. q \in SearchState /\ SearchOK(q)
      BY <2>1, ByStep
    <2>3. q \in Loading \cup HasRows => LoadOK(q)'
      <3> SUFFICES ASSUME q \in Loading \cup HasRows PROVE LoadOK(q)'
        OBVIOUS
      <3>1. q.at \in Nat /\ cacheNow - q.at < QueryTime /\ LoadOK(q)
        BY <1>1, <2>1, <2>2, Shapes DEF SearchOK
      <3> QED BY <1>1, <3>1, CacheNumbers DEF LoadOK, Answered
    <2>4. SearchOK(q)'
      BY <1>4, <2>2, <2>3 DEF SearchOK
    <2> QED BY <1>1, <2>1, <2>4
  <1>6. EntriesOK'
    <2>1. ASSUME NEW k \in Cache!Stored PROVE EntryOK(cacheEntries[k])'
      <3>1. PICK e : e = cacheEntries[k]
        OBVIOUS
      <3>2. EntryOK(e) /\ e.at \in Nat
        BY <3>1 DEF CacheInv, CacheTyped, EntriesOK, Cache!TypeOK, Cache!Stored, Cache!Entry
      <3>3. EntryOK(e)'
        BY <1>1, <1>4, <3>2, CacheNumbers DEF EntryOK, Answered
      <3> QED BY <1>1, <3>1, <3>3
    <2> QED BY <1>1, <2>1 DEF CacheInv, EntriesOK, Cache!Stored
  <1> QED BY <1>2, <1>3, <1>5, <1>6 DEF CacheInv

\* The cache starts empty.
LEMMA CacheInit == Cache!Init => CacheInv
  <1> SUFFICES ASSUME Cache!Init PROVE CacheInv
    OBVIOUS
  <1>1. Cache!Stored = {} /\ IsFiniteSet({}) /\ Cardinality({}) = 0
    BY FS_EmptySet DEF Cache!Init, Cache!Stored
  <1>2. CacheTyped
    BY <1>1, CatalogueAssumption DEF Cache!Init, CacheTyped, Cache!TypeOK, SearchState
  <1>3. WritesOK
    BY <1>1 DEF Cache!Init, WritesOK
  <1>4. SearchesOK
    BY Shapes DEF Cache!Init, SearchesOK, SearchOK
  <1>5. EntriesOK
    BY <1>1, CatalogueAssumption DEF EntriesOK
  <1> QED BY <1>2, <1>3, <1>4, <1>5 DEF CacheInv

\* Every step keeps the invariant of the cache.
LEMMA CacheStep == CacheInv /\ [Cache!Next]_(Cache!vars) => CacheInv'
  <1> SUFFICES ASSUME CacheInv, [Cache!Next]_(Cache!vars) PROVE CacheInv'
    OBVIOUS
  <1>1. ASSUME NEW s \in Search, NEW k \in Key, Cache!StartSearch(s, k) PROVE CacheInv'
    BY <1>1, StartSearchKeeps
  <1>2. ASSUME NEW s \in Search, Cache!ReadRows(s) \/ Cache!StoreResult(s) \/ Cache!SearchFails(s) PROVE CacheInv'
    BY <1>2, ReadRowsKeeps, StoreResultKeeps, SearchFailsKeeps
  <1>3. ASSUME NEW w \in Write, Cache!CommitWrite(w) PROVE CacheInv'
    BY <1>3, CommitKeeps DEF Cache!CommitWrite
  <1>4. ASSUME NEW w \in Write, Cache!FinishWrite(w) \/ Cache!LoseAnswer(w) PROVE CacheInv'
    BY <1>4, FinishWriteKeeps, LoseAnswerKeeps
  <1>5. CASE Cache!ChangeElsewhere
    BY <1>5, CommitKeeps DEF Cache!ChangeElsewhere
  <1>6. CASE Cache!Tick
    BY <1>6, TickKeeps
  <1>7. CASE UNCHANGED Cache!vars
    <2>1. UNCHANGED <<cacheDb, cacheMadeAt, cacheAnswered, cacheVersion, cacheEntries, cacheSearch, cacheWrite, cacheNow>>
      BY <1>7 DEF Cache!vars
    <2>2. /\ \A z \in SearchState : SearchOK(z) => SearchOK(z)'
          /\ \A z : EntryOK(z) => EntryOK(z)'
      BY <2>1, SoundStays
    <2>3. CacheTyped' /\ WritesOK'
      BY <2>1 DEF CacheInv, CacheTyped, WritesOK, Cache!TypeOK, Cache!Stored
    <2>4. SearchesOK' /\ EntriesOK'
      BY <2>1, <2>2, ByStep DEF CacheInv, SearchesOK, EntriesOK, Cache!Stored
    <2> QED BY <2>3, <2>4 DEF CacheInv
  <1> QED BY <1>1, <1>2, <1>3, <1>4, <1>5, <1>6, <1>7 DEF Cache!Next

\* The invariant gives what is promised of the answers.
LEMMA CacheImplies == CacheInv => Cache!NoStaleAnswer /\ Cache!HiddenForAWhile /\ Cache!CacheIsBounded
  <1> SUFFICES ASSUME CacheInv PROVE Cache!NoStaleAnswer /\ Cache!HiddenForAWhile /\ Cache!CacheIsBounded
    OBVIOUS
  <1>1. Cache!NoStaleAnswer
    <2> SUFFICES ASSUME NEW s \in Search, cacheSearch[s].pc = "done"
                 PROVE  cacheSearch[s].value >= cacheSearch[s].since
      BY DEF Cache!NoStaleAnswer
    <2>1. cacheSearch[s] \in Answer
      BY ByStep, Shapes DEF SearchState
    <2> QED BY <2>1, ByStep, Shapes DEF SearchOK
  <1>2. Cache!HiddenForAWhile
    <2> SUFFICES ASSUME NEW k \in Key, Cache!Servable(cacheEntries[k]),
                        NEW c \in Cache!Change, c <= cacheDb, c > cacheEntries[k].value
                 PROVE  cacheNow - cacheMadeAt[c] < SafetyTtl + QueryTime
      BY DEF Cache!HiddenForAWhile
    <2>1. PICK e : e = cacheEntries[k]
      OBVIOUS
    <2>2. EntryOK(e) /\ e \in Cache!Entry /\ cacheNow - e.at < SafetyTtl
      BY <2>1 DEF Cache!Servable, Cache!Stored, CacheInv, CacheTyped, Cache!TypeOK, EntriesOK
    <2>3. e.at \in Nat /\ e.read \in Nat /\ e.at <= e.read + QueryTime
      BY <2>2 DEF EntryOK, Cache!Entry
    <2>4. cacheMadeAt[c] >= e.read /\ cacheMadeAt[c] \in Nat
      BY <2>1, <2>2, CacheNumbers, SMTT(30) DEF EntryOK, Shows, Cache!Change
    <2>5. cacheNow \in Nat /\ SafetyTtl \in Nat /\ QueryTime \in Nat
      BY CacheNumbers
    <2> QED BY <2>2, <2>3, <2>4, <2>5
  <1>3. Cache!CacheIsBounded
    BY SameCount DEF Cache!CacheIsBounded, CacheInv, EntriesOK
  <1> QED BY <1>1, <1>2, <1>3

-------------------------------------------------------------------------------
(* The ratings                                                             *)

\* A request has written a row, and from then on until it is over it has the
\* property row, or goes to get it; what it sets there is the aggregate it saw.
WriterOK(r) ==
    LET q == reviewReq[r] IN
    /\ q.pc # "idle" => q.op \in Reviews!Op /\ q.stay \in Stay /\ (q.op = "create" => q.stars \in Stars)
    /\ q.wrote => q.pc \in {"trigger", "triggerSet", "refresh", "refreshSet", "commit"}
    /\ q.wrote /\ q.pc \in {"refresh", "refreshSet", "commit"} => reviewHolder = r
    /\ reviewHolder = r => q.pc \in {"refresh", "refreshSet", "commit"}
    /\ q.pc = "commit" /\ reviewHolder # r => ~q.wrote
    /\ q.wrote /\ q.op # "reply" /\ q.pc \in {"refreshSet", "commit"} =>
           q.seen = Reviews!Aggregate(Reviews!Visible(r))

RatingInv ==
    /\ Reviews!TypeOK
    /\ \A r \in Req : WriterOK(r)
    /\ ~reviewBlind => reviewRating = Reviews!Aggregate(reviewReview)

\* The aggregate of no reviews is nothing.
LEMMA NoReviews == Reviews!Aggregate([s \in Stay |-> Reviews!NoReview]) = Reviews!Nothing
  <1> DEFINE none == [s \in Stay |-> Reviews!NoReview]
             shown == {s \in Stay : none[s] # Reviews!NoReview /\ ~none[s].hidden}
             body(g) == [s \in SUBSET shown |->
                            IF s = {} THEN 0
                            ELSE none[CHOOSE x \in s : TRUE].stars + g[s \ {CHOOSE x \in s : TRUE}]]
             iter == CHOOSE g : g = body(g)
  <1>1. shown = {}
    OBVIOUS
  <1>2. \E g : g = body(g)
    <2> DEFINE g0 == [s \in SUBSET shown |-> 0]
    <2>1. g0 = body(g0)
      BY <1>1
    <2> QED BY <2>1
  <1>3. iter = body(iter)
    <2> HIDE DEF body
    <2> QED BY <1>2
  <1>4. iter[shown] = 0
    BY <1>1, <1>3
  <1>5. Reviews!Aggregate(none) = [sum |-> iter[shown], count |-> Cardinality(shown)]
    BY Zenon DEF Reviews!Aggregate, Reviews!MapThenSumSet, Reviews!MapThenFoldSet, Reviews!Cardinality, Cardinality
  <1>6. Cardinality(shown) = 0
    BY <1>1, FS_EmptySet
  <1> QED BY <1>4, <1>5, <1>6 DEF Reviews!Nothing

\* What a transaction sees is rows, also with its own among them.
LEMMA VisibleRows ==
    ASSUME RatingInv, NEW r \in Req
    PROVE  /\ Reviews!Visible(r) \in [Stay -> Reviews!Review \cup {Reviews!NoReview}]
           /\ Reviews!Aggregate(Reviews!Visible(r)) \in Reviews!Total
  <1>1. reviewReq[r] \in Reviews!Request /\ WriterOK(r)
    BY DEF RatingInv, Reviews!TypeOK
  <1>2. reviewReq[r].row \in Reviews!Review \cup {Reviews!NoReview}
    BY <1>1 DEF Reviews!Request
  <1>3. Reviews!Visible(r) \in [Stay -> Reviews!Review \cup {Reviews!NoReview}]
    BY <1>2 DEF RatingInv, Reviews!TypeOK, Reviews!Visible
  <1> QED BY <1>3 DEF Reviews!Total

\* What holds of a request is not disturbed by another that takes a step, unless the
\* property row changes hands or the rows change.
LEMMA OthersWrite ==
    ASSUME RatingInv, NEW r \in Req, NEW t \in Req \ {r}, UNCHANGED reviewReview,
           reviewReq'[t] = reviewReq[t],
           reviewHolder' = t <=> reviewHolder = t
    PROVE  WriterOK(t)'
  <1>1. WriterOK(t)
    BY DEF RatingInv
  <1>2. (Reviews!Visible(t))' = Reviews!Visible(t)
    BY DEF Reviews!Visible
  <1> QED BY <1>1, <1>2 DEF WriterOK

\* A step of one request that leaves the rows and the rating alone.
LEMMA RequestMoves ==
    ASSUME RatingInv, NEW r \in Req, NEW q \in Reviews!Request,
           reviewReq' = [reviewReq EXCEPT ![r] = q],
           UNCHANGED <<reviewReview, reviewRating, reviewBlind>>,
           reviewHolder' \in Req \cup {None},
           \A t \in Req \ {r} : reviewHolder' = t <=> reviewHolder = t,
           WriterOK(r)'
    PROVE  RatingInv'
  <1>1. Reviews!TypeOK'
    BY DEF RatingInv, Reviews!TypeOK
  <1>2. ASSUME NEW t \in Req \ {r} PROVE WriterOK(t)'
    <2>1. reviewReq'[t] = reviewReq[t]
      BY DEF RatingInv, Reviews!TypeOK
    <2> QED BY <2>1, OthersWrite
  <1>3. \A t \in Req : WriterOK(t)'
    BY <1>2
  <1> QED BY <1>1, <1>3 DEF RatingInv

\* An idle request, and one that begins.
LEMMA IdleRequest ==
    /\ Reviews!Idle \in Reviews!Request
    /\ Reviews!Idle.pc = "idle" /\ ~Reviews!Idle.wrote
    /\ \A op \in Reviews!Op, s \in Stay, n \in Stars \cup {0} :
           [Reviews!Idle EXCEPT !.pc = "write", !.op = op, !.stay = s, !.stars = n] \in Reviews!Request
  <1>1. Reviews!Nothing \in Reviews!Total
    BY DEF Reviews!Total
  <1> QED BY <1>1 DEF Reviews!Idle, Reviews!Request, Reviews!Step, Reviews!NoReview

\* A request begins.
LEMMA BeginKeeps ==
    ASSUME RatingInv, NEW r \in Req, NEW op \in Reviews!Op, NEW s \in Stay, NEW n \in Stars \cup {0},
           op = "create" => n \in Stars, Reviews!Begin(r, op, s, n)
    PROVE  RatingInv'
  <1> PICK q : q = [Reviews!Idle EXCEPT !.pc = "write", !.op = op, !.stay = s, !.stars = n]
    OBVIOUS
  <1>1. q \in Reviews!Request
    BY IdleRequest
  <1>2. q.pc = "write" /\ q.op = op /\ q.stay = s /\ q.stars = n /\ q.wrote = FALSE
    BY DEF Reviews!Idle
  <1>3. /\ reviewReq' = [reviewReq EXCEPT ![r] = q] /\ reviewReq[r].pc = "idle"
        /\ UNCHANGED <<reviewReview, reviewRating, reviewHolder, reviewBlind>>
    BY DEF Reviews!Begin, Reviews!At
  <1>4. reviewHolder # r /\ reviewHolder \in Req \cup {None}
    BY <1>3 DEF RatingInv, WriterOK, Reviews!TypeOK
  <1>5. reviewReq'[r] = q
    BY <1>3 DEF RatingInv, Reviews!TypeOK
  <1>6. WriterOK(r)'
    BY <1>2, <1>3, <1>4, <1>5 DEF WriterOK
  <1> QED BY <1>1, <1>3, <1>4, <1>6, RequestMoves

\* What a statement makes of a review is a review again, or none.
LEMMA AfterRow ==
    ASSUME NEW op \in Reviews!Op, NEW n \in Stars \cup {0}, NEW old \in Reviews!Review \cup {Reviews!NoReview},
           op = "create" => n \in Stars, op # "create" => old # Reviews!NoReview
    PROVE  Reviews!After(op, n, old) \in Reviews!Review \cup {Reviews!NoReview}
  <1>1. CASE op = "create"
    BY <1>1 DEF Reviews!After, Reviews!Review
  <1>2. CASE op = "delete"
    BY <1>2 DEF Reviews!After
  <1>3. CASE op = "reply"
    BY <1>3 DEF Reviews!After
  <1>4. CASE op = "edit"
    <2>1. old \in [stars : Stars, hidden : BOOLEAN]
      BY <1>4 DEF Reviews!Review
    <2>2. Reviews!After(op, n, old) = [old EXCEPT !.stars = IF n = 0 THEN @ ELSE n]
      BY <1>4 DEF Reviews!After
    <2> QED BY <2>1, <2>2 DEF Reviews!Review
  <1>5. CASE op \in {"hide", "restore"}
    <2>1. old \in [stars : Stars, hidden : BOOLEAN]
      BY <1>5 DEF Reviews!Review
    <2>2. Reviews!After(op, n, old) \in {[old EXCEPT !.hidden = TRUE], [old EXCEPT !.hidden = FALSE]}
      BY <1>5 DEF Reviews!After
    <2> QED BY <2>1, <2>2 DEF Reviews!Review
  <1> QED BY <1>1, <1>2, <1>3, <1>4, <1>5 DEF Reviews!Op

\* A request writes its row, or finds that it cannot.
LEMMA WriteReviewKeeps ==
    ASSUME RatingInv, NEW r \in Req, Reviews!WriteReview(r) PROVE RatingInv'
  <1> PICK p : p = reviewReq[r]
    OBVIOUS
  <1>1. p \in Reviews!Request /\ WriterOK(r) /\ p.pc = "write" /\ reviewHolder # r /\ reviewHolder \in Req \cup {None}
    BY DEF RatingInv, Reviews!TypeOK, Reviews!WriteReview, Reviews!At, WriterOK
  <1>2. p.wrote = FALSE /\ p.op \in Reviews!Op /\ p.stay \in Stay /\ p.stars \in Stars \cup {0}
        /\ (p.op = "create" => p.stars \in Stars)
    BY <1>1 DEF WriterOK, Reviews!Request
  <1>3. UNCHANGED <<reviewReview, reviewRating, reviewHolder, reviewBlind>>
    BY DEF Reviews!WriteReview
  <1>4. \A q \in Reviews!Request : reviewReq' = [reviewReq EXCEPT ![r] = q] => reviewReq'[r] = q
    BY DEF RatingInv, Reviews!TypeOK
  <1>5. CASE reviewReq' = [reviewReq EXCEPT ![r] = Reviews!Idle]
    <2>1. WriterOK(r)'
      BY <1>1, <1>3, <1>4, <1>5, IdleRequest DEF WriterOK
    <2> QED BY <1>1, <1>3, <1>5, <2>1, IdleRequest, RequestMoves
  <1>6. CASE reviewReq' = [reviewReq EXCEPT ![r] = [p EXCEPT !.pc = Reviews!AfterWrite(p.op)]]
    <2> PICK q : q = [p EXCEPT !.pc = Reviews!AfterWrite(p.op)]
      OBVIOUS
    <2>1. Reviews!AfterWrite(p.op) \in {"commit", "refresh"}
      BY DEF Reviews!AfterWrite
    <2>2. q \in Reviews!Request /\ q.pc \in {"commit", "refresh"} /\ q.wrote = FALSE /\ q.op = p.op /\ q.stay = p.stay
          /\ q.stars = p.stars
      BY <1>1, <1>2, <2>1 DEF Reviews!Request, Reviews!Step
    <2>3. WriterOK(r)'
      BY <1>1, <1>2, <1>3, <1>4, <1>6, <2>2 DEF WriterOK
    <2> QED BY <1>1, <1>3, <1>6, <2>2, <2>3, RequestMoves
  <1>7. CASE /\ ~(p.op = "create" /\ reviewReview[p.stay] # Reviews!NoReview)
             /\ ~(p.op # "create" /\ reviewReview[p.stay] = Reviews!NoReview)
    <2> PICK row : row = Reviews!After(p.op, p.stars, reviewReview[p.stay])
      OBVIOUS
    <2> PICK q : q = [p EXCEPT !.pc = "trigger", !.wrote = TRUE, !.row = row]
      OBVIOUS
    <2>1. reviewReq' = [reviewReq EXCEPT ![r] = q]
      BY <1>7 DEF Reviews!WriteReview
    <2>2. row \in Reviews!Review \cup {Reviews!NoReview}
      BY <1>2, <1>7, AfterRow DEF RatingInv, Reviews!TypeOK
    <2>3. q \in Reviews!Request /\ q.pc = "trigger" /\ q.op = p.op /\ q.stay = p.stay /\ q.stars = p.stars
      BY <1>1, <2>2 DEF Reviews!Request, Reviews!Step
    <2>4. WriterOK(r)'
      BY <1>1, <1>2, <1>3, <1>4, <2>1, <2>3 DEF WriterOK
    <2> QED BY <1>1, <1>3, <2>1, <2>3, <2>4, RequestMoves
  <1> QED BY <1>5, <1>6, <1>7 DEF Reviews!WriteReview

\* A recomputation takes its snapshot: after the write, while the property row is
\* held or not, or of a row that is gone, while it is not.
LEMMA SnapshotKeeps ==
    ASSUME RatingInv, NEW r \in Req, Reviews!StartTrigger(r) \/ Reviews!StartRefresh(r) PROVE RatingInv'
  <1> PICK p : p = reviewReq[r]
    OBVIOUS
  <1> PICK total : total = Reviews!Aggregate(Reviews!Visible(r))
    OBVIOUS
  <1> PICK to : to = IF p.pc = "trigger" THEN "triggerSet" ELSE "refreshSet"
    OBVIOUS
  <1>1. /\ p.pc \in {"trigger", "refresh"}
        /\ reviewReq' = [reviewReq EXCEPT ![r].pc = to, ![r].seen = total]
        /\ UNCHANGED <<reviewReview, reviewRating, reviewHolder, reviewBlind>>
    BY DEF Reviews!StartTrigger, Reviews!StartRefresh, Reviews!Snapshot, Reviews!At
  <1>2. p \in Reviews!Request /\ WriterOK(r) /\ reviewHolder \in Req \cup {None} /\ total \in Reviews!Total
    BY VisibleRows DEF RatingInv, Reviews!TypeOK
  <1> PICK q : q = [p EXCEPT !.pc = to, !.seen = total]
    OBVIOUS
  <1>3. reviewReq' = [reviewReq EXCEPT ![r] = q] /\ reviewReq'[r] = q
    BY <1>1 DEF RatingInv, Reviews!TypeOK
  <1>4. /\ q \in Reviews!Request /\ q.pc = to /\ q.seen = total /\ q.op = p.op /\ q.stay = p.stay
        /\ q.stars = p.stars /\ q.wrote = p.wrote /\ q.row = p.row
    BY <1>1, <1>2, ZenonT(40) DEF Reviews!Request, Reviews!Step
  <1>5. (Reviews!Visible(r))' = Reviews!Visible(r)
    BY <1>1, <1>3, <1>4 DEF Reviews!Visible
  <1>6. (Reviews!Aggregate(Reviews!Visible(r)))' = total
    BY <1>5
  <1>7. WriterOK(r)'
    BY <1>1, <1>2, <1>3, <1>4, <1>6 DEF WriterOK
  <1> QED BY <1>1, <1>2, <1>3, <1>4, <1>7, RequestMoves

\* A recomputation gets the property row.
LEMMA SetRatingKeeps ==
    ASSUME RatingInv, NEW r \in Req, Reviews!Trigger(r) \/ Reviews!Refresh(r) PROVE RatingInv'
  <1> PICK p : p = reviewReq[r]
    OBVIOUS
  <1> PICK to : to = IF p.pc = "triggerSet" THEN Reviews!AfterWrite(p.op) ELSE "commit"
    OBVIOUS
  <1>1. /\ p.pc \in {"triggerSet", "refreshSet"}
        /\ reviewHolder \in {None, r} /\ reviewHolder' = r
        /\ reviewReq' = [reviewReq EXCEPT ![r].pc = to]
        /\ UNCHANGED <<reviewReview, reviewRating, reviewBlind>>
    BY DEF Reviews!Trigger, Reviews!Refresh, Reviews!SetRating, Reviews!At, Reviews!Goto
  <1>2. p \in Reviews!Request /\ WriterOK(r)
    BY DEF RatingInv, Reviews!TypeOK
  <1> PICK q : q = [p EXCEPT !.pc = to]
    OBVIOUS
  <1>3. reviewReq' = [reviewReq EXCEPT ![r] = q] /\ reviewReq'[r] = q
    BY <1>1 DEF RatingInv, Reviews!TypeOK
  <1>4. to \in {"refresh", "commit"} /\ (to = "refresh" => p.op # "reply") /\ (p.pc = "triggerSet" /\ to = "commit" => p.op = "reply")
    BY <1>1 DEF Reviews!AfterWrite
  <1>5. /\ q \in Reviews!Request /\ q.pc = to /\ q.seen = p.seen /\ q.op = p.op /\ q.stay = p.stay
        /\ q.stars = p.stars /\ q.wrote = p.wrote /\ q.row = p.row
    BY <1>2, <1>4 DEF Reviews!Request, Reviews!Step
  <1>6. (Reviews!Visible(r))' = Reviews!Visible(r)
    BY <1>1, <1>3, <1>5 DEF Reviews!Visible
  <1>7. WriterOK(r)'
    <2>1. (Reviews!Aggregate(Reviews!Visible(r)))' = Reviews!Aggregate(Reviews!Visible(r))
      BY <1>6
    <2>2. p.wrote /\ p.op # "reply" /\ to = "commit" => p.seen = Reviews!Aggregate(Reviews!Visible(r))
      BY <1>1, <1>2, <1>4 DEF WriterOK
    <2>3. p.op \in Reviews!Op /\ p.stay \in Stay /\ (p.op = "create" => p.stars \in Stars)
      BY <1>1, <1>2 DEF WriterOK
    <2>4. reviewReq'[r] = q /\ reviewHolder' = r /\ q.pc \in {"refresh", "commit"}
      BY <1>1, <1>3, <1>4, <1>5
    <2>5. q.wrote /\ q.op # "reply" /\ q.pc = "commit" =>
              q.seen = (Reviews!Aggregate(Reviews!Visible(r)))'
      BY <1>5, <2>1, <2>2
    <2>6. q.op \in Reviews!Op /\ q.stay \in Stay /\ (q.op = "create" => q.stars \in Stars)
      BY <1>5, <2>3
    <2> QED BY <2>4, <2>5, <2>6 DEF WriterOK
  <1>8. \A t \in Req \ {r} : reviewHolder' = t <=> reviewHolder = t
    BY <1>1, CatalogueAssumption
  <1> QED BY <1>1, <1>3, <1>5, <1>7, <1>8, RequestMoves

\* A transaction is undone.
LEMMA RollbackKeeps ==
    ASSUME RatingInv, NEW r \in Req, Reviews!Rollback(r) PROVE RatingInv'
  <1>1. /\ reviewReq' = [reviewReq EXCEPT ![r] = Reviews!Idle]
        /\ reviewHolder' = (IF reviewHolder = r THEN None ELSE reviewHolder)
        /\ UNCHANGED <<reviewReview, reviewRating, reviewBlind>>
    BY DEF Reviews!Rollback
  <1>2. reviewHolder' \in Req \cup {None} /\ reviewHolder' # r
    BY <1>1, CatalogueAssumption DEF RatingInv, Reviews!TypeOK
  <1>3. \A t \in Req \ {r} : reviewHolder' = t <=> reviewHolder = t
    BY <1>1, CatalogueAssumption
  <1>4. reviewReq'[r] = Reviews!Idle
    BY <1>1 DEF RatingInv, Reviews!TypeOK
  <1>5. WriterOK(r)'
    BY <1>2, <1>4, IdleRequest DEF WriterOK
  <1> QED BY <1>1, <1>2, <1>3, <1>5, IdleRequest, RequestMoves

\* A transaction commits: who changes a row has the property row and sets what the
\* rows are; who does not changes none.
LEMMA CommitReviewKeeps ==
    ASSUME RatingInv, NEW r \in Req, Reviews!Commit(r) PROVE RatingInv'
  <1> PICK p : p = reviewReq[r]
    OBVIOUS
  <1>1. /\ p.pc = "commit" /\ reviewReview' = Reviews!Visible(r)
        /\ reviewRating' = (IF reviewHolder = r THEN p.seen ELSE reviewRating)
        /\ reviewHolder' = (IF reviewHolder = r THEN None ELSE reviewHolder)
        /\ reviewReq' = [reviewReq EXCEPT ![r] = Reviews!Idle]
        /\ reviewBlind' = (IF reviewHolder = r THEN p.op = "reply" \/ ~p.wrote ELSE reviewBlind)
    BY DEF Reviews!Commit, Reviews!At
  <1>2. p \in Reviews!Request /\ WriterOK(r) /\ reviewHolder \in Req \cup {None} /\ reviewBlind \in BOOLEAN
        /\ reviewReq \in [Req -> Reviews!Request]
    BY DEF RatingInv, Reviews!TypeOK
  <1>3. Reviews!TypeOK'
    <2>1. p.seen \in Reviews!Total /\ p.wrote \in BOOLEAN
      BY <1>2 DEF Reviews!Request
    <2>2. reviewBlind' \in BOOLEAN
      BY <1>1, <1>2, <2>1
    <2>3. reviewRating' \in Reviews!Total
      BY <1>1, <2>1 DEF RatingInv, Reviews!TypeOK
    <2> QED BY <1>1, <1>2, <2>2, <2>3, VisibleRows, IdleRequest DEF Reviews!TypeOK
  <1>4. CASE p.wrote
    <2>1. reviewHolder = r
      BY <1>1, <1>2, <1>4 DEF WriterOK
    <2>2. p.op # "reply" => p.seen = Reviews!Aggregate(Reviews!Visible(r))
      BY <1>1, <1>2, <1>4 DEF WriterOK
    <2>3. ~reviewBlind' => reviewRating' = Reviews!Aggregate(reviewReview')
      BY <1>1, <2>1, <2>2
    <2>4. ASSUME NEW t \in Req PROVE WriterOK(t)'
      <3>1. CASE t = r
        <4>1. reviewReq'[r] = Reviews!Idle /\ reviewHolder' # r
          BY <1>1, <1>2, <2>1, CatalogueAssumption
        <4> QED BY <3>1, <4>1, IdleRequest DEF WriterOK
      <3>2. CASE t # r
        <4>1. reviewReq'[t] = reviewReq[t] /\ reviewHolder' # t /\ reviewHolder # t
          BY <1>1, <1>2, <2>1, <3>2, CatalogueAssumption
        <4>2. WriterOK(t)
          BY DEF RatingInv
        <4> QED BY <4>1, <4>2 DEF WriterOK
      <3> QED BY <3>1, <3>2
    <2> QED BY <1>3, <2>3, <2>4 DEF RatingInv
  <1>5. CASE ~p.wrote
    <2>1. reviewReview' = reviewReview
      BY <1>1, <1>5 DEF Reviews!Visible
    <2>2. reviewHolder = r => reviewBlind'
      BY <1>1, <1>5
    <2>3. ~reviewBlind' => reviewRating' = Reviews!Aggregate(reviewReview')
      BY <1>1, <2>1, <2>2 DEF RatingInv
    <2>4. ASSUME NEW t \in Req PROVE WriterOK(t)'
      <3>1. CASE t = r
        <4>1. reviewReq'[r] = Reviews!Idle /\ reviewHolder' # r
          BY <1>1, <1>2, CatalogueAssumption
        <4> QED BY <3>1, <4>1, IdleRequest DEF WriterOK
      <3>2. CASE t # r
        <4>1. reviewReq'[t] = reviewReq[t] /\ (reviewHolder' = t <=> reviewHolder = t)
          BY <1>1, <1>2, <3>2, CatalogueAssumption
        <4> QED BY <2>1, <3>2, <4>1, OthersWrite
      <3> QED BY <3>1, <3>2
    <2> QED BY <1>3, <2>3, <2>4 DEF RatingInv
  <1> QED BY <1>4, <1>5

\* There are no reviews in the beginning.
LEMMA RatingInit == Reviews!Init => RatingInv
  <1> SUFFICES ASSUME Reviews!Init PROVE RatingInv
    OBVIOUS
  <1>1. Reviews!TypeOK
    BY IdleRequest DEF Reviews!Init, Reviews!TypeOK, Reviews!Total
  <1>2. \A r \in Req : WriterOK(r)
    BY IdleRequest, CatalogueAssumption DEF Reviews!Init, WriterOK
  <1> QED BY <1>1, <1>2, NoReviews DEF Reviews!Init, RatingInv

\* Every step keeps the invariant of the ratings.
LEMMA RatingStep == RatingInv /\ [Reviews!Next]_(Reviews!vars) => RatingInv'
  <1> SUFFICES ASSUME RatingInv, [Reviews!Next]_(Reviews!vars) PROVE RatingInv'
    OBVIOUS
  <1>1. ASSUME NEW r \in Req, NEW s \in Stay, NEW n \in Stars, Reviews!CreateReview(r, s, n) PROVE RatingInv'
    BY <1>1, BeginKeeps DEF Reviews!CreateReview, Reviews!Op
  <1>2. ASSUME NEW r \in Req, NEW s \in Stay, NEW n \in Stars \cup {0}, Reviews!UpdateReview(r, s, n) PROVE RatingInv'
    BY <1>2, BeginKeeps DEF Reviews!UpdateReview, Reviews!Op
  <1>3. ASSUME NEW r \in Req, NEW s \in Stay,
               \/ Reviews!ReplyToReview(r, s) \/ Reviews!HideReview(r, s)
               \/ Reviews!RestoreReview(r, s) \/ Reviews!DeleteReview(r, s)
        PROVE  RatingInv'
    BY <1>3, BeginKeeps
    DEF Reviews!ReplyToReview, Reviews!HideReview, Reviews!RestoreReview, Reviews!DeleteReview, Reviews!Op
  <1>4. ASSUME NEW r \in Req, \/ Reviews!WriteReview(r)
                              \/ Reviews!StartTrigger(r) \/ Reviews!Trigger(r)
                              \/ Reviews!StartRefresh(r) \/ Reviews!Refresh(r)
                              \/ Reviews!Commit(r) \/ Reviews!Rollback(r)
        PROVE  RatingInv'
    BY <1>4, WriteReviewKeeps, SnapshotKeeps, SetRatingKeeps, CommitReviewKeeps, RollbackKeeps
  <1>5. CASE UNCHANGED Reviews!vars
    <2>1. UNCHANGED <<reviewReview, reviewRating, reviewHolder, reviewReq, reviewBlind>>
      BY <1>5 DEF Reviews!vars
    <2>2. Reviews!TypeOK'
      BY <2>1 DEF RatingInv, Reviews!TypeOK
    <2>3. ASSUME NEW r \in Req PROVE WriterOK(r)'
      <3>1. WriterOK(r)
        BY DEF RatingInv
      <3>2. (Reviews!Visible(r))' = Reviews!Visible(r)
        BY <2>1 DEF Reviews!Visible
      <3> QED BY <2>1, <3>1, <3>2 DEF WriterOK
    <2> QED BY <2>1, <2>2, <2>3 DEF RatingInv
  <1> QED BY <1>1, <1>2, <1>3, <1>4, <1>5 DEF Reviews!Next

-------------------------------------------------------------------------------
(* The catalogue                                                           *)

\* The account of the host, and how its last ban was carried out.
HostOK == /\ host \in [banned : BOOLEAN, filed : BOOLEAN]
          /\ ban \in {"none", "sealing", "sealed", "crossed"}

\* Every step of the moderation keeps their values.
LEMMA HostStep == HostOK /\ [Next]_vars => HostOK'
  <1> SUFFICES ASSUME HostOK, [Next]_vars PROVE HostOK'
    OBVIOUS
  <1>1. /\ \/ host' = host
           \/ \E x \in BOOLEAN : host' = [host EXCEPT !.banned = x]
           \/ host' = [host EXCEPT !.filed = TRUE]
        /\ ban' = ban \/ ban' \in {"none", "sealing", "sealed", "crossed"}
    <2>1. ASSUME NEW r \in Req, Ask(r) PROVE <1>1
      BY <2>1 DEF Ask, Arrive
    <2>2. ASSUME NEW r \in Req,
                 \/ CheckIdentity(r) \/ IdentityMissing(r) \/ SaveListing(r)
                 \/ CheckOwner(r) \/ SetListingStatus(r) \/ CountStays(r) \/ DeleteListing(r)
                 \/ LoadListing(r) \/ RecordModeration(r)
          PROVE  <1>1
      BY <2>2 DEF CheckIdentity, IdentityMissing, SaveListing, CheckOwner, SetListingStatus,
         CountStays, DeleteListing, LoadListing, RecordModeration, Refuse
    <2>3. ASSUME NEW r \in Req,
                 ApproveListing(r) \/ RejectListing(r) \/ SuspendListing(r) \/ RestoreListing(r)
          PROVE  <1>1
      BY <2>3 DEF ApproveListing, RejectListing, SuspendListing, RestoreListing, Decide, Refuse
    <2>4. ASSUME NEW r \in Req,
                 BanUser(r) \/ BanListings(r) \/ UnbanUser(r) \/ UnbanListings(r) \/ StatementFails(r)
          PROVE  <1>1
      BY <2>4 DEF BanUser, BanListings, UnbanUser, UnbanListings, StatementFails
    <2>5. CASE FileIdentity \/ (\E l \in Listing : GuestBooks(l)) \/ UNCHANGED vars
      BY <2>5 DEF FileIdentity, GuestBooks, vars
    <2> QED BY <2>1, <2>2, <2>3, <2>4, <2>5 DEF Next, HandlerStep
  <1>2. host' \in [banned : BOOLEAN, filed : BOOLEAN]
    BY <1>1 DEF HostOK
  <1> QED BY <1>1, <1>2 DEF HostOK

PartsInv ==
    /\ part = "moderation" => FitInv /\ LogOK /\ HostOK
    /\ part = "cache" => CacheInv
    /\ part = "review" => RatingInv

\* Each part keeps its invariant.
LEMMA PartsHold == SumSpec => []PartsInv
  <1>1. SumInit => PartsInv
    <2>1. Init => LogOK /\ HostOK
      BY DEF Init, LogOK, HostOK
    <2> QED BY <2>1, FitInit, CacheInit, RatingInit DEF SumInit, PartsInv
  <1>2. PartsInv /\ [SumNext]_sumVars => PartsInv'
    <2> SUFFICES ASSUME PartsInv, [SumNext]_sumVars PROVE PartsInv'
      OBVIOUS
    <2>1. part' = part
      BY DEF SumNext, sumVars
    <2>2. part = "moderation" => FitInv' /\ LogOK' /\ HostOK'
      <3>1. part = "moderation" => FitInv /\ LogOK /\ HostOK /\ [Next]_vars
        BY DEF SumNext, sumVars, PartsInv
      <3> QED BY <3>1, FitStep, LogStep, HostStep
    <2>3. part = "cache" => CacheInv'
      <3>1. part = "cache" => CacheInv /\ [Cache!Next]_(Cache!vars)
        BY DEF SumNext, sumVars, PartsInv, cacheVars, Cache!vars
      <3> QED BY <3>1, CacheStep
    <2>4. part = "review" => RatingInv'
      <3>1. part = "review" => RatingInv /\ [Reviews!Next]_(Reviews!vars)
        BY DEF SumNext, sumVars, PartsInv, reviewVars, Reviews!vars
      <3> QED BY <3>1, RatingStep
    <2> QED BY <2>1, <2>2, <2>3, <2>4 DEF PartsInv
  <1> QED BY <1>1, <1>2, PTL DEF SumSpec

\* No search misses a write that was answered, nor for longer than the safety window
\* one of another server, and the cache stays within its limit, for any number of keys,
\* searches and writes (AnswersAreCurrent).
THEOREM SearchesAreCurrent == SumSpec => []AnswersAreCurrent
  <1>1. FitInv /\ LogOK /\ HostOK => TypeOK
    BY DEF FitInv, RowsOK, LogOK, HostOK, TypeOK
  <1>2. CacheInv => Cache!TypeOK
    BY DEF CacheInv, CacheTyped
  <1>3. PartsInv => AnswersAreCurrent
    BY <1>1, <1>2, CacheImplies DEF PartsInv, AnswersAreCurrent, TypesOK, RatingInv
  <1> QED BY <1>3, PartsHold, PTL

\* However the transactions that change the reviews of a stay overlap, fail or wait for
\* one another, its rating is that of its visible reviews, unless the last of them
\* recomputed it once (RatingIsHonest).
THEOREM RatingsAreHonest == SumSpec => []RatingIsHonest
  <1>1. PartsInv => RatingIsHonest
    BY DEF PartsInv, RatingIsHonest, Reviews!RatingIsHonest, RatingInv
  <1> QED BY <1>1, PartsHold, PTL
===============================================================================
