---------------------------- MODULE ListingOwnership ----------------------------
(***************************************************************************)
(* Saving a stay from the wizard (listings.repository.ts, saveListing):    *)
(* three checks of whose the stay and the listing are, then one            *)
(* transaction that upserts both by ids the client may choose.  The lists  *)
(* the host and the moderators work from count the same rows.              *)
(***************************************************************************)
EXTENDS Integers, FiniteSets

CONSTANTS Host, Admin,
          Property, ListingId,
          Req,          \* saves in flight
          MaxSaves,     \* bound: transactions
          None

VARIABLES property,     \* property.host_id and the save the text is of
          listing,      \* the listing rows
          latest,       \* newest row of listing_submission by property
          begun,        \* transactions begun, the clock of now()
          req

vars == <<property, listing, latest, begun, req>>

Member == Host \cup Admin
Status == {"draft", "published"}
Version == 0 .. MaxSaves
Idle == [pc |-> "idle"]

\* A listing is of a stay that exists, and a stay has one listing.
TypeOK ==
    /\ property \in [Property -> [owner : Member \cup {None}, text : Version] \cup {None}]
    /\ listing \in [ListingId -> [property : Property, status : Status \cup {"suspended"},
                                  approved : BOOLEAN] \cup {None}]
    /\ \A l \in ListingId : listing[l] # None => property[listing[l].property] # None
    /\ \A k, l \in ListingId : k # l /\ listing[k] # None /\ listing[l] # None =>
          listing[k].property # listing[l].property
    /\ latest \in [Property -> [at : Version, text : Version] \cup {None}]
    /\ begun \in Version
    /\ req \in [Req -> {Idle} \cup
          [pc : {"slug", "forProperty"}, who : Member, property : Property, listing : {None}, at : {0}] \cup
          [pc : {"owner", "begin", "save"}, who : Member, property : Property, listing : ListingId,
           at : Version]]

\* An empty catalogue, or a seeded stay without a host.
Init ==
    /\ latest = [p \in Property |-> None]
    /\ begun = 0
    /\ req = [r \in Req |-> Idle]
    /\ \/ property = [p \in Property |-> None] /\ listing = [l \in ListingId |-> None]
       \/ \E p \in Property, l \in ListingId :
             /\ property = [q \in Property |-> IF q = p THEN [owner |-> None, text |-> 0] ELSE None]
             /\ listing = [k \in ListingId |->
                    IF k = l THEN [property |-> p, status |-> "published", approved |-> TRUE] ELSE None]

At(r, pc) == req[r].pc = pc
Goto(r, pc) == req' = [req EXCEPT ![r].pc = pc]
Done(r) == req' = [req EXCEPT ![r] = Idle]

-------------------------------------------------------------------------------
(* A save.  The ids and the status of its draft are named where they are   *)
(* first looked at.                                                        *)

Start(r, who, p) ==
    /\ At(r, "idle") /\ begun < MaxSaves
    /\ req' = [req EXCEPT ![r] = [pc |-> "slug", who |-> who, property |-> p, listing |-> None, at |-> 0]]
    /\ UNCHANGED <<property, listing, latest, begun>>

OfAnother(p, who) ==
    property[p] # None /\ property[p].owner \notin {None, who} /\ who \notin Admin

SlugCheck(r) ==
    /\ At(r, "slug")
    /\ IF OfAnother(req[r].property, req[r].who) THEN Done(r) ELSE Goto(r, "forProperty")
    /\ UNCHANGED <<property, listing, latest, begun>>

\* One listing per property: the row it has is edited, whatever id was sent.
ListingOf(p) == {l \in ListingId : listing[l] # None /\ listing[l].property = p}

ListingForProperty(r, sent) ==
    /\ At(r, "forProperty")
    /\ LET found == ListingOf(req[r].property) IN
       \E l \in IF found = {} THEN {sent} ELSE found :
           req' = [req EXCEPT ![r].pc = "owner", ![r].listing = l]
    /\ UNCHANGED <<property, listing, latest, begun>>

ListingOwnerCheck(r) ==
    LET q == req[r]  row == listing[q.listing] IN
    /\ At(r, "owner")
    /\ IF /\ row # None /\ q.who \notin Admin
          /\ row.property # q.property \/ OfAnother(row.property, q.who)
       THEN Done(r) ELSE Goto(r, "begin")
    /\ UNCHANGED <<property, listing, latest, begun>>

\* now() is the time the transaction begins.
BeginTransaction(r) ==
    /\ At(r, "begin") /\ begun < MaxSaves
    /\ begun' = begun + 1
    /\ req' = [req EXCEPT ![r].pc = "save", ![r].at = begun']
    /\ UNCHANGED <<property, listing, latest>>

\* Mutation of Upserted: ON CONFLICT DO UPDATE without its WHERE.
Upserted_Always(row, who, text) ==
    IF row = None THEN [owner |-> who, text |-> text]
    ELSE [owner |-> IF row.owner = None THEN who ELSE row.owner, text |-> text]

\* INSERT ... ON CONFLICT DO UPDATE ... WHERE property.host_id = the host OR the
\* caller is an administrator: None when no row is returned.
Upserted(row, who, text) ==
    IF row = None THEN [owner |-> who, text |-> text]
    ELSE IF row.owner = who THEN [row EXCEPT !.text = text]
    ELSE IF who \in Admin THEN [owner |-> IF row.owner = None THEN who ELSE row.owner, text |-> text]
    ELSE None

\* Mutation of Collides: property_id is not unique.
Collides_Never(p, l) == FALSE

\* listing.property_id is unique: a second row of a stay fails the transaction.
Collides(p, l) == listing[l] = None /\ ListingOf(p) # {}

ListingRow(row, p, status) ==
    IF row = None THEN [property |-> p, status |-> status, approved |-> FALSE]
    ELSE [row EXCEPT !.status = status, !.approved = status # "published" /\ row.approved]

\* The rows are locked by the upserts, so the transactions take effect one by one.
SaveListing(r, status) ==
    LET q == req[r]
        row == Upserted(property[q.property], q.who, q.at)
    IN
    /\ At(r, "save")
    /\ IF row = None \/ Collides(q.property, q.listing)
       THEN UNCHANGED <<property, listing, latest>>
       ELSE /\ property' = [property EXCEPT ![q.property] = row]
            /\ listing' = [listing EXCEPT ![q.listing] = ListingRow(@, q.property, status)]
            /\ latest' = IF latest[q.property] # None /\ latest[q.property].at > q.at THEN latest
                         ELSE [latest EXCEPT ![q.property] = [at |-> q.at, text |-> q.at]]
    /\ Done(r)
    /\ UNCHANGED begun

\* A stay is removed with its listing and its submissions.
DeleteListing(l) ==
    /\ listing[l] # None
    /\ property' = [property EXCEPT ![listing[l].property] = None]
    /\ latest' = [latest EXCEPT ![listing[l].property] = None]
    /\ listing' = [listing EXCEPT ![l] = None]
    /\ UNCHANGED <<begun, req>>

\* Approval and rejection, and a change of the status alone: a host unpublishes,
\* an administrator suspends (interleaved with each other in ListingModeration).
Moderate(l, status, approved) ==
    /\ listing[l] # None
    /\ listing' = [listing EXCEPT ![l].status = status, ![l].approved = approved]
    /\ UNCHANGED <<property, latest, begun, req>>

Next ==
    \/ \E r \in Req :
          \/ \E m \in Member, p \in Property : Start(r, m, p)
          \/ \E l \in ListingId : ListingForProperty(r, l)
          \/ \E s \in Status : SaveListing(r, s)
          \/ SlugCheck(r) \/ ListingOwnerCheck(r) \/ BeginTransaction(r)
    \/ \E l \in ListingId :
          \/ DeleteListing(l) \/ Moderate(l, "published", TRUE) \/ Moderate(l, "draft", FALSE)
          \/ \E s \in Status \cup {"suspended"} : Moderate(l, s, listing[l] # None /\ listing[l].approved)

Spec == Init /\ [][Next]_vars

-------------------------------------------------------------------------------
(* The lists                                                               *)

Rows == {l \in ListingId : listing[l] # None}
Owned(h) == {l \in Rows : property[listing[l].property].owner = h}

\* Mutation of ReviewQueue: every listing that is not approved is listed.
ReviewQueue_Unapproved(scope) ==
    {l \in Rows :
        CASE scope = "pending"   -> ~listing[l].approved
          [] scope = "published" -> listing[l].status = "published" /\ listing[l].approved
          [] scope = "suspended" -> listing[l].status = "suspended"
          [] scope = "all"       -> TRUE}

ReviewQueue(scope) ==
    {l \in Rows :
        CASE scope = "pending"   -> ~listing[l].approved /\ listing[l].status = "published"
          [] scope = "published" -> listing[l].status = "published" /\ listing[l].approved
          [] scope = "suspended" -> listing[l].status = "suspended"
          [] scope = "all"       -> TRUE}

Overview ==
    [total |-> Cardinality(Rows),
     published |-> Cardinality({l \in Rows : listing[l].status = "published" /\ listing[l].approved}),
     awaiting |-> Cardinality({l \in Rows : /\ ~listing[l].approved /\ listing[l].status = "published"
                                            /\ property[listing[l].property] # None}),
     suspended |-> Cardinality({l \in Rows : listing[l].status = "suspended"})]

Dashboard(h) ==
    [published |-> Cardinality({l \in Owned(h) : listing[l].status = "published" /\ listing[l].approved}),
     awaiting |-> Cardinality({l \in Owned(h) : listing[l].status = "published" /\ ~listing[l].approved}),
     drafts |-> Cardinality({l \in Owned(h) : listing[l].status = "draft"}),
     suspended |-> Cardinality({l \in Owned(h) : listing[l].status = "suspended"})]

\* The guest search without a filter; a stay is joined with its listing.
Search == {p \in Property : \E l \in Rows : /\ listing[l].property = p
                                            /\ listing[l].status = "published" /\ listing[l].approved}

HostListings(h) == Owned(h)

-------------------------------------------------------------------------------
(* Properties                                                              *)

(***************************************************************************)
(* A stay keeps the host it has until it is removed, and nobody else but   *)
(* an administrator rewrites it, however two saves of one id overlap: "a   *)
(* slug already used by another host must not be silently overwritten".    *)
(* The checks alone would not do: they are over when the rows are written. *)
(***************************************************************************)
HostKept ==
    \A p \in Property :
        property[p] # None /\ property'[p] # None /\ property[p].owner # None =>
            /\ property'[p].owner = property[p].owner
            /\ property'[p].text # property[p].text =>
                 \E r \in Req : /\ At(r, "save") /\ req'[r] = Idle /\ req[r].property = p
                                /\ req[r].who \in Admin \cup {property[p].owner}

\* No step takes a stay from its host or lets another host rewrite it.
StaysKeepTheirHost == [][HostKept]_vars

(***************************************************************************)
(* Every list counts a listing once and in the same place: what waits for  *)
(* approval on the overview is the moderators' queue, what is published is *)
(* what guests find, and the parts of a host's dashboard are the host's    *)
(* listings.                                                               *)
(***************************************************************************)
ListsAgree ==
    /\ Overview.awaiting = Cardinality(ReviewQueue("pending"))
    /\ Overview.suspended = Cardinality(ReviewQueue("suspended"))
    /\ Overview.published = Cardinality(Search)
    /\ {listing[l].property : l \in ReviewQueue("published")} = Search
    /\ ReviewQueue("pending") \cap ReviewQueue("published") = {}
    /\ \A h \in Member :
          LET board == Dashboard(h) IN
          board.published + board.awaiting + board.drafts + board.suspended = Cardinality(HostListings(h))
    /\ Overview.total = Cardinality(ReviewQueue("all"))

-------------------------------------------------------------------------------
(* What comments of the code say and the model refutes (see the README).   *)

\* "it must belong to this same property (and so to this host)" (saveListing): a
\* listing is of a stay of whoever saves it.
SavedIsOnesOwn ==
    [][\A l \in ListingId, r \in Req :
         req[r].pc = "save" /\ req'[r].pc = "idle" /\ listing'[l] # listing[l] /\ req[r].who \in Host =>
             listing'[l].property = req[r].property]_vars

\* "The latest saved payload, so the wizard can resume an edit" (latestSubmission).
ResumeIsCurrent ==
    \A p \in Property : property[p] # None /\ latest[p] # None => latest[p].text = property[p].text
===============================================================================
