----------------------------- MODULE CatalogItems -----------------------------
(***************************************************************************)
(* The property types and the amenities (equipment) administrators keep,   *)
(* and a listing that uses them (admin/taxonomy.repository.ts,             *)
(* admin/catalog.repository.ts).  What is in use is switched off instead   *)
(* of deleted.  A foreign key ties amenities to the listings that use      *)
(* them; a type is only an enum value there.  Each server that starts      *)
(* writes the default items again, one statement each, at any time.        *)
(***************************************************************************)

CONSTANTS Type, Equipment,
          Default,  \* the items the code brings along
          Req,      \* requests in flight
          Env,      \* "dbDown": a statement may fail
          None

VARIABLES row,      \* property_type and equipment
          listing,  \* category and property_equipment of a listing
          req,
          crossed   \* types deleted while a listing took them (history)

vars == <<row, listing, req, crossed>>

Item == Type \cup Equipment
Idle == [pc |-> "idle", type |-> None, equipment |-> {}, item |-> None, stale |-> FALSE]

\* stale: a listing took the item since the request looked who uses it (history).
TypeOK ==
    /\ row \in [Item -> {"none", "active", "retired"}]
    /\ listing \in [type : Type \cup {None}, equipment : SUBSET Equipment]
    /\ req \in [Req -> [pc : {"idle", "equipment", "save", "retire", "delete"}, type : Type \cup {None},
                        equipment : SUBSET Equipment, item : Item \cup {None}, stale : BOOLEAN]]
    /\ crossed \subseteq Type

Init ==
    /\ row = [i \in Item |-> IF i \in Default THEN "active" ELSE "none"]
    /\ listing = [type |-> None, equipment |-> {}]
    /\ req = [r \in Req |-> Idle]
    /\ crossed = {}

At(r, pc) == req[r].pc = pc
Done(r) == req' = [req EXCEPT ![r] = Idle]

\* A row that is written again is there for the listings that missed it.
Write(i, state) ==
    /\ row' = [row EXCEPT ![i] = state]
    /\ crossed' = crossed \ {i}

-------------------------------------------------------------------------------
(* PUT /listings                                                           *)

\* isActivePropertyType,
StartSave(r, type, equipment) ==
    /\ At(r, "idle")
    /\ row[type] = "active"
    /\ req' = [req EXCEPT ![r] = [Idle EXCEPT !.pc = "equipment", !.type = type, !.equipment = equipment]]
    /\ UNCHANGED <<row, listing, crossed>>

\* assertEquipmentExists,
AssertEquipmentExists(r) ==
    /\ At(r, "equipment")
    /\ req' = [req EXCEPT ![r] = IF \A e \in req[r].equipment : row[e] = "active"
                                 THEN [@ EXCEPT !.pc = "save"] ELSE Idle]
    /\ UNCHANGED <<row, listing, crossed>>

\* the requests that are about to delete a type nobody used when they looked
Deleting(type) == {q \in Req : At(q, "delete") /\ req[q].item = type}

\* and the transaction, which fails on the foreign key of an amenity that is gone.
SaveListing(r) ==
    /\ At(r, "save")
    /\ IF \A e \in req[r].equipment : row[e] # "none"
       THEN /\ listing' = [type |-> req[r].type, equipment |-> req[r].equipment]
            /\ req' = [q \in Req |->
                          IF q = r THEN Idle
                          ELSE IF q \in Deleting(req[r].type) THEN [req[q] EXCEPT !.stale = TRUE]
                          ELSE req[q]]
       ELSE Done(r) /\ UNCHANGED listing
    /\ UNCHANGED <<row, crossed>>

\* The rows of property_equipment go with the property.
DeleteListing ==
    /\ listing' = [type |-> None, equipment |-> {}]
    /\ UNCHANGED <<row, req, crossed>>

-------------------------------------------------------------------------------
(* The administrators                                                      *)

\* upsertAmenity, savePropertyType
SaveItem(i) ==
    /\ \E state \in {"active", "retired"} : Write(i, state)
    /\ UNCHANGED <<listing, req>>

Uses(i) == i = listing.type \/ i \in listing.equipment

\* Mutation of Used: only the amenities of the listings are looked at.
Used_Amenities(i) == i \in listing.equipment

\* EXISTS ... property_equipment; count(*) of the properties of a type
Used(i) == Uses(i)

\* Whether an amenity is used is assumed when the query fails.
StartRemove(r, i) ==
    /\ At(r, "idle")
    /\ \E used \in {Used(i)} \cup (IF i \in Equipment /\ "dbDown" \in Env THEN {TRUE} ELSE {}) :
           req' = [req EXCEPT ![r] = [Idle EXCEPT !.pc = IF used THEN "retire" ELSE "delete", !.item = i]]
    /\ UNCHANGED <<row, listing, crossed>>

Retire(r) ==
    /\ At(r, "retire")
    /\ row' = [row EXCEPT ![req[r].item] = IF @ = "none" THEN "none" ELSE "retired"]
    /\ Done(r)
    /\ UNCHANGED <<listing, crossed>>

\* Mutation of Restricted: the rows of property_equipment do not hold the amenity.
Restricted_Never(i) == FALSE

\* equipment(id) ON DELETE RESTRICT
Restricted(i) == i \in Equipment /\ Uses(i)

Taking(i) == {q \in Req : (At(q, "equipment") \/ At(q, "save")) /\ req[q].type = i}

Delete(r) ==
    /\ At(r, "delete")
    /\ LET i == req[r].item IN
       IF Restricted(i)
       THEN UNCHANGED <<row, crossed>>
       ELSE /\ row' = [row EXCEPT ![i] = "none"]
            /\ crossed' = IF i \in Type /\ (req[r].stale \/ Taking(i) # {}) THEN crossed \cup {i} ELSE crossed
    /\ Done(r)
    /\ UNCHANGED listing

LoseRequest(r) ==
    /\ "dbDown" \in Env /\ ~At(r, "idle")
    /\ Done(r)
    /\ UNCHANGED <<row, listing, crossed>>

-------------------------------------------------------------------------------
(* A server that starts                                                    *)

\* syncEquipmentCatalogue switches a default amenity on, whatever it was.
SyncEquipment(e) ==
    /\ e \in Default
    /\ Write(e, "active")
    /\ UNCHANGED <<listing, req>>

\* seedTaxonomy leaves a type that exists alone.
SeedType(t) ==
    /\ t \in Default /\ row[t] = "none"
    /\ Write(t, "active")
    /\ UNCHANGED <<listing, req>>

Next ==
    \/ \E r \in Req :
           \/ \E t \in Type, e \in SUBSET Equipment : StartSave(r, t, e)
           \/ AssertEquipmentExists(r) \/ SaveListing(r)
           \/ \E i \in Item : StartRemove(r, i)
           \/ Retire(r) \/ Delete(r) \/ LoseRequest(r)
    \/ DeleteListing
    \/ \E i \in Item : SaveItem(i)
    \/ \E e \in Equipment : SyncEquipment(e)
    \/ \E t \in Type : SeedType(t)

Spec == Init /\ [][Next]_vars

-------------------------------------------------------------------------------
(* Properties                                                              *)

(***************************************************************************)
(* "Amenities in use are retired (inactive) instead of deleted so listings *)
(* keep their data" (removeAmenity): what a listing offers is in the       *)
(* catalogue, however its save and the removal overlap.                    *)
(***************************************************************************)
UsedAmenitiesExist == \A e \in listing.equipment : row[e] # "none"

(***************************************************************************)
(* "A type used by listings is switched off instead, so existing listings  *)
(* keep working" (removePropertyType): the type of a listing is missing    *)
(* only when its deletion and a save of a listing of that type overlapped. *)
(***************************************************************************)
UsedTypesExist == listing.type # None /\ row[listing.type] = "none" => listing.type \in crossed

-------------------------------------------------------------------------------
(* What comments of the code say and the model refutes (see the README).   *)

\* "admin edits are never overwritten on restart" (seedTaxonomy), "admin edits are
\* kept" (server.ts): no server that starts brings an item back.
RestartsKeepEdits ==
    [][\A i \in Default : (i \in Equipment /\ SyncEquipment(i)) \/ (i \in Type /\ SeedType(i))
           => UNCHANGED row]_vars
===============================================================================
