----------------------------- MODULE DefaultPlaces ----------------------------
(***************************************************************************)
(* The countries (seedTaxonomy) and the cities (seedCatalog) a server      *)
(* inserts when it starts and finds none, one statement each, and          *)
(* administrators who save and delete them.  Several servers start and     *)
(* stop at any time; a failed statement ends the seeding, not the start.   *)
(***************************************************************************)
CONSTANTS Place,    \* countries, or cities
          Default,  \* those the code brings along
          Server,
          Env       \* "dbDown": a statement may fail; "crash": a server may stop

VARIABLES place,    \* rows
          boot,     \* servers, and what they still have to insert
          dropped,  \* places an administrator deleted or renamed (history)
          halted    \* a seeding ended before its last row and none began after it
                    \* with an empty table (history)

vars == <<place, boot, dropped, halted>>

Off == [pc |-> "off", left |-> {}]

TypeOK ==
    /\ place \subseteq Place
    /\ boot \in [Server -> [pc : {"off", "count", "seed", "up"}, left : SUBSET Default]]
    /\ dropped \subseteq Place
    /\ halted \in BOOLEAN

Init ==
    /\ place = {}
    /\ boot = [s \in Server |-> Off]
    /\ dropped = {}
    /\ halted = FALSE

At(s, pc) == boot[s].pc = pc
Goto(s, pc, left) == boot' = [boot EXCEPT ![s] = [pc |-> pc, left |-> left]]

Start(s) ==
    /\ At(s, "off")
    /\ Goto(s, "count", {})
    /\ UNCHANGED <<place, dropped, halted>>

CountPlaces(s) ==
    /\ At(s, "count")
    /\ IF place = {} THEN Goto(s, "seed", Default) ELSE Goto(s, "up", {})
    /\ halted' = (halted /\ place # {})
    /\ UNCHANGED <<place, dropped>>

\* Mutation of SeedPlace: the table is found empty before each row.
SeedPlace_WhileEmpty(s) ==
    /\ At(s, "seed")
    /\ IF place # {} THEN Goto(s, "up", {}) /\ UNCHANGED place
       ELSE \E p \in boot[s].left : place' = {p} /\ Goto(s, "seed", boot[s].left \ {p})
    /\ UNCHANGED <<dropped, halted>>

\* INSERT ... ON CONFLICT DO NOTHING, one after the other
SeedPlace(s) ==
    /\ At(s, "seed")
    /\ IF boot[s].left = {} THEN Goto(s, "up", {}) /\ UNCHANGED place
       ELSE \E p \in boot[s].left : place' = place \cup {p} /\ Goto(s, "seed", boot[s].left \ {p})
    /\ UNCHANGED <<dropped, halted>>

\* The error is logged and the server goes on without its places.
QueryFails(s) ==
    /\ "dbDown" \in Env
    /\ At(s, "count") \/ (At(s, "seed") /\ boot[s].left # {})
    /\ Goto(s, "up", {})
    /\ halted' = TRUE
    /\ UNCHANGED <<place, dropped>>

Stop(s) ==
    /\ "crash" \in Env /\ ~At(s, "off")
    /\ Goto(s, "off", {})
    /\ halted' = (halted \/ (At(s, "seed") /\ boot[s].left # {}))
    /\ UNCHANGED <<place, dropped>>

\* Administrators, by way of a server that is up.
SavePlace(p) ==
    /\ \E s \in Server : At(s, "up")
    /\ place' = place \cup {p}
    /\ UNCHANGED <<boot, dropped, halted>>

DeletePlace(p) ==
    /\ \E s \in Server : At(s, "up")
    /\ place' = place \ {p}
    /\ dropped' = dropped \cup {p}
    /\ UNCHANGED <<boot, halted>>

\* saveCity of a city that exists; a country keeps its code.
RenamePlace(p, q) ==
    /\ \E s \in Server : At(s, "up")
    /\ p \in place /\ q \notin place
    /\ place' = (place \ {p}) \cup {q}
    /\ dropped' = dropped \cup {p}
    /\ UNCHANGED <<boot, halted>>

Next ==
    \/ \E s \in Server :
           Start(s) \/ CountPlaces(s) \/ SeedPlace(s) \/ QueryFails(s) \/ Stop(s)
    \/ \E p \in Place : SavePlace(p) \/ DeletePlace(p) \/ \E q \in Place : RenamePlace(p, q)

Spec == Init /\ [][Next]_vars

-------------------------------------------------------------------------------
(* Properties                                                              *)

Seeding == \E s \in Server : At(s, "count") \/ At(s, "seed")

(***************************************************************************)
(* "Inserts the default property types and countries the first time only"  *)
(* (seedTaxonomy), "only when empty" (seedCatalog): servers that start     *)
(* together leave, when one of them is up and none is at it, every default *)
(* place an administrator did not take away, unless a seeding was cut      *)
(* short: what it left out is never made up for.                           *)
(***************************************************************************)
DefaultsAreThere ==
    (\E s \in Server : At(s, "up")) /\ ~Seeding /\ ~halted => Default \ place \subseteq dropped

-------------------------------------------------------------------------------
(* What a comment of the code says and the model refutes (see the README). *)

\* "inserted once" (server.ts): some start completes the list.
StartsComplete ==
    (\E s \in Server : At(s, "up")) /\ ~Seeding => Default \ place \subseteq dropped
===============================================================================
