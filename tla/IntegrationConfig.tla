--------------------------- MODULE IntegrationConfig ---------------------------
(***************************************************************************)
(* The credentials of mail and payments (integration-config.ts): rows that *)
(* an administrator saves one key at a time, and the copy in the memory of *)
(* the server that the mailer and the payment client read.                 *)
(***************************************************************************)
EXTENDS Integers

CONSTANTS Key,      \* INTEGRATION_KEYS
          Req,      \* PUT requests and the load at start
          MaxSaves, \* bound: PUT requests
          Env,      \* what may fail: subset of {"dbDown", "crash"}
          None

VARIABLES rows,     \* integration_setting: the save that wrote a key, None without a row
          stored,   \* the copy in memory; None falls back to the environment
          req,
          saves,    \* number of PUT requests so far
          changes,  \* changes of the rows so far, and the one the copy shows
          shown,
          excuse    \* why the copy may be behind the rows (a history variable)

vars == <<rows, stored, req, saves, changes, shown, excuse>>

Save == 1 .. MaxSaves
Idle == [pc |-> "idle", save |-> 0, set |-> {}, clear |-> {}, read |-> [k \in Key |-> None], seen |-> 0]

TypeOK ==
    /\ rows \in [Key -> Save \cup {None}]
    /\ stored \in [Key -> Save \cup {None}]
    /\ req \in [Req -> [pc : {"idle", "saving", "loading", "taking"}, save : Save \cup {0},
                        set : SUBSET Key, clear : SUBSET Key,
                        read : [Key -> Save \cup {None}], seen : Nat]]
    /\ saves \in 0 .. MaxSaves
    /\ changes \in Nat /\ shown \in Nat
    /\ excuse \subseteq {"failed", "overtaken"}

Init ==
    /\ rows = [k \in Key |-> None]
    /\ stored = [k \in Key |-> None]
    /\ req = [r \in Req |-> Idle]
    /\ saves = 0
    /\ changes = 0
    /\ shown = 0
    /\ excuse = {}

\* PUT integrations: some keys set, some cleared ("" removes the row).
Put(r, set, clear) ==
    /\ req[r].pc = "idle" /\ saves < MaxSaves
    /\ set \cap clear = {}
    /\ saves' = saves + 1
    /\ req' = [req EXCEPT ![r] = [Idle EXCEPT !.pc = "saving", !.save = saves + 1, !.set = set, !.clear = clear]]
    /\ UNCHANGED <<rows, stored, changes, shown, excuse>>

\* Mutation of SaveKey: "" is stored instead of removing the row.
SaveKey_Empty(r, k) ==
    /\ req[r].pc = "saving" /\ k \in req[r].set \cup req[r].clear
    /\ rows' = [rows EXCEPT ![k] = IF k \in req[r].set THEN req[r].save ELSE 0]
    /\ changes' = changes + 1
    /\ req' = [req EXCEPT ![r].set = @ \ {k}, ![r].clear = @ \ {k}]
    /\ UNCHANGED <<stored, saves, shown, excuse>>

\* One statement for each key of the patch.
SaveKey(r, k) ==
    /\ req[r].pc = "saving" /\ k \in req[r].set \cup req[r].clear
    /\ rows' = [rows EXCEPT ![k] = IF k \in req[r].set THEN req[r].save ELSE None]
    /\ changes' = changes + 1
    /\ req' = [req EXCEPT ![r].set = @ \ {k}, ![r].clear = @ \ {k}]
    /\ UNCHANGED <<stored, saves, shown, excuse>>

\* Mutation of StartLoad: the rows are saved and the copy is left as it is.
StartLoad_Skipped(r) ==
    /\ req[r].pc = "saving" /\ req[r].set \cup req[r].clear = {}
    /\ req' = [req EXCEPT ![r] = Idle]
    /\ UNCHANGED <<rows, stored, saves, changes, shown, excuse>>

\* loadIntegrationConfig, after the last key.
StartLoad(r) ==
    /\ req[r].pc = "saving" /\ req[r].set \cup req[r].clear = {}
    /\ req' = [req EXCEPT ![r].pc = "loading"]
    /\ UNCHANGED <<rows, stored, saves, changes, shown, excuse>>

ReadRows(r) ==
    /\ req[r].pc = "loading"
    /\ req' = [req EXCEPT ![r].pc = "taking", ![r].read = rows, ![r].seen = changes]
    /\ UNCHANGED <<rows, stored, saves, changes, shown, excuse>>

\* The copy is replaced by what was read, and the clients are told to start anew.
TakeRows(r) ==
    /\ req[r].pc = "taking"
    /\ stored' = req[r].read
    /\ shown' = req[r].seen
    /\ excuse' = IF req[r].seen < shown THEN excuse \cup {"overtaken"}
                 ELSE IF req[r].seen = changes THEN {} ELSE excuse
    /\ req' = [req EXCEPT ![r] = Idle]
    /\ UNCHANGED <<rows, saves, changes>>

\* A save that fails ends the request before the load; a load that fails is only logged.
QueryFails(r) ==
    /\ "dbDown" \in Env /\ req[r].pc \in {"saving", "loading", "taking"}
    /\ req' = [req EXCEPT ![r] = Idle]
    /\ excuse' = excuse \cup {"failed"}
    /\ UNCHANGED <<rows, stored, saves, changes, shown>>

\* The server starts again and loads the rows.
Crash(r) ==
    /\ "crash" \in Env
    /\ req' = [q \in Req |-> IF q = r THEN [Idle EXCEPT !.pc = "loading"] ELSE Idle]
    /\ stored' = [k \in Key |-> None]
    /\ shown' = 0
    /\ excuse' = {}
    /\ UNCHANGED <<rows, saves, changes>>

Next ==
    \E r \in Req :
        \/ \E set, clear \in SUBSET Key : Put(r, set, clear)
        \/ \E k \in Key : SaveKey(r, k)
        \/ StartLoad(r) \/ ReadRows(r) \/ TakeRows(r) \/ QueryFails(r) \/ Crash(r)

Spec == Init /\ [][Next]_vars

-------------------------------------------------------------------------------
(* Properties                                                              *)

Quiet == \A r \in Req : req[r].pc = "idle"

(***************************************************************************)
(* The values saved win: when no request is under way the copy is the      *)
(* rows, save for a statement that failed since and for a load that was    *)
(* overtaken by another and put an older copy back.  A crash in the middle *)
(* of a save leaves the rows it wrote, and the start loads those.          *)
(***************************************************************************)
CopyIsCurrent == Quiet /\ excuse = {} => stored = rows

===============================================================================
