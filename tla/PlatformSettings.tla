---------------------------- MODULE PlatformSettings ----------------------------
(***************************************************************************)
(* The platform's rates (settings.repository.ts): one row that             *)
(* administrators change, read on nearly every quote through a copy in     *)
(* memory.  The row is the number of changes made so far.                  *)
(***************************************************************************)
EXTENDS Integers

CONSTANTS Req,        \* calls in flight
          CacheTime,  \* CACHE_MS
          QueryTime,  \* a query is answered within this time, or fails
          MaxChanges, \* bound: changes of the row
          MaxTime,    \* bound: the clock
          Env,        \* what may fail: subset of {"dbDown"}
          None

VARIABLES row,        \* the row of platform_settings
          changedAt,  \* when the row was changed, by change (a history variable)
          cache,      \* the copy in memory
          req,
          now

vars == <<row, changedAt, cache, req, now>>

Time    == 0 .. MaxTime
Version == 0 .. MaxChanges
Idle == [pc |-> "idle", value |-> 0, since |-> 0]

TypeOK ==
    /\ row \in Version
    /\ changedAt \in [1 .. MaxChanges -> Time \cup {None}]
    /\ cache \in [value : Version, expiresAt : Nat] \cup {None}
    /\ req \in [Req -> [pc : {"idle", "reading", "read", "updating", "updated", "served"},
                        value : Version, since : Time]]
    /\ now \in Time

Init ==
    /\ row = 0
    /\ changedAt = [v \in 1 .. MaxChanges |-> None]
    /\ cache = None
    /\ req = [r \in Req |-> Idle]
    /\ now = 0

Step(r, pc, value) == req' = [req EXCEPT ![r] = [pc |-> pc, value |-> value, since |-> now]]

CacheServes(fresh) == ~fresh /\ cache # None /\ cache.expiresAt > now

\* Mutation of CacheHit: a copy that is used is kept for longer.
CacheHit_Sliding == cache' = [cache EXCEPT !.expiresAt = now + CacheTime]

CacheHit == UNCHANGED cache

\* getPlatformSettings, by a quote (fresh = FALSE) or by the administrator's page.
Get(r, fresh) ==
    /\ req[r].pc \in {"idle", "served"}
    /\ \/ CacheServes(fresh) /\ Step(r, "served", cache.value) /\ CacheHit
       \/ ~CacheServes(fresh) /\ Step(r, "reading", 0) /\ UNCHANGED cache
    /\ UNCHANGED <<row, changedAt, now>>

ReadRow(r) ==
    /\ req[r].pc = "reading"
    /\ Step(r, "read", row)
    /\ UNCHANGED <<row, changedAt, cache, now>>

\* The answer of the query is served and kept.
KeepCopy(r) ==
    /\ req[r].pc = "read"
    /\ cache' = [value |-> req[r].value, expiresAt |-> now + CacheTime]
    /\ Step(r, "served", req[r].value)
    /\ UNCHANGED <<row, changedAt, now>>

\* updatePlatformSettings: the row first, and the copy is dropped when the answer is in.
Update(r) ==
    /\ req[r].pc \in {"idle", "served"}
    /\ Step(r, "updating", 0)
    /\ UNCHANGED <<row, changedAt, cache, now>>

ChangeRow(r) ==
    /\ req[r].pc = "updating" /\ row < MaxChanges
    /\ row' = row + 1
    /\ changedAt' = [changedAt EXCEPT ![row + 1] = now]
    /\ Step(r, "updated", row + 1)
    /\ UNCHANGED <<cache, now>>

DropCopy(r) ==
    /\ req[r].pc = "updated"
    /\ cache' = None
    /\ Step(r, "served", req[r].value)
    /\ UNCHANGED <<row, changedAt, now>>

QueryFails(r) ==
    /\ "dbDown" \in Env /\ req[r].pc \in {"reading", "read", "updating", "updated"}
    /\ req' = [req EXCEPT ![r] = Idle]
    /\ UNCHANGED <<row, changedAt, cache, now>>

Tick ==
    /\ now < MaxTime
    /\ \A r \in Req : req[r].pc \in {"idle", "served"} \/ now - req[r].since < QueryTime
    /\ now' = now + 1
    /\ UNCHANGED <<row, changedAt, cache, req>>

Next ==
    \/ \E r \in Req : \/ \E fresh \in BOOLEAN : Get(r, fresh)
                      \/ ReadRow(r) \/ KeepCopy(r) \/ Update(r) \/ ChangeRow(r) \/ DropCopy(r)
                      \/ QueryFails(r)
    \/ Tick

Spec == Init /\ [][Next]_vars

-------------------------------------------------------------------------------
(* Properties                                                              *)

\* The row had this version until then.
CurrentUntil(v) == IF v = row THEN now ELSE changedAt[v + 1]

(***************************************************************************)
(* A quote is charged with rates that were in force no longer ago than the *)
(* copy is kept and a query takes, although a read that began before a     *)
(* change may put the old rates back after the change dropped the copy.    *)
(***************************************************************************)
RatesAreRecent ==
    \A r \in Req : req[r].pc = "served" =>
        CurrentUntil(req[r].value) >= req[r].since - CacheTime - QueryTime

===============================================================================
