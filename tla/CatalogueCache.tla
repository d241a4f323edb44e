---------------------------- MODULE CatalogueCache ----------------------------
(***************************************************************************)
(* The in-memory copy of public search results: searches that load from    *)
(* the database and store what they read, and write requests that commit   *)
(* and drop the copy when their answer is sent.                            *)
(*                                                                         *)
(* The database is the number of changes committed so far, and a search    *)
(* result is the number it saw: it shows exactly the changes up to it.     *)
(* `since` remembers what a search has to show, and a stored entry when    *)
(* its rows were read.                                                     *)
(***************************************************************************)
EXTENDS Naturals, FiniteSets

CONSTANTS Key,          \* search queries
          Search,       \* search requests in flight
          Write,        \* write requests in flight
          SafetyTtl,    \* SAFETY_TTL_MS, in ticks
          MaxEntries,   \* MAX_ENTRIES
          QueryTime,    \* longest time a search may load, in ticks
          MaxChanges,   \* bound: changes to the catalogue
          MaxTime,      \* bound: ticks
          Absent

VARIABLES db,           \* number of committed changes
          madeAt,       \* when each change was committed
          answered,     \* changes whose request was answered successfully
          version, entries, search, write, now

vars == <<db, madeAt, answered, version, entries, search, write, now>>

Change == 1..MaxChanges
Latest(s) == IF s = {} THEN 0 ELSE CHOOSE c \in s : \A d \in s : d <= c

Entry == [at: 0..MaxTime, version: 0..MaxChanges, value: 0..MaxChanges, read: 0..MaxTime]
Waiting == [pc |-> "idle"]
NoWrite == [pc |-> "idle"]
Stored  == {k \in Key : entries[k] # Absent}

Init ==
    /\ db = 0
    /\ madeAt = [c \in Change |-> 0]
    /\ answered = {}
    /\ version = 0
    /\ entries = [k \in Key |-> Absent]
    /\ search = [s \in Search |-> Waiting]
    /\ write = [w \in Write |-> NoWrite]
    /\ now = 0

-----------------------------------------------------------------------------
(* Searching.                                                              *)

\* Mutation of Servable: only a write drops an entry.
Servable_Forever(e) == e # Absent /\ e.version = version

\* A stored result that may still be served.
Servable(e) == e # Absent /\ e.version = version /\ now - e.at < SafetyTtl

\* A hit answers at once; otherwise the search remembers the version and loads.
StartSearch(s, k) ==
    /\ search[s].pc \in {"idle", "done"}
    /\ search' = [search EXCEPT ![s] =
            IF Servable(entries[k])
            THEN [pc |-> "done", value |-> entries[k].value, since |-> Latest(answered)]
            ELSE [pc |-> "loading", key |-> k, startedAt |-> version,
                  since |-> Latest(answered), at |-> now]]
    /\ UNCHANGED <<db, madeAt, answered, version, entries, write, now>>

\* The rows are read from the database.
ReadRows(s) ==
    /\ search[s].pc = "loading"
    /\ search' = [search EXCEPT ![s] =
            [pc |-> "read", key |-> @.key, startedAt |-> @.startedAt, value |-> db,
             since |-> @.since, at |-> @.at, read |-> now]]
    /\ UNCHANGED <<db, madeAt, answered, version, entries, write, now>>

\* Mutation of MayStore: what was loaded is stored, whatever was answered meanwhile.
MayStore_Always(q) == TRUE

MayStore(q) == q.startedAt = version

\* Mutation of Full: the cache is emptied one entry late.
Full_OffByOne == Cardinality(Stored) > MaxEntries

Full == Cardinality(Stored) >= MaxEntries

Emptied == [k \in Key |-> Absent]

\* The result is stored unless a write was answered meanwhile; a full cache is
\* emptied first.  The request is answered either way.
StoreResult(s) ==
    LET q == search[s]
        base == IF Full THEN Emptied ELSE entries
        fresh == [at |-> now, version |-> version, value |-> q.value, read |-> q.read] IN
    /\ q.pc = "read"
    /\ entries' = IF MayStore(q) THEN [base EXCEPT ![q.key] = fresh] ELSE entries
    /\ search' = [search EXCEPT ![s] =
            [pc |-> "done", value |-> q.value, since |-> q.since]]
    /\ UNCHANGED <<db, madeAt, answered, version, write, now>>

\* The load failed or its client left: nothing is stored.
SearchFails(s) ==
    /\ search[s].pc \in {"loading", "read"}
    /\ search' = [search EXCEPT ![s] = Waiting]
    /\ UNCHANGED <<db, madeAt, answered, version, entries, write, now>>

-----------------------------------------------------------------------------
(* Writing.                                                                *)

Committed == db < MaxChanges /\ db' = db + 1 /\ madeAt' = [madeAt EXCEPT ![db + 1] = now]

\* A write request commits; its answer comes later.
CommitWrite(w) ==
    /\ write[w] = NoWrite
    /\ Committed
    /\ write' = [write EXCEPT ![w] = [pc |-> "committed", change |-> db + 1]]
    /\ UNCHANGED <<answered, version, entries, search, now>>

\* Mutation of Invalidate: old entries are left for their version to exclude.
Invalidate_Lazy == version' = version + 1 /\ UNCHANGED entries

\* invalidateCatalogue
Invalidate == version' = version + 1 /\ entries' = Emptied

\* The answer is sent with a status below 400: the cache is dropped.
FinishWrite(w) ==
    /\ write[w].pc = "committed"
    /\ Invalidate
    /\ answered' = answered \cup {write[w].change}
    /\ write' = [write EXCEPT ![w] = NoWrite]
    /\ UNCHANGED <<db, madeAt, search, now>>

\* A later statement of the handler fails, or the connection closes before the
\* answer is sent: what was committed stays and the cache is not dropped.
LoseAnswer(w) ==
    /\ write[w].pc = "committed"
    /\ write' = [write EXCEPT ![w] = NoWrite]
    /\ UNCHANGED <<db, madeAt, answered, version, entries, search, now>>

\* A background job, a script or another server changes the data.
ChangeElsewhere ==
    /\ Committed
    /\ UNCHANGED <<answered, version, entries, search, write, now>>

\* Time passes; no search loads for longer than the query timeout allows.
Tick ==
    /\ now < MaxTime
    /\ \A s \in Search : search[s].pc \in {"loading", "read"} => now - search[s].at < QueryTime
    /\ now' = now + 1
    /\ UNCHANGED <<db, madeAt, answered, version, entries, search, write>>

Next ==
    \/ \E s \in Search :
        \/ \E k \in Key : StartSearch(s, k)
        \/ ReadRows(s) \/ StoreResult(s) \/ SearchFails(s)
    \/ \E w \in Write : CommitWrite(w) \/ FinishWrite(w) \/ LoseAnswer(w)
    \/ ChangeElsewhere
    \/ Tick

Spec == Init /\ [][Next]_vars

-----------------------------------------------------------------------------
TypeOK ==
    /\ db \in 0..MaxChanges
    /\ madeAt \in [Change -> 0..MaxTime]
    /\ answered \subseteq Change
    /\ version \in 0..MaxChanges
    /\ entries \in [Key -> Entry \cup {Absent}]
    /\ now \in 0..MaxTime
    /\ \A k \in Stored : entries[k].version = version

\* A search sees every write that was answered before the search began, loaded
\* or served from memory, whatever loads and writes overlapped.
NoStaleAnswer ==
    \A s \in Search : search[s].pc = "done" => search[s].value >= search[s].since

\* A change nobody dropped the cache for is hidden no longer than the safety
\* window and the longest load together: an entry is dated when it is stored.
HiddenForAWhile ==
    \A k \in Key :
        Servable(entries[k]) =>
            \A c \in Change : c <= db /\ c > entries[k].value =>
                now - madeAt[c] < SafetyTtl + QueryTime

\* The header's rule for the safety window alone, which the code does not keep.
HiddenForTheWindow ==
    \A k \in Key :
        Servable(entries[k]) =>
            \A c \in Change : c <= db /\ c > entries[k].value =>
                now - madeAt[c] < SafetyTtl

\* The cache never holds more searches than it may.
CacheIsBounded == Cardinality(Stored) <= MaxEntries
===============================================================================
