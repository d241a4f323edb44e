------------------------------ MODULE RateLimiter ------------------------------
(***************************************************************************)
(* The fixed-window limiter of one subject (middleware/rateLimit.ts): a    *)
(* bucket in the database that the instances share and that survives them, *)
(* and a counter in each process for the time the database is away.        *)
(***************************************************************************)
EXTENDS Integers, FiniteSets

CONSTANTS Process,   \* server instances
          Window,    \* windowMs
          Max,       \* max
          Keep,      \* how long an expired bucket is kept (an hour)
          MaxTime,   \* bound: the clock
          MaxRuns,   \* bound: how often a process is started
          None

VARIABLES bucket,    \* the hit each counter holds
          up,        \* the database answers
          run,       \* which start of the process is running
          let,       \* the attempts each counter let through (a history variable)
          told,      \* when each told a refused caller to come back, the first of those to come
          now

vars == <<bucket, up, run, let, told, now>>

Time  == 0 .. MaxTime

\* The counters of the subject: the bucket of the database, and the memory of every
\* run of a process, which is gone when the run ends.
Database == <<None, 0>>
Memory   == Process \X (1 .. MaxRuns)
Counter  == {Database} \cup Memory

Hit   == [count : Nat, resetAt : Nat]

\* An attempt let through: when, and as which hit of the window that ends when.
Let == [at : Time, end : Nat, nth : Nat]

TypeOK ==
    /\ bucket \in [Counter -> Hit \cup {None}]
    /\ up \in BOOLEAN
    /\ run \in [Process -> 1 .. MaxRuns]
    /\ let \in [Counter -> SUBSET Let]
    /\ told \in [Counter -> Nat \cup {None}]
    /\ now \in Time

Init ==
    /\ bucket = [c \in Counter |-> None]
    /\ up = TRUE
    /\ run = [p \in Process |-> 1]
    /\ let = [c \in Counter |-> {}]
    /\ told = [c \in Counter |-> None]
    /\ now = 0

Running(hit) == hit # None /\ hit.resetAt > now

\* Mutation of Counted: every attempt starts the window anew.
Counted_Sliding(hit) ==
    [count |-> IF Running(hit) THEN hit.count + 1 ELSE 1, resetAt |-> now + Window]

\* hitStored and hitMemory: one more hit of the window, or a new window.
Counted(hit) ==
    IF Running(hit) THEN [hit EXCEPT !.count = @ + 1] ELSE [count |-> 1, resetAt |-> now + Window]

\* Mutation of Allowed: one attempt past the limit is let through.
Allowed_OffByOne(hit) == hit.count <= Max + 1

Allowed(hit) == hit.count <= Max

\* The database, and the memory of the process while it is away.
CounterOf(p) == IF up THEN Database ELSE <<p, run[p]>>

\* A request of the subject in process p; counts past the refusal are alike.
Attempt(p) ==
    LET c == CounterOf(p)
        hit == Counted(bucket[c])
    IN  /\ bucket' = [bucket EXCEPT ![c] = [hit EXCEPT !.count = IF hit.count > Max + 2 THEN Max + 2 ELSE hit.count]]
        /\ \/ /\ ~Allowed(hit)
              /\ told' = [told EXCEPT ![c] = IF @ # None /\ @ > now THEN @ ELSE hit.resetAt]
              /\ UNCHANGED let
           \/ /\ Allowed(hit)
              /\ let' = [let EXCEPT ![c] = @ \cup {[at |-> now, end |-> hit.resetAt, nth |-> hit.count]}]
              /\ UNCHANGED told
        /\ UNCHANGED <<up, run, now>>

\* The sweep that a stored hit starts in the background.
Sweep ==
    /\ up /\ bucket[Database] # None /\ bucket[Database].resetAt < now - Keep
    /\ bucket' = [bucket EXCEPT ![Database] = None]
    /\ UNCHANGED <<up, run, let, told, now>>

\* A process is started again, with an empty memory.  What callers were let through
\* before is not undone by that.
Restart(p) ==
    /\ run[p] < MaxRuns
    /\ run' = [run EXCEPT ![p] = @ + 1]
    /\ UNCHANGED <<bucket, up, let, told, now>>

DatabaseGoesOrReturns ==
    /\ up' = ~up
    /\ UNCHANGED <<bucket, run, let, told, now>>

Tick ==
    /\ now < MaxTime
    /\ now' = now + 1
    /\ UNCHANGED <<bucket, up, run, let, told>>

Next ==
    \/ \E p \in Process : Attempt(p) \/ Restart(p)
    \/ Sweep \/ DatabaseGoesOrReturns \/ Tick

Spec == Init /\ [][Next]_vars

-------------------------------------------------------------------------------
(* Properties                                                              *)

\* The attempts let through within the last Window ticks up to t: by one counter,
\* by all of them, and the counters that took part.
LetBy(c, t)  == {h \in let[c] : h.at <= t /\ h.at > t - Window}
LetWithin(t) == UNION {{c} \X LetBy(c, t) : c \in Counter}
Counting(t)  == {c \in Counter : LetBy(c, t) # {}}

(***************************************************************************)
(* However the attempts of a subject fall across the fixed windows and the *)
(* processes, the database being away and back, expired buckets being      *)
(* swept and processes starting again, the subject is let through in any   *)
(* stretch of one window's length at most twice the limit for each counter *)
(* that counted in it: twice the limit as long as the database answers,    *)
(* and for every run of a process that took over while it did not as much  *)
(* again.  That is what bounds the guesses of a code.                      *)
(***************************************************************************)
GuessesAreBounded ==
    \A t \in Time : Cardinality(LetWithin(t)) <= 2 * Max * Cardinality(Counting(t))

(***************************************************************************)
(* Retry-After is kept: attempts made in the meantime do not put off the   *)
(* time a refused caller was told.  At that time the window of the counter *)
(* that refused has ended, and one that runs later was started by an       *)
(* attempt after it.                                                       *)
(***************************************************************************)
RefusalsDoNotExtend ==
    \A c \in Counter : told[c] # None /\ bucket[c] # None =>
        bucket[c].resetAt = told[c] \/ bucket[c].resetAt >= told[c] + Window

===============================================================================
