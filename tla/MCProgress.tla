------------------------------- MODULE MCProgress ------------------------------
(***************************************************************************)
(* What must go on by itself: the bookings the worker looks after, and the *)
(* requests that wait for a connection or for a repair of the schema.  The *)
(* two share no variable, so a behaviour is one of either and the state    *)
(* spaces add up.  Fairness is that of the modules, for the part that runs.*)
(***************************************************************************)
EXTENDS Reservations, FiniteSets

CONSTANTS Caller,   \* requests that run statements
          Object,   \* schema objects that may be missing
          Pool,     \* PG_POOL_MAX
          Drops     \* bound: objects dropped behind the server's back

ASSUME HealingAssumption ==
    /\ IsFiniteSet(Caller) /\ None \notin Object
    /\ Pool \in Nat \ {0} /\ Drops \in Nat

VARIABLES turn, healingMissing, healingReq, healingRepair, healingDrops

healingVars == <<healingMissing, healingReq, healingRepair, healingDrops>>
progressVars == <<turn, vars, healingVars>>

Healing == INSTANCE SchemaHealing WITH
    missing <- healingMissing, req <- healingReq, repair <- healingRepair,
    drops <- healingDrops, Req <- Caller, PoolMax <- Pool, MaxDrops <- Drops

\* The part that does not run stays in one initial state.
ProgressInit ==
    /\ turn \in {"bookings", "healing"}
    /\ Init /\ Healing!Init
    /\ turn = "bookings" => healingMissing = {}

Booked(A) == turn = "bookings" /\ A /\ UNCHANGED <<turn, healingVars>>
Healed(A) == turn = "healing" /\ A /\ UNCHANGED <<turn, vars>>

ProgressNext == Booked(Next) \/ Healed(Healing!Next)

ProgressSpec ==
    /\ ProgressInit /\ [][ProgressNext]_progressVars
    /\ WF_progressVars(Booked(ExpireUnpaidBookings))
    /\ WF_progressVars(Booked(CompleteFinishedStays))
    /\ \A b \in Booking : WF_progressVars(Booked(HoldElapses(b)))
    /\ \A r \in Caller :
         /\ WF_progressVars(Healed(Healing!RequestStep(r)))
         /\ SF_progressVars(Healed(Healing!Ends(r)))
    /\ WF_progressVars(Healed(Healing!RepairStep))

ProgressTypes ==
    /\ turn = "bookings" => TypeOK
    /\ turn = "healing" => Healing!TypeOK

\* A repair serves those who wait for it, from the connections the pool has: no
\* more are out than it holds, nobody waits for a repair that has ended, and a
\* request that a repair let go finds its object unless it was dropped again; each
\* part keeps to its types.
RepairsServe ==
    /\ ProgressTypes
    /\ Healing!PoolIsBounded /\ Healing!RepairedUnlessLost /\ Healing!WaitersAreServed

\* Every request answers, though the repair it waits for needs a connection itself.
EveryRequestSettles == \A r \in Caller : Healing!Settles(r)

\* The two sweeps of the worker do what they are there for: unpaid holds are given
\* back and stays that are over become completed.
SweepsSettle == HoldsAreReleased /\ FinishedStaysComplete
===============================================================================
