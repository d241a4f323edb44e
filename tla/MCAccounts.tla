------------------------------ MODULE MCAccounts ------------------------------
(***************************************************************************)
(* The stores of the members, their roles and documents, the limiter in    *)
(* front of their sign-in and the support desk share no variable: a        *)
(* behaviour is one of either, and the state spaces add up.                *)
(***************************************************************************)
EXTENDS PasswordReset, TLC

CONSTANTS Agent,      \* requests of the support desk
          Case,       \* support tickets
          MaxActs,    \* bound: one-click actions taken on a ticket
          Process,    \* server instances
          Window,     \* windowMs of a limiter
          MaxHits,    \* max of a limiter
          Keep,       \* how long an expired bucket is kept
          MaxRuns,    \* bound: how often an instance is started
          MaxTime     \* bound: the limiter's clock

\* There are finitely many instances; nobody is called None, nor is a hit.
ASSUME SumAssumption ==
    /\ MaxActs \in Nat /\ MaxTime \in Nat /\ Keep \in Nat /\ IsFiniteSet(Process)
    /\ Window \in Nat \ {0} /\ MaxHits \in Nat \ {0} /\ MaxRuns \in Nat \ {0}
    /\ None \notin Nat /\ None \notin [count : Nat, resetAt : Nat]

VARIABLES
    part,
    factorFactor, factorReq, factorHistory,
    linkVerified, linkLink, linkReq, linkRefused,
    memberMember, memberListing, memberStay, memberReq, memberHistory,
    limitBucket, limitUp, limitRun, limitLet, limitTold, limitNow,
    deskTicket, deskTrace, deskReq, deskHistory,
    rolesRoles, rolesSuspended, rolesErased, rolesReq, rolesLost,
    checkHost, checkDocument, checkVerified, checkErased, checkReq, checkAstray

factorVars == <<factorFactor, factorReq, factorHistory>>
linkVars == <<linkVerified, linkLink, linkReq, linkRefused>>
memberVars == <<memberMember, memberListing, memberStay, memberReq, memberHistory>>
limitVars == <<limitBucket, limitUp, limitRun, limitLet, limitTold, limitNow>>
deskVars == <<deskTicket, deskTrace, deskReq, deskHistory>>
rolesVars == <<rolesRoles, rolesSuspended, rolesErased, rolesReq, rolesLost>>
checkVars == <<checkHost, checkDocument, checkVerified, checkErased, checkReq, checkAstray>>
idVars == <<rolesVars, checkVars>>
sumVars == <<part, vars, factorVars, linkVars, memberVars, limitVars, deskVars, idVars>>

Factor == INSTANCE TwoFactor WITH
    factor <- factorFactor, req <- factorReq, history <- factorHistory

Links == INSTANCE EmailVerification WITH
    verified <- linkVerified, link <- linkLink, req <- linkReq,
    refused <- linkRefused

Erasure == INSTANCE MemberErasure WITH
    member <- memberMember, listing <- memberListing, stay <- memberStay,
    req <- memberReq, history <- memberHistory

Limiter == INSTANCE RateLimiter WITH
    bucket <- limitBucket, up <- limitUp, run <- limitRun, let <- limitLet, told <- limitTold,
    now <- limitNow, Max <- MaxHits

Desk == INSTANCE SupportDesk WITH
    ticket <- deskTicket, trace <- deskTrace, req <- deskReq,
    history <- deskHistory, Ticket <- Case, Req <- Agent, Env <- {"dbDown"}

Roles == INSTANCE AdminRoles WITH
    roles <- rolesRoles, suspended <- rolesSuspended, erased <- rolesErased,
    req <- rolesReq, lost <- rolesLost, Member <- Request, Role <- {"admin", "moderator"},
    Req <- Ticket

Check == INSTANCE IdentityCheck WITH
    host <- checkHost, document <- checkDocument, verified <- checkVerified,
    erased <- checkErased, req <- checkReq, astray <- checkAstray,
    Member <- Ticket, Req <- Request, Env <- {"dbDown"}

\* The parts that do not run stay in one initial state.
SumInit ==
    /\ part \in {"reset", "factor", "link", "member", "limit", "desk", "roles", "check"}
    /\ Roles!Init /\ Check!Init
    /\ part # "roles" => rolesRoles = [m \in Request |-> {"admin"}]
    /\ Init /\ Factor!Init /\ Links!Init /\ Erasure!Init /\ Limiter!Init /\ Desk!Init

SumNext ==
    \/ part = "reset" /\ Next
       /\ UNCHANGED <<part, factorVars, linkVars, memberVars, limitVars, deskVars, idVars>>
    \/ part = "factor" /\ Factor!Next
       /\ UNCHANGED <<part, vars, linkVars, memberVars, limitVars, deskVars, idVars>>
    \/ part = "link" /\ Links!Next
       /\ UNCHANGED <<part, vars, factorVars, memberVars, limitVars, deskVars, idVars>>
    \/ part = "member" /\ Erasure!Next
       /\ UNCHANGED <<part, vars, factorVars, linkVars, limitVars, deskVars, idVars>>
    \/ part = "limit" /\ Limiter!Next
       /\ UNCHANGED <<part, vars, factorVars, linkVars, memberVars, deskVars, idVars>>
    \/ part = "desk" /\ Desk!Next
       /\ UNCHANGED <<part, vars, factorVars, linkVars, memberVars, limitVars, idVars>>
    \/ part = "roles" /\ Roles!Next
       /\ UNCHANGED <<part, vars, factorVars, linkVars, memberVars, limitVars, deskVars, checkVars>>
    \/ part = "check" /\ Check!Next
       /\ UNCHANGED <<part, vars, factorVars, linkVars, memberVars, limitVars, deskVars, rolesVars>>

SumSpec == SumInit /\ [][SumNext]_sumVars

TypesOK ==
    /\ part = "reset" => TypeOK
    /\ part = "factor" => Factor!TypeOK
    /\ part = "link" => Links!TypeOK
    /\ part = "member" => Erasure!TypeOK
    /\ part = "limit" => Limiter!TypeOK
    /\ part = "desk" => Desk!TypeOK
    /\ part = "roles" => Roles!TypeOK
    /\ part = "check" => Check!TypeOK

\* What an account is sure of was proven: the authenticator it asks codes of, and
\* the address whose link is used up; each store keeps to its types.
EnabledIsProven ==
    /\ TypesOK
    /\ part = "factor" => Factor!EnabledIsProven
    /\ part = "link" => Links!LinkConfirms

\* Who is gone stays gone and owes nothing: an erased member does not come back,
\* nor the data, and leaves no stay to be kept; a ban outlasts a suspension.
ErasureHolds ==
    part = "member" =>
        /\ Erasure!ErasedStaysOut /\ Erasure!ErasedStaysErased
        /\ Erasure!ErasedOwesNoStay /\ Erasure!BannedStaysOut

\* The limit bounds the attempts of any stretch of time by the counters that took
\* part in it, and a refused caller is not held back longer than told.
LimitHolds == part = "limit" => Limiter!GuessesAreBounded /\ Limiter!RefusalsDoNotExtend

\* Properties of the modules under their own names, looked at where their part runs.
WaitingIsQueued      == part = "desk" => Desk!WaitingIsQueued
AdministratorsRemain == part = "roles" => Roles!AdministratorsRemain
StandingAgrees       == part = "check" => Check!StandingAgrees

\* Requests of the desk, members and their requests are named by the model values
\* of the other parts: one small symmetry group serves every part.
Symmetry ==
    Permutations(Request) \cup Permutations(Ticket)
===============================================================================
