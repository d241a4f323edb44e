------------------------------- MODULE AdminRoles -------------------------------
(***************************************************************************)
(* Who runs the platform: the roles of user_role_grant and the suspensions *)
(* (admin.routes.ts, accounts.repository.ts, admin.repository.ts).  Who    *)
(* asks is looked up once, when a request comes in; administrators work on *)
(* one another's accounts at the same time.                                *)
(***************************************************************************)
EXTENDS Integers

CONSTANTS Member,
          Role,       \* roles that are granted, "admin" among them
          Req,        \* requests in flight
          None

VARIABLES roles,      \* user_role_grant
          suspended,  \* app_user.suspended
          erased,     \* app_user.deleted_at is set
          req,
          lost        \* how the last administrator went

vars == <<roles, suspended, erased, req, lost>>

Idle == [pc |-> "idle", by |-> None, of |-> None]

TypeOK ==
    /\ roles \in [Member -> SUBSET Role]
    /\ suspended \in SUBSET Member /\ erased \in SUBSET Member
    /\ req \in [Req -> [pc : {"idle", "grant", "revoke", "suspend", "ban", "restore"},
                        by : Member \cup {None}, of : Member \cup {None}]]
    /\ lost \in {"no", "crossed", "erased", "banned"}

Init ==
    /\ roles \in [Member -> {{}, {"admin"}}]
    /\ \E m \in Member : "admin" \in roles[m]
    /\ suspended = {} /\ erased = {}
    /\ req = [r \in Req |-> Idle]
    /\ lost = "no"

At(r, pc) == req[r].pc = pc
Done(r) == req' = [req EXCEPT ![r] = Idle]

\* Of the administrator roles only "admin" holds users.manage and admins.manage.
HasCapability(m) == "admin" \in roles[m]

\* contextFromToken: nobody whose account is suspended is let in.
Active == {m \in Member : m \notin suspended /\ HasCapability(m)}

Ask(r, a, pc, m) ==
    /\ At(r, "idle") /\ a \in Active
    /\ req' = [req EXCEPT ![r] = [pc |-> pc, by |-> a, of |-> m]]
    /\ UNCHANGED <<roles, suspended, erased, lost>>

GrantRole(r, role) ==
    /\ At(r, "grant")
    /\ roles' = [roles EXCEPT ![req[r].of] = @ \cup {role}]
    /\ Done(r)
    /\ UNCHANGED <<suspended, erased, lost>>

\* History: the last administrator goes by a request whose sender went before.
Witness(r) ==
    lost' = IF Active' = {} /\ Active # {} /\ req[r].by \notin Active THEN "crossed" ELSE lost

\* Mutation of MayRevoke: an administrator may step down.
MayRevoke_Own(by, of, role) == TRUE

MayRevoke(by, of, role) == ~(by = of /\ role = "admin")

RevokeRole(r, role) ==
    LET q == req[r] IN
    /\ At(r, "revoke")
    /\ roles' = IF MayRevoke(q.by, q.of, role)
                THEN [roles EXCEPT ![q.of] = @ \ {role}] ELSE roles
    /\ Done(r)
    /\ UNCHANGED <<suspended, erased>>
    /\ Witness(r)

SetUserSuspended(r) ==
    LET q == req[r] IN
    /\ At(r, "suspend")
    /\ suspended' = IF q.by = q.of THEN suspended ELSE suspended \cup {q.of}
    /\ Done(r)
    /\ UNCHANGED <<roles, erased>>
    /\ Witness(r)

\* setUserBanned suspends, too, whoever asks for it.
SetUserBanned(r) ==
    LET q == req[r] IN
    /\ At(r, "ban")
    /\ suspended' = suspended \cup {q.of}
    /\ Done(r)
    /\ UNCHANGED <<roles, erased>>
    /\ IF q.by = q.of /\ Active = {q.of} THEN lost' = "banned" ELSE Witness(r)

\* The end of a suspension or of a ban.
RestoreUser(r) ==
    /\ At(r, "restore")
    /\ suspended' = suspended \ {req[r].of}
    /\ Done(r)
    /\ UNCHANGED <<roles, erased, lost>>

\* deleteOwnAccount: a transaction takes the roles and closes the account.
EraseOwn(m) ==
    /\ m \notin suspended \cup erased
    /\ roles' = [roles EXCEPT ![m] = {}]
    /\ suspended' = suspended \cup {m}
    /\ erased' = erased \cup {m}
    /\ lost' = IF Active = {m} THEN "erased" ELSE lost
    /\ UNCHANGED req

Next ==
    \/ \E r \in Req :
          \/ \E a, m \in Member, pc \in {"grant", "revoke", "suspend", "ban", "restore"} : Ask(r, a, pc, m)
          \/ \E role \in Role : GrantRole(r, role) \/ RevokeRole(r, role)
          \/ SetUserSuspended(r) \/ SetUserBanned(r) \/ RestoreUser(r)
    \/ \E m \in Member : EraseOwn(m)

Spec == Init /\ [][Next]_vars

-------------------------------------------------------------------------------
(* Properties                                                              *)

(***************************************************************************)
(* There is always somebody to run the platform: administrators cannot     *)
(* revoke or suspend themselves, so the last one goes only when two of     *)
(* them dismiss one another at the same time, or when they erase or ban    *)
(* their own account, which is not refused to the last one.                *)
(***************************************************************************)
AdministratorsRemain == Active = {} => lost # "no"

-------------------------------------------------------------------------------
(* What a message of the code says and the model refutes (see the README). *)

\* "You cannot suspend your own administrator account" (setUserSuspended).
NobodySuspendsThemselves == lost # "banned"
===============================================================================
