----------------------------- MODULE IdentityCheck ------------------------------
(***************************************************************************)
(* The identity document of a host (accounts.repository.ts and             *)
(* operations.repository.ts): it is filed when a member becomes a host, in *)
(* a statement after the role, and the decision about it is kept in        *)
(* identity_verification by one statement and on the account by another.   *)
(***************************************************************************)
EXTENDS Integers

CONSTANTS Member,
          Req,        \* requests in flight
          Env,        \* "dbDown": a statement fails, or the process stops
          None

VARIABLES host,       \* members with a host profile, which an erasure leaves
          document,   \* identity_verification.status, "none" without a row
          verified,   \* app_user.verified
          erased,     \* app_user.deleted_at is set
          req,
          astray      \* members of whom two decisions overlapped, or one was lost

vars == <<host, document, verified, erased, req, astray>>

Decision == {"pending", "verified", "rejected"}
Idle     == [pc |-> "idle", of |-> None, status |-> "none"]

TypeOK ==
    /\ host \in SUBSET Member /\ verified \in SUBSET Member
    /\ erased \in SUBSET Member /\ astray \in SUBSET Member
    /\ document \in [Member -> Decision \cup {"none"}]
    /\ req \in [Req -> [pc : {"idle", "become", "file", "verify", "sync"},
                        of : Member \cup {None}, status : Decision \cup {"none"}]]

Init ==
    /\ host = {} /\ verified = {} /\ erased = {} /\ astray = {}
    /\ document = [m \in Member |-> "none"]
    /\ req = [r \in Req |-> Idle]

At(r, pc) == req[r].pc = pc
Done(r) == req' = [req EXCEPT ![r] = Idle]

\* A member asks to become a host, once more to send a better document, or an
\* administrator, whose roles are those of AdminRoles, decides about a member.
Start(r, pc, m) ==
    /\ At(r, "idle")
    /\ pc = "become" => m \notin erased
    /\ req' = [req EXCEPT ![r] = [pc |-> pc, of |-> m, status |-> "none"]]
    /\ UNCHANGED <<host, document, verified, erased, astray>>

GrantHost(r) ==
    /\ At(r, "become")
    /\ host' = host \cup {req[r].of}
    /\ req' = [req EXCEPT ![r].pc = "file"]
    /\ UNCHANGED <<document, verified, erased, astray>>

\* Mutation of Filed: a document sent again has to be looked at again.
Filed_Again(status) == "pending"

\* An already verified member keeps their status.
Filed(status) == IF status = "verified" THEN status ELSE "pending"

SubmitIdentityDocument(r) ==
    /\ At(r, "file")
    /\ document' = [document EXCEPT ![req[r].of] = Filed(@)]
    /\ Done(r)
    /\ UNCHANGED <<host, verified, erased, astray>>

Deciding(m) == {r \in Req : At(r, "sync") /\ req[r].of = m}

\* setVerification: the decision, then the mark on the account.
SetVerification(r, status) ==
    LET m == req[r].of IN
    /\ At(r, "verify")
    /\ document' = [document EXCEPT ![m] = status]
    /\ req' = [req EXCEPT ![r].pc = "sync", ![r].status = status]
    /\ astray' = IF Deciding(m) = {} THEN astray \ {m} ELSE astray \cup {m}
    /\ UNCHANGED <<host, verified, erased>>

SyncVerified(r) ==
    LET q == req[r] IN
    /\ At(r, "sync")
    /\ verified' = IF q.status = "verified" THEN verified \cup {q.of} ELSE verified \ {q.of}
    /\ Done(r)
    /\ UNCHANGED <<host, document, erased, astray>>

\* deleteOwnAccount: it leaves identity_verification alone.
EraseOwn(m) ==
    /\ m \notin erased
    /\ verified' = verified \ {m} /\ erased' = erased \cup {m}
    /\ UNCHANGED <<host, document, req, astray>>

\* What Stripe reports of a host's account, by its webhook or on an administrator's
\* demand, opens a row where there is none and leaves a decision alone.
RecordStripeIdentity(m) ==
    /\ m \in host
    /\ document' = [document EXCEPT ![m] = IF @ = "none" THEN "pending" ELSE @]
    /\ UNCHANGED <<host, verified, erased, req, astray>>

LoseRequest(r) ==
    /\ "dbDown" \in Env /\ ~At(r, "idle")
    /\ astray' = IF At(r, "sync") THEN astray \cup {req[r].of} ELSE astray
    /\ Done(r)
    /\ UNCHANGED <<host, document, verified, erased>>

Next ==
    \/ \E r \in Req :
          \/ \E m \in Member, pc \in {"become", "verify"} : Start(r, pc, m)
          \/ GrantHost(r) \/ SubmitIdentityDocument(r)
          \/ \E s \in Decision : SetVerification(r, s)
          \/ SyncVerified(r) \/ LoseRequest(r)
    \/ \E m \in Member : EraseOwn(m) \/ RecordStripeIdentity(m)

Spec == Init /\ [][Next]_vars

-------------------------------------------------------------------------------
(* Properties                                                              *)

\* What the list of verifications shows of a member; it leaves the erased out.
Shown(m) == IF document[m] # "none" THEN document[m]
            ELSE IF m \in verified THEN "verified" ELSE "pending"

(***************************************************************************)
(* The mark on an account says what was decided about its document, as the *)
(* list of verifications shows it, unless two decisions overlapped or one  *)
(* was lost between its statements: a document that is sent meanwhile, or  *)
(* sent again, does not part them (setVerification,                        *)
(* submitIdentityDocument).                                                *)
(***************************************************************************)
StandingAgrees ==
    \A m \in Member \ (erased \cup astray) : Deciding(m) = {} =>
        (m \in verified <=> Shown(m) = "verified")

-------------------------------------------------------------------------------
(* What comments of the code say and the model refutes (see the README).   *)

\* "every piece of personal data is removed" (deleteOwnAccount).
ErasedLeavesNoDocument == \A m \in erased : document[m] = "none"
===============================================================================
