--------------------------- MODULE EmailVerification ---------------------------
(***************************************************************************)
(* The confirmation of a member's e-mail address: links that are mailed at *)
(* sign-up and on request, and may be opened more than once, and twice at  *)
(* the same time.                                                          *)
(***************************************************************************)
EXTENDS AccountConstants

VARIABLES verified,  \* email_verified
          link,      \* email_verification_token
          req,       \* the requests in flight
          refused    \* somebody was refused with a link that had not expired

vars == <<verified, link, req, refused>>

LinkRow == [issued : BOOLEAN, used : BOOLEAN, expired : BOOLEAN]

RequestState == [pc : {"idle", "issue", "apply"}, link : Link \cup {None}]

Idle == [pc |-> "idle", link |-> None]

Init ==
    /\ verified = FALSE
    /\ link = [l \in Link |-> [issued |-> FALSE, used |-> FALSE, expired |-> FALSE]]
    /\ req = [r \in Request |-> Idle]
    /\ refused = FALSE

-------------------------------------------------------------------------------
Finish(r) == req' = [req EXCEPT ![r] = Idle]

\* createEmailVerificationToken: nothing is issued to a verified member ...
CheckUnverified(r) ==
    /\ req[r].pc = "idle" /\ ~verified
    /\ req' = [req EXCEPT ![r].pc = "issue"]
    /\ UNCHANGED <<verified, link, refused>>

\* ... as far as the first statement saw.
IssueLink(r) ==
    /\ req[r].pc = "issue"
    /\ \E l \in Link : ~link[l].issued /\ link' = [link EXCEPT ![l].issued = TRUE]
    /\ Finish(r)
    /\ UNCHANGED <<verified, refused>>

\* A link is good, or was and has done its work.
Accepted(l) == ~link[l].used \/ verified

\* verifyEmailWithToken: the row and the member are read by one statement.
OpenLink(r) ==
    /\ req[r].pc = "idle"
    /\ \E l \in Link :
         /\ link[l].issued /\ ~link[l].expired
         /\ refused' = (refused \/ ~Accepted(l))
         /\ IF link[l].used
            THEN UNCHANGED req
            ELSE req' = [req EXCEPT ![r] = [pc |-> "apply", link |-> l]]
    /\ UNCHANGED <<verified, link>>

\* Mutation of ApplyLink: no transaction, and the second statement may fail.
ApplyLink_Torn(r) ==
    /\ req[r].pc = "apply"
    /\ verified' \in {verified, TRUE}
    /\ link' = [link EXCEPT ![req[r].link].used = TRUE]
    /\ Finish(r)
    /\ UNCHANGED refused

\* The member is verified and the row marked, in one transaction.
ApplyLink(r) ==
    /\ req[r].pc = "apply"
    /\ verified' = TRUE
    /\ link' = [link EXCEPT ![req[r].link].used = TRUE]
    /\ Finish(r)
    /\ UNCHANGED refused

\* 48 hours pass.
Expire(l) ==
    /\ link[l].issued /\ ~link[l].expired
    /\ link' = [link EXCEPT ![l].expired = TRUE]
    /\ UNCHANGED <<verified, req, refused>>

LoseRequest(r) ==
    /\ req[r] # Idle
    /\ Finish(r)
    /\ UNCHANGED <<verified, link, refused>>

Step(r) ==
    \/ CheckUnverified(r) \/ IssueLink(r) \/ OpenLink(r) \/ ApplyLink(r)
    \/ LoseRequest(r)

Next ==
    \/ \E r \in Request : Step(r)
    \/ \E l \in Link : Expire(l)

Spec == Init /\ [][Next]_vars

-------------------------------------------------------------------------------
TypeOK ==
    /\ verified \in BOOLEAN /\ refused \in BOOLEAN
    /\ link \in [Link -> LinkRow]
    /\ req \in [Request -> RequestState]
    /\ \A r \in Request : (req[r].pc = "apply") <=> (req[r].link # None)

\* "Opening the same link twice (a reload, a second click ...) must still
\* confirm, not report an invalid link" (verifyEmailWithToken): nobody who opens
\* a link within its 48 hours is refused, however openings overlap or fail.
LinkConfirms == ~refused
===============================================================================
