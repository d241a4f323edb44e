------------------------------- MODULE TwoFactor -------------------------------
(***************************************************************************)
(* Two-step sign-in of one member (twoFactor.repository.ts): three columns *)
(* of app_user, read by one statement and written by another.  A code      *)
(* stands for the secret of the authenticator it comes from; one that does *)
(* not verify only ends its request.                                       *)
(* updateProfile could write two_factor_enabled as well, but no route      *)
(* passes it one.                                                          *)
(***************************************************************************)
EXTENDS AccountConstants

VARIABLES factor,   \* two_factor_enabled, _secret and _pending_secret
          req,      \* the requests in flight
          history   \* what the property refers to

vars == <<factor, req, history>>

Factor == [enabled : BOOLEAN, secret : Secret \cup {None}, pending : Secret \cup {None}]

\* enrol: confirmTwoFactorSetup has verified a code; disable: disableTwoFactor has.
RequestStep == {"idle", "enrol", "disable"}

\* proven: secrets a code was verified for; torn: requests that verified a
\* secret which is not the pending one any more; shaky: such a request switched
\* two-step sign-in on.
History == [proven : SUBSET Secret, torn : SUBSET Request, shaky : BOOLEAN]

Off == [enabled |-> FALSE, secret |-> None, pending |-> None]

Init ==
    /\ factor = Off
    /\ req = [r \in Request |-> "idle"]
    /\ history = [proven |-> {}, torn |-> {}, shaky |-> FALSE]

-------------------------------------------------------------------------------
Goto(r, pc) == req' = [req EXCEPT ![r] = pc]

\* The requests other than r that have verified the pending secret.
Enrolling(r) == {q \in Request \ {r} : req[q] = "enrol"}

\* generateTotpSecret draws one nobody has seen.
Fresh(s) == s \notin history.proven \cup {factor.secret, factor.pending}

BeginSetup(r) ==
    /\ req[r] = "idle"
    /\ \E s \in Secret : Fresh(s) /\ factor' = [factor EXCEPT !.pending = s]
    /\ history' = [history EXCEPT !.torn = @ \cup Enrolling(r)]
    /\ UNCHANGED req

\* Mutation of VerifySetup: an enrolment that was not begun is not refused.
VerifySetup_Any(r) ==
    /\ req[r] = "idle"
    /\ history' = [history EXCEPT !.proven = @ \cup ({factor.pending} \ {None})]
    /\ Goto(r, "enrol")
    /\ UNCHANGED factor

\* confirmTwoFactorSetup: the row is read and the code verified.
VerifySetup(r) ==
    /\ req[r] = "idle" /\ factor.pending # None
    /\ history' = [history EXCEPT !.proven = @ \cup {factor.pending}]
    /\ Goto(r, "enrol")
    /\ UNCHANGED factor

\* Its UPDATE takes whatever is pending by then.
EnableFactor(r) ==
    /\ req[r] = "enrol"
    /\ factor' = [enabled |-> TRUE, secret |-> factor.pending, pending |-> None]
    /\ history' = [history EXCEPT !.shaky = r \in history.torn,
                                  !.torn = (@ \ {r}) \cup Enrolling(r)]
    /\ Goto(r, "idle")

\* disableTwoFactor: the row is read; a code is verified if there is a secret to
\* verify it by.
VerifyDisable(r) ==
    /\ req[r] = "idle"
    /\ Goto(r, "disable")
    /\ UNCHANGED <<factor, history>>

\* resetTwoFactor.
SwitchOff(r) ==
    /\ factor' = Off
    /\ history' = [history EXCEPT !.shaky = FALSE, !.torn = @ \cup Enrolling(r)]

DisableFactor(r) ==
    /\ req[r] = "disable"
    /\ SwitchOff(r)
    /\ Goto(r, "idle")

\* A super administrator resets a colleague's.
AdminReset(r) ==
    /\ req[r] = "idle"
    /\ SwitchOff(r)
    /\ UNCHANGED req

\* deleteOwnAccount switches it off and leaves the secrets.
EraseMember(r) ==
    /\ req[r] = "idle"
    /\ factor' = [factor EXCEPT !.enabled = FALSE]
    /\ UNCHANGED <<req, history>>

\* A request ends between its two statements.
LoseRequest(r) ==
    /\ req[r] # "idle"
    /\ history' = [history EXCEPT !.torn = @ \ {r}]
    /\ Goto(r, "idle")
    /\ UNCHANGED factor

Step(r) ==
    \/ BeginSetup(r) \/ VerifySetup(r) \/ EnableFactor(r)
    \/ VerifyDisable(r) \/ DisableFactor(r) \/ AdminReset(r)
    \/ EraseMember(r) \/ LoseRequest(r)

Next == \E r \in Request : Step(r)

Spec == Init /\ [][Next]_vars

\* assertSecondFactor: a sign-in is asked for a code.
AsksForCode == factor.enabled /\ factor.secret # None

-------------------------------------------------------------------------------
TypeOK ==
    /\ factor \in Factor
    /\ req \in [Request -> RequestStep]
    /\ history \in History

\* "a fresh secret is stored as pending until a code proves the app has it"
\* (beginTwoFactorSetup): whatever overlaps, a member is asked for codes of an
\* authenticator that has proved itself, unless the pending secret changed
\* between the proof and the UPDATE that stores it.
EnabledIsProven ==
    factor.enabled /\ ~history.shaky => factor.secret \in history.proven

\* "required (with a valid code) for everyone who has" enabled it
\* (accounts.routes.ts): refuted when one setup is confirmed twice at once.
EnabledAsksForCode == factor.enabled => AsksForCode
===============================================================================
