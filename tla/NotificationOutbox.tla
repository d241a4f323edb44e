--------------------------- MODULE NotificationOutbox ---------------------------
(***************************************************************************)
(* The queue of mails (notifications.repository.ts) and the runs that      *)
(* drain it (dispatcher.ts, mailer.ts).  A run is started by the timer and *)
(* by the routes that want a mail out at once, and nobody waits for the    *)
(* run before: several drain the queue together.  SMTP is configured and   *)
(* MAIL_DRY_RUN is off.                                                    *)
(***************************************************************************)
EXTENDS Naturals, FiniteSets

CONSTANTS Mail,         \* rows of notification_outbox
          Run,          \* runs of dispatchQueuedEmails at the same time
          BatchSize,    \* MAIL_BATCH_SIZE
          MaxAttempts,  \* MAIL_MAX_ATTEMPTS
          MaxRequeues,  \* bound: times an administrator puts a mail back
          MaxExcused,   \* bound: lost answers and marks of one mail
          Env,          \* what the environment may do
          None

EnvNames == {"answerLost",  \* the mail server takes a mail, its answer is lost
             "dbDown",      \* a statement after the delivery fails
             "crash"}       \* the process stops while a run is under way

ASSUME OutboxAssumption ==
    /\ BatchSize \in Nat \ {0} /\ MaxAttempts \in Nat \ {0} /\ MaxRequeues \in Nat
    /\ MaxExcused \in Nat
    /\ Env \subseteq EnvNames
    /\ None \notin Mail
    /\ IsFiniteSet(Run)

VARIABLES mail,       \* the notification_outbox table
          run,        \* the runs in flight
          delivered,  \* mails the server has taken (external)
          history     \* what happened to a row, for the properties

vars == <<mail, run, delivered, history>>

(***************************************************************************)
(* due: next_attempt_at is null or has passed.                             *)
(***************************************************************************)
MailRow == [status : {"none", "queued", "sending", "sent", "failed"},
            attempts : Nat, due : BOOLEAN]

(***************************************************************************)
(* todo: the rows the run claimed and has not come to yet; cur: the one it *)
(* works on; attempt: what each claim returned as its number of attempts.  *)
(***************************************************************************)
RunState == [pc : {"idle", "next", "mark", "fail"}, todo : SUBSET Mail,
             cur : Mail \cup {None}, attempt : [Mail -> Nat]]

\* requeued: times put back by hand; excused: answers and marks that were lost;
\* stranded: the run that held the row is gone.
History == [requeued : Nat, excused : Nat, stranded : BOOLEAN]

NoAttempts == [m \in Mail |-> 0]
IdleRun    == [pc |-> "idle", todo |-> {}, cur |-> None, attempt |-> NoAttempts]

TypeOK ==
    /\ mail \in [Mail -> MailRow]
    /\ run \in [Run -> RunState]
    /\ \A d \in Run : run[d].pc \in {"mark", "fail"} <=> run[d].cur # None
    /\ delivered \in [Mail -> Nat]
    /\ history \in [Mail -> History]

Init ==
    /\ mail = [m \in Mail |-> [status |-> "none", attempts |-> 0, due |-> TRUE]]
    /\ run = [d \in Run |-> IdleRun]
    /\ delivered = [m \in Mail |-> 0]
    /\ history = [m \in Mail |-> [requeued |-> 0, excused |-> 0, stranded |-> FALSE]]

-------------------------------------------------------------------------------
At(d, pc) == run[d].pc = pc

\* The rows a run has claimed and not written an outcome for.
Held(d) == run[d].todo \cup ({run[d].cur} \ {None})

Excuse(m) ==
    /\ history[m].excused < MaxExcused
    /\ history' = [history EXCEPT ![m].excused = @ + 1]

QueueNotification(m) ==
    /\ mail[m].status = "none"
    /\ mail' = [mail EXCEPT ![m].status = "queued"]
    /\ UNCHANGED <<run, delivered, history>>

\* Mutation of Claimable: rows that another run is sending are taken as well.
Claimable_Sending == {m \in Mail : mail[m].status \in {"queued", "sending"} /\ mail[m].due}

Claimable == {m \in Mail : mail[m].status = "queued" /\ mail[m].due}

\* Mutation of Claimed: the attempt is not counted.
Claimed_Uncounted(row) == [row EXCEPT !.status = "sending"]

Claimed(row) == [row EXCEPT !.status = "sending", !.attempts = @ + 1]

\* One statement with SKIP LOCKED.  It takes the oldest rows; which these are
\* makes no difference here.
ClaimBatch(d) ==
    /\ At(d, "idle")
    /\ \E B \in SUBSET Claimable :
         /\ B # {}
         /\ Cardinality(B) = BatchSize \/ (B = Claimable /\ Cardinality(B) < BatchSize)
         /\ mail' = [m \in Mail |-> IF m \in B THEN Claimed(mail[m]) ELSE mail[m]]
         /\ run' = [run EXCEPT ![d] =
                      [pc |-> "next", todo |-> B, cur |-> None,
                       attempt |-> [m \in Mail |-> IF m \in B THEN Claimed(mail[m]).attempts ELSE 0]]]
    /\ UNCHANGED <<delivered, history>>

EndRun(d) ==
    /\ At(d, "next") /\ run[d].todo = {}
    /\ run' = [run EXCEPT ![d] = IdleRun]
    /\ UNCHANGED <<mail, delivered, history>>

\* Mutation of Leave: the run still names the row it is through with.
Leave_Keeps(d) == run' = [run EXCEPT ![d].pc = "next"]

\* The run is through with the row it works on.
Leave(d) == run' = [run EXCEPT ![d].pc = "next", ![d].cur = None, ![d].attempt[run[d].cur] = 0]

Take(d, m, pc) == run' = [run EXCEPT ![d].pc = pc, ![d].cur = m, ![d].todo = @ \ {m}]

\* Mutation of SendMail: an error of the mail server does not reach the run.
SendMail_Swallowed(d) ==
    \E m \in run[d].todo :
        /\ At(d, "next")
        /\ Take(d, m, "mark")
        /\ delivered' \in {delivered, [delivered EXCEPT ![m] = @ + 1]}
        /\ UNCHANGED <<mail, history>>

\* The server takes the mail or sendMail throws; after a time-out it may have
\* done both.
SendMail(d) ==
    \E m \in run[d].todo :
        /\ At(d, "next")
        /\ \/ /\ Take(d, m, "mark")
              /\ delivered' = [delivered EXCEPT ![m] = @ + 1]
              /\ UNCHANGED history
           \/ Take(d, m, "fail") /\ UNCHANGED <<delivered, history>>
           \/ /\ "answerLost" \in Env
              /\ Take(d, m, "fail")
              /\ delivered' = [delivered EXCEPT ![m] = @ + 1]
              /\ Excuse(m)
        /\ UNCHANGED mail

\* The UPDATE is inside the try: when it fails the mail counts as not sent.
MarkSent(d) ==
    LET m == run[d].cur IN
    /\ At(d, "mark")
    /\ \/ /\ mail' = [mail EXCEPT ![m].status = "sent"]
          /\ Leave(d)
          /\ UNCHANGED history
       \/ /\ "dbDown" \in Env
          /\ run' = [run EXCEPT ![d].pc = "fail"]
          /\ Excuse(m)
          /\ UNCHANGED mail
    /\ UNCHANGED delivered

\* The number of attempts is the one this run's claim returned.
GivesUp(d) == run[d].attempt[run[d].cur] >= MaxAttempts

MarkFailed(d) ==
    LET m == run[d].cur IN
    /\ At(d, "fail")
    /\ mail' = [mail EXCEPT ![m].status = IF GivesUp(d) THEN "failed" ELSE "queued",
                            ![m].due = GivesUp(d)]
    /\ Leave(d)
    /\ UNCHANGED <<delivered, history>>

BackoffElapses(m) ==
    /\ ~mail[m].due
    /\ mail' = [mail EXCEPT ![m].due = TRUE]
    /\ UNCHANGED <<run, delivered, history>>

\* requeueNotification has no condition on the status.
RequeueNotification(m) ==
    /\ mail[m].status # "none" /\ history[m].requeued < MaxRequeues
    /\ mail' = [mail EXCEPT ![m] = [status |-> "queued", attempts |-> 0, due |-> TRUE]]
    /\ history' = [history EXCEPT ![m].requeued = @ + 1, ![m].stranded = FALSE]
    /\ UNCHANGED <<run, delivered>>

\* The process stops, or the UPDATE that records a failure fails itself and the
\* exception leaves the loop: nothing returns to the rows of this run.
LoseRun(d) ==
    /\ ~At(d, "idle")
    /\ "crash" \in Env \/ ("dbDown" \in Env /\ At(d, "fail"))
    /\ At(d, "mark") => history[run[d].cur].excused < MaxExcused
    /\ run' = [run EXCEPT ![d] = IdleRun]
    /\ history' = [m \in Mail |-> [history[m] EXCEPT !.stranded = @ \/ m \in Held(d),
                                     !.excused = IF At(d, "mark") /\ m = run[d].cur THEN @ + 1 ELSE @]]
    /\ UNCHANGED <<mail, delivered>>

RunStep(d) == ClaimBatch(d) \/ EndRun(d) \/ SendMail(d) \/ MarkSent(d) \/ MarkFailed(d)

Next ==
    \/ \E d \in Run : RunStep(d) \/ LoseRun(d)
    \/ \E m \in Mail : QueueNotification(m) \/ BackoffElapses(m) \/ RequeueNotification(m)

Spec == Init /\ [][Next]_vars

\* The timer starts a run every MAIL_POLL_SECONDS, every step of a run ends (the
\* mail server has time-outs) and time passes.
FairSpec ==
    /\ Spec
    /\ \A d \in Run : WF_vars(RunStep(d))
    /\ \A m \in Mail : WF_vars(BackoffElapses(m))

-------------------------------------------------------------------------------
(* Properties                                                              *)

\* "Claim rows so two workers never send the same message twice"
\* (dispatchQueuedEmails): a mail nobody put back by hand belongs to one run at a
\* time, and it is not up for another claim as long as that run has it.
OneSender ==
    \A m \in Mail : history[m].requeued = 0 =>
        /\ \A d, e \in Run : m \in Held(d) \cap Held(e) => d = e
        /\ (\E d \in Run : m \in Held(d)) => mail[m].status = "sending"

\* A member gets one mail for one row, and one more at most for each time it was
\* put back by hand and each answer or mark that was lost.
DuplicatesAreExplained ==
    \A m \in Mail : delivered[m] <= 1 + history[m].requeued + history[m].excused

\* No row says sent without the mail server having taken the mail.
SentMeansDelivered == \A m \in Mail : mail[m].status = "sent" => delivered[m] > 0

\* Every mail is accounted for: one run has it, a second copy has a reason, and none
\* is called sent that the mail server did not take.
MailIsAccountedFor == TypeOK /\ OneSender /\ DuplicatesAreExplained /\ SentMeansDelivered

\* "Claim rows so two workers never send the same message twice", also for a mail
\* that is put back by hand, which the model refutes (see the README).
NeverTwoSenders ==
    \A m \in Mail, d, e \in Run : m \in Held(d) \cap Held(e) => d = e

\* "this worker turns queued rows into SMTP messages, marks them sent, and retries
\* failures [...] up to MAIL_MAX_ATTEMPTS" (dispatcher.ts): a queued mail is sent
\* or given up, unless the run that held it is gone.
MailSettles ==
    \A m \in Mail : mail[m].status = "queued"
                        ~> (mail[m].status \in {"sent", "failed"} \/ history[m].stranded)
===============================================================================
