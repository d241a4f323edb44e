------------------------ MODULE NotificationOutboxProofs ------------------------
(***************************************************************************)
(* Theorems about the queue of mails and the runs that drain it, for any   *)
(* number of mails and of runs, any batch and any number of attempts, and  *)
(* whatever the environment may do.                                        *)
(***************************************************************************)
EXTENDS NotificationOutbox, FiniteSetTheorems, TLAPS

\* The runs that may still hand a mail to the server before its row is written.
Senders(m) == {d \in Run : m \in run[d].todo \/ (run[d].pc = "fail" /\ run[d].cur = m)}

\* Whether the row is still up for a first or another claim.
Waiting(m) == IF mail[m].status \in {"none", "queued"} THEN 1 ELSE 0

\* A run works on a row it has taken from those it claimed, and a row it is to mark
\* was delivered.
RunsAreSound ==
    \A d \in Run : /\ run[d].cur \notin run[d].todo
                   /\ run[d].pc = "mark" => delivered[run[d].cur] > 0
                   /\ run[d].pc = "idle" => run[d].todo = {}

\* A mail that was delivered or may be, by who has it or by a claim to come, was
\* meant to, put back or excused: strengthens DuplicatesAreExplained.
DeliveriesAreBounded ==
    \A m \in Mail :
        delivered[m] + Cardinality(Senders(m)) + Waiting(m) <= 1 + history[m].requeued + history[m].excused

\* The inductive invariant.
OutboxInv ==
    /\ TypeOK /\ RunsAreSound /\ OneSender /\ DeliveriesAreBounded /\ SentMeansDelivered

-------------------------------------------------------------------------------
\* Who may still send a mail is finitely many.
LEMMA SendersAreFinite == \A m : IsFiniteSet(Senders(m)) /\ Cardinality(Senders(m)) \in Nat
  <1> SUFFICES ASSUME NEW m PROVE IsFiniteSet(Senders(m)) /\ Cardinality(Senders(m)) \in Nat
    OBVIOUS
  <1>1. Senders(m) \in SUBSET Run
    BY DEF Senders
  <1>2. IsFiniteSet(Senders(m))
    BY <1>1, FS_Subset, OutboxAssumption
  <1> QED BY <1>2, FS_CardinalityType

\* No row, no run, no mail.
LEMMA OutboxInit == Init => OutboxInv
  <1> SUFFICES ASSUME Init PROVE OutboxInv
    OBVIOUS
  <1>1. TypeOK
    BY OutboxAssumption DEF Init, TypeOK, MailRow, RunState, History, IdleRun, NoAttempts
  <1>2. RunsAreSound
    BY DEF Init, RunsAreSound, IdleRun
  <1>3. OneSender
    BY DEF Init, OneSender, IdleRun, Held
  <1>4. \A m \in Mail : Senders(m) = {}
    BY DEF Init, Senders, IdleRun
  <1>5. DeliveriesAreBounded
    <2> SUFFICES ASSUME NEW m \in Mail
                 PROVE  delivered[m] + Cardinality(Senders(m)) + Waiting(m)
                            <= 1 + history[m].requeued + history[m].excused
      BY DEF DeliveriesAreBounded
    <2>1. Cardinality(Senders(m)) = 0
      BY <1>4, FS_EmptySet
    <2> QED BY <2>1 DEF Init, Waiting
  <1>6. SentMeansDelivered
    BY DEF Init, SentMeansDelivered
  <1> QED BY <1>1, <1>2, <1>3, <1>5, <1>6 DEF OutboxInv

\* What a step of one run does to the senders of a mail.
LEMMA SendersChange ==
    ASSUME NEW d \in Run, NEW m, \A e \in Run \ {d} : run'[e] = run[e]
    PROVE  /\ d \in Senders(m) /\ d \notin Senders(m)' => Cardinality(Senders(m)') = Cardinality(Senders(m)) - 1
           /\ d \notin Senders(m) /\ d \in Senders(m)' => Cardinality(Senders(m)') = Cardinality(Senders(m)) + 1
           /\ (d \in Senders(m) <=> d \in Senders(m)') => Cardinality(Senders(m)') = Cardinality(Senders(m))
           /\ Cardinality(Senders(m)') \in Nat
  <1>1. IsFiniteSet(Senders(m)) /\ Cardinality(Senders(m)) \in Nat
    BY SendersAreFinite
  <1>2. \A e \in Run \ {d} : e \in Senders(m) <=> e \in Senders(m)'
    BY DEF Senders
  <1>3. Senders(m) \subseteq Run /\ Senders(m)' \subseteq Run
    BY DEF Senders
  <1>4. CASE d \in Senders(m) /\ d \notin Senders(m)'
    <2>1. Senders(m)' = Senders(m) \ {d} /\ Senders(m) # {}
      BY <1>2, <1>3, <1>4
    <2>2. IsFiniteSet(Senders(m)') /\ Cardinality(Senders(m)') = Cardinality(Senders(m)) - 1
      BY <1>1, <1>4, <2>1, FS_RemoveElement
    <2>3. Cardinality(Senders(m)') \in Nat
      BY <2>2, FS_CardinalityType
    <2> QED BY <1>4, <2>2, <2>3
  <1>5. CASE d \notin Senders(m) /\ d \in Senders(m)'
    <2>1. Senders(m)' = Senders(m) \cup {d}
      BY <1>2, <1>3, <1>5
    <2>2. Cardinality(Senders(m)') = Cardinality(Senders(m)) + 1
      BY <1>1, <1>5, <2>1, FS_AddElement
    <2> QED BY <1>1, <1>5, <2>2
  <1>6. CASE d \in Senders(m) <=> d \in Senders(m)'
    <2>1. Senders(m)' = Senders(m)
      BY <1>2, <1>3, <1>6
    <2> QED BY <1>1, <1>6, <2>1
  <1> QED BY <1>4, <1>5, <1>6

\* A step that leaves the runs alone leaves the senders alone.
LEMMA SendersStay == \A m : UNCHANGED run => Senders(m)' = Senders(m)
  BY DEF Senders

\* The type of a row, of a run and of a history.
LEMMA Typed ==
    ASSUME OutboxInv
    PROVE  /\ \A m \in Mail : /\ mail[m].status \in {"none", "queued", "sending", "sent", "failed"}
                              /\ mail[m].attempts \in Nat /\ mail[m].due \in BOOLEAN
                              /\ delivered[m] \in Nat
                              /\ history[m].requeued \in Nat /\ history[m].excused \in Nat
                              /\ history[m].stranded \in BOOLEAN
           /\ \A d \in Run : /\ run[d].pc \in {"idle", "next", "mark", "fail"}
                             /\ run[d].todo \in SUBSET Mail
                             /\ run[d].pc \in {"mark", "fail"} => run[d].cur \in Mail
                             /\ run[d].pc \in {"idle", "next"} => run[d].cur = None
                             /\ run[d].attempt \in [Mail -> Nat]
  BY DEF OutboxInv, TypeOK, MailRow, RunState, History

-------------------------------------------------------------------------------
(* The rows on their own                                                   *)

\* A mail is queued, and its time comes.
LEMMA QueueStep ==
    ASSUME OutboxInv, NEW m \in Mail, QueueNotification(m) \/ BackoffElapses(m) PROVE OutboxInv'
  <1>1. UNCHANGED <<run, delivered, history>>
    BY DEF QueueNotification, BackoffElapses
  <1>2. /\ mail' \in [Mail -> MailRow]
        /\ \A n \in Mail \ {m} : mail'[n] = mail[n]
        /\ mail'[m].status # mail[m].status => mail[m].status = "none" /\ mail'[m].status = "queued"
    BY ZenonT(40) DEF QueueNotification, BackoffElapses, OutboxInv, TypeOK, MailRow
  <1>3. TypeOK'
    BY <1>1, <1>2 DEF OutboxInv, TypeOK
  <1>4. RunsAreSound'
    BY <1>1 DEF OutboxInv, RunsAreSound
  <1>5. OneSender'
    BY <1>1, <1>2 DEF OutboxInv, OneSender, Held
  <1>6. \A n \in Mail : Senders(n)' = Senders(n) /\ Waiting(n)' = Waiting(n)
    BY <1>1, <1>2, SendersStay DEF Waiting
  <1>7. DeliveriesAreBounded'
    BY <1>1, <1>6 DEF OutboxInv, DeliveriesAreBounded
  <1>8. SentMeansDelivered'
    BY <1>1, <1>2 DEF OutboxInv, SentMeansDelivered
  <1> QED BY <1>3, <1>4, <1>5, <1>7, <1>8 DEF OutboxInv

\* An administrator puts a mail back, whoever has it.
LEMMA RequeueStep ==
    ASSUME OutboxInv, NEW m \in Mail, RequeueNotification(m) PROVE OutboxInv'
  <1>1. UNCHANGED <<run, delivered>>
    BY DEF RequeueNotification
  <1>2. /\ mail' \in [Mail -> MailRow] /\ mail'[m].status = "queued"
        /\ \A n \in Mail \ {m} : mail'[n] = mail[n]
    BY DEF RequeueNotification, OutboxInv, TypeOK, MailRow
  <1>3. /\ history' \in [Mail -> History]
        /\ history'[m].requeued = history[m].requeued + 1 /\ history'[m].excused = history[m].excused
        /\ \A n \in Mail \ {m} : history'[n] = history[n]
    <2>1. \A h \in History, n \in Nat :
             /\ [h EXCEPT !.requeued = n, !.stranded = FALSE] \in History
             /\ [h EXCEPT !.requeued = n, !.stranded = FALSE].requeued = n
             /\ [h EXCEPT !.requeued = n, !.stranded = FALSE].excused = h.excused
      BY DEF History
    <2>2. history \in [Mail -> History]
      BY DEF OutboxInv, TypeOK
    <2>3. PICK h \in History, n \in Nat : h = history[m] /\ n = h.requeued + 1
      BY <2>2 DEF History
    <2>4. history' = [history EXCEPT ![m] = [h EXCEPT !.requeued = n, !.stranded = FALSE]]
      BY <2>2, <2>3 DEF RequeueNotification
    <2> QED BY <2>1, <2>2, <2>3, <2>4, ZenonT(40)
  <1>4. TypeOK'
    BY <1>1, <1>2, <1>3 DEF OutboxInv, TypeOK
  <1>5. RunsAreSound'
    BY <1>1 DEF OutboxInv, RunsAreSound
  <1>6. OneSender'
    <2>1. history'[m].requeued # 0
      BY <1>3, Typed
    <2> QED BY <1>1, <1>2, <1>3, <2>1 DEF OutboxInv, OneSender, Held
  <1>7. DeliveriesAreBounded'
    <2> SUFFICES ASSUME NEW n \in Mail
                 PROVE  delivered[n] + Cardinality(Senders(n)') + Waiting(n)'
                            <= 1 + history'[n].requeued + history'[n].excused
      BY <1>1 DEF DeliveriesAreBounded
    <2>1. Senders(n)' = Senders(n) /\ Cardinality(Senders(n)) \in Nat
      BY <1>1, SendersStay, SendersAreFinite
    <2>2. delivered[n] + Cardinality(Senders(n)) + Waiting(n) <= 1 + history[n].requeued + history[n].excused
      BY DEF OutboxInv, DeliveriesAreBounded
    <2>3. CASE n = m
      <3>1. Waiting(m)' <= Waiting(m) + 1 /\ Waiting(m) \in {0, 1} /\ Waiting(m)' \in {0, 1}
        BY DEF Waiting
      <3> QED BY <1>3, <2>1, <2>2, <2>3, <3>1, Typed
    <2>4. CASE n # m
      <3>1. Waiting(n)' = Waiting(n)
        BY <1>2, <2>4 DEF Waiting
      <3> QED BY <1>3, <2>1, <2>2, <2>4, <3>1
    <2> QED BY <2>3, <2>4
  <1>8. SentMeansDelivered'
    BY <1>1, <1>2 DEF OutboxInv, SentMeansDelivered
  <1> QED BY <1>4, <1>5, <1>6, <1>7, <1>8 DEF OutboxInv

-------------------------------------------------------------------------------
(* A run                                                                   *)

\* A run claims rows that wait.
LEMMA ClaimStep ==
    ASSUME OutboxInv, NEW d \in Run, ClaimBatch(d) PROVE OutboxInv'
  <1>1. PICK B \in SUBSET Claimable :
           /\ mail' = [m \in Mail |-> IF m \in B THEN Claimed(mail[m]) ELSE mail[m]]
           /\ run' = [run EXCEPT ![d] =
                        [pc |-> "next", todo |-> B, cur |-> None,
                         attempt |-> [m \in Mail |-> IF m \in B THEN Claimed(mail[m]).attempts ELSE 0]]]
    BY DEF ClaimBatch
  <1>2. UNCHANGED <<delivered, history>> /\ run[d].pc = "idle"
    BY DEF ClaimBatch, At
  <1>3. \A m \in Mail : /\ Claimed(mail[m]) \in MailRow /\ Claimed(mail[m]).status = "sending"
                        /\ Claimed(mail[m]).attempts \in Nat
    <2>1. \A row \in MailRow, n \in Nat :
             /\ [row EXCEPT !.status = "sending", !.attempts = n] \in MailRow
             /\ [row EXCEPT !.status = "sending", !.attempts = n].status = "sending"
      BY DEF MailRow
    <2>2. ASSUME NEW m \in Mail
          PROVE  Claimed(mail[m]) \in MailRow /\ Claimed(mail[m]).status = "sending"
      <3>1. PICK row \in MailRow, n \in Nat : row = mail[m] /\ n = row.attempts + 1
        BY DEF OutboxInv, TypeOK, MailRow
      <3>2. Claimed(mail[m]) = [row EXCEPT !.status = "sending", !.attempts = n]
        BY <3>1 DEF Claimed, MailRow
      <3>3. /\ [row EXCEPT !.status = "sending", !.attempts = n] \in MailRow
            /\ [row EXCEPT !.status = "sending", !.attempts = n].status = "sending"
        BY <2>1
      <3> QED BY <3>2, <3>3, Zenon
    <2> QED BY <2>2 DEF MailRow
  <1>4. /\ mail' \in [Mail -> MailRow]
        /\ \A m \in B : mail'[m].status = "sending" /\ mail[m].status = "queued"
        /\ \A m \in Mail \ B : mail'[m] = mail[m]
        /\ B \subseteq Mail
    BY <1>1, <1>3 DEF OutboxInv, TypeOK, Claimable
  <1>5. /\ run' \in [Run -> RunState] /\ run'[d].pc = "next" /\ run'[d].todo = B /\ run'[d].cur = None
        /\ \A e \in Run \ {d} : run'[e] = run[e]
    <2> DEFINE q == [pc |-> "next", todo |-> B, cur |-> None,
                     attempt |-> [m \in Mail |-> IF m \in B THEN Claimed(mail[m]).attempts ELSE 0]]
    <2>1. [m \in Mail |-> IF m \in B THEN Claimed(mail[m]).attempts ELSE 0] \in [Mail -> Nat]
      BY <1>3
    <2>2. q \in RunState
      BY <1>4, <2>1 DEF RunState
    <2>3. q.pc = "next" /\ q.todo = B /\ q.cur = None
      OBVIOUS
    <2>4. run' = [run EXCEPT ![d] = q] /\ run \in [Run -> RunState]
      BY <1>1 DEF OutboxInv, TypeOK
    <2> HIDE DEF q
    <2> QED BY <2>2, <2>3, <2>4
  <1>6. TypeOK'
    BY <1>2, <1>4, <1>5 DEF OutboxInv, TypeOK
  <1>7. RunsAreSound'
    <2>1. None \notin B
      BY <1>4, OutboxAssumption
    <2> QED BY <1>2, <1>5, <2>1 DEF OutboxInv, RunsAreSound
  <1>8. Held(d)' = B /\ \A e \in Run \ {d} : Held(e)' = Held(e)
    BY <1>5 DEF Held
  <1>9. OneSender'
    <2> SUFFICES ASSUME NEW m \in Mail, history[m].requeued = 0
                 PROVE  /\ \A e, f \in Run : m \in Held(e)' \cap Held(f)' => e = f
                        /\ (\E e \in Run : m \in Held(e)') => mail'[m].status = "sending"
      BY <1>2 DEF OneSender
    <2>1. CASE m \in B
      <3>1. \A e \in Run : m \notin Held(e)
        BY <1>4, <2>1 DEF OutboxInv, OneSender
      <3> QED BY <1>4, <1>8, <2>1, <3>1
    <2>2. CASE m \notin B
      <3>1. \A e \in Run : m \in Held(e)' => m \in Held(e)
        BY <1>8, <2>2
      <3> QED BY <1>4, <2>2, <3>1 DEF OutboxInv, OneSender
    <2> QED BY <2>1, <2>2
  <1>10. DeliveriesAreBounded'
    <2> SUFFICES ASSUME NEW m \in Mail
                 PROVE  delivered[m] + Cardinality(Senders(m)') + Waiting(m)'
                            <= 1 + history[m].requeued + history[m].excused
      BY <1>2 DEF DeliveriesAreBounded
    <2>1. d \notin Senders(m) /\ (d \in Senders(m)' <=> m \in B)
      BY <1>2, <1>5 DEF Senders, OutboxInv, RunsAreSound
    <2>2. delivered[m] + Cardinality(Senders(m)) + Waiting(m) <= 1 + history[m].requeued + history[m].excused
      BY DEF OutboxInv, DeliveriesAreBounded
    <2>3. CASE m \in B
      <3>1. Waiting(m) = 1 /\ Waiting(m)' = 0
        BY <1>4, <2>3 DEF Waiting
      <3>2. Cardinality(Senders(m)') = Cardinality(Senders(m)) + 1 /\ Cardinality(Senders(m)) \in Nat
        BY <1>5, <2>1, <2>3, SendersChange, SendersAreFinite
      <3> QED BY <2>2, <3>1, <3>2, Typed
    <2>4. CASE m \notin B
      <3>1. Waiting(m)' = Waiting(m)
        BY <1>4, <2>4 DEF Waiting
      <3>2. Cardinality(Senders(m)') = Cardinality(Senders(m))
        BY <1>5, <2>1, <2>4, SendersChange
      <3> QED BY <2>2, <3>1, <3>2
    <2> QED BY <2>3, <2>4
  <1>11. SentMeansDelivered'
    BY <1>2, <1>4 DEF OutboxInv, SentMeansDelivered
  <1> QED BY <1>6, <1>7, <1>9, <1>10, <1>11 DEF OutboxInv

\* What leaves the runs, the rows and the deliveries of a mail alone, but for one run
\* that lets go of what it has of it.
LEMMA LetGo ==
    ASSUME OutboxInv, NEW d \in Run, \A e \in Run \ {d} : run'[e] = run[e],
           run'[d].todo \subseteq run[d].todo, run'[d].cur \in {None, run[d].cur},
           NEW m \in Mail, mail'[m] = mail[m], history'[m].requeued = history[m].requeued
    PROVE  history'[m].requeued = 0 =>
               /\ \A e, f \in Run : m \in Held(e)' \cap Held(f)' => e = f
               /\ (\E e \in Run : m \in Held(e)') => mail'[m].status = "sending"
  <1>1. \A e \in Run : m \in Held(e)' => m \in Held(e)
    BY DEF Held
  <1> QED BY <1>1 DEF OutboxInv, OneSender

\* A run that is through ends.
LEMMA EndStep == ASSUME OutboxInv, NEW d \in Run, EndRun(d) PROVE OutboxInv'
  <1>1. run' = [run EXCEPT ![d] = IdleRun] /\ UNCHANGED <<mail, delivered, history>>
        /\ run[d].todo = {} /\ run[d].pc = "next"
    BY DEF EndRun, At
  <1>2. IdleRun \in RunState /\ IdleRun.pc = "idle" /\ IdleRun.todo = {} /\ IdleRun.cur = None
    BY DEF IdleRun, RunState, NoAttempts
  <1>3. run' \in [Run -> RunState] /\ run'[d] = IdleRun /\ \A e \in Run \ {d} : run'[e] = run[e]
    BY <1>1, <1>2 DEF OutboxInv, TypeOK
  <1>4. TypeOK'
    BY <1>1, <1>2, <1>3 DEF OutboxInv, TypeOK
  <1>5. RunsAreSound'
    BY <1>1, <1>2, <1>3 DEF OutboxInv, RunsAreSound
  <1>6. OneSender'
    BY <1>1, <1>2, <1>3, LetGo DEF OneSender
  <1>7. \A m \in Mail : d \notin Senders(m) /\ d \notin Senders(m)'
    BY <1>1, <1>2, <1>3 DEF Senders
  <1>8. \A m \in Mail : Cardinality(Senders(m)') = Cardinality(Senders(m)) /\ Waiting(m)' = Waiting(m)
    BY <1>1, <1>3, <1>7, SendersChange DEF Waiting
  <1>9. DeliveriesAreBounded'
    BY <1>1, <1>8 DEF OutboxInv, DeliveriesAreBounded
  <1>10. SentMeansDelivered'
    BY <1>1 DEF OutboxInv, SentMeansDelivered
  <1> QED BY <1>4, <1>5, <1>6, <1>9, <1>10 DEF OutboxInv

\* A run takes the next of its rows.
LEMMA TakeRow ==
    ASSUME OutboxInv, NEW d \in Run, NEW m \in run[d].todo, NEW pc \in {"mark", "fail"},
           run[d].pc = "next", Take(d, m, pc)
    PROVE  /\ run' \in [Run -> RunState] /\ run'[d].pc = pc /\ run'[d].cur = m
           /\ run'[d].todo = run[d].todo \ {m} /\ \A e \in Run \ {d} : run'[e] = run[e]
           /\ \A n : n \in Held(d)' <=> n \in Held(d)
           /\ m \in Mail
  <1>1. m \in Mail /\ run \in [Run -> RunState] /\ run[d].cur = None
    BY Typed DEF OutboxInv, TypeOK
  <1>2. \A q \in RunState :
           /\ [q EXCEPT !.pc = pc, !.cur = m, !.todo = q.todo \ {m}] \in RunState
           /\ [q EXCEPT !.pc = pc, !.cur = m, !.todo = q.todo \ {m}].pc = pc
           /\ [q EXCEPT !.pc = pc, !.cur = m, !.todo = q.todo \ {m}].cur = m
           /\ [q EXCEPT !.pc = pc, !.cur = m, !.todo = q.todo \ {m}].todo = q.todo \ {m}
    BY <1>1 DEF RunState
  <1>3. PICK q \in RunState : q = run[d]
    BY <1>1
  <1>4. run' = [run EXCEPT ![d] = [q EXCEPT !.pc = pc, !.cur = m, !.todo = q.todo \ {m}]]
    BY <1>1, <1>3 DEF Take
  <1>5. /\ run' \in [Run -> RunState] /\ run'[d].pc = pc /\ run'[d].cur = m
        /\ run'[d].todo = run[d].todo \ {m} /\ \A e \in Run \ {d} : run'[e] = run[e]
    BY <1>1, <1>2, <1>3, <1>4
  <1>6. \A n : n \in Held(d)' <=> n \in Held(d)
    BY <1>1, <1>5, OutboxAssumption DEF Held
  <1> QED BY <1>1, <1>5, <1>6

\* The server takes the mail, refuses it, or takes it and its answer is lost.
LEMMA SendStep == ASSUME OutboxInv, NEW d \in Run, SendMail(d) PROVE OutboxInv'
  <1>1. PICK m \in run[d].todo, pc \in {"mark", "fail"} :
           /\ run[d].pc = "next" /\ mail' = mail /\ Take(d, m, pc)
           /\ \/ /\ pc = "mark" /\ delivered' = [delivered EXCEPT ![m] = @ + 1] /\ history' = history
              \/ pc = "fail" /\ UNCHANGED <<delivered, history>>
              \/ pc = "fail" /\ delivered' = [delivered EXCEPT ![m] = @ + 1] /\ Excuse(m)
    BY DEF SendMail, At
  <1>2. /\ run' \in [Run -> RunState] /\ run'[d].pc = pc /\ run'[d].cur = m
        /\ run'[d].todo = run[d].todo \ {m} /\ \A e \in Run \ {d} : run'[e] = run[e]
        /\ \A n : n \in Held(d)' <=> n \in Held(d)
        /\ m \in Mail
    BY <1>1, TakeRow
  <1>3. /\ history' \in [Mail -> History]
        /\ \A n \in Mail : /\ history'[n].requeued = history[n].requeued
                           /\ n # m => history'[n] = history[n]
        /\ Excuse(m) => history'[m].excused = history[m].excused + 1
    BY <1>1, <1>2 DEF Excuse, OutboxInv, TypeOK, History
  <1>4. /\ delivered' \in [Mail -> Nat]
        /\ \A n \in Mail : delivered'[n] >= delivered[n] /\ (n # m => delivered'[n] = delivered[n])
        /\ delivered' = [delivered EXCEPT ![m] = @ + 1] => delivered'[m] = delivered[m] + 1
    BY <1>1, <1>2, Typed DEF OutboxInv, TypeOK
  <1>5. TypeOK'
    <2>1. \A e \in Run : run'[e].pc \in {"mark", "fail"} <=> run'[e].cur # None
      BY <1>2, OutboxAssumption DEF OutboxInv, TypeOK
    <2> QED BY <1>1, <1>2, <1>3, <1>4, <2>1 DEF OutboxInv, TypeOK
  <1>6. RunsAreSound'
    <2>1. pc = "mark" => delivered'[m] > 0
      BY <1>1, <1>2, <1>4, Typed
    <2>2. ASSUME NEW e \in Run \ {d}, run[e].pc = "mark" PROVE delivered'[run[e].cur] > 0
      <3>1. run[e].cur \in Mail /\ delivered[run[e].cur] > 0
        BY <2>2, Typed DEF OutboxInv, RunsAreSound
      <3> QED BY <1>4, <3>1, Typed
    <2> QED BY <1>2, <2>1, <2>2 DEF OutboxInv, RunsAreSound
  <1>7. OneSender'
    <2>1. \A e \in Run, n \in Mail : n \in Held(e)' <=> n \in Held(e)
      BY <1>2 DEF Held
    <2> QED BY <1>1, <1>3, <2>1 DEF OutboxInv, OneSender
  <1>8. DeliveriesAreBounded'
    <2> SUFFICES ASSUME NEW n \in Mail
                 PROVE  delivered'[n] + Cardinality(Senders(n)') + Waiting(n)'
                            <= 1 + history'[n].requeued + history'[n].excused
      BY DEF DeliveriesAreBounded
    <2>1. delivered[n] + Cardinality(Senders(n)) + Waiting(n) <= 1 + history[n].requeued + history[n].excused
      BY DEF OutboxInv, DeliveriesAreBounded
    <2>2. Waiting(n)' = Waiting(n) /\ Waiting(n) \in {0, 1}
      BY <1>1 DEF Waiting
    <2>3. Cardinality(Senders(n)) \in Nat
      BY SendersAreFinite
    <2>4. CASE n # m
      <3>1. d \in Senders(n) <=> d \in Senders(n)'
        BY <1>1, <1>2, <2>4 DEF Senders
      <3>2. Cardinality(Senders(n)') = Cardinality(Senders(n))
        BY <1>2, <3>1, SendersChange
      <3> QED BY <1>3, <1>4, <2>1, <2>2, <2>4, <3>2
    <2>5. CASE n = m /\ pc = "mark"
      <3>1. d \in Senders(m) /\ d \notin Senders(m)'
        BY <1>1, <1>2, <2>5 DEF Senders
      <3>2. Cardinality(Senders(m)') = Cardinality(Senders(m)) - 1
        BY <1>2, <3>1, SendersChange
      <3>3. delivered'[m] = delivered[m] + 1 /\ history'[m].excused = history[m].excused
        BY <1>1, <1>4, <2>5
      <3> QED BY <1>3, <2>1, <2>2, <2>3, <2>5, <3>2, <3>3, Typed
    <2>6. CASE n = m /\ pc = "fail"
      <3>1. d \in Senders(m) /\ d \in Senders(m)'
        BY <1>1, <1>2, <2>6 DEF Senders
      <3>2. Cardinality(Senders(m)') = Cardinality(Senders(m))
        BY <1>2, <3>1, SendersChange
      <3>3. \/ delivered'[m] = delivered[m] /\ history'[m].excused = history[m].excused
            \/ delivered'[m] = delivered[m] + 1 /\ history'[m].excused = history[m].excused + 1
        BY <1>1, <1>3, <1>4, <2>6
      <3> QED BY <1>3, <2>1, <2>2, <2>3, <2>6, <3>2, <3>3, Typed
    <2> QED BY <2>4, <2>5, <2>6
  <1>9. SentMeansDelivered'
    BY <1>1, <1>4, Typed DEF OutboxInv, SentMeansDelivered
  <1> QED BY <1>5, <1>6, <1>7, <1>8, <1>9 DEF OutboxInv

\* A run is through with the row it works on.
LEMMA LeaveRow ==
    ASSUME OutboxInv, NEW d \in Run, run[d].pc \in {"mark", "fail"}, Leave(d)
    PROVE  /\ run' \in [Run -> RunState] /\ run'[d].pc = "next" /\ run'[d].cur = None
           /\ run'[d].todo = run[d].todo /\ \A e \in Run \ {d} : run'[e] = run[e]
           /\ \A n \in Mail : n \in Held(d)' <=> n \in Held(d) /\ n # run[d].cur
           /\ run[d].cur \in Mail /\ run[d].cur \in Held(d)
  <1>1. run \in [Run -> RunState] /\ run[d].cur \in Mail /\ run[d].attempt \in [Mail -> Nat]
    BY Typed DEF OutboxInv, TypeOK
  <1>2. PICK c \in Mail, q \in RunState, a \in [Mail -> Nat] :
           c = run[d].cur /\ q = run[d] /\ a = [run[d].attempt EXCEPT ![run[d].cur] = 0]
    BY <1>1
  <1>3. \A z \in RunState :
           /\ [z EXCEPT !.pc = "next", !.cur = None, !.attempt = a] \in RunState
           /\ [z EXCEPT !.pc = "next", !.cur = None, !.attempt = a].pc = "next"
           /\ [z EXCEPT !.pc = "next", !.cur = None, !.attempt = a].cur = None
           /\ [z EXCEPT !.pc = "next", !.cur = None, !.attempt = a].todo = z.todo
    BY DEF RunState
  <1>4. run' = [run EXCEPT ![d] = [q EXCEPT !.pc = "next", !.cur = None, !.attempt = a]]
    BY <1>1, <1>2 DEF Leave, RunState
  <1>5. /\ run' \in [Run -> RunState] /\ run'[d].pc = "next" /\ run'[d].cur = None
        /\ run'[d].todo = run[d].todo /\ \A e \in Run \ {d} : run'[e] = run[e]
    BY <1>1, <1>2, <1>3, <1>4
  <1>6. run[d].cur \notin run[d].todo
    BY DEF OutboxInv, RunsAreSound
  <1>7. /\ \A n \in Mail : n \in Held(d)' <=> n \in Held(d) /\ n # run[d].cur
        /\ run[d].cur \in Held(d)
    BY <1>1, <1>5, <1>6, OutboxAssumption DEF Held
  <1> QED BY <1>1, <1>5, <1>7

\* A row is written by the run that has it: what it says and who else may send it.
LEMMA WriteRow ==
    ASSUME OutboxInv, NEW d \in Run, run[d].pc \in {"mark", "fail"}, Leave(d),
           UNCHANGED <<delivered, history>>, mail' \in [Mail -> MailRow],
           NEW c \in Mail, c = run[d].cur, \A n \in Mail \ {c} : mail'[n] = mail[n],
           run[d].pc = "mark" => mail'[c].status = "sent",
           run[d].pc = "fail" => mail'[c].status \in {"queued", "failed"}
    PROVE  OutboxInv'
  <1>2. /\ run' \in [Run -> RunState] /\ run'[d].pc = "next" /\ run'[d].cur = None
        /\ run'[d].todo = run[d].todo /\ \A e \in Run \ {d} : run'[e] = run[e]
        /\ \A n \in Mail : n \in Held(d)' <=> n \in Held(d) /\ n # c
        /\ c \in Held(d)
    BY LeaveRow
  <1>3. c \notin run[d].todo
    BY DEF OutboxInv, RunsAreSound
  <1>4. TypeOK'
    BY <1>2 DEF OutboxInv, TypeOK
  <1>5. RunsAreSound'
    <2>1. None \notin run[d].todo
      BY Typed, OutboxAssumption
    <2> QED BY <1>2, <2>1 DEF OutboxInv, RunsAreSound
  <1>6. OneSender'
    <2> SUFFICES ASSUME NEW n \in Mail, history[n].requeued = 0
                 PROVE  /\ \A e, f \in Run : n \in Held(e)' \cap Held(f)' => e = f
                        /\ (\E e \in Run : n \in Held(e)') => mail'[n].status = "sending"
      BY DEF OneSender
    <2>1. \A e \in Run : n \in Held(e)' => n \in Held(e)
      BY <1>2 DEF Held
    <2>2. n = c => \A e \in Run : n \notin Held(e)'
      BY <1>2, <2>1 DEF OutboxInv, OneSender
    <2> QED BY <2>1, <2>2 DEF OutboxInv, OneSender
  <1>7. DeliveriesAreBounded'
    <2> SUFFICES ASSUME NEW n \in Mail
                 PROVE  delivered[n] + Cardinality(Senders(n)') + Waiting(n)'
                            <= 1 + history[n].requeued + history[n].excused
      BY DEF DeliveriesAreBounded
    <2>1. delivered[n] + Cardinality(Senders(n)) + Waiting(n) <= 1 + history[n].requeued + history[n].excused
      BY DEF OutboxInv, DeliveriesAreBounded
    <2>2. Cardinality(Senders(n)) \in Nat /\ Waiting(n) \in {0, 1} /\ Waiting(n)' \in {0, 1}
      BY SendersAreFinite DEF Waiting
    <2>3. CASE n # c
      <3>1. (d \in Senders(n) <=> d \in Senders(n)') /\ Waiting(n)' = Waiting(n)
        BY <1>2, <2>3 DEF Senders, Waiting
      <3>2. Cardinality(Senders(n)') = Cardinality(Senders(n))
        BY <1>2, <3>1, SendersChange
      <3> QED BY <2>1, <3>1, <3>2
    <2>4. CASE n = c /\ run[d].pc = "mark"
      <3>1. d \notin Senders(c) /\ d \notin Senders(c)' /\ Waiting(c)' = 0
        BY <1>2, <1>3, <2>4 DEF Senders, Waiting
      <3>2. Cardinality(Senders(c)') = Cardinality(Senders(c))
        BY <1>2, <3>1, SendersChange
      <3> QED BY <2>1, <2>2, <2>4, <3>1, <3>2, Typed
    <2>5. CASE n = c /\ run[d].pc = "fail"
      <3>1. d \in Senders(c) /\ d \notin Senders(c)'
        BY <1>2, <1>3, <2>5 DEF Senders
      <3>2. Cardinality(Senders(c)') = Cardinality(Senders(c)) - 1
        BY <1>2, <3>1, SendersChange
      <3> QED BY <2>1, <2>2, <2>5, <3>2, Typed
    <2> QED BY <2>3, <2>4, <2>5
  <1>8. SentMeansDelivered'
    <2>1. run[d].pc = "mark" => delivered[c] > 0
      BY DEF OutboxInv, RunsAreSound
    <2> QED BY <2>1 DEF OutboxInv, SentMeansDelivered
  <1> QED BY <1>4, <1>5, <1>6, <1>7, <1>8 DEF OutboxInv

\* A mail is marked sent, or its mark is lost and it counts as not sent.
LEMMA MarkSentStep == ASSUME OutboxInv, NEW d \in Run, MarkSent(d) PROVE OutboxInv'
  <1>0. run[d].pc = "mark" /\ delivered' = delivered
    BY DEF MarkSent, At
  <1>1. PICK c \in Mail : c = run[d].cur
    BY <1>0, Typed
  <1>2. CASE mail' = [mail EXCEPT ![c].status = "sent"] /\ Leave(d) /\ history' = history
    <2>1. mail' \in [Mail -> MailRow] /\ mail'[c].status = "sent"
          /\ \A n \in Mail \ {c} : mail'[n] = mail[n]
      BY <1>2 DEF OutboxInv, TypeOK, MailRow
    <2> QED BY <1>0, <1>1, <1>2, <2>1, WriteRow
  <1>3. CASE run' = [run EXCEPT ![d].pc = "fail"] /\ Excuse(c) /\ mail' = mail
    <2>1. /\ run' \in [Run -> RunState] /\ run'[d].pc = "fail" /\ run'[d].cur = c
          /\ run'[d].todo = run[d].todo /\ \A e \in Run \ {d} : run'[e] = run[e]
      BY <1>1, <1>3 DEF OutboxInv, TypeOK, RunState
    <2>2. /\ history' \in [Mail -> History]
          /\ \A n \in Mail : /\ history'[n].requeued = history[n].requeued
                             /\ n # c => history'[n] = history[n]
          /\ history'[c].excused = history[c].excused + 1
      BY <1>3 DEF Excuse, OutboxInv, TypeOK, History
    <2>3. TypeOK'
      <3>1. \A e \in Run : run'[e].pc \in {"mark", "fail"} <=> run'[e].cur # None
        BY <1>1, <2>1, OutboxAssumption DEF OutboxInv, TypeOK
      <3> QED BY <1>0, <1>3, <2>1, <2>2, <3>1 DEF OutboxInv, TypeOK
    <2>4. RunsAreSound'
      BY <1>0, <1>1, <2>1 DEF OutboxInv, RunsAreSound
    <2>5. OneSender'
      <3>1. \A e \in Run, n \in Mail : n \in Held(e)' <=> n \in Held(e)
        BY <1>1, <2>1 DEF Held
      <3> QED BY <1>3, <2>2, <3>1 DEF OutboxInv, OneSender
    <2>6. DeliveriesAreBounded'
      <3> SUFFICES ASSUME NEW n \in Mail
                   PROVE  delivered[n] + Cardinality(Senders(n)') + Waiting(n)'
                              <= 1 + history'[n].requeued + history'[n].excused
        BY <1>0 DEF DeliveriesAreBounded
      <3>1. delivered[n] + Cardinality(Senders(n)) + Waiting(n) <= 1 + history[n].requeued + history[n].excused
        BY DEF OutboxInv, DeliveriesAreBounded
      <3>2. Cardinality(Senders(n)) \in Nat /\ Waiting(n) \in {0, 1} /\ Waiting(n)' = Waiting(n)
        BY <1>3, SendersAreFinite DEF Waiting
      <3>3. CASE n # c
        <4>1. d \in Senders(n) <=> d \in Senders(n)'
          BY <1>0, <1>1, <2>1, <3>3 DEF Senders
        <4> QED BY <2>1, <2>2, <3>1, <3>2, <3>3, <4>1, SendersChange
      <3>4. CASE n = c
        <4>1. d \notin Senders(c) /\ d \in Senders(c)'
          BY <1>0, <1>1, <2>1 DEF Senders, OutboxInv, RunsAreSound
        <4>2. Cardinality(Senders(c)') = Cardinality(Senders(c)) + 1
          BY <2>1, <4>1, SendersChange
        <4> QED BY <2>2, <3>1, <3>2, <3>4, <4>2, Typed
      <3> QED BY <3>3, <3>4
    <2>7. SentMeansDelivered'
      BY <1>0, <1>3 DEF OutboxInv, SentMeansDelivered
    <2> QED BY <2>3, <2>4, <2>5, <2>6, <2>7 DEF OutboxInv
  <1> QED BY <1>1, <1>2, <1>3 DEF MarkSent

\* A mail waits for its next attempt, or is given up.
LEMMA MarkFailedStep == ASSUME OutboxInv, NEW d \in Run, MarkFailed(d) PROVE OutboxInv'
  <1>0. run[d].pc = "fail" /\ UNCHANGED <<delivered, history>> /\ Leave(d)
    BY DEF MarkFailed, At
  <1>1. PICK c \in Mail : c = run[d].cur
    BY <1>0, Typed
  <1>2. PICK up \in BOOLEAN, to \in {"queued", "failed"} :
           mail' = [mail EXCEPT ![c].status = to, ![c].due = up]
    <2>1. GivesUp(d) \in BOOLEAN
      BY DEF GivesUp
    <2> QED BY <1>1, <2>1 DEF MarkFailed
  <1>3. mail' \in [Mail -> MailRow] /\ mail'[c].status = to
        /\ \A n \in Mail \ {c} : mail'[n] = mail[n]
    BY <1>2 DEF OutboxInv, TypeOK, MailRow
  <1> QED BY <1>0, <1>1, <1>3, WriteRow

\* A run is gone: what it had stays as it is.
LEMMA LoseStep == ASSUME OutboxInv, NEW d \in Run, LoseRun(d) PROVE OutboxInv'
  <1>1. run' = [run EXCEPT ![d] = IdleRun] /\ UNCHANGED <<mail, delivered>>
    BY DEF LoseRun
  <1>2. IdleRun \in RunState /\ IdleRun.pc = "idle" /\ IdleRun.todo = {} /\ IdleRun.cur = None
    BY DEF IdleRun, RunState, NoAttempts
  <1>3. run' \in [Run -> RunState] /\ run'[d] = IdleRun /\ \A e \in Run \ {d} : run'[e] = run[e]
    BY <1>1, <1>2 DEF OutboxInv, TypeOK
  <1>4. /\ history' \in [Mail -> History]
        /\ \A m \in Mail : /\ history'[m].requeued = history[m].requeued
                           /\ history'[m].excused >= history[m].excused
    <2>3. ASSUME NEW m \in Mail
          PROVE  /\ history'[m] \in History
                 /\ history'[m].requeued = history[m].requeued
                 /\ history'[m].excused >= history[m].excused
      <3>1. PICK h \in History : h = history[m] /\ h.excused \in Nat
        BY DEF OutboxInv, TypeOK, History
      <3>2. PICK s \in BOOLEAN : s = (h.stranded \/ m \in Held(d))
        OBVIOUS
      <3>3. PICK n \in Nat : n = IF At(d, "mark") /\ m = run[d].cur THEN h.excused + 1 ELSE h.excused
        BY <3>1
      <3>4. history'[m] = [h EXCEPT !.stranded = s, !.excused = n]
        BY <3>1, <3>2, <3>3 DEF LoseRun
      <3>5. n >= h.excused
        BY <3>1, <3>3
      <3>6. /\ [h EXCEPT !.stranded = s, !.excused = n] \in History
            /\ [h EXCEPT !.stranded = s, !.excused = n].requeued = h.requeued
            /\ [h EXCEPT !.stranded = s, !.excused = n].excused = n
        BY DEF History
      <3> QED BY <3>1, <3>4, <3>5, <3>6, Zenon
    <2>4. history' = [m \in Mail |-> history'[m]]
      BY DEF LoseRun
    <2> QED BY <2>3, <2>4
  <1>5. TypeOK'
    BY <1>1, <1>2, <1>3, <1>4 DEF OutboxInv, TypeOK
  <1>6. RunsAreSound'
    BY <1>1, <1>2, <1>3 DEF OutboxInv, RunsAreSound
  <1>7. OneSender'
    BY <1>1, <1>2, <1>3, <1>4, LetGo DEF OneSender
  <1>8. DeliveriesAreBounded'
    <2> SUFFICES ASSUME NEW m \in Mail
                 PROVE  delivered[m] + Cardinality(Senders(m)') + Waiting(m)'
                            <= 1 + history'[m].requeued + history'[m].excused
      BY <1>1 DEF DeliveriesAreBounded
    <2>1. delivered[m] + Cardinality(Senders(m)) + Waiting(m) <= 1 + history[m].requeued + history[m].excused
      BY DEF OutboxInv, DeliveriesAreBounded
    <2>2. Waiting(m)' = Waiting(m) /\ Waiting(m) \in {0, 1}
      BY <1>1 DEF Waiting
    <2>3. d \notin Senders(m)'
      BY <1>2, <1>3 DEF Senders
    <2>4. Cardinality(Senders(m)') <= Cardinality(Senders(m)) /\ Cardinality(Senders(m)') \in Nat
      BY <1>3, <2>3, SendersChange, SendersAreFinite
    <2>5. Cardinality(Senders(m)) \in Nat /\ history'[m].excused \in Nat
      BY <1>4, SendersAreFinite DEF History
    <2> QED BY <1>4, <2>1, <2>2, <2>4, <2>5, Typed
  <1>9. SentMeansDelivered'
    BY <1>1 DEF OutboxInv, SentMeansDelivered
  <1> QED BY <1>5, <1>6, <1>7, <1>8, <1>9 DEF OutboxInv

-------------------------------------------------------------------------------
\* Every step.
LEMMA OutboxStep == OutboxInv /\ [Next]_vars => OutboxInv'
  <1> SUFFICES ASSUME OutboxInv, [Next]_vars PROVE OutboxInv'
    OBVIOUS
  <1>1. CASE UNCHANGED vars
    <2>1. \A m : Senders(m)' = Senders(m)
      BY <1>1, SendersStay DEF vars
    <2> QED BY <1>1, <2>1 DEF vars, OutboxInv, TypeOK, RunsAreSound, OneSender, Held, DeliveriesAreBounded,
                              Waiting, SentMeansDelivered
  <1>2. CASE Next
    BY <1>2, QueueStep, RequeueStep, ClaimStep, EndStep, SendStep, MarkSentStep, MarkFailedStep, LoseStep
    DEF Next, RunStep
  <1> QED BY <1>1, <1>2

\* A mail belongs to one run unless it was put back by hand, goes out once and once
\* more at most for each time it was put back or an answer or a mark was lost, and no
\* row says sent without it (MailIsAccountedFor).
THEOREM MailsAreAccountedFor == Spec => []MailIsAccountedFor
  <1>1. OutboxInv => MailIsAccountedFor
    <2> SUFFICES ASSUME OutboxInv PROVE DuplicatesAreExplained
      BY DEF OutboxInv, MailIsAccountedFor
    <2> SUFFICES ASSUME NEW m \in Mail PROVE delivered[m] <= 1 + history[m].requeued + history[m].excused
      BY DEF DuplicatesAreExplained
    <2>1. delivered[m] + Cardinality(Senders(m)) + Waiting(m) <= 1 + history[m].requeued + history[m].excused
      BY DEF OutboxInv, DeliveriesAreBounded
    <2>2. Cardinality(Senders(m)) \in Nat /\ Waiting(m) \in {0, 1}
      BY SendersAreFinite DEF Waiting
    <2> QED BY <2>1, <2>2, Typed
  <1> QED BY <1>1, OutboxInit, OutboxStep, PTL DEF Spec
===============================================================================
