---------------------------- MODULE AlertsProofs ----------------------------
(***************************************************************************)
(* Proofs about Alerts, for any number of runs that end together and any   *)
(* set of configurations.                                                  *)
(***************************************************************************)
EXTENDS Alerts, TLAPS

\* A transaction in progress holds the row lock, and the row is as it was read.
LockInv ==
    \A r \in Runs : pc[r] = "tx" =>
        lock = r /\ read[r] = <<consecutive, alertActive, cfg>>

\* A handler that calls PagerDuty has a key to call it with.
NoteInv ==
    \A r \in Runs : pc[r] = "pagerduty" => note[r].key # NoKey

\* While the configuration stays as it is, alert_active follows from the streak.
ActiveInv ==
    steady => (alertActive <=> streak >= cfg.threshold)

\* While calm, at most one handler is notifying, with the current key, and its event
\* brings the incident in line with alert_active; otherwise it is in line already.
SilentOrOne ==
    /\ \A q, r \in Runs : Notifying(q) /\ Notifying(r) => q = r
    /\ \A r \in Runs : Notifying(r) =>
          /\ note[r].kind \in {"failure", "recovery"}
          /\ note[r].key = cfg.key
          /\ note[r].kind = "failure" <=> alertActive

CalmInv == calm => steady /\ SilentOrOne

IInv == /\ TypeOK /\ LockInv /\ NoteInv /\ StreakCounted
        /\ ActiveInv /\ AlertsOnSchedule /\ CalmInv /\ IncidentMatchesAlert

-----------------------------------------------------------------------------
(* Arithmetic of the alert policy. *)

\* A streak that has not reached the threshold has no alert, and only such a one.
LEMMA DivPositive ==
  ASSUME NEW n \in Nat, NEW t \in Nat \ {0}
  PROVE  n \div t \in Nat /\ (n \div t > 0 <=> n >= t)
  BY SMTT(30)

\* One more failure adds an alert exactly when FailureAlertDue says so.
LEMMA DivSucc ==
  ASSUME NEW n \in Nat, NEW t \in Nat \ {0}
  PROVE  (n + 1) \div t = IF FailureAlertDue(n + 1, t) THEN n \div t + 1 ELSE n \div t
  BY SMT DEF FailureAlertDue

\* The configuration that fills unused variables is a configuration.
LEMMA UnsetType ==
  ASSUME cfg \in Configs
  PROVE  Unset \in Configs /\ Unread \in Nat \X BOOLEAN \X Configs
  BY DEF Unset, Unread

-----------------------------------------------------------------------------
(* The inductive invariant. *)

\* An uploaded test satisfies the invariant.
LEMMA InitInv == Init => IInv
  <1> SUFFICES ASSUME Init PROVE IInv
    OBVIOUS
  <1>1. cfg \in Configs /\ cfg.threshold \in Nat \ {0}
    BY ConfigsAssumption DEF Init
  <1>2. TypeOK
    BY <1>1, UnsetType DEF Init, TypeOK, Note, Nothing
  <1>3. LockInv /\ NoteInv /\ StreakCounted
    BY DEF Init, LockInv, NoteInv, StreakCounted
  <1>4. ActiveInv
    BY <1>1 DEF Init, ActiveInv
  <1>5. AlertsOnSchedule
    BY <1>1, DivPositive DEF Init, AlertsOnSchedule
  <1>6. CalmInv /\ IncidentMatchesAlert
    BY DEF Init, CalmInv, SilentOrOne, Notifying, IncidentMatchesAlert
  <1>7. QED
    BY <1>2, <1>3, <1>4, <1>5, <1>6 DEF IInv

\* Beginning a transaction keeps the invariant.
LEMMA SelectInv ==
  ASSUME IInv, NEW r \in Runs, NEW p \in BOOLEAN, SelectForUpdate(r, p)
  PROVE  IInv'
  <1> USE DEF IInv, TypeOK, SelectForUpdate, row, requests, history
  <1>1. TypeOK'
    OBVIOUS
  <1>2. LockInv' /\ NoteInv' /\ StreakCounted'
    BY NoAssumption DEF LockInv, NoteInv, StreakCounted
  <1>3. ActiveInv' /\ AlertsOnSchedule'
    BY DEF ActiveInv, AlertsOnSchedule, Alerting, AnyTarget
  <1>4. \A q \in Runs : Notifying(q)' <=> Notifying(q)
    BY DEF Notifying
  <1>5. CalmInv' /\ IncidentMatchesAlert'
    BY <1>4 DEF CalmInv, SilentOrOne, IncidentMatchesAlert, Alerting, AnyTarget
  <1>6. QED
    BY <1>1, <1>2, <1>3, <1>5

\* What a commit does to the row, whatever the handler does then.
LEMMA CommitRow ==
  ASSUME IInv, NEW r \in Runs, NEW next, Commit(r, next)
  PROVE  /\ lock = r /\ read[r] = <<consecutive, alertActive, cfg>>
         /\ cfg \in Configs /\ cfg.threshold \in Nat \ {0}
         /\ NewStreak(r) = IF passed[r] THEN 0 ELSE streak + 1
         /\ NewActive(r) <=> ~passed[r] /\ streak + 1 >= cfg.threshold
         /\ SendRecovery(r) <=> passed[r] /\ alertActive /\ Alerting
         /\ SendFailure(r) <=>
               ~passed[r] /\ Alerting /\ FailureAlertDue(streak + 1, cfg.threshold)
  <1>1. lock = r /\ read[r] = <<consecutive, alertActive, cfg>> /\ consecutive = streak
    BY DEF IInv, LockInv, StreakCounted, Commit
  <1>2. cfg \in Configs /\ cfg.threshold \in Nat \ {0}
    BY ConfigsAssumption DEF IInv, TypeOK
  <1>3. NewStreak(r) = IF passed[r] THEN 0 ELSE streak + 1
    BY <1>1 DEF NewStreak
  <1>4. QED
    BY <1>1, <1>2, <1>3 DEF NewActive, SendRecovery, SendFailure, Alerting

\* The part of the invariant that does not depend on the notifications.
LEMMA CommitInv ==
  ASSUME IInv, NEW r \in Runs, NEW next \in {"idle", "webhook", "pagerduty"},
         Commit(r, next)
  PROVE  LockInv' /\ StreakCounted' /\ ActiveInv' /\ AlertsOnSchedule'
  <1> USE DEF IInv, TypeOK, Commit, requests
  <1>0. /\ cfg' = cfg /\ cfg.threshold \in Nat \ {0}
        /\ streak' = IF passed[r] THEN 0 ELSE streak + 1
        /\ alertActive' <=> ~passed[r] /\ streak + 1 >= cfg.threshold
        /\ streak \in Nat /\ streak' \in Nat
    <2>1. /\ cfg' = cfg /\ cfg.threshold \in Nat \ {0}
          /\ streak' = IF passed[r] THEN 0 ELSE streak + 1
      BY CommitRow
    <2>2. streak \in Nat /\ streak' \in Nat
      BY <2>1
    <2>3. alertActive' <=> ~passed[r] /\ streak + 1 >= cfg.threshold
      BY CommitRow, Zenon
    <2>4. QED
      BY <2>1, <2>2, <2>3
  <1>1. LockInv'
    BY NoAssumption DEF LockInv
  <1>2. StreakCounted'
    BY CommitRow DEF StreakCounted
  <1>3. ActiveInv'
    BY <1>0 DEF ActiveInv
  <1>4. AlertsOnSchedule'
    <2> SUFFICES ASSUME steady', Alerting
                 PROVE  alerts' = streak' \div cfg.threshold /\ (alertActive' <=> alerts' > 0)
      BY DEF AlertsOnSchedule, Alerting, AnyTarget
    <2>1. CASE passed[r]
      <3>1. streak' = 0 /\ alerts' = 0 /\ ~alertActive'
        BY <2>1, <1>0
      <3>2. QED
        BY <1>0, <3>1, DivPositive
    <2>2. CASE ~passed[r]
      <3>1. alerts = streak \div cfg.threshold
        BY <2>2 DEF AlertsOnSchedule
      <3>2. alerts' = streak' \div cfg.threshold
        BY <2>2, <3>1, CommitRow, DivSucc
      <3>3. alertActive' <=> streak' >= cfg.threshold
        BY <2>2, <1>0
      <3>4. QED
        BY <1>0, <3>2, <3>3, DivPositive
    <2>3. QED
      BY <2>1, <2>2
  <1>5. QED
    BY <1>1, <1>2, <1>3, <1>4

\* What the transaction decides to send, and to which channel first.
LEMMA DecisionFacts ==
  ASSUME IInv, NEW r \in Runs, NEW next, Commit(r, next)
  PROVE  /\ Decision(r) \in Note
         /\ Decision(r) # Nothing =>
               /\ Alerting
               /\ Decision(r).key = cfg.key
               /\ Decision(r).kind \in {"failure", "recovery"}
               /\ Decision(r).kind = "failure" <=> NewActive(r)
         /\ Decision(r) = Nothing <=> ~SendRecovery(r) /\ ~SendFailure(r)
         /\ FirstChannel(r) = "idle" <=> Decision(r) = Nothing
         /\ FirstChannel(r) = "pagerduty" => Decision(r).key # NoKey
  <1>1. cfg.key \in Keys \cup {NoKey} /\ streak \in Nat /\ cfg.threshold \in Nat
    BY CommitRow, ConfigsAssumption DEF IInv, TypeOK
  <1>2. read[r][3] = cfg
    BY CommitRow
  <1>3. CASE SendRecovery(r)
    <2>1. Decision(r) = [kind |-> "recovery", key |-> cfg.key]
      BY <1>2, <1>3 DEF Decision
    <2>2. Alerting /\ ~NewActive(r)
      BY <1>3, CommitRow, Zenon
    <2>3. QED
      BY <1>1, <1>2, <1>3, <2>1, <2>2 DEF Note, Nothing, FirstChannel, Alerting, AnyTarget
  <1>4. CASE ~SendRecovery(r) /\ SendFailure(r)
    <2>1. Decision(r) = [kind |-> "failure", key |-> cfg.key]
      BY <1>2, <1>4 DEF Decision
    <2>2. Alerting /\ NewActive(r)
      BY <1>4, CommitRow, Zenon DEF FailureAlertDue
    <2>3. QED
      BY <1>1, <1>2, <1>4, <2>1, <2>2 DEF Note, Nothing, FirstChannel, Alerting, AnyTarget
  <1>5. CASE ~SendRecovery(r) /\ ~SendFailure(r)
    BY <1>5 DEF Decision, Nothing, Note, FirstChannel
  <1>6. QED
    BY <1>3, <1>4, <1>5

\* Committing, whatever the handler does then, keeps the types.
LEMMA CommitType ==
  ASSUME IInv, NEW r \in Runs, NEW next \in {"idle", "webhook", "pagerduty"},
         Commit(r, next)
  PROVE  (/\ cfg \in Configs /\ consecutive \in Nat /\ alertActive \in BOOLEAN
          /\ lock \in Runs \cup {NoRun}
          /\ pc \in [Runs -> {"idle", "tx", "webhook", "pagerduty"}]
          /\ passed \in [Runs -> BOOLEAN]
          /\ read \in [Runs -> Nat \X BOOLEAN \X Configs]
          /\ note \in [Runs -> Note]
          /\ incident \subseteq Keys
          /\ cpc \in [Clients -> {"idle", "write"}]
          /\ cnew \in [Clients -> Configs]
          /\ streak \in Nat /\ alerts \in Nat
          /\ steady \in BOOLEAN)'
  <1> USE DEF IInv, TypeOK, Commit, requests
  <1>1. consecutive' \in Nat /\ streak' \in Nat /\ alerts' \in Nat
    <2>1. consecutive' = IF passed[r] THEN 0 ELSE streak + 1
      BY CommitRow
    <2>2. QED
      BY <2>1
  <1>2. alertActive' \in BOOLEAN
    BY Zenon DEF NewActive
  <1>3. steady' \in BOOLEAN
    BY Zenon
  <1>4. note' \in [Runs -> Note]
    BY DecisionFacts DEF Note, Nothing
  <1>5. read' \in [Runs -> Nat \X BOOLEAN \X Configs]
    BY UnsetType
  <1>6. passed' \in [Runs -> BOOLEAN] /\ pc' \in [Runs -> {"idle", "tx", "webhook", "pagerduty"}]
    OBVIOUS
  <1>7. QED
    BY <1>1, <1>2, <1>3, <1>4, <1>5, <1>6

\* A due streak that adds no alert has had one before.
LEMMA NotDue ==
  ASSUME NEW n \in Nat, NEW t \in Nat \ {0}, n + 1 >= t, ~FailureAlertDue(n + 1, t)
  PROVE  n >= t
  BY SMT DEF FailureAlertDue

\* Committing an outcome and going on to notify keeps the invariant.
LEMMA RecordInv ==
  ASSUME IInv, NEW r \in Runs, RecordRunOutcome(r)
  PROVE  IInv'
  <1> DEFINE next == FirstChannel(r)
  <1>1. Commit(r, next) /\ next \in {"idle", "webhook", "pagerduty"}
    BY DEF RecordRunOutcome, FirstChannel
  <1>2. LockInv' /\ StreakCounted' /\ ActiveInv' /\ AlertsOnSchedule'
    BY <1>1, CommitInv
  <1>3. TypeOK'
    <2>1. calm' \in BOOLEAN /\ faults' \in Nat
      BY DEF IInv, TypeOK, RecordRunOutcome
    <2>2. QED
      BY <1>1, <2>1, CommitType DEF TypeOK
  <1>4. /\ pc' = [pc EXCEPT ![r] = next] /\ cfg' = cfg /\ incident' = incident
        /\ note' = [note EXCEPT ![r] = IF next = "idle" THEN Nothing ELSE Decision(r)]
        /\ alertActive' = NewActive(r)
        /\ pc \in [Runs -> {"idle", "tx", "webhook", "pagerduty"}] /\ note \in [Runs -> Note]
    BY <1>1 DEF IInv, TypeOK, Commit
  <1>5. NoteInv'
    BY <1>1, <1>4, DecisionFacts DEF IInv, NoteInv
  <1>6. ASSUME calm'
        PROVE  steady' /\ \A q \in Runs : ~Notifying(q)
    BY <1>1, <1>6 DEF IInv, TypeOK, CalmInv, Commit, RecordRunOutcome, Calms
  <1>7. ASSUME calm', NEW q \in Runs, Notifying(q)'
        PROVE  /\ q = r /\ Decision(r) # Nothing /\ note'[q] = Decision(r)
    BY <1>1, <1>4, <1>6, <1>7, DecisionFacts DEF Notifying
  <1>8. CalmInv'
    <2> SUFFICES ASSUME calm' PROVE SilentOrOne'
      BY <1>6 DEF CalmInv
    <2>1. ASSUME NEW q \in Runs, Notifying(q)'
          PROVE  (/\ note[q].kind \in {"failure", "recovery"}
                  /\ note[q].key = cfg.key
                  /\ note[q].kind = "failure" <=> alertActive)'
      BY <1>1, <1>4, <1>7, <2>1, DecisionFacts
    <2>2. QED
      BY <1>7, <2>1 DEF SilentOrOne
  <1>9. IncidentMatchesAlert'
    <2> SUFFICES ASSUME calm', Alerting, cfg.key # NoKey,
                        \A q \in Runs : ~Notifying(q)'
                 PROVE  cfg.key \in incident <=> NewActive(r)
      BY <1>4 DEF IncidentMatchesAlert, Alerting, AnyTarget
    <2>1. ~SendRecovery(r) /\ ~SendFailure(r)
      BY <1>1, <1>4, DecisionFacts DEF Notifying
    <2>2. CASE Calms(r)
      BY <1>1, <2>2, CommitRow, Zenon DEF Calms
    <2>3. CASE ~Calms(r)
      <3>1. calm /\ steady
        BY <2>3 DEF RecordRunOutcome, IInv, CalmInv
      <3>2. cfg.key \in incident <=> alertActive
        BY <1>6, <3>1 DEF IInv, IncidentMatchesAlert
      <3>3. alertActive <=> streak >= cfg.threshold
        BY <3>1 DEF IInv, ActiveInv
      <3>4. CASE passed[r]
        BY <1>1, <2>1, <3>2, <3>4, CommitRow, Zenon
      <3>5. CASE ~passed[r]
        <4>1. ~FailureAlertDue(streak + 1, cfg.threshold)
          BY <1>1, <2>1, <3>5, CommitRow, Zenon
        <4>2. streak + 1 >= cfg.threshold <=> streak >= cfg.threshold
          BY <1>1, <4>1, NotDue, CommitRow DEF IInv, TypeOK
        <4>3. QED
          BY <1>1, <3>2, <3>3, <3>5, <4>2, CommitRow, Zenon
      <3>6. QED
        BY <3>4, <3>5
    <2>4. QED
      BY <2>2, <2>3
  <1>10. QED
    BY <1>2, <1>3, <1>5, <1>8, <1>9 DEF IInv

\* Losing the reply of the COMMIT keeps the invariant: if something should have been
\* sent, this is not calm any more.
LEMMA ReplyLostInv ==
  ASSUME IInv, NEW r \in Runs, CommitReplyLost(r)
  PROVE  IInv'
  <1>1. Commit(r, "idle")
    BY DEF CommitReplyLost
  <1>2. LockInv' /\ StreakCounted' /\ ActiveInv' /\ AlertsOnSchedule'
    BY <1>1, CommitInv
  <1>3. TypeOK'
    <2>1. calm' \in BOOLEAN /\ faults' \in Nat
      BY DEF IInv, TypeOK, CommitReplyLost, Fault
    <2>2. QED
      BY <1>1, <2>1, CommitType DEF TypeOK
  <1>4. /\ pc' = [pc EXCEPT ![r] = "idle"] /\ cfg' = cfg /\ incident' = incident
        /\ note' = [note EXCEPT ![r] = Nothing]
        /\ alertActive' = NewActive(r)
        /\ pc \in [Runs -> {"idle", "tx", "webhook", "pagerduty"}] /\ note \in [Runs -> Note]
    BY <1>1 DEF IInv, TypeOK, Commit
  <1>5. NoteInv'
    BY <1>4 DEF IInv, NoteInv
  <1>6. ASSUME calm'
        PROVE  /\ steady' /\ \A q \in Runs : ~Notifying(q) /\ ~Notifying(q)'
               /\ Calms(r) \/ (calm /\ steady /\ Decision(r) = Nothing)
    <2>1. steady' /\ \A q \in Runs : ~Notifying(q)
      BY <1>1, <1>6 DEF IInv, TypeOK, CalmInv, Commit, CommitReplyLost, Calms
    <2>2. \A q \in Runs : ~Notifying(q)'
      BY <1>4, <2>1 DEF Notifying
    <2>3. QED
      BY <1>6, <2>1, <2>2 DEF IInv, CalmInv, CommitReplyLost
  <1>7. CalmInv'
    BY <1>6 DEF CalmInv, SilentOrOne
  <1>8. IncidentMatchesAlert'
    <2> SUFFICES ASSUME calm', Alerting, cfg.key # NoKey
                 PROVE  cfg.key \in incident <=> NewActive(r)
      BY <1>4 DEF IncidentMatchesAlert, Alerting, AnyTarget
    <2>1. CASE Calms(r)
      BY <1>1, <2>1, CommitRow, Zenon DEF Calms
    <2>2. CASE ~Calms(r)
      <3>1. calm /\ steady /\ ~SendRecovery(r) /\ ~SendFailure(r)
        BY <1>1, <1>6, <2>2, DecisionFacts
      <3>2. cfg.key \in incident <=> alertActive
        BY <1>6, <3>1 DEF IInv, IncidentMatchesAlert
      <3>3. alertActive <=> streak >= cfg.threshold
        BY <3>1 DEF IInv, ActiveInv
      <3>4. CASE passed[r]
        BY <1>1, <3>1, <3>2, <3>4, CommitRow, Zenon
      <3>5. CASE ~passed[r]
        <4>1. ~FailureAlertDue(streak + 1, cfg.threshold)
          BY <1>1, <3>1, <3>5, CommitRow, Zenon
        <4>2. streak + 1 >= cfg.threshold <=> streak >= cfg.threshold
          BY <1>1, <4>1, NotDue, CommitRow DEF IInv, TypeOK
        <4>3. QED
          BY <1>1, <3>2, <3>3, <3>5, <4>2, CommitRow, Zenon
      <3>6. QED
        BY <3>4, <3>5
    <2>3. QED
      BY <2>1, <2>2
  <1>9. QED
    BY <1>2, <1>3, <1>5, <1>7, <1>8 DEF IInv

\* A rolled back transaction keeps the invariant.
LEMMA TxFailsInv ==
  ASSUME IInv, NEW r \in Runs, TxFails(r)
  PROVE  IInv'
  <1> USE DEF IInv, TypeOK, TxFails, Fault, row, requests
  <1>1. TypeOK'
    BY UnsetType
  <1>2. LockInv' /\ NoteInv' /\ StreakCounted'
    BY NoAssumption DEF LockInv, NoteInv, StreakCounted
  <1>3. ActiveInv' /\ AlertsOnSchedule'
    BY DEF ActiveInv, AlertsOnSchedule, Alerting, AnyTarget
  <1>4. \A q \in Runs : Notifying(q)' <=> Notifying(q)
    BY DEF Notifying
  <1>5. CalmInv' /\ IncidentMatchesAlert'
    BY <1>4 DEF CalmInv, SilentOrOne, IncidentMatchesAlert, Alerting, AnyTarget
  <1>6. QED
    BY <1>1, <1>2, <1>3, <1>5

\* The calls to the channels keep the invariant.
LEMMA NotifyInv ==
  ASSUME IInv, NEW r \in Runs, Webhook(r) \/ PagerDuty(r) \/ PagerDutyFails(r)
  PROVE  IInv'
  <1> USE DEF IInv, TypeOK, Fault, row, requests, history
  <1>1. Notifying(r) /\ \A q \in Runs : Notifying(q)' => Notifying(q)
    BY DEF Notifying, Webhook, PagerDuty, PagerDutyFails
  <1>2. ActiveInv' /\ AlertsOnSchedule' /\ StreakCounted'
    BY DEF ActiveInv, AlertsOnSchedule, Alerting, AnyTarget, StreakCounted, Webhook,
       PagerDuty, PagerDutyFails
  <1>3. LockInv' /\ NoteInv'
    BY DEF LockInv, NoteInv, Webhook, PagerDuty, PagerDutyFails
  <1>4. CASE Webhook(r)
    <2>1. TypeOK'
      BY <1>4 DEF Webhook, Note, Nothing
    <2>2. CalmInv'
      BY <1>1, <1>4 DEF Webhook, CalmInv, SilentOrOne, Notifying
    <2>3. IncidentMatchesAlert'
      BY <1>1, <1>4 DEF Webhook, CalmInv, SilentOrOne, Notifying, IncidentMatchesAlert,
         Alerting, AnyTarget
    <2>4. QED
      BY <1>2, <1>3, <2>1, <2>2, <2>3
  <1>5. CASE PagerDuty(r)
    <2>1. TypeOK'
      BY <1>5 DEF PagerDuty, Note, Nothing, NoteInv
    <2>2. CalmInv'
      BY <1>1, <1>5 DEF PagerDuty, CalmInv, SilentOrOne, Notifying
    <2>3. IncidentMatchesAlert'
      BY <1>1, <1>5 DEF PagerDuty, CalmInv, SilentOrOne, Notifying, IncidentMatchesAlert,
         Alerting, AnyTarget
    <2>4. QED
      BY <1>2, <1>3, <2>1, <2>2, <2>3
  <1>6. CASE PagerDutyFails(r)
    <2>1. TypeOK'
      <3>1. note' \in [Runs -> Note]
        BY <1>6 DEF PagerDutyFails, Note, Nothing
      <3>2. calm' \in BOOLEAN
        BY <1>6, Zenon DEF PagerDutyFails
      <3>3. faults' \in Nat
        BY <1>6 DEF PagerDutyFails
      <3>4. QED
        BY <1>6, <3>1, <3>2, <3>3 DEF PagerDutyFails
    <2>2. CalmInv' /\ IncidentMatchesAlert'
      BY <1>6 DEF PagerDutyFails, CalmInv, IncidentMatchesAlert
    <2>3. QED
      BY <1>2, <1>3, <2>1, <2>2
  <1>7. QED
    BY <1>4, <1>5, <1>6

\* A crash keeps the invariant.
LEMMA CrashInv ==
  ASSUME IInv, Crash
  PROVE  IInv'
  <1> USE DEF IInv, TypeOK, Crash, Fault, row
  <1>1. TypeOK'
    BY UnsetType DEF Note, Nothing
  <1>2. LockInv' /\ NoteInv' /\ StreakCounted'
    BY DEF LockInv, NoteInv, StreakCounted
  <1>3. ActiveInv' /\ AlertsOnSchedule'
    BY DEF ActiveInv, AlertsOnSchedule, Alerting, AnyTarget
  <1>4. CalmInv' /\ IncidentMatchesAlert'
    BY DEF CalmInv, SilentOrOne, Notifying, IncidentMatchesAlert, Alerting, AnyTarget
  <1>5. QED
    BY <1>1, <1>2, <1>3, <1>4

\* Configuration requests keep the invariant: a write waits for the row lock.
LEMMA RequestInv ==
  ASSUME IInv, NEW c \in Clients, Request(c)
  PROVE  IInv'
  <1> USE DEF IInv, TypeOK, row, handlers, history
  <1>1. ASSUME NEW f \in Configs, ReadConfig(c, f) PROVE IInv'
    BY <1>1 DEF ReadConfig, LockInv, NoteInv, StreakCounted, ActiveInv, AlertsOnSchedule,
       CalmInv, SilentOrOne, Notifying, IncidentMatchesAlert, Alerting, AnyTarget
  <1>2. CASE UpdateConfig(c)
    <2> USE DEF UpdateConfig
    <2>1. TypeOK'
      BY <1>2, UnsetType
    <2>2. LockInv' /\ NoteInv' /\ StreakCounted'
      BY <1>2, NoAssumption DEF LockInv, NoteInv, StreakCounted
    <2>3. (steady' => steady /\ cfg' = cfg) /\ (calm' => calm /\ cfg' = cfg)
      BY <1>2
    <2>4. ActiveInv' /\ AlertsOnSchedule'
      BY <1>2, <2>3 DEF ActiveInv, AlertsOnSchedule, Alerting, AnyTarget
    <2>5. CalmInv' /\ IncidentMatchesAlert'
      BY <1>2, <2>3 DEF CalmInv, SilentOrOne, Notifying, IncidentMatchesAlert, Alerting,
         AnyTarget
    <2>6. QED
      BY <2>1, <2>2, <2>4, <2>5
  <1>3. QED
    BY <1>1, <1>2 DEF Request

\* The invariant is inductive.
LEMMA NextInv == IInv /\ [Next]_vars => IInv'
  <1> SUFFICES ASSUME IInv, [Next]_vars PROVE IInv'
    OBVIOUS
  <1>1. ASSUME NEW r \in Runs, Handler(r) PROVE IInv'
    BY <1>1, SelectInv, RecordInv, ReplyLostInv, TxFailsInv, NotifyInv DEF Handler
  <1>2. ASSUME NEW c \in Clients, Request(c) PROVE IInv'
    BY <1>2, RequestInv
  <1>3. CASE Crash
    BY <1>3, CrashInv
  <1>4. CASE UNCHANGED vars
    BY <1>4 DEF vars, IInv, TypeOK, LockInv, NoteInv, StreakCounted, ActiveInv,
       AlertsOnSchedule, CalmInv, SilentOrOne, Notifying, IncidentMatchesAlert, Alerting,
       AnyTarget
  <1>5. QED
    BY <1>1, <1>2, <1>3, <1>4 DEF Next

\* Every reachable state satisfies the invariant.
THEOREM Invariance == Spec => []IInv
  BY InitInv, NextInv, PTL DEF Spec

-----------------------------------------------------------------------------
(* The transactions implement the policy. *)

\* A handler has a notification exactly while it is sending.
PendingInv == \A r \in Runs : note[r] = Nothing <=> ~Notifying(r)

\* What the transaction decides is what the policy calls for on the row it commits to.
LEMMA DecisionIsCalled ==
  ASSUME IInv, NEW r \in Runs, NEW next, Commit(r, next)
  PROVE  Decision(r) = Policy!Called(passed[r])
  <1>1. /\ read[r][3] = cfg /\ consecutive = streak
        /\ SendRecovery(r) <=> passed[r] /\ alertActive /\ Alerting
        /\ SendFailure(r) <=>
              ~passed[r] /\ Alerting /\ FailureAlertDue(streak + 1, cfg.threshold)
    <2>1. consecutive = streak
      BY DEF IInv, StreakCounted
    <2>2. read[r][3] = cfg
      BY CommitRow
    <2>3. QED
      BY <2>1, <2>2, CommitRow
  <1> DEFINE due  == consecutive + 1 >= cfg.threshold /\ (consecutive + 1) % cfg.threshold = 0
             kind == CASE passed[r] /\ alertActive -> "recovery"
                       [] ~passed[r] /\ due -> "failure"
                       [] OTHER -> "none"
  <1>2. FailureAlertDue(streak + 1, cfg.threshold) <=> due
    BY <1>1 DEF FailureAlertDue
  <1>3. Policy!Called(passed[r])
          = IF Alerting /\ kind # "none" THEN [kind |-> kind, key |-> cfg.key] ELSE Nothing
    BY DEF Policy!Called, Policy!Nothing, Nothing, Alerting, AnyTarget
  <1> HIDE DEF due
  <1>4. CASE SendRecovery(r)
    <2>1. kind = "recovery" /\ Alerting
      BY <1>1, <1>4
    <2>2. QED
      BY <1>1, <1>3, <1>4, <2>1 DEF Decision
  <1>5. CASE ~SendRecovery(r) /\ SendFailure(r)
    <2>1. kind = "failure" /\ Alerting
      BY <1>1, <1>2, <1>5
    <2>2. QED
      BY <1>1, <1>3, <1>5, <2>1 DEF Decision
  <1>6. CASE ~SendRecovery(r) /\ ~SendFailure(r)
    <2>1. ~Alerting \/ (~(passed[r] /\ alertActive) /\ ~(~passed[r] /\ due))
      BY <1>1, <1>2, <1>6, Zenon
    <2>2. ~Alerting \/ kind = "none"
      BY <2>1
    <2>3. QED
      BY <1>3, <1>6, <2>2 DEF Decision
  <1>7. QED
    BY <1>4, <1>5, <1>6

\* A commit, whatever the handler does then, applies one outcome to the row.
LEMMA CommitIsOutcome ==
  ASSUME IInv, IInv', PendingInv, NEW r \in Runs,
         NEW next \in {"idle", "webhook", "pagerduty"}, Commit(r, next)
  PROVE  Policy!Outcome(r, passed[r])
  <1>1. note[r] = Nothing
    BY DEF PendingInv, Notifying, Commit
  <1>2. /\ consecutive' = IF passed[r] THEN 0 ELSE consecutive + 1
        /\ consecutive \in Nat /\ cfg.threshold \in Nat \ {0} /\ cfg' = cfg
        /\ alertActive' = NewActive(r)
        /\ NewActive(r) <=> ~passed[r] /\ consecutive + 1 >= cfg.threshold
    <2>1. consecutive = streak /\ consecutive' = NewStreak(r) /\ alertActive' = NewActive(r)
      BY DEF IInv, StreakCounted, Commit
    <2>2. cfg' = cfg /\ consecutive \in Nat
      BY DEF Commit, IInv, TypeOK
    <2>3. QED
      BY <2>1, <2>2, CommitRow
  <1>3. alertActive' = (consecutive' >= cfg.threshold)
    <2>1. NewActive(r) \in BOOLEAN
      BY Zenon DEF NewActive
    <2>2. NewActive(r) <=> consecutive' >= cfg.threshold
      BY <1>2
    <2>3. QED
      BY <1>2, <2>1, <2>2
  <1>4. note' \in {note, [note EXCEPT ![r] = Policy!Called(passed[r])]}
    <2>1. note' = [note EXCEPT ![r] = IF next = "idle" THEN Nothing ELSE Decision(r)]
      BY DEF Commit
    <2>2. note \in [Runs -> Note]
      BY DEF IInv, TypeOK
    <2>3. CASE next = "idle"
      BY <1>1, <2>1, <2>2, <2>3
    <2>4. CASE next # "idle"
      BY <2>1, <2>4, DecisionIsCalled
    <2>5. QED
      BY <2>3, <2>4
  <1>5. UNCHANGED <<cfg, incident>>
    BY DEF Commit
  <1>6. Policy!Nothing = Nothing
    BY DEF Policy!Nothing, Nothing
  <1>7. QED
    BY <1>1, <1>2, <1>3, <1>4, <1>5, <1>6 DEF Policy!Outcome

\* The end of a notification is a step of the policy.
LEMMA SendIsSend ==
  ASSUME IInv, IInv', PendingInv, NEW r \in Runs, Notifying(r),
         note' = [note EXCEPT ![r] = Nothing],
         \/ incident' = incident
         \/ incident' = IF note[r].kind = "failure" THEN incident \cup {note[r].key}
                        ELSE incident \ {note[r].key},
         UNCHANGED row
  PROVE  Policy!Send(r)
  <1>1. note[r] # Nothing
    BY DEF PendingInv
  <1>2. incident' \subseteq Keys
    BY DEF IInv, TypeOK
  <1>3. Policy!Nothing = Nothing
    BY DEF Policy!Nothing, Nothing
  <1>4. QED
    BY <1>1, <1>2, <1>3 DEF Policy!Send, row

\* Every step is a step of the policy or leaves its state alone.
LEMMA PolicyStep ==
  IInv /\ IInv' /\ PendingInv /\ [Next]_vars => [Policy!Next]_(Policy!vars)
  <1> SUFFICES ASSUME IInv, IInv', PendingInv, [Next]_vars PROVE [Policy!Next]_(Policy!vars)
    OBVIOUS
  <1>0. passed \in [Runs -> BOOLEAN] /\ note \in [Runs -> Note] /\ cnew \in [Clients -> Configs]
    BY DEF IInv, TypeOK
  <1>1. ASSUME NEW r \in Runs, NEW p \in BOOLEAN, SelectForUpdate(r, p)
        PROVE  UNCHANGED Policy!vars
    BY <1>1 DEF SelectForUpdate, row, Policy!vars
  <1>2. ASSUME NEW r \in Runs, RecordRunOutcome(r) \/ CommitReplyLost(r) PROVE Policy!Next
    <2>1. PICK next \in {"idle", "webhook", "pagerduty"} : Commit(r, next)
      BY <1>2 DEF RecordRunOutcome, CommitReplyLost, FirstChannel
    <2>2. Policy!Outcome(r, passed[r]) /\ passed[r] \in BOOLEAN
      BY <1>0, <2>1, CommitIsOutcome
    <2>3. QED
      BY <2>2 DEF Policy!Next
  <1>3. ASSUME NEW r \in Runs, TxFails(r) PROVE UNCHANGED Policy!vars
    BY <1>3 DEF TxFails, row, Policy!vars
  <1>4. ASSUME NEW r \in Runs, Webhook(r) PROVE [Policy!Next]_(Policy!vars)
    <2>1. CASE note[r].key = NoKey
      <3>1. Policy!Send(r)
        BY <1>4, <2>1, SendIsSend DEF Webhook, Notifying
      <3>2. QED
        BY <3>1 DEF Policy!Next
    <2>2. CASE note[r].key # NoKey
      <3>1. note' = note
        BY <1>0, <1>4, <2>2 DEF Webhook
      <3>2. QED
        BY <1>4, <3>1 DEF Webhook, row, Policy!vars
    <2>3. QED
      BY <2>1, <2>2
  <1>5. ASSUME NEW r \in Runs, PagerDuty(r) \/ PagerDutyFails(r) PROVE Policy!Next
    <2>1. Policy!Send(r)
      BY <1>5, SendIsSend DEF PagerDuty, PagerDutyFails, Notifying
    <2>2. QED
      BY <2>1 DEF Policy!Next
  <1>6. ASSUME NEW c \in Clients, UpdateConfig(c) PROVE Policy!Next
    BY <1>0, <1>6 DEF UpdateConfig, handlers, Policy!Next, Policy!Configure
  <1>7. ASSUME NEW c \in Clients, NEW f \in Configs, ReadConfig(c, f)
        PROVE  UNCHANGED Policy!vars
    BY <1>7 DEF ReadConfig, row, handlers, Policy!vars
  <1>8. CASE Crash
    BY <1>8 DEF Crash, row, Policy!Next, Policy!Crash, Policy!Nothing, Nothing
  <1>9. CASE UNCHANGED vars
    BY <1>9 DEF vars, Policy!vars
  <1>10. QED
    BY <1>1, <1>2, <1>3, <1>4, <1>5, <1>6, <1>7, <1>8, <1>9 DEF Next, Handler, Request

\* Every step keeps notifications and their handlers together.
LEMMA PendingStep == IInv /\ PendingInv /\ [Next]_vars => PendingInv'
  <1> SUFFICES ASSUME IInv, PendingInv, [Next]_vars PROVE PendingInv'
    OBVIOUS
  <1>0. /\ note \in [Runs -> Note]
        /\ pc \in [Runs -> {"idle", "tx", "webhook", "pagerduty"}]
    BY DEF IInv, TypeOK
  <1>1. ASSUME NEW r \in Runs, NEW p \in BOOLEAN, SelectForUpdate(r, p) PROVE PendingInv'
    BY <1>0, <1>1 DEF SelectForUpdate, PendingInv, Notifying
  <1>2. ASSUME NEW r \in Runs, RecordRunOutcome(r) PROVE PendingInv'
    <2>1. Commit(r, FirstChannel(r))
      BY <1>2 DEF RecordRunOutcome
    <2>2. FirstChannel(r) = "idle" <=> Decision(r) = Nothing
      BY <2>1, DecisionFacts
    <2>3. FirstChannel(r) \in {"idle", "webhook", "pagerduty"}
      BY DEF FirstChannel
    <2>4. QED
      BY <1>0, <2>1, <2>2, <2>3 DEF Commit, PendingInv, Notifying
  <1>3. ASSUME NEW r \in Runs, CommitReplyLost(r) PROVE PendingInv'
    BY <1>0, <1>3 DEF CommitReplyLost, Commit, PendingInv, Notifying
  <1>4. ASSUME NEW r \in Runs, TxFails(r) PROVE PendingInv'
    BY <1>0, <1>4 DEF TxFails, PendingInv, Notifying
  <1>5. ASSUME NEW r \in Runs, Webhook(r) \/ PagerDuty(r) \/ PagerDutyFails(r)
        PROVE  PendingInv'
    BY <1>0, <1>5 DEF Webhook, PagerDuty, PagerDutyFails, PendingInv, Notifying
  <1>6. ASSUME NEW c \in Clients, Request(c) PROVE PendingInv'
    BY <1>6 DEF Request, ReadConfig, UpdateConfig, handlers, PendingInv, Notifying
  <1>7. CASE Crash
    BY <1>7 DEF Crash, PendingInv, Notifying
  <1>8. CASE UNCHANGED vars
    BY <1>8 DEF vars, PendingInv, Notifying
  <1>9. QED
    BY <1>1, <1>2, <1>3, <1>4, <1>5, <1>6, <1>7, <1>8 DEF Next, Handler

-----------------------------------------------------------------------------
(* The properties. *)

\* The variables of the alert model keep their types.
THEOREM TypeCorrect == Spec => []TypeOK
  <1>1. IInv => TypeOK
    BY DEF IInv
  <1>2. QED
    BY <1>1, Invariance, PTL

\* RecordRunOutcome loses no outcome and counts none twice, however many runs of the
\* test end at the same time.
THEOREM NoOutcomeLost == Spec => []StreakCounted
  <1>1. IInv => StreakCounted
    BY DEF IInv
  <1>2. QED
    BY <1>1, Invariance, PTL

\* For every threshold, failure alerts are decided at its multiples and alert_active
\* says whether there was one, as long as the configuration is not changed.
THEOREM PolicyCorrect == Spec => []AlertsOnSchedule
  <1>1. IInv => AlertsOnSchedule
    BY DEF IInv
  <1>2. QED
    BY <1>1, Invariance, PTL

\* The PagerDuty incident follows alert_active as long as no call is lost, no two
\* notifications overlap and the configuration is not changed.
THEOREM IncidentCorrect == Spec => []IncidentMatchesAlert
  <1>1. IInv => IncidentMatchesAlert
    BY DEF IInv
  <1>2. QED
    BY <1>1, Invariance, PTL

\* RecordRunOutcome and the handlers that notify implement the policy in which every
\* outcome is one step, for any number of runs that end together, any configurations
\* and any faults.
THEOREM Implementation == Spec => ImplementsPolicy
  <1>1. Init => PendingInv /\ Policy!Init
    BY DEF Init, PendingInv, Notifying, Policy!Init, Policy!Nothing, Nothing
  <1>2. QED
    BY Invariance, PendingStep, PolicyStep, <1>1, PTL DEF Spec, ImplementsPolicy, Policy!Spec
=============================================================================
