------------------------------- MODULE Alerts -------------------------------
(***************************************************************************)
(* The alert state of one test: the streak counter and alert_active in its *)
(* row, the transaction of RecordRunOutcome, the notifications a handler   *)
(* sends after that transaction, PagerDuty's incidents, and the requests   *)
(* that rewrite the alert configuration in the same row.                   *)
(*                                                                         *)
(* Several runs of the test may end at the same time (manual runs are not  *)
(* serialised).  SELECT ... FOR UPDATE locks the row until the end of the  *)
(* transaction; notifications are sent outside it and are never retried.   *)
(* Every threshold that is stored is positive: upload and PATCH reject     *)
(* others, and the repository would turn them into 3.                      *)
(***************************************************************************)
EXTENDS Naturals, FiniteSets

CONSTANTS Runs,        \* handlers whose run may be ending at the same time
          Clients,     \* configuration requests that may be in progress at once
          Configs,     \* the alert configurations requests may ask for
          Keys,        \* PagerDuty routing keys
          NoKey,       \* no routing key
          NoRun,       \* nobody holds the row lock
          MaxStreak,   \* bound on consecutive failures
          MaxFaults    \* bound on crashes and on failed calls

ASSUME NoAssumption     == NoKey \notin Keys /\ NoRun \notin Runs
ASSUME BoundsAssumption == MaxStreak \in Nat /\ MaxFaults \in Nat
ASSUME ConfigsAssumption ==
    Configs \subseteq [threshold : Nat \ {0}, enabled : BOOLEAN, webhook : BOOLEAN,
                       key : Keys \cup {NoKey}]

VARIABLES
    cfg,          \* failure_threshold, alerts_enabled, webhook_url, pagerduty_routing_key
    consecutive,  \* tests.consecutive_failures
    alertActive,  \* tests.alert_active
    lock,         \* the run whose transaction holds the row lock
    pc,           \* a handler: "idle", in its "tx", about to send to a channel
    passed,       \* the outcome of its run
    read,         \* what its SELECT returned: <<consecutive, alertActive, cfg>>
    note,         \* the notification it was told to send and the key to send it to
    incident,     \* PagerDuty: keys with an open incident for this test
    cpc,          \* a configuration request: "idle", or about to "write"
    cnew,         \* the configuration it will write
    streak,       \* history: failures committed since the last pass
    alerts,       \* history: failure alerts decided in this streak
    steady,       \* history: the configuration has not changed in this streak
    calm,         \* history: nothing was lost, reordered or reconfigured, see Calms
    faults        \* history: faults so far

vars == <<cfg, consecutive, alertActive, lock, pc, passed, read, note, incident,
          cpc, cnew, streak, alerts, steady, calm, faults>>

row      == <<cfg, consecutive, alertActive>>
handlers == <<pc, passed, read, note>>
requests == <<cpc, cnew>>
history  == <<streak, alerts, steady, calm, faults>>

Config == [threshold : Nat \ {0}, enabled : BOOLEAN, webhook : BOOLEAN,
           key : Keys \cup {NoKey}]
Note   == [kind : {"none", "failure", "recovery"}, key : Keys \cup {NoKey}]

Nothing == [kind |-> "none", key |-> NoKey]

\* Values of variables that are not in use.
Unset  == CHOOSE f \in Configs : TRUE
Unread == <<0, FALSE, Unset>>

TypeOK ==
    /\ cfg \in Configs /\ consecutive \in Nat /\ alertActive \in BOOLEAN
    /\ lock \in Runs \cup {NoRun}
    /\ pc \in [Runs -> {"idle", "tx", "webhook", "pagerduty"}]
    /\ passed \in [Runs -> BOOLEAN]
    /\ read \in [Runs -> Nat \X BOOLEAN \X Configs]
    /\ note \in [Runs -> Note]
    /\ incident \subseteq Keys
    /\ cpc \in [Clients -> {"idle", "write"}]
    /\ cnew \in [Clients -> Configs]
    /\ streak \in Nat /\ alerts \in Nat
    /\ steady \in BOOLEAN /\ calm \in BOOLEAN
    /\ faults \in Nat

\* A test as it is uploaded.
Init ==
    /\ cfg \in Configs
    /\ consecutive = 0 /\ alertActive = FALSE
    /\ lock = NoRun
    /\ pc = [r \in Runs |-> "idle"]
    /\ passed = [r \in Runs |-> FALSE]
    /\ read = [r \in Runs |-> Unread]
    /\ note = [r \in Runs |-> Nothing]
    /\ incident = {}
    /\ cpc = [c \in Clients |-> "idle"]
    /\ cnew = [c \in Clients |-> Unset]
    /\ streak = 0 /\ alerts = 0 /\ steady = TRUE /\ calm = TRUE /\ faults = 0

Notifying(r) == pc[r] \in {"webhook", "pagerduty"}

Fault == faults < MaxFaults /\ faults' = faults + 1

-----------------------------------------------------------------------------
(* RecordRunOutcome. *)

\* Mutant: the row is read without FOR UPDATE.
SelectPlain(r, p) ==
    /\ pc[r] = "idle"
    /\ p \/ streak < MaxStreak
    /\ lock' = r
    /\ pc' = [pc EXCEPT ![r] = "tx"]
    /\ passed' = [passed EXCEPT ![r] = p]
    /\ read' = [read EXCEPT ![r] = <<consecutive, alertActive, cfg>>]
    /\ UNCHANGED <<row, note, incident, requests, history>>

\* BEGIN; SELECT ... FOR UPDATE: waits for the row lock.
SelectForUpdate(r, p) ==
    /\ pc[r] = "idle" /\ lock = NoRun
    /\ p \/ streak < MaxStreak
    /\ lock' = r
    /\ pc' = [pc EXCEPT ![r] = "tx"]
    /\ passed' = [passed EXCEPT ![r] = p]
    /\ read' = [read EXCEPT ![r] = <<consecutive, alertActive, cfg>>]
    /\ UNCHANGED <<row, note, incident, requests, history>>

AnyTarget(f) == f.webhook \/ f.key # NoKey

\* Mutant: an alert on every failure from the threshold on.
FailureAlertEvery(n, t) == n >= t

FailureAlertDue(n, t) == n >= t /\ n % t = 0

NewStreak(r) == IF passed[r] THEN 0 ELSE read[r][1] + 1

NewActive(r) == ~passed[r] /\ NewStreak(r) >= read[r][3].threshold

SendRecovery(r) == passed[r] /\ read[r][2] /\ AnyTarget(read[r][3]) /\ read[r][3].enabled

SendFailure(r) ==
    /\ ~passed[r] /\ AnyTarget(read[r][3]) /\ read[r][3].enabled
    /\ FailureAlertDue(NewStreak(r), read[r][3].threshold)

Decision(r) ==
    IF SendRecovery(r) THEN [kind |-> "recovery", key |-> read[r][3].key]
    ELSE IF SendFailure(r) THEN [kind |-> "failure", key |-> read[r][3].key]
    ELSE Nothing

\* The first channel to send to; a channel that is not configured is skipped.
FirstChannel(r) ==
    IF Decision(r) = Nothing THEN "idle"
    ELSE IF read[r][3].webhook THEN "webhook" ELSE "pagerduty"

\* A pass while nothing is being sent and no incident is open starts afresh.
Calms(r) ==
    /\ passed[r]
    /\ incident = {}
    /\ \A q \in Runs : ~Notifying(q)

\* The UPDATE and the COMMIT.  next is what the handler does then.
Commit(r, next) ==
    /\ pc[r] = "tx"
    /\ consecutive' = NewStreak(r)
    /\ alertActive' = NewActive(r)
    /\ lock' = NoRun
    /\ pc' = [pc EXCEPT ![r] = next]
    /\ note' = [note EXCEPT ![r] = IF next = "idle" THEN Nothing ELSE Decision(r)]
    /\ streak' = IF passed[r] THEN 0 ELSE streak + 1
    /\ alerts' = IF passed[r] THEN 0 ELSE IF SendFailure(r) THEN alerts + 1 ELSE alerts
    /\ steady' = (steady \/ passed[r])
    /\ passed' = [passed EXCEPT ![r] = FALSE]
    /\ read' = [read EXCEPT ![r] = Unread]
    /\ UNCHANGED <<cfg, incident, requests>>

RecordRunOutcome(r) ==
    /\ Commit(r, FirstChannel(r))
    /\ calm' = (Calms(r) \/ (calm /\ \A q \in Runs : ~Notifying(q)))
    /\ UNCHANGED faults

\* The COMMIT takes effect but its reply is lost: the error is logged, nothing sent.
CommitReplyLost(r) ==
    /\ Commit(r, "idle")
    /\ Fault
    /\ calm' = (Calms(r) \/ (calm /\ Decision(r) = Nothing /\ \A q \in Runs : ~Notifying(q)))

\* The transaction fails and is rolled back: the error is logged, the run not counted.
TxFails(r) ==
    /\ pc[r] = "tx"
    /\ Fault
    /\ lock' = NoRun
    /\ pc' = [pc EXCEPT ![r] = "idle"]
    /\ passed' = [passed EXCEPT ![r] = FALSE]
    /\ read' = [read EXCEPT ![r] = Unread]
    /\ UNCHANGED <<row, note, incident, requests, streak, alerts, steady, calm>>

-----------------------------------------------------------------------------
(* NotifyFailure and NotifyRecovery. *)

\* Mutant: a failing webhook ends the notification.
WebhookFailureStops(r) ==
    /\ pc[r] = "webhook"
    /\ \/ pc' = [pc EXCEPT ![r] = "idle"] /\ note' = [note EXCEPT ![r] = Nothing]
       \/ note[r].key # NoKey /\ pc' = [pc EXCEPT ![r] = "pagerduty"] /\ UNCHANGED note
    /\ UNCHANGED <<row, lock, passed, read, incident, requests, history>>

\* The webhook is sent to first; whether that fails makes no difference.
Webhook(r) ==
    /\ pc[r] = "webhook"
    /\ pc' = [pc EXCEPT ![r] = IF note[r].key = NoKey THEN "idle" ELSE "pagerduty"]
    /\ note' = [note EXCEPT ![r] = IF note[r].key = NoKey THEN Nothing ELSE @]
    /\ UNCHANGED <<row, lock, passed, read, incident, requests, history>>

\* The dedup key is the test's: a trigger joins an open incident, a resolve ends it.
PagerDuty(r) ==
    /\ pc[r] = "pagerduty"
    /\ incident' = IF note[r].kind = "failure" THEN incident \cup {note[r].key}
                   ELSE incident \ {note[r].key}
    /\ pc' = [pc EXCEPT ![r] = "idle"]
    /\ note' = [note EXCEPT ![r] = Nothing]
    /\ UNCHANGED <<row, lock, passed, read, requests, history>>

PagerDutyFails(r) ==
    /\ pc[r] = "pagerduty"
    /\ Fault
    /\ pc' = [pc EXCEPT ![r] = "idle"]
    /\ note' = [note EXCEPT ![r] = Nothing]
    /\ calm' = FALSE
    /\ UNCHANGED <<row, lock, passed, read, incident, requests, streak, alerts, steady>>

\* The process dies: transactions roll back, notifications are forgotten.
Crash ==
    /\ Fault
    /\ lock' = NoRun
    /\ pc' = [r \in Runs |-> "idle"]
    /\ note' = [r \in Runs |-> Nothing]
    /\ cpc' = [c \in Clients |-> "idle"]
    /\ cnew' = [c \in Clients |-> Unset]
    /\ passed' = [r \in Runs |-> FALSE]
    /\ read' = [r \in Runs |-> Unread]
    /\ calm' = (calm /\ \A r \in Runs : ~Notifying(r))
    /\ UNCHANGED <<row, incident, streak, alerts, steady>>

-----------------------------------------------------------------------------
(* Configuration requests read the row and later write all of its settings.  The     *)
(* schedule requests write back the alert settings they have read.                   *)

ReadConfig(c, f) ==
    /\ cpc[c] = "idle"
    /\ cpc' = [cpc EXCEPT ![c] = "write"]
    /\ cnew' = [cnew EXCEPT ![c] = f]
    /\ UNCHANGED <<row, lock, handlers, incident, history>>

\* Mutant: the read of RecordRunOutcome does not hold a configuration write back.
UpdateConfigAtOnce(c) ==
    /\ cpc[c] = "write"
    /\ cfg' = cnew[c]
    /\ cpc' = [cpc EXCEPT ![c] = "idle"]
    /\ steady' = (steady /\ cnew[c] = cfg)
    /\ calm' = (calm /\ cnew[c] = cfg)
    /\ cnew' = [cnew EXCEPT ![c] = Unset]
    /\ UNCHANGED <<consecutive, alertActive, lock, handlers, incident, streak, alerts,
                   faults>>

\* The UPDATE waits for the row lock and leaves the streak alone.
UpdateConfig(c) ==
    /\ cpc[c] = "write" /\ lock = NoRun
    /\ cfg' = cnew[c]
    /\ cpc' = [cpc EXCEPT ![c] = "idle"]
    /\ steady' = (steady /\ cnew[c] = cfg)
    /\ calm' = (calm /\ cnew[c] = cfg)
    /\ cnew' = [cnew EXCEPT ![c] = Unset]
    /\ UNCHANGED <<consecutive, alertActive, lock, handlers, incident, streak, alerts,
                   faults>>

-----------------------------------------------------------------------------

Handler(r) ==
    \/ \E p \in BOOLEAN : SelectForUpdate(r, p)
    \/ RecordRunOutcome(r) \/ CommitReplyLost(r) \/ TxFails(r)
    \/ Webhook(r) \/ PagerDuty(r) \/ PagerDutyFails(r)

Request(c) == (\E f \in Configs : ReadConfig(c, f)) \/ UpdateConfig(c)

Next ==
    \/ \E r \in Runs : Handler(r)
    \/ \E c \in Clients : Request(c)
    \/ Crash

Spec == Init /\ [][Next]_vars

-----------------------------------------------------------------------------
(* Properties. *)

\* No outcome is lost or counted twice: however the transactions of runs that end
\* together, their failures and the configuration writes interleave, the row counts
\* exactly the failures committed since the last pass.
StreakCounted == consecutive = streak

Alerting == cfg.enabled /\ AnyTarget(cfg)

\* What FailureAlertDue is for: while the configuration stays as it is, a streak of n
\* failures has decided n \div threshold failure alerts, and alert_active, which
\* decides about the recovery notice, says whether there was one.
AlertsOnSchedule ==
    steady /\ Alerting =>
        /\ alerts = streak \div cfg.threshold
        /\ alertActive <=> alerts > 0

\* PagerDuty shows what the row says: once nothing is being sent, the test has an open
\* incident exactly while alert_active is set, unless since it last started afresh a
\* PagerDuty call was lost, a run ended while another was still notifying, or the
\* configuration changed.  In particular a failing webhook does not matter.
IncidentMatchesAlert ==
    calm /\ Alerting /\ cfg.key # NoKey /\ (\A r \in Runs : ~Notifying(r)) =>
        (cfg.key \in incident <=> alertActive)

Policy == INSTANCE AlertPolicy

\* The transactions, with their reads and writes apart, failing or losing their reply,
\* and the configuration writes between them have the effect of module AlertPolicy:
\* every outcome is applied at once, its notification is decided from the row of that
\* very moment, and incidents move only by notifications so decided.
ImplementsPolicy == Policy!Spec

\* What the README says of the PagerDuty channel, that the incident is resolved when
\* the test passes: no incident is open once the last outcome recorded is a pass and
\* its notification has been sent.
ResolvedOnRecovery ==
    streak = 0 /\ lock = NoRun /\ (\A r \in Runs : ~Notifying(r)) => incident = {}
=============================================================================
