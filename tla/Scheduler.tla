------------------------------ MODULE Scheduler ------------------------------
(***************************************************************************)
(* Scheduled runs: the scheduler's tick and fire, the schedule columns of  *)
(* the tests table, and the requests that read and rewrite a whole         *)
(* configuration row (/schedule/start, /schedule/stop, PATCH config), next *)
(* to manual runs, deletes and crashes.                                    *)
(*                                                                         *)
(* The clock counts the instants at which some cron expression matches.    *)
(* Only expressions that parse are stored.  NextRun is computed from the   *)
(* clock of the moment, so a time that is written later may have passed by *)
(* then.  For an expression that never matches, such as 31 February, the   *)
(* cron library answers with the zero time, which is due at once.          *)
(* ListDueScheduled's LIMIT 100 is not reached.                            *)
(***************************************************************************)
EXTENDS Naturals, FiniteSets

CONSTANTS Tests,
          Crons,       \* cron expressions that parse
          Matches,     \* the instants each of them matches, none for 31 February
          NoCron,      \* schedule_cron is NULL
          Clients,     \* configuration requests that may be in progress at once
          MaxManual,   \* bound on active manual jobs per test
          Null,        \* next_run_at is NULL
          Horizon      \* bound on the clock: the last instant anything is planned for

Times == 1 .. Horizon
Zero  == 0             \* Go's zero time, before every instant

\* An expression that matches at all has a match after every instant of the clock.
ASSUME CronAssumption ==
    /\ NoCron \notin Crons
    /\ Matches \in [Crons -> SUBSET Times]
    /\ \A k \in Crons : Matches[k] = {} \/ Horizon \in Matches[k]
ASSUME BoundsAssumption == MaxManual \in Nat /\ Horizon \in Nat \ {0} /\ Null \notin Nat

VARIABLES
    exists,    \* tests that have a row
    row,       \* schedule_enabled, schedule_cron, next_run_at
    sched,     \* number of queued or running jobs with trigger "scheduled"
    manual,    \* number of queued or running jobs with trigger "manual"
    paused,    \* Scheduler.paused
    spc,       \* the scheduler goroutine: "idle", or the next call of fire
    now,       \* the time the current tick started at
    due,       \* tests the current tick has listed and not fired yet
    cur,       \* the test being fired
    lcron,     \* the cron expression a listed test was listed with
    lnext,     \* the next_run_at it was listed with
    cpc,       \* a configuration request: "idle", or about to "write"
    ctest,     \* its test
    cnew,      \* the row it computed from the row it read
    clock,     \* the instants that have passed
    moved,     \* history: times of a test that fire has replaced by a later one
    runs,      \* history: scheduled jobs enqueued per time
    putback,   \* history: configuration writes per time that put a moved time back
    late       \* history: scheduled jobs enqueued since the schedule was disabled

vars == <<exists, row, sched, manual, paused, spc, now, due, cur, lcron, lnext, cpc, ctest,
          cnew, clock, moved, runs, putback, late>>

jobs      == <<sched, manual>>
listed    == <<now, lcron, lnext>>
scheduler == <<spc, due, cur, listed>>
requests  == <<cpc, ctest, cnew>>
history   == <<moved, runs, putback, late>>

NextRunAt == Times \cup {Zero, Null}
Row == [enabled : BOOLEAN, cron : Crons \cup {NoCron}, next : NextRunAt]

\* The first match after a time, or the zero time if there is none.
NextRun(cron, from) ==
    LET after == {k \in Matches[cron] : k > from}
    IN  IF after = {} THEN Zero ELSE CHOOSE k \in after : \A m \in after : k <= m

\* The row of a test without a schedule.
Blank == [enabled |-> FALSE, cron |-> NoCron, next |-> Null]

\* A request's row, with next_run_at as of the moment it is computed.
NewRow(enabled, cron) ==
    [enabled |-> enabled, cron |-> cron,
     next |-> IF enabled /\ cron # NoCron THEN NextRun(cron, clock) ELSE Null]

TypeOK ==
    /\ exists \subseteq Tests
    /\ row \in [Tests -> Row]
    /\ sched \in [Tests -> Nat] /\ manual \in [Tests -> Nat]
    /\ paused \in BOOLEAN
    /\ spc \in {"idle", "update", "check", "enqueue"}
    /\ now \in Nat /\ clock \in Nat
    /\ due \subseteq Tests /\ cur \in Tests
    /\ lcron \in [Tests -> Crons \cup {NoCron}]
    /\ lnext \in [Tests -> NextRunAt]
    /\ cpc \in [Clients -> {"idle", "write"}]
    /\ ctest \in [Clients -> Tests]
    /\ cnew \in [Clients -> Row]
    /\ moved \in [Tests -> SUBSET Times]
    /\ runs \in [Tests -> [Times -> Nat]]
    /\ putback \in [Tests -> [Times -> Nat]]
    /\ late \in [Tests -> Nat]

\* Tests are uploaded with or without an enabled schedule.
Init ==
    /\ clock = 0
    /\ exists = Tests
    /\ row \in [Tests -> {NewRow(TRUE, k) : k \in Crons} \cup {Blank}]
    /\ sched = [t \in Tests |-> 0] /\ manual = [t \in Tests |-> 0]
    /\ paused = FALSE
    /\ spc = "idle" /\ now = 0 /\ due = {} /\ cur \in Tests
    /\ lcron = [t \in Tests |-> NoCron]
    /\ lnext = [t \in Tests |-> Null]
    /\ cpc = [c \in Clients |-> "idle"]
    /\ ctest \in [Clients -> Tests]
    /\ cnew = [c \in Clients |-> Blank]
    /\ moved = [t \in Tests |-> {}]
    /\ runs = [t \in Tests |-> [k \in Times |-> 0]]
    /\ putback = [t \in Tests |-> [k \in Times |-> 0]]
    /\ late = [t \in Tests |-> 0]

-----------------------------------------------------------------------------
(* The clock, manual runs, and the end of jobs. *)

Elapse ==
    /\ clock + 1 < Horizon
    /\ clock' = clock + 1
    /\ UNCHANGED <<exists, row, jobs, paused, scheduler, requests, history>>

Run(t) ==
    /\ t \in exists /\ manual[t] < MaxManual
    /\ manual' = [manual EXCEPT ![t] = @ + 1]
    /\ UNCHANGED <<exists, row, sched, paused, scheduler, requests, clock, history>>

\* A job reaches a final status: completed, failed, cancelled or swept.
JobEnds(t) ==
    /\ \/ sched[t] > 0 /\ sched' = [sched EXCEPT ![t] = @ - 1] /\ UNCHANGED manual
       \/ manual[t] > 0 /\ manual' = [manual EXCEPT ![t] = @ - 1] /\ UNCHANGED sched
    /\ UNCHANGED <<exists, row, paused, scheduler, requests, clock, history>>

DeleteTest(t) ==
    /\ t \in exists
    /\ exists' = exists \ {t}
    /\ row' = [row EXCEPT ![t] = Blank]
    /\ sched' = [sched EXCEPT ![t] = 0]
    /\ manual' = [manual EXCEPT ![t] = 0]
    /\ late' = [late EXCEPT ![t] = 0]
    /\ UNCHANGED <<paused, scheduler, requests, clock, moved, runs, putback>>

-----------------------------------------------------------------------------
(* The scheduler goroutine. *)

\* Mutant: the query does not look at schedule_enabled.
IsDueAnyway(t) ==
    /\ t \in exists /\ row[t].cron # NoCron
    /\ row[t].next # Null /\ row[t].next <= clock

\* ListDueScheduled's WHERE clause.
IsDue(t) ==
    /\ t \in exists /\ row[t].enabled /\ row[t].cron # NoCron
    /\ row[t].next # Null /\ row[t].next <= clock

Tick ==
    /\ spc = "idle" /\ due = {} /\ ~paused
    /\ \E t \in Tests : IsDue(t)
    /\ now' = clock
    /\ due' = {t \in Tests : IsDue(t)}
    /\ lcron' = [t \in Tests |-> IF IsDue(t) THEN row[t].cron ELSE NoCron]
    /\ lnext' = [t \in Tests |-> IF IsDue(t) THEN row[t].next ELSE Null]
    /\ UNCHANGED <<exists, row, jobs, paused, spc, cur, requests, clock, history>>

\* fire starts on the next listed test.
Fire(t) ==
    /\ spc = "idle" /\ t \in due
    /\ spc' = "update" /\ cur' = t /\ due' = due \ {t}
    /\ UNCHANGED <<exists, row, jobs, paused, listed, requests, clock, history>>

\* Mutant: next_run_at is written without moving it forward.
UpdateNextRunAtNoop ==
    /\ spc = "update"
    /\ spc' = "check"
    /\ UNCHANGED <<exists, row, jobs, paused, due, cur, listed, requests, clock, history>>

\* next_run_at is computed from the tick's time and the cron expression as it was
\* listed, and written whatever the row says by now; a deleted row is no error.
UpdateNextRunAt ==
    /\ spc = "update"
    /\ row' = IF cur \in exists THEN [row EXCEPT ![cur].next = NextRun(lcron[cur], now)]
              ELSE row
    /\ moved' = [moved EXCEPT ![cur] = @ \cup ({lnext[cur]} \cap Times)]
    /\ spc' = "check"
    /\ UNCHANGED <<exists, jobs, paused, due, cur, listed, requests, clock, runs, putback,
                   late>>

\* fire is done with its test.
FireReturns ==
    /\ spc' = "idle"
    /\ lcron' = [lcron EXCEPT ![cur] = NoCron]
    /\ lnext' = [lnext EXCEPT ![cur] = Null]
    /\ UNCHANGED now

\* Mutant: the result of HasActiveJob is not used.
HasActiveJobIgnored ==
    /\ spc = "check"
    /\ spc' = "enqueue"
    /\ UNCHANGED <<exists, row, jobs, paused, due, cur, listed, requests, clock, history>>

HasActiveJob ==
    /\ spc = "check"
    /\ \/ sched[cur] + manual[cur] = 0 /\ spc' = "enqueue" /\ UNCHANGED listed
       \/ sched[cur] + manual[cur] > 0 /\ FireReturns
    /\ UNCHANGED <<exists, row, jobs, paused, due, cur, requests, clock, history>>

Enqueue ==
    /\ spc = "enqueue"
    /\ cur \in exists
    /\ sched' = [sched EXCEPT ![cur] = @ + 1]
    /\ runs' = IF lnext[cur] = Zero THEN runs ELSE [runs EXCEPT ![cur][lnext[cur]] = @ + 1]
    /\ late' = IF row[cur].enabled THEN late ELSE [late EXCEPT ![cur] = @ + 1]
    /\ FireReturns
    /\ UNCHANGED <<exists, row, manual, paused, due, cur, requests, clock, moved, putback>>

\* Any of fire's calls fails (for Enqueue also on the foreign key): fire returns.
FireFails ==
    /\ spc # "idle"
    /\ FireReturns
    /\ UNCHANGED <<exists, row, jobs, paused, due, cur, requests, clock, history>>

Pause  == ~paused /\ paused' = TRUE
          /\ UNCHANGED <<exists, row, jobs, scheduler, requests, clock, history>>
Resume == paused /\ paused' = FALSE
          /\ UNCHANGED <<exists, row, jobs, scheduler, requests, clock, history>>

\* The process is restarted: the tick and the pause flag are forgotten.
Crash ==
    /\ spc' = "idle" /\ now' = 0 /\ due' = {} /\ paused' = FALSE
    /\ lcron' = [t \in Tests |-> NoCron]
    /\ lnext' = [t \in Tests |-> Null]
    /\ cpc' = [c \in Clients |-> "idle"]
    /\ cnew' = [c \in Clients |-> Blank]
    /\ UNCHANGED <<exists, row, jobs, cur, ctest, clock, history>>

-----------------------------------------------------------------------------
(* Configuration requests read the row and later write all of it. *)

Read(c, t, new) ==
    /\ cpc[c] = "idle" /\ t \in exists
    /\ cpc' = [cpc EXCEPT ![c] = "write"]
    /\ ctest' = [ctest EXCEPT ![c] = t]
    /\ cnew' = [cnew EXCEPT ![c] = new]
    /\ UNCHANGED <<exists, row, jobs, paused, scheduler, clock, history>>

enableSchedule(c, t) ==
    /\ row[t].cron # NoCron
    /\ Read(c, t, NewRow(TRUE, row[t].cron))

disableSchedule(c, t) == Read(c, t, NewRow(FALSE, row[t].cron))

\* Mutant: a request may enable a schedule that has no cron expression.
updateTestConfigNoCronCheck(c, t, ask, cron) ==
    LET enabled == IF ask = "keep" THEN row[t].enabled ELSE ask = "on"
    IN  Read(c, t, NewRow(enabled, cron))

\* PATCH sets or keeps the cron and the flag; enabling needs a cron.
updateTestConfig(c, t, ask, cron) ==
    LET enabled == IF ask = "keep" THEN row[t].enabled ELSE ask = "on"
    IN  /\ enabled => cron # NoCron
        /\ Read(c, t, NewRow(enabled, cron))

\* The request is over, and its copy of the row forgotten.
Answer(c) ==
    /\ cpc' = [cpc EXCEPT ![c] = "idle"]
    /\ cnew' = [cnew EXCEPT ![c] = Blank]
    /\ UNCHANGED ctest

\* Every column is written as it was computed, next_run_at too, whatever the clock
\* and the scheduler have done since.
UpdateConfig(c) ==
    LET t == ctest[c]
        n == cnew[c].next
    IN
    /\ cpc[c] = "write"
    /\ Answer(c)
    /\ IF t \in exists
       THEN /\ row' = [row EXCEPT ![t] = cnew[c]]
            /\ putback' = IF n \in moved[t]
                          THEN [putback EXCEPT ![t][n] = @ + 1] ELSE putback
            /\ late' = [late EXCEPT ![t] = IF cnew[c].enabled THEN 0 ELSE @]
       ELSE UNCHANGED <<row, putback, late>>
    /\ UNCHANGED <<exists, jobs, paused, scheduler, clock, moved, runs>>

AbortRequest(c) ==
    /\ cpc[c] = "write"
    /\ Answer(c)
    /\ UNCHANGED <<exists, row, jobs, paused, scheduler, clock, history>>

-----------------------------------------------------------------------------

FireStep == UpdateNextRunAt \/ HasActiveJob \/ Enqueue \/ FireFails

Request(c) ==
    \/ \E t \in Tests : enableSchedule(c, t) \/ disableSchedule(c, t)
    \/ \E t \in Tests, ask \in {"keep", "on", "off"}, cron \in Crons \cup {NoCron} :
          updateTestConfig(c, t, ask, cron)
    \/ UpdateConfig(c) \/ AbortRequest(c)

Next ==
    \/ \E t \in Tests : Run(t) \/ JobEnds(t) \/ DeleteTest(t) \/ Fire(t)
    \/ Elapse \/ Tick \/ FireStep \/ Pause \/ Resume \/ Crash
    \/ \E c \in Clients : Request(c)

Spec == Init /\ [][Next]_vars

\* The ticker keeps ticking and fire's calls return; a listed test is not lost to a
\* crash, nor the UPDATE of its next_run_at to an error, every single time.
Fairness ==
    /\ WF_vars(Tick) /\ WF_vars(FireStep)
    /\ \A t \in Tests : SF_vars(Fire(t)) /\ SF_vars(cur = t /\ UpdateNextRunAt)

FairSpec == Spec /\ Fairness

-----------------------------------------------------------------------------
(* Properties. *)

\* Scheduled runs of a test never overlap each other, although HasActiveJob and
\* Enqueue are separate calls: only the one scheduler goroutine adds such jobs.
OneScheduledRun == \A t \in Tests : sched[t] <= 1

\* An enabled schedule can fire: it has a cron expression and a next_run_at, however
\* requests that rewrite the row and the scheduler's own update interleave.
EnabledIsLive ==
    \A t \in exists : row[t].enabled => row[t].cron # NoCron /\ row[t].next # Null

\* A scheduled time is run at most once, plus once for each configuration write that
\* put it back after the scheduler had moved on (a PATCH or /schedule/start computes
\* next_run_at before its UPDATE).  Nothing else doubles a run: not an error or a crash
\* between fire's calls, a tick that works from an old list, or two requests at once.
DoubledOnlyByStaleWrite ==
    \A t \in Tests, k \in Times : runs[t][k] <= 1 + putback[t][k]

\* A disabled schedule enqueues at most the one run that was being fired.
AtMostOneLateRun ==
    \A t \in Tests : t \in exists /\ ~row[t].enabled => late[t] <= 1

\* A due schedule is served: next_run_at moves past the clock, unless the schedule is
\* disabled or deleted, the scheduler paused, or the cron expression matches no date.
DueIsServed ==
    \A t \in Tests : IsDue(t) ~> ~IsDue(t) \/ paused \/ NextRun(row[t].cron, clock) = Zero

=============================================================================
