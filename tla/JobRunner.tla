------------------------------ MODULE JobRunner ------------------------------
(***************************************************************************)
(* The life of a job: the jobs table, the worker's handlers (handleJob and *)
(* executeJob), docker and the in-memory registry of running commands, the *)
(* stale-job sweeper, the /stop and DELETE /tests/{id} handlers, and the   *)
(* server process that hosts all of them and may be shut down or crash.    *)
(*                                                                         *)
(* A job id is a number, its queued_at stamp: Dequeue takes the least.     *)
(* TestOf gives the test_id an id is inserted with.  The stamp is taken    *)
(* before the INSERT, so rows may appear out of stamp order.               *)
(*                                                                         *)
(* A database call that can fail has a failing outcome of its own, and so  *)
(* has docker rm -f, whose error KillContainer drops and nobody retries.   *)
(* Time is left open: a timeout or an expiry may happen whenever its guard *)
(* holds, because no step around the container run has a bounded duration. *)
(***************************************************************************)
EXTENDS Naturals, FiniteSets

CONSTANTS Jobs,       \* job ids, in queued_at order
          Tests,
          TestOf,     \* jobs.test_id
          Slots,      \* WORKER_CONCURRENCY handler slots
          Clients,    \* HTTP requests that may be in progress at once
          MaxStops,   \* bound on shutdowns and crashes together
          MaxLeft     \* bound on containers that stay behind at once

ASSUME JobsAssumption   == Jobs \subseteq Nat \ {0}
ASSUME TestOfAssumption == TestOf \in [Jobs -> Tests]
ASSUME StopsAssumption  == MaxStops \in Nat /\ MaxLeft \in Nat

VARIABLES
    status,    \* jobs.status; "none": not inserted yet, "deleted": row removed
    claimed,   \* jobs whose started_at is set
    exists,    \* tests that have a row
    recorded,  \* jobs that have a tests_runs row; that retention prunes it later is left
               \* to Retention, and whether the run passed to Execute and Alerts
    phase,     \* the server process: "up", "closing", "draining" or "down"
    stops,     \* how often a shutdown or crash began
    lost,      \* whether the process ever ended with a handler or a Cancel in progress
    pc,        \* where a slot's handler is; "idle": the slot is free
    job,       \* the job a slot handles, NoJob when it is free
    out,       \* what a handler knows of its run (see Outcome)
    cont,      \* jobs whose container runs on the docker host
    sweepIds,  \* ids FailStale returned whose containers are still to be killed
    creq,      \* what a request does next: "idle", "kill", "cancel", "delete"
    cop,       \* its operation, "stop" or "delete"
    ctest,     \* its test
    ckill,     \* the running jobs it listed and has not passed to Cancel yet
    crm,       \* the job whose container its Cancel is about to remove, or NoJob
    left,      \* history: containers that stayed behind when docker rm or Wait failed
    starts,    \* history: how often a job's docker command was started
    stopped    \* history: jobs whose cancellation has to stand (see StopHonoured)

db       == <<status, claimed, exists, recorded>>
proc     == <<phase, stops, lost>>
slots    == <<pc, job, out>>
requests == <<creq, cop, ctest, ckill, crm>>
history  == <<left, starts, stopped>>
vars     == <<db, proc, slots, cont, sweepIds, requests, history>>

NoJob  == 0
Status == {"none", "queued", "running", "completed", "failed", "cancelled", "deleted"}
Active == {"queued", "running"}

PC == {"idle", "check", "prepare", "start", "spawned", "running",
       "record", "final", "complete", "panicked"}

\* Execute's progress, then the status handleJob is to write: the docker CLI is
\* "starting" until the daemon has created the container, "up" while it runs, and
\* leaves an exit status, the deadline ("timeout"), or an error of Start or Wait.
ExecResult == {"exited", "timeout", "error"}
Outcome    == {"none", "starting", "up", "completed", "failed"} \cup ExecResult

Up == phase # "down"

TypeOK ==
    /\ status \in [Jobs -> Status]
    /\ claimed \subseteq Jobs
    /\ exists \subseteq Tests
    /\ recorded \subseteq Jobs
    /\ phase \in {"up", "closing", "draining", "down"}
    /\ stops \in 0..MaxStops
    /\ lost \in BOOLEAN
    /\ pc \in [Slots -> PC]
    /\ job \in [Slots -> Jobs \cup {NoJob}]
    /\ out \in [Slots -> Outcome]
    /\ cont \subseteq Jobs
    /\ sweepIds \subseteq Jobs
    /\ creq \in [Clients -> {"idle", "kill", "cancel", "delete"}]
    /\ cop \in [Clients -> {"stop", "delete"}]
    /\ ctest \in [Clients -> Tests]
    /\ ckill \in [Clients -> SUBSET Jobs]
    /\ crm \in [Clients -> Jobs \cup {NoJob}]
    /\ left \subseteq Jobs
    /\ starts \in [Jobs -> Nat]
    /\ stopped \subseteq Jobs

Init ==
    /\ status = [j \in Jobs |-> "none"]
    /\ claimed = {}
    /\ exists = Tests
    /\ recorded = {}
    /\ phase = "up" /\ stops = 0 /\ lost = FALSE
    /\ pc = [s \in Slots |-> "idle"]
    /\ job = [s \in Slots |-> NoJob]
    /\ out = [s \in Slots |-> "none"]
    /\ cont = {}
    /\ sweepIds = {}
    /\ creq = [c \in Clients |-> "idle"]
    /\ cop = [c \in Clients |-> "stop"]
    /\ ctest \in [Clients -> Tests]
    /\ ckill = [c \in Clients |-> {}]
    /\ crm = [c \in Clients |-> NoJob]
    /\ left = {}
    /\ starts = [j \in Jobs |-> 0]
    /\ stopped = {}

-----------------------------------------------------------------------------
(* The queue.  Run and the scheduler insert a job; the foreign key refuses one
   whose test has been deleted since the handler looked it up. *)

Enqueue(j) ==
    /\ Up
    /\ status[j] = "none"
    /\ TestOf[j] \in exists
    /\ status' = [status EXCEPT ![j] = "queued"]
    /\ UNCHANGED <<claimed, exists, recorded, proc, slots, cont, sweepIds,
                   requests, history>>

\* Mutant: the sub-select does not insist on queued rows.
OldestActive(j) ==
    /\ status[j] \in Active
    /\ \A k \in Jobs : status[k] \in Active => j <= k

\* The row Dequeue's sub-select picks: the oldest queued job.
Oldest(j) ==
    /\ status[j] = "queued"
    /\ \A k \in Jobs : status[k] = "queued" => j <= k

\* The pool claims only until stopWorker cancels its context, and only with a
\* free slot.
MayClaim(s) == phase \in {"up", "closing"} /\ pc[s] = "idle"

Dequeue(s, j) ==
    /\ MayClaim(s)
    /\ Oldest(j)
    /\ status' = [status EXCEPT ![j] = "running"]
    /\ claimed' = claimed \cup {j}
    /\ pc' = [pc EXCEPT ![s] = "check"]
    /\ job' = [job EXCEPT ![s] = j]
    /\ UNCHANGED <<exists, recorded, proc, out, cont, sweepIds, requests, history>>

\* The UPDATE commits but its reply does not arrive (connection lost, or the
\* context is cancelled): the row is running and nobody handles it.
DequeueReplyLost(s, j) ==
    /\ MayClaim(s)
    /\ Oldest(j)
    /\ status' = [status EXCEPT ![j] = "running"]
    /\ claimed' = claimed \cup {j}
    /\ UNCHANGED <<exists, recorded, proc, slots, cont, sweepIds, requests, history>>

-----------------------------------------------------------------------------
(* The handler of one job. *)

Goto(s, label) == pc' = [pc EXCEPT ![s] = label]
Know(s, o)     == out' = [out EXCEPT ![s] = o]

Release(s) ==
    /\ pc' = [pc EXCEPT ![s] = "idle"]
    /\ job' = [job EXCEPT ![s] = NoJob]
    /\ out' = [out EXCEPT ![s] = "none"]

\* handleJob's first GetStatus: a read error (or a deleted row) does not stop it.
CheckBeforeRun(s) ==
    /\ pc[s] = "check"
    /\ \/ status[job[s]] = "cancelled" /\ Release(s)
       \/ Goto(s, "prepare") /\ UNCHANGED <<job, out>>
    /\ UNCHANGED <<db, proc, cont, sweepIds, requests, history>>

\* executeJob up to runtime.Execute: the test row is read, the artifact is
\* downloaded and unpacked, the environment loaded.
Prepare(s) ==
    /\ pc[s] = "prepare"
    /\ TestOf[job[s]] \in exists
    /\ Goto(s, "start")
    /\ UNCHANGED <<db, proc, job, out, cont, sweepIds, requests, history>>

PrepareFails(s) ==
    /\ pc[s] = "prepare"
    /\ Goto(s, "final") /\ Know(s, "failed")
    /\ UNCHANGED <<db, proc, job, cont, sweepIds, requests, history>>

\* cmd.Start of "docker run --rm --name byot-<job>".  The status is not read again.
StartCommand(s) ==
    /\ pc[s] = "start"
    /\ Goto(s, "spawned") /\ Know(s, "starting")
    /\ starts' = [starts EXCEPT ![job[s]] = @ + 1]
    /\ UNCHANGED <<db, proc, job, cont, sweepIds, requests, left, stopped>>

\* A pipe or the start itself fails: Execute returns an error, and the run is
\* recorded all the same.
StartFails(s) ==
    /\ pc[s] = "start"
    /\ Goto(s, "record") /\ Know(s, "error")
    /\ UNCHANGED <<db, proc, job, cont, sweepIds, requests, history>>

RegisterActive(s) ==
    /\ pc[s] = "spawned"
    /\ Goto(s, "running")
    /\ UNCHANGED <<db, proc, job, out, cont, sweepIds, requests, history>>

activeCommands == {job[s] : s \in {x \in Slots : pc[x] = "running"}}

\* The docker daemon creates the container the CLI asked for.
Launch(s) ==
    /\ pc[s] \in {"spawned", "running"} /\ out[s] = "starting"
    /\ Know(s, "up")
    /\ cont' = cont \cup {job[s]}
    /\ UNCHANGED <<db, proc, pc, job, sweepIds, requests, history>>

\* The CLI ends by itself: the container exited, or docker could not create it.
CommandExits(s) ==
    /\ pc[s] \in {"spawned", "running"}
    /\ out[s] \in {"starting", "up"} /\ Know(s, "exited")
    /\ cont' = cont \ {job[s]}
    /\ UNCHANGED <<db, proc, pc, job, sweepIds, requests, history>>

\* Wait returns an error that is no exit status: what the CLI came to is unknown, and
\* the container stays as it is.
WaitFails(s) ==
    /\ pc[s] = "running" /\ out[s] \in {"starting", "up", "exited"}
    /\ Know(s, "error")
    /\ UNCHANGED <<db, proc, pc, job, cont, sweepIds, requests, history>>

\* docker rm -f of a job's container takes effect, or fails.
Removed(j)     == cont' = cont \ {j} /\ left' = left \ {j}
StaysBehind(j) ==
    /\ cont' = cont /\ left' = left \cup (cont \cap {j})
    /\ Cardinality(left') <= MaxLeft

\* A container whose CLI is gone ends by itself, and --rm removes it.
OrphanExits(j) ==
    /\ j \in cont
    /\ \A s \in Slots : job[s] = j => out[s] # "up"
    /\ Removed(j)
    /\ UNCHANGED <<db, proc, slots, sweepIds, requests, starts, stopped>>

\* The run's deadline passes: exec kills the CLI and leaves the container running.
\* A command that has just ended by itself counts as timed out too, because
\* Execute looks at the context only after Wait.
Deadline(s) ==
    /\ pc[s] = "running" /\ out[s] # "timeout"
    /\ Know(s, "timeout")
    /\ UNCHANGED <<db, proc, pc, job, cont, sweepIds, requests, history>>

\* Mutant: the container is left running when the deadline has passed.
ExecuteReturnsNoKill(s) ==
    /\ pc[s] = "running" /\ out[s] \in ExecResult
    /\ Goto(s, "record") /\ Know(s, IF out[s] = "exited" THEN "exited" ELSE "error")
    /\ UNCHANGED <<db, proc, job, cont, sweepIds, requests, history>>

\* Wait has returned; only after the deadline does Execute force-remove the container.
\* The handler learns of an exit, of whatever status, or of an error.
ExecuteReturns(s) ==
    /\ pc[s] = "running" /\ out[s] \in ExecResult
    /\ Goto(s, "record") /\ Know(s, IF out[s] = "exited" THEN "exited" ELSE "error")
    /\ \/ out[s] = "exited" /\ UNCHANGED <<cont, left>>
       \/ out[s] = "timeout" /\ Removed(job[s])
       \/ out[s] \in {"timeout", "error"} /\ StaysBehind(job[s])
    /\ UNCHANGED <<db, proc, job, sweepIds, requests, starts, stopped>>

\* testRunRepo.Create.  executeJob goes on to return Execute's error, if any; a
\* run that merely exited non-zero completes its job.
RecordRun(s) ==
    /\ pc[s] = "record"
    /\ TestOf[job[s]] \in exists
    /\ recorded' = recorded \cup {job[s]}
    /\ Goto(s, "final")
    /\ Know(s, IF out[s] = "error" THEN "failed" ELSE "completed")
    /\ UNCHANGED <<status, claimed, exists, proc, job, cont, sweepIds,
                   requests, history>>

\* Mutant: the error of testRunRepo.Create is not returned.
RecordErrorDropped(s) ==
    /\ pc[s] = "record"
    /\ Goto(s, "final") /\ Know(s, "completed")
    /\ UNCHANGED <<db, proc, job, cont, sweepIds, requests, history>>

\* The INSERT fails: a database error, or the test was deleted (foreign key).
RecordFails(s) ==
    /\ pc[s] = "record"
    /\ Goto(s, "final") /\ Know(s, "failed")
    /\ UNCHANGED <<db, proc, job, cont, sweepIds, requests, history>>

\* Mutant: the status is not read again after the run.
FinalCheckSkipped(s) ==
    /\ pc[s] = "final"
    /\ Goto(s, "complete")
    /\ UNCHANGED <<db, proc, job, out, cont, sweepIds, requests, history>>

\* handleJob's second GetStatus.
FinalCheck(s) ==
    /\ pc[s] = "final"
    /\ IF status[job[s]] = "cancelled"
       THEN Release(s)
       ELSE Goto(s, "complete") /\ UNCHANGED <<job, out>>
    /\ UNCHANGED <<db, proc, cont, sweepIds, requests, history>>

\* The second GetStatus fails: the error is dropped and the handler completes.
FinalCheckFails(s) ==
    /\ pc[s] = "final"
    /\ Goto(s, "complete")
    /\ stopped' = stopped \ {job[s]}
    /\ UNCHANGED <<db, proc, job, out, cont, sweepIds, requests, left, starts>>

\* Complete: UpdateStatus matches the row by its uuid alone.
CompleteJob(s) ==
    /\ pc[s] = "complete"
    /\ status' = [status EXCEPT ![job[s]] = IF @ = "deleted" THEN @ ELSE out[s]]
    /\ Release(s)
    /\ UNCHANGED <<claimed, exists, recorded, proc, cont, sweepIds, requests, history>>

CompleteFails(s) ==
    /\ pc[s] \in {"complete", "panicked"}
    /\ Release(s)
    /\ UNCHANGED <<db, proc, cont, sweepIds, requests, history>>

\* A panic in executeJob outside the docker run; nothing is re-read before the
\* recovery writes "failed".
Panic(s) ==
    /\ pc[s] \in {"prepare", "record", "final"}
    /\ Goto(s, "panicked") /\ Know(s, "failed")
    /\ stopped' = stopped \ {job[s]}
    /\ UNCHANGED <<db, proc, job, cont, sweepIds, requests, left, starts>>

RecoverPanic(s) ==
    /\ pc[s] = "panicked"
    /\ status' = [status EXCEPT ![job[s]] = IF @ = "deleted" THEN @ ELSE "failed"]
    /\ Release(s)
    /\ UNCHANGED <<claimed, exists, recorded, proc, cont, sweepIds, requests, history>>

-----------------------------------------------------------------------------
(* The stale-job sweeper, and the retention sweep of the jobs table. *)

\* Mutant: a worker sweeps only jobs it claimed itself since it started.
MayBeStaleOwn(S) ==
    \A j \in S : status[j] = "running" /\ \E s \in Slots : job[s] = j

\* The rows FailStale's WHERE clause selects: running jobs that by now are past
\* started_at + timeout_seconds + grace.  Nothing bounds how long a handler takes
\* around its container run, so these can be any running jobs, handled or not.
MayBeStale(S) == \A j \in S : status[j] = "running"

\* One sweep's UPDATE.  If its reply is lost the rows are failed all the same and
\* no container is removed.
FailStale(S) ==
    /\ phase \in {"up", "closing"} /\ sweepIds = {}
    /\ S # {} /\ MayBeStale(S)
    /\ status' = [j \in Jobs |-> IF j \in S THEN "failed" ELSE status[j]]
    /\ sweepIds' \in {{}, S}
    /\ UNCHANGED <<claimed, exists, recorded, proc, slots, cont, requests, history>>

\* docker rm -f: a handler that waits for the container sees its CLI exit.
Killed(j, cli) ==
    [s \in Slots |-> IF job[s] = j /\ out[s] \in cli THEN "exited" ELSE out[s]]

KillSwept(j) ==
    /\ Up
    /\ j \in sweepIds
    /\ sweepIds' = sweepIds \ {j}
    /\ Removed(j)
    /\ out' = Killed(j, {"up"})
    /\ UNCHANGED <<db, proc, pc, job, requests, starts, stopped>>

\* The sweeper's docker rm fails: a handler goes on waiting for its container, one that
\* nobody handles stays.
KillSweptFails(j) ==
    /\ Up
    /\ j \in sweepIds
    /\ sweepIds' = sweepIds \ {j}
    /\ IF \E s \in Slots : job[s] = j THEN UNCHANGED <<cont, left>> ELSE StaysBehind(j)
    /\ UNCHANGED <<db, proc, slots, requests, starts, stopped>>

\* The last statement of a retention sweep: finished jobs past the age limit, whose
\* handler may still be at work if they were stopped or swept.
DeleteFinishedJobsBefore(S) ==
    /\ phase \in {"up", "closing"}
    /\ S # {} /\ \A j \in S : status[j] \in {"completed", "failed", "cancelled"}
    /\ status' = [j \in Jobs |-> IF j \in S THEN "deleted" ELSE status[j]]
    /\ UNCHANGED <<claimed, exists, recorded, proc, slots, cont, sweepIds, requests, history>>

-----------------------------------------------------------------------------
(* POST /stop and DELETE /tests/{id}: list the active jobs, cancel the running
   ones, then update the rows, and for a delete remove everything. *)

JobsOf(t) == {j \in Jobs : TestOf[j] = t}

ListActive(c, t, op) ==
    /\ phase = "up" /\ creq[c] = "idle"
    /\ t \in exists
    /\ creq' = [creq EXCEPT ![c] = "kill"]
    /\ cop' = [cop EXCEPT ![c] = op]
    /\ ctest' = [ctest EXCEPT ![c] = t]
    /\ ckill' = [ckill EXCEPT ![c] = {j \in JobsOf(t) : status[j] = "running"}]
    /\ UNCHANGED <<db, proc, slots, cont, sweepIds, crm, history>>

\* runtime.Cancel of a registered command kills its CLI and goes on to remove the
\* container; meanwhile Execute may return and the handler move on.
Cancel(c, j) ==
    /\ creq[c] = "kill" /\ crm[c] = NoJob /\ j \in ckill[c]
    /\ ckill' = [ckill EXCEPT ![c] = @ \ {j}]
    /\ IF j \in activeCommands
       THEN crm' = [crm EXCEPT ![c] = j] /\ out' = Killed(j, {"starting", "up"})
       ELSE UNCHANGED <<crm, out>>
    /\ UNCHANGED <<db, proc, pc, job, cont, sweepIds, creq, cop, ctest, history>>

\* Its KillContainer.
CancelRemoves(c) ==
    /\ crm[c] # NoJob
    /\ Removed(crm[c]) \/ StaysBehind(crm[c])
    /\ crm' = [crm EXCEPT ![c] = NoJob]
    /\ UNCHANGED <<db, proc, slots, sweepIds, creq, cop, ctest, ckill, starts, stopped>>

AllCancelled(c) ==
    /\ creq[c] = "kill" /\ crm[c] = NoJob /\ ckill[c] = {}
    /\ creq' = [creq EXCEPT ![c] = "cancel"]
    /\ UNCHANGED <<db, proc, slots, cont, sweepIds, cop, ctest, ckill, crm, history>>

\* The request is over; its local variables go out of scope.
Answer(c) ==
    /\ creq' = [creq EXCEPT ![c] = "idle"]
    /\ cop' = [cop EXCEPT ![c] = "stop"]
    /\ ckill' = [ckill EXCEPT ![c] = {}]
    /\ UNCHANGED crm

\* Mutant: the UPDATE does not insist on active rows.
CancellableAny(t) == {j \in JobsOf(t) : status[j] \notin {"none", "deleted"}}

\* The rows CancelActiveForTest's WHERE clause selects.
Cancellable(t) == {j \in JobsOf(t) : status[j] \in Active}

\* Jobs whose handler will not read the status again before it writes one.
PastCheck == {job[s] : s \in {x \in Slots : pc[x] \in {"complete", "panicked"}}}

CancelActiveForTest(c) ==
    /\ creq[c] = "cancel"
    /\ status' = [j \in Jobs |-> IF j \in Cancellable(ctest[c]) THEN "cancelled"
                                 ELSE status[j]]
    /\ stopped' = stopped \cup (Cancellable(ctest[c]) \ PastCheck)
    /\ IF cop[c] = "delete"
       THEN creq' = [creq EXCEPT ![c] = "delete"] /\ UNCHANGED <<cop, ckill, crm>>
       ELSE Answer(c)
    /\ UNCHANGED <<claimed, exists, recorded, proc, slots, cont, sweepIds, ctest, left, starts>>

\* One transaction removes the test with its runs and jobs, whatever their status.
DeleteTest(c) ==
    /\ creq[c] = "delete"
    /\ ctest[c] \in exists
    /\ exists' = exists \ {ctest[c]}
    /\ status' = [j \in Jobs |-> IF j \in JobsOf(ctest[c]) /\ status[j] # "none"
                                 THEN "deleted" ELSE status[j]]
    /\ recorded' = recorded \ JobsOf(ctest[c])
    /\ Answer(c)
    /\ UNCHANGED <<claimed, proc, slots, cont, sweepIds, ctest, history>>

\* A database error, or a client that disconnects before a statement, ends the request.
AbortRequest(c) ==
    /\ creq[c] \in {"cancel", "delete"}
    /\ Answer(c)
    /\ UNCHANGED <<db, proc, slots, cont, sweepIds, ctest, history>>

-----------------------------------------------------------------------------
(* The server process. *)

\* A signal arrives: the HTTP server stops accepting, the worker goes on.
Shutdown ==
    /\ phase = "up" /\ stops < MaxStops
    /\ phase' = "closing" /\ stops' = stops + 1
    /\ UNCHANGED <<db, lost, slots, cont, sweepIds, requests, history>>

\* stopWorker: nothing is claimed or swept any more, running handlers go on.
StopWorker ==
    /\ phase = "closing"
    /\ phase' = "draining"
    /\ UNCHANGED <<db, stops, lost, slots, cont, sweepIds, requests, history>>

\* The process ends: what it kept in memory is gone, containers survive.
ProcessEnds ==
    /\ phase' = "down"
    /\ lost' = \/ lost \/ \E s \in Slots : pc[s] # "idle"
               \/ \E c \in Clients : crm[c] # NoJob
    /\ pc' = [s \in Slots |-> "idle"]
    /\ job' = [s \in Slots |-> NoJob]
    /\ out' = [s \in Slots |-> "none"]
    /\ sweepIds' = {}
    /\ creq' = [c \in Clients |-> "idle"]
    /\ cop' = [c \in Clients |-> "stop"]
    /\ ckill' = [c \in Clients |-> {}]
    /\ crm' = [c \in Clients |-> NoJob]
    /\ UNCHANGED <<db, cont, ctest, history>>

\* The worker has drained, or the shutdown deadline is hit with jobs running.
Exit == phase = "draining" /\ ProcessEnds /\ UNCHANGED stops

Crash ==
    /\ phase = "up" /\ stops < MaxStops
    /\ stops' = stops + 1
    /\ ProcessEnds

Restart ==
    /\ phase = "down"
    /\ phase' = "up"
    /\ UNCHANGED <<db, stops, lost, slots, cont, sweepIds, requests, history>>

-----------------------------------------------------------------------------

Handler(s) ==
    \/ CheckBeforeRun(s) \/ Prepare(s) \/ PrepareFails(s)
    \/ StartCommand(s) \/ StartFails(s) \/ RegisterActive(s) \/ ExecuteReturns(s)
    \/ RecordRun(s) \/ RecordFails(s)
    \/ FinalCheck(s) \/ FinalCheckFails(s) \/ CompleteJob(s) \/ CompleteFails(s)
    \/ Panic(s) \/ RecoverPanic(s)

Docker(s) == Launch(s) \/ CommandExits(s) \/ WaitFails(s) \/ Deadline(s)

Sweeper ==
    \/ \E S \in SUBSET Jobs : FailStale(S) \/ DeleteFinishedJobsBefore(S)
    \/ \E j \in Jobs : KillSwept(j) \/ KillSweptFails(j)

Request(c) ==
    \/ \E t \in Tests, op \in {"stop", "delete"} : ListActive(c, t, op)
    \/ \E j \in Jobs : Cancel(c, j)
    \/ CancelRemoves(c) \/ AllCancelled(c) \/ CancelActiveForTest(c) \/ DeleteTest(c) \/ AbortRequest(c)

Process == Shutdown \/ StopWorker \/ Exit \/ Crash \/ Restart

Next ==
    \/ \E j \in Jobs : Enqueue(j) \/ OrphanExits(j)
    \/ \E s \in Slots, j \in Jobs : Dequeue(s, j) \/ DequeueReplyLost(s, j)
    \/ \E s \in Slots : Handler(s) \/ Docker(s)
    \/ Sweeper
    \/ \E c \in Clients : Request(c)
    \/ Process

Spec == Init /\ [][Next]_vars

\* Handlers are goroutines that keep running while the process does, with every
\* outcome of a step possible; a run's deadline passes; the pool polls for queued
\* jobs; a job that stays running becomes stale and a sweep reaches it; a shutdown
\* goes through and the supervisor restarts the server.  Containers need not exit
\* and clients need not do anything.
Fairness ==
    /\ \A s \in Slots : WF_vars(Handler(s)) /\ WF_vars(Deadline(s))
    /\ WF_vars(\E s \in Slots, j \in Jobs : Dequeue(s, j))
    /\ \A j \in Jobs : WF_vars(\E S \in SUBSET Jobs : j \in S /\ FailStale(S))
    /\ \A j \in Jobs : WF_vars(KillSwept(j) \/ KillSweptFails(j))
    /\ \A c \in Clients : WF_vars(CancelRemoves(c))
    /\ WF_vars(StopWorker) /\ WF_vars(Exit) /\ WF_vars(Restart)

FairSpec == Spec /\ Fairness

-----------------------------------------------------------------------------
(* Properties. *)

\* A job's docker command is started at most once, across lost replies, sweeps,
\* crashes and restarts, and no two slots ever handle the same job: Dequeue only
\* claims queued rows and nothing ever makes a row queued again.
AtMostOnce ==
    /\ \A j \in Jobs : starts[j] <= 1
    /\ \A s1, s2 \in Slots : job[s1] = job[s2] /\ job[s1] # NoJob => s1 = s2

\* A job cancelled by /stop or by a delete stays cancelled (or is deleted with its
\* test), wherever its handler was, unless the handler had already read the status
\* for the last time, could not read it, or panicked.
StopHonoured == \A j \in stopped : status[j] \in {"cancelled", "deleted"}

\* A job reported as completed has its test run on record: executeJob returns nil
\* only after testRunRepo.Create, so no failure path may end in "completed".
CompletedHasRun == \A j \in Jobs : status[j] = "completed" => j \in recorded

\* As long as no process ended with a handler or a Cancel in progress, a container on
\* the docker host always has a handler inside Execute that will wait for it or remove
\* it, or a Cancel about to: sweep, timeout, and a stop or delete that lets the handler
\* run on leak none.  The exception is a container whose docker rm, or whose CLI's Wait,
\* has failed: the code gives up on it.
ContainersOwned ==
    ~lost => \A j \in cont \ left :
        \/ \E s \in Slots : /\ job[s] = j
                            /\ pc[s] \in {"spawned", "running"}
                            /\ out[s] \in {"up", "timeout", "error"}
        \/ \E c \in Clients : crm[c] = j

\* The system implements the life cycle of JobLifecycle: whatever the handlers,
\* the sweeper and the requests do to a row, in whatever order, is a life-cycle
\* step (in particular nothing leaves "completed" but a delete, and a job
\* cancelled before it was claimed is never given a verdict by a worker).
Lifecycle == INSTANCE JobLifecycle
                 WITH Jobs <- Jobs, status <- status, claimed <- claimed
ImplementsLifecycle == Lifecycle!Spec

\* Every job reaches a final status: a queued job is claimed, and a claimed job is
\* completed, failed or cancelled even if its handler was lost in a crash or its
\* final UPDATE failed, because the sweeper gets to it.
EveryJobResolves == \A j \in Jobs : status[j] \in Active ~> status[j] \notin Active

\* A test that never ends does not keep its container for ever: as long as no handler
\* or Cancel is lost and docker rm and Wait do their work, the deadline removes it,
\* whatever cancel and sweep did.
ContainersReaped ==
    \A j \in Jobs : j \in cont /\ ~lost ~> j \notin cont \/ lost \/ j \in left

\* What sweepStale's comment promises: a container left behind by a crash or a
\* restart is removed, if docker rm does its work.  The code does not keep this promise.
OrphansReaped == \A j \in Jobs : j \in cont ~> j \notin cont \/ j \in left

\* What /stop answers, "run stopped": no command is started for a job after it
\* has been cancelled.
NoStartAfterStop ==
    [][\A j \in Jobs : status[j] = "cancelled" => starts'[j] = starts[j]]_vars
=============================================================================
