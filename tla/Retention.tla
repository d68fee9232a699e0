------------------------------ MODULE Retention ------------------------------
(***************************************************************************)
(* What a run leaves behind, and who removes it: the tests_runs and        *)
(* screenshots tables, the objects in storage, the worker's handlers that  *)
(* write both, the retention sweeper and DELETE /tests/{id} that remove    *)
(* them, and crashes of the process that hosts all three.  The artifact a  *)
(* test is made of is in module Api.                                       *)
(*                                                                         *)
(* A run is a number, its place in started_at order.  Objects of a run are *)
(* its log and its screenshots (one stands for all) under                  *)
(* <test>/log/<run>/, and for runs of older versions ("legacy") a log      *)
(* outside that folder.  A storage call that removes several objects may   *)
(* fail after removing any of them; an upload that arrives between its     *)
(* listing and its removals is one that arrives just after it.             *)
(*                                                                         *)
(* The sweep's last statement removes rows of the jobs table, which this   *)
(* module does not have: it is JobRunner's DeleteFinishedJobsBefore.       *)
(***************************************************************************)
EXTENDS Naturals, FiniteSets

CONSTANTS Tests,
          NumRuns,      \* bound on runs
          TestOf,       \* tests_runs.test_id
          Legacy,       \* the runs of older versions
          Bad,          \* runs whose objects storage can never remove
          MaxRuns,      \* RETENTION_MAX_RUNS_PER_TEST, 0: no limit
          AgeLimit,     \* whether RETENTION_DAYS is set
          BatchSize,    \* batchSize
          MaxBatches,   \* maxBatches
          MaxCrashes    \* bound on crashes

Runs == 1..NumRuns

ASSUME BoundsAssumption == NumRuns \in Nat /\ MaxCrashes \in Nat
ASSUME PolicyAssumption == MaxRuns \in Nat /\ AgeLimit \in BOOLEAN
ASSUME BatchAssumption  == BatchSize \in Nat \ {0} /\ MaxBatches \in Nat \ {0}
ASSUME TestOfAssumption == TestOf \in [Runs -> Tests]
ASSUME LegacyAssumption == Legacy \in {1..n : n \in 0..NumRuns}

VARIABLES
    exists,    \* tests that have a row
    rows,      \* tests_runs: the runs that have a row
    logURL,    \* log_url of a run: "", in the run's folder or outside it
    shots,     \* screenshots: runs with a row there
    store,     \* objects in storage
    pc,        \* the handler of a run, at its next call
    horizon,   \* runs below it are older than RETENTION_DAYS
    spc,       \* the sweeper: "idle", or its next call
    cutoff,    \* the horizon when the sweep began
    batch,     \* batches this sweep has listed
    expired,   \* listed runs whose objects are still to be removed
    ok,        \* listed runs whose objects have been removed
    dpc,       \* DELETE of a test: "none", about to remove "files", or how it ended
    crashes,
    ran,       \* history: tests that ever had a run recorded
    pruned,    \* history: runs whose row the sweeper removed
    early,     \* history: runs whose objects the sweeper removed, last time it did,
               \* while their handler was still recording them
    late       \* history: runs still being recorded when their test's objects were removed

tables  == <<exists, rows, logURL, shots>>
sweeper == <<spc, cutoff, batch, expired, ok>>
history == <<ran, pruned, early, late>>
vars    == <<tables, store, pc, horizon, sweeper, dpc, crashes, history>>

Kind    == {"log", "shot", "old"}
RunsOf(t) == {r \in Runs : TestOf[r] = t}

\* DeletePrefix("<test>/log/<run>/") finds the first two, log_url names the third.
Files(r) == {<<r, k>> : k \in Kind}
Recording(r) == pc[r] \in {"exec", "insert", "shots", "shotRow"}

TypeOK ==
    /\ exists \subseteq Tests
    /\ rows \subseteq Runs /\ shots \subseteq rows
    /\ logURL \in [Runs -> {"none", "run", "old"}]
    /\ store \subseteq Runs \X Kind
    /\ pc \in [Runs -> {"none", "exec", "insert", "shots", "shotRow", "done", "failed"}]
    /\ horizon \in Nat /\ cutoff \in Nat /\ batch \in 0..MaxBatches
    /\ spc \in {"idle", "list", "files", "rows"}
    /\ expired \subseteq Runs /\ ok \subseteq Runs
    /\ dpc \in [Tests -> {"none", "files", "done", "failed"}]
    /\ crashes \in 0..MaxCrashes
    /\ ran \subseteq Tests /\ pruned \subseteq Runs /\ early \subseteq Runs /\ late \subseteq Runs

Init ==
    /\ exists = Tests
    /\ rows = Legacy /\ shots = {}
    /\ logURL = [r \in Runs |-> IF r \in Legacy THEN "old" ELSE "none"]
    /\ store = {<<r, "old">> : r \in Legacy}
    /\ pc = [r \in Runs |-> IF r \in Legacy THEN "done" ELSE "none"]
    /\ horizon = 1
    /\ spc = "idle" /\ cutoff = 1 /\ batch = 0 /\ expired = {} /\ ok = {}
    /\ dpc = [t \in Tests |-> "none"]
    /\ crashes = 0
    /\ ran = {TestOf[r] : r \in Legacy} /\ pruned = {} /\ early = {} /\ late = {}

\* A run of a started handler grows older than the age limit.
Age ==
    /\ AgeLimit /\ horizon \in Runs /\ pc[horizon] # "none"
    /\ horizon' = horizon + 1
    /\ UNCHANGED <<tables, store, pc, sweeper, dpc, crashes, history>>

-----------------------------------------------------------------------------
(* executeJob around the storage of a run. *)

Goto(r, label) == pc' = [pc EXCEPT ![r] = label]

\* The handler has read the test's row; started_at is taken just before Execute.
Execute(r) ==
    /\ pc[r] = "none" /\ \A q \in Runs : q < r => pc[q] # "none"
    /\ TestOf[r] \in exists
    /\ Goto(r, "exec")
    /\ UNCHANGED <<tables, store, horizon, sweeper, dpc, crashes, history>>

\* An upload error is logged and leaves log_url empty, whether or not the object
\* has been stored.
UploadLog(r) ==
    /\ pc[r] = "exec"
    /\ \/ store' = store \cup {<<r, "log">>} /\ logURL' = [logURL EXCEPT ![r] = "run"]
       \/ store' \in {store, store \cup {<<r, "log">>}} /\ UNCHANGED logURL
    /\ Goto(r, "insert")
    /\ UNCHANGED <<exists, rows, shots, horizon, sweeper, dpc, crashes, history>>

\* testRunRepo.Create; if its reply is lost the handler gives up all the same.
Create(r) ==
    /\ pc[r] = "insert" /\ TestOf[r] \in exists
    /\ rows' = rows \cup {r}
    /\ ran' = ran \cup {TestOf[r]}
    /\ Goto(r, "shots") \/ Goto(r, "failed")
    /\ UNCHANGED <<exists, logURL, shots, store, horizon, sweeper, dpc, crashes,
                   pruned, early, late>>

\* A database error, or the foreign key of a deleted test.
CreateFails(r) ==
    /\ pc[r] = "insert"
    /\ Goto(r, "failed")
    /\ UNCHANGED <<tables, store, horizon, sweeper, dpc, crashes, history>>

\* Runs without screenshots, and uploads that fail, end here.
UploadShot(r) ==
    /\ pc[r] = "shots"
    /\ \/ store' = store \cup {<<r, "shot">>} /\ Goto(r, "shotRow")
       \/ store' \in {store, store \cup {<<r, "shot">>}} /\ Goto(r, "done")
    /\ UNCHANGED <<tables, horizon, sweeper, dpc, crashes, history>>

\* screenshotRepo.Create; the foreign key needs the run's row.
CreateShot(r) ==
    /\ pc[r] = "shotRow"
    /\ shots' \in {shots, (shots \cup {r}) \cap rows}
    /\ Goto(r, "done")
    /\ UNCHANGED <<exists, rows, logURL, store, horizon, sweeper, dpc, crashes, history>>

-----------------------------------------------------------------------------
(* The retention sweeper. *)

Enabled == MaxRuns > 0 \/ AgeLimit

Sweep ==
    /\ spc = "idle" /\ Enabled
    /\ spc' = "list" /\ cutoff' = horizon /\ batch' = 0
    /\ UNCHANGED <<tables, store, pc, horizon, expired, ok, dpc, crashes, history>>

EndSweep == spc' = "idle" /\ expired' = {} /\ ok' = {} /\ UNCHANGED <<cutoff, batch>>

\* Mutant: the oldest run of a test has row number one.
RowNumberAscending(r) == Cardinality({q \in rows \cap RunsOf(TestOf[r]) : q <= r})

\* ROW_NUMBER() OVER (PARTITION BY test_id ORDER BY started_at DESC).
RowNumber(r) == Cardinality({q \in rows \cap RunsOf(TestOf[r]) : q >= r})

\* The WHERE clause.
Outside(r, cut) ==
    /\ RowNumber(r) > 1
    /\ \/ MaxRuns > 0 /\ RowNumber(r) > MaxRuns
       \/ AgeLimit /\ r < cut

Oldest(S, n) == {r \in S : Cardinality({q \in S : q < r}) < n}

ListExpiredRuns ==
    LET found == Oldest({r \in rows : Outside(r, cutoff)}, BatchSize) IN
    /\ spc = "list" /\ batch < MaxBatches
    /\ IF found = {} THEN EndSweep
       ELSE /\ spc' = "files" /\ batch' = batch + 1
            /\ expired' = found /\ ok' = {}
            /\ UNCHANGED cutoff
    /\ UNCHANGED <<tables, store, pc, horizon, dpc, crashes, history>>

\* The batch limit is reached, or the query fails.
SweepEnds ==
    /\ spc = "list"
    /\ EndSweep
    /\ UNCHANGED <<tables, store, pc, horizon, dpc, crashes, history>>

NextExpired(r) == r \in expired /\ \A q \in expired : r <= q

\* The objects of one run: its folder, and its log_url if that lies outside.
OfRun(r) == {f \in Files(r) : f[2] # "old" \/ logURL[r] = "old"}

DeleteStorage(r) ==
    /\ spc = "files" /\ NextExpired(r) /\ r \notin Bad
    /\ store' = store \ OfRun(r)
    /\ expired' = expired \ {r}
    /\ ok' = ok \cup {r}
    /\ early' = IF Recording(r) THEN early \cup {r} ELSE early \ {r}
    /\ UNCHANGED <<tables, pc, horizon, spc, cutoff, batch, dpc, crashes, ran, pruned,
                   late>>

\* Mutant: an error removing the objects does not keep the row.
DeleteStorageErrorIgnored(r) ==
    /\ spc = "files" /\ NextExpired(r)
    /\ store' \in {store \ F : F \in SUBSET OfRun(r)}
    /\ expired' = expired \ {r}
    /\ ok' = ok \cup {r}
    /\ UNCHANGED <<tables, pc, horizon, spc, cutoff, batch, dpc, crashes, history>>

\* Mutant: an error removing one run's objects ends the sweep.
DeleteStorageErrorEnds(r) ==
    /\ spc = "files" /\ NextExpired(r)
    /\ store' \in {store \ F : F \in SUBSET OfRun(r)}
    /\ EndSweep
    /\ UNCHANGED <<tables, pc, horizon, dpc, crashes, history>>

\* Storage fails; what it has removed so far is gone.  The row is kept for a retry.
DeleteStorageFails(r) ==
    /\ spc = "files" /\ NextExpired(r)
    /\ store' \in {store \ F : F \in SUBSET OfRun(r)}
    /\ expired' = expired \ {r}
    /\ UNCHANGED <<tables, pc, horizon, spc, cutoff, batch, ok, dpc, crashes, history>>

\* Without any progress the sweep gives up.
BatchDone ==
    /\ spc = "files" /\ expired = {}
    /\ IF ok = {} THEN EndSweep ELSE spc' = "rows" /\ UNCHANGED <<cutoff, batch, expired, ok>>
    /\ UNCHANGED <<tables, store, pc, horizon, dpc, crashes, history>>

\* Mutant: the rows are matched by their test instead of their run.
DeleteRunsOfTests ==
    /\ spc = "rows"
    /\ rows' = {r \in rows : \A q \in ok : TestOf[q] # TestOf[r]}
    /\ shots' = shots \cap rows'
    /\ pruned' = pruned \cup (ok \cap rows)
    /\ EndSweep
    /\ UNCHANGED <<exists, logURL, store, pc, horizon, dpc, crashes, ran, early, late>>

\* The rows go, and the screenshot rows with them; a lost reply ends the sweep.
DeleteRuns ==
    /\ spc = "rows"
    /\ rows' = rows \ ok /\ shots' = shots \ ok
    /\ pruned' = pruned \cup (ok \cap rows)
    /\ (spc' = "list" /\ UNCHANGED <<cutoff, batch, expired, ok>>) \/ EndSweep
    /\ UNCHANGED <<exists, logURL, store, pc, horizon, dpc, crashes, ran, early, late>>

DeleteRunsFails ==
    /\ spc = "rows"
    /\ EndSweep
    /\ UNCHANGED <<tables, store, pc, horizon, dpc, crashes, history>>

-----------------------------------------------------------------------------
(* DELETE /tests/{id}: the transaction, then everything under <test>/ and the logs
   outside it.  Storage errors are logged and the request succeeds. *)

DeleteTest(t) ==
    /\ t \in exists
    /\ exists' = exists \ {t}
    /\ rows' = rows \ RunsOf(t) /\ shots' = shots \ RunsOf(t)
    /\ dpc' = [dpc EXCEPT ![t] = "files"]
    /\ UNCHANGED <<logURL, store, pc, horizon, sweeper, crashes, history>>

OfTest(t) == {f \in store : TestOf[f[1]] = t}
StillRecording(t) == {r \in RunsOf(t) : Recording(r)}

\* Mutant: the logs of older versions, outside the test's prefix, are forgotten.
DeletePrefixOnly(t) ==
    /\ dpc[t] = "files"
    /\ store' = {f \in store : f \in OfTest(t) => f[2] = "old"}
    /\ dpc' = [dpc EXCEPT ![t] = "done"]
    /\ late' = late \cup StillRecording(t)
    /\ UNCHANGED <<tables, pc, horizon, sweeper, crashes, ran, pruned, early>>

DeleteFiles(t) ==
    /\ dpc[t] = "files"
    /\ \/ /\ store' = store \ OfTest(t)
          /\ dpc' = [dpc EXCEPT ![t] = "done"]
       \/ /\ store' \in {store \ F : F \in SUBSET OfTest(t)}
          /\ dpc' = [dpc EXCEPT ![t] = "failed"]
    /\ late' = late \cup StillRecording(t)
    /\ UNCHANGED <<tables, pc, horizon, sweeper, crashes, ran, pruned, early>>

-----------------------------------------------------------------------------

\* The process dies: handlers, sweep and requests are gone.
Crash ==
    /\ crashes < MaxCrashes
    /\ crashes' = crashes + 1
    /\ pc' = [r \in Runs |-> IF Recording(r) THEN "failed" ELSE pc[r]]
    /\ EndSweep
    /\ dpc' = [t \in Tests |-> IF dpc[t] = "files" THEN "failed" ELSE dpc[t]]
    /\ UNCHANGED <<tables, store, horizon, history>>

Handler(r) ==
    Execute(r) \/ UploadLog(r) \/ Create(r) \/ CreateFails(r) \/ UploadShot(r) \/ CreateShot(r)

SweepStep ==
    \/ Sweep \/ ListExpiredRuns \/ SweepEnds \/ BatchDone \/ DeleteRuns \/ DeleteRunsFails
    \/ \E r \in Runs : DeleteStorage(r) \/ DeleteStorageFails(r)

Next ==
    \/ \E r \in Runs : Handler(r)
    \/ SweepStep
    \/ \E t \in Tests : DeleteTest(t) \/ DeleteFiles(t)
    \/ Age \/ Crash

Spec == Init /\ [][Next]_vars

\* The timer keeps firing and the calls of a sweep return; a call that can succeed
\* does not fail every time.
Fairness ==
    /\ WF_vars(SweepStep)
    /\ SF_vars(ListExpiredRuns)
    /\ \A r \in Runs \ Bad : SF_vars(DeleteStorage(r)) /\ SF_vars(r \in ok /\ DeleteRuns)

FairSpec == Spec /\ Fairness

-----------------------------------------------------------------------------
(* Properties. *)

\* What the policy keeps, said without row numbers: the newest run, and those that
\* are both among the newest MaxRuns and young enough.
Newer(r) == {q \in rows : TestOf[q] = TestOf[r] /\ q > r}
Keeps(r) ==
    \/ Newer(r) = {}
    \/ /\ MaxRuns = 0 \/ Cardinality(Newer(r)) < MaxRuns
       /\ ~AgeLimit \/ r >= horizon

\* A test that has ever run still has a run to show, whatever was listed before new
\* runs came in or other deletions failed: the newest row is never pruned.
NewestKept == \A t \in exists \cap ran : rows \cap RunsOf(t) # {}

\* A run the policy keeps has its log and screenshot where its rows say, although
\* objects are removed before rows, deletions stop half-way, and runs are recorded
\* while the sweeper works from its list.
KeptRunsIntact ==
    \A r \in rows : Keeps(r) =>
        /\ logURL[r] = "run" => <<r, "log">> \in store
        /\ logURL[r] = "old" => <<r, "old">> \in store
        /\ r \in shots => <<r, "shot">> \in store

\* Objects go before rows: a run whose row was pruned has nothing left in storage,
\* through failing deletions, retries and crashes, unless its handler was still
\* recording it when its objects were removed.
PrunedLeavesNothing == \A r \in pruned \ early : Files(r) \cap store = {}

\* Although it works from a list that is older by several calls, while runs are recorded,
\* removed and grow older, the row of a test that is still there goes only when the
\* policy does not keep that run at the very step that removes it: the list and the
\* batches are never wrong by the time they are used.
PrunesOnlyExpired == [][\A r \in rows \ rows' : TestOf[r] \in exists' => ~Keeps(r)]_vars

\* A run outside the policy is pruned, also when the objects of others can never be
\* removed, as long as those do not fill a batch.
ExpiredPruned == \A r \in Runs \ Bad : (r \in rows /\ ~Keeps(r)) ~> (r \notin rows \/ Keeps(r))

\* Storage leaks only through these windows: an object whose row is missing belongs
\* to a run that is not recorded yet or whose recording failed, to a DELETE that is
\* not through or failed in storage, or to a run whose handler was still recording
\* when its objects were removed.  So a DELETE whose storage calls succeeded leaves
\* nothing but what handlers it did not wait for have stored.
LeaksExplained ==
    /\ \A r \in Runs \ rows : Files(r) \cap store # {} =>
          \/ pc[r] \in {"exec", "insert", "failed"}
          \/ dpc[TestOf[r]] \in {"files", "failed"}
          \/ r \in early \cup late
    /\ \A t \in Tests : dpc[t] = "done" => \A f \in OfTest(t) : f[1] \in late
=============================================================================
