--------------------------- MODULE JobRunnerProofs ---------------------------
(* Proofs that the safety properties of JobRunner hold for every set of jobs,
   tests, slots and clients and any number of crashes, and that it implements
   JobLifecycle. *)
EXTENDS JobRunner, TLAPS

-----------------------------------------------------------------------------
(* The inductive invariant. *)

\* A slot has a job exactly when it is busy, and what its handler knows of the
\* run agrees with where it is.
SlotInv ==
    \A s \in Slots :
        /\ pc[s] = "idle" <=> job[s] = NoJob
        /\ pc[s] \in {"idle", "check", "prepare", "start"} => out[s] = "none"
        /\ pc[s] \in {"spawned", "running"} =>
              out[s] \in {"starting", "up"} \cup ExecResult
        /\ pc[s] = "record" => out[s] \in ExecResult
        /\ pc[s] \in {"final", "complete", "panicked"} => out[s] \in {"completed", "failed"}

\* A job has at most one handler, which claimed it, and no verdict is final for it
\* but a delete.
OwnerInv ==
    /\ \A j \in Jobs : j \in claimed => status[j] \notin {"none", "queued"}
    /\ \A s \in Slots : job[s] # NoJob =>
          /\ job[s] \in claimed
          /\ status[job[s]] \in {"running", "failed", "cancelled", "deleted"}
    /\ \A s1, s2 \in Slots : job[s1] = job[s2] /\ job[s1] # NoJob => s1 = s2

\* A command is started by the one handler of a claimed job, once.
StartInv ==
    /\ \A j \in Jobs : starts[j] \in {0, 1}
    /\ \A j \in Jobs : j \notin claimed => starts[j] = 0
    /\ \A s \in Slots : pc[s] \in {"check", "prepare", "start"} => starts[job[s]] = 0

\* A handler that has read the status for the last time does not hold a job whose
\* cancellation has to stand, unless the row is gone.
StopInv ==
    /\ StopHonoured
    /\ \A s \in Slots : pc[s] \in {"complete", "panicked"} /\ job[s] \in stopped
          => status[job[s]] = "deleted"

\* A handler about to write "completed" has recorded the run, unless both rows
\* have been deleted.
RunInv ==
    /\ CompletedHasRun
    /\ \A s \in Slots : pc[s] \in {"final", "complete"} /\ out[s] = "completed"
          => job[s] \in recorded \/ status[job[s]] = "deleted"

\* Containers belong to claimed jobs, and a handler that does not expect its container
\* to be there is right, or a Cancel is about to remove it, or it was left behind.
ContInv ==
    /\ cont \subseteq claimed
    /\ \A s \in Slots : job[s] \in cont \ left =>
          \/ out[s] \in {"up", "timeout", "error"} /\ pc[s] \in {"spawned", "running"}
          \/ \E c \in Clients : crm[c] = job[s]
    /\ ContainersOwned

IInv == TypeOK /\ SlotInv /\ OwnerInv /\ StartInv /\ StopInv /\ RunInv /\ ContInv

-----------------------------------------------------------------------------
(* The invariant is inductive. *)

\* The initial state satisfies the invariant.
LEMMA InitInv == Init => IInv
  <1> SUFFICES ASSUME Init PROVE IInv
    OBVIOUS
  <1> USE JobsAssumption, StopsAssumption
      DEF Init, TypeOK, SlotInv, OwnerInv, StartInv, StopInv, StopHonoured,
          RunInv, CompletedHasRun, ContInv, ContainersOwned, NoJob, Status,
          PC, ExecResult, Outcome
  <1>1. TypeOK
    <2>1. ckill \in [Clients -> SUBSET Jobs]
      OBVIOUS
    <2>2. stops \in 0..MaxStops /\ starts \in [Jobs -> Nat]
      OBVIOUS
    <2>3. QED
      BY <2>1, <2>2
  <1>2. SlotInv
    OBVIOUS
  <1>3. OwnerInv
    OBVIOUS
  <1>4. StartInv
    OBVIOUS
  <1>5. StopInv
    OBVIOUS
  <1>6. RunInv
    OBVIOUS
  <1>7. ContInv
    OBVIOUS
  <1>8. QED
    BY <1>1, <1>2, <1>3, <1>4, <1>5, <1>6, <1>7 DEF IInv

\* Inserting a job keeps the invariant.
LEMMA EnqueueInv ==
  ASSUME IInv, NEW j \in Jobs, Enqueue(j)
  PROVE  IInv'
  BY JobsAssumption, TestOfAssumption
     DEF Enqueue, IInv, TypeOK, SlotInv,
         OwnerInv, StartInv, StopInv, StopHonoured, RunInv, CompletedHasRun,
         ContInv, ContainersOwned, Goto, Know, Release, NoJob, Status, PC,
         ExecResult, Outcome, db, proc, slots, requests, history, Up

\* The end of a container nobody waits for keeps the invariant.
LEMMA OrphanInv ==
  ASSUME IInv, NEW j \in Jobs, OrphanExits(j)
  PROVE  IInv'
  BY JobsAssumption, TestOfAssumption
     DEF OrphanExits, Removed, IInv, TypeOK,
         SlotInv, OwnerInv, StartInv, StopInv, StopHonoured, RunInv,
         CompletedHasRun, ContInv, ContainersOwned, Goto, Know, Release,
         NoJob, Status, PC, ExecResult, Outcome, db, proc, slots, requests,
         history, Up

\* Claiming a job keeps the invariant: the row was queued, so no slot, container
\* or cancellation is about it yet.
LEMMA DequeueInv ==
  ASSUME IInv, NEW s \in Slots, NEW j \in Jobs, Dequeue(s, j)
  PROVE  IInv'
  BY JobsAssumption, TestOfAssumption
     DEF Dequeue, MayClaim, Oldest,
         IInv, TypeOK, SlotInv, OwnerInv, StartInv, StopInv, StopHonoured,
         RunInv, CompletedHasRun, ContInv, ContainersOwned, Goto, Know,
         Release, NoJob, Status, PC, ExecResult, Outcome, db, proc, slots,
         requests, history, Up

\* Claiming a job and losing the reply keeps the invariant.
LEMMA ReplyLostInv ==
  ASSUME IInv, NEW s \in Slots, NEW j \in Jobs, DequeueReplyLost(s, j)
  PROVE  IInv'
  BY JobsAssumption, TestOfAssumption
     DEF DequeueReplyLost, MayClaim,
         Oldest, IInv, TypeOK, SlotInv, OwnerInv, StartInv, StopInv,
         StopHonoured, RunInv, CompletedHasRun, ContInv, ContainersOwned,
         Goto, Know, Release, NoJob, Status, PC, ExecResult, Outcome, db,
         proc, slots, requests, history, Up

\* Every step of a job's handler keeps the invariant.
LEMMA HandlerInv ==
  ASSUME IInv, NEW s \in Slots, Handler(s)
  PROVE  IInv'
  <1> USE JobsAssumption, TestOfAssumption, StopsAssumption
      DEF IInv, TypeOK, SlotInv, OwnerInv, StartInv, StopInv, StopHonoured,
          RunInv, CompletedHasRun, ContInv, ContainersOwned, Goto, Know,
          Release, NoJob, Status, PC, ExecResult, Outcome, db, proc, slots,
          requests, history
  <1>1. CASE CheckBeforeRun(s)
    BY <1>1 DEF CheckBeforeRun
  <1>2. CASE Prepare(s)
    BY <1>2 DEF Prepare
  <1>3. CASE PrepareFails(s)
    BY <1>3 DEF PrepareFails
  <1>4. CASE StartCommand(s)
    BY <1>4 DEF StartCommand
  <1>5. CASE StartFails(s)
    BY <1>5 DEF StartFails
  <1>6. CASE RegisterActive(s)
    BY <1>6 DEF RegisterActive
  <1>7. CASE ExecuteReturns(s)
    <2>1. TypeOK'
      BY <1>7 DEF ExecuteReturns, Removed, StaysBehind
    <2>2. SlotInv'
      BY <1>7 DEF ExecuteReturns, Removed, StaysBehind
    <2>3. OwnerInv'
      BY <1>7 DEF ExecuteReturns, Removed, StaysBehind
    <2>4. StartInv'
      BY <1>7 DEF ExecuteReturns, Removed, StaysBehind
    <2>5. StopInv'
      BY <1>7 DEF ExecuteReturns, Removed, StaysBehind
    <2>6. RunInv'
      BY <1>7 DEF ExecuteReturns, Removed, StaysBehind
    <2>7. ContInv'
      <3>1. cont' \subseteq claimed'
        BY <1>7 DEF ExecuteReturns, Removed, StaysBehind
      <3>2. job[s] \in cont' \ left' => \E c \in Clients : crm'[c] = job[s]
        BY <1>7 DEF ExecuteReturns, Removed, StaysBehind
      <3>3. \A x \in Slots : job'[x] \in cont' \ left' =>
               \/ out'[x] \in {"up", "timeout", "error"} /\ pc'[x] \in {"spawned", "running"}
               \/ \E c \in Clients : crm'[c] = job'[x]
        BY <1>7, <3>2 DEF ExecuteReturns, Removed, StaysBehind
      <3>4. ContainersOwned'
        <4>1. SUFFICES ASSUME ~lost, NEW j \in cont' \ left', \A c \in Clients : crm'[c] # j
                       PROVE  \E x \in Slots : /\ job'[x] = j
                                               /\ pc'[x] \in {"spawned", "running"}
                                               /\ out'[x] \in {"up", "timeout", "error"}
          BY <1>7 DEF ExecuteReturns, Removed, StaysBehind
        <4>2. j \in cont \ left /\ j # job[s]
          BY <1>7, <3>2, <4>1 DEF ExecuteReturns, Removed, StaysBehind
        <4>3. PICK x \in Slots : /\ job[x] = j
                                 /\ pc[x] \in {"spawned", "running"}
                                 /\ out[x] \in {"up", "timeout", "error"}
          BY <1>7, <4>1, <4>2 DEF ExecuteReturns, Removed, StaysBehind
        <4>4. QED
          BY <1>7, <4>2, <4>3 DEF ExecuteReturns, Removed, StaysBehind
      <3>5. QED
        BY <3>1, <3>3, <3>4
    <2>8. QED
      BY <2>1, <2>2, <2>3, <2>4, <2>5, <2>6, <2>7
  <1>8. CASE RecordRun(s)
    <2>0. /\ job[s] \in Jobs /\ recorded' = recorded \cup {job[s]} /\ recorded \subseteq Jobs
          /\ pc' = [pc EXCEPT ![s] = "final"]
          /\ out' = [out EXCEPT ![s] = IF out[s] = "error" THEN "failed" ELSE "completed"]
          /\ UNCHANGED <<status, claimed, exists, proc, job, cont, sweepIds, requests, history>>
      BY <1>8 DEF RecordRun
    <2>1. recorded' \subseteq Jobs
      BY ONLY <2>0
    <2>2. TypeOK'
      BY <2>0, <2>1
    <2>3. SlotInv' /\ OwnerInv' /\ StartInv' /\ StopInv'
      BY <1>8, <2>0 DEF RecordRun
    <2>4. RunInv'
      <3>1. \A j \in recorded : j \in recorded'
        BY ONLY <2>0
      <3>2. job[s] \in recorded'
        BY ONLY <2>0
      <3>3. CompletedHasRun'
        BY <2>0, <3>1
      <3>4. ASSUME NEW x \in Slots, pc'[x] \in {"final", "complete"}, out'[x] = "completed"
            PROVE  job'[x] \in recorded' \/ status'[job'[x]] = "deleted"
        <4>1. CASE x = s
          BY <2>0, <3>2, <4>1
        <4>2. CASE x # s
          BY <2>0, <3>1, <3>4, <4>2
        <4>3. QED
          BY <4>1, <4>2
      <3>5. QED
        BY <3>3, <3>4
    <2>5. ContInv'
      BY <1>8, <2>0 DEF RecordRun
    <2>6. QED
      BY <2>2, <2>3, <2>4, <2>5
  <1>9. CASE RecordFails(s)
    BY <1>9 DEF RecordFails
  <1>10. CASE FinalCheck(s)
    <2>1. TypeOK'
      BY <1>10 DEF FinalCheck
    <2>2. SlotInv'
      BY <1>10 DEF FinalCheck
    <2>3. OwnerInv'
      BY <1>10 DEF FinalCheck
    <2>4. StartInv'
      BY <1>10 DEF FinalCheck
    <2>5. StopInv'
      <3>1. CASE status[job[s]] = "cancelled"
        BY <1>10, <3>1 DEF FinalCheck
      <3>2. CASE status[job[s]] # "cancelled"
        <4>1. job[s] \in stopped => status[job[s]] = "deleted"
          BY <3>2
        <4>2. UNCHANGED <<status, stopped, job>> /\ pc' = [pc EXCEPT ![s] = "complete"]
          BY <1>10, <3>2 DEF FinalCheck
        <4>3. QED
          BY <4>1, <4>2
      <3>3. QED
        BY <3>1, <3>2
    <2>6. RunInv'
      BY <1>10 DEF FinalCheck
    <2>7. ContInv'
      BY <1>10 DEF FinalCheck
    <2>8. QED
      BY <2>1, <2>2, <2>3, <2>4, <2>5, <2>6, <2>7
  <1>11. CASE FinalCheckFails(s)
    <2>1. TypeOK'
      BY <1>11 DEF FinalCheckFails
    <2>2. SlotInv'
      BY <1>11 DEF FinalCheckFails
    <2>3. OwnerInv'
      BY <1>11 DEF FinalCheckFails
    <2>4. StartInv'
      BY <1>11 DEF FinalCheckFails
    <2>5. StopInv'
      BY <1>11 DEF FinalCheckFails
    <2>6. RunInv'
      BY <1>11 DEF FinalCheckFails
    <2>7. ContInv'
      BY <1>11 DEF FinalCheckFails
    <2>8. QED
      BY <2>1, <2>2, <2>3, <2>4, <2>5, <2>6, <2>7
  <1>12. CASE CompleteJob(s)
    BY <1>12 DEF CompleteJob
  <1>13. CASE CompleteFails(s)
    BY <1>13 DEF CompleteFails
  <1>14. CASE Panic(s)
    <2>1. TypeOK'
      BY <1>14 DEF Panic
    <2>2. SlotInv'
      BY <1>14 DEF Panic
    <2>3. OwnerInv'
      BY <1>14 DEF Panic
    <2>4. StartInv'
      BY <1>14 DEF Panic
    <2>5. StopInv'
      BY <1>14 DEF Panic
    <2>6. RunInv'
      BY <1>14 DEF Panic
    <2>7. ContInv'
      BY <1>14 DEF Panic
    <2>8. QED
      BY <2>1, <2>2, <2>3, <2>4, <2>5, <2>6, <2>7
  <1>15. CASE RecoverPanic(s)
    BY <1>15 DEF RecoverPanic
  <1>16. QED
    BY <1>1, <1>2, <1>3, <1>4, <1>5, <1>6, <1>7, <1>8, <1>9,
       <1>10, <1>11, <1>12, <1>13, <1>14, <1>15 DEF Handler

\* What docker does to a handler's command keeps the invariant.
LEMMA DockerInv ==
  ASSUME IInv, NEW s \in Slots, Docker(s)
  PROVE  IInv'
  <1> USE JobsAssumption, TestOfAssumption, StopsAssumption
      DEF IInv, TypeOK, SlotInv, OwnerInv, StartInv, StopInv, StopHonoured,
          RunInv, CompletedHasRun, ContInv, ContainersOwned, Goto, Know,
          Release, NoJob, Status, PC, ExecResult, Outcome, db, proc, slots,
          requests, history
  <1>1. CASE Launch(s)
    <2>1. TypeOK'
      <3>1. job[s] \in Jobs
        BY <1>1 DEF Launch
      <3>2. cont' = cont \cup {job[s]}
        BY <1>1 DEF Launch
      <3>3. cont' \subseteq Jobs
        <4>1. cont \subseteq Jobs
          OBVIOUS
        <4>2. QED
          BY ONLY <3>1, <3>2, <4>1
      <3>4. out' \in [Slots -> Outcome]
        BY <1>1 DEF Launch
      <3>5. QED
        BY <1>1, <3>3, <3>4 DEF Launch
    <2>2. SlotInv'
      BY <1>1 DEF Launch
    <2>3. OwnerInv'
      BY <1>1 DEF Launch
    <2>4. StartInv'
      BY <1>1 DEF Launch
    <2>5. StopInv'
      BY <1>1 DEF Launch
    <2>6. RunInv'
      BY <1>1 DEF Launch
    <2>7. ContInv'
      <3>1. cont' \subseteq claimed'
        <4>1. job[s] \in claimed
          BY <1>1 DEF Launch
        <4>2. cont' = cont \cup {job[s]} /\ claimed' = claimed
          BY <1>1 DEF Launch
        <4>3. cont \subseteq claimed
          OBVIOUS
        <4>4. QED
          BY ONLY <4>1, <4>2, <4>3
      <3>2. \A x \in Slots : job'[x] \in cont' \ left' =>
               \/ out'[x] \in {"up", "timeout", "error"} /\ pc'[x] \in {"spawned", "running"}
               \/ \E c \in Clients : crm'[c] = job'[x]
        BY <1>1 DEF Launch
      <3>3. ContainersOwned'
        <4>1. SUFFICES ASSUME ~lost, NEW j \in cont' \ left', \A c \in Clients : crm'[c] # j
                       PROVE  \E x \in Slots : /\ job'[x] = j
                                               /\ pc'[x] \in {"spawned", "running"}
                                               /\ out'[x] \in {"up", "timeout", "error"}
          BY <1>1 DEF Launch
        <4>2. CASE j = job[s]
          BY <1>1, <4>2 DEF Launch
        <4>3. CASE j # job[s]
          <5>1. PICK x \in Slots : /\ job[x] = j
                                   /\ pc[x] \in {"spawned", "running"}
                                   /\ out[x] \in {"up", "timeout", "error"}
            BY <1>1, <4>1, <4>3 DEF Launch
          <5>2. QED
            BY <1>1, <4>3, <5>1 DEF Launch
        <4>4. QED
          BY <4>2, <4>3
      <3>4. QED
        BY <3>1, <3>2, <3>3
    <2>8. QED
      BY <2>1, <2>2, <2>3, <2>4, <2>5, <2>6, <2>7
  <1>2. CASE CommandExits(s)
    <2>0. out' = [out EXCEPT ![s] = "exited"]
      BY <1>2 DEF CommandExits
    <2>1. TypeOK'
      <3>1. cont' \subseteq Jobs /\ out' \in [Slots -> Outcome]
        <4>1. cont' = cont \ {job[s]} /\ cont \subseteq Jobs
          BY <1>2 DEF CommandExits
        <4>2. cont' \subseteq Jobs
          BY ONLY <4>1
        <4>3. out' \in [Slots -> Outcome]
          BY <2>0
        <4>4. QED
          BY <4>2, <4>3
      <3>2. QED
        BY <1>2, <3>1 DEF CommandExits
    <2>2. SlotInv'
      BY <1>2 DEF CommandExits
    <2>3. OwnerInv'
      BY <1>2 DEF CommandExits
    <2>4. StartInv'
      BY <1>2 DEF CommandExits
    <2>5. StopInv'
      BY <1>2 DEF CommandExits
    <2>6. RunInv'
      BY <1>2 DEF CommandExits
    <2>7. ContInv'
      <3>1. cont' \subseteq claimed'
        BY <1>2 DEF CommandExits
      <3>2. \A x \in Slots : job'[x] \in cont' \ left' =>
               \/ out'[x] \in {"up", "timeout", "error"} /\ pc'[x] \in {"spawned", "running"}
               \/ \E c \in Clients : crm'[c] = job'[x]
        BY <1>2, <2>0 DEF CommandExits
      <3>3. ContainersOwned'
        <4>1. SUFFICES ASSUME ~lost, NEW j \in cont' \ left', \A c \in Clients : crm'[c] # j
                       PROVE  \E x \in Slots : /\ job'[x] = j
                                               /\ pc'[x] \in {"spawned", "running"}
                                               /\ out'[x] \in {"up", "timeout", "error"}
          BY <1>2 DEF CommandExits
        <4>2. j \in cont \ left /\ j # job[s]
          BY <1>2, <4>1 DEF CommandExits
        <4>3. PICK x \in Slots : /\ job[x] = j
                                 /\ pc[x] \in {"spawned", "running"}
                                 /\ out[x] \in {"up", "timeout", "error"}
          BY <1>2, <4>1, <4>2 DEF CommandExits
        <4>4. QED
          BY <1>2, <2>0, <4>2, <4>3 DEF CommandExits
      <3>4. QED
        BY <3>1, <3>2, <3>3
    <2>8. QED
      BY <2>1, <2>2, <2>3, <2>4, <2>5, <2>6, <2>7
  <1>3. CASE Deadline(s)
    BY <1>3 DEF Deadline
  <1>4. CASE WaitFails(s)
    BY <1>4 DEF WaitFails
  <1>5. QED
    BY <1>1, <1>2, <1>3, <1>4 DEF Docker

\* A statement that gives a set of jobs one status leaves every row with a status.
LEMMA StatusUpdate ==
  ASSUME NEW f \in [Jobs -> Status], NEW S, NEW v \in Status
  PROVE  [j \in Jobs |-> IF j \in S THEN v ELSE f[j]] \in [Jobs -> Status]
  OBVIOUS

\* The stale-job sweeper keeps the invariant.
LEMMA SweeperInv ==
  ASSUME IInv, Sweeper
  PROVE  IInv'
  <1> USE JobsAssumption, TestOfAssumption, StopsAssumption
      DEF IInv, TypeOK, SlotInv, OwnerInv, StartInv, StopInv, StopHonoured,
          RunInv, CompletedHasRun, ContInv, ContainersOwned, Goto, Know,
          Release, NoJob, Status, PC, ExecResult, Outcome, db, proc, slots,
          requests, history
  <1>1. ASSUME NEW S \in SUBSET Jobs, FailStale(S) PROVE IInv'
    <2>0. /\ status' = [j \in Jobs |-> IF j \in S THEN "failed" ELSE status[j]]
          /\ sweepIds' \subseteq Jobs
          /\ UNCHANGED <<claimed, exists, recorded, proc, slots, cont, requests, history>>
      BY <1>1 DEF FailStale
    <2>1. TypeOK'
      <3>1. status' \in [Jobs -> Status]
        <4>1. status \in [Jobs -> Status] /\ "failed" \in Status
          OBVIOUS
        <4>2. QED
          BY ONLY <2>0, <4>1, StatusUpdate
      <3>2. QED
        BY <2>0, <3>1
    <2>2. SlotInv'
      BY <1>1 DEF FailStale, MayBeStale
    <2>3. OwnerInv'
      BY <1>1 DEF FailStale, MayBeStale
    <2>4. StartInv'
      BY <1>1 DEF FailStale, MayBeStale
    <2>5. StopInv'
      BY <1>1 DEF FailStale, MayBeStale
    <2>6. RunInv'
      <3>1. \A j \in Jobs : status'[j] \in {status[j], "failed"}
        BY ONLY <2>0
      <3>2. \A j \in S : status[j] # "deleted"
        BY <1>1 DEF FailStale, MayBeStale
      <3>3. CompletedHasRun'
        BY <2>0, <3>1
      <3>4. ASSUME NEW x \in Slots, pc'[x] \in {"final", "complete"}, out'[x] = "completed"
            PROVE  job'[x] \in recorded' \/ status'[job'[x]] = "deleted"
        <4>1. job'[x] = job[x] /\ job[x] \in Jobs /\ recorded' = recorded
          BY <2>0, <3>4
        <4>2. job[x] \in recorded \/ status[job[x]] = "deleted"
          BY <2>0, <3>4
        <4>3. status[job[x]] = "deleted" => status'[job[x]] = "deleted"
          BY ONLY <2>0, <3>2, <4>1
        <4>4. QED
          BY ONLY <4>1, <4>2, <4>3
      <3>5. QED
        BY <3>3, <3>4
    <2>7. ContInv'
      BY <1>1 DEF FailStale, MayBeStale
    <2>8. QED
      BY <2>1, <2>2, <2>3, <2>4, <2>5, <2>6, <2>7
  <1>2. ASSUME NEW j \in Jobs, KillSwept(j) PROVE IInv'
    BY <1>2 DEF KillSwept, Killed, Removed
  <1>3. ASSUME NEW S \in SUBSET Jobs, DeleteFinishedJobsBefore(S) PROVE IInv'
    BY <1>3 DEF DeleteFinishedJobsBefore
  <1>4. ASSUME NEW j \in Jobs, KillSweptFails(j) PROVE IInv'
    <2>1. CASE \E s \in Slots : job[s] = j
      <3>1. /\ sweepIds' = sweepIds \ {j}
            /\ UNCHANGED <<db, proc, slots, cont, left, requests, starts, stopped>>
        BY <1>4, <2>1 DEF KillSweptFails
      <3>2. sweepIds' \subseteq Jobs
        <4>1. sweepIds \subseteq Jobs
          OBVIOUS
        <4>2. QED
          BY ONLY <3>1, <4>1
      <3>3. TypeOK'
        BY <3>1, <3>2
      <3>4. SlotInv' /\ OwnerInv' /\ StartInv' /\ StopInv' /\ RunInv' /\ ContInv'
        BY <3>1
      <3>5. QED
        BY <3>3, <3>4
    <2>2. CASE ~\E s \in Slots : job[s] = j
      <3>1. /\ cont' = cont /\ left' = left \cup (cont \cap {j})
            /\ sweepIds' = sweepIds \ {j}
            /\ UNCHANGED <<db, proc, slots, requests, starts, stopped>>
        BY <1>4, <2>2 DEF KillSweptFails, StaysBehind
      <3>2. left' \subseteq Jobs /\ sweepIds' \subseteq Jobs /\ left \subseteq left'
        <4>1. left \subseteq Jobs /\ cont \subseteq Jobs /\ sweepIds \subseteq Jobs
          OBVIOUS
        <4>2. QED
          BY ONLY <3>1, <4>1
      <3>3. TypeOK'
        BY <3>1, <3>2
      <3>4. SlotInv' /\ OwnerInv' /\ StartInv' /\ StopInv' /\ RunInv'
        BY <3>1
      <3>5. ContInv'
        BY <3>1, <3>2
      <3>6. QED
        BY <3>3, <3>4, <3>5
    <2>3. QED
      BY <2>1, <2>2
  <1>5. QED
    BY <1>1, <1>2, <1>3, <1>4 DEF Sweeper

\* Every step of a stop or delete request keeps the invariant.
LEMMA RequestInv ==
  ASSUME IInv, NEW c \in Clients, Request(c)
  PROVE  IInv'
  <1> USE JobsAssumption, TestOfAssumption, StopsAssumption
      DEF IInv, TypeOK, SlotInv, OwnerInv, StartInv, StopInv, StopHonoured,
          RunInv, CompletedHasRun, ContInv, ContainersOwned, Goto, Know,
          Release, NoJob, Status, PC, ExecResult, Outcome, db, proc, slots,
          requests, history
  <1>1. ASSUME NEW t \in Tests, NEW op \in {"stop", "delete"}, ListActive(c, t, op) PROVE IInv'
    BY <1>1 DEF ListActive, JobsOf
  <1>2. ASSUME NEW j \in Jobs, Cancel(c, j) PROVE IInv'
    <2>0. /\ out' \in [Slots -> Outcome] /\ crm' \in [Clients -> Jobs \cup {NoJob}]
          /\ \A d \in Clients : crm[d] # NoJob => crm'[d] = crm[d]
          /\ \A x \in Slots : \/ out'[x] = out[x]
                             \/ /\ job[x] = j /\ crm'[c] = j
                                /\ out[x] \in {"starting", "up"}
                                /\ out'[x] = "exited"
      <3>1. CASE j \in activeCommands
        <4>1. crm' = [crm EXCEPT ![c] = j] /\ out' = Killed(j, {"starting", "up"})
          BY <1>2, <3>1 DEF Cancel
        <4>2. out' \in [Slots -> Outcome] /\ crm[c] = NoJob
          BY <1>2, <4>1 DEF Killed, Cancel
        <4>3. QED
          BY <4>1, <4>2 DEF Killed
      <3>2. CASE j \notin activeCommands
        <4>1. crm' = crm /\ out' = out
          BY <1>2, <3>2 DEF Cancel
        <4>2. QED
          BY <4>1
      <3>3. QED
        BY <3>1, <3>2
    <2>a. /\ ckill' = [ckill EXCEPT ![c] = @ \ {j}]
          /\ UNCHANGED <<db, proc, pc, job, cont, sweepIds, creq, cop, ctest, history>>
      BY <1>2 DEF Cancel
    <2>1. TypeOK'
      <3>1. ckill' \in [Clients -> SUBSET Jobs]
        BY <2>a
      <3>2. QED
        BY <2>0, <2>a, <3>1
    <2>2. SlotInv'
      BY <2>0, <2>a
    <2>3. OwnerInv'
      BY <2>a
    <2>4. StartInv'
      BY <2>a
    <2>5. StopInv'
      BY <2>a
    <2>6. RunInv'
      BY <2>0, <2>a
    <2>7. ContInv'
      <3>1. \A k \in Jobs, d \in Clients : crm[d] = k => crm'[d] = k
        BY <2>0
      <3>2. ASSUME NEW x \in Slots, job'[x] \in cont' \ left'
            PROVE  \/ out'[x] \in {"up", "timeout", "error"} /\ pc'[x] \in {"spawned", "running"}
                   \/ \E d \in Clients : crm'[d] = job'[x]
        <4>1. job[x] \in cont \ left /\ job'[x] = job[x] /\ pc'[x] = pc[x] /\ job[x] \in Jobs
          BY <2>a, <3>2
        <4>2. CASE out'[x] = out[x]
          <5>1. \/ out[x] \in {"up", "timeout", "error"} /\ pc[x] \in {"spawned", "running"}
                \/ \E d \in Clients : crm[d] = job[x]
            BY <4>1
          <5>2. QED
            BY ONLY <3>1, <4>1, <4>2, <5>1
        <4>3. CASE out'[x] # out[x]
          BY <2>0, <4>1, <4>3
        <4>4. QED
          BY <4>2, <4>3
      <3>3. ContainersOwned'
        <4>1. SUFFICES ASSUME ~lost, NEW k \in cont \ left, \A d \in Clients : crm'[d] # k
                       PROVE  \E x \in Slots : /\ job[x] = k
                                               /\ pc[x] \in {"spawned", "running"}
                                               /\ out'[x] \in {"up", "timeout", "error"}
          BY <2>a
        <4>2. k \in Jobs /\ \A d \in Clients : crm[d] # k
          BY <3>1, <4>1
        <4>3. PICK x \in Slots : /\ job[x] = k
                                 /\ pc[x] \in {"spawned", "running"}
                                 /\ out[x] \in {"up", "timeout", "error"}
          BY <4>1, <4>2
        <4>4. QED
          BY <2>0, <4>1, <4>3
      <3>4. QED
        BY <2>a, <3>2, <3>3
    <2>8. QED
      BY <2>1, <2>2, <2>3, <2>4, <2>5, <2>6, <2>7
  <1>3. CASE AllCancelled(c)
    BY <1>3 DEF AllCancelled
  <1>4. CASE CancelActiveForTest(c)
    <2> DEFINE hit == Cancellable(ctest[c])
    <2>1. /\ status' = [j \in Jobs |-> IF j \in hit THEN "cancelled" ELSE status[j]]
          /\ stopped' = stopped \cup (hit \ PastCheck)
          /\ UNCHANGED <<claimed, exists, recorded, proc, slots, cont, sweepIds, ctest, left,
                         starts>>
      BY <1>4 DEF CancelActiveForTest
    <2>2. hit \subseteq Jobs /\ \A j \in hit : status[j] \in {"queued", "running"}
      BY DEF Cancellable, JobsOf, Active
    <2>3. \A x \in Slots : pc[x] \in {"complete", "panicked"} => job[x] \in PastCheck
      BY DEF PastCheck
    <2> HIDE DEF hit
    <2>4. TypeOK'
      <3>1. /\ creq' \in [Clients -> {"idle", "kill", "cancel", "delete"}]
            /\ cop' \in [Clients -> {"stop", "delete"}]
            /\ ckill' \in [Clients -> SUBSET Jobs] /\ crm' = crm
        BY <1>4 DEF CancelActiveForTest, Answer
      <3>2. status' \in [Jobs -> Status] /\ stopped' \subseteq Jobs
        <4>1. status \in [Jobs -> Status] /\ "cancelled" \in Status /\ stopped \subseteq Jobs
          OBVIOUS
        <4>2. QED
          BY ONLY <2>1, <2>2, <4>1, StatusUpdate
      <3>3. QED
        BY <2>1, <3>1, <3>2
    <2>5. SlotInv'
      BY <2>1
    <2>6. OwnerInv'
      BY <2>1, <2>2
    <2>7. StartInv'
      BY <2>1
    <2>8. StopInv'
      <3>1. StopHonoured'
        BY <2>1, <2>2
      <3>2. ASSUME NEW x \in Slots, pc[x] \in {"complete", "panicked"}, job[x] \in stopped'
            PROVE  status'[job[x]] = "deleted"
        BY <2>1, <2>2, <2>3, <3>2
      <3>3. QED
        BY <2>1, <3>1, <3>2
    <2>9. RunInv'
      <3>1. /\ \A j \in Jobs : status'[j] \in {status[j], "cancelled"}
            /\ \A j \in Jobs : status[j] = "deleted" => status'[j] = "deleted"
        BY ONLY <2>1, <2>2
      <3>2. CompletedHasRun'
        BY <2>1, <3>1
      <3>3. ASSUME NEW x \in Slots, pc'[x] \in {"final", "complete"}, out'[x] = "completed"
            PROVE  job'[x] \in recorded' \/ status'[job'[x]] = "deleted"
        <4>1. job'[x] = job[x] /\ job[x] \in Jobs /\ recorded' = recorded
          BY <2>1, <3>3
        <4>2. job[x] \in recorded \/ status[job[x]] = "deleted"
          BY <2>1, <3>3
        <4>3. QED
          BY ONLY <3>1, <4>1, <4>2
      <3>4. QED
        BY <3>2, <3>3
    <2>10. ContInv'
      <3>1. crm' = crm
        BY <1>4 DEF CancelActiveForTest, Answer
      <3>2. QED
        BY <2>1, <3>1
    <2>11. QED
      BY <2>4, <2>5, <2>6, <2>7, <2>8, <2>9, <2>10
  <1>5. CASE DeleteTest(c)
    <2>0. /\ status' = [j \in Jobs |-> IF j \in JobsOf(ctest[c]) /\ status[j] # "none"
                                       THEN "deleted" ELSE status[j]]
          /\ recorded' = recorded \ JobsOf(ctest[c])
          /\ exists' = exists \ {ctest[c]} /\ crm' = crm
          /\ UNCHANGED <<claimed, proc, slots, cont, sweepIds, ctest, history>>
      BY <1>5 DEF DeleteTest, Answer
    <2>1. TypeOK'
      <3>1. /\ creq' \in [Clients -> {"idle", "kill", "cancel", "delete"}]
            /\ cop' \in [Clients -> {"stop", "delete"}]
            /\ ckill' \in [Clients -> SUBSET Jobs]
        BY <1>5 DEF DeleteTest, Answer
      <3>2. recorded' \subseteq Jobs /\ exists' \subseteq Tests /\ status' \in [Jobs -> Status]
        BY <2>0
      <3>3. QED
        BY <2>0, <3>1, <3>2
    <2>2. SlotInv' /\ StartInv'
      BY <2>0
    <2>3. OwnerInv'
      BY <2>0
    <2>4. StopInv'
      BY <2>0
    <2>5. RunInv'
      <3>1. \A j \in Jobs : status'[j] = "completed" \/ status[j] = "deleted" \/ j \in recorded =>
               j \in recorded' \/ status'[j] = "deleted" \/ status[j] \in {"none", "completed"}
        BY <2>0
      <3>2. CompletedHasRun'
        <4>1. ASSUME NEW j \in Jobs, status'[j] = "completed" PROVE j \in recorded'
          <5>1. status[j] = "completed" /\ j \notin JobsOf(ctest[c])
            BY <2>0, <4>1
          <5>2. QED
            BY <2>0, <5>1
        <4>2. QED
          BY <4>1
      <3>3. ASSUME NEW x \in Slots, pc[x] \in {"final", "complete"}, out[x] = "completed"
            PROVE  job[x] \in recorded' \/ status'[job[x]] = "deleted"
        <4>1. job[x] \in Jobs /\ status[job[x]] \notin {"none", "completed"}
          BY <3>3
        <4>2. job[x] \in recorded \/ status[job[x]] = "deleted"
          BY <3>3
        <4>3. QED
          BY <3>1, <4>1, <4>2
      <3>4. QED
        BY <2>0, <3>2, <3>3
    <2>6. ContInv'
      BY <2>0
    <2>7. QED
      BY <2>1, <2>2, <2>3, <2>4, <2>5, <2>6
  <1>6. CASE AbortRequest(c)
    BY <1>6 DEF AbortRequest, Answer
  <1>7. CASE CancelRemoves(c)
    <2>0. /\ \/ cont' = cont \ {crm[c]} /\ left' = left \ {crm[c]}
             \/ cont' = cont /\ left' = left \cup (cont \cap {crm[c]})
          /\ crm' \in [Clients -> Jobs \cup {NoJob}]
          /\ \A d \in Clients : crm[d] \in {crm[c], crm'[d]}
          /\ UNCHANGED <<db, proc, slots, sweepIds, creq, cop, ctest, ckill, starts, stopped>>
      BY <1>7 DEF CancelRemoves, Removed, StaysBehind
    <2>1. TypeOK'
      BY <2>0
    <2>2. SlotInv' /\ OwnerInv' /\ StartInv' /\ StopInv' /\ RunInv'
      BY <2>0
    <2>3. ContInv'
      <3>1. cont' \subseteq claimed'
        BY <2>0
      <3>2. ASSUME NEW x \in Slots, job'[x] \in cont' \ left'
            PROVE  \/ out'[x] \in {"up", "timeout", "error"} /\ pc'[x] \in {"spawned", "running"}
                   \/ \E d \in Clients : crm'[d] = job'[x]
        <4>1. /\ job'[x] = job[x] /\ out'[x] = out[x] /\ pc'[x] = pc[x]
              /\ job[x] \in cont \ left /\ job[x] # crm[c]
          BY <2>0, <3>2
        <4>2. \/ out[x] \in {"up", "timeout", "error"} /\ pc[x] \in {"spawned", "running"}
              \/ \E d \in Clients : crm[d] = job[x]
          BY <4>1
        <4>3. QED
          BY ONLY <2>0, <4>1, <4>2
      <3>3. ASSUME ~lost, NEW k \in cont' \ left'
            PROVE  \/ \E x \in Slots : /\ job[x] = k
                                       /\ pc[x] \in {"spawned", "running"}
                                       /\ out[x] \in {"up", "timeout", "error"}
                   \/ \E d \in Clients : crm'[d] = k
        <4>1. k \in cont \ left /\ k # crm[c]
          BY ONLY <2>0, <3>3
        <4>2. \/ \E x \in Slots : /\ job[x] = k
                                  /\ pc[x] \in {"spawned", "running"}
                                  /\ out[x] \in {"up", "timeout", "error"}
              \/ \E d \in Clients : crm[d] = k
          BY <3>3, <4>1
        <4>3. QED
          BY ONLY <2>0, <4>1, <4>2
      <3>4. ContainersOwned'
        BY <2>0, <3>3
      <3>5. QED
        BY <3>1, <3>2, <3>4
    <2>4. QED
      BY <2>1, <2>2, <2>3
  <1>8. QED
    BY <1>1, <1>2, <1>3, <1>4, <1>5, <1>6, <1>7 DEF Request

\* Shutdown, crash and restart keep the invariant.
LEMMA ProcessInv ==
  ASSUME IInv, Process
  PROVE  IInv'
  <1> USE JobsAssumption, TestOfAssumption, StopsAssumption
      DEF IInv, TypeOK, SlotInv, OwnerInv, StartInv, StopInv, StopHonoured,
          RunInv, CompletedHasRun, ContInv, ContainersOwned, Goto, Know,
          Release, NoJob, Status, PC, ExecResult, Outcome, db, proc, slots,
          requests, history
  <1>1. CASE Shutdown
    BY <1>1 DEF Shutdown
  <1>2. CASE StopWorker
    BY <1>2 DEF StopWorker
  <1>3. CASE Exit
    <2>1. TypeOK'
      BY <1>3 DEF Exit, ProcessEnds
    <2>2. SlotInv'
      BY <1>3 DEF Exit, ProcessEnds
    <2>3. OwnerInv'
      BY <1>3 DEF Exit, ProcessEnds
    <2>4. StartInv'
      BY <1>3 DEF Exit, ProcessEnds
    <2>5. StopInv'
      BY <1>3 DEF Exit, ProcessEnds
    <2>6. RunInv'
      BY <1>3 DEF Exit, ProcessEnds
    <2>7. ContInv'
      BY <1>3 DEF Exit, ProcessEnds
    <2>8. QED
      BY <2>1, <2>2, <2>3, <2>4, <2>5, <2>6, <2>7
  <1>4. CASE Crash
    <2>1. TypeOK'
      BY <1>4 DEF Crash, ProcessEnds
    <2>2. SlotInv'
      BY <1>4 DEF Crash, ProcessEnds
    <2>3. OwnerInv'
      BY <1>4 DEF Crash, ProcessEnds
    <2>4. StartInv'
      BY <1>4 DEF Crash, ProcessEnds
    <2>5. StopInv'
      BY <1>4 DEF Crash, ProcessEnds
    <2>6. RunInv'
      BY <1>4 DEF Crash, ProcessEnds
    <2>7. ContInv'
      BY <1>4 DEF Crash, ProcessEnds
    <2>8. QED
      BY <2>1, <2>2, <2>3, <2>4, <2>5, <2>6, <2>7
  <1>5. CASE Restart
    BY <1>5 DEF Restart
  <1>6. QED
    BY <1>1, <1>2, <1>3, <1>4, <1>5 DEF Process

\* Every step of the system keeps the invariant.
LEMMA NextInv == IInv /\ [Next]_vars => IInv'
  <1> SUFFICES ASSUME IInv, [Next]_vars PROVE IInv'
    OBVIOUS
  <1>1. CASE Next
    BY <1>1, EnqueueInv, OrphanInv, DequeueInv, ReplyLostInv, HandlerInv, DockerInv,
       SweeperInv, RequestInv, ProcessInv DEF Next
  <1>2. CASE UNCHANGED vars
    BY <1>2 DEF vars, IInv, TypeOK, SlotInv, OwnerInv, StartInv, StopInv,
        StopHonoured, RunInv, CompletedHasRun, ContInv, ContainersOwned,
        NoJob, Status, PC, ExecResult, Outcome, db, proc, slots, requests,
        history
  <1>3. QED
    BY <1>1, <1>2

\* The invariant holds in every reachable state.
LEMMA Invariance == Spec => []IInv
  BY InitInv, NextInv, PTL DEF Spec

-----------------------------------------------------------------------------
(* The properties. *)

\* The variables keep their types.
THEOREM TypeCorrect == Spec => []TypeOK
  <1>1. IInv => TypeOK
    BY DEF IInv
  <1>2. QED
    BY Invariance, <1>1, PTL

\* No job's command is started twice and no two slots share a job, for any number
\* of slots, lost replies, crashes and restarts.
THEOREM ExecutedAtMostOnce == Spec => []AtMostOnce
  <1>1. IInv => AtMostOnce
    BY DEF IInv, OwnerInv, StartInv, AtMostOnce
  <1>2. QED
    BY Invariance, <1>1, PTL

\* A cancellation that reaches the row before the handler's last status check
\* stands, however requests, sweeps and handlers interleave.
THEOREM StopIsHonoured == Spec => []StopHonoured
  <1>1. IInv => StopHonoured
    BY DEF IInv, StopInv
  <1>2. QED
    BY Invariance, <1>1, PTL

\* No failure path of executeJob, panic or retry reports a job as completed
\* without its run.
THEOREM CompletedRunsRecorded == Spec => []CompletedHasRun
  <1>1. IInv => CompletedHasRun
    BY DEF IInv, RunInv
  <1>2. QED
    BY Invariance, <1>1, PTL

\* Unless the process ended in the middle of a handler or a Cancel, every container has
\* one that will remove it or wait for its end, but for those whose docker rm or whose
\* CLI's Wait has failed.
THEOREM NoContainerLeak == Spec => []ContainersOwned
  <1>1. IInv => ContainersOwned
    BY DEF IInv, ContInv
  <1>2. QED
    BY Invariance, <1>1, PTL

-----------------------------------------------------------------------------
(* The system implements the abstract life cycle. *)

\* A worker's final UPDATE is the life cycle's Finish, or changes nothing when the
\* row is gone.
LEMMA FinishStep ==
  ASSUME IInv, NEW s \in Slots, CompleteJob(s) \/ RecoverPanic(s)
  PROVE  Lifecycle!Next \/ UNCHANGED <<status, claimed>>
  <1>1. /\ job[s] \in Jobs /\ job[s] \in claimed
        /\ status[job[s]] \in {"running", "failed", "cancelled", "deleted"}
        /\ out[s] \in {"completed", "failed"}
    BY DEF CompleteJob, RecoverPanic, IInv, TypeOK, SlotInv, OwnerInv, NoJob
  <1>2. PICK verdict \in {"completed", "failed"} :
           /\ status' = [status EXCEPT ![job[s]] = IF @ = "deleted" THEN @ ELSE verdict]
           /\ claimed' = claimed
    BY <1>1 DEF CompleteJob, RecoverPanic
  <1>3. CASE status[job[s]] = "deleted"
    BY <1>1, <1>2, <1>3 DEF IInv, TypeOK
  <1>4. CASE status[job[s]] # "deleted"
    <2>1. Lifecycle!Finish(job[s], verdict)
      BY <1>1, <1>2, <1>4 DEF Lifecycle!Finish
    <2>2. QED
      BY <1>1, <2>1 DEF Lifecycle!Next
  <1>5. QED
    BY <1>3, <1>4

\* Every step of a handler, and what docker does to its command, is a step of the
\* life cycle or leaves it alone.
LEMMA HandlerStep ==
  ASSUME IInv, NEW s \in Slots, Handler(s) \/ Docker(s)
  PROVE  Lifecycle!Next \/ UNCHANGED <<status, claimed>>
  <1>1. CASE CompleteJob(s) \/ RecoverPanic(s)
    BY <1>1, FinishStep
  <1>2. CASE ~(CompleteJob(s) \/ RecoverPanic(s))
    BY <1>2 DEF Handler, Docker, CheckBeforeRun, Prepare, PrepareFails, StartCommand,
       StartFails, RegisterActive, ExecuteReturns, RecordRun, RecordFails, FinalCheck,
       FinalCheckFails, CompleteFails, Panic, Launch, CommandExits, WaitFails, Deadline, db
  <1>3. QED
    BY <1>1, <1>2

\* Every step of a request cancels active jobs, removes rows or leaves the life
\* cycle alone.
LEMMA RequestStep ==
  ASSUME IInv, NEW c \in Clients, Request(c)
  PROVE  Lifecycle!Next \/ UNCHANGED <<status, claimed>>
  <1>1. CASE CancelActiveForTest(c)
    <2> DEFINE hit == Cancellable(ctest[c])
    <2>1. hit \in SUBSET Jobs /\ \A j \in hit : status[j] \in Lifecycle!Active
      BY DEF Cancellable, JobsOf, Active, Lifecycle!Active
    <2>2. Lifecycle!Cancel(hit)
      BY <1>1, <2>1 DEF CancelActiveForTest, Lifecycle!Cancel
    <2>3. QED
      BY <2>1, <2>2 DEF Lifecycle!Next
  <1>2. CASE DeleteTest(c)
    <2> DEFINE gone == {j \in JobsOf(ctest[c]) : status[j] # "none"}
    <2>1. gone \in SUBSET Jobs
      BY DEF JobsOf
    <2>2. Lifecycle!Remove(gone)
      BY <1>2, <2>1 DEF DeleteTest, Lifecycle!Remove
    <2>3. QED
      BY <2>1, <2>2 DEF Lifecycle!Next
  <1>3. CASE ~CancelActiveForTest(c) /\ ~DeleteTest(c)
    BY <1>3 DEF Request, ListActive, Cancel, CancelRemoves, AllCancelled, AbortRequest, db
  <1>4. QED
    BY <1>1, <1>2, <1>3

\* Every step of the system is a step of the life cycle or leaves it alone.
LEMMA LifecycleStep ==
  ASSUME IInv, [Next]_vars
  PROVE  [Lifecycle!Next]_(Lifecycle!vars)
  <1> USE DEF Lifecycle!vars
  <1>1. ASSUME NEW j \in Jobs, Enqueue(j) PROVE Lifecycle!Next
    <2>1. Lifecycle!Enqueue(j)
      BY <1>1 DEF Enqueue, Lifecycle!Enqueue
    <2>2. QED
      BY <2>1 DEF Lifecycle!Next
  <1>2. ASSUME NEW s \in Slots, NEW j \in Jobs, Dequeue(s, j) \/ DequeueReplyLost(s, j)
        PROVE  Lifecycle!Next
    <2>1. Lifecycle!Claim(j)
      BY <1>2 DEF Dequeue, DequeueReplyLost, Oldest, Lifecycle!Claim
    <2>2. QED
      BY <2>1 DEF Lifecycle!Next
  <1>3. ASSUME NEW S \in SUBSET Jobs, FailStale(S) PROVE Lifecycle!Next
    <2>1. Lifecycle!FailStale(S)
      BY <1>3 DEF FailStale, MayBeStale, Lifecycle!FailStale
    <2>2. QED
      BY <2>1 DEF Lifecycle!Next
  <1>4. ASSUME NEW j \in Jobs, OrphanExits(j) \/ KillSwept(j) \/ KillSweptFails(j)
        PROVE  UNCHANGED <<status, claimed>>
    BY <1>4 DEF OrphanExits, KillSwept, KillSweptFails, db
  <1>5. CASE Process
    BY <1>5 DEF Process, Shutdown, StopWorker, Exit, Crash, ProcessEnds, Restart, db
  <1>6. CASE UNCHANGED vars
    BY <1>6 DEF vars, db
  <1>7. ASSUME NEW S \in SUBSET Jobs, DeleteFinishedJobsBefore(S) PROVE Lifecycle!Next
    <2>1. Lifecycle!Remove(S)
      BY <1>7 DEF DeleteFinishedJobsBefore, Lifecycle!Remove
    <2>2. QED
      BY <2>1 DEF Lifecycle!Next
  <1>8. QED
    BY <1>1, <1>2, <1>3, <1>4, <1>5, <1>6, <1>7, HandlerStep, RequestStep
       DEF Next, Sweeper

\* The system implements JobLifecycle: no interleaving of handlers, sweeper,
\* requests, crashes and restarts gives a job a history the life cycle forbids.
THEOREM Implementation == Spec => ImplementsLifecycle
  <1>1. Init => Lifecycle!Init
    BY DEF Init, Lifecycle!Init
  <1>2. IInv /\ [Next]_vars => [Lifecycle!Next]_(Lifecycle!vars)
    BY LifecycleStep
  <1>3. QED
    BY Invariance, <1>1, <1>2, PTL DEF Spec, ImplementsLifecycle, Lifecycle!Spec
=============================================================================
