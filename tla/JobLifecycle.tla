---------------------------- MODULE JobLifecycle ----------------------------
(***************************************************************************)
(* What the jobs table promises, whoever writes to it.  A row is inserted  *)
(* as queued, is claimed at most once, and is then finished by the worker  *)
(* that claimed it, failed by the stale-job sweeper or cancelled by a      *)
(* user.  The worker's final UPDATE is unconditional, so it may replace a  *)
(* verdict written meanwhile by a user or by the sweeper, but only for a   *)
(* job that was claimed, and never a completed one.                        *)
(***************************************************************************)
CONSTANT Jobs

VARIABLES status,    \* jobs.status; "none": not inserted, "deleted": row gone
          claimed    \* jobs whose started_at has been set

vars == <<status, claimed>>

Active == {"queued", "running"}

Init ==
    /\ status = [j \in Jobs |-> "none"]
    /\ claimed = {}

Enqueue(j) ==
    /\ status[j] = "none"
    /\ status' = [status EXCEPT ![j] = "queued"]
    /\ UNCHANGED claimed

Claim(j) ==
    /\ status[j] = "queued"
    /\ status' = [status EXCEPT ![j] = "running"]
    /\ claimed' = claimed \cup {j}

Cancel(S) ==
    /\ \A j \in S : status[j] \in Active
    /\ status' = [j \in Jobs |-> IF j \in S THEN "cancelled" ELSE status[j]]
    /\ UNCHANGED claimed

FailStale(S) ==
    /\ \A j \in S : status[j] = "running"
    /\ status' = [j \in Jobs |-> IF j \in S THEN "failed" ELSE status[j]]
    /\ UNCHANGED claimed

Finish(j, verdict) ==
    /\ j \in claimed
    /\ status[j] \in {"running", "failed", "cancelled"}
    /\ status' = [status EXCEPT ![j] = verdict]
    /\ UNCHANGED claimed

Remove(S) ==
    /\ \A j \in S : status[j] # "none"
    /\ status' = [j \in Jobs |-> IF j \in S THEN "deleted" ELSE status[j]]
    /\ UNCHANGED claimed

Next ==
    \/ \E j \in Jobs : Enqueue(j) \/ Claim(j)
    \/ \E j \in Jobs, verdict \in {"completed", "failed"} : Finish(j, verdict)
    \/ \E S \in SUBSET Jobs : Cancel(S) \/ FailStale(S) \/ Remove(S)

Spec == Init /\ [][Next]_vars
=============================================================================
