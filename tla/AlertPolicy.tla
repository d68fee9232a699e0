----------------------------- MODULE AlertPolicy -----------------------------
(***************************************************************************)
(* The alert policy of one test as if each outcome were applied to its row *)
(* in one step: no transactions, no locks, no channels tried in turn.  The *)
(* outcome moves the streak, and the notification it calls for is decided  *)
(* from the row as it is at that moment.  A notification may be lost, and  *)
(* nothing else moves PagerDuty's incidents.                               *)
(***************************************************************************)
EXTENDS Naturals

CONSTANTS Runs, Configs, Keys, NoKey

VARIABLES
    cfg,          \* the alert configuration
    consecutive,  \* failures since the last pass
    alertActive,  \* whether a failure alert stands
    note,         \* the notification a handler has still to send
    incident      \* keys with an open incident

vars == <<cfg, consecutive, alertActive, note, incident>>

Nothing == [kind |-> "none", key |-> NoKey]

Init ==
    /\ cfg \in Configs
    /\ consecutive = 0 /\ alertActive = FALSE
    /\ note = [r \in Runs |-> Nothing]
    /\ incident = {}

\* What an outcome calls for: word on every multiple of the threshold that the streak
\* reaches, and on the pass that ends an alert.
Called(passed) ==
    LET n        == consecutive + 1
        alerting == cfg.enabled /\ (cfg.webhook \/ cfg.key # NoKey)
        kind     == CASE passed /\ alertActive -> "recovery"
                      [] ~passed /\ n >= cfg.threshold /\ n % cfg.threshold = 0 -> "failure"
                      [] OTHER -> "none"
    IN  IF alerting /\ kind # "none" THEN [kind |-> kind, key |-> cfg.key] ELSE Nothing

Outcome(r, passed) ==
    /\ note[r] = Nothing
    /\ consecutive' = IF passed THEN 0 ELSE consecutive + 1
    /\ alertActive' = (consecutive' >= cfg.threshold)
    /\ note' \in {note, [note EXCEPT ![r] = Called(passed)]}
    /\ UNCHANGED <<cfg, incident>>

\* The notification goes out, to PagerDuty too if there is a key, or is lost.
Send(r) ==
    /\ note[r] # Nothing
    /\ incident' \in {incident, IF note[r].kind = "failure" THEN incident \cup {note[r].key}
                                ELSE incident \ {note[r].key}}
    /\ incident' \subseteq Keys
    /\ note' = [note EXCEPT ![r] = Nothing]
    /\ UNCHANGED <<cfg, consecutive, alertActive>>

Configure ==
    /\ cfg' \in Configs
    /\ UNCHANGED <<consecutive, alertActive, note, incident>>

Crash ==
    /\ note' = [r \in Runs |-> Nothing]
    /\ UNCHANGED <<cfg, consecutive, alertActive, incident>>

Next ==
    \/ \E r \in Runs : (\E p \in BOOLEAN : Outcome(r, p)) \/ Send(r)
    \/ Configure \/ Crash

Spec == Init /\ [][Next]_vars
=============================================================================
