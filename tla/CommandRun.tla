----------------------------- MODULE CommandRun -----------------------------
(***************************************************************************)
(* What runtime.Execute promises the handler that calls it: the command of *)
(* one run, without pipes, goroutines or the order of exits and kills      *)
(* inside the call.  These are the steps JobRunner has for a handler's     *)
(* command, with two of its steps in one where the deadline coincides with *)
(* another end.                                                            *)
(***************************************************************************)

VARIABLES
    phase,       \* of the call: "ready", "running" or "over"
    out,         \* what is known of the command, as in JobRunner, and then the result
    container,   \* "none" on the docker host, "up", or "left": up, and removing it has
                 \* failed or will not be tried
    rm           \* whether a Cancel is about to remove it

vars == <<phase, out, container, rm>>

Result == {"exit0", "exitN", "timeout", "error"}

LeftAlone == container' = IF container = "up" THEN "left" ELSE container

Init == phase = "ready" /\ out = "none" /\ container = "none" /\ rm = FALSE

StartCommand ==
    /\ phase = "ready"
    /\ phase' = "running" /\ out' = "starting"
    /\ UNCHANGED <<container, rm>>

StartFails ==
    /\ phase = "ready"
    /\ phase' = "over" /\ out' = "error"
    /\ UNCHANGED <<container, rm>>

Launch ==
    /\ phase = "running" /\ out = "starting"
    /\ out' = "up" /\ container' = "up"
    /\ UNCHANGED <<phase, rm>>

\* Only a container that was up can make the command succeed; it goes with it.
CommandExits ==
    /\ phase = "running"
    /\ \/ out = "up" /\ out' \in {"exit0", "exitN", "timeout"}
       \/ out = "starting" /\ out' \in {"exitN", "timeout"}
    /\ container' = "none"
    /\ UNCHANGED <<phase, rm>>

\* What the command came to cannot be told.
WaitFails ==
    /\ phase = "running" /\ out # "timeout"
    /\ out' = "error"
    /\ UNCHANGED <<phase, container, rm>>

\* The deadline counts whatever else the command has come to, and leaves the container.
Deadline ==
    /\ phase = "running"
    /\ out' = "timeout"
    /\ UNCHANGED <<phase, container, rm>>

Cancel ==
    /\ phase = "running"
    /\ rm' = TRUE
    /\ out' \in {IF out \in {"starting", "up"} THEN "exitN" ELSE out, "timeout"}
    /\ UNCHANGED <<phase, container>>

CancelRemoves ==
    /\ rm /\ rm' = FALSE
    /\ container' = "none" \/ LeftAlone
    /\ UNCHANGED <<phase, out>>

\* Somebody else removes the container, or it ends after its CLI was killed.
Vanishes ==
    /\ container # "none"
    /\ container' = "none"
    /\ out' = IF out = "up" THEN "exitN" ELSE out
    /\ UNCHANGED <<phase, rm>>

\* The result is what the command came to.  After the deadline the container has been
\* removed, unless that failed; after an exit only a Cancel that is still to remove it
\* may find it there; after an error nobody looks.
ExecuteReturns ==
    /\ phase = "running" /\ out \in Result
    /\ phase' = "over"
    /\ \/ out = "timeout" /\ container' = "none"
       \/ out \in {"timeout", "error"} /\ LeftAlone
       \/ out \in {"exit0", "exitN"} /\ (container = "up" => rm) /\ UNCHANGED container
    /\ UNCHANGED <<out, rm>>

Next ==
    \/ StartCommand \/ StartFails \/ Launch \/ CommandExits \/ WaitFails \/ Deadline
    \/ Cancel \/ CancelRemoves \/ Vanishes \/ ExecuteReturns

Spec == Init /\ [][Next]_vars
=============================================================================
