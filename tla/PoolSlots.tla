------------------------------ MODULE PoolSlots ------------------------------
(***************************************************************************)
(* What runPool promises to the rest of the server, without its semaphore, *)
(* channels and goroutines: jobs wait, run in one of N slots and end.      *)
(* After the shutdown at most one more job, whose claim was under way,     *)
(* is started; and nothing runs once the pool has returned.                *)
(***************************************************************************)
EXTENDS Naturals, FiniteSets

CONSTANTS Jobs, N

VARIABLES waiting,   \* jobs in the queue
          running,   \* jobs whose handler is at work
          ended,     \* jobs whose handler has returned
          open,      \* whether the context is still alive
          late,      \* jobs started since it is not
          returned   \* whether runPool has returned

vars == <<waiting, running, ended, open, late, returned>>

Init ==
    /\ waiting = {} /\ running = {} /\ ended = {}
    /\ open = TRUE /\ late = 0 /\ returned = FALSE

Submit(j) ==
    /\ j \notin waiting \cup running \cup ended
    /\ waiting' = waiting \cup {j}
    /\ UNCHANGED <<running, ended, open, late, returned>>

Start(j) ==
    /\ j \in waiting
    /\ ~returned /\ Cardinality(running) < N
    /\ \/ open /\ UNCHANGED late
       \/ ~open /\ late = 0 /\ late' = 1
    /\ waiting' = waiting \ {j}
    /\ running' = running \cup {j}
    /\ UNCHANGED <<ended, open, returned>>

End(j) ==
    /\ j \in running
    /\ running' = running \ {j}
    /\ ended' = ended \cup {j}
    /\ UNCHANGED <<waiting, open, late, returned>>

Close ==
    /\ open
    /\ open' = FALSE
    /\ UNCHANGED <<waiting, running, ended, late, returned>>

Return ==
    /\ ~open /\ running = {} /\ ~returned
    /\ returned' = TRUE
    /\ UNCHANGED <<waiting, running, ended, open, late>>

Next ==
    \/ \E j \in Jobs : Submit(j) \/ Start(j) \/ End(j)
    \/ Close \/ Return

Spec == Init /\ [][Next]_vars
=============================================================================
