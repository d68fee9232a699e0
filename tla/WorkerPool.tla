----------------------------- MODULE WorkerPool -----------------------------
(***************************************************************************)
(* runPool, the loop that claims jobs and runs their handlers: one main    *)
(* goroutine, a counting semaphore, a wake channel of capacity one, a      *)
(* ticker, a wait group, and one goroutine per job.  JobRunner abstracts   *)
(* the pool to a set of slots; this module shows that the pool keeps to    *)
(* them and loses neither a slot nor a wake-up.                            *)
(***************************************************************************)
EXTENDS Integers, FiniteSets

CONSTANTS Jobs,
          Concurrency   \* WORKER_CONCURRENCY as configured, possibly below one

ASSUME ConcurrencyAssumption == Concurrency \in Int

VARIABLES
    queued,   \* jobs that next would return
    main,     \* the main goroutine: in select, in fill, in next, waiting, returned
    sem,      \* tokens in the semaphore channel
    wake,     \* whether the wake channel holds its one token
    tick,     \* whether the ticker channel holds a tick
    ctxDone,  \* whether ctx has been cancelled
    g,        \* the goroutine of a job: where it is in its body and deferred calls
    why,      \* history: how the last fill ended
    late      \* history: how many handlers were started after the cancellation

vars == <<queued, main, sem, wake, tick, ctxDone, g, why, late>>

slots == IF Concurrency < 1 THEN 1 ELSE Concurrency

TypeOK ==
    /\ queued \subseteq Jobs
    /\ main \in {"select", "fill", "next", "wait", "returned"}
    /\ sem \in 0..slots
    /\ wake \in BOOLEAN /\ tick \in BOOLEAN /\ ctxDone \in BOOLEAN
    /\ g \in [Jobs -> {"none", "handle", "free", "signal", "leave", "done"}]
    /\ why \in {"start", "full", "empty", "error", "cancelled"}
    /\ late \in Nat

Init ==
    /\ queued = {}
    /\ main = "select"
    /\ sem = 0
    /\ wake = FALSE /\ tick = FALSE /\ ctxDone = FALSE
    /\ g = [j \in Jobs |-> "none"]
    /\ why = "start" /\ late = 0

-----------------------------------------------------------------------------
(* The environment: jobs are enqueued, the ticker ticks (dropping a tick nobody
   took), main cancels the context on shutdown. *)

Submit(j) ==
    /\ g[j] = "none" /\ j \notin queued
    /\ queued' = queued \cup {j}
    /\ UNCHANGED <<main, sem, wake, tick, ctxDone, g, why, late>>

Tick ==
    /\ ~tick
    /\ tick' = TRUE
    /\ UNCHANGED <<queued, main, sem, wake, ctxDone, g, why, late>>

CancelCtx ==
    /\ ~ctxDone
    /\ ctxDone' = TRUE
    /\ UNCHANGED <<queued, main, sem, wake, tick, g, why, late>>

-----------------------------------------------------------------------------
(* The main goroutine. *)

\* The select statement takes any case that is ready.
SelectTick ==
    /\ main = "select" /\ tick
    /\ tick' = FALSE
    /\ main' = "fill"
    /\ UNCHANGED <<queued, sem, wake, ctxDone, g, why, late>>

SelectWake ==
    /\ main = "select" /\ wake
    /\ wake' = FALSE
    /\ main' = "fill"
    /\ UNCHANGED <<queued, sem, tick, ctxDone, g, why, late>>

SelectDone ==
    /\ main = "select" /\ ctxDone
    /\ main' = "wait"
    /\ UNCHANGED <<queued, sem, wake, tick, ctxDone, g, why, late>>

\* fill's loop condition, and the semaphore's default branch.
FillReturns ==
    /\ main = "fill"
    /\ \/ ctxDone /\ why' = "cancelled"
       \/ ~ctxDone /\ sem = slots /\ why' = "full"
    /\ main' = "select"
    /\ UNCHANGED <<queued, sem, wake, tick, ctxDone, g, late>>

Acquire ==
    /\ main = "fill" /\ ~ctxDone
    /\ sem < slots
    /\ sem' = sem + 1
    /\ main' = "next"
    /\ UNCHANGED <<queued, wake, tick, ctxDone, g, why, late>>

\* next returns a job, and its goroutine is started.  The claim may have been
\* committed just before the context was cancelled.
NextJob(j) ==
    /\ main = "next" /\ j \in queued
    /\ queued' = queued \ {j}
    /\ g' = [g EXCEPT ![j] = "handle"]
    /\ main' = "fill"
    /\ late' = IF ctxDone THEN late + 1 ELSE late
    /\ UNCHANGED <<sem, wake, tick, ctxDone, why>>

\* Mutant: the token is not given back when there is nothing to claim.
NextNothingKeepsToken ==
    /\ main = "next"
    /\ \/ queued = {} /\ why' = "empty"
       \/ why' = "error"
    /\ main' = "select"
    /\ UNCHANGED <<queued, sem, wake, tick, ctxDone, g, late>>

\* next returns no job, or an error (which it may always do).
NextNothing ==
    /\ main = "next"
    /\ \/ queued = {} /\ why' = "empty"
       \/ why' = "error"
    /\ sem' = sem - 1
    /\ main' = "select"
    /\ UNCHANGED <<queued, wake, tick, ctxDone, g, late>>

\* Mutant: the wait group is not waited for.
ReturnAtOnce ==
    /\ main = "wait"
    /\ main' = "returned"
    /\ UNCHANGED <<queued, sem, wake, tick, ctxDone, g, why, late>>

\* wg.Wait: every goroutine that was added has called Done.
Return ==
    /\ main = "wait"
    /\ \A j \in Jobs : g[j] \in {"none", "done"}
    /\ main' = "returned"
    /\ UNCHANGED <<queued, sem, wake, tick, ctxDone, g, why, late>>

-----------------------------------------------------------------------------
(* A job's goroutine: the handler, then the deferred calls. *)

Advance(j, from, to) ==
    /\ g[j] = from
    /\ g' = [g EXCEPT ![j] = to]

HandleReturns(j) ==
    /\ Advance(j, "handle", "free")
    /\ UNCHANGED <<queued, main, sem, wake, tick, ctxDone, why, late>>

FreeSlot(j) ==
    /\ Advance(j, "free", "signal")
    /\ sem' = sem - 1
    /\ UNCHANGED <<queued, main, wake, tick, ctxDone, why, late>>

\* Mutant: the freed slot is not announced.
SignalNobody(j) ==
    /\ Advance(j, "signal", "leave")
    /\ UNCHANGED <<queued, main, sem, wake, tick, ctxDone, why, late>>

\* The send is dropped when the channel already holds a token.
Signal(j) ==
    /\ Advance(j, "signal", "leave")
    /\ wake' = TRUE
    /\ UNCHANGED <<queued, main, sem, tick, ctxDone, why, late>>

\* Mutant: Done is not called once the context is cancelled.
LeaveUnlessCancelled(j) ==
    /\ ~ctxDone
    /\ Advance(j, "leave", "done")
    /\ UNCHANGED <<queued, main, sem, wake, tick, ctxDone, why, late>>

Leave(j) ==
    /\ Advance(j, "leave", "done")
    /\ UNCHANGED <<queued, main, sem, wake, tick, ctxDone, why, late>>

-----------------------------------------------------------------------------

Main ==
    \/ SelectTick \/ SelectWake \/ SelectDone \/ FillReturns \/ Acquire
    \/ NextNothing \/ Return
    \/ \E j \in Jobs : NextJob(j)

Goroutine(j) == HandleReturns(j) \/ FreeSlot(j) \/ Signal(j) \/ Leave(j)

Next ==
    \/ \E j \in Jobs : Submit(j) \/ Goroutine(j)
    \/ Tick \/ CancelCtx \/ Main

Spec == Init /\ [][Next]_vars

\* Goroutines are scheduled, handlers return (their run has a deadline), the ticker
\* keeps ticking, select does not ignore a ready ctx.Done for ever, and claiming
\* does not fail every time.
Fairness ==
    /\ WF_vars(Main) /\ WF_vars(Tick)
    /\ SF_vars(SelectDone)
    /\ SF_vars(\E j \in Jobs : NextJob(j))
    /\ \A j \in Jobs : WF_vars(Goroutine(j))

FairSpec == Spec /\ Fairness

-----------------------------------------------------------------------------
(* Properties. *)

InFlight == {j \in Jobs : g[j] = "handle"}
Holders  == {j \in Jobs : g[j] \in {"handle", "free"}}

\* Never more handlers than WORKER_CONCURRENCY (at least one) run at once.
InFlightBounded == Cardinality(InFlight) <= slots

\* No slot leaks and none is freed twice: every token is held by a goroutine that
\* still has to give it back, or by a claim in progress.
SlotsAccountedFor ==
    sem = Cardinality(Holders) + (IF main = "next" THEN 1 ELSE 0)

\* A slot freed after fill gave up because all slots were busy is never forgotten:
\* when the main goroutine sleeps in select with a free slot, a wake-up is there or
\* about to be sent, so the backlog does not wait for the next tick.
NoLostWake ==
    main = "select" /\ why = "full" /\ sem < slots
        => wake \/ \E j \in Jobs : g[j] = "signal"

\* runPool implements PoolSlots, which is what JobRunner takes the pool to be: jobs
\* run in a fixed number of slots, cancellation lets at most the claim in progress
\* through, and when runPool returns (and main goes on to close the database) no
\* handler is left and none will be started.
Slots == INSTANCE PoolSlots
             WITH N        <- slots,
                  waiting  <- queued,
                  running  <- InFlight,
                  ended    <- {j \in Jobs : g[j] \in {"free", "signal", "leave", "done"}},
                  open     <- ~ctxDone,
                  returned <- main = "returned"
ImplementsSlots == Slots!Spec

\* A queued job is claimed, or the pool is being shut down.
NoStarvation == \A j \in Jobs : j \in queued ~> j \notin queued \/ ctxDone

\* After cancellation the pool returns.
ShutdownCompletes == ctxDone ~> main = "returned"
=============================================================================
