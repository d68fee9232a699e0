-------------------------- MODULE WorkerPoolProofs --------------------------
(* Proofs that runPool respects its concurrency, accounts for every slot, loses no
   wake-up and drains, for any number of jobs and any configured concurrency. *)
EXTENDS WorkerPool, FiniteSetTheorems, TLAPS

\* The flags.
Flags == wake \in BOOLEAN /\ tick \in BOOLEAN /\ ctxDone \in BOOLEAN

\* The other types, but for the bounds of the semaphore, which follow from the
\* accounting.
Types ==
    /\ queued \subseteq Jobs
    /\ main \in {"select", "fill", "next", "wait", "returned"}
    /\ sem \in Int
    /\ g \in [Jobs -> {"none", "handle", "free", "signal", "leave", "done"}]
    /\ why \in {"start", "full", "empty", "error", "cancelled"}
    /\ late \in Nat

\* The accounting: the holders of a token are finitely many, a queued job has no
\* goroutine yet, and Acquire keeps the total within the capacity.
Accounting ==
    /\ IsFiniteSet(Holders)
    /\ SlotsAccountedFor
    /\ sem <= slots
    /\ \A j \in queued : g[j] = "none"

\* wg.Wait: a pool that has returned has no goroutine left.
Drained == main = "returned" => \A j \in Jobs : g[j] \in {"none", "done"}

\* At most one claim is in progress when the context is cancelled.
Claiming ==
    /\ ~ctxDone => late = 0
    /\ main = "next" => late = 0
    /\ late <= 1

\* The main goroutine waits only after cancellation.
Waiting == main \in {"wait", "returned"} => ctxDone

IInv == Flags /\ Types /\ Accounting /\ NoLostWake /\ Drained /\ Waiting /\ Claiming

-----------------------------------------------------------------------------

\* The capacity is a positive number whatever is configured.
LEMMA SlotsPositive == slots \in Nat /\ slots >= 1
  BY ConcurrencyAssumption DEF slots

\* The initial state satisfies the invariant.
LEMMA InitInv == Init => IInv
  <1> SUFFICES ASSUME Init PROVE IInv
    OBVIOUS
  <1>1. Holders = {}
    BY DEF Init, Holders
  <1>2. IsFiniteSet(Holders) /\ Cardinality(Holders) = 0
    BY <1>1, FS_EmptySet
  <1>a. Flags
    BY DEF Init, Flags
  <1>b. g \in [Jobs -> {"none", "handle", "free", "signal", "leave", "done"}]
    BY DEF Init
  <1>3. Types
    BY <1>b DEF Init, Types
  <1>4. Accounting
    BY <1>2, SlotsPositive DEF Init, Accounting, SlotsAccountedFor
  <1>5. NoLostWake /\ Drained /\ Waiting /\ Claiming
    BY DEF Init, NoLostWake, Drained, Waiting, Claiming
  <1>6. QED
    BY <1>a, <1>3, <1>4, <1>5 DEF IInv

\* A step that starts no handler and frees no slot keeps the accounting as long as
\* the claim in progress is paid for.
LEMMA SameHolders ==
  ASSUME IInv, Holders' = Holders, sem' \in Int,
         sem' - sem = (IF main' = "next" THEN 1 ELSE 0) - (IF main = "next" THEN 1 ELSE 0),
         sem' <= slots, \A j \in queued' : g'[j] = "none"
  PROVE  Accounting'
  <1>1. Cardinality(Holders) \in Nat
    BY FS_CardinalityType DEF IInv, Accounting
  <1>2. QED
    BY <1>1, SlotsPositive DEF IInv, Types, Accounting, SlotsAccountedFor, slots

\* The environment and the main goroutine keep the invariant.
LEMMA MainInv ==
  ASSUME IInv, (\E j \in Jobs : Submit(j)) \/ Tick \/ CancelCtx \/ Main
  PROVE  IInv'
  <1> USE SlotsPositive
  <1>1. ASSUME NEW j \in Jobs, Submit(j) PROVE IInv'
    <2>1. Accounting'
      BY <1>1, SameHolders DEF Submit, Holders, IInv, Types, Accounting
    <2>2. QED
      BY <1>1, <2>1 DEF Submit, IInv, Flags, Types, NoLostWake, Drained, Waiting, Claiming, slots
  <1>2. ASSUME Tick \/ CancelCtx \/ SelectTick \/ SelectWake \/ SelectDone
               \/ FillReturns \/ Acquire \/ NextNothing \/ Return
        PROVE  IInv'
    <2>1. Accounting'
      BY <1>2, SameHolders DEF Tick, CancelCtx, SelectTick, SelectWake, SelectDone,
         FillReturns, Acquire, NextNothing, Return, Holders, IInv, Types, Accounting
    <2>0. Flags'
      BY <1>2 DEF Tick, CancelCtx, SelectTick, SelectWake, SelectDone, FillReturns,
         Acquire, NextNothing, Return, IInv, Flags
    <2> USE DEF IInv, Types, Tick, CancelCtx, SelectTick, SelectWake, SelectDone,
         FillReturns, Acquire, NextNothing, Return
    <2>2. Types'
      BY <1>2
    <2>3. NoLostWake'
      BY <1>2 DEF NoLostWake, slots
    <2>4. Drained' /\ Waiting'
      BY <1>2 DEF Drained, Waiting
    <2>5. Claiming'
      BY <1>2 DEF Claiming
    <2>6. QED
      BY <2>0, <2>1, <2>2, <2>3, <2>4, <2>5
  <1>3. ASSUME NEW j \in Jobs, NextJob(j) PROVE IInv'
    <2>1. g[j] = "none" /\ Holders' = Holders \cup {j} /\ j \notin Holders
      BY <1>3 DEF NextJob, Holders, IInv, Types, Accounting
    <2>2. IsFiniteSet(Holders') /\ Cardinality(Holders') = Cardinality(Holders) + 1
      BY <2>1, FS_AddElement DEF IInv, Accounting
    <2>3. Cardinality(Holders) \in Nat
      BY FS_CardinalityType DEF IInv, Accounting
    <2>4. Accounting'
      BY <1>3, <2>2, <2>3 DEF NextJob, IInv, Types, Accounting, SlotsAccountedFor, slots
    <2>5. QED
      BY <1>3, <2>4 DEF NextJob, IInv, Flags, Types, NoLostWake, Drained, Waiting, Claiming, slots
  <1>4. QED
    BY <1>1, <1>2, <1>3 DEF Main

\* A job's goroutine keeps the invariant.
LEMMA GoroutineInv ==
  ASSUME IInv, NEW j \in Jobs, Goroutine(j)
  PROVE  IInv'
  <1> USE SlotsPositive
  <1>1. CASE HandleReturns(j) \/ Signal(j) \/ Leave(j)
    <2>1. Holders' = Holders
      BY <1>1 DEF HandleReturns, Signal, Leave, Advance, Holders, IInv, Types
    <2>2. Accounting'
      BY <1>1, <2>1, SameHolders DEF HandleReturns, Signal, Leave, Advance, IInv, Types,
         Accounting
    <2>3. QED
      BY <1>1, <2>2 DEF HandleReturns, Signal, Leave, Advance, IInv, Flags, Types,
         NoLostWake, Drained, Waiting, Claiming, slots
  <1>2. CASE FreeSlot(j)
    <2>1. j \in Holders /\ Holders' = Holders \ {j}
      BY <1>2 DEF FreeSlot, Advance, Holders, IInv, Types
    <2>2. IsFiniteSet(Holders') /\ Cardinality(Holders') = Cardinality(Holders) - 1
      BY <2>1, FS_RemoveElement DEF IInv, Accounting
    <2>3. Cardinality(Holders) \in Nat
      BY FS_CardinalityType DEF IInv, Accounting
    <2>4. Accounting'
      BY <1>2, <2>2, <2>3 DEF FreeSlot, Advance, IInv, Types, Accounting,
         SlotsAccountedFor, slots
    <2>5. Types'
      BY <1>2 DEF FreeSlot, Advance, IInv, Types
    <2>F. Flags'
      BY <1>2 DEF FreeSlot, IInv, Flags
    <2>6. NoLostWake'
      BY <1>2 DEF FreeSlot, Advance, IInv, Types, NoLostWake
    <2>7. Drained' /\ Waiting'
      BY <1>2 DEF FreeSlot, Advance, IInv, Types, Drained, Waiting
    <2>8. Claiming'
      BY <1>2 DEF FreeSlot, IInv, Claiming
    <2>9. QED
      BY <2>4, <2>5, <2>F, <2>6, <2>7, <2>8 DEF IInv
  <1>3. QED
    BY <1>1, <1>2 DEF Goroutine

\* Every step of the pool keeps the invariant.
LEMMA NextInv == IInv /\ [Next]_vars => IInv'
  <1> SUFFICES ASSUME IInv, [Next]_vars PROVE IInv'
    OBVIOUS
  <1>1. CASE Next
    BY <1>1, MainInv, GoroutineInv DEF Next
  <1>2. CASE UNCHANGED vars
    BY <1>2 DEF vars, IInv, Flags, Types, Accounting, SlotsAccountedFor, Holders, NoLostWake,
       Drained, Waiting, Claiming, slots
  <1>3. QED
    BY <1>1, <1>2

\* The invariant holds in every reachable state.
LEMMA Invariance == Spec => []IInv
  BY InitInv, NextInv, PTL DEF Spec

-----------------------------------------------------------------------------

\* The variables keep their types; in particular the semaphore stays within its
\* capacity.
THEOREM TypeCorrect == Spec => []TypeOK
  <1>1. IInv => TypeOK
    <2> SUFFICES ASSUME IInv PROVE TypeOK
      OBVIOUS
    <2>1. Cardinality(Holders) \in Nat
      BY FS_CardinalityType DEF IInv, Accounting
    <2>2. sem \in 0..slots
      BY <2>1, SlotsPositive DEF IInv, Types, Accounting, SlotsAccountedFor
    <2>3. QED
      BY <2>2 DEF IInv, Flags, Types, TypeOK
  <1>2. QED
    BY Invariance, <1>1, PTL

\* Never more handlers at once than the configured concurrency (or one).
THEOREM ConcurrencyRespected == Spec => []InFlightBounded
  <1>1. IInv => InFlightBounded
    <2> SUFFICES ASSUME IInv PROVE InFlightBounded
      OBVIOUS
    <2>1. InFlight \subseteq Holders
      BY DEF InFlight, Holders
    <2>2. Cardinality(InFlight) <= Cardinality(Holders)
      BY <2>1, FS_Subset DEF IInv, Accounting
    <2>3. Cardinality(InFlight) \in Nat /\ Cardinality(Holders) \in Nat
      BY <2>1, FS_Subset, FS_CardinalityType DEF IInv, Accounting
    <2>4. QED
      BY <2>2, <2>3, SlotsPositive DEF IInv, Types, Accounting, SlotsAccountedFor,
         InFlightBounded
  <1>2. QED
    BY Invariance, <1>1, PTL

\* No slot leaks and none is freed twice.
THEOREM NoSlotLeaks == Spec => []SlotsAccountedFor
  <1>1. IInv => SlotsAccountedFor
    BY DEF IInv, Accounting
  <1>2. QED
    BY Invariance, <1>1, PTL

\* A slot freed after fill gave up is announced.
THEOREM NoWakeUpLost == Spec => []NoLostWake
  <1>1. IInv => NoLostWake
    BY DEF IInv
  <1>2. QED
    BY Invariance, <1>1, PTL

-----------------------------------------------------------------------------
(* The refinement. *)

\* While a claim is in progress a slot is free for it.
LEMMA RoomForClaim == IInv /\ main = "next" => Cardinality(InFlight) < slots
  <1> SUFFICES ASSUME IInv, main = "next" PROVE Cardinality(InFlight) < slots
    OBVIOUS
  <1>1. InFlight \subseteq Holders
    BY DEF InFlight, Holders
  <1>2. Cardinality(InFlight) <= Cardinality(Holders)
    BY <1>1, FS_Subset DEF IInv, Accounting
  <1>3. Cardinality(InFlight) \in Nat /\ Cardinality(Holders) \in Nat
    BY <1>1, FS_Subset, FS_CardinalityType DEF IInv, Accounting
  <1>4. QED
    BY <1>2, <1>3, SlotsPositive DEF IInv, Types, Accounting, SlotsAccountedFor

\* Every step of the pool is a step of PoolSlots or changes nothing it speaks of.
LEMMA SlotsStep ==
  ASSUME IInv, [Next]_vars
  PROVE  [Slots!Next]_(Slots!vars)
  <1> USE DEF IInv, Types, Flags, InFlight, Slots!vars
  <1>1. ASSUME NEW j \in Jobs, Submit(j) PROVE Slots!Next
    <2>1. Slots!Submit(j)
      BY <1>1 DEF Submit, Slots!Submit
    <2>2. QED
      BY <2>1 DEF Slots!Next
  <1>2. ASSUME NEW j \in Jobs, NextJob(j) PROVE Slots!Next
    <2>1. Cardinality(InFlight) < slots
      BY <1>2, RoomForClaim DEF NextJob
    <2>2. InFlight' = InFlight \cup {j}
      BY <1>2 DEF NextJob
    <2>3. g[j] = "none"
      BY <1>2 DEF NextJob, Accounting
    <2>4. {i \in Jobs : g'[i] \in {"free", "signal", "leave", "done"}}
            = {i \in Jobs : g[i] \in {"free", "signal", "leave", "done"}}
      BY <1>2, <2>3 DEF NextJob
    <2>5. late = 0 /\ (IF ctxDone THEN late' = 1 ELSE late' = late)
      BY <1>2 DEF NextJob, Claiming
    <2>a. j \in queued /\ queued' = queued \ {j} /\ ctxDone' = ctxDone
      BY <1>2 DEF NextJob
    <2>b. main # "returned" /\ main' # "returned"
      BY <1>2 DEF NextJob
    <2>c. (main' = "returned") = (main = "returned") /\ (~ctxDone') = (~ctxDone)
      BY <2>a, <2>b
    <2>d. \/ ~ctxDone /\ UNCHANGED late
          \/ ~(~ctxDone) /\ late = 0 /\ late' = 1
      BY <2>5
    <2>e. Slots!Cardinality(InFlight) = Cardinality(InFlight)
      BY DEF Slots!Cardinality, Cardinality
    <2>6. Slots!Start(j)
      BY <2>1, <2>2, <2>4, <2>a, <2>b, <2>c, <2>d, <2>e DEF Slots!Start
    <2>7. QED
      BY <2>6 DEF Slots!Next
  <1>3. ASSUME NEW j \in Jobs, HandleReturns(j) PROVE Slots!Next
    <2>1. Slots!End(j)
      BY <1>3 DEF HandleReturns, Advance, Slots!End
    <2>2. QED
      BY <2>1 DEF Slots!Next
  <1>4. ASSUME NEW j \in Jobs, FreeSlot(j) \/ Signal(j) \/ Leave(j)
        PROVE  UNCHANGED Slots!vars
    BY <1>4 DEF FreeSlot, Signal, Leave, Advance
  <1>5. CASE CancelCtx
    <2>1. Slots!Close
      BY <1>5 DEF CancelCtx, Slots!Close
    <2>2. QED
      BY <2>1 DEF Slots!Next
  <1>6. CASE Return
    <2>1. Slots!Return
      BY <1>6 DEF Return, Slots!Return, Waiting
    <2>2. QED
      BY <2>1 DEF Slots!Next
  <1>7. CASE Tick \/ SelectTick \/ SelectWake \/ SelectDone \/ FillReturns \/ Acquire \/ NextNothing
    BY <1>7 DEF Tick, SelectTick, SelectWake, SelectDone, FillReturns, Acquire, NextNothing
  <1>8. CASE UNCHANGED vars
    BY <1>8 DEF vars
  <1>9. QED
    BY <1>1, <1>2, <1>3, <1>4, <1>5, <1>6, <1>7, <1>8 DEF Next, Main, Goroutine

\* runPool implements PoolSlots, for any number of jobs and any configured
\* concurrency.
THEOREM Implementation == Spec => ImplementsSlots
  <1>1. Init => Slots!Init
    BY DEF Init, Slots!Init, InFlight
  <1>2. IInv /\ [Next]_vars => [Slots!Next]_(Slots!vars)
    BY SlotsStep
  <1>3. QED
    BY Invariance, <1>1, <1>2, PTL DEF Spec, ImplementsSlots, Slots!Spec
=============================================================================
