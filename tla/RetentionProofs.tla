--------------------------- MODULE RetentionProofs ---------------------------
(* Proofs that the retention sweeper never takes a test's newest run and leaves
   nothing of the runs it prunes, for any number of runs and tests, any policy and
   any batch size. *)
EXTENDS Retention, FiniteSetTheorems, WellFoundedInduction, TLAPS

-----------------------------------------------------------------------------
(* The inductive invariant. *)

Recorded == {"shots", "shotRow", "done", "failed"}

\* A run the sweeper knows of has passed its INSERT.
RecordedInv == \A r \in rows \cup expired \cup ok \cup pruned : pc[r] \in Recorded

\* Every listed run that still has a row leaves its test another row that was not
\* listed, and the rows are removed only after the whole batch went through storage.
ListedInv ==
    /\ spc = "rows" => expired = {}
    /\ \A r \in rows \cap (expired \cup ok) :
          \E q \in rows \ (expired \cup ok) : TestOf[q] = TestOf[r]

\* A run whose objects are removed has nothing left, and its handler has ended.
EmptyInv ==
    \A r \in (pruned \cup ok) \ early :
        /\ Files(r) \cap store = {}
        /\ pc[r] \in {"done", "failed"}

\* A log outside the run's folder is the one its row names, and that row was written
\* by an older version, so nobody is recording the run any more.
LegacyInv ==
    \A r \in Runs :
        /\ <<r, "old">> \in store => logURL[r] = "old"
        /\ logURL[r] = "old" => pc[r] = "done"

IInv == TypeOK /\ RecordedInv /\ ListedInv /\ NewestKept /\ EmptyInv /\ LegacyInv

-----------------------------------------------------------------------------
(* What the row number says. *)

\* A nonempty set of runs has a newest one.
LEMMA Greatest ==
  ASSUME NEW n \in Nat, NEW S \in SUBSET (1..n), S # {}
  PROVE  \E x \in S : \A y \in S : y <= x
  <1> DEFINE T == {n - x : x \in S}
             R == OpToRel(<, Nat)
  <1>0. \A x \in S : x \in Nat /\ n - x \in Nat
    OBVIOUS
  <1>1. T \subseteq Nat /\ T # {}
    BY <1>0
  <1>2. PICK m \in T : \A k \in T : <<k, m>> \notin R
    <2> HIDE DEF T, R
    <2>1. IsWellFoundedOn(R, Nat)
      BY NatLessThanWellFounded DEF R
    <2>2. QED
      BY <1>1, <2>1, WFMin
  <1>3. \A k \in T : m <= k
    <2>1. \A i, j \in Nat : i < j => <<i, j>> \in R
      BY DEF OpToRel
    <2>2. m \in Nat /\ \A k \in T : k \in Nat
      BY <1>1
    <2> HIDE DEF T, R
    <2>3. ASSUME NEW k \in T, k < m PROVE FALSE
      <3>1. <<k, m>> \in R
        BY <2>1, <2>2, <2>3
      <3>2. QED
        BY <1>2, <3>1
    <2>4. QED
      BY <2>2, <2>3
  <1>4. PICK x \in S : m = n - x
    OBVIOUS
  <1>5. \A y \in S : n - x <= n - y
    BY <1>3, <1>4
  <1>6. QED
    BY <1>0, <1>5

\* Every test with a row has one that ListExpiredRuns does not list: its newest,
\* whose row number is one.
LEMMA SomeRowUnlisted ==
  ASSUME rows \subseteq Runs, NEW r \in rows, NEW cut
  PROVE  \E q \in rows : TestOf[q] = TestOf[r] /\ ~Outside(q, cut)
  <1> DEFINE S == rows \cap RunsOf(TestOf[r])
  <1>1. S \in SUBSET (1..NumRuns) /\ S # {}
    BY DEF Runs, RunsOf
  <1>2. PICK q \in S : \A y \in S : y <= q
    BY <1>1, Greatest, BoundsAssumption
  <1>3. q \in rows /\ TestOf[q] = TestOf[r]
    BY DEF RunsOf
  <1>4. {y \in rows \cap RunsOf(TestOf[q]) : y >= q} = {q}
    BY <1>1, <1>2, <1>3, BoundsAssumption DEF RunsOf, Runs
  <1>5. RowNumber(q) = 1
    BY <1>4, FS_Singleton DEF RowNumber
  <1>6. ~Outside(q, cut)
    BY <1>5 DEF Outside
  <1>7. QED
    BY <1>3, <1>6

-----------------------------------------------------------------------------
(* The invariant is inductive. *)

\* The initial state satisfies the invariant.
LEMMA InitInv == Init => IInv
  <1> SUFFICES ASSUME Init PROVE IInv
    OBVIOUS
  <1>1. Legacy \subseteq Runs
    BY LegacyAssumption, BoundsAssumption DEF Runs
  <1>2. TypeOK
    BY <1>1, BatchAssumption, BoundsAssumption, TestOfAssumption DEF Init, TypeOK, Kind
  <1>3. RecordedInv /\ ListedInv
    BY <1>1 DEF Init, RecordedInv, ListedInv, Recorded
  <1>4. NewestKept
    BY <1>1 DEF Init, NewestKept, RunsOf
  <1>5. EmptyInv /\ LegacyInv
    BY <1>1 DEF Init, EmptyInv, LegacyInv
  <1>6. QED
    BY <1>2, <1>3, <1>4, <1>5 DEF IInv

\* Every step of a run's handler keeps the invariant.
LEMMA HandlerInv ==
  ASSUME IInv, NEW r \in Runs, Handler(r)
  PROVE  IInv'
  <1> USE TestOfAssumption, BoundsAssumption
      DEF IInv, TypeOK, RecordedInv, ListedInv, NewestKept, EmptyInv, LegacyInv,
          Recorded, Files, Kind, Goto, tables, sweeper, history
  <1>1. CASE Execute(r)
    BY <1>1 DEF Execute
  <1>2. CASE UploadLog(r)
    <2>1. /\ store \subseteq store' /\ store' \subseteq store \cup {<<r, "log">>}
          /\ logURL' \in {logURL, [logURL EXCEPT ![r] = "run"]}
          /\ pc' = [pc EXCEPT ![r] = "insert"]
      BY <1>2 DEF UploadLog
    <2>2. r \notin rows \cup expired \cup ok \cup pruned
      BY <1>2 DEF UploadLog
    <2>3. TypeOK'
      BY <1>2, <2>1 DEF UploadLog
    <2>4. RecordedInv' /\ ListedInv' /\ NewestKept'
      BY <1>2, <2>1, <2>2 DEF UploadLog
    <2>5. EmptyInv'
      BY <1>2, <2>1, <2>2 DEF UploadLog
    <2>6. LegacyInv'
      <3>1. <<r, "old">> \notin store
        BY <1>2 DEF UploadLog
      <3>2. logURL[r] # "old"
        BY <1>2 DEF UploadLog
      <3>3. \A q \in Runs : <<q, "old">> \in store' => <<q, "old">> \in store
        BY <2>1
      <3>4. \A q \in Runs : logURL'[q] = "old" <=> logURL[q] = "old"
        BY <2>1, <3>2
      <3>5. \A q \in Runs : logURL[q] = "old" => pc'[q] = "done"
        <4>1. \A q \in Runs : logURL[q] = "old" => q # r /\ pc[q] = "done"
          BY <3>2
        <4>2. QED
          BY <2>1, <4>1
      <3>6. \A q \in Runs : <<q, "old">> \in store => logURL[q] = "old"
        OBVIOUS
      <3>7. QED
        BY <3>3, <3>4, <3>5, <3>6
    <2>7. QED
      BY <2>3, <2>4, <2>5, <2>6
  <1>3. CASE Create(r)
    BY <1>3 DEF Create, RunsOf
  <1>4. CASE CreateFails(r)
    BY <1>4 DEF CreateFails
  <1>5. CASE UploadShot(r)
    BY <1>5 DEF UploadShot
  <1>6. CASE CreateShot(r)
    BY <1>6 DEF CreateShot
  <1>7. QED
    BY <1>1, <1>2, <1>3, <1>4, <1>5, <1>6 DEF Handler

\* Listing keeps the invariant: what it lists leaves each test a row.
LEMMA ListInv ==
  ASSUME IInv, ListExpiredRuns
  PROVE  IInv'
  <1> DEFINE found == Oldest({r \in rows : Outside(r, cutoff)}, BatchSize)
  <1>1. found \subseteq rows /\ \A r \in found : Outside(r, cutoff)
    BY DEF Oldest
  <1>2. CASE found = {}
    BY <1>2, BatchAssumption
       DEF ListExpiredRuns, EndSweep, IInv, TypeOK, RecordedInv, ListedInv, NewestKept,
           EmptyInv, LegacyInv, tables, history, Files
  <1>3. CASE found # {}
    <2>1. /\ spc' = "files" /\ batch' = batch + 1 /\ batch < MaxBatches
          /\ expired' = found /\ ok' = {} /\ cutoff' = cutoff
          /\ UNCHANGED <<tables, store, pc, horizon, dpc, crashes, history>>
      BY <1>3 DEF ListExpiredRuns
    <2> HIDE DEF found
    <2>2. TypeOK'
      BY <1>1, <2>1, BatchAssumption DEF IInv, TypeOK, tables, history
    <2>3. RecordedInv'
      BY <1>1, <2>1 DEF IInv, RecordedInv, tables, history
    <2>4. ListedInv'
      <3>1. \A r \in found : \E q \in rows : TestOf[q] = TestOf[r] /\ ~Outside(q, cutoff)
        BY <1>1, SomeRowUnlisted DEF IInv, TypeOK
      <3>2. \A r \in found : \E q \in rows \ found : TestOf[q] = TestOf[r]
        BY <1>1, <3>1
      <3>3. QED
        BY <2>1, <3>2 DEF ListedInv, tables
    <2>5. NewestKept' /\ LegacyInv'
      BY <2>1 DEF IInv, NewestKept, LegacyInv, tables, history
    <2>6. EmptyInv'
      BY <2>1 DEF IInv, EmptyInv, history, Files
    <2>7. QED
      BY <2>2, <2>3, <2>4, <2>5, <2>6 DEF IInv
  <1>4. QED
    BY <1>2, <1>3

\* Removing the objects of a listed run keeps the invariant, whether it succeeds or
\* stops half-way.
LEMMA StorageInv ==
  ASSUME IInv, NEW r \in Runs, DeleteStorage(r) \/ DeleteStorageFails(r)
  PROVE  IInv'
  <1> USE DEF IInv, tables, history
  <1>1. store' \subseteq store
    BY DEF DeleteStorage, DeleteStorageFails
  <1>2. CASE DeleteStorage(r)
    <2>1. Files(r) \cap store' = {}
      BY <1>2 DEF DeleteStorage, OfRun, LegacyInv, Files, Kind
    <2>2. TypeOK'
      BY <1>1, <1>2 DEF DeleteStorage, NextExpired, TypeOK
    <2>3. RecordedInv' /\ ListedInv'
      BY <1>2 DEF DeleteStorage, NextExpired, RecordedInv, ListedInv
    <2>4. NewestKept'
      BY <1>2 DEF DeleteStorage, NewestKept
    <2>5. EmptyInv'
      <3> SUFFICES ASSUME NEW q \in (pruned' \cup ok') \ early'
                   PROVE  Files(q) \cap store' = {} /\ pc'[q] \in {"done", "failed"}
        BY DEF EmptyInv, Files
      <3>1. CASE q = r
        <4>1. ~Recording(r) /\ pc[r] \in Recorded
          BY <1>2, <3>1 DEF DeleteStorage, NextExpired, RecordedInv
        <4>2. QED
          BY <1>2, <2>1, <3>1, <4>1 DEF DeleteStorage, Recording, Recorded
      <3>2. CASE q # r
        BY <1>1, <1>2, <3>2 DEF DeleteStorage, EmptyInv
      <3>3. QED
        BY <3>1, <3>2
    <2>6. LegacyInv'
      BY <1>1, <1>2 DEF DeleteStorage, LegacyInv
    <2>7. QED
      BY <2>2, <2>3, <2>4, <2>5, <2>6
  <1>3. CASE DeleteStorageFails(r)
    <2>1. TypeOK'
      BY <1>1, <1>3 DEF DeleteStorageFails, NextExpired, TypeOK
    <2>2. RecordedInv' /\ ListedInv'
      <3>1. RecordedInv'
        BY <1>3 DEF DeleteStorageFails, RecordedInv
      <3>2. ListedInv'
        BY <1>3 DEF DeleteStorageFails, NextExpired, ListedInv
      <3>3. QED
        BY <3>1, <3>2
    <2>3. NewestKept'
      BY <1>3 DEF DeleteStorageFails, NewestKept
    <2>4. EmptyInv' /\ LegacyInv'
      BY <1>1, <1>3 DEF DeleteStorageFails, EmptyInv, LegacyInv, Files
    <2>5. QED
      BY <2>1, <2>2, <2>3, <2>4
  <1>4. QED
    BY <1>2, <1>3

\* The other steps of the sweeper keep the invariant.
LEMMA SweepInv ==
  ASSUME IInv, SweepStep
  PROVE  IInv'
  <1> USE DEF IInv, tables, history, EndSweep
  <1>1. CASE Sweep
    BY <1>1, BatchAssumption
       DEF Sweep, TypeOK, RecordedInv, ListedInv, NewestKept, EmptyInv, LegacyInv, Files
  <1>2. CASE SweepEnds
    BY <1>2
       DEF SweepEnds, TypeOK, RecordedInv, ListedInv, NewestKept, EmptyInv, LegacyInv, Files
  <1>3. CASE BatchDone
    BY <1>3
       DEF BatchDone, TypeOK, RecordedInv, ListedInv, NewestKept, EmptyInv, LegacyInv, Files
  <1>4. CASE DeleteRunsFails
    BY <1>4
       DEF DeleteRunsFails, TypeOK, RecordedInv, ListedInv, NewestKept, EmptyInv,
           LegacyInv, Files
  <1>5. CASE DeleteRuns
    <2>1. TypeOK'
      BY <1>5 DEF DeleteRuns, TypeOK
    <2>2. RecordedInv'
      BY <1>5 DEF DeleteRuns, RecordedInv
    <2>3. ListedInv'
      BY <1>5 DEF DeleteRuns, ListedInv
    <2>4. NewestKept'
      BY <1>5 DEF DeleteRuns, NewestKept, ListedInv, RunsOf, TypeOK
    <2>5. EmptyInv' /\ LegacyInv'
      BY <1>5 DEF DeleteRuns, EmptyInv, LegacyInv, Files
    <2>6. QED
      BY <2>1, <2>2, <2>3, <2>4, <2>5
  <1>6. QED
    BY <1>1, <1>2, <1>3, <1>4, <1>5, ListInv, StorageInv DEF SweepStep

\* Both steps of a delete keep the invariant.
LEMMA DeleteInv ==
  ASSUME IInv, NEW t \in Tests, DeleteTest(t) \/ DeleteFiles(t)
  PROVE  IInv'
  <1> USE DEF IInv, tables, history, sweeper
  <1>1. CASE DeleteTest(t)
    <2>1. TypeOK'
      BY <1>1 DEF DeleteTest, TypeOK
    <2>2. RecordedInv'
      BY <1>1 DEF DeleteTest, RecordedInv
    <2>3. ListedInv'
      BY <1>1 DEF DeleteTest, ListedInv, RunsOf, TypeOK
    <2>4. NewestKept'
      BY <1>1 DEF DeleteTest, NewestKept, RunsOf
    <2>5. EmptyInv' /\ LegacyInv'
      BY <1>1 DEF DeleteTest, EmptyInv, LegacyInv, Files
    <2>6. QED
      BY <2>1, <2>2, <2>3, <2>4, <2>5
  <1>2. CASE DeleteFiles(t)
    <2>1. store' \subseteq store
      BY <1>2 DEF DeleteFiles
    <2>2. TypeOK'
      BY <1>2, <2>1 DEF DeleteFiles, StillRecording, RunsOf, TypeOK
    <2>3. RecordedInv' /\ ListedInv' /\ NewestKept'
      BY <1>2 DEF DeleteFiles, RecordedInv, ListedInv, NewestKept
    <2>4. EmptyInv' /\ LegacyInv'
      BY <1>2, <2>1 DEF DeleteFiles, EmptyInv, LegacyInv, Files
    <2>5. QED
      BY <2>2, <2>3, <2>4
  <1>3. QED
    BY <1>1, <1>2

\* Every step keeps the invariant.
LEMMA NextInv == IInv /\ [Next]_vars => IInv'
  <1> SUFFICES ASSUME IInv, [Next]_vars PROVE IInv'
    OBVIOUS
  <1>1. CASE Age
    BY <1>1, BoundsAssumption
       DEF Age, IInv, TypeOK, RecordedInv, ListedInv, NewestKept, EmptyInv, LegacyInv,
           Files, Runs, tables, sweeper, history
  <1>2. CASE Crash
    BY <1>2, BoundsAssumption
       DEF Crash, EndSweep, IInv, TypeOK, RecordedInv, ListedInv, NewestKept, EmptyInv,
           LegacyInv, Recorded, Recording, Files, tables, history
  <1>3. CASE UNCHANGED vars
    BY <1>3
       DEF vars, IInv, TypeOK, RecordedInv, ListedInv, NewestKept, EmptyInv, LegacyInv,
           Files, tables, sweeper, history
  <1>4. QED
    BY <1>1, <1>2, <1>3, HandlerInv, SweepInv, DeleteInv DEF Next

\* The invariant holds in every reachable state.
THEOREM Invariance == Spec => []IInv
  <1>1. QED
    BY InitInv, NextInv, PTL DEF Spec

-----------------------------------------------------------------------------
(* What the policy keeps stays intact. *)

Listed == expired \cup ok

\* A run with a row belongs to a test that is there, and a test that is there is not
\* being deleted.
AliveInv ==
    /\ \A r \in rows : TestOf[r] \in exists
    /\ \A t \in exists : dpc[t] = "none"

\* Why a listed run may go: a newer one of its test is not listed, and it is older
\* than the cut-off or as many newer ones as the policy keeps are not listed.
WhyListed(r) ==
    /\ \E q \in Newer(r) : q \notin Listed
    /\ \/ AgeLimit /\ r < cutoff
       \/ MaxRuns > 0 /\ Cardinality(Newer(r) \ Listed) >= MaxRuns

CountInv ==
    /\ cutoff <= horizon
    /\ spc = "idle" => Listed = {}
    /\ \A r \in rows \cap Listed : WhyListed(r)

\* The objects a row speaks of, or is about to, are in storage.
Intact(r) ==
    /\ logURL[r] = "run" => <<r, "log">> \in store
    /\ logURL[r] = "old" => <<r, "old">> \in store
    /\ r \in shots \/ pc[r] = "shotRow" => <<r, "shot">> \in store

KeptInv ==
    /\ \A r \in rows : Keeps(r) => Intact(r)
    /\ \A r \in Runs : pc[r] = "insert" /\ TestOf[r] \in exists => Intact(r)
    /\ \A r \in Runs : pc[r] \in {"none", "exec"} => logURL[r] = "none"

KInv == AliveInv /\ CountInv /\ KeptInv

\* Sets of runs are finite, and larger ones have more elements.
LEMMA RunSets ==
  ASSUME NEW S \in SUBSET Runs
  PROVE  /\ IsFiniteSet(S) /\ Cardinality(S) \in Nat
         /\ \A T \in SUBSET S : Cardinality(T) \in Nat /\ Cardinality(T) <= Cardinality(S)
  <1>1. IsFiniteSet(Runs)
    BY FS_Interval, BoundsAssumption DEF Runs
  <1>2. IsFiniteSet(S)
    BY <1>1, FS_Subset
  <1>3. QED
    BY <1>2, FS_Subset, FS_CardinalityType

\* A row's number is one more than the number of newer rows.
LEMMA RowNumberCounts ==
  ASSUME rows \subseteq Runs, NEW r \in rows
  PROVE  /\ RowNumber(r) = Cardinality(Newer(r)) + 1
         /\ Newer(r) \in SUBSET Runs /\ Cardinality(Newer(r)) \in Nat
  <1>1. Newer(r) \in SUBSET Runs
    BY DEF Newer
  <1>2. IsFiniteSet(Newer(r)) /\ Cardinality(Newer(r)) \in Nat
    BY <1>1, RunSets
  <1>3. {q \in rows \cap RunsOf(TestOf[r]) : q >= r} = Newer(r) \cup {r}
    <2>1. \A q \in rows : q \in Runs /\ q \in Nat
      BY BoundsAssumption DEF Runs
    <2>2. \A q \in rows : q >= r <=> q > r \/ q = r
      BY <2>1
    <2>3. QED
      BY <2>1, <2>2 DEF Newer, RunsOf
  <1>4. r \notin Newer(r)
    BY BoundsAssumption DEF Newer, Runs
  <1>5. Cardinality(Newer(r) \cup {r}) = Cardinality(Newer(r)) + 1
    BY <1>2, <1>4, FS_AddElement
  <1>6. QED
    BY <1>1, <1>2, <1>3, <1>5 DEF RowNumber

\* A run the listing finds is one the policy does not keep, and its reasons do not
\* depend on other runs of the list: the newest run listed for their number has
\* only unlisted runs above it.
LEMMA ListedForReasons ==
  ASSUME rows \subseteq Runs, NEW found \in SUBSET rows, cutoff \in Nat,
         \A r \in found : Outside(r, cutoff),
         NEW r \in found
  PROVE  /\ \E q \in Newer(r) : q \notin found
         /\ \/ AgeLimit /\ r < cutoff
            \/ MaxRuns > 0 /\ Cardinality(Newer(r) \ found) >= MaxRuns
  <1>0. \A q \in rows : q \in Nat
    BY BoundsAssumption DEF Runs
  <1>1. \E q \in Newer(r) : q \notin found
    <2>1. PICK q \in rows : /\ TestOf[q] = TestOf[r] /\ ~Outside(q, cutoff)
                            /\ \A y \in rows : TestOf[y] = TestOf[r] => y <= q
      <3> DEFINE S == rows \cap RunsOf(TestOf[r])
      <3>1. S \in SUBSET (1..NumRuns) /\ S # {}
        BY DEF Runs, RunsOf
      <3>2. PICK q \in S : \A y \in S : y <= q
        BY <3>1, Greatest, BoundsAssumption
      <3>3. q \in rows /\ TestOf[q] = TestOf[r]
        BY DEF RunsOf
      <3>4. Newer(q) = {}
        BY <1>0, <3>2, <3>3 DEF Newer, RunsOf
      <3>5. RowNumber(q) = 1
        <4>1. Cardinality(Newer(q)) = 0
          BY <3>4, FS_EmptySet
        <4>2. RowNumber(q) = Cardinality(Newer(q)) + 1
          BY <3>3, RowNumberCounts
        <4>3. QED
          BY <4>1, <4>2
      <3>6. ~Outside(q, cutoff)
        BY <3>5 DEF Outside
      <3>7. \A y \in rows : TestOf[y] = TestOf[r] => y <= q
        BY <3>2 DEF RunsOf
      <3>8. QED
        BY <3>3, <3>6, <3>7
    <2>2. q \notin found /\ q # r /\ r <= q
      BY <2>1
    <2>3. q \in Newer(r)
      BY <1>0, <2>1, <2>2 DEF Newer
    <2>4. QED
      BY <2>2, <2>3
  <1>2. ASSUME ~(AgeLimit /\ r < cutoff)
        PROVE  MaxRuns > 0 /\ Cardinality(Newer(r) \ found) >= MaxRuns
    <2> DEFINE S == {q \in found : TestOf[q] = TestOf[r] /\ q >= r}
    <2>1. S \in SUBSET (1..NumRuns) /\ S # {}
      <3>1. r \in S
        BY <1>0
      <3>2. S \subseteq 1..NumRuns
        BY DEF Runs
      <3>3. QED
        BY <3>1, <3>2
    <2>2. PICK q \in S : \A y \in S : y <= q
      BY <2>1, Greatest, BoundsAssumption
    <2>3. q \in rows /\ TestOf[q] = TestOf[r] /\ q >= r /\ Outside(q, cutoff)
      OBVIOUS
    <2>4. MaxRuns > 0 /\ RowNumber(q) > MaxRuns
      BY <1>0, <1>2, <2>3 DEF Outside
    <2>5. Newer(q) \subseteq Newer(r) \ found
      <3> SUFFICES ASSUME NEW y \in Newer(q) PROVE y \in Newer(r) /\ y \notin found
        OBVIOUS
      <3>1. y \in rows /\ TestOf[y] = TestOf[r] /\ y > q
        BY <2>3 DEF Newer
      <3>2. y > r
        BY <1>0, <2>3, <3>1
      <3>3. y \notin found
        BY <1>0, <2>2, <2>3, <3>1, <3>2
      <3>4. QED
        BY <3>1, <3>2, <3>3 DEF Newer
    <2>6. Cardinality(Newer(q)) <= Cardinality(Newer(r) \ found)
      <3>1. Newer(r) \ found \in SUBSET Runs
        BY DEF Newer
      <3>2. QED
        BY <2>5, <3>1, RunSets
    <2>7. Cardinality(Newer(q)) \in Nat /\ Cardinality(Newer(r) \ found) \in Nat
      <3>1. Newer(r) \ found \in SUBSET Runs
        BY DEF Newer
      <3>2. QED
        BY <2>3, <3>1, RunSets, RowNumberCounts
    <2>8. QED
      BY <2>3, <2>4, <2>6, <2>7, RowNumberCounts, PolicyAssumption
  <1>3. QED
    BY <1>1, <1>2

\* A run with such reasons is one the policy does not keep.
LEMMA ListedNotKept ==
  ASSUME TypeOK, CountInv, NEW r \in rows \cap Listed
  PROVE  ~Keeps(r)
  <1>1. WhyListed(r)
    BY DEF CountInv
  <1>2. Newer(r) # {}
    BY <1>1 DEF WhyListed
  <1>3. Newer(r) \in SUBSET Runs
    BY DEF Newer, TypeOK
  <1>4. /\ Cardinality(Newer(r)) \in Nat /\ Cardinality(Newer(r) \ Listed) \in Nat
        /\ Cardinality(Newer(r) \ Listed) <= Cardinality(Newer(r))
    BY <1>3, RunSets
  <1>5. r \in Nat
    BY BoundsAssumption DEF TypeOK, Runs
  <1>6. QED
    BY <1>1, <1>2, <1>4, <1>5, PolicyAssumption DEF WhyListed, Keeps, CountInv, TypeOK

\* When rows are only added and the horizon only moves on, no run comes to be kept.
LEMMA KeepsShrinks ==
  ASSUME TypeOK, TypeOK', rows \subseteq rows', horizon <= horizon', NEW r \in rows, Keeps(r)'
  PROVE  Keeps(r)
  <1>1. Newer(r) \subseteq Newer(r)'
    BY DEF Newer
  <1>2. Newer(r)' \in SUBSET Runs
    BY DEF Newer, TypeOK
  <1>3. /\ Cardinality(Newer(r)) \in Nat /\ Cardinality(Newer(r)') \in Nat
        /\ Cardinality(Newer(r)) <= Cardinality(Newer(r)')
    BY <1>1, <1>2, RunSets
  <1>4. r \in Nat
    BY BoundsAssumption DEF TypeOK, Runs
  <1>a. Cardinality(Newer(r))' = Cardinality(Newer(r)')
    OBVIOUS
  <1>5. QED
    BY <1>1, <1>3, <1>4, <1>a, PolicyAssumption DEF Keeps, TypeOK

\* The same for the reasons of a listed run, when the list only shrinks.
LEMMA ReasonsStay ==
  ASSUME TypeOK, TypeOK', rows \subseteq rows', Listed' \subseteq Listed, cutoff' = cutoff,
         \A q \in rows' \ rows : q \notin Listed,
         NEW r \in rows, WhyListed(r)
  PROVE  WhyListed(r)'
  <1>1. Newer(r) \ Listed \subseteq (Newer(r) \ Listed)'
    BY DEF Newer
  <1>2. (Newer(r) \ Listed)' \in SUBSET Runs
    BY DEF Newer, TypeOK
  <1>3. /\ Cardinality(Newer(r) \ Listed) \in Nat /\ Cardinality((Newer(r) \ Listed)') \in Nat
        /\ Cardinality(Newer(r) \ Listed) <= Cardinality((Newer(r) \ Listed)')
    BY <1>1, <1>2, RunSets
  <1>4. (\E q \in Newer(r) : q \notin Listed)'
    BY <1>1 DEF WhyListed
  <1>5. QED
    BY <1>3, <1>4, PolicyAssumption DEF WhyListed

\* Removing the rows of a batch does not bring another run back under the policy:
\* what is removed was not among the runs that the policy keeps.
LEMMA KeepsAfterPrune ==
  ASSUME TypeOK, TypeOK', CountInv, expired = {}, rows' = rows \ ok, horizon' = horizon,
         NEW r \in rows', Keeps(r)'
  PROVE  Keeps(r)
  <1>0. Listed = ok /\ \A q \in rows : q \in Nat
    BY BoundsAssumption DEF Listed, TypeOK, Runs
  <1>1. Newer(r)' = Newer(r) \ ok
    BY DEF Newer
  <1>2. \A q \in Newer(r) : q \in rows /\ q > r /\ Newer(q) \subseteq Newer(r)
    BY <1>0 DEF Newer
  <1>3. \A q \in Newer(r) \cap ok : WhyListed(q)
    BY <1>0, <1>2 DEF CountInv
  <1>4. ASSUME Newer(r) # {} PROVE Newer(r)' # {}
    BY <1>0, <1>1, <1>2, <1>3, <1>4 DEF WhyListed
  <1>5. ASSUME AgeLimit, r < horizon PROVE Keeps(r)
    BY <1>0, <1>4, <1>5 DEF Keeps, TypeOK
  <1>6. ASSUME ~(AgeLimit /\ r < horizon) PROVE Keeps(r)
    <2>1. CASE Newer(r) \cap ok = {}
      <3>1. Newer(r)' = Newer(r)
        BY <1>1, <2>1
      <3>2. QED
        BY <1>6, <3>1, <1>0 DEF Keeps, TypeOK
    <2>2. CASE Newer(r) \cap ok # {}
      <3>1. PICK q \in Newer(r) : q \in ok /\ WhyListed(q)
        BY <1>3, <2>2
      <3>2. ~(AgeLimit /\ q < cutoff)
        BY <1>0, <1>2, <1>6, <3>1 DEF CountInv, TypeOK
      <3>3. MaxRuns > 0 /\ Cardinality(Newer(q) \ ok) >= MaxRuns
        BY <1>0, <3>1, <3>2 DEF WhyListed
      <3>4. Newer(q) \ ok \subseteq Newer(r)' /\ Newer(r)' \in SUBSET Runs
        BY <1>1, <1>2 DEF Newer, TypeOK
      <3>5. /\ Cardinality(Newer(q) \ ok) <= Cardinality(Newer(r)')
            /\ Cardinality(Newer(q) \ ok) \in Nat /\ Cardinality(Newer(r)') \in Nat
        BY <3>4, RunSets
      <3>6. ~(Cardinality(Newer(r)') < MaxRuns) /\ MaxRuns # 0
        BY <3>3, <3>5, PolicyAssumption
      <3>7. Newer(r)' = {}
        BY <3>6 DEF Keeps
      <3>8. QED
        BY <1>4, <3>7 DEF Keeps
    <2>3. QED
      BY <2>1, <2>2
  <1>7. QED
    BY <1>5, <1>6

\* The initial state satisfies the second invariant.
LEMMA KInit == Init => KInv
  <1> SUFFICES ASSUME Init PROVE KInv
    OBVIOUS
  <1>1. Legacy \subseteq Runs
    BY LegacyAssumption, BoundsAssumption DEF Runs
  <1>2. AliveInv
    BY <1>1, TestOfAssumption DEF Init, AliveInv
  <1>3. CountInv
    BY DEF Init, CountInv, Listed
  <1>4. KeptInv
    BY <1>1 DEF Init, KeptInv, Intact
  <1>5. QED
    BY <1>2, <1>3, <1>4 DEF KInv

\* Tests with rows stay alive.
LEMMA AliveStep ==
  ASSUME IInv, AliveInv, [Next]_vars
  PROVE  AliveInv'
  <1> USE DEF IInv, TypeOK, AliveInv, tables, sweeper, history
  <1>1. ASSUME NEW r \in Runs, Handler(r) PROVE AliveInv'
    BY <1>1 DEF Handler, Execute, UploadLog, Create, CreateFails, UploadShot, CreateShot
  <1>2. CASE SweepStep
    BY <1>2 DEF SweepStep, Sweep, ListExpiredRuns, SweepEnds, BatchDone, DeleteRuns,
                DeleteRunsFails, DeleteStorage, DeleteStorageFails, EndSweep
  <1>3. ASSUME NEW t \in Tests, DeleteTest(t) PROVE AliveInv'
    BY <1>3 DEF DeleteTest, RunsOf
  <1>4. ASSUME NEW t \in Tests, DeleteFiles(t) PROVE AliveInv'
    BY <1>4 DEF DeleteFiles
  <1>5. CASE Age \/ Crash
    BY <1>5 DEF Age, Crash
  <1>6. CASE UNCHANGED vars
    BY <1>6 DEF vars
  <1>7. QED
    BY <1>1, <1>2, <1>3, <1>4, <1>5, <1>6 DEF Next

\* The reasons of listed runs stay.
LEMMA CountStep ==
  ASSUME IInv, IInv', CountInv, [Next]_vars
  PROVE  CountInv'
  <1>0. TypeOK /\ TypeOK' /\ horizon \in Nat /\ cutoff \in Nat
    BY DEF IInv, TypeOK
  <1>1. ASSUME UNCHANGED <<rows, expired, ok, cutoff, spc>>, horizon <= horizon',
               horizon' \in Nat
        PROVE  CountInv'
    BY <1>0, <1>1 DEF CountInv, WhyListed, Newer, Listed
  <1>2. ASSUME Listed' = {}, cutoff' <= horizon' PROVE CountInv'
    BY <1>2 DEF CountInv
  <1>3. ASSUME NEW r \in Runs, Create(r) PROVE CountInv'
    <2>1. r \notin Listed
      BY <1>3 DEF Create, IInv, RecordedInv, Recorded, Listed
    <2>2. /\ rows' = rows \cup {r} /\ Listed' = Listed /\ cutoff' = cutoff
          /\ horizon' = horizon /\ spc' = spc
      BY <1>3 DEF Create, Listed, sweeper
    <2>3. \A q \in rows' \cap Listed' : q \in rows /\ WhyListed(q)
      BY <2>1, <2>2 DEF CountInv
    <2>4. \A q \in rows' \cap Listed' : WhyListed(q)'
      BY <1>0, <2>1, <2>2, <2>3, ReasonsStay
    <2>5. QED
      BY <2>2, <2>4 DEF CountInv
  <1>4. ASSUME NEW r \in Runs, Handler(r), ~Create(r) PROVE CountInv'
    BY <1>0, <1>1, <1>4 DEF Handler, Execute, UploadLog, CreateFails, UploadShot, CreateShot,
       tables, sweeper
  <1>5. CASE Sweep
    BY <1>0, <1>2, <1>5 DEF Sweep, CountInv, Listed
  <1>6. CASE ListExpiredRuns
    <2> DEFINE found == Oldest({r \in rows : Outside(r, cutoff)}, BatchSize)
    <2>1. found \subseteq rows /\ \A r \in found : Outside(r, cutoff)
      BY DEF Oldest
    <2>2. CASE found = {}
      BY <1>2, <1>6, <2>2 DEF ListExpiredRuns, EndSweep, CountInv, Listed
    <2>3. CASE found # {}
      <3>1. /\ Listed' = found /\ rows' = rows /\ cutoff' = cutoff /\ horizon' = horizon
            /\ spc' = "files"
        BY <1>6, <2>3 DEF ListExpiredRuns, Listed, tables
      <3> HIDE DEF found
      <3>2. ASSUME NEW r \in found PROVE WhyListed(r)'
        <4>1. /\ \E q \in Newer(r) : q \notin found
              /\ \/ AgeLimit /\ r < cutoff
                 \/ MaxRuns > 0 /\ Cardinality(Newer(r) \ found) >= MaxRuns
          BY <1>0, <2>1, ListedForReasons DEF TypeOK
        <4>2. Newer(r)' = Newer(r)
          BY <3>1 DEF Newer
        <4>3. QED
          BY <3>1, <4>1, <4>2 DEF WhyListed
      <3>3. QED
        BY <3>1, <3>2 DEF CountInv
    <2>4. QED
      BY <2>2, <2>3
  <1>7. CASE SweepEnds \/ DeleteRunsFails
    BY <1>2, <1>7 DEF SweepEnds, DeleteRunsFails, EndSweep, CountInv, Listed
  <1>8. CASE BatchDone
    BY <1>2, <1>8 DEF BatchDone, EndSweep, CountInv, Listed, tables, WhyListed, Newer
  <1>9. CASE DeleteRuns
    <2>1. expired = {}
      BY <1>9 DEF DeleteRuns, IInv, ListedInv
    <2>2. rows' \cap Listed' = {} /\ (spc' = "idle" => Listed' = {})
      BY <1>9, <2>1 DEF DeleteRuns, EndSweep, Listed
    <2>3. cutoff' = cutoff /\ horizon' = horizon
      BY <1>9 DEF DeleteRuns, EndSweep
    <2>4. QED
      BY <2>2, <2>3 DEF CountInv
  <1>10. ASSUME NEW r \in Runs, DeleteStorage(r) \/ DeleteStorageFails(r) PROVE CountInv'
    <2>1. /\ Listed' \subseteq Listed /\ rows' = rows /\ cutoff' = cutoff
          /\ horizon' = horizon /\ spc' = "files"
      BY <1>10 DEF DeleteStorage, DeleteStorageFails, NextExpired, Listed, tables
    <2>2. \A q \in rows' \cap Listed' : WhyListed(q)'
      BY <1>0, <2>1, ReasonsStay DEF CountInv
    <2>3. QED
      BY <2>1, <2>2 DEF CountInv
  <1>11. ASSUME NEW t \in Tests, DeleteTest(t) PROVE CountInv'
    <2>1. /\ rows' = rows \ RunsOf(t) /\ Listed' = Listed /\ cutoff' = cutoff
          /\ horizon' = horizon /\ spc' = spc
      BY <1>11 DEF DeleteTest, Listed, sweeper
    <2>2. \A q \in rows' : Newer(q)' = Newer(q)
      BY <1>0, <2>1 DEF Newer, RunsOf, TypeOK
    <2>3. QED
      BY <2>1, <2>2 DEF CountInv, WhyListed
  <1>12. ASSUME NEW t \in Tests, DeleteFiles(t) PROVE CountInv'
    BY <1>0, <1>1, <1>12 DEF DeleteFiles, tables, sweeper
  <1>13. CASE Age
    BY <1>0, <1>1, <1>13, BoundsAssumption DEF Age, tables, sweeper
  <1>14. CASE Crash
    BY <1>2, <1>14 DEF Crash, EndSweep, CountInv, Listed
  <1>15. CASE UNCHANGED vars
    BY <1>0, <1>1, <1>15 DEF vars, tables, sweeper
  <1>16. QED
    BY <1>3, <1>4, <1>5, <1>6, <1>7, <1>8, <1>9, <1>10, <1>11, <1>12, <1>13, <1>14, <1>15
       DEF Next, SweepStep

\* What the policy keeps stays intact.
LEMMA KeptStep ==
  ASSUME IInv, IInv', KInv, [Next]_vars
  PROVE  KeptInv'
  <1>0. TypeOK /\ TypeOK' /\ horizon \in Nat /\ rows \subseteq Runs
    BY DEF IInv, TypeOK
  <1> USE DEF KInv
  <1>1. ASSUME rows' = rows, horizon' = horizon PROVE \A r \in rows : Keeps(r)' = Keeps(r)
    BY <1>1 DEF Keeps, Newer
  <1>2. ASSUME NEW r \in Runs, Handler(r) PROVE KeptInv'
    <2>1. CASE Execute(r)
      <3>1. rows' = rows /\ horizon' = horizon
        BY <2>1 DEF Execute, tables
      <3>2. r \notin rows /\ r \notin shots
        BY <2>1 DEF Execute, IInv, RecordedInv, Recorded, TypeOK
      <3>3. \A q \in Runs : Intact(q) => Intact(q)'
        BY <1>0, <2>1 DEF Execute, Goto, Intact, tables, TypeOK
      <3>4. QED
        BY <1>0, <1>1, <2>1, <3>1, <3>3 DEF KeptInv, Execute, Goto, tables, TypeOK
    <2>2. CASE UploadLog(r)
      <3>1. rows' = rows /\ horizon' = horizon /\ exists' = exists /\ shots' = shots
        BY <2>2 DEF UploadLog
      <3>2. r \notin rows /\ r \notin shots /\ logURL[r] = "none"
        BY <2>2 DEF UploadLog, IInv, RecordedInv, Recorded, TypeOK, KeptInv
      <3>3. /\ store \subseteq store' /\ pc' = [pc EXCEPT ![r] = "insert"]
            /\ logURL' \in {logURL, [logURL EXCEPT ![r] = "run"]}
        BY <2>2 DEF UploadLog, Goto
      <3>4. \A q \in Runs \ {r} : Intact(q) => Intact(q)'
        BY <1>0, <3>1, <3>3 DEF Intact, TypeOK
      <3>5. Intact(r)'
        BY <1>0, <2>2, <3>1, <3>2 DEF UploadLog, Goto, Intact, TypeOK
      <3>6. \A q \in Runs : pc'[q] \in {"none", "exec"} => logURL'[q] = "none"
        BY <1>0, <3>3 DEF KeptInv, TypeOK
      <3>7. \A q \in Runs : pc'[q] = "insert" /\ TestOf[q] \in exists' => Intact(q)'
        BY <1>0, <3>1, <3>3, <3>4, <3>5 DEF KeptInv, TypeOK
      <3>8. \A q \in rows' : Keeps(q)' => Intact(q)'
        BY <1>0, <1>1, <3>1, <3>2, <3>4 DEF KeptInv
      <3>9. QED
        BY <3>6, <3>7, <3>8 DEF KeptInv
    <2>3. CASE Create(r)
      <3>1. /\ rows \subseteq rows' /\ rows' = rows \cup {r} /\ horizon' = horizon
            /\ exists' = exists /\ logURL' = logURL /\ shots' = shots /\ store' = store
            /\ pc' \in {[pc EXCEPT ![r] = "shots"], [pc EXCEPT ![r] = "failed"]}
        BY <2>3 DEF Create, Goto
      <3>2. Intact(r)
        BY <2>3 DEF Create, KeptInv
      <3>3. \A q \in Runs : Intact(q) => Intact(q)'
        BY <1>0, <3>1 DEF Intact, TypeOK
      <3>4. \A q \in rows : Keeps(q)' => Keeps(q)
        BY <1>0, <3>1, KeepsShrinks
      <3>5. \A q \in rows' : Keeps(q)' => Intact(q)'
        BY <1>0, <3>1, <3>2, <3>3, <3>4 DEF KeptInv
      <3>6. \A q \in Runs : pc'[q] = "insert" /\ TestOf[q] \in exists' => Intact(q)'
        BY <1>0, <3>1, <3>3 DEF KeptInv, TypeOK
      <3>7. \A q \in Runs : pc'[q] \in {"none", "exec"} => logURL'[q] = "none"
        BY <1>0, <3>1 DEF KeptInv, TypeOK
      <3>8. QED
        BY <3>5, <3>6, <3>7 DEF KeptInv
    <2>4. CASE CreateFails(r) \/ UploadShot(r) \/ CreateShot(r)
      <3>1. /\ rows' = rows /\ horizon' = horizon /\ exists' = exists /\ logURL' = logURL
            /\ store \subseteq store'
        BY <2>4 DEF CreateFails, UploadShot, CreateShot, tables
      <3>2. \A q \in Runs : Intact(q) => Intact(q)'
        BY <1>0, <2>4 DEF CreateFails, UploadShot, CreateShot, Goto, Intact, tables, TypeOK
      <3>3. \A q \in Runs : pc'[q] \in {"none", "exec", "insert"} => pc[q] = pc'[q]
        BY <1>0, <2>4 DEF CreateFails, UploadShot, CreateShot, Goto, TypeOK
      <3>4. \A q \in rows' : Keeps(q)' => Intact(q)'
        BY <1>0, <1>1, <3>1, <3>2 DEF KeptInv
      <3>5. QED
        BY <3>1, <3>2, <3>3, <3>4 DEF KeptInv
    <2>5. QED
      BY <1>2, <2>1, <2>2, <2>3, <2>4 DEF Handler
  <1>3. ASSUME UNCHANGED <<exists, rows, logURL, shots, store, horizon>>,
               \A q \in Runs : pc'[q] = pc[q] \/ pc'[q] = "failed"
        PROVE  KeptInv'
    <2>1. \A q \in Runs : Intact(q) => Intact(q)'
      BY <1>3 DEF Intact
    <2>2. \A q \in rows' : Keeps(q)' => Intact(q)'
      BY <1>0, <1>1, <1>3, <2>1 DEF KeptInv
    <2>3. QED
      BY <1>3, <2>1, <2>2 DEF KeptInv
  <1>4. CASE Sweep \/ ListExpiredRuns \/ SweepEnds \/ BatchDone \/ DeleteRunsFails
    BY <1>3, <1>4 DEF Sweep, ListExpiredRuns, SweepEnds, BatchDone, DeleteRunsFails, tables
  <1>5. CASE DeleteRuns
    <2>1. expired = {}
      BY <1>5 DEF DeleteRuns, IInv, ListedInv
    <2>2. /\ rows' = rows \ ok /\ shots' = shots \ ok /\ horizon' = horizon
          /\ UNCHANGED <<exists, logURL, store, pc>>
      BY <1>5 DEF DeleteRuns
    <2>3. \A q \in Runs : Intact(q) => Intact(q)'
      BY <2>2 DEF Intact
    <2>4. \A q \in rows' : Keeps(q)' => Keeps(q)
      BY <1>0, <2>1, <2>2, KeepsAfterPrune
    <2>5. \A q \in rows' : Keeps(q)' => Intact(q)'
      BY <1>0, <2>2, <2>3, <2>4 DEF KeptInv
    <2>6. QED
      BY <2>2, <2>3, <2>5 DEF KeptInv
  <1>6. ASSUME NEW r \in Runs, DeleteStorage(r) \/ DeleteStorageFails(r) PROVE KeptInv'
    <2>1. /\ store \ Files(r) \subseteq store' /\ horizon' = horizon
          /\ UNCHANGED <<exists, rows, logURL, shots, pc>>
      BY <1>6 DEF DeleteStorage, DeleteStorageFails, OfRun, tables
    <2>2. r \in Listed /\ pc[r] \in Recorded
      BY <1>6 DEF DeleteStorage, DeleteStorageFails, NextExpired, Listed, IInv, RecordedInv
    <2>3. r \in rows => ~Keeps(r)
      BY <1>0, <2>2, ListedNotKept
    <2>4. \A q \in Runs \ {r} : Intact(q) => Intact(q)'
      BY <2>1 DEF Intact, Files
    <2>5. \A q \in rows' : Keeps(q)' => Intact(q)'
      BY <1>0, <1>1, <2>1, <2>3, <2>4 DEF KeptInv
    <2>6. \A q \in Runs : pc'[q] = "insert" /\ TestOf[q] \in exists' => Intact(q)'
      BY <2>1, <2>2, <2>4 DEF KeptInv, Recorded
    <2>7. QED
      BY <2>1, <2>5, <2>6 DEF KeptInv
  <1>7. ASSUME NEW t \in Tests, DeleteTest(t) PROVE KeptInv'
    <2>1. /\ rows' = rows \ RunsOf(t) /\ shots' = shots \ RunsOf(t) /\ exists' \subseteq exists
          /\ UNCHANGED <<logURL, store, pc, horizon>>
      BY <1>7 DEF DeleteTest
    <2>2. \A q \in rows' : Newer(q)' = Newer(q)
      BY <1>0, <2>1 DEF Newer, RunsOf
    <2>3. \A q \in rows' : Keeps(q)' = Keeps(q)
      BY <2>1, <2>2 DEF Keeps
    <2>4. \A q \in Runs : Intact(q) => Intact(q)'
      BY <2>1 DEF Intact
    <2>5. \A q \in rows' : Keeps(q)' => Intact(q)'
      BY <1>0, <2>1, <2>3, <2>4 DEF KeptInv
    <2>6. QED
      BY <2>1, <2>4, <2>5 DEF KeptInv
  <1>8. ASSUME NEW t \in Tests, DeleteFiles(t) PROVE KeptInv'
    <2>1. /\ store \ OfTest(t) \subseteq store'
          /\ UNCHANGED <<exists, rows, logURL, shots, pc, horizon>>
      BY <1>8 DEF DeleteFiles, tables
    <2>2. t \notin exists
      BY <1>8 DEF DeleteFiles, AliveInv
    <2>3. \A q \in Runs : TestOf[q] \in exists /\ Intact(q) => Intact(q)'
      BY <2>1, <2>2 DEF Intact, OfTest
    <2>4. \A q \in rows' : Keeps(q)' => Intact(q)'
      BY <1>0, <1>1, <2>1, <2>3 DEF KeptInv, AliveInv
    <2>5. QED
      BY <2>1, <2>3, <2>4 DEF KeptInv
  <1>9. CASE Age
    <2>1. /\ horizon <= horizon' /\ rows \subseteq rows'
          /\ UNCHANGED <<exists, rows, logURL, shots, store, pc>>
      BY <1>0, <1>9 DEF Age, tables
    <2>2. \A q \in rows : Keeps(q)' => Keeps(q)
      BY <1>0, <2>1, KeepsShrinks
    <2>3. \A q \in Runs : Intact(q)' = Intact(q)
      BY <2>1 DEF Intact
    <2>4. QED
      BY <1>0, <2>1, <2>2, <2>3 DEF KeptInv
  <1>10. CASE Crash
    <2>1. \A q \in Runs : pc'[q] = pc[q] \/ pc'[q] = "failed"
      BY <1>10 DEF Crash
    <2>2. UNCHANGED <<exists, rows, logURL, shots, store, horizon>>
      BY <1>10 DEF Crash, tables
    <2>3. QED
      BY <1>3, <2>1, <2>2
  <1>11. CASE UNCHANGED vars
    BY <1>3, <1>11 DEF vars, tables
  <1>12. QED
    BY <1>2, <1>4, <1>5, <1>6, <1>7, <1>8, <1>9, <1>10, <1>11 DEF Next, SweepStep

-----------------------------------------------------------------------------
(* Leaks. *)

\* A handler at work on a run without a row, or of a deleted test, is one that the
\* removal of the run's objects did not wait for.
LeakInv ==
    /\ LeaksExplained
    /\ \A r \in Runs \ rows : pc[r] \in {"shots", "shotRow"} =>
          r \in early \cup late \/ dpc[TestOf[r]] \in {"files", "failed"}
    /\ \A r \in Runs : Recording(r) /\ dpc[TestOf[r]] = "done" => r \in late

\* The first clause of LeaksExplained, for one run.
Explained(r) ==
    Files(r) \cap store # {} =>
        \/ pc[r] \in {"exec", "insert", "failed"}
        \/ dpc[TestOf[r]] \in {"files", "failed"}
        \/ r \in early \cup late

\* Every step keeps the leaks explained.
LEMMA LeakStep ==
  ASSUME IInv, IInv', AliveInv, LeakInv, [Next]_vars
  PROVE  LeakInv'
  <1>0. /\ TypeOK /\ rows \subseteq Runs /\ store \subseteq Runs \X Kind
        /\ pc \in [Runs -> {"none", "exec", "insert", "shots", "shotRow", "done", "failed"}]
        /\ dpc \in [Tests -> {"none", "files", "done", "failed"}]
        /\ \A r \in Runs : TestOf[r] \in Tests
    BY TestOfAssumption DEF IInv, TypeOK
  <1>a. \A r \in Runs \ rows : Explained(r)
    BY DEF LeakInv, LeaksExplained, Explained
  <1> DEFINE OnlyLate(t) == \A f \in store : TestOf[f[1]] = t => f[1] \in late
  <1>b. \A t \in Tests : dpc[t] = "done" => OnlyLate(t)
    BY DEF LeakInv, LeaksExplained, OfTest
  <1>c. ASSUME \A r \in Runs \ rows' : Explained(r)',
               \A t \in Tests : dpc'[t] = "done" => OnlyLate(t)'
        PROVE  LeaksExplained'
    BY <1>c DEF LeaksExplained, Explained, OfTest
  <1>1. ASSUME NEW r \in Runs, Handler(r) PROVE LeakInv'
    <2>1. /\ dpc' = dpc /\ early' = early /\ late' = late /\ rows \subseteq rows'
          /\ store \subseteq store' /\ store' \subseteq store \cup Files(r)
          /\ \A q \in Runs \ {r} : pc'[q] = pc[q]
      BY <1>0, <1>1 DEF Handler, Execute, UploadLog, Create, CreateFails, UploadShot,
         CreateShot, Goto, tables, history, Files, Kind
    <2>2. \A q \in Runs \ {r} : Files(q) \cap store' = Files(q) \cap store
      BY <2>1 DEF Files
    <2>3. \A q \in (Runs \ rows') \ {r} : Explained(q)'
      BY <1>a, <2>1, <2>2 DEF Explained, Files
    <2>4. r \notin rows' => Explained(r)'
      <3>1. CASE Execute(r) \/ UploadLog(r) \/ CreateFails(r)
        BY <1>0, <3>1 DEF Execute, UploadLog, CreateFails, Goto, Explained
      <3>2. CASE Create(r)
        BY <3>2 DEF Create
      <3>3. CASE UploadShot(r) \/ CreateShot(r)
        BY <1>0, <2>1, <3>3 DEF UploadShot, CreateShot, LeakInv, Explained
      <3>4. QED
        BY <1>1, <3>1, <3>2, <3>3 DEF Handler
    <2>5. Recording(r)' => (dpc[TestOf[r]] = "done" => r \in late)
      <3>1. CASE Execute(r)
        BY <3>1 DEF Execute, AliveInv
      <3>2. CASE ~Execute(r)
        BY <1>0, <1>1, <3>2 DEF Handler, UploadLog, Create, CreateFails, UploadShot,
           CreateShot, Goto, Recording, LeakInv
      <3>3. QED
        BY <3>1, <3>2
    <2>6. store' = store \/ (dpc[TestOf[r]] = "done" => r \in late)
      BY <1>1 DEF Handler, Execute, UploadLog, Create, CreateFails, UploadShot,
         CreateShot, Recording, LeakInv
    <2>7. \A t \in Tests : dpc'[t] = "done" => OnlyLate(t)'
      <3> SUFFICES ASSUME NEW t \in Tests, dpc[t] = "done",
                          NEW f \in store', TestOf[f[1]] = t
                   PROVE  f[1] \in late
        BY <2>1
      <3>1. f \in store \/ (f \in Files(r) /\ f[1] = r /\ store' # store)
        BY <2>1 DEF Files
      <3>2. QED
        BY <1>b, <2>6, <3>1
    <2>8. LeaksExplained'
      BY <1>c, <2>3, <2>4, <2>7
    <2>9. \A q \in Runs \ rows' : pc'[q] \in {"shots", "shotRow"} =>
              q \in early \cup late \/ dpc[TestOf[q]] \in {"files", "failed"}
      <3>1. r \notin rows' /\ pc'[r] \in {"shots", "shotRow"} => pc[r] \in {"shots", "shotRow"}
        BY <1>0, <1>1 DEF Handler, Execute, UploadLog, Create, CreateFails, UploadShot,
           CreateShot, Goto
      <3>2. QED
        BY <2>1, <3>1 DEF LeakInv
    <2>10. \A q \in Runs : Recording(q)' /\ dpc[TestOf[q]] = "done" => q \in late
      BY <2>1, <2>5 DEF LeakInv, Recording
    <2>11. QED
      BY <2>1, <2>8, <2>9, <2>10 DEF LeakInv
  <1>2. ASSUME store' \subseteq store, UNCHANGED <<rows, early, late, pc, dpc>>
        PROVE  LeakInv'
    <2>1. \A q \in Runs \ rows' : Explained(q)'
      BY <1>a, <1>2 DEF Explained, Files
    <2>2. \A t \in Tests : dpc'[t] = "done" => OnlyLate(t)'
      BY <1>b, <1>2
    <2>3. QED
      BY <1>2, <1>c, <2>1, <2>2 DEF LeakInv, Recording
  <1>3. CASE Sweep \/ ListExpiredRuns \/ SweepEnds \/ BatchDone \/ DeleteRunsFails
    BY <1>2, <1>3 DEF Sweep, ListExpiredRuns, SweepEnds, BatchDone, DeleteRunsFails, tables,
       history
  <1>4. ASSUME NEW r \in Runs, DeleteStorageFails(r) PROVE LeakInv'
    BY <1>2, <1>4 DEF DeleteStorageFails, tables, history
  <1>5. ASSUME NEW r \in Runs, DeleteStorage(r) PROVE LeakInv'
    <2>1. /\ store' \subseteq store
          /\ UNCHANGED <<rows, pc, dpc, late>>
          /\ early \ {r} \subseteq early' /\ (Recording(r) => r \in early')
      BY <1>5 DEF DeleteStorage, tables
    <2>2. Files(r) \cap store' = {}
      BY <1>5 DEF DeleteStorage, OfRun, IInv, LegacyInv, Files, Kind
    <2>3. \A q \in Runs \ rows' : Explained(q)'
      BY <1>a, <2>1, <2>2 DEF Explained, Files
    <2>4. \A t \in Tests : dpc'[t] = "done" => OnlyLate(t)'
      BY <1>b, <2>1
    <2>5. \A q \in Runs \ rows' : pc'[q] \in {"shots", "shotRow"} =>
              q \in early' \cup late \/ dpc[TestOf[q]] \in {"files", "failed"}
      BY <2>1 DEF LeakInv, Recording
    <2>6. QED
      BY <1>c, <2>1, <2>3, <2>4, <2>5 DEF LeakInv, Recording
  <1>6. CASE DeleteRuns
    <2>1. rows' = rows \ ok /\ UNCHANGED <<store, pc, dpc, early, late>>
      BY <1>6 DEF DeleteRuns
    <2>2. \A q \in ok \ early : Files(q) \cap store = {} /\ pc[q] \in {"done", "failed"}
      BY DEF IInv, EmptyInv
    <2>3. \A q \in Runs \ rows' : Explained(q)'
      BY <1>a, <2>1, <2>2 DEF Explained, Files
    <2>4. \A q \in Runs \ rows' : pc'[q] \in {"shots", "shotRow"} =>
              q \in early \cup late \/ dpc[TestOf[q]] \in {"files", "failed"}
      BY <2>1, <2>2 DEF LeakInv
    <2>5. \A t \in Tests : dpc'[t] = "done" => OnlyLate(t)'
      BY <1>b, <2>1
    <2>6. QED
      BY <1>c, <2>1, <2>3, <2>4, <2>5 DEF LeakInv, Recording
  <1>7. ASSUME NEW t \in Tests, DeleteTest(t) PROVE LeakInv'
    <2>1. /\ rows' = rows \ RunsOf(t) /\ dpc' = [dpc EXCEPT ![t] = "files"]
          /\ UNCHANGED <<store, pc, early, late>>
      BY <1>7 DEF DeleteTest, history
    <2>2. \A q \in Runs : \/ TestOf[q] = t /\ dpc'[TestOf[q]] = "files"
                          \/ dpc'[TestOf[q]] = dpc[TestOf[q]] /\ (q \in rows' <=> q \in rows)
      BY <1>0, <2>1 DEF RunsOf
    <2>3. \A q \in Runs \ rows' : Explained(q)'
      BY <1>a, <2>1, <2>2 DEF Explained, Files
    <2>4. \A s \in Tests : dpc'[s] = "done" => OnlyLate(s)'
      BY <1>0, <1>b, <2>1
    <2>5. \A q \in Runs \ rows' : pc'[q] \in {"shots", "shotRow"} =>
              q \in early \cup late \/ dpc'[TestOf[q]] \in {"files", "failed"}
      BY <2>1, <2>2 DEF LeakInv
    <2>6. \A q \in Runs : Recording(q)' /\ dpc'[TestOf[q]] = "done" => q \in late
      BY <2>1, <2>2 DEF LeakInv, Recording
    <2>7. QED
      BY <1>c, <2>1, <2>3, <2>4, <2>5, <2>6 DEF LeakInv
  <1>8. ASSUME NEW t \in Tests, DeleteFiles(t) PROVE LeakInv'
    <2>1. /\ store' \subseteq store /\ UNCHANGED <<rows, pc, early>>
          /\ late' = late \cup StillRecording(t)
          /\ \/ dpc' = [dpc EXCEPT ![t] = "done"] /\ store' = store \ OfTest(t)
             \/ dpc' = [dpc EXCEPT ![t] = "failed"]
          /\ dpc[t] = "files"
      BY <1>8 DEF DeleteFiles, tables
    <2>2. \A s \in Tests : dpc'[s] = IF s = t THEN dpc'[t] ELSE dpc[s]
      BY <1>0, <2>1
    <2>3. dpc'[t] = "failed" \/ (dpc'[t] = "done" /\ store' = store \ OfTest(t))
      BY <1>0, <2>1
    <2>4. \A q \in Runs \ rows' : Explained(q)'
      <3> SUFFICES ASSUME NEW q \in Runs \ rows', Files(q) \cap store' # {}
                   PROVE  \/ pc[q] \in {"exec", "insert", "failed"}
                          \/ dpc'[TestOf[q]] \in {"files", "failed"}
                          \/ q \in early \cup late'
        BY <2>1 DEF Explained, Files
      <3>1. CASE TestOf[q] = t
        <4>1. dpc'[t] # "done"
          BY <2>3, <3>1 DEF OfTest, Files
        <4>2. QED
          BY <2>3, <3>1, <4>1
      <3>2. CASE TestOf[q] # t
        BY <1>0, <1>a, <2>1, <2>2, <3>2 DEF Explained
      <3>3. QED
        BY <3>1, <3>2
    <2>5. \A s \in Tests : dpc'[s] = "done" => OnlyLate(s)'
      BY <1>b, <2>1, <2>2, <2>3 DEF OfTest
    <2>6. \A q \in Runs : Recording(q) /\ TestOf[q] = t => q \in late'
      BY <2>1 DEF StillRecording, RunsOf
    <2>7. \A q \in Runs \ rows' : pc'[q] \in {"shots", "shotRow"} =>
              q \in early' \cup late' \/ dpc'[TestOf[q]] \in {"files", "failed"}
      BY <1>0, <2>1, <2>2, <2>6 DEF LeakInv, Recording
    <2>8. \A q \in Runs : Recording(q)' /\ dpc'[TestOf[q]] = "done" => q \in late'
      BY <1>0, <2>1, <2>2, <2>6 DEF LeakInv, Recording
    <2>9. QED
      BY <1>c, <2>4, <2>5, <2>7, <2>8 DEF LeakInv
  <1>9. CASE Age
    BY <1>2, <1>9 DEF Age, tables, history
  <1>10. CASE Crash
    <2>1. /\ UNCHANGED <<rows, store, early, late>>
          /\ \A q \in Runs : pc'[q] = IF Recording(q) THEN "failed" ELSE pc[q]
          /\ \A t \in Tests : dpc'[t] = IF dpc[t] = "files" THEN "failed" ELSE dpc[t]
      BY <1>10 DEF Crash, tables, history
    <2>2. \A q \in Runs : ~Recording(q)'
      BY <2>1 DEF Recording
    <2>3. \A q \in Runs \ rows' : Explained(q)'
      BY <1>0, <1>a, <2>1 DEF Explained, Files, Recording
    <2>4. \A t \in Tests : dpc'[t] = "done" => OnlyLate(t)'
      BY <1>b, <2>1
    <2>5. QED
      BY <1>c, <2>2, <2>3, <2>4 DEF LeakInv, Recording
  <1>11. CASE UNCHANGED vars
    BY <1>2, <1>11 DEF vars, tables, history
  <1>12. QED
    BY <1>1, <1>3, <1>4, <1>5, <1>6, <1>7, <1>8, <1>9, <1>10, <1>11 DEF Next, SweepStep

\* The second invariant and the leaks, in every reachable state.
LEMMA KeptInvariance == Spec => [](KInv /\ LeakInv)
  <1>1. Init => LeakInv
    <2> SUFFICES ASSUME Init PROVE LeakInv
      OBVIOUS
    <2>1. Legacy \subseteq Runs
      BY LegacyAssumption, BoundsAssumption DEF Runs
    <2>2. LeaksExplained
      BY <2>1, TestOfAssumption DEF Init, LeaksExplained, OfTest, Files
    <2>3. QED
      BY <2>1, <2>2, TestOfAssumption DEF Init, LeakInv, Recording
  <1>2. IInv /\ IInv' /\ KInv /\ LeakInv /\ [Next]_vars => (KInv /\ LeakInv)'
    BY AliveStep, CountStep, KeptStep, LeakStep DEF KInv
  <1>3. QED
    BY Invariance, KInit, <1>1, <1>2, PTL DEF Spec

\* The query with row numbers lists exactly the runs that the policy, said without
\* them, does not keep.
LEMMA QueryIsPolicy ==
  ASSUME TypeOK, NEW r \in rows
  PROVE  Outside(r, horizon) <=> ~Keeps(r)
  <1>1. /\ RowNumber(r) = Cardinality(Newer(r)) + 1
        /\ Newer(r) \in SUBSET Runs /\ Cardinality(Newer(r)) \in Nat
    BY RowNumberCounts DEF TypeOK
  <1>2. Newer(r) = {} <=> Cardinality(Newer(r)) = 0
    <2>1. IsFiniteSet(Newer(r))
      BY <1>1, RunSets
    <2>2. QED
      BY <2>1, FS_EmptySet
  <1>3. r \in Nat /\ horizon \in Nat
    BY BoundsAssumption DEF TypeOK, Runs
  <1>4. QED
    BY <1>1, <1>2, <1>3, PolicyAssumption DEF Outside, Keeps

\* No step removes a row that the policy keeps, except with its test.
LEMMA PruneStep ==
  ASSUME IInv, KInv, [Next]_vars, NEW r \in rows \ rows', TestOf[r] \in exists'
  PROVE  ~Keeps(r)
  <1>1. CASE DeleteRuns
    <2>1. r \in rows \cap Listed
      BY <1>1 DEF DeleteRuns, Listed
    <2>2. QED
      BY <2>1, ListedNotKept DEF IInv, KInv
  <1>2. ASSUME NEW t \in Tests, DeleteTest(t) PROVE FALSE
    BY <1>2 DEF DeleteTest, RunsOf
  <1>3. ASSUME rows \subseteq rows' PROVE FALSE
    BY <1>3
  <1>4. CASE Sweep \/ ListExpiredRuns \/ SweepEnds \/ BatchDone \/ DeleteRunsFails
    BY <1>3, <1>4 DEF Sweep, ListExpiredRuns, SweepEnds, BatchDone, DeleteRunsFails, tables
  <1>5. ASSUME NEW q \in Runs, DeleteStorage(q) \/ DeleteStorageFails(q) PROVE FALSE
    BY <1>3, <1>5 DEF DeleteStorage, DeleteStorageFails, tables
  <1>6. ASSUME NEW q \in Runs, Handler(q) PROVE FALSE
    BY <1>3, <1>6 DEF Handler, Execute, UploadLog, Create, CreateFails, UploadShot,
       CreateShot, tables
  <1>7. ASSUME NEW t \in Tests, DeleteFiles(t) PROVE FALSE
    BY <1>3, <1>7 DEF DeleteFiles, tables
  <1>8. CASE Age \/ Crash \/ UNCHANGED vars
    BY <1>3, <1>8 DEF Age, Crash, vars, tables
  <1>9. QED
    BY <1>1, <1>2, <1>4, <1>5, <1>6, <1>7, <1>8 DEF Next, SweepStep

-----------------------------------------------------------------------------
(* The properties. *)

\* Every state is well typed, for every policy and batch size.
THEOREM TypeCorrect == Spec => []TypeOK
  <1>1. IInv => TypeOK
    BY DEF IInv
  <1>2. QED
    BY Invariance, <1>1, PTL

\* Whatever runs are recorded while the sweeper works from its list, and whatever
\* deletions fail, it never removes the last row of a test.
THEOREM NewestIsKept == Spec => []NewestKept
  <1>1. IInv => NewestKept
    BY DEF IInv
  <1>2. QED
    BY Invariance, <1>1, PTL

\* Nothing of a pruned run is left in storage, unless its handler was still
\* recording it: removing the objects first is enough, through failures, retries
\* and crashes.
THEOREM NoFilesLeft == Spec => []PrunedLeavesNothing
  <1>1. IInv => PrunedLeavesNothing
    BY DEF IInv, EmptyInv, PrunedLeavesNothing
  <1>2. QED
    BY Invariance, <1>1, PTL

\* A run the policy keeps has its log and screenshots, whatever the sweeper lists,
\* removes half-way or retries while runs are recorded: the runs it takes are never
\* among those that later listings would keep.
THEOREM KeptIsIntact == Spec => []KeptRunsIntact
  <1>1. KInv => KeptRunsIntact
    BY DEF KInv, KeptInv, Intact, KeptRunsIntact
  <1>2. QED
    BY KeptInvariance, <1>1, PTL

\* Storage leaks only through the windows named in LeaksExplained.
THEOREM NoOtherLeaks == Spec => []LeaksExplained
  <1>1. LeakInv => LeaksExplained
    BY DEF LeakInv
  <1>2. QED
    BY KeptInvariance, <1>1, PTL

\* The sweeper's query finds, in every reachable state, exactly the runs outside the
\* policy: ROW_NUMBER() counts what Newer counts, and a row numbered one is the newest.
THEOREM QueryFindsExpired == Spec => [](\A r \in rows : Outside(r, horizon) <=> ~Keeps(r))
  <1>1. IInv => \A r \in rows : Outside(r, horizon) <=> ~Keeps(r)
    BY QueryIsPolicy DEF IInv
  <1>2. QED
    BY Invariance, <1>1, PTL

\* The row of a test that is still there goes only in a step at whose start the policy
\* does not keep the run, whatever happened since the run was listed.
THEOREM OnlyExpiredPruned == Spec => PrunesOnlyExpired
  <1>1. IInv /\ KInv /\ [Next]_vars
          => [\A r \in rows \ rows' : TestOf[r] \in exists' => ~Keeps(r)]_vars
    BY PruneStep
  <1>2. QED
    BY Invariance, KeptInvariance, <1>1, PTL DEF Spec, PrunesOnlyExpired
=============================================================================
