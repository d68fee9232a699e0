--------------------------- MODULE SchedulerProofs ---------------------------
(* Proofs of the scheduler's safety properties for any number of tests,
   configuration requests, cron expressions and instants. *)
EXTENDS Scheduler, WellFoundedInduction, TLAPS

\* The tests of the current tick that are not done yet.
Held(t) == t \in due \/ (spc # "idle" /\ cur = t)

\* The test being fired has been taken off the list, and what was listed was due when
\* the tick began.
ListInv ==
    /\ spc # "idle" => cur \notin due
    /\ now <= clock
    /\ \A t \in Tests : Held(t) =>
          lnext[t] # Null /\ lnext[t] <= now /\ lcron[t] \in Crons

\* Between HasActiveJob and Enqueue no other scheduled job can appear.
OverlapInv ==
    /\ OneScheduledRun
    /\ spc = "enqueue" => sched[cur] = 0

\* A row that can fire, as the table or a request in progress holds it.
Live(r) == r.enabled => r.cron # NoCron /\ r.next # Null

\* Requests only ever write rows that can fire if they are enabled, and a deleted
\* test has no next run.
RowInv ==
    /\ \A t \in Tests : Live(row[t])
    /\ \A t \in Tests : t \notin exists => row[t].next = Null
    /\ \A c \in Clients : Live(cnew[c])

\* fire moves past times the tick has seen go by.
MovedInv ==
    \A t \in Tests : \A k \in moved[t] :
        k <= clock /\ (due # {} \/ spc # "idle" => k <= now)

\* A time stands while the row or the tick's list still holds it, and is being fired
\* once next_run_at was moved on.
Standing(t, k) ==
    row[t].next = k \/ (lnext[t] = k /\ (t \in due \/ (spc = "update" /\ cur = t)))
Firing(t, k) == spc \in {"check", "enqueue"} /\ cur = t /\ lnext[t] = k

One(b) == IF b THEN 1 ELSE 0

\* A time has one run to its name, which it still stands for, is being fired for, or
\* has used up, and one more for every write that put it back; before fire has moved
\* past it, it has not been used.
OccurrenceInv ==
    \A t \in Tests, k \in Times :
        /\ runs[t][k] + One(Standing(t, k)) + One(Firing(t, k)) <= 1 + putback[t][k]
        /\ k \notin moved[t] => runs[t][k] = 0 /\ ~Firing(t, k)

\* Only a disabled test has had a late run, and none that the scheduler still has
\* in hand.
LateInv ==
    \A t \in Tests : t \in exists =>
        /\ late[t] <= 1
        /\ row[t].enabled => late[t] = 0
        /\ Held(t) => late[t] = 0

IInv == TypeOK /\ ListInv /\ OverlapInv /\ RowInv /\ MovedInv /\ OccurrenceInv /\ LateInv

-----------------------------------------------------------------------------
(* Times. *)

\* Every non-empty set of instants has a first one.
LEMMA FirstTime ==
  ASSUME NEW S \in SUBSET Times, S # {}
  PROVE  \E k \in S : \A m \in S : k <= m
  <1>1. S \subseteq Nat
    BY BoundsAssumption DEF Times
  <1>2. PICK k \in S : \A m \in S : ~(<<m, k>> \in OpToRel(<, Nat))
    BY <1>1, NatLessThanWellFounded, WFMin
  <1>3. \A m \in S : ~(m < k)
    BY <1>1, <1>2 DEF OpToRel
  <1>4. QED
    BY <1>1, <1>3

\* NextRun is the zero time or a time after the one it starts from.
LEMMA NextRunAfter ==
  ASSUME NEW c \in Crons, NEW f \in Nat
  PROVE  /\ NextRun(c, f) \in Times \cup {Zero}
         /\ NextRun(c, f) # Null
         /\ NextRun(c, f) \in Times => NextRun(c, f) > f
  <1> DEFINE after == {k \in Matches[c] : k > f}
  <1>1. after \in SUBSET Times /\ Times \subseteq Nat /\ Zero \notin Times /\ Zero \in Nat
    BY CronAssumption, BoundsAssumption DEF Times, Zero
  <1>2. CASE after = {}
    BY <1>1, <1>2, BoundsAssumption DEF NextRun
  <1>3. CASE after # {}
    <2>1. \E k \in after : \A m \in after : k <= m
      <3> HIDE DEF after
      <3> QED BY <1>1, <1>3, FirstTime
    <2>2. NextRun(c, f) \in after
      BY <1>3, <2>1 DEF NextRun
    <2>3. QED
      BY <1>1, <2>2, BoundsAssumption
  <1>4. QED
    BY <1>2, <1>3

\* The rows requests compute are rows, and can fire if they are enabled.
LEMMA NewRowLive ==
  ASSUME NEW e \in BOOLEAN, NEW c \in Crons \cup {NoCron}, e => c # NoCron, clock \in Nat
  PROVE  NewRow(e, c) \in Row /\ Live(NewRow(e, c))
  <1>1. CASE e /\ c # NoCron
    <2>1. NextRun(c, clock) \in Times \cup {Zero} /\ NextRun(c, clock) # Null
      BY <1>1, NextRunAfter
    <2>2. QED
      BY <1>1, <2>1 DEF NewRow, Row, Live, NextRunAt
  <1>2. CASE ~e
    BY <1>2 DEF NewRow, Row, Live, NextRunAt
  <1>3. QED
    BY <1>1, <1>2

\* Writing one row's next_run_at leaves every row well formed.
LEMMA RowUpdate ==
  ASSUME NEW r \in [Tests -> Row], NEW t \in Tests, NEW n \in NextRunAt
  PROVE  /\ [r EXCEPT ![t].next = n] \in [Tests -> Row]
         /\ [r EXCEPT ![t].next = n][t] = [r[t] EXCEPT !.next = n]
         /\ [r[t] EXCEPT !.next = n].next = n
         /\ [r[t] EXCEPT !.next = n].enabled = r[t].enabled
         /\ [r[t] EXCEPT !.next = n].cron = r[t].cron
         /\ \A x \in Tests : x # t => [r EXCEPT ![t].next = n][x] = r[x]
  <1>1. [r[t] EXCEPT !.next = n] \in Row
    BY DEF Row
  <1>2. QED
    BY <1>1 DEF Row

\* A step that uses no time and adds none to those that stand keeps the account.
LEMMA OccurrenceKept ==
  ASSUME TypeOK, OccurrenceInv, UNCHANGED <<moved, runs, putback>>,
         \A t \in Tests, k \in Times :
            (Standing(t, k)' => Standing(t, k)) /\ (Firing(t, k)' => Firing(t, k))
  PROVE  OccurrenceInv'
  <1> SUFFICES ASSUME NEW t \in Tests, NEW k \in Times
               PROVE  (/\ runs[t][k] + One(Standing(t, k)) + One(Firing(t, k)) <= 1 + putback[t][k]
                       /\ k \notin moved[t] => runs[t][k] = 0 /\ ~Firing(t, k))'
    BY DEF OccurrenceInv
  <1>1. /\ runs[t][k] + One(Standing(t, k)) + One(Firing(t, k)) <= 1 + putback[t][k]
        /\ k \notin moved[t] => runs[t][k] = 0 /\ ~Firing(t, k)
    BY DEF OccurrenceInv
  <1>2. runs[t][k] \in Nat /\ putback[t][k] \in Nat
    BY DEF TypeOK
  <1>3. /\ runs'[t][k] = runs[t][k] /\ putback'[t][k] = putback[t][k] /\ moved'[t] = moved[t]
        /\ Standing(t, k)' => Standing(t, k)
        /\ Firing(t, k)' => Firing(t, k)
    OBVIOUS
  <1>4. One(Standing(t, k))' <= One(Standing(t, k)) /\ One(Firing(t, k))' <= One(Firing(t, k))
    BY <1>3 DEF One
  <1>5. /\ One(Standing(t, k)) \in Nat /\ One(Firing(t, k)) \in Nat
        /\ One(Standing(t, k))' \in Nat /\ One(Firing(t, k))' \in Nat
    BY DEF One
  <1>6. QED
    BY <1>1, <1>2, <1>3, <1>4, <1>5

-----------------------------------------------------------------------------

\* The initial states satisfy the invariant.
LEMMA InitInv == Init => IInv
  <1> SUFFICES ASSUME Init PROVE IInv
    OBVIOUS
  <1>1. Blank \in Row /\ Live(Blank) /\ clock \in Nat
    BY DEF Blank, Row, Live, NextRunAt, Init
  <1>2. \A t \in Tests : row[t] \in Row /\ Live(row[t])
    <2>1. \A k \in Crons : NewRow(TRUE, k) \in Row /\ Live(NewRow(TRUE, k))
      BY <1>1, NewRowLive, CronAssumption
    <2>2. row \in [Tests -> {NewRow(TRUE, k) : k \in Crons} \cup {Blank}]
      BY DEF Init
    <2>3. QED
      BY <1>1, <2>1, <2>2
  <1>3. TypeOK
    <2>1. row \in [Tests -> Row] /\ cnew \in [Clients -> Row]
      BY <1>1, <1>2 DEF Init
    <2>2. paused \in BOOLEAN /\ lnext \in [Tests -> NextRunAt]
      BY DEF Init, NextRunAt
    <2>3. QED
      BY <2>1, <2>2 DEF Init, TypeOK
  <1>4. RowInv
    BY <1>1, <1>2 DEF Init, RowInv
  <1>5. ListInv /\ OverlapInv /\ MovedInv
    BY DEF Init, ListInv, Held, OverlapInv, OneScheduledRun, MovedInv
  <1>6. OccurrenceInv
    BY DEF Init, OccurrenceInv, Firing, One
  <1>7. LateInv
    BY DEF Init, LateInv
  <1>8. QED
    BY <1>3, <1>4, <1>5, <1>6, <1>7 DEF IInv

\* The clock, manual runs, the end of jobs and deletes keep the invariant.
LEMMA EnvironmentInv ==
  ASSUME IInv, Elapse \/ \E t \in Tests : Run(t) \/ JobEnds(t) \/ DeleteTest(t)
  PROVE  IInv'
  <1> USE DEF IInv, TypeOK, jobs, listed, scheduler, requests, history
  <1>1. CASE Elapse
    <2> USE DEF Elapse
    <2>1. TypeOK' /\ OverlapInv' /\ RowInv'
      BY <1>1 DEF OverlapInv, OneScheduledRun, RowInv, Live
    <2>2. ListInv'
      BY <1>1 DEF ListInv, Held
    <2>3. MovedInv'
      BY <1>1, BoundsAssumption DEF MovedInv, Times
    <2>4. OccurrenceInv'
      BY <1>1, OccurrenceKept DEF Standing, Firing
    <2>5. LateInv'
      BY <1>1 DEF LateInv, Held
    <2>6. QED
      BY <2>1, <2>2, <2>3, <2>4, <2>5
  <1>2. ASSUME NEW t \in Tests, Run(t) PROVE IInv'
    <2> USE DEF Run
    <2>1. TypeOK' /\ OverlapInv' /\ RowInv'
      BY <1>2 DEF OverlapInv, OneScheduledRun, RowInv, Live
    <2>2. ListInv' /\ MovedInv' /\ LateInv'
      BY <1>2 DEF ListInv, Held, MovedInv, LateInv
    <2>3. OccurrenceInv'
      BY <1>2, OccurrenceKept DEF Standing, Firing
    <2>4. QED
      BY <2>1, <2>2, <2>3
  <1>3. ASSUME NEW t \in Tests, JobEnds(t) PROVE IInv'
    <2> USE DEF JobEnds
    <2>1. /\ sched' \in [Tests -> Nat] /\ manual' \in [Tests -> Nat]
          /\ \A x \in Tests : sched'[x] <= sched[x]
      <3>1. CASE sched[t] > 0 /\ sched' = [sched EXCEPT ![t] = @ - 1] /\ UNCHANGED manual
        BY <3>1
      <3>2. CASE manual[t] > 0 /\ manual' = [manual EXCEPT ![t] = @ - 1] /\ UNCHANGED sched
        BY <3>2
      <3>3. QED
        BY <1>3, <3>1, <3>2
    <2>2. TypeOK' /\ RowInv'
      BY <1>3, <2>1 DEF RowInv, Live
    <2>3. OverlapInv'
      BY <1>3, <2>1 DEF OverlapInv, OneScheduledRun
    <2>4. ListInv' /\ MovedInv' /\ LateInv'
      BY <1>3 DEF ListInv, Held, MovedInv, LateInv
    <2>5. OccurrenceInv'
      BY <1>3, OccurrenceKept DEF Standing, Firing
    <2>6. QED
      BY <2>2, <2>3, <2>4, <2>5
  <1>4. ASSUME NEW t \in Tests, DeleteTest(t) PROVE IInv'
    <2> USE DEF DeleteTest
    <2>1. Blank \in Row /\ Live(Blank) /\ Blank.next = Null
      BY DEF Blank, Row, Live, NextRunAt
    <2>2. row' \in [Tests -> Row] /\ \A x \in Tests : row'[x] = IF x = t THEN Blank ELSE row[x]
      BY <1>4, <2>1
    <2>3. TypeOK'
      BY <1>4, <2>2
    <2>4. RowInv'
      BY <1>4, <2>1, <2>2 DEF RowInv, Live
    <2>5. OverlapInv'
      BY <1>4 DEF OverlapInv, OneScheduledRun
    <2>6. ListInv' /\ MovedInv'
      BY <1>4 DEF ListInv, Held, MovedInv
    <2>7. LateInv'
      BY <1>4, <2>2 DEF LateInv, Held
    <2>8. OccurrenceInv'
      <3>1. \A x \in Tests, k \in Times : row'[x].next = k => row[x].next = k
        <4>1. Null \notin Times
          BY BoundsAssumption DEF Times
        <4>2. QED
          BY <2>1, <2>2, <4>1
      <3>2. QED
        BY <1>4, <3>1, OccurrenceKept DEF Standing, Firing
    <2>9. QED
      BY <2>3, <2>4, <2>5, <2>6, <2>7, <2>8
  <1>5. QED
    BY <1>1, <1>2, <1>3, <1>4

\* What is listed was due at the time of the tick.
LEMMA TickInv == IInv /\ Tick => IInv'
  <1> SUFFICES ASSUME IInv, Tick PROVE IInv'
    OBVIOUS
  <1> USE DEF IInv, TypeOK, jobs, listed, scheduler, requests, history, Tick
  <1>1. TypeOK'
    <2>1. lcron' \in [Tests -> Crons \cup {NoCron}]
      BY DEF Row
    <2>2. lnext' \in [Tests -> NextRunAt]
      BY DEF Row, NextRunAt
    <2>3. QED
      BY <2>1, <2>2
  <1>2. ListInv'
    BY DEF ListInv, Held, IsDue, Row
  <1>3. OverlapInv' /\ RowInv'
    BY DEF OverlapInv, OneScheduledRun, RowInv, Live
  <1>4. MovedInv'
    BY BoundsAssumption DEF MovedInv, Times
  <1>5. OccurrenceInv'
    <2>1. \A t \in Tests, k \in Times : (Standing(t, k)' => Standing(t, k)) /\ ~Firing(t, k)'
      BY BoundsAssumption DEF Standing, Firing, Times
    <2>2. QED
      BY <2>1, OccurrenceKept
  <1>6. LateInv'
    BY DEF LateInv, Held, IsDue
  <1>7. QED
    BY <1>1, <1>2, <1>3, <1>4, <1>5, <1>6

\* Moving next_run_at on: the time it moves to lies after the tick, so it is new.
LEMMA UpdateInv == IInv /\ UpdateNextRunAt => IInv'
  <1> SUFFICES ASSUME IInv, UpdateNextRunAt PROVE IInv'
    OBVIOUS
  <1> USE DEF IInv, TypeOK, jobs, listed, scheduler, requests, history, UpdateNextRunAt
  <1> DEFINE n == NextRun(lcron[cur], now)
  <1>1. Held(cur) /\ lnext[cur] # Null /\ lnext[cur] <= now /\ lcron[cur] \in Crons
    BY DEF ListInv, Held
  <1>2. n \in Times \cup {Zero} /\ n # Null /\ (n \in Times => n > now)
    BY <1>1, NextRunAfter
  <1>3. row' = IF cur \in exists THEN [row EXCEPT ![cur].next = n] ELSE row
    OBVIOUS
  <1> HIDE DEF n
  <1>4. n \in NextRunAt
    BY <1>2 DEF NextRunAt
  <1>5. row' \in [Tests -> Row]
    <2>1. CASE cur \in exists
      <3>1. row' = [row EXCEPT ![cur].next = n] /\ row \in [Tests -> Row] /\ cur \in Tests
        BY <1>3, <2>1
      <3>2. QED
        BY ONLY <1>4, <3>1, RowUpdate
    <2>2. CASE cur \notin exists
      BY <1>3, <2>2
    <2>3. QED
      BY <2>1, <2>2
  <1>6. \A t \in Tests : /\ row'[t].enabled = row[t].enabled /\ row'[t].cron = row[t].cron
                         /\ row'[t].next = IF t = cur /\ cur \in exists THEN n ELSE row[t].next
    <2>1. CASE cur \in exists
      <3>1. row' = [row EXCEPT ![cur].next = n] /\ row \in [Tests -> Row] /\ cur \in Tests
        BY <1>3, <2>1
      <3>2. QED
        BY ONLY <1>4, <2>1, <3>1, RowUpdate
    <2>2. CASE cur \notin exists
      BY <1>3, <2>2
    <2>3. QED
      BY <2>1, <2>2
  <1>7. moved' \in [Tests -> SUBSET Times]
    OBVIOUS
  <1>8. TypeOK'
    BY <1>5, <1>7
  <1>9. ListInv'
    BY DEF ListInv, Held
  <1>10. OverlapInv'
    BY DEF OverlapInv, OneScheduledRun
  <1>11. RowInv'
    BY <1>2, <1>6 DEF RowInv, Live
  <1>12. MovedInv'
    <2> SUFFICES ASSUME NEW t \in Tests, NEW k \in moved'[t]
                 PROVE  k <= clock' /\ k <= now'
      BY DEF MovedInv
    <2>1. k \in moved[t] \/ k = lnext[cur]
      OBVIOUS
    <2>2. QED
      BY <1>1, <1>7, <2>1, BoundsAssumption DEF MovedInv, ListInv, Times
  <1>13. LateInv'
    BY <1>6 DEF LateInv, Held
  <1>14. OccurrenceInv'
    <2> SUFFICES ASSUME NEW t \in Tests, NEW k \in Times
                 PROVE  (/\ runs[t][k] + One(Standing(t, k)) + One(Firing(t, k)) <= 1 + putback[t][k]
                         /\ k \notin moved[t] => runs[t][k] = 0 /\ ~Firing(t, k))'
      BY DEF OccurrenceInv
    <2>1. /\ runs[t][k] + One(Standing(t, k)) + One(Firing(t, k)) <= 1 + putback[t][k]
          /\ k \notin moved[t] => runs[t][k] = 0 /\ ~Firing(t, k)
      BY DEF OccurrenceInv
    <2>2. runs[t][k] \in Nat /\ putback[t][k] \in Nat /\ k \in Nat
      BY BoundsAssumption DEF Times
    <2>3. runs'[t][k] = runs[t][k] /\ putback'[t][k] = putback[t][k] /\ moved[t] \subseteq moved'[t]
      OBVIOUS
    <2>4. CASE t # cur
      <3>1. (Standing(t, k)' <=> Standing(t, k)) /\ ~Firing(t, k)' /\ ~Firing(t, k)
        BY <1>6, <2>4 DEF Standing, Firing
      <3>2. QED
        BY <2>1, <2>2, <2>3, <3>1 DEF One
    <2>5. CASE t = cur /\ lnext[t] = k
      <3>1. Standing(t, k) /\ ~Firing(t, k)
        BY <2>5 DEF Standing, Firing
      <3>2. k <= now /\ row'[t].next # k
        <4>1. k <= now
          BY <1>1, <2>5
        <4>2. CASE cur \in exists
          <5>1. row'[t].next = n
            BY <1>6, <2>5, <4>2
          <5>2. n # k
            BY <1>2, <2>2, <4>1, BoundsAssumption DEF Times, Zero
          <5>3. QED
            BY <4>1, <5>1, <5>2
        <4>3. CASE cur \notin exists
          BY <1>6, <2>2, <2>5, <4>1, <4>3, BoundsAssumption DEF RowInv
        <4>4. QED
          BY <4>2, <4>3
      <3>3. ~Standing(t, k)' /\ Firing(t, k)' /\ k \in moved'[t]
        BY <2>5, <3>2 DEF Standing, Firing, ListInv
      <3>4. QED
        BY <2>1, <2>2, <2>3, <3>1, <3>3 DEF One
    <2>6. CASE t = cur /\ lnext[t] # k /\ row'[t].next = k /\ row[t].next # k
      <3>1. k = n /\ k > now
        BY <1>2, <1>6, <2>6
      <3>2. k \notin moved[t]
        BY <2>2, <3>1 DEF MovedInv
      <3>3. runs[t][k] = 0 /\ ~Firing(t, k)'
        BY <2>1, <2>6, <3>2 DEF Firing
      <3>4. QED
        BY <2>2, <2>3, <3>3 DEF One
    <2>7. CASE t = cur /\ lnext[t] # k /\ (row'[t].next = k => row[t].next = k)
      <3>1. (Standing(t, k)' => Standing(t, k)) /\ ~Firing(t, k)'
        BY <2>7 DEF Standing, Firing
      <3>2. QED
        BY <2>1, <2>2, <2>3, <3>1 DEF One
    <2>8. QED
      BY <2>4, <2>5, <2>6, <2>7
  <1>15. QED
    BY <1>8, <1>9, <1>10, <1>11, <1>12, <1>13, <1>14

\* A run uses up the time it was listed for.
LEMMA EnqueueInv == IInv /\ Enqueue => IInv'
  <1> SUFFICES ASSUME IInv, Enqueue PROVE IInv'
    OBVIOUS
  <1> USE DEF IInv, TypeOK, jobs, listed, scheduler, requests, history, Enqueue, FireReturns
  <1>1. Held(cur) /\ lnext[cur] # Null
    BY DEF ListInv, Held
  <1>2. lnext[cur] \in Times \cup {Zero}
    BY <1>1 DEF NextRunAt
  <1>3. \A t \in Tests, k \in Times :
           runs'[t][k] = IF t = cur /\ k = lnext[cur] THEN runs[t][k] + 1 ELSE runs[t][k]
    <2>1. CASE lnext[cur] = Zero
      <3>1. \A k \in Times : k # lnext[cur]
        BY <2>1 DEF Zero, Times
      <3>2. QED
        BY <2>1, <3>1
    <2>2. CASE lnext[cur] # Zero
      <3>1. runs' = [runs EXCEPT ![cur][lnext[cur]] = @ + 1] /\ lnext[cur] \in Times
        BY <1>2, <2>2
      <3>2. QED
        BY <3>1
    <2>3. QED
      BY <2>1, <2>2
  <1>4. runs' \in [Tests -> [Times -> Nat]]
    BY <1>2
  <1>5. TypeOK'
    <2>1. late' \in [Tests -> Nat] /\ sched' \in [Tests -> Nat]
      OBVIOUS
    <2>2. lnext' \in [Tests -> NextRunAt] /\ lcron' \in [Tests -> Crons \cup {NoCron}]
      BY DEF NextRunAt
    <2>3. QED
      BY <1>4, <2>1, <2>2
  <1>6. ListInv' /\ MovedInv'
    BY DEF ListInv, Held, MovedInv
  <1>7. OverlapInv' /\ RowInv'
    BY DEF OverlapInv, OneScheduledRun, RowInv, Live
  <1>8. LateInv'
    BY DEF LateInv, Held, ListInv
  <1>9. OccurrenceInv'
    <2> SUFFICES ASSUME NEW t \in Tests, NEW k \in Times
                 PROVE  (/\ runs[t][k] + One(Standing(t, k)) + One(Firing(t, k)) <= 1 + putback[t][k]
                         /\ k \notin moved[t] => runs[t][k] = 0 /\ ~Firing(t, k))'
      BY DEF OccurrenceInv
    <2>1. /\ runs[t][k] + One(Standing(t, k)) + One(Firing(t, k)) <= 1 + putback[t][k]
          /\ k \notin moved[t] => runs[t][k] = 0 /\ ~Firing(t, k)
      BY DEF OccurrenceInv
    <2>2. runs[t][k] \in Nat /\ putback[t][k] \in Nat
      OBVIOUS
    <2>3. Firing(t, k) <=> t = cur /\ k = lnext[cur]
      BY DEF Firing
    <2>4. ~Firing(t, k)' /\ (Standing(t, k)' => Standing(t, k))
      <3>1. lnext'[t] = k => lnext[t] = k
        BY BoundsAssumption DEF Times
      <3>2. QED
        BY <3>1 DEF Firing, Standing
    <2>5. QED
      BY <1>3, <2>1, <2>2, <2>3, <2>4 DEF One
  <1>10. QED
    BY <1>5, <1>6, <1>7, <1>8, <1>9

\* fire giving up on its test keeps the invariant.
LEMMA ReturnInv ==
  ASSUME IInv, spc # "idle", FireReturns,
         UNCHANGED <<exists, row, jobs, paused, due, cur, requests, clock, history>>
  PROVE  IInv'
  <1> USE DEF IInv, TypeOK, jobs, listed, scheduler, requests, history, FireReturns
  <1>1. TypeOK'
    BY DEF NextRunAt
  <1>2. ListInv' /\ MovedInv'
    BY DEF ListInv, Held, MovedInv
  <1>3. OverlapInv' /\ RowInv'
    BY DEF OverlapInv, OneScheduledRun, RowInv, Live
  <1>4. OccurrenceInv'
    <2>1. \A t \in Tests, k \in Times : lnext'[t] = k => lnext[t] = k
      BY BoundsAssumption DEF Times
    <2>2. QED
      BY <2>1, OccurrenceKept DEF Standing, Firing
  <1>5. LateInv'
    BY DEF LateInv, Held
  <1>6. QED
    BY <1>1, <1>2, <1>3, <1>4, <1>5

\* The scheduler goroutine keeps the invariant.
LEMMA SchedulerInv ==
  ASSUME IInv, (\E t \in Tests : Fire(t)) \/ Tick \/ FireStep \/ Pause \/ Resume \/ Crash
  PROVE  IInv'
  <1> USE DEF jobs, listed, scheduler, requests, history
  <1>1. ASSUME NEW t \in Tests, Fire(t) PROVE IInv'
    <2> USE DEF IInv, TypeOK, Fire
    <2>1. TypeOK' /\ OverlapInv' /\ RowInv'
      BY <1>1 DEF OverlapInv, OneScheduledRun, RowInv, Live
    <2>2. ListInv' /\ MovedInv' /\ LateInv'
      BY <1>1 DEF ListInv, Held, MovedInv, LateInv
    <2>3. OccurrenceInv'
      BY <1>1, OccurrenceKept DEF Standing, Firing
    <2>4. QED
      BY <2>1, <2>2, <2>3
  <1>2. CASE HasActiveJob /\ spc' = "enqueue"
    <2> USE DEF IInv, TypeOK, HasActiveJob, FireReturns
    <2>1. sched[cur] = 0 /\ UNCHANGED listed
      BY <1>2
    <2>2. TypeOK' /\ OverlapInv' /\ RowInv'
      BY <1>2, <2>1 DEF OverlapInv, OneScheduledRun, RowInv, Live
    <2>3. ListInv' /\ MovedInv' /\ LateInv'
      BY <1>2, <2>1 DEF ListInv, Held, MovedInv, LateInv
    <2>4. OccurrenceInv'
      BY <1>2, <2>1, OccurrenceKept DEF Standing, Firing
    <2>5. QED
      BY <2>2, <2>3, <2>4
  <1>3. CASE HasActiveJob /\ spc' # "enqueue"
    BY <1>3, ReturnInv DEF HasActiveJob
  <1>4. CASE FireFails
    BY <1>4, ReturnInv DEF FireFails
  <1>5. CASE Pause \/ Resume
    <2> USE DEF IInv, TypeOK, Pause, Resume
    <2>1. TypeOK' /\ OverlapInv' /\ RowInv'
      BY <1>5 DEF OverlapInv, OneScheduledRun, RowInv, Live
    <2>2. ListInv' /\ MovedInv' /\ LateInv'
      BY <1>5 DEF ListInv, Held, MovedInv, LateInv
    <2>3. OccurrenceInv'
      BY <1>5, OccurrenceKept DEF Standing, Firing
    <2>4. QED
      BY <2>1, <2>2, <2>3
  <1>6. CASE Crash
    <2> USE DEF IInv, TypeOK, Crash
    <2>1. Blank \in Row /\ Live(Blank) /\ Null \in NextRunAt
      BY DEF Blank, Row, Live, NextRunAt
    <2>2. TypeOK' /\ OverlapInv'
      BY <1>6, <2>1 DEF OverlapInv, OneScheduledRun
    <2>3. RowInv'
      BY <1>6, <2>1 DEF RowInv, Live
    <2>4. ListInv' /\ MovedInv' /\ LateInv'
      BY <1>6 DEF ListInv, Held, MovedInv, LateInv
    <2>5. OccurrenceInv'
      BY <1>6, OccurrenceKept DEF Standing, Firing
    <2>6. QED
      BY <2>2, <2>3, <2>4, <2>5
  <1>7. QED
    BY <1>1, <1>2, <1>3, <1>4, <1>5, <1>6, TickInv, UpdateInv, EnqueueInv DEF FireStep

\* A request that is about to write a row that can fire keeps the invariant.
LEMMA ReadInv ==
  ASSUME IInv, NEW c \in Clients, NEW t \in Tests, NEW new \in Row, Live(new), Read(c, t, new)
  PROVE  IInv'
  <1> USE DEF IInv, TypeOK, jobs, listed, scheduler, requests, history, Read
  <1>1. TypeOK' /\ OverlapInv'
    BY DEF OverlapInv, OneScheduledRun
  <1>2. RowInv'
    BY DEF RowInv, Live
  <1>3. ListInv' /\ MovedInv' /\ LateInv'
    BY DEF ListInv, Held, MovedInv, LateInv
  <1>4. OccurrenceInv'
    BY OccurrenceKept DEF Standing, Firing
  <1>5. QED
    BY <1>1, <1>2, <1>3, <1>4

\* Writing the row, and giving up, keep the invariant: a time that is put back is
\* counted, and any other one that is written has not been used.
LEMMA WriteInv ==
  ASSUME IInv, NEW c \in Clients, UpdateConfig(c) \/ AbortRequest(c)
  PROVE  IInv'
  <1> USE DEF IInv, TypeOK, jobs, listed, scheduler, requests, history
  <1>1. Blank \in Row /\ Live(Blank)
    BY DEF Blank, Row, Live, NextRunAt
  <1>2. CASE AbortRequest(c) \/ (UpdateConfig(c) /\ ctest[c] \notin exists)
    <2> USE DEF AbortRequest, UpdateConfig, Answer
    <2>1. UNCHANGED <<exists, row, jobs, paused, scheduler, clock, history>>
      BY <1>2
    <2>2. /\ cpc' \in [Clients -> {"idle", "write"}] /\ ctest' = ctest
          /\ cnew' = [cnew EXCEPT ![c] = Blank]
      BY <1>2
    <2>3. TypeOK' /\ OverlapInv'
      BY <1>1, <2>1, <2>2 DEF OverlapInv, OneScheduledRun
    <2>4. RowInv'
      BY <1>1, <2>1, <2>2 DEF RowInv, Live
    <2>5. ListInv' /\ MovedInv' /\ LateInv'
      BY <2>1 DEF ListInv, Held, MovedInv, LateInv
    <2>6. OccurrenceInv'
      BY <2>1, OccurrenceKept DEF Standing, Firing
    <2>7. QED
      BY <2>3, <2>4, <2>5, <2>6
  <1>3. CASE UpdateConfig(c) /\ ctest[c] \in exists
    <2> USE DEF UpdateConfig, Answer
    <2> DEFINE u == ctest[c]
               n == cnew[c].next
    <2>1. /\ u \in Tests /\ cnew[c] \in Row /\ n \in NextRunAt
          /\ row' = [row EXCEPT ![u] = cnew[c]]
          /\ putback' = IF n \in moved[u] THEN [putback EXCEPT ![u][n] = @ + 1] ELSE putback
          /\ late' = [late EXCEPT ![u] = IF cnew[c].enabled THEN 0 ELSE @]
          /\ UNCHANGED <<exists, jobs, paused, scheduler, clock, moved, runs>>
      BY <1>3 DEF Row
    <2>2. \A t \in Tests, k \in Times :
             putback'[t][k] = IF t = u /\ k = n /\ n \in moved[u]
                              THEN putback[t][k] + 1 ELSE putback[t][k]
      BY <2>1
    <2>3. putback' \in [Tests -> [Times -> Nat]]
      <3>1. CASE n \in moved[u]
        BY <2>1, <3>1
      <3>2. CASE n \notin moved[u]
        BY <2>1, <3>2
      <3>3. QED
        BY <3>1, <3>2
    <2>4. TypeOK'
      <3>1. row' \in [Tests -> Row] /\ late' \in [Tests -> Nat]
        BY <2>1
      <3>2. cpc' \in [Clients -> {"idle", "write"}] /\ cnew' \in [Clients -> Row] /\ ctest' = ctest
        BY <1>1, <1>3
      <3>3. QED
        BY <2>1, <2>3, <3>1, <3>2
    <2>5. OverlapInv'
      BY <2>1 DEF OverlapInv, OneScheduledRun
    <2>6. RowInv'
      BY <1>1, <1>3, <2>1 DEF RowInv, Live
    <2>7. ListInv' /\ MovedInv'
      BY <2>1 DEF ListInv, Held, MovedInv
    <2>8. LateInv'
      BY <2>1 DEF LateInv, Held
    <2>9. OccurrenceInv'
      <3> SUFFICES ASSUME NEW t \in Tests, NEW k \in Times
                   PROVE  (/\ runs[t][k] + One(Standing(t, k)) + One(Firing(t, k)) <= 1 + putback[t][k]
                           /\ k \notin moved[t] => runs[t][k] = 0 /\ ~Firing(t, k))'
        BY DEF OccurrenceInv
      <3>1. /\ runs[t][k] + One(Standing(t, k)) + One(Firing(t, k)) <= 1 + putback[t][k]
            /\ k \notin moved[t] => runs[t][k] = 0 /\ ~Firing(t, k)
        BY DEF OccurrenceInv
      <3>2. runs[t][k] \in Nat /\ putback[t][k] \in Nat
        OBVIOUS
      <3>3. runs'[t][k] = runs[t][k] /\ moved'[t] = moved[t] /\ (Firing(t, k)' <=> Firing(t, k))
        BY <2>1 DEF Firing
      <3>4. CASE t = u /\ k = n /\ k \in moved[t]
        <4>1. putback'[t][k] = putback[t][k] + 1
          BY <2>2, <3>4
        <4>2. QED
          BY <3>1, <3>2, <3>3, <3>4, <4>1 DEF One
      <3>5. CASE t = u /\ k = n /\ k \notin moved[t]
        <4>1. putback'[t][k] = putback[t][k] /\ runs[t][k] = 0 /\ ~Firing(t, k)
          BY <2>2, <3>1, <3>5
        <4>2. QED
          BY <3>2, <3>3, <4>1 DEF One
      <3>6. CASE ~(t = u /\ k = n)
        <4>1. Standing(t, k)' => Standing(t, k)
          BY <2>1, <3>6 DEF Standing
        <4>2. putback'[t][k] = putback[t][k]
          BY <2>2, <3>6
        <4>3. QED
          BY <3>1, <3>2, <3>3, <4>1, <4>2 DEF One
      <3>7. QED
        BY <3>4, <3>5, <3>6
    <2>10. QED
      BY <2>4, <2>5, <2>6, <2>7, <2>8, <2>9
  <1>4. QED
    BY <1>2, <1>3

\* Every configuration request keeps the invariant: the rows it computes can fire.
LEMMA RequestInv ==
  ASSUME IInv, NEW c \in Clients, Request(c)
  PROVE  IInv'
  <1>1. clock \in Nat /\ \A t \in Tests : row[t].cron \in Crons \cup {NoCron} /\ row[t].enabled \in BOOLEAN
    BY DEF IInv, TypeOK, Row
  <1>2. ASSUME NEW t \in Tests, enableSchedule(c, t) PROVE IInv'
    <2>1. NewRow(TRUE, row[t].cron) \in Row /\ Live(NewRow(TRUE, row[t].cron))
      BY <1>1, <1>2, NewRowLive DEF enableSchedule
    <2>2. QED
      BY <1>2, <2>1, ReadInv DEF enableSchedule
  <1>3. ASSUME NEW t \in Tests, disableSchedule(c, t) PROVE IInv'
    <2>1. NewRow(FALSE, row[t].cron) \in Row /\ Live(NewRow(FALSE, row[t].cron))
      BY <1>1, NewRowLive
    <2>2. QED
      BY <1>3, <2>1, ReadInv DEF disableSchedule
  <1>4. ASSUME NEW t \in Tests, NEW ask \in {"keep", "on", "off"},
               NEW cron \in Crons \cup {NoCron},
               updateTestConfig(c, t, ask, cron)
        PROVE  IInv'
    <2> DEFINE enabled == IF ask = "keep" THEN row[t].enabled ELSE ask = "on"
    <2>1. enabled \in BOOLEAN
      BY <1>1
    <2>2. (enabled => cron # NoCron) /\ Read(c, t, NewRow(enabled, cron))
      BY <1>4 DEF updateTestConfig
    <2> HIDE DEF enabled
    <2>3. NewRow(enabled, cron) \in Row /\ Live(NewRow(enabled, cron))
      BY <1>1, <2>1, <2>2, NewRowLive
    <2>4. QED
      BY <2>2, <2>3, ReadInv
  <1>5. QED
    BY <1>2, <1>3, <1>4, WriteInv DEF Request

\* Every step keeps the invariant.
LEMMA NextInv == IInv /\ [Next]_vars => IInv'
  <1> SUFFICES ASSUME IInv, [Next]_vars PROVE IInv'
    OBVIOUS
  <1>1. CASE Next
    BY <1>1, EnvironmentInv, SchedulerInv, RequestInv DEF Next
  <1>2. CASE UNCHANGED vars
    BY <1>2 DEF vars, IInv, TypeOK, ListInv, Held, OverlapInv, OneScheduledRun, RowInv, Live,
       MovedInv, OccurrenceInv, Standing, Firing, LateInv
  <1>3. QED
    BY <1>1, <1>2

\* The invariant holds in every reachable state.
LEMMA Invariance == Spec => []IInv
  BY InitInv, NextInv, PTL DEF Spec

-----------------------------------------------------------------------------

\* The variables keep their types.
THEOREM TypeCorrect == Spec => []TypeOK
  <1>1. IInv => TypeOK
    BY DEF IInv
  <1>2. QED
    BY Invariance, <1>1, PTL

\* Scheduled runs of one test never overlap.
THEOREM ScheduledRunsDisjoint == Spec => []OneScheduledRun
  <1>1. IInv => OneScheduledRun
    BY DEF IInv, OverlapInv
  <1>2. QED
    BY Invariance, <1>1, PTL

\* An enabled schedule always has a cron expression and a next_run_at.
THEOREM SchedulesStayLive == Spec => []EnabledIsLive
  <1>1. IInv => EnabledIsLive
    BY DEF IInv, TypeOK, RowInv, Live, EnabledIsLive
  <1>2. QED
    BY Invariance, <1>1, PTL

\* A scheduled time is run at most once, plus once for every configuration write that
\* put it back after the scheduler had moved past it.
THEOREM DoublingBounded == Spec => []DoubledOnlyByStaleWrite
  <1>1. IInv => DoubledOnlyByStaleWrite
    <2> SUFFICES ASSUME IInv, NEW t \in Tests, NEW k \in Times
                 PROVE  runs[t][k] <= 1 + putback[t][k]
      BY DEF DoubledOnlyByStaleWrite
    <2>1. runs[t][k] + One(Standing(t, k)) + One(Firing(t, k)) <= 1 + putback[t][k]
      BY DEF IInv, OccurrenceInv
    <2>2. runs[t][k] \in Nat /\ putback[t][k] \in Nat
      BY DEF IInv, TypeOK
    <2>3. QED
      BY <2>1, <2>2 DEF One
  <1>2. QED
    BY Invariance, <1>1, PTL

\* At most one run of a schedule is enqueued after it was disabled.
THEOREM LateRunsBounded == Spec => []AtMostOneLateRun
  <1>1. IInv => AtMostOneLateRun
    BY DEF IInv, LateInv, AtMostOneLateRun
  <1>2. QED
    BY Invariance, <1>1, PTL
=============================================================================
