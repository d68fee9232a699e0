---------------------------- MODULE ExecuteProofs ----------------------------
(* Proofs about runtime.Execute, for pipes of any size and any amount of output. *)
EXTENDS Execute, TLAPS

-----------------------------------------------------------------------------
(* The inductive invariant. *)

\* Where Execute is, and what the CLI and the goroutines may be doing meanwhile.
CallInv ==
    /\ main = "start" => cli = "none" /\ output = buf
    /\ verdict # "none" <=> main = "returned"
    /\ cli = "none" =>
          /\ main \in {"start", "returned"} /\ verdict \in {"none", "error"}
          /\ container = "none" /\ ~closed /\ canceller = "idle"
          /\ \A s \in Streams : reader[s] = "none"
    /\ main \in {"join", "check", "kill", "returned"} /\ cli # "none" =>
          closed /\ cli \in {"exit0", "exitN", "killed", "lost"}
    /\ main = "wait" => ~closed /\ cli \notin {"none", "lost"}
    /\ main = "kill" => deadline
    /\ main \in {"check", "kill", "returned"} => \A s \in Streams : reader[s] # "scan"
    /\ cli # "none" => \A s \in Streams : reader[s] # "none"
    /\ OutputFrozen

\* A line in the buffer is one its goroutine has counted.
BufInv ==
    /\ InOrder
    /\ \A i \in 1..Len(buf) : 1 <= buf[i].n /\ buf[i].n <= copied[buf[i].stream]

\* Why a goroutine stopped, and what is left in the pipes.
ReaderInv ==
    /\ closed => cli \notin {"none", "running"}
                 /\ \A s \in Streams \ cut : taken[s] = written[s]
    /\ \A s \in Streams : reader[s] = "done" =>
          \/ long[s] = copied[s] + 1
          \/ copied[s] = taken[s] /\ cli \notin {"none", "running"} /\ (closed \/ taken[s] = written[s])

\* Who ended the CLI answers for the container, or has left it.
ContainerInv ==
    /\ cli \in {"none", "running"} => container # "left"
    /\ cli \in {"exit0", "exitN"} => container \in {"none", "gone"}
    /\ cli = "exit0" => container = "gone"
    /\ cli = "killed" /\ ~deadline => canceller # "idle"
    /\ canceller # "idle" => cli \notin {"none", "running"}
    /\ canceller = "done" => container # "up"
    /\ verdict \in {"timeout", "error"} => container # "up"
    /\ verdict = "pass" => cli = "exit0"
    /\ verdict = "fail" => cli \in {"exit0", "exitN"} \/ canceller # "idle"

IInv == TypeOK /\ CallInv /\ BufInv /\ ReaderInv /\ ContainerInv

-----------------------------------------------------------------------------

\* The initial state satisfies the invariant.
LEMMA Initially == Init => IInv
  <1> SUFFICES ASSUME Init PROVE IInv
    OBVIOUS
  <1>1. TypeOK
    <2>1. << >> \in Seq(Line)
      OBVIOUS
    <2>2. buf \in Seq(Line) /\ output \in Seq(Line)
      BY <2>1 DEF Init
    <2>3. /\ 0 \in 0..MaxLines /\ 0 <= 0
          /\ written = [s \in Streams |-> 0] /\ long = [s \in Streams |-> 0]
          /\ taken = [s \in Streams |-> 0] /\ copied = [s \in Streams |-> 0]
      BY LinesAssumption DEF Init
    <2>4. /\ written \in [Streams -> 0..MaxLines] /\ long \in [Streams -> 0..MaxLines]
          /\ taken \in [Streams -> 0..MaxLines] /\ copied \in [Streams -> 0..MaxLines]
          /\ \A s \in Streams : copied[s] <= taken[s] /\ taken[s] <= written[s] /\ long[s] <= written[s]
      BY <2>3
    <2>5. QED
      BY <2>2, <2>4 DEF Init, TypeOK
  <1>2. CallInv
    BY DEF Init, CallInv, OutputFrozen
  <1>3. BufInv
    BY LinesAssumption DEF Init, BufInv, InOrder
  <1>4. ReaderInv /\ ContainerInv
    BY DEF Init, ReaderInv, ContainerInv
  <1>5. QED
    BY <1>1, <1>2, <1>3, <1>4 DEF IInv

\* Every step keeps the types.
LEMMA TypeStep == TypeOK /\ Next => TypeOK'
  <1> SUFFICES ASSUME TypeOK, Next PROVE TypeOK'
    OBVIOUS
  <1> USE LinesAssumption
  <1>1. CASE Progress \/ WaitFails \/ DeadlinePasses \/ DeadlineKills
    <2>1. CASE Start
      BY <2>1 DEF Start, TypeOK
    <2>2. CASE StartFails \/ JoinReturns \/ KillContainer
      BY <2>2 DEF StartFails, JoinReturns, KillContainer, ForceRemove, LeftAlone, TypeOK, pipes
    <2>3. CASE WaitReturns \/ WaitFails
      BY <2>3 DEF WaitReturns, WaitFails, TypeOK, pipes
    <2>4. CASE Check
      BY <2>4 DEF Check, LeftAlone, TypeOK, pipes
    <2>5. CASE DeadlinePasses
      BY <2>5 DEF DeadlinePasses, TypeOK, pipes
    <2>6. CASE DeadlineKills
      BY <2>6 DEF DeadlineKills, TypeOK, call, pipes
    <2>7. QED
      BY <1>1, <2>1, <2>2, <2>3, <2>4, <2>5, <2>6 DEF Progress
  <1>2. ASSUME NEW s \in Streams, Read(s) PROVE TypeOK'
    <2>1. PICK k \in (taken[s] + 1)..written[s] : taken' = [taken EXCEPT ![s] = k]
      BY <1>2 DEF Read
    <2>2. k \in 0..MaxLines /\ taken[s] <= k /\ k <= written[s]
      BY <2>1 DEF TypeOK
    <2>3. QED
      BY <1>2, <2>1, <2>2 DEF Read, TypeOK, call
  <1>3. ASSUME NEW s \in Streams, Copy(s) PROVE TypeOK'
    <2>1. copied' = [copied EXCEPT ![s] = copied[s] + 1] /\ copied[s] + 1 <= taken[s]
      BY <1>3 DEF Copy, TypeOK
    <2>2. copied[s] + 1 \in 0..MaxLines /\ [stream |-> s, n |-> copied[s] + 1] \in Line
      BY <2>1 DEF TypeOK, Line
    <2>3. buf' \in Seq(Line)
      BY <1>3, <2>2 DEF Copy, TypeOK
    <2>4. QED
      BY <1>3, <2>1, <2>2, <2>3 DEF Copy, TypeOK, call
  <1>4. ASSUME NEW s \in Streams, LineTooLong(s) \/ EndOfInput(s) PROVE TypeOK'
    <2>1. /\ UNCHANGED <<call, cli, container, written, long, taken, copied, buf, canceller>>
          /\ reader' = [reader EXCEPT ![s] = "done"]
      BY <1>4 DEF LineTooLong, EndOfInput
    <2>2. QED
      BY <2>1 DEF TypeOK, call
  <1>5. ASSUME NEW s \in Streams, Write(s) PROVE TypeOK'
    <2>1. written[s] + 1 \in 0..MaxLines
      BY <1>5 DEF Write, TypeOK
    <2>2. long' \in [Streams -> 0..MaxLines] /\ written' \in [Streams -> 0..MaxLines]
      BY <1>5, <2>1 DEF Write, TypeOK
    <2>3. \A r \in Streams : taken[r] <= written'[r] /\ long'[r] <= written'[r]
      BY <1>5, <2>1 DEF Write, TypeOK
    <2>4. QED
      BY <1>5, <2>2, <2>3 DEF Write, TypeOK, call
  <1>6. CASE Launch \/ CommandExits \/ Cancel \/ CancelRemoves \/ SweepRemoves
    <2>1. UNCHANGED <<call, pipes>>
      BY <1>6 DEF Launch, CommandExits, Cancel, CancelRemoves, SweepRemoves
    <2>2. /\ cli' \in {"none", "running", "exit0", "exitN", "killed", "lost"}
          /\ container' \in {"none", "up", "gone", "left"}
      BY <1>6 DEF Launch, CommandExits, Cancel, CancelRemoves, ForceRemove, LeftAlone,
                  SweepRemoves, TypeOK
    <2>3. canceller' \in {"idle", "remove", "done"}
      BY <1>6 DEF Launch, CommandExits, Cancel, CancelRemoves, SweepRemoves, TypeOK
    <2>4. QED
      BY <2>1, <2>2, <2>3 DEF TypeOK, call, pipes
  <1>7. QED
    BY <1>1, <1>2, <1>3, <1>4, <1>5, <1>6 DEF Next, Reader

\* Every step keeps the position of the call in line with CLI and goroutines.
LEMMA CallStep == TypeOK /\ CallInv /\ ContainerInv /\ Next => CallInv'
  <1> SUFFICES ASSUME TypeOK, CallInv, ContainerInv, Next PROVE CallInv'
    OBVIOUS
  <1> USE DEF CallInv, OutputFrozen
  <1>1. CASE Start
    BY <1>1 DEF Start
  <1>2. CASE StartFails
    BY <1>2 DEF StartFails, pipes
  <1>3. CASE WaitReturns \/ WaitFails
    BY <1>3 DEF WaitReturns, WaitFails, pipes, TypeOK
  <1>4. CASE JoinReturns
    BY <1>4 DEF JoinReturns, pipes
  <1>5. CASE Check
    BY <1>5 DEF Check, LeftAlone, pipes
  <1>6. CASE KillContainer
    BY <1>6 DEF KillContainer, ForceRemove, LeftAlone, pipes
  <1>7. CASE DeadlinePasses \/ DeadlineKills
    BY <1>7 DEF DeadlinePasses, DeadlineKills, pipes, call
  <1>8. ASSUME NEW s \in Streams, Read(s) \/ Write(s) PROVE CallInv'
    BY <1>8 DEF Read, Write, call
  <1>9. ASSUME NEW s \in Streams, Copy(s) PROVE CallInv'
    <2>1. reader[s] = "scan"
      BY <1>9 DEF Copy
    <2>2. main \notin {"start", "check", "kill", "returned"}
      BY <2>1
    <2>3. QED
      BY <1>9, <2>2 DEF Copy, call
  <1>10. ASSUME NEW s \in Streams, LineTooLong(s) \/ EndOfInput(s) PROVE CallInv'
    <2>1. reader[s] = "scan" /\ reader' = [reader EXCEPT ![s] = "done"]
      BY <1>10 DEF LineTooLong, EndOfInput
    <2>2. \A r \in Streams : reader'[r] = reader[r] \/ (r = s /\ reader'[r] = "done")
      BY <2>1 DEF TypeOK
    <2>3. main \notin {"start", "check", "kill", "returned"}
      BY <2>1
    <2>4. QED
      BY <1>10, <2>2, <2>3 DEF LineTooLong, EndOfInput, call
  <1>11. CASE Launch \/ CancelRemoves \/ SweepRemoves
    BY <1>11 DEF Launch, CancelRemoves, ForceRemove, LeftAlone, SweepRemoves, call, pipes
  <1>12. CASE CommandExits
    BY <1>12 DEF CommandExits, call, pipes
  <1>13. CASE Cancel
    BY <1>13 DEF Cancel, call, pipes
  <1>14. QED
    BY <1>1, <1>2, <1>3, <1>4, <1>5, <1>6, <1>7, <1>8, <1>9, <1>10, <1>11, <1>12, <1>13
       DEF Next, Progress, Reader

\* Every step keeps the lines of the buffer those that were counted.
LEMMA BufStep == TypeOK /\ BufInv /\ Next => BufInv'
  <1> SUFFICES ASSUME TypeOK, BufInv, Next PROVE BufInv'
    OBVIOUS
  <1>1. ASSUME NEW s \in Streams, Copy(s) PROVE BufInv'
    <2> DEFINE line == [stream |-> s, n |-> copied[s] + 1]
    <2>0. /\ copied[s] \in 0..MaxLines /\ copied[s] + 1 \in 1..MaxLines
          /\ MaxLines \in Nat /\ Len(buf) \in Nat
      BY <1>1, LinesAssumption DEF Copy, TypeOK
    <2>1. line \in Line /\ line.stream = s /\ line.n = copied[s] + 1
      BY <2>0 DEF Line
    <2>2. /\ Len(buf') = Len(buf) + 1 /\ buf'[Len(buf) + 1] = line
          /\ \A i \in 1..Len(buf) : buf'[i] = buf[i] /\ buf[i] \in Line
      BY <1>1, <2>1 DEF Copy, TypeOK
    <2>3. /\ copied'[s] = copied[s] + 1
          /\ \A r \in Streams \ {s} : copied'[r] = copied[r]
          /\ \A r \in Streams : copied[r] \in Nat
      BY <1>1 DEF Copy, TypeOK
    <2> HIDE DEF line
    <2>4. \A i \in 1..Len(buf) : buf[i].stream \in Streams /\ buf[i].n \in Nat
      BY <2>2 DEF Line
    <2>5. \A i \in 1..Len(buf') : 1 <= buf'[i].n /\ buf'[i].n <= copied'[buf'[i].stream]
      <3>1. ASSUME NEW i \in 1..Len(buf) PROVE 1 <= buf'[i].n /\ buf'[i].n <= copied'[buf'[i].stream]
        <4>1. copied[buf[i].stream] <= copied'[buf[i].stream]
          BY <2>3, <2>4
        <4>2. copied[buf[i].stream] \in Nat /\ copied'[buf[i].stream] \in Nat
          BY <2>3, <2>4
        <4>3. 1 <= buf[i].n /\ buf[i].n <= copied[buf[i].stream]
          BY DEF BufInv
        <4>4. QED
          BY <2>2, <2>4, <4>1, <4>2, <4>3
      <3>2. 1 <= buf'[Len(buf) + 1].n /\ buf'[Len(buf) + 1].n <= copied'[buf'[Len(buf) + 1].stream]
        BY <2>0, <2>1, <2>2, <2>3
      <3>3. QED
        BY <2>0, <2>2, <3>1, <3>2
    <2>6. ASSUME NEW i \in 1..Len(buf'), NEW j \in 1..Len(buf'), i < j, buf'[i].stream = buf'[j].stream
          PROVE  buf'[i].n < buf'[j].n
      <3>1. i \in 1..Len(buf)
        BY <2>0, <2>2, <2>6
      <3>2. CASE j \in 1..Len(buf)
        BY <2>2, <2>6, <3>1, <3>2 DEF BufInv, InOrder
      <3>3. CASE j = Len(buf) + 1
        <4>1. buf[i].stream = s /\ buf[i].n <= copied[buf[i].stream]
          BY <2>1, <2>2, <2>6, <3>1, <3>3 DEF BufInv
        <4>2. QED
          BY <2>0, <2>1, <2>2, <2>4, <3>1, <3>3, <4>1
      <3>4. QED
        BY <2>0, <2>2, <3>2, <3>3
    <2>7. ASSUME NEW r \in Streams, NEW k \in 1..MaxLines
          PROVE  k <= copied'[r] <=> \E i \in 1..Len(buf') : buf'[i] = [stream |-> r, n |-> k]
      <3>1. k <= copied[r] <=> \E i \in 1..Len(buf) : buf[i] = [stream |-> r, n |-> k]
        BY DEF BufInv, InOrder
      <3>2. (\E i \in 1..Len(buf') : buf'[i] = [stream |-> r, n |-> k])
            <=> k <= copied[r] \/ line = [stream |-> r, n |-> k]
        BY <2>0, <2>2, <3>1
      <3>3. line = [stream |-> r, n |-> k] <=> s = r /\ k = copied[s] + 1
        BY <2>0 DEF line
      <3>4. CASE r = s
        BY <2>0, <2>3, <3>2, <3>3, <3>4
      <3>5. CASE r # s
        BY <2>3, <3>2, <3>3, <3>5
      <3>6. QED
        BY <3>4, <3>5
    <2>8. QED
      BY <2>5, <2>6, <2>7 DEF BufInv, InOrder
  <1>2. CASE UNCHANGED <<buf, copied>>
    BY <1>2 DEF BufInv, InOrder
  <1>3. QED
    BY <1>1, <1>2
       DEF Next, Progress, Start, StartFails, WaitReturns, WaitFails, JoinReturns, Check, KillContainer,
           DeadlinePasses, DeadlineKills, Reader, Read, LineTooLong, EndOfInput, Write, Launch,
           CommandExits, Cancel, CancelRemoves, SweepRemoves, call, pipes

\* Every step leaves a reason for each goroutine that has stopped.
LEMMA ReaderStep == TypeOK /\ CallInv /\ ReaderInv /\ Next => ReaderInv'
  <1> SUFFICES ASSUME TypeOK, CallInv, ReaderInv, Next PROVE ReaderInv'
    OBVIOUS
  <1>0. \A s \in Streams : /\ written[s] \in Int /\ taken[s] \in Int /\ copied[s] \in Int /\ long[s] \in Int
                          /\ 0 <= copied[s] /\ copied[s] <= taken[s] /\ taken[s] <= written[s]
    BY LinesAssumption DEF TypeOK
  <1>1. CASE Start
    BY <1>1 DEF Start, ReaderInv, CallInv
  <1>2. CASE WaitReturns \/ WaitFails
    <2>1. cli' \notin {"none", "running"}
      BY <1>2 DEF WaitReturns, WaitFails, CallInv
    <2>2. \A s \in Streams \ cut' : taken[s] = written[s]
      BY <1>0, <1>2 DEF WaitReturns, WaitFails
    <2>3. QED
      BY <1>2, <2>1, <2>2 DEF WaitReturns, WaitFails, ReaderInv, pipes
  <1>3. CASE StartFails \/ JoinReturns \/ Check \/ KillContainer \/ DeadlinePasses
    BY <1>3 DEF StartFails, JoinReturns, Check, KillContainer, DeadlinePasses, ReaderInv, pipes
  <1>4. CASE DeadlineKills \/ CommandExits \/ Cancel
    <2>1. cli' = cli \/ cli' \notin {"none", "running"}
      BY <1>4 DEF DeadlineKills, CommandExits, Cancel
    <2>2. UNCHANGED <<closed, cut, written, long, taken, copied, reader>>
      BY <1>4 DEF DeadlineKills, CommandExits, Cancel, call, pipes
    <2>3. QED
      BY <2>1, <2>2 DEF ReaderInv
  <1>5. ASSUME NEW s \in Streams, Read(s) PROVE ReaderInv'
    <2>1. /\ ~closed /\ reader[s] = "scan" /\ UNCHANGED <<closed, cut, cli, written, long, copied, reader>>
          /\ \A r \in Streams \ {s} : taken'[r] = taken[r]
      BY <1>5 DEF Read, call, TypeOK
    <2>2. QED
      BY <2>1 DEF ReaderInv
  <1>6. ASSUME NEW s \in Streams, Copy(s) PROVE ReaderInv'
    <2>1. /\ reader[s] = "scan" /\ UNCHANGED <<closed, cut, cli, written, long, taken, reader>>
          /\ \A r \in Streams \ {s} : copied'[r] = copied[r]
      BY <1>6 DEF Copy, call, TypeOK
    <2>2. QED
      BY <2>1 DEF ReaderInv
  <1>7. ASSUME NEW s \in Streams, LineTooLong(s) \/ EndOfInput(s) PROVE ReaderInv'
    <2>1. /\ UNCHANGED <<closed, cut, cli, written, long, taken, copied>>
          /\ \A r \in Streams \ {s} : reader'[r] = reader[r]
      BY <1>7 DEF LineTooLong, EndOfInput, call, TypeOK
    <2>2. \/ long[s] = copied[s] + 1
          \/ copied[s] = taken[s] /\ cli \notin {"none", "running"} /\ (closed \/ taken[s] = written[s])
      <3>1. CASE LineTooLong(s)
        BY <3>1 DEF LineTooLong
      <3>2. CASE EndOfInput(s)
        <4>1. reader[s] = "scan" /\ copied[s] = taken[s] /\ (closed \/ (cli # "running" /\ taken[s] = written[s]))
          BY <3>2 DEF EndOfInput
        <4>2. cli # "none"
          BY <4>1 DEF CallInv, TypeOK
        <4>3. QED
          BY <4>1, <4>2 DEF ReaderInv
      <3>3. QED
        BY <1>7, <3>1, <3>2
    <2>3. QED
      BY <2>1, <2>2 DEF ReaderInv
  <1>8. ASSUME NEW s \in Streams, Write(s) PROVE ReaderInv'
    <2>1. /\ cli = "running" /\ UNCHANGED <<closed, cut, cli, taken, copied, reader>>
          /\ \A r \in Streams : long'[r] = long[r] \/ long[r] = 0
      BY <1>8 DEF Write, call, TypeOK
    <2>2. ~closed
      BY <2>1 DEF ReaderInv
    <2>3. \A r \in Streams : reader[r] = "done" => long[r] = copied[r] + 1
      BY <2>1 DEF ReaderInv
    <2>4. \A r \in Streams : reader[r] = "done" => long'[r] = copied[r] + 1
      BY <1>0, <2>1, <2>3
    <2>5. QED
      BY <2>1, <2>2, <2>4 DEF ReaderInv
  <1>9. CASE Launch \/ CancelRemoves \/ SweepRemoves
    BY <1>9 DEF Launch, CancelRemoves, SweepRemoves, ReaderInv, call, pipes
  <1>10. QED
    BY <1>1, <1>2, <1>3, <1>4, <1>5, <1>6, <1>7, <1>8, <1>9 DEF Next, Progress, Reader

\* Every step leaves somebody who answers for the container.
LEMMA ContainerStep == TypeOK /\ CallInv /\ ContainerInv /\ Next => ContainerInv'
  <1> SUFFICES ASSUME TypeOK, CallInv, ContainerInv, Next PROVE ContainerInv'
    OBVIOUS
  <1>1. CASE Start
    BY <1>1 DEF Start, ContainerInv, CallInv
  <1>2. CASE StartFails \/ WaitReturns \/ JoinReturns
    BY <1>2 DEF StartFails, WaitReturns, JoinReturns, ContainerInv, CallInv, pipes
  <1>w. CASE WaitFails
    BY <1>w DEF WaitFails, ContainerInv, CallInv
  <1>3. CASE Check
    <2>1. cli \in {"exit0", "exitN", "killed", "lost"}
      BY <1>3 DEF Check, CallInv
    <2>2. QED
      BY <1>3, <2>1 DEF Check, LeftAlone, ContainerInv, CallInv
  <1>4. CASE KillContainer
    BY <1>4 DEF KillContainer, ForceRemove, LeftAlone, ContainerInv, CallInv, TypeOK
  <1>5. CASE DeadlinePasses \/ DeadlineKills
    BY <1>5 DEF DeadlinePasses, DeadlineKills, ContainerInv, CallInv, call
  <1>6. CASE Launch
    BY <1>6 DEF Launch, ContainerInv, CallInv, TypeOK, call
  <1>7. CASE CommandExits
    BY <1>7 DEF CommandExits, ContainerInv, CallInv, TypeOK, call
  <1>8. CASE Cancel
    BY <1>8 DEF Cancel, ContainerInv, CallInv, TypeOK, call
  <1>9. CASE CancelRemoves \/ SweepRemoves
    BY <1>9 DEF CancelRemoves, ForceRemove, LeftAlone, SweepRemoves, ContainerInv, CallInv,
                TypeOK, call
  <1>10. ASSUME NEW s \in Streams, Reader(s) \/ Write(s) PROVE ContainerInv'
    <2>1. UNCHANGED <<call, cli, container, canceller>>
      BY <1>10 DEF Reader, Read, Copy, LineTooLong, EndOfInput, Write
    <2>2. QED
      BY <2>1 DEF ContainerInv, call
  <1>11. QED
    BY <1>1, <1>2, <1>3, <1>4, <1>5, <1>6, <1>7, <1>8, <1>9, <1>10, <1>w DEF Next, Progress

\* Every step keeps the invariant.
LEMMA Step == IInv /\ [Next]_vars => IInv'
  <1> SUFFICES ASSUME IInv, [Next]_vars PROVE IInv'
    OBVIOUS
  <1>1. CASE Next
    BY <1>1, TypeStep, CallStep, BufStep, ReaderStep, ContainerStep DEF IInv
  <1>2. CASE UNCHANGED vars
    <2>1. UNCHANGED <<main, verdict, output, deadline, closed, cut, cli, container, written, long,
                      taken, copied, reader, buf, canceller>>
      BY <1>2 DEF vars, call, pipes
    <2>2. TypeOK' /\ CallInv'
      BY <2>1 DEF IInv, TypeOK, CallInv, OutputFrozen
    <2>3. BufInv' /\ ReaderInv' /\ ContainerInv'
      BY <2>1 DEF IInv, BufInv, InOrder, ReaderInv, ContainerInv
    <2>4. QED
      BY <2>2, <2>3 DEF IInv
  <1>3. QED
    BY <1>1, <1>2

-----------------------------------------------------------------------------
(* Theorems. *)

\* The invariant of a call of Execute.
THEOREM Invariance == Spec => []IInv
  BY Initially, Step, PTL DEF Spec

\* Type correctness of a call of Execute.
THEOREM TypeCorrect == Spec => []TypeOK
  <1>1. IInv => TypeOK
    BY DEF IInv
  <1>2. QED
    BY <1>1, Invariance, PTL

\* The goroutines keep the order of each stream, for any amount of output.
THEOREM LogInOrder == Spec => []InOrder
  <1>1. IInv => InOrder
    BY DEF IInv, BufInv
  <1>2. QED
    BY <1>1, Invariance, PTL

\* wg.Wait makes the result final.
THEOREM ResultFinal == Spec => []OutputFrozen
  <1>1. IInv => OutputFrozen
    BY DEF IInv, CallInv
  <1>2. QED
    BY <1>1, Invariance, PTL

\* Output is lost only by a line too long, or by what Wait found in a pipe.
THEOREM NothingElseLost == Spec => []OutputAccounted
  <1>1. IInv => OutputAccounted
    <2> SUFFICES ASSUME IInv, main = "returned", cli # "none", NEW s \in Streams
                 PROVE  copied[s] = written[s] \/ s \in cut \/ long[s] = copied[s] + 1
      BY DEF IInv, CallInv, OutputFrozen, OutputAccounted
    <2>1. closed /\ reader[s] # "scan" /\ cli # "none"
      BY DEF IInv, CallInv
    <2>2. reader[s] # "none"
      BY DEF IInv, CallInv
    <2>3. reader[s] = "done"
      BY <2>1, <2>2 DEF IInv, TypeOK
    <2>4. QED
      BY <2>1, <2>3 DEF IInv, ReaderInv
  <1>2. QED
    BY <1>1, Invariance, PTL

\* Whoever ends the CLI, its container does not outlive the call and the Cancel, unless
\* docker rm failed on it or Wait failed.
THEOREM ContainerRemoved == Spec => []ContainerGone
  <1>1. IInv => ContainerGone
    <2> SUFFICES ASSUME IInv, main = "returned", canceller # "remove"
                 PROVE  container # "up"
      BY DEF ContainerGone
    <2>1. verdict \in {"pass", "fail", "timeout", "error"}
      BY DEF IInv, CallInv, TypeOK
    <2>2. canceller \in {"idle", "done"}
      BY DEF IInv, TypeOK
    <2>3. QED
      BY <2>1, <2>2 DEF IInv, CallInv, ContainerInv
  <1>2. QED
    BY <1>1, Invariance, PTL

\* Only a test that ended by itself passes.
THEOREM PassesAreGenuine == Spec => []PassIsGenuine
  <1>1. IInv => PassIsGenuine
    BY DEF IInv, ContainerInv, PassIsGenuine
  <1>2. QED
    BY <1>1, Invariance, PTL

-----------------------------------------------------------------------------
(* The call implements CommandRun. *)

\* The refinement mapping, case by case.
KnownCases ==
    /\ main = "start" => Phase = "ready" /\ Known = "none"
    /\ main = "returned" => Phase = "over"
    /\ main = "returned" /\ verdict = "pass" => Known = "exit0"
    /\ main = "returned" /\ verdict = "fail" => Known = "exitN"
    /\ main = "returned" /\ verdict = "timeout" => Known = "timeout"
    /\ main = "returned" /\ verdict = "error" => Known = "error"
    /\ main \notin {"start", "returned"} => Phase = "running"
    /\ main \notin {"start", "returned"} /\ cli = "running" =>
          /\ container = "none" => Known = "starting"
          /\ container = "up" => Known = "up"
          /\ container = "gone" => Known = "exitN"
    /\ main \notin {"start", "returned"} /\ cli # "running" =>
          /\ deadline => Known = "timeout"
          /\ ~deadline /\ cli = "exit0" => Known = "exit0"
          /\ ~deadline /\ cli \in {"exitN", "killed"} => Known = "exitN"
          /\ ~deadline /\ cli = "lost" => Known = "error"

\* The cases are those of the definition, before and after a step.
LEMMA KnownFacts == KnownCases /\ KnownCases'
  <1>1. KnownCases
    BY DEF KnownCases, Known, Phase
  <1>2. KnownCases'
    BY DEF KnownCases, Known, Phase
  <1>3. QED
    BY <1>1, <1>2

\* A call begins like the abstract one.
LEMMA CommandInit == Init => Command!Init
  BY KnownFacts DEF Init, KnownCases, Command!Init

\* Steps of the goroutines and of the CLI's output show nothing of themselves.
LEMMA OutputStep ==
  ASSUME NEW s \in Streams, Reader(s) \/ Write(s)
  PROVE  UNCHANGED Command!vars
  <1>1. UNCHANGED <<main, verdict, cli, container, deadline, canceller>>
    BY DEF Reader, Read, Copy, LineTooLong, EndOfInput, Write, call
  <1>2. QED
    BY <1>1 DEF Command!vars, Known, Phase

\* The steps of Execute itself: it returns what the command came to, and removes the
\* container or leaves it to those that will.
LEMMA ProgressStep ==
  ASSUME IInv, Progress
  PROVE  Command!Next \/ UNCHANGED Command!vars
  <1> USE KnownFacts DEF KnownCases
  <1>1. CASE Start
    <2>1. Command!StartCommand
      BY <1>1 DEF Start, Command!StartCommand, IInv, CallInv
    <2>2. QED
      BY <2>1 DEF Command!Next
  <1>2. CASE StartFails
    <2>1. Command!StartFails
      BY <1>2 DEF StartFails, Command!StartFails
    <2>2. QED
      BY <2>1 DEF Command!Next
  <1>3. CASE WaitReturns \/ JoinReturns
    BY <1>3 DEF WaitReturns, JoinReturns, Command!vars, Known, Phase
  <1>4. CASE Check
    <2>1. CASE deadline
      BY <1>4, <2>1 DEF Check, Command!vars, Known, Phase
    <2>l. CASE ~deadline /\ cli = "lost"
      <3>1. /\ main = "check" /\ main' = "returned" /\ verdict' = "error"
            /\ LeftAlone /\ UNCHANGED <<cli, canceller>>
        BY <1>4, <2>l DEF Check
      <3>2. Known = "error" /\ Known' = "error"
        BY <2>l, <3>1
      <3>3. Command!ExecuteReturns
        BY <3>1, <3>2 DEF Command!ExecuteReturns, Command!Result, Command!LeftAlone, LeftAlone
      <3>4. QED
        BY <3>3 DEF Command!Next
    <2>2. CASE ~deadline /\ cli # "lost"
      <3>1. /\ main = "check" /\ main' = "returned"
            /\ verdict' = IF cli = "exit0" THEN "pass" ELSE "fail"
            /\ UNCHANGED <<cli, container, canceller>>
        BY <1>4, <2>2 DEF Check
      <3>2. cli \in {"exit0", "exitN", "killed"} /\ (container = "up" => canceller = "remove")
        BY <2>2, <3>1 DEF IInv, TypeOK, CallInv, ContainerInv
      <3>3. Known = (IF cli = "exit0" THEN "exit0" ELSE "exitN") /\ Known' = Known
        BY <2>2, <3>1, <3>2
      <3>4. Command!ExecuteReturns
        BY <3>1, <3>2, <3>3 DEF Command!ExecuteReturns, Command!Result
      <3>5. QED
        BY <3>4 DEF Command!Next
    <2>3. QED
      BY <2>1, <2>2, <2>l
  <1>5. CASE KillContainer
    <2>1. cli # "running" /\ deadline
      BY <1>5 DEF KillContainer, IInv, CallInv
    <2>2. Command!ExecuteReturns
      BY <1>5, <2>1 DEF KillContainer, ForceRemove, LeftAlone, Command!ExecuteReturns,
                        Command!LeftAlone, Command!Result, IInv, TypeOK
    <2>3. QED
      BY <2>2 DEF Command!Next
  <1>6. QED
    BY <1>1, <1>2, <1>3, <1>4, <1>5 DEF Progress

\* Wait fails: a step that is seen unless the deadline has passed.
LEMMA WaitFailsStep ==
  ASSUME IInv, WaitFails
  PROVE  Command!Next \/ UNCHANGED Command!vars
  <1> USE KnownFacts DEF KnownCases
  <1>1. /\ main = "wait" /\ main' = "join" /\ cli' = "lost" /\ cli \notin {"none", "lost"}
        /\ UNCHANGED <<deadline, container, canceller>>
    BY DEF WaitFails, IInv, CallInv
  <1>2. CASE deadline
    <2>1. Known' = "timeout"
      BY <1>1, <1>2
    <2>2. Command!Deadline
      BY <1>1, <2>1 DEF Command!Deadline
    <2>3. QED
      BY <2>2 DEF Command!Next
  <1>3. CASE ~deadline
    <2>1. Known' = "error" /\ Known # "timeout"
      BY <1>1, <1>3 DEF IInv, TypeOK, ContainerInv
    <2>2. Command!WaitFails
      BY <1>1, <2>1 DEF Command!WaitFails
    <2>3. QED
      BY <2>2 DEF Command!Next
  <1>4. QED
    BY <1>2, <1>3

\* The deadline, as it passes and as it kills the CLI.
LEMMA DeadlineStep ==
  ASSUME IInv, DeadlinePasses \/ DeadlineKills
  PROVE  Command!Next \/ UNCHANGED Command!vars
  <1> USE KnownFacts DEF KnownCases
  <1>1. main = "start" => cli = "none"
    BY DEF IInv, CallInv
  <1>2. /\ UNCHANGED <<main, container, canceller>> /\ main # "returned"
        /\ deadline'
        /\ \/ cli' = cli
           \/ cli = "running" /\ cli' # "running"
    BY DEF DeadlinePasses, DeadlineKills, call, IInv, CallInv
  <1>3. CASE main = "start" \/ (cli' = cli /\ cli = "running")
    BY <1>1, <1>2, <1>3 DEF Command!vars, IInv, TypeOK, ContainerInv
  <1>4. CASE main # "start" /\ cli' # "running"
    <2>1. Known' = "timeout"
      BY <1>2, <1>4
    <2>2. Command!Deadline
      BY <1>2, <1>4, <2>1 DEF Command!Deadline
    <2>3. QED
      BY <2>2 DEF Command!Next
  <1>5. QED
    BY <1>2, <1>3, <1>4

\* The container's and the CLI's own steps.
LEMMA DockerStep ==
  ASSUME IInv, Launch \/ CommandExits \/ SweepRemoves
  PROVE  Command!Next \/ UNCHANGED Command!vars
  <1> USE KnownFacts DEF KnownCases
  <1>1. cli = "running" => main = "wait"
    BY DEF IInv, CallInv, TypeOK
  <1>2. CASE Launch
    <2>1. Command!Launch
      BY <1>1, <1>2 DEF Launch, call, Command!Launch
    <2>2. QED
      BY <2>1 DEF Command!Next
  <1>3. CASE CommandExits
    <2>1. /\ cli = "running" /\ main = "wait" /\ cli' \in {"exit0", "exitN"}
          /\ container # "up" => cli' = "exitN"
          /\ UNCHANGED <<main, deadline, canceller>>
          /\ container' = IF container = "up" THEN "gone" ELSE container
      BY <1>1, <1>3 DEF CommandExits, call
    <2>2. Known' \in {"timeout", cli'}
      BY <2>1
    <2>3. CASE container \in {"up", "none"}
      <3>1. Command!CommandExits
        BY <2>1, <2>2, <2>3 DEF Command!CommandExits
      <3>2. QED
        BY <3>1 DEF Command!Next
    <2>4. CASE container = "gone"
      <3>1. Known = "exitN" /\ Known' \in {"exitN", "timeout"}
        BY <2>1, <2>2, <2>4
      <3>2. CASE Known' = "exitN"
        BY <2>1, <2>4, <3>1, <3>2 DEF Command!vars
      <3>3. CASE Known' = "timeout"
        <4>1. Command!Deadline
          BY <2>1, <2>4, <3>1, <3>3 DEF Command!Deadline
        <4>2. QED
          BY <4>1 DEF Command!Next
      <3>4. QED
        BY <3>1, <3>2, <3>3
    <2>5. QED
      BY <2>1, <2>3, <2>4 DEF IInv, TypeOK, ContainerInv
  <1>4. CASE SweepRemoves
    <2>1. container \in {"up", "left"} /\ container' = "gone"
          /\ UNCHANGED <<main, verdict, cli, deadline, canceller>>
      BY <1>4 DEF SweepRemoves, call
    <2>2. Known' = (IF Known = "up" THEN "exitN" ELSE Known) /\ Phase' = Phase
      <3>1. CASE cli = "running"
        BY <1>1, <2>1, <3>1 DEF IInv, ContainerInv
      <3>2. CASE cli # "running"
        BY <2>1, <3>2 DEF IInv, TypeOK, CallInv
      <3>3. QED
        BY <3>1, <3>2
    <2>3. Command!Vanishes
      BY <2>1, <2>2 DEF Command!Vanishes
    <2>4. QED
      BY <2>3 DEF Command!Next
  <1>5. QED
    BY <1>2, <1>3, <1>4

\* The two steps of a Cancel.
LEMMA CancelStep ==
  ASSUME IInv, Cancel \/ CancelRemoves
  PROVE  Command!Next
  <1> USE KnownFacts DEF KnownCases
  <1>1. CASE Cancel
    <2>1. /\ main \notin {"start", "returned"} /\ canceller' = "remove"
          /\ cli' = IF cli = "running" THEN "killed" ELSE cli
          /\ UNCHANGED <<main, container, deadline>>
      BY <1>1 DEF Cancel, call
    <2>2. Known' \in {IF Known \in {"starting", "up"} THEN "exitN" ELSE Known, "timeout"}
      BY <2>1 DEF IInv, TypeOK, CallInv, ContainerInv
    <2>3. Command!Cancel
      BY <2>1, <2>2 DEF Command!Cancel
    <2>4. QED
      BY <2>3 DEF Command!Next
  <1>2. CASE CancelRemoves
    <2>1. cli \notin {"none", "running"} /\ UNCHANGED <<main, verdict, cli, deadline>>
      BY <1>2 DEF CancelRemoves, call, IInv, ContainerInv
    <2>2. Known' = Known /\ Phase' = Phase
      BY <2>1 DEF Known, Phase
    <2>3. Command!CancelRemoves
      BY <1>2, <2>2 DEF CancelRemoves, ForceRemove, LeftAlone, Command!CancelRemoves,
                        Command!LeftAlone, IInv, TypeOK
    <2>4. QED
      BY <2>3 DEF Command!Next
  <1>3. QED
    BY <1>1, <1>2

\* Every step of the call is a step of the abstract command or shows nothing.
LEMMA CommandStep == IInv /\ [Next]_vars => [Command!Next]_(Command!vars)
  <1> SUFFICES ASSUME IInv, [Next]_vars PROVE Command!Next \/ UNCHANGED Command!vars
    OBVIOUS
  <1>1. CASE UNCHANGED vars
    BY <1>1 DEF vars, call, Command!vars, Known, Phase
  <1>2. CASE Next
    BY <1>2, OutputStep, ProgressStep, WaitFailsStep, DeadlineStep, DockerStep, CancelStep DEF Next
  <1>3. QED
    BY <1>1, <1>2

\* Execute, with its goroutines, pipes, timer and the requests that interfere with it, is
\* the command JobRunner's handlers run.
THEOREM Implementation == Spec => ImplementsCommandRun
  <1>1. Spec => Command!Init /\ [][Command!Next]_(Command!vars)
    BY CommandInit, CommandStep, Invariance, PTL DEF Spec
  <1>2. QED
    BY <1>1 DEF ImplementsCommandRun, Command!Spec
=============================================================================
