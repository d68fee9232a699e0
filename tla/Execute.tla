------------------------------- MODULE Execute -------------------------------
(***************************************************************************)
(* One call of runtime.Execute: the docker CLI, the two goroutines that    *)
(* copy its output into one buffer, the deadline, and a Cancel from a      *)
(* request.  JobRunner takes the call in one step for each thing that can  *)
(* end it; this module is about the goroutines inside.                     *)
(*                                                                         *)
(* Output is counted in lines.  A pipe holds PipeSize of them and blocks   *)
(* the CLI when it is full.  The line a Scanner returns when it is cut off *)
(* in the middle is not told apart from a whole one.  The CLI stays        *)
(* attached to its container: by itself it ends only when that has ended.  *)
(***************************************************************************)
EXTENDS Integers, Sequences

CONSTANTS PipeSize,
          MaxLines    \* bound on the lines of a stream

ASSUME LinesAssumption == PipeSize \in Nat /\ MaxLines \in Nat

Streams == {"stdout", "stderr"}

VARIABLES
    main,       \* Execute: "start", "wait", "join", "check", "kill" or "returned"
    verdict,    \* what it returned: "none" yet, "pass", "fail", "timeout" or "error"
    output,     \* Result.Output
    cli,        \* the docker CLI: "none", "running", "exit0", "exitN", "killed", or "lost"
                \* when Wait could not tell how it ended
    container,  \* "none", "up", "gone", or "left": up, and removing it has failed or was
                \* never tried
    deadline,   \* whether the context has expired
    written,    \* lines the CLI has written to a stream
    long,       \* the line of a stream that exceeds the Scanner's buffer, 0 if none
    taken,      \* lines read from the pipe into the Scanner's buffer
    copied,     \* lines a goroutine has passed on
    reader,     \* a goroutine: "none", "scan" or "done"
    buf,        \* the shared buffer
    closed,     \* whether Wait has closed the read ends
    canceller,  \* a Cancel of this job: "idle", "remove" or "done"
    cut         \* history: streams that were closed with lines still in the pipe

pipes == <<written, long, taken, copied, reader, buf>>
call  == <<main, verdict, output, deadline, closed, cut>>
vars  == <<call, cli, container, pipes, canceller>>

Line == [stream : Streams, n : Nat]

TypeOK ==
    /\ main \in {"start", "wait", "join", "check", "kill", "returned"}
    /\ verdict \in {"none", "pass", "fail", "timeout", "error"}
    /\ cli \in {"none", "running", "exit0", "exitN", "killed", "lost"}
    /\ container \in {"none", "up", "gone", "left"}
    /\ deadline \in BOOLEAN /\ closed \in BOOLEAN
    /\ written \in [Streams -> 0..MaxLines] /\ long \in [Streams -> 0..MaxLines]
    /\ taken \in [Streams -> 0..MaxLines] /\ copied \in [Streams -> 0..MaxLines]
    /\ \A s \in Streams : copied[s] <= taken[s] /\ taken[s] <= written[s] /\ long[s] <= written[s]
    /\ reader \in [Streams -> {"none", "scan", "done"}]
    /\ buf \in Seq(Line) /\ output \in Seq(Line)
    /\ canceller \in {"idle", "remove", "done"}
    /\ cut \subseteq Streams

Init ==
    /\ main = "start" /\ verdict = "none" /\ output = << >>
    /\ cli = "none" /\ container = "none"
    /\ deadline = FALSE /\ closed = FALSE
    /\ written = [s \in Streams |-> 0] /\ long = [s \in Streams |-> 0]
    /\ taken = [s \in Streams |-> 0] /\ copied = [s \in Streams |-> 0]
    /\ reader = [s \in Streams |-> "none"] /\ buf = << >>
    /\ canceller = "idle" /\ cut = {}

-----------------------------------------------------------------------------
(* The docker CLI and the container (external). *)

Launch ==
    /\ cli = "running" /\ container = "none"
    /\ container' = "up"
    /\ UNCHANGED <<call, cli, pipes, canceller>>

Write(s) ==
    /\ cli = "running"
    /\ written[s] < MaxLines /\ written[s] - taken[s] < PipeSize
    /\ written' = [written EXCEPT ![s] = @ + 1]
    /\ \/ UNCHANGED long
       \/ long[s] = 0 /\ long' = [long EXCEPT ![s] = written[s] + 1]
    /\ UNCHANGED <<call, cli, container, taken, copied, reader, buf, canceller>>

\* The container ends, or is removed under the CLI, or was never created.
CommandExits ==
    /\ cli = "running"
    /\ \/ container = "up" /\ cli' \in {"exit0", "exitN"}
       \/ container # "up" /\ cli' = "exitN"
    /\ container' = IF container = "up" THEN "gone" ELSE container
    /\ UNCHANGED <<call, pipes, canceller>>

-----------------------------------------------------------------------------
(* Execute. *)

\* cmd.Start, which refuses a context that has expired, registerActive, and the two
\* goroutines.
Start ==
    /\ main = "start" /\ ~deadline
    /\ main' = "wait"
    /\ cli' = "running"
    /\ reader' = [s \in Streams |-> "scan"]
    /\ UNCHANGED <<verdict, output, deadline, closed, cut, container,
                   written, long, taken, copied, buf, canceller>>

\* A pipe or the command cannot be created.
StartFails ==
    /\ main = "start"
    /\ main' = "returned" /\ verdict' = "error"
    /\ UNCHANGED <<output, deadline, closed, cut, cli, container, pipes, canceller>>

DeadlinePasses ==
    /\ ~deadline /\ main # "returned"
    /\ deadline' = TRUE
    /\ UNCHANGED <<main, verdict, output, closed, cut, cli, container, pipes, canceller>>

\* Mutant: exec.Command, without the context.
KillNothing ==
    /\ FALSE
    /\ UNCHANGED vars

\* CommandContext kills the CLI, and the container goes on.
DeadlineKills ==
    /\ deadline /\ cli = "running"
    /\ cli' = "killed"
    /\ UNCHANGED <<call, container, pipes, canceller>>

\* cmd.Wait returns when the CLI is gone, and closes the pipes, read or not.
WaitReturns ==
    /\ main = "wait" /\ cli # "running"
    /\ main' = "join"
    /\ closed' = TRUE
    /\ cut' = {s \in Streams : taken[s] < written[s]}
    /\ UNCHANGED <<verdict, output, deadline, cli, container, pipes, canceller>>

\* Wait returns an error that is no exit status, having closed the pipes too.
WaitFails ==
    /\ main = "wait"
    /\ main' = "join"
    /\ cli' = "lost"
    /\ closed' = TRUE
    /\ cut' = {s \in Streams : taken[s] < written[s]}
    /\ UNCHANGED <<verdict, output, deadline, container, pipes, canceller>>

\* wg.Wait; the result takes the bytes of the buffer.
JoinReturns ==
    /\ main = "join"
    /\ \A s \in Streams : reader[s] = "done"
    /\ main' = "check"
    /\ output' = buf
    /\ UNCHANGED <<verdict, deadline, closed, cut, cli, container, pipes, canceller>>

\* The container stays as it is, and nobody is going to remove it.
LeftAlone == container' = IF container = "up" THEN "left" ELSE container

\* docker rm -f takes effect, or fails, which KillContainer ignores.
ForceRemove ==
    \/ container' = IF container \in {"up", "left"} THEN "gone" ELSE container
    \/ LeftAlone

\* The deadline comes before the exit code, even if the CLI ended by itself; an error
\* of Wait comes last, and removes nothing.
Check ==
    /\ main = "check"
    /\ \/ deadline /\ main' = "kill" /\ UNCHANGED <<verdict, container>>
       \/ /\ ~deadline /\ cli # "lost"
          /\ main' = "returned" /\ verdict' = IF cli = "exit0" THEN "pass" ELSE "fail"
          /\ UNCHANGED container
       \/ /\ ~deadline /\ cli = "lost"
          /\ main' = "returned" /\ verdict' = "error"
          /\ LeftAlone
    /\ UNCHANGED <<output, deadline, closed, cut, cli, pipes, canceller>>

\* Mutant: the container is left to itself.
KillContainerSkipped ==
    /\ main = "kill"
    /\ main' = "returned" /\ verdict' = "timeout"
    /\ UNCHANGED <<output, deadline, closed, cut, cli, container, pipes, canceller>>

KillContainer ==
    /\ main = "kill"
    /\ main' = "returned" /\ verdict' = "timeout"
    /\ ForceRemove
    /\ UNCHANGED <<output, deadline, closed, cut, cli, pipes, canceller>>

-----------------------------------------------------------------------------
(* readOutput, one goroutine for each stream. *)

\* A Read returns some of what is in the pipe.
Read(s) ==
    /\ reader[s] = "scan" /\ ~closed
    /\ copied[s] = taken[s]
    /\ \E k \in (taken[s] + 1)..written[s] : taken' = [taken EXCEPT ![s] = k]
    /\ UNCHANGED <<call, cli, container, written, long, copied, reader, buf, canceller>>

\* Mutant: the buffer is written without the mutex, and the two may overwrite each other.
CopyRacing(s) ==
    /\ reader[s] = "scan" /\ copied[s] < taken[s] /\ long[s] # copied[s] + 1
    /\ copied' = [copied EXCEPT ![s] = @ + 1]
    /\ LET line == [stream |-> s, n |-> copied[s] + 1]
       IN  \/ buf' = Append(buf, line)
           \/ buf # << >> /\ buf' = [buf EXCEPT ![Len(buf)] = line]
    /\ UNCHANGED <<call, cli, container, written, long, taken, reader, canceller>>

\* The next line goes to the shared buffer, under the mutex.
Copy(s) ==
    /\ reader[s] = "scan" /\ copied[s] < taken[s] /\ long[s] # copied[s] + 1
    /\ copied' = [copied EXCEPT ![s] = @ + 1]
    /\ buf' = Append(buf, [stream |-> s, n |-> copied[s] + 1])
    /\ UNCHANGED <<call, cli, container, written, long, taken, reader, canceller>>

\* ErrTooLong: Scan returns false, and nobody reads the pipe any more.
LineTooLong(s) ==
    /\ reader[s] = "scan" /\ copied[s] < taken[s] /\ long[s] = copied[s] + 1
    /\ reader' = [reader EXCEPT ![s] = "done"]
    /\ UNCHANGED <<call, cli, container, written, long, taken, copied, buf, canceller>>

\* Mutant: what the Scanner has buffered is dropped.
EndOfInputEarly(s) ==
    /\ reader[s] = "scan"
    /\ closed \/ (cli # "running" /\ taken[s] = written[s])
    /\ reader' = [reader EXCEPT ![s] = "done"]
    /\ UNCHANGED <<call, cli, container, written, long, taken, copied, buf, canceller>>

\* The pipe is empty and the CLI gone, or Wait has closed it; what the Scanner had
\* buffered has been passed on.
EndOfInput(s) ==
    /\ reader[s] = "scan" /\ copied[s] = taken[s]
    /\ closed \/ (cli # "running" /\ taken[s] = written[s])
    /\ reader' = [reader EXCEPT ![s] = "done"]
    /\ UNCHANGED <<call, cli, container, written, long, taken, copied, buf, canceller>>

-----------------------------------------------------------------------------
(* Cancel, called by /stop or DELETE while the command is registered. *)

Cancel ==
    /\ canceller = "idle" /\ main \notin {"start", "returned"}
    /\ canceller' = "remove"
    /\ cli' = IF cli = "running" THEN "killed" ELSE cli
    /\ UNCHANGED <<call, container, pipes>>

\* Its KillContainer.
CancelRemoves ==
    /\ canceller = "remove"
    /\ canceller' = "done"
    /\ ForceRemove
    /\ UNCHANGED <<call, cli, pipes>>

\* The sweeper takes the job for stale and removes its container under the CLI; one
\* whose CLI was killed may also end by itself.
SweepRemoves ==
    /\ container \in {"up", "left"}
    /\ container' = "gone"
    /\ UNCHANGED <<call, cli, pipes, canceller>>

-----------------------------------------------------------------------------

Progress == Start \/ StartFails \/ WaitReturns \/ JoinReturns \/ Check \/ KillContainer

Reader(s) == Read(s) \/ Copy(s) \/ LineTooLong(s) \/ EndOfInput(s)

Next ==
    \/ Progress \/ WaitFails \/ DeadlinePasses \/ DeadlineKills
    \/ \E s \in Streams : Reader(s) \/ Write(s)
    \/ Launch \/ CommandExits
    \/ Cancel \/ CancelRemoves \/ SweepRemoves

Spec == Init /\ [][Next]_vars

\* Goroutines run, timers fire, processes can be killed and "docker rm" returns, with or
\* without success.  The test itself need not write, end, or even be started by docker.
Fairness ==
    /\ WF_vars(Progress) /\ WF_vars(DeadlinePasses) /\ WF_vars(DeadlineKills)
    /\ \A s \in Streams : WF_vars(Reader(s))
    /\ WF_vars(CancelRemoves)

FairSpec == Spec /\ Fairness

-----------------------------------------------------------------------------
(* Properties. *)

\* The log has the lines of each stream in the order they were written, each once and
\* without gaps, although two goroutines fill the buffer.
InOrder ==
    /\ \A i, j \in 1..Len(buf) :
          i < j /\ buf[i].stream = buf[j].stream => buf[i].n < buf[j].n
    /\ \A s \in Streams, k \in 1..MaxLines :
          k <= copied[s] <=> \E i \in 1..Len(buf) : buf[i] = [stream |-> s, n |-> k]

\* Result.Output, which shares the buffer's memory, is not written to after it was taken.
OutputFrozen == main \in {"check", "kill", "returned"} => output = buf

\* When Execute has returned from a command it started, its result is the finished log, which has all of a stream
\* unless a line was too long for the Scanner or Wait closed the pipe with lines in it.
OutputAccounted ==
    main = "returned" /\ cli # "none" =>
        /\ output = buf
        /\ \A s \in Streams : \/ copied[s] = written[s]
                              \/ s \in cut
                              \/ long[s] = copied[s] + 1

\* When Execute has returned and no Cancel is at work, a container is up only if docker rm
\* failed on it or Wait could not tell what became of its CLI.
ContainerGone == main = "returned" /\ canceller # "remove" => container # "up"

\* A pass means that the test itself ended, with 0, and left no container: a run that the
\* deadline, a Cancel or a sweep ended, in whatever order they came, is never one.
PassIsGenuine == verdict = "pass" => cli = "exit0" /\ container = "gone"

\* What the call has come to, for its caller: how the CLI and the container are, the
\* deadline once the CLI is gone, and in the end the verdict.
Known ==
    IF main = "start" THEN "none"
    ELSE IF main = "returned"
         THEN [pass |-> "exit0", fail |-> "exitN", timeout |-> "timeout", error |-> "error"][verdict]
    ELSE IF cli = "running" THEN [none |-> "starting", up |-> "up", gone |-> "exitN"][container]
    ELSE IF deadline THEN "timeout"
    ELSE [exit0 |-> "exit0", exitN |-> "exitN", killed |-> "exitN", lost |-> "error"][cli]

Phase == IF main \in {"start", "returned"} THEN [start |-> "ready", returned |-> "over"][main]
         ELSE "running"

Command == INSTANCE CommandRun WITH
    phase <- Phase, out <- Known,
    container <- IF container = "gone" THEN "none" ELSE container,
    rm <- canceller = "remove"

\* Deadline, Cancel, sweep, exit and the goroutines come to what CommandRun promises the
\* handler, in whatever order they happen: the verdict is what the command came to, only
\* a container that ended by itself passes, and after a timeout or a Cancel none is left
\* behind that docker rm was not tried on.
ImplementsCommandRun == Command!Spec

\* Execute returns, also when the test never ends, or when a line too long stops a
\* goroutine, the pipe fills and the CLI blocks.
ExecuteReturns == <>(main = "returned")
=============================================================================
