--------------------------- MODULE ProcessBroker ---------------------------
(***************************************************************************)
(* One subprocess call: ProcessBroker::run (crates/allen-exec/src/lib.rs), *)
(* on its own for exec.run of a program, or inside the call of the         *)
(* executor (crates/josh/src/executor_provider.rs), which passes its input *)
(* in a private file.                                                      *)
(*                                                                         *)
(* The calling thread, the two threads that read the child's pipes, the    *)
(* child, which leads a process group, a process it starts, and the clock  *)
(* all move on their own.  Bytes are counted, not kept.                    *)
(***************************************************************************)
EXTENDS Integers, FiniteSets

CONSTANTS
  Maximum,     \* the limit of each output stream
  MaxWritten,  \* bound: bytes written to the two streams together
  PipeSize     \* the bytes a pipe holds before a writer blocks

ASSUME BytesAssumption ==
  /\ Maximum \in Nat
  /\ MaxWritten \in Nat
  /\ PipeSize \in Nat \ {0}

Stream == {"stdout", "stderr"}
Process == {"leader", "helper"}

VARIABLES
  at,        \* where the calling thread is
  input,     \* the private input directory of an executor call
  caller,    \* who calls: the program ("exec") or the tool provider ("executor")
  result,    \* what ProcessBroker::run returns
  outcome,   \* what the call returns
  late,      \* the deadline has passed
  reapLate,  \* the second that terminate_and_reap waits has passed
  process,   \* the state of each process
  grouped,   \* is the helper still in the child's process group?
  code,      \* how the child ended, as far as the call has learned it
  open,      \* stream -> the processes that hold its write end
  pipe,      \* stream -> bytes written and not yet read
  written,   \* history: stream -> bytes ever written
  reader,    \* stream -> the thread of spawn_bounded_reader
  output,    \* stream -> what wait_for_process has received from that thread
  spared     \* history: a signal could not be sent

threadVars == <<at, input, caller, result, outcome>>
clockVars == <<late, reapLate>>
processVars == <<process, grouped, open>>
pipeVars == <<pipe, written, reader>>

vars == <<at, input, caller, result, outcome, late, reapLate, process, grouped, code,
          open, pipe, written, reader, output, spared>>

Unread == [at |-> "none", got |-> 0, exceeded |-> FALSE, failed |-> FALSE]

Init ==
  /\ caller \in {"exec", "executor"}
  /\ at = IF caller = "exec" THEN "stage" ELSE "input"
  /\ input = "none"
  /\ result = "none"
  /\ outcome = "none"
  /\ late = FALSE
  /\ reapLate = FALSE
  /\ process = [p \in Process |-> "none"]
  /\ grouped = TRUE
  /\ code = "none"
  /\ open = [s \in Stream |-> {}]
  /\ pipe = [s \in Stream |-> 0]
  /\ written = [s \in Stream |-> 0]
  /\ reader = [s \in Stream |-> Unread]
  /\ output = [s \in Stream |-> Unread]
  /\ spared = FALSE

-----------------------------------------------------------------------------
(* The call up to the moment the child runs.                               *)

(* What exec.run and the executor make of an error.                        *)
Reported(r) ==
  IF caller = "executor"
    THEN "ToolUnavailable"
    ELSE CASE r = "Ok" -> "Ok"
           [] r = "InputLimitExceeded" -> "exec.stdin_limit"
           [] r = "StdoutLimitExceeded" -> "exec.stdout_limit"
           [] r = "StderrLimitExceeded" -> "exec.stderr_limit"
           [] r = "TimedOut" -> "exec.timeout"
           [] OTHER -> "exec.unavailable"

(* An executor call removes its input before it reports anything.          *)
Return(r) ==
  /\ result' = r
  /\ at' = IF input = "present" THEN "cleanup" ELSE "over"
  /\ outcome' = IF input = "present" THEN outcome ELSE Reported(r)
  /\ UNCHANGED <<input, caller>>

PrivateInput_create ==
  /\ at = "input"
  /\ \/ /\ late
        /\ Return("TimedOut")
     \/ /\ ~late
        /\ Return("NoInput")
     \/ /\ ~late
        /\ input' = "present"
        /\ at' = "stage"
        /\ UNCHANGED <<caller, result, outcome>>
  /\ UNCHANGED <<clockVars, processVars, pipeVars, code, output, spared>>

Stage ==
  /\ at = "stage"
  /\ \/ late /\ Return("TimedOut")
     \/ ~late /\ caller = "exec" /\ Return("InputLimitExceeded")
     \/ ~late /\ Return("ExecutablePreparationFailed")
     \/ ~late /\ at' = "spawn" /\ UNCHANGED <<input, caller, result, outcome>>
  /\ UNCHANGED <<clockVars, processVars, pipeVars, code, output, spared>>

NotSpawned ==
  /\ at = "spawn"
  /\ Return(IF late THEN "TimedOut" ELSE "SpawnFailed")
  /\ UNCHANGED <<clockVars, processVars, pipeVars, code, output, spared>>

(* The child leads a group of its own and holds both pipes.  If a thread   *)
(* (a reader, or the one that feeds the input) cannot be started the call  *)
(* gives up; the readers it has started go on.                             *)
Spawn ==
  /\ at = "spawn"
  /\ ~late
  /\ process' = [process EXCEPT !["leader"] = "running"]
  /\ open' = [s \in Stream |-> {"leader"}]
  /\ \E started \in {{}, {"stdout"}, Stream}, complete \in BOOLEAN :
       /\ complete => started = Stream
       /\ reader' = [s \in Stream |-> IF s \in started THEN [Unread EXCEPT !.at = "reading"] ELSE Unread]
       /\ IF complete
            THEN at' = "stdout" /\ UNCHANGED result
            ELSE at' = "kill" /\ result' = "OutputReadFailed"
  /\ UNCHANGED <<input, caller, outcome, clockVars, grouped, pipe, written, code, output, spared>>

-----------------------------------------------------------------------------
(* The child, the process it starts, and the system.                       *)

Running(p) == process[p] = "running"

Write(p, s) ==
  /\ Running(p)
  /\ p \in open[s]
  /\ reader[s].at = "reading"
  /\ pipe[s] < PipeSize
  /\ written["stdout"] + written["stderr"] < MaxWritten
  /\ pipe' = [pipe EXCEPT ![s] = @ + 1]
  /\ written' = [written EXCEPT ![s] = @ + 1]
  /\ UNCHANGED <<threadVars, clockVars, processVars, reader, code, output, spared>>

Close(p, s) ==
  /\ Running(p)
  /\ p \in open[s]
  /\ open' = [open EXCEPT ![s] = @ \ {p}]
  /\ UNCHANGED <<threadVars, clockVars, process, grouped, pipeVars, code, output, spared>>

Fork ==
  /\ Running("leader")
  /\ process["helper"] = "none"
  /\ process' = [process EXCEPT !["helper"] = "running"]
  /\ open' = [s \in Stream |-> open[s] \cup (IF "leader" \in open[s] THEN {"helper"} ELSE {})]
  /\ UNCHANGED <<threadVars, clockVars, grouped, pipeVars, code, output, spared>>

LeaveGroup ==
  /\ Running("helper")
  /\ grouped
  /\ grouped' = FALSE
  /\ UNCHANGED <<threadVars, clockVars, process, open, pipeVars, code, output, spared>>

(* A process ends by itself, or some time after it was killed.             *)
Exit(p) ==
  /\ process[p] \in {"running", "killed"}
  /\ process' = [process EXCEPT ![p] = "exited"]
  /\ open' = [s \in Stream |-> open[s] \ {p}]
  /\ UNCHANGED <<threadVars, clockVars, grouped, pipeVars, code, output, spared>>

DeadlinePasses ==
  /\ ~late
  /\ late' = TRUE
  /\ UNCHANGED <<threadVars, reapLate, processVars, pipeVars, code, output, spared>>

ReapLimitPasses ==
  /\ at = "reap"
  /\ ~reapLate
  /\ reapLate' = TRUE
  /\ UNCHANGED <<threadVars, late, processVars, pipeVars, code, output, spared>>

-----------------------------------------------------------------------------
(* read_bounded: a reader takes what the pipe holds until it ends or one   *)
(* byte too many arrived, and then sends what it has and lets go.          *)

Least(a, b) == IF a <= b THEN a ELSE b

Room(s) == Maximum - reader[s].got

(* Mutant: a stream that just fits counts as too long.                     *)
ReadChunk_AtLimit(s) ==
  /\ reader[s].at = "reading"
  /\ \E count \in 1..pipe[s] :
       /\ pipe' = [pipe EXCEPT ![s] = @ - count]
       /\ reader' = [reader EXCEPT ![s] =
            [at |-> IF count >= Room(s) THEN "sent" ELSE "reading",
             got |-> reader[s].got + Least(count, Room(s)),
             exceeded |-> count >= Room(s),
             failed |-> FALSE]]
  /\ UNCHANGED <<threadVars, clockVars, processVars, written, code, output, spared>>

ReadChunk(s) ==
  /\ reader[s].at = "reading"
  /\ \E count \in 1..pipe[s] :
       /\ pipe' = [pipe EXCEPT ![s] = @ - count]
       /\ reader' = [reader EXCEPT ![s] =
            [at |-> IF count > Room(s) THEN "sent" ELSE "reading",
             got |-> reader[s].got + Least(count, Room(s)),
             exceeded |-> count > Room(s),
             failed |-> FALSE]]
  /\ UNCHANGED <<threadVars, clockVars, processVars, written, code, output, spared>>

Sent(s, failed) ==
  [reader EXCEPT ![s] =
     [at |-> "sent", got |-> reader[s].got, exceeded |-> FALSE, failed |-> failed]]

ReadEnds(s) ==
  /\ reader[s].at = "reading"
  /\ pipe[s] = 0
  /\ open[s] = {}
  /\ reader' = Sent(s, FALSE)
  /\ UNCHANGED <<threadVars, clockVars, processVars, pipe, written, code, output, spared>>

ReadFails(s) ==
  /\ reader[s].at = "reading"
  /\ reader' = Sent(s, TRUE)
  /\ UNCHANGED <<threadVars, clockVars, processVars, pipe, written, code, output, spared>>

-----------------------------------------------------------------------------
(* wait_for_process: outputs, then the child's status, then the clock.     *)

GiveUp(kind) ==
  /\ at' = "kill"
  /\ result' = kind
  /\ UNCHANGED <<input, caller, outcome>>

Received(s) == IF output[s].at = "none" /\ reader[s].at = "sent" THEN reader[s] ELSE output[s]

(* The two channels are looked at one after the other.                     *)
ReceiveStdout ==
  /\ at = "stdout"
  /\ output' = [output EXCEPT !["stdout"] = Received("stdout")]
  /\ IF Received("stdout").failed
       THEN GiveUp("OutputReadFailed")
       ELSE at' = "stderr" /\ UNCHANGED <<input, caller, result, outcome>>
  /\ UNCHANGED <<clockVars, processVars, pipeVars, code, spared>>

ReceiveStderr ==
  /\ at = "stderr"
  /\ output' = [output EXCEPT !["stderr"] = Received("stderr")]
  /\ CASE output'["stderr"].failed -> GiveUp("OutputReadFailed")
       [] ~output'["stderr"].failed /\ output["stdout"].exceeded -> GiveUp("StdoutLimitExceeded")
       [] ~output["stdout"].exceeded /\ output'["stderr"].exceeded -> GiveUp("StderrLimitExceeded")
       [] OTHER -> at' = "wait" /\ UNCHANGED <<input, caller, result, outcome>>
  /\ UNCHANGED <<clockVars, processVars, pipeVars, code, spared>>

(* The child is reaped once; the call is complete with its status and both *)
(* outputs, whichever of the three comes last.                             *)
Reaped == [process EXCEPT !["leader"] = IF @ = "exited" THEN "reaped" ELSE @]

Complete == code' # "none" /\ \A s \in Stream : output[s].at = "sent"

TryWait ==
  /\ at = "wait"
  /\ \/ /\ code = "none"
        /\ GiveUp("OutputReadFailed")
        /\ UNCHANGED <<process, code>>
     \/ /\ process' = Reaped
        /\ code' \in IF process["leader"] = "exited" THEN {"success", "failure"} ELSE {code}
        /\ \/ Complete /\ Return("Ok")
           \/ ~Complete /\ at' = "clock" /\ UNCHANGED <<input, caller, result, outcome>>
  /\ UNCHANGED <<clockVars, grouped, open, pipeVars, output, spared>>

(* Mutant: only the child's end is waited for.                             *)
CheckClock_Never ==
  /\ at = "clock"
  /\ at' = "stdout"
  /\ UNCHANGED <<input, caller, result, outcome>>
  /\ UNCHANGED <<clockVars, processVars, pipeVars, code, output, spared>>

CheckClock ==
  /\ at = "clock"
  /\ \/ late /\ GiveUp("TimedOut")
     \/ ~late /\ at' = "stdout" /\ UNCHANGED <<input, caller, result, outcome>>
  /\ UNCHANGED <<clockVars, processVars, pipeVars, code, output, spared>>

-----------------------------------------------------------------------------
(* terminate_and_reap: the group is killed even when its leader is gone,   *)
(* for another process of it may hold the pipes.                           *)

LeaderExited == process["leader"] \in {"exited", "reaped"}

Signalled(targets) ==
  [p \in Process |-> IF p \in targets /\ Running(p) THEN "killed" ELSE Reaped[p]]

Group == {"leader"} \cup (IF grouped THEN {"helper"} ELSE {})

(* Mutant: nothing is signalled once the leader has ended.                 *)
GroupKilled_LeaderOnly ==
  /\ at = "kill"
  /\ IF LeaderExited
       THEN process' = Reaped /\ Return(result)
       ELSE /\ process' = Signalled(Group)
            /\ at' = "reap" /\ UNCHANGED <<input, caller, result, outcome>>
  /\ UNCHANGED <<clockVars, grouped, open, pipeVars, code, output, spared>>

GroupKilled ==
  /\ at = "kill"
  /\ process' = Signalled(Group)
  /\ IF LeaderExited
       THEN Return(result)
       ELSE at' = "reap" /\ UNCHANGED <<input, caller, result, outcome>>
  /\ UNCHANGED <<clockVars, grouped, open, pipeVars, code, output, spared>>

(* The child cannot be asked for, or the group cannot be signalled: then   *)
(* the child is, if it has not ended.                                      *)
GroupSpared ==
  /\ at = "kill"
  /\ spared' = TRUE
  /\ \/ process' \in {process, Reaped} /\ Return("TerminationFailed")
     \/ /\ ~LeaderExited
        /\ process' = Signalled({"leader"})
        /\ at' = "reap"
        /\ UNCHANGED <<input, caller, result, outcome>>
  /\ UNCHANGED <<clockVars, grouped, open, pipeVars, code, output>>

Reap ==
  /\ at = "reap"
  /\ \/ process["leader"] = "exited" /\ process' = Reaped /\ Return(result)
     \/ /\ process["leader"] # "exited"
        /\ reapLate
        /\ UNCHANGED process
        /\ Return("TerminationFailed")
  /\ UNCHANGED <<clockVars, grouped, open, pipeVars, code, output, spared>>

ReapFails ==
  /\ at = "reap"
  /\ Return("TerminationFailed")
  /\ UNCHANGED <<clockVars, processVars, pipeVars, code, output, spared>>

(* The executor's input is removed, once more by Drop if that fails, and   *)
(* the result is looked at: the status first, then the answer it prints.   *)
Answers ==
  {"ToolUnavailable"} \cup (IF result = "Ok" /\ code = "success" THEN {"Ok"} ELSE {})

Cleanup ==
  /\ at = "cleanup"
  /\ at' = "over"
  /\ \/ input' = "none" /\ outcome' \in Answers
     \/ input' \in {"none", "left"} /\ outcome' = "ToolUnavailable"
  /\ UNCHANGED <<caller, result, clockVars, processVars, pipeVars, code, output, spared>>

Thread ==
  \/ PrivateInput_create \/ Stage \/ NotSpawned \/ Spawn \/ ReceiveStdout \/ ReceiveStderr
  \/ TryWait \/ CheckClock \/ GroupKilled \/ GroupSpared \/ Reap \/ Cleanup

Next ==
  \/ Thread
  \/ ReapFails
  \/ \E s \in Stream : ReadChunk(s) \/ ReadEnds(s) \/ ReadFails(s)
  \/ \E p \in Process, s \in Stream : Write(p, s) \/ Close(p, s)
  \/ Fork
  \/ LeaveGroup
  \/ \E p \in Process : Exit(p)
  \/ DeadlinePasses
  \/ ReapLimitPasses

Spec == Init /\ [][Next]_vars

(* The calling thread runs and time passes; nothing is asked of the child. *)
FairSpec == Spec /\ WF_vars(Thread) /\ WF_vars(DeadlinePasses) /\ WF_vars(ReapLimitPasses)

-----------------------------------------------------------------------------
Done == at \in {"cleanup", "over"}

(* A run that reports success returns every byte that was ever written to  *)
(* either stream, though the child, the process it started and the reader  *)
(* threads end in any order: nobody can write any more, nothing is left in *)
(* a pipe, and the child has been reaped (wait_for_process).  The limit is *)
(* exact: a stream is reported as exceeded if and only if more was written *)
(* than fits, also when it was filled to the last byte (read_bounded).     *)
(* What exec.run or the executor reports as a success is such a run, and   *)
(* the executor's moreover one whose child exited with success and whose   *)
(* private input is gone.                                                  *)
OutputIsWhole ==
  /\ outcome = "Ok" =>
       result = "Ok" /\ (caller = "executor" => code = "success" /\ input = "none")
  /\ Done /\ result = "Ok" =>
       /\ process["leader"] = "reaped"
       /\ \A s \in Stream :
            open[s] = {} /\ output[s].got = written[s] /\ written[s] <= Maximum
  /\ \A s \in Stream : reader[s].at = "sent" /\ ~reader[s].failed =>
       (reader[s].exceeded <=> written[s] > Maximum)
  /\ result = "StdoutLimitExceeded" => written["stdout"] > Maximum
  /\ result = "StderrLimitExceeded" => written["stderr"] > Maximum

(* A run that reports an error leaves no process of the child's group      *)
(* running and the child reaped, also when the child had ended before the  *)
(* process it started (terminate_and_reap); only TerminationFailed, and a  *)
(* system that refuses the signal, are excepted.                           *)
FailureEndsTheGroup ==
  Done /\ result \notin {"Ok", "TerminationFailed"} /\ ~spared =>
    /\ process["leader"] \in {"none", "reaped"}
    /\ grouped => ~Running("helper")

(* The call returns, whatever the child and what it started do: also when  *)
(* they never end, never close a pipe, or ignore being killed.             *)
CallReturns == <>(at = "over")
=============================================================================
