------------------------- MODULE ProcessBrokerProofs -------------------------
(***************************************************************************)
(* Proofs about one subprocess call, for every output limit, every size of *)
(* a pipe and any number of bytes: a call that succeeds returns the whole  *)
(* output, a limit is reported if and only if it was passed, and a call    *)
(* that fails leaves no process of the child's group running.              *)
(***************************************************************************)
EXTENDS ProcessBroker, TLAPS

USE SMTT(60)

Before == {"input", "stage", "spawn"}
Waiting == {"stdout", "stderr", "wait", "clock"}
Failures == {"OutputReadFailed", "StdoutLimitExceeded", "StderrLimitExceeded", "TimedOut"}
Early == {"TimedOut", "NoInput", "InputLimitExceeded", "SpawnFailed", "ExecutablePreparationFailed"}
Results == Failures \cup Early \cup {"none", "Ok", "TerminationFailed"}
Processes == [Process -> {"none", "running", "killed", "exited", "reaped"}]
Reads == [at : {"none", "reading", "sent"}, got : Nat, exceeded : BOOLEAN, failed : BOOLEAN]

(* The types of what the call, the processes and the system keep.          *)
Typed ==
  /\ at \in Before \cup Waiting \cup {"kill", "reap", "cleanup", "over"}
  /\ result \in Results
  /\ code \in {"none", "success", "failure"}
  /\ process \in Processes
  /\ grouped \in BOOLEAN
  /\ spared \in BOOLEAN
  /\ open \in [Stream -> SUBSET Process]
  /\ pipe \in [Stream -> Nat]
  /\ written \in [Stream -> Nat]
  /\ reader \in [Stream -> Reads]
  /\ output \in [Stream -> Reads]

(* What a reader has counted: everything that was written is with it or in *)
(* the pipe, unless it let go of the pipe because too much had come.       *)
Counted(s) ==
  /\ reader[s].got <= Maximum
  /\ reader[s].exceeded => reader[s].at = "sent" /\ written[s] > Maximum
  /\ ~reader[s].exceeded => reader[s].got + pipe[s] = written[s]
  /\ reader[s].at = "none" => reader[s].got = 0 /\ pipe[s] = 0 /\ ~reader[s].exceeded
  /\ reader[s].at = "sent" /\ ~reader[s].failed /\ ~reader[s].exceeded =>
       pipe[s] = 0 /\ open[s] = {}

(* What the call has received is what the reader sent.                     *)
Delivered(s) ==
  /\ output[s].at \in {"none", "sent"}
  /\ output[s].at = "sent" => output[s] = reader[s]
  /\ output[s].at = "none" => ~output[s].failed /\ ~output[s].exceeded

Streams == \A s \in Stream : Counted(s) /\ Delivered(s)

Good(s) == ~output[s].failed /\ ~output[s].exceeded

(* What the calling thread relies on where it is.                          *)
Known ==
  /\ at \in Before =>
       /\ result = "none"
       /\ \A p \in Process : process[p] = "none"
       /\ \A s \in Stream : reader[s].at = "none"
  /\ at \in Waiting => result = "none"
  /\ at \in {"kill", "reap"} => result \in Failures
  /\ at \in Waiting \cup {"kill", "reap"} => process["leader"] # "none"
  /\ at \in {"stdout", "wait", "clock"} => \A s \in Stream : Good(s)
  /\ at = "stderr" => ~output["stdout"].failed /\ Good("stderr")
  /\ code # "none" => process["leader"] = "reaped"
  /\ result = "Ok" => code # "none" /\ \A s \in Stream : output[s].at = "sent" /\ Good(s)
  /\ result = "StdoutLimitExceeded" => written["stdout"] > Maximum
  /\ result = "StderrLimitExceeded" => written["stderr"] > Maximum

(* Whom a signal has reached.                                              *)
Ended ==
  /\ at = "reap" => process["leader"] \in {"killed", "exited"}
  /\ at = "reap" /\ ~spared /\ grouped => process["helper"] # "running"

IInv == Typed /\ Streams /\ Known /\ Ended /\ FailureEndsTheGroup

-----------------------------------------------------------------------------
(* The call starts in the invariant.                                       *)
LEMMA InitInvariant == Init => IInv
<1> SUFFICES ASSUME Init PROVE IInv
  OBVIOUS
<1> USE BytesAssumption DEF Init, Unread, Process, Stream
<1>1. Typed
  <2>1. Unread \in Reads
    BY Zenon DEF Reads
  <2>2. grouped \in BOOLEAN /\ spared \in BOOLEAN
    BY Zenon
  <2> HIDE DEF Unread
  <2> QED
    BY <2>1, <2>2 DEF Typed, Processes, Results, Before
<1>2. Streams
  BY DEF Streams, Counted, Delivered
<1>3. Known
  BY DEF Known, Good, Before, Waiting
<1>4. Ended /\ FailureEndsTheGroup
  BY DEF Ended, FailureEndsTheGroup, Running, Done
<1> QED
  BY <1>1, <1>2, <1>3, <1>4 DEF IInv

(* Waiting for the child changes the leader only, and only if it has ended.*)
LEMMA ReapedProcesses ==
  ASSUME process \in Processes
  PROVE  /\ Reaped \in Processes
         /\ Reaped["helper"] = process["helper"]
         /\ process["leader"] = "exited" => Reaped["leader"] = "reaped"
         /\ process["leader"] # "exited" => Reaped["leader"] = process["leader"]
BY DEF Reaped, Processes, Process

(* A signal ends those it reaches.                                         *)
LEMMA SignalledProcesses ==
  ASSUME process \in Processes, NEW targets \in SUBSET Process, "leader" \in targets
  PROVE  /\ Signalled(targets) \in Processes
         /\ process["leader"] = "running" => Signalled(targets)["leader"] = "killed"
         /\ process["leader"] # "running" => Signalled(targets)["leader"] = Reaped["leader"]
         /\ "helper" \in targets => Signalled(targets)["helper"] # "running"
BY ReapedProcesses DEF Signalled, Running, Processes, Process

(* A call that ends before there is a child.                               *)
LEMMA PreparationKeeps ==
  ASSUME IInv, NEW r \in Early, at \in Before, Return(r),
         UNCHANGED <<clockVars, processVars, pipeVars, code, output, spared>>
  PROVE  IInv'
<1> USE BytesAssumption DEF IInv, Return,
                           threadVars, clockVars, processVars, pipeVars
<1>1. Typed'
  BY DEF Typed, Results, Failures, Early
<1>2. Streams'
  BY DEF Streams, Counted, Delivered
<1>3. Known'
  BY DEF Known, Good, Before, Waiting, Failures, Results, Early
<1>4. Ended'
  BY DEF Ended
<1>5. FailureEndsTheGroup'
  BY DEF Early, FailureEndsTheGroup, Done, Running, Known, Process
<1> QED
  BY <1>1, <1>2, <1>3, <1>4, <1>5

(* A call gets ready to start the child.                                   *)
LEMMA PreparedKeeps ==
  ASSUME IInv, at \in Before, at' \in Before, UNCHANGED <<caller, result, outcome>>,
         UNCHANGED <<clockVars, processVars, pipeVars, code, output, spared>>
  PROVE  IInv'
<1> USE BytesAssumption DEF IInv,
                           threadVars, clockVars, processVars, pipeVars
<1>1. Typed'
  BY DEF Typed
<1>2. Streams'
  BY DEF Streams, Counted, Delivered
<1>3. Known'
  BY DEF Known, Good, Before, Waiting
<1>4. Ended'
  BY DEF Ended, Before
<1>5. FailureEndsTheGroup'
  BY DEF FailureEndsTheGroup, Done, Before
<1> QED
  BY <1>1, <1>2, <1>3, <1>4, <1>5

(* The child is started, with the threads that read its pipes.             *)
LEMMA SpawnKeeps ==
  ASSUME IInv, Spawn
  PROVE  IInv'
<1> USE BytesAssumption DEF IInv, Spawn, Unread,
                           threadVars, clockVars, processVars, pipeVars
<1>r. /\ reader' \in [Stream -> Reads]
      /\ \A s \in Stream : /\ reader'[s].at \in {"none", "reading"} /\ reader'[s].got = 0
                            /\ ~reader'[s].exceeded /\ ~reader'[s].failed
  <2> PICK started \in {{}, {"stdout"}, Stream} :
        reader' = [s \in Stream |->
                     IF s \in started THEN [Unread EXCEPT !.at = "reading"] ELSE Unread]
    BY Zenon DEF Spawn
  <2>1. Unread \in Reads
    BY Zenon DEF Reads
  <2>2. Unread.at = "none" /\ Unread.got = 0 /\ ~Unread.exceeded /\ ~Unread.failed
    OBVIOUS
  <2> HIDE DEF Unread
  <2>3. LET r == [Unread EXCEPT !.at = "reading"] IN
        /\ r \in Reads /\ r.at = "reading" /\ r.got = 0 /\ ~r.exceeded /\ ~r.failed
    BY <2>1, <2>2 DEF Reads
  <2> QED
    BY <2>1, <2>2, <2>3
<1>1. Typed'
  <2>1. open' \in [Stream -> SUBSET Process] /\ process' \in Processes
    BY DEF Typed, Processes, Process
  <2>2. at' \in Waiting \cup {"kill"} /\ result' \in Results
    BY DEF Typed, Waiting, Results, Failures
  <2> QED
    BY <1>r, <2>1, <2>2 DEF Typed
<1>2. Streams'
  BY <1>r DEF Typed, Streams, Counted, Delivered, Known, Before
<1>3. Known'
  <2>1. process'["leader"] = "running" /\ process["leader"] = "none"
    BY DEF Typed, Processes, Process, Known, Before
  <2>2. \A s \in Stream : Good(s)
    BY <1>r DEF Good, Streams, Delivered, Known, Before
  <2>3. at' \in {"stdout", "kill"} /\ (at' = "stdout" => result' = "none")
        /\ (at' = "kill" => result' = "OutputReadFailed")
    BY DEF Known, Before
  <2> QED
    BY <2>1, <2>2, <2>3 DEF Known, Good, Before, Waiting, Failures, Stream
<1>4. Ended'
  BY DEF Ended
<1>5. FailureEndsTheGroup'
  BY DEF FailureEndsTheGroup, Done
<1> QED
  BY <1>1, <1>2, <1>3, <1>4, <1>5

(* A process writes a byte.                                                *)
LEMMA WriteKeeps ==
  ASSUME IInv, NEW p \in Process, NEW s \in Stream, Write(p, s)
  PROVE  IInv'
<1> USE BytesAssumption DEF IInv, Write,
                           threadVars, clockVars, processVars, pipeVars
<1>1. Typed'
  BY DEF Typed, Reads
<1>2. Streams'
  <2>1. /\ pipe'[s] = pipe[s] + 1 /\ written'[s] = written[s] + 1
        /\ \A t \in Stream : t # s => pipe'[t] = pipe[t] /\ written'[t] = written[t]
    BY DEF Typed
  <2>2. ASSUME NEW t \in Stream PROVE Counted(t)'
    BY <2>1 DEF Typed, Reads, Streams, Counted
  <2> QED
    BY <2>2 DEF Streams, Delivered
<1>3. Known'
  <2>1. \A t \in Stream : written'[t] >= written[t] /\ written[t] \in Nat /\ written'[t] \in Nat
    BY DEF Typed
  <2>2. written["stdout"] > Maximum => written'["stdout"] > Maximum
    BY <2>1 DEF Stream
  <2>3. written["stderr"] > Maximum => written'["stderr"] > Maximum
    BY <2>1 DEF Stream
  <2> QED
    BY <2>2, <2>3 DEF Known, Good, Before, Waiting
<1>4. Ended'
  BY DEF Ended
<1>5. FailureEndsTheGroup'
  BY DEF FailureEndsTheGroup, Done, Running
<1> QED
  BY <1>1, <1>2, <1>3, <1>4, <1>5

(* A process closes a pipe.                                                *)
LEMMA CloseKeeps ==
  ASSUME IInv, NEW p \in Process, NEW s \in Stream, Close(p, s)
  PROVE  IInv'
<1> USE BytesAssumption DEF IInv, Close,
                           threadVars, clockVars, processVars, pipeVars
<1>1. Typed'
  BY DEF Typed
<1>2. Streams'
  BY DEF Typed, Streams, Counted, Delivered
<1>3. Known'
  BY DEF Known, Good, Before, Waiting
<1>4. Ended'
  BY DEF Ended
<1>5. FailureEndsTheGroup'
  BY DEF FailureEndsTheGroup, Done, Running
<1> QED
  BY <1>1, <1>2, <1>3, <1>4, <1>5

(* The child starts a process, which gets the pipes it has.                *)
LEMMA ForkKeeps ==
  ASSUME IInv, Fork
  PROVE  IInv'
<1> USE BytesAssumption DEF IInv, Fork, Running,
                           threadVars, clockVars, processVars, pipeVars
<1>1. Typed'
  BY DEF Typed, Processes, Process
<1>2. Streams'
  BY DEF Typed, Streams, Counted, Delivered
<1>3. Known'
  <2>1. process'["leader"] = "running" /\ process["leader"] = "running"
    BY DEF Typed, Processes, Process
  <2> QED
    BY <2>1 DEF Known, Good, Before, Waiting, Process
<1>4. Ended'
  BY DEF Ended
<1>5. FailureEndsTheGroup'
  BY DEF FailureEndsTheGroup, Done
<1> QED
  BY <1>1, <1>2, <1>3, <1>4, <1>5

(* A process leaves the child's group.                                     *)
LEMMA LeaveKeeps ==
  ASSUME IInv, LeaveGroup
  PROVE  IInv'
<1> USE BytesAssumption DEF IInv, LeaveGroup,
                           threadVars, clockVars, processVars, pipeVars
<1>1. Typed'
  <2>1. grouped' \in BOOLEAN
    BY Zenon
  <2> QED
    BY <2>1 DEF Typed
<1>2. Streams'
  BY DEF Streams, Counted, Delivered
<1>3. Known'
  BY DEF Known, Good, Before, Waiting
<1>4. Ended'
  BY DEF Ended
<1>5. FailureEndsTheGroup'
  BY DEF FailureEndsTheGroup, Done, Running
<1> QED
  BY <1>1, <1>2, <1>3, <1>4, <1>5

(* A process ends, and its end of each pipe with it.                       *)
LEMMA ExitKeeps ==
  ASSUME IInv, NEW p \in Process, Exit(p)
  PROVE  IInv'
<1> USE BytesAssumption DEF IInv, Exit,
                           threadVars, clockVars, processVars, pipeVars
<1>1. Typed'
  BY DEF Typed, Processes
<1>2. Streams'
  BY DEF Typed, Streams, Counted, Delivered
<1>3. Known'
  <2>1. process'[p] = "exited" /\ \A q \in Process : q # p => process'[q] = process[q]
    BY DEF Typed, Processes
  <2> QED
    BY <2>1 DEF Known, Good, Before, Waiting, Process
<1>4. Ended'
  <2>1. process'[p] = "exited" /\ \A q \in Process : q # p => process'[q] = process[q]
    BY DEF Typed, Processes
  <2> QED
    BY <2>1 DEF Ended, Process
<1>5. FailureEndsTheGroup'
  <2>1. process'[p] = "exited" /\ \A q \in Process : q # p => process'[q] = process[q]
    BY DEF Typed, Processes
  <2> QED
    BY <2>1 DEF FailureEndsTheGroup, Done, Running, Process
<1> QED
  BY <1>1, <1>2, <1>3, <1>4, <1>5

(* Time passes.                                                            *)
LEMMA ClockKeeps ==
  ASSUME IInv, DeadlinePasses \/ ReapLimitPasses
  PROVE  IInv'
<1> USE BytesAssumption DEF IInv, DeadlinePasses, ReapLimitPasses,
                           threadVars, clockVars, processVars, pipeVars
<1>1. Typed'
  BY DEF Typed
<1>2. Streams'
  BY DEF Streams, Counted, Delivered
<1>3. Known'
  BY DEF Known, Good, Before, Waiting
<1>4. Ended'
  BY DEF Ended
<1>5. FailureEndsTheGroup'
  BY DEF FailureEndsTheGroup, Done, Running
<1> QED
  BY <1>1, <1>2, <1>3, <1>4, <1>5

(* A reader takes a part of what the pipe holds.                           *)
LEMMA ReadChunkKeeps ==
  ASSUME IInv, NEW s \in Stream, ReadChunk(s)
  PROVE  IInv'
<1> USE BytesAssumption DEF IInv,
                           threadVars, clockVars, processVars, pipeVars
<1>v. /\ reader[s].at = "reading"
      /\ UNCHANGED <<threadVars, clockVars, processVars, written, code, output, spared>>
  BY Zenon DEF ReadChunk
<1> DEFINE after(count) == [at |-> IF count > Room(s) THEN "sent" ELSE "reading",
                            got |-> reader[s].got + Least(count, Room(s)),
                            exceeded |-> count > Room(s), failed |-> FALSE]
<1>p. PICK count \in 1..pipe[s] : /\ pipe' = [pipe EXCEPT ![s] = @ - count]
                                 /\ reader' = [reader EXCEPT ![s] = after(count)]
  BY Zenon DEF ReadChunk
<1>c. /\ reader[s] \in Reads /\ reader[s].got <= Maximum /\ pipe[s] \in Nat /\ written[s] \in Nat
      /\ reader[s].got + pipe[s] = written[s] /\ count \in 1..pipe[s] /\ reader[s].got \in Nat
  BY <1>v DEF Typed, Streams, Counted, Reads
<1>a. after(count) \in Reads
  BY <1>c DEF Reads, Room, Least
<1>r. /\ reader' \in [Stream -> Reads] /\ pipe' \in [Stream -> Nat]
      /\ pipe'[s] = pipe[s] - count
      /\ reader'[s].at = IF count > Room(s) THEN "sent" ELSE "reading"
      /\ reader'[s].got = reader[s].got + Least(count, Room(s))
      /\ reader'[s].exceeded = (count > Room(s))
      /\ \A t \in Stream : t # s => reader'[t] = reader[t] /\ pipe'[t] = pipe[t]
  BY <1>a, <1>c, <1>p DEF Typed
<1>1. Typed'
  BY <1>v, <1>r DEF Typed
<1>2. Streams'
  <2>1. ASSUME NEW t \in Stream PROVE Counted(t)'
    <3>1. CASE t = s
      BY <1>c, <1>r, <1>v, <3>1 DEF Typed, Reads, Streams, Counted, Room, Least
    <3>2. CASE t # s
      BY <1>r, <1>v, <3>2 DEF Streams, Counted
    <3> QED
      BY <3>1, <3>2
  <2>2. ASSUME NEW t \in Stream PROVE Delivered(t)'
    BY <1>r, <1>v, <2>2 DEF Streams, Delivered
  <2> QED
    BY <2>1, <2>2 DEF Streams
<1>3. Known'
  BY <1>v, <1>r DEF Known, Good, Before, Waiting
<1>4. Ended'
  BY <1>v DEF Ended
<1>5. FailureEndsTheGroup'
  BY <1>v DEF FailureEndsTheGroup, Done, Running
<1> QED
  BY <1>1, <1>2, <1>3, <1>4, <1>5

(* A reader finds the end of an empty pipe nobody holds.                   *)
LEMMA ReadEndsKeeps ==
  ASSUME IInv, NEW s \in Stream, ReadEnds(s)
  PROVE  IInv'
<1> USE BytesAssumption DEF IInv,
                           threadVars, clockVars, processVars, pipeVars
<1>v. /\ reader[s].at = "reading" /\ pipe[s] = 0 /\ open[s] = {}
      /\ UNCHANGED <<threadVars, clockVars, processVars, pipe, written, code, output, spared>>
  BY Zenon DEF ReadEnds
<1>s. reader' = [reader EXCEPT ![s] =
        [at |-> "sent", got |-> reader[s].got, exceeded |-> FALSE, failed |-> FALSE]]
  BY Zenon DEF ReadEnds, Sent
<1>c. reader[s] \in Reads /\ ~reader[s].exceeded
  BY <1>v DEF Typed, Streams, Counted
<1>r. /\ reader' \in [Stream -> Reads]
      /\ reader'[s].at = "sent" /\ reader'[s].got = reader[s].got
      /\ ~reader'[s].exceeded /\ reader'[s].failed = FALSE
      /\ \A t \in Stream : t # s => reader'[t] = reader[t]
  BY <1>c, <1>s DEF Typed, Reads
<1>1. Typed'
  BY <1>r, <1>v DEF Typed
<1>2. Streams'
  <2>1. ASSUME NEW t \in Stream PROVE Counted(t)'
    BY <1>r, <1>c, <1>v DEF Streams, Counted
  <2>2. ASSUME NEW t \in Stream PROVE Delivered(t)'
    BY <1>r, <1>v, <2>2 DEF Streams, Delivered
  <2> QED
    BY <2>1, <2>2 DEF Streams
<1>3. Known'
  BY <1>r, <1>v DEF Known, Good, Before, Waiting
<1>4. Ended'
  BY <1>v DEF Ended
<1>5. FailureEndsTheGroup'
  BY <1>v DEF FailureEndsTheGroup, Done, Running
<1> QED
  BY <1>1, <1>2, <1>3, <1>4, <1>5

(* A reader fails.                                                         *)
LEMMA ReadFailsKeeps ==
  ASSUME IInv, NEW s \in Stream, ReadFails(s)
  PROVE  IInv'
<1> USE BytesAssumption DEF IInv,
                           threadVars, clockVars, processVars, pipeVars
<1>v. /\ reader[s].at = "reading"
      /\ UNCHANGED <<threadVars, clockVars, processVars, pipe, written, code, output, spared>>
  BY Zenon DEF ReadFails
<1>s. reader' = [reader EXCEPT ![s] =
        [at |-> "sent", got |-> reader[s].got, exceeded |-> FALSE, failed |-> TRUE]]
  BY Zenon DEF ReadFails, Sent
<1>c. reader[s] \in Reads /\ ~reader[s].exceeded
  BY <1>v DEF Typed, Streams, Counted
<1>r. /\ reader' \in [Stream -> Reads]
      /\ reader'[s].at = "sent" /\ reader'[s].got = reader[s].got
      /\ ~reader'[s].exceeded /\ reader'[s].failed = TRUE
      /\ \A t \in Stream : t # s => reader'[t] = reader[t]
  BY <1>c, <1>s DEF Typed, Reads
<1>1. Typed'
  BY <1>r, <1>v DEF Typed
<1>2. Streams'
  <2>1. ASSUME NEW t \in Stream PROVE Counted(t)'
    BY <1>r, <1>c, <1>v DEF Streams, Counted
  <2>2. ASSUME NEW t \in Stream PROVE Delivered(t)'
    BY <1>r, <1>v, <2>2 DEF Streams, Delivered
  <2> QED
    BY <2>1, <2>2 DEF Streams
<1>3. Known'
  BY <1>r, <1>v DEF Known, Good, Before, Waiting
<1>4. Ended'
  BY <1>v DEF Ended
<1>5. FailureEndsTheGroup'
  BY <1>v DEF FailureEndsTheGroup, Done, Running
<1> QED
  BY <1>1, <1>2, <1>3, <1>4, <1>5

(* The first channel is looked at.                                         *)
LEMMA ReceiveStdoutKeeps ==
  ASSUME IInv, ReceiveStdout
  PROVE  IInv'
<1> USE BytesAssumption DEF IInv, ReceiveStdout, GiveUp,
                           threadVars, clockVars, processVars, pipeVars
<1>o. /\ output' \in [Stream -> Reads] /\ output'["stdout"] = Received("stdout")
      /\ output'["stderr"] = output["stderr"]
  BY DEF Typed, Received, Stream
<1>d. \A s \in Stream : Delivered(s)'
  BY <1>o DEF Streams, Delivered, Received, Stream
<1>1. Typed'
  BY <1>o DEF Typed, Results, Failures, Waiting
<1>2. Streams'
  BY <1>d DEF Streams, Counted
<1>3. Known'
  BY <1>o, <1>d DEF Known, Good, Before, Waiting, Failures, Stream
<1>4. Ended'
  BY DEF Ended
<1>5. FailureEndsTheGroup'
  BY DEF FailureEndsTheGroup, Done
<1> QED
  BY <1>1, <1>2, <1>3, <1>4, <1>5

(* The second channel is looked at, and then both limits.                  *)
LEMMA ReceiveStderrKeeps ==
  ASSUME IInv, ReceiveStderr
  PROVE  IInv'
<1> USE BytesAssumption DEF IInv, ReceiveStderr, GiveUp,
                           threadVars, clockVars, processVars, pipeVars
<1>o. /\ output' \in [Stream -> Reads] /\ output'["stderr"] = Received("stderr")
      /\ output'["stdout"] = output["stdout"]
  BY DEF Typed, Received, Stream
<1>d. \A s \in Stream : Delivered(s)'
  BY <1>o DEF Streams, Delivered, Received, Stream
<1>1. Typed'
  BY <1>o DEF Typed, Results, Failures, Waiting
<1>2. Streams'
  BY <1>d DEF Streams, Counted
<1>3. Known'
  <2>1. \A s \in Stream : output'[s].exceeded => written[s] > Maximum
    BY <1>d DEF Streams, Counted, Delivered, Typed
  <2> QED
    BY <1>o, <1>d, <2>1 DEF Known, Good, Before, Waiting, Failures, Stream
<1>4. Ended'
  BY DEF Ended
<1>5. FailureEndsTheGroup'
  BY DEF FailureEndsTheGroup, Done
<1> QED
  BY <1>1, <1>2, <1>3, <1>4, <1>5

(* The child is waited for, and the call may be complete.                  *)
LEMMA TryWaitKeeps ==
  ASSUME IInv, TryWait
  PROVE  IInv'
<1> USE BytesAssumption DEF IInv, TryWait, GiveUp, Complete, Return,
                           threadVars, clockVars, processVars, pipeVars
<1>1. Typed'
  BY ReapedProcesses DEF Typed, Results, Failures, Waiting
<1>2. Streams'
  BY DEF Streams, Counted, Delivered
<1>3. Known'
  BY ReapedProcesses DEF Typed, Known, Good, Before, Waiting, Failures
<1>4. Ended'
  BY DEF Ended
<1>5. FailureEndsTheGroup'
  BY DEF FailureEndsTheGroup, Done, Known, Waiting
<1> QED
  BY <1>1, <1>2, <1>3, <1>4, <1>5

(* The clock is looked at.                                                 *)
LEMMA CheckClockKeeps ==
  ASSUME IInv, CheckClock
  PROVE  IInv'
<1> USE BytesAssumption DEF IInv, CheckClock, GiveUp,
                           threadVars, clockVars, processVars, pipeVars
<1>1. Typed'
  BY DEF Typed, Results, Failures, Waiting
<1>2. Streams'
  BY DEF Streams, Counted, Delivered
<1>3. Known'
  BY DEF Known, Good, Before, Waiting, Failures
<1>4. Ended'
  BY DEF Ended
<1>5. FailureEndsTheGroup'
  BY DEF FailureEndsTheGroup, Done
<1> QED
  BY <1>1, <1>2, <1>3, <1>4, <1>5

(* The group is killed, and the child is over or is waited for.            *)
LEMMA GroupKilledKeeps ==
  ASSUME IInv, GroupKilled
  PROVE  IInv'
<1> USE BytesAssumption DEF IInv, GroupKilled, Return, LeaderExited,
                           threadVars, clockVars, processVars, pipeVars
<1>1a. Group \in SUBSET Process /\ "leader" \in Group /\ (grouped => "helper" \in Group)
  BY DEF Group, Process
<1>g. /\ process' \in Processes
      /\ process["leader"] = "running" => process'["leader"] = "killed"
      /\ process["leader"] = "exited" => process'["leader"] = "reaped"
      /\ process["leader"] \notin {"running", "exited"} => process'["leader"] = process["leader"]
      /\ grouped => process'["helper"] # "running"
  BY <1>1a, ReapedProcesses, SignalledProcesses DEF Typed
<1>1. Typed'
  BY <1>g DEF Typed
<1>2. Streams'
  BY DEF Streams, Counted, Delivered
<1>3. Known'
  BY <1>g DEF Typed, Known, Good, Before, Waiting, Failures
<1>4. Ended'
  BY <1>g DEF Typed, Known, Ended, Processes, Process
<1>5. FailureEndsTheGroup'
  BY <1>g DEF Typed, Known, FailureEndsTheGroup, Done, Running, Failures
<1> QED
  BY <1>1, <1>2, <1>3, <1>4, <1>5

(* The signal is refused.                                                  *)
LEMMA GroupSparedKeeps ==
  ASSUME IInv, GroupSpared
  PROVE  IInv'
<1> USE BytesAssumption DEF IInv, GroupSpared, Return, LeaderExited,
                           threadVars, clockVars, processVars, pipeVars
<1>g. /\ process' \in Processes /\ process'["leader"] # "none"
      /\ process["leader"] = "reaped" => process'["leader"] = "reaped"
      /\ at' = "reap" => process'["leader"] = "killed"
  <2>1. process \in Processes /\ process["leader"] # "none" /\ {"leader"} \in SUBSET Process
    BY DEF Typed, Known, Process
  <2>2. process["leader"] \in {"running", "killed", "exited", "reaped"}
    BY <2>1 DEF Processes, Process
  <2> QED
    BY <2>1, <2>2, ReapedProcesses, SignalledProcesses
<1>1. Typed'
  BY <1>g DEF Typed, Results
<1>2. Streams'
  BY DEF Streams, Counted, Delivered
<1>3. Known'
  BY <1>g DEF Typed, Known, Good, Before, Waiting, Failures
<1>4. Ended'
  BY <1>g DEF Typed, Known, Ended, Processes, Process
<1>5. FailureEndsTheGroup'
  BY DEF FailureEndsTheGroup
<1> QED
  BY <1>1, <1>2, <1>3, <1>4, <1>5

(* The child is reaped, or the wait for it is over.                        *)
LEMMA ReapKeeps ==
  ASSUME IInv, Reap \/ ReapFails
  PROVE  IInv'
<1> USE BytesAssumption DEF IInv, Reap, ReapFails, Return,
                           threadVars, clockVars, processVars, pipeVars
<1>1. Typed'
  BY ReapedProcesses DEF Typed, Results
<1>2. Streams'
  BY DEF Streams, Counted, Delivered
<1>3. Known'
  BY ReapedProcesses DEF Typed, Known, Good, Before, Waiting, Failures
<1>4. Ended'
  BY DEF Ended
<1>5. FailureEndsTheGroup'
  BY ReapedProcesses DEF Typed, Known, Ended, FailureEndsTheGroup, Done, Running, Failures
<1> QED
  BY <1>1, <1>2, <1>3, <1>4, <1>5

(* The executor's input is removed.                                        *)
LEMMA CleanupKeeps ==
  ASSUME IInv, Cleanup
  PROVE  IInv'
<1> USE BytesAssumption DEF IInv, Cleanup,
                           threadVars, clockVars, processVars, pipeVars
<1>1. Typed'
  BY DEF Typed
<1>2. Streams'
  BY DEF Streams, Counted, Delivered
<1>3. Known'
  BY DEF Known, Good, Before, Waiting
<1>4. Ended'
  BY DEF Ended
<1>5. FailureEndsTheGroup'
  BY DEF FailureEndsTheGroup, Done, Running
<1> QED
  BY <1>1, <1>2, <1>3, <1>4, <1>5

-----------------------------------------------------------------------------
(* Every step of the call, the readers, the processes and the clock keeps  *)
(* the invariant.                                                          *)
LEMMA NextInvariant == IInv /\ [Next]_vars => IInv'
<1> SUFFICES ASSUME IInv, [Next]_vars PROVE IInv'
  OBVIOUS
<1>1. CASE UNCHANGED vars
  BY <1>1 DEF vars, IInv, Typed, Streams, Counted, Delivered, Known, Good, Ended,
     FailureEndsTheGroup, Done, Running
<1>2. CASE PrivateInput_create
  <2>1. at \in Before /\ UNCHANGED <<clockVars, processVars, pipeVars, code, output, spared>>
    BY <1>2 DEF PrivateInput_create, Before
  <2>2. \/ \E r \in Early : Return(r)
        \/ at' \in Before /\ UNCHANGED <<caller, result, outcome>>
    BY <1>2 DEF PrivateInput_create, Early, Before
  <2> QED
    BY <2>1, <2>2, PreparationKeeps, PreparedKeeps
<1>3. CASE Stage
  <2>1. at \in Before /\ UNCHANGED <<clockVars, processVars, pipeVars, code, output, spared>>
    BY <1>3 DEF Stage, Before
  <2>2. \/ \E r \in Early : Return(r)
        \/ at' \in Before /\ UNCHANGED <<caller, result, outcome>>
    BY <1>3 DEF Stage, Early, Before
  <2> QED
    BY <2>1, <2>2, PreparationKeeps, PreparedKeeps
<1>4. CASE NotSpawned
  <2>1. at \in Before /\ UNCHANGED <<clockVars, processVars, pipeVars, code, output, spared>>
    BY <1>4 DEF NotSpawned, Before
  <2>2. \E r \in Early : Return(r)
    BY <1>4 DEF NotSpawned, Early
  <2> QED
    BY <2>1, <2>2, PreparationKeeps
<1> QED
  BY <1>1, <1>2, <1>3, <1>4, SpawnKeeps, WriteKeeps, CloseKeeps, ForkKeeps, LeaveKeeps, ExitKeeps,
     ClockKeeps, ReadChunkKeeps, ReadEndsKeeps, ReadFailsKeeps, ReceiveStdoutKeeps,
     ReceiveStderrKeeps, TryWaitKeeps, CheckClockKeeps, GroupKilledKeeps, GroupSparedKeeps,
     ReapKeeps, CleanupKeeps
     DEF Next, Thread

(* The invariant holds in every reachable state.                           *)
LEMMA Invariance == Spec => []IInv
BY InitInvariant, NextInvariant, PTL DEF Spec

(* What a call reports as a success.                                       *)
Report ==
  /\ at # "over" => outcome = "none"
  /\ outcome = "Ok" =>
       result = "Ok" /\ (caller = "executor" => code = "success" /\ input = "none")

(* A call reports once, at its end, and an executor's input goes first.    *)
LEMMA ReportKept == Report /\ [Next]_vars => Report'
<1> SUFFICES ASSUME Report, [Next]_vars PROVE Report'
  OBVIOUS
<1> USE DEF Report, threadVars, clockVars, processVars, pipeVars
<1>1. CASE UNCHANGED <<threadVars, code>>
  BY <1>1
<1>2. ASSUME NEW r, at # "over", Return(r) PROVE Report'
  <2>1. Reported(r) = "Ok" => caller # "executor" /\ r = "Ok"
    BY DEF Reported
  <2> QED
    BY <1>2, <2>1 DEF Return
<1>3. ASSUME at # "over", at' # "over", outcome' = outcome PROVE Report'
  BY <1>3
<1>4. CASE PrivateInput_create \/ Stage \/ NotSpawned \/ Spawn
  BY <1>2, <1>3, <1>4 DEF PrivateInput_create, Stage, NotSpawned, Spawn
<1>5. CASE ReceiveStdout \/ ReceiveStderr \/ TryWait \/ CheckClock
  <2>1. CASE ReceiveStdout
    BY <1>3, <2>1, Zenon DEF ReceiveStdout, GiveUp
  <2>2. CASE ReceiveStderr
    BY <1>3, <2>2 DEF ReceiveStderr, GiveUp
  <2>3. CASE TryWait
    BY <1>2, <1>3, <2>3, Zenon DEF TryWait, GiveUp
  <2>4. CASE CheckClock
    BY <1>3, <2>4 DEF CheckClock, GiveUp
  <2> QED
    BY <1>5, <2>1, <2>2, <2>3, <2>4
<1>6. CASE GroupKilled \/ GroupSpared \/ Reap \/ ReapFails
  BY <1>2, <1>3, <1>6 DEF GroupKilled, GroupSpared, Reap, ReapFails
<1>7. CASE Cleanup
  BY <1>7 DEF Cleanup, Answers
<1>8. CASE \E s \in Stream : ReadChunk(s) \/ ReadEnds(s) \/ ReadFails(s)
  BY <1>1, <1>8, Zenon DEF ReadChunk, ReadEnds, ReadFails
<1>9. CASE \E p \in Process : Exit(p) \/ \E s \in Stream : Write(p, s) \/ Close(p, s)
  BY <1>1, <1>9 DEF Exit, Write, Close
<1>10. CASE Fork \/ LeaveGroup \/ DeadlinePasses \/ ReapLimitPasses
  BY <1>1, <1>10 DEF Fork, LeaveGroup, DeadlinePasses, ReapLimitPasses
<1> QED
  BY <1>1, <1>4, <1>5, <1>6, <1>7, <1>8, <1>9, <1>10 DEF Next, Thread, vars

(* A call that succeeds returns all that was ever written, and a limit is  *)
(* reported exactly when it was passed: read_bounded, receive_output and   *)
(* wait_for_process.                                                       *)
THEOREM WholeOutput == Spec => []OutputIsWhole
<1>1. IInv /\ Report => OutputIsWhole
  <2> SUFFICES ASSUME IInv, Report PROVE OutputIsWhole
    OBVIOUS
  <2> USE BytesAssumption DEF IInv
  <2>1. ASSUME NEW s \in Stream, reader[s].at = "sent", ~reader[s].failed
        PROVE  /\ reader[s].exceeded <=> written[s] > Maximum
               /\ ~reader[s].exceeded => open[s] = {} /\ reader[s].got = written[s]
                                         /\ written[s] <= Maximum
    BY <2>1 DEF Typed, Reads, Streams, Counted
  <2>2. ASSUME result = "Ok", NEW s \in Stream
        PROVE  open[s] = {} /\ output[s].got = written[s] /\ written[s] <= Maximum
    <3>1. output[s] = reader[s] /\ reader[s].at = "sent" /\ ~reader[s].failed /\ ~reader[s].exceeded
      BY <2>2 DEF Streams, Delivered, Known, Good
    <3> QED
      BY <2>1, <3>1
  <2> QED
    BY <2>1, <2>2 DEF Known, Report, OutputIsWhole
<1>2. Init => Report
  BY DEF Init, Report
<1> QED
  BY <1>1, <1>2, Invariance, ReportKept, PTL DEF Spec

(* A call that fails leaves the child reaped and none of its group         *)
(* running: terminate_and_reap.                                            *)
THEOREM GroupEnds == Spec => []FailureEndsTheGroup
<1>1. IInv => FailureEndsTheGroup
  BY DEF IInv
<1> QED
  BY <1>1, Invariance, PTL
==============================================================================
