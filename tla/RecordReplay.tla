---------------------------- MODULE RecordReplay ----------------------------
(***************************************************************************)
(* Recording an execution and replaying it (Recorder, ReplaySession and    *)
(* the effect providers around them in crates/allen-testkit/src/lib.rs),   *)
(* driven by the scheduler of crates/allen-vm/src/lib.rs.                  *)
(*                                                                         *)
(* A behaviour has two executions of one program.  In the live one the     *)
(* providers answer what they like, when they like, and a journal keeps    *)
(* each request, its outcome, and the order of the outcomes.  The other    *)
(* one is served from the journal alone.  The machine is deterministic, so *)
(* all that can set the two apart is when an outcome arrives.              *)
(*                                                                         *)
(* The scheduler is the one of TaskMachine, cut down to programs that      *)
(* await every task they spawn.  Each turn polls every waiting task in     *)
(* the order of task ids and then runs one instruction of one task.        *)
(***************************************************************************)
EXTENDS Integers, Sequences, SequencesExt, FiniteSets, FiniteSetsExt

CONSTANTS
  MaxTask,    \* bound: task ids run over 0..MaxTask, 0 being the root
  Programs,   \* the programs: for each task its instructions
  Values,     \* what an effect may return
  Secret,     \* the values the recording policy refuses to write down
  Oversized,  \* the values that cannot be encoded within the limit
  Withheld,   \* the requests the policy refuses or that cannot be encoded
  UserAsks,   \* the names of the requests made with user.ask
  MaxEntries  \* ReplayLimits.entries

Task     == 0..MaxTask
Nothing  == "nothing"                    \* no value yet
Invalid  == "user.validation_failed"     \* an error value, which the program handles
Errors   == {"Trap", "Refused", "Cancelled", "Stopped", "Stuck", "Diverged"}
Endings  == Errors \cup {"Completed"}
Outcomes == Values \cup {"Trap", "Cancelled"}

(* A task is spawned at most once, by one of a lower id, which awaits it.  *)
Does(p, t, i, op, k) == i \in DOMAIN p[t] /\ p[t][i] = [op |-> op, of |-> k]

ASSUME ProgramsAreTrees ==
  /\ MaxTask \in Nat /\ MaxEntries \in Nat
  /\ Secret \cup Oversized \subseteq Values /\ Invalid \notin Values
  /\ \A p \in Programs, k, s \in Task : \A i \in DOMAIN p[s] :
       Does(p, s, i, "spawn", k) =>
         /\ s < k
         /\ \A t \in Task : \A j \in DOMAIN p[t] :
              Does(p, t, j, "spawn", k) => s = t /\ i = j
         /\ \E j \in DOMAIN p[s] : i < j /\ Does(p, s, j, "await", k)

VARIABLES
  phase,     \* which execution it is, and the verdict on the last one
  program,   \* the program both executions run
  task,      \* TaskMachine.tasks: state, program counter, effect or child waited for
  error,     \* per task: the error it completed with
  got,       \* per task: the values it has received
  cursor,    \* TaskMachine.rotation_cursor
  todo,      \* the waiters the wake pass has still to visit
  ending,    \* how the current execution ended
  journal,   \* Recorder.entries and pending: request and outcome per sequence number
  order,     \* ReplayHeader.scheduler_completion_order
  poisoned,  \* Recorder.poisoned
  session,   \* ReplaySession: entries started, outcomes released, entries open
  live       \* what the live execution saw: the values per task, its ending

machine == <<program, task, error, got, cursor, todo>>
record  == <<journal, order, poisoned>>
vars    == <<phase, machine, ending, record, session, live>>

Absent   == [st |-> "Absent", pc |-> 0, on |-> 0]
Fresh    == [st |-> "Ready", pc |-> 1, on |-> 0]
AtEntry  == [t \in Task |-> IF t = 0 THEN Fresh ELSE Absent]
NoErrors == [t \in Task |-> "none"]
NoValues == [t \in Task |-> <<>>]
NoCursor == MaxTask
NewSession == [cursor |-> 0, released |-> 0, open |-> {}]

Init ==
  /\ phase = "live" /\ program \in Programs
  /\ task = AtEntry /\ error = NoErrors /\ got = NoValues
  /\ cursor = NoCursor /\ todo = {} /\ ending = "none"
  /\ journal = <<>> /\ order = <<>> /\ poisoned = FALSE
  /\ session = NewSession
  /\ live = [got |-> NoValues, ending |-> "none"]

-----------------------------------------------------------------------------
(* The task table.                                                         *)

In(st)  == {t \in Task : task[t].st = st}
Running == phase \in {"live", "replay"} /\ ending = "none"

WaitersOf(tasks) == {t \in Task : tasks[t].st \in {"Effect", "Task"}}

(* The tasks task t has started, and those they have.                      *)
Child(t, k) == \E i \in DOMAIN program[t] : Does(program, t, i, "spawn", k)

Descendant(t, k) ==
  \/ Child(t, k)
  \/ \E m \in Task : Child(t, m) /\ Child(m, k)

(* next_ready: round robin, starting after the task that ran last.         *)
Distance(t) == IF t > cursor THEN t - cursor ELSE t - cursor + MaxTask + 1

IsNext(t) ==
  /\ Running /\ todo = {} /\ error[0] = "none"
  /\ task[t].st = "Ready"
  /\ \A u \in In("Ready") : Distance(t) <= Distance(u)

Instruction(t) ==
  IF task[t].pc \in DOMAIN program[t] THEN program[t][task[t].pc]
                                      ELSE [op |-> "return", of |-> 0]

Executes(t, op) == IsNext(t) /\ Instruction(t).op = op

(* The end of a turn: the task table is tab, and the next turn's wake pass *)
(* visits its waiters.                                                     *)
EndTurn(t, tab) == task' = tab /\ cursor' = t /\ todo' = WaitersOf(tab)

Advanced(t) == [task[t] EXCEPT !.st = "Ready", !.pc = @ + 1, !.on = 0]
Finished(t, st) == [task[t] EXCEPT !.st = st, !.on = 0]
Waiting(t, st, on) == [task[t] EXCEPT !.st = st, !.on = on]

LastOf(s) == IF s = <<>> THEN Nothing ELSE s[Len(s)]

Receives(t, v) == got' = [got EXCEPT ![t] = Append(@, v)]

-----------------------------------------------------------------------------
(* Recorder.                                                               *)

Open(j) == {i \in DOMAIN j : j[i].out = "open"}

(* Recorder::complete, for the sequence numbers in s one after the other.  *)
Completed(j, s, x) ==
  [i \in DOMAIN j |-> IF i \in Range(s) THEN [j[i] EXCEPT !.out = x] ELSE j[i]]

Recordable(x) == ~poisoned /\ x \notin Secret \cup Oversized

(* record_result gives up before it reaches the recorder, which keeps the  *)
(* request among the pending ones for good.                                *)
Unrecorded(j, i, x) ==
  IF x \in Oversized
  THEN journal' = Completed(j, <<i>>, "lost") /\ UNCHANGED <<order, poisoned>>
  ELSE journal' = j /\ poisoned' = TRUE /\ UNCHANGED order

(* Mutant: the latest outcome goes to the front of the completion order.   *)
complete_First(j, i, x) ==
  IF Recordable(x)
  THEN /\ journal' = Completed(j, <<i>>, x) /\ order' = <<i>> \o order
       /\ UNCHANGED poisoned
  ELSE Unrecorded(j, i, x)

(* The outcome x of entry i of journal j is recorded, or is refused.       *)
complete(j, i, x) ==
  IF Recordable(x)
  THEN /\ journal' = Completed(j, <<i>>, x) /\ order' = Append(order, i)
       /\ UNCHANGED poisoned
  ELSE Unrecorded(j, i, x)

(* What the machine makes of the provider's answer to a call of t: of the  *)
(* errors a refusal can be, close_provider_error turns the one of user.ask *)
(* into an error value and any other into a trap.                          *)
Closed(t, x) == IF x = "Refused" /\ Instruction(t).of \in UserAsks THEN Invalid ELSE x

Delivered(t, x) == Closed(t, IF Recordable(x) THEN x ELSE "Refused")

(* Mutant: the effects still open when a run is cancelled are left out.    *)
record_cancelled_Waiting(s) ==
  /\ journal' = Completed(journal, s, "Cancelled")
  /\ order' = order \o s
  /\ UNCHANGED <<poisoned, session>>

(* cancel_effect for the effects s of waiting tasks, then cancel_pending   *)
(* for the others, in the order of their sequence numbers.                 *)
Leftover(open, s) == SetToSortSeq(open \ Range(s), <)

record_cancelled(s) ==
  LET all == s \o Leftover(Open(journal), s) IN
  /\ IF poisoned
     THEN UNCHANGED <<journal, order>>
     ELSE journal' = Completed(journal, all, "Cancelled") /\ order' = order \o all
  /\ UNCHANGED <<poisoned, session>>

-----------------------------------------------------------------------------
(* ReplaySession.                                                          *)

IsNextOutcome(ses, i) ==
  /\ ses.released < Len(order)
  /\ order[ses.released + 1] = i
  /\ i \in ses.open

Released(ses, i) ==
  [ses EXCEPT !.released = @ + 1, !.open = @ \ {i}]

(* ReplaySession::cancel, whose refusal the provider ignores.              *)
cancel(ses, i) ==
  IF IsNextOutcome(ses, i) /\ journal[i].out = "Cancelled" THEN Released(ses, i) ELSE ses

replay_cancelled(s) ==
  /\ session' = FoldLeft(cancel, session, s \o Leftover(session.open, s))
  /\ UNCHANGED record

-----------------------------------------------------------------------------
(* Failures and the end of an execution.                                   *)

Errs(t, e) == error' = [error EXCEPT ![t] = e]

(* cancel_pending_effects and cancel_effects.                              *)
PendingEffects ==
  LET waiting == SetToSortSeq(In("Effect"), <)
  IN [i \in DOMAIN waiting |-> task[waiting[i]].on]

cancel_effects ==
  IF phase = "live" THEN record_cancelled(PendingEffects) ELSE replay_cancelled(PendingEffects)

(* An instruction of t fails by itself: its descendants leave the table    *)
(* and nobody cancels their effects.                                       *)
FailInStep(t, e) ==
  /\ Errs(t, e)
  /\ EndTurn(t, [u \in Task |->
                   IF u = t THEN Finished(t, "Err")
                   ELSE IF t # 0 /\ Descendant(t, u) THEN Absent ELSE task[u]])

Ends(e) ==
  /\ ending' = e
  /\ UNCHANGED <<phase, machine, live>>

-----------------------------------------------------------------------------
(* The wake pass: wake_waiters.                                            *)

Visits(t) == Running /\ t \in todo /\ t = Min(todo) /\ todo' = todo \ {t}

(* The effect of t has outcome x.                                          *)
Wakes(t, x) ==
  /\ IF x \in Values \cup {Invalid}
     THEN task' = [task EXCEPT ![t] = Advanced(t)] /\ Receives(t, x) /\ UNCHANGED error
     ELSE task' = [task EXCEPT ![t] = Finished(t, "Err")] /\ Errs(t, x) /\ UNCHANGED got
  /\ UNCHANGED <<phase, program, cursor, ending, live>>

StaysPending(t) ==
  /\ Visits(t)
  /\ UNCHANGED <<phase, program, task, error, got, cursor, ending, record, session, live>>

(* RecordingEffectProvider::poll_effect.                                   *)
LivePollPending(t) == phase = "live" /\ task[t].st = "Effect" /\ StaysPending(t)

LivePollReady(t, x) ==
  /\ phase = "live" /\ task[t].st = "Effect" /\ Visits(t)
  /\ complete(journal, task[t].on, x)
  /\ Wakes(t, Delivered(t, x))
  /\ UNCHANGED session

(* complete_if_next, and ReplayingEffectProvider::poll around it.  Its     *)
(* other answer, that the completion order is exhausted, is out of reach   *)
(* of an open entry: see JournalIsComplete.                                *)
complete_if_next(i) == IsNextOutcome(session, i)

ReplayPollPending(t) ==
  /\ phase = "replay" /\ task[t].st = "Effect"
  /\ ~complete_if_next(task[t].on)
  /\ StaysPending(t)

ReplayPollReady(t) ==
  /\ phase = "replay" /\ task[t].st = "Effect" /\ Visits(t)
  /\ complete_if_next(task[t].on)
  /\ session' = Released(session, task[t].on)
  /\ Wakes(t, journal[task[t].on].out)
  /\ UNCHANGED record

(* A task that waits for task[t].on: its child, which leaves the table.    *)
ChildPending(t) ==
  /\ task[t].st = "Task" /\ task[task[t].on].st \notin {"Ok", "Err"}
  /\ StaysPending(t)

Joins(t) ==
  LET k == task[t].on IN
  /\ task[t].st = "Task" /\ task[k].st \in {"Ok", "Err"} /\ Visits(t)
  /\ IF task[k].st = "Ok"
     THEN /\ task' = [task EXCEPT ![t] = Advanced(t), ![k] = Absent]
          /\ Receives(t, LastOf(got[k])) /\ UNCHANGED error
     ELSE /\ task' = [task EXCEPT ![t] = Finished(t, "Err"), ![k] = Absent]
          /\ Errs(t, error[k]) /\ UNCHANGED got
  /\ UNCHANGED <<phase, program, cursor, ending, record, session, live>>

-----------------------------------------------------------------------------
(* One instruction.                                                        *)

StepFrame == UNCHANGED <<phase, program, ending, live>>

Compute(t) ==
  /\ Executes(t, "compute")
  /\ EndTurn(t, [task EXCEPT ![t] = Advanced(t)])
  /\ StepFrame /\ UNCHANGED <<error, got, record, session>>

Spawn(t) ==
  /\ Executes(t, "spawn")
  /\ EndTurn(t, [task EXCEPT ![t] = Advanced(t), ![Instruction(t).of] = Fresh])
  /\ StepFrame /\ UNCHANGED <<error, got, record, session>>

Await(t) ==
  /\ Executes(t, "await")
  /\ EndTurn(t, [task EXCEPT ![t] = Waiting(t, "Task", Instruction(t).of)])
  /\ StepFrame /\ UNCHANGED <<error, got, record, session>>

Return(t) ==
  /\ Executes(t, "return")
  /\ EndTurn(t, [task EXCEPT ![t] = Finished(t, "Ok")])
  /\ StepFrame /\ UNCHANGED <<error, got, record, session>>

(* `stop` cancels every effect and every task.                             *)
Stop(t) ==
  /\ Executes(t, "stop")
  /\ cancel_effects
  /\ error' = [error EXCEPT ![0] = "Stopped"]
  /\ EndTurn(t, [u \in Task |-> IF u = 0 THEN Finished(0, "Err") ELSE Absent])
  /\ StepFrame /\ UNCHANGED got

(* The request of a call: one with a constant argument, or one that passes *)
(* on the last value the task received.                                    *)
Calls(t) == IsNext(t) /\ Instruction(t).op \in {"call", "pass"}

Request(t) ==
  <<Instruction(t).of, IF Instruction(t).op = "pass" THEN LastOf(got[t]) ELSE Nothing>>

(* Mutant: the argument is left out of what is recorded of the request.    *)
Started_NoArgument(t) == Append(journal, [req |-> <<Instruction(t).of, Nothing>>, out |-> "open"])

(* Recorder::start.                                                        *)
Started(t) == Append(journal, [req |-> Request(t), out |-> "open"])

(* The request is encoded, the policy lets it be recorded (begin), and the *)
(* recorder has room for it.                                               *)
Admitted(t) == ~poisoned /\ Request(t) \notin Withheld /\ Len(journal) < MaxEntries

(* The call of t is answered in its own turn.                              *)
AnsweredAtOnce(t, x) ==
  IF x \in Values \cup {Invalid}
  THEN /\ EndTurn(t, [task EXCEPT ![t] = Advanced(t)])
       /\ Receives(t, x) /\ UNCHANGED error
  ELSE FailInStep(t, x) /\ UNCHANGED got

(* The live provider is not called, and the journal has no trace of the    *)
(* request.                                                                *)
LiveCallRefused(t) ==
  /\ phase = "live" /\ Calls(t) /\ ~Admitted(t)
  /\ AnsweredAtOnce(t, Closed(t, "Refused"))
  /\ StepFrame /\ UNCHANGED <<record, session>>

LiveCallPending(t) ==
  /\ phase = "live" /\ Calls(t) /\ Admitted(t)
  /\ journal' = Started(t)
  /\ EndTurn(t, [task EXCEPT ![t] = Waiting(t, "Effect", Len(journal) + 1)])
  /\ StepFrame /\ UNCHANGED <<error, got, order, poisoned, session>>

LiveCallReady(t, x) ==
  /\ phase = "live" /\ Calls(t) /\ Admitted(t)
  /\ complete(Started(t), Len(journal) + 1, x)
  /\ AnsweredAtOnce(t, Delivered(t, x))
  /\ StepFrame /\ UNCHANGED session

(* Mutant: the journal's next entry is taken without a look at it.         *)
Matches_Any(t) == session.cursor < Len(journal)

(* ReplaySession::start.                                                   *)
Matches(t) ==
  /\ session.cursor < Len(journal)
  /\ journal[session.cursor + 1].req = Request(t)

ReplayCall(t) ==
  /\ phase = "replay" /\ Calls(t) /\ Matches(t)
  /\ session' = [session EXCEPT !.cursor = @ + 1, !.open = @ \cup {session.cursor + 1}]
  /\ EndTurn(t, [task EXCEPT ![t] = Waiting(t, "Effect", session.cursor + 1)])
  /\ StepFrame /\ UNCHANGED <<error, got, record>>

ReplayCallDiverges(t) ==
  /\ phase = "replay" /\ Calls(t) /\ ~Matches(t)
  /\ FailInStep(t, "Diverged")
  /\ StepFrame /\ UNCHANGED <<got, record, session>>

-----------------------------------------------------------------------------
(* No task is ready.                                                       *)

Idle == Running /\ todo = {} /\ In("Ready") = {}

(* An effect is pending: the loop goes round again.                        *)
PollAgain ==
  /\ Idle /\ task[0].st \in {"Task", "Effect"}
  /\ In("Effect") # {}
  /\ todo' = WaitersOf(task)
  /\ UNCHANGED <<phase, program, task, error, got, cursor, ending, record, session, live>>

EndsCompleted ==
  /\ Idle /\ task[0].st = "Ok"
  /\ Ends("Completed") /\ UNCHANGED <<record, session>>

EndsStuck ==
  /\ Idle /\ task[0].st = "Task" /\ In("Effect") = {}
  /\ cancel_effects /\ Ends("Stuck")

(* The providers are told once: `stop` has done so already.                *)
EndsInError ==
  /\ Running /\ todo = {} /\ task[0].st = "Err"
  /\ IF error[0] = "Stopped" THEN UNCHANGED <<record, session>> ELSE cancel_effects
  /\ Ends(error[0])

-----------------------------------------------------------------------------
(* From one execution to the next.                                         *)

(* finish_with_execution_outcome_policy: a poisoned journal, or one with   *)
(* a pending request, is refused, and so is a stop whose reason the policy *)
(* will not have recorded.                                                 *)
Unfinished == {i \in DOMAIN journal : journal[i].out \in {"open", "lost"}}

FinishRecording ==
  /\ phase = "live" /\ ending # "none"
  /\ \/ phase' = IF poisoned \/ Unfinished # {} THEN "refused" ELSE "recorded"
     \/ ending = "Stopped" /\ phase' = "refused"
  /\ live' = [got |-> got, ending |-> ending]
  /\ UNCHANGED <<machine, ending, record, session>>

StartReplay ==
  /\ phase = "recorded" /\ phase' = "replay"
  /\ task' = AtEntry /\ error' = NoErrors /\ got' = NoValues
  /\ cursor' = NoCursor /\ todo' = {} /\ ending' = "none"
  /\ UNCHANGED <<program, record, session, live>>

(* ReplayingEffectProvider::finish_execution.                              *)
Accepts ==
  /\ session.open = {}
  /\ session.cursor = Len(journal) /\ session.released = Len(order)
  /\ ending = live.ending

FinishReplay ==
  /\ phase = "replay" /\ ending # "none"
  /\ phase' = IF Accepts THEN "accepted" ELSE "diverged"
  /\ UNCHANGED <<machine, ending, record, session, live>>

-----------------------------------------------------------------------------
Provider(t) ==
  \/ LivePollPending(t) \/ LiveCallPending(t)
  \/ \E x \in Values \cup {"Trap"} : LivePollReady(t, x) \/ LiveCallReady(t, x)

Machine(t) ==
  \/ ChildPending(t) \/ Joins(t)
  \/ Compute(t) \/ Spawn(t) \/ Await(t) \/ Return(t) \/ Stop(t) \/ LiveCallRefused(t)
  \/ ReplayPollPending(t) \/ ReplayPollReady(t)
  \/ ReplayCall(t) \/ ReplayCallDiverges(t)

Next ==
  \/ \E t \in Task : Provider(t) \/ Machine(t)
  \/ PollAgain \/ EndsCompleted \/ EndsStuck \/ EndsInError
  \/ FinishRecording \/ StartReplay \/ FinishReplay

Spec == Init /\ [][Next]_vars

(* The thread that runs the machine keeps running.                         *)
FairSpec == Spec /\ WF_vars(Next)

-----------------------------------------------------------------------------
(* Properties.                                                             *)

(* However an execution ends - returning, failing, stopping, with tasks    *)
(* that were dropped while their effects were open - the journal has the   *)
(* outcome of every request that was entered in it, and each of them once  *)
(* in the completion order, unless a value was refused or could not be     *)
(* encoded; so only such a recording, or one of a stop, is refused.  On    *)
(* replay, the outcome of a request somebody waits for is therefore still  *)
(* to come in the completion order.  Requests refused before they are      *)
(* entered are not in the journal at all: see LoneTaskReplays.             *)
JournalIsComplete ==
  /\ phase = "refused" =>
       poisoned \/ ending = "Stopped" \/ \E i \in DOMAIN journal : journal[i].out = "lost"
  /\ phase \notin {"live", "refused"} =>
       /\ Unfinished = {}
       /\ Range(order) = DOMAIN journal /\ Len(order) = Len(journal)
  /\ phase = "replay" =>
       \A i \in session.open : \E k \in DOMAIN order : k > session.released /\ order[k] = i

(* A replay that is accepted has given every task what the live execution  *)
(* gave it, and has ended the same way.  Only what the journal cannot hold *)
(* may be missing: the error value of a request that was refused, which a  *)
(* task of a program that failed meanwhile need not come to on replay.     *)
FromJournal(s) == SelectSeq(s, LAMBDA v : v # Invalid)

AcceptedReplayIsFaithful ==
  phase = "accepted" =>
    /\ ending = live.ending
    /\ \A t \in Task : got[t] = FromJournal(live.got[t])

(* When no two tasks can make the same request, moreover, what a task      *)
(* receives is at every moment, value for value, what it received live:    *)
(* also in a replay that is going to be rejected, and whatever the order   *)
(* in which the two executions polled.                                     *)
ReplayIsFaithful ==
  /\ phase \in {"replay", "accepted", "diverged"} =>
       \A t \in Task : IsPrefix(got[t], live.got[t])
  /\ AcceptedReplayIsFaithful

(* A recording of one task is accepted although a request of it was        *)
(* refused before it got an entry: such a refusal poisons nothing.  The    *)
(* task saw it, as a trap or as the error value of user.ask.  Those are    *)
(* the recordings whose replay diverges; all others replay to the end.     *)
Alone == \A t \in Task \ {0} : program[t] = <<>>

SawRefusal == live.ending = "Refused" \/ Invalid \in Range(live.got[0])

LoneTaskReplays ==
  Alone => /\ phase = "diverged" => SawRefusal
           /\ phase = "accepted" => ~SawRefusal

(* A replay ends unless a task of it has drifted or has been handed a      *)
(* recorded cancellation: as long as the tasks do what they did, the next  *)
(* outcome of the completion order is one that somebody waits for.         *)
Drifted == \E t \in Task : error[t] \in {"Diverged", "Cancelled"}

ReplayEnds == phase = "replay" ~> phase \in {"accepted", "diverged"} \/ Drifted

=============================================================================
