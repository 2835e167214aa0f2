---------------------------- MODULE TaskMachine ----------------------------
(***************************************************************************)
(* The structured-concurrency scheduler of the ALLEN virtual machine       *)
(* (crates/allen-vm/src/lib.rs): the task table, the round-robin loop of   *)
(* execute_task_machine, the wake pass over waiting tasks, spawning,       *)
(* awaiting, lexical task scopes, and cancellation under a cleanup budget. *)
(*                                                                         *)
(* The program is any program the bytecode verifier accepts.  An ordinary  *)
(* instruction only lets a task run on; the instructions that touch the    *)
(* machine are one action each, and their guards are the affine-ownership  *)
(* rules of crates/allen-bytecode/src/verifier.rs.                         *)
(***************************************************************************)
EXTENDS Integers, Sequences, FiniteSets, FiniteSetsExt

CONSTANTS
    MaxTask,       \* bound: task ids run over 0..MaxTask, 0 being the root
    TaskLimit,     \* limits.tasks
    CallDepth,     \* limits.call_depth
    EffectLimit,   \* limits.concurrent_effects
    CleanupLimit,  \* limits.cleanup_instructions
    Lexicals,      \* lexical scope ids a function may use, all nonzero
    MaxNest,       \* bound: await blocks open at once in one frame
    MaxArgs,       \* bound: task handles one call may pass
    MaxCapture,    \* bound: task handles one spawned future may take along
    UsesEffects,   \* BOOLEAN: does the program call effects?
    Yields,        \* subset of BOOLEAN: may a task's result be a task?
    Faults,        \* errors an instruction may raise by itself
    ProviderErrors,  \* errors of an effect that are not closed into a value
    Interrupts     \* what the host may raise between instructions

TaskId == 0..MaxTask

\* VmError, as far as the scheduler tells errors apart.
Terminal == {"Cancelled", "Timeout", "Stopped", "ProgramFailed"}
Errors   == Terminal \cup {"Trap", "Invariant", "CleanupLimit"}

ASSUME BoundsAssumption ==
    /\ MaxTask \in Nat
    /\ TaskLimit \in Nat
    /\ CallDepth \in Nat \ {0}
    /\ EffectLimit \in Nat
    /\ CleanupLimit \in Nat
    /\ Lexicals \subseteq Nat \ {0}
    /\ MaxNest \in Nat
    /\ MaxArgs \in Nat
    /\ MaxCapture \in Nat
    /\ UsesEffects \in BOOLEAN
    /\ Yields \subseteq BOOLEAN
    /\ Faults \subseteq {"Trap", "Stopped", "ProgramFailed"}
    /\ ProviderErrors \subseteq {"Trap", "Cancelled", "Timeout"}
    /\ Interrupts \subseteq {"Cancelled", "Timeout"}

VARIABLES
    task,       \* TaskMachine.tasks: id -> MachineTask, Absent when not in the map
    reg,        \* where each task handle sits: the affine registers of all frames
    nextTask,   \* TaskMachine.next_task
    cursor,     \* TaskMachine.rotation_cursor; the task that steps when pc = "step"
    cleanup,    \* TaskMachine.cleanup_remaining
    overrun,    \* TaskMachine.terminal_cleanup_failure is set
    active,     \* ConcurrentEffectCounter.active
    inflight,   \* the provider's pending effects, named by the task that started them
    interrupt,  \* what the cancellation source or the clock reports
    pc,         \* where the loop of execute_task_machine is
    todo,       \* the waiters the current wake pass still has to visit
    trace,      \* per task, the lifecycle events the observer has seen
    raised,     \* every error a step, a poll or a join has put in a task
    outcome     \* what execute_task_machine returned

vars == <<task, reg, nextTask, cursor, cleanup, overrun, active, inflight,
          interrupt, pc, todo, trace, raised, outcome>>

-----------------------------------------------------------------------------
(* Tasks, scopes and registers.                                            *)

\* ScopeKey: activation (the frame's depth) and lexical id.
NoScope  == <<0, 0>>
ScopeKey == (1..CallDepth) \X Lexicals

\* A frame is the stack of its active lexical scopes; its activation is its depth.
Frames == {f \in Seq(Seq(Lexicals)) : Len(f) <= CallDepth}

WaitKinds == {"WaitTask", "WaitEffect", "WaitScope", "WaitReturn"}
States    == {"Absent", "Ready", "Ok", "Err"} \cup WaitKinds

\* A MachineTask.  handle is the awaited task, or the task a completed one
\* returns; 0 is no handle, for nobody awaits the root.  join is the scope of
\* WaitState::Scope and WaitState::Return.  yields: the result type is Task<T>.
MachineTask ==
    [owner : TaskId, scope : ScopeKey \cup {NoScope}, frames : Frames,
     yields : BOOLEAN, st : States, handle : TaskId,
     join : ScopeKey \cup {NoScope}, err : Errors \cup {"none"}]

Absent ==
    [owner |-> 0, scope |-> NoScope, frames |-> << >>, yields |-> FALSE,
     st |-> "Absent", handle |-> 0, join |-> NoScope, err |-> "none"]

\* A register holding a Task handle: whose frame, and the verifier's origin
\* scope of the value (0 for a parameter or a task spawned outside any scope).
Register == [task : TaskId, depth : Nat, origin : Lexicals \cup {0}]
NoReg    == [task |-> 0, depth |-> 0, origin |-> 0]

Live        == {t \in TaskId : task[t].st # "Absent"}
Finished(t) == task[t].st \in {"Ok", "Err"}
Unfinished  == {t \in Live : ~Finished(t)}
Waiters(ts) == {t \in TaskId : ts[t].st \in WaitKinds}
OnEffect    == {t \in TaskId : task[t].st = "WaitEffect"}

Depth(t)    == Len(task[t].frames)
Scopes(t)   == task[t].frames[Depth(t)]
\* Mutant: a scope is told apart by its lexical id alone.
TopScopeNoActivation(d, scopes) ==
    IF d = 0 \/ scopes = << >> THEN NoScope ELSE <<1, scopes[Len(scopes)]>>
TopScope(d, scopes) ==
    IF d = 0 \/ scopes = << >> THEN NoScope ELSE <<d, scopes[Len(scopes)]>>
CurrentScope(t) ==
    IF Depth(t) = 0 THEN NoScope ELSE TopScope(Depth(t), Scopes(t))
CurrentOrigin(t) ==
    IF Scopes(t) = << >> THEN 0 ELSE Scopes(t)[Len(Scopes(t))]

\* The handles in the registers of t's running frame.
Held(t) == {h \in TaskId : reg[h].depth = Depth(t) /\ reg[h].depth > 0 /\ reg[h].task = t}

Remove(ts, S) == [t \in TaskId |-> IF t \in S THEN Absent ELSE ts[t]]
Consume(rs, S) == [h \in TaskId |-> IF h \in S THEN NoReg ELSE rs[h]]
\* The registers of the tasks in S go away with their frames.
DropFrames(rs, S) ==
    [h \in TaskId |-> IF rs[h].task \in S THEN NoReg ELSE rs[h]]

Complete(ts, t, st, handle, err) ==
    [ts EXCEPT ![t] = [@ EXCEPT !.st = st, !.handle = handle, !.err = err,
                                !.frames = << >>, !.join = NoScope]]

\* The observer gets Completed, Failed, Cancelled or Stopped for every task in S.
Settle(tr, S) ==
    [t \in TaskId |-> IF t \notin S THEN tr[t]
                      ELSE IF tr[t] = "open" THEN "closed" ELSE "twice"]

-----------------------------------------------------------------------------
(* Cancellation and the cleanup budget.                                    *)

\* The tasks below x in the ownership tree (the frontier loop of
\* cancel_descendants), never x itself.
Descendants(x) ==
    LET below[n \in 0..MaxTask] ==
            IF n = 0 THEN {t \in Live : task[t].owner = x}
            ELSE LET above == below[n-1]
                 IN  above \cup {t \in Live : task[t].owner \in above}
    IN  Live \cap below[MaxTask]

\* charge_cleanup: a charge the budget cannot pay empties it and fails.
Overruns(S)      == Cardinality(S) > cleanup
\* Mutant: the charge is taken without the check.
ChargeUnchecked(S) == cleanup - Cardinality(S)
ChargeCleanup(S) == IF Overruns(S) THEN 0 ELSE cleanup - Cardinality(S)

\* Completed tasks have had their event; only live ones get Cancelled.
Cancelled(S) == S \cap Unfinished

\* Mutant: cancel_effects is forgotten.
CancelWaitingOnly ==
    /\ active' = active - Cardinality(OnEffect)
    /\ inflight' = inflight \ OnEffect
    /\ reg' = [h \in TaskId |-> NoReg]
    /\ cleanup' = ChargeCleanup(Live \ {0})

\* cancel_pending_effects, cancel_effects and cancel_all, as every terminal
\* path calls them: each waiting effect gives its slot back, the provider drops
\* what it still holds, every task but the root leaves the table.
CancelAll ==
    /\ active' = active - Cardinality(OnEffect)
    /\ inflight' = {}
    /\ reg' = [h \in TaskId |-> NoReg]
    /\ cleanup' = ChargeCleanup(Live \ {0})

\* Mutant: every cancelled descendant gives back a slot, waiting or not.
CancelAndRelease(S) ==
    /\ cleanup' = ChargeCleanup(S)
    /\ active' = active - Cardinality(S)
    /\ UNCHANGED inflight

\* Non-terminal failure of a step: the failed task's descendants leave the
\* table.  Nothing is said to the provider and no slot is given back.
CancelDescendants(S) ==
    /\ cleanup' = ChargeCleanup(S)
    /\ UNCHANGED <<active, inflight>>

-----------------------------------------------------------------------------
(* The wake pass.  It visits the tasks that were waiting when it began, in *)
(* ascending id order, and each visit is one action.                       *)

\* A step has ended; the next loop iteration begins with a wake pass.
NextIteration ==
    /\ pc' = "wake"
    /\ todo' = Waiters(task')

Visit(w) ==
    /\ pc = "wake"
    /\ todo # {}
    /\ w = Min(todo)
    /\ todo' = todo \ {w}
    /\ UNCHANGED <<nextTask, cursor, overrun, interrupt, pc, outcome>>

\* The waiter was cancelled earlier in the same pass.
WakeGone(w) ==
    /\ Visit(w)
    /\ task[w].st \notin WaitKinds
    /\ UNCHANGED <<task, reg, cleanup, active, inflight, trace, raised>>

\* The visit ends with the waiter failed; its own descendants are left alone.
WaiterFails(w, removed, e) ==
    /\ task' = Complete(Remove(task, removed), w, "Err", 0, e)
    /\ reg' = DropFrames(reg, removed \cup {w})
    /\ raised' = raised \cup {e}

\* poll_effect answers Pending, a value, or an error that is not closed into
\* a value.  Such an error may be a cancellation that the host sent as its answer
\* to this one request: it fails the waiter and nobody else.  A task spawned on
\* an effect has no frame and completes with it.
WakeEffect(w) ==
    /\ Visit(w)
    /\ task[w].st = "WaitEffect"
    /\ \/ UNCHANGED <<task, reg, active, inflight, trace, raised>>
       \/ /\ active' = active - 1
          /\ inflight' = inflight \ {w}
          /\ \/ /\ IF Depth(w) = 0
                   THEN /\ task' = Complete(task, w, "Ok", 0, "none")
                        /\ trace' = Settle(trace, {w})
                   ELSE /\ task' = [task EXCEPT ![w].st = "Ready"]
                        /\ UNCHANGED trace
                /\ UNCHANGED <<reg, raised>>
             \/ /\ \E e \in ProviderErrors \cup ({interrupt} \ {"none"}) :
                       WaiterFails(w, {}, e)
                /\ trace' = Settle(trace, {w})
    /\ UNCHANGED cleanup

\* The awaited task has completed: its result, which may itself be a task,
\* moves to the waiter and to the waiter's current scope.
WakeTask(w) ==
    LET h == task[w].handle
        v == task[h].handle
    IN
    /\ Visit(w)
    /\ task[w].st = "WaitTask"
    /\ UNCHANGED <<cleanup, active, inflight>>
    /\ \/ /\ ~Finished(h)
          /\ UNCHANGED <<task, reg, trace, raised>>
       \/ /\ task[h].st = "Err"
          /\ WaiterFails(w, {h}, task[h].err)
          /\ trace' = Settle(trace, {w})
       \/ /\ task[h].st = "Ok"
          /\ v # 0
          /\ v \notin Live \/ task[v].owner # h
          /\ WaiterFails(w, {h}, "Invariant")
          /\ trace' = Settle(trace, {w})
       \/ /\ task[h].st = "Ok"
          /\ v = 0
          /\ task' = [Remove(task, {h}) EXCEPT ![w].st = "Ready", ![w].handle = 0]
          /\ UNCHANGED <<reg, trace, raised>>
       \/ /\ task[h].st = "Ok"
          /\ v # 0
          /\ v \in Live /\ task[v].owner = h
          /\ task' = [Remove(task, {h}) EXCEPT
                         ![w].st = "Ready", ![w].handle = 0,
                         ![v].owner = w, ![v].scope = CurrentScope(w)]
          /\ reg' = [reg EXCEPT ![v] = [task |-> w, depth |-> Depth(w),
                                        origin |-> CurrentOrigin(w)]]
          /\ UNCHANGED <<trace, raised>>

ScopeChildren(ts, w, key) ==
    {t \in TaskId : ts[t].st # "Absent" /\ ts[t].owner = w /\ ts[t].scope = key}

\* The implicit join at a scope's end consumes its children in ascending id
\* order until one is unfinished or failed; a failure cancels the later ones.
WakeScope(w) ==
    LET children == ScopeChildren(task, w, task[w].join)
        halts    == {c \in children : task[c].st # "Ok"}
        joined   == {c \in children : \A x \in halts : c < x}
        leaks    == \E c \in joined : task[c].handle # 0
        stop     == Min(halts)
        later    == {c \in children : c > stop}
        trees    == later \cup UNION {Descendants(c) : c \in later}
    IN
    /\ Visit(w)
    /\ task[w].st = "WaitScope"
    /\ UNCHANGED <<active, inflight>>
    /\ \/ /\ halts # {}
          /\ ~Finished(stop)
          /\ task' = Remove(task, joined)
          /\ UNCHANGED <<reg, cleanup, trace, raised>>
       \/ /\ halts # {}
          /\ Finished(stop)
          /\ WaiterFails(w, joined \cup {stop} \cup trees,
                         IF Overruns(trees) THEN "CleanupLimit" ELSE task[stop].err)
          /\ cleanup' = ChargeCleanup(trees)
          /\ trace' = Settle(trace, {w} \cup Cancelled(trees))
       \/ /\ halts = {}
          /\ IF leaks
             THEN /\ WaiterFails(w, joined, "Invariant")
                  /\ trace' = Settle(trace, {w})
             ELSE /\ task' = [Remove(task, joined) EXCEPT
                                 ![w].st = "Ready", ![w].join = NoScope]
                  /\ UNCHANGED <<reg, trace, raised>>
          /\ UNCHANGED cleanup

\* return_value for a result that holds no task: the frame is popped, and the
\* last frame's return completes the task.
ReturnPlain(ts, t) ==
    IF Len(ts[t].frames) > 1
    THEN [ts EXCEPT ![t].st = "Ready", ![t].join = NoScope,
                    ![t].frames = SubSeq(@, 1, Len(@) - 1)]
    ELSE Complete(ts, t, "Ok", 0, "none")

\* An early return waits until every child is finished, then looks for failures.
\* Mutants: it does not wait; it does not look.
JoinedAtOnce(children) == TRUE
AllJoined(children) == \A c \in children : Finished(c)
NoFailures(children) == {}
FailuresIn(children) == {c \in children : task[c].st = "Err"}

\* The join of an early return by `?`.  When all children of the joined scope
\* are finished the innermost scope still on the frame's stack is waited for
\* next, and it stays on the stack.
WakeReturn(w) ==
    LET children == ScopeChildren(task, w, task[w].join)
        failed   == FailuresIn(children)
    IN
    /\ Visit(w)
    /\ task[w].st = "WaitReturn"
    /\ UNCHANGED <<cleanup, active, inflight>>
    /\ \/ /\ ~AllJoined(children)
          /\ UNCHANGED <<task, reg, trace, raised>>
       \/ /\ AllJoined(children)
          /\ failed # {}
          /\ WaiterFails(w, children, task[Min(failed)].err)
          /\ trace' = Settle(trace, {w})
       \/ /\ AllJoined(children)
          /\ failed = {}
          /\ CurrentScope(w) # NoScope
          /\ task' = [Remove(task, children) EXCEPT ![w].join = CurrentScope(w)]
          /\ UNCHANGED <<reg, trace, raised>>
       \/ /\ AllJoined(children)
          /\ failed = {}
          /\ CurrentScope(w) = NoScope
          /\ task' = ReturnPlain(Remove(task, children), w)
          /\ trace' = IF Depth(w) > 1 THEN trace ELSE Settle(trace, {w})
          /\ UNCHANGED <<reg, raised>>

-----------------------------------------------------------------------------
(* One instruction of the scheduled task.                                  *)

\* charge_instruction lets the instruction of task t run.
Steps(t) ==
    /\ pc = "step"
    /\ t = cursor
    /\ interrupt = "none"

\* A terminal error is replaced by the cleanup overrun, except Stopped.
\* Mutant: without the exception.
OverrunAlways(e) == IF Overruns(Live \ {0}) THEN "CleanupLimit" ELSE e
AfterCleanup(e) ==
    IF Overruns(Live \ {0}) /\ e # "Stopped" THEN "CleanupLimit" ELSE e

\* The error branch of the loop.  A terminal error ends the whole execution
\* through the root; any other one completes the task that raised it.
StepFails(t, e) ==
    /\ \/ /\ e \in Terminal
          /\ CancelAll
          /\ overrun' = (overrun \/ Overruns(Live \ {0}))
          /\ task' = Complete(Remove(task, TaskId \ {0}), 0, "Err", 0, AfterCleanup(e))
          /\ raised' = raised \cup {e, AfterCleanup(e)}
          /\ trace' = Settle(trace, {0} \cup Cancelled(Live))
       \/ /\ e \notin Terminal
          /\ LET below == IF t = 0 THEN {} ELSE Descendants(t)
                 err   == IF Overruns(below) THEN "CleanupLimit" ELSE e
             IN  /\ CancelDescendants(below)
                 /\ task' = Complete(Remove(task, below), t, "Err", 0, err)
                 /\ reg' = DropFrames(reg, below \cup {t})
                 /\ raised' = raised \cup {err}
                 /\ trace' = Settle(trace, {t} \cup Cancelled(below))
          /\ UNCHANGED overrun
    /\ NextIteration
    /\ UNCHANGED <<cursor, interrupt, outcome>>

\* What an instruction that succeeds leaves alone.
StepOk ==
    /\ NextIteration
    /\ UNCHANGED <<cursor, cleanup, overrun, interrupt, raised, outcome>>

\* check_interruption fails at the checkpoint before the instruction.
Interrupted(t) ==
    /\ pc = "step"
    /\ t = cursor
    /\ interrupt # "none"
    /\ StepFails(t, interrupt)
    /\ UNCHANGED nextTask

\* An instruction that leaves the machine as it is, or one that fails: a trap,
\* an exceeded limit, `stop`, `fail`.
Compute(t) ==
    /\ Steps(t)
    /\ UNCHANGED <<task, reg, nextTask, active, inflight, trace>>
    /\ StepOk

Fault(t) ==
    /\ Steps(t)
    /\ \E e \in Faults : StepFails(t, e)
    /\ UNCHANGED nextTask

\* A call, or `await` of a function's future: the arguments, task handles among
\* them, become the parameters of a new frame of the same task.
Call(t, args) ==
    /\ Steps(t)
    /\ UNCHANGED nextTask
    /\ IF Depth(t) + 1 > CallDepth
       THEN StepFails(t, "Trap")
       ELSE /\ task' = [task EXCEPT ![t].frames = Append(@, << >>)]
            /\ reg' = [h \in TaskId |->
                          IF h \in args
                          THEN [task |-> t, depth |-> Depth(t) + 1, origin |-> 0]
                          ELSE reg[h]]
            /\ UNCHANGED <<active, inflight, trace>>
            /\ StepOk

\* A new table entry for a spawned future, owned by t in its current scope.
NewTask(t, frames, yields, st) ==
    [Absent EXCEPT !.owner = t, !.scope = CurrentScope(t), !.frames = frames,
                   !.yields = yields, !.st = st]

TasksExhausted == Cardinality(Live) - 1 >= TaskLimit

\* How start_effect_future fails: no slot is free, or the provider refuses and the
\* refusal is not closed into a value of the effect's result type.
Refusals == IF active >= EffectLimit THEN {"Trap"} ELSE ProviderErrors

\* The arguments of a future are tasks that the spawning task owns.
Transferable(t, args) == \A h \in args : h \in Live /\ task[h].owner = t

\* `spawn` of a function's future: the new task takes over the ownership of the
\* handles among the arguments.  Their scope keys stay what they were.
SpawnFunction(t, args, yields) ==
    LET id == nextTask + 1
    IN
    /\ Steps(t)
    /\ nextTask < MaxTask
    /\ IF TasksExhausted \/ ~Transferable(t, args)
       THEN /\ StepFails(t, IF TasksExhausted THEN "Trap" ELSE "Invariant")
            /\ UNCHANGED nextTask
       ELSE /\ nextTask' = id
            /\ task' = [h \in TaskId |->
                           IF h = id THEN NewTask(t, << << >> >>, yields, "Ready")
                           ELSE IF h \in args THEN [task[h] EXCEPT !.owner = id]
                           ELSE task[h]]
            /\ reg' = [h \in TaskId |->
                          IF h = id THEN [task |-> t, depth |-> Depth(t),
                                          origin |-> CurrentOrigin(t)]
                          ELSE IF h \in args THEN [task |-> id, depth |-> 1, origin |-> 0]
                          ELSE reg[h]]
            /\ trace' = [trace EXCEPT ![id] = "open"]
            /\ UNCHANGED <<active, inflight>>
            /\ StepOk

\* `spawn` of an effect's future.  The provider answers at once, accepts the
\* effect, or refuses it; a refusal fails the spawning task after the id is used.
SpawnEffect(t) ==
    LET id == nextTask + 1
        Insert(st) ==
            /\ task' = [task EXCEPT ![id] = NewTask(t, << >>, FALSE, st)]
            /\ reg' = [reg EXCEPT ![id] = [task |-> t, depth |-> Depth(t),
                                           origin |-> CurrentOrigin(t)]]
    IN
    /\ Steps(t)
    /\ nextTask < MaxTask
    /\ \/ /\ TasksExhausted
          /\ StepFails(t, "Trap")
          /\ UNCHANGED nextTask
       \/ /\ ~TasksExhausted
          /\ nextTask' = id
          /\ \E e \in Refusals : StepFails(t, e)
       \/ /\ ~TasksExhausted
          /\ active < EffectLimit
          /\ nextTask' = id
          /\ \/ /\ Insert("Ok")
                /\ trace' = [trace EXCEPT ![id] = "closed"]
                /\ UNCHANGED <<active, inflight>>
             \/ /\ Insert("WaitEffect")
                /\ trace' = [trace EXCEPT ![id] = "open"]
                /\ active' = active + 1
                /\ inflight' = inflight \cup {id}
          /\ StepOk

\* `await` of an effect's future, with the same three answers.
AwaitEffect(t) ==
    /\ Steps(t)
    /\ UNCHANGED nextTask
    /\ \/ \E e \in Refusals : StepFails(t, e)
       \/ /\ active < EffectLimit
          /\ task' = [task EXCEPT ![t].st = "WaitEffect"]
          /\ active' = active + 1
          /\ inflight' = inflight \cup {t}
          /\ UNCHANGED <<reg, trace>>
          /\ StepOk

\* `await` of a task handle that sits in a register of the running frame.
AwaitTask(t, h) ==
    /\ Steps(t)
    /\ h \in Held(t)
    /\ UNCHANGED nextTask
    /\ IF Transferable(t, {h})
       THEN /\ task' = [task EXCEPT ![t].st = "WaitTask", ![t].handle = h]
            /\ reg' = Consume(reg, {h})
            /\ UNCHANGED <<active, inflight, trace>>
            /\ StepOk
       ELSE StepFails(t, "Invariant")

\* TaskScopeEnter.  The compiler numbers a function's scopes in textual order.
ScopeEnter(t, lexical) ==
    /\ Steps(t)
    /\ Len(Scopes(t)) < MaxNest
    /\ \A i \in DOMAIN Scopes(t) : Scopes(t)[i] < lexical
    /\ task' = [task EXCEPT ![t].frames[Depth(t)] = Append(@, lexical)]
    /\ UNCHANGED <<reg, nextTask, active, inflight, trace>>
    /\ StepOk

\* The innermost scope of t's frame is closed.
PopScope(t, st) ==
    LET outer  == SubSeq(Scopes(t), 1, Len(Scopes(t)) - 1)
        frames == [task[t].frames EXCEPT ![Depth(t)] = outer]
    IN  [task EXCEPT ![t] = [@ EXCEPT !.st = st, !.join = CurrentScope(t),
                                      !.frames = frames]]

\* TaskScopeExit.  The verifier refuses it while the scope owns a task whose
\* result is a task, and counts the scope's other handles as consumed.
ScopeExit(t) ==
    LET owned == {h \in Held(t) : reg[h].origin = CurrentOrigin(t)}
    IN
    /\ Steps(t)
    /\ Scopes(t) # << >>
    /\ \A h \in owned : ~task[h].yields
    /\ task' = PopScope(t, "WaitScope")
    /\ reg' = Consume(reg, owned)
    /\ UNCHANGED <<nextTask, active, inflight, trace>>
    /\ StepOk

\* A function whose result is a task returns one; the others return a plain value.
ReturnsTask(t, isTask) == Depth(t) = 1 => task[t].yields = isTask

\* The error path of TryResult and the None path of TryOption.  The verifier
\* refuses it while a handle of the frame belongs to no scope.
TryReturn(t) ==
    /\ Steps(t)
    /\ \A h \in Held(t) : reg[h].origin # 0
    /\ ReturnsTask(t, FALSE)
    /\ reg' = Consume(reg, Held(t))
    /\ IF Scopes(t) = << >>
       THEN /\ task' = ReturnPlain(task, t)
            /\ trace' = IF Depth(t) > 1 THEN trace ELSE Settle(trace, {t})
       ELSE /\ task' = PopScope(t, "WaitReturn")
            /\ UNCHANGED trace
    /\ UNCHANGED <<nextTask, active, inflight>>
    /\ StepOk

\* Return of a plain value, with no scope open and no handle left over.
Return(t) ==
    /\ Steps(t)
    /\ Scopes(t) = << >>
    /\ Held(t) = {}
    /\ ReturnsTask(t, FALSE)
    /\ task' = ReturnPlain(task, t)
    /\ trace' = IF Depth(t) > 1 THEN trace ELSE Settle(trace, {t})
    /\ UNCHANGED <<reg, nextTask, active, inflight>>
    /\ StepOk

\* Return of a task: to a caller it moves into the caller's current scope; from
\* the last frame it becomes the task's result.
ReturnTask(t, h) ==
    LET caller == Depth(t) - 1
        scopes == task[t].frames[caller]
    IN
    /\ Steps(t)
    /\ Scopes(t) = << >>
    /\ Held(t) = {h}
    /\ ReturnsTask(t, TRUE)
    /\ UNCHANGED nextTask
    /\ IF caller = 0
       THEN /\ task' = Complete(task, t, "Ok", h, "none")
            /\ reg' = Consume(reg, {h})
            /\ trace' = Settle(trace, {t})
            /\ UNCHANGED <<active, inflight>>
            /\ StepOk
       ELSE IF Transferable(t, {h})
       THEN /\ task' = [task EXCEPT ![t].frames = SubSeq(@, 1, caller),
                                    ![h].scope = TopScope(caller, scopes)]
            /\ reg' = [reg EXCEPT ![h].depth = caller,
                                  ![h].origin = TopScope(caller, scopes)[2]]
            /\ UNCHANGED <<active, inflight, trace>>
            /\ StepOk
       ELSE StepFails(t, "Invariant")

-----------------------------------------------------------------------------
(* The scheduler between the wake pass and the step.                       *)

ReadyTasks == {t \in TaskId : task[t].st = "Ready"}

\* Mutant: no rotation, the lowest ready id always runs.
LowestReady == Min(ReadyTasks)

\* next_ready: round robin by ascending id, starting after the last one run.
NextReady ==
    LET after == {t \in ReadyTasks : t > cursor}
    IN  Min(IF after # {} THEN after ELSE ReadyTasks)

PassDone == pc = "wake" /\ todo = {}

\* Mutant: a root that the wake pass has failed is not seen while others can run.
ScheduleUnlessIdle ==
    /\ PassDone
    /\ ReadyTasks # {}
    /\ cursor' = NextReady
    /\ pc' = "step"
    /\ UNCHANGED <<task, reg, nextTask, cleanup, overrun, active, inflight,
                   interrupt, todo, trace, raised, outcome>>

Schedule ==
    /\ PassDone
    /\ task[0].st # "Err"
    /\ ReadyTasks # {}
    /\ cursor' = NextReady
    /\ pc' = "step"
    /\ UNCHANGED <<task, reg, nextTask, cleanup, overrun, active, inflight,
                   interrupt, todo, trace, raised, outcome>>

\* execute_task_machine returns, with every task but the root cancelled.
Finish(result) ==
    /\ CancelAll
    /\ overrun' = (overrun \/ Overruns(Live \ {0}))
    /\ task' = Remove(task, TaskId \ {0})
    /\ trace' = Settle(trace, Cancelled(Live \ {0}))
    /\ outcome' = IF overrun' /\ result # "Stopped" THEN "CleanupLimit" ELSE result
    /\ pc' = "done"
    /\ UNCHANGED <<nextTask, cursor, interrupt, todo, raised>>

\* Mutant: whatever failed is reported as the program's own failure.
RootFailedByProgram ==
    /\ PassDone
    /\ task[0].st = "Err"
    /\ Finish("ProgramFailed")

RootFailed ==
    /\ PassDone
    /\ task[0].st = "Err"
    /\ Finish(task[0].err)

Idle == PassDone /\ task[0].st # "Err" /\ ReadyTasks = {}

\* The root has returned; a task still in the table is an invariant failure.
RootReturned ==
    /\ Idle
    /\ task[0].st = "Ok"
    /\ IF Live = {0}
       THEN /\ outcome' = "Completed"
            /\ pc' = "done"
            /\ UNCHANGED <<task, reg, nextTask, cursor, cleanup, overrun, active,
                           inflight, interrupt, todo, trace, raised>>
       ELSE Finish("LiveTasks")

\* Mutant: the polling loop does not look for an interruption.
PollForever ==
    /\ Idle
    /\ ~Finished(0)
    /\ OnEffect # {}
    /\ UNCHANGED <<task, reg, nextTask, cursor, cleanup, overrun, active,
                   inflight, interrupt, trace, raised, outcome>>
    /\ NextIteration

\* Nothing can run but an effect is pending: poll again unless interrupted.
PollAgain ==
    /\ Idle
    /\ ~Finished(0)
    /\ OnEffect # {}
    /\ IF interrupt # "none"
       THEN Finish(interrupt)
       ELSE /\ UNCHANGED <<task, reg, nextTask, cursor, cleanup, overrun, active,
                           inflight, interrupt, trace, raised, outcome>>
            /\ NextIteration

\* Nothing can run and nothing is pending.
NoReadyTask ==
    /\ Idle
    /\ ~Finished(0)
    /\ OnEffect = {}
    /\ Finish("NoReadyTask")

\* The host cancels, or the wall-time limit passes; cancellation is seen first.
Interrupt ==
    /\ pc # "done"
    /\ \E i \in Interrupts : i # interrupt /\ interrupt # "Cancelled" /\ interrupt' = i
    /\ UNCHANGED <<task, reg, nextTask, cursor, cleanup, overrun, active, inflight,
                   pc, todo, trace, raised, outcome>>

Done == pc = "done" /\ UNCHANGED vars

-----------------------------------------------------------------------------

Init ==
    /\ task = [t \in TaskId |->
                  IF t = 0 THEN [Absent EXCEPT !.frames = << << >> >>, !.st = "Ready"]
                  ELSE Absent]
    /\ reg = [h \in TaskId |-> NoReg]
    /\ nextTask = 0
    /\ cursor = MaxTask
    /\ cleanup = CleanupLimit
    /\ overrun = FALSE
    /\ active = 0
    /\ inflight = {}
    /\ interrupt = "none"
    /\ pc = "wake"
    /\ todo = {}
    /\ trace = [t \in TaskId |-> IF t = 0 THEN "open" ELSE "new"]
    /\ raised = {}
    /\ outcome = "none"

Wake ==
    \E w \in TaskId :
        \/ WakeGone(w)
        \/ WakeEffect(w)
        \/ WakeTask(w)
        \/ WakeScope(w)
        \/ WakeReturn(w)

\* step: the instruction of the scheduled task.
Step ==
    \E t \in TaskId :
        \/ Interrupted(t)
        \/ Compute(t)
        \/ Fault(t)
        \/ \E args \in SUBSET Held(t) :
               \/ Cardinality(args) <= MaxArgs /\ Call(t, args)
               \/ /\ Cardinality(args) <= MaxCapture
                  /\ \E y \in Yields : SpawnFunction(t, args, y)
        \/ UsesEffects /\ (SpawnEffect(t) \/ AwaitEffect(t))
        \/ \E lexical \in Lexicals : ScopeEnter(t, lexical)
        \/ ScopeExit(t)
        \/ TryReturn(t)
        \/ Return(t)
        \/ \E h \in TaskId : AwaitTask(t, h) \/ ReturnTask(t, h)

\* One turn of the loop of execute_task_machine, up to its return.
Machine ==
    \/ Wake
    \/ Step
    \/ Schedule
    \/ RootFailed
    \/ RootReturned
    \/ PollAgain
    \/ NoReadyTask

Next == Machine \/ Interrupt \/ Done

Spec == Init /\ [][Next]_vars

\* The loop runs on one thread that nothing blocks: polls return at once.
FairSpec == Spec /\ WF_vars(Machine)

-----------------------------------------------------------------------------
(* Properties.                                                             *)

Outcomes == Errors \cup {"none", "Completed", "LiveTasks", "NoReadyTask"}

\* Every field of the machine keeps its type, and no id above next_task has
\* been used.
TypeOK ==
    /\ task \in [TaskId -> MachineTask]
    /\ \A t \in TaskId : t > nextTask => task[t].st = "Absent"
    /\ reg \in [TaskId -> Register]
    /\ nextTask \in TaskId
    /\ cursor \in TaskId
    /\ cleanup \in 0..CleanupLimit
    /\ overrun \in BOOLEAN
    /\ active \in Int
    /\ inflight \subseteq TaskId
    /\ interrupt \in Interrupts \cup {"none"}
    /\ pc \in {"wake", "step", "done"}
    /\ todo \subseteq TaskId
    /\ trace \in [TaskId -> {"new", "open", "closed", "twice"}]
    /\ raised \subseteq Errors
    /\ outcome \in Outcomes

\* Ownership is a tree: no task is its own descendant, however handles move by
\* capture and by return, for the frontier loop of cancel_descendants has no
\* visited set and would not end on a cycle.  Until something fails the tree
\* hangs from the root, so no task runs that nobody will join; a task that
\* waits in WaitState::Task waits for one that it owns, so the wake pass never
\* misses the completion; and the root completes after all it started is gone
\* ("entry returned with live tasks" never happens).
OwnershipIsATree ==
    /\ \A t \in Live \ {0} : t \notin Descendants(t)
    /\ raised = {} => Live \subseteq Descendants(0)
    /\ pc # "done" =>
           \A t \in Live :
               task[t].st = "WaitTask" => Transferable(t, {task[t].handle})
    /\ task[0].st = "Ok" => Live = {0}

\* Each handle in a register of a running task names a task in the table owned
\* by that task: `await`, `spawn` and `return` of it cannot fail.
HeldTasksAreOwned ==
    \A t \in Unfinished, h \in TaskId :
        (reg[h].depth > 0 /\ reg[h].task = t) => Transferable(t, {h})

\* The scheduler never stops with "scheduler has no ready task": somebody can
\* run, or an effect is pending, until the root has completed.
NeverStuck == outcome # "NoReadyTask"

\* execute_task_machine reports success only if no step, poll or join ever
\* failed, and otherwise reports an error that was raised or a cleanup overrun:
\* no failure is swallowed by a join, a cancellation or an early return.
FailureIsReported ==
    /\ outcome = "Completed" => raised = {}
    /\ outcome \in Errors => outcome \in raised \cup {"CleanupLimit", interrupt}

\* A failure stays in the table until the machine returns: each failed task
\* names an error that was raised, joins and cancellations only drop a failed
\* task by failing its waiter, and a task that can run has a frame to run.
ErrorsAreWitnessed ==
    /\ \A t \in TaskId : task[t].st = "Err" => task[t].err \in raised
    /\ raised # {} /\ pc # "done" => \E t \in TaskId : task[t].st = "Err"
    /\ \A t \in TaskId :
           task[t].st \in {"Ready", "WaitTask", "WaitScope", "WaitReturn"}
           => task[t].frames # << >>
    /\ pc = "step" => task[cursor].st = "Ready"
    /\ outcome = "none" <=> pc # "done"

\* Once `stop` has run in any task the outcome is Stopped, also when cleanup
\* exceeds its budget; any other outcome reports that overrun.
StopWins ==
    pc = "done" =>
        /\ "Stopped" \in raised => outcome = "Stopped"
        /\ overrun => outcome \in {"Stopped", "CleanupLimit"}

\* When the machine returns, only the root is in the table, the provider holds
\* no effect, a successful run has given back every effect slot, and the
\* observer has seen exactly one of Completed, Failed, Cancelled and Stopped for
\* each spawned task (never a second one at any time).
NothingOutlivesTheRun ==
    /\ pc = "done" =>
           /\ Live = {0}
           /\ inflight = {}
           /\ outcome = "Completed" => active = 0
           /\ \A t \in TaskId \ {0} : trace[t] # "open"
    /\ \A t \in TaskId \ {0} : trace[t] # "twice"

\* Every task that waits for an effect holds a slot of its own and is known to
\* the provider, so complete_effect never goes below zero.
SlotsCoverPendingEffects ==
    pc # "done" =>
        /\ Cardinality(OnEffect) <= active
        /\ OnEffect \subseteq inflight

\* No task and no effect is started once the root has failed, by a step of its
\* own or by a poll or a join of the wake pass, once `stop` or `fail` has run in
\* any task, or once the checkpoint can see a cancellation or the wall-time limit.
\* (A cancellation that the host sends as the answer to one request is none of
\* these: it fails the task that waits for it, and the others run on.)
NoNewWorkAfterTerminal ==
    [][(\/ task[0].st = "Err"
        \/ raised \cap {"Stopped", "ProgramFailed"} # {}
        \/ interrupt # "none")
       => nextTask' = nextTask /\ inflight' \subseteq inflight]_vars

\* An early return by `?` joins the frame's scopes one after the other: a visit
\* that leaves the task joining the same scope found an unfinished child in it.
EarlyReturnProgresses ==
    [][\A t \in TaskId :
           (/\ t \in todo \ todo'
            /\ task[t].st = "WaitReturn"
            /\ task'[t].st = "WaitReturn"
            /\ task'[t].join = task[t].join)
           => \E c \in ScopeChildren(task, t, task[t].join) : ~Finished(c)]_vars

\* Round robin: a ready task is scheduled, or leaves the ready state because
\* the execution is torn down.
ReadyTaskRuns ==
    \A t \in TaskId :
        task[t].st = "Ready" ~> ((pc = "step" /\ cursor = t) \/ task[t].st # "Ready")

\* Cancellation and the wall-time limit end the run, whatever is waiting.
InterruptEnds == interrupt # "none" ~> pc = "done"

=============================================================================
