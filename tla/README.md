# JOSH/ALLEN: specifications, model checking and proofs

ALLEN is a small language for agent programs: source is compiled to bytecode,
verified, and run by a virtual machine whose tasks are structured (every task
has an owner and a lexical scope) and whose effects go through brokers. JOSH is
the session host around it: a framed JSON protocol between a host and a runtime,
a connection state machine, and a threaded server that runs one execution at a
time and turns the program's effects into requests to the host.

This directory holds TLA+ models of the parts of that system whose correctness
depends on the order of things, TLC configurations that check them on small
instances, and TLAPS proofs of the properties that matter most for every
instance. `PROJECT.json` lists components, runs, mutants, the map from
definitions to source lines, findings, hazards and theorems.

## Parts of the system, and what models them

| Part | Source (under `src/crates/`) | Modules |
| --- | --- | --- |
| Task scheduler of the VM | `allen-vm/src/lib.rs` | `TaskMachine`; `TaskMachineProofs` |
| Effect broker of an execution, wire providers | `allen-runtime/src/lib.rs`, `josh-host/src/server.rs` | `EffectBroker`, `EffectContract`; `EffectBrokerProofs` |
| Protocol tracker | `josh-protocol/src/state.rs` | `ProtocolMessages`, `ProtocolTracker`, `TrackerApi`; `ProtocolTrackerProofs`, `TrackerProofs` |
| Grant registry | `josh-host/src/grants.rs` | `GrantRegistry` |
| Connection server, session | `josh-host/src/server.rs`, `josh-host/src/session.rs` | `ServerState`, `JoshServer`, `MCJoshServer`; `ServerMoves`, `ServerLayerProofs`, `JoshServerProofs` |
| Record and replay | `allen-testkit/src/lib.rs` | `RecordReplay`, `MCRecordReplay` |
| File-system broker | `allen-sandbox-fs/src/broker.rs` | `FileBroker`, `MCFileBroker`; `FileBrokerProofs` |
| Process broker, executor provider | `allen-exec/src/lib.rs`, `josh/src/executor_provider.rs` | `ProcessBroker`; `ProcessBrokerProofs` |
| Parser, compiler, bytecode, packages, schemas, HTTP, command lines | see "Not modelled" | none |

How they interact: the host speaks the protocol to `run_connection`, which asks
the tracker whether a message is allowed and hands it to the session. An
execution is a thread; the VM it runs schedules tasks and asks the effect broker
for effects; an agent, model, user, tool or permission call becomes an outbound
request whose answer the connection thread files in the pending registry; file
and process calls go to the local brokers and block; a permission that is
granted becomes a capability the host may revoke. The test kit puts itself
between the VM and the broker to record an execution, or in the broker's place
to replay one.

`JoshServer` composes `ProtocolTracker` and `GrantRegistry` with the threads of
a connection. `EffectBroker` is checked against `EffectContract`, which is all
that the machine and the host may rely on. The other modules are checked by
themselves, with what they talk to as their environment: for `TaskMachine` any
provider of effects, for `EffectBroker` any machine and any host, for
`RecordReplay` a reduced scheduler (programs that await every task they spawn),
for the local brokers the operating system.

## TaskMachine: the scheduler

State. `task` is the task table (`TaskMachine.tasks`), one record per id with
owner, scope key, frames (only their stacks of lexical scopes), state and
result. `reg` says in which frame each affine task handle sits. `cursor`,
`nextTask`, `cleanup`, `overrun` and `active` are the fields of the same names
in the machine and its budget; `inflight` is the provider's view of pending
effects; `pc` and `todo` are the position of the loop of `execute_task_machine`
and of the wake pass in it. `trace` and `raised` are history.

Actions. One turn of the loop is a wake pass (`WakeEffect`, `WakeTask`,
`WakeScope`, `WakeReturn`, one waiter at a time in ascending id order), the
choice of the next ready task (`Schedule`, round robin) and one instruction of
that task. An instruction that does not touch the machine is `Compute`; the
others are actions of their own (`Call`, `SpawnFunction`, `SpawnEffect`,
`AwaitEffect`, `AwaitTask`, `ScopeEnter`, `ScopeExit`, `TryReturn`, `Return`,
`ReturnTask`, `Fault`). Their guards include the rules the bytecode verifier
enforces, so the program is any verified program. A start or a poll of an effect
may fail with any of `ProviderErrors`: the host's cancellation of one request is
such an error, and fails only its waiter. The end of a run is `Finish` with the
error precedence and the cleanup charge of the code.

`NoNewWorkAfterTerminal` says that no id and no effect is handed out while the
entry task has failed, after an instruction has raised `stop` or `fail`, or once
`interrupt` is set. An instruction and the checkpoint in front of it are one step,
so an interruption that comes between the two in the code is one that comes after
the step in the model. A task whose effect was cancelled or timed out by its
provider is not such an end: its siblings go on, and may start work.

| Run | Bounds | Shows |
| --- | --- | --- |
| `tm_failures` | 2 tasks and the root, 1 effect slot, cleanup budget 1, captures, all faults and interruptions, fairness | what is reported (`FailureIsReported`, `StopWins`, `ErrorsAreWitnessed`), what is left behind (`NothingOutlivesTheRun`, `SlotsCoverPendingEffects`), what may still start (`NoNewWorkAfterTerminal`), that ownership stays a tree and an awaited task stays with its waiter while handles move (`OwnershipIsATree`); that no ready task starves and an interruption ends the run |
| `tm_calls` | 2 tasks and the root, 2 frames, one lexical id used by both | every handle in a register can be awaited (`HeldTasksAreOwned`) |
| `tm_stuck`, `tm_nested_try` | minimal | two places where the code differs from `docs/language-spec.md` or its own comments; see the findings |

Bounds. The root and two tasks are enough for a waiter, a child and a
grandchild, and for a handle captured by a sibling; two frames for a scope key
that must be told apart by its activation; a cleanup budget of one for a cleanup
that overruns. Runs split the features (effects, captures, calls) because
their product is large.

Fairness. `FairSpec` assumes `WF(Machine)`: the loop is a single thread that
always takes its next step. Nothing is assumed of the provider: an effect may
stay pending for ever, and the interruption check does not depend on it.

## ProtocolTracker and TrackerApi

`ProtocolMessages` has the methods, the messages and the tables of ids. A
tracker is a record and each method of the Rust type an operator on it that
returns the new tracker and a result. Requests carry the identities the checks
compare; a table of ids is a function from ids to methods. `TrackerApi` makes a
machine of the operators: one tracker of either role, any call at any time, with
any arguments. `tracker_api` checks with two ids, one execution, one session and
limits up to two that the tables, the cancellation marks, the tombstones and the
eviction queue stay consistent, that a disconnected tracker stays empty and that
a singleton method is served once at a time. Two ids are enough for an eviction,
a duplicate and a singleton conflict; four methods are enough for the kinds the
tables treat differently (`initialize`, which is a singleton, the one that starts
an execution, and two calls to the host).

## JoshServer: a connection

Three threads (main, exec, writer) share the tracker, the session, the pending
registry, the grant registry and the bounded outbound queue. A step is what
happens under one lock or around one atomic load or store. Writing a frame is a
procedure (`wr`): the failed flag and the frame limit are tested (`WriteCheck`),
the frame is enqueued or a deadline passes (`WriteSend`), and a failure runs
`fail_connection` in its four steps. `pc` holds a label per thread; the labels
follow the code of `run_connection` and `spawn_execution` from top to bottom.
The constants and variables are in `ServerState`, the actions and the properties
in `JoshServer`.

The host is any host: main may receive any request, response, cancellation,
revocation or the end of the input whenever it reads. What a program does is any
sequence of events and calls; a call is started, answered, given up or left
behind. `log` is history: the requests that are owed an answer, what the events
on the queue looked like, which calls were answered and which cancelled, which
grants were given and revoked.

| Run | Bounds | Shows |
| --- | --- | --- |
| `js_calls` | three kinds of connection, chosen in the initial state: two tool calls under a limit of one active request; two executions one after the other; one call, tool or permission, with write errors, a full queue, frames over the limit and passed deadlines | one answer per request (`AnsweredOnce`), ordered events (`EventsInOrder`), nothing left behind by a call or an execution, no Cancel that crosses its answer, a cancellation that decides the outcome, calls that wake when the connection fails, and a revocation the registry acted on that stays in force (`RevocationBites`) |
| `js_liveness` | a silent host, a blocked pipe, write errors | a disconnected connection returns; every request is answered or the connection ends |

Bounds. Request ids are reused, so one host id makes duplicates and
cancellations of settled requests; one active request with two calls reaches the
limit; a queue of one place is full after every frame. `MaxSeq` bounds only the
optional events of the observer (task events and budget warnings). The three
connections split what would be too large together: limits, reuse of the
connection, and failures.

Fairness. `FairSpec` assumes that main, exec and a writer that has already
failed take their steps. It assumes nothing of the host and nothing of the pipe:
each wait for them has a deadline in the code (`CONTROL_ENQUEUE_TIMEOUT`, the
deadline of a call, the 10 ms poll of the input), which is the alternative that
the step takes. That a program ends at all is the wall-time budget of the
execution; in the model the number of its calls and events is bounded.

What the model leaves out: frames are not encoded (framing errors are
`ReceiveEnd`); the parameters of set-up requests are accepted or refused; what
the calls are for is the subject of `EffectBroker`; the agent, model, user and
sub-agent providers use the same three functions as the
tool provider (`start_outbound_request`, `poll_outbound_request`,
`cancel_outbound_request`) and are not repeated; the blocking variants of the
providers are not on the path the VM takes. A result that does not fit into a
frame becomes a failure, which is one of the outcomes of the model; a failure
that does not fit either cannot happen, because the Accepted event, which is
longer, did.

## EffectBroker and EffectContract: the effects of an execution

The machine starts, polls and cancels effects; `BrokerEffects` charges them, puts
them to a provider, validates the answers, asks again while attempts are left,
writes audit records, and turns permission decisions into capabilities. The
providers keep one entry per open request of the host.

State. `call`, `asked` and `audit` are per effect its request, the attempts made
and its audit records; `pending` holds the keys of the broker's four tables,
`active` those of the providers' tables; `handle`, `revocations` and
`provider_lost` are the external capabilities. `result` is what the machine
knows. `withdrawn` and `used` are history.

Actions. The broker runs on the execution thread, but the cancellation flag, the
revocations and the deadlines are written by others. A call is therefore split
where the code reads the flag and where it calls a provider; `step` is the place
in the call. `Refused`, `Dispatched`, `Started*` are a start; `PollBegins`,
`Polled*` a poll; `Finish*` what is done with an answer in hand; `CancelEffect`,
`ForgetEffect`, `EndAndCancel` and `EndCompleted` what the machine does at a
cancellation, at the failure of an ancestor and at the end of a run;
`FilesystemBegins`, `FilesystemUses` and `FilesystemDenied` the use of a
capability. `VmError` and `Closes` are the tables that turn a provider's error into
an error of the program or of the run.

A filesystem call takes the revocations there are (`FilesystemBegins`, which is
`refresh_external_state`) and only then reaches the target (`FilesystemUses`); the
host may revoke in between. Such a revocation is too late for this call, and the
next call is the first it stops. `UseIsAuthorised` says exactly that: a target is
reached only while the provider is there, and never through a grant that was
revoked when the call took the revocations. `docs/agents/reference/josh-protocol.md`
lines 392-393 ("A revoked or cross-execution handle cannot authorize access.")
leaves open at which moment of a call in progress a handle counts as revoked.

`EffectContract` is the abstract specification: an effect is begun once, settled
at most once, its request is open only while it is in progress, and only one
that was forgotten may be left open until the run is wound up. `KeepsContract`
is the refinement, with `life` computed from `result` and `step` and `open` from
`active`.

`eb_calls` checks three effects under a limit of two (so that one is refused),
operations of the kinds the broker treats differently, one or three attempts in
the prompt against two of the host (so that either limit decides), and every
moment for a cancellation, a revocation or a deadline: the tables agree
(`ProvidersAgree`), there is one record per interaction (`AuditedOnce`), it is
true (`AuditIsTrue`), no capability is used by a call that began after its grant
was gone (`UseIsAuthorised`), the contract is kept, and an effect that is waited for
settles (`EveryCallSettles`).

Fairness. A call in progress, also one to a file, goes on (one thread, nothing in
it waits), the deadline of an open request passes, and an effect that is waited for is polled
again and again. The last is strong fairness: polls of one effect alternate
with calls about others, so polling it is not always enabled, but each wake pass
of the machine visits every waiter.

## RecordReplay: a recording and its replay

A behaviour has two executions of one program: a live one, in which providers
answer what and when they like and a journal is kept, and one that is served
from the journal. The scheduler is that of the VM, reduced to programs that
await each task they spawn; what a request contains may depend on a value
received before it (`pass`). Values may be refused by the recording policy or be
too large to write down. A request may be refused before it has an entry in the
journal, because the policy withholds it (`Withheld`), the recorder is poisoned or
the journal has `MaxEntries` entries; the task then sees a trap, or an error value
if the request was a `user.ask` (`UserAsks`), and goes on with it. A stop may be
refused when the recording is finished, for its reason.

`rr_replay` runs seven programs of up to three tasks in which no two tasks can
make the same request: every outcome of a request with an entry is in the journal
and once in the completion order, however the execution ended (`JournalIsComplete`); what a task
receives on replay is at every moment what it received live, and an accepted
replay has given each task all that it received from the journal
(`ReplayIsFaithful`); a program of one task diverges only if one of its requests was
refused before it had an entry, and is not accepted then (`LoneTaskReplays`); and a
replay ends
(`ReplayEnds`), assuming only that the thread which runs the machine keeps
running, unless a task has drifted or was handed a recorded cancellation. `rr_alike` drops
the restriction on requests; see the findings. Two tasks besides the root are
enough for two orders of polling and for a child that outlives its parent's
interest in it.

## FileBroker: reads and atomic writes

One file, reached by name through a directory capability and by an open
descriptor through a file grant, with one accounting for both. A call is split
at its system calls: look-up, length, each byte of a read and the second look at
the length; for a write the check of the target, the temporary file, each byte,
the synchronisation, the rename and the reopening. Between any two of them
another program may overwrite, replace or remove the file, a system call may
fail, and the machine may stop: then inodes and the name fall back to what is on
the disk. A file is who wrote it, how long it is, and how much of it is on the
disk. `moved` and `expected` are history.

`fb_calls` checks that the accounting is exact and never exceeds a limit
(`UsageIsHonest`), that the name never refers to a part of a written value, also
after a crash (`WritesAreAtomic`), and that a root reads back what was written
through it unless another program touched the file (`ReadYourWrites`). Three
inodes are enough for an old file, a temporary one and another program's; two
values of lengths one and two for a value that is only partly there, and for one
that the grant's limits refuse and the directory's allow; one crash, because
after it nothing but the disk is left.

## ProcessBroker: one subprocess call

`ProcessBroker::run` starts a child that leads a process group, two threads read
its outputs up to a limit, and the calling thread looks at both outputs, the
child's status and the clock in turn; when it gives up, it kills the group and
waits up to a second for the child. The executor provider wraps this with a
private input that is created before and removed after. The child may write,
close its pipes, start a helper and end at any time; the helper may leave the
group; any system call of the broker may fail.

`pb_run` checks that success means the whole output of both streams and that the
limit is exact, and that an executor's success is also one of the child, reported
after the private input is gone (`OutputIsWhole`), that a failure leaves the child reaped and none
of its group running (`FailureEndsTheGroup`), and that the call returns
(`CallReturns`). A limit of one byte with two written is the boundary and one
beyond; a pipe that holds both makes data arrive in one read or in two; one
helper is enough for a process that holds a pipe after the child has ended.

Fairness. The calling thread takes its steps, the deadline passes and the second
of `terminate_and_reap` passes. Nothing is assumed of the child, the helper, the
reader threads or of a child that was killed.

## Proofs

Every proof is about the modules the runs check, for all values of the
constants, from the named assumptions of those modules (bounds are numbers,
limits of the right sort, model values that stand for "none" are not identities).

`TaskMachineProofs` proves for `TaskMachine` (assumption `BoundsAssumption`), in
this order: lemmas about the operators and the wake pass, the instructions, the
scheduler, and the theorems:

* `TypeCorrect`: `TypeOK` is an invariant. It is inductive together with the
  fact that ids are handed out in order; its weight is in the operators that
  rewrite the table (`Remove`, `Complete`, `CancelDescendants`, the scope joins),
  each of which has a lemma.
* `ErrorsWitnessed`: a failed task never disappears from the table without an
  error in its waiter or in the outcome. The inductive invariant relates
  `raised` to the errors in the table and in the outcome.
* `FailuresReported`, `StopIsFinal`: the outcome follows from the errors raised,
  and `stop` takes precedence. These are consequences of the same invariant,
  strengthened with `TerminalIsFinal`, which says what the loop has already seen
  at each `pc` once a terminal error has been raised.
* `NoNewWork`: an action property, by cases on the actions. That nothing is
  scheduled under a failed root, or after `stop` or `fail`, is `TerminalIsFinal`;
  that nothing is scheduled past an interruption is the checkpoint before each
  instruction.

The inductive invariant is `TypeOK`, `ErrorsAreWitnessed`, `TerminalIsFinal` and
`Counting`, two facts about finite sets of tasks that the lemmas on steps take as
a hypothesis and that `TasksCount` discharges.

`TrackerProofs` (extends `TrackerApi`; the assumption is that `None` is not an
identity) proves `TypeCorrect`, `TombstonesInStep`, `MarksInScope`,
`DisconnectIsFinal`, `OneOfASingleton` and `PhasesOnlyAdvance` for all sets of
ids and all limits. The invariant `Good` of a tracker is the conjunction of its
type, `Agree` (the eviction queue enumerates the tombstones without repetition),
`Scoped` (marks belong to active requests, an execution id to an active
execution), emptiness after a disconnect and uniqueness of singletons. None of
these is inductive alone: `Agree` needs the type of the queue, emptiness needs
that no method registers anything in a disconnected tracker. Each operator has a
lemma in `ProtocolTrackerProofs` that it preserves `Good`; the theorem about
`Next` only cites them. The same lemmas, and others on what each method does to
the two tables and to the phase, serve the proofs about a connection.

`JoshServerProofs` proves the seven safety properties of a connection
(`AnsweredOnceHolds`, `EventsInOrderHolds`, `CancelHonouredHolds`,
`CancelNeverCrossedHolds`, `RevocationBitesHolds`, `FailureWakesCallsHolds`,
`NothingLeftBehindHolds`) for all sets of requests, calls, grants, executions and
scenarios and every depth of the queue. The assumptions are `ServerAssumption`
(calls have ids of their own, the queue has a place), `NamesAssumption` (the model
value `None` and the grants are none of the other values they are compared with),
`NoneIsFresh` and `NoGrantIsFresh`. Three threads take some fifty kinds of
step and each property follows from facts about all three, so the argument has
two halves with a table between them.

* `ServerMoves` has the inductive invariant and the table. The invariant is the
  types, what each thread has on its stack and is writing at each label
  (`Control`), and layers on top of that: who has the execution and the gate
  (`Turns`); the order in which the flags, the tracker and the threads learn of a
  failure (`Failing`, `Severed`); who owes an answer (`Owing`); how the counter of
  exec relates to the last event (`Numbering`); where an accepted cancellation is
  remembered until the result is decided (`Honouring`); that a call's id is used
  once (`IdsAreFresh`), and is either answered or withdrawn (`Crossing`); where a
  grant is between Allow and the end of its handle (`GrantedOnce`, `Biting`); that
  whoever fails the connection finds every waiting call in the registry
  (`Waking`); and what is empty when (`Drained`), who still has to answer and to
  settle a request (`Settling`) and where a call that the tracker knows is found
  (`Finding`). The table, `Moves`, has a row per action that says what the action
  does to the parts of the state the layers speak of, and no more.
* `ServerLayerProofs` shows that a step in the table keeps each layer, given the
  layers below it (`LayersNext`).
* `JoshServerProofs` shows that each action of `JoshServer` is in the table
  (`Steps`) and keeps the types (`TypesNext`), that a new connection has all of it
  (`TypesInit`, `LayersInit`), and derives `Invariant` and the properties.

None of the properties is inductive. Why `NothingLeftBehind` holds is spread over
three layers and the tracker's own invariant; `AnsweredOnce` needs that the
request main refuses and the one exec answers are different, which only the
tracker's table guarantees, and after a disconnect, when that table is empty, that
nothing more is enqueued; `FailureWakesCalls` needs that a call is in the
registry before the failed flag is tested for its request.

`EffectBrokerProofs` (assumption `AttemptsAreBounded`)
proves `TypeCorrect`, `Agreement`, `OneRecord`, `TrueRecords`, `Authorised` and
`Refinement` (`Spec => KeepsContract`). The invariants the runs check say little
about a call in progress, so `EffectInv` says it for each effect: while the
effect is the one in the call (`Calling`), what each place implies about the two
tables, the attempts and the absence of records; while it is not (`Resting`), that
the tables agree and a finished interaction has its one true record. `GrantInv`
says that a revoked capability is closed or queued to be, and `UseInv` that the
capability a filesystem call is about to use was granted when the call took the
revocations or is closed. A step is about one
effect: each action has a lemma for its own effect, and `FrameOthers` carries the
rest over. The refinement maps each such step to a step of the contract about the
same effect or to a stutter (`MovesAreSteps`), and the end of a run to `WindUp`.

`FileBrokerProofs` (assumption `FilesAssumption`) proves `Accounting`,
`Atomicity` and `ReadBack` for all files, values, limits and numbers of crashes.
Atomicity is not inductive: a crash brings back what is on the disk and a rename
makes the temporary file the named one. `Written` therefore says that the file
the name refers to, and the one it refers to on the disk, are whole in memory and
on the disk, and that the temporary file is neither of them nor the granted one
and is whole on the disk before it is renamed. `Remembered` relates `expected` to
the file each root leads to and to what a read in progress has seen; `Underway`
says what a call has at each place.

`ProcessBrokerProofs` (assumption `BytesAssumption`) proves `WholeOutput` and
`GroupEnds` for all limits and pipe sizes. `Counted` accounts for each byte
written: it is with the reader or in the pipe, unless the reader stopped at the
limit; a reader that ended without error saw the pipe empty and without writers.
`Delivered` relates what the calling thread has received to its reader, `Known`
says what the thread has established at each place of its loop, `Ended` whom the
signal has reached before the child is reaped, and `Report` that the caller reports
once, at the end, and what a success is.

What is model-checked only: all liveness (`ReadyTaskRuns`, `InterruptEnds`,
`DisconnectEnds`, `RequestsAreAnswered`, `EveryCallSettles`, `ReplayEnds`,
`CallReturns`), since fairness and ENABLED are beyond the prover;
`OwnershipIsATree`, `HeldTasksAreOwned`, `SlotsCoverPendingEffects` and
`NothingOutlivesTheRun` of `TaskMachine` (the first needs induction along the
ownership tree, the next two count sets of tasks); and everything about
`RecordReplay`, where a cancellation sorts the open requests and folds over them
(`SetToSortSeq`, `FoldLeft`): what a fold computes takes an induction.

## Findings

Three places where the code and a document, or a comment, disagree, each with a
violation run; the quotations are in `PROJECT.json`:

* `tm_stuck`: a poll that completes the only waiting effect ends the run as a
  deadlock;
* `tm_nested_try`: `?` in nested await blocks does not terminate;
* `rr_alike`: when two tasks make the same request, a replay that is accepted may
  have given each the value recorded for the other.

Others have no run and are notes of the hazards they belong to: a task that fails
while it waits leaves its children running; a revocation that is handled between
Allow and its registration is lost, and one that arrives while a filesystem call
uses its handle is too late for that call; a cancelled descendant keeps its effect slot,
and its request stays open; a captured task keeps its scope key; `?` discards a
task that yields a task; the tracker answers methods of the wrong direction or
phase that the protocol document calls fatal; and a process call does not notice
a cancellation, only its own deadline.

Some behaviour is in the models and no property speaks of it, because neither the
code nor a document promises more: the host's next `execution/start` may be
refused for a moment after a response; a host that uses one grant id twice can
revoke only the newer grant; attempts after the first are not charged as effects;
a process that closed its pipes outlives a call that succeeded, and one that left
the group may keep a reader thread of a call that timed out; a write that was
reported may be undone by a crash, because the rename is not synchronised. The
reuse of process numbers by the operating system is outside the model.

## Not modelled

The models cover the parts whose correctness depends on the order of events:
about a twentieth of the repository's lines, in the crates that schedule, talk
and recover. The rest, by reason:

* Pure functions of large data: lexer, parser and formatter (`allen-syntax`),
  compiler (`allen-compiler`), bytecode codec and verifier (`allen-bytecode`),
  package resolution and the lock (`allen-package`), schemas and canonical JSON
  (`allen-schema`), messages, payloads and versions (`josh-protocol`). They have
  no state that two steps could disturb. A model small enough for TLC would
  either repeat the code case by case or leave out what could be wrong, and what
  a recursive function computes for every input is beyond the prover. Where a
  verdict of theirs matters (a value validates, a request is well formed, a
  program is verified) the models take either verdict as an input; the
  verifier's rules for affine tasks are guards of `TaskMachine`.
* Instructions that compute inside one task: one action, `Compute`.
* Input and output without a protocol of their own: the HTTP broker, the command
  lines, the runner, editor support and scripts.
* Measured time and memory: deadlines pass or do not; byte and step budgets of
  the VM are an `Interrupt` or a `Fault` of `TaskMachine`, not counters.
* Within the modelled parts: framing and the parameters of set-up requests
  (`JoshServer`), paths and directories within directories (`FileBroker`), the
  resolution of executables and command patterns (`ProcessBroker`), the journal's
  encoding, the bound on its size in bytes and the mock providers (`RecordReplay`),
  and the blocking variants of
  the wire providers, which the VM does not call.
