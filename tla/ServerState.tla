---------------------------- MODULE ServerState -----------------------------
(***************************************************************************)
(* The state of one JOSH connection of the runtime                         *)
(* (crates/josh-host/src/server.rs): what its three threads have on their  *)
(* stacks and what they share.  JoshServer has the steps.                  *)
(***************************************************************************)
EXTENDS ProtocolMessages, GrantRegistry

CONSTANTS
  Scenarios,    \* what may happen in a behaviour, a set of records: see below
  QueueDepth,   \* OUTBOUND_QUEUE_DEPTH
  MaxSeq        \* bound on event sequence numbers

CallMethods == {"tool/invoke", "permission/request"}

(* A scenario: the requests executions send, the faults that occur, bounds *)
(* on the executions and the calls, the negotiated max_active_requests.    *)
Scenario ==
  [calls : SUBSET CallMethods, faults : SUBSET {"io", "full", "big", "deadline"},
   executions : SUBSET ExecId, targets : SUBSET Target, max_active : Nat \ {0}]

ASSUME ServerAssumption ==
  /\ Target \subseteq ReqId
  /\ Scenarios \subseteq Scenario
  /\ QueueDepth \in Nat \ {0}
  /\ MaxSeq \in Nat
  /\ SessId # {}

HostIds == ReqId \ Target

Threads == {"main", "exec", "writer"}

Session == CHOOSE s \in SessId : TRUE

Results == {"Completed", "Stopped", "Failed", "Cancelled", "Violation"}

(* An absent Option is no id, no thread and no result, and a grant id is   *)
(* none of the states of a pending call.                                   *)
ASSUME NamesAssumption ==
  /\ None \notin ReqId \cup Threads \cup Results
  /\ Grant \cap {"none", "waiting", "failed", "good", "bad", "violation"} = {}

VARIABLES
  scene,        \* the scenario of the behaviour
  pc,           \* [Threads -> label]
  wr,           \* [Threads -> the frame being written and where to go on]
  tracker,      \* the ProtocolTracker
  active,       \* Session::active_execution, the request id or None
  execution_ids,\* Session::execution_ids
  cancelled,    \* the cancellation flag of the last prepared execution
  msg,          \* the message main is handling
  job,          \* what exec has on its stack
  open,         \* [Target -> method]: the providers' active requests
  pending,      \* PendingRegistry: the ids in it
  call,         \* [Target -> the state of its PendingCall]
  spent,        \* ids taken from outgoing_ids
  grants,       \* the GrantRegistry
  live,         \* capability entries that still have their broker
  gate,         \* commit_gate: the thread that holds it
  disconnected, \* the shared flag
  failed,       \* ConnectionWriter::failed
  queued,       \* frames in the outbound queue
  log           \* history: what was received and enqueued

shared == <<tracker, active, execution_ids, cancelled, pending, call, spent, grants,
            live, gate, disconnected, failed, queued, scene>>
vars == <<pc, wr, msg, job, open, log, shared>>

NoFrame == [at |-> "none"]
NoMsg == [kind |-> "none"]
NoJob == [req |-> None, exec |-> None, seq |-> 3, result |-> None,
          violation |-> FALSE, lost |-> FALSE, id |-> None, method |-> NoMethod,
          grant |-> NoGrant, todo |-> {}]

(* PendingRegistry::fail_all.                                              *)
FailPending ==
  /\ call' = [t \in Target |-> IF t \in pending THEN "failed" ELSE call[t]]
  /\ pending' = {}

=============================================================================
