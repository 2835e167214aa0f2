----------------------------- MODULE TrackerApi -----------------------------
(***************************************************************************)
(* The protocol tracker as its callers see it: one tracker, of either      *)
(* role, and any sequence of calls of its public methods with any          *)
(* arguments.  What holds here holds for every peer that uses the tracker, *)
(* however it orders its calls.                                            *)
(***************************************************************************)
EXTENDS ProtocolTracker

CONSTANTS
  UsedMethods,  \* the methods the environment puts in requests
  Limits        \* the active-request limits a peer may negotiate

ASSUME LimitsAssumption == Limits \subseteq Nat

ASSUME MethodsAssumption == UsedMethods \subseteq Methods \cup {"unknown"}

VARIABLE tracker

vars == <<tracker>>

Init == \E role \in Roles, limit \in Limits : tracker = NewTracker(role, limit)

Becomes(t) == tracker' = t

(* The tracker reads identities only from the requests that carry them.    *)
UsedRequests ==
  {req \in Requests :
     /\ req.method \in UsedMethods
     /\ req.method \notin SessionMethods \cup ExecutionMethods
          => req.exec = None /\ req.sess = None /\ req.valid}

RegisterOutgoing ==
  \/ \E req \in UsedRequests : Becomes(register_outgoing_message(tracker, req).t)
  \/ \E id \in ReqId, m \in UsedMethods :
       Becomes(register_outgoing_request(tracker, id, m).t)

ReceiveRequest == \E req \in UsedRequests : Becomes(receive_request(tracker, req).t)

ReceiveResponse == \E id \in ReqId : Becomes(receive_response(tracker, id).t)

ReceiveCancel == \E id \in ReqId : Becomes(receive_cancel(tracker, id).t)

CommitResponse == \E id \in ReqId : Becomes(commit_response(tracker, id).t)

CancelOutgoing == \E id \in ReqId : Becomes(cancel_outgoing(tracker, id).t)

SetLimit == \E limit \in Limits : Becomes(set_max_active_requests(tracker, limit))

(* A session comes with the attached mode and only with it                 *)
(* (InitializeParams::validate, bound_session_id).                         *)
Initialize ==
  \/ \E s \in SessId : Becomes(initialize_binding(tracker, "Attached", s).t)
  \/ Becomes(initialize_binding(tracker, "Unattended", None).t)

Advance ==
  \/ Becomes(projection_succeeded(tracker).t)
  \/ Becomes(catalog_succeeded(tracker).t)
  \/ Becomes(program_loaded(tracker).t)

StartExecution ==
  \E e \in ExecId \cup {None} : Becomes(execution_started_binding(tracker, e).t)

FinishExecution == Becomes(execution_finished(tracker))

Disconnect == Becomes(disconnect(tracker))

(* Receiving or validating a notification changes nothing in the tracker.  *)
Next ==
  \/ RegisterOutgoing
  \/ ReceiveRequest
  \/ ReceiveResponse
  \/ ReceiveCancel
  \/ CommitResponse
  \/ CancelOutgoing
  \/ SetLimit
  \/ Initialize
  \/ Advance
  \/ StartExecution
  \/ FinishExecution
  \/ Disconnect

Spec == Init /\ [][Next]_vars

-----------------------------------------------------------------------------
(* The tracker is a tracker, whatever was called.                          *)
TypeOK == tracker \in Trackers

(* The tombstone set late_outgoing and its eviction queue late_order hold  *)
(* the same ids, the queue each of them once: cancel_outgoing,             *)
(* receive_response and disconnect update the two separately, and an id    *)
(* left in one of them would be evicted twice or never.                    *)
TombstonesAgree ==
  /\ tracker.late_outgoing = {tracker.late_order[k] : k \in 1..Len(tracker.late_order)}
  /\ \A j, k \in 1..Len(tracker.late_order) :
       tracker.late_order[j] = tracker.late_order[k] => j = k

(* Cancellation marks and execution identities never outlive what they     *)
(* belong to: a mark its incoming request (commit_response drops both), an *)
(* execution id its execution (execution_finished drops both), and an      *)
(* execution the loaded phase it started in.                               *)
MarksAreScoped ==
  /\ tracker.cancelled_incoming \subseteq Active(tracker.incoming)
  /\ tracker.active_execution_id # None => tracker.active_execution
  /\ tracker.active_execution => tracker.state = "ProgramLoaded"

(* After disconnect the tracker holds nothing and no later call can put    *)
(* anything back: a request registered, a response awaited or an execution *)
(* started after the connection failed would never be settled.             *)
DisconnectedIsEmpty ==
  tracker.state = "Disconnected" =>
    /\ Active(tracker.incoming) = {} /\ Active(tracker.outgoing) = {}
    /\ tracker.late_outgoing = {} /\ tracker.cancelled_incoming = {}
    /\ ~tracker.active_execution
    /\ tracker.invoking_session_id = None

(* initialize, host/project and catalog/set are never served twice at      *)
(* once, in whatever order requests, responses and phases interleave.      *)
SingletonsAreSingle ==
  \A i, j \in ReqId :
    /\ tracker.incoming[i] \in SingletonMethods
    /\ tracker.incoming[i] = tracker.incoming[j]
    => i = j

Rank(state) ==
  CASE state = "New" -> 0 [] state = "Initialized" -> 1 [] state = "Projected" -> 2
    [] state = "CatalogFrozen" -> 3 [] state = "ProgramLoaded" -> 4
    [] state = "Disconnected" -> 5

PhaseStep ==
  /\ Rank(tracker'.state) >= Rank(tracker.state)
  /\ tracker.state \notin {"New", "Disconnected"} /\ tracker'.state # "Disconnected"
     => /\ tracker'.execution_mode = tracker.execution_mode
        /\ tracker'.invoking_session_id = tracker.invoking_session_id

(* The connection phase only moves forward, and the execution mode and the *)
(* session named by initialize are frozen until the connection ends.       *)
PhaseMovesForward == [][PhaseStep]_vars

=============================================================================
