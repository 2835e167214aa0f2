--------------------------- MODULE TrackerProofs ---------------------------
(***************************************************************************)
(* Proofs about the protocol tracker: the invariants of TrackerApi hold    *)
(* for every id set, every limit and every sequence of calls.              *)
(***************************************************************************)
EXTENDS TrackerApi, ProtocolTrackerProofs

(* The provers are given up to a minute for a leaf.                        *)
USE SMTT(60)

-----------------------------------------------------------------------------
(* Every call keeps the tracker good.                                      *)
LEMMA StepIsGood ==
  ASSUME Good(tracker), Next
  PROVE  Good(tracker')
<1>1. CASE RegisterOutgoing
  BY <1>1, RegisterIsGood, RegisterPlainIsGood
     DEF RegisterOutgoing, Becomes, UsedRequests
<1>2. CASE ReceiveRequest
  BY <1>2, ReceiveRequestIsGood DEF ReceiveRequest, UsedRequests, Becomes
<1>3. CASE ReceiveResponse
  BY <1>3, ReceiveResponseIsGood DEF ReceiveResponse, Becomes
<1>4. CASE ReceiveCancel
  BY <1>4, ReceiveCancelIsGood DEF ReceiveCancel, Becomes
<1>5. CASE CommitResponse
  BY <1>5, CommitIsGood DEF CommitResponse, Becomes
<1>6. CASE CancelOutgoing
  BY <1>6, CancelOutgoingIsGood DEF CancelOutgoing, Becomes
<1>7. CASE SetLimit
  BY <1>7, SetLimitIsGood, LimitsAssumption DEF SetLimit, Becomes
<1>8. CASE Initialize
  BY <1>8, InitializeIsGood DEF Initialize, Becomes
<1>9. CASE Advance
  BY Zenon, <1>9, AdvanceIsGood DEF Advance, Becomes, projection_succeeded,
     catalog_succeeded, program_loaded, ConnectionStates
<1>10. CASE StartExecution
  BY <1>10, StartIsGood DEF StartExecution, Becomes
<1>11. CASE FinishExecution
  BY <1>11, FinishIsGood DEF FinishExecution, Becomes
<1>12. CASE Disconnect
  BY <1>12, DisconnectIsGood DEF Disconnect, Becomes
<1> QED
  BY <1>1, <1>2, <1>3, <1>4, <1>5, <1>6, <1>7, <1>8, <1>9, <1>10, <1>11, <1>12
     DEF Next

(* Whatever is called, in any order, the tracker stays good.               *)
LEMMA AlwaysGood == Spec => []Good(tracker)
<1>1. Init => Good(tracker)
  BY NewIsGood, LimitsAssumption DEF Init
<1>2. Good(tracker) /\ [Next]_vars => Good(tracker)'
  <2> SUFFICES ASSUME Good(tracker), [Next]_vars PROVE Good(tracker')
    OBVIOUS
  <2>1. CASE Next
    BY <2>1, StepIsGood
  <2>2. CASE UNCHANGED vars
    BY <2>2 DEF vars
  <2> QED
    BY <2>1, <2>2
<1> QED
  BY <1>1, <1>2, PTL DEF Spec

(* The tracker is always a tracker: no call leaves an ill-typed field.     *)
THEOREM TypeCorrect == Spec => []TypeOK
<1>1. Good(tracker) => TypeOK
  BY DEF Good, TypeOK
<1> QED
  BY AlwaysGood, <1>1, PTL

(* The tombstone set and its eviction queue always agree: whatever order   *)
(* cancel_outgoing, receive_response, set_max_active_requests and          *)
(* disconnect are called in.                                               *)
THEOREM TombstonesInStep == Spec => []TombstonesAgree
<1>1. Good(tracker) => TombstonesAgree
  BY DEF Good, Agree, TombstonesAgree
<1> QED
  BY AlwaysGood, <1>1, PTL

(* Cancellation marks and execution identities never outlive what they     *)
(* belong to.                                                              *)
THEOREM MarksInScope == Spec => []MarksAreScoped
<1>1. Good(tracker) => MarksAreScoped
  BY DEF Good, Scoped, MarksAreScoped
<1> QED
  BY AlwaysGood, <1>1, PTL

(* Nothing is put back into a disconnected tracker.                        *)
THEOREM DisconnectIsFinal == Spec => []DisconnectedIsEmpty
<1>1. Good(tracker) => DisconnectedIsEmpty
  BY DEF Good, EmptyWhenDisconnected, DisconnectedIsEmpty
<1> QED
  BY AlwaysGood, <1>1, PTL

(* initialize, host/project and catalog/set are never served twice at      *)
(* once.                                                                   *)
THEOREM OneOfASingleton == Spec => []SingletonsAreSingle
<1>1. Good(tracker) => SingletonsAreSingle
  BY DEF Good, Singles, SingletonsAreSingle
<1> QED
  BY AlwaysGood, <1>1, PTL

-----------------------------------------------------------------------------
(* The calls that leave phase and binding alone.                           *)
SameBinding(t, u) ==
  /\ u.state = t.state
  /\ u.execution_mode = t.execution_mode
  /\ u.invoking_session_id = t.invoking_session_id

(* No call but initialize_binding and disconnect touches the binding.      *)
LEMMA BindingKept ==
  ASSUME NEW t \in Trackers
  PROVE  /\ \A id \in ReqId : \A m : SameBinding(t, insert_outgoing(t, id, m).t)
         /\ \A id \in ReqId : \A m : SameBinding(t, register_outgoing_request(t, id, m).t)
         /\ \A req \in Requests : SameBinding(t, register_outgoing_message(t, req).t)
         /\ \A req \in Requests : SameBinding(t, receive_request(t, req).t)
         /\ \A id \in ReqId : SameBinding(t, receive_response(t, id).t)
         /\ \A id \in ReqId : SameBinding(t, receive_cancel(t, id).t)
         /\ \A id \in ReqId : SameBinding(t, commit_response(t, id).t)
         /\ \A id \in ReqId : SameBinding(t, cancel_outgoing(t, id).t)
         /\ \A limit \in Limits : SameBinding(t, set_max_active_requests(t, limit))
         /\ \A e : SameBinding(t, execution_started_binding(t, e).t)
         /\ SameBinding(t, execution_finished(t))
<1>1. \A id \in ReqId : \A m : SameBinding(t, insert_outgoing(t, id, m).t)
  BY DEF SameBinding, insert_outgoing, Refused, Trackers
<1>2. \A id \in ReqId : \A m : SameBinding(t, register_outgoing_request(t, id, m).t)
  BY Zenon, <1>1 DEF register_outgoing_request, Refused, SameBinding
<1>3. \A req \in Requests : SameBinding(t, register_outgoing_message(t, req).t)
  BY Zenon, <1>1 DEF register_outgoing_message, Refused, SameBinding, Requests
<1>4. \A req \in Requests : SameBinding(t, receive_request(t, req).t)
  BY DEF SameBinding, receive_request, Refused, Trackers
<1>5. \A id \in ReqId : SameBinding(t, receive_response(t, id).t)
  BY DEF SameBinding, receive_response, Trackers
<1>6. \A id \in ReqId : SameBinding(t, receive_cancel(t, id).t)
  BY DEF SameBinding, receive_cancel, Trackers
<1>7. \A id \in ReqId : SameBinding(t, commit_response(t, id).t)
  BY DEF SameBinding, commit_response, Refused, Trackers
<1>8. \A id \in ReqId : SameBinding(t, cancel_outgoing(t, id).t)
  BY DEF SameBinding, cancel_outgoing, Refused, Trackers
<1>9. \A limit \in Limits : SameBinding(t, set_max_active_requests(t, limit))
  BY DEF SameBinding, set_max_active_requests, Trackers
<1>10. \A e : SameBinding(t, execution_started_binding(t, e).t)
  BY DEF SameBinding, execution_started_binding, Refused, Trackers
<1>11. SameBinding(t, execution_finished(t))
  BY DEF SameBinding, execution_finished, Trackers
<1> QED
  BY <1>1, <1>2, <1>3, <1>4, <1>5, <1>6, <1>7, <1>8, <1>9, <1>10, <1>11

(* The phases are numbered, and Disconnected is the last.                  *)
LEMMA RankIsNatural ==
  \A s \in ConnectionStates : Rank(s) \in 0..5 /\ Rank("Disconnected") = 5
BY DEF ConnectionStates, Rank

(* The connection phase only moves forward, and mode and session are       *)
(* frozen from initialize to disconnect: initialize_binding is the only    *)
(* call that sets them, and it is refused in every later phase.            *)
THEOREM PhasesOnlyAdvance == Spec => PhaseMovesForward
<1>1. ASSUME Good(tracker), [Next]_vars
      PROVE  [PhaseStep]_vars
  <2>1. tracker \in Trackers /\ tracker.state \in ConnectionStates
    BY <1>1 DEF Good, Trackers
  <2>2. SameBinding(tracker, tracker') => PhaseStep
    BY <2>1, RankIsNatural DEF SameBinding, PhaseStep
  <2>3. CASE \/ RegisterOutgoing \/ ReceiveRequest \/ ReceiveResponse
             \/ ReceiveCancel \/ CommitResponse \/ CancelOutgoing \/ SetLimit
             \/ StartExecution \/ FinishExecution
    <3>1. SameBinding(tracker, tracker')
      BY <2>1, <2>3, BindingKept
         DEF RegisterOutgoing, ReceiveRequest, ReceiveResponse, ReceiveCancel,
             CommitResponse, CancelOutgoing, SetLimit, StartExecution,
             FinishExecution, Becomes, UsedRequests
    <3> QED
      BY <2>2, <3>1
  <2>4. CASE Initialize
    <3>1. CASE tracker.state = "New"
      <4>1. tracker'.state = "Initialized"
        BY Zenon, <2>1, <2>4, <3>1 DEF Initialize, Becomes, initialize_binding, Trackers
      <4> QED
        BY <3>1, <4>1 DEF PhaseStep, Rank
    <3>2. CASE tracker.state # "New"
      <4>1. tracker' = tracker
        BY <2>4, <3>2 DEF Initialize, Becomes, initialize_binding, Refused
      <4> QED
        BY <2>2, <4>1 DEF SameBinding
    <3> QED
      BY <3>1, <3>2
  <2>5. CASE Advance
    BY <2>1, <2>5 DEF Advance, Becomes, projection_succeeded, catalog_succeeded,
       program_loaded, advance, Refused, PhaseStep, Rank, Trackers,
       ConnectionStates
  <2>6. CASE Disconnect
    <3>1. tracker'.state = "Disconnected"
      BY <2>1, <2>6 DEF Disconnect, Becomes, disconnect, Trackers
    <3> QED
      BY <2>1, <3>1, RankIsNatural DEF PhaseStep
  <2>7. CASE UNCHANGED vars
    BY <2>7
  <2> QED
    BY <1>1, <2>3, <2>4, <2>5, <2>6, <2>7 DEF Next
<1>2. Good(tracker) /\ [Next]_vars => [PhaseStep]_vars
  BY <1>1
<1> QED
  BY AlwaysGood, <1>2, PTL DEF Spec, PhaseMovesForward

=============================================================================
