----------------------------- MODULE JoshServer -----------------------------
(***************************************************************************)
(* One JOSH connection of the runtime (crates/josh-host/src/server.rs).    *)
(*                                                                         *)
(* Three threads share the tracker, the session, the registry of pending   *)
(* calls, the grant registry and the outbound queue:                       *)
(*   main    run_connection: receives one message after another and        *)
(*           handles it; at the end it cancels, joins and disconnects;     *)
(*   exec    spawn_execution: the one active execution, its calls to the   *)
(*           host, and the commit of its terminal event and response;      *)
(*   writer  takes frames from the queue and writes them.                  *)
(* A step is what happens under one lock or around one atomic; the write   *)
(* of a frame is a procedure that main and exec call (wr).  The host is    *)
(* any host: main may receive any message at any time.                     *)
(***************************************************************************)
EXTENDS ServerState, ProtocolTracker

(* What a host may answer: to tool/invoke an outcome, something malformed  *)
(* or an error code it must not use; to permission/request a denial        *)
(* ("good"), something malformed, or a grant.                              *)
Answers(method) ==
  {"good", "bad"} \cup IF method = "tool/invoke" THEN {"violation"} ELSE Grant

NewLog == [owed |-> {}, doubled |-> FALSE, seq |-> 0, over |-> FALSE, result |-> None,
           cancels |-> {}, heard |-> {}, honoured |-> FALSE,
           bitten |-> {}]

Init ==
  /\ scene \in Scenarios
  /\ pc = [main |-> "boot", exec |-> "none", writer |-> "live"]
  /\ wr = [t \in Threads |-> NoFrame]
  /\ tracker = NewTracker("Runtime", 64)
  /\ active = None /\ execution_ids = {} /\ cancelled = FALSE
  /\ msg = NoMsg /\ job = NoJob
  /\ open = [t \in Target |-> NoMethod]
  /\ pending = {} /\ call = [t \in Target |-> "none"] /\ spent = {}
  /\ grants = EmptyRegistry /\ live = {}
  /\ gate = None /\ disconnected = FALSE /\ failed = FALSE /\ queued = 0
  /\ log = NewLog

Goto(t, label) == pc' = [pc EXCEPT ![t] = label]

At(t, label) == pc[t] = label /\ wr[t] = NoFrame

-----------------------------------------------------------------------------
(***************************************************************************)
(* ConnectionWriter.                                                       *)
(***************************************************************************)
(* Thread t calls write_message(frame); it goes on at ok or at err.        *)
Write(t, frame, ok, err) ==
  wr' = [wr EXCEPT ![t] = [at |-> "check", frame |-> frame, ok |-> ok, err |-> err]]

Return(t, label) ==
  /\ pc' = [pc EXCEPT ![t] = label]
  /\ wr' = [wr EXCEPT ![t] = NoFrame]

(* What the host can tell from the frames in their order.                  *)
Logged(frame) ==
  CASE frame.kind = "event" /\ frame.seq = 1 ->
         [log EXCEPT !.seq = 1, !.over = FALSE, !.result = None, !.honoured = FALSE]
    [] frame.kind = "event" /\ frame.seq # 1 -> [log EXCEPT !.seq = frame.seq]
    [] frame.kind = "terminal" -> [log EXCEPT !.seq = frame.seq, !.over = TRUE]
    [] frame.kind = "response" ->
         [log EXCEPT !.owed = @ \ {frame.id}, !.doubled = @ \/ frame.id \notin log.owed]
    [] frame.kind = "result" ->
         [log EXCEPT !.owed = @ \ {frame.id}, !.doubled = @ \/ frame.id \notin log.owed,
                     !.result = frame.result]
    [] frame.kind = "cancel" -> [log EXCEPT !.cancels = @ \cup {frame.id}]
    [] OTHER -> log

(* write_message_until: the failed flag and the frame limit come first ... *)
WriteCheck(t) ==
  /\ wr[t].at = "check"
  /\ \/ failed /\ Return(t, wr[t].err)
     \/ /\ ~failed
        /\ wr[t].frame.kind = "request" /\ "big" \in scene.faults
        /\ Return(t, wr[t].err)
     \/ /\ ~failed
        /\ wr' = [wr EXCEPT ![t].at = "send"]
        /\ UNCHANGED pc
  /\ UNCHANGED <<msg, job, open, log, shared>>

(* ... then try_send, until it succeeds, the writer is gone, the deadline  *)
(* has passed or another thread has failed the connection.                 *)
WriteSend(t) ==
  /\ wr[t].at = "send"
  /\ \/ /\ pc["writer"] = "live" /\ queued < QueueDepth
        /\ queued' = queued + 1
        /\ log' = Logged(wr[t].frame)
        /\ Return(t, wr[t].ok)
     \/ /\ \/ pc["writer"] = "dead"
           \/ queued = QueueDepth /\ (failed \/ "full" \in scene.faults)
        /\ wr' = [wr EXCEPT ![t].at = "fail"]
        /\ UNCHANGED <<pc, queued, log>>
  /\ UNCHANGED <<msg, job, open, tracker, active, execution_ids, cancelled, pending, call,
                 spent, grants, live, gate, disconnected, failed, scene>>

(* Session::cancel_active.                                                 *)
CancelActive == cancelled' = (cancelled \/ active # None)

(* Mutant: the calls in flight are not failed.                             *)
fail_connection_KeepsCalls(t) ==
  \/ /\ wr[t].at = "fail"
     /\ failed' = TRUE /\ disconnected' = TRUE
     /\ wr' = [wr EXCEPT ![t].at = "cancel"]
     /\ UNCHANGED <<pc, tracker, cancelled, pending, call>>
  \/ /\ wr[t].at = "cancel"
     /\ CancelActive
     /\ wr' = [wr EXCEPT ![t].at = "disconnect"]
     /\ UNCHANGED <<pc, tracker, pending, call, failed, disconnected>>
  \/ /\ wr[t].at = "disconnect"
     /\ tracker' = disconnect(tracker)
     /\ Return(t, wr[t].err)
     /\ UNCHANGED <<cancelled, pending, call, failed, disconnected>>

(* fail_connection, by whichever thread finds out; the writer thread does  *)
(* the same after an I/O error.  The two flags are stored in one step.     *)
fail_connection(t) ==
  \/ /\ wr[t].at = "fail"
     /\ failed' = TRUE /\ disconnected' = TRUE
     /\ wr' = [wr EXCEPT ![t].at = "cancel"]
     /\ UNCHANGED <<pc, tracker, cancelled, pending, call>>
  \/ /\ wr[t].at = "cancel"
     /\ CancelActive
     /\ wr' = [wr EXCEPT ![t].at = "failall"]
     /\ UNCHANGED <<pc, tracker, pending, call, failed, disconnected>>
  \/ /\ wr[t].at = "failall"
     /\ FailPending
     /\ wr' = [wr EXCEPT ![t].at = "disconnect"]
     /\ UNCHANGED <<pc, tracker, cancelled, failed, disconnected>>
  \/ /\ wr[t].at = "disconnect"
     /\ tracker' = disconnect(tracker)
     /\ Return(t, wr[t].err)
     /\ UNCHANGED <<cancelled, pending, call, failed, disconnected>>

FailConnection(t) ==
  /\ fail_connection(t)
  /\ UNCHANGED <<msg, job, open, log, active, execution_ids, spent, grants, live, gate,
                 queued, scene>>

(* The writer thread writes the next frame, or fails to.                   *)
Deliver ==
  /\ At("writer", "live") /\ queued > 0
  /\ queued' = queued - 1
  /\ \/ UNCHANGED wr
     \/ /\ "io" \in scene.faults
        /\ wr' = [wr EXCEPT !["writer"] = [at |-> "fail", err |-> "dead"]]
  /\ UNCHANGED <<pc, msg, job, open, log, tracker, active, execution_ids, cancelled,
                 pending, call, spent, grants, live, gate, disconnected, failed, scene>>

-----------------------------------------------------------------------------
(***************************************************************************)
(* main: run_connection.                                                   *)
(***************************************************************************)
(* runtime/ready, before the first message is read.                        *)
Boot ==
  /\ At("main", "boot")
  /\ Write("main", [kind |-> "ready"], "idle", "ret")
  /\ UNCHANGED <<pc, msg, job, open, log, shared>>

(* Mutant: the flag is not looked at.                                      *)
PollInput_IgnoresFlag ==
  /\ \/ At("main", "idle") /\ Goto("main", "recv")
     \/ At("main", "recv") /\ Goto("main", "idle")
  /\ UNCHANGED <<wr, msg, job, open, log, shared>>

(* receive_input looks at the flag, then waits for 10 ms.                  *)
PollInput ==
  /\ \/ At("main", "idle") /\ Goto("main", IF disconnected THEN "ret" ELSE "recv")
     \/ At("main", "recv") /\ Goto("main", "idle")
  /\ UNCHANGED <<wr, msg, job, open, log, shared>>

(* A message that ends the connection.                                     *)
Fatal ==
  /\ disconnected' = TRUE
  /\ Goto("main", "ret")
  /\ UNCHANGED <<wr, msg, log, scene>>

ReceiveEnd ==
  /\ At("main", "recv")
  /\ Fatal
  /\ UNCHANGED <<job, open, tracker, active, execution_ids, cancelled, pending, call, spent,
                 grants, live, gate, failed, queued, scene>>

InboundRequests ==
  [id : HostIds, method : (HostMethods \ {"execution/start"}) \cup {"tool/invoke"},
   exec : {None}, sess : {None}, valid : {TRUE}]
  \cup [id : HostIds, method : {"execution/start"}, exec : scene.executions, sess : {None},
        valid : {TRUE}]

(* A refused request is answered at once, an accepted one is handled.      *)
ReceiveRequest ==
  /\ At("main", "recv")
  /\ \E req \in InboundRequests :
       LET result == receive_request(tracker, req)
       IN  /\ tracker' = result.t
           /\ \/ result.r = "fatal" /\ Fatal
              \/ /\ result.r = "ok"
                 /\ msg' = req
                 /\ log' = [log EXCEPT !.owed = @ \cup {req.id}]
                 /\ Goto("main", "handle")
                 /\ UNCHANGED <<wr, disconnected>>
              \/ /\ result.r \notin {"ok", "fatal"}
                 /\ Write("main", [kind |-> "response", id |-> req.id], "idle", "ret")
                 /\ log' = [log EXCEPT !.owed = IF req.id \in Active(tracker.incoming)
                                                THEN @ ELSE @ \cup {req.id}]
                 /\ UNCHANGED <<pc, msg, disconnected>>
  /\ UNCHANGED <<job, open, active, execution_ids, cancelled, pending, call, spent, grants,
                 live, gate, failed, queued, scene>>

ReceiveResponse ==
  /\ At("main", "recv")
  /\ \E id \in Target : \E answer \in Answers(tracker.outgoing[id]) :
       LET result == receive_response(tracker, id)
       IN  /\ tracker' = result.t
           /\ \/ result.r = "fatal" /\ Fatal
              \/ /\ result.r = "ok"
                 /\ msg' = [id |-> id, answer |-> answer]
                 /\ log' = [log EXCEPT !.heard = @ \cup {id}]
                 /\ Goto("main", "complete")
                 /\ UNCHANGED <<wr, disconnected>>
  /\ UNCHANGED <<job, open, active, execution_ids, cancelled, pending, call, spent, grants,
                 live, gate, failed, queued, scene>>

(* PendingRegistry::complete.                                              *)
CompleteCall ==
  /\ At("main", "complete")
  /\ pending' = pending \ {msg.id}
  /\ call' = IF msg.id \in pending THEN [call EXCEPT ![msg.id] = msg.answer] ELSE call
  /\ Goto("main", "idle") /\ msg' = NoMsg
  /\ UNCHANGED <<wr, job, open, log, tracker, active, execution_ids, cancelled, spent,
                 grants, live, gate, disconnected, failed, queued, scene>>

(* Only the first Cancel of an active request goes further.                *)
ReceiveCancel ==
  /\ At("main", "recv")
  /\ \E id \in HostIds :
       LET result == receive_cancel(tracker, id)
       IN  /\ tracker' = result.t
           /\ \/ result.r = "first" /\ msg' = [id |-> id] /\ Goto("main", "cancel")
              \/ result.r # "first" /\ UNCHANGED msg /\ Goto("main", "idle")
  /\ UNCHANGED <<wr, job, open, log, active, execution_ids, cancelled, pending, call, spent,
                 grants, live, gate, disconnected, failed, queued, scene>>

(* Mutant: the commit gate is not taken.                                   *)
CancelExecution_NoGate ==
  /\ At("main", "cancel")
  /\ cancelled' = (cancelled \/ active = msg.id)
  /\ log' = [log EXCEPT !.honoured = @ \/ active = msg.id]
  /\ Goto("main", "idle") /\ msg' = NoMsg
  /\ UNCHANGED <<wr, job, open, tracker, active, execution_ids, pending, call, spent,
                 grants, live, gate, disconnected, failed, queued, scene>>

(* Session::cancel, under the commit gate.                                 *)
CancelExecution ==
  /\ At("main", "cancel")
  /\ gate = None
  /\ cancelled' = (cancelled \/ active = msg.id)
  /\ log' = [log EXCEPT !.honoured = @ \/ active = msg.id]
  /\ Goto("main", "idle") /\ msg' = NoMsg
  /\ UNCHANGED <<wr, job, open, tracker, active, execution_ids, pending, call, spent,
                 grants, live, gate, disconnected, failed, queued, scene>>

(* permission/revoke: the notification is checked against the binding ...  *)
ReceiveRevoke ==
  /\ At("main", "recv")
  /\ \E g \in Grant, e \in ExecId :
       LET note == [method |-> "permission/revoke", exec |-> e, sess |-> Session,
                    decision |-> FALSE, valid |-> TRUE]
       IN  \/ /\ notification(tracker, note, TRUE) = "fatal"
              /\ Fatal
           \/ /\ notification(tracker, note, TRUE) = "ok"
              /\ msg' = [grant |-> g]
              /\ Goto("main", "revoke")
              /\ UNCHANGED <<wr, log, disconnected>>
  /\ UNCHANGED <<job, open, tracker, active, execution_ids, cancelled, pending, call, spent,
                 grants, live, gate, failed, queued, scene>>

(* ... and the grant revoked.                                              *)
RevokeGrant ==
  /\ At("main", "revoke")
  /\ grants' = revoke(grants, msg.grant)
  /\ log' = [log EXCEPT
               !.bitten = @ \cup (grants'.revoked \ grants.revoked)
                  \cup (grants'.revoked_pending_targets \ grants.revoked_pending_targets)]
  /\ Goto("main", "idle") /\ msg' = NoMsg
  /\ UNCHANGED <<wr, job, open, tracker, active, execution_ids, cancelled, pending, call,
                 spent, live, gate, disconnected, failed, queued, scene>>

(* initialize, host/project, catalog/set and program/load: the session     *)
(* accepts or refuses the parameters, the answer is written, and then the  *)
(* tracker settles the request and, on success, advances.                  *)
HandleSetup ==
  /\ At("main", "handle") /\ msg.method # "execution/start"
  /\ \E label \in {"accepted", "refused"} :
       Write("main", [kind |-> "response", id |-> msg.id], label, "ret")
  /\ UNCHANGED <<pc, msg, job, open, log, shared>>

Initialized(t) ==
  LET bound == initialize_binding(t, "Attached", Session)
  IN  IF bound.r = "ok" THEN [bound EXCEPT !.t = set_max_active_requests(@, scene.max_active)]
                        ELSE bound

Advanced(t) ==
  CASE msg.method = "initialize"   -> Initialized(t)
    [] msg.method = "host/project" -> projection_succeeded(t)
    [] msg.method = "catalog/set"  -> catalog_succeeded(t)
    [] msg.method = "program/load" -> program_loaded(t)

CommitSetup ==
  /\ At("main", "accepted")
  /\ LET settled  == commit_response(tracker, msg.id)
         advanced == Advanced(settled.t)
     IN  IF settled.r # "ok" THEN UNCHANGED tracker /\ Goto("main", "ret")
         ELSE /\ tracker' = advanced.t
              /\ Goto("main", IF advanced.r = "ok" THEN "idle" ELSE "ret")
  /\ msg' = NoMsg
  /\ UNCHANGED <<wr, job, open, log, active, execution_ids, cancelled, pending, call, spent,
                 grants, live, gate, disconnected, failed, queued, scene>>

(* finish_failed_request, after its write.                                 *)
CommitRefusal ==
  /\ At("main", "refused")
  /\ LET settled == commit_response(tracker, msg.id)
     IN  /\ tracker' = settled.t
         /\ Goto("main", IF settled.r = "ok" THEN "idle" ELSE "ret")
  /\ msg' = NoMsg
  /\ UNCHANGED <<wr, job, open, log, active, execution_ids, cancelled, pending, call, spent,
                 grants, live, gate, disconnected, failed, queued, scene>>

(* Mutant: a launch that is refused gets no answer.                        *)
PrepareExecution_Silent ==
  /\ At("main", "handle") /\ msg.method = "execution/start"
  /\ \/ /\ Goto("main", "idle")
        /\ UNCHANGED <<active, execution_ids, cancelled>>
     \/ /\ active = None /\ msg.exec \notin execution_ids
        /\ active' = msg.id
        /\ execution_ids' = execution_ids \cup {msg.exec}
        /\ cancelled' = FALSE
        /\ Goto("main", "prepared")
  /\ UNCHANGED <<wr, msg, job, open, log, tracker, pending, call, spent, grants, live, gate,
                 disconnected, failed, queued, scene>>

(* execution/start.  Session::prepare_execution refuses a second active    *)
(* execution, a used id, or a launch that does not pass its checks; it     *)
(* remembers the id and the request otherwise.                             *)
PrepareExecution ==
  /\ At("main", "handle") /\ msg.method = "execution/start"
  /\ \/ /\ Write("main", [kind |-> "response", id |-> msg.id], "refused", "ret")
        /\ UNCHANGED <<pc, active, execution_ids, cancelled>>
     \/ /\ active = None /\ msg.exec \notin execution_ids
        /\ active' = msg.id
        /\ execution_ids' = execution_ids \cup {msg.exec}
        /\ cancelled' = FALSE
        /\ Goto("main", "prepared")
        /\ UNCHANGED wr
  /\ UNCHANGED <<msg, job, open, log, tracker, pending, call, spent, grants, live, gate,
                 disconnected, failed, queued, scene>>

(* execution_started_with, then the Accepted event.                        *)
StartExecution ==
  /\ At("main", "prepared")
  /\ LET started == execution_started_binding(tracker, msg.exec)
     IN  /\ tracker' = started.t
         /\ \/ /\ started.r = "ok"
               /\ Write("main", [kind |-> "event", seq |-> 1], "spawn", "unstart")
               /\ UNCHANGED pc
            \/ /\ started.r # "ok"
               /\ Goto("main", "ret")
               /\ UNCHANGED wr
  /\ UNCHANGED <<msg, job, open, log, active, execution_ids, cancelled, pending, call, spent,
                 grants, live, gate, disconnected, failed, queued, scene>>

(* Session::finish_execution.                                              *)
FinishExecution(req) == active' = IF active = req THEN None ELSE active

(* The Accepted event could not be written.                                *)
UndoStart ==
  /\ \/ /\ At("main", "unstart")
        /\ FinishExecution(msg.id)
        /\ Goto("main", "unstart2")
        /\ UNCHANGED tracker
     \/ /\ At("main", "unstart2")
        /\ tracker' = execution_finished(tracker)
        /\ Goto("main", "ret")
        /\ UNCHANGED active
  /\ UNCHANGED <<wr, msg, job, open, log, execution_ids, cancelled, pending, call, spent,
                 grants, live, gate, disconnected, failed, queued, scene>>

SpawnExecution ==
  /\ At("main", "spawn")
  /\ job' = [NoJob EXCEPT !.req = msg.id, !.exec = msg.exec]
  /\ pc' = [pc EXCEPT !["main"] = "idle", !["exec"] = "start"]
  /\ msg' = NoMsg
  /\ UNCHANGED <<wr, open, log, shared>>

(* The end of run_connection: flag, cancel, join, clear, disconnect.       *)
EndConnection ==
  /\ \/ /\ At("main", "ret") /\ Goto("main", "ret_cancel")
        /\ disconnected' = TRUE
        /\ UNCHANGED <<tracker, cancelled, grants>>
     \/ /\ At("main", "ret_cancel") /\ Goto("main", "ret_join")
        /\ CancelActive
        /\ UNCHANGED <<tracker, grants, disconnected>>
     \/ /\ At("main", "ret_join") /\ Goto("main", "ret_clear")
        /\ pc["exec"] = "none"
        /\ UNCHANGED <<tracker, cancelled, grants, disconnected>>
     \/ /\ At("main", "ret_clear") /\ Goto("main", "ret_tracker")
        /\ grants' = EmptyRegistry
        /\ UNCHANGED <<tracker, cancelled, disconnected>>
     \/ /\ At("main", "ret_tracker") /\ Goto("main", "done")
        /\ tracker' = disconnect(tracker)
        /\ UNCHANGED <<cancelled, grants, disconnected>>
  /\ UNCHANGED <<wr, msg, job, open, log, active, execution_ids, pending, call, spent, live,
                 gate, failed, queued, scene>>

-----------------------------------------------------------------------------
(***************************************************************************)
(* exec: spawn_execution, the providers it hands to the runtime, and what  *)
(* the runtime does with them.                                             *)
(***************************************************************************)
(* An event with the next sequence number.                                 *)
Event(ok, err) == Write("exec", [kind |-> "event", seq |-> job.seq], ok, err)

(* PreparedExecution::run_with_observer: nothing runs if the execution was *)
(* cancelled by now or its input is refused, otherwise the Started event   *)
(* (sequence 2) comes first.                                               *)
BeginRun ==
  /\ At("exec", "start")
  /\ \/ /\ job' = [job EXCEPT !.result = IF cancelled THEN "Cancelled" ELSE "Failed"]
        /\ Goto("exec", "drain")
        /\ UNCHANGED wr
     \/ /\ ~cancelled /\ disconnected
        /\ Goto("exec", "run")
        /\ UNCHANGED <<wr, job>>
     \/ /\ ~cancelled /\ ~disconnected
        /\ Write("exec", [kind |-> "event", seq |-> 2], "run", "abort")
        /\ UNCHANGED <<pc, job>>
  /\ UNCHANGED <<msg, open, log, shared>>

(* WireTaskObserver: a task event or a budget warning.                     *)
ObserverEvent ==
  /\ At("exec", "run") /\ ~disconnected /\ job.seq < MaxSeq
  /\ Event("counted", "abort")
  /\ UNCHANGED <<pc, msg, job, open, log, shared>>

(* The counter moves only when the event was enqueued; an execution whose  *)
(* observer cannot be heard is cancelled.                                  *)
AfterEvent ==
  /\ \/ /\ At("exec", "counted")
        /\ job' = [job EXCEPT !.seq = @ + 1]
        /\ UNCHANGED cancelled
     \/ At("exec", "abort") /\ cancelled' = TRUE /\ UNCHANGED job
  /\ Goto("exec", "run")
  /\ UNCHANGED <<wr, msg, open, log, tracker, active, execution_ids, pending, call, spent,
                 grants, live, gate, disconnected, failed, queued, scene>>

(* refresh_external_state, at the head of every file-system or permission  *)
(* effect: a lost provider refuses it, otherwise the revocations are taken *)
(* if any external handle is live.                                         *)
Refreshed ==
  IF live = {} THEN UNCHANGED <<grants, live>>
  ELSE /\ live' = live \ grants.revoked
       /\ grants' = take_revocations(grants)

UseHandle ==
  /\ At("exec", "run") /\ ~job.lost /\ live # {}
  /\ Refreshed
  /\ UNCHANGED <<pc, wr, msg, job, open, log, tracker, active, execution_ids, cancelled,
                 pending, call, spent, gate, disconnected, failed, queued, scene>>

(* start_invoke and start_decide: nothing starts once cancelled; a tool    *)
(* call is announced by an EffectStarted event.                            *)
StartCall ==
  /\ At("exec", "run") /\ ~cancelled /\ spent # scene.targets
  /\ \/ /\ "tool/invoke" \in scene.calls
        /\ Event("announced", "run")
        /\ UNCHANGED <<pc, job, grants, live>>
     \/ /\ "permission/request" \in scene.calls /\ ~job.lost
        /\ Refreshed
        /\ job' = [job EXCEPT !.method = "permission/request"]
        /\ Goto("exec", "insert")
        /\ UNCHANGED wr
  /\ UNCHANGED <<msg, open, log, tracker, active, execution_ids, cancelled, pending, call,
                 spent, gate, disconnected, failed, queued, scene>>

Announced ==
  /\ At("exec", "announced")
  /\ job' = [job EXCEPT !.seq = @ + 1, !.method = "tool/invoke"]
  /\ Goto("exec", "insert")
  /\ UNCHANGED <<wr, msg, open, log, shared>>

(* start_outbound_request: a fresh id enters the registry ...              *)
InsertPending ==
  /\ At("exec", "insert")
  /\ LET id == CHOOSE t \in scene.targets \ spent : TRUE
     IN  /\ spent' = spent \cup {id}
         /\ pending' = pending \cup {id}
         /\ call' = [call EXCEPT ![id] = "waiting"]
         /\ job' = [job EXCEPT !.id = id]
  /\ Goto("exec", "register")
  /\ UNCHANGED <<wr, msg, open, log, tracker, active, execution_ids, cancelled, grants, live,
                 gate, disconnected, failed, queued, scene>>

(* ... then the tracker, and then the request is written.                  *)
RegisterOutgoing ==
  /\ At("exec", "register")
  /\ LET req    == [id |-> job.id, method |-> job.method, exec |-> job.exec,
                    sess |-> Session, valid |-> TRUE]
         result == register_outgoing_message(tracker, req)
     IN  /\ tracker' = result.t
         /\ \/ /\ result.r = "ok"
               /\ Write("exec", [kind |-> "request", id |-> job.id], "sent", "unregister")
               /\ UNCHANGED pc
            \/ /\ result.r # "ok"
               /\ Goto("exec", "uninsert")
               /\ UNCHANGED wr
  /\ UNCHANGED <<msg, job, open, log, active, execution_ids, cancelled, pending, call, spent,
                 grants, live, gate, disconnected, failed, queued, scene>>

CallSent ==
  /\ At("exec", "sent")
  /\ open' = [open EXCEPT ![job.id] = job.method]
  /\ job' = [job EXCEPT !.id = None, !.method = NoMethod]
  /\ Goto("exec", "run")
  /\ UNCHANGED <<wr, msg, log, shared>>

(* The registration or the write failed: the id leaves the registry, and   *)
(* after a failed write the tracker forgets it without a Cancel.           *)
UndoCall ==
  /\ At("exec", "uninsert") \/ At("exec", "unregister") \/ At("exec", "untrack")
  /\ \/ pc["exec"] = "uninsert" /\ Goto("exec", "callfailed") /\ UNCHANGED tracker
     \/ pc["exec"] = "unregister" /\ Goto("exec", "untrack") /\ UNCHANGED tracker
     \/ /\ pc["exec"] = "untrack" /\ Goto("exec", "callfailed")
        /\ tracker' = cancel_outgoing(tracker, job.id).t
  /\ pending' = pending \ {job.id}
  /\ UNCHANGED <<wr, msg, job, open, log, active, execution_ids, cancelled, call, spent,
                 grants, live, gate, disconnected, failed, queued, scene>>

(* After that a tool call reports EffectFailed; a permission request that  *)
(* cannot be sent loses the provider and with it every external handle.    *)
CallFailed ==
  /\ At("exec", "callfailed")
  /\ job' = [job EXCEPT !.id = None, !.method = NoMethod,
                        !.lost = @ \/ job.method = "permission/request"]
  /\ \/ /\ job.method = "tool/invoke"
        /\ Event("counted", "run")
        /\ UNCHANGED <<pc, live>>
     \/ /\ job.method = "permission/request"
        /\ live' = {}
        /\ Goto("exec", "run")
        /\ UNCHANGED wr
  /\ UNCHANGED <<msg, open, log, tracker, active, execution_ids, cancelled, pending, call,
                 spent, grants, gate, disconnected, failed, queued, scene>>

(* A call in flight ends without its answer: the VM gives it up            *)
(* (cancel_effect), or polling it finds the deadline passed or the         *)
(* connection failed.  A permission request that fails loses the provider. *)
DropCall ==
  /\ At("exec", "run")
  /\ \E id \in Target, error \in BOOLEAN :
       /\ open[id] # NoMethod
       /\ error => call[id] = "failed" \/ "deadline" \in scene.faults
       /\ LET lost == error /\ open[id] = "permission/request"
          IN  /\ job' = [job EXCEPT !.id = id, !.method = open[id], !.lost = @ \/ lost]
              /\ live' = IF lost THEN {} ELSE live
       /\ open' = [open EXCEPT ![id] = NoMethod]
       /\ pending' = pending \ {id}
  /\ Goto("exec", "withdraw")
  /\ UNCHANGED <<wr, msg, log, tracker, active, execution_ids, cancelled, call, spent, grants,
                 gate, disconnected, failed, queued, scene>>

(* cancel_outbound_request: the host is told only if the tracker still     *)
(* waited for the answer.                                                  *)
WithdrawCall ==
  /\ At("exec", "withdraw")
  /\ LET result == cancel_outgoing(tracker, job.id)
     IN  /\ tracker' = result.t
         /\ \/ /\ result.r = "ok" /\ ~disconnected
               /\ Write("exec", [kind |-> "cancel", id |-> job.id], "withdrawn", "withdrawn")
               /\ UNCHANGED pc
            \/ /\ result.r # "ok" \/ disconnected
               /\ Goto("exec", "withdrawn")
               /\ UNCHANGED wr
  /\ UNCHANGED <<msg, job, open, log, active, execution_ids, cancelled, pending, call, spent,
                 grants, live, gate, disconnected, failed, queued, scene>>

(* The EffectFailed event of a withdrawn tool call.                        *)
CallWithdrawn ==
  /\ At("exec", "withdrawn")
  /\ job' = [job EXCEPT !.id = None, !.method = NoMethod]
  /\ \/ /\ job.method = "tool/invoke" /\ ~disconnected
        /\ Event("counted", "run")
        /\ UNCHANGED pc
     \/ /\ job.method = "permission/request" \/ disconnected
        /\ Goto("exec", "run")
        /\ UNCHANGED wr
  /\ UNCHANGED <<msg, open, log, shared>>

(* poll of a tool call that has its answer; an error code the host must    *)
(* not use is a violation and ends the execution.                          *)
ToolAnswered ==
  /\ At("exec", "run") /\ ~cancelled
  /\ \E id \in Target :
       /\ open[id] = "tool/invoke" /\ call[id] \in Answers("tool/invoke")
       /\ open' = [open EXCEPT ![id] = NoMethod]
       /\ job' = [job EXCEPT !.violation = @ \/ call[id] = "violation"]
       /\ cancelled' = (call[id] = "violation")
       /\ Event("counted", "run")
  /\ UNCHANGED <<pc, msg, log, tracker, active, execution_ids, pending, call, spent, grants,
                 live, gate, disconnected, failed, queued, scene>>

(* poll of a permission request that has its answer: a decision is         *)
(* announced before it is acted on.                                        *)
PermissionAnswered ==
  /\ At("exec", "run") /\ ~cancelled
  /\ \E id \in Target :
       /\ open[id] = "permission/request" /\ call[id] \in Answers("permission/request")
       /\ open' = [open EXCEPT ![id] = NoMethod]
       /\ \/ /\ call[id] = "bad"
             /\ Goto("exec", "lose")
             /\ UNCHANGED <<wr, job>>
          \/ /\ call[id] = "good"
             /\ Event("counted", "lose")
             /\ UNCHANGED <<pc, job>>
          \/ /\ call[id] \in Grant
             /\ Event("allow", "lose")
             /\ job' = [job EXCEPT !.id = id, !.grant = call[id]]
             /\ UNCHANGED pc
  /\ UNCHANGED <<msg, log, shared>>

(* revoke_all_external, after the provider failed.                         *)
LoseProvider ==
  /\ At("exec", "lose")
  /\ live' = {}
  /\ job' = [job EXCEPT !.lost = TRUE, !.id = None, !.grant = NoGrant]
  /\ Goto("exec", "run")
  /\ UNCHANGED <<wr, msg, open, log, tracker, active, execution_ids, cancelled, pending, call,
                 spent, grants, gate, disconnected, failed, queued, scene>>

(* The grant enters the registry ...                                       *)
AllowGrant ==
  /\ At("exec", "allow")
  /\ grants' = allowed(grants, job.id, job.grant)
  /\ job' = [job EXCEPT !.seq = @ + 1]
  /\ Goto("exec", IF allowed_again(grants, job.id) THEN "lose" ELSE "issue")
  /\ UNCHANGED <<wr, msg, open, log, tracker, active, execution_ids, cancelled, pending, call,
                 spent, live, gate, disconnected, failed, queued, scene>>

(* ... and finish_permission_decision opens the target and issues its      *)
(* handle, or cannot open it.                                              *)
IssueGrant ==
  /\ At("exec", "issue")
  /\ \/ live' = live \cup {job.id} /\ grants' = issued(grants, job.id)
     \/ UNCHANGED <<live, grants>>
  /\ job' = [job EXCEPT !.id = None, !.grant = NoGrant]
  /\ Goto("exec", "run")
  /\ UNCHANGED <<wr, msg, open, log, tracker, active, execution_ids, cancelled, pending, call,
                 spent, gate, disconnected, failed, queued, scene>>

(* The program ends: what was computed counts only if the execution was    *)
(* not cancelled by then.  An outcome too large for a frame becomes a      *)
(* failure, which is one of the outcomes here.  Handles expire.            *)
FinishRun ==
  /\ At("exec", "run")
  /\ \E computed \in {"Completed", "Stopped", "Failed"} :
       job' = [job EXCEPT !.result = IF cancelled THEN "Cancelled" ELSE computed]
  /\ open' = [t \in Target |-> NoMethod]
  /\ live' = {}
  /\ Goto("exec", "drain")
  /\ UNCHANGED <<wr, msg, log, tracker, active, execution_ids, cancelled, pending, call, spent,
                 grants, gate, disconnected, failed, queued, scene>>

(* cancel_pending_outbound: calls the program left behind are failed, then *)
(* withdrawn one by one, and the grants are cleared.                       *)
DrainPending ==
  /\ At("exec", "drain")
  /\ FailPending
  /\ job' = [job EXCEPT !.todo = pending]
  /\ Goto("exec", "drain1")
  /\ UNCHANGED <<wr, msg, open, log, tracker, active, execution_ids, cancelled, spent, grants,
                 live, gate, disconnected, failed, queued, scene>>

DrainNext ==
  /\ At("exec", "drain1") /\ job.todo # {}
  /\ LET id     == CHOOSE t \in job.todo : TRUE
         result == cancel_outgoing(tracker, id)
     IN  /\ tracker' = result.t
         /\ job' = [job EXCEPT !.todo = @ \ {id}]
         /\ IF result.r = "ok"
            THEN Write("exec", [kind |-> "cancel", id |-> id], "drain1", "drain1")
            ELSE UNCHANGED wr
  /\ UNCHANGED <<pc, msg, open, log, active, execution_ids, cancelled, pending, call, spent,
                 grants, live, gate, disconnected, failed, queued, scene>>

ClearGrants ==
  /\ At("exec", "drain1") /\ job.todo = {}
  /\ grants' = EmptyRegistry
  /\ Goto("exec", "gate")
  /\ UNCHANGED <<wr, msg, job, open, log, tracker, active, execution_ids, cancelled, pending,
                 call, spent, live, gate, disconnected, failed, queued, scene>>

(* From here to the end of the thread the commit gate is held.             *)
TakeGate ==
  /\ At("exec", "gate") /\ gate = None
  /\ gate' = "exec"
  /\ Goto("exec", "decide")
  /\ UNCHANGED <<wr, msg, job, open, log, tracker, active, execution_ids, cancelled, pending,
                 call, spent, grants, live, disconnected, failed, queued, scene>>

(* Mutant: the response is written before the terminal event.              *)
DecideResult_ResponseFirst ==
  /\ At("exec", "decide")
  /\ \/ disconnected /\ Goto("exec", "fin1") /\ UNCHANGED <<wr, job>>
     \/ /\ ~disconnected
        /\ job' = [job EXCEPT !.result = IF cancelled THEN "Cancelled" ELSE @]
        /\ Write("exec", [kind |-> "result", id |-> job.req, result |-> job'.result],
                 "respond", "fin1")
        /\ UNCHANGED pc
  /\ UNCHANGED <<msg, open, log, shared>>

(* The result is decided, and the terminal event announces it ...          *)
DecideResult ==
  /\ At("exec", "decide")
  /\ \/ disconnected /\ Goto("exec", "fin1") /\ UNCHANGED <<wr, job>>
     \/ /\ ~disconnected
        /\ job' = [job EXCEPT !.result = IF job.violation THEN "Violation"
                                         ELSE IF cancelled THEN "Cancelled" ELSE @]
        /\ Write("exec", [kind |-> "terminal", seq |-> job.seq], "respond", "fin1")
        /\ UNCHANGED pc
  /\ UNCHANGED <<msg, open, log, shared>>

(* ... before the response to execution/start carries it.                  *)
Respond ==
  /\ At("exec", "respond")
  /\ Write("exec", [kind |-> "result", id |-> job.req, result |-> job.result],
           "settle", "fin1")
  /\ UNCHANGED <<pc, msg, job, open, log, shared>>

(* Mutant: the request stays in the tracker.                               *)
SettleExecution_KeepsRequest ==
  /\ At("exec", "settle") \/ At("exec", "fin1")
  /\ tracker' = execution_finished(tracker)
  /\ Goto("exec", "fin2")
  /\ UNCHANGED <<wr, msg, job, open, log, active, execution_ids, cancelled, pending, call,
                 spent, grants, live, gate, disconnected, failed, queued, scene>>

(* The tracker learns of it after the response, and only if it was sent    *)
(* is the request settled.                                                 *)
SettleExecution ==
  /\ At("exec", "settle") \/ At("exec", "fin1")
  /\ tracker' = execution_finished(IF pc["exec"] = "settle"
                                   THEN commit_response(tracker, job.req).t
                                   ELSE tracker)
  /\ Goto("exec", "fin2")
  /\ UNCHANGED <<wr, msg, job, open, log, active, execution_ids, cancelled, pending, call,
                 spent, grants, live, gate, disconnected, failed, queued, scene>>

EndExecution ==
  /\ At("exec", "fin2")
  /\ FinishExecution(job.req)
  /\ gate' = None
  /\ job' = NoJob
  /\ Goto("exec", "none")
  /\ UNCHANGED <<wr, msg, open, log, tracker, execution_ids, cancelled, pending, call, spent,
                 grants, live, disconnected, failed, queued, scene>>

-----------------------------------------------------------------------------
(***************************************************************************)
(* The specification.                                                      *)
(***************************************************************************)
Receive ==
  \/ ReceiveEnd \/ ReceiveRequest \/ ReceiveResponse \/ ReceiveCancel \/ ReceiveRevoke

MainStep ==
  \/ Boot \/ PollInput \/ CompleteCall \/ CancelExecution \/ RevokeGrant
  \/ HandleSetup \/ CommitSetup \/ CommitRefusal
  \/ PrepareExecution \/ StartExecution \/ UndoStart \/ SpawnExecution
  \/ EndConnection
  \/ WriteCheck("main") \/ WriteSend("main") \/ FailConnection("main")

ExecStep ==
  \/ BeginRun \/ ObserverEvent \/ AfterEvent \/ UseHandle
  \/ StartCall \/ Announced \/ InsertPending \/ RegisterOutgoing \/ CallSent
  \/ UndoCall \/ CallFailed \/ DropCall \/ WithdrawCall \/ CallWithdrawn
  \/ ToolAnswered \/ PermissionAnswered \/ LoseProvider \/ AllowGrant \/ IssueGrant
  \/ FinishRun \/ DrainPending \/ DrainNext \/ ClearGrants \/ TakeGate
  \/ DecideResult \/ Respond \/ SettleExecution \/ EndExecution
  \/ WriteCheck("exec") \/ WriteSend("exec") \/ FailConnection("exec")

(* run_connection has returned.                                            *)
Ended == pc["main"] = "done" /\ UNCHANGED vars

Next ==
  \/ Receive \/ MainStep \/ ExecStep
  \/ Deliver \/ FailConnection("writer")
  \/ Ended

Spec == Init /\ [][Next]_vars

(* The two threads run.  Nothing is promised about the host or about the   *)
(* pipe the writer thread writes to: every wait of main and exec for them  *)
(* has a deadline.                                                         *)
FairSpec ==
  Spec /\ WF_vars(MainStep) /\ WF_vars(ExecStep) /\ WF_vars(FailConnection("writer"))

-----------------------------------------------------------------------------
(***************************************************************************)
(* Properties.                                                             *)
(***************************************************************************)
(* A request the host sent gets at most one response, whichever of main    *)
(* and exec answers it, refusals included (write_result, write_error).     *)
AnsweredOnce == ~log.doubled

(* The events of an execution reach the queue with rising, gapless         *)
(* sequence numbers, except that Started (2) is missing when it never ran; *)
(* the terminal event comes before the response and nothing after it,      *)
(* although main, the observer and the providers all write                 *)
(* (spawn_execution).                                                      *)
EventsInOrder ==
  [][/\ log'.seq # log.seq =>
          \/ log'.seq = 1 /\ ~log'.over
          \/ ~log.over /\ (log'.seq = log.seq + 1 \/ (log.seq = 1 /\ log'.seq = 3))
     /\ log'.result \notin {log.result, None} => log.over /\ log.result = None]_vars

(* While main waits for input and no execution runs, nothing of an earlier *)
(* request is left: every request was answered, both tables of the tracker *)
(* are empty, no call is pending, and session and tracker agree that no    *)
(* execution is active (the settling steps of spawn_execution and          *)
(* finish_failed_request).                                                 *)
NothingLeftBehind ==
  At("main", "recv") /\ pc["exec"] = "none" /\ ~disconnected =>
    /\ log.owed = {}
    /\ Active(tracker.incoming) = {} /\ Active(tracker.outgoing) = {}
    /\ tracker.cancelled_incoming = {}
    /\ pending = {} /\ live = {} /\ grants.revoked = {}
    /\ active = None /\ ~tracker.active_execution

(* The runtime never sends a Cancel for a call whose response it has       *)
(* accepted, although main accepts it while exec gives the call up         *)
(* (cancel_outbound_request asks the tracker first).                       *)
CancelNeverCrossed == log.cancels \cap log.heard = {}

(* A cancellation the session accepted decides the result: the host never  *)
(* sees another one (the commit gate of spawn_execution and the Cancel     *)
(* arm of run_connection).                                                 *)
CancelHonoured ==
  log.honoured => log.result \in {None, "Cancelled", "Violation"}

(* A revocation the registry acted on is never forgotten: as long as the   *)
(* handle is live, it is queued for the runtime to drop (grants.rs).       *)
RevocationBites ==
  log.bitten \cap live \subseteq grants.revoked

(* When the connection has failed and fail_connection has returned, no     *)
(* call waits for an answer that cannot come: every one that was in flight *)
(* was failed, however its start interleaved with the failure.             *)
FailureWakesCalls ==
  failed /\ (\A t \in Threads : wr[t].at \notin {"cancel", "failall", "disconnect"}) =>
    \A t \in Target : open[t] # NoMethod => call[t] # "waiting"

(* Whatever ends a connection, run_connection returns: both threads get    *)
(* through their waits, joins and the commit gate.                         *)
DisconnectEnds == disconnected ~> pc["main"] = "done"

(* Every request the host sends is answered, or the connection ends.       *)
RequestsAreAnswered ==
  \A id \in HostIds : id \in log.owed ~> id \notin log.owed \/ disconnected

=============================================================================
