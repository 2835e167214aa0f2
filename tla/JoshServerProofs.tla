-------------------------- MODULE JoshServerProofs --------------------------
(***************************************************************************)
(* Proofs about a JOSH connection, for any sets of requests, calls and     *)
(* grants and any depth of the writer's queue.  The inductive invariant    *)
(* and the argument that it is kept are in ServerMoves and                 *)
(* ServerLayerProofs, over a table with a row for each action.  Here every *)
(* action of JoshServer is shown to be in the table (Steps), the types are *)
(* shown to be kept (TypesNext), and the properties are derived.           *)
(***************************************************************************)
EXTENDS JoshServer, ServerLayerProofs, ProtocolTrackerProofs

(* The provers are given up to a minute for a leaf.                        *)
USE ZenonT(60)

(* Every variable has its type.                                            *)
TypeOK ==
  /\ Places
  /\ Good(tracker) /\ tracker.role = "Runtime"
  /\ job \in Jobs
  /\ log \in Logs
  /\ Calls
  /\ Flags

(* A thread keeps its place and its frame.                                 *)
Stays(t) == pc'[t] = pc[t] /\ wr'[t] = wr[t]

(* The scenario of a behaviour is fixed.                                   *)
LEMMA SceneOnly == Next => scene' = scene
BY
   DEF ReceiveEnd, Fatal, ReceiveRequest, ReceiveResponse, ReceiveCancel, ReceiveRevoke, Boot,
       PollInput,
       CompleteCall, CancelExecution, RevokeGrant, HandleSetup, CommitSetup, CommitRefusal,
         PrepareExecution,
       StartExecution, UndoStart, SpawnExecution, EndConnection,
       WriteCheck, WriteSend, FailConnection, 
       BeginRun, ObserverEvent, Event, AfterEvent, UseHandle, Refreshed, StartCall,
       Announced, InsertPending, RegisterOutgoing, CallSent, UndoCall, CallFailed,
       DropCall, WithdrawCall, CallWithdrawn, ToolAnswered, PermissionAnswered,
       LoseProvider, AllowGrant, IssueGrant, FinishRun, DrainPending, DrainNext,
       ClearGrants, TakeGate, DecideResult, Respond, SettleExecution, EndExecution,
       Deliver, Ended, vars, Next, Receive, MainStep, ExecStep, shared

(* The actions that change the tracker ...                                 *)
LEMMA TrackerOnly ==
  ASSUME Next
  PROVE  \/ tracker' = tracker
         \/ ReceiveRequest \/ ReceiveResponse \/ ReceiveCancel \/ CommitSetup
         \/ CommitRefusal \/ StartExecution \/ UndoStart \/ EndConnection
         \/ RegisterOutgoing \/ UndoCall \/ WithdrawCall \/ DrainNext
         \/ SettleExecution \/ FailConnection("main")
         \/ FailConnection("exec") \/ FailConnection("writer")
BY
   DEF ReceiveEnd, Fatal, ReceiveRevoke, Boot, PollInput, CompleteCall,
       CancelExecution, RevokeGrant, HandleSetup, PrepareExecution, SpawnExecution,
       WriteCheck, WriteSend, BeginRun, ObserverEvent, Event, AfterEvent, UseHandle,
       Refreshed, StartCall, Announced, InsertPending, CallSent, CallFailed,
       DropCall, CallWithdrawn, ToolAnswered, PermissionAnswered, LoseProvider,
       AllowGrant, IssueGrant, FinishRun, DrainPending, FailPending, ClearGrants,
       TakeGate, DecideResult, Respond, EndExecution, FinishExecution, Deliver,
       Ended, vars, Next, Receive, MainStep, ExecStep, shared

(* ... those that change the history ...                                   *)
LEMMA LogOnly ==
  ASSUME Next
  PROVE  \/ log' = log
         \/ ReceiveRequest \/ ReceiveResponse \/ CancelExecution
         \/ RevokeGrant \/ WriteSend("main") \/ WriteSend("exec")
BY
   DEF ReceiveEnd, Fatal, ReceiveCancel, ReceiveRevoke, Boot, PollInput,
       CompleteCall, HandleSetup, CommitSetup, CommitRefusal, PrepareExecution,
       StartExecution, UndoStart, FinishExecution, SpawnExecution, EndConnection,
       CancelActive, WriteCheck, FailConnection, fail_connection, FailPending,
       BeginRun, ObserverEvent, Event, AfterEvent, UseHandle, Refreshed, StartCall,
       Announced, InsertPending, RegisterOutgoing, CallSent, UndoCall, CallFailed,
       DropCall, WithdrawCall, CallWithdrawn, ToolAnswered, PermissionAnswered,
       LoseProvider, AllowGrant, IssueGrant, FinishRun, DrainPending, DrainNext,
       ClearGrants, TakeGate, DecideResult, Respond, SettleExecution, EndExecution,
       Deliver, Ended, vars, Next, Receive, MainStep, ExecStep, shared

(* ... those that change the calls and the grants ...                      *)
LEMMA CallsOnly ==
  ASSUME Next
  PROVE  \/ UNCHANGED <<open, pending, call, spent, grants, live>>
         \/ CompleteCall \/ RevokeGrant \/ EndConnection \/ UseHandle
         \/ StartCall \/ InsertPending \/ CallSent \/ UndoCall \/ CallFailed
         \/ DropCall \/ ToolAnswered \/ PermissionAnswered \/ LoseProvider
         \/ AllowGrant \/ IssueGrant \/ FinishRun \/ DrainPending
         \/ ClearGrants \/ FailConnection("main") \/ FailConnection("exec")
         \/ FailConnection("writer")
BY
   DEF ReceiveEnd, Fatal, ReceiveRequest, ReceiveResponse, ReceiveCancel,
       ReceiveRevoke, Boot, PollInput, CancelExecution, HandleSetup, CommitSetup,
       CommitRefusal, PrepareExecution, StartExecution, UndoStart, FinishExecution,
       SpawnExecution, WriteCheck, WriteSend, BeginRun, ObserverEvent, Event,
       AfterEvent, Announced, RegisterOutgoing, WithdrawCall, CallWithdrawn,
       DrainNext, TakeGate, DecideResult, Respond, SettleExecution, EndExecution,
       Deliver, Ended, vars, Next, Receive, MainStep, ExecStep, shared

(* ... and those that change the flags, the gate and the queue.            *)
LEMMA FlagsOnly ==
  ASSUME Next
  PROVE  \/ UNCHANGED <<active, execution_ids, gate, cancelled, disconnected, failed, queued>>
         \/ ReceiveEnd \/ ReceiveRequest \/ ReceiveResponse \/ ReceiveRevoke
         \/ CancelExecution \/ PrepareExecution \/ UndoStart \/ EndConnection
         \/ AfterEvent \/ ToolAnswered \/ TakeGate \/ EndExecution \/ Deliver
         \/ WriteSend("main") \/ WriteSend("exec") \/ FailConnection("main")
         \/ FailConnection("exec") \/ FailConnection("writer")
BY
   DEF ReceiveCancel, Boot, PollInput, CompleteCall, RevokeGrant, HandleSetup,
       CommitSetup, CommitRefusal, StartExecution, SpawnExecution, WriteCheck,
       BeginRun, ObserverEvent, Event, UseHandle, Refreshed, StartCall, Announced,
       InsertPending, RegisterOutgoing, CallSent, UndoCall, CallFailed, DropCall,
       WithdrawCall, CallWithdrawn, PermissionAnswered, LoseProvider, AllowGrant,
       IssueGrant, FinishRun, DrainPending, FailPending, DrainNext, ClearGrants,
       DecideResult, Respond, SettleExecution, Ended, vars, Next, Receive, MainStep,
       ExecStep, shared

(* The labels of main ...                                                  *)
LEMMA MainLabelFacts ==
  /\ "boot" \in MainLabels /\ "idle" \in MainLabels /\ "recv" \in MainLabels
  /\ "complete" \in MainLabels /\ "cancel" \in MainLabels /\ "revoke" \in MainLabels
  /\ "handle" \in MainLabels /\ "accepted" \in MainLabels /\ "refused" \in MainLabels
  /\ "prepared" \in MainLabels /\ "spawn" \in MainLabels /\ "unstart" \in MainLabels
  /\ "unstart2" \in MainLabels /\ "ret" \in MainLabels /\ "ret_cancel" \in MainLabels
  /\ "ret_join" \in MainLabels /\ "ret_clear" \in MainLabels /\ "done" \in MainLabels
  /\ "ret_tracker" \in MainLabels
BY DEF MainLabels, Starting, Ending

(* ... and those of exec, one by one.                                      *)
LEMMA ExecLabelFacts ==
  /\ "none" \in ExecLabels /\ "start" \in ExecLabels /\ "drain" \in ExecLabels
  /\ "drain1" \in ExecLabels /\ "gate" \in ExecLabels /\ "run" \in ExecLabels
  /\ "counted" \in ExecLabels /\ "abort" \in ExecLabels /\ "announced" \in ExecLabels
  /\ "insert" \in ExecLabels /\ "lose" \in ExecLabels /\ "allow" \in ExecLabels
  /\ "issue" \in ExecLabels /\ "register" \in ExecLabels /\ "sent" \in ExecLabels
  /\ "uninsert" \in ExecLabels /\ "unregister" \in ExecLabels /\ "untrack" \in ExecLabels
  /\ "callfailed" \in ExecLabels /\ "withdraw" \in ExecLabels /\ "withdrawn" \in ExecLabels
  /\ "decide" \in ExecLabels /\ "respond" \in ExecLabels /\ "settle" \in ExecLabels
  /\ "fin1" \in ExecLabels /\ "fin2" \in ExecLabels
BY DEF ExecLabels, Running, Sending, Leaving, Committing

(* main goes to a label of its own ...                                     *)
LEMMA MainGoes ==
  ASSUME Places, NEW l \in MainLabels, Goto("main", l), wr' = wr
  PROVE  /\ Places'
         /\ pc'["main"] = l /\ pc'["exec"] = pc["exec"] /\ pc'["writer"] = pc["writer"]
BY DEF Places, Goto, Threads, Labels

(* ... and so does exec.                                                   *)
LEMMA ExecGoes ==
  ASSUME Places, NEW l \in ExecLabels, Goto("exec", l), wr' = wr
  PROVE  /\ Places'
         /\ pc'["exec"] = l /\ pc'["main"] = pc["main"] /\ pc'["writer"] = pc["writer"]
BY DEF Places, Goto, Threads, Labels

(* main begins to write a frame ...                                        *)
LEMMA MainBegins ==
  ASSUME Places, pc' = pc, NEW f \in Frames, NEW ok \in MainLabels, NEW err \in MainLabels,
         Write("main", f, ok, err)
  PROVE  /\ Places'
         /\ wr'["main"] = [at |-> "check", frame |-> f, ok |-> ok, err |-> err]
         /\ wr'["exec"] = wr["exec"] /\ wr'["writer"] = wr["writer"]
BY DEF Places, Write, Threads, Labels, Writes, Stages

(* ... and so does exec.                                                   *)
LEMMA ExecBegins ==
  ASSUME Places, pc' = pc, NEW f \in Frames, NEW ok \in ExecLabels, NEW err \in ExecLabels,
         Write("exec", f, ok, err)
  PROVE  /\ Places'
         /\ wr'["exec"] = [at |-> "check", frame |-> f, ok |-> ok, err |-> err]
         /\ wr'["main"] = wr["main"] /\ wr'["writer"] = wr["writer"]
BY DEF Places, Write, Threads, Labels, Writes, Stages

(* The frames the threads write.                                           *)
LEMMA FrameFacts ==
  /\ [kind |-> "ready"] \in Frames
  /\ \A n \in Nat : [kind |-> "event", seq |-> n] \in Frames /\ [kind |-> "terminal",
       seq |-> n] \in Frames
  /\ \A i \in ReqId : /\ [kind |-> "response", id |-> i] \in Frames
                      /\ [kind |-> "cancel", id |-> i] \in Frames
                      /\ [kind |-> "request", id |-> i] \in Frames
  /\ \A i \in ReqId, r \in Results : [kind |-> "result", id |-> i, result |-> r] \in Frames
BY DEF Frames

(* ... returns from a write ...                                            *)
LEMMA MainReturns ==
  ASSUME Places, NEW l \in MainLabels, Return("main", l)
  PROVE  /\ Places'
         /\ pc'["main"] = l /\ pc'["exec"] = pc["exec"] /\ pc'["writer"] = pc["writer"]
         /\ wr'["main"] = NoFrame /\ wr'["exec"] = wr["exec"] /\ wr'["writer"] = wr["writer"]
BY DEF Places, Return, Threads, Labels

(* ... or goes on with it.                                                 *)
LEMMA MainGoesOn ==
  ASSUME Places, pc' = pc, wr["main"] # NoFrame, NEW s \in Stages,
         wr' = [wr EXCEPT !["main"].at = s]
  PROVE  /\ Places'
         /\ wr'["main"] # NoFrame /\ wr'["main"].at = s
         /\ wr'["main"].frame = wr["main"].frame
         /\ wr'["main"].ok = wr["main"].ok
         /\ wr'["main"].err = wr["main"].err
         /\ wr'["exec"] = wr["exec"] /\ wr'["writer"] = wr["writer"]
<1>1. wr["main"] \in Writes(MainLabels) /\ wr["main"].at # "none" /\ s # "none"
  BY DEF Places, Writes, WriterFails, Stages
<1> USE <1>1
<1>2. [wr["main"] EXCEPT !.at = s] \in Writes(MainLabels)
  BY DEF Writes, WriterFails
<1>3. wr' = [wr EXCEPT !["main"] = [wr["main"] EXCEPT !.at = s]]
  OBVIOUS
<1> USE <1>3
<1>4. /\ wr'["main"] = [wr["main"] EXCEPT !.at = s]
      /\ wr'["exec"] = wr["exec"] /\ wr'["writer"] = wr["writer"]
  BY DEF Places, Threads
<1> USE <1>4
<1>5. Places'
  BY SMTT(60), <1>2 DEF Places, Threads, Labels, Writes
<1> QED
  BY SMTT(60), <1>5 DEF Writes, WriterFails, NoFrame

(* ... returns from a write ...                                            *)
LEMMA ExecReturns ==
  ASSUME Places, NEW l \in ExecLabels, Return("exec", l)
  PROVE  /\ Places'
         /\ pc'["exec"] = l /\ pc'["main"] = pc["main"] /\ pc'["writer"] = pc["writer"]
         /\ wr'["exec"] = NoFrame /\ wr'["main"] = wr["main"] /\ wr'["writer"] = wr["writer"]
BY DEF Places, Return, Threads, Labels

(* ... or goes on with it.                                                 *)
LEMMA ExecGoesOn ==
  ASSUME Places, pc' = pc, wr["exec"] # NoFrame, NEW s \in Stages,
         wr' = [wr EXCEPT !["exec"].at = s]
  PROVE  /\ Places'
         /\ wr'["exec"] # NoFrame /\ wr'["exec"].at = s
         /\ wr'["exec"].frame = wr["exec"].frame
         /\ wr'["exec"].ok = wr["exec"].ok
         /\ wr'["exec"].err = wr["exec"].err
         /\ wr'["main"] = wr["main"] /\ wr'["writer"] = wr["writer"]
<1>1. wr["exec"] \in Writes(ExecLabels) /\ wr["exec"].at # "none" /\ s # "none"
  BY DEF Places, Writes, WriterFails, Stages
<1> USE <1>1
<1>2. [wr["exec"] EXCEPT !.at = s] \in Writes(ExecLabels)
  BY DEF Writes, WriterFails
<1>3. wr' = [wr EXCEPT !["exec"] = [wr["exec"] EXCEPT !.at = s]]
  OBVIOUS
<1> USE <1>3
<1>4. /\ wr'["exec"] = [wr["exec"] EXCEPT !.at = s]
      /\ wr'["main"] = wr["main"] /\ wr'["writer"] = wr["writer"]
  BY DEF Places, Threads
<1> USE <1>4
<1>5. Places'
  BY SMTT(60), <1>2 DEF Places, Threads, Labels, Writes
<1> QED
  BY SMTT(60), <1>5 DEF Writes, WriterFails, NoFrame

(* ... returns from a write ...                                            *)
LEMMA WriterReturns ==
  ASSUME Places, NEW l \in {"dead"}, Return("writer", l)
  PROVE  /\ Places'
         /\ pc'["writer"] = l /\ pc'["main"] = pc["main"] /\ pc'["exec"] = pc["exec"]
         /\ wr'["writer"] = NoFrame /\ wr'["main"] = wr["main"] /\ wr'["exec"] = wr["exec"]
BY DEF Places, Return, Threads, Labels

(* ... or goes on with it.                                                 *)
LEMMA WriterGoesOn ==
  ASSUME Places, pc' = pc, wr["writer"] # NoFrame, NEW s \in Stages \ {"check", "send"},
         wr' = [wr EXCEPT !["writer"].at = s]
  PROVE  /\ Places'
         /\ wr'["writer"] # NoFrame /\ wr'["writer"].at = s
         /\ wr'["writer"].err = wr["writer"].err
         /\ wr'["main"] = wr["main"] /\ wr'["exec"] = wr["exec"]
<1>1. wr["writer"] \in WriterFails /\ wr["writer"].at # "none" /\ s # "none"
  BY DEF Places, Writes, WriterFails, Stages
<1> USE <1>1
<1>2. [wr["writer"] EXCEPT !.at = s] \in WriterFails
  BY DEF Writes, WriterFails
<1>3. wr' = [wr EXCEPT !["writer"] = [wr["writer"] EXCEPT !.at = s]]
  OBVIOUS
<1> USE <1>3
<1>4. /\ wr'["writer"] = [wr["writer"] EXCEPT !.at = s]
      /\ wr'["main"] = wr["main"] /\ wr'["exec"] = wr["exec"]
  BY DEF Places, Threads
<1> USE <1>4
<1>5. Places'
  BY SMTT(60), <1>2 DEF Places, Threads, Labels, Writes
<1> QED
  BY SMTT(60), <1>5 DEF Writes, WriterFails, NoFrame

(* Records and functions have their fields.                                *)
LEMMA Shapes ==
  ASSUME TypeOK
  PROVE  /\ pc = [t \in Threads |-> pc[t]] /\ wr = [t \in Threads |-> wr[t]]
         /\ job = [req |-> job.req, exec |-> job.exec, seq |-> job.seq, result |-> job.result,
                   violation |-> job.violation, lost |-> job.lost, id |-> job.id,
                   method |-> job.method, grant |-> job.grant, todo |-> job.todo]
         /\ log = [owed |-> log.owed, doubled |-> log.doubled, seq |-> log.seq,
                   over |-> log.over, result |-> log.result, cancels |-> log.cancels,
                   heard |-> log.heard, honoured |-> log.honoured, bitten |-> log.bitten]
BY DEF TypeOK, Places, Jobs, Logs

(* A thread that writes nothing is at no stage of a write.                 *)
LEMMA NoFrameAt == NoFrame.at = "none"
BY SMTT(60) DEF NoFrame

(* What exec has on its stack when it writes nothing.                      *)
LEMMA ExecStack ==
  ASSUME ExecHolds, wr["exec"] = NoFrame
  PROVE  /\ pc["exec"] \in Sending \cup Leaving => job.id \in Target /\ job.method \in CallMethods
         /\ pc["exec"] = "respond" => job.req \in HostIds /\ job.result \in Results
BY SMTT(60) DEF ExecHolds, Pc, Stage, NoFrame, Committing

-----------------------------------------------------------------------------
(***************************************************************************)
(* What a thread leaves to the others.                                     *)
(***************************************************************************)
(* main leaves exec, the writer and the calls of the program alone ...     *)
MainKeeps ==
  /\ Stays("exec") /\ Stays("writer")
  /\ UNCHANGED <<job, open, spent, live, gate, scene>>

(* ... exec leaves main, the writer and the session's ids alone ...        *)
ExecKeeps ==
  /\ Stays("main") /\ Stays("writer")
  /\ UNCHANGED <<msg, execution_ids, scene>>

(* ... and the writer thread leaves both alone.                            *)
WriterKeeps ==
  /\ Stays("main") /\ Stays("exec")
  /\ UNCHANGED <<msg, job, open, log, active, execution_ids, spent, grants, live, gate, scene>>

(* Wherever main goes it finds a label of its own.                         *)
LEMMA MainSteps ==
  ASSUME TypeOK, MainHolds, Receive \/ MainStep
  PROVE  Places' /\ (MainKeeps \/ SpawnExecution)
<1> USE FrameFacts, MainBegins, MainGoes, MainLabelFacts
<1>a. Places
  BY DEF TypeOK
<1> USE <1>a
<1>1. CASE ReceiveEnd
  BY <1>1
     DEF ReceiveEnd, Fatal, At, MainKeeps, Stays, InboundRequests, HostIds,
         shared
<1>2. CASE ReceiveRequest
  BY <1>2
     DEF ReceiveRequest, Fatal, At, MainKeeps, Stays, InboundRequests, HostIds,
         shared
<1>3. CASE ReceiveResponse
  BY <1>3
     DEF ReceiveResponse, Fatal, At, MainKeeps, Stays, InboundRequests, HostIds,
         shared
<1>4. CASE ReceiveCancel
  BY <1>4
     DEF ReceiveCancel, At, MainKeeps, Stays, InboundRequests, HostIds, shared
<1>5. CASE ReceiveRevoke
  BY <1>5
     DEF ReceiveRevoke, Fatal, At, MainKeeps, Stays, InboundRequests, HostIds,
         shared
<1>6. CASE Boot
  BY <1>6
     DEF Boot, At, MainKeeps, Stays, InboundRequests, HostIds, shared
<1>7. CASE PollInput
  BY <1>7
     DEF PollInput, At, MainKeeps, Stays, InboundRequests, HostIds, shared
<1>8. CASE CompleteCall
  BY <1>8
     DEF CompleteCall, At, MainKeeps, Stays, InboundRequests, HostIds, shared
<1>9. CASE CancelExecution
  BY <1>9
     DEF CancelExecution, At, MainKeeps, Stays, InboundRequests, HostIds, shared
<1>10. CASE RevokeGrant
  BY <1>10
     DEF RevokeGrant, At, MainKeeps, Stays, InboundRequests, HostIds, shared
<1>11. CASE HandleSetup
  BY <1>11
     DEF HandleSetup, At, MainHolds, Pc, Stage, NoFrame, MainKeeps, Stays, InboundRequests,
         HostIds, shared
<1>12. CASE CommitSetup
  BY <1>12
     DEF CommitSetup, At, MainKeeps, Stays, InboundRequests, HostIds, shared
<1>13. CASE CommitRefusal
  BY <1>13
     DEF CommitRefusal, At, MainKeeps, Stays, InboundRequests, HostIds, shared
<1>14. CASE PrepareExecution
  BY <1>14
     DEF PrepareExecution, At, MainHolds, Pc, Stage, NoFrame, MainKeeps, Stays, InboundRequests,
         HostIds,
         shared
<1>15. CASE StartExecution
  BY <1>15
     DEF StartExecution, At, MainKeeps, Stays, InboundRequests, HostIds, shared
<1>16. CASE UndoStart
  BY <1>16
     DEF UndoStart, FinishExecution, At, MainKeeps, Stays, InboundRequests,
         HostIds, shared
<1>17. CASE SpawnExecution
  BY <1>17, ExecLabelFacts DEF SpawnExecution, Places, Threads, Labels, At
<1>18. CASE EndConnection
  BY <1>18
     DEF EndConnection, CancelActive, At, MainKeeps, Stays, InboundRequests,
         HostIds, shared
<1>19. CASE WriteCheck("main") \/ WriteSend("main") \/ FailConnection("main")
  <2> USE <1>19
  <2>1. wr["main"] # NoFrame
    BY SMTT(60) DEF WriteCheck, WriteSend, FailConnection, fail_connection, NoFrame
  <2> USE <2>1
  <2>2. wr["main"].ok \in MainLabels /\ wr["main"].err \in MainLabels
    BY DEF Places, Writes, WriterFails
  <2> QED
    BY <2>2, MainReturns, MainGoesOn
       DEF WriteCheck, WriteSend, FailConnection, fail_connection, MainKeeps, Stays, shared, Stages
<1> QED
  BY <1>1, <1>2, <1>3, <1>4, <1>5, <1>6, <1>7, <1>8, <1>9, <1>10, <1>11, <1>12,
     <1>13, <1>14, <1>15, <1>16, <1>17, <1>18, <1>19
     DEF Receive, MainStep

(* The same for exec.                                                      *)
LEMMA ExecSteps ==
  ASSUME TypeOK, ExecHolds, ExecStep
  PROVE  Places' /\ ExecKeeps
<1> USE ExecBegins, ExecGoes, ExecLabelFacts, FrameFacts
<1>a. Places /\ job.seq \in Nat /\ 2 \in Nat /\ Target \subseteq ReqId
  BY ServerAssumption DEF TypeOK, Jobs
<1> USE <1>a
<1>1. CASE BeginRun
  BY <1>1
     DEF BeginRun, At, ExecKeeps, Stays, HostIds, shared
<1>2. CASE ObserverEvent
  BY <1>2
     DEF ObserverEvent, Event, At, ExecKeeps, Stays, HostIds, shared
<1>3. CASE AfterEvent
  BY <1>3
     DEF AfterEvent, At, ExecKeeps, Stays, HostIds, shared
<1>4. CASE UseHandle
  BY <1>4 DEF UseHandle, Places, ExecKeeps, Stays
<1>5. CASE StartCall
  BY <1>5
     DEF StartCall, Refreshed, Event, At, ExecKeeps, Stays, HostIds, shared
<1>6. CASE Announced
  BY <1>6
     DEF Announced, At, ExecKeeps, Stays, HostIds, shared
<1>7. CASE InsertPending
  BY <1>7
     DEF InsertPending, At, ExecKeeps, Stays, HostIds, shared
<1>8. CASE RegisterOutgoing
  <2> USE <1>8
  <2>0. At("exec", "register")
    BY DEF RegisterOutgoing
  <2>1. job.id \in ReqId
    BY <2>0, ExecStack DEF At, Sending
  <2> QED
    BY <2>1
       DEF RegisterOutgoing, ExecKeeps, Stays
<1>9. CASE CallSent
  BY <1>9
     DEF CallSent, At, ExecKeeps, Stays, HostIds, shared
<1>10. CASE UndoCall
  BY <1>10
     DEF UndoCall, At, ExecKeeps, Stays, HostIds, shared
<1>11. CASE CallFailed
  BY <1>11
     DEF CallFailed, Event, At, ExecKeeps, Stays, HostIds, shared
<1>12. CASE DropCall
  BY <1>12
     DEF DropCall, At, ExecKeeps, Stays, HostIds, shared
<1>13. CASE WithdrawCall
  <2> USE <1>13
  <2>0. At("exec", "withdraw")
    BY DEF WithdrawCall
  <2>1. job.id \in ReqId
    BY <2>0, ExecStack DEF At, Leaving
  <2> QED
    BY <2>1
       DEF WithdrawCall, ExecKeeps, Stays
<1>14. CASE CallWithdrawn
  BY <1>14
     DEF CallWithdrawn, Event, At, ExecKeeps, Stays, HostIds, shared
<1>15. CASE ToolAnswered
  BY <1>15
     DEF ToolAnswered, Event, At, ExecKeeps, Stays, HostIds, shared
<1>16. CASE PermissionAnswered
  BY <1>16
     DEF PermissionAnswered, Event, At, ExecKeeps, Stays, HostIds, shared
<1>17. CASE LoseProvider
  BY <1>17
     DEF LoseProvider, At, ExecKeeps, Stays, HostIds, shared
<1>18. CASE AllowGrant
  BY <1>18
     DEF AllowGrant, At, ExecKeeps, Stays, HostIds, shared
<1>19. CASE IssueGrant
  BY <1>19
     DEF IssueGrant, At, ExecKeeps, Stays, HostIds, shared
<1>20. CASE FinishRun
  BY <1>20
     DEF FinishRun, At, ExecKeeps, Stays, HostIds, shared
<1>21. CASE DrainPending
  BY <1>21
     DEF DrainPending, FailPending, At, ExecKeeps, Stays, HostIds, shared
<1>22. CASE DrainNext
  <2> USE <1>22
  <2> DEFINE id == CHOOSE t \in job.todo : TRUE
  <2>1. id \in ReqId /\ [kind |-> "cancel", id |-> id] \in Frames
    BY DEF DrainNext, TypeOK, Jobs
  <2>2. /\ pc' = pc
        /\ \/ wr' = wr
           \/ Write("exec", [kind |-> "cancel", id |-> id], "drain1", "drain1")
    BY DEF DrainNext
  <2> USE <2>2
  <2> HIDE DEF id
  <2>3. CASE wr' = wr
    BY <2>3 DEF DrainNext, Places, ExecKeeps, Stays
  <2>4. CASE Write("exec", [kind |-> "cancel", id |-> id], "drain1", "drain1")
    BY <2>1, <2>4
       DEF DrainNext, ExecKeeps, Stays
  <2> QED
    BY <2>3, <2>4
<1>23. CASE ClearGrants
  BY <1>23
     DEF ClearGrants, At, ExecKeeps, Stays, HostIds, shared
<1>24. CASE TakeGate
  BY <1>24
     DEF TakeGate, At, ExecKeeps, Stays, HostIds, shared
<1>25. CASE DecideResult
  BY <1>25
     DEF DecideResult, At, ExecKeeps, Stays, HostIds, shared
<1>26. CASE Respond
  <2> USE <1>26
  <2>1. [kind |-> "result", id |-> job.req, result |-> job.result] \in Frames
    <3>1. At("exec", "respond")
      BY DEF Respond
    <3>2. job.req \in ReqId /\ job.result \in Results
      BY <3>1, ExecStack DEF At, HostIds
    <3> QED
      BY <3>2
  <2> QED
    BY <2>1 DEF Respond, ExecKeeps, Stays, shared
<1>27. CASE SettleExecution
  BY <1>27
     DEF SettleExecution, At, ExecKeeps, Stays, HostIds, shared
<1>28. CASE EndExecution
  BY <1>28
     DEF EndExecution, FinishExecution, At, ExecKeeps, Stays, HostIds, shared
<1>29. CASE WriteCheck("exec") \/ WriteSend("exec") \/ FailConnection("exec")
  <2> USE <1>29
  <2>1. wr["exec"] # NoFrame
    BY SMTT(60) DEF WriteCheck, WriteSend, FailConnection, fail_connection, NoFrame
  <2> USE <2>1
  <2>2. wr["exec"].ok \in ExecLabels /\ wr["exec"].err \in ExecLabels
    BY DEF Places, Writes, WriterFails
  <2> QED
    BY <2>2, ExecReturns, ExecGoesOn
       DEF WriteCheck, WriteSend, FailConnection, fail_connection, ExecKeeps, Stays, shared, Stages
<1> QED
  BY <1>1, <1>2, <1>3, <1>4, <1>5, <1>6, <1>7, <1>8, <1>9, <1>10, <1>11, <1>12,
     <1>13, <1>14, <1>15, <1>16, <1>17, <1>18, <1>19, <1>20, <1>21, <1>22, <1>23,
     <1>24, <1>25, <1>26, <1>27, <1>28, <1>29
     DEF ExecStep

(* And for the writer thread.                                              *)
LEMMA WriterSteps ==
  ASSUME TypeOK, Deliver \/ FailConnection("writer")
  PROVE  Places' /\ WriterKeeps
<1>a. Places
  BY DEF TypeOK
<1> USE <1>a
<1>1. CASE Deliver
  BY SMTT(60), <1>1 DEF Deliver, Places, Threads, WriterFails, Stages, WriterKeeps, Stays
<1>2. CASE FailConnection("writer")
  <2> USE <1>2
  <2>1. wr["writer"] # NoFrame
    BY SMTT(60) DEF WriteCheck, WriteSend, FailConnection, fail_connection, NoFrame
  <2> USE <2>1
  <2>2. wr["writer"].err = "dead"
    BY DEF Places, Writes, WriterFails
  <2> QED
    BY <2>2, WriterReturns, WriterGoesOn
       DEF WriteCheck, WriteSend, FailConnection, fail_connection, WriterKeeps, Stays, shared,
           Stages
<1> QED
  BY <1>1, <1>2

-----------------------------------------------------------------------------
(***************************************************************************)
(* Every step keeps the types.                                             *)
(***************************************************************************)
(* initialize binds mode and session and takes the negotiated limit over.  *)
LEMMA InitializedDoes ==
  ASSUME NEW t, Good(t), scene \in Scenarios
  PROVE  /\ Good(Initialized(t).t)
         /\ Initialized(t).t.role = t.role
         /\ Initialized(t).t.active_execution = t.active_execution
         /\ Initialized(t).t.incoming = t.incoming
         /\ Initialized(t).t.outgoing = t.outgoing
         /\ Initialized(t).t.state = "Disconnected" <=> t.state = "Disconnected"
<1> DEFINE bound == initialize_binding(t, "Attached", Session)
           u == set_max_active_requests(bound.t, scene.max_active)
<1>1. t \in Trackers /\ Session \in SessId /\ scene.max_active \in Nat
  BY ServerAssumption DEF Good, Session, Scenario
<1>2. Good(bound.t) /\ bound.t \in Trackers
  BY <1>1, InitializeIsGood DEF Good
<1>3. /\ bound.t.role = t.role /\ bound.t.active_execution = t.active_execution
      /\ bound.t.incoming = t.incoming /\ bound.t.outgoing = t.outgoing
      /\ bound.t.state = "Disconnected" <=> t.state = "Disconnected"
  BY <1>1 DEF initialize_binding, Refused, Trackers
<1>4. CASE bound.r # "ok"
  <2>1. Initialized(t) = bound
    BY <1>4 DEF Initialized
  <2> QED
    BY <1>2, <1>3, <2>1
<1>5. CASE bound.r = "ok"
  <2>1. Initialized(t).t = u
    <3>1. bound = [t |-> bound.t, r |-> bound.r]
      BY DEF initialize_binding, Refused
    <3> HIDE DEF bound
    <3>2. [bound EXCEPT !.t = set_max_active_requests(@, scene.max_active)].t = u
      BY <3>1
    <3> QED
      BY <1>5, <3>2 DEF Initialized, bound
  <2>2. Good(u)
    BY <1>1, <1>2, SetLimitIsGood
  <2>3. /\ u.role = bound.t.role /\ u.active_execution = bound.t.active_execution
        /\ u.incoming = bound.t.incoming /\ u.outgoing = bound.t.outgoing
        /\ u.state = bound.t.state
    <3> HIDE DEF bound
    <3> QED
      BY <1>2 DEF set_max_active_requests, Trackers
  <2> QED
    BY <1>3, <2>1, <2>2, <2>3
<1> QED
  BY <1>4, <1>5

(* What the session does after the answer to a setup request is written.   *)
LEMMA AdvancedDoes ==
  ASSUME NEW t, Good(t), scene \in Scenarios,
         msg.method \in HostMethods \ {"execution/start"}
  PROVE  /\ Good(Advanced(t).t)
         /\ Advanced(t).t.role = t.role
         /\ Advanced(t).t.active_execution = t.active_execution
         /\ Advanced(t).t.incoming = t.incoming
         /\ Advanced(t).t.outgoing = t.outgoing
         /\ Advanced(t).t.state = "Disconnected" <=> t.state = "Disconnected"
<1>1. t \in Trackers
  BY DEF Good
<1>2. CASE msg.method = "initialize"
  BY <1>2, InitializedDoes DEF Advanced
<1>3. CASE msg.method = "host/project"
  <2>1. Advanced(t) = projection_succeeded(t)
    BY <1>3 DEF Advanced
  <2>2. Good(projection_succeeded(t).t)
    BY AdvanceIsGood DEF projection_succeeded, ConnectionStates
  <2> QED
    BY SMTT(60), <1>1, <2>1, <2>2 DEF projection_succeeded, advance, Refused, Trackers
<1>4. CASE msg.method = "catalog/set"
  <2>1. Advanced(t) = catalog_succeeded(t)
    BY <1>4 DEF Advanced
  <2>2. Good(catalog_succeeded(t).t)
    BY AdvanceIsGood DEF catalog_succeeded, ConnectionStates
  <2> QED
    BY SMTT(60), <1>1, <2>1, <2>2 DEF catalog_succeeded, advance, Refused, Trackers
<1>5. CASE msg.method = "program/load"
  <2>1. Advanced(t) = program_loaded(t)
    BY <1>5 DEF Advanced
  <2>2. Good(program_loaded(t).t)
    BY AdvanceIsGood DEF program_loaded, ConnectionStates
  <2> QED
    BY SMTT(60), <1>1, <2>1, <2>2 DEF program_loaded, advance, Refused, Trackers
<1> QED
  BY <1>2, <1>3, <1>4, <1>5 DEF HostMethods

(* The id of a new call is a fresh one.                                    *)
LEMMA InsertedId ==
  ASSUME TypeOK, ExecHolds, At("exec", "insert")
  PROVE  (CHOOSE t \in scene.targets \ spent : TRUE) \in (scene.targets \cap Target) \ spent
BY ServerAssumption DEF TypeOK, Calls, Flags, ExecHolds, Pc, Stage, NoFrame, At, Scenario

(* Every step leaves a good tracker of the runtime's side.                 *)
LEMMA TrackerNext ==
  ASSUME TypeOK, MainHolds, ExecHolds, Next
  PROVE  Good(tracker') /\ tracker'.role = "Runtime"
<1>a. /\ Good(tracker) /\ tracker \in Trackers /\ tracker.role = "Runtime"
      /\ Target \subseteq ReqId /\ HostIds \subseteq ReqId /\ scene \in Scenarios
  BY ServerAssumption DEF TypeOK, Good, HostIds, Flags
<1> USE <1>a
<1>1. CASE ReceiveRequest
  <2>1. PICK req \in InboundRequests : tracker' = receive_request(tracker, req).t
    BY <1>1 DEF ReceiveRequest
  <2> USE <2>1
  <2>2. req \in Requests
    BY ServerAssumption DEF InboundRequests, Requests, HostIds, Methods, HostMethods,
       RuntimeMethods, Scenario
  <2> QED
    BY <2>2, ReceiveRequestIsGood, ReceiveRequestDoes DEF SamePhase
<1>2. CASE ReceiveResponse
  <2>1. PICK id \in ReqId : tracker' = receive_response(tracker, id).t
    BY <1>2 DEF ReceiveResponse
  <2> QED
    BY <2>1, ReceiveResponseIsGood, ReceiveResponseDoes DEF SamePhase
<1>3. CASE ReceiveCancel
  BY <1>3, ReceiveCancelIsGood, ReceiveCancelDoes DEF ReceiveCancel, SamePhase
<1>4. CASE CommitSetup
  <2> USE <1>4
  <2>1. msg.id \in ReqId /\ msg.method \in HostMethods \ {"execution/start"}
    BY DEF CommitSetup, At, MainHolds, Pc, Stage, NoFrame
  <2> USE <2>1
  <2> DEFINE settled == commit_response(tracker, msg.id)
  <2>2. Good(settled.t) /\ settled.t.role = "Runtime"
    BY CommitIsGood, CommitDoes DEF SamePhase
  <2> HIDE DEF settled
  <2>3. Good(Advanced(settled.t).t) /\ Advanced(settled.t).t.role = "Runtime"
    BY <2>2, AdvancedDoes
  <2> QED
    BY <2>3 DEF CommitSetup, settled
<1>5. CASE CommitRefusal
  BY <1>5, CommitIsGood, CommitDoes
     DEF CommitRefusal, At, MainHolds, Pc, Stage, NoFrame, SamePhase
<1>6. CASE StartExecution
  <2> USE <1>6
  <2>1. msg.exec \in ExecId
    BY DEF StartExecution, At, MainHolds, Pc, Stage, NoFrame, Starting
  <2> QED
    BY <2>1, StartIsGood, StartDoes DEF StartExecution
<1>7. CASE UndoStart \/ SettleExecution
  <2>1. CASE tracker' = execution_finished(tracker) \/ tracker' = tracker
    BY <2>1, FinishIsGood, FinishDoes
  <2>2. CASE SettleExecution /\ pc["exec"] = "settle"
    <3> USE <2>2
    <3> DEFINE settled == commit_response(tracker, job.req)
    <3>1. job.req \in ReqId
      BY DEF ExecHolds, Pc, Stage, NoFrame
    <3>2. Good(settled.t) /\ settled.t.role = "Runtime" /\ settled.t \in Trackers
      BY <3>1, CommitIsGood, CommitDoes DEF SamePhase, Good
    <3>3. tracker' = execution_finished(settled.t)
      BY DEF SettleExecution
    <3> HIDE DEF settled
    <3> QED
      BY <3>2, <3>3, FinishIsGood, FinishDoes
  <2> QED
    BY <1>7, <2>1, <2>2 DEF UndoStart, SettleExecution
<1>8. CASE RegisterOutgoing
  <2> USE <1>8
  <2> DEFINE req == [id |-> job.id, method |-> job.method, exec |-> job.exec,
                     sess |-> Session, valid |-> TRUE]
  <2>1. req \in Requests
    BY ServerAssumption
       DEF RegisterOutgoing, At, ExecHolds, Pc, Stage, NoFrame, Requests, Session,
       Methods, RuntimeMethods, SessionMethods, CallMethods
  <2> USE <2>1
  <2>2. tracker' = register_outgoing_message(tracker, req).t
    BY DEF RegisterOutgoing
  <2> USE <2>2
  <2> HIDE DEF req
  <2>3. Good(tracker')
    BY RegisterIsGood
  <2> QED
    BY <2>3, RegisterDoes DEF SamePhase
<1>9. CASE UndoCall \/ WithdrawCall
  <2> USE <1>9
  <2>1. job.id \in ReqId
    BY ExecStack DEF UndoCall, WithdrawCall, At, Sending, Leaving
  <2> USE <2>1
  <2>2. Good(cancel_outgoing(tracker, job.id).t)
    BY CancelOutgoingIsGood
  <2>3. cancel_outgoing(tracker, job.id).t.role = "Runtime"
    BY CancelOutgoingDoes DEF SamePhase
  <2>4. tracker' = tracker \/ tracker' = cancel_outgoing(tracker, job.id).t
    BY DEF UndoCall, WithdrawCall
  <2> QED
    BY <2>2, <2>3, <2>4
<1>10. CASE DrainNext
  <2> USE <1>10
  <2> DEFINE id == CHOOSE t \in job.todo : TRUE
  <2>1. id \in ReqId
    BY DEF DrainNext, TypeOK, Jobs
  <2> USE <2>1
  <2>2. tracker' = cancel_outgoing(tracker, id).t
    BY DEF DrainNext
  <2> USE <2>2
  <2> HIDE DEF id
  <2>3. Good(tracker')
    BY CancelOutgoingIsGood
  <2> QED
    BY <2>3, CancelOutgoingDoes DEF SamePhase
<1>11. CASE tracker' = tracker \/ tracker' = disconnect(tracker)
  BY <1>11, DisconnectIsGood, DisconnectDoes
<1>12. ASSUME NEW t \in Threads, FailConnection(t)
       PROVE  tracker' = tracker \/ tracker' = disconnect(tracker)
  BY <1>12 DEF FailConnection, fail_connection
<1>13. EndConnection => tracker' = tracker \/ tracker' = disconnect(tracker)
  BY DEF EndConnection
<1> QED
  BY <1>1, <1>2, <1>3, <1>4, <1>5, <1>6, <1>7, <1>8, <1>9, <1>10, <1>11, <1>12, <1>13,
     TrackerOnly DEF Threads

(* The history of a frame that was enqueued is a history.                  *)
LEMMA LoggedType ==
  ASSUME log \in Logs, NEW frame \in Frames
  PROVE  Logged(frame) \in Logs
<1>1. CASE frame \in [kind : {"event", "terminal"}, seq : Nat]
  <2>1. frame.kind \in {"event", "terminal"} /\ frame.seq \in Nat /\ 1 \in Nat
    BY <1>1
  <2> USE <2>1
  <2>2. CASE frame.kind = "event" /\ frame.seq = 1
    BY <2>2 DEF Logged, Logs
  <2>3. CASE frame.kind = "event" /\ frame.seq # 1
    BY <2>3 DEF Logged, Logs
  <2>4. CASE frame.kind = "terminal"
    BY <2>4 DEF Logged, Logs
  <2> QED
    BY <2>2, <2>3, <2>4
<1>2. CASE frame \in [kind : {"response", "cancel", "request"}, id : ReqId]
  <2>1. frame.kind \in {"response", "cancel", "request"} /\ frame.id \in ReqId
    BY <1>2
  <2> USE <2>1
  <2>2. CASE frame.kind = "response"
    BY <2>2 DEF Logged, Logs
  <2>3. CASE frame.kind = "cancel"
    BY <2>3 DEF Logged, Logs
  <2>4. CASE frame.kind = "request"
    BY <2>4 DEF Logged, Logs
  <2> QED
    BY <2>2, <2>3, <2>4
<1>3. CASE frame \in [kind : {"result"}, id : ReqId, result : Results]
  BY <1>3 DEF Logged, Logs
<1>4. CASE frame \in [kind : {"ready"}]
  BY <1>4 DEF Logged
<1> QED
  BY <1>1, <1>2, <1>3, <1>4 DEF Frames

(* Every step leaves a history ...                                         *)
LEMMA LogNext ==
  ASSUME TypeOK, MainHolds, Next
  PROVE  log' \in Logs
<1>a. log \in Logs
  BY DEF TypeOK
<1> USE <1>a
<1>1. CASE ReceiveRequest
  <2>1. PICK req \in InboundRequests :
          \/ log' = log
          \/ log' = [log EXCEPT !.owed = @ \cup {req.id}]
          \/ log' = [log EXCEPT !.owed = IF req.id \in Active(tracker.incoming)
                                        THEN @ ELSE @ \cup {req.id}]
    BY <1>1 DEF ReceiveRequest, Fatal
  <2> USE <2>1
  <2>2. req.id \in ReqId /\ log.owed \cup {req.id} \in SUBSET ReqId /\ log.owed \in SUBSET ReqId
    BY DEF InboundRequests, HostIds, Logs
  <2> USE <2>2
  <2>3. CASE req.id \in Active(tracker.incoming)
    BY <2>3 DEF Logs
  <2>4. CASE req.id \notin Active(tracker.incoming)
    BY <2>4 DEF Logs
  <2> QED
    BY <2>3, <2>4
<1>2. CASE ReceiveResponse
  <2>1. PICK id \in Target : log' = log \/ log' = [log EXCEPT !.heard = @ \cup {id}]
    BY <1>2 DEF ReceiveResponse, Fatal
  <2> QED
    BY <2>1 DEF Logs
<1>3. CASE CancelExecution
  BY <1>3 DEF CancelExecution, Logs
<1>4. CASE RevokeGrant
  <2> USE <1>4
  <2>1. grants' \in Registries
    BY RevokeType DEF RevokeGrant, TypeOK, Calls, MainHolds, Pc, Stage, NoFrame, At
  <2> QED
  BY <2>1 DEF RevokeGrant, Logs, Registries
<1>5. CASE WriteSend("main")
  <2> USE <1>5
  <2>1. wr["main"].frame \in Frames
    BY SMTT(60) DEF WriteSend, TypeOK, Places, Writes, NoFrame
  <2> QED
    BY <2>1, LoggedType DEF WriteSend
<1>6. CASE WriteSend("exec")
  <2> USE <1>6
  <2>1. wr["exec"].frame \in Frames
    BY SMTT(60) DEF WriteSend, TypeOK, Places, Writes, NoFrame
  <2> QED
    BY <2>1, LoggedType DEF WriteSend
<1>7. CASE log' = log
  BY <1>7
<1> QED
  BY <1>1, <1>2, <1>3, <1>4, <1>5, <1>6, <1>7, LogOnly

(* ... a stack of exec ...                                                 *)
LEMMA JobNext ==
  ASSUME TypeOK, MainHolds, ExecHolds, Next
  PROVE  job' \in Jobs
<1>a. job \in Jobs /\ job.seq + 1 \in Nat /\ job.seq \in Nat
  BY SMTT(60) DEF TypeOK, Jobs
<1> USE <1>a
<1>b. NoJob \in Jobs
  BY DEF Jobs, NoJob
<1>1. CASE SpawnExecution
  BY <1>1, <1>b DEF SpawnExecution, MainHolds, Pc, Stage, NoFrame, Starting, At, Jobs
<1>2. CASE AfterEvent \/ Announced \/ AllowGrant
  BY <1>2 DEF AfterEvent, Announced, AllowGrant, Jobs, CallMethods
<1>4. CASE InsertPending
  BY <1>4, InsertedId DEF InsertPending, Jobs
<1>7. CASE DropCall
  <2>1. \A id \in Target : open[id] \in CallMethods \cup {NoMethod}
    BY DEF TypeOK, Calls
  <2> QED
  BY <1>7, <2>1 DEF DropCall, Jobs
<1>14. CASE FinishRun
  BY <1>14 DEF FinishRun, Jobs, Results
<1>15. CASE DrainPending
  <2>1. pending \in SUBSET Target
    BY DEF TypeOK, Calls
  <2> QED
  BY <1>15, <2>1 DEF DrainPending, Jobs, FailPending
<1>17. CASE DecideResult
  BY <1>17 DEF DecideResult, Jobs, Results
<1>18. CASE EndExecution
  BY <1>18, <1>b DEF EndExecution
<1>19. CASE BeginRun
  BY <1>19 DEF BeginRun, Jobs, Results
<1>20. CASE StartCall
  BY <1>20 DEF StartCall, Jobs, CallMethods
<1>30. CASE CallSent
  BY <1>30 DEF CallSent, Jobs
<1>31. CASE CallFailed
  BY <1>31 DEF CallFailed, Jobs
<1>32. CASE CallWithdrawn
  BY <1>32 DEF CallWithdrawn, Jobs
<1>33. CASE ToolAnswered
  BY <1>33 DEF ToolAnswered, Jobs
<1>34. CASE PermissionAnswered
  BY <1>34 DEF PermissionAnswered, Jobs, Answers
<1>35. CASE LoseProvider
  BY <1>35 DEF LoseProvider, Jobs
<1>36. CASE IssueGrant
  BY <1>36 DEF IssueGrant, Jobs
<1>37. CASE DrainNext
  BY <1>37 DEF DrainNext, Jobs
<1>22. CASE \/ Receive \/ (MainStep /\ ~SpawnExecution) \/ ObserverEvent \/ UseHandle
            \/ RegisterOutgoing \/ UndoCall \/ WithdrawCall \/ ClearGrants \/ TakeGate
            \/ Respond \/ SettleExecution \/ Deliver \/ Ended
            \/ \E t \in Threads : WriteCheck(t) \/ WriteSend(t) \/ FailConnection(t)
  BY <1>22 DEF Receive, ReceiveEnd, ReceiveRequest, ReceiveResponse, ReceiveCancel,
     ReceiveRevoke, MainStep, Boot, PollInput, CompleteCall, CancelExecution, RevokeGrant,
     HandleSetup, CommitSetup, CommitRefusal, PrepareExecution, StartExecution, UndoStart,
     EndConnection, WriteCheck, WriteSend, FailConnection, ObserverEvent, UseHandle,
     RegisterOutgoing, UndoCall, WithdrawCall, ClearGrants, TakeGate, Respond,
     SettleExecution, Deliver, Ended, vars, shared
<1> QED
  BY <1>1, <1>2, <1>4, <1>7, <1>14, <1>15, <1>17, <1>18, <1>19, <1>20, <1>30, <1>31, <1>32,
     <1>33, <1>34, <1>35, <1>36, <1>37,
     <1>22 DEF Next, MainStep, ExecStep, Threads

(* ... and calls and grants of their types.                                *)
LEMMA CallsNext ==
  ASSUME TypeOK, MainHolds, ExecHolds, ExecWrites, Next
  PROVE  Calls'
<1>a. /\ Calls /\ scene' = scene
      /\ Target \subseteq ReqId /\ job \in Jobs
  BY ServerAssumption, SceneOnly DEF TypeOK
<1> USE <1>a
<1>1. CASE CompleteCall
  BY <1>1 DEF CompleteCall, Calls, MainHolds, Pc, Stage, NoFrame, At
<1>2. CASE RevokeGrant
  BY <1>2, RevokeType DEF RevokeGrant, Calls, MainHolds, Pc, Stage, NoFrame, At
<1>3. CASE UseHandle \/ StartCall \/ LoseProvider \/ CallFailed
  BY <1>3
     DEF UseHandle, StartCall, LoseProvider, CallFailed, Refreshed, take_revocations, Calls,
         Registries
<1>4. CASE InsertPending
  BY <1>4, InsertedId, ServerAssumption
     DEF InsertPending, Calls, CallStates, TypeOK, Flags, Scenario
<1>5. CASE CallSent
  BY SMTT(60), <1>5 DEF CallSent, Calls, ExecHolds, Pc, Stage, NoFrame, At, Sending, shared
<1>6. CASE UndoCall
  BY <1>6 DEF UndoCall, Calls
<1>7. CASE DropCall
  BY <1>7 DEF DropCall, Calls
<1>8. CASE ToolAnswered \/ PermissionAnswered
  BY <1>8 DEF ToolAnswered, PermissionAnswered, Calls, shared
<1>9. CASE AllowGrant
  BY <1>9 DEF AllowGrant, allowed, Calls, Registries, ExecHolds, Pc, Stage, NoFrame, At
<1>10. CASE IssueGrant
  BY <1>10, IssuedType DEF IssueGrant, Calls, ExecHolds, Pc, Stage, NoFrame, At
<1>11. CASE FinishRun \/ DrainPending \/ ClearGrants \/ EndConnection
  BY <1>11, EmptyType
     DEF FinishRun, DrainPending, ClearGrants, EndConnection, FailPending, Calls, CallStates
<1>12. ASSUME NEW t \in Threads, FailConnection(t)
       PROVE  Calls'
  BY <1>12 DEF FailConnection, fail_connection, FailPending, Calls, CallStates
<1>13. CASE UNCHANGED <<open, pending, call, spent, grants, live>>
  BY <1>13 DEF Calls
<1> QED
  BY <1>1, <1>2, <1>3, <1>4, <1>5, <1>6, <1>7, <1>8, <1>9, <1>10, <1>11, <1>12, <1>13, CallsOnly
     DEF Threads

(* The flags, the session and the queue keep their types.                  *)
LEMMA FlagsNext ==
  ASSUME TypeOK, MainHolds, Next
  PROVE  Flags'
<1>a. Flags /\ scene' = scene /\ QueueDepth \in Nat
  BY SceneOnly, ServerAssumption DEF TypeOK
<1> USE <1>a
<1>1. CASE ReceiveEnd
  BY <1>1 DEF ReceiveEnd, Fatal, Flags
<1>2. CASE ReceiveRequest
  BY <1>2 DEF ReceiveRequest, Fatal, Flags
<1>3. CASE ReceiveResponse
  BY <1>3 DEF ReceiveResponse, Fatal, Flags
<1>4. CASE ReceiveRevoke
  BY <1>4 DEF ReceiveRevoke, Fatal, Flags
<1>5. CASE CancelExecution
  BY <1>5 DEF CancelExecution, Flags
<1>6. CASE PrepareExecution
  BY <1>6 DEF PrepareExecution, Flags, At, MainHolds, Pc, Stage, NoFrame
<1>7. CASE UndoStart
  BY <1>7 DEF UndoStart, FinishExecution, Flags
<1>8. CASE EndConnection
  BY <1>8 DEF EndConnection, CancelActive, Flags
<1>9. CASE AfterEvent
  BY <1>9 DEF AfterEvent, Flags
<1>10. CASE ToolAnswered
  BY <1>10 DEF ToolAnswered, Event, Flags
<1>11. CASE TakeGate
  BY <1>11 DEF TakeGate, Flags
<1>12. CASE EndExecution
  BY <1>12 DEF EndExecution, FinishExecution, Flags
<1>13. CASE Deliver
  BY SMTT(60), <1>13 DEF Deliver, Flags
<1>14. CASE WriteSend("main")
  BY SMTT(60), <1>14 DEF WriteSend, Flags
<1>15. CASE WriteSend("exec")
  BY SMTT(60), <1>15 DEF WriteSend, Flags
<1>16. CASE FailConnection("main")
  BY <1>16
     DEF FailConnection, fail_connection, CancelActive, FailPending, Flags
<1>17. CASE FailConnection("exec")
  BY <1>17
     DEF FailConnection, fail_connection, CancelActive, FailPending, Flags
<1>18. CASE FailConnection("writer")
  BY <1>18
     DEF FailConnection, fail_connection, CancelActive, FailPending, Flags
<1>19. CASE UNCHANGED <<active, execution_ids, gate, cancelled, disconnected, failed, queued>>
  BY <1>19 DEF Flags
<1> QED
  BY <1>1, <1>2, <1>3, <1>4, <1>5, <1>6, <1>7, <1>8, <1>9, <1>10, <1>11, <1>12,
     <1>13, <1>14, <1>15, <1>16, <1>17, <1>18, <1>19, FlagsOnly

(***************************************************************************)
(* What a step does to the thread that takes it: it goes to a label, or it *)
(* begins to write a frame; and what of exec's stack it changes.           *)
(***************************************************************************)
Goes(t, label) == pc'[t] = label /\ wr'[t] = NoFrame

Begins(t, frame, ok, err) ==
  /\ pc'[t] = pc[t]
  /\ wr'[t] # NoFrame
  /\ wr'[t].at = "check" /\ wr'[t].frame = frame /\ wr'[t].ok = ok /\ wr'[t].err = err

(* exec writes Started before it runs the program.                         *)
LEMMA BeginRunMoves ==
  ASSUME TypeOK, BeginRun
  PROVE  /\ At("exec", "start")
         /\ ChangesJob({"result"})
         /\ \/ Goes("exec", "drain") /\ job'.result = IF cancelled THEN "Cancelled" ELSE "Failed"
            \/ Goes("exec", "run") /\ job' = job
            \/ Begins("exec", [kind |-> "event", seq |-> 2], "run", "abort") /\ job' = job
BY SMTT(60), Shapes
   DEF BeginRun, At, Goto, Threads, Goes, NoFrame, Begins, Write, ChangesJob

(* An event of the observer carries the counter of exec ...                *)
LEMMA ObserverEventMoves ==
  ASSUME TypeOK, ObserverEvent
  PROVE  /\ job' = job
         /\ At("exec", "run")
         /\ Begins("exec", [kind |-> "event", seq |-> job.seq], "counted", "abort")
BY Shapes DEF ObserverEvent, Event, At, Goto, Threads, Goes, NoFrame, Begins, Write

(* ... which counts it once it is written.                                 *)
LEMMA AfterEventMoves ==
  ASSUME TypeOK, AfterEvent
  PROVE  /\ Goes("exec", "run") /\ ChangesJob({"seq"})
         /\ \/ At("exec", "counted") /\ job'.seq = job.seq + 1 /\ Kept(cancelled)
            \/ At("exec", "abort") /\ job'.seq = job.seq /\ cancelled'
BY SMTT(60), Shapes DEF AfterEvent, At, Goto, Threads, Goes, NoFrame, ChangesJob, Kept

(* A call is announced by an event, a request for permission is not;       *)
(* handles that were revoked are dropped first.                            *)
LEMMA StartCallMoves ==
  ASSUME TypeOK, StartCall
  PROVE  /\ At("exec", "run") /\ spent # scene.targets
         /\ ChangesJob({"method"})
         /\ \/ /\ Begins("exec", [kind |-> "event", seq |-> job.seq], "announced", "run")
               /\ SameGrants
            \/ /\ Goes("exec", "insert") /\ job'.method = "permission/request"
               /\ \/ SameGrants
                  \/ grants' = take_revocations(grants) /\ live' = live \ grants.revoked
BY SMTT(60), Shapes
   DEF StartCall, Event, Refreshed, At, Goto, Threads, Goes, NoFrame, Begins, Write,
       ChangesJob, SameGrants

(* The announcement is counted, and the call goes on.                      *)
LEMMA AnnouncedMoves ==
  ASSUME TypeOK, Announced
  PROVE  /\ At("exec", "announced") /\ Goes("exec", "insert")
         /\ ChangesJob({"seq", "method"})
         /\ job'.seq = job.seq + 1 /\ job'.method = "tool/invoke"
BY Shapes DEF Announced, At, Goto, Threads, Goes, NoFrame, ChangesJob

(* The call gets a fresh id and waits in the registry.                     *)
LEMMA InsertPendingMoves ==
  ASSUME TypeOK, ExecHolds, InsertPending
  PROVE  /\ At("exec", "insert") /\ Goes("exec", "register")
         /\ ChangesJob({"id"})
         /\ job'.id \in Target \ spent
         /\ spent' = spent \cup {job'.id} /\ pending' = pending \cup {job'.id}
         /\ call' = [call EXCEPT ![job'.id] = "waiting"]
BY Shapes, InsertedId
   DEF InsertPending, At, Goto, Threads, Goes, NoFrame, ChangesJob

(* A call that was sent is in the table of its provider.                   *)
LEMMA CallSentMoves ==
  ASSUME TypeOK, CallSent
  PROVE  /\ At("exec", "sent") /\ Goes("exec", "run")
         /\ ChangesJob({"id", "method"})
         /\ job'.id = None /\ job'.method = NoMethod
BY Shapes DEF CallSent, At, Goto, Threads, Goes, NoFrame, ChangesJob

(* A call that could not be started is reported by an event, or its        *)
(* provider is lost.                                                       *)
LEMMA CallFailedMoves ==
  ASSUME TypeOK, CallFailed
  PROVE  /\ At("exec", "callfailed")
         /\ ChangesJob({"id", "method", "lost"})
         /\ job'.id = None /\ job'.method = NoMethod
         /\ \/ Begins("exec", [kind |-> "event", seq |-> job.seq], "counted", "run") /\ live' = live
            \/ Goes("exec", "run") /\ live' = {}
<1>1. /\ ChangesJob({"id", "method", "lost"})
      /\ job'.id = None /\ job'.method = NoMethod
  BY Shapes DEF CallFailed, ChangesJob
<1>2. Event("counted", "run") /\ pc' = pc =>
        Begins("exec", [kind |-> "event", seq |-> job.seq], "counted", "run")
  BY SMTT(60), Shapes DEF Event, Threads, Begins, Write, NoFrame
<1>3. Goto("exec", "run") /\ wr' = wr => Goes("exec", "run")
  BY Shapes DEF CallFailed, At, Goto, Threads, Goes
<1>4. /\ At("exec", "callfailed")
      /\ \/ Event("counted", "run") /\ pc' = pc /\ live' = live
         \/ Goto("exec", "run") /\ wr' = wr /\ live' = {}
  BY DEF CallFailed
<1> QED
  BY <1>1, <1>2, <1>3, <1>4

(* A call the program no longer waits for is given up.                     *)
LEMMA DropCallMoves ==
  ASSUME TypeOK, DropCall
  PROVE  /\ At("exec", "run") /\ Goes("exec", "withdraw")
         /\ ChangesJob({"id", "method", "lost"})
         /\ job'.id \in Target /\ open[job'.id] # NoMethod /\ job'.method = open[job'.id]
         /\ open' = [open EXCEPT ![job'.id] = NoMethod]
         /\ pending' = pending \ {job'.id}
         /\ live' \in {live, {}}
BY SMTT(60), Shapes DEF DropCall, At, Goto, Threads, Goes, NoFrame, ChangesJob

(* A call that was given up may be reported by an event.                   *)
LEMMA CallWithdrawnMoves ==
  ASSUME TypeOK, CallWithdrawn
  PROVE  /\ At("exec", "withdrawn")
         /\ ChangesJob({"id", "method"})
         /\ job'.id = None /\ job'.method = NoMethod
         /\ \/ Begins("exec", [kind |-> "event", seq |-> job.seq], "counted", "run")
            \/ Goes("exec", "run")
<1>1. /\ ChangesJob({"id", "method"})
      /\ job'.id = None /\ job'.method = NoMethod
  BY Shapes DEF CallWithdrawn, ChangesJob
<1> USE <1>1
<1>2. CASE Event("counted", "run") /\ pc' = pc
  BY <1>2, Shapes DEF CallWithdrawn, At, Event, Threads, Begins, Write, NoFrame
<1>3. CASE Goto("exec", "run") /\ wr' = wr
  BY <1>3, Shapes DEF CallWithdrawn, At, Goto, Threads, Goes
<1> QED
  BY <1>2, <1>3 DEF CallWithdrawn

(* The answer to a tool call is reported by an event.                      *)
LEMMA ToolAnsweredMoves ==
  ASSUME TypeOK, ToolAnswered
  PROVE  /\ At("exec", "run") /\ ~cancelled
         /\ Begins("exec", [kind |-> "event", seq |-> job.seq], "counted", "run")
         /\ ChangesJob({"violation"})
         /\ \E id \in Target : open' = [open EXCEPT ![id] = NoMethod]
<1>1. ChangesJob({"violation"})
  BY Shapes DEF ToolAnswered, ChangesJob
<1>2. Event("counted", "run") /\ pc' = pc
  BY DEF ToolAnswered
<1>3. Begins("exec", [kind |-> "event", seq |-> job.seq], "counted", "run")
  BY <1>2, Shapes DEF Event, Threads, Begins, Write, NoFrame
<1> QED
  BY <1>1, <1>3 DEF ToolAnswered

(* An answer to a request for permission takes a grant in, is reported, or *)
(* makes the provider unusable.                                            *)
LEMMA PermissionAnsweredMoves ==
  ASSUME TypeOK, PermissionAnswered
  PROVE  /\ At("exec", "run")
         /\ ChangesJob({"id", "grant"})
         /\ \E id \in Target :
              /\ open[id] # NoMethod /\ open' = [open EXCEPT ![id] = NoMethod]
              /\ \/ Goes("exec", "lose") /\ job' = job
                 \/ /\ Begins("exec", [kind |-> "event", seq |-> job.seq], "counted", "lose")
                    /\ job' = job
                 \/ /\ Begins("exec", [kind |-> "event", seq |-> job.seq], "allow", "lose")
                    /\ job'.id = id /\ job'.grant \in Grant
<1>1. PICK id \in Target :
        /\ open[id] # NoMethod /\ open' = [open EXCEPT ![id] = NoMethod]
        /\ \/ Goto("exec", "lose") /\ wr' = wr /\ job' = job
           \/ Event("counted", "lose") /\ pc' = pc /\ job' = job
           \/ /\ Event("allow", "lose") /\ pc' = pc /\ call[id] \in Grant
              /\ job' = [job EXCEPT !.id = id, !.grant = call[id]]
  BY DEF PermissionAnswered, NoMethod
<1> USE <1>1
<1>2. At("exec", "run")
  BY DEF PermissionAnswered
<1> USE <1>2
<1>3. CASE Goto("exec", "lose") /\ wr' = wr /\ job' = job
  BY <1>3, Shapes DEF At, Goto, Threads, Goes, ChangesJob
<1>4. CASE Event("counted", "lose") /\ pc' = pc /\ job' = job
  <2> USE <1>4
  <2>1. Begins("exec", [kind |-> "event", seq |-> job.seq], "counted", "lose")
    BY Shapes DEF Event, Threads, Begins, Write, NoFrame
  <2> QED
    BY <2>1 DEF At, ChangesJob
<1>5. CASE /\ Event("allow", "lose") /\ pc' = pc /\ call[id] \in Grant
           /\ job' = [job EXCEPT !.id = id, !.grant = call[id]]
  <2> USE <1>5
  <2>1. Begins("exec", [kind |-> "event", seq |-> job.seq], "allow", "lose")
    BY Shapes DEF Event, Threads, Begins, Write, NoFrame
  <2>2. ChangesJob({"id", "grant"}) /\ job'.id = id /\ job'.grant \in Grant
    BY Shapes DEF ChangesJob
  <2> QED
    BY <2>1, <2>2 DEF At
<1> QED
  BY <1>3, <1>4, <1>5

(* A provider that broke the protocol loses its handles.                   *)
LEMMA LoseProviderMoves ==
  ASSUME TypeOK, LoseProvider
  PROVE  /\ At("exec", "lose") /\ Goes("exec", "run")
         /\ ChangesJob({"lost", "id", "grant"})
         /\ job'.id = None
BY Shapes DEF LoseProvider, At, Goto, Threads, Goes, NoFrame, ChangesJob

(* A grant that was taken in twice ends the provider.                      *)
LEMMA AllowGrantMoves ==
  ASSUME TypeOK, AllowGrant
  PROVE  /\ At("exec", "allow")
         /\ ChangesJob({"seq"}) /\ job'.seq = job.seq + 1
         /\ Goes("exec", IF allowed_again(grants, job.id) THEN "lose" ELSE "issue")
BY Shapes DEF AllowGrant, At, Goto, Threads, Goes, NoFrame, ChangesJob

(* A handle is issued, or its target cannot be opened.                     *)
LEMMA IssueGrantMoves ==
  ASSUME TypeOK, IssueGrant
  PROVE  /\ At("exec", "issue") /\ Goes("exec", "run")
         /\ ChangesJob({"id", "grant"})
         /\ job'.id = None
BY Shapes DEF IssueGrant, At, Goto, Threads, Goes, NoFrame, ChangesJob

(* A cancelled execution ends as Cancelled, whatever it computed.          *)
LEMMA FinishRunMoves ==
  ASSUME TypeOK, FinishRun
  PROVE  /\ At("exec", "run") /\ Goes("exec", "drain")
         /\ ChangesJob({"result"}) /\ job'.result \in Results
         /\ cancelled => job'.result = "Cancelled"
BY Shapes
   DEF FinishRun, At, Goto, Threads, Goes, NoFrame, ChangesJob, Results

(* What the program left pending is taken out of the registry ...          *)
LEMMA DrainPendingMoves ==
  ASSUME TypeOK, DrainPending
  PROVE  /\ At("exec", "drain") /\ Goes("exec", "drain1")
         /\ ChangesJob({"todo"}) /\ job'.todo = pending
BY Shapes
   DEF DrainPending, FailPending, At, Goto, Threads, Goes, NoFrame, ChangesJob

(* ... then its grants ...                                                 *)
LEMMA ClearGrantsMoves ==
  ASSUME TypeOK, ClearGrants
  PROVE  /\ job' = job
         /\ At("exec", "drain1") /\ Goes("exec", "gate")
         /\ job.todo = {}
BY Shapes DEF ClearGrants, At, Goto, Threads, Goes, NoFrame

(* ... before exec waits for the commit gate.                              *)
LEMMA TakeGateMoves ==
  ASSUME TypeOK, TakeGate
  PROVE  /\ job' = job
         /\ At("exec", "gate") /\ Goes("exec", "decide")
BY Shapes DEF TakeGate, At, Goto, Threads, Goes, NoFrame

(* Under the gate a cancellation still decides the result.                 *)
LEMMA DecideResultMoves ==
  ASSUME TypeOK, DecideResult
  PROVE  /\ At("exec", "decide")
         /\ ChangesJob({"result"})
         /\ \/ disconnected /\ Goes("exec", "fin1") /\ job' = job
            \/ /\ Begins("exec", [kind |-> "terminal", seq |-> job.seq], "respond", "fin1")
               /\ job'.result = IF job.violation THEN "Violation"
                                ELSE IF cancelled THEN "Cancelled" ELSE job.result
BY SMTT(60), Shapes
   DEF DecideResult, At, Goto, Threads, Goes, NoFrame, Begins, Write, ChangesJob

(* The response follows the terminal event.                                *)
LEMMA RespondMoves ==
  ASSUME TypeOK, Respond
  PROVE  /\ job' = job
         /\ At("exec", "respond")
         /\ Begins("exec", [kind |-> "result", id |-> job.req, result |-> job.result], "settle",
              "fin1")
BY Shapes DEF Respond, At, Goto, Threads, Goes, NoFrame, Begins, Write

(* Then the tracker learns that the execution is over ...                  *)
LEMMA SettleExecutionMoves ==
  ASSUME TypeOK, SettleExecution
  PROVE  /\ job' = job
         /\ At("exec", "settle") \/ At("exec", "fin1")
         /\ Goes("exec", "fin2")
BY Shapes DEF SettleExecution, At, Goto, Threads, Goes, NoFrame

(* ... and the session.                                                    *)
LEMMA EndExecutionMoves ==
  ASSUME TypeOK, EndExecution
  PROVE  /\ job' = NoJob
         /\ At("exec", "fin2") /\ Goes("exec", "none")
BY Shapes DEF EndExecution, FinishExecution, At, Goto, Threads, Goes, NoFrame

(* The tracker takes a call while the connection is up, and only then it   *)
(* is written.                                                             *)
LEMMA RegisterOutgoingMoves ==
  ASSUME TypeOK, ExecHolds, RegisterOutgoing
  PROVE  /\ job' = job
         /\ At("exec", "register")
         /\ SamePhase(tracker, tracker') /\ tracker'.incoming = tracker.incoming
         /\ \/ /\ Begins("exec", [kind |-> "request", id |-> job.id], "sent", "unregister")
               /\ tracker.state # "Disconnected"
               /\ tracker'.outgoing = [tracker.outgoing EXCEPT ![job.id] = job.method]
            \/ Goes("exec", "uninsert") /\ tracker' = tracker
<1> DEFINE req == [id |-> job.id, method |-> job.method, exec |-> job.exec,
                   sess |-> Session, valid |-> TRUE]
           result == register_outgoing_message(tracker, req)
<1>1. tracker \in Trackers /\ At("exec", "register")
  BY DEF RegisterOutgoing, TypeOK, Good
<1> USE <1>1
<1>2. req \in Requests
  BY ServerAssumption DEF At, ExecHolds, Pc, Stage, NoFrame, Requests, Session,
     Methods, RuntimeMethods, SessionMethods, CallMethods
<1>3. /\ tracker' = result.t
      /\ \/ /\ result.r = "ok" /\ pc' = pc
            /\ Write("exec", [kind |-> "request", id |-> job.id], "sent", "unregister")
         \/ result.r # "ok" /\ wr' = wr /\ Goto("exec", "uninsert")
  BY DEF RegisterOutgoing
<1>4. req.id = job.id /\ req.method = job.method
  OBVIOUS
<1> HIDE DEF req
<1>5. /\ SamePhase(tracker, result.t) /\ result.t.incoming = tracker.incoming
      /\ result.r # "ok" => result.t = tracker
      /\ result.r = "ok" =>
           /\ tracker.state # "Disconnected"
           /\ result.t.outgoing = [tracker.outgoing EXCEPT ![job.id] = job.method]
  BY <1>2, <1>4, RegisterDoes
<1> HIDE DEF result
<1>6. pc' = pc /\ Write("exec", [kind |-> "request", id |-> job.id], "sent", "unregister") =>
        Begins("exec", [kind |-> "request", id |-> job.id], "sent", "unregister")
  BY SMTT(60), Shapes DEF Threads, Begins, Write, NoFrame
<1>7. wr' = wr /\ Goto("exec", "uninsert") => Goes("exec", "uninsert")
  BY Shapes DEF Threads, At, Goto, Goes
<1>8. job' = job
  BY DEF RegisterOutgoing
<1> QED
  BY <1>3, <1>5, <1>6, <1>7, <1>8 DEF At

(* A call that was not sent leaves the registry and the tracker.           *)
LEMMA UndoCallMoves ==
  ASSUME TypeOK, ExecHolds, UndoCall
  PROVE  /\ job' = job
         /\ SamePhase(tracker, tracker') /\ tracker'.incoming = tracker.incoming
         /\ \/ At("exec", "uninsert") /\ Goes("exec", "callfailed") /\ tracker' = tracker
            \/ At("exec", "unregister") /\ Goes("exec", "untrack") /\ tracker' = tracker
            \/ /\ At("exec", "untrack") /\ Goes("exec", "callfailed")
               /\ tracker'.outgoing = [tracker.outgoing EXCEPT ![job.id] = NoMethod]
<1>1. /\ tracker \in Trackers /\ job.id \in ReqId
      /\ At("exec", "uninsert") \/ At("exec", "unregister") \/ At("exec", "untrack")
  BY ServerAssumption, ExecStack DEF UndoCall, TypeOK, Good, At, Sending
<1> USE <1>1
<1>2. \A l \in {"callfailed", "untrack"} : Goto("exec", l) /\ wr' = wr => Goes("exec", l)
  BY Shapes DEF Threads, At, Goto, Goes
<1>3. LET u == cancel_outgoing(tracker, job.id).t
      IN  /\ SamePhase(tracker, u) /\ u.incoming = tracker.incoming
          /\ u.outgoing = [tracker.outgoing EXCEPT ![job.id] = NoMethod]
  BY CancelOutgoingDoes
<1>4. SamePhase(tracker, tracker)
  BY DEF SamePhase
<1> QED
  BY <1>2, <1>3, <1>4 DEF UndoCall, At

(* A Cancel is written only if the tracker still knew the call ...         *)
LEMMA WithdrawCallMoves ==
  ASSUME TypeOK, ExecHolds, WithdrawCall
  PROVE  /\ job' = job
         /\ At("exec", "withdraw")
         /\ SamePhase(tracker, tracker') /\ tracker'.incoming = tracker.incoming
         /\ tracker'.outgoing = [tracker.outgoing EXCEPT ![job.id] = NoMethod]
         /\ \/ /\ Begins("exec", [kind |-> "cancel", id |-> job.id], "withdrawn", "withdrawn")
               /\ tracker.outgoing[job.id] # NoMethod
            \/ Goes("exec", "withdrawn")
<1> DEFINE result == cancel_outgoing(tracker, job.id)
<1>1. tracker \in Trackers /\ job.id \in ReqId /\ At("exec", "withdraw")
  BY ServerAssumption DEF WithdrawCall, TypeOK, Good, At, ExecHolds, Pc, Stage, NoFrame
<1> USE <1>1
<1>2. /\ tracker' = result.t
      /\ \/ /\ result.r = "ok" /\ pc' = pc
            /\ Write("exec", [kind |-> "cancel", id |-> job.id], "withdrawn", "withdrawn")
         \/ wr' = wr /\ Goto("exec", "withdrawn")
  BY DEF WithdrawCall
<1>3. /\ SamePhase(tracker, result.t) /\ result.t.incoming = tracker.incoming
      /\ result.t.outgoing = [tracker.outgoing EXCEPT ![job.id] = NoMethod]
      /\ result.r = "ok" => tracker.outgoing[job.id] # NoMethod
  BY CancelOutgoingDoes
<1> HIDE DEF result
<1>4. pc' = pc /\ Write("exec", [kind |-> "cancel", id |-> job.id], "withdrawn", "withdrawn") =>
        Begins("exec", [kind |-> "cancel", id |-> job.id], "withdrawn", "withdrawn")
  BY SMTT(60), Shapes DEF Threads, Begins, Write, NoFrame
<1>5. wr' = wr /\ Goto("exec", "withdrawn") => Goes("exec", "withdrawn")
  BY Shapes DEF Threads, At, Goto, Goes
<1>6. job' = job
  BY DEF WithdrawCall
<1> QED
  BY <1>2, <1>3, <1>4, <1>5, <1>6 DEF At

(* ... also when the calls of a program are drained at its end.            *)
LEMMA DrainNextMoves ==
  ASSUME TypeOK, ExecHolds, DrainNext
  PROVE  /\ At("exec", "drain1")
         /\ ChangesJob({"todo"})
         /\ SamePhase(tracker, tracker') /\ tracker'.incoming = tracker.incoming
         /\ \E id \in job.todo :
              /\ job'.todo = job.todo \ {id}
              /\ tracker'.outgoing = [tracker.outgoing EXCEPT ![id] = NoMethod]
              /\ \/ /\ Begins("exec", [kind |-> "cancel", id |-> id], "drain1", "drain1")
                    /\ tracker.outgoing[id] # NoMethod
                 \/ Goes("exec", "drain1")
<1> DEFINE id == CHOOSE t \in job.todo : TRUE
           result == cancel_outgoing(tracker, id)
<1>1. /\ tracker \in Trackers /\ At("exec", "drain1")
      /\ id \in ReqId /\ id \in job.todo
  BY ServerAssumption DEF DrainNext, TypeOK, Good, Jobs
<1> USE <1>1
<1>2. /\ tracker' = result.t /\ pc' = pc
      /\ \/ /\ result.r = "ok"
            /\ Write("exec", [kind |-> "cancel", id |-> id], "drain1", "drain1")
         \/ wr' = wr
  BY DEF DrainNext
<1> USE <1>2
<1>3. ChangesJob({"todo"}) /\ job'.todo = job.todo \ {id}
  BY Shapes DEF DrainNext, ChangesJob
<1> HIDE DEF id
<1>4. /\ SamePhase(tracker, result.t) /\ result.t.incoming = tracker.incoming
      /\ result.t.outgoing = [tracker.outgoing EXCEPT ![id] = NoMethod]
      /\ result.r = "ok" => tracker.outgoing[id] # NoMethod
  BY CancelOutgoingDoes
<1> HIDE DEF result
<1>5. Write("exec", [kind |-> "cancel", id |-> id], "drain1", "drain1") =>
        Begins("exec", [kind |-> "cancel", id |-> id], "drain1", "drain1")
  BY SMTT(60), Shapes DEF Threads, Begins, Write, NoFrame
<1>6. wr' = wr => Goes("exec", "drain1")
  BY DEF At, Goes
<1> QED
  BY <1>3, <1>4, <1>5, <1>6 DEF At

(* What the tracker does at the end of an execution.                       *)
LEMMA SettleTracker ==
  ASSUME TypeOK, ExecHolds, SettleExecution
  PROVE  /\ tracker'.state = tracker.state /\ tracker'.outgoing = tracker.outgoing
         /\ ~tracker'.active_execution
         /\ tracker'.incoming = IF pc["exec"] = "settle"
                                THEN [tracker.incoming EXCEPT ![job.req] = NoMethod]
                                ELSE tracker.incoming
<1> DEFINE settled == commit_response(tracker, job.req).t
<1>1. tracker \in Trackers /\ Good(tracker) /\ job.req \in ReqId
  BY DEF SettleExecution, TypeOK, Good, At, ExecHolds, Pc, Stage, NoFrame, HostIds
<1> USE <1>1
<1>2. CASE pc["exec"] = "settle"
  <2> USE <1>2
  <2>1. settled \in Trackers
    BY CommitIsGood DEF Good
  <2>2. /\ SamePhase(tracker, settled) /\ settled.outgoing = tracker.outgoing
        /\ settled.incoming = [tracker.incoming EXCEPT ![job.req] = NoMethod]
    BY CommitDoes
  <2>3. tracker' = execution_finished(settled)
    BY DEF SettleExecution
  <2> HIDE DEF settled
  <2> QED
    BY <2>1, <2>2, <2>3, FinishDoes DEF SamePhase
<1>3. CASE pc["exec"] # "settle"
  BY <1>3, FinishDoes DEF SettleExecution
<1> QED
  BY <1>2, <1>3

(* A request is fatal, is entered in the tracker, or is refused with an    *)
(* error.                                                                  *)
LEMMA ReceiveRequestMoves ==
  ASSUME TypeOK, ReceiveRequest
  PROVE  /\ At("main", "recv")
         /\ SamePhase(tracker, tracker') /\ tracker'.outgoing = tracker.outgoing
         /\ \/ /\ Goes("main", "ret") /\ disconnected'
               /\ UNCHANGED <<msg, log, tracker>>
            \/ /\ Goes("main", "handle") /\ Kept(disconnected)
               /\ msg' \in Requests /\ msg'.id \in HostIds /\ msg'.method \in HostMethods
               /\ msg'.method = "execution/start" => msg'.exec \in ExecId
               /\ tracker.incoming[msg'.id] = NoMethod /\ tracker.state # "Disconnected"
               /\ tracker'.incoming = [tracker.incoming EXCEPT ![msg'.id] = msg'.method]
               /\ ChangesLog({"owed"}) /\ log'.owed = log.owed \cup {msg'.id}
            \/ \E id \in HostIds :
                 /\ Begins("main", [kind |-> "response", id |-> id], "idle", "ret")
                 /\ UNCHANGED <<msg, tracker>> /\ Kept(disconnected)
                 /\ tracker.incoming[id] = NoMethod
                 /\ ChangesLog({"owed"}) /\ log'.owed = log.owed \cup {id}
<1>1. PICK req \in InboundRequests :
        LET result == receive_request(tracker, req)
        IN  /\ tracker' = result.t
            /\ \/ result.r = "fatal" /\ Fatal
               \/ /\ result.r = "ok"
                  /\ msg' = req
                  /\ log' = [log EXCEPT !.owed = @ \cup {req.id}]
                  /\ Goto("main", "handle")
                  /\ UNCHANGED <<wr, disconnected>>
               \/ /\ result.r \notin {"ok", "fatal"}
                  /\ Write("main", [kind |-> "response", id |-> req.id], "idle", "ret")
                  /\ log' = [log EXCEPT !.owed = IF req.id \in Active(tracker.incoming)
                                                 THEN @ ELSE @ \cup {req.id}]
                  /\ UNCHANGED <<pc, msg, disconnected>>
  BY DEF ReceiveRequest
<1> DEFINE result == receive_request(tracker, req)
<1>2. /\ At("main", "recv") /\ tracker \in Trackers /\ tracker.role = "Runtime"
      /\ scene \in Scenario
  BY ServerAssumption DEF ReceiveRequest, TypeOK, Good, Flags
<1> USE <1>1, <1>2
<1>3. /\ req \in Requests /\ req.id \in HostIds
      /\ req.method = "execution/start" => req.exec \in ExecId
  BY DEF InboundRequests, Requests, HostIds, Methods, HostMethods,
     RuntimeMethods, Scenario
<1>4. /\ SamePhase(tracker, result.t) /\ result.t.outgoing = tracker.outgoing
      /\ result.r # "ok" => result.t = tracker
      /\ result.r # "fatal" => tracker.incoming[req.id] = NoMethod
      /\ result.r = "ok" =>
           /\ tracker.state # "Disconnected" /\ req.method \in HostMethods
           /\ result.t.incoming = [tracker.incoming EXCEPT ![req.id] = req.method]
  BY <1>3, ReceiveRequestDoes
<1>5. /\ SamePhase(tracker, tracker') /\ tracker'.outgoing = tracker.outgoing
  BY <1>4
<1> HIDE DEF result
<1>6. CASE result.r = "fatal" /\ Fatal
  BY <1>4, <1>5, <1>6, Shapes DEF Fatal, Goto, Goes, At, Threads, result
<1>7. CASE result.r = "ok"
  <2> USE <1>7
  <2>1. /\ tracker' = result.t /\ msg' = req /\ wr' = wr /\ disconnected' = disconnected
        /\ log' = [log EXCEPT !.owed = @ \cup {req.id}] /\ Goto("main", "handle")
    BY DEF result
  <2> USE <2>1
  <2>2. Goes("main", "handle")
    BY Shapes DEF Goto, Goes, At, Threads
  <2>3. ChangesLog({"owed"}) /\ log'.owed = log.owed \cup {req.id}
    BY Shapes DEF ChangesLog
  <2> QED
    BY <1>3, <1>4, <1>5, <2>2, <2>3 DEF Kept
<1>8. CASE result.r \notin {"ok", "fatal"}
  <2>1. /\ tracker' = tracker /\ UNCHANGED <<pc, msg, disconnected>>
        /\ Write("main", [kind |-> "response", id |-> req.id], "idle", "ret")
        /\ tracker.incoming[req.id] = NoMethod
    BY <1>4, <1>8 DEF result, Fatal
  <2> USE <2>1
  <2>2. Begins("main", [kind |-> "response", id |-> req.id], "idle", "ret")
    BY Shapes DEF Begins, Write, Threads, NoFrame
  <2>3. req.id \notin Active(tracker.incoming)
    BY DEF Active
  <2>4. log' = [log EXCEPT !.owed = @ \cup {req.id}]
    BY <1>8, <2>3 DEF result
  <2>5. ChangesLog({"owed"}) /\ log'.owed = log.owed \cup {req.id}
    BY <2>4, Shapes DEF ChangesLog
  <2> QED
    BY <1>3, <1>5, <2>2, <2>5 DEF Kept
<1> QED
  BY <1>6, <1>7, <1>8 DEF result

(* A response is accepted if the tracker knows the call; any other ends the *)
(* connection.                                                             *)
LEMMA ReceiveResponseMoves ==
  ASSUME TypeOK, ReceiveResponse
  PROVE  /\ At("main", "recv")
         /\ SamePhase(tracker, tracker') /\ tracker'.incoming = tracker.incoming
         /\ \E id \in Target :
              /\ tracker'.outgoing = [tracker.outgoing EXCEPT ![id] = NoMethod]
              /\ \/ /\ Goes("main", "ret") /\ disconnected'
                    /\ UNCHANGED <<msg, log>>
                 \/ /\ Goes("main", "complete") /\ Kept(disconnected)
                    /\ msg' \in [id : Target, answer : CallStates \ {"none", "waiting", "failed"}]
                    /\ msg'.id = id
                    /\ tracker.outgoing[id] # NoMethod
                    /\ ChangesLog({"heard"}) /\ log'.heard = log.heard \cup {id}
<1>1. PICK id \in Target, answer \in {"good", "bad", "violation"} \cup Grant :
        LET result == receive_response(tracker, id)
        IN  /\ tracker' = result.t
            /\ \/ result.r = "fatal" /\ Fatal
               \/ /\ result.r = "ok"
                  /\ msg' = [id |-> id, answer |-> answer]
                  /\ log' = [log EXCEPT !.heard = @ \cup {id}]
                  /\ Goto("main", "complete")
                  /\ UNCHANGED <<wr, disconnected>>
  BY DEF ReceiveResponse, Answers
<1> DEFINE result == receive_response(tracker, id)
<1>2. At("main", "recv") /\ tracker \in Trackers /\ id \in ReqId
  BY ServerAssumption DEF ReceiveResponse, TypeOK, Good
<1> USE <1>2
<1>3. /\ SamePhase(tracker, result.t) /\ result.t.incoming = tracker.incoming
      /\ result.r = "ok" => tracker.outgoing[id] # NoMethod
      /\ result.t.outgoing = [tracker.outgoing EXCEPT ![id] = NoMethod]
  BY ReceiveResponseDoes
<1>4. /\ SamePhase(tracker, tracker') /\ tracker'.incoming = tracker.incoming
      /\ tracker'.outgoing = [tracker.outgoing EXCEPT ![id] = NoMethod]
  BY <1>1, <1>3
<1> HIDE DEF result
<1>5. CASE Fatal
  BY <1>4, <1>5, Shapes DEF Fatal, Goto, Goes, At, Threads
<1>6. CASE ~Fatal
  <2> USE <1>1
  <2>1. /\ msg' = [id |-> id, answer |-> answer] /\ wr' = wr /\ disconnected' = disconnected
        /\ log' = [log EXCEPT !.heard = @ \cup {id}] /\ Goto("main", "complete")
        /\ tracker.outgoing[id] # NoMethod
    BY <1>3, <1>6 DEF result
  <2> USE <2>1
  <2>2. Goes("main", "complete")
    BY Shapes DEF Goto, Goes, At, Threads
  <2>3. ChangesLog({"heard"}) /\ log'.heard = log.heard \cup {id}
    BY Shapes DEF ChangesLog
  <2>4. answer \in CallStates \ {"none", "waiting", "failed"}
    BY NamesAssumption DEF CallStates
  <2> QED
    BY <1>4, <2>2, <2>3, <2>4 DEF Kept
<1> QED
  BY <1>5, <1>6

(* A Cancel changes neither the tables nor the phase of the tracker.       *)
LEMMA ReceiveCancelMoves ==
  ASSUME TypeOK, ReceiveCancel
  PROVE  /\ At("main", "recv")
         /\ SamePhase(tracker, tracker')
         /\ tracker'.incoming = tracker.incoming /\ tracker'.outgoing = tracker.outgoing
         /\ \/ Goes("main", "cancel") /\ msg' \in [id : HostIds]
            \/ Goes("main", "idle") /\ msg' = msg
<1>0. \A id \in HostIds : [id |-> id] \in [id : HostIds]
  BY SMTT(60)
<1>1. PICK id \in HostIds :
        LET result == receive_cancel(tracker, id)
        IN  /\ tracker' = result.t
            /\ \/ msg' = [id |-> id] /\ Goto("main", "cancel")
               \/ UNCHANGED msg /\ Goto("main", "idle")
  BY DEF ReceiveCancel
<1> USE <1>1
<1>2. At("main", "recv") /\ tracker \in Trackers /\ id \in ReqId /\ wr' = wr
  BY DEF ReceiveCancel, TypeOK, Good, HostIds
<1> USE <1>2
<1>3. /\ SamePhase(tracker, tracker')
      /\ tracker'.incoming = tracker.incoming /\ tracker'.outgoing = tracker.outgoing
  BY ReceiveCancelDoes
<1>4. \/ Goes("main", "cancel") /\ msg' = [id |-> id]
      \/ Goes("main", "idle") /\ msg' = msg
  BY Shapes DEF Goto, Goes, At, Threads
<1> QED
  BY <1>0, <1>3, <1>4

(* A revocation is taken in, or the connection ends.                       *)
LEMMA ReceiveRevokeMoves ==
  ASSUME TypeOK, ReceiveRevoke
  PROVE  /\ At("main", "recv") /\ log' = log
         /\ \/ Goes("main", "revoke") /\ msg' \in [grant : Grant] /\ Kept(disconnected)
            \/ Goes("main", "ret") /\ msg' = msg /\ disconnected'
<1>0. \A g \in Grant : [grant |-> g] \in [grant : Grant]
  BY SMTT(60)
<1>1. PICK g \in Grant :
        \/ Fatal
        \/ /\ msg' = [grant |-> g] /\ Goto("main", "revoke")
           /\ UNCHANGED <<wr, log, disconnected>>
  BY DEF ReceiveRevoke
<1>2. At("main", "recv")
  BY DEF ReceiveRevoke
<1>3. \A l \in {"revoke", "ret"} : Goto("main", l) /\ wr' = wr => Goes("main", l)
  BY <1>2, Shapes DEF Goto, Goes, At, Threads
<1>4. CASE Fatal
  BY <1>2, <1>3, <1>4 DEF Fatal
<1>5. CASE /\ msg' = [grant |-> g] /\ Goto("main", "revoke")
           /\ UNCHANGED <<wr, log, disconnected>>
  <2>1. Kept(disconnected)
    BY <1>5 DEF Kept
  <2>2. msg' \in [grant : Grant]
    BY <1>0, <1>5
  <2> QED
    BY <1>2, <1>3, <1>5, <2>1, <2>2
<1> QED
  BY <1>1, <1>4, <1>5

(* The end of the input ends the connection.                               *)
LEMMA ReceiveEndMoves ==
  ASSUME TypeOK, ReceiveEnd
  PROVE  /\ At("main", "recv") /\ Goes("main", "ret")
         /\ UNCHANGED <<msg, log>> /\ disconnected'
BY Shapes DEF ReceiveEnd, Fatal, At, Goto, Threads, Goes, NoFrame

(* Ready is the first frame.                                               *)
LEMMA BootMoves ==
  ASSUME TypeOK, Boot
  PROVE  /\ At("main", "boot")
         /\ Begins("main", [kind |-> "ready"], "idle", "ret")
BY Shapes DEF Boot, At, Goto, Threads, Goes, NoFrame, Begins, Write

(* main reads on while nobody has failed the connection.                   *)
LEMMA PollInputMoves ==
  ASSUME TypeOK, PollInput
  PROVE  /\ msg' = msg
         /\ \/ At("main", "idle") /\ Goes("main", IF disconnected THEN "ret" ELSE "recv")
            \/ At("main", "recv") /\ Goes("main", "idle")
BY Shapes DEF PollInput, At, Goto, Threads, Goes, NoFrame

(* The answer of the host reaches the call that waits for it.              *)
LEMMA CompleteCallMoves ==
  ASSUME TypeOK, CompleteCall
  PROVE  /\ At("main", "complete") /\ Goes("main", "idle")
BY Shapes DEF CompleteCall, At, Goto, Threads, Goes, NoFrame

(* A Cancel of the active execution sets its flag, while the commit gate   *)
(* is free.                                                                *)
LEMMA CancelExecutionMoves ==
  ASSUME TypeOK, CancelExecution
  PROVE  /\ At("main", "cancel") /\ Goes("main", "idle")
         /\ ChangesLog({"honoured"}) /\ (log'.honoured <=> log.honoured \/ active = msg.id)
BY Shapes
   DEF CancelExecution, At, Goto, Threads, Goes, NoFrame, ChangesLog

(* A revocation strikes what the registry knows of the grant.              *)
LEMMA RevokeGrantMoves ==
  ASSUME TypeOK, RevokeGrant
  PROVE  /\ At("main", "revoke") /\ Goes("main", "idle")
         /\ ChangesLog({"bitten"})
         /\ log'.bitten = log.bitten \cup (grants'.revoked \ grants.revoked)
               \cup (grants'.revoked_pending_targets \ grants.revoked_pending_targets)
BY Shapes DEF RevokeGrant, At, Goto, Threads, Goes, NoFrame, ChangesLog

(* A setup request is answered, accepted or refused ...                    *)
LEMMA HandleSetupMoves ==
  ASSUME TypeOK, HandleSetup
  PROVE  /\ msg' = msg
         /\ At("main", "handle") /\ msg.method # "execution/start"
         /\ \E label \in {"accepted", "refused"} :
              Begins("main", [kind |-> "response", id |-> msg.id], label, "ret")
<1>1. \A f, ok, err : pc' = pc /\ Write("main", f, ok, err) => Begins("main", f, ok, err)
  BY SMTT(60), Shapes DEF Begins, Write, Threads, NoFrame
<1> QED
  BY <1>1 DEF HandleSetup

(* ... an execution is prepared with its own flag, or refused.             *)
LEMMA PrepareExecutionMoves ==
  ASSUME TypeOK, PrepareExecution
  PROVE  /\ msg' = msg
         /\ At("main", "handle") /\ msg.method = "execution/start"
         /\ \/ /\ Begins("main", [kind |-> "response", id |-> msg.id], "refused", "ret")
               /\ UNCHANGED active /\ Kept(cancelled)
            \/ /\ Goes("main", "prepared")
               /\ active = None /\ active' = msg.id /\ ~cancelled'
BY SMTT(60), Shapes DEF PrepareExecution, At, Goto, Threads, Goes, NoFrame, Begins, Write, Kept

(* exec starts with what main prepared.                                    *)
LEMMA SpawnExecutionMoves ==
  ASSUME TypeOK, SpawnExecution
  PROVE  /\ At("main", "spawn") /\ Goes("main", "idle")
         /\ pc'["exec"] = "start" /\ wr'["exec"] = wr["exec"]
         /\ pc'["writer"] = pc["writer"] /\ wr'["writer"] = wr["writer"]
         /\ job' = [req |-> msg.id, exec |-> msg.exec, seq |-> 3, result |-> None,
                    violation |-> FALSE, lost |-> FALSE, id |-> None, method |-> NoMethod,
                    grant |-> NoGrant, todo |-> {}]
BY Shapes DEF SpawnExecution, At, Goto, Threads, Goes, NoFrame, NoJob

(* The end of run_connection: the flag, the cancellation, the join, the    *)
(* registry and the tracker, in this order.                                *)
LEMMA EndConnectionMoves ==
  ASSUME TypeOK, EndConnection
  PROVE  /\ \/ /\ At("main", "ret") /\ Goes("main", "ret_cancel") /\ disconnected'
               /\ UNCHANGED <<tracker, grants>> /\ Kept(cancelled)
            \/ /\ At("main", "ret_cancel") /\ Goes("main", "ret_join")
               /\ CancelActive /\ UNCHANGED <<tracker, grants>> /\ Kept(disconnected)
            \/ /\ At("main", "ret_join") /\ Goes("main", "ret_clear") /\ pc["exec"] = "none"
               /\ UNCHANGED <<tracker, grants>> /\ Kept(cancelled) /\ Kept(disconnected)
            \/ /\ At("main", "ret_clear") /\ Goes("main", "ret_tracker")
               /\ grants' = EmptyRegistry /\ UNCHANGED tracker
               /\ Kept(cancelled) /\ Kept(disconnected)
            \/ /\ At("main", "ret_tracker") /\ Goes("main", "done")
               /\ tracker' = disconnect(tracker) /\ UNCHANGED grants
               /\ Kept(cancelled) /\ Kept(disconnected)
BY Shapes DEF EndConnection, At, Goto, Threads, Goes, NoFrame, Kept

(* An accepted setup request leaves the table of the tracker ...           *)
LEMMA CommitSetupMoves ==
  ASSUME TypeOK, MainHolds, CommitSetup
  PROVE  /\ At("main", "accepted") /\ msg.id \in HostIds
         /\ tracker'.state = "Disconnected" <=> tracker.state = "Disconnected"
         /\ tracker'.active_execution = tracker.active_execution
         /\ tracker'.outgoing = tracker.outgoing
         /\ \/ /\ tracker'.incoming = [tracker.incoming EXCEPT ![msg.id] = NoMethod]
               /\ Goes("main", "idle") \/ Goes("main", "ret")
            \/ tracker' = tracker /\ Goes("main", "ret")
<1> DEFINE settled == commit_response(tracker, msg.id)
           advanced == Advanced(settled.t)
<1>1. /\ At("main", "accepted") /\ Good(tracker) /\ tracker \in Trackers /\ scene \in Scenarios
      /\ msg.id \in HostIds /\ msg.id \in ReqId /\ msg.method \in HostMethods \ {"execution/start"}
      /\ wr' = wr
  BY DEF CommitSetup, TypeOK, Good, Flags, MainHolds, Pc, Stage, NoFrame, At, HostIds
<1> USE <1>1
<1>2. /\ SamePhase(tracker, settled.t) /\ settled.t.outgoing = tracker.outgoing
      /\ settled.t.incoming = [tracker.incoming EXCEPT ![msg.id] = NoMethod]
  BY CommitDoes
<1>3. Good(settled.t)
  BY CommitIsGood
<1>4. \/ tracker' = tracker /\ Goto("main", "ret")
      \/ tracker' = advanced.t /\ (Goto("main", "idle") \/ Goto("main", "ret"))
  BY DEF CommitSetup
<1> HIDE DEF settled
<1>5. /\ advanced.t.state = "Disconnected" <=> settled.t.state = "Disconnected"
      /\ advanced.t.active_execution = settled.t.active_execution
      /\ advanced.t.incoming = settled.t.incoming
      /\ advanced.t.outgoing = settled.t.outgoing
  BY <1>3, AdvancedDoes
<1> HIDE DEF advanced
<1>6. \A l \in {"idle", "ret"} : Goto("main", l) => Goes("main", l)
  BY Shapes DEF Goto, Goes, At, Threads
<1> QED
  BY <1>2, <1>4, <1>5, <1>6 DEF SamePhase

(* ... and so does a refused one.                                          *)
LEMMA CommitRefusalMoves ==
  ASSUME TypeOK, MainHolds, CommitRefusal
  PROVE  /\ At("main", "refused") /\ msg.id \in HostIds
         /\ SamePhase(tracker, tracker') /\ tracker'.outgoing = tracker.outgoing
         /\ tracker'.incoming = [tracker.incoming EXCEPT ![msg.id] = NoMethod]
         /\ Goes("main", "idle") \/ Goes("main", "ret")
<1>1. /\ At("main", "refused") /\ tracker \in Trackers
      /\ msg.id \in HostIds /\ msg.id \in ReqId /\ wr' = wr
  BY DEF CommitRefusal, TypeOK, Good, MainHolds, Pc, Stage, NoFrame, At, HostIds
<1> USE <1>1
<1>2. /\ tracker' = commit_response(tracker, msg.id).t
      /\ Goto("main", "idle") \/ Goto("main", "ret")
  BY DEF CommitRefusal
<1>3. \A l \in {"idle", "ret"} : Goto("main", l) => Goes("main", l)
  BY Shapes DEF Goto, Goes, At, Threads
<1> QED
  BY <1>2, <1>3, CommitDoes

(* The tracker marks the execution active before Accepted is written.      *)
LEMMA StartExecutionMoves ==
  ASSUME TypeOK, StartExecution
  PROVE  /\ At("main", "prepared") /\ msg' = msg
         /\ tracker'.state = tracker.state
         /\ tracker'.incoming = tracker.incoming /\ tracker'.outgoing = tracker.outgoing
         /\ \/ Begins("main", [kind |-> "event", seq |-> 1], "spawn", "unstart")
            \/ tracker' = tracker /\ Goes("main", "ret")
<1> DEFINE started == execution_started_binding(tracker, msg.exec)
<1>1. At("main", "prepared") /\ tracker \in Trackers /\ msg' = msg
  BY DEF StartExecution, TypeOK, Good
<1> USE <1>1
<1>2. /\ tracker' = started.t
      /\ \/ pc' = pc /\ Write("main", [kind |-> "event", seq |-> 1], "spawn", "unstart")
         \/ started.r # "ok" /\ Goto("main", "ret") /\ wr' = wr
  BY DEF StartExecution
<1>3. /\ started.t.state = tracker.state
      /\ started.t.incoming = tracker.incoming /\ started.t.outgoing = tracker.outgoing
      /\ started.r # "ok" => started.t = tracker
  BY StartDoes
<1> HIDE DEF started
<1>4. pc' = pc /\ Write("main", [kind |-> "event", seq |-> 1], "spawn", "unstart") =>
        Begins("main", [kind |-> "event", seq |-> 1], "spawn", "unstart")
  BY SMTT(60), Shapes DEF Begins, Write, Threads, NoFrame
<1>5. Goto("main", "ret") /\ wr' = wr => Goes("main", "ret")
  BY Shapes DEF Goto, Goes, At, Threads
<1> QED
  BY <1>2, <1>3, <1>4, <1>5

(* If Accepted cannot be written the start is undone.                      *)
LEMMA UndoStartMoves ==
  ASSUME TypeOK, UndoStart
  PROVE  /\ msg' = msg
         /\ tracker'.state = tracker.state
         /\ tracker'.incoming = tracker.incoming /\ tracker'.outgoing = tracker.outgoing
         /\ \/ /\ At("main", "unstart") /\ Goes("main", "unstart2") /\ tracker' = tracker
               /\ active' = IF active = msg.id THEN None ELSE active
            \/ /\ At("main", "unstart2") /\ Goes("main", "ret") /\ active' = active
               /\ ~tracker'.active_execution
<1>1. tracker \in Trackers
  BY DEF TypeOK, Good
<1>2. /\ execution_finished(tracker).state = tracker.state
      /\ execution_finished(tracker).incoming = tracker.incoming
      /\ execution_finished(tracker).outgoing = tracker.outgoing
      /\ ~execution_finished(tracker).active_execution
  BY <1>1, FinishDoes
<1> QED
  BY <1>2, Shapes DEF UndoStart, FinishExecution, Goto, Goes, At, Threads

(* A thread goes on with what it writes.                                   *)
GoesOn(t, stage) ==
  /\ pc'[t] = pc[t]
  /\ wr'[t] # NoFrame /\ wr'[t].at = stage
  /\ wr'[t].err = wr[t].err

SameFrame(t) == wr'[t].frame = wr[t].frame /\ wr'[t].ok = wr[t].ok

(* main looks at the flag before it enqueues a frame ...                   *)
LEMMA MainWriteCheckMoves ==
  ASSUME TypeOK, WriteCheck("main")
  PROVE  /\ wr["main"].at = "check" /\ wr["main"] # NoFrame
         /\ \/ Goes("main", wr["main"].err) /\ (failed \/ wr["main"].frame.kind = "request")
            \/ GoesOn("main", "send") /\ SameFrame("main") /\ ~failed
<1>1. wr["main"].at = "check" /\ wr["main"] # NoFrame /\ Places
  BY NoFrameAt DEF WriteCheck, TypeOK
<1> USE <1>1
<1>2. /\ wr["main"].err \in MainLabels /\ "send" \in Stages
  BY DEF Places, Writes, Stages
<1> USE <1>2
<1>3. CASE /\ Return("main", wr["main"].err)
           /\ failed \/ wr["main"].frame.kind = "request"
  BY <1>3, MainReturns DEF Goes
<1>4. CASE pc' = pc /\ wr' = [wr EXCEPT !["main"].at = "send"] /\ ~failed
  BY <1>4, MainGoesOn DEF GoesOn, SameFrame
<1> QED
  BY <1>3, <1>4 DEF WriteCheck

(* ... and enqueues it, or finds the writer thread gone.                   *)
LEMMA MainWriteSendMoves ==
  ASSUME TypeOK, WriteSend("main")
  PROVE  /\ wr["main"].at = "send" /\ wr["main"] # NoFrame /\ wr["main"].frame \in Frames
         /\ \/ /\ Goes("main", wr["main"].ok) /\ pc["writer"] = "live"
               /\ log' = Logged(wr["main"].frame)
            \/ GoesOn("main", "fail") /\ SameFrame("main") /\ log' = log
<1>1. wr["main"].at = "send" /\ wr["main"] # NoFrame /\ Places
  BY NoFrameAt DEF WriteSend, TypeOK
<1> USE <1>1
<1>2. wr["main"].ok \in MainLabels /\ wr["main"].frame \in Frames /\ "fail" \in Stages
  BY DEF Places, Writes, Stages
<1> USE <1>2
<1>3. CASE /\ Return("main", wr["main"].ok) /\ pc["writer"] = "live"
           /\ log' = Logged(wr["main"].frame)
  BY <1>3, MainReturns DEF Goes
<1>4. CASE pc' = pc /\ wr' = [wr EXCEPT !["main"].at = "fail"] /\ log' = log
  BY <1>4, MainGoesOn DEF GoesOn, SameFrame
<1> QED
  BY <1>3, <1>4 DEF WriteSend

(* exec does the same ...                                                  *)
LEMMA ExecWriteCheckMoves ==
  ASSUME TypeOK, WriteCheck("exec")
  PROVE  /\ wr["exec"].at = "check" /\ wr["exec"] # NoFrame
         /\ \/ Goes("exec", wr["exec"].err) /\ (failed \/ wr["exec"].frame.kind = "request")
            \/ GoesOn("exec", "send") /\ SameFrame("exec") /\ ~failed
<1>1. wr["exec"].at = "check" /\ wr["exec"] # NoFrame /\ Places
  BY NoFrameAt DEF WriteCheck, TypeOK
<1> USE <1>1
<1>2. /\ wr["exec"].err \in ExecLabels /\ "send" \in Stages
  BY DEF Places, Writes, Stages
<1> USE <1>2
<1>3. CASE /\ Return("exec", wr["exec"].err)
           /\ failed \/ wr["exec"].frame.kind = "request"
  BY <1>3, ExecReturns DEF Goes
<1>4. CASE pc' = pc /\ wr' = [wr EXCEPT !["exec"].at = "send"] /\ ~failed
  BY <1>4, ExecGoesOn DEF GoesOn, SameFrame
<1> QED
  BY <1>3, <1>4 DEF WriteCheck

(* ... in the same two steps.                                              *)
LEMMA ExecWriteSendMoves ==
  ASSUME TypeOK, WriteSend("exec")
  PROVE  /\ wr["exec"].at = "send" /\ wr["exec"] # NoFrame /\ wr["exec"].frame \in Frames
         /\ \/ /\ Goes("exec", wr["exec"].ok) /\ pc["writer"] = "live"
               /\ log' = Logged(wr["exec"].frame)
            \/ GoesOn("exec", "fail") /\ SameFrame("exec") /\ log' = log
<1>1. wr["exec"].at = "send" /\ wr["exec"] # NoFrame /\ Places
  BY NoFrameAt DEF WriteSend, TypeOK
<1> USE <1>1
<1>2. wr["exec"].ok \in ExecLabels /\ wr["exec"].frame \in Frames /\ "fail" \in Stages
  BY DEF Places, Writes, Stages
<1> USE <1>2
<1>3. CASE /\ Return("exec", wr["exec"].ok) /\ pc["writer"] = "live"
           /\ log' = Logged(wr["exec"].frame)
  BY <1>3, ExecReturns DEF Goes
<1>4. CASE pc' = pc /\ wr' = [wr EXCEPT !["exec"].at = "fail"] /\ log' = log
  BY <1>4, ExecGoesOn DEF GoesOn, SameFrame
<1> QED
  BY <1>3, <1>4 DEF WriteSend

(* fail_connection, called by main: the flags, the cancellation, the calls *)
(* and the tracker, in this order ...                                      *)
LEMMA MainFailMoves ==
  ASSUME TypeOK, FailConnection("main")
  PROVE  \/ /\ wr["main"].at = "fail" /\ GoesOn("main", "cancel") /\ SameFrame("main")
            /\ failed' /\ disconnected'
            /\ UNCHANGED <<tracker, pending, call>> /\ Kept(cancelled)
         \/ /\ wr["main"].at = "cancel" /\ GoesOn("main", "failall") /\ SameFrame("main")
            /\ CancelActive
            /\ UNCHANGED <<tracker, pending, call>> /\ SameFailure
         \/ /\ wr["main"].at = "failall" /\ GoesOn("main", "disconnect") /\ SameFrame("main")
            /\ FailPending
            /\ UNCHANGED tracker /\ Kept(cancelled) /\ SameFailure
         \/ /\ wr["main"].at = "disconnect" /\ Goes("main", wr["main"].err)
            /\ tracker' = disconnect(tracker)
            /\ UNCHANGED <<pending, call>> /\ Kept(cancelled) /\ SameFailure
<1>1. wr["main"] # NoFrame /\ Places
  BY NoFrameAt DEF FailConnection, fail_connection, TypeOK
<1> USE <1>1
<1>2. wr["main"].err \in MainLabels
  BY DEF Places, Writes, WriterFails, Stages
<1>3. \A s \in Stages :
        pc' = pc /\ wr' = [wr EXCEPT !["main"].at = s] => GoesOn("main", s) /\ SameFrame("main")
  BY MainGoesOn DEF GoesOn, SameFrame
<1>4. Return("main", wr["main"].err) => Goes("main", wr["main"].err)
  BY <1>2, MainReturns DEF Goes
<1> QED
  BY <1>3, <1>4 DEF FailConnection, fail_connection, Stages, Kept, SameFailure

(* ... called by exec ...                                                  *)
LEMMA ExecFailMoves ==
  ASSUME TypeOK, FailConnection("exec")
  PROVE  \/ /\ wr["exec"].at = "fail" /\ GoesOn("exec", "cancel") /\ SameFrame("exec")
            /\ failed' /\ disconnected'
            /\ UNCHANGED <<tracker, pending, call>> /\ Kept(cancelled)
         \/ /\ wr["exec"].at = "cancel" /\ GoesOn("exec", "failall") /\ SameFrame("exec")
            /\ CancelActive
            /\ UNCHANGED <<tracker, pending, call>> /\ SameFailure
         \/ /\ wr["exec"].at = "failall" /\ GoesOn("exec", "disconnect") /\ SameFrame("exec")
            /\ FailPending
            /\ UNCHANGED tracker /\ Kept(cancelled) /\ SameFailure
         \/ /\ wr["exec"].at = "disconnect" /\ Goes("exec", wr["exec"].err)
            /\ tracker' = disconnect(tracker)
            /\ UNCHANGED <<pending, call>> /\ Kept(cancelled) /\ SameFailure
<1>1. wr["exec"] # NoFrame /\ Places
  BY NoFrameAt DEF FailConnection, fail_connection, TypeOK
<1> USE <1>1
<1>2. wr["exec"].err \in ExecLabels
  BY DEF Places, Writes, WriterFails, Stages
<1>3. \A s \in Stages :
        pc' = pc /\ wr' = [wr EXCEPT !["exec"].at = s] => GoesOn("exec", s) /\ SameFrame("exec")
  BY ExecGoesOn DEF GoesOn, SameFrame
<1>4. Return("exec", wr["exec"].err) => Goes("exec", wr["exec"].err)
  BY <1>2, ExecReturns DEF Goes
<1> QED
  BY <1>3, <1>4 DEF FailConnection, fail_connection, Stages, Kept, SameFailure

(* ... and called by the writer thread.                                    *)
LEMMA WriterFailMoves ==
  ASSUME TypeOK, FailConnection("writer")
  PROVE  \/ /\ wr["writer"].at = "fail" /\ GoesOn("writer", "cancel")
            /\ failed' /\ disconnected'
            /\ UNCHANGED <<tracker, pending, call>> /\ Kept(cancelled)
         \/ /\ wr["writer"].at = "cancel" /\ GoesOn("writer", "failall")
            /\ CancelActive
            /\ UNCHANGED <<tracker, pending, call>> /\ SameFailure
         \/ /\ wr["writer"].at = "failall" /\ GoesOn("writer", "disconnect")
            /\ FailPending
            /\ UNCHANGED tracker /\ Kept(cancelled) /\ SameFailure
         \/ /\ wr["writer"].at = "disconnect" /\ Goes("writer", wr["writer"].err)
            /\ tracker' = disconnect(tracker)
            /\ UNCHANGED <<pending, call>> /\ Kept(cancelled) /\ SameFailure
<1>1. wr["writer"] # NoFrame /\ Places
  BY NoFrameAt DEF FailConnection, fail_connection, TypeOK
<1> USE <1>1
<1>2. wr["writer"].err \in {"dead"}
  BY DEF Places, Writes, WriterFails, Stages
<1>3. \A s \in Stages \ {"check", "send"} :
        pc' = pc /\ wr' = [wr EXCEPT !["writer"].at = s] => GoesOn("writer", s)
  BY WriterGoesOn DEF GoesOn, SameFrame
<1>4. Return("writer", wr["writer"].err) => Goes("writer", wr["writer"].err)
  BY <1>2, WriterReturns DEF Goes
<1> QED
  BY <1>3, <1>4 DEF FailConnection, fail_connection, Stages, Kept, SameFailure

(* What the table says of where a thread is, goes and writes.              *)
LEMMA Tells ==
  /\ \A t, l : (At(t, l) => Is(t, l)) /\ (Goes(t, l) => To(t, l))
  /\ \A t, k, ok, err : Begins(t, [kind |-> k], ok, err) => Takes(t, k, ok, err)
  /\ \A t, k, n, ok, err :
       Begins(t, [kind |-> k, seq |-> n], ok, err) => Takes(t, k, ok, err) /\ Number(t)' = n
  /\ \A t, k, i, ok, err :
       Begins(t, [kind |-> k, id |-> i], ok, err) => Takes(t, k, ok, err) /\ For(t)' = i
  /\ \A t, k, i, r, ok, err :
       Begins(t, [kind |-> k, id |-> i, result |-> r], ok, err) =>
         Takes(t, k, ok, err) /\ For(t)' = i /\ Outcome(t)' = r
BY SMTT(60)
   DEF At, Is, Goes, To, Begins, Takes, NoFrame, Pc, Stage, Kind, Number, For, Outcome, Ok, Err

(* ... and of what stays.                                                  *)
LEMMA Keeps ==
  /\ tracker' = tracker => SameTracker
  /\ SamePhase(tracker, tracker') => SamePhases
  /\ \A i : tracker'.incoming = i => Incoming' = i
  /\ \A i : tracker'.outgoing = i => Outgoing' = i
  /\ tracker' = disconnect(tracker) /\ tracker \in Trackers =>
       Down' /\ ~Executing' /\ Incoming' = EmptyTable /\ Outgoing' = EmptyTable
  /\ CancelActive => (cancelled' <=> cancelled \/ active # None)
BY DisconnectDoes
   DEF SameTracker, SamePhase, SamePhases, Incoming, Outgoing, Down, Executing, CancelActive

(* The steps of exec are in the table.                                     *)
LEMMA ExecRows ==
  ASSUME TypeOK, ExecHolds,
         BeginRun \/ ObserverEvent \/ AfterEvent \/ UseHandle \/ StartCall
         \/ Announced \/ InsertPending \/ RegisterOutgoing \/ CallSent \/ UndoCall
         \/ CallFailed \/ DropCall \/ WithdrawCall \/ CallWithdrawn
         \/ ToolAnswered \/ PermissionAnswered \/ LoseProvider \/ AllowGrant
         \/ IssueGrant \/ FinishRun \/ DrainPending \/ DrainNext \/ ClearGrants
         \/ TakeGate \/ DecideResult \/ Respond \/ SettleExecution \/ EndExecution
  PROVE  ExecMoves
<1> USE Tells
<1>1. ASSUME BeginRun PROVE ExecMoves!BeginRun
  <2> USE <1>1
  <2>1. UNCHANGED <<open, log>> /\ SameShared
    BY DEF BeginRun, shared, SameShared, SameTracker, SamePhases,
       SameGrants, SameFlags, SameFailure, Kept, Incoming, Outgoing, Down,
       Executing
  <2> QED
    BY <2>1, BeginRunMoves
<1>2. ASSUME ObserverEvent PROVE ExecMoves!ObserverEvent
  <2> USE <1>2
  <2>1. UNCHANGED <<job, open, log>> /\ SameShared
    BY DEF ObserverEvent, shared, SameShared, SameTracker, SamePhases,
       SameGrants, SameFlags, SameFailure, Kept, Incoming, Outgoing, Down,
       Executing
  <2> QED
    BY <2>1, ObserverEventMoves
<1>3. ASSUME AfterEvent PROVE ExecMoves!AfterEvent
  <2> USE <1>3
  <2>1. /\ UNCHANGED log /\ SameTracker /\ SameCalls /\ SameGrants
        /\ UNCHANGED <<active, gate>> /\ SameFailure
    BY DEF AfterEvent, shared, SameTracker, SamePhases, SameCalls,
       SameGrants, SameFailure, Kept, Incoming, Outgoing, Down, Executing
  <2> QED
    BY <2>1, AfterEventMoves
<1>4. ASSUME UseHandle PROVE ExecMoves!UseHandle
  <2> USE <1>4
  <2>1. UNCHANGED <<job, log>> /\ SameTracker /\ SameCalls /\ SameFlags
    BY DEF UseHandle, SameTracker, SamePhases, SameCalls, SameFlags, SameFailure, Kept,
       Incoming, Outgoing, Down, Executing
  <2>2. Is("exec", "run") /\ Still("exec")
    BY DEF UseHandle, Still, Carries, SameWrite, Pc, Stage, Kind, Number, For,
       Outcome, Ok, Err
  <2>3. grants' = take_revocations(grants) /\ live' = live \ grants.revoked
    BY DEF UseHandle, Refreshed
  <2> QED
    BY <2>1, <2>2, <2>3
<1>5. ASSUME StartCall PROVE ExecMoves!StartCall
  <2> USE <1>5
  <2>1. UNCHANGED log /\ SameTracker /\ SameCalls /\ SameFlags
    BY DEF StartCall, Refreshed, shared, SameTracker, SamePhases,
       SameCalls, SameFlags, SameFailure, Kept, Incoming, Outgoing, Down,
       Executing
  <2> QED
    BY <2>1, StartCallMoves
<1>6. ASSUME Announced PROVE ExecMoves!Announced
  <2> USE <1>6
  <2>1. UNCHANGED <<open, log>> /\ SameShared
    BY DEF Announced, shared, SameShared, SameTracker, SamePhases,
       SameGrants, SameFlags, SameFailure, Kept, Incoming, Outgoing, Down,
       Executing
  <2> QED
    BY <2>1, AnnouncedMoves
<1>7. ASSUME InsertPending PROVE ExecMoves!InsertPending
  <2> USE <1>7
  <2>1. UNCHANGED <<open, log>> /\ SameTracker /\ SameGrants /\ SameFlags
    BY DEF InsertPending, shared, SameTracker, SamePhases, SameGrants,
       SameFlags, SameFailure, Kept, Incoming, Outgoing, Down, Executing
  <2> QED
    BY <2>1, InsertPendingMoves DEF InsertPending
<1>8. ASSUME RegisterOutgoing PROVE ExecMoves!RegisterOutgoing
  <2> USE <1>8
  <2>1. UNCHANGED <<job, log>> /\ SameCalls /\ SameGrants /\ SameFlags
    BY DEF RegisterOutgoing, SameCalls, SameGrants, SameFlags, SameFailure, Kept
  <2> USE <2>1
  <2>2. Incoming' = Incoming /\ SamePhases /\ Is("exec", "register")
    BY RegisterOutgoingMoves, Keeps DEF Incoming
  <2> USE <2>2
  <2>3. CASE /\ Begins("exec", [kind |-> "request", id |-> job.id], "sent", "unregister")
             /\ tracker.state # "Disconnected"
             /\ tracker'.outgoing = [tracker.outgoing EXCEPT ![job.id] = job.method]
    BY <2>3 DEF Outgoing, Down
  <2>4. CASE Goes("exec", "uninsert") /\ tracker' = tracker
    BY <2>4 DEF Outgoing
  <2> QED
    BY RegisterOutgoingMoves, <2>3, <2>4
<1>9. ASSUME CallSent PROVE ExecMoves!CallSent
  <2> USE <1>9
  <2>1. UNCHANGED log /\ SameShared
    BY DEF CallSent, shared, SameShared, SameTracker, SamePhases,
       SameGrants, SameFlags, SameFailure, Kept, Incoming, Outgoing, Down,
       Executing
  <2> QED
    BY <2>1, CallSentMoves DEF CallSent
<1>10. ASSUME UndoCall PROVE ExecMoves!UndoCall
  <2> USE <1>10
  <2>1. /\ UNCHANGED <<job, open, call, spent, log>> /\ SameGrants /\ SameFlags
        /\ pending' = pending \ {job.id}
    BY DEF UndoCall, SameGrants, SameFlags, SameFailure, Kept
  <2> QED
    BY <2>1, UndoCallMoves, Keeps DEF Incoming, Outgoing
<1>11. ASSUME CallFailed PROVE ExecMoves!CallFailed
  <2> USE <1>11
  <2>1. UNCHANGED <<log, grants>> /\ SameTracker /\ SameCalls /\ SameFlags
    BY DEF CallFailed, shared, SameTracker, SamePhases, SameCalls,
       SameFlags, SameFailure, Kept, Incoming, Outgoing, Down, Executing
  <2> QED
    BY <2>1, CallFailedMoves
<1>12. ASSUME DropCall PROVE ExecMoves!DropCall
  <2> USE <1>12
  <2>1. UNCHANGED <<call, spent, grants, log>> /\ SameTracker /\ SameFlags
    BY DEF DropCall, SameTracker, SamePhases, SameFlags, SameFailure, Kept, Incoming,
       Outgoing, Down, Executing
  <2>2. live' = live \/ live' = {}
    BY DropCallMoves
  <2> QED
    BY <2>1, <2>2, DropCallMoves
<1>13. ASSUME WithdrawCall PROVE ExecMoves!WithdrawCall
  <2> USE <1>13
  <2>1. UNCHANGED <<job, log>> /\ SameCalls /\ SameGrants /\ SameFlags
    BY DEF WithdrawCall, SameCalls, SameGrants, SameFlags, SameFailure, Kept
  <2>2. /\ Incoming' = Incoming /\ SamePhases /\ Is("exec", "withdraw")
        /\ Outgoing' = [Outgoing EXCEPT ![job.id] = NoMethod]
    BY WithdrawCallMoves, Keeps DEF Incoming, Outgoing
  <2>3. \/ /\ Takes("exec", "cancel", "withdrawn", "withdrawn") /\ For("exec")' = job.id
           /\ Outgoing[job.id] # NoMethod
        \/ To("exec", "withdrawn")
    BY WithdrawCallMoves DEF Outgoing
  <2> QED
    BY <2>1, <2>2, <2>3
<1>14. ASSUME CallWithdrawn PROVE ExecMoves!CallWithdrawn
  <2> USE <1>14
  <2>1. UNCHANGED <<open, log>> /\ SameShared
    BY DEF CallWithdrawn, shared, SameShared, SameTracker, SamePhases,
       SameGrants, SameFlags, SameFailure, Kept, Incoming, Outgoing, Down,
       Executing
  <2> QED
    BY <2>1, CallWithdrawnMoves
<1>15. ASSUME ToolAnswered PROVE ExecMoves!ToolAnswered
  <2> USE <1>15
  <2>1. /\ UNCHANGED <<pending, call, spent, log>> /\ SameTracker /\ SameGrants
        /\ UNCHANGED <<active, gate>> /\ SameFailure
    BY DEF ToolAnswered, shared, SameTracker, SamePhases, SameGrants,
       SameFailure, Kept, Incoming, Outgoing, Down, Executing
  <2> QED
    BY <2>1, ToolAnsweredMoves
<1>16. ASSUME PermissionAnswered PROVE ExecMoves!PermissionAnswered
  <2> USE <1>16
  <2>1. UNCHANGED log /\ SameShared
    BY DEF PermissionAnswered, shared, SameShared, SameTracker,
       SamePhases, SameGrants, SameFlags, SameFailure, Kept, Incoming, Outgoing,
       Down, Executing
  <2> QED
    BY <2>1, PermissionAnsweredMoves
<1>17. ASSUME LoseProvider PROVE ExecMoves!LoseProvider
  <2> USE <1>17
  <2>1. UNCHANGED <<grants, log>> /\ SameTracker /\ SameCalls /\ SameFlags
    BY DEF LoseProvider, shared, SameTracker, SamePhases, SameCalls,
       SameFlags, SameFailure, Kept, Incoming, Outgoing, Down, Executing
  <2> QED
    BY <2>1, LoseProviderMoves DEF LoseProvider
<1>18. ASSUME AllowGrant PROVE ExecMoves!AllowGrant
  <2> USE <1>18
  <2>1. /\ UNCHANGED <<live, log>> /\ SameTracker /\ SameCalls /\ SameFlags
        /\ grants' = allowed(grants, job.id, job.grant)
    BY DEF AllowGrant, SameTracker, SamePhases, SameCalls, SameFlags, SameFailure, Kept,
       Incoming, Outgoing, Down, Executing
  <2> USE <2>1
  <2>2. CASE allowed_again(grants, job.id)
    BY <2>2, AllowGrantMoves
  <2>3. CASE ~allowed_again(grants, job.id)
    BY <2>3, AllowGrantMoves
  <2> QED
    BY <2>2, <2>3
<1>19. ASSUME IssueGrant PROVE ExecMoves!IssueGrant
  <2> USE <1>19
  <2>1. UNCHANGED log /\ SameTracker /\ SameCalls /\ SameFlags
    BY DEF IssueGrant, SameTracker, SamePhases, SameCalls, SameFlags, SameFailure, Kept,
       Incoming, Outgoing, Down, Executing
  <2>2. \/ live' = live \cup {job.id} /\ grants' = issued(grants, job.id)
        \/ SameGrants
    BY DEF IssueGrant, SameGrants
  <2> QED
    BY <2>1, <2>2, IssueGrantMoves
<1>20. ASSUME FinishRun PROVE ExecMoves!FinishRun
  <2> USE <1>20
  <2>1. UNCHANGED <<pending, call, spent, grants, log>> /\ SameTracker /\ SameFlags
    BY DEF FinishRun, shared, SameTracker, SamePhases, SameFlags,
       SameFailure, Kept, Incoming, Outgoing, Down, Executing
  <2> QED
    BY <2>1, FinishRunMoves DEF FinishRun
<1>21. ASSUME DrainPending PROVE ExecMoves!DrainPending
  <2> USE <1>21
  <2>1. UNCHANGED <<open, spent, log>> /\ SameTracker /\ SameGrants /\ SameFlags
    BY DEF DrainPending, FailPending, shared, SameTracker, SamePhases,
       SameGrants, SameFlags, SameFailure, Kept, Incoming, Outgoing, Down,
       Executing
  <2> QED
    BY <2>1, DrainPendingMoves DEF DrainPending
<1>22. ASSUME DrainNext PROVE ExecMoves!DrainNext
  <2> USE <1>22
  <2>1. UNCHANGED log /\ SameCalls /\ SameGrants /\ SameFlags
    BY DEF DrainNext, SameCalls, SameGrants, SameFlags, SameFailure, Kept
  <2>2. /\ Incoming' = Incoming /\ SamePhases /\ Is("exec", "drain1")
        /\ ChangesJob({"todo"})
    BY DrainNextMoves, Keeps DEF Incoming
  <2>3. PICK id \in job.todo :
          /\ job'.todo = job.todo \ {id}
          /\ tracker'.outgoing = [tracker.outgoing EXCEPT ![id] = NoMethod]
          /\ \/ /\ Begins("exec", [kind |-> "cancel", id |-> id], "drain1", "drain1")
                /\ tracker.outgoing[id] # NoMethod
             \/ Goes("exec", "drain1")
    BY DrainNextMoves
  <2> USE <2>3
  <2>4. /\ Outgoing' = [Outgoing EXCEPT ![id] = NoMethod]
        /\ \/ /\ Takes("exec", "cancel", "drain1", "drain1") /\ For("exec")' = id
              /\ Outgoing[id] # NoMethod
           \/ To("exec", "drain1")
    BY DEF Outgoing
  <2> QED
    BY <2>1, <2>2, <2>4
<1>23. ASSUME ClearGrants PROVE ExecMoves!ClearGrants
  <2> USE <1>23
  <2>1. UNCHANGED <<job, live, log>> /\ SameTracker /\ SameCalls /\ SameFlags
    BY DEF ClearGrants, shared, SameTracker, SamePhases, SameCalls,
       SameFlags, SameFailure, Kept, Incoming, Outgoing, Down, Executing
  <2> QED
    BY <2>1, ClearGrantsMoves DEF ClearGrants
<1>24. ASSUME TakeGate PROVE ExecMoves!TakeGate
  <2> USE <1>24
  <2>1. /\ UNCHANGED <<job, log>> /\ SameTracker /\ SameCalls /\ SameGrants
        /\ UNCHANGED active /\ Kept(cancelled) /\ SameFailure
    BY DEF TakeGate, shared, SameTracker, SamePhases, SameCalls,
       SameGrants, SameFailure, Kept, Incoming, Outgoing, Down, Executing
  <2> QED
    BY <2>1, TakeGateMoves DEF TakeGate
<1>25. ASSUME DecideResult PROVE ExecMoves!DecideResult
  <2> USE <1>25
  <2>1. UNCHANGED <<open, log>> /\ SameShared
    BY DEF DecideResult, shared, SameShared, SameTracker, SamePhases,
       SameGrants, SameFlags, SameFailure, Kept, Incoming, Outgoing, Down,
       Executing
  <2> QED
    BY <2>1, DecideResultMoves
<1>26. ASSUME Respond PROVE ExecMoves!Respond
  <2> USE <1>26
  <2>1. UNCHANGED <<job, open, log>> /\ SameShared
    BY DEF Respond, shared, SameShared, SameTracker, SamePhases,
       SameGrants, SameFlags, SameFailure, Kept, Incoming, Outgoing, Down,
       Executing
  <2> QED
    BY <2>1, RespondMoves
<1>27. ASSUME SettleExecution PROVE ExecMoves!SettleExecution
  <2> USE <1>27
  <2>1. UNCHANGED <<job, log>> /\ SameCalls /\ SameGrants /\ SameFlags
    BY DEF SettleExecution, SameCalls, SameGrants, SameFlags, SameFailure, Kept
  <2>2. Outgoing' = Outgoing /\ (Down' <=> Down) /\ ~Executing'
    BY SettleTracker DEF Outgoing, Down, Executing
  <2>3. \/ Is("exec", "settle") /\ Incoming' = [Incoming EXCEPT ![job.req] = NoMethod]
        \/ Is("exec", "fin1") /\ Incoming' = Incoming
    BY SettleTracker, SettleExecutionMoves DEF Incoming, At
  <2> QED
    BY <2>1, <2>2, <2>3, SettleExecutionMoves
<1>28. ASSUME EndExecution PROVE ExecMoves!EndExecution
  <2> USE <1>28
  <2>1. /\ UNCHANGED log /\ SameTracker /\ SameCalls /\ SameGrants
        /\ Kept(cancelled) /\ SameFailure
    BY DEF EndExecution, FinishExecution, shared, SameTracker, SamePhases,
       SameCalls, SameGrants, SameFailure, Kept, Incoming, Outgoing, Down,
       Executing
  <2> QED
    BY <2>1, EndExecutionMoves DEF EndExecution, FinishExecution
<1> QED
  BY <1>1, <1>2, <1>3, <1>4, <1>5, <1>6, <1>7, <1>8, <1>9, <1>10, <1>11,
     <1>12, <1>13, <1>14, <1>15, <1>16, <1>17, <1>18, <1>19, <1>20, <1>21,
     <1>22, <1>23, <1>24, <1>25, <1>26, <1>27, <1>28
     DEF ExecMoves

(* The steps of main are in the table.                                     *)
LEMMA MainRows ==
  ASSUME TypeOK, MainHolds,
         ReceiveEnd \/ ReceiveRequest \/ ReceiveResponse \/ ReceiveCancel
         \/ ReceiveRevoke \/ Boot \/ PollInput \/ CompleteCall \/ CancelExecution
         \/ RevokeGrant \/ HandleSetup \/ CommitSetup \/ CommitRefusal
         \/ PrepareExecution \/ StartExecution \/ UndoStart \/ EndConnection
  PROVE  MainMoves
<1> USE Tells
<1>1. ASSUME ReceiveEnd PROVE MainMoves!ReceiveEnd
  <2> USE <1>1
  <2>1. /\ UNCHANGED <<msg, log, pending, call, grants>> /\ SameTracker
        /\ UNCHANGED active /\ Kept(cancelled) /\ Kept(failed)
    BY DEF ReceiveEnd, Fatal, shared, SameTracker, SamePhases, Kept,
       Incoming, Outgoing, Down, Executing
  <2> QED
    BY <2>1, ReceiveEndMoves
<1>2. ASSUME ReceiveRequest PROVE MainMoves!ReceiveRequest
  <2>1. UNCHANGED <<pending, call, grants, active>> /\ Kept(cancelled) /\ Kept(failed)
    BY <1>2 DEF ReceiveRequest, Kept
  <2>2. /\ Is("main", "recv")
        /\ Outgoing' = Outgoing /\ SamePhases
    BY <1>2, ReceiveRequestMoves, Keeps DEF Outgoing
  <2> USE <2>1, <2>2
  <2>3. CASE Goes("main", "ret") /\ disconnected' /\ UNCHANGED <<msg, log, tracker>>
    BY <2>3 DEF Incoming
  <2>4. CASE /\ Goes("main", "handle") /\ Kept(disconnected)
             /\ msg' \in Requests /\ msg'.id \in HostIds /\ msg'.method \in HostMethods
             /\ msg'.method = "execution/start" => msg'.exec \in ExecId
             /\ tracker.incoming[msg'.id] = NoMethod /\ tracker.state # "Disconnected"
             /\ tracker'.incoming = [tracker.incoming EXCEPT ![msg'.id] = msg'.method]
             /\ ChangesLog({"owed"}) /\ log'.owed = log.owed \cup {msg'.id}
    BY <2>4 DEF Incoming, Down
  <2>5. CASE \E id \in HostIds :
               /\ Begins("main", [kind |-> "response", id |-> id], "idle", "ret")
               /\ UNCHANGED <<msg, tracker>> /\ Kept(disconnected)
               /\ tracker.incoming[id] = NoMethod
               /\ ChangesLog({"owed"}) /\ log'.owed = log.owed \cup {id}
    <3>1. PICK id \in HostIds :
            /\ Begins("main", [kind |-> "response", id |-> id], "idle", "ret")
            /\ UNCHANGED <<msg, tracker>> /\ Kept(disconnected)
            /\ tracker.incoming[id] = NoMethod
            /\ ChangesLog({"owed"}) /\ log'.owed = log.owed \cup {id}
      BY <2>5
    <3> USE <3>1
    <3>2. Takes("main", "response", "idle", "ret") /\ For("main")' = id
      OBVIOUS
    <3> USE <3>2
    <3>3. /\ For("main")' \in HostIds /\ Incoming[For("main")'] = NoMethod
          /\ UNCHANGED msg /\ Kept(disconnected) /\ Incoming' = Incoming
          /\ ChangesLog({"owed"}) /\ log'.owed = log.owed \cup {For("main")'}
      BY DEF Incoming
    <3> QED
      BY <3>3
  <2> QED
    BY <1>2, ReceiveRequestMoves, <2>3, <2>4, <2>5
<1>3. ASSUME ReceiveResponse PROVE MainMoves!ReceiveResponse
  <2> USE <1>3
  <2>1. UNCHANGED <<pending, call, grants, active>> /\ Kept(cancelled) /\ Kept(failed)
    BY DEF ReceiveResponse, Kept
  <2> QED
    BY <2>1, ReceiveResponseMoves, Keeps DEF Incoming, Outgoing
<1>4. ASSUME ReceiveCancel PROVE MainMoves!ReceiveCancel
  <2> USE <1>4
  <2>1. /\ UNCHANGED <<log, pending, call, grants, active>>
        /\ Kept(cancelled) /\ SameFailure
    BY DEF ReceiveCancel, SameFailure, Kept
  <2>2. SameTracker
    BY ReceiveCancelMoves, Keeps DEF SameTracker, Incoming, Outgoing
  <2> QED
    BY <2>1, <2>2, ReceiveCancelMoves
<1>5. ASSUME ReceiveRevoke PROVE MainMoves!ReceiveRevoke
  <2> USE <1>5
  <2>1. /\ UNCHANGED <<log, pending, call, grants>> /\ SameTracker
        /\ UNCHANGED active /\ Kept(cancelled) /\ Kept(failed)
    BY DEF ReceiveRevoke, Fatal, shared, SameTracker, SamePhases, Kept,
       Incoming, Outgoing, Down, Executing
  <2> QED
    BY <2>1, ReceiveRevokeMoves
<1>6. ASSUME Boot PROVE MainMoves!Boot
  <2> USE <1>6
  <2>1. UNCHANGED <<msg, log>> /\ SameShared
    BY DEF Boot, shared, SameShared, SameTracker, SamePhases, SameGrants,
       SameFlags, SameFailure, Kept, Incoming, Outgoing, Down, Executing
  <2> QED
    BY <2>1, BootMoves
<1>7. ASSUME PollInput PROVE MainMoves!PollInput
  <2> USE <1>7
  <2>1. UNCHANGED <<msg, log>> /\ SameShared
    BY DEF PollInput, shared, SameShared, SameTracker, SamePhases, SameGrants, SameFlags,
       SameFailure, Kept, Incoming, Outgoing, Down, Executing
  <2> USE <2>1
  <2>2. CASE disconnected
    BY <2>2, PollInputMoves
  <2>3. CASE ~disconnected
    BY <2>3, PollInputMoves
  <2> QED
    BY <2>2, <2>3
<1>8. ASSUME CompleteCall PROVE MainMoves!CompleteCall
  <2> USE <1>8
  <2>1. UNCHANGED <<log, grants>> /\ SameTracker /\ SameFlags
    BY DEF CompleteCall, shared, SameTracker, SamePhases, SameFlags,
       SameFailure, Kept, Incoming, Outgoing, Down, Executing
  <2> QED
    BY <2>1, CompleteCallMoves DEF CompleteCall
<1>9. ASSUME CancelExecution PROVE MainMoves!CancelExecution
  <2> USE <1>9
  <2>1. /\ UNCHANGED <<pending, call, grants, active>> /\ SameFailure /\ SameTracker
        /\ gate = None
    BY DEF CancelExecution, SameFailure, Kept, SameTracker, SamePhases, Incoming, Outgoing,
       Down, Executing
  <2>2. cancelled' <=> cancelled \/ active = msg.id
    BY DEF CancelExecution
  <2> QED
    BY <2>1, <2>2, CancelExecutionMoves
<1>10. ASSUME RevokeGrant PROVE MainMoves!RevokeGrant
  <2> USE <1>10
  <2>1. UNCHANGED <<pending, call>> /\ SameTracker /\ SameFlags
    BY DEF RevokeGrant, shared, SameTracker, SamePhases, SameFlags,
       SameFailure, Kept, Incoming, Outgoing, Down, Executing
  <2> QED
    BY <2>1, RevokeGrantMoves DEF RevokeGrant
<1>11. ASSUME HandleSetup PROVE MainMoves!HandleSetup
  <2> USE <1>11
  <2>1. UNCHANGED <<msg, log>> /\ SameShared
    BY DEF HandleSetup, shared, SameShared, SameTracker, SamePhases, SameGrants, SameFlags,
       SameFailure, Kept, Incoming, Outgoing, Down, Executing
  <2>2. PICK label \in {"accepted", "refused"} :
          Begins("main", [kind |-> "response", id |-> msg.id], label, "ret")
    BY HandleSetupMoves
  <2>3. Takes("main", "response", label, "ret") /\ For("main")' = msg.id
    BY <2>2
  <2> QED
    BY <2>1, <2>3, HandleSetupMoves
<1>12. ASSUME CommitSetup PROVE MainMoves!CommitSetup
  <2> USE <1>12
  <2>1. UNCHANGED <<log, pending, call, grants>> /\ SameFlags
    BY DEF CommitSetup, SameFlags, SameFailure, Kept
  <2>2. Outgoing' = Outgoing /\ SamePhases
    BY CommitSetupMoves DEF Outgoing, SamePhases, SamePhase, Down, Executing
  <2> QED
    BY <2>1, <2>2, CommitSetupMoves DEF Incoming
<1>13. ASSUME CommitRefusal PROVE MainMoves!CommitRefusal
  <2> USE <1>13
  <2>1. UNCHANGED <<log, pending, call, grants>> /\ SameFlags
    BY DEF CommitRefusal, SameFlags, SameFailure, Kept
  <2>2. Outgoing' = Outgoing /\ SamePhases
    BY CommitRefusalMoves DEF Outgoing, SamePhases, SamePhase, Down, Executing
  <2> QED
    BY <2>1, <2>2, CommitRefusalMoves DEF Incoming
<1>14. ASSUME PrepareExecution PROVE MainMoves!PrepareExecution
  <2> USE <1>14
  <2>1. UNCHANGED <<msg, log, pending, call, grants>> /\ SameFailure /\ SameTracker
    BY DEF PrepareExecution, shared, SameTracker, SamePhases, SameFailure,
       Kept, Incoming, Outgoing, Down, Executing
  <2> QED
    BY <2>1, PrepareExecutionMoves
<1>15. ASSUME StartExecution PROVE MainMoves!StartExecution
  <2> USE <1>15
  <2>1. UNCHANGED <<msg, log, pending, call, grants>> /\ SameFlags
    BY DEF StartExecution, SameFlags, SameFailure, Kept
  <2>2. /\ Incoming' = Incoming /\ Outgoing' = Outgoing /\ (Down' <=> Down)
        /\ tracker' = tracker => (Executing' <=> Executing)
    BY StartExecutionMoves DEF Incoming, Outgoing, Down, Executing
  <2> QED
    BY <2>1, <2>2, StartExecutionMoves
<1>16. ASSUME UndoStart PROVE MainMoves!UndoStart
  <2> USE <1>16
  <2>1. UNCHANGED <<msg, log, pending, call, grants>> /\ Kept(cancelled) /\ SameFailure
    BY DEF UndoStart, SameFailure, Kept
  <2>2. /\ Incoming' = Incoming /\ Outgoing' = Outgoing /\ (Down' <=> Down)
        /\ tracker' = tracker => (Executing' <=> Executing)
    BY UndoStartMoves DEF Incoming, Outgoing, Down, Executing
  <2> QED
    BY <2>1, <2>2, UndoStartMoves DEF Executing
<1>17. ASSUME EndConnection PROVE MainMoves!EndConnection
  <2> USE <1>17
  <2>1. UNCHANGED <<msg, log, pending, call, active>> /\ Kept(failed)
    BY DEF EndConnection, Kept
  <2>2. tracker \in Trackers
    BY DEF TypeOK, Good
  <2> QED
    BY <2>1, <2>2, EndConnectionMoves, Keeps DEF Pc
<1> QED
  BY <1>1, <1>2, <1>3, <1>4, <1>5, <1>6, <1>7, <1>8, <1>9, <1>10, <1>11,
     <1>12, <1>13, <1>14, <1>15, <1>16, <1>17
     DEF MainMoves

(* A start of exec is in the table ...                                     *)
LEMMA SpawnRow ==
  ASSUME TypeOK, SpawnExecution
  PROVE  SpawnMoves
<1>1. UNCHANGED <<open, log, scene>> /\ SameShared
  BY DEF SpawnExecution, SameShared, SameTracker, SamePhases, SameGrants, SameFlags, SameFailure,
     Kept, shared, Incoming, Outgoing, Down, Executing
<1>2. /\ Is("main", "spawn") /\ To("main", "idle")
      /\ Pc("exec")' = "start" /\ Stage("exec")' = Stage("exec")
  BY SMTT(60), SpawnExecutionMoves DEF Is, To, At, Goes, NoFrame, Pc, Stage
<1>3. Still("writer")
  BY SpawnExecutionMoves DEF Still, Carries, SameWrite, Pc, Stage, Kind, Number, For, Outcome,
     Ok, Err
<1>4. /\ job'.req = msg.id /\ job'.exec = msg.exec /\ job'.seq = 3 /\ job'.result = None
      /\ job'.id = None /\ job'.todo = {}
  BY SMTT(60), SpawnExecutionMoves
<1> QED
  BY <1>1, <1>2, <1>3, <1>4 DEF SpawnMoves

(* A thread that keeps its place and its frame is still.                   *)
LEMMA StaysStill ==
  ASSUME NEW t, Stays(t)
  PROVE  Still(t)
BY DEF Stays, Still, Carries, SameWrite, Pc, Stage, Kind, Number, For, Outcome, Ok, Err

(* What a frame tells the host.                                            *)
LEMMA EnqueuesHold ==
  ASSUME log \in Logs, NEW t, wr[t].frame \in Frames, log' = Logged(wr[t].frame)
  PROVE  Enqueues(t)
<1> DEFINE frame == wr[t].frame
<1>1. frame \in Frames /\ log' = Logged(frame)
  OBVIOUS
<1> USE <1>1
<1>2. Kind(t) = frame.kind /\ Number(t) = frame.seq /\ For(t) = frame.id /\
        Outcome(t) = frame.result
  BY DEF Kind, Number, For, Outcome
<1> USE <1>2
<1> HIDE DEF frame
<1>3. log = [owed |-> log.owed, doubled |-> log.doubled, seq |-> log.seq,
             over |-> log.over, result |-> log.result, cancels |-> log.cancels,
             heard |-> log.heard, honoured |-> log.honoured, bitten |-> log.bitten]
  BY DEF Logs
<1>4. frame.kind \in {"ready", "event", "terminal", "response", "cancel", "request", "result"}
  BY DEF Frames
<1> USE <1>3
<1>5. CASE frame.kind \in {"ready", "request"}
  <2> USE <1>5
  <2>1. log' = log
    BY DEF Logged
  <2> QED
    BY <2>1 DEF Enqueues
<1>6. CASE frame.kind = "event" /\ frame.seq = 1
  <2> USE <1>6
  <2>1. log' = [log EXCEPT !.seq = 1, !.over = FALSE, !.result = None, !.honoured = FALSE]
    BY DEF Logged
  <2> QED
    BY <2>1 DEF Enqueues, ChangesLog
<1>7. CASE frame.kind = "event" /\ frame.seq # 1
  <2> USE <1>7
  <2>1. log' = [log EXCEPT !.seq = frame.seq]
    BY DEF Logged
  <2> QED
    BY <2>1 DEF Enqueues, ChangesLog
<1>8. CASE frame.kind = "terminal"
  <2> USE <1>8
  <2>1. log' = [log EXCEPT !.seq = frame.seq, !.over = TRUE]
    BY DEF Logged
  <2> QED
    BY <2>1 DEF Enqueues, ChangesLog
<1>9. CASE frame.kind = "response"
  <2> USE <1>9
  <2>1. log' = [log EXCEPT !.owed = @ \ {frame.id}, !.doubled = @ \/ frame.id \notin log.owed]
    BY DEF Logged
  <2> QED
    BY <2>1 DEF Enqueues, ChangesLog
<1>10. CASE frame.kind = "result"
  <2> USE <1>10
  <2>1. log' = [log EXCEPT !.owed = @ \ {frame.id}, !.doubled = @ \/ frame.id \notin log.owed,
                           !.result = frame.result]
    BY DEF Logged
  <2> QED
    BY <2>1 DEF Enqueues, ChangesLog
<1>11. CASE frame.kind = "cancel"
  <2> USE <1>11
  <2>1. log' = [log EXCEPT !.cancels = @ \cup {frame.id}]
    BY DEF Logged
  <2> QED
    BY <2>1 DEF Enqueues, ChangesLog
<1> QED
  BY <1>4, <1>5, <1>6, <1>7, <1>8, <1>9, <1>10, <1>11

(* ... how main writes is.                                                 *)
LEMMA MainWriteRows ==
  ASSUME TypeOK, WriteCheck("main") \/ WriteSend("main")
  PROVE  WriteMoves("main")
<1>a. \A s : /\ wr["main"].at = s => Stage("main") = s
             /\ GoesOn("main", s) => Carries("main", s)
  BY DEF Stage, GoesOn, Carries, Pc, Err
<1>b. /\ SameFrame("main") => SameWrite("main")
      /\ Goes("main", wr["main"].err) => To("main", Err("main"))
      /\ Goes("main", wr["main"].ok) => To("main", Ok("main"))
      /\ wr["main"].frame.kind = Kind("main") /\ pc["writer"] = Pc("writer")
  <2>1. SameFrame("main") => SameWrite("main")
    BY DEF SameFrame, SameWrite, Kind, Number, For, Outcome, Ok
  <2>2. \A l : Goes("main", l) => To("main", l)
    BY Tells
  <2> QED
    BY <2>1, <2>2 DEF Kind, Ok, Err, Pc
<1>1. ASSUME WriteCheck("main") PROVE WriteMoves("main")!Check
  <2> USE <1>1
  <2>1. UNCHANGED <<msg, job, open, log>> /\ SameShared
    BY DEF WriteCheck, shared, SameShared, SameTracker, SamePhases, SameGrants, SameFlags,
       SameFailure, Kept, Incoming, Outgoing, Down, Executing
  <2> QED
    BY <1>a, <1>b, <2>1, MainWriteCheckMoves
<1>2. ASSUME WriteSend("main") PROVE WriteMoves("main")!Send
  <2> USE <1>2
  <2>1. UNCHANGED <<msg, job, open>> /\ SameShared
    BY DEF WriteSend, SameShared, SameTracker, SamePhases, SameGrants, SameFlags,
       SameFailure, Kept, Incoming, Outgoing, Down, Executing
  <2>2. log' = Logged(wr["main"].frame) => Enqueues("main")
    BY EnqueuesHold, MainWriteSendMoves DEF TypeOK
  <2> QED
    BY <1>a, <1>b, <2>1, <2>2, MainWriteSendMoves
<1> QED
  BY <1>1, <1>2 DEF WriteMoves

(* ... how exec writes is.                                                 *)
LEMMA ExecWriteRows ==
  ASSUME TypeOK, WriteCheck("exec") \/ WriteSend("exec")
  PROVE  WriteMoves("exec")
<1>a. \A s : /\ wr["exec"].at = s => Stage("exec") = s
             /\ GoesOn("exec", s) => Carries("exec", s)
  BY DEF Stage, GoesOn, Carries, Pc, Err
<1>b. /\ SameFrame("exec") => SameWrite("exec")
      /\ Goes("exec", wr["exec"].err) => To("exec", Err("exec"))
      /\ Goes("exec", wr["exec"].ok) => To("exec", Ok("exec"))
      /\ wr["exec"].frame.kind = Kind("exec") /\ pc["writer"] = Pc("writer")
  <2>1. SameFrame("exec") => SameWrite("exec")
    BY DEF SameFrame, SameWrite, Kind, Number, For, Outcome, Ok
  <2>2. \A l : Goes("exec", l) => To("exec", l)
    BY Tells
  <2> QED
    BY <2>1, <2>2 DEF Kind, Ok, Err, Pc
<1>1. ASSUME WriteCheck("exec") PROVE WriteMoves("exec")!Check
  <2> USE <1>1
  <2>1. UNCHANGED <<msg, job, open, log>> /\ SameShared
    BY DEF WriteCheck, shared, SameShared, SameTracker, SamePhases, SameGrants, SameFlags,
       SameFailure, Kept, Incoming, Outgoing, Down, Executing
  <2> QED
    BY <1>a, <1>b, <2>1, ExecWriteCheckMoves
<1>2. ASSUME WriteSend("exec") PROVE WriteMoves("exec")!Send
  <2> USE <1>2
  <2>1. UNCHANGED <<msg, job, open>> /\ SameShared
    BY DEF WriteSend, SameShared, SameTracker, SamePhases, SameGrants, SameFlags,
       SameFailure, Kept, Incoming, Outgoing, Down, Executing
  <2>2. log' = Logged(wr["exec"].frame) => Enqueues("exec")
    BY EnqueuesHold, ExecWriteSendMoves DEF TypeOK
  <2> QED
    BY <1>a, <1>b, <2>1, <2>2, ExecWriteSendMoves
<1> QED
  BY <1>1, <1>2 DEF WriteMoves

(* ... how main fails the connection is.                                   *)
LEMMA MainFailRow ==
  ASSUME TypeOK, FailConnection("main")
  PROVE  FailMoves("main")
<1>1. UNCHANGED <<msg, job, open, log, active, spent, grants, live, gate>>
  BY DEF FailConnection
<1>2. tracker \in Trackers
  BY DEF TypeOK, Good
<1>3. \A s : /\ wr["main"].at = s => Stage("main") = s
             /\ GoesOn("main", s) => Carries("main", s)
  BY DEF Stage, GoesOn, Carries, Pc, Err
<1>4. Goes("main", wr["main"].err) => To("main", Err("main"))
  BY Tells DEF Err
<1>5. SameFrame("main") => SameWrite("main")
  BY DEF SameFrame, SameWrite, Kind, Number, For, Outcome, Ok
<1> QED
  BY <1>1, <1>2, <1>3, <1>4, <1>5, MainFailMoves, Keeps DEF FailMoves

(* ... how exec fails the connection is.                                   *)
LEMMA ExecFailRow ==
  ASSUME TypeOK, FailConnection("exec")
  PROVE  FailMoves("exec")
<1>1. UNCHANGED <<msg, job, open, log, active, spent, grants, live, gate>>
  BY DEF FailConnection
<1>2. tracker \in Trackers
  BY DEF TypeOK, Good
<1>3. \A s : /\ wr["exec"].at = s => Stage("exec") = s
             /\ GoesOn("exec", s) => Carries("exec", s)
  BY DEF Stage, GoesOn, Carries, Pc, Err
<1>4. Goes("exec", wr["exec"].err) => To("exec", Err("exec"))
  BY Tells DEF Err
<1>5. SameFrame("exec") => SameWrite("exec")
  BY DEF SameFrame, SameWrite, Kind, Number, For, Outcome, Ok
<1> QED
  BY <1>1, <1>2, <1>3, <1>4, <1>5, ExecFailMoves, Keeps DEF FailMoves

(* ... how the writer thread fails the connection is.                      *)
LEMMA WriterFailRow ==
  ASSUME TypeOK, FailConnection("writer")
  PROVE  FailMoves("writer")
<1>1. UNCHANGED <<msg, job, open, log, active, spent, grants, live, gate>>
  BY DEF FailConnection
<1>2. tracker \in Trackers
  BY DEF TypeOK, Good
<1>3. \A s : /\ wr["writer"].at = s => Stage("writer") = s
             /\ GoesOn("writer", s) => Carries("writer", s)
  BY DEF Stage, GoesOn, Carries, Pc, Err
<1>4. Goes("writer", wr["writer"].err) => To("writer", Err("writer"))
  BY Tells DEF Err
<1> QED
  BY <1>1, <1>2, <1>3, <1>4, WriterFailMoves, Keeps DEF FailMoves

(* ... and how the writer thread delivers is.                              *)
LEMMA DeliverRow ==
  ASSUME TypeOK, Deliver
  PROVE  DeliverMoves
<1>1. UNCHANGED <<msg, job, open, log>> /\ SameShared
  BY DEF Deliver, SameShared, SameTracker, SamePhases, SameGrants, SameFlags, SameFailure, Kept,
     Incoming, Outgoing, Down, Executing
<1>2. At("writer", "live") /\ pc' = pc
      /\ (wr' = wr \/ wr' = [wr EXCEPT !["writer"] = [at |-> "fail", err |-> "dead"]])
  BY DEF Deliver
<1> USE <1>2
<1>3. Stage("writer")' = "none" \/ Stage("writer")' = "fail"
  BY SMTT(60), Shapes DEF At, Stage, NoFrame, Threads
<1>4. Pc("writer")' = Pc("writer") /\ Is("writer", "live")
  BY Tells DEF Pc
<1> QED
  BY <1>1, <1>3, <1>4 DEF DeliverMoves

(* Every step of the specification is in the table.                        *)
LEMMA Steps ==
  ASSUME TypeOK, MainHolds, ExecHolds, [Next]_vars
  PROVE  Moves
<1>1. ASSUME Receive \/ MainStep, ~SpawnExecution PROVE ByMain \/ ByMainWrite
  <2> USE <1>1
  <2>1. MainFrame
    <3>1. MainKeeps
      BY MainSteps
    <3> QED
      BY <3>1, StaysStill DEF MainKeeps, MainFrame
  <2>2. MainMoves \/ WriteMoves("main") \/ FailMoves("main")
    BY MainRows, MainWriteRows, MainFailRow DEF Receive, MainStep
  <2> QED
    BY <2>1, <2>2 DEF ByMain, ByMainWrite
<1>2. ASSUME ExecStep PROVE ByExec \/ ByExecWrite
  <2> USE <1>2
  <2>1. ExecFrame
    <3>1. ExecKeeps
      BY ExecSteps
    <3> QED
      BY <3>1, StaysStill DEF ExecKeeps, ExecFrame
  <2>2. ExecMoves \/ WriteMoves("exec") \/ FailMoves("exec")
    BY ExecRows, ExecWriteRows, ExecFailRow DEF ExecStep
  <2> QED
    BY <2>1, <2>2 DEF ByExec, ByExecWrite
<1>3. ASSUME Deliver \/ FailConnection("writer") PROVE ByWriter
  <2> USE <1>3
  <2>1. WriterFrame
    <3>1. WriterKeeps
      BY WriterSteps
    <3> QED
      BY <3>1, StaysStill DEF WriterKeeps, WriterFrame
  <2> QED
    BY <2>1, DeliverRow, WriterFailRow DEF ByWriter
<1>4. ASSUME UNCHANGED vars PROVE ByNone
  <2> USE <1>4
  <2>1. Stays("main") /\ Stays("exec") /\ Stays("writer")
    BY DEF vars, Stays
  <2>2. UNCHANGED <<msg, job, open, log, scene>> /\ SameShared
    BY DEF vars, shared, SameShared, SameTracker, SamePhases, SameGrants, SameFlags,
       SameFailure, Kept, Incoming, Outgoing, Down, Executing
  <2> QED
    BY <2>1, <2>2, StaysStill DEF ByNone
<1> QED
  BY <1>1, <1>2, <1>3, <1>4, SpawnRow DEF Next, Ended, Moves

-----------------------------------------------------------------------------
(***************************************************************************)
(* The invariant of a connection.                                          *)
(***************************************************************************)
Inv == TypeOK /\ Layers

(* What the layers need of the types.                                      *)
LEMMA TypesHold == TypeOK => Types
<1> SUFFICES ASSUME TypeOK PROVE Types
  OBVIOUS
<1>1. Pc("main") \in MainLabels /\ Pc("exec") \in ExecLabels
  BY DEF TypeOK, Places, Pc
<1>2. /\ Incoming \in [ReqId -> Methods \cup {NoMethod}]
      /\ Outgoing \in [ReqId -> Methods \cup {NoMethod}]
  BY DEF TypeOK, Good, Trackers, Incoming, Outgoing
<1>3. Stage("writer") # "none" => Err("writer") = "dead"
  BY SMTT(60) DEF TypeOK, Places, NoFrame, WriterFails, Stage, Err
<1> QED
  BY <1>1, <1>2, <1>3 DEF TypeOK, Types

(* Every step keeps the types.                                             *)
LEMMA TypesNext ==
  ASSUME TypeOK, Control, [Next]_vars
  PROVE  TypeOK'
<1>c. MainHolds /\ ExecHolds /\ ExecWrites
  BY DEF Control
<1>1. CASE Next
  <2> USE <1>1, <1>c
  <2>1. Good(tracker') /\ tracker'.role = "Runtime"
    BY TrackerNext
  <2>2. job' \in Jobs /\ log' \in Logs
    BY JobNext, LogNext
  <2>3. Calls' /\ Flags'
    BY CallsNext, FlagsNext
  <2>4. Places'
    <3>1. CASE Ended
      BY <3>1 DEF Ended, vars, shared, TypeOK, Places
    <3>2. CASE ~Ended
      BY <3>2, MainSteps, ExecSteps, WriterSteps DEF Next
    <3> QED
      BY <3>1, <3>2
  <2>5. tracker'.role = "Runtime" /\ Good(tracker)'
    BY <2>1 DEF Good, Agree, Scoped, EmptyWhenDisconnected, Singles
  <2> QED
    BY <2>2, <2>3, <2>4, <2>5 DEF TypeOK
<1>2. CASE UNCHANGED vars
  <2> USE <1>2
  <2>1. Places' /\ Calls' /\ job' \in Jobs /\ log' \in Logs
    BY DEF vars, shared, TypeOK, Places, Calls
  <2>2. Flags'
    BY DEF vars, shared, TypeOK, Flags
  <2>3. Good(tracker)' /\ tracker'.role = "Runtime"
    BY DEF vars, shared, TypeOK, Good, Agree, Scoped, EmptyWhenDisconnected, Singles
  <2> QED
    BY <2>1, <2>2, <2>3 DEF TypeOK
<1> QED
  BY <1>1, <1>2

(* A new connection has the types ...                                      *)
LEMMA TypesInit == Init => TypeOK
<1> SUFFICES ASSUME Init PROVE TypeOK
  OBVIOUS
<1>1. Places
  <2>1. /\ pc = [main |-> "boot", exec |-> "none", writer |-> "live"]
        /\ wr = [t \in Threads |-> NoFrame]
    BY DEF Init
  <2>2. /\ pc \in [Threads -> {"boot", "none", "live"}]
        /\ pc["main"] = "boot" /\ pc["exec"] = "none" /\ pc["writer"] = "live"
    BY SMTT(60), <2>1 DEF Threads
  <2> QED
    BY <2>1, <2>2, MainLabelFacts, ExecLabelFacts DEF Places, Threads, Labels
<1>2. Good(tracker) /\ tracker.role = "Runtime"
  <2>1. Good(NewTracker("Runtime", 64))
    BY NewIsGood DEF Roles
  <2> QED
    BY <2>1 DEF Init, NewTracker
<1>3. job \in Jobs /\ log \in Logs
  BY DEF Init, Jobs, NoJob, Logs, NewLog
<1>4. Calls
  <2>1. open \in [Target -> CallMethods \cup {NoMethod}] /\ call \in [Target -> CallStates]
    BY DEF Init, CallStates
  <2>2. pending \subseteq Target /\ spent \subseteq scene.targets /\ live \subseteq Target
    BY DEF Init
  <2>3. grants \in Registries
    BY EmptyType DEF Init
  <2> QED
    BY <2>1, <2>2, <2>3 DEF Calls
<1>5. Flags
  <2>1. 0 \in 0..QueueDepth
    BY SMTT(60), ServerAssumption
  <2> QED
    BY <2>1 DEF Init, Flags
<1> QED
  BY <1>1, <1>2, <1>3, <1>4, <1>5 DEF TypeOK

(* ... and every layer.                                                    *)
LEMMA LayersInit == Init => Layers
<1> SUFFICES ASSUME Init PROVE Layers
  OBVIOUS
<1>1. /\ Pc("main") = "boot" /\ Pc("exec") = "none" /\ Pc("writer") = "live"
      /\ \A t \in Threads : Stage(t) = "none"
      /\ Stage("main") = "none" /\ Stage("exec") = "none"
  BY DEF Init, Pc, Stage, NoFrame, Threads
<1> USE <1>1
<1>2. /\ \A id \in ReqId : Incoming[id] = NoMethod /\ Outgoing[id] = NoMethod
      /\ ~Down /\ ~Executing
  BY DEF Init, NewTracker, EmptyTable, Incoming, Outgoing, Down, Executing
<1>3. /\ job = NoJob /\ job.id = None /\ job.todo = {}
      /\ active = None /\ gate = None /\ pending = {} /\ live = {} /\ grants = EmptyRegistry
      /\ ~failed /\ ~disconnected
      /\ \A t \in Target : open[t] = NoMethod
  BY DEF Init, NoJob
<1> USE <1>3
<1>4. /\ log.owed = {} /\ ~log.doubled /\ ~log.honoured
      /\ log.cancels = {} /\ log.heard = {} /\ log.bitten = {}
  BY DEF Init, NewLog
<1>l. /\ "boot" \notin Starting \cup Ending \cup Handling
      /\ "none" \notin Running \cup Committing \cup Sending \cup Leaving \cup Unanswered
      /\ "none" \notin Counted \cup Counting
  BY DEF Starting, Ending, Handling, Running, Committing, Sending, Leaving, Unanswered,
     Counted, Counting
<1> USE <1>2, <1>4
<1>5. Control
  BY <1>l DEF Control, MainHolds, MainWrites, ExecHolds, ExecWrites
<1>6. Turns
  BY <1>l, NamesAssumption DEF Turns, Threads
<1>7. Failing /\ Severed
  BY DEF Failing, Severed
<1>8. Owing /\ Numbering /\ Honouring
  BY <1>l DEF Owing, Numbering, Honouring, Handling
<1>9. IdsAreFresh /\ Crossing
  BY ServerAssumption
     DEF IdsAreFresh, Known, Crossing, Withdrawing
<1>10. GrantedOnce /\ Biting
  <2>1. \A t \in Target : /\ ~Waits(grants, t) /\ ~Struck(grants, t)
                          /\ ~Bound(grants, t) /\ ~Queued(grants, t)
    BY DEF Waits, Struck, Bound, Queued, EmptyRegistry
  <2> QED
    BY <2>1 DEF GrantedOnce, Granted, Biting
<1>11. Waking
  BY ServerAssumption, NamesAssumption DEF Waking, Awaited, InFlight
<1>12. Drained /\ Settling /\ Finding
  BY DEF Drained, Settling, Finding
<1> QED
  BY <1>5, <1>6, <1>7, <1>8, <1>9, <1>10, <1>11, <1>12 DEF Layers

(* Every step keeps the invariant.                                         *)
LEMMA InvNext ==
  ASSUME Inv, [Next]_vars
  PROVE  Moves /\ Inv'
<1>1. TypeOK /\ Types /\ Layers /\ Control /\ MainHolds /\ ExecHolds
  BY TypesHold DEF Inv, Layers, Control
<1> USE <1>1
<1>2. Moves
  BY Steps
<1> USE <1>2
<1>3. TypeOK'
  BY TypesNext
<1>4. Layers'
  BY LayersNext
<1> QED
  BY <1>3, <1>4 DEF Inv

(* The invariant holds of a connection at all times, for any number of     *)
(* requests, calls and grants and any depth of the writer's queue.         *)
THEOREM Invariant == Spec => []Inv
<1>1. Init => Inv
  BY TypesInit, LayersInit DEF Inv
<1>2. Inv /\ [Next]_vars => Inv'
  BY InvNext
<1> QED
  BY <1>1, <1>2, PTL DEF Spec

(* A request of the host gets at most one response, whichever of main and  *)
(* exec answers it and however they interleave (write_result, write_error).*)
THEOREM AnsweredOnceHolds == Spec => []AnsweredOnce
<1>1. Inv => AnsweredOnce
  BY DEF Inv, Layers, Owing, AnsweredOnce
<1> QED
  BY <1>1, Invariant, PTL

(* The events of an execution reach the writer's queue in order, the       *)
(* terminal one before the response and nothing after it                   *)
(* (spawn_execution and its observer).                                     *)
THEOREM EventsInOrderHolds == Spec => EventsInOrder
<1> DEFINE Step ==
      /\ log'.seq # log.seq =>
           \/ log'.seq = 1 /\ ~log'.over
           \/ ~log.over /\ (log'.seq = log.seq + 1 \/ (log.seq = 1 /\ log'.seq = 3))
      /\ log'.result \notin {log.result, None} => log.over /\ log.result = None
<1>1. Inv /\ [Next]_vars => Step
  <2> SUFFICES ASSUME Inv, [Next]_vars PROVE Step
    OBVIOUS
  <2>1. Types /\ Control /\ Turns /\ Numbering
    BY TypesHold DEF Inv, Layers
  <2> HIDE DEF Step
  <2> QED
    BY <2>1, InvNext, EventsStep DEF Step
<1> HIDE DEF Step
<1>2. [][Step]_vars => EventsInOrder
  BY PTL DEF Step, EventsInOrder
<1> QED
  BY <1>1, <1>2, Invariant, PTL DEF Spec

(* A cancellation the session accepted decides the result the host sees    *)
(* (the commit gate of spawn_execution, the Cancel arm of run_connection). *)
THEOREM CancelHonouredHolds == Spec => []CancelHonoured
<1>1. Inv => CancelHonoured
  BY DEF Inv, Layers, Honouring, CancelHonoured
<1> QED
  BY <1>1, Invariant, PTL

(* No Cancel is sent for a call whose response was accepted                *)
(* (cancel_outbound_request, complete_response).                           *)
THEOREM CancelNeverCrossedHolds == Spec => []CancelNeverCrossed
<1>1. Inv => CancelNeverCrossed
  BY DEF Inv, Layers, Crossing, CancelNeverCrossed
<1> QED
  BY <1>1, Invariant, PTL

(* A revoked handle that is live is queued for the runtime to drop, also   *)
(* when the revocation came before the handle was issued (grants.rs).      *)
THEOREM RevocationBitesHolds == Spec => []RevocationBites
<1>1. Inv => RevocationBites
  BY DEF Inv, Layers, Biting, Queued, TypeOK, Calls, RevocationBites
<1> QED
  BY <1>1, Invariant, PTL

(* Once the connection has failed and fail_connection has returned, no     *)
(* call waits for an answer that cannot come (fail_all, request).          *)
THEOREM FailureWakesCallsHolds == Spec => []FailureWakesCalls
<1>1. Inv => FailureWakesCalls
  BY DEF Inv, Layers, Waking, Wakes, Stage, InFlight, FailureWakesCalls
<1> QED
  BY <1>1, Invariant, PTL

(* While main waits for input and no execution runs, nothing of an earlier *)
(* request is left anywhere (spawn_execution, finish_failed_request).      *)
THEOREM NothingLeftBehindHolds == Spec => []NothingLeftBehind
<1>1. ASSUME Inv, At("main", "recv"), pc["exec"] = "none", ~disconnected
      PROVE  /\ log.owed = {}
             /\ Active(tracker.incoming) = {} /\ Active(tracker.outgoing) = {}
             /\ tracker.cancelled_incoming = {}
             /\ pending = {} /\ live = {} /\ grants.revoked = {}
             /\ active = None /\ ~tracker.active_execution
  <2>1. /\ Layers /\ log \in Logs /\ Calls /\ Flags /\ Good(tracker) /\ ExecHolds
        /\ job = NoJob /\ job.id = None /\ job.todo = {}
    <3>1. NoJob.id = None /\ NoJob.todo = {}
      BY SMTT(60) DEF NoJob
    <3> QED
      BY <1>1, <3>1 DEF Inv, TypeOK, Layers, Control, ExecHolds, Pc
  <2> USE <2>1
  <2>2. Is("main", "recv") /\ Pc("exec") = "none"
    BY <1>1, Tells DEF Pc
  <2> USE <2>2
  <2>3. /\ "recv" \notin Starting \cup Ending \cup Handling
        /\ "none" \notin Running \cup Unanswered
    BY DEF Starting, Ending, Handling, Running, Sending, Leaving, Unanswered
  <2> USE <2>3
  <2>4. Up
    BY <1>1 DEF Up, Is
  <2>5. pending = {} /\ grants.revoked = {}
    BY SMTT(60) DEF Layers, Drained, EmptyRegistry
  <2>6. live = {}
    BY DEF Layers, Biting, Calls
  <2> USE <2>4
  <2>7. log.owed = {}
    BY DEF Layers, Settling, OwedBy, Is, Logs
  <2>8. \A id \in ReqId : Incoming[id] = NoMethod
    BY DEF Layers, Settling, SettledBy, Is
  <2> USE <2>5, <2>8
  <2>9. \A id \in ReqId : Outgoing[id] = NoMethod
    BY DEF Layers, Finding, Found
  <2>10. Active(tracker.incoming) = {} /\ Active(tracker.outgoing) = {}
    BY <2>9 DEF Active, Incoming, Outgoing, Good, Trackers
  <2>11. tracker.cancelled_incoming = {}
    BY DEF Good, Scoped, Active, Incoming, Trackers
  <2>12. active = None /\ ~tracker.active_execution
    BY DEF Layers, Turns, Is, Executing
  <2> QED
    BY <2>6, <2>7, <2>10, <2>11, <2>12
<1>2. Inv => NothingLeftBehind
  BY <1>1 DEF NothingLeftBehind
<1> QED
  BY <1>2, Invariant, PTL
=============================================================================
