------------------------- MODULE ServerLayerProofs --------------------------
(***************************************************************************)
(* Every layer of the invariant of a JOSH connection (ServerMoves)         *)
(* survives a step in the table Moves.                                     *)
(***************************************************************************)
EXTENDS ServerMoves, TLAPS

(* The provers are given up to a minute for a leaf.                        *)
USE ZenonT(60)

-----------------------------------------------------------------------------
(***************************************************************************)
(* main's and exec's stacks fit their labels.                              *)
(***************************************************************************)
LEMMA ControlNext ==
  ASSUME Types, Control, Turns, Moves
  PROVE  Control'
<1> USE DEF Is, To, Takes, Carries, SameWrite, Still, Kept
<1>a. /\ open \in [Target -> CallMethods \cup {NoMethod}] /\ spent \subseteq scene.targets
      /\ "tool/invoke" \in CallMethods /\ "permission/request" \in CallMethods
      /\ None \notin Target /\ job.todo \subseteq Target
  BY ServerAssumption, NamesAssumption DEF Types, Calls, CallMethods, Jobs
<1>b. ASSUME Still("main"), msg' = msg PROVE MainHolds' /\ MainWrites'
  BY <1>b DEF Control, MainHolds, MainWrites
<1>c. ASSUME Still("exec"), UNCHANGED <<job, spent, scene>> PROVE ExecHolds'
  BY <1>c DEF Control, ExecHolds
<1>d. ASSUME Still("exec"), UNCHANGED <<job, spent, scene>> PROVE ExecWrites'
  BY SMTT(60), <1>d DEF Control, ExecWrites
<1>1. CASE ByMain
  <2>1. MainHolds'
    BY <1>1 DEF ByMain, MainMoves, Control, MainHolds, Starting
  <2>2. MainWrites'
    BY <1>1 DEF ByMain, MainMoves, Control, MainHolds, MainWrites
  <2>3. ExecHolds' /\ ExecWrites'
    BY <1>1, <1>c, <1>d DEF ByMain, MainFrame
  <2> QED
    BY <2>1, <2>2, <2>3 DEF Control
<1>2. CASE ByMainWrite
  <2>1. MainHolds'
    BY <1>2
       DEF ByMainWrite, WriteMoves, FailMoves, Control, MainHolds, MainWrites,
           Starting
  <2>2. MainWrites'
    BY <1>2 DEF ByMainWrite, WriteMoves, FailMoves, Control, MainWrites
  <2>3. ExecHolds' /\ ExecWrites'
    BY <1>2, <1>c, <1>d DEF ByMainWrite, MainFrame
  <2> QED
    BY <2>1, <2>2, <2>3 DEF Control
<1>3. CASE SpawnMoves
  <2>1. MainHolds' /\ MainWrites'
    BY <1>3 DEF SpawnMoves, MainHolds, MainWrites, Starting
  <2>2. ExecHolds' /\ ExecWrites'
    <3>1. Stage("exec") = "none"
      BY <1>3 DEF SpawnMoves, Turns, Starting, Control, ExecWrites
    <3> QED
      BY <1>3, <3>1, <1>a
         DEF SpawnMoves, Control, MainHolds, ExecHolds, ExecWrites, Starting,
             Sending, Leaving, Committing
  <2> QED
    BY <2>1, <2>2 DEF Control
<1>4. CASE ByExec
  <2>1. MainHolds' /\ MainWrites'
    BY <1>4, <1>b DEF ByExec, ExecFrame
  <2>2. CASE \/ ExecMoves!BeginRun \/ ExecMoves!ObserverEvent \/ ExecMoves!AfterEvent
             \/ ExecMoves!UseHandle \/ ExecMoves!StartCall \/ ExecMoves!Announced
             \/ ExecMoves!InsertPending
    <3>1. ExecHolds'
      BY <1>4, <1>a, <2>2
         DEF ByExec, ExecFrame, Control, ExecHolds, Sending, Leaving, Committing,
             ChangesJob, Results, NoJob, SameShared, SameCalls
    <3>2. ExecWrites'
      BY <1>4, <1>a, <2>2
         DEF ByExec, ExecFrame, Control, ExecHolds, ExecWrites, Sending, Leaving,
             Committing, ChangesJob, SameShared, SameCalls
    <3> QED
      BY <2>1, <3>1, <3>2 DEF Control
  <2>3. CASE \/ ExecMoves!RegisterOutgoing \/ ExecMoves!CallSent \/ ExecMoves!UndoCall
             \/ ExecMoves!CallFailed \/ ExecMoves!DropCall \/ ExecMoves!WithdrawCall
             \/ ExecMoves!CallWithdrawn
    <3>1. ExecHolds'
      BY <1>4, <1>a, <2>3
         DEF ByExec, ExecFrame, Control, ExecHolds, Sending, Leaving, Committing,
             ChangesJob, Results, NoJob, SameShared, SameCalls
    <3>2. ExecWrites'
      BY <1>4, <1>a, <2>3
         DEF ByExec, ExecFrame, Control, ExecHolds, ExecWrites, Sending, Leaving,
             Committing, ChangesJob, SameShared, SameCalls
    <3> QED
      BY <2>1, <3>1, <3>2 DEF Control
  <2>4. CASE \/ ExecMoves!ToolAnswered \/ ExecMoves!PermissionAnswered
    <3>1. ExecHolds'
      BY <1>4, <1>a, <2>4
         DEF ByExec, ExecFrame, Control, ExecHolds, Sending, Leaving, Committing,
             ChangesJob, Results, NoJob, SameShared, SameCalls
    <3>2. ExecWrites'
      BY <1>4, <1>a, <2>4
         DEF ByExec, ExecFrame, Control, ExecHolds, ExecWrites, Sending, Leaving,
             Committing, ChangesJob, SameShared, SameCalls
    <3> QED
      BY <2>1, <3>1, <3>2 DEF Control
  <2>5. CASE \/ ExecMoves!LoseProvider \/ ExecMoves!AllowGrant \/ ExecMoves!IssueGrant
             \/ ExecMoves!FinishRun \/ ExecMoves!DrainPending \/ ExecMoves!ClearGrants
             \/ ExecMoves!TakeGate
    <3>1. ExecHolds'
      BY <1>4, <1>a, <2>5
         DEF ByExec, ExecFrame, Control, ExecHolds, Sending, Leaving, Committing,
             ChangesJob, Results, NoJob, SameShared, SameCalls
    <3>2. ExecWrites'
      BY <1>4, <1>a, <2>5
         DEF ByExec, ExecFrame, Control, ExecHolds, ExecWrites, Sending, Leaving,
             Committing, ChangesJob, SameShared, SameCalls
    <3> QED
      BY <2>1, <3>1, <3>2 DEF Control
  <2>6. CASE ExecMoves!DrainNext
    <3>1. ExecHolds'
      BY <1>4, <1>a, <2>6
         DEF ByExec, ExecFrame, Control, ExecHolds, Sending, Leaving, Committing,
             ChangesJob, Results, NoJob, SameShared, SameCalls
    <3>2. ExecWrites'
      BY <1>4, <1>a, <2>6
         DEF ByExec, ExecFrame, Control, ExecHolds, ExecWrites, Sending, Leaving,
             Committing, ChangesJob, SameShared, SameCalls
    <3> QED
      BY <2>1, <3>1, <3>2 DEF Control
  <2>7. CASE \/ ExecMoves!DecideResult \/ ExecMoves!Respond \/ ExecMoves!SettleExecution
    <3>1. ExecHolds'
      BY <1>4, <1>a, <2>7
         DEF ByExec, ExecFrame, Control, ExecHolds, Sending, Leaving, Committing,
             ChangesJob, Results, NoJob, SameShared, SameCalls
    <3>2. ExecWrites'
      BY <1>4, <1>a, <2>7
         DEF ByExec, ExecFrame, Control, ExecHolds, ExecWrites, Sending, Leaving,
             Committing, ChangesJob, SameShared, SameCalls
    <3> QED
      BY <2>1, <3>1, <3>2 DEF Control
  <2>8. CASE ExecMoves!EndExecution
    <3>1. Is("exec", "fin2") /\ To("exec", "none") /\ job' = NoJob
      BY <2>8
    <3>2. job'.todo = {} /\ job'.id = None
      BY <3>1 DEF NoJob
    <3>3. ExecHolds' /\ ExecWrites'
      BY <3>1, <3>2 DEF ExecHolds, ExecWrites, Sending, Leaving, Committing
    <3> QED
      BY <2>1, <3>3 DEF Control
  <2> QED
    BY <1>4, <2>2, <2>3, <2>4, <2>5, <2>6, <2>7, <2>8 DEF ByExec, ExecMoves
<1>5. CASE ByExecWrite
  <2>1. MainHolds' /\ MainWrites'
    BY <1>5, <1>b DEF ByExecWrite, ExecFrame
  <2>2. ExecHolds'
    BY <1>5, <1>a
       DEF ByExecWrite, WriteMoves, FailMoves, ExecFrame, Control, ExecHolds,
           ExecWrites, Sending, Leaving, Committing, SameShared
  <2>3. ExecWrites'
    <3>1. \/ Stage("exec")' = "none"
          \/ /\ Stage("exec") # "none" /\ Pc("exec")' = Pc("exec") /\ Err("exec")' = Err("exec")
             /\ SameWrite("exec") /\ UNCHANGED <<job, spent, scene>>
      BY <1>5 DEF ByExecWrite, WriteMoves, FailMoves, ExecFrame, SameShared
    <3> QED
      BY SMTT(60), <3>1 DEF Control, ExecWrites
  <2> QED
    BY <2>1, <2>2, <2>3 DEF Control
<1>6. CASE ByWriter
  BY <1>6, <1>b, <1>c, <1>d DEF ByWriter, WriterFrame, Control
<1>7. CASE ByNone
  BY <1>7, <1>b, <1>c, <1>d DEF ByNone, Control, SameShared
<1> QED
  BY <1>1, <1>2, <1>3, <1>4, <1>5, <1>6, <1>7 DEF Moves

-----------------------------------------------------------------------------
(***************************************************************************)
(* One thread at a time has the execution.                                 *)
(***************************************************************************)
LEMMA TurnsNext ==
  ASSUME Types, Control, Turns, Moves
  PROVE  Turns'
<1> USE DEF Is, To, Takes, Carries, SameWrite, Still, Kept
<1>a. /\ None \notin HostIds /\ None # "exec"
  BY NamesAssumption DEF HostIds, Threads
<1>1. CASE ByMain
  <2>1. CASE MainMoves!PrepareExecution
    BY <1>1, <1>a, <2>1
       DEF ByMain, MainFrame, Control, MainHolds, ExecHolds, Turns, Starting,
           Ending, SameShared, SameTracker, SamePhases, SameFlags, SameFailure
  <2>2. CASE \/ MainMoves!StartExecution \/ MainMoves!UndoStart
    BY <1>1, <1>a, <2>2
       DEF ByMain, MainFrame, Control, MainHolds, Turns, Starting, Ending,
           SameShared, SameTracker, SamePhases, SameFlags, SameFailure
  <2>3. CASE MainMoves!EndConnection
    BY <1>1, <1>a, <2>3
       DEF ByMain, MainFrame, Control, MainHolds, Turns, Starting, Ending,
           SameShared, SameTracker, SamePhases, SameFlags, SameFailure
  <2>4. CASE \/ MainMoves!ReceiveEnd \/ MainMoves!ReceiveRequest
             \/ MainMoves!ReceiveResponse \/ MainMoves!ReceiveCancel
             \/ MainMoves!ReceiveRevoke \/ MainMoves!Boot \/ MainMoves!PollInput
             \/ MainMoves!CompleteCall
    BY <1>1, <1>a, <2>4
       DEF ByMain, MainFrame, Control, MainHolds, Turns, Starting, Ending,
           SameShared, SameTracker, SamePhases, SameFlags, SameFailure
  <2>5. CASE \/ MainMoves!CancelExecution \/ MainMoves!RevokeGrant \/ MainMoves!HandleSetup
             \/ MainMoves!CommitSetup \/ MainMoves!CommitRefusal
    BY <1>1, <1>a, <2>5
       DEF ByMain, MainFrame, Control, MainHolds, Turns, Starting, Ending,
           SameShared, SameTracker, SamePhases, SameFlags, SameFailure
  <2> QED
    BY <1>1, <2>1, <2>2, <2>3, <2>4, <2>5 DEF ByMain, MainMoves
<1>2. CASE ByMainWrite
  BY <1>2, <1>a
     DEF ByMainWrite, WriteMoves, FailMoves, MainFrame, Control, MainWrites, Turns,
         Starting, Ending, SameShared, SameTracker, SamePhases, SameFlags,
         SameFailure
<1>3. CASE SpawnMoves
  BY <1>3, <1>a
     DEF SpawnMoves, Control, MainHolds, Turns, Starting, Ending, Committing,
         SameShared, SameTracker, SamePhases, SameFlags, SameFailure
<1>4. CASE ByExec
  BY <1>4, <1>a
     DEF ByExec, ExecMoves, ExecFrame, Control, ExecHolds, Turns, Starting, Ending,
         Committing, ChangesJob, SameShared, SameTracker, SamePhases, SameFlags,
         SameFailure
<1>5. CASE ByExecWrite
  BY <1>5, <1>a
     DEF ByExecWrite, WriteMoves, FailMoves, ExecFrame, Control, ExecWrites, Turns,
         Starting, Ending, Committing, SameShared, SameTracker, SamePhases,
         SameFlags, SameFailure
<1>6. CASE ByWriter
  BY <1>6
     DEF ByWriter, DeliverMoves, FailMoves, WriterFrame, Turns, SameShared,
         SameTracker, SamePhases, SameFlags, SameFailure
<1>7. CASE ByNone
  BY <1>7 DEF ByNone, Turns, SameShared, SameTracker, SamePhases, SameFlags, SameFailure
<1> QED
  BY <1>1, <1>2, <1>3, <1>4, <1>5, <1>6, <1>7 DEF Moves

-----------------------------------------------------------------------------
(***************************************************************************)
(* The failure of the connection shows in the flags first.                 *)
(***************************************************************************)
LEMMA FailingNext ==
  ASSUME Types, Control, Failing, Moves
  PROVE  Failing'
<1> USE DEF Is, To, Takes, Carries, SameWrite, Still, Kept
<1>a. "main" \in Threads /\ "exec" \in Threads /\ "writer" \in Threads
  BY DEF Threads
<1>b. \A t \in Threads : t = "main" \/ t = "exec" \/ t = "writer"
  BY DEF Threads
<1>1. CASE ByMain
  <2>1. (failed' <=> failed)
    BY <1>1
       DEF ByMain, MainMoves, SameShared, SameTracker, SamePhases, SameFlags,
           SameFailure
  <2>2. disconnected => disconnected'
    BY <1>1
       DEF ByMain, MainMoves, SameShared, SameTracker, SamePhases, SameFlags,
           SameFailure
  <2>3. Stage("main")' = "none" \/ Stage("main")' = "check"
    BY <1>1 DEF ByMain, MainMoves
  <2>4. Down' => (Down /\ Pc("main") # "done") \/ Pc("main")' = "done"
    BY <1>1
       DEF ByMain, MainMoves, SameShared, SameTracker, SamePhases, SameFlags,
           SameFailure
  <2>5. Pc("main")' \in {"ret_cancel", "ret_join", "ret_clear", "ret_tracker", "done"} =>
          disconnected'
    BY <1>1, <2>2 DEF ByMain, MainMoves, Failing
  <2>6. Pc("main")' \in {"unstart", "unstart2"} => disconnected'
    BY <1>1, <2>2 DEF ByMain, MainMoves, Failing
  <2> QED
    BY <1>1, <1>a, <1>b, <2>1, <2>2, <2>3, <2>4, <2>5, <2>6
       DEF ByMain, MainFrame, Failing
<1>2. CASE ByMainWrite
  <2>1. (failed => failed') /\ (failed' => disconnected') /\ (disconnected => disconnected')
    BY <1>2
       DEF ByMainWrite, WriteMoves, FailMoves, SameShared, SameTracker, SamePhases,
           SameFlags, SameFailure, Failing
  <2>2. Stage("main")' \in {"cancel", "failall", "disconnect"} => failed'
    BY <1>2, <1>a
       DEF ByMainWrite, WriteMoves, FailMoves, SameShared, SameTracker, SamePhases,
           SameFlags, SameFailure, Failing
  <2>3. Down' => Down \/ failed'
    BY <1>2, <1>a
       DEF ByMainWrite, WriteMoves, FailMoves, SameShared, SameTracker, SamePhases,
           SameFlags, SameFailure, Failing
  <2>4. Pc("main")' \in {"unstart", "unstart2"} => disconnected'
    BY <1>2, <1>a
       DEF ByMainWrite, WriteMoves, FailMoves, SameShared, SameTracker, SamePhases,
           SameFlags, SameFailure, Control, MainWrites, Failing
  <2>5. Pc("main") # "done" /\ Pc("main")' \notin {"ret_cancel", "ret_join", "ret_clear",
          "ret_tracker", "done"}
    BY <1>2, <1>a
       DEF ByMainWrite, WriteMoves, FailMoves, SameShared, SameTracker, SamePhases,
           SameFlags, SameFailure, Control, MainWrites, Failing
  <2> QED
    BY <1>2, <1>a, <1>b, <2>1, <2>2, <2>3, <2>4, <2>5
       DEF ByMainWrite, MainFrame, Failing
<1>3. CASE SpawnMoves
  BY <1>3, <1>a, <1>b
     DEF SpawnMoves, Failing, SameShared, SameTracker, SamePhases, SameFlags,
         SameFailure
<1>4. CASE ByExec
  <2>1. /\ (failed' <=> failed) /\ (disconnected' <=> disconnected) /\ (Down' <=> Down)
        /\ Stage("exec")' = "none" \/ Stage("exec")' = "check"
        /\ Pc("exec")' = "fin1" => disconnected
    BY <1>4
       DEF ByExec, ExecMoves, Failing, SameShared, SameTracker, SamePhases,
           SameFlags, SameFailure
  <2> QED
    BY <1>4, <1>a, <1>b, <2>1 DEF ByExec, ExecFrame, Failing
<1>5. CASE ByExecWrite
  <2>1. (failed => failed') /\ (failed' => disconnected') /\ (disconnected => disconnected')
    BY <1>5
       DEF ByExecWrite, WriteMoves, FailMoves, SameShared, SameTracker, SamePhases,
           SameFlags, SameFailure, Failing
  <2>2. Stage("exec")' \in {"cancel", "failall", "disconnect"} => failed'
    BY <1>5, <1>a
       DEF ByExecWrite, WriteMoves, FailMoves, SameShared, SameTracker, SamePhases,
           SameFlags, SameFailure, Failing
  <2>3. Down' => Down \/ failed'
    BY <1>5, <1>a
       DEF ByExecWrite, WriteMoves, FailMoves, SameShared, SameTracker, SamePhases,
           SameFlags, SameFailure, Failing
  <2>4. Pc("exec")' = "fin1" => disconnected'
    BY <1>5, <1>a
       DEF ByExecWrite, WriteMoves, FailMoves, SameShared, SameTracker, SamePhases,
           SameFlags, SameFailure, Control, ExecWrites, Failing
  <2> QED
    BY <1>5, <1>a, <1>b, <2>1, <2>2, <2>3, <2>4 DEF ByExecWrite, ExecFrame, Failing
<1>6. CASE ByWriter
  BY <1>6, <1>a, <1>b
     DEF ByWriter, DeliverMoves, FailMoves, WriterFrame, Failing, SameShared,
         SameTracker, SamePhases, SameFlags, SameFailure
<1>7. CASE ByNone
  BY <1>7
     DEF ByNone, Failing, SameShared, SameTracker, SamePhases, SameFlags,
         SameFailure, Threads
<1> QED
  BY <1>1, <1>2, <1>3, <1>4, <1>5, <1>6, <1>7 DEF Moves

-----------------------------------------------------------------------------
(***************************************************************************)
(* exec enqueues a frame on a connection it has not failed itself.         *)
(***************************************************************************)
LEMMA SeveredNext ==
  ASSUME Types, Control, Failing, Severed, Moves
  PROVE  Severed'
<1> USE DEF Is, To, Takes, Carries, SameWrite, Still, Kept
<1>1. CASE ByMain
  <2>1. Down' => Down \/ Pc("main")' = "done"
    BY <1>1
       DEF ByMain, MainMoves, SameShared, SameTracker, SamePhases, SameCalls,
           SameGrants, SameFlags, SameFailure
  <2>2. Pc("main") \in Ending \cup {"unstart", "unstart2"} =>
          Pc("main")' \in Ending \cup {"unstart", "unstart2"}
    BY <1>1 DEF ByMain, MainMoves, Ending
  <2> QED
    BY <1>1, <2>1, <2>2 DEF ByMain, MainFrame, Severed, Ending
<1>2. CASE ByMainWrite
  <2>1. Pc("main")' \in {"ret", "unstart"} \/ (Pc("main") \notin Ending \cup {"unstart",
          "unstart2"} /\ (Down' => Down))
    BY <1>2
       DEF ByMainWrite, WriteMoves, FailMoves, Control, MainWrites, Ending,
           SameShared, SameTracker, SamePhases, SameCalls, SameGrants, SameFlags,
           SameFailure
  <2> QED
    BY <1>2, <2>1 DEF ByMainWrite, MainFrame, Severed, Ending
<1>3. CASE SpawnMoves
  BY <1>3
     DEF SpawnMoves, Severed, Ending, SameShared, SameTracker, SamePhases,
         SameCalls, SameGrants, SameFlags, SameFailure
<1>4. CASE ByExec
  <2>1. Stage("exec")' = "none" \/ Stage("exec")' = "check"
    BY <1>4 DEF ByExec, ExecMoves
  <2> QED
    BY <2>1 DEF Severed
<1>5. CASE ByExecWrite
  <2>1. Stage("exec")' = "send" => (Down' <=> Down) /\ ~failed
    BY <1>5
       DEF ByExecWrite, WriteMoves, FailMoves, SameShared, SameTracker, SamePhases,
           SameCalls, SameGrants, SameFlags, SameFailure
  <2> QED
    BY <1>5, <2>1 DEF ByExecWrite, ExecFrame, Failing, Severed, Ending
<1>6. CASE ByWriter
  BY <1>6
     DEF Types, ByWriter, DeliverMoves, FailMoves, WriterFrame, Severed, SameShared,
         SameTracker, SamePhases, SameCalls, SameGrants, SameFlags, SameFailure
<1>7. CASE ByNone
  BY <1>7
     DEF ByNone, Severed, SameShared, SameTracker, SamePhases, SameCalls,
         SameGrants, SameFlags, SameFailure
<1> QED
  BY <1>1, <1>2, <1>3, <1>4, <1>5, <1>6, <1>7 DEF Moves

-----------------------------------------------------------------------------
(***************************************************************************)
(* Who owes an answer to a request.                                        *)
(***************************************************************************)
LEMMA OwingNext ==
  ASSUME Types, Control, Turns, Failing, Severed, Owing, Moves
  PROVE  Owing'
<1> USE DEF Is, To, Takes, Carries, SameWrite, Still, Kept
<1>a. \A i, j \in ReqId : \A m :
        [Incoming EXCEPT ![i] = m][j] = IF i = j THEN m ELSE Incoming[j]
  BY DEF Types
<1>b. /\ \A i \in HostIds : i \in ReqId
      /\ \A m \in HostMethods : m # NoMethod
  BY DEF HostIds, HostMethods, NoMethod
<1>c. Pc("exec") # "none" => job.req \in HostIds
  BY DEF Control, ExecHolds
<1>d. "none" \notin Unanswered /\ "fin2" \notin Unanswered
  BY DEF Unanswered, Running, Sending, Leaving
<1>1. CASE ByMain
  <2>1. CASE MainMoves!ReceiveRequest
    <3>2. CASE Pc("main")' = "handle"
      <4>1. /\ \A j \in ReqId : j # msg'.id => Incoming'[j] = Incoming[j]
            /\ Incoming'[msg'.id] # NoMethod /\ Incoming[msg'.id] = NoMethod /\ ~Down
            /\ msg'.id \in HostIds
            /\ ChangesLog({"owed"}) /\ log'.owed = log.owed \cup {msg'.id}
            /\ Stage("main")' = "none" /\ SamePhases
        <5>1. /\ msg'.id \in HostIds /\ msg'.method \in HostMethods
              /\ Incoming[msg'.id] = NoMethod /\ ~Down /\ Stage("main")' = "none"
              /\ Incoming' = [Incoming EXCEPT ![msg'.id] = msg'.method]
              /\ ChangesLog({"owed"}) /\ log'.owed = log.owed \cup {msg'.id} /\ SamePhases
          BY <2>1, <3>2
        <5> QED
          BY SMTT(60), <1>a, <1>b, <5>1
      <4> QED
        BY <1>1, <1>b, <1>c, <1>d, <3>2, <4>1
           DEF ByMain, MainFrame, Owing, Handling, ChangesLog, SamePhases
    <3>3. CASE Pc("main")' # "handle"
      BY <1>1, <1>b, <1>c, <1>d, <2>1, <3>3
         DEF ByMain, MainFrame, Owing, Failing, Handling, ChangesLog, SamePhases
    <3> QED
      BY <3>2, <3>3
  <2>2. CASE \/ MainMoves!HandleSetup \/ MainMoves!PrepareExecution
             \/ MainMoves!StartExecution
    <3>1. /\ log' = log /\ Incoming' = Incoming /\ (Down' <=> Down) /\ msg' = msg
          /\ Stage("main") = "none"
          /\ Pc("main")' \in Handling => Pc("main") \in {"handle", "prepared"}
          /\ Stage("main")' # "none" /\ Kind("main")' = "response" => For("main")' = msg.id /\
               Pc("main") = "handle"
      BY <2>2
         DEF Handling, SameShared, SameTracker, SamePhases, SameCalls, SameGrants,
             SameFlags, SameFailure
    <3> QED
      BY <1>1, <1>d, <3>1 DEF ByMain, MainFrame, Owing, Handling
  <2>3. CASE \/ MainMoves!CommitSetup \/ MainMoves!CommitRefusal
    <3>1. /\ Pc("main") \in Handling /\ Pc("main")' \notin Handling /\ log' = log /\ SamePhases
          /\ Incoming' = Incoming \/ Incoming' = [Incoming EXCEPT ![msg.id] = NoMethod]
          /\ msg.id \in HostIds /\ Stage("main")' = "none"
      BY <2>3 DEF Handling
    <3>2. \A j \in HostIds : j # msg.id => Incoming'[j] = Incoming[j]
      BY SMTT(60), <1>a, <1>b, <3>1
    <3> QED
      BY <1>1, <1>c, <1>d, <3>1, <3>2 DEF ByMain, MainFrame, Owing, Handling, SamePhases
  <2>4. CASE \/ MainMoves!ReceiveEnd \/ MainMoves!ReceiveResponse
             \/ MainMoves!ReceiveCancel \/ MainMoves!ReceiveRevoke \/ MainMoves!Boot
             \/ MainMoves!PollInput \/ MainMoves!CompleteCall \/ MainMoves!CancelExecution
             \/ MainMoves!RevokeGrant \/ MainMoves!UndoStart \/ MainMoves!EndConnection
    BY <1>1, <2>4
       DEF ByMain, MainFrame, Owing, Handling, Unanswered, ChangesLog, SameShared,
           SameTracker, SamePhases, SameCalls, SameGrants, SameFlags, SameFailure
  <2> QED
    BY <1>1, <2>1, <2>2, <2>3, <2>4 DEF ByMain, MainMoves
<1>2. CASE ByMainWrite
  <2>1. CASE WriteMoves("main")!Check
    BY <1>2, <2>1
       DEF ByMainWrite, MainFrame, Control, MainWrites, Owing, Failing, Handling,
           Unanswered, SameShared, SameTracker, SamePhases, SameCalls, SameGrants,
           SameFlags, SameFailure
  <2>2. CASE WriteMoves("main")!Send
    BY <1>2, <2>2
       DEF ByMainWrite, Enqueues, MainFrame, Control, MainWrites, Owing, Handling,
           Unanswered, ChangesLog, SameShared, SameTracker, SamePhases, SameCalls,
           SameGrants, SameFlags, SameFailure
  <2>3. CASE FailMoves("main")
    BY <1>2, <2>3
       DEF ByMainWrite, FailMoves, MainFrame, Control, MainWrites, Owing, Handling,
           Unanswered, SameShared, SameTracker, SamePhases, SameCalls, SameGrants,
           SameFlags, SameFailure
  <2> QED
    BY <1>2, <2>1, <2>2, <2>3 DEF ByMainWrite, WriteMoves
<1>3. CASE SpawnMoves
  BY <1>3, <1>c
     DEF SpawnMoves, Owing, Handling, Unanswered, SameShared, SameTracker,
         SamePhases, SameCalls, SameGrants, SameFlags, SameFailure
<1>4. CASE ByExec
  <2>1. /\ log' = log /\ (Down' <=> Down) /\ (failed' <=> failed) /\ Pc("exec") # "none"
        /\ Pc("exec")' \in Unanswered => Pc("exec") \in Unanswered
        /\ Pc("exec")' \notin {"none", "fin2"} => Pc("exec") # "fin2" /\ Incoming' = Incoming
    BY <1>4
       DEF ByExec, ExecMoves, Unanswered, Running, Sending, Leaving, SameShared,
           SameTracker, SamePhases, SameCalls, SameGrants, SameFlags, SameFailure
  <2>2. Pc("exec")' # "none" => job'.req = job.req
    BY <1>4 DEF ByExec, ExecMoves, ChangesJob
  <2>3. \A j \in HostIds : j # job.req => Incoming'[j] = Incoming[j]
    <3>1. Incoming' = Incoming \/ Incoming' = [Incoming EXCEPT ![job.req] = NoMethod]
      BY <1>4
         DEF ByExec, ExecMoves, SameShared, SameTracker, SamePhases, SameCalls,
             SameGrants, SameFlags, SameFailure
    <3> QED
      BY SMTT(60), <1>a, <1>b, <1>c, <2>1, <3>1
  <2>4. Pc("exec") = "fin2" => Incoming' = Incoming
    BY <1>4
       DEF ByExec, ExecMoves, SameShared, SameTracker, SamePhases, SameCalls,
           SameGrants, SameFlags, SameFailure
  <2>5. Pc("main") \in Handling => Incoming'[msg.id] = Incoming[msg.id]
    <3>1. Pc("main") \in Handling => msg.id \in HostIds
      BY DEF Control, MainHolds, Handling, Starting
    <3> QED
      BY <2>1, <2>3, <2>4, <3>1 DEF Owing
  <2> QED
    BY <1>4, <1>d, <2>1, <2>2, <2>5 DEF ByExec, ExecFrame, Owing
<1>5. CASE ByExecWrite
  <2>1. CASE WriteMoves("exec")!Send /\ Kind("exec") = "result"
    <3>1. Pc("exec") = "respond" /\ For("exec") = job.req /\ Ok("exec") = "settle"
      BY <2>1 DEF Control, ExecWrites
    <3>2. \/ /\ Pc("exec")' = "settle" /\ Pc("writer") = "live" /\ Stage("exec") = "send"
             /\ log'.owed = log.owed \ {job.req}
             /\ log'.doubled <=> log.doubled \/ job.req \notin log.owed
          \/ Pc("exec")' = Pc("exec") /\ log' = log
      BY <2>1, <3>1 DEF Enqueues
    <3>3. job' = job /\ Incoming' = Incoming /\ (Down' <=> Down) /\ (failed' <=> failed)
      BY <2>1
         DEF SameShared, SameTracker, SamePhases, SameCalls, SameGrants, SameFlags,
             SameFailure
    <3>4. Pc("exec") \in Unanswered /\ "settle" \notin Unanswered
      BY <3>1 DEF Unanswered, Running, Sending, Leaving
    <3>5. Stage("main") # "none" /\ Kind("main") = "response" =>
            Pc("main") \notin Ending \cup {"unstart", "unstart2"}
      BY DEF Control, MainWrites, Ending
    <3> QED
      BY <1>5, <3>1, <3>2, <3>3, <3>4, <3>5
         DEF ByExecWrite, ExecFrame, Owing, Severed, Handling
  <2>2. CASE ~(WriteMoves("exec")!Send /\ Kind("exec") = "result")
    <3>1. log'.owed = log.owed /\ (log'.doubled <=> log.doubled)
      BY <1>5, <2>2
         DEF ByExecWrite, WriteMoves, FailMoves, Enqueues, Control, ExecWrites,
             ChangesLog
    <3>2. /\ Pc("exec")' \in Unanswered => Pc("exec") \in Unanswered
          /\ Pc("exec") # "none" /\ Pc("exec") # "fin2" /\ job' = job
          /\ Down' \/ (Incoming' = Incoming /\ (Down => Down'))
          /\ Down => Down'
      BY <1>5
         DEF ByExecWrite, WriteMoves, FailMoves, Control, ExecWrites, Unanswered,
             Running, Sending, Leaving, SameShared, SameTracker, SamePhases,
             SameCalls, SameGrants, SameFlags, SameFailure
    <3> QED
      BY <1>5, <1>d, <3>1, <3>2 DEF ByExecWrite, ExecFrame, Owing
  <2> QED
    BY <2>1, <2>2
<1>6. CASE ByWriter
  BY <1>6
     DEF ByWriter, DeliverMoves, FailMoves, WriterFrame, Owing, SameShared,
         SameTracker, SamePhases, SameCalls, SameGrants, SameFlags, SameFailure
<1>7. CASE ByNone
  BY <1>7
     DEF ByNone, Owing, SameShared, SameTracker, SamePhases, SameCalls, SameGrants,
         SameFlags, SameFailure
<1> QED
  BY <1>1, <1>2, <1>3, <1>4, <1>5, <1>6, <1>7 DEF Moves

-----------------------------------------------------------------------------
(***************************************************************************)
(* The numbers of the events.                                              *)
(***************************************************************************)
LEMMA NumberingNext ==
  ASSUME Types, Control, Turns, Numbering, Moves
  PROVE  Numbering'
<1> USE DEF Is, To, Takes, Carries, SameWrite, Still, Kept
<1>a. /\ log.seq \in Nat /\ job.seq \in Nat
      /\ \A x : x \in Unanswered <=> x \in Counted \/ x \in Counting \/ x = "start" \/ x = "respond"
      /\ \A x \in Counted \cup Counting :
           x # "none" /\ x # "start" /\ x # "respond" /\ x # "settle" /\ x # "fin1" /\ x # "fin2"
      /\ \A x \in Counted : x \notin Counting
  BY DEF Types, Logs, Jobs, Counted, Counting, Unanswered, Running, Sending, Leaving
<1>1. CASE ByMain
  <2>1. log'.seq = log.seq /\ (log'.over <=> log.over) /\ log'.result = log.result
    BY <1>1 DEF ByMain, MainMoves, ChangesLog
  <2>2. Pc("main")' # "spawn"
    BY <1>1 DEF ByMain, MainMoves
  <2> QED
    BY <1>1, <2>1, <2>2 DEF ByMain, MainFrame, Numbering
<1>2. CASE ByMainWrite
  <2>1. CASE Pc("main")' = "spawn"
    BY <1>2, <2>1
       DEF ByMainWrite, WriteMoves, FailMoves, Enqueues, MainFrame, Control,
           MainWrites, Turns, Starting, Numbering, Unanswered, Counting, Counted,
           Running, Sending, Leaving
  <2>2. CASE Pc("main")' # "spawn"
    <3>1. log'.seq = log.seq /\ (log'.over <=> log.over) /\ log'.result = log.result
      BY <1>2, <2>2
         DEF ByMainWrite, WriteMoves, FailMoves, Enqueues, Control, MainWrites,
             ChangesLog
    <3> QED
      BY <1>2, <2>2, <3>1 DEF ByMainWrite, MainFrame, Numbering
  <2> QED
    BY <2>1, <2>2
<1>3. CASE SpawnMoves
  BY SMTT(60), <1>3, <1>a DEF SpawnMoves, Numbering
<1>4. CASE ByExec
  <2>1. log' = log
    BY <1>4 DEF ByExec, ExecMoves
  <2>2. CASE ExecMoves!BeginRun
    <3>1. /\ Pc("exec") = "start" /\ Pc("exec")' \in {"drain", "run", "start"} /\ job'.seq = job.seq
      BY <2>2 DEF ChangesJob
    <3>2. job.seq = 3
      BY <3>1 DEF Control, ExecHolds
    <3>3. {"drain", "run"} \subseteq Counted
      BY DEF Counted, Counting, Running
    <3> QED
      BY <1>4, <1>a, <2>1, <3>1, <3>2, <3>3 DEF ByExec, ExecFrame, Numbering
  <2>3. CASE \/ ExecMoves!AfterEvent \/ ExecMoves!Announced \/ ExecMoves!AllowGrant
    <3>1. /\ \/ Pc("exec") \in Counting /\ job'.seq = job.seq + 1
             \/ Pc("exec") = "abort" /\ job'.seq = job.seq
          /\ Pc("exec")' \in {"run", "insert", "lose", "issue"}
      BY <2>3 DEF Counting
    <3>2. {"abort", "run", "insert", "lose", "issue"} \subseteq Counted
      BY DEF Counted, Counting, Running
    <3> QED
      BY SMTT(60), <1>4, <1>a, <2>1, <3>1, <3>2 DEF ByExec, ExecFrame, Numbering
  <2>4. CASE \/ ExecMoves!Respond \/ ExecMoves!SettleExecution \/ ExecMoves!EndExecution
    <3>1. \/ Pc("exec") = "respond" /\ Pc("exec")' = "respond" /\ job'.seq = job.seq
          \/ Pc("exec")' \in {"fin2", "none"}
      BY <2>4
    <3> QED
      BY <1>4, <1>a, <2>1, <3>1 DEF ByExec, ExecFrame, Numbering
  <2>5. CASE \/ ExecMoves!ObserverEvent \/ ExecMoves!UseHandle \/ ExecMoves!StartCall
             \/ ExecMoves!InsertPending \/ ExecMoves!RegisterOutgoing \/ ExecMoves!CallSent
             \/ ExecMoves!UndoCall \/ ExecMoves!CallFailed \/ ExecMoves!DropCall
             \/ ExecMoves!WithdrawCall \/ ExecMoves!CallWithdrawn \/ ExecMoves!ToolAnswered
             \/ ExecMoves!PermissionAnswered \/ ExecMoves!LoseProvider
             \/ ExecMoves!IssueGrant \/ ExecMoves!FinishRun \/ ExecMoves!DrainPending
             \/ ExecMoves!DrainNext \/ ExecMoves!ClearGrants \/ ExecMoves!TakeGate
             \/ ExecMoves!DecideResult
    <3>1. Pc("exec") \in Counted
      BY <2>5 DEF Counted, Counting, Running, Sending, Leaving
    <3>2. Pc("exec")' \in Counted \cup {"fin1"}
      BY <2>5 DEF Counted, Counting, Running, Sending, Leaving
    <3>3. job'.seq = job.seq
      BY <2>5 DEF ChangesJob
    <3> QED
      BY <1>4, <1>a, <2>1, <3>1, <3>2, <3>3 DEF ByExec, ExecFrame, Numbering
  <2> QED
    BY <1>4, <2>2, <2>3, <2>4, <2>5 DEF ByExec, ExecMoves
<1>5. CASE ByExecWrite
  <2> DEFINE sent == /\ Stage("exec") # "none" /\ Pc("exec")' = Ok("exec") /\ Enqueues("exec")
                     /\ Kind("exec") \in {"event", "terminal"}
  <2>0. job' = job /\ Pc("main")' # "spawn"
    BY <1>5
       DEF ByExecWrite, WriteMoves, FailMoves, ExecFrame, Control, ExecWrites,
           Turns, Starting
  <2>1. CASE sent
    <3>1. /\ Pc("exec")' = Ok("exec") /\ Pc("exec") \in Unanswered
          /\ Kind("exec") = "event" => Ok("exec") \in Counting \cup {"run"}
          /\ Kind("exec") = "terminal" => Ok("exec") = "respond"
      BY <2>1
         DEF Control, ExecWrites, Unanswered, Running, Sending, Leaving, Counting
    <3>2. \/ Pc("exec") = "start" /\ Number("exec") = 2 /\ Kind("exec") = "event" /\
               Ok("exec") = "run"
          \/ Pc("exec") \in Counted /\ Number("exec") = job.seq /\ Ok("exec") # "run"
      BY <2>1
         DEF Control, ExecWrites, Counted, Counting, Running, Sending, Leaving
    <3>3. /\ job.seq > 2 /\ log.result = None /\ ~log.over
          /\ Pc("exec") = "start" => job.seq = 3
      BY <1>a, <3>1, <3>2 DEF Numbering, Control, ExecHolds
    <3>4. Number("exec") # 1
      BY SMTT(60), <1>a, <3>2, <3>3
    <3>5. /\ log'.seq = Number("exec") /\ log'.result = log.result
          /\ log'.over <=> log.over \/ Kind("exec") = "terminal"
      BY <2>1, <3>4 DEF Enqueues, ChangesLog
    <3>6. "run" \in Counted
      BY DEF Counted, Counting, Running
    <3> QED
      BY SMTT(60), <1>5, <1>a, <2>0, <2>1, <3>1, <3>2, <3>3, <3>5, <3>6
         DEF ByExecWrite, ExecFrame, Numbering
  <2>2. CASE ~sent
    <3>1. /\ log'.seq = log.seq /\ (log'.over <=> log.over)
          /\ log'.result = log.result \/ Pc("exec")' = "settle"
      BY <1>5, <2>2
         DEF ByExecWrite, WriteMoves, FailMoves, Enqueues, Control, ExecWrites,
             ChangesLog
    <3>2. \/ Pc("exec")' = Pc("exec")
          \/ Pc("exec")' \in Counted /\ Pc("exec") \in Counted \cup {"start"}
          \/ Pc("exec")' \in {"settle", "fin1"}
      BY <1>5, <2>2
         DEF ByExecWrite, WriteMoves, FailMoves, Control, ExecWrites, Counted,
             Counting, Running, Sending, Leaving
    <3>3. Pc("exec") = "start" => job.seq = 3
      BY DEF Control, ExecHolds
    <3> QED
      BY <1>5, <1>a, <2>0, <3>1, <3>2, <3>3 DEF ByExecWrite, ExecFrame, Numbering
  <2> QED
    BY <2>1, <2>2
<1>6. CASE ByWriter
  BY <1>6 DEF ByWriter, WriterFrame, Numbering
<1>7. CASE ByNone
  BY <1>7 DEF ByNone, Numbering
<1> QED
  BY <1>1, <1>2, <1>3, <1>4, <1>5, <1>6, <1>7 DEF Moves

(***************************************************************************)
(* The events of an execution come in order, and the response after them.  *)
(***************************************************************************)
LEMMA EventsStep ==
  ASSUME Types, Control, Turns, Numbering, Moves
  PROVE  /\ log'.seq # log.seq =>
              \/ log'.seq = 1 /\ ~log'.over
              \/ ~log.over /\ (log'.seq = log.seq + 1 \/ (log.seq = 1 /\ log'.seq = 3))
         /\ log'.result \notin {log.result, None} => log.over /\ log.result = None
<1> USE DEF Is, To, Takes, Carries, SameWrite, Still, Kept
<1>a. /\ log.seq \in Nat /\ job.seq \in Nat
      /\ \A x : x \in Unanswered <=> x \in Counted \/ x \in Counting \/ x = "start" \/ x = "respond"
      /\ \A x \in Counted \cup Counting :
           x # "none" /\ x # "start" /\ x # "respond" /\ x # "settle" /\ x # "fin1" /\ x # "fin2"
      /\ \A x \in Counted : x \notin Counting
  BY DEF Types, Logs, Jobs, Counted, Counting, Unanswered, Running, Sending, Leaving
<1>1. CASE ByMain \/ SpawnMoves \/ ByExec \/ ByWriter \/ ByNone
  <2>1. log'.seq = log.seq /\ log'.result = log.result
    BY <1>1
       DEF ByMain, MainMoves, SpawnMoves, ByExec, ExecMoves, ByWriter, WriterFrame,
           ByNone, ChangesLog
  <2> QED
    BY <2>1
<1>2. CASE ByMainWrite
  <2>1. \/ log'.seq = 1 /\ ~log'.over /\ log'.result = None
        \/ log'.seq = log.seq /\ log'.result = log.result
    BY <1>2
       DEF ByMainWrite, WriteMoves, FailMoves, Enqueues, Control, MainWrites,
           ChangesLog
  <2> QED
    BY <2>1
<1>3. CASE ByExecWrite
  <2> DEFINE sent == /\ Stage("exec") # "none" /\ Pc("exec")' = Ok("exec") /\ Enqueues("exec")
                     /\ Kind("exec") \in {"event", "terminal"}
  <2>0. job' = job
    BY <1>3 DEF ByExecWrite, WriteMoves, FailMoves
  <2>1. CASE sent
    <3>1. /\ Pc("exec")' = Ok("exec") /\ Pc("exec") \in Unanswered
          /\ Kind("exec") = "event" => Ok("exec") \in Counting \cup {"run"}
          /\ Kind("exec") = "terminal" => Ok("exec") = "respond"
      BY <2>1
         DEF Control, ExecWrites, Unanswered, Running, Sending, Leaving, Counting
    <3>2. \/ Pc("exec") = "start" /\ Number("exec") = 2 /\ Kind("exec") = "event" /\
               Ok("exec") = "run"
          \/ Pc("exec") \in Counted /\ Number("exec") = job.seq /\ Ok("exec") # "run"
      BY <2>1
         DEF Control, ExecWrites, Counted, Counting, Running, Sending, Leaving
    <3>3. /\ job.seq > 2 /\ log.result = None /\ ~log.over
          /\ Pc("exec") = "start" => job.seq = 3
      BY <1>a, <3>1, <3>2 DEF Numbering, Control, ExecHolds
    <3>4. Number("exec") # 1
      BY SMTT(60), <1>a, <3>2, <3>3
    <3>5. /\ log'.seq = Number("exec") /\ log'.result = log.result
          /\ log'.over <=> log.over \/ Kind("exec") = "terminal"
      BY <2>1, <3>4 DEF Enqueues, ChangesLog
    <3> QED
      BY SMTT(60), <1>a, <3>2, <3>3, <3>5 DEF Numbering
  <2>2. CASE ~sent
    <3>1. /\ log'.seq = log.seq
          /\ log'.result = log.result \/ Pc("exec") = "respond"
      BY <1>3, <2>2
         DEF ByExecWrite, WriteMoves, FailMoves, Enqueues, Control, ExecWrites,
             ChangesLog
    <3> QED
      BY <1>a, <3>1 DEF Numbering
  <2> QED
    BY <2>1, <2>2
<1> QED
  BY <1>1, <1>2, <1>3 DEF Moves

-----------------------------------------------------------------------------
(***************************************************************************)
(* An accepted cancellation decides the result.                            *)
(***************************************************************************)
LEMMA HonouringNext ==
  ASSUME Types, Control, Turns, Numbering, Honouring, Moves
  PROVE  Honouring'
<1> USE DEF Is, To, Takes, Carries, SameWrite, Still, Kept
<1>a. None \notin HostIds /\ None # "exec"
  BY NamesAssumption DEF HostIds, Threads
<1>b. Pc("exec") \notin Committing \cup {"none"} => Pc("exec") \in Unanswered
  BY DEF Types, ExecLabels, Committing, Unanswered, Running, Sending, Leaving
<1>1. CASE ByMain
  <2>1. CASE MainMoves!CancelExecution /\ active = msg.id
    <3>1. /\ Pc("exec") \in Unanswered /\ Pc("exec") \notin Committing /\ cancelled'
          /\ log'.result = log.result /\ Pc("main")' # "spawn"
      <4>1. /\ Is("main", "cancel") /\ To("main", "idle") /\ gate = None
            /\ cancelled' /\ log'.result = log.result
        BY <2>1 DEF ChangesLog
      <4>2. msg.id \in HostIds
        BY <4>1 DEF Control, MainHolds
      <4> QED
        BY <1>a, <1>b, <2>1, <4>1, <4>2 DEF Turns, Starting, Ending
    <3> QED
      BY <1>1, <2>1, <3>1 DEF ByMain, MainFrame, Honouring, Numbering, Committing
  <2>2. CASE ~(MainMoves!CancelExecution /\ active = msg.id)
    <3>1. /\ log'.honoured <=> log.honoured
          /\ log'.result = log.result /\ Pc("main")' # "spawn"
      BY <1>1, <2>2 DEF ByMain, MainMoves, ChangesLog
    <3>2. cancelled => cancelled' \/ Pc("exec") = "none"
      BY <1>1, <1>a
         DEF ByMain, MainMoves, Control, ExecHolds, Turns, SameShared, SameTracker,
             SamePhases, SameCalls, SameGrants, SameFlags, SameFailure
    <3>3. "none" \notin Unanswered
      BY DEF Unanswered, Running, Sending, Leaving
    <3> QED
      BY <1>1, <3>1, <3>2, <3>3 DEF ByMain, MainFrame, Honouring
  <2> QED
    BY <2>1, <2>2
<1>2. CASE ByMainWrite
  <2>1. \/ ~log'.honoured
        \/ /\ log'.honoured <=> log.honoured
           /\ log'.result = log.result /\ Pc("main")' # "spawn"
    BY <1>2
       DEF ByMainWrite, WriteMoves, FailMoves, Enqueues, Control, MainWrites,
           ChangesLog
  <2>2. cancelled => cancelled'
    BY <1>2
       DEF ByMainWrite, WriteMoves, FailMoves, SameShared, SameTracker, SamePhases,
           SameCalls, SameGrants, SameFlags, SameFailure
  <2> QED
    BY <1>2, <2>1, <2>2 DEF ByMainWrite, MainFrame, Honouring
<1>3. CASE SpawnMoves
  BY <1>3 DEF SpawnMoves, Honouring
<1>4. CASE ByExec
  <2> SUFFICES ASSUME log.honoured PROVE Honouring'
    BY <1>4 DEF ByExec, ExecMoves, Honouring
  <2>1. log' = log /\ Pc("main")' = Pc("main")
    BY <1>4 DEF ByExec, ExecMoves, ExecFrame
  <2>2. CASE ExecMoves!DecideResult
    BY <2>1, <2>2
       DEF Honouring, Unanswered, Committing, Running, Sending, Leaving, SameShared,
           SameTracker, SamePhases, SameCalls, SameGrants, SameFlags, SameFailure
  <2>3. CASE ExecMoves!Respond
    BY <2>1, <2>3
       DEF Honouring, SameShared, SameTracker, SamePhases, SameCalls, SameGrants,
           SameFlags, SameFailure
  <2>4. CASE \/ ExecMoves!BeginRun \/ ExecMoves!ObserverEvent \/ ExecMoves!AfterEvent
             \/ ExecMoves!UseHandle \/ ExecMoves!StartCall \/ ExecMoves!Announced
             \/ ExecMoves!InsertPending \/ ExecMoves!RegisterOutgoing \/ ExecMoves!CallSent
             \/ ExecMoves!UndoCall \/ ExecMoves!CallFailed \/ ExecMoves!DropCall
             \/ ExecMoves!WithdrawCall \/ ExecMoves!CallWithdrawn \/ ExecMoves!ToolAnswered
             \/ ExecMoves!PermissionAnswered \/ ExecMoves!LoseProvider
             \/ ExecMoves!AllowGrant \/ ExecMoves!IssueGrant \/ ExecMoves!FinishRun
             \/ ExecMoves!DrainPending \/ ExecMoves!DrainNext \/ ExecMoves!ClearGrants
             \/ ExecMoves!TakeGate \/ ExecMoves!SettleExecution \/ ExecMoves!EndExecution
    <3>1. Pc("exec")' \in Unanswered => Pc("exec") \in Unanswered /\ Pc("exec") \notin Committing
      BY <2>4 DEF Unanswered, Committing, Running, Sending, Leaving
    <3>2. cancelled => cancelled'
      BY <2>4
         DEF SameShared, SameTracker, SamePhases, SameCalls, SameGrants, SameFlags,
             SameFailure
    <3>3. Pc("exec")' # "respond" /\ (Pc("exec")' = "decide" => Stage("exec")' = "none")
      BY <2>4
    <3> QED
      BY <2>1, <3>1, <3>2, <3>3 DEF Honouring
  <2> QED
    BY <1>4, <2>2, <2>3, <2>4 DEF ByExec, ExecMoves
<1>5. CASE ByExecWrite
  <2>1. (cancelled => cancelled') /\ job' = job
    BY <1>5
       DEF ByExecWrite, WriteMoves, FailMoves, SameShared, SameTracker, SamePhases,
           SameCalls, SameGrants, SameFlags, SameFailure
  <2>2. /\ \/ log'.result \in {log.result, None}
           \/ Pc("exec") = "respond" /\ log'.result = job.result
        /\ log'.honoured => log.honoured
    BY <1>5
       DEF ByExecWrite, WriteMoves, FailMoves, Enqueues, Control, ExecWrites,
           ChangesLog
  <2>3. /\ Pc("exec")' \in Unanswered => Pc("exec") \in Unanswered
        /\ Pc("exec")' \in Unanswered /\ Pc("exec") \in Committing => Pc("exec")' \in Committing
    BY <1>5
       DEF ByExecWrite, WriteMoves, FailMoves, Control, ExecWrites, Unanswered,
           Committing, Running, Sending, Leaving
  <2>4. /\ Pc("exec")' = "respond" => Pc("exec") = "respond" \/ (Pc("exec") = "decide" /\
             Stage("exec") # "none")
        /\ Pc("exec")' = "decide" => Pc("exec") = "decide" /\ Stage("exec") # "none"
    BY <1>5 DEF ByExecWrite, WriteMoves, FailMoves, Control, ExecWrites
  <2> QED
    BY <1>5, <2>1, <2>2, <2>3, <2>4 DEF ByExecWrite, ExecFrame, Honouring
<1>6. CASE ByWriter
  BY <1>6
     DEF ByWriter, DeliverMoves, FailMoves, WriterFrame, Honouring, SameShared,
         SameTracker, SamePhases, SameCalls, SameGrants, SameFlags, SameFailure
<1>7. CASE ByNone
  BY <1>7
     DEF ByNone, Honouring, SameShared, SameTracker, SamePhases, SameCalls,
         SameGrants, SameFlags, SameFailure
<1> QED
  BY <1>1, <1>2, <1>3, <1>4, <1>5, <1>6, <1>7 DEF Moves

-----------------------------------------------------------------------------
(***************************************************************************)
(* An id stands for one call.                                              *)
(***************************************************************************)
LEMMA IdsAreFreshNext ==
  ASSUME Types, Control, Turns, IdsAreFresh, Moves
  PROVE  IdsAreFresh'
<1> USE DEF Is, To, Takes, Carries, SameWrite, Still, Kept
<1>a. /\ \A i, j \in ReqId : \A m :
           [Outgoing EXCEPT ![i] = m][j] = IF i = j THEN m ELSE Outgoing[j]
      /\ \A i, j \in Target : \A m : [open EXCEPT ![i] = m][j] = IF i = j THEN m ELSE open[j]
      /\ \A i \in ReqId : EmptyTable[i] = NoMethod
  BY DEF Types, Calls, EmptyTable
<1>b. /\ \A i \in Target : i \in ReqId
      /\ None \notin Target /\ (job.id = None \/ job.id \in Target) /\ \A i \in job.todo :
           i \in Target
      /\ \A i \in pending : i \in Target
  BY ServerAssumption, NamesAssumption DEF Types, Jobs, Calls
<1>c. Stage("exec") # "none" /\ Kind("exec") = "cancel" => For("exec") \in Target
  BY DEF Control, ExecWrites, ExecHolds
<1>d. Pc("exec") \in {"register", "untrack", "unregister", "uninsert"} /\ Stage("exec") = "none" =>
        job.id \in Target
  BY DEF Control, ExecHolds, Sending
<1>1. CASE ByMain
  <2>1. \A t \in ReqId : Known(t)' => Known(t)
    <3>1. /\ pending' = pending \/ pending' = pending \ {msg.id}
          /\ log'.cancels = log.cancels
      BY <1>1
         DEF ByMain, MainMoves, ChangesLog, SameShared, SameTracker, SamePhases,
             SameCalls, SameGrants, SameFlags, SameFailure
    <3>2. CASE MainMoves!ReceiveResponse
      <4>1. PICK id \in Target :
              /\ Outgoing' = [Outgoing EXCEPT ![id] = NoMethod]
              /\ \/ log'.heard = log.heard
                 \/ log'.heard = log.heard \cup {id} /\ Outgoing[id] # NoMethod
        BY <3>2 DEF ChangesLog
      <4> QED
        BY SMTT(60), <1>1, <1>a, <1>b, <3>1, <4>1 DEF ByMain, MainFrame, Known, Withdrawing
    <3>3. CASE ~MainMoves!ReceiveResponse
      <4>1. log'.heard = log.heard /\ (Outgoing' = Outgoing \/ Outgoing' = EmptyTable)
        BY <1>1, <3>3
           DEF ByMain, MainMoves, ChangesLog, SameShared, SameTracker, SamePhases,
               SameCalls, SameGrants, SameFlags, SameFailure
      <4> QED
        BY <1>1, <1>a, <3>1, <4>1 DEF ByMain, MainFrame, Known, Withdrawing
    <3> QED
      BY <3>2, <3>3
  <2> QED
    BY <1>1, <2>1 DEF ByMain, MainFrame, IdsAreFresh
<1>2. CASE ByMainWrite
  <2>1. \A t \in ReqId : Known(t)' => Known(t)
    <3>1. /\ log'.heard = log.heard /\ log'.cancels = log.cancels
          /\ pending' = pending \/ pending' = {}
          /\ Outgoing' = Outgoing \/ Outgoing' = EmptyTable
      BY <1>2
         DEF ByMainWrite, WriteMoves, FailMoves, Enqueues, Control, MainWrites,
             FailPending, ChangesLog, SameShared, SameTracker, SamePhases,
             SameCalls, SameGrants, SameFlags, SameFailure
    <3> QED
      BY <1>2, <1>a, <3>1 DEF ByMainWrite, MainFrame, Known, Withdrawing
  <2> QED
    BY <1>2, <2>1 DEF ByMainWrite, MainFrame, IdsAreFresh
<1>3. CASE SpawnMoves
  <2>1. Stage("exec")' = "none" /\ Pc("exec") \notin Running
    BY <1>3
       DEF SpawnMoves, Turns, Starting, Control, ExecWrites, Running, Sending,
           Leaving
  <2> QED
    BY <1>3, <2>1
       DEF SpawnMoves, IdsAreFresh, Known, Withdrawing, SameShared, SameTracker,
           SamePhases, SameCalls, SameGrants, SameFlags, SameFailure
<1>4. CASE ByExec
  <2>1. CASE ExecMoves!InsertPending
    BY <1>a, <1>b, <2>1
       DEF IdsAreFresh, Known, Withdrawing, Running, Sending, Leaving, ChangesJob,
           SameShared, SameTracker, SamePhases, SameCalls, SameGrants, SameFlags,
           SameFailure
  <2>2. CASE ExecMoves!RegisterOutgoing
    BY SMTT(60), <1>a, <1>b, <1>d, <2>2
       DEF IdsAreFresh, Known, Withdrawing, Running, Sending, Leaving, ChangesJob,
           SameShared, SameTracker, SamePhases, SameCalls, SameGrants, SameFlags,
           SameFailure
  <2>3. CASE ExecMoves!CallSent
    BY SMTT(60), <1>a, <1>b, <2>3
       DEF IdsAreFresh, Known, Withdrawing, Running, Sending, Leaving, ChangesJob,
           SameShared, SameTracker, SamePhases, SameCalls, SameGrants, SameFlags,
           SameFailure
  <2>4. CASE ExecMoves!UndoCall
    BY SMTT(60), <1>a, <1>b, <1>d, <2>4
       DEF IdsAreFresh, Known, Withdrawing, Running, Sending, Leaving, ChangesJob,
           SameShared, SameTracker, SamePhases, SameCalls, SameGrants, SameFlags,
           SameFailure
  <2>5. CASE ExecMoves!DropCall
    BY SMTT(60), <1>a, <1>b, <2>5
       DEF IdsAreFresh, Known, Withdrawing, Running, Sending, Leaving, ChangesJob,
           SameShared, SameTracker, SamePhases, SameCalls, SameGrants, SameFlags,
           SameFailure
  <2>6. CASE ExecMoves!WithdrawCall
    <3>1. /\ UNCHANGED <<job, log, pending, spent, open>>
          /\ Outgoing' = [Outgoing EXCEPT ![job.id] = NoMethod]
          /\ Pc("exec")' \in {"withdraw", "withdrawn"} /\ Pc("exec") = "withdraw"
      BY <2>6 DEF SameCalls
    <3>2. \A t : Withdrawing(t)' => Outgoing[t] # NoMethod
      BY <2>6 DEF Withdrawing
    <3>3. \A t \in ReqId : Outgoing'[t] # NoMethod => Outgoing[t] # NoMethod
      BY SMTT(60), <1>a, <1>b, <3>1
    <3>4. \A t \in ReqId : Known(t)' => Known(t)
      BY <3>1, <3>2, <3>3 DEF Known
    <3>5. Pc("exec")' \in Running
      BY <3>1 DEF Running, Sending, Leaving
    <3> QED
      BY <3>1, <3>4, <3>5 DEF IdsAreFresh
  <2>7. CASE ExecMoves!ToolAnswered
    BY SMTT(60), <1>a, <1>b, <2>7
       DEF IdsAreFresh, Known, Withdrawing, Running, Sending, Leaving, ChangesJob,
           SameShared, SameTracker, SamePhases, SameCalls, SameGrants, SameFlags,
           SameFailure
  <2>8. CASE ExecMoves!PermissionAnswered
    BY SMTT(60), <1>a, <1>b, <2>8
       DEF IdsAreFresh, Known, Withdrawing, Running, Sending, Leaving, ChangesJob,
           SameShared, SameTracker, SamePhases, SameCalls, SameGrants, SameFlags,
           SameFailure
  <2>9. CASE ExecMoves!FinishRun
    BY <1>a, <1>b, <2>9
       DEF IdsAreFresh, Known, Withdrawing, Running, Sending, Leaving, ChangesJob,
           SameShared, SameTracker, SamePhases, SameCalls, SameGrants, SameFlags,
           SameFailure
  <2>10. CASE ExecMoves!DrainPending
    BY <1>a, <1>b, <2>10
       DEF IdsAreFresh, Known, Withdrawing, Running, Sending, Leaving, ChangesJob,
           FailPending, SameShared, SameTracker, SamePhases, SameCalls, SameGrants,
           SameFlags, SameFailure
  <2>11. CASE ExecMoves!DrainNext
    BY SMTT(60), <1>a, <1>b, <2>11
       DEF IdsAreFresh, Known, Withdrawing, Running, Sending, Leaving, ChangesJob,
           SameShared, SameTracker, SamePhases, SameCalls, SameGrants, SameFlags,
           SameFailure
  <2>12. CASE ExecMoves!EndExecution
    BY <1>a, <1>b, <2>12
       DEF IdsAreFresh, Known, Withdrawing, Running, Sending, Leaving, ChangesJob,
           NoJob, SameShared, SameTracker, SamePhases, SameCalls, SameGrants,
           SameFlags, SameFailure
  <2>13. CASE \/ ExecMoves!BeginRun \/ ExecMoves!ObserverEvent \/ ExecMoves!AfterEvent
              \/ ExecMoves!UseHandle \/ ExecMoves!StartCall \/ ExecMoves!Announced
              \/ ExecMoves!CallFailed \/ ExecMoves!CallWithdrawn \/ ExecMoves!LoseProvider
              \/ ExecMoves!AllowGrant \/ ExecMoves!IssueGrant \/ ExecMoves!ClearGrants
              \/ ExecMoves!TakeGate \/ ExecMoves!DecideResult \/ ExecMoves!Respond
              \/ ExecMoves!SettleExecution
    <3>1. open' = open /\ pending' = pending /\ spent' = spent /\ Outgoing' = Outgoing /\ log' = log
      BY <2>13
         DEF SameShared, SameTracker, SamePhases, SameCalls, SameGrants, SameFlags,
             SameFailure
    <3>2. /\ job'.id = job.id \/ job'.id = None
          /\ job'.todo = job.todo
          /\ Stage("exec")' = "none" \/ Kind("exec")' # "cancel"
      BY <2>13 DEF ChangesJob
    <3>3. Pc("exec") \in Running => Pc("exec")' \in Running
      BY <2>13 DEF Running, Sending, Leaving
    <3> QED
      BY <3>1, <3>2, <3>3 DEF IdsAreFresh, Known, Withdrawing
  <2> QED
    BY <1>4, <2>1, <2>2, <2>3, <2>4, <2>5, <2>6, <2>7, <2>8, <2>9, <2>10,
       <2>11, <2>12, <2>13
       DEF ByExec, ExecMoves
<1>5. CASE ByExecWrite
  <2>1. /\ open' = open /\ spent' = spent /\ job' = job
        /\ Outgoing' = Outgoing \/ Outgoing' = EmptyTable
        /\ pending' = pending \/ pending' = {}
        /\ Stage("exec") # "none"
        /\ Stage("exec")' = "none" \/ (Kind("exec")' = Kind("exec") /\ For("exec")' = For("exec"))
    BY <1>5
       DEF ByExecWrite, WriteMoves, FailMoves, FailPending, SameShared, SameTracker,
           SamePhases, SameCalls, SameGrants, SameFlags, SameFailure
  <2>2. /\ log'.heard = log.heard
        /\ \/ log'.cancels = log.cancels
           \/ Kind("exec") = "cancel" /\ log'.cancels = log.cancels \cup {For("exec")}
    BY <1>5
       DEF ByExecWrite, WriteMoves, FailMoves, Enqueues, Control, ExecWrites,
           ChangesLog
  <2>3. Pc("exec") \in Running => Pc("exec")' \in Running
    BY <1>5
       DEF ByExecWrite, WriteMoves, FailMoves, Control, ExecWrites, Running,
           Sending, Leaving
  <2> QED
    BY <1>a, <2>1, <2>2, <2>3 DEF IdsAreFresh, Known, Withdrawing
<1>6. CASE ByWriter
  <2>1. /\ pending' = pending \/ pending' = {}
        /\ Outgoing' = Outgoing \/ Outgoing' = EmptyTable
    BY <1>6
       DEF ByWriter, DeliverMoves, FailMoves, FailPending, SameShared, SameTracker,
           SamePhases, SameCalls, SameGrants, SameFlags, SameFailure
  <2> QED
    BY <1>6, <1>a, <2>1 DEF ByWriter, WriterFrame, IdsAreFresh, Known, Withdrawing
<1>7. CASE ByNone
  BY <1>7
     DEF ByNone, IdsAreFresh, Known, Withdrawing, SameShared, SameTracker,
         SamePhases, SameCalls, SameGrants, SameFlags, SameFailure
<1> QED
  BY <1>1, <1>2, <1>3, <1>4, <1>5, <1>6, <1>7 DEF Moves

-----------------------------------------------------------------------------
(***************************************************************************)
(* A call is answered or withdrawn, not both.                              *)
(***************************************************************************)
LEMMA CrossingNext ==
  ASSUME Types, Control, Turns, IdsAreFresh, Crossing, Moves
  PROVE  Crossing'
<1> USE DEF Is, To, Takes, Carries, SameWrite, Still, Kept
<1>a. /\ \A i, j \in ReqId : \A m :
           [Outgoing EXCEPT ![i] = m][j] = IF i = j THEN m ELSE Outgoing[j]
      /\ \A i, j \in Target : \A m : [open EXCEPT ![i] = m][j] = IF i = j THEN m ELSE open[j]
      /\ \A i \in ReqId : EmptyTable[i] = NoMethod
  BY DEF Types, Calls, EmptyTable
<1>b. /\ \A i \in Target : i \in ReqId
      /\ None \notin Target /\ (job.id = None \/ job.id \in Target) /\ \A i \in job.todo :
           i \in Target
      /\ \A i \in pending : i \in Target
  BY ServerAssumption, NamesAssumption DEF Types, Jobs, Calls
<1>c. Stage("exec") # "none" /\ Kind("exec") = "cancel" => For("exec") \in Target
  BY DEF Control, ExecWrites, ExecHolds
<1>d. Pc("exec") \in {"withdraw", "register", "untrack", "unregister", "uninsert"} /\
        Stage("exec") = "none" =>
        job.id \in Target
  BY DEF Control, ExecHolds, Sending, Leaving
<1>1. CASE ByMain
  <2>1. CASE MainMoves!ReceiveResponse
    <3>1. PICK id \in Target :
            /\ Outgoing' = [Outgoing EXCEPT ![id] = NoMethod]
            /\ \/ log'.heard = log.heard /\ Pc("main")' = "ret"
               \/ log'.heard = log.heard \cup {id} /\ Outgoing[id] # NoMethod /\ msg'.id = id
      BY <2>1 DEF ChangesLog
    <3>2. log'.cancels = log.cancels
      BY <2>1 DEF ChangesLog
    <3> QED
      BY SMTT(60), <1>1, <1>a, <1>b, <1>d, <3>1, <3>2
         DEF ByMain, MainFrame, Crossing, Withdrawing, Types, Logs
  <2>2. CASE ~MainMoves!ReceiveResponse
    <3>1. /\ log'.heard = log.heard /\ log'.cancels = log.cancels
          /\ Outgoing' = Outgoing \/ Outgoing' = EmptyTable
          /\ Pc("main")' # "complete"
      BY <1>1, <2>2
         DEF ByMain, MainMoves, ChangesLog, SameShared, SameTracker, SamePhases,
             SameCalls, SameGrants, SameFlags, SameFailure
    <3> QED
      BY SMTT(60), <1>1, <1>a, <1>b, <1>d, <3>1 DEF ByMain, MainFrame, Crossing, Withdrawing
  <2> QED
    BY <2>1, <2>2
<1>2. CASE ByMainWrite
  <2>1. /\ log'.heard = log.heard /\ log'.cancels = log.cancels
        /\ Outgoing' = Outgoing \/ Outgoing' = EmptyTable
        /\ Pc("main")' # "complete"
    BY <1>2
       DEF ByMainWrite, WriteMoves, FailMoves, Enqueues, Control, MainWrites,
           ChangesLog, SameShared, SameTracker, SamePhases, SameCalls, SameGrants,
           SameFlags, SameFailure
  <2> QED
    BY SMTT(60), <1>2, <1>a, <1>b, <1>d, <2>1 DEF ByMainWrite, MainFrame, Crossing, Withdrawing
<1>3. CASE SpawnMoves
  <2>1. Stage("exec")' = "none" /\ Stage("exec") = "none"
    BY <1>3 DEF SpawnMoves, Turns, Starting, Control, ExecWrites
  <2> QED
    BY <1>3, <2>1
       DEF SpawnMoves, Crossing, Withdrawing, SameShared, SameTracker, SamePhases,
           SameCalls, SameGrants, SameFlags, SameFailure
<1>4. CASE ByExec
  <2>1. CASE ExecMoves!InsertPending
    BY SMTT(60), <1>4, <1>a, <1>b, <1>d, <2>1
       DEF ByExec, ExecFrame, Types, Logs, IdsAreFresh, Known, Crossing,
           Withdrawing, ChangesJob, SameShared, SameTracker, SamePhases, SameCalls,
           SameGrants, SameFlags, SameFailure
  <2>2. CASE ExecMoves!RegisterOutgoing
    BY <1>4, <1>a, <1>b, <1>d, <2>2
       DEF ByExec, ExecFrame, Types, Logs, IdsAreFresh, Known, Crossing,
           Withdrawing, ChangesJob, SameShared, SameTracker, SamePhases, SameCalls,
           SameGrants, SameFlags, SameFailure
  <2>3. CASE ExecMoves!UndoCall
    BY <1>4, <1>a, <1>b, <1>d, <2>3
       DEF ByExec, ExecFrame, Types, Logs, IdsAreFresh, Known, Crossing,
           Withdrawing, ChangesJob, SameShared, SameTracker, SamePhases, SameCalls,
           SameGrants, SameFlags, SameFailure
  <2>4. CASE ExecMoves!WithdrawCall
    <3>1. /\ job.id \in Target /\ log' = log /\ Pc("exec")' \in {"withdraw", "withdrawn"}
          /\ Outgoing' = [Outgoing EXCEPT ![job.id] = NoMethod]
      BY <1>d, <2>4
    <3>2. \A t : Withdrawing(t)' => t = job.id /\ Outgoing[t] # NoMethod
      BY <2>4 DEF Withdrawing
    <3>3. Pc("main")' = Pc("main") /\ msg' = msg
      BY <1>4 DEF ByExec, ExecFrame
    <3>4. Stage("exec") = "none"
      BY <2>4
    <3> QED
      BY SMTT(60), <1>a, <1>b, <3>1, <3>2, <3>3, <3>4 DEF Types, Logs, Crossing
  <2>5. CASE ExecMoves!DrainNext
    <3>1. PICK id \in job.todo :
            /\ Outgoing' = [Outgoing EXCEPT ![id] = NoMethod]
            /\ \A t : Withdrawing(t)' => t = id /\ Outgoing[t] # NoMethod
      BY <2>5 DEF Withdrawing
    <3>2. id \in Target /\ log' = log /\ Pc("exec")' = "drain1" /\ Stage("exec") = "none"
      BY <1>b, <2>5
    <3>3. Pc("main")' = Pc("main") /\ msg' = msg
      BY <1>4 DEF ByExec, ExecFrame
    <3> QED
      BY SMTT(60), <1>a, <1>b, <3>1, <3>2, <3>3 DEF Types, Logs, Crossing
  <2>6. CASE \/ ExecMoves!BeginRun \/ ExecMoves!ObserverEvent \/ ExecMoves!AfterEvent
             \/ ExecMoves!UseHandle \/ ExecMoves!StartCall \/ ExecMoves!Announced
             \/ ExecMoves!CallSent \/ ExecMoves!CallFailed \/ ExecMoves!DropCall
             \/ ExecMoves!CallWithdrawn \/ ExecMoves!ToolAnswered
             \/ ExecMoves!PermissionAnswered \/ ExecMoves!LoseProvider
             \/ ExecMoves!AllowGrant \/ ExecMoves!IssueGrant \/ ExecMoves!FinishRun
             \/ ExecMoves!DrainPending \/ ExecMoves!ClearGrants \/ ExecMoves!TakeGate
             \/ ExecMoves!DecideResult \/ ExecMoves!Respond \/ ExecMoves!SettleExecution
             \/ ExecMoves!EndExecution
    <3>1. Outgoing' = Outgoing /\ log' = log
      BY <2>6
         DEF SameShared, SameTracker, SamePhases, SameCalls, SameGrants, SameFlags,
             SameFailure
    <3>2. /\ Stage("exec")' = "none" \/ Kind("exec")' # "cancel"
          /\ Pc("exec")' \notin {"register", "uninsert"}
      BY <2>6
    <3> QED
      BY <1>4, <3>1, <3>2 DEF ByExec, ExecFrame, Crossing, Withdrawing
  <2> QED
    BY <1>4, <2>1, <2>2, <2>3, <2>4, <2>5, <2>6 DEF ByExec, ExecMoves
<1>5. CASE ByExecWrite
  <2>1. /\ job' = job
        /\ Outgoing' = Outgoing \/ Outgoing' = EmptyTable
        /\ Stage("exec") # "none"
        /\ Stage("exec")' = "none" \/ (Kind("exec")' = Kind("exec") /\ For("exec")' = For("exec"))
    BY <1>5
       DEF ByExecWrite, WriteMoves, FailMoves, SameShared, SameTracker, SamePhases,
           SameCalls, SameGrants, SameFlags, SameFailure
  <2>2. /\ log'.heard = log.heard
        /\ \/ log'.cancels = log.cancels
           \/ Kind("exec") = "cancel" /\ log'.cancels = log.cancels \cup {For("exec")}
    BY <1>5
       DEF ByExecWrite, WriteMoves, FailMoves, Enqueues, Control, ExecWrites,
           ChangesLog
  <2>3. Stage("exec")' = "none" => Pc("exec")' \notin {"register", "uninsert"}
    BY <1>5 DEF ByExecWrite, WriteMoves, FailMoves, Control, ExecWrites
  <2> QED
    BY SMTT(60), <1>5, <1>a, <1>b, <2>1, <2>2, <2>3
       DEF ByExecWrite, ExecFrame, Crossing, Withdrawing
<1>6. CASE ByWriter
  <2>1. Outgoing' = Outgoing \/ Outgoing' = EmptyTable
    BY <1>6
       DEF ByWriter, DeliverMoves, FailMoves, SameShared, SameTracker, SamePhases,
           SameCalls, SameGrants, SameFlags, SameFailure
  <2> QED
    BY SMTT(60), <1>6, <1>a, <1>b, <1>d, <2>1 DEF ByWriter, WriterFrame, Crossing, Withdrawing
<1>7. CASE ByNone
  BY <1>7
     DEF ByNone, Crossing, Withdrawing, SameShared, SameTracker, SamePhases,
         SameCalls, SameGrants, SameFlags, SameFailure
<1> QED
  BY <1>1, <1>2, <1>3, <1>4, <1>5, <1>6, <1>7 DEF Moves

-----------------------------------------------------------------------------
(***************************************************************************)
(* What the calls of the grant registry do to a target.                    *)
(***************************************************************************)
(* A revocation leaves a registry of grants.                               *)
LEMMA RevokeType ==
  ASSUME NEW r \in Registries, NEW g \in Grant
  PROVE  revoke(r, g) \in Registries
<1>1. r.runtime_ids[g] \in SUBSET Target
  BY DEF Registries
<1>2. CASE r.runtime_ids[g] # {}
  BY <1>1, <1>2 DEF Registries, revoke
<1>3. CASE r.runtime_ids[g] = {}
  <2> DEFINE waiting == {t \in Target : r.pending_host_ids[t] = g}
             first == CHOOSE t \in waiting : TRUE
  <2>1. CASE waiting # {}
    <3>1. first \in Target
      BY <2>1
    <3> HIDE DEF first
    <3>2. [r EXCEPT !.pending_host_ids[first] = NoGrant,
                     !.revoked_pending_targets = @ \cup {first}] \in Registries
      BY <3>1 DEF Registries
    <3> QED
      BY <1>3, <2>1, <3>2 DEF revoke, first
  <2>2. CASE waiting = {}
    BY <1>3, <2>2 DEF revoke
  <2> QED
    BY <2>1, <2>2
<1> QED
  BY <1>2, <1>3

(* A cleared registry is a registry ...                                    *)
LEMMA EmptyType == EmptyRegistry \in Registries
BY DEF EmptyRegistry, Registries

(* ... and so is one in which a grant was issued.                          *)
LEMMA IssuedType ==
  ASSUME NEW r \in Registries, NEW t \in Target
  PROVE  issued(r, t) \in Registries
<1>1. CASE t \in r.revoked_pending_targets
  BY <1>1 DEF Registries, issued
<1>2. CASE t \notin r.revoked_pending_targets /\ r.pending_host_ids[t] # NoGrant
  <2>1. r.pending_host_ids[t] \in Grant /\ {t} \in SUBSET Target
    BY <1>2 DEF Registries
  <2>2. [r EXCEPT !.pending_host_ids[t] = NoGrant,
                  !.runtime_ids[r.pending_host_ids[t]] = {t}] \in Registries
    BY <2>1 DEF Registries
  <2> QED
    BY <1>2, <2>2 DEF issued
<1>3. CASE t \notin r.revoked_pending_targets /\ r.pending_host_ids[t] = NoGrant
  BY <1>3 DEF issued
<1> QED
  BY <1>1, <1>2, <1>3

(* A grant that was taken in waits.                                        *)
LEMMA AllowedEffect ==
  ASSUME NEW r \in Registries, NEW i \in Target, NEW g \in Grant
  PROVE  \A t \in Target :
           /\ Waits(allowed(r, i, g), t) <=> Waits(r, t) \/ t = i
           /\ Struck(allowed(r, i, g), t) <=> Struck(r, t)
           /\ Bound(allowed(r, i, g), t) <=> Bound(r, t)
           /\ Queued(allowed(r, i, g), t) <=> Queued(r, t)
  BY NoGrantIsFresh DEF Registries, allowed, Waits, Struck, Bound, Queued

(* Issuing t binds it, or queues it if it was revoked before.              *)
LEMMA IssuedEffect ==
  ASSUME NEW r \in Registries, NEW i \in Target
  PROVE  \A t \in Target :
           /\ Waits(issued(r, i), t) => Waits(r, t)
           /\ t = i /\ ~Struck(r, i) => ~Waits(issued(r, i), t)
           /\ Struck(issued(r, i), t) <=> Struck(r, t) /\ t # i
           /\ Bound(issued(r, i), t) => Bound(r, t) \/ t = i
           /\ Queued(issued(r, i), t) <=> Queued(r, t) \/ (t = i /\ Struck(r, t))
<1>1. CASE i \in r.revoked_pending_targets
  BY <1>1 DEF Registries, issued, Waits, Struck, Bound, Queued
<1>2. CASE i \notin r.revoked_pending_targets /\ r.pending_host_ids[i] # NoGrant
  BY <1>2 DEF Registries, issued, Waits, Struck, Bound, Queued
<1>3. CASE i \notin r.revoked_pending_targets /\ r.pending_host_ids[i] = NoGrant
  BY <1>3 DEF Registries, issued, Waits, Struck, Bound, Queued
<1> QED
  BY <1>1, <1>2, <1>3

(* Revoking a grant queues its handles, or strikes the target that waits.  *)
LEMMA RevokeEffect ==
  ASSUME NEW r \in Registries, NEW g \in Grant
  PROVE  \A t \in Target :
           /\ Waits(revoke(r, g), t) => Waits(r, t) /\ (Struck(revoke(r, g), t) => Struck(r, t))
           /\ Struck(r, t) => Struck(revoke(r, g), t)
           /\ Struck(revoke(r, g), t) => Struck(r, t) \/ Waits(r, t)
           /\ Bound(revoke(r, g), t) => Bound(r, t)
           /\ Queued(r, t) => Queued(revoke(r, g), t)
           /\ Queued(revoke(r, g), t) => Queued(r, t) \/ Bound(r, t)
<1> DEFINE waiting == {t \in Target : r.pending_host_ids[t] = g}
           first == CHOOSE t \in waiting : TRUE
<1>1. CASE r.runtime_ids[g] # {}
  <2>1. revoke(r, g) = [r EXCEPT !.runtime_ids[g] = {}, !.revoked = @ \cup r.runtime_ids[g]]
    BY <1>1 DEF revoke
  <2> QED
    BY <2>1 DEF Registries, Waits, Struck, Bound, Queued
<1>2. CASE r.runtime_ids[g] = {} /\ waiting # {}
  <2>1. revoke(r, g) = [r EXCEPT !.pending_host_ids[first] = NoGrant,
                                 !.revoked_pending_targets = @ \cup {first}]
    BY <1>2 DEF revoke
  <2>2. first \in Target /\ r.pending_host_ids[first] = g
    BY <1>2
  <2> HIDE DEF first
  <2> QED
    BY SMTT(60), <2>1, <2>2, NoGrantIsFresh DEF Registries, Waits, Struck, Bound, Queued
<1>3. CASE r.runtime_ids[g] = {} /\ waiting = {}
  BY <1>3 DEF revoke
<1> QED
  BY <1>1, <1>2, <1>3

(* Taking the revocations empties the queue and nothing else.              *)
LEMMA TakenEffect ==
  ASSUME NEW r \in Registries
  PROVE  \A t \in Target :
           /\ Waits(take_revocations(r), t) <=> Waits(r, t)
           /\ Struck(take_revocations(r), t) <=> Struck(r, t)
           /\ Bound(take_revocations(r), t) <=> Bound(r, t)
           /\ ~Queued(take_revocations(r), t)
  BY DEF Registries, take_revocations, Waits, Struck, Bound, Queued

(* A cleared registry knows no target.                                     *)
LEMMA EmptyEffect ==
  \A t \in Target :
     /\ ~Waits(EmptyRegistry, t) /\ ~Struck(EmptyRegistry, t)
     /\ ~Bound(EmptyRegistry, t) /\ ~Queued(EmptyRegistry, t)
  BY DEF EmptyRegistry, Waits, Struck, Bound, Queued

-----------------------------------------------------------------------------
(***************************************************************************)
(* A grant is taken in once, and a revocation the registry acted on is not *)
(* forgotten while the handle is live.                                     *)
(***************************************************************************)
LEMMA GrantsNext ==
  ASSUME Types, Control, Turns, IdsAreFresh, GrantedOnce, Biting, Moves
  PROVE  GrantedOnce' /\ Biting'
<1> USE DEF Is, To, Takes, Carries, SameWrite, Still, Kept
<1>a. \A i, j \in Target : \A m : [open EXCEPT ![i] = m][j] = IF i = j THEN m ELSE open[j]
  BY DEF Types, Calls
<1>b. /\ None \notin Target /\ (job.id = None \/ job.id \in Target)
      /\ grants \in Registries
  BY ServerAssumption, NamesAssumption DEF Types, Jobs, Calls
<1>1. CASE ByMain
  <2>1. CASE MainMoves!RevokeGrant
    <3>1. /\ grants' = revoke(grants, msg.grant)
          /\ log'.bitten = log.bitten \cup (grants'.revoked \ grants.revoked)
               \cup (grants'.revoked_pending_targets \ grants.revoked_pending_targets)
          /\ Pc("main") = "revoke"
      BY <2>1
    <3>2. msg.grant \in Grant
      BY <3>1 DEF Control, MainHolds
    <3>3. \A t \in Target :
            /\ Waits(grants', t) => Waits(grants, t) /\ (Struck(grants', t) => Struck(grants, t))
            /\ Struck(grants, t) => Struck(grants', t)
            /\ Struck(grants', t) => Struck(grants, t) \/ Waits(grants, t)
            /\ Bound(grants', t) => Bound(grants, t)
            /\ Queued(grants, t) => Queued(grants', t)
            /\ Queued(grants', t) => Queued(grants, t) \/ Bound(grants, t)
      BY <1>b, <3>1, <3>2, RevokeEffect
    <3>4. \A t \in Target :
            t \in log'.bitten =>
              \/ t \in log.bitten
              \/ Queued(grants', t) /\ ~Queued(grants, t)
              \/ Struck(grants', t) /\ ~Struck(grants, t)
      BY <3>1 DEF Queued, Struck
    <3>g. GrantedOnce'
      BY <1>1, <3>3, <3>4 DEF ByMain, MainFrame, GrantedOnce, Granted, IdsAreFresh
    <3>b. Biting'
      BY <1>1, <3>3, <3>4 DEF ByMain, MainFrame, Biting, GrantedOnce, Granted
    <3> QED
      BY <3>g, <3>b
  <2>2. CASE ~MainMoves!RevokeGrant
    <3>1. log'.bitten = log.bitten
      BY <1>1, <2>2
         DEF ByMain, MainMoves, ChangesLog, SameShared, SameTracker, SamePhases,
             SameCalls, SameGrants, SameFlags, SameFailure
    <3>2. \/ grants' = grants
          \/ grants' = EmptyRegistry /\ Pc("main") = "ret_clear"
      BY <1>1, <2>2
         DEF ByMain, MainMoves, SameShared, SameTracker, SamePhases, SameCalls,
             SameGrants, SameFlags, SameFailure
    <3>3. Pc("main") = "ret_clear" => live = {}
      BY DEF Turns, Biting, Types, Calls, Running, Sending, Leaving
    <3>4. \A t \in Target :
            /\ Waits(grants', t) => Waits(grants, t)
            /\ Struck(grants', t) => Struck(grants, t)
            /\ Bound(grants', t) => Bound(grants, t)
            /\ Queued(grants', t) => Queued(grants, t)
            /\ Queued(grants, t) /\ t \in live => Queued(grants', t)
            /\ Struck(grants, t) /\ ~Struck(grants', t) => grants' = EmptyRegistry
      BY <3>2, <3>3, EmptyEffect
    <3>5. grants' = EmptyRegistry => grants' = grants \/ Pc("exec") = "none"
      BY <3>2 DEF Turns
    <3>g. GrantedOnce'
      BY <1>1, <3>1, <3>4, <3>5 DEF ByMain, MainFrame, GrantedOnce, Granted, IdsAreFresh
    <3>b. Biting'
      BY <1>1, <3>1, <3>4, <3>5 DEF ByMain, MainFrame, Biting, GrantedOnce, Granted
    <3> QED
      BY <3>g, <3>b
  <2> QED
    BY <2>1, <2>2
<1>2. CASE ByMainWrite
  <2>1. log'.bitten = log.bitten /\ grants' = grants
    BY <1>2
       DEF ByMainWrite, WriteMoves, FailMoves, Enqueues, Control, MainWrites,
           ChangesLog, SameShared, SameTracker, SamePhases, SameCalls, SameGrants,
           SameFlags, SameFailure
  <2>g. GrantedOnce'
    BY <1>2, <2>1 DEF ByMainWrite, MainFrame, GrantedOnce, Granted, IdsAreFresh
  <2>b. Biting'
    BY <1>2, <2>1 DEF ByMainWrite, MainFrame, Biting, GrantedOnce, Granted
  <2> QED
    BY <2>g, <2>b
<1>3. CASE SpawnMoves
  <2>1. Pc("exec") = "none" /\ Pc("exec")' = "start" /\ job'.id = None
    BY <1>3 DEF SpawnMoves, Turns, Starting
  <2>g. GrantedOnce'
    BY <1>3, <1>b, <2>1
       DEF SpawnMoves, SameShared, SameGrants, GrantedOnce, Granted, IdsAreFresh
  <2>b. Biting'
    BY <1>3, <1>b, <2>1
       DEF SpawnMoves, SameShared, SameGrants, Biting, GrantedOnce, Granted,
           Running, Sending, Leaving
  <2> QED
    BY <2>g, <2>b
<1>4. CASE ByExec
  <2>a. log'.bitten = log.bitten
    BY <1>4 DEF ByExec, ExecMoves
  <2>1. CASE ExecMoves!UseHandle
    <3>2. \/ UNCHANGED <<grants, live>>
          \/ grants' = take_revocations(grants) /\ live' = live \ grants.revoked
      BY <2>1 DEF SameGrants
    <3>3. \/ UNCHANGED <<grants, live>>
          \/ \A t \in Target :
               /\ Waits(grants', t) <=> Waits(grants, t)
               /\ Struck(grants', t) <=> Struck(grants, t)
               /\ Bound(grants', t) <=> Bound(grants, t)
               /\ ~Queued(grants', t)
               /\ t \in live' <=> t \in live /\ ~Queued(grants, t)
      BY SMTT(60), <1>b, <3>2, TakenEffect DEF Queued
    <3>g. GrantedOnce'
      BY <1>a, <1>b, <2>a, <2>1, <3>3
         DEF ChangesJob, SameCalls, SameGrants, SameShared, GrantedOnce, Granted,
             IdsAreFresh
    <3>b. Biting'
      BY <1>a, <1>b, <2>a, <2>1, <3>3
         DEF ChangesJob, SameCalls, SameGrants, SameShared, Biting, GrantedOnce,
             Granted, Running, Sending, Leaving
    <3> QED
      BY <3>g, <3>b
  <2>2. CASE ExecMoves!StartCall
    <3>2. \/ UNCHANGED <<grants, live>>
          \/ grants' = take_revocations(grants) /\ live' = live \ grants.revoked
      BY <2>2 DEF SameGrants
    <3>3. \/ UNCHANGED <<grants, live>>
          \/ \A t \in Target :
               /\ Waits(grants', t) <=> Waits(grants, t)
               /\ Struck(grants', t) <=> Struck(grants, t)
               /\ Bound(grants', t) <=> Bound(grants, t)
               /\ ~Queued(grants', t)
               /\ t \in live' <=> t \in live /\ ~Queued(grants, t)
      BY SMTT(60), <1>b, <3>2, TakenEffect DEF Queued
    <3>g. GrantedOnce'
      BY <1>a, <1>b, <2>a, <2>2, <3>3
         DEF ChangesJob, SameCalls, SameGrants, SameShared, GrantedOnce, Granted,
             IdsAreFresh
    <3>b. Biting'
      BY <1>a, <1>b, <2>a, <2>2, <3>3
         DEF ChangesJob, SameCalls, SameGrants, SameShared, Biting, GrantedOnce,
             Granted, Running, Sending, Leaving
    <3> QED
      BY <3>g, <3>b
  <2>3. CASE ExecMoves!InsertPending
    <3>g. GrantedOnce'
      BY <1>a, <1>b, <2>a, <2>3
         DEF ChangesJob, SameCalls, SameGrants, SameShared, GrantedOnce, Granted,
             IdsAreFresh
    <3>b. Biting'
      BY <1>a, <1>b, <2>a, <2>3
         DEF ChangesJob, SameCalls, SameGrants, SameShared, Biting, GrantedOnce,
             Granted, Running, Sending, Leaving
    <3> QED
      BY <3>g, <3>b
  <2>4. CASE ExecMoves!CallSent
    <3>2. job.id \in Target
      BY <2>4 DEF Control, ExecHolds, Sending
    <3>g. GrantedOnce'
      BY SMTT(60), <1>a, <1>b, <2>a, <2>4, <3>2
         DEF ChangesJob, SameCalls, SameGrants, SameShared, GrantedOnce, Granted,
             IdsAreFresh
    <3>b. Biting'
      BY <1>a, <1>b, <2>a, <2>4, <3>2
         DEF ChangesJob, SameCalls, SameGrants, SameShared, Biting, GrantedOnce,
             Granted, Running, Sending, Leaving
    <3> QED
      BY <3>g, <3>b
  <2>5. CASE ExecMoves!CallFailed
    <3>g. GrantedOnce'
      BY <1>a, <1>b, <2>a, <2>5
         DEF ChangesJob, SameCalls, SameGrants, SameShared, GrantedOnce, Granted,
             IdsAreFresh
    <3>b. Biting'
      BY <1>a, <1>b, <2>a, <2>5
         DEF ChangesJob, SameCalls, SameGrants, SameShared, Biting, GrantedOnce,
             Granted, Running, Sending, Leaving
    <3> QED
      BY <3>g, <3>b
  <2>6. CASE ExecMoves!DropCall
    <3>g. GrantedOnce'
      BY SMTT(60), <1>a, <1>b, <2>a, <2>6
         DEF ChangesJob, SameCalls, SameGrants, SameShared, GrantedOnce, Granted,
             IdsAreFresh
    <3>b. Biting'
      BY <1>a, <1>b, <2>a, <2>6
         DEF ChangesJob, SameCalls, SameGrants, SameShared, Biting, GrantedOnce,
             Granted, Running, Sending, Leaving
    <3> QED
      BY <3>g, <3>b
  <2>7. CASE ExecMoves!ToolAnswered
    <3>g. GrantedOnce'
      BY SMTT(60), <1>a, <1>b, <2>a, <2>7
         DEF ChangesJob, SameCalls, SameGrants, SameShared, GrantedOnce, Granted,
             IdsAreFresh
    <3>b. Biting'
      BY <1>a, <1>b, <2>a, <2>7
         DEF ChangesJob, SameCalls, SameGrants, SameShared, Biting, GrantedOnce,
             Granted, Running, Sending, Leaving
    <3> QED
      BY <3>g, <3>b
  <2>8. CASE ExecMoves!PermissionAnswered
    <3>g. GrantedOnce'
      BY SMTT(60), <1>a, <1>b, <2>a, <2>8
         DEF ChangesJob, SameCalls, SameGrants, SameShared, GrantedOnce, Granted,
             IdsAreFresh
    <3>b. Biting'
      BY <1>a, <1>b, <2>a, <2>8
         DEF ChangesJob, SameCalls, SameGrants, SameShared, Biting, GrantedOnce,
             Granted, Running, Sending, Leaving
    <3> QED
      BY <3>g, <3>b
  <2>9. CASE ExecMoves!LoseProvider
    <3>g. GrantedOnce'
      BY <1>a, <1>b, <2>a, <2>9
         DEF ChangesJob, SameCalls, SameGrants, SameShared, GrantedOnce, Granted,
             IdsAreFresh
    <3>b. Biting'
      BY <1>a, <1>b, <2>a, <2>9
         DEF ChangesJob, SameCalls, SameGrants, SameShared, Biting, GrantedOnce,
             Granted, Running, Sending, Leaving
    <3> QED
      BY <3>g, <3>b
  <2>10. CASE ExecMoves!AllowGrant
    <3>2. job.id \in Target /\ job.grant \in Grant
      BY <2>10 DEF Control, ExecHolds
    <3>3. \A t \in Target :
            /\ Waits(grants', t) <=> Waits(grants, t) \/ t = job.id
            /\ Struck(grants', t) <=> Struck(grants, t)
            /\ Bound(grants', t) <=> Bound(grants, t)
            /\ Queued(grants', t) <=> Queued(grants, t)
      BY <1>b, <2>10, <3>2, AllowedEffect
    <3>4. ~Granted(job.id)
      BY <2>10, <3>2 DEF GrantedOnce
    <3>5. Pc("exec")' = "issue"
      BY <2>10, <3>4 DEF Granted, Waits, allowed_again
    <3>g. GrantedOnce'
      BY <1>a, <1>b, <2>a, <2>10, <3>2, <3>3, <3>4, <3>5
         DEF ChangesJob, SameCalls, SameGrants, SameShared, GrantedOnce, Granted,
             IdsAreFresh
    <3>b. Biting'
      BY <1>a, <1>b, <2>a, <2>10, <3>2, <3>3, <3>4, <3>5
         DEF ChangesJob, SameCalls, SameGrants, SameShared, Biting, GrantedOnce,
             Granted, Running, Sending, Leaving
    <3> QED
      BY <3>g, <3>b
  <2>11. CASE ExecMoves!IssueGrant
    <3>2. job.id \in Target
      BY <2>11 DEF Control, ExecHolds
    <3>3. \/ UNCHANGED <<grants, live>>
          \/ /\ live' = live \cup {job.id}
             /\ \A t \in Target :
                 /\ Waits(grants', t) => Waits(grants, t)
                 /\ t = job.id /\ ~Struck(grants, t) => ~Waits(grants', t)
                 /\ Struck(grants', t) <=> Struck(grants, t) /\ t # job.id
                 /\ Bound(grants', t) => Bound(grants, t) \/ t = job.id
                 /\ Queued(grants', t) <=> Queued(grants, t) \/ (t = job.id /\ Struck(grants, t))
      <4>1. \/ UNCHANGED <<grants, live>>
            \/ live' = live \cup {job.id} /\ grants' = issued(grants, job.id)
        BY <2>11 DEF SameGrants
      <4> QED
        BY SMTT(60), <1>b, <3>2, <4>1, IssuedEffect
    <3>g. GrantedOnce'
      BY <1>a, <1>b, <2>a, <2>11, <3>2, <3>3
         DEF ChangesJob, SameCalls, SameGrants, SameShared, GrantedOnce, Granted,
             IdsAreFresh
    <3>b. Biting'
      BY <1>a, <1>b, <2>a, <2>11, <3>2, <3>3
         DEF ChangesJob, SameCalls, SameGrants, SameShared, Biting, GrantedOnce,
             Granted, Running, Sending, Leaving
    <3> QED
      BY <3>g, <3>b
  <2>12. CASE ExecMoves!FinishRun
    <3>2. \A t \in Target : open'[t] = NoMethod
      BY <2>12
    <3>g. GrantedOnce'
      BY <1>a, <1>b, <2>a, <2>12, <3>2
         DEF ChangesJob, SameCalls, SameGrants, SameShared, GrantedOnce, Granted,
             IdsAreFresh
    <3>b. Biting'
      BY <1>a, <1>b, <2>a, <2>12, <3>2
         DEF ChangesJob, SameCalls, SameGrants, SameShared, Biting, GrantedOnce,
             Granted, Running, Sending, Leaving
    <3> QED
      BY <3>g, <3>b
  <2>13. CASE ExecMoves!ClearGrants
    <3>2. live = {}
      BY <2>13 DEF Biting, Types, Calls, Running, Sending, Leaving
    <3>g. GrantedOnce'
      BY <1>a, <1>b, <2>a, <2>13, <3>2, EmptyEffect
         DEF ChangesJob, SameCalls, SameGrants, SameShared, GrantedOnce, Granted,
             IdsAreFresh
    <3>b. Biting'
      BY <1>a, <1>b, <2>a, <2>13, <3>2, EmptyEffect
         DEF ChangesJob, SameCalls, SameGrants, SameShared, Biting, GrantedOnce,
             Granted, Running, Sending, Leaving
    <3> QED
      BY <3>g, <3>b
  <2>14. CASE \/ ExecMoves!BeginRun \/ ExecMoves!ObserverEvent \/ ExecMoves!AfterEvent
              \/ ExecMoves!Announced \/ ExecMoves!RegisterOutgoing \/ ExecMoves!UndoCall
              \/ ExecMoves!WithdrawCall \/ ExecMoves!CallWithdrawn
              \/ ExecMoves!DrainPending \/ ExecMoves!DrainNext \/ ExecMoves!TakeGate
              \/ ExecMoves!DecideResult \/ ExecMoves!Respond \/ ExecMoves!SettleExecution
              \/ ExecMoves!EndExecution
    <3>1. UNCHANGED <<grants, live, open, spent>>
      BY <2>14
         DEF SameShared, SameTracker, SamePhases, SameCalls, SameGrants, SameFlags,
             SameFailure
    <3>2. job'.id = job.id \/ job'.id = None
      <4>1. job'.id = job.id \/ job'.id = None \/ job' = NoJob
        BY <2>14 DEF ChangesJob
      <4> QED
        BY SMTT(60), <4>1 DEF NoJob
    <3>3. /\ Pc("exec") # "issue" /\ Pc("exec")' # "issue"
          /\ Pc("exec")' \in Running \/ Pc("exec") \notin Running
      BY <2>14 DEF Running, Sending, Leaving
    <3>g. GrantedOnce'
      BY <1>b, <2>a, <3>1, <3>2, <3>3 DEF ExecFrame, GrantedOnce, Granted, IdsAreFresh
    <3>b. Biting'
      BY <1>b, <2>a, <3>1, <3>2, <3>3 DEF ExecFrame, Biting, GrantedOnce, Granted
    <3> QED
      BY <3>g, <3>b
  <2> QED
    BY <1>4, <2>1, <2>2, <2>3, <2>4, <2>5, <2>6, <2>7, <2>8, <2>9, <2>10,
       <2>11, <2>12, <2>13, <2>14
       DEF ByExec, ExecMoves
<1>5. CASE ByExecWrite
  <2>1. log'.bitten = log.bitten
    BY <1>5
       DEF ByExecWrite, WriteMoves, FailMoves, Enqueues, Control, ExecWrites,
           ChangesLog
  <2>2. UNCHANGED <<grants, live, open, spent, job>>
    BY <1>5
       DEF ByExecWrite, WriteMoves, FailMoves, SameShared, SameTracker, SamePhases,
           SameCalls, SameGrants, SameFlags, SameFailure
  <2>3. /\ Pc("exec")' # "issue" /\ Pc("exec") # "issue"
        /\ Pc("exec")' \in Running \/ Pc("exec") \notin Running
    BY <1>5
       DEF ByExecWrite, WriteMoves, FailMoves, Control, ExecWrites, Running,
           Sending, Leaving
  <2>g. GrantedOnce'
    BY <1>b, <2>1, <2>2, <2>3 DEF ExecFrame, GrantedOnce, Granted, IdsAreFresh
  <2>b. Biting'
    BY <1>b, <2>1, <2>2, <2>3 DEF ExecFrame, Biting, GrantedOnce, Granted
  <2> QED
    BY <2>g, <2>b
<1>6. CASE ByWriter
  <2>1. Pc("exec")' = Pc("exec") /\ UNCHANGED <<job, open, log, spent, grants, live>>
    BY <1>6 DEF ByWriter, WriterFrame
  <2>g. GrantedOnce'
    BY <2>1 DEF ByWriter, GrantedOnce, Granted, IdsAreFresh
  <2>b. Biting'
    BY <2>1 DEF ByWriter, Biting, GrantedOnce, Granted
  <2> QED
    BY <2>g, <2>b
<1>7. CASE ByNone
  <2>g. GrantedOnce'
    BY <1>7 DEF ByNone, SameShared, SameGrants, GrantedOnce, Granted, IdsAreFresh
  <2>b. Biting'
    BY <1>7 DEF ByNone, SameShared, SameGrants, Biting, GrantedOnce, Granted
  <2> QED
    BY <2>g, <2>b
<1> QED
  BY <1>1, <1>2, <1>3, <1>4, <1>5, <1>6, <1>7 DEF Moves

-----------------------------------------------------------------------------
(***************************************************************************)
(* No call waits for an answer that cannot come.                           *)
(***************************************************************************)
LEMMA WakingNext ==
  ASSUME Types, Control, Turns, IdsAreFresh, Waking, Moves
  PROVE  Waking'
<1> USE DEF Is, To, Takes, Carries, SameWrite, Still, Kept
<1>a. /\ \A i, j \in Target : \A m : [open EXCEPT ![i] = m][j] = IF i = j THEN m ELSE open[j]
      /\ \A i, j \in Target : \A m : [call EXCEPT ![i] = m][j] = IF i = j THEN m ELSE call[j]
      /\ None \notin Target /\ (job.id = None \/ job.id \in Target)
  BY ServerAssumption, NamesAssumption DEF Types, Calls, Jobs
<1>b. ASSUME \A t \in Target : (InFlight(t)' => InFlight(t)) /\ (Awaited(t)' => Awaited(t)),
             \A t \in Target : call'[t] = "waiting" =>
               call[t] = "waiting" /\ (t \in pending /\ Awaited(t)' => t \in pending'),
             failed' => failed, \A th \in Threads : Wakes(th) => Wakes(th)'
      PROVE  Waking'
  BY <1>b DEF Waking
<1>c. ASSUME NEW th \in Threads, FailMoves(th),
             \A t \in Target : (InFlight(t)' => InFlight(t)) /\ (Awaited(t)' => Awaited(t)),
             \A u \in Threads \ {th} : Stage(u)' = Stage(u)
      PROVE  Waking'
  <2>1. CASE Stage(th) \in {"fail", "cancel"}
    <3>1. /\ UNCHANGED <<pending, call>> /\ Wakes(th)'
      BY <1>c, <2>1 DEF FailMoves, Wakes
    <3> QED
      BY <1>c, <3>1 DEF Waking
  <2>2. CASE Stage(th) = "failall"
    <3>1. FailPending
      BY <1>c, <2>2 DEF FailMoves
    <3>2. \A t \in Target : call'[t] = IF t \in pending THEN "failed" ELSE call[t]
      BY <3>1 DEF FailPending
    <3>3. \A t \in Target : Awaited(t)' => call'[t] # "waiting"
      <4> TAKE t \in Target
      <4>1. Awaited(t)' => Awaited(t)
        BY <1>c
      <4>2. Awaited(t) /\ call[t] = "waiting" => t \in pending
        BY DEF Waking
      <4> QED
        BY <3>2, <4>1, <4>2
    <3>4. \A t \in Target : InFlight(t)' => Awaited(t)'
      BY DEF Awaited
    <3> QED
      BY <3>3, <3>4 DEF Waking
  <2>3. CASE Stage(th) = "disconnect"
    <3>1. UNCHANGED <<pending, call>> /\ (failed' <=> failed)
      BY <1>c, <2>3 DEF FailMoves, SameFailure
    <3>2. \A u \in Threads : Wakes(u) => Wakes(u)'
      BY <1>c, <2>3 DEF Wakes
    <3> QED
      BY <1>b, <1>c, <3>1, <3>2
  <2> QED
    BY <1>c, <2>1, <2>2, <2>3 DEF FailMoves
<1>d. "main" \in Threads /\ "exec" \in Threads /\ "writer" \in Threads /\ \A t \in Threads :
        t \in {"main", "exec", "writer"}
  BY DEF Threads
<1>e. ASSUME Still("exec"), UNCHANGED <<job, open>>
      PROVE  \A t \in Target : (InFlight(t)' => InFlight(t)) /\ (Awaited(t)' => Awaited(t))
  BY <1>e DEF InFlight, Awaited
<1>1. CASE ByMain
  <2>1. \A t \in Target : (InFlight(t)' => InFlight(t)) /\ (Awaited(t)' => Awaited(t))
    BY <1>1, <1>e DEF ByMain, MainFrame
  <2>2. (failed' <=> failed) /\ Stage("main") = "none"
    BY <1>1
       DEF ByMain, MainMoves, SameShared, SameTracker, SamePhases, SameCalls,
           SameGrants, SameFlags, SameFailure
  <2>3. \A th \in Threads : Wakes(th) => Wakes(th)'
    BY <1>1, <1>d, <2>2 DEF ByMain, MainFrame, Wakes
  <2>4. CASE MainMoves!CompleteCall
    <3>1. /\ pending' = pending \ {msg.id}
          /\ call' = IF msg.id \in pending THEN [call EXCEPT ![msg.id] = msg.answer] ELSE call
          /\ Pc("main") = "complete"
      BY <2>4
    <3>2. msg.id \in Target /\ msg.answer # "waiting"
      BY <3>1 DEF Control, MainHolds
    <3>3. \A t \in Target : call'[t] = "waiting" =>
            call[t] = "waiting" /\ (t \in pending => t \in pending')
      BY SMTT(60), <1>a, <3>1, <3>2
    <3> QED
      BY <1>b, <2>1, <2>2, <2>3, <3>3
  <2>5. CASE ~MainMoves!CompleteCall
    <3>1. UNCHANGED <<pending, call>>
      BY <1>1, <2>5
         DEF ByMain, MainMoves, SameShared, SameTracker, SamePhases, SameCalls,
             SameGrants, SameFlags, SameFailure
    <3> QED
      BY <1>b, <2>1, <2>2, <2>3, <3>1
  <2> QED
    BY <2>4, <2>5
<1>2. CASE ByMainWrite
  <2>1. \A t \in Target : (InFlight(t)' => InFlight(t)) /\ (Awaited(t)' => Awaited(t))
    BY <1>2, <1>e DEF ByMainWrite, MainFrame
  <2>2. CASE FailMoves("main")
    <3>1. \A u \in Threads \ {"main"} : Stage(u)' = Stage(u)
      BY <1>2, <1>d DEF ByMainWrite, MainFrame
    <3> QED
      BY <1>2, <1>c, <1>d, <2>1, <2>2, <3>1 DEF ByMainWrite
  <2>3. CASE WriteMoves("main")!Check \/ WriteMoves("main")!Send
    <3>1. UNCHANGED <<pending, call>> /\ (failed' <=> failed) /\ Stage("main") \in {"check", "send"}
      BY <2>3
         DEF SameShared, SameTracker, SamePhases, SameCalls, SameGrants, SameFlags,
             SameFailure
    <3>2. \A th \in Threads : Wakes(th) => Wakes(th)'
      BY <1>2, <1>d, <3>1 DEF ByMainWrite, MainFrame, Wakes
    <3> QED
      BY <1>b, <2>1, <3>1, <3>2
  <2> QED
    BY <1>2, <2>2, <2>3 DEF ByMainWrite, WriteMoves
<1>3. CASE SpawnMoves
  <2>1. Pc("exec")' = "start" /\ Still("writer") /\ Stage("exec")' = Stage("exec") /\
          UNCHANGED open /\ Stage("main") = "none"
    BY <1>3 DEF SpawnMoves
  <2>2. UNCHANGED <<pending, call>> /\ (failed' <=> failed)
    BY <1>3
       DEF SpawnMoves, SameShared, SameTracker, SamePhases, SameCalls, SameGrants,
           SameFlags, SameFailure
  <2>3. \A t \in Target : (InFlight(t)' => InFlight(t)) /\ (Awaited(t)' => Awaited(t))
    BY <2>1 DEF InFlight, Awaited
  <2>4. \A th \in Threads : Wakes(th) => Wakes(th)'
    BY <1>d, <2>1 DEF Wakes
  <2> QED
    BY <1>b, <2>2, <2>3, <2>4
<1>4. CASE ByExec
  <2>a. \A th \in Threads : Wakes(th) => Wakes(th)'
    <3>1. Stage("exec") = "none"
      BY <1>4 DEF ByExec, ExecMoves
    <3> QED
      BY <1>4, <1>d, <3>1 DEF ByExec, ExecFrame, Wakes
  <2>b. failed' <=> failed
    BY <1>4
       DEF ByExec, ExecMoves, SameShared, SameTracker, SamePhases, SameCalls,
           SameGrants, SameFlags, SameFailure
  <2>1. CASE ExecMoves!InsertPending
    <3>2. \A t \in Target : t # job'.id => (InFlight(t)' => InFlight(t)) /\ (Awaited(t)' =>
            Awaited(t))
      BY <2>1 DEF InFlight, Awaited
    <3>3. \A t \in Target : t = job'.id => ~InFlight(t)'
      <4>1. \A t \in Target : t = job'.id => open'[t] = NoMethod
        BY <2>1 DEF IdsAreFresh
      <4> QED
        BY <2>1, <4>1 DEF InFlight
    <3>4. /\ pending' = pending \cup {job'.id}
          /\ \A t \in Target : t # job'.id => call'[t] = call[t]
      BY SMTT(60), <1>a, <2>1
    <3> QED
      <4>2. \A t \in Target : Awaited(t)' /\ call'[t] = "waiting" => t \in pending'
        BY <3>2, <3>4 DEF Waking
      <4>3. (\A t \in Target : InFlight(t) => call[t] # "waiting") =>
              \A t \in Target : InFlight(t)' => call'[t] # "waiting"
        BY <3>2, <3>3, <3>4
      <4> QED
        BY <2>a, <2>b, <4>2, <4>3 DEF Waking
  <2>2. CASE ExecMoves!RegisterOutgoing
    <3>3. \A t \in Target : (InFlight(t)' => InFlight(t)) /\ (Awaited(t)' => Awaited(t))
      BY <1>a, <2>2
         DEF InFlight, Awaited, ChangesJob, SameCalls, SameShared, IdsAreFresh
    <3>4. \A t \in Target : call'[t] = "waiting" =>
            call[t] = "waiting" /\ (t \in pending /\ Awaited(t)' => t \in pending')
      BY <1>a, <2>2 DEF InFlight, Awaited, SameCalls, SameShared, IdsAreFresh
    <3> QED
      BY <1>b, <2>a, <2>b, <3>3, <3>4
  <2>3. CASE ExecMoves!CallSent
    <3>2. job.id \in Target
      BY <2>3 DEF Control, ExecHolds, Sending
    <3>3. \A t \in Target : (InFlight(t)' => InFlight(t)) /\ (Awaited(t)' => Awaited(t))
      BY SMTT(60), <1>a, <2>3, <3>2
         DEF InFlight, Awaited, ChangesJob, SameCalls, SameShared, IdsAreFresh
    <3>4. \A t \in Target : call'[t] = "waiting" =>
            call[t] = "waiting" /\ (t \in pending /\ Awaited(t)' => t \in pending')
      BY <1>a, <2>3, <3>2 DEF InFlight, Awaited, SameCalls, SameShared, IdsAreFresh
    <3> QED
      BY <1>b, <2>a, <2>b, <3>3, <3>4
  <2>4. CASE ExecMoves!UndoCall
    <3>2. job.id \in Target
      BY <2>4 DEF Control, ExecHolds, Sending
    <3>3. \A t \in Target : (InFlight(t)' => InFlight(t)) /\ (Awaited(t)' => Awaited(t))
      BY <1>a, <2>4, <3>2
         DEF InFlight, Awaited, ChangesJob, SameCalls, SameShared, IdsAreFresh
    <3>4. \A t \in Target : call'[t] = "waiting" =>
            call[t] = "waiting" /\ (t \in pending /\ Awaited(t)' => t \in pending')
      BY <1>a, <2>4, <3>2 DEF InFlight, Awaited, SameCalls, SameShared, IdsAreFresh
    <3> QED
      BY <1>b, <2>a, <2>b, <3>3, <3>4
  <2>5. CASE ExecMoves!DropCall
    <3>3. \A t \in Target : (InFlight(t)' => InFlight(t)) /\ (Awaited(t)' => Awaited(t))
      BY SMTT(60), <1>a, <2>5
         DEF InFlight, Awaited, ChangesJob, SameCalls, SameShared, IdsAreFresh
    <3>1. /\ Pc("exec")' = "withdraw" /\ call' = call /\ pending' = pending \ {job'.id}
          /\ job'.id \in Target /\ open' = [open EXCEPT ![job'.id] = NoMethod]
      BY <2>5
    <3>2. \A t \in Target : open'[t] # NoMethod => t # job'.id
      BY SMTT(60), <1>a, <3>1
    <3>4. \A t \in Target : call'[t] = "waiting" =>
            call[t] = "waiting" /\ (t \in pending /\ Awaited(t)' => t \in pending')
      BY <3>1, <3>2 DEF InFlight, Awaited
    <3> QED
      BY <1>b, <2>a, <2>b, <3>3, <3>4
  <2>6. CASE ExecMoves!ToolAnswered
    <3>3. \A t \in Target : (InFlight(t)' => InFlight(t)) /\ (Awaited(t)' => Awaited(t))
      BY SMTT(60), <1>a, <2>6
         DEF InFlight, Awaited, ChangesJob, SameCalls, SameShared, IdsAreFresh
    <3>4. \A t \in Target : call'[t] = "waiting" =>
            call[t] = "waiting" /\ (t \in pending /\ Awaited(t)' => t \in pending')
      BY <1>a, <2>6 DEF InFlight, Awaited, SameCalls, SameShared, IdsAreFresh
    <3> QED
      BY <1>b, <2>a, <2>b, <3>3, <3>4
  <2>7. CASE ExecMoves!PermissionAnswered
    <3>3. \A t \in Target : (InFlight(t)' => InFlight(t)) /\ (Awaited(t)' => Awaited(t))
      BY SMTT(60), <1>a, <2>7
         DEF InFlight, Awaited, ChangesJob, SameCalls, SameShared, IdsAreFresh
    <3>4. \A t \in Target : call'[t] = "waiting" =>
            call[t] = "waiting" /\ (t \in pending /\ Awaited(t)' => t \in pending')
      BY <1>a, <2>7 DEF InFlight, Awaited, SameCalls, SameShared, IdsAreFresh
    <3> QED
      BY <1>b, <2>a, <2>b, <3>3, <3>4
  <2>8. CASE ExecMoves!FinishRun
    <3>2. \A t \in Target : open'[t] = NoMethod
      BY <2>8
    <3>3. \A t \in Target : (InFlight(t)' => InFlight(t)) /\ (Awaited(t)' => Awaited(t))
      BY <1>a, <2>8, <3>2
         DEF InFlight, Awaited, ChangesJob, SameCalls, SameShared, IdsAreFresh
    <3>4. \A t \in Target : call'[t] = "waiting" =>
            call[t] = "waiting" /\ (t \in pending /\ Awaited(t)' => t \in pending')
      BY <1>a, <2>8, <3>2 DEF InFlight, Awaited, SameCalls, SameShared, IdsAreFresh
    <3> QED
      BY <1>b, <2>a, <2>b, <3>3, <3>4
  <2>9. CASE ExecMoves!DrainPending
    <3>2. \A t \in Target : call'[t] = IF t \in pending THEN "failed" ELSE call[t]
      BY <2>9 DEF FailPending
    <3>3. \A t \in Target : (InFlight(t)' => InFlight(t)) /\ (Awaited(t)' => Awaited(t))
      BY <1>a, <2>9, <3>2
         DEF InFlight, Awaited, ChangesJob, SameCalls, SameShared, IdsAreFresh
    <3>4. \A t \in Target : call'[t] = "waiting" =>
            call[t] = "waiting" /\ (t \in pending /\ Awaited(t)' => t \in pending')
      BY <1>a, <2>9, <3>2 DEF InFlight, Awaited, SameCalls, SameShared, IdsAreFresh
    <3> QED
      BY <1>b, <2>a, <2>b, <3>3, <3>4
  <2>10. CASE \/ ExecMoves!BeginRun \/ ExecMoves!ObserverEvent \/ ExecMoves!AfterEvent
              \/ ExecMoves!UseHandle \/ ExecMoves!StartCall \/ ExecMoves!Announced
              \/ ExecMoves!CallFailed \/ ExecMoves!WithdrawCall \/ ExecMoves!CallWithdrawn
              \/ ExecMoves!LoseProvider \/ ExecMoves!AllowGrant \/ ExecMoves!IssueGrant
              \/ ExecMoves!DrainNext \/ ExecMoves!ClearGrants \/ ExecMoves!TakeGate
              \/ ExecMoves!DecideResult \/ ExecMoves!Respond \/ ExecMoves!SettleExecution
              \/ ExecMoves!EndExecution
    <3>1. UNCHANGED <<open, pending, call>>
      BY <2>10
         DEF SameShared, SameTracker, SamePhases, SameCalls, SameGrants, SameFlags,
             SameFailure
    <3>2. Pc("exec")' \notin {"register", "sent"}
      BY <2>10
    <3>3. \A t \in Target : (InFlight(t)' => InFlight(t)) /\ (Awaited(t)' => Awaited(t))
      BY <3>1, <3>2 DEF InFlight, Awaited
    <3> QED
      BY <1>b, <2>a, <2>b, <3>1, <3>3
  <2> QED
    BY <1>4, <2>1, <2>2, <2>3, <2>4, <2>5, <2>6, <2>7, <2>8, <2>9, <2>10
       DEF ByExec, ExecMoves
<1>5. CASE ByExecWrite
  <2>1. UNCHANGED <<job, open>>
    BY <1>5 DEF ByExecWrite, WriteMoves, FailMoves
  <2>2. CASE FailMoves("exec")
    <3>1. \A u \in Threads \ {"exec"} : Stage(u)' = Stage(u)
      BY <1>5, <1>d DEF ByExecWrite, ExecFrame
    <3>2. /\ Stage("exec") \notin {"none", "check"}
          /\ Pc("exec")' = Pc("exec") \/ Pc("exec")' \notin {"register", "sent"}
      BY <1>5, <2>2 DEF ByExecWrite, FailMoves, Control, ExecWrites
    <3>3. \A t \in Target : (InFlight(t)' => InFlight(t)) /\ (Awaited(t)' => Awaited(t))
      BY <2>1, <3>2 DEF InFlight, Awaited
    <3> QED
      BY <1>5, <1>c, <1>d, <2>2, <3>1, <3>3 DEF ByExecWrite
  <2>3. CASE WriteMoves("exec")!Send
    <3>1. UNCHANGED <<pending, call>> /\ (failed' <=> failed) /\ Stage("exec") = "send"
      BY <2>3
         DEF SameShared, SameTracker, SamePhases, SameCalls, SameGrants, SameFlags,
             SameFailure
    <3>2. \A th \in Threads : Wakes(th) => Wakes(th)'
      BY <1>5, <1>d, <3>1 DEF ByExecWrite, ExecFrame, Wakes
    <3>3. \/ Pc("exec")' = Pc("exec")
          \/ Pc("exec")' = "sent" /\ Pc("exec") = "register"
          \/ Pc("exec")' \notin {"register", "sent"}
      BY <2>3 DEF Control, ExecWrites
    <3>4. \A t \in Target : (InFlight(t)' => InFlight(t)) /\ (Awaited(t)' => Awaited(t))
      BY <2>1, <3>1, <3>3 DEF InFlight, Awaited
    <3> QED
      BY <1>b, <3>1, <3>2, <3>4
  <2>4. CASE WriteMoves("exec")!Check
    <3>1. UNCHANGED <<pending, call>> /\ (failed' <=> failed) /\ Stage("exec") = "check"
      BY <2>4
         DEF SameShared, SameTracker, SamePhases, SameCalls, SameGrants, SameFlags,
             SameFailure
    <3>2. \A th \in Threads : Wakes(th) => Wakes(th)'
      BY <1>5, <1>d, <3>1 DEF ByExecWrite, ExecFrame, Wakes
    <3>3. \/ Pc("exec")' = Pc("exec") /\ ~failed
          \/ Pc("exec")' \notin {"register", "sent"}
      BY <2>4 DEF Control, ExecWrites
    <3>4. \A t \in Target : (Awaited(t)' => Awaited(t)) /\ (failed => (InFlight(t)' => InFlight(t)))
      BY <2>1, <3>1, <3>3 DEF InFlight, Awaited
    <3> QED
      BY <3>1, <3>2, <3>4 DEF Waking
  <2> QED
    BY <1>5, <2>2, <2>3, <2>4 DEF ByExecWrite, WriteMoves
<1>6. CASE ByWriter
  <2>1. \A t \in Target : (InFlight(t)' => InFlight(t)) /\ (Awaited(t)' => Awaited(t))
    BY <1>6, <1>e DEF ByWriter, WriterFrame
  <2>2. CASE FailMoves("writer")
    <3>1. \A u \in Threads \ {"writer"} : Stage(u)' = Stage(u)
      BY <1>6, <1>d DEF ByWriter, WriterFrame
    <3> QED
      BY <1>6, <1>c, <1>d, <2>1, <2>2, <3>1 DEF ByWriter
  <2>3. CASE DeliverMoves
    <3>1. UNCHANGED <<pending, call>> /\ (failed' <=> failed) /\ Stage("writer") = "none"
      BY <1>6, <2>3
         DEF ByWriter, DeliverMoves, SameShared, SameTracker, SamePhases, SameCalls,
             SameGrants, SameFlags, SameFailure
    <3>2. \A th \in Threads : Wakes(th) => Wakes(th)'
      BY <1>6, <1>d, <3>1 DEF ByWriter, WriterFrame, Wakes
    <3> QED
      BY <1>b, <2>1, <3>1, <3>2
  <2> QED
    BY <1>6, <2>2, <2>3 DEF ByWriter
<1>7. CASE ByNone
  <2>1. \A t \in Target : (InFlight(t)' => InFlight(t)) /\ (Awaited(t)' => Awaited(t))
    BY <1>7, <1>e DEF ByNone
  <2>2. UNCHANGED <<pending, call>> /\ (failed' <=> failed)
    BY <1>7
       DEF ByNone, SameShared, SameTracker, SamePhases, SameCalls, SameGrants,
           SameFlags, SameFailure
  <2>3. \A th \in Threads : Wakes(th) => Wakes(th)'
    BY <1>7, <1>d DEF ByNone, Wakes
  <2> QED
    BY <1>b, <2>1, <2>2, <2>3
<1> QED
  BY <1>1, <1>2, <1>3, <1>4, <1>5, <1>6, <1>7 DEF Moves

-----------------------------------------------------------------------------
(***************************************************************************)
(* The registries are empty once exec has drained them.                    *)
(***************************************************************************)
LEMMA RevokeEmpty ==
  ASSUME NEW g \in Grant
  PROVE  revoke(EmptyRegistry, g) = EmptyRegistry
<1>1. /\ EmptyRegistry.runtime_ids[g] = {}
      /\ \A t \in Target : EmptyRegistry.pending_host_ids[t] # g
  BY NoGrantIsFresh DEF EmptyRegistry
<1> QED
  BY <1>1 DEF revoke

(* Every step keeps the registries empty once exec has drained them.       *)
LEMMA DrainedNext ==
  ASSUME Types, Control, Turns, Drained, Moves
  PROVE  Drained'
<1> USE DEF Is, To, Takes, Carries, SameWrite, Still, Kept
<1>1. CASE ByMain
  <2>1. pending' = pending \/ pending' = pending \ {msg.id}
    BY <1>1
       DEF ByMain, MainMoves, SameShared, SameTracker, SamePhases, SameCalls,
           SameGrants, SameFlags, SameFailure
  <2>2. CASE MainMoves!RevokeGrant
    <3>1. grants' = revoke(grants, msg.grant) /\ Pc("main") = "revoke"
      BY <2>2
    <3>2. msg.grant \in Grant
      BY <3>1 DEF Control, MainHolds
    <3> QED
      BY <1>1, <2>1, <3>1, <3>2, RevokeEmpty DEF ByMain, MainFrame, Drained
  <2>3. CASE ~MainMoves!RevokeGrant
    <3>1. grants' = grants \/ grants' = EmptyRegistry
      BY <1>1, <2>3
         DEF ByMain, MainMoves, SameShared, SameTracker, SamePhases, SameCalls,
             SameGrants, SameFlags, SameFailure
    <3> QED
      BY <1>1, <2>1, <3>1 DEF ByMain, MainFrame, Drained
  <2> QED
    BY <2>2, <2>3
<1>2. CASE ByMainWrite
  <2>1. grants' = grants /\ (pending' = pending \/ pending' = {})
    BY <1>2
       DEF ByMainWrite, WriteMoves, FailMoves, FailPending, SameShared, SameTracker,
           SamePhases, SameCalls, SameGrants, SameFlags, SameFailure
  <2> QED
    BY <1>2, <2>1 DEF ByMainWrite, MainFrame, Drained
<1>3. CASE SpawnMoves
  <2>1. Pc("exec") = "none" /\ Pc("exec")' = "start"
    BY <1>3 DEF SpawnMoves, Turns, Starting
  <2>2. UNCHANGED <<pending, grants>>
    BY <1>3
       DEF SpawnMoves, SameShared, SameTracker, SamePhases, SameCalls, SameGrants,
           SameFlags, SameFailure
  <2> QED
    BY <2>1, <2>2 DEF Drained, Running, Sending, Leaving
<1>4. CASE ByExec
  <2>1. Pc("exec")' \in Running \cup {"drain"} \/ pending' = {} \/ (pending' = pending /\
          Pc("exec") \notin Running \cup {"drain"})
    BY <1>4
       DEF ByExec, ExecMoves, FailPending, Running, Sending, Leaving, SameShared,
           SameTracker, SamePhases, SameCalls, SameGrants, SameFlags, SameFailure
  <2>2. Pc("exec")' \in Running \cup {"drain", "drain1"} \/ grants' = EmptyRegistry \/
          (grants' = grants /\ Pc("exec") \notin Running \cup {"drain", "drain1"})
    BY <1>4
       DEF ByExec, ExecMoves, Running, Sending, Leaving, SameShared, SameTracker,
           SamePhases, SameCalls, SameGrants, SameFlags, SameFailure
  <2> QED
    BY <2>1, <2>2 DEF Drained
<1>5. CASE ByExecWrite
  <2>1. grants' = grants /\ (pending' = pending \/ pending' = {})
    BY <1>5
       DEF ByExecWrite, WriteMoves, FailMoves, FailPending, SameShared, SameTracker,
           SamePhases, SameCalls, SameGrants, SameFlags, SameFailure
  <2>2. \/ Pc("exec")' = Pc("exec")
        \/ Pc("exec")' \in Running \cup {"drain"}
        \/ Pc("exec") \notin Running \cup {"drain", "drain1"}
    BY <1>5
       DEF ByExecWrite, WriteMoves, FailMoves, Control, ExecWrites, Running,
           Sending, Leaving
  <2> QED
    BY <2>1, <2>2 DEF Drained
<1>6. CASE ByWriter
  <2>1. pending' = pending \/ pending' = {}
    BY <1>6
       DEF ByWriter, DeliverMoves, FailMoves, FailPending, SameShared, SameTracker,
           SamePhases, SameCalls, SameGrants, SameFlags, SameFailure
  <2> QED
    BY <1>6, <2>1 DEF ByWriter, WriterFrame, Drained
<1>7. CASE ByNone
  BY <1>7 DEF ByNone, Drained, SameShared, SameGrants
<1> QED
  BY <1>1, <1>2, <1>3, <1>4, <1>5, <1>6, <1>7 DEF Moves

-----------------------------------------------------------------------------
(***************************************************************************)
(* A connection that ends does not come up again.                          *)
(***************************************************************************)
LEMMA StaysDown ==
  ASSUME Control, Moves
  PROVE  Up' => Up
<1> USE DEF Is, To, Takes, Carries, SameWrite, Still, Kept
<1>1. disconnected => disconnected'
  <2>1. CASE ByMain
    BY <2>1
       DEF ByMain, MainMoves, SameShared, SameTracker, SamePhases, SameCalls,
           SameGrants, SameFlags, SameFailure
  <2>2. CASE ByMainWrite
    BY <2>2
       DEF ByMainWrite, WriteMoves, FailMoves, SameShared, SameTracker, SamePhases,
           SameCalls, SameGrants, SameFlags, SameFailure
  <2>3. CASE SpawnMoves
    BY <2>3
       DEF SpawnMoves, SameShared, SameTracker, SamePhases, SameCalls, SameGrants,
           SameFlags, SameFailure
  <2>4. CASE ByExec
    BY <2>4
       DEF ByExec, ExecMoves, SameShared, SameTracker, SamePhases, SameCalls,
           SameGrants, SameFlags, SameFailure
  <2>5. CASE ByExecWrite
    BY <2>5
       DEF ByExecWrite, WriteMoves, FailMoves, SameShared, SameTracker, SamePhases,
           SameCalls, SameGrants, SameFlags, SameFailure
  <2>6. CASE ByWriter
    BY <2>6
       DEF ByWriter, DeliverMoves, FailMoves, SameShared, SameTracker, SamePhases,
           SameCalls, SameGrants, SameFlags, SameFailure
  <2>7. CASE ByNone
    BY <2>7
       DEF ByNone, SameShared, SameTracker, SamePhases, SameCalls, SameGrants,
           SameFlags, SameFailure
  <2> QED
    BY <2>1, <2>2, <2>3, <2>4, <2>5, <2>6, <2>7 DEF Moves
<1>2. Pc("main") \in Ending => Pc("main")' \in Ending
  <2>1. CASE ByMain
    BY <2>1 DEF ByMain, MainMoves, Ending
  <2>2. CASE ByMainWrite
    BY <2>2 DEF ByMainWrite, WriteMoves, FailMoves, Control, MainWrites, Ending
  <2>3. CASE SpawnMoves
    BY <2>3 DEF SpawnMoves, Ending
  <2>4. CASE ByExec \/ ByExecWrite
    BY <2>4 DEF ByExec, ByExecWrite, ExecFrame
  <2>5. CASE ByWriter \/ ByNone
    BY <2>5 DEF ByWriter, ByNone, WriterFrame
  <2> QED
    BY <2>1, <2>2, <2>3, <2>4, <2>5 DEF Moves
<1> QED
  BY <1>1, <1>2 DEF Up

-----------------------------------------------------------------------------
(***************************************************************************)
(* While the connection is up, each request is somebody's to answer and to *)
(* settle.                                                                 *)
(***************************************************************************)
LEMMA SettlingNext ==
  ASSUME Types, Control, Turns, Failing, Failing', Settling, Moves
  PROVE  Settling'
<1> USE DEF Is, To, Takes, Carries, SameWrite, Still, Kept
<1>a. /\ \A i, j \in ReqId : \A m :
           [Incoming EXCEPT ![i] = m][j] = IF i = j THEN m ELSE Incoming[j]
      /\ \A i \in ReqId : EmptyTable[i] = NoMethod
      /\ \A i \in HostIds : i \in ReqId
  BY DEF Types, EmptyTable, HostIds
<1>u. Up' => Up
  BY StaysDown
<1> SUFFICES ASSUME Up', Up,
                    \A id \in ReqId : id \in log.owed => OwedBy(id),
                    \A id \in ReqId : Incoming[id] # NoMethod => SettledBy(id)
             PROVE  /\ \A id \in ReqId : id \in log'.owed => OwedBy(id)'
                    /\ \A id \in ReqId : Incoming'[id] # NoMethod => SettledBy(id)'
  BY <1>u DEF Settling
<1>b. /\ ~disconnected /\ ~failed /\ ~disconnected' /\ ~failed'
      /\ Pc("main")' \notin Ending \cup {"unstart", "unstart2"}
      /\ Pc("exec") # "fin1" /\ Pc("exec")' # "fin1"
  BY DEF Up, Failing
<1>1. CASE ByMain
  <2>1. CASE MainMoves!ReceiveRequest
    <3>1. Pc("main") = "recv" /\ Stage("main") = "none"
      BY <2>1
    <3>2. \/ /\ Pc("main")' = "handle" /\ msg'.id \in HostIds
             /\ Incoming' = [Incoming EXCEPT ![msg'.id] = msg'.method]
             /\ log'.owed = log.owed \cup {msg'.id}
          \/ /\ Pc("main")' = "recv" /\ Stage("main")' = "check" /\ Incoming' = Incoming
             /\ log'.owed = log.owed \cup {For("main")'}
      BY <1>b, <2>1 DEF Ending
    <3>3. \A id \in ReqId :
            /\ id \in log'.owed => id \in log.owed \/ OwedBy(id)'
            /\ Incoming'[id] # NoMethod => Incoming[id] # NoMethod \/ SettledBy(id)'
      BY SMTT(60), <1>a, <3>2 DEF OwedBy, SettledBy, Handling
    <3>4. \A id \in ReqId : (OwedBy(id) => OwedBy(id)') /\ (SettledBy(id) => SettledBy(id)')
      BY <1>1, <3>1 DEF ByMain, MainFrame, OwedBy, SettledBy, Handling
    <3> QED
      BY <3>3, <3>4
  <2>2. CASE ~MainMoves!ReceiveRequest
    <3>1. log'.owed = log.owed /\ Stage("main") = "none"
      BY <1>1, <2>2 DEF ByMain, MainMoves, ChangesLog
    <3>2. Pc("main") \in {"handle", "prepared", "spawn"}
          => Pc("main")' \in {"handle", "prepared", "spawn"} /\ msg' = msg
      BY <1>1, <1>b, <2>2 DEF ByMain, MainMoves, Ending
    <3>3. \/ Incoming' = EmptyTable
          \/ Incoming' = Incoming /\ Pc("main") \notin {"accepted", "refused"}
          \/ Incoming' = [Incoming EXCEPT ![msg.id] = NoMethod] /\ msg.id \in HostIds /\
               Pc("main") \in {"accepted", "refused"}
      BY <1>1, <1>b, <2>2
         DEF ByMain, MainMoves, Ending, SameShared, SameTracker, SamePhases,
             SameCalls, SameGrants, SameFlags, SameFailure
    <3>4. \A id \in ReqId : OwedBy(id) => OwedBy(id)'
      BY <1>1, <3>1, <3>2 DEF ByMain, MainFrame, OwedBy
    <3>5. \A id \in ReqId : SettledBy(id) => SettledBy(id)' \/ (id = msg.id /\
            Pc("main") \in {"accepted", "refused"})
      BY <1>1, <3>2 DEF ByMain, MainFrame, SettledBy, Handling
    <3>6. \A id \in ReqId :
            Incoming'[id] # NoMethod
            => Incoming[id] # NoMethod /\ ~(id = msg.id /\ Pc("main") \in {"accepted", "refused"})
      BY SMTT(60), <1>a, <3>3
    <3> QED
      BY <3>1, <3>4, <3>5, <3>6
  <2> QED
    BY <2>1, <2>2
<1>2. CASE ByMainWrite
  <2>1. Incoming' = Incoming \/ Incoming' = EmptyTable
    BY <1>2
       DEF ByMainWrite, WriteMoves, FailMoves, SameShared, SameTracker, SamePhases,
           SameCalls, SameGrants, SameFlags, SameFailure
  <2>2. msg' = msg
    BY <1>2 DEF ByMainWrite, WriteMoves, FailMoves
  <2>3. Pc("main") \in Handling => Pc("main")' \in Handling
    BY <1>2, <1>b
       DEF ByMainWrite, WriteMoves, FailMoves, Control, MainWrites, Handling, Ending
  <2>4. \/ /\ log'.owed = log.owed
           /\ Pc("main") \in {"handle", "prepared", "spawn"} => Pc("main")' \in {"handle",
                "prepared", "spawn"}
           /\ Pc("main") = "recv" => Pc("main")' = "recv" /\ Stage("main")' # "none" /\
                For("main")' = For("main")
        \/ /\ log'.owed = log.owed \ {For("main")}
           /\ Pc("main") = "recv" \/ (Pc("main") = "handle" /\ For("main") = msg.id)
    BY <1>2, <1>b
       DEF ByMainWrite, WriteMoves, FailMoves, Enqueues, Control, MainWrites,
           ChangesLog, Ending
  <2>5. \A id \in ReqId : OwedBy(id) => OwedBy(id)' \/ id \notin log'.owed
    BY <1>2, <2>2, <2>4 DEF ByMainWrite, MainFrame, OwedBy
  <2>6. \A id \in ReqId : SettledBy(id) => SettledBy(id)'
    BY <1>2, <2>2, <2>3 DEF ByMainWrite, MainFrame, SettledBy
  <2>7. \A id : id \in log'.owed => id \in log.owed
    BY <2>4
  <2> QED
    BY <1>a, <2>1, <2>5, <2>6, <2>7
<1>3. CASE SpawnMoves
  <2>1. /\ Pc("main") = "spawn" /\ Pc("exec") = "none" /\ Pc("exec")' = "start" /\ job'.req = msg.id
    BY <1>3 DEF SpawnMoves, Turns, Starting
  <2>2. log' = log /\ Incoming' = Incoming
    BY <1>3
       DEF SpawnMoves, SameShared, SameTracker, SamePhases, SameCalls, SameGrants,
           SameFlags, SameFailure
  <2>3. \A id \in ReqId : (OwedBy(id) => OwedBy(id)') /\ (SettledBy(id) => SettledBy(id)')
    BY <2>1 DEF OwedBy, SettledBy, Handling, Unanswered, Running, Sending, Leaving
  <2> QED
    BY <2>2, <2>3
<1>4. CASE ByExec
  <2>1. log' = log
    BY <1>4 DEF ByExec, ExecMoves
  <2>2. Pc("exec") \in Unanswered => Pc("exec")' \in Unanswered
    BY <1>4, <1>b DEF ByExec, ExecMoves, Unanswered, Running, Sending, Leaving
  <2>3. Pc("exec") # "fin2" => job'.req = job.req
    BY <1>4 DEF ByExec, ExecMoves, ChangesJob
  <2>4. \/ Incoming' = Incoming /\ (Pc("exec") \notin {"none", "fin2"} =>
             Pc("exec")' \notin {"none", "fin2"})
        \/ Incoming' = [Incoming EXCEPT ![job.req] = NoMethod] /\ Pc("exec") = "settle"
        \/ Incoming' = Incoming /\ Pc("exec") = "fin2"
    BY <1>4, <1>b
       DEF ByExec, ExecMoves, SameShared, SameTracker, SamePhases, SameCalls,
           SameGrants, SameFlags, SameFailure
  <2>5. Pc("exec") = "settle" => job.req \in HostIds
    BY DEF Control, ExecHolds
  <2>6. Pc("exec") = "fin2" => Pc("exec") \notin Unanswered
    BY DEF Unanswered, Running, Sending, Leaving
  <2>7. \A id \in ReqId : OwedBy(id) => OwedBy(id)'
    BY <1>4, <2>2, <2>3, <2>6 DEF ByExec, ExecFrame, OwedBy
  <2>s. \/ Pc("exec") \notin {"none", "fin2"} => Pc("exec")' \notin {"none", "fin2"}
        \/ Pc("exec") = "settle" /\ Incoming'[job.req] = NoMethod
    BY SMTT(60), <1>a, <2>4, <2>5
  <2>m. Pc("main")' = Pc("main") /\ msg' = msg
    BY <1>4 DEF ByExec, ExecFrame, Still
  <2>8. \A id \in ReqId : SettledBy(id) =>
          SettledBy(id)' \/ (Pc("exec") = "settle" /\ id = job.req /\ Incoming'[id] = NoMethod)
    BY <2>3, <2>m, <2>s DEF SettledBy
  <2>9. \A id \in ReqId : Incoming'[id] # NoMethod => Incoming[id] # NoMethod
    BY SMTT(60), <1>a, <2>4, <2>5
  <2> QED
    BY <2>1, <2>7, <2>8, <2>9
<1>5. CASE ByExecWrite
  <2>1. Incoming' = Incoming \/ Incoming' = EmptyTable
    BY <1>5
       DEF ByExecWrite, WriteMoves, FailMoves, SameShared, SameTracker, SamePhases,
           SameCalls, SameGrants, SameFlags, SameFailure
  <2>2. job' = job
    BY <1>5 DEF ByExecWrite, WriteMoves, FailMoves
  <2>3. Pc("exec") \notin {"none", "fin2"} /\ Pc("exec")' \notin {"none", "fin2"}
    BY <1>5, <1>b DEF ByExecWrite, WriteMoves, FailMoves, Control, ExecWrites
  <2>4. \/ log'.owed = log.owed /\ (Pc("exec") \in Unanswered => Pc("exec")' \in Unanswered)
        \/ log'.owed = log.owed \ {job.req}
    BY <1>5, <1>b
       DEF ByExecWrite, WriteMoves, FailMoves, Enqueues, Control, ExecWrites,
           ChangesLog, Unanswered, Running, Sending, Leaving
  <2>5. \A id \in ReqId : OwedBy(id) => OwedBy(id)' \/ id \notin log'.owed
    BY <1>5, <2>2, <2>4 DEF ByExecWrite, ExecFrame, OwedBy
  <2>6. \A id \in ReqId : SettledBy(id) => SettledBy(id)'
    BY <1>5, <2>2, <2>3 DEF ByExecWrite, ExecFrame, SettledBy
  <2>7. \A id : id \in log'.owed => id \in log.owed
    BY <2>4
  <2> QED
    BY <1>a, <2>1, <2>5, <2>6, <2>7
<1>6. CASE ByWriter
  <2>1. Incoming' = Incoming \/ Incoming' = EmptyTable
    BY <1>6
       DEF ByWriter, DeliverMoves, FailMoves, SameShared, SameTracker, SamePhases,
           SameCalls, SameGrants, SameFlags, SameFailure
  <2>2. \A id \in ReqId : (OwedBy(id) => OwedBy(id)') /\ (SettledBy(id) => SettledBy(id)')
    BY <1>6 DEF ByWriter, WriterFrame, OwedBy, SettledBy
  <2>3. log' = log
    BY <1>6 DEF ByWriter, WriterFrame
  <2> QED
    BY <1>a, <2>1, <2>2, <2>3
<1>7. CASE ByNone
  <2>1. Incoming' = Incoming /\ log' = log
    BY <1>7
       DEF ByNone, SameShared, SameTracker, SamePhases, SameCalls, SameGrants,
           SameFlags, SameFailure
  <2>2. \A id \in ReqId : (OwedBy(id) => OwedBy(id)') /\ (SettledBy(id) => SettledBy(id)')
    BY <1>7 DEF ByNone, OwedBy, SettledBy
  <2> QED
    BY <2>1, <2>2
<1> QED
  BY <1>1, <1>2, <1>3, <1>4, <1>5, <1>6, <1>7 DEF Moves

-----------------------------------------------------------------------------
(***************************************************************************)
(* While the connection is up, a call the tracker knows is in the registry *)
(* of pending calls, or exec is about to give it up.                       *)
(***************************************************************************)
LEMMA FindingNext ==
  ASSUME Types, Control, Turns, Failing, IdsAreFresh, Crossing, Finding, Moves
  PROVE  Finding'
<1> USE DEF Is, To, Takes, Carries, SameWrite, Still, Kept
<1>a. /\ \A i, j \in ReqId : \A m :
           [Outgoing EXCEPT ![i] = m][j] = IF i = j THEN m ELSE Outgoing[j]
      /\ \A i \in ReqId : EmptyTable[i] = NoMethod
      /\ \A i \in Target : i \in ReqId
      /\ \A i \in job.todo : i \in Target
  BY ServerAssumption DEF Types, EmptyTable, Jobs
<1>u. Up' => Up
  BY StaysDown
<1>v. ASSUME \A id \in ReqId : Outgoing'[id] # NoMethod => Outgoing[id] # NoMethod /\
               (Found(id) => Found(id)'),
             Pc("exec")' # "register" \/ Stage("exec")' # "none"
      PROVE  Finding'
  BY <1>u, <1>v DEF Finding
<1>w. Up => ~failed /\ ~disconnected
  BY DEF Up, Failing
<1>1. CASE ByMain
  <2>1. CASE MainMoves!CompleteCall
    <3>1. pending' = pending \ {msg.id} /\ Pc("main") = "complete"
      BY <2>1
    <3>2. Outgoing' = Outgoing
      BY <2>1 DEF SameTracker
    <3>3. msg.id \in Target /\ msg.id \in log.heard
      BY <3>1 DEF Control, MainHolds, Crossing
    <3>4. Outgoing[msg.id] = NoMethod /\ ~(Pc("exec") = "register" /\ Stage("exec") = "none" /\
            job.id = msg.id)
      BY <3>3 DEF Crossing
    <3> QED
      BY <1>1, <1>u, <3>1, <3>2, <3>4 DEF ByMain, MainFrame, Finding, Found
  <2>2. CASE ~MainMoves!CompleteCall
    <3>1. pending' = pending
      BY <1>1, <2>2
         DEF ByMain, MainMoves, SameShared, SameTracker, SamePhases, SameCalls,
             SameGrants, SameFlags, SameFailure
    <3>2. Outgoing' = Outgoing \/ Outgoing' = EmptyTable \/ \E id \in Target :
            Outgoing' = [Outgoing EXCEPT ![id] = NoMethod]
      BY <1>1, <2>2
         DEF ByMain, MainMoves, SameShared, SameTracker, SamePhases, SameCalls,
             SameGrants, SameFlags, SameFailure
    <3>3. \A id \in ReqId : Outgoing'[id] # NoMethod => Outgoing[id] # NoMethod
      BY SMTT(60), <1>a, <3>2
    <3> QED
      BY <1>1, <1>u, <3>1, <3>3 DEF ByMain, MainFrame, Finding, Found
  <2> QED
    BY <2>1, <2>2
<1>2. CASE ByMainWrite
  <2>1. pending' = pending \/ Stage("main") = "failall"
    BY <1>2
       DEF ByMainWrite, WriteMoves, FailMoves, SameShared, SameTracker, SamePhases,
           SameCalls, SameGrants, SameFlags, SameFailure
  <2>2. Outgoing' = Outgoing \/ Outgoing' = EmptyTable
    BY <1>2
       DEF ByMainWrite, WriteMoves, FailMoves, SameShared, SameTracker, SamePhases,
           SameCalls, SameGrants, SameFlags, SameFailure
  <2>3. Stage("main") = "failall" => failed
    BY DEF Failing, Threads
  <2> QED
    BY <1>2, <1>a, <1>u, <1>w, <2>1, <2>2, <2>3
       DEF ByMainWrite, MainFrame, Finding, Found
<1>3. CASE SpawnMoves
  <2>1. Pc("exec") = "none" /\ Pc("exec")' = "start" /\ job'.todo = {}
    BY <1>3 DEF SpawnMoves, Turns, Starting
  <2>2. Outgoing' = Outgoing /\ pending' = pending
    BY <1>3
       DEF SpawnMoves, SameShared, SameTracker, SamePhases, SameCalls, SameGrants,
           SameFlags, SameFailure
  <2>3. job.todo = {}
    BY <2>1 DEF Control, ExecHolds
  <2> QED
    BY <1>v, <2>1, <2>2, <2>3 DEF Found
<1>4. CASE ByExec
  <2>1. CASE ExecMoves!InsertPending
    <3>2. Outgoing' = Outgoing /\ pending' = pending \cup {job'.id} /\ job'.todo = job.todo
      BY <2>1 DEF ChangesJob, SameTracker
    <3>3. Pc("exec") = "insert"
      BY <2>1
    <3> QED
      BY <1>u, <3>2, <3>3 DEF Finding, Found
  <2>2. CASE ExecMoves!RegisterOutgoing
    <3>2. job.id \in Target
      BY <2>2 DEF Control, ExecHolds, Sending
    <3>3. /\ UNCHANGED <<job, pending>> /\ Pc("exec") = "register" /\ Stage("exec") = "none"
          /\ Stage("exec")' # "none" \/ Pc("exec")' = "uninsert"
          /\ Outgoing' = Outgoing \/ Outgoing' = [Outgoing EXCEPT ![job.id] = job.method]
      BY <2>2 DEF SameCalls
    <3>4. \A id \in ReqId : Outgoing'[id] # NoMethod => Outgoing[id] # NoMethod \/ id = job.id
      BY SMTT(60), <1>a, <3>2, <3>3
    <3>5. Up => job.id \in pending'
      BY <3>3 DEF Finding
    <3>6. \A id \in ReqId : (Found(id) => Found(id)') /\ (id \in pending' => Found(id)')
      BY <3>3 DEF Found
    <3> QED
      BY <1>u, <3>3, <3>4, <3>5, <3>6 DEF Finding
  <2>3. CASE ExecMoves!UndoCall
    <3>2. job.id \in Target
      BY <2>3 DEF Control, ExecHolds, Sending
    <3>4. Pc("exec") = "uninsert" => Outgoing[job.id] = NoMethod
      BY <2>3 DEF Crossing
    <3>5. /\ job' = job /\ pending' = pending \ {job.id}
          /\ \/ Pc("exec") = "uninsert" /\ Pc("exec")' = "callfailed" /\ Outgoing' = Outgoing
             \/ Pc("exec") = "unregister" /\ Pc("exec")' = "untrack" /\ Outgoing' = Outgoing
             \/ /\ Pc("exec") = "untrack" /\ Pc("exec")' = "callfailed"
                /\ Outgoing' = [Outgoing EXCEPT ![job.id] = NoMethod]
      BY <2>3
    <3>8. \A id \in ReqId :
            Outgoing'[id] # NoMethod => Outgoing[id] # NoMethod /\ (Found(id) => Found(id)')
      BY SMTT(60), <1>a, <3>2, <3>4, <3>5 DEF Found
    <3>9. Pc("exec")' # "register" \/ Stage("exec")' # "none"
      BY <2>3
    <3> QED
      BY <1>v, <3>8, <3>9
  <2>4. CASE ExecMoves!DropCall
    <3>5. /\ pending' = pending \ {job'.id} /\ Pc("exec")' = "withdraw" /\ job'.todo = job.todo
          /\ Outgoing' = Outgoing /\ Pc("exec") = "run"
      BY <2>4 DEF ChangesJob, SameTracker
    <3>8. \A id \in ReqId :
            Outgoing'[id] # NoMethod => Outgoing[id] # NoMethod /\ (Found(id) => Found(id)')
      BY <1>a, <3>5 DEF Found
    <3>9. Pc("exec")' # "register" \/ Stage("exec")' # "none"
      BY <2>4
    <3> QED
      BY <1>v, <3>8, <3>9
  <2>5. CASE ExecMoves!WithdrawCall
    <3>2. job.id \in Target
      BY <2>5 DEF Control, ExecHolds, Leaving
    <3>5. Outgoing' = [Outgoing EXCEPT ![job.id] = NoMethod] /\ UNCHANGED <<job, pending>>
      BY <2>5 DEF SameCalls
    <3>8. \A id \in ReqId :
            Outgoing'[id] # NoMethod => Outgoing[id] # NoMethod /\ (Found(id) => Found(id)')
      BY SMTT(60), <1>a, <3>2, <3>5 DEF Found
    <3>9. Pc("exec")' # "register" \/ Stage("exec")' # "none"
      BY <2>5
    <3> QED
      BY <1>v, <3>8, <3>9
  <2>6. CASE ExecMoves!DrainPending
    <3>5. job'.todo = pending /\ Outgoing' = Outgoing /\ Pc("exec") = "drain"
      BY <2>6 DEF SameTracker
    <3>2. job.todo = {}
      BY <3>5 DEF Control, ExecHolds
    <3>8. \A id \in ReqId :
            Outgoing'[id] # NoMethod => Outgoing[id] # NoMethod /\ (Found(id) => Found(id)')
      BY <3>2, <3>5 DEF Found
    <3>9. Pc("exec")' # "register" \/ Stage("exec")' # "none"
      BY <2>6
    <3> QED
      BY <1>v, <3>8, <3>9
  <2>7. CASE ExecMoves!DrainNext
    <3>2. PICK i \in job.todo : job'.todo = job.todo \ {i} /\
                 Outgoing' = [Outgoing EXCEPT ![i] = NoMethod]
      BY <2>7
    <3>5. pending' = pending /\ Pc("exec") = "drain1"
      BY <2>7 DEF SameCalls
    <3>6. i \in Target
      BY <1>a
    <3>8. \A id \in ReqId :
            Outgoing'[id] # NoMethod => Outgoing[id] # NoMethod /\ (Found(id) => Found(id)')
      BY SMTT(60), <1>a, <3>2, <3>5, <3>6 DEF Found
    <3>9. Pc("exec")' # "register" \/ Stage("exec")' # "none"
      BY <2>7
    <3> QED
      BY <1>v, <3>8, <3>9
  <2>8. CASE \/ ExecMoves!BeginRun \/ ExecMoves!ObserverEvent \/ ExecMoves!AfterEvent
             \/ ExecMoves!UseHandle \/ ExecMoves!StartCall \/ ExecMoves!Announced
             \/ ExecMoves!CallSent \/ ExecMoves!CallFailed \/ ExecMoves!CallWithdrawn
             \/ ExecMoves!ToolAnswered \/ ExecMoves!PermissionAnswered
             \/ ExecMoves!LoseProvider \/ ExecMoves!AllowGrant \/ ExecMoves!IssueGrant
             \/ ExecMoves!FinishRun \/ ExecMoves!ClearGrants \/ ExecMoves!TakeGate
             \/ ExecMoves!DecideResult \/ ExecMoves!Respond \/ ExecMoves!SettleExecution
             \/ ExecMoves!EndExecution
    <3>1. Outgoing' = Outgoing /\ pending' = pending
      BY <2>8
         DEF SameShared, SameTracker, SamePhases, SameCalls, SameGrants, SameFlags,
             SameFailure
    <3>2. Pc("exec")' # "register" /\ Pc("exec") \notin {"unregister", "untrack", "withdraw"}
      BY <2>8
    <3>3. job'.todo = job.todo
      <4>1. job'.todo = job.todo \/ (Pc("exec") = "fin2" /\ job' = NoJob)
        BY <2>8 DEF ChangesJob
      <4> QED
        BY SMTT(60), <4>1 DEF NoJob, Control, ExecHolds
    <3>4. \A id \in ReqId :
            Outgoing'[id] # NoMethod => Outgoing[id] # NoMethod /\ (Found(id) => Found(id)')
      BY <3>1, <3>2, <3>3 DEF Found
    <3> QED
      BY <1>v, <3>2, <3>4
  <2> QED
    BY <1>4, <2>1, <2>2, <2>3, <2>4, <2>5, <2>6, <2>7, <2>8 DEF ByExec, ExecMoves
<1>5. CASE ByExecWrite
  <2>1. pending' = pending \/ Stage("exec") = "failall"
    BY <1>5
       DEF ByExecWrite, WriteMoves, FailMoves, SameShared, SameTracker, SamePhases,
           SameCalls, SameGrants, SameFlags, SameFailure
  <2>2. Outgoing' = Outgoing \/ Outgoing' = EmptyTable
    BY <1>5
       DEF ByExecWrite, WriteMoves, FailMoves, SameShared, SameTracker, SamePhases,
           SameCalls, SameGrants, SameFlags, SameFailure
  <2>3. Stage("exec") = "failall" => failed
    BY DEF Failing, Threads
  <2>4. job' = job /\ (Stage("exec")' = "none" => Pc("exec")' # "register")
    BY <1>5 DEF ByExecWrite, WriteMoves, FailMoves, Control, ExecWrites
  <2>5. \/ Pc("exec")' = Pc("exec")
        \/ Pc("exec") \notin {"unregister", "untrack", "withdraw"}
        \/ Pc("exec") = "withdraw" /\ Kind("exec") = "cancel" /\ For("exec") = job.id /\
             Stage("exec") # "none"
    BY <1>5 DEF ByExecWrite, WriteMoves, FailMoves, Control, ExecWrites
  <2>6. Pc("exec") = "withdraw" /\ Stage("exec") # "none" => Outgoing[job.id] = NoMethod
    <3>1. Pc("exec") = "withdraw" /\ Stage("exec") # "none" => Withdrawing(job.id) /\
            job.id \in Target
      BY DEF Control, ExecWrites, ExecHolds, Withdrawing
    <3> QED
      BY <3>1 DEF Crossing
  <2> QED
    BY <1>a, <1>u, <1>w, <2>1, <2>2, <2>3, <2>4, <2>5, <2>6 DEF Finding, Found
<1>6. CASE ByWriter
  <2>1. pending' = pending \/ Stage("writer") = "failall"
    BY <1>6
       DEF ByWriter, DeliverMoves, FailMoves, SameShared, SameTracker, SamePhases,
           SameCalls, SameGrants, SameFlags, SameFailure
  <2>2. Outgoing' = Outgoing \/ Outgoing' = EmptyTable
    BY <1>6
       DEF ByWriter, DeliverMoves, FailMoves, SameShared, SameTracker, SamePhases,
           SameCalls, SameGrants, SameFlags, SameFailure
  <2>3. Stage("writer") = "failall" => failed
    BY DEF Failing, Threads
  <2> QED
    BY <1>6, <1>a, <1>u, <1>w, <2>1, <2>2, <2>3
       DEF ByWriter, WriterFrame, Finding, Found
<1>7. CASE ByNone
  <2>1. Outgoing' = Outgoing /\ pending' = pending
    BY <1>7
       DEF ByNone, SameShared, SameTracker, SamePhases, SameCalls, SameGrants,
           SameFlags, SameFailure
  <2> QED
    BY <1>7, <1>u, <2>1 DEF ByNone, Finding, Found
<1> QED
  BY <1>1, <1>2, <1>3, <1>4, <1>5, <1>6, <1>7 DEF Moves

-----------------------------------------------------------------------------
(***************************************************************************)
(* The invariant of a connection, and that every step keeps it.            *)
(***************************************************************************)
LEMMA LayersNext ==
  ASSUME Types, Layers, Moves
  PROVE  Layers'
<1> USE DEF Layers
<1>1. Control' /\ Turns' /\ Failing' /\ Severed'
  BY ControlNext, TurnsNext, FailingNext, SeveredNext
<1>2. Owing' /\ Numbering' /\ Honouring'
  BY OwingNext, NumberingNext, HonouringNext
<1>3. IdsAreFresh' /\ Crossing'
  BY IdsAreFreshNext, CrossingNext
<1>4. GrantedOnce' /\ Biting'
  BY GrantsNext
<1>5. Waking'
  BY WakingNext
<1>6. Drained' /\ Settling' /\ Finding'
  BY <1>1, DrainedNext, SettlingNext, FindingNext
<1> QED
  BY <1>1, <1>2, <1>3, <1>4, <1>5, <1>6
=============================================================================
