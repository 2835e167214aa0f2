---------------------------- MODULE ServerMoves -----------------------------
(***************************************************************************)
(* The inductive invariant of a JOSH connection, in layers, and what a     *)
(* step of main, of exec and of the writer thread does as far as a layer   *)
(* can tell: a table with a row for each action of JoshServer (Moves).     *)
(* ServerLayerProofs shows that a step in the table preserves every layer, *)
(* JoshServerProofs that the steps of JoshServer are in the table.         *)
(***************************************************************************)
EXTENDS ServerState

(***************************************************************************)
(* Where the threads can be.                                               *)
(***************************************************************************)
(* main is inside the handler of an execution/start it has accepted ...    *)
Starting == {"prepared", "spawn", "unstart", "unstart2"}

(* ... or has left the receive loop for good.                              *)
Ending == {"ret", "ret_cancel", "ret_join", "ret_clear", "ret_tracker", "done"}

MainLabels ==
  {"boot", "idle", "recv", "complete", "cancel", "revoke", "handle", "accepted",
   "refused"} \cup Starting \cup Ending

(* exec is between the insertion of a call and the end of its start ...    *)
Sending == {"register", "sent", "uninsert", "unregister", "untrack", "callfailed"}

(* ... gives a call up ...                                                 *)
Leaving == {"withdraw", "withdrawn"}

(* ... runs the program ...                                                *)
Running ==
  {"run", "counted", "abort", "announced", "insert", "lose", "allow", "issue"}
    \cup Sending \cup Leaving

(* ... or holds the commit gate.                                           *)
Committing == {"decide", "respond", "settle", "fin1", "fin2"}

ExecLabels == {"none", "start", "drain", "drain1", "gate"} \cup Running \cup Committing

Stages == {"check", "send", "fail", "cancel", "failall", "disconnect"}

Frames ==
  [kind : {"ready"}]
    \cup [kind : {"event", "terminal"}, seq : Nat]
    \cup [kind : {"response", "cancel", "request"}, id : ReqId]
    \cup [kind : {"result"}, id : ReqId, result : Results]

CallStates == {"none", "waiting", "failed", "good", "bad", "violation"} \cup Grant

Jobs ==
  [req : HostIds \cup {None}, exec : ExecId \cup {None}, seq : Nat,
   result : Results \cup {None}, violation : BOOLEAN, lost : BOOLEAN,
   id : Target \cup {None}, method : CallMethods \cup {NoMethod},
   grant : Grant \cup {NoGrant}, todo : SUBSET Target]

Logs ==
  [owed : SUBSET ReqId, doubled : BOOLEAN, seq : Nat, over : BOOLEAN,
   result : Results \cup {None}, cancels : SUBSET ReqId, heard : SUBSET Target,
   honoured : BOOLEAN, bitten : SUBSET Target]

Labels == MainLabels \cup ExecLabels \cup {"live", "dead"}

(* What a thread is writing, by the labels it goes on at; the writer       *)
(* thread only fails.                                                      *)
Writes(labels) == [at : Stages, frame : Frames, ok : labels, err : labels]

WriterFails == [at : Stages \ {"check", "send"}, err : {"dead"}]

Places ==
  /\ pc \in [Threads -> Labels]
  /\ pc["main"] \in MainLabels /\ pc["exec"] \in ExecLabels
  /\ pc["writer"] \in {"live", "dead"}
  /\ wr \in [Threads -> {NoFrame} \cup Writes(Labels) \cup WriterFails]
  /\ wr["main"] \in {NoFrame} \cup Writes(MainLabels)
  /\ wr["exec"] \in {NoFrame} \cup Writes(ExecLabels)
  /\ wr["writer"] \in {NoFrame} \cup WriterFails

Calls ==
  /\ open \in [Target -> CallMethods \cup {NoMethod}]
  /\ pending \subseteq Target
  /\ call \in [Target -> CallStates]
  /\ spent \subseteq scene.targets
  /\ grants \in Registries
  /\ live \subseteq Target

Flags ==
  /\ scene \in Scenarios
  /\ active \in HostIds \cup {None}
  /\ execution_ids \subseteq ExecId
  /\ gate \in {None, "exec"}
  /\ cancelled \in BOOLEAN /\ disconnected \in BOOLEAN /\ failed \in BOOLEAN
  /\ queued \in 0..QueueDepth

(***************************************************************************)
(* The parts of the state the invariant speaks of: where a thread is, the  *)
(* stage of its write ("none" when it writes nothing), what the frame says *)
(* and the labels it goes on at; the two tables of the tracker, whether it *)
(* is disconnected and whether an execution is active.                     *)
(***************************************************************************)
Pc(t) == pc[t]

Stage(t) == wr[t].at

Kind(t) == wr[t].frame.kind

Number(t) == wr[t].frame.seq

For(t) == wr[t].frame.id

Outcome(t) == wr[t].frame.result

Ok(t) == wr[t].ok

Err(t) == wr[t].err

Incoming == tracker.incoming

Outgoing == tracker.outgoing

Down == tracker.state = "Disconnected"

Executing == tracker.active_execution

(* What the layers need of the types of the variables.                     *)
Types ==
  /\ Pc("main") \in MainLabels /\ Pc("exec") \in ExecLabels
  /\ Incoming \in [ReqId -> Methods \cup {NoMethod}]
  /\ Outgoing \in [ReqId -> Methods \cup {NoMethod}]
  /\ Stage("writer") # "none" => Err("writer") = "dead"
  /\ job \in Jobs
  /\ log \in Logs
  /\ Calls
  /\ Flags

(***************************************************************************)
(* What main and exec have on their stacks.                                *)
(***************************************************************************)
(* The message main handles fits the handler.                              *)
MainHolds ==
  /\ Pc("main") \in {"handle", "accepted", "refused"} \cup Starting =>
       /\ msg \in Requests /\ msg.id \in HostIds /\ msg.method \in HostMethods
       /\ msg.method = "execution/start" => msg.exec \in ExecId
  /\ Pc("main") = "accepted" => msg.method # "execution/start"
  /\ Pc("main") \in Starting => msg.method = "execution/start"
  /\ Pc("main") = "complete" =>
       msg \in [id : Target, answer : CallStates \ {"none", "waiting", "failed"}]
  /\ Pc("main") = "cancel" => msg \in [id : HostIds]
  /\ Pc("main") = "revoke" => msg \in [grant : Grant]

(* The frame main writes and the labels it goes on at.                     *)
MainWrites ==
  Stage("main") # "none" =>
    \/ /\ Pc("main") = "boot" /\ Kind("main") = "ready"
       /\ Ok("main") = "idle" /\ Err("main") = "ret"
    \/ /\ Pc("main") = "recv"
       /\ Kind("main") = "response" /\ For("main") \in HostIds
       /\ Ok("main") = "idle" /\ Err("main") = "ret"
    \/ /\ Pc("main") = "handle"
       /\ Kind("main") = "response" /\ For("main") = msg.id
       /\ Ok("main") \in {"accepted", "refused"} /\ Err("main") = "ret"
       /\ Ok("main") = "accepted" => msg.method # "execution/start"
    \/ /\ Pc("main") = "prepared"
       /\ Kind("main") = "event" /\ Number("main") = 1
       /\ Ok("main") = "spawn" /\ Err("main") = "unstart"

(* What exec has on its stack at each label.  The id and the method of a   *)
(* call that failed are gone when its EffectFailed event is written.       *)
ExecHolds ==
  /\ Pc("exec") = "none" => job = NoJob
  /\ Pc("exec") # "none" => job.req \in HostIds /\ job.exec \in ExecId
  /\ Pc("exec") = "start" => job.id = None /\ job.todo = {} /\ job.seq = 3
  /\ Pc("exec") \in {"insert"} \cup Sending \cup Leaving /\ Stage("exec") = "none" =>
       job.method \in CallMethods
  /\ Pc("exec") \in Sending \cup Leaving /\ Stage("exec") = "none" => job.id \in Target
  /\ Pc("exec") = "register" => job.id \in Target /\ job.method \in CallMethods
  /\ Pc("exec") = "withdraw" => job.id \in Target /\ job.method \in CallMethods
  /\ Pc("exec") \in {"allow", "issue"} => job.id \in Target /\ job.grant \in Grant
  /\ Pc("exec") \in {"run", "counted", "abort", "announced", "insert", "drain", "drain1", "gate"}
         \cup Committing =>
       job.id = None \/ Stage("exec") # "none"
  /\ Pc("exec") \in {"announced", "insert"} => spent # scene.targets
  /\ Pc("exec") \in {"drain", "drain1", "gate"} \cup Committing => job.result \in Results
  /\ Pc("exec") \notin {"drain1"} => job.todo = {}

(* The frame exec writes and the labels it goes on at.                     *)
ExecWrites ==
  Stage("exec") # "none" =>
    \/ /\ Pc("exec") = "start"
       /\ Kind("exec") = "event" /\ Number("exec") = 2
       /\ Ok("exec") = "run" /\ Err("exec") = "abort"
    \/ /\ Pc("exec") = "run"
       /\ Kind("exec") = "event" /\ Number("exec") = job.seq
       /\ \/ /\ Ok("exec") = "counted" /\ Err("exec") \in {"abort", "run", "lose"}
             /\ job.id = None
          \/ /\ Ok("exec") = "announced" /\ Err("exec") = "run" /\ spent # scene.targets
             /\ job.id = None
          \/ /\ Ok("exec") = "allow" /\ Err("exec") = "lose"
             /\ job.id \in Target /\ job.grant \in Grant
    \/ /\ Pc("exec") \in {"callfailed", "withdrawn"}
       /\ Kind("exec") = "event" /\ Number("exec") = job.seq
       /\ Ok("exec") = "counted" /\ Err("exec") = "run" /\ job.id = None
    \/ /\ Pc("exec") = "register"
       /\ Kind("exec") = "request" /\ For("exec") = job.id
       /\ Ok("exec") = "sent" /\ Err("exec") = "unregister"
    \/ /\ Pc("exec") = "withdraw"
       /\ Kind("exec") = "cancel" /\ For("exec") = job.id
       /\ Ok("exec") = "withdrawn" /\ Err("exec") = "withdrawn"
    \/ /\ Pc("exec") = "drain1"
       /\ Kind("exec") = "cancel" /\ For("exec") \in Target
       /\ Ok("exec") = "drain1" /\ Err("exec") = "drain1" /\ job.id = None
    \/ /\ Pc("exec") = "decide"
       /\ Kind("exec") = "terminal" /\ Number("exec") = job.seq
       /\ Ok("exec") = "respond" /\ Err("exec") = "fin1" /\ job.id = None
    \/ /\ Pc("exec") = "respond"
       /\ Kind("exec") = "result" /\ For("exec") = job.req /\ Outcome("exec") = job.result
       /\ Ok("exec") = "settle" /\ Err("exec") = "fin1" /\ job.id = None

(***************************************************************************)
(* Who has the execution.                                                  *)
(***************************************************************************)
(* One thread at a time has the active execution: main while it starts it, *)
(* then exec until its end.  The commit gate is exec's from the decision   *)
(* on, and main clears up only after exec.                                 *)
Turns ==
  /\ Pc("exec") # "none" => active = job.req /\ Pc("main") \notin Starting
  /\ Pc("main") \in Starting \ {"unstart2"} => active = msg.id
  /\ active # None => \/ Pc("exec") # "none"
                      \/ Pc("main") \in (Starting \ {"unstart2"}) \cup Ending
  /\ Pc("main") \in {"ret_clear", "ret_tracker", "done"} => Pc("exec") = "none"
  /\ gate = "exec" <=> Pc("exec") \in Committing
  /\ Executing =>
       \/ Pc("exec") \notin {"none", "fin2"}
       \/ Pc("main") = "prepared" /\ Stage("main") # "none"
       \/ Pc("main") \in {"spawn", "unstart", "unstart2"}

(* The flags and the tracker tell that the connection failed in this order.*)
Failing ==
  /\ failed => disconnected
  /\ \A t \in Threads : Stage(t) \in {"cancel", "failall", "disconnect"} => failed
  /\ Pc("writer") = "dead" => failed
  /\ Down => failed \/ Pc("main") = "done"
  /\ Pc("main") \in {"ret_cancel", "ret_join", "ret_clear", "ret_tracker", "done"} => disconnected
  /\ Pc("exec") = "fin1" => disconnected
  /\ Pc("main") \in {"unstart", "unstart2"} => disconnected

(* The connection was not failed by exec while exec is about to enqueue.   *)
Severed ==
  Down /\ Stage("exec") = "send" =>
    Pc("writer") = "dead" \/ Pc("main") \in Ending \cup {"unstart", "unstart2"}

(***************************************************************************)
(* Requests of the host.                                                   *)
(***************************************************************************)
(* Exec still has the response to execution/start to write.                *)
Unanswered == {"start", "drain", "drain1", "gate", "decide", "respond"} \cup Running

(* ... and main has the request it received on its stack.                  *)
Handling == {"handle", "accepted", "refused", "prepared", "spawn"}

(* Who owes an answer, and that the tracker knows the request until then.  *)
Owing ==
  /\ ~log.doubled
  /\ Pc("exec") \in Unanswered => job.req \in log.owed
  /\ Pc("exec") \notin {"none", "fin2"} => Incoming[job.req] # NoMethod \/ Down
  /\ Pc("main") \in {"handle", "prepared", "spawn"} => msg.id \in log.owed
  /\ Pc("main") \in Handling => Incoming[msg.id] # NoMethod \/ Down
  /\ Pc("main") \in Handling /\ Pc("exec") \notin {"none", "fin2"} => msg.id # job.req
  /\ Stage("main") # "none" /\ Kind("main") = "response" =>
       /\ For("main") \in log.owed
       /\ Pc("exec") \in Unanswered =>
            \/ For("main") # job.req
            \/ Stage("main") = "check" /\ Down

(***************************************************************************)
(* Events.                                                                 *)
(***************************************************************************)
(* exec has written an event and not counted it yet ...                    *)
Counting == {"counted", "announced", "allow"}

(* ... or its counter is the number of the next event.                     *)
Counted == ({"drain", "drain1", "gate", "decide"} \cup Running) \ Counting

(* The number of the last event and the counter of exec.                   *)
Numbering ==
  /\ Pc("main") = "spawn" => log.seq = 1 /\ ~log.over /\ log.result = None
  /\ Pc("exec") \in Unanswered => job.seq > 2 /\ log.result = None
  /\ Pc("exec") = "start" => log.seq = 1 /\ ~log.over
  /\ Pc("exec") \in Counted =>
       /\ log.seq + 1 = job.seq \/ (log.seq = 1 /\ job.seq = 3)
       /\ ~log.over
  /\ Pc("exec") \in Counting => log.seq = job.seq /\ ~log.over
  /\ Pc("exec") = "respond" => log.seq = job.seq /\ log.over

(* An accepted cancellation stays with the execution until its result is   *)
(* decided, and then in the result.                                        *)
Honouring ==
  log.honoured =>
    /\ log.result \in {None, "Cancelled", "Violation"}
    /\ Pc("main") # "spawn"
    /\ Pc("exec") \in Unanswered =>
         \/ cancelled
         \/ Pc("exec") \in Committing /\ job.result \in {"Cancelled", "Violation"}
    /\ \/ Pc("exec") = "decide" /\ Stage("exec") # "none"
       \/ Pc("exec") = "respond"
       => job.result \in {"Cancelled", "Violation"}

(***************************************************************************)
(* Calls to the host.                                                      *)
(***************************************************************************)
(* In a registry: the grant of t waits for its issue, or was revoked while *)
(* it did, its handle is bound to a grant id, or is queued as revoked.     *)
Waits(r, t) == r.pending_host_ids[t] # NoGrant

Struck(r, t) == t \in r.revoked_pending_targets

Bound(r, t) == \E g \in Grant : t \in r.runtime_ids[g]

Queued(r, t) == t \in r.revoked

(* The host's grant for t was taken in.                                    *)
Granted(t) ==
  \/ Waits(grants, t) \/ Struck(grants, t) \/ Bound(grants, t) \/ Queued(grants, t)
  \/ t \in live
  \/ t \in log.bitten

(* exec is writing the Cancel of the call of t.                            *)
Withdrawing(t) == Stage("exec") # "none" /\ Kind("exec") = "cancel" /\ For("exec") = t

(* An id is used once: what knows an id knows it from outgoing_ids, and    *)
(* the call it stands for is in one place.                                 *)
Known(t) ==
  \/ t \in pending \/ t \in job.todo \/ t \in log.heard \/ t \in log.cancels
  \/ Withdrawing(t) \/ Outgoing[t] # NoMethod

IdsAreFresh ==
  /\ \A t \in ReqId : Known(t) => t \in spent
  /\ \A t \in Target : open[t] # NoMethod => t \in spent /\ Pc("exec") \in Running
  /\ job.id # None => job.id \in spent /\ open[job.id] = NoMethod

(* A grant is taken in once, after the call has its answer.                *)
GrantedOnce ==
  \A t \in Target :
    Granted(t) =>
      /\ t \in spent
      /\ open[t] = NoMethod
      /\ job.id = t => Pc("exec") = "issue"

(* A revoked handle is queued, or its revocation waits for its issue.      *)
Biting ==
  \A t \in Target :
    /\ t \in log.bitten /\ t \in live => Queued(grants, t)
    /\ Waits(grants, t) => t \notin live /\ ~Struck(grants, t)
    /\ Struck(grants, t) => t \notin live
    /\ Pc("exec") \notin Running => t \notin live
    /\ Pc("exec") = "issue" /\ job.id = t =>
         /\ t \notin live
         /\ ~Bound(grants, t)
         /\ t \in log.bitten => Struck(grants, t)

(* A call the tracker has let go of is not registered again, and it was    *)
(* answered or withdrawn, not both.                                        *)
Crossing ==
  /\ \A t \in log.heard : t \notin log.cancels /\ ~Withdrawing(t)
  /\ \A t \in Target : t \in log.heard \/ t \in log.cancels \/ Withdrawing(t) =>
       /\ Outgoing[t] = NoMethod
       /\ ~(Pc("exec") = "register" /\ Stage("exec") = "none" /\ job.id = t)
  /\ Pc("exec") \in {"register", "uninsert"} /\ Stage("exec") = "none" =>
       Outgoing[job.id] = NoMethod
  /\ Pc("main") = "complete" => msg.id \in log.heard

(* The request of t may reach the host, or has.                            *)
InFlight(t) ==
  \/ open[t] # NoMethod
  \/ job.id = t /\ Pc("exec") = "sent"
  \/ job.id = t /\ Pc("exec") = "register" /\ Stage("exec") \notin {"none", "check"}

(* ... or the call of t has yet to be sent.                                *)
Awaited(t) == InFlight(t) \/ (job.id = t /\ Pc("exec") = "register")

(* A thread has failed the connection and not yet the calls.               *)
Wakes(t) == Stage(t) \in {"cancel", "failall"}

(* Whoever fails the connection finds every waiting call in the registry,  *)
(* and none is sent after that.                                            *)
Waking ==
  /\ \A t \in Target : Awaited(t) /\ call[t] = "waiting" => t \in pending
  /\ failed =>
       \/ \E th \in Threads : Wakes(th)
       \/ \A t \in Target : InFlight(t) => call[t] # "waiting"

(***************************************************************************)
(* What is left behind.                                                    *)
(***************************************************************************)
Up == ~disconnected /\ Pc("main") \notin Ending

(* The registries are empty once exec has drained them.                    *)
Drained ==
  /\ Pc("exec") \notin Running \cup {"drain"} => pending = {}
  /\ Pc("exec") \notin Running \cup {"drain", "drain1"} => grants = EmptyRegistry

(* Whoever has yet to answer a request, and to settle it with the tracker. *)
OwedBy(id) ==
  \/ Pc("main") \in {"handle", "prepared", "spawn"} /\ id = msg.id
  \/ Pc("main") = "recv" /\ Stage("main") # "none" /\ id = For("main")
  \/ Pc("exec") \in Unanswered /\ id = job.req

SettledBy(id) ==
  \/ Pc("main") \in Handling /\ id = msg.id
  \/ Pc("exec") \notin {"none", "fin2"} /\ id = job.req

Settling ==
  Up => /\ \A id \in ReqId : id \in log.owed => OwedBy(id)
        /\ \A id \in ReqId : Incoming[id] # NoMethod => SettledBy(id)

(* Where a call the tracker knows is found, and that a call is in the      *)
(* registry when it is registered.                                         *)
Found(id) ==
  \/ id \in pending \/ id \in job.todo
  \/ id = job.id /\ Pc("exec") \in {"unregister", "untrack", "withdraw"}

Finding ==
  Up => /\ \A id \in ReqId : Outgoing[id] # NoMethod => Found(id)
        /\ Pc("exec") = "register" /\ Stage("exec") = "none" => job.id \in pending
(* What a step changes of exec's stack and of the history.                 *)
ChangesJob(fields) ==
  /\ "req" \notin fields => job'.req = job.req
  /\ "exec" \notin fields => job'.exec = job.exec
  /\ "seq" \notin fields => job'.seq = job.seq
  /\ "result" \notin fields => job'.result = job.result
  /\ "violation" \notin fields => job'.violation = job.violation
  /\ "lost" \notin fields => job'.lost = job.lost
  /\ "id" \notin fields => job'.id = job.id
  /\ "method" \notin fields => job'.method = job.method
  /\ "grant" \notin fields => job'.grant = job.grant
  /\ "todo" \notin fields => job'.todo = job.todo

ChangesLog(fields) ==
  /\ "owed" \notin fields => log'.owed = log.owed
  /\ "doubled" \notin fields => (log'.doubled <=> log.doubled)
  /\ "seq" \notin fields => log'.seq = log.seq
  /\ "over" \notin fields => (log'.over <=> log.over)
  /\ "result" \notin fields => log'.result = log.result
  /\ "cancels" \notin fields => log'.cancels = log.cancels
  /\ "heard" \notin fields => log'.heard = log.heard
  /\ "honoured" \notin fields => (log'.honoured <=> log.honoured)
  /\ "bitten" \notin fields => log'.bitten = log.bitten

(***************************************************************************)
(* The steps of a connection, as far as the invariant tells: where a       *)
(* thread is, where it goes, or what it begins to write ...                *)
(***************************************************************************)
Is(t, label) == Pc(t) = label /\ Stage(t) = "none"

To(t, label) == Pc(t)' = label /\ Stage(t)' = "none"

Takes(t, kind, ok, err) ==
  /\ Pc(t)' = Pc(t) /\ Stage(t)' = "check"
  /\ Kind(t)' = kind /\ Ok(t)' = ok /\ Err(t)' = err

(* ... how it goes on with that ...                                        *)
Carries(t, stage) == Pc(t)' = Pc(t) /\ Stage(t)' = stage /\ Err(t)' = Err(t)

SameWrite(t) ==
  /\ Kind(t)' = Kind(t) /\ Number(t)' = Number(t) /\ For(t)' = For(t)
  /\ Outcome(t)' = Outcome(t) /\ Ok(t)' = Ok(t)

(* ... and what stays: a thread, the tracker, its phase, the calls, the    *)
(* grants and the flags.                                                   *)
Still(t) == Carries(t, Stage(t)) /\ SameWrite(t)

SamePhases == (Down' <=> Down) /\ (Executing' <=> Executing)

SameTracker == Incoming' = Incoming /\ Outgoing' = Outgoing /\ SamePhases

SameCalls == UNCHANGED <<open, pending, call, spent>>

SameGrants == UNCHANGED <<grants, live>>

Kept(flag) == flag' <=> flag

SameFailure == Kept(disconnected) /\ Kept(failed)

SameFlags == UNCHANGED <<active, gate>> /\ Kept(cancelled) /\ SameFailure

SameShared == SameTracker /\ UNCHANGED <<pending, call, spent>> /\ SameGrants /\ SameFlags

(***************************************************************************)
(* A write, by whichever thread: what the host can tell from the frame ... *)
(***************************************************************************)
Enqueues(t) ==
  /\ Kind(t) \in {"ready", "request"} => log' = log
  /\ Kind(t) = "event" /\ Number(t) = 1 =>
       /\ ChangesLog({"seq", "over", "result", "honoured"})
       /\ log'.seq = 1 /\ ~log'.over /\ log'.result = None /\ ~log'.honoured
  /\ Kind(t) = "event" /\ Number(t) # 1 => ChangesLog({"seq"}) /\ log'.seq = Number(t)
  /\ Kind(t) = "terminal" =>
       ChangesLog({"seq", "over"}) /\ log'.seq = Number(t) /\ log'.over
  /\ Kind(t) \in {"response", "result"} =>
       /\ log'.owed = log.owed \ {For(t)}
       /\ log'.doubled <=> log.doubled \/ For(t) \notin log.owed
  /\ Kind(t) = "response" => ChangesLog({"owed", "doubled"})
  /\ Kind(t) = "result" =>
       ChangesLog({"owed", "doubled", "result"}) /\ log'.result = Outcome(t)
  /\ Kind(t) = "cancel" =>
       ChangesLog({"cancels"}) /\ log'.cancels = log.cancels \cup {For(t)}

(* ... the check and the enqueuing ...                                     *)
WriteMoves(t) ==
  \/ Check::
       /\ Stage(t) = "check"
       /\ \/ To(t, Err(t)) /\ (failed \/ Kind(t) = "request")
          \/ Carries(t, "send") /\ SameWrite(t) /\ ~failed
       /\ UNCHANGED <<msg, job, open, log>> /\ SameShared
  \/ Send::
       /\ Stage(t) = "send"
       /\ \/ To(t, Ok(t)) /\ Pc("writer") = "live" /\ Enqueues(t)
          \/ Carries(t, "fail") /\ SameWrite(t) /\ log' = log
       /\ UNCHANGED <<msg, job, open>> /\ SameShared

(* ... and the failure of the connection.                                  *)
FailMoves(t) ==
  /\ \/ /\ Stage(t) = "fail" /\ Carries(t, "cancel")
        /\ failed' /\ disconnected'
        /\ UNCHANGED <<pending, call>> /\ Kept(cancelled) /\ SameTracker
     \/ /\ Stage(t) = "cancel" /\ Carries(t, "failall")
        /\ cancelled' <=> cancelled \/ active # None
        /\ UNCHANGED <<pending, call>> /\ SameFailure /\ SameTracker
     \/ /\ Stage(t) = "failall" /\ Carries(t, "disconnect")
        /\ FailPending
        /\ Kept(cancelled) /\ SameFailure /\ SameTracker
     \/ /\ Stage(t) = "disconnect" /\ To(t, Err(t))
        /\ Down' /\ ~Executing' /\ Incoming' = EmptyTable /\ Outgoing' = EmptyTable
        /\ UNCHANGED <<pending, call>> /\ Kept(cancelled) /\ SameFailure
  /\ t # "writer" /\ Stage(t) # "disconnect" => SameWrite(t)
  /\ UNCHANGED <<msg, job, open, log, active, spent, grants, live, gate>>

(***************************************************************************)
(* The steps of exec.                                                      *)
(***************************************************************************)
ExecMoves ==
  \/ BeginRun::
       /\ Is("exec", "start")
       /\ ChangesJob({"result"})
       /\ \/ To("exec", "drain") /\ job'.result = IF cancelled THEN "Cancelled" ELSE "Failed"
          \/ To("exec", "run") /\ job' = job
          \/ Takes("exec", "event", "run", "abort") /\ Number("exec")' = 2 /\ job' = job
       /\ UNCHANGED <<open, log>> /\ SameShared
  \/ ObserverEvent::
       /\ Is("exec", "run")
       /\ Takes("exec", "event", "counted", "abort") /\ Number("exec")' = job.seq
       /\ UNCHANGED <<job, open, log>> /\ SameShared
  \/ AfterEvent::
       /\ To("exec", "run")
       /\ ChangesJob({"seq"})
       /\ \/ Is("exec", "counted") /\ job'.seq = job.seq + 1 /\ Kept(cancelled)
          \/ Is("exec", "abort") /\ job'.seq = job.seq /\ cancelled'
       /\ UNCHANGED log /\ SameTracker /\ SameCalls /\ SameGrants
       /\ UNCHANGED <<active, gate>> /\ SameFailure
  \/ UseHandle::
       /\ Is("exec", "run") /\ Still("exec")
       /\ grants' = take_revocations(grants) /\ live' = live \ grants.revoked
       /\ UNCHANGED <<job, log>> /\ SameTracker /\ SameCalls /\ SameFlags
  \/ StartCall::
       /\ Is("exec", "run") /\ spent # scene.targets
       /\ ChangesJob({"method"})
       /\ \/ /\ Takes("exec", "event", "announced", "run") /\ Number("exec")' = job.seq
             /\ SameGrants
          \/ /\ To("exec", "insert") /\ job'.method = "permission/request"
             /\ \/ SameGrants
                \/ grants' = take_revocations(grants) /\ live' = live \ grants.revoked
       /\ UNCHANGED log /\ SameTracker /\ SameCalls /\ SameFlags
  \/ Announced::
       /\ Is("exec", "announced") /\ To("exec", "insert")
       /\ ChangesJob({"seq", "method"})
       /\ job'.seq = job.seq + 1 /\ job'.method = "tool/invoke"
       /\ UNCHANGED <<open, log>> /\ SameShared
  \/ InsertPending::
       /\ Is("exec", "insert") /\ To("exec", "register")
       /\ ChangesJob({"id"}) /\ job'.id \in Target \ spent
       /\ spent' = spent \cup {job'.id} /\ pending' = pending \cup {job'.id}
       /\ call' = [call EXCEPT ![job'.id] = "waiting"]
       /\ UNCHANGED <<open, log>> /\ SameTracker /\ SameGrants /\ SameFlags
  \/ RegisterOutgoing::
       /\ Is("exec", "register")
       /\ \/ /\ Takes("exec", "request", "sent", "unregister") /\ For("exec")' = job.id
             /\ ~Down /\ Outgoing' = [Outgoing EXCEPT ![job.id] = job.method]
          \/ To("exec", "uninsert") /\ Outgoing' = Outgoing
       /\ Incoming' = Incoming /\ SamePhases
       /\ UNCHANGED <<job, log>> /\ SameCalls /\ SameGrants /\ SameFlags
  \/ CallSent::
       /\ Is("exec", "sent") /\ To("exec", "run")
       /\ ChangesJob({"id", "method"}) /\ job'.id = None /\ job'.method = NoMethod
       /\ open' = [open EXCEPT ![job.id] = job.method]
       /\ UNCHANGED log /\ SameShared
  \/ UndoCall::
       /\ \/ Is("exec", "uninsert") /\ To("exec", "callfailed") /\ Outgoing' = Outgoing
          \/ Is("exec", "unregister") /\ To("exec", "untrack") /\ Outgoing' = Outgoing
          \/ /\ Is("exec", "untrack") /\ To("exec", "callfailed")
             /\ Outgoing' = [Outgoing EXCEPT ![job.id] = NoMethod]
       /\ pending' = pending \ {job.id}
       /\ Incoming' = Incoming /\ SamePhases
       /\ UNCHANGED <<job, open, call, spent, log>> /\ SameGrants /\ SameFlags
  \/ CallFailed::
       /\ Is("exec", "callfailed")
       /\ ChangesJob({"id", "method", "lost"}) /\ job'.id = None /\ job'.method = NoMethod
       /\ \/ /\ Takes("exec", "event", "counted", "run") /\ Number("exec")' = job.seq
             /\ live' = live
          \/ To("exec", "run") /\ live' = {}
       /\ UNCHANGED <<log, grants>> /\ SameTracker /\ SameCalls /\ SameFlags
  \/ DropCall::
       /\ Is("exec", "run") /\ To("exec", "withdraw")
       /\ ChangesJob({"id", "method", "lost"})
       /\ job'.id \in Target /\ open[job'.id] # NoMethod /\ job'.method = open[job'.id]
       /\ open' = [open EXCEPT ![job'.id] = NoMethod] /\ pending' = pending \ {job'.id}
       /\ live' = live \/ live' = {}
       /\ UNCHANGED <<call, spent, grants, log>> /\ SameTracker /\ SameFlags
  \/ WithdrawCall::
       /\ Is("exec", "withdraw")
       /\ \/ /\ Takes("exec", "cancel", "withdrawn", "withdrawn") /\ For("exec")' = job.id
             /\ Outgoing[job.id] # NoMethod
          \/ To("exec", "withdrawn")
       /\ Outgoing' = [Outgoing EXCEPT ![job.id] = NoMethod]
       /\ Incoming' = Incoming /\ SamePhases
       /\ UNCHANGED <<job, log>> /\ SameCalls /\ SameGrants /\ SameFlags
  \/ CallWithdrawn::
       /\ Is("exec", "withdrawn")
       /\ ChangesJob({"id", "method"}) /\ job'.id = None /\ job'.method = NoMethod
       /\ \/ Takes("exec", "event", "counted", "run") /\ Number("exec")' = job.seq
          \/ To("exec", "run")
       /\ UNCHANGED <<open, log>> /\ SameShared
  \/ ToolAnswered::
       /\ Is("exec", "run")
       /\ Takes("exec", "event", "counted", "run") /\ Number("exec")' = job.seq
       /\ ChangesJob({"violation"})
       /\ ~cancelled
       /\ \E id \in Target : open' = [open EXCEPT ![id] = NoMethod]
       /\ UNCHANGED <<pending, call, spent, log>> /\ SameTracker /\ SameGrants
       /\ UNCHANGED <<active, gate>> /\ SameFailure
  \/ PermissionAnswered::
       /\ Is("exec", "run")
       /\ ChangesJob({"id", "grant"})
       /\ \E id \in Target :
            /\ open[id] # NoMethod /\ open' = [open EXCEPT ![id] = NoMethod]
            /\ \/ To("exec", "lose") /\ job' = job
               \/ /\ Takes("exec", "event", "counted", "lose") /\ Number("exec")' = job.seq
                  /\ job' = job
               \/ /\ Takes("exec", "event", "allow", "lose") /\ Number("exec")' = job.seq
                  /\ job'.id = id /\ job'.grant \in Grant
       /\ UNCHANGED log /\ SameShared
  \/ LoseProvider::
       /\ Is("exec", "lose") /\ To("exec", "run")
       /\ ChangesJob({"lost", "id", "grant"}) /\ job'.id = None
       /\ live' = {}
       /\ UNCHANGED <<grants, log>> /\ SameTracker /\ SameCalls /\ SameFlags
  \/ AllowGrant::
       /\ Is("exec", "allow")
       /\ \/ To("exec", "lose") /\ allowed_again(grants, job.id)
          \/ To("exec", "issue") /\ ~allowed_again(grants, job.id)
       /\ ChangesJob({"seq"}) /\ job'.seq = job.seq + 1
       /\ grants' = allowed(grants, job.id, job.grant)
       /\ UNCHANGED <<live, log>> /\ SameTracker /\ SameCalls /\ SameFlags
  \/ IssueGrant::
       /\ Is("exec", "issue") /\ To("exec", "run")
       /\ ChangesJob({"id", "grant"}) /\ job'.id = None
       /\ \/ live' = live \cup {job.id} /\ grants' = issued(grants, job.id)
          \/ SameGrants
       /\ UNCHANGED log /\ SameTracker /\ SameCalls /\ SameFlags
  \/ FinishRun::
       /\ Is("exec", "run") /\ To("exec", "drain")
       /\ ChangesJob({"result"}) /\ job'.result \in Results
       /\ cancelled => job'.result = "Cancelled"
       /\ open' = [t \in Target |-> NoMethod] /\ live' = {}
       /\ UNCHANGED <<pending, call, spent, grants, log>> /\ SameTracker /\ SameFlags
  \/ DrainPending::
       /\ Is("exec", "drain") /\ To("exec", "drain1")
       /\ ChangesJob({"todo"}) /\ job'.todo = pending
       /\ FailPending
       /\ UNCHANGED <<open, spent, log>> /\ SameTracker /\ SameGrants /\ SameFlags
  \/ DrainNext::
       /\ Is("exec", "drain1")
       /\ ChangesJob({"todo"})
       /\ \E id \in job.todo :
            /\ job'.todo = job.todo \ {id}
            /\ Outgoing' = [Outgoing EXCEPT ![id] = NoMethod]
            /\ \/ /\ Takes("exec", "cancel", "drain1", "drain1") /\ For("exec")' = id
                  /\ Outgoing[id] # NoMethod
               \/ To("exec", "drain1")
       /\ Incoming' = Incoming /\ SamePhases
       /\ UNCHANGED log /\ SameCalls /\ SameGrants /\ SameFlags
  \/ ClearGrants::
       /\ Is("exec", "drain1") /\ To("exec", "gate") /\ job.todo = {}
       /\ grants' = EmptyRegistry
       /\ UNCHANGED <<job, live, log>> /\ SameTracker /\ SameCalls /\ SameFlags
  \/ TakeGate::
       /\ Is("exec", "gate") /\ To("exec", "decide")
       /\ gate = None /\ gate' = "exec"
       /\ UNCHANGED <<job, log>> /\ SameTracker /\ SameCalls /\ SameGrants
       /\ UNCHANGED active /\ Kept(cancelled) /\ SameFailure
  \/ DecideResult::
       /\ Is("exec", "decide")
       /\ ChangesJob({"result"})
       /\ \/ disconnected /\ To("exec", "fin1") /\ job' = job
          \/ /\ Takes("exec", "terminal", "respond", "fin1") /\ Number("exec")' = job.seq
             /\ job'.result = IF job.violation THEN "Violation"
                              ELSE IF cancelled THEN "Cancelled" ELSE job.result
       /\ UNCHANGED <<open, log>> /\ SameShared
  \/ Respond::
       /\ Is("exec", "respond")
       /\ Takes("exec", "result", "settle", "fin1")
       /\ For("exec")' = job.req /\ Outcome("exec")' = job.result
       /\ UNCHANGED <<job, open, log>> /\ SameShared
  \/ SettleExecution::
       /\ \/ /\ Is("exec", "settle")
             /\ Incoming' = [Incoming EXCEPT ![job.req] = NoMethod]
          \/ Is("exec", "fin1") /\ Incoming' = Incoming
       /\ To("exec", "fin2")
       /\ Outgoing' = Outgoing /\ (Down' <=> Down) /\ ~Executing'
       /\ UNCHANGED <<job, log>> /\ SameCalls /\ SameGrants /\ SameFlags
  \/ EndExecution::
       /\ Is("exec", "fin2") /\ To("exec", "none")
       /\ job' = NoJob /\ gate' = None
       /\ active' = IF active = job.req THEN None ELSE active
       /\ UNCHANGED log /\ SameTracker /\ SameCalls /\ SameGrants
       /\ Kept(cancelled) /\ SameFailure

(***************************************************************************)
(* The steps of main.                                                      *)
(***************************************************************************)
MainMoves ==
  \/ ReceiveEnd::
       /\ Is("main", "recv") /\ To("main", "ret") /\ disconnected'
       /\ UNCHANGED <<msg, log, pending, call, grants>> /\ SameTracker
       /\ UNCHANGED active /\ Kept(cancelled) /\ Kept(failed)
  \/ ReceiveRequest::
       /\ Is("main", "recv")
       /\ \/ /\ To("main", "ret") /\ disconnected'
             /\ UNCHANGED <<msg, log>> /\ Incoming' = Incoming
          \/ /\ To("main", "handle") /\ Kept(disconnected)
             /\ msg' \in Requests /\ msg'.id \in HostIds /\ msg'.method \in HostMethods
             /\ msg'.method = "execution/start" => msg'.exec \in ExecId
             /\ Incoming[msg'.id] = NoMethod /\ ~Down
             /\ Incoming' = [Incoming EXCEPT ![msg'.id] = msg'.method]
             /\ ChangesLog({"owed"}) /\ log'.owed = log.owed \cup {msg'.id}
          \/ /\ Takes("main", "response", "idle", "ret")
             /\ For("main")' \in HostIds /\ Incoming[For("main")'] = NoMethod
             /\ UNCHANGED msg /\ Kept(disconnected) /\ Incoming' = Incoming
             /\ ChangesLog({"owed"}) /\ log'.owed = log.owed \cup {For("main")'}
       /\ Outgoing' = Outgoing /\ SamePhases
       /\ UNCHANGED <<pending, call, grants, active>> /\ Kept(cancelled) /\ Kept(failed)
  \/ ReceiveResponse::
       /\ Is("main", "recv")
       /\ \E id \in Target :
            /\ Outgoing' = [Outgoing EXCEPT ![id] = NoMethod]
            /\ \/ /\ To("main", "ret") /\ disconnected'
                  /\ UNCHANGED <<msg, log>>
               \/ /\ To("main", "complete") /\ Kept(disconnected)
                  /\ msg' \in [id : Target, answer : CallStates \ {"none", "waiting", "failed"}]
                  /\ msg'.id = id
                  /\ Outgoing[id] # NoMethod
                  /\ ChangesLog({"heard"}) /\ log'.heard = log.heard \cup {id}
       /\ Incoming' = Incoming /\ SamePhases
       /\ UNCHANGED <<pending, call, grants, active>> /\ Kept(cancelled) /\ Kept(failed)
  \/ ReceiveCancel::
       /\ Is("main", "recv")
       /\ \/ To("main", "cancel") /\ msg' \in [id : HostIds]
          \/ To("main", "idle") /\ msg' = msg
       /\ UNCHANGED <<log, pending, call, grants>> /\ SameTracker
       /\ UNCHANGED active /\ Kept(cancelled) /\ SameFailure
  \/ ReceiveRevoke::
       /\ Is("main", "recv")
       /\ \/ To("main", "revoke") /\ msg' \in [grant : Grant] /\ Kept(disconnected)
          \/ To("main", "ret") /\ msg' = msg /\ disconnected'
       /\ UNCHANGED <<log, pending, call, grants>> /\ SameTracker
       /\ UNCHANGED active /\ Kept(cancelled) /\ Kept(failed)
  \/ Boot::
       /\ Is("main", "boot") /\ Takes("main", "ready", "idle", "ret")
       /\ UNCHANGED <<msg, log>> /\ SameShared
  \/ PollInput::
       /\ \/ Is("main", "idle") /\ To("main", "recv") /\ ~disconnected
          \/ Is("main", "idle") /\ To("main", "ret") /\ disconnected
          \/ Is("main", "recv") /\ To("main", "idle")
       /\ UNCHANGED <<msg, log>> /\ SameShared
  \/ CompleteCall::
       /\ Is("main", "complete") /\ To("main", "idle")
       /\ pending' = pending \ {msg.id}
       /\ call' = IF msg.id \in pending THEN [call EXCEPT ![msg.id] = msg.answer] ELSE call
       /\ UNCHANGED <<log, grants>> /\ SameTracker /\ SameFlags
  \/ CancelExecution::
       /\ Is("main", "cancel") /\ To("main", "idle") /\ gate = None
       /\ cancelled' <=> cancelled \/ active = msg.id
       /\ ChangesLog({"honoured"})
       /\ log'.honoured <=> log.honoured \/ active = msg.id
       /\ UNCHANGED <<pending, call, grants, active>> /\ SameFailure /\ SameTracker
  \/ RevokeGrant::
       /\ Is("main", "revoke") /\ To("main", "idle")
       /\ grants' = revoke(grants, msg.grant)
       /\ ChangesLog({"bitten"})
       /\ log'.bitten = log.bitten \cup (grants'.revoked \ grants.revoked)
             \cup (grants'.revoked_pending_targets \ grants.revoked_pending_targets)
       /\ UNCHANGED <<pending, call>> /\ SameTracker /\ SameFlags
  \/ HandleSetup::
       /\ Is("main", "handle") /\ msg.method # "execution/start"
       /\ \/ Takes("main", "response", "accepted", "ret")
          \/ Takes("main", "response", "refused", "ret")
       /\ For("main")' = msg.id
       /\ UNCHANGED <<msg, log>> /\ SameShared
  \/ CommitSetup::
       /\ Is("main", "accepted") /\ msg.id \in HostIds
       /\ \/ /\ Incoming' = [Incoming EXCEPT ![msg.id] = NoMethod]
             /\ To("main", "idle") \/ To("main", "ret")
          \/ Incoming' = Incoming /\ To("main", "ret")
       /\ Outgoing' = Outgoing /\ SamePhases
       /\ UNCHANGED <<log, pending, call, grants>> /\ SameFlags
  \/ CommitRefusal::
       /\ Is("main", "refused") /\ msg.id \in HostIds
       /\ To("main", "idle") \/ To("main", "ret")
       /\ Incoming' = [Incoming EXCEPT ![msg.id] = NoMethod]
       /\ Outgoing' = Outgoing /\ SamePhases
       /\ UNCHANGED <<log, pending, call, grants>> /\ SameFlags
  \/ PrepareExecution::
       /\ Is("main", "handle") /\ msg.method = "execution/start"
       /\ \/ /\ Takes("main", "response", "refused", "ret") /\ For("main")' = msg.id
             /\ UNCHANGED active /\ Kept(cancelled)
          \/ /\ To("main", "prepared")
             /\ active = None /\ active' = msg.id /\ ~cancelled'
       /\ UNCHANGED <<msg, log, pending, call, grants>> /\ SameFailure /\ SameTracker
  \/ StartExecution::
       /\ Is("main", "prepared")
       /\ \/ /\ Takes("main", "event", "spawn", "unstart") /\ Number("main")' = 1
          \/ To("main", "ret") /\ (Executing' <=> Executing)
       /\ Incoming' = Incoming /\ Outgoing' = Outgoing /\ (Down' <=> Down)
       /\ UNCHANGED <<msg, log, pending, call, grants>> /\ SameFlags
  \/ UndoStart::
       /\ \/ /\ Is("main", "unstart") /\ To("main", "unstart2") /\ (Executing' <=> Executing)
             /\ active' = IF active = msg.id THEN None ELSE active
          \/ /\ Is("main", "unstart2") /\ To("main", "ret") /\ active' = active
             /\ ~Executing'
       /\ Incoming' = Incoming /\ Outgoing' = Outgoing /\ (Down' <=> Down)
       /\ UNCHANGED <<msg, log, pending, call, grants>> /\ Kept(cancelled) /\ SameFailure
  \/ EndConnection::
       /\ \/ /\ Is("main", "ret") /\ To("main", "ret_cancel") /\ disconnected'
             /\ UNCHANGED grants /\ Kept(cancelled) /\ SameTracker
          \/ /\ Is("main", "ret_cancel") /\ To("main", "ret_join")
             /\ cancelled' <=> cancelled \/ active # None
             /\ UNCHANGED grants /\ Kept(disconnected) /\ SameTracker
          \/ /\ Is("main", "ret_join") /\ To("main", "ret_clear") /\ Pc("exec") = "none"
             /\ UNCHANGED grants /\ Kept(cancelled) /\ Kept(disconnected) /\ SameTracker
          \/ /\ Is("main", "ret_clear") /\ To("main", "ret_tracker")
             /\ grants' = EmptyRegistry
             /\ Kept(cancelled) /\ Kept(disconnected) /\ SameTracker
          \/ /\ Is("main", "ret_tracker") /\ To("main", "done")
             /\ Down' /\ ~Executing' /\ Incoming' = EmptyTable /\ Outgoing' = EmptyTable
             /\ UNCHANGED grants /\ Kept(cancelled) /\ Kept(disconnected)
       /\ UNCHANGED <<msg, log, pending, call, active>> /\ Kept(failed)

(* The start of exec.                                                      *)
SpawnMoves ==
  /\ Is("main", "spawn") /\ To("main", "idle")
  /\ Pc("exec")' = "start" /\ Stage("exec")' = Stage("exec") /\ Still("writer")
  /\ job'.req = msg.id /\ job'.exec = msg.exec /\ job'.seq = 3 /\ job'.result = None
  /\ job'.id = None /\ job'.todo = {}
  /\ UNCHANGED <<open, log, scene>> /\ SameShared

(* The steps of the writer thread.                                         *)
DeliverMoves ==
  /\ Pc("writer")' = Pc("writer") /\ Is("writer", "live")
  /\ Stage("writer")' = "none" \/ Stage("writer")' = "fail"
  /\ UNCHANGED <<msg, job, open, log>> /\ SameShared

(* What main leaves alone, unless it starts exec, what exec does, and what *)
(* the writer thread does.                                                 *)
MainFrame ==
  Still("exec") /\ Still("writer") /\ UNCHANGED <<job, open, spent, live, gate, scene>>

ExecFrame == Still("main") /\ Still("writer") /\ UNCHANGED <<msg, scene>>

WriterFrame ==
  /\ Still("main") /\ Still("exec")
  /\ UNCHANGED <<msg, job, open, log, active, spent, grants, live, gate, scene>>


(***************************************************************************)
(* A step is one of main, of exec or of the writer thread.                 *)
(***************************************************************************)
ByMain == MainMoves /\ MainFrame

ByMainWrite == (WriteMoves("main") \/ FailMoves("main")) /\ MainFrame

ByExec == ExecMoves /\ ExecFrame

ByExecWrite == (WriteMoves("exec") \/ FailMoves("exec")) /\ ExecFrame

ByWriter == (DeliverMoves \/ FailMoves("writer")) /\ WriterFrame

ByNone ==
  /\ Still("main") /\ Still("exec") /\ Still("writer")
  /\ UNCHANGED <<msg, job, open, log, scene>> /\ SameShared

Moves == ByMain \/ ByMainWrite \/ SpawnMoves \/ ByExec \/ ByExecWrite \/ ByWriter \/ ByNone

(***************************************************************************)
(* The invariant.                                                          *)
(***************************************************************************)
Control == MainHolds /\ MainWrites /\ ExecHolds /\ ExecWrites

Layers ==
  /\ Control /\ Turns /\ Failing /\ Severed
  /\ Owing /\ Numbering /\ Honouring
  /\ IdsAreFresh /\ Crossing
  /\ GrantedOnce /\ Biting
  /\ Waking
  /\ Drained /\ Settling /\ Finding

=============================================================================
