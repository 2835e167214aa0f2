----------------------- MODULE ProtocolTrackerProofs -----------------------
(***************************************************************************)
(* Lemmas about the operators of ProtocolTracker: what makes a tracker     *)
(* good, and that every method of it keeps it good.  TrackerProofs makes   *)
(* them invariants of TrackerApi, JoshServerProofs of a connection.        *)
(***************************************************************************)
EXTENDS ProtocolTracker, TLAPS

(***************************************************************************)
(* What the methods of the tracker do to what a connection relies on.      *)
(***************************************************************************)
(* A method may be used only on a connection that is up.                   *)
LEMMA CheckedIsConnected ==
  ASSUME NEW t, NEW m, NEW dir, check_method(t, m, dir) = "ok"
  PROVE  m \in Methods /\ t.state # "Disconnected"
BY DEF check_method, ValidState

(* Everything but the two tables stays.                                    *)
SamePhase(t, u) ==
  /\ u.role = t.role /\ u.state = t.state
  /\ u.active_execution = t.active_execution

(* An accepted request is entered in the table of incoming requests, which *)
(* did not hold it; one that is refused and answered was not there either. *)
LEMMA ReceiveRequestDoes ==
  ASSUME NEW t \in Trackers, t.role = "Runtime", NEW req \in Requests
  PROVE  LET s == receive_request(t, req)
         IN  /\ SamePhase(t, s.t) /\ s.t.outgoing = t.outgoing
             /\ s.r # "ok" => s.t = t
             /\ s.r # "fatal" => t.incoming[req.id] = NoMethod
             /\ s.r = "ok" =>
                  /\ t.state # "Disconnected" /\ req.method \in HostMethods
                  /\ s.t.incoming = [t.incoming EXCEPT ![req.id] = req.method]
<1> DEFINE s == receive_request(t, req)
<1> DEFINE u == [t EXCEPT !.incoming[req.id] = req.method]
<1>1. /\ SamePhase(t, u) /\ u.outgoing = t.outgoing
      /\ u.incoming = [t.incoming EXCEPT ![req.id] = req.method]
  BY DEF Trackers, SamePhase
<1>2. check_method(t, req.method, TRUE) = "ok" =>
        t.state # "Disconnected" /\ req.method \in HostMethods
  <2>1. Sender(t, TRUE) = "Host"
    BY DEF Sender
  <2> QED
    BY <2>1, CheckedIsConnected DEF check_method, DefinedSender
<1>3. \/ s = [t |-> t, r |-> "fatal"]
      \/ /\ t.incoming[req.id] = NoMethod
         /\ s.t = t /\ s.r # "ok"
      \/ /\ t.incoming[req.id] = NoMethod
         /\ check_method(t, req.method, TRUE) = "ok"
         /\ s = [t |-> u, r |-> "ok"]
  BY Zenon DEF receive_request, Refused
<1> HIDE DEF u
<1>4. CASE s = [t |-> t, r |-> "fatal"]
  BY <1>4 DEF SamePhase
<1>5. CASE s = [t |-> u, r |-> "ok"] /\ check_method(t, req.method, TRUE) = "ok"
           /\ t.incoming[req.id] = NoMethod
  BY <1>1, <1>2, <1>5 DEF SamePhase
<1>6. CASE s.t = t /\ s.r # "ok" /\ t.incoming[req.id] = NoMethod
  BY <1>6 DEF SamePhase
<1> QED
  BY <1>3, <1>4, <1>5, <1>6

(* A response is accepted if the request is in the table of outgoing ones, *)
(* and leaves it.                                                          *)
LEMMA ReceiveResponseDoes ==
  ASSUME NEW t \in Trackers, NEW id \in ReqId
  PROVE  LET s == receive_response(t, id)
         IN  /\ SamePhase(t, s.t) /\ s.t.incoming = t.incoming
             /\ s.r = "ok" => t.outgoing[id] # NoMethod
             /\ s.t.outgoing = [t.outgoing EXCEPT ![id] = NoMethod]
<1> DEFINE s == receive_response(t, id)
<1>1. CASE t.outgoing[id] # NoMethod
  BY <1>1 DEF receive_response, Trackers, SamePhase
<1>2. CASE t.outgoing[id] = NoMethod
  <2>1. /\ SamePhase(t, s.t) /\ s.t.incoming = t.incoming /\ s.r = "fatal"
        /\ s.t.outgoing = t.outgoing
    BY <1>2 DEF receive_response, Trackers, SamePhase
  <2>2. t.outgoing = [t.outgoing EXCEPT ![id] = NoMethod]
    BY <1>2 DEF Trackers
  <2> QED
    BY <2>1, <2>2
<1> QED
  BY <1>1, <1>2

(* A Cancel moves nothing but the marks.                                   *)
LEMMA ReceiveCancelDoes ==
  ASSUME NEW t \in Trackers, NEW id \in ReqId
  PROVE  LET s == receive_cancel(t, id)
         IN  /\ SamePhase(t, s.t) /\ s.t.incoming = t.incoming
             /\ s.t.outgoing = t.outgoing
BY DEF receive_cancel, Trackers, SamePhase

(* The response of a request takes it out of the table.                    *)
LEMMA CommitDoes ==
  ASSUME NEW t \in Trackers, NEW id \in ReqId
  PROVE  LET s == commit_response(t, id)
         IN  /\ SamePhase(t, s.t) /\ s.t.outgoing = t.outgoing
             /\ s.t.incoming = [t.incoming EXCEPT ![id] = NoMethod]
             /\ s.r = "ok" <=> t.incoming[id] # NoMethod
<1> DEFINE s == commit_response(t, id)
<1>1. CASE t.incoming[id] # NoMethod
  BY <1>1 DEF commit_response, Trackers, SamePhase
<1>2. CASE t.incoming[id] = NoMethod
  <2>1. t.incoming = [t.incoming EXCEPT ![id] = NoMethod]
    BY <1>2 DEF Trackers
  <2> QED
    BY <1>2, <2>1 DEF commit_response, Refused, SamePhase
<1> QED
  BY <1>1, <1>2

(* A withdrawn call leaves the table, and the caller learns whether it was *)
(* there.                                                                  *)
LEMMA CancelOutgoingDoes ==
  ASSUME NEW t \in Trackers, NEW id \in ReqId
  PROVE  LET s == cancel_outgoing(t, id)
         IN  /\ SamePhase(t, s.t) /\ s.t.incoming = t.incoming
             /\ s.t.outgoing = [t.outgoing EXCEPT ![id] = NoMethod]
             /\ s.r = "ok" <=> t.outgoing[id] # NoMethod
<1> DEFINE s == cancel_outgoing(t, id)
<1>1. CASE t.outgoing[id] # NoMethod
  BY <1>1 DEF cancel_outgoing, Trackers, SamePhase
<1>2. CASE t.outgoing[id] = NoMethod
  <2>1. t.outgoing = [t.outgoing EXCEPT ![id] = NoMethod]
    BY <1>2 DEF Trackers
  <2> QED
    BY <1>2, <2>1 DEF cancel_outgoing, Refused, SamePhase
<1> QED
  BY <1>1, <1>2

(* A call is registered once, while the connection is up.                  *)
LEMMA RegisterDoes ==
  ASSUME NEW t \in Trackers, NEW req \in Requests
  PROVE  LET s == register_outgoing_message(t, req)
         IN  /\ SamePhase(t, s.t) /\ s.t.incoming = t.incoming
             /\ s.r # "ok" => s.t = t
             /\ s.r = "ok" =>
                  /\ t.state # "Disconnected"
                  /\ s.t.outgoing = [t.outgoing EXCEPT ![req.id] = req.method]
<1> DEFINE s == register_outgoing_message(t, req)
<1> DEFINE u == [t EXCEPT !.outgoing[req.id] = req.method]
<1>1. /\ SamePhase(t, u) /\ u.incoming = t.incoming
      /\ u.outgoing = [t.outgoing EXCEPT ![req.id] = req.method]
  BY DEF Trackers, SamePhase
<1>2. \/ s.t = t /\ s.r # "ok"
      \/ check_method(t, req.method, FALSE) = "ok" /\ s = [t |-> u, r |-> "ok"]
  BY Zenon DEF register_outgoing_message, insert_outgoing, Refused
<1> HIDE DEF u
<1>3. CASE s.t = t /\ s.r # "ok"
  BY <1>3 DEF SamePhase
<1>4. CASE check_method(t, req.method, FALSE) = "ok" /\ s = [t |-> u, r |-> "ok"]
  <2>1. t.state # "Disconnected"
    BY Zenon, <1>4, CheckedIsConnected
  <2> QED
    BY <1>1, <1>4, <2>1 DEF SamePhase
<1> QED
  BY <1>2, <1>3, <1>4

(* The start of an execution marks it active, if it is not refused.        *)
LEMMA StartDoes ==
  ASSUME NEW t \in Trackers, NEW exec
  PROVE  LET s == execution_started_binding(t, exec)
         IN  /\ s.t.role = t.role /\ s.t.state = t.state
             /\ s.t.incoming = t.incoming /\ s.t.outgoing = t.outgoing
             /\ s.r # "ok" => s.t = t
BY DEF execution_started_binding, Refused, Trackers

(* Its end marks it inactive.                                              *)
LEMMA FinishDoes ==
  ASSUME NEW t \in Trackers
  PROVE  LET u == execution_finished(t)
         IN  /\ u.role = t.role /\ u.state = t.state
             /\ u.incoming = t.incoming /\ u.outgoing = t.outgoing
             /\ ~u.active_execution
BY DEF execution_finished, Trackers

(* disconnect empties both tables.                                         *)
LEMMA DisconnectDoes ==
  ASSUME NEW t \in Trackers
  PROVE  LET u == disconnect(t)
         IN  /\ u.role = t.role /\ u.state = "Disconnected"
             /\ u.incoming = EmptyTable /\ u.outgoing = EmptyTable
             /\ ~u.active_execution
BY DEF disconnect, Trackers

-----------------------------------------------------------------------------
(***************************************************************************)
(* What makes a tracker good.                                              *)
(***************************************************************************)
(* The provers are given up to a minute for a leaf.                        *)
USE SMTT(60)

(* The invariants of TrackerApi as predicates of a tracker.                *)
Agree(t) ==
  /\ t.late_outgoing = {t.late_order[k] : k \in 1..Len(t.late_order)}
  /\ \A j, k \in 1..Len(t.late_order) :
       t.late_order[j] = t.late_order[k] => j = k

Scoped(t) ==
  /\ t.cancelled_incoming \subseteq Active(t.incoming)
  /\ t.active_execution_id # None => t.active_execution
  /\ t.active_execution => t.state = "ProgramLoaded"

EmptyWhenDisconnected(t) ==
  t.state = "Disconnected" =>
    /\ Active(t.incoming) = {} /\ Active(t.outgoing) = {}
    /\ t.late_outgoing = {} /\ t.cancelled_incoming = {}
    /\ ~t.active_execution
    /\ t.invoking_session_id = None

Singles(t) ==
  \A i, j \in ReqId :
    /\ t.incoming[i] \in SingletonMethods
    /\ t.incoming[i] = t.incoming[j]
    => i = j

(* The inductive invariant: their conjunction is inductive as it stands.   *)
Good(t) ==
  /\ t \in Trackers
  /\ Agree(t)
  /\ Scoped(t)
  /\ EmptyWhenDisconnected(t)
  /\ Singles(t)

(* A new tracker is good, for either role and any limit.                   *)
LEMMA NewIsGood ==
  ASSUME NEW role \in Roles, NEW limit \in Nat
  PROVE  Good(NewTracker(role, limit))
<1> DEFINE t == NewTracker(role, limit)
<1>1. t \in Trackers
  BY DEF NewTracker, Trackers, EmptyTable, Larger, ConnectionStates
<1>2. Agree(t)
  BY DEF NewTracker, Agree
<1>3. Scoped(t) /\ EmptyWhenDisconnected(t)
  BY DEF NewTracker, Scoped, EmptyWhenDisconnected
<1>4. Singles(t)
  BY DEF NewTracker, Singles, EmptyTable, SingletonMethods, NoMethod
<1> QED
  BY <1>1, <1>2, <1>3, <1>4 DEF Good

(* Registering an outgoing request keeps the tracker good.                 *)
LEMMA InsertIsGood ==
  ASSUME NEW t, Good(t), t.state # "Disconnected",
         NEW id \in ReqId, NEW m \in Methods
  PROVE  Good(insert_outgoing(t, id, m).t)
<1>1. CASE insert_outgoing(t, id, m).t = t
  BY <1>1
<1>2. CASE insert_outgoing(t, id, m).t = [t EXCEPT !.outgoing[id] = m]
  <2> DEFINE u == [t EXCEPT !.outgoing[id] = m]
  <2>1. u \in Trackers
    BY Zenon DEF Good, Trackers
  <2>2. Agree(u) /\ Scoped(u) /\ EmptyWhenDisconnected(u) /\ Singles(u)
    BY DEF Good, Agree, Scoped, EmptyWhenDisconnected, Singles, Trackers
  <2> QED
    BY <1>2, <2>1, <2>2 DEF Good
<1> QED
  BY <1>1, <1>2 DEF insert_outgoing, Refused

(* register_outgoing_message keeps a tracker good.                         *)
LEMMA RegisterIsGood ==
  ASSUME NEW t, Good(t), NEW req \in Requests
  PROVE  Good(register_outgoing_message(t, req).t)
<1>1. req.id \in ReqId
  BY DEF Requests
<1>2. CASE check_method(t, req.method, FALSE) = "ok"
  BY Zenon, <1>1, <1>2, CheckedIsConnected, InsertIsGood
     DEF register_outgoing_message, Refused
<1>3. CASE check_method(t, req.method, FALSE) # "ok"
  BY <1>3 DEF register_outgoing_message, Refused
<1> QED
  BY Zenon, <1>2, <1>3

(* register_outgoing_request keeps a tracker good.                         *)
LEMMA RegisterPlainIsGood ==
  ASSUME NEW t, Good(t), NEW id \in ReqId, NEW m
  PROVE  Good(register_outgoing_request(t, id, m).t)
<1>1. CASE check_method(t, m, FALSE) = "ok"
  BY Zenon, <1>1, CheckedIsConnected, InsertIsGood
     DEF register_outgoing_request, Refused
<1>2. CASE check_method(t, m, FALSE) # "ok"
  BY <1>2 DEF register_outgoing_request, Refused
<1> QED
  BY Zenon, <1>1, <1>2

(* Accepting an incoming request keeps the tracker good: the singleton     *)
(* check is what Singles needs.                                            *)
LEMMA ReceiveRequestIsGood ==
  ASSUME NEW t, Good(t), NEW req \in Requests
  PROVE  Good(receive_request(t, req).t)
<1> DEFINE u == [t EXCEPT !.incoming[req.id] = req.method]
<1>1. CASE receive_request(t, req).t = t
  BY <1>1
<1>2. CASE /\ receive_request(t, req).t = u
           /\ check_method(t, req.method, TRUE) = "ok"
           /\ ~SingletonBusy(t, req.method)
           /\ t.incoming[req.id] = NoMethod
  <2>1. req.id \in ReqId /\ req.method \in Methods /\ t.state # "Disconnected"
    BY Zenon, <1>2 DEF Requests, check_method, ValidState
  <2>2. u \in Trackers
    BY <2>1 DEF Good, Trackers
  <2>3. Agree(u) /\ EmptyWhenDisconnected(u)
    BY <2>1 DEF Good, Agree, EmptyWhenDisconnected, Trackers
  <2>4. Scoped(u)
    BY <2>1, <1>2 DEF Good, Scoped, Active, Trackers, Methods, HostMethods,
       RuntimeMethods, SessionMethods, ExecutionMethods, NoMethod
  <2>5. Singles(u)
    BY <2>1, <1>2 DEF Good, Singles, SingletonBusy, Trackers
  <2> QED
    BY <1>2, <2>2, <2>3, <2>4, <2>5 DEF Good
<1> QED
  BY Zenon, <1>1, <1>2 DEF receive_request, Refused

(* Without removes exactly one id of an order without repetitions.         *)
LEMMA WithoutRemoves ==
  ASSUME NEW order \in Seq(ReqId), NEW id \in ReqId,
         \A j, k \in 1..Len(order) : order[j] = order[k] => j = k,
         \E k \in 1..Len(order) : order[k] = id
  PROVE  LET rest == Without(order, id)
         IN  /\ rest \in Seq(ReqId)
             /\ {rest[k] : k \in 1..Len(rest)} =
                  {order[k] : k \in 1..Len(order)} \ {id}
             /\ \A j, k \in 1..Len(rest) : rest[j] = rest[k] => j = k
<1> DEFINE n     == Len(order)
           place == CHOOSE k \in 1..n : order[k] = id
           rest  == Without(order, id)
<1>1. n \in Nat /\ DOMAIN order = 1..n /\ \A k \in 1..n : order[k] \in ReqId
  OBVIOUS
<1>2. place \in 1..n /\ order[place] = id
  OBVIOUS
<1>3. n - 1 \in Nat
  BY <1>1, <1>2
<1>4. rest = [k \in 1..(n - 1) |-> IF k < place THEN order[k] ELSE order[k + 1]]
  BY DEF Without
<1> HIDE DEF place, rest
<1>5. \A k \in 1..(n - 1) : rest[k] \in ReqId
  BY <1>1, <1>2, <1>3, <1>4
<1>6. rest \in Seq(ReqId) /\ Len(rest) = n - 1
  <2>1. rest \in [1..(n - 1) -> ReqId]
    BY <1>4, <1>5
  <2>2. rest \in Seq(ReqId)
    BY <2>1, <1>3
  <2>3. DOMAIN rest = 1..(n - 1)
    BY <1>4
  <2> QED
    BY <2>2, <2>3, <1>3
<1>7. \A j, k \in 1..(n - 1) : rest[j] = rest[k] => j = k
  <2> SUFFICES ASSUME NEW j \in 1..(n - 1), NEW k \in 1..(n - 1), rest[j] = rest[k]
               PROVE  j = k
    OBVIOUS
  <2>1. rest[j] = IF j < place THEN order[j] ELSE order[j + 1]
    BY <1>4
  <2>2. rest[k] = IF k < place THEN order[k] ELSE order[k + 1]
    BY <1>4
  <2>3. j \in 1..n /\ k \in 1..n /\ j + 1 \in 1..n /\ k + 1 \in 1..n
    BY <1>1
  <2>4. \A a, b \in 1..n : order[a] = order[b] => a = b
    OBVIOUS
  <2>5. CASE j < place /\ k < place
    BY Zenon, <2>1, <2>2, <2>3, <2>4, <2>5
  <2>6. CASE ~(j < place) /\ ~(k < place)
    <3>1. j + 1 = k + 1
      BY Zenon, <2>1, <2>2, <2>3, <2>4, <2>6
    <3> QED
      BY <3>1
  <2>7. CASE j < place /\ ~(k < place)
    <3>1. j = k + 1
      BY Zenon, <2>1, <2>2, <2>3, <2>4, <2>7
    <3> QED
      BY <3>1, <2>7, <1>1, <1>2
  <2>8. CASE ~(j < place) /\ k < place
    <3>1. j + 1 = k
      BY Zenon, <2>1, <2>2, <2>3, <2>4, <2>8
    <3> QED
      BY <3>1, <2>8, <1>1, <1>2
  <2> QED
    BY <2>5, <2>6, <2>7, <2>8
<1>8. ASSUME NEW k \in 1..(n - 1)
      PROVE  rest[k] \in {order[i] : i \in 1..n} \ {id}
  <2>1. rest[k] = IF k < place THEN order[k] ELSE order[k + 1]
    BY <1>4
  <2>2. k \in 1..n /\ k + 1 \in 1..n
    BY <1>1
  <2> QED
    BY <2>1, <2>2, <1>2
<1>9. ASSUME NEW k \in 1..n, order[k] # id
      PROVE  \E i \in 1..(n - 1) : rest[i] = order[k]
  <2>1. CASE k < place
    <3>1. k \in 1..(n - 1) /\ rest[k] = order[k]
      BY <2>1, <1>1, <1>2, <1>4
    <3> QED
      BY <3>1
  <2>2. CASE k > place
    <3>1. k - 1 \in 1..(n - 1) /\ ~(k - 1 < place) /\ (k - 1) + 1 = k
      BY <2>2, <1>1, <1>2
    <3>2. rest[k - 1] = order[k]
      BY <3>1, <1>4
    <3> QED
      BY <3>1, <3>2
  <2>3. k # place
    BY <1>2, <1>9
  <2> QED
    BY <2>1, <2>2, <2>3, <1>1, <1>2
<1>10. {rest[k] : k \in 1..Len(rest)} = {order[k] : k \in 1..n} \ {id}
  BY <1>6, <1>8, <1>9
<1> QED
  BY Zenon, <1>6, <1>7, <1>10 DEF rest

(* A response settles its request, or is late and takes its tombstone with *)
(* it.                                                                     *)
LEMMA ReceiveResponseIsGood ==
  ASSUME NEW t, Good(t), NEW id \in ReqId
  PROVE  Good(receive_response(t, id).t)
<1>1. CASE t.outgoing[id] # NoMethod
  <2> DEFINE u == [t EXCEPT !.outgoing[id] = NoMethod]
  <2>1. u \in Trackers
    BY Zenon DEF Good, Trackers
  <2>2. Agree(u) /\ Scoped(u) /\ Singles(u)
    BY DEF Good, Agree, Scoped, Singles, Trackers
  <2>3. EmptyWhenDisconnected(u)
    BY <1>1 DEF Good, EmptyWhenDisconnected, Trackers, Active
  <2> QED
    BY <1>1, <2>1, <2>2, <2>3 DEF Good, receive_response
<1>2. CASE t.outgoing[id] = NoMethod /\ id \notin t.late_outgoing
  <2> DEFINE u == [t EXCEPT !.late_outgoing = @ \ {id}, !.late_order = @]
  <2>1. u = t
    <3>1. t.late_outgoing \ {id} = t.late_outgoing
      BY <1>2
    <3> QED
      BY Zenon, <3>1 DEF Good, Trackers
  <2> QED
    BY <1>2, <2>1 DEF receive_response
<1>3. CASE t.outgoing[id] = NoMethod /\ id \in t.late_outgoing
  <2> DEFINE rest == Without(t.late_order, id)
             late == t.late_outgoing \ {id}
             u    == [t EXCEPT !.late_outgoing = late, !.late_order = rest]
  <2>1. t.late_order \in Seq(ReqId) /\ t.late_outgoing \subseteq ReqId
    BY DEF Good, Trackers
  <2>2. \E k \in 1..Len(t.late_order) : t.late_order[k] = id
    BY <1>3 DEF Good, Agree
  <2>3. /\ rest \in Seq(ReqId)
        /\ {rest[k] : k \in 1..Len(rest)} = late
        /\ \A j, k \in 1..Len(rest) : rest[j] = rest[k] => j = k
    BY Zenon, <2>1, <2>2, WithoutRemoves DEF Good, Agree
  <2> HIDE DEF rest
  <2>4. u \in Trackers
    BY Zenon, <2>1, <2>3 DEF Good, Trackers
  <2>5. u.late_order = rest /\ u.late_outgoing = late
    BY DEF Good, Trackers
  <2>6. Agree(u)
    BY <2>3, <2>5 DEF Agree
  <2>7. Scoped(u) /\ Singles(u) /\ EmptyWhenDisconnected(u)
    BY DEF Good, Scoped, Singles, EmptyWhenDisconnected, Trackers
  <2>8. receive_response(t, id).t = u
    BY <1>3 DEF receive_response, rest
  <2> QED
    BY <2>4, <2>6, <2>7, <2>8 DEF Good
<1> QED
  BY <1>1, <1>2, <1>3

(* Marking and committing an incoming request.                             *)
LEMMA ReceiveCancelIsGood ==
  ASSUME NEW t, Good(t), NEW id \in ReqId
  PROVE  Good(receive_cancel(t, id).t)
<1> DEFINE u == [t EXCEPT !.cancelled_incoming = @ \cup {id}]
<1>1. CASE t.incoming[id] # NoMethod
  <2>1. u \in Trackers
    BY DEF Good, Trackers
  <2>2. Agree(u) /\ Singles(u)
    BY DEF Good, Agree, Singles, Trackers
  <2>3. Scoped(u) /\ EmptyWhenDisconnected(u)
    BY <1>1 DEF Good, Scoped, EmptyWhenDisconnected, Active, Trackers
  <2> QED
    BY <1>1, <2>1, <2>2, <2>3 DEF Good, receive_cancel
<1> QED
  BY <1>1 DEF receive_cancel

(* commit_response keeps a tracker good.                                   *)
LEMMA CommitIsGood ==
  ASSUME NEW t, Good(t), NEW id \in ReqId
  PROVE  Good(commit_response(t, id).t)
<1> DEFINE u == [t EXCEPT !.incoming[id] = NoMethod, !.cancelled_incoming = @ \ {id}]
<1>1. CASE t.incoming[id] # NoMethod
  <2>1. u \in Trackers
    BY Zenon DEF Good, Trackers
  <2>2. Agree(u)
    BY DEF Good, Agree, Trackers
  <2>3. Singles(u)
    BY DEF Good, Singles, Trackers, SingletonMethods, NoMethod
  <2>4. Scoped(u) /\ EmptyWhenDisconnected(u)
    BY <1>1 DEF Good, Scoped, EmptyWhenDisconnected, Active, Trackers
  <2> QED
    BY <1>1, <2>1, <2>2, <2>3, <2>4 DEF Good, commit_response
<1> QED
  BY <1>1 DEF commit_response, Refused

(* What a suffix of an order without repetitions holds.                    *)
LEMMA SuffixHolds ==
  ASSUME NEW order \in Seq(ReqId), NEW cut \in 0..Len(order),
         \A j, k \in 1..Len(order) : order[j] = order[k] => j = k
  PROVE  LET rest == SubSeq(order, cut + 1, Len(order))
         IN  /\ rest \in Seq(ReqId)
             /\ {rest[k] : k \in 1..Len(rest)} =
                  {order[k] : k \in 1..Len(order)} \ {order[k] : k \in 1..cut}
             /\ \A j, k \in 1..Len(rest) : rest[j] = rest[k] => j = k
<1> DEFINE n    == Len(order)
           rest == SubSeq(order, cut + 1, n)
<1>1. n \in Nat /\ cut \in Nat /\ cut <= n
  OBVIOUS
<1>2. \A k \in 1..n : order[k] \in ReqId
  OBVIOUS
<1>3. /\ rest \in Seq(ReqId)
      /\ Len(rest) = n - cut
      /\ \A k \in 1..(n - cut) : rest[k] = order[cut + k]
  <2>1. CASE cut = n
    BY <2>1, <1>1
  <2>2. CASE cut < n
    <3>1. cut + 1 \in 1..n /\ n \in 1..n
      BY <2>2, <1>1
    <3>2. rest \in Seq(ReqId) /\ Len(rest) = n - cut
      BY <2>2, <3>1, <1>1, <1>2
    <3>3. ASSUME NEW k \in 1..(n - cut)
          PROVE  rest[k] = order[cut + k]
      BY <2>2, <3>1, <1>1
    <3> QED
      BY <3>2, <3>3
  <2> QED
    BY <1>1, <2>1, <2>2
<1> HIDE DEF rest
<1>4. \A j, k \in 1..Len(rest) : rest[j] = rest[k] => j = k
  <2> SUFFICES ASSUME NEW j \in 1..(n - cut), NEW k \in 1..(n - cut),
                      rest[j] = rest[k]
               PROVE  j = k
    BY <1>3
  <2>1. order[cut + j] = order[cut + k]
    BY <1>3
  <2>2. cut + j \in 1..n /\ cut + k \in 1..n
    BY <1>1
  <2>3. cut + j = cut + k
    BY <2>1, <2>2
  <2> QED
    BY <2>3, <1>1
<1>5. ASSUME NEW k \in 1..(n - cut)
      PROVE  /\ rest[k] \in {order[i] : i \in 1..n}
             /\ rest[k] \notin {order[i] : i \in 1..cut}
  <2>1. rest[k] = order[cut + k] /\ cut + k \in 1..n
    BY <1>1, <1>3
  <2>2. ASSUME NEW i \in 1..cut PROVE order[i] # order[cut + k]
    <3>1. i \in 1..n /\ i # cut + k
      BY <1>1
    <3> QED
      BY <2>1, <3>1
  <2> QED
    BY <2>1, <2>2
<1>6. ASSUME NEW i \in 1..n, order[i] \notin {order[j] : j \in 1..cut}
      PROVE  \E k \in 1..(n - cut) : rest[k] = order[i]
  <2>1. i > cut
    BY <1>1, <1>6
  <2>2. i - cut \in 1..(n - cut) /\ cut + (i - cut) = i
    BY <1>1, <2>1
  <2>3. rest[i - cut] = order[i]
    BY <1>3, <2>2
  <2> QED
    BY <2>2, <2>3
<1>7. {rest[k] : k \in 1..Len(rest)} =
        {order[k] : k \in 1..n} \ {order[k] : k \in 1..cut}
  <2> DEFINE all == {order[k] : k \in 1..n}
             old == {order[k] : k \in 1..cut}
             new == {rest[k] : k \in 1..Len(rest)}
  <2>1. new \subseteq all \ old
    BY <1>3, <1>5
  <2>2. ASSUME NEW x \in all \ old PROVE x \in new
    <3>1. PICK i \in 1..n : x = order[i]
      OBVIOUS
    <3>2. \E k \in 1..(n - cut) : rest[k] = order[i]
      BY <3>1, <1>6
    <3> QED
      BY <3>1, <3>2, <1>3
  <2> QED
    BY Zenon, <2>1, <2>2
<1> QED
  BY Zenon, <1>3, <1>4, <1>7 DEF rest

(* Cancelling an outgoing request leaves the set of tombstones and their   *)
(* eviction queue in agreement, also when it evicts.                       *)
LEMMA CancelOutgoingIsGood ==
  ASSUME NEW t, Good(t), NEW id \in ReqId
  PROVE  Good(cancel_outgoing(t, id).t)
<1> DEFINE order   == IF id \in t.late_outgoing THEN t.late_order
                                                ELSE Append(t.late_order, id)
           expired == IF Len(order) > t.late_limit THEN Len(order) - t.late_limit
                                                   ELSE 0
           gone    == {order[k] : k \in 1..expired}
           rest    == SubSeq(order, expired + 1, Len(order))
           late    == (t.late_outgoing \cup {id}) \ gone
           u       == [t EXCEPT !.outgoing[id] = NoMethod,
                                !.late_outgoing = late,
                                !.late_order = rest]
<1>1. /\ t.late_order \in Seq(ReqId) /\ t.late_outgoing \subseteq ReqId
      /\ t.late_limit \in Nat
  BY DEF Good, Trackers
<1>2. /\ order \in Seq(ReqId)
      /\ {order[k] : k \in 1..Len(order)} = t.late_outgoing \cup {id}
      /\ \A j, k \in 1..Len(order) : order[j] = order[k] => j = k
  <2>1. CASE id \in t.late_outgoing
    <3>1. order = t.late_order /\ t.late_outgoing \cup {id} = t.late_outgoing
      BY <2>1
    <3> QED
      BY Zenon, <1>1, <3>1 DEF Good, Agree
  <2>2. CASE id \notin t.late_outgoing
    <3>1. order = Append(t.late_order, id)
      BY <2>2
    <3> HIDE DEF order
    <3>2. /\ order \in Seq(ReqId) /\ Len(order) = Len(t.late_order) + 1
          /\ order[Len(order)] = id
          /\ \A k \in 1..Len(t.late_order) : order[k] = t.late_order[k]
      BY <1>1, <3>1
    <3>3. \A k \in 1..Len(t.late_order) : t.late_order[k] # id
      BY <2>2 DEF Good, Agree
    <3>4. Len(t.late_order) \in Nat
      BY <1>1
    <3>5. \A k \in 1..Len(order) : k \in 1..Len(t.late_order) \/ k = Len(order)
      BY <3>2, <3>4
    <3>6. {order[k] : k \in 1..Len(order)} = t.late_outgoing \cup {id}
      <4>1. t.late_outgoing = {t.late_order[k] : k \in 1..Len(t.late_order)}
        BY DEF Good, Agree
      <4>2. Len(order) \in 1..Len(order)
        BY <3>2, <3>4
      <4>3. 1..Len(t.late_order) \subseteq 1..Len(order)
        BY <3>2, <3>4
      <4> QED
        BY <3>2, <3>5, <4>1, <4>2, <4>3
    <3>7. ASSUME NEW j \in 1..Len(order), NEW k \in 1..Len(order),
                 order[j] = order[k]
          PROVE  j = k
      BY <3>2, <3>3, <3>5, <3>7 DEF Good, Agree
    <3> QED
      BY <3>2, <3>6, <3>7
  <2> QED
    BY <2>1, <2>2
<1> HIDE DEF order
<1>3. expired \in 0..Len(order)
  BY <1>1, <1>2
<1> HIDE DEF expired
<1>4. /\ rest \in Seq(ReqId)
      /\ {rest[k] : k \in 1..Len(rest)} = late
      /\ \A j, k \in 1..Len(rest) : rest[j] = rest[k] => j = k
  BY Zenon, <1>2, <1>3, SuffixHolds
<1>5. late \subseteq ReqId
  BY <1>1
<1> HIDE DEF rest, late
<1>6. u \in Trackers
  BY Zenon, <1>4, <1>5 DEF Good, Trackers
<1>7. u.late_order = rest /\ u.late_outgoing = late
  BY DEF Good, Trackers
<1>8. Agree(u)
  BY <1>4, <1>7 DEF Agree
<1>9. Scoped(u) /\ Singles(u)
  BY DEF Good, Scoped, Singles, Trackers
<1>10. CASE t.outgoing[id] # NoMethod
  <2>1. t.state # "Disconnected"
    BY <1>10 DEF Good, EmptyWhenDisconnected, Active
  <2>2. u.state # "Disconnected"
    BY <2>1 DEF Good, Trackers
  <2>3. EmptyWhenDisconnected(u)
    BY <2>2 DEF EmptyWhenDisconnected
  <2>4. cancel_outgoing(t, id).t = u
    BY Zenon, <1>10 DEF cancel_outgoing, order, expired, rest, late
  <2> QED
    BY <1>6, <1>8, <1>9, <2>3, <2>4 DEF Good
<1>11. CASE t.outgoing[id] = NoMethod
  BY <1>11 DEF cancel_outgoing, Refused
<1> QED
  BY <1>10, <1>11

(* The calls that change the limit, the phase or the execution.            *)
LEMMA SetLimitIsGood ==
  ASSUME NEW t, Good(t), NEW limit \in Nat
  PROVE  Good(set_max_active_requests(t, limit))
<1> DEFINE u == [t EXCEPT !.max_active_requests = limit, !.late_limit = Larger(limit, 1)]
<1>1. u \in Trackers
  BY Zenon DEF Good, Trackers, Larger
<1>2. Agree(u) /\ Singles(u)
  BY DEF Good, Agree, Singles, Trackers
<1>3. Scoped(u) /\ EmptyWhenDisconnected(u)
  BY DEF Good, Scoped, EmptyWhenDisconnected, Trackers
<1> QED
  BY <1>1, <1>2, <1>3 DEF Good, set_max_active_requests

(* initialize_binding keeps a tracker good.                                *)
LEMMA InitializeIsGood ==
  ASSUME NEW t, Good(t), NEW mode \in {"Attached", "Unattended"},
         NEW sess \in SessId \cup {None}
  PROVE  Good(initialize_binding(t, mode, sess).t)
<1> DEFINE u == [t EXCEPT !.execution_mode = mode, !.invoking_session_id = sess,
                          !.state = "Initialized"]
<1>1. CASE t.state = "New"
  <2>1. u \in Trackers
    BY Zenon DEF Good, Trackers, ConnectionStates
  <2>2. Agree(u) /\ Singles(u)
    BY DEF Good, Agree, Singles, Trackers
  <2>3. Scoped(u) /\ EmptyWhenDisconnected(u)
    BY <1>1 DEF Good, Scoped, EmptyWhenDisconnected, Trackers
  <2> QED
    BY <1>1, <2>1, <2>2, <2>3 DEF Good, initialize_binding
<1> QED
  BY <1>1 DEF initialize_binding, Refused

(* The calls that advance the phase keep a tracker good.                   *)
LEMMA AdvanceIsGood ==
  ASSUME NEW t, Good(t),
         NEW from \in SUBSET (ConnectionStates \ {"Disconnected"}),
         NEW to \in ConnectionStates \ {"Disconnected"},
         "ProgramLoaded" \in from => to = "ProgramLoaded"
  PROVE  Good(advance(t, from, to).t)
<1> DEFINE u == [t EXCEPT !.state = to]
<1>1. CASE t.state \in from
  <2>1. u \in Trackers
    BY DEF Good, Trackers
  <2>2. Agree(u) /\ Singles(u)
    BY DEF Good, Agree, Singles, Trackers
  <2>3. Scoped(u) /\ EmptyWhenDisconnected(u)
    BY <1>1 DEF Good, Scoped, EmptyWhenDisconnected, Trackers
  <2> QED
    BY <1>1, <2>1, <2>2, <2>3 DEF Good, advance
<1> QED
  BY <1>1 DEF advance, Refused

(* The start of an execution keeps a tracker good.                         *)
LEMMA StartIsGood ==
  ASSUME NEW t, Good(t), NEW exec \in ExecId \cup {None}
  PROVE  Good(execution_started_binding(t, exec).t)
<1> DEFINE u == [t EXCEPT !.active_execution = TRUE, !.active_execution_id = exec]
<1>1. CASE t.state = "ProgramLoaded" /\ ~t.active_execution
  <2>1. u \in Trackers
    BY Zenon DEF Good, Trackers
  <2>2. Agree(u) /\ Singles(u)
    BY DEF Good, Agree, Singles, Trackers
  <2>3. Scoped(u) /\ EmptyWhenDisconnected(u)
    BY <1>1 DEF Good, Scoped, EmptyWhenDisconnected, Trackers
  <2> QED
    BY <1>1, <2>1, <2>2, <2>3 DEF Good, execution_started_binding
<1> QED
  BY <1>1 DEF execution_started_binding, Refused

(* The end of an execution keeps a tracker good.                           *)
LEMMA FinishIsGood ==
  ASSUME NEW t, Good(t)
  PROVE  Good(execution_finished(t))
<1> DEFINE u == [t EXCEPT !.active_execution = FALSE, !.active_execution_id = None]
<1>1. u \in Trackers
  BY Zenon DEF Good, Trackers
<1>2. Agree(u) /\ Singles(u)
  BY DEF Good, Agree, Singles, Trackers
<1>3. Scoped(u) /\ EmptyWhenDisconnected(u)
  BY DEF Good, Scoped, EmptyWhenDisconnected, Trackers
<1> QED
  BY <1>1, <1>2, <1>3 DEF Good, execution_finished

(* disconnect leaves a good tracker.                                       *)
LEMMA DisconnectIsGood ==
  ASSUME NEW t, Good(t)
  PROVE  Good(disconnect(t))
<1> DEFINE u == disconnect(t)
<1>1. u \in Trackers
  <2> DEFINE a == [t EXCEPT !.state = "Disconnected",
                            !.incoming = EmptyTable,
                            !.outgoing = EmptyTable]
             b == [a EXCEPT !.cancelled_incoming = {},
                            !.late_outgoing = {},
                            !.late_order = <<>>]
             c == [b EXCEPT !.active_execution = FALSE,
                            !.active_execution_id = None,
                            !.execution_mode = None,
                            !.invoking_session_id = None]
  <2>1. a \in Trackers
    BY Zenon DEF Good, Trackers, EmptyTable, ConnectionStates
  <2>2. u = c
    BY DEF Good, Trackers, disconnect
  <2> HIDE DEF a
  <2>3. b \in Trackers
    <3> DEFINE empty == <<>>
    <3>1. empty \in Seq(ReqId)
      OBVIOUS
    <3> HIDE DEF empty
    <3>2. [a EXCEPT !.cancelled_incoming = {}, !.late_outgoing = {},
                    !.late_order = empty] \in Trackers
      BY Zenon, <2>1, <3>1 DEF Trackers
    <3> QED
      BY <3>2 DEF empty
  <2> HIDE DEF b
  <2>4. c \in Trackers
    BY Zenon, <2>3 DEF Trackers
  <2> QED
    BY <2>2, <2>4
<1>2. Agree(u)
  BY DEF Good, Agree, Trackers, disconnect
<1>3. Singles(u)
  BY DEF Good, Singles, Trackers, disconnect, EmptyTable, SingletonMethods, NoMethod
<1>4. Scoped(u) /\ EmptyWhenDisconnected(u)
  BY DEF Good, Scoped, EmptyWhenDisconnected, Trackers, disconnect, Active,
     EmptyTable
<1> QED
  BY <1>1, <1>2, <1>3, <1>4 DEF Good

=============================================================================
