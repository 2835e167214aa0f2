-------------------------- MODULE ProtocolTracker --------------------------
(***************************************************************************)
(* The JOSH protocol tracker (crates/josh-protocol/src/state.rs): the      *)
(* direction-scoped table of active request ids, the connection phase, the *)
(* identity binding of the one active execution, and the tombstones of     *)
(* cancelled outgoing requests.                                            *)
(*                                                                         *)
(* A tracker is a record and every method of the Rust type is an operator  *)
(* on it.  A method that can fail returns the pair [t, r]: the tracker it  *)
(* leaves behind and its result, "ok" (or the accepted action), "fatal",   *)
(* or the code of a request-scoped error.  TrackerApi makes a machine of   *)
(* these operators, JoshServer uses the Runtime tracker of a connection.   *)
(***************************************************************************)
EXTENDS ProtocolMessages

Roles == {"Host", "Runtime"}

ConnectionStates ==
  {"New", "Initialized", "Projected", "CatalogFrozen", "ProgramLoaded",
   "Disconnected"}

Trackers ==
  [role                : Roles,
   state               : ConnectionStates,
   max_active_requests : Nat,
   incoming            : [ReqId -> Methods \cup {NoMethod}],
   outgoing            : [ReqId -> Methods \cup {NoMethod}],
   cancelled_incoming  : SUBSET ReqId,
   late_outgoing       : SUBSET ReqId,
   late_order          : Seq(ReqId),
   late_limit          : Nat,
   active_execution    : BOOLEAN,
   active_execution_id : ExecId \cup {None},
   execution_mode      : {None, "Attached", "Unattended"},
   invoking_session_id : SessId \cup {None}]

Larger(m, n) == IF m >= n THEN m ELSE n

NewTracker(role, limit) ==
  [role                |-> role,
   state               |-> "New",
   max_active_requests |-> limit,
   incoming            |-> EmptyTable,
   outgoing            |-> EmptyTable,
   cancelled_incoming  |-> {},
   late_outgoing       |-> {},
   late_order          |-> <<>>,
   late_limit          |-> Larger(limit, 1),
   active_execution    |-> FALSE,
   active_execution_id |-> None,
   execution_mode      |-> None,
   invoking_session_id |-> None]

(***************************************************************************)
(* Checks.                                                                 *)
(***************************************************************************)
(* The peer that sends what this tracker sees: for an incoming message the *)
(* other role, for an outgoing one its own.                                *)
Sender(t, incoming) ==
  IF (t.role = "Host") = incoming THEN "Runtime" ELSE "Host"

DefinedSender(method) == IF method \in HostMethods THEN "Host" ELSE "Runtime"

Attached(t) ==
  /\ t.execution_mode = "Attached"
  /\ t.invoking_session_id # None
  /\ t.active_execution_id # None

(* The phase in which a method may be used.                                *)
ValidState(t, method) ==
  \/ method = "initialize"      /\ t.state = "New"
  \/ method = "host/project"    /\ t.state = "Initialized"
  \/ method = "catalog/set"     /\ t.state = "Projected"
  \/ method = "program/load"    /\ t.state \in {"CatalogFrozen", "ProgramLoaded"}
  \/ method = "execution/start" /\ t.state = "ProgramLoaded" /\ ~t.active_execution
  \/ /\ method \in RuntimeMethods
     /\ t.state = "ProgramLoaded"
     /\ t.active_execution
     /\ method \in SessionMethods => Attached(t)
     /\ method \in ExecutionMethods => t.active_execution_id # None

check_method(t, method, incoming) ==
  IF method \notin Methods \/ DefinedSender(method) # Sender(t, incoming)
  THEN "RequestMethodNotFound"
  ELSE IF ValidState(t, method) THEN "ok" ELSE "RequestInvalidState"

(* A request may speak only for the active execution and, where it carries *)
(* a session, for the session frozen at initialization.                    *)
validate_request_binding(t, req) ==
  IF req.method \notin SessionMethods \cup ExecutionMethods THEN "ok"
  ELSE IF ~req.valid THEN "RequestInvalid"
  ELSE IF /\ t.active_execution_id # None
          /\ t.active_execution_id = req.exec
          /\ req.method \in SessionMethods =>
               t.invoking_session_id # None /\ t.invoking_session_id = req.sess
       THEN "ok" ELSE "fatal"

check_notification(t, method, incoming) ==
  LET sender == Sender(t, incoming)
  IN  IF \/ method = "runtime/ready" /\ sender = "Runtime" /\ t.state = "New"
         \/ /\ method = "execution/event"
            /\ sender = "Runtime"
            /\ t.state = "ProgramLoaded"
            /\ t.active_execution
         \/ /\ method = "permission/revoke"
            /\ sender = "Host"
            /\ t.state = "ProgramLoaded"
            /\ t.active_execution
            /\ Attached(t)
      THEN "ok" ELSE "fatal"

validate_notification_binding(t, note) ==
  IF \/ note.method \in {"permission/revoke", "execution/event"} /\ ~note.valid
     \/ /\ note.method = "permission/revoke"
        /\ \/ t.active_execution_id = None \/ t.active_execution_id # note.exec
           \/ t.invoking_session_id = None \/ t.invoking_session_id # note.sess
     \/ /\ note.method = "execution/event"
        /\ t.active_execution_id # None
        /\ t.active_execution_id # note.exec
     \/ /\ note.method = "execution/event"
        /\ note.decision
        /\ t.active_execution_id = None
  THEN "fatal" ELSE "ok"

(***************************************************************************)
(* Requests, responses and cancellations.                                  *)
(***************************************************************************)
(* The call changes nothing and reports r.                                 *)
Refused(t, r) == [t |-> t, r |-> r]

insert_outgoing(t, id, method) ==
  IF t.outgoing[id] # NoMethod THEN Refused(t, "fatal")
  ELSE IF Cardinality(Active(t.outgoing)) >= t.max_active_requests
       THEN Refused(t, "RequestLimit")
  ELSE [t |-> [t EXCEPT !.outgoing[id] = method], r |-> "ok"]

(* register_outgoing_request refuses the requests that carry identities:   *)
(* register_outgoing_message is for those.                                 *)
register_outgoing_request(t, id, method) ==
  LET checked == check_method(t, method, FALSE)
  IN  IF method \in SessionMethods \cup ExecutionMethods
      THEN Refused(t, "RequestInvalid")
      ELSE IF checked # "ok" THEN Refused(t, checked)
      ELSE insert_outgoing(t, id, method)

register_outgoing_message(t, req) ==
  LET checked == check_method(t, req.method, FALSE)
      binding == validate_request_binding(t, req)
  IN  IF checked # "ok" THEN Refused(t, checked)
      ELSE IF binding # "ok" THEN Refused(t, binding)
      ELSE insert_outgoing(t, req.id, req.method)

SingletonBusy(t, method) ==
  /\ method \in SingletonMethods
  /\ \E i \in ReqId : t.incoming[i] = method \/ t.outgoing[i] = method

(* Mutant: the singleton check is dropped.                                 *)
receive_request_NoSingletonCheck(t, req) ==
  LET checked == check_method(t, req.method, TRUE)
  IN  IF t.incoming[req.id] # NoMethod THEN Refused(t, "fatal")
      ELSE IF checked # "ok" THEN Refused(t, checked)
      ELSE [t |-> [t EXCEPT !.incoming[req.id] = req.method], r |-> "ok"]

(* Mutant: an id in use is not looked for.                                 *)
receive_request_NoDuplicateCheck(t, req) ==
  LET checked == check_method(t, req.method, TRUE)
  IN  IF checked # "ok" THEN Refused(t, checked)
      ELSE [t |-> [t EXCEPT !.incoming[req.id] = req.method], r |-> "ok"]

receive_request(t, req) ==
  LET checked == check_method(t, req.method, TRUE)
      binding == validate_request_binding(t, req)
  IN  IF t.incoming[req.id] # NoMethod THEN Refused(t, "fatal")
      ELSE IF checked # "ok" THEN Refused(t, checked)
      ELSE IF binding # "ok" THEN Refused(t, binding)
      ELSE IF SingletonBusy(t, req.method) THEN Refused(t, "RequestInvalidState")
      ELSE IF Cardinality(Active(t.incoming)) >= t.max_active_requests
           THEN Refused(t, "RequestLimit")
      ELSE [t |-> [t EXCEPT !.incoming[req.id] = req.method], r |-> "ok"]

(* The order without the one place that holds id.                          *)
Without(order, id) ==
  LET place == CHOOSE k \in 1..Len(order) : order[k] = id
  IN  [k \in 1..(Len(order) - 1) |-> IF k < place THEN order[k] ELSE order[k + 1]]

(* Mutant: the eviction queue keeps the id of a late response.             *)
receive_response_KeepsOrder(t, id) ==
  IF t.outgoing[id] # NoMethod
  THEN [t |-> [t EXCEPT !.outgoing[id] = NoMethod], r |-> "ok"]
  ELSE [t |-> [t EXCEPT !.late_outgoing = @ \ {id}], r |-> "fatal"]

(* A late response forgets its tombstone, and is fatal all the same.       *)
receive_response(t, id) ==
  IF t.outgoing[id] # NoMethod
  THEN [t |-> [t EXCEPT !.outgoing[id] = NoMethod], r |-> "ok"]
  ELSE [t |-> [t EXCEPT !.late_outgoing = @ \ {id},
                        !.late_order = IF id \in t.late_outgoing
                                       THEN Without(@, id)
                                       ELSE @],
        r |-> "fatal"]

(* receive and validate_outgoing_notification, by direction.               *)
notification(t, note, incoming) ==
  IF /\ check_notification(t, note.method, incoming) = "ok"
     /\ validate_notification_binding(t, note) = "ok"
  THEN "ok" ELSE "fatal"

(* The result tells the caller whether this is the first cancellation of   *)
(* an active request: the only one it acts on.                             *)
receive_cancel(t, id) ==
  LET active == t.incoming[id] # NoMethod
  IN  [t |-> IF active THEN [t EXCEPT !.cancelled_incoming = @ \cup {id}] ELSE t,
       r |-> IF active /\ id \notin t.cancelled_incoming THEN "first" ELSE "ok"]

(* Mutant: the cancellation mark survives the response.                    *)
commit_response_KeepsMark(t, id) ==
  IF t.incoming[id] = NoMethod
  THEN Refused(t, "fatal")
  ELSE [t |-> [t EXCEPT !.incoming[id] = NoMethod], r |-> "ok"]

commit_response(t, id) ==
  IF t.incoming[id] = NoMethod
  THEN Refused(t, "fatal")
  ELSE [t |-> [t EXCEPT !.incoming[id] = NoMethod,
                        !.cancelled_incoming = @ \ {id}],
        r |-> "ok"]

(* Mutant: a call that has its answer can still be cancelled.              *)
cancel_outgoing_Always(t, id) ==
  [t |-> [t EXCEPT !.outgoing[id] = NoMethod], r |-> "ok"]

(* Tombstone: the newest late_limit cancelled ids, oldest evicted first.   *)
cancel_outgoing(t, id) ==
  LET order   == IF id \in t.late_outgoing THEN t.late_order
                                           ELSE Append(t.late_order, id)
      expired == IF Len(order) > t.late_limit THEN Len(order) - t.late_limit ELSE 0
      gone    == {order[k] : k \in 1..expired}
  IN  IF t.outgoing[id] = NoMethod
      THEN Refused(t, "inactive")
      ELSE [t |-> [t EXCEPT !.outgoing[id] = NoMethod,
                            !.late_outgoing = (@ \cup {id}) \ gone,
                            !.late_order = SubSeq(order, expired + 1, Len(order))],
            r |-> "ok"]

set_max_active_requests(t, limit) ==
  [t EXCEPT !.max_active_requests = limit, !.late_limit = Larger(limit, 1)]

(***************************************************************************)
(* The connection phase and the active execution.                          *)
(***************************************************************************)
initialize_binding(t, mode, sess) ==
  IF t.state # "New"
  THEN Refused(t, "fatal")
  ELSE [t |-> [t EXCEPT !.execution_mode = mode,
                        !.invoking_session_id = sess,
                        !.state = "Initialized"],
        r |-> "ok"]

(* projection_succeeded, catalog_succeeded and program_loaded: one step of *)
(* the phase, from the phases the method allows.                           *)
advance(t, from, to) ==
  IF t.state \notin from THEN Refused(t, "fatal")
                         ELSE [t |-> [t EXCEPT !.state = to], r |-> "ok"]

projection_succeeded(t) == advance(t, {"Initialized"}, "Projected")

catalog_succeeded(t) == advance(t, {"Projected"}, "CatalogFrozen")

program_loaded(t) == advance(t, {"CatalogFrozen", "ProgramLoaded"}, "ProgramLoaded")

(* execution_started freezes no id, execution_started_with the given one.  *)
execution_started_binding(t, exec) ==
  IF t.state # "ProgramLoaded" \/ t.active_execution
  THEN Refused(t, "RequestInvalidState")
  ELSE [t |-> [t EXCEPT !.active_execution = TRUE, !.active_execution_id = exec],
        r |-> "ok"]

execution_finished(t) ==
  [t EXCEPT !.active_execution = FALSE, !.active_execution_id = None]

(* Mutant: the tombstones survive the connection.                          *)
disconnect_KeepsTombstones(t) ==
  [t EXCEPT !.state = "Disconnected",
            !.incoming = EmptyTable,
            !.outgoing = EmptyTable,
            !.cancelled_incoming = {},
            !.active_execution = FALSE,
            !.active_execution_id = None,
            !.execution_mode = None,
            !.invoking_session_id = None]

disconnect(t) ==
  [t EXCEPT !.state = "Disconnected",
            !.incoming = EmptyTable,
            !.outgoing = EmptyTable,
            !.cancelled_incoming = {},
            !.late_outgoing = {},
            !.late_order = <<>>,
            !.active_execution = FALSE,
            !.active_execution_id = None,
            !.execution_mode = None,
            !.invoking_session_id = None]

=============================================================================
