-------------------------- MODULE ProtocolMessages --------------------------
(***************************************************************************)
(* The messages of the JOSH protocol (crates/josh-protocol/src/state.rs):  *)
(* the methods, who sends them, and what of a request and of a             *)
(* notification the protocol tracker looks at.                             *)
(*                                                                         *)
(* A request is the record [id, method, exec, sess, valid] and a           *)
(* notification the record [method, exec, sess, decision, valid]: exec and *)
(* sess are the identities the parameters carry, valid says whether the    *)
(* parameters parse, decision marks a PermissionDecision event.  An id     *)
(* table (BTreeMap<String, String>) is a function from ReqId to a method,  *)
(* NoMethod where the id is not active.                                    *)
(***************************************************************************)
EXTENDS Naturals, FiniteSets, Sequences

CONSTANTS
  ReqId,      \* request ids: the texts a peer may put in an envelope
  ExecId,     \* execution ids
  SessId      \* invoking-session ids

CONSTANT None \* the absent Option, also the absent id-table entry

ASSUME NoneIsFresh == None \notin ExecId /\ None \notin SessId

HostMethods ==
  {"initialize", "host/project", "catalog/set", "program/load",
   "execution/start"}

(* Requests that name the execution and the attached session ...           *)
SessionMethods ==
  {"agent/message", "agent/ask", "agent/transcript", "permission/request"}

(* ... and requests that name the execution only.                          *)
ExecutionMethods ==
  {"model/request", "user/ask", "sub_agent/create", "sub_agent/run",
   "sub_agent/message", "sub_agent/ask"}

RuntimeMethods == {"tool/invoke"} \cup SessionMethods \cup ExecutionMethods

Methods == HostMethods \cup RuntimeMethods

SingletonMethods == {"initialize", "host/project", "catalog/set"}

NoMethod == "-"

Requests ==
  [id : ReqId, method : Methods \cup {"unknown"},
   exec : ExecId \cup {None}, sess : SessId \cup {None}, valid : BOOLEAN]

Notifications ==
  [method : {"runtime/ready", "execution/event", "permission/revoke", "unknown"},
   exec : ExecId \cup {None}, sess : SessId \cup {None},
   decision : BOOLEAN, valid : BOOLEAN]

EmptyTable == [i \in ReqId |-> NoMethod]

Active(table) == {i \in ReqId : table[i] # NoMethod}

=============================================================================
