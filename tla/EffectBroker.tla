---------------------------- MODULE EffectBroker ----------------------------
(***************************************************************************)
(* The effect broker of an execution (BrokerEffects in                     *)
(* crates/allen-runtime/src/lib.rs) stands between the virtual machine,    *)
(* which starts, polls and cancels effects, and the providers, which put   *)
(* each effect to the host as a request of their own (the Wire* providers  *)
(* of crates/josh-host/src/server.rs keep the open ones in `active`).      *)
(*                                                                         *)
(* The broker runs on the execution thread, one call of the machine at a   *)
(* time.  What happens under its feet is the host's doing: the             *)
(* cancellation flag may rise between any two of the reads a call makes of *)
(* it, a grant may be revoked, a deadline may pass.  A call is therefore   *)
(* split at its reads of the flag and at its calls of a provider, and      *)
(* step.at says where in the call the broker is.                           *)
(***************************************************************************)
EXTENDS Naturals, Sequences, FiniteSets

CONSTANTS
  Effect,                     \* the PendingEffectIds the machine hands out
  Operations,                 \* the operations the program performs
  MaximumEffects,             \* maximum_effects
  MaximumResponseAttempts,    \* maximum_response_attempts
  PromptAttempts              \* the max_attempts of the program's prompts

Asks           == {"AgentAsk", "ModelRequest", "UserAsk"}
AgentCalls     == Asks \cup {"AgentMessage", "AgentTranscript"}
SubAgentAsks   == {"SubAgentRun", "SubAgentAsk"}
SubAgentCalls  == SubAgentAsks \cup {"SubAgentCreate", "SubAgentMessage"}
Typed          == Asks \cup SubAgentAsks
Tools          == {"Tool", "UntypedTool"}   \* with and without an error enum
AllOperations  == AgentCalls \cup SubAgentCalls \cup Tools \cup {"Permission"}

(* The language allows 1 to 3 attempts, the host's limit starts at 1.      *)
ASSUME AttemptsAreBounded ==
  /\ Effect \subseteq Nat
  /\ Operations \subseteq AllOperations
  /\ MaximumEffects \in Nat
  /\ MaximumResponseAttempts \in Nat \ {0}
  /\ PromptAttempts \subseteq Nat \ {0}

VARIABLES
  step,            \* where the broker is in which effect's call, the poll in hand
  call,            \* per effect: operation, attempt and max_attempts
  result,          \* per effect: what the machine knows of it
  pending,         \* the keys of the broker's four pending tables
  active,          \* the keys of the providers' active tables
  late,            \* open requests whose deadline has passed
  asked,           \* per effect: requests put to a provider
  audit,           \* per effect: its response_audit records
  effects,         \* effects charged
  cancelled,       \* the cancellation flag
  expired,         \* the run is over
  provider_lost,   \* the grant provider failed
  handle,          \* per effect: the capability its permission decision issued
  revocations,     \* revoked handles the broker has not taken yet
  withdrawn,       \* every handle the host has revoked
  used             \* the external handles a filesystem call reached

callVars  == <<call, asked, audit>>
tableVars == <<pending, active, late>>
grantVars == <<provider_lost, handle, revocations, withdrawn, used>>
runVars   == <<effects, cancelled, expired>>
vars == <<step, result, callVars, tableVars, grantVars, runVars>>

Answers    == {"valid", "invalid", "mistyped"}
HostErrors == {"Unavailable", "Rejected", "InvalidOutcome", "Cancelled"}
Outcomes   == {"Valid", "ValidationFailed", "ProviderFailed", "Cancelled"}
AtVm       == [at |-> "vm"]

Steps ==
  {AtVm} \cup [at : {"start", "poll"}, p : Effect]
         \cup [at : {"started", "polled"}, p : Effect, poll : Answers \cup {"Pending"}]
         \cup [at : {"finish"}, p : Effect, poll : Answers]
         \cup [at : {"use"}, p : Effect, h : Effect, grant : {"held", "revoked"}]
CallRecord  == [op : Operations \cup {"none"}, attempt : Nat, limit : Nat]
AuditRecord == [attempts : Nat, outcome : Outcomes]
Results     == {"new", "waiting", "value", "error", "trap", "cancelled", "forgotten"}

(* The type of every variable; no more effects are charged than the limit. *)
TypeOK ==
  /\ step \in Steps
  /\ call \in [Effect -> CallRecord]
  /\ result \in [Effect -> Results]
  /\ pending \subseteq Effect /\ active \subseteq Effect /\ late \subseteq active
  /\ asked \in [Effect -> Nat]
  /\ audit \in [Effect -> Seq(AuditRecord)]
  /\ effects \in 0..MaximumEffects
  /\ cancelled \in BOOLEAN /\ expired \in BOOLEAN /\ provider_lost \in BOOLEAN
  /\ handle \in [Effect -> {"none", "live", "closed"}]
  /\ revocations \subseteq Effect /\ withdrawn \subseteq Effect
  /\ used \subseteq Effect \X Effect

Init ==
  /\ step = AtVm
  /\ call = [p \in Effect |-> [op |-> "none", attempt |-> 0, limit |-> 0]]
  /\ result = [p \in Effect |-> "new"]
  /\ pending = {} /\ active = {} /\ late = {}
  /\ asked = [p \in Effect |-> 0]
  /\ audit = [p \in Effect |-> <<>>]
  /\ effects = 0
  /\ cancelled = FALSE /\ expired = FALSE /\ provider_lost = FALSE
  /\ handle = [p \in Effect |-> "none"]
  /\ revocations = {} /\ withdrawn = {} /\ used = {}

-----------------------------------------------------------------------------
(* Errors.  A provider's failure either becomes an error value of the      *)
(* operation's own Result type, which the program handles, or ends the     *)
(* task with a terminal error.                                             *)

(* tool_host_error and its siblings: Timeout and Transport fall together   *)
(* with Unavailable.                                                       *)
VmError(o, e) ==
  CASE e = "Unavailable"    -> "unavailable"
    [] e = "Rejected"       -> "denied"
    [] e = "Cancelled"      -> "cancelled"
    [] e = "InvalidOutcome" -> IF o \in Tools THEN "validation" ELSE "protocol"

(* close_expected_poll, close_tool_poll and permission_provider_error.     *)
Closes(o, e) ==
  \/ o \in AgentCalls \cup SubAgentCalls /\ e \in {"unavailable", "denied"}
  \/ o \in Typed \cup {"Tool"} /\ e = "validation"
  \/ o = "Tool" /\ e \in {"unavailable", "denied"}
  \/ o = "Permission" /\ e = "unavailable"

Closed(o, e) == IF Closes(o, e) THEN "error" ELSE "trap"

-----------------------------------------------------------------------------
(* What the parts of a call do.                                            *)

Op(p) == call[p].op

Return(p, r) == step' = AtVm /\ result' = [result EXCEPT ![p] = r]

record_audit(p, outcome) ==
  audit' = [audit EXCEPT
              ![p] = Append(@, [attempts |-> call[p].attempt, outcome |-> outcome])]

(* record_response_audit and record_sub_agent_audit, where only the effects *)
(* of some operations are recorded.                                        *)
AuditIf(recorded, p, outcome) ==
  IF recorded THEN record_audit(p, outcome) ELSE UNCHANGED audit

RevokedExternal(h) == [q \in Effect |-> IF h[q] = "live" THEN "closed" ELSE h[q]]

lose_provider ==
  /\ provider_lost' = TRUE
  /\ handle' = RevokedExternal(handle)
  /\ UNCHANGED <<revocations, withdrawn, used>>

LoseProviderIf(p) ==
  IF Op(p) = "Permission" THEN lose_provider ELSE UNCHANGED grantVars

(* refresh_external_state: nothing to take while no external capability is *)
(* live, otherwise the capabilities the host revoked are closed.           *)
HasLive == \E q \in Effect : handle[q] = "live"

Taken == IF HasLive THEN revocations ELSE {}

(* Mutant: the revoked capabilities are taken and stay as they are.        *)
RefreshedHandles_Stale == handle

RefreshedHandles ==
  [q \in Effect |-> IF q \in Taken /\ handle[q] = "live" THEN "closed" ELSE handle[q]]

refresh_external_state ==
  /\ ~provider_lost
  /\ handle' = RefreshedHandles
  /\ revocations' = revocations \ Taken
  /\ UNCHANGED provider_lost

refresh_fails ==
  \/ provider_lost /\ UNCHANGED <<provider_lost, handle, revocations>>
  \/ /\ ~provider_lost /\ HasLive
     /\ provider_lost' = TRUE
     /\ handle' = RevokedExternal(handle)
     /\ UNCHANGED revocations

-----------------------------------------------------------------------------
(* Starting an effect: start_call for a permission, start_tool,            *)
(* start_agent and start_sub_agent.                                        *)

Ready == step = AtVm /\ ~expired

(* The machine numbers its effects in the order it starts them.            *)
next_pending_effect(p) == \A q \in Effect : q < p => result[q] # "new"

(* charge_effect refuses the effect.                                       *)
Overcharged(p) ==
  /\ Ready /\ result[p] = "new" /\ next_pending_effect(p)
  /\ effects >= MaximumEffects
  /\ Return(p, "trap")
  /\ UNCHANGED <<callVars, tableVars, grantVars, runVars>>

(* Everything a start refuses before it calls a provider: an absent        *)
(* provider, arguments outside the program's authority, an argument of the *)
(* wrong shape, a passed wall-time limit, the raised flag.                 *)
Refused(p, o) ==
  /\ Ready /\ result[p] = "new" /\ next_pending_effect(p)
  /\ effects < MaximumEffects
  /\ effects' = effects + 1
  /\ IF o = "Permission"
     THEN /\ refresh_external_state \/ refresh_fails
          /\ UNCHANGED <<withdrawn, used>>
     ELSE UNCHANGED grantVars
  /\ \E r \in {"error", "trap"} : Return(p, r)
  /\ UNCHANGED <<callVars, tableVars, cancelled, expired>>

Dispatched(p, o, n) ==
  /\ Ready /\ result[p] = "new" /\ next_pending_effect(p)
  /\ effects < MaximumEffects
  /\ effects' = effects + 1
  /\ o \in AgentCalls \cup {"Permission"} => ~cancelled
  /\ IF o = "Permission"
     THEN refresh_external_state /\ UNCHANGED <<withdrawn, used>>
     ELSE UNCHANGED grantVars
  /\ call' = [call EXCEPT ![p] =
                [op |-> o, attempt |-> 1,
                 limit |-> IF n < MaximumResponseAttempts THEN n
                                                          ELSE MaximumResponseAttempts]]
  /\ step' = [at |-> "start", p |-> p]
  /\ UNCHANGED <<result, asked, audit, tableVars, cancelled, expired>>

(* The provider refuses the request or cannot send it.                     *)
ProviderStartFails(p, e) ==
  /\ step = [at |-> "start", p |-> p]
  /\ asked' = [asked EXCEPT ![p] = @ + 1]
  /\ AuditIf(Op(p) \in Asks, p, "ProviderFailed")
  /\ LoseProviderIf(p)
  /\ Return(p, Closed(Op(p), VmError(Op(p), e)))
  /\ UNCHANGED <<call, tableVars, runVars>>

(* The provider keeps the request open.                                    *)
ProviderAccepts(p) ==
  /\ step = [at |-> "start", p |-> p]
  /\ ~cancelled /\ p \notin active
  /\ asked' = [asked EXCEPT ![p] = @ + 1]
  /\ active' = active \cup {p}
  /\ step' = [at |-> "started", p |-> p, poll |-> "Pending"]
  /\ UNCHANGED <<result, call, audit, pending, late, grantVars, runVars>>

(* The provider answers at once: the default start of the provider traits. *)
ProviderAnswersAtOnce(p, x) ==
  /\ step = [at |-> "start", p |-> p]
  /\ asked' = [asked EXCEPT ![p] = @ + 1]
  /\ step' = [at |-> "started", p |-> p, poll |-> x]
  /\ UNCHANGED <<result, call, audit, tableVars, grantVars, runVars>>

(* The flag rose while the provider started the request: the request is    *)
(* withdrawn.  A permission is not looked at again here, and the first     *)
(* request of a sub-agent is not recorded.                                 *)
StartedCancelled(p) ==
  /\ step.at = "started" /\ step.p = p
  /\ cancelled /\ Op(p) # "Permission"
  /\ active' = active \ {p} /\ late' = late \ {p}
  /\ AuditIf(Op(p) \in Asks \/ (Op(p) \in SubAgentAsks /\ call[p].attempt > 1),
             p, "Cancelled")
  /\ Return(p, "trap")
  /\ UNCHANGED <<call, asked, pending, grantVars, runVars>>

StartedPending(p) ==
  /\ step = [at |-> "started", p |-> p, poll |-> "Pending"]
  /\ cancelled => Op(p) = "Permission"
  /\ pending' = pending \cup {p}
  /\ Return(p, "waiting")
  /\ UNCHANGED <<callVars, active, late, grantVars, runVars>>

StartedAnswered(p, x) ==
  /\ step = [at |-> "started", p |-> p, poll |-> x]
  /\ cancelled => Op(p) = "Permission"
  /\ step' = [at |-> "finish", p |-> p, poll |-> x]
  /\ UNCHANGED <<result, callVars, tableVars, grantVars, runVars>>

-----------------------------------------------------------------------------
(* An answer in hand: finish_agent_poll, finish_sub_agent_poll,            *)
(* tool_outcome_value and finish_permission_decision.                      *)

InHand(p, x) == step = [at |-> "finish", p |-> p, poll |-> x]

FinishValid(p) ==
  /\ InHand(p, "valid")
  /\ AuditIf(Op(p) \in Typed, p, "Valid")
  /\ handle' = IF Op(p) = "Permission" THEN [handle EXCEPT ![p] = "live"] ELSE handle
  /\ Return(p, "value")
  /\ UNCHANGED <<call, asked, tableVars, provider_lost, revocations, withdrawn, used,
                 runVars>>

(* An answer of another kind than the request's.                           *)
FinishMistyped(p) ==
  /\ InHand(p, "mistyped")
  /\ AuditIf(Op(p) \in Typed, p, "ValidationFailed")
  /\ Return(p, "trap")
  /\ UNCHANGED <<call, asked, tableVars, grantVars, runVars>>

(* An answer that does not validate, or a denied permission, with no       *)
(* attempt left.                                                           *)
FinishInvalid(p) ==
  /\ InHand(p, "invalid")
  /\ Op(p) \in Typed => call[p].attempt >= call[p].limit
  /\ AuditIf(Op(p) \in Typed, p, "ValidationFailed")
  /\ Return(p, IF Op(p) = "Permission" THEN "error" ELSE Closed(Op(p), "validation"))
  /\ UNCHANGED <<call, asked, tableVars, grantVars, runVars>>

(* Mutant: one attempt too many.                                           *)
FinishRetries_Once_More(p) ==
  /\ InHand(p, "invalid")
  /\ Op(p) \in Typed /\ call[p].attempt <= call[p].limit
  /\ call' = [call EXCEPT ![p].attempt = @ + 1]
  /\ step' = [at |-> "start", p |-> p]
  /\ UNCHANGED <<result, asked, audit, tableVars, grantVars, runVars>>

(* The next attempt is put to the provider.                                *)
FinishRetries(p) ==
  /\ InHand(p, "invalid")
  /\ Op(p) \in Typed /\ call[p].attempt < call[p].limit
  /\ call' = [call EXCEPT ![p].attempt = @ + 1]
  /\ step' = [at |-> "start", p |-> p]
  /\ UNCHANGED <<result, asked, audit, tableVars, grantVars, runVars>>

-----------------------------------------------------------------------------
(* cancel_effect, for the effects whose pending entries it removes.        *)

(* Mutant: a cancelled interaction leaves no record.                       *)
CancelAudit_Silent(P) == audit

CancelAudit(P) ==
  [p \in Effect |->
     IF p \in P /\ Op(p) \in Typed
     THEN Append(audit[p], [attempts |-> call[p].attempt, outcome |-> "Cancelled"])
     ELSE audit[p]]

cancel_effects(P) ==
  /\ pending' = pending \ P
  /\ active' = active \ (P \cap pending)
  /\ late' = late \ (P \cap pending)
  /\ audit' = CancelAudit(P \cap pending)

(* poll_effect.  The flag is read before the provider is called ...        *)
PollCancelled(p) ==
  /\ Ready /\ result[p] = "waiting" /\ cancelled
  /\ cancel_effects({p})
  /\ Return(p, "trap")
  /\ UNCHANGED <<call, asked, grantVars, runVars>>

PollBegins(p) ==
  /\ Ready /\ result[p] = "waiting" /\ ~cancelled
  /\ step' = [at |-> "poll", p |-> p]
  /\ UNCHANGED <<result, callVars, tableVars, grantVars, runVars>>

(* ... the provider drops the request when it fails ...                    *)
ProviderPollFails(p, e) ==
  /\ step = [at |-> "poll", p |-> p]
  /\ pending' = pending \ {p} /\ active' = active \ {p} /\ late' = late \ {p}
  /\ AuditIf(Op(p) \in Asks, p, "ProviderFailed")
  /\ LoseProviderIf(p)
  /\ Return(p, Closed(Op(p), VmError(Op(p), e)))
  /\ UNCHANGED <<call, asked, runVars>>

(* Mutant: the deadline of an open request is not looked at.               *)
ProviderPollsPending_Forever(p) ==
  /\ step = [at |-> "poll", p |-> p]
  /\ ~cancelled /\ p \in active
  /\ step' = [at |-> "polled", p |-> p, poll |-> "Pending"]
  /\ UNCHANGED <<result, callVars, tableVars, grantVars, runVars>>

ProviderPollsPending(p) ==
  /\ step = [at |-> "poll", p |-> p]
  /\ ~cancelled /\ p \in active \ late
  /\ step' = [at |-> "polled", p |-> p, poll |-> "Pending"]
  /\ UNCHANGED <<result, callVars, tableVars, grantVars, runVars>>

ProviderPollsAnswer(p, x) ==
  /\ step = [at |-> "poll", p |-> p]
  /\ ~cancelled /\ p \in active
  /\ active' = active \ {p} /\ late' = late \ {p}
  /\ step' = [at |-> "polled", p |-> p, poll |-> x]
  /\ UNCHANGED <<result, callVars, pending, grantVars, runVars>>

(* ... and it is read again after a call of an agent or a sub-agent, whose *)
(* answer is then thrown away.                                             *)
PolledCancelled(p) ==
  /\ step.at = "polled" /\ step.p = p
  /\ cancelled /\ Op(p) \in AgentCalls \cup SubAgentCalls
  /\ pending' = pending \ {p} /\ active' = active \ {p} /\ late' = late \ {p}
  /\ AuditIf(Op(p) \in Asks, p, "Cancelled")
  /\ Return(p, "trap")
  /\ UNCHANGED <<call, asked, grantVars, runVars>>

PolledPending(p) ==
  /\ step = [at |-> "polled", p |-> p, poll |-> "Pending"]
  /\ cancelled => Op(p) \notin AgentCalls \cup SubAgentCalls
  /\ step' = AtVm
  /\ UNCHANGED <<result, callVars, tableVars, grantVars, runVars>>

(* Mutant: the answered effect stays in the pending table.                 *)
PolledAnswered_Keeps(p, x) ==
  /\ step = [at |-> "polled", p |-> p, poll |-> x]
  /\ cancelled => Op(p) \notin AgentCalls \cup SubAgentCalls
  /\ step' = [at |-> "finish", p |-> p, poll |-> x]
  /\ UNCHANGED <<result, callVars, tableVars, grantVars, runVars>>

PolledAnswered(p, x) ==
  /\ step = [at |-> "polled", p |-> p, poll |-> x]
  /\ cancelled => Op(p) \notin AgentCalls \cup SubAgentCalls
  /\ pending' = pending \ {p}
  /\ step' = [at |-> "finish", p |-> p, poll |-> x]
  /\ UNCHANGED <<result, callVars, active, late, grantVars, runVars>>

(* The machine cancels the effect of a task it cancels ...                 *)
CancelEffect(p) ==
  /\ Ready /\ result[p] = "waiting"
  /\ cancel_effects({p})
  /\ step' = AtVm
  /\ result' = [result EXCEPT ![p] = "cancelled"]
  /\ UNCHANGED <<call, asked, grantVars, runVars>>

(* ... but not those of the descendants of a task that fails by itself:     *)
(* they leave the task table and nobody polls or cancels their effects.    *)
ForgetEffect(p) ==
  /\ Ready /\ result[p] = "waiting"
  /\ Return(p, "forgotten")
  /\ UNCHANGED <<callVars, tableVars, grantVars, runVars>>

(* Mutant: effects the machine has forgotten are settled as well.          *)
EndAndCancel_Forgotten ==
  /\ Ready
  /\ cancel_effects(pending)
  /\ result' = [p \in Effect |-> IF result[p] \in {"waiting", "forgotten"}
                                 THEN "cancelled" ELSE result[p]]
  /\ handle' = [p \in Effect |-> "none"]
  /\ expired' = TRUE
  /\ UNCHANGED <<step, call, asked, effects, cancelled, provider_lost, revocations,
                 withdrawn, used>>

(* A run that fails, stops or is interrupted ends with cancel_pending and  *)
(* expire ...                                                              *)
EndAndCancel ==
  /\ Ready
  /\ cancel_effects(pending)
  /\ result' = [p \in Effect |-> IF result[p] = "waiting" THEN "cancelled" ELSE result[p]]
  /\ handle' = [p \in Effect |-> "none"]
  /\ expired' = TRUE
  /\ UNCHANGED <<step, call, asked, effects, cancelled, provider_lost, revocations,
                 withdrawn, used>>

(* ... one whose entry task returns, alone in the task table, with expire  *)
(* only.                                                                   *)
EndCompleted ==
  /\ Ready
  /\ \A p \in Effect : result[p] # "waiting"
  /\ handle' = [p \in Effect |-> "none"]
  /\ expired' = TRUE
  /\ UNCHANGED <<step, result, callVars, tableVars, effects, cancelled, provider_lost,
                 revocations, withdrawn, used>>

-----------------------------------------------------------------------------
(* A filesystem call on the external capability the permission request h   *)
(* was answered with: call takes the revocations, filesystem_call then     *)
(* uses the capability, and the host runs on between the two.              *)

FilesystemUnavailable(p, h) ==
  /\ Ready /\ result[p] = "new" /\ next_pending_effect(p)
  /\ handle[h] # "none"
  /\ effects < MaximumEffects /\ effects' = effects + 1
  /\ refresh_fails
  /\ Return(p, "error")
  /\ UNCHANGED <<callVars, tableVars, withdrawn, used, cancelled, expired>>

(* step.grant is history: whether the host had revoked the grant by then.  *)
FilesystemBegins(p, h) ==
  /\ Ready /\ result[p] = "new" /\ next_pending_effect(p)
  /\ handle[h] # "none"
  /\ effects < MaximumEffects /\ effects' = effects + 1
  /\ refresh_external_state
  /\ step' = [at |-> "use", p |-> p, h |-> h,
              grant |-> IF h \in withdrawn THEN "revoked" ELSE "held"]
  /\ UNCHANGED <<result, callVars, tableVars, withdrawn, used, cancelled, expired>>

FilesystemUses(p, h) ==
  /\ step.at = "use" /\ step.p = p /\ step.h = h
  /\ handle[h] = "live"
  /\ used' = used \cup {<<p, h>>}
  /\ \E r \in {"value", "error", "trap"} : Return(p, r)
  /\ UNCHANGED <<callVars, tableVars, provider_lost, handle, revocations, withdrawn, runVars>>

(* A closed capability, or a right, a path or a charge that is refused.    *)
FilesystemDenied(p, h) ==
  /\ step.at = "use" /\ step.p = p /\ step.h = h
  /\ Return(p, "error") \/ (handle[h] = "live" /\ Return(p, "trap"))
  /\ UNCHANGED <<callVars, tableVars, grantVars, runVars>>

-----------------------------------------------------------------------------
(* The host.                                                               *)

Cancel ==
  /\ ~cancelled
  /\ cancelled' = TRUE
  /\ UNCHANGED <<step, result, callVars, tableVars, grantVars, effects, expired>>

(* permission/revoke names an issued handle (GrantRegistry).               *)
Revoke(h) ==
  /\ handle[h] # "none" /\ h \notin withdrawn
  /\ withdrawn' = withdrawn \cup {h}
  /\ revocations' = revocations \cup {h}
  /\ UNCHANGED <<step, result, callVars, tableVars, provider_lost, handle, used, runVars>>

DeadlinePasses(p) ==
  /\ p \in active \ late
  /\ late' = late \cup {p}
  /\ UNCHANGED <<step, result, callVars, pending, active, grantVars, runVars>>

-----------------------------------------------------------------------------
Start(p) ==
  \/ Overcharged(p)
  \/ \E o \in Operations : Refused(p, o)
  \/ \E o \in Operations, n \in PromptAttempts : Dispatched(p, o, n)

Progress(p) ==
  \/ \E e \in HostErrors : ProviderStartFails(p, e) \/ ProviderPollFails(p, e)
  \/ \E x \in Answers :
       \/ ProviderAnswersAtOnce(p, x) \/ StartedAnswered(p, x)
       \/ ProviderPollsAnswer(p, x) \/ PolledAnswered(p, x)
  \/ ProviderAccepts(p) \/ StartedCancelled(p) \/ StartedPending(p)
  \/ FinishValid(p) \/ FinishMistyped(p) \/ FinishInvalid(p) \/ FinishRetries(p)
  \/ ProviderPollsPending(p) \/ PolledCancelled(p) \/ PolledPending(p)

Filesystem(p) ==
  \E h \in Effect : \/ FilesystemUnavailable(p, h) \/ FilesystemBegins(p, h)
                    \/ FilesystemUses(p, h) \/ FilesystemDenied(p, h)

Poll(p) == PollCancelled(p) \/ PollBegins(p)

Next ==
  \/ \E p \in Effect :
       \/ Start(p) \/ Progress(p) \/ Poll(p)
       \/ CancelEffect(p) \/ ForgetEffect(p) \/ Filesystem(p)
       \/ Revoke(p) \/ DeadlinePasses(p)
  \/ EndAndCancel \/ EndCompleted \/ Cancel

Spec == Init /\ [][Next]_vars

(* The execution thread runs, the machine's wake pass polls every waiting  *)
(* task again and again, and time passes.                                  *)
Fairness ==
  /\ WF_vars(\E p \in Effect : Progress(p))
  /\ WF_vars(step.at = "use" /\ \E p \in Effect : Filesystem(p))
  /\ \A p \in Effect : SF_vars(Poll(p)) /\ WF_vars(DeadlinePasses(p))

FairSpec == Spec /\ Fairness

-----------------------------------------------------------------------------
(* Properties.                                                             *)

(* p is in the hands of a provider, or of the broker on the way to or from *)
(* one.                                                                    *)
InCall(p) == step.at # "vm" /\ step.at # "use" /\ step.p = p

(* Between two calls the broker and the providers agree on which requests  *)
(* are open, and during a call they can only differ about the effect at    *)
(* hand.  Every effect the machine waits for is open; an open one nobody   *)
(* waits for is one the machine has forgotten.                             *)
ProvidersAgree ==
  \A p \in Effect : ~InCall(p) =>
    /\ p \in pending <=> p \in active
    /\ result[p] = "waiting" => p \in pending
    /\ p \in pending => result[p] \in {"waiting", "forgotten"}

(* The audit trail (response_audit) has no record of an interaction that is *)
(* still open, and exactly one of an agent, model or user interaction that *)
(* is over, however it ended.  A sub-agent interaction has at most one, and *)
(* has one if its answer reached the program.                              *)
AuditedOnce ==
  \A p \in Effect :
    /\ Op(p) \in Asks => Len(audit[p]) = IF InCall(p) \/ p \in pending THEN 0 ELSE 1
    /\ Op(p) \in SubAgentAsks =>
         /\ Len(audit[p]) <= IF InCall(p) \/ p \in pending THEN 0 ELSE 1
         /\ result[p] = "value" => Len(audit[p]) = 1

(* What a record says is what happened: its attempts are the requests the  *)
(* provider was sent, never more than the prompt and the host allow, it    *)
(* says Valid exactly when the program got the answer, and a program that  *)
(* is told its answer was invalid had every attempt it was entitled to.    *)
AuditIsTrue ==
  \A p \in Effect : \A i \in 1..Len(audit[p]) :
    LET r == audit[p][i] IN
    /\ r.attempts = asked[p] /\ asked[p] <= call[p].limit
    /\ (r.outcome = "Valid") <=> (result[p] = "value")
    /\ r.outcome = "ValidationFailed" /\ result[p] = "error" => r.attempts = call[p].limit

(* A filesystem call reaches an external target only while the grant       *)
(* provider is there, and never through a grant the host had revoked by    *)
(* the time the call took the revocations.  A revocation that comes later  *)
(* in the call is too late for it: the next call is the first it stops.    *)
UseIsAuthorised ==
  [][\A u \in used' \ used : ~provider_lost /\ step.grant = "held"]_vars

(* Seen from outside the broker keeps the contract of EffectContract: an   *)
(* effect is settled at most once, and the host holds no request of one    *)
(* that is settled.                                                        *)
life ==
  [p \in Effect |->
     IF result[p] = "forgotten" THEN "forgotten"
     ELSE IF InCall(p) \/ result[p] = "waiting" THEN "busy"
     ELSE IF result[p] = "new" THEN "new" ELSE "done"]

Contract == INSTANCE EffectContract WITH life <- life, open <- active

KeepsContract == Contract!Spec

(* An effect the machine waits for is settled: its provider answers or     *)
(* fails, at the latest when the deadline passes, and attempts are bounded.*)
EveryCallSettles ==
  \A p \in Effect : result[p] = "waiting" ~> (result[p] # "waiting" \/ expired)

=============================================================================
