------------------------- MODULE EffectBrokerProofs -------------------------
(***************************************************************************)
(* Proofs about the effect broker, for every set of effects and every      *)
(* limit.  The inductive invariant says, of one effect at a time, what     *)
(* each place in a call implies about the broker's tables, the provider's  *)
(* table, the attempts made and the audit records: EffectInv.  A call is   *)
(* about one effect, so each action is looked at for its own effect, and   *)
(* FrameOthers carries the invariant over for the rest.                    *)
(***************************************************************************)
EXTENDS EffectBroker, TLAPS

(* The provers are given up to a minute for a leaf.                        *)
USE ZenonT(60)

TrueRecord(p, r) ==
  /\ r.attempts = asked[p] /\ asked[p] <= call[p].limit
  /\ (r.outcome = "Valid") <=> (result[p] = "value")
  /\ r.outcome = "ValidationFailed" /\ result[p] = "error" => r.attempts = call[p].limit

(* The records of an effect whose call is over.                            *)
Recorded(p) ==
  \/ /\ audit[p] = <<>>
     /\ Op(p) \notin Asks
     /\ Op(p) \in SubAgentAsks => result[p] # "value"
  \/ /\ Len(audit[p]) = 1
     /\ TrueRecord(p, audit[p][1])

Calling(p) ==
  /\ ~expired /\ Op(p) # "none" /\ audit[p] = <<>> /\ result[p] \in {"new", "waiting"}
  /\ step.at = "start" => /\ p \notin pending /\ p \notin active
                          /\ asked[p] = call[p].attempt - 1
  /\ step.at # "start" => asked[p] = call[p].attempt
  /\ step.at = "started" => p \notin pending /\ (p \in active <=> step.poll = "Pending")
  /\ step.at = "poll" => p \in pending /\ p \in active
  /\ step.at = "polled" => p \in pending /\ (p \in active <=> step.poll = "Pending")
  /\ step.at \in {"poll", "polled"} => result[p] = "waiting"
  /\ step.at = "finish" => p \notin pending /\ p \notin active

Resting(p) ==
  /\ p \in pending <=> p \in active
  /\ result[p] = "waiting" => p \in pending
  /\ result[p] = "new" => Op(p) = "none"
  /\ p \in pending => /\ result[p] \in {"waiting", "forgotten"} /\ Op(p) # "none"
                      /\ audit[p] = <<>> /\ asked[p] = call[p].attempt
  /\ p \notin pending /\ Op(p) # "none" => Recorded(p)
  /\ Op(p) = "none" => audit[p] = <<>> /\ asked[p] = 0

EffectInv(p) ==
  /\ Op(p) # "none" => call[p].attempt >= 1 /\ call[p].attempt <= call[p].limit
  /\ InCall(p) => Calling(p)
  /\ ~InCall(p) => Resting(p)

(* Capabilities: none before the permission request is answered, and a     *)
(* revoked one is closed or queued to be.                                  *)
Unanswered(p) == InCall(p) \/ p \in pending \/ Op(p) = "none"

GrantInv ==
  \A p \in Effect :
    /\ Unanswered(p) => handle[p] = "none" /\ p \notin withdrawn
    /\ p \in withdrawn => p \in revocations \/ handle[p] # "live"

CallInv == \A p \in Effect : EffectInv(p)

IInv == TypeOK /\ CallInv /\ GrantInv

(* Between taking the revocations and using a capability: the effect is    *)
(* unsettled, the provider is there and a capability that had been revoked *)
(* is closed.                                                              *)
UseInv ==
  step.at = "use" => /\ result[step.p] = "new" /\ ~provider_lost
                     /\ step.grant \in {"held", "revoked"}
                     /\ step.grant = "revoked" => handle[step.h] # "live"

-----------------------------------------------------------------------------
(* Sequences of one record.                                                *)

(* The first audit record of an effect makes a trail of one.               *)
LEMMA FirstRecord ==
  ASSUME NEW r \in AuditRecord
  PROVE  Append(<<>>, r) \in Seq(AuditRecord) /\ Len(Append(<<>>, r)) = 1 /\ Append(<<>>, r)[1] = r
BY SMTT(60)

(* BrokerEffects::new starts in the invariant.                             *)
LEMMA InitInvariant == Init => IInv
<1> SUFFICES ASSUME Init PROVE IInv
  OBVIOUS
<1>1. TypeOK
  <2>1. step \in Steps
    BY DEF Init, Steps
  <2>2. call \in [Effect -> CallRecord]
    BY DEF Init, CallRecord
  <2>3. result \in [Effect -> Results] /\ asked \in [Effect -> Nat]
    BY DEF Init, Results
  <2>4. audit \in [Effect -> Seq(AuditRecord)]
    BY SMTT(60) DEF Init
  <2>5. effects \in 0..MaximumEffects
    BY SMTT(60), AttemptsAreBounded DEF Init
  <2> QED
    BY <2>1, <2>2, <2>3, <2>4, <2>5 DEF Init, TypeOK
<1>2. CallInv
  BY DEF Init, CallInv, EffectInv, InCall, Resting, Op, AtVm
<1>3. GrantInv
  BY DEF Init, GrantInv
<1> QED
  BY <1>1, <1>2, <1>3 DEF IInv

(* Nothing about q changes.                                                *)
Same(q) ==
  /\ call'[q] = call[q] /\ result'[q] = result[q]
  /\ asked'[q] = asked[q] /\ audit'[q] = audit[q]
  /\ q \in pending' <=> q \in pending
  /\ q \in active' <=> q \in active

Only(p) == \A q \in Effect \ {p} : Same(q) /\ ~InCall(q) /\ ~InCall(q)'

(* Effects a step is not about keep their part of the invariant.           *)
LEMMA FrameOthers ==
  ASSUME CallInv, NEW p \in Effect, Only(p), EffectInv(p)'
  PROVE  CallInv'
<1> SUFFICES ASSUME NEW q \in Effect, q # p PROVE EffectInv(q)'
  BY DEF CallInv
<1>1. EffectInv(q) /\ Same(q) /\ ~InCall(q) /\ ~InCall(q)'
  BY DEF CallInv, Only
<1>2. Op(q)' = Op(q)
  BY <1>1 DEF Op, Same
<1>3. Recorded(q) => Recorded(q)'
  BY <1>1, <1>2 DEF Recorded, TrueRecord, Same
<1>4. Resting(q)'
  BY <1>1, <1>2, <1>3 DEF EffectInv, Resting, Same
<1> QED
  BY <1>1, <1>2, <1>4 DEF EffectInv, Same

-----------------------------------------------------------------------------
(* One lemma per action.                                                   *)

(* The places of the thread have their type.                               *)
LEMMA StepTypes ==
  ASSUME NEW p \in Effect
  PROVE  /\ AtVm \in Steps
         /\ [at |-> "start", p |-> p] \in Steps
         /\ [at |-> "poll", p |-> p] \in Steps
         /\ \A x \in Answers \cup {"Pending"} :
              /\ [at |-> "started", p |-> p, poll |-> x] \in Steps
              /\ [at |-> "polled", p |-> p, poll |-> x] \in Steps
         /\ \A x \in Answers : [at |-> "finish", p |-> p, poll |-> x] \in Steps
         /\ \A h \in Effect, g \in {"held", "revoked"} :
              [at |-> "use", p |-> p, h |-> h, grant |-> g] \in Steps
BY DEF Steps

(* What an action does to the capabilities, other than issuing one.        *)
GrantsKept ==
  /\ handle' \in [Effect -> {"none", "live", "closed"}]
  /\ revocations' \subseteq Effect /\ provider_lost' \in BOOLEAN
  /\ withdrawn' = withdrawn
  /\ \A q \in Effect :
       /\ handle[q] = "none" => handle'[q] = "none"
       /\ q \in withdrawn => q \in revocations' \/ handle'[q] # "live"

(* A step that leaves the grants alone keeps them.                         *)
LEMMA UnchangedGrants ==
  ASSUME IInv, UNCHANGED <<provider_lost, handle, revocations, withdrawn>>
  PROVE  GrantsKept
BY DEF IInv, TypeOK, GrantInv, GrantsKept

(* refresh_external_state, also when it fails, keeps the grants.           *)
LEMMA RefreshedGrants ==
  ASSUME IInv, refresh_external_state \/ refresh_fails, withdrawn' = withdrawn
  PROVE  GrantsKept
<1>1. CASE refresh_external_state
  <2>1. /\ handle' \in [Effect -> {"none", "live", "closed"}]
        /\ revocations' \subseteq Effect /\ provider_lost' \in BOOLEAN
    BY <1>1 DEF IInv, TypeOK, refresh_external_state, RefreshedHandles
  <2>2. \A q \in Effect : handle[q] = "none" => handle'[q] = "none"
    BY <1>1 DEF refresh_external_state, RefreshedHandles
  <2>3. \A q \in Effect : q \in withdrawn => q \in revocations' \/ handle'[q] # "live"
    BY <1>1 DEF IInv, GrantInv, refresh_external_state, RefreshedHandles, Taken
  <2> QED
    BY <2>1, <2>2, <2>3 DEF GrantsKept
<1>2. CASE refresh_fails
  BY <1>2 DEF IInv, TypeOK, GrantInv, GrantsKept, refresh_fails, RevokedExternal
<1> QED
  BY <1>1, <1>2

(* Losing the provider of external grants closes them all.                 *)
LEMMA LostGrants ==
  ASSUME IInv, NEW p \in Effect, LoseProviderIf(p)
  PROVE  GrantsKept /\ used' = used
BY DEF IInv, TypeOK, GrantInv, GrantsKept, LoseProviderIf, lose_provider, RevokedExternal,
       grantVars

(* Grants that are kept keep their invariant.                              *)
LEMMA GrantFrame ==
  ASSUME IInv, GrantsKept, \A q \in Effect : Unanswered(q)' => Unanswered(q)
  PROVE  GrantInv'
BY DEF IInv, GrantInv, GrantsKept

(* An audit record is written for p, or none is.                           *)
LEMMA AuditType ==
  ASSUME IInv, NEW p \in Effect, NEW outcome \in Outcomes, NEW recorded,
         audit[p] = <<>>, AuditIf(recorded, p, outcome)
  PROVE  /\ audit' \in [Effect -> Seq(AuditRecord)]
         /\ \A q \in Effect \ {p} : audit'[q] = audit[q]
         /\ ~recorded => audit'[p] = <<>>
         /\ recorded => /\ Len(audit'[p]) = 1
                        /\ audit'[p][1].attempts = call[p].attempt
                        /\ audit'[p][1].outcome = outcome
<1> DEFINE r == [attempts |-> call[p].attempt, outcome |-> outcome]
<1>1. r \in AuditRecord /\ audit \in [Effect -> Seq(AuditRecord)]
  BY DEF IInv, TypeOK, CallRecord, AuditRecord
<1>2. CASE recorded
  <2>1. audit' = [audit EXCEPT ![p] = Append(@, r)]
    BY <1>2 DEF AuditIf, record_audit
  <2>2. r.attempts = call[p].attempt /\ r.outcome = outcome
    OBVIOUS
  <2> HIDE DEF r
  <2>3. Append(audit[p], r) \in Seq(AuditRecord) /\ Len(Append(audit[p], r)) = 1
        /\ Append(audit[p], r)[1] = r
    BY <1>1, FirstRecord
  <2>4. audit'[p] = Append(audit[p], r) /\ \A q \in Effect \ {p} : audit'[q] = audit[q]
    BY <1>1, <2>1
  <2>5. audit' \in [Effect -> Seq(AuditRecord)]
    BY <1>1, <2>1, <2>3
  <2> QED
    BY <1>2, <2>2, <2>3, <2>4, <2>5
<1>3. CASE ~recorded
  BY <1>1, <1>3 DEF AuditIf
<1> QED
  BY <1>2, <1>3

(* The call of p ends, and with it the interaction.                        *)
LEMMA Settled ==
  ASSUME IInv, NEW p \in Effect, InCall(p),
         NEW r \in {"value", "error", "trap"}, Return(p, r),
         NEW recorded, NEW outcome \in Outcomes, AuditIf(recorded, p, outcome),
         call' = call, asked'[p] = call[p].attempt, p \notin pending', p \notin active',
         Op(p) \in Asks => recorded,
         Op(p) \in SubAgentAsks /\ r = "value" => recorded,
         outcome = "Valid" <=> r = "value",
         recorded /\ outcome = "ValidationFailed" /\ r = "error" => call[p].attempt = call[p].limit
  PROVE  EffectInv(p)'
<1>1. /\ Calling(p) /\ audit[p] = <<>> /\ Op(p) # "none"
      /\ call[p].attempt >= 1 /\ call[p].attempt <= call[p].limit
  BY DEF IInv, CallInv, EffectInv, Calling
<1>2. /\ ~recorded => audit'[p] = <<>>
      /\ recorded => /\ Len(audit'[p]) = 1
                     /\ audit'[p][1].attempts = call[p].attempt
                     /\ audit'[p][1].outcome = outcome
  BY SMTT(60), <1>1, AuditType
<1>3. result'[p] = r /\ ~InCall(p)' /\ Op(p)' = Op(p)
  BY DEF IInv, TypeOK, Return, InCall, AtVm, Op
<1>4. Recorded(p)'
  BY <1>1, <1>2, <1>3 DEF Recorded, TrueRecord
<1> QED
  BY <1>1, <1>3, <1>4 DEF EffectInv, Resting

(* An effect over the limit is refused by charge_effect.                   *)
LEMMA OverchargedInv ==
  ASSUME IInv, NEW p \in Effect, Overcharged(p)
  PROVE  IInv' /\ Only(p)
<1> USE DEF callVars, tableVars, grantVars, runVars
<1>1. step' \in Steps /\ result' \in [Effect -> Results]
  BY StepTypes DEF IInv, TypeOK, Answers, Overcharged, Ready, Return, Results
<1>2. /\ call' \in [Effect -> CallRecord] /\ asked' \in [Effect -> Nat]
      /\ audit' \in [Effect -> Seq(AuditRecord)]
  BY AttemptsAreBounded DEF IInv, TypeOK, CallRecord, Overcharged, Ready, Return, Results
<1>3. GrantsKept /\ used' \subseteq Effect \X Effect
  BY UnchangedGrants DEF IInv, TypeOK, Overcharged, Ready, Return, Results
<1>4. TypeOK'
  BY <1>1, <1>2, <1>3, AttemptsAreBounded
     DEF IInv, TypeOK, GrantsKept, Overcharged, Ready, Return, Results
<1>5. Only(p)
  BY DEF IInv, TypeOK, Only, Same, InCall, AtVm, Overcharged, Ready, Return, Results
<1>6. EffectInv(p)'
  BY AttemptsAreBounded
     DEF IInv, TypeOK, CallInv, EffectInv, Calling, Resting, Recorded, TrueRecord, InCall, Op,
         AtVm, CallRecord, Overcharged, Ready, Return, Results
<1>7. GrantInv'
  <2>1. Unanswered(p)' => Unanswered(p)
    BY
       DEF IInv, TypeOK, CallInv, EffectInv, Calling, Resting, Recorded, TrueRecord, InCall, Op,
           AtVm, CallRecord, Unanswered, Overcharged, Ready, Return, Results
  <2>2. \A q \in Effect \ {p} : Unanswered(q)' => Unanswered(q)
    BY <1>5 DEF Unanswered, Only, Same, Op
  <2> QED
    BY <1>3, <2>1, <2>2, GrantFrame
<1> QED
  BY <1>4, <1>5, <1>6, <1>7, FrameOthers DEF IInv

(* start_call refuses an effect before its provider is called.             *)
LEMMA RefusedInv ==
  ASSUME IInv, NEW p \in Effect, NEW o \in Operations, Refused(p, o)
  PROVE  IInv' /\ Only(p)
<1> USE DEF callVars, tableVars, grantVars, runVars
<1>1. step' \in Steps /\ result' \in [Effect -> Results]
  BY StepTypes DEF IInv, TypeOK, Answers, Refused, Ready, Return, Results
<1>2. /\ call' \in [Effect -> CallRecord] /\ asked' \in [Effect -> Nat]
      /\ audit' \in [Effect -> Seq(AuditRecord)]
  BY AttemptsAreBounded DEF IInv, TypeOK, CallRecord, Refused, Ready, Return, Results
<1>3. GrantsKept /\ used' \subseteq Effect \X Effect
  BY UnchangedGrants, RefreshedGrants DEF IInv, TypeOK, Refused, Ready, Return, Results
<1>4. TypeOK'
  BY SMTT(60), <1>1, <1>2, <1>3, AttemptsAreBounded
     DEF IInv, TypeOK, GrantsKept, Refused, Ready, Return, Results
<1>5. Only(p)
  BY SMTT(60) DEF IInv, TypeOK, Only, Same, InCall, AtVm, Refused, Ready, Return, Results
<1>6. EffectInv(p)'
  BY AttemptsAreBounded
     DEF IInv, TypeOK, CallInv, EffectInv, Calling, Resting, Recorded, TrueRecord, InCall, Op,
         AtVm, CallRecord, Refused, Ready, Return, Results
<1>7. GrantInv'
  <2>1. Unanswered(p)' => Unanswered(p)
    BY
       DEF IInv, TypeOK, CallInv, EffectInv, Calling, Resting, Recorded, TrueRecord, InCall, Op,
           AtVm, CallRecord, Unanswered, Refused, Ready, Return, Results
  <2>2. \A q \in Effect \ {p} : Unanswered(q)' => Unanswered(q)
    BY <1>5 DEF Unanswered, Only, Same, Op
  <2> QED
    BY <1>3, <2>1, <2>2, GrantFrame
<1> QED
  BY <1>4, <1>5, <1>6, <1>7, FrameOthers DEF IInv

(* start_call hands an effect to its provider.                             *)
LEMMA DispatchedInv ==
  ASSUME IInv, NEW p \in Effect, NEW o \in Operations, NEW n \in PromptAttempts, Dispatched(p, o, n)
  PROVE  IInv' /\ Only(p)
<1> USE DEF callVars, tableVars, grantVars, runVars
<1>1. step' \in Steps /\ result' \in [Effect -> Results]
  BY StepTypes DEF IInv, TypeOK, Answers, Dispatched, Ready
<1>2. /\ call' \in [Effect -> CallRecord] /\ asked' \in [Effect -> Nat]
      /\ audit' \in [Effect -> Seq(AuditRecord)]
  BY AttemptsAreBounded DEF IInv, TypeOK, CallRecord, Dispatched, Ready
<1>3. GrantsKept /\ used' \subseteq Effect \X Effect
  BY UnchangedGrants, RefreshedGrants DEF IInv, TypeOK, Dispatched, Ready
<1>4. TypeOK'
  <2>1. effects' \in 0..MaximumEffects
    BY SMTT(60), AttemptsAreBounded DEF IInv, TypeOK, Dispatched
  <2> QED
    BY <1>1, <1>2, <1>3, <2>1 DEF IInv, TypeOK, GrantsKept, Dispatched
<1>5. Only(p)
  BY DEF IInv, TypeOK, Only, Same, InCall, AtVm, Dispatched, Ready
<1>6. EffectInv(p)'
  BY SMTT(60), AttemptsAreBounded
     DEF IInv, TypeOK, CallInv, EffectInv, Calling, Resting, Recorded, TrueRecord, InCall, Op,
         AtVm, CallRecord, Dispatched, Ready, AllOperations, AgentCalls, SubAgentCalls, Asks,
         SubAgentAsks, Tools
<1>7. GrantInv'
  <2>1. Unanswered(p)' => Unanswered(p)
    BY
       DEF IInv, TypeOK, CallInv, EffectInv, Calling, Resting, Recorded, TrueRecord, InCall, Op,
           AtVm, CallRecord, Unanswered, Dispatched, Ready, AllOperations, AgentCalls,
           SubAgentCalls, Asks, SubAgentAsks, Tools
  <2>2. \A q \in Effect \ {p} : Unanswered(q)' => Unanswered(q)
    BY <1>5 DEF Unanswered, Only, Same, Op
  <2> QED
    BY <1>3, <2>1, <2>2, GrantFrame
<1> QED
  BY <1>4, <1>5, <1>6, <1>7, FrameOthers DEF IInv

(* The provider's start fails.                                             *)
LEMMA ProviderStartFailsInv ==
  ASSUME IInv, NEW p \in Effect, NEW e \in HostErrors, ProviderStartFails(p, e)
  PROVE  IInv' /\ Only(p)
<1> DEFINE recorded == (Op(p) \in Asks)
           r == Closed(Op(p), VmError(Op(p), e))
<1> USE DEF callVars, tableVars, grantVars, runVars
<1>1. /\ InCall(p) /\ AuditIf(recorded, p, "ProviderFailed") /\ Return(p, r)
      /\ r \in {"value", "error", "trap"} /\ call' = call
  BY DEF IInv, TypeOK, InCall, ProviderStartFails, Closed, SubAgentAsks
<1>2. EffectInv(p) /\ Calling(p) /\ audit[p] = <<>> /\ "ProviderFailed" \in Outcomes
  BY <1>1 DEF IInv, CallInv, EffectInv, Calling, Outcomes
<1>3. /\ Op(p) \in Asks => recorded
      /\ Op(p) \in SubAgentAsks /\ r = "value" => recorded
      /\ "ProviderFailed" = "Valid" <=> r = "value"
      /\ recorded /\ "ProviderFailed" = "ValidationFailed" /\ r = "error"
         => call[p].attempt = call[p].limit
  BY <1>1, <1>2
     DEF IInv, TypeOK, CallRecord, EffectInv, Calling, Op, ProviderStartFails, Closed,
         SubAgentAsks
<1>4. asked'[p] = call[p].attempt /\ p \notin pending' /\ p \notin active'
  BY SMTT(60), <1>1, <1>2 DEF IInv, TypeOK, Calling, CallRecord, ProviderStartFails
<1>5. EffectInv(p)'
  <2> HIDE DEF recorded, r
  <2> QED
    BY <1>1, <1>2, <1>3, <1>4, Settled
<1>6. /\ audit' \in [Effect -> Seq(AuditRecord)]
      /\ \A q \in Effect \ {p} : audit'[q] = audit[q]
  <2> HIDE DEF recorded, r
  <2> QED
    BY <1>1, <1>2, AuditType
<1>7. GrantsKept /\ used' \subseteq Effect \X Effect
  BY LostGrants DEF IInv, TypeOK, ProviderStartFails
<1>8. TypeOK'
  <2> HIDE DEF recorded, r
  <2>1. step' \in Steps /\ result' \in [Effect -> Results]
    BY <1>1, StepTypes DEF IInv, TypeOK, Return, Results
  <2>2. asked' \in [Effect -> Nat]
    BY SMTT(60) DEF IInv, TypeOK, ProviderStartFails
  <2> QED
    BY <1>1, <1>6, <1>7, <2>1, <2>2 DEF IInv, TypeOK, GrantsKept, ProviderStartFails
<1>9. Only(p)
  <2> HIDE DEF recorded, r
  <2> QED
    BY SMTT(60), <1>1, <1>6 DEF IInv, TypeOK, Only, Same, InCall, AtVm, Return, ProviderStartFails
<1>10. GrantInv'
  BY <1>1, <1>2, <1>4, <1>7, <1>9, GrantFrame DEF Calling, Unanswered, Only, Same, Op
<1> QED
  BY <1>5, <1>8, <1>9, <1>10, FrameOthers DEF IInv

(* The provider accepts a request and keeps it active.                     *)
LEMMA ProviderAcceptsInv ==
  ASSUME IInv, NEW p \in Effect, ProviderAccepts(p)
  PROVE  IInv' /\ Only(p)
<1> USE DEF callVars, tableVars, grantVars, runVars
<1>1. step' \in Steps /\ result' \in [Effect -> Results]
  BY StepTypes DEF IInv, TypeOK, Answers, ProviderAccepts
<1>2. /\ call' \in [Effect -> CallRecord] /\ asked' \in [Effect -> Nat]
      /\ audit' \in [Effect -> Seq(AuditRecord)]
  BY SMTT(60), AttemptsAreBounded DEF IInv, TypeOK, CallRecord, ProviderAccepts
<1>3. GrantsKept /\ used' \subseteq Effect \X Effect
  BY UnchangedGrants DEF IInv, TypeOK, ProviderAccepts
<1>4. TypeOK'
  BY <1>1, <1>2, <1>3, AttemptsAreBounded DEF IInv, TypeOK, GrantsKept, ProviderAccepts
<1>5. Only(p)
  BY DEF IInv, TypeOK, Only, Same, InCall, AtVm, ProviderAccepts
<1>6. EffectInv(p)'
  BY SMTT(60), AttemptsAreBounded
     DEF IInv, TypeOK, CallInv, EffectInv, Calling, Resting, Recorded, TrueRecord, InCall, Op,
         AtVm, CallRecord, ProviderAccepts
<1>7. GrantInv'
  <2>1. Unanswered(p)' => Unanswered(p)
    BY
       DEF IInv, TypeOK, CallInv, EffectInv, Calling, Resting, Recorded, TrueRecord, InCall, Op,
           AtVm, CallRecord, Unanswered, ProviderAccepts
  <2>2. \A q \in Effect \ {p} : Unanswered(q)' => Unanswered(q)
    BY <1>5 DEF Unanswered, Only, Same, Op
  <2> QED
    BY <1>3, <2>1, <2>2, GrantFrame
<1> QED
  BY <1>4, <1>5, <1>6, <1>7, FrameOthers DEF IInv

(* The provider answers in its start.                                      *)
LEMMA ProviderAnswersAtOnceInv ==
  ASSUME IInv, NEW p \in Effect, NEW x \in Answers, ProviderAnswersAtOnce(p, x)
  PROVE  IInv' /\ Only(p)
<1> USE DEF callVars, tableVars, grantVars, runVars
<1>1. step' \in Steps /\ result' \in [Effect -> Results]
  BY StepTypes DEF IInv, TypeOK, Answers, ProviderAnswersAtOnce
<1>2. /\ call' \in [Effect -> CallRecord] /\ asked' \in [Effect -> Nat]
      /\ audit' \in [Effect -> Seq(AuditRecord)]
  BY SMTT(60), AttemptsAreBounded DEF IInv, TypeOK, CallRecord, ProviderAnswersAtOnce
<1>3. GrantsKept /\ used' \subseteq Effect \X Effect
  BY UnchangedGrants DEF IInv, TypeOK, ProviderAnswersAtOnce
<1>4. TypeOK'
  BY <1>1, <1>2, <1>3, AttemptsAreBounded
     DEF IInv, TypeOK, GrantsKept, ProviderAnswersAtOnce
<1>5. Only(p)
  BY DEF IInv, TypeOK, Only, Same, InCall, AtVm, ProviderAnswersAtOnce
<1>6. EffectInv(p)'
  BY SMTT(60), AttemptsAreBounded
     DEF IInv, TypeOK, CallInv, EffectInv, Calling, Resting, Recorded, TrueRecord, InCall, Op,
         AtVm, CallRecord, ProviderAnswersAtOnce, Answers
<1>7. GrantInv'
  <2>1. Unanswered(p)' => Unanswered(p)
    BY
       DEF IInv, TypeOK, CallInv, EffectInv, Calling, Resting, Recorded, TrueRecord, InCall, Op,
           AtVm, CallRecord, Unanswered, ProviderAnswersAtOnce, Answers
  <2>2. \A q \in Effect \ {p} : Unanswered(q)' => Unanswered(q)
    BY <1>5 DEF Unanswered, Only, Same, Op
  <2> QED
    BY <1>3, <2>1, <2>2, GrantFrame
<1> QED
  BY <1>4, <1>5, <1>6, <1>7, FrameOthers DEF IInv

(* The flag is up when the provider's start returns.                       *)
LEMMA StartedCancelledInv ==
  ASSUME IInv, NEW p \in Effect, StartedCancelled(p)
  PROVE  IInv' /\ Only(p)
<1> DEFINE recorded == (Op(p) \in Asks \/ (Op(p) \in SubAgentAsks /\ call[p].attempt > 1))
           r == "trap"
<1> USE DEF callVars, tableVars, grantVars, runVars
<1>1. /\ InCall(p) /\ AuditIf(recorded, p, "Cancelled") /\ Return(p, r)
      /\ r \in {"value", "error", "trap"} /\ call' = call
  BY DEF IInv, TypeOK, InCall, StartedCancelled
<1>2. EffectInv(p) /\ Calling(p) /\ audit[p] = <<>> /\ "Cancelled" \in Outcomes
  BY <1>1 DEF IInv, CallInv, EffectInv, Calling, Outcomes
<1>3. /\ Op(p) \in Asks => recorded
      /\ Op(p) \in SubAgentAsks /\ r = "value" => recorded
      /\ "Cancelled" = "Valid" <=> r = "value"
      /\ recorded /\ "Cancelled" = "ValidationFailed" /\ r = "error"
         => call[p].attempt = call[p].limit
  BY <1>1, <1>2 DEF IInv, TypeOK, CallRecord, EffectInv, Calling, Op, StartedCancelled
<1>4. asked'[p] = call[p].attempt /\ p \notin pending' /\ p \notin active'
  BY <1>1, <1>2 DEF IInv, TypeOK, Calling, CallRecord, StartedCancelled
<1>5. EffectInv(p)'
  <2> HIDE DEF recorded, r
  <2> QED
    BY <1>1, <1>2, <1>3, <1>4, Settled
<1>6. /\ audit' \in [Effect -> Seq(AuditRecord)]
      /\ \A q \in Effect \ {p} : audit'[q] = audit[q]
  <2> HIDE DEF recorded, r
  <2> QED
    BY <1>1, <1>2, AuditType
<1>7. GrantsKept /\ used' \subseteq Effect \X Effect
  BY UnchangedGrants DEF IInv, TypeOK, StartedCancelled
<1>8. TypeOK'
  <2> HIDE DEF recorded, r
  <2>1. step' \in Steps /\ result' \in [Effect -> Results]
    BY <1>1, StepTypes DEF IInv, TypeOK, Return, Results
  <2>2. asked' \in [Effect -> Nat]
    BY DEF IInv, TypeOK, StartedCancelled
  <2> QED
    BY <1>1, <1>6, <1>7, <2>1, <2>2 DEF IInv, TypeOK, GrantsKept, StartedCancelled
<1>9. Only(p)
  <2> HIDE DEF recorded, r
  <2> QED
    BY SMTT(60), <1>1, <1>6 DEF IInv, TypeOK, Only, Same, InCall, AtVm, Return, StartedCancelled
<1>10. GrantInv'
  BY <1>1, <1>2, <1>4, <1>7, <1>9, GrantFrame DEF Calling, Unanswered, Only, Same, Op
<1> QED
  BY <1>5, <1>8, <1>9, <1>10, FrameOthers DEF IInv

(* The started request goes into the broker's table.                       *)
LEMMA StartedPendingInv ==
  ASSUME IInv, NEW p \in Effect, StartedPending(p)
  PROVE  IInv' /\ Only(p)
<1> USE DEF callVars, tableVars, grantVars, runVars
<1>1. step' \in Steps /\ result' \in [Effect -> Results]
  BY StepTypes DEF IInv, TypeOK, Answers, StartedPending, Return, Results
<1>2. /\ call' \in [Effect -> CallRecord] /\ asked' \in [Effect -> Nat]
      /\ audit' \in [Effect -> Seq(AuditRecord)]
  BY AttemptsAreBounded DEF IInv, TypeOK, CallRecord, StartedPending, Return, Results
<1>3. GrantsKept /\ used' \subseteq Effect \X Effect
  BY UnchangedGrants DEF IInv, TypeOK, StartedPending, Return, Results
<1>4. TypeOK'
  BY <1>1, <1>2, <1>3, AttemptsAreBounded
     DEF IInv, TypeOK, GrantsKept, StartedPending, Return, Results
<1>5. Only(p)
  BY DEF IInv, TypeOK, Only, Same, InCall, AtVm, StartedPending, Return, Results
<1>6. EffectInv(p)'
  BY AttemptsAreBounded
     DEF IInv, TypeOK, CallInv, EffectInv, Calling, Resting, Recorded, TrueRecord, InCall, Op,
         AtVm, CallRecord, StartedPending, Return, Results
<1>7. GrantInv'
  <2>1. Unanswered(p)' => Unanswered(p)
    BY
       DEF IInv, TypeOK, CallInv, EffectInv, Calling, Resting, Recorded, TrueRecord, InCall, Op,
           AtVm, CallRecord, Unanswered, StartedPending, Return, Results
  <2>2. \A q \in Effect \ {p} : Unanswered(q)' => Unanswered(q)
    BY <1>5 DEF Unanswered, Only, Same, Op
  <2> QED
    BY <1>3, <2>1, <2>2, GrantFrame
<1> QED
  BY <1>4, <1>5, <1>6, <1>7, FrameOthers DEF IInv

(* The answer of a start is taken in hand.                                 *)
LEMMA StartedAnsweredInv ==
  ASSUME IInv, NEW p \in Effect, NEW x \in Answers, StartedAnswered(p, x)
  PROVE  IInv' /\ Only(p)
<1> USE DEF callVars, tableVars, grantVars, runVars
<1>1. step' \in Steps /\ result' \in [Effect -> Results]
  BY StepTypes DEF IInv, TypeOK, Answers, StartedAnswered
<1>2. /\ call' \in [Effect -> CallRecord] /\ asked' \in [Effect -> Nat]
      /\ audit' \in [Effect -> Seq(AuditRecord)]
  BY AttemptsAreBounded DEF IInv, TypeOK, CallRecord, StartedAnswered
<1>3. GrantsKept /\ used' \subseteq Effect \X Effect
  BY UnchangedGrants DEF IInv, TypeOK, StartedAnswered
<1>4. TypeOK'
  BY <1>1, <1>2, <1>3, AttemptsAreBounded DEF IInv, TypeOK, GrantsKept, StartedAnswered
<1>5. Only(p)
  BY DEF IInv, TypeOK, Only, Same, InCall, AtVm, StartedAnswered
<1>6. EffectInv(p)'
  BY AttemptsAreBounded
     DEF IInv, TypeOK, CallInv, EffectInv, Calling, Resting, Recorded, TrueRecord, InCall, Op,
         AtVm, CallRecord, StartedAnswered, Answers
<1>7. GrantInv'
  <2>1. Unanswered(p)' => Unanswered(p)
    BY
       DEF IInv, TypeOK, CallInv, EffectInv, Calling, Resting, Recorded, TrueRecord, InCall, Op,
           AtVm, CallRecord, Unanswered, StartedAnswered, Answers
  <2>2. \A q \in Effect \ {p} : Unanswered(q)' => Unanswered(q)
    BY <1>5 DEF Unanswered, Only, Same, Op
  <2> QED
    BY <1>3, <2>1, <2>2, GrantFrame
<1> QED
  BY <1>4, <1>5, <1>6, <1>7, FrameOthers DEF IInv

(* An answer of the wrong kind ends the effect.                            *)
LEMMA FinishMistypedInv ==
  ASSUME IInv, NEW p \in Effect, FinishMistyped(p)
  PROVE  IInv' /\ Only(p)
<1> DEFINE recorded == (Op(p) \in Typed)
           r == "trap"
<1> USE DEF callVars, tableVars, grantVars, runVars
<1>1. /\ InCall(p) /\ AuditIf(recorded, p, "ValidationFailed") /\ Return(p, r)
      /\ r \in {"value", "error", "trap"} /\ call' = call
  BY DEF IInv, TypeOK, InCall, FinishMistyped, InHand, Typed
<1>2. EffectInv(p) /\ Calling(p) /\ audit[p] = <<>> /\ "ValidationFailed" \in Outcomes
  BY <1>1 DEF IInv, CallInv, EffectInv, Calling, Outcomes
<1>3. /\ Op(p) \in Asks => recorded
      /\ Op(p) \in SubAgentAsks /\ r = "value" => recorded
      /\ "ValidationFailed" = "Valid" <=> r = "value"
      /\ recorded /\ "ValidationFailed" = "ValidationFailed" /\ r = "error"
         => call[p].attempt = call[p].limit
  BY <1>1, <1>2 DEF IInv, TypeOK, CallRecord, EffectInv, Calling, Op, FinishMistyped, InHand, Typed
<1>4. asked'[p] = call[p].attempt /\ p \notin pending' /\ p \notin active'
  BY <1>1, <1>2 DEF IInv, TypeOK, Calling, CallRecord, FinishMistyped, InHand
<1>5. EffectInv(p)'
  <2> HIDE DEF recorded, r
  <2> QED
    BY <1>1, <1>2, <1>3, <1>4, Settled
<1>6. /\ audit' \in [Effect -> Seq(AuditRecord)]
      /\ \A q \in Effect \ {p} : audit'[q] = audit[q]
  <2> HIDE DEF recorded, r
  <2> QED
    BY <1>1, <1>2, AuditType
<1>7. GrantsKept /\ used' \subseteq Effect \X Effect
  BY UnchangedGrants DEF IInv, TypeOK, FinishMistyped, InHand
<1>8. TypeOK'
  <2> HIDE DEF recorded, r
  <2>1. step' \in Steps /\ result' \in [Effect -> Results]
    BY <1>1, StepTypes DEF IInv, TypeOK, Return, Results
  <2>2. asked' \in [Effect -> Nat]
    BY DEF IInv, TypeOK, FinishMistyped, InHand
  <2> QED
    BY <1>1, <1>6, <1>7, <2>1, <2>2 DEF IInv, TypeOK, GrantsKept, FinishMistyped, InHand
<1>9. Only(p)
  <2> HIDE DEF recorded, r
  <2> QED
    BY SMTT(60), <1>1, <1>6
       DEF IInv, TypeOK, Only, Same, InCall, AtVm, Return, FinishMistyped, InHand
<1>10. GrantInv'
  BY <1>1, <1>2, <1>4, <1>7, <1>9, GrantFrame DEF Calling, Unanswered, Only, Same, Op
<1> QED
  BY <1>5, <1>8, <1>9, <1>10, FrameOthers DEF IInv

(* An answer that does not validate, at the last attempt, ends it.         *)
LEMMA FinishInvalidInv ==
  ASSUME IInv, NEW p \in Effect, FinishInvalid(p)
  PROVE  IInv' /\ Only(p)
<1> DEFINE recorded == (Op(p) \in Typed)
           r == IF Op(p) = "Permission" THEN "error" ELSE Closed(Op(p), "validation")
<1> USE DEF callVars, tableVars, grantVars, runVars
<1>1. /\ InCall(p) /\ AuditIf(recorded, p, "ValidationFailed") /\ Return(p, r)
      /\ r \in {"value", "error", "trap"} /\ call' = call
  BY DEF IInv, TypeOK, InCall, FinishInvalid, InHand, Typed, Closed
<1>2. EffectInv(p) /\ Calling(p) /\ audit[p] = <<>> /\ "ValidationFailed" \in Outcomes
  BY <1>1 DEF IInv, CallInv, EffectInv, Calling, Outcomes
<1>3. /\ Op(p) \in Asks => recorded
      /\ Op(p) \in SubAgentAsks /\ r = "value" => recorded
      /\ "ValidationFailed" = "Valid" <=> r = "value"
      /\ recorded /\ "ValidationFailed" = "ValidationFailed" /\ r = "error"
         => call[p].attempt = call[p].limit
  BY SMTT(60), <1>1, <1>2
     DEF IInv, TypeOK, CallRecord, EffectInv, Calling, Op, FinishInvalid, InHand, Typed, Closed
<1>4. asked'[p] = call[p].attempt /\ p \notin pending' /\ p \notin active'
  BY <1>1, <1>2 DEF IInv, TypeOK, Calling, CallRecord, FinishInvalid, InHand
<1>5. EffectInv(p)'
  <2> HIDE DEF recorded, r
  <2> QED
    BY <1>1, <1>2, <1>3, <1>4, Settled
<1>6. /\ audit' \in [Effect -> Seq(AuditRecord)]
      /\ \A q \in Effect \ {p} : audit'[q] = audit[q]
  <2> HIDE DEF recorded, r
  <2> QED
    BY <1>1, <1>2, AuditType
<1>7. GrantsKept /\ used' \subseteq Effect \X Effect
  BY UnchangedGrants DEF IInv, TypeOK, FinishInvalid, InHand
<1>8. TypeOK'
  <2> HIDE DEF recorded, r
  <2>1. step' \in Steps /\ result' \in [Effect -> Results]
    BY <1>1, StepTypes DEF IInv, TypeOK, Return, Results
  <2>2. asked' \in [Effect -> Nat]
    BY DEF IInv, TypeOK, FinishInvalid, InHand
  <2> QED
    BY <1>1, <1>6, <1>7, <2>1, <2>2 DEF IInv, TypeOK, GrantsKept, FinishInvalid, InHand
<1>9. Only(p)
  <2> HIDE DEF recorded, r
  <2> QED
    BY SMTT(60), <1>1, <1>6
       DEF IInv, TypeOK, Only, Same, InCall, AtVm, Return, FinishInvalid, InHand
<1>10. GrantInv'
  BY <1>1, <1>2, <1>4, <1>7, <1>9, GrantFrame DEF Calling, Unanswered, Only, Same, Op
<1> QED
  BY <1>5, <1>8, <1>9, <1>10, FrameOthers DEF IInv

(* An answer that does not validate is asked for once more.                *)
LEMMA FinishRetriesInv ==
  ASSUME IInv, NEW p \in Effect, FinishRetries(p)
  PROVE  IInv' /\ Only(p)
<1> USE DEF callVars, tableVars, grantVars, runVars
<1>1. step' \in Steps /\ result' \in [Effect -> Results]
  BY StepTypes DEF IInv, TypeOK, Answers, FinishRetries, InHand
<1>2. /\ call' \in [Effect -> CallRecord] /\ asked' \in [Effect -> Nat]
      /\ audit' \in [Effect -> Seq(AuditRecord)]
  <2>1. call[p] \in CallRecord /\ call[p].attempt + 1 \in Nat
    BY SMTT(60) DEF IInv, TypeOK, CallRecord
  <2>2. [call[p] EXCEPT !.attempt = call[p].attempt + 1] \in CallRecord
    BY <2>1 DEF CallRecord
  <2>3. call' = [call EXCEPT ![p] = [call[p] EXCEPT !.attempt = call[p].attempt + 1]]
    BY DEF IInv, TypeOK, FinishRetries
  <2> QED
    BY <2>2, <2>3 DEF IInv, TypeOK, FinishRetries
<1>3. GrantsKept /\ used' \subseteq Effect \X Effect
  BY UnchangedGrants DEF IInv, TypeOK, FinishRetries, InHand
<1>4. TypeOK'
  BY <1>1, <1>2, <1>3, AttemptsAreBounded DEF IInv, TypeOK, GrantsKept, FinishRetries, InHand
<1>5. Only(p)
  BY DEF IInv, TypeOK, Only, Same, InCall, AtVm, FinishRetries, InHand
<1>6. EffectInv(p)'
  BY SMTT(60), AttemptsAreBounded
     DEF IInv, TypeOK, CallInv, EffectInv, Calling, Resting, Recorded, TrueRecord, InCall, Op,
         AtVm, CallRecord, FinishRetries, InHand
<1>7. GrantInv'
  <2>1. Unanswered(p)' => Unanswered(p)
    BY
       DEF IInv, TypeOK, CallInv, EffectInv, Calling, Resting, Recorded, TrueRecord, InCall, Op,
           AtVm, CallRecord, Unanswered, FinishRetries, InHand
  <2>2. \A q \in Effect \ {p} : Unanswered(q)' => Unanswered(q)
    BY <1>5 DEF Unanswered, Only, Same, Op
  <2> QED
    BY <1>3, <2>1, <2>2, GrantFrame
<1> QED
  BY <1>4, <1>5, <1>6, <1>7, FrameOthers DEF IInv

(* A poll goes to the provider.                                            *)
LEMMA PollBeginsInv ==
  ASSUME IInv, NEW p \in Effect, PollBegins(p)
  PROVE  IInv' /\ Only(p)
<1> USE DEF callVars, tableVars, grantVars, runVars
<1>1. step' \in Steps /\ result' \in [Effect -> Results]
  BY StepTypes DEF IInv, TypeOK, Answers, PollBegins, Ready
<1>2. /\ call' \in [Effect -> CallRecord] /\ asked' \in [Effect -> Nat]
      /\ audit' \in [Effect -> Seq(AuditRecord)]
  BY AttemptsAreBounded DEF IInv, TypeOK, CallRecord, PollBegins, Ready
<1>3. GrantsKept /\ used' \subseteq Effect \X Effect
  BY UnchangedGrants DEF IInv, TypeOK, PollBegins, Ready
<1>4. TypeOK'
  BY <1>1, <1>2, <1>3, AttemptsAreBounded DEF IInv, TypeOK, GrantsKept, PollBegins, Ready
<1>5. Only(p)
  BY DEF IInv, TypeOK, Only, Same, InCall, AtVm, PollBegins, Ready
<1>6. EffectInv(p)'
  BY AttemptsAreBounded
     DEF IInv, TypeOK, CallInv, EffectInv, Calling, Resting, Recorded, TrueRecord, InCall, Op,
         AtVm, CallRecord, PollBegins, Ready
<1>7. GrantInv'
  <2>1. Unanswered(p)' => Unanswered(p)
    BY
       DEF IInv, TypeOK, CallInv, EffectInv, Calling, Resting, Recorded, TrueRecord, InCall, Op,
           AtVm, CallRecord, Unanswered, PollBegins, Ready
  <2>2. \A q \in Effect \ {p} : Unanswered(q)' => Unanswered(q)
    BY <1>5 DEF Unanswered, Only, Same, Op
  <2> QED
    BY <1>3, <2>1, <2>2, GrantFrame
<1> QED
  BY <1>4, <1>5, <1>6, <1>7, FrameOthers DEF IInv

(* The provider's poll fails.                                              *)
LEMMA ProviderPollFailsInv ==
  ASSUME IInv, NEW p \in Effect, NEW e \in HostErrors, ProviderPollFails(p, e)
  PROVE  IInv' /\ Only(p)
<1> DEFINE recorded == (Op(p) \in Asks)
           r == Closed(Op(p), VmError(Op(p), e))
<1> USE DEF callVars, tableVars, grantVars, runVars
<1>1. /\ InCall(p) /\ AuditIf(recorded, p, "ProviderFailed") /\ Return(p, r)
      /\ r \in {"value", "error", "trap"} /\ call' = call
  BY DEF IInv, TypeOK, InCall, ProviderPollFails, Closed, SubAgentAsks
<1>2. EffectInv(p) /\ Calling(p) /\ audit[p] = <<>> /\ "ProviderFailed" \in Outcomes
  BY <1>1 DEF IInv, CallInv, EffectInv, Calling, Outcomes
<1>3. /\ Op(p) \in Asks => recorded
      /\ Op(p) \in SubAgentAsks /\ r = "value" => recorded
      /\ "ProviderFailed" = "Valid" <=> r = "value"
      /\ recorded /\ "ProviderFailed" = "ValidationFailed" /\ r = "error"
         => call[p].attempt = call[p].limit
  BY <1>1, <1>2
     DEF IInv, TypeOK, CallRecord, EffectInv, Calling, Op, ProviderPollFails, Closed,
         SubAgentAsks
<1>4. asked'[p] = call[p].attempt /\ p \notin pending' /\ p \notin active'
  BY <1>1, <1>2 DEF IInv, TypeOK, Calling, CallRecord, ProviderPollFails
<1>5. EffectInv(p)'
  <2> HIDE DEF recorded, r
  <2> QED
    BY <1>1, <1>2, <1>3, <1>4, Settled
<1>6. /\ audit' \in [Effect -> Seq(AuditRecord)]
      /\ \A q \in Effect \ {p} : audit'[q] = audit[q]
  <2> HIDE DEF recorded, r
  <2> QED
    BY <1>1, <1>2, AuditType
<1>7. GrantsKept /\ used' \subseteq Effect \X Effect
  BY LostGrants DEF IInv, TypeOK, ProviderPollFails
<1>8. TypeOK'
  <2> HIDE DEF recorded, r
  <2>1. step' \in Steps /\ result' \in [Effect -> Results]
    BY <1>1, StepTypes DEF IInv, TypeOK, Return, Results
  <2>2. asked' \in [Effect -> Nat]
    BY DEF IInv, TypeOK, ProviderPollFails
  <2> QED
    BY <1>1, <1>6, <1>7, <2>1, <2>2 DEF IInv, TypeOK, GrantsKept, ProviderPollFails
<1>9. Only(p)
  <2> HIDE DEF recorded, r
  <2> QED
    BY SMTT(60), <1>1, <1>6 DEF IInv, TypeOK, Only, Same, InCall, AtVm, Return, ProviderPollFails
<1>10. GrantInv'
  BY <1>1, <1>2, <1>4, <1>7, <1>9, GrantFrame DEF Calling, Unanswered, Only, Same, Op
<1> QED
  BY <1>5, <1>8, <1>9, <1>10, FrameOthers DEF IInv

(* The provider's poll finds nothing.                                      *)
LEMMA ProviderPollsPendingInv ==
  ASSUME IInv, NEW p \in Effect, ProviderPollsPending(p)
  PROVE  IInv' /\ Only(p)
<1> USE DEF callVars, tableVars, grantVars, runVars
<1>1. step' \in Steps /\ result' \in [Effect -> Results]
  BY StepTypes DEF IInv, TypeOK, Answers, ProviderPollsPending
<1>2. /\ call' \in [Effect -> CallRecord] /\ asked' \in [Effect -> Nat]
      /\ audit' \in [Effect -> Seq(AuditRecord)]
  BY AttemptsAreBounded DEF IInv, TypeOK, CallRecord, ProviderPollsPending
<1>3. GrantsKept /\ used' \subseteq Effect \X Effect
  BY UnchangedGrants DEF IInv, TypeOK, ProviderPollsPending
<1>4. TypeOK'
  BY <1>1, <1>2, <1>3, AttemptsAreBounded DEF IInv, TypeOK, GrantsKept, ProviderPollsPending
<1>5. Only(p)
  BY DEF IInv, TypeOK, Only, Same, InCall, AtVm, ProviderPollsPending
<1>6. EffectInv(p)'
  BY AttemptsAreBounded
     DEF IInv, TypeOK, CallInv, EffectInv, Calling, Resting, Recorded, TrueRecord, InCall, Op,
         AtVm, CallRecord, ProviderPollsPending
<1>7. GrantInv'
  <2>1. Unanswered(p)' => Unanswered(p)
    BY
       DEF IInv, TypeOK, CallInv, EffectInv, Calling, Resting, Recorded, TrueRecord, InCall, Op,
           AtVm, CallRecord, Unanswered, ProviderPollsPending
  <2>2. \A q \in Effect \ {p} : Unanswered(q)' => Unanswered(q)
    BY <1>5 DEF Unanswered, Only, Same, Op
  <2> QED
    BY <1>3, <2>1, <2>2, GrantFrame
<1> QED
  BY <1>4, <1>5, <1>6, <1>7, FrameOthers DEF IInv

(* The provider's poll finds the answer and lets go of the request.        *)
LEMMA ProviderPollsAnswerInv ==
  ASSUME IInv, NEW p \in Effect, NEW x \in Answers, ProviderPollsAnswer(p, x)
  PROVE  IInv' /\ Only(p)
<1> USE DEF callVars, tableVars, grantVars, runVars
<1>1. step' \in Steps /\ result' \in [Effect -> Results]
  BY StepTypes DEF IInv, TypeOK, Answers, ProviderPollsAnswer
<1>2. /\ call' \in [Effect -> CallRecord] /\ asked' \in [Effect -> Nat]
      /\ audit' \in [Effect -> Seq(AuditRecord)]
  BY AttemptsAreBounded DEF IInv, TypeOK, CallRecord, ProviderPollsAnswer
<1>3. GrantsKept /\ used' \subseteq Effect \X Effect
  BY UnchangedGrants DEF IInv, TypeOK, ProviderPollsAnswer
<1>4. TypeOK'
  BY <1>1, <1>2, <1>3, AttemptsAreBounded
     DEF IInv, TypeOK, GrantsKept, ProviderPollsAnswer
<1>5. Only(p)
  BY DEF IInv, TypeOK, Only, Same, InCall, AtVm, ProviderPollsAnswer
<1>6. EffectInv(p)'
  BY AttemptsAreBounded
     DEF IInv, TypeOK, CallInv, EffectInv, Calling, Resting, Recorded, TrueRecord, InCall, Op,
         AtVm, CallRecord, ProviderPollsAnswer, Answers
<1>7. GrantInv'
  <2>1. Unanswered(p)' => Unanswered(p)
    BY
       DEF IInv, TypeOK, CallInv, EffectInv, Calling, Resting, Recorded, TrueRecord, InCall, Op,
           AtVm, CallRecord, Unanswered, ProviderPollsAnswer, Answers
  <2>2. \A q \in Effect \ {p} : Unanswered(q)' => Unanswered(q)
    BY <1>5 DEF Unanswered, Only, Same, Op
  <2> QED
    BY <1>3, <2>1, <2>2, GrantFrame
<1> QED
  BY <1>4, <1>5, <1>6, <1>7, FrameOthers DEF IInv

(* The flag is up when the provider's poll returns.                        *)
LEMMA PolledCancelledInv ==
  ASSUME IInv, NEW p \in Effect, PolledCancelled(p)
  PROVE  IInv' /\ Only(p)
<1> DEFINE recorded == (Op(p) \in Asks)
           r == "trap"
<1> USE DEF callVars, tableVars, grantVars, runVars
<1>1. /\ InCall(p) /\ AuditIf(recorded, p, "Cancelled") /\ Return(p, r)
      /\ r \in {"value", "error", "trap"} /\ call' = call
  BY DEF IInv, TypeOK, InCall, PolledCancelled
<1>2. EffectInv(p) /\ Calling(p) /\ audit[p] = <<>> /\ "Cancelled" \in Outcomes
  BY <1>1 DEF IInv, CallInv, EffectInv, Calling, Outcomes
<1>3. /\ Op(p) \in Asks => recorded
      /\ Op(p) \in SubAgentAsks /\ r = "value" => recorded
      /\ "Cancelled" = "Valid" <=> r = "value"
      /\ recorded /\ "Cancelled" = "ValidationFailed" /\ r = "error"
         => call[p].attempt = call[p].limit
  BY <1>1, <1>2 DEF IInv, TypeOK, CallRecord, EffectInv, Calling, Op, PolledCancelled
<1>4. asked'[p] = call[p].attempt /\ p \notin pending' /\ p \notin active'
  BY <1>1, <1>2 DEF IInv, TypeOK, Calling, CallRecord, PolledCancelled
<1>5. EffectInv(p)'
  <2> HIDE DEF recorded, r
  <2> QED
    BY <1>1, <1>2, <1>3, <1>4, Settled
<1>6. /\ audit' \in [Effect -> Seq(AuditRecord)]
      /\ \A q \in Effect \ {p} : audit'[q] = audit[q]
  <2> HIDE DEF recorded, r
  <2> QED
    BY <1>1, <1>2, AuditType
<1>7. GrantsKept /\ used' \subseteq Effect \X Effect
  BY UnchangedGrants DEF IInv, TypeOK, PolledCancelled
<1>8. TypeOK'
  <2> HIDE DEF recorded, r
  <2>1. step' \in Steps /\ result' \in [Effect -> Results]
    BY <1>1, StepTypes DEF IInv, TypeOK, Return, Results
  <2>2. asked' \in [Effect -> Nat]
    BY DEF IInv, TypeOK, PolledCancelled
  <2> QED
    BY <1>1, <1>6, <1>7, <2>1, <2>2 DEF IInv, TypeOK, GrantsKept, PolledCancelled
<1>9. Only(p)
  <2> HIDE DEF recorded, r
  <2> QED
    BY SMTT(60), <1>1, <1>6 DEF IInv, TypeOK, Only, Same, InCall, AtVm, Return, PolledCancelled
<1>10. GrantInv'
  BY <1>1, <1>2, <1>4, <1>7, <1>9, GrantFrame DEF Calling, Unanswered, Only, Same, Op
<1> QED
  BY <1>5, <1>8, <1>9, <1>10, FrameOthers DEF IInv

(* A poll that found nothing leaves the effect waiting.                    *)
LEMMA PolledPendingInv ==
  ASSUME IInv, NEW p \in Effect, PolledPending(p)
  PROVE  IInv' /\ Only(p)
<1> USE DEF callVars, tableVars, grantVars, runVars
<1>1. step' \in Steps /\ result' \in [Effect -> Results]
  BY StepTypes DEF IInv, TypeOK, Answers, PolledPending
<1>2. /\ call' \in [Effect -> CallRecord] /\ asked' \in [Effect -> Nat]
      /\ audit' \in [Effect -> Seq(AuditRecord)]
  BY AttemptsAreBounded DEF IInv, TypeOK, CallRecord, PolledPending
<1>3. GrantsKept /\ used' \subseteq Effect \X Effect
  BY UnchangedGrants DEF IInv, TypeOK, PolledPending
<1>4. TypeOK'
  BY <1>1, <1>2, <1>3, AttemptsAreBounded DEF IInv, TypeOK, GrantsKept, PolledPending
<1>5. Only(p)
  BY DEF IInv, TypeOK, Only, Same, InCall, AtVm, PolledPending
<1>6. EffectInv(p)'
  BY AttemptsAreBounded
     DEF IInv, TypeOK, CallInv, EffectInv, Calling, Resting, Recorded, TrueRecord, InCall, Op,
         AtVm, CallRecord, PolledPending
<1>7. GrantInv'
  <2>1. Unanswered(p)' => Unanswered(p)
    BY
       DEF IInv, TypeOK, CallInv, EffectInv, Calling, Resting, Recorded, TrueRecord, InCall, Op,
           AtVm, CallRecord, Unanswered, PolledPending
  <2>2. \A q \in Effect \ {p} : Unanswered(q)' => Unanswered(q)
    BY <1>5 DEF Unanswered, Only, Same, Op
  <2> QED
    BY <1>3, <2>1, <2>2, GrantFrame
<1> QED
  BY <1>4, <1>5, <1>6, <1>7, FrameOthers DEF IInv

(* The polled answer leaves the broker's table and is taken in hand.       *)
LEMMA PolledAnsweredInv ==
  ASSUME IInv, NEW p \in Effect, NEW x \in Answers, PolledAnswered(p, x)
  PROVE  IInv' /\ Only(p)
<1> USE DEF callVars, tableVars, grantVars, runVars
<1>1. step' \in Steps /\ result' \in [Effect -> Results]
  BY StepTypes DEF IInv, TypeOK, Answers, PolledAnswered
<1>2. /\ call' \in [Effect -> CallRecord] /\ asked' \in [Effect -> Nat]
      /\ audit' \in [Effect -> Seq(AuditRecord)]
  BY AttemptsAreBounded DEF IInv, TypeOK, CallRecord, PolledAnswered
<1>3. GrantsKept /\ used' \subseteq Effect \X Effect
  BY UnchangedGrants DEF IInv, TypeOK, PolledAnswered
<1>4. TypeOK'
  BY <1>1, <1>2, <1>3, AttemptsAreBounded DEF IInv, TypeOK, GrantsKept, PolledAnswered
<1>5. Only(p)
  BY DEF IInv, TypeOK, Only, Same, InCall, AtVm, PolledAnswered
<1>6. EffectInv(p)'
  <2>1. InCall(p) /\ InCall(p)'
    BY DEF PolledAnswered, InCall
  <2>2. /\ Op(p) # "none" => call[p].attempt >= 1 /\ call[p].attempt <= call[p].limit
        /\ Calling(p)
    BY <2>1 DEF IInv, CallInv, EffectInv
  <2>3. Calling(p)'
    BY <2>2 DEF Calling, Op, PolledAnswered, Answers
  <2> QED
    BY <2>1, <2>2, <2>3 DEF EffectInv, Op, PolledAnswered
<1>7. GrantInv'
  <2>1. Unanswered(p)' => Unanswered(p)
    BY
       DEF IInv, TypeOK, CallInv, EffectInv, Calling, Resting, Recorded, TrueRecord, InCall, Op,
           AtVm, CallRecord, Unanswered, PolledAnswered, Answers
  <2>2. \A q \in Effect \ {p} : Unanswered(q)' => Unanswered(q)
    BY <1>5 DEF Unanswered, Only, Same, Op
  <2> QED
    BY <1>3, <2>1, <2>2, GrantFrame
<1> QED
  BY <1>4, <1>5, <1>6, <1>7, FrameOthers DEF IInv

(* The machine forgets the effect of a cancelled descendant.               *)
LEMMA ForgetEffectInv ==
  ASSUME IInv, NEW p \in Effect, ForgetEffect(p)
  PROVE  IInv' /\ Only(p)
<1> USE DEF callVars, tableVars, grantVars, runVars
<1>1. step' \in Steps /\ result' \in [Effect -> Results]
  BY StepTypes DEF IInv, TypeOK, Answers, ForgetEffect, Ready, Return, Results
<1>2. /\ call' \in [Effect -> CallRecord] /\ asked' \in [Effect -> Nat]
      /\ audit' \in [Effect -> Seq(AuditRecord)]
  BY AttemptsAreBounded DEF IInv, TypeOK, CallRecord, ForgetEffect, Ready, Return, Results
<1>3. GrantsKept /\ used' \subseteq Effect \X Effect
  BY UnchangedGrants DEF IInv, TypeOK, ForgetEffect, Ready, Return, Results
<1>4. TypeOK'
  BY <1>1, <1>2, <1>3, AttemptsAreBounded
     DEF IInv, TypeOK, GrantsKept, ForgetEffect, Ready, Return, Results
<1>5. Only(p)
  BY DEF IInv, TypeOK, Only, Same, InCall, AtVm, ForgetEffect, Ready, Return, Results
<1>6. EffectInv(p)'
  <2>1. ~InCall(p) /\ ~InCall(p)' /\ result[p] = "waiting" /\ result'[p] = "forgotten"
    BY DEF IInv, TypeOK, ForgetEffect, Ready, Return, InCall, AtVm
  <2>2. /\ Op(p) # "none" => call[p].attempt >= 1 /\ call[p].attempt <= call[p].limit
        /\ Resting(p)
    BY <2>1 DEF IInv, CallInv, EffectInv
  <2>3. Resting(p)'
    BY <2>1, <2>2 DEF Resting, Op, ForgetEffect
  <2> QED
    BY <2>1, <2>2, <2>3 DEF EffectInv, Op, ForgetEffect
<1>7. GrantInv'
  <2>1. Unanswered(p)' => Unanswered(p)
    BY
       DEF IInv, TypeOK, CallInv, EffectInv, Calling, Resting, Recorded, TrueRecord, InCall, Op,
           AtVm, CallRecord, Unanswered, ForgetEffect, Ready, Return, Results
  <2>2. \A q \in Effect \ {p} : Unanswered(q)' => Unanswered(q)
    BY <1>5 DEF Unanswered, Only, Same, Op
  <2> QED
    BY <1>3, <2>1, <2>2, GrantFrame
<1> QED
  BY <1>4, <1>5, <1>6, <1>7, FrameOthers DEF IInv

(* A file-system call opens no request.                                    *)
LEMMA OneStepInv ==
  ASSUME IInv, NEW p \in Effect, step = AtVm \/ step.at = "use", result[p] = "new",
         NEW r \in {"value", "error", "trap"}, Return(p, r),
         UNCHANGED <<callVars, tableVars>>
  PROVE  EffectInv(p)'
<1> USE DEF callVars, tableVars
<1>1. ~InCall(p) /\ ~InCall(p)' /\ result'[p] = r
  BY SMTT(60) DEF IInv, TypeOK, Return, InCall, AtVm
<1>2. Resting(p)
  BY <1>1 DEF IInv, CallInv, EffectInv
<1>3. /\ Op(p) = "none" /\ p \notin pending /\ p \notin active
      /\ audit[p] = <<>> /\ asked[p] = 0
  BY <1>2 DEF Resting
<1>4. /\ Op(p)' = "none" /\ p \notin pending' /\ p \notin active'
      /\ audit'[p] = <<>> /\ asked'[p] = 0
  BY <1>3 DEF Op
<1>5. Resting(p)'
  <2>1. r # "waiting"
    OBVIOUS
  <2> QED
    BY <1>1, <1>4, <2>1 DEF Resting
<1> QED
  BY <1>1, <1>4, <1>5 DEF EffectInv

(* A filesystem call finds no live capability.                             *)
LEMMA FilesystemUnavailableInv ==
  ASSUME IInv, NEW p \in Effect, NEW h \in Effect, FilesystemUnavailable(p, h)
  PROVE  IInv' /\ Only(p)
<1> USE DEF callVars, tableVars, grantVars, runVars
<1>1. step' \in Steps /\ result' \in [Effect -> Results]
  BY StepTypes DEF IInv, TypeOK, Answers, FilesystemUnavailable, Ready, Return, Results
<1>2. /\ call' \in [Effect -> CallRecord] /\ asked' \in [Effect -> Nat]
      /\ audit' \in [Effect -> Seq(AuditRecord)]
  BY AttemptsAreBounded DEF IInv, TypeOK, CallRecord, FilesystemUnavailable, Ready, Return, Results
<1>3. GrantsKept /\ used' \subseteq Effect \X Effect
  BY RefreshedGrants DEF IInv, TypeOK, FilesystemUnavailable, Ready, Return, Results
<1>4. TypeOK'
  <2>1. effects' \in 0..MaximumEffects
    BY SMTT(60), AttemptsAreBounded DEF IInv, TypeOK, FilesystemUnavailable
  <2> QED
    BY <1>1, <1>2, <1>3, <2>1 DEF IInv, TypeOK, GrantsKept, FilesystemUnavailable
<1>5. Only(p)
  BY DEF IInv, TypeOK, Only, Same, InCall, AtVm, FilesystemUnavailable, Ready, Return, Results
<1>6. EffectInv(p)'
  <2>1. /\ Ready /\ result[p] = "new" /\ Return(p, "error")
        /\ UNCHANGED <<callVars, tableVars>>
    BY DEF FilesystemUnavailable
  <2>2. "error" \in {"value", "error", "trap"}
    OBVIOUS
  <2> QED
    BY <2>1, <2>2, OneStepInv DEF Ready
<1>7. GrantInv'
  <2>1. Unanswered(p)' => Unanswered(p)
    BY
       DEF IInv, TypeOK, CallInv, EffectInv, Calling, Resting, Recorded, TrueRecord, InCall, Op,
           AtVm, CallRecord, Unanswered, FilesystemUnavailable, Ready, Return, Results
  <2>2. \A q \in Effect \ {p} : Unanswered(q)' => Unanswered(q)
    BY <1>5 DEF Unanswered, Only, Same, Op
  <2> QED
    BY <1>3, <2>1, <2>2, GrantFrame
<1> QED
  BY <1>4, <1>5, <1>6, <1>7, FrameOthers DEF IInv

-----------------------------------------------------------------------------
(***************************************************************************)
(* The remaining actions: file-system calls, permission decisions,         *)
(* cancellation, the end of a run and the host's steps.  Then the          *)
(* theorems.                                                               *)
(***************************************************************************)
(* A filesystem call takes the revocations and settles nothing yet.        *)
LEMMA FilesystemBeginsInv ==
  ASSUME IInv, NEW p \in Effect, NEW h \in Effect, FilesystemBegins(p, h)
  PROVE  IInv' /\ Only(p)
<1> USE DEF callVars, tableVars, grantVars, runVars
<1>1. step' \in Steps /\ result' \in [Effect -> Results]
  <2>1. PICK g \in {"held", "revoked"} :
          step' = [at |-> "use", p |-> p, h |-> h, grant |-> g]
    BY DEF FilesystemBegins
  <2> QED
    BY <2>1, StepTypes DEF IInv, TypeOK, FilesystemBegins
<1>2. GrantsKept /\ used' \subseteq Effect \X Effect
  BY RefreshedGrants DEF IInv, TypeOK, FilesystemBegins
<1>3. TypeOK'
  <2>1. effects' \in 0..MaximumEffects
    BY SMTT(60), AttemptsAreBounded DEF IInv, TypeOK, FilesystemBegins
  <2> QED
    BY <1>1, <1>2, <2>1 DEF IInv, TypeOK, GrantsKept, FilesystemBegins
<1>4. \A q \in Effect : Same(q) /\ ~InCall(q) /\ ~InCall(q)'
  BY DEF Same, InCall, AtVm, FilesystemBegins, Ready
<1>5. Only(p)
  BY <1>4 DEF Only
<1>6. EffectInv(p)'
  <2>1. EffectInv(p) /\ Op(p)' = Op(p)
    BY <1>4 DEF IInv, CallInv, Op, Same
  <2>2. Recorded(p) => Recorded(p)'
    BY <1>4, <2>1 DEF Recorded, TrueRecord, Same
  <2> QED
    BY <1>4, <2>1, <2>2 DEF EffectInv, Resting, Same
<1>7. GrantInv'
  BY <1>2, <1>4, GrantFrame DEF Unanswered, Same, Op
<1> QED
  BY <1>3, <1>5, <1>6, FrameOthers, <1>7 DEF IInv

(* filesystem_call ends, whether or not it reached a target.               *)
LEMMA FilesystemEndsInv ==
  ASSUME IInv, UseInv, NEW p \in Effect, NEW h \in Effect,
         FilesystemUses(p, h) \/ FilesystemDenied(p, h)
  PROVE  IInv' /\ Only(p)
<1> USE DEF callVars, tableVars, grantVars, runVars
<1>1. /\ step.at = "use" /\ result[p] = "new"
      /\ UNCHANGED <<callVars, tableVars, provider_lost, handle, revocations, withdrawn, runVars>>
      /\ used' \subseteq Effect \X Effect
  BY SMTT(60) DEF IInv, TypeOK, UseInv, FilesystemUses, FilesystemDenied
<1>2. PICK r \in {"value", "error", "trap"} : Return(p, r)
  BY DEF FilesystemUses, FilesystemDenied
<1>3. TypeOK'
  <2>1. step' \in Steps /\ result' \in [Effect -> Results]
    BY <1>2, StepTypes DEF IInv, TypeOK, Return, Results
  <2> QED
    BY <1>1, <2>1 DEF IInv, TypeOK
<1>4. Only(p)
  BY <1>1, <1>2 DEF IInv, TypeOK, Only, Same, InCall, AtVm, Return
<1>5. EffectInv(p)'
  BY <1>1, <1>2, OneStepInv
<1>6. GrantInv'
  <2>1. Op(p) = "none"
    BY <1>1 DEF IInv, CallInv, EffectInv, Resting, InCall
  <2>2. \A q \in Effect \ {p} : Unanswered(q)' => Unanswered(q)
    BY <1>4 DEF Unanswered, Only, Same, Op
  <2> QED
    BY <1>1, <2>1, <2>2, UnchangedGrants, GrantFrame DEF Unanswered
<1> QED
  BY <1>3, <1>4, <1>5, <1>6, FrameOthers DEF IInv

(* A permission decision issues a capability nobody has revoked yet.       *)
LEMMA FinishValidInv ==
  ASSUME IInv, NEW p \in Effect, FinishValid(p)
  PROVE  IInv' /\ Only(p)
<1> DEFINE recorded == (Op(p) \in Typed)
<1> USE DEF callVars, tableVars, grantVars, runVars
<1>1. /\ InCall(p) /\ AuditIf(recorded, p, "Valid") /\ Return(p, "value")
      /\ call' = call /\ asked' = asked /\ pending' = pending /\ active' = active
      /\ step.at = "finish"
  BY DEF IInv, TypeOK, InCall, FinishValid, InHand
<1>2. EffectInv(p) /\ Calling(p) /\ audit[p] = <<>> /\ "Valid" \in Outcomes
  BY <1>1 DEF IInv, CallInv, EffectInv, Calling, Outcomes
<1>3. (Op(p) \in Asks => recorded) /\ (Op(p) \in SubAgentAsks => recorded)
  BY DEF Typed
<1>4. asked'[p] = call[p].attempt /\ p \notin pending' /\ p \notin active' /\ Op(p) # "none"
  BY <1>1, <1>2 DEF Calling
<1> HIDE DEF recorded
<1>5. EffectInv(p)'
  BY <1>1, <1>2, <1>3, <1>4, Settled
<1>6. /\ audit' \in [Effect -> Seq(AuditRecord)]
      /\ \A q \in Effect \ {p} : audit'[q] = audit[q]
  BY <1>1, <1>2, AuditType
<1>7. step' \in Steps /\ result' \in [Effect -> Results]
  BY <1>1, StepTypes DEF IInv, TypeOK, Return, Results
<1>8. handle' \in [Effect -> {"none", "live", "closed"}]
  BY DEF IInv, TypeOK, FinishValid
<1>9. TypeOK'
  BY <1>1, <1>6, <1>7, <1>8 DEF IInv, TypeOK, FinishValid
<1>10. Only(p)
  BY <1>1, <1>6 DEF IInv, TypeOK, Only, Same, InCall, AtVm, Return
<1>11. GrantInv'
  <2>1. p \notin withdrawn /\ withdrawn' = withdrawn /\ revocations' = revocations
    BY <1>1 DEF IInv, GrantInv, Unanswered, FinishValid
  <2>2. ~Unanswered(p)'
    BY <1>1, <1>4 DEF Unanswered, Return, InCall, AtVm, Op
  <2>3. \A q \in Effect \ {p} : handle'[q] = handle[q]
    BY DEF IInv, TypeOK, FinishValid
  <2>4. \A q \in Effect \ {p} : Unanswered(q)' => Unanswered(q)
    BY <1>10 DEF Only, Same, Unanswered, Op
  <2> QED
    BY <2>1, <2>2, <2>3, <2>4 DEF IInv, GrantInv
<1> QED
  BY <1>5, <1>9, <1>10, <1>11, FrameOthers DEF IInv

-----------------------------------------------------------------------------
(* cancel_effect takes effects out of both tables and records them.        *)

(* cancel_effect writes a record for the kinds that are audited.           *)
LEMMA CancelledAudit ==
  ASSUME IInv, NEW P \in SUBSET pending, audit' = CancelAudit(P), step = AtVm
  PROVE  /\ audit' \in [Effect -> Seq(AuditRecord)]
         /\ \A p \in Effect \ P : audit'[p] = audit[p]
         /\ \A p \in P :
              \/ Op(p) \in Typed /\ Len(audit'[p]) = 1
                 /\ audit'[p][1].attempts = call[p].attempt
                 /\ audit'[p][1].outcome = "Cancelled"
              \/ Op(p) \notin Typed /\ audit'[p] = <<>>
<1> DEFINE r(p) == [attempts |-> call[p].attempt, outcome |-> "Cancelled"]
<1>1. \A p \in Effect : r(p) \in AuditRecord
  BY DEF IInv, TypeOK, CallRecord, AuditRecord, Outcomes
<1>2. \A p \in Effect : r(p).attempts = call[p].attempt /\ r(p).outcome = "Cancelled"
  OBVIOUS
<1>3. audit' = [p \in Effect |-> IF p \in P /\ Op(p) \in Typed
                                 THEN Append(audit[p], r(p)) ELSE audit[p]]
  BY DEF CancelAudit
<1>4. \A p \in P : p \in Effect /\ audit[p] = <<>>
  BY DEF IInv, TypeOK, CallInv, EffectInv, InCall, AtVm, Resting
<1> HIDE DEF r
<1>5. \A p \in P : /\ Append(audit[p], r(p)) \in Seq(AuditRecord)
                   /\ Len(Append(audit[p], r(p))) = 1
                   /\ Append(audit[p], r(p))[1] = r(p)
  BY <1>1, <1>4, FirstRecord
<1>6. audit' \in [Effect -> Seq(AuditRecord)]
  BY <1>3, <1>5 DEF IInv, TypeOK
<1>7. \A p \in Effect \ P : audit'[p] = audit[p]
  BY <1>3
<1>8. \A p \in P : /\ Op(p) \in Typed => audit'[p] = Append(audit[p], r(p))
                   /\ Op(p) \notin Typed => audit'[p] = <<>>
  BY <1>3, <1>4
<1>9. ASSUME NEW p \in P, Op(p) \in Typed
      PROVE  /\ Len(audit'[p]) = 1 /\ audit'[p][1].attempts = call[p].attempt
             /\ audit'[p][1].outcome = "Cancelled"
  BY <1>2, <1>4, <1>5, <1>8, <1>9
<1> QED
  BY <1>6, <1>7, <1>8, <1>9

(* Effects that are cancelled keep the invariant of each effect.           *)
LEMMA CancelledCalls ==
  ASSUME IInv, NEW P \in SUBSET Effect, cancel_effects(P),
         step = AtVm, step' = AtVm, call' = call, asked' = asked,
         \A p \in Effect :
           IF p \in P \cap pending THEN result'[p] \in {"trap", "cancelled", "forgotten"}
                                   ELSE result'[p] = result[p]
  PROVE  CallInv' /\ audit' \in [Effect -> Seq(AuditRecord)]
<1> DEFINE C == P \cap pending
<1>1. C \subseteq pending /\ audit' = CancelAudit(C) /\ C \subseteq Effect
  BY DEF cancel_effects
<1>2. pending' = pending \ C /\ active' = active \ C
  BY DEF cancel_effects
<1>3. \A p \in Effect : IF p \in C THEN result'[p] \in {"trap", "cancelled", "forgotten"}
                                   ELSE result'[p] = result[p]
  OBVIOUS
<1> HIDE DEF C
<1>4. /\ audit' \in [Effect -> Seq(AuditRecord)]
      /\ \A p \in Effect \ C : audit'[p] = audit[p]
      /\ \A p \in C :
           \/ Op(p) \in Typed /\ Len(audit'[p]) = 1
              /\ audit'[p][1].attempts = call[p].attempt
              /\ audit'[p][1].outcome = "Cancelled"
           \/ Op(p) \notin Typed /\ audit'[p] = <<>>
  BY <1>1, CancelledAudit
<1>5. ASSUME NEW p \in Effect PROVE EffectInv(p)'
  <2>1. EffectInv(p) /\ Resting(p) /\ ~InCall(p) /\ ~InCall(p)' /\ Op(p)' = Op(p)
    BY DEF IInv, CallInv, EffectInv, InCall, AtVm, Op
  <2>2. CASE p \in C
    <3>1. /\ p \notin pending' /\ p \notin active' /\ Op(p) # "none"
          /\ asked[p] = call[p].attempt /\ call[p].attempt <= call[p].limit
          /\ result'[p] \in {"trap", "cancelled", "forgotten"}
      BY <1>1, <1>2, <1>3, <2>1, <2>2 DEF EffectInv, Resting
    <3>2. Recorded(p)'
      BY <1>4, <2>1, <2>2, <3>1 DEF Recorded, TrueRecord, Typed
    <3> QED
      BY <2>1, <3>1, <3>2 DEF EffectInv, Resting
  <2>3. CASE p \notin C
    <3>1. /\ audit'[p] = audit[p] /\ result'[p] = result[p]
          /\ p \in pending' <=> p \in pending
          /\ p \in active' <=> p \in active
      BY <1>2, <1>3, <1>4, <2>3
    <3>2. Recorded(p) => Recorded(p)'
      BY <2>1, <3>1 DEF Recorded, TrueRecord
    <3> QED
      BY <2>1, <3>1, <3>2 DEF EffectInv, Resting
  <2> QED
    BY <2>2, <2>3
<1> QED
  BY <1>4, <1>5 DEF CallInv

(* A poll under the raised flag, or a cancelled task, ends one effect.     *)
LEMMA CancelOneInv ==
  ASSUME IInv, NEW p \in Effect, PollCancelled(p) \/ CancelEffect(p)
  PROVE  IInv' /\ Only(p)
<1> USE DEF callVars, tableVars, grantVars, runVars
<1>1. /\ cancel_effects({p}) /\ step = AtVm /\ step' = AtVm /\ call' = call /\ asked' = asked
      /\ result' \in [Effect -> Results] /\ result'[p] \in {"trap", "cancelled"}
      /\ \A q \in Effect \ {p} : result'[q] = result[q]
      /\ UNCHANGED <<grantVars, runVars>>
  BY DEF IInv, TypeOK, Results, PollCancelled, CancelEffect, Ready, Return
<1>2. p \in pending
  BY SMTT(60)
     DEF IInv, CallInv, EffectInv, Resting, InCall, AtVm, PollCancelled, CancelEffect, Ready
<1>3. CallInv' /\ audit' \in [Effect -> Seq(AuditRecord)]
  BY <1>1, <1>2, CancelledCalls
<1>4. TypeOK'
  BY <1>1, <1>3, StepTypes DEF IInv, TypeOK, cancel_effects
<1>5. GrantInv'
  <2>1. \A q \in Effect : Unanswered(q)' => Unanswered(q)
    BY <1>1 DEF Unanswered, InCall, AtVm, Op, cancel_effects
  <2> QED
    BY <1>1, <2>1, UnchangedGrants, GrantFrame
<1>6. Only(p)
  <2>1. \A q \in Effect \ {p} : audit'[q] = audit[q]
    BY <1>1 DEF cancel_effects, CancelAudit
  <2> QED
    BY <1>1, <2>1 DEF Only, Same, InCall, AtVm, cancel_effects
<1> QED
  BY <1>3, <1>4, <1>5, <1>6 DEF IInv

(* The end of a run that fails cancels what is pending.                    *)
LEMMA EndAndCancelInv ==
  ASSUME IInv, EndAndCancel
  PROVE  IInv'
<1> USE DEF callVars, tableVars, grantVars, runVars
<1>1. /\ cancel_effects(pending) /\ pending \subseteq Effect /\ step = AtVm /\ step' = AtVm
      /\ call' = call /\ asked' = asked
  BY DEF IInv, TypeOK, EndAndCancel, Ready
<1>2. \A p \in Effect :
        IF p \in pending \cap pending THEN result'[p] \in {"trap", "cancelled", "forgotten"}
                                      ELSE result'[p] = result[p]
  BY <1>1 DEF IInv, CallInv, EffectInv, Resting, InCall, AtVm, EndAndCancel
<1>3. CallInv' /\ audit' \in [Effect -> Seq(AuditRecord)]
  BY <1>1, <1>2, CancelledCalls
<1>4. result' \in [Effect -> Results] /\ handle' \in [Effect -> {"none", "live", "closed"}]
  BY DEF IInv, TypeOK, Results, EndAndCancel
<1>5. TypeOK'
  BY <1>1, <1>3, <1>4 DEF IInv, TypeOK, EndAndCancel, cancel_effects
<1>6. GrantInv'
  <2>1. \A q \in Effect : Unanswered(q)' => Unanswered(q)
    BY <1>1 DEF Unanswered, InCall, AtVm, Op, cancel_effects
  <2> QED
    BY <2>1 DEF IInv, GrantInv, EndAndCancel
<1> QED
  BY <1>3, <1>5, <1>6 DEF IInv

(* What leaves calls and tables alone leaves CallInv alone, between calls. *)
LEMMA SameCalls ==
  ASSUME IInv, UNCHANGED <<step, result, callVars, pending, active>>,
         expired' = expired \/ step = AtVm
  PROVE  CallInv' /\ \A q \in Effect : Unanswered(q)' <=> Unanswered(q)
<1> USE DEF callVars
<1>1. ASSUME NEW p \in Effect PROVE EffectInv(p)'
  <2>1. EffectInv(p) /\ (InCall(p)' <=> InCall(p)) /\ Op(p)' = Op(p)
    BY DEF IInv, CallInv, InCall, Op
  <2>2. InCall(p) => Calling(p)'
    BY SMTT(60), <2>1 DEF EffectInv, Calling, InCall, AtVm
  <2>3. Resting(p) => Resting(p)'
    BY <2>1 DEF Resting, Recorded, TrueRecord
  <2> QED
    BY <2>1, <2>2, <2>3 DEF EffectInv
<1> QED
  BY <1>1 DEF CallInv, Unanswered, InCall, Op

(* The end of a run that succeeds leaves the tables alone.                 *)
LEMMA EndCompletedInv ==
  ASSUME IInv, EndCompleted
  PROVE  IInv'
<1> USE DEF callVars, tableVars, grantVars, runVars
<1>1. CallInv' /\ \A q \in Effect : Unanswered(q)' <=> Unanswered(q)
  BY SameCalls DEF EndCompleted, Ready
<1>2. TypeOK'
  BY DEF IInv, TypeOK, EndCompleted
<1>3. GrantInv'
  BY <1>1 DEF IInv, GrantInv, EndCompleted
<1> QED
  BY <1>1, <1>2, <1>3 DEF IInv

(* The flag, a revocation and a deadline touch no call.                    *)
LEMMA HostInv ==
  ASSUME IInv, Cancel \/ \E p \in Effect : Revoke(p) \/ DeadlinePasses(p)
  PROVE  IInv'
<1> USE DEF callVars, tableVars, grantVars, runVars
<1>1. CallInv' /\ \A q \in Effect : Unanswered(q)' <=> Unanswered(q)
  BY SameCalls DEF Cancel, Revoke, DeadlinePasses
<1>2. TypeOK'
  BY DEF IInv, TypeOK, Cancel, Revoke, DeadlinePasses
<1>3. GrantInv'
  <2>1. CASE Cancel \/ \E p \in Effect : DeadlinePasses(p)
    BY <1>1, <2>1, UnchangedGrants, GrantFrame DEF Cancel, DeadlinePasses
  <2>2. CASE \E p \in Effect : Revoke(p)
    BY <1>1, <2>2 DEF IInv, TypeOK, GrantInv, Revoke
  <2> QED
    BY <2>1, <2>2
<1> QED
  BY <1>1, <1>2, <1>3 DEF IInv

-----------------------------------------------------------------------------
(* The invariant.                                                          *)

(* An action of the broker about one effect.                               *)
About(p) ==
  \/ Start(p) \/ Progress(p) \/ Poll(p) \/ CancelEffect(p) \/ ForgetEffect(p) \/ Filesystem(p)

(* A step about one effect keeps the invariant and the other effects.      *)
LEMMA AboutInv ==
  ASSUME IInv, UseInv, NEW p \in Effect, About(p)
  PROVE  IInv' /\ Only(p)
<1>1. CASE Start(p)
  BY <1>1, OverchargedInv, RefusedInv, DispatchedInv DEF Start
<1>2. CASE Progress(p)
  <2>1. CASE \E e \in HostErrors : ProviderStartFails(p, e) \/ ProviderPollFails(p, e)
    BY <2>1, ProviderStartFailsInv, ProviderPollFailsInv
  <2>2. CASE \E x \in Answers : \/ ProviderAnswersAtOnce(p, x) \/ StartedAnswered(p, x)
                                \/ ProviderPollsAnswer(p, x) \/ PolledAnswered(p, x)
    BY <2>2, ProviderAnswersAtOnceInv, StartedAnsweredInv, ProviderPollsAnswerInv,
       PolledAnsweredInv
  <2>3. CASE ProviderAccepts(p) \/ StartedCancelled(p) \/ StartedPending(p)
    BY <2>3, ProviderAcceptsInv, StartedCancelledInv, StartedPendingInv
  <2>4. CASE FinishValid(p) \/ FinishMistyped(p) \/ FinishInvalid(p) \/ FinishRetries(p)
    BY <2>4, FinishValidInv, FinishMistypedInv, FinishInvalidInv, FinishRetriesInv
  <2>5. CASE ProviderPollsPending(p) \/ PolledCancelled(p) \/ PolledPending(p)
    BY <2>5, ProviderPollsPendingInv, PolledCancelledInv, PolledPendingInv
  <2> QED
    BY <1>2, <2>1, <2>2, <2>3, <2>4, <2>5 DEF Progress
<1>3. CASE Poll(p) \/ CancelEffect(p) \/ ForgetEffect(p)
  BY <1>3, CancelOneInv, PollBeginsInv, ForgetEffectInv DEF Poll
<1>4. CASE Filesystem(p)
  BY <1>4, FilesystemUnavailableInv, FilesystemBeginsInv, FilesystemEndsInv DEF Filesystem
<1> QED
  BY <1>1, <1>2, <1>3, <1>4 DEF About

(* A step is about one effect, ends the run, or is the host's.             *)
LEMMA NextCases ==
  ASSUME Next
  PROVE  \/ \E p \in Effect : About(p)
         \/ EndAndCancel \/ EndCompleted
         \/ Cancel \/ \E p \in Effect : Revoke(p) \/ DeadlinePasses(p)
BY DEF Next, About

(* Every step keeps the invariant.                                         *)
LEMMA NextInvariant == IInv /\ UseInv /\ [Next]_vars => IInv'
<1> SUFFICES ASSUME IInv, UseInv, [Next]_vars PROVE IInv'
  OBVIOUS
<1>1. CASE Next
  BY <1>1, NextCases, AboutInv, EndAndCancelInv, EndCompletedInv, HostInv
<1>2. CASE UNCHANGED vars
  <2> USE <1>2 DEF vars, callVars, tableVars, grantVars, runVars
  <2>1. CallInv' /\ \A q \in Effect : Unanswered(q)' <=> Unanswered(q)
    BY SameCalls
  <2>2. TypeOK'
    BY DEF IInv, TypeOK
  <2>3. GrantInv'
    BY <2>1, UnchangedGrants, GrantFrame
  <2> QED
    BY <2>1, <2>2, <2>3 DEF IInv
<1> QED
  BY <1>1, <1>2

(* Only FilesystemBegins leads to the use of a capability, and taking the  *)
(* revocations has closed what was revoked.  Until the use only the host   *)
(* moves, and it touches neither the capabilities nor provider_lost.       *)
LEMMA UseInvariant == IInv /\ UseInv /\ [Next]_vars => UseInv'
<1> SUFFICES ASSUME IInv, UseInv, [Next]_vars, step'.at = "use"
             PROVE  /\ result'[step'.p] = "new" /\ ~provider_lost'
                    /\ step'.grant \in {"held", "revoked"}
                    /\ step'.grant = "revoked" => handle'[step'.h] # "live"
  BY DEF UseInv
<1> USE DEF callVars, tableVars, grantVars, runVars
<1>1. CASE UNCHANGED <<step, result, provider_lost, handle>>
  BY <1>1 DEF UseInv
<1>2. CASE \E p \in Effect, h \in Effect : FilesystemBegins(p, h)
  <2>1. PICK p \in Effect, h \in Effect : FilesystemBegins(p, h)
    BY <1>2
  <2>2. /\ step'.p = p /\ step'.h = h
        /\ step'.grant = IF h \in withdrawn THEN "revoked" ELSE "held"
        /\ result'[p] = "new" /\ ~provider_lost' /\ handle'[h] = RefreshedHandles[h]
    BY SMTT(60), <2>1 DEF FilesystemBegins, refresh_external_state
  <2>3. h \in withdrawn => RefreshedHandles[h] # "live"
    BY DEF IInv, GrantInv, RefreshedHandles, Taken, HasLive
  <2> QED
    BY <2>2, <2>3
<1>3. CASE Next
  <2>1. \A p \in Effect : ~Start(p)
    BY SMTT(60) DEF Start, Overcharged, Refused, Dispatched, Return, AtVm
  <2>2. \A p \in Effect : ~Progress(p)
    BY SMTT(60) DEF Progress, ProviderStartFails, ProviderPollFails, ProviderAnswersAtOnce,
       StartedAnswered, ProviderPollsAnswer, PolledAnswered, ProviderAccepts,
       StartedCancelled, StartedPending, FinishValid, FinishMistyped, FinishInvalid,
       FinishRetries, ProviderPollsPending, PolledCancelled, PolledPending, Return, AtVm
  <2>3. \A p \in Effect : ~Poll(p) /\ ~CancelEffect(p) /\ ~ForgetEffect(p)
    BY SMTT(60) DEF Poll, PollCancelled, PollBegins, CancelEffect, ForgetEffect, Return, AtVm
  <2>4. \A p, h \in Effect : /\ ~FilesystemUnavailable(p, h)
                             /\ ~FilesystemUses(p, h) /\ ~FilesystemDenied(p, h)
    BY SMTT(60) DEF FilesystemUnavailable, FilesystemUses, FilesystemDenied, Return, AtVm
  <2>5. ~EndAndCancel /\ ~EndCompleted
    BY SMTT(60) DEF EndAndCancel, EndCompleted, Ready, AtVm
  <2>6. CASE Cancel \/ \E p \in Effect : Revoke(p) \/ DeadlinePasses(p)
    BY <1>1, <2>6 DEF Cancel, Revoke, DeadlinePasses
  <2> QED
    BY <1>2, <1>3, <2>1, <2>2, <2>3, <2>4, <2>5, <2>6 DEF Next, Filesystem
<1> QED
  BY <1>1, <1>3 DEF vars

(* The inductive invariant holds in every reachable state.                 *)
THEOREM Invariance == Spec => [](IInv /\ UseInv)
<1>1. Init => IInv /\ UseInv
  BY SMTT(60), InitInvariant DEF Init, UseInv, AtVm
<1> QED
  BY <1>1, NextInvariant, UseInvariant, PTL DEF Spec

-----------------------------------------------------------------------------
(* What follows from it.                                                   *)

(* The variables have their types, and no more effects are charged than    *)
(* maximum_effects allows.                                                 *)
THEOREM TypeCorrect == Spec => []TypeOK
<1>1. IInv => TypeOK
  BY DEF IInv
<1> QED
  BY <1>1, Invariance, PTL

(* The broker's pending tables and the providers' active tables agree.     *)
THEOREM Agreement == Spec => []ProvidersAgree
<1>1. IInv => ProvidersAgree
  BY DEF IInv, CallInv, EffectInv, Resting, ProvidersAgree
<1> QED
  BY <1>1, Invariance, PTL

(* Every agent, model or user interaction that is over left one record.    *)
THEOREM OneRecord == Spec => []AuditedOnce
<1>1. ASSUME IInv, NEW p \in Effect
      PROVE  /\ Op(p) \in Asks => Len(audit[p]) = IF InCall(p) \/ p \in pending THEN 0 ELSE 1
             /\ Op(p) \in SubAgentAsks =>
                  /\ Len(audit[p]) <= IF InCall(p) \/ p \in pending THEN 0 ELSE 1
                  /\ result[p] = "value" => Len(audit[p]) = 1
  <2>1. EffectInv(p) /\ (Op(p) \in Asks \cup SubAgentAsks => Op(p) # "none")
    BY <1>1 DEF IInv, CallInv, Asks, SubAgentAsks
  <2>2. CASE InCall(p)
    BY SMTT(60), <2>1, <2>2 DEF EffectInv, Calling
  <2>3. CASE ~InCall(p) /\ p \in pending
    BY SMTT(60), <2>1, <2>3 DEF EffectInv, Resting
  <2>4. CASE ~InCall(p) /\ p \notin pending
    <3>1. Op(p) # "none" => Recorded(p)
      BY <2>1, <2>4 DEF EffectInv, Resting
    <3>2. CASE audit[p] = <<>>
      BY SMTT(60), <2>1, <2>4, <3>1, <3>2 DEF Recorded
    <3>3. CASE audit[p] # <<>>
      <4>1. Op(p) \in Asks \/ Op(p) \in SubAgentAsks => Len(audit[p]) = 1
        BY <2>1, <3>1, <3>3 DEF Recorded
      <4>2. Len(audit[p]) \in Nat
        BY SMTT(60), <1>1 DEF IInv, TypeOK
      <4>3. ASSUME Op(p) \in SubAgentAsks
            PROVE  Len(audit[p]) = 1 /\ Len(audit[p]) <= 1
        <5>1. Len(audit[p]) = 1
          BY <4>1, <4>3
        <5> QED
          BY SMTT(60), <4>2, <5>1
      <4>4. (IF InCall(p) \/ p \in pending THEN 0 ELSE 1) = 1
        BY <2>4
      <4> QED
        BY <4>1, <4>3, <4>4, Zenon
    <3> QED
      BY <3>2, <3>3
  <2> QED
    BY <2>2, <2>3, <2>4
<1>2. IInv => AuditedOnce
  BY <1>1 DEF AuditedOnce
<1> QED
  BY <1>2, Invariance, PTL

(* Every record states the attempts that were made and how they ended.     *)
THEOREM TrueRecords == Spec => []AuditIsTrue
<1>1. ASSUME IInv, NEW p \in Effect, NEW i \in 1..Len(audit[p])
      PROVE  TrueRecord(p, audit[p][i])
  <2>1. EffectInv(p) /\ Len(audit[p]) # 0
    BY SMTT(60), <1>1 DEF IInv, CallInv, TypeOK
  <2>2. Recorded(p) /\ Len(audit[p]) = 1
    BY SMTT(60), <2>1 DEF EffectInv, Calling, Resting, Recorded
  <2>3. i = 1
    BY SMTT(60), <2>2
  <2> QED
    BY SMTT(60), <2>1, <2>2, <2>3 DEF Recorded
<1>2. IInv => AuditIsTrue
  BY <1>1 DEF AuditIsTrue, TrueRecord
<1> QED
  BY <1>2, Invariance, PTL

(* A filesystem call reaches a target only while the provider is there,    *)
(* and never through a grant that was revoked when the call took the       *)
(* revocations, whatever the host does between that and the use.           *)
THEOREM Authorised == Spec => UseIsAuthorised
<1>1. ASSUME UseInv, [Next]_vars, NEW u \in used' \ used
      PROVE  ~provider_lost /\ step.grant = "held"
  <2> USE DEF callVars, tableVars, grantVars, runVars
  <2>1. PICK p \in Effect, h \in Effect : FilesystemUses(p, h)
    <3>1. Next
      BY <1>1 DEF vars
    <3>2. \A p \in Effect : ~Start(p)
      BY <1>1 DEF Start, Overcharged, Refused, Dispatched
    <3>3. \A p \in Effect : ~Progress(p)
      BY SMTT(60), <1>1 DEF Progress, ProviderStartFails, ProviderPollFails, ProviderAnswersAtOnce,
         StartedAnswered, ProviderPollsAnswer, PolledAnswered, ProviderAccepts,
         StartedCancelled, StartedPending, FinishValid, FinishMistyped, FinishInvalid,
         FinishRetries, ProviderPollsPending, PolledCancelled, PolledPending,
         LoseProviderIf, lose_provider
    <3>4. \A p \in Effect : ~Poll(p) /\ ~CancelEffect(p) /\ ~ForgetEffect(p)
      BY <1>1 DEF Poll, PollCancelled, PollBegins, CancelEffect, ForgetEffect
    <3>5. \A p, h \in Effect : /\ ~FilesystemUnavailable(p, h) /\ ~FilesystemBegins(p, h)
                               /\ ~FilesystemDenied(p, h)
      BY <1>1 DEF FilesystemUnavailable, FilesystemBegins, FilesystemDenied
    <3>6. /\ ~EndAndCancel /\ ~EndCompleted /\ ~Cancel
          /\ \A p \in Effect : ~Revoke(p) /\ ~DeadlinePasses(p)
      BY <1>1 DEF EndAndCancel, EndCompleted, Cancel, Revoke, DeadlinePasses
    <3> QED
      BY <3>1, <3>2, <3>3, <3>4, <3>5, <3>6 DEF Next, Filesystem
  <2> QED
    BY <1>1, <2>1 DEF UseInv, FilesystemUses
<1>2. UseInv /\ [Next]_vars
        => [\A u \in used' \ used : ~provider_lost /\ step.grant = "held"]_vars
  BY <1>1
<1> QED
  BY <1>2, Invariance, PTL DEF Spec, UseIsAuthorised

-----------------------------------------------------------------------------
(* The contract.  In an action about p the life of p alone moves, and the  *)
(* requests open for it: Moves says how.                                   *)

Moves(p) ==
  \/ life'[p] = life[p] /\ active' = active
  \/ life[p] = "new" /\ life'[p] = "busy" /\ active' = active
  \/ life[p] = "busy" /\ life'[p] = "busy" /\ active' \in {active \cup {p}, active \ {p}}
  \/ life[p] \in {"new", "busy"} /\ life'[p] = "done" /\ active' = active \ {p}
  \/ life[p] = "busy" /\ life'[p] = "forgotten" /\ active' = active

(* The life of an effect in the contract, before and after a step.         *)
LEMMA LifeOf ==
  ASSUME NEW p \in Effect
  PROVE  /\ life[p] = IF result[p] = "forgotten" THEN "forgotten"
                      ELSE IF InCall(p) \/ result[p] = "waiting" THEN "busy"
                      ELSE IF result[p] = "new" THEN "new" ELSE "done"
         /\ life'[p] = IF result'[p] = "forgotten" THEN "forgotten"
                       ELSE IF InCall(p)' \/ result'[p] = "waiting" THEN "busy"
                       ELSE IF result'[p] = "new" THEN "new" ELSE "done"
         /\ life = [q \in Effect |-> life[q]] /\ life' = [q \in Effect |-> life'[q]]
BY DEF life

(* A move of one effect is a step of the contract.                         *)
LEMMA MovesAreSteps ==
  ASSUME NEW p \in Effect, Only(p), Moves(p)
  PROVE  [Contract!Next]_<<life, active>>
<1>1. \A q \in Effect \ {p} : life'[q] = life[q]
  BY LifeOf DEF Only, Same
<1>2. life' = [life EXCEPT ![p] = life'[p]] /\ (life'[p] = life[p] => life' = life)
  BY <1>1, LifeOf
<1> QED
  BY <1>2 DEF Moves, Contract!Next, Contract!Begin, Contract!Exchange, Contract!Settle,
     Contract!Forget

(* Where an effect is when its call begins, while it is in a call, and     *)
(* when a call leaves it with result r.                                    *)
LEMMA LifeAt ==
  ASSUME IInv, NEW p \in Effect
  PROVE  /\ Ready /\ result[p] = "new" => life[p] = "new" /\ p \notin active
         /\ Ready /\ result[p] = "waiting" => life[p] = "busy" /\ p \in active
         /\ InCall(p) => life[p] = "busy"
         /\ InCall(p)' /\ result'[p] # "forgotten" => life'[p] = "busy"
         /\ \A r \in {"value", "error", "trap", "cancelled"} :
              step' = AtVm /\ result'[p] = r => life'[p] = "done"
<1>1. EffectInv(p)
  BY DEF IInv, CallInv
<1> QED
  BY SMTT(60), <1>1, LifeOf DEF EffectInv, Calling, Resting, Ready, InCall, AtVm

(* A start moves its effect as the contract allows.                        *)
LEMMA StartMoves ==
  ASSUME IInv, NEW p \in Effect, Start(p)
  PROVE  Moves(p)
<1> USE DEF callVars, tableVars, grantVars, runVars
<1>1. life[p] = "new" /\ p \notin active /\ active' = active
  BY LifeAt DEF Start, Overcharged, Refused, Dispatched
<1>2. CASE Overcharged(p) \/ \E o \in Operations : Refused(p, o)
  <2>1. step' = AtVm /\ result'[p] \in {"error", "trap"}
    BY <1>2 DEF IInv, TypeOK, Overcharged, Refused, Return
  <2> QED
    BY <1>1, <2>1, LifeAt DEF Moves
<1>3. CASE \E o \in Operations, n \in PromptAttempts : Dispatched(p, o, n)
  <2>1. InCall(p)' /\ result'[p] = "new"
    BY SMTT(60), <1>3 DEF Dispatched, InCall
  <2> QED
    BY <1>1, <2>1, LifeAt DEF Moves
<1> QED
  BY <1>2, <1>3 DEF Start

(* A call goes on.                                                         *)
LEMMA ExchangeMoves ==
  ASSUME IInv, NEW p \in Effect, InCall(p), result' = result,
         InCall(p)' \/ result[p] = "waiting",
         active' \in {active, active \cup {p}, active \ {p}}
  PROVE  Moves(p)
<1>1. result[p] \in {"new", "waiting"}
  BY DEF IInv, CallInv, EffectInv, Calling
<1>2. life[p] = "busy" /\ life'[p] = "busy"
  BY <1>1, LifeOf
<1>3. active' \in {active \cup {p}, active \ {p}}
  BY DEF IInv, TypeOK
<1> QED
  BY <1>2, <1>3 DEF Moves

(* A call ends.                                                            *)
LEMMA SettleMoves ==
  ASSUME IInv, NEW p \in Effect, life[p] = "busy",
         NEW r \in {"value", "error", "trap", "cancelled"}, Return(p, r), active' = active \ {p}
  PROVE  Moves(p)
BY LifeAt DEF IInv, TypeOK, Return, Moves

(* What a provider and the broker do in a call moves its effect so.        *)
LEMMA ProgressMoves ==
  ASSUME IInv, NEW p \in Effect, Progress(p)
  PROVE  Moves(p)
<1> USE DEF callVars, tableVars, grantVars, runVars
<1>1. InCall(p) /\ Calling(p) /\ life[p] = "busy"
  <2>1. InCall(p)
    BY SMTT(60) DEF IInv, TypeOK, InCall, InHand, Progress, ProviderStartFails, ProviderPollFails,
       ProviderAnswersAtOnce, StartedAnswered, ProviderPollsAnswer, PolledAnswered,
       ProviderAccepts, StartedCancelled, StartedPending, FinishValid, FinishMistyped,
       FinishInvalid, FinishRetries, ProviderPollsPending, PolledCancelled, PolledPending
  <2> QED
    BY <2>1, LifeAt DEF IInv, CallInv, EffectInv
<1>2. CASE \E e \in HostErrors : ProviderStartFails(p, e) \/ ProviderPollFails(p, e)
  <2>1. PICK r \in {"error", "trap"} : Return(p, r)
    BY <1>2 DEF ProviderStartFails, ProviderPollFails, Closed
  <2>2. active' = active \ {p}
    BY SMTT(60), <1>1, <1>2 DEF ProviderStartFails, ProviderPollFails, Calling
  <2> QED
    BY <1>1, <2>1, <2>2, SettleMoves
<1>3. CASE \E x \in Answers : \/ ProviderAnswersAtOnce(p, x) \/ StartedAnswered(p, x)
                              \/ ProviderPollsAnswer(p, x) \/ PolledAnswered(p, x)
  <2>1. /\ InCall(p)' /\ result' = result
        /\ active' \in {active, active \cup {p}, active \ {p}}
    BY SMTT(60), <1>3 DEF InCall, ProviderAnswersAtOnce, StartedAnswered, ProviderPollsAnswer,
       PolledAnswered
  <2> QED
    BY <1>1, <2>1, ExchangeMoves
<1>4. CASE ProviderAccepts(p) \/ FinishRetries(p) \/ ProviderPollsPending(p)
  <2>1. /\ InCall(p)' /\ result' = result
        /\ active' \in {active, active \cup {p}, active \ {p}}
    BY SMTT(60), <1>4 DEF InCall, ProviderAccepts, FinishRetries, ProviderPollsPending
  <2> QED
    BY <1>1, <2>1, ExchangeMoves
<1>5. CASE StartedCancelled(p) \/ PolledCancelled(p)
  BY <1>1, <1>5, SettleMoves DEF StartedCancelled, PolledCancelled
<1>6. CASE StartedPending(p)
  <2>1. result'[p] = "waiting" /\ active' = active
    BY <1>6 DEF IInv, TypeOK, StartedPending, Return
  <2>2. life'[p] = "busy" /\ active' \in {active \cup {p}, active \ {p}}
    BY <2>1, LifeOf DEF IInv, TypeOK
  <2> QED
    BY <1>1, <2>2 DEF Moves
<1>7. CASE FinishValid(p) \/ FinishMistyped(p) \/ FinishInvalid(p)
  <2>1. PICK r \in {"value", "error", "trap"} : Return(p, r)
    BY <1>7 DEF FinishValid, FinishMistyped, FinishInvalid, Closed
  <2>2. active' = active \ {p}
    BY SMTT(60), <1>1, <1>7 DEF FinishValid, FinishMistyped, FinishInvalid, InHand, Calling
  <2> QED
    BY <1>1, <2>1, <2>2, SettleMoves
<1>8. CASE PolledPending(p)
  <2>1. result[p] = "waiting" /\ result' = result /\ active' = active
    BY <1>1, <1>8 DEF PolledPending, Calling
  <2> QED
    BY <1>1, <2>1, ExchangeMoves
<1> QED
  BY <1>2, <1>3, <1>4, <1>5, <1>6, <1>7, <1>8 DEF Progress

(* Any step about an effect moves it as the contract allows.               *)
LEMMA AboutMoves ==
  ASSUME IInv, UseInv, NEW p \in Effect, About(p)
  PROVE  Moves(p)
<1> USE DEF callVars, tableVars, grantVars, runVars
<1>1. CASE PollCancelled(p) \/ CancelEffect(p)
  <2>1. PICK r \in {"trap", "cancelled"} : Return(p, r)
    BY <1>1 DEF PollCancelled, CancelEffect, Return
  <2>2. life[p] = "busy" /\ p \in pending /\ cancel_effects({p})
    BY SMTT(60), <1>1, LifeAt DEF IInv, CallInv, EffectInv, Resting, InCall, AtVm, PollCancelled,
       CancelEffect, Ready
  <2>3. active' = active \ {p}
    BY <2>2 DEF cancel_effects
  <2> QED
    BY <2>1, <2>2, <2>3, SettleMoves
<1>2. CASE PollBegins(p)
  <2>1. InCall(p)' /\ result'[p] = "waiting" /\ active' = active
    BY <1>2 DEF PollBegins, InCall
  <2>2. life[p] = "busy" /\ life'[p] = "busy" /\ p \in active
    BY <1>2, <2>1, LifeAt DEF PollBegins
  <2> QED
    BY <2>1, <2>2 DEF Moves, IInv, TypeOK
<1>3. CASE ForgetEffect(p)
  <2>1. life[p] = "busy" /\ result'[p] = "forgotten" /\ active' = active
    BY <1>3, LifeAt DEF ForgetEffect, IInv, TypeOK, Return
  <2> QED
    BY <2>1, LifeOf DEF Moves
<1>4. CASE \E h \in Effect : FilesystemUnavailable(p, h)
  <2>1. life[p] = "new" /\ p \notin active /\ active' = active
    BY <1>4, LifeAt DEF FilesystemUnavailable
  <2>2. step' = AtVm /\ result'[p] \in {"value", "error", "trap"}
    BY <1>4 DEF IInv, TypeOK, FilesystemUnavailable, Return
  <2> QED
    BY <2>1, <2>2, LifeAt DEF Moves
<1>5. CASE \E h \in Effect : FilesystemUses(p, h) \/ FilesystemDenied(p, h)
  <2>1. step.at = "use" /\ result[p] = "new" /\ active' = active
    BY <1>5 DEF UseInv, FilesystemUses, FilesystemDenied
  <2>2. step' = AtVm /\ result'[p] \in {"value", "error", "trap"}
    BY <1>5 DEF IInv, TypeOK, FilesystemUses, FilesystemDenied, Return
  <2>3. ~InCall(p) /\ p \notin active
    BY <2>1 DEF IInv, CallInv, EffectInv, Resting, InCall
  <2>4. life[p] = "new"
    BY <2>1, <2>3, LifeOf
  <2> QED
    BY <2>1, <2>2, <2>3, <2>4, LifeAt DEF Moves
<1>6. CASE \E h \in Effect : FilesystemBegins(p, h)
  <2>1. UNCHANGED <<result, active>> /\ ~InCall(p) /\ ~InCall(p)'
    BY SMTT(60), <1>6 DEF FilesystemBegins, Ready, InCall, AtVm
  <2> QED
    BY <2>1, LifeOf DEF Moves
<1> QED
  BY <1>1, <1>2, <1>3, <1>4, <1>5, <1>6, StartMoves, ProgressMoves
     DEF About, Poll, Filesystem

(* The end of a run that fails winds up every effect of the contract.      *)
LEMMA WindingUp ==
  ASSUME IInv, EndAndCancel
  PROVE  Contract!WindUp
<1>1. step = AtVm /\ step' = AtVm
  BY DEF EndAndCancel, Ready
<1>2. \A p \in Effect : life'[p] = IF life[p] = "busy" THEN "done" ELSE life[p]
  BY SMTT(60), <1>1, LifeOf DEF EndAndCancel, InCall, AtVm
<1>3. active' = {}
  BY <1>1 DEF IInv, TypeOK, CallInv, EffectInv, Resting, InCall, AtVm, EndAndCancel,
     cancel_effects
<1> QED
  BY <1>2, <1>3, LifeOf DEF Contract!WindUp, life

(* The broker implements EffectContract: an effect is settled at most once *)
(* and the host holds no open request of a settled one.                    *)
THEOREM Refinement == Spec => KeepsContract
<1>1. Init => Contract!Init
  BY SMTT(60) DEF Init, Contract!Init, life, InCall, AtVm
<1>2. IInv /\ UseInv /\ [Next]_vars => [Contract!Next]_<<life, active>>
  <2> SUFFICES ASSUME IInv, UseInv, [Next]_vars PROVE [Contract!Next]_<<life, active>>
    OBVIOUS
  <2>1. ASSUME NEW p \in Effect, About(p) PROVE [Contract!Next]_<<life, active>>
    BY <2>1, AboutInv, AboutMoves, MovesAreSteps
  <2>2. CASE EndAndCancel
    BY <2>2, WindingUp DEF Contract!Next
  <2>3. CASE EndCompleted \/ Cancel \/ \E p \in Effect : Revoke(p) \/ DeadlinePasses(p)
    BY <2>3 DEF EndCompleted, Cancel, Revoke, DeadlinePasses, life, InCall, callVars,
       tableVars, grantVars
  <2>4. CASE UNCHANGED vars
    BY <2>4 DEF vars, life, InCall, tableVars
  <2> QED
    BY <2>1, <2>2, <2>3, <2>4, NextCases
<1> QED
  BY <1>1, <1>2, Invariance, PTL DEF Spec, KeepsContract, Contract!Spec
=============================================================================
