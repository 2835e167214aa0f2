------------------------ MODULE TaskMachineProofs ---------------------------
(***************************************************************************)
(* What the scheduler of the ALLEN virtual machine guarantees for every    *)
(* number of tasks, every limit and every verified program.  The inductive *)
(* invariant and the facts about the task table it rests on come first;    *)
(* then that the wake pass, the instructions that touch the task table and *)
(* the loop of execute_task_machine keep it; then the theorems.            *)
(***************************************************************************)
EXTENDS TaskMachine, TLAPS, FiniteSetTheorems

(* The provers are given up to a minute for a leaf.                        *)
USE ZenonT(60)

-----------------------------------------------------------------------------
(* What the proofs use of sequences and of sets of tasks.                  *)

\* The empty sequence, and the length of any other.
LEMMA SeqEmpty ==
    ASSUME NEW S
    PROVE  /\ << >> \in Seq(S)
           /\ Len(<< >>) = 0
           /\ \A q \in Seq(S) : q # << >> => Len(q) \in Nat \ {0}
BY SMTT(60)

\* The length and the domain of a sequence.
LEMMA SeqLen ==
    ASSUME NEW S, NEW q \in Seq(S)
    PROVE  Len(q) \in Nat /\ q \in [1..Len(q) -> S] /\ DOMAIN q = 1..Len(q)
BY SMTT(60)

\* An element of a sequence.
LEMMA SeqElement ==
    ASSUME NEW S, NEW q \in Seq(S), NEW n \in 1..Len(q)
    PROVE  q[n] \in S
BY SMTT(60)

\* A sequence with one more element.
LEMMA SeqAppend ==
    ASSUME NEW S, NEW q \in Seq(S), NEW e \in S
    PROVE  /\ Append(q, e) \in Seq(S)
           /\ Len(Append(q, e)) = Len(q) + 1
           /\ \A k \in 1..Len(q) : Append(q, e)[k] = q[k]
           /\ Append(q, e)[Len(q) + 1] = e
BY SMTT(60)

\* A sequence with one element replaced.
LEMMA SeqExcept ==
    ASSUME NEW S, NEW q \in Seq(S), NEW n \in 1..Len(q), NEW e \in S
    PROVE  [q EXCEPT ![n] = e] \in Seq(S) /\ Len([q EXCEPT ![n] = e]) = Len(q)
BY SMTT(60)

\* A part of a sequence.
LEMMA SeqPart ==
    ASSUME NEW S, NEW q, NEW m \in Int, NEW n \in Int, \A k \in m..n : q[k] \in S
    PROVE  /\ SubSeq(q, m, n) \in Seq(S)
           /\ Len(SubSeq(q, m, n)) = IF m <= n THEN n - m + 1 ELSE 0
           /\ \A k \in 1..(n - m + 1) : SubSeq(q, m, n)[k] = q[m + k - 1]
BY SMTT(60)

\* Sets of tasks have a size, and a least id unless they are empty; that
\* holds of every set of tasks, and TaskMachineProofs shows it.
Counting ==
    \A S \in SUBSET TaskId : Cardinality(S) \in Nat /\ (S # {} => Min(S) \in S)

-----------------------------------------------------------------------------
(* Facts about the operators of the model.                                 *)

\* The cleanup budget never leaves its range.
LEMMA ChargeInRange ==
    ASSUME Counting, NEW S \in SUBSET TaskId, cleanup \in 0..CleanupLimit
    PROVE  ChargeCleanup(S) \in 0..CleanupLimit
BY SMTT(60), BoundsAssumption DEF Counting, ChargeCleanup, Overruns

\* The placeholder for a task that is not in the table, and an empty register.
LEMMA AbsentType == Absent \in MachineTask /\ Absent.st = "Absent"
<1>1. << >> \in Frames
    BY SMTT(60), SeqEmpty, BoundsAssumption DEF Frames
<1> QED
    BY SMTT(60), <1>1, BoundsAssumption DEF Absent, MachineTask, States, NoScope, TaskId

\* An empty register is a register.
LEMMA NoRegType == NoReg \in Register
BY SMTT(60), BoundsAssumption DEF NoReg, Register, TaskId

\* Taking tasks out of the table keeps it a table.
LEMMA RemoveType ==
    ASSUME NEW ts \in [TaskId -> MachineTask], NEW S
    PROVE  /\ Remove(ts, S) \in [TaskId -> MachineTask]
           /\ \A t \in TaskId : Remove(ts, S)[t] = IF t \in S THEN Absent ELSE ts[t]
BY AbsentType DEF Remove

\* Completing a task changes that task alone.
LEMMA CompleteType ==
    ASSUME NEW ts \in [TaskId -> MachineTask], NEW t \in TaskId,
           NEW st \in {"Ok", "Err"}, NEW h \in TaskId, NEW e \in Errors \cup {"none"}
    PROVE  /\ Complete(ts, t, st, h, e) \in [TaskId -> MachineTask]
           /\ Complete(ts, t, st, h, e)[t].st = st
           /\ Complete(ts, t, st, h, e)[t].err = e
           /\ \A u \in TaskId \ {t} : Complete(ts, t, st, h, e)[u] = ts[u]
<1> DEFINE r == [ts[t] EXCEPT !.st = st, !.handle = h, !.err = e,
                               !.frames = << >>, !.join = NoScope]
<1>1. << >> \in Frames
    BY SMTT(60), SeqEmpty, BoundsAssumption DEF Frames
<1>2. r \in MachineTask /\ r.st = st /\ r.err = e
    <2>1. ts[t] \in MachineTask
        OBVIOUS
    <2>2. st \in States
        BY DEF States
    <2> QED
        BY <1>1, <2>1, <2>2 DEF MachineTask
<1>3. Complete(ts, t, st, h, e) = [ts EXCEPT ![t] = r]
    BY DEF Complete
<1> QED
    BY <1>2, <1>3

\* The descendants of a task are tasks.
LEMMA DescendantsAreTasks ==
    ASSUME NEW x
    PROVE  Descendants(x) \subseteq Live /\ Descendants(x) \subseteq TaskId
BY DEF Descendants, Live

-----------------------------------------------------------------------------
(* `stop`, `fail` and an exceeded cleanup budget leave nothing but a       *)
(* failed root for the next turn of the loop, and no task steps under a    *)
(* failed root: the strengthening StopWins and NoNewWorkAfterTerminal need. *)
TerminalIsFinal ==
    /\ (pc # "done" /\ (overrun \/ raised \cap {"Stopped", "ProgramFailed"} # {})) =>
           /\ task[0].st = "Err"
           /\ pc = "wake" /\ todo = {}
           /\ "Stopped" \in raised => task[0].err = "Stopped"
    /\ pc = "step" => task[0].st # "Err"

(* The inductive invariant: types, the witnesses of failure, and the shape *)
(* a terminal error leaves behind.                                         *)
IInv == Counting /\ TypeOK /\ ErrorsAreWitnessed /\ TerminalIsFinal

(* The machine starts in the invariant.                                    *)
LEMMA InitInvariant == Counting /\ Init => IInv
<1> SUFFICES ASSUME Counting, Init PROVE IInv
    OBVIOUS
<1>1. << >> \in Seq(Lexicals) /\ << << >> >> \in Frames /\ << << >> >> # << >>
    BY SMTT(60), SeqEmpty, BoundsAssumption DEF Frames
<1>2. [Absent EXCEPT !.frames = << << >> >>, !.st = "Ready"] \in MachineTask
    BY <1>1, AbsentType DEF MachineTask, States
<1>4. TypeOK
    <2>1. task \in [TaskId -> MachineTask]
        BY <1>2, AbsentType DEF Init
    <2>2. reg \in [TaskId -> Register]
        BY NoRegType DEF Init
    <2>3. /\ nextTask \in TaskId /\ cursor \in TaskId
          /\ cleanup \in 0..CleanupLimit /\ active \in Int
        BY SMTT(60), BoundsAssumption DEF Init, TaskId
    <2>4. trace \in [TaskId -> {"new", "open", "closed", "twice"}]
        BY DEF Init
    <2>5. \A t \in TaskId : t > nextTask => task[t].st = "Absent"
        BY SMTT(60), AbsentType, BoundsAssumption DEF Init, TaskId
    <2> QED
        BY <2>1, <2>2, <2>3, <2>4, <2>5 DEF Init, TypeOK, Outcomes
<1>5. ErrorsAreWitnessed
    <2>1. 0 \in TaskId
        BY SMTT(60), BoundsAssumption DEF TaskId
    <2>2. task[0] = [Absent EXCEPT !.frames = << << >> >>, !.st = "Ready"]
        BY <2>1 DEF Init
    <2>3. task[0].st = "Ready" /\ task[0].frames = << << >> >>
        BY <2>2 DEF Absent
    <2>4. \A t \in TaskId \ {0} : task[t].st = "Absent"
        BY DEF Init, Absent
    <2> QED
        BY <1>1, <2>1, <2>3, <2>4 DEF Init, ErrorsAreWitnessed
<1>6. TerminalIsFinal
    BY DEF Init, TerminalIsFinal
<1> QED
    BY <1>4, <1>5, <1>6 DEF IInv

\* The table a failing visit or step leaves: a subset of the tasks is gone, one
\* task has failed with e, the others are as before.
LEMMA FailedTable ==
    ASSUME TypeOK, NEW w \in TaskId, NEW S, NEW e \in Errors
    PROVE  LET ts == Complete(Remove(task, S), w, "Err", 0, e)
           IN  /\ ts \in [TaskId -> MachineTask]
               /\ ts[w].st = "Err" /\ ts[w].err = e
               /\ \A u \in TaskId \ {w} : ts[u] = task[u] \/ ts[u].st = "Absent"
               /\ \A u \in (TaskId \cap S) \ {w} : ts[u].st = "Absent"
<1>1. 0 \in TaskId
    BY SMTT(60), BoundsAssumption DEF TaskId
<1>2. Remove(task, S) \in [TaskId -> MachineTask]
    BY RemoveType DEF TypeOK
<1>3. \A u \in TaskId : Remove(task, S)[u] = IF u \in S THEN Absent ELSE task[u]
    BY SMTT(60), RemoveType DEF TypeOK
<1>4. Absent.st = "Absent"
    BY DEF Absent
<1> QED
    BY SMTT(60), <1>1, <1>2, <1>3, <1>4, CompleteType

\* Dropping frames leaves registers.
LEMMA DropType ==
    ASSUME TypeOK, NEW S
    PROVE  DropFrames(reg, S) \in [TaskId -> Register]
BY NoRegType DEF TypeOK, DropFrames

\* Consuming handles leaves registers.
LEMMA ConsumeType ==
    ASSUME TypeOK, NEW S
    PROVE  Consume(reg, S) \in [TaskId -> Register]
BY NoRegType DEF TypeOK, Consume

\* Settling effects leaves a trace of each.
LEMMA SettleType ==
    ASSUME TypeOK, NEW S
    PROVE  Settle(trace, S) \in [TaskId -> {"new", "open", "closed", "twice"}]
BY DEF TypeOK, Settle

\* The fields of the table that the invariant speaks of.
Runnable == {"Ready", "WaitTask", "WaitScope", "WaitReturn"}

TableOK(ts, errors) ==
    /\ ts \in [TaskId -> MachineTask]
    /\ \A u \in TaskId : ts[u].st = "Err" => ts[u].err \in errors
    /\ \A u \in TaskId : ts[u].st \in Runnable => ts[u].frames # << >>

\* An instruction that succeeds and leaves failed tasks alone.
LEMMA StepOkInvariant ==
    ASSUME IInv, pc = "step", StepOk,
           TableOK(task', raised),
           \A u \in TaskId : task[u].st = "Err" => task'[u].st = "Err",
           \A u \in TaskId : u > nextTask' => task'[u].st = "Absent",
           reg' \in [TaskId -> Register], nextTask' \in TaskId,
           active' \in Int, inflight' \subseteq TaskId,
           trace' \in [TaskId -> {"new", "open", "closed", "twice"}]
    PROVE  IInv'
<1>1. TypeOK'
    <2>1. todo' \subseteq TaskId
        BY DEF StepOk, NextIteration, Waiters
    <2> QED
        BY <2>1 DEF IInv, TypeOK, StepOk, NextIteration, TableOK
<1>2. ErrorsAreWitnessed'
    BY DEF IInv, ErrorsAreWitnessed, StepOk, NextIteration, TableOK, Runnable
<1>3. TerminalIsFinal'
    BY DEF IInv, TerminalIsFinal, StepOk, NextIteration
<1> QED
    BY <1>1, <1>2, <1>3 DEF IInv

\* A visit of the wake pass that raises at most a trap, an invariant failure, a
\* cleanup overrun, an interruption, or an error that was raised before.
LEMMA VisitInvariant ==
    ASSUME IInv, NEW w \in TaskId, Visit(w),
           TableOK(task', raised'),
           \A u \in TaskId : task[u].st = "Absent" => task'[u].st = "Absent",
           raised \subseteq raised',
           raised' \subseteq raised \cup {"Trap", "Invariant", "CleanupLimit",
                                         "Cancelled", "Timeout"},
           raised' # {} => \E u \in TaskId : task'[u].st = "Err",
           reg' \in [TaskId -> Register], cleanup' \in 0..CleanupLimit,
           active' \in Int, inflight' \subseteq TaskId,
           trace' \in [TaskId -> {"new", "open", "closed", "twice"}]
    PROVE  IInv'
<1>1. TypeOK'
    <2>1. raised' \subseteq Errors
        BY BoundsAssumption DEF IInv, TypeOK, Errors, Terminal
    <2>2. todo' \subseteq TaskId
        BY DEF IInv, TypeOK, Visit
    <2> QED
        BY <2>1, <2>2 DEF IInv, TypeOK, Visit, TableOK
<1>2. ErrorsAreWitnessed'
    BY DEF IInv, ErrorsAreWitnessed, Visit, TableOK, Runnable
<1>3. TerminalIsFinal'
    <2>1. ~overrun /\ raised \cap {"Stopped", "ProgramFailed"} = {}
        BY DEF IInv, TerminalIsFinal, Visit
    <2>2. raised' \cap {"Stopped", "ProgramFailed"} = {}
        BY <2>1
    <2> QED
        BY <2>1, <2>2 DEF TerminalIsFinal, Visit
<1> QED
    BY <1>1, <1>2, <1>3 DEF IInv

\* The error branch of the loop keeps the invariant, for every error an
\* instruction can raise.
LEMMA StepFailsInvariant ==
    ASSUME IInv, NEW t \in TaskId, pc = "step", t = cursor,
           nextTask' \in {nextTask, nextTask + 1} \cap TaskId,
           NEW e \in {"Trap", "Invariant"} \cup Terminal,
           StepFails(t, e)
    PROVE  IInv'
<1>1. e \in Errors /\ 0 \in TaskId
    BY SMTT(60), BoundsAssumption DEF IInv, TypeOK, Errors, Terminal, TaskId
<1>2. todo' \subseteq TaskId /\ pc' = "wake" /\ todo' = Waiters(task')
    BY DEF StepFails, NextIteration, Waiters
<1>3. CASE e \in Terminal
    <2> DEFINE err == AfterCleanup(e)
    <2>1. err \in Errors /\ err \in {e, "CleanupLimit"} /\ (e = "Stopped" => err = "Stopped")
        BY <1>1 DEF AfterCleanup, Errors
    <2>2. /\ task' = Complete(Remove(task, TaskId \ {0}), 0, "Err", 0, err)
          /\ raised' = raised \cup {e, err}
          /\ CancelAll
          /\ trace' = Settle(trace, {0} \cup Cancelled(Live))
          /\ overrun' \in BOOLEAN
        BY <1>3 DEF StepFails
    <2> HIDE DEF err
    <2>3. /\ task' \in [TaskId -> MachineTask]
          /\ task'[0].st = "Err" /\ task'[0].err = err
          /\ \A u \in TaskId \ {0} : task'[u].st = "Absent"
        BY SMTT(60), <1>1, <2>1, <2>2, FailedTable DEF IInv
    <2>4. todo' = {}
        BY <1>2, <2>3 DEF Waiters, WaitKinds
    <2>5. TypeOK'
        <3>1. reg' \in [TaskId -> Register]
            BY <2>2, NoRegType DEF CancelAll
        <3>2. cleanup' \in 0..CleanupLimit
            <4>1. Live \ {0} \in SUBSET TaskId
                BY DEF Live
            <4> QED
                BY <2>2, <4>1, ChargeInRange DEF CancelAll, IInv, TypeOK
        <3>3. active' \in Int
            <4>1. OnEffect \in SUBSET TaskId
                BY DEF OnEffect
            <4>2. Cardinality(OnEffect) \in Nat
                BY <4>1 DEF IInv, Counting
            <4> QED
                BY SMTT(60), <2>2, <4>2 DEF CancelAll, IInv, TypeOK
        <3>4. inflight' \subseteq TaskId
            BY <2>2 DEF CancelAll
        <3>5. trace' \in [TaskId -> {"new", "open", "closed", "twice"}]
            BY <2>2, SettleType DEF IInv
        <3>6. raised' \subseteq Errors
            BY <1>1, <2>1, <2>2 DEF IInv, TypeOK
        <3>7. \A u \in TaskId : u > nextTask' => task'[u].st = "Absent"
            BY SMTT(60), <2>3, BoundsAssumption DEF TaskId
        <3> QED
            BY <1>2, <2>2, <2>3, <3>1, <3>2, <3>3, <3>4, <3>5, <3>6, <3>7
               DEF IInv, TypeOK, StepFails
    <2>6. ErrorsAreWitnessed'
        BY <1>1, <1>2, <2>2, <2>3 DEF ErrorsAreWitnessed, StepFails, IInv
    <2>7. TerminalIsFinal'
        <3>1. raised \cap {"Stopped", "ProgramFailed"} = {}
            BY DEF IInv, TerminalIsFinal
        <3>2. "Stopped" \in raised' => err = "Stopped"
            BY <2>1, <2>2, <3>1
        <3> QED
            BY <1>2, <2>3, <2>4, <3>2 DEF TerminalIsFinal, StepFails
    <2> QED
        BY <2>5, <2>6, <2>7 DEF IInv
<1>4. CASE e \notin Terminal
    <2> DEFINE below == IF t = 0 THEN {} ELSE Descendants(t)
               err == IF Overruns(below) THEN "CleanupLimit" ELSE e
    <2>1. err \in Errors /\ err \in {e, "CleanupLimit"}
        BY <1>1 DEF Errors
    <2>2. /\ task' = Complete(Remove(task, below), t, "Err", 0, err)
          /\ raised' = raised \cup {err}
          /\ CancelDescendants(below)
          /\ reg' = DropFrames(reg, below \cup {t})
          /\ trace' = Settle(trace, {t} \cup Cancelled(below))
          /\ overrun' = overrun
        BY <1>4 DEF StepFails
    <2>3. below \subseteq TaskId
        BY DescendantsAreTasks
    <2> HIDE DEF below, err
    <2>4. /\ task' \in [TaskId -> MachineTask]
          /\ task'[t].st = "Err" /\ task'[t].err = err
          /\ \A u \in TaskId \ {t} : task'[u] = task[u] \/ task'[u].st = "Absent"
        BY SMTT(60), <1>1, <2>1, <2>2, FailedTable DEF IInv
    <2>5. TypeOK'
        <3>1. cleanup' \in 0..CleanupLimit
            BY <2>2, <2>3, ChargeInRange DEF CancelDescendants, IInv, TypeOK
        <3>2. raised' \subseteq Errors
            BY <1>1, <2>1, <2>2 DEF IInv, TypeOK
        <3>3. /\ reg' \in [TaskId -> Register]
              /\ trace' \in [TaskId -> {"new", "open", "closed", "twice"}]
            BY <2>2, DropType, SettleType DEF IInv
        <3>4. \A u \in TaskId : u > nextTask' => task'[u].st = "Absent"
            <4>1. task[t].st = "Ready"
                BY DEF IInv, ErrorsAreWitnessed
            <4>2. \A u \in TaskId : u > nextTask' => u > nextTask
                BY SMTT(60), BoundsAssumption DEF IInv, TypeOK, TaskId
            <4>3. \A u \in TaskId : u > nextTask' => task[u].st = "Absent"
                BY <4>2 DEF IInv, TypeOK
            <4> QED
                BY <2>4, <4>1, <4>3
        <3> QED
            BY <1>2, <2>2, <2>4, <3>1, <3>2, <3>3, <3>4
               DEF IInv, TypeOK, StepFails, CancelDescendants
    <2>6. ErrorsAreWitnessed'
        BY <1>1, <1>2, <2>2, <2>4 DEF ErrorsAreWitnessed, StepFails, IInv
    <2>7. TerminalIsFinal'
        <3>1. raised \cap {"Stopped", "ProgramFailed"} = {} /\ ~overrun
            BY DEF IInv, TerminalIsFinal
        <3>2. raised' \cap {"Stopped", "ProgramFailed"} = {}
            BY <1>4, <2>1, <2>2, <3>1 DEF Terminal
        <3> QED
            BY <1>2, <2>2, <3>1, <3>2 DEF TerminalIsFinal, StepFails
    <2> QED
        BY <2>5, <2>6, <2>7 DEF IInv
<1> QED
    BY <1>3, <1>4

-----------------------------------------------------------------------------
(* Scopes and frames.                                                      *)

\* The depth of a task's frames and their type.
LEMMA DepthType ==
    ASSUME TypeOK, NEW t \in TaskId
    PROVE  /\ task[t] \in MachineTask /\ task[t].frames \in Seq(Seq(Lexicals))
           /\ Depth(t) \in 0..CallDepth
           /\ task[t].frames # << >> => Depth(t) \in 1..CallDepth /\ Scopes(t) \in Seq(Lexicals)
<1>1. task[t] \in MachineTask /\ task[t].frames \in Frames
    BY DEF TypeOK, MachineTask
<1>2. task[t].frames \in Seq(Seq(Lexicals)) /\ Len(task[t].frames) <= CallDepth
    BY <1>1 DEF Frames
<1>3. Depth(t) \in 0..CallDepth
    BY SMTT(60), <1>2, SeqLen, BoundsAssumption DEF Depth
<1>4. ASSUME task[t].frames # << >>
      PROVE  Depth(t) \in 1..CallDepth /\ Scopes(t) \in Seq(Lexicals)
    <2>1. Len(task[t].frames) # 0
        BY <1>2, <1>4, SeqEmpty
    <2>2. Depth(t) \in 1..Len(task[t].frames)
        BY SMTT(60), <1>2, <2>1, SeqLen DEF Depth
    <2>3. Scopes(t) \in Seq(Lexicals)
        BY <1>2, <2>2, SeqElement DEF Scopes
    <2> QED
        BY SMTT(60), <1>3, <2>1, <2>3, BoundsAssumption DEF Depth
<1> QED
    BY <1>1, <1>2, <1>3, <1>4

\* The innermost scope of a frame.
LEMMA TopScopeType ==
    ASSUME NEW d \in 0..CallDepth, NEW scopes \in Seq(Lexicals)
    PROVE  TopScope(d, scopes) \in ScopeKey \cup {NoScope}
<1>1. CASE d = 0 \/ scopes = << >>
    BY <1>1 DEF TopScope
<1>2. CASE d # 0 /\ scopes # << >>
    <2>1. Len(scopes) \in 1..Len(scopes)
        BY SMTT(60), <1>2, SeqEmpty, SeqLen
    <2>2. scopes[Len(scopes)] \in Lexicals
        BY <2>1, SeqElement
    <2>3. d \in 1..CallDepth
        BY SMTT(60), <1>2, BoundsAssumption
    <2> QED
        BY <1>2, <2>2, <2>3 DEF TopScope, ScopeKey
<1> QED
    BY <1>1, <1>2

\* The scope and the origin a task is in.
LEMMA CurrentScopeType ==
    ASSUME TypeOK, NEW t \in TaskId
    PROVE  /\ CurrentScope(t) \in ScopeKey \cup {NoScope}
           /\ task[t].frames # << >> => CurrentOrigin(t) \in Lexicals \cup {0}
<1>1. CASE task[t].frames = << >>
    <2>1. Depth(t) = 0
        BY <1>1, SeqEmpty DEF Depth
    <2> QED
        BY <1>1, <2>1 DEF CurrentScope
<1>2. CASE task[t].frames # << >>
    <2>1. Depth(t) \in 0..CallDepth /\ Scopes(t) \in Seq(Lexicals)
        BY <1>2, DepthType
    <2>2. CurrentScope(t) \in ScopeKey \cup {NoScope}
        BY <2>1, TopScopeType DEF CurrentScope
    <2>3. ASSUME Scopes(t) # << >>
          PROVE  Scopes(t)[Len(Scopes(t))] \in Lexicals
        <3>1. Len(Scopes(t)) \in 1..Len(Scopes(t))
            BY SMTT(60), <2>1, <2>3, SeqEmpty, SeqLen
        <3> QED
            BY <2>1, <3>1, SeqElement
    <2> QED
        BY <2>2, <2>3 DEF CurrentOrigin
<1> QED
    BY <1>1, <1>2

\* Dropping the last frame of several leaves at least one.
LEMMA PopFrame ==
    ASSUME NEW f \in Frames, NEW n \in 1..(Len(f) - 1)
    PROVE  SubSeq(f, 1, n) \in Frames /\ SubSeq(f, 1, n) # << >>
<1>1. f \in Seq(Seq(Lexicals)) /\ Len(f) \in Nat /\ Len(f) <= CallDepth
    BY SeqLen DEF Frames
<1>2. SubSeq(f, 1, n) \in Seq(Seq(Lexicals)) /\ Len(SubSeq(f, 1, n)) = n
    <2>1. 1 \in 1..Len(f)+1 /\ n \in 1-1..Len(f)
        BY SMTT(60), <1>1
    <2>2. \A i \in 1..n : f[i] \in Seq(Lexicals)
        BY SMTT(60), <1>1, <2>1, SeqElement
    <2> QED
        BY SMTT(60), <1>1, <2>1, <2>2, SeqPart
<1>3. n \in Nat /\ n # 0 /\ n <= CallDepth
    BY SMTT(60), <1>1, BoundsAssumption
<1>4. SubSeq(f, 1, n) # << >>
    BY <1>2, <1>3
<1>5. SubSeq(f, 1, n) \in Frames
    BY <1>2, <1>3 DEF Frames
<1> QED
    BY <1>4, <1>5

\* The table after a frame has returned a plain value.
LEMMA ReturnPlainTable ==
    ASSUME NEW ts \in [TaskId -> MachineTask], NEW t \in TaskId,
           ts[t].frames # << >>
    PROVE  LET rs == ReturnPlain(ts, t)
           IN  /\ rs \in [TaskId -> MachineTask]
               /\ rs[t].st # "Err"
               /\ rs[t].st \in Runnable => rs[t].frames # << >>
               /\ \A u \in TaskId \ {t} : rs[u] = ts[u]
<1> DEFINE f == ts[t].frames
           r == [ts[t] EXCEPT !.st = "Ready", !.join = NoScope,
                              !.frames = SubSeq(@, 1, Len(@) - 1)]
<1>1. ts[t] \in MachineTask /\ f \in Frames /\ Len(f) \in Nat
    <2>1. ts[t] \in MachineTask /\ f \in Frames
        BY DEF MachineTask
    <2> QED
        BY <2>1, SeqLen DEF Frames
<1>2. CASE Len(f) > 1
    <2>1. SubSeq(f, 1, Len(f) - 1) \in Frames /\ SubSeq(f, 1, Len(f) - 1) # << >>
        <3>1. Len(f) - 1 \in 1..(Len(f) - 1)
            BY SMTT(60), <1>1, <1>2
        <3> HIDE DEF f
        <3> QED
            BY <1>1, <3>1, PopFrame
    <2> DEFINE g == SubSeq(f, 1, Len(f) - 1)
    <2>2. r = [ts[t] EXCEPT !.st = "Ready", !.join = NoScope, !.frames = g]
        BY <1>1 DEF MachineTask
    <2> HIDE DEF g
    <2>3. r \in MachineTask /\ r.st = "Ready" /\ r.frames = g
        BY <1>1, <2>1, <2>2 DEF MachineTask, States, g
    <2>4. ReturnPlain(ts, t) = [ts EXCEPT ![t] = r]
        BY <1>1, <1>2 DEF ReturnPlain, MachineTask
    <2> HIDE DEF r
    <2> QED
        BY <2>1, <2>3, <2>4 DEF g
<1>3. CASE ~(Len(f) > 1)
    <2>1. ReturnPlain(ts, t) = Complete(ts, t, "Ok", 0, "none")
        BY <1>3 DEF ReturnPlain
    <2>2. 0 \in TaskId
        BY SMTT(60), BoundsAssumption DEF TaskId
    <2> QED
        BY SMTT(60), <2>1, <2>2, CompleteType DEF Runnable
<1> QED
    BY <1>2, <1>3

-----------------------------------------------------------------------------
(* The wake pass keeps the invariant.                                      *)

\* A visit that fails its waiter.
LEMMA WaiterFailsInvariant ==
    ASSUME IInv, NEW w \in TaskId, Visit(w), task[w].st # "Absent", NEW S,
           NEW e \in raised \cup {"Trap", "Invariant", "CleanupLimit", "Cancelled", "Timeout"},
           WaiterFails(w, S, e),
           cleanup' \in 0..CleanupLimit, active' \in Int, inflight' \subseteq TaskId,
           trace' \in [TaskId -> {"new", "open", "closed", "twice"}]
    PROVE  IInv'
<1>1. e \in Errors
    BY BoundsAssumption DEF IInv, TypeOK, Errors, Terminal
<1>2. /\ task' \in [TaskId -> MachineTask]
      /\ task'[w].st = "Err" /\ task'[w].err = e
      /\ \A u \in TaskId \ {w} : task'[u] = task[u] \/ task'[u].st = "Absent"
    BY SMTT(60), <1>1, FailedTable DEF IInv, WaiterFails
<1>3. raised' = raised \cup {e} /\ reg' \in [TaskId -> Register]
    BY DropType DEF WaiterFails, IInv
<1>4. TableOK(task', raised')
    BY <1>2, <1>3 DEF TableOK, Runnable, IInv, ErrorsAreWitnessed
<1> QED
    BY <1>2, <1>3, <1>4, VisitInvariant

\* A visit that fails nobody and drops no failed task.
LEMMA QuietVisitInvariant ==
    ASSUME IInv, NEW w \in TaskId, Visit(w), raised' = raised,
           task' \in [TaskId -> MachineTask],
           \A u \in TaskId : task[u].st = "Err" => task'[u].st = "Err",
           \A u \in TaskId : task[u].st = "Absent" => task'[u].st = "Absent",
           \A u \in TaskId : \/ task'[u].st \notin {"Err"} \cup Runnable
                             \/ /\ task'[u].st = task[u].st
                                /\ task'[u].err = task[u].err
                                /\ task'[u].frames = task[u].frames
                             \/ task'[u].st # "Err" /\ task'[u].frames # << >>,
           reg' \in [TaskId -> Register], cleanup' = cleanup,
           active' \in Int, inflight' \subseteq TaskId,
           trace' \in [TaskId -> {"new", "open", "closed", "twice"}]
    PROVE  IInv'
<1>1. TableOK(task', raised')
    BY DEF TableOK, Runnable, IInv, ErrorsAreWitnessed
<1>2. raised' # {} => \E u \in TaskId : task'[u].st = "Err"
    BY DEF IInv, ErrorsAreWitnessed, Visit
<1>3. cleanup' \in 0..CleanupLimit
    BY DEF IInv, TypeOK
<1> QED
    BY <1>1, <1>2, <1>3, VisitInvariant

\* The wake pass passes over a task that is gone or ready.
LEMMA WakeGoneInvariant ==
    ASSUME IInv, NEW w \in TaskId, WakeGone(w)
    PROVE  IInv'
<1>1. Visit(w) /\ UNCHANGED <<task, reg, cleanup, active, inflight, trace, raised>>
    BY DEF WakeGone
<1> QED
    BY <1>1, QuietVisitInvariant DEF IInv, TypeOK

\* The wake pass visits a task that waits for an effect.
LEMMA WakeEffectInvariant ==
    ASSUME IInv, NEW w \in TaskId, WakeEffect(w)
    PROVE  IInv'
<1>1. Visit(w) /\ task[w].st = "WaitEffect" /\ cleanup' = cleanup
    BY DEF WakeEffect
<1>2. TypeOK /\ 0 \in TaskId
    BY SMTT(60), BoundsAssumption DEF IInv, TaskId
<1>3. CASE UNCHANGED <<task, reg, active, inflight, trace, raised>>
    BY <1>1, <1>2, <1>3, QuietVisitInvariant DEF TypeOK
<1>4. CASE active' = active - 1 /\ inflight' = inflight \ {w}
    <2>1. active' \in Int /\ inflight' \subseteq TaskId
        BY SMTT(60), <1>2, <1>4 DEF TypeOK
    <2>2. CASE /\ Depth(w) = 0
               /\ task' = Complete(task, w, "Ok", 0, "none")
               /\ trace' = Settle(trace, {w})
               /\ UNCHANGED <<reg, raised>>
        <3>1. /\ task' \in [TaskId -> MachineTask]
              /\ task'[w].st = "Ok"
              /\ \A u \in TaskId \ {w} : task'[u] = task[u]
            BY SMTT(60), <1>2, <2>2, CompleteType DEF TypeOK
        <3>2. /\ reg' \in [TaskId -> Register]
              /\ trace' \in [TaskId -> {"new", "open", "closed", "twice"}]
            BY <1>2, <2>2, SettleType DEF TypeOK
        <3> QED
            BY <1>1, <2>1, <2>2, <3>1, <3>2, QuietVisitInvariant DEF Runnable
    <2>3. CASE /\ Depth(w) # 0
               /\ task' = [task EXCEPT ![w].st = "Ready"]
               /\ UNCHANGED <<trace, reg, raised>>
        <3>1. task[w].frames # << >>
            BY <2>3, SeqEmpty DEF Depth
        <3>2. [task[w] EXCEPT !.st = "Ready"] \in MachineTask
            <4>1. task[w] \in MachineTask
                BY <1>2 DEF TypeOK
            <4> QED
                BY <4>1 DEF MachineTask, States
        <3>3. /\ task' \in [TaskId -> MachineTask]
              /\ task'[w].st = "Ready" /\ task'[w].frames = task[w].frames
              /\ \A u \in TaskId \ {w} : task'[u] = task[u]
            <4>1. task[w] \in MachineTask /\ task \in [TaskId -> MachineTask]
                BY <1>2 DEF TypeOK
            <4> QED
                BY <2>3, <3>2, <4>1 DEF MachineTask
        <3> QED
            BY <1>1, <1>2, <2>1, <2>3, <3>1, <3>3, QuietVisitInvariant DEF TypeOK
    <2>4. CASE /\ \E e \in ProviderErrors \cup ({interrupt} \ {"none"}) :
                      WaiterFails(w, {}, e)
               /\ trace' = Settle(trace, {w})
        <3>1. PICK e \in {"Trap", "Cancelled", "Timeout"} : WaiterFails(w, {}, e)
            BY <1>2, <2>4, BoundsAssumption DEF TypeOK
        <3>2. /\ trace' \in [TaskId -> {"new", "open", "closed", "twice"}]
              /\ cleanup' \in 0..CleanupLimit
            BY <1>1, <1>2, <2>4, SettleType DEF TypeOK
        <3> QED
            BY <1>1, <2>1, <3>1, <3>2, WaiterFailsInvariant
    <2> QED
        BY <1>1, <1>3, <1>4, <2>2, <2>3, <2>4 DEF WakeEffect
<1> QED
    BY <1>3, <1>4 DEF WakeEffect

\* The wake pass visits a task that waits for another.
LEMMA WakeTaskInvariant ==
    ASSUME IInv, NEW w \in TaskId, WakeTask(w)
    PROVE  IInv'
<1> DEFINE h == task[w].handle
           v == task[h].handle
<1>1. /\ Visit(w) /\ task[w].st = "WaitTask"
      /\ UNCHANGED <<cleanup, active, inflight>>
    BY DEF WakeTask
<1>2. /\ TypeOK /\ task \in [TaskId -> MachineTask]
      /\ active' \in Int /\ inflight' \subseteq TaskId /\ cleanup' \in 0..CleanupLimit
    BY <1>1 DEF IInv, TypeOK
<1>3. h \in TaskId /\ v \in TaskId
    BY <1>2 DEF MachineTask
<1>4. task[w].frames # << >>
    BY <1>1 DEF IInv, ErrorsAreWitnessed
<1>5. /\ Settle(trace, {w}) \in [TaskId -> {"new", "open", "closed", "twice"}]
      /\ trace \in [TaskId -> {"new", "open", "closed", "twice"}]
      /\ reg \in [TaskId -> Register]
    BY <1>2, SettleType DEF TypeOK
<1>6. CASE UNCHANGED <<task, reg, trace, raised>>
    BY <1>1, <1>2, <1>5, <1>6, QuietVisitInvariant
<1>7. CASE /\ task[h].st = "Err"
           /\ WaiterFails(w, {h}, task[h].err)
           /\ trace' = Settle(trace, {w})
    <2>1. task[h].err \in raised
        BY <1>3, <1>7 DEF IInv, ErrorsAreWitnessed
    <2> QED
        BY <1>1, <1>2, <1>5, <1>7, <2>1, WaiterFailsInvariant
<1>8. CASE WaiterFails(w, {h}, "Invariant") /\ trace' = Settle(trace, {w})
    BY <1>1, <1>2, <1>5, <1>8, WaiterFailsInvariant
<1> DEFINE ts == Remove(task, {h})
           rw == [task[w] EXCEPT !.st = "Ready", !.handle = 0]
<1>9. /\ ts \in [TaskId -> MachineTask]
      /\ ts[h].st = "Absent"
      /\ \A u \in TaskId \ {h} : ts[u] = task[u]
    BY SMTT(60), <1>2, <1>3, RemoveType, AbsentType
<1>10. /\ rw \in MachineTask /\ rw.st = "Ready" /\ rw.frames = task[w].frames
    <2>1. task[w] \in MachineTask /\ 0 \in TaskId
        BY SMTT(60), <1>2, BoundsAssumption DEF TaskId
    <2> QED
        BY <2>1 DEF MachineTask, States
<1>11. task[h].st = "Ok" => h # w
    BY <1>1
<1>12. CASE /\ task[h].st = "Ok"
            /\ task' = [ts EXCEPT ![w].st = "Ready", ![w].handle = 0]
            /\ UNCHANGED <<reg, trace, raised>>
    <2>1. task' = [ts EXCEPT ![w] = rw]
        BY <1>9, <1>11, <1>12
    <2> HIDE DEF ts, rw
    <2>2. /\ task' \in [TaskId -> MachineTask]
          /\ task'[w] = rw
          /\ \A u \in TaskId \ {w} : task'[u] = ts[u]
        BY <1>9, <1>10, <2>1
    <2> QED
        BY SMTT(60), <1>1, <1>2, <1>4, <1>5, <1>9, <1>10, <1>12, <2>2, QuietVisitInvariant
           DEF Runnable
<1>13. CASE /\ task[h].st = "Ok"
            /\ v # 0 /\ v \in Live /\ task[v].owner = h
            /\ task' = [ts EXCEPT
                           ![w].st = "Ready", ![w].handle = 0,
                           ![v].owner = w, ![v].scope = CurrentScope(w)]
            /\ reg' = [reg EXCEPT ![v] = [task |-> w, depth |-> Depth(w),
                                          origin |-> CurrentOrigin(w)]]
            /\ UNCHANGED <<trace, raised>>
    <2> DEFINE ms == [ts EXCEPT ![w].st = "Ready", ![w].handle = 0]
               rv == [ms[v] EXCEPT !.owner = w, !.scope = CurrentScope(w)]
    <2>1. ms = [ts EXCEPT ![w] = rw]
        BY <1>9, <1>11, <1>13
    <2>2. /\ ms \in [TaskId -> MachineTask] /\ ms[w] = rw
          /\ \A u \in TaskId \ {w} : ms[u] = ts[u]
        <3> HIDE DEF ms, ts, rw
        <3> QED
            BY <1>9, <1>10, <2>1
    <2>3. /\ rv \in MachineTask /\ rv.st = ms[v].st
          /\ rv.err = ms[v].err /\ rv.frames = ms[v].frames
        <3>1. ms[v] \in MachineTask
            BY <1>3, <2>2
        <3>2. CurrentScope(w) \in ScopeKey \cup {NoScope}
            BY <1>2, CurrentScopeType
        <3> HIDE DEF ms, ts, rw
        <3> QED
            BY <3>1, <3>2 DEF MachineTask
    <2>4. task' = [ms EXCEPT ![v] = rv]
        <3>1. task' = [ms EXCEPT ![v].owner = w, ![v].scope = CurrentScope(w)]
            BY <1>13
        <3> HIDE DEF ms, ts, rw
        <3> QED
            BY <1>3, <2>2, <3>1
    <2>5. [task |-> w, depth |-> Depth(w), origin |-> CurrentOrigin(w)] \in Register
        BY SMTT(60), <1>2, <1>4, DepthType, CurrentScopeType, BoundsAssumption DEF Register
    <2>6. reg' \in [TaskId -> Register]
        BY <1>5, <1>13, <2>5
    <2> HIDE DEF ms, ts, rw, rv
    <2>7. /\ task' \in [TaskId -> MachineTask] /\ task'[v] = rv
          /\ \A u \in TaskId \ {v} : task'[u] = ms[u]
        BY <1>3, <2>2, <2>3, <2>4
    <2>8. \A u \in TaskId : task'[u].st = ms[u].st /\ task'[u].frames = ms[u].frames
                            /\ task'[u].err = ms[u].err
        BY <2>3, <2>7
    <2>9. \A u \in TaskId : task[u].st = "Err" => task'[u].st = "Err"
        <3>1. task[h].st = "Ok"
            BY <1>13
        <3> HIDE DEF h, v
        <3> QED
            BY <1>1, <1>9, <2>2, <2>8, <3>1
    <2>10. \A u \in TaskId : \/ task'[u].st \notin {"Err"} \cup Runnable
                             \/ /\ task'[u].st = task[u].st
                                /\ task'[u].err = task[u].err
                                /\ task'[u].frames = task[u].frames
                             \/ task'[u].st # "Err" /\ task'[u].frames # << >>
        <3> SUFFICES ASSUME NEW u \in TaskId
                     PROVE  \/ task'[u].st \notin {"Err"} \cup Runnable
                            \/ /\ task'[u].st = task[u].st
                               /\ task'[u].err = task[u].err
                               /\ task'[u].frames = task[u].frames
                            \/ task'[u].st # "Err" /\ task'[u].frames # << >>
            OBVIOUS
        <3>1. CASE u = w
            BY <1>4, <1>10, <2>2, <2>8, <3>1
        <3>2. CASE u = h /\ u # w
            BY <1>9, <2>2, <2>8, <3>2 DEF Runnable
        <3>3. CASE u # h /\ u # w
            BY <1>9, <2>2, <2>8, <3>3
        <3> QED
            BY <3>1, <3>2, <3>3
    <2>11. \A u \in TaskId : task[u].st = "Absent" => task'[u].st = "Absent"
        BY SMTT(60), <1>1, <1>9, <2>2, <2>8
    <2> QED
        BY <1>1, <1>2, <1>5, <1>13, <2>6, <2>7, <2>9, <2>10, <2>11, QuietVisitInvariant
<1> QED
    BY <1>6, <1>7, <1>8, <1>12, <1>13 DEF WakeTask

\* A visit that removes tasks that did not fail and gives the waiter a new
\* record that has not failed and keeps its frames.
LEMMA JoinVisitInvariant ==
    ASSUME IInv, NEW w \in TaskId, Visit(w), task[w].st \notin {"Err", "Absent"},
           task[w].frames # << >>,
           NEW S, \A u \in TaskId \cap S : task[u].st # "Err",
           NEW r \in MachineTask, r.st # "Err", r.frames = task[w].frames,
           task' = [Remove(task, S) EXCEPT ![w] = r],
           UNCHANGED <<reg, cleanup, active, inflight, trace, raised>>
    PROVE  IInv'
<1>1. /\ Remove(task, S) \in [TaskId -> MachineTask]
      /\ \A u \in TaskId : Remove(task, S)[u] = IF u \in S THEN Absent ELSE task[u]
    BY SMTT(60), RemoveType DEF IInv, TypeOK
<1>2. /\ task' \in [TaskId -> MachineTask] /\ task'[w] = r
      /\ \A u \in TaskId \ {w} : task'[u] = IF u \in S THEN Absent ELSE task[u]
    BY <1>1
<1>3. \A u \in TaskId : task[u].st = "Err" => task'[u].st = "Err"
    BY <1>2
<1>4. Absent.st = "Absent"
    BY AbsentType
<1>5. /\ reg' \in [TaskId -> Register] /\ active' \in Int /\ inflight' \subseteq TaskId
      /\ trace' \in [TaskId -> {"new", "open", "closed", "twice"}]
    BY DEF IInv, TypeOK
<1>6. \A u \in TaskId : \/ task'[u].st \notin {"Err"} \cup Runnable
                        \/ /\ task'[u].st = task[u].st
                           /\ task'[u].err = task[u].err
                           /\ task'[u].frames = task[u].frames
                        \/ task'[u].st # "Err" /\ task'[u].frames # << >>
    BY <1>2, <1>4 DEF Runnable
<1>7. \A u \in TaskId : task[u].st = "Absent" => task'[u].st = "Absent"
    BY <1>2, <1>4
<1> QED
    BY <1>2, <1>3, <1>5, <1>6, <1>7, QuietVisitInvariant

\* The wake pass visits a task that waits to leave a scope.
LEMMA WakeScopeInvariant ==
    ASSUME IInv, NEW w \in TaskId, WakeScope(w)
    PROVE  IInv'
<1> DEFINE children == ScopeChildren(task, w, task[w].join)
           halts    == {c \in children : task[c].st # "Ok"}
           joined   == {c \in children : \A x \in halts : c < x}
           leaks    == \E c \in joined : task[c].handle # 0
           stop     == Min(halts)
           later    == {c \in children : c > stop}
           trees    == later \cup UNION {Descendants(c) : c \in later}
<1>1. /\ Visit(w) /\ task[w].st = "WaitScope"
      /\ UNCHANGED <<active, inflight>>
    BY DEF WakeScope
<1>2. /\ TypeOK /\ task \in [TaskId -> MachineTask]
      /\ active' \in Int /\ inflight' \subseteq TaskId
      /\ cleanup \in 0..CleanupLimit
      /\ trace \in [TaskId -> {"new", "open", "closed", "twice"}]
      /\ reg \in [TaskId -> Register]
    BY <1>1 DEF IInv, TypeOK
<1>3. task[w].frames # << >>
    BY <1>1 DEF IInv, ErrorsAreWitnessed
<1>4. children \subseteq TaskId
    BY DEF ScopeChildren
<1>5. trees \subseteq TaskId
    BY <1>4, DescendantsAreTasks
<1>6. \A S : Settle(trace, S) \in [TaskId -> {"new", "open", "closed", "twice"}]
    BY <1>2, SettleType
<1>7. \A u \in TaskId \cap joined : task[u].st # "Err"
    <2> SUFFICES ASSUME NEW u \in TaskId, u \in joined, task[u].st = "Err"
                 PROVE  FALSE
        OBVIOUS
    <2>1. u \in halts
        OBVIOUS
    <2>2. u < u /\ u \in Nat
        BY SMTT(60), <2>1, BoundsAssumption DEF TaskId
    <2> QED
        BY SMTT(60), <2>2
<1>8. CASE /\ task' = Remove(task, joined)
           /\ UNCHANGED <<reg, cleanup, trace, raised>>
    <2> HIDE DEF joined
    <2>1. task' \in [TaskId -> MachineTask] /\ Absent.st = "Absent"
          /\ \A u \in TaskId : task'[u] = IF u \in joined THEN Absent ELSE task[u]
        BY SMTT(60), <1>2, <1>8, RemoveType, AbsentType
    <2>2. \A u \in TaskId : task[u].st = "Err" => task'[u].st = "Err"
        BY <1>7, <2>1
    <2>3. \A u \in TaskId : \/ task'[u].st \notin {"Err"} \cup Runnable
                            \/ /\ task'[u].st = task[u].st
                               /\ task'[u].err = task[u].err
                               /\ task'[u].frames = task[u].frames
                            \/ task'[u].st # "Err" /\ task'[u].frames # << >>
        BY <2>1 DEF Runnable
    <2> QED
        BY <1>1, <1>2, <1>8, <2>1, <2>2, <2>3, QuietVisitInvariant
<1>9. CASE /\ halts # {}
           /\ Finished(stop)
           /\ WaiterFails(w, joined \cup {stop} \cup trees,
                          IF Overruns(trees) THEN "CleanupLimit" ELSE task[stop].err)
           /\ cleanup' = ChargeCleanup(trees)
           /\ trace' = Settle(trace, {w} \cup Cancelled(trees))
    <2> DEFINE e == IF Overruns(trees) THEN "CleanupLimit" ELSE task[stop].err
    <2>1. halts \in SUBSET TaskId
        BY <1>4
    <2>2. stop \in halts
        <3> HIDE DEF halts
        <3> QED
            BY <1>9, <2>1 DEF IInv, Counting
    <2>3. stop \in TaskId /\ task[stop].st = "Err"
        BY <1>9, <2>1, <2>2 DEF Finished
    <2>4. task[stop].err \in raised
        BY <2>3 DEF IInv, ErrorsAreWitnessed
    <2>5. cleanup' \in 0..CleanupLimit
        BY <1>2, <1>5, <1>9, ChargeInRange DEF IInv
    <2>6. e \in raised \cup {"Trap", "Invariant", "CleanupLimit"}
        BY <2>4
    <2>7. /\ WaiterFails(w, joined \cup {stop} \cup trees, e)
          /\ trace' \in [TaskId -> {"new", "open", "closed", "twice"}]
        BY <1>6, <1>9
    <2> HIDE DEF e, joined, stop, trees
    <2> QED
        BY <1>1, <1>2, <2>5, <2>6, <2>7, WaiterFailsInvariant
<1>10. CASE /\ WaiterFails(w, joined, "Invariant")
            /\ trace' = Settle(trace, {w})
            /\ UNCHANGED cleanup
    <2> HIDE DEF joined
    <2> QED
        BY <1>1, <1>2, <1>6, <1>10, WaiterFailsInvariant
<1>11. CASE /\ halts = {}
            /\ task' = [Remove(task, joined) EXCEPT ![w].st = "Ready", ![w].join = NoScope]
            /\ UNCHANGED <<reg, trace, raised, cleanup>>
    <2> DEFINE r == [task[w] EXCEPT !.st = "Ready", !.join = NoScope]
    <2>1. w \notin joined
        BY <1>1, <1>11
    <2>2. /\ r \in MachineTask /\ r.st = "Ready" /\ r.frames = task[w].frames
        <3>1. task[w] \in MachineTask
            BY <1>2
        <3> QED
            BY <3>1 DEF MachineTask, States
    <2> HIDE DEF joined
    <2>3. task' = [Remove(task, joined) EXCEPT ![w] = r]
        <3>1. Remove(task, joined)[w] = task[w]
            BY SMTT(60), <1>2, <2>1, RemoveType
        <3>2. Remove(task, joined) \in [TaskId -> MachineTask]
            BY <1>2, RemoveType
        <3> QED
            BY <1>11, <3>1, <3>2
    <2> HIDE DEF r
    <2> QED
        BY <1>1, <1>3, <1>7, <1>11, <2>2, <2>3, JoinVisitInvariant
<1> HIDE DEF halts, joined, stop, trees, leaks
<1> QED
    BY <1>1, <1>8, <1>9, <1>10, <1>11
       DEF WakeScope, halts, joined, stop, trees, leaks

\* The wake pass visits a task that waits to return.
LEMMA WakeReturnInvariant ==
    ASSUME IInv, NEW w \in TaskId, WakeReturn(w)
    PROVE  IInv'
<1> DEFINE children == ScopeChildren(task, w, task[w].join)
           failed   == FailuresIn(children)
<1>1. /\ Visit(w) /\ task[w].st = "WaitReturn"
      /\ UNCHANGED <<cleanup, active, inflight>>
    BY DEF WakeReturn
<1>2. /\ TypeOK /\ task \in [TaskId -> MachineTask]
      /\ active' \in Int /\ inflight' \subseteq TaskId
      /\ cleanup' \in 0..CleanupLimit
      /\ trace \in [TaskId -> {"new", "open", "closed", "twice"}]
      /\ reg \in [TaskId -> Register]
    BY <1>1 DEF IInv, TypeOK
<1>3. task[w].frames # << >>
    BY <1>1 DEF IInv, ErrorsAreWitnessed
<1>4. children \subseteq TaskId
    BY DEF ScopeChildren
<1>5. \A S : Settle(trace, S) \in [TaskId -> {"new", "open", "closed", "twice"}]
    BY <1>2, SettleType
<1>6. CASE UNCHANGED <<task, reg, trace, raised>>
    BY <1>1, <1>2, <1>6, QuietVisitInvariant
<1>7. CASE /\ failed # {}
           /\ WaiterFails(w, children, task[Min(failed)].err)
           /\ trace' = Settle(trace, {w})
    <2>1. failed \in SUBSET TaskId
        BY <1>4 DEF FailuresIn
    <2>2. Min(failed) \in failed
        BY <1>7, <2>1 DEF IInv, Counting
    <2>3. task[Min(failed)].err \in raised
        BY <1>4, <2>2 DEF FailuresIn, IInv, ErrorsAreWitnessed
    <2> HIDE DEF children, failed
    <2> QED
        BY <1>1, <1>2, <1>5, <1>7, <2>3, WaiterFailsInvariant
<1>8. (AllJoined(children) /\ failed = {}) =>
          w \notin children /\ \A u \in TaskId \cap children : task[u].st # "Err"
    BY <1>1 DEF AllJoined, Finished, FailuresIn
<1> HIDE DEF children, failed
<1>9. /\ Remove(task, children) \in [TaskId -> MachineTask]
      /\ \A u \in TaskId : Remove(task, children)[u]
                           = IF u \in children THEN Absent ELSE task[u]
    BY <1>2, RemoveType
<1>10. CASE /\ AllJoined(children) /\ failed = {}
            /\ task' = [Remove(task, children) EXCEPT ![w].join = CurrentScope(w)]
            /\ UNCHANGED <<reg, trace, raised>>
    <2> DEFINE r == [task[w] EXCEPT !.join = CurrentScope(w)]
    <2>1. /\ r \in MachineTask /\ r.st = task[w].st /\ r.frames = task[w].frames
        <3>1. task[w] \in MachineTask /\ CurrentScope(w) \in ScopeKey \cup {NoScope}
            BY <1>2, CurrentScopeType
        <3> QED
            BY <3>1 DEF MachineTask
    <2>2. task' = [Remove(task, children) EXCEPT ![w] = r]
        BY <1>8, <1>9, <1>10
    <2>3. /\ r.st # "Err" /\ task[w].st # "Err"
          /\ UNCHANGED <<reg, cleanup, active, inflight, trace, raised>>
          /\ \A u \in TaskId \cap children : task[u].st # "Err"
        BY <1>1, <1>8, <1>10, <2>1
    <2> HIDE DEF r
    <2> QED
        BY <1>1, <1>3, <2>1, <2>2, <2>3, JoinVisitInvariant
<1>11. CASE /\ AllJoined(children) /\ failed = {}
            /\ task' = ReturnPlain(Remove(task, children), w)
            /\ trace' = IF Depth(w) > 1 THEN trace ELSE Settle(trace, {w})
            /\ UNCHANGED <<reg, raised>>
    <2>1. Remove(task, children)[w] = task[w]
        BY <1>8, <1>9, <1>11
    <2>2. /\ task' \in [TaskId -> MachineTask]
          /\ task'[w].st # "Err"
          /\ task'[w].st \in Runnable => task'[w].frames # << >>
          /\ \A u \in TaskId \ {w} : task'[u] = Remove(task, children)[u]
        BY <1>3, <1>9, <1>11, <2>1, ReturnPlainTable
    <2>3. Absent.st = "Absent"
        BY AbsentType
    <2>4. \A u \in TaskId : task[u].st = "Err" => task'[u].st = "Err"
        BY <1>1, <1>8, <1>9, <1>11, <2>2
    <2>5. \A u \in TaskId : \/ task'[u].st \notin {"Err"} \cup Runnable
                            \/ /\ task'[u].st = task[u].st
                               /\ task'[u].err = task[u].err
                               /\ task'[u].frames = task[u].frames
                            \/ task'[u].st # "Err" /\ task'[u].frames # << >>
        BY <1>9, <2>2, <2>3 DEF Runnable
    <2>6. trace' \in [TaskId -> {"new", "open", "closed", "twice"}]
        BY <1>2, <1>5, <1>11
    <2>7. \A u \in TaskId : task[u].st = "Absent" => task'[u].st = "Absent"
        BY <1>1, <1>9, <2>2, <2>3
    <2> QED
        BY <1>1, <1>2, <1>11, <2>2, <2>4, <2>5, <2>6, <2>7, QuietVisitInvariant
<1> QED
    BY <1>6, <1>7, <1>10, <1>11 DEF WakeReturn, children, failed

-----------------------------------------------------------------------------
(* The instructions keep the invariant.                                    *)

\* The scheduled task is ready and has a frame.
LEMMA SteppingTask ==
    ASSUME IInv, NEW t \in TaskId, pc = "step", t = cursor
    PROVE  /\ TypeOK /\ task \in [TaskId -> MachineTask]
           /\ task[t] \in MachineTask /\ task[t].frames \in Frames
           /\ task[t].st = "Ready" /\ task[t].frames # << >>
           /\ Depth(t) \in 1..CallDepth /\ Depth(t) = Len(task[t].frames)
           /\ Scopes(t) \in Seq(Lexicals)
           /\ CurrentScope(t) \in ScopeKey \cup {NoScope}
           /\ CurrentOrigin(t) \in Lexicals \cup {0}
           /\ \A S : Settle(trace, S) \in [TaskId -> {"new", "open", "closed", "twice"}]
           /\ \A S : Consume(reg, S) \in [TaskId -> Register]
<1>1. TypeOK /\ task \in [TaskId -> MachineTask] /\ task[t] \in MachineTask
    BY DEF IInv, TypeOK
<1>2. task[t].frames \in Frames
    BY <1>1 DEF MachineTask
<1>3. task[t].st = "Ready" /\ task[t].frames # << >>
    BY DEF IInv, ErrorsAreWitnessed
<1> QED
    BY <1>1, <1>2, <1>3, DepthType, CurrentScopeType, SettleType, ConsumeType DEF Depth

\* An instruction that only rewrites the record of the task that runs it.
LEMMA OwnUpdateInvariant ==
    ASSUME IInv, NEW t \in TaskId, pc = "step", StepOk,
           NEW r \in MachineTask, r.st # "Err",
           r.st \in Runnable => r.frames # << >>,
           task' = [task EXCEPT ![t] = r], task[t].st \notin {"Err", "Absent"},
           reg' \in [TaskId -> Register], nextTask' = nextTask,
           active' \in Int, inflight' \subseteq TaskId,
           trace' \in [TaskId -> {"new", "open", "closed", "twice"}]
    PROVE  IInv'
<1>1. task \in [TaskId -> MachineTask] /\ nextTask' \in TaskId
    BY DEF IInv, TypeOK
<1>2. task' \in [TaskId -> MachineTask] /\ task'[t] = r
      /\ \A u \in TaskId \ {t} : task'[u] = task[u]
    BY <1>1
<1>3. TableOK(task', raised)
    BY <1>2 DEF TableOK, Runnable, IInv, ErrorsAreWitnessed
<1>4. \A u \in TaskId : task[u].st = "Err" => task'[u].st = "Err"
    BY <1>2
<1>5. \A u \in TaskId : u > nextTask' => task'[u].st = "Absent"
    BY <1>2 DEF IInv, TypeOK
<1> QED
    BY <1>1, <1>3, <1>4, <1>5, StepOkInvariant

\* An ordinary instruction changes nothing the machine keeps.
LEMMA ComputeInvariant ==
    ASSUME IInv, NEW t \in TaskId, Interrupted(t) \/ Compute(t) \/ Fault(t)
    PROVE  IInv'
<1>1. CASE Interrupted(t)
    <2>1. interrupt \in Terminal
        BY <1>1, BoundsAssumption DEF Interrupted, IInv, TypeOK, Terminal
    <2> QED
        BY <1>1, <2>1, StepFailsInvariant DEF Interrupted, IInv, TypeOK
<1>2. CASE Compute(t)
    <2>1. /\ pc = "step" /\ StepOk
          /\ UNCHANGED <<task, reg, nextTask, active, inflight, trace>>
        BY <1>2 DEF Compute, Steps
    <2>2. TableOK(task', raised)
        BY <2>1 DEF TableOK, Runnable, IInv, TypeOK, ErrorsAreWitnessed
    <2> QED
        BY <2>1, <2>2, StepOkInvariant DEF IInv, TypeOK
<1>3. CASE Fault(t)
    <2>1. PICK e \in Faults : StepFails(t, e)
        BY <1>3 DEF Fault
    <2>2. e \in {"Trap", "Invariant"} \cup Terminal
        BY BoundsAssumption DEF Terminal
    <2>3. pc = "step" /\ t = cursor /\ nextTask' = nextTask /\ nextTask \in TaskId
        BY <1>3 DEF Fault, Steps, IInv, TypeOK
    <2> QED
        BY <2>1, <2>2, <2>3, StepFailsInvariant
<1> QED
    BY <1>1, <1>2, <1>3

\* A call pushes a frame, or fails at the depth limit.
LEMMA CallInvariant ==
    ASSUME IInv, NEW t \in TaskId, NEW args, Call(t, args)
    PROVE  IInv'
<1>1. pc = "step" /\ t = cursor /\ nextTask' = nextTask /\ nextTask' \in TaskId
    BY DEF Call, Steps, IInv, TypeOK
<1>2. CASE Depth(t) + 1 > CallDepth
    BY <1>1, <1>2, StepFailsInvariant DEF Call
<1>3. CASE ~(Depth(t) + 1 > CallDepth)
    <2> DEFINE f == Append(task[t].frames, << >>)
               r == [task[t] EXCEPT !.frames = f]
    <2>1. /\ task[t] \in MachineTask /\ task \in [TaskId -> MachineTask]
          /\ task[t].frames \in Seq(Seq(Lexicals)) /\ Len(task[t].frames) \in Nat
          /\ Len(task[t].frames) = Depth(t) /\ Depth(t) \in Nat
          /\ task[t].st = "Ready" /\ TypeOK
        BY <1>1, SteppingTask, SeqLen DEF Frames
    <2>2. f \in Frames /\ f # << >>
        <3>1. << >> \in Seq(Lexicals)
            BY SeqEmpty
        <3>2. f \in Seq(Seq(Lexicals)) /\ Len(f) = Len(task[t].frames) + 1
            BY SMTT(60), <2>1, <3>1, SeqAppend
        <3>3. Len(f) <= CallDepth /\ Len(f) # 0
            BY SMTT(60), <1>3, <2>1, <3>2, BoundsAssumption
        <3> HIDE DEF f
        <3> QED
            BY SMTT(60), <3>2, <3>3 DEF Frames
    <2> HIDE DEF f
    <2>3. r \in MachineTask /\ r.st = "Ready" /\ r.frames = f
        BY <2>1, <2>2 DEF MachineTask
    <2>4. /\ task' = [task EXCEPT ![t] = r]
          /\ UNCHANGED <<active, inflight, trace>> /\ StepOk
        BY <1>3, <2>1 DEF Call, f
    <2>5. reg' \in [TaskId -> Register]
        <3>1. reg' = [h \in TaskId |->
                          IF h \in args
                          THEN [task |-> t, depth |-> Depth(t) + 1, origin |-> 0]
                          ELSE reg[h]]
            BY <1>3 DEF Call
        <3>2. [task |-> t, depth |-> Depth(t) + 1, origin |-> 0] \in Register
            BY SMTT(60), <2>1 DEF Register
        <3> QED
            BY <2>1, <3>1, <3>2 DEF TypeOK
    <2> HIDE DEF r
    <2>6. /\ active' \in Int /\ inflight' \subseteq TaskId
          /\ trace' \in [TaskId -> {"new", "open", "closed", "twice"}]
        BY <2>1, <2>4 DEF TypeOK
    <2> QED
        BY <1>1, <2>1, <2>2, <2>3, <2>4, <2>5, <2>6, OwnUpdateInvariant
<1> QED
    BY <1>2, <1>3

\* The entry of a spawned task.
LEMMA NewTaskType ==
    ASSUME IInv, NEW t \in TaskId, pc = "step", t = cursor,
           NEW f \in Frames, NEW y \in BOOLEAN, NEW st \in {"Ready", "Ok", "WaitEffect"}
    PROVE  /\ NewTask(t, f, y, st) \in MachineTask
           /\ NewTask(t, f, y, st).st = st
           /\ NewTask(t, f, y, st).frames = f
<1>1. CurrentScope(t) \in ScopeKey \cup {NoScope}
    BY SteppingTask
<1>2. st \in States
    BY DEF States, WaitKinds
<1> QED
    BY <1>1, <1>2, AbsentType DEF NewTask, MachineTask

\* The register entry of a handle the stepping task makes.
LEMMA NewRegisterType ==
    ASSUME IInv, NEW t \in TaskId, pc = "step", t = cursor
    PROVE  [task |-> t, depth |-> Depth(t), origin |-> CurrentOrigin(t)] \in Register
<1>1. Depth(t) \in 1..CallDepth /\ CurrentOrigin(t) \in Lexicals \cup {0}
    BY SteppingTask
<1>2. Depth(t) \in Nat
    BY SMTT(60), <1>1, BoundsAssumption
<1> QED
    BY <1>1, <1>2 DEF Register

\* An id is new exactly while it is above next_task.
LEMMA NextIdType ==
    ASSUME IInv, nextTask < MaxTask
    PROVE  nextTask + 1 \in TaskId
BY SMTT(60), BoundsAssumption DEF IInv, TypeOK, TaskId

\* An instruction that inserts a task under a new id and changes no state,
\* error or frame of another one.
LEMMA SpawnInvariant ==
    ASSUME IInv, NEW t \in TaskId, pc = "step", StepOk, nextTask < MaxTask,
           nextTask' = nextTask + 1, task' \in [TaskId -> MachineTask],
           NEW f, task'[nextTask + 1].frames = f,
           task'[nextTask + 1].st \in {"Ready", "Ok", "WaitEffect"},
           task'[nextTask + 1].st = "Ready" => f # << >>,
           \A u \in TaskId \ {nextTask + 1} :
               /\ task'[u].st = task[u].st /\ task'[u].err = task[u].err
               /\ task'[u].frames = task[u].frames,
           reg' \in [TaskId -> Register],
           active' \in Int, inflight' \subseteq TaskId,
           trace' \in [TaskId -> {"new", "open", "closed", "twice"}]
    PROVE  IInv'
<1>1. /\ nextTask' \in TaskId /\ nextTask \in Nat
      /\ task[nextTask + 1].st = "Absent"
    BY SMTT(60), NextIdType, BoundsAssumption DEF IInv, TypeOK, TaskId
<1>2. TableOK(task', raised)
    BY DEF TableOK, Runnable, IInv, ErrorsAreWitnessed
<1>3. \A u \in TaskId : task[u].st = "Err" => task'[u].st = "Err"
    BY <1>1
<1>4. \A u \in TaskId : u > nextTask' => u > nextTask /\ u # nextTask + 1
    BY SMTT(60), <1>1, BoundsAssumption DEF TaskId
<1>5. \A u \in TaskId : u > nextTask' => task'[u].st = "Absent"
    BY <1>4 DEF IInv, TypeOK
<1> QED
    BY <1>1, <1>2, <1>3, <1>5, StepOkInvariant

\* A function task is spawned with the next id.
LEMMA SpawnFunctionInvariant ==
    ASSUME IInv, NEW t \in TaskId, NEW args, NEW y \in BOOLEAN,
           SpawnFunction(t, args, y)
    PROVE  IInv'
<1> DEFINE id == nextTask + 1
<1>1. pc = "step" /\ t = cursor /\ nextTask < MaxTask /\ nextTask \in TaskId
    BY DEF SpawnFunction, Steps, IInv, TypeOK
<1>2. id \in TaskId
    BY <1>1, NextIdType
<1>3. CASE TasksExhausted \/ ~Transferable(t, args)
    <2>1. PICK e \in {"Trap", "Invariant"} : StepFails(t, e) /\ nextTask' = nextTask
        BY <1>3 DEF SpawnFunction
    <2> QED
        BY <1>1, <2>1, StepFailsInvariant
<1>4. CASE ~(TasksExhausted \/ ~Transferable(t, args))
    <2> DEFINE new == NewTask(t, << << >> >>, y, "Ready")
    <2>1. << << >> >> \in Frames /\ << << >> >> # << >>
        <3>1. << >> \in Seq(Lexicals)
            BY SeqEmpty
        <3> QED
            BY SMTT(60), <3>1, BoundsAssumption DEF Frames
    <2>2. new \in MachineTask /\ new.st = "Ready" /\ new.frames = << << >> >>
        <3> DEFINE first == << << >> >>
        <3>1. first \in Frames
            BY <2>1
        <3> HIDE DEF first
        <3>2. /\ NewTask(t, first, y, "Ready") \in MachineTask
              /\ NewTask(t, first, y, "Ready").st = "Ready"
              /\ NewTask(t, first, y, "Ready").frames = first
            BY SMTT(60), <1>1, <3>1, NewTaskType
        <3> QED
            BY <3>2 DEF first
    <2>3. task' = [h \in TaskId |->
                      IF h = id THEN new
                      ELSE IF h \in args THEN [task[h] EXCEPT !.owner = id]
                      ELSE task[h]]
        BY <1>4 DEF SpawnFunction
    <2>4. \A h \in TaskId : /\ [task[h] EXCEPT !.owner = id] \in MachineTask
                            /\ [task[h] EXCEPT !.owner = id].st = task[h].st
                            /\ [task[h] EXCEPT !.owner = id].err = task[h].err
                            /\ [task[h] EXCEPT !.owner = id].frames = task[h].frames
        <3> TAKE h \in TaskId
        <3>1. task[h] \in MachineTask
            BY DEF IInv, TypeOK
        <3> HIDE DEF id
        <3> QED
            BY <1>2, <3>1 DEF MachineTask
    <2> HIDE DEF new
    <2>5. /\ task' \in [TaskId -> MachineTask] /\ task'[id] = new
          /\ \A u \in TaskId \ {id} :
                 /\ task'[u].st = task[u].st /\ task'[u].err = task[u].err
                 /\ task'[u].frames = task[u].frames
        BY <1>2, <2>2, <2>3, <2>4 DEF IInv, TypeOK
    <2>6. reg' \in [TaskId -> Register]
        <3>1. [task |-> t, depth |-> Depth(t), origin |-> CurrentOrigin(t)] \in Register
            BY <1>1, NewRegisterType
        <3>2. [task |-> id, depth |-> 1, origin |-> 0] \in Register
            BY <1>2 DEF Register
        <3>3. reg \in [TaskId -> Register]
            BY DEF IInv, TypeOK
        <3>4. reg' = [h \in TaskId |->
                         IF h = id THEN [task |-> t, depth |-> Depth(t),
                                         origin |-> CurrentOrigin(t)]
                         ELSE IF h \in args THEN [task |-> id, depth |-> 1, origin |-> 0]
                         ELSE reg[h]]
            BY <1>4 DEF SpawnFunction
        <3> QED
            BY <3>1, <3>2, <3>3, <3>4
    <2>7. /\ nextTask' = id /\ StepOk
          /\ UNCHANGED <<active, inflight>>
          /\ trace' = [trace EXCEPT ![id] = "open"]
        BY <1>4 DEF SpawnFunction
    <2>8. /\ active' \in Int /\ inflight' \subseteq TaskId
          /\ trace' \in [TaskId -> {"new", "open", "closed", "twice"}]
        BY <2>7 DEF IInv, TypeOK
    <2> QED
        BY <1>1, <2>1, <2>2, <2>5, <2>6, <2>7, <2>8, SpawnInvariant
<1> QED
    BY <1>3, <1>4

\* An effect task is spawned and its effect started.
LEMMA SpawnEffectInvariant ==
    ASSUME IInv, NEW t \in TaskId, SpawnEffect(t)
    PROVE  IInv'
<1> DEFINE id == nextTask + 1
<1>1. /\ pc = "step" /\ t = cursor /\ nextTask < MaxTask
      /\ nextTask \in TaskId /\ TypeOK
    BY DEF SpawnEffect, Steps, IInv, TypeOK
<1>2. id \in TaskId
    BY <1>1, NextIdType
<1>3. ASSUME NEW e \in {"Trap"} \cup ProviderErrors, StepFails(t, e),
             nextTask' \in {nextTask, id}
      PROVE  IInv'
    <2>1. e \in {"Trap", "Invariant"} \cup Terminal
        BY <1>3, BoundsAssumption DEF Terminal
    <2> QED
        BY <1>1, <1>2, <1>3, <2>1, StepFailsInvariant
<1>4. ASSUME NEW st \in {"Ok", "WaitEffect"}, NEW ev \in {"open", "closed"},
             nextTask' = id, StepOk,
             task' = [task EXCEPT ![id] = NewTask(t, << >>, FALSE, st)],
             reg' = [reg EXCEPT ![id] = [task |-> t, depth |-> Depth(t),
                                         origin |-> CurrentOrigin(t)]],
             trace' = [trace EXCEPT ![id] = ev],
             active' \in Int, inflight' \subseteq TaskId
      PROVE  IInv'
    <2> DEFINE new == NewTask(t, << >>, FALSE, st)
    <2>1. << >> \in Frames
        BY SMTT(60), SeqEmpty, BoundsAssumption DEF Frames
    <2>2. new \in MachineTask /\ new.st = st /\ new.frames = << >>
        <3>1. CurrentScope(t) \in ScopeKey \cup {NoScope}
            BY <1>1, SteppingTask
        <3>2. st \in States
            BY <1>4 DEF States, WaitKinds
        <3> QED
            BY <2>1, <3>1, <3>2, AbsentType DEF NewTask, MachineTask
    <2>3. task' = [task EXCEPT ![id] = new]
        BY <1>4
    <2> HIDE DEF new
    <2>4. /\ task' \in [TaskId -> MachineTask] /\ task'[id] = new
          /\ \A u \in TaskId \ {id} : task'[u] = task[u]
        BY <1>1, <1>2, <2>2, <2>3 DEF TypeOK
    <2>5. reg' \in [TaskId -> Register]
        <3>1. [task |-> t, depth |-> Depth(t), origin |-> CurrentOrigin(t)] \in Register
            BY <1>1, NewRegisterType
        <3> QED
            BY <1>1, <1>2, <1>4, <3>1 DEF TypeOK
    <2>6. trace' \in [TaskId -> {"new", "open", "closed", "twice"}]
        BY <1>1, <1>4 DEF TypeOK
    <2> QED
        BY <1>1, <1>4, <2>2, <2>4, <2>5, <2>6, SpawnInvariant
<1>5. active \in Int /\ active + 1 \in Int /\ inflight \subseteq TaskId
      /\ inflight \cup {id} \subseteq TaskId
    BY SMTT(60), <1>1, <1>2 DEF TypeOK
<1> QED
    BY <1>3, <1>4, <1>5 DEF SpawnEffect, Refusals

\* Waiting, with the same frames.
LEMMA WaitingRecord ==
    ASSUME IInv, NEW t \in TaskId, pc = "step", t = cursor,
           NEW st \in {"WaitEffect", "WaitTask"}, NEW h \in TaskId
    PROVE  LET r == [task[t] EXCEPT !.st = st, !.handle = h]
           IN  r \in MachineTask /\ r.st = st /\ r.frames = task[t].frames
<1>1. task[t] \in MachineTask
    BY SteppingTask
<1>2. st \in States
    BY DEF States, WaitKinds
<1> QED
    BY <1>1, <1>2 DEF MachineTask

\* A task awaits an effect of its own.
LEMMA AwaitEffectInvariant ==
    ASSUME IInv, NEW t \in TaskId, AwaitEffect(t)
    PROVE  IInv'
<1>1. /\ pc = "step" /\ t = cursor /\ nextTask' = nextTask
      /\ nextTask \in TaskId /\ TypeOK
    BY DEF AwaitEffect, Steps, IInv, TypeOK
<1>2. ASSUME NEW e \in {"Trap"} \cup ProviderErrors, StepFails(t, e)
      PROVE  IInv'
    <2>1. e \in {"Trap", "Invariant"} \cup Terminal
        BY <1>2, BoundsAssumption DEF Terminal
    <2> QED
        BY <1>1, <1>2, <2>1, StepFailsInvariant
<1>3. CASE /\ task' = [task EXCEPT ![t].st = "WaitEffect"]
           /\ active' = active + 1
           /\ inflight' = inflight \cup {t}
           /\ UNCHANGED <<reg, trace>>
           /\ StepOk
    <2> DEFINE r == [task[t] EXCEPT !.st = "WaitEffect"]
    <2>1. task' = [task EXCEPT ![t] = r]
        BY <1>1, <1>3 DEF TypeOK
    <2>2. r \in MachineTask /\ r.st = "WaitEffect"
        <3>1. task[t] \in MachineTask
            BY <1>1 DEF TypeOK
        <3> QED
            BY <3>1 DEF MachineTask, States, WaitKinds
    <2>3. task[t].st = "Ready"
        BY <1>1, SteppingTask
    <2> HIDE DEF r
    <2>4. /\ active' \in Int /\ inflight' \subseteq TaskId
          /\ reg' \in [TaskId -> Register]
          /\ trace' \in [TaskId -> {"new", "open", "closed", "twice"}]
        BY SMTT(60), <1>1, <1>3 DEF TypeOK
    <2> QED
        BY <1>1, <1>3, <2>1, <2>2, <2>3, <2>4, OwnUpdateInvariant DEF Runnable
<1> QED
    BY <1>2, <1>3 DEF AwaitEffect, Refusals

\* A task awaits a task it owns.
LEMMA AwaitTaskInvariant ==
    ASSUME IInv, NEW t \in TaskId, NEW h \in TaskId, AwaitTask(t, h)
    PROVE  IInv'
<1>1. /\ pc = "step" /\ t = cursor /\ nextTask' = nextTask
      /\ nextTask \in TaskId /\ TypeOK
    BY DEF AwaitTask, Steps, IInv, TypeOK
<1>2. CASE StepFails(t, "Invariant")
    BY <1>1, <1>2, StepFailsInvariant
<1>3. CASE /\ task' = [task EXCEPT ![t].st = "WaitTask", ![t].handle = h]
           /\ reg' = Consume(reg, {h})
           /\ UNCHANGED <<active, inflight, trace>>
           /\ StepOk
    <2> DEFINE r == [task[t] EXCEPT !.st = "WaitTask", !.handle = h]
    <2>1. task' = [task EXCEPT ![t] = r]
        BY <1>1, <1>3 DEF TypeOK
    <2>2. r \in MachineTask /\ r.st = "WaitTask" /\ r.frames = task[t].frames
        BY <1>1, WaitingRecord
    <2>3. task[t].st = "Ready" /\ task[t].frames # << >>
        BY <1>1, SteppingTask
    <2> HIDE DEF r
    <2>4. /\ active' \in Int /\ inflight' \subseteq TaskId
          /\ reg' \in [TaskId -> Register]
          /\ trace' \in [TaskId -> {"new", "open", "closed", "twice"}]
        BY <1>1, <1>3, ConsumeType DEF TypeOK
    <2> QED
        BY <1>1, <1>3, <2>1, <2>2, <2>3, <2>4, OwnUpdateInvariant
<1> QED
    BY <1>2, <1>3 DEF AwaitTask

\* A frame stack whose last frame has been rewritten.
LEMMA FrameUpdate ==
    ASSUME IInv, NEW t \in TaskId, pc = "step", t = cursor,
           NEW g \in Seq(Lexicals)
    PROVE  LET f == [task[t].frames EXCEPT ![Depth(t)] = g]
           IN  f \in Frames /\ f # << >>
<1> DEFINE f == [task[t].frames EXCEPT ![Depth(t)] = g]
<1>1. /\ task[t].frames \in Seq(Seq(Lexicals)) /\ Len(task[t].frames) <= CallDepth
      /\ Depth(t) \in 1..Len(task[t].frames)
    <2>1. task[t].frames \in Frames /\ Depth(t) \in 1..CallDepth
          /\ Depth(t) = Len(task[t].frames)
        BY SteppingTask
    <2> QED
        BY SMTT(60), <2>1, BoundsAssumption DEF Frames
<1>2. f \in Seq(Seq(Lexicals)) /\ Len(f) = Len(task[t].frames)
    BY SMTT(60), <1>1, SeqExcept
<1>3. Len(f) # 0
    BY SMTT(60), <1>1, <1>2, SeqLen
<1> HIDE DEF f
<1>4. f \in Frames /\ f # << >>
    BY <1>1, <1>2, <1>3 DEF Frames
<1> QED
    BY <1>4 DEF f

\* A task scope is entered.
LEMMA ScopeEnterInvariant ==
    ASSUME IInv, NEW t \in TaskId, NEW lexical \in Lexicals, ScopeEnter(t, lexical)
    PROVE  IInv'
<1>1. /\ pc = "step" /\ t = cursor /\ nextTask' = nextTask /\ TypeOK
      /\ StepOk /\ UNCHANGED <<reg, active, inflight, trace>>
    BY DEF ScopeEnter, Steps, IInv
<1>2. /\ task[t] \in MachineTask /\ task[t].st = "Ready"
      /\ Scopes(t) \in Seq(Lexicals) /\ task \in [TaskId -> MachineTask]
    BY <1>1, SteppingTask
<1> DEFINE g == Append(Scopes(t), lexical)
           f == [task[t].frames EXCEPT ![Depth(t)] = g]
           r == [task[t] EXCEPT !.frames = f]
<1>3. g \in Seq(Lexicals)
    BY <1>2, SeqAppend
<1>4. f \in Frames /\ f # << >>
    <2> HIDE DEF g
    <2> QED
        BY <1>1, <1>3, FrameUpdate
<1>5. task' = [task EXCEPT ![t] = r]
    <2>1. task' = [task EXCEPT ![t].frames[Depth(t)] = Append(@, lexical)]
        BY DEF ScopeEnter
    <2> QED
        BY <1>2, <2>1 DEF Scopes
<1> HIDE DEF f, g
<1>6. r \in MachineTask /\ r.st = "Ready" /\ r.frames = f
    BY <1>2, <1>4 DEF MachineTask
<1> HIDE DEF r
<1>7. /\ active' \in Int /\ inflight' \subseteq TaskId
      /\ reg' \in [TaskId -> Register]
      /\ trace' \in [TaskId -> {"new", "open", "closed", "twice"}]
    BY <1>1 DEF TypeOK
<1> QED
    BY <1>1, <1>2, <1>4, <1>5, <1>6, <1>7, OwnUpdateInvariant

\* The record of a task whose innermost scope has been closed.
LEMMA PopScopeRecord ==
    ASSUME IInv, NEW t \in TaskId, pc = "step", t = cursor, Scopes(t) # << >>,
           NEW st \in {"WaitScope", "WaitReturn"}
    PROVE  \E r \in MachineTask : /\ PopScope(t, st) = [task EXCEPT ![t] = r]
                                  /\ r.st = st /\ r.frames # << >>
<1>1. /\ task[t] \in MachineTask /\ task \in [TaskId -> MachineTask]
      /\ Scopes(t) \in Seq(Lexicals)
      /\ CurrentScope(t) \in ScopeKey \cup {NoScope}
    BY SteppingTask
<1> DEFINE g == SubSeq(Scopes(t), 1, Len(Scopes(t)) - 1)
           f == [task[t].frames EXCEPT ![Depth(t)] = g]
           r == [task[t] EXCEPT !.st = st, !.join = CurrentScope(t), !.frames = f]
<1>2. g \in Seq(Lexicals)
    <2> DEFINE s == Scopes(t)
               n == Len(s) - 1
    <2>1. Len(s) \in Nat /\ Len(s) # 0
        BY <1>1, SeqEmpty, SeqLen
    <2>2. n \in Nat /\ 1 \in 1..Len(s)+1 /\ n \in 1-1..Len(s)
        BY SMTT(60), <2>1
    <2>3. \A i \in 1..n : s[i] \in Lexicals
        BY SMTT(60), <1>1, <2>1, <2>2, SeqElement
    <2> QED
        BY SMTT(60), <1>1, <2>2, <2>3, SeqPart
<1>3. f \in Frames /\ f # << >>
    <2> HIDE DEF g
    <2> QED
        BY <1>2, FrameUpdate
<1>4. PopScope(t, st) = [task EXCEPT ![t] = r]
    BY <1>1 DEF PopScope
<1>5. st \in States
    BY DEF States, WaitKinds
<1> HIDE DEF f, g
<1>6. r \in MachineTask /\ r.st = st /\ r.frames = f
    BY <1>1, <1>3, <1>5 DEF MachineTask
<1> HIDE DEF r
<1> QED
    BY <1>3, <1>4, <1>6

\* A task scope is left, or waits for its members.
LEMMA ScopeExitInvariant ==
    ASSUME IInv, NEW t \in TaskId, ScopeExit(t)
    PROVE  IInv'
<1>1. /\ pc = "step" /\ t = cursor /\ nextTask' = nextTask /\ TypeOK
      /\ Scopes(t) # << >> /\ task' = PopScope(t, "WaitScope")
      /\ StepOk /\ UNCHANGED <<active, inflight, trace>>
    BY DEF ScopeExit, Steps, IInv
<1>2. PICK r \in MachineTask : /\ task' = [task EXCEPT ![t] = r]
                               /\ r.st = "WaitScope" /\ r.frames # << >>
    BY <1>1, PopScopeRecord
<1>3. task[t].st = "Ready" /\ \A S : Consume(reg, S) \in [TaskId -> Register]
    BY <1>1, SteppingTask
<1>4. reg' \in [TaskId -> Register]
    BY <1>3 DEF ScopeExit
<1>5. /\ active' \in Int /\ inflight' \subseteq TaskId
      /\ trace' \in [TaskId -> {"new", "open", "closed", "twice"}]
    BY <1>1 DEF TypeOK
<1> QED
    BY <1>1, <1>2, <1>3, <1>4, <1>5, OwnUpdateInvariant

\* A return of a plain value, whatever it does with the registers.
LEMMA PlainReturnInvariant ==
    ASSUME IInv, NEW t \in TaskId, pc = "step", t = cursor, StepOk,
           task' = ReturnPlain(task, t),
           trace' = IF Depth(t) > 1 THEN trace ELSE Settle(trace, {t}),
           reg' \in [TaskId -> Register], UNCHANGED <<nextTask, active, inflight>>
    PROVE  IInv'
<1>1. /\ task \in [TaskId -> MachineTask] /\ TypeOK
      /\ task[t].frames # << >> /\ task[t].st = "Ready"
      /\ Settle(trace, {t}) \in [TaskId -> {"new", "open", "closed", "twice"}]
    BY SteppingTask
<1>2. /\ task' \in [TaskId -> MachineTask]
      /\ task'[t].st # "Err"
      /\ task'[t].st \in Runnable => task'[t].frames # << >>
      /\ \A u \in TaskId \ {t} : task'[u] = task[u]
    BY <1>1, ReturnPlainTable
<1>3. TableOK(task', raised)
    BY <1>2 DEF TableOK, Runnable, IInv, ErrorsAreWitnessed
<1>4. /\ active' \in Int /\ inflight' \subseteq TaskId /\ nextTask' \in TaskId
      /\ trace' \in [TaskId -> {"new", "open", "closed", "twice"}]
    BY <1>1 DEF TypeOK
<1>5. \A u \in TaskId : task[u].st = "Err" => task'[u].st = "Err"
    BY <1>1, <1>2
<1>6. t <= nextTask
    BY SMTT(60), <1>1, BoundsAssumption DEF TypeOK, TaskId
<1>7. \A u \in TaskId : u > nextTask' => task'[u].st = "Absent"
    BY <1>1, <1>2, <1>6 DEF TypeOK
<1> QED
    BY <1>3, <1>4, <1>5, <1>7, StepOkInvariant

\* A frame returns.
LEMMA ReturnInvariant ==
    ASSUME IInv, NEW t \in TaskId, TryReturn(t) \/ Return(t)
    PROVE  IInv'
<1>1. CASE Return(t)
    BY <1>1, PlainReturnInvariant DEF Return, Steps, IInv, TypeOK
<1>2. CASE TryReturn(t)
    <2>1. /\ pc = "step" /\ t = cursor /\ TypeOK /\ StepOk
          /\ UNCHANGED <<nextTask, active, inflight>>
          /\ reg' = Consume(reg, Held(t))
        BY <1>2 DEF TryReturn, Steps, IInv
    <2>2. reg' \in [TaskId -> Register] /\ task[t].st = "Ready"
        BY <2>1, SteppingTask
    <2>3. CASE Scopes(t) = << >>
        BY <1>2, <2>1, <2>2, <2>3, PlainReturnInvariant DEF TryReturn
    <2>4. CASE Scopes(t) # << >>
        <3>1. task' = PopScope(t, "WaitReturn") /\ trace' = trace
            BY <1>2, <2>4 DEF TryReturn
        <3>2. PICK r \in MachineTask : /\ task' = [task EXCEPT ![t] = r]
                                       /\ r.st = "WaitReturn" /\ r.frames # << >>
            BY <2>1, <2>4, <3>1, PopScopeRecord
        <3>3. /\ active' \in Int /\ inflight' \subseteq TaskId
              /\ trace' \in [TaskId -> {"new", "open", "closed", "twice"}]
            BY <2>1, <3>1 DEF TypeOK
        <3> QED
            BY <2>1, <2>2, <3>2, <3>3, OwnUpdateInvariant
    <2> QED
        BY <2>3, <2>4
<1> QED
    BY <1>1, <1>2

\* A frame returns a handle, which its caller then owns.
LEMMA ReturnTaskInvariant ==
    ASSUME IInv, NEW t \in TaskId, NEW h \in TaskId, ReturnTask(t, h)
    PROVE  IInv'
<1> DEFINE caller == Depth(t) - 1
           scopes == task[t].frames[caller]
           top    == TopScope(caller, scopes)
<1>1. pc = "step" /\ t = cursor /\ nextTask' = nextTask
    BY DEF ReturnTask, Steps
<1>2. /\ TypeOK /\ task \in [TaskId -> MachineTask] /\ task[t] \in MachineTask
      /\ task[t].st = "Ready" /\ task[t].frames # << >>
      /\ task[t].frames \in Frames /\ Depth(t) \in 1..CallDepth
      /\ Depth(t) = Len(task[t].frames) /\ caller \in Nat
      /\ Settle(trace, {t}) \in [TaskId -> {"new", "open", "closed", "twice"}]
      /\ Consume(reg, {h}) \in [TaskId -> Register]
    <2>1. /\ TypeOK /\ task \in [TaskId -> MachineTask] /\ task[t] \in MachineTask
          /\ task[t].st = "Ready" /\ task[t].frames # << >>
          /\ task[t].frames \in Frames /\ Depth(t) \in 1..CallDepth
          /\ Depth(t) = Len(task[t].frames)
        BY <1>1, SteppingTask
    <2>2. /\ Settle(trace, {t}) \in [TaskId -> {"new", "open", "closed", "twice"}]
          /\ Consume(reg, {h}) \in [TaskId -> Register]
        BY <2>1, SettleType, ConsumeType
    <2>3. caller \in Nat
        BY SMTT(60), <2>1, BoundsAssumption
    <2> QED
        BY <2>1, <2>2, <2>3
<1>3. nextTask \in TaskId /\ t <= nextTask
    BY SMTT(60), <1>2, BoundsAssumption DEF TypeOK, TaskId
<1>4. CASE caller = 0
    <2>1. /\ task' = Complete(task, t, "Ok", h, "none")
          /\ reg' = Consume(reg, {h})
          /\ trace' = Settle(trace, {t})
          /\ UNCHANGED <<active, inflight>>
          /\ StepOk
        BY <1>4 DEF ReturnTask
    <2>2. /\ task' \in [TaskId -> MachineTask] /\ task'[t].st = "Ok"
          /\ \A u \in TaskId \ {t} : task'[u] = task[u]
        <3>1. task \in [TaskId -> MachineTask] /\ task' = Complete(task, t, "Ok", h, "none")
            BY <1>2, <2>1
        <3> QED
            BY SMTT(60), <3>1, CompleteType
    <2>3. TableOK(task', raised)
        BY <2>2 DEF TableOK, Runnable, IInv, ErrorsAreWitnessed
    <2>4. \A u \in TaskId : task[u].st = "Err" => task'[u].st = "Err"
        BY <1>2, <2>2
    <2>5. \A u \in TaskId : u > nextTask' => task'[u].st = "Absent"
        BY <1>1, <1>2, <1>3, <2>2 DEF TypeOK
    <2>6. active' \in Int /\ inflight' \subseteq TaskId
        BY <1>2, <2>1 DEF TypeOK
    <2> QED
        BY <1>1, <1>2, <1>3, <2>1, <2>3, <2>4, <2>5, <2>6, StepOkInvariant
<1>5. CASE caller # 0 /\ Transferable(t, {h})
    <2> DEFINE f  == SubSeq(task[t].frames, 1, caller)
               rt == [task[t] EXCEPT !.frames = f]
               ms == [task EXCEPT ![t] = rt]
               rh == [ms[h] EXCEPT !.scope = top]
    <2>1. /\ task' = [task EXCEPT ![t].frames = SubSeq(@, 1, caller), ![h].scope = top]
          /\ reg' = [reg EXCEPT ![h].depth = caller, ![h].origin = top[2]]
          /\ UNCHANGED <<active, inflight, trace>>
          /\ StepOk
        BY <1>5 DEF ReturnTask
    <2>2. caller \in 1..(Len(task[t].frames) - 1) /\ caller \in 0..CallDepth
        <3>1. PICK d \in 1..CallDepth : d = Depth(t)
            BY <1>2
        <3>2. d - 1 # 0 /\ Len(task[t].frames) = d /\ caller = d - 1
            BY <1>2, <1>5, <3>1
        <3>3. d - 1 \in 1..(d - 1) /\ d - 1 \in 0..CallDepth
            BY SMTT(60), <3>2, BoundsAssumption
        <3> QED
            BY <3>2, <3>3
    <2>3. f \in Frames /\ f # << >>
        <3> HIDE DEF caller
        <3> QED
            BY <1>2, <2>2, PopFrame
    <2>4. top \in ScopeKey \cup {NoScope}
        <3>1. task[t].frames \in Seq(Seq(Lexicals)) /\ caller \in 1..Len(task[t].frames)
            <4>1. task[t].frames \in Seq(Seq(Lexicals))
                BY <1>2 DEF Frames
            <4>2. Len(task[t].frames) \in Nat
                BY <4>1, SeqLen
            <4> HIDE DEF caller
            <4>3. caller \in 1..Len(task[t].frames)
                BY SMTT(60), <2>2, <4>2
            <4> QED
                BY <4>1, <4>3
        <3>2. scopes \in Seq(Lexicals)
            BY <3>1, SeqElement
        <3> HIDE DEF caller, scopes
        <3> QED
            BY <2>2, <3>2, TopScopeType
    <2>5. top[2] \in Lexicals \cup {0}
        <3> HIDE DEF top
        <3> QED
            BY SMTT(60), <2>4 DEF ScopeKey, NoScope
    <2>6. task' = [ms EXCEPT ![h] = rh]
        <3> HIDE DEF top, caller
        <3> QED
            BY <1>2, <2>1
    <2> HIDE DEF f, top, caller
    <2>7. rt \in MachineTask /\ rt.st = "Ready" /\ rt.frames = f /\ rt.err = task[t].err
        BY <1>2, <2>3 DEF MachineTask
    <2> HIDE DEF rt
    <2>8. /\ ms \in [TaskId -> MachineTask] /\ ms[t] = rt
          /\ \A u \in TaskId \ {t} : ms[u] = task[u]
        BY <1>2, <2>7
    <2> HIDE DEF ms
    <2>9. /\ rh \in MachineTask /\ rh.st = ms[h].st /\ rh.frames = ms[h].frames
          /\ rh.err = ms[h].err
        <3>1. ms[h] \in MachineTask
            BY <2>8
        <3> QED
            BY <2>4, <3>1 DEF MachineTask
    <2> HIDE DEF rh
    <2>10. /\ task' \in [TaskId -> MachineTask]
           /\ \A u \in TaskId : /\ task'[u].st = ms[u].st /\ task'[u].err = ms[u].err
                                /\ task'[u].frames = ms[u].frames
        BY <2>6, <2>8, <2>9
    <2>11. TableOK(task', raised)
        <3>1. /\ \A u \in TaskId : task[u].st = "Err" => task[u].err \in raised
              /\ \A u \in TaskId : task[u].st \in Runnable => task[u].frames # << >>
            BY DEF IInv, ErrorsAreWitnessed, Runnable
        <3>2. \A u \in TaskId :
                 /\ task'[u].st = task[u].st /\ task'[u].err = task[u].err
                 /\ task[u].frames # << >> => task'[u].frames # << >>
            BY <1>2, <2>3, <2>7, <2>8, <2>10
        <3> QED
            BY <2>10, <3>1, <3>2 DEF TableOK
    <2>12. \A u \in TaskId : task'[u].st = task[u].st
        BY <1>2, <2>7, <2>8, <2>10
    <2>13. \A u \in TaskId : u > nextTask' => task'[u].st = "Absent"
        BY <1>1, <1>2, <2>12 DEF TypeOK
    <2>14. reg' \in [TaskId -> Register]
        <3>1. reg \in [TaskId -> Register] /\ reg[h] \in Register
            BY <1>2 DEF TypeOK
        <3>2. [reg[h] EXCEPT !.depth = caller, !.origin = top[2]] \in Register
            BY <1>2, <2>5, <3>1 DEF Register
        <3>3. reg' = [reg EXCEPT ![h] = [reg[h] EXCEPT !.depth = caller, !.origin = top[2]]]
            BY <2>1, <3>1
        <3> QED
            BY <3>1, <3>2, <3>3
    <2>15. /\ active' \in Int /\ inflight' \subseteq TaskId
           /\ trace' \in [TaskId -> {"new", "open", "closed", "twice"}]
        BY <1>2, <2>1 DEF TypeOK
    <2> QED
        BY <1>1, <1>3, <2>1, <2>11, <2>12, <2>13, <2>14, <2>15, StepOkInvariant
<1>6. CASE StepFails(t, "Invariant")
    BY <1>1, <1>3, <1>6, StepFailsInvariant
<1> QED
    BY <1>4, <1>5, <1>6 DEF ReturnTask

-----------------------------------------------------------------------------
(* Sets of tasks can be counted.                                          *)

\* The lowest id of a nonempty set of tasks is one of them.
LEMMA MinInSet ==
    ASSUME NEW S \in SUBSET TaskId, S # {}
    PROVE  Min(S) \in S
<1>1. TaskId \subseteq Nat
    BY SMTT(60), BoundsAssumption DEF TaskId
<1> DEFINE Below == {p \in Nat \X Nat : p[1] < p[2]}
<1>2. OpToRel(<, Nat) = Below
    BY DEF OpToRel
<1>3. IsWellFoundedOn(Below, Nat)
    BY <1>2, NatLessThanWellFounded
<1> HIDE DEF Below
<1>4. PICK x \in S : \A y \in S : ~(<<y, x>> \in Below)
    BY <1>1, <1>3, WFMin
<1>5. ASSUME NEW y \in S
      PROVE  x =< y
    <2>1. x \in Nat /\ y \in Nat
        BY <1>1
    <2>2. <<y, x>> \in Below <=> y < x
        BY <2>1 DEF Below
    <2> QED
        BY SMTT(60), <1>4, <2>1, <2>2
<1> QED
    BY <1>5 DEF Min

\* Sets of tasks are finite, so a cleanup charge is a number.
LEMMA TaskSetsFinite ==
    ASSUME NEW S \in SUBSET TaskId
    PROVE  IsFiniteSet(S) /\ Cardinality(S) \in Nat
<1>1. IsFiniteSet(TaskId)
    BY SMTT(60), FS_Interval, BoundsAssumption DEF TaskId
<1> QED
    BY <1>1, FS_Subset, FS_CardinalityType

\* The two facts about sets of tasks that the lemmas on steps assume.
LEMMA TasksCount == Counting
BY MinInSet, TaskSetsFinite DEF Counting

-----------------------------------------------------------------------------
(* The scheduler keeps the invariant, and the outcome is the right one.    *)

\* The scheduler takes the next ready task.
LEMMA ScheduleInvariant ==
    ASSUME IInv, Schedule
    PROVE  IInv'
<1>1. NextReady \in ReadyTasks
    <2>1. ReadyTasks \in SUBSET TaskId /\ {t \in ReadyTasks : t > cursor} \in SUBSET TaskId
        BY DEF ReadyTasks
    <2> QED
        BY <2>1 DEF IInv, Counting, NextReady, Schedule
<1>2. cursor' \in TaskId /\ task'[cursor'].st = "Ready"
    BY <1>1 DEF ReadyTasks, Schedule
<1>3. TypeOK'
    BY <1>2 DEF IInv, TypeOK, Schedule
<1>4. ErrorsAreWitnessed'
    BY <1>2 DEF IInv, ErrorsAreWitnessed, Schedule, PassDone
<1>5. TerminalIsFinal'
    BY DEF IInv, TerminalIsFinal, Schedule, PassDone
<1> QED
    BY <1>3, <1>4, <1>5 DEF IInv

\* The end of a run empties the table and states the outcome.
LEMMA FinishInvariant ==
    ASSUME IInv, NEW result \in Errors \cup {"LiveTasks", "NoReadyTask"},
           Finish(result)
    PROVE  IInv'
<1>1. /\ task' \in [TaskId -> MachineTask]
      /\ \A u \in TaskId : task'[u] = task[u] \/ task'[u].st = "Absent"
    BY SMTT(60), RemoveType, AbsentType DEF IInv, TypeOK, Finish
<1>2. TypeOK'
    <2>1. outcome' \in Outcomes
        BY DEF Finish, Outcomes, Errors
    <2>2. cleanup' \in 0..CleanupLimit
        <3>1. Live \ {0} \in SUBSET TaskId
            BY DEF Live
        <3> QED
            BY <3>1, ChargeInRange DEF Finish, CancelAll, IInv, TypeOK
    <2>3. active' \in Int
        <3>1. OnEffect \in SUBSET TaskId
            BY DEF OnEffect
        <3>2. Cardinality(OnEffect) \in Nat
            BY <3>1 DEF IInv, Counting
        <3> QED
            BY SMTT(60), <3>2 DEF Finish, CancelAll, IInv, TypeOK
    <2>4. /\ reg' \in [TaskId -> Register] /\ inflight' \subseteq TaskId
          /\ trace' \in [TaskId -> {"new", "open", "closed", "twice"}]
        BY NoRegType, SettleType DEF Finish, CancelAll, IInv
    <2>5. /\ nextTask' \in TaskId /\ cursor' \in TaskId /\ overrun' \in BOOLEAN
          /\ interrupt' \in Interrupts \cup {"none"} /\ pc' = "done"
          /\ todo' \subseteq TaskId /\ raised' \subseteq Errors
        BY DEF Finish, IInv, TypeOK
    <2>6. \A u \in TaskId : u > nextTask' => task'[u].st = "Absent"
        BY <1>1 DEF Finish, IInv, TypeOK
    <2> QED
        BY <1>1, <2>1, <2>2, <2>3, <2>4, <2>5, <2>6 DEF TypeOK
<1>3. ErrorsAreWitnessed'
    <2>1. outcome' # "none" /\ pc' = "done" /\ raised' = raised
        BY DEF Finish, Errors, Terminal
    <2> QED
        BY <1>1, <2>1 DEF IInv, ErrorsAreWitnessed
<1>4. TerminalIsFinal'
    BY DEF IInv, TerminalIsFinal, Finish
<1> QED
    BY <1>2, <1>3, <1>4 DEF IInv

\* The failure of the entry task is the outcome of the run.
LEMMA RootFailedInvariant ==
    ASSUME IInv, RootFailed
    PROVE  IInv' /\ FailureIsReported' /\ StopWins'
<1>1. task[0].err \in raised /\ task[0].err \in Errors
    BY SMTT(60), BoundsAssumption DEF RootFailed, IInv, ErrorsAreWitnessed, TypeOK, TaskId
<1>2. /\ Finish(task[0].err) /\ raised' = raised /\ pc = "wake"
      /\ outcome' = IF overrun' /\ task[0].err # "Stopped" THEN "CleanupLimit"
                    ELSE task[0].err
    BY DEF RootFailed, PassDone, Finish
<1>3. IInv'
    BY <1>1, <1>2, FinishInvariant
<1>4. FailureIsReported'
    BY <1>1, <1>2 DEF FailureIsReported, Errors, Terminal
<1>5. StopWins'
    BY <1>2 DEF StopWins, IInv, TerminalIsFinal
<1> QED
    BY <1>3, <1>4, <1>5

\* The three ways a run ends without a failed root.
LEMMA IdleInvariant ==
    ASSUME IInv, RootReturned \/ PollAgain \/ NoReadyTask
    PROVE  IInv' /\ FailureIsReported' /\ StopWins'
<1>1. pc = "wake" /\ todo = {} /\ task[0].st # "Err"
    BY DEF RootReturned, PollAgain, NoReadyTask, Idle, PassDone
<1>2. ~overrun /\ raised \cap {"Stopped", "ProgramFailed"} = {}
    BY <1>1 DEF IInv, TerminalIsFinal
<1>3. ASSUME NEW result \in {"LiveTasks", "NoReadyTask", interrupt} \ {"none"},
             Finish(result)
      PROVE  IInv' /\ FailureIsReported' /\ StopWins'
    <2>1. result \in Errors \cup {"LiveTasks", "NoReadyTask"}
        BY BoundsAssumption DEF IInv, TypeOK, Errors, Terminal
    <2>2. IInv'
        BY <1>3, <2>1, FinishInvariant
    <2>3. /\ raised' = raised /\ interrupt' = interrupt
          /\ outcome' = IF overrun' /\ result # "Stopped" THEN "CleanupLimit" ELSE result
        BY <1>3 DEF Finish
    <2>4. FailureIsReported'
        BY <1>3, <2>1, <2>3 DEF FailureIsReported, Errors, Terminal
    <2>5. StopWins'
        BY <1>2, <2>3 DEF StopWins
    <2> QED
        BY <2>2, <2>4, <2>5
<1>4. CASE /\ RootReturned /\ Live = {0} /\ task[0].st = "Ok"
           /\ outcome' = "Completed" /\ pc' = "done"
           /\ UNCHANGED <<task, reg, nextTask, cursor, cleanup, overrun, active,
                          inflight, interrupt, todo, trace, raised>>
    <2>1. \A u \in TaskId : task[u].st # "Err"
        BY <1>4 DEF Live
    <2>2. raised = {}
        BY <1>1, <2>1 DEF IInv, ErrorsAreWitnessed
    <2>3. TypeOK'
        BY <1>4 DEF IInv, TypeOK, Outcomes
    <2>4. ErrorsAreWitnessed'
        BY <1>4 DEF IInv, ErrorsAreWitnessed
    <2>5. TerminalIsFinal' /\ StopWins' /\ FailureIsReported'
        BY <1>2, <1>4, <2>2 DEF TerminalIsFinal, StopWins, FailureIsReported,
                                Errors, Terminal
    <2> QED
        BY <2>3, <2>4, <2>5 DEF IInv
<1>5. CASE /\ NextIteration
           /\ UNCHANGED <<task, reg, nextTask, cursor, cleanup, overrun, active,
                          inflight, interrupt, trace, raised, outcome>>
    <2>1. pc' = "wake" /\ todo' \subseteq TaskId
        BY <1>5 DEF NextIteration, Waiters
    <2>2. TypeOK'
        BY <1>5, <2>1 DEF IInv, TypeOK
    <2>3. ErrorsAreWitnessed'
        BY <1>1, <1>5, <2>1 DEF IInv, ErrorsAreWitnessed
    <2>4. TerminalIsFinal' /\ StopWins' /\ FailureIsReported'
        BY <1>1, <1>2, <1>5, <2>1
           DEF IInv, TerminalIsFinal, ErrorsAreWitnessed, StopWins,
               FailureIsReported, Errors, Terminal
    <2> QED
        BY <2>2, <2>3, <2>4 DEF IInv
<1> QED
    BY <1>3, <1>4, <1>5 DEF RootReturned, PollAgain, NoReadyTask

\* The outcome is set when the loop ends, and only then.
LEMMA RunningOutcome ==
    ASSUME ErrorsAreWitnessed, pc # "done"
    PROVE  FailureIsReported /\ StopWins
BY DEF ErrorsAreWitnessed, FailureIsReported, StopWins, Errors, Terminal

\* The actions of the loop that do not end the run.
LEMMA LoopInvariant ==
    ASSUME IInv, Wake \/ Step \/ Schedule
    PROVE  IInv' /\ pc' # "done"
<1>1. CASE Schedule
    BY <1>1, ScheduleInvariant DEF Schedule
<1>2. CASE Wake
    <2>1. PICK w \in TaskId : \/ WakeGone(w) \/ WakeEffect(w) \/ WakeTask(w)
                              \/ WakeScope(w) \/ WakeReturn(w)
        BY <1>2 DEF Wake
    <2>2. pc' = "wake"
        BY <2>1 DEF WakeGone, WakeEffect, WakeTask, WakeScope, WakeReturn, Visit
    <2>3. IInv'
        BY <2>1, WakeGoneInvariant, WakeEffectInvariant, WakeTaskInvariant,
           WakeScopeInvariant, WakeReturnInvariant
    <2> QED
        BY <2>2, <2>3
<1>3. CASE Step
    <2>1. PICK t \in TaskId :
              \/ Interrupted(t) \/ Compute(t) \/ Fault(t)
              \/ \E args \in SUBSET Held(t) :
                     Call(t, args) \/ \E y \in Yields : SpawnFunction(t, args, y)
              \/ SpawnEffect(t) \/ AwaitEffect(t)
              \/ \E lexical \in Lexicals : ScopeEnter(t, lexical)
              \/ ScopeExit(t) \/ TryReturn(t) \/ Return(t)
              \/ \E h \in TaskId : AwaitTask(t, h) \/ ReturnTask(t, h)
        BY <1>3 DEF Step
    <2>2. ASSUME NextIteration
          PROVE  pc' # "done"
        BY <2>2 DEF NextIteration
    <2>3. CASE Interrupted(t) \/ Compute(t) \/ Fault(t)
        BY <2>2, <2>3, ComputeInvariant
           DEF Interrupted, Compute, Fault, StepFails, StepOk
    <2>4. CASE \E args \in SUBSET Held(t) : Call(t, args)
        BY <2>2, <2>4, CallInvariant DEF Call, StepFails, StepOk
    <2>5. CASE \E args \in SUBSET Held(t) : \E y \in Yields : SpawnFunction(t, args, y)
        <3>1. PICK args \in SUBSET Held(t), y \in BOOLEAN : SpawnFunction(t, args, y)
            BY <2>5, BoundsAssumption
        <3> QED
            BY <2>2, <3>1, SpawnFunctionInvariant DEF SpawnFunction, StepFails, StepOk
    <2>6. CASE SpawnEffect(t) \/ AwaitEffect(t)
        BY <2>2, <2>6, SpawnEffectInvariant, AwaitEffectInvariant
           DEF SpawnEffect, AwaitEffect, StepFails, StepOk
    <2>7. CASE \E lexical \in Lexicals : ScopeEnter(t, lexical)
        BY <2>2, <2>7, ScopeEnterInvariant DEF ScopeEnter, StepOk
    <2>8. CASE ScopeExit(t)
        BY <2>2, <2>8, ScopeExitInvariant DEF ScopeExit, StepOk
    <2>9. CASE TryReturn(t) \/ Return(t)
        BY <2>2, <2>9, ReturnInvariant DEF TryReturn, Return, StepOk
    <2>10. CASE \E h \in TaskId : AwaitTask(t, h)
        BY <2>2, <2>10, AwaitTaskInvariant DEF AwaitTask, StepFails, StepOk
    <2>11. CASE \E h \in TaskId : ReturnTask(t, h)
        BY <2>2, <2>11, ReturnTaskInvariant DEF ReturnTask, StepFails, StepOk
    <2> QED
        BY <2>1, <2>3, <2>4, <2>5, <2>6, <2>7, <2>8, <2>9, <2>10, <2>11
<1> QED
    BY <1>1, <1>2, <1>3

\* What every step preserves.
Safe == IInv /\ FailureIsReported /\ StopWins

\* Every step of the machine keeps the invariant.
LEMMA NextInvariant == Safe /\ [Next]_vars => Safe'
<1> SUFFICES ASSUME Safe, [Next]_vars PROVE Safe'
    OBVIOUS
<1>1. CASE Wake \/ Step \/ Schedule
    <2>1. IInv' /\ pc' # "done"
        BY <1>1, LoopInvariant DEF Safe
    <2>2. FailureIsReported' /\ StopWins'
        BY <2>1 DEF IInv, ErrorsAreWitnessed, FailureIsReported, StopWins,
                    Errors, Terminal
    <2> QED
        BY <2>1, <2>2 DEF Safe
<1>2. CASE RootFailed
    BY <1>2, RootFailedInvariant DEF Safe
<1>3. CASE RootReturned \/ PollAgain \/ NoReadyTask
    BY <1>3, IdleInvariant DEF Safe
<1>4. CASE Interrupt
    <2>1. PICK i \in Interrupts : interrupt' = i
        BY <1>4 DEF Interrupt
    <2>2. i # "none" /\ pc # "done" /\ pc' = pc /\ outcome' = outcome
        BY <1>4, BoundsAssumption DEF Interrupt
    <2>3. TypeOK'
        BY <1>4, <2>1 DEF Interrupt, Safe, IInv, TypeOK
    <2>4. ErrorsAreWitnessed'
        BY <1>4 DEF Interrupt, Safe, IInv, ErrorsAreWitnessed
    <2>5. TerminalIsFinal'
        BY <1>4, <2>1, <2>2 DEF Interrupt, Safe, IInv, TerminalIsFinal
    <2>6. FailureIsReported' /\ StopWins'
        BY <2>2 DEF Safe, IInv, ErrorsAreWitnessed, FailureIsReported, StopWins,
                    Errors, Terminal
    <2> QED
        BY <2>3, <2>4, <2>5, <2>6 DEF Safe, IInv
<1>5. CASE UNCHANGED vars
    BY <1>5 DEF vars, Safe, IInv, TypeOK, ErrorsAreWitnessed, TerminalIsFinal,
                FailureIsReported, StopWins
<1> QED
    BY <1>1, <1>2, <1>3, <1>4, <1>5 DEF Next, Machine, Done

\* The invariant holds in every reachable state.
LEMMA SpecSafe == Spec => []Safe
<1>1. Init => Safe
    BY InitInvariant, TasksCount DEF Safe, Init, FailureIsReported, StopWins, Errors, Terminal
<1> QED
    BY <1>1, NextInvariant, PTL DEF Spec

-----------------------------------------------------------------------------
(* The theorems.                                                           *)

\* The task table, the registers and the counters keep their types, and ids are
\* handed out in order, for every program and all limits.
THEOREM TypeCorrect == Spec => []TypeOK
BY SpecSafe, PTL DEF Safe, IInv

\* A failed task stays in the table until the failure has moved to its waiter
\* or the run has ended: joins, early returns and cancellations lose no error.
THEOREM ErrorsWitnessed == Spec => []ErrorsAreWitnessed
BY SpecSafe, PTL DEF Safe, IInv

\* execute_task_machine reports success only when no instruction, poll or join
\* has failed, and any error it reports is one that was raised.
THEOREM FailuresReported == Spec => []FailureIsReported
BY SpecSafe, PTL DEF Safe

\* `stop` is the outcome once it has run, and an exceeded cleanup budget is
\* never reported as anything but itself or `stop`.
THEOREM StopIsFinal == Spec => []StopWins
BY SpecSafe, PTL DEF Safe

\* Nothing is started under a failed root, after `stop` or `fail`, or at a
\* checkpoint that sees an interruption, whatever program runs and whichever
\* polls and joins fail first.
THEOREM NoNewWork == Spec => NoNewWorkAfterTerminal
<1> DEFINE over == \/ task[0].st = "Err"
                   \/ raised \cap {"Stopped", "ProgramFailed"} # {}
                   \/ interrupt # "none"
           A == over => nextTask' = nextTask /\ inflight' \subseteq inflight
<1>1. Safe /\ [Next]_vars => [A]_vars
    <2> SUFFICES ASSUME Safe, Next, over
                 PROVE  nextTask' = nextTask /\ inflight' \subseteq inflight
        BY DEF vars
    <2>1. ASSUME NEW t \in TaskId, Steps(t)
          PROVE  FALSE
        BY <2>1 DEF Safe, IInv, TerminalIsFinal, Steps
    <2>2. CASE Wake
        BY <2>2 DEF Wake, WakeGone, WakeEffect, WakeTask, WakeScope, WakeReturn, Visit
    <2>3. CASE Step
        <3>1. PICK t \in TaskId :
                  \/ Interrupted(t) \/ Compute(t) \/ Fault(t)
                  \/ \E args \in SUBSET Held(t) :
                         Call(t, args) \/ \E y \in Yields : SpawnFunction(t, args, y)
                  \/ SpawnEffect(t) \/ AwaitEffect(t)
                  \/ \E lexical \in Lexicals : ScopeEnter(t, lexical)
                  \/ ScopeExit(t) \/ TryReturn(t) \/ Return(t)
                  \/ \E h \in TaskId : AwaitTask(t, h) \/ ReturnTask(t, h)
            BY <2>3 DEF Step
        <3>2. ~Compute(t) /\ ~Fault(t) /\ ~SpawnEffect(t) /\ ~AwaitEffect(t)
            BY <2>1 DEF Compute, Fault, SpawnEffect, AwaitEffect
        <3>3. ~ScopeExit(t) /\ ~TryReturn(t) /\ ~Return(t)
            BY <2>1 DEF ScopeExit, TryReturn, Return
        <3>4. \A args, y : ~Call(t, args) /\ ~SpawnFunction(t, args, y)
            BY <2>1 DEF Call, SpawnFunction
        <3>5. \A x : ~ScopeEnter(t, x) /\ ~AwaitTask(t, x) /\ ~ReturnTask(t, x)
            BY <2>1 DEF ScopeEnter, AwaitTask, ReturnTask
        <3>6. Interrupted(t)
            BY <3>1, <3>2, <3>3, <3>4, <3>5
        <3> QED
            BY <3>6 DEF Interrupted, StepFails, CancelAll, CancelDescendants
    <2>4. CASE Schedule \/ RootFailed \/ RootReturned \/ PollAgain \/ NoReadyTask
        BY <2>4 DEF Schedule, RootFailed, RootReturned, PollAgain, NoReadyTask,
                    Finish, CancelAll
    <2>5. CASE Interrupt \/ Done
        BY <2>5 DEF Interrupt, Done, vars
    <2> QED
        BY <2>2, <2>3, <2>4, <2>5 DEF Next, Machine
<1> QED
    BY <1>1, SpecSafe, PTL DEF Spec, NoNewWorkAfterTerminal
=============================================================================
