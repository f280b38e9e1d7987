------------------------- MODULE RunLifecycleProofs -------------------------
(* Theorems about RunLifecycle, for whatever the agent captures and for    *)
(* any number of failing database calls.                                   *)
EXTENDS RunLifecycle, TLAPS

(* The version says how far the run is, and a timeout callback only writes *)
(* to a run it has seen unfinished.                                        *)
VersionInv ==
  /\ run.exec = "pending" <=> run.version = 0
  /\ run.exec = "running" => run.version = 1
  /\ call["callback"] = "inflight" => row.exec \in {"pending", "running"}

(* Writes the task has not come to yet are idle. *)
StageInv ==
  /\ pc \in {"created", "transition", "agent"} => call["finalize"] = "idle"
  /\ pc \in {"created", "transition", "agent", "finalize"} => call["fail"] = "idle"
  /\ pc \notin {"callback", "ended", "stopped"} => call["callback"] = "idle"

LifecycleInv == TypeOK /\ VersionInv /\ StageInv

LEMMA PlansTerminal ==
  ASSUME NEW plan \in Plans
  PROVE  /\ plan.exec \in {"completed", "failed"}
         /\ plan.delivery \in {"ready", "review_required", "failed"}
         /\ plan.review \in {"required", "not_required"}
         /\ plan.workflow \in {"none", "checkpoint_pending"}
         /\ plan.publication \in {"none", "ready", "review_required"}
  BY DEF Plans, Failure, GenericSuccess, TalentSuccess, Outcome

LEMMA StoredPlan ==
  ASSUME TypeOK, NEW kind \in Writers
  PROVE  Stored(kind) \in Plans
  BY DEF TypeOK, Stored, Plans

(* Every write that changes the run found it unfinished. *)
LEMMA FenceUnfinished ==
  ASSUME LifecycleInv, NEW kind \in Kinds, Write(kind), Fence(kind)
  PROVE  ~ Terminal /\ run.version \in 0 .. 1
  <1>1. run.exec \in {"pending", "running"} => ~ Terminal /\ run.version \in 0 .. 1
    BY DEF LifecycleInv, VersionInv, TypeOK, Terminal
  <1>2. CASE kind = "transition"
    BY <1>1, <1>2 DEF Fence, Matches
  <1>3. CASE kind = "finalize"
    BY <1>1, <1>3 DEF Fence, Matches
  <1>4. CASE kind = "fail"
    BY <1>1, <1>4 DEF Fence, Matches, Allowed
  <1>5. CASE kind = "callback"
    BY <1>1, <1>5 DEF Fence, Matches, LifecycleInv, VersionInv, Write
  <1>6. QED BY <1>2, <1>3, <1>4, <1>5 DEF Kinds

LEMMA WriteInv ==
  ASSUME LifecycleInv, NEW kind \in Kinds, Write(kind)
  PROVE  LifecycleInv'
  <1> USE DEF LifecycleInv
  <1>1. StageInv'
    BY DEF Write, Applied, Refused, Raised, StageInv, TypeOK, Kinds
  <1>2. CASE Applied(kind) /\ kind = "transition"
    <2>1. run.version = 0 /\ run.exec = "pending"
      BY <1>2 DEF Applied, Fence, Matches
    <2>2. run' = [run EXCEPT !.exec = "running", !.version = 1]
      BY <1>2, <2>1 DEF Applied, Transition
    <2>3. run'.exec = "running" /\ run'.version = 1
      BY <2>2 DEF TypeOK
    <2>4. TypeOK'
      <3>1. UNCHANGED <<pc, expected, planned, box, row, timedOut, faults>>
        BY <1>2 DEF Write, Applied
      <3>2. call' \in [Kinds -> {"idle", "inflight", "dropped"} \cup Replies]
        BY <1>2 DEF Applied, TypeOK, Kinds, Replies
      <3>3. run' \in RunRow
        <4>1. run \in RunRow
          BY DEF TypeOK
        <4>2. "running" \in Statuses /\ 1 \in 0 .. 2
          BY DEF Statuses
        <4>3. QED BY <2>2, <4>1, <4>2 DEF RunRow
      <3>4. QED BY <3>1, <3>2, <3>3 DEF TypeOK
    <2>5. VersionInv'
      BY <1>2, <2>3 DEF Write, Applied, TypeOK, VersionInv, Kinds
    <2>6. QED BY <1>1, <2>4, <2>5
  <1>3. CASE Applied(kind) /\ kind # "transition"
    <2>1. kind \in Writers
      BY <1>3 DEF Kinds, Writers
    <2>2. PICK plan \in Plans : Finalize(plan)
      BY <1>3, <2>1, StoredPlan DEF Applied
    <2>3. box \in {"none", "clean"}
      BY <1>3, LifecycleAssumption DEF Applied, Insertable, TypeOK
    <2>4. run.version \in 0 .. 1
      BY <1>3, FenceUnfinished DEF Applied
    <2>5. VersionInv'
      <3>1. run'.exec \in {"completed", "failed"} /\ run'.version = run.version + 1
        BY <2>2, PlansTerminal DEF Finalize
      <3>2. call'["callback"] = "inflight" => call["callback"] = "inflight"
        BY <1>3 DEF Applied, TypeOK, Kinds
      <3>3. row' = row
        BY DEF Write
      <3>4. QED BY <2>4, <3>1, <3>2, <3>3 DEF VersionInv
    <2>6. run'.exec \in {"completed", "failed"} /\ TypeOK'
      <3>1. run'.exec \in {"completed", "failed"} /\ run' \in RunRow
        BY <2>2, <2>3, <2>4, PlansTerminal DEF Finalize, RunRow, Statuses
      <3>2. call' \in [Kinds -> {"idle", "inflight", "dropped"} \cup Replies]
        BY <1>3 DEF Applied, TypeOK, Kinds, Replies
      <3>3. UNCHANGED <<pc, expected, planned, box, row, timedOut, faults>>
        BY <1>3 DEF Write, Applied
      <3>4. QED BY <3>1, <3>2, <3>3 DEF TypeOK
    <2>7. QED BY <1>1, <2>5, <2>6
  <1>4. CASE Refused(kind) \/ Raised(kind)
    BY <1>4, <1>1 DEF Write, Refused, Raised, TypeOK, VersionInv, Kinds, Replies
  <1>5. QED BY <1>2, <1>3, <1>4 DEF Write

LEMMA TaskInv ==
  ASSUME LifecycleInv, TaskStep \/ AgentReturns \/ AgentRaises
  PROVE  LifecycleInv'
  <1> USE DEF LifecycleInv, Issue, Stages, Awaiting, Kinds, Replies
  <1>1. CASE StartTask
    BY <1>1 DEF StartTask, TypeOK, VersionInv, StageInv
  <1>2. CASE TransitionReturns
    BY <1>2 DEF TransitionReturns, TypeOK, VersionInv, StageInv
  <1>3. CASE FinalizeReturns
    BY <1>3 DEF FinalizeReturns, TypeOK, VersionInv, StageInv
  <1>4. CASE FailReturns
    BY <1>4 DEF FailReturns, TypeOK, VersionInv, StageInv
  <1>5. CASE CallbackReads
    <2>1. row' \in SeenRow /\ row'.exec = run.exec
      BY <1>5 DEF CallbackReads, TypeOK, RunRow, SeenRow
    <2>2. CASE Unfinished
      BY <1>5, <2>1, <2>2 DEF CallbackReads, Unfinished, TypeOK, VersionInv, StageInv
    <2>3. CASE ~ Unfinished
      BY <1>5, <2>1, <2>3 DEF CallbackReads, TypeOK, VersionInv, StageInv
    <2>4. QED BY <2>2, <2>3
  <1>6. CASE CallbackReturns
    BY <1>6 DEF CallbackReturns, TypeOK, VersionInv, StageInv
  <1>7. CASE AgentReturns
    BY <1>7 DEF AgentReturns, TypeOK, VersionInv, StageInv
  <1>8. CASE AgentRaises
    BY <1>8 DEF AgentRaises, TypeOK, VersionInv, StageInv
  <1>9. QED BY <1>1, <1>2, <1>3, <1>4, <1>5, <1>6, <1>7, <1>8 DEF TaskStep

LEMMA InterruptInv ==
  ASSUME LifecycleInv, Timeout \/ Stop
  PROVE  LifecycleInv'
  <1> USE DEF LifecycleInv, Stages, Awaiting, Kinds, Replies
  <1>1. CASE Timeout
    BY <1>1 DEF Timeout, Awaited, TypeOK, VersionInv, StageInv
  <1>2. CASE Stop
    BY <1>2 DEF Stop, TypeOK, VersionInv, StageInv
  <1>3. QED BY <1>1, <1>2

LEMMA LifecycleStep ==
  ASSUME LifecycleInv, [Next]_vars
  PROVE  LifecycleInv'
  <1>1. CASE UNCHANGED vars
    BY <1>1 DEF vars, LifecycleInv, TypeOK, VersionInv, StageInv
  <1>2. QED BY <1>1, WriteInv, TaskInv, InterruptInv DEF Next

LEMMA LifecycleInit == Init => LifecycleInv
  <1>1. SUFFICES ASSUME Init PROVE LifecycleInv
    OBVIOUS
  <1>2. TypeOK
    <2>1. call \in [Kinds -> {"idle", "inflight", "dropped"} \cup Replies]
      BY <1>1 DEF Init
    <2>2. planned \in Plans
      BY <1>1 DEF Init, Plans
    <2>3. pc \in Stages
      BY <1>1 DEF Init, Stages
    <2>4. row \in SeenRow
      BY <1>1 DEF Init, SeenRow, Statuses
    <2>5. run \in RunRow
      BY <1>1 DEF Init, NewRun, RunRow, Statuses
    <2>6. expected \in 0 .. 1 /\ box = "none" /\ faults \in Nat
      BY <1>1 DEF Init
    <2>7. timedOut \in BOOLEAN
      BY <1>1 DEF Init
    <2>8. QED BY <2>1, <2>2, <2>3, <2>4, <2>5, <2>6, <2>7 DEF TypeOK
  <1>3. VersionInv
    BY <1>1 DEF Init, NewRun, VersionInv, Kinds
  <1>4. StageInv
    BY <1>1 DEF Init, StageInv, Kinds
  <1>5. QED BY <1>2, <1>3, <1>4 DEF LifecycleInv

LEMMA LifecycleHolds == Spec => []LifecycleInv
  BY LifecycleInit, LifecycleStep, PTL DEF Spec

(* Every variable keeps its type, and state_version never exceeds 2. *)
THEOREM TypeCorrect == Spec => []TypeOK
  BY LifecycleHolds, PTL DEF LifecycleInv

(* A terminal run is never written again, by whatever call comes late. *)
THEOREM TerminalRunStaysFinal == Spec => TerminalRunIsFinal
  <1>1. ASSUME LifecycleInv, [Next]_vars PROVE [Terminal => run' = run]_run
    <2>1. CASE \E k \in Kinds : Write(k)
      BY <1>1, <2>1, FenceUnfinished DEF Write, Applied, Refused, Raised
    <2>2. CASE TaskStep \/ AgentReturns \/ AgentRaises \/ Timeout \/ Stop
      BY <2>2 DEF TaskStep, AgentReturns, AgentRaises, Timeout, Stop, StartTask,
         TransitionReturns, FinalizeReturns, FailReturns, CallbackReads, CallbackReturns
    <2>3. CASE UNCHANGED vars
      BY <2>3 DEF vars
    <2>4. QED BY <1>1, <2>1, <2>2, <2>3 DEF Next
  <1>2. QED BY <1>1, LifecycleHolds, PTL DEF Spec, TerminalRunIsFinal

Winners == {k \in Writers : call[k] = "applied"}

(* A step that leaves the run, the applied writes and what they stored     *)
(* alone cannot break the agreement.                                       *)
LEMMA QuietStep ==
  ASSUME LifecycleInv, OneWriterFinishes, run' = run, Winners' = Winners,
         Winners # {} => planned' = planned /\ box' = box
  PROVE  OneWriterFinishes'
  <1>1. CASE Winners = {}
    BY <1>1 DEF OneWriterFinishes, Winners, Terminal
  <1>2. CASE Winners # {}
    BY <1>2 DEF OneWriterFinishes, Winners, Terminal, Stored
  <1>3. QED BY <1>1, <1>2

LEMMA AppliedWrite ==
  ASSUME LifecycleInv, OneWriterFinishes, NEW kind \in Writers,
         Write(kind), Applied(kind)
  PROVE  OneWriterFinishes'
  <1>1. Winners = {}
    BY FenceUnfinished DEF OneWriterFinishes, Winners, Applied, Kinds, Writers
  <1>2. Winners' = {kind}
    BY <1>1 DEF Applied, Winners, LifecycleInv, TypeOK, Kinds, Writers
  <1>3. Finalize(Stored(kind)) /\ Stored(kind) \in Plans
    BY StoredPlan DEF Applied, Writers, LifecycleInv
  <1>4. /\ run'.exec = Stored(kind).exec /\ run'.delivery = Stored(kind).delivery
        /\ run'.segment = run'.exec /\ run'.evidence = box
    BY <1>3 DEF Finalize
  <1>5. Stored(kind)' = Stored(kind) /\ box' = box
    BY DEF Write, Stored
  <1>6. Terminal'
    BY <1>3, <1>4, PlansTerminal DEF Terminal
  <1>7. QED BY <1>2, <1>4, <1>5, <1>6 DEF OneWriterFinishes, Winners

LEMMA OneWriterStep ==
  ASSUME LifecycleInv, OneWriterFinishes, [Next]_vars
  PROVE  OneWriterFinishes'
  <1> USE DEF Winners, Writers, Kinds
  <1>1. ASSUME NEW kind \in Kinds, Write(kind) PROVE OneWriterFinishes'
    <2>1. CASE Applied(kind) /\ kind # "transition"
      BY <1>1, <2>1, AppliedWrite
    <2>2. CASE Applied(kind) /\ kind = "transition"
      <3>1. ~ Terminal /\ run.exec = "pending"
        BY <1>1, <2>2, FenceUnfinished DEF Applied, Fence, Matches
      <3>2. ~ Terminal'
        BY <2>2 DEF Applied, Transition, Terminal, LifecycleInv, TypeOK, RunRow
      <3>3. Winners' = Winners /\ Winners = {}
        BY <3>1, <2>2 DEF Applied, OneWriterFinishes, LifecycleInv, TypeOK
      <3>4. QED BY <3>2, <3>3 DEF OneWriterFinishes
    <2>3. CASE Refused(kind) \/ Raised(kind)
      <3>1. Winners' = Winners /\ run' = run
        BY <1>1, <2>3 DEF Write, Refused, Raised, LifecycleInv, TypeOK
      <3>2. QED BY <1>1, <3>1, QuietStep DEF Write
    <2>4. QED BY <1>1, <2>1, <2>2, <2>3 DEF Write
  <1>2. ASSUME TaskStep \/ AgentReturns \/ AgentRaises \/ Timeout \/ Stop \/ UNCHANGED vars
        PROVE  run' = run /\ Winners' = Winners
    <2>1. run' = run
      BY <1>2 DEF TaskStep, AgentReturns, AgentRaises, Timeout, Stop, StartTask,
         TransitionReturns, FinalizeReturns, FailReturns, CallbackReads,
         CallbackReturns, vars
    <2> USE DEF LifecycleInv, TypeOK, StageInv, Issue
    <2>2. CASE StartTask \/ TransitionReturns \/ FinalizeReturns \/ FailReturns
      BY <2>1, <2>2 DEF StartTask, TransitionReturns, FinalizeReturns, FailReturns
    <2>3. CASE CallbackReads \/ CallbackReturns
      BY <2>1, <2>3 DEF CallbackReads, CallbackReturns
    <2>4. CASE AgentReturns \/ AgentRaises
      BY <2>1, <2>4 DEF AgentReturns, AgentRaises
    <2>5. CASE Timeout
      <3>1. PICK dropped \in SUBSET Awaited :
              call' = [k \in Kinds |-> IF k \in dropped THEN "dropped"
                         ELSE IF k = "fail" /\ pc # "failing" THEN "inflight" ELSE call[k]]
        BY <2>5 DEF Timeout
      <3>2. ASSUME NEW k \in Writers
            PROVE  call'[k] = "applied" <=> call[k] = "applied"
        <4>1. k \in dropped => call[k] = "inflight"
          BY <3>1 DEF Awaited
        <4>2. pc # "failing" => call["fail"] # "applied"
          BY <2>5 DEF Timeout, Awaiting
        <4>3. QED BY <3>1, <4>1, <4>2
      <3>3. QED BY <2>1, <3>2
    <2>6. CASE Stop
      BY <2>1, <2>6 DEF Stop
    <2>7. CASE UNCHANGED vars
      BY <2>7 DEF vars
    <2>8. QED BY <1>2, <2>2, <2>3, <2>4, <2>5, <2>6, <2>7 DEF TaskStep
  <1>3. ASSUME TaskStep \/ AgentReturns \/ AgentRaises \/ Timeout \/ Stop \/ UNCHANGED vars
        PROVE  Winners # {} => planned' = planned /\ box' = box
    <2>1. pc = "agent" => Winners = {}
      BY DEF LifecycleInv, StageInv
    <2>2. CASE TaskStep \/ Stop \/ UNCHANGED vars
      BY <2>2 DEF TaskStep, Stop, StartTask, TransitionReturns, FinalizeReturns,
         FailReturns, CallbackReads, CallbackReturns, vars
    <2>3. CASE AgentReturns \/ AgentRaises
      BY <2>1, <2>3 DEF AgentReturns, AgentRaises
    <2>4. CASE Timeout /\ pc # "agent"
      BY <2>4 DEF Timeout
    <2>5. QED BY <1>3, <2>1, <2>2, <2>3, <2>4
  <1>4. QED BY <1>1, <1>2, <1>3, QuietStep DEF Next

(* One of the three terminal writers at most is ever told that it finished *)
(* the run, and the run and its segment carry what that writer stored.     *)
THEOREM OneWriterFinishesRun == Spec => []OneWriterFinishes
  <1>1. Init => OneWriterFinishes
    BY DEF Init, NewRun, OneWriterFinishes, Terminal, Writers, Kinds
  <1>2. QED BY <1>1, OneWriterStep, LifecycleHolds, PTL DEF Spec

-----------------------------------------------------------------------------
(* Every end of the task leaves the run terminal.                          *)

(* As long as no database call failed: which write the task waits for, and *)
(* that it still can be applied; a write abandoned by the timeout has had  *)
(* its effect, or another one has, before the callback looks at the run.   *)
SettleInv ==
  faults = 0 =>
    /\ run.exec = "running" \/ expected = 1 => call["transition"] = "applied"
    /\ timedOut => pc \notin {"created", "transition", "agent", "finalize"}
    /\ pc = "created" => run.exec = "pending" /\ expected = 0 /\ call["transition"] = "idle"
    /\ pc = "transition" =>
         /\ expected = 0
         /\ \/ call["transition"] = "inflight" /\ run.exec = "pending"
            \/ call["transition"] = "applied" /\ run.exec = "running"
    /\ pc = "agent" => expected = 1 /\ run.exec = "running"
    /\ pc = "finalize" =>
         /\ expected = 1
         /\ \/ call["finalize"] \in {"inflight", "raised"} /\ run.exec = "running"
            \/ call["finalize"] = "applied" /\ Terminal
    /\ pc = "failing" /\ ~ timedOut =>
         \/ call["transition"] # "inflight" /\ call["fail"] = "inflight"
              /\ Matches(expected, Allowed(expected))
         \/ call["transition"] # "inflight" /\ Terminal
    /\ pc = "failing" /\ call["fail"] \in Replies =>
         Terminal \/ call["transition"] # "inflight"
    /\ pc \in {"read", "callback"} => Terminal \/ call["transition"] # "inflight"
    /\ pc = "callback" =>
         Terminal \/ (call["callback"] = "inflight" /\ Matches(row.version, {row.exec}))
    /\ pc = "ended" => Terminal

LEMMA SettleWrite ==
  ASSUME LifecycleInv, SettleInv, NEW kind \in Kinds, Write(kind),
         "repeated" \notin CapturedEvidence
  PROVE  SettleInv'
  <1> SUFFICES ASSUME faults' = 0 PROVE SettleInv'
    BY DEF SettleInv
  <1>1. /\ faults = 0 /\ Insertable
        /\ UNCHANGED <<pc, expected, planned, box, row, timedOut>>
        /\ call \in [Kinds -> {"idle", "inflight", "dropped"} \cup Replies]
        /\ call[kind] = "inflight"
    <2>1. faults = 0
      BY DEF Write, Applied, Refused, Raised, LifecycleInv, TypeOK
    <2>2. box # "repeated"
      BY LifecycleAssumption DEF LifecycleInv, TypeOK
    <2>3. QED BY <2>1, <2>2 DEF Write, Insertable, LifecycleInv, TypeOK
  <1>2. CASE Applied(kind) /\ kind = "transition"
    <2>1. run.exec = "pending" /\ run.version = 0 /\ call' = [call EXCEPT !["transition"] = "applied"]
      BY <1>2 DEF Applied, Fence, Matches
    <2>2. run'.exec = "running" /\ run'.version = 1
      <3>1. run' = [run EXCEPT !.exec = "running", !.version = 1]
        BY <1>2, <2>1 DEF Applied, Transition
      <3>2. QED BY <3>1 DEF LifecycleInv, TypeOK
    <2>3. ~ Terminal
      BY <2>1 DEF Terminal
    <2>4. QED BY <1>1, <1>2, <2>1, <2>2, <2>3
            DEF SettleInv, LifecycleInv, StageInv, Matches, Allowed, Kinds, Replies
  <1>3. CASE Applied(kind) /\ kind # "transition"
    <2>1. Terminal' /\ call' = [call EXCEPT ![kind] = "applied"] /\ ~ Terminal
      <3>1. PICK plan \in Plans : Finalize(plan)
        BY <1>3, StoredPlan DEF Applied, Kinds, Writers, LifecycleInv
      <3>2. QED BY <1>3, <3>1, PlansTerminal, FenceUnfinished DEF Applied, Finalize, Terminal
    <2>2. run'.exec # "running"
      BY <2>1 DEF Terminal
    <2>3. QED BY <1>1, <1>3, <2>1, <2>2 DEF SettleInv, LifecycleInv, StageInv, Kinds, Replies
  <1>4. CASE Refused(kind)
    <2>1. run' = run /\ call' = [call EXCEPT ![kind] = "refused"] /\ ~ Fence(kind)
      BY <1>4 DEF Refused
    <2>2. kind = "transition" => run.exec # "pending"
      BY <1>1, <2>1 DEF Fence, Matches, LifecycleInv, VersionInv
    <2>3. kind = "fail" /\ call["transition"] = "inflight" => Terminal
      <3>1. SUFFICES ASSUME kind = "fail", call["transition"] = "inflight", ~ Terminal
                     PROVE  FALSE
        OBVIOUS
      <3>2. run.exec = "pending" /\ run.version = 0 /\ expected = 0
        BY <1>1, <3>1 DEF SettleInv, LifecycleInv, TypeOK, VersionInv, RunRow, Statuses, Terminal
      <3>3. QED BY <2>1, <3>1, <3>2 DEF Fence, Matches, Allowed
    <2>4. kind = "finalize" => ~ Matches(1, {"running"})
      BY <2>1 DEF Fence
    <2>5. kind = "callback" => ~ Matches(row.version, {row.exec})
      BY <2>1 DEF Fence
    <2>6. kind = "fail" => ~ Matches(expected, Allowed(expected))
      BY <2>1 DEF Fence
    <2>7. run.exec = "running" => run.version = 1
      BY DEF LifecycleInv, VersionInv
    <2>8. Terminal' = Terminal
      BY <2>1 DEF Terminal
    <2>9. QED BY <1>1, <2>1, <2>2, <2>3, <2>4, <2>5, <2>6, <2>7, <2>8
            DEF SettleInv, LifecycleInv, StageInv, Matches, Kinds, Replies
  <1>5. CASE Raised(kind)
    <2>1. kind = "finalize" /\ run' = run /\ call' = [call EXCEPT ![kind] = "raised"]
      BY <1>1, <1>5 DEF Raised, LifecycleInv, TypeOK
    <2>2. run.exec = "running" /\ ~ Terminal
      BY <1>1, <1>5, <2>1 DEF Raised, Fence, Matches, Terminal, LifecycleInv, TypeOK
    <2>3. Terminal' = Terminal
      BY <2>1 DEF Terminal
    <2>4. QED BY <1>1, <2>1, <2>2, <2>3
            DEF SettleInv, LifecycleInv, StageInv, Matches, Kinds, Replies
  <1>6. QED BY <1>2, <1>3, <1>4, <1>5 DEF Write

LEMMA SettleTask ==
  ASSUME LifecycleInv, SettleInv, TaskStep \/ AgentReturns \/ AgentRaises
  PROVE  SettleInv'
  <1> SUFFICES ASSUME faults' = 0 PROVE SettleInv'
    BY DEF SettleInv
  <1>1. /\ faults = 0 /\ run' = run /\ timedOut' = timedOut /\ Terminal' = Terminal
        /\ call \in [Kinds -> {"idle", "inflight", "dropped"} \cup Replies]
        /\ run.exec = "running" => run.version = 1
        /\ run.exec = "pending" => run.version = 0
        /\ run.exec \in Statuses
    BY DEF TaskStep, StartTask, TransitionReturns, FinalizeReturns, FailReturns, CallbackReads,
           CallbackReturns, AgentReturns, AgentRaises, LifecycleInv, TypeOK, VersionInv,
           Terminal, RunRow
  <1> USE DEF SettleInv, LifecycleInv, StageInv, Issue, Kinds, Replies, Matches, Allowed
  <1>2. CASE StartTask
    BY <1>1, <1>2 DEF StartTask
  <1>3. CASE TransitionReturns
    BY <1>1, <1>3 DEF TransitionReturns
  <1>4. CASE FinalizeReturns
    BY <1>1, <1>4 DEF FinalizeReturns
  <1>5. CASE FailReturns
    BY <1>1, <1>5 DEF FailReturns
  <1>6. CASE CallbackReads
    <2>1. row'.exec = run.exec /\ row'.version = run.version
      BY <1>6 DEF CallbackReads
    <2>2. Unfinished \/ Terminal
      BY <1>1 DEF Unfinished, Terminal, Statuses
    <2>3. QED BY <1>1, <1>6, <2>1, <2>2 DEF CallbackReads
  <1>7. CASE CallbackReturns
    BY <1>1, <1>7 DEF CallbackReturns
  <1>8. CASE AgentReturns
    BY <1>1, <1>8 DEF AgentReturns
  <1>9. CASE AgentRaises
    BY <1>1, <1>9 DEF AgentRaises
  <1>10. QED BY <1>2, <1>3, <1>4, <1>5, <1>6, <1>7, <1>8, <1>9 DEF TaskStep

LEMMA SettleInterrupt ==
  ASSUME LifecycleInv, SettleInv, Timeout \/ Stop
  PROVE  SettleInv'
  <1> SUFFICES ASSUME faults' = 0 PROVE SettleInv'
    BY DEF SettleInv
  <1>1. /\ faults = 0 /\ run' = run /\ expected' = expected /\ row' = row
        /\ Terminal' = Terminal
        /\ call \in [Kinds -> {"idle", "inflight", "dropped"} \cup Replies]
        /\ run.exec = "running" => run.version = 1
    BY DEF Timeout, Stop, LifecycleInv, TypeOK, VersionInv, Terminal
  <1> USE DEF SettleInv, LifecycleInv, StageInv, Kinds, Replies, Matches, Allowed
  <1>2. CASE Stop
    BY <1>1, <1>2 DEF Stop
  <1>3. CASE Timeout
    BY <1>1, <1>3 DEF Timeout, Awaited, Awaiting
  <1>4. QED BY <1>2, <1>3

LEMMA SettleStep ==
  ASSUME LifecycleInv, SettleInv, [Next]_vars, "repeated" \notin CapturedEvidence
  PROVE  SettleInv'
  <1>1. CASE UNCHANGED vars
    BY <1>1 DEF vars, SettleInv, Terminal, Matches, Allowed
  <1>2. QED BY <1>1, SettleWrite, SettleTask, SettleInterrupt DEF Next

(* Unless evidence repeats a fingerprint, a task that ends without a       *)
(* database error leaves no run unfinished, whichever of its writes were   *)
(* abandoned.                                                              *)
THEOREM EndedRunsAreTerminal ==
  ASSUME "repeated" \notin CapturedEvidence
  PROVE  Spec => []EndedRunIsTerminal
  <1>1. Init => SettleInv
    BY DEF Init, NewRun, SettleInv, Kinds, Replies
  <1>2. LifecycleInv /\ SettleInv /\ [Next]_vars => SettleInv'
    BY SettleStep
  <1>3. SettleInv => EndedRunIsTerminal
    BY DEF SettleInv, EndedRunIsTerminal
  <1>4. QED BY <1>1, <1>2, <1>3, LifecycleHolds, PTL DEF Spec

-----------------------------------------------------------------------------
(* What the review model starts from.                                      *)

(* A terminal row is what one plan stores, and a completed one was at      *)
(* version 1 when it was stored.                                           *)
FollowsPlan ==
  Terminal => \E plan \in Plans :
    /\ run.exec = plan.exec /\ run.delivery = plan.delivery /\ run.review = plan.review
    /\ run.workflow = plan.workflow /\ run.publication = plan.publication
    /\ plan.exec = "completed" => run.version = 2

LEMMA FollowsPlanStep ==
  ASSUME LifecycleInv, FollowsPlan, [Next]_vars
  PROVE  FollowsPlan'
  <1>1. CASE run' = run
    BY <1>1 DEF FollowsPlan, Terminal
  <1>2. ASSUME NEW kind \in Kinds, Write(kind), Applied(kind) PROVE FollowsPlan'
    <2>1. CASE kind = "transition"
      <3>1. run'.exec = "running"
        <4>1. run.version = 0 /\ run' = [run EXCEPT !.exec = "running", !.version = @ + 1]
          BY <1>2, <2>1 DEF Applied, Transition, Fence, Matches
        <4>2. run' = [run EXCEPT !.exec = "running", !.version = 1]
          BY <4>1
        <4>3. QED BY <4>2 DEF LifecycleInv, TypeOK
      <3>2. QED BY <3>1 DEF FollowsPlan, Terminal
    <2>2. CASE kind # "transition"
      <3>1. Stored(kind) \in Plans /\ Finalize(Stored(kind))
        BY <1>2, <2>2, StoredPlan DEF Applied, Kinds, Writers, LifecycleInv
      <3>2. Stored(kind).exec = "completed" => run.version = 1
        <4>1. kind = "finalize" => run.version = 1
          BY <1>2 DEF Applied, Fence, Matches
        <4>2. kind # "finalize" => Stored(kind).exec = "failed"
          BY DEF Stored, Failure, Outcome
        <4>3. QED BY <4>1, <4>2
      <3>3. PICK plan \in Plans : Finalize(plan) /\ (plan.exec = "completed" => run.version = 1)
        BY <3>1, <3>2
      <3>4. QED BY <3>3 DEF FollowsPlan, Finalize
    <2>3. QED BY <2>1, <2>2
  <1>3. run' = run \/ \E kind \in Kinds : Write(kind) /\ Applied(kind)
    BY DEF Next, vars, Write, Refused, Raised, TaskStep, StartTask, TransitionReturns,
           FinalizeReturns, FailReturns, CallbackReads, CallbackReturns, AgentReturns,
           AgentRaises, Timeout, Stop
  <1>4. QED BY <1>1, <1>2, <1>3

LEMMA PlanHandsOver ==
  ASSUME TypeOK, FollowsPlan
  PROVE  HandsOverToReview
  <1>1. CASE ~ Terminal
    BY <1>1 DEF HandsOverToReview, Terminal
  <1>2. CASE Terminal
    <2>1. PICK plan \in Plans :
            /\ run.exec = plan.exec /\ run.delivery = plan.delivery
            /\ run.review = plan.review /\ run.workflow = plan.workflow
            /\ run.publication = plan.publication
            /\ plan.exec = "completed" => run.version = 2
      BY <1>2 DEF FollowsPlan
    <2>2. CASE plan = Failure
      BY <2>1, <2>2 DEF Failure, Outcome, HandsOverToReview
    <2>3. CASE plan # Failure
      <3>1. /\ run.exec = "completed" /\ run.version = 2
            /\ \/ run.review = "required" /\ run.delivery = "review_required"
                  /\ run.workflow \in {"none", "checkpoint_pending"}
               \/ run.review = "not_required" /\ run.delivery = "ready"
                  /\ run.workflow = "none"
            /\ run.publication \in {"none", run.delivery}
        BY <2>1, <2>3 DEF Plans, GenericSuccess, TalentSuccess, Outcome
      <3>2. Store!StoreInit
        <4>1. Store!Revisions = {1}
          BY DEF Store!Revisions
        <4>2. \E durable \in BOOLEAN :
                [r \in {1} |-> run.workflow]
                  = [r \in {1} |-> IF r = 1 /\ run.review = "required" /\ durable
                                   THEN "checkpoint_pending" ELSE "none"]
          BY <3>1
        <4>3. \E adopted \in BOOLEAN :
                [r \in {1} |->
                   [status    |-> run.publication,
                    current   |-> run.publication # "none",
                    snapshot  |-> 0,
                    artifacts |-> IF run.publication # "none" THEN {"draft"} ELSE {}]]
                  = [r \in {1} |-> IF r = 1 /\ adopted
                                   THEN [status |-> run.delivery, current |-> TRUE,
                                         snapshot |-> 0, artifacts |-> {"draft"}]
                                   ELSE Store!NoPublication]
          BY <3>1 DEF Store!NoPublication
        <4>4. QED BY <3>1, <4>1, <4>2, <4>3
                DEF Store!StoreInit, Store!NoAttempt, Store!NoPublication
      <3>3. QED BY <3>1, <3>2 DEF HandsOverToReview
    <2>4. QED BY <2>2, <2>3
  <1>3. QED BY <1>1, <1>2

(* However a run was finished, what its terminal write stored is a state   *)
(* the review model starts from: its theorems are about every such run.    *)
THEOREM RunsAreHandedOver == Spec => []HandsOverToReview
  <1>1. Init => FollowsPlan
    BY DEF Init, NewRun, FollowsPlan, Terminal
  <1>2. LifecycleInv /\ FollowsPlan /\ [Next]_vars => FollowsPlan'
    BY FollowsPlanStep
  <1>3. LifecycleInv /\ FollowsPlan => HandsOverToReview
    BY PlanHandsOver DEF LifecycleInv
  <1>4. QED BY <1>1, <1>2, <1>3, LifecycleHolds, PTL DEF Spec
=============================================================================
