------------------------ MODULE ReviewWorkflowProofs ------------------------
EXTENDS ReviewRefinement, ReviewStoreProofs

(* What a worker reads is well-typed. *)
LEMMA RowTypes ==
  ASSUME TypeOK
  PROVE  /\ Reconcilable \in SUBSET Row
         /\ Due \subseteq Revisions
         /\ \A w \in Workers : \A row \in todo[w] :
              /\ row.rev \in Revisions
              /\ row.decision \in DecisionIds \cup {NoDecision}
  <1>1. \A w \in Workers : todo[w] \in SUBSET Row
    BY DEF TypeOK
  <1>2. Reconcilable \in SUBSET Row
    BY DEF TypeOK, StoreTypeOK, Reconcilable, Row
  <1>3. QED BY <1>1, <1>2 DEF Row, Due

(* Every step of the workflow is a transaction of the store or leaves the  *)
(* store alone.                                                            *)
LEMMA StoreStep ==
  ASSUME TypeOK, Next
  PROVE  [StoreNext]_storeVars
  <1> USE DEF StoreNext
  <1>1. CASE ClientStep
    BY <1>1 DEF ClientStep, ClientTx
  <1>2. ASSUME NEW w \in Workers, Apply(w) \/ ApplyCorrupt(w)
        PROVE  [StoreNext]_storeVars
    <2>1. PICK row \in todo[w] :
            \/ ApplyPending(w, row) \/ ApplyCompleted(w, row)
            \/ ApplyInterrupted(w, row) \/ ApplyMismatch(w, row)
            \/ GiveUpRow(w, row)
      BY <1>2 DEF Apply, ApplyCorrupt
    <2>2. /\ row.rev \in Revisions
          /\ row.decision \in DecisionIds \cup {NoDecision}
      BY RowTypes
    <2>3. \/ MarkWaitingDecision(row.rev)
          \/ ReconcileResolution(row.rev, row.decision)
          \/ ReleaseExpiredLease(row.rev)
          \/ ReconcilerGivesUp(row.rev)
          \/ UNCHANGED storeVars
      BY <2>1 DEF ApplyPending, ApplyCompleted, ApplyInterrupted, ApplyMismatch,
                  GiveUpRow
    <2>4. QED BY <2>2, <2>3 DEF ReconcilerTx
  <1>3. ASSUME NEW w \in Workers, Claim(w)
        PROVE  [StoreNext]_storeVars
    BY <1>3, RowTypes DEF Claim, WorkerTx
  <1>4. ASSUME NEW w \in Workers,
               \/ CompleteCheckpoint(w) \/ MarkResolution(w) \/ Resolve(w)
               \/ Release(w) \/ Recover(w)
        PROVE  [StoreNext]_storeVars
    <2>1. job[w] \in Revisions /\ held[w] \in DecisionIds \cup {NoDecision}
      BY DEF TypeOK
    <2>2. \/ CompleteCheckpointCreation(w, job[w])
          \/ MarkResolutionPending(w, job[w], held[w])
          \/ ResolveReview(w, job[w], held[w])
          \/ ReleaseWorkflowForRetry(w, job[w])
          \/ OwnerGivesUp(w, job[w])
          \/ UNCHANGED storeVars
      BY <1>4 DEF CompleteCheckpoint, MarkResolution, Resolve, Release, Recover
    <2>3. QED BY <2>1, <2>2 DEF WorkerTx
  <1>5. ASSUME NEW w \in Workers,
               \/ Start(w) \/ ListReconcilable(w) \/ Inspect(w) \/ InspectFails(w)
               \/ EnsureWaiting(w) \/ ResumeGraph(w) \/ CallFails(w) \/ Crash(w)
        PROVE  UNCHANGED storeVars
    BY <1>5 DEF Start, ListReconcilable, Inspect, InspectFails, EnsureWaiting,
                ResumeGraph, CallFails, Crash
  <1>6. ASSUME NEW r \in Revisions, Expire(r) \/ CorruptCheckpoint(r)
        PROVE  [StoreNext]_storeVars
    BY <1>6 DEF Expire, CorruptCheckpoint, ReconcilerTx
  <1>7. QED BY <1>1, <1>2, <1>3, <1>4, <1>5, <1>6 DEF Next, WorkerStep

(* run_once raises review_decision_missing before it calls the gate, so a  *)
(* worker that resumes a thread holds a decision.  TypeOK is not inductive *)
(* without this: a thread completes with whatever the worker holds.        *)
ResumesWithDecision ==
  \A w \in Workers : pc[w] = "resume" => held[w] \in DecisionIds

TypeInv == TypeOK /\ ResumesWithDecision

(* The part of TypeOK the worker processes own. *)
ProcessTypeOK ==
  /\ checkpoint \in [Revisions -> Checkpoints]
  /\ pc \in [Workers -> Stages]
  /\ job \in [Workers -> Revisions]
  /\ held \in [Workers -> DecisionIds \cup {NoDecision}]
  /\ todo \in [Workers -> SUBSET Row]
  /\ seen \in [Workers -> Checkpoints]
  /\ expiries \in Nat
  /\ faults \in Nat

LEMMA ProcessStepType ==
  ASSUME TypeOK, ResumesWithDecision, Next
  PROVE  ProcessTypeOK'
  <1> USE DEF TypeOK, ProcessTypeOK, Stages, AtWork, GateStages, WriteStages,
              ErrorStages, Reconciling, Checkpoints, Goto, Move, workerVars
  <1>1. CASE ClientStep
    BY <1>1 DEF ClientStep
  <1>2. ASSUME NEW w \in Workers, Apply(w) \/ ApplyCorrupt(w)
        PROVE  ProcessTypeOK'
    <2>1. PICK row \in todo[w] : NextRow(w, row) \/ AbortReconcile(w)
      BY <1>2 DEF Apply, ApplyCorrupt, ApplyPending, ApplyCompleted,
                  ApplyInterrupted, ApplyMismatch, GiveUpRow
    <2>2. /\ todo' \in [Workers -> SUBSET Row]
          /\ pc' \in [Workers -> Stages]
      BY <2>1 DEF NextRow, AbortReconcile
    <2>3. UNCHANGED <<checkpoint, job, held, seen, expiries, faults>>
      BY <1>2 DEF Apply, ApplyCorrupt
    <2>4. QED BY <2>2, <2>3
  <1>3. ASSUME NEW w \in Workers, Claim(w)
        PROVE  ProcessTypeOK'
    <2>1. PICK r \in Due :
            /\ \E stage \in Stages : pc' = [pc EXCEPT ![w] = stage]
            /\ job' = [job EXCEPT ![w] = r]
            /\ held' = [held EXCEPT ![w] = decision[r]]
            /\ UNCHANGED <<checkpoint, todo, seen, expiries, faults>>
      BY <1>3 DEF Claim, FirstStage
    <2>2. r \in Revisions /\ decision[r] \in DecisionIds \cup {NoDecision}
      BY <2>1 DEF Due, StoreTypeOK
    <2>3. QED BY <2>1, <2>2
  <1>4. ASSUME NEW w \in Workers,
               \/ CompleteCheckpoint(w) \/ MarkResolution(w) \/ Resolve(w)
               \/ Release(w) \/ Recover(w)
        PROVE  ProcessTypeOK'
    <2>1. \E stage \in Stages : pc' = [pc EXCEPT ![w] = stage]
      BY <1>4 DEF CompleteCheckpoint, MarkResolution, Resolve, Release, Recover
    <2>2. UNCHANGED <<checkpoint, job, held, todo, seen, expiries, faults>>
      BY <1>4 DEF CompleteCheckpoint, MarkResolution, Resolve, Release, Recover
    <2>3. QED BY <2>1, <2>2
  <1>5. ASSUME NEW w \in Workers,
               Start(w) \/ CallFails(w) \/ Crash(w) \/ InspectFails(w)
        PROVE  ProcessTypeOK'
    BY <1>5 DEF Start, CallFails, Crash, InspectFails
  <1>6. ASSUME NEW w \in Workers, ListReconcilable(w) \/ Inspect(w)
        PROVE  ProcessTypeOK'
    BY <1>6, RowTypes DEF ListReconcilable, Inspect
  <1>7. ASSUME NEW w \in Workers, EnsureWaiting(w)
        PROVE  ProcessTypeOK'
    BY <1>7 DEF EnsureWaiting
  <1>8. ASSUME NEW w \in Workers, ResumeGraph(w)
        PROVE  ProcessTypeOK'
    <2>1. /\ \E stage \in Stages : pc' = [pc EXCEPT ![w] = stage]
          /\ UNCHANGED <<job, todo, seen, expiries, faults>>
      BY <1>8 DEF ResumeGraph
    <2>2. PICK point \in Checkpoints :
            \/ /\ checkpoint' = [checkpoint EXCEPT ![job[w]] = held[w]]
               /\ held[w] \in DecisionIds /\ held' = held
            \/ /\ held' = [held EXCEPT ![w] = point]
               /\ point \in DecisionIds /\ checkpoint' = checkpoint
            \/ UNCHANGED <<checkpoint, held>>
      BY <1>8 DEF ResumeGraph, ResumesWithDecision
    <2>3. QED BY <2>1, <2>2
  <1>9. ASSUME NEW r \in Revisions, Expire(r) \/ CorruptCheckpoint(r)
        PROVE  ProcessTypeOK'
    BY <1>9 DEF Expire, CorruptCheckpoint
  <1>10. QED BY <1>1, <1>2, <1>3, <1>4, <1>5, <1>6, <1>7, <1>8, <1>9
         DEF Next, WorkerStep

LEMMA ResumeStep ==
  ASSUME TypeOK, ResumesWithDecision, Next
  PROVE  ResumesWithDecision'
  <1> USE DEF TypeOK, ResumesWithDecision, Goto, Move, workerVars
  <1>1. CASE ClientStep
    BY <1>1 DEF ClientStep
  <1>2. ASSUME NEW w \in Workers,
               /\ UNCHANGED held
               /\ \E stage \in Stages \ {"resume"} : pc' = [pc EXCEPT ![w] = stage]
        PROVE  ResumesWithDecision'
    BY <1>2
  <1>3. ASSUME NEW w \in Workers, Claim(w)
        PROVE  ResumesWithDecision'
    <2>1. PICK r \in Due :
            /\ held' = [held EXCEPT ![w] = decision[r]]
            /\ \E stage \in Stages :
                 /\ pc' = [pc EXCEPT ![w] = stage]
                 /\ stage = "resume" => decision[r] # NoDecision
      BY <1>3 DEF Claim, FirstStage, Stages, AtWork, GateStages, WriteStages, ErrorStages
    <2>2. decision[r] \in DecisionIds \cup {NoDecision}
      BY <2>1 DEF Due, StoreTypeOK
    <2>3. QED BY <2>1, <2>2
  <1>4. ASSUME NEW w \in Workers, ResumeGraph(w)
        PROVE  ResumesWithDecision'
    <2>1. \E stage \in Stages \ {"resume"} : pc' = [pc EXCEPT ![w] = stage]
      BY <1>4 DEF ResumeGraph, Stages, AtWork, WriteStages, ErrorStages
    <2>2. \E d \in DecisionIds \cup {NoDecision} : held' = [held EXCEPT ![w] = d]
      BY <1>4 DEF ResumeGraph
    <2>3. QED BY <2>1, <2>2
  <1>5. ASSUME NEW w \in Workers,
               \/ Start(w) \/ ListReconcilable(w) \/ Inspect(w) \/ InspectFails(w)
               \/ EnsureWaiting(w) \/ CompleteCheckpoint(w) \/ MarkResolution(w)
               \/ Resolve(w) \/ Release(w) \/ Recover(w) \/ CallFails(w) \/ Crash(w)
        PROVE  /\ UNCHANGED held
               /\ \E stage \in Stages \ {"resume"} : pc' = [pc EXCEPT ![w] = stage]
    BY <1>5 DEF Start, ListReconcilable, Inspect, InspectFails, EnsureWaiting,
         CompleteCheckpoint, MarkResolution, Resolve, Release, Recover, CallFails,
         Crash, Stages, AtWork, GateStages, WriteStages, ErrorStages, Reconciling
  <1>6. ASSUME NEW w \in Workers, Apply(w) \/ ApplyCorrupt(w)
        PROVE  /\ UNCHANGED held
               /\ \E stage \in Stages \ {"resume"} : pc' = [pc EXCEPT ![w] = stage]
    BY <1>6 DEF Apply, ApplyCorrupt, ApplyPending, ApplyCompleted, ApplyInterrupted,
         ApplyMismatch, GiveUpRow, NextRow, AbortReconcile, Stages, Reconciling
  <1>7. ASSUME NEW r \in Revisions, Expire(r) \/ CorruptCheckpoint(r)
        PROVE  ResumesWithDecision'
    BY <1>7 DEF Expire, CorruptCheckpoint
  <1>8. QED BY <1>1, <1>2, <1>3, <1>4, <1>5, <1>6, <1>7 DEF Next, WorkerStep

LEMMA TypeStep == TypeInv /\ [Next]_vars => TypeInv'
  <1>1. ASSUME TypeInv, Next PROVE TypeInv'
    <2>1. StoreTypeOK'
      BY <1>1, StoreStep, StoreStepType DEF TypeOK, TypeInv
    <2>2. QED BY <1>1, <2>1, ProcessStepType, ResumeStep
              DEF TypeOK, TypeInv, ProcessTypeOK
  <1>2. ASSUME TypeInv, UNCHANGED vars PROVE TypeInv'
    BY <1>2 DEF TypeInv, ResumesWithDecision, TypeOK, StoreTypeOK, vars, storeVars,
                workflowVars, decisionVars, outcomeVars, workerVars
  <1>3. QED BY <1>1, <1>2

LEMMA TypeInit == Init => TypeInv
  BY StoreInitType, RevisionsNat
  DEF Init, TypeOK, TypeInv, ResumesWithDecision, NoJob, Checkpoints, Stages

LEMMA TypeInvariance == Spec => []TypeInv
  BY TypeInit, TypeStep, PTL DEF Spec

(* Every variable of the workers, gate and database keeps its type.        *)
THEOREM TypeCorrect == Spec => []TypeOK
  <1>1. TypeInv => TypeOK
    BY DEF TypeInv
  <1>2. QED BY <1>1, TypeInvariance, PTL

-----------------------------------------------------------------------------
(* The store's invariant under every interleaving of the workflow.         *)

SafetyInv == TypeInv /\ StoreInvariant

LEMMA SafetyStep == SafetyInv /\ [Next]_vars => SafetyInv'
  <1>1. ASSUME SafetyInv, [Next]_vars PROVE StoreInvariant'
    <2>1. [StoreNext]_storeVars
      BY <1>1, StoreStep DEF SafetyInv, TypeInv, vars
    <2>2. QED BY <1>1, <2>1, StoreInvariantStep DEF SafetyInv, TypeInv, TypeOK
  <1>2. QED BY <1>1, TypeStep DEF SafetyInv

LEMMA SafetyInvariance == Spec => []SafetyInv
  <1>1. Init => SafetyInv
    BY TypeInit, StoreInvariantInit DEF Init, SafetyInv
  <1>2. QED BY <1>1, SafetyStep, PTL DEF Spec

LEMMA SafetyImplies ==
  SafetyInv => LeaseHasOpenAttempt /\ DeliveryAuthorized /\ DecisionStaysFresh
                 /\ ResolutionMatchesDecision
  BY InvariantImplies DEF SafetyInv, TypeInv, TypeOK

(* Whatever the workers, reconcilers, reviewers and evidence verification  *)
(* do, in any number and order, delivery is ready only on authority.       *)
THEOREM DeliveryIsAuthorized == Spec => []DeliveryAuthorized
  BY SafetyInvariance, SafetyImplies, PTL

(* The whole inductive invariant of the tables. *)
THEOREM TablesStayCoherent == Spec => []StoreInvariant
  <1>1. SafetyInv => StoreInvariant
    BY DEF SafetyInv
  <1>2. QED BY <1>1, SafetyInvariance, PTL

(* Nothing overtakes an accepted decision before it is settled. *)
THEOREM DecisionsStayFresh == Spec => []DecisionStaysFresh
  BY SafetyInvariance, SafetyImplies, PTL

(* Each review has at most one outcome, the one its decision asked for. *)
THEOREM ResolutionsMatchDecisions == Spec => []ResolutionMatchesDecision
  BY SafetyInvariance, SafetyImplies, PTL

(* A held lease comes with the holder's open attempt row. *)
THEOREM LeasesHaveOpenAttempts == Spec => []LeaseHasOpenAttempt
  BY SafetyInvariance, SafetyImplies, PTL

(* No step of any actor reopens an ended workflow. *)
THEOREM TerminalStaysFinal == Spec => TerminalIsFinal
  <1>1. SafetyInv /\ [Next]_vars =>
          [\A r \in Revisions : status[r] \in Terminal => status'[r] = status[r]]_vars
    BY StoreStep, TerminalStep DEF SafetyInv, TypeInv, TypeOK
  <1>2. QED BY <1>1, SafetyInvariance, PTL DEF Spec, TerminalIsFinal

(* No step of any actor changes a stale publication or its resolution. *)
THEOREM StaleStaysHistory == Spec => StaleIsHistory
  <1>1. SafetyInv /\ [Next]_vars =>
          [\A r \in Revisions : pub[r].status = "stale" =>
             pub'[r] = pub[r] /\ resolution'[r] = resolution[r]]_vars
    BY StoreStep, StaleStep DEF SafetyInv, TypeInv, TypeOK
  <1>2. QED BY <1>1, SafetyInvariance, PTL DEF Spec, StaleIsHistory

LEMMA ResolutionStep ==
  ASSUME TypeOK, Next, NEW r \in Revisions, resolution'[r] # resolution[r]
  PROVE  lease[r] = "live" /\ pc[owner[r]] = "resolve" /\ job[owner[r]] = r
  <1> USE DEF TypeOK, StoreTypeOK
  <1>1. PICK w \in Workers : Resolve(w)
    <2>1. ASSUME ClientStep PROVE resolution' = resolution
      <3>1. CASE AcceptVerification \/ FinalizePublication
        BY <3>1, Zenon DEF AcceptVerification, FinalizePublication
      <3>2. QED BY <2>1, <3>1 DEF ClientStep, ComposeDecision, AcceptDecision, outcomeVars
    <2>2. ASSUME NEW w \in Workers, Apply(w) \/ ApplyCorrupt(w)
          PROVE  resolution' = resolution
      BY <2>2 DEF Apply, ApplyCorrupt, ApplyPending, ApplyCompleted, ApplyInterrupted,
         ApplyMismatch, GiveUpRow, MarkWaitingDecision, ReconcileResolution,
         ReleaseExpiredLease, ReconcilerGivesUp, storeVars, outcomeVars
    <2>3. ASSUME NEW w \in Workers,
                 \/ Claim(w) \/ CompleteCheckpoint(w) \/ MarkResolution(w)
                 \/ Release(w) \/ Recover(w)
          PROVE  resolution' = resolution
      BY <2>3 DEF Claim, ClaimReviewWorkflow, CompleteCheckpoint,
         CompleteCheckpointCreation, MarkResolution, MarkResolutionPending, Release,
         ReleaseWorkflowForRetry, Recover, OwnerGivesUp, storeVars, outcomeVars
    <2>4. ASSUME NEW w \in Workers,
                 \/ Start(w) \/ ListReconcilable(w) \/ Inspect(w) \/ InspectFails(w)
                 \/ EnsureWaiting(w) \/ ResumeGraph(w) \/ CallFails(w) \/ Crash(w)
          PROVE  resolution' = resolution
      BY <2>4 DEF Start, ListReconcilable, Inspect, InspectFails, EnsureWaiting,
         ResumeGraph, CallFails, Crash, storeVars, outcomeVars
    <2>5. ASSUME NEW q \in Revisions, Expire(q) \/ CorruptCheckpoint(q)
          PROVE  resolution' = resolution
      BY <2>5 DEF Expire, ExpireLease, CorruptCheckpoint, storeVars, outcomeVars
    <2>6. QED BY <2>1, <2>2, <2>3, <2>4, <2>5 DEF Next, WorkerStep
  <1>2. ResolveReview(w, job[w], held[w])
    BY <1>1 DEF Resolve, storeVars, outcomeVars
  <1>3. job[w] = r
    BY <1>2 DEF ResolveReview
  <1>4. QED BY <1>1, <1>2, <1>3 DEF Resolve, ResolveReview, CanResolve, Owned

(* Only the holder of a live lease, in run_once's resolve step, resolves a *)
(* review: no stale worker, reconciler or reviewer request does.           *)
THEOREM ResolutionsUnderLease == Spec => ResolvedUnderLease
  <1>1. SafetyInv /\ [Next]_vars =>
          [\A r \in Revisions : resolution'[r] # resolution[r] =>
             lease[r] = "live" /\ pc[owner[r]] = "resolve" /\ job[owner[r]] = r]_vars
    BY ResolutionStep DEF SafetyInv, TypeInv
  <1>2. QED BY <1>1, SafetyInvariance, PTL DEF Spec, ResolvedUnderLease

-----------------------------------------------------------------------------
(* The checkpoint database never runs ahead of the application database.   *)

(* A worker that resumes a thread holds the decision accepted for it.      *)
GateInv ==
  /\ \A w \in Workers : pc[w] = "resume" => held[w] = decision[job[w]]
  /\ \A r \in Revisions :
       checkpoint[r] \in DecisionIds => checkpoint[r] = decision[r]

LEMMA GateStep == SafetyInv /\ GateInv /\ [Next]_vars => GateInv'
  <1> SUFFICES ASSUME SafetyInv, GateInv, [Next]_vars PROVE GateInv'
    OBVIOUS
  <1> USE DEF TypeOK, ResumesWithDecision, Goto, Move
  <1>0. TypeOK /\ ResumesWithDecision /\ StoreTypeOK /\ StoreInvariant
    BY DEF SafetyInv, TypeInv
  <1>1. CASE UNCHANGED vars
    BY <1>1 DEF GateInv, vars, storeVars, workflowVars, workerVars
  <1>2. ASSUME Next PROVE GateInv'
    <2>1. \A r \in Revisions : decision[r] \in DecisionIds => decision'[r] = decision[r]
      BY <1>0, <1>2, StoreStep, DecisionStep
    <2>2. ASSUME UNCHANGED <<checkpoint, held, job>>,
                 \A w \in Workers : pc'[w] = "resume" => pc[w] = "resume"
          PROVE  GateInv'
      BY <1>0, <2>1, <2>2 DEF GateInv
    <2>3. ASSUME NEW w \in Workers, NEW stage \in Stages \ {"resume"},
                 pc' = [pc EXCEPT ![w] = stage]
          PROVE  \A v \in Workers : pc'[v] = "resume" => pc[v] = "resume"
      BY <1>0, <2>3
    <2>4. CASE ClientStep
      BY <2>2, <2>4 DEF ClientStep, workerVars
    <2>5. ASSUME NEW w \in Workers,
               \/ Start(w) \/ ListReconcilable(w) \/ Inspect(w) \/ InspectFails(w)
               \/ CompleteCheckpoint(w) \/ MarkResolution(w)
               \/ Resolve(w) \/ Release(w) \/ Recover(w) \/ CallFails(w) \/ Crash(w)
          PROVE  GateInv'
      <3>1. /\ UNCHANGED <<checkpoint, held, job>>
            /\ \E stage \in Stages \ {"resume"} : pc' = [pc EXCEPT ![w] = stage]
        BY <2>5 DEF Start, ListReconcilable, Inspect, InspectFails,
           CompleteCheckpoint, MarkResolution, Resolve, Release, Recover, CallFails,
           Crash, Stages, AtWork, GateStages, WriteStages, ErrorStages, Reconciling
      <3>2. QED BY <2>2, <2>3, <3>1
    <2>6. ASSUME NEW w \in Workers, Apply(w) \/ ApplyCorrupt(w)
          PROVE  GateInv'
      <3>1. /\ UNCHANGED <<checkpoint, held, job>>
            /\ \E stage \in Stages \ {"resume"} : pc' = [pc EXCEPT ![w] = stage]
        BY <2>6 DEF Apply, ApplyCorrupt, ApplyPending, ApplyCompleted, ApplyInterrupted,
           ApplyMismatch, GiveUpRow, NextRow, AbortReconcile, Stages, Reconciling
      <3>2. QED BY <2>2, <2>3, <3>1
    <2>7. ASSUME NEW w \in Workers, Claim(w)
          PROVE  GateInv'
      <3>1. PICK r \in Due :
              /\ ClaimReviewWorkflow(w, r)
              /\ job' = [job EXCEPT ![w] = r]
              /\ held' = [held EXCEPT ![w] = decision[r]]
              /\ checkpoint' = checkpoint
              /\ \A v \in Workers : v # w => pc'[v] = pc[v]
        BY <1>0, <2>7 DEF Claim
      <3>2. r \in Revisions /\ decision' = decision
        BY <3>1, RowTypes, <1>0 DEF ClaimReviewWorkflow
      <3>3. QED BY <1>0, <3>1, <3>2 DEF GateInv
    <2>8. ASSUME NEW w \in Workers, EnsureWaiting(w)
          PROVE  GateInv'
      <3>1. /\ UNCHANGED <<held, job>>
            /\ pc' = [pc EXCEPT ![w] = "complete"]
            /\ checkpoint' = [checkpoint EXCEPT ![job[w]] = "interrupted"]
        BY <2>8 DEF EnsureWaiting
      <3>2. "interrupted" \notin DecisionIds
        BY WorkflowAssumption
      <3>3. QED BY <1>0, <2>1, <3>1, <3>2 DEF GateInv
    <2>9. ASSUME NEW w \in Workers, ResumeGraph(w)
          PROVE  GateInv'
      <3>1. /\ UNCHANGED job
            /\ \E stage \in Stages \ {"resume"} : pc' = [pc EXCEPT ![w] = stage]
            /\ \A v \in Workers : v # w => held'[v] = held[v]
            /\ \/ checkpoint' = [checkpoint EXCEPT ![job[w]] = held[w]]
               \/ checkpoint' = checkpoint
            /\ pc[w] = "resume"
        BY <1>0, <2>9 DEF ResumeGraph, Stages, AtWork, WriteStages, ErrorStages
      <3>2. \A v \in Workers : pc'[v] = "resume" => pc[v] = "resume" /\ v # w
        BY <1>0, <3>1
      <3>3. \A r \in Revisions :
              checkpoint'[r] \in DecisionIds => checkpoint'[r] = decision'[r]
        BY <1>0, <2>1, <3>1 DEF GateInv
      <3>4. QED BY <1>0, <2>1, <3>1, <3>2, <3>3 DEF GateInv
    <2>10. ASSUME NEW r \in Revisions, Expire(r)
           PROVE  GateInv'
      BY <2>2, <2>10 DEF Expire, workerVars
    <2>11. ASSUME NEW r \in Revisions, CorruptCheckpoint(r)
           PROVE  GateInv'
      <3>1. /\ UNCHANGED <<pc, held, job>>
            /\ \E point \in {"absent", "mismatched"} :
                 checkpoint' = [checkpoint EXCEPT ![r] = point]
        BY <2>11 DEF CorruptCheckpoint, workerVars
      <3>2. QED BY <1>0, <2>1, <3>1, WorkflowAssumption DEF GateInv
    <2>12. QED BY <1>2, <2>4, <2>5, <2>6, <2>7, <2>8, <2>9, <2>10, <2>11
           DEF Next, WorkerStep
  <1>3. QED BY <1>1, <1>2

(* A gate thread completes only with the decision already accepted for its *)
(* review, whichever worker resumed it and however late.                   *)
THEOREM GateFollowsDecision == Spec => []GateHoldsAcceptedDecision
  <1>1. Init => GateInv
    BY WorkflowAssumption DEF Init, GateInv
  <1>2. SafetyInv /\ GateInv => GateHoldsAcceptedDecision
    BY DEF SafetyInv, StoreInvariant, DecisionRows, GateInv, GateHoldsAcceptedDecision
  <1>3. Spec => []GateInv
    BY <1>1, GateStep, SafetyInvariance, PTL DEF Spec
  <1>4. QED BY <1>2, <1>3, SafetyInvariance, PTL
-----------------------------------------------------------------------------
(* A review that asks for a decision has a thread that waits for it.       *)

Asking == {"waiting_decision", "resume_pending", "resuming"}

(* Until the checkpoint database is damaged, a thread once created exists. *)
(* The worker about to confirm a thread has created it, and the reconciler *)
(* that read a waiting thread still has the row it read it for.            *)
CheckpointRows ==
  faults = 0 =>
    /\ \A r \in Revisions :
         /\ checkpoint[r] # "mismatched"
         /\ status[r] \in Asking => checkpoint[r] # "absent"
    /\ \A w \in Workers :
         /\ pc[w] = "complete" => checkpoint[job[w]] # "absent"
         /\ pc[w] = "apply" /\ seen[w] # "absent" =>
              \A row \in todo[w] : FirstRow(w, row) => checkpoint[row.rev] # "absent"

(* A step creates no damage, and where a workflow starts to ask for a      *)
(* decision or a process reaches one of the two stages, the thread exists. *)
LEMMA CheckpointKept ==
  ASSUME CheckpointRows, faults' = faults, UNCHANGED <<job, todo, seen>>,
         \A r \in Revisions : checkpoint'[r] = checkpoint[r]
                               \/ checkpoint'[r] \notin {"absent", "mismatched"},
         \A r \in Revisions : status'[r] \in Asking =>
                               status[r] \in Asking \/ checkpoint'[r] # "absent",
         \A w \in Workers : job[w] \in Revisions /\ \A row \in todo[w] : row.rev \in Revisions,
         \A w \in Workers :
           /\ pc'[w] = "complete" => pc[w] = "complete" \/ checkpoint'[job[w]] # "absent"
           /\ pc'[w] = "apply" => pc[w] = "apply"
  PROVE  CheckpointRows'
  BY DEF CheckpointRows, FirstRow
LEMMA CheckpointStep ==
  ASSUME TypeOK, ResumesWithDecision, CheckpointRows, Next
  PROVE  CheckpointRows'
  <1> USE DEF TypeOK, StoreTypeOK
  <1>1. \A w \in Workers : job[w] \in Revisions /\ \A row \in todo[w] : row.rev \in Revisions
    BY RowTypes
  <1>2. ASSUME faults' = faults, UNCHANGED <<job, todo, seen, checkpoint>>,
               \A r \in Revisions : status'[r] \in Asking =>
                                     status[r] \in Asking \/ checkpoint[r] # "absent",
               \A w \in Workers : pc'[w] \in {"complete", "apply"} => pc[w] = pc'[w]
        PROVE  CheckpointRows'
    BY <1>1, <1>2, CheckpointKept
  <1>3. ASSUME NEW w \in Workers, NEW stage \in Stages \ {"complete", "apply"},
               pc' = [pc EXCEPT ![w] = stage]
        PROVE  \A v \in Workers : pc'[v] \in {"complete", "apply"} => pc[v] = pc'[v]
    BY <1>3
  <1>4. CASE ClientStep
    <2>1. \A r \in Revisions : status'[r] \in Asking => status[r] \in Asking
      <3>1. CASE AcceptVerification
        <4>1. \A r \in Revisions : status'[r] \in {"superseded", status[r]}
          BY <3>1 DEF AcceptVerification
        <4>2. QED BY <4>1 DEF Asking
      <3>2. CASE FinalizePublication
        <4>1. \A r \in Revisions : status'[r] \in {"checkpoint_pending", status[r]}
          BY <3>2 DEF FinalizePublication, InsertWorkflow, SetStatus
        <4>2. QED BY <4>1 DEF Asking
      <3>3. CASE \E d \in DecisionIds : AcceptDecision(d)
        BY <3>3 DEF AcceptDecision, AwaitsDecision, SetStatus, Asking
      <3>4. CASE \E d \in DecisionIds, r \in Revisions, a \in Actions :
                   ComposeDecision(d, r, a)
        BY <3>4 DEF ComposeDecision, workflowVars
      <3>5. QED BY <1>4, <3>1, <3>2, <3>3, <3>4 DEF ClientStep
    <2>2. QED BY <1>2, <1>4, <2>1 DEF ClientStep, workerVars
  <1>5. ASSUME NEW w \in Workers, Apply(w) \/ ApplyCorrupt(w)
        PROVE  CheckpointRows'
    <2>1. PICK row \in todo[w] :
            /\ FirstRow(w, row)
            /\ \/ /\ pc[w] = "apply"
                  /\ ApplyPending(w, row) \/ ApplyCompleted(w, row)
                       \/ ApplyInterrupted(w, row) \/ ApplyMismatch(w, row)
               \/ GiveUpRow(w, row)
      BY <1>5 DEF Apply, ApplyCorrupt
    <2>2. row.rev \in Revisions
      BY <1>1
    <2>3. NextRow(w, row) \/ AbortReconcile(w)
      BY <2>1 DEF ApplyPending, ApplyCompleted, ApplyInterrupted, ApplyMismatch, GiveUpRow
    <2>4. \A v \in Workers : v # w => pc'[v] = pc[v] /\ todo'[v] = todo[v]
      BY <2>3 DEF NextRow, AbortReconcile, Goto
    <2>5. pc'[w] \notin {"complete", "apply"}
      BY <2>3 DEF NextRow, AbortReconcile, Goto
    <2>6. faults = 0 => \A r \in Revisions :
            status'[r] \in Asking => status[r] \in Asking \/ checkpoint[r] # "absent"
      <3>1. CASE ApplyPending(w, row) /\ pc[w] = "apply"
        <4>1. \/ status' = status
              \/ /\ seen[w] # "absent"
                 /\ status' = [status EXCEPT ![row.rev] = "waiting_decision"]
          BY <3>1 DEF ApplyPending, MarkWaitingDecision, SetStatus, Waiting,
                      storeVars, workflowVars
        <4>2. faults = 0 /\ seen[w] # "absent" => checkpoint[row.rev] # "absent"
          BY <2>1, <3>1 DEF CheckpointRows
        <4>3. QED BY <2>2, <4>1, <4>2
      <3>2. CASE ApplyCompleted(w, row) \/ ApplyInterrupted(w, row)
                 \/ ApplyMismatch(w, row) \/ GiveUpRow(w, row)
        BY <2>2, <3>2 DEF ApplyCompleted, ApplyInterrupted, ApplyMismatch, GiveUpRow,
           ReconcileResolution, ReleaseExpiredLease, CanReleaseExpired, ReconcilerGivesUp,
           SetStatus, storeVars, workflowVars, Asking
      <3>3. QED BY <2>1, <3>1, <3>2
    <2>7. UNCHANGED <<checkpoint, job, held, seen, faults>>
      BY <1>5 DEF Apply, ApplyCorrupt
    <2>8. QED BY <2>4, <2>5, <2>6, <2>7 DEF CheckpointRows, FirstRow
  <1>6. ASSUME NEW w \in Workers, Claim(w)
        PROVE  CheckpointRows'
    <2>1. PICK r \in Due :
            /\ ClaimReviewWorkflow(w, r)
            /\ job' = [job EXCEPT ![w] = r]
            /\ \E stage \in Stages \ {"complete", "apply"} : pc' = [pc EXCEPT ![w] = stage]
            /\ UNCHANGED <<checkpoint, todo, seen, faults>>
      BY <1>6 DEF Claim, Move, Goto, FirstStage, Stages, AtWork, GateStages,
                  WriteStages, ErrorStages
    <2>2. \A q \in Revisions : status'[q] \in Asking => status[q] \in Asking
      BY <2>1, RowTypes DEF ClaimReviewWorkflow, SetStatus, Asking
    <2>3. \A v \in Workers : pc'[v] \in {"complete", "apply"} =>
                              pc[v] = pc'[v] /\ job'[v] = job[v]
      BY <2>1
    <2>4. QED BY <1>1, <2>1, <2>2, <2>3 DEF CheckpointRows, FirstRow
  <1>7. ASSUME NEW w \in Workers, CompleteCheckpoint(w)
        PROVE  CheckpointRows'
    <2>1. \E stage \in Stages \ {"complete", "apply"} : pc' = [pc EXCEPT ![w] = stage]
      BY <1>7 DEF CompleteCheckpoint, Goto, Stages, AtWork, ErrorStages
    <2>2. \/ status' = status
          \/ status' = [status EXCEPT ![job[w]] = "waiting_decision"]
      BY <1>7 DEF CompleteCheckpoint, CompleteCheckpointCreation, SetStatus,
                  storeVars, workflowVars
    <2>3. /\ pc[w] = "complete"
          /\ UNCHANGED <<checkpoint, job, todo, seen, faults>>
      BY <1>7 DEF CompleteCheckpoint
    <2>4. CASE faults = 0
      <3>1. checkpoint[job[w]] # "absent"
        BY <2>3, <2>4 DEF CheckpointRows
      <3>2. QED BY <1>2, <1>3, <2>1, <2>2, <2>3, <3>1
    <2>5. QED BY <2>3, <2>4 DEF CheckpointRows
  <1>8. ASSUME NEW w \in Workers,
               \/ MarkResolution(w) \/ Resolve(w) \/ Release(w) \/ Recover(w)
        PROVE  CheckpointRows'
    <2>1. \E stage \in Stages \ {"complete", "apply"} : pc' = [pc EXCEPT ![w] = stage]
      BY <1>8 DEF MarkResolution, Resolve, Release, Recover, Move, Goto, Stages, AtWork,
                  WriteStages, ErrorStages
    <2>2. \A r \in Revisions : status'[r] \in Asking => status[r] \in Asking
      BY <1>8 DEF MarkResolution, Resolve, Release, Recover, MarkResolutionPending,
         ResolveReview, ReleaseWorkflowForRetry, RetryStatus, OwnerGivesUp,
         SetStatus, storeVars, workflowVars, Asking
    <2>3. UNCHANGED <<checkpoint, job, todo, seen, faults>>
      BY <1>8 DEF MarkResolution, Resolve, Release, Recover
    <2>4. QED BY <1>2, <1>3, <2>1, <2>2, <2>3
  <1>9. ASSUME NEW w \in Workers, Start(w) \/ Crash(w)
        PROVE  CheckpointRows'
    <2>1. /\ \E stage \in Stages \ {"complete", "apply"} : pc' = [pc EXCEPT ![w] = stage]
          /\ UNCHANGED <<status, checkpoint, job, todo, seen, faults>>
      BY <1>9 DEF Start, Crash, Move, Goto, Stages, storeVars, workflowVars
    <2>2. QED BY <1>2, <1>3, <2>1
  <1>10. ASSUME NEW w \in Workers, ListReconcilable(w)
         PROVE  CheckpointRows'
    <2>1. /\ \E stage \in Stages \ {"complete", "apply"} : pc' = [pc EXCEPT ![w] = stage]
          /\ todo' = [todo EXCEPT ![w] = Reconcilable]
          /\ UNCHANGED <<status, checkpoint, job, seen, faults>>
      BY <1>10 DEF ListReconcilable, Move, Goto, Stages, Reconciling, storeVars, workflowVars
    <2>2. \A v \in Workers : pc'[v] \in {"complete", "apply"} =>
                              pc[v] = pc'[v] /\ todo'[v] = todo[v]
      BY <2>1
    <2>3. QED BY <2>1, <2>2 DEF CheckpointRows, FirstRow
  <1>11. ASSUME NEW w \in Workers, Inspect(w)
         PROVE  CheckpointRows'
    <2>1. PICK row \in todo[w] :
            FirstRow(w, row) /\ seen' = [seen EXCEPT ![w] = checkpoint[row.rev]]
      BY <1>11 DEF Inspect
    <2>2. /\ pc' = [pc EXCEPT ![w] = "apply"]
          /\ UNCHANGED <<status, checkpoint, job, todo, faults>>
      BY <1>11 DEF Inspect, Move, Goto, storeVars, workflowVars
    <2>3. \A other \in todo[w] : FirstRow(w, other) => other.rev = row.rev
      <3>1. SUFFICES ASSUME NEW other \in todo[w], FirstRow(w, other)
                     PROVE  other.rev = row.rev
        OBVIOUS
      <3>2. row.rev <= other.rev /\ other.rev <= row.rev
        BY <2>1, <3>1 DEF FirstRow
      <3>3. row.rev \in Revisions /\ other.rev \in Revisions
        BY <1>1
      <3>4. \A m, n \in Revisions : m <= n /\ n <= m => m = n
        BY DEF Revisions
      <3>5. QED BY <3>2, <3>3, <3>4, Zenon
    <2>4. seen'[w] = checkpoint[row.rev]
      BY <2>1
    <2>5. \A v \in Workers : v # w => pc'[v] = pc[v] /\ seen'[v] = seen[v]
      BY <2>1, <2>2
    <2>6. QED BY <2>2, <2>3, <2>4, <2>5 DEF CheckpointRows, FirstRow
  <1>12. ASSUME NEW w \in Workers, EnsureWaiting(w)
         PROVE  CheckpointRows'
    <2>1. /\ pc' = [pc EXCEPT ![w] = "complete"]
          /\ checkpoint' = [checkpoint EXCEPT ![job[w]] = "interrupted"]
          /\ UNCHANGED <<status, job, todo, seen, faults>>
      BY <1>12 DEF EnsureWaiting, Move, Goto, storeVars, workflowVars
    <2>2. QED BY <1>1, <2>1, CheckpointKept
  <1>13. ASSUME NEW w \in Workers, ResumeGraph(w)
         PROVE  CheckpointRows'
    <2>1. /\ pc[w] = "resume"
          /\ \E stage \in Stages \ {"complete", "apply"} : pc' = [pc EXCEPT ![w] = stage]
          /\ \/ checkpoint' = [checkpoint EXCEPT ![job[w]] = held[w]]
             \/ checkpoint' = checkpoint
          /\ UNCHANGED <<status, job, todo, seen, faults>>
      BY <1>13 DEF ResumeGraph, Goto, Stages, AtWork, WriteStages, ErrorStages,
                   storeVars, workflowVars
    <2>2. held[w] \notin {"absent", "mismatched"}
      BY <2>1, WorkflowAssumption DEF ResumesWithDecision
    <2>3. \A v \in Workers : pc'[v] \in {"complete", "apply"} => pc[v] = pc'[v]
      BY <1>3, <2>1
    <2>4. QED BY <1>1, <2>1, <2>2, <2>3, CheckpointKept
  <1>14. ASSUME \/ \E w \in Workers : InspectFails(w) \/ CallFails(w)
                \/ \E r \in Revisions : CorruptCheckpoint(r)
         PROVE  CheckpointRows'
    BY <1>14 DEF InspectFails, CallFails, CorruptCheckpoint, CheckpointRows
  <1>15. ASSUME NEW r \in Revisions, Expire(r)
         PROVE  CheckpointRows'
    BY <1>2, <1>15 DEF Expire, ExpireLease, workerVars
  <1>16. QED BY <1>4, <1>5, <1>6, <1>7, <1>8, <1>9, <1>10, <1>11, <1>12, <1>13, <1>14,
                <1>15 DEF Next, WorkerStep

(* A review that asks for a decision has a thread stopped at the interrupt *)
(* or completed with that very decision, as long as nothing has failed.    *)
THEOREM WaitingThreadsExist == Spec => []WaitingHasCheckpoint
  <1>1. Init => GateInv /\ CheckpointRows
    BY WorkflowAssumption DEF Init, StoreInit, GateInv, CheckpointRows, Asking
  <1>2. SafetyInv /\ CheckpointRows /\ [Next]_vars => CheckpointRows'
    <2>1. ASSUME CheckpointRows, UNCHANGED vars PROVE CheckpointRows'
      BY <2>1 DEF CheckpointRows, FirstRow, vars, storeVars, workflowVars, workerVars
    <2>2. QED BY <2>1, CheckpointStep DEF SafetyInv, TypeInv
  <1>3. SafetyInv /\ GateInv /\ CheckpointRows => WaitingHasCheckpoint
    BY DEF SafetyInv, TypeInv, TypeOK, Checkpoints, GateInv, CheckpointRows, Asking,
           WaitingHasCheckpoint
  <1>4. Spec => [](GateInv /\ CheckpointRows)
    BY <1>1, <1>2, GateStep, SafetyInvariance, PTL DEF Spec
  <1>5. QED BY <1>3, <1>4, SafetyInvariance, PTL
-----------------------------------------------------------------------------
(* Refinement of ReviewContract.                                           *)

(* The phases the refinement mapping gives. *)
PhaseTable ==
  \A r \in Revisions :
    /\ pub[r].status = "stale" => phaseBar[r] = "withdrawn"
    /\ pub[r].status # "stale" =>
         /\ status[r] = "none" /\ r > 1 => phaseBar[r] = "unpublished"
         /\ status[r] = "none" /\ ~ r > 1 =>
              phaseBar[r] = IF baseline = "required" THEN "open" ELSE "cleared"
         /\ status[r] \in {"checkpoint_pending", "waiting_decision"} => phaseBar[r] = "open"
         /\ status[r] \in Decided => phaseBar[r] = "decided"
         /\ status[r] = "manual_recovery" => phaseBar[r] = "recovery"
         /\ status[r] = "superseded" => phaseBar[r] = "withdrawn"
         /\ status[r] \in {"approved", "rejected"} => phaseBar[r] = status[r]

LEMMA Phases == PhaseTable /\ PhaseTable'
  <1>1. PhaseTable
    BY DEF PhaseTable, phaseBar, LivePhase, Decided
  <1>2. QED BY <1>1, PTL

LEMMA Verdicts ==
  /\ \A r \in Revisions : decision[r] # NoDecision =>
                            verdictBar[r] = requests[decision[r]].action
  /\ \A r \in Revisions : decision[r] = NoDecision => verdictBar[r] = "none"
  BY DEF verdictBar

(* Statuses that stand for one phase. *)
SamePhase(s, t) ==
  \/ s = t
  \/ {s, t} \subseteq {"checkpoint_pending", "waiting_decision"}
  \/ {s, t} \subseteq Decided

LEMMA PhasesKept ==
  ASSUME UNCHANGED baseline,
         \A r \in Revisions : pub'[r].status = "stale" <=> pub[r].status = "stale",
         \A r \in Revisions : SamePhase(status[r], status'[r])
  PROVE  phaseBar' = phaseBar
  <1> SUFFICES ASSUME NEW r \in Revisions PROVE phaseBar'[r] = phaseBar[r]
    BY DEF phaseBar
  <1>1. CASE pub[r].status = "stale"
    BY <1>1, Phases DEF PhaseTable
  <1>2. CASE status'[r] = status[r]
    BY <1>2 DEF phaseBar, LivePhase
  <1>3. CASE {status[r], status'[r]} \subseteq {"checkpoint_pending", "waiting_decision"}
    BY <1>1, <1>3, Phases DEF PhaseTable
  <1>4. CASE {status[r], status'[r]} \subseteq Decided
    BY <1>1, <1>4, Phases DEF PhaseTable
  <1>5. QED BY <1>2, <1>3, <1>4 DEF SamePhase

(* The bookkeeping of workers and reconcilers: a step within a phase. *)
LEMMA QuietContract ==
  ASSUME StoreTypeOK, NEW r \in Revisions, NEW s, SetStatus(r, s),
         UNCHANGED <<decisionVars, decision, outcomeVars, run>>
  PROVE  /\ SamePhase(status[r], s) => UNCHANGED Contract!contractVars
         /\ s = "manual_recovery" /\ status[r] \in Nonterminal /\ pub[r].status # "stale"
              => Contract!Park(r)
  <1> USE DEF StoreTypeOK
  <1>1. UNCHANGED <<verdictBar, (run.delivery = "ready")>>
    BY DEF verdictBar, decisionVars
  <1>2. /\ \A q \in Revisions : q # r => status'[q] = status[q]
        /\ status'[r] = s /\ UNCHANGED <<pub, baseline>>
    BY DEF SetStatus, outcomeVars
  <1>3. ASSUME SamePhase(status[r], s) PROVE UNCHANGED Contract!contractVars
    <2>1. \A q \in Revisions : SamePhase(status[q], status'[q])
      BY <1>2, <1>3 DEF SamePhase
    <2>2. phaseBar' = phaseBar
      BY <1>2, <2>1, PhasesKept
    <2>3. QED BY <1>1, <2>2 DEF Contract!contractVars
  <1>4. ASSUME s = "manual_recovery", status[r] \in Nonterminal, pub[r].status # "stale"
        PROVE  Contract!Park(r)
    <2>1. phaseBar[r] \in {"open", "decided"}
      BY <1>4, Phases DEF PhaseTable, Nonterminal, Decided
    <2>2. phaseBar' = [phaseBar EXCEPT ![r] = "recovery"]
      <3>1. \A q \in Revisions : q # r => phaseBar'[q] = phaseBar[q]
        BY <1>2 DEF phaseBar, LivePhase
      <3>2. phaseBar'[r] = "recovery"
        BY <1>2, <1>4, Phases DEF PhaseTable
      <3>3. QED BY <3>1, <3>2 DEF phaseBar
    <2>3. QED BY <1>1, <2>1, <2>2 DEF Contract!Park
  <1>5. QED BY <1>3, <1>4
LEMMA WorkerContract ==
  ASSUME StoreTypeOK, StoreInvariant, NEW w \in Workers, NEW r \in Revisions, WorkerTx(w, r)
  PROVE  [Contract!ContractNext]_(Contract!contractVars)
  <1> USE DEF StoreTypeOK
  <1> DEFINE Allowed == [Contract!ContractNext]_(Contract!contractVars)
  <1> SUFFICES Allowed
    OBVIOUS
  <1>0. LeaseHasOpenAttempt /\ RowsInvariant
    BY DEF StoreInvariant, RowsInvariant
  <1>1. status[r] \in Nonterminal => pub[r].status # "stale"
    BY <1>0 DEF RowsInvariant, ReviewRows, PublicationRows, UnderReview, Published
  <1>2. r \in Contract!Revisions
    BY DEF Contract!Revisions, Revisions
  <1>3. ASSUME NEW s, SetStatus(r, s),
               UNCHANGED <<decisionVars, decision, outcomeVars, run>>,
               SamePhase(status[r], s) \/ (s = "manual_recovery" /\ status[r] \in Nonterminal)
        PROVE  Allowed
    BY <1>1, <1>2, <1>3, QuietContract DEF Contract!ContractNext
  <1> HIDE DEF Allowed
  <1>4. CASE ClaimReviewWorkflow(w, r)
    <2>1. SamePhase(status[r], IF status[r] = "resume_pending" THEN "resuming" ELSE status[r])
      BY DEF SamePhase, Decided
    <2>2. QED BY <1>3, <1>4, <2>1 DEF ClaimReviewWorkflow
  <1>5. CASE CompleteCheckpointCreation(w, r)
    BY <1>3, <1>5 DEF CompleteCheckpointCreation, CanCompleteCheckpoint, SamePhase
  <1>6. ASSUME NEW d \in DecisionIds \cup {NoDecision}, MarkResolutionPending(w, r, d)
        PROVE  Allowed
    <2>1. SamePhase(status[r], "resolution_pending")
      BY <1>6 DEF MarkResolutionPending, CanMarkResolution, SamePhase, Decided
    <2>2. QED BY <1>3, <1>6, <2>1 DEF MarkResolutionPending
  <1>7. CASE ReleaseWorkflowForRetry(w, r)
    <2>1. status[r] \in Nonterminal
      BY <1>0, <1>7, OwnedIsUnfinished DEF ReleaseWorkflowForRetry, CanRelease, Nonterminal
    <2>2. SamePhase(status[r], RetryStatus(r)) \/ RetryStatus(r) = "manual_recovery"
      BY DEF SamePhase, RetryStatus, Decided
    <2>3. QED BY <1>3, <1>7, <2>1, <2>2 DEF ReleaseWorkflowForRetry
  <1>8. CASE OwnerGivesUp(w, r)
    <2>1. status[r] \in Nonterminal
      BY <1>0, <1>8, OwnedIsUnfinished DEF OwnerGivesUp, CanOwnerGiveUp, Nonterminal
    <2>2. QED BY <1>3, <1>8, <2>1 DEF OwnerGivesUp
  <1>9. ASSUME NEW d \in DecisionIds \cup {NoDecision}, ResolveReview(w, r, d)
        PROVE  Contract!Settle(r)
    <2>1. /\ status[r] = "resolution_pending" /\ decision[r] = d /\ d \in DecisionIds
          /\ pub[r].status # "stale" /\ requests[d].action \in Actions
      <3>1. /\ status[r] = "resolution_pending" /\ decision[r] = d /\ d \in DecisionIds
            /\ pub[r].status # "stale"
        BY <1>9 DEF ResolveReview, CanResolve, ActiveReview
      <3>2. requests[d].rev = r
        BY <1>0, <3>1 DEF RowsInvariant, DecisionRows
      <3>3. requests[d] # NoRequest
        BY <3>2, RevisionsNat DEF NoRequest, Revisions
      <3>4. QED BY <3>1, <3>3
    <2>2. phaseBar[r] = "decided" /\ verdictBar[r] = requests[d].action
      BY <2>1, Phases, Verdicts, StoreAssumption DEF PhaseTable, Decided
    <2>3. /\ status' = [status EXCEPT ![r] = IF requests[d].action = "approve"
                                             THEN "approved" ELSE "rejected"]
          /\ run'.delivery = IF requests[d].action = "approve" THEN "ready" ELSE "blocked"
          /\ UNCHANGED <<decision, requests, baseline>>
      BY <1>9 DEF ResolveReview, SetStatus, decisionVars
    <2>4. /\ \A q \in Revisions : q # r => pub'[q] = pub[q]
          /\ pub'[r].status # "stale"
      BY <1>9, <2>1 DEF ResolveReview, Publication
    <2>5. phaseBar' = [phaseBar EXCEPT ![r] = IF requests[d].action = "approve"
                                              THEN "approved" ELSE "rejected"]
      <3>1. \A q \in Revisions : q # r => phaseBar'[q] = phaseBar[q]
        BY <2>3, <2>4 DEF phaseBar, LivePhase
      <3>2. phaseBar'[r] = IF requests[d].action = "approve" THEN "approved" ELSE "rejected"
        BY <2>3, <2>4, Phases DEF PhaseTable
      <3>3. QED BY <3>1, <3>2 DEF phaseBar
    <2>6. verdictBar' = verdictBar
      BY <2>3 DEF verdictBar
    <2>7. QED BY <2>2, <2>3, <2>5, <2>6 DEF Contract!Settle
  <1>10. (\E d \in DecisionIds \cup {NoDecision} : ResolveReview(w, r, d)) => Allowed
    BY <1>2, <1>9 DEF Contract!ContractNext, Allowed
  <1>11. QED BY <1>4, <1>5, <1>6, <1>7, <1>8, <1>10 DEF WorkerTx

LEMMA ReconcilerContract ==
  ASSUME StoreTypeOK, StoreInvariant, NEW r \in Revisions, ReconcilerTx(r)
  PROVE  [Contract!ContractNext]_(Contract!contractVars)
  <1> USE DEF StoreTypeOK
  <1> DEFINE Allowed == [Contract!ContractNext]_(Contract!contractVars)
  <1> SUFFICES Allowed
    OBVIOUS
  <1>1. status[r] \in Nonterminal => pub[r].status # "stale"
    BY DEF StoreInvariant, ReviewRows, PublicationRows, UnderReview, Published
  <1>2. r \in Contract!Revisions
    BY DEF Contract!Revisions, Revisions
  <1>3. ASSUME NEW s, SetStatus(r, s),
               UNCHANGED <<decisionVars, decision, outcomeVars, run>>,
               SamePhase(status[r], s) \/ (s = "manual_recovery" /\ status[r] \in Nonterminal)
        PROVE  Allowed
    BY <1>1, <1>2, <1>3, QuietContract DEF Contract!ContractNext
  <1> HIDE DEF Allowed
  <1>4. CASE MarkWaitingDecision(r)
    <2>1. SamePhase(status[r], "waiting_decision")
      BY <1>4 DEF MarkWaitingDecision, SamePhase
    <2>2. QED BY <1>3, <1>4, <2>1 DEF MarkWaitingDecision
  <1>5. ASSUME NEW d \in DecisionIds \cup {NoDecision}, ReconcileResolution(r, d)
        PROVE  Allowed
    <2>1. SamePhase(status[r], "resolution_pending")
      BY <1>5 DEF ReconcileResolution, CanReconcileResolution, SamePhase, Decided
    <2>2. QED BY <1>3, <1>5, <2>1 DEF ReconcileResolution
  <1>6. CASE ReleaseExpiredLease(r)
    <2>1. SamePhase(status[r], "resume_pending")
      BY <1>6 DEF ReleaseExpiredLease, CanReleaseExpired, SamePhase, Decided
    <2>2. QED BY <1>3, <1>6, <2>1 DEF ReleaseExpiredLease
  <1>7. CASE ReconcilerGivesUp(r)
    <2>1. status[r] \in Nonterminal
      BY <1>7 DEF ReconcilerGivesUp, CanReconcilerGiveUp
    <2>2. QED BY <1>3, <1>7, <2>1 DEF ReconcilerGivesUp
  <1>8. CASE ExpireLease(r)
    <2>1. SetStatus(r, status[r])
      BY <1>8 DEF ExpireLease, SetStatus
    <2>2. SamePhase(status[r], status[r])
      BY DEF SamePhase
    <2>3. QED BY <1>3, <1>8, <2>1, <2>2 DEF ExpireLease
  <1>9. QED BY <1>4, <1>5, <1>6, <1>7, <1>8 DEF ReconcilerTx
LEMMA DecisionContract ==
  ASSUME StoreTypeOK, StoreInvariant, NEW d \in DecisionIds, AcceptDecision(d)
  PROVE  \E r \in Revisions, v \in {"approve", "reject"} : Contract!Decide(r, v)
  <1> USE DEF StoreTypeOK
  <1> DEFINE r == requests[d].rev
  <1>1. requests[d] # NoRequest
    BY DEF AcceptDecision
  <1>2. r \in Revisions /\ requests[d].action \in Actions
    BY <1>1
  <1> HIDE DEF r
  <1>3. status[r] = "waiting_decision" /\ pub[r].status # "stale"
    BY DEF AcceptDecision, AwaitsDecision, ActiveReview, r
  <1>4. /\ status' = [status EXCEPT ![r] = "resume_pending"]
        /\ decision' = [decision EXCEPT ![r] = d]
        /\ UNCHANGED <<requests, pub, baseline>>
    BY DEF AcceptDecision, SetStatus, outcomeVars, r
  <1>5. run'.delivery = run.delivery
    BY DEF AcceptDecision
  <1>6. phaseBar[r] = "open"
    BY <1>2, <1>3, Phases DEF PhaseTable
  <1>7. phaseBar' = [phaseBar EXCEPT ![r] = "decided"]
    <2>1. \A q \in Revisions : q # r => phaseBar'[q] = phaseBar[q]
      BY <1>4 DEF phaseBar, LivePhase
    <2>2. phaseBar'[r] = "decided"
      BY <1>2, <1>3, <1>4, Phases DEF PhaseTable, Decided
    <2>3. QED BY <2>1, <2>2 DEF phaseBar
  <1>8. verdictBar' = [verdictBar EXCEPT ![r] = requests[d].action]
    BY <1>2, <1>4, StoreAssumption DEF verdictBar
  <1>9. Contract!Decide(r, requests[d].action)
    BY <1>5, <1>6, <1>7, <1>8 DEF Contract!Decide
  <1>10. QED BY <1>2, <1>9 DEF Actions

(* Composing a request touches no accepted one. *)
LEMMA ComposeContract ==
  ASSUME StoreTypeOK, StoreInvariant, NEW d \in DecisionIds, NEW r \in Revisions,
         NEW a \in Actions, ComposeDecision(d, r, a)
  PROVE  UNCHANGED Contract!contractVars
  <1>1. \A q \in Revisions : decision[q] \in DecisionIds => decision[q] # d
    BY RevisionsNat DEF ComposeDecision, StoreInvariant, DecisionRows, NoRequest, Revisions
  <1>2. /\ \A e \in DecisionIds : e # d => requests'[e] = requests[e]
        /\ UNCHANGED <<status, decision, pub, baseline, run>>
    BY DEF ComposeDecision, StoreTypeOK, workflowVars, outcomeVars
  <1>3. phaseBar' = phaseBar
    BY <1>2 DEF phaseBar, LivePhase
  <1>4. verdictBar' = verdictBar
    BY <1>1, <1>2 DEF verdictBar, StoreTypeOK
  <1>5. QED BY <1>2, <1>3, <1>4 DEF Contract!contractVars

(* Adoption gives no revision another phase. *)
LEMMA VerificationContract ==
  ASSUME StoreTypeOK, StoreInvariant, AcceptVerification
  PROVE  [\E r \in Revisions : Contract!Withdraw(r)]_(Contract!contractVars)
  <1> USE DEF StoreTypeOK
  <1>0. RowsInvariant
    BY DEF StoreInvariant, RowsInvariant
  <1>1. PICK pubs : pubs = AdoptedBaseline /\ AdoptedOK(pubs)
    BY <1>0, AdoptedRows
  <1>2. \A r \in Revisions :
          pub'[r].status = IF pubs[r].current THEN "stale" ELSE pubs[r].status
    BY <1>1, StaledRows
  <1>3. UNCHANGED <<decision, requests, baseline>>
    BY Zenon DEF AcceptVerification, decisionVars
  <1>4. verdictBar' = verdictBar
    BY <1>3 DEF verdictBar
  <1>5. \A r \in Revisions : ~ pubs[r].current =>
          status'[r] = status[r] /\ (pub'[r].status = "stale" <=> pub[r].status = "stale")
    <2>1. \A r \in Revisions : ~ pubs[r].current => status'[r] = status[r]
      BY <1>1 DEF AcceptVerification
    <2>2. \A r \in Revisions : pubs[r].status = "stale" <=> pub[r].status = "stale"
      BY <1>1 DEF AdoptedOK
    <2>3. QED BY <1>2, <2>1, <2>2
  <1>6. \A r \in Revisions : ~ pubs[r].current => phaseBar'[r] = phaseBar[r]
    BY <1>3, <1>5 DEF phaseBar, LivePhase
  <1>7. CASE \E r \in Revisions : pubs[r].current
    <2>1. PICK r \in Revisions : pubs[r].current
      BY <1>7
    <2>2. \A q \in Revisions : q # r => ~ pubs[q].current
      <3>1. \A q \in Revisions : pubs[q].current => pubs[q].status \notin {"none", "stale"}
        BY <1>1 DEF AdoptedOK
      <3>2. \A p, q \in Revisions : pubs[q].status # "none" /\ p < q => pubs[p].status = "stale"
        BY <1>1 DEF AdoptedOK
      <3>3. \A q \in Revisions : q = r \/ q < r \/ r < q
        BY DEF Revisions
      <3>4. QED BY <2>1, <3>1, <3>2, <3>3
    <2>3. run'.delivery = "review_required"
      <3>1. {q \in Revisions : pubs[q].current} # {}
        BY <2>1
      <3>2. RequireReview(run.version + 1)
        BY <1>1, <3>1, Zenon DEF AcceptVerification
      <3>3. QED BY <3>2 DEF RequireReview
    <2>4. phaseBar'[r] = "withdrawn"
      BY <1>2, <2>1, Phases DEF PhaseTable
    <2>5. phaseBar' = [phaseBar EXCEPT ![r] = "withdrawn"]
      BY <1>6, <2>2, <2>4 DEF phaseBar
    <2>6. phaseBar[r] \in Contract!Live
      <3>1. pub[r].status # "stale"
        BY <1>1, <2>1 DEF AdoptedOK
      <3>2. status[r] # "superseded"
        BY <3>1 DEF StoreInvariant, SupersededRows
      <3>3. r > 1 => status[r] # "none"
        <4>1. r > 1 => pub[r].status # "none"
          BY <1>1, <2>1 DEF AdoptedOK
        <4>2. QED BY <4>1 DEF StoreInvariant, OriginRows
      <3>4. status[r] \in {"none", "checkpoint_pending", "waiting_decision", "manual_recovery",
                           "approved", "rejected"} \cup Decided
        BY <3>2 DEF Nonterminal, Terminal, Decided
      <3>5. QED BY <3>1, <3>3, <3>4, Phases DEF PhaseTable, Contract!Live
    <2>7. Contract!Withdraw(r)
      BY <1>4, <2>3, <2>5, <2>6 DEF Contract!Withdraw
    <2>8. QED BY <2>7
  <1>8. CASE ~ \E r \in Revisions : pubs[r].current
    <2>1. phaseBar' = phaseBar
      BY <1>6, <1>8 DEF phaseBar
    <2>2. {q \in Revisions : pubs[q].current} = {}
      BY <1>8
    <2>3. run' = run
      BY <1>1, <2>2, Zenon DEF AcceptVerification
    <2>4. QED BY <1>4, <2>1, <2>3 DEF Contract!contractVars
  <1>9. QED BY <1>7, <1>8
LEMMA FinalizeContract ==
  ASSUME StoreTypeOK, StoreInvariant, FinalizePublication
  PROVE  [\E r \in Revisions : Contract!Publish(r)]_(Contract!contractVars)
  <1> USE DEF StoreTypeOK
  <1>0. RowsInvariant /\ OriginRows
    BY DEF StoreInvariant, RowsInvariant
  <1>1. PICK pubs : pubs = AdoptedBaseline /\ AdoptedOK(pubs)
    BY <1>0, AdoptedRows
  <1>2. UNCHANGED <<decision, requests, baseline>>
    BY DEF FinalizePublication, decisionVars
  <1>3. verdictBar' = verdictBar
    BY <1>2 DEF verdictBar
  <1>4. \A r \in Revisions : pubs[r].status = "stale" <=> pub[r].status = "stale"
    BY <1>1 DEF AdoptedOK
  <1>5. CASE pub' = pubs /\ UNCHANGED <<status, run>>
    <2>1. phaseBar' = phaseBar
      BY <1>2, <1>4, <1>5 DEF phaseBar, LivePhase
    <2>2. QED BY <1>3, <1>5, <2>1 DEF Contract!contractVars
  <1>6. (\A r \in Revisions : pubs[r].current => pubs[r].status # "ready")
          => run.delivery # "ready"
    BY <1>1 DEF AdoptedOK
  <1>7. ASSUME NEW r \in Revisions, InsertWorkflow(r)
        PROVE  /\ status'[r] = "checkpoint_pending"
               /\ \A s \in Revisions : s # r => status'[s] = status[s]
               /\ run'.delivery = "review_required"
    BY <1>7 DEF InsertWorkflow, SetStatus, RequireReview
  <1>8. ASSUME NEW r \in Revisions, pubs[r].current, pubs[r].status = "review_required",
               status[r] = "none", pub' = pubs, InsertWorkflow(r)
        PROVE  UNCHANGED Contract!contractVars
    <2>1. r = 1 /\ pub[r].status # "stale"
      <3>1. r > 1 => pub[r].status # "none"
        BY <1>1, <1>8 DEF AdoptedOK
      <3>2. ~ r > 1
        BY <1>0, <1>8, <3>1 DEF OriginRows
      <3>3. QED BY <1>4, <1>8, <3>2 DEF Revisions
    <2>2. \A q \in Revisions : pubs[q].current => q = r
      <3>1. \A q \in Revisions : pubs[q].current => pubs[q].status \notin {"none", "stale"}
        BY <1>1 DEF AdoptedOK
      <3>2. \A p, q \in Revisions : pubs[q].status # "none" /\ p < q => pubs[p].status = "stale"
        BY <1>1 DEF AdoptedOK
      <3>3. \A q \in Revisions : q = r \/ q < r \/ r < q
        BY DEF Revisions
      <3>4. QED BY <1>8, <3>1, <3>2, <3>3
    <2>3. run.delivery # "ready"
      BY <1>6, <1>8, <2>2
    <2>4. baseline = "required"
      BY <1>0, <2>1, <2>3 DEF OriginRows
    <2>5. phaseBar[r] = "open" /\ phaseBar'[r] = "open"
      <3>1. pub'[r].status # "stale"
        BY <1>8
      <3>2. QED BY <1>7, <1>8, <2>1, <2>4, <3>1, Phases DEF PhaseTable
    <2>6. \A q \in Revisions : q # r => phaseBar'[q] = phaseBar[q]
      BY <1>2, <1>4, <1>7, <1>8 DEF phaseBar, LivePhase
    <2>7. phaseBar' = phaseBar
      BY <2>5, <2>6 DEF phaseBar
    <2>8. QED BY <1>3, <1>7, <1>8, <2>3, <2>7 DEF Contract!contractVars
  <1>9. ASSUME NEW r \in Revisions, \A s \in Revisions : ~ pubs[s].current,
               \A s \in Revisions : pubs[s].status # "none" <=> s < r,
               \A s \in Revisions : s # r => pub'[s] = pubs[s],
               pub'[r].status = "review_required", InsertWorkflow(r)
        PROVE  Contract!Publish(r)
    <2>1. \A s \in Revisions : s < r => pubs[s].status = "stale"
      BY <1>1, <1>9 DEF AdoptedOK
    <2>2. r > 1 /\ pub[r].status = "none" /\ status[r] = "none"
      <3>1. r > 1
        BY <1>1, <1>9 DEF AdoptedOK, Revisions
      <3>2. pubs[r].status = "none"
        BY <1>9, RevisionsNat
      <3>3. pub[r].status = "none"
        BY <1>1, <3>1, <3>2 DEF AdoptedOK
      <3>4. QED BY <1>0, <3>1, <3>3 DEF RowsInvariant, ReviewRows
    <2>3. run.delivery # "ready"
      BY <1>6, <1>9
    <2>4. phaseBar[r] = "unpublished"
      BY <2>2, Phases DEF PhaseTable
    <2>5. \A s \in Revisions : s < r => phaseBar[s] = "withdrawn"
      BY <1>4, <2>1, Phases DEF PhaseTable
    <2>6. phaseBar'[r] = "open"
      BY <1>7, <1>9, Phases DEF PhaseTable
    <2>7. \A q \in Revisions : q # r => phaseBar'[q] = phaseBar[q]
      BY <1>2, <1>4, <1>7, <1>9 DEF phaseBar, LivePhase
    <2>8. phaseBar' = [phaseBar EXCEPT ![r] = "open"]
      BY <2>6, <2>7 DEF phaseBar
    <2>9. QED BY <1>3, <1>7, <1>9, <2>3, <2>4, <2>5, <2>8
          DEF Contract!Publish, Contract!Revisions, Revisions
  <1>10. \A r \in Revisions : \A new :
           pub' = [pubs EXCEPT ![r] = new] =>
             pub'[r] = new /\ \A s \in Revisions : s # r => pub'[s] = pubs[s]
    BY <1>1 DEF AdoptedOK
  <1>11. \/ pub' = pubs /\ UNCHANGED <<status, run>>
         \/ \E r \in Revisions :
              /\ pubs[r].current /\ pubs[r].status = "review_required"
              /\ status[r] = "none" /\ pub' = pubs /\ InsertWorkflow(r)
         \/ \E r \in Revisions :
              /\ \A s \in Revisions : ~ pubs[s].current
              /\ \A s \in Revisions : pubs[s].status # "none" <=> s < r
              /\ \A s \in Revisions : s # r => pub'[s] = pubs[s]
              /\ pub'[r].status = "review_required"
              /\ InsertWorkflow(r)
    <2> DEFINE new == [status |-> "review_required", current |-> TRUE,
                       snapshot |-> verification, artifacts |-> {"draft"}]
    <2>1. \/ pub' = pubs /\ UNCHANGED <<status, run>>
          \/ \E r \in Revisions :
               /\ pubs[r].current /\ pubs[r].status = "review_required"
               /\ status[r] = "none" /\ pub' = pubs /\ InsertWorkflow(r)
          \/ \E r \in Revisions :
               /\ {q \in Revisions : pubs[q].current} = {}
               /\ \A s \in Revisions : pubs[s].status # "none" <=> s < r
               /\ pub' = [pubs EXCEPT ![r] = new] /\ InsertWorkflow(r)
      BY <1>1 DEF FinalizePublication
    <2>2. new.status = "review_required"
      OBVIOUS
    <2> HIDE DEF new
    <2>3. ASSUME NEW r \in Revisions, pub' = [pubs EXCEPT ![r] = new]
          PROVE  /\ pub'[r].status = "review_required"
                 /\ \A s \in Revisions : s # r => pub'[s] = pubs[s]
      BY <1>10, <2>2, <2>3
    <2>4. {q \in Revisions : pubs[q].current} = {} => \A s \in Revisions : ~ pubs[s].current
      OBVIOUS
    <2>5. QED BY <2>1, <2>3, <2>4
  <1>12. QED BY <1>5, <1>8, <1>9, <1>11

(* Each transaction of the tables is a step of the contract or invisible.  *)
LEMMA ContractStep ==
  ASSUME StoreTypeOK, StoreInvariant, [StoreNext]_storeVars
  PROVE  [Contract!ContractNext]_(Contract!contractVars)
  <1> DEFINE Allowed == [Contract!ContractNext]_(Contract!contractVars)
  <1>1. \A r \in Revisions :
          /\ (\E v \in {"approve", "reject"} : Contract!Decide(r, v))
               => Contract!ContractNext
          /\ Contract!Withdraw(r) \/ Contract!Publish(r) => Contract!ContractNext
    BY DEF Contract!ContractNext, Contract!Revisions, Revisions
  <1>2. CASE UNCHANGED storeVars
    BY <1>2 DEF Contract!contractVars, phaseBar, LivePhase, verdictBar, storeVars,
                workflowVars, decisionVars, outcomeVars
  <1>3. CASE ClientTx
    <2>1. (UNCHANGED Contract!contractVars \/ Contract!ContractNext) => Allowed
      OBVIOUS
    <2>2. CASE AcceptVerification
      BY <1>1, <2>1, <2>2, VerificationContract
    <2>3. CASE FinalizePublication
      BY <1>1, <2>1, <2>3, FinalizeContract
    <2> HIDE DEF Allowed
    <2>4. CASE \E d \in DecisionIds : AcceptDecision(d)
      <3>1. PICK d \in DecisionIds : AcceptDecision(d)
        BY <2>4
      <3>2. PICK r \in Revisions :
              \E v \in {"approve", "reject"} : Contract!Decide(r, v)
        BY <3>1, DecisionContract
      <3>3. Contract!ContractNext
        BY <1>1, <3>2
      <3>4. QED BY <2>1, <3>3 DEF Allowed
    <2>5. CASE \E d \in DecisionIds, r \in Revisions, a \in Actions : ComposeDecision(d, r, a)
      BY <2>1, <2>5, ComposeContract
    <2>6. QED BY <1>3, <2>2, <2>3, <2>4, <2>5 DEF ClientTx, Allowed
  <1>4. QED BY <1>2, <1>3, WorkerContract, ReconcilerContract DEF StoreNext

LEMMA ContractStart == StoreInit => Contract!ContractInit
  <1> SUFFICES ASSUME StoreInit PROVE Contract!ContractInit
    OBVIOUS
  <1>0. StoreTypeOK
    BY StoreInitType
  <1>1. verdictBar = [r \in Contract!Revisions |-> "none"]
    BY DEF StoreInit, verdictBar, Contract!Revisions, Revisions
  <1>2. phaseBar = [r \in Contract!Revisions |->
                     IF r = 1 THEN IF baseline = "required" THEN "open" ELSE "cleared"
                     ELSE "unpublished"]
    <2>1. \A r \in Revisions : pub[r].status # "stale"
      BY DEF StoreInit, NoPublication
    <2>2. \A r \in Revisions : r # 1 => phaseBar[r] = "unpublished"
      BY <2>1, Phases DEF StoreInit, PhaseTable, Revisions
    <2>3. phaseBar[1] = IF baseline = "required" THEN "open" ELSE "cleared"
      BY <2>1, Phases, RevisionsNat DEF StoreInit, PhaseTable
    <2>4. QED BY <2>2, <2>3 DEF phaseBar, Contract!Revisions, Revisions
  <1>3. (run.delivery = "ready") = (phaseBar[1] = "cleared")
    BY <1>0, <1>2, RevisionsNat DEF StoreInit, Contract!Revisions, Revisions
  <1>4. QED BY <1>0, <1>1, <1>2, <1>3 DEF Contract!ContractInit, StoreTypeOK

(* Whatever the workers, reconcilers, reviewers, verification, crashes and *)
(* time do, a reader sees reviews move forward only, one verdict per       *)
(* review, and delivery ready exactly when the live revision allows it.    *)
THEOREM WorkflowImplementsContract == Spec => ImplementsContract
  <1>1. Init => Contract!ContractInit
    BY ContractStart DEF Init
  <1>2. SafetyInv /\ [Next]_vars => [Contract!ContractNext]_(Contract!contractVars)
    <2>1. ASSUME SafetyInv, [Next]_vars
          PROVE  [Contract!ContractNext]_(Contract!contractVars)
      <3>1. [StoreNext]_storeVars
        BY <2>1, StoreStep DEF SafetyInv, TypeInv, vars
      <3>2. QED BY <2>1, <3>1, ContractStep DEF SafetyInv, TypeInv, TypeOK
    <2>2. QED BY <2>1
  <1>3. QED BY <1>1, <1>2, SafetyInvariance, PTL
        DEF Spec, ImplementsContract, Contract!ContractSpec
=============================================================================
