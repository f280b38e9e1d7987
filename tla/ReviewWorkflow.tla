--------------------------- MODULE ReviewWorkflow ---------------------------
(***************************************************************************)
(* The durable review workflow: review workers (api/review_worker.py) and  *)
(* the LangGraph review gate (api/review_gate.py) over ReviewStore, with   *)
(* reviewers, evidence verification and time acting between any two steps. *)
(*                                                                         *)
(* A worker step is one asyncio.to_thread call of run_once, that is one    *)
(* database transaction or one gate call; the application database and the *)
(* checkpoint database are never written atomically together.              *)
(***************************************************************************)
EXTENDS ReviewStore

CONSTANTS
  MaxExpiries,   (* Bound: leases that expire under a worker still at work  *)
  MaxFaults      (* Bound: failed calls and corrupted checkpoints           *)

ASSUME WorkflowAssumption ==
  /\ MaxExpiries \in Nat
  /\ MaxFaults \in Nat
  /\ DecisionIds \cap {"absent", "interrupted", "mismatched"} = {}

VARIABLES
  checkpoint,   (* gate thread per revision: "absent", "interrupted", the    *)
                (* decision it completed with, or "mismatched" (interrupted, *)
                (* but for another run, review or revision)                  *)
  pc,           (* where each worker is                                      *)
  job,          (* the claimed or inspected revision                         *)
  held,         (* the decision id the worker works with                     *)
  todo,         (* rows the reconciler has listed and not yet handled        *)
  seen,         (* the checkpoint status gate.inspect returned               *)
  expiries, faults

workerVars == <<pc, job, held, todo, seen>>
vars == <<storeVars, checkpoint, workerVars, expiries, faults>>

(* "new": process not started; "reconcile": loop top with _reconciled      *)
(* unset; "poll": loop top with it set; the other stages are inside        *)
(* reconcile_review_workflows or run_once.                                 *)
GateStages    == {"ensure", "resume"}
WriteStages   == {"complete", "mark", "resolve"}
ErrorStages   == {"release", "recover"}
AtWork        == GateStages \cup WriteStages \cup ErrorStages
Reconciling   == {"inspect", "apply", "corrupt"}
Stages        == {"new", "reconcile", "poll", "dead"} \cup Reconciling \cup AtWork

NoJob == 1        \* any revision: job is read only inside a claim

Row == [rev : Revisions, status : {"checkpoint_pending", "resuming"},
        decision : DecisionIds \cup {NoDecision}]

Checkpoints == {"absent", "interrupted", "mismatched"} \cup DecisionIds

TypeOK ==
  /\ StoreTypeOK
  /\ checkpoint \in [Revisions -> Checkpoints]
  /\ pc \in [Workers -> Stages]
  /\ job \in [Workers -> Revisions]
  /\ held \in [Workers -> DecisionIds \cup {NoDecision}]
  /\ todo \in [Workers -> SUBSET Row]
  /\ seen \in [Workers -> Checkpoints]
  /\ expiries \in Nat
  /\ faults \in Nat

Init ==
  /\ StoreInit
  /\ checkpoint = [r \in Revisions |-> "absent"]
  /\ pc = [w \in Workers |-> "new"]
  /\ job = [w \in Workers |-> NoJob]
  /\ held = [w \in Workers |-> NoDecision]
  /\ todo = [w \in Workers |-> {}]
  /\ seen = [w \in Workers |-> "absent"]
  /\ expiries = 0
  /\ faults = 0

Goto(w, stage) == pc' = [pc EXCEPT ![w] = stage]
Move(w, from, to) == pc[w] = from /\ Goto(w, to)

-----------------------------------------------------------------------------
(* Start-up reconciliation.                                                *)

Start(w) ==
  /\ Move(w, "new", "reconcile")
  /\ UNCHANGED <<storeVars, checkpoint, job, held, todo, seen, expiries, faults>>

(* list_reconcilable_workflows: a snapshot the reconciler then works off.  *)
Reconcilable ==
  {[rev |-> r, status |-> status[r], decision |-> decision[r]] :
     r \in {s \in Revisions :
              \/ status[s] = "checkpoint_pending"
              \/ status[s] = "resuming" /\ lease[s] # "live"}}

ListReconcilable(w) ==
  /\ Move(w, "reconcile", IF Reconcilable = {} THEN "poll" ELSE "inspect")
  /\ todo' = [todo EXCEPT ![w] = Reconcilable]
  /\ UNCHANGED <<storeVars, checkpoint, job, held, seen, expiries, faults>>

FirstRow(w, row) ==
  row \in todo[w] /\ \A other \in todo[w] : row.rev <= other.rev

Inspect(w) ==
  /\ Move(w, "inspect", "apply")
  /\ \E row \in todo[w] :
       FirstRow(w, row) /\ seen' = [seen EXCEPT ![w] = checkpoint[row.rev]]
  /\ UNCHANGED <<storeVars, checkpoint, job, held, todo, expiries, faults>>

InspectFails(w) ==
  /\ Move(w, "inspect", "corrupt")
  /\ faults < MaxFaults
  /\ faults' = faults + 1
  /\ UNCHANGED <<storeVars, checkpoint, job, held, todo, seen, expiries>>

NextRow(w, row) ==
  /\ todo' = [todo EXCEPT ![w] = @ \ {row}]
  /\ Goto(w, IF todo[w] = {row} THEN "poll" ELSE "inspect")

(* A conflict leaves run_once with _reconciled still unset. *)
AbortReconcile(w) ==
  /\ todo' = [todo EXCEPT ![w] = {}]
  /\ Goto(w, "reconcile")

(* mark_manual_recovery(worker_id=None) inside the reconciler: a           *)
(* superseded workflow is skipped, any other refusal aborts the pass.      *)
GiveUpRow(w, row) ==
  \/ ReconcilerGivesUp(row.rev) /\ NextRow(w, row)
  \/ status[row.rev] = "superseded" /\ UNCHANGED storeVars /\ NextRow(w, row)
  \/ /\ ~ CanReconcilerGiveUp(row.rev) /\ status[row.rev] # "superseded"
     /\ UNCHANGED storeVars /\ AbortReconcile(w)

Waiting(point) == point \in {"interrupted", "mismatched"}

ApplyPending(w, row) ==
  /\ row.status = "checkpoint_pending"
  /\ IF Waiting(seen[w]) /\ status[row.rev] = "checkpoint_pending"
     THEN MarkWaitingDecision(row.rev) ELSE UNCHANGED storeVars
  /\ NextRow(w, row)

ApplyCompleted(w, row) ==
  /\ row.status = "resuming" /\ seen[w] \in DecisionIds /\ seen[w] = row.decision
  /\ \/ ReconcileResolution(row.rev, row.decision) /\ NextRow(w, row)
     \/ /\ ~ CanReconcileResolution(row.rev, row.decision)
        /\ UNCHANGED storeVars /\ AbortReconcile(w)

ApplyInterrupted(w, row) ==
  /\ row.status = "resuming" /\ Waiting(seen[w])
  /\ \/ ReleaseExpiredLease(row.rev) /\ NextRow(w, row)
     \/ /\ ~ CanReleaseExpired(row.rev)
        /\ UNCHANGED storeVars /\ AbortReconcile(w)

ApplyMismatch(w, row) ==
  /\ row.status = "resuming" /\ ~ Waiting(seen[w]) /\ seen[w] # row.decision
  /\ GiveUpRow(w, row)

Apply(w) ==
  /\ pc[w] = "apply"
  /\ \E row \in todo[w] :
       /\ FirstRow(w, row)
       /\ \/ ApplyPending(w, row)
          \/ ApplyCompleted(w, row)
          \/ ApplyInterrupted(w, row)
          \/ ApplyMismatch(w, row)
  /\ UNCHANGED <<checkpoint, job, held, seen, expiries, faults>>

ApplyCorrupt(w) ==
  /\ pc[w] = "corrupt"
  /\ \E row \in todo[w] : FirstRow(w, row) /\ GiveUpRow(w, row)
  /\ UNCHANGED <<checkpoint, job, held, seen, expiries, faults>>

-----------------------------------------------------------------------------
(* run_once.                                                               *)

(* Variant: a pending checkpoint is confirmed without creating the thread. *)
FirstStageUnchecked(s) == CASE s = "checkpoint_pending" -> "complete"
                            [] s = "resolution_pending" -> "resolve"
                            [] OTHER                    -> "resume"

FirstStage(s) == CASE s = "checkpoint_pending" -> "ensure"
                   [] s = "resolution_pending" -> "resolve"
                   [] OTHER                    -> "resume"

(* review_decision_missing sends a decided workflow without a decision to  *)
(* the error path.                                                         *)
Claim(w) ==
  \E r \in Due :
    /\ ClaimReviewWorkflow(w, r)
    /\ Move(w, "poll", IF status[r] # "checkpoint_pending" /\ decision[r] = NoDecision
                       THEN "release" ELSE FirstStage(status[r]))
    /\ job' = [job EXCEPT ![w] = r]
    /\ held' = [held EXCEPT ![w] = decision[r]]
    /\ UNCHANGED <<checkpoint, todo, seen, expiries, faults>>

(* gate.ensure_waiting starts the graph from its entry, whatever the       *)
(* thread held before, and it stops at the interrupt.                      *)
EnsureWaiting(w) ==
  /\ Move(w, "ensure", "complete")
  /\ checkpoint' = [checkpoint EXCEPT ![job[w]] = "interrupted"]
  /\ UNCHANGED <<storeVars, job, held, todo, seen, expiries, faults>>

CompleteCheckpoint(w) ==
  /\ pc[w] = "complete"
  /\ \/ CompleteCheckpointCreation(w, job[w]) /\ Goto(w, "poll")
     \/ /\ ~ CanCompleteCheckpoint(w, job[w])
        /\ UNCHANGED storeVars /\ Goto(w, "release")
  /\ UNCHANGED <<checkpoint, job, held, todo, seen, expiries, faults>>

(* gate.resume: an interrupted thread completes with the decision handed   *)
(* in, a completed one returns the decision it stored.  A thread of        *)
(* another review raises ReviewGateMismatch, an absent one another error.  *)
ResumeGraph(w) ==
  LET point == checkpoint[job[w]] IN
  /\ pc[w] = "resume"
  /\ \/ /\ point = "interrupted"
        /\ checkpoint' = [checkpoint EXCEPT ![job[w]] = held[w]]
        /\ held' = held
        /\ Goto(w, "mark")
     \/ /\ point \in DecisionIds
        /\ held' = [held EXCEPT ![w] = point]
        /\ checkpoint' = checkpoint
        /\ Goto(w, "mark")
     \/ /\ point = "mismatched"
        /\ Goto(w, "recover")
        /\ UNCHANGED <<checkpoint, held>>
     \/ /\ point = "absent"
        /\ Goto(w, "release")
        /\ UNCHANGED <<checkpoint, held>>
  /\ UNCHANGED <<storeVars, job, todo, seen, expiries, faults>>

MarkResolution(w) ==
  /\ pc[w] = "mark"
  /\ \/ MarkResolutionPending(w, job[w], held[w]) /\ Goto(w, "resolve")
     \/ /\ ~ CanMarkResolution(w, job[w], held[w])
        /\ UNCHANGED storeVars /\ Goto(w, "release")
  /\ UNCHANGED <<checkpoint, job, held, todo, seen, expiries, faults>>

(* An existing resolution of a review that is still active is returned.    *)
AlreadyResolved(r) ==
  status[r] # "superseded" /\ ActiveReview(r) /\ resolution[r] # "none"

Resolve(w) ==
  /\ pc[w] = "resolve"
  /\ \/ ResolveReview(w, job[w], held[w]) /\ Goto(w, "poll")
     \/ AlreadyResolved(job[w]) /\ UNCHANGED storeVars /\ Goto(w, "poll")
     \/ /\ ~ CanResolve(w, job[w], held[w]) /\ ~ AlreadyResolved(job[w])
        /\ UNCHANGED storeVars /\ Goto(w, "release")
  /\ UNCHANGED <<checkpoint, job, held, todo, seen, expiries, faults>>

(* A release refused because the lease is gone unsets _reconciled; any     *)
(* other refusal escapes to run_forever.                                   *)
Release(w) ==
  /\ pc[w] = "release"
  /\ \/ ReleaseWorkflowForRetry(w, job[w]) /\ Goto(w, "poll")
     \/ /\ ~ CanRelease(w, job[w])
        /\ UNCHANGED storeVars
        /\ Goto(w, IF Owned(w, job[w]) THEN "poll" ELSE "reconcile")
  /\ UNCHANGED <<checkpoint, job, held, todo, seen, expiries, faults>>

Recover(w) ==
  /\ Move(w, "recover", "poll")
  /\ \/ OwnerGivesUp(w, job[w])
     \/ ~ CanOwnerGiveUp(w, job[w]) /\ UNCHANGED storeVars
  /\ UNCHANGED <<checkpoint, job, held, todo, seen, expiries, faults>>

WorkerStep(w) ==
  \/ ListReconcilable(w) \/ Inspect(w) \/ Apply(w) \/ ApplyCorrupt(w)
  \/ Claim(w) \/ EnsureWaiting(w) \/ CompleteCheckpoint(w)
  \/ ResumeGraph(w) \/ MarkResolution(w) \/ Resolve(w)
  \/ Release(w) \/ Recover(w)

-----------------------------------------------------------------------------
(* Faults, crashes and time.                                               *)

(* A gate call or transaction raises without effect; an exception of the   *)
(* error handler itself is caught by run_forever.                          *)
CallFails(w) ==
  /\ faults < MaxFaults
  /\ faults' = faults + 1
  /\ \/ pc[w] \in GateStages \cup WriteStages /\ Goto(w, "release")
     \/ pc[w] \in ErrorStages /\ Goto(w, "poll")
  /\ UNCHANGED <<storeVars, checkpoint, job, held, todo, seen, expiries>>

(* The process stops between two calls; another one can be started.        *)
Crash(w) ==
  /\ pc[w] \notin {"new", "dead"}
  /\ \E other \in Workers : pc[other] = "new"
  /\ Goto(w, "dead")
  /\ UNCHANGED <<storeVars, checkpoint, job, held, todo, seen, expiries, faults>>

AtWorkOn(r) == \E w \in Workers : owner[r] = w /\ pc[w] \in AtWork /\ job[w] = r

Expire(r) ==
  /\ ExpireLease(r)
  /\ IF AtWorkOn(r) THEN expiries < MaxExpiries /\ expiries' = expiries + 1
                    ELSE expiries' = expiries
  /\ UNCHANGED <<checkpoint, workerVars, faults>>

(* The checkpoint database is lost or replaced by another one's content.   *)
CorruptCheckpoint(r) ==
  /\ faults < MaxFaults
  /\ faults' = faults + 1
  /\ checkpoint[r] \notin {"absent", "mismatched"}
  /\ \E point \in {"absent", "mismatched"} :
       checkpoint' = [checkpoint EXCEPT ![r] = point]
  /\ UNCHANGED <<storeVars, workerVars, expiries>>

(* Requests to the review and verification API. *)
ClientStep ==
  /\ \/ \E d \in DecisionIds, r \in Revisions, a \in Actions : ComposeDecision(d, r, a)
     \/ \E d \in DecisionIds : AcceptDecision(d)
     \/ AcceptVerification
     \/ FinalizePublication
  /\ UNCHANGED <<checkpoint, workerVars, expiries, faults>>

Next ==
  \/ ClientStep
  \/ \E w \in Workers : Start(w) \/ WorkerStep(w) \/ InspectFails(w)
                        \/ CallFails(w) \/ Crash(w)
  \/ \E r \in Revisions : Expire(r) \/ CorruptCheckpoint(r)

Spec == Init /\ [][Next]_vars

(* Live workers keep running their loop, a stopped service is started      *)
(* again, and the lease of a workflow nobody works on runs out.            *)
Fairness ==
  /\ \A w \in Workers : WF_vars(WorkerStep(w))
  /\ WF_vars(\E w \in Workers : Start(w))
  /\ \A r \in Revisions : WF_vars(~ AtWorkOn(r) /\ Expire(r))

FairSpec == Spec /\ Fairness

-----------------------------------------------------------------------------
(* Properties.                                                             *)

(* The two databases agree: the gate completes a thread only with the      *)
(* decision the application database has already accepted for that review, *)
(* whatever worker, stale or restarted, resumed it.                        *)
GateHoldsAcceptedDecision ==
  \A r \in Revisions :
    checkpoint[r] \in DecisionIds =>
      /\ checkpoint[r] = decision[r]
      /\ accepted[checkpoint[r]] # 0
      /\ requests[checkpoint[r]].rev = r

(* A review that asks for a decision has a graph thread stopped at the     *)
(* interrupt, unless the checkpoint database itself was damaged.           *)
WaitingHasCheckpoint ==
  faults = 0 =>
    \A r \in Revisions :
      status[r] \in {"waiting_decision", "resume_pending"} =>
        checkpoint[r] \in {"interrupted", decision[r]}

(* A workflow that ended stays ended: no late worker, reconciler, retry or *)
(* decision moves it again.                                                *)
TerminalIsFinal ==
  [][\A r \in Revisions : status[r] \in Terminal => status'[r] = status[r]]_vars

(* A stale publication is immutable history: it never becomes current      *)
(* again and its review never produces a resolution afterwards.            *)
StaleIsHistory ==
  [][\A r \in Revisions :
       pub[r].status = "stale" =>
         pub'[r] = pub[r] /\ resolution'[r] = resolution[r]]_vars

(* Nobody but the holder of a live lease resolves a review.                *)
ResolvedUnderLease ==
  [][\A r \in Revisions :
       resolution'[r] # resolution[r] =>
         lease[r] = "live" /\ pc[owner[r]] = "resolve" /\ job[owner[r]] = r]_vars

(* Every accepted decision is eventually settled: approved, rejected,      *)
(* superseded by newer evidence, or parked in manual recovery.             *)
DecisionSettles ==
  \A r \in Revisions : status[r] \in Decided ~> status[r] \in Terminal

(* Every review workflow eventually asks for its decision or ends.         *)
ReviewOpens ==
  \A r \in Revisions :
    status[r] = "checkpoint_pending" ~> status[r] # "checkpoint_pending"

=============================================================================
