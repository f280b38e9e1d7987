-------------------------- MODULE ReviewStoreProofs --------------------------
(***************************************************************************)
(* Every transaction keeps the tables well typed, and StoreInvariant holds *)
(* whatever processes run the transactions, in whatever order and with     *)
(* whatever arguments.                                                     *)
(***************************************************************************)
EXTENDS ReviewInvariant, TLAPS

LEMMA RevisionsNat == Revisions \subseteq Nat /\ 1 \in Revisions
  BY StoreAssumption DEF Revisions

(* Changing the status of a publication row, as staling and resolving do,  *)
(* yields a publication row.                                               *)
LEMMA PublicationEdit ==
  ASSUME NEW p \in Publication, NEW s \in PubStatuses,
         NEW a \in SUBSET {"draft", "reviewed"}
  PROVE  /\ [p EXCEPT !.status = s, !.current = FALSE] \in Publication
         /\ [p EXCEPT !.status = s, !.artifacts = a] \in Publication
  BY DEF Publication

(* Adoption yields well-typed publications. *)
LEMMA AdoptedType ==
  ASSUME StoreTypeOK
  PROVE  AdoptedBaseline \in [Revisions -> Publication]
  <1>1. BaselineStatus \in {"review_required", "ready", "blocked", "stale"}
    BY DEF BaselineStatus
  <1>2. QED BY <1>1, RevisionsNat DEF AdoptedBaseline, StoreTypeOK, Publication, PubStatuses

(* Closing an attempt row, open or not, keeps the rows well-typed. *)
LEMMA AttemptType ==
  ASSUME StoreTypeOK, NEW r \in Revisions, NEW o \in Outcomes,
         CompleteAttempt(r, o) \/ CompleteAttemptIfOpen(r, o)
  PROVE  attempt' \in [Revisions -> AttemptRow]
  <1>1. attempt \in [Revisions -> AttemptRow]
    BY DEF StoreTypeOK
  <1>2. \A p \in Outcomes : [attempt[r] EXCEPT !.outcome = p] \in AttemptRow
    BY <1>1 DEF AttemptRow
  <1>3. \E p \in Outcomes : attempt' = [attempt EXCEPT ![r] = [attempt[r] EXCEPT !.outcome = p]]
    <2>1. attempt[r].outcome \in Outcomes
      BY <1>1 DEF AttemptRow
    <2>2. CASE CompleteAttempt(r, o)
      BY <2>2 DEF CompleteAttempt
    <2>3. CASE CompleteAttemptIfOpen(r, o)
      BY <2>3, <2>1 DEF CompleteAttemptIfOpen
    <2>4. QED BY <2>2, <2>3
  <1>4. QED BY <1>1, <1>2, <1>3

LEMMA WorkerTxType ==
  ASSUME StoreTypeOK, NEW w \in Workers, NEW r \in Revisions, WorkerTx(w, r)
  PROVE  StoreTypeOK'
  <1> USE DEF StoreTypeOK, workflowVars, decisionVars, outcomeVars, SetStatus,
              ClearLease, Nonterminal, Terminal, Outcomes
  <1>1. CASE ClaimReviewWorkflow(w, r)
    BY <1>1 DEF ClaimReviewWorkflow, AttemptRow
  <1>2. CASE CompleteCheckpointCreation(w, r)
    BY <1>2, AttemptType DEF CompleteCheckpointCreation
  <1>3. ASSUME NEW d \in DecisionIds \cup {NoDecision}, MarkResolutionPending(w, r, d)
        PROVE  StoreTypeOK'
    BY <1>3 DEF MarkResolutionPending
  <1>4. ASSUME NEW d \in DecisionIds \cup {NoDecision}, ResolveReview(w, r, d)
        PROVE  StoreTypeOK'
    <2>1. d \in DecisionIds /\ requests[d].action \in Actions \cup {"none"}
      BY <1>4 DEF ResolveReview, CanResolve, NoRequest
    <2>2. pub[r].artifacts \in SUBSET {"draft", "reviewed"}
      BY DEF Publication
    <2>3. pub' \in [Revisions -> Publication]
      BY <1>4, <2>2, PublicationEdit DEF ResolveReview, PubStatuses
    <2>4. QED BY <1>4, <2>1, <2>3, AttemptType DEF ResolveReview
  <1>5. CASE ReleaseWorkflowForRetry(w, r)
    BY <1>5, AttemptType DEF ReleaseWorkflowForRetry, RetryStatus
  <1>6. CASE OwnerGivesUp(w, r)
    BY <1>6, AttemptType DEF OwnerGivesUp
  <1>7. QED BY <1>1, <1>2, <1>3, <1>4, <1>5, <1>6 DEF WorkerTx

LEMMA ReconcilerTxType ==
  ASSUME StoreTypeOK, NEW r \in Revisions, ReconcilerTx(r)
  PROVE  StoreTypeOK'
  <1> USE DEF StoreTypeOK, workflowVars, decisionVars, outcomeVars, SetStatus,
              ClearLease, Nonterminal, Terminal, Outcomes
  <1>1. CASE MarkWaitingDecision(r)
    BY <1>1, AttemptType DEF MarkWaitingDecision
  <1>2. ASSUME NEW d \in DecisionIds \cup {NoDecision}, ReconcileResolution(r, d)
        PROVE  StoreTypeOK'
    BY <1>2, AttemptType DEF ReconcileResolution
  <1>3. CASE ReleaseExpiredLease(r)
    BY <1>3, AttemptType DEF ReleaseExpiredLease
  <1>4. CASE ReconcilerGivesUp(r)
    BY <1>4, AttemptType DEF ReconcilerGivesUp
  <1>5. CASE ExpireLease(r)
    BY <1>5 DEF ExpireLease
  <1>6. QED BY <1>1, <1>2, <1>3, <1>4, <1>5 DEF ReconcilerTx

LEMMA ClientTxType ==
  ASSUME StoreTypeOK, ClientTx
  PROVE  StoreTypeOK'
  <1> USE DEF StoreTypeOK, workflowVars, decisionVars, outcomeVars, SetStatus,
              RequireReview, Nonterminal, Terminal
  <1>1. ASSUME NEW d \in DecisionIds, NEW r \in Revisions, NEW a \in Actions,
               ComposeDecision(d, r, a)
        PROVE  StoreTypeOK'
    BY <1>1 DEF ComposeDecision
  <1>2. ASSUME NEW d \in DecisionIds, AcceptDecision(d)
        PROVE  StoreTypeOK'
    <2>1. requests[d].rev \in Revisions
      BY <1>2, RevisionsNat DEF AcceptDecision, NoRequest
    <2>2. QED BY <1>2, <2>1 DEF AcceptDecision
  <1>3. CASE AcceptVerification
    <2>1. pub' \in [Revisions -> Publication]
      BY <1>3, AdoptedType, PublicationEdit DEF AcceptVerification, PubStatuses
    <2>2. run' \in [review : {"not_required", "required", "resolved"},
                   delivery : {"review_required", "ready", "blocked"}, version : Nat]
      <3>1. run' = run \/ RequireReview(run.version + 1)
        BY <1>3, Zenon DEF AcceptVerification
      <3>2. QED BY <3>1
    <2>3. status' \in [Revisions -> {"none"} \cup Nonterminal \cup Terminal]
      BY <1>3 DEF AcceptVerification
    <2>4. /\ owner' \in [Revisions -> Workers \cup {NoWorker}]
          /\ lease' \in [Revisions -> {"none", "live", "expired"}]
      BY <1>3 DEF AcceptVerification
    <2>5. verification' \in Nat
      <3>1. verification' = verification + 1
        BY <1>3, Zenon DEF AcceptVerification
      <3>2. QED BY <3>1
    <2>6. /\ decision' = decision /\ attempts' = attempts /\ attempt' = attempt
          /\ segment' = segment /\ requests' = requests /\ accepted' = accepted
          /\ resolution' = resolution /\ baseline' = baseline
      BY <1>3 DEF AcceptVerification
    <2>7. QED BY <2>1, <2>2, <2>3, <2>4, <2>5, <2>6
  <1>4. CASE FinalizePublication
    <2>1. pub' \in [Revisions -> Publication]
      <3>1. [status |-> "review_required", current |-> TRUE,
             snapshot |-> verification, artifacts |-> {"draft"}] \in Publication
        BY DEF Publication, PubStatuses
      <3>2. QED BY <1>4, <3>1, AdoptedType DEF FinalizePublication
    <2>2. QED BY <1>4, <2>1 DEF FinalizePublication, InsertWorkflow
  <1>5. QED BY <1>1, <1>2, <1>3, <1>4 DEF ClientTx

(* Every transaction keeps the tables well-typed. *)
LEMMA StoreStepType == StoreTypeOK /\ [StoreNext]_storeVars => StoreTypeOK'
  <1>1. ASSUME StoreTypeOK, UNCHANGED storeVars PROVE StoreTypeOK'
    BY <1>1 DEF StoreTypeOK, storeVars, workflowVars, decisionVars, outcomeVars
  <1>2. QED BY <1>1, WorkerTxType, ReconcilerTxType, ClientTxType DEF StoreNext

LEMMA StoreInitType == StoreInit => StoreTypeOK
  BY RevisionsNat, StoreAssumption
  DEF StoreInit, StoreTypeOK, AttemptRow, Publication, PubStatuses, NoAttempt, NoPublication, Outcomes, Nonterminal

-----------------------------------------------------------------------------
(* Leases and attempt rows.                                                *)

LEMMA LeaseWorkerTx ==
  ASSUME StoreTypeOK, LeaseHasOpenAttempt,
         NEW w \in Workers, NEW r \in Revisions, WorkerTx(w, r)
  PROVE  LeaseHasOpenAttempt'
  <1> USE StoreAssumption
      DEF StoreTypeOK, LeaseHasOpenAttempt, OwnsOpenAttempt, SetStatus, ClearLease, Owned
  <1>1. CASE ClaimReviewWorkflow(w, r)
    BY <1>1 DEF ClaimReviewWorkflow, Due, Claimable
  <1>2. CASE CompleteCheckpointCreation(w, r)
    BY <1>2 DEF CompleteCheckpointCreation, CompleteAttempt
  <1>3. ASSUME NEW d, MarkResolutionPending(w, r, d) PROVE LeaseHasOpenAttempt'
    BY <1>3 DEF MarkResolutionPending, CanMarkResolution
  <1>4. ASSUME NEW d, ResolveReview(w, r, d) PROVE LeaseHasOpenAttempt'
    BY <1>4 DEF ResolveReview, CompleteAttempt
  <1>5. CASE ReleaseWorkflowForRetry(w, r)
    BY <1>5 DEF ReleaseWorkflowForRetry, CompleteAttempt
  <1>6. CASE OwnerGivesUp(w, r)
    BY <1>6 DEF OwnerGivesUp, CompleteAttempt
  <1>7. QED BY <1>1, <1>2, <1>3, <1>4, <1>5, <1>6 DEF WorkerTx

LEMMA LeaseReconcilerTx ==
  ASSUME StoreTypeOK, LeaseHasOpenAttempt, NEW r \in Revisions, ReconcilerTx(r)
  PROVE  LeaseHasOpenAttempt'
  <1> USE StoreAssumption
      DEF StoreTypeOK, LeaseHasOpenAttempt, OwnsOpenAttempt, SetStatus, ClearLease
  <1>1. CASE MarkWaitingDecision(r)
    BY <1>1 DEF MarkWaitingDecision, CompleteAttemptIfOpen
  <1>2. ASSUME NEW d, ReconcileResolution(r, d) PROVE LeaseHasOpenAttempt'
    BY <1>2 DEF ReconcileResolution, CompleteAttemptIfOpen
  <1>3. CASE ReleaseExpiredLease(r)
    BY <1>3 DEF ReleaseExpiredLease, CompleteAttemptIfOpen
  <1>4. CASE ReconcilerGivesUp(r)
    BY <1>4 DEF ReconcilerGivesUp, CompleteAttemptIfOpen
  <1>5. CASE ExpireLease(r)
    BY <1>5 DEF ExpireLease
  <1>6. QED BY <1>1, <1>2, <1>3, <1>4, <1>5 DEF ReconcilerTx

LEMMA LeaseClientTx ==
  ASSUME StoreTypeOK, LeaseHasOpenAttempt, ClientTx
  PROVE  LeaseHasOpenAttempt'
  <1> USE StoreAssumption
      DEF StoreTypeOK, LeaseHasOpenAttempt, OwnsOpenAttempt, SetStatus, workflowVars
  <1>1. ASSUME NEW d \in DecisionIds, NEW r \in Revisions, NEW a \in Actions,
               ComposeDecision(d, r, a)
        PROVE  LeaseHasOpenAttempt'
    BY <1>1 DEF ComposeDecision
  <1>2. ASSUME NEW d \in DecisionIds, AcceptDecision(d)
        PROVE  LeaseHasOpenAttempt'
    BY <1>2 DEF AcceptDecision, AwaitsDecision
  <1>3. CASE AcceptVerification
    <2>1. UNCHANGED <<attempts, attempt>>
      BY <1>3 DEF AcceptVerification
    <2>2. \A r \in Revisions :
            \/ owner'[r] = NoWorker /\ lease'[r] = "none"
            \/ owner'[r] = owner[r] /\ lease'[r] = lease[r] /\ status'[r] = status[r]
      BY <1>3 DEF AcceptVerification
    <2>3. QED BY <2>1, <2>2
  <1>4. CASE FinalizePublication
    <2>1. UNCHANGED <<owner, lease, attempts, attempt>>
      BY <1>4 DEF FinalizePublication
    <2>2. \A r \in Revisions : status'[r] \in {status[r], "checkpoint_pending"}
      BY <1>4 DEF FinalizePublication, InsertWorkflow
    <2>3. QED BY <2>1, <2>2
  <1>5. QED BY <1>1, <1>2, <1>3, <1>4 DEF ClientTx

-----------------------------------------------------------------------------
(* Steps that move one unfinished review along, or park it, and touch      *)
(* neither the run nor any decision, resolution or publication row.        *)

RowsInvariant == DecisionRows /\ PublicationRows /\ ReviewRows /\ DeliveryAuthorized

LEMMA QuietStep ==
  ASSUME StoreTypeOK, RowsInvariant, NEW r \in Revisions, NEW s,
         status[r] \in Nonterminal, SetStatus(r, s),
         \/ s = "manual_recovery"
         \/ s \in Decided /\ status[r] \in Decided
         \/ s \in {"checkpoint_pending", "waiting_decision"} /\ status[r] = "checkpoint_pending",
         UNCHANGED <<decision, decisionVars, outcomeVars, run>>
  PROVE  RowsInvariant'
  <1> USE DEF StoreTypeOK, RowsInvariant, SetStatus, decisionVars, outcomeVars
  <1>1. /\ \A q \in Revisions : q # r => status'[q] = status[q]
        /\ status'[r] = s
    OBVIOUS
  <1>2. DecisionRows'
    BY <1>1 DEF DecisionRows, Decided, Nonterminal
  <1>3. PublicationRows'
    BY DEF PublicationRows, Published
  <1>4. ReviewRows'
    BY <1>1 DEF ReviewRows, UnderReview, Published, Nonterminal, Decided
  <1>5. DeliveryAuthorized'
    BY DEF DeliveryAuthorized, Published
  <1>6. QED BY <1>2, <1>3, <1>4, <1>5

(* Every worker transaction but resolve_review is such a step. *)
LEMMA QuietWorkerTx ==
  ASSUME StoreTypeOK, LeaseHasOpenAttempt, RowsInvariant,
         NEW w \in Workers, NEW r \in Revisions,
         \/ ClaimReviewWorkflow(w, r) \/ CompleteCheckpointCreation(w, r)
         \/ \E d \in DecisionIds \cup {NoDecision} : MarkResolutionPending(w, r, d)
         \/ ReleaseWorkflowForRetry(w, r) \/ OwnerGivesUp(w, r)
  PROVE  RowsInvariant'
  <1> DEFINE Quiet(s) ==
        /\ status[r] \in Nonterminal
        /\ SetStatus(r, s)
        /\ \/ s = "manual_recovery"
           \/ s \in Decided /\ status[r] \in Decided
           \/ s \in {"checkpoint_pending", "waiting_decision"}
                /\ status[r] = "checkpoint_pending"
        /\ UNCHANGED <<decision, decisionVars, outcomeVars, run>>
  <1>1. ASSUME Owned(w, r) PROVE status[r] \in {"checkpoint_pending", "resuming",
                                               "resolution_pending"}
    BY <1>1 DEF Owned, LeaseHasOpenAttempt
  <1> USE DEF Nonterminal, Decided
  <1>2. CASE ClaimReviewWorkflow(w, r)
    <2>1. Quiet(IF status[r] = "resume_pending" THEN "resuming" ELSE status[r])
      BY <1>2 DEF ClaimReviewWorkflow, Due, Claimable
    <2>2. QED BY <2>1, QuietStep
  <1>3. CASE CompleteCheckpointCreation(w, r)
    <2>1. Quiet("waiting_decision")
      BY <1>3 DEF CompleteCheckpointCreation, CanCompleteCheckpoint
    <2>2. QED BY <2>1, QuietStep
  <1>4. ASSUME NEW d, MarkResolutionPending(w, r, d) PROVE RowsInvariant'
    <2>1. Quiet("resolution_pending")
      BY <1>4 DEF MarkResolutionPending, CanMarkResolution
    <2>2. QED BY <2>1, QuietStep
  <1>5. CASE ReleaseWorkflowForRetry(w, r)
    <2>1. Quiet(RetryStatus(r))
      BY <1>1, <1>5 DEF ReleaseWorkflowForRetry, CanRelease, RetryStatus
    <2>2. QED BY <2>1, QuietStep
  <1>6. CASE OwnerGivesUp(w, r)
    <2>1. Quiet("manual_recovery")
      BY <1>1, <1>6 DEF OwnerGivesUp, CanOwnerGiveUp
    <2>2. QED BY <2>1, QuietStep
  <1>7. QED BY <1>2, <1>3, <1>4, <1>5, <1>6

LEMMA QuietReconcilerTx ==
  ASSUME StoreTypeOK, RowsInvariant, NEW r \in Revisions, ReconcilerTx(r)
  PROVE  RowsInvariant'
  <1> USE DEF Nonterminal, Decided
  <1>1. CASE MarkWaitingDecision(r)
    BY <1>1, QuietStep DEF MarkWaitingDecision
  <1>2. ASSUME NEW d, ReconcileResolution(r, d) PROVE RowsInvariant'
    BY <1>2, QuietStep DEF ReconcileResolution, CanReconcileResolution
  <1>3. CASE ReleaseExpiredLease(r)
    BY <1>3, QuietStep DEF ReleaseExpiredLease, CanReleaseExpired
  <1>4. CASE ReconcilerGivesUp(r)
    <2>1. status[r] \in Nonterminal
      BY <1>4 DEF ReconcilerGivesUp, CanReconcilerGiveUp, StoreTypeOK
    <2>2. QED BY <1>4, <2>1, QuietStep DEF ReconcilerGivesUp
  <1>5. CASE ExpireLease(r)
    BY <1>5 DEF ExpireLease, RowsInvariant, DecisionRows, PublicationRows, ReviewRows,
                DeliveryAuthorized, Published, UnderReview, decisionVars, outcomeVars
  <1>6. QED BY <1>1, <1>2, <1>3, <1>4, <1>5 DEF ReconcilerTx

-----------------------------------------------------------------------------
(* The transactions that accept a decision, resolve a review and publish.  *)

(* At most one review of a run is unfinished. *)
LEMMA OneReview ==
  ASSUME StoreTypeOK, RowsInvariant, NEW r \in Revisions, NEW s \in Revisions,
         status[r] \in Nonterminal, status[s] \in Nonterminal
  PROVE  r = s
  <1>1. UnderReview(r) /\ UnderReview(s)
    BY DEF RowsInvariant, ReviewRows
  <1>2. \A q \in Revisions : Published = {} => ~ pub[q].current
    BY DEF RowsInvariant, PublicationRows, Published
  <1>3. \A p, q \in Revisions : pub[p].current /\ pub[q].current => ~ p < q
    BY DEF RowsInvariant, PublicationRows
  <1>4. QED BY <1>1, <1>2, <1>3, RevisionsNat DEF UnderReview

LEMMA ComposeRows ==
  ASSUME StoreTypeOK, RowsInvariant, NEW d \in DecisionIds, NEW r \in Revisions,
         NEW a \in Actions, ComposeDecision(d, r, a)
  PROVE  RowsInvariant'
  <1>1. \A q \in Revisions : decision[q] \in DecisionIds => decision[q] # d
    BY RevisionsNat DEF ComposeDecision, RowsInvariant, DecisionRows, NoRequest, Revisions
  <1>2. \A e \in DecisionIds : e # d => requests'[e] = requests[e]
    BY DEF ComposeDecision
  <1>3. /\ UNCHANGED <<status, decision, accepted, resolution, pub, verification>>
        /\ UNCHANGED <<baseline, run>>
    BY DEF ComposeDecision, workflowVars, outcomeVars
  <1>4. DecisionRows'
    BY <1>1, <1>2, <1>3 DEF RowsInvariant, DecisionRows, Decided, StoreTypeOK, Actions
  <1>5. QED BY <1>3, <1>4 DEF RowsInvariant, PublicationRows, ReviewRows,
                DeliveryAuthorized, Published, UnderReview

(* The first delivery of a decision, which the client may have composed    *)
(* long before or in the same step.                                        *)
Accepts(d, r) ==
  /\ accepted[d] = 0 /\ status[r] = "waiting_decision"
  /\ requests'[d].rev = r /\ \A e \in DecisionIds : e # d => requests'[e] = requests[e]
  /\ accepted' = [accepted EXCEPT ![d] = run.version + 1]
  /\ decision' = [decision EXCEPT ![r] = d]
  /\ SetStatus(r, "resume_pending")
  /\ run' = [run EXCEPT !.version = @ + 1]
  /\ UNCHANGED <<owner, lease, attempts, attempt, segment, outcomeVars>>

LEMMA AcceptsRows ==
  ASSUME StoreTypeOK, RowsInvariant, NEW d \in DecisionIds, NEW r \in Revisions,
         Accepts(d, r)
  PROVE  RowsInvariant'
  <1>1. r \in Revisions
    OBVIOUS
  <1>2. \A q \in Revisions : decision[q] \in DecisionIds => decision[q] # d
    BY DEF Accepts, RowsInvariant, DecisionRows
  <1>3. /\ \A q \in Revisions : q # r => status'[q] = status[q] /\ decision'[q] = decision[q]
        /\ status[r] = "waiting_decision" /\ status'[r] = "resume_pending"
        /\ decision'[r] = d
    BY <1>1 DEF Accepts, SetStatus, StoreTypeOK
  <1>4. /\ \A e \in DecisionIds : e # d => accepted'[e] = accepted[e]
        /\ accepted'[d] = run.version + 1 /\ run'.version = run.version + 1
        /\ run'.delivery = run.delivery
    BY DEF Accepts, StoreTypeOK
  <1>5. /\ UNCHANGED <<resolution, pub, verification, baseline>>
        /\ requests'[d].rev = r /\ \A e \in DecisionIds : e # d => requests'[e] = requests[e]
    BY DEF Accepts, outcomeVars
  <1>6. run.version + 1 # 0
    BY DEF StoreTypeOK
  <1>7. DecisionRows'
    BY <1>1, <1>2, <1>3, <1>4, <1>5, <1>6
    DEF RowsInvariant, DecisionRows, Decided, StoreTypeOK, Actions
  <1>8. PublicationRows'
    BY <1>5 DEF RowsInvariant, PublicationRows, Published
  <1>9. ReviewRows'
    <2>1. \A q \in Revisions : q # r => status[q] \notin Nonterminal
      BY <1>1, <1>3, OneReview DEF Nonterminal
    <2>2. \A q \in Revisions : q # r => status'[q] \notin Nonterminal /\ status'[q] \notin Decided
      BY <1>3, <2>1 DEF Nonterminal, Decided
    <2>3. UnderReview(r) /\ run.delivery = "review_required" /\ status[r] \in Nonterminal
      BY <1>1, <1>3 DEF RowsInvariant, ReviewRows, Nonterminal
    <2>4. \A q \in Revisions : q > 1 /\ pub'[q].status = "none" => status'[q] = "none"
      BY <1>1, <1>3, <1>5, <2>3
      DEF RowsInvariant, ReviewRows, UnderReview, PublicationRows
    <2>5. baseline' = "not_required" /\ Published' = {} => status'[1] = "none"
      BY <1>3, <1>5, RevisionsNat DEF RowsInvariant, ReviewRows, Published
    <2>6. QED BY <1>3, <1>4, <1>5, <2>2, <2>3, <2>4, <2>5
              DEF ReviewRows, UnderReview, Published
  <1>10. DeliveryAuthorized'
    BY <1>4, <1>5 DEF RowsInvariant, DeliveryAuthorized, Published
  <1>11. QED BY <1>7, <1>8, <1>9, <1>10 DEF RowsInvariant

LEMMA AcceptRows ==
  ASSUME StoreTypeOK, RowsInvariant, NEW d \in DecisionIds, AcceptDecision(d)
  PROVE  RowsInvariant'
  <1>1. requests[d].rev \in Revisions
    BY RevisionsNat DEF AcceptDecision, NoRequest, StoreTypeOK
  <1>2. Accepts(d, requests[d].rev)
    BY DEF AcceptDecision, AwaitsDecision, Accepts
  <1>3. QED BY <1>1, <1>2, AcceptsRows

LEMMA ResolveRows ==
  ASSUME StoreTypeOK, LeaseHasOpenAttempt, RowsInvariant, NEW w \in Workers,
         NEW r \in Revisions, NEW d \in DecisionIds, ResolveReview(w, r, d)
  PROVE  RowsInvariant'
  <1>1. /\ status[r] = "resolution_pending" /\ decision[r] = d
        /\ requests[d].rev = r /\ requests[d].action \in Actions
    <2>1. status[r] = "resolution_pending" /\ decision[r] = d
      BY DEF ResolveReview, CanResolve
    <2>2. requests[d].rev = r
      BY <2>1 DEF RowsInvariant, DecisionRows
    <2>3. r # 0
      BY DEF Revisions
    <2>4. QED BY <2>1, <2>2, <2>3 DEF StoreTypeOK, NoRequest
  <1> DEFINE verdict == requests[d].action
             ended   == IF verdict = "approve" THEN "approved" ELSE "rejected"
             outcome == IF verdict = "approve" THEN "ready" ELSE "blocked"
  <1>2. /\ \A q \in Revisions : q # r => /\ status'[q] = status[q]
                                         /\ resolution'[q] = resolution[q]
                                         /\ pub'[q] = pub[q]
        /\ status'[r] = ended /\ resolution'[r] = verdict
        /\ run'.delivery = outcome
    BY DEF ResolveReview, SetStatus, StoreTypeOK
  <1>3. /\ pub[r].status = "none" => pub' = pub
        /\ pub[r].status # "none" => /\ pub'[r].status = outcome
                                     /\ pub'[r].current = pub[r].current
                                     /\ pub'[r].snapshot = pub[r].snapshot
    BY DEF ResolveReview, StoreTypeOK, Publication
  <1>4. UNCHANGED <<decision, requests, accepted, verification, baseline>>
    BY DEF ResolveReview, decisionVars
  <1>5. UnderReview(r)
    BY <1>1 DEF RowsInvariant, ReviewRows, Nonterminal
  <1>6. DecisionRows'
    BY <1>1, <1>2, <1>4 DEF RowsInvariant, DecisionRows, Decided, Actions
  <1>7. \A q \in Revisions : pub'[q].status = "none" <=> pub[q].status = "none"
    BY <1>2, <1>3
  <1>8. PublicationRows'
    <2>1. \A q \in Revisions :
            IF pub'[q].current
            THEN /\ pub'[q].status \in {"review_required", "ready", "blocked"}
                 /\ pub'[q].snapshot = verification'
            ELSE pub'[q].status \in {"none", "stale"}
      BY <1>2, <1>3, <1>4, <1>5 DEF RowsInvariant, PublicationRows, UnderReview, Published
    <2>2. \A p, q \in Revisions :
            pub'[p].status # "none" /\ q < p => pub'[q].status = "stale"
      BY <1>2, <1>3, <1>5, <1>7 DEF RowsInvariant, PublicationRows, UnderReview, Published
    <2>3. Published' = {} => verification' = 0
      BY <1>4, <1>7 DEF RowsInvariant, PublicationRows, Published
    <2>4. QED BY <2>1, <2>2, <2>3 DEF PublicationRows
  <1>9. ReviewRows'
    <2>1. \A q \in Revisions : q # r => status[q] \notin Nonterminal
      BY <1>1, OneReview DEF Nonterminal
    <2>2. \A q \in Revisions : status'[q] \notin Nonterminal /\ status'[q] \notin Decided
      BY <1>2, <2>1 DEF Nonterminal, Decided
    <2>3. \A q \in Revisions : q > 1 /\ pub'[q].status = "none" => status'[q] = "none"
      BY <1>1, <1>2, <1>7 DEF RowsInvariant, ReviewRows
    <2>4. baseline' = "not_required" /\ Published' = {} => status'[1] = "none"
      BY <1>1, <1>2, <1>4, <1>7, RevisionsNat DEF RowsInvariant, ReviewRows, Published
    <2>5. QED BY <2>2, <2>3, <2>4 DEF ReviewRows
  <1>10. DeliveryAuthorized'
    <2>1. SUFFICES ASSUME verdict = "approve"
                   PROVE  \/ Published' = {} /\ r = 1 /\ verification' = 0
                          \/ /\ pub'[r].current /\ pub'[r].status = "ready"
                             /\ pub'[r].snapshot = verification'
      BY <1>2 DEF DeliveryAuthorized
    <2>2. CASE pub[r].status = "none"
      BY <2>2, <1>3, <1>4, <1>5 DEF UnderReview, RowsInvariant, PublicationRows, Published
    <2>3. CASE pub[r].status # "none"
      BY <2>1, <2>3, <1>3, <1>4, <1>5
      DEF UnderReview, RowsInvariant, PublicationRows, Published
    <2>4. QED BY <2>2, <2>3
  <1>11. QED BY <1>6, <1>8, <1>9, <1>10 DEF RowsInvariant

(* Adoption inserts at most the baseline, current and built from no        *)
(* verification decision, and never disagrees with the workflow rows.      *)
AdoptedOK(pubs) ==
  /\ pubs \in [Revisions -> Publication]
  /\ \A r \in Revisions :
       IF pubs[r].current
       THEN /\ pubs[r].status \in {"review_required", "ready", "blocked"}
            /\ pubs[r].snapshot = verification
       ELSE pubs[r].status \in {"none", "stale"}
  /\ \A r, s \in Revisions :
       pubs[r].status # "none" /\ s < r => pubs[s].status = "stale"
  /\ \E r \in Revisions : pubs[r].status # "none"
  /\ \A r \in Revisions : pub[r].status # "none" \/ r > 1 => pubs[r] = pub[r]
  /\ \A r \in Revisions : pubs[r].status = "stale" <=> pub[r].status = "stale"
  /\ \A r \in Revisions : status[r] \in Nonterminal =>
       pubs[r].current /\ pubs[r].status = "review_required"
  /\ run.delivery = "ready" =>
       \E r \in Revisions :
         /\ resolution[r] = "approve" \/ (r = 1 /\ baseline = "not_required")
         /\ pubs[r].current /\ pubs[r].status = "ready"

LEMMA AdoptedRows ==
  ASSUME StoreTypeOK, RowsInvariant
  PROVE  \E pubs : pubs = AdoptedBaseline /\ AdoptedOK(pubs)
  <1> PICK pubs : pubs = AdoptedBaseline
    OBVIOUS
  <1> SUFFICES AdoptedOK(pubs)
    OBVIOUS
  <1> USE RevisionsNat
  <1>1. CASE Published # {}
    <2>1. pubs = pub
      BY <1>1 DEF AdoptedBaseline, Published
    <2>2. \A r \in Revisions : status[r] \in Nonterminal =>
            pubs[r].current /\ pubs[r].status = "review_required"
      BY <1>1, <2>1 DEF RowsInvariant, ReviewRows, UnderReview
    <2>3. run.delivery = "ready" =>
            \E r \in Revisions :
              /\ resolution[r] = "approve" \/ (r = 1 /\ baseline = "not_required")
              /\ pubs[r].current /\ pubs[r].status = "ready"
      BY <1>1, <2>1 DEF RowsInvariant, DeliveryAuthorized
    <2>4. /\ PublicationRows /\ pub \in [Revisions -> Publication]
          /\ \E r \in Revisions : pub[r].status # "none"
      BY <1>1 DEF RowsInvariant, StoreTypeOK, Published
    <2>5. QED BY <2>1, <2>2, <2>3, <2>4 DEF PublicationRows, AdoptedOK
  <1>2. CASE Published = {}
    <2>1. verification = 0
      BY <1>2 DEF RowsInvariant, PublicationRows
    <2>2. /\ BaselineStatus \in {"review_required", "ready", "blocked"}
          /\ run.delivery = "ready" /\ (baseline = "not_required" \/ resolution[1] = "approve")
               => BaselineStatus = "ready"
          /\ run.delivery = "review_required" /\ resolution[1] # "reject"
               => BaselineStatus = "review_required"
      BY <2>1 DEF BaselineStatus
    <2>3. pubs \in [Revisions -> Publication]
      BY AdoptedType
    <2>4. /\ \A r \in Revisions : r # 1 => pubs[r] = pub[r]
          /\ pubs[1].status = BaselineStatus /\ pubs[1].current /\ pubs[1].snapshot = 0
      BY <1>2, <2>2 DEF AdoptedBaseline, Published, StoreTypeOK
    <2>5. \A r \in Revisions : pub[r].status = "none" /\ ~ pub[r].current
      BY <1>2 DEF Published, RowsInvariant, PublicationRows
    <2>6. \A r \in Revisions : status[r] \in Nonterminal =>
            pubs[r].current /\ pubs[r].status = "review_required"
      <3>1. SUFFICES ASSUME NEW r \in Revisions, status[r] \in Nonterminal
                     PROVE  pubs[r].current /\ pubs[r].status = "review_required"
        OBVIOUS
      <3>2. r = 1 /\ run.delivery = "review_required"
        BY <1>2, <2>5, <3>1 DEF RowsInvariant, ReviewRows, UnderReview
      <3>3. resolution[r] # "reject"
        BY <3>1 DEF RowsInvariant, DecisionRows, Nonterminal
      <3>4. QED BY <2>2, <2>4, <3>2, <3>3
    <2>7. run.delivery = "ready" =>
            \E r \in Revisions :
              /\ resolution[r] = "approve" \/ (r = 1 /\ baseline = "not_required")
              /\ pubs[r].current /\ pubs[r].status = "ready"
      BY <1>2, <2>2, <2>4, <2>5 DEF RowsInvariant, DeliveryAuthorized
    <2>8. \A r, s \in Revisions :
            pubs[r].status # "none" /\ s < r => pubs[s].status = "stale"
      BY <2>4, <2>5 DEF Revisions
    <2>9. \A r \in Revisions : pubs[r].status = "stale" <=> pub[r].status = "stale"
      BY <2>2, <2>4, <2>5
    <2>10. QED BY <2>1, <2>2, <2>3, <2>4, <2>5, <2>6, <2>7, <2>8, <2>9 DEF AdoptedOK
  <1>3. QED BY <1>1, <1>2

(* What staling does to the publications adoption leaves.                  *)
LEMMA StaledRows ==
  ASSUME NEW pubs, pubs = AdoptedBaseline, AdoptedOK(pubs), AcceptVerification
  PROVE  \A r \in Revisions :
           /\ pub'[r].current = FALSE
           /\ pub'[r].status = IF pubs[r].current THEN "stale" ELSE pubs[r].status
  <1>1. pub' = [r \in Revisions |->
                  IF r \in {q \in Revisions : AdoptedBaseline[q].current}
                  THEN [AdoptedBaseline[r] EXCEPT !.status = "stale", !.current = FALSE]
                  ELSE AdoptedBaseline[r]]
    BY Zenon DEF AcceptVerification
  <1>2. \A p \in Publication :
          /\ [p EXCEPT !.status = "stale", !.current = FALSE].status = "stale"
          /\ [p EXCEPT !.status = "stale", !.current = FALSE].current = FALSE
          /\ p.current \in BOOLEAN
    BY DEF Publication
  <1>3. \A r \in Revisions : pubs[r] \in Publication
    BY DEF AdoptedOK
  <1>4. QED BY <1>1, <1>2, <1>3

LEMMA VerificationRows ==
  ASSUME StoreTypeOK, RowsInvariant, AcceptVerification
  PROVE  RowsInvariant'
  <1>0. PICK pubs : pubs = AdoptedBaseline /\ AdoptedOK(pubs)
    BY AdoptedRows
  <1> USE DEF StoreTypeOK
  <1>1. \A r \in Revisions :
          /\ pub'[r].current = FALSE
          /\ pub'[r].status = IF pubs[r].current THEN "stale" ELSE pubs[r].status
    BY <1>0, StaledRows
  <1>2. \A r \in Revisions :
          \/ status'[r] = "superseded" /\ status[r] \in Nonterminal
          \/ status'[r] = status[r] /\ status[r] \notin Nonterminal
    BY <1>0 DEF AcceptVerification, Supersedable, Nonterminal, AdoptedOK
  <1>3. UNCHANGED <<decision, requests, accepted, resolution, baseline>>
    BY Zenon DEF AcceptVerification, decisionVars
  <1>4. run'.delivery = run.delivery \/ run'.delivery = "review_required"
    <2>1. run' = run \/ RequireReview(run.version + 1)
      BY Zenon DEF AcceptVerification
    <2>2. QED BY <2>1 DEF RequireReview
  <1>5. \E r \in Revisions : pub'[r].status # "none"
    BY <1>0, <1>1 DEF AdoptedOK
  <1>6. DecisionRows'
    BY <1>2, <1>3 DEF RowsInvariant, DecisionRows, Nonterminal, Decided
  <1>7. PublicationRows'
    <2>1. /\ \A r \in Revisions :
               IF pubs[r].current THEN pubs[r].status # "none"
                                  ELSE pubs[r].status \in {"none", "stale"}
          /\ \A r, s \in Revisions :
               pubs[r].status # "none" /\ s < r => pubs[s].status = "stale"
      BY <1>0 DEF AdoptedOK
    <2>2. \A r \in Revisions : pub'[r].status \in {"none", "stale"}
      BY <1>1, <2>1
    <2>3. \A r, s \in Revisions :
            pub'[r].status # "none" /\ s < r => pub'[s].status = "stale"
      BY <1>1, <2>1
    <2>4. QED BY <1>1, <1>5, <2>2, <2>3 DEF PublicationRows, Published
  <1>8. ReviewRows'
    <2>1. \A r \in Revisions : r > 1 /\ pub'[r].status = "none" => status'[r] = "none"
      BY <1>0, <1>1, <1>2 DEF RowsInvariant, ReviewRows, AdoptedOK
    <2>2. QED BY <1>2, <1>5, <2>1 DEF ReviewRows, Nonterminal, Decided, Published
  <1>9. DeliveryAuthorized'
    <2>1. run'.delivery # "ready"
      <3>1. CASE \E r \in Revisions : pubs[r].current
        <4>1. {q \in Revisions : pubs[q].current} # {}
          BY <3>1
        <4>2. RequireReview(run.version + 1)
          BY <1>0, <4>1, Zenon DEF AcceptVerification
        <4>3. QED BY <4>2 DEF RequireReview
      <3>2. CASE ~ \E r \in Revisions : pubs[r].current
        BY <1>0, <3>2, <1>4 DEF AdoptedOK
      <3>3. QED BY <3>1, <3>2
    <2>2. QED BY <2>1 DEF DeliveryAuthorized
  <1>10. QED BY <1>6, <1>7, <1>8, <1>9 DEF RowsInvariant

(* Both ways to insert a workflow: the current publication lacks one, or   *)
(* no publication is current and the next revision is published.           *)
LEMMA InsertRows ==
  ASSUME StoreTypeOK, RowsInvariant, FinalizePublication, NEW r \in Revisions,
         status[r] = "none", InsertWorkflow(r),
         PublicationRows', pub'[r].current, pub'[r].status = "review_required",
         \A s \in Revisions : s > 1 /\ pub'[s].status = "none" => pub[s].status = "none",
         \A s \in Revisions : s # r => status[s] \notin Nonterminal
  PROVE  RowsInvariant'
  <1>1. /\ \A s \in Revisions : s # r => status'[s] = status[s]
        /\ status'[r] = "checkpoint_pending"
        /\ run'.delivery = "review_required"
    BY DEF InsertWorkflow, SetStatus, RequireReview, StoreTypeOK
  <1>2. UNCHANGED <<decision, requests, accepted, resolution, verification, baseline>>
    BY DEF FinalizePublication, decisionVars
  <1>3. DecisionRows'
    BY <1>1, <1>2 DEF RowsInvariant, DecisionRows, Decided
  <1>4. ReviewRows'
    BY <1>1 DEF RowsInvariant, ReviewRows, UnderReview, Published, Nonterminal, Decided
  <1>5. DeliveryAuthorized'
    BY <1>1 DEF DeliveryAuthorized
  <1>6. QED BY <1>3, <1>4, <1>5 DEF RowsInvariant

LEMMA FinalizeRows ==
  ASSUME StoreTypeOK, RowsInvariant, FinalizePublication
  PROVE  RowsInvariant'
  <1> DEFINE new  == [status |-> "review_required", current |-> TRUE,
                      snapshot |-> verification, artifacts |-> {"draft"}]
  <1>0. PICK pubs : pubs = AdoptedBaseline /\ AdoptedOK(pubs)
    BY AdoptedRows
  <1> USE RevisionsNat
  <1>1. UNCHANGED <<decision, requests, accepted, resolution, verification, baseline>>
    BY DEF FinalizePublication, decisionVars
  <1>2. ASSUME pub' = pubs PROVE PublicationRows'
    BY <1>0, <1>1, <1>2 DEF PublicationRows, Published, AdoptedOK
  <1>3. ASSUME pub' = pubs, UNCHANGED <<status, run>>
        PROVE  RowsInvariant'
    <2>1. DecisionRows'
      BY <1>1, <1>3 DEF RowsInvariant, DecisionRows, Decided
    <2>2. ReviewRows'
      BY <1>0, <1>1, <1>3
      DEF RowsInvariant, ReviewRows, UnderReview, Published, AdoptedOK
    <2>3. DeliveryAuthorized'
      BY <1>0, <1>1, <1>3 DEF DeliveryAuthorized, AdoptedOK
    <2>4. QED BY <1>2, <1>3, <2>1, <2>2, <2>3 DEF RowsInvariant
  <1>4. ASSUME pub' = pubs, NEW r \in Revisions, pubs[r].current,
               pubs[r].status = "review_required", status[r] = "none", InsertWorkflow(r)
        PROVE  RowsInvariant'
    <2>1. \A s \in Revisions : s # r => ~ pubs[s].current
      BY <1>0, <1>4 DEF Revisions, AdoptedOK
    <2>2. \A s \in Revisions : s # r => status[s] \notin Nonterminal
      BY <1>0, <2>1 DEF AdoptedOK
    <2>3. \A s \in Revisions : s > 1 /\ pub'[s].status = "none" => pub[s].status = "none"
      BY <1>0, <1>4 DEF AdoptedOK
    <2>4. QED BY <1>2, <1>4, <2>2, <2>3, InsertRows
  <1>5. ASSUME NEW r \in Revisions, \A s \in Revisions : ~ pubs[s].current,
               \A s \in Revisions : pubs[s].status # "none" <=> s < r,
               pub' = [pubs EXCEPT ![r] = new], InsertWorkflow(r)
        PROVE  RowsInvariant'
    <2>1. /\ pub'[r] = new /\ pub'[r].current /\ pub'[r].status = "review_required"
          /\ \A s \in Revisions : s # r => pub'[s] = pubs[s]
      BY <1>0, <1>5 DEF AdoptedOK
    <2>2. \A s \in Revisions : status[s] \notin Nonterminal
      BY <1>0, <1>5 DEF AdoptedOK
    <2>3. r > 1
      BY <1>0, <1>5 DEF Revisions, AdoptedOK
    <2>4. status[r] = "none"
      <3>1. pubs[r] = pub[r] /\ pubs[r].status = "none"
        BY <1>0, <1>5, <2>3 DEF AdoptedOK, Revisions
      <3>2. QED BY <2>3, <3>1 DEF RowsInvariant, ReviewRows
    <2>5. PublicationRows'
      <3>1. \A s \in Revisions :
              IF pub'[s].current
              THEN /\ pub'[s].status \in {"review_required", "ready", "blocked"}
                   /\ pub'[s].snapshot = verification'
              ELSE pub'[s].status \in {"none", "stale"}
        BY <1>0, <1>1, <2>1 DEF AdoptedOK
      <3>2. \A p, q \in Revisions :
              pub'[p].status # "none" /\ q < p => pub'[q].status = "stale"
        <4>1. \A p \in Revisions : p # r /\ pubs[p].status # "none" => p < r
          BY <1>5
        <4>2. \A q \in Revisions : q < r => pub'[q].status = "stale"
          BY <1>0, <1>5, <2>1 DEF AdoptedOK, Revisions
        <4>3. QED BY <1>0, <2>1, <4>1, <4>2 DEF AdoptedOK, Revisions
      <3>3. Published' # {}
        BY <2>1 DEF Published
      <3>4. QED BY <3>1, <3>2, <3>3 DEF PublicationRows
    <2>6. \A s \in Revisions : s > 1 /\ pub'[s].status = "none" => pub[s].status = "none"
      <3>1. \A s \in Revisions : s > 1 => pubs[s] = pub[s]
        BY <1>0 DEF AdoptedOK
      <3>2. QED BY <2>1, <3>1
    <2>7. QED BY <1>5, <2>1, <2>2, <2>4, <2>5, <2>6, InsertRows
  <1>6. QED BY <1>0, <1>3, <1>4, <1>5 DEF FinalizePublication

-----------------------------------------------------------------------------
(* Where a workflow and a publication come from.                           *)

(* A transaction that starts no workflow and touches no publication.       *)
LEMMA OriginKept ==
  ASSUME OriginRows, UNCHANGED <<pub, baseline>>, run'.delivery = run.delivery,
         \A q \in Revisions : status'[q] = "none" <=> status[q] = "none"
  PROVE  OriginRows'
  BY RevisionsNat DEF OriginRows

(* Who holds a lease holds an unfinished review.                           *)
LEMMA OwnedIsUnfinished ==
  ASSUME LeaseHasOpenAttempt, NEW w \in Workers, NEW r \in Revisions, Owned(w, r)
  PROVE  status[r] \in {"checkpoint_pending", "resuming", "resolution_pending"}
  BY DEF LeaseHasOpenAttempt, Owned

LEMMA OriginWorkerTx ==
  ASSUME StoreTypeOK, LeaseHasOpenAttempt, RowsInvariant, OriginRows,
         NEW w \in Workers, NEW r \in Revisions, WorkerTx(w, r)
  PROVE  OriginRows'
  <1> USE DEF StoreTypeOK
  <1>1. ASSUME NEW d \in DecisionIds \cup {NoDecision}, ResolveReview(w, r, d)
        PROVE  OriginRows'
    <2>1. status[r] = "resolution_pending" /\ UnderReview(r)
      BY <1>1 DEF ResolveReview, CanResolve, RowsInvariant, ReviewRows, Nonterminal
    <2>2. /\ \A q \in Revisions : status'[q] = "none" <=> status[q] = "none"
          /\ \A q \in Revisions : q # r => pub'[q] = pub[q]
          /\ pub'[r].status = "none" <=> pub[r].status = "none"
          /\ baseline' = baseline
      BY <1>1, <2>1 DEF ResolveReview, SetStatus, Publication
    <2>3. baseline = "not_required" => r # 1 /\ pub[1].status = "stale"
      <3>1. ~ (baseline = "not_required" /\ Published = {} /\ r = 1)
        BY <2>1 DEF RowsInvariant, ReviewRows
      <3>2. pub[r].current => pub[r].status # "none"
        BY DEF RowsInvariant, PublicationRows
      <3>3. pub[r].current /\ r > 1 => pub[1].status = "stale"
        BY <3>2, RevisionsNat DEF RowsInvariant, PublicationRows
      <3>4. baseline = "not_required" => r # 1
        BY <2>1, <3>1 DEF UnderReview, OriginRows
      <3>5. QED BY <2>1, <3>3, <3>4, RevisionsNat DEF UnderReview, Revisions
    <2>4. QED BY <2>2, <2>3, RevisionsNat DEF OriginRows
  <1>2. CASE ~ \E d \in DecisionIds \cup {NoDecision} : ResolveReview(w, r, d)
    <2>1. PICK s : SetStatus(r, s) /\ s # "none" /\ status[r] # "none"
      BY <1>2, WorkerTx(w, r), OwnedIsUnfinished
      DEF WorkerTx, ClaimReviewWorkflow, Due, Claimable, CompleteCheckpointCreation,
          CanCompleteCheckpoint, MarkResolutionPending, CanMarkResolution,
          ReleaseWorkflowForRetry, CanRelease, RetryStatus, OwnerGivesUp, CanOwnerGiveUp
    <2>2. UNCHANGED <<pub, baseline, run>>
      BY <1>2 DEF WorkerTx, ClaimReviewWorkflow, CompleteCheckpointCreation,
         MarkResolutionPending, ReleaseWorkflowForRetry, OwnerGivesUp, outcomeVars
    <2>3. QED BY <2>1, <2>2, OriginKept DEF SetStatus
  <1>3. QED BY <1>1, <1>2

LEMMA OriginReconcilerTx ==
  ASSUME StoreTypeOK, OriginRows, NEW r \in Revisions, ReconcilerTx(r)
  PROVE  OriginRows'
  <1> USE DEF StoreTypeOK
  <1>1. UNCHANGED <<pub, baseline, run>>
    BY DEF ReconcilerTx, MarkWaitingDecision, ReconcileResolution, ReleaseExpiredLease,
           ReconcilerGivesUp, ExpireLease, outcomeVars
  <1>2. \A q \in Revisions : status'[q] = "none" <=> status[q] = "none"
    BY DEF ReconcilerTx, MarkWaitingDecision, ReconcileResolution, CanReconcileResolution,
           ReleaseExpiredLease, CanReleaseExpired, ReconcilerGivesUp, CanReconcilerGiveUp,
           ExpireLease, SetStatus
  <1>3. QED BY <1>1, <1>2, OriginKept

LEMMA OriginVerification ==
  ASSUME StoreTypeOK, RowsInvariant, OriginRows, AcceptVerification
  PROVE  OriginRows'
  <1>0. PICK pubs : pubs = AdoptedBaseline /\ AdoptedOK(pubs)
    BY AdoptedRows
  <1>1. \A r \in Revisions :
          pub'[r].status = IF pubs[r].current THEN "stale" ELSE pubs[r].status
    BY <1>0, StaledRows
  <1>2. \A r \in Revisions : status'[r] = "none" => status[r] = "none"
    BY DEF AcceptVerification
  <1>3. pub'[1].status = "stale"
    BY <1>0, <1>1, RevisionsNat DEF AdoptedOK, Revisions
  <1>4. \A r \in Revisions : r > 1 /\ pub'[r].status # "none" => pub[r].status # "none"
    BY <1>0, <1>1 DEF AdoptedOK
  <1>5. QED BY <1>2, <1>3, <1>4 DEF OriginRows

LEMMA OriginFinalize ==
  ASSUME StoreTypeOK, RowsInvariant, OriginRows, FinalizePublication
  PROVE  OriginRows'
  <1>0. PICK pubs : pubs = AdoptedBaseline /\ AdoptedOK(pubs)
    BY AdoptedRows
  <1> USE RevisionsNat DEF StoreTypeOK
  <1>1. baseline' = baseline
    BY DEF FinalizePublication
  <1>2. baseline = "not_required" /\ pubs[1].status # "stale"
          => /\ run.delivery = "ready" /\ status[1] = "none"
             /\ pubs[1].status = "ready"
    <2>1. SUFFICES ASSUME baseline = "not_required", pubs[1].status # "stale"
                   PROVE  /\ run.delivery = "ready" /\ status[1] = "none"
                          /\ pubs[1].status = "ready"
      OBVIOUS
    <2>2. pub[1].status # "stale"
      BY <1>0, <2>1 DEF AdoptedOK
    <2>3. run.delivery = "ready" /\ status[1] = "none"
      BY <2>1, <2>2 DEF OriginRows
    <2>4. PICK r \in Revisions : pubs[r].current /\ pubs[r].status = "ready"
      BY <1>0, <2>3 DEF AdoptedOK
    <2>5. r = 1
      BY <1>0, <2>1, <2>4 DEF AdoptedOK, Revisions
    <2>6. QED BY <2>3, <2>4, <2>5
  <1>3. \A r \in Revisions : r > 1 /\ pubs[r].status # "none" => status[r] # "none"
    BY <1>0 DEF AdoptedOK, OriginRows
  <1>4. CASE pub' = pubs /\ UNCHANGED <<status, run>>
    BY <1>1, <1>2, <1>3, <1>4 DEF OriginRows
  <1>5. ASSUME NEW r \in Revisions, pubs[r].status = "review_required",
               status[r] = "none", pub' = pubs, InsertWorkflow(r)
        PROVE  OriginRows'
    <2>1. r = 1 /\ ~ (baseline = "not_required" /\ pubs[1].status # "stale")
      BY <1>2, <1>3, <1>5 DEF Revisions
    <2>2. \A s \in Revisions : s > 1 => status'[s] = status[s]
      BY <1>5, <2>1 DEF InsertWorkflow, SetStatus
    <2>3. QED BY <1>1, <1>3, <1>5, <2>1, <2>2 DEF OriginRows
  <1>6. ASSUME NEW r \in Revisions, \A s \in Revisions : ~ pubs[s].current,
               \A s \in Revisions : pubs[s].status # "none" <=> s < r,
               \A s \in Revisions : s # r => pub'[s] = pubs[s], InsertWorkflow(r)
        PROVE  OriginRows'
    <2>1. r > 1 /\ pub'[1].status = "stale"
      BY <1>0, <1>6 DEF AdoptedOK, Revisions
    <2>2. /\ status'[r] = "checkpoint_pending"
          /\ \A s \in Revisions : s # r => status'[s] = status[s]
      BY <1>6 DEF InsertWorkflow, SetStatus
    <2>3. QED BY <1>3, <1>6, <2>1, <2>2 DEF OriginRows
  <1>7. \A r \in Revisions : \A new :
          pub' = [pubs EXCEPT ![r] = new] => \A s \in Revisions : s # r => pub'[s] = pubs[s]
    BY <1>0 DEF AdoptedOK
  <1>8. QED BY <1>0, <1>4, <1>5, <1>6, <1>7 DEF FinalizePublication

LEMMA OriginStep ==
  ASSUME StoreTypeOK, LeaseHasOpenAttempt, RowsInvariant, OriginRows,
         [StoreNext]_storeVars
  PROVE  OriginRows'
  <1>1. CASE UNCHANGED storeVars
    BY <1>1 DEF storeVars, workflowVars, outcomeVars, OriginRows
  <1>2. ASSUME NEW d \in DecisionIds, AcceptDecision(d) PROVE OriginRows'
    <2>1. requests[d].rev \in Revisions => status[requests[d].rev] # "none"
      BY <1>2 DEF AcceptDecision, AwaitsDecision
    <2>2. /\ \A q \in Revisions : status'[q] = "none" <=> status[q] = "none"
          /\ UNCHANGED <<pub, baseline>> /\ run'.delivery = run.delivery
      BY <1>2, <2>1 DEF AcceptDecision, SetStatus, StoreTypeOK, outcomeVars
    <2>3. QED BY <2>2, OriginKept
  <1>3. ASSUME NEW d \in DecisionIds, NEW r \in Revisions, NEW a \in Actions,
               ComposeDecision(d, r, a)
        PROVE  OriginRows'
    BY <1>3, OriginKept DEF ComposeDecision, workflowVars, outcomeVars
  <1>4. QED BY <1>1, <1>2, <1>3, OriginWorkerTx, OriginReconcilerTx, OriginVerification,
               OriginFinalize DEF StoreNext, ClientTx

-----------------------------------------------------------------------------
(* What no transaction does.                                               *)

(* An ended workflow does not move. *)
LEMMA TerminalStep ==
  ASSUME StoreTypeOK, StoreInvariant, [StoreNext]_storeVars,
         NEW q \in Revisions, status[q] \in Terminal
  PROVE  status'[q] = status[q]
  <1> USE DEF StoreTypeOK, Terminal, SetStatus
  <1>0. LeaseHasOpenAttempt /\ RowsInvariant
    BY DEF StoreInvariant, RowsInvariant
  <1>1. ASSUME NEW w \in Workers, NEW r \in Revisions, WorkerTx(w, r)
        PROVE  status'[q] = status[q]
    <2>1. status[r] \notin Terminal
      BY <1>0, <1>1, OwnedIsUnfinished
      DEF WorkerTx, ClaimReviewWorkflow, Due, Claimable, CompleteCheckpointCreation,
          CanCompleteCheckpoint, MarkResolutionPending, CanMarkResolution,
          ResolveReview, CanResolve, ReleaseWorkflowForRetry, CanRelease,
          OwnerGivesUp, CanOwnerGiveUp
    <2>2. \E s : SetStatus(r, s)
      BY <1>1 DEF WorkerTx, ClaimReviewWorkflow, CompleteCheckpointCreation,
                  MarkResolutionPending, ResolveReview, ReleaseWorkflowForRetry,
                  OwnerGivesUp
    <2>3. QED BY <2>1, <2>2
  <1>2. ASSUME NEW r \in Revisions, ReconcilerTx(r)
        PROVE  status'[q] = status[q]
    BY <1>2 DEF ReconcilerTx, MarkWaitingDecision, ReconcileResolution,
         CanReconcileResolution, ReleaseExpiredLease, CanReleaseExpired,
         ReconcilerGivesUp, CanReconcilerGiveUp, ExpireLease
  <1>3. CASE AcceptVerification
    BY <1>3 DEF AcceptVerification, Supersedable
  <1>4. CASE FinalizePublication
    <2>1. PICK pubs : pubs = AdoptedBaseline /\ AdoptedOK(pubs)
      BY <1>0, AdoptedRows
    <2>2. ASSUME NEW r \in Revisions, \A s \in Revisions : pubs[s].status # "none" <=> s < r
          PROVE  status[r] = "none"
      <3>1. r > 1 /\ pubs[r].status = "none"
        BY <2>1, <2>2 DEF AdoptedOK, Revisions
      <3>2. QED BY <1>0, <2>1, <3>1 DEF AdoptedOK, RowsInvariant, ReviewRows
    <2>3. \/ status' = status
          \/ \E r \in Revisions : status[r] = "none" /\ InsertWorkflow(r)
      BY <1>4, <2>1, <2>2 DEF FinalizePublication
    <2>4. QED BY <2>3 DEF InsertWorkflow
  <1>5. CASE \E d \in DecisionIds : AcceptDecision(d)
    BY <1>5 DEF AcceptDecision, AwaitsDecision
  <1>6. CASE \E d \in DecisionIds, r \in Revisions, a \in Actions : ComposeDecision(d, r, a)
    BY <1>6 DEF ComposeDecision, workflowVars
  <1>7. CASE UNCHANGED storeVars
    BY <1>7 DEF storeVars, workflowVars
  <1>8. QED BY <1>1, <1>2, <1>3, <1>4, <1>5, <1>6, <1>7 DEF StoreNext, ClientTx

(* A stale publication and its resolution do not change. *)
LEMMA StaleStep ==
  ASSUME StoreTypeOK, StoreInvariant, [StoreNext]_storeVars,
         NEW q \in Revisions, pub[q].status = "stale"
  PROVE  pub'[q] = pub[q] /\ resolution'[q] = resolution[q]
  <1> USE DEF StoreTypeOK
  <1>0. RowsInvariant
    BY DEF StoreInvariant, RowsInvariant
  <1>1. ASSUME NEW w \in Workers, NEW r \in Revisions, WorkerTx(w, r)
        PROVE  pub'[q] = pub[q] /\ resolution'[q] = resolution[q]
    <2>1. ASSUME NEW d \in DecisionIds \cup {NoDecision}, ResolveReview(w, r, d)
          PROVE  pub'[q] = pub[q] /\ resolution'[q] = resolution[q]
      <3>1. r # q
        BY <2>1 DEF ResolveReview, CanResolve, ActiveReview
      <3>2. resolution'[q] = resolution[q]
        BY <2>1, <3>1 DEF ResolveReview
      <3>3. pub'[q] = pub[q]
        BY <2>1, <3>1 DEF ResolveReview
      <3>4. QED BY <3>2, <3>3
    <2>2. ASSUME NEW d \in DecisionIds \cup {NoDecision}, MarkResolutionPending(w, r, d)
          PROVE  pub' = pub /\ resolution' = resolution
      BY <2>2 DEF MarkResolutionPending, outcomeVars
    <2>3. CASE \/ ClaimReviewWorkflow(w, r) \/ CompleteCheckpointCreation(w, r)
               \/ ReleaseWorkflowForRetry(w, r) \/ OwnerGivesUp(w, r)
      BY <2>3 DEF ClaimReviewWorkflow, CompleteCheckpointCreation,
         ReleaseWorkflowForRetry, OwnerGivesUp, outcomeVars
    <2>4. QED BY <1>1, <2>1, <2>2, <2>3 DEF WorkerTx
  <1>2. ASSUME NEW r \in Revisions, ReconcilerTx(r)
        PROVE  pub'[q] = pub[q] /\ resolution'[q] = resolution[q]
    BY <1>2 DEF ReconcilerTx, MarkWaitingDecision, ReconcileResolution,
         ReleaseExpiredLease, ReconcilerGivesUp, ExpireLease, outcomeVars
  <1>3. CASE AcceptVerification \/ FinalizePublication
    <2>1. PICK pubs : pubs = AdoptedBaseline /\ AdoptedOK(pubs)
      BY <1>0, AdoptedRows
    <2>2. pubs[q] = pub[q] /\ ~ pubs[q].current /\ pubs[q].status # "none"
      BY <2>1 DEF AdoptedOK
    <2>3. resolution' = resolution
      BY <1>3, Zenon DEF AcceptVerification, FinalizePublication
    <2>4. CASE AcceptVerification
      <3>1. pub' = [r \in Revisions |->
                      IF r \in {s \in Revisions : AdoptedBaseline[s].current}
                      THEN [AdoptedBaseline[r] EXCEPT !.status = "stale", !.current = FALSE]
                      ELSE AdoptedBaseline[r]]
        BY <2>4, Zenon DEF AcceptVerification
      <3>2. QED BY <2>1, <2>2, <2>3, <3>1
    <2>5. CASE FinalizePublication
      <3>1. \/ pub' = pubs
            \/ \E r \in Revisions :
                 /\ \A s \in Revisions : pubs[s].status # "none" <=> s < r
                 /\ \A s \in Revisions : s # r => pub'[s] = pubs[s]
        BY <2>1, <2>5 DEF FinalizePublication, AdoptedOK
      <3>2. pub'[q] = pubs[q]
        BY <2>2, <3>1, RevisionsNat
      <3>3. QED BY <2>2, <2>3, <3>2
    <2>6. QED BY <1>3, <2>4, <2>5
  <1>4. CASE \E d \in DecisionIds : AcceptDecision(d)
    BY <1>4 DEF AcceptDecision, outcomeVars
  <1>5. CASE \E d \in DecisionIds, r \in Revisions, a \in Actions : ComposeDecision(d, r, a)
    BY <1>5 DEF ComposeDecision, outcomeVars
  <1>6. CASE UNCHANGED storeVars
    BY <1>6 DEF storeVars, outcomeVars
  <1>7. QED BY <1>1, <1>2, <1>3, <1>4, <1>5, <1>6 DEF StoreNext, ClientTx

(* An accepted decision is never replaced by another one. *)
LEMMA DecisionStep ==
  ASSUME StoreTypeOK, StoreInvariant, [StoreNext]_storeVars,
         NEW q \in Revisions, decision[q] \in DecisionIds
  PROVE  decision'[q] = decision[q]
  <1> USE DEF StoreTypeOK
  <1>1. CASE \E d \in DecisionIds : AcceptDecision(d)
    BY <1>1, StoreAssumption
    DEF AcceptDecision, AwaitsDecision, StoreInvariant, DecisionRows
  <1>2. CASE ~ \E d \in DecisionIds : AcceptDecision(d)
    <2>1. decision' = decision
      <3>1. ASSUME NEW w \in Workers, NEW r \in Revisions, WorkerTx(w, r)
            PROVE  decision' = decision
        BY <3>1 DEF WorkerTx, ClaimReviewWorkflow, CompleteCheckpointCreation,
             MarkResolutionPending, ResolveReview, ReleaseWorkflowForRetry, OwnerGivesUp
      <3>2. ASSUME NEW r \in Revisions, ReconcilerTx(r)
            PROVE  decision' = decision
        BY <3>2 DEF ReconcilerTx, MarkWaitingDecision, ReconcileResolution,
             ReleaseExpiredLease, ReconcilerGivesUp, ExpireLease
      <3>3. CASE AcceptVerification \/ FinalizePublication
        BY <3>3, Zenon DEF AcceptVerification, FinalizePublication
      <3>4. CASE \E d \in DecisionIds, r \in Revisions, a \in Actions :
                   ComposeDecision(d, r, a)
        BY <3>4 DEF ComposeDecision, workflowVars
      <3>5. CASE UNCHANGED storeVars
        BY <3>5 DEF storeVars, workflowVars
      <3>6. QED BY <1>2, <3>1, <3>2, <3>3, <3>4, <3>5 DEF StoreNext, ClientTx
    <2>2. QED BY <2>1
  <1>3. QED BY <1>1, <1>2

(* Accepted evidence alone supersedes, the workflow with its publication. *)
LEMMA SupersededStep ==
  ASSUME StoreTypeOK, StoreInvariant, [StoreNext]_storeVars
  PROVE  SupersededRows'
  <1> SUFFICES ASSUME NEW q \in Revisions, status'[q] = "superseded"
               PROVE  pub'[q].status = "stale"
    BY DEF SupersededRows
  <1>0. RowsInvariant
    BY DEF StoreInvariant, RowsInvariant
  <1>1. CASE status[q] = "superseded"
    <2>1. pub[q].status = "stale"
      BY <1>1 DEF StoreInvariant, SupersededRows
    <2>2. QED BY <2>1, StaleStep
  <1>2. CASE status[q] # "superseded" /\ AcceptVerification
    <2>1. PICK pubs : pubs = AdoptedBaseline /\ AdoptedOK(pubs)
      BY <1>0, AdoptedRows
    <2>2. pubs[q].current
      BY <1>2, <2>1 DEF AcceptVerification
    <2>3. QED BY <1>2, <2>1, <2>2, StaledRows
  <1>3. CASE status[q] # "superseded" /\ ~ AcceptVerification
    <2> USE DEF StoreTypeOK, SetStatus
    <2>1. ASSUME NEW w \in Workers, NEW r \in Revisions, WorkerTx(w, r) PROVE FALSE
      BY <1>3, <2>1 DEF WorkerTx, ClaimReviewWorkflow, CompleteCheckpointCreation,
         MarkResolutionPending, ResolveReview, ReleaseWorkflowForRetry, RetryStatus,
         OwnerGivesUp
    <2>2. ASSUME NEW r \in Revisions, ReconcilerTx(r) PROVE FALSE
      BY <1>3, <2>2 DEF ReconcilerTx, MarkWaitingDecision, ReconcileResolution,
         ReleaseExpiredLease, ReconcilerGivesUp, ExpireLease
    <2>3. ASSUME FinalizePublication PROVE FALSE
      <3>1. status' = status \/ \E r \in Revisions : SetStatus(r, "checkpoint_pending")
        BY <2>3 DEF FinalizePublication, InsertWorkflow
      <3>2. QED BY <1>3, <3>1
    <2>4. ASSUME NEW d \in DecisionIds, AcceptDecision(d) PROVE FALSE
      BY <1>3, <2>4 DEF AcceptDecision
    <2>5. ASSUME NEW d \in DecisionIds, NEW r \in Revisions, NEW a \in Actions,
                 ComposeDecision(d, r, a)
          PROVE  FALSE
      BY <1>3, <2>5 DEF ComposeDecision, workflowVars
    <2>6. ASSUME UNCHANGED storeVars PROVE FALSE
      BY <1>3, <2>6 DEF storeVars, workflowVars
    <2>7. QED BY <1>3, <2>1, <2>2, <2>3, <2>4, <2>5, <2>6 DEF StoreNext, ClientTx
  <1>4. QED BY <1>1, <1>2, <1>3

(* The rows that are there stay, with the snapshot they were made from; a  *)
(* row that is new was made from all evidence accepted by then; and only   *)
(* accepted evidence takes a publication out of delivery.                  *)
PublicationKept(q) ==
  /\ pub[q].status # "none" =>
       pub'[q].status # "none" /\ pub'[q].snapshot = pub[q].snapshot
  /\ pub[q].status = "none" /\ pub'[q].status # "none" =>
       pub'[q].snapshot = verification
  /\ pub[q].current => pub'[q].current \/ AcceptVerification

LEMMA PublicationStep ==
  ASSUME StoreTypeOK, StoreInvariant, [StoreNext]_storeVars, NEW q \in Revisions
  PROVE  PublicationKept(q)
  <1> USE DEF StoreTypeOK
  <1>0. RowsInvariant
    BY DEF StoreInvariant, RowsInvariant
  <1>1. ASSUME pub' = pub PROVE PublicationKept(q)
    BY <1>1 DEF PublicationKept
  <1>2. ASSUME NEW w \in Workers, NEW r \in Revisions, WorkerTx(w, r)
        PROVE  PublicationKept(q)
    <2>1. ASSUME NEW d \in DecisionIds \cup {NoDecision}, ResolveReview(w, r, d)
          PROVE  PublicationKept(q)
      <3>1. \/ pub' = pub
            \/ \E s \in {"ready", "blocked"} : \E a :
                 pub' = [pub EXCEPT ![r] = [@ EXCEPT !.status = s, !.artifacts = a]]
        BY <2>1 DEF ResolveReview
      <3>2. ASSUME NEW s \in {"ready", "blocked"}, NEW a,
                   pub' = [pub EXCEPT ![r] = [@ EXCEPT !.status = s, !.artifacts = a]]
            PROVE  PublicationKept(q)
        <4>1. CASE q = r
          <5>1. pub'[r] = [pub[r] EXCEPT !.status = s, !.artifacts = a]
            BY <3>2
          <5>2. pub[r] \in Publication
            OBVIOUS
          <5>3. /\ pub'[r].status = s /\ pub'[r].snapshot = pub[r].snapshot
                /\ pub'[r].current = pub[r].current
            BY <5>1, <5>2 DEF Publication
          <5>4. pub[r].status # "none"
            BY <2>1, <3>2, <5>3 DEF ResolveReview
          <5>5. QED BY <4>1, <5>3, <5>4 DEF PublicationKept
        <4>2. CASE q # r
          BY <3>2, <4>2 DEF PublicationKept
        <4>3. QED BY <4>1, <4>2
      <3>3. QED BY <1>1, <3>1, <3>2
    <2>2. ASSUME NEW d \in DecisionIds \cup {NoDecision}, MarkResolutionPending(w, r, d)
          PROVE  pub' = pub
      BY <2>2 DEF MarkResolutionPending, outcomeVars
    <2>3. CASE \/ ClaimReviewWorkflow(w, r) \/ CompleteCheckpointCreation(w, r)
               \/ ReleaseWorkflowForRetry(w, r) \/ OwnerGivesUp(w, r)
      BY <1>1, <2>3 DEF ClaimReviewWorkflow, CompleteCheckpointCreation,
         ReleaseWorkflowForRetry, OwnerGivesUp, outcomeVars
    <2>4. QED BY <1>1, <1>2, <2>1, <2>2, <2>3 DEF WorkerTx
  <1>3. ASSUME NEW r \in Revisions, ReconcilerTx(r) PROVE pub' = pub
    BY <1>3 DEF ReconcilerTx, MarkWaitingDecision, ReconcileResolution,
         ReleaseExpiredLease, ReconcilerGivesUp, ExpireLease, outcomeVars
  <1>4. CASE AcceptVerification \/ FinalizePublication
    <2>1. PICK pubs : pubs = AdoptedBaseline /\ AdoptedOK(pubs)
      BY <1>0, AdoptedRows
    <2>2. /\ pub[q].status # "none" => pubs[q] = pub[q]
          /\ pub[q].status = "none" /\ pubs[q].status # "none" =>
               pubs[q].snapshot = verification
      <3>1. /\ pub[q].status # "none" => pubs[q] = pub[q]
            /\ pubs[q].status = "stale" <=> pub[q].status = "stale"
            /\ IF pubs[q].current THEN pubs[q].snapshot = verification
                                  ELSE pubs[q].status \in {"none", "stale"}
        BY <2>1 DEF AdoptedOK
      <3>2. QED BY <3>1
    <2>3. /\ pub[q].current => pub[q].status # "none"
          /\ pubs[q] \in Publication
      BY <1>0, <2>1 DEF RowsInvariant, PublicationRows, AdoptedOK
    <2>4. CASE AcceptVerification
      <3>1. pub' = [r \in Revisions |->
                      IF r \in {s \in Revisions : AdoptedBaseline[s].current}
                      THEN [AdoptedBaseline[r] EXCEPT !.status = "stale", !.current = FALSE]
                      ELSE AdoptedBaseline[r]]
        BY <2>4, Zenon DEF AcceptVerification
      <3>2. \/ pub'[q] = pubs[q]
            \/ pub'[q] = [pubs[q] EXCEPT !.status = "stale", !.current = FALSE]
        BY <2>1, <3>1
      <3>3. pub'[q].snapshot = pubs[q].snapshot
        BY <2>3, <3>2 DEF Publication
      <3>4. /\ pubs[q].status # "none" => pub'[q].status # "none"
            /\ pubs[q].status = "none" => pub'[q].status = "none"
        <4>1. pub'[q].status = IF pubs[q].current THEN "stale" ELSE pubs[q].status
          BY <2>1, <2>4, StaledRows
        <4>2. pubs[q].current => pubs[q].status # "none"
          BY <2>1 DEF AdoptedOK
        <4>3. QED BY <4>1, <4>2
      <3>5. QED BY <2>2, <2>4, <3>3, <3>4 DEF PublicationKept
    <2>5. CASE FinalizePublication
      <3> DEFINE new == [status |-> "review_required", current |-> TRUE,
                         snapshot |-> verification, artifacts |-> {"draft"}]
      <3>1. \/ pub' = pubs
            \/ \E r \in Revisions :
                 /\ \A s \in Revisions : pubs[s].status # "none" <=> s < r
                 /\ pub' = [pubs EXCEPT ![r] = new]
        BY <2>1, <2>5 DEF FinalizePublication
      <3>2. CASE pub'[q] = pubs[q]
        BY <2>2, <2>3, <3>2 DEF PublicationKept
      <3>3. CASE pub'[q] # pubs[q]
        <4>1. PICK r \in Revisions :
                /\ \A s \in Revisions : pubs[s].status # "none" <=> s < r
                /\ pub' = [pubs EXCEPT ![r] = new]
          BY <3>1, <3>3
        <4>2. pubs \in [Revisions -> Publication]
          BY <2>1 DEF AdoptedOK
        <4>3. q = r
          BY <3>3, <4>1, <4>2
        <4>4. pub'[q] = new
          BY <4>1, <4>2, <4>3
        <4>5. pubs[q].status = "none"
          BY <4>1, <4>3 DEF Revisions
        <4>6. pub[q].status = "none"
          BY <2>2, <4>5
        <4>7. QED BY <2>3, <4>4, <4>6 DEF PublicationKept
      <3>4. QED BY <3>2, <3>3
    <2>6. QED BY <1>4, <2>4, <2>5
  <1>5. CASE \E d \in DecisionIds : AcceptDecision(d)
    BY <1>1, <1>5 DEF AcceptDecision, outcomeVars
  <1>6. CASE \E d \in DecisionIds, r \in Revisions, a \in Actions : ComposeDecision(d, r, a)
    BY <1>1, <1>6 DEF ComposeDecision, outcomeVars
  <1>7. CASE UNCHANGED storeVars
    BY <1>1, <1>7 DEF storeVars, outcomeVars
  <1>8. QED BY <1>1, <1>2, <1>3, <1>4, <1>5, <1>6, <1>7 DEF StoreNext, ClientTx

-----------------------------------------------------------------------------
LEMMA StoreInvariantStep ==
  ASSUME StoreTypeOK, StoreInvariant, [StoreNext]_storeVars
  PROVE  StoreInvariant'
  <1>1. LeaseHasOpenAttempt /\ RowsInvariant
    BY DEF StoreInvariant, RowsInvariant
  <1>0. OriginRows' /\ SupersededRows'
    BY <1>1, OriginStep, SupersededStep DEF StoreInvariant
  <1>2. SUFFICES LeaseHasOpenAttempt' /\ RowsInvariant'
    BY <1>0 DEF StoreInvariant, RowsInvariant
  <1>3. ASSUME NEW w \in Workers, NEW r \in Revisions, WorkerTx(w, r)
        PROVE  LeaseHasOpenAttempt' /\ RowsInvariant'
    <2>1. CASE \E d \in DecisionIds \cup {NoDecision} : ResolveReview(w, r, d)
      BY <1>1, <1>3, <2>1, LeaseWorkerTx, ResolveRows DEF ResolveReview, CanResolve
    <2>2. CASE ~ \E d \in DecisionIds \cup {NoDecision} : ResolveReview(w, r, d)
      BY <1>1, <1>3, <2>2, LeaseWorkerTx, QuietWorkerTx DEF WorkerTx
    <2>3. QED BY <2>1, <2>2
  <1>4. ASSUME NEW r \in Revisions, ReconcilerTx(r)
        PROVE  LeaseHasOpenAttempt' /\ RowsInvariant'
    BY <1>1, <1>4, LeaseReconcilerTx, QuietReconcilerTx
  <1>5. CASE ClientTx
    BY <1>1, <1>5, LeaseClientTx, ComposeRows, AcceptRows, VerificationRows, FinalizeRows
    DEF ClientTx
  <1>6. CASE UNCHANGED storeVars
    BY <1>1, <1>6
    DEF storeVars, workflowVars, decisionVars, outcomeVars, LeaseHasOpenAttempt,
        OwnsOpenAttempt, RowsInvariant, DecisionRows, PublicationRows, ReviewRows,
        DeliveryAuthorized, Published, UnderReview
  <1>7. QED BY <1>3, <1>4, <1>5, <1>6 DEF StoreNext

LEMMA StoreInvariantInit == StoreInit => StoreInvariant
  <1> SUFFICES ASSUME StoreInit PROVE StoreInvariant
    OBVIOUS
  <1> USE StoreAssumption, RevisionsNat DEF StoreInit, NoAttempt, NoPublication
  <1>1. LeaseHasOpenAttempt
    BY DEF LeaseHasOpenAttempt
  <1>2. DecisionRows
    BY DEF DecisionRows, Decided
  <1>3. PublicationRows
    BY DEF PublicationRows, Published, Revisions
  <1>4. ReviewRows
    BY DEF ReviewRows, UnderReview, Published, Nonterminal, Decided
  <1>5. DeliveryAuthorized
    BY DEF DeliveryAuthorized, Published
  <1>6. OriginRows
    BY DEF OriginRows, Revisions
  <1>7. SupersededRows
    BY DEF SupersededRows
  <1>8. QED BY <1>1, <1>2, <1>3, <1>4, <1>5, <1>6, <1>7 DEF StoreInvariant

(* What the named properties need of the invariant. *)
LEMMA InvariantImplies ==
  ASSUME StoreTypeOK, StoreInvariant
  PROVE  /\ LeaseHasOpenAttempt
         /\ DeliveryAuthorized
         /\ DecisionStaysFresh
         /\ ResolutionMatchesDecision
  <1>1. DecisionStaysFresh
    BY DEF StoreInvariant, DecisionStaysFresh, DecisionRows, PublicationRows,
           ReviewRows, UnderReview, Decided, Nonterminal
  <1>2. ResolutionMatchesDecision
    BY DEF StoreInvariant, StoreTypeOK, ResolutionMatchesDecision, DecisionRows, Actions
  <1>3. QED BY <1>1, <1>2 DEF StoreInvariant
=============================================================================
