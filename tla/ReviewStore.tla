---------------------------- MODULE ReviewStore ----------------------------
(***************************************************************************)
(* The application database of one completed talent run, as the review     *)
(* and publication repositories see it: the run row, one review workflow   *)
(* and one publication per revision, the decision, resolution and resume   *)
(* attempt rows.  Every operator below is one BEGIN IMMEDIATE transaction  *)
(* of api/review_repository.py, api/publication_repository.py or           *)
(* api/evidence_verification_repository.py, so each is one atomic step.    *)
(* A transaction that raises a conflict rolls back: its guard is false     *)
(* and the caller takes its error path.                                    *)
(***************************************************************************)
EXTENDS Integers, FiniteSets

CONSTANTS
  Workers,           (* Worker identities; each process start draws a new one *)
  NoWorker,          (* lease_owner IS NULL                                   *)
  DecisionIds,       (* Client-chosen decision_id values                      *)
  NoDecision,        (* decision_id IS NULL                                   *)
  RetryLimit,        (* max_attempts handed to release_workflow_for_retry     *)
  MaxRevision,       (* Bound: revisions the model may publish                *)
  MaxVerifications   (* Bound: accepted evidence verification decisions       *)

ASSUME StoreAssumption ==
  /\ RetryLimit \in Nat \ {0}
  /\ MaxRevision \in Nat \ {0}
  /\ MaxVerifications \in Nat
  /\ NoWorker \notin Workers
  /\ NoDecision \notin DecisionIds

VARIABLES
  baseline,      (* status of the first review bundle                         *)
  run,           (* research_runs_v2: review, delivery, state_version         *)
  status,        (* workflow status per revision, "none" when there is no row *)
  decision,      (* review_workflows_v2.decision_id                           *)
  owner,         (* review_workflows_v2.lease_owner                           *)
  lease,         (* lease_expires_at: NULL, in the future, or in the past     *)
  attempts,      (* review_workflows_v2.attempt_count                         *)
  attempt,       (* the resume-attempt row numbered attempts[r]               *)
  segment,       (* revisions whose post_review segment exists                *)
  requests,      (* the decision requests clients hold, by decision_id        *)
  accepted,      (* accepted_state_version per decision_id, 0 without a row   *)
  resolution,    (* review_resolutions_v2.action per revision                 *)
  pub,           (* run_publications_v2 per revision                          *)
  verification   (* number of accepted evidence verification decisions        *)

workflowVars == <<status, decision, owner, lease, attempts, attempt, segment>>
decisionVars == <<requests, accepted>>
outcomeVars  == <<resolution, pub, verification, baseline>>
storeVars    == <<workflowVars, decisionVars, outcomeVars, run>>

Revisions == 1 .. MaxRevision

Nonterminal == {"checkpoint_pending", "waiting_decision", "resume_pending",
                "resuming", "resolution_pending"}
Decided     == {"resume_pending", "resuming", "resolution_pending"}
Terminal    == {"approved", "rejected", "manual_recovery", "superseded"}
(* Variant: a claim query that also takes reviews waiting for a human. *)
ClaimsWaiting == {"checkpoint_pending", "waiting_decision", "resume_pending",
                  "resuming", "resolution_pending"}
(* Variants: claim queries that forget one status. *)
ClaimsNoResolution == {"checkpoint_pending", "resume_pending", "resuming"}
ClaimsNoCheckpoint == {"resume_pending", "resuming", "resolution_pending"}
Claimable   == {"checkpoint_pending", "resume_pending", "resuming",
                "resolution_pending"}
(* Variant: the UPDATE forgets a decision the worker has not claimed yet. *)
SupersedesUnlessDecided == {"checkpoint_pending", "waiting_decision",
                            "resuming", "resolution_pending"}
(* The statuses stale_current_publication names in its UPDATE. *)
Supersedable == {"checkpoint_pending", "waiting_decision", "resume_pending",
                 "resuming", "resolution_pending"}

Actions  == {"approve", "reject"}
Outcomes == {"none", "open", "checkpoint_created", "checkpoint_reconciled",
             "lease_expired", "retry", "manual_recovery", "approved", "rejected"}

NoRequest     == [rev |-> 0, action |-> "none", expected |-> 0]
NoAttempt     == [worker |-> NoWorker, outcome |-> "none"]
NoPublication == [status |-> "none", current |-> FALSE, snapshot |-> 0,
                  artifacts |-> {}]

AttemptRow  == [worker : Workers \cup {NoWorker}, outcome : Outcomes]
PubStatuses == {"none", "review_required", "ready", "blocked", "stale"}
Publication == [status    : PubStatuses,
                current   : BOOLEAN,
                snapshot  : Nat,
                artifacts : SUBSET {"draft", "reviewed"}]

StoreTypeOK ==
  /\ baseline \in {"required", "not_required"}
  /\ run \in [review   : {"not_required", "required", "resolved"},
              delivery : {"review_required", "ready", "blocked"},
              version  : Nat]
  /\ status \in [Revisions -> {"none"} \cup Nonterminal \cup Terminal]
  /\ decision \in [Revisions -> DecisionIds \cup {NoDecision}]
  /\ owner \in [Revisions -> Workers \cup {NoWorker}]
  /\ lease \in [Revisions -> {"none", "live", "expired"}]
  /\ attempts \in [Revisions -> Nat]
  /\ attempt \in [Revisions -> AttemptRow]
  /\ segment \in SUBSET Revisions
  /\ requests \in [DecisionIds -> [rev : Revisions, action : Actions,
                                   expected : Nat] \cup {NoRequest}]
  /\ accepted \in [DecisionIds -> Nat]
  /\ resolution \in [Revisions -> Actions \cup {"none"}]
  /\ pub \in [Revisions -> Publication]
  /\ verification \in Nat

(***************************************************************************)
(* What the terminal transaction of a talent run leaves behind: the run at *)
(* version 2, a checkpoint_pending workflow when a required review meets   *)
(* durable HITL, and a baseline publication unless the run was finalized   *)
(* with evidence verification disabled.                                    *)
(***************************************************************************)
StoreInit ==
  /\ baseline \in {"required", "not_required"}
  /\ run = [review   |-> baseline,
            delivery |-> IF baseline = "required" THEN "review_required"
                                                  ELSE "ready",
            version  |-> 2]
  /\ \E durable \in BOOLEAN :
       status = [r \in Revisions |->
                   IF r = 1 /\ baseline = "required" /\ durable
                   THEN "checkpoint_pending" ELSE "none"]
  /\ \E adopted \in BOOLEAN :
       pub = [r \in Revisions |->
                IF r = 1 /\ adopted
                THEN [status |-> run.delivery, current |-> TRUE,
                      snapshot |-> 0, artifacts |-> {"draft"}]
                ELSE NoPublication]
  /\ decision = [r \in Revisions |-> NoDecision]
  /\ owner = [r \in Revisions |-> NoWorker]
  /\ lease = [r \in Revisions |-> "none"]
  /\ attempts = [r \in Revisions |-> 0]
  /\ attempt = [r \in Revisions |-> NoAttempt]
  /\ segment = {}
  /\ requests = [d \in DecisionIds |-> NoRequest]
  /\ accepted = [d \in DecisionIds |-> 0]
  /\ resolution = [r \in Revisions |-> "none"]
  /\ verification = 0

-----------------------------------------------------------------------------
(* Helpers shared by the transactions.                                     *)

(* Variant: the expiry is cleared, the owner is not. *)
ClearExpiryOnly(r) ==
  /\ owner' = owner
  /\ lease' = [lease EXCEPT ![r] = "none"]

ClearLease(r) ==
  /\ owner' = [owner EXCEPT ![r] = NoWorker]
  /\ lease' = [lease EXCEPT ![r] = "none"]

(* Variant: the owner is compared, the expiry is not. *)
OwnedByName(w, r) == owner[r] = w

Owned(w, r) == owner[r] = w /\ lease[r] = "live"

OwnsOpenAttempt(w, r) == attempt[r] = [worker |-> w, outcome |-> "open"]

CompleteAttempt(r, outcome) ==
  attempt' = [attempt EXCEPT ![r].outcome = outcome]

CompleteAttemptIfOpen(r, outcome) ==
  attempt' = [attempt EXCEPT ![r].outcome = IF @ = "open" THEN outcome ELSE @]

SetStatus(r, s) == status' = [status EXCEPT ![r] = s]

(* Variant: delivery is left as it was. *)
RequireReviewOnly(version) ==
  run' = [run EXCEPT !.review = "required", !.version = version]

(* Variant: the statuses change, state_version does not. *)
RequireReviewUnversioned(version) ==
  run' = [review |-> "required", delivery |-> "review_required",
          version |-> version - 1]

RequireReview(version) ==
  run' = [review |-> "required", delivery |-> "review_required",
          version |-> version]

(* A publication, when the review has one, is current and undecided. *)
ActiveReview(r) ==
  pub[r].status # "none" => pub[r].current /\ pub[r].status = "review_required"

-----------------------------------------------------------------------------
(* Decisions.                                                              *)

(* A client reads review detail and composes a request from what it saw;   *)
(* the request can be delivered late, several times, or never.             *)
ComposeDecision(d, r, a) ==
  /\ requests[d] = NoRequest
  /\ status[r] # "none"
  /\ requests' = [requests EXCEPT ![d] = [rev |-> r, action |-> a,
                                          expected |-> run.version]]
  /\ UNCHANGED <<workflowVars, accepted, outcomeVars, run>>

(* Variant: any unfinished workflow takes a decision, even a second one. *)
AwaitsAnyDecision(r) == status[r] \in Nonterminal

(* No decision of any client was accepted for this review revision yet,    *)
(* and the workflow is asking for one.                                     *)
AwaitsDecision(r) ==
  /\ \A d \in DecisionIds : accepted[d] # 0 => requests[d].rev # r
  /\ status[r] = "waiting_decision"

(* A replay of an accepted decision_id returns the stored acceptance and   *)
(* changes nothing, so only a first delivery is a step.                    *)
AcceptDecision(d) ==
  LET r == requests[d].rev IN
  /\ requests[d] # NoRequest
  /\ accepted[d] = 0
  /\ AwaitsDecision(r)
  /\ ActiveReview(r)
  /\ run.review = "required" /\ run.delivery = "review_required"
  /\ run.version = requests[d].expected
  /\ accepted' = [accepted EXCEPT ![d] = run.version + 1]
  /\ decision' = [decision EXCEPT ![r] = d]
  /\ SetStatus(r, "resume_pending")
  /\ run' = [run EXCEPT !.version = @ + 1]
  /\ UNCHANGED <<owner, lease, attempts, attempt, segment, requests, outcomeVars>>

-----------------------------------------------------------------------------
(* Worker transactions.                                                    *)

(* Variant: a lease that ran out is never taken over. *)
DueUnleased == {r \in Revisions : status[r] \in Claimable /\ lease[r] = "none"}

Due == {r \in Revisions : status[r] \in Claimable /\ lease[r] # "live"}

ClaimReviewWorkflow(w, r) ==
  /\ r \in Due
  /\ \A s \in Due : r <= s
  /\ SetStatus(r, IF status[r] = "resume_pending" THEN "resuming" ELSE status[r])
  /\ owner' = [owner EXCEPT ![r] = w]
  /\ lease' = [lease EXCEPT ![r] = "live"]
  /\ attempts' = [attempts EXCEPT ![r] = @ + 1]
  /\ attempt' = [attempt EXCEPT ![r] = [worker |-> w, outcome |-> "open"]]
  /\ segment' = segment \cup {r}
  /\ UNCHANGED <<decision, decisionVars, outcomeVars, run>>

CanCompleteCheckpoint(w, r) ==
  Owned(w, r) /\ status[r] = "checkpoint_pending" /\ OwnsOpenAttempt(w, r)

CompleteCheckpointCreation(w, r) ==
  /\ CanCompleteCheckpoint(w, r)
  /\ SetStatus(r, "waiting_decision")
  /\ ClearLease(r)
  /\ CompleteAttempt(r, "checkpoint_created")
  /\ UNCHANGED <<decision, attempts, segment, decisionVars, outcomeVars, run>>

CanMarkResolution(w, r, d) ==
  Owned(w, r) /\ status[r] = "resuming" /\ decision[r] = d

MarkResolutionPending(w, r, d) ==
  /\ CanMarkResolution(w, r, d)
  /\ SetStatus(r, "resolution_pending")
  /\ UNCHANGED <<decision, owner, lease, attempts, attempt, segment,
                 decisionVars, outcomeVars, run>>

(* d is the decision the worker read when it claimed the workflow.         *)
CanResolve(w, r, d) ==
  /\ status[r] = "resolution_pending"
  /\ ActiveReview(r)
  /\ resolution[r] = "none"
  /\ Owned(w, r)
  /\ decision[r] = d /\ d \in DecisionIds
  /\ run.version = accepted[d]
  /\ OwnsOpenAttempt(w, r)

ResolveReview(w, r, d) ==
  LET approved == requests[d].action = "approve"
      delivery == IF approved THEN "ready" ELSE "blocked"
      terminal == IF approved THEN "approved" ELSE "rejected"
      kept     == IF approved THEN {"reviewed"} ELSE pub[r].artifacts
  IN  /\ CanResolve(w, r, d)
      /\ resolution' = [resolution EXCEPT ![r] = requests[d].action]
      /\ pub' = IF pub[r].status = "none" THEN pub
                ELSE [pub EXCEPT ![r] = [@ EXCEPT !.status = delivery,
                                                  !.artifacts = kept]]
      /\ run' = [review |-> "resolved", delivery |-> delivery,
                 version |-> run.version + 1]
      /\ SetStatus(r, terminal)
      /\ ClearLease(r)
      /\ CompleteAttempt(r, terminal)
      /\ UNCHANGED <<decision, attempts, segment, decisionVars,
                     verification, baseline>>

(* Variant: the attempt outcome is stored as the status. *)
RetryAsOutcome(r) == IF attempts[r] >= RetryLimit THEN "manual_recovery" ELSE "retry"

RetryStatus(r) ==
  IF attempts[r] >= RetryLimit THEN "manual_recovery"
  ELSE IF status[r] = "resuming" THEN "resume_pending" ELSE status[r]

(* review_not_retryable and a missing attempt row both refuse the release. *)
CanRelease(w, r) ==
  /\ Owned(w, r)
  /\ OwnsOpenAttempt(w, r)
  /\ \/ attempts[r] >= RetryLimit
     \/ status[r] \in {"resuming", "checkpoint_pending", "resolution_pending"}

ReleaseWorkflowForRetry(w, r) ==
  /\ CanRelease(w, r)
  /\ SetStatus(r, RetryStatus(r))
  /\ ClearLease(r)
  /\ CompleteAttempt(r, IF attempts[r] >= RetryLimit THEN "manual_recovery"
                                                     ELSE "retry")
  /\ UNCHANGED <<decision, attempts, segment, decisionVars, outcomeVars, run>>

CanOwnerGiveUp(w, r) ==
  status[r] # "superseded" /\ Owned(w, r) /\ OwnsOpenAttempt(w, r)

(* mark_manual_recovery called by the worker that holds the lease.         *)
OwnerGivesUp(w, r) ==
  /\ CanOwnerGiveUp(w, r)
  /\ SetStatus(r, "manual_recovery")
  /\ ClearLease(r)
  /\ CompleteAttempt(r, "manual_recovery")
  /\ UNCHANGED <<decision, attempts, segment, decisionVars, outcomeVars, run>>

-----------------------------------------------------------------------------
(* Reconciler transactions: called with worker_id=None, they check no      *)
(* lease ownership.                                                        *)

MarkWaitingDecision(r) ==
  /\ status[r] = "checkpoint_pending"
  /\ SetStatus(r, "waiting_decision")
  /\ ClearLease(r)
  /\ CompleteAttemptIfOpen(r, "checkpoint_reconciled")
  /\ UNCHANGED <<decision, attempts, segment, decisionVars, outcomeVars, run>>

CanReconcileResolution(r, d) == status[r] = "resuming" /\ decision[r] = d

ReconcileResolution(r, d) ==
  /\ CanReconcileResolution(r, d)
  /\ SetStatus(r, "resolution_pending")
  /\ ClearLease(r)
  /\ CompleteAttemptIfOpen(r, "checkpoint_reconciled")
  /\ UNCHANGED <<decision, attempts, segment, decisionVars, outcomeVars, run>>

(* Variant: the lease is checked, the status is not. *)
CanReleaseUnleased(r) == lease[r] # "live"

CanReleaseExpired(r) == status[r] = "resuming" /\ lease[r] # "live"

ReleaseExpiredLease(r) ==
  /\ CanReleaseExpired(r)
  /\ SetStatus(r, "resume_pending")
  /\ ClearLease(r)
  /\ CompleteAttemptIfOpen(r, "lease_expired")
  /\ UNCHANGED <<decision, attempts, segment, decisionVars, outcomeVars, run>>

(* Variant: only superseded workflows are protected. *)
CanGiveUpEnded(r) == status[r] \notin {"superseded", "none"}

CanReconcilerGiveUp(r) == status[r] \notin Terminal \cup {"none"}

ReconcilerGivesUp(r) ==
  /\ CanReconcilerGiveUp(r)
  /\ SetStatus(r, "manual_recovery")
  /\ ClearLease(r)
  /\ CompleteAttemptIfOpen(r, "manual_recovery")
  /\ UNCHANGED <<decision, attempts, segment, decisionVars, outcomeVars, run>>

(* The wall clock passes lease_expires_at. *)
ExpireLease(r) ==
  /\ lease[r] = "live"
  /\ lease' = [lease EXCEPT ![r] = "expired"]
  /\ UNCHANGED <<status, decision, owner, attempts, attempt, segment,
                 decisionVars, outcomeVars, run>>

-----------------------------------------------------------------------------
(* Publications.  Every accepted verification decision changes the         *)
(* effective evidence projection (it carries decision id and revision), so *)
(* a snapshot is identified by the number of decisions it contains.        *)

BaselineStatus ==
  IF verification > 0 THEN "stale"
  ELSE IF run.delivery = "ready" /\ (baseline = "not_required" \/ resolution[1] = "approve")
       THEN "ready"
  ELSE IF resolution[1] = "reject" \/ run.delivery = "blocked" THEN "blocked"
  ELSE "review_required"

(* Variant: a run without a current publication counts as never adopted. *)
ReadoptedBaseline ==
  IF \E r \in Revisions : pub[r].current THEN pub
  ELSE [pub EXCEPT ![1] =
          [status |-> BaselineStatus, current |-> BaselineStatus # "stale",
           snapshot |-> 0, artifacts |-> {"draft"}]]

(* The publications after adopt_baseline_publication. *)
AdoptedBaseline ==
  IF \E r \in Revisions : pub[r].status # "none" THEN pub
  ELSE [pub EXCEPT ![1] =
          [status |-> BaselineStatus, current |-> BaselineStatus # "stale",
           snapshot |-> 0,
           artifacts |-> {"draft"} \cup
             (IF resolution[1] = "approve" THEN {"reviewed"} ELSE {})]]

(* accept_verification_decision with the publication schema in place: it   *)
(* adopts the baseline, stores the decision and makes the current          *)
(* publication stale.  Which evidence item it names, its preflight and its *)
(* own revision fence do not matter here.                                  *)
AcceptVerification ==
  LET pubs   == AdoptedBaseline
      staled == {r \in Revisions : pubs[r].current}
      ended  == {r \in staled : status[r] \in Supersedable}
  IN  /\ verification < MaxVerifications
      /\ verification' = verification + 1
      /\ pub' = [r \in Revisions |->
                   IF r \in staled
                   THEN [pubs[r] EXCEPT !.status = "stale", !.current = FALSE]
                   ELSE pubs[r]]
      /\ status' = [r \in Revisions |->
                      IF r \in ended THEN "superseded" ELSE status[r]]
      /\ owner' = [r \in Revisions |-> IF r \in ended THEN NoWorker ELSE owner[r]]
      /\ lease' = [r \in Revisions |-> IF r \in ended THEN "none" ELSE lease[r]]
      /\ IF staled = {} THEN run' = run ELSE RequireReview(run.version + 1)
      /\ UNCHANGED <<decision, attempts, attempt, segment, decisionVars,
                     resolution, baseline>>

InsertWorkflow(r) ==
  /\ SetStatus(r, "checkpoint_pending")
  /\ RequireReview(run.version + 1)

(* finalize_verification_publication for a request whose expected state    *)
(* version is the run's; any other request is refused and changes nothing. *)
FinalizePublication ==
  LET pubs    == AdoptedBaseline
      current == {r \in Revisions : pubs[r].current}
      reused  == \E r \in Revisions : /\ pubs[r].status # "none"
                                      /\ pubs[r].snapshot = verification
  IN  /\ \/ \E r \in current :                    \* replay: adoption only
              /\ pubs[r].snapshot = verification
              /\ ~ (pubs[r].status = "review_required" /\ status[r] = "none")
              /\ pub' = pubs
              /\ UNCHANGED <<status, run>>
         \/ \E r \in current :                    \* repair a missing workflow
              /\ pubs[r].snapshot = verification
              /\ pubs[r].status = "review_required" /\ status[r] = "none"
              /\ pub' = pubs
              /\ InsertWorkflow(r)
         \/ \E r \in Revisions :                  \* publish revision last + 1
              /\ current = {} /\ ~ reused
              /\ \A s \in Revisions : pubs[s].status # "none" <=> s < r
              /\ pub' = [pubs EXCEPT ![r] =
                           [status |-> "review_required", current |-> TRUE,
                            snapshot |-> verification, artifacts |-> {"draft"}]]
              /\ InsertWorkflow(r)
      /\ UNCHANGED <<decision, owner, lease, attempts, attempt, segment,
                     decisionVars, resolution, verification, baseline>>

-----------------------------------------------------------------------------
(* Any worker, reconciler, client or clock step on the application         *)
(* database, called with any arguments: what the properties below say does   *)
(* not depend on which process makes the call or what it believes.         *)
WorkerTx(w, r) ==
  \/ ClaimReviewWorkflow(w, r)
  \/ CompleteCheckpointCreation(w, r)
  \/ \E d \in DecisionIds \cup {NoDecision} :
       MarkResolutionPending(w, r, d) \/ ResolveReview(w, r, d)
  \/ ReleaseWorkflowForRetry(w, r)
  \/ OwnerGivesUp(w, r)

ReconcilerTx(r) ==
  \/ MarkWaitingDecision(r)
  \/ \E d \in DecisionIds \cup {NoDecision} : ReconcileResolution(r, d)
  \/ ReleaseExpiredLease(r)
  \/ ReconcilerGivesUp(r)
  \/ ExpireLease(r)

ClientTx ==
  \/ \E d \in DecisionIds, r \in Revisions, a \in Actions : ComposeDecision(d, r, a)
  \/ \E d \in DecisionIds : AcceptDecision(d)
  \/ AcceptVerification
  \/ FinalizePublication

StoreNext ==
  \/ \E w \in Workers, r \in Revisions : WorkerTx(w, r)
  \/ \E r \in Revisions : ReconcilerTx(r)
  \/ ClientTx

-----------------------------------------------------------------------------
(* Properties of the tables, whoever runs the transactions.                *)

Published == {r \in Revisions : pub[r].status # "none"}

(* Delivery is ready only on authority: the current publication is ready,  *)
(* was built from every verification decision accepted so far, and was     *)
(* approved by a reviewer unless it is a baseline that needed no review.   *)
DeliveryAuthorized ==
  run.delivery = "ready" =>
    \E r \in Revisions :
      /\ resolution[r] = "approve" \/ (r = 1 /\ baseline = "not_required")
      /\ \/ Published = {} /\ r = 1 /\ verification = 0
         \/ /\ pub[r].current /\ pub[r].status = "ready"
            /\ pub[r].snapshot = verification

(* From acceptance to resolution nothing overtakes a decision: the run is  *)
(* still at the version the acceptance produced and the reviewed           *)
(* publication is still current for the accepted evidence, so the          *)
(* stale_state_version refusal of resolve_review never strands a decision. *)
DecisionStaysFresh ==
  \A r \in Revisions :
    status[r] \in Decided =>
      /\ decision[r] \in DecisionIds
      /\ run.version = accepted[decision[r]]
      /\ run.delivery = "review_required"
      /\ Published # {} =>
           pub[r].current /\ pub[r].status = "review_required"
             /\ pub[r].snapshot = verification

(* Exactly one outcome per review: a resolution exists exactly when its    *)
(* workflow ended by one, and it carries the verdict of the one decision   *)
(* accepted for that revision.                                             *)
ResolutionMatchesDecision ==
  \A r \in Revisions :
    /\ resolution[r] = "approve" <=> status[r] = "approved"
    /\ resolution[r] = "reject" <=> status[r] = "rejected"
    /\ resolution[r] # "none" =>
         /\ decision[r] \in DecisionIds
         /\ requests[decision[r]].rev = r
         /\ requests[decision[r]].action = resolution[r]

(* A lease is held only by the worker whose open attempt row is the        *)
(* current one and only in a state a worker works on, so no holder of a    *)
(* live lease is refused for a missing attempt (resume_attempt_not_found). *)
LeaseHasOpenAttempt ==
  \A r \in Revisions :
    /\ owner[r] = NoWorker <=> lease[r] = "none"
    /\ lease[r] # "none" =>
         /\ OwnsOpenAttempt(owner[r], r)
         /\ attempts[r] > 0
         /\ status[r] \in {"checkpoint_pending", "resuming", "resolution_pending"}
=============================================================================
