--------------------------- MODULE ReviewInvariant ---------------------------
(***************************************************************************)
(* The inductive strengthening of ReviewStore's safety properties.  None   *)
(* of them is inductive alone: that a decision stays fresh needs that at   *)
(* most one review is unfinished, which needs that only the newest         *)
(* publication is current, which needs that revisions are published in     *)
(* order and that a revision without publication has no workflow.          *)
(***************************************************************************)
EXTENDS ReviewStore

(* What a workflow status says about the decision and resolution rows. *)
DecisionRows ==
  \A r \in Revisions :
    /\ status[r] \in {"none", "checkpoint_pending", "waiting_decision"}
         => decision[r] = NoDecision
    /\ status[r] \in Decided \cup {"approved", "rejected"}
         => decision[r] \in DecisionIds
    /\ decision[r] \in DecisionIds
         => requests[decision[r]].rev = r /\ accepted[decision[r]] # 0
    /\ resolution[r] = "approve" <=> status[r] = "approved"
    /\ resolution[r] = "reject" <=> status[r] = "rejected"
    /\ resolution[r] # "none" => requests[decision[r]].action = resolution[r]

(* Only the newest publication is current, and it was built from every     *)
(* accepted verification decision; all earlier ones are stale.             *)
PublicationRows ==
  /\ \A r \in Revisions :
       IF pub[r].current
       THEN /\ pub[r].status \in {"review_required", "ready", "blocked"}
            /\ pub[r].snapshot = verification
       ELSE pub[r].status \in {"none", "stale"}
  /\ \A r, s \in Revisions :
       pub[r].status # "none" /\ s < r => pub[s].status = "stale"
  /\ Published = {} => verification = 0

UnderReview(r) ==
  \/ Published = {} /\ r = 1
  \/ pub[r].current /\ pub[r].status = "review_required"

(* An unfinished workflow belongs to the one review under way, and an      *)
(* accepted decision to the version the run still has.                     *)
ReviewRows ==
  /\ \A r \in Revisions :
       /\ status[r] \in Nonterminal
            => UnderReview(r) /\ run.delivery = "review_required"
       /\ status[r] \in Decided => run.version = accepted[decision[r]]
       /\ r > 1 /\ pub[r].status = "none" => status[r] = "none"
  /\ baseline = "not_required" /\ Published = {} => status[1] = "none"

(* A revision is published together with its workflow, and a baseline that *)
(* needed no review stays out of review for as long as it can be current.  *)
OriginRows ==
  /\ \A r \in Revisions :
       r > 1 /\ pub[r].status # "none" => status[r] # "none"
  /\ baseline = "not_required" /\ pub[1].status # "stale" =>
       /\ run.delivery = "ready"
       /\ pub[1].status \in {"none", "ready"}
       /\ status[1] = "none"

(* A workflow is superseded only together with its publication.            *)
SupersededRows ==
  \A r \in Revisions : status[r] = "superseded" => pub[r].status = "stale"

StoreInvariant ==
  /\ LeaseHasOpenAttempt
  /\ DecisionRows
  /\ PublicationRows
  /\ ReviewRows
  /\ DeliveryAuthorized
  /\ OriginRows
  /\ SupersededRows
=============================================================================
