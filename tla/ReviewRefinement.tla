-------------------------- MODULE ReviewRefinement --------------------------
(***************************************************************************)
(* ReviewWorkflow implements ReviewContract: each revision's phase and     *)
(* verdict are read off the workflow, decision and publication rows.       *)
(***************************************************************************)
EXTENDS ReviewWorkflow

(* The phase of a revision whose publication is not stale. *)
LivePhase(r) ==
  CASE status[r] = "none" ->
         IF r > 1 THEN "unpublished"
         ELSE IF baseline = "required" THEN "open" ELSE "cleared"
    [] status[r] \in {"checkpoint_pending", "waiting_decision"} -> "open"
    [] status[r] \in Decided            -> "decided"
    [] status[r] = "manual_recovery"    -> "recovery"
    [] status[r] = "superseded"         -> "withdrawn"
    [] OTHER                            -> status[r]

phaseBar == [r \in Revisions |->
               IF pub[r].status = "stale" THEN "withdrawn" ELSE LivePhase(r)]

verdictBar == [r \in Revisions |->
                 IF decision[r] = NoDecision THEN "none"
                 ELSE requests[decision[r]].action]

Contract == INSTANCE ReviewContract
              WITH phase   <- phaseBar,
                   verdict <- verdictBar,
                   ready   <- (run.delivery = "ready")

(* Every behaviour of the workers, gate and repositories is one of the     *)
(* contract: retries, takeovers, crashes and reconciliation are invisible. *)
ImplementsContract == Contract!ContractSpec

(* With the workers' fairness, no accepted verdict stays without effect.   *)
ImplementsFairContract == Contract!FairContract
=============================================================================
