--------------------------- MODULE ReviewContract ---------------------------
(***************************************************************************)
(* What the review and publication machinery promises a reader of one      *)
(* talent run, without workers, leases, checkpoints, retries or crashes:   *)
(* one review per revision moves forward only, delivery is ready exactly   *)
(* when the live revision is cleared or approved, and newer evidence       *)
(* withdraws a revision for good.                                          *)
(***************************************************************************)
EXTENDS Integers

CONSTANT MaxRevision

Revisions == 1 .. MaxRevision

VARIABLES
  phase,     (* where each revision's review stands                          *)
  verdict,   (* the accepted verdict, kept once given                        *)
  ready      (* the run's delivery is ready                                  *)

contractVars == <<phase, verdict, ready>>

Live == {"cleared", "open", "decided", "approved", "rejected", "recovery"}

ContractInit ==
  /\ \E first \in {"cleared", "open"} :
       phase = [r \in Revisions |-> IF r = 1 THEN first ELSE "unpublished"]
  /\ verdict = [r \in Revisions |-> "none"]
  /\ ready = (phase[1] = "cleared")

(* A reviewer's verdict on an open review is accepted, once.               *)
Decide(r, v) ==
  /\ phase[r] = "open"
  /\ phase' = [phase EXCEPT ![r] = "decided"]
  /\ verdict' = [verdict EXCEPT ![r] = v]
  /\ UNCHANGED ready

(* The accepted verdict takes effect.                                      *)
Settle(r) ==
  /\ phase[r] = "decided"
  /\ phase' = [phase EXCEPT ![r] = IF verdict[r] = "approve" THEN "approved"
                                                             ELSE "rejected"]
  /\ ready' = (verdict[r] = "approve")
  /\ UNCHANGED verdict

(* The machinery stops and leaves the review to an operator.               *)
Park(r) ==
  /\ phase[r] \in {"open", "decided"}
  /\ phase' = [phase EXCEPT ![r] = "recovery"]
  /\ UNCHANGED <<verdict, ready>>

(* Newer evidence takes a live revision out of delivery.                   *)
Withdraw(r) ==
  /\ phase[r] \in Live
  /\ phase' = [phase EXCEPT ![r] = "withdrawn"]
  /\ ready' = FALSE
  /\ UNCHANGED verdict

(* The next revision opens once every earlier one is withdrawn.            *)
Publish(r) ==
  /\ phase[r] = "unpublished"
  /\ \A s \in Revisions : s < r => phase[s] = "withdrawn"
  /\ phase' = [phase EXCEPT ![r] = "open"]
  /\ UNCHANGED <<verdict, ready>>

Finish(r) ==
  phase[r] = "decided" /\ (Settle(r) \/ Park(r) \/ Withdraw(r))

ContractNext ==
  \E r \in Revisions :
    \/ \E v \in {"approve", "reject"} : Decide(r, v)
    \/ Settle(r) \/ Park(r) \/ Withdraw(r) \/ Publish(r)

ContractSpec == ContractInit /\ [][ContractNext]_contractVars

(* An accepted verdict does not stay without effect.                       *)
FairContract == ContractSpec /\ \A r \in Revisions : WF_contractVars(Finish(r))
=============================================================================
