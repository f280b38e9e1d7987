------------------------ MODULE EvidenceVerification ------------------------
(***************************************************************************)
(* Human verification of evidence: operators using the command line        *)
(* client (tools/decision_research_agent_tool.py) against the decision log *)
(* and the snapshots of api/evidence_verification_repository.py, over      *)
(* ReviewStore, whose publications an accepted decision withdraws.         *)
(*                                                                         *)
(* ReviewStore only counts accepted decisions.  Here each evidence item    *)
(* has its log, a snapshot is the projection the code hashes, and the      *)
(* invariants say that the count is a faithful stand-in for the hash.      *)
(***************************************************************************)
EXTENDS ReviewStore, Sequences

CONSTANTS
  Items,         (* the evidence rows of the run                             *)
  Fixtures,      (* items verified by declaration (declared_fixture)         *)
  Ineligible,    (* items whose preflight is blocked                         *)
  Operators,
  MaxCalls       (* Bound: decision requests on their way at the same time   *)

ASSUME VerificationAssumption ==
  /\ Fixtures \subseteq Items
  /\ Ineligible \subseteq Items
  /\ MaxCalls \in Nat

VARIABLES
  ledger,   (* the actions of each item's decision rows, by revision         *)
  shot,     (* the projection in the snapshot of each revision's publication *)
  desk,     (* the command each operator is running                          *)
  calls     (* the decision requests on their way to the server              *)

vars == <<storeVars, ledger, shot, desk, calls>>

Verdicts == {"verify", "reject"}
Calls    == 1 .. MaxCalls

Projected == [state    : {"unverified", "verified", "rejected"},
              origin   : {"none", "declared_fixture", "human"},
              revision : Nat]

NoShot == [i \in Items |-> [state |-> "unverified", origin |-> "none", revision |-> 0]]
NoCall == [item |-> "none", action |-> "none", expected |-> 0]
Idle   == [stage |-> "idle", item |-> "none", action |-> "none", number |-> 0]

TypeOK ==
  /\ StoreTypeOK
  /\ ledger \in [Items -> Seq(Verdicts)]
  /\ shot \in [Revisions -> [Items -> Projected]]
  /\ desk \in [Operators ->
                 [stage  : {"idle", "waiting", "answered", "planned"},
                  item   : Items \cup {"none"},
                  action : Verdicts \cup {"none"},
                  number : Nat]]
  /\ calls \in [Calls -> [item     : Items \cup {"none"},
                          action   : Verdicts \cup {"none"},
                          expected : Nat]]

-----------------------------------------------------------------------------
(* Projections and snapshots.                                              *)

(* Variants: the action is taken for the state; the oldest decision counts. *)
EffectiveAsAction(i) ==
  IF ledger[i] # <<>>
  THEN [state |-> ledger[i][Len(ledger[i])], origin |-> "human",
        revision |-> Len(ledger[i])]
  ELSE [state |-> IF i \in Fixtures THEN "verified" ELSE "unverified",
        origin |-> IF i \in Fixtures THEN "declared_fixture" ELSE "none",
        revision |-> 0]

EffectiveByFirst(i) ==
  IF ledger[i] # <<>>
  THEN [state |-> IF ledger[i][1] = "verify" THEN "verified" ELSE "rejected",
        origin |-> "human", revision |-> 1]
  ELSE IF i \in Fixtures
  THEN [state |-> "verified", origin |-> "declared_fixture", revision |-> 0]
  ELSE [state |-> "unverified", origin |-> "none", revision |-> 0]

(* _effective_projection: the newest decision, else the baseline.  The     *)
(* decision's identity is left out: the item and the revision determine it *)
(* within a log that is only appended to.                                  *)
Effective(i) ==
  LET newest == Len(ledger[i]) IN
  IF newest > 0
  THEN [state |-> IF ledger[i][newest] = "verify" THEN "verified" ELSE "rejected",
        origin |-> "human", revision |-> newest]
  ELSE IF i \in Fixtures
  THEN [state |-> "verified", origin |-> "declared_fixture", revision |-> 0]
  ELSE [state |-> "unverified", origin |-> "none", revision |-> 0]

(* What finalize_verification_snapshot_in_transaction hashes. *)
Projection == [i \in Items |-> Effective(i)]

(* A publication made by the transaction keeps the projection of the log   *)
(* as the transaction found it.                                            *)
KeepShots ==
  shot' = [r \in Revisions |->
             IF pub[r].status = "none" /\ pub'[r].status # "none"
             THEN Projection ELSE shot[r]]

Init ==
  /\ StoreInit
  /\ ledger = [i \in Items |-> <<>>]
  /\ shot = [r \in Revisions |->
               IF pub[r].status # "none" THEN Projection ELSE NoShot]
  /\ desk = [o \in Operators |-> Idle]
  /\ calls = [n \in Calls |-> NoCall]

-----------------------------------------------------------------------------
(* Operators.                                                              *)

SetDesk(o, stage, item, action, number) ==
  desk' = [desk EXCEPT ![o] = [stage |-> stage, item |-> item, action |-> action,
                               number |-> number]]

(* submit_evidence_verification_decision fetches the detail, takes         *)
(* verification_revision as expected_revision and posts the decision.  The *)
(* request can be served at any later time, so what happens between the    *)
(* two calls of the client is covered by what happens before Serve.        *)
Submit(o) ==
  /\ desk[o].stage \in {"idle", "answered"}
  /\ \E i \in Items, a \in Verdicts, n \in Calls :
       /\ calls[n] = NoCall
       /\ \A m \in Calls : m < n => calls[m] # NoCall
       /\ calls' = [calls EXCEPT ![n] = [item |-> i, action |-> a,
                                         expected |-> Len(ledger[i])]]
       /\ SetDesk(o, "waiting", i, a, n)
  /\ UNCHANGED <<storeVars, ledger, shot>>

(* The client times out or its answer is lost.  The request stays on its   *)
(* way, and the command can be run again.                                  *)
GiveUp(o) ==
  /\ desk[o].stage \in {"waiting", "planned"}
  /\ SetDesk(o, "idle", "none", "none", 0)
  /\ UNCHANGED <<storeVars, ledger, shot, calls>>

(* stable_verification_id: the identity a request has by its content, not  *)
(* by its operator.  A rejection's reason is part of it too; here all who  *)
(* reject an item give the same reason.                                    *)
(* Variant: the action is not part of it. *)
RecordedAnyAction(c) == Len(ledger[c.item]) > c.expected

Recorded(c) ==
  /\ Len(ledger[c.item]) > c.expected
  /\ ledger[c.item][c.expected + 1] = c.action

Fresh(c) ==
  /\ ~ Recorded(c)
  /\ c.action = "verify" => c.item \notin Ineligible
  /\ Len(ledger[c.item]) = c.expected

(* The operator still waiting for this request gets the answer: the        *)
(* revision that was accepted or replayed, 0 for a conflict.               *)
Answer(n, revision) ==
  desk' = [o \in Operators |->
             IF desk[o].stage = "waiting" /\ desk[o].number = n
             THEN [desk[o] EXCEPT !.stage = "answered", !.number = revision]
             ELSE desk[o]]

Accept(n) ==
  /\ Fresh(calls[n])
  /\ AcceptVerification
  /\ KeepShots
  /\ ledger' = [ledger EXCEPT ![calls[n].item] = Append(@, calls[n].action)]
  /\ Answer(n, calls[n].expected + 1)

(* Variant: the publication is withdrawn before the identity is looked up. *)
ReplayWithdraws(n) ==
  /\ Recorded(calls[n])
  /\ \/ AcceptVerification
     \/ verification = MaxVerifications /\ UNCHANGED storeVars
  /\ KeepShots
  /\ ledger' = ledger
  /\ Answer(n, calls[n].expected + 1)

Replay(n) ==
  /\ Recorded(calls[n])
  /\ Answer(n, calls[n].expected + 1)
  /\ UNCHANGED <<storeVars, ledger, shot>>

(* verification_revision_conflict or evidence_preflight_blocked. *)
Refuse(n) ==
  /\ ~ Recorded(calls[n]) /\ ~ Fresh(calls[n])
  /\ Answer(n, 0)
  /\ UNCHANGED <<storeVars, ledger, shot>>

(* accept_verification_decision, one transaction. *)
Serve(n) ==
  /\ calls[n] # NoCall
  /\ calls' = [calls EXCEPT ![n] = NoCall]
  /\ Accept(n) \/ Replay(n) \/ Refuse(n)

(* finalize_evidence_verification reads the run's state_version and posts  *)
(* it as expected_state_version.                                           *)
Plan(o) ==
  /\ desk[o].stage \in {"idle", "answered"}
  /\ SetDesk(o, "planned", "none", "none", run.version)
  /\ UNCHANGED <<storeVars, ledger, shot, calls>>

Finalize(o) ==
  /\ desk[o].stage = "planned"
  /\ \/ run.version = desk[o].number /\ FinalizePublication
     \/ run.version # desk[o].number /\ UNCHANGED storeVars
  /\ KeepShots
  /\ SetDesk(o, "idle", "none", "none", 0)
  /\ UNCHANGED <<ledger, calls>>

(* The review of the publications, undisturbed: what takeovers, crashes    *)
(* and reconciliation add is ReviewWorkflow's subject.                     *)
Review ==
  /\ \/ \E w \in Workers, r \in Revisions :
          \/ attempts[r] < 2 /\ ClaimReviewWorkflow(w, r)
          \/ CompleteCheckpointCreation(w, r)
          \/ \E d \in DecisionIds :
               MarkResolutionPending(w, r, d) \/ ResolveReview(w, r, d)
     \/ \E d \in DecisionIds, r \in Revisions, a \in Actions : ComposeDecision(d, r, a)
     \/ \E d \in DecisionIds : AcceptDecision(d)
  /\ UNCHANGED <<ledger, shot, desk, calls>>

Next ==
  \/ \E o \in Operators : Submit(o) \/ GiveUp(o) \/ Plan(o) \/ Finalize(o)
  \/ \E n \in Calls : Serve(n)
  \/ Review

Spec == Init /\ [][Next]_vars

-----------------------------------------------------------------------------
(* Properties.                                                             *)

(* ReviewStore identifies a snapshot by the number of decisions in it, the *)
(* code by the hash of the projection.  The two agree for every            *)
(* publication ever made: no sequence of verdicts, not even one that takes *)
(* a verdict back, returns to a projection that was published before.      *)
SnapshotIdentifiesLedger ==
  \A r \in Published : pub[r].snapshot = verification <=> shot[r] = Projection

(* An operator who was told that a verdict is recorded finds it in the log *)
(* at the revision it was told, however often its request or another       *)
(* operator's equal one was sent; of two different verdicts on the same    *)
(* revision only one is ever confirmed.                                    *)
AnswerMatchesLedger ==
  \A o \in Operators :
    desk[o].stage = "answered" /\ desk[o].number > 0 =>
      /\ desk[o].number <= Len(ledger[desk[o].item])
      /\ ledger[desk[o].item][desk[o].number] = desk[o].action

(* A publication is withdrawn only by a step that records a verdict: a     *)
(* replayed or refused request never takes a publication out of delivery.  *)
WithdrawnByNewVerdict ==
  [][(\E r \in Revisions : pub[r].current /\ ~ pub'[r].current)
        => ledger' # ledger]_vars

(* What can be delivered shows the newest verdict on every item, also when *)
(* the reviewer decided before and the verdict came after.                 *)
DeliveredShowsNewestVerdicts ==
  run.delivery = "ready" /\ Published # {} =>
    \E r \in Published : pub[r].current /\ shot[r] = Projection
=============================================================================
