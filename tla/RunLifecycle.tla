---------------------------- MODULE RunLifecycle ----------------------------
(***************************************************************************)
(* The execution of one research run in api/server.py: the tracked task    *)
(* with its timeout (api/task_tracker.py), the four kinds of database      *)
(* writes it may issue (api/run_repository.py) and the outcome box the     *)
(* agent fills (api/research_execution_service.py).                        *)
(*                                                                         *)
(* Every write runs in a thread started by asyncio.to_thread.  Cancelling  *)
(* the task abandons the thread without stopping it: a call that is        *)
(* "inflight" may still commit after its caller has moved on.              *)
(***************************************************************************)
EXTENDS Integers

CONSTANTS
  CapturedEvidence,   (* what an agent run may leave in the accumulator      *)
  MaxFaults           (* Bound: database calls that raise                    *)

ASSUME LifecycleAssumption ==
  /\ CapturedEvidence \subseteq {"none", "clean", "repeated"}
  /\ CapturedEvidence # {}
  /\ MaxFaults \in Nat

VARIABLES
  run,        (* the run's row, its segment and what finalization stored     *)
  pc,         (* where the tracked task is                                   *)
  call,       (* state of each database write                                *)
  expected,   (* expected_state_version (and so the allowed status) in use   *)
  planned,    (* the terminal write the coroutine computed                   *)
  box,        (* OutcomeBox: evidence of the latest published outcome        *)
  row,        (* execution_status and state_version get_run showed the       *)
              (* timeout callback                                            *)
  timedOut,   (* the timeout of wait_for has fired                           *)
  faults

vars == <<run, pc, call, expected, planned, box, row, timedOut, faults>>

Kinds     == {"transition", "finalize", "fail", "callback"}
Writers   == Kinds \ {"transition"}
Replies   == {"applied", "refused", "raised"}
Awaiting  == {"transition", "agent", "finalize", "failing"}   \* inside wait_for
Stages    == {"created", "read", "callback", "ended", "stopped"} \cup Awaiting

(* What a terminal write stores besides the evidence: the statuses, and    *)
(* for a talent run the review workflow and, when publications are         *)
(* enabled, the adopted baseline publication with the delivery status.     *)
Outcome(exec, delivery, review, workflow, publication) ==
  [exec |-> exec, delivery |-> delivery, review |-> review,
   workflow |-> workflow, publication |-> publication]

Failure        == Outcome("failed", "failed", "not_required", "none", "none")
GenericSuccess == Outcome("completed", "ready", "not_required", "none", "none")

(* Variant: the bundle's requirement does not reach the delivery status. *)
TalentReady ==
  {Outcome("completed", "ready", review, workflow, publication) :
     review \in {"required", "not_required"},
     workflow \in {"none", "checkpoint_pending"}, publication \in {"none", "ready"}}

TalentSuccess ==
  {Outcome("completed", "review_required", "required", workflow, publication) :
     workflow \in {"none", "checkpoint_pending"},
     publication \in {"none", "review_required"}}
  \cup
  {Outcome("completed", "ready", "not_required", "none", publication) :
     publication \in {"none", "ready"}}

Plans == {Failure, GenericSuccess} \cup TalentSuccess

(* The row create_run inserts, with its initial segment. *)
NewRun == [exec |-> "pending", delivery |-> "pending", review |-> "not_required",
           version |-> 0, segment |-> "pending", evidence |-> "none",
           workflow |-> "none", publication |-> "none"]

Statuses == {"pending", "running", "completed", "failed"}

RunRow == [exec        : Statuses,
           delivery    : {"pending", "ready", "review_required", "failed"},
           review      : {"not_required", "required"},
           version     : 0 .. 2,
           segment     : {"pending", "completed", "failed"},
           evidence    : {"none", "clean"},
           workflow    : {"none", "checkpoint_pending"},
           publication : {"none", "ready", "review_required"}]

SeenRow == [exec : Statuses, version : 0 .. 2]

TypeOK ==
  /\ run \in RunRow
  /\ pc \in Stages
  /\ call \in [Kinds -> {"idle", "inflight", "dropped"} \cup Replies]
  /\ expected \in 0 .. 1
  /\ planned \in Plans
  /\ box \in CapturedEvidence \cup {"none"}
  /\ row \in SeenRow
  /\ timedOut \in BOOLEAN
  /\ faults \in Nat

Init ==
  /\ run = NewRun
  /\ pc = "created"
  /\ call = [k \in Kinds |-> "idle"]
  /\ expected = 0
  /\ planned = Failure
  /\ box = "none"
  /\ row = [exec |-> "pending", version |-> 0]
  /\ timedOut = FALSE
  /\ faults = 0

Terminal == run.exec \in {"completed", "failed"}

Issue(kind) == call' = [call EXCEPT ![kind] = "inflight"]

-----------------------------------------------------------------------------
(* Database writes.                                                        *)

(* The WHERE clause of transition_run and finalize_run_transaction. *)
Matches(version, statuses) == run.version = version /\ run.exec \in statuses

Allowed(version) == IF version = 0 THEN {"pending"} ELSE {"running"}

(* Variants: the failure handler, the timeout callback write regardless. *)
FenceUnlessFailing(kind) ==
  CASE kind = "transition" -> Matches(0, {"pending"})
    [] kind = "finalize"   -> Matches(1, {"running"})
    [] kind = "fail"       -> TRUE
    [] kind = "callback"   -> Matches(row.version, {row.exec})
FenceUnlessTimeout(kind) ==
  CASE kind = "transition" -> Matches(0, {"pending"})
    [] kind = "finalize"   -> Matches(1, {"running"})
    [] kind = "fail"       -> Matches(expected, Allowed(expected))
    [] kind = "callback"   -> TRUE

(* What each kind of write compares and stores. *)
Fence(kind) ==
  CASE kind = "transition" -> Matches(0, {"pending"})
    [] kind = "finalize"   -> Matches(1, {"running"})
    [] kind = "fail"       -> Matches(expected, Allowed(expected))
    [] kind = "callback"   -> Matches(row.version, {row.exec})

Stored(kind) == IF kind = "finalize" THEN planned ELSE Failure

(* Evidence rows are inserted without merging repeated fingerprints, and   *)
(* evidence_id is a primary key: a repeated entry raises IntegrityError.   *)
Insertable == box # "repeated"

(* Variant: the segment is marked running with its run. *)
TransitionWithSegment ==
  run' = [run EXCEPT !.exec = "running", !.version = @ + 1, !.segment = "running"]

Transition ==
  run' = [run EXCEPT !.exec = "running", !.version = @ + 1]

Finalize(plan) ==
  run' = [exec     |-> plan.exec,
          delivery |-> plan.delivery,
          review   |-> plan.review,
          version  |-> run.version + 1,
          segment  |-> plan.exec,
          evidence |-> box,
          workflow |-> plan.workflow,
          publication |-> plan.publication]

Applied(kind) ==
  /\ Fence(kind)
  /\ kind # "transition" => Insertable
  /\ call' = [call EXCEPT ![kind] = "applied"]
  /\ IF kind = "transition" THEN Transition ELSE Finalize(Stored(kind))
  /\ faults' = faults

(* No row matched: the function returns False and stores nothing. *)
Refused(kind) ==
  /\ ~ Fence(kind)
  /\ call' = [call EXCEPT ![kind] = "refused"]
  /\ UNCHANGED <<run, faults>>

(* A repeated fingerprint rolls back every terminal write; a repeated      *)
(* packet_id only the regular one, which alone stores packets.  Any other  *)
(* database error is a counted fault.                                      *)
Raised(kind) ==
  /\ \/ /\ Fence(kind) /\ faults' = faults
        /\ kind = "finalize" \/ (kind # "transition" /\ ~ Insertable)
     \/ faults < MaxFaults /\ faults' = faults + 1
  /\ call' = [call EXCEPT ![kind] = "raised"]
  /\ run' = run

Write(kind) ==
  /\ call[kind] = "inflight"
  /\ Applied(kind) \/ Refused(kind) \/ Raised(kind)
  /\ UNCHANGED <<pc, expected, planned, box, row, timedOut>>

-----------------------------------------------------------------------------
(* The tracked task.                                                       *)

(* create_tracked_task starts the coroutine; when it raises, the request   *)
(* handler finalizes the pending run as failed.                            *)
StartTask ==
  /\ pc = "created"
  /\ \/ pc' = "transition" /\ Issue("transition")
     \/ pc' = "failing" /\ Issue("fail")
  /\ UNCHANGED <<run, expected, planned, box, row, timedOut, faults>>

TransitionReturns ==
  /\ pc = "transition"
  /\ \/ /\ call["transition"] = "applied"
        /\ pc' = "agent"
        /\ expected' = 1
        /\ call' = call
     \/ /\ call["transition"] \in {"refused", "raised"}
        /\ pc' = "failing"
        /\ expected' = expected
        /\ Issue("fail")
  /\ UNCHANGED <<run, planned, box, row, timedOut, faults>>

(* run_deep_agent returns an outcome, of a failed or a completed run; the  *)
(* artifacts are built and the terminal write is issued.                   *)
AgentReturns ==
  /\ pc = "agent"
  /\ box' \in CapturedEvidence
  /\ planned' \in Plans
  /\ pc' = "finalize"
  /\ Issue("finalize")
  /\ UNCHANGED <<run, expected, row, timedOut, faults>>

(* The agent, or building the artifacts, raises.  The outcome was frozen   *)
(* first, unless the exception came before the accumulator existed.        *)
AgentRaises ==
  /\ pc = "agent"
  /\ box' \in CapturedEvidence \cup {"none"}
  /\ pc' = "failing"
  /\ Issue("fail")
  /\ UNCHANGED <<run, expected, planned, row, timedOut, faults>>

FinalizeReturns ==
  /\ pc = "finalize"
  /\ \/ call["finalize"] = "applied" /\ pc' = "ended" /\ call' = call
     \/ call["finalize"] \in {"refused", "raised"} /\ pc' = "failing" /\ Issue("fail")
  /\ UNCHANGED <<run, expected, planned, box, row, timedOut, faults>>

(* Variant: the task ends without a timeout callback. *)
FailEndsTask ==
  /\ pc = "failing"
  /\ call["fail"] \in Replies
  /\ pc' = "ended"
  /\ UNCHANGED <<run, call, expected, planned, box, row, timedOut, faults>>

(* _finalize_failed_run_v2 swallows every error and the handler re-raises: *)
(* only a cancellation by wait_for becomes the TimeoutError that runs the  *)
(* callback, any other exception ends the task.                            *)
FailReturns ==
  /\ pc = "failing"
  /\ call["fail"] \in Replies
  /\ pc' = IF timedOut THEN "read" ELSE "ended"
  /\ UNCHANGED <<run, call, expected, planned, box, row, timedOut, faults>>

(* The call the task awaits when it is cancelled: it runs on, or it is     *)
(* dropped because no thread has picked it up yet.                         *)
Awaited == {k \in {"transition", "finalize", "fail"} :
              call[k] = "inflight" /\ pc = (IF k = "fail" THEN "failing" ELSE k)}

(* wait_for cancels the task, even when the awaited reply is already in.   *)
(* Outside the failure handler the handler runs; inside it the             *)
(* cancellation leaves the handler.                                        *)
Timeout ==
  /\ pc \in Awaiting /\ ~ timedOut
  /\ call["transition"] # "idle"         \* the timer starts with the task
  /\ timedOut' = TRUE
  /\ IF pc = "agent" THEN box' \in CapturedEvidence \cup {"none"} ELSE box' = box
  /\ \E dropped \in SUBSET Awaited :
       /\ pc' = IF pc = "failing" THEN "read" ELSE "failing"
       /\ call' = [k \in Kinds |-> IF k \in dropped THEN "dropped"
                                   ELSE IF k = "fail" /\ pc # "failing" THEN "inflight"
                                   ELSE call[k]]
  /\ UNCHANGED <<run, expected, planned, row, faults>>

(* Variant: a running run is left to its task. *)
UnfinishedPending == run.exec = "pending"

Unfinished == run.exec \in {"pending", "running"}

(* _mark_run_timeout: one read, and a write when the run looks unfinished. *)
CallbackReads ==
  /\ pc = "read"
  /\ row' = [exec |-> run.exec, version |-> run.version]
  /\ IF Unfinished THEN pc' = "callback" /\ Issue("callback")
                   ELSE pc' = "ended" /\ call' = call
  /\ UNCHANGED <<run, expected, planned, box, timedOut, faults>>

CallbackReturns ==
  /\ pc = "callback"
  /\ call["callback"] \in Replies
  /\ pc' = "ended"
  /\ UNCHANGED <<run, call, expected, planned, box, row, timedOut, faults>>

(* The process ends: no thread of it commits any more, and nothing picks   *)
(* the run up again.                                                       *)
Stop ==
  /\ pc \notin {"ended", "stopped"}
  /\ pc' = "stopped"
  /\ call' = [k \in Kinds |-> IF call[k] = "inflight" THEN "dropped" ELSE call[k]]
  /\ UNCHANGED <<run, expected, planned, box, row, timedOut, faults>>

TaskStep ==
  \/ StartTask \/ TransitionReturns \/ FinalizeReturns \/ FailReturns
  \/ CallbackReads \/ CallbackReturns

Next ==
  \/ TaskStep \/ AgentReturns \/ AgentRaises \/ Timeout \/ Stop
  \/ \E k \in Kinds : Write(k)

Spec == Init /\ [][Next]_vars

(* Threads finish their transaction, the event loop runs what is ready and *)
(* the timer fires; the agent itself may run for ever.                     *)
FairSpec ==
  /\ Spec
  /\ WF_vars(TaskStep)
  /\ WF_vars(Timeout)
  /\ \A k \in Kinds : WF_vars(Write(k))

-----------------------------------------------------------------------------
(* Properties.                                                             *)

(* "A stale writer, timeout callback, cancellation handler, or normal      *)
(* completion cannot silently overwrite a terminal run": no abandoned call *)
(* changes a run that is already terminal.                                 *)
TerminalRunIsFinal == [][Terminal => run' = run]_run

(* Of the normal completion, the failure handler and the timeout callback  *)
(* exactly one is told that it finished a finished run, and the run and    *)
(* its segment carry what that one meant to store.                         *)
OneWriterFinishes ==
  LET winners == {k \in Writers : call[k] = "applied"} IN
  /\ Terminal <=> winners # {}
  /\ \A k \in winners :
       /\ winners = {k}
       /\ run.exec = Stored(k).exec /\ run.delivery = Stored(k).delivery
       /\ run.segment = run.exec /\ run.evidence = box

(* "running --> failed: exception, timeout, cancellation": when the task   *)
(* is over without a database error, its run is terminal.                  *)
EndedRunIsTerminal == pc = "ended" /\ faults = 0 => Terminal

(* The database of a completed run as the review and publication           *)
(* repositories see it.                                                    *)
Store == INSTANCE ReviewStore WITH
  Workers          <- {},
  NoWorker         <- "none",
  DecisionIds      <- {},
  NoDecision       <- "none",
  RetryLimit       <- 1,
  MaxRevision      <- 1,
  MaxVerifications <- 0,
  baseline         <- run.review,
  run              <- [review |-> run.review, delivery |-> run.delivery,
                       version |-> run.version],
  status           <- [r \in {1} |-> run.workflow],
  pub              <- [r \in {1} |->
                         [status    |-> run.publication,
                          current   |-> run.publication # "none",
                          snapshot  |-> 0,
                          artifacts |-> IF run.publication # "none" THEN {"draft"} ELSE {}]],
  decision         <- [r \in {1} |-> "none"],
  owner            <- [r \in {1} |-> "none"],
  lease            <- [r \in {1} |-> "none"],
  attempts         <- [r \in {1} |-> 0],
  attempt          <- [r \in {1} |-> [worker |-> "none", outcome |-> "none"]],
  segment          <- {},
  requests         <- [d \in {} |-> "none"],
  accepted         <- [d \in {} |-> 0],
  resolution       <- [r \in {1} |-> "none"],
  verification     <- 0

(* Whatever write finished it, a completed run is handed over in a state   *)
(* the review model starts from; a failed one carries no review.           *)
HandsOverToReview ==
  /\ run.exec = "completed" => Store!StoreInit
  /\ run.exec = "failed" => run.review = "not_required"
                              /\ run.workflow = "none" /\ run.publication = "none"

(* Every run becomes terminal, unless the process stops or the database    *)
(* refuses to store the outcome.                                           *)
RunSettles == <>(Terminal \/ pc = "stopped" \/ faults > 0)
=============================================================================
