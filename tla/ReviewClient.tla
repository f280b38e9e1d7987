---------------------------- MODULE ReviewClient ----------------------------
(***************************************************************************)
(* Reviewers at the command line client (the review commands of            *)
(* tools/decision_research_agent_tool.py) over ReviewStore.  A command is  *)
(* several requests, each served at its own moment: it asks which review   *)
(* the run has, reads that review, posts a decision, and may poll until    *)
(* the decision is resolved.  A post may be served late, although its      *)
(* client gave up, and again when the command is repeated.                 *)
(***************************************************************************)
EXTENDS ReviewStore

CONSTANTS
  Reviewers,
  OwnIds,        (* ids given with --decision-id, or made from other reasons *)
  MaxPosts,      (* Bound: decision requests on their way at the same time   *)
  MaxClaims      (* Bound: claims of one review workflow                     *)

(* stable_decision_id: an identity by content.  The run is fixed, and all  *)
(* who reject give the same reason.                                        *)
StableIds == [rev : Revisions, action : Actions]

ASSUME ClientAssumption ==
  /\ DecisionIds = StableIds \cup OwnIds
  /\ MaxPosts \in Nat
  /\ MaxClaims \in Nat

VARIABLES
  desk,    (* the command each reviewer runs, and what it was told           *)
  posts    (* the decision requests on their way to the server               *)

clientVars == <<desk, posts>>
vars == <<storeVars, clientVars>>

Posts    == 1 .. MaxPosts
Commands == {"show", "decide", "wait"}

(* rev is the review a command works on, 0 while it has to be resolved;    *)
(* pinned: --review-id was given, with the review show had displayed.      *)
(* History: the verifications its evidence had then.                       *)
Desk == [stage   : {"idle", "resolving", "reading", "shown", "posted",
                    "accepted", "refused", "done"},
         command : Commands, pinned : BOOLEAN, rev : 0 .. MaxRevision,
         shown   : [rev : 0 .. MaxRevision, verified : Nat],
         action  : Actions \cup {"none"}, post : 0 .. MaxPosts]

Nothing == [rev |-> 0, verified |-> 0]
Idle    == [stage |-> "idle", command |-> "show", pinned |-> FALSE, rev |-> 0,
            shown |-> Nothing, action |-> "none", post |-> 0]
NoPost  == [id |-> NoDecision, rev |-> 0, action |-> "none", expected |-> 0]

(* The run ended with a durable review. *)
Init ==
  /\ StoreInit
  /\ status[1] = "checkpoint_pending"
  /\ desk = [c \in Reviewers |-> Idle]
  /\ posts = [n \in Posts |-> NoPost]

Set(c, d) == desk' = [desk EXCEPT ![c] = d]

-----------------------------------------------------------------------------
(* Requests that only read.                                                *)

Ended == {"idle", "shown", "refused", "done"}

(* Variant: --review-id is ignored. *)
TargetCurrent(c, pinned) == 0

Target(c, pinned) == IF pinned THEN desk[c].rev ELSE 0

Run(c, command, pinned, action) ==
  /\ desk[c].stage \in Ended
  /\ pinned => desk[c].stage = "shown"
  /\ Set(c, [stage   |-> IF Target(c, pinned) = 0 THEN "resolving" ELSE "reading",
             command |-> command, pinned |-> pinned, rev |-> Target(c, pinned),
             shown   |-> IF pinned THEN desk[c].shown ELSE Nothing,
             action  |-> action, post |-> 0])
  /\ UNCHANGED <<storeVars, posts>>

(* get_review_projection: the workflow of the current publication, of a    *)
(* run without publications its only workflow.                             *)
ReviewsOfRun ==
  {r \in Revisions :
     /\ status[r] # "none"
     /\ IF Published = {} THEN r = 1 ELSE pub[r].current}

(* run_has_no_durable_review ends the command. *)
Resolve(c) ==
  /\ desk[c].stage = "resolving"
  /\ \/ \E r \in ReviewsOfRun : Set(c, [desk[c] EXCEPT !.stage = "reading", !.rev = r])
     \/ ReviewsOfRun = {} /\ Set(c, Idle)
  /\ UNCHANGED <<storeVars, posts>>

Show(c) ==
  /\ desk[c].stage = "reading" /\ desk[c].command = "show"
  /\ Set(c, [Idle EXCEPT !.stage = "shown", !.rev = desk[c].rev,
                         !.shown = [rev |-> desk[c].rev, verified |-> verification]])
  /\ UNCHANGED <<storeVars, posts>>

(* wait_for_review.  The wait of approve --wait and reject --wait is for   *)
(* the review decided; review wait without --review-id resolves anew       *)
(* before every look.                                                      *)
Poll(c) ==
  LET again == desk[c].command = "wait" /\ ~ desk[c].pinned
  IN  /\ \/ desk[c].stage = "accepted"
         \/ desk[c].stage = "reading" /\ desk[c].command = "wait"
      /\ \/ status[desk[c].rev] \in {"approved", "rejected"}
            /\ Set(c, IF desk[c].command = "wait" THEN Idle
                      ELSE [desk[c] EXCEPT !.stage = "done"])
         \/ status[desk[c].rev] = "manual_recovery" /\ Set(c, Idle)
         \/ /\ status[desk[c].rev] \notin {"approved", "rejected", "manual_recovery"}
            /\ Set(c, IF again THEN [desk[c] EXCEPT !.stage = "resolving", !.rev = 0]
                               ELSE desk[c])
      /\ UNCHANGED <<storeVars, posts>>

(* request_timeout or connection_failed of any request, and the deadline   *)
(* of the wait.  A post stays on its way.                                  *)
GivesUp == {"resolving", "reading", "posted", "accepted"}

GiveUp(c) ==
  /\ desk[c].stage \in GivesUp
  /\ Set(c, Idle)
  /\ UNCHANGED <<storeVars, posts>>

-----------------------------------------------------------------------------
(* Decisions.                                                              *)

(* Variant: the identity depends on the version that was read. *)
IdOfVersion(r, action) ==
  [rev |-> IF run.version > 2 THEN MaxRevision ELSE r, action |-> action]

StableId(r, action) == [rev |-> r, action |-> action]

(* submit_review_decision reads the review detail in one transaction and   *)
(* posts what it found.                                                    *)
Submit(c) ==
  LET r == desk[c].rev IN
  /\ desk[c].stage = "reading" /\ desk[c].command = "decide"
  /\ \E n \in Posts, id \in {StableId(r, desk[c].action)} \cup OwnIds :
       /\ posts[n] = NoPost
       /\ \A m \in Posts : m < n => posts[m] # NoPost
       /\ posts' = [posts EXCEPT ![n] =
                      [id |-> id, rev |-> r, action |-> desk[c].action,
                       expected |-> run.version]]
       /\ Set(c, [desk[c] EXCEPT !.stage = "posted", !.post = n])
  /\ UNCHANGED storeVars

(* The command still waiting for this answer gets it. *)
Answer(n, stage) ==
  desk' = [c \in Reviewers |->
             IF desk[c].stage = "posted" /\ desk[c].post = n
             THEN [desk[c] EXCEPT !.stage = stage, !.post = 0, !.shown = Nothing]
             ELSE desk[c]]

(* Variant: the decision_id alone makes a replay. *)
ReplaysById(p) == accepted[p.id] # 0

(* decision_request_hash: the content, without the expected version. *)
Replays(p) ==
  accepted[p.id] # 0 /\ requests[p.id].rev = p.rev /\ requests[p.id].action = p.action

(* The checks of accept_review_decision after those of the identity. *)
Acceptable(p) ==
  /\ accepted[p.id] = 0
  /\ AwaitsDecision(p.rev)
  /\ ActiveReview(p.rev)
  /\ run.review = "required" /\ run.delivery = "review_required"
  /\ run.version = p.expected

Accept(n) ==
  LET p == posts[n] IN
  /\ Acceptable(p)
  /\ requests' = [requests EXCEPT ![p.id] = [rev |-> p.rev, action |-> p.action,
                                             expected |-> p.expected]]
  /\ accepted' = [accepted EXCEPT ![p.id] = run.version + 1]
  /\ decision' = [decision EXCEPT ![p.rev] = p.id]
  /\ SetStatus(p.rev, "resume_pending")
  /\ run' = [run EXCEPT !.version = @ + 1]
  /\ Answer(n, "accepted")
  /\ UNCHANGED <<owner, lease, attempts, attempt, segment, outcomeVars>>

Replay(n) ==
  /\ Replays(posts[n])
  /\ Answer(n, "accepted")
  /\ UNCHANGED storeVars

(* Any of the conflicts. *)
Refuse(n) ==
  /\ ~ Replays(posts[n]) /\ ~ Acceptable(posts[n])
  /\ Answer(n, "refused")
  /\ UNCHANGED storeVars

(* accept_review_decision, one transaction. *)
Serve(n) ==
  /\ posts[n] # NoPost
  /\ posts' = [posts EXCEPT ![n] = NoPost]
  /\ Accept(n) \/ Replay(n) \/ Refuse(n)

(* A decide command without --wait ends with its answer. *)
Leave(c) ==
  /\ desk[c].stage = "accepted"
  /\ Set(c, Idle)
  /\ UNCHANGED <<storeVars, posts>>

-----------------------------------------------------------------------------
(* The rest of the system: workers, reconcilers, operators of the evidence *)
(* verification.                                                           *)

Background ==
  /\ \/ \E w \in Workers, r \in Revisions :
          \/ attempts[r] < MaxClaims /\ ClaimReviewWorkflow(w, r)
          \/ CompleteCheckpointCreation(w, r)
          \/ \E d \in DecisionIds :
               MarkResolutionPending(w, r, d) \/ ResolveReview(w, r, d)
          \/ decision[r] # NoDecision /\ OwnerGivesUp(w, r)
     \/ AcceptVerification
     \/ FinalizePublication
  /\ UNCHANGED clientVars

Next ==
  \/ \E c \in Reviewers :
       \/ \E pinned \in BOOLEAN :
            \/ Run(c, "show", pinned, "none") \/ Run(c, "wait", pinned, "none")
            \/ \E a \in Actions : Run(c, "decide", pinned, a)
       \/ Resolve(c) \/ Show(c) \/ Submit(c) \/ Poll(c) \/ GiveUp(c) \/ Leave(c)
  \/ \E n \in Posts : Serve(n)
  \/ Background

Spec == Init /\ [][Next]_vars

-----------------------------------------------------------------------------
(* Properties.                                                             *)

(* A reviewer whose approve --wait or reject --wait reports an end finds   *)
(* the review resolved by that verdict: an accepted or replayed answer is  *)
(* never about somebody else's decision.                                   *)
ReportsOwnVerdict ==
  \A c \in Reviewers :
    desk[c].stage = "done" /\ desk[c].command = "decide"
      => resolution[desk[c].rev] = desk[c].action

(* Repeating a command is safe, whatever was lost, and however far the     *)
(* decision got since: it is not refused when the same verdict on the same *)
(* review was accepted under its stable identity.                          *)
RepetitionIsNoConflict ==
  [][\A n \in Posts, c \in Reviewers :
       desk[c].stage = "posted" /\ desk[c].post = n /\ desk'[c].stage = "refused"
         => \/ posts[n].id \in OwnIds
            \/ \A d \in StableIds :
                 accepted[d] # 0 => [rev |-> requests[d].rev, action |-> requests[d].action]
                                      # [rev |-> posts[n].rev, action |-> posts[n].action]]_vars

(* A decision on the review one was shown is accepted only for it, and     *)
(* only while the evidence it was shown with is the evidence still.        *)
DecidesWhatWasShown ==
  [][\A c \in Reviewers :
       desk[c].stage = "posted" /\ desk[c].pinned /\ desk[c].post # 0
         /\ posts'[desk[c].post] = NoPost /\ accepted' # accepted
         => decision'[desk[c].shown.rev] # decision[desk[c].shown.rev]
              /\ verification = desk[c].shown.verified]_vars

=============================================================================
