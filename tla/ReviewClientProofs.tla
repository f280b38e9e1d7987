------------------------- MODULE ReviewClientProofs -------------------------
(***************************************************************************)
(* What reviewers are told, for any number of reviewers, requests,         *)
(* revisions and decision identities.  A command is several requests, so   *)
(* the argument is about what stays true between them: a decision is the   *)
(* only one of its review and is never replaced, and a review that was     *)
(* shown keeps its evidence until its publication is stale, and then for   *)
(* ever takes no decision.                                                 *)
(***************************************************************************)
EXTENDS ReviewClient, ReviewStoreProofs

PostType == [id : DecisionIds \cup {NoDecision}, rev : 0 .. MaxRevision,
             action : Actions \cup {"none"}, expected : Nat]

ClientTypeOK ==
  /\ StoreTypeOK
  /\ desk \in [Reviewers -> Desk]
  /\ posts \in [Posts -> PostType]

(* A request under way is a decision on a review there is, under an        *)
(* identity by its content or of the client's own.                         *)
PostRow(p) ==
  p # NoPost =>
    /\ p.id \in DecisionIds /\ p.rev \in Revisions /\ p.action \in Actions
    /\ p.id \in OwnIds \/ p.id = StableId(p.rev, p.action)

PostRows == \A n \in Posts : PostRow(posts[n])

(* A decision request that was accepted is the decision of its review.     *)
AcceptedRows ==
  \A d \in DecisionIds :
    accepted[d] # 0 =>
      /\ requests[d].rev \in Revisions /\ decision[requests[d].rev] = d
      /\ d \in OwnIds \/ d = StableId(requests[d].rev, requests[d].action)

(* A review on display keeps its evidence until its publication is stale.  *)
ShownRow(t) ==
  t.shown.rev # 0 =>
    /\ t.shown.rev \in Revisions /\ status[t.shown.rev] # "none"
    /\ pub[t.shown.rev].status # "stale" => t.shown.verified = verification

(* How far a command is, and what that says of the tables.                 *)
CommandRow(t) ==
  /\ t.command = "decide" => t.action \in Actions
  /\ t.stage = "resolving" => ~ t.pinned
  /\ t.stage \in {"reading", "shown", "posted"} =>
       t.rev \in Revisions /\ status[t.rev] # "none"
  /\ (t.stage \in {"reading", "posted"} /\ t.pinned) \/ t.stage = "shown" =>
       t.shown.rev = t.rev
  /\ t.stage = "posted" =>
       /\ t.command = "decide" /\ t.post \in Posts
       /\ posts[t.post] # NoPost
       /\ posts[t.post].rev = t.rev /\ posts[t.post].action = t.action
  /\ t.stage = "accepted" =>
       /\ t.rev \in Revisions /\ t.action \in Actions /\ decision[t.rev] \in DecisionIds
       /\ requests[decision[t.rev]].action = t.action
  /\ t.stage = "done" =>
       t.rev \in Revisions /\ t.action \in Actions /\ resolution[t.rev] = t.action

DeskRows == \A c \in Reviewers : ShownRow(desk[c]) /\ CommandRow(desk[c])

ClientInvariant ==
  ClientTypeOK /\ StoreInvariant /\ PostRows /\ AcceptedRows /\ DeskRows

-----------------------------------------------------------------------------
LEMMA PostRange ==
  /\ \A n \in Posts : n \in Nat /\ n # 0 /\ n \in 0 .. MaxPosts
  /\ \A r \in Revisions : r \in Nat /\ r # 0 /\ r \in 0 .. MaxRevision
  BY StoreAssumption, ClientAssumption DEF Posts, Revisions

LEMMA StableIdType ==
  ASSUME NEW r \in Revisions, NEW a \in Actions
  PROVE  StableId(r, a) \in DecisionIds
  BY ClientAssumption DEF StableId, StableIds

(* What the background does to the rows a command relies on.               *)
LEMMA BackgroundStep == Background => [StoreNext]_storeVars
  BY DEF Background, StoreNext, WorkerTx, ClientTx

LEMMA BackgroundDecisions ==
  ASSUME Background
  PROVE  UNCHANGED <<requests, accepted, decision, desk, posts>>
  <1>1. ASSUME NEW w \in Workers, NEW r \in Revisions,
               \/ ClaimReviewWorkflow(w, r) \/ CompleteCheckpointCreation(w, r)
               \/ OwnerGivesUp(w, r)
               \/ \E d \in DecisionIds :
                    MarkResolutionPending(w, r, d) \/ ResolveReview(w, r, d)
        PROVE  UNCHANGED <<requests, accepted, decision>>
    BY <1>1 DEF ClaimReviewWorkflow, CompleteCheckpointCreation, OwnerGivesUp,
       MarkResolutionPending, ResolveReview, decisionVars
  <1>2. ASSUME AcceptVerification \/ FinalizePublication
        PROVE  UNCHANGED <<requests, accepted, decision>>
    BY <1>2, Zenon DEF AcceptVerification, FinalizePublication, decisionVars
  <1>3. QED BY <1>1, <1>2 DEF Background, clientVars

LEMMA BackgroundStatus ==
  ASSUME StoreTypeOK, Background, NEW q \in Revisions, status[q] # "none"
  PROVE  status'[q] # "none"
  <1> USE DEF StoreTypeOK, SetStatus
  <1>1. ASSUME NEW w \in Workers, NEW r \in Revisions,
               \/ ClaimReviewWorkflow(w, r) \/ CompleteCheckpointCreation(w, r)
               \/ OwnerGivesUp(w, r)
               \/ \E d \in DecisionIds :
                    MarkResolutionPending(w, r, d) \/ ResolveReview(w, r, d)
        PROVE  status'[q] # "none"
    BY <1>1 DEF ClaimReviewWorkflow, CompleteCheckpointCreation, OwnerGivesUp,
       MarkResolutionPending, ResolveReview
  <1>2. CASE AcceptVerification
    BY <1>2 DEF AcceptVerification
  <1>3. CASE FinalizePublication
    <2>1. status' = status \/ \E r \in Revisions : SetStatus(r, "checkpoint_pending")
      BY <1>3 DEF FinalizePublication, InsertWorkflow
    <2>2. QED BY <2>1
  <1>4. QED BY <1>1, <1>2, <1>3 DEF Background

LEMMA BackgroundResolution ==
  ASSUME StoreTypeOK, Background, NEW q \in Revisions, resolution[q] # "none"
  PROVE  resolution'[q] = resolution[q]
  <1> USE DEF StoreTypeOK
  <1>1. ASSUME NEW w \in Workers, NEW r \in Revisions,
               \/ ClaimReviewWorkflow(w, r) \/ CompleteCheckpointCreation(w, r)
               \/ OwnerGivesUp(w, r)
               \/ \E d \in DecisionIds :
                    MarkResolutionPending(w, r, d) \/ ResolveReview(w, r, d)
        PROVE  resolution'[q] = resolution[q]
    BY <1>1 DEF ClaimReviewWorkflow, CompleteCheckpointCreation, OwnerGivesUp,
       MarkResolutionPending, ResolveReview, CanResolve, outcomeVars
  <1>2. CASE AcceptVerification \/ FinalizePublication
    BY <1>2, Zenon DEF AcceptVerification, FinalizePublication
  <1>3. QED BY <1>1, <1>2 DEF Background

(* Evidence accepted makes every publication that is reviewed stale.       *)
LEMMA BackgroundEvidence ==
  ASSUME StoreTypeOK, StoreInvariant, Background,
         NEW q \in Revisions, status[q] # "none", pub'[q].status # "stale"
  PROVE  pub[q].status # "stale" /\ verification' = verification
  <1>0. RowsInvariant
    BY DEF StoreInvariant, RowsInvariant
  <1>1. pub[q].status # "stale"
    BY BackgroundStep, StaleStep
  <1>2. ASSUME NEW w \in Workers, NEW r \in Revisions,
               \/ ClaimReviewWorkflow(w, r) \/ CompleteCheckpointCreation(w, r)
               \/ OwnerGivesUp(w, r)
               \/ \E d \in DecisionIds :
                    MarkResolutionPending(w, r, d) \/ ResolveReview(w, r, d)
        PROVE  verification' = verification
    BY <1>2 DEF ClaimReviewWorkflow, CompleteCheckpointCreation, OwnerGivesUp,
       MarkResolutionPending, ResolveReview, outcomeVars
  <1>3. CASE FinalizePublication
    BY <1>1, <1>3, Zenon DEF FinalizePublication
  <1>4. CASE AcceptVerification
    <2>1. PICK pubs : pubs = AdoptedBaseline /\ AdoptedOK(pubs)
      BY <1>0, AdoptedRows
    <2>2. pub'[q].status = IF pubs[q].current THEN "stale" ELSE pubs[q].status
      BY <1>4, <2>1, StaledRows
    <2>3. pubs[q].status = "none" /\ q \in Nat /\ \A r \in Revisions : r \in Nat
      BY <2>1, <2>2, RevisionsNat DEF AdoptedOK
    <2>4. q = 1
      <3>1. q > 1 => pubs[q] = pub[q]
        BY <2>1 DEF AdoptedOK
      <3>2. QED BY <1>0, <2>3, <3>1 DEF RowsInvariant, ReviewRows, Revisions
    <2>5. PICK r \in Revisions : pubs[r].status # "none"
      BY <2>1 DEF AdoptedOK
    <2>6. q < r
      BY <2>3, <2>4, <2>5 DEF Revisions
    <2>7. QED BY <2>1, <2>3, <2>5, <2>6 DEF AdoptedOK
  <1>5. QED BY <1>1, <1>2, <1>3, <1>4 DEF Background
-----------------------------------------------------------------------------
(* What every step leaves to the commands under way.                       *)

Kept ==
  \A q \in Revisions :
    /\ status[q] # "none" => status'[q] # "none"
    /\ status[q] # "none" /\ pub'[q].status # "stale" =>
         pub[q].status # "stale" /\ verification' = verification
    /\ decision[q] \in DecisionIds =>
         decision'[q] = decision[q] /\ requests'[decision[q]] = requests[decision[q]]
    /\ resolution[q] # "none" => resolution'[q] = resolution[q]

LEMMA StoreKept ==
  ASSUME UNCHANGED storeVars
  PROVE  Kept
  BY DEF Kept, storeVars, workflowVars, decisionVars, outcomeVars

LEMMA BackgroundKept ==
  ASSUME StoreTypeOK, StoreInvariant, Background
  PROVE  Kept
  BY BackgroundDecisions, BackgroundStatus, BackgroundResolution, BackgroundEvidence
  DEF Kept

(* A step that leaves the store alone. *)
LEMMA QuietStore ==
  ASSUME StoreTypeOK, StoreInvariant, UNCHANGED storeVars
  PROVE  (StoreTypeOK /\ StoreInvariant)'
  BY StoreStepType, StoreInvariantStep

LEMMA AcceptIsStep ==
  ASSUME ClientInvariant, NEW n \in Posts, posts[n] # NoPost, Accept(n)
  PROVE  /\ posts[n].id \in DecisionIds /\ posts[n].rev \in Revisions
         /\ posts[n].action \in Actions
         /\ Accepts(posts[n].id, posts[n].rev)
         /\ requests'[posts[n].id].action = posts[n].action
         /\ \A d \in DecisionIds : accepted[d] # 0 => requests[d].rev # posts[n].rev
         /\ StoreTypeOK'
  <1>1. /\ posts[n].id \in DecisionIds /\ posts[n].rev \in Revisions
        /\ posts[n].action \in Actions /\ posts[n].expected \in Nat
    BY DEF ClientInvariant, PostRows, PostRow, ClientTypeOK, PostType
  <1>2. StoreTypeOK
    BY DEF ClientInvariant, ClientTypeOK
  <1>3. Accepts(posts[n].id, posts[n].rev) /\ requests'[posts[n].id].action = posts[n].action
    BY <1>1, <1>2 DEF Accept, Acceptable, AwaitsDecision, Accepts, StoreTypeOK
  <1>4. \A d \in DecisionIds : accepted[d] # 0 => requests[d].rev # posts[n].rev
    BY DEF Accept, Acceptable, AwaitsDecision
  <1>5. StoreTypeOK'
    BY <1>1, <1>2 DEF Accept, StoreTypeOK, SetStatus, Nonterminal, outcomeVars
  <1>6. QED BY <1>1, <1>3, <1>4, <1>5

LEMMA AcceptStore ==
  ASSUME ClientInvariant, NEW n \in Posts, posts[n] # NoPost, Accept(n)
  PROVE  StoreInvariant' /\ Kept
  <1> DEFINE d == posts[n].id
             r == posts[n].rev
  <1>1. d \in DecisionIds /\ r \in Revisions /\ Accepts(d, r) /\ StoreTypeOK'
    BY AcceptIsStep
  <1>2. StoreTypeOK /\ StoreInvariant /\ RowsInvariant
    BY DEF ClientInvariant, ClientTypeOK, StoreInvariant, RowsInvariant
  <1> HIDE DEF d, r
  <1>3. RowsInvariant'
    BY <1>1, <1>2, AcceptsRows
  <1>4. /\ status[r] = "waiting_decision"
        /\ status' = [status EXCEPT ![r] = "resume_pending"]
        /\ decision' = [decision EXCEPT ![r] = d]
        /\ \A e \in DecisionIds : e # d => requests'[e] = requests[e]
        /\ UNCHANGED <<owner, lease, attempts, attempt, resolution, pub, verification,
                       baseline>>
        /\ run'.delivery = run.delivery
    BY <1>1, <1>2 DEF Accepts, SetStatus, outcomeVars, StoreTypeOK
  <1>5. /\ \A q \in Revisions : q # r => status'[q] = status[q] /\ decision'[q] = decision[q]
        /\ status'[r] = "resume_pending"
    BY <1>1, <1>2, <1>4 DEF StoreTypeOK
  <1>6. LeaseHasOpenAttempt'
    BY <1>2, <1>4, <1>5 DEF StoreInvariant, LeaseHasOpenAttempt, OwnsOpenAttempt
  <1>7. OriginRows'
    BY <1>2, <1>4, <1>5, OriginKept DEF StoreInvariant
  <1>8. SupersededRows'
    BY <1>2, <1>4, <1>5 DEF StoreInvariant, SupersededRows
  <1>9. StoreInvariant'
    BY <1>3, <1>6, <1>7, <1>8 DEF StoreInvariant, RowsInvariant
  <1>10. Kept
    <2>1. decision[r] \notin DecisionIds
      BY <1>1, <1>2, <1>4, StoreAssumption DEF StoreInvariant, DecisionRows
    <2>2. \A q \in Revisions : decision[q] \in DecisionIds => decision[q] # d
      BY <1>1, <1>2 DEF StoreInvariant, DecisionRows, Accepts
    <2>3. QED BY <1>4, <1>5, <2>1, <2>2 DEF Kept
  <1>11. QED BY <1>9, <1>10

-----------------------------------------------------------------------------
(* The rows of the commands.                                               *)

(* A command that does not move. *)
LEMMA RowKept ==
  ASSUME Kept, NEW t \in Desk, ShownRow(t), CommandRow(t),
         t.stage = "posted" => posts'[t.post] = posts[t.post]
  PROVE  ShownRow(t)' /\ CommandRow(t)'
  <1>1. ShownRow(t)'
    BY DEF Kept, ShownRow
  <1>2. CommandRow(t)'
    <2>1. t.stage = "done" => resolution'[t.rev] = t.action
      BY DEF Kept, CommandRow, Actions
    <2>2. t.stage = "accepted" =>
            /\ decision'[t.rev] \in DecisionIds
            /\ requests'[decision'[t.rev]].action = t.action
      BY DEF Kept, CommandRow
    <2>3. t.stage \in {"reading", "shown", "posted"} => status'[t.rev] # "none"
      BY DEF Kept, CommandRow
    <2>4. QED BY <2>1, <2>2, <2>3 DEF CommandRow
  <1>3. QED BY <1>1, <1>2

(* One command moves, and every request under way stays.                   *)
LEMMA MoveRows ==
  ASSUME Kept, DeskRows, desk \in [Reviewers -> Desk],
         NEW c \in Reviewers, NEW t \in Desk, Set(c, t), ShownRow(t)', CommandRow(t)',
         \A n \in Posts : posts[n] # NoPost => posts'[n] = posts[n]
  PROVE  DeskRows' /\ desk' \in [Reviewers -> Desk]
  <1>1. desk' \in [Reviewers -> Desk]
    BY DEF Set
  <1>2. ASSUME NEW b \in Reviewers
        PROVE  ShownRow(desk[b])' /\ CommandRow(desk[b])'
    <2>1. PICK u \in Desk : u = desk'[b]
      BY <1>1
    <2>2. CASE b = c
      <3>1. u = t
        BY <2>1, <2>2 DEF Set
      <3>2. QED BY <2>1, <3>1 DEF ShownRow, CommandRow
    <2>3. CASE b # c
      <3>1. u = desk[b]
        BY <2>1, <2>3 DEF Set
      <3>2. ShownRow(u) /\ CommandRow(u)
        BY <3>1 DEF DeskRows
      <3>3. u.stage = "posted" => posts'[u.post] = posts[u.post]
        BY <3>2 DEF CommandRow
      <3>4. ShownRow(u)' /\ CommandRow(u)'
        BY <3>2, <3>3, RowKept
      <3>5. QED BY <2>1, <3>4 DEF ShownRow, CommandRow
    <2>4. QED BY <2>2, <2>3
  <1>3. QED BY <1>1, <1>2 DEF DeskRows

(* Nothing but one command moves.                                          *)
LEMMA QuietRows ==
  ASSUME UNCHANGED <<storeVars, posts>>, DeskRows, desk \in [Reviewers -> Desk],
         NEW c \in Reviewers, NEW t \in Desk, Set(c, t), ShownRow(t), CommandRow(t)
  PROVE  DeskRows' /\ desk' \in [Reviewers -> Desk]
  <1>1. Kept
    BY StoreKept
  <1>2. ShownRow(t)' /\ CommandRow(t)'
    BY <1>1, RowKept
  <1>3. QED BY <1>1, <1>2, MoveRows

(* The steps of one command that leave the store and the requests alone.   *)
LEMMA CommandMoves ==
  ASSUME ClientInvariant, NEW c \in Reviewers,
         \/ \E pinned \in BOOLEAN :
              \/ Run(c, "show", pinned, "none") \/ Run(c, "wait", pinned, "none")
              \/ \E a \in Actions : Run(c, "decide", pinned, a)
         \/ Resolve(c) \/ Show(c) \/ Poll(c) \/ GiveUp(c) \/ Leave(c)
  PROVE  UNCHANGED <<storeVars, posts>>
  BY DEF Run, Resolve, Show, Poll, GiveUp, Leave

LEMMA IdleRow == Idle \in Desk /\ ShownRow(Idle) /\ CommandRow(Idle)
  <1>1. Idle \in Desk
    BY ClientAssumption, StoreAssumption DEF Idle, Desk, Nothing, Commands
  <1>2. QED BY <1>1 DEF Idle, Nothing, ShownRow, CommandRow

LEMMA RunRow ==
  ASSUME ClientInvariant, NEW c \in Reviewers, NEW pinned \in BOOLEAN,
         NEW command \in Commands, NEW a \in Actions \cup {"none"},
         command = "decide" => a \in Actions, Run(c, command, pinned, a)
  PROVE  \E t \in Desk : Set(c, t) /\ ShownRow(t) /\ CommandRow(t)
  <1>1. PICK s \in Desk : s = desk[c] /\ ShownRow(s) /\ CommandRow(s)
    BY DEF ClientInvariant, ClientTypeOK, DeskRows
  <1> DEFINE t == [stage   |-> IF Target(c, pinned) = 0 THEN "resolving" ELSE "reading",
                   command |-> command, pinned |-> pinned, rev |-> Target(c, pinned),
                   shown   |-> IF pinned THEN desk[c].shown ELSE Nothing,
                   action  |-> a, post |-> 0]
  <1>2. Set(c, t) /\ (pinned => s.stage = "shown")
    BY <1>1 DEF Run
  <1>3. CASE pinned
    <2>1. Target(c, pinned) = s.rev /\ s.rev \in Revisions /\ s.rev # 0
          /\ s.rev \in 0 .. MaxRevision /\ status[s.rev] # "none" /\ s.shown.rev = s.rev
      BY <1>1, <1>2, <1>3, PostRange DEF Target, CommandRow
    <2>2. t = [stage |-> "reading", command |-> command, pinned |-> TRUE, rev |-> s.rev,
               shown |-> s.shown, action |-> a, post |-> 0]
      BY <1>1, <1>3, <2>1
    <2> HIDE DEF t
    <2>3. t \in Desk
      BY <1>1, <2>1, <2>2, ClientAssumption DEF Desk
    <2>4. ShownRow(t) /\ CommandRow(t)
      BY <1>1, <2>1, <2>2 DEF ShownRow, CommandRow
    <2>5. QED BY <1>2, <2>3, <2>4
  <1>4. CASE ~ pinned
    <2>1. t = [stage |-> "resolving", command |-> command, pinned |-> FALSE, rev |-> 0,
               shown |-> Nothing, action |-> a, post |-> 0]
      BY <1>4 DEF Target
    <2> HIDE DEF t
    <2>2. t \in Desk
      BY <2>1, ClientAssumption, StoreAssumption DEF Desk, Nothing
    <2>3. ShownRow(t) /\ CommandRow(t)
      BY <2>1 DEF ShownRow, CommandRow, Nothing
    <2>4. QED BY <1>2, <2>2, <2>3
  <1>5. QED BY <1>3, <1>4

LEMMA ResolveRow ==
  ASSUME ClientInvariant, NEW c \in Reviewers, Resolve(c)
  PROVE  \E t \in Desk : Set(c, t) /\ ShownRow(t) /\ CommandRow(t)
  <1>1. PICK s \in Desk : s = desk[c] /\ ShownRow(s) /\ CommandRow(s)
    BY DEF ClientInvariant, ClientTypeOK, DeskRows
  <1>2. CASE Set(c, Idle)
    BY <1>2, IdleRow
  <1>3. ASSUME NEW r \in ReviewsOfRun, Set(c, [desk[c] EXCEPT !.stage = "reading", !.rev = r])
        PROVE  \E t \in Desk : Set(c, t) /\ ShownRow(t) /\ CommandRow(t)
    <2> DEFINE t == [s EXCEPT !.stage = "reading", !.rev = r]
    <2>1. r \in Revisions /\ status[r] # "none" /\ r \in 0 .. MaxRevision /\ ~ s.pinned
      BY <1>1, PostRange DEF ReviewsOfRun, Resolve, CommandRow
    <2>2. t \in Desk /\ t.stage = "reading" /\ t.rev = r /\ t.pinned = s.pinned
          /\ t.shown = s.shown /\ t.command = s.command /\ t.action = s.action
      BY <2>1 DEF Desk
    <2>3. Set(c, t)
      BY <1>1, <1>3
    <2> HIDE DEF t
    <2>4. ShownRow(t) /\ CommandRow(t)
      BY <1>1, <2>1, <2>2 DEF ShownRow, CommandRow
    <2>5. QED BY <2>2, <2>3, <2>4
  <1>4. QED BY <1>2, <1>3 DEF Resolve

LEMMA ShowRow ==
  ASSUME ClientInvariant, NEW c \in Reviewers, Show(c)
  PROVE  \E t \in Desk : Set(c, t) /\ ShownRow(t) /\ CommandRow(t)
  <1>1. PICK s \in Desk : s = desk[c] /\ ShownRow(s) /\ CommandRow(s)
    BY DEF ClientInvariant, ClientTypeOK, DeskRows
  <1> DEFINE t == [Idle EXCEPT !.stage = "shown", !.rev = s.rev,
                               !.shown = [rev |-> s.rev, verified |-> verification]]
  <1>2. Set(c, t) /\ s.stage = "reading"
    BY <1>1 DEF Show
  <1>3. s.rev \in Revisions /\ s.rev \in 0 .. MaxRevision /\ status[s.rev] # "none"
        /\ verification \in Nat
    BY <1>1, <1>2, PostRange DEF CommandRow, ClientInvariant, ClientTypeOK, StoreTypeOK
  <1>4. PICK i \in Desk : i = Idle /\ i.command = "show"
    BY IdleRow DEF Idle
  <1>5. t = [i EXCEPT !.stage = "shown", !.rev = s.rev,
                      !.shown = [rev |-> s.rev, verified |-> verification]]
    BY <1>4
  <1> HIDE DEF t
  <1>6. t \in Desk /\ t.stage = "shown" /\ t.command = "show" /\ t.rev = s.rev
        /\ t.shown = [rev |-> s.rev, verified |-> verification]
    BY <1>3, <1>4, <1>5 DEF Desk
  <1>7. ShownRow(t) /\ CommandRow(t)
    BY <1>3, <1>6 DEF ShownRow, CommandRow
  <1>8. QED BY <1>2, <1>6, <1>7

LEMMA PollRow ==
  ASSUME ClientInvariant, NEW c \in Reviewers, Poll(c)
  PROVE  \E t \in Desk : Set(c, t) /\ ShownRow(t) /\ CommandRow(t)
  <1>1. PICK s \in Desk : s = desk[c] /\ ShownRow(s) /\ CommandRow(s)
    BY DEF ClientInvariant, ClientTypeOK, DeskRows
  <1>2. \/ s.stage = "accepted"
        \/ s.stage = "reading" /\ s.command = "wait"
    BY <1>1 DEF Poll
  <1>3. CASE Set(c, Idle)
    BY <1>3, IdleRow
  <1>4. CASE Set(c, desk[c])
    BY <1>1, <1>4
  <1>5. CASE status[s.rev] \in {"approved", "rejected"} /\ s.command # "wait"
             /\ Set(c, [s EXCEPT !.stage = "done"])
    <2> DEFINE t == [s EXCEPT !.stage = "done"]
    <2>1. s.rev \in Revisions /\ s.action \in Actions /\ resolution[s.rev] = s.action
      <3>1. s.rev \in Revisions /\ s.action \in Actions
            /\ requests[decision[s.rev]].action = s.action
        BY <1>1, <1>2, <1>5 DEF CommandRow
      <3>2. resolution[s.rev] # "none"
            /\ requests[decision[s.rev]].action = resolution[s.rev]
        BY <1>5, <3>1 DEF ClientInvariant, StoreInvariant, DecisionRows
      <3>3. QED BY <3>1, <3>2
    <2>2. t \in Desk /\ t.stage = "done" /\ t.rev = s.rev /\ t.shown = s.shown
          /\ t.command = s.command /\ t.action = s.action
      BY DEF Desk
    <2> HIDE DEF t
    <2>3. ShownRow(t) /\ CommandRow(t)
      BY <1>1, <2>1, <2>2 DEF ShownRow, CommandRow
    <2>4. Set(c, t)
      BY <1>5 DEF t
    <2>5. QED BY <2>2, <2>3, <2>4
  <1>6. CASE ~ s.pinned /\ Set(c, [s EXCEPT !.stage = "resolving", !.rev = 0])
    <2> DEFINE t == [s EXCEPT !.stage = "resolving", !.rev = 0]
    <2>1. t \in Desk /\ t.stage = "resolving" /\ t.pinned = s.pinned /\ t.shown = s.shown
          /\ t.command = s.command /\ t.action = s.action
      <3>1. 0 \in 0 .. MaxRevision
        BY StoreAssumption
      <3>2. QED BY <3>1 DEF Desk
    <2>2. Set(c, t)
      BY <1>6
    <2> HIDE DEF t
    <2>3. ShownRow(t) /\ CommandRow(t)
      BY <1>1, <1>6, <2>1 DEF ShownRow, CommandRow
    <2>4. QED BY <2>1, <2>2, <2>3
  <1>7. QED BY <1>1, <1>3, <1>4, <1>5, <1>6 DEF Poll

LEMMA CommandRows ==
  ASSUME ClientInvariant, NEW c \in Reviewers,
         \/ \E pinned \in BOOLEAN :
              \/ Run(c, "show", pinned, "none") \/ Run(c, "wait", pinned, "none")
              \/ \E a \in Actions : Run(c, "decide", pinned, a)
         \/ Resolve(c) \/ Show(c) \/ Poll(c) \/ GiveUp(c) \/ Leave(c)
  PROVE  ClientInvariant'
  <1>1. UNCHANGED <<storeVars, posts>>
    BY CommandMoves
  <1>2. \E t \in Desk : Set(c, t) /\ ShownRow(t) /\ CommandRow(t)
    <2>1. ASSUME NEW pinned \in BOOLEAN,
                 \/ Run(c, "show", pinned, "none") \/ Run(c, "wait", pinned, "none")
                 \/ \E a \in Actions : Run(c, "decide", pinned, a)
          PROVE  \E t \in Desk : Set(c, t) /\ ShownRow(t) /\ CommandRow(t)
      BY <2>1, RunRow DEF Commands
    <2>2. CASE GiveUp(c) \/ Leave(c)
      BY <2>2, IdleRow DEF GiveUp, Leave
    <2>3. QED BY <2>1, <2>2, ResolveRow, ShowRow, PollRow
  <1>3. DeskRows' /\ desk' \in [Reviewers -> Desk]
    BY <1>1, <1>2, QuietRows DEF ClientInvariant, ClientTypeOK
  <1>4. (StoreTypeOK /\ StoreInvariant)'
    BY <1>1, QuietStore DEF ClientInvariant, ClientTypeOK
  <1>5. (PostRows /\ AcceptedRows)' /\ posts' \in [Posts -> PostType]
    <2>1. UNCHANGED <<requests, accepted, decision, posts>>
      BY <1>1, Zenon DEF storeVars, workflowVars, decisionVars
    <2>2. posts' \in [Posts -> PostType] /\ PostRows'
      BY <2>1 DEF ClientInvariant, ClientTypeOK, PostRows, PostRow
    <2>3. AcceptedRows'
      BY <2>1 DEF ClientInvariant, AcceptedRows
    <2>4. QED BY <2>2, <2>3
  <1>6. QED BY <1>3, <1>4, <1>5 DEF ClientInvariant, ClientTypeOK

LEMMA SubmitRows ==
  ASSUME ClientInvariant, NEW c \in Reviewers, Submit(c)
  PROVE  ClientInvariant'
  <1>1. PICK s \in Desk : s = desk[c] /\ ShownRow(s) /\ CommandRow(s)
    BY DEF ClientInvariant, ClientTypeOK, DeskRows
  <1>2. PICK n \in Posts, id \in {StableId(s.rev, s.action)} \cup OwnIds :
          /\ posts[n] = NoPost
          /\ posts' = [posts EXCEPT ![n] = [id |-> id, rev |-> s.rev, action |-> s.action,
                                            expected |-> run.version]]
          /\ Set(c, [s EXCEPT !.stage = "posted", !.post = n])
    BY <1>1 DEF Submit
  <1>3. /\ s.stage = "reading" /\ s.command = "decide" /\ UNCHANGED storeVars
        /\ s.rev \in Revisions /\ s.action \in Actions /\ status[s.rev] # "none"
    BY <1>1 DEF Submit, CommandRow
  <1> DEFINE p == [id |-> id, rev |-> s.rev, action |-> s.action, expected |-> run.version]
             t == [s EXCEPT !.stage = "posted", !.post = n]
  <1>4. p \in PostType /\ PostRow(p) /\ p # NoPost /\ p.rev = s.rev /\ p.action = s.action
    <2>1. id \in DecisionIds /\ (id \in OwnIds \/ id = StableId(s.rev, s.action))
      BY <1>2, <1>3, StableIdType, ClientAssumption
    <2>2. run.version \in Nat
      BY DEF ClientInvariant, ClientTypeOK, StoreTypeOK
    <2>3. s.rev # 0 /\ s.rev \in 0 .. MaxRevision
      BY <1>3, PostRange
    <2>4. QED BY <1>3, <2>1, <2>2, <2>3 DEF PostType, PostRow, NoPost
  <1>5. t \in Desk /\ t.stage = "posted" /\ t.post = n /\ t.rev = s.rev /\ t.shown = s.shown
        /\ t.command = s.command /\ t.action = s.action /\ t.pinned = s.pinned
    <2>1. n \in 0 .. MaxPosts
      BY PostRange
    <2>2. QED BY <2>1 DEF Desk
  <1>6. posts' = [posts EXCEPT ![n] = p] /\ Set(c, t)
    BY <1>2
  <1> HIDE DEF p, t
  <1>7. posts' \in [Posts -> PostType] /\ posts'[n] = p
        /\ \A m \in Posts : m # n => posts'[m] = posts[m]
    BY <1>4, <1>6 DEF ClientInvariant, ClientTypeOK
  <1>8. Kept
    BY <1>3, StoreKept
  <1>9. ShownRow(t)'
    <2>1. ShownRow(s)'
      BY <1>1, <1>3, <1>8, RowKept
    <2>2. QED BY <1>5, <2>1 DEF ShownRow
  <1>10. CommandRow(t)'
    <2>1. status'[s.rev] # "none"
      BY <1>3, <1>8 DEF Kept
    <2>2. s.pinned => s.shown.rev = s.rev
      BY <1>1, <1>3 DEF CommandRow
    <2>3. QED BY <1>3, <1>4, <1>5, <1>7, <2>1, <2>2 DEF CommandRow
  <1>11. DeskRows' /\ desk' \in [Reviewers -> Desk]
    BY <1>2, <1>5, <1>6, <1>7, <1>8, <1>9, <1>10, MoveRows DEF ClientInvariant, ClientTypeOK
  <1>12. PostRows'
    <2>1. ASSUME NEW m \in Posts PROVE PostRow(posts[m])'
      BY <1>4, <1>7 DEF ClientInvariant, PostRows, PostRow
    <2>2. QED BY <2>1 DEF PostRows
  <1>13. (StoreTypeOK /\ StoreInvariant)'
    BY <1>3, QuietStore DEF ClientInvariant, ClientTypeOK
  <1>14. AcceptedRows'
    <2>1. UNCHANGED <<requests, accepted, decision>>
      BY <1>3, Zenon DEF storeVars, workflowVars, decisionVars
    <2>2. QED BY <2>1 DEF ClientInvariant, AcceptedRows
  <1>15. QED BY <1>7, <1>11, <1>12, <1>13, <1>14 DEF ClientInvariant, ClientTypeOK

(* The command that waits for an answer gets it, and no other.             *)
LEMMA AnswerRows ==
  ASSUME ClientInvariant, Kept, NEW n \in Posts, posts[n] # NoPost,
         posts' = [posts EXCEPT ![n] = NoPost],
         NEW stage \in {"accepted", "refused"}, Answer(n, stage),
         stage = "accepted" =>
           /\ decision'[posts[n].rev] \in DecisionIds
           /\ requests'[decision'[posts[n].rev]].action = posts[n].action
  PROVE  /\ DeskRows' /\ PostRows'
         /\ desk' \in [Reviewers -> Desk] /\ posts' \in [Posts -> PostType]
  <1>0. desk \in [Reviewers -> Desk] /\ posts \in [Posts -> PostType]
    BY DEF ClientInvariant, ClientTypeOK
  <1>1. NoPost \in PostType
    BY StoreAssumption DEF NoPost, PostType
  <1>2. posts' \in [Posts -> PostType] /\ posts'[n] = NoPost
        /\ \A m \in Posts : m # n => posts'[m] = posts[m]
    BY <1>0, <1>1
  <1>3. PostRows'
    <2>1. ASSUME NEW m \in Posts PROVE PostRow(posts[m])'
      BY <1>2 DEF ClientInvariant, PostRows, PostRow
    <2>2. QED BY <2>1 DEF PostRows
  <1>4. posts[n].rev \in Revisions /\ posts[n].action \in Actions
    BY DEF ClientInvariant, PostRows, PostRow
  <1>5. ASSUME NEW c \in Reviewers
        PROVE  desk'[c] \in Desk /\ ShownRow(desk[c])' /\ CommandRow(desk[c])'
    <2>1. PICK s \in Desk : s = desk[c] /\ ShownRow(s) /\ CommandRow(s)
      BY DEF ClientInvariant, ClientTypeOK, DeskRows
    <2>2. CASE s.stage = "posted" /\ s.post = n
      <3> DEFINE t == [s EXCEPT !.stage = stage, !.post = 0, !.shown = Nothing]
      <3>1. desk'[c] = t
        BY <2>1, <2>2 DEF Answer
      <3>2. t \in Desk /\ t.stage = stage /\ t.rev = s.rev /\ t.shown = Nothing
            /\ t.command = s.command /\ t.action = s.action /\ t.pinned = s.pinned
        <4>1. 0 \in 0 .. MaxPosts /\ Nothing \in [rev : 0 .. MaxRevision, verified : Nat]
          BY StoreAssumption, ClientAssumption DEF Nothing
        <4>2. QED BY <4>1 DEF Desk
      <3> HIDE DEF t
      <3>3. s.rev = posts[n].rev /\ s.action = posts[n].action /\ s.command = "decide"
        BY <2>1, <2>2 DEF CommandRow
      <3>4. ShownRow(t)' /\ CommandRow(t)'
        BY <1>4, <3>2, <3>3 DEF ShownRow, CommandRow, Nothing
      <3>5. QED BY <3>1, <3>2, <3>4 DEF ShownRow, CommandRow
    <2>3. CASE ~ (s.stage = "posted" /\ s.post = n)
      <3>1. desk'[c] = s
        BY <2>1, <2>3 DEF Answer
      <3>2. s.stage = "posted" => posts'[s.post] = posts[s.post]
        BY <1>2, <2>1, <2>3 DEF CommandRow
      <3>3. ShownRow(s)' /\ CommandRow(s)'
        BY <2>1, <3>2, RowKept
      <3>4. QED BY <3>1, <3>3 DEF ShownRow, CommandRow
    <2>4. QED BY <2>2, <2>3
  <1>6. desk' \in [Reviewers -> Desk]
    <2>1. desk' = [c \in Reviewers |-> desk'[c]]
      BY DEF Answer
    <2>2. QED BY <1>5, <2>1
  <1>7. QED BY <1>2, <1>3, <1>5, <1>6 DEF DeskRows

LEMMA AcceptServed ==
  ASSUME ClientInvariant, NEW n \in Posts, posts[n] # NoPost,
         posts' = [posts EXCEPT ![n] = NoPost], Accept(n)
  PROVE  ClientInvariant'
  <1> DEFINE d == posts[n].id
             r == posts[n].rev
  <1>1. /\ d \in DecisionIds /\ r \in Revisions /\ Accepts(d, r) /\ StoreTypeOK'
        /\ requests'[d].action = posts[n].action
        /\ \A e \in DecisionIds : accepted[e] # 0 => requests[e].rev # r
        /\ d \in OwnIds \/ d = StableId(r, posts[n].action)
    <2>1. d \in OwnIds \/ d = StableId(r, posts[n].action)
      BY DEF ClientInvariant, PostRows, PostRow
    <2>2. QED BY <2>1, AcceptIsStep
  <1>2. StoreInvariant' /\ Kept /\ Answer(n, "accepted")
    BY AcceptStore DEF Accept
  <1> HIDE DEF d, r
  <1>3. /\ decision' = [decision EXCEPT ![r] = d] /\ decision'[r] = d
        /\ accepted[d] = 0 /\ requests'[d].rev = r
        /\ \A e \in DecisionIds : e # d => requests'[e] = requests[e] /\ accepted'[e] = accepted[e]
    BY <1>1 DEF Accepts, ClientInvariant, ClientTypeOK, StoreTypeOK
  <1>4. AcceptedRows'
    <2>1. ASSUME NEW e \in DecisionIds, accepted'[e] # 0
          PROVE  /\ requests'[e].rev \in Revisions /\ decision'[requests'[e].rev] = e
                 /\ e \in OwnIds \/ e = StableId(requests'[e].rev, requests'[e].action)
      <3>1. CASE e = d
        BY <1>1, <1>3, <3>1
      <3>2. CASE e # d
        <4>1. requests'[e] = requests[e] /\ accepted[e] # 0 /\ requests[e].rev # r
          BY <1>1, <1>3, <2>1, <3>2
        <4>2. /\ requests[e].rev \in Revisions /\ decision[requests[e].rev] = e
              /\ e \in OwnIds \/ e = StableId(requests[e].rev, requests[e].action)
          BY <4>1 DEF ClientInvariant, AcceptedRows
        <4>3. decision'[requests[e].rev] = decision[requests[e].rev]
          BY <1>3, <4>1, <4>2 DEF ClientInvariant, ClientTypeOK, StoreTypeOK
        <4>4. QED BY <4>1, <4>2, <4>3
      <3>3. QED BY <3>1, <3>2
    <2>2. QED BY <2>1 DEF AcceptedRows, StableId
  <1>5. /\ DeskRows' /\ PostRows'
        /\ desk' \in [Reviewers -> Desk] /\ posts' \in [Posts -> PostType]
    BY <1>1, <1>2, <1>3, AnswerRows DEF d, r
  <1>6. QED BY <1>1, <1>2, <1>4, <1>5 DEF ClientInvariant, ClientTypeOK

LEMMA ServeRows ==
  ASSUME ClientInvariant, NEW n \in Posts, Serve(n)
  PROVE  ClientInvariant'
  <1>1. posts[n] # NoPost /\ posts' = [posts EXCEPT ![n] = NoPost]
    BY DEF Serve
  <1>2. CASE Replay(n) \/ Refuse(n)
    <2>1. UNCHANGED storeVars /\ Kept
      BY <1>2, StoreKept DEF Replay, Refuse
    <2>2. UNCHANGED <<requests, accepted, decision>>
      BY <2>1, Zenon DEF storeVars, workflowVars, decisionVars
    <2>3. PICK stage \in {"accepted", "refused"} :
            Answer(n, stage) /\ (stage = "accepted" => Replays(posts[n]))
      BY <1>2 DEF Replay, Refuse
    <2>4. Replays(posts[n]) =>
            /\ decision'[posts[n].rev] \in DecisionIds
            /\ requests'[decision'[posts[n].rev]].action = posts[n].action
      <3>1. posts[n].id \in DecisionIds
        BY <1>1 DEF ClientInvariant, PostRows, PostRow
      <3>2. Replays(posts[n]) => decision[posts[n].rev] = posts[n].id
        BY <3>1 DEF ClientInvariant, AcceptedRows, Replays
      <3>3. QED BY <2>2, <3>1, <3>2 DEF Replays
    <2>5. /\ DeskRows' /\ PostRows'
          /\ desk' \in [Reviewers -> Desk] /\ posts' \in [Posts -> PostType]
      BY <1>1, <2>1, <2>3, <2>4, AnswerRows
    <2>6. (StoreTypeOK /\ StoreInvariant)'
      BY <2>1, QuietStore DEF ClientInvariant, ClientTypeOK
    <2>7. AcceptedRows'
      BY <2>2 DEF ClientInvariant, AcceptedRows
    <2>8. QED BY <2>5, <2>6, <2>7 DEF ClientInvariant, ClientTypeOK
  <1>3. QED BY <1>1, <1>2, AcceptServed DEF Serve

LEMMA BackgroundRows ==
  ASSUME ClientInvariant, Background
  PROVE  ClientInvariant'
  <1>1. UNCHANGED <<requests, accepted, decision, desk, posts>>
    BY BackgroundDecisions
  <1>2. (StoreTypeOK /\ StoreInvariant)' /\ Kept
    BY BackgroundStep, BackgroundKept, StoreStepType, StoreInvariantStep
    DEF ClientInvariant, ClientTypeOK
  <1>3. DeskRows'
    <2>1. ASSUME NEW c \in Reviewers PROVE ShownRow(desk[c])' /\ CommandRow(desk[c])'
      <3>1. PICK s \in Desk : s = desk[c] /\ ShownRow(s) /\ CommandRow(s)
        BY DEF ClientInvariant, ClientTypeOK, DeskRows
      <3>2. ShownRow(s)' /\ CommandRow(s)' /\ s = desk'[c]
        BY <1>1, <1>2, <3>1, RowKept
      <3>3. QED BY <3>2 DEF ShownRow, CommandRow
    <2>2. QED BY <2>1 DEF DeskRows
  <1>4. QED BY <1>1, <1>2, <1>3
        DEF ClientInvariant, ClientTypeOK, PostRows, PostRow, AcceptedRows

LEMMA ClientInit == Init => ClientInvariant
  <1> SUFFICES ASSUME Init PROVE ClientInvariant
    OBVIOUS
  <1>1. StoreTypeOK /\ StoreInvariant
    BY StoreInitType, StoreInvariantInit DEF Init
  <1>2. ClientTypeOK
    <2>1. NoPost \in PostType
      BY StoreAssumption DEF NoPost, PostType
    <2>2. QED BY <1>1, <2>1, IdleRow DEF ClientTypeOK, Init
  <1>3. PostRows /\ DeskRows
    BY IdleRow DEF Init, PostRows, PostRow, DeskRows
  <1>4. AcceptedRows
    BY DEF Init, StoreInit, AcceptedRows
  <1>5. QED BY <1>1, <1>2, <1>3, <1>4 DEF ClientInvariant

LEMMA ClientStep == ClientInvariant /\ [Next]_vars => ClientInvariant'
  <1> SUFFICES ASSUME ClientInvariant, [Next]_vars PROVE ClientInvariant'
    OBVIOUS
  <1>1. CASE UNCHANGED vars
    <2>1. UNCHANGED <<desk, posts>> /\ UNCHANGED storeVars
      BY <1>1, Zenon DEF vars, clientVars
    <2>2. UNCHANGED <<requests, accepted, decision>>
      BY <2>1, Zenon DEF storeVars, workflowVars, decisionVars
    <2>3. Kept /\ (StoreTypeOK /\ StoreInvariant)'
      BY <2>1, StoreKept, QuietStore DEF ClientInvariant, ClientTypeOK
    <2>4. DeskRows'
      <3>1. ASSUME NEW c \in Reviewers PROVE ShownRow(desk[c])' /\ CommandRow(desk[c])'
        <4>1. PICK s \in Desk : s = desk[c] /\ ShownRow(s) /\ CommandRow(s)
          BY DEF ClientInvariant, ClientTypeOK, DeskRows
        <4>2. ShownRow(s)' /\ CommandRow(s)' /\ s = desk'[c]
          BY <2>1, <2>3, <4>1, RowKept
        <4>3. QED BY <4>2 DEF ShownRow, CommandRow
      <3>2. QED BY <3>1 DEF DeskRows
    <2>5. QED BY <2>1, <2>2, <2>3, <2>4
          DEF ClientInvariant, ClientTypeOK, PostRows, PostRow, AcceptedRows
  <1>2. QED BY <1>1, CommandRows, SubmitRows, ServeRows, BackgroundRows DEF Next

LEMMA AlwaysClientInvariant == Spec => []ClientInvariant
  BY ClientInit, ClientStep, PTL DEF Spec

-----------------------------------------------------------------------------
(* What a step tells a reviewer.                                           *)

LEMMA AcceptedMoves ==
  ASSUME ClientInvariant, Next, accepted' # accepted
  PROVE  \E n \in Posts : /\ posts[n] # NoPost /\ posts' = [posts EXCEPT ![n] = NoPost]
                          /\ Accept(n)
  <1>1. UNCHANGED storeVars => accepted' = accepted
    BY Zenon DEF storeVars, decisionVars
  <1>2. ~ Background
    BY BackgroundDecisions
  <1>3. ASSUME NEW c \in Reviewers PROVE ~ Submit(c)
    BY <1>1 DEF Submit
  <1>4. PICK n \in Posts : Serve(n)
    BY <1>1, <1>2, <1>3, CommandMoves DEF Next
  <1>5. ~ Replay(n) /\ ~ Refuse(n)
    BY <1>1 DEF Replay, Refuse
  <1>6. QED BY <1>4, <1>5 DEF Serve

LEMMA DecidesStep ==
  ASSUME ClientInvariant, Next, accepted' # accepted,
         NEW c \in Reviewers, desk[c].stage = "posted", desk[c].pinned,
         posts'[desk[c].post] = NoPost
  PROVE  /\ decision'[desk[c].shown.rev] # decision[desk[c].shown.rev]
         /\ verification = desk[c].shown.verified
  <1>1. PICK s \in Desk : s = desk[c] /\ ShownRow(s) /\ CommandRow(s)
    BY DEF ClientInvariant, ClientTypeOK, DeskRows
  <1>2. PICK n \in Posts : /\ posts[n] # NoPost /\ posts' = [posts EXCEPT ![n] = NoPost]
                           /\ Accept(n)
    BY AcceptedMoves
  <1>3. /\ s.post = n /\ s.shown.rev = s.rev /\ posts[n].rev = s.rev
        /\ s.rev \in Revisions /\ s.rev # 0
    <2>1. s.post \in Posts /\ posts[s.post] # NoPost /\ posts[s.post].rev = s.rev
          /\ s.shown.rev = s.rev /\ s.rev \in Revisions
      BY <1>1 DEF CommandRow
    <2>2. s.post = n
      BY <1>1, <1>2, <2>1 DEF ClientInvariant, ClientTypeOK
    <2>3. QED BY <2>1, <2>2, PostRange
  <1>4. Accepts(posts[n].id, s.rev) /\ posts[n].id \in DecisionIds
    BY <1>2, <1>3, AcceptIsStep
  <1>5. /\ status[s.rev] = "waiting_decision"
        /\ decision' = [decision EXCEPT ![s.rev] = posts[n].id]
    BY <1>4 DEF Accepts
  <1>6. decision'[s.rev] # decision[s.rev]
    <2>1. decision[s.rev] = NoDecision
      BY <1>3, <1>5 DEF ClientInvariant, StoreInvariant, DecisionRows
    <2>2. decision'[s.rev] = posts[n].id
      BY <1>3, <1>5 DEF ClientInvariant, ClientTypeOK, StoreTypeOK
    <2>3. QED BY <1>4, <2>1, <2>2, StoreAssumption
  <1>7. pub[s.rev].status # "stale"
    <2>1. UnderReview(s.rev)
      BY <1>3, <1>5 DEF ClientInvariant, StoreInvariant, ReviewRows, Nonterminal
    <2>2. QED BY <1>3, <2>1 DEF UnderReview, Published
  <1>8. verification = s.shown.verified
    BY <1>1, <1>3, <1>7 DEF ShownRow
  <1>9. QED BY <1>1, <1>3, <1>6, <1>8

(* Only a refusal refuses. *)
LEMMA RefusedMoves ==
  ASSUME ClientInvariant, [Next]_vars, NEW n \in Posts, NEW c \in Reviewers,
         desk[c].stage = "posted", desk[c].post = n, desk'[c].stage = "refused"
  PROVE  posts[n] # NoPost /\ Refuse(n)
  <1>1. PICK s \in Desk : s = desk[c] /\ CommandRow(s)
    BY DEF ClientInvariant, ClientTypeOK, DeskRows
  <1>2. desk'[c] # s
    BY <1>1
  <1>3. ASSUME NEW b \in Reviewers, NEW t, Set(b, t)
        PROVE  b = c /\ t.stage = "refused"
    BY <1>1, <1>2, <1>3 DEF Set, ClientInvariant, ClientTypeOK
  <1>4. ASSUME NEW b \in Reviewers
        PROVE  ~ (Resolve(b) \/ Show(b) \/ Submit(b) \/ Poll(b) \/ GiveUp(b) \/ Leave(b))
    <2>1. CASE Resolve(b)
      BY <1>3, <2>1 DEF Resolve
    <2>2. CASE Show(b)
      BY <1>3, <2>2 DEF Show
    <2>3. CASE Submit(b)
      <3>1. desk[b].stage = "reading" /\ \E t : Set(b, t)
        BY <2>3 DEF Submit
      <3>2. QED BY <1>3, <3>1
    <2>4. CASE Poll(b)
      <3>1. desk[b].stage \in {"accepted", "reading"} /\ \E t : Set(b, t)
        BY <2>4 DEF Poll
      <3>2. QED BY <1>3, <3>1
    <2>5. CASE GiveUp(b) \/ Leave(b)
      BY <1>3, <2>5 DEF GiveUp, Leave, Idle
    <2>6. QED BY <2>1, <2>2, <2>3, <2>4, <2>5
  <1>5. ASSUME NEW b \in Reviewers, NEW command, NEW pinned \in BOOLEAN, NEW a
        PROVE  ~ Run(b, command, pinned, a)
    BY <1>3 DEF Run, Ended
  <1>6. ~ Background /\ ~ UNCHANGED vars
    BY <1>1, <1>2, Zenon DEF Background, vars, clientVars
  <1>7. PICK m \in Posts : Serve(m)
    BY <1>4, <1>5, <1>6 DEF Next
  <1>8. ASSUME NEW stage, Answer(m, stage)
        PROVE  m = n /\ stage = "refused"
    BY <1>1, <1>2, <1>8 DEF Answer, Desk
  <1>9. ~ Accept(m) /\ ~ Replay(m)
    BY <1>8 DEF Accept, Replay
  <1>10. Refuse(m) /\ posts[m] # NoPost
    BY <1>7, <1>9 DEF Serve
  <1>11. QED BY <1>8, <1>10 DEF Refuse

LEMMA RefusedStep ==
  ASSUME OwnIds \cap StableIds = {}, ClientInvariant, NEW n \in Posts,
         posts[n] # NoPost, Refuse(n), posts[n].id \notin OwnIds,
         NEW d \in StableIds, accepted[d] # 0
  PROVE  [rev |-> requests[d].rev, action |-> requests[d].action]
           # [rev |-> posts[n].rev, action |-> posts[n].action]
  <1> DEFINE p == posts[n]
  <1>1. p.id \in DecisionIds /\ p.id = StableId(p.rev, p.action)
    BY DEF ClientInvariant, PostRows, PostRow
  <1>2. d \in DecisionIds /\ d = StableId(requests[d].rev, requests[d].action)
    BY ClientAssumption DEF ClientInvariant, AcceptedRows
  <1>3. ~ Replays(p)
    BY DEF Refuse
  <1> HIDE DEF p
  <1>4. SUFFICES ASSUME requests[d].rev = p.rev, requests[d].action = p.action
                 PROVE  FALSE
    BY DEF p
  <1>5. d = p.id
    BY <1>1, <1>2, <1>4
  <1>6. QED BY <1>3, <1>4, <1>5 DEF Replays

-----------------------------------------------------------------------------
(* The theorems.                                                           *)

(* A reviewer who waited for the end of a decision is told of the verdict  *)
(* he gave, whoever else decided, repeated or gave up meanwhile            *)
(* (wait_for_review after submit_review_decision).                         *)
THEOREM VerdictsAreOwn == Spec => []ReportsOwnVerdict
  <1>1. ClientInvariant => ReportsOwnVerdict
    BY DEF ClientInvariant, DeskRows, CommandRow, ReportsOwnVerdict
  <1>2. QED BY <1>1, AlwaysClientInvariant, PTL

(* A decision on a review that was shown is accepted for that review, and  *)
(* while the evidence it was shown with is the evidence still              *)
(* (accept_review_decision, AcceptVerification's supersession).            *)
THEOREM DecidesTheShownEvidence == Spec => DecidesWhatWasShown
  <1> DEFINE A == \A c \in Reviewers :
                    desk[c].stage = "posted" /\ desk[c].pinned /\ desk[c].post # 0
                      /\ posts'[desk[c].post] = NoPost /\ accepted' # accepted
                      => decision'[desk[c].shown.rev] # decision[desk[c].shown.rev]
                           /\ verification = desk[c].shown.verified
  <1>1. ClientInvariant /\ Next => A
    BY DecidesStep
  <1>2. ClientInvariant /\ [Next]_vars => [A]_vars
    BY <1>1
  <1>3. Spec => [][A]_vars
    BY <1>2, AlwaysClientInvariant, PTL DEF Spec
  <1>4. QED BY <1>3 DEF DecidesWhatWasShown

(* Repeating a command whose answer was lost is not a conflict, if no      *)
(* client chooses as its own an identity made by stable_decision_id from   *)
(* another content.                                                        *)
THEOREM RepetitionsAreReplays ==
  ASSUME OwnIds \cap StableIds = {}
  PROVE  Spec => RepetitionIsNoConflict
  <1> DEFINE A == \A n \in Posts, c \in Reviewers :
       desk[c].stage = "posted" /\ desk[c].post = n /\ desk'[c].stage = "refused"
         => \/ posts[n].id \in OwnIds
            \/ \A d \in StableIds :
                 accepted[d] # 0 => [rev |-> requests[d].rev, action |-> requests[d].action]
                                      # [rev |-> posts[n].rev, action |-> posts[n].action]
  <1>1. ClientInvariant /\ [Next]_vars => A
    BY RefusedMoves, RefusedStep
  <1>2. ClientInvariant /\ [Next]_vars => [A]_vars
    BY <1>1
  <1>3. Spec => [][A]_vars
    BY <1>2, AlwaysClientInvariant, PTL DEF Spec
  <1>4. QED BY <1>3 DEF RepetitionIsNoConflict

=============================================================================
