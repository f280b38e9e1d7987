# Verification of deep-search-agent

TLA+ models of the backend of *deep-search-agent*, model-checked with TLC, and
theorems about them proved with TLAPS. The backend runs a research agent for a
request, stores what it found in SQLite, and, for talent-hiring runs, holds the
result back until a human reviewed it and every later evidence verification was
taken into account. This directory models that path, from the start of a run to
the artifact handed to the reader, and what surrounds it: the capture of evidence
and the rules of review, the migration of the database, the clients, the events of
a run and the caches of its search tool.

Contents: [the system](#1-the-system), [modules](#2-modules-and-how-they-correspond-to-the-code),
[runs](#3-runs-bounds-and-what-they-show), [fairness](#4-fairness),
[proofs](#5-proofs), [findings](#6-findings), [what is not modelled](#7-what-is-not-modelled-and-why),
[plan](#8-plan). `PROJECT.json` maps every definition to the lines it models and
lists runs, mutants, hazards and theorems.

## 1. The system

One FastAPI process (several in the tests) over an application database
(SQLite) and a LangGraph checkpoint database.

| Component | State | Operations | Correct when |
|---|---|---|---|
| Run execution (`api/server.py`, `task_tracker.py`, `research_execution_service.py`) | the asyncio task of a run, its timer, the outcome box | start, transition to running, run the agent, finalize, fail, time out | exactly one writer finishes a run; no late thread overwrites it; every run ends |
| Run repository (`api/run_repository.py`) | `research_runs_v2`, segments, evidence, packets, bundles, artifacts | create, fenced transition, terminal transaction, reads | writes are fenced by `state_version` and status |
| Review repository (`api/review_repository.py`) | workflows with leases, decisions, attempts, resolutions | accept a decision, claim, complete, release, reconcile, resolve | one decision per review, one resolution, made by the lease holder |
| Review worker (`api/review_worker.py`) | a polling loop per process, its claim | reconcile at start, claim, call gate, write, retry or give up | every accepted decision is settled; a crash between two steps is repaired |
| Review gate (`api/review_gate.py`) | a LangGraph thread per review revision | ensure waiting, resume, inspect | holds only decisions the application accepted |
| Publications (`api/publication_repository.py`, `publication_service.py`) | `run_publications_v2` | adopt a baseline, stale, finalize a snapshot | one current publication, approved and up to date when ready |
| Evidence verification (`api/evidence_verification_*.py`) | decision log per evidence item | preflight, accept a decision, snapshot | an accepted decision withdraws what was built without it |
| Result service (`api/run_result_service.py`) | none | resolve the result of a run | hands out only deliverable artifacts |
| Evidence and outcomes (`agent/research.py`, `agent/run_result.py`, `research_execution_service.py`) | the accumulator of a run | preload declared aggregates, capture, expand aliases, select a packet, freeze | every end of an execution keeps what was captured; a usable packet is kept |
| Bundles and artifacts (`api/review_service.py`, `talent_artifacts.py`, `review_artifacts.py`) | pure functions | require or waive review, build and project artifacts | nothing unverified or rejected passes unseen |
| Migration (`api/run_migrations.py`, `publication_repository.py`, `evidence_verification_repository.py`) | schema markers, backup files | back up, apply, backfill, verify, restore | a failed attempt leaves what it found; nothing committed is lost |
| Search tool (`tools/tavily_tools.py`, `cache.py`, `retry_utils.py`) | a shared TTL cache, a memory per run | search, retry, evict, clear | one answer per query and run; failures are not shared |
| Monitor (`api/monitor.py`) | open WebSocket connections, the event loop's queue | connect, report, send, disconnect | a client is sent its run's events in order |
| Command line (`tools/decision_research_agent_tool.py`) | what was shown and asked | show, approve, reject, wait, verify | repeating a command is safe; it decides what was shown |
| Console (`frontend/src/useLiveRun.ts`) | the hook's view, overlapping calls | check, run, poll, switch mode or backend | what is shown belongs together; waiting ends |

How they interact. The server creates a run row and a task; the task awaits
database calls in threads and the agent on the event loop, and ends with one
terminal transaction that also stores the review bundle, the review workflow
and the baseline publication. From then on the run row is shared: review
decisions, resolutions and evidence verifications each bump
`state_version`. Review workers claim workflow rows by lease and drive the gate,
whose database is never written atomically with the application's. Readers use
separate autocommit reads. A client's request may be served after the client gave
up. Tools run in threads of their own and report to the server's event loop.

What is hard. Threads that outlive the task that awaits them; a timeout that
races the normal completion; leases that expire under a slow worker; a crash
between the gate and the application database; a reconciler that acts on a list
read earlier without owning a lease; verifications that withdraw a publication
between decision and resolution; requests that arrive late or twice; reads torn
across transactions; a migration interrupted between its backup and its marker;
answers that come back to a view the user has left; events that take ways of
different length to the same client. `PROJECT.json` lists each hazard with its line and
with the properties aimed at it, or with the reason why none is.

## 2. Modules and how they correspond to the code

```
ReviewStore        tables and transactions of one run's review and publications
  ReviewWorkflow   + workers, reconciler, gate, crashes, expiring leases
    ReviewRefinement   + refinement mapping to ReviewContract (abstract)
      MCReviewRefinement   model-checking instance
  ReviewInvariant  inductive strengthening of the store's properties
  RunResult        + a reader of the result endpoint
  EvidenceVerification   + decision log, snapshots and the client's commands
  ReviewClient     + reviewers at the command line
    MCReviewClient       model-checking instance
RunLifecycle       task, timer, threads and row of one run; hands over to ReviewStore
ClaimReview        captured evidence, the frozen outcome, review rules, publications
  MCClaimReview          model-checking instance
SchemaMigration    the migration of the database, its backups and its failures
LiveRun            the console's hook and its overlapping calls
RunEvents          events of a run on their way to its WebSocket connections
SearchCache        concurrent searches, the memory of a run, the shared TTL cache

<M>Proofs          theorems about ReviewStore (lemmas only), ReviewWorkflow, RunLifecycle,
                   SchemaMigration and ReviewClient
DeliveryProofs     theorems about EvidenceVerification and RunResult
ResearchProofs     theorems about SearchCache and ClaimReview
ConsoleProofs      theorems about LiveRun and RunEvents
```

**ReviewStore.** One operator per `BEGIN IMMEDIATE` transaction of the three
repositories. SQLite serialises writers, so a transaction is one step. A run has
one review workflow and one publication per revision, so tables become functions
on `Revisions`. A timestamp is reduced to whether it has passed: `lease[r]` is
`"none"`, `"live"` or `"expired"` (`lease_expires_at` absent, in the future, in
the past). Of the resume attempts only the row numbered `attempt_count` is kept:
the code addresses no other. A verification snapshot is the number of decisions
it contains, since each decision changes the projection that is hashed.
`StoreInit` is what the terminal transaction of a talent run leaves behind, with
or without durable review and with or without publications (both depend on the
configuration). A refused transaction is a false guard (`CanResolve`,
`CanRelease`, ...): the caller's action has a disjunct for the refusal.

**ReviewWorkflow.** `pc[w]` names the awaited call a worker is in. A worker
action is one `asyncio.to_thread` call of `run_once` or of
`reconcile_review_workflows`: a store transaction or a gate call, never both.
`todo` is the list the reconciler read and works off while others move on.
`checkpoint[r]` is the LangGraph thread of a revision. `Crash` stops a process
between any two calls, `CallFails` makes a call raise, `CorruptCheckpoint`
damages the gate's database, `Expire` lets time pass. Each process start takes a
fresh worker identity, as `ReviewWorker.__init__` does.

**ReviewContract** and **ReviewRefinement.** What a reader may rely on: each
revision's review moves forward only, at most one verdict takes effect, newer
evidence withdraws a revision for good, and delivery is ready exactly when the
live revision is cleared or approved. The mapping reads phase and verdict off
the workflow, decision and publication rows; retries, takeovers, crashes and
reconciliation are stuttering steps.

**RunLifecycle.** `pc` follows `_run_v2_with_persistence`, its failure handler and
the timeout callback. `call[k]` is the state of each of the four database calls,
each in a thread of its own: cancelling the task moves `pc` on and leaves the call
`"inflight"`, where it may still commit, or drops it when no thread had taken it.
`Write(k)` is the transaction: applied when `Fence(k)` matches, refused when not,
or raised. `expected` and `row` are the versions the failure handler and the
callback fence with. Captured evidence is `"none"`, `"clean"` or `"repeated"`
(some fingerprint occurs twice). `HandsOverToReview` instantiates ReviewStore over
the finished row and asserts `StoreInit`, which composes the two models.

**RunResult.** A reader that takes the run row, then the current publication,
then the artifact, one step each, beside `StoreNext`: any transaction with any
arguments.

**EvidenceVerification.** ReviewStore counts accepted decisions; here each item
has its log (`ledger`), and a publication keeps the projection (`shot`) it was made
from. `Serve(n)` is `accept_verification_decision` for a request on its way: accepted,
replayed or refused, in the code's order. `desk[o]` is the command an operator is
running: `Submit` reads the revision and posts a decision, `Plan` and `Finalize` read
`state_version` and post a finalization, `GiveUp` loses the answer while the request
stays on its way. `Review` runs the review transactions undisturbed, so that
publications are approved between verdicts. Two operators who reject an item give
the same reason.

**ReviewClient.** The review commands over ReviewStore. `desk[c]` is the command a
reviewer runs: a command without `--review-id` first asks which review the run has
(`Resolve`), then reads it (`Show`, `Submit`, `Poll`), one request per step. `posts` are the
decision requests on their way; `Serve(n)` is `accept_review_decision`: accepted,
replayed under an equal request hash, or refused. `GiveUp` loses the answer and leaves
the request on its way. A decision identity is a record of what
`stable_decision_id` hashes, or an identity of the reviewer's own.

**ClaimReview.** One execution, its end, and what follows. `Preload` and `PreloadFails` are the
turns of `_preload_declared_aggregate_evidence`, `CaptureEntry` and `CapturePacket` what a
chunk of the stream adds to the accumulator. An evidence entry is its fingerprint, and
`entries` counts how often each was captured (preloading merges, streaming does not);
a packet is the names it refers to, which `Expanded` resolves through the aliases;
`Selected` is `_resolve_talent_packets`. `Return`, `ExceedBudget`, `Break` and `Stuck` are the ways
an execution ends. `Triggers` is what makes `build_review_bundle` require a review.
The concurrency of the ending is RunLifecycle's, that of the review ReviewStore's:
both take as an input what this module computes.

**SchemaMigration.** `pc` follows `migrate_with_backup`, `migrate_publication_with_backup` and
the readiness checks of the server's start. The database is its markers, the
review of each run, and its publications; the transactions of the two schema
changes are `WithOrigins` and `WithPublications`. Each step may fail (`Raise`, `FailBackup`,
`FailVerifyRun`) or be the last before the process dies (`Stop`); the inner handler is
`RestoreInner` or, when the restore itself raises, `FailRestoreInner`; the outer one is `Unwind`.
A restore that raises in the outer handler ends the process with nothing done, as `Stop` does.
`FailBackup` may strike before or after the backup file was created. A backup file is the set of what it contains.
Server and script have backup paths of their own. Runs finish while the server
serves, so that a backup may be older than they are.

**LiveRun.** `view` is the state of the hook, `newest` the call that holds the current
version, `calls` the asynchronous functions that still run, each at one of its awaits.
Every request is answered, refused or never comes back; `Expire` is the deadline's
timer. The controls act only when App.tsx enables them (`MayAct`).

**RunEvents.** `ready` is the queue of the event loop. A worker thread's event is
submitted and sent one turn later; a tool's result settles a future, wakes the
run's coroutine a turn later, and what the coroutine reports is sent a turn after
that (`Submitted`, `Settled`, `Woken`, `Sent`). `Open`, `Connect`, `Leave` and `Disconnect` are a
connection's life; `active` is `active_run_connections`.

**SearchCache.** `call[t]` is where a tool call's thread is. `Check` and `Keep` are the two locked
blocks of `search_with_dedup`; between them the call goes through the unlocked
steps of `TTLCache` (`Look`, `Read`, `Drop`, `Put`, `Count`, `Evict`), each of which may find that another
thread has moved on, and through `retry_async`. `EndRun` clears a run's memory while
its threads go on.

## 3. Runs, bounds and what they show

| Run | Instance | States | Shows |
|---|---|---|---|
| ReviewRace | 2 workers, 1 decision, 1 revision, 3 attempts, 1 verification, 1 expiry under work, 1 fault, fair | 217 k | who holds what under takeover, crash and failure; accepted decisions are settled, reviews open, the fair contract |
| ReviewRevisions | 2 workers, 2 decisions, 2 revisions, 2 verifications, 2 attempts, no fault | 583 k | decisions against verifications and revisions; `StoreInvariant` is the proofs' invariant; the contract |
| RunLifecycle | evidence none or clean, 2 faults, fair | 2.5 k | the terminal writers race; runs settle; the hand-over |
| RunResult | 1 worker, 1 decision, 2 revisions, 1 verification, 2 claims | 271 k | a read under an unchanged version is consistent |
| EvidenceVerification | 1 operator, 2 items (a declared fixture, one whose preflight is blocked), 2 requests on their way, 2 accepted decisions, 2 revisions | 1.5 M | repeated, late and orphaned decision requests |
| SchemaMigration | 1 old run in every state an earlier release leaves, 1 new run, 4 starts; every step may fail, the backup before or after its file exists | 705 k | a failed migration restores and committed runs survive, unless the call's own backup was left unfinished; backfilled publications agree |
| ReviewClient | 1 reviewer, 1 identity of its own, 2 posts, 2 revisions, 1 verification, 2 claims of a workflow | 2.2 M | repeated and late commands on a review that moves on |
| LiveRun | 2 backends, 3 overlapping calls, 2 runs | 128 k | what is shown together, and that a wait ends |
| ClaimReview | 4 items, one too long, 2 aggregates that share a sample, 6 kinds of packet, 2 copies of an item, 2 packets, 3 publications | 70 k | what is delivered with and without review, and what an execution leaves |
| RepeatedEvidence | clean or repeated evidence, no fault | | finding 2 |
| TornResult | as RunResult | | finding 1 |
| HalfBackup | as SchemaMigration, 2 starts | | finding 3 |

Why these bounds are enough for what the runs ask. Two workers give one that was
overtaken and one that overtakes; a third could only overtake again, and each
crash already uses up an identity, so the second also plays the restarted
process. `RetryLimit` 3 lets a review fail in checkpoint creation, in resumption
and in resolution before it is parked. Two revisions give a history and a
current publication, two decisions give a winner and a loser for the same review
or one for each revision. `MaxExpiries` counts only expiries under a worker at
work, and one gives a late worker beside the one that took over; leases of dead or idle
holders expire freely. `MaxFaults` counts failed
calls, unreadable checkpoints and damaged ones. The safety properties are also
proved for every value of these constants (section 5), except where section 5
says otherwise. Workers and decision identifiers are symmetric in ReviewRevisions, which
checks no liveness. One operator is enough in EvidenceVerification: desks share
nothing but the requests on their way and the database, so an operator that gives up
and starts another command leaves behind what a second one would; the same holds of the
one reviewer of ReviewClient, whose own identity stands for the decisions of others.
Two decisions
let a verdict be taken back, be repeated, or fall on another item.

In SchemaMigration each run migrates independently of the others, so one old run, in
all its initial states, and one that comes later are enough; four starts allow a
failed attempt, its repetition, the other caller's, and a start that serves. In LiveRun
the third call overlaps two that were left behind. In ClaimReview the aggregates share
positional names and a sample, which is what makes an alias ambiguous; packets use
every kind of name, one names nothing, one names a sample by its own identifier (the
only name under which a sample captured live is known) and one invents its evidence. `MaxPerMessage`
is the code's own 10.

Deadlock is not checked where the system may stop: a settled review, a finished run, a
service with no process left. LiveRun is checked for it: the user can always act.
RunEvents and SearchCache have no run: what is stated about them is proved.

Each property has a mutant in `PROJECT.json`: a variant of one mapped definition
with a plausible mistake, under which the same run finds the property violated.
The variants are marked `Variant:` beside the definitions they replace.

## 4. Fairness

*ReviewWorkflow.* `run_forever` loops until stopped and catches exceptions, so a
live worker keeps taking steps (`WF(WorkerStep(w))`). A stopped service is
started again (`WF(\E w : Start(w))`): the crash gates in `scripts/` kill a worker
process at each stage and start another, and
`Crash` is only possible while another identity is left to start. Time passes, so
the lease of a workflow nobody works on expires. Nothing is assumed of clients,
of leases under a working holder, or of faults.

*RunLifecycle.* The event loop runs ready continuations, a thread finishes its
transaction, and the timer of `wait_for` fires. The agent is not assumed to return.

*LiveRun.* The browser fires the timers of the deadline and of the poll interval and
rejects a request that was aborted. Of backends nothing is assumed, of users neither:
`RunSettles` is about `runGoldenPath`, whose deadline covers every request. A health check
has none, and nothing is claimed of it.

SchemaMigration, ReviewClient, ClaimReview, RunEvents and SearchCache state no
liveness and no fairness.

## 5. Proofs

All theorems hold for every value of the constants that satisfies the stated
assumptions (`StoreAssumption`, `WorkflowAssumption`, `LifecycleAssumption`,
`ResultAssumption`, `VerificationAssumption`, `ClientAssumption`, `ReviewAssumption`,
`MigrationAssumption`, `LiveRunAssumption`; TLC evaluates each): any set of workers,
decisions, runs, reviewers, calls, connections or evidence, any limits and bounds. Some
theorems assume more, and say so in their statement or here:

- `EndedRunsAreTerminal` that evidence does not repeat a fingerprint (finding 2);
- `RepetitionsAreReplays` that no reviewer chooses an identity that the client derives by
  hashing another decision;
- `BestPacketIsKept` that no aggregate has more samples than a message yields;
- those about RunEvents that every call has a run and that `NoSocket` is no socket.

Those about SearchCache and SchemaMigration assume nothing more. The exception for a backup
that fails half-way (finding 3) is part of `FailureRestores` and `CommittedRunsSurvive`, not an
assumption.

**The store.** *ReviewStoreProofs* proves that every transaction preserves types, facts
about the operators (what adoption returns, what a transaction can change, that a
publication keeps its snapshot and stops being current only by a verification), and that `StoreInvariant` is inductive over
`StoreNext`: any transaction called by anyone with any arguments. None of the store's
properties is inductive alone. That a decision stays fresh needs that at most one review is
unfinished; that needs that only the newest publication is current; that needs that
revisions are published in order and that an unpublished revision has no workflow.
`StoreInvariant` is the conjunction of those facts (module ReviewInvariant) and TLC checks
it in ReviewRevisions. Its `OriginRows` and `SupersededRows` say where a review came from
and what withdrew it, which the contract needs.

**The workflow.** *ReviewWorkflowProofs* shows that every workflow step is a store step or
leaves the store alone (`StoreStep`), and carries the results over. The gate property needs
one more fact, that a worker about to resume holds the decision of the workflow it
claimed; `WaitingHasCheckpoint` needs `CheckpointRows`: while nothing has failed, a thread
exists also for the worker about to confirm it and for the reconciler that read it as
waiting. `WorkflowImplementsContract` is the refinement:
initial states map to initial states, and each transaction maps to a step of
ReviewContract or to a stutter. What the mapping reads off the rows changes only as
`StoreInvariant` allows, so each transaction is one case, and the steps of workers,
gate and time between transactions stutter.

**Delivery.** *DeliveryProofs* covers what readers and verifiers rely on.
EvidenceVerification rests on `ShotRows`: a snapshot is behind the log exactly when, for some
item, it shows an older revision than the log holds. Revisions only grow, so two
different numbers of decisions never show the same projection, and the hash of the projection may
stand for the count. RunResult rests on `ReadRows`: as long as the run keeps the version of
the first SELECT, what was read since is what the tables still hold. That needs that
each transaction which changes the run row, or the current publication of a run that is
ready, bumps the version (`ReadyStep`; adopting the baseline as it was approved is the one
exception), and that a publication always has an artifact (`ArtifactRows`).

**The client.** *ReviewClientProofs* uses `ClientInvariant`. A command is several requests,
and the invariant says what stays true between them: a request under way carries an
identity made from its content or of the reviewer's own (`PostRows`), an accepted decision is
the only one of its review (`AcceptedRows`), and a review on display keeps the evidence
it was shown with until its publication is stale (`ShownRow`). Then a post is accepted
only for what was shown, and a verdict reported at the end is the one given.

**Research.** *ResearchProofs* covers searches and outcomes. `SearchInv` says that everything in the
shared cache was found, and that a call about to remember an error belongs to a run in
which a search failed. `ClaimInvariant` says that names stand for declared samples
(`AccumulatorRows`), that nothing is stored before the end (`RunRows`), and that a current
bundle names just what a reviewer has to look at now (`BundleRows`): a run that is ready
without an approval therefore has an empty set of triggers, and an empty set leaves only
stored references and verified claims (`TriggersOf`). The selection of a packet is a CHOOSE of the
last usable position of a sequence; that there is one is proved by the smallest element of a set of
numbers (`SmallestOf`, from the well-foundedness of `<`), without the induction theorems that
take an operator.

**The run.** *RunLifecycleProofs* uses `LifecycleInv`: the version determines how far the row
got (0 pending, 1 running, 2 terminal), and a writer has applied exactly when it is 2.
`SettleInv` adds what each stage of the task knows of the row while no database error
occurred: that a failure handler which lost its race finds the row already terminal is
what makes `EndedRunIsTerminal` inductive, and it needs evidence that can be inserted.
`FollowsPlan` says that a terminal row is what one of the plans stores.

**The migration.** *SchemaMigrationProofs*: `MigrationInv` says of each `pc` what the
database is as a function of the one the call found (`before`, `WithOrigins(before)`, or
migrated), and what a backup the handlers may still restore holds: `before`, or nothing
while it is unfinished. Without the clause about the backup `FailureRestores` is not
inductive: the file could hold anything. That an unfinished backup meets only an
unchanged database follows from where `backup_database` is called, outside the inner try.
`KnownRuns` says that a run which a restore took away is not mistaken for a new one.
`Sound` says what a publication and its run tell each other; it holds of each database reached, the
empty one included. `RunsSurvive` follows from the two: every step but a restore
keeps the rows of a run, and every restore but that of `UnfinishedBackup` writes `before`,
which has the same runs.

**The console.** *ConsoleProofs*: `ConsoleInv` ties the view to the newest call: while that
goes on, the view shows its backend, its run and its stage (`NewestIsShown`), and a call's
run was made by the backend it asks (`CallKnows`). Calls left behind need no invariant
about the view: every return of theirs finds its version outdated. `EventsInv` counts for
each callback of the event loop the turns until its event is sent (`Turns`): of two callbacks of one call, that
of the earlier event needs fewer turns, or as many and stands before the other
(`InOrder`). Each turn of the loop preserves this, which is why an event that goes through two
turns is never overtaken by the result that goes through three. `Registered` does the
same for connections.

| Theorem | Property |
|---|---|
| ReviewWorkflowProofs!TypeCorrect | TypeOK |
| DeliveryIsAuthorized | DeliveryAuthorized |
| DecisionsStayFresh | DecisionStaysFresh |
| ResolutionsMatchDecisions | ResolutionMatchesDecision |
| LeasesHaveOpenAttempts | LeaseHasOpenAttempt |
| TerminalStaysFinal | TerminalIsFinal |
| StaleStaysHistory | StaleIsHistory |
| ResolutionsUnderLease | ResolvedUnderLease |
| GateFollowsDecision | GateHoldsAcceptedDecision |
| TablesStayCoherent | StoreInvariant |
| WaitingThreadsExist | WaitingHasCheckpoint |
| WorkflowImplementsContract | ImplementsContract |
| DeliveryProofs!VerificationTyped | TypeOK |
| CountStandsForHash | SnapshotIdentifiesLedger |
| AnswersAreRecorded | AnswerMatchesLedger |
| DeliveryFollowsVerdicts | DeliveredShowsNewestVerdicts |
| OnlyVerdictsWithdraw | WithdrawnByNewVerdict |
| ReadsAreTyped | ResultTypeOK, stated in RunResult, no run |
| VersionFencesReads | UnchangedVersionDelivers |
| ReviewClientProofs!VerdictsAreOwn | ReportsOwnVerdict |
| DecidesTheShownEvidence | DecidesWhatWasShown |
| RepetitionsAreReplays | RepetitionIsNoConflict |
| ResearchProofs!OnlySamplesGoUnreviewed | UnreviewedRestsOnSamples |
| RejectionsAreShown | RejectionIsShown |
| OutcomesAreUsable | OutcomeIsUsable |
| BestPacketIsKept | UsablePacketIsKept |
| AnswersStayRemembered, ErrorsStay | stated in SearchCache, no run |
| RunLifecycleProofs!TypeCorrect | TypeOK |
| TerminalRunStaysFinal | TerminalRunIsFinal |
| OneWriterFinishesRun | OneWriterFinishes |
| EndedRunsAreTerminal | EndedRunIsTerminal |
| RunsAreHandedOver | HandsOverToReview |
| SchemaMigrationProofs!FailuresRestore | FailureRestores |
| RunsSurvive | CommittedRunsSurvive |
| PublicationsMatch | PublicationsMatchRuns |
| SnapshotsAreBaselines, ChangedRunsAreVersioned, BackupsAreImmutable | stated in SchemaMigration, no run |
| ConsoleProofs!ShownStaysTogether | ShownBelongsTogether |
| TimeoutsNameRuns, ControlsComeBack, LeftCallsEnd | stated in LiveRun, no run |
| EventsStayInOrder, NewestAlwaysListens | stated in RunEvents, no run |

Model-checked only: the liveness properties (`DecisionSettles`,
`ReviewOpens`, `RunSettles` of RunLifecycle and of LiveRun) and
`ImplementsFairContract`: liveness under fairness is beyond the prover. So is
induction over data, and nothing here needs it: the models use no recursive operator.

## 6. Findings

1. **A result can be read from a publication that is not ready** (TornResult).
   `get_run` reads the run and its current publication in separate statements
   outside a transaction, and `resolve_run_result` tests only the
   `delivery_status` of the first. When a verification and its finalization commit
   between the two, the reader hands out the draft of a publication that still
   requires review, against "Only a current publication with `status=ready` is
   deliverable" (docs/reference/data-models.md). `UnchangedVersionDelivers` shows that
   comparing `state_version` before and after the reads would be enough.
2. **Repeated evidence leaves a run running for ever** (RepeatedEvidence).
   Streamed evidence is not merged, and evidence rows have a key on the
   fingerprint. A text that names one URL twice makes the normal and the failure
   write raise alike; the error of the latter is swallowed, and the task ends with
   the run still `running`, against "running --> failed: exception, timeout,
   cancellation" (docs/reference/state-machines.md). After a timeout the callback
   passes the same evidence and fails the same way.

3. **A backup that fails half-way is restored over the database** (HalfBackup).
   Connecting to the backup path creates
   the file; when the copy then fails, say on a full volume, the outer handler of
   `migrate_with_backup` (`api/run_migrations.py:354`) only asks whether the file exists, and
   copies an empty database over the original, against "restore the original DB on any
   failure" (its docstring, `api/run_migrations.py:317`). `RestoresOnAnyFailure` states that
   sentence. `FailureRestores` and `CommittedRunsSurvive`, checked and proved, say that
   nothing else goes wrong: the database lost is that of the call whose own backup was
   left unfinished (`UnfinishedBackup`), never one of a later call that finds such a file.

Behaviours noticed, of which the repository promises nothing precise:

- `TTLCache` has no lock, although its docstring calls it thread-safe: `Read`, `Drop` and
  `Evict` may raise KeyError, or meet a dictionary that changed while it was walked. The
  error ends that one search and no other (`ErrorsStay`).
- A search that outlives its run stores its answer into the memory that was cleared
  (`Keep` after `EndRun`), where nothing removes it.
- A packet with references to missing evidence is kept when there is no better one, and
  an approval delivers it with the missing reference in its bundle (ClaimReview). There
  is no better one only if each answer refers to something that is no declared sample
  (`UsablePacketIsKept`), as long as an aggregate has no more samples than a message may
  yield (10), as the one in the repository does.
- Once one aggregate was preloaded, an answer that names a source captured live, by its
  own stored identifier, counts as unresolved: `_known_evidence_ids` holds declared evidence
  only. A later answer that is worse may then be stored instead.
- `review wait` for a review that a verification superseded polls until its own deadline:
  no status it waits for can follow (ReviewClient, `Poll`).
- A health check of the console has no deadline: a backend that never answers leaves
  the controls disabled until the user switches the mode (LiveRun).
- A talent run that captured a snippet longer than 500 characters fails when its brief
  is built, although the research succeeded (ClaimReview, `Return`).

## 7. What is not modelled, and why

- The agent, the LLM, its prompts and outside services: their outcome is an
  arbitrary choice in RunLifecycle and ClaimReview. MySQL, RAGFlow and fixture tools keep no
  state of their own.
- Process death before a run is terminal leaves it unfinished; the docs say that
  the generic state machine does not resume, so `RunSettles` of RunLifecycle excepts `Stop`.
- Several processes that migrate one database at once: the supported deployment is one
  backend replica (docs/operations/controlled-review-workflow.md:5).
- Content: report text, briefs, hashes and identifiers. Where identity matters
  (snapshots, decisions, publications) an abstract identity stands for it. The
  recognition of sources in tool output and the quality report are of this kind.
- Durations, telemetry records, token counting and redaction: no decision of the program
  depends on them.
- Configuration, file and upload endpoints and paginated listings hold no shared state. The
  client's run, create, list and doctor commands print one answer. Front-end rendering,
  benchmarks, deployment and cross-origin or key checks keep no state this project is
  about.
- Scripts, among them the retirement of the legacy database, are one-off tools an
  operator runs beside a stopped service.

## 8. Plan

Done: the review and publication core, the run life cycle, the result reader, the
verification of evidence, the capture of evidence and the rules of review, the migration,
the command line and console clients, the events of a run and the search tool. Every safety property of
a run, state invariant or action property, is proved as well. Left, in this order:

1. More of the least covered code: the selection of a report in the outcome, the listing
   cursors under concurrent insertions, the client's run and create commands.
2. Theorems about more of the operators behind the properties: which request a replay
   answers, and that a reconciler's repairs commute with the worker it overtakes.
3. A second process that migrates the same database, should a deployment with more than one
   replica be supported.
