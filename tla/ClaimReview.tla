----------------------------- MODULE ClaimReview -----------------------------
(***************************************************************************)
(* What a talent run may deliver, and on what evidence.  The stream of an  *)
(* execution fills an accumulator (api/research_execution_service.py and   *)
(* agent/run_result.py), which is frozen when the execution ends, however  *)
(* it ends; the rules of api/review_service.py decide whether a reviewer   *)
(* must look at the claims first; verification of the stored evidence and  *)
(* new publications follow (api/publication_service.py).                   *)
(*                                                                         *)
(* ReviewStore takes "the bundle requires a review" as an input, and       *)
(* RunLifecycle the evidence an execution leaves: this is where they come  *)
(* from.  The concurrency of both is left to those modules.                *)
(***************************************************************************)
EXTENDS Integers, SequencesExt

CONSTANTS
  Evidence,       (* fingerprints: a source with a snippet                   *)
  Long,           (* those whose snippet exceeds a BoundedString             *)
  Aggregates,     (* the declared aggregates in the order they are preloaded *)
  Samples,        (* the samples of each, in the order of its file           *)
  Offers,         (* the packets a model may answer with                     *)
  MaxPerMessage,  (* _MAX_EVIDENCE_PER_TOOL_MESSAGE                          *)
  MaxCopies,      (* Bound: captured entries of one item                     *)
  MaxPackets,     (* Bound: streamed packets                                 *)
  MaxRevision     (* Bound: publications                                     *)

Findable  == Evidence \cup UNION {p.found : p \in Offers}
Claimable == Evidence \cup UNION {p.claimed : p \in Offers}

Packet == [found : SUBSET Findable, claimed : SUBSET Claimable, doubt : BOOLEAN]

(* A claim names a finding, and neither is without a reference. *)
ASSUME ReviewAssumption ==
  /\ Long \subseteq Evidence
  /\ Aggregates \in Seq(ToSet(Aggregates))
  /\ \A a \in ToSet(Aggregates) : Samples[a] \in Seq(Evidence)
  /\ Offers \subseteq Packet
  /\ \A p \in Offers : /\ p.claimed # {} => p.found # {}
                       /\ p.doubt => p.claimed # {}
  /\ MaxPerMessage \in Nat \ {0} /\ MaxCopies \in Nat /\ MaxPackets \in Nat
  /\ MaxRevision \in Nat \ {0}

VARIABLES
  phase,      (* of the execution                                            *)
  loaded,     (* how many aggregates were preloaded, or tried                *)
  entries,    (* evidence_entries of the accumulator: how many of each item  *)
  declared,   (* verified_evidence_ids                                       *)
  aliases,    (* evidence_aliases: what a name in a packet stands for        *)
  packets,    (* research_packets                                            *)
  run,        (* execution_status and delivery_status of the row             *)
  ledger,     (* the stored evidence; declared items are verified            *)
  stored,     (* the stored packet                                           *)
  verdict,    (* the newest human verdict on each item                       *)
  bundle,     (* revision, triggers and currency of the newest publication   *)
  approved    (* history: a reviewer approved that publication               *)

capture == <<phase, loaded, entries, declared, aliases, packets>>
vars == <<capture, run, ledger, stored, verdict, bundle, approved>>

Names == UNION {p.found \cup p.claimed : p \in Offers}
NoPacket == [found |-> {}, claimed |-> {}, doubt |-> FALSE]
Nothing == [item \in Evidence |-> "absent"]

TypeOK ==
  /\ phase \in {"preload", "stream", "ended"}
  /\ loaded \in 0 .. Len(Aggregates)
  /\ entries \in [Evidence -> Nat]
  /\ declared \in SUBSET Evidence
  /\ aliases \in [Names -> SUBSET Evidence]
  /\ packets \in Seq(Offers)
  /\ run \in [status : {"running", "failed", "completed"},
              delivery : {"pending", "failed", "ready", "review_required", "blocked"}]
  /\ ledger \in [Evidence -> {"absent", "captured", "declared"}]
  /\ stored \in Packet
  /\ verdict \in [Evidence -> {"none", "verify", "reject"}]
  /\ bundle \in [revision : 0 .. MaxRevision, current : BOOLEAN,
                 triggers : SUBSET {"missing", "doubt", "unverified", "changed"}]
  /\ approved \in BOOLEAN

Init ==
  /\ phase = "preload" /\ loaded = 0 /\ declared = {}
  /\ entries = [item \in Evidence |-> 0]
  /\ aliases = [n \in Names |-> {}] /\ packets = <<>>
  /\ run = [status |-> "running", delivery |-> "pending"]
  /\ ledger = Nothing /\ stored = NoPacket
  /\ verdict = [item \in Evidence |-> "none"]
  /\ bundle = [revision |-> 0, current |-> FALSE, triggers |-> {}]
  /\ approved = FALSE

-----------------------------------------------------------------------------
(* The stream.                                                             *)

(* A sample goes by its own identifiers (its evidence_id, sample_id and    *)
(* URL, for which the item stands), its position, and its aggregate's id.  *)
NamedBy(n, a, i) == n \in {Samples[a][i], i, a}

Captured == {item \in Evidence : entries[item] > 0}

(* merge_evidence_entries of what there is and the entries of one message. *)
Merge(items) == entries' = [item \in Evidence |-> IF item \in Captured \cup items THEN 1 ELSE 0]

(* One turn of _preload_declared_aggregate_evidence. *)
Preload ==
  LET a == Aggregates[loaded + 1]
  IN  /\ phase = "preload" /\ loaded < Len(Aggregates)
      /\ Merge({Samples[a][i] : i \in {j \in DOMAIN Samples[a] : j <= MaxPerMessage}})
      /\ declared' = declared \cup ToSet(Samples[a])
      /\ aliases' = [n \in Names |->
           aliases[n] \cup {Samples[a][i] : i \in {j \in DOMAIN Samples[a] : NamedBy(n, a, j)}}]
      /\ loaded' = loaded + 1
      /\ UNCHANGED <<phase, packets, run, ledger, stored, verdict, bundle, approved>>

(* The provider is disabled, or refuses the aggregate: only a diagnostic. *)
PreloadFails ==
  /\ phase = "preload" /\ loaded < Len(Aggregates)
  /\ loaded' = loaded + 1
  /\ UNCHANGED <<phase, entries, declared, aliases, packets,
                 run, ledger, stored, verdict, bundle, approved>>

Stream ==
  /\ phase = "preload" /\ loaded = Len(Aggregates)
  /\ phase' = "stream"
  /\ UNCHANGED <<loaded, entries, declared, aliases, packets,
                 run, ledger, stored, verdict, bundle, approved>>

(* A tool message with a source: entries are extended, never merged. *)
CaptureEntry(item) ==
  /\ phase = "stream" /\ entries[item] < MaxCopies
  /\ entries' = [entries EXCEPT ![item] = @ + 1]
  /\ UNCHANGED <<phase, loaded, declared, aliases, packets,
                 run, ledger, stored, verdict, bundle, approved>>

(* A structured response, or the answer of a task; one that is no          *)
(* ResearchPacket leaves a diagnostic only.                                *)
CapturePacket(p) ==
  /\ phase = "stream" /\ Len(packets) < MaxPackets
  /\ packets' = Append(packets, p)
  /\ UNCHANGED <<phase, loaded, entries, declared, aliases,
                 run, ledger, stored, verdict, bundle, approved>>

-----------------------------------------------------------------------------
(* The frozen outcome.                                                     *)

Expanded(refs) ==
  UNION {IF n \in Names /\ aliases[n] # {} THEN aliases[n] ELSE {n} : n \in refs}

Normalized(p) == [p EXCEPT !.found = Expanded(@), !.claimed = Expanded(@)]

Known == declared \cup UNION {aliases[n] : n \in Names}

Resolved(p) == Expanded(p.found \cup p.claimed) \subseteq Known

(* Variant: the last answer counts. *)
LastPacket == IF packets = <<>> THEN NoPacket ELSE Normalized(Last(packets))

(* _resolve_talent_packets: the latest whose references resolve, or else,  *)
(* and without any known evidence, the last.                               *)
Selected ==
  LET usable == {n \in DOMAIN packets : Resolved(packets[n])}
  IN  IF packets = <<>> THEN NoPacket
      ELSE IF Known = {} \/ usable = {} THEN Normalized(Last(packets))
      ELSE Normalized(packets[CHOOSE n \in usable : \A m \in usable : m <= n])

(* _mark_declared_fixture_evidence, and the rows stored from it. *)
Marked ==
  [item \in Evidence |->
     IF item \notin Captured THEN "absent"
     ELSE IF item \in declared THEN "declared" ELSE "captured"]

(* The rows of a run have one entry per fingerprint: otherwise no writer   *)
(* can finish it, and it stays running.                                    *)
Storable == \A item \in Evidence : entries[item] <= 1

(* build_talent_artifacts takes every snippet into an EvidenceSnapshot. *)
Builds(p, rows) == \A item \in Long : rows[item] = "absent"

-----------------------------------------------------------------------------
(* Review rules.                                                           *)

InLedger(rows) == {item \in Evidence : rows[item] # "absent"}

(* Variant: a declared fixture stays verified whatever a human says. *)
VerifiedByDeclaration(rows, human) ==
  {item \in InLedger(rows) : rows[item] = "declared" \/ human[item] = "verify"}

(* The newest human verdict, or else the baseline; rejected is unverified. *)
Verified(rows, human) ==
  {item \in InLedger(rows) :
     human[item] = "verify" \/ (human[item] = "none" /\ rows[item] = "declared")}

(* Variant: only claims must be founded. *)
TriggersOfClaims(p, rows, verified, revision) ==
     {t \in {"missing"} : ~ (p.claimed \subseteq InLedger(rows))}
  \cup {t \in {"doubt"} : p.doubt}
  \cup {t \in {"unverified"} : ~ (p.claimed \cap InLedger(rows) \subseteq verified)}
  \cup {t \in {"changed"} : revision > 1}

(* build_review_bundle: a reference outside the ledger, a claim of low     *)
(* confidence or with conflicting sources, a claim on unverified evidence; *)
(* a later revision is always reviewed.                                    *)
Triggers(p, rows, verified, revision) ==
     {t \in {"missing"} : ~ (p.found \cup p.claimed \subseteq InLedger(rows))}
  \cup {t \in {"doubt"} : p.doubt}
  \cup {t \in {"unverified"} : ~ (p.claimed \cap InLedger(rows) \subseteq verified)}
  \cup {t \in {"changed"} : revision > 1}

Publish(p, rows, verified, revision) ==
  bundle' = [revision |-> revision, current |-> TRUE,
             triggers |-> Triggers(p, rows, verified, revision)]

-----------------------------------------------------------------------------
(* How an execution ends.                                                  *)

(* Variant: a failing run keeps no evidence of a broken-off stream. *)
FailWithoutEvidence(p) ==
  /\ run' = [status |-> "failed", delivery |-> "failed"]
  /\ ledger' = IF packets = <<>> THEN Nothing ELSE Marked
  /\ stored' = p /\ UNCHANGED bundle

Fail(p) ==
  /\ run' = [status |-> "failed", delivery |-> "failed"]
  /\ ledger' = Marked /\ stored' = p /\ UNCHANGED bundle

Complete ==
  /\ Publish(Selected, Marked, Verified(Marked, verdict), 1)
  /\ run' = [status |-> "completed",
             delivery |-> IF bundle'.triggers = {} THEN "ready" ELSE "review_required"]
  /\ ledger' = Marked /\ stored' = Selected

(* The harness returned: without a packet the outcome is a failure, and    *)
(* when the brief cannot be built the failure handler stores the evidence. *)
Returns ==
  IF packets = <<>> \/ ~ Builds(Selected, Marked) THEN Fail(NoPacket) ELSE Complete

End ==
  /\ phase' = "ended"
  /\ UNCHANGED <<loaded, entries, declared, aliases, packets, verdict, approved>>

Return == phase = "stream" /\ Storable /\ End /\ Returns

(* A spent budget or recursion limit: an outcome with a failure_kind, and  *)
(* its packets are stored.                                                 *)
ExceedBudget == phase = "stream" /\ Storable /\ End /\ Fail(Selected)

(* Cancellation or any other exception, at any time: the handler stores    *)
(* the evidence of the outcome box.                                        *)
Break == phase # "ended" /\ Storable /\ End /\ Fail(NoPacket)

Stuck ==
  /\ phase # "ended" /\ ~ Storable
  /\ End /\ UNCHANGED <<run, ledger, stored, bundle>>

-----------------------------------------------------------------------------
(* Afterwards.                                                             *)

(* A reviewer decides on the current publication, and the decision is      *)
(* resolved.                                                               *)
Review(action) ==
  /\ bundle.current /\ run.delivery = "review_required"
  /\ run' = [run EXCEPT !.delivery = IF action = "approve" THEN "ready" ELSE "blocked"]
  /\ approved' = (action = "approve")
  /\ UNCHANGED <<capture, ledger, stored, verdict, bundle>>

(* An accepted verification decision withdraws the current publication.    *)
Decide(item, v) ==
  /\ run.status = "completed" /\ ledger[item] # "absent"
  /\ bundle.revision < MaxRevision
  /\ verdict' = [verdict EXCEPT ![item] = v]
  /\ bundle' = [bundle EXCEPT !.current = FALSE]
  /\ run' = [run EXCEPT !.delivery = "review_required"]
  /\ approved' = FALSE
  /\ UNCHANGED <<capture, ledger, stored>>

(* build_publication_artifacts with the new snapshot. *)
Finalize ==
  /\ run.status = "completed" /\ ~ bundle.current
  /\ Builds(stored, ledger)
  /\ Publish(stored, ledger, Verified(ledger, verdict), bundle.revision + 1)
  /\ UNCHANGED <<capture, run, ledger, stored, verdict, approved>>

Next ==
  \/ Preload \/ PreloadFails \/ Stream
  \/ \E item \in Evidence : CaptureEntry(item)
  \/ \E p \in Offers : CapturePacket(p)
  \/ Return \/ ExceedBudget \/ Break \/ Stuck
  \/ \E action \in {"approve", "reject"} : Review(action)
  \/ \E item \in Evidence, v \in {"verify", "reject"} : Decide(item, v)
  \/ Finalize

Spec == Init /\ [][Next]_vars

-----------------------------------------------------------------------------
(* Properties.                                                             *)

Refs(p) == p.found \cup p.claimed

(* What is delivered without a reviewer refers to stored evidence only,    *)
(* its claims to samples that the scope declared, beyond doubt and with no *)
(* human verdict against them.                                             *)
UnreviewedRestsOnSamples ==
  run.delivery = "ready" /\ ~ approved =>
    /\ Refs(stored) \subseteq InLedger(ledger)
    /\ stored.claimed \subseteq UNION {ToSet(Samples[a]) : a \in ToSet(Aggregates)}
    /\ ~ stored.doubt
    /\ \A item \in Evidence : verdict[item] = "none"

(* A claim on evidence that a human rejected is delivered only after a     *)
(* review whose bundle named it.                                           *)
RejectionIsShown ==
  run.delivery = "ready" /\ (\E item \in stored.claimed \cap Evidence : verdict[item] = "reject")
    => approved /\ "unverified" \in bundle.triggers

(* However an execution ends, the run that stores its end stores all the   *)
(* evidence captured until then, and nothing else.                         *)
EvidenceSurvives ==
  run.status # "running" => InLedger(ledger) = Captured

(* A completed run has what its later publications are built from: the     *)
(* finalization of a snapshot never fails on its packet or its snippets.   *)
CompletedRunCanPublish ==
  run.status = "completed" => packets # <<>> /\ Builds(stored, ledger)

(* What the end of an execution leaves behind can be used. *)
OutcomeIsUsable == TypeOK /\ EvidenceSurvives /\ CompletedRunCanPublish

(* A packet with references to missing evidence is stored only if every    *)
(* answer of the model that refers to anything had a reference to          *)
(* something else than a stored sample.                                    *)
UsablePacketIsKept ==
  run.status = "completed" /\ ~ (Refs(stored) \subseteq InLedger(ledger)) =>
    \A n \in DOMAIN packets :
      Refs(packets[n]) # {} =>
        \E item \in Expanded(Refs(packets[n])) :
          item \notin {e \in Evidence : ledger[e] = "declared"}

=============================================================================
