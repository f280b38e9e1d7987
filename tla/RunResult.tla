------------------------------ MODULE RunResult ------------------------------
(***************************************************************************)
(* GET /api/runs/{run_id}/result: resolve_run_result of                    *)
(* api/run_result_service.py over get_run and get_artifact of              *)
(* api/run_repository.py.  The SELECTs run one by one on an autocommit     *)
(* connection, each seeing the database of its own moment, while the       *)
(* transactions of ReviewStore commit in between.                          *)
(***************************************************************************)
EXTENDS ReviewStore

CONSTANT MaxAttempts   (* Bound: claims of one review workflow *)

ASSUME ResultAssumption == MaxAttempts \in Nat

VARIABLES
  stage,      (* how far the reader is                                       *)
  row,        (* the research_runs_v2 row it read: delivery, state_version   *)
  current,    (* the current publication it read: revision (0: none), status *)
              (* and the artifacts listed in artifact_ids_json               *)
  delivered   (* the artifact handed to the caller                           *)

readerVars == <<stage, row, current, delivered>>
resultVars == <<storeVars, readerVars>>

NoArtifact == [rev |-> 0, kind |-> "none"]
NoCurrent  == [rev |-> 0, status |-> "none", artifacts |-> {}]

ResultTypeOK ==
  /\ StoreTypeOK
  /\ stage \in {"run", "publication", "artifact", "delivered", "refused"}
  /\ row \in [delivery : {"review_required", "ready", "blocked"}, version : Nat]
  /\ current \in [rev       : 0 .. MaxRevision,
                  status    : PubStatuses,
                  artifacts : SUBSET {"draft", "reviewed"}]
  /\ delivered \in [rev  : 0 .. MaxRevision,
                    kind : {"none", "draft", "reviewed"}]

ResultInit ==
  /\ StoreInit
  /\ stage = "run"
  /\ row = [delivery |-> run.delivery, version |-> run.version]
  /\ current = NoCurrent
  /\ delivered = NoArtifact

-----------------------------------------------------------------------------

(* A later request starts over. *)
ReadRun ==
  /\ stage \in {"run", "delivered", "refused"} /\ stage' = "publication"
  /\ row' = [delivery |-> run.delivery, version |-> run.version]
  /\ delivered' = NoArtifact
  /\ UNCHANGED <<storeVars, current>>

ReadPublication ==
  /\ stage = "publication" /\ stage' = "artifact"
  /\ \/ \E r \in Revisions :
          /\ pub[r].current
          /\ current' = [rev |-> r, status |-> pub[r].status,
                         artifacts |-> pub[r].artifacts]
     \/ /\ \A r \in Revisions : ~ pub[r].current
        /\ current' = NoCurrent
  /\ UNCHANGED <<storeVars, row, delivered>>

Deliverable == row.delivery = "ready"

(* Artifact ids are listed in order, so a draft comes before the reviewed  *)
(* copy of the same brief; without a current publication the first draft   *)
(* is the fallback.                                                        *)
SelectArtifact ==
  IF current.rev # 0
  THEN [rev  |-> current.rev,
        kind |-> IF "draft" \in current.artifacts THEN "draft" ELSE "reviewed"]
  ELSE [rev |-> 1, kind |-> "draft"]

(* Artifact rows are never changed or deleted: when get_artifact reads the *)
(* content makes no difference.                                            *)
GetArtifact ==
  /\ stage = "artifact"
  /\ \/ Deliverable /\ stage' = "delivered" /\ delivered' = SelectArtifact
     \/ ~ Deliverable /\ stage' = "refused" /\ delivered' = delivered
  /\ UNCHANGED <<storeVars, row, current>>

Transaction ==
  /\ StoreNext
  /\ \A r \in Revisions : attempts'[r] <= MaxAttempts
  /\ UNCHANGED readerVars

ResultNext == ReadRun \/ ReadPublication \/ GetArtifact \/ Transaction

ResultSpec == ResultInit /\ [][ResultNext]_resultVars

-----------------------------------------------------------------------------
(* Properties.                                                             *)

(* The artifact belongs to the publication that is current and ready, or   *)
(* to the approved draft of a run that has no publications.                *)
FromReadyPublication(artifact) ==
  \/ /\ artifact.rev \in Published
     /\ pub[artifact.rev].current /\ pub[artifact.rev].status = "ready"
     /\ artifact.kind \in pub[artifact.rev].artifacts
  \/ Published = {} /\ artifact.rev = 1

(* state_version is a fence for the whole read: when the run still has the *)
(* version of the first SELECT, what is handed out comes from the ready    *)
(* publication, although the reads are not one transaction.                *)
UnchangedVersionDelivers ==
  [][stage' = "delivered" /\ stage # "delivered" /\ run.version = row.version
       => FromReadyPublication(delivered')]_resultVars

(* "Only a current publication with status=ready is deliverable": the      *)
(* publication whose artifact is handed out was ready when it was read.    *)
DeliversReadyPublication ==
  stage = "delivered" => current.rev = 0 \/ current.status = "ready"
=============================================================================
