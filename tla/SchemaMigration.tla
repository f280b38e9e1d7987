--------------------------- MODULE SchemaMigration ---------------------------
(***************************************************************************)
(* The publication migration: migrate_with_backup of api/run_migrations.py *)
(* around migrate_publication_with_backup of api/publication_repository.py, *)
(* as called at startup (lifespan of api/server.py) and by                 *)
(* scripts/run_identity_migration.py, each with a backup path of its own.  *)
(* One process at a time: the repository supports one backend replica.     *)
(* It may die, fail and be started again between any two commits.          *)
(*                                                                         *)
(* db is the committed content of the application database: the migration  *)
(* markers, what a run's rows say to the migration, and the publications.  *)
(* What a serving process does to those rows afterwards is ReviewStore's;  *)
(* here it only adds the rows of new runs.                                 *)
(***************************************************************************)
EXTENDS Naturals

CONSTANTS
  OldRuns,        (* runs that may be in the database at first               *)
  NewRuns,        (* runs a serving process finishes later                   *)
  MaxStarts       (* Bound: starts of the server and of the script           *)

ASSUME MigrationAssumption ==
  /\ OldRuns \cap NewRuns = {}
  /\ MaxStarts \in Nat

VARIABLES
  db,         (* the application database                                    *)
  backup,     (* the backup file of each caller: {} or {what it contains}    *)
  pc,         (* where the process is                                        *)
  task,       (* its locals: caller, backup_existed and marker_was_applied   *)
  before,     (* history: the database when the migration was called         *)
  accepted,   (* history: the runs whose rows were ever committed            *)
  starts

vars == <<db, backup, pc, task, before, accepted, starts>>

Runs    == OldRuns \cup NewRuns
Callers == {"server", "script"}
Marks   == {"verification", "publication"}

Supersedable == {"checkpoint_pending", "waiting_decision", "resume_pending",
                 "resuming", "resolution_pending"}

(* The review of a finished run, as revision 1 can have left it. *)
Review(bundle, workflow, resolution, delivery) ==
  [bundle |-> bundle, workflow |-> workflow, resolution |-> resolution,
   delivery |-> delivery]

NoReview == Review("none", "none", "none", "ready")
Waived   == Review("not_required", "none", "none", "ready")
Open(w)  == Review("required", w, "none", "review_required")
Approved == Review("resolved", "approved", "approve", "ready")
Rejected == Review("resolved", "rejected", "reject", "blocked")

Reviews == {NoReview, Waived, Approved, Rejected}
             \cup {Open(w) : w \in Supersedable \cup {"manual_recovery"}}

ReviewType ==
  [bundle     : {"none", "not_required", "required", "resolved"},
   workflow   : Supersedable \cup {"none", "approved", "rejected",
                                   "manual_recovery", "superseded"},
   resolution : {"none", "approve", "reject"},
   delivery   : {"ready", "review_required", "blocked"}]

(* fixture: the evidence is verified and its scope is aggregate only;      *)
(* origin: baseline_verification_origin; decided: a human verification     *)
(* decision exists; version: how often the migration raised state_version. *)
RowType == [present : BOOLEAN, review : ReviewType, fixture : BOOLEAN,
            origin : {"none", "declared_fixture"}, decided : BOOLEAN, version : Nat]

NoRow == [present |-> FALSE, review |-> NoReview, fixture |-> FALSE,
          origin |-> "none", decided |-> FALSE, version |-> 0]

PublicationType == [status  : {"none", "stale", "ready", "blocked", "review_required"},
                    current : BOOLEAN,
                    shot    : {"none", "verified", "unverified"}]

NoPublication == [status |-> "none", current |-> FALSE, shot |-> "none"]

Database == [marks : SUBSET Marks, row : [Runs -> RowType],
             pub : [Runs -> PublicationType]]

(* A SQLite file without pages. *)
EmptyDatabase == [marks |-> {}, row |-> [r \in Runs |-> NoRow],
                  pub |-> [r \in Runs |-> NoPublication]]

Idle == [caller |-> "server", enabled |-> FALSE, backupExisted |-> FALSE,
         markerSeen |-> FALSE]

TypeOK ==
  /\ db \in Database
  /\ before \in Database
  /\ backup \in [Callers -> SUBSET Database]
  /\ pc \in {"down", "deciding", "backing", "migrating", "applying", "verifying",
             "raised", "verifyingRun", "unwinding", "failed", "readiness",
             "serving", "notReady"}
  /\ task \in [caller : Callers, enabled : BOOLEAN, backupExisted : BOOLEAN,
               markerSeen : BOOLEAN]
  /\ accepted \in SUBSET Runs
  /\ starts \in 0 .. MaxStarts

(* Rows of an earlier release: its fixtures carry their origin only if it  *)
(* had the verification schema, without which nothing was decided either.  *)
OldRows(marks) ==
  {row \in [present : {TRUE}, review : Reviews, fixture : BOOLEAN,
            origin : {"none", "declared_fixture"}, decided : BOOLEAN, version : {0}] :
     /\ row.origin = "declared_fixture" <=> row.fixture /\ "verification" \in marks
     /\ row.decided => "verification" \in marks /\ row.review # NoReview}

Init ==
  /\ \E marks \in {{}, {"verification"}} :
       \E old \in [OldRuns -> OldRows(marks)] :
         db = [EmptyDatabase EXCEPT
                 !.marks = marks,
                 !.row = [r \in Runs |-> IF r \in OldRuns THEN old[r] ELSE NoRow]]
  /\ before = db
  /\ accepted = OldRuns
  /\ backup = [c \in Callers |-> {}]
  /\ pc = "down"
  /\ task = Idle
  /\ starts = 0

-----------------------------------------------------------------------------
(* What the migration makes of a database.                                 *)

(* init_evidence_verification_schema: the origin is filled in once, under  *)
(* the marker of its own migration.                                        *)
WithOrigins(d) ==
  IF "verification" \in d.marks THEN d
  ELSE [d EXCEPT
          !.marks = @ \cup {"verification"},
          !.row = [r \in Runs |->
                     IF d.row[r].fixture
                     THEN [d.row[r] EXCEPT !.origin = "declared_fixture"]
                     ELSE d.row[r]]]

(* Variant: human decisions are not asked for. *)
StatusIgnoringDecisions(row) ==
  CASE row.review.bundle = "not_required" /\ row.review.delivery = "ready" -> "ready"
    [] row.review.resolution = "approve" /\ row.review.delivery = "ready" -> "ready"
    [] row.review.resolution = "reject" \/ row.review.delivery = "blocked" -> "blocked"
    [] OTHER -> "review_required"

(* _publication_status, its tests in order. *)
PublicationStatus(row) ==
  CASE row.decided -> "stale"
    [] ~ row.decided /\ row.review.delivery = "ready"
         /\ (row.review.bundle = "not_required" \/ row.review.resolution = "approve") -> "ready"
    [] ~ row.decided
         /\ (row.review.resolution = "reject" \/ row.review.delivery = "blocked") -> "blocked"
    [] OTHER -> "review_required"

(* The snapshot is of the baseline, whatever was decided since. *)
Publication(row) ==
  [status  |-> PublicationStatus(row),
   current |-> PublicationStatus(row) # "stale",
   shot    |-> IF row.origin = "declared_fixture" THEN "verified" ELSE "unverified"]

(* A run with human decisions has to be reviewed anew. *)
WithdrawnReview(review) ==
  [review EXCEPT !.delivery = "review_required",
                 !.workflow = IF @ \in Supersedable THEN "superseded" ELSE @]

Withdrawn(row) == [row EXCEPT !.review = WithdrawnReview(@), !.version = @ + 1]

(* The runs _backfill_publications selects have a bundle and a brief. *)
Selected(row) == row.present /\ row.review.bundle # "none"

(* The transaction of _apply_publication_migration. *)
WithPublications(d) ==
  [d EXCEPT
     !.marks = @ \cup {"publication"},
     !.pub = [r \in Runs |-> IF Selected(d.row[r]) THEN Publication(d.row[r])
                             ELSE d.pub[r]],
     !.row = [r \in Runs |-> IF Selected(d.row[r]) /\ d.row[r].decided
                             THEN Withdrawn(d.row[r]) ELSE d.row[r]]]

-----------------------------------------------------------------------------
(* The steps of a process.                                                 *)

Goto(step) == pc' = step /\ UNCHANGED <<task, before, accepted, starts>>

(* The publication marker, with the checksum this release expects. *)
Marked(d) == "publication" \in d.marks

(* migrate_with_backup notes whether its backup and the marker exist.      *)
(* Between these reads and those of migrate_publication_with_backup        *)
(* nothing else runs.                                                      *)
Call(caller) ==
  /\ pc \in {"down", "failed", "notReady"} /\ starts < MaxStarts
  /\ pc' = "deciding"
  /\ task' = [caller |-> caller, enabled |-> TRUE, backupExisted |-> backup[caller] # {},
              markerSeen |-> Marked(db)]
  /\ before' = db
  /\ starts' = starts + 1
  /\ UNCHANGED <<db, backup, accepted>>

(* A start with durable review but without evidence verification. *)
StartUnmigrated ==
  /\ pc \in {"down", "failed", "notReady"} /\ starts < MaxStarts
  /\ pc' = "readiness"
  /\ task' = Idle
  /\ starts' = starts + 1
  /\ UNCHANGED <<db, backup, before, accepted>>

(* A marked database is only verified. *)
FindMarker ==
  /\ pc = "deciding" /\ Marked(db)
  /\ Goto("verifying")
  /\ UNCHANGED <<db, backup>>

MayBackUp == ~ Marked(db) /\ backup[task.caller] = {}

RefuseBackup ==
  /\ pc = "deciding" /\ ~ Marked(db) /\ backup[task.caller] # {}
  /\ Goto("unwinding")
  /\ UNCHANGED <<db, backup>>

(* Connecting to the backup path creates the file; the pages are one       *)
(* transaction, so that until they are committed it reads as empty.        *)
OpenBackup ==
  /\ pc = "deciding" /\ MayBackUp
  /\ Goto("backing")
  /\ backup' = [backup EXCEPT ![task.caller] = {EmptyDatabase}]
  /\ UNCHANGED db

FinishBackup ==
  /\ pc = "backing"
  /\ Goto("migrating")
  /\ backup' = [backup EXCEPT ![task.caller] = {db}]
  /\ UNCHANGED db

(* backup_database raises, outside the inner try: before the file exists   *)
(* (its folder, the source), or afterwards (a full or failing volume),     *)
(* which leaves the file as OpenBackup made it.                            *)
FailBackup ==
  /\ pc \in {"deciding", "backing"}
  /\ pc = "deciding" => MayBackUp
  /\ Goto("unwinding")
  /\ UNCHANGED <<db, backup>>

InitVerification ==
  /\ pc = "migrating"
  /\ db' = WithOrigins(db)
  /\ Goto("applying")
  /\ UNCHANGED backup

Apply ==
  /\ pc = "applying"
  /\ db' = WithPublications(db)
  /\ Goto("verifying")
  /\ UNCHANGED backup

(* Any exception before verify_publication_schema has returned.  Only a    *)
(* process that took the backup is inside the try that restores it.        *)
Raise ==
  /\ pc \in {"migrating", "applying", "verifying"}
  /\ Goto(IF task.markerSeen THEN "unwinding" ELSE "raised")
  /\ UNCHANGED <<db, backup>>

RestoreInner ==
  /\ pc = "raised"
  /\ db' \in backup[task.caller]
  /\ Goto("unwinding")
  /\ UNCHANGED backup

(* restore_database raises in the inner handler, and nothing was restored. *)
FailRestoreInner ==
  /\ pc = "raised"
  /\ Goto("unwinding")
  /\ UNCHANGED <<db, backup>>

(* verify_publication_schema, then verify_run_schema, see the markers they *)
(* expect; the tables, columns and indexes come with them.                 *)
VerifyPublication ==
  /\ pc = "verifying" /\ Marked(db)
  /\ Goto("verifyingRun")
  /\ UNCHANGED <<db, backup>>

VerifyRun ==
  /\ pc = "verifyingRun" /\ Marks \subseteq db.marks
  /\ Goto(IF task.caller = "server" THEN "readiness" ELSE "down")
  /\ UNCHANGED <<db, backup>>

FailVerifyRun ==
  /\ pc = "verifyingRun"
  /\ Goto("unwinding")
  /\ UNCHANGED <<db, backup>>

(* Variants: any backup is restored; a marked database is kept. *)
RestoresIfFile == ~ task.markerSeen /\ backup[task.caller] # {}

RestoresIfUnmarked ==
  ~ Marked(db) /\ ~ task.backupExisted /\ backup[task.caller] # {}

(* The condition of the outer handler. *)
Restores ==
  ~ task.markerSeen /\ ~ task.backupExisted /\ backup[task.caller] # {}

Unwind ==
  /\ pc = "unwinding"
  /\ IF Restores THEN db' \in backup[task.caller] ELSE db' = db
  /\ Goto("failed")
  /\ UNCHANGED backup

(* check_review_readiness and check_evidence_verification_readiness may    *)
(* fail for other reasons: the checkpoint database, the gate report.       *)
Serve ==
  /\ pc = "readiness"
  /\ task.enabled => Marks \subseteq db.marks
  /\ Goto("serving")
  /\ UNCHANGED <<db, backup>>

RefuseToServe ==
  /\ pc = "readiness"
  /\ Goto("notReady")
  /\ UNCHANGED <<db, backup>>

(* A run finishes; its identifier was never used.  Its publication is      *)
(* adopted later, by ReviewStore.                                          *)
FinishRun(r) ==
  /\ pc = "serving" /\ r \notin accepted
  /\ \E review \in {NoReview, Waived, Open("checkpoint_pending")}, fixture \in BOOLEAN :
       db' = [db EXCEPT !.row[r] =
                [present |-> TRUE, review |-> review, fixture |-> fixture,
                 origin |-> IF fixture THEN "declared_fixture" ELSE "none",
                 decided |-> FALSE, version |-> 0]]
  /\ accepted' = accepted \cup {r}
  /\ UNCHANGED <<backup, pc, task, before, starts>>

(* The process ends, by a stop, by dying at any step, or with the error of *)
(* a restore that failed in the outer handler.  Uncommitted pages of the   *)
(* database or of a backup are rolled back when it is next opened.         *)
Stop ==
  /\ pc \notin {"down", "failed", "notReady"}
  /\ Goto("down")
  /\ UNCHANGED <<db, backup>>

(* An operator who found the database authoritative moves a backup away.   *)
RemoveBackup(caller) ==
  /\ pc \in {"down", "failed", "notReady"}
  /\ ~ Marked(db) /\ backup[caller] # {}
  /\ backup' = [backup EXCEPT ![caller] = {}]
  /\ UNCHANGED <<db, pc, task, before, accepted, starts>>

Next ==
  \/ \E caller \in Callers : Call(caller) \/ RemoveBackup(caller)
  \/ StartUnmigrated \/ FindMarker \/ RefuseBackup
  \/ OpenBackup \/ FinishBackup \/ FailBackup
  \/ InitVerification \/ Apply \/ Raise \/ RestoreInner \/ FailRestoreInner
  \/ VerifyPublication \/ VerifyRun \/ FailVerifyRun \/ Unwind
  \/ Serve \/ RefuseToServe \/ Stop
  \/ \E r \in NewRuns : FinishRun(r)

Spec == Init /\ [][Next]_vars

-----------------------------------------------------------------------------
(* Properties.                                                             *)

(* The backup that this call began holds none of the database's pages (or  *)
(* all of one that has none): backup_database failed on it.                *)
UnfinishedBackup ==
  ~ task.markerSeen /\ ~ task.backupExisted /\ backup[task.caller] = {EmptyDatabase}

(* A migration that fails leaves the database as it found it, through both *)
(* handlers of migrate_with_backup, unless what failed was the backup, and *)
(* then it may only be the unfinished backup that was restored.            *)
FailureRestores ==
  [][pc # "failed" /\ pc' = "failed"
       => db' = before \/ (UnfinishedBackup /\ db' = EmptyDatabase)]_vars

(* The same without exception: "restore the original DB on any failure",   *)
(* as the docstring of migrate_with_backup says.                           *)
RestoresOnAnyFailure == pc = "failed" => db = before

(* Only a call whose own backup is unfinished takes a committed run out of *)
(* the database: a backup left by an earlier attempt, finished or not, is  *)
(* never restored over the runs committed since.                           *)
CommittedRunsSurvive ==
  [][\A r \in Runs :
       db.row[r].present /\ ~ db'.row[r].present => pc = "unwinding" /\ UnfinishedBackup]_vars

(* A finished backup is never written again (the operations guide calls it *)
(* immutable); only an operator takes it away.                             *)
BackupIsImmutable ==
  [][\A c \in Callers : pc # "backing" /\ backup[c] # {} => backup'[c] \in {backup[c], {}}]_vars

(* What the backfill says of a run agrees with the run: deliverable if and *)
(* only if its current publication is, and otherwise, where verification   *)
(* decisions overtook revision 1, withdrawn with no workflow left that     *)
(* would resolve it.                                                       *)
PublicationsMatchRuns ==
  \A r \in Runs :
    LET pub == db.pub[r]  review == db.row[r].review IN
    pub.status # "none" =>
      /\ review.delivery = "ready" <=> pub.status = "ready"
      /\ pub.current <=> pub.status # "stale"
      /\ pub.status = "stale" => review.workflow \notin Supersedable
      /\ db.row[r].decided => pub.status = "stale"

(* The snapshot a publication is bound to is the baseline: declared        *)
(* fixtures count as verified, other evidence never does, whether the      *)
(* origin was filled in by this start, an earlier one or an old release.   *)
SnapshotIsBaseline ==
  \A r \in Runs :
    db.pub[r].status # "none" => (db.pub[r].shot = "verified" <=> db.row[r].fixture)

(* Whoever read a run before the migration changed it is told by the       *)
(* version, on which its conditional writes depend.                        *)
ChangedRunsChangeVersion ==
  [][\A r \in Runs : db.row[r].present /\ db'.row[r].present
                     /\ db'.row[r].review # db.row[r].review
                       => db'.row[r].version # db.row[r].version]_vars

=============================================================================
