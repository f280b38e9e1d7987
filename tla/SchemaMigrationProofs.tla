------------------------ MODULE SchemaMigrationProofs ------------------------
(* Theorems about SchemaMigration, for any database of runs, wherever and  *)
(* however often the migration fails or is interrupted.                    *)
EXTENDS SchemaMigration, TLAPS

(* What a run's rows and its publication say to each other. *)
PublicationMatches(d, r) ==
  LET pub == d.pub[r]  review == d.row[r].review IN
  pub.status # "none" =>
    /\ d.row[r].present
    /\ review.delivery = "ready" <=> pub.status = "ready"
    /\ pub.current <=> pub.status # "stale"
    /\ pub.status = "stale" => review.workflow \notin Supersedable
    /\ d.row[r].decided => pub.status = "stale"
    /\ pub.shot = "verified" <=> d.row[r].fixture

(* A database any step of the migration may meet: before the publication   *)
(* marker nothing is published and no review was withdrawn; origins are    *)
(* those of fixtures, and all of them once they have been filled in.       *)
Sound(d) ==
  /\ ~ Marked(d) => \A r \in Runs : d.pub[r].status = "none" /\ d.row[r].review \in Reviews
  /\ Marked(d) => "verification" \in d.marks
  /\ \A r \in Runs :
       /\ PublicationMatches(d, r)
       /\ d.row[r].origin = "declared_fixture" => d.row[r].fixture
       /\ d.row[r].fixture /\ "verification" \in d.marks
            => d.row[r].origin = "declared_fixture"

Migrated(d) == WithPublications(WithOrigins(d))

(* While a migration is under way its database is a function of the one it *)
(* found, and a backup it may still restore holds just that, or nothing.   *)
Mine == backup[task.caller]
TookBackup == ~ task.markerSeen /\ ~ task.backupExisted /\ Mine = {before}

StepInv ==
  /\ pc = "deciding" =>
       /\ db = before
       /\ (task.markerSeen <=> Marked(db)) /\ (task.backupExisted <=> Mine # {})
  /\ pc = "backing" => /\ db = before /\ ~ Marked(db) /\ Mine = {EmptyDatabase}
                       /\ ~ task.markerSeen /\ ~ task.backupExisted
  /\ pc = "migrating" => db = before /\ ~ Marked(db) /\ TookBackup
  /\ pc = "applying" => db = WithOrigins(before) /\ ~ Marked(before) /\ TookBackup
  /\ pc = "raised" =>
       /\ TookBackup /\ ~ Marked(before)
       /\ db \in {before, WithOrigins(before), Migrated(before)}
  /\ pc \in {"verifying", "verifyingRun"} =>
       \/ task.markerSeen /\ db = before
       \/ TookBackup /\ ~ Marked(before) /\ db = Migrated(before)
  /\ pc = "unwinding" =>
       \/ /\ db = before
          /\ task.markerSeen \/ task.backupExisted
               \/ Mine \in {{}, {before}, {EmptyDatabase}}
       \/ /\ TookBackup /\ ~ Marked(before)
          /\ db \in {WithOrigins(before), Migrated(before)}

(* No identifier of a run is used twice. *)
KnownRuns ==
  \A r \in Runs : db.row[r].present \/ before.row[r].present => r \in accepted

MigrationInv ==
  /\ TypeOK /\ StepInv /\ KnownRuns
  /\ Sound(db) /\ Sound(before)

-----------------------------------------------------------------------------
(* What the migration does to a database.                                  *)

LEMMA ReviewsAreTyped == Reviews \subseteq ReviewType
  BY DEF Reviews, ReviewType, Review, NoReview, Waived, Approved, Rejected, Open, Supersedable

LEMMA OriginsTyped ==
  ASSUME NEW d \in Database
  PROVE  /\ WithOrigins(d) \in Database
         /\ WithOrigins(d).marks = d.marks \cup {"verification"}
         /\ WithOrigins(d).pub = d.pub
         /\ \A r \in Runs :
              /\ WithOrigins(d).row[r].review = d.row[r].review
              /\ WithOrigins(d).row[r].present = d.row[r].present
              /\ WithOrigins(d).row[r].decided = d.row[r].decided
              /\ WithOrigins(d).row[r].version = d.row[r].version
              /\ WithOrigins(d).row[r].fixture = d.row[r].fixture
              /\ WithOrigins(d).row[r].origin =
                   IF "verification" \notin d.marks /\ d.row[r].fixture
                   THEN "declared_fixture" ELSE d.row[r].origin
  <1>1. CASE "verification" \in d.marks
    BY <1>1 DEF WithOrigins, Database
  <1>2. CASE "verification" \notin d.marks
    <2> DEFINE new == [r \in Runs |-> IF d.row[r].fixture
                                      THEN [d.row[r] EXCEPT !.origin = "declared_fixture"]
                                      ELSE d.row[r]]
    <2>1. WithOrigins(d) = [d EXCEPT !.marks = @ \cup {"verification"}, !.row = new]
      BY <1>2 DEF WithOrigins
    <2>2. \A r \in Runs : d.row[r] \in RowType
      BY DEF Database
    <2>3. \A r \in Runs : new[r] \in RowType
      BY <2>2 DEF RowType
    <2>4. WithOrigins(d).row = new /\ WithOrigins(d).pub = d.pub
          /\ WithOrigins(d).marks = d.marks \cup {"verification"}
      BY <2>1 DEF Database
    <2>5. WithOrigins(d) \in Database
      BY <2>1, <2>3 DEF Database, Marks
    <2>6. QED BY <1>2, <2>2, <2>4, <2>5 DEF RowType
  <1>3. QED BY <1>1, <1>2

LEMMA SoundOrigins ==
  ASSUME NEW d \in Database, Sound(d)
  PROVE  Sound(WithOrigins(d)) /\ (Marked(WithOrigins(d)) <=> Marked(d))
  <1>1. Marked(WithOrigins(d)) <=> Marked(d)
    BY OriginsTyped DEF Marked
  <1>2. \A r \in Runs : PublicationMatches(WithOrigins(d), r)
    BY OriginsTyped DEF Sound, PublicationMatches
  <1>3. QED BY <1>1, <1>2, OriginsTyped DEF Sound

LEMMA WithdrawnRow ==
  ASSUME NEW row \in RowType
  PROVE  /\ Withdrawn(row) \in RowType
         /\ Withdrawn(row).review.delivery = "review_required"
         /\ Withdrawn(row).review.workflow \notin Supersedable
         /\ Withdrawn(row).version = row.version + 1
         /\ Withdrawn(row).present = row.present
         /\ Withdrawn(row).fixture = row.fixture
         /\ Withdrawn(row).origin = row.origin
         /\ Withdrawn(row).decided = row.decided
  <1>1. row.review \in ReviewType
    BY DEF RowType
  <1>2. /\ WithdrawnReview(row.review) \in ReviewType
        /\ WithdrawnReview(row.review).delivery = "review_required"
        /\ WithdrawnReview(row.review).workflow \notin Supersedable
    BY <1>1 DEF WithdrawnReview, ReviewType, Supersedable
  <1> DEFINE reviewed == [row EXCEPT !.review = WithdrawnReview(row.review)]
  <1>3. /\ reviewed \in RowType
        /\ reviewed.review = WithdrawnReview(row.review)
        /\ reviewed.version = row.version /\ reviewed.present = row.present
        /\ reviewed.fixture = row.fixture /\ reviewed.origin = row.origin
        /\ reviewed.decided = row.decided
    BY <1>2 DEF RowType
  <1>4. Withdrawn(row) = [reviewed EXCEPT !.version = row.version + 1]
    BY DEF Withdrawn
  <1> HIDE DEF reviewed
  <1>5. QED BY <1>2, <1>3, <1>4 DEF RowType

LEMMA PublicationTyped ==
  ASSUME NEW row \in RowType
  PROVE  /\ Publication(row) \in PublicationType
         /\ Publication(row).status = PublicationStatus(row)
         /\ Publication(row).status \in {"stale", "ready", "blocked", "review_required"}
         /\ Publication(row).current <=> Publication(row).status # "stale"
         /\ Publication(row).shot = "verified" <=> row.origin = "declared_fixture"
  <1>1. PublicationStatus(row) \in {"stale", "ready", "blocked", "review_required"}
    BY DEF PublicationStatus
  <1>2. QED BY <1>1 DEF Publication, PublicationType

LEMMA StatusMatches ==
  ASSUME NEW row \in RowType, row.review \in Reviews, row.review.bundle # "none"
  PROVE  /\ PublicationStatus(row) = "stale" <=> row.decided
         /\ ~ row.decided =>
              (PublicationStatus(row) = "ready" <=> row.review.delivery = "ready")
  <1>1. row.decided \in BOOLEAN
    BY DEF RowType
  <1>2. row.review.delivery = "ready"
          => row.review.bundle = "not_required" \/ row.review.resolution = "approve"
    BY DEF Reviews, Review, NoReview, Waived, Approved, Rejected, Open
  <1>3. row.review.delivery = "ready" => row.review.resolution # "reject"
    BY DEF Reviews, Review, NoReview, Waived, Approved, Rejected, Open
  <1>4. QED BY <1>1, <1>2, <1>3 DEF PublicationStatus

LEMMA PublicationsTyped ==
  ASSUME NEW d \in Database
  PROVE  /\ WithPublications(d) \in Database
         /\ WithPublications(d).marks = d.marks \cup {"publication"}
         /\ \A r \in Runs :
              /\ WithPublications(d).pub[r] = IF Selected(d.row[r])
                                              THEN Publication(d.row[r]) ELSE d.pub[r]
              /\ WithPublications(d).row[r] = IF Selected(d.row[r]) /\ d.row[r].decided
                                              THEN Withdrawn(d.row[r]) ELSE d.row[r]
  <1> DEFINE pubs == [r \in Runs |-> IF Selected(d.row[r]) THEN Publication(d.row[r])
                                     ELSE d.pub[r]]
             rows == [r \in Runs |-> IF Selected(d.row[r]) /\ d.row[r].decided
                                     THEN Withdrawn(d.row[r]) ELSE d.row[r]]
             marks == d.marks \cup {"publication"}
  <1>1. \A r \in Runs : d.row[r] \in RowType /\ d.pub[r] \in PublicationType
    BY DEF Database
  <1>2. pubs \in [Runs -> PublicationType]
    BY <1>1, PublicationTyped
  <1>3. rows \in [Runs -> RowType]
    BY <1>1, WithdrawnRow
  <1>4. marks \in SUBSET Marks
    BY DEF Database, Marks
  <1>5. WithPublications(d) = [d EXCEPT !.marks = marks, !.pub = pubs, !.row = rows]
    BY DEF WithPublications
  <1> HIDE DEF pubs, rows, marks
  <1>6. /\ WithPublications(d) \in Database
        /\ WithPublications(d).marks = marks
        /\ WithPublications(d).row = rows
        /\ WithPublications(d).pub = pubs
    BY <1>2, <1>3, <1>4, <1>5 DEF Database
  <1>7. QED BY <1>6 DEF pubs, rows, marks

LEMMA SoundPublications ==
  ASSUME NEW d \in Database, Sound(d), ~ Marked(d), "verification" \in d.marks
  PROVE  Sound(WithPublications(d)) /\ Marked(WithPublications(d))
  <1> DEFINE new == WithPublications(d)
  <1>1. new.marks = d.marks \cup {"publication"}
    BY PublicationsTyped
  <1>2. ASSUME NEW r \in Runs
        PROVE  /\ PublicationMatches(new, r)
               /\ new.row[r].origin = "declared_fixture" => new.row[r].fixture
               /\ new.row[r].fixture => new.row[r].origin = "declared_fixture"
    <2> DEFINE row == d.row[r]
    <2>1. row \in RowType /\ row.review \in Reviews /\ d.pub[r].status = "none"
          /\ (row.origin = "declared_fixture" <=> row.fixture)
      BY DEF Sound, Database, RowType
    <2>2. CASE ~ Selected(row)
      <3>1. new.row[r] = row /\ new.pub[r] = d.pub[r]
        BY <2>2, PublicationsTyped
      <3>2. QED BY <2>1, <3>1 DEF PublicationMatches
    <2>3. CASE Selected(row)
      <3>1. new.pub[r] = Publication(row)
        BY <2>3, PublicationsTyped
      <3>2. row.present /\ row.review.bundle # "none"
        BY <2>3 DEF Selected
      <3>3. CASE row.decided
        <4>1. new.row[r] = Withdrawn(row)
          BY <2>3, <3>3, PublicationsTyped
        <4>2. Publication(row).status = "stale"
          BY <2>1, <3>2, <3>3, PublicationTyped, StatusMatches
        <4> HIDE DEF row, new
        <4>3. QED BY <2>1, <3>1, <3>2, <4>1, <4>2, WithdrawnRow, PublicationTyped
              DEF PublicationMatches
      <3>4. CASE ~ row.decided
        <4>1. new.row[r] = row
          BY <3>4, PublicationsTyped
        <4>2. Publication(row).status # "stale"
              /\ (Publication(row).status = "ready" <=> row.review.delivery = "ready")
          BY <2>1, <3>2, <3>4, PublicationTyped, StatusMatches
        <4> HIDE DEF row, new
        <4>3. QED BY <2>1, <3>1, <3>2, <3>4, <4>1, <4>2, PublicationTyped
              DEF PublicationMatches
      <3>5. QED BY <3>3, <3>4
    <2>4. QED BY <2>2, <2>3
  <1>3. QED BY <1>1, <1>2 DEF Sound, Marked

LEMMA SoundMigrated ==
  ASSUME NEW d \in Database, Sound(d), ~ Marked(d)
  PROVE  /\ WithOrigins(d) \in Database /\ Sound(WithOrigins(d))
         /\ Migrated(d) \in Database /\ Sound(Migrated(d)) /\ Marked(Migrated(d))
         /\ \A r \in Runs :
              /\ WithOrigins(d).row[r].present = d.row[r].present
              /\ WithOrigins(d).row[r].review = d.row[r].review
              /\ Migrated(d).row[r].present = d.row[r].present
              /\ Migrated(d).row[r].review # d.row[r].review
                   => Migrated(d).row[r].version # d.row[r].version
  <1> DEFINE mid == WithOrigins(d)
  <1>1. mid \in Database /\ Sound(mid) /\ ~ Marked(mid) /\ "verification" \in mid.marks
    BY OriginsTyped, SoundOrigins
  <1>2. \A r \in Runs : /\ mid.row[r] \in RowType
                        /\ mid.row[r].present = d.row[r].present
                        /\ mid.row[r].review = d.row[r].review
                        /\ mid.row[r].version = d.row[r].version
    BY <1>1, OriginsTyped DEF Database
  <1>3. Migrated(d) = WithPublications(mid)
    BY DEF Migrated
  <1> HIDE DEF mid
  <1>4. \A r \in Runs : \/ Migrated(d).row[r] = mid.row[r]
                        \/ Migrated(d).row[r] = Withdrawn(mid.row[r])
    BY <1>1, <1>3, PublicationsTyped
  <1>5. \A r \in Runs : mid.row[r].version \in Nat
    BY <1>2 DEF RowType
  <1>6. \A r \in Runs :
          /\ Migrated(d).row[r].present = d.row[r].present
          /\ Migrated(d).row[r].review # d.row[r].review
               => Migrated(d).row[r].version # d.row[r].version
    BY <1>2, <1>4, <1>5, WithdrawnRow
  <1>7. QED BY <1>1, <1>2, <1>3, <1>6, PublicationsTyped, SoundPublications DEF mid

-----------------------------------------------------------------------------
(* The invariant.                                                          *)

LEMMA InitMigrationInv ==
  ASSUME Init PROVE MigrationInv
  <1>0. PICK marks \in {{}, {"verification"}} :
          \E old \in [OldRuns -> OldRows(marks)] :
            db = [EmptyDatabase EXCEPT
                    !.marks = marks,
                    !.row = [r \in Runs |-> IF r \in OldRuns THEN old[r] ELSE NoRow]]
    BY DEF Init
  <1>1. PICK old \in [OldRuns -> OldRows(marks)] :
          db = [EmptyDatabase EXCEPT
                  !.marks = marks,
                  !.row = [r \in Runs |-> IF r \in OldRuns THEN old[r] ELSE NoRow]]
    BY <1>0
  <1> DEFINE rows == [r \in Runs |-> IF r \in OldRuns THEN old[r] ELSE NoRow]
  <1>2. NoRow \in RowType /\ NoPublication \in PublicationType
    BY DEF NoRow, RowType, NoReview, Review, ReviewType, NoPublication, PublicationType
  <1>3. \A row \in OldRows(marks) :
          /\ row \in RowType /\ row.present /\ row.review \in Reviews
          /\ row.origin = "declared_fixture" => row.fixture
          /\ row.fixture /\ "verification" \in marks => row.origin = "declared_fixture"
    <2> TAKE row \in OldRows(marks)
    <2>1. /\ row \in [present : {TRUE}, review : Reviews, fixture : BOOLEAN,
                      origin : {"none", "declared_fixture"}, decided : BOOLEAN,
                      version : {0}]
          /\ row.origin = "declared_fixture" <=> row.fixture /\ "verification" \in marks
      BY DEF OldRows
    <2>2. row.present /\ row.review \in Reviews
      BY <2>1
    <2>3. {TRUE} \subseteq BOOLEAN /\ {0} \subseteq Nat
      OBVIOUS
    <2>4. row \in RowType
      BY <2>1, <2>3, ReviewsAreTyped DEF RowType
    <2>5. QED BY <2>1, <2>2, <2>4
  <1>4. NoRow.review \in Reviews /\ ~ NoRow.fixture /\ NoRow.origin = "none"
    BY DEF NoRow, Reviews
  <1>5. db = [marks |-> marks, row |-> rows, pub |-> [r \in Runs |-> NoPublication]]
    BY <1>1 DEF EmptyDatabase
  <1>6. rows \in [Runs -> RowType]
    BY <1>2, <1>3
  <1>7. db \in Database
    BY <1>2, <1>5, <1>6 DEF Database, Marks
  <1>8. /\ db.marks = marks
        /\ \A r \in Runs : /\ db.pub[r] = NoPublication
                           /\ db.row[r] = IF r \in OldRuns THEN old[r] ELSE NoRow
    BY <1>5
  <1>9. Sound(db)
    BY <1>3, <1>4, <1>8 DEF Sound, Marked, PublicationMatches, NoPublication
  <1>10. \A r \in Runs : db.row[r].present => r \in accepted
    BY <1>8 DEF Init, NoRow
  <1>11. TypeOK
    BY <1>7, MigrationAssumption DEF Init, TypeOK, Idle, Callers, Runs
  <1>12. QED BY <1>7, <1>9, <1>10, <1>11 DEF Init, MigrationInv, StepInv, KnownRuns

(* A step that leaves the databases alone has only its place to account for. *)
LEMMA QuietInv ==
  ASSUME MigrationInv, UNCHANGED <<db, before, accepted>>, TypeOK', StepInv'
  PROVE  MigrationInv'
  BY DEF MigrationInv, KnownRuns, Sound, PublicationMatches, Marked

LEMMA EmptyTyped == EmptyDatabase \in Database
  <1>1. NoRow \in RowType /\ NoPublication \in PublicationType
    BY DEF NoRow, RowType, NoReview, Review, ReviewType, NoPublication, PublicationType
  <1>2. QED BY <1>1 DEF EmptyDatabase, Database

LEMMA EmptySound ==
  /\ Sound(EmptyDatabase)
  /\ \A r \in Runs : ~ EmptyDatabase.row[r].present
  <1>1. \A r \in Runs : EmptyDatabase.row[r] = NoRow /\ EmptyDatabase.pub[r] = NoPublication
    BY DEF EmptyDatabase
  <1>2. EmptyDatabase.marks = {}
    BY DEF EmptyDatabase
  <1>3. NoRow.review \in Reviews /\ ~ NoRow.fixture /\ NoRow.origin = "none" /\ ~ NoRow.present
    BY DEF NoRow, Reviews
  <1>4. QED BY <1>1, <1>2, <1>3 DEF Sound, Marked, PublicationMatches, NoPublication

LEMMA CallInv ==
  ASSUME MigrationInv, NEW caller \in Callers, Call(caller)
  PROVE  MigrationInv'
  <1>1. TypeOK'
    <2>1. starts' \in 0 .. MaxStarts
      BY MigrationAssumption DEF MigrationInv, TypeOK, Call
    <2>2. task' \in [caller : Callers, enabled : BOOLEAN, backupExisted : BOOLEAN,
                     markerSeen : BOOLEAN]
      BY DEF Call, Marked
    <2>3. QED BY <2>1, <2>2 DEF MigrationInv, TypeOK, Call
  <1>2. task'.caller = caller /\ (task'.markerSeen <=> Marked(db))
        /\ (task'.backupExisted <=> backup[caller] # {})
    BY DEF Call
  <1>3. StepInv'
    BY <1>2 DEF Call, StepInv, Mine, Marked
  <1>4. KnownRuns'
    BY DEF Call, MigrationInv, KnownRuns
  <1>5. QED BY <1>1, <1>3, <1>4 DEF Call, MigrationInv, Sound, PublicationMatches, Marked

LEMMA BackupInv ==
  ASSUME MigrationInv,
         RefuseBackup \/ OpenBackup \/ FinishBackup \/ FailBackup
  PROVE  MigrationInv'
  <1>0. TypeOK /\ StepInv
    BY DEF MigrationInv
  <1>1. CASE RefuseBackup
    <2>1. TypeOK'
      BY <1>0, <1>1 DEF TypeOK, RefuseBackup, Goto
    <2>2. StepInv'
      BY <1>0, <1>1 DEF RefuseBackup, Goto, StepInv, Mine
    <2>3. QED BY <1>1, <2>1, <2>2, QuietInv DEF RefuseBackup, Goto
  <1>2. CASE OpenBackup
    <2>1. TypeOK'
      BY <1>0, <1>2, EmptyTyped DEF TypeOK, OpenBackup, Goto
    <2>2. Mine' = {EmptyDatabase}
      BY <1>0, <1>2 DEF TypeOK, OpenBackup, Goto, Mine
    <2>3. StepInv'
      BY <1>0, <1>2, <2>2 DEF OpenBackup, Goto, StepInv, MayBackUp, Mine, Marked
    <2>4. QED BY <1>2, <2>1, <2>3, QuietInv DEF OpenBackup, Goto
  <1>3. CASE FinishBackup
    <2>1. TypeOK'
      BY <1>0, <1>3 DEF TypeOK, FinishBackup, Goto
    <2>2. Mine' = {db}
      BY <1>0, <1>3 DEF TypeOK, FinishBackup, Goto, Mine
    <2>3. StepInv'
      BY <1>0, <1>3, <2>2 DEF FinishBackup, Goto, StepInv, TookBackup, Marked
    <2>4. QED BY <1>3, <2>1, <2>3, QuietInv DEF FinishBackup, Goto
  <1>4. CASE FailBackup
    <2>1. \/ pc = "deciding" /\ Mine = {}
          \/ pc = "backing" /\ Mine = {EmptyDatabase}
      BY <1>0, <1>4 DEF FailBackup, MayBackUp, Mine, StepInv
    <2>2. TypeOK'
      BY <1>0, <1>4 DEF TypeOK, FailBackup, Goto
    <2>3. StepInv'
      BY <1>0, <1>4, <2>1 DEF FailBackup, Goto, StepInv, Mine
    <2>4. QED BY <1>4, <2>2, <2>3, QuietInv DEF FailBackup, Goto
  <1>5. QED BY <1>1, <1>2, <1>3, <1>4

LEMMA PlaceInv ==
  ASSUME MigrationInv,
         FindMarker \/ Raise \/ FailRestoreInner \/ VerifyPublication \/ VerifyRun
           \/ FailVerifyRun \/ Serve \/ RefuseToServe \/ Stop
  PROVE  MigrationInv'
  <1>0. TypeOK /\ StepInv
    BY DEF MigrationInv
  <1>1. UNCHANGED <<db, backup, task, before, accepted, starts>>
    BY DEF FindMarker, Raise, FailRestoreInner, VerifyPublication, VerifyRun, FailVerifyRun, Serve,
           RefuseToServe, Stop, Goto
  <1>2. TypeOK'
    BY <1>0, <1>1 DEF FindMarker, Raise, FailRestoreInner, VerifyPublication, VerifyRun, FailVerifyRun, Serve,
           RefuseToServe, Stop, Goto, TypeOK
  <1>3. StepInv'
    <2>1. Mine' = Mine /\ (TookBackup' <=> TookBackup)
      BY <1>1 DEF Mine, TookBackup
    <2>2. CASE FindMarker
      BY <1>0, <1>1, <2>1, <2>2 DEF FindMarker, Goto, StepInv
    <2>3. CASE Raise
      BY <1>0, <1>1, <2>1, <2>3 DEF Raise, Goto, StepInv, TookBackup
    <2>4. CASE FailRestoreInner
      BY <1>0, <1>1, <2>1, <2>4 DEF FailRestoreInner, Goto, StepInv, TookBackup
    <2>5. CASE VerifyPublication
      BY <1>0, <1>1, <2>1, <2>5 DEF VerifyPublication, Goto, StepInv
    <2>6. CASE VerifyRun
      BY <1>0, <1>1, <2>1, <2>6 DEF VerifyRun, Goto, StepInv
    <2>7. CASE FailVerifyRun
      BY <1>0, <1>1, <2>1, <2>7 DEF FailVerifyRun, Goto, StepInv
    <2>8. CASE Serve \/ RefuseToServe \/ Stop
      BY <1>0, <1>1, <2>1, <2>8 DEF Serve, RefuseToServe, Stop, Goto, StepInv
    <2>9. QED BY <2>2, <2>3, <2>4, <2>5, <2>6, <2>7, <2>8
  <1>4. QED BY <1>1, <1>2, <1>3, QuietInv
        DEF FindMarker, Raise, FailRestoreInner, VerifyPublication, VerifyRun, FailVerifyRun, Serve,
            RefuseToServe, Stop, Goto

LEMMA OutsideInv ==
  ASSUME MigrationInv,
         StartUnmigrated \/ \E caller \in Callers : RemoveBackup(caller)
  PROVE  MigrationInv'
  <1>0. TypeOK /\ StepInv
    BY DEF MigrationInv
  <1>1. CASE StartUnmigrated
    <2>1. starts' \in 0 .. MaxStarts /\ task' = Idle
      BY <1>0, <1>1, MigrationAssumption DEF TypeOK, StartUnmigrated
    <2>2. Idle \in [caller : Callers, enabled : BOOLEAN, backupExisted : BOOLEAN,
                    markerSeen : BOOLEAN]
      BY DEF Idle, Callers
    <2>3. TypeOK'
      BY <1>0, <1>1, <2>1, <2>2 DEF TypeOK, StartUnmigrated
    <2>4. StepInv'
      BY <1>1 DEF StartUnmigrated, StepInv
    <2>5. QED BY <1>1, <2>3, <2>4, QuietInv DEF StartUnmigrated
  <1>2. ASSUME NEW caller \in Callers, RemoveBackup(caller)
        PROVE  MigrationInv'
    <2>1. TypeOK'
      BY <1>0, <1>2 DEF TypeOK, RemoveBackup
    <2>2. StepInv'
      BY <1>0, <1>2 DEF RemoveBackup, StepInv
    <2>3. QED BY <1>2, <2>1, <2>2, QuietInv DEF RemoveBackup
  <1>3. QED BY <1>1, <1>2

LEMMA ApplyInv ==
  ASSUME MigrationInv, InitVerification \/ Apply
  PROVE  MigrationInv'
  <1>0. TypeOK /\ StepInv /\ KnownRuns /\ Sound(before) /\ before \in Database
    BY DEF MigrationInv, TypeOK
  <1>1. UNCHANGED <<backup, task, before, accepted, starts>>
    BY DEF InitVerification, Apply, Goto
  <1>2. ~ Marked(before) /\ TookBackup'
    BY <1>0, <1>1 DEF StepInv, InitVerification, Apply, TookBackup, Mine
  <1>3. \/ pc' = "applying" /\ db' = WithOrigins(before)
        \/ pc' = "verifying" /\ db' = Migrated(before)
    BY <1>0 DEF StepInv, InitVerification, Apply, Goto, Migrated
  <1>4. db' \in Database /\ Sound(db') /\ \A r \in Runs : db'.row[r].present = before.row[r].present
    BY <1>0, <1>2, <1>3, SoundMigrated
  <1>5. TypeOK'
    BY <1>0, <1>1, <1>3, <1>4 DEF TypeOK
  <1>6. StepInv'
    BY <1>1, <1>2, <1>3 DEF StepInv
  <1>7. KnownRuns'
    BY <1>0, <1>1, <1>4 DEF KnownRuns
  <1>8. Sound(db)' /\ Sound(before)'
    BY <1>0, <1>1, <1>4 DEF Sound, PublicationMatches, Marked
  <1>9. QED BY <1>5, <1>6, <1>7, <1>8 DEF MigrationInv

LEMMA RestoreInv ==
  ASSUME MigrationInv, RestoreInner \/ Unwind
  PROVE  /\ MigrationInv'
         /\ \/ db' = before
            \/ pc = "unwinding" /\ UnfinishedBackup /\ db' = EmptyDatabase
  <1>0. TypeOK /\ StepInv /\ KnownRuns /\ Sound(before)
    BY DEF MigrationInv
  <1>1. UNCHANGED <<backup, task, before, accepted, starts>>
    BY DEF RestoreInner, Unwind, Goto
  <1>2. CASE RestoreInner
    <2>1. db' = before /\ TookBackup'
      BY <1>0, <1>1, <1>2 DEF RestoreInner, StepInv, TookBackup, Mine
    <2>2. TypeOK'
      BY <1>0, <1>1, <1>2, <2>1 DEF TypeOK, RestoreInner, Goto
    <2>3. StepInv'
      BY <1>1, <1>2, <2>1 DEF RestoreInner, Goto, StepInv, TookBackup
    <2>4. KnownRuns' /\ Sound(db)' /\ Sound(before)'
      BY <1>0, <1>1, <2>1 DEF KnownRuns, Sound, PublicationMatches, Marked
    <2>5. QED BY <2>1, <2>2, <2>3, <2>4 DEF MigrationInv
  <1>3. CASE Unwind
    <2>1. \/ db' = before
          \/ UnfinishedBackup /\ db' = EmptyDatabase
      BY <1>0, <1>3 DEF Unwind, Restores, UnfinishedBackup, StepInv, TookBackup, Mine
    <2>2. TypeOK'
      BY <1>0, <1>1, <1>3, <2>1, EmptyTyped DEF TypeOK, Unwind, Goto
    <2>3. StepInv'
      BY <1>3 DEF Unwind, Goto, StepInv
    <2>4. KnownRuns'
      BY <1>0, <1>1, <2>1, EmptySound DEF KnownRuns
    <2>5. Sound(db)' /\ Sound(before)'
      BY <1>0, <1>1, <2>1, EmptySound DEF Sound, PublicationMatches, Marked
    <2>6. QED BY <1>3, <2>1, <2>2, <2>3, <2>4, <2>5 DEF MigrationInv, Unwind
  <1>4. QED BY <1>2, <1>3

LEMMA FinishRunInv ==
  ASSUME MigrationInv, NEW r \in NewRuns, FinishRun(r)
  PROVE  /\ MigrationInv'
         /\ ~ db.row[r].present
         /\ \A q \in Runs : q # r => db'.row[q] = db.row[q]
  <1>0. TypeOK /\ KnownRuns /\ Sound(db) /\ Sound(before) /\ r \in Runs /\ db \in Database
    BY DEF MigrationInv, TypeOK, Runs
  <1>1. PICK review \in {NoReview, Waived, Open("checkpoint_pending")},
             fixture \in BOOLEAN :
          db' = [db EXCEPT !.row[r] =
                   [present |-> TRUE, review |-> review, fixture |-> fixture,
                    origin |-> IF fixture THEN "declared_fixture" ELSE "none",
                    decided |-> FALSE, version |-> 0]]
    BY DEF FinishRun
  <1> DEFINE new == [present |-> TRUE, review |-> review, fixture |-> fixture,
                     origin |-> IF fixture THEN "declared_fixture" ELSE "none",
                     decided |-> FALSE, version |-> 0]
             rows == [db.row EXCEPT ![r] = new]
  <1>2. review \in Reviews
    BY DEF Reviews, Supersedable
  <1>3. review \in ReviewType
    BY <1>2, ReviewsAreTyped
  <1>4. /\ new \in RowType /\ new.present /\ new.review \in Reviews
        /\ new.origin = "declared_fixture" <=> new.fixture
    BY <1>2, <1>3 DEF RowType
  <1>5. db' = [db EXCEPT !.row = rows]
    BY <1>1
  <1> HIDE DEF new
  <1>6. rows \in [Runs -> RowType] /\ rows[r] = new
        /\ \A q \in Runs : q # r => rows[q] = db.row[q]
    BY <1>0, <1>4 DEF Database
  <1> HIDE DEF rows
  <1>7. /\ db' \in Database
        /\ db'.marks = db.marks /\ db'.pub = db.pub /\ db'.row = rows
    BY <1>0, <1>5, <1>6 DEF Database
  <1>8. ~ db.row[r].present /\ db.pub[r].status = "none"
    BY <1>0 DEF FinishRun, KnownRuns, Sound, PublicationMatches
  <1>9. \A q \in Runs : PublicationMatches(db', q)
    BY <1>0, <1>6, <1>7, <1>8 DEF Sound, PublicationMatches
  <1>10. Sound(db')
    BY <1>0, <1>4, <1>6, <1>7, <1>9 DEF Sound, Marked
  <1>11. TypeOK'
    BY <1>0, <1>7 DEF TypeOK, FinishRun
  <1>12. StepInv'
    BY DEF FinishRun, StepInv
  <1>13. KnownRuns'
    BY <1>0, <1>6, <1>7 DEF KnownRuns, FinishRun
  <1>14. QED BY <1>0, <1>6, <1>7, <1>8, <1>10, <1>11, <1>12, <1>13
         DEF MigrationInv, FinishRun, Sound, PublicationMatches, Marked

LEMMA StepMigrationInv ==
  ASSUME MigrationInv, [Next]_vars
  PROVE  MigrationInv'
  <1>1. CASE UNCHANGED vars
    BY <1>1 DEF vars, MigrationInv, TypeOK, StepInv, KnownRuns, Mine, TookBackup, Sound,
                PublicationMatches, Marked
  <1>2. CASE Next
    BY <1>2, CallInv, BackupInv, PlaceInv, OutsideInv, ApplyInv, RestoreInv, FinishRunInv
       DEF Next
  <1>3. QED BY <1>1, <1>2

LEMMA AlwaysMigrationInv == Spec => []MigrationInv
  BY InitMigrationInv, StepMigrationInv, PTL DEF Spec

-----------------------------------------------------------------------------
(* The theorems.                                                           *)

(* Every reachable state of the database, its backups and the process is   *)
(* well typed.                                                             *)
THEOREM TypeCorrect == Spec => []TypeOK
  <1>1. MigrationInv => TypeOK
    BY DEF MigrationInv
  <1>2. QED BY <1>1, AlwaysMigrationInv, PTL

(* Either handler of migrate_with_backup leaves what the call found; only  *)
(* if it was the backup that failed, after its file had been created, the  *)
(* database may be what that file holds, nothing.                          *)
THEOREM FailuresRestore == Spec => FailureRestores
  <1> DEFINE Restored == pc # "failed" /\ pc' = "failed"
                           => db' = before \/ (UnfinishedBackup /\ db' = EmptyDatabase)
  <1>1. ASSUME MigrationInv, [Next]_vars PROVE Restored
    <2>1. CASE Unwind
      BY <1>1, <2>1, RestoreInv
    <2>2. CASE ~ Unwind
      BY <1>1, <2>2
         DEF Next, vars, Call, StartUnmigrated, FindMarker, RefuseBackup, OpenBackup,
             FinishBackup, FailBackup, InitVerification, Apply, Raise, RestoreInner,
             FailRestoreInner, VerifyPublication, VerifyRun, FailVerifyRun, Serve,
             RefuseToServe, FinishRun, Stop, RemoveBackup, Goto
    <2>3. QED BY <2>1, <2>2
  <1>2. MigrationInv /\ [Next]_vars => [Restored]_vars
    BY <1>1
  <1>3. QED BY <1>2, AlwaysMigrationInv, PTL DEF Spec, FailureRestores

(* No step takes the rows of a committed run out of the database, but the  *)
(* restore of a backup that the same call created and left unfinished.     *)
THEOREM RunsSurvive == Spec => CommittedRunsSurvive
  <1> DEFINE Survive ==
        \A r \in Runs : db.row[r].present /\ ~ db'.row[r].present
                          => pc = "unwinding" /\ UnfinishedBackup
  <1>1. ASSUME MigrationInv, [Next]_vars PROVE Survive
    <2>0. StepInv /\ Sound(before) /\ before \in Database
      BY <1>1 DEF MigrationInv, TypeOK
    <2>1. CASE db' = db
      BY <2>1
    <2>2. CASE InitVerification \/ Apply
      <3>1. ~ Marked(before)
        BY <2>0, <2>2 DEF InitVerification, Apply, StepInv
      <3>2. \/ db = before /\ db' = WithOrigins(before)
            \/ db = WithOrigins(before) /\ db' = Migrated(before)
        BY <2>0, <2>2 DEF InitVerification, Apply, StepInv, Migrated
      <3>3. QED BY <2>0, <3>1, <3>2, SoundMigrated
    <2>3. CASE RestoreInner \/ Unwind
      <3>1. db' = before \/ (pc = "unwinding" /\ UnfinishedBackup)
        BY <1>1, <2>3, RestoreInv
      <3>2. db = before \/ (~ Marked(before)
                            /\ db \in {WithOrigins(before), Migrated(before)})
        BY <2>0, <2>3 DEF RestoreInner, Unwind, StepInv
      <3>3. QED BY <2>0, <3>1, <3>2, SoundMigrated
    <2>4. CASE \E r \in NewRuns : FinishRun(r)
      BY <1>1, <2>4, FinishRunInv
    <2>5. QED BY <1>1, <2>1, <2>2, <2>3, <2>4
          DEF Next, vars, Call, StartUnmigrated, FindMarker, RefuseBackup, OpenBackup,
              FinishBackup, FailBackup, Raise, FailRestoreInner, VerifyPublication,
              VerifyRun, FailVerifyRun, Serve, RefuseToServe, Stop, RemoveBackup
  <1>2. MigrationInv /\ [Next]_vars => [Survive]_vars
    BY <1>1
  <1>3. QED BY <1>2, AlwaysMigrationInv, PTL DEF Spec, CommittedRunsSurvive

(* A backfilled publication and its run tell readers and workers the same. *)
THEOREM PublicationsMatch == Spec => []PublicationsMatchRuns
  <1>1. MigrationInv => PublicationsMatchRuns
    BY DEF MigrationInv, Sound, PublicationMatches, PublicationsMatchRuns
  <1>2. QED BY <1>1, AlwaysMigrationInv, PTL

(* Origins are filled in before the snapshots that are made of them.       *)
THEOREM SnapshotsAreBaselines == Spec => []SnapshotIsBaseline
  <1>1. MigrationInv => SnapshotIsBaseline
    BY DEF MigrationInv, Sound, PublicationMatches, SnapshotIsBaseline
  <1>2. QED BY <1>1, AlwaysMigrationInv, PTL

(* A review that the migration withdraws, or a restore brings back, comes  *)
(* with another version of its run.                                        *)
THEOREM ChangedRunsAreVersioned == Spec => ChangedRunsChangeVersion
  <1> DEFINE Versioned ==
        \A r \in Runs : db.row[r].present /\ db'.row[r].present
                        /\ db'.row[r].review # db.row[r].review
                          => db'.row[r].version # db.row[r].version
  <1>1. ASSUME MigrationInv, [Next]_vars PROVE Versioned
    <2>0. StepInv /\ Sound(before) /\ before \in Database
      BY <1>1 DEF MigrationInv, TypeOK
    <2>1. CASE db' = db
      BY <2>1
    <2>2. CASE InitVerification \/ Apply
      <3>1. ~ Marked(before)
        BY <2>0, <2>2 DEF InitVerification, Apply, StepInv
      <3>2. \/ db = before /\ db' = WithOrigins(before)
            \/ db = WithOrigins(before) /\ db' = Migrated(before)
        BY <2>0, <2>2 DEF InitVerification, Apply, StepInv, Migrated
      <3>3. QED BY <2>0, <3>1, <3>2, SoundMigrated, OriginsTyped
    <2>3. CASE RestoreInner \/ Unwind
      <3>1. db' = before \/ db' = EmptyDatabase
        BY <1>1, <2>3, RestoreInv
      <3>2. db = before \/ (~ Marked(before)
                            /\ db \in {WithOrigins(before), Migrated(before)})
        BY <2>0, <2>3 DEF RestoreInner, Unwind, StepInv
      <3>3. QED BY <2>0, <3>1, <3>2, SoundMigrated, OriginsTyped, EmptySound
    <2>4. CASE \E r \in NewRuns : FinishRun(r)
      BY <1>1, <2>4, FinishRunInv
    <2>5. QED BY <1>1, <2>1, <2>2, <2>3, <2>4
          DEF Next, vars, Call, StartUnmigrated, FindMarker, RefuseBackup, OpenBackup,
              FinishBackup, FailBackup, Raise, FailRestoreInner, VerifyPublication,
              VerifyRun, FailVerifyRun, Serve, RefuseToServe, Stop, RemoveBackup
  <1>2. MigrationInv /\ [Next]_vars => [Versioned]_vars
    BY <1>1
  <1>3. QED BY <1>2, AlwaysMigrationInv, PTL DEF Spec, ChangedRunsChangeVersion

(* Only OpenBackup and FinishBackup write a backup file, and neither finds *)
(* a finished one.                                                         *)
THEOREM BackupsAreImmutable == Spec => BackupIsImmutable
  <1> DEFINE Kept == \A c \in Callers :
                       pc # "backing" /\ backup[c] # {} => backup'[c] \in {backup[c], {}}
  <1>1. ASSUME MigrationInv, [Next]_vars PROVE Kept
    <2>0. backup \in [Callers -> SUBSET Database] /\ task.caller \in Callers
      BY <1>1 DEF MigrationInv, TypeOK
    <2>1. CASE backup' = backup
      BY <2>1
    <2>2. CASE OpenBackup \/ FinishBackup
      BY <2>0, <2>2 DEF OpenBackup, MayBackUp, FinishBackup
    <2>3. CASE \E caller \in Callers : RemoveBackup(caller)
      BY <2>0, <2>3 DEF RemoveBackup
    <2>4. QED BY <1>1, <2>1, <2>2, <2>3
          DEF Next, vars, Call, StartUnmigrated, FindMarker, RefuseBackup, FailBackup,
              InitVerification, Apply, Raise, RestoreInner, FailRestoreInner,
              VerifyPublication, VerifyRun, FailVerifyRun, Unwind, Serve, RefuseToServe, FinishRun, Stop
  <1>2. MigrationInv /\ [Next]_vars => [Kept]_vars
    BY <1>1
  <1>3. QED BY <1>2, AlwaysMigrationInv, PTL DEF Spec, BackupIsImmutable
=============================================================================
