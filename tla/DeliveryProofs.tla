---------------------------- MODULE DeliveryProofs ----------------------------
(***************************************************************************)
(* What a run delivers: the properties of EvidenceVerification for any     *)
(* number of items, operators, requests, revisions and verdicts, and those *)
(* of RunResult for any interleaving of its reads with the transactions.   *)
(*                                                                         *)
(* Verification rests on ShotRows: a snapshot made before the newest       *)
(* verdict differs from the projection of now in the item some later       *)
(* verdict was about, because revisions of an item only grow.  Reading     *)
(* rests on ReadRows: while the run keeps the version of the first SELECT, *)
(* nothing read since has been overtaken.                                  *)
(***************************************************************************)
EXTENDS EvidenceVerification, RunResult, ReviewStoreProofs, SequenceTheorems

(* Evidence verification.                                                  *)

(* A request under way names an item and a verdict. *)
CallRows ==
  \A n \in Calls :
    calls[n] # NoCall => calls[n].item \in Items /\ calls[n].action \in Verdicts

(* Who waits, waits for a request that is still under way. *)
DeskRows ==
  \A o \in Operators :
    /\ desk[o].stage \in {"waiting", "answered"} =>
         desk[o].item \in Items /\ desk[o].action \in Verdicts
    /\ desk[o].stage = "waiting" =>
         /\ desk[o].number \in Calls
         /\ calls[desk[o].number] # NoCall
         /\ calls[desk[o].number].item = desk[o].item
         /\ calls[desk[o].number].action = desk[o].action

(* How far a publication's snapshot is behind the log. *)
ShotRows ==
  \A r \in Revisions :
    pub[r].status # "none" =>
      /\ pub[r].snapshot <= verification
      /\ \A i \in Items : shot[r][i].revision <= Len(ledger[i])
      /\ pub[r].snapshot = verification => shot[r] = Projection
      /\ pub[r].snapshot < verification =>
           \E i \in Items : shot[r][i].revision < Len(ledger[i])

VerificationInvariant ==
  TypeOK /\ StoreInvariant /\ CallRows /\ DeskRows /\ AnswerMatchesLedger /\ ShotRows

-----------------------------------------------------------------------------
(* The projection.                                                         *)

LEMMA EffectiveRow ==
  ASSUME TypeOK, NEW i \in Items
  PROVE  Effective(i) \in Projected /\ Effective(i).revision = Len(ledger[i])
  <1>1. ledger[i] \in Seq(Verdicts) /\ Len(ledger[i]) \in Nat
    BY LenProperties DEF TypeOK
  <1>2. QED BY <1>1 DEF Effective, Projected

LEMMA ProjectionRows ==
  ASSUME TypeOK
  PROVE  /\ Projection \in [Items -> Projected]
         /\ \A i \in Items : Projection[i].revision = Len(ledger[i])
  BY EffectiveRow DEF Projection

(* The log after a verdict. *)
LEMMA LedgerAppended ==
  ASSUME TypeOK, NEW i \in Items, NEW a \in Verdicts,
         ledger' = [ledger EXCEPT ![i] = Append(@, a)]
  PROVE  /\ ledger' \in [Items -> Seq(Verdicts)]
         /\ Len(ledger'[i]) = Len(ledger[i]) + 1
         /\ ledger'[i][Len(ledger[i]) + 1] = a
         /\ \A j \in Items :
              /\ Len(ledger[j]) \in Nat /\ Len(ledger'[j]) \in Nat
              /\ Len(ledger[j]) <= Len(ledger'[j])
              /\ \A k \in 1 .. Len(ledger[j]) : ledger'[j][k] = ledger[j][k]
  <1>1. \A j \in Items : ledger[j] \in Seq(Verdicts) /\ Len(ledger[j]) \in Nat
    BY LenProperties DEF TypeOK
  <1>2. ledger'[i] = Append(ledger[i], a) /\ \A j \in Items : j # i => ledger'[j] = ledger[j]
    BY DEF TypeOK
  <1>3. /\ Append(ledger[i], a) \in Seq(Verdicts)
        /\ Len(Append(ledger[i], a)) = Len(ledger[i]) + 1
        /\ Append(ledger[i], a)[Len(ledger[i]) + 1] = a
        /\ \A k \in 1 .. Len(ledger[i]) : Append(ledger[i], a)[k] = ledger[i][k]
    BY <1>1, AppendProperties
  <1>4. ledger' \in [Items -> Seq(Verdicts)]
    BY <1>1, <1>2, <1>3 DEF TypeOK
  <1>5. QED BY <1>1, <1>2, <1>3, <1>4

-----------------------------------------------------------------------------
(* What a step does to the tables.                                         *)

LEMMA StoreSteps == [Next]_vars => [StoreNext]_storeVars
  <1>1. ASSUME NEW n \in Calls, Serve(n) PROVE [StoreNext]_storeVars
    BY <1>1 DEF Serve, Accept, Replay, Refuse, StoreNext, ClientTx
  <1>2. ASSUME NEW o \in Operators, Submit(o) \/ GiveUp(o) \/ Plan(o) \/ Finalize(o)
        PROVE  [StoreNext]_storeVars
    BY <1>2 DEF Submit, GiveUp, Plan, Finalize, StoreNext, ClientTx
  <1>3. ASSUME Review PROVE [StoreNext]_storeVars
    BY <1>3 DEF Review, StoreNext, ClientTx, WorkerTx
  <1>4. QED BY <1>1, <1>2, <1>3 DEF Next, vars

(* Reviewing publishes nothing and accepts no evidence. *)
LEMMA ReviewKeeps ==
  ASSUME StoreTypeOK, Review, NEW q \in Revisions
  PROVE  /\ verification' = verification
         /\ pub[q].status = "none" => pub'[q].status = "none"
  <1>1. ASSUME NEW w \in Workers, NEW r \in Revisions, NEW d \in DecisionIds,
               ResolveReview(w, r, d)
        PROVE  /\ verification' = verification
               /\ pub[q].status = "none" => pub'[q].status = "none"
    BY <1>1 DEF ResolveReview, StoreTypeOK
  <1>2. ASSUME ~ \E w \in Workers, r \in Revisions, d \in DecisionIds :
                   ResolveReview(w, r, d)
        PROVE  UNCHANGED outcomeVars
    BY <1>2 DEF Review, ClaimReviewWorkflow, CompleteCheckpointCreation,
       MarkResolutionPending, ComposeDecision, AcceptDecision
  <1>3. QED BY <1>1, <1>2 DEF outcomeVars
-----------------------------------------------------------------------------
(* Every step keeps the invariant.                                         *)

LEMMA AnswerRows ==
  ASSUME TypeOK, NEW n \in Calls, NEW k \in Nat, Answer(n, k), NEW o \in Operators
  PROVE  /\ desk'[o].item = desk[o].item /\ desk'[o].action = desk[o].action
         /\ IF desk[o].stage = "waiting" /\ desk[o].number = n
            THEN desk'[o].stage = "answered" /\ desk'[o].number = k
            ELSE desk'[o] = desk[o]
  <1>1. desk[o] \in [stage  : {"idle", "waiting", "answered", "planned"},
                     item   : Items \cup {"none"},
                     action : Verdicts \cup {"none"},
                     number : Nat]
    BY DEF TypeOK
  <1>2. desk'[o] = IF desk[o].stage = "waiting" /\ desk[o].number = n
                   THEN [desk[o] EXCEPT !.stage = "answered", !.number = k]
                   ELSE desk[o]
    BY DEF Answer
  <1>3. QED BY <1>1, <1>2

LEMMA AnswerType ==
  ASSUME TypeOK, NEW n \in Calls, NEW k \in Nat, Answer(n, k)
  PROVE  desk' \in [Operators -> [stage  : {"idle", "waiting", "answered", "planned"},
                                  item   : Items \cup {"none"},
                                  action : Verdicts \cup {"none"},
                                  number : Nat]]
  <1>1. desk' = [o \in Operators |-> desk'[o]]
    BY DEF Answer
  <1>2. ASSUME NEW o \in Operators
        PROVE  desk'[o] \in [stage  : {"idle", "waiting", "answered", "planned"},
                             item   : Items \cup {"none"},
                             action : Verdicts \cup {"none"},
                             number : Nat]
    <2>1. desk[o] \in [stage  : {"idle", "waiting", "answered", "planned"},
                       item   : Items \cup {"none"},
                       action : Verdicts \cup {"none"},
                       number : Nat]
      BY DEF TypeOK
    <2>2. \/ desk'[o] = [desk[o] EXCEPT !.stage = "answered", !.number = k]
          \/ desk'[o] = desk[o]
      BY DEF Answer
    <2>3. QED BY <2>1, <2>2
  <1>3. QED BY <1>1, <1>2

LEMMA ShotType ==
  ASSUME TypeOK, KeepShots
  PROVE  shot' \in [Revisions -> [Items -> Projected]]
  BY ProjectionRows DEF TypeOK, KeepShots

LEMMA ServeType ==
  ASSUME TypeOK, CallRows, NEW n \in Calls, Serve(n), StoreTypeOK'
  PROVE  TypeOK'
  <1>1. /\ calls[n].item \in Items /\ calls[n].action \in Verdicts
        /\ calls[n].expected \in Nat /\ calls[n].expected + 1 \in Nat
    BY DEF Serve, CallRows, TypeOK
  <1>2. calls' \in [Calls -> [item     : Items \cup {"none"},
                              action   : Verdicts \cup {"none"},
                              expected : Nat]]
    BY DEF Serve, TypeOK, NoCall
  <1>3. CASE Accept(n)
    <2>1. ledger' \in [Items -> Seq(Verdicts)]
      BY <1>1, <1>3, LedgerAppended DEF Accept
    <2>2. QED BY <1>1, <1>2, <1>3, <2>1, AnswerType, ShotType DEF Accept, TypeOK
  <1>4. CASE Replay(n)
    BY <1>1, <1>2, <1>4, AnswerType DEF Replay, TypeOK
  <1>5. CASE Refuse(n)
    BY <1>1, <1>2, <1>5, AnswerType DEF Refuse, TypeOK
  <1>6. QED BY <1>3, <1>4, <1>5 DEF Serve

LEMMA OperatorType ==
  ASSUME TypeOK, NEW o \in Operators, StoreTypeOK',
         Submit(o) \/ GiveUp(o) \/ Plan(o) \/ Finalize(o)
  PROVE  TypeOK'
  <1>1. CASE Submit(o)
    <2>1. PICK i \in Items, a \in Verdicts, n \in Calls :
            /\ calls' = [calls EXCEPT ![n] = [item |-> i, action |-> a,
                                              expected |-> Len(ledger[i])]]
            /\ SetDesk(o, "waiting", i, a, n)
      BY <1>1 DEF Submit
    <2>2. Len(ledger[i]) \in Nat /\ n \in Nat
      BY LenProperties DEF TypeOK, Calls
    <2>3. QED BY <1>1, <2>1, <2>2 DEF Submit, TypeOK, SetDesk
  <1>2. CASE GiveUp(o) \/ Plan(o)
    <2>1. run.version \in Nat
      BY DEF TypeOK, StoreTypeOK
    <2>2. PICK s \in {"idle", "planned"}, k \in Nat : SetDesk(o, s, "none", "none", k)
      BY <1>2, <2>1 DEF GiveUp, Plan
    <2>3. UNCHANGED <<ledger, shot, calls>>
      BY <1>2 DEF GiveUp, Plan
    <2>4. QED BY <2>2, <2>3 DEF TypeOK, SetDesk
  <1>3. CASE Finalize(o)
    BY <1>3, ShotType DEF Finalize, TypeOK, SetDesk
  <1>4. QED BY <1>1, <1>2, <1>3

LEMMA TypeStep ==
  ASSUME TypeOK, CallRows, [Next]_vars
  PROVE  TypeOK'
  <1>1. StoreTypeOK'
    BY StoreSteps, StoreStepType DEF TypeOK
  <1>2. CASE Review \/ UNCHANGED vars
    BY <1>1, <1>2 DEF Review, vars, TypeOK
  <1>3. QED BY <1>1, <1>2, ServeType, OperatorType DEF Next

(* Requests and the operators waiting for them. *)
LEMMA CallStep ==
  ASSUME TypeOK, CallRows, DeskRows, [Next]_vars
  PROVE  CallRows' /\ DeskRows'
  <1>1. ASSUME NEW n \in Calls, Serve(n) PROVE CallRows' /\ DeskRows'
    <2>1. /\ calls'[n] = NoCall
          /\ \A m \in Calls : m # n => calls'[m] = calls[m]
      BY <1>1 DEF Serve, TypeOK
    <2>2. \E k \in Nat : Answer(n, k)
      BY <1>1 DEF Serve, Accept, Replay, Refuse, TypeOK
    <2>3. CallRows'
      BY <2>1 DEF CallRows
    <2>4. DeskRows'
      BY <2>1, <2>2, AnswerRows DEF DeskRows
    <2>5. QED BY <2>3, <2>4
  <1>2. ASSUME NEW o \in Operators, Submit(o) PROVE CallRows' /\ DeskRows'
    <2>1. PICK i \in Items, a \in Verdicts, n \in Calls :
            /\ calls[n] = NoCall
            /\ calls' = [calls EXCEPT ![n] = [item |-> i, action |-> a,
                                              expected |-> Len(ledger[i])]]
            /\ SetDesk(o, "waiting", i, a, n)
      BY <1>2 DEF Submit
    <2>2. /\ calls'[n].item = i /\ calls'[n].action = a
          /\ \A m \in Calls : m # n => calls'[m] = calls[m]
      BY <2>1 DEF TypeOK
    <2>3. /\ desk'[o] = [stage |-> "waiting", item |-> i, action |-> a, number |-> n]
          /\ \A p \in Operators : p # o => desk'[p] = desk[p]
      BY <2>1 DEF TypeOK, SetDesk
    <2>4. calls'[n] # NoCall
      BY <2>2 DEF NoCall, Verdicts
    <2>5. CallRows'
      BY <2>2 DEF CallRows
    <2>6. \A p \in Operators : p # o /\ desk[p].stage = "waiting" => desk[p].number # n
      BY <2>1 DEF DeskRows
    <2>7. DeskRows'
      BY <2>2, <2>3, <2>4, <2>6 DEF DeskRows
    <2>8. QED BY <2>5, <2>7
  <1>3. ASSUME NEW o \in Operators, GiveUp(o) \/ Plan(o) \/ Finalize(o)
        PROVE  CallRows' /\ DeskRows'
    <2>1. /\ calls' = calls
          /\ desk'[o].stage \in {"idle", "planned"}
          /\ \A p \in Operators : p # o => desk'[p] = desk[p]
      BY <1>3 DEF GiveUp, Plan, Finalize, SetDesk, TypeOK
    <2>2. QED BY <2>1 DEF CallRows, DeskRows
  <1>4. CASE Review \/ UNCHANGED vars
    BY <1>4 DEF Review, vars, CallRows, DeskRows
  <1>5. QED BY <1>1, <1>2, <1>3, <1>4 DEF Next

(* Answers: the log only grows, and the answer is the place of the verdict. *)
LEMMA AnswerStep ==
  ASSUME TypeOK, CallRows, DeskRows, AnswerMatchesLedger, [Next]_vars
  PROVE  AnswerMatchesLedger'
  <1>0. \A j \in Items : Len(ledger[j]) \in Nat
    BY LenProperties DEF TypeOK
  <1>1. ASSUME NEW n \in Calls, Serve(n) PROVE AnswerMatchesLedger'
    <2> DEFINE i == calls[n].item
               a == calls[n].action
               k == calls[n].expected
    <2>1. i \in Items /\ a \in Verdicts /\ k \in Nat /\ calls[n] # NoCall
      BY <1>1 DEF Serve, CallRows, TypeOK
    <2>2. /\ \A j \in Items : Len(ledger'[j]) \in Nat /\ Len(ledger[j]) <= Len(ledger'[j])
          /\ \A j \in Items : \A m \in 1 .. Len(ledger[j]) : ledger'[j][m] = ledger[j][m]
      <3>1. CASE Accept(n)
        BY <2>1, <3>1, LedgerAppended DEF Accept
      <3>2. CASE Replay(n) \/ Refuse(n)
        BY <1>0, <3>2 DEF Replay, Refuse
      <3>3. QED BY <1>1, <3>1, <3>2 DEF Serve
    <2>3. PICK m \in Nat :
            /\ Answer(n, m)
            /\ m > 0 => m <= Len(ledger'[i]) /\ ledger'[i][m] = a
      <3>1. CASE Accept(n)
        <4>1. Answer(n, k + 1) /\ Len(ledger[i]) = k
          BY <3>1 DEF Accept, Fresh
        <4>2. Len(ledger'[i]) = k + 1 /\ ledger'[i][k + 1] = a
          BY <2>1, <3>1, <4>1, LedgerAppended DEF Accept
        <4>3. QED BY <2>1, <4>1, <4>2
      <3>2. CASE Replay(n)
        <4>1. /\ Answer(n, k + 1) /\ Len(ledger[i]) > k /\ ledger[i][k + 1] = a
              /\ ledger' = ledger
          BY <3>2 DEF Replay, Recorded
        <4>2. k + 1 <= Len(ledger'[i]) /\ ledger'[i][k + 1] = a
          BY <1>0, <2>1, <4>1
        <4>3. QED BY <2>1, <4>1, <4>2
      <3>3. CASE Refuse(n)
        BY <3>3 DEF Refuse
      <3>4. QED BY <1>1, <3>1, <3>2, <3>3 DEF Serve
    <2>4. SUFFICES ASSUME NEW o \in Operators, desk'[o].stage = "answered",
                          desk'[o].number > 0
                   PROVE  /\ desk'[o].number <= Len(ledger'[desk'[o].item])
                          /\ ledger'[desk'[o].item][desk'[o].number] = desk'[o].action
      BY DEF AnswerMatchesLedger
    <2>5. CASE desk[o].stage = "waiting" /\ desk[o].number = n
      <3>1. desk[o].item = i /\ desk[o].action = a
        BY <2>5 DEF DeskRows
      <3>2. desk'[o].number = m /\ desk'[o].item = i /\ desk'[o].action = a
        BY <2>3, <2>5, <3>1, AnswerRows
      <3>3. QED BY <2>3, <2>4, <3>2
    <2>6. CASE ~ (desk[o].stage = "waiting" /\ desk[o].number = n)
      <3>1. desk'[o] = desk[o]
        BY <2>3, <2>6, AnswerRows
      <3>2. desk[o].item \in Items /\ desk[o].number \in Nat
        BY <2>4, <3>1 DEF DeskRows, TypeOK
      <3>3. /\ desk[o].number <= Len(ledger[desk[o].item])
            /\ ledger[desk[o].item][desk[o].number] = desk[o].action
        BY <2>4, <3>1 DEF AnswerMatchesLedger
      <3>4. desk[o].number \in 1 .. Len(ledger[desk[o].item])
        BY <1>0, <2>4, <3>1, <3>2, <3>3
      <3>5. QED BY <1>0, <2>2, <3>1, <3>2, <3>3, <3>4
    <2>7. QED BY <2>5, <2>6
  <1>2. ASSUME NEW o \in Operators, Submit(o) \/ GiveUp(o) \/ Plan(o) \/ Finalize(o)
        PROVE  AnswerMatchesLedger'
    <2>1. /\ ledger' = ledger
          /\ desk'[o].stage # "answered"
          /\ \A p \in Operators : p # o => desk'[p] = desk[p]
      BY <1>2 DEF Submit, GiveUp, Plan, Finalize, SetDesk, TypeOK
    <2>2. QED BY <2>1 DEF AnswerMatchesLedger
  <1>3. CASE Review \/ UNCHANGED vars
    BY <1>3 DEF Review, vars, AnswerMatchesLedger
  <1>4. QED BY <1>1, <1>2, <1>3 DEF Next

(* Snapshots.                                                              *)
LEMMA ShotsKept ==
  ASSUME TypeOK, ShotRows, ledger' = ledger, verification' = verification,
         \A r \in Revisions :
           pub'[r].status # "none" =>
             \/ /\ pub[r].status # "none" /\ pub'[r].snapshot = pub[r].snapshot
                /\ shot'[r] = shot[r]
             \/ pub'[r].snapshot = verification /\ shot'[r] = Projection
  PROVE  ShotRows'
  <1>1. Projection' = Projection
    BY DEF Projection, Effective
  <1>2. verification \in Nat /\ \A i \in Items : Len(ledger[i]) \in Nat
    BY LenProperties DEF TypeOK, StoreTypeOK
  <1>3. \A i \in Items : Projection[i].revision = Len(ledger[i])
    BY ProjectionRows
  <1>4. SUFFICES ASSUME NEW r \in Revisions, pub'[r].status # "none"
                 PROVE  /\ pub'[r].snapshot <= verification
                        /\ \A i \in Items : shot'[r][i].revision <= Len(ledger[i])
                        /\ pub'[r].snapshot = verification => shot'[r] = Projection
                        /\ pub'[r].snapshot < verification =>
                             \E i \in Items : shot'[r][i].revision < Len(ledger[i])
    BY <1>1 DEF ShotRows
  <1>5. CASE /\ pub[r].status # "none" /\ pub'[r].snapshot = pub[r].snapshot
             /\ shot'[r] = shot[r]
    BY <1>5 DEF ShotRows
  <1>6. CASE pub'[r].snapshot = verification /\ shot'[r] = Projection
    BY <1>2, <1>3, <1>6
  <1>7. QED BY <1>4, <1>5, <1>6

LEMMA ShotStep ==
  ASSUME TypeOK, StoreInvariant, CallRows, ShotRows, [Next]_vars
  PROVE  ShotRows'
  <1>1. ASSUME NEW q \in Revisions PROVE PublicationKept(q)
    BY <1>1, StoreSteps, PublicationStep DEF TypeOK
  <1>2. ASSUME KeepShots, NEW q \in Revisions, pub'[q].status # "none"
        PROVE  \/ /\ pub[q].status # "none" /\ pub'[q].snapshot = pub[q].snapshot
                  /\ shot'[q] = shot[q]
               \/ pub'[q].snapshot = verification /\ shot'[q] = Projection
    BY <1>1, <1>2 DEF PublicationKept, KeepShots
  <1>3. ASSUME NEW n \in Calls, Accept(n), calls[n] # NoCall PROVE ShotRows'
    <2> DEFINE i == calls[n].item
    <2>1. i \in Items /\ calls[n].action \in Verdicts
      BY <1>3 DEF CallRows
    <2>2. verification' = verification + 1
      BY <1>3, Zenon DEF Accept, AcceptVerification
    <2>3. verification \in Nat
      BY DEF TypeOK, StoreTypeOK
    <2>4. \A j \in Items : Projection[j].revision = Len(ledger[j])
      BY ProjectionRows
    <2>5. \A j \in Items : /\ Len(ledger[j]) \in Nat /\ Len(ledger'[j]) \in Nat
                           /\ Len(ledger[j]) <= Len(ledger'[j])
      BY <1>3, <2>1, LedgerAppended DEF Accept
    <2>6. Len(ledger'[i]) = Len(ledger[i]) + 1
      BY <1>3, <2>1, LedgerAppended DEF Accept
    <2>7. SUFFICES ASSUME NEW q \in Revisions, pub'[q].status # "none"
                   PROVE  /\ pub'[q].snapshot <= verification
                          /\ \A j \in Items : shot'[q][j].revision <= Len(ledger[j])
                          /\ \A j \in Items : shot'[q][j].revision \in Nat
                          /\ pub'[q].snapshot \in Nat
      <3> HIDE DEF i
      <3>1. ASSUME NEW q \in Revisions, pub'[q].status # "none"
            PROVE  /\ pub'[q].snapshot <= verification'
                   /\ pub'[q].snapshot # verification'
                   /\ \A j \in Items : shot'[q][j].revision <= Len(ledger'[j])
                   /\ shot'[q][i].revision < Len(ledger'[i])
        BY <2>1, <2>2, <2>3, <2>5, <2>6, <2>7, <3>1
      <3>2. QED BY <2>1, <3>1 DEF ShotRows
    <2>8. CASE /\ pub[q].status # "none" /\ pub'[q].snapshot = pub[q].snapshot
               /\ shot'[q] = shot[q]
      BY <2>8 DEF ShotRows, TypeOK, StoreTypeOK, Publication, Projected
    <2>9. CASE pub'[q].snapshot = verification /\ shot'[q] = Projection
      BY <2>3, <2>4, <2>5, <2>9
    <2>10. QED BY <1>2, <1>3, <2>7, <2>8, <2>9 DEF Accept
  <1>4. ASSUME NEW o \in Operators, Finalize(o) PROVE ShotRows'
    <2>1. /\ KeepShots /\ ledger' = ledger
          /\ FinalizePublication \/ UNCHANGED storeVars
      BY <1>4 DEF Finalize
    <2>2. verification' = verification
      <3>1. CASE FinalizePublication
        BY <3>1, Zenon DEF FinalizePublication
      <3>2. CASE UNCHANGED storeVars
        BY <3>2 DEF storeVars, outcomeVars
      <3>3. QED BY <2>1, <3>1, <3>2
    <2>3. QED BY <1>2, <2>1, <2>2, ShotsKept
  <1>5. ASSUME UNCHANGED <<storeVars, ledger, shot>> PROVE ShotRows'
    BY <1>5 DEF storeVars, outcomeVars, ShotRows, Projection, Effective
  <1>6. ASSUME Review PROVE ShotRows'
    <2>1. ledger' = ledger /\ shot' = shot
      BY <1>6 DEF Review
    <2>2. verification' = verification
      BY <1>6, ReviewKeeps, RevisionsNat DEF TypeOK
    <2>3. \A q \in Revisions : pub'[q].status # "none" =>
            pub[q].status # "none" /\ pub'[q].snapshot = pub[q].snapshot
      BY <1>1, <1>6, ReviewKeeps DEF TypeOK, PublicationKept
    <2>4. QED BY <2>1, <2>2, <2>3, ShotsKept
  <1>7. ASSUME NEW n \in Calls, Serve(n) PROVE ShotRows'
    BY <1>3, <1>5, <1>7 DEF Serve, Replay, Refuse
  <1>8. QED BY <1>4, <1>5, <1>6, <1>7 DEF Next, Submit, GiveUp, Plan, vars

-----------------------------------------------------------------------------
LEMMA InvariantInit == Init => VerificationInvariant
  <1> SUFFICES ASSUME Init PROVE VerificationInvariant
    OBVIOUS
  <1>1. StoreTypeOK /\ StoreInvariant
    BY StoreInitType, StoreInvariantInit DEF Init
  <1>2. \A i \in Items : ledger[i] = <<>> /\ Len(ledger[i]) = 0
    BY EmptySeq DEF Init
  <1>3. ledger \in [Items -> Seq(Verdicts)]
    BY EmptySeq DEF Init
  <1>4. \A i \in Items : Effective(i) \in Projected /\ Effective(i).revision = 0
    BY <1>2 DEF Effective, Projected
  <1>5. Projection \in [Items -> Projected] /\ NoShot \in [Items -> Projected]
    BY <1>4 DEF Projection, NoShot, Projected
  <1>6. shot \in [Revisions -> [Items -> Projected]]
    BY <1>5 DEF Init
  <1>7. TypeOK
    BY <1>1, <1>3, <1>6 DEF Init, TypeOK, Idle, NoCall
  <1>8. ShotRows
    <2>1. verification = 0 /\ \A r \in Revisions : pub[r].snapshot = 0
      BY DEF Init, StoreInit, NoPublication
    <2>2. \A r \in Revisions : pub[r].status # "none" => shot[r] = Projection
      BY DEF Init
    <2>3. \A i \in Items : Projection[i].revision = 0
      BY <1>4 DEF Projection
    <2>4. QED BY <1>2, <2>1, <2>2, <2>3 DEF ShotRows
  <1>9. CallRows /\ DeskRows /\ AnswerMatchesLedger
    BY DEF Init, CallRows, DeskRows, AnswerMatchesLedger, Idle
  <1>10. QED BY <1>1, <1>7, <1>8, <1>9 DEF VerificationInvariant

LEMMA InvariantHolds == Spec => []VerificationInvariant
  <1>1. VerificationInvariant /\ [Next]_vars => VerificationInvariant'
    <2>1. ASSUME VerificationInvariant, [Next]_vars PROVE StoreInvariant'
      BY <2>1, StoreSteps, StoreInvariantStep DEF VerificationInvariant, TypeOK
    <2>2. QED BY <2>1, TypeStep, CallStep, AnswerStep, ShotStep DEF VerificationInvariant
  <1>2. QED BY <1>1, InvariantInit, PTL DEF Spec

(* The rows and the requests are what the tables and the commands hold.    *)
THEOREM VerificationTyped == Spec => []TypeOK
  <1>1. VerificationInvariant => TypeOK
    BY DEF VerificationInvariant
  <1>2. QED BY <1>1, InvariantHolds, PTL

(* The hash of the projection and the number of decisions identify the     *)
(* same snapshots (finalize_verification_snapshot_in_transaction against   *)
(* the count of ReviewStore).                                              *)
THEOREM CountStandsForHash == Spec => []SnapshotIdentifiesLedger
  <1>1. ASSUME VerificationInvariant PROVE SnapshotIdentifiesLedger
    <2>1. TypeOK /\ ShotRows
      BY <1>1 DEF VerificationInvariant
    <2>2. SUFFICES ASSUME NEW r \in Published
                   PROVE  pub[r].snapshot = verification <=> shot[r] = Projection
      BY DEF SnapshotIdentifiesLedger
    <2>3. r \in Revisions /\ pub[r].status # "none"
      BY DEF Published
    <2>4. \A i \in Items : Projection[i].revision = Len(ledger[i]) /\ Len(ledger[i]) \in Nat
      BY <2>1, ProjectionRows, LenProperties DEF TypeOK
    <2>5. verification \in Nat /\ pub[r].snapshot \in Nat
      BY <2>1, <2>3 DEF TypeOK, StoreTypeOK, Publication
    <2>6. QED BY <2>1, <2>3, <2>4, <2>5 DEF ShotRows
  <1>2. QED BY <1>1, InvariantHolds, PTL

(* What submit_evidence_verification_decision reports to its operator is   *)
(* in the log, whatever was lost, repeated or overtaken on the way.        *)
THEOREM AnswersAreRecorded == Spec => []AnswerMatchesLedger
  <1>1. VerificationInvariant => AnswerMatchesLedger
    BY DEF VerificationInvariant
  <1>2. QED BY <1>1, InvariantHolds, PTL

(* A run is never ready for delivery with a snapshot older than the        *)
(* newest verdict.                                                         *)
THEOREM DeliveryFollowsVerdicts == Spec => []DeliveredShowsNewestVerdicts
  <1>1. ASSUME VerificationInvariant PROVE DeliveredShowsNewestVerdicts
    <2>1. TypeOK /\ ShotRows /\ DeliveryAuthorized
      BY <1>1 DEF VerificationInvariant, StoreInvariant
    <2>2. SUFFICES ASSUME run.delivery = "ready", Published # {}
                   PROVE  \E r \in Published : pub[r].current /\ shot[r] = Projection
      BY DEF DeliveredShowsNewestVerdicts
    <2>3. PICK r \in Revisions : /\ pub[r].current /\ pub[r].status = "ready"
                                 /\ pub[r].snapshot = verification
      BY <2>1, <2>2 DEF DeliveryAuthorized
    <2>4. r \in Published /\ shot[r] = Projection
      BY <2>1, <2>3 DEF ShotRows, Published
    <2>5. QED BY <2>3, <2>4
  <1>2. QED BY <1>1, InvariantHolds, PTL

(* Replaying or refusing a decision withdraws nothing, and neither does    *)
(* finalizing or reviewing.                                                *)
THEOREM OnlyVerdictsWithdraw == Spec => WithdrawnByNewVerdict
  <1>1. ASSUME VerificationInvariant, [Next]_vars,
               NEW r \in Revisions, pub[r].current, ~ pub'[r].current
        PROVE  ledger' # ledger
    <2>1. TypeOK /\ StoreInvariant /\ CallRows
      BY <1>1 DEF VerificationInvariant
    <2>2. AcceptVerification
      BY <1>1, <2>1, StoreSteps, PublicationStep DEF TypeOK, PublicationKept
    <2>3. verification' # verification
      <3>1. verification' = verification + 1
        BY <2>2, Zenon DEF AcceptVerification
      <3>2. QED BY <2>1, <3>1 DEF TypeOK, StoreTypeOK
    <2>4. ~ UNCHANGED storeVars
      BY <2>3 DEF storeVars, outcomeVars
    <2>5. ~ Review
      BY <2>1, <2>3, ReviewKeeps DEF TypeOK
    <2>6. ~ FinalizePublication
      BY <2>3, Zenon DEF FinalizePublication
    <2>7. PICK n \in Calls : Accept(n) /\ calls[n] # NoCall
      BY <1>1, <2>4, <2>5, <2>6
      DEF Next, vars, Submit, GiveUp, Plan, Finalize, Serve, Replay, Refuse
    <2>8. calls[n].item \in Items /\ calls[n].action \in Verdicts
      BY <2>1, <2>7 DEF CallRows
    <2>9. /\ Len(ledger'[calls[n].item]) = Len(ledger[calls[n].item]) + 1
          /\ Len(ledger[calls[n].item]) \in Nat
      BY <2>1, <2>7, <2>8, LedgerAppended DEF Accept
    <2>10. QED BY <2>9
  <1>2. VerificationInvariant /\ [Next]_vars =>
          [(\E r \in Revisions : pub[r].current /\ ~ pub'[r].current)
              => ledger' # ledger]_vars
    BY <1>1
  <1>3. QED BY <1>2, InvariantHolds, PTL DEF Spec, WithdrawnByNewVerdict

-----------------------------------------------------------------------------
(* Reading a result: what a transaction does to a run and what it delivers. *)

(* The run row changes only together with its version. *)
LEMMA RunStep ==
  ASSUME StoreTypeOK, [StoreNext]_storeVars
  PROVE  run' = run \/ run'.version = run.version + 1
  <1>1. ASSUME NEW w \in Workers, NEW r \in Revisions, WorkerTx(w, r)
        PROVE  run' = run \/ run'.version = run.version + 1
    <2>1. ASSUME NEW d \in DecisionIds \cup {NoDecision}, ResolveReview(w, r, d)
          PROVE  run'.version = run.version + 1
      BY <2>1 DEF ResolveReview
    <2>2. CASE ~ \E d \in DecisionIds \cup {NoDecision} : ResolveReview(w, r, d)
      BY <1>1, <2>2 DEF WorkerTx, ClaimReviewWorkflow, CompleteCheckpointCreation,
         MarkResolutionPending, ReleaseWorkflowForRetry, OwnerGivesUp
    <2>3. QED BY <2>1, <2>2
  <1>2. ASSUME NEW r \in Revisions, ReconcilerTx(r) PROVE run' = run
    BY <1>2 DEF ReconcilerTx, MarkWaitingDecision, ReconcileResolution,
       ReleaseExpiredLease, ReconcilerGivesUp, ExpireLease
  <1>3. ASSUME AcceptVerification PROVE run' = run \/ run'.version = run.version + 1
    <2>1. run' = run \/ RequireReview(run.version + 1)
      BY <1>3, Zenon DEF AcceptVerification
    <2>2. QED BY <2>1 DEF RequireReview
  <1>4. ASSUME FinalizePublication PROVE run' = run \/ run'.version = run.version + 1
    <2>1. run' = run \/ \E r \in Revisions : InsertWorkflow(r)
      BY <1>4 DEF FinalizePublication
    <2>2. QED BY <2>1 DEF InsertWorkflow, RequireReview
  <1>5. ASSUME NEW d \in DecisionIds, AcceptDecision(d) PROVE run'.version = run.version + 1
    BY <1>5 DEF AcceptDecision, StoreTypeOK
  <1>6. ASSUME NEW d \in DecisionIds, NEW r \in Revisions, NEW a \in Actions,
               ComposeDecision(d, r, a)
        PROVE  run' = run
    BY <1>6 DEF ComposeDecision
  <1>7. CASE UNCHANGED storeVars
    BY <1>7 DEF storeVars
  <1>8. QED BY <1>1, <1>2, <1>3, <1>4, <1>5, <1>6, <1>7 DEF StoreNext, ClientTx

(* While the run row stays, so does what a ready run delivers: at most the *)
(* baseline is adopted, and as it was approved.                            *)
BaselineAdopted ==
  /\ Published = {}
  /\ pub'[1].current /\ pub'[1].status = "ready" /\ "draft" \in pub'[1].artifacts

LEMMA ReadyStep ==
  ASSUME StoreTypeOK, StoreInvariant, [StoreNext]_storeVars,
         run' = run, run.delivery = "ready"
  PROVE  pub' = pub \/ BaselineAdopted
  <1> USE DEF StoreTypeOK
  <1>0. RowsInvariant /\ DeliveryAuthorized
    BY DEF StoreInvariant, RowsInvariant
  <1>1. ASSUME NEW w \in Workers, NEW r \in Revisions, WorkerTx(w, r)
        PROVE  pub' = pub
    <2>1. ASSUME NEW d \in DecisionIds \cup {NoDecision}, ResolveReview(w, r, d)
          PROVE  run'.version = run.version + 1
      BY <2>1 DEF ResolveReview
    <2>2. ~ \E d \in DecisionIds \cup {NoDecision} : ResolveReview(w, r, d)
      BY <2>1
    <2>3. QED BY <1>1, <2>2 DEF WorkerTx, ClaimReviewWorkflow, CompleteCheckpointCreation,
         MarkResolutionPending, ReleaseWorkflowForRetry, OwnerGivesUp, outcomeVars
  <1>2. ASSUME NEW r \in Revisions, ReconcilerTx(r) PROVE pub' = pub
    BY <1>2 DEF ReconcilerTx, MarkWaitingDecision, ReconcileResolution,
       ReleaseExpiredLease, ReconcilerGivesUp, ExpireLease, outcomeVars
  <1>3. CASE AcceptVerification \/ FinalizePublication
    <2>1. PICK pubs : pubs = AdoptedBaseline /\ AdoptedOK(pubs)
      BY <1>0, AdoptedRows
    <2>2. \E r \in Revisions : pubs[r].current
      BY <2>1 DEF AdoptedOK
    <2>3. ~ AcceptVerification
      <3>1. SUFFICES ASSUME AcceptVerification PROVE FALSE
        OBVIOUS
      <3>2. {q \in Revisions : pubs[q].current} # {}
        BY <2>2
      <3>3. RequireReview(run.version + 1)
        BY <2>1, <3>1, <3>2, Zenon DEF AcceptVerification
      <3>4. QED BY <3>3 DEF RequireReview
    <2>4. pub' = pubs
      <3>1. pub' = pubs \/ \E r \in Revisions : InsertWorkflow(r)
        BY <1>3, <2>1, <2>3 DEF FinalizePublication
      <3>2. QED BY <3>1 DEF InsertWorkflow, RequireReview
    <2>5. CASE Published # {}
      BY <2>1, <2>4, <2>5 DEF AdoptedBaseline, Published
    <2>6. CASE Published = {}
      <3>1. verification = 0 /\ (baseline = "not_required" \/ resolution[1] = "approve")
        BY <1>0, <2>6 DEF DeliveryAuthorized, RowsInvariant, PublicationRows, Published
      <3>2. BaselineStatus = "ready"
        BY <3>1 DEF BaselineStatus
      <3>3. /\ pubs[1].status = BaselineStatus /\ pubs[1].current = (BaselineStatus # "stale")
            /\ "draft" \in pubs[1].artifacts
        BY <2>1, <2>6, RevisionsNat DEF AdoptedBaseline, Published
      <3>4. QED BY <2>4, <2>6, <3>2, <3>3 DEF BaselineAdopted
    <2>7. QED BY <2>5, <2>6
  <1>4. CASE \E d \in DecisionIds : AcceptDecision(d)
    BY <1>4 DEF AcceptDecision, outcomeVars
  <1>5. CASE \E d \in DecisionIds, r \in Revisions, a \in Actions : ComposeDecision(d, r, a)
    BY <1>5 DEF ComposeDecision, outcomeVars
  <1>6. CASE UNCHANGED storeVars
    BY <1>6 DEF storeVars, outcomeVars
  <1>7. QED BY <1>1, <1>2, <1>3, <1>4, <1>5, <1>6 DEF StoreNext, ClientTx

(* A publication is never without an artifact. *)
ArtifactRows == \A r \in Revisions : pub[r].status # "none" => pub[r].artifacts # {}

LEMMA ArtifactStep ==
  ASSUME StoreTypeOK, StoreInvariant, ArtifactRows, [StoreNext]_storeVars
  PROVE  ArtifactRows'
  <1> USE DEF StoreTypeOK
  <1>0. RowsInvariant
    BY DEF StoreInvariant, RowsInvariant
  <1>1. ASSUME pub' = pub PROVE ArtifactRows'
    BY <1>1 DEF ArtifactRows
  <1>2. ASSUME NEW w \in Workers, NEW r \in Revisions, WorkerTx(w, r)
        PROVE  ArtifactRows'
    <2>1. ASSUME NEW d \in DecisionIds \cup {NoDecision}, ResolveReview(w, r, d)
          PROVE  ArtifactRows'
      <3>1. \/ pub' = pub
            \/ /\ pub[r].status # "none"
               /\ \E s, a : /\ a \in {{"reviewed"}, pub[r].artifacts}
                            /\ pub' = [pub EXCEPT ![r] =
                                         [@ EXCEPT !.status = s, !.artifacts = a]]
        BY <2>1 DEF ResolveReview
      <3>2. ASSUME pub[r].status # "none", NEW s, NEW a \in {{"reviewed"}, pub[r].artifacts},
                   pub' = [pub EXCEPT ![r] = [@ EXCEPT !.status = s, !.artifacts = a]]
            PROVE  ArtifactRows'
        <4>1. pub[r] \in Publication
          OBVIOUS
        <4>2. pub'[r].artifacts = a
          BY <3>2, <4>1 DEF Publication
        <4>3. pub'[r].artifacts # {}
          BY <3>2, <4>2 DEF ArtifactRows
        <4>4. \A q \in Revisions : q # r => pub'[q] = pub[q]
          BY <3>2
        <4>5. QED BY <4>3, <4>4 DEF ArtifactRows
      <3>3. QED BY <1>1, <3>1, <3>2
    <2>2. ASSUME NEW d \in DecisionIds \cup {NoDecision}, MarkResolutionPending(w, r, d)
          PROVE  pub' = pub
      BY <2>2 DEF MarkResolutionPending, outcomeVars
    <2>3. CASE \/ ClaimReviewWorkflow(w, r) \/ CompleteCheckpointCreation(w, r)
               \/ ReleaseWorkflowForRetry(w, r) \/ OwnerGivesUp(w, r)
      BY <1>1, <2>3 DEF ClaimReviewWorkflow, CompleteCheckpointCreation,
         ReleaseWorkflowForRetry, OwnerGivesUp, outcomeVars
    <2>4. QED BY <1>1, <1>2, <2>1, <2>2, <2>3 DEF WorkerTx
  <1>3. ASSUME NEW r \in Revisions, ReconcilerTx(r) PROVE pub' = pub
    BY <1>3 DEF ReconcilerTx, MarkWaitingDecision, ReconcileResolution,
       ReleaseExpiredLease, ReconcilerGivesUp, ExpireLease, outcomeVars
  <1>4. CASE AcceptVerification \/ FinalizePublication
    <2>1. PICK pubs : pubs = AdoptedBaseline /\ AdoptedOK(pubs)
      BY <1>0, AdoptedRows
    <2>2. \A q \in Revisions : pubs[q].status # "none" => pubs[q].artifacts # {}
      <3>1. CASE Published # {}
        BY <2>1, <3>1 DEF AdoptedBaseline, Published, ArtifactRows
      <3>2. CASE Published = {}
        <4>1. /\ "draft" \in pubs[1].artifacts
              /\ \A q \in Revisions : q # 1 => pubs[q] = pub[q]
          BY <2>1, <3>2, RevisionsNat DEF AdoptedBaseline, Published
        <4>2. QED BY <4>1 DEF ArtifactRows
      <3>3. QED BY <3>1, <3>2
    <2>3. pubs \in [Revisions -> Publication]
      BY <2>1 DEF AdoptedOK
    <2>4. CASE AcceptVerification
      <3>1. pub' = [r \in Revisions |->
                      IF r \in {s \in Revisions : AdoptedBaseline[s].current}
                      THEN [AdoptedBaseline[r] EXCEPT !.status = "stale", !.current = FALSE]
                      ELSE AdoptedBaseline[r]]
        BY <2>4, Zenon DEF AcceptVerification
      <3>2. ASSUME NEW q \in Revisions, pub'[q].status # "none" PROVE pub'[q].artifacts # {}
        <4>1. pubs[q].current => pubs[q].status # "none"
          BY <2>1 DEF AdoptedOK
        <4>2. pubs[q] \in Publication
          BY <2>3
        <4>3. /\ pub'[q].artifacts = pubs[q].artifacts
              /\ ~ pubs[q].current => pub'[q] = pubs[q]
          BY <2>1, <3>1, <4>2 DEF Publication
        <4>4. QED BY <2>2, <3>2, <4>1, <4>3
      <3>3. QED BY <3>2 DEF ArtifactRows
    <2>5. CASE FinalizePublication
      <3>1. \/ pub' = pubs
            \/ \E r \in Revisions :
                 pub' = [pubs EXCEPT ![r] =
                           [status |-> "review_required", current |-> TRUE,
                            snapshot |-> verification, artifacts |-> {"draft"}]]
        BY <2>1, <2>5 DEF FinalizePublication
      <3>2. CASE pub' = pubs
        BY <2>2, <3>2 DEF ArtifactRows
      <3>3. CASE pub' # pubs
        <4>1. PICK r \in Revisions :
                pub' = [pubs EXCEPT ![r] =
                          [status |-> "review_required", current |-> TRUE,
                           snapshot |-> verification, artifacts |-> {"draft"}]]
          BY <3>1, <3>3
        <4>2. /\ pub'[r].artifacts = {"draft"}
              /\ \A q \in Revisions : q # r => pub'[q] = pubs[q]
          BY <2>3, <4>1
        <4>3. QED BY <2>2, <4>2 DEF ArtifactRows
      <3>4. QED BY <3>2, <3>3
    <2>6. QED BY <1>4, <2>4, <2>5
  <1>5. CASE \E d \in DecisionIds : AcceptDecision(d)
    BY <1>1, <1>5 DEF AcceptDecision, outcomeVars
  <1>6. CASE \E d \in DecisionIds, r \in Revisions, a \in Actions : ComposeDecision(d, r, a)
    BY <1>1, <1>6 DEF ComposeDecision, outcomeVars
  <1>7. CASE UNCHANGED storeVars
    BY <1>1, <1>7 DEF storeVars, outcomeVars
  <1>8. QED BY <1>1, <1>2, <1>3, <1>4, <1>5, <1>6, <1>7 DEF StoreNext, ClientTx

-----------------------------------------------------------------------------
(* While the run has the version of the first SELECT, everything read so   *)
(* far is as the tables still have it.                                     *)
ReadRows ==
  /\ row.version <= run.version
  /\ stage \in {"publication", "artifact"} /\ row.version = run.version =>
       row.delivery = run.delivery
  /\ stage = "artifact" /\ row.version = run.version /\ row.delivery = "ready" =>
       FromReadyPublication(SelectArtifact) /\ (Published = {} => current.rev = 0)

ReadInvariant == ResultTypeOK /\ StoreInvariant /\ ArtifactRows /\ ReadRows

LEMMA SelectType ==
  ASSUME ResultTypeOK
  PROVE  SelectArtifact \in [rev : 0 .. MaxRevision, kind : {"draft", "reviewed"}]
  BY StoreAssumption DEF ResultTypeOK, SelectArtifact

LEMMA RevisionRange ==
  \A r \in Revisions : r \in Nat /\ r # 0 /\ r \in 0 .. MaxRevision
  BY StoreAssumption DEF Revisions

LEMMA ResultTypeStep ==
  ASSUME ResultTypeOK, [ResultNext]_resultVars
  PROVE  ResultTypeOK'
  <1>1. StoreTypeOK'
    BY StoreStepType
    DEF ResultTypeOK, ResultNext, ReadRun, ReadPublication, GetArtifact, Transaction,
        resultVars
  <1>2. CASE ReadRun
    <2>1. /\ row' \in [delivery : {"review_required", "ready", "blocked"}, version : Nat]
          /\ delivered' \in [rev : 0 .. MaxRevision, kind : {"none", "draft", "reviewed"}]
      BY <1>2, StoreAssumption DEF ResultTypeOK, ReadRun, StoreTypeOK, NoArtifact
    <2>2. QED BY <1>1, <1>2, <2>1 DEF ResultTypeOK, ReadRun
  <1>3. CASE ReadPublication
    <2>0. \A r \in Revisions : pub[r] \in Publication
      BY DEF ResultTypeOK, StoreTypeOK
    <2>1. ASSUME NEW r \in Revisions
          PROVE  /\ pub[r].status \in PubStatuses /\ r \in 0 .. MaxRevision
                 /\ pub[r].artifacts \in SUBSET {"draft", "reviewed"}
      BY <2>0, RevisionRange DEF Publication
    <2>2. NoCurrent \in [rev : 0 .. MaxRevision, status : PubStatuses,
                         artifacts : SUBSET {"draft", "reviewed"}]
      BY StoreAssumption DEF NoCurrent, PubStatuses
    <2>3. current' \in [rev : 0 .. MaxRevision, status : PubStatuses,
                        artifacts : SUBSET {"draft", "reviewed"}]
      BY <1>3, <2>1, <2>2 DEF ReadPublication
    <2>4. QED BY <1>1, <1>3, <2>3 DEF ResultTypeOK, ReadPublication
  <1>4. CASE GetArtifact
    BY <1>1, <1>4, SelectType DEF ResultTypeOK, GetArtifact
  <1>5. CASE Transaction \/ UNCHANGED resultVars
    BY <1>1, <1>5 DEF ResultTypeOK, Transaction, readerVars, resultVars
  <1>6. QED BY <1>2, <1>3, <1>4, <1>5 DEF ResultNext

(* The publication read is the one the run's delivery is about. *)
LEMMA PublicationRead ==
  ASSUME ResultTypeOK, StoreInvariant, ArtifactRows, ReadPublication, run.delivery = "ready"
  PROVE  FromReadyPublication(SelectArtifact)' /\ (Published = {} => current'.rev = 0)
  <1>0. /\ DeliveryAuthorized /\ PublicationRows /\ pub' = pub
        /\ \A r \in Revisions : r \in Nat /\ r # 0 /\ pub[r] \in Publication
    BY RevisionRange
    DEF StoreInvariant, ReadPublication, storeVars, outcomeVars, ResultTypeOK, StoreTypeOK
  <1>1. CASE Published = {}
    <2>1. \A r \in Revisions : ~ pub[r].current
      BY <1>0, <1>1 DEF PublicationRows, Published
    <2>2. current' = NoCurrent
      BY <2>1 DEF ReadPublication
    <2>3. QED BY <1>0, <1>1, <2>2 DEF NoCurrent, SelectArtifact, FromReadyPublication, Published
  <1>2. CASE Published # {}
    <2>1. PICK r \in Revisions : pub[r].current /\ pub[r].status = "ready"
      BY <1>0, <1>2 DEF DeliveryAuthorized
    <2>2. \A s \in Revisions : pub[s].current => s = r
      BY <1>0, <2>1 DEF PublicationRows, Revisions
    <2>3. current' = [rev |-> r, status |-> pub[r].status, artifacts |-> pub[r].artifacts]
      BY <2>1, <2>2 DEF ReadPublication
    <2>4. pub[r].artifacts # {} /\ pub[r].artifacts \in SUBSET {"draft", "reviewed"}
      BY <1>0, <2>1 DEF ArtifactRows, Publication
    <2>5. /\ SelectArtifact'.rev = r
          /\ SelectArtifact'.kind \in pub[r].artifacts
      BY <1>0, <2>3, <2>4 DEF SelectArtifact
    <2>6. r \in Published'
      BY <1>0, <2>1 DEF Published
    <2>7. FromReadyPublication(SelectArtifact)'
      BY <1>0, <2>1, <2>5, <2>6 DEF FromReadyPublication
    <2>8. QED BY <1>2, <2>7
  <1>3. QED BY <1>1, <1>2

LEMMA ReadStep ==
  ASSUME ReadInvariant, [ResultNext]_resultVars
  PROVE  ReadInvariant'
  <1>0. ResultTypeOK /\ StoreTypeOK /\ StoreInvariant /\ ArtifactRows /\ ReadRows
    BY DEF ReadInvariant, ResultTypeOK
  <1>1. [StoreNext]_storeVars
    BY DEF ResultNext, ReadRun, ReadPublication, GetArtifact, Transaction, resultVars
  <1>2. ResultTypeOK' /\ StoreInvariant' /\ ArtifactRows'
    BY <1>0, <1>1, ResultTypeStep, StoreInvariantStep, ArtifactStep
  <1>3. run.version \in Nat /\ row.version \in Nat
    BY <1>0 DEF ResultTypeOK, StoreTypeOK
  <1>4. CASE ReadRun
    <2>1. run' = run
      BY <1>4 DEF ReadRun, storeVars
    <2>2. QED BY <1>2, <1>3, <1>4, <2>1 DEF ReadInvariant, ReadRows, ReadRun
  <1>5. CASE ReadPublication
    <2>1. run' = run /\ row' = row /\ stage = "publication" /\ Published' = Published
      BY <1>5 DEF ReadPublication, storeVars, outcomeVars, Published
    <2>2. ReadRows'
      BY <1>0, <1>5, <2>1, PublicationRead DEF ReadRows
    <2>3. QED BY <1>2, <2>2 DEF ReadInvariant
  <1>6. CASE GetArtifact
    <2>1. run' = run /\ row' = row /\ stage' \in {"delivered", "refused"}
      BY <1>6 DEF GetArtifact, storeVars
    <2>2. QED BY <1>0, <1>2, <2>1 DEF ReadInvariant, ReadRows
  <1>7. CASE Transaction \/ UNCHANGED resultVars
    <2>1. UNCHANGED <<stage, row, current>> /\ SelectArtifact' = SelectArtifact
      BY <1>7 DEF Transaction, readerVars, resultVars, SelectArtifact
    <2>2. CASE run' # run
      <3>1. run'.version = run.version + 1
        BY <1>0, <1>1, <2>2, RunStep
      <3>2. row'.version <= run'.version /\ row'.version # run'.version
        BY <1>0, <1>3, <2>1, <3>1 DEF ReadRows
      <3>3. QED BY <1>2, <3>2 DEF ReadInvariant, ReadRows
    <2>3. CASE run' = run
      <3>1. ASSUME stage' = "artifact", row'.version = run'.version, row'.delivery = "ready"
            PROVE  FromReadyPublication(SelectArtifact)' /\ (Published' = {} => current'.rev = 0)
        <4>1. /\ FromReadyPublication(SelectArtifact) /\ (Published = {} => current.rev = 0)
              /\ run.delivery = "ready"
          BY <1>0, <2>1, <2>3, <3>1 DEF ReadRows
        <4>2. pub' = pub \/ BaselineAdopted
          BY <1>0, <1>1, <2>3, <4>1, ReadyStep
        <4>3. CASE pub' = pub
          BY <2>1, <4>1, <4>3 DEF FromReadyPublication, Published
        <4>4. CASE BaselineAdopted
          <5>1. current.rev = 0
            BY <4>1, <4>4 DEF BaselineAdopted
          <5>2. SelectArtifact' = [rev |-> 1, kind |-> "draft"]
            BY <2>1, <5>1 DEF SelectArtifact
          <5>3. 1 \in Published'
            BY <4>4, RevisionsNat DEF BaselineAdopted, Published
          <5>4. QED BY <2>1, <4>4, <5>1, <5>2, <5>3 DEF BaselineAdopted, FromReadyPublication
        <4>5. QED BY <4>2, <4>3, <4>4
      <3>2. ReadRows'
        BY <1>0, <2>1, <2>3, <3>1 DEF ReadRows
      <3>3. QED BY <1>2, <3>2 DEF ReadInvariant
    <2>4. QED BY <2>2, <2>3
  <1>8. QED BY <1>4, <1>5, <1>6, <1>7 DEF ResultNext

LEMMA ReadInit == ResultInit => ReadInvariant
  <1> SUFFICES ASSUME ResultInit PROVE ReadInvariant
    OBVIOUS
  <1>1. StoreTypeOK /\ StoreInvariant
    BY StoreInitType, StoreInvariantInit DEF ResultInit
  <1>2. ResultTypeOK
    BY <1>1, StoreAssumption
    DEF ResultInit, ResultTypeOK, StoreTypeOK, NoCurrent, NoArtifact, PubStatuses
  <1>3. ArtifactRows
    BY DEF ResultInit, StoreInit, ArtifactRows, NoPublication
  <1>4. ReadRows
    BY <1>1 DEF ResultInit, StoreTypeOK, ReadRows
  <1>5. QED BY <1>1, <1>2, <1>3, <1>4 DEF ReadInvariant

LEMMA ReadInvariantHolds == ResultSpec => []ReadInvariant
  BY ReadInit, ReadStep, PTL DEF ResultSpec

(* The reader's state is what the SELECTs can return. *)
THEOREM ReadsAreTyped == ResultSpec => []ResultTypeOK
  <1>1. ReadInvariant => ResultTypeOK
    BY DEF ReadInvariant
  <1>2. QED BY <1>1, ReadInvariantHolds, PTL

(* state_version fences the reads of resolve_run_result. *)
THEOREM VersionFencesReads == ResultSpec => UnchangedVersionDelivers
  <1>1. ASSUME ReadInvariant, [ResultNext]_resultVars
        PROVE  [stage' = "delivered" /\ stage # "delivered" /\ run.version = row.version
                  => FromReadyPublication(delivered')]_resultVars
    <2>1. SUFFICES ASSUME stage' = "delivered", stage # "delivered", run.version = row.version
                   PROVE  FromReadyPublication(delivered')
      OBVIOUS
    <2>2. GetArtifact
      BY <1>1, <2>1 DEF ResultNext, ReadRun, ReadPublication, Transaction, readerVars,
                        resultVars
    <2>3. stage = "artifact" /\ row.delivery = "ready" /\ delivered' = SelectArtifact
      BY <2>1, <2>2 DEF GetArtifact, Deliverable
    <2>4. FromReadyPublication(SelectArtifact)
      BY <1>1, <2>1, <2>3 DEF ReadInvariant, ReadRows
    <2>5. QED BY <2>3, <2>4
  <1>2. QED BY <1>1, ReadInvariantHolds, PTL DEF ResultSpec, UnchangedVersionDelivers
===============================================================================
