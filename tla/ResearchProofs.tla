---------------------------- MODULE ResearchProofs ----------------------------
(***************************************************************************)
(* What a run learns and what it makes of it: the searches of all runs     *)
(* (SearchCache), for any threads, runs, queries and limits, without an    *)
(* assumption about the constants, and the end of an execution and what is *)
(* delivered of it (ClaimReview), for any evidence, samples and answers of *)
(* the model.                                                              *)
(***************************************************************************)
EXTENDS SearchCache, ClaimReview, WellFoundedInduction, NaturalsInduction, TLAPS

-----------------------------------------------------------------------------
(* Searches.                                                               *)

(* A working call has a run and a query; what it is about to store in the  *)
(* shared cache was found, and an error it is about to remember is one of  *)
(* its own run.                                                            *)
CallKnows(c) ==
  c.at # "idle" =>
    /\ c.run \in Runs /\ c.query \in Queries
    /\ c.at = "put" => c.answer = "found"
    /\ c.at \in {"count", "evict", "keep"} =>
         c.answer = "found" \/ (c.answer = "error" /\ failed[c.run] # {})

SearchInv ==
  /\ SearchTypeOK
  /\ \A t \in Threads : CallKnows(call[t])
  /\ \A e \in store : e.answer = "found"
  /\ AnswersAreRemembered
  /\ ErrorsStayInTheirRun

LEMMA InitSearchInv ==
  ASSUME SearchInit PROVE SearchInv
  <1>1. Idle \in CallType
    BY DEF Idle, CallType
  <1>2. SearchTypeOK
    BY <1>1 DEF SearchInit, SearchTypeOK
  <1>3. QED BY <1>2 DEF SearchInit, SearchInv, CallKnows, Idle, AnswersAreRemembered,
                       ErrorsStayInTheirRun

(* A step of a call that only moves on: memory stays, failures are added.  *)
LEMMA MoveInv ==
  ASSUME SearchInv, NEW t \in Threads, NEW new \in CallType,
         call' = [call EXCEPT ![t] = new], CallKnows(new)',
         store' \in SUBSET Entry, \A e \in store' : e.answer = "found", clock' \in Nat,
         failed' \in [Runs -> SUBSET {"service", "cache"}],
         \A r \in Runs : failed[r] \subseteq failed'[r],
         UNCHANGED <<going, memory, answered>>
  PROVE  SearchInv'
  <1>1. SearchTypeOK'
    BY DEF SearchInv, SearchTypeOK
  <1>2. ASSUME NEW u \in Threads PROVE CallKnows(call[u])'
    <2>1. CASE u = t
      <3>1. call'[u] = new
        BY <2>1 DEF SearchInv, SearchTypeOK
      <3>2. QED BY <3>1 DEF CallKnows
    <2>2. CASE u # t
      <3>1. call'[u] = call[u] /\ CallKnows(call[u]) /\ call[u] \in CallType
        BY <2>2 DEF SearchInv, SearchTypeOK
      <3>2. call[u].at # "idle" => failed[call[u].run] \subseteq failed'[call[u].run]
        BY <3>1 DEF CallKnows
      <3>3. QED BY <3>1, <3>2 DEF CallKnows
    <2>3. QED BY <2>1, <2>2
  <1>3. AnswersAreRemembered'
    BY DEF SearchInv, AnswersAreRemembered, Remembered
  <1>4. ErrorsStayInTheirRun'
    BY DEF SearchInv, ErrorsStayInTheirRun
  <1>5. QED BY <1>1, <1>2, <1>3, <1>4 DEF SearchInv

(* Goto, Answer and Raise, applied to a call that has not started to store *)
(* its answer or that already has.                                         *)
LEMMA GotoInv ==
  ASSUME SearchInv, NEW t \in Threads, NEW from, from # "idle",
         NEW to \in {"look", "read", "drop", "request", "count", "evict", "keep"},
         Goto(t, from, to),
         to \in {"count", "evict", "keep"} => from \in {"put", "count", "evict"},
         store' \in SUBSET Entry, \A e \in store' : e.answer = "found", clock' \in Nat,
         UNCHANGED <<going, memory, answered>>
  PROVE  SearchInv'
  <1>1. call \in [Threads -> CallType] /\ CallKnows(call[t]) /\ call[t].at = from
        /\ call' = [call EXCEPT ![t].at = to] /\ UNCHANGED failed
        /\ failed \in [Runs -> SUBSET {"service", "cache"}]
    BY DEF SearchInv, SearchTypeOK, Goto
  <1>2. PICK new \in CallType :
          /\ new = [call[t] EXCEPT !.at = to]
          /\ new.at = to /\ new.run = call[t].run /\ new.query = call[t].query
          /\ new.answer = call[t].answer
    BY <1>1 DEF CallType
  <1>3. CallKnows(new)'
    BY <1>1, <1>2 DEF CallKnows
  <1>4. call' = [call EXCEPT ![t] = new]
    BY <1>1, <1>2
  <1>5. QED BY <1>1, <1>3, <1>4, MoveInv

LEMMA AnswerInv ==
  ASSUME SearchInv, NEW t \in Threads, NEW from, from # "idle",
         NEW to \in {"put", "keep"}, Answer(t, from, to, "found"),
         UNCHANGED <<going, memory, store, clock, answered>>
  PROVE  SearchInv'
  <1>1. call \in [Threads -> CallType] /\ CallKnows(call[t]) /\ call[t].at = from
        /\ call' = [call EXCEPT ![t].at = to, ![t].answer = "found"] /\ UNCHANGED failed
        /\ failed \in [Runs -> SUBSET {"service", "cache"}] /\ store \in SUBSET Entry
        /\ clock \in Nat /\ \A e \in store : e.answer = "found"
    BY DEF SearchInv, SearchTypeOK, Answer
  <1>2. PICK new \in CallType :
          /\ new = [call[t] EXCEPT !.at = to, !.answer = "found"]
          /\ new.at = to /\ new.run = call[t].run /\ new.query = call[t].query
          /\ new.answer = "found"
    <2> DEFINE moved == [call[t] EXCEPT !.at = to]
               done  == [moved EXCEPT !.answer = "found"]
    <2>1. /\ moved \in CallType /\ moved.at = to /\ moved.run = call[t].run
          /\ moved.query = call[t].query
      BY <1>1 DEF CallType
    <2>2. done = [call[t] EXCEPT !.at = to, !.answer = "found"]
      OBVIOUS
    <2> HIDE DEF moved
    <2>3. /\ done \in CallType /\ done.at = to /\ done.run = call[t].run
          /\ done.query = call[t].query /\ done.answer = "found"
      BY <2>1 DEF CallType, Answers
    <2> HIDE DEF done
    <2>4. QED BY <2>2, <2>3
  <1>3. CallKnows(new)'
    BY <1>1, <1>2 DEF CallKnows
  <1>4. call' = [call EXCEPT ![t] = new]
    BY <1>1, <1>2
  <1>5. QED BY <1>1, <1>3, <1>4, MoveInv

LEMMA RaiseInv ==
  ASSUME SearchInv, NEW t \in Threads, NEW from, from # "idle",
         NEW cause \in {"service", "cache"}, Raise(t, from, cause),
         store' \in SUBSET Entry, \A e \in store' : e.answer = "found",
         UNCHANGED <<going, memory, clock, answered>>
  PROVE  SearchInv'
  <1>1. call \in [Threads -> CallType] /\ CallKnows(call[t]) /\ call[t].at = from
        /\ call' = [call EXCEPT ![t].at = "keep", ![t].answer = "error"]
        /\ failed' = [failed EXCEPT ![call[t].run] = @ \cup {cause}]
        /\ failed \in [Runs -> SUBSET {"service", "cache"}] /\ clock \in Nat
    BY DEF SearchInv, SearchTypeOK, Raise, Run
  <1>2. PICK new \in CallType :
          /\ new = [call[t] EXCEPT !.at = "keep", !.answer = "error"]
          /\ new.at = "keep" /\ new.run = call[t].run /\ new.query = call[t].query
          /\ new.answer = "error"
    <2> DEFINE moved == [call[t] EXCEPT !.at = "keep"]
               done  == [moved EXCEPT !.answer = "error"]
    <2>1. /\ moved \in CallType /\ moved.at = "keep" /\ moved.run = call[t].run
          /\ moved.query = call[t].query
      BY <1>1 DEF CallType
    <2>2. done = [call[t] EXCEPT !.at = "keep", !.answer = "error"]
      OBVIOUS
    <2> HIDE DEF moved
    <2>3. /\ done \in CallType /\ done.at = "keep" /\ done.run = call[t].run
          /\ done.query = call[t].query /\ done.answer = "error"
      BY <2>1 DEF CallType, Answers
    <2> HIDE DEF done
    <2>4. QED BY <2>2, <2>3
  <1>3. new.run \in Runs /\ failed'[new.run] # {}
        /\ failed' \in [Runs -> SUBSET {"service", "cache"}]
        /\ \A r \in Runs : failed[r] \subseteq failed'[r]
    BY <1>1, <1>2 DEF CallKnows
  <1>4. CallKnows(new)'
    BY <1>1, <1>2, <1>3 DEF CallKnows
  <1>5. call' = [call EXCEPT ![t] = new]
    BY <1>1, <1>2
  <1>6. QED BY <1>1, <1>3, <1>4, <1>5, MoveInv

LEMMA StartInv ==
  ASSUME SearchInv, NEW t \in Threads, NEW r \in Runs, NEW q \in Queries, Start(t, r, q)
  PROVE  SearchInv'
  <1>1. Working(r, q) \in CallType
    BY DEF Working, CallType
  <1>2. CallKnows(Working(r, q))'
    BY DEF CallKnows, Working
  <1>3. QED BY <1>1, <1>2, MoveInv DEF Start, SearchInv, SearchTypeOK

LEMMA CheckInv ==
  ASSUME SearchInv, NEW t \in Threads, Check(t)
  PROVE  SearchInv'
  <1>1. store' \in SUBSET Entry /\ (\A e \in store' : e.answer = "found") /\ clock' \in Nat
        /\ UNCHANGED <<going, memory, answered>>
    BY DEF SearchInv, SearchTypeOK, Check
  <1>2. CASE call' = [call EXCEPT ![t] = Idle] /\ UNCHANGED failed
    <2>1. Idle \in CallType /\ CallKnows(Idle)'
      BY DEF Idle, CallType, CallKnows
    <2>2. QED BY <1>1, <1>2, <2>1, MoveInv DEF SearchInv, SearchTypeOK
  <1>3. CASE Goto(t, "check", "look")
    BY <1>1, <1>3, GotoInv
  <1>4. QED BY <1>2, <1>3 DEF Check

LEMMA ReadInv ==
  ASSUME SearchInv, NEW t \in Threads, Look(t) \/ Read(t)
  PROVE  SearchInv'
  <1>1. /\ store' \in SUBSET Entry /\ clock' \in Nat
        /\ \A e \in store' : e.answer = "found"
        /\ \A e \in EntryOf(Query(t)) : e.answer = "found"
        /\ UNCHANGED <<going, memory, store, clock, answered>>
    BY DEF SearchInv, SearchTypeOK, Look, Read, EntryOf
  <1>2. CASE Look(t)
    BY <1>1, <1>2, GotoInv DEF Look
  <1>3. CASE Read(t)
    <2>1. CASE \E e \in EntryOf(Query(t)) : e.fresh /\ Answer(t, "read", "keep", e.answer)
      BY <1>1, <2>1, AnswerInv
    <2>2. CASE Goto(t, "read", "drop")
      BY <1>1, <2>2, GotoInv
    <2>3. CASE Raise(t, "read", "cache")
      BY <1>1, <2>3, RaiseInv
    <2>4. QED BY <1>3, <2>1, <2>2, <2>3 DEF Read
  <1>4. QED BY <1>2, <1>3

LEMMA RequestInv ==
  ASSUME SearchInv, NEW t \in Threads, Drop(t) \/ Found(t) \/ Retry(t) \/ GiveUp(t)
  PROVE  SearchInv'
  <1>0. /\ call \in [Threads -> CallType] /\ store \in SUBSET Entry /\ clock \in Nat
        /\ \A e \in store : e.answer = "found"
        /\ CallKnows(call[t]) /\ failed \in [Runs -> SUBSET {"service", "cache"}]
    BY DEF SearchInv, SearchTypeOK
  <1>1. CASE Drop(t)
    <2>1. store' \in SUBSET Entry /\ \A e \in store' : e.answer = "found"
      BY <1>0, <1>1 DEF Drop, Without
    <2>2. QED BY <1>0, <1>1, <2>1, GotoInv, RaiseInv DEF Drop
  <1>2. CASE Found(t)
    BY <1>2, AnswerInv DEF Found
  <1>3. CASE Retry(t)
    <2>1. PICK new \in CallType :
            /\ new = [call[t] EXCEPT !.tries = @ + 1]
            /\ new.at = "request" /\ new.run = call[t].run /\ new.query = call[t].query
      BY <1>0, <1>3 DEF CallType, Retry
    <2>2. CallKnows(new)'
      BY <1>0, <1>3, <2>1 DEF CallKnows, Retry
    <2>3. call' = [call EXCEPT ![t] = new]
      BY <1>3, <2>1 DEF Retry
    <2>4. QED BY <1>0, <1>3, <2>2, <2>3, MoveInv DEF Retry
  <1>4. CASE GiveUp(t)
    BY <1>0, <1>4, RaiseInv DEF GiveUp
  <1>5. QED BY <1>1, <1>2, <1>3, <1>4

LEMMA StoreInv ==
  ASSUME SearchInv, NEW t \in Threads, Put(t) \/ Count(t) \/ Evict(t)
  PROVE  SearchInv'
  <1>0. /\ call \in [Threads -> CallType] /\ store \in SUBSET Entry /\ clock \in Nat
        /\ \A e \in store : e.answer = "found"
        /\ CallKnows(call[t])
    BY DEF SearchInv, SearchTypeOK
  <1>1. CASE Put(t)
    <2>1. call[t].at = "put" /\ call[t].answer = "found" /\ call[t].query \in Queries
      BY <1>0, <1>1 DEF Put, Goto, CallKnows
    <2> DEFINE item == [query |-> call[t].query, answer |-> call[t].answer, fresh |-> TRUE,
                        set |-> clock]
    <2>2. item \in Entry /\ item.answer = "found"
      BY <1>0, <2>1 DEF Entry, Answers
    <2>3. store' = Without(call[t].query) \cup {item} /\ clock' = clock + 1
      BY <1>1 DEF Put, Query
    <2> HIDE DEF item
    <2>4. /\ store' \in SUBSET Entry
          /\ \A e \in store' : e.answer = "found"
          /\ clock' \in Nat
      <3>1. Without(call[t].query) \subseteq store
        BY DEF Without
      <3>2. store' \subseteq Entry
        BY <1>0, <2>2, <2>3, <3>1
      <3>3. \A e \in store' : e.answer = "found"
        BY <1>0, <2>2, <2>3, <3>1
      <3>4. clock' \in Nat
        BY <1>0, <2>3
      <3>5. QED BY <3>2, <3>3, <3>4
    <2>5. QED BY <1>1, <2>4, GotoInv DEF Put
  <1>2. CASE Evict(t)
    <2>1. store' \in SUBSET Entry /\ \A e \in store' : e.answer = "found"
      BY <1>0, <1>2 DEF Evict
    <2>2. QED BY <1>0, <1>2, <2>1, GotoInv, RaiseInv DEF Evict
  <1>3. CASE Count(t)
    BY <1>0, <1>3, GotoInv DEF Count
  <1>4. QED BY <1>1, <1>2, <1>3

LEMMA KeepInv ==
  ASSUME SearchInv, NEW t \in Threads, Keep(t)
  PROVE  SearchInv'
  <1> DEFINE its == call[t].run
             kept == [query |-> call[t].query, answer |-> call[t].answer]
             mine == {m \in memory[its] : m.query # call[t].query} \cup {kept}
  <1>0. SearchTypeOK /\ AnswersAreRemembered /\ ErrorsStayInTheirRun
        /\ (\A u \in Threads : CallKnows(call[u])) /\ Idle \in CallType
        /\ \A e \in store : e.answer = "found"
    BY DEF SearchInv, Idle, CallType
  <1>1. /\ its \in Runs /\ call[t].query \in Queries /\ call[t].answer \in Answers
        /\ call[t].answer = "error" => failed[its] # {}
    BY <1>0 DEF Keep, CallKnows, Answers
  <1>2. kept \in Memories /\ kept.query = call[t].query /\ kept.answer = call[t].answer
    BY <1>1 DEF Memories
  <1>3. memory' = [memory EXCEPT ![its] = mine] /\ call' = [call EXCEPT ![t] = Idle]
        /\ answered' = answered \cup {<<its, call[t].query>>}
        /\ UNCHANGED <<going, store, clock, failed>>
    BY DEF Keep, Run, Query
  <1> HIDE DEF kept
  <1>4. mine \in SUBSET Memories
    BY <1>0, <1>1, <1>2 DEF SearchTypeOK
  <1>5. \A q \in Queries : Remembered(its, q) \/ q = call[t].query => \E m \in mine : m.query = q
    BY <1>2 DEF Remembered
  <1>6. \A m \in mine : m.answer = "error" => failed[its] # {}
    BY <1>0, <1>1, <1>2 DEF ErrorsStayInTheirRun
  <1> HIDE DEF mine, its
  <1>7. /\ memory' \in [Runs -> SUBSET Memories] /\ memory'[its] = mine
        /\ \A r \in Runs : r # its => memory'[r] = memory[r]
    BY <1>0, <1>1, <1>3, <1>4 DEF SearchTypeOK
  <1>8. SearchTypeOK'
    BY <1>0, <1>1, <1>3, <1>7 DEF SearchTypeOK
  <1>9. \A u \in Threads : CallKnows(call[u])'
    BY <1>0, <1>3 DEF SearchTypeOK, CallKnows, Idle
  <1>10. ASSUME NEW r \in going', NEW q \in Queries, <<r, q>> \in answered'
         PROVE  Remembered(r, q)'
    <2>1. r \in going /\ r \in Runs
      BY <1>0, <1>3 DEF SearchTypeOK
    <2>2. CASE r = its
      <3>1. <<r, q>> \in answered \/ q = call[t].query
        BY <1>3, <1>10
      <3>2. \E m \in mine : m.query = q
        BY <1>0, <1>5, <2>1, <2>2, <3>1 DEF AnswersAreRemembered
      <3>3. QED BY <1>7, <2>2, <3>2 DEF Remembered
    <2>3. CASE r # its
      <3>1. <<r, q>> \in answered
        BY <1>3, <1>10, <2>3
      <3>2. QED BY <1>0, <1>7, <2>1, <2>3, <3>1 DEF AnswersAreRemembered, Remembered
    <2>4. QED BY <2>2, <2>3
  <1>11. AnswersAreRemembered'
    BY <1>10 DEF AnswersAreRemembered
  <1>12. ErrorsStayInTheirRun'
    BY <1>0, <1>3, <1>6, <1>7 DEF ErrorsStayInTheirRun
  <1>13. QED BY <1>0, <1>3, <1>8, <1>9, <1>11, <1>12 DEF SearchInv

LEMMA EndRunInv ==
  ASSUME SearchInv, NEW r \in Runs, EndRun(r)
  PROVE  SearchInv'
  <1>1. SearchTypeOK'
    BY DEF SearchInv, SearchTypeOK, EndRun
  <1>2. AnswersAreRemembered' /\ ErrorsStayInTheirRun'
    BY DEF SearchInv, SearchTypeOK, EndRun, AnswersAreRemembered, Remembered, ErrorsStayInTheirRun
  <1>3. QED BY <1>1, <1>2 DEF SearchInv, EndRun, CallKnows

LEMMA ExpireInv ==
  ASSUME SearchInv, Expire
  PROVE  SearchInv'
  <1>1. PICK time \in 0 .. clock :
          /\ store' = {[e EXCEPT !.fresh = @ /\ e.set > time] : e \in store}
          /\ UNCHANGED <<going, memory, clock, call, answered, failed>>
    BY DEF Expire
  <1>2. \A e \in Entry : /\ [e EXCEPT !.fresh = @ /\ e.set > time] \in Entry
                         /\ [e EXCEPT !.fresh = @ /\ e.set > time].answer = e.answer
    BY DEF Entry
  <1>3. store' \in SUBSET Entry /\ \A e \in store' : e.answer = "found"
    <2>1. store \in SUBSET Entry /\ \A e \in store : e.answer = "found"
      BY DEF SearchInv, SearchTypeOK
    <2> SUFFICES ASSUME NEW x \in store' PROVE x \in Entry /\ x.answer = "found"
      OBVIOUS
    <2>2. PICK e \in store : x = [e EXCEPT !.fresh = @ /\ e.set > time]
      BY <1>1
    <2>3. QED BY <1>2, <2>1, <2>2
  <1>4. QED BY <1>1, <1>3 DEF SearchInv, SearchTypeOK, CallKnows, AnswersAreRemembered,
                             Remembered, ErrorsStayInTheirRun

LEMMA StepSearchInv ==
  ASSUME SearchInv, [SearchNext]_searchVars PROVE SearchInv'
  <1>1. CASE UNCHANGED searchVars
    BY <1>1 DEF searchVars, SearchInv, SearchTypeOK, CallKnows, AnswersAreRemembered, Remembered,
                ErrorsStayInTheirRun
  <1>2. CASE SearchNext
    BY <1>2, StartInv, CheckInv, ReadInv, RequestInv, StoreInv, KeepInv, EndRunInv, ExpireInv
       DEF SearchNext, Work
  <1>3. QED BY <1>1, <1>2

LEMMA AlwaysSearchInv == SearchSpec => []SearchInv
  BY InitSearchInv, StepSearchInv, PTL DEF SearchSpec

-----------------------------------------------------------------------------
(* Theorems about SearchCache.                                             *)

(* A run that goes on never searches again for what it was answered.       *)
THEOREM AnswersStayRemembered == SearchSpec => []AnswersAreRemembered
  <1>1. SearchInv => AnswersAreRemembered
    BY DEF SearchInv
  <1>2. QED BY <1>1, AlwaysSearchInv, PTL

(* The shared cache passes on what was found, never a failure.             *)
THEOREM ErrorsStay == SearchSpec => []ErrorsStayInTheirRun
  <1>1. SearchInv => ErrorsStayInTheirRun
    BY DEF SearchInv
  <1>2. QED BY <1>1, AlwaysSearchInv, PTL

-----------------------------------------------------------------------------
(* What a run makes of what it learns.                                     *)

DeclaredSamples == UNION {ToSet(Samples[a]) : a \in ToSet(Aggregates)}

(* No aggregate has more samples than one message yields. *)
AllSamplesFit == \A a \in ToSet(Aggregates) : Len(Samples[a]) <= MaxPerMessage

(* Names stand for declared samples; what is declared was captured.        *)
AccumulatorRows ==
  /\ declared \subseteq DeclaredSamples
  /\ \A n \in Names : aliases[n] \subseteq declared
  /\ AllSamplesFit => declared \subseteq Captured

(* Until the execution ends nothing is stored, and nobody decides.         *)
RunRows ==
  /\ phase # "ended" => run.status = "running"
  /\ run.status = "running" =>
       /\ run.delivery = "pending" /\ ~ bundle.current
       /\ \A item \in Evidence : verdict[item] = "none"

LedgerRows ==
  \A item \in Evidence :
    /\ ledger[item] = "declared" => item \in declared
    /\ verdict[item] # "none" => ledger[item] # "absent"

(* The current bundle is that of a completed run and names what a reviewer *)
(* has to look at now, and only a first bundle that names nothing is       *)
(* delivered without one.  A bundle is withdrawn only when there is room   *)
(* for the next.                                                           *)
BundleRows ==
  /\ run.status = "completed" /\ ~ bundle.current => bundle.revision < MaxRevision
  /\ bundle.current =>
       /\ run.status = "completed"
       /\ bundle.triggers = Triggers(stored, ledger, Verified(ledger, verdict), bundle.revision)
  /\ run.delivery = "ready" =>
       /\ bundle.current
       /\ ~ approved => /\ bundle.triggers = {}
                        /\ \A item \in Evidence : verdict[item] = "none"

ClaimInvariant ==
  /\ TypeOK
  /\ AccumulatorRows
  /\ RunRows
  /\ LedgerRows
  /\ BundleRows
  /\ EvidenceSurvives
  /\ CompletedRunCanPublish
  /\ AllSamplesFit => UsablePacketIsKept

-----------------------------------------------------------------------------
(* Numbers: the last of a sequence's positions that qualify.               *)

LEMMA SmallestOf ==
  ASSUME NEW S, S \subseteq Nat, S # {}
  PROVE  \E x \in S : \A y \in S : x <= y
  <1> DEFINE R == OpToRel(<, Nat)
  <1>1. IsWellFoundedOn(R, Nat)
    BY NatLessThanWellFounded
  <1>2. ASSUME NEW x \in Nat, NEW y \in Nat, y < x
        PROVE  <<y, x>> \in R
    <2>1. <<y, x>> \in {ss \in Nat \X Nat : ss[1] < ss[2]}
      BY <1>2
    <2>2. QED BY <2>1, Zenon DEF OpToRel
  <1> HIDE DEF R
  <1>3. PICK x \in S : \A y \in S : <<y, x>> \notin R
    BY <1>1, WFMin
  <1>4. ASSUME NEW y \in S PROVE x <= y
    <2>1. x \in Nat /\ y \in Nat
      OBVIOUS
    <2>2. ~ (y < x)
      BY <1>2, <1>3, <2>1, Zenon
    <2>3. QED BY <2>1, <2>2
  <1>5. QED BY <1>4

LEMMA LatestOf ==
  ASSUME NEW k \in Nat, NEW S, S \subseteq 1 .. k, S # {}
  PROVE  \E n \in S : \A m \in S : m <= n
  <1> DEFINE T == {j \in Nat : k - j \in S}
  <1>1. T # {} /\ T \subseteq Nat
    <2>1. PICK s \in S : TRUE
      OBVIOUS
    <2>2. k - s \in Nat /\ k - (k - s) = s
      BY <2>1
    <2>3. QED BY <2>1, <2>2
  <1> HIDE DEF T
  <1>2. PICK x \in T : \A y \in T : x <= y
    BY <1>1, SmallestOf
  <1>3. k - x \in S /\ x \in Nat
    BY <1>2 DEF T
  <1>4. ASSUME NEW m \in S PROVE m <= k - x
    <2>1. k - m \in T
      BY DEF T
    <2>2. QED BY <1>2, <1>3, <2>1
  <1>5. QED BY <1>3, <1>4

-----------------------------------------------------------------------------
(* Packets.                                                                *)

LEMMA ExpandedOf ==
  ASSUME aliases \in [Names -> SUBSET Evidence], NEW S, NEW refs \in SUBSET S
  PROVE  Expanded(refs) \subseteq S \cup Evidence
  BY DEF Expanded

LEMMA ExpandedUnion ==
  ASSUME NEW S, NEW T
  PROVE  Expanded(S \cup T) = Expanded(S) \cup Expanded(T)
  BY DEF Expanded

LEMMA ExpandedNonempty ==
  ASSUME NEW S, S # {}
  PROVE  Expanded(S) # {}
  BY DEF Expanded

LEMMA NormalizedOf ==
  ASSUME aliases \in [Names -> SUBSET Evidence], NEW p \in Offers
  PROVE  /\ Normalized(p) \in Packet
         /\ Refs(Normalized(p)) = Expanded(Refs(p))
  <1>1. p.found \in SUBSET Findable /\ p.claimed \in SUBSET Claimable /\ p \in Packet
    BY ReviewAssumption DEF Packet
  <1>2. Evidence \subseteq Findable /\ Evidence \subseteq Claimable
    BY DEF Findable, Claimable
  <1>3. Expanded(p.found) \in SUBSET Findable /\ Expanded(p.claimed) \in SUBSET Claimable
    BY <1>1, <1>2, ExpandedOf
  <1>4. /\ Normalized(p) \in Packet
        /\ Normalized(p).found = Expanded(p.found)
        /\ Normalized(p).claimed = Expanded(p.claimed)
    BY <1>1, <1>3 DEF Normalized, Packet
  <1>5. QED BY <1>4, ExpandedUnion DEF Refs

LEMMA NoPacketTyped == NoPacket \in Packet
  BY DEF NoPacket, Packet

Usable == {n \in DOMAIN packets : Resolved(packets[n])}

(* The packet of an outcome is one of the answers, and one without a       *)
(* reference to anything unknown if there is one.                          *)
LEMMA SelectedOf ==
  ASSUME TypeOK
  PROVE  /\ Selected \in Packet
         /\ Known # {} /\ Usable # {} => Refs(Selected) \subseteq Known
  <1>1. aliases \in [Names -> SUBSET Evidence] /\ packets \in Seq(Offers)
        /\ Len(packets) \in Nat /\ DOMAIN packets = 1 .. Len(packets)
    BY DEF TypeOK
  <1>2. CASE packets = <<>>
    BY <1>1, <1>2, NoPacketTyped DEF Selected, Usable
  <1>3. CASE packets # <<>>
    <2>1. CASE Known = {} \/ Usable = {}
      <3>1. Last(packets) \in Offers
        BY <1>1, <1>3 DEF Last
      <3>2. Selected = Normalized(Last(packets))
        BY <1>3, <2>1 DEF Selected, Usable
      <3>3. QED BY <1>1, <2>1, <3>1, <3>2, NormalizedOf
    <2>2. CASE Known # {} /\ Usable # {}
      <3> DEFINE latest == CHOOSE n \in Usable : \A m \in Usable : m <= n
      <3>1. Usable \subseteq 1 .. Len(packets)
        BY <1>1 DEF Usable
      <3>2. \E n \in Usable : \A m \in Usable : m <= n
        BY <1>1, <2>2, <3>1, LatestOf
      <3>3. latest \in Usable
        BY <3>2
      <3>4. Selected = Normalized(packets[latest])
        BY <1>3, <2>2 DEF Selected, Usable
      <3> HIDE DEF latest
      <3>5. packets[latest] \in Offers /\ Resolved(packets[latest])
        BY <1>1, <3>1, <3>3 DEF Usable
      <3>6. Expanded(Refs(packets[latest])) \subseteq Known
        BY <3>5 DEF Resolved, Refs
      <3>7. QED BY <1>1, <3>4, <3>5, <3>6, NormalizedOf
    <2>3. QED BY <2>1, <2>2
  <1>4. QED BY <1>2, <1>3

LEMMA MarkedOf ==
  ASSUME TypeOK
  PROVE  /\ Marked \in [Evidence -> {"absent", "captured", "declared"}]
         /\ InLedger(Marked) = Captured
         /\ \A item \in Evidence : Marked[item] = "declared" => item \in declared
  BY DEF Marked, InLedger, Captured

LEMMA TriggersOf ==
  ASSUME NEW p, NEW rows, NEW verified, NEW revision
  PROVE  /\ Triggers(p, rows, verified, revision)
              \in SUBSET {"missing", "doubt", "unverified", "changed"}
         /\ Triggers(p, rows, verified, revision) = {} =>
              /\ Refs(p) \subseteq InLedger(rows)
              /\ p.claimed \subseteq verified
              /\ p.doubt # TRUE
         /\ revision > 1 => Triggers(p, rows, verified, revision) # {}
         /\ ~ (p.claimed \cap InLedger(rows) \subseteq verified) =>
              "unverified" \in Triggers(p, rows, verified, revision)
  <1>1. /\ "missing" \in Triggers(p, rows, verified, revision)
             <=> ~ (p.found \cup p.claimed \subseteq InLedger(rows))
        /\ "doubt" \in Triggers(p, rows, verified, revision) <=> p.doubt
        /\ "unverified" \in Triggers(p, rows, verified, revision)
             <=> ~ (p.claimed \cap InLedger(rows) \subseteq verified)
        /\ "changed" \in Triggers(p, rows, verified, revision) <=> revision > 1
        /\ Triggers(p, rows, verified, revision)
             \subseteq {"missing", "doubt", "unverified", "changed"}
    BY DEF Triggers
  <1>2. QED BY <1>1 DEF Refs

-----------------------------------------------------------------------------
(* The execution.                                                          *)

(* Nothing is stored yet. *)
LEMMA OpenStep ==
  ASSUME ClaimInvariant, run.status = "running", TypeOK', AccumulatorRows',
         declared \subseteq declared',
         UNCHANGED <<run, ledger, stored, verdict, bundle, approved>>
  PROVE  ClaimInvariant'
  <1>1. RunRows'
    BY DEF ClaimInvariant, RunRows
  <1>2. LedgerRows'
    BY DEF ClaimInvariant, LedgerRows
  <1>3. BundleRows'
    BY DEF ClaimInvariant, RunRows, BundleRows
  <1>4. EvidenceSurvives' /\ CompletedRunCanPublish' /\ UsablePacketIsKept'
    BY DEF EvidenceSurvives, CompletedRunCanPublish, UsablePacketIsKept
  <1>5. QED BY <1>1, <1>2, <1>3, <1>4 DEF ClaimInvariant

LEMMA PreloadInv ==
  ASSUME ClaimInvariant, Preload
  PROVE  ClaimInvariant'
  <1>0. TypeOK /\ AccumulatorRows /\ RunRows
    BY DEF ClaimInvariant
  <1> DEFINE a == Aggregates[loaded + 1]
             first == {Samples[a][i] : i \in {j \in DOMAIN Samples[a] : j <= MaxPerMessage}}
  <1>1. /\ phase = "preload" /\ loaded < Len(Aggregates) /\ Merge(first)
        /\ declared' = declared \cup ToSet(Samples[a])
        /\ aliases' = [n \in Names |-> aliases[n] \cup
             {Samples[a][i] : i \in {j \in DOMAIN Samples[a] : NamedBy(n, a, j)}}]
        /\ loaded' = loaded + 1
        /\ UNCHANGED <<phase, packets, run, ledger, stored, verdict, bundle, approved>>
    BY DEF Preload
  <1>2. a \in ToSet(Aggregates) /\ Len(Aggregates) \in Nat
    <2>1. loaded + 1 \in 1 .. Len(Aggregates) /\ Len(Aggregates) \in Nat
          /\ DOMAIN Aggregates = 1 .. Len(Aggregates)
      BY <1>0, <1>1, ReviewAssumption DEF TypeOK
    <2>2. QED BY <2>1 DEF ToSet
  <1>3. Samples[a] \in Seq(Evidence)
    BY <1>2, ReviewAssumption
  <1> HIDE DEF a
  <1>4. /\ ToSet(Samples[a]) \subseteq Evidence /\ first \subseteq ToSet(Samples[a])
        /\ ToSet(Samples[a]) \subseteq DeclaredSamples
        /\ AllSamplesFit => ToSet(Samples[a]) \subseteq first
    <2>1. /\ DOMAIN Samples[a] = 1 .. Len(Samples[a]) /\ Len(Samples[a]) \in Nat
          /\ \A i \in 1 .. Len(Samples[a]) : Samples[a][i] \in Evidence
      BY <1>3
    <2>2. AllSamplesFit => \A i \in 1 .. Len(Samples[a]) : i <= MaxPerMessage
      BY <1>2, <2>1, ReviewAssumption DEF AllSamplesFit
    <2>3. QED BY <1>2, <2>1, <2>2 DEF ToSet, DeclaredSamples
  <1> HIDE DEF first
  <1>5. entries' \in [Evidence -> Nat] /\ Captured' = Captured \cup first
    <2>1. entries' = [item \in Evidence |-> IF item \in Captured \cup first THEN 1 ELSE 0]
      BY <1>1 DEF Merge
    <2>2. Captured \subseteq Evidence /\ first \subseteq Evidence
      BY <1>4 DEF Captured
    <2>3. QED BY <2>1, <2>2 DEF Captured
  <1>6. /\ aliases' \in [Names -> SUBSET Evidence]
        /\ \A n \in Names : aliases'[n] \subseteq declared'
    <2>1. ASSUME NEW n \in Names
          PROVE  aliases'[n] \subseteq aliases[n] \cup ToSet(Samples[a])
      BY <1>1 DEF ToSet
    <2>2. QED BY <1>0, <1>1, <1>4, <2>1 DEF TypeOK, AccumulatorRows
  <1>7. TypeOK'
    <2>1. loaded' \in 0 .. Len(Aggregates)
      BY <1>0, <1>1, <1>2 DEF TypeOK
    <2>2. QED BY <1>0, <1>1, <1>4, <1>5, <1>6, <2>1 DEF TypeOK
  <1>8. AccumulatorRows'
    BY <1>0, <1>1, <1>4, <1>5, <1>6 DEF AccumulatorRows
  <1>9. run.status = "running" /\ declared \subseteq declared'
    BY <1>0, <1>1 DEF RunRows
  <1>10. QED BY <1>1, <1>7, <1>8, <1>9, OpenStep

LEMMA StreamInv ==
  ASSUME ClaimInvariant,
         \/ PreloadFails \/ Stream
         \/ \E item \in Evidence : CaptureEntry(item)
         \/ \E p \in Offers : CapturePacket(p)
  PROVE  ClaimInvariant'
  <1>0. TypeOK /\ AccumulatorRows /\ RunRows
    BY DEF ClaimInvariant
  <1>1. /\ phase # "ended"
        /\ UNCHANGED <<declared, aliases, run, ledger, stored, verdict, bundle, approved>>
    BY DEF PreloadFails, Stream, CaptureEntry, CapturePacket
  <1>2. entries' \in [Evidence -> Nat] /\ Captured \subseteq Captured'
    <2>1. CASE UNCHANGED entries
      BY <1>0, <2>1 DEF TypeOK, Captured
    <2>2. ASSUME NEW item \in Evidence, CaptureEntry(item)
          PROVE  entries' \in [Evidence -> Nat] /\ Captured \subseteq Captured'
      BY <1>0, <2>2 DEF TypeOK, CaptureEntry, Captured
    <2>3. QED BY <2>1, <2>2 DEF PreloadFails, Stream, CapturePacket
  <1>3. packets' \in Seq(Offers)
    <2>1. CASE UNCHANGED packets
      BY <1>0, <2>1 DEF TypeOK
    <2>2. ASSUME NEW p \in Offers, CapturePacket(p)
          PROVE  packets' \in Seq(Offers)
      <3>1. packets \in Seq(Offers) /\ packets' = Append(packets, p)
        BY <1>0, <2>2 DEF TypeOK, CapturePacket
      <3>2. QED BY <3>1
    <2>3. QED BY <2>1, <2>2 DEF PreloadFails, Stream, CaptureEntry
  <1>4. loaded' \in 0 .. Len(Aggregates) /\ phase' \in {"preload", "stream", "ended"}
    <2>1. Aggregates \in Seq(ToSet(Aggregates))
      BY ReviewAssumption
    <2>2. Len(Aggregates) \in Nat
      BY <2>1
    <2>3. QED BY <1>0, <2>2 DEF TypeOK, PreloadFails, Stream, CaptureEntry, CapturePacket
  <1>5. TypeOK'
    BY <1>0, <1>1, <1>2, <1>3, <1>4 DEF TypeOK
  <1>6. AccumulatorRows'
    BY <1>0, <1>1, <1>2 DEF AccumulatorRows
  <1>7. run.status = "running"
    BY <1>0, <1>1 DEF RunRows
  <1>8. QED BY <1>1, <1>5, <1>6, <1>7, OpenStep

-----------------------------------------------------------------------------
(* The end of an execution.                                                *)

LEMMA EndRows ==
  ASSUME ClaimInvariant, phase # "ended", End
  PROVE  /\ AccumulatorRows' /\ Captured' = Captured
         /\ run.status = "running" /\ run.delivery = "pending" /\ ~ bundle.current
         /\ \A item \in Evidence : verdict'[item] = "none"
  BY DEF ClaimInvariant, RunRows, AccumulatorRows, Captured, End

LEMMA FailInv ==
  ASSUME ClaimInvariant, phase # "ended", End, NEW p \in Packet, Fail(p)
  PROVE  ClaimInvariant'
  <1>0. TypeOK
    BY DEF ClaimInvariant
  <1>1. /\ run' = [status |-> "failed", delivery |-> "failed"]
        /\ ledger' = Marked /\ stored' = p /\ UNCHANGED bundle
        /\ phase' = "ended"
        /\ UNCHANGED <<loaded, entries, declared, aliases, packets, verdict, approved>>
    BY DEF Fail, End
  <1>2. TypeOK'
    BY <1>0, <1>1, MarkedOf DEF TypeOK
  <1>3. RunRows' /\ BundleRows'
    BY <1>1, EndRows DEF RunRows, BundleRows
  <1>4. LedgerRows'
    BY <1>0, <1>1, EndRows, MarkedOf DEF LedgerRows
  <1>5. EvidenceSurvives'
    BY <1>0, <1>1, EndRows, MarkedOf DEF EvidenceSurvives, InLedger
  <1>6. CompletedRunCanPublish' /\ UsablePacketIsKept'
    BY <1>1 DEF CompletedRunCanPublish, UsablePacketIsKept
  <1>7. QED BY <1>2, <1>3, <1>4, <1>5, <1>6, EndRows DEF ClaimInvariant

(* Of the packets of an outcome the best is stored. *)
LEMMA BestIsSelected ==
  ASSUME TypeOK, AccumulatorRows, AllSamplesFit, NEW n \in DOMAIN packets,
         Refs(packets[n]) # {},
         \A item \in Expanded(Refs(packets[n])) : item \in declared
  PROVE  Refs(Selected) \subseteq Captured
  <1>1. Expanded(Refs(packets[n])) # {}
    BY ExpandedNonempty
  <1>2. declared \subseteq Known /\ Known \subseteq declared /\ declared \subseteq Captured
    BY DEF Known, AccumulatorRows
  <1>3. n \in Usable
    BY <1>2 DEF Usable, Resolved, Refs
  <1>4. Known # {}
    BY <1>1, <1>2
  <1>5. QED BY <1>2, <1>3, <1>4, SelectedOf

LEMMA CompleteInv ==
  ASSUME ClaimInvariant, phase # "ended", End, Complete, packets # <<>>,
         Builds(Selected, Marked)
  PROVE  ClaimInvariant'
  <1>0. TypeOK /\ AccumulatorRows
    BY DEF ClaimInvariant
  <1> DEFINE found == Triggers(Selected, Marked, Verified(Marked, verdict), 1)
  <1>1. /\ bundle' = [revision |-> 1, current |-> TRUE, triggers |-> found]
        /\ ledger' = Marked /\ stored' = Selected
        /\ phase' = "ended"
        /\ UNCHANGED <<loaded, entries, declared, aliases, packets, verdict, approved>>
    BY DEF Complete, Publish, End
  <1>2. run' = [status |-> "completed",
                delivery |-> IF bundle'.triggers = {} THEN "ready" ELSE "review_required"]
    BY DEF Complete
  <1>3. found \in SUBSET {"missing", "doubt", "unverified", "changed"}
    BY TriggersOf
  <1>4. TypeOK'
    <2>1. bundle' \in [revision : 0 .. MaxRevision, current : BOOLEAN,
                       triggers : SUBSET {"missing", "doubt", "unverified", "changed"}]
      <3>1. 1 \in 0 .. MaxRevision
        BY ReviewAssumption
      <3> HIDE DEF found
      <3>2. QED BY <1>1, <1>3, <3>1
    <2>2. ledger' \in [Evidence -> {"absent", "captured", "declared"}] /\ stored' \in Packet
      BY <1>0, <1>1, MarkedOf, SelectedOf
    <2>3. run' \in [status : {"running", "failed", "completed"},
                    delivery : {"pending", "failed", "ready", "review_required", "blocked"}]
      BY <1>2
    <2>4. QED BY <1>0, <1>1, <2>1, <2>2, <2>3 DEF TypeOK
  <1>5. BundleRows'
    <2>1. bundle'.triggers =
            Triggers(stored', ledger', Verified(ledger', verdict'), bundle'.revision)
      BY <1>1
    <2>2. /\ bundle'.current /\ run'.status = "completed"
          /\ run'.delivery = "ready" => bundle'.triggers = {}
      BY <1>1, <1>2
    <2>3. QED BY <2>1, <2>2, EndRows DEF BundleRows
  <1>6. RunRows'
    BY <1>1, <1>2 DEF RunRows
  <1>7. LedgerRows'
    BY <1>0, <1>1, EndRows, MarkedOf DEF LedgerRows
  <1>8. EvidenceSurvives'
    BY <1>0, <1>1, EndRows, MarkedOf DEF EvidenceSurvives, InLedger
  <1>9. CompletedRunCanPublish'
    BY <1>1 DEF CompletedRunCanPublish, Builds
  <1>10. ASSUME AllSamplesFit PROVE UsablePacketIsKept'
    <2>1. Refs(stored') = Refs(Selected) /\ InLedger(ledger') = Captured
      BY <1>0, <1>1, MarkedOf
    <2>2. ASSUME ~ (Refs(Selected) \subseteq Captured), NEW n \in DOMAIN packets,
                 Refs(packets[n]) # {}
          PROVE  \E item \in Expanded(Refs(packets[n])) :
                   item \notin {e \in Evidence : ledger'[e] = "declared"}
      <3>1. PICK item \in Expanded(Refs(packets[n])) : item \notin declared
        BY <1>0, <1>10, <2>2, BestIsSelected
      <3>2. item \in Evidence => ledger'[item] # "declared"
        BY <1>0, <1>1, <3>1, MarkedOf
      <3>3. QED BY <3>1, <3>2
    <2>3. ASSUME NEW n \in DOMAIN packets,
                 ~ (Refs(Selected) \subseteq Captured), Refs(packets[n]) # {}
          PROVE  \E item \in Expanded(Refs(packets[n]))' :
                   item \notin {e \in Evidence : ledger'[e] = "declared"}
      <3>1. Expanded(Refs(packets[n]))' = Expanded(Refs(packets[n]))
        BY <1>1 DEF Expanded, Refs
      <3>2. QED BY <2>2, <2>3, <3>1
    <2>4. packets' = packets /\ InLedger(ledger)' = Captured
          /\ Refs(stored)' = Refs(Selected)
      BY <1>1, <2>1 DEF Refs, InLedger
    <2>5. ASSUME NEW n \in DOMAIN packets
          PROVE  Refs(packets[n])' = Refs(packets[n])
      BY <1>1 DEF Refs
    <2>6. QED BY <2>3, <2>4, <2>5 DEF UsablePacketIsKept
  <1>11. QED BY <1>4, <1>5, <1>6, <1>7, <1>8, <1>9, <1>10, EndRows
         DEF ClaimInvariant, AllSamplesFit

LEMMA EndInv ==
  ASSUME ClaimInvariant, Return \/ ExceedBudget \/ Break \/ Stuck
  PROVE  ClaimInvariant'
  <1>0. phase # "ended" /\ End /\ TypeOK
    BY DEF ClaimInvariant, Return, ExceedBudget, Break, Stuck
  <1>1. CASE Return
    BY <1>0, <1>1, FailInv, CompleteInv, NoPacketTyped DEF Return, Returns
  <1>2. CASE ExceedBudget
    BY <1>0, <1>2, FailInv, SelectedOf DEF ExceedBudget
  <1>3. CASE Break
    BY <1>0, <1>3, FailInv, NoPacketTyped DEF Break
  <1>4. CASE Stuck
    <2>1. UNCHANGED <<run, ledger, stored, verdict, bundle, approved>>
          /\ UNCHANGED <<loaded, entries, declared, aliases, packets>> /\ phase' = "ended"
      BY <1>4 DEF Stuck, End
    <2>2. TypeOK'
      BY <1>0, <2>1 DEF TypeOK
    <2>3. QED BY <1>0, <2>1, <2>2, EndRows, OpenStep
  <1>5. QED BY <1>1, <1>2, <1>3, <1>4

-----------------------------------------------------------------------------
(* Afterwards.                                                             *)

(* The ledger and the stored packet stay as they are. *)
LEMMA LaterStep ==
  ASSUME ClaimInvariant, TypeOK', RunRows', LedgerRows', BundleRows',
         run.status = "completed", run'.status = "completed",
         UNCHANGED <<capture, ledger, stored>>
  PROVE  ClaimInvariant'
  <1>1. AccumulatorRows'
    BY DEF ClaimInvariant, AccumulatorRows, capture, Captured
  <1>2. EvidenceSurvives'
    BY DEF ClaimInvariant, EvidenceSurvives, InLedger, Captured, capture
  <1>3. CompletedRunCanPublish'
    BY DEF ClaimInvariant, CompletedRunCanPublish, Builds, capture
  <1>4. ASSUME AllSamplesFit PROVE UsablePacketIsKept'
    <2>1. UsablePacketIsKept
      BY <1>4 DEF ClaimInvariant
    <2>2. QED BY <2>1 DEF UsablePacketIsKept, InLedger, Expanded, Refs, capture
  <1>5. QED BY <1>1, <1>2, <1>3, <1>4 DEF ClaimInvariant, AllSamplesFit

LEMMA ReviewInv ==
  ASSUME ClaimInvariant, NEW action \in {"approve", "reject"}, Review(action)
  PROVE  ClaimInvariant'
  <1>0. TypeOK /\ RunRows /\ LedgerRows /\ BundleRows
    BY DEF ClaimInvariant
  <1>1. /\ bundle.current /\ run.delivery = "review_required"
        /\ run' = [run EXCEPT !.delivery = IF action = "approve" THEN "ready" ELSE "blocked"]
        /\ approved' = (action = "approve")
        /\ UNCHANGED <<capture, ledger, stored, verdict, bundle>>
    BY DEF Review
  <1>2. /\ run'.status = run.status
        /\ run'.delivery = IF action = "approve" THEN "ready" ELSE "blocked"
        /\ run' \in [status : {"running", "failed", "completed"},
                     delivery : {"pending", "failed", "ready", "review_required", "blocked"}]
    BY <1>0, <1>1 DEF TypeOK
  <1>3. run.status # "running"
    BY <1>0, <1>1 DEF RunRows
  <1>4. run.status = "completed"
    BY <1>0, <1>1 DEF BundleRows
  <1>5. TypeOK'
    BY <1>0, <1>1, <1>2 DEF TypeOK, capture
  <1>6. RunRows' /\ LedgerRows'
    BY <1>0, <1>1, <1>2, <1>3 DEF RunRows, LedgerRows, capture
  <1>7. BundleRows'
    BY <1>0, <1>1, <1>2 DEF BundleRows, capture
  <1>8. QED BY <1>1, <1>2, <1>4, <1>5, <1>6, <1>7, LaterStep

LEMMA DecideInv ==
  ASSUME ClaimInvariant, NEW item \in Evidence, NEW v \in {"verify", "reject"},
         Decide(item, v)
  PROVE  ClaimInvariant'
  <1>0. TypeOK /\ RunRows /\ LedgerRows /\ BundleRows
    BY DEF ClaimInvariant
  <1>1. /\ run.status = "completed" /\ ledger[item] # "absent"
        /\ bundle.revision < MaxRevision
        /\ verdict' = [verdict EXCEPT ![item] = v]
        /\ bundle' = [bundle EXCEPT !.current = FALSE]
        /\ run' = [run EXCEPT !.delivery = "review_required"]
        /\ approved' = FALSE
        /\ UNCHANGED <<capture, ledger, stored>>
    BY DEF Decide
  <1>2. /\ run'.status = run.status /\ run'.delivery = "review_required"
        /\ run' \in [status : {"running", "failed", "completed"},
                     delivery : {"pending", "failed", "ready", "review_required", "blocked"}]
    BY <1>0, <1>1 DEF TypeOK
  <1>3. /\ bundle'.revision = bundle.revision /\ bundle'.current = FALSE
        /\ bundle' \in [revision : 0 .. MaxRevision, current : BOOLEAN,
                        triggers : SUBSET {"missing", "doubt", "unverified", "changed"}]
    BY <1>0, <1>1 DEF TypeOK
  <1>4. /\ verdict' \in [Evidence -> {"none", "verify", "reject"}]
        /\ \A e \in Evidence : verdict'[e] # verdict[e] => e = item
    BY <1>0, <1>1 DEF TypeOK
  <1>5. TypeOK'
    BY <1>0, <1>1, <1>2, <1>3, <1>4 DEF TypeOK, capture
  <1>6. RunRows' /\ BundleRows'
    BY <1>0, <1>1, <1>2, <1>3 DEF RunRows, BundleRows, capture
  <1>7. LedgerRows'
    BY <1>0, <1>1, <1>4 DEF LedgerRows, capture
  <1>8. QED BY <1>1, <1>2, <1>5, <1>6, <1>7, LaterStep

LEMMA FinalizeInv ==
  ASSUME ClaimInvariant, Finalize
  PROVE  ClaimInvariant'
  <1>0. TypeOK /\ RunRows /\ LedgerRows /\ BundleRows
    BY DEF ClaimInvariant
  <1> DEFINE found == Triggers(stored, ledger, Verified(ledger, verdict), bundle.revision + 1)
  <1>1. /\ run.status = "completed" /\ ~ bundle.current
        /\ bundle' = [revision |-> bundle.revision + 1, current |-> TRUE, triggers |-> found]
        /\ UNCHANGED <<capture, run, ledger, stored, verdict, approved>>
    BY DEF Finalize, Publish
  <1>2. bundle.revision + 1 \in 0 .. MaxRevision
    BY <1>0, <1>1, ReviewAssumption DEF TypeOK, BundleRows
  <1>3. found \in SUBSET {"missing", "doubt", "unverified", "changed"}
    BY TriggersOf
  <1>4. bundle'.triggers =
          Triggers(stored', ledger', Verified(ledger', verdict'), bundle'.revision)
    BY <1>1
  <1> HIDE DEF found
  <1>5. /\ bundle'.current
        /\ bundle' \in [revision : 0 .. MaxRevision, current : BOOLEAN,
                        triggers : SUBSET {"missing", "doubt", "unverified", "changed"}]
    BY <1>1, <1>2, <1>3
  <1>6. TypeOK'
    BY <1>0, <1>1, <1>5 DEF TypeOK, capture
  <1>7. RunRows' /\ LedgerRows'
    BY <1>0, <1>1 DEF RunRows, LedgerRows, capture
  <1>8. BundleRows'
    BY <1>0, <1>1, <1>4, <1>5 DEF BundleRows
  <1>9. QED BY <1>1, <1>6, <1>7, <1>8, LaterStep

-----------------------------------------------------------------------------
(* The invariant and the properties.                                       *)

LEMMA ClaimInit ==
  ASSUME Init PROVE ClaimInvariant
  <1>1. TypeOK
    <2>1. /\ bundle \in [revision : 0 .. MaxRevision, current : BOOLEAN,
                         triggers : SUBSET {"missing", "doubt", "unverified", "changed"}]
      <3>1. 0 \in 0 .. MaxRevision
        BY ReviewAssumption
      <3>2. QED BY <3>1 DEF Init
    <2>2. loaded \in 0 .. Len(Aggregates)
      <3>1. Aggregates \in Seq(ToSet(Aggregates))
        BY ReviewAssumption
      <3>2. Len(Aggregates) \in Nat
        BY <3>1
      <3>3. QED BY <3>2 DEF Init
    <2>3. packets \in Seq(Offers) /\ aliases \in [Names -> SUBSET Evidence]
      BY DEF Init
    <2>4. entries \in [Evidence -> Nat] /\ ledger \in [Evidence -> {"absent", "captured", "declared"}]
          /\ verdict \in [Evidence -> {"none", "verify", "reject"}]
      BY DEF Init, Nothing
    <2>5. QED BY <2>1, <2>2, <2>3, <2>4, NoPacketTyped DEF Init, TypeOK
  <1>2. AccumulatorRows /\ RunRows /\ LedgerRows /\ BundleRows
    BY DEF Init, Nothing, AccumulatorRows, RunRows, LedgerRows, BundleRows
  <1>3. EvidenceSurvives /\ CompletedRunCanPublish /\ UsablePacketIsKept
    BY DEF Init, EvidenceSurvives, CompletedRunCanPublish, UsablePacketIsKept
  <1>4. QED BY <1>1, <1>2, <1>3 DEF ClaimInvariant

LEMMA ClaimStep ==
  ASSUME ClaimInvariant, [Next]_vars
  PROVE  ClaimInvariant'
  <1>1. CASE UNCHANGED vars
    <2>1. UNCHANGED <<phase, loaded, entries, declared, aliases, packets,
                      run, ledger, stored, verdict, bundle, approved>>
      BY <1>1, Zenon DEF vars, capture
    <2>2. TypeOK' /\ AccumulatorRows' /\ RunRows' /\ LedgerRows' /\ BundleRows'
      BY <2>1 DEF ClaimInvariant, TypeOK, AccumulatorRows, RunRows, LedgerRows, BundleRows,
                  Captured
    <2>3. EvidenceSurvives' /\ CompletedRunCanPublish'
      BY <2>1 DEF ClaimInvariant, EvidenceSurvives, CompletedRunCanPublish, InLedger,
                  Captured, Builds
    <2>4. ASSUME AllSamplesFit PROVE UsablePacketIsKept'
      <3>1. UsablePacketIsKept
        BY <2>4 DEF ClaimInvariant
      <3>2. QED BY <2>1, <3>1 DEF UsablePacketIsKept, InLedger, Expanded, Refs
    <2>5. QED BY <2>2, <2>3, <2>4 DEF ClaimInvariant, AllSamplesFit
  <1>2. CASE Next
    BY <1>2, PreloadInv, StreamInv, EndInv, ReviewInv, DecideInv, FinalizeInv DEF Next
  <1>3. QED BY <1>1, <1>2

LEMMA AlwaysClaimInvariant == Spec => []ClaimInvariant
  BY ClaimInit, ClaimStep, PTL DEF Spec

(* A bundle that names nothing leaves nothing to a reviewer.               *)
LEMMA NothingToReview ==
  ASSUME ClaimInvariant
  PROVE  UnreviewedRestsOnSamples
  <1>1. SUFFICES ASSUME run.delivery = "ready", ~ approved
                 PROVE  /\ Refs(stored) \subseteq InLedger(ledger)
                        /\ stored.claimed \subseteq DeclaredSamples
                        /\ ~ stored.doubt
                        /\ \A item \in Evidence : verdict[item] = "none"
    BY DEF UnreviewedRestsOnSamples, DeclaredSamples
  <1>2. /\ Triggers(stored, ledger, Verified(ledger, verdict), bundle.revision) = {}
        /\ \A item \in Evidence : verdict[item] = "none"
    BY <1>1 DEF ClaimInvariant, BundleRows
  <1>3. /\ Refs(stored) \subseteq InLedger(ledger)
        /\ stored.claimed \subseteq Verified(ledger, verdict)
        /\ stored.doubt # TRUE
    BY <1>2, TriggersOf
  <1>4. stored.doubt \in BOOLEAN
    BY DEF ClaimInvariant, TypeOK, Packet
  <1>5. Verified(ledger, verdict) \subseteq {item \in Evidence : ledger[item] = "declared"}
    BY <1>2 DEF Verified, InLedger
  <1>6. {item \in Evidence : ledger[item] = "declared"} \subseteq DeclaredSamples
    BY DEF ClaimInvariant, LedgerRows, AccumulatorRows
  <1>7. QED BY <1>2, <1>3, <1>4, <1>5, <1>6

LEMMA RejectedIsNamed ==
  ASSUME ClaimInvariant
  PROVE  RejectionIsShown
  <1>1. SUFFICES ASSUME run.delivery = "ready",
                        NEW item \in stored.claimed \cap Evidence, verdict[item] = "reject"
                 PROVE  approved /\ "unverified" \in bundle.triggers
    BY DEF RejectionIsShown
  <1>2. approved /\ bundle.current
    BY <1>1 DEF ClaimInvariant, BundleRows
  <1>3. item \in InLedger(ledger) /\ item \notin Verified(ledger, verdict)
    BY <1>1 DEF ClaimInvariant, LedgerRows, InLedger, Verified
  <1>4. "unverified" \in Triggers(stored, ledger, Verified(ledger, verdict), bundle.revision)
    BY <1>1, <1>3, TriggersOf
  <1>5. QED BY <1>2, <1>4 DEF ClaimInvariant, BundleRows

(* Without a reviewer a run delivers only findings on stored evidence and  *)
(* claims on declared samples (build_review_bundle).                       *)
THEOREM OnlySamplesGoUnreviewed == Spec => []UnreviewedRestsOnSamples
  BY AlwaysClaimInvariant, NothingToReview, PTL

(* A claim on rejected evidence is delivered only by an approval of a      *)
(* bundle that named it.                                                   *)
THEOREM RejectionsAreShown == Spec => []RejectionIsShown
  BY AlwaysClaimInvariant, RejectedIsNamed, PTL

(* The state is typed; an execution that is stored at all, however it      *)
(* ends, is stored with all its evidence; and what a completed run stored  *)
(* can always be published again.                                          *)
THEOREM OutcomesAreUsable == Spec => []OutcomeIsUsable
  <1>1. ClaimInvariant => OutcomeIsUsable
    BY DEF ClaimInvariant, OutcomeIsUsable
  <1>2. QED BY AlwaysClaimInvariant, <1>1, PTL

(* When no declared aggregate has more samples than one message yields, a  *)
(* packet with references to missing evidence is stored only for want of a *)
(* better answer (_resolve_talent_packets).                                *)
THEOREM BestPacketIsKept ==
  ASSUME AllSamplesFit
  PROVE  Spec => []UsablePacketIsKept
  <1>1. ClaimInvariant => UsablePacketIsKept
    BY DEF ClaimInvariant
  <1>2. QED BY AlwaysClaimInvariant, <1>1, PTL

=============================================================================
