----------------------------- MODULE SearchCache -----------------------------
(***************************************************************************)
(* The internet search of tools/tavily_tools.py: tool calls in threads of  *)
(* their own, several in one run, in front of the service a memory of each *)
(* run's answers (search_with_dedup, under a lock) and a TTL cache that    *)
(* all runs share (tools/cache.py, without one), and retry_async of        *)
(* tools/retry_utils.py.  A run may end while a call of it is at work.     *)
(***************************************************************************)
EXTENDS Naturals, FiniteSets

CONSTANTS
  Threads, Runs,
  Queries,       (* a query with its options                                 *)
  None,          (* what an idle thread works on                             *)
  MaxSize,       (* max_size of the TTL cache                                *)
  MaxRequests    (* max_retries handed to retry_async                        *)

VARIABLES
  going,      (* the runs whose agent is working                             *)
  memory,     (* _search_cache: the answers of each run, {} if it has none   *)
  store,      (* the TTL cache                                               *)
  clock,      (* how often the cache was set: entries expire in that order   *)
  call,       (* what each thread is doing                                   *)
  answered,   (* history: the queries answered in a run                      *)
  failed      (* history: what made searches of a run fail                   *)

searchVars == <<going, memory, store, clock, call, answered, failed>>

Answers  == {"found", "error"}
Memories == [query : Queries, answer : Answers]
Entry    == [query : Queries, answer : Answers, fresh : BOOLEAN, set : Nat]

Working(r, q) == [at |-> "check", run |-> r, query |-> q, tries |-> 0, answer |-> "none"]
Idle          == [at |-> "idle", run |-> None, query |-> None, tries |-> 0,
                  answer |-> "none"]

CallType ==
  [at : {"idle", "check", "look", "read", "drop", "request", "put", "count", "evict",
         "keep"},
   run : Runs \cup {None}, query : Queries \cup {None}, tries : Nat,
   answer : Answers \cup {"none"}]

SearchTypeOK ==
  /\ going \in SUBSET Runs
  /\ memory \in [Runs -> SUBSET Memories]
  /\ store \in SUBSET Entry
  /\ clock \in Nat
  /\ call \in [Threads -> CallType]
  /\ answered \in SUBSET (Runs \X Queries)
  /\ failed \in [Runs -> SUBSET {"service", "cache"}]

SearchInit ==
  /\ going = Runs
  /\ memory = [r \in Runs |-> {}]
  /\ store = {} /\ clock = 0
  /\ call = [t \in Threads |-> Idle]
  /\ answered = {}
  /\ failed = [r \in Runs |-> {}]

-----------------------------------------------------------------------------
(* What the steps have in common.                                          *)

Query(t) == call[t].query
Run(t)   == call[t].run

Goto(t, from, to) ==
  call[t].at = from /\ call' = [call EXCEPT ![t].at = to] /\ UNCHANGED failed

Answer(t, from, to, answer) ==
  /\ call[t].at = from
  /\ call' = [call EXCEPT ![t].at = to, ![t].answer = answer]
  /\ UNCHANGED failed

(* The search raises, past cached_tool; _internet_search_impl makes an     *)
(* answer of it.                                                           *)
Raise(t, from, cause) ==
  /\ call[t].at = from
  /\ call' = [call EXCEPT ![t].at = "keep", ![t].answer = "error"]
  /\ failed' = [failed EXCEPT ![Run(t)] = @ \cup {cause}]

EntryOf(q) == {e \in store : e.query = q}
Without(q) == {e \in store : e.query # q}

-----------------------------------------------------------------------------
(* The steps of a call.                                                    *)

Start(t, r, q) ==
  /\ call[t] = Idle /\ r \in going
  /\ call' = [call EXCEPT ![t] = Working(r, q)]
  /\ UNCHANGED <<going, memory, store, clock, answered, failed>>

Remembered(r, q) == \E m \in memory[r] : m.query = q

Check(t) ==
  /\ call[t].at = "check"
  /\ IF Remembered(Run(t), Query(t))
     THEN call' = [call EXCEPT ![t] = Idle] /\ UNCHANGED failed
     ELSE Goto(t, "check", "look")
  /\ UNCHANGED <<going, memory, store, clock, answered>>

(* TTLCache.get: "key not in", the read with its expiry, the deletion.     *)
Look(t) ==
  /\ Goto(t, "look", IF EntryOf(Query(t)) = {} THEN "request" ELSE "read")
  /\ UNCHANGED <<going, memory, store, clock, answered>>

Read(t) ==
  /\ \/ \E e \in EntryOf(Query(t)) : e.fresh /\ Answer(t, "read", "keep", e.answer)
     \/ \E e \in EntryOf(Query(t)) : ~ e.fresh /\ Goto(t, "read", "drop")
     \/ EntryOf(Query(t)) = {} /\ Raise(t, "read", "cache")      \* KeyError
  /\ UNCHANGED <<going, memory, store, clock, answered>>

Drop(t) ==
  /\ \/ EntryOf(Query(t)) # {} /\ Goto(t, "drop", "request")
     \/ EntryOf(Query(t)) = {} /\ Raise(t, "drop", "cache")      \* KeyError
  /\ store' = Without(Query(t))
  /\ UNCHANGED <<going, memory, clock, answered>>

Found(t) ==
  /\ Answer(t, "request", "put", "found")
  /\ UNCHANGED <<going, memory, store, clock, answered>>

(* A timeout or connection error, after which retry_async tries again: the *)
(* first request and max_retries - 1 more.                                 *)
Retry(t) ==
  /\ call[t].at = "request" /\ call[t].tries + 1 < MaxRequests
  /\ call' = [call EXCEPT ![t].tries = @ + 1]
  /\ UNCHANGED <<going, memory, store, clock, answered, failed>>

(* The last of them, any other error, or the total timeout. *)
GiveUp(t) ==
  /\ Raise(t, "request", "service")
  /\ UNCHANGED <<going, memory, store, clock, answered>>

Put(t) ==
  /\ store' = Without(Query(t))
                \cup {[query |-> Query(t), answer |-> call[t].answer, fresh |-> TRUE,
                       set |-> clock]}
  /\ Goto(t, "put", "count")
  /\ clock' = clock + 1
  /\ UNCHANGED <<going, memory, answered>>

Count(t) ==
  /\ Goto(t, "count", IF Cardinality(store) > MaxSize THEN "evict" ELSE "keep")
  /\ UNCHANGED <<going, memory, store, clock, answered>>

(* min() walks over the keys: a thread that adds or deletes one meanwhile  *)
(* makes it raise, as does the deletion of a key that is gone.             *)
Disturbed(t) == \E u \in Threads \ {t} : call[u].at \in {"drop", "put", "evict"}

Oldest(e) == \A f \in store : e.set <= f.set

Evict(t) ==
  /\ \/ Goto(t, "evict", "keep") /\ store' = {e \in store : ~ Oldest(e)}
     \/ Disturbed(t) /\ Raise(t, "evict", "cache") /\ UNCHANGED store
  /\ UNCHANGED <<going, memory, clock, answered>>

(* An answer replaces an earlier one of a call that searched meanwhile.    *)
Keep(t) ==
  /\ call[t].at = "keep"
  /\ memory' = [memory EXCEPT ![Run(t)] =
       {m \in @ : m.query # Query(t)}
         \cup {[query |-> Query(t), answer |-> call[t].answer]}]
  /\ answered' = answered \cup {<<Run(t), Query(t)>>}
  /\ call' = [call EXCEPT ![t] = Idle]
  /\ UNCHANGED <<going, store, clock, failed>>

(* The finally of the run's execution.  Calls in threads go on. *)
EndRun(r) ==
  /\ r \in going
  /\ going' = going \ {r}
  /\ memory' = [memory EXCEPT ![r] = {}]
  /\ UNCHANGED <<store, clock, call, answered, failed>>

(* Time passes the expiry of the entries set up to some moment. *)
Expire ==
  \E time \in 0 .. clock :
    /\ store' = {[e EXCEPT !.fresh = @ /\ e.set > time] : e \in store}
    /\ UNCHANGED <<going, memory, clock, call, answered, failed>>

Work(t) ==
  \/ Check(t) \/ Look(t) \/ Read(t) \/ Drop(t)
  \/ Found(t) \/ Retry(t) \/ GiveUp(t)
  \/ Put(t) \/ Count(t) \/ Evict(t) \/ Keep(t)

SearchNext ==
  \/ \E t \in Threads, r \in Runs, q \in Queries : Start(t, r, q)
  \/ \E t \in Threads : Work(t)
  \/ \E r \in Runs : EndRun(r)
  \/ Expire

SearchSpec == SearchInit /\ [][SearchNext]_searchVars

-----------------------------------------------------------------------------
(* Properties.                                                             *)

(* "The same query per thread returns cached result": while the run goes   *)
(* on, an answer it was given is remembered, whatever its other calls      *)
(* store at the same time (search_with_dedup).                             *)
AnswersAreRemembered ==
  \A r \in going, q \in Queries : <<r, q>> \in answered => Remembered(r, q)

(* Failures are not shared: a run is told that a search failed only if a   *)
(* search of its own did, however the runs share what was found, because   *)
(* an exception passes cached_tool before the result is set.               *)
ErrorsStayInTheirRun ==
  \A r \in Runs : \A m \in memory[r] : m.answer = "error" => failed[r] # {}
=============================================================================
