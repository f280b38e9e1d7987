------------------------------- MODULE LiveRun -------------------------------
(***************************************************************************)
(* The Live Backend mode of the console: the hook useLiveRun of            *)
(* frontend/src/useLiveRun.ts under the controls of App.tsx.  checkHealth  *)
(* and runGoldenPath are calls that go on in the background; each await is *)
(* a point where the user may switch the mode or the backend, which starts *)
(* a newer version, while requests of older calls are still answered,      *)
(* fail, or never come back.                                               *)
(***************************************************************************)
EXTENDS Naturals

CONSTANTS
  Bases,      (* backend base URLs                                           *)
  Calls,      (* slots of calls going on at the same time                    *)
  None,       (* undefined                                                   *)
  MaxRuns     (* Bound: runs the backends create                             *)

ASSUME LiveRunAssumption == MaxRuns \in Nat /\ None \notin Bases /\ None \notin Calls

VARIABLES
  view,     (* the state of the hook                                         *)
  newest,   (* the call whose version is requestVersion, None when there is  *)
            (* none: the version was raised by setMode or setBaseUrl         *)
  calls,    (* the calls: where they are and what they hold                  *)
  made      (* runs created so far, a source of fresh run ids                *)

vars == <<view, newest, calls, made>>

(* A run id tells which backend made it. *)
RunIds   == [base : Bases, number : 1 .. MaxRuns]
Phases   == {"ended", "health", "start", "poll", "sleep", "result"}
Fetching == {"health", "start", "poll", "result"}
Busy     == {"checking", "starting", "polling"}

NoError == [code |-> "none", run |-> None]
Ended   == [phase |-> "ended", base |-> None, run |-> None, aborted |-> FALSE,
            late |-> FALSE]

ViewType ==
  [base    : Bases,
   mode    : {"static", "live"},
   status  : {"static", "idle", "ready", "result", "error"} \cup Busy,
   health  : Bases \cup {None},
   created : RunIds \cup {None},
   run     : RunIds \cup {None},
   result  : RunIds \cup {None},
   error   : [code : {"none", "failed", "run_wait_timeout"}, run : RunIds \cup {None}]]

CallType ==
  [phase : Phases, base : Bases \cup {None}, run : RunIds \cup {None},
   aborted : BOOLEAN, late : BOOLEAN]

TypeOK ==
  /\ view \in ViewType
  /\ newest \in Calls \cup {None}
  /\ calls \in [Calls -> CallType]
  /\ made \in 0 .. MaxRuns

Blank(base, mode) ==
  [base |-> base, mode |-> mode, status |-> IF mode = "static" THEN "static" ELSE "idle",
   health |-> None, created |-> None, run |-> None, result |-> None, error |-> NoError]

Init ==
  /\ \E base \in Bases : view = Blank(base, "static")
  /\ newest = None
  /\ calls = [c \in Calls |-> Ended]
  /\ made = 0

-----------------------------------------------------------------------------
(* What the user does.                                                     *)

(* invalidateRequests aborts the request of the newest call. *)
Aborted ==
  [c \in Calls |-> IF c = newest /\ calls[c].phase # "ended"
                   THEN [calls[c] EXCEPT !.aborted = TRUE] ELSE calls[c]]

Switched(mode) == Blank(view.base, mode)

SetMode(mode) ==
  /\ view' = Switched(mode)
  /\ newest' = None
  /\ calls' = Aborted
  /\ UNCHANGED made

MayAct == view.mode = "live" /\ view.status \notin Busy

(* Variant: what was shown stays. *)
KeepingShown(base) == [view EXCEPT !.base = base]

Connected(base) == Blank(base, view.mode)

SetBaseUrl(base) ==
  /\ MayAct
  /\ view' = Connected(base)
  /\ newest' = None
  /\ calls' = Aborted
  /\ UNCHANGED made

(* nextRequest: the version is raised for a call of its own. *)
Begin(c, phase) ==
  /\ calls[c].phase = "ended"
  /\ newest' = c
  /\ calls' = [Aborted EXCEPT ![c] = [Ended EXCEPT !.phase = phase, !.base = view.base]]
  /\ UNCHANGED made

CheckHealth(c) ==
  /\ MayAct
  /\ Begin(c, "health")
  /\ view' = [view EXCEPT !.error = NoError, !.status = "checking"]

RunGoldenPath(c) ==
  /\ MayAct /\ view.status \notin {"idle", "error"}
  /\ Begin(c, "start")
  /\ view' = [view EXCEPT !.created = None, !.run = None, !.result = None,
                          !.error = NoError, !.status = "starting"]

-----------------------------------------------------------------------------
(* What comes back.                                                        *)

IsCurrent(c) == newest = c

Goto(c, phase) ==
  calls' = [calls EXCEPT ![c] = IF phase = "ended" THEN Ended
                                ELSE [@ EXCEPT !.phase = phase]]

(* A stale call returns without a trace. *)
Return(c) == Goto(c, "ended") /\ UNCHANGED <<view, newest, made>>

Show(v) == view' = v /\ UNCHANGED <<newest, made>>

(* activeRunId *)
FailedRun(c) == calls[c].run

(* The catch of both calls.  A deadline that has passed names the cause,   *)
(* whatever the request failed with.                                       *)
Throw(c) ==
  \/ /\ IsCurrent(c)
     /\ Goto(c, "ended")
     /\ Show([view EXCEPT
                !.status = "error",
                !.error = [code |-> IF calls[c].late THEN "run_wait_timeout" ELSE "failed",
                           run  |-> FailedRun(c)]])
  \/ ~ IsCurrent(c) /\ Return(c)

Healthy(c) ==
  /\ calls[c].phase = "health"
  /\ \/ /\ IsCurrent(c)
        /\ Goto(c, "ended")
        /\ Show([view EXCEPT !.error = NoError, !.health = calls[c].base,
                             !.status = "ready"])
     \/ ~ IsCurrent(c) /\ Return(c)

(* The run exists on the backend whether or not its id is still wanted. *)
Started(c) ==
  LET run == [base |-> calls[c].base, number |-> made + 1]
  IN  /\ calls[c].phase = "start" /\ made < MaxRuns
      /\ made' = made + 1
      /\ UNCHANGED newest
      /\ \/ /\ IsCurrent(c)
            /\ calls' = [calls EXCEPT ![c].phase = "poll", ![c].run = run]
            /\ view' = [view EXCEPT !.created = run, !.status = "polling"]
         \/ ~ IsCurrent(c) /\ Goto(c, "ended") /\ UNCHANGED view

(* Variant: a fetch without the deadline's signal. *)
CutOffByUser(c) == calls[c].aborted

(* The signal of the call and that of its deadline end a wait;  *)
(* an answer that had been settled by then may still be taken.             *)
CutOff(c) == calls[c].aborted \/ calls[c].late

(* pollRun looks at the deadline before a request and after its answer. *)
PolledRunning(c) ==
  /\ calls[c].phase = "poll"
  /\ \/ calls[c].late /\ Throw(c)
     \/ ~ calls[c].late /\ Goto(c, "sleep") /\ UNCHANGED <<view, newest, made>>

PolledTerminal(c) ==
  /\ calls[c].phase = "poll"
  /\ \/ IsCurrent(c) /\ Goto(c, "result") /\ Show([view EXCEPT !.run = calls[c].run])
     \/ ~ IsCurrent(c) /\ Return(c)

(* A sleep is cut short by an abort.  A stale call throws stale_request.   *)
Slept(c) ==
  /\ calls[c].phase = "sleep"
  /\ IF CutOff(c) \/ ~ IsCurrent(c) THEN Throw(c)
     ELSE Goto(c, "poll") /\ UNCHANGED <<view, newest, made>>

Delivered(c) ==
  /\ calls[c].phase = "result"
  /\ \/ /\ IsCurrent(c)
        /\ Goto(c, "ended")
        /\ Show([view EXCEPT !.result = calls[c].run, !.run = calls[c].run,
                             !.status = "result"])
     \/ ~ IsCurrent(c) /\ Return(c)

(* The connection fails, or the answer is an error or no valid body. *)
Failed(c) == calls[c].phase \in Fetching /\ Throw(c)

Rejected(c) == calls[c].phase \in Fetching /\ CutOff(c) /\ Throw(c)

(* The clock passes deadlineAt and the timer of the deadline fires, as one *)
(* step.  Only runGoldenPath has a deadline.                               *)
Expire(c) ==
  /\ calls[c].phase \in Phases \ {"ended", "health"} /\ ~ calls[c].late
  /\ calls' = [calls EXCEPT ![c].late = TRUE]
  /\ UNCHANGED <<view, newest, made>>

Next ==
  \/ \E mode \in {"static", "live"} : SetMode(mode)
  \/ \E base \in Bases : SetBaseUrl(base)
  \/ \E c \in Calls :
       \/ CheckHealth(c) \/ RunGoldenPath(c)
       \/ Healthy(c) \/ Started(c) \/ PolledRunning(c) \/ PolledTerminal(c)
       \/ Slept(c) \/ Delivered(c) \/ Failed(c) \/ Rejected(c) \/ Expire(c)

(* The browser fires its timers and settles aborted requests; of backends  *)
(* and users nothing is assumed.                                           *)
BrowserFairness ==
  \A c \in Calls : WF_vars(Expire(c)) /\ WF_vars(Slept(c)) /\ WF_vars(Rejected(c))

Spec == Init /\ [][Next]_vars /\ BrowserFairness

-----------------------------------------------------------------------------
(* Properties.                                                             *)

(* All that is shown comes from the backend whose address is shown and     *)
(* belongs to one run, errors included, whatever calls were under way when *)
(* the mode or the address changed; the static demo shows none of it.      *)
ShownBelongsTogether ==
  /\ view.health \in {None, view.base}
  /\ view.created # None => view.created.base = view.base
  /\ view.run \in {None, view.created}
  /\ view.result \in {None, view.run}
  /\ view.error.run \in {None, view.created}
  /\ view.mode = "static" => view = Blank(view.base, "static")

(* A timeout preserves the identity of the run that goes on without the    *)
(* client, unless it was never told.                                       *)
TimeoutNamesRun ==
  view.error.code = "run_wait_timeout" => view.error.run = view.created

(* While the controls are disabled, there is a call that will enable them. *)
BusyHasCall ==
  view.status \in Busy =>
    /\ newest # None
    /\ calls[newest].base = view.base /\ ~ calls[newest].aborted
    /\ CASE view.status = "checking" -> calls[newest].phase = "health"
         [] view.status = "starting" -> calls[newest].phase = "start"
         [] view.status = "polling"  -> calls[newest].phase \in {"poll", "sleep", "result"}
                                          /\ calls[newest].run = view.created

(* A call the user left behind asks its backend for nothing more. *)
LeftCallsStop ==
  [][\A c \in Calls :
       calls[c].phase # "ended" /\ newest # c /\ calls'[c].phase # calls[c].phase
         => calls'[c].phase \in {"ended", "sleep"}]_vars

(* A run is not awaited forever: with a backend that never answers the     *)
(* deadline ends the wait.                                                 *)
RunSettles ==
  view.status \in {"starting", "polling"} ~> view.status \notin {"starting", "polling"}

=============================================================================
