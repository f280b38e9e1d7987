----------------------------- MODULE ConsoleProofs -----------------------------
(***************************************************************************)
(* What a user sees of a run, proved about the browser's side and the      *)
(* server's: the calls of the hook that starts and polls a run (LiveRun),  *)
(* for any backends, overlapping calls and runs, and the events the server *)
(* sends of it (RunEvents), for any runs, tool calls and connections.      *)
(***************************************************************************)
EXTENDS LiveRun, RunEvents, TLAPS

(* The hook of the browser.                                                *)

(* What a call knows: its run was made by the backend it asks, and only    *)
(* the calls of runGoldenPath have a deadline.                             *)
CallKnows(c) ==
  /\ calls[c].run # None => calls[c].run.base = calls[c].base
  /\ calls[c].phase \in {"health", "start"} => calls[c].run = None
  /\ calls[c].phase = "health" => ~ calls[c].late

(* While the newest call goes on, the hook shows how far it has come; once *)
(* it has ended, or was left behind, the controls are free.                *)
NewestIsShown ==
  /\ newest = None => view.status \notin Busy
  /\ newest # None =>
       /\ calls[newest].phase = "ended" => view.status \notin Busy
       /\ calls[newest].phase # "ended" =>
            /\ calls[newest].base = view.base /\ ~ calls[newest].aborted
            /\ view.mode = "live" /\ view.error = NoError
       /\ calls[newest].phase = "health" => view.status = "checking"
       /\ calls[newest].phase = "start" =>
            /\ view.status = "starting"
            /\ view.created = None /\ view.run = None /\ view.result = None
       /\ calls[newest].phase \in {"poll", "sleep", "result"} =>
            view.status = "polling" /\ view.created = calls[newest].run /\ view.result = None

ConsoleInv ==
  /\ TypeOK
  /\ \A c \in Calls : CallKnows(c)
  /\ NewestIsShown
  /\ ShownBelongsTogether
  /\ TimeoutNamesRun

-----------------------------------------------------------------------------
(* What the helpers return.                                                *)

LEMMA BlankIsClean ==
  ASSUME NEW base \in Bases, NEW mode \in {"static", "live"}
  PROVE  /\ Blank(base, mode) \in ViewType
         /\ Blank(base, mode).base = base /\ Blank(base, mode).mode = mode
         /\ Blank(base, mode).status = IF mode = "static" THEN "static" ELSE "idle"
         /\ Blank(base, mode).health = None /\ Blank(base, mode).created = None
         /\ Blank(base, mode).run = None /\ Blank(base, mode).result = None
         /\ Blank(base, mode).error = NoError
  BY DEF Blank, ViewType, NoError

LEMMA AbortedCalls ==
  ASSUME calls \in [Calls -> CallType]
  PROVE  /\ Aborted \in [Calls -> CallType]
         /\ \A c \in Calls : /\ Aborted[c].phase = calls[c].phase
                             /\ Aborted[c].base = calls[c].base
                             /\ Aborted[c].run = calls[c].run
                             /\ Aborted[c].late = calls[c].late
  BY DEF Aborted, CallType

LEMMA EndedTyped == Ended \in CallType
  BY DEF Ended, CallType, Phases

LEMMA InitConsoleInv ==
  ASSUME Init PROVE ConsoleInv
  <1>1. PICK base \in Bases : view = Blank(base, "static")
    BY DEF Init
  <1>2. calls \in [Calls -> CallType] /\ \A c \in Calls : calls[c] = Ended
    BY EndedTyped DEF Init
  <1>3. TypeOK
    BY <1>1, <1>2, BlankIsClean, LiveRunAssumption DEF Init, TypeOK
  <1>4. \A c \in Calls : CallKnows(c)
    BY <1>2 DEF CallKnows, Ended
  <1>5. NewestIsShown
    BY <1>1, BlankIsClean DEF Init, NewestIsShown, Busy
  <1>6. ShownBelongsTogether /\ TimeoutNamesRun
    BY <1>1, BlankIsClean DEF ShownBelongsTogether, TimeoutNamesRun, NoError
  <1>7. QED BY <1>3, <1>4, <1>5, <1>6 DEF ConsoleInv

-----------------------------------------------------------------------------
(* The steps.                                                              *)

LEMMA SwitchInv ==
  ASSUME ConsoleInv,
         NEW base \in Bases, NEW mode \in {"static", "live"},
         view' = Blank(base, mode), newest' = None, calls' = Aborted, made' = made
  PROVE  ConsoleInv'
  <1>1. TypeOK'
    BY BlankIsClean, AbortedCalls DEF ConsoleInv, TypeOK
  <1>2. \A c \in Calls : CallKnows(c)'
    BY AbortedCalls DEF ConsoleInv, TypeOK, CallKnows
  <1>3. NewestIsShown'
    BY BlankIsClean DEF NewestIsShown, Busy
  <1>4. ShownBelongsTogether' /\ TimeoutNamesRun'
    BY BlankIsClean DEF ShownBelongsTogether, TimeoutNamesRun, NoError
  <1>5. QED BY <1>1, <1>2, <1>3, <1>4 DEF ConsoleInv

LEMMA BeginCalls ==
  ASSUME ConsoleInv, NEW c \in Calls, NEW phase \in {"health", "start"}, Begin(c, phase)
  PROVE  /\ calls' \in [Calls -> CallType]
         /\ calls'[c].phase = phase /\ calls'[c].base = view.base /\ calls'[c].run = None
         /\ ~ calls'[c].aborted /\ ~ calls'[c].late
         /\ \A d \in Calls : CallKnows(d)'
         /\ newest' = c /\ made' = made
  <1> DEFINE new == [Ended EXCEPT !.phase = phase, !.base = view.base]
  <1>1. TypeOK /\ \A d \in Calls : CallKnows(d)
    BY DEF ConsoleInv
  <1>2. view.base \in Bases /\ phase \in Phases
    BY <1>1 DEF TypeOK, ViewType, Phases
  <1>3. /\ new.phase = phase /\ new.base = view.base /\ new.run = None
        /\ ~ new.aborted /\ ~ new.late
    BY DEF Ended
  <1>4. new \in CallType
    BY <1>2, EndedTyped DEF CallType
  <1> HIDE DEF new
  <1>5. calls' = [Aborted EXCEPT ![c] = new] /\ newest' = c /\ made' = made
    BY DEF Begin, new
  <1>6. Aborted \in [Calls -> CallType]
    BY <1>1, AbortedCalls DEF TypeOK
  <1>7. /\ calls' \in [Calls -> CallType] /\ calls'[c] = new
        /\ \A d \in Calls : d # c => calls'[d] = Aborted[d]
    BY <1>4, <1>5, <1>6
  <1>8. \A d \in Calls : CallKnows(d)'
    BY <1>1, <1>3, <1>7, AbortedCalls DEF TypeOK, CallKnows
  <1>9. QED BY <1>3, <1>5, <1>7, <1>8

LEMMA BeginInv ==
  ASSUME ConsoleInv, NEW c \in Calls, CheckHealth(c) \/ RunGoldenPath(c)
  PROVE  ConsoleInv'
  <1>0. TypeOK /\ ShownBelongsTogether /\ c # None
    BY LiveRunAssumption DEF ConsoleInv
  <1>1. view.mode = "live"
    BY DEF CheckHealth, RunGoldenPath, MayAct
  <1>2. CASE CheckHealth(c)
    <2>1. view' = [view EXCEPT !.error = NoError, !.status = "checking"]
      BY <1>2 DEF CheckHealth
    <2>2. /\ view' \in ViewType
          /\ view'.error = NoError /\ view'.status = "checking"
          /\ view'.base = view.base /\ view'.mode = "live" /\ view'.health = view.health
          /\ view'.created = view.created /\ view'.run = view.run
          /\ view'.result = view.result
      BY <1>0, <1>1, <2>1 DEF TypeOK, ViewType, Busy, NoError
    <2>3. /\ calls' \in [Calls -> CallType]
          /\ calls'[c].phase = "health" /\ calls'[c].base = view.base
          /\ calls'[c].run = None /\ ~ calls'[c].aborted
          /\ \A d \in Calls : CallKnows(d)'
          /\ newest' = c /\ made' = made
      BY <1>2, BeginCalls DEF CheckHealth
    <2>4. TypeOK'
      BY <1>0, <2>2, <2>3 DEF TypeOK
    <2>5. NewestIsShown'
      BY <1>0, <2>2, <2>3 DEF NewestIsShown
    <2>6. ShownBelongsTogether' /\ TimeoutNamesRun'
      BY <1>0, <2>2 DEF ShownBelongsTogether, TimeoutNamesRun, NoError
    <2>7. QED BY <2>3, <2>4, <2>5, <2>6 DEF ConsoleInv
  <1>3. CASE RunGoldenPath(c)
    <2>1. view' = [view EXCEPT !.created = None, !.run = None, !.result = None,
                               !.error = NoError, !.status = "starting"]
      BY <1>3 DEF RunGoldenPath
    <2>2. /\ view' \in ViewType
          /\ view'.error = NoError /\ view'.status = "starting"
          /\ view'.base = view.base /\ view'.mode = "live" /\ view'.health = view.health
          /\ view'.created = None /\ view'.run = None /\ view'.result = None
      BY <1>0, <1>1, <2>1 DEF TypeOK, ViewType, Busy, NoError
    <2>3. /\ calls' \in [Calls -> CallType]
          /\ calls'[c].phase = "start" /\ calls'[c].base = view.base
          /\ calls'[c].run = None /\ ~ calls'[c].aborted
          /\ \A d \in Calls : CallKnows(d)'
          /\ newest' = c /\ made' = made
      BY <1>3, BeginCalls DEF RunGoldenPath
    <2>4. TypeOK'
      BY <1>0, <2>2, <2>3 DEF TypeOK
    <2>5. NewestIsShown'
      BY <1>0, <2>2, <2>3 DEF NewestIsShown
    <2>6. ShownBelongsTogether' /\ TimeoutNamesRun'
      BY <1>0, <2>2 DEF ShownBelongsTogether, TimeoutNamesRun, NoError
    <2>7. QED BY <2>3, <2>4, <2>5, <2>6 DEF ConsoleInv
  <1>4. QED BY <1>2, <1>3

(* A step after which a call has ended. *)
LEMMA EndedCalls ==
  ASSUME ConsoleInv, NEW c \in Calls, Goto(c, "ended")
  PROVE  /\ calls' \in [Calls -> CallType]
         /\ calls'[c] = Ended
         /\ \A d \in Calls : d # c => calls'[d] = calls[d]
         /\ \A d \in Calls : CallKnows(d)'
  <1>1. calls' = [calls EXCEPT ![c] = Ended] /\ calls \in [Calls -> CallType]
    BY DEF Goto, ConsoleInv, TypeOK
  <1>2. /\ calls' \in [Calls -> CallType] /\ calls'[c] = Ended
        /\ \A d \in Calls : d # c => calls'[d] = calls[d]
    BY <1>1, EndedTyped
  <1>3. \A d \in Calls : CallKnows(d)'
    BY <1>2 DEF ConsoleInv, CallKnows, Ended
  <1>4. QED BY <1>2, <1>3

(* A step after which a call goes on with its next phase. *)
LEMMA MovedCalls ==
  ASSUME ConsoleInv, NEW c \in Calls, calls[c].phase \notin {"ended", "health", "start"},
         NEW phase \in {"poll", "sleep", "result"}, Goto(c, phase)
  PROVE  /\ calls' \in [Calls -> CallType]
         /\ calls'[c].phase = phase
         /\ calls'[c].base = calls[c].base /\ calls'[c].run = calls[c].run
         /\ calls'[c].aborted = calls[c].aborted /\ calls'[c].late = calls[c].late
         /\ \A d \in Calls : d # c => calls'[d] = calls[d]
         /\ \A d \in Calls : CallKnows(d)'
  <1> DEFINE new == [calls[c] EXCEPT !.phase = phase]
  <1>1. calls' = [calls EXCEPT ![c] = new] /\ calls \in [Calls -> CallType]
    BY DEF Goto, ConsoleInv, TypeOK
  <1>2. /\ new \in CallType /\ new.phase = phase
        /\ new.base = calls[c].base /\ new.run = calls[c].run
        /\ new.aborted = calls[c].aborted /\ new.late = calls[c].late
    BY <1>1 DEF CallType, Phases
  <1> HIDE DEF new
  <1>3. /\ calls' \in [Calls -> CallType] /\ calls'[c] = new
        /\ \A d \in Calls : d # c => calls'[d] = calls[d]
    BY <1>1, <1>2
  <1>4. \A d \in Calls : CallKnows(d)'
    BY <1>2, <1>3 DEF ConsoleInv, CallKnows
  <1>5. QED BY <1>2, <1>3, <1>4

LEMMA ReturnInv ==
  ASSUME ConsoleInv, NEW c \in Calls, ~ IsCurrent(c), Return(c)
  PROVE  ConsoleInv'
  <1>1. Goto(c, "ended") /\ view' = view /\ newest' = newest /\ made' = made
    BY DEF Return
  <1>2. newest # c
    BY DEF IsCurrent
  <1>3. TypeOK' /\ \A d \in Calls : CallKnows(d)'
    BY <1>1, EndedCalls DEF ConsoleInv, TypeOK
  <1>4. newest # None => calls'[newest] = calls[newest]
    BY <1>1, <1>2, EndedCalls DEF ConsoleInv, TypeOK
  <1>5. NewestIsShown'
    BY <1>1, <1>4 DEF ConsoleInv, NewestIsShown
  <1>6. ShownBelongsTogether' /\ TimeoutNamesRun'
    BY <1>1 DEF ConsoleInv, ShownBelongsTogether, TimeoutNamesRun
  <1>7. QED BY <1>3, <1>5, <1>6 DEF ConsoleInv

LEMMA ThrowInv ==
  ASSUME ConsoleInv, NEW c \in Calls, calls[c].phase # "ended", Throw(c)
  PROVE  ConsoleInv'
  <1>0. TypeOK /\ ShownBelongsTogether /\ NewestIsShown /\ c # None /\ CallKnows(c)
        /\ calls[c] \in CallType
    BY LiveRunAssumption DEF ConsoleInv, TypeOK
  <1>1. CASE IsCurrent(c)
    <2> DEFINE error == [code |-> IF calls[c].late THEN "run_wait_timeout" ELSE "failed",
                         run  |-> calls[c].run]
    <2>1. /\ Goto(c, "ended") /\ newest' = newest /\ newest = c /\ made' = made
          /\ view' = [view EXCEPT !.status = "error", !.error = error]
      BY <1>1 DEF Throw, Show, FailedRun, IsCurrent
    <2>2. /\ error \in [code : {"none", "failed", "run_wait_timeout"},
                        run : RunIds \cup {None}]
          /\ error.run = calls[c].run
          /\ error.code = "run_wait_timeout" => calls[c].late
      BY <1>0 DEF CallType
    <2> HIDE DEF error
    <2>3. /\ view' \in ViewType
          /\ view'.status = "error" /\ view'.error = error
          /\ view'.base = view.base /\ view'.mode = view.mode /\ view'.health = view.health
          /\ view'.created = view.created /\ view'.run = view.run
          /\ view'.result = view.result
      BY <1>0, <2>1, <2>2 DEF TypeOK, ViewType
    <2>4. TypeOK' /\ (\A d \in Calls : CallKnows(d)') /\ calls'[c] = Ended
      BY <1>0, <2>1, <2>3, EndedCalls DEF TypeOK
    <2>5. NewestIsShown'
      BY <1>0, <2>1, <2>3, <2>4 DEF NewestIsShown, Busy, Ended
    <2>6. view.mode = "live"
      BY <1>0, <2>1 DEF NewestIsShown
    <2>7. error.run \in {None, view.created}
          /\ (error.code = "run_wait_timeout" => error.run = view.created)
      BY <1>0, <2>1, <2>2 DEF NewestIsShown, CallKnows, CallType, Phases
    <2>8. ShownBelongsTogether' /\ TimeoutNamesRun'
      BY <1>0, <2>3, <2>6, <2>7 DEF ShownBelongsTogether, TimeoutNamesRun
    <2>9. QED BY <2>4, <2>5, <2>8 DEF ConsoleInv
  <1>2. CASE ~ IsCurrent(c)
    BY <1>2, ReturnInv DEF Throw
  <1>3. QED BY <1>1, <1>2

(* A current call goes on; what is shown changes with it. *)
LEMMA HealthyInv ==
  ASSUME ConsoleInv, NEW c \in Calls, Healthy(c)
  PROVE  ConsoleInv'
  <1>0. TypeOK /\ ShownBelongsTogether /\ NewestIsShown /\ c # None
    BY LiveRunAssumption DEF ConsoleInv
  <1>1. CASE IsCurrent(c)
    <2>1. /\ Goto(c, "ended") /\ newest' = newest /\ newest = c /\ made' = made
          /\ view' = [view EXCEPT !.error = NoError, !.health = calls[c].base,
                                  !.status = "ready"]
          /\ calls[c].phase = "health"
      BY <1>1 DEF Healthy, Show, Return, IsCurrent
    <2>2. calls[c].base = view.base /\ view.mode = "live"
      BY <1>0, <2>1 DEF NewestIsShown
    <2>3. /\ view' \in ViewType
          /\ view'.status = "ready" /\ view'.error = NoError
          /\ view'.base = view.base /\ view'.mode = "live" /\ view'.health = view.base
          /\ view'.created = view.created /\ view'.run = view.run
          /\ view'.result = view.result
      BY <1>0, <2>1, <2>2 DEF TypeOK, ViewType, NoError
    <2>4. TypeOK' /\ (\A d \in Calls : CallKnows(d)') /\ calls'[c] = Ended
      BY <1>0, <2>1, <2>3, EndedCalls DEF TypeOK
    <2>5. NewestIsShown'
      BY <1>0, <2>1, <2>3, <2>4 DEF NewestIsShown, Busy, Ended
    <2>6. ShownBelongsTogether' /\ TimeoutNamesRun'
      BY <1>0, <2>3 DEF ShownBelongsTogether, TimeoutNamesRun, NoError
    <2>7. QED BY <2>4, <2>5, <2>6 DEF ConsoleInv
  <1>2. CASE ~ IsCurrent(c)
    BY <1>2, ReturnInv DEF Healthy
  <1>3. QED BY <1>1, <1>2

LEMMA StartedInv ==
  ASSUME ConsoleInv, NEW c \in Calls, Started(c)
  PROVE  ConsoleInv'
  <1> DEFINE run == [base |-> calls[c].base, number |-> made + 1]
  <1>0. TypeOK /\ ShownBelongsTogether /\ NewestIsShown /\ c # None
        /\ calls[c] \in CallType
    BY LiveRunAssumption DEF ConsoleInv, TypeOK
  <1>1. calls[c].phase = "start" /\ made + 1 \in 1 .. MaxRuns /\ made' = made + 1
        /\ newest' = newest /\ made' \in 0 .. MaxRuns
    BY <1>0, LiveRunAssumption DEF Started, TypeOK
  <1>2. CASE IsCurrent(c)
    <2> DEFINE new == [calls[c] EXCEPT !.phase = "poll", !.run = run]
    <2>1. /\ newest = c
          /\ calls' = [calls EXCEPT ![c].phase = "poll", ![c].run = run]
          /\ view' = [view EXCEPT !.created = run, !.status = "polling"]
      BY <1>2 DEF Started, IsCurrent
    <2>2. /\ calls[c].base = view.base /\ view.mode = "live" /\ view.error = NoError
          /\ ~ calls[c].aborted
          /\ view.run = None /\ view.result = None
      BY <1>0, <1>1, <2>1 DEF NewestIsShown
    <2>3. run \in RunIds /\ run.base = view.base
      BY <1>0, <1>1, <2>2 DEF RunIds, TypeOK, ViewType
    <2> HIDE DEF run
    <2>4. /\ new \in CallType /\ new.phase = "poll" /\ new.run = run
          /\ new.base = calls[c].base /\ new.aborted = calls[c].aborted
      BY <1>0, <2>3 DEF CallType, Phases
    <2>5. calls' = [calls EXCEPT ![c] = new]
      BY <1>0, <2>1 DEF TypeOK, CallType
    <2> HIDE DEF new
    <2>6. /\ calls' \in [Calls -> CallType] /\ calls'[c] = new
          /\ \A d \in Calls : d # c => calls'[d] = calls[d]
      BY <1>0, <2>4, <2>5 DEF TypeOK
    <2>7. /\ view' \in ViewType
          /\ view'.status = "polling" /\ view'.error = NoError
          /\ view'.base = view.base /\ view'.mode = "live" /\ view'.health = view.health
          /\ view'.created = run /\ view'.run = None /\ view'.result = None
      BY <1>0, <2>1, <2>2, <2>3 DEF TypeOK, ViewType, Busy
    <2>8. TypeOK'
      BY <1>0, <1>1, <2>6, <2>7 DEF TypeOK
    <2>9. \A d \in Calls : CallKnows(d)'
      BY <2>2, <2>3, <2>4, <2>6 DEF ConsoleInv, CallKnows
    <2>10. NewestIsShown'
      BY <1>0, <1>1, <2>1, <2>2, <2>4, <2>6, <2>7 DEF NewestIsShown
    <2>11. ShownBelongsTogether' /\ TimeoutNamesRun'
      BY <1>0, <2>3, <2>7 DEF ShownBelongsTogether, TimeoutNamesRun, NoError
    <2>12. QED BY <2>8, <2>9, <2>10, <2>11 DEF ConsoleInv
  <1>3. CASE ~ IsCurrent(c)
    <2>1. Goto(c, "ended") /\ view' = view /\ newest # c
      BY <1>3 DEF Started, IsCurrent
    <2>2. TypeOK' /\ \A d \in Calls : CallKnows(d)'
      BY <1>0, <1>1, <2>1, EndedCalls DEF TypeOK
    <2>3. newest # None => calls'[newest] = calls[newest]
      BY <1>0, <2>1, EndedCalls DEF TypeOK
    <2>4. NewestIsShown' /\ ShownBelongsTogether' /\ TimeoutNamesRun'
      BY <1>1, <2>1, <2>3
         DEF ConsoleInv, NewestIsShown, ShownBelongsTogether, TimeoutNamesRun
    <2>5. QED BY <2>2, <2>4 DEF ConsoleInv
  <1>4. QED BY <1>2, <1>3

(* A running answer, or the end of a pause. *)
LEMMA WaitInv ==
  ASSUME ConsoleInv, NEW c \in Calls, PolledRunning(c) \/ Slept(c)
  PROVE  ConsoleInv'
  <1>0. TypeOK /\ NewestIsShown
    BY DEF ConsoleInv
  <1>1. calls[c].phase \in {"poll", "sleep"}
    BY DEF PolledRunning, Slept
  <1>2. CASE Throw(c)
    BY <1>1, <1>2, ThrowInv
  <1>3. ASSUME NEW phase \in {"poll", "sleep"}, Goto(c, phase),
               UNCHANGED <<view, newest, made>>
        PROVE  ConsoleInv'
    <2>1. TypeOK' /\ \A d \in Calls : CallKnows(d)'
      BY <1>0, <1>1, <1>3, MovedCalls DEF TypeOK
    <2>2. NewestIsShown'
      BY <1>0, <1>1, <1>3, MovedCalls DEF NewestIsShown, TypeOK
    <2>3. ShownBelongsTogether' /\ TimeoutNamesRun'
      BY <1>3 DEF ConsoleInv, ShownBelongsTogether, TimeoutNamesRun
    <2>4. QED BY <2>1, <2>2, <2>3 DEF ConsoleInv
  <1>4. QED BY <1>2, <1>3 DEF PolledRunning, Slept

LEMMA PolledTerminalInv ==
  ASSUME ConsoleInv, NEW c \in Calls, PolledTerminal(c)
  PROVE  ConsoleInv'
  <1>0. TypeOK /\ ShownBelongsTogether /\ NewestIsShown /\ c # None
        /\ calls[c] \in CallType
    BY LiveRunAssumption DEF ConsoleInv, TypeOK
  <1>1. CASE IsCurrent(c)
    <2>1. /\ Goto(c, "result") /\ newest' = newest /\ newest = c /\ made' = made
          /\ view' = [view EXCEPT !.run = calls[c].run]
          /\ calls[c].phase = "poll"
      BY <1>1 DEF PolledTerminal, Show, Return, IsCurrent
    <2>2. /\ view.mode = "live" /\ view.error = NoError /\ view.status = "polling"
          /\ view.created = calls[c].run /\ view.result = None
      BY <1>0, <2>1 DEF NewestIsShown
    <2>3. /\ view' \in ViewType
          /\ view'.status = view.status /\ view'.error = view.error
          /\ view'.base = view.base /\ view'.mode = view.mode /\ view'.health = view.health
          /\ view'.created = view.created /\ view'.run = view.created
          /\ view'.result = view.result
      BY <1>0, <2>1, <2>2 DEF TypeOK, ViewType
    <2>4. TypeOK' /\ \A d \in Calls : CallKnows(d)'
      BY <1>0, <2>1, <2>3, MovedCalls DEF TypeOK
    <2>5. NewestIsShown'
      BY <1>0, <2>1, <2>2, <2>3, MovedCalls DEF NewestIsShown
    <2>6. ShownBelongsTogether' /\ TimeoutNamesRun'
      BY <1>0, <2>2, <2>3 DEF ShownBelongsTogether, TimeoutNamesRun, NoError
    <2>7. QED BY <2>4, <2>5, <2>6 DEF ConsoleInv
  <1>2. CASE ~ IsCurrent(c)
    BY <1>2, ReturnInv DEF PolledTerminal
  <1>3. QED BY <1>1, <1>2

LEMMA DeliveredInv ==
  ASSUME ConsoleInv, NEW c \in Calls, Delivered(c)
  PROVE  ConsoleInv'
  <1>0. TypeOK /\ ShownBelongsTogether /\ NewestIsShown /\ c # None
        /\ calls[c] \in CallType
    BY LiveRunAssumption DEF ConsoleInv, TypeOK
  <1>1. CASE IsCurrent(c)
    <2>1. /\ Goto(c, "ended") /\ newest' = newest /\ newest = c /\ made' = made
          /\ view' = [view EXCEPT !.result = calls[c].run, !.run = calls[c].run,
                                  !.status = "result"]
          /\ calls[c].phase = "result"
      BY <1>1 DEF Delivered, Show, Return, IsCurrent
    <2>2. view.mode = "live" /\ view.error = NoError /\ view.created = calls[c].run
      BY <1>0, <2>1 DEF NewestIsShown
    <2>3. /\ view' \in ViewType
          /\ view'.status = "result" /\ view'.error = view.error
          /\ view'.base = view.base /\ view'.mode = view.mode /\ view'.health = view.health
          /\ view'.created = view.created /\ view'.run = view.created
          /\ view'.result = view.created
      BY <1>0, <2>1, <2>2 DEF TypeOK, ViewType
    <2>4. TypeOK' /\ (\A d \in Calls : CallKnows(d)') /\ calls'[c] = Ended
      BY <1>0, <2>1, <2>3, EndedCalls DEF TypeOK
    <2>5. NewestIsShown'
      BY <1>0, <2>1, <2>3, <2>4 DEF NewestIsShown, Busy, Ended
    <2>6. ShownBelongsTogether' /\ TimeoutNamesRun'
      BY <1>0, <2>2, <2>3 DEF ShownBelongsTogether, TimeoutNamesRun, NoError
    <2>7. QED BY <2>4, <2>5, <2>6 DEF ConsoleInv
  <1>2. CASE ~ IsCurrent(c)
    BY <1>2, ReturnInv DEF Delivered
  <1>3. QED BY <1>1, <1>2

LEMMA ExpireInv ==
  ASSUME ConsoleInv, NEW c \in Calls, Expire(c)
  PROVE  ConsoleInv'
  <1> DEFINE new == [calls[c] EXCEPT !.late = TRUE]
  <1>1. /\ calls \in [Calls -> CallType] /\ calls' = [calls EXCEPT ![c] = new]
        /\ view' = view /\ newest' = newest /\ made' = made
        /\ calls[c].phase # "health"
    BY DEF ConsoleInv, TypeOK, Expire
  <1>2. /\ new \in CallType /\ new.phase = calls[c].phase /\ new.base = calls[c].base
        /\ new.run = calls[c].run /\ new.aborted = calls[c].aborted
    BY <1>1 DEF CallType
  <1> HIDE DEF new
  <1>3. /\ calls' \in [Calls -> CallType]
        /\ \A d \in Calls : /\ calls'[d].phase = calls[d].phase
                            /\ calls'[d].base = calls[d].base
                            /\ calls'[d].run = calls[d].run
                            /\ calls'[d].aborted = calls[d].aborted
                            /\ d # c => calls'[d].late = calls[d].late
    BY <1>1, <1>2
  <1>4. TypeOK' /\ \A d \in Calls : CallKnows(d)'
    BY <1>1, <1>3 DEF ConsoleInv, TypeOK, CallKnows
  <1>5. NewestIsShown'
    BY <1>1, <1>3 DEF ConsoleInv, TypeOK, NewestIsShown
  <1>6. ShownBelongsTogether' /\ TimeoutNamesRun'
    BY <1>1 DEF ConsoleInv, ShownBelongsTogether, TimeoutNamesRun
  <1>7. QED BY <1>4, <1>5, <1>6 DEF ConsoleInv

LEMMA StepConsoleInv ==
  ASSUME ConsoleInv, [Next]_vars PROVE ConsoleInv'
  <1>1. ASSUME NEW mode \in {"static", "live"}, SetMode(mode) PROVE ConsoleInv'
    <2>1. view.base \in Bases
      BY DEF ConsoleInv, TypeOK, ViewType
    <2>2. QED BY <1>1, <2>1, SwitchInv DEF SetMode, Switched
  <1>2. ASSUME NEW base \in Bases, SetBaseUrl(base) PROVE ConsoleInv'
    <2>1. view.mode \in {"static", "live"}
      BY DEF ConsoleInv, TypeOK, ViewType
    <2>2. QED BY <1>2, <2>1, SwitchInv DEF SetBaseUrl, Connected
  <1>3. ASSUME NEW c \in Calls, Failed(c) \/ Rejected(c) PROVE ConsoleInv'
    BY <1>3, ThrowInv DEF Failed, Rejected, Fetching
  <1>4. CASE UNCHANGED vars
    BY <1>4 DEF vars, ConsoleInv, TypeOK, CallKnows, NewestIsShown, ShownBelongsTogether,
                TimeoutNamesRun
  <1>5. QED BY <1>1, <1>2, <1>3, <1>4, BeginInv, HealthyInv, StartedInv, WaitInv,
               PolledTerminalInv, DeliveredInv, ExpireInv DEF Next

LEMMA AlwaysConsoleInv == Spec => []ConsoleInv
  BY InitConsoleInv, StepConsoleInv, PTL DEF Spec

-----------------------------------------------------------------------------
(* Theorems about LiveRun.                                                 *)

(* Every reachable state of the hook and its calls is well typed.          *)
THEOREM TypeCorrect == Spec => []TypeOK
  <1>1. ConsoleInv => TypeOK
    BY DEF ConsoleInv
  <1>2. QED BY <1>1, AlwaysConsoleInv, PTL

(* Nothing is shown together that belongs to different backends or runs,   *)
(* however many calls overlap.                                             *)
THEOREM ShownStaysTogether == Spec => []ShownBelongsTogether
  <1>1. ConsoleInv => ShownBelongsTogether
    BY DEF ConsoleInv
  <1>2. QED BY <1>1, AlwaysConsoleInv, PTL

(* A timeout tells the run that may still go on, if its id was ever told.  *)
THEOREM TimeoutsNameRuns == Spec => []TimeoutNamesRun
  <1>1. ConsoleInv => TimeoutNamesRun
    BY DEF ConsoleInv
  <1>2. QED BY <1>1, AlwaysConsoleInv, PTL

(* The controls are never disabled without a call that will enable them.   *)
THEOREM ControlsComeBack == Spec => []BusyHasCall
  <1>1. ConsoleInv => BusyHasCall
    <2> SUFFICES ASSUME ConsoleInv, view.status \in Busy PROVE BusyHasCall
      BY DEF BusyHasCall
    <2>1. newest # None /\ calls[newest].phase # "ended" /\ calls[newest] \in CallType
      BY DEF ConsoleInv, TypeOK, NewestIsShown
    <2>2. QED BY <2>1 DEF ConsoleInv, NewestIsShown, BusyHasCall, CallType, Phases, Busy
  <1>2. QED BY <1>1, AlwaysConsoleInv, PTL

(* A call left behind sends no further request.                            *)
THEOREM LeftCallsEnd == Spec => LeftCallsStop
  <1> DEFINE Stops == \A c \in Calls :
                        calls[c].phase # "ended" /\ newest # c
                        /\ calls'[c].phase # calls[c].phase
                          => calls'[c].phase \in {"ended", "sleep"}
  <1>1. ASSUME ConsoleInv, [Next]_vars PROVE Stops
    <2> SUFFICES ASSUME NEW c \in Calls, calls[c].phase # "ended", newest # c,
                        calls'[c].phase # calls[c].phase
                 PROVE  calls'[c].phase \in {"ended", "sleep"}
      OBVIOUS
    <2>0. calls \in [Calls -> CallType] /\ ~ IsCurrent(c)
      BY <1>1 DEF ConsoleInv, TypeOK, IsCurrent
    <2>1. calls' # calls /\ calls' # Aborted
      BY <2>0, AbortedCalls
    <2>2. \A d \in Calls, phase \in {"health", "start"} : ~ Begin(d, phase)
      <3>1. ASSUME NEW d \in Calls, NEW phase \in {"health", "start"}, Begin(d, phase)
            PROVE  FALSE
        <4>1. d # c
          BY <3>1 DEF Begin
        <4>2. calls'[c].phase = Aborted[c].phase
          BY <2>0, <3>1, <4>1, AbortedCalls DEF Begin
        <4>3. QED BY <2>0, <4>2, AbortedCalls
      <3>2. QED BY <3>1
    <2>3. \A d \in Calls, phase \in Phases : Goto(d, phase) => d = c /\ calls'[c].phase = phase
      <3>1. ASSUME NEW d \in Calls, NEW phase \in Phases, Goto(d, phase)
            PROVE  d = c /\ calls'[c].phase = phase
        BY <2>0, <3>1 DEF Goto, CallType, Ended
      <3>2. QED BY <3>1
    <2>4. \A d \in Calls : ~ Expire(d)
      BY <2>0 DEF Expire, CallType
    <2>5. PICK d \in Calls :
            \/ Healthy(d) \/ Started(d) \/ PolledRunning(d) \/ PolledTerminal(d)
            \/ Slept(d) \/ Delivered(d) \/ Failed(d) \/ Rejected(d)
      BY <1>1, <2>1, <2>2, <2>4 DEF Next, vars, SetMode, SetBaseUrl, CheckHealth, RunGoldenPath
    <2>6. d = c
      BY <2>0, <2>3, <2>5 DEF Healthy, Started, PolledRunning, PolledTerminal, Slept, Delivered,
                              Failed, Rejected, Throw, Return, Phases
    <2>7. QED BY <2>0, <2>3, <2>5, <2>6
          DEF Healthy, Started, PolledRunning, PolledTerminal, Slept, Delivered,
              Failed, Rejected, Throw, Return, Phases
  <1>2. ConsoleInv /\ [Next]_vars => [Stops]_vars
    BY <1>1
  <1>3. QED BY <1>2, AlwaysConsoleInv, PTL DEF Spec, LeftCallsStop

-----------------------------------------------------------------------------
(* The events of the server.                                               *)

(* How many turns of the loop it takes until an event is sent. *)
Turns(do) == CASE do = "send" -> 1
               [] do = "submit" -> 2
               [] do = "wake" -> 2
               [] do = "settle" -> 3

(* Of two callbacks of a call, the one whose event comes first is sent     *)
(* first: it needs fewer turns, or as many and stands before the other.    *)
InOrder(q) ==
  \A i, j \in 1 .. Len(q) :
    i # j /\ q[i].call = q[j].call =>
      /\ q[i].kind # q[j].kind
      /\ Rank(q[i].kind) < Rank(q[j].kind) =>
           \/ Turns(q[i].do) < Turns(q[j].do)
           \/ Turns(q[i].do) = Turns(q[j].do) /\ i < j

(* An event is scheduled, or sent, only after the call did what it tells. *)
Happened(kind, c) ==
  /\ call[c] # "idle"
  /\ kind = "tool_end" => call[c] \in {"ended", "seen"}
  /\ kind = "task_result" => call[c] = "seen"

Pending(cb) ==
  IF cb.do \in {"settle", "wake"}
  THEN cb.kind = "task_result" /\ call[cb.call] = "ended"
  ELSE Happened(cb.kind, cb.call)

(* What a client was told of a call is behind everything still to be sent. *)
Told(e) ==
  /\ Happened(e.kind, e.call)
  /\ \A j \in 1 .. Len(ready) :
       ready[j].call = e.call => Rank(e.kind) < Rank(ready[j].kind)

(* A registered connection is one of its run, and has not been closed. *)
Registered ==
  \A r \in Runs :
    /\ active[r] # NoSocket => socketRun[active[r]] = r /\ handler[active[r]] \in {"open", "left"}
    /\ latest[r] # NoSocket => socketRun[latest[r]] = r
                           /\ handler[latest[r]] \in {"open", "left", "closed"}

EventsInv ==
  /\ EventTypeOK
  /\ InOrder(ready)
  /\ \A i \in 1 .. Len(ready) : Pending(ready[i])
  /\ \A s \in Sockets : \A i \in 1 .. Len(received[s]) : Told(received[s][i])
  /\ EventsInOrder
  /\ Registered /\ NewestListens

-----------------------------------------------------------------------------
(* Queues.                                                                 *)

LEMMA TailOf ==
  ASSUME NEW q \in Seq(Callbacks), q # <<>>
  PROVE  /\ Tail(q) \in Seq(Callbacks) /\ Len(Tail(q)) = Len(q) - 1 /\ Len(q) \in Nat \ {0}
         /\ Head(q) = q[1] /\ q[1] \in Callbacks
         /\ \A i \in 1 .. Len(Tail(q)) : i + 1 \in 1 .. Len(q) /\ Tail(q)[i] = q[i + 1]
  OBVIOUS

LEMMA AppendOf ==
  ASSUME NEW q \in Seq(Callbacks), NEW x \in Callbacks
  PROVE  /\ Append(q, x) \in Seq(Callbacks) /\ Len(Append(q, x)) = Len(q) + 1
         /\ Len(q) \in Nat
         /\ \A i \in 1 .. Len(q) : Append(q, x)[i] = q[i]
         /\ Append(q, x)[Len(q) + 1] = x
  OBVIOUS

LEMMA CallbackTyped ==
  ASSUME NEW do \in {"submit", "send", "settle", "wake"}, NEW kind \in Kinds,
         NEW c \in ToolCalls
  PROVE  /\ Callback(do, kind, c) \in Callbacks
         /\ Callback(do, kind, c).do = do /\ Callback(do, kind, c).kind = kind
         /\ Callback(do, kind, c).call = c
  BY DEF Callback, Callbacks

LEMMA ScheduledOf ==
  ASSUME NEW q \in Seq(Callbacks), NEW do \in {"submit", "send"}, NEW kind \in Kinds,
         NEW c \in ToolCalls
  PROVE  q \o Scheduled(do, kind, c) = IF bound THEN Append(q, Callback(do, kind, c)) ELSE q
  <1>1. Callback(do, kind, c) \in Callbacks
    BY CallbackTyped
  <1>2. CASE bound
    BY <1>1, <1>2 DEF Scheduled
  <1>3. CASE ~ bound
    BY <1>3 DEF Scheduled
  <1>4. QED BY <1>2, <1>3

LEMMA TurnsTyped ==
  ASSUME NEW cb \in Callbacks
  PROVE  /\ Turns(cb.do) \in 1 .. 3 /\ Rank(cb.kind) \in 1 .. 3
         /\ cb.kind \in Kinds /\ cb.call \in ToolCalls
  BY DEF Callbacks, Turns, Rank, Kinds

LEMMA TailInOrder ==
  ASSUME NEW q \in Seq(Callbacks), q # <<>>, InOrder(q)
  PROVE  InOrder(Tail(q))
  <1> SUFFICES ASSUME NEW i \in 1 .. Len(Tail(q)), NEW j \in 1 .. Len(Tail(q)),
                      i # j, Tail(q)[i].call = Tail(q)[j].call
               PROVE  /\ Tail(q)[i].kind # Tail(q)[j].kind
                      /\ Rank(Tail(q)[i].kind) < Rank(Tail(q)[j].kind) =>
                           \/ Turns(Tail(q)[i].do) < Turns(Tail(q)[j].do)
                           \/ Turns(Tail(q)[i].do) = Turns(Tail(q)[j].do) /\ i < j
    BY DEF InOrder
  <1>1. /\ i + 1 \in 1 .. Len(q) /\ j + 1 \in 1 .. Len(q) /\ i + 1 # j + 1
        /\ Tail(q)[i] = q[i + 1] /\ Tail(q)[j] = q[j + 1]
        /\ (i + 1 < j + 1 <=> i < j)
    BY TailOf
  <1>2. QED BY <1>1 DEF InOrder

(* An item may join a queue if it fits those of its call. *)
LEMMA AppendInOrder ==
  ASSUME NEW q \in Seq(Callbacks), InOrder(q), NEW x \in Callbacks,
         \A i \in 1 .. Len(q) : q[i].call = x.call =>
           /\ q[i].kind # x.kind
           /\ Rank(q[i].kind) < Rank(x.kind) => Turns(q[i].do) <= Turns(x.do)
           /\ Rank(x.kind) < Rank(q[i].kind) => Turns(x.do) < Turns(q[i].do)
  PROVE  InOrder(Append(q, x))
  <1> DEFINE new == Append(q, x)
  <1>0. \A i \in 1 .. Len(q) : q[i] \in Callbacks
    OBVIOUS
  <1>1. /\ Len(new) = Len(q) + 1 /\ Len(q) \in Nat
        /\ \A i \in 1 .. Len(q) : new[i] = q[i]
        /\ new[Len(q) + 1] = x
    BY AppendOf
  <1> HIDE DEF new
  <1>2. SUFFICES ASSUME NEW i \in 1 .. Len(new), NEW j \in 1 .. Len(new),
                        i # j, new[i].call = new[j].call
                 PROVE  /\ new[i].kind # new[j].kind
                        /\ Rank(new[i].kind) < Rank(new[j].kind) =>
                             \/ Turns(new[i].do) < Turns(new[j].do)
                             \/ Turns(new[i].do) = Turns(new[j].do) /\ i < j
    BY DEF InOrder, new
  <1>3. CASE i \in 1 .. Len(q) /\ j \in 1 .. Len(q)
    BY <1>1, <1>2, <1>3 DEF InOrder
  <1>4. CASE i \in 1 .. Len(q) /\ j = Len(q) + 1
    BY <1>0, <1>1, <1>2, <1>4, TurnsTyped
  <1>5. CASE i = Len(q) + 1 /\ j \in 1 .. Len(q)
    BY <1>0, <1>1, <1>2, <1>5, TurnsTyped
  <1>6. QED BY <1>1, <1>2, <1>3, <1>4, <1>5

(* The first item goes to the end, with one turn less before it. *)
LEMMA TurnInOrder ==
  ASSUME NEW q \in Seq(Callbacks), q # <<>>, InOrder(q), NEW x \in Callbacks,
         x.call = q[1].call, x.kind = q[1].kind, Turns(x.do) + 1 = Turns(q[1].do)
  PROVE  InOrder(Append(Tail(q), x))
  <1>1. ASSUME NEW i \in 1 .. Len(Tail(q)), Tail(q)[i].call = x.call
        PROVE  /\ Tail(q)[i].kind # x.kind
               /\ Rank(Tail(q)[i].kind) < Rank(x.kind) => Turns(Tail(q)[i].do) <= Turns(x.do)
               /\ Rank(x.kind) < Rank(Tail(q)[i].kind) => Turns(x.do) < Turns(Tail(q)[i].do)
    <2>1. /\ i + 1 \in 1 .. Len(q) /\ 1 \in 1 .. Len(q) /\ i + 1 # 1 /\ ~ (i + 1 < 1)
          /\ Tail(q)[i] = q[i + 1] /\ q[i + 1] \in Callbacks /\ q[1] \in Callbacks
      BY TailOf
    <2>2. /\ q[i + 1].kind # q[1].kind
          /\ Rank(q[i + 1].kind) < Rank(q[1].kind) => Turns(q[i + 1].do) < Turns(q[1].do)
          /\ Rank(q[1].kind) < Rank(q[i + 1].kind) =>
               Turns(q[1].do) < Turns(q[i + 1].do) \/ Turns(q[1].do) = Turns(q[i + 1].do)
      BY <1>1, <2>1 DEF InOrder
    <2>3. /\ Turns(q[i + 1].do) \in 1 .. 3 /\ Turns(q[1].do) \in 1 .. 3
          /\ Turns(x.do) \in 1 .. 3
      BY <2>1, TurnsTyped
    <2>4. QED BY <2>1, <2>2, <2>3
  <1>2. QED BY <1>1, TailOf, TailInOrder, AppendInOrder

-----------------------------------------------------------------------------
(* Worker threads and the loop.                                            *)

LEMMA InitEventsInv ==
  ASSUME NoSocket \notin Sockets, EventInit PROVE EventsInv
  <1>1. Len(ready) = 0 /\ \A s \in Sockets : Len(received[s]) = 0
    BY DEF EventInit
  <1>2. 1 .. 0 = {}
    OBVIOUS
  <1>3. EventTypeOK
    <2>1. ready \in Seq(Callbacks) /\ received \in [Sockets -> Seq(Events)]
      BY DEF EventInit
    <2>2. QED BY <2>1 DEF EventInit, EventTypeOK
  <1>4. /\ InOrder(ready) /\ EventsInOrder
        /\ \A i \in 1 .. Len(ready) : Pending(ready[i])
        /\ \A s \in Sockets : \A i \in 1 .. Len(received[s]) : Told(received[s][i])
    BY <1>1, <1>2 DEF InOrder, EventsInOrder
  <1>5. Registered /\ NewestListens
    BY DEF EventInit, Registered, NewestListens
  <1>6. QED BY <1>3, <1>4, <1>5 DEF EventsInv

(* What of the invariant a step of a worker or of the loop has to restore. *)
LEMMA EventStep ==
  ASSUME EventsInv, UNCHANGED socketVars,
         call' \in [ToolCalls -> {"idle", "working", "ended", "seen"}],
         ready' \in Seq(Callbacks), InOrder(ready'),
         \A i \in 1 .. Len(ready') : Pending(ready[i])',
         received' \in [Sockets -> Seq(Events)],
         \A s \in Sockets : \A i \in 1 .. Len(received'[s]) : Told(received[s][i])',
         EventsInOrder'
  PROVE  EventsInv'
  BY DEF EventsInv, EventTypeOK, socketVars, Registered, NewestListens, InOrder

LEMMA StartInv ==
  ASSUME EventsInv, NEW c \in ToolCalls, Start(c)
  PROVE  EventsInv'
  <1> DEFINE cb == Callback("submit", "tool_start", c)
  <1>0. EventTypeOK /\ InOrder(ready) /\ EventsInOrder /\ ready \in Seq(Callbacks)
    BY DEF EventsInv, EventTypeOK
  <1>1. /\ cb \in Callbacks /\ cb.do = "submit" /\ cb.kind = "tool_start" /\ cb.call = c
    BY CallbackTyped DEF Kinds
  <1> HIDE DEF cb
  <1>2. ready' = Append(ready, cb) \/ ready' = ready
    BY <1>0, ScheduledOf DEF Start, Kinds, cb
  <1>3. call[c] = "idle" /\ call' = [call EXCEPT ![c] = "working"] /\ received' = received
        /\ UNCHANGED socketVars
    BY DEF Start
  <1>4. \A i \in 1 .. Len(ready) : ready[i].call # c /\ ready[i] \in Callbacks
    BY <1>0, <1>3 DEF EventsInv, Pending, Happened
  <1>5. ready' \in Seq(Callbacks) /\ InOrder(ready')
    BY <1>0, <1>1, <1>2, <1>4, AppendOf, AppendInOrder
  <1>6. \A i \in 1 .. Len(ready') : ready'[i] = cb \/ (i \in 1 .. Len(ready) /\ ready'[i] = ready[i])
    BY <1>0, <1>1, <1>2, AppendOf
  <1>7. call' \in [ToolCalls -> {"idle", "working", "ended", "seen"}]
    BY <1>0, <1>3 DEF EventTypeOK
  <1>8. ASSUME NEW i \in 1 .. Len(ready') PROVE Pending(ready[i])'
    <2>1. CASE ready'[i] = cb
      BY <1>0, <1>1, <1>3, <2>1 DEF EventTypeOK, Pending, Happened
    <2>2. CASE i \in 1 .. Len(ready) /\ ready'[i] = ready[i]
      <3>1. Pending(ready[i]) /\ ready[i].call # c /\ ready[i].call \in ToolCalls
        BY <1>4, <2>2 DEF EventsInv, Callbacks
      <3>2. QED BY <1>0, <1>3, <2>2, <3>1 DEF EventTypeOK, Pending, Happened
    <2>3. QED BY <1>6, <2>1, <2>2
  <1>9. ASSUME NEW s \in Sockets, NEW i \in 1 .. Len(received'[s])
        PROVE  Told(received[s][i])'
    <2>1. i \in 1 .. Len(received[s]) /\ received'[s][i] = received[s][i]
          /\ received[s][i] \in Events
      BY <1>0, <1>3 DEF EventTypeOK
    <2>2. Told(received[s][i]) /\ received[s][i].call # c /\ received[s][i].call \in ToolCalls
      BY <1>3, <2>1 DEF EventsInv, Told, Happened, Events
    <2>3. QED BY <1>0, <1>1, <1>3, <1>6, <2>1, <2>2 DEF Told, Happened, EventTypeOK
  <1>10. EventsInOrder'
    BY <1>0, <1>3 DEF EventsInOrder, socketVars
  <1>11. QED BY <1>0, <1>3, <1>5, <1>7, <1>8, <1>9, <1>10, EventStep DEF EventTypeOK

LEMMA EndInv ==
  ASSUME EventsInv, NEW c \in ToolCalls, End(c)
  PROVE  EventsInv'
  <1> DEFINE told == Callback("submit", "tool_end", c)
             done == Callback("settle", "task_result", c)
             mid  == ready \o Scheduled("submit", "tool_end", c)
  <1>0. EventTypeOK /\ InOrder(ready) /\ EventsInOrder /\ ready \in Seq(Callbacks)
    BY DEF EventsInv, EventTypeOK
  <1>1. /\ told \in Callbacks /\ told.do = "submit" /\ told.kind = "tool_end" /\ told.call = c
        /\ done \in Callbacks /\ done.do = "settle" /\ done.kind = "task_result"
        /\ done.call = c
    BY CallbackTyped DEF Kinds
  <1> HIDE DEF told, done
  <1>2. mid = Append(ready, told) \/ mid = ready
    BY <1>0, ScheduledOf DEF Kinds, told
  <1>3. /\ call[c] = "working" /\ call' = [call EXCEPT ![c] = "ended"]
        /\ received' = received /\ ready' = mid \o <<done>> /\ UNCHANGED socketVars
    BY DEF End, done
  <1>4. \A i \in 1 .. Len(ready) :
          /\ ready[i] \in Callbacks
          /\ ready[i].call = c => ready[i].kind = "tool_start" /\ ready[i].do \in {"submit", "send"}
    <2> TAKE i \in 1 .. Len(ready)
    <2>1. ready[i] \in Callbacks /\ Pending(ready[i])
      BY <1>0 DEF EventsInv
    <2>2. ready[i].do \in {"submit", "send", "settle", "wake"} /\ ready[i].kind \in Kinds
      BY <2>1 DEF Callbacks
    <2>3. QED BY <1>3, <2>1, <2>2 DEF Pending, Happened, Kinds
  <1> HIDE DEF mid
  <1>5. mid \in Seq(Callbacks) /\ InOrder(mid)
        /\ \A i \in 1 .. Len(mid) : mid[i] = told \/ (i \in 1 .. Len(ready) /\ mid[i] = ready[i])
    <2>1. CASE mid = ready
      BY <1>0, <2>1
    <2>2. CASE mid = Append(ready, told)
      <3>1. InOrder(mid)
        BY <1>0, <1>1, <1>4, <2>2, AppendInOrder DEF Rank, Turns
      <3>2. QED BY <1>0, <1>1, <2>2, <3>1, AppendOf
    <2>3. QED BY <1>2, <2>1, <2>2
  <1>6. \A i \in 1 .. Len(mid) : mid[i].call = c =>
          mid[i].kind \in {"tool_start", "tool_end"} /\ mid[i].do \in {"submit", "send"}
    BY <1>1, <1>4, <1>5
  <1>7. ready' = Append(mid, done)
    BY <1>1, <1>3, <1>5
  <1>8. InOrder(ready')
    BY <1>1, <1>5, <1>6, <1>7, AppendInOrder DEF Rank, Turns
  <1>9. ready' \in Seq(Callbacks)
        /\ \A i \in 1 .. Len(ready') : \/ ready'[i] \in {told, done}
                                       \/ i \in 1 .. Len(ready) /\ ready'[i] = ready[i]
    <2>1. ready' \in Seq(Callbacks)
          /\ \A i \in 1 .. Len(ready') : \/ ready'[i] = done
                                         \/ i \in 1 .. Len(mid) /\ ready'[i] = mid[i]
      BY <1>1, <1>5, <1>7, AppendOf
    <2>2. QED BY <1>5, <2>1
  <1>10. call' \in [ToolCalls -> {"idle", "working", "ended", "seen"}]
    BY <1>0, <1>3 DEF EventTypeOK
  <1>11. \A i \in 1 .. Len(ready') : Pending(ready[i])'
    BY <1>0, <1>1, <1>3, <1>4, <1>9 DEF EventsInv, EventTypeOK, Pending, Happened, Callbacks
  <1>12. ASSUME NEW s \in Sockets, NEW i \in 1 .. Len(received'[s])
         PROVE  Told(received[s][i])'
    <2>1. i \in 1 .. Len(received[s]) /\ received'[s][i] = received[s][i]
          /\ received[s][i] \in Events
      BY <1>0, <1>3 DEF EventTypeOK
    <2>2. /\ Told(received[s][i]) /\ received[s][i].call \in ToolCalls
          /\ received[s][i].call = c => received[s][i].kind = "tool_start"
      BY <1>3, <2>1 DEF EventsInv, Told, Happened, Events, Kinds
    <2>3. Happened(received[s][i].kind, received[s][i].call)'
      BY <1>0, <1>3, <2>1, <2>2 DEF Told, Happened, EventTypeOK
    <2>4. \A j \in 1 .. Len(ready') : ready'[j].call = received[s][i].call
                                        => Rank(received[s][i].kind) < Rank(ready'[j].kind)
      <3> TAKE j \in 1 .. Len(ready')
      <3>1. CASE ready'[j] \in {told, done}
        BY <1>1, <2>2, <3>1 DEF Rank
      <3>2. CASE j \in 1 .. Len(ready) /\ ready'[j] = ready[j]
        BY <2>2, <3>2 DEF Told
      <3>3. QED BY <1>9, <3>1, <3>2
    <2>5. QED BY <2>1, <2>3, <2>4 DEF Told
  <1>13. EventsInOrder'
    BY <1>0, <1>3 DEF EventsInOrder, socketVars
  <1>14. QED BY <1>0, <1>3, <1>8, <1>9, <1>10, <1>11, <1>12, <1>13, EventStep DEF EventTypeOK

(* A turn that only moves its callback on leaves what was told alone. *)
LEMMA MovedInv ==
  ASSUME EventsInv, ready # <<>>, Submitted(ready[1]) \/ Settled(ready[1]),
         UNCHANGED socketVars
  PROVE  EventsInv'
  <1>0. EventTypeOK /\ InOrder(ready) /\ EventsInOrder /\ ready \in Seq(Callbacks)
    BY DEF EventsInv, EventTypeOK
  <1>1. PICK old \in Callbacks : old = ready[1]
    BY <1>0, TailOf
  <1>2. 1 \in 1 .. Len(ready) /\ Pending(old) /\ old.do \in {"submit", "settle"}
    <2>1. 1 \in 1 .. Len(ready)
      BY <1>0, TailOf
    <2>2. QED BY <1>1, <2>1 DEF EventsInv, Submitted, Settled
  <1>3. PICK new \in Callbacks :
          /\ new = Callback(IF old.do = "submit" THEN "send" ELSE "wake", old.kind, old.call)
          /\ new.kind = old.kind /\ new.call = old.call
          /\ new.do = IF old.do = "submit" THEN "send" ELSE "wake"
    BY CallbackTyped DEF Callbacks
  <1>4. ready' = Append(Tail(ready), new) /\ UNCHANGED <<call, received>>
    BY <1>1, <1>2, <1>3 DEF Submitted, Settled
  <1>5. Turns(new.do) + 1 = Turns(old.do)
    BY <1>2, <1>3 DEF Turns
  <1>6. Pending(new)'
    BY <1>2, <1>3, <1>4 DEF Pending, Happened
  <1>7. ready' \in Seq(Callbacks) /\ InOrder(ready')
    BY <1>0, <1>1, <1>3, <1>4, <1>5, TailOf, AppendOf, TurnInOrder
  <1>8. \A i \in 1 .. Len(ready') :
          \/ ready'[i] = new
          \/ i + 1 \in 1 .. Len(ready) /\ ready'[i] = ready[i + 1]
    BY <1>0, <1>4, TailOf, AppendOf
  <1>9. ASSUME NEW i \in 1 .. Len(ready') PROVE Pending(ready[i])'
    <2>1. CASE ready'[i] = new
      BY <1>6, <2>1 DEF Pending, Happened
    <2>2. CASE i + 1 \in 1 .. Len(ready) /\ ready'[i] = ready[i + 1]
      <3>1. Pending(ready[i + 1])
        BY <2>2 DEF EventsInv
      <3>2. QED BY <1>4, <2>2, <3>1 DEF Pending, Happened
    <2>3. QED BY <1>8, <2>1, <2>2
  <1>10. ASSUME NEW s \in Sockets, NEW i \in 1 .. Len(received'[s])
        PROVE  Told(received[s][i])'
    <2>1. Told(received[s][i])
      BY <1>4 DEF EventsInv
    <2>2. \A j \in 1 .. Len(ready') : ready'[j].call = received[s][i].call
                                        => Rank(received[s][i].kind) < Rank(ready'[j].kind)
      BY <1>1, <1>2, <1>3, <1>8, <2>1 DEF Told
    <2>3. QED BY <1>4, <2>1, <2>2 DEF Told, Happened
  <1>11. EventsInOrder'
    BY <1>0, <1>4 DEF EventsInOrder, socketVars
  <1>12. QED BY <1>0, <1>4, <1>7, <1>9, <1>10, <1>11, EventStep DEF EventTypeOK

LEMMA WokenInv ==
  ASSUME EventsInv, ready # <<>>, Woken(ready[1]), UNCHANGED socketVars
  PROVE  EventsInv'
  <1>0. EventTypeOK /\ InOrder(ready) /\ EventsInOrder /\ ready \in Seq(Callbacks)
    BY DEF EventsInv, EventTypeOK
  <1>a. PICK old \in Callbacks : old = ready[1]
    BY <1>0, TailOf
  <1>b. PICK c \in ToolCalls : c = old.call
    BY DEF Callbacks
  <1>1. /\ 1 \in 1 .. Len(ready) /\ old.do = "wake" /\ old.kind = "task_result"
        /\ call[c] = "ended"
    <2>1. 1 \in 1 .. Len(ready)
      BY <1>0, TailOf
    <2>2. Pending(old) /\ old.do = "wake"
      BY <1>a, <2>1 DEF EventsInv, Woken
    <2>3. QED BY <1>b, <2>1, <2>2 DEF Pending
  <1>2. /\ call' = [call EXCEPT ![c] = "seen"] /\ received' = received
        /\ ready' = Tail(ready) \o Scheduled("send", old.kind, c)
    BY <1>a, <1>b DEF Woken
  <1>3. PICK new \in Callbacks :
          /\ new = Callback("send", old.kind, c)
          /\ new.kind = "task_result" /\ new.call = c /\ new.do = "send"
    BY <1>1, CallbackTyped DEF Kinds
  <1>4. ready' = Append(Tail(ready), new) \/ ready' = Tail(ready)
    BY <1>0, <1>1, <1>2, <1>3, TailOf, ScheduledOf DEF Kinds
  <1>5. ready' \in Seq(Callbacks) /\ InOrder(ready')
    <2>1. Turns(new.do) + 1 = Turns(old.do)
      BY <1>1, <1>3 DEF Turns
    <2>2. CASE ready' = Tail(ready)
      BY <1>0, <2>2, TailOf, TailInOrder
    <2>3. CASE ready' = Append(Tail(ready), new)
      BY <1>0, <1>a, <1>b, <1>1, <1>3, <2>1, <2>3, TailOf, AppendOf, TurnInOrder
    <2>4. QED BY <1>4, <2>2, <2>3
  <1>6. \A i \in 1 .. Len(ready') :
          \/ ready'[i] = new
          \/ i + 1 \in 1 .. Len(ready) /\ i + 1 # 1 /\ ready'[i] = ready[i + 1]
    <2>1. CASE ready' = Tail(ready)
      BY <1>0, <2>1, TailOf
    <2>2. CASE ready' = Append(Tail(ready), new)
      BY <1>0, <2>2, TailOf, AppendOf
    <2>3. QED BY <1>4, <2>1, <2>2
  <1>7. \A i \in 1 .. Len(ready) : i # 1 /\ ready[i].call = c => ready[i].kind # "task_result"
    BY <1>0, <1>a, <1>b, <1>1 DEF InOrder
  <1>8. call' \in [ToolCalls -> {"idle", "working", "ended", "seen"}]
    BY <1>0, <1>2 DEF EventTypeOK
  <1>9. ASSUME NEW i \in 1 .. Len(ready') PROVE Pending(ready[i])'
    <2>1. CASE ready'[i] = new
      BY <1>0, <1>1, <1>2, <1>3, <2>1 DEF EventTypeOK, Pending, Happened
    <2>2. CASE i + 1 \in 1 .. Len(ready) /\ i + 1 # 1 /\ ready'[i] = ready[i + 1]
      <3>1. Pending(ready[i + 1]) /\ ready[i + 1] \in Callbacks
            /\ (ready[i + 1].call = c => ready[i + 1].kind # "task_result")
        BY <1>0, <1>7, <2>2 DEF EventsInv
      <3>2. QED BY <1>0, <1>1, <1>2, <2>2, <3>1 DEF EventTypeOK, Pending, Happened, Callbacks
    <2>3. QED BY <1>6, <2>1, <2>2
  <1>10. ASSUME NEW s \in Sockets, NEW i \in 1 .. Len(received'[s])
         PROVE  Told(received[s][i])'
    <2>1. /\ received'[s][i] = received[s][i] /\ received[s][i] \in Events
          /\ Told(received[s][i])
      BY <1>0, <1>2 DEF EventsInv, EventTypeOK
    <2>2. Happened(received[s][i].kind, received[s][i].call)'
      BY <1>0, <1>1, <1>2, <2>1 DEF Told, Happened, EventTypeOK, Events
    <2>3. \A j \in 1 .. Len(ready') : ready'[j].call = received[s][i].call
                                        => Rank(received[s][i].kind) < Rank(ready'[j].kind)
      BY <1>a, <1>b, <1>1, <1>3, <1>6, <2>1 DEF Told
    <2>4. QED BY <2>1, <2>2, <2>3 DEF Told
  <1>11. EventsInOrder'
    BY <1>0, <1>2 DEF EventsInOrder, socketVars
  <1>12. QED BY <1>0, <1>2, <1>5, <1>8, <1>9, <1>10, <1>11, EventStep DEF EventTypeOK

LEMMA SentInv ==
  ASSUME RunOf \in [ToolCalls -> Runs], NoSocket \notin Sockets,
         EventsInv, ready # <<>>, Sent(ready[1]), UNCHANGED socketVars
  PROVE  EventsInv'
  <1>0. EventTypeOK /\ InOrder(ready) /\ EventsInOrder /\ ready \in Seq(Callbacks) /\ Registered
    BY DEF EventsInv, EventTypeOK
  <1>a. PICK old \in Callbacks : old = ready[1]
    BY <1>0, TailOf
  <1>b. PICK event \in Events :
          event = [kind |-> old.kind, call |-> old.call]
          /\ event.kind = old.kind /\ event.call = old.call
    <2>1. old.kind \in Kinds /\ old.call \in ToolCalls
      BY DEF Callbacks
    <2>2. [kind |-> old.kind, call |-> old.call] \in Events
      BY <2>1 DEF Events
    <2>3. QED BY <2>2
  <1>1. /\ 1 \in 1 .. Len(ready) /\ old.do = "send" /\ Pending(old)
        /\ old.kind \in Kinds /\ old.call \in ToolCalls
    <2>1. 1 \in 1 .. Len(ready)
      BY <1>0, TailOf
    <2>2. Pending(old) /\ old.do = "send"
      BY <1>a, <2>1 DEF EventsInv, Sent
    <2>3. QED BY <2>1, <2>2 DEF Callbacks
  <1>2. ready' = Tail(ready) /\ UNCHANGED call
    BY DEF Sent
  <1>3. ready' \in Seq(Callbacks) /\ InOrder(ready')
        /\ \A i \in 1 .. Len(ready') :
             i + 1 \in 1 .. Len(ready) /\ i + 1 # 1 /\ ready'[i] = ready[i + 1]
    BY <1>0, <1>2, TailOf, TailInOrder
  <1>4. ASSUME NEW i \in 1 .. Len(ready') PROVE Pending(ready[i])'
    <2>1. Pending(ready[i + 1]) /\ ready'[i] = ready[i + 1]
      BY <1>3 DEF EventsInv
    <2>2. QED BY <1>2, <2>1 DEF Pending, Happened
  <1>5. ASSUME NEW j \in 1 .. Len(ready'), ready'[j].call = old.call
        PROVE  Rank(old.kind) < Rank(ready'[j].kind)
    <2>1. PICK later \in Callbacks : later = ready[j + 1]
      BY <1>0, <1>3
    <2>2. /\ j + 1 \in 1 .. Len(ready) /\ j + 1 # 1 /\ ~ (j + 1 < 1)
          /\ ready'[j] = later /\ later.call = old.call
      BY <1>3, <1>5, <2>1
    <2>3. /\ later.kind # old.kind
          /\ Rank(later.kind) < Rank(old.kind) =>
               \/ Turns(later.do) < Turns(old.do)
               \/ Turns(later.do) = Turns(old.do) /\ j + 1 < 1
      <3>1. \A k \in 1 .. Len(ready) :
              k # 1 /\ ready[k].call = ready[1].call =>
                /\ ready[k].kind # ready[1].kind
                /\ Rank(ready[k].kind) < Rank(ready[1].kind) =>
                     \/ Turns(ready[k].do) < Turns(ready[1].do)
                     \/ Turns(ready[k].do) = Turns(ready[1].do) /\ k < 1
        BY <1>0, <1>1 DEF InOrder
      <3>2. ready[j + 1].call = ready[1].call
        BY <1>a, <2>1, <2>2
      <3>3. QED BY <1>a, <2>1, <2>2, <3>1, <3>2
    <2>4. /\ Turns(later.do) \in 1 .. 3 /\ Turns(old.do) = 1
          /\ Rank(later.kind) \in 1 .. 3 /\ Rank(old.kind) \in 1 .. 3
          /\ later.kind \in Kinds
      BY <1>1, TurnsTyped DEF Turns
    <2>5. Rank(later.kind) # Rank(old.kind)
      BY <1>1, <2>3, <2>4 DEF Kinds, Rank
    <2>6. QED BY <2>2, <2>3, <2>4, <2>5
  <1>6. Told(event)'
    BY <1>1, <1>2, <1>b, <1>5 DEF Told, Pending, Happened
  <1>7. ASSUME NEW s \in Sockets, NEW i \in 1 .. Len(received[s])
        PROVE  /\ received[s][i].call = old.call => Rank(received[s][i].kind) < Rank(old.kind)
               /\ \A e \in Events : e = received[s][i] => Told(e)'
    <2>1. Told(received[s][i])
      BY DEF EventsInv
    <2>2. received[s][i].call = old.call => Rank(received[s][i].kind) < Rank(old.kind)
      BY <1>a, <1>1, <2>1 DEF Told
    <2>3. ASSUME NEW e \in Events, e = received[s][i] PROVE Told(e)'
      BY <1>2, <1>3, <2>1, <2>3 DEF Told, Happened
    <2>4. QED BY <2>2, <2>3
  <1>8. ASSUME NEW s \in Sockets
        PROVE  \/ received'[s] = received[s]
               \/ received'[s] = Append(received[s], event) /\ RunOf[old.call] = socketRun[s]
    <2>1. received'[s] = IF active[RunOf[old.call]] = s /\ handler[s] = "open"
                         THEN Append(received[s], event) ELSE received[s]
      BY <1>a, <1>b DEF Sent, Listens
    <2>2. active[RunOf[old.call]] = s => RunOf[old.call] = socketRun[s]
      BY <1>0, <1>1 DEF Registered
    <2>3. QED BY <2>1, <2>2
  <1>9. ASSUME NEW s \in Sockets
        PROVE  /\ received'[s] \in Seq(Events)
               /\ \A i \in 1 .. Len(received'[s]) : Told(received[s][i])'
               /\ \A i \in 1 .. Len(received'[s]) :
                    /\ RunOf[received'[s][i].call] = socketRun[s]
                    /\ \A j \in 1 .. Len(received'[s]) :
                         i < j /\ received'[s][i].call = received'[s][j].call
                           => Rank(received'[s][i].kind) < Rank(received'[s][j].kind)
    <2>1. PICK seen \in Seq(Events) : seen = received[s]
      BY <1>0 DEF EventTypeOK
    <2>2. PICK next \in {seen, Append(seen, event)} :
            /\ next = received'[s]
            /\ next = Append(seen, event) => RunOf[event.call] = socketRun[s]
               \/ next = seen
      BY <1>8, <1>b, <2>1
    <2>3. /\ Len(seen) \in Nat
          /\ \A i \in 1 .. Len(seen) :
               /\ seen[i] \in Events
               /\ RunOf[seen[i].call] = socketRun[s]
               /\ seen[i].call = event.call => Rank(seen[i].kind) < Rank(event.kind)
               /\ \A e \in Events : e = seen[i] => Told(e)'
               /\ \A j \in 1 .. Len(seen) : i < j /\ seen[i].call = seen[j].call
                                              => Rank(seen[i].kind) < Rank(seen[j].kind)
      BY <1>0, <1>b, <1>7, <2>1 DEF EventsInOrder
    <2>4. CASE next = seen
      <3>1. \A i \in 1 .. Len(next) : \A e \in Events : e = next[i] => Told(e)'
        BY <2>3, <2>4
      <3>2. \A i \in 1 .. Len(received'[s]) : Told(received[s][i])'
        BY <2>2, <2>3, <2>4, <3>1 DEF Told, Happened
      <3>3. QED BY <2>2, <2>3, <2>4, <3>2
    <2>5. CASE next # seen
      <3>1. next = Append(seen, event) /\ RunOf[event.call] = socketRun[s]
        BY <2>2, <2>5
      <3>2. /\ next \in Seq(Events) /\ Len(next) = Len(seen) + 1
            /\ \A i \in 1 .. Len(seen) : next[i] = seen[i]
            /\ next[Len(seen) + 1] = event
        BY <2>3, <3>1
      <3>3. \A i \in 1 .. Len(seen) + 1 : i \in 1 .. Len(seen) \/ i = Len(seen) + 1
        BY <2>3
      <3>4. ASSUME NEW i \in 1 .. Len(next)
            PROVE  /\ next[i] \in Events
                   /\ \A e \in Events : e = next[i] => Told(e)'
                   /\ RunOf[next[i].call] = socketRun[s]
                   /\ \A j \in 1 .. Len(next) : i < j /\ next[i].call = next[j].call
                        => Rank(next[i].kind) < Rank(next[j].kind)
        <4>1. CASE i = Len(seen) + 1
          <5>1. next[i] = event /\ \A j \in 1 .. Len(next) : ~ (i < j)
            BY <2>3, <3>2, <4>1
          <5>2. QED BY <1>6, <3>1, <5>1
        <4>2. CASE i \in 1 .. Len(seen)
          BY <2>3, <3>2, <3>3, <4>2
        <4>3. QED BY <3>2, <3>3, <4>1, <4>2
      <3>5. ASSUME NEW i \in 1 .. Len(received'[s]) PROVE Told(received[s][i])'
        <4>1. PICK e \in Events : e = received'[s][i] /\ Told(e)'
          BY <2>2, <3>4
        <4>2. QED BY <4>1 DEF Told, Happened
      <3>6. QED BY <2>2, <3>2, <3>4, <3>5
    <2>6. QED BY <2>4, <2>5
  <1>10. received' \in [Sockets -> Seq(Events)]
    <2>1. received' = [s \in Sockets |-> received'[s]]
      BY DEF Sent
    <2>2. QED BY <1>9, <2>1
  <1>11. EventsInOrder'
    BY <1>9 DEF EventsInOrder, socketVars
  <1>12. QED BY <1>0, <1>2, <1>3, <1>4, <1>9, <1>10, <1>11, EventStep DEF EventTypeOK

-----------------------------------------------------------------------------
(* Connections.                                                            *)

LEMMA SocketInv ==
  ASSUME NoSocket \notin Sockets, EventsInv, NEW s \in Sockets,
         Open(s) \/ Connect(s) \/ Leave(s) \/ Disconnect(s)
  PROVE  EventsInv'
  <1>0. EventTypeOK /\ Registered /\ NewestListens /\ socketRun[s] \in Runs
    BY DEF EventsInv, EventTypeOK
  <1>1. UNCHANGED <<call, ready, received, socketRun>>
    BY DEF Open, Connect, Leave, Disconnect
  <1>2. EventTypeOK'
    <2>1. /\ handler' \in [Sockets -> {"new", "accepting", "open", "left", "closed"}]
          /\ bound' \in BOOLEAN
      BY <1>0 DEF EventTypeOK, Open, Connect, Leave, Disconnect
    <2>2. /\ active' \in [Runs -> Sockets \cup {NoSocket}]
          /\ latest' \in [Runs -> Sockets \cup {NoSocket}]
      <3>1. CASE Open(s) \/ Leave(s)
        BY <1>0, <3>1 DEF EventTypeOK, Open, Leave
      <3>2. CASE Connect(s)
        BY <1>0, <3>2 DEF EventTypeOK, Connect
      <3>3. CASE Disconnect(s)
        <4>1. active' = [active EXCEPT ![socketRun[s]] =
                           IF Unregisters(s) THEN NoSocket ELSE active[socketRun[s]]]
              /\ latest' = latest
          BY <3>3 DEF Disconnect
        <4>2. (IF Unregisters(s) THEN NoSocket ELSE active[socketRun[s]]) \in Sockets \cup {NoSocket}
          BY <1>0 DEF EventTypeOK
        <4>3. QED BY <1>0, <4>1, <4>2 DEF EventTypeOK
      <3>4. QED BY <3>1, <3>2, <3>3
    <2>3. QED BY <1>0, <1>1, <2>1, <2>2 DEF EventTypeOK
  <1>3. Registered' /\ NewestListens'
    <2>1. CASE Open(s)
      BY <1>0, <2>1 DEF EventTypeOK, Registered, NewestListens, Open
    <2>2. CASE Connect(s)
      <3>1. \A r \in Runs : active[r] # s /\ latest[r] # s
        BY <1>0, <2>2 DEF Registered, Connect
      <3>2. QED BY <1>0, <2>2, <3>1 DEF EventTypeOK, Registered, NewestListens, Connect
    <2>3. CASE Leave(s)
      BY <1>0, <2>3 DEF EventTypeOK, Registered, NewestListens, Leave
    <2>4. CASE Disconnect(s)
      BY <1>0, <2>4 DEF EventTypeOK, Registered, NewestListens, Disconnect, Unregisters
    <2>5. QED BY <2>1, <2>2, <2>3, <2>4
  <1>4. QED BY <1>1, <1>2, <1>3
        DEF EventsInv, InOrder, Pending, Told, Happened, EventsInOrder

LEMMA StepEventsInv ==
  ASSUME RunOf \in [ToolCalls -> Runs], NoSocket \notin Sockets,
         EventsInv, [EventNext]_eventVars
  PROVE  EventsInv'
  <1>1. CASE Turn
    <2>1. Head(ready) = ready[1] /\ ready # <<>> /\ UNCHANGED socketVars
      BY <1>1 DEF Turn
    <2>2. QED BY <1>1, <2>1, MovedInv, WokenInv, SentInv DEF Turn
  <1>2. CASE UNCHANGED eventVars
    BY <1>2 DEF eventVars, socketVars, EventsInv, EventTypeOK, InOrder, Pending, Told, Happened,
                EventsInOrder, Registered, NewestListens
  <1>3. QED BY <1>1, <1>2, StartInv, EndInv, SocketInv DEF EventNext

LEMMA AlwaysEventsInv ==
  ASSUME RunOf \in [ToolCalls -> Runs], NoSocket \notin Sockets
  PROVE  EventSpec => []EventsInv
  BY InitEventsInv, StepEventsInv, PTL DEF EventSpec

-----------------------------------------------------------------------------
(* Theorems about RunEvents.                                               *)

(* Every client is told what happens in its run and in that order.         *)
THEOREM EventsStayInOrder ==
  ASSUME RunOf \in [ToolCalls -> Runs], NoSocket \notin Sockets
  PROVE  EventSpec => []EventsInOrder
  <1>1. EventsInv => EventsInOrder
    BY DEF EventsInv
  <1>2. QED BY <1>1, AlwaysEventsInv, PTL

(* An old connection's handler never unregisters a new connection.         *)
THEOREM NewestAlwaysListens ==
  ASSUME RunOf \in [ToolCalls -> Runs], NoSocket \notin Sockets
  PROVE  EventSpec => []NewestListens
  <1>1. EventsInv => NewestListens
    BY DEF EventsInv
  <1>2. QED BY <1>1, AlwaysEventsInv, PTL
================================================================================
