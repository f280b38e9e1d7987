------------------------------ MODULE RunEvents ------------------------------
(***************************************************************************)
(* The monitor of api/monitor.py: tools report the start and the end of    *)
(* their calls from worker threads, the run's own coroutine reports what   *)
(* it says next from the server's event loop, and every event is handed to *)
(* that loop, which looks up the WebSocket of the run when it gets to send *)
(* it, while clients connect, go away and connect again.                   *)
(*                                                                         *)
(* The loop is a queue of callbacks, as asyncio runs them: a worker's      *)
(* event is first submitted and becomes a task one turn later; the result  *)
(* of a worker first settles a future and wakes the run's coroutine one    *)
(* turn later.                                                             *)
(***************************************************************************)
EXTENDS Naturals, Sequences

CONSTANTS
  Runs,      (* runs executing at the same time                              *)
  ToolCalls, (* calls of tools                                               *)
  RunOf,     (* the run of each call                                         *)
  Sockets,   (* WebSocket connections                                        *)
  NoSocket   (* no socket                                                    *)

VARIABLES
  call,        (* what each call, and the run waiting for it, has done       *)
  ready,       (* the loop's queue of callbacks                              *)
  bound,       (* a connection has bound the monitor to the loop             *)
  handler,     (* each connection's handler                                  *)
  socketRun,   (* the run a connection was opened for                        *)
  active,      (* active_run_connections                                     *)
  latest,      (* history: the last connection accepted for each run         *)
  received     (* what each client was sent                                  *)

socketVars == <<bound, handler, socketRun, active, latest>>
eventVars == <<call, ready, received, socketVars>>

(* The events about a call, in the order they are about.                   *)
Kinds     == {"tool_start", "tool_end", "task_result"}
Events    == [kind : Kinds, call : ToolCalls]
Callbacks == [do : {"submit", "send", "settle", "wake"}, kind : Kinds, call : ToolCalls]

Rank(kind) == CASE kind = "tool_start" -> 1
                [] kind = "tool_end" -> 2
                [] kind = "task_result" -> 3

Callback(do, kind, c) == [do |-> do, kind |-> kind, call |-> c]

EventTypeOK ==
  /\ call \in [ToolCalls -> {"idle", "working", "ended", "seen"}]
  /\ ready \in Seq(Callbacks)
  /\ bound \in BOOLEAN
  /\ handler \in [Sockets -> {"new", "accepting", "open", "left", "closed"}]
  /\ socketRun \in [Sockets -> Runs]
  /\ active \in [Runs -> Sockets \cup {NoSocket}]
  /\ latest \in [Runs -> Sockets \cup {NoSocket}]
  /\ received \in [Sockets -> Seq(Events)]

EventInit ==
  /\ call = [c \in ToolCalls |-> "idle"]
  /\ ready = <<>> /\ bound = FALSE
  /\ handler = [s \in Sockets |-> "new"]
  /\ socketRun \in [Sockets -> Runs]
  /\ active = [r \in Runs |-> NoSocket] /\ latest = [r \in Runs |-> NoSocket]
  /\ received = [s \in Sockets |-> <<>>]

(* _schedule_websocket_send: before the first connection there is no loop  *)
(* to hand an event to.  run_coroutine_threadsafe submits from a worker,   *)
(* create_task schedules on the loop itself.                               *)
Scheduled(do, kind, c) == IF bound THEN <<Callback(do, kind, c)>> ELSE <<>>

-----------------------------------------------------------------------------
(* Worker threads.                                                         *)

Start(c) ==
  /\ call[c] = "idle"
  /\ call' = [call EXCEPT ![c] = "working"]
  /\ ready' = ready \o Scheduled("submit", "tool_start", c)
  /\ UNCHANGED <<received, socketVars>>

(* report_end, then the return from the worker thread. *)
End(c) ==
  /\ call[c] = "working"
  /\ call' = [call EXCEPT ![c] = "ended"]
  /\ ready' = (ready \o Scheduled("submit", "tool_end", c))
                \o <<Callback("settle", "task_result", c)>>
  /\ UNCHANGED <<received, socketVars>>

-----------------------------------------------------------------------------
(* The event loop runs its next callback.                                  *)

Submitted(next) ==
  /\ next.do = "submit"
  /\ ready' = Append(Tail(ready), Callback("send", next.kind, next.call))
  /\ UNCHANGED <<call, received>>

(* send_to_run: the connection registered for the run when the event is    *)
(* sent.  A client that has gone away is sent nothing; the error of the    *)
(* task is dropped.                                                        *)
Listens(s, r) == active[r] = s

Sent(next) ==
  /\ next.do = "send"
  /\ ready' = Tail(ready)
  /\ received' = [s \in Sockets |->
       IF Listens(s, RunOf[next.call]) /\ handler[s] = "open"
       THEN Append(received[s], [kind |-> next.kind, call |-> next.call])
       ELSE received[s]]
  /\ UNCHANGED call

Settled(next) ==
  /\ next.do = "settle"
  /\ ready' = Append(Tail(ready), Callback("wake", next.kind, next.call))
  /\ UNCHANGED <<call, received>>

(* The coroutine goes on, and process_stream_chunk reports what it says.   *)
Woken(next) ==
  /\ next.do = "wake"
  /\ call' = [call EXCEPT ![next.call] = "seen"]
  /\ ready' = Tail(ready) \o Scheduled("send", next.kind, next.call)
  /\ UNCHANGED received

Turn ==
  /\ ready # <<>>
  /\ Submitted(Head(ready)) \/ Sent(Head(ready)) \/ Settled(Head(ready)) \/ Woken(Head(ready))
  /\ UNCHANGED socketVars

-----------------------------------------------------------------------------
(* Connections.                                                            *)

(* run_websocket_endpoint looks the run up in a thread, then connect_run   *)
(* accepts: the handshakes of several connections overlap.                 *)
Open(s) ==
  /\ handler[s] = "new"
  /\ handler' = [handler EXCEPT ![s] = "accepting"]
  /\ bound' = TRUE
  /\ UNCHANGED <<call, ready, received, socketRun, active, latest>>

(* connect_run after accept: the connection replaces any earlier one. *)
Connect(s) ==
  /\ handler[s] = "accepting"
  /\ handler' = [handler EXCEPT ![s] = "open"]
  /\ active' = [active EXCEPT ![socketRun[s]] = s]
  /\ latest' = [latest EXCEPT ![socketRun[s]] = s]
  /\ UNCHANGED <<call, ready, received, bound, socketRun>>

(* The client goes away; the server has not noticed. *)
Leave(s) ==
  /\ handler[s] = "open"
  /\ handler' = [handler EXCEPT ![s] = "left"]
  /\ UNCHANGED <<call, ready, received, bound, socketRun, active, latest>>

(* disconnect_run: only the connection that is registered is removed. *)
Unregisters(s) == active[socketRun[s]] = s

Disconnect(s) ==
  /\ handler[s] = "left"
  /\ handler' = [handler EXCEPT ![s] = "closed"]
  /\ active' = [active EXCEPT ![socketRun[s]] = IF Unregisters(s) THEN NoSocket ELSE @]
  /\ UNCHANGED <<call, ready, received, bound, socketRun, latest>>

EventNext ==
  \/ \E c \in ToolCalls : Start(c) \/ End(c)
  \/ Turn
  \/ \E s \in Sockets : Open(s) \/ Connect(s) \/ Leave(s) \/ Disconnect(s)

EventSpec == EventInit /\ [][EventNext]_eventVars

-----------------------------------------------------------------------------
(* Properties.                                                             *)

(* A client is sent events of its own run only, and of each call in the    *)
(* order things happened and never twice, although the reports come from   *)
(* two threads and by two ways of different length through the loop        *)
(* (_schedule_websocket_send, send_to_run).                                *)
EventsInOrder ==
  \A s \in Sockets : \A i \in 1 .. Len(received[s]) :
    /\ RunOf[received[s][i].call] = socketRun[s]
    /\ \A j \in 1 .. Len(received[s]) :
         i < j /\ received[s][i].call = received[s][j].call
           => Rank(received[s][i].kind) < Rank(received[s][j].kind)

(* However late the handler of an earlier connection notices that its      *)
(* client has gone, the last connection accepted for a run is the one its  *)
(* events are sent to, until it goes itself (connect_run, disconnect_run). *)
NewestListens ==
  \A r \in Runs :
    latest[r] # NoSocket /\ handler[latest[r]] # "closed" => active[r] = latest[r]
=============================================================================
