--------------------------- MODULE RemoteConnect ---------------------------
(***************************************************************************)
(* How an engine starts a graph that spans several apps: it connects to    *)
(* each of the other apps, trying again when that fails, sends each its    *)
(* part of the start_graph command, and enables its own extensions when    *)
(* all have answered.                                                      *)
(*                                                                         *)
(* Towards one other app there are a remote, its connection, the protocol  *)
(* under it, the stream of the protocol and, while it tries again, a timer *)
(* that belongs to the protocol.  Closing goes down this chain by calls    *)
(* and comes back up by callbacks.  All of it happens in the one thread of *)
(* the engine's runloop, in tasks and in the callbacks of sockets, timers  *)
(* and handles that have been closed: what can go wrong is their order.    *)
(*                                                                         *)
(* The apps have distinct uris.  An app may answer that the connection is  *)
(* not needed because it has connected to this app itself; that other      *)
(* connection is not modelled.  What becomes of the extensions is in       *)
(* GraphLifecycle.                                                         *)
(***************************************************************************)
EXTENDS Naturals, Sequences, FiniteSets, SequencesExt

CONSTANTS
    Remote,         \* the other apps of the graph
    MaxRetries,     \* [Remote -> the max_retries of the protocol; 0: it does not try again]
    Hopeless,       \* the apps to which an attempt may fail before it has begun
    LongRunning,    \* the app's long_running_mode
    MaxClose        \* bound: how often the app tells the engine to close

ASSUME RemoteConnectAssumption ==
    /\ IsFiniteSet(Remote)
    /\ MaxRetries \in [Remote -> Nat]
    /\ Hopeless \subseteq Remote
    /\ LongRunning \in BOOLEAN
    /\ MaxClose \in Nat

VARIABLES
    engine,         \* running, or closed: it may be destroyed
    is_closing,
    uncompleted,    \* the engine's has_uncompleted_async_task
    extension_context,  \* none, open or closed
    start,          \* the start_graph command: none, connecting, enabled or failed
    waiting,        \* the apps whose cmd_result the paths of the engine wait for
    creating,       \* the apps for which the app's thread is creating a protocol
    conn,           \* per app: the remote and what is under it
    close_requests, \* how often the app told the engine to close
    tasks,          \* the tasks in the runloop
    phase           \* of the runloop: it polls (sockets and timers), drains its tasks, or
                    \* polls and closes handles, having drained them

vars == <<engine, is_closing, uncompleted, extension_context, start, waiting, creating, conn,
          close_requests, tasks, phase>>

\* The chain towards one app.  posts are the tasks that the step at hand posts: there are none
\* between two steps.
Conn == [
    remote : {"none", "init", "closing", "freed"},
    weak : BOOLEAN,             \* the remote is in weak_remotes
    connection : {"none", "init", "closing", "closed"},
    protocol : {"none", "init", "closing", "closed"},
    uncompleted : BOOLEAN,      \* the protocol's has_uncompleted_async_task
    stream : {"none", "open", "closing"},
    attempt : {"none", "first", "retry"},   \* the transport that is connecting
    context : {"none", "armed", "answered", "freed"},   \* connect_to_context
    timer : {"none", "idle", "started", "closing"},     \* retry_timer
    timer_closing : BOOLEAN,    \* the timer's is_closing
    times : Nat,                \* how often it has triggered
    answer : {"none", "ok", "error"},   \* what on_server_connected() told the remote
    answers : Nat,              \* how often it was called
    result : {"none", "sent", "ok", "error", "duplicate"},
    posts : {<<>>}]

Nothing == [
    remote |-> "none", weak |-> FALSE, connection |-> "none", protocol |-> "none",
    uncompleted |-> FALSE, stream |-> "none", attempt |-> "none", context |-> "none",
    timer |-> "none", timer_closing |-> FALSE, times |-> 0, answer |-> "none", answers |-> 0,
    result |-> "none", posts |-> <<>>]

Init ==
    /\ engine = "running"
    /\ is_closing = FALSE
    /\ uncompleted = FALSE
    /\ extension_context = "none"
    /\ start = "none"
    /\ waiting = {}
    /\ creating = {}
    /\ conn = [r \in Remote |-> Nothing]
    /\ close_requests = 0
    /\ tasks = <<<<"start_graph">>>>
    /\ phase = "poll"

CloseTask == <<"close_engine">>

-----------------------------------------------------------------------------
(* The calls down the chain and the callbacks up.  c is conn[r] amidst a    *)
(* step.                                                                   *)

\* ten_timer_stop_async and ten_timer_close_async.
StopTimer(r, c) ==
    [c EXCEPT !.posts = @ \o <<<<"stop_timer", r>>>>
                          \o IF c.timer_closing THEN <<>> ELSE <<<<"close_timer", r>>>>,
              !.timer_closing = TRUE]

\* Faulty variant: the timer may always be started again.
EnableAlways(r, c) == [c EXCEPT !.timer = "started"]

\* Faulty variant: a timer that has triggered often enough is just left.
EnableNoMore(r, c) ==
    IF c.times >= MaxRetries[r] THEN c ELSE [c EXCEPT !.timer = "started"]

\* ten_timer_enable.
Enable(r, c) ==
    IF c.times >= MaxRetries[r] THEN StopTimer(r, c) ELSE [c EXCEPT !.timer = "started"]

\* Faulty variant: the protocol waits only for its stream.
CouldBeCloseWithoutStream(c) == c.stream = "none"

\* ten_protocol_integrated_could_be_close.
CouldBeClose(c) == c.stream = "none" /\ c.timer = "none" /\ ~c.uncompleted

\* ten_protocol_integrated_on_close: the protocol is closed, and so are, by their
\* callbacks, the connection and the remote.
ProtocolOnClose(c) ==
    IF c.protocol = "closing" /\ CouldBeClose(c)
    THEN [c EXCEPT !.protocol = "closed", !.connection = "closed", !.remote = "freed"]
    ELSE c

\* ten_protocol_close.
ProtocolClose(r, c) ==
    IF c.protocol # "init" THEN c
    ELSE LET d == [c EXCEPT !.protocol = "closing",
                            !.stream = IF @ = "open" THEN "closing" ELSE @]
         IN  IF c.timer # "none" THEN StopTimer(r, d) ELSE ProtocolOnClose(d)

\* ten_connection_close.
ConnectionClose(r, c) ==
    IF c.connection # "init" THEN c
    ELSE ProtocolClose(r, [c EXCEPT !.connection = "closing"])

\* ten_remote_close.
RemoteClose(r, c) ==
    IF c.remote # "init" THEN c
    ELSE ConnectionClose(r, [c EXCEPT !.remote = "closing"])

\* ten_engine_return_error_for_cmd_start_graph, for the part of the command that is for r:
\* the paths turn it into an error for the whole command, and each error closes the engine.
Awaited(r) == start = "connecting" /\ r \in waiting
ErrorPosts(r) == IF Awaited(r) THEN <<CloseTask, CloseTask>> ELSE <<CloseTask>>

\* on_server_connected of the remote; its callbacks are cleared after their use.
OnServerConnected(r, c, success) ==
    LET d == [c EXCEPT !.answers = @ + 1] IN
    IF c.answer # "none" THEN d
    ELSE IF success THEN [d EXCEPT !.answer = "ok", !.result = "sent"]
    ELSE RemoteClose(r, [d EXCEPT !.answer = "error", !.posts = @ \o ErrorPosts(r)])

\* Faulty variant: a protocol that is closing is not told.
FinallyConnectedOnly(r, c, success) == [OnServerConnected(r, c, success) EXCEPT !.context = "freed"]

\* ten_protocol_integrated_on_server_finally_connected.
FinallyConnected(r, c, success) ==
    ProtocolOnClose([OnServerConnected(r, c, success) EXCEPT !.context = "freed"])

-----------------------------------------------------------------------------
(* The engine, and the end of a step.                                      *)

\* ten_engine_could_be_close, when the chains are conns.
EngineCouldBeClose(conns, pending, context) ==
    /\ \A r \in Remote : conns[r].remote \in {"none", "freed"}
    /\ context # "open"
    /\ ~pending

Freed(r, c) == conn[r].remote # "freed" /\ c.remote = "freed"

\* The chain towards r becomes c, the tasks that were there are rest, and the engine
\* learns that the remote is gone (ten_engine_on_remote_closed).
Become(r, c, rest) ==
    /\ conn' = [conn EXCEPT ![r] = [c EXCEPT !.posts = <<>>]]
    /\ tasks' = rest \o c.posts
                \o IF Freed(r, c) /\ ~is_closing /\ ~c.weak /\ ~LongRunning
                   THEN <<CloseTask>> ELSE <<>>
    /\ engine' = IF Freed(r, c) /\ is_closing
                    /\ EngineCouldBeClose(conn', uncompleted, extension_context)
                 THEN "closed" ELSE engine

\* If the step told the remote that there is no connection, the command has failed.
AndFail(r, c) ==
    IF conn[r].answer = "none" /\ c.answer = "error" /\ Awaited(r)
    THEN start' = "failed" /\ waiting' = {}
    ELSE UNCHANGED <<start, waiting>>

\* Handles whose closing callback is still to come.
Closing(conns) == \E r \in Remote : conns[r].stream = "closing" \/ conns[r].timer = "closing"

\* A task that leaves none behind ends the draining.
Drained ==
    phase' = IF tasks' # <<>> THEN "drain" ELSE IF Closing(conn') THEN "close" ELSE "poll"

\* process_remaining_tasks_safe: all the tasks, those they post included.
StartDraining ==
    /\ engine = "running"
    /\ phase = "poll"
    /\ tasks # <<>>
    /\ phase' = "drain"
    /\ UNCHANGED <<engine, is_closing, uncompleted, extension_context, start, waiting,
                   creating, conn, close_requests, tasks>>

Task(t) == phase = "drain" /\ engine = "running" /\ tasks # <<>> /\ Head(tasks) = t

\* A callback of a socket or of the timer of r.
Callback(r, c) ==
    /\ engine = "running"
    /\ Become(r, c, tasks)
    /\ AndFail(r, c)
    /\ UNCHANGED <<is_closing, uncompleted, extension_context, creating, close_requests>>

Socket == phase \in {"poll", "close"}

-----------------------------------------------------------------------------
(* Starting.                                                               *)

\* ten_engine_handle_cmd_start_graph: a path and a protocol for every other app.
StartGraph ==
    /\ Task(<<"start_graph">>)
    /\ start' = "connecting"
    /\ waiting' = Remote
    /\ creating' = Remote
    /\ uncompleted' = TRUE
    /\ tasks' = Tail(tasks)
    /\ UNCHANGED <<engine, is_closing, extension_context, conn, close_requests>>
    /\ Drained

\* The addon has created the protocol: a task tells the engine.
CreateProtocol(r) ==
    /\ r \in creating
    /\ creating' = creating \ {r}
    /\ tasks' = Append(tasks, <<"protocol_created", r>>)
    /\ UNCHANGED <<engine, is_closing, uncompleted, extension_context, start, waiting, conn,
                   close_requests, phase>>

\* ten_engine_on_protocol_created when the engine is closing: the protocol is closed at
\* once, and that lets the engine go on closing.
Refused(r) ==
    /\ is_closing
    /\ uncompleted' = FALSE
    /\ conn' = [conn EXCEPT ![r] = [Nothing EXCEPT !.protocol = "closed"]]
    /\ tasks' = Tail(tasks) \o ErrorPosts(r)
    /\ IF Awaited(r) THEN start' = "failed" /\ waiting' = {} ELSE UNCHANGED <<start, waiting>>
    /\ engine' = IF EngineCouldBeClose(conn', FALSE, extension_context)
                 THEN "closed" ELSE engine

\* Faulty variant: the protocol may be closed while it connects.
ConnectUnnoticed(c) == [c EXCEPT !.attempt = "first", !.context = "armed"]

\* ten_protocol_integrated_connect_to has begun.
Connect(c) == [c EXCEPT !.attempt = "first", !.context = "armed", !.uncompleted = TRUE]

\* ten_engine_on_protocol_created otherwise: a weak remote, which connects.
Connecting(r) ==
    LET c == [Nothing EXCEPT !.remote = "init", !.weak = TRUE, !.connection = "init",
                             !.protocol = "init"]
    IN  /\ ~is_closing
        /\ uncompleted' = FALSE
        /\ \E d \in {Connect(c)} \cup (IF r \in Hopeless THEN {FinallyConnected(r, c, FALSE)}
                                                         ELSE {}) :
               Become(r, d, Tail(tasks)) /\ AndFail(r, d)

ProtocolCreated(r) ==
    /\ Task(<<"protocol_created", r>>)
    /\ Refused(r) \/ Connecting(r)
    /\ Drained
    /\ UNCHANGED <<is_closing, extension_context, creating, close_requests>>

-----------------------------------------------------------------------------
(* Connecting.                                                             *)

\* The first attempt failed: a timer takes over the context.
RetryLater(r, c) == Enable(r, [c EXCEPT !.timer = "idle", !.uncompleted = TRUE])

\* ten_transport_on_server_connected.
FirstAttemptEnds(r, success) ==
    /\ Socket
    /\ conn[r].attempt = "first"
    /\ LET c == [conn[r] EXCEPT !.attempt = "none", !.uncompleted = FALSE] IN
       Callback(r, IF c.protocol = "closing" THEN FinallyConnected(r, c, FALSE)
                   ELSE IF success
                   THEN [FinallyConnected(r, c, TRUE) EXCEPT !.stream = "open"]
                   ELSE IF MaxRetries[r] = 0 THEN FinallyConnected(r, c, FALSE)
                   ELSE RetryLater(r, c))
    /\ UNCHANGED phase

\* Faulty variant: the context still has its callback.
AnsweredStillArmed(r, c, success) == StopTimer(r, OnServerConnected(r, c, success))

\* The remote is told, and the timer is no longer needed.
Answered(r, c, success) ==
    StopTimer(r, [OnServerConnected(r, c, success) EXCEPT !.context = "answered"])

\* ten_protocol_integrated_on_retry_timer_triggered, by ten_timer_on_trigger: the next
\* attempt, or there is none.
TimerTriggers(r) ==
    /\ phase = "poll"
    /\ ~Closing(conn)
    /\ conn[r].timer = "started"
    /\ LET c == [conn[r] EXCEPT !.timer = "idle", !.times = @ + 1] IN
       \/ Callback(r, [c EXCEPT !.attempt = "retry"])
       \/ r \in Hopeless /\ Callback(r, Answered(r, c, FALSE))
    /\ UNCHANGED phase

\* ten_transport_on_server_connected_after_retry.
RetryEnds(r, success) ==
    /\ Socket
    /\ conn[r].attempt = "retry"
    /\ conn[r].protocol # "closed"
    /\ LET c == [conn[r] EXCEPT !.attempt = "none"] IN
       Callback(r, IF c.protocol = "closing" THEN c
                   ELSE IF success THEN Answered(r, [c EXCEPT !.stream = "open"], TRUE)
                   ELSE Enable(r, c))
    /\ UNCHANGED phase

\* A task of the timer of r: stop it, or begin to close it.  A freed timer is not touched
\* here, while the code reads its memory.
TimerTask(r) ==
    /\ \/ /\ Task(<<"stop_timer", r>>)
          /\ Become(r, [conn[r] EXCEPT !.timer = IF @ = "started" THEN "idle" ELSE @],
                    Tail(tasks))
       \/ /\ Task(<<"close_timer", r>>)
          /\ Become(r, [conn[r] EXCEPT !.timer = "closing"], Tail(tasks))
    /\ Drained
    /\ UNCHANGED <<is_closing, uncompleted, extension_context, start, waiting, creating,
                   close_requests>>

\* The last callback of a closing handle ends this round of the runloop.
HandleClosed ==
    /\ phase \in {"poll", "close"}
    /\ phase' = IF Closing(conn') THEN phase ELSE "poll"

\* ten_protocol_integrated_on_retry_timer_closed, by ten_timer_do_close.
TimerClosed(r) ==
    /\ conn[r].timer = "closing"
    /\ LET c == [conn[r] EXCEPT !.timer = "none"]
           d == IF c.context = "armed" THEN FinallyConnected(r, c, FALSE)
                                       ELSE [c EXCEPT !.context = "freed"]
       IN  Callback(r, ProtocolOnClose([d EXCEPT !.uncompleted = FALSE]))
    /\ HandleClosed

\* ten_protocol_integrated_on_stream_closed.
StreamClosed(r) ==
    /\ conn[r].stream = "closing"
    /\ Callback(r, ProtocolOnClose([conn[r] EXCEPT !.stream = "none"]))
    /\ HandleClosed

-----------------------------------------------------------------------------
(* What comes from the other app.                                          *)

Posted(t) == \E i \in DOMAIN tasks : tasks[i] = t

\* The stream reads, and has not come to its end.
Reading(r) == Socket /\ conn[r].stream = "open" /\ ~Posted(<<"close_protocol", r>>)

\* ten_stream_on_data: the other side closed the connection, so a task closes the protocol.
PeerCloses(r) ==
    /\ Reading(r)
    /\ Callback(r, [conn[r] EXCEPT !.posts = <<<<"close_protocol", r>>>>])
    /\ UNCHANGED phase

\* ten_protocol_close_task.
CloseProtocolTask(r) ==
    /\ Task(<<"close_protocol", r>>)
    /\ Become(r, ProtocolClose(r, conn[r]), Tail(tasks))
    /\ Drained
    /\ UNCHANGED <<is_closing, uncompleted, extension_context, start, waiting, creating,
                   close_requests>>

\* ten_stream_on_data_sent: the command could not be sent, so the protocol is closed now.
SendFails(r) ==
    /\ Socket
    /\ conn[r].stream = "open"
    /\ conn[r].result = "sent"
    /\ Callback(r, ProtocolClose(r, conn[r]))
    /\ UNCHANGED phase

\* Faulty variant: the first answer is taken for that of all.
AllAnsweredAfterFirst(r) == TRUE

\* ten_path_table_process_cmd_result: this was the last answer that was missing.
AllAnswered(r) == waiting = {r}

\* ten_engine_handle_cmd_result_for_cmd_start_graph with status OK: the remote becomes a
\* normal one, or its connection is not needed.
ResultOk(r) ==
    \E result \in {"ok", "duplicate"} :
        LET c == [conn[r] EXCEPT !.result = result] IN
        /\ Become(r, IF result = "ok" THEN [c EXCEPT !.weak = FALSE] ELSE ConnectionClose(r, c),
                  tasks)
        /\ IF Awaited(r) /\ AllAnswered(r)
           THEN start' = "enabled" /\ extension_context' = "open" /\ waiting' = {}
           ELSE waiting' = waiting \ {r} /\ UNCHANGED <<start, extension_context>>

\* The same with status ERROR: the first error is the answer to the whole command.
ResultError(r) ==
    LET c == [conn[r] EXCEPT !.result = "error"] IN
    /\ Become(r, [c EXCEPT !.posts = IF Awaited(r) THEN <<CloseTask>> ELSE <<>>], tasks)
    /\ IF Awaited(r) THEN start' = "failed" /\ waiting' = {} ELSE UNCHANGED <<start, waiting>>
    /\ UNCHANGED extension_context

\* The cmd_result of r arrives on a protocol that is not closing.
ResultArrives(r) ==
    /\ engine = "running"
    /\ Reading(r)
    /\ conn[r].protocol = "init"
    /\ conn[r].result = "sent"
    /\ ResultOk(r) \/ ResultError(r)
    /\ UNCHANGED <<is_closing, uncompleted, creating, close_requests, phase>>

-----------------------------------------------------------------------------
(* Closing the engine.                                                     *)

\* ten_engine_close_async, called by the app.
CloseEngine ==
    /\ engine = "running"
    /\ close_requests < MaxClose
    /\ close_requests' = close_requests + 1
    /\ tasks' = Append(tasks, CloseTask)
    /\ UNCHANGED <<engine, is_closing, uncompleted, extension_context, start, waiting,
                   creating, conn, phase>>

\* ten_engine_close_sync: every remote is told to close, one after the other in any order.
CloseRemotes ==
    LET told == [r \in Remote |-> RemoteClose(r, conn[r])] IN
    /\ ~is_closing
    /\ is_closing' = TRUE
    /\ conn' = [r \in Remote |-> [told[r] EXCEPT !.posts = <<>>]]
    /\ \E posts \in SetToSeqs(UNION {Range(told[r].posts) : r \in Remote}) :
           /\ \A r \in Remote : told[r].posts \in SubSeqs(posts)
           /\ tasks' = Tail(tasks) \o posts
    /\ engine' = IF EngineCouldBeClose(conn', uncompleted, extension_context)
                 THEN "closed" ELSE engine

CloseEngineTask ==
    /\ Task(CloseTask)
    /\ \/ CloseRemotes
       \/ is_closing /\ tasks' = Tail(tasks) /\ UNCHANGED <<engine, is_closing, conn>>
    /\ Drained
    /\ UNCHANGED <<uncompleted, extension_context, start, waiting, creating, close_requests>>

\* ten_engine_on_extension_context_closed.
ContextCloses ==
    /\ engine = "running"
    /\ is_closing
    /\ extension_context = "open"
    /\ extension_context' = "closed"
    /\ engine' = IF EngineCouldBeClose(conn, uncompleted, "closed") THEN "closed" ELSE engine
    /\ UNCHANGED <<is_closing, uncompleted, start, waiting, creating, conn, close_requests,
                   tasks, phase>>

-----------------------------------------------------------------------------
Timers == \E r \in Remote : TimerTriggers(r)
Handles == \E r \in Remote : TimerClosed(r) \/ StreamClosed(r)
Attempts ==
    \E r \in Remote, success \in BOOLEAN : FirstAttemptEnds(r, success) \/ RetryEnds(r, success)
Tasks ==
    \/ StartDraining \/ StartGraph \/ CloseEngineTask
    \/ \E r \in Remote : ProtocolCreated(r) \/ TimerTask(r) \/ CloseProtocolTask(r)
Peers == \E r \in Remote : PeerCloses(r) \/ SendFails(r) \/ ResultArrives(r)
App == CloseEngine \/ \E r \in Remote : CreateProtocol(r)

Next == Timers \/ Handles \/ Attempts \/ Tasks \/ Peers \/ App \/ ContextCloses

Spec == Init /\ [][Next]_vars

\* The threads run; an attempt to connect ends; a created protocol is handed over; the
\* other app answers, or closes the connection; and the extensions of a closing engine end.
Fairness ==
    /\ WF_vars(Timers) /\ WF_vars(Handles) /\ WF_vars(Tasks) /\ WF_vars(ContextCloses)
    /\ \A r \in Remote :
           /\ WF_vars(CreateProtocol(r))
           /\ WF_vars(\E success \in BOOLEAN : FirstAttemptEnds(r, success)
                                              \/ RetryEnds(r, success))
           /\ WF_vars(PeerCloses(r) \/ SendFails(r) \/ ResultArrives(r))

FairSpec == Spec /\ Fairness

-----------------------------------------------------------------------------
(* Properties.                                                             *)

TaskNames == {"stop_timer", "close_timer", "close_protocol", "protocol_created"}

TypeOK ==
    /\ engine \in {"running", "closed"}
    /\ is_closing \in BOOLEAN
    /\ uncompleted \in BOOLEAN
    /\ extension_context \in {"none", "open", "closed"}
    /\ start \in {"none", "connecting", "enabled", "failed"}
    /\ waiting \subseteq Remote
    /\ creating \subseteq Remote
    /\ conn \in [Remote -> Conn]
    /\ \A r \in Remote : conn[r].times <= MaxRetries[r]
    /\ close_requests \in 0..MaxClose
    /\ tasks \in Seq({CloseTask, <<"start_graph">>} \cup TaskNames \X Remote)
    /\ phase \in {"poll", "drain", "close"}

\* Only when an engine has nothing left of its remotes does it close: no protocol that still
\* has a stream or a timer, and none that is being created, unless the creation of another
\* one has made it forget (its has_uncompleted_async_task counts to one).
EngineClosesLast ==
    engine = "closed" => \A r \in Remote :
        /\ conn[r].protocol \in {"none", "closed"}
        /\ conn[r].stream = "none" /\ conn[r].timer = "none"
        /\ r \in creating \/ Posted(<<"protocol_created", r>>)
               => \E s \in Remote \ {r} : conn[s].protocol # "none"

\* Whoever waits for a connection is told once what became of it, however the end of an
\* attempt, the timer and the closing of the protocol are ordered; and is told before the
\* protocol has closed.
AnsweredOnce ==
    \A r \in Remote :
        /\ conn[r].answers <= 1
        /\ conn[r].protocol = "closed" /\ conn[r].remote # "none" => conn[r].answers = 1

\* The transport that is connecting will call back with the context and the protocol: as
\* long as the protocol is not closing, and in a first attempt also then, they are there.
\* (A retry that is still connecting when the protocol has closed calls back with neither.)
AttemptIsHeld ==
    \A r \in Remote :
        LET c == conn[r] IN
        /\ c.attempt = "first" => c.context = "armed" /\ c.protocol # "closed"
        /\ c.attempt = "retry" /\ c.protocol = "init" => c.context = "armed" /\ c.timer = "idle"

\* A timer is closed once, and is gone only after its tasks; except that a command that
\* could not be sent, or an answer that the connection is not needed, closes the protocol,
\* and so stops the timer, after it has begun to close.
TimerOutlivesItsTasks ==
    \A r \in Remote :
        /\ Posted(<<"close_timer", r>>) => conn[r].timer \in {"idle", "started"}
        /\ Posted(<<"stop_timer", r>>) =>
               \/ conn[r].timer # "none"
               \/ conn[r].result \in {"sent", "duplicate"} /\ conn[r].protocol # "init"

\* What a callback or a task is going to use is still there.
NothingFreedIsUsed == AttemptIsHeld /\ TimerOutlivesItsTasks

\* The extensions of this app are enabled only when each of the others has started its part.
EnabledWhenAllAre ==
    start = "enabled" => \A r \in Remote : conn[r].result \in {"ok", "duplicate"}

\* start_graph is answered, unless the engine is closed before, or another app breaks the
\* connection before it answers: the engine takes no notice of the end of a weak remote.
StartEnds ==
    start = "connecting" ~>
        \/ start \in {"enabled", "failed"} \/ is_closing
        \/ \E r \in waiting : conn[r].result = "sent" /\ conn[r].remote = "freed"

\* A closing engine closes.
EngineCloses == is_closing ~> engine = "closed"
=============================================================================
